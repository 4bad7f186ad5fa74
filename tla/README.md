# VeriMark driver: TLA+ models, model checking and proofs

This directory specifies the libfprint driver for the Kensington VeriMark
match-on-chip fingerprint reader (`src/driver`). The driver is event-driven C:
every operation is an `FpiSsm` state machine whose states submit a command and
whose completion callbacks decide where to go next. Callbacks of the driver, the
sensor, the finger, the client (fprintd) and the clock interleave; the commands
travel through a TLS channel over USB control transfers that can fail at any
point. That is what the models are about.

## The system

| Part | Source | State | Operations | Hard behaviour |
|---|---|---|---|---|
| Match-on-chip operations | `verimark-moc.c` 857-1867 | `task_ssm`, per-operation context (attempt, deadline, child), `enroll_stage`, `enroll_coverage`, `enroll_template_id` | enroll, verify, identify, list, delete, clear: entry point, state handler, one callback per command | cancellation, lost answers, refused commands, retries against deadlines, half-open enroll sessions, prints and templates drifting apart |
| Capture SSM | `verimark-moc.c` 550-848 | `VerimarkCaptureCtx`, `event_seq_num` | arm, wait for press, arm frame, acquire, poll, disarm, finish | stale packets and events, sequence-number wrap, frame deadline, captures that fail half-way |
| Interrupt wait and drain | `verimark-transport.c` 287-523 | wait context, kernel queue of packets | asynchronous wait, synchronous drain | stale press, chain of 500 ms reads |
| Wrapped command | `verimark-moc.c` 458-548 | send context | wrap, submit, unwrap, callback | exactly one callback, status of short answers |
| EP0 command transport, framing | `verimark-transport.c` 1-285, `verimark-transport-framing.c` | chunk table, retry counters | write chunks, read chunks | per-chunk retries, read budget, unread answers |
| TLS channel | `verimark-tls.c` | `established`, `encr_seq`, `decr_seq`, handshake transcript | handshake, wrap, unwrap, close | flight order, sequence numbers after a failed command |
| Crypto core | `verimark-tls-crypto.c` | none | PRF, GCM, ECDH, certificates | none (arithmetic) |
| Pairing | `verimark-pairing.c` | the pairing file | pair, save, load | crash between pairing and saving, truncated file |
| Device | `verimark.c` | interface, endpoint, `sid`, `pairing`, `tls` | open, close, the operation vfuncs, cancel | release on each failed step of open |
| libfprint, fprintd, sensor | outside | current action, stored prints, templates, enroll session, frame, events | | they are the environment |

How the parts interact: a vfunc of the device calls an operation; the operation
starts captures as separate SSMs and gets their completion as a callback; every
sensor command goes `verimark_moc_send` → `verimark_tls_wrap` → `verimark_cmd` →
`verimark_tls_unwrap` → callback. The capture additionally reads the interrupt
endpoint. All driver code runs on one main loop, so a callback is atomic; between
two callbacks anything can happen: the client cancels, the deadline passes, the
finger moves, the sensor executes what it was sent, or a transfer fails before or
after the sensor executed the command.

What makes each part correct:

- operations: one completion per action with the report libfprint expects; a print
  the client keeps is backed by a template; a template without a print is explained;
  enroll works on its own session and finalizes the id the sensor minted; every
  command that uses a frame has a fresh one of the right kind; a match is real;
  every action ends;
- capture: success means the sensor holds the requested frame; no frame event and no
  press of this capture is lost; a success leaves the sensor disarmed; it ends;
- transport and channel: an answer belongs to its command or the command fails, and
  the channel says so instead of delivering another command's answer;
- open and pairing: no stored credential is ever overwritten, a crash at any step
  leaves a state the next open copes with, and a session that opens is keyed in this
  handshake with a credential the sensor accepted.

## Modules

| Module | What it is |
|---|---|
| `Framing` | the arithmetic of the chunks: padding, the plan of control-WRITEs and their flags, the size of a control-READ |
| `RoundTrip` | what can become of a command and its answer on EP0 (abstract) |
| `Transport` | `verimark_cmd`: the chunked write, the chunked read with retries and budget, and the sensor's side of each transfer; implements `RoundTrip` |
| `FpDevice` | libfprint's contract with a driver (external, abstract): start, cancel, complete, refuse, and which report and result belong together |
| `MocDevice` | the six operations, the sensor's enroll session and template store, the client's prints; implements `FpDevice` |
| `CaptureContract` | what the operations rely on when they start a capture (abstract) |
| `Capture` | the capture SSM with the interrupt wait, the sensor's event log, mask, acquisition and the finger; implements `CaptureContract` |
| `CommandChannel` | what the operations rely on when they send commands (abstract) |
| `Session` | dev_open to dev_close: sensor id, pairing file, handshake, wrapped commands, crashes, the sensor's TLS session and unread answers; is built from `RoundTrip`'s operations and implements `CommandChannel` |
| `ControlComm` | the prototype's `_ctrl_write`, round by round: the reference of the plan of chunks |
| `MocDeviceProofs`, `CaptureProofs`, `SessionProofs`, `CommandChannelProofs`, `FramingProofs`, `TransportProofs`, `ControlCommProofs` | theorems about these modules and their proofs |
| `MCMocDevice`, `MCCapture`, `MCSession`, `MCTransport` | the modules the configurations run; `MCTransport` puts `Transport` beside `ControlComm` |

How they fit, from the wire up: `Transport` implements `RoundTrip`; `Session` is built from
`RoundTrip`'s operations (`Ep0!Arrives`, `Ep0!Begins`, `Ep0!Spoilt`) and implements `CommandChannel`, which
is what the operations may rely on. `Capture` implements `CaptureContract`, which `MocDevice` uses as a
step; `MocDevice` implements libfprint's `FpDevice`.

**Transport.** `ssm` is the state of `verimark_cmd`'s SSM; `wchunk_idx`, `rmax`, `rbuf`, `rfirst` and
`rretries` are the fields of `VerimarkCmdCtx`. An action is the completion callback of one transfer,
together with the state handler that submitted it: `on_write_chunk_done`, `on_read_chunk_done`
(`ReadAnswered`, `ReadTimesOut`, `ReadFails`). A transfer that fails may have reached the sensor, or have
taken bytes from it that nobody gets; a cancelled transfer is one that fails. Bytes are
ranges (`of` which command or answer, from where, how many), so "the command, whole" and "two pieces of
different commands" differ while contents do not matter. `Receive` and `GiveUp` are the sensor's side:
`part` is the command it is being sent, `inq` what it has to execute, `ans` what nobody has read. The
functions in `verimark.c` that do the same synchronously (`verimark_ctrl_write_sync`,
`verimark_ctrl_read_sync`) run the same transfers, without a main loop in between; `Session` takes
them as round trips.

What `Transport` implements: the sensor gets a command whole or not at all, whatever the driver is told;
the driver gets an answer whole, or a part of one, or an error; the rest of an answer may
stay behind. `Framing` gives the loop that fills the chunk table in closed form; `PlanIsPrototypes` compares it
with the prototype's loop. `ControlComm` gives that loop by its rounds: where a round starts determines its
transfer, and `CtrlWrite` says of a sequence of transfers that it is the loop's.

**MocDevice.** One action is one callback or entry point; what a callback does
before it returns (report, jump, submit the next command, complete) is that step.
`task_ssm` is the state of the SSM `self->task_ssm` points to, `wire` what this state
waits for (`capture`, a command that was `sent`, is `answered` or has `failed`),
`reply` the decrypted answer reduced to what the callbacks tell apart: whole, too
short for its parser, or empty; status; coverage; id. `Enter(s)` is the state
handler of `s`, `Begin` an entry point's allocation of context and SSM, `Finish` an
SSM's completion callback with its `fpi_device_*_complete`. `attempt`, `late` and
`child` are the operation's context; `late` stands for the comparison with
`overall_deadline_us`. `CommandFails` is any error a command's callback gets, before
or after the sensor executed it: a lost answer is a command the sensor executed
(`SensorCommit`) followed by `CommandFails`. A command or a capture that is entered after a cancel is submitted on a
cancellable that has fired and fails unsent (`Enter`); what was on its way when the cancel came may still reach
the sensor. `enr.own` (did this enroll open the
session?), `erased` and `orphans` are history: `orphans` holds the templates whose
commit's answer was lost, and those a refused delete or clear left behind. `on_del_delete_done` and `on_clr_done` do not look at the status, so
a refusal is reported as done. A capture is one step here:
it ends ok with the frame it was asked for, or fails with any frame left behind.
That is `CaptureContract`'s promise, and `Capture` is shown to keep it.

**Capture.** `cap` is the SSM's state, `wire` as above plus `intr` for the press
wait; `frame_got` and `event_seq_num` are the code's. `mask`, `log`, `next`, `acq`
and `intr` are the sensor's: the armed mask, its latest events and the number of the
next one, the acquisition, the packets nobody has read. `own` marks what this capture
caused (history). `on_intr_read_done` is a read that drops a packet and reads on; the read
that ends the wait is one step with `on_cap_wait_press_done`, which it calls. The
500 ms attempts of the wait are one wait. `verimark_intr_drain_sync` is what an open does to
the queue between captures; it may stop early and reads a bounded number of packets. `Crash`
is the death of the process at any point: the sensor keeps its mask, acquisition and
packets, and the next process starts with event number 0. `CaptureContract` calls it `Die`.

**Session.** `op` is what the driver is doing between `dev_open` and `dev_close`, `wire`
its round trip: a write (`verimark_ctrl_write_sync`) and a read. A write that fails may have
reached the sensor whole or begun; a read may fail, bring a part of the answer, lose it, leave a
part of it behind, or be tried again after it lost bytes (`verimark_ctrl_read_sync`). `dev_open` and `dev_close`
block the main loop, but the sensor, the disk and a crash of the process do not wait
for them, so each transfer and each file operation is a step. What a step does with
the answer it reads is the code's: `IsVersion`, `IsPairReply`, `hs_process_rt1`, `ServerFinished`,
`Decrypts`; `verimark_open_fail` is any other answer, a failed transfer or a failed file
operation. `pd` and `file` hold the number of the generated key pair, `Mixed` for
certificates that belong to another one, `Short` for a file that was truncated and not
written. Keys are the `client_random` they come from, so keys of different
handshakes differ. `inq` and `ans` are the sensor's: commands it has not executed, answers
nobody has read. An answer to a command has one record or several (`recs`); `verimark_tls_unwrap`
counts them one by one, so an answer cut in a later record fails with a count that has
moved. Whether a new command makes it drop them is not known, so both
kinds of sensor are checked (`strict`).

What the runs establish about a command that failed: its record is numbered when it is
built (`verimark_tls_wrap`), so with a strict sensor nothing succeeds before the device
is opened again, and with one that keeps unread answers a later command may get the
answer to an earlier one (it decrypts under the next `decr_seq`), though never the same
answer twice or one of another session. An operation that goes on capturing after a
cancel sends on a cancelled cancellable: it counts records the sensor never sees, with
the same effect.

## What the runs show

| Run | Expect | Question |
|---|---|---|
| `moc_device` | pass | type correctness; prints and templates stay paired (`PrintBacked`, `SlotAccounted`); `OwnSession`, `FinalizeNamesMinted`, `FrameFresh`, `MatchSound`; the refinement of `FpDevice` (`Contract`); `ActionRunsOut`, `ActionEnds` |
| `moc_empty_replies` | pass | the inductive invariant `IInv` with answers of no bytes allowed |
| `capture` | pass | the refinement of `CaptureContract`, `NoFrameMissed`, `TornDown`, `PressNotEaten`, `CaptureRunsOut`, `CaptureEnds` |
| `transport` | pass | `Assembled` (the sensor runs whole commands only), `ReplyFresh` (strict sensors), `CutByBudget`, `TransfersRunOut`, `CommandEnds`, the refinement of `RoundTrip`, and `PlanIsPrototypes`: the plan of chunks is the prototype's up to the size of the table |
| `session` | pass | the refinement of `CommandChannel`, `InStep` (both ends count alike while nothing was lost), `OpenAuthenticated`, `PairingKept`, `StoredIsAccepted` (strict sensors), `CallRunsOut`, `CallEnds` |
| `paired_once` | violation | `driver/README.md:45-48`: a pairing is generated once per sensor id. A failure between 0x93 and the save loses the private key, and the next open pairs again |
| `cancel_unwinds` | violation | `verimark.c:567-570`: a cancel unwinds the SSM. `on_enr_capture_done` starts the capture again, as `on_vfy_capture_done` does |
| `cancel_discards` | violation | `PORTING-PLAN.md:307`: a cancel discards the half-open enroll. Nothing does: the cancel comes while the create command is in flight, and the session stays |
| `retry_error` | violation | `verimark-moc.c:1457-1459`: a retry failure is a report and the completion's error. The report takes the error, and the action completes without one, as `FpDevice` asks |
| `empty_commit` | violation | `verimark-moc.h:153`: the status means something only with two bytes. Enroll's callbacks test it alone, and an empty answer is a success |
| `fresh_press` | violation | `verimark-transport.c:477-479`: only a fresh press satisfies the wait. Captures no longer drain, so a press that came between two captures, under the mask a dead one left armed, satisfies it |
| `config_refused` | violation | `p2_moc.py:309-310`: true iff the frame is there. A refused EVENT_CONFIG lets an old event pass for the new frame |

The `RunsOut` properties are the safety half of the liveness ones: a measure of what is left of an action, a
capture, a command or a call, which every step of the driver lowers. The measures count what the code bounds:
attempts and coverage (`ActionRunsOut`), the states of the SSM and in each a command, its answer and its failure
(`CaptureRunsOut`), chunks, budget and retries (`TransfersRunOut`), round trips and the answers a read can still take
or spoil (`CallRunsOut`). Two loops have no bound but their deadline: an enroll's captures of more samples, and a
capture's `EVENT_READ`s; these steps are allowed before the deadline only.

### Bounds

`MocDevice`: two mintable ids (a template can be confused with another one, and a
second enroll can follow a failed first one; `Capture` and the operations use ids
only by equality), coverage in two steps after zero (no progress, partial progress and full
coverage all happen), one enroll stage (the cap is reached and passed), two verify
attempts (retry and give up), captures counted modulo 2 (only a change is
observed). The configuration with empty answers has one id: its question does not
depend on a second template. `Capture`: event numbers modulo 4 in place of 2^16 (they wrap
several times), a log of two events read two at a time, two unread packets (a stale
one before a fresh one), of which a drain takes one (so it can stop short of a queued press). `Transport`: chunks
of 8 bytes and a table of two, with commands of one padded chunk, exactly two, and one byte too many for the
table; answers shorter than a chunk, exactly a chunk, and longer; budgets that are 0 (read as 1),
end with a chunk, inside the second one, and past the longest answer; one retry per chunk;
two commands or answers in the sensor (a stale one before the fresh one). The driver's budgets
(at most 0x400 + 64) are below its chunk of 4096, so answers of several chunks do not occur today; the
code handles them and the model keeps them. `PlanIsPrototypes` covers every length up to
the longest command's, one byte past the table. `Session`: two generated key pairs (one lost and
one kept, or mixed), four record numbers (handshake, three commands, close), answers of one and two records, three
commands and answers the sensor holds (answers an earlier open left shift those of a
later one); client randoms repeat modulo one more than the messages that can name one.
Runs of the system are not bounded in length, only `Session`'s record numbers and key
pairs are, and the number of commands around at a time: the state spaces are finite and explored completely.

### Fairness

`MocDevice`: callbacks and captures run (the main loop is not blocked and every
transfer and capture has a timeout), a command is eventually answered or fails (the
transfer's timeout), and the deadline passes (a monotonic clock). The client owes
nothing: no fairness on starting or cancelling actions. `Capture`: likewise for
callbacks, commands and the deadline; nobody owes the sensor a finger, a frame or
an event, or the interrupt endpoint an error (`ReadFails` is left out of the callbacks' fairness), so `CaptureEnds` is about
captures nobody touches as well, and the wait for a press ends by its own deadline only. `Transport`: transfers end (each has a
timeout) and their callbacks run; the sensor owes no answer, and `CommandEnds` holds because
the retries of a chunk are counted and the chunks bounded by plan and budget. `Session`: the driver goes on with
a call it is in (`Driver`: transfers, their bounded retries and file operations return); nobody owes an answer,
an open, a command or a close, so `CallEnds` is about silent and lying sensors too.

### Assumptions about the sensor

The firmware is not in the repository; the models take from it what the driver and
the prototype rely on, and let it do anything else. It may refuse any command, answer
with less than the parser needs, drop an object or keep it. Assumed: ids are minted fresh at
full coverage, coverage does not fall within a session, a commit stores the minted
id of a finalized session, create starts a fresh session, a match names a stored
template; events are numbered from the answer to EVENT_CONFIG on; only events of the
armed mask are posted; arming the finger events abandons an acquisition an earlier
capture left open; starting an acquisition drops the previous frame. In `capture` an
accepted EVENT_CONFIG is assumed (`RefusesConfig`), and that an EVENT_READ brings the record of every event it counts
(`CutsReads`); `config_refused` shows what happens without the first. Without the second the event number, which advances
by the count an answer claims (`verimark-moc.c:697`), passes a frame-ready event the scan never saw, as the scan stops
with the records (691), and the capture waits for its deadline; the prototype raises there (`p2_moc.py:279`). With
`CutsReads = TRUE` in `Capture.cfg` TLC shows `NoFrameMissed` violated, and every other property of the run kept. In
`Session` the sensor executes its commands in order, knows the credentials it accepted
for ever, refuses cleartext commands while a session is on
(`findings/36-reset-ownership-attempt.md`), decrypts by its own counters and may
drop its session or refuse a command at any time; a part of an answer does not end
where one of its records does, so it does not pass for a shorter answer. In `Transport` a chunk without 0x4000 starts a
command and drops an unfinished one, one without 0x8000 ends it, and its low bits tell the
padding; commands are executed and answers given in order. Left open, because nothing in the repository
tells: whether a new command drops what is unread (`strict`), what becomes of the rest of an
answer the host does not go on reading, and of an answer that ends where a chunk ends.

## What is proved

`MocDeviceProofs` proves with TLAPS, for every set of ids, every coverage, number of
stages and attempts, and with empty answers allowed or not (from `ZeroIsNoId` and
`BoundsPositive`; `EmptyRepliesBoolean` is not needed):

| Theorem | Says |
|---|---|
| `Invariance` | `Spec => []IInv` |
| `TypeCorrect`, `SlotsAccounted`, `FinalizeSound`, `FramesFresh` | the invariants of that name's property |
| `EnrolledPrintsAreBacked`, `SamplesOwnSession` | `PrintBacked` and `OwnSession`, assuming `~EmptyReplies`: the run `empty_commit` shows why the assumption is needed |
| `MatchesSound` | the action property `MatchSound` |
| `HonoursContract` | the refinement of `FpDevice`: initial states map to initial states, each step to a step or a stutter |
| `ActionsRunOut` | the action property `ActionRunsOut` |

The properties are not inductive on their own. `PrintBacked` after a commit's
callback needs that an answer `ok` to the commit means the template is stored, which
must survive from the sensor's step to the callback (`AnswersTrue`, with
`FinalizeNamesMinted` for the id); `OwnSession` needs the same of the
answer to create; `FinalizeNamesMinted` needs that the sensor minted its session's id
(`SessionMinted`); the refinement needs that the SSM belongs to libfprint's current
action (`TaskOfAction`), because a callback's report is legal for some actions
only. `IInv` is the conjunction; the two conjuncts that need answers with a status are
guarded by `~EmptyReplies` in `UnlessEmpty`. TLC checks `IInv` in `moc_empty_replies`. The
proof has one lemma per group of conjuncts and in it one step per action. `ActionsRunOut` needs one thing more: an enroll
goes on to another sample with less coverage missing, or because the deadline has not passed. That holds because
the coverage it has noted is at most the session's and the answer to a sample tells the session's (`CoverageFollows`),
and the sensor's coverage does not fall.

`FramingProofs` proves, for every length and every size of chunk (a multiple of eight) and table:

| Theorem | Says |
|---|---|
| `PaddedToEight` | padding with C's remainder of a negative number gives the next multiple of eight |
| `PlanCovers` | the chunks planned for a command the table has room for follow each other from its first byte to its last padded one; only the first starts it, only the last ends it |
| `CutPlanNeverEnds` | a longer command is cut, and none of its chunks tells the sensor that it ends |

`ControlCommProofs` proves, also for every length and size:

| Theorem | Says |
|---|---|
| `PlanIsCtrlWrites` | the chunks the driver plans are the transfers of the prototype's loop, as many as the table holds |
| `PlanIsWhole` | of a command the table has room for, they are all of them |
| `CtrlWriteDetermined` | there is only one such sequence, so the plan can be no other |
| `PlanKept` | the invariant `PlanIsPrototypes` |

The driver computes each chunk from its index and the prototype from where the one before ended, and the driver's
remainder is C's. That the plan's rounds are the loop's follows from `PlanCovers` and from the flags of
each chunk. That nothing else satisfies `CtrlWrite` takes an induction over the rounds. The library states
induction for an operator, which the provers cannot use; the proof takes instead the least index at which two sequences
differ (`WellFoundedInduction`).

`TransportProofs` proves, for any lengths, budgets, retries and sizes (from `ChunkSizes` and `LensSane`):

| Theorem | Says |
|---|---|
| `Invariance` | `Spec => []IInv` |
| `CommandsAssembled`, `RepliesFresh` | the invariants `Assembled` and `ReplyFresh` |
| `OnlyBudgetCuts` | the action property `CutByBudget` |
| `CommandsRunOut` | the action property `TransfersRunOut` |
| `LineInvariance` | `Spec => [](IInv /\ LInv)` |
| `TypeCorrect` | the type invariant |
| `ContractKept` | the refinement of `RoundTrip`: initial states map to initial states, each step to a step or a stutter |

None of them is inductive. A command arrives whole because the sensor has exactly the chunks already
written (`PartSent`), which the plan's theorems turn into "the last chunk completes it". An answer is
the command's own because a strict sensor has had nothing else since the first chunk
(`Dropped`): it throws the rest away when that chunk comes, and the driver sends no other until it has read.
`CutByBudget` needs that what was read so far is below the budget (`Buffer`). The refinement maps an answer to a
whole one as long as the driver holds what has been read of it (`Seen`). A retry after a transfer that
lost bytes must then map to an answer that became a part, which needs that the driver never holds more of an
answer than was moved (`Resuming`). That in turn needs that no other command in the sensor has the same number
(`Apart`) and that only the first answer is partly read (`OnlyHead`). `LInv` is the conjunction with the bounds
of `TypeOK`.

`CaptureProofs` proves, for every size of log, batch, interrupt queue and drain, and every modulus of the event
numbers, and with an EVENT_READ that brings the records it counts or not (from `SizesSane` and `CutsBoolean`; `RefusesBoolean` is
not needed):

| Theorem | Says |
|---|---|
| `Typed`, `TypeCorrect` | `Spec => []Typing`, the type invariant |
| `PressReadOnce` | the action property `PressNotEaten` |
| `CapturesRunOut` | the action property `CaptureRunsOut` |
| `FramesHeld`, `TornDownKept`, `FrameSeen` | `Spec => []Frames`, the invariants `TornDown` and `NoFrameMissed`, assuming `RefusesConfig = FALSE`; `FrameSeen` assumes `CutsReads = FALSE` too |
| `ContractKept` | the refinement of `CaptureContract`, under the same assumption, which the run `config_refused` shows is needed |

The invariant has two halves. `Typing` ties the SSM's state to what it waits for. `Frames` says whose frame can be
where: arming the finger events abandons what an earlier capture left open (`Abandoned`), so nothing left passes
for this capture's frame (`NoneOwned`, `Acquiring`); the number EVENT_CONFIG answers is behind no frame-ready event
(`Noted`); from then on the driver is never a whole turn of the counter behind, and a frame-ready event it has not
read says that the sensor holds the frame (`Following`), also while an answer is on its way (`Reading`). These two say
also, where every counted event comes with its record, that no such event is behind the driver unseen. The
proof showed that the modulus must exceed the log's size by two or more. The driver can fall behind by the whole log
plus the one frame-ready event of its own acquisition. With a modulus of `LogSize + 1` it would then take
its number for current and read nothing, and TLC shows `NoFrameMissed` violated. `SizesSane` says
`SeqMod > LogSize + 1`. The code counts modulo 2^16; that the sensor's log is shorter is an assumption about it.

`SessionProofs` proves, for every bound of `Session` and both kinds of sensor (from `SessionBounds` alone):

| Theorem | Says |
|---|---|
| `Invariance` | `Spec => []IInv` |
| `TypeCorrect`, `StaysInStep`, `StoredAccepted` | the type invariant, the invariants `InStep` and `StoredIsAccepted` |
| `PairingsKept`, `OpensAuthenticated` | the action properties `PairingKept` and `OpenAuthenticated` |
| `ContractKept` | the refinement of `CommandChannel`: initial states map to initial states, each step to a step or a stutter |
| `AnswersAreOwn` | until a command of the session is lost, every answer is the answer to the command just sent, whether or not the sensor keeps unread ones |
| `CallsRunOut` | the action property `CallRunsOut` |

`AnswersAreOwn` is a theorem of `CommandChannelProofs` about the channel alone (`BalanceKept`: until a loss, every command but the
one in flight was answered), which `ContractKept` carries over to `Session`. It is what `MocDevice` assumes of answers, and says how long
the assumption is good. For `CallsRunOut`, a stage of an open is worth more than any round trip the sensor's queue can
prolong (`StageIsTrip`, `TripIsBounded`), and within one a read that the driver tries again has taken an answer or made it a
part (`SpoilingRunsOut`), which the sensor can do nothing to undo.

The proof of the invariant sees the answers nobody has read and the commands not executed, in this order, as one line of messages.
A read takes or spoils the first, an execution replaces the first command by its answer, a write adds one at the end
or, with a strict sensor, clears the line first. Each part of `IInv` is about this line:

- `Fresh`: a message that names an earlier handshake cannot live until its random is used again. An open only begins
  a handshake after it has read a version or pair answer, so the messages in front of a message bound how many more
  handshakes can begin before it is read (`Aging`), and the sensor's queue bounds the messages. This is why the model's randoms,
  which repeat, stand for the code's, which do not.
- `Hello`, `Finishing`: so during a handshake only its own messages name its random, and an answer to the second round trip
  says that the sensor has these keys and accepted this credential. `OpenAuthenticated` follows.
- `Talking`: in a session the line holds its commands and their answers in order of their numbers, and the sensor is never behind
  in the records it sent. This carries the order and uniqueness `CommandChannel` promises.
- `Agreeing`: before a command is lost, the line is the current command or its answer, and the counters differ by exactly that
  (`InStep`).
- `StrictLoss`: with a strict sensor, once a command was lost, the two ends' counters differ for the rest of the session and no answer
  decrypts: nothing succeeds until the device is opened again.
- `Filing`, `StrictPairing`: a file is only created where there was none, and the pair answer a strict sensor gives is the one asked for.
- `Counted`: the records read so far are bounded by the commands sent (`decr_seq` in `TypeOK`).

`IInv` of `Session`, `LInv` of `Transport` and the two halves for `Capture` were checked with TLC on the constants of
the runs before they were proved; they are not runs of their own because the theorems say more.

Only model-checked: liveness (`ActionEnds`, `CaptureEnds`, `CommandEnds`, `CallEnds`), which is out of the
prover's reach (fairness and `ENABLED`). What is proved of it are the `RunsOut` theorems: there is no endless run of the driver's
own steps. For the loops that only a deadline ends, that it passes is the fairness on the clock. That the driver has a step to
take as long as it is not done, which turns these theorems into the liveness properties, is what TLC checks. Every
other property of a passing run is the statement of a theorem; for `Capture`'s `NoFrameMissed`, `TornDown` and
`Contract` and for `MocDevice`'s `PrintBacked` and `OwnSession` under the assumptions named above. The refinement of
`FpDevice` is its safety part; its fairness is what `ActionEnds` checks. The runs that expect a violation refute claims,
which is TLC's part.

## Not modelled, and why

The crypto core is arithmetic over libcrypto with test vectors beside it. Byte
offsets of payloads, the SID in the finalize command and the finger number are
layout. Claiming the interface and endpoint discovery keep no state the properties are
about; a loss of power after the save, before the file system has written it, is not
modelled. Time is: how long a command's retries take (26 attempts of 5 s and 20 ms for each chunk; the
prototype makes 25) decides when an operation looks at its deadline again, and only that it does
is checked. `MocDevice` takes answers to belong to their commands; `Session` shows when that is so,
and that with a sensor that keeps unread answers it may not be after a failed command. Of the Python
prototype only `_ctrl_write` is modelled; the analysis tools, the `synatlsmoc` patch and the
install scripts are not part of the running driver.

## Plan

Done: 1. `FpDevice` and `MocDevice`; 2. `CaptureContract` and `Capture`, with the drain and
crashes; 3. the inductive invariant of `MocDevice` and its proof; 4. `CommandChannel` and
`Session` (device open, pairing, TLS channel, answers of several records, liveness); 5. `RoundTrip`
and `Transport`; 6. `Framing` and its theorems; the first invariants of `Transport` proved;
7. the inductive invariants of `Capture` and `Session` and their proofs, with the refinements of `CaptureContract`
and `CommandChannel`; 8. `TypeOK` and the refinement of `RoundTrip` for `Transport`; 9. the plan
of chunks proved to be the prototype's; 10. the theorem about `CommandChannel` alone and what it says of `Session`;
11. the `RunsOut` properties and their proofs.

Left: late answers in `MocDevice`, the operations over a `CommandChannel` whose answers belong to earlier commands. It
would say what a finger reported after a lost command is worth with a sensor that keeps unread answers, which
nobody knows to exist.
