------------------------------ MODULE Transport ------------------------------
(***************************************************************************)
(* verimark_cmd of src/driver/verimark-transport.c: one command is written *)
(* in the chunks Framing plans, then its answer is read in chunks until a  *)
(* short one or until the budget rmax is full; a read that times out is    *)
(* tried again.  An action is the completion callback of one transfer with *)
(* the state handler that submitted it.  A transfer that fails may have    *)
(* reached the sensor, and a cancelled one is one that fails.  The         *)
(* synchronous copy in verimark.c does the same, transfer by transfer.     *)
(*                                                                         *)
(* Bytes are ranges: of which command or answer, from where, how many.     *)
(*                                                                         *)
(* The sensor is external.  Assumed of it: a chunk without 0x4000 starts a *)
(* command and drops an unfinished one; one without 0x8000 ends it, and    *)
(* its low bits tell the padding; commands are executed in order, and      *)
(* answers given in order, from where the last read of them ended.  Not    *)
(* known, and left open: whether a new command drops what is unread, what  *)
(* becomes of the rest of an answer the host does not go on reading, and   *)
(* of an answer that ends where a chunk ends.                              *)
(***************************************************************************)
EXTENDS Framing

CONSTANTS
  CmdLens,     \* lengths of commands
  AnsLens,     \* lengths of answers
  Budgets,     \* resp_max_len of callers
  MaxRetries,  \* VERIMARK_CTRL_READ_MAX_RETRIES: 25 in the code
  QueueSize    \* bound on the commands and answers in the sensor

ASSUME LensSane == /\ CmdLens \subseteq Nat /\ AnsLens \subseteq Nat
                   /\ Budgets \subseteq Nat /\ MaxRetries \in Nat
                   /\ QueueSize \in Nat \ {0}

VARIABLES
  \* the driver: VerimarkCmdCtx and its SSM
  ssm,         \* state of the SSM, "none" between commands
  cmd,         \* the command: its number and length
  wchunk_idx,
  rmax, rbuf, rfirst, rretries,
  got,         \* what the callback was given last
  \* the sensor
  part,        \* the command it is being sent
  inq, ans, strict   \* as in RoundTrip

ctxVars    == <<cmd, wchunk_idx, rmax, rbuf, rfirst, rretries>>
sensorVars == <<part, inq, ans>>
vars == <<ssm, ctxVars, got, sensorVars, strict>>

\* Numbers tell apart the commands that are around.
Numbers == 0..QueueSize + 1
Cmd     == [no : Numbers, len : CmdLens]
NoCmd   == [no |-> -1, len |-> 0]

\* Bytes of a command in the sensor; bytes of an answer, from where on.
Bytes(of, len)        == [of |-> of, len |-> len]
Answer(of, from, len) == [of |-> of, from |-> from, len |-> len]
NoBytes == Bytes(NoCmd, 0)
Rest    == Answer(NoCmd, 0, 0)
Failed  == Answer(NoCmd, -1, 0)

Init ==
  /\ ssm = "none" /\ cmd = NoCmd /\ wchunk_idx = 0
  /\ rmax = 1 /\ rbuf = NoBytes /\ rfirst = TRUE /\ rretries = 0
  /\ got = Failed
  /\ part = NoBytes /\ inq = <<>> /\ ans = <<>> /\ strict \in BOOLEAN

-----------------------------------------------------------------------------
(* The sensor's side of a transfer (external) *)

Padding(low) == IF low = 0 THEN 0 ELSE 8 - low

\* Chunk k of the driver's command arrives, if there is room for the command.
Receive(k) ==
  LET before == IF k.wvalue.cont THEN part ELSE Bytes(cmd, 0)
      whole  == before = Bytes(cmd, k.offset)
      now    == Bytes(IF whole THEN cmd ELSE NoCmd, before.len + k.len)
      drops  == strict /\ ~k.wvalue.cont
      queue  == IF drops THEN <<>> ELSE inq
  IN  /\ strict \/ Len(inq) + Len(ans) < QueueSize
      /\ ans' = IF drops THEN <<>> ELSE ans
      /\ IF k.wvalue.more
           THEN part' = now /\ inq' = queue
           ELSE /\ part' = NoBytes
                /\ inq' = Append(queue, Bytes(now.of, now.len - Padding(k.wvalue.low)))

\* The bytes a read of want gets of the answer at the head.
Moved(want) == Least(want, Head(ans).len - Head(ans).from)

\* What the sensor then keeps: an answer read to its end is gone, unless the
\* host announced to read on; of another one the rest, or nothing.
GiveUp(want, more) ==
  LET a == Head(ans)
      rest == Answer(a.of, a.from + Moved(want), a.len)
      keep == <<rest>> \o Tail(ans)
      drop == Tail(ans)
  IN  IF rest.from < rest.len
        THEN IF more THEN {keep} ELSE {keep, drop}
        ELSE IF more /\ Moved(want) = want THEN {keep, drop} ELSE {drop}

Execute ==
  /\ inq # <<>>
  /\ \E len \in AnsLens : ans' = Append(ans, Answer(Head(inq).of, 0, len))
  /\ inq' = Tail(inq)
  /\ UNCHANGED <<ssm, ctxVars, got, part, strict>>

-----------------------------------------------------------------------------
(* The driver *)

\* The least number that is free.
Around == {inq[i].of.no : i \in DOMAIN inq} \cup {ans[i].of.no : i \in DOMAIN ans}
            \cup {got.of.no}
IsNew(no) == no \notin Around /\ \A m \in 0..no - 1 : m \in Around

verimark_cmd ==
  /\ ssm = "none"
  /\ \E no \in Numbers, len \in CmdLens, resp_max_len \in Budgets :
       /\ IsNew(no) /\ cmd' = [no |-> no, len |-> len]
       /\ rmax' = IF resp_max_len = 0 THEN 1 ELSE resp_max_len
  /\ wchunk_idx' = 0 /\ rbuf' = NoBytes /\ rfirst' = TRUE /\ rretries' = 0
  /\ ssm' = "WRITE_CHUNK"
  /\ UNCHANGED <<got, sensorVars, strict>>

\* cmd_ssm_completed: the callback gets its answer, or an error.
Complete(result) == ssm' = "none" /\ got' = result

wchunks == verimark_frame_write_chunks(cmd.len)

WriteFailed_ReadAnyway == ssm' = "READ_CHUNK" /\ UNCHANGED got   \* mutant
WriteFailed == Complete(Failed)

on_write_chunk_done ==
  /\ ssm = "WRITE_CHUNK"
  /\ \/ /\ Receive(wchunks[wchunk_idx + 1])
        /\ wchunk_idx' = wchunk_idx + 1
        /\ ssm' = IF wchunk_idx' < Len(wchunks) THEN "WRITE_CHUNK" ELSE "READ_CHUNK"
        /\ UNCHANGED got
     \/ /\ Receive(wchunks[wchunk_idx + 1]) \/ UNCHANGED sensorVars
        /\ WriteFailed /\ UNCHANGED wchunk_idx
  /\ UNCHANGED <<cmd, rmax, rbuf, rfirst, rretries, strict>>

next_read == verimark_frame_read_chunk_next(rmax - rbuf.len, rfirst)

\* The bytes so far, when they are all of one answer and from its start on.
Collected ==
  LET a == Head(ans)
      starts == rfirst /\ a.from = 0
      goeson == rbuf.of = a.of /\ rbuf.len = a.from
  IN  Bytes(IF starts \/ (~rfirst /\ goeson) THEN a.of ELSE NoCmd,
            rbuf.len + Moved(next_read.want))

\* The whole answer, or a part.
Reply(collected) ==
  IF collected.of # NoCmd /\ collected.len = Head(ans).len
    THEN Answer(collected.of, 0, collected.len) ELSE Rest

EndsRead_Always(moved) == TRUE   \* mutant
EndsRead_OnlyIfShort(moved) == moved < next_read.want   \* mutant
EndsRead(moved) ==
  \/ moved < next_read.want
  \/ rbuf.len + moved >= rmax

ReadAnswered ==
  /\ ans # <<>>
  /\ ans' \in GiveUp(next_read.want, next_read.wvalue.more)
  /\ rbuf' = Collected /\ rretries' = 0
  /\ \/ /\ EndsRead(Moved(next_read.want))
        /\ Complete(Reply(Collected)) /\ UNCHANGED rfirst
     \/ /\ ~EndsRead(Moved(next_read.want))
        /\ rfirst' = FALSE /\ UNCHANGED <<ssm, got>>

\* A transfer that fails may have moved bytes nobody gets.
Wasted == \/ UNCHANGED ans
          \/ ans # <<>> /\ ans' \in GiveUp(next_read.want, next_read.wvalue.more)

ReadTimesOut ==
  /\ rretries < MaxRetries /\ rretries' = rretries + 1
  /\ Wasted
  /\ UNCHANGED <<ssm, got, rbuf, rfirst>>

ReadFails ==
  /\ Wasted /\ Complete(Failed)
  /\ UNCHANGED <<rbuf, rfirst, rretries>>

on_read_chunk_done ==
  /\ ssm = "READ_CHUNK"
  /\ ReadAnswered \/ ReadTimesOut \/ ReadFails
  /\ UNCHANGED <<cmd, wchunk_idx, rmax, part, inq, strict>>

Transfers == on_write_chunk_done \/ on_read_chunk_done

Next == verimark_cmd \/ Transfers \/ Execute

Spec == Init /\ [][Next]_vars

\* Every transfer ends: it has a timeout, and the main loop runs its callback.
FairSpec == Spec /\ WF_vars(Transfers)

-----------------------------------------------------------------------------
(* Properties *)

Reading == ssm = "READ_CHUNK"

\* Every variable keeps its type: no chunk past the plan is sent, no byte past
\* the budget read, no read tried too often.
TypeOK ==
  /\ ssm \in {"none", "WRITE_CHUNK", "READ_CHUNK"} /\ cmd \in Cmd \cup {NoCmd}
  /\ wchunk_idx \in 0..Len(wchunks)
  /\ ssm = "WRITE_CHUNK" => wchunk_idx < Len(wchunks)
  /\ rmax \in Nat \ {0} /\ rbuf.len \in 0..rmax /\ (Reading => rbuf.len < rmax)
  /\ rfirst \in BOOLEAN /\ rretries \in 0..MaxRetries
  /\ {part.of} \cup {rbuf.of, got.of} \subseteq Cmd \cup {NoCmd}
  /\ part.len \in Nat /\ Len(inq) + Len(ans) <= QueueSize
  /\ \A i \in DOMAIN ans : ans[i].of \in Cmd \cup {NoCmd} /\ ans[i].from <= ans[i].len

\* The sensor never runs anything but a command the driver was given, whole
\* and at its length: not the pieces of two commands after a write failed, and
\* not the beginning of one the chunk table was too small for.
Assembled == \A i \in DOMAIN inq : inq[i].of # NoCmd /\ inq[i].len = inq[i].of.len

\* If the sensor drops what is unread when a command starts, an answer the
\* callback gets whole is the answer to its command.
ReplyFresh == strict /\ ssm = "none" /\ got.of # NoCmd => got.of = cmd

\* An answer read from its start on, without a gap, is only cut when the
\* caller's budget is full.
CutByBudget ==
  [][Reading /\ ssm' = "none" /\ got' = Rest /\ Collected.of # NoCmd
       => Collected.len >= rmax]_vars

\* Transfers the command may still make: one for each chunk not yet written,
\* and for each chunk its budget has room for one read and its retries.
ReadsLeft == (rmax - rbuf.len + MaxChunk - 1) \div MaxChunk
TransfersLeft ==
  CASE ssm = "none" -> 0
    [] ssm = "WRITE_CHUNK" -> Len(wchunks) - wchunk_idx + ReadsLeft * (MaxRetries + 1)
    [] ssm = "READ_CHUNK" -> ReadsLeft * (MaxRetries + 1) - rretries

\* Every step of the driver in a command uses up one of them, although a chunk
\* that is answered starts the count of its retries anew.
TransfersRunOut ==
  [][ssm # "none" => TransfersLeft' \in 0..TransfersLeft - 1]_<<ssm, ctxVars>>

\* An answer is whole as long as the driver holds what has been read of it.
Seen(i) ==
  LET a == ans[i]
      held == i = 1 /\ Reading /\ ~rfirst /\ rbuf = Bytes(a.of, a.from)
  IN  IF a.from = 0 \/ held THEN Answer(a.of, 0, a.len) ELSE Rest

Trip == INSTANCE RoundTrip WITH
  Commands <- {Bytes(c, c.len) : c \in Cmd},
  Answers  <- {Answer(c, 0, len) : c \in Cmd, len \in AnsLens},
  wire     <- IF Reading THEN "sent" ELSE "idle",
  ans      <- [i \in DOMAIN ans |-> Seen(i)]

\* Chunks, retries and failed transfers amount to the round trips of RoundTrip.
Contract == Trip!Spec

\* A command ends: its callback runs.
CommandEnds == ssm # "none" ~> ssm = "none"
=============================================================================
