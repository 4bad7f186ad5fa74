------------------------------- MODULE Session -------------------------------
(***************************************************************************)
(* One sensor, its pairing file and the driver between dev_open and        *)
(* dev_close (src/driver/verimark.c): sensor id, load or pair and save     *)
(* (verimark-pairing.c), the two round trips of the TLS handshake, wrapped *)
(* commands, close_notify (verimark-tls.c), and crashes of the process.    *)
(*                                                                         *)
(* dev_open and dev_close block the main loop, but the sensor, the disk    *)
(* and a crash do not wait for them: each round trip and each file         *)
(* operation is a step.  A round trip is a write and a read, with what     *)
(* RoundTrip says can become of them: a failed write may have reached the  *)
(* sensor, a read may fail, bring a part of the answer, lose it or leave a *)
(* part of it behind (a cancelled action's transfers fail unsent, after    *)
(* their record was built).                                                *)
(*                                                                         *)
(* The sensor is external: it answers its commands in order, accepts or    *)
(* refuses a pairing, refuses cleartext while a session is on (status      *)
(* 0x0315, findings/36), decrypts with its own counters, may drop the      *)
(* session at any time.  What a new command does to an answer nobody has   *)
(* read is not known: strict sensors throw it away, others keep it.        *)
(* A part of an answer passes for none: lengths and tags tell, as long as  *)
(* it does not end where a record does.  Empty answers are MocDevice's.    *)
(* A credential is the number of its pairing; randoms do not repeat while  *)
(* a message that names one can be around.                                 *)
(***************************************************************************)
EXTENDS Integers, Sequences

CONSTANTS
  MaxPairs,   \* bound on the credentials generated
  MaxSeq,     \* bound on the sequence numbers of a session
  MaxRecords, \* bound on the records of an answer to a command
  QueueSize   \* commands and answers the sensor holds at most

ASSUME SessionBounds == /\ MaxPairs \in Nat \ {0} /\ MaxSeq \in Nat \ {0}
                        /\ MaxRecords \in Nat \ {0} /\ QueueSize \in Nat \ {0}

VARIABLES
  \* the driver
  op,                  \* what it is doing
  wire,                \* its round trip: idle, sent, or failed before the read
  sid,                 \* the sensor id it has resolved
  pd,                  \* the pairing data in use
  random,              \* client_random of the latest handshake
  keys,                \* the session keys: which handshake they come from
  encr_seq, decr_seq,
  generated,           \* credentials generated so far
  file,                \* the pairing file of each sensor id
  given, lost,         \* history: as in CommandChannel
  \* the sensor
  inq, ans,            \* commands not executed yet, answers not read yet
  strict,              \* does a new command drop them?
  hosts,               \* the credentials it accepted
  stls, skeys, srx, stx   \* its session, keys and counters

driverVars == <<sid, pd, random, keys, encr_seq, decr_seq, generated>>
memory     == <<op, wire, driverVars, given, lost>>
sensorVars == <<hosts, stls, skeys, srx, stx>>
vars == <<memory, file, inq, ans, strict, sensorVars>>

Opening == {"version", "pair", "save_open", "save_write", "hello", "finish"}
Ops     == Opening \cup {"closed", "open", "command", "close"}
OwnSid  == 0                  \* what the sensor calls itself
Sids    == 0..MaxPairs        \* and what a certificate read in its place says
NoSid   == -1
NoPd    == 0
Absent  == 0    \* no file
Short   == -2   \* a file that is not a pairing
Mixed   == -1   \* somebody's certificates with another pairing's private key
Credentials == 1..MaxPairs \cup {Mixed}
Randoms == 0..QueueSize
NoKeys  == -1

Message(kind, key, n)     == [kind |-> kind, key |-> key, n |-> n]
Records(kind, key, seq, n, recs) ==
  [kind |-> kind, key |-> key, seq |-> seq, n |-> n, recs |-> recs]
Answer(kind, key, seq, n) == Records(kind, key, seq, n, 1)
AnswerKinds == {"error", "rest", "version", "pair", "rt1", "rt2", "app", "alert"}
Error == Answer("error", NoKeys, 0, 0)
Rest  == Answer("rest", NoKeys, 0, 0)

Init ==
  /\ op = "closed" /\ wire = "idle" /\ sid = NoSid /\ pd = NoPd
  /\ random = 0 /\ keys = NoKeys /\ encr_seq = 0 /\ decr_seq = 0 /\ generated = 0
  /\ file = [s \in Sids |-> Absent]
  /\ given = 0 /\ lost = FALSE
  /\ inq = <<>> /\ ans = <<>> /\ strict \in BOOLEAN
  /\ hosts = {} /\ stls = "off" /\ skeys = NoKeys /\ srx = 0 /\ stx = 0

-----------------------------------------------------------------------------
(* The driver: round trips *)

Sending == {"version", "pair", "hello", "finish", "command", "close"}

\* What the driver writes: records carry the number they were built with.
Outgoing ==
  CASE op = "version" -> Message("version", NoKeys, 0)
    [] op = "pair"    -> Message("pair", NoKeys, generated)
    [] op = "hello"   -> Message("hello", random, 0)
    [] op = "finish"  -> Message("finish", keys, pd)
    [] op = "command" -> Message("command", keys, encr_seq - 1)
    [] op = "close"   -> Message("close", keys, encr_seq - 1)

Ep0 == INSTANCE RoundTrip WITH
  Commands <- {}, Answers <- {}, Failed <- Error, got <- Error

\* The write succeeds, fails, or fails although the sensor has it all, or its
\* beginning.
verimark_ctrl_write_sync ==
  /\ op \in Sending /\ wire = "idle"
  /\ \/ Ep0!Arrives(Outgoing) /\ wire' \in {"sent", "failed"}
     \/ Ep0!Begins /\ wire' = "failed"
     \/ UNCHANGED <<inq, ans>> /\ wire' = "failed"
  /\ UNCHANGED <<op, driverVars, file, given, lost, strict, sensorVars>>

Got   == wire = "sent" /\ ans # <<>>
Reply == Head(ans)

\* The read takes the answer, or fails or brings a part of it: any transfer
\* may, at any time, and one that times out is tried again.
ReadOk    == Got /\ Ep0!Spoilt /\ UNCHANGED inq
ReadFails_TriedForEver ==   \* mutant
  /\ UNCHANGED inq
  /\ (wire = "failed" /\ UNCHANGED ans) \/ (wire = "sent" /\ Ep0!Spoilt)
ReadFails == /\ wire # "idle" /\ UNCHANGED inq
             /\ (wire = "sent" /\ Ep0!Spoilt) \/ UNCHANGED ans

verimark_ctrl_read_sync_Resends ==   \* mutant
  /\ wire = "sent" /\ Ep0!Spoilt /\ wire' = "idle"
  /\ UNCHANGED <<op, driverVars, file, inq, given, lost, strict, sensorVars>>
verimark_ctrl_read_sync ==
  /\ wire = "sent" /\ Ep0!Spoilt
  /\ UNCHANGED <<memory, file, inq, strict, sensorVars>>

Continue(o) == op' = o /\ wire' = "idle"

\* The process forgets everything it holds in memory.
Forget == /\ Continue("closed") /\ sid' = NoSid /\ pd' = NoPd
          /\ keys' = NoKeys /\ encr_seq' = 0 /\ decr_seq' = 0
          /\ given' = 0 /\ lost' = FALSE
          /\ UNCHANGED <<random, generated>>

-----------------------------------------------------------------------------
(* The driver: dev_open *)

dev_open ==
  /\ op = "closed" /\ Continue("version")
  /\ UNCHANGED <<driverVars, file, given, lost, inq, ans, strict, sensorVars>>

\* Any answer that is long enough and starts with status 0 passes for a
\* version; an unread answer to an earlier PAIR does, and its certificate
\* bytes are taken for the sensor id.
IsVersion == Reply.kind \in {"version", "pair"}
SidRead   == IF Reply.kind = "pair" THEN Reply.n ELSE OwnSid

hs_build_client_hello == /\ Continue("hello")
                         /\ random' = (random + 1) % (QueueSize + 1)
                         /\ UNCHANGED <<keys, encr_seq, decr_seq>>

CanPair_OnAnyError(s) == TRUE   \* mutant
CanPair(s) == file[s] = Absent

\* The file is loaded, or a key pair is generated because there is none.
LoadOrPair(s) ==
  \/ /\ file[s] \in Credentials
     /\ pd' = file[s] /\ hs_build_client_hello
     /\ UNCHANGED generated
  \/ /\ CanPair(s) /\ generated < MaxPairs
     /\ generated' = generated + 1 /\ Continue("pair")
     /\ UNCHANGED <<pd, random, keys, encr_seq, decr_seq>>

verimark_resolve_sid_sync ==
  /\ op = "version" /\ ReadOk /\ IsVersion
  /\ sid' = SidRead /\ LoadOrPair(SidRead)
  /\ UNCHANGED <<file, given, lost, strict, sensorVars>>

IsPairReply_AnyLength == TRUE   \* mutant
IsPairReply == Reply.kind = "pair"

\* The certificates are the answer's, the private key is the one generated.
PairedData_NotCopied == pd   \* mutant
PairedData == IF Reply.n = generated THEN generated ELSE Mixed

verimark_pairing_do ==
  /\ op = "pair" /\ ReadOk /\ IsPairReply
  /\ pd' = PairedData
  /\ Continue("save_open")
  /\ UNCHANGED <<sid, random, keys, encr_seq, decr_seq, generated, file, given, lost,
                 strict, sensorVars>>

\* The file is created or truncated, then written.
verimark_pairing_save_file ==
  /\ \/ /\ op = "save_open" /\ Continue("save_write")
        /\ file' = [file EXCEPT ![sid] = Short]
        /\ UNCHANGED <<random, keys, encr_seq, decr_seq>>
     \/ /\ op = "save_write" /\ hs_build_client_hello
        /\ file' = [file EXCEPT ![sid] = pd]
  /\ UNCHANGED <<sid, pd, generated, given, lost, inq, ans, strict, sensorVars>>

hs_process_rt1 == Reply.kind = "rt1"

\* ServerHello; the keys mix both sides' randoms. The Finished is record 0.
hs_build_rt2 ==
  /\ op = "hello" /\ ReadOk /\ hs_process_rt1
  /\ keys' = IF Reply.key = random THEN random ELSE NoKeys
  /\ encr_seq' = 1 /\ decr_seq' = 0
  /\ Continue("finish")
  /\ UNCHANGED <<sid, pd, random, generated, file, given, lost, strict, sensorVars>>

ServerFinished_Unchecked == TRUE   \* mutant
ServerFinished == Reply = Answer("rt2", keys, decr_seq, 0)

NextDecr_PerAnswer(recs) == decr_seq + 1   \* mutant
NextDecr(recs) == decr_seq + recs

hs_process_rt2 ==
  /\ op = "finish" /\ ReadOk /\ ServerFinished
  /\ decr_seq' = NextDecr(1)
  /\ Continue("open")
  /\ UNCHANGED <<sid, pd, random, keys, encr_seq, generated, file, given, lost,
                 strict, sensorVars>>

Acceptable == CASE op = "version" -> IsVersion
                [] op = "pair"    -> IsPairReply
                [] op = "hello"   -> hs_process_rt1
                [] op = "finish"  -> ServerFinished

\* A transfer, the answer, the load of the file or its save was not good.
verimark_open_fail ==
  /\ op \in Opening
  /\ \/ ReadFails
     \/ ReadOk /\ (~Acceptable \/ op = "version")
     \/ op \in {"save_open", "save_write"} /\ UNCHANGED <<inq, ans>>
  /\ Forget
  /\ UNCHANGED <<file, strict, sensorVars>>

-----------------------------------------------------------------------------
(* The driver: commands, close, crash *)

\* verimark_tls_wrap numbers the record when it is built.
verimark_moc_send ==
  /\ op = "open" /\ encr_seq < MaxSeq
  /\ encr_seq' = encr_seq + 1
  /\ Continue("command")
  /\ UNCHANGED <<sid, pd, random, keys, decr_seq, generated, file, given, lost,
                 inq, ans, strict, sensorVars>>

Decrypts_AnySeq == Reply.key = keys /\ Reply.kind \in {"app", "alert"}   \* mutant
Decrypts == /\ Reply.key = keys /\ Reply.seq = decr_seq
            /\ Reply.kind \in {"app", "alert"}

\* verimark_tls_unwrap: an alert is decrypted and then fails; an answer that
\* is cut in its second record fails when the first one is already counted.
on_moc_raw_resp ==
  /\ op = "command" /\ Continue("open")
  /\ \/ ReadFails /\ lost' = TRUE /\ UNCHANGED <<decr_seq, given>>
     \/ ReadOk /\ ~Decrypts /\ lost' = TRUE /\ UNCHANGED <<decr_seq, given>>
     \/ /\ ReadOk /\ Decrypts /\ Reply.recs > 1 /\ decr_seq' = NextDecr(1)
        /\ lost' = TRUE /\ UNCHANGED given
     \/ /\ ReadOk /\ Decrypts /\ decr_seq' = NextDecr(Reply.recs)
        /\ \/ Reply.kind = "app"   /\ given' = Reply.n /\ UNCHANGED lost
           \/ Reply.kind = "alert" /\ lost' = TRUE /\ UNCHANGED given
  /\ UNCHANGED <<sid, pd, random, keys, encr_seq, generated, file, strict, sensorVars>>

verimark_tls_close ==
  /\ op = "open"
  /\ encr_seq' = encr_seq + 1
  /\ Continue("close")
  /\ UNCHANGED <<sid, pd, random, keys, decr_seq, generated, file, given, lost,
                 inq, ans, strict, sensorVars>>

\* Whatever became of close_notify.
dev_close ==
  /\ op = "close" /\ (ReadOk \/ ReadFails)
  /\ Forget
  /\ UNCHANGED <<file, strict, sensorVars>>

Crash ==
  /\ op # "closed" /\ Forget
  /\ UNCHANGED <<file, inq, ans, strict, sensorVars>>

-----------------------------------------------------------------------------
(* The sensor (external) *)

Executing(kind) == inq # <<>> /\ Head(inq).kind = kind
Command == Head(inq)
Answers(a) == inq' = Tail(inq) /\ ans' = Append(ans, a)

SensorRefuses == inq # <<>> /\ Answers(Error) /\ UNCHANGED sensorVars

SensorVersion ==
  /\ Executing("version") /\ stls # "on"
  /\ Answers(Answer("version", NoKeys, 0, 0))
  /\ UNCHANGED sensorVars

SensorPairs ==
  /\ Executing("pair") /\ stls # "on"
  /\ hosts' = hosts \cup {Command.n}
  /\ Answers(Answer("pair", NoKeys, 0, Command.n))
  /\ UNCHANGED <<stls, skeys, srx, stx>>

SensorHello ==
  /\ Executing("hello")
  /\ stls' = "hello" /\ skeys' = Command.key /\ srx' = 0 /\ stx' = 0
  /\ Answers(Answer("rt1", Command.key, 0, 0))
  /\ UNCHANGED hosts

SensorFinish ==
  /\ Executing("finish") /\ stls = "hello"
  /\ Command.key = skeys /\ Command.n \in hosts
  /\ stls' = "on" /\ srx' = 1 /\ stx' = 1
  /\ Answers(Answer("rt2", skeys, 0, 0))
  /\ UNCHANGED <<hosts, skeys>>

\* A record decrypts under the session's keys at the sensor's own count.
InSequence == stls = "on" /\ Command.key = skeys /\ Command.n = srx

SensorExecutes ==
  /\ Executing("command") /\ InSequence
  /\ srx' = srx + 1
  /\ \E recs \in 1..MaxRecords : /\ stx' = stx + recs
                               /\ Answers(Records("app", skeys, stx, Command.n, recs))
  /\ UNCHANGED <<hosts, stls, skeys>>

SensorAlerts ==
  /\ Executing("command") \/ Executing("close")
  /\ stls = "on" /\ ~InSequence
  /\ stx' = stx + 1
  /\ Answers(Answer("alert", skeys, stx, 0))
  /\ UNCHANGED <<hosts, stls, skeys, srx>>

SensorCloses ==
  /\ Executing("close") /\ InSequence
  /\ stls' = "off"
  /\ Answers(Answer("alert", skeys, stx, 0))
  /\ UNCHANGED <<hosts, skeys, srx, stx>>

SensorDrops ==
  /\ stls # "off" /\ stls' = "off"
  /\ UNCHANGED <<inq, ans, hosts, skeys, srx, stx>>

Sensor == /\ \/ SensorRefuses \/ SensorVersion \/ SensorPairs \/ SensorHello
             \/ SensorFinish \/ SensorExecutes \/ SensorAlerts \/ SensorCloses
             \/ SensorDrops
          /\ UNCHANGED <<memory, file, strict>>

-----------------------------------------------------------------------------

\* What the driver goes on with by itself once it was called.
Driver == \/ verimark_ctrl_write_sync \/ verimark_ctrl_read_sync
          \/ verimark_resolve_sid_sync \/ verimark_pairing_do
          \/ verimark_pairing_save_file \/ hs_build_rt2 \/ hs_process_rt2
          \/ verimark_open_fail \/ on_moc_raw_resp \/ dev_close

Next == \/ dev_open \/ verimark_moc_send \/ verimark_tls_close
        \/ Driver \/ Crash \/ Sensor

Spec == Init /\ [][Next]_vars

\* Every transfer has a timeout and is retried a bounded number of times, and
\* file operations return.  Nobody owes an answer, an open or a command.
FairSpec == Spec /\ WF_vars(Driver)

-----------------------------------------------------------------------------
(* Properties *)

\* Every variable keeps its type.
TypeOK ==
  /\ op \in Ops /\ wire \in {"idle", "sent", "failed"}
  /\ sid \in IF op \in {"closed", "version"} THEN {NoSid} ELSE Sids
  /\ pd \in IF op \in {"closed", "version", "pair"} THEN {NoPd} ELSE Credentials
  /\ random \in Randoms /\ keys \in Randoms \cup {NoKeys}
  /\ encr_seq \in 0..MaxSeq + 1 /\ decr_seq \in 0..MaxSeq * MaxRecords
  /\ generated \in 0..MaxPairs
  /\ file \in [Sids -> Credentials \cup {Absent, Short}]
  /\ given \in 0..MaxSeq /\ lost \in BOOLEAN
  /\ inq \in Seq([kind : Sending, key : Randoms \cup {NoKeys}, n : Int])
  /\ ans \in Seq([kind : AnswerKinds, key : Randoms \cup {NoKeys}, seq : Nat, n : Int,
                 recs : 1..MaxRecords])
  /\ Len(inq) + Len(ans) <= QueueSize
  /\ strict \in BOOLEAN /\ hosts \subseteq 1..MaxPairs
  /\ stls \in {"off", "hello", "on"} /\ skeys \in Randoms \cup {NoKeys}
  /\ srx \in Nat /\ stx \in Nat

\* While the session is established, op is what the operations see.
Live == op \in {"open", "command"}
Channel == INSTANCE CommandChannel WITH
  MaxAsked <- MaxSeq,
  state    <- CASE op = "open" -> "up" [] op = "command" -> "asking" [] OTHER -> "down",
  asked    <- IF Live THEN encr_seq - 1 ELSE 0,
  given    <- IF Live THEN given ELSE 0,
  lost     <- Live /\ lost

\* The operations' view of the channel: an answer belongs to this session, is
\* given once and in order; when the sensor throws unread answers away it is
\* the answer to the command just sent, and a lost command is never papered
\* over: nothing succeeds before the device is opened again.
Contract == Channel!Spec

\* As long as no command was lost, both ends count records alike; so one that
\* fails cleanly costs nothing but itself.
InStep ==
  op = "open" /\ ~lost /\ stls = "on" => srx = encr_seq /\ stx = decr_seq

\* An open succeeds only on keys the sensor derived in this very handshake and
\* with a credential it accepted, whatever was left unread before.
OpenAuthenticated ==
  [][op = "finish" /\ op' = "open" => skeys' = keys' /\ pd' \in hosts']_vars

\* No stored pairing is ever overwritten or lost: not by a crash, a failed
\* open, an unreadable file or another pairing.
PairingKept == [][\A s \in Sids : file[s] \in Credentials => file'[s] = file[s]]_vars

\* With a strict sensor, what is stored is a pairing it accepted.  (One that
\* keeps unread answers can hand an earlier open's certificates to a later
\* pairing, whose file then never works.)
StoredIsAccepted ==
  strict => \A s \in Sids : file[s] \in Credentials => s = OwnSid /\ file[s] \in hosts

\* What is left of a call: the round trips and file operations after this one,
\* and of this one its write, then the answers a read may still spoil.
StagesLeft == [closed |-> 0, open |-> 0, command |-> 1, close |-> 1, finish |-> 1,
               hello |-> 2, save_write |-> 3, save_open |-> 4, pair |-> 5, version |-> 6]
Pending == 3 * Len(inq) + 2 * Len(ans) - (IF ans # <<>> /\ Head(ans) = Rest THEN 1 ELSE 0)
TripLeft == CASE wire = "idle" -> 3 * QueueSize + 2 [] wire = "sent" -> 1 + Pending
              [] wire = "failed" -> 1
StepsLeft == IF StagesLeft[op] = 0 THEN 0
             ELSE (StagesLeft[op] - 1) * (3 * QueueSize + 2) + TripLeft

\* Every step of the driver in a call leaves less to do, and none of the sensor
\* leaves more: no round trip is made twice while the main loop waits.
CallRunsOut ==
  [][StagesLeft[op] # 0 => /\ StepsLeft' \in 0..StepsLeft
                           /\ Driver => StepsLeft' < StepsLeft]_vars

\* An open, a command and a close end, whatever the sensor answers or does not
\* answer; opens and closes block the main loop until they do.
CallEnds == op \notin {"closed", "open"} ~> op \in {"closed", "open"}

-----------------------------------------------------------------------------
(* A claim of the documentation that the code does not keep *)

\* README.md:45-48: a sensor is paired once.
PairedOnce == \A c, d \in hosts : c = d
=============================================================================
