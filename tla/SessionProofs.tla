---------------------------- MODULE SessionProofs ----------------------------
(***************************************************************************)
(* Theorems about Session, for every bound on the credentials, the         *)
(* sequence numbers, the records of an answer and the sensor's queue, and  *)
(* for both kinds of sensor.  No credential is overwritten, a strict       *)
(* sensor has accepted every credential that is kept, a handshake ends     *)
(* with the two ends on the same keys, they stay in step until a command   *)
(* is lost, and the session keeps the promises of CommandChannel.          *)
(*                                                                         *)
(* The messages around, answers first and commands after them, are seen as *)
(* one line: reading takes or spoils the first of them, executing replaces *)
(* the first command by its answer, writing adds one at the end.  Each     *)
(* part of the invariant says something of the line, and each step has one *)
(* lemma that says what it does to the line.                               *)
(***************************************************************************)
EXTENDS Session, SequenceTheorems, TLAPS

-----------------------------------------------------------------------------
(* The messages around, in a line *)

\* The keys of a handshake or none; what the driver writes and the sensor answers.
Keys == Randoms \cup {NoKeys}
Cmds == [kind : Sending, key : Keys, n : Int]
Rpls == [kind : AnswerKinds, key : Keys, seq : Nat, n : Int, recs : 1..MaxRecords]

\* The commands not executed yet and the answers not read yet, as the sensor holds them.
Queues == /\ inq \in Seq(Cmds) /\ ans \in Seq(Rpls)
          /\ Len(inq) + Len(ans) <= QueueSize

\* Places in the line, and the message at a place.
Total  == Len(ans) + Len(inq)
Around == 1..Total
Nth(i) == IF i <= Len(ans) THEN ans[i] ELSE inq[i - Len(ans)]

\* A part of an answer and a refusal are answers like any other.
LEMMA RestTyped == Rest \in Rpls /\ Error \in Rpls
BY SessionBounds DEF Rest, Error, Answer, Records, Rpls, AnswerKinds, Keys

\* The line is typed; its first place is the next answer, the one after the
\* answers the next command.
LEMMA AroundTyped ==
  ASSUME Queues
  PROVE  /\ Total \in Nat /\ Len(ans) \in Nat /\ Len(inq) \in Nat /\ Total <= QueueSize
         /\ \A i \in Around : i \in Nat /\ i >= 1
         /\ \A i \in Around : i <= Len(ans) => Nth(i) = ans[i] /\ Nth(i) \in Rpls /\ i \in DOMAIN ans
         /\ \A i \in Around : i > Len(ans) => Nth(i) \in Cmds
         /\ \A i \in DOMAIN ans : i \in Around /\ Nth(i) = ans[i]
         /\ inq = <<>> <=> Len(ans) = Total
         /\ inq # <<>> => Len(ans) + 1 \in Around /\ Nth(Len(ans) + 1) = Head(inq) /\ Head(inq) \in Cmds
         /\ ans # <<>> => 1 \in Around /\ Nth(1) = Head(ans) /\ Head(ans) = ans[1] /\ Head(ans) \in Rpls
                            /\ Len(ans) >= 1
<1> USE DEF Queues, Total, Around, Nth
<1>1. Len(ans) \in Nat /\ Len(inq) \in Nat /\ DOMAIN ans = 1..Len(ans) /\ DOMAIN inq = 1..Len(inq)
  OBVIOUS
<1>2. \A i \in 1..Len(ans) : ans[i] \in Rpls
  OBVIOUS
<1>3. \A i \in 1..Len(inq) : inq[i] \in Cmds
  OBVIOUS
<1>4. inq # <<>> => Len(inq) >= 1 /\ Head(inq) = inq[1]
  OBVIOUS
<1>5. ans # <<>> => Len(ans) >= 1 /\ Head(ans) = ans[1]
  OBVIOUS
<1>6. inq = <<>> <=> Len(inq) = 0
  OBVIOUS
<1>7. \A i \in Around : i > Len(ans) => i - Len(ans) \in 1..Len(inq)
  BY <1>1
<1>8. \A i \in Around : i \in Nat /\ i >= 1
  BY <1>1
<1>9. Total \in Nat /\ Total <= QueueSize /\ Total = Len(ans) + Len(inq)
  BY <1>1
<1>10. ASSUME NEW i \in Around, i <= Len(ans)
       PROVE  Nth(i) = ans[i] /\ Nth(i) \in Rpls /\ i \in DOMAIN ans
  BY <1>1, <1>2, <1>8, <1>10
<1>11. ASSUME NEW i \in Around, i > Len(ans)
       PROVE  Nth(i) \in Cmds
  BY <1>1, <1>3, <1>7, <1>8, <1>11
<1>12. \A i \in DOMAIN ans : i \in Around /\ Nth(i) = ans[i]
  BY <1>1
<1>13. inq = <<>> <=> Len(ans) = Total
  <2>1. \A x, y \in Nat : x = x + y <=> y = 0
    OBVIOUS
  <2>2. Len(ans) = Total <=> Len(inq) = 0
    BY <1>1, <2>1
  <2> HIDE DEF Total
  <2> QED BY <1>6, <2>2
<1>14. inq # <<>> => Len(ans) + 1 \in Around /\ Nth(Len(ans) + 1) = Head(inq) /\ Head(inq) \in Cmds
  <2> SUFFICES ASSUME inq # <<>>
               PROVE  Len(ans) + 1 \in Around /\ Nth(Len(ans) + 1) = Head(inq) /\ Head(inq) \in Cmds
    OBVIOUS
  <2>1. (Len(ans) + 1) - Len(ans) = 1 /\ ~(Len(ans) + 1 <= Len(ans))
    BY <1>1
  <2> QED BY <1>1, <1>3, <1>4, <2>1
<1>15. ans # <<>> => 1 \in Around /\ Nth(1) = Head(ans) /\ Head(ans) = ans[1] /\ Head(ans) \in Rpls
                       /\ Len(ans) >= 1
  BY <1>1, <1>2, <1>5
<1> HIDE DEF Total, Around, Nth
<1> QED BY <1>1, <1>8, <1>9, <1>10, <1>11, <1>12, <1>13, <1>14, <1>15

\* The head of the answers is taken or left as a part of an answer.
LEMMA Spoiling ==
  ASSUME Queues, Ep0!Spoilt, UNCHANGED <<inq, strict>>
  PROVE  /\ Queues' /\ ans # <<>>
         /\ \E d \in {0, 1} :
              /\ Total' = Total - d /\ Len(ans') = Len(ans) - d
              /\ \A i \in Around' : /\ i + d \in Around
                                    /\ \/ Nth(i)' = Nth(i + d)
                                       \/ d = 0 /\ i = 1 /\ Nth(i)' = Rest
              /\ d = 0 => ans' # <<>> /\ Nth(1)' = Rest
<1>0. ans # <<>> /\ ans' \in {Tail(ans), <<Rest>> \o Tail(ans)}
  BY DEF Ep0!Spoilt
<1>1. /\ Tail(ans) \in Seq(Rpls) /\ Len(Tail(ans)) = Len(ans) - 1 /\ Len(ans) \in Nat /\ Len(ans) >= 1
      /\ \A i \in 1..Len(ans) - 1 : Tail(ans)[i] = ans[i + 1]
      /\ Len(inq) \in Nat
  BY <1>0 DEF Queues
<1>2. CASE ans' = Tail(ans)
  <2>0. ans' \in Seq(Rpls) /\ Len(ans') = Len(ans) - 1 /\ inq' = inq
    BY <1>1, <1>2
  <2>1. Queues' /\ Total' = Total - 1 /\ Len(ans') = Len(ans) - 1
    BY <1>1, <2>0, SessionBounds DEF Queues, Total
  <2>2. ASSUME NEW i \in Around' PROVE i + 1 \in Around /\ Nth(i)' = Nth(i + 1)
    <3>1. i \in Nat /\ i >= 1 /\ i <= Total - 1
      BY <1>1, <2>1 DEF Around, Total
    <3>2. (i + 1) - Len(ans) = i - (Len(ans) - 1)
      BY <1>1, <3>1
    <3> QED BY <1>1, <1>2, <2>1, <3>1, <3>2 DEF Around, Nth, Total
  <2> QED BY <1>0, <2>1, <2>2
<1>3. CASE ans' = <<Rest>> \o Tail(ans)
  <2>1. /\ ans' \in Seq(Rpls) /\ Len(ans') = Len(ans) /\ ans'[1] = Rest
        /\ \A i \in 2..Len(ans) : ans'[i] = ans[i]
    <3> DEFINE t == Tail(ans)
               u == <<Rest>>
    <3>1. u \in Seq(Rpls) /\ Len(u) = 1 /\ u[1] = Rest
      BY RestTyped
    <3>2. t \in Seq(Rpls) /\ Len(t) = Len(ans) - 1 /\ \A i \in 1..Len(ans) - 1 : t[i] = ans[i + 1]
      BY <1>1
    <3> HIDE DEF t, u
    <3>3. /\ u \o t \in Seq(Rpls) /\ Len(u \o t) = 1 + Len(t) /\ (u \o t)[1] = Rest
          /\ \A i \in 1..Len(t) : (u \o t)[i + 1] = t[i]
      <4>0. u \in Seq(Rpls) /\ t \in Seq(Rpls)
        BY <3>1, <3>2
      <4>1. u \o t \in Seq(Rpls) /\ Len(u \o t) = Len(u) + Len(t)
        BY <4>0, ConcatProperties
      <4>2. \A i \in 1..Len(u) + Len(t) : (u \o t)[i] = IF i <= Len(u) THEN u[i] ELSE t[i - Len(u)]
        BY <4>0, ConcatProperties, Zenon
      <4>3. Len(t) \in Nat
        BY <3>2
      <4>4. ASSUME NEW i \in 1..Len(t) PROVE (u \o t)[i + 1] = t[i]
        <5>1. i + 1 \in 1..Len(u) + Len(t) /\ ~(i + 1 <= Len(u)) /\ (i + 1) - Len(u) = i
          BY <3>1, <4>3
        <5> QED BY <4>2, <5>1
      <4> QED BY <3>1, <4>1, <4>2, <4>3, <4>4
    <3>4. \A i \in 2..Len(ans) : (u \o t)[i] = ans[i]
      <4> SUFFICES ASSUME NEW i \in 2..Len(ans) PROVE (u \o t)[i] = ans[i]
        OBVIOUS
      <4> DEFINE k == i - 1
      <4>1. k \in 1..Len(ans) - 1 /\ k + 1 = i
        BY <1>1
      <4> HIDE DEF k
      <4> QED BY <3>2, <3>3, <4>1
    <3> QED BY <1>1, <1>3, <3>2, <3>3, <3>4 DEF t, u
  <2>2. Queues' /\ Total' = Total
    BY <1>1, <2>1 DEF Queues, Total
  <2>3. ASSUME NEW i \in Around'
        PROVE  i \in Around /\ (Nth(i)' = Nth(i) \/ (i = 1 /\ Nth(i)' = Rest))
    BY <1>1, <2>1, <2>2 DEF Around, Nth, Total
  <2>4. Nth(1)' = Rest /\ ans' # <<>>
    BY <1>1, <2>1 DEF Nth
  <2>5. \A i \in Around' : i + 0 = i
    BY <1>1, <2>2 DEF Around, Total
  <2>6. /\ Total' = Total - 0 /\ Len(ans') = Len(ans) - 0
    BY <1>1, <2>1, <2>2 DEF Total
  <2> QED BY <1>0, <2>2, <2>3, <2>4, <2>5, <2>6
<1> QED BY <1>0, <1>2, <1>3

\* A command arrives, and drops what was there if the sensor is strict.
LEMMA Arriving ==
  ASSUME Queues, NEW c \in Cmds, Ep0!Arrives(c), UNCHANGED strict
  PROVE  /\ Queues' /\ Total' \in Around' /\ Len(ans') < Total'
         /\ \A i \in Around' : i = Total' => Nth(i)' = c
         /\ strict => Total' = 1 /\ ans' = <<>> /\ Len(ans') = 0
         /\ ~strict => /\ Total' = Total + 1 /\ ans' = ans
                       /\ \A i \in Around : i \in Around' /\ Nth(i)' = Nth(i)
<1>1. CASE strict
  <2>1. inq' = <<c>> /\ ans' = <<>>
    BY <1>1 DEF Ep0!Arrives
  <2>2. inq' \in Seq(Cmds) /\ Len(inq') = 1 /\ inq'[1] = c /\ ans' \in Seq(Rpls) /\ Len(ans') = 0
    BY <2>1
  <2>3. Queues' /\ Total' = 1
    BY <2>2, SessionBounds DEF Queues, Total
  <2>4. \A i \in Around' : i = 1 => Nth(i)' = c
    BY <2>2 DEF Nth
  <2>5. 1 \in Around'
    BY <2>3 DEF Around
  <2> QED BY <1>1, <2>1, <2>2, <2>3, <2>4, <2>5
<1>2. CASE ~strict
  <2>1. inq' = Append(inq, c) /\ ans' = ans /\ Len(inq) + Len(ans) < QueueSize
    BY <1>2 DEF Ep0!Arrives, Ep0!Room
  <2>2. /\ inq' \in Seq(Cmds) /\ Len(inq') = Len(inq) + 1 /\ inq'[Len(inq) + 1] = c
        /\ \A i \in 1..Len(inq) : inq'[i] = inq[i]
        /\ Len(inq) \in Nat /\ Len(ans) \in Nat
    BY <2>1 DEF Queues
  <2>3. /\ Queues' /\ Total' = Total + 1 /\ Total' \in Around' /\ Len(ans') < Total'
        /\ \A i \in Around' : i = Total' => Nth(i)' = c
    <3>1. Queues' /\ Total' = Total + 1 /\ Len(ans') < Total' /\ Total \in Nat
      BY <2>1, <2>2, SessionBounds DEF Queues, Total
    <3>2. Total' \in Around'
      BY <3>1 DEF Around
    <3>3. Total' - Len(ans') = Len(inq) + 1
      BY <2>1, <2>2, <3>1 DEF Total
    <3>4. \A i \in Around' : i = Total' => Nth(i)' = c
      BY <2>2, <3>1, <3>3 DEF Nth, Total
    <3> QED BY <3>1, <3>2, <3>4
  <2>4. ASSUME NEW i \in Around PROVE i \in Around' /\ Nth(i)' = Nth(i)
    <3>1. i \in Nat /\ (i > Len(ans) => i - Len(ans) \in 1..Len(inq))
      BY <2>2 DEF Around, Total
    <3>2. i \in Around'
      BY <2>2, <2>3, <3>1 DEF Around, Total
    <3>3. Nth(i)' = Nth(i)
      BY <2>1, <2>2, <3>1 DEF Nth
    <3> QED BY <3>2, <3>3
  <2> QED BY <1>2, <2>1, <2>3, <2>4
<1> QED BY <1>1, <1>2 DEF Queues

\* The sensor executes the first command; its answer takes its place.
LEMMA Answering ==
  ASSUME Queues, NEW a \in Rpls, inq # <<>>, Answers(a), UNCHANGED strict
  PROVE  /\ Queues' /\ Total' = Total /\ Len(ans') = Len(ans) + 1
         /\ ans' # <<>> /\ (ans # <<>> => ans'[1] = ans[1]) /\ (ans = <<>> => ans'[1] = a)
         /\ \A i \in Around : /\ i \in Around'
                              /\ Nth(i)' = IF i = Len(ans) + 1 THEN a ELSE Nth(i)
<1>1. inq' = Tail(inq) /\ ans' = Append(ans, a)
  BY DEF Answers
<1>2. /\ inq' \in Seq(Cmds) /\ Len(inq') = Len(inq) - 1 /\ Len(inq) \in Nat /\ Len(inq) >= 1
      /\ \A i \in 1..Len(inq) - 1 : inq'[i] = inq[i + 1]
  BY <1>1 DEF Queues
<1>3. /\ ans' \in Seq(Rpls) /\ Len(ans') = Len(ans) + 1 /\ ans'[Len(ans) + 1] = a /\ Len(ans) \in Nat
      /\ \A i \in 1..Len(ans) : ans'[i] = ans[i]
      /\ ans # <<>> => Len(ans) >= 1
  BY <1>1 DEF Queues
<1>4. Queues' /\ Total' = Total
  BY <1>2, <1>3 DEF Queues, Total
<1>7. \A i \in Around : i = Len(ans) + 1 => Nth(i)' = a
  BY <1>3 DEF Nth
<1>5. ASSUME NEW i \in Around, i # Len(ans) + 1 PROVE Nth(i)' = Nth(i)
  <2>1. i \in Nat /\ i >= 1 /\ i <= Len(ans) + Len(inq)
    BY <1>2, <1>3 DEF Around, Total
  <2>2. CASE i <= Len(ans)
    BY <1>3, <2>1, <2>2 DEF Nth
  <2>3. CASE i > Len(ans) + 1
    <3> DEFINE k == i - Len(ans) - 1
    <3>1. k \in 1..Len(inq) - 1 /\ i - Len(ans') = k /\ i - Len(ans) = k + 1 /\ i > Len(ans')
      BY <1>2, <1>3, <2>1, <2>3
    <3> HIDE DEF k
    <3> QED BY <1>2, <1>3, <2>1, <2>3, <3>1 DEF Nth
  <2> QED BY <1>3, <1>5, <2>1, <2>2, <2>3
<1>6. ans' # <<>> /\ (ans # <<>> => ans'[1] = ans[1]) /\ (ans = <<>> => ans'[1] = a)
  BY <1>3
<1> QED BY <1>3, <1>4, <1>5, <1>6, <1>7 DEF Around

-----------------------------------------------------------------------------
(* Types and phases *)

\* Phases of an open: from the pairing command to the saved file, and once the
\* handshake is over.
Pairing == op \in {"pair", "save_open", "save_write"}
Saving  == op \in {"save_open", "save_write"}
Established == op \in {"open", "command", "close"}

\* The types of what is neither a counter nor a queue.  What TypeOK says of
\* the numbers a session counts needs more than types: see Counted and Conversation.
Scalars ==
  /\ op \in Ops /\ wire \in {"idle", "sent", "failed"}
  /\ sid \in IF op \in {"closed", "version"} THEN {NoSid} ELSE Sids
  /\ pd \in IF op \in {"closed", "version", "pair"} THEN {NoPd} ELSE Credentials
  /\ random \in Randoms /\ keys \in Keys
  /\ generated \in 0..MaxPairs
  /\ file \in [Sids -> Credentials \cup {Absent, Short}]
  /\ hosts \subseteq 1..MaxPairs
  /\ stls \in {"off", "hello", "on"} /\ skeys \in Keys

\* The sequence numbers of both ends.
Counters == encr_seq \in 0..MaxSeq + 1 /\ decr_seq \in Nat /\ srx \in Nat /\ stx \in Nat

\* Kept apart from the numbers.
Booleans == lost \in BOOLEAN /\ strict \in BOOLEAN

\* What the phase of an open says of the keys, the counters and the round trip
\* (dev_open, verimark_tls_establish and their error paths).
Phase ==
  /\ op \notin {"finish", "open", "command", "close"} => keys = NoKeys /\ encr_seq = 0 /\ decr_seq = 0
  /\ op \notin {"open", "command", "close"} => given = 0 /\ lost = FALSE
  /\ op = "finish" => keys \in {random, NoKeys} /\ encr_seq = 1 /\ decr_seq = 0
  /\ Established => keys = random /\ encr_seq >= 1
  /\ op = "command" => encr_seq >= 2
  /\ op \in {"open", "command"} => encr_seq <= MaxSeq
  /\ op \in {"closed", "open", "save_open", "save_write"} => wire = "idle"
  /\ op = "pair" => generated >= 1

\* What the kind of a message says of its number and of the handshake it names.
Messages ==
  /\ \A i \in Around : /\ Nth(i).kind = "pair" => Nth(i).n \in 1..MaxPairs
                       /\ Nth(i).kind \in {"hello", "rt1", "rt2"} => Nth(i).key \in Randoms
                       /\ Nth(i).kind \in {"version", "pair", "rest", "error"} => Nth(i).key = NoKeys
  /\ stls # "off" => skeys \in Randoms

\* The part of the invariant that every other part rests on.
Typing == Scalars /\ Counters /\ Booleans /\ Queues /\ Messages /\ Phase

\* The answer the driver reads is the first message of the line.
LEMMA ReplyTyped ==
  ASSUME Queues, Messages, ans # <<>>
  PROVE  /\ Reply \in Rpls /\ Reply = Nth(1) /\ 1 \in Around /\ Reply = ans[1]
         /\ Reply.kind \in AnswerKinds /\ Reply.key \in Keys /\ Reply.seq \in Nat /\ Reply.n \in Int
         /\ Reply.recs \in 1..MaxRecords /\ Reply.recs \in Nat /\ Reply.recs >= 1
         /\ Reply.kind = "pair" => Reply.n \in 1..MaxPairs
         /\ Reply.kind \in {"hello", "rt1", "rt2"} => Reply.key \in Randoms
         /\ Reply.kind \in {"version", "pair", "rest", "error"} => Reply.key = NoKeys
<1>1. Reply \in Rpls /\ Reply = Nth(1) /\ 1 \in Around /\ Reply = ans[1]
  BY AroundTyped DEF Reply
<1>2. /\ Reply.kind \in AnswerKinds /\ Reply.key \in Keys /\ Reply.seq \in Nat /\ Reply.n \in Int
      /\ Reply.recs \in 1..MaxRecords
  BY <1>1 DEF Rpls
<1>3. Reply.recs \in Nat /\ Reply.recs >= 1
  BY <1>2, SessionBounds
<1> HIDE DEF Reply
<1> QED BY <1>1, <1>2, <1>3 DEF Messages

\* The command the sensor executes follows the answers.
LEMMA CommandTyped ==
  ASSUME Queues, Messages, inq # <<>>
  PROVE  /\ Command \in Cmds /\ Command = Nth(Len(ans) + 1) /\ Len(ans) + 1 \in Around
         /\ Command.kind \in Sending /\ Command.key \in Keys /\ Command.n \in Int
         /\ Command.kind = "pair" => Command.n \in 1..MaxPairs
         /\ Command.kind = "hello" => Command.key \in Randoms
<1>1. Command \in Cmds /\ Command = Nth(Len(ans) + 1) /\ Len(ans) + 1 \in Around
  BY AroundTyped DEF Command
<1>2. Command.kind \in Sending /\ Command.key \in Keys /\ Command.n \in Int
  BY <1>1 DEF Cmds
<1> HIDE DEF Command
<1> QED BY <1>1, <1>2 DEF Messages

\* What the driver writes next.
LEMMA OutgoingTyped ==
  ASSUME Scalars, Counters, Phase, op \in Sending
  PROVE  /\ Outgoing \in Cmds /\ Outgoing.kind = op
         /\ op = "pair" => Outgoing.n = generated /\ generated \in 1..MaxPairs
         /\ op \in {"version", "pair"} => Outgoing.key = NoKeys
         /\ op = "hello" => Outgoing.key = random
         /\ op \in {"finish", "command", "close"} => Outgoing.key = keys
         /\ op = "finish" => Outgoing.n = pd
         /\ op = "command" => Outgoing.n = encr_seq - 1
<1>1. /\ op = "version" => Outgoing = Message("version", NoKeys, 0)
      /\ op = "pair"    => Outgoing = Message("pair", NoKeys, generated)
      /\ op = "hello"   => Outgoing = Message("hello", random, 0)
      /\ op = "finish"  => Outgoing = Message("finish", keys, pd)
      /\ op = "command" => Outgoing = Message("command", keys, encr_seq - 1)
      /\ op = "close"   => Outgoing = Message("close", keys, encr_seq - 1)
  BY DEF Outgoing
<1>2. \A kind \in Sending, key \in Keys, n \in Int :
        /\ Message(kind, key, n) \in Cmds /\ Message(kind, key, n).kind = kind
        /\ Message(kind, key, n).key = key /\ Message(kind, key, n).n = n
  BY DEF Message, Cmds
<1>3. /\ random \in Keys /\ NoKeys \in Keys /\ keys \in Keys /\ generated \in Int /\ 0 \in Int
      /\ encr_seq - 1 \in Int
  BY SessionBounds DEF Scalars, Counters, Keys
<1>4. op = "finish" => pd \in Int
  BY DEF Scalars, Credentials, Mixed
<1>5. op = "pair" => generated \in 1..MaxPairs
  BY SessionBounds DEF Scalars, Phase
<1> HIDE DEF Outgoing
<1> QED BY <1>1, <1>2, <1>3, <1>4, <1>5 DEF Sending

\* A write that fails in its first bytes leaves a strict sensor with nothing.
LEMMA Beginning ==
  ASSUME Ep0!Begins
  PROVE  /\ Queues' /\ Around' = {} /\ strict /\ inq' = <<>> /\ ans' = <<>> /\ Len(ans') = 0 /\ DOMAIN ans' = {}
<1>1. strict /\ inq' = <<>> /\ ans' = <<>>
  BY DEF Ep0!Begins
<1>2. Len(inq') = 0 /\ Len(ans') = 0 /\ DOMAIN ans' = {} /\ inq' \in Seq(Cmds) /\ ans' \in Seq(Rpls)
  BY <1>1
<1>3. Len(inq') + Len(ans') <= QueueSize /\ Total' = 0
  BY <1>2, SessionBounds DEF Total
<1> QED BY <1>1, <1>2, <1>3 DEF Queues, Around

\* What neither writes nor reads leaves the line alone.
LEMMA Keeping ==
  ASSUME Queues, UNCHANGED <<inq, ans>>
  PROVE  Queues' /\ Total' = Total /\ Around' = Around /\ \A i : Nth(i)' = Nth(i)
BY DEF Queues, Total, Around, Nth

\* A read, whatever it brings, leaves messages that were there and a part of one.
NothingNew == \A i \in Around' : Nth(i)' = Rest \/ \E j \in Around : Nth(i)' = Nth(j)

\* Neither a read nor a spoilt answer brings anything new.
LEMMA Readings ==
  ASSUME Queues, Ep0!Spoilt \/ UNCHANGED ans, UNCHANGED <<inq, strict>>
  PROVE  Queues' /\ NothingNew
<1>1. CASE Ep0!Spoilt
  <2>1. PICK d \in {0, 1} : \A i \in Around' : i + d \in Around /\ (Nth(i)' = Nth(i + d) \/ Nth(i)' = Rest)
    BY <1>1, Spoiling
  <2> QED BY <1>1, <2>1, Spoiling DEF NothingNew
<1>2. CASE UNCHANGED ans
  BY <1>2, Keeping DEF NothingNew
<1> QED BY <1>1, <1>2

\* What leaves nothing new in the line keeps every message well formed.
LEMMA MessagesKept ==
  ASSUME Messages, NothingNew, UNCHANGED <<stls, skeys>>
  PROVE  Messages'
<1>1. Rest.kind = "rest" /\ Rest.key = NoKeys
  BY DEF Rest, Answer, Records
<1>2. ASSUME NEW i \in Around'
      PROVE  /\ Nth(i)'.kind = "pair" => Nth(i)'.n \in 1..MaxPairs
             /\ Nth(i)'.kind \in {"hello", "rt1", "rt2"} => Nth(i)'.key \in Randoms
             /\ Nth(i)'.kind \in {"version", "pair", "rest", "error"} => Nth(i)'.key = NoKeys
  <2>1. CASE Nth(i)' = Rest
    BY <1>1, <2>1
  <2>2. CASE \E j \in Around : Nth(i)' = Nth(j)
    BY <2>2 DEF Messages
  <2> QED BY <1>2, <2>1, <2>2 DEF NothingNew
<1> QED BY <1>2 DEF Messages

\* So does an answer that is well formed itself.
LEMMA MessagesAnswered ==
  ASSUME Queues, Messages, NEW a \in Rpls, inq # <<>>, Answers(a), UNCHANGED strict,
         a.kind = "pair" => a.n \in 1..MaxPairs,
         a.kind \in {"rt1", "rt2"} => a.key \in Randoms,
         a.kind \in {"version", "pair", "rest", "error"} => a.key = NoKeys,
         stls' # "off" => skeys' \in Randoms
  PROVE  Queues' /\ Messages'
<1>0. a.kind # "hello"
  BY DEF Rpls, AnswerKinds
<1>1. Queues' /\ Around' = Around
  BY Answering DEF Around
<1>2. ASSUME NEW i \in Around'
      PROVE  /\ Nth(i)'.kind = "pair" => Nth(i)'.n \in 1..MaxPairs
             /\ Nth(i)'.kind \in {"hello", "rt1", "rt2"} => Nth(i)'.key \in Randoms
             /\ Nth(i)'.kind \in {"version", "pair", "rest", "error"} => Nth(i)'.key = NoKeys
  <2>1. Nth(i)' = a \/ Nth(i)' = Nth(i)
    BY <1>1, Answering
  <2>2. CASE Nth(i)' = a
    BY <1>0, <2>2
  <2>3. CASE Nth(i)' = Nth(i)
    BY <1>1, <2>3 DEF Messages
  <2> QED BY <2>1, <2>2, <2>3
<1> QED BY <1>1, <1>2 DEF Messages

\* So does a write, whether it succeeds or not.
LEMMA MessagesWritten ==
  ASSUME Typing, op \in Sending, UNCHANGED strict, UNCHANGED <<stls, skeys>>,
         Ep0!Arrives(Outgoing) \/ Ep0!Begins \/ UNCHANGED <<inq, ans>>
  PROVE  Queues' /\ Messages'
<1> DEFINE c == Outgoing
<1>0. /\ c \in Cmds /\ c.kind = op
      /\ op = "pair" => c.n \in 1..MaxPairs
      /\ op = "hello" => c.key \in Randoms
      /\ op = "version" => c.key = NoKeys
      /\ op = "pair" => c.key = NoKeys
      /\ op \notin {"rt1", "rt2", "rest", "error"}
  BY OutgoingTyped DEF Typing, Scalars, Sending
<1> HIDE DEF c
<1>1. CASE Ep0!Arrives(c)
  <2>1. Queues' /\ Around' = 1..Total' /\ Len(ans') < Total' /\ \A i \in Around' : i = Total' => Nth(i)' = c
    BY <1>0, <1>1, Arriving DEF Around, Typing
  <2>2. ASSUME NEW i \in Around', i # Total' PROVE \E j \in Around : Nth(i)' = Nth(j)
    <3>1. ~strict
      BY <1>0, <1>1, <2>1, <2>2, Arriving DEF Typing
    <3>2. Total' = Total + 1 /\ \A j \in Around : Nth(j)' = Nth(j)
      BY <1>0, <1>1, <3>1, Arriving DEF Typing
    <3>3. i \in Around
      BY <2>1, <2>2, <3>2, AroundTyped DEF Around, Typing
    <3> QED BY <3>2, <3>3
  <2>3. ASSUME NEW i \in Around'
        PROVE  /\ Nth(i)'.kind = "pair" => Nth(i)'.n \in 1..MaxPairs
               /\ Nth(i)'.kind \in {"hello", "rt1", "rt2"} => Nth(i)'.key \in Randoms
               /\ Nth(i)'.kind \in {"version", "pair", "rest", "error"} => Nth(i)'.key = NoKeys
    <3>1. CASE Nth(i)' = c
      BY <1>0, <3>1
    <3>2. CASE \E j \in Around : Nth(i)' = Nth(j)
      BY <3>2 DEF Typing, Messages
    <3> QED BY <2>1, <2>2, <3>1, <3>2
  <2> QED BY <2>1, <2>3 DEF Typing, Messages
<1>2. CASE Ep0!Begins
  BY <1>2, Beginning DEF Typing, Messages
<1>3. CASE UNCHANGED <<inq, ans>>
  <2>1. NothingNew
    BY <1>3, Keeping DEF NothingNew, Typing
  <2> QED BY <1>3, <2>1, Keeping, MessagesKept DEF Typing
<1> QED BY <1>1, <1>2, <1>3 DEF c

\* Giving up an open, or crashing, forgets everything but the file
\* (verimark_open_fail, dev_close).
LEMMA PhaseForgotten ==
  ASSUME Typing, Forget, UNCHANGED <<file, strict>>
  PROVE  /\ op' = "closed" /\ random' = random /\ Booleans' /\ Phase'
         /\ UNCHANGED sensorVars => Scalars' /\ Counters'
<1>1. Booleans'
  BY DEF Typing, Booleans, Forget
<1>2. Phase'
  BY DEF Phase, Forget, Continue, Established
<1>3. ASSUME UNCHANGED sensorVars PROVE Scalars' /\ Counters'
  <2>1. Counters'
    BY <1>3, SessionBounds DEF Typing, Counters, Forget, sensorVars
  <2>2. Scalars'
    BY <1>3 DEF Typing, Scalars, Forget, Continue, sensorVars, Ops, Keys
  <2> QED BY <2>1, <2>2
<1> QED BY <1>1, <1>2, <1>3 DEF Forget, Continue

\* A read keeps every message well formed.
LEMMA MessagesRead ==
  ASSUME Typing, Ep0!Spoilt \/ UNCHANGED ans, UNCHANGED <<inq, strict>>, UNCHANGED sensorVars
  PROVE  Queues' /\ Messages'
BY Readings, MessagesKept DEF Typing, sensorVars

\* Every step of the driver and of the sensor keeps the types.
LEMMA TypingStep ==
  ASSUME Typing, [Next]_vars
  PROVE  Typing'
<1> USE DEF Continue
<1>1. CASE dev_open
  <2> USE <1>1 DEF dev_open, driverVars, sensorVars
  <2>1. Scalars'
    BY DEF Typing, Scalars, Ops, Opening
  <2>2. Counters' /\ Booleans'
    BY DEF Typing, Counters, Booleans
  <2>3. Queues' /\ Messages'
    BY MessagesRead DEF Typing
  <2>4. Phase'
    BY DEF Typing, Phase, Established
  <2> QED BY <2>1, <2>2, <2>3, <2>4 DEF Typing
<1>2. CASE verimark_moc_send
  <2> USE <1>2 DEF verimark_moc_send, driverVars, sensorVars
  <2>1. Scalars'
    BY DEF Typing, Scalars, Ops, Opening
  <2>2. Counters' /\ Booleans'
    BY SessionBounds DEF Typing, Counters, Booleans
  <2>3. Queues' /\ Messages'
    BY MessagesRead DEF Typing
  <2>4. Phase'
    <3>1. op = "open" /\ op' = "command" /\ wire' = "idle" /\ keys' = keys /\ random' = random
      OBVIOUS
    <3>2. keys = random /\ encr_seq >= 1
      BY DEF Typing, Phase, Established
    <3>3. encr_seq' >= 2 /\ encr_seq' <= MaxSeq /\ encr_seq' >= 1
      BY <3>2, SessionBounds DEF Typing, Counters
    <3> QED BY <3>1, <3>2, <3>3 DEF Phase, Established
  <2> QED BY <2>1, <2>2, <2>3, <2>4 DEF Typing
<1>3. CASE verimark_tls_close
  <2> USE <1>3 DEF verimark_tls_close, driverVars, sensorVars
  <2>1. Scalars'
    BY DEF Typing, Scalars, Ops, Opening
  <2>0. encr_seq >= 1 /\ encr_seq <= MaxSeq /\ keys = random
    BY DEF Typing, Phase, Established
  <2>2. Counters'
    BY <2>0, SessionBounds DEF Typing, Counters
  <2>5. Booleans'
    BY DEF Typing, Booleans
  <2>3. Queues' /\ Messages'
    BY MessagesRead DEF Typing
  <2>4. Phase'
    <3>1. encr_seq' >= 1
      BY <2>0 DEF Typing, Counters
    <3> QED BY <2>0, <3>1 DEF Phase, Established
  <2> QED BY <2>1, <2>2, <2>3, <2>4, <2>5 DEF Typing
<1>4. CASE verimark_ctrl_write_sync
  <2> USE <1>4 DEF verimark_ctrl_write_sync, driverVars, sensorVars
  <2>1. Scalars'
    BY DEF Typing, Scalars
  <2>2. Counters' /\ Booleans'
    BY DEF Typing, Counters, Booleans
  <2>3. Queues' /\ Messages'
    BY MessagesWritten
  <2>4. Phase'
    BY DEF Typing, Phase, Established, Sending
  <2> QED BY <2>1, <2>2, <2>3, <2>4 DEF Typing
<1>5. CASE verimark_ctrl_read_sync
  <2> USE <1>5 DEF verimark_ctrl_read_sync, memory, driverVars, sensorVars
  <2>1. Scalars'
    BY DEF Typing, Scalars
  <2>2. Counters' /\ Booleans'
    BY DEF Typing, Counters, Booleans
  <2>3. Queues' /\ Messages'
    BY MessagesRead
  <2>4. Phase'
    BY DEF Typing, Phase, Established
  <2> QED BY <2>1, <2>2, <2>3, <2>4 DEF Typing
<1>6. CASE verimark_resolve_sid_sync
  <2> USE <1>6 DEF verimark_resolve_sid_sync, ReadOk, Got
  <2>0. /\ Reply.kind = "pair" => Reply.n \in 1..MaxPairs
        /\ ans # <<>>
    BY ReplyTyped DEF Typing
  <2>1. SidRead \in Sids /\ op = "version" /\ pd = NoPd
    BY <2>0, SessionBounds DEF SidRead, Sids, OwnSid, Typing, Scalars
  <2>2. keys = NoKeys /\ encr_seq = 0 /\ decr_seq = 0 /\ given = 0 /\ lost = FALSE
    BY DEF Typing, Phase
  <2>3. Queues' /\ Messages'
    BY MessagesRead
  <2>4. CASE /\ file[SidRead] \in Credentials /\ pd' = file[SidRead] /\ hs_build_client_hello
             /\ UNCHANGED generated
    <3> USE <2>4 DEF hs_build_client_hello, sensorVars
    <3>1. random' \in Randoms
      <4>1. random \in Int /\ QueueSize \in Nat
        BY SessionBounds DEF Typing, Scalars, Randoms
      <4>2. (random + 1) % (QueueSize + 1) \in 0..QueueSize
        BY <4>1
      <4> QED BY <4>2 DEF Randoms
    <3>2. Scalars'
      BY <2>1, <3>1 DEF Typing, Scalars, Ops, Opening
    <3>3. Counters' /\ Booleans'
      BY DEF Typing, Counters, Booleans
    <3>4. Phase'
      BY <2>2 DEF Phase, Established
    <3> QED BY <2>3, <3>2, <3>3, <3>4 DEF Typing
  <2>5. CASE /\ CanPair(SidRead) /\ generated < MaxPairs
             /\ generated' = generated + 1 /\ Continue("pair")
             /\ UNCHANGED <<pd, random, keys, encr_seq, decr_seq>>
    <3> USE <2>5 DEF sensorVars
    <3>0. generated' \in 0..MaxPairs /\ generated' >= 1
      BY SessionBounds DEF Typing, Scalars
    <3>2. Scalars'
      BY <2>1, <3>0 DEF Typing, Scalars, Ops, Opening
    <3>3. Counters' /\ Booleans'
      BY DEF Typing, Counters, Booleans
    <3>4. Phase'
      BY <2>2, <3>0 DEF Phase, Established
    <3> QED BY <2>3, <3>2, <3>3, <3>4 DEF Typing
  <2> QED BY <2>4, <2>5 DEF LoadOrPair
<1>7. CASE verimark_pairing_do
  <2> USE <1>7 DEF verimark_pairing_do, ReadOk, Got, sensorVars
  <2>0. pd' \in Credentials
    BY SessionBounds DEF PairedData, Credentials, Typing, Scalars, Phase
  <2>1. Scalars'
    BY <2>0 DEF Typing, Scalars, Ops, Opening
  <2>2. Counters' /\ Booleans'
    BY DEF Typing, Counters, Booleans
  <2>3. Queues' /\ Messages'
    BY MessagesRead
  <2>4. Phase'
    BY DEF Typing, Phase, Established
  <2> QED BY <2>1, <2>2, <2>3, <2>4 DEF Typing
<1>8. CASE verimark_pairing_save_file
  <2> USE <1>8 DEF verimark_pairing_save_file, sensorVars
  <2>3. Queues' /\ Messages'
    BY MessagesRead
  <2>2. Booleans'
    BY DEF Typing, Booleans
  <2>4. CASE op = "save_open"
    <3> USE <2>4
    <3>1. Scalars'
      BY DEF Typing, Scalars, Ops, Opening
    <3>2. Counters' /\ Phase'
      BY DEF Typing, Counters, Phase, Established
    <3> QED BY <2>2, <2>3, <3>1, <3>2 DEF Typing
  <2>5. CASE op = "save_write"
    <3> USE <2>5 DEF hs_build_client_hello
    <3>0. random' \in Randoms
      <4>1. random \in Int /\ QueueSize \in Nat
        BY SessionBounds DEF Typing, Scalars, Randoms
      <4>2. (random + 1) % (QueueSize + 1) \in 0..QueueSize
        BY <4>1
      <4> QED BY <4>2 DEF Randoms
    <3>1. Scalars'
      BY <3>0 DEF Typing, Scalars, Ops, Opening
    <3>2. Counters' /\ Phase'
      BY DEF Typing, Counters, Phase, Established
    <3> QED BY <2>2, <2>3, <3>1, <3>2 DEF Typing
  <2> QED BY <2>4, <2>5
<1>9. CASE hs_build_rt2
  <2> USE <1>9 DEF hs_build_rt2, ReadOk, Got, sensorVars
  <2>1. Scalars'
    BY DEF Typing, Scalars, Ops, Opening, Keys
  <2>2. Counters' /\ Booleans'
    BY SessionBounds DEF Typing, Counters, Booleans
  <2>3. Queues' /\ Messages'
    BY MessagesRead
  <2>4. Phase'
    BY DEF Typing, Phase, Established
  <2> QED BY <2>1, <2>2, <2>3, <2>4 DEF Typing
<1>10. CASE hs_process_rt2
  <2> USE <1>10 DEF hs_process_rt2, ReadOk, Got, sensorVars
  <2>0. keys \in Randoms /\ ans # <<>>
    <3>1. ans # <<>> /\ Reply.kind = "rt2" /\ Reply.key = keys
      BY DEF ServerFinished, Answer, Records
    <3> QED BY <3>1, ReplyTyped DEF Typing
  <2>5. keys = random /\ encr_seq = 1 /\ decr_seq = 0
    BY <2>0 DEF Typing, Phase, Randoms, NoKeys
  <2>1. Scalars'
    BY DEF Typing, Scalars, Ops, Opening, Keys
  <2>2. Counters' /\ Booleans'
    BY <2>5, SessionBounds DEF Typing, Counters, Booleans, NextDecr
  <2>3. Queues' /\ Messages'
    BY MessagesRead
  <2>4. Phase'
    BY <2>5, SessionBounds DEF Typing, Phase, Established
  <2> QED BY <2>1, <2>2, <2>3, <2>4 DEF Typing
<1>11. CASE verimark_open_fail
  <2> USE <1>11 DEF verimark_open_fail, ReadOk, ReadFails
  <2>1. Booleans' /\ Phase' /\ Scalars' /\ Counters'
    BY PhaseForgotten
  <2>2. Queues' /\ Messages'
    BY MessagesRead
  <2> QED BY <2>1, <2>2 DEF Typing
<1>12. CASE on_moc_raw_resp
  <2> USE <1>12 DEF on_moc_raw_resp
  <2>0. /\ Ep0!Spoilt \/ UNCHANGED ans
        /\ UNCHANGED inq
    BY DEF ReadOk, ReadFails
  <2>1. Scalars'
    BY DEF Typing, Scalars, Ops, Opening, sensorVars
  <2>2. encr_seq' = encr_seq /\ srx' = srx /\ stx' = stx
    BY DEF sensorVars
  <2>3. decr_seq' \in Nat
    <3>1. CASE UNCHANGED decr_seq
      BY <3>1 DEF Typing, Counters
    <3>2. CASE Got /\ decr_seq' \in {NextDecr(1), NextDecr(Reply.recs)}
      <4>1. Reply.recs \in Nat
        BY <3>2, ReplyTyped DEF Got, Typing
      <4> QED BY <3>2, <4>1 DEF Typing, Counters, NextDecr
    <3> QED BY <3>1, <3>2 DEF ReadOk
  <2>4. Counters'
    BY <2>2, <2>3 DEF Typing, Counters
  <2>5. Booleans'
    BY DEF Typing, Booleans
  <2>6. Queues' /\ Messages'
    BY <2>0, MessagesRead
  <2>7. Phase'
    <3>1. keys' = keys /\ random' = random /\ wire' = "idle" /\ op' = "open" /\ op = "command"
      OBVIOUS
    <3> QED BY <2>2, <3>1 DEF Typing, Phase, Established
  <2> QED BY <2>1, <2>4, <2>5, <2>6, <2>7 DEF Typing
<1>13. CASE dev_close
  <2> USE <1>13 DEF dev_close, ReadOk, ReadFails
  <2>1. Booleans' /\ Phase' /\ Scalars' /\ Counters'
    BY PhaseForgotten
  <2>2. Queues' /\ Messages'
    BY MessagesRead
  <2> QED BY <2>1, <2>2 DEF Typing
<1>14. CASE Crash
  <2> USE <1>14 DEF Crash
  <2>1. Booleans' /\ Phase' /\ Scalars' /\ Counters'
    BY PhaseForgotten
  <2>2. Queues' /\ Messages'
    BY MessagesRead
  <2> QED BY <2>1, <2>2 DEF Typing
<1>15. CASE Sensor
  <2>0. UNCHANGED <<memory, file, strict>>
    BY <1>15 DEF Sensor
  <2>1. Booleans' /\ Phase'
    BY <2>0 DEF Typing, Booleans, Phase, Established, memory, driverVars
  <2>2. /\ hosts' \subseteq 1..MaxPairs
        /\ stls' \in {"off", "hello", "on"} /\ skeys' \in Keys
        /\ srx' \in Nat /\ stx' \in Nat
        => Scalars' /\ Counters'
    <3> SUFFICES ASSUME hosts' \subseteq 1..MaxPairs, stls' \in {"off", "hello", "on"}, skeys' \in Keys,
                        srx' \in Nat, stx' \in Nat
                 PROVE  Scalars' /\ Counters'
      OBVIOUS
    <3>1. Scalars'
      BY <2>0 DEF Typing, Scalars, memory, driverVars
    <3>2. Counters'
      BY <2>0 DEF Typing, Counters, memory, driverVars
    <3> QED BY <3>1, <3>2
  <2>3. /\ hosts \subseteq 1..MaxPairs
        /\ stls \in {"off", "hello", "on"} /\ skeys \in Keys
        /\ srx \in Nat /\ stx \in Nat
        /\ stls # "off" => skeys \in Randoms
    BY DEF Typing, Scalars, Counters, Messages
  <2>4. inq # <<>> => /\ Command.kind = "pair" => Command.n \in 1..MaxPairs
                      /\ Command.kind = "hello" => Command.key \in Randoms
                      /\ Command.n \in Int /\ Command.key \in Keys
    BY CommandTyped DEF Typing
  <2>5. \A kind \in AnswerKinds, key \in Keys, seq \in Nat, n \in Int, recs \in 1..MaxRecords :
          /\ Records(kind, key, seq, n, recs) \in Rpls /\ Records(kind, key, seq, n, recs).kind = kind
          /\ Records(kind, key, seq, n, recs).key = key /\ Records(kind, key, seq, n, recs).n = n
    BY DEF Records, Rpls
  <2>6. /\ 1 \in 1..MaxRecords /\ 0 \in Nat /\ NoKeys \in Keys /\ Randoms \subseteq Keys /\ 0 \in Int
        /\ {"error", "rest", "version", "pair", "rt1", "rt2", "app", "alert"} = AnswerKinds
    BY SessionBounds DEF Keys, AnswerKinds
  <2>7. strict' = strict
    BY <2>0
  <2> HIDE DEF Command
  <2>8. ASSUME NEW a \in Rpls, inq # <<>>, Answers(a),
               a.kind = "pair" => a.n \in 1..MaxPairs,
               a.kind \in {"rt1", "rt2"} => a.key \in Randoms,
               a.kind \in {"version", "pair", "rest", "error"} => a.key = NoKeys,
               stls' # "off" => skeys' \in Randoms
        PROVE  Queues' /\ Messages'
    BY <2>7, <2>8, MessagesAnswered DEF Typing
  <2>9. CASE SensorRefuses
    <3>1. Error \in Rpls /\ Error.kind = "error" /\ Error.key = NoKeys
      BY RestTyped DEF Error, Answer, Records
    <3>2. inq # <<>> /\ Answers(Error) /\ UNCHANGED sensorVars
      BY <2>9 DEF SensorRefuses
    <3>3. Scalars' /\ Counters'
      BY <2>2, <2>3, <3>2 DEF sensorVars
    <3>4. stls' # "off" => skeys' \in Randoms
      BY <2>3, <3>2 DEF sensorVars
    <3> HIDE DEF Error
    <3>5. Queues' /\ Messages'
      BY <2>8, <3>1, <3>2, <3>4
    <3> QED BY <2>1, <3>3, <3>5 DEF Typing
  <2>10. CASE SensorVersion
    <3> DEFINE a == Answer("version", NoKeys, 0, 0)
    <3>1. a \in Rpls /\ a.kind = "version" /\ a.key = NoKeys
      BY <2>5, <2>6 DEF Answer
    <3>2. inq # <<>> /\ Answers(a) /\ UNCHANGED sensorVars
      BY <2>10 DEF SensorVersion, Executing
    <3>3. Scalars' /\ Counters'
      BY <2>2, <2>3, <3>2 DEF sensorVars
    <3>4. stls' # "off" => skeys' \in Randoms
      BY <2>3, <3>2 DEF sensorVars
    <3> HIDE DEF a
    <3>5. Queues' /\ Messages'
      BY <2>8, <3>1, <3>2, <3>4
    <3> QED BY <2>1, <3>3, <3>5 DEF Typing
  <2>11. CASE SensorPairs
    <3> DEFINE a == Answer("pair", NoKeys, 0, Command.n)
    <3>0. inq # <<>> /\ Answers(a) /\ Command.kind = "pair" /\ hosts' = hosts \cup {Command.n}
          /\ UNCHANGED <<stls, skeys, srx, stx>>
      BY <2>11 DEF SensorPairs, Executing, Command
    <3>6. Command.n \in Int /\ Command.n \in 1..MaxPairs /\ "pair" \in AnswerKinds /\ NoKeys \in Keys
      BY <2>4, <2>6, <3>0
    <3>1. a \in Rpls /\ a.kind = "pair" /\ a.key = NoKeys
      BY <2>5, <2>6, <3>6 DEF Answer
    <3>7. a.n = Command.n
      BY DEF Answer, Records
    <3>3. Scalars' /\ Counters'
      BY <2>2, <2>3, <3>0, <3>6
    <3>4. stls' # "off" => skeys' \in Randoms
      BY <2>3, <3>0
    <3> HIDE DEF a
    <3>5. Queues' /\ Messages'
      BY <2>8, <3>0, <3>1, <3>4, <3>6, <3>7
    <3> QED BY <2>1, <3>3, <3>5 DEF Typing
  <2>12. CASE SensorHello
    <3> DEFINE a == Answer("rt1", Command.key, 0, 0)
    <3>0. inq # <<>> /\ Answers(a) /\ Command.kind = "hello" /\ hosts' = hosts
          /\ stls' = "hello" /\ skeys' = Command.key /\ srx' = 0 /\ stx' = 0
      BY <2>12 DEF SensorHello, Executing, Command
    <3>2. Command.key \in Randoms /\ Command.key \in Keys /\ "rt1" \in AnswerKinds
      BY <2>4, <2>6, <3>0
    <3>1. a \in Rpls /\ a.kind = "rt1" /\ a.key = Command.key /\ Command.key \in Randoms
      BY <2>5, <2>6, <3>2 DEF Answer
    <3>3. Scalars' /\ Counters'
      BY <2>2, <2>3, <2>6, <3>0, <3>1
    <3> HIDE DEF a
    <3>5. Queues' /\ Messages'
      BY <2>8, <3>0, <3>1
    <3> QED BY <2>1, <3>3, <3>5 DEF Typing
  <2>13. CASE SensorFinish
    <3> DEFINE a == Answer("rt2", skeys, 0, 0)
    <3>0. inq # <<>> /\ Answers(a) /\ hosts' = hosts /\ skeys' = skeys
          /\ stls = "hello" /\ stls' = "on" /\ srx' = 1 /\ stx' = 1
      BY <2>13 DEF SensorFinish, Executing
    <3>1. a \in Rpls /\ a.kind = "rt2" /\ a.key = skeys /\ skeys \in Randoms
      BY <2>3, <2>5, <2>6, <3>0 DEF Answer
    <3>2. 1 \in Nat
      OBVIOUS
    <3>3. Scalars' /\ Counters'
      BY <2>2, <2>3, <3>0, <3>2
    <3> HIDE DEF a
    <3>5. Queues' /\ Messages'
      BY <2>8, <3>0, <3>1
    <3> QED BY <2>1, <3>3, <3>5 DEF Typing
  <2>14. CASE SensorExecutes
    <3>0. PICK recs \in 1..MaxRecords : stx' = stx + recs /\ Answers(Records("app", skeys, stx, Command.n, recs))
      BY <2>14 DEF SensorExecutes
    <3> DEFINE a == Records("app", skeys, stx, Command.n, recs)
    <3>1. inq # <<>> /\ srx' = srx + 1 /\ UNCHANGED <<hosts, stls, skeys>>
      BY <2>14 DEF SensorExecutes, Executing
    <3>2. srx' \in Nat /\ stx' \in Nat
      BY <2>3, <3>0, <3>1, SessionBounds
    <3>3. Scalars' /\ Counters'
      BY <2>2, <2>3, <3>1, <3>2
    <3>4. stls' # "off" => skeys' \in Randoms
      BY <2>3, <3>1
    <3>8. Command.n \in Int /\ "app" \in AnswerKinds /\ skeys \in Keys /\ stx \in Nat
      BY <2>3, <2>4, <2>6, <3>1
    <3>5. a \in Rpls /\ a.kind = "app"
      BY <2>5, <3>8
    <3>6. Answers(a)
      BY <3>0
    <3> HIDE DEF a
    <3>7. Queues' /\ Messages'
      BY <2>8, <3>1, <3>4, <3>5, <3>6
    <3> QED BY <2>1, <3>3, <3>7 DEF Typing
  <2>15. CASE SensorAlerts \/ SensorCloses
    <3> DEFINE a == Answer("alert", skeys, stx, 0)
    <3>1. inq # <<>> /\ Answers(a) /\ UNCHANGED <<hosts, skeys, srx>> /\ stx' \in {stx, stx + 1}
          /\ stls' \in {stls, "off"}
      BY <2>15 DEF SensorAlerts, SensorCloses, Executing
    <3>2. stx' \in Nat
      BY <2>3, <3>1
    <3>3. Scalars' /\ Counters'
      BY <2>2, <2>3, <3>1, <3>2
    <3>4. stls' # "off" => skeys' \in Randoms
      BY <2>3, <3>1
    <3>5. a \in Rpls /\ a.kind = "alert"
      BY <2>3, <2>5, <2>6 DEF Answer
    <3> HIDE DEF a
    <3>7. Queues' /\ Messages'
      BY <2>8, <3>1, <3>4, <3>5
    <3> QED BY <2>1, <3>3, <3>7 DEF Typing
  <2>16. CASE SensorDrops
    <3>1. stls' = "off" /\ UNCHANGED <<inq, ans, hosts, skeys, srx, stx>>
      BY <2>16 DEF SensorDrops
    <3>2. Scalars' /\ Counters'
      BY <2>2, <2>3, <3>1
    <3>3. Queues' /\ NothingNew
      BY <2>7, <3>1, Readings DEF Typing
    <3>4. Messages'
      <4>1. Rest.kind = "rest" /\ Rest.key = NoKeys
        BY DEF Rest, Answer, Records
      <4> QED BY <3>1, <3>3, <4>1 DEF NothingNew, Messages, Typing
    <3> QED BY <2>1, <3>2, <3>3, <3>4 DEF Typing
  <2> QED BY <1>15, <2>9, <2>10, <2>11, <2>12, <2>13, <2>14, <2>15, <2>16 DEF Sensor
<1>16. CASE UNCHANGED vars
  <2> USE <1>16 DEF vars, memory, driverVars, sensorVars
  <2>1. Queues' /\ Messages'
    BY MessagesRead DEF Typing
  <2>2. Scalars'
    BY DEF Typing, Scalars
  <2>3. Counters' /\ Booleans'
    BY DEF Typing, Counters, Booleans
  <2>4. Phase'
    BY DEF Typing, Phase, Established
  <2> QED BY <2>1, <2>2, <2>3, <2>4 DEF Typing
<1> QED BY <1>1, <1>2, <1>3, <1>4, <1>5, <1>6, <1>7, <1>8, <1>9, <1>10, <1>11, <1>12, <1>13,
           <1>14, <1>15, <1>16 DEF Next, Driver

-----------------------------------------------------------------------------
(* What a step of the sensor is *)

\* The sensor executes its first command and answers a.
Executes(a) ==
  /\ inq # <<>> /\ Answers(a) /\ UNCHANGED <<memory, file, strict>>
  /\ a.kind \in {"error", "version", "pair", "rt1", "rt2", "app", "alert"}
  /\ a.kind # "app" => a.recs = 1
  /\ a.kind # "pair" => hosts' = hosts
  /\ a.kind \in {"error", "version", "pair"} => a.key = NoKeys /\ UNCHANGED <<stls, skeys, srx, stx>>
  /\ a.kind = "version" => Command.kind = "version" /\ stls # "on"
  /\ a.kind = "pair" => /\ Command.kind = "pair" /\ stls # "on"
                        /\ a.n = Command.n /\ hosts' = hosts \cup {Command.n}
  /\ a.kind = "rt1" => /\ Command.kind = "hello" /\ a.key = Command.key
                       /\ stls' = "hello" /\ skeys' = Command.key /\ srx' = 0 /\ stx' = 0
  /\ a.kind = "rt2" => /\ Command.kind = "finish" /\ stls = "hello" /\ a.key = skeys
                       /\ Command.key = skeys /\ Command.n \in hosts
                       /\ stls' = "on" /\ skeys' = skeys /\ srx' = 1 /\ stx' = 1
  /\ a.kind \in {"app", "alert"} => /\ stls = "on" /\ a.key = skeys /\ a.seq = stx
                                    /\ skeys' = skeys
  /\ a.kind = "app" => /\ Command.kind = "command" /\ Command.key = skeys /\ Command.n = srx
                       /\ a.n = Command.n
                       /\ stls' = stls /\ srx' = srx + 1 /\ stx' = stx + a.recs
  /\ a.kind = "alert" =>
       /\ Command.kind \in {"command", "close"} /\ srx' = srx
       /\ \/ stls' = "on" /\ stx' = stx + 1 /\ ~(Command.key = skeys /\ Command.n = srx)
          \/ stls' = "off" /\ stx' = stx /\ Command.kind = "close"

\* The sensor drops its session.
Drops == stls' = "off" /\ UNCHANGED <<memory, file, strict, inq, ans, hosts, skeys, srx, stx>>

\* A step of the sensor drops the session or executes a command, and what it
\* answers tells what it did.
LEMMA SensorSteps ==
  ASSUME Typing, Sensor
  PROVE  Drops \/ \E a \in Rpls : Executes(a)
<1>0. UNCHANGED <<memory, file, strict>>
  BY DEF Sensor
<1>1. inq # <<>> => Command.n \in Int /\ Command.key \in Keys
  BY CommandTyped DEF Typing
<1>2. \A kind \in AnswerKinds, key \in Keys, seq \in Nat, n \in Int, recs \in 1..MaxRecords :
        /\ Records(kind, key, seq, n, recs) \in Rpls /\ Records(kind, key, seq, n, recs).kind = kind
        /\ Records(kind, key, seq, n, recs).key = key /\ Records(kind, key, seq, n, recs).n = n
        /\ Records(kind, key, seq, n, recs).seq = seq /\ Records(kind, key, seq, n, recs).recs = recs
  BY DEF Records, Rpls
<1>3. /\ 1 \in 1..MaxRecords /\ 0 \in Nat /\ NoKeys \in Keys /\ 0 \in Int
      /\ {"error", "rest", "version", "pair", "rt1", "rt2", "app", "alert"} = AnswerKinds
  BY SessionBounds DEF Keys, AnswerKinds
<1>4. skeys \in Keys /\ stx \in Nat
  BY DEF Typing, Scalars, Counters
<1> HIDE DEF Command
<1>5. CASE SensorRefuses
  <2> DEFINE a == Error
  <2>1. a \in Rpls /\ a.kind = "error" /\ a.key = NoKeys /\ a.recs = 1
    BY <1>2, <1>3 DEF Error, Answer
  <2>2. inq # <<>> /\ Answers(a) /\ UNCHANGED sensorVars
    BY <1>5 DEF SensorRefuses
  <2> HIDE DEF a
  <2> QED BY <1>0, <2>1, <2>2 DEF Executes, sensorVars
<1>6. CASE SensorVersion
  <2> DEFINE a == Answer("version", NoKeys, 0, 0)
  <2>1. a \in Rpls /\ a.kind = "version" /\ a.key = NoKeys /\ a.recs = 1
    BY <1>2, <1>3 DEF Answer
  <2>2. inq # <<>> /\ Answers(a) /\ UNCHANGED sensorVars /\ Command.kind = "version" /\ stls # "on"
    BY <1>6 DEF SensorVersion, Executing, Command
  <2> HIDE DEF a
  <2> QED BY <1>0, <2>1, <2>2 DEF Executes, sensorVars
<1>7. CASE SensorPairs
  <2> DEFINE n == Command.n
             a == Answer("pair", NoKeys, 0, n)
  <2>2. inq # <<>> /\ Answers(a) /\ Command.kind = "pair" /\ stls # "on" /\ hosts' = hosts \cup {n}
        /\ UNCHANGED <<stls, skeys, srx, stx>>
    BY <1>7 DEF SensorPairs, Executing, Command
  <2>3. n \in Int
    BY <1>1, <2>2
  <2> HIDE DEF n
  <2>1. a \in Rpls /\ a.kind = "pair" /\ a.key = NoKeys /\ a.recs = 1 /\ a.n = n
    BY <1>2, <1>3, <2>3 DEF Answer
  <2> HIDE DEF a
  <2> QED BY <1>0, <2>1, <2>2 DEF Executes, n
<1>8. CASE SensorHello
  <2> DEFINE k == Command.key
             a == Answer("rt1", k, 0, 0)
  <2>2. inq # <<>> /\ Answers(a) /\ Command.kind = "hello"
        /\ stls' = "hello" /\ skeys' = k /\ srx' = 0 /\ stx' = 0 /\ hosts' = hosts
    BY <1>8 DEF SensorHello, Executing, Command
  <2>3. k \in Keys
    BY <1>1, <2>2
  <2> HIDE DEF k
  <2>1. a \in Rpls /\ a.kind = "rt1" /\ a.key = k /\ a.recs = 1
    BY <1>2, <1>3, <2>3 DEF Answer
  <2> HIDE DEF a
  <2> QED BY <1>0, <2>1, <2>2 DEF Executes, k
<1>9. CASE SensorFinish
  <2> DEFINE a == Answer("rt2", skeys, 0, 0)
  <2>1. a \in Rpls /\ a.kind = "rt2" /\ a.key = skeys /\ a.recs = 1
    BY <1>2, <1>3, <1>4 DEF Answer
  <2>2. inq # <<>> /\ Answers(a) /\ Command.kind = "finish" /\ stls = "hello" /\ Command.key = skeys
        /\ Command.n \in hosts /\ stls' = "on" /\ srx' = 1 /\ stx' = 1 /\ hosts' = hosts /\ skeys' = skeys
    BY <1>9 DEF SensorFinish, Executing, Command
  <2> HIDE DEF a
  <2> QED BY <1>0, <2>1, <2>2 DEF Executes
<1>10. CASE SensorExecutes
  <2> DEFINE n == Command.n
  <2>0. PICK recs \in 1..MaxRecords : stx' = stx + recs /\ Answers(Records("app", skeys, stx, n, recs))
    BY <1>10 DEF SensorExecutes
  <2> DEFINE a == Records("app", skeys, stx, n, recs)
  <2>2. inq # <<>> /\ Command.kind = "command" /\ stls = "on" /\ Command.key = skeys /\ n = srx
        /\ srx' = srx + 1 /\ hosts' = hosts /\ stls' = stls /\ skeys' = skeys
    BY <1>10 DEF SensorExecutes, Executing, InSequence, Command
  <2>3. n \in Int
    BY <1>1, <2>2
  <2>4. Answers(a)
    BY <2>0
  <2> HIDE DEF n
  <2>1. a \in Rpls /\ a.kind = "app" /\ a.key = skeys /\ a.seq = stx /\ a.n = n /\ a.recs = recs
    BY <1>2, <1>3, <1>4, <2>3
  <2>5. stx' = stx + a.recs
    BY <2>0, <2>1
  <2> HIDE DEF a
  <2> QED BY <1>0, <2>1, <2>2, <2>4, <2>5 DEF Executes, n
<1>11. CASE SensorAlerts
  <2> DEFINE a == Answer("alert", skeys, stx, 0)
  <2>0. "alert" \in AnswerKinds /\ 0 \in Int /\ 1 \in 1..MaxRecords
    BY <1>3
  <2>1. a \in Rpls /\ a.kind = "alert" /\ a.key = skeys /\ a.seq = stx /\ a.recs = 1
    BY <1>2, <1>4, <2>0 DEF Answer
  <2>2. inq # <<>> /\ Answers(a) /\ Command.kind \in {"command", "close"} /\ stls = "on"
        /\ ~(Command.key = skeys /\ Command.n = srx)
        /\ stx' = stx + 1 /\ hosts' = hosts /\ stls' = stls /\ skeys' = skeys /\ srx' = srx
    BY <1>11 DEF SensorAlerts, Executing, InSequence, Command
  <2> HIDE DEF a
  <2> QED BY <1>0, <2>1, <2>2 DEF Executes
<1>12. CASE SensorCloses
  <2> DEFINE a == Answer("alert", skeys, stx, 0)
  <2>0. "alert" \in AnswerKinds /\ 0 \in Int /\ 1 \in 1..MaxRecords
    BY <1>3
  <2>1. a \in Rpls /\ a.kind = "alert" /\ a.key = skeys /\ a.seq = stx /\ a.recs = 1
    BY <1>2, <1>4, <2>0 DEF Answer
  <2>2. inq # <<>> /\ Answers(a) /\ Command.kind = "close" /\ stls = "on"
        /\ stx' = stx /\ hosts' = hosts /\ stls' = "off" /\ skeys' = skeys /\ srx' = srx
    BY <1>12 DEF SensorCloses, Executing, InSequence, Command
  <2> HIDE DEF a
  <2> QED BY <1>0, <2>1, <2>2 DEF Executes
<1>13. CASE SensorDrops
  BY <1>0, <1>13 DEF SensorDrops, Drops
<1> QED BY <1>5, <1>6, <1>7, <1>8, <1>9, <1>10, <1>11, <1>12, <1>13 DEF Sensor

-----------------------------------------------------------------------------
(* The pairing files *)

\* A pairing is only made when there was no file, and its file is created empty
\* before it is written (verimark_pairing_load, verimark_pairing_save_file).
Filing == /\ op \in {"pair", "save_open"} => file[sid] = Absent
          /\ op = "save_write" => file[sid] = Short

\* A saved file is saved where there was none, and nothing else writes one.
LEMMA FilingStep ==
  ASSUME Typing, Filing, [Next]_vars
  PROVE  /\ Filing'
         /\ \A s \in Sids : file[s] \in Credentials => file'[s] = file[s]
<1> USE DEF Continue
<1>0. Absent \notin Credentials /\ Short \notin Credentials
  BY SessionBounds DEF Absent, Short, Credentials, Mixed
<1>1. CASE verimark_pairing_save_file
  <2>1. sid \in Sids /\ file \in [Sids -> Credentials \cup {Absent, Short}]
    BY <1>1 DEF verimark_pairing_save_file, Typing, Scalars
  <2>2. CASE op = "save_open"
    <3>1. file' = [file EXCEPT ![sid] = Short] /\ op' = "save_write" /\ sid' = sid
      BY <1>1, <2>2 DEF verimark_pairing_save_file
    <3>2. file[sid] = Absent
      BY <2>2 DEF Filing
    <3> QED BY <1>0, <2>1, <3>1, <3>2 DEF Filing
  <2>3. CASE op = "save_write"
    <3>1. file' = [file EXCEPT ![sid] = pd] /\ op' = "hello"
      BY <1>1, <2>3 DEF verimark_pairing_save_file, hs_build_client_hello
    <3>2. file[sid] = Short
      BY <2>3 DEF Filing
    <3> QED BY <1>0, <2>1, <3>1, <3>2 DEF Filing
  <2> QED BY <1>1, <2>2, <2>3 DEF verimark_pairing_save_file
<1>2. CASE verimark_resolve_sid_sync
  <2>1. file' = file /\ sid' = SidRead
    BY <1>2 DEF verimark_resolve_sid_sync
  <2>2. op' = "hello" \/ (op' = "pair" /\ file[SidRead] = Absent)
    BY <1>2 DEF verimark_resolve_sid_sync, LoadOrPair, hs_build_client_hello, CanPair
  <2> QED BY <2>1, <2>2 DEF Filing
<1>3. CASE verimark_pairing_do
  BY <1>3 DEF verimark_pairing_do, Filing
<1>4. CASE verimark_open_fail \/ dev_close \/ Crash
  BY <1>4 DEF verimark_open_fail, dev_close, Crash, Forget, Filing
<1>5. CASE Sensor \/ verimark_ctrl_write_sync \/ verimark_ctrl_read_sync \/ UNCHANGED vars
  <2>1. UNCHANGED <<op, sid, file>>
    BY <1>5 DEF Sensor, verimark_ctrl_write_sync, verimark_ctrl_read_sync, vars, memory, driverVars
  <2> QED BY <2>1 DEF Filing
<1>6. CASE hs_build_rt2 \/ hs_process_rt2 \/ on_moc_raw_resp
  BY <1>6 DEF hs_build_rt2, hs_process_rt2, on_moc_raw_resp, Filing
<1>7. CASE dev_open \/ verimark_moc_send \/ verimark_tls_close
  BY <1>7 DEF dev_open, verimark_moc_send, verimark_tls_close, Filing
<1> QED BY <1>1, <1>2, <1>3, <1>4, <1>5, <1>6, <1>7 DEF Next, Driver

-----------------------------------------------------------------------------
(* Pairing with a strict sensor *)

\* With a sensor that throws unread answers away, the answer read is the answer
\* to the command sent: the id is its own and the credential one it accepted.
StrictPairing ==
  strict =>
    /\ Pairing => sid = OwnSid
    /\ Saving => pd \in hosts
    /\ op = "version" /\ wire = "sent" => \A i \in Around : Nth(i).kind # "pair"
    /\ op = "pair" /\ wire = "sent" =>
         \A i \in Around : Nth(i).kind = "pair" => Nth(i).n = generated /\ (i <= Len(ans) => generated \in hosts)

\* What is around once a strict sensor has a command.
LEMMA StrictWriting ==
  ASSUME Typing, strict, verimark_ctrl_write_sync, wire' = "sent"
  PROVE  /\ Total' = 1 /\ Len(ans') = 0 /\ ans' = <<>> /\ Outgoing \in Cmds
         /\ \A i \in Around' : i = 1 /\ Nth(i)' = Outgoing
<1> DEFINE c == Outgoing
<1>1. Ep0!Arrives(c) /\ op \in Sending /\ strict' = strict
  BY DEF verimark_ctrl_write_sync
<1>2. c \in Cmds
  BY <1>1, OutgoingTyped DEF Typing
<1> HIDE DEF c
<1>3. Total' = 1 /\ ans' = <<>> /\ Len(ans') = 0 /\ \A i \in Around' : i = Total' => Nth(i)' = c
  BY <1>1, <1>2, Arriving DEF Typing
<1>4. \A i \in Around' : i = 1
  BY <1>3 DEF Around
<1> QED BY <1>2, <1>3, <1>4 DEF c

\* No step of a pairing with a strict sensor mixes two pairings, and what is saved
\* is a credential the sensor accepted.
LEMMA StrictPairingStep ==
  ASSUME Typing, StrictPairing, StoredIsAccepted, [Next]_vars
  PROVE  StrictPairing' /\ StoredIsAccepted'
<1> USE DEF Continue
<1>0. strict' = strict
  BY DEF Next, Driver, vars, dev_open, verimark_moc_send, verimark_tls_close, verimark_ctrl_write_sync,
         verimark_ctrl_read_sync, verimark_resolve_sid_sync, verimark_pairing_do, verimark_pairing_save_file,
         hs_build_rt2, hs_process_rt2, verimark_open_fail, on_moc_raw_resp, dev_close, Crash, Sensor
<1> SUFFICES ASSUME strict
             PROVE  StrictPairing' /\ StoredIsAccepted'
  BY <1>0 DEF StrictPairing, StoredIsAccepted
<1>k. ASSUME UNCHANGED <<file, hosts>>
      PROVE  StoredIsAccepted'
  BY <1>0, <1>k DEF StoredIsAccepted
<1>1. CASE verimark_pairing_save_file
  <2>1. sid \in Sids /\ file \in [Sids -> Credentials \cup {Absent, Short}] /\ hosts' = hosts
    BY <1>1 DEF verimark_pairing_save_file, Typing, Scalars, sensorVars
  <2>0. sid = OwnSid /\ pd \in hosts /\ Short \notin Credentials
    BY <1>1, SessionBounds DEF verimark_pairing_save_file, StrictPairing, Pairing, Saving, Short, Credentials, Mixed
  <2>2. CASE op = "save_open"
    <3>1. file' = [file EXCEPT ![sid] = Short] /\ op' = "save_write" /\ sid' = sid /\ pd' = pd
      BY <1>1, <2>2 DEF verimark_pairing_save_file
    <3>2. StoredIsAccepted'
      BY <2>0, <2>1, <3>1 DEF StoredIsAccepted
    <3>3. StrictPairing'
      BY <2>0, <2>1, <3>1 DEF StrictPairing, Pairing, Saving
    <3> QED BY <3>2, <3>3
  <2>3. CASE op = "save_write"
    <3>1. file' = [file EXCEPT ![sid] = pd] /\ op' = "hello"
      BY <1>1, <2>3 DEF verimark_pairing_save_file, hs_build_client_hello
    <3>2. StoredIsAccepted'
      BY <2>0, <2>1, <3>1 DEF StoredIsAccepted
    <3>3. StrictPairing'
      BY <3>1 DEF StrictPairing, Pairing, Saving
    <3> QED BY <3>2, <3>3
  <2> QED BY <1>1, <2>2, <2>3 DEF verimark_pairing_save_file
<1>2. CASE verimark_resolve_sid_sync
  <2>1. file' = file /\ sid' = SidRead /\ hosts' = hosts /\ wire' = "idle" /\ wire = "sent" /\ op = "version"
        /\ ans # <<>> /\ op' \in {"hello", "pair"}
    BY <1>2 DEF verimark_resolve_sid_sync, sensorVars, ReadOk, Got, LoadOrPair, hs_build_client_hello
  <2>2. Reply.kind # "pair"
    BY <2>1, ReplyTyped DEF StrictPairing, Typing
  <2>3. sid' = OwnSid
    BY <2>1, <2>2 DEF SidRead
  <2> QED BY <1>k, <2>1, <2>3 DEF StrictPairing, Pairing, Saving
<1>3. CASE verimark_pairing_do
  <2>1. op = "pair" /\ wire = "sent" /\ ans # <<>> /\ op' = "save_open" /\ sid' = sid /\ hosts' = hosts /\ file' = file
        /\ Reply.kind = "pair" /\ pd' = PairedData
    BY <1>3 DEF verimark_pairing_do, ReadOk, Got, IsPairReply, sensorVars
  <2>2. 1 \in Around /\ Reply = Nth(1) /\ 1 <= Len(ans)
    BY <2>1, ReplyTyped, AroundTyped DEF Typing
  <2>3. Reply.n = generated /\ generated \in hosts /\ sid = OwnSid
    BY <2>1, <2>2 DEF StrictPairing, Pairing
  <2> HIDE DEF Reply
  <2>4. pd' \in hosts'
    BY <2>1, <2>3 DEF PairedData
  <2> QED BY <1>k, <2>1, <2>3, <2>4 DEF StrictPairing, Pairing, Saving
<1>4. CASE verimark_open_fail \/ dev_close \/ Crash
  <2>1. op' = "closed" /\ UNCHANGED <<file, hosts>>
    BY <1>4 DEF verimark_open_fail, dev_close, Crash, Forget, sensorVars
  <2> QED BY <1>k, <2>1 DEF StrictPairing, Pairing, Saving
<1>5. CASE UNCHANGED vars
  <2>1. UNCHANGED <<op, wire, sid, pd, generated, file, hosts, inq, ans>>
    BY <1>5 DEF vars, memory, driverVars, sensorVars
  <2>2. Around' = Around /\ \A i : Nth(i)' = Nth(i)
    BY <2>1, Keeping DEF Typing
  <2>3. StrictPairing'
    BY <2>1, <2>2 DEF StrictPairing, Pairing, Saving
  <2> QED BY <1>k, <2>1, <2>3
<1>6. CASE hs_build_rt2 \/ hs_process_rt2 \/ on_moc_raw_resp \/ dev_open \/ verimark_moc_send \/ verimark_tls_close
  <2>1. /\ op' \in {"version", "finish", "open", "command", "close"} /\ wire' = "idle"
        /\ UNCHANGED <<file, hosts>>
    BY <1>6 DEF hs_build_rt2, hs_process_rt2, on_moc_raw_resp, dev_open, verimark_moc_send, verimark_tls_close,
                sensorVars
  <2> QED BY <1>k, <2>1 DEF StrictPairing, Pairing, Saving
<1>7. CASE verimark_ctrl_write_sync
  <2>1. UNCHANGED <<op, sid, pd, generated, file, hosts>> /\ op \in Sending
    BY <1>7 DEF verimark_ctrl_write_sync, driverVars, sensorVars
  <2>2. CASE wire' # "sent"
    BY <1>k, <2>1, <2>2 DEF StrictPairing, Pairing, Saving
  <2>3. CASE wire' = "sent"
    <3>1. Len(ans') = 0 /\ \A i \in Around' : i = 1 /\ Nth(i)' = Outgoing
      BY <1>7, <2>3, StrictWriting
    <3>2. Outgoing.kind = op /\ (op = "pair" => Outgoing.n = generated)
      BY <2>1, OutgoingTyped DEF Typing
    <3>3. ASSUME NEW i \in Around'
          PROVE  /\ ~(i <= Len(ans'))
                 /\ op = "version" => Nth(i)'.kind # "pair"
                 /\ op = "pair" => Nth(i)'.n = generated'
      BY <2>1, <3>1, <3>2
    <3>4. StrictPairing'
      BY <2>1, <3>3 DEF StrictPairing, Pairing, Saving
    <3> QED BY <1>k, <2>1, <3>4
  <2> QED BY <2>2, <2>3
<1>8. CASE verimark_ctrl_read_sync
  <2>1. UNCHANGED <<op, wire, sid, pd, generated, file, hosts, inq, strict>> /\ Ep0!Spoilt
    BY <1>8 DEF verimark_ctrl_read_sync, memory, driverVars, sensorVars
  <2>2. PICK d \in {0, 1} :
          /\ Len(ans') = Len(ans) - d
          /\ \A i \in Around' : i + d \in Around /\ (Nth(i)' = Nth(i + d) \/ Nth(i)' = Rest)
    BY <2>1, Spoiling DEF Typing
  <2>3. Rest.kind = "rest" /\ Len(ans) \in Nat /\ \A i \in Around' : i \in Int
    BY <2>1, AroundTyped, Readings DEF Rest, Answer, Records, Typing, Around
  <2> HIDE DEF Rest
  <2>4. ASSUME NEW i \in Around', Nth(i)'.kind = "pair"
        PROVE  /\ i + d \in Around /\ Nth(i)' = Nth(i + d)
               /\ i <= Len(ans') => i + d <= Len(ans)
    BY <2>2, <2>3, <2>4
  <2>5. StrictPairing'
    BY <2>1, <2>4 DEF StrictPairing, Pairing, Saving
  <2> QED BY <1>k, <2>1, <2>5
<1>9. CASE Sensor
  <2>1. UNCHANGED <<op, wire, sid, pd, generated, file>>
    BY <1>9 DEF Sensor, memory, driverVars
  <2>2. hosts \subseteq hosts'
    BY <1>9, SensorSteps DEF Drops, Executes
  <2>3. StoredIsAccepted'
    BY <1>0, <2>1, <2>2 DEF StoredIsAccepted
  <2>4. CASE Drops
    <3>1. Around' = Around /\ ans' = ans /\ \A i : Nth(i)' = Nth(i)
      BY <2>4, Keeping DEF Typing, Drops
    <3> QED BY <2>1, <2>2, <2>3, <3>1 DEF StrictPairing, Pairing, Saving
  <2>5. ASSUME NEW a \in Rpls, Executes(a) PROVE StrictPairing'
    <3>1. inq # <<>> /\ Answers(a) /\ (a.kind = "pair" => a.n = Command.n /\ Command.kind = "pair"
                                                         /\ hosts' = hosts \cup {Command.n})
      BY <2>5 DEF Executes
    <3>2. Command = Nth(Len(ans) + 1) /\ Len(ans) + 1 \in Around /\ Len(ans) \in Nat
      BY <3>1, CommandTyped, AroundTyped DEF Typing
    <3> HIDE DEF Command
    <3>3. /\ Around' = Around /\ Len(ans') = Len(ans) + 1
          /\ \A i \in Around : Nth(i)' = IF i = Len(ans) + 1 THEN a ELSE Nth(i)
      BY <1>0, <3>1, Answering DEF Typing, Around
    <3>4. ASSUME NEW i \in Around, Nth(i)'.kind = "pair"
          PROVE  /\ Nth(i).kind = "pair" /\ Nth(i)'.n = Nth(i).n
                 /\ i <= Len(ans) \/ i > Len(ans') \/ Nth(i).n \in hosts'
      <4>0. i \in Int
        BY AroundTyped DEF Typing
      <4>1. CASE i = Len(ans) + 1
        BY <3>1, <3>2, <3>3, <3>4, <4>1
      <4>2. CASE i # Len(ans) + 1
        BY <3>2, <3>3, <3>4, <4>0, <4>2
      <4> QED BY <4>1, <4>2
    <3>5. op = "version" /\ wire = "sent" => \A i \in Around' : Nth(i)'.kind # "pair"
      BY <3>3, <3>4 DEF StrictPairing
    <3>6. op = "pair" /\ wire = "sent" =>
            \A i \in Around' : Nth(i)'.kind = "pair" => Nth(i)'.n = generated' /\ (i <= Len(ans') => generated' \in hosts')
      <4> SUFFICES ASSUME op = "pair", wire = "sent", NEW i \in Around, Nth(i)'.kind = "pair"
                   PROVE  Nth(i)'.n = generated /\ (i <= Len(ans') => generated \in hosts')
        BY <2>1, <3>3
      <4>0. i \in Int
        BY AroundTyped DEF Typing
      <4>1. Nth(i).n = generated /\ (i <= Len(ans) => generated \in hosts)
        BY <3>4 DEF StrictPairing
      <4> QED BY <2>2, <3>2, <3>3, <3>4, <4>0, <4>1
    <3> QED BY <2>1, <2>2, <3>5, <3>6 DEF StrictPairing, Pairing, Saving
  <2> QED BY <1>9, <2>3, <2>4, <2>5, SensorSteps
<1> QED BY <1>1, <1>2, <1>3, <1>4, <1>5, <1>6, <1>7, <1>8, <1>9 DEF Next, Driver

-----------------------------------------------------------------------------
(* How old the handshakes named by messages are *)

\* The remainder of what is at most one modulus away from its range.
LEMMA ModSmall ==
  ASSUME NEW M \in Nat \ {0}, NEW x \in Int, -M <= x, x < 2 * M
  PROVE  x % M = IF x < 0 THEN x + M ELSE IF x < M THEN x ELSE x - M
<1>1. CASE x < 0
  <2> (x + M) \div M \in Int
    OBVIOUS
  <2> QED BY <1>1
<1>2. CASE x \in 0..M-1
  BY <1>2
<1>3. CASE x >= M
  BY <1>3
<1> QED BY <1>1, <1>2, <1>3

\* The head of the answers is partly read already.
Gone   == IF ans # <<>> /\ ans[1].kind = "rest" THEN 1 ELSE 0

\* An open that pairs has read the version and not begun its handshake yet.
Slack  == IF Pairing THEN 1 ELSE 0

\* The handshakes begun since the one a message names, Slack included, and the
\* bound that keeps the random it names from being used again: an open that
\* begins a handshake has read a version or pair answer first, so each such
\* message in front can make this one older by one.
Age(k) == (random - k) % (QueueSize + 1)
Old(k) == Age(k) + Slack
Asks(i) == Nth(i).kind \in {"version", "pair"}
Aging(k, n) == /\ Old(k) <= QueueSize - 1
               /\ \A j \in 1..n : Asks(j) => j - Gone + Old(k) <= QueueSize - 1

\* No message, and no session of the sensor, can grow so old that the random it
\* names is used again.
Fresh == /\ \A i \in Around : Nth(i).key # NoKeys => Aging(Nth(i).key, i - 1)
         /\ stls = "on" => Aging(skeys, Len(ans))

\* Ages are small numbers, and only the current handshake has age zero.
LEMMA AgeTyped ==
  ASSUME Scalars, NEW k \in Randoms
  PROVE  /\ Age(k) \in Nat /\ Age(k) <= QueueSize /\ Slack \in {0, 1} /\ Old(k) \in Nat /\ Gone \in {0, 1}
         /\ k = random => Age(k) = 0
         /\ Age(k) = 0 => k = random
         /\ Age(k) = IF k <= random THEN random - k ELSE random - k + QueueSize + 1
<1> DEFINE M == QueueSize + 1
           x == random - k
<1>1. /\ M \in Nat \ {0} /\ random \in Int /\ k \in Int /\ x \in Int /\ -M <= x /\ x < 2 * M /\ x < M
      /\ x > -M
      /\ (x < 0 <=> ~(k <= random)) /\ (k = random <=> x = 0) /\ M - 1 = QueueSize
  BY SessionBounds DEF Scalars, Randoms
<1> HIDE DEF M, x
<1>2. x % M = IF x < 0 THEN x + M ELSE x
  BY <1>1, ModSmall
<1>3. x % M \in Nat /\ x % M <= M - 1 /\ (x % M = 0 <=> x = 0)
  BY <1>1, <1>2
<1>4. Age(k) = x % M
  BY DEF Age, x, M
<1>5. Age(k) \in Nat /\ Age(k) <= QueueSize /\ (Age(k) = 0 <=> k = random)
  BY <1>1, <1>3, <1>4
<1>6. Slack \in {0, 1} /\ Gone \in {0, 1}
  BY DEF Slack, Gone
<1>7. Old(k) \in Nat
  BY <1>5, <1>6 DEF Old
<1>8. Age(k) = IF k <= random THEN random - k ELSE random - k + QueueSize + 1
  <2>1. x = random - k /\ M = QueueSize + 1
    BY DEF x, M
  <2>2. random \in Int /\ k \in Int /\ QueueSize \in Int
    BY SessionBounds DEF Scalars, Randoms
  <2>3. Age(k) = IF k <= random THEN x ELSE x + M
    BY <1>1, <1>2, <1>4
  <2>4. x + M = random - k + QueueSize + 1
    BY <2>1, <2>2
  <2> QED BY <2>1, <2>3, <2>4
<1> QED BY <1>5, <1>6, <1>7, <1>8

\* A new handshake makes every earlier one older by one, none twice as old.
LEMMA Ageing ==
  ASSUME Scalars, random' = (random + 1) % (QueueSize + 1), NEW k \in Randoms, Age(k) <= QueueSize - 1
  PROVE  Age(k)' = Age(k) + 1
<1> DEFINE M == QueueSize + 1
           r == random + 1
<1>1. random \in Int /\ 0 <= random /\ random <= QueueSize /\ k \in Int /\ 0 <= k /\ k <= QueueSize /\ QueueSize \in Nat
  BY SessionBounds DEF Scalars, Randoms
<1>2. M \in Nat \ {0} /\ r \in Int /\ -M <= r /\ r < 2 * M /\ r >= 0
  BY <1>1
<1>3. M = QueueSize + 1 /\ r = random + 1
  OBVIOUS
<1> HIDE DEF M, r
<1>4. random' = IF r < M THEN r ELSE r - M
  BY <1>2, <1>3, ModSmall
<1> DEFINE x == random' - k
<1>5. x \in Int /\ -M <= x /\ x < 2 * M
  BY <1>1, <1>2, <1>3, <1>4
<1>6. x % M = IF x < 0 THEN x + M ELSE IF x < M THEN x ELSE x - M
  <2> HIDE DEF x
  <2> QED BY <1>2, <1>5, ModSmall
<1>7. Age(k)' = x % M
  BY <1>3 DEF Age
<1>8. Age(k) = IF k <= random THEN random - k ELSE random - k + QueueSize + 1
  BY AgeTyped
<1>9. CASE random < QueueSize
  <2>1. random' = random + 1 /\ x = random + 1 - k /\ x < M
    BY <1>1, <1>3, <1>4, <1>9
  <2>2. CASE k <= random
    BY <1>1, <1>3, <1>6, <1>7, <1>8, <2>1, <2>2
  <2>3. CASE k > random
    <3>1. k # random + 1
      BY <1>1, <1>8, <2>3
    <3> QED BY <1>1, <1>3, <1>6, <1>7, <1>8, <2>1, <2>3, <3>1
  <2> QED BY <1>1, <2>2, <2>3
<1>10. CASE random = QueueSize
  <2>1. random' = 0 /\ x = -k /\ k # 0 /\ k <= random
    BY <1>1, <1>3, <1>4, <1>8, <1>10
  <2> QED BY <1>1, <1>3, <1>6, <1>7, <1>8, <1>10, <2>1
<1> QED BY <1>1, <1>9, <1>10

\* What a read takes, and what is left of it.
LEMMA Taking ==
  ASSUME Queues, Ep0!Spoilt \/ UNCHANGED ans, UNCHANGED <<inq, strict>>
  PROVE  /\ Queues'
         /\ \E d \in {0, 1} :
              /\ Len(ans') = Len(ans) - d /\ Total' = Total - d
              /\ \A i \in Around' : i + d \in Around /\ (Nth(i)' = Nth(i + d) \/ Nth(i)' = Rest)
              /\ Gone <= d + Gone' /\ Gone' \in {0, 1}
              /\ Ep0!Spoilt => 1 <= d + Gone' /\ (d = 0 => Nth(1)' = Rest)
<1>0. Gone \in {0, 1} /\ Gone' \in {0, 1}
  BY DEF Gone
<1>1. CASE Ep0!Spoilt
  <2>1. PICK d \in {0, 1} :
          /\ Total' = Total - d /\ Len(ans') = Len(ans) - d
          /\ \A i \in Around' : i + d \in Around /\ (Nth(i)' = Nth(i + d) \/ Nth(i)' = Rest)
          /\ d = 0 => ans' # <<>> /\ Nth(1)' = Rest
    BY <1>1, Spoiling
  <2>2. Queues'
    BY <1>1, Spoiling
  <2>3. d = 0 => Gone' = 1
    <3>1. ans' # <<>> => Nth(1)' = ans'[1]
      BY <2>2 DEF Queues, Nth
    <3>2. Rest.kind = "rest"
      BY DEF Rest, Answer, Records
    <3> QED BY <2>1, <3>1, <3>2 DEF Gone
  <2>4. 1 <= d + Gone' /\ Gone <= d + Gone'
    <3>1. \A x, g, h \in {0, 1} : (x = 0 => h = 1) => 1 <= x + h /\ g <= x + h
      OBVIOUS
    <3>2. \A g, h \in {0, 1} : (d = 0 => h = 1) => 1 <= d + h /\ g <= d + h
      BY <3>1
    <3> QED BY <1>0, <2>3, <3>2, Zenon
  <2> QED BY <1>0, <2>1, <2>2, <2>4
<1>2. CASE ~Ep0!Spoilt
  <2> DEFINE d == 0
  <2>1. Queues' /\ Total' = Total /\ Around' = Around /\ \A i : Nth(i)' = Nth(i)
    BY <1>2, Keeping
  <2>2. Gone' = Gone /\ ans' = ans
    BY <1>2 DEF Gone
  <2>3. Len(ans) \in Nat /\ Total \in Nat /\ \A i \in Around : i + 0 = i
    BY AroundTyped
  <2>4. Len(ans') = Len(ans) - d /\ Total' = Total - d
    BY <2>1, <2>2, <2>3
  <2>5. Gone <= d + Gone'
    BY <1>0, <2>2
  <2>6. d \in {0, 1}
    OBVIOUS
  <2>7. \A i \in Around' : i + d \in Around /\ Nth(i)' = Nth(i + d)
    BY <2>1, <2>3
  <2> HIDE DEF d
  <2> QED BY <1>0, <1>2, <2>1, <2>4, <2>5, <2>6, <2>7
<1> QED BY <1>1, <1>2

\* What names a handshake names one of the randoms.
LEMMA KeyTyped ==
  ASSUME Queues, NEW i \in Around, Nth(i).key # NoKeys
  PROVE  Nth(i).key \in Randoms
<1>1. Nth(i) \in Rpls \/ Nth(i) \in Cmds
  BY AroundTyped
<1>2. Nth(i).key \in Keys
  BY <1>1 DEF Rpls, Cmds
<1> QED BY <1>2 DEF Keys

\* A read takes one message when the handshakes age by one.
LEMMA FreshRead ==
  ASSUME Typing, Fresh, Scalars', NEW e \in {0, 1},
         Ep0!Spoilt \/ UNCHANGED ans, UNCHANGED <<inq, strict, skeys>>, stls' = "on" => stls = "on",
         \A k \in Randoms : Old(k) + e <= QueueSize - 1 => Old(k)' <= Old(k) + e,
         e = 1 => Ep0!Spoilt /\ ans # <<>> /\ Asks(1) /\ Nth(1).kind # "rest"
  PROVE  Fresh'
<1>1. PICK d \in {0, 1} :
        /\ Len(ans') = Len(ans) - d /\ Total' = Total - d
        /\ \A i \in Around' : i + d \in Around /\ (Nth(i)' = Nth(i + d) \/ Nth(i)' = Rest)
        /\ Gone <= d + Gone' /\ Gone' \in {0, 1}
        /\ Ep0!Spoilt => 1 <= d + Gone' /\ (d = 0 => Nth(1)' = Rest)
  BY Taking DEF Typing
<1>2. Len(ans) \in Nat /\ Total \in Nat /\ Len(ans) <= Total /\ QueueSize \in Nat
  BY AroundTyped, SessionBounds DEF Typing, Total
<1>3. Rest.kind = "rest" /\ Rest.key = NoKeys
  BY DEF Rest, Answer, Records
<1>4. \A k \in Randoms : Old(k) \in Nat /\ Old(k)' \in Nat
  <2> SUFFICES ASSUME NEW k \in Randoms PROVE Old(k) \in Nat /\ Old(k)' \in Nat
    OBVIOUS
  <2>1. Old(k) \in Nat
    BY AgeTyped DEF Typing
  <2>2. Slack' \in Nat
    BY DEF Slack
  <2>3. random' - k \in Int
    BY <1>2 DEF Scalars, Randoms
  <2>4. Age(k)' \in Nat
    BY <1>2, <2>3 DEF Age
  <2> QED BY <2>1, <2>2, <2>4 DEF Old
<1>5. Gone \in {0, 1} /\ (e = 1 => Gone = 0)
  <2>1. ans # <<>> => Nth(1) = ans[1]
    BY AroundTyped DEF Typing
  <2> QED BY <2>1 DEF Gone
<1> HIDE DEF Rest
<1>6. Gone + e <= d + Gone'
  <2>1. \A x, y, g, h \in {0, 1} : g <= x + h /\ (y = 1 => g = 0 /\ 1 <= x + h) => g + y <= x + h
    OBVIOUS
  <2>2. d \in {0, 1} /\ e \in {0, 1} /\ Gone <= d + Gone' /\ (e = 1 => Gone = 0 /\ 1 <= d + Gone')
    BY <1>1, <1>5
  <2> QED BY <1>1, <1>5, <2>1, <2>2, Zenon
<1>7. ASSUME NEW k \in Randoms, NEW n \in 0..Total', Aging(k, n + d), e = 1 => n + d >= 1
      PROVE  Aging(k, n)'
  <2>1. Old(k) <= QueueSize - 1 /\ Old(k) \in Nat /\ Old(k)' \in Nat
    BY <1>4, <1>7 DEF Aging
  <2>2. Old(k) + e <= QueueSize - 1
    <3>1. CASE e = 0
      BY <2>1, <3>1
    <3>2. CASE e = 1
      <4>1. 1 \in 1..n + d
        BY <1>1, <1>2, <1>7, <3>2
      <4>2. 1 - Gone + Old(k) <= QueueSize - 1
        BY <1>7, <3>2, <4>1 DEF Aging
      <4> QED BY <1>5, <2>1, <3>2, <4>2
    <3> QED BY <3>1, <3>2
  <2>3. Old(k)' <= Old(k) + e
    BY <2>2
  <2>4. ASSUME NEW j \in 1..n, Asks(j)' PROVE j - Gone' + Old(k)' <= QueueSize - 1
    <3>1. j \in Around' /\ j \in Int /\ j >= 1 /\ j <= n
      BY <1>1, <1>2 DEF Around
    <3>2. Nth(j)' = Nth(j + d)
      BY <1>1, <1>3, <2>4, <3>1 DEF Asks
    <3>3. j + d \in 1..n + d /\ Asks(j + d)
      BY <1>1, <2>4, <3>1, <3>2 DEF Asks
    <3>4. (j + d) - Gone + Old(k) <= QueueSize - 1
      BY <1>7, <3>3 DEF Aging
    <3>5. \A g, h, w, u \in Int : /\ g + e <= d + h /\ u <= w + e /\ (j + d) - g + w <= QueueSize - 1
                                  => j - h + u <= QueueSize - 1
      BY <1>2, <3>1
    <3>6. Gone \in Int /\ Gone' \in Int /\ Old(k) \in Int /\ Old(k)' \in Int
      BY <1>1, <1>5, <2>1
    <3> QED BY <1>6, <2>3, <3>4, <3>5, <3>6
  <2>5. Old(k)' <= QueueSize - 1
    BY <1>2, <2>1, <2>2, <2>3
  <2> QED BY <2>4, <2>5 DEF Aging
<1>8. ASSUME NEW i \in Around', NEW k \in Randoms, Nth(i)'.key = k
      PROVE  Aging(k, i - 1)'
  <2>0. NoKeys \notin Randoms
    BY DEF NoKeys, Randoms
  <2>1. Nth(i)' = Nth(i + d) /\ i + d \in Around /\ i \in Int /\ i >= 1 /\ i <= Total'
    BY <1>1, <1>2, <1>3, <1>8, <2>0 DEF Around
  <2>2. Aging(k, (i + d) - 1)
    BY <1>8, <2>0, <2>1 DEF Fresh
  <2>3. \A n : n = i - 1 => n \in 0..Total' /\ n + d = (i + d) - 1
    BY <1>1, <1>2, <2>1
  <2>4. e = 1 => (i - 1) + d >= 1
    <3> SUFFICES ASSUME e = 1 PROVE (i - 1) + d >= 1
      OBVIOUS
    <3>1. d = 0 => i # 1
      BY <1>1, <1>3, <1>8, <2>0
    <3> QED BY <1>1, <2>1, <3>1
  <2>5. \A n \in 0..Total' : n = i - 1 => Aging(k, n)'
    BY <1>7, <2>2, <2>3, <2>4
  <2> QED BY <2>3, <2>5
<1>9. ASSUME stls' = "on" PROVE Aging(skeys, Len(ans))'
  <2>1. stls = "on" /\ skeys \in Randoms /\ Aging(skeys, Len(ans)) /\ skeys' = skeys
    BY <1>9 DEF Fresh, Typing, Messages
  <2>2. d = 1 => Len(ans) >= 1
    BY <1>1, <1>2, AroundTyped DEF Typing, Around, Queues
  <2>3. \A n : n = Len(ans') => n \in 0..Total' /\ n + d = Len(ans)
    BY <1>1, <1>2, <2>2
  <2>4. e = 1 => Len(ans') + d >= 1
    BY <2>3, AroundTyped DEF Typing
  <2>5. \A k \in Randoms, n \in 0..Total' : k = skeys /\ n = Len(ans') => Aging(k, n)'
    BY <1>7, <2>1, <2>3, <2>4
  <2>6. \A k \in Randoms, n \in 0..Total' : k = skeys' /\ n = Len(ans') => Aging(k, n)'
    BY <2>1, <2>5
  <2>7. \E k \in Randoms, n \in 0..Total' : k = skeys' /\ n = Len(ans') /\ Aging(k, n)'
    BY <2>1, <2>3, <2>6
  <2>8. PICK k \in Randoms, n \in 0..Total' : k = skeys' /\ n = Len(ans') /\ Aging(k, n)'
    BY <2>7
  <2> QED BY <2>8 DEF Aging, Old, Age
<1>10. ASSUME NEW i \in Around', Nth(i)'.key # NoKeys
       PROVE  /\ Old(Nth(i).key)' <= QueueSize - 1
              /\ \A j \in 1..i - 1 : Asks(j)' => j - Gone' + Old(Nth(i).key)' <= QueueSize - 1
  <2>1. Nth(i)'.key \in Randoms
    BY <1>1, <1>3, <1>10, KeyTyped DEF Typing
  <2>2. PICK k \in Randoms : k = Nth(i)'.key
    BY <2>1
  <2> QED BY <1>8, <2>2 DEF Aging, Old, Age
<1> QED BY <1>9, <1>10 DEF Fresh, Aging

\* A write puts the current handshake at the end of the line, and a line is no
\* longer than the sensor holds.
LEMMA FreshWritten ==
  ASSUME Typing, Fresh, verimark_ctrl_write_sync
  PROVE  Fresh'
<1>c. PICK c : c = Outgoing
  OBVIOUS
<1>0. /\ op \in Sending /\ c \in Cmds /\ UNCHANGED <<op, random, strict, stls, skeys>>
      /\ c.key \in {NoKeys, random}
      /\ Ep0!Arrives(c) \/ Ep0!Begins \/ UNCHANGED <<inq, ans>>
  <2>1. op \in Sending /\ UNCHANGED <<op, random, strict, stls, skeys>>
        /\ (Ep0!Arrives(c) \/ Ep0!Begins \/ UNCHANGED <<inq, ans>>)
    BY <1>c DEF verimark_ctrl_write_sync, driverVars, sensorVars
  <2>2. c \in Cmds /\ c.key \in {NoKeys, random, keys}
    BY <1>c, <2>1, OutgoingTyped DEF Typing, Sending
  <2>3. op \in {"finish", "command", "close"} => keys \in {NoKeys, random}
    BY DEF Typing, Phase, Established
  <2>4. op \in {"version", "pair", "hello"} => c.key \in {NoKeys, random}
    BY <1>c, <2>1, OutgoingTyped DEF Typing
  <2> QED BY <2>1, <2>2, <2>3, <2>4 DEF Sending
<1>1. \A k : Old(k)' = Old(k)
  BY <1>0 DEF Old, Age, Slack, Pairing
<1>2. stls = "on" => Old(skeys) <= QueueSize - 1
  BY DEF Fresh, Aging
<1>3. CASE UNCHANGED <<inq, ans>>
  <2>1. Around' = Around /\ Gone' = Gone /\ ans' = ans /\ \A i : Nth(i)' = Nth(i)
    BY <1>3, Keeping DEF Typing, Gone
  <2> QED BY <1>0, <1>1, <2>1 DEF Fresh, Aging, Asks
<1>4. CASE Ep0!Begins
  <2>1. Around' = {} /\ Len(ans') = 0
    BY <1>4, Beginning
  <2> QED BY <1>0, <1>1, <1>2, <2>1 DEF Fresh, Aging
<1>5. CASE Ep0!Arrives(c)
  <2>0. Total \in Nat /\ Len(ans) \in Nat /\ Len(ans) <= Total /\ QueueSize \in Nat /\ QueueSize >= 1
    BY AroundTyped, SessionBounds DEF Typing, Total
  <2>1. c.key = random => /\ c.key \in Randoms /\ Old(c.key) = 0
    <3> SUFFICES ASSUME c.key = random PROVE c.key \in Randoms /\ Old(c.key) = 0
      OBVIOUS
    <3>1. random \in Randoms
      BY DEF Typing, Scalars
    <3>2. Slack = 0
      <4>1. CASE c.key = random /\ op = "pair"
        <5>1. c.key = NoKeys
          BY <1>c, <1>0, <4>1, OutgoingTyped DEF Typing
        <5> QED BY <4>1, <5>1, <3>1 DEF NoKeys, Randoms
      <4>2. CASE op # "pair"
        BY <1>0, <4>2 DEF Slack, Pairing, Sending
      <4> QED BY <4>1, <4>2
    <3>3. Age(random) = 0
      BY <3>1, AgeTyped DEF Typing
    <3> QED BY <3>1, <3>2, <3>3 DEF Old
  <2>2. Total' \in Around' /\ Total' <= QueueSize /\ \A i \in Around' : i = Total' => Nth(i)' = c
    <3>1. Queues' /\ Total' \in Around' /\ \A i \in Around' : i = Total' => Nth(i)' = c
      BY <1>0, <1>5, Arriving DEF Typing
    <3>2. Total' = Len(ans') + Len(inq') /\ Len(ans') \in Nat /\ Len(inq') \in Nat
      BY <3>1 DEF Queues, Total
    <3>3. Len(inq') + Len(ans') <= QueueSize
      BY <3>1 DEF Queues
    <3> QED BY <3>1, <3>2, <3>3
  <2>3. Gone' \in {0, 1}
    BY DEF Gone
  <2>4. ASSUME NEW i \in Around', i = Total', Nth(i)'.key # NoKeys
        PROVE  /\ Old(Nth(i).key)' <= QueueSize - 1
               /\ \A j \in 1..i - 1 : Asks(j)' => j - Gone' + Old(Nth(i).key)' <= QueueSize - 1
    <3>1. Nth(i)' = c /\ c.key = random
      BY <1>0, <2>2, <2>4
    <3>2. Old(Nth(i).key)' = 0
      <4>1. PICK k : k = c.key
        OBVIOUS
      <4>2. Old(k)' = Old(k) /\ Old(k) = 0
        BY <1>1, <2>1, <3>1, <4>1
      <4>3. Nth(i)'.key = k
        BY <3>1, <4>1
      <4> QED BY <4>2, <4>3 DEF Old, Age
    <3>3. \A j \in 1..i - 1 : j <= QueueSize - 1 /\ j \in Int
      <4>1. Total' \in Int /\ i \in Int
        BY <2>2, <2>4 DEF Around
      <4>2. ASSUME NEW j \in 1..i - 1 PROVE j \in Int /\ j <= QueueSize - 1
        BY <2>0, <2>2, <2>4, <4>1
      <4> QED BY <4>2
    <3>4. \A j, g, q \in Int : j <= q - 1 /\ g \in {0, 1} => j - g + 0 <= q - 1 /\ (1 <= q => 0 <= q - 1)
      OBVIOUS
    <3>5. 0 <= QueueSize - 1 /\ Gone' \in Int /\ QueueSize \in Int
      BY <2>0, <2>3
    <3>6. \A j \in 1..i - 1 : j - Gone' + 0 <= QueueSize - 1
      BY <2>3, <3>3, <3>4, <3>5
    <3> QED BY <3>2, <3>5, <3>6
  <2>5. CASE strict
    <3>1. Total' = 1 /\ Len(ans') = 0
      BY <1>0, <1>5, <2>5, Arriving DEF Typing
    <3>2. \A i \in Around' : i = Total'
      BY <3>1 DEF Around
    <3>3. stls' = "on" => Aging(skeys, Len(ans))'
      BY <1>0, <1>1, <1>2, <3>1 DEF Aging
    <3> QED BY <2>4, <3>2, <3>3 DEF Fresh, Aging
  <2>6. CASE ~strict
    <3>1. Total' = Total + 1 /\ ans' = ans /\ \A i \in Around : i \in Around' /\ Nth(i)' = Nth(i)
      BY <1>0, <1>5, <2>6, Arriving DEF Typing
    <3>2. Gone' = Gone
      BY <3>1 DEF Gone
    <3>3. \A i \in Around' : i # Total' => i \in Around
      BY <2>0, <3>1 DEF Around
    <3>4. ASSUME NEW k, NEW n \in 0..Total, Aging(k, n) PROVE Aging(k, n)'
      <4>1. \A j \in 1..n : j \in Around
        BY <2>0 DEF Around
      <4> QED BY <1>1, <3>1, <3>2, <3>4, <4>1 DEF Aging, Asks
    <3>5. ASSUME NEW i \in Around', i # Total', Nth(i)'.key # NoKeys
          PROVE  /\ Old(Nth(i).key)' <= QueueSize - 1
                 /\ \A j \in 1..i - 1 : Asks(j)' => j - Gone' + Old(Nth(i).key)' <= QueueSize - 1
      <4>1. i \in Around /\ Nth(i)' = Nth(i)
        BY <3>1, <3>3, <3>5
      <4>2. PICK k : k = Nth(i).key
        OBVIOUS
      <4>3. Aging(k, i - 1) /\ i - 1 \in 0..Total
        BY <2>0, <3>5, <4>1, <4>2 DEF Fresh, Around
      <4>4. Aging(k, i - 1)'
        <5>1. \A n \in 0..Total : n = i - 1 => Aging(k, n)'
          BY <3>4, <4>3
        <5> QED BY <4>3, <5>1
      <4>5. Nth(i).key' = k
        BY <4>1, <4>2
      <4> QED BY <4>4, <4>5 DEF Aging, Old, Age
    <3>6. stls' = "on" => Aging(skeys, Len(ans))'
      <4> SUFFICES ASSUME stls = "on" PROVE Aging(skeys, Len(ans))'
        BY <1>0
      <4>0. PICK k : k = skeys
        OBVIOUS
      <4>1. PICK n \in 0..Total : n = Len(ans)
        BY <2>0
      <4>2. Aging(k, n)'
        BY <3>4, <4>0, <4>1 DEF Fresh
      <4>3. skeys' = k /\ Len(ans)' = n
        BY <1>0, <3>1, <4>0, <4>1
      <4> QED BY <4>2, <4>3 DEF Aging, Old, Age
    <3> QED BY <2>4, <3>5, <3>6 DEF Fresh, Aging
  <2> QED BY <2>5, <2>6
<1> QED BY <1>0, <1>3, <1>4, <1>5

\* An answer stands where its command stood, and names the handshake it named.
LEMMA FreshAnswered ==
  ASSUME Typing, Fresh, NEW a \in Rpls, Executes(a)
  PROVE  Fresh'
<1>1. /\ inq # <<>> /\ Answers(a) /\ UNCHANGED <<op, random, strict>>
  BY DEF Executes, memory, driverVars
<1>2. Command = Nth(Len(ans) + 1) /\ Len(ans) + 1 \in Around /\ Len(ans) \in Nat /\ Total \in Nat /\ Len(ans) <= Total
  BY <1>1, CommandTyped, AroundTyped DEF Typing, Total
<1>3. /\ Around' = Around /\ Len(ans') = Len(ans) + 1
      /\ \A i \in Around : Nth(i)' = IF i = Len(ans) + 1 THEN a ELSE Nth(i)
  BY <1>1, Answering DEF Typing, Around
<1>4. \A k : Old(k)' = Old(k)
  BY <1>1 DEF Old, Age, Slack, Pairing
<1>5. Gone' = Gone
  <2>1. a.kind # "rest"
    BY DEF Executes
  <2>2. ans' # <<>> /\ (ans # <<>> => ans'[1] = ans[1]) /\ (ans = <<>> => ans'[1] = a)
    BY <1>1, Answering DEF Typing
  <2> QED BY <2>1, <2>2 DEF Gone
<1>6. \A i \in Around : Asks(i)' => Asks(i)
  <2>1. a.kind \in {"version", "pair"} => Command.kind = a.kind
    BY DEF Executes
  <2> HIDE DEF Command
  <2> QED BY <1>2, <1>3, <2>1 DEF Asks
<1>7. ASSUME NEW k, NEW n \in 0..Total, Aging(k, n) PROVE Aging(k, n)'
  <2>1. \A j \in 1..n : j \in Around
    BY <1>2 DEF Around
  <2> QED BY <1>4, <1>5, <1>6, <1>7, <2>1 DEF Aging
<1>8. \A i \in Around : i \in Int /\ i - 1 \in 0..Total
  BY <1>2 DEF Around
<1>9. a.key # NoKeys => Aging(a.key, Len(ans))
  <2>1. Command.key # NoKeys => Aging(Command.key, Len(ans))
    <3>1. (Len(ans) + 1) - 1 = Len(ans)
      BY <1>2
    <3> HIDE DEF Command
    <3> QED BY <1>2, <3>1 DEF Fresh
  <2>2. stls = "on" => Aging(skeys, Len(ans))
    BY DEF Fresh
  <2>3. a.key = NoKeys \/ a.key = Command.key \/ (a.key = skeys /\ stls = "on")
    BY DEF Executes
  <2> HIDE DEF Command
  <2> QED BY <2>1, <2>2, <2>3
<1>10. ASSUME NEW i \in Around, Nth(i)'.key # NoKeys
       PROVE  /\ Old(Nth(i).key)' <= QueueSize - 1
              /\ \A j \in 1..i - 1 : Asks(j)' => j - Gone' + Old(Nth(i).key)' <= QueueSize - 1
  <2>0. PICK k : k = Nth(i)'.key
    OBVIOUS
  <2>1. PICK n \in 0..Total : n = i - 1
    BY <1>8
  <2>2. Aging(k, n)
    <3>1. CASE i = Len(ans) + 1
      <4>1. n = Len(ans) /\ k = a.key
        BY <1>2, <1>3, <2>0, <2>1, <3>1
      <4> QED BY <1>9, <1>10, <2>0, <4>1
    <3>2. CASE i # Len(ans) + 1
      BY <1>3, <1>10, <2>0, <2>1, <3>2 DEF Fresh
    <3> QED BY <3>1, <3>2
  <2>3. Aging(k, n)'
    BY <1>7, <2>2
  <2> QED BY <2>0, <2>1, <2>3 DEF Aging, Old, Age
<1>11. ASSUME stls' = "on"
       PROVE  /\ Old(skeys)' <= QueueSize - 1
              /\ \A j \in 1..Len(ans') : Asks(j)' => j - Gone' + Old(skeys)' <= QueueSize - 1
  <2>1. a.kind \notin {"version", "pair"} /\ a.kind # "rt1"
        /\ skeys' = skeys /\ (stls = "on" \/ (a.kind = "rt2" /\ a.key = skeys))
    BY <1>11 DEF Executes
  <2>2. a.kind = "rt2" => a.key # NoKeys
    <3>1. a.kind = "rt2" => stls = "hello" /\ a.key = skeys
      BY DEF Executes
    <3> QED BY <3>1 DEF Typing, Messages, NoKeys, Randoms
  <2>3. Aging(skeys, Len(ans))
    BY <1>9, <2>1, <2>2 DEF Fresh
  <2>7. PICK k : k = skeys
    OBVIOUS
  <2>4. PICK n \in 0..Total : n = Len(ans)
    BY <1>2
  <2>5. Aging(k, n)'
    BY <1>7, <2>3, <2>4, <2>7
  <2>6. ASSUME NEW j \in 1..n + 1, Asks(j)'
        PROVE  j - Gone' + Old(skeys)' <= QueueSize - 1
    <3>1. j # n + 1
      <4>1. j \in Around /\ (j = n + 1 => Nth(j)' = a)
        BY <1>2, <1>3, <2>4 DEF Around
      <4> QED BY <2>1, <2>6, <4>1 DEF Asks
    <3>2. j \in 1..n
      BY <3>1
    <3> QED BY <2>1, <2>5, <2>6, <2>7, <3>2 DEF Aging, Old, Age
  <2> QED BY <1>3, <2>1, <2>4, <2>5, <2>6, <2>7 DEF Aging, Old, Age
<1> QED BY <1>3, <1>10, <1>11 DEF Fresh, Aging

\* Every step leaves every message younger than the randoms repeat.
LEMMA FreshStep ==
  ASSUME Typing, Typing', Fresh, [Next]_vars
  PROVE  Fresh'
<1> USE DEF Continue
<1>0. \A k \in Randoms : Age(k) \in Nat /\ Old(k) = Age(k) + Slack /\ Slack \in {0, 1}
  BY AgeTyped DEF Old, Typing
<1>1. ASSUME Ep0!Spoilt \/ UNCHANGED ans, UNCHANGED <<inq, strict, skeys, random>>, stls' = "on" => stls = "on",
             Pairing' => Pairing
      PROVE  Fresh'
  <2>1. Slack' <= Slack
    BY <1>1 DEF Slack
  <2>2. \A k \in Randoms : Old(k)' = Age(k) + Slack' /\ Slack' \in {0, 1}
    BY <1>1 DEF Old, Age, Slack
  <2>3. \A k \in Randoms : Old(k)' <= Old(k) + 0
    BY <1>0, <2>1, <2>2
  <2> QED BY <1>1, <2>3, FreshRead DEF Typing
<1>2. CASE \/ dev_open \/ verimark_moc_send \/ verimark_tls_close \/ Crash
  <2>1. /\ UNCHANGED <<inq, ans, strict, skeys, stls, random>>
        /\ op' \in {"version", "command", "close", "closed"}
    BY <1>2 DEF dev_open, verimark_moc_send, verimark_tls_close, Crash, Forget, driverVars, sensorVars
  <2> QED BY <1>1, <2>1 DEF Pairing
<1>3. CASE verimark_ctrl_read_sync \/ verimark_pairing_do
  <2>1. /\ Ep0!Spoilt /\ UNCHANGED <<inq, strict, skeys, stls, random>>
        /\ Pairing' => Pairing
    BY <1>3 DEF verimark_ctrl_read_sync, verimark_pairing_do, ReadOk, memory, driverVars, sensorVars, Pairing
  <2> QED BY <1>1, <2>1
<1>4. CASE verimark_open_fail \/ dev_close
  <2>1. /\ Ep0!Spoilt \/ UNCHANGED ans
        /\ UNCHANGED <<inq, strict, skeys, stls, random>> /\ op' = "closed"
    BY <1>4 DEF verimark_open_fail, dev_close, Forget, ReadOk, ReadFails, sensorVars
  <2> QED BY <1>1, <2>1 DEF Pairing
<1>5. CASE hs_build_rt2 \/ hs_process_rt2
  <2>1. /\ Ep0!Spoilt /\ UNCHANGED <<inq, strict, skeys, stls, random>> /\ op' \in {"finish", "open"}
    BY <1>5 DEF hs_build_rt2, hs_process_rt2, ReadOk, sensorVars
  <2> QED BY <1>1, <2>1 DEF Pairing
<1>6. CASE on_moc_raw_resp
  <2>1. /\ Ep0!Spoilt \/ UNCHANGED ans
        /\ UNCHANGED <<inq, strict, skeys, stls, random>> /\ op' = "open"
    BY <1>6 DEF on_moc_raw_resp, ReadOk, ReadFails, sensorVars
  <2> QED BY <1>1, <2>1 DEF Pairing
<1>7. CASE UNCHANGED vars
  <2>1. UNCHANGED <<op, inq, ans, strict, skeys, stls, random>>
    BY <1>7 DEF vars, memory, driverVars, sensorVars
  <2> QED BY <1>1, <2>1 DEF Pairing
<1>8. CASE verimark_ctrl_write_sync
  BY <1>8, FreshWritten
<1>9. CASE Sensor
  <2>1. CASE Drops
    <3>1. UNCHANGED <<op, inq, ans, strict, skeys, random>> /\ stls' = "off"
      BY <2>1 DEF Drops, memory, driverVars
    <3> QED BY <1>1, <3>1 DEF Pairing
  <2> QED BY <1>9, <2>1, SensorSteps, FreshAnswered
<1>10. CASE verimark_pairing_save_file
  <2>0. UNCHANGED <<inq, ans, strict, skeys, stls>> /\ Pairing
    BY <1>10 DEF verimark_pairing_save_file, sensorVars, Pairing
  <2>1. CASE op = "save_open"
    <3>1. UNCHANGED random
      BY <1>10, <2>1 DEF verimark_pairing_save_file
    <3> QED BY <1>1, <2>0, <3>1
  <2>2. CASE op = "save_write"
    <3>1. random' = (random + 1) % (QueueSize + 1) /\ op' = "hello"
      BY <1>10, <2>2 DEF verimark_pairing_save_file, hs_build_client_hello
    <3>2. Slack = 1 /\ Slack' = 0
      BY <2>0, <3>1 DEF Slack, Pairing
    <3>3. ASSUME NEW k \in Randoms, Old(k) + 0 <= QueueSize - 1 PROVE Old(k)' <= Old(k) + 0
      <4>1. Old(k) = Age(k) + 1 /\ Age(k) \in Nat /\ QueueSize \in Nat
        BY <1>0, <3>2, SessionBounds
      <4>2. Age(k) <= QueueSize - 1
        BY <3>3, <4>1
      <4>3. Age(k)' = Age(k) + 1
        BY <3>1, <4>2, Ageing DEF Typing
      <4>4. Old(k)' = Age(k)' + Slack'
        BY DEF Old
      <4>5. Old(k)' = (Age(k) + 1) + 0
        BY <3>2, <4>3, <4>4
      <4> QED BY <4>1, <4>5
    <3> QED BY <2>0, <3>3, FreshRead DEF Typing
  <2> QED BY <1>10, <2>1, <2>2 DEF verimark_pairing_save_file
<1>11. CASE verimark_resolve_sid_sync
  <2>0. /\ UNCHANGED <<inq, strict, skeys, stls>> /\ op = "version" /\ ans # <<>> /\ Ep0!Spoilt /\ IsVersion
        /\ LoadOrPair(SidRead)
    BY <1>11 DEF verimark_resolve_sid_sync, sensorVars, ReadOk, Got
  <2>1. Asks(1) /\ Nth(1).kind # "rest"
    BY <2>0, ReplyTyped DEF IsVersion, Asks, Typing
  <2>2. Slack = 0
    BY <2>0 DEF Slack, Pairing
  <2>3. ASSUME NEW k \in Randoms, Old(k) + 1 <= QueueSize - 1 PROVE Old(k)' <= Old(k) + 1
    <3>1. Old(k) = Age(k) /\ Age(k) \in Nat /\ QueueSize \in Nat
      BY <1>0, <2>2, SessionBounds
    <3>2. Age(k) <= QueueSize - 1
      BY <2>3, <3>1
    <3>3. Old(k)' = Age(k)' + Slack'
      BY DEF Old
    <3>4. CASE random' = (random + 1) % (QueueSize + 1) /\ op' = "hello"
      <4>1. Age(k)' = Age(k) + 1
        BY <3>2, <3>4, Ageing DEF Typing
      <4>2. Slack' = 0
        BY <3>4 DEF Slack, Pairing
      <4>3. Old(k)' = (Age(k) + 1) + 0
        BY <3>3, <4>1, <4>2
      <4> QED BY <3>1, <4>3
    <3>5. CASE random' = random
      <4>1. Age(k)' = Age(k)
        BY <3>5 DEF Age
      <4>2. Slack' \in {0, 1}
        BY DEF Slack
      <4>3. Old(k)' = Age(k) + Slack'
        BY <3>3, <4>1
      <4> QED BY <3>1, <4>2, <4>3
    <3> QED BY <2>0, <3>4, <3>5 DEF LoadOrPair, hs_build_client_hello
  <2>4. PICK e \in {0, 1} : e = 1
    OBVIOUS
  <2> QED BY <2>0, <2>1, <2>3, <2>4, FreshRead DEF Typing
<1> QED BY <1>2, <1>3, <1>4, <1>5, <1>6, <1>7, <1>8, <1>9, <1>10, <1>11 DEF Next, Driver

-----------------------------------------------------------------------------
(* How many records the answers to n commands can be *)

\* decr_seq counts records: at most MaxRecords of each answer after the Finished
\* of the handshake.
Counted ==
  /\ op = "open" => decr_seq <= 1 + MaxRecords * (encr_seq - 1)
  /\ op \in {"command", "close"} => decr_seq <= 1 + MaxRecords * (encr_seq - 2)

\* No step reads more records than were asked for.
LEMMA CountedStep ==
  ASSUME Typing, Typing', Counted, [Next]_vars
  PROVE  Counted'
<1> USE DEF Continue
<1>0. MaxRecords \in Nat /\ MaxRecords >= 1 /\ encr_seq \in Nat /\ decr_seq \in Nat
  BY SessionBounds DEF Typing, Counters
<1>1. CASE hs_process_rt2
  <2>1. op' = "open" /\ decr_seq' = decr_seq + 1 /\ encr_seq' = encr_seq /\ op = "finish"
    BY <1>1 DEF hs_process_rt2, NextDecr
  <2>2. encr_seq = 1 /\ decr_seq = 0
    BY <2>1 DEF Typing, Phase
  <2>3. MaxRecords * 0 = 0 /\ 1 - 1 = 0
    BY <1>0
  <2> QED BY <2>1, <2>2, <2>3 DEF Counted
<1>2. CASE verimark_moc_send \/ verimark_tls_close
  <2>1. op = "open" /\ op' \in {"command", "close"} /\ decr_seq' = decr_seq /\ encr_seq' = encr_seq + 1
    BY <1>2 DEF verimark_moc_send, verimark_tls_close
  <2>2. (encr_seq + 1) - 2 = encr_seq - 1
    BY <1>0
  <2> QED BY <2>1, <2>2 DEF Counted
<1>3. CASE on_moc_raw_resp
  <2>1. op = "command" /\ op' = "open" /\ encr_seq' = encr_seq
    BY <1>3 DEF on_moc_raw_resp
  <2>2. decr_seq' <= decr_seq + MaxRecords
    <3>1. CASE UNCHANGED decr_seq
      BY <1>0, <3>1
    <3>2. CASE Got /\ decr_seq' \in {decr_seq + 1, decr_seq + Reply.recs}
      <4>1. Reply.recs \in Nat /\ Reply.recs <= MaxRecords
        BY <1>0, <3>2, ReplyTyped DEF Got, Typing
      <4> QED BY <1>0, <3>2, <4>1
    <3> QED BY <1>3, <3>1, <3>2 DEF on_moc_raw_resp, ReadOk, NextDecr
  <2>3. \A m, k \in Int : m * (k - 2) + m = m * (k - 1)
    OBVIOUS
  <2>4. MaxRecords * (encr_seq - 2) + MaxRecords = MaxRecords * (encr_seq - 1)
    BY <1>0, <2>3
  <2>5. decr_seq <= 1 + MaxRecords * (encr_seq - 2)
    BY <2>1 DEF Counted
  <2>6. \A a, b, c, d, m \in Int : a <= b + m /\ b <= 1 + c /\ c + m = d => a <= 1 + d
    OBVIOUS
  <2>7. MaxRecords * (encr_seq - 2) \in Int /\ MaxRecords * (encr_seq - 1) \in Int /\ decr_seq' \in Int
    BY <1>0 DEF Typing, Counters
  <2>8. decr_seq' <= 1 + MaxRecords * (encr_seq - 1)
    BY <1>0, <2>2, <2>4, <2>5, <2>6, <2>7
  <2> QED BY <2>1, <2>8 DEF Counted
<1>4. CASE Sensor \/ verimark_ctrl_write_sync \/ verimark_ctrl_read_sync \/ UNCHANGED vars
  <2>1. UNCHANGED <<op, encr_seq, decr_seq>>
    BY <1>4 DEF Sensor, verimark_ctrl_write_sync, verimark_ctrl_read_sync, vars, memory, driverVars
  <2> QED BY <2>1 DEF Counted
<1>5. CASE \/ dev_open \/ Crash \/ verimark_open_fail \/ dev_close \/ verimark_resolve_sid_sync
           \/ verimark_pairing_do \/ verimark_pairing_save_file \/ hs_build_rt2
  <2>1. op' \notin {"open", "command", "close"}
    BY <1>5 DEF dev_open, Crash, verimark_open_fail, dev_close, Forget, verimark_resolve_sid_sync, LoadOrPair,
         hs_build_client_hello, verimark_pairing_do, verimark_pairing_save_file, hs_build_rt2
  <2> QED BY <2>1 DEF Counted
<1> QED BY <1>1, <1>2, <1>3, <1>4, <1>5 DEF Next, Driver

\* The bound TypeOK puts on decr_seq.
LEMMA CountedBound ==
  ASSUME Typing, Counted
  PROVE  decr_seq \in 0..MaxSeq * MaxRecords
<1>1. /\ MaxRecords \in Nat /\ MaxRecords >= 1 /\ encr_seq \in Nat /\ decr_seq \in Nat /\ MaxSeq \in Nat /\ MaxSeq >= 1
      /\ encr_seq <= MaxSeq + 1
  BY SessionBounds DEF Typing, Counters
<1>2. \A m \in Nat \ {0}, k, s \in Int : k <= s - 1 => 1 + m * k <= m * s
  <2> SUFFICES ASSUME NEW m \in Nat \ {0}, NEW k \in Int, NEW s \in Int, k <= s - 1
               PROVE  1 + m * k <= m * s
    OBVIOUS
  <2>1. PICK e \in Nat : s = k + 1 + e
    <3>1. s - k - 1 \in Nat /\ s = k + 1 + (s - k - 1)
      OBVIOUS
    <3> QED BY <3>1
  <2>2. m * (k + 1 + e) = m * k + m + m * e /\ m * e \in Nat /\ m * k \in Int
    OBVIOUS
  <2> QED BY <2>1, <2>2
<1>3. CASE op = "open"
  <2>1. encr_seq - 1 <= MaxSeq - 1 /\ decr_seq <= 1 + MaxRecords * (encr_seq - 1)
    BY <1>1, <1>3 DEF Counted, Typing, Phase
  <2>2. 1 + MaxRecords * (encr_seq - 1) <= MaxRecords * MaxSeq
    BY <1>1, <1>2, <2>1
  <2> QED BY <1>1, <2>1, <2>2
<1>4. CASE op \in {"command", "close"}
  <2>1. encr_seq - 2 <= MaxSeq - 1 /\ decr_seq <= 1 + MaxRecords * (encr_seq - 2)
    BY <1>1, <1>4 DEF Counted, Typing, Phase
  <2>2. 1 + MaxRecords * (encr_seq - 2) <= MaxRecords * MaxSeq
    BY <1>1, <1>2, <2>1
  <2> QED BY <1>1, <2>1, <2>2
<1>5. CASE op \notin {"open", "command", "close"}
  <2>1. decr_seq = 0
    BY <1>5 DEF Typing, Phase
  <2>2. MaxSeq * MaxRecords \in Nat
    BY <1>1
  <2> QED BY <2>1, <2>2
<1> QED BY <1>3, <1>4, <1>5

-----------------------------------------------------------------------------
(* What a write and an execution leave around *)

\* A write adds what is written at the end of the line, keeps the line, or drops
\* what a strict sensor held.
LEMMA Writing ==
  ASSUME Typing, verimark_ctrl_write_sync
  PROVE  /\ op \in Sending /\ wire = "idle" /\ wire' \in {"sent", "failed"}
         /\ UNCHANGED <<op, driverVars, file, given, lost, strict, sensorVars>>
         /\ Outgoing \in Cmds /\ Outgoing.kind = op
         /\ ans' = ans \/ DOMAIN ans' = {}
         /\ Total' \in Nat
         /\ \A i \in Around' : \/ i = Total' /\ Nth(i)' = Outgoing /\ i > Len(ans')
                               \/ i \in Around /\ Nth(i)' = Nth(i)
<1>c. PICK c : c = Outgoing
  OBVIOUS
<1>0. /\ op \in Sending /\ wire = "idle" /\ wire' \in {"sent", "failed"}
      /\ UNCHANGED <<op, driverVars, file, given, lost, strict, sensorVars>>
      /\ Ep0!Arrives(c) \/ Ep0!Begins \/ UNCHANGED <<inq, ans>>
  BY <1>c DEF verimark_ctrl_write_sync
<1>1. c \in Cmds /\ c.kind = op
  BY <1>0, <1>c, OutgoingTyped DEF Typing
<1>2. Total \in Nat /\ Len(ans) \in Nat
  BY AroundTyped DEF Typing
<1>3. CASE UNCHANGED <<inq, ans>>
  <2>1. Around' = Around /\ Total' = Total /\ ans' = ans /\ \A i : Nth(i)' = Nth(i)
    BY <1>3, Keeping DEF Typing
  <2> QED BY <1>0, <1>1, <1>2, <1>c, <2>1
<1>4. CASE Ep0!Begins
  <2>1. Around' = {} /\ DOMAIN ans' = {}
    BY <1>4, Beginning
  <2>2. Total' \in Nat
    BY <1>4, Beginning DEF Queues, Total
  <2> QED BY <1>0, <1>1, <1>c, <2>1, <2>2
<1>5. CASE Ep0!Arrives(c)
  <2>1. Total' \in Around' /\ Len(ans') < Total' /\ \A i \in Around' : i = Total' => Nth(i)' = c
    BY <1>0, <1>1, <1>5, Arriving DEF Typing
  <2>0. Total' \in Nat
    BY <1>0, <1>1, <1>5, Arriving DEF Typing, Queues, Total
  <2>2. CASE strict
    <3>1. Total' = 1 /\ ans' = <<>>
      BY <1>0, <1>1, <1>5, <2>2, Arriving DEF Typing
    <3>2. \A i \in Around' : i = Total'
      BY <3>1 DEF Around
    <3>3. DOMAIN ans' = {}
      BY <3>1
    <3> QED BY <1>0, <1>1, <1>c, <2>0, <2>1, <3>2, <3>3
  <2>3. CASE ~strict
    <3>1. Total' = Total + 1 /\ ans' = ans /\ \A i \in Around : i \in Around' /\ Nth(i)' = Nth(i)
      BY <1>0, <1>1, <1>5, <2>3, Arriving DEF Typing
    <3>2. \A i \in Around' : i # Total' => i \in Around
      BY <1>2, <3>1 DEF Around
    <3>3. \A i \in Around' : i = Total' => i > Len(ans')
      BY <1>2, <2>0, <2>1, <3>1
    <3> QED BY <1>0, <1>1, <1>c, <2>0, <2>1, <3>1, <3>2, <3>3
  <2> QED BY <2>2, <2>3
<1> QED BY <1>0, <1>3, <1>4, <1>5

\* An execution replaces the first command by its answer.
LEMMA Execution ==
  ASSUME Typing, NEW a \in Rpls, Executes(a)
  PROVE  /\ Total' = Total /\ Around' = Around /\ Len(ans') = Len(ans) + 1 /\ Len(ans) \in Nat
         /\ Len(ans) + 1 \in Around /\ Command = Nth(Len(ans) + 1) /\ Command.kind \in Sending /\ Command \in Cmds
         /\ \A i \in Around : Nth(i)' = IF i = Len(ans) + 1 THEN a ELSE Nth(i)
         /\ UNCHANGED <<memory, file, strict>>
<1>1. /\ inq # <<>> /\ Answers(a) /\ UNCHANGED <<memory, file, strict>>
  BY DEF Executes
<1>2. /\ Total' = Total /\ Around' = Around /\ Len(ans') = Len(ans) + 1
      /\ \A i \in Around : Nth(i)' = IF i = Len(ans) + 1 THEN a ELSE Nth(i)
  BY <1>1, Answering DEF Typing, Around
<1>3. Command = Nth(Len(ans) + 1) /\ Len(ans) + 1 \in Around /\ Command.kind \in Sending /\ Command \in Cmds
  BY <1>1, CommandTyped DEF Typing
<1>4. Len(ans) \in Nat
  BY AroundTyped DEF Typing
<1> QED BY <1>1, <1>2, <1>3, <1>4

-----------------------------------------------------------------------------
(* The handshake *)

\* During the first round trip only its own messages name the new random, and the
\* sensor has no session with it.
Hello ==
  op = "hello" =>
    /\ \A i \in Around : Nth(i).key = random => i = Total /\ wire # "idle" /\ Nth(i).kind \in {"hello", "rt1"}
    /\ stls = "on" => skeys # random

\* A new random is new: a fresh message cannot name it (Fresh).
LEMMA HelloStep ==
  ASSUME Typing, Typing', Fresh, Hello, [Next]_vars
  PROVE  Hello'
<1> USE DEF Continue
<1>0. NoKeys \notin Randoms /\ random \in Randoms /\ random' \in Randoms
  BY DEF NoKeys, Randoms, Typing, Scalars
<1>r. Rest.kind = "rest" /\ Rest.key = NoKeys
  BY DEF Rest, Answer, Records
<1> HIDE DEF Rest
\* A handshake that begins shares its random with nothing that is around.
<1>1. ASSUME random' = (random + 1) % (QueueSize + 1), Ep0!Spoilt \/ UNCHANGED ans,
             UNCHANGED <<inq, strict, stls, skeys>>
      PROVE  Hello'
  <2>1. ASSUME NEW k \in Randoms, Old(k) <= QueueSize - 1 PROVE k # random'
    <3>1. Age(k) \in Nat /\ Age(k) <= QueueSize - 1
      <4>1. Age(k) \in Nat /\ Slack \in {0, 1} /\ Old(k) = Age(k) + Slack /\ QueueSize \in Nat
        BY AgeTyped, SessionBounds DEF Typing, Old
      <4> QED BY <2>1, <4>1
    <3>2. Age(k)' = Age(k) + 1
      BY <1>1, <3>1, Ageing DEF Typing
    <3>3. k = random' => Age(k)' = 0
      <4>3. QueueSize \in Nat /\ random' \in Int
        BY <1>0, SessionBounds DEF Randoms
      <4>4. \A x \in Int : x - x = 0
        OBVIOUS
      <4>5. QueueSize + 1 \in Nat \ {0}
        BY <4>3
      <4>1. random' \in Int /\ random' - random' = 0 /\ QueueSize + 1 \in Nat \ {0}
        BY <4>3, <4>4, <4>5
      <4>2. \A M \in Nat \ {0} : 0 % M = 0
        OBVIOUS
      <4> QED BY <4>1, <4>2 DEF Age
    <3> QED BY <3>1, <3>2, <3>3
  <2>2. \A i \in Around' : Nth(i)' = Rest \/ \E j \in Around : Nth(i)' = Nth(j)
    BY <1>1, Readings DEF NothingNew, Typing
  <2>3. ASSUME NEW j \in Around PROVE Nth(j).key # random'
    <3> SUFFICES ASSUME Nth(j).key # NoKeys PROVE Nth(j).key # random'
      BY <1>0
    <3>1. Nth(j).key \in Randoms /\ Aging(Nth(j).key, j - 1)
      BY KeyTyped DEF Fresh, Typing
    <3> QED BY <2>1, <3>1 DEF Aging
  <2>4. \A i \in Around' : Nth(i)'.key # random'
    BY <1>0, <1>r, <2>2, <2>3
  <2>5. stls = "on" => skeys # random'
    <3>1. stls = "on" => skeys \in Randoms /\ Aging(skeys, Len(ans))
      BY DEF Fresh, Typing, Messages
    <3> QED BY <2>1, <3>1 DEF Aging
  <2> QED BY <1>1, <2>4, <2>5 DEF Hello
<1>2. CASE verimark_resolve_sid_sync \/ verimark_pairing_save_file
  <2>1. /\ Ep0!Spoilt \/ UNCHANGED ans
        /\ UNCHANGED <<inq, strict, stls, skeys>>
    BY <1>2 DEF verimark_resolve_sid_sync, verimark_pairing_save_file, ReadOk, sensorVars
  <2>2. random' = (random + 1) % (QueueSize + 1) \/ op' # "hello"
    BY <1>2 DEF verimark_resolve_sid_sync, verimark_pairing_save_file, LoadOrPair, hs_build_client_hello
  <2>3. CASE random' = (random + 1) % (QueueSize + 1)
    BY <1>1, <2>1, <2>3
  <2> QED BY <2>2, <2>3 DEF Hello
<1>3. CASE verimark_ctrl_write_sync
  <2> SUFFICES ASSUME op = "hello" PROVE Hello'
    BY <1>3 DEF verimark_ctrl_write_sync, Hello
  <2>1. /\ wire = "idle" /\ wire' \in {"sent", "failed"}
        /\ UNCHANGED <<op, random, stls, skeys>>
    BY <1>3, Writing DEF driverVars, sensorVars
  <2>2. Outgoing.kind = "hello"
    BY <1>3, Writing
  <2>3. \A i \in Around' : (i = Total' /\ Nth(i)' = Outgoing) \/ (i \in Around /\ Nth(i)' = Nth(i))
    BY <1>3, Writing
  <2>4. \A i \in Around : Nth(i).key # random
    BY <2>1 DEF Hello
  <2> QED BY <2>1, <2>2, <2>3, <2>4 DEF Hello
<1>4. CASE verimark_ctrl_read_sync
  <2>1. Ep0!Spoilt /\ UNCHANGED <<op, wire, random, inq, strict, stls, skeys>>
    BY <1>4 DEF verimark_ctrl_read_sync, memory, driverVars, sensorVars
  <2>2. PICK d \in {0, 1} :
          /\ Total' = Total - d
          /\ \A i \in Around' : i + d \in Around /\ (Nth(i)' = Nth(i + d) \/ Nth(i)' = Rest)
    BY <2>1, Taking DEF Typing
  <2>3. Total \in Nat /\ \A i \in Around' : i \in Int
    BY <2>2, AroundTyped DEF Typing, Around
  <2>4. ASSUME op = "hello", NEW i \in Around', Nth(i)'.key = random
        PROVE  i = Total' /\ wire # "idle" /\ Nth(i)'.kind \in {"hello", "rt1"}
    <3>1. Nth(i)' = Nth(i + d) /\ i + d \in Around
      BY <1>0, <1>r, <2>2, <2>4
    <3>2. i + d = Total /\ wire # "idle" /\ Nth(i + d).kind \in {"hello", "rt1"}
      BY <2>4, <3>1 DEF Hello
    <3> QED BY <2>2, <2>3, <3>1, <3>2
  <2> QED BY <2>1, <2>4 DEF Hello
<1>5. CASE Sensor
  <2>0. UNCHANGED <<op, wire, random>>
    BY <1>5 DEF Sensor, memory, driverVars
  <2>1. CASE Drops
    <3>1. Around' = Around /\ Total' = Total /\ stls' = "off" /\ \A i : Nth(i)' = Nth(i)
      BY <2>1, Keeping DEF Drops, Typing
    <3> QED BY <2>0, <3>1 DEF Hello
  <2>2. ASSUME NEW a \in Rpls, Executes(a), op = "hello" PROVE Hello'
    <3>1. /\ Total' = Total /\ Around' = Around /\ Len(ans) + 1 \in Around /\ Command = Nth(Len(ans) + 1)
          /\ \A i \in Around : Nth(i)' = IF i = Len(ans) + 1 THEN a ELSE Nth(i)
          /\ Command.kind \in Sending
      BY <2>2, Execution
    <3>2. /\ stls = "on" => skeys # random
          /\ Command.key = random => Len(ans) + 1 = Total /\ wire # "idle" /\ Command.kind \in {"hello", "rt1"}
      BY <2>2, <3>1 DEF Hello
    <3>3. Command.key = random => Len(ans) + 1 = Total /\ wire # "idle" /\ Command.kind = "hello"
      BY <3>1, <3>2 DEF Sending
    <3>4. a.key = random => Command.key = random /\ a.kind = "rt1"
      <4>1. CASE a.kind \in {"error", "version", "pair"}
        BY <1>0, <2>2, <4>1 DEF Executes
      <4>2. CASE a.kind = "rt1"
        BY <2>2, <4>2 DEF Executes
      <4>3. CASE a.kind = "rt2"
        <5>1. Command.kind = "finish" /\ Command.key = a.key
          BY <2>2, <4>3 DEF Executes
        <5> QED BY <3>3, <5>1
      <4>4. CASE a.kind \in {"app", "alert"}
        <5>1. stls = "on" /\ a.key = skeys
          BY <2>2, <4>4 DEF Executes
        <5> QED BY <3>2, <5>1
      <4> QED BY <2>2, <4>1, <4>2, <4>3, <4>4 DEF Executes
    <3>5. stls' = "on" => skeys' # random
      <4>1. CASE a.kind \in {"error", "version", "pair"}
        BY <2>2, <3>2, <4>1 DEF Executes
      <4>2. CASE a.kind = "rt1"
        BY <2>2, <4>2 DEF Executes
      <4>3. CASE a.kind = "rt2"
        <5>1. Command.kind = "finish" /\ skeys' = Command.key
          BY <2>2, <4>3 DEF Executes
        <5> QED BY <3>3, <5>1
      <4>4. CASE a.kind \in {"app", "alert"}
        BY <2>2, <3>2, <4>4 DEF Executes
      <4> QED BY <2>2, <4>1, <4>2, <4>3, <4>4 DEF Executes
    <3> HIDE DEF Command
    <3>6. ASSUME NEW i \in Around, Nth(i)'.key = random
          PROVE  i = Total /\ wire # "idle" /\ Nth(i)'.kind \in {"hello", "rt1"}
      <4>1. CASE i = Len(ans) + 1
        BY <3>1, <3>3, <3>4, <3>6, <4>1
      <4>2. CASE i # Len(ans) + 1
        BY <2>2, <3>1, <3>6, <4>2 DEF Hello
      <4> QED BY <4>1, <4>2
    <3> QED BY <2>0, <3>1, <3>5, <3>6 DEF Hello
  <2>3. op # "hello" => Hello'
    BY <2>0 DEF Hello
  <2> QED BY <1>5, <2>1, <2>2, <2>3, SensorSteps
<1>6. CASE UNCHANGED vars
  <2>1. UNCHANGED <<op, wire, random, inq, ans, stls, skeys>>
    BY <1>6 DEF vars, memory, driverVars, sensorVars
  <2>2. Around' = Around /\ Total' = Total /\ \A i : Nth(i)' = Nth(i)
    BY <2>1, Keeping DEF Typing
  <2> QED BY <2>1, <2>2 DEF Hello
<1>7. CASE \/ dev_open \/ verimark_moc_send \/ verimark_tls_close \/ Crash \/ verimark_open_fail \/ dev_close
           \/ verimark_pairing_do \/ hs_build_rt2 \/ hs_process_rt2 \/ on_moc_raw_resp
  <2>1. op' # "hello"
    BY <1>7 DEF dev_open, verimark_moc_send, verimark_tls_close, Crash, verimark_open_fail, dev_close, Forget,
                verimark_pairing_do, hs_build_rt2, hs_process_rt2, on_moc_raw_resp
  <2> QED BY <2>1 DEF Hello
<1> QED BY <1>2, <1>3, <1>4, <1>5, <1>6, <1>7 DEF Next, Driver

\* A part of an answer that was read before.
Resting(i) == Nth(i).kind = "rest"

\* In the second round trip nothing is left of earlier commands but such parts, and
\* an answer in rt2 says that the sensor has the keys and the credential.
Handshaking ==
  \A i \in Around :
    \/ Resting(i)
    \/ /\ i = Total /\ wire # "idle"
       /\ Nth(i).kind \in {"finish", "rt2", "error"}
       /\ Nth(i).kind = "finish" => Nth(i).key = keys /\ Nth(i).n = pd
       /\ Nth(i).kind = "rt2" => /\ Nth(i).key = keys /\ skeys = keys /\ pd \in hosts /\ stls # "hello"
                                 /\ stls = "on" => srx = 1 /\ stx = 1

Finishing == op = "finish" /\ keys = random => Handshaking

\* Reading the only message there is leaves at most a part of it.
LEMMA LastRead ==
  ASSUME Queues, Ep0!Spoilt, UNCHANGED <<inq, strict>>, Total = 1
  PROVE  \A i \in Around' : Resting(i)'
<1>1. PICK d \in {0, 1} :
        /\ Total' = Total - d
        /\ \A i \in Around' : i + d \in Around
        /\ d = 0 => Nth(1)' = Rest
  BY Taking
<1>2. \A i \in Around' : i = 1 /\ d = 0
  BY <1>1 DEF Around
<1>3. Rest.kind = "rest"
  BY DEF Rest, Answer, Records
<1> QED BY <1>1, <1>2, <1>3 DEF Resting

\* A read leaves what was last last, and parts of answers before it.
LEMMA RestingRead ==
  ASSUME Queues, Ep0!Spoilt \/ UNCHANGED ans, UNCHANGED <<inq, strict>>,
         \A i \in Around : i # Total => Resting(i)
  PROVE  /\ \A i \in Around' : i # Total' => Resting(i)'
         /\ (\A i \in Around : Resting(i)) => \A i \in Around' : Resting(i)'
         /\ \A i \in Around' : Resting(i)' \/ (i = Total' /\ Total \in Around /\ Nth(i)' = Nth(Total))
<1>1. PICK d \in {0, 1} :
        /\ Total' = Total - d
        /\ \A i \in Around' : i + d \in Around /\ (Nth(i)' = Nth(i + d) \/ Nth(i)' = Rest)
  BY Taking
<1>2. Total \in Nat /\ \A i \in Around' : i \in Int
  BY <1>1, AroundTyped DEF Around
<1>3. Rest.kind = "rest"
  BY DEF Rest, Answer, Records
<1>4. \A i \in Around' : i + d = Total => i = Total'
  BY <1>1, <1>2
<1> QED BY <1>1, <1>3, <1>4 DEF Resting

\* Every step of the handshake keeps what the second round trip relies on.
LEMMA FinishingStep ==
  ASSUME Typing, Typing', Hello, Finishing, [Next]_vars
  PROVE  Finishing'
<1> USE DEF Continue
<1>0. NoKeys \notin Randoms /\ random \in Randoms
  BY DEF NoKeys, Randoms, Typing, Scalars
<1>1. CASE hs_build_rt2
  <2>1. /\ op = "hello" /\ ans # <<>> /\ Ep0!Spoilt /\ UNCHANGED <<inq, strict, random>>
        /\ Reply.kind = "rt1" /\ keys' = IF Reply.key = random THEN random ELSE NoKeys
    BY <1>1 DEF hs_build_rt2, ReadOk, Got, hs_process_rt1
  <2>2. CASE Reply.key = random
    <3>1. Reply = Nth(1) /\ 1 \in Around
      BY <2>1, ReplyTyped DEF Typing
    <3> HIDE DEF Reply
    <3>2. Total = 1
      BY <2>1, <2>2, <3>1 DEF Hello
    <3>3. \A i \in Around' : Resting(i)'
      BY <2>1, <3>2, LastRead DEF Typing
    <3> QED BY <3>3 DEF Finishing, Handshaking
  <2>3. CASE Reply.key # random
    <3>1. keys' # random'
      BY <1>0, <2>1, <2>3
    <3> QED BY <3>1 DEF Finishing
  <2> QED BY <2>2, <2>3
<1>2. CASE verimark_ctrl_write_sync
  <2> SUFFICES ASSUME op = "finish", keys = random PROVE Handshaking'
    BY <1>2, Writing DEF Finishing, driverVars
  <2>1. /\ wire = "idle" /\ wire' \in {"sent", "failed"}
        /\ UNCHANGED <<op, random, keys, pd, hosts, stls, skeys, srx, stx>>
    BY <1>2, Writing DEF driverVars, sensorVars
  <2>2. Outgoing.kind = "finish" /\ Outgoing.key = keys /\ Outgoing.n = pd
    BY <2>1, OutgoingTyped DEF Typing, Sending
  <2>3. \A i \in Around' : (i = Total' /\ Nth(i)' = Outgoing) \/ (i \in Around /\ Nth(i)' = Nth(i))
    BY <1>2, Writing
  <2>4. \A i \in Around : Resting(i)
    BY <2>1 DEF Finishing, Handshaking
  <2> HIDE DEF Outgoing
  <2> QED BY <2>1, <2>2, <2>3, <2>4 DEF Handshaking, Resting
<1>3. CASE verimark_ctrl_read_sync
  <2> SUFFICES ASSUME op = "finish", keys = random PROVE Handshaking'
    BY <1>3 DEF verimark_ctrl_read_sync, memory, driverVars, Finishing
  <2>1. Ep0!Spoilt /\ UNCHANGED <<op, wire, random, keys, pd, inq, strict, hosts, stls, skeys, srx, stx>>
    BY <1>3 DEF verimark_ctrl_read_sync, memory, driverVars, sensorVars
  <2>2. Handshaking
    BY DEF Finishing
  <2>3. \A i \in Around' : Resting(i)' \/ (i = Total' /\ Total \in Around /\ Nth(i)' = Nth(Total))
    <3>1. \A i \in Around : i # Total => Resting(i)
      BY <2>2 DEF Handshaking
    <3> QED BY <2>1, <3>1, RestingRead DEF Typing
  <2>4. ASSUME NEW i \in Around', ~Resting(i)'
        PROVE  i = Total' /\ Total \in Around /\ Nth(i)' = Nth(Total) /\ ~Resting(Total)
    BY <2>3, <2>4 DEF Resting
  <2> QED BY <2>1, <2>2, <2>4 DEF Handshaking
<1>4. CASE Sensor
  <2>0. UNCHANGED <<op, wire, random, keys, pd>>
    BY <1>4 DEF Sensor, memory, driverVars
  <2>1. CASE Drops
    <3>1. /\ Around' = Around /\ Total' = Total /\ stls' = "off" /\ \A i : Nth(i)' = Nth(i)
          /\ hosts' = hosts /\ skeys' = skeys
      BY <2>1, Keeping DEF Drops, Typing
    <3> QED BY <2>0, <3>1 DEF Finishing, Handshaking, Resting
  <2>2. ASSUME NEW a \in Rpls, Executes(a), op = "finish", keys = random PROVE Handshaking'
    <3>1. /\ Total' = Total /\ Around' = Around /\ Len(ans) + 1 \in Around /\ Command = Nth(Len(ans) + 1)
          /\ \A i \in Around : Nth(i)' = IF i = Len(ans) + 1 THEN a ELSE Nth(i)
          /\ Command.kind \in Sending
      BY <2>2, Execution
    <3> HIDE DEF Command
    <3>2. /\ Command.kind = "finish" /\ Command.key = keys /\ Command.n = pd
          /\ Len(ans) + 1 = Total /\ wire # "idle"
      BY <2>2, <3>1 DEF Finishing, Handshaking, Resting, Sending
    <3>3. a.kind \in {"error", "rt2"}
      BY <2>2, <3>2 DEF Executes
    <3>4. a.kind = "rt2" => /\ a.key = keys /\ skeys' = keys /\ pd \in hosts' /\ stls' = "on"
                            /\ srx' = 1 /\ stx' = 1
      BY <2>2, <3>2 DEF Executes
    <3>5. \A i \in Around : i # Total => Resting(i)
      BY <2>2 DEF Finishing, Handshaking
    <3> QED BY <2>0, <3>1, <3>2, <3>3, <3>4, <3>5 DEF Handshaking, Resting
  <2>3. op # "finish" \/ keys # random => Finishing'
    BY <2>0 DEF Finishing
  <2> QED BY <1>4, <2>1, <2>2, <2>3, SensorSteps DEF Finishing
<1>5. CASE UNCHANGED vars
  <2>1. UNCHANGED <<op, wire, random, keys, pd, inq, ans, hosts, stls, skeys, srx, stx>>
    BY <1>5 DEF vars, memory, driverVars, sensorVars
  <2>2. Around' = Around /\ Total' = Total /\ \A i : Nth(i)' = Nth(i)
    BY <2>1, Keeping DEF Typing
  <2> QED BY <2>1, <2>2 DEF Finishing, Handshaking, Resting
<1>6. CASE \/ dev_open \/ verimark_moc_send \/ verimark_tls_close \/ Crash \/ verimark_open_fail \/ dev_close
           \/ verimark_pairing_do \/ verimark_pairing_save_file \/ verimark_resolve_sid_sync
           \/ hs_process_rt2 \/ on_moc_raw_resp
  <2>1. op' # "finish"
    BY <1>6 DEF dev_open, verimark_moc_send, verimark_tls_close, Crash, verimark_open_fail, dev_close, Forget,
                verimark_pairing_do, verimark_pairing_save_file, verimark_resolve_sid_sync, LoadOrPair,
                hs_build_client_hello, hs_process_rt2, on_moc_raw_resp
  <2> QED BY <2>1 DEF Finishing
<1> QED BY <1>1, <1>2, <1>3, <1>4, <1>5, <1>6 DEF Next, Driver

\* What the answer that ends the handshake says.
LEMMA Finished ==
  ASSUME Typing, Finishing, hs_process_rt2
  PROVE  /\ keys = random /\ skeys = keys /\ pd \in hosts /\ stls # "hello" /\ Total = 1
         /\ stls = "on" => srx = 1 /\ stx = 1
         /\ encr_seq = 1 /\ decr_seq = 0 /\ op = "finish" /\ given = 0 /\ lost = FALSE
         /\ \A i \in Around' : Resting(i)'
<1>1. /\ op = "finish" /\ ans # <<>> /\ Ep0!Spoilt /\ UNCHANGED <<inq, strict>>
      /\ Reply = Answer("rt2", keys, decr_seq, 0)
  BY DEF hs_process_rt2, ReadOk, Got, ServerFinished
<1>2. Reply.kind = "rt2" /\ Reply.key = keys
  BY <1>1 DEF Answer, Records
<1>3. Reply = Nth(1) /\ 1 \in Around /\ keys \in Randoms
  BY <1>1, <1>2, ReplyTyped DEF Typing
<1>4. /\ keys = random /\ encr_seq = 1 /\ decr_seq = 0 /\ given = 0 /\ lost = FALSE
  BY <1>1, <1>3 DEF Typing, Phase, NoKeys, Randoms
<1> HIDE DEF Reply
<1>5. /\ skeys = keys /\ pd \in hosts /\ stls # "hello" /\ Total = 1
      /\ stls = "on" => srx = 1 /\ stx = 1
  BY <1>1, <1>2, <1>3, <1>4 DEF Finishing, Handshaking, Resting
<1>6. \A i \in Around' : Resting(i)'
  BY <1>1, <1>5, LastRead DEF Typing
<1> QED BY <1>1, <1>4, <1>5, <1>6

\* An open ends with a handshake the sensor finished with the same keys and a
\* credential it accepted (hs_process_rt2).
LEMMA OpenStep ==
  ASSUME Typing, Finishing, [Next]_vars, op = "finish", op' = "open"
  PROVE  skeys' = keys' /\ pd' \in hosts'
<1>1. hs_process_rt2
  BY DEF Next, Driver, vars, memory, dev_open, verimark_moc_send, verimark_tls_close, verimark_ctrl_write_sync,
         verimark_ctrl_read_sync, verimark_resolve_sid_sync, verimark_pairing_do, verimark_pairing_save_file,
         hs_build_rt2, verimark_open_fail, on_moc_raw_resp, dev_close, Crash, Sensor, Forget, Continue
<1>2. UNCHANGED <<keys, skeys, pd, hosts>>
  BY <1>1 DEF hs_process_rt2, sensorVars
<1> QED BY <1>1, <1>2, Finished

-----------------------------------------------------------------------------
(* The session *)

\* Records are counted in answers only.
LEMMA AnswerTyped ==
  ASSUME Queues, NEW i \in Around
  PROVE  /\ Nth(i).kind \in {"app", "alert"} =>
              Nth(i).seq \in Nat /\ Nth(i).recs \in Nat /\ Nth(i).recs >= 1 /\ i <= Len(ans)
         /\ Nth(i).n \in Int
<1>1. CASE i <= Len(ans)
  <2>1. Nth(i) \in Rpls
    BY <1>1, AroundTyped
  <2>2. Nth(i).seq \in Nat /\ Nth(i).recs \in 1..MaxRecords /\ Nth(i).n \in Int
    BY <2>1 DEF Rpls
  <2>3. Nth(i).recs \in Nat /\ Nth(i).recs >= 1
    BY <2>2, SessionBounds
  <2> QED BY <1>1, <2>2, <2>3
<1>2. CASE i > Len(ans)
  <2>1. Nth(i) \in Cmds
    BY <1>2, AroundTyped
  <2> QED BY <2>1 DEF Cmds, Sending
<1> QED BY <1>1, <1>2, AroundTyped

\* The number of the last command that was written, or may have been.
Latest == IF op = "command" /\ wire = "idle" THEN encr_seq - 2 ELSE encr_seq - 1

\* The messages a command number counts.
Counts(i) == Nth(i).kind \in {"command", "app"}

\* During a session the line holds its commands and their answers, in order, each
\* with a number not yet given and already written; a sensor that still has the
\* session has the same keys and is never behind in the records it sent.
Conversation ==
  /\ \A i \in Around :
       /\ Nth(i).kind \in {"command", "app", "alert", "error", "rest"}
       /\ Counts(i) => Nth(i).key = keys /\ given < Nth(i).n /\ Nth(i).n <= Latest
       /\ Nth(i).kind \in {"app", "alert"} => Nth(i).key = keys
  /\ \A i, j \in Around : i < j /\ Counts(i) /\ Counts(j) => Nth(i).n < Nth(j).n
  /\ given \in Nat /\ given <= Latest
  /\ stls # "hello"
  /\ stls = "on" => /\ skeys = keys /\ stx >= decr_seq
                    /\ \A i \in Around : Nth(i).kind \in {"app", "alert"} => Nth(i).seq + Nth(i).recs <= stx

Talking == Live => Conversation

\* Reading does not disturb what was said of every message that is left.
LEMMA ConversationRead ==
  ASSUME Queues, Conversation, Ep0!Spoilt \/ UNCHANGED ans, UNCHANGED <<inq, strict, stls, skeys, stx, keys>>,
         given' \in Nat, given' <= Latest, Latest' = Latest, stls = "on" => stx >= decr_seq',
         \/ given' = given
         \/ Ep0!Spoilt /\ 1 \in Around /\ Counts(1) /\ given' = Nth(1).n
  PROVE  Conversation'
<1>1. PICK d \in {0, 1} :
        /\ \A i \in Around' : i + d \in Around /\ (Nth(i)' = Nth(i + d) \/ Nth(i)' = Rest)
        /\ Ep0!Spoilt => (d = 0 => Nth(1)' = Rest)
  BY Taking
<1>2. \A i \in Around' : i \in Int /\ i >= 1
  BY <1>1, Taking, AroundTyped DEF Around
<1>3. Rest.kind = "rest"
  BY DEF Rest, Answer, Records
<1> HIDE DEF Rest
<1>4. \A i \in Around' : i + d \in Around /\ (Nth(i)' = Nth(i + d) \/ Nth(i)'.kind = "rest")
  BY <1>1, <1>3
<1>5. ASSUME NEW i \in Around', Counts(i)'
      PROVE  Nth(i)' = Nth(i + d) /\ Counts(i + d) /\ i + d \in Around /\ given' < Nth(i + d).n
  <2>1. Nth(i)' = Nth(i + d) /\ Counts(i + d) /\ i + d \in Around
    BY <1>4, <1>5 DEF Counts
  <2>2. CASE given' = given
    BY <2>1, <2>2 DEF Conversation
  <2>3. CASE Ep0!Spoilt /\ 1 \in Around /\ Counts(1) /\ given' = Nth(1).n
    <3>1. d = 0 => i # 1
      BY <1>1, <1>3, <1>5, <2>3 DEF Counts
    <3>2. 1 < i + d
      BY <1>1, <1>2, <3>1
    <3> QED BY <2>1, <2>3, <3>2 DEF Conversation
  <2> QED BY <2>1, <2>2, <2>3
<1>6. ASSUME NEW i \in Around'
      PROVE  /\ Nth(i)'.kind \in {"command", "app", "alert", "error", "rest"}
             /\ Counts(i)' => Nth(i)'.key = keys /\ given' < Nth(i)'.n /\ Nth(i)'.n <= Latest
             /\ Nth(i)'.kind \in {"app", "alert"} => Nth(i)'.key = keys
  <2>1. CASE Nth(i)' = Nth(i + d)
    BY <1>4, <1>5, <2>1 DEF Conversation
  <2>2. CASE Nth(i)'.kind = "rest"
    BY <2>2 DEF Counts
  <2> QED BY <1>4, <2>1, <2>2
<1>7. ASSUME NEW i \in Around', NEW j \in Around', i < j, Counts(i)', Counts(j)'
      PROVE  Nth(i)'.n < Nth(j)'.n
  <2>1. i + d < j + d
    BY <1>1, <1>2, <1>7
  <2>2. Nth(i)' = Nth(i + d) /\ Counts(i + d) /\ i + d \in Around
    BY <1>5, <1>7
  <2>3. Nth(j)' = Nth(j + d) /\ Counts(j + d) /\ j + d \in Around
    BY <1>5, <1>7
  <2> QED BY <2>1, <2>2, <2>3 DEF Conversation
<1>8. ASSUME stls = "on", NEW i \in Around', Nth(i)'.kind \in {"app", "alert"}
      PROVE  Nth(i)'.seq + Nth(i)'.recs <= stx
  <2>1. i + d \in Around /\ Nth(i)' = Nth(i + d)
    BY <1>4, <1>8
  <2> QED BY <1>8, <2>1 DEF Conversation
<1>9. /\ stls' # "hello" /\ given' \in Nat /\ given' <= Latest'
      /\ stls' = "on" => skeys' = keys' /\ stx' >= decr_seq'
  BY DEF Conversation
<1>10. keys' = keys /\ stls' = stls /\ stx' = stx /\ Latest' = Latest
  OBVIOUS
<1> HIDE DEF Latest
<1>11. \A i, j \in Around' : i < j /\ Counts(i)' /\ Counts(j)' => Nth(i)'.n < Nth(j)'.n
  BY <1>7
<1>12. \A i \in Around' : /\ Nth(i)'.kind \in {"command", "app", "alert", "error", "rest"}
                          /\ Counts(i)' => Nth(i)'.key = keys' /\ given' < Nth(i)'.n /\ Nth(i)'.n <= Latest'
                          /\ Nth(i)'.kind \in {"app", "alert"} => Nth(i)'.key = keys'
  BY <1>6, <1>10
<1>13. stls' = "on" => \A i \in Around' : Nth(i)'.kind \in {"app", "alert"} => Nth(i)'.seq + Nth(i)'.recs <= stx'
  BY <1>8, <1>10
<1> QED BY <1>9, <1>11, <1>12, <1>13 DEF Conversation

\* A command that is written has the greatest number.
LEMMA ConversationWritten ==
  ASSUME Typing, Conversation, op = "command", verimark_ctrl_write_sync
  PROVE  Conversation'
<1>c. PICK c : c = Outgoing
  OBVIOUS
<1>1. /\ wire = "idle" /\ wire' # "idle" /\ UNCHANGED <<op, keys, encr_seq, decr_seq, given, stls, skeys, stx>>
      /\ c.kind = "command" /\ Total' \in Nat
      /\ \A i \in Around' : (i = Total' /\ Nth(i)' = c) \/ (i \in Around /\ Nth(i)' = Nth(i))
  BY <1>c, Writing DEF driverVars, sensorVars
<1>2. c.key = keys /\ c.n = encr_seq - 1
  BY <1>c, OutgoingTyped DEF Typing, Sending
<1>3. keys = random /\ encr_seq \in Int
  BY DEF Typing, Phase, Established, Counters
<1>4. Latest = encr_seq - 2 /\ Latest' = encr_seq - 1 /\ Latest < Latest' /\ Latest \in Int
  BY <1>1, <1>3 DEF Latest
<1>5. given \in Nat /\ given < encr_seq - 1 /\ given <= Latest'
  BY <1>3, <1>4 DEF Conversation
<1>6. \A i \in Around : Nth(i).n \in Int /\ i \in Int
  BY AnswerTyped, AroundTyped DEF Typing
<1>7. ASSUME NEW i \in Around'
      PROVE  /\ Nth(i)'.kind \in {"command", "app", "alert", "error", "rest"}
             /\ Counts(i)' => Nth(i)'.key = keys /\ given < Nth(i)'.n /\ Nth(i)'.n <= Latest'
             /\ Nth(i)'.kind \in {"app", "alert"} => Nth(i)'.key = keys
  <2>1. CASE Nth(i)' = c
    BY <1>1, <1>2, <1>3, <1>4, <1>5, <2>1
  <2>2. CASE i \in Around /\ Nth(i)' = Nth(i)
    <3>1. Counts(i)' <=> Counts(i)
      BY <2>2 DEF Counts
    <3>2. Counts(i) => Nth(i).n <= Latest'
      BY <1>4, <1>6, <2>2 DEF Conversation
    <3> QED BY <2>2, <3>1, <3>2 DEF Conversation
  <2> QED BY <1>1, <2>1, <2>2
<1>8. ASSUME NEW i \in Around', NEW j \in Around', i < j, Counts(i)', Counts(j)'
      PROVE  Nth(i)'.n < Nth(j)'.n
  <2>0. \A k \in Around' : k \in Int /\ k <= Total'
    BY <1>1 DEF Around
  <2>1. i # Total'
    BY <1>1, <1>8, <2>0
  <2>2. i \in Around /\ Nth(i)' = Nth(i) /\ Counts(i)
    BY <1>1, <1>8, <2>1 DEF Counts
  <2>3. CASE Nth(j)' = c
    <3>1. Nth(i).n <= Latest /\ Nth(i).n \in Int
      BY <1>6, <2>2 DEF Conversation
    <3> QED BY <1>2, <1>3, <1>4, <2>2, <2>3, <3>1
  <2>4. CASE j \in Around /\ Nth(j)' = Nth(j)
    <3>1. Counts(j)
      BY <1>8, <2>4 DEF Counts
    <3> QED BY <1>8, <2>2, <2>4, <3>1 DEF Conversation
  <2> QED BY <1>1, <2>3, <2>4
<1>9. ASSUME stls = "on", NEW i \in Around', Nth(i)'.kind \in {"app", "alert"}
      PROVE  Nth(i)'.seq + Nth(i)'.recs <= stx
  <2>1. i \in Around /\ Nth(i)' = Nth(i)
    BY <1>1, <1>9
  <2> QED BY <1>9, <2>1 DEF Conversation
<1>10. /\ stls' # "hello" /\ given' \in Nat /\ given' <= Latest'
       /\ stls' = "on" => skeys' = keys' /\ stx' >= decr_seq'
  BY <1>1, <1>5 DEF Conversation
<1> HIDE DEF Latest
<1>11. \A i, j \in Around' : i < j /\ Counts(i)' /\ Counts(j)' => Nth(i)'.n < Nth(j)'.n
  BY <1>8
<1>12. \A i \in Around' : /\ Nth(i)'.kind \in {"command", "app", "alert", "error", "rest"}
                          /\ Counts(i)' => Nth(i)'.key = keys' /\ given' < Nth(i)'.n /\ Nth(i)'.n <= Latest'
                          /\ Nth(i)'.kind \in {"app", "alert"} => Nth(i)'.key = keys'
  BY <1>1, <1>7
<1>13. stls' = "on" => \A i \in Around' : Nth(i)'.kind \in {"app", "alert"} => Nth(i)'.seq + Nth(i)'.recs <= stx'
  BY <1>1, <1>9
<1> QED BY <1>10, <1>11, <1>12, <1>13 DEF Conversation

\* What the sensor can answer in a session.
LEMMA ConversationExecutes ==
  ASSUME Typing, Conversation, NEW a \in Rpls, Executes(a)
  PROVE  /\ Command.kind = "command" /\ Counts(Len(ans) + 1)
         /\ a.kind \in {"error", "app", "alert"}
         /\ a.kind = "error" => UNCHANGED <<hosts, stls, skeys, srx, stx>>
         /\ a.kind # "error" => /\ stls = "on" /\ stls' = "on" /\ skeys' = skeys /\ a.key = keys /\ skeys = keys
                                /\ a.seq = stx /\ stx' = stx + a.recs /\ a.recs \in Nat /\ a.recs >= 1
         /\ a.kind = "app" => Command.n = srx /\ a.n = Command.n /\ srx' = srx + 1
         /\ a.kind = "alert" => srx' = srx /\ Command.n # srx /\ stx' = stx + 1 /\ a.recs = 1
<1>1. /\ Len(ans) + 1 \in Around /\ Command = Nth(Len(ans) + 1) /\ Command.kind \in Sending
  BY Execution
<1> HIDE DEF Command
<1>2. Command.kind = "command" /\ Counts(Len(ans) + 1) /\ Command.key = keys
  BY <1>1 DEF Conversation, Counts, Sending
<1>3. a.kind \in {"error", "app", "alert"} /\ (a.kind \notin {"app"} => a.recs = 1)
  BY <1>2 DEF Executes, Conversation
<1>4. a.recs \in 1..MaxRecords
  BY DEF Rpls
<1>5. a.recs \in Nat /\ a.recs >= 1
  BY <1>4, SessionBounds
<1>6. a.kind = "error" => UNCHANGED <<hosts, stls, skeys, srx, stx>>
  BY DEF Executes
<1>7. a.kind = "app" => /\ stls = "on" /\ stls' = "on" /\ skeys' = skeys /\ a.key = skeys /\ a.seq = stx
                        /\ stx' = stx + a.recs
                        /\ Command.n = srx /\ a.n = Command.n /\ srx' = srx + 1
  BY DEF Executes
<1>8. a.kind = "alert" => /\ stls = "on" /\ stls' = "on" /\ skeys' = skeys /\ a.key = skeys /\ a.seq = stx
                          /\ stx' = stx + 1 /\ srx' = srx /\ ~(Command.key = skeys /\ Command.n = srx)
  BY <1>2 DEF Executes
<1>9. stls = "on" => skeys = keys
  BY DEF Conversation
<1> QED BY <1>2, <1>3, <1>5, <1>6, <1>7, <1>8, <1>9

\* The answer takes the number of its command.
LEMMA ConversationAnswered ==
  ASSUME Typing, Conversation, NEW a \in Rpls, Executes(a)
  PROVE  Conversation'
<1>1. /\ Around' = Around /\ Len(ans) + 1 \in Around /\ Command = Nth(Len(ans) + 1)
      /\ \A i \in Around : Nth(i)' = IF i = Len(ans) + 1 THEN a ELSE Nth(i)
      /\ UNCHANGED <<op, wire, keys, encr_seq, decr_seq, given>>
  BY Execution DEF memory, driverVars
<1>2. /\ a.kind \in {"error", "app", "alert"} /\ Counts(Len(ans) + 1)
      /\ a.kind = "error" => UNCHANGED <<stls, skeys, stx>>
      /\ a.kind # "error" => /\ stls = "on" /\ stls' = "on" /\ skeys' = skeys /\ a.key = keys
                             /\ a.seq = stx /\ stx' = stx + a.recs /\ a.recs \in Nat
      /\ a.kind = "app" => a.n = Command.n
  BY ConversationExecutes
<1> HIDE DEF Command
<1>3. stx \in Nat /\ stx' \in Nat /\ stx <= stx' /\ decr_seq \in Nat
  <2>1. stx \in Nat /\ decr_seq \in Nat
    BY DEF Typing, Counters
  <2> QED BY <1>2, <2>1
<1>4. ASSUME NEW i \in Around, Counts(i)'
      PROVE  Counts(i) /\ Nth(i)'.key = keys /\ Nth(i)'.n = Nth(i).n
  <2>1. CASE i = Len(ans) + 1
    BY <1>1, <1>2, <1>4, <2>1 DEF Counts
  <2>2. CASE i # Len(ans) + 1
    BY <1>1, <1>4, <2>2 DEF Counts, Conversation
  <2> QED BY <2>1, <2>2
<1>5. Latest' = Latest
  BY <1>1 DEF Latest
<1> HIDE DEF Latest
<1>6. \A i \in Around' : /\ Nth(i)'.kind \in {"command", "app", "alert", "error", "rest"}
                         /\ Nth(i)'.kind \in {"app", "alert"} => Nth(i)'.key = keys'
  BY <1>1, <1>2 DEF Conversation
<1>7. \A i \in Around' : Counts(i)' => Nth(i)'.key = keys' /\ given' < Nth(i)'.n /\ Nth(i)'.n <= Latest'
  BY <1>1, <1>4, <1>5 DEF Conversation
<1>8. \A i, j \in Around' : i < j /\ Counts(i)' /\ Counts(j)' => Nth(i)'.n < Nth(j)'.n
  BY <1>1, <1>4 DEF Conversation
<1>9. /\ stls' # "hello" /\ given' \in Nat /\ given' <= Latest'
      /\ stls' = "on" => skeys' = keys' /\ stx' >= decr_seq'
  BY <1>1, <1>2, <1>3, <1>5 DEF Conversation
<1>10. ASSUME stls' = "on", NEW i \in Around', Nth(i)'.kind \in {"app", "alert"}
       PROVE  Nth(i)'.seq + Nth(i)'.recs <= stx'
  <2>0. stls = "on"
    BY <1>2, <1>10
  <2>1. CASE i = Len(ans) + 1
    BY <1>1, <1>2, <1>3, <1>10, <2>1
  <2>2. CASE i # Len(ans) + 1
    <3>1. Nth(i).seq + Nth(i).recs <= stx /\ Nth(i).seq \in Nat /\ Nth(i).recs \in Nat /\ Nth(i)' = Nth(i)
      BY <1>1, <1>10, <2>0, <2>2, AnswerTyped DEF Conversation, Typing
    <3> QED BY <1>3, <3>1
  <2> QED BY <2>1, <2>2
<1>11. \A i \in Around' : /\ Nth(i)'.kind \in {"command", "app", "alert", "error", "rest"}
                          /\ Counts(i)' => Nth(i)'.key = keys' /\ given' < Nth(i)'.n /\ Nth(i)'.n <= Latest'
                          /\ Nth(i)'.kind \in {"app", "alert"} => Nth(i)'.key = keys'
  BY <1>6, <1>7
<1> QED BY <1>8, <1>9, <1>10, <1>11 DEF Conversation

\* Every step keeps the order of the conversation.
LEMMA TalkingStep ==
  ASSUME Typing, Typing', Finishing, Talking, [Next]_vars
  PROVE  Talking'
<1> USE DEF Continue
<1>0. encr_seq \in Int /\ decr_seq \in Nat /\ stx \in Nat
  BY DEF Typing, Counters
<1>1. CASE hs_process_rt2
  <2>1. /\ op' = "open" /\ decr_seq' = decr_seq + 1
        /\ UNCHANGED <<keys, encr_seq, given, stls, skeys, stx, srx>>
    BY <1>1 DEF hs_process_rt2, NextDecr, sensorVars
  <2>2. /\ skeys = keys /\ stls # "hello" /\ (stls = "on" => srx = 1 /\ stx = 1)
        /\ encr_seq = 1 /\ decr_seq = 0 /\ given = 0
        /\ \A i \in Around' : Resting(i)'
    BY <1>1, Finished
  <2>3. \A i \in Around' : Nth(i)'.kind = "rest" /\ ~Counts(i)'
    BY <2>2 DEF Resting, Counts
  <2>4. Latest' = 0
    BY <2>1, <2>2 DEF Latest
  <2>5. decr_seq' = 1
    BY <2>1, <2>2
  <2> QED BY <2>1, <2>2, <2>3, <2>4, <2>5 DEF Talking, Conversation
<1>2. CASE verimark_moc_send
  <2>1. /\ op = "open" /\ op' = "command" /\ wire' = "idle" /\ encr_seq' = encr_seq + 1
        /\ UNCHANGED <<keys, decr_seq, given, stls, skeys, stx, inq, ans>>
    BY <1>2 DEF verimark_moc_send, sensorVars
  <2>2. Around' = Around /\ \A i : Nth(i)' = Nth(i)
    BY <2>1, Keeping DEF Typing
  <2>3. Latest' = Latest
    BY <1>0, <2>1 DEF Latest
  <2>4. Conversation
    BY <2>1 DEF Talking, Live
  <2> HIDE DEF Latest
  <2>5. Conversation'
    BY <2>1, <2>2, <2>3, <2>4 DEF Conversation, Counts
  <2> QED BY <2>5 DEF Talking
<1>3. CASE verimark_ctrl_write_sync
  <2>1. op' = op /\ op # "open"
    BY <1>3 DEF verimark_ctrl_write_sync, Sending
  <2>2. CASE op = "command"
    BY <1>3, <2>2, ConversationWritten DEF Talking, Live
  <2> QED BY <2>1, <2>2 DEF Talking, Live
<1>4. CASE verimark_ctrl_read_sync
  <2>1. /\ Ep0!Spoilt /\ UNCHANGED <<op, wire, keys, encr_seq, decr_seq, given, inq, strict, stls, skeys, stx>>
    BY <1>4 DEF verimark_ctrl_read_sync, memory, driverVars, sensorVars
  <2>2. Latest' = Latest
    BY <2>1 DEF Latest
  <2> HIDE DEF Latest
  <2>3. Conversation => Conversation'
    <3> SUFFICES ASSUME Conversation PROVE Conversation'
      OBVIOUS
    <3>1. given' \in Nat /\ given' <= Latest /\ (stls = "on" => stx >= decr_seq')
      BY <2>1 DEF Conversation
    <3> QED BY <2>1, <2>2, <3>1, ConversationRead DEF Typing
  <2> QED BY <2>1, <2>3 DEF Talking, Live
<1>5. CASE on_moc_raw_resp
  <2>1. /\ Ep0!Spoilt \/ UNCHANGED ans
        /\ UNCHANGED <<inq, strict, stls, skeys, stx, keys, encr_seq>>
        /\ op = "command" /\ op' = "open" /\ wire # "idle"
    BY <1>5 DEF on_moc_raw_resp, ReadOk, ReadFails, Got, sensorVars
  <2>2. Conversation
    BY <2>1 DEF Talking, Live
  <2>3. Latest' = encr_seq - 1 /\ Latest = encr_seq - 1
    BY <2>1 DEF Latest
  <2>4. CASE UNCHANGED <<decr_seq, given>>
    <3>1. given' \in Nat /\ given' <= Latest /\ (stls = "on" => stx >= decr_seq') /\ Latest' = Latest
      BY <2>2, <2>3, <2>4 DEF Conversation
    <3> HIDE DEF Latest
    <3> QED BY <2>1, <2>2, <2>4, <3>1, ConversationRead DEF Typing, Talking
  <2>5. CASE /\ ReadOk /\ Decrypts /\ decr_seq' \in {decr_seq + 1, decr_seq + Reply.recs}
             /\ given' = given \/ (Reply.kind = "app" /\ given' = Reply.n)
    <3>1. /\ Ep0!Spoilt /\ ans # <<>> /\ Reply.seq = decr_seq /\ Reply.kind \in {"app", "alert"}
      BY <2>5 DEF ReadOk, Got, Decrypts
    <3>2. Reply = Nth(1) /\ 1 \in Around
      BY <3>1, ReplyTyped DEF Typing
    <3> HIDE DEF Reply
    <3>3. stls = "on" => Reply.seq + Reply.recs <= stx
      BY <2>2, <3>1, <3>2 DEF Conversation
    <3>4. Reply.recs \in Nat /\ Reply.recs >= 1
      BY <3>1, <3>2, AnswerTyped DEF Typing
    <3>5. stls = "on" => stx >= decr_seq'
      <4>1. decr_seq' <= decr_seq + Reply.recs /\ decr_seq' \in Nat
        BY <1>0, <2>5, <3>4
      <4> QED BY <1>0, <3>1, <3>3, <3>4, <4>1
    <3>6. Counts(1) <=> Reply.kind = "app"
      BY <3>1, <3>2 DEF Counts
    <3>7. given' \in Nat /\ given' <= Latest
      <4>1. CASE given' = given
        BY <2>2, <4>1 DEF Conversation
      <4>2. CASE Reply.kind = "app" /\ given' = Reply.n
        <5>1. given < Nth(1).n /\ Nth(1).n <= Latest /\ given \in Nat /\ Nth(1).n \in Int
          BY <2>2, <3>2, <3>6, <4>2, AnswerTyped DEF Conversation, Typing
        <5>2. given' = Nth(1).n
          BY <3>2, <4>2
        <5> QED BY <5>1, <5>2
      <4> QED BY <2>5, <4>1, <4>2
    <3>8. \/ given' = given
          \/ Ep0!Spoilt /\ 1 \in Around /\ Counts(1) /\ given' = Nth(1).n
      BY <2>5, <3>1, <3>2, <3>6
    <3>9. Latest' = Latest
      BY <2>3
    <3> HIDE DEF Latest
    <3> QED BY <2>1, <2>2, <3>5, <3>7, <3>8, <3>9, ConversationRead DEF Typing, Talking
  <2> QED BY <1>5, <2>4, <2>5 DEF on_moc_raw_resp, NextDecr
<1>6. CASE Sensor
  <2>0. op' = op
    BY <1>6 DEF Sensor, memory
  <2>1. CASE Drops
    <3>1. /\ Around' = Around /\ stls' = "off" /\ \A i : Nth(i)' = Nth(i)
          /\ UNCHANGED <<op, wire, keys, encr_seq, given>>
      BY <2>1, Keeping DEF Drops, Typing, memory, driverVars
    <3>2. Latest' = Latest
      BY <3>1 DEF Latest
    <3> HIDE DEF Latest
    <3> QED BY <3>1, <3>2 DEF Talking, Live, Conversation, Counts
  <2> QED BY <1>6, <2>0, <2>1, SensorSteps, ConversationAnswered DEF Talking, Live
<1>7. CASE UNCHANGED vars
  <2>1. UNCHANGED <<op, wire, keys, encr_seq, decr_seq, given, inq, ans, stls, skeys, stx>>
    BY <1>7 DEF vars, memory, driverVars, sensorVars
  <2>2. Around' = Around /\ Latest' = Latest /\ \A i : Nth(i)' = Nth(i)
    BY <2>1, Keeping DEF Typing, Latest
  <2> HIDE DEF Latest
  <2> QED BY <2>1, <2>2 DEF Talking, Live, Conversation, Counts
<1>8. CASE \/ dev_open \/ verimark_tls_close \/ Crash \/ verimark_open_fail \/ dev_close
           \/ verimark_pairing_do \/ verimark_pairing_save_file \/ verimark_resolve_sid_sync
           \/ hs_build_rt2
  <2>1. op' \notin {"open", "command"}
    BY <1>8 DEF dev_open, verimark_tls_close, Crash, verimark_open_fail, dev_close, Forget,
                verimark_pairing_do, verimark_pairing_save_file, verimark_resolve_sid_sync, LoadOrPair,
                hs_build_client_hello, hs_build_rt2
  <2> QED BY <2>1 DEF Talking, Live
<1> QED BY <1>1, <1>2, <1>3, <1>4, <1>5, <1>6, <1>7, <1>8 DEF Next, Driver

-----------------------------------------------------------------------------
(* The two ends agree as long as no command was lost *)

\* The two counters of each direction agree; nothing but parts of answers is around.
Level(asked) == stls = "on" => srx = asked /\ stx = decr_seq
AllResting == \A i \in Around : Resting(i)

\* A command is under way and none was lost: it is the only message, before it the
\* ends are level, after its answer the sensor is ahead by exactly that answer.
Asking ==
  /\ \A i \in Around :
       \/ Resting(i)
       \/ /\ i = Total /\ Nth(i).kind \in {"command", "app", "error"}
          /\ Counts(i) => Nth(i).n = encr_seq - 1
          /\ Nth(i).kind = "command" => Level(encr_seq - 1)
          /\ Nth(i).kind = "app" /\ stls = "on" => srx = encr_seq /\ stx = decr_seq + Nth(i).recs
  /\ stls = "on" => \/ srx = encr_seq - 1 /\ stx = decr_seq
                    \/ srx = encr_seq /\ stx > decr_seq

\* The counters of the ends agree whenever no command of the session was lost.
Agreeing ==
  /\ op = "open" /\ ~lost => AllResting /\ Level(encr_seq)
  /\ op = "command" /\ ~lost /\ wire = "idle" => AllResting /\ Level(encr_seq - 1)
  /\ op = "command" /\ ~lost /\ wire # "idle" => Asking

\* No step lets the ends fall out of step without a command being lost.
LEMMA AgreeingStep ==
  ASSUME Typing, Typing', Finishing, Talking, Agreeing, [Next]_vars
  PROVE  Agreeing'
<1> USE DEF Continue
<1>0. encr_seq \in Int /\ decr_seq \in Nat /\ stx \in Nat /\ srx \in Nat
  BY DEF Typing, Counters
<1>1. CASE hs_process_rt2
  <2>1. /\ op' = "open" /\ decr_seq' = decr_seq + 1 /\ UNCHANGED <<encr_seq, stls, stx, srx>>
    BY <1>1 DEF hs_process_rt2, NextDecr, sensorVars
  <2>2. /\ stls = "on" => srx = 1 /\ stx = 1
        /\ encr_seq = 1 /\ decr_seq = 0
        /\ AllResting'
    BY <1>1, Finished DEF AllResting
  <2>3. decr_seq' = 1
    BY <2>1, <2>2
  <2> QED BY <2>1, <2>2, <2>3 DEF Agreeing, Level
<1>2. CASE verimark_moc_send
  <2>1. /\ op = "open" /\ op' = "command" /\ wire' = "idle" /\ encr_seq' = encr_seq + 1
        /\ UNCHANGED <<lost, decr_seq, stls, stx, srx, inq, ans>>
    BY <1>2 DEF verimark_moc_send, sensorVars
  <2>2. Around' = Around /\ \A i : Nth(i)' = Nth(i)
    BY <2>1, Keeping DEF Typing
  <2>3. encr_seq' - 1 = encr_seq
    BY <1>0, <2>1
  <2> QED BY <2>1, <2>2, <2>3 DEF Agreeing, AllResting, Level, Resting
<1>3. CASE verimark_ctrl_write_sync
  <2>1. /\ wire = "idle" /\ wire' # "idle" /\ op # "open"
        /\ UNCHANGED <<op, lost, keys, encr_seq, decr_seq, stls, srx, stx>>
        /\ \A i \in Around' : (i = Total' /\ Nth(i)' = Outgoing) \/ (i \in Around /\ Nth(i)' = Nth(i))
    BY <1>3, Writing DEF driverVars, sensorVars, Sending
  <2>2. op = "command" => Outgoing.kind = "command" /\ Outgoing.n = encr_seq - 1
    BY OutgoingTyped DEF Typing, Sending
  <2> HIDE DEF Outgoing
  <2>3. CASE op = "command" /\ ~lost
    <3>1. AllResting /\ Level(encr_seq - 1)
      BY <2>1, <2>3 DEF Agreeing
    <3>2. \A i \in Around' : Resting(i)' \/ (i = Total' /\ Nth(i)' = Outgoing)
      BY <2>1, <3>1 DEF AllResting, Resting
    <3>3. Asking'
      BY <2>1, <2>2, <2>3, <3>1, <3>2 DEF Asking, Level, Counts
    <3> QED BY <2>1, <3>3 DEF Agreeing
  <2> QED BY <2>1, <2>3 DEF Agreeing
<1>4. CASE verimark_ctrl_read_sync
  <2>1. /\ Ep0!Spoilt /\ UNCHANGED <<op, wire, lost, encr_seq, decr_seq, inq, strict, stls, srx, stx>> /\ wire = "sent"
    BY <1>4 DEF verimark_ctrl_read_sync, memory, driverVars, sensorVars
  <2>2. CASE op = "command" /\ ~lost
    <3>1. Asking
      BY <2>1, <2>2 DEF Agreeing
    <3>2. \A i \in Around : i # Total => Resting(i)
      BY <3>1 DEF Asking
    <3>3. \A i \in Around' : Resting(i)' \/ (i = Total' /\ Total \in Around /\ Nth(i)' = Nth(Total))
      BY <2>1, <3>2, RestingRead DEF Typing
    <3>4. \A i \in Around' : Resting(i)' \/ (i = Total' /\ Total \in Around /\ Nth(i)' = Nth(Total) /\ ~Resting(Total))
      BY <3>3 DEF Resting
    <3>5. Asking'
      BY <2>1, <3>1, <3>4 DEF Asking, Level, Counts
    <3> QED BY <2>1, <2>2, <3>5 DEF Agreeing
  <2>3. op # "open"
    BY <2>1 DEF Typing, Phase
  <2> QED BY <2>1, <2>2, <2>3 DEF Agreeing
<1>5. CASE on_moc_raw_resp
  <2>1. /\ op = "command" /\ op' = "open" /\ wire # "idle" /\ UNCHANGED <<encr_seq, stls, srx, stx, inq, strict>>
    BY <1>5 DEF on_moc_raw_resp, ReadOk, ReadFails, Got, sensorVars
  <2>2. CASE lost'
    BY <2>1, <2>2 DEF Agreeing
  <2>3. CASE ~lost'
    <3>1. /\ ~lost /\ ReadOk /\ Decrypts /\ Reply.kind = "app" /\ decr_seq' = decr_seq + Reply.recs
      BY <1>5, <2>3 DEF on_moc_raw_resp, NextDecr
    <3>2. Ep0!Spoilt /\ ans # <<>>
      BY <3>1 DEF ReadOk, Got
    <3>3. Reply = Nth(1) /\ 1 \in Around
      BY <3>2, ReplyTyped DEF Typing
    <3> HIDE DEF Reply
    <3>4. Total = 1 /\ (stls = "on" => srx = encr_seq /\ stx = decr_seq + Reply.recs)
      BY <2>1, <3>1, <3>3 DEF Agreeing, Asking, Resting
    <3>5. AllResting'
      BY <2>1, <3>2, <3>4, LastRead DEF Typing, AllResting
    <3> QED BY <2>1, <3>1, <3>4, <3>5 DEF Agreeing, Level
  <2> QED BY <2>2, <2>3
<1>6. CASE Sensor
  <2>0. UNCHANGED <<op, wire, lost, encr_seq, decr_seq>>
    BY <1>6 DEF Sensor, memory, driverVars
  <2>1. CASE Drops
    <3>1. /\ Around' = Around /\ Total' = Total /\ stls' = "off" /\ \A i : Nth(i)' = Nth(i)
      BY <2>1, Keeping DEF Drops, Typing
    <3> QED BY <2>0, <3>1 DEF Agreeing, AllResting, Asking, Level, Resting, Counts
  <2>2. ASSUME NEW a \in Rpls, Executes(a), Live, ~lost PROVE Agreeing'
    <3>1. /\ Around' = Around /\ Total' = Total /\ Len(ans) + 1 \in Around /\ Command = Nth(Len(ans) + 1)
          /\ \A i \in Around : Nth(i)' = IF i = Len(ans) + 1 THEN a ELSE Nth(i)
      BY <2>2, Execution
    <3>2. /\ Command.kind = "command" /\ Counts(Len(ans) + 1)
          /\ a.kind \in {"error", "app", "alert"}
          /\ a.kind = "error" => UNCHANGED <<hosts, stls, skeys, srx, stx>>
          /\ a.kind # "error" => /\ stls = "on" /\ stls' = "on"
                                 /\ a.seq = stx /\ stx' = stx + a.recs /\ a.recs \in Nat /\ a.recs >= 1
          /\ a.kind = "app" => Command.n = srx /\ a.n = Command.n /\ srx' = srx + 1
          /\ a.kind = "alert" => Command.n # srx
      BY <2>2, ConversationExecutes DEF Talking
    <3> HIDE DEF Command
    <3>3. ~Resting(Len(ans) + 1)
      BY <3>1, <3>2 DEF Resting
    <3>4. op = "command" /\ wire # "idle" /\ Asking
      BY <2>2, <3>1, <3>3 DEF Agreeing, AllResting, Live
    <3>5. Len(ans) + 1 = Total /\ Command.n = encr_seq - 1 /\ (stls = "on" => srx = encr_seq - 1 /\ stx = decr_seq)
      BY <3>1, <3>2, <3>3, <3>4 DEF Asking, Level
    <3>6. a.kind # "alert"
      BY <3>2, <3>5
    <3>7. a.kind = "app" => /\ a.n = encr_seq - 1 /\ srx' = encr_seq /\ stx' = decr_seq + a.recs /\ stx' > decr_seq
      BY <1>0, <3>2, <3>5
    <3>8. \A i \in Around : i # Total => Resting(i)
      BY <3>4 DEF Asking
    <3>9. \A i \in Around' : Resting(i)' \/ (i = Total' /\ Nth(i)' = a)
      BY <3>1, <3>5, <3>8 DEF Resting
    <3>10. Asking'
      <4>1. CASE a.kind = "error"
        BY <2>0, <3>2, <3>4, <3>9, <4>1 DEF Asking, Counts
      <4>2. CASE a.kind = "app"
        BY <2>0, <3>2, <3>7, <3>9, <4>2 DEF Asking, Counts
      <4> QED BY <3>2, <3>6, <4>1, <4>2
    <3> QED BY <2>0, <3>4, <3>10 DEF Agreeing
  <2>3. ~Live \/ lost => Agreeing'
    BY <2>0 DEF Agreeing, Live
  <2> QED BY <1>6, <2>1, <2>2, <2>3, SensorSteps
<1>7. CASE UNCHANGED vars
  <2>1. UNCHANGED <<op, wire, lost, encr_seq, decr_seq, inq, ans, stls, srx, stx>>
    BY <1>7 DEF vars, memory, driverVars, sensorVars
  <2>2. Around' = Around /\ Total' = Total /\ \A i : Nth(i)' = Nth(i)
    BY <2>1, Keeping DEF Typing
  <2> QED BY <2>1, <2>2 DEF Agreeing, AllResting, Asking, Level, Resting, Counts
<1>8. CASE \/ dev_open \/ verimark_tls_close \/ Crash \/ verimark_open_fail \/ dev_close
           \/ verimark_pairing_do \/ verimark_pairing_save_file \/ verimark_resolve_sid_sync
           \/ hs_build_rt2
  <2>1. op' \notin {"open", "command"}
    BY <1>8 DEF dev_open, verimark_tls_close, Crash, verimark_open_fail, dev_close, Forget,
                verimark_pairing_do, verimark_pairing_save_file, verimark_resolve_sid_sync, LoadOrPair,
                hs_build_client_hello, hs_build_rt2
  <2> QED BY <2>1 DEF Agreeing
<1> QED BY <1>1, <1>2, <1>3, <1>4, <1>5, <1>6, <1>7, <1>8 DEF Next, Driver

-----------------------------------------------------------------------------
(* What was lost, with a sensor that throws unread answers away *)

\* With a strict sensor only the current command or its answer is around; once a
\* command was lost its answer has a record number the driver does not expect.
StrictAsking ==
  \A i \in Around :
    /\ Counts(i) => Nth(i).n = encr_seq - 1
    /\ lost /\ Nth(i).kind = "app" => Nth(i).seq > decr_seq
    /\ lost /\ Nth(i).kind = "alert" /\ Nth(i).seq = decr_seq /\ stls = "on" => srx < encr_seq - 1

\* With a strict sensor the ends never meet again once a command was lost.
StrictLoss ==
  strict =>
    /\ op = "open" /\ lost /\ stls = "on" => srx < encr_seq \/ stx > decr_seq
    /\ op = "command" /\ lost /\ stls = "on" => srx < encr_seq - 1 \/ stx > decr_seq
    /\ op = "command" /\ wire = "sent" => StrictAsking

\* No step brings a strict sensor and the driver back in step.
LEMMA StrictLossStep ==
  ASSUME Typing, Typing', Talking, Agreeing, StrictLoss, [Next]_vars
  PROVE  StrictLoss'
<1> USE DEF Continue
<1>0. encr_seq \in Int /\ decr_seq \in Nat /\ stx \in Nat /\ srx \in Nat
  BY DEF Typing, Counters
<1>00. strict' = strict
  BY DEF Next, Driver, vars, dev_open, verimark_moc_send, verimark_tls_close, verimark_ctrl_write_sync,
         verimark_ctrl_read_sync, verimark_resolve_sid_sync, verimark_pairing_do, verimark_pairing_save_file,
         hs_build_rt2, hs_process_rt2, verimark_open_fail, on_moc_raw_resp, dev_close, Crash, Sensor
<1> SUFFICES ASSUME strict PROVE StrictLoss'
  BY <1>00 DEF StrictLoss
<1>1. CASE hs_process_rt2
  <2>1. op' = "open" /\ lost' = lost /\ op = "finish"
    BY <1>1 DEF hs_process_rt2
  <2>2. lost = FALSE
    BY <2>1 DEF Typing, Phase
  <2> QED BY <2>1, <2>2 DEF StrictLoss
<1>2. CASE verimark_moc_send
  <2>1. /\ op = "open" /\ op' = "command" /\ wire' = "idle" /\ encr_seq' = encr_seq + 1
        /\ UNCHANGED <<lost, decr_seq, stls, stx, srx>>
    BY <1>2 DEF verimark_moc_send, sensorVars
  <2>2. encr_seq' - 1 = encr_seq
    BY <1>0, <2>1
  <2> QED BY <2>1, <2>2 DEF StrictLoss
<1>3. CASE verimark_ctrl_write_sync
  <2>1. /\ op # "open" /\ UNCHANGED <<op, lost, encr_seq, decr_seq, stls, srx, stx>>
    BY <1>3, Writing DEF driverVars, sensorVars, Sending
  <2>2. CASE op = "command" /\ wire' = "sent"
    <3>1. \A i \in Around' : Nth(i)' = Outgoing
      BY <1>3, <2>2, StrictWriting
    <3>2. Outgoing.kind = "command" /\ Outgoing.n = encr_seq - 1
      BY <2>2, OutgoingTyped DEF Typing, Sending
    <3> HIDE DEF Outgoing
    <3>3. StrictAsking'
      BY <2>1, <3>1, <3>2 DEF StrictAsking, Counts
    <3> QED BY <2>1, <3>3 DEF StrictLoss
  <2> QED BY <2>1, <2>2 DEF StrictLoss
<1>4. CASE verimark_ctrl_read_sync
  <2>1. /\ Ep0!Spoilt /\ UNCHANGED <<op, wire, lost, encr_seq, decr_seq, inq, strict, stls, srx, stx>> /\ wire = "sent"
    BY <1>4 DEF verimark_ctrl_read_sync, memory, driverVars, sensorVars
  <2>2. \A i \in Around' : Nth(i)' = Rest \/ \E j \in Around : Nth(i)' = Nth(j)
    BY <2>1, Readings DEF NothingNew, Typing
  <2>3. Rest.kind = "rest"
    BY DEF Rest, Answer, Records
  <2> HIDE DEF Rest
  <2>4. CASE op = "command"
    <3>1. StrictAsking
      BY <2>1, <2>4 DEF StrictLoss
    <3>2. ASSUME NEW i \in Around'
          PROVE  /\ Counts(i)' => Nth(i)'.n = encr_seq - 1
                 /\ lost /\ Nth(i)'.kind = "app" => Nth(i)'.seq > decr_seq
                 /\ lost /\ Nth(i)'.kind = "alert" /\ Nth(i)'.seq = decr_seq /\ stls = "on" => srx < encr_seq - 1
      <4>1. CASE Nth(i)' = Rest
        BY <2>3, <4>1 DEF Counts
      <4>2. CASE \E j \in Around : Nth(i)' = Nth(j)
        BY <3>1, <4>2 DEF StrictAsking, Counts
      <4> QED BY <2>2, <4>1, <4>2
    <3>3. StrictAsking'
      BY <2>1, <3>2 DEF StrictAsking
    <3> QED BY <2>1, <3>3 DEF StrictLoss
  <2> QED BY <2>1, <2>4 DEF StrictLoss
<1>5. CASE on_moc_raw_resp
  <2>1. /\ op = "command" /\ op' = "open" /\ wire # "idle" /\ UNCHANGED <<encr_seq, stls, srx, stx>>
    BY <1>5 DEF on_moc_raw_resp, ReadOk, ReadFails, Got, sensorVars
  <2>2. lost \in BOOLEAN
    BY DEF Typing, Booleans
  <2> SUFFICES ASSUME lost', stls = "on" PROVE srx < encr_seq \/ stx > decr_seq'
    BY <2>1 DEF StrictLoss
  <2>3. CASE UNCHANGED decr_seq
    <3>1. CASE lost
      BY <1>0, <2>1, <2>3, <3>1 DEF StrictLoss
    <3>2. CASE ~lost
      BY <1>0, <2>1, <2>3, <3>2 DEF Agreeing, Asking
    <3> QED BY <3>1, <3>2
  <2>4. CASE /\ ReadOk /\ Decrypts
             /\ \/ Reply.recs > 1 /\ decr_seq' = decr_seq + 1
                \/ Reply.kind = "alert"
                \/ lost
    <3>1. /\ ans # <<>> /\ wire = "sent" /\ Reply.seq = decr_seq /\ Reply.kind \in {"app", "alert"}
      BY <2>4 DEF ReadOk, Got, Decrypts
    <3>2. Reply = Nth(1) /\ 1 \in Around
      BY <3>1, ReplyTyped DEF Typing
    <3> HIDE DEF Reply
    <3>3. CASE lost
      <4>1. Reply.kind = "app" => Reply.seq > decr_seq
        BY <2>1, <3>1, <3>2, <3>3 DEF StrictLoss, StrictAsking
      <4>2. Reply.kind = "alert"
        BY <1>0, <3>1, <4>1
      <4>3. srx < encr_seq - 1
        BY <2>1, <3>1, <3>2, <3>3, <4>2 DEF StrictLoss, StrictAsking
      <4> QED BY <1>0, <4>3
    <3>4. CASE ~lost
      <4>1. Reply.kind = "app" /\ stx = decr_seq + Reply.recs
        BY <2>1, <3>1, <3>2, <3>4 DEF Agreeing, Asking, Resting
      <4>2. Reply.recs > 1 /\ decr_seq' = decr_seq + 1
        BY <2>4, <3>4, <4>1
      <4>3. Reply.recs \in Nat
        BY <3>1, <3>2, AnswerTyped DEF Typing
      <4> QED BY <1>0, <4>1, <4>2, <4>3
    <3> QED BY <3>3, <3>4
  <2> QED BY <1>5, <2>3, <2>4 DEF on_moc_raw_resp, NextDecr
<1>6. CASE Sensor
  <2>0. UNCHANGED <<op, wire, lost, encr_seq, decr_seq>>
    BY <1>6 DEF Sensor, memory, driverVars
  <2>1. CASE Drops
    <3>1. /\ Around' = Around /\ stls' = "off" /\ \A i : Nth(i)' = Nth(i)
      BY <2>1, Keeping DEF Drops, Typing
    <3> QED BY <2>0, <3>1 DEF StrictLoss, StrictAsking, Counts
  <2>2. ASSUME NEW a \in Rpls, Executes(a), Live PROVE StrictLoss'
    <3>0. Conversation
      BY <2>2 DEF Talking
    <3>1. /\ Around' = Around /\ Len(ans) + 1 \in Around /\ Command = Nth(Len(ans) + 1)
          /\ \A i \in Around : Nth(i)' = IF i = Len(ans) + 1 THEN a ELSE Nth(i)
      BY <2>2, Execution
    <3>2. /\ Counts(Len(ans) + 1)
          /\ a.kind \in {"error", "app", "alert"}
          /\ a.kind = "error" => UNCHANGED <<hosts, stls, skeys, srx, stx>>
          /\ a.kind # "error" => /\ stls = "on" /\ stls' = "on"
                                 /\ a.seq = stx /\ stx' = stx + a.recs /\ a.recs \in Nat /\ a.recs >= 1
          /\ a.kind = "app" => Command.n = srx /\ a.n = Command.n /\ srx' = srx + 1
          /\ a.kind = "alert" => srx' = srx
      BY <2>2, <3>0, ConversationExecutes
    <3> HIDE DEF Command
    <3>3. a.kind # "error" => stx' > decr_seq
      BY <1>0, <3>0, <3>2 DEF Conversation
    <3>4. op = "open" /\ lost /\ stls' = "on" => srx' < encr_seq \/ stx' > decr_seq
      BY <3>2, <3>3 DEF StrictLoss
    <3>5. op = "command" /\ lost /\ stls' = "on" => srx' < encr_seq - 1 \/ stx' > decr_seq
      BY <3>2, <3>3 DEF StrictLoss
    <3>6. ASSUME op = "command", wire = "sent", NEW i \in Around
          PROVE  /\ Counts(i)' => Nth(i)'.n = encr_seq - 1
                 /\ lost /\ Nth(i)'.kind = "app" => Nth(i)'.seq > decr_seq
                 /\ lost /\ Nth(i)'.kind = "alert" /\ Nth(i)'.seq = decr_seq /\ stls' = "on" => srx' < encr_seq - 1
      <4>0. StrictAsking /\ Command.n = encr_seq - 1
        BY <3>1, <3>2, <3>6 DEF StrictLoss, StrictAsking
      <4>1. CASE i = Len(ans) + 1
        <5>0. Nth(i)' = a
          BY <3>1, <4>1
        <5>1. Counts(i)' => Nth(i)'.n = encr_seq - 1
          BY <3>2, <4>0, <5>0 DEF Counts
        <5>2. lost /\ stls = "on" => srx < encr_seq - 1 \/ stx > decr_seq
          BY <3>6 DEF StrictLoss
        <5>3. lost /\ a.kind = "app" => a.seq > decr_seq
          BY <1>0, <3>2, <4>0, <5>2
        <5>4. lost /\ a.kind = "alert" /\ a.seq = decr_seq => srx' < encr_seq - 1
          BY <1>0, <3>2, <5>2
        <5> QED BY <5>0, <5>1, <5>3, <5>4
      <4>2. CASE i # Len(ans) + 1
        <5>0. Nth(i)' = Nth(i)
          BY <3>1, <4>2
        <5>1. /\ Counts(i) => Nth(i).n = encr_seq - 1
              /\ lost /\ Nth(i).kind = "app" => Nth(i).seq > decr_seq
              /\ lost /\ Nth(i).kind = "alert" /\ Nth(i).seq = decr_seq /\ stls = "on" => srx < encr_seq - 1
          BY <4>0 DEF StrictAsking
        <5>2. lost /\ Nth(i).kind = "alert" /\ Nth(i).seq = decr_seq /\ stls' = "on" => srx' < encr_seq - 1
          <6> SUFFICES ASSUME lost, Nth(i).kind = "alert", Nth(i).seq = decr_seq, stls' = "on"
                       PROVE  srx' < encr_seq - 1
            OBVIOUS
          <6>1. stls = "on"
            BY <3>2
          <6>2. srx < encr_seq - 1
            BY <5>1, <6>1
          <6>3. a.kind # "app"
            BY <1>0, <3>2, <4>0, <6>2
          <6> QED BY <3>2, <6>2, <6>3
        <5> QED BY <5>0, <5>1, <5>2 DEF Counts
      <4> QED BY <4>1, <4>2
    <3>7. op' = "command" /\ wire' = "sent" => StrictAsking'
      BY <2>0, <3>1, <3>6 DEF StrictAsking
    <3> QED BY <2>0, <3>4, <3>5, <3>7 DEF StrictLoss
  <2>3. ~Live => StrictLoss'
    BY <2>0 DEF StrictLoss, Live
  <2> QED BY <1>6, <2>1, <2>2, <2>3, SensorSteps
<1>7. CASE UNCHANGED vars
  <2>1. UNCHANGED <<op, wire, lost, encr_seq, decr_seq, inq, ans, stls, srx, stx>>
    BY <1>7 DEF vars, memory, driverVars, sensorVars
  <2>2. Around' = Around /\ \A i : Nth(i)' = Nth(i)
    BY <2>1, Keeping DEF Typing
  <2> QED BY <2>1, <2>2 DEF StrictLoss, StrictAsking, Counts
<1>8. CASE \/ dev_open \/ verimark_tls_close \/ Crash \/ verimark_open_fail \/ dev_close
           \/ verimark_pairing_do \/ verimark_pairing_save_file \/ verimark_resolve_sid_sync
           \/ hs_build_rt2
  <2>1. op' \notin {"open", "command"}
    BY <1>8 DEF dev_open, verimark_tls_close, Crash, verimark_open_fail, dev_close, Forget,
                verimark_pairing_do, verimark_pairing_save_file, verimark_resolve_sid_sync, LoadOrPair,
                hs_build_client_hello, hs_build_rt2
  <2> QED BY <2>1 DEF StrictLoss
<1> QED BY <1>1, <1>2, <1>3, <1>4, <1>5, <1>6, <1>7, <1>8 DEF Next, Driver

-----------------------------------------------------------------------------
(* The inductive invariant *)

\* The last answer given has the number of a command.
GivenBounded == given \in 0..MaxSeq

\* The whole invariant: types and bounds, the pairing file and the pairing, the
\* handshake, the conversation.
IInv == /\ Typing /\ GivenBounded /\ Counted
        /\ Filing /\ StrictPairing /\ StoredIsAccepted
        /\ Fresh /\ Hello /\ Finishing
        /\ Talking /\ Agreeing /\ StrictLoss

\* No step gives an answer to a command that was not written.
LEMMA GivenStep ==
  ASSUME Typing, Typing', Talking', GivenBounded, [Next]_vars
  PROVE  GivenBounded'
<1>1. CASE Live'
  <2>1. given' \in Nat /\ given' <= Latest'
    BY <1>1 DEF Talking, Conversation
  <2>2. encr_seq' \in Nat /\ encr_seq' <= MaxSeq /\ MaxSeq \in Nat
    BY <1>1, SessionBounds DEF Typing, Counters, Phase, Live
  <2>3. Latest' = encr_seq' - 2 \/ Latest' = encr_seq' - 1
    BY DEF Latest
  <2>4. Latest' <= MaxSeq /\ Latest' \in Int
    BY <2>2, <2>3
  <2> QED BY <2>1, <2>2, <2>4 DEF GivenBounded
<1>2. CASE op' \notin {"open", "command", "close"}
  <2>1. given' = 0
    BY <1>2 DEF Typing, Phase
  <2> QED BY <2>1, SessionBounds DEF GivenBounded
<1>3. CASE op' = "close"
  <2>1. given' = given
    BY <1>3 DEF Next, Driver, vars, memory, dev_open, verimark_moc_send, verimark_tls_close,
           verimark_ctrl_write_sync, verimark_ctrl_read_sync, verimark_resolve_sid_sync, verimark_pairing_do,
           verimark_pairing_save_file, hs_build_rt2, hs_process_rt2, verimark_open_fail, on_moc_raw_resp,
           dev_close, Crash, Sensor, Forget, Continue, LoadOrPair, hs_build_client_hello
  <2> QED BY <2>1 DEF GivenBounded
<1> QED BY <1>1, <1>2, <1>3 DEF Live

\* Nothing is around when the driver is loaded.
LEMMA InitInvariant ==
  ASSUME Init
  PROVE  IInv
<1> USE DEF Init
<1>1. Around = {} /\ Len(ans) = 0 /\ Len(inq) = 0
  BY DEF Around, Total
<1>2. Queues
  BY <1>1, SessionBounds DEF Queues
<1>3. Scalars
  <2>1. op \in Ops /\ wire \in {"idle", "sent", "failed"} /\ stls \in {"off", "hello", "on"}
    BY DEF Ops
  <2>2. random \in Randoms /\ keys \in Keys /\ skeys \in Keys
    BY SessionBounds DEF Keys, Randoms
  <2>3. generated \in 0..MaxPairs /\ hosts \subseteq 1..MaxPairs
    BY SessionBounds
  <2>4. file \in [Sids -> Credentials \cup {Absent, Short}]
    BY DEF Absent
  <2> QED BY <2>1, <2>2, <2>3, <2>4 DEF Scalars
<1>4. Counters /\ Booleans
  <2>1. encr_seq = 0 /\ decr_seq = 0 /\ srx = 0 /\ stx = 0 /\ lost = FALSE /\ strict \in BOOLEAN
    OBVIOUS
  <2> HIDE DEF Init
  <2>2. Counters
    BY <2>1, SessionBounds DEF Counters
  <2>3. Booleans
    BY <2>1 DEF Booleans
  <2> QED BY <2>2, <2>3
<1>5. Messages /\ Phase
  BY <1>1 DEF Messages, Phase, Established
<1>6. Typing
  BY <1>2, <1>3, <1>4, <1>5 DEF Typing
<1>7. GivenBounded /\ Counted /\ Filing
  BY SessionBounds DEF GivenBounded, Counted, Filing
<1>8. StrictPairing /\ StoredIsAccepted
  BY SessionBounds DEF StrictPairing, StoredIsAccepted, Pairing, Saving, Credentials, Absent, Mixed
<1>9. Fresh /\ Hello /\ Finishing
  BY <1>1 DEF Fresh, Hello, Finishing
<1>10. Talking /\ Agreeing /\ StrictLoss
  BY DEF Talking, Live, Agreeing, StrictLoss
<1> QED BY <1>6, <1>7, <1>8, <1>9, <1>10 DEF IInv

\* Every step keeps every part of the invariant.
LEMMA StepInvariant ==
  ASSUME IInv, [Next]_vars
  PROVE  IInv'
<1>1. Typing'
  BY TypingStep DEF IInv
<1>2. Counted' /\ Filing' /\ StrictPairing' /\ StoredIsAccepted'
  BY <1>1, CountedStep, FilingStep, StrictPairingStep DEF IInv
<1>3. Fresh' /\ Hello' /\ Finishing'
  BY <1>1, FreshStep, HelloStep, FinishingStep DEF IInv
<1>4. Talking' /\ Agreeing' /\ StrictLoss'
  BY <1>1, TalkingStep, AgreeingStep, StrictLossStep DEF IInv
<1>5. GivenBounded'
  BY <1>1, <1>4, GivenStep DEF IInv
<1> QED BY <1>1, <1>2, <1>3, <1>4, <1>5 DEF IInv

-----------------------------------------------------------------------------
(* The theorems *)

\* Every state the driver and its sensor reach satisfies the invariant.
THEOREM Invariance == Spec => []IInv
<1>1. Init => IInv
  BY InitInvariant
<1>2. IInv /\ [Next]_vars => IInv'
  BY StepInvariant
<1> QED BY <1>1, <1>2, PTL DEF Spec

\* The type invariant: the phases, the keys and the files are what they should be,
\* the sensor holds no more than its queue, and the counters of verimark-tls.c stay
\* within the records the session has asked for.
THEOREM TypeCorrect == Spec => []TypeOK
<1>1. IInv => TypeOK
  <2> SUFFICES ASSUME IInv PROVE TypeOK
    OBVIOUS
  <2>1. decr_seq \in 0..MaxSeq * MaxRecords
    BY CountedBound DEF IInv
  <2>2. Scalars /\ Counters /\ Booleans /\ Queues /\ given \in 0..MaxSeq
    BY DEF IInv, Typing, GivenBounded
  <2>3. /\ op \in Ops /\ wire \in {"idle", "sent", "failed"}
        /\ sid \in IF op \in {"closed", "version"} THEN {NoSid} ELSE Sids
        /\ pd \in IF op \in {"closed", "version", "pair"} THEN {NoPd} ELSE Credentials
        /\ random \in Randoms /\ keys \in Randoms \cup {NoKeys}
        /\ generated \in 0..MaxPairs
        /\ file \in [Sids -> Credentials \cup {Absent, Short}]
        /\ hosts \subseteq 1..MaxPairs
        /\ stls \in {"off", "hello", "on"} /\ skeys \in Randoms \cup {NoKeys}
    BY <2>2 DEF Scalars, Keys
  <2>4. /\ inq \in Seq([kind : Sending, key : Randoms \cup {NoKeys}, n : Int])
        /\ ans \in Seq([kind : AnswerKinds, key : Randoms \cup {NoKeys}, seq : Nat, n : Int,
                       recs : 1..MaxRecords])
        /\ Len(inq) + Len(ans) <= QueueSize
    BY <2>2 DEF Queues, Keys, Cmds, Rpls
  <2>5. encr_seq \in 0..MaxSeq + 1 /\ srx \in Nat /\ stx \in Nat
    BY <2>2 DEF Counters
  <2>6. lost \in BOOLEAN /\ strict \in BOOLEAN
    BY <2>2 DEF Booleans
  <2> QED BY <2>1, <2>2, <2>3, <2>4, <2>5, <2>6 DEF TypeOK
<1> QED BY <1>1, Invariance, PTL

\* A pairing that was saved is never overwritten or lost, whatever fails after it:
\* verimark_resolve_sid_sync pairs only when there is no file, and the file that
\* verimark_pairing_save_file then creates and writes is that sensor's.
THEOREM PairingsKept == Spec => PairingKept
<1>1. IInv /\ [Next]_vars => [\A s \in Sids : file[s] \in Credentials => file'[s] = file[s]]_vars
  BY FilingStep DEF IInv
<1> QED BY <1>1, Invariance, PTL DEF Spec, PairingKept

\* What the pairing files of a strict sensor hold was accepted by it, under the
\* sensor id it has: a pairing whose answer was lost is not saved.
THEOREM StoredAccepted == Spec => []StoredIsAccepted
<1>1. IInv => StoredIsAccepted
  BY DEF IInv
<1> QED BY <1>1, Invariance, PTL

\* When dev_open succeeds the sensor has derived the same session keys and has
\* accepted the credential in use: no answer of an earlier open passes for the
\* answer of this handshake (hs_process_rt2).
THEOREM OpensAuthenticated == Spec => OpenAuthenticated
<1>1. IInv /\ [Next]_vars => [op = "finish" /\ op' = "open" => skeys' = keys' /\ pd' \in hosts']_vars
  BY OpenStep DEF IInv
<1> QED BY <1>1, Invariance, PTL DEF Spec, OpenAuthenticated

\* While no command of a session was lost, driver and sensor agree on both sequence
\* numbers (encr_seq and decr_seq of verimark-tls.c).
THEOREM StaysInStep == Spec => []InStep
<1>1. IInv => InStep
  BY DEF IInv, Agreeing, Level, InStep
<1> QED BY <1>1, Invariance, PTL

\* What leaves the session alone, or is outside of one, does not show in the channel.
LEMMA ChannelStutters ==
  ASSUME \/ UNCHANGED <<op, encr_seq, given, lost, strict>>
         \/ ~Live /\ ~Live' /\ UNCHANGED strict
  PROVE  UNCHANGED Channel!channelVars
<1>1. CASE UNCHANGED <<op, encr_seq, given, lost, strict>>
  BY <1>1 DEF Channel!channelVars, Live
<1>2. CASE ~Live /\ ~Live' /\ UNCHANGED strict
  BY <1>2 DEF Channel!channelVars, Live
<1> QED BY <1>1, <1>2

\* Every step of the session is a step of the channel or does not show in it.
LEMMA ChannelStep ==
  ASSUME IInv, IInv', [Next]_vars
  PROVE  [Channel!Next]_(Channel!channelVars)
<1> USE DEF Continue
<1>0. encr_seq \in Nat /\ lost \in BOOLEAN /\ lost' \in BOOLEAN
  BY DEF IInv, Typing, Counters, Booleans
<1>1. CASE hs_process_rt2
  <2>1. op = "finish" /\ op' = "open" /\ UNCHANGED <<encr_seq, given, lost, strict>>
    BY <1>1 DEF hs_process_rt2
  <2>2. encr_seq = 1 /\ given = 0 /\ lost = FALSE
    BY <1>1, Finished DEF IInv
  <2>3. Channel!Up
    BY <2>1, <2>2 DEF Channel!Up, Live
  <2> QED BY <2>3 DEF Channel!Next
<1>2. CASE verimark_moc_send
  <2>1. /\ op = "open" /\ op' = "command" /\ encr_seq < MaxSeq /\ encr_seq' = encr_seq + 1
        /\ UNCHANGED <<given, lost, strict>>
    BY <1>2 DEF verimark_moc_send
  <2>2. encr_seq - 1 < MaxSeq /\ encr_seq' - 1 = (encr_seq - 1) + 1
    BY <1>0, <2>1, SessionBounds
  <2>3. Channel!Ask
    BY <2>1, <2>2 DEF Channel!Ask, Live
  <2> QED BY <2>3 DEF Channel!Next
<1>3. CASE on_moc_raw_resp
  <2>1. op = "command" /\ op' = "open" /\ UNCHANGED <<encr_seq, strict>> /\ wire # "idle"
    BY <1>3 DEF on_moc_raw_resp, ReadFails, ReadOk, Got
  <2>2. CASE lost' = TRUE /\ UNCHANGED given
    <3>1. Channel!Lose
      BY <2>1, <2>2 DEF Channel!Lose, Live
    <3> QED BY <3>1 DEF Channel!Next
  <2>3. CASE ReadOk /\ Decrypts /\ Reply.kind = "app" /\ given' = Reply.n /\ UNCHANGED lost
    <3>1. wire = "sent" /\ ans # <<>> /\ Reply.seq = decr_seq
      BY <2>3 DEF ReadOk, Got, Decrypts
    <3>2. Reply = Nth(1) /\ 1 \in Around
      BY <3>1, ReplyTyped DEF IInv, Typing
    <3> HIDE DEF Reply
    <3>3. given < Reply.n /\ Reply.n <= encr_seq - 1 /\ Reply.n \in Int /\ given \in Nat
      <4>1. Conversation /\ Latest = encr_seq - 1
        BY <2>1 DEF IInv, Talking, Live, Latest
      <4>2. Nth(1).n \in Int
        BY <3>2, AnswerTyped DEF IInv, Typing
      <4> QED BY <2>3, <3>2, <4>1, <4>2 DEF Conversation, Counts
    <3>4. strict => ~lost /\ Reply.n = encr_seq - 1
      <4> SUFFICES ASSUME strict PROVE ~lost /\ Reply.n = encr_seq - 1
        OBVIOUS
      <4>1. StrictAsking
        BY <2>1, <3>1 DEF IInv, StrictLoss
      <4>2. ~(Reply.seq > decr_seq)
        BY <3>1 DEF IInv, Typing, Counters
      <4> QED BY <2>3, <3>2, <4>1, <4>2 DEF StrictAsking, Counts
    <3>5. Reply.n \in given + 1 .. encr_seq - 1
      BY <1>0, <3>3
    <3>6. Channel!Give
      BY <2>1, <2>3, <3>4, <3>5 DEF Channel!Give, Live
    <3> QED BY <3>6 DEF Channel!Next
  <2> QED BY <1>3, <2>2, <2>3 DEF on_moc_raw_resp
<1>4. CASE verimark_tls_close \/ Crash
  <2>1. op' \in {"close", "closed"} /\ strict' = strict
    BY <1>4 DEF verimark_tls_close, Crash, Forget
  <2>2. CASE Live
    <3>1. Channel!Down
      BY <2>1, <2>2 DEF Channel!Down, Live
    <3> QED BY <3>1 DEF Channel!Next
  <2>3. CASE ~Live
    BY <2>1, <2>3, ChannelStutters DEF Live
  <2> QED BY <2>2, <2>3
<1>5. CASE Sensor \/ verimark_ctrl_write_sync \/ verimark_ctrl_read_sync \/ UNCHANGED vars
  <2>1. UNCHANGED <<op, encr_seq, given, lost, strict>>
    BY <1>5 DEF Sensor, verimark_ctrl_write_sync, verimark_ctrl_read_sync, vars, memory, driverVars
  <2> QED BY <2>1, ChannelStutters
<1>6. CASE \/ dev_open \/ verimark_open_fail \/ dev_close \/ verimark_resolve_sid_sync
           \/ verimark_pairing_do \/ verimark_pairing_save_file \/ hs_build_rt2
  <2>1. op \notin {"open", "command"} /\ op' \notin {"open", "command"} /\ strict' = strict
    BY <1>6 DEF dev_open, verimark_open_fail, dev_close, Forget, verimark_resolve_sid_sync, LoadOrPair,
         hs_build_client_hello, verimark_pairing_do, verimark_pairing_save_file, hs_build_rt2, Opening
  <2> QED BY <2>1, ChannelStutters DEF Live
<1> QED BY <1>1, <1>2, <1>3, <1>4, <1>5, <1>6 DEF Next, Driver

\* The session is a command channel: answers are given in the order of the
\* commands, each at most once and to a command that was asked, and with a strict
\* sensor to the last command and never after a loss.
THEOREM ContractKept == Spec => Contract
<1>1. Init => Channel!Init
  BY DEF Init, Channel!Init, Live
<1>2. IInv /\ IInv' /\ [Next]_vars => [Channel!Next]_(Channel!channelVars)
  BY ChannelStep
<1> QED BY <1>1, <1>2, Invariance, PTL DEF Spec, Contract, Channel!Spec

\* What CommandChannel's promises say together, of this channel.
Promises == INSTANCE CommandChannelProofs WITH
  MaxAsked <- MaxSeq,
  state    <- CASE op = "open" -> "up" [] op = "command" -> "asking" [] OTHER -> "down",
  asked    <- IF Live THEN encr_seq - 1 ELSE 0,
  given    <- IF Live THEN given ELSE 0,
  lost     <- Live /\ lost

\* So an operation that has seen none of its session's commands fail may take every
\* answer for its own, also with a sensor that keeps unread answers
\* (verimark_moc_send, on_moc_raw_resp).
THEOREM AnswersAreOwn == Spec => Channel!AnswersOwn
<1>1. Contract => Channel!AnswersOwn
  BY Promises!AnswersAreOwn DEF Contract, Channel!Spec, Promises!Spec, Channel!AnswersOwn, Promises!AnswersOwn,
     Channel!Init, Promises!Init, Channel!Next, Promises!Next, Channel!channelVars, Promises!channelVars,
     Channel!Give, Promises!Give, Channel!Up, Promises!Up, Channel!Ask, Promises!Ask, Channel!Lose,
     Promises!Lose, Channel!Down, Promises!Down
<1> QED BY <1>1, ContractKept

-----------------------------------------------------------------------------
(* A call runs out of steps *)

\* What is left of each call.
LEMMA StagesLeftAre ==
  /\ StagesLeft["closed"] = 0 /\ StagesLeft["open"] = 0 /\ StagesLeft["command"] = 1
  /\ StagesLeft["close"] = 1 /\ StagesLeft["finish"] = 1 /\ StagesLeft["hello"] = 2
  /\ StagesLeft["save_write"] = 3 /\ StagesLeft["save_open"] = 4 /\ StagesLeft["pair"] = 5
  /\ StagesLeft["version"] = 6
BY DEF StagesLeft

\* What a round trip may still take: its write is more than any read, and a read
\* is bounded by what the sensor holds.
Whole == 3 * QueueSize + 2
TripBounds ==
  /\ Pending \in 0..3 * QueueSize
  /\ TripLeft \in 1..Whole
  /\ StagesLeft[op] \in 0..6

LEMMA TripIsBounded == Typing => TripBounds
<1> SUFFICES ASSUME Typing PROVE TripBounds
  OBVIOUS
<1>1. QueueSize \in Nat /\ Len(inq) \in Nat /\ Len(ans) \in Nat /\ Len(inq) + Len(ans) <= QueueSize
  BY SessionBounds DEF Typing, Queues
<1>2. ans # <<>> => Len(ans) >= 1
  BY DEF Typing, Queues
<1>3. Pending \in 0..3 * QueueSize
  BY <1>1, <1>2 DEF Pending
<1>4. wire \in {"idle", "sent", "failed"}
  BY DEF Typing, Scalars
<1>5. TripLeft \in 1..Whole
  <2> HIDE DEF Pending
  <2> QED BY <1>1, <1>3, <1>4 DEF TripLeft, Whole
<1>6. StagesLeft[op] \in 0..6
  BY StagesLeftAre DEF Typing, Scalars, Ops, Opening
<1> QED BY <1>3, <1>5, <1>6 DEF TripBounds

\* A stage and all of its round trip are less than a stage more.
LEMMA StageIsTrip ==
  ASSUME NEW a \in 1..6, NEW b \in 1..6, a < b, NEW k \in Nat, NEW t \in Nat, t >= 1
  PROVE  /\ (b - 1) * k + t \in Nat
         /\ (a - 1) * k + k \in 0..((b - 1) * k + t) - 1
<1> DEFINE c == a - 1
           e == b - 1 - a
<1>1. c \in Nat /\ e \in Nat /\ b - 1 = c + 1 + e /\ a - 1 = c
  OBVIOUS
<1> HIDE DEF c, e
<1>2. (c + 1 + e) * k = c * k + k + e * k /\ c * k \in Nat /\ e * k \in Nat
  BY <1>1
<1> QED BY <1>1, <1>2

\* The next stage of a call, or its end, is less than any part of this one.
LEMMA StageRunsOut ==
  ASSUME TripBounds, TripBounds', StagesLeft[op] # 0,
         wire' = "idle", StagesLeft[op'] < StagesLeft[op]
  PROVE  StepsLeft' \in 0..StepsLeft - 1
<1> DEFINE b == StagesLeft[op]
           a == StagesLeft[op']
           t == TripLeft
<1>0. Whole \in Nat /\ Whole = 3 * QueueSize + 2
  BY SessionBounds DEF Whole
<1>1. a \in 0..6 /\ b \in 1..6 /\ t \in Nat /\ t >= 1 /\ a < b
  BY <1>0, StagesLeftAre DEF TripBounds
<1>2. TripLeft' = Whole
  BY DEF TripLeft, Whole
<1>3. /\ StepsLeft = (b - 1) * Whole + t
      /\ StepsLeft' = IF a = 0 THEN 0 ELSE (a - 1) * Whole + Whole
  BY <1>0, <1>2 DEF StepsLeft
<1> HIDE DEF a, b, t, Whole
<1>4. CASE a = 0
  <2>1. (b - 1) * Whole \in Nat
    BY <1>0, <1>1
  <2> QED BY <1>1, <1>3, <1>4, <2>1
<1>5. CASE a # 0
  <2>1. a \in 1..6
    BY <1>1, <1>5
  <2>2. (b - 1) * Whole + t \in Nat /\ (a - 1) * Whole + Whole \in 0..((b - 1) * Whole + t) - 1
    BY <1>0, <1>1, <2>1, StageIsTrip
  <2> DEFINE m == (b - 1) * Whole + t
             n == (a - 1) * Whole + Whole
  <2>3. StepsLeft = m /\ StepsLeft' = n
    BY <1>3, <1>5, Zenon
  <2>4. m \in Nat /\ n \in 0..m - 1
    BY <2>2, Zenon
  <2> HIDE DEF m, n
  <2> QED BY <2>3, <2>4
<1> QED BY <1>4, <1>5

\* Within a stage, less of the round trip is less of the call.
LEMMA TripRunsOut ==
  ASSUME TripBounds, TripBounds', op' = op
  PROVE  /\ TripLeft' <= TripLeft => StepsLeft' \in 0..StepsLeft
         /\ StagesLeft[op] # 0 /\ TripLeft' < TripLeft => StepsLeft' \in 0..StepsLeft - 1
<1> DEFINE b == StagesLeft[op]
           t == TripLeft
           u == TripLeft'
<1>0. Whole \in Nat /\ Whole = 3 * QueueSize + 2
  BY SessionBounds DEF Whole
<1>1. b \in 0..6 /\ t \in Nat /\ u \in Nat
  BY <1>0 DEF TripBounds
<1>2. /\ StepsLeft = IF b = 0 THEN 0 ELSE (b - 1) * Whole + t
      /\ StepsLeft' = IF b = 0 THEN 0 ELSE (b - 1) * Whole + u
  BY <1>0 DEF StepsLeft
<1>3. b # 0 => (b - 1) * Whole \in Nat
  BY <1>0, <1>1
<1>4. /\ u <= t => StepsLeft' \in 0..StepsLeft
      /\ b # 0 /\ u < t => StepsLeft' \in 0..StepsLeft - 1
  <2> HIDE DEF b, t, u, Whole
  <2> QED BY <1>1, <1>2, <1>3
<1> QED BY <1>4

\* A read that spoils an answer, and is not a stutter, leaves less to spoil.
LEMMA SpoilingRunsOut ==
  ASSUME Typing, Ep0!Spoilt, inq' = inq, ans' # ans
  PROVE  Pending' < Pending
<1>1. ans # <<>> /\ ans' \in {Tail(ans), <<Rest>> \o Tail(ans)}
  BY DEF Ep0!Spoilt
<1>2. /\ ans \in Seq(Rpls) /\ Len(ans) \in Nat /\ Len(ans) >= 1 /\ Head(ans) = ans[1] /\ Len(inq) \in Nat
      /\ Tail(ans) \in Seq(Rpls) /\ Len(Tail(ans)) = Len(ans) - 1
      /\ \A i \in 1..Len(ans) - 1 : Tail(ans)[i] = ans[i + 1]
  BY <1>1 DEF Typing, Queues
<1>3. Pending >= 3 * Len(inq) + 2 * Len(ans) - 1 /\ Pending \in Int
  BY <1>2 DEF Pending
<1>4. CASE ans' = Tail(ans)
  <2>1. Len(ans') = Len(ans) - 1
    BY <1>2, <1>4
  <2>2. Pending' <= 3 * Len(inq) + 2 * Len(ans') /\ Pending' \in Int
    BY <1>2, <2>1 DEF Pending
  <2> QED BY <1>2, <1>3, <2>1, <2>2
<1>5. CASE ans' = <<Rest>> \o Tail(ans)
  <2>1. /\ ans' \in Seq(Rpls) /\ Len(ans') = Len(ans) /\ ans'[1] = Rest
        /\ \A i \in 2..Len(ans) : ans'[i] = ans[i]
    <3> DEFINE t == Tail(ans)
               u == <<Rest>>
    <3>1. u \in Seq(Rpls) /\ Len(u) = 1 /\ u[1] = Rest
      BY RestTyped
    <3>2. t \in Seq(Rpls) /\ Len(t) = Len(ans) - 1 /\ \A i \in 1..Len(ans) - 1 : t[i] = ans[i + 1]
      BY <1>2
    <3> HIDE DEF t, u
    <3>0. u \in Seq(Rpls) /\ t \in Seq(Rpls)
      BY <3>1, <3>2
    <3>3. u \o t \in Seq(Rpls) /\ Len(u \o t) = Len(u) + Len(t)
      BY <3>0, ConcatProperties
    <3>4. \A i \in 1..Len(u) + Len(t) : (u \o t)[i] = IF i <= Len(u) THEN u[i] ELSE t[i - Len(u)]
      BY <3>0, ConcatProperties, Zenon
    <3>5. (u \o t)[1] = Rest
      BY <1>2, <3>1, <3>2, <3>4
    <3>6. ASSUME NEW i \in 2..Len(ans) PROVE (u \o t)[i] = ans[i]
      <4> DEFINE k == i - 1
      <4>1. k \in 1..Len(ans) - 1 /\ k + 1 = i /\ i \in 1..Len(u) + Len(t) /\ ~(i <= Len(u)) /\ i - Len(u) = k
        BY <1>2, <3>1, <3>2
      <4> HIDE DEF k
      <4> QED BY <3>2, <3>4, <4>1
    <3>7. ans' = u \o t
      BY <1>5 DEF u, t
    <3>8. Len(u \o t) = Len(ans)
      BY <1>2, <3>1, <3>2, <3>3
    <3> QED BY <3>3, <3>5, <3>6, <3>7, <3>8
  <2>2. ans[1] # Rest
    <3> SUFFICES ASSUME ans[1] = Rest PROVE FALSE
      OBVIOUS
    <3>1. \A i \in 1..Len(ans) : ans'[i] = ans[i]
      BY <1>2, <2>1
    <3>2. ans' = ans
      BY <1>2, <2>1, <3>1
    <3> QED BY <3>2
  <2>3. ans' # <<>> /\ Head(ans') = Rest
    BY <1>2, <2>1
  <2>4. Pending = 3 * Len(inq) + 2 * Len(ans)
    BY <1>2, <2>2 DEF Pending
  <2>5. Pending' = 3 * Len(inq) + 2 * Len(ans) - 1
    BY <2>1, <2>3 DEF Pending
  <2> QED BY <1>2, <2>4, <2>5
<1> QED BY <1>1, <1>4, <1>5

\* A step of the driver ends its round trip and the stage with it, or leaves less
\* of the round trip.
LEMMA DriverMovesOn ==
  ASSUME Typing, TripBounds, TripBounds', Driver, vars' # vars
  PROVE  \/ wire' = "idle" /\ StagesLeft[op'] < StagesLeft[op]
         \/ op' = op /\ TripLeft' < TripLeft
<1> USE StagesLeftAre
<1>0. QueueSize \in Nat
  BY SessionBounds
<1>1. CASE verimark_ctrl_write_sync
  <2>1. op' = op /\ wire = "idle" /\ wire' \in {"sent", "failed"}
    BY <1>1 DEF verimark_ctrl_write_sync
  <2>2. Pending' <= 3 * QueueSize /\ Pending' \in Nat
    BY <1>0 DEF TripBounds
  <2>3. TripLeft = 3 * QueueSize + 2 /\ TripLeft' \in {1, 1 + Pending'}
    BY <2>1 DEF TripLeft
  <2>4. TripLeft' < TripLeft
    <3>1. ASSUME NEW p \in Nat, p <= 3 * QueueSize, NEW u \in {1, 1 + p}
          PROVE  u < 3 * QueueSize + 2
      BY <1>0, <3>1
    <3> QED BY <2>2, <2>3, <3>1, Zenon
  <2> QED BY <2>1, <2>4
<1>2. CASE verimark_ctrl_read_sync
  <2>1. /\ op' = op /\ wire = "sent" /\ wire' = "sent" /\ Ep0!Spoilt /\ inq' = inq
        /\ UNCHANGED <<memory, file, inq, strict, sensorVars>>
    BY <1>2 DEF verimark_ctrl_read_sync, memory
  <2>2. ans' # ans
    BY <2>1 DEF vars
  <2>3. Pending' < Pending
    BY <2>1, <2>2, SpoilingRunsOut
  <2>4. TripLeft = 1 + Pending /\ TripLeft' = 1 + Pending'
    BY <2>1 DEF TripLeft
  <2>5. Pending \in Nat /\ Pending' \in Nat
    BY <1>0 DEF TripBounds
  <2>6. TripLeft' < TripLeft
    <3>1. \A p, q \in Nat : p < q => 1 + p < 1 + q
      OBVIOUS
    <3> QED BY <2>3, <2>4, <2>5, <3>1, Zenon
  <2> QED BY <2>1, <2>6
<1>3. CASE verimark_resolve_sid_sync
  BY <1>3 DEF verimark_resolve_sid_sync, LoadOrPair, hs_build_client_hello, Continue
<1>4. CASE verimark_pairing_do
  BY <1>4 DEF verimark_pairing_do, Continue
<1>5. CASE verimark_pairing_save_file
  BY <1>5 DEF verimark_pairing_save_file, hs_build_client_hello, Continue
<1>6. CASE hs_build_rt2
  BY <1>6 DEF hs_build_rt2, Continue
<1>7. CASE hs_process_rt2
  BY <1>7 DEF hs_process_rt2, Continue
<1>8. CASE verimark_open_fail
  <2>1. op \in Opening /\ op' = "closed" /\ wire' = "idle"
    BY <1>8 DEF verimark_open_fail, Forget, Continue
  <2> QED BY <2>1 DEF Opening
<1>9. CASE on_moc_raw_resp
  BY <1>9 DEF on_moc_raw_resp, Continue
<1>10. CASE dev_close
  BY <1>10 DEF dev_close, Forget, Continue
<1> QED BY <1>1, <1>2, <1>3, <1>4, <1>5, <1>6, <1>7, <1>8, <1>9, <1>10 DEF Driver

\* So it leaves less of the call.
LEMMA DriverRunsOut ==
  ASSUME Typing, TripBounds, TripBounds', Driver, vars' # vars, StagesLeft[op] # 0
  PROVE  StepsLeft' \in 0..StepsLeft - 1
BY DriverMovesOn, StageRunsOut, TripRunsOut

\* The sensor turns a command into an answer, which is less to read.
LEMMA SensorRunsOut ==
  ASSUME Typing, TripBounds, TripBounds', Sensor
  PROVE  StepsLeft' \in 0..StepsLeft
<1>1. UNCHANGED <<op, wire>> /\ UNCHANGED strict
  BY DEF Sensor, memory
<1>2. Pending' <= Pending
  <2>1. CASE Drops
    BY <2>1, SessionBounds DEF Drops, Pending, TripBounds
  <2>2. CASE \E a \in Rpls : Executes(a)
    <3>1. PICK a \in Rpls : inq # <<>> /\ Answers(a)
      BY <2>2 DEF Executes
    <3>2. /\ Queues' /\ Total' = Total /\ Len(ans') = Len(ans) + 1 /\ ans' # <<>>
          /\ ans # <<>> => ans'[1] = ans[1]
      BY <1>1, <3>1, Answering DEF Typing
    <3>3. /\ Len(inq) \in Nat /\ Len(ans) \in Nat /\ Len(inq') \in Nat /\ Head(ans') = ans'[1]
          /\ ans # <<>> => Head(ans) = ans[1]
      BY <3>2 DEF Queues, Typing
    <3>4. Len(inq') = Len(inq) - 1
      BY <3>2, <3>3 DEF Total
    <3> QED BY <3>2, <3>3, <3>4 DEF Pending
  <2> QED BY <2>1, <2>2, SensorSteps
<1>3. TripLeft' <= TripLeft
  <2>1. Pending \in Int /\ Pending' \in Int /\ TripLeft \in Int
    BY SessionBounds DEF TripBounds, Whole
  <2>2. wire = "sent" => TripLeft = 1 + Pending /\ TripLeft' = 1 + Pending'
    BY <1>1 DEF TripLeft
  <2>3. wire # "sent" => TripLeft' = TripLeft
    BY <1>1 DEF TripLeft
  <2> QED BY <1>2, <2>1, <2>2, <2>3
<1> QED BY <1>1, <1>3, TripRunsOut

\* A call does not go round in circles: no step of the sensor gives the driver
\* more to do, and each of its own steps leaves less, whatever is left unread and
\* whatever a read brings (verimark_ctrl_read_sync, verimark_tls_establish).
THEOREM CallsRunOut == Spec => CallRunsOut
<1> DEFINE Step == StagesLeft[op] # 0 => /\ StepsLeft' \in 0..StepsLeft
                                         /\ Driver => StepsLeft' < StepsLeft
<1>1. IInv => Typing /\ TripBounds
  BY TripIsBounded DEF IInv
<1>2. ASSUME Typing, TripBounds, TripBounds', [Next]_vars PROVE [Step]_vars
  <2> SUFFICES ASSUME vars' # vars, StagesLeft[op] # 0
               PROVE  StepsLeft' \in 0..StepsLeft /\ (Driver => StepsLeft' < StepsLeft)
    OBVIOUS
  <2>0. StepsLeft \in Int
    <3>1. Whole \in Nat /\ Whole = 3 * QueueSize + 2
      BY SessionBounds DEF Whole
    <3>2. StagesLeft[op] - 1 \in Int /\ TripLeft \in Int
      BY <1>2, <3>1 DEF TripBounds
    <3>3. (StagesLeft[op] - 1) * Whole \in Int
      BY <3>1, <3>2
    <3> QED BY <3>1, <3>2, <3>3 DEF StepsLeft
  <2>1. CASE Driver
    <3>1. StepsLeft' \in 0..StepsLeft - 1
      BY <1>2, <2>1, DriverRunsOut
    <3> QED BY <2>0, <3>1
  <2>2. CASE ~Driver
    <3>1. CASE Sensor
      BY <1>2, <2>2, <3>1, SensorRunsOut
    <3>2. CASE Crash
      <4>1. wire' = "idle" /\ op' = "closed"
        BY <3>2 DEF Crash, Forget, Continue
      <4>2. StagesLeft[op'] < StagesLeft[op]
        <5>1. StagesLeft[op] \in 0..6 /\ StagesLeft[op'] = 0
          BY <1>2, <4>1, StagesLeftAre DEF TripBounds
        <5> QED BY <5>1
      <4>3. StepsLeft' \in 0..StepsLeft - 1
        BY <1>2, <4>1, <4>2, StageRunsOut
      <4> QED BY <2>0, <2>2, <4>3
    <3>3. ~dev_open /\ ~verimark_moc_send /\ ~verimark_tls_close
      BY StagesLeftAre DEF dev_open, verimark_moc_send, verimark_tls_close
    <3> QED BY <1>2, <2>2, <3>1, <3>2, <3>3 DEF Next
  <2> QED BY <2>1, <2>2
<1> QED BY <1>1, <1>2, Invariance, PTL DEF Spec, CallRunsOut
=============================================================================
