---------------------------- MODULE CaptureProofs ----------------------------
(***************************************************************************)
(* Theorems about Capture, for every size of the event log, of the batch,  *)
(* of the interrupt queue and of the drain, and every modulus of the event *)
(* numbers that SizesSane allows.  What a capture promises of the frame is *)
(* proved for a sensor that refuses no EVENT_CONFIG: with one that does,   *)
(* the code does not keep the promise (run config_refused).  That no frame *)
(* is missed also needs the record of every event that is counted.         *)
(***************************************************************************)
EXTENDS Capture, TLAPS

-----------------------------------------------------------------------------
(* The inductive invariant: types and the shape of the SSM *)

Replies == [status : {"ok", "bad", "notready"}, full : BOOLEAN, seq : Seqs,
            num : Nat, evts : Seq(Event)]

\* The state of the SSM, what it waits for and what it was asked for agree.
Ssm ==
  /\ (cap = "NULL") <=> (want = "none")
  /\ (cap = "NULL") <=> (wire = "idle")
  /\ (cap = "CAP_WAIT_PRESS") <=> (wire = "intr")
  /\ cap # "NULL" => outcome = "none"
  /\ frame_got => cap \in {"CAP_EVENT_CLEAR", "CAP_FRAME_FINISH"}

Control ==
  /\ want \in CC!Kinds \cup {"none"} /\ frame \in CC!Kinds \cup {"none"}
  /\ outcome \in CC!Outcomes
  /\ cap \in CapStates \cup {"NULL"}
  /\ wire \in {"idle", "sent", "answered", "failed", "intr"}
  /\ late \in BOOLEAN /\ frame_got \in BOOLEAN
  /\ finger \in BOOLEAN /\ mask \in {"NONE", "FINGER", "FRAME"}
  /\ acq \in [kind : CC!Kinds, own : BOOLEAN] \cup {NoAcq}
  /\ Ssm

Numbered == reply \in Replies /\ event_seq_num \in Seqs

Events == /\ log \in Seq(Event) /\ Len(log) <= LogSize /\ next \in Seqs
          /\ intr \in Seq(Event) /\ Len(intr) <= IntrSize

Typing == Control /\ Numbered /\ Events

-----------------------------------------------------------------------------
(* The inductive invariant: where the frame of a capture can be *)

OwnFrame(e) == e.type = "frame" /\ e.own
Captured == acq = NoAcq /\ frame = want

\* Events posted from number s on, and the frame-ready ones among those the
\* sensor still has.
Since(s) == (next - s) % SeqMod
FramesSince(s) == {i \in DOMAIN log : i > Len(log) - Since(s) /\ log[i].type = "frame"}

\* Before the acquisition is started, and while its frame can be ready.
Starting == \/ cap \in {"CAP_ARM_PRESS", "CAP_WAIT_PRESS", "CAP_ARM_FRAME"}
            \/ cap = "CAP_FRAME_ACQ" /\ wire = "sent"
Polling  == \/ cap \in {"CAP_FRAME_ACQ", "CAP_WAIT_FRAME"}
            \/ cap = "CAP_EVENT_CLEAR" /\ wire = "sent"

\* Whatever earlier captures left does not pass for this one's frame ...
NoneOwned ==
  Starting => acq.own = FALSE /\ \A i \in DOMAIN log : ~OwnFrame(log[i])

\* ... because arming the finger events abandons their acquisition,
Abandoned == Starting => acq = NoAcq \/ (cap = "CAP_ARM_PRESS" /\ wire # "answered")

\* and the one that can be open later is this capture's.
Acquiring ==
  cap \in {"CAP_FRAME_ACQ", "CAP_WAIT_FRAME", "CAP_EVENT_CLEAR", "CAP_FRAME_FINISH"} =>
    acq \in {NoAcq, [kind |-> want, own |-> TRUE]}

\* The number that arming frame-ready brings is behind no frame, and less than
\* a turn of the counter behind the sensor's.
Noted ==
  cap = "CAP_ARM_FRAME" /\ wire = "answered" =>
    /\ reply.full /\ mask = "FRAME"
    /\ Since(reply.seq) = 0 \/ (Since(reply.seq) <= Behind /\ Behind <= LogSize)
    /\ FramesSince(reply.seq) = {}

\* From then on the driver is never a turn behind, an unread frame-ready event
\* says that the sensor holds the frame, and one that was read was recognised,
\* if its record came.
Following ==
  Polling =>
    /\ mask = "FRAME"
    /\ Behind <= LogSize + 1
    /\ acq # NoAcq \/ Starting => Behind <= LogSize
    /\ FramesSince(event_seq_num) # {} => Captured /\ ~Starting
    /\ CutsReads = FALSE =>
         \A i \in DOMAIN log : i <= Len(log) - Behind /\ OwnFrame(log[i]) => frame_got

\* The events on their way to the callback are the first unread ones, and no more
\* than the answer counts.
Reading ==
  cap = "CAP_WAIT_FRAME" /\ wire = "answered" =>
    /\ Len(reply.evts) <= reply.num /\ reply.num <= Behind
    /\ CutsReads = FALSE => Len(reply.evts) = reply.num
    /\ \A j \in DOMAIN reply.evts :
         /\ Len(log) - Behind + j >= 1 => reply.evts[j] = log[Len(log) - Behind + j]
         /\ reply.evts[j].type = "frame" => Captured

Finishing ==
  /\ frame_got => Captured
  /\ cap = "CAP_FRAME_FINISH" \/ (cap = "CAP_EVENT_CLEAR" /\ wire = "answered") => mask = "NONE"

Frames == /\ NoneOwned /\ Abandoned /\ Acquiring /\ Noted /\ Following /\ Reading
          /\ Finishing /\ TornDown

frameVars == <<want, frame, outcome, cap, wire, reply, frame_got, event_seq_num,
               mask, log, next, acq>>

-----------------------------------------------------------------------------
(* Lemmas about the operators of Capture *)

\* % next to its modulus: all the arithmetic of the event numbers needs.
LEMMA ModSmall ==
  ASSUME NEW M \in Nat \ {0}, NEW x \in Int, -M <= x, x < 2 * M
  PROVE  x % M = IF x < 0 THEN x + M ELSE IF x < M THEN x ELSE x - M
<1>1. CASE x < 0
  <2> (x + M) \div M \in Int
    OBVIOUS
  <2> QED BY <1>1
<1>2. CASE x \in 0..M-1
  BY <1>2
<1>3. CASE x >= M
  BY <1>3
<1> QED BY <1>1, <1>2, <1>3

\* How far one event number is behind another, modulo the counter.
LEMMA SinceSeq ==
  ASSUME NEW a \in Seqs, NEW b \in Seqs
  PROVE  (a - b) % SeqMod = IF a < b THEN a - b + SeqMod ELSE a - b
<1> DEFINE x == a - b
<1>1. /\ SeqMod \in Nat \ {0} /\ a \in Nat /\ b \in Nat /\ a < SeqMod /\ b < SeqMod
      /\ x \in Int /\ -SeqMod <= x /\ x < 2 * SeqMod /\ x < SeqMod /\ (x < 0 <=> a < b)
  BY SizesSane DEF Seqs
<1> HIDE DEF x
<1>2. x % SeqMod = IF x < 0 THEN x + SeqMod ELSE x
  BY <1>1, ModSmall
<1> QED BY <1>1, <1>2 DEF x

\* An event number stays one, and wraps at most once.
LEMMA LaterSeq ==
  ASSUME NEW a \in Seqs, NEW n \in 0..SeqMod
  PROVE  /\ (a + n) % SeqMod \in Seqs
         /\ (a + n) % SeqMod = IF a + n < SeqMod THEN a + n ELSE a + n - SeqMod
<1> DEFINE x == a + n
<1>1. /\ SeqMod \in Nat \ {0} /\ a \in Nat /\ n \in Nat /\ a < SeqMod /\ n <= SeqMod
      /\ x \in Int /\ -SeqMod <= x /\ x < 2 * SeqMod /\ x >= 0
  BY SizesSane DEF Seqs
<1> HIDE DEF x
<1>2. x % SeqMod = IF x < 0 THEN x + SeqMod ELSE IF x < SeqMod THEN x ELSE x - SeqMod
  BY <1>1, ModSmall
<1>3. x % SeqMod \in Seqs
  BY <1>1, <1>2 DEF Seqs
<1> QED BY <1>1, <1>2, <1>3 DEF x

\* Marking events as an earlier capture's changes nothing else of them.
LEMMA StaleEvents ==
  ASSUME NEW q \in Seq(Event)
  PROVE  /\ Stale(q) \in Seq(Event) /\ Len(Stale(q)) = Len(q)
         /\ \A i \in DOMAIN q : Stale(q)[i].type = q[i].type /\ Stale(q)[i].own = FALSE
<1>1. \A i \in 1..Len(q) : q[i] \in Event
  OBVIOUS
<1>2. Stale(q) = [i \in 1..Len(q) |-> [type |-> q[i].type, own |-> FALSE]]
  BY DEF Stale
<1>3. Stale(q) \in [1..Len(q) -> Event]
  BY <1>1, <1>2 DEF Event
<1>4. Stale(q) \in Seq(Event) /\ Len(Stale(q)) = Len(q)
  BY <1>3
<1> QED BY <1>2, <1>4

\* A posted event is the last one of the log; the others keep their distance
\* from its end, and every number is one event further behind.
LEMMA Posted ==
  ASSUME log \in Seq(Event), Len(log) <= LogSize, next \in Seqs, NEW e \in Event, Post(e)
  PROVE  /\ log' \in Seq(Event) /\ Len(log') <= LogSize /\ next' \in Seqs
         /\ \A s \in Seqs : Since(s) < SeqMod - 1 => Since(s)' = Since(s) + 1
         /\ \A i \in DOMAIN log' :
              \/ i = Len(log') /\ log'[i] = e
              \/ LET j == i - Len(log') + 1 + Len(log)
                 IN  j \in DOMAIN log /\ log'[i] = log[j]
<1> USE SizesSane
<1> DEFINE q == Append(log, e)
<1>1. /\ q \in Seq(Event) /\ Len(q) = Len(log) + 1 /\ q[Len(q)] = e
      /\ \A i \in 1..Len(log) : q[i] = log[i]
  OBVIOUS
<1>2. log' = IF Len(q) > LogSize THEN Tail(q) ELSE q
  BY DEF Post, LastEvents
<1>3. next' \in Seqs /\ next' = IF next + 1 < SeqMod THEN next + 1 ELSE 0
  <2>1. next' = (next + 1) % SeqMod
    BY DEF Post
  <2> DEFINE one == 1
  <2>2. one \in 0..SeqMod
    OBVIOUS
  <2> HIDE DEF one
  <2>3. /\ (next + one) % SeqMod \in Seqs
        /\ (next + one) % SeqMod
             = IF next + one < SeqMod THEN next + one ELSE next + one - SeqMod
    BY <2>2, LaterSeq
  <2> QED BY <2>1, <2>3 DEF one, Seqs
<1>4. \A s \in Seqs : Since(s) < SeqMod - 1 => Since(s)' = Since(s) + 1
  <2> SUFFICES ASSUME NEW s \in Seqs, Since(s) < SeqMod - 1
               PROVE  Since(s)' = Since(s) + 1
    OBVIOUS
  <2>1. Since(s)' = IF next' < s THEN next' - s + SeqMod ELSE next' - s
    BY <1>3, SinceSeq DEF Since
  <2>2. Since(s) = IF next < s THEN next - s + SeqMod ELSE next - s
    BY SinceSeq DEF Since
  <2> QED BY <1>3, <2>1, <2>2 DEF Seqs
<1> HIDE DEF q
<1>5. CASE Len(q) <= LogSize
  BY <1>1, <1>2, <1>3, <1>4, <1>5
<1>6. CASE Len(q) > LogSize
  <2>1. /\ Tail(q) \in Seq(Event) /\ Len(Tail(q)) = Len(log)
        /\ \A i \in 1..Len(log) : Tail(q)[i] = q[i + 1]
    BY <1>1
  <2> QED BY <1>1, <1>2, <1>3, <1>4, <1>6, <2>1
<1> QED BY <1>1, <1>5, <1>6


-----------------------------------------------------------------------------
(* Typing is kept *)

\* Every step keeps the SSM's state, what it waits for and what it was asked for
\* in agreement: a callback acts only in the state it belongs to.
LEMMA ControlKept == Control /\ [Next]_vars => Control'
<1> SUFFICES ASSUME Control, [Next]_vars PROVE Control'
  OBVIOUS
<1> USE DEF Control, Ssm, CapStates, ConfigStates, contractVars, ssmVars, eventVars, NoAcq,
        CC!Kinds, CC!Outcomes
<1>1. CASE \E kind \in CC!Kinds : verimark_moc_capture_ssm_new(kind)
  <2>1. PICK kind \in CC!Kinds : verimark_moc_capture_ssm_new(kind)
    BY <1>1
  <2>2. /\ cap' = "CAP_ARM_PRESS" /\ wire' = "sent" /\ want' = kind /\ outcome' = "none"
        /\ acq' = [kind |-> acq.kind, own |-> FALSE] /\ cap = "NULL"
        /\ UNCHANGED <<frame, late, frame_got, finger, mask>>
    BY <2>1 DEF verimark_moc_capture_ssm_new, Enter
  <2>3. acq' \in [kind : CC!Kinds, own : BOOLEAN] \cup {NoAcq}
    <3>1. CASE acq = NoAcq
      BY <2>2, <3>1
    <3>2. CASE acq \in [kind : CC!Kinds, own : BOOLEAN]
      <4>1. acq.kind \in CC!Kinds
        BY <3>2
      <4> QED BY <2>2, <4>1
    <3> QED BY <3>1, <3>2
  <2> HIDE DEF NoAcq
  <2> QED BY <2>2, <2>3
<1>2. CASE CallbackError
  BY <1>2 DEF CallbackError, End
<1>3. CASE on_cap_event_config_done
  BY <1>3 DEF on_cap_event_config_done, Answered, NextState, Enter, StateAfter
<1>4. CASE on_intr_read_done
  BY <1>4 DEF on_intr_read_done
<1>5. CASE on_cap_wait_press_done
  <2>0. cap = "CAP_WAIT_PRESS" /\ UNCHANGED <<finger, eventVars>>
    BY <1>5 DEF on_cap_wait_press_done
  <2>1. CASE NextState /\ UNCHANGED <<contractVars, late, frame_got, event_seq_num>>
    BY <2>0, <2>1 DEF NextState, Enter, StateAfter
  <2>2. CASE End("retry")
    BY <2>0, <2>2 DEF End
  <2>3. CASE End("error")
    BY <2>0, <2>3 DEF End
  <2> QED BY <1>5, <2>1, <2>2, <2>3 DEF on_cap_wait_press_done, TimedOut
<1>6. CASE on_cap_frame_acq_done
  BY <1>6 DEF on_cap_frame_acq_done, Answered, NextState, Enter, StateAfter
<1>7. CASE on_cap_wait_frame_done
  BY <1>7 DEF on_cap_wait_frame_done, Answered, NextState, Enter, StateAfter, End
<1>8. CASE on_cap_frame_finish_done
  BY <1>8 DEF on_cap_frame_finish_done, Answered, End, Result
<1>9. CASE UseFrame
  BY <1>9 DEF UseFrame
<1>10. CASE DeadlinePasses
  BY <1>10 DEF DeadlinePasses
<1>11. CASE verimark_intr_drain_sync
  BY <1>11 DEF verimark_intr_drain_sync
<1>12. CASE Crash
  BY <1>12 DEF Crash
<1>13. CASE SensorConfig
  <2>1. /\ cap \in ConfigStates /\ wire = "sent" /\ wire' = "answered"
        /\ UNCHANGED <<driverVars, frame, finger>> /\ acq' \in {acq, NoAcq}
    BY <1>13 DEF SensorConfig, Executing, Refused, Answer
  <2>2. mask' \in {mask, MaskOf(cap)}
    BY <1>13 DEF SensorConfig
  <2>3. MaskOf(cap) \in {"NONE", "FINGER", "FRAME"}
    BY <2>1 DEF MaskOf
  <2> QED BY <2>1, <2>2, <2>3 DEF driverVars
<1>14. CASE SensorAcq
  <2>1. /\ cap = "CAP_FRAME_ACQ" /\ wire = "sent" /\ wire' = "answered"
        /\ UNCHANGED <<driverVars, finger, mask>> /\ frame' \in {frame, "none"}
        /\ acq' \in {acq, [kind |-> want, own |-> TRUE]}
    BY <1>14 DEF SensorAcq, Executing, Refused, Answer
  <2>2. want \in CC!Kinds
    BY <2>1
  <2>3. [kind |-> want, own |-> TRUE] \in [kind : CC!Kinds, own : BOOLEAN]
    BY <2>2
  <2>4. acq' \in [kind : CC!Kinds, own : BOOLEAN] \cup {NoAcq}
    <3> HIDE DEF NoAcq, CC!Kinds
    <3> QED BY <2>1, <2>3
  <2> HIDE DEF NoAcq
  <2> QED BY <2>1, <2>4 DEF driverVars
<1>15. CASE SensorRead
  BY <1>15 DEF SensorRead, Executing, Refused, Answer, driverVars
<1>16. CASE SensorFinish
  BY <1>16 DEF SensorFinish, Executing, Refused, Answer, driverVars
<1>17. CASE CommandFails
  BY <1>17 DEF CommandFails, driverVars
<1>18. CASE FingerMoves
  BY <1>18 DEF FingerMoves
<1>19. CASE SensorAcquires
  BY <1>19 DEF SensorAcquires
<1>20. CASE SensorOther
  BY <1>20 DEF SensorOther
<1>21. CASE UNCHANGED vars
  BY <1>21 DEF vars, vars
<1> QED
  BY <1>1, <1>2, <1>3, <1>4, <1>5, <1>6, <1>7, <1>8, <1>9, <1>10, <1>11, <1>12, <1>13, <1>14, <1>15, <1>16, <1>17, <1>18, <1>19, <1>20, <1>21 DEF Next, Callbacks, Sensor

\* The empty reply has the type of a reply.
LEMMA NoReplyTyped == NoReply \in Replies
BY SizesSane DEF NoReply, Replies, Seqs

\* What EVENT_READ takes from the log: the first of the events not read yet.
LEMMA SomeUnread ==
  ASSUME log \in Seq(Event), Behind \in 1..Len(log), NEW n \in Brought
  PROVE  /\ Counted \in Nat /\ Counted <= Behind
         /\ Unread(n) \in Seq(Event) /\ Len(Unread(n)) <= Counted
         /\ CutsReads = FALSE => Len(Unread(n)) = Counted
         /\ \A j \in DOMAIN Unread(n) :
              /\ Len(log) - Behind + j \in DOMAIN log
              /\ Unread(n)[j] = log[Len(log) - Behind + j]
<1> DEFINE b == Behind
<1>1. b \in 1..Len(log) /\ Len(log) \in Nat
  OBVIOUS
<1>2. Counted \in Nat /\ Counted <= b
  BY <1>1, SizesSane DEF Counted
<1>3. n \in 0..Counted /\ (CutsReads = FALSE => n = Counted)
  BY <1>2, CutsBoolean DEF Brought
<1> HIDE DEF b
<1>4. /\ Unread(n) \in Seq(Event) /\ Len(Unread(n)) = n
      /\ \A j \in 1..n : Unread(n)[j] = log[Len(log) - b + j]
  BY <1>1, <1>2, <1>3 DEF Unread, b
<1>5. \A j \in 1..n : Len(log) - b + j \in DOMAIN log
  BY <1>1, <1>2, <1>3
<1>6. DOMAIN Unread(n) = 1..n
  BY <1>4
<1> QED BY <1>2, <1>3, <1>4, <1>5, <1>6 DEF b

\* Every step keeps the event number and the decrypted answer well-typed.
LEMMA NumberedKept == Numbered /\ Events /\ [Next]_vars => Numbered'
<1> SUFFICES ASSUME Numbered, Events, [Next]_vars PROVE Numbered'
  OBVIOUS
<1> USE NoReplyTyped DEF Numbered, ssmVars
<1>1. CASE \E kind \in CC!Kinds : verimark_moc_capture_ssm_new(kind)
  BY <1>1 DEF verimark_moc_capture_ssm_new, Enter
<1>2. CASE CallbackError
  BY <1>2 DEF CallbackError, End
<1>3. CASE on_cap_event_config_done
  BY <1>3 DEF on_cap_event_config_done, NextState, Enter, Replies
<1>4. CASE on_intr_read_done
  BY <1>4 DEF on_intr_read_done
<1>5. CASE on_cap_wait_press_done
  BY <1>5 DEF on_cap_wait_press_done, TimedOut, NextState, Enter, End
<1>6. CASE on_cap_frame_acq_done
  BY <1>6 DEF on_cap_frame_acq_done, NextState, Enter
<1>7. CASE on_cap_wait_frame_done
  <2>1. NextSeq(reply.num) \in Seqs
    <3>1. reply.num \in Nat
      BY DEF Replies
    <3> DEFINE x == event_seq_num + reply.num
    <3>2. x \in Int /\ SeqMod \in Nat \ {0}
      BY <3>1, SizesSane DEF Seqs
    <3> HIDE DEF x
    <3>3. x % SeqMod \in 0..SeqMod - 1
      BY <3>2
    <3> QED BY <3>3 DEF x, NextSeq, Seqs
  <2> QED BY <1>7, <2>1 DEF on_cap_wait_frame_done, NextState, Enter, End
<1>8. CASE on_cap_frame_finish_done
  BY <1>8 DEF on_cap_frame_finish_done, End
<1>9. CASE UseFrame
  BY <1>9 DEF UseFrame
<1>10. CASE DeadlinePasses
  BY <1>10 DEF DeadlinePasses
<1>11. CASE verimark_intr_drain_sync
  BY <1>11 DEF verimark_intr_drain_sync
<1>12. CASE Crash
  BY <1>12, SizesSane DEF Crash, Seqs
<1>13. CASE SensorConfig \/ SensorAcq \/ SensorRead \/ SensorFinish
  <2>1. \A s \in {"ok", "bad", "notready"}, full \in BOOLEAN, seq \in Seqs, num \in Nat,
          evts \in Seq(Event) : Answer(s, full, seq, num, evts) => Numbered'
    BY DEF Answer, Replies, driverVars
  <2>2. 0 \in Seqs /\ next \in Seqs /\ <<>> \in Seq(Event)
    BY SizesSane DEF Seqs, Events
  <2>3. ASSUME Behind \in 1..Len(log), NEW n \in Brought
        PROVE  Counted \in Nat /\ Unread(n) \in Seq(Event)
    BY <2>3, SomeUnread DEF Events
  <2>4. PICK s \in {"ok", "bad", "notready"}, full \in BOOLEAN, seq \in Seqs, num \in Nat,
             evts \in Seq(Event) : Answer(s, full, seq, num, evts)
    <3>1. CASE SensorConfig
      BY <2>2, <3>1 DEF SensorConfig, Refused
    <3>2. CASE SensorAcq
      BY <2>2, <3>2 DEF SensorAcq, Refused
    <3>3. CASE SensorRead
      <4>1. CASE \/ Refused \/ Answer("ok", FALSE, 0, 0, <<>>)
                 \/ Answer("notready", FALSE, 0, 0, <<>>)
        BY <2>2, <4>1 DEF Refused
      <4>2. CASE /\ Behind \in 1..Len(log)
                 /\ \E n \in Brought : Answer("ok", TRUE, 0, Counted, Unread(n))
        BY <2>2, <2>3, <4>2
      <4> QED BY <3>3, <4>1, <4>2 DEF SensorRead
    <3>4. CASE SensorFinish
      BY <2>2, <3>4 DEF SensorFinish, Refused
    <3> QED BY <1>13, <3>1, <3>2, <3>3, <3>4
  <2> QED BY <2>1, <2>4
<1>14. CASE CommandFails
  BY <1>14 DEF CommandFails, driverVars
<1>15. CASE FingerMoves \/ SensorAcquires \/ SensorOther \/ UNCHANGED vars
  BY <1>15 DEF FingerMoves, SensorAcquires, SensorOther, vars
<1> QED
  BY <1>1, <1>2, <1>3, <1>4, <1>5, <1>6, <1>7, <1>8, <1>9, <1>10, <1>11, <1>12, <1>13,
     <1>14, <1>15 DEF Next, Callbacks, Sensor

\* Every step keeps the sensor's log and the interrupt queue sequences of events
\* within their sizes.
LEMMA EventsKept == Control /\ Events /\ [Next]_vars => Events'
<1> SUFFICES ASSUME Control, Events, [Next]_vars PROVE Events'
  OBVIOUS
<1> USE DEF eventVars
<1>0. ASSUME UNCHANGED <<log, next>>, intr # <<>>, intr' = Tail(intr)
      PROVE  Events'
  <2>1. Tail(intr) \in Seq(Event) /\ Len(Tail(intr)) = Len(intr) - 1 /\ Len(intr) \in Nat
    BY <1>0 DEF Events
  <2> QED BY <1>0, <2>1, SizesSane DEF Events
<1>1. CASE \E kind \in CC!Kinds : verimark_moc_capture_ssm_new(kind)
  <2>1. log' = Stale(log) /\ intr' = Stale(intr) /\ next' = next
    BY <1>1 DEF verimark_moc_capture_ssm_new
  <2> QED BY <2>1, StaleEvents DEF Events
<1>2. CASE UNCHANGED <<log, next, intr>>
  BY <1>2 DEF Events
<1>3. CASE on_intr_read_done \/ on_cap_wait_press_done
  <2>1. UNCHANGED <<log, next>>
    BY <1>3 DEF on_intr_read_done, on_cap_wait_press_done
  <2>2. (intr # <<>> /\ intr' = Tail(intr)) \/ UNCHANGED intr
    BY <1>3 DEF on_intr_read_done, on_cap_wait_press_done, ReadOther, ReadPress, TimedOut
  <2> QED BY <1>0, <1>2, <2>1, <2>2
<1>4. CASE verimark_intr_drain_sync
  <2>1. PICK n \in 1..Len(intr) : intr' = SubSeq(intr, n + 1, Len(intr))
    BY <1>4 DEF verimark_intr_drain_sync
  <2>2. intr' \in Seq(Event) /\ Len(intr') <= Len(intr)
    BY <2>1 DEF Events
  <2> QED BY <1>4, <2>2, SizesSane DEF Events, verimark_intr_drain_sync
<1>5. ASSUME NEW e \in Event, Post(e), e.type \in {"press", "remove"} => Len(intr) < IntrSize
      PROVE  Events'
  <2>1. log' \in Seq(Event) /\ Len(log') <= LogSize /\ next' \in Seqs
    BY <1>5, Posted DEF Events
  <2>2. intr' \in Seq(Event) /\ Len(intr') <= IntrSize
    BY <1>5, SizesSane DEF Events, Post
  <2> QED BY <2>1, <2>2 DEF Events
<1>6. CASE SensorConfig
  <2>1. [type |-> "press", own |-> TRUE] \in Event
    BY DEF Event
  <2>2. \/ UNCHANGED <<log, next, intr>>
        \/ Len(intr) < IntrSize /\ Post([type |-> "press", own |-> TRUE])
    BY <1>6 DEF SensorConfig
  <2> QED BY <1>2, <1>5, <2>1, <2>2
<1>7. CASE FingerMoves
  <2> DEFINE e == [type |-> IF finger THEN "remove" ELSE "press", own |-> want # "none"]
  <2>1. e \in Event
    BY DEF Event
  <2>2. UNCHANGED <<log, next, intr>> \/ (Len(intr) < IntrSize /\ Post(e))
    BY <1>7 DEF FingerMoves
  <2> QED BY <1>2, <1>5, <2>1, <2>2
<1>9. CASE SensorAcquires
  <2> DEFINE e == [type |-> "frame", own |-> acq.own]
  <2>1. acq.own \in BOOLEAN
    <3>1. CASE acq \in [kind : CC!Kinds, own : BOOLEAN]
      BY <3>1
    <3>2. CASE acq = NoAcq
      BY <3>2 DEF NoAcq
    <3> QED BY <3>1, <3>2 DEF Control
  <2>2. e \in Event /\ e.type = "frame"
    BY <2>1 DEF Event
  <2>3. UNCHANGED <<log, next, intr>> \/ Post(e)
    BY <1>9 DEF SensorAcquires
  <2> QED BY <1>2, <1>5, <2>2, <2>3
<1>8. CASE SensorOther
  BY <1>5, <1>8 DEF SensorOther, Event
<1> QED
  BY <1>1, <1>2, <1>3, <1>4, <1>6, <1>7, <1>8, <1>9 DEF Next, Callbacks, Sensor, vars,
     CallbackError, on_cap_event_config_done, QueueAtWait, on_cap_frame_acq_done,
     on_cap_wait_frame_done, on_cap_frame_finish_done, DeadlinePasses, Crash, UseFrame,
     SensorAcq, SensorRead, SensorFinish, CommandFails
-----------------------------------------------------------------------------
(* Frames is kept, one lemma per kind of step *)

\* Distances between event numbers are natural numbers.
LEMMA SinceTyped ==
  ASSUME Typing
  PROVE  /\ Behind \in Nat /\ \A s \in Seqs : Since(s) \in Nat
         /\ reply.seq \in Seqs /\ Since(reply.seq) \in Nat
<1>1. \A s \in Seqs : Since(s) \in Nat
  BY SinceSeq, SizesSane DEF Typing, Events, Since, Seqs
<1>2. event_seq_num \in Seqs /\ reply.seq \in Seqs
  BY DEF Typing, Numbered, Replies
<1> QED BY <1>1, <1>2 DEF Since, Behind

\* A step that moves no more than the finger, the clock or the interrupt queue.
LEMMA FramesStill == Frames /\ UNCHANGED frameVars => Frames'
BY DEF Frames, frameVars, NoneOwned, Abandoned, Acquiring, Noted, Following, Reading, Finishing,
  TornDown, Starting, Polling, FramesSince, Since, Behind, OwnFrame, Captured

\* A capture that ended promises nothing but TornDown.
LEMMA FramesEnd ==
  ASSUME cap' = "NULL", frame_got' = FALSE, TornDown'
  PROVE  Frames'
BY DEF Frames, NoneOwned, Abandoned, Acquiring, Noted, Following, Reading, Finishing,
  Starting, Polling

\* Starting a capture and every callback but the poll's keep Frames: the number
\* that frame-ready's arming brought is the one the poll starts from.
LEMMA FramesCallback ==
  ASSUME Typing, Frames, RefusesConfig = FALSE,
         \/ \E kind \in CC!Kinds : verimark_moc_capture_ssm_new(kind)
         \/ CallbackError \/ on_cap_event_config_done \/ on_cap_wait_press_done
         \/ on_cap_frame_acq_done \/ on_cap_frame_finish_done
  PROVE  Frames'
<1>0. Ssm
  BY DEF Typing, Control
<1>e. ASSUME NEW result, End(result), result # "ok"
      PROVE  Frames'
  BY <1>e, FramesEnd DEF End, TornDown
<1>1. CASE \E kind \in CC!Kinds : verimark_moc_capture_ssm_new(kind)
  <2>1. PICK kind \in CC!Kinds : verimark_moc_capture_ssm_new(kind)
    BY <1>1
  <2>2. /\ cap = "NULL" /\ cap' = "CAP_ARM_PRESS" /\ wire' = "sent" /\ outcome' = "none"
        /\ frame_got' = frame_got /\ log' = Stale(log)
        /\ acq' = [kind |-> acq.kind, own |-> FALSE]
    BY <2>1 DEF verimark_moc_capture_ssm_new, Enter
  <2>3. \A i \in DOMAIN log' : ~OwnFrame(log'[i])
    BY <2>2 DEF Stale, OwnFrame
  <2>4. frame_got' = FALSE
    BY <1>0, <2>2 DEF Ssm, Typing, Control
  <2> QED
    BY <2>2, <2>3, <2>4 DEF Frames, NoneOwned, Abandoned, Acquiring, Noted, Following,
       Reading, Finishing, TornDown, Starting, Polling
<1>2. CASE CallbackError
  BY <1>2, <1>e DEF CallbackError
<1>3. CASE on_cap_event_config_done
  <2>1. /\ wire = "answered" /\ cap \in ConfigStates
        /\ cap' = StateAfter[cap] /\ wire' \in {"sent", "intr"}
        /\ event_seq_num' = IF reply.full THEN reply.seq ELSE event_seq_num
        /\ UNCHANGED <<want, frame, outcome, frame_got, mask, log, next, acq>>
    BY <1>3 DEF on_cap_event_config_done, Answered, NextState, Enter, contractVars, eventVars
  <2>2. CASE cap = "CAP_ARM_PRESS"
    <3>1. cap' = "CAP_WAIT_PRESS"
      BY <2>1, <2>2 DEF StateAfter
    <3> QED BY <2>1, <2>2, <3>1 DEF Frames, NoneOwned, Abandoned, Acquiring, Noted, Following,
          Reading, Finishing, TornDown, Starting, Polling, OwnFrame, Captured
  <2>3. CASE cap = "CAP_ARM_FRAME"
    <3>1. cap' = "CAP_FRAME_ACQ" /\ event_seq_num' = reply.seq
      BY <2>1, <2>3 DEF StateAfter, Frames, Noted
    <3>2. wire' = "sent" /\ frame_got = FALSE
      BY <1>0, <1>3, <2>3, <3>1 DEF on_cap_event_config_done, NextState, Enter, Ssm, Typing, Control
    <3>3. Behind' = Since(reply.seq) /\ FramesSince(event_seq_num)' = FramesSince(reply.seq)
      BY <2>1, <3>1 DEF Behind, Since, FramesSince
    <3>4. Behind' <= LogSize /\ FramesSince(event_seq_num)' = {} /\ mask' = "FRAME"
      BY <2>1, <2>3, <3>3, SinceTyped, SizesSane DEF Frames, Noted
    <3>6. Behind' \in Nat
      BY <3>3, SinceTyped
    <3>5. acq = NoAcq /\ \A i \in DOMAIN log : ~OwnFrame(log[i])
      BY <2>3 DEF Frames, Abandoned, NoneOwned, Starting
    <3> QED BY <2>1, <2>3, <3>1, <3>2, <3>4, <3>5, <3>6, SizesSane
        DEF Frames, NoneOwned, Abandoned, Acquiring, Noted, Following, Reading, Finishing,
            TornDown, Starting, Polling, OwnFrame, NoAcq
  <2>4. CASE cap = "CAP_EVENT_CLEAR"
    <3>1. cap' = "CAP_FRAME_FINISH"
      BY <2>1, <2>4 DEF StateAfter
    <3> QED BY <2>1, <2>4, <3>1 DEF Frames, NoneOwned, Abandoned, Acquiring, Noted, Following,
          Reading, Finishing, TornDown, Starting, Polling, Captured
  <2> QED BY <2>1, <2>2, <2>3, <2>4 DEF ConfigStates
<1>4. CASE on_cap_wait_press_done
  <2>1. CASE NextState /\ UNCHANGED <<contractVars, late, frame_got, event_seq_num>>
    <3>1. /\ cap = "CAP_WAIT_PRESS" /\ cap' = "CAP_ARM_FRAME" /\ wire' = "sent"
          /\ UNCHANGED <<want, frame, outcome, frame_got, mask, log, next, acq>>
      BY <1>4, <2>1 DEF on_cap_wait_press_done, NextState, Enter, StateAfter, contractVars, eventVars
    <3> QED BY <3>1 DEF Frames, NoneOwned, Abandoned, Acquiring, Noted, Following,
          Reading, Finishing, TornDown, Starting, Polling, OwnFrame, Captured
  <2>2. CASE End("retry") \/ End("error")
    BY <1>e, <2>2
  <2> QED BY <1>4, <2>1, <2>2 DEF on_cap_wait_press_done, TimedOut
<1>5. CASE on_cap_frame_acq_done
  <2>1. /\ cap = "CAP_FRAME_ACQ" /\ wire = "answered" /\ cap' = "CAP_WAIT_FRAME" /\ wire' = "sent"
        /\ UNCHANGED <<want, frame, outcome, frame_got, event_seq_num, mask, log, next, acq>>
    BY <1>5 DEF on_cap_frame_acq_done, Answered, NextState, Enter, StateAfter, contractVars, eventVars
  <2>2. Behind' = Behind /\ FramesSince(event_seq_num)' = FramesSince(event_seq_num)
    BY <2>1 DEF Behind, FramesSince, Since
  <2> QED BY <2>1, <2>2 DEF Frames, NoneOwned, Abandoned, Acquiring, Noted, Following,
        Reading, Finishing, TornDown, Starting, Polling, OwnFrame, Captured
<1>6. CASE on_cap_frame_finish_done
  <2>1. /\ cap = "CAP_FRAME_FINISH" /\ End(Result) /\ UNCHANGED <<mask, acq>>
    BY <1>6 DEF on_cap_frame_finish_done, Answered, eventVars
  <2>2. TornDown'
    BY <2>1 DEF End, Result, TornDown, Frames, Finishing, Captured
  <2> QED BY <2>1, <2>2, FramesEnd DEF End
<1> QED BY <1>1, <1>2, <1>3, <1>4, <1>5, <1>6

\* Moving the number past n unread events leaves n events less unread.
LEMMA CaughtUp ==
  ASSUME Typing, NEW n \in Nat, n <= Behind
  PROVE  (next - NextSeq(n)) % SeqMod = Behind - n
<1> USE SizesSane
<1>1. next \in Seqs /\ event_seq_num \in Seqs
  BY DEF Typing, Events, Numbered
<1>2. Behind = IF next < event_seq_num THEN next - event_seq_num + SeqMod
                                       ELSE next - event_seq_num
  BY <1>1, SinceSeq DEF Behind
<1>3. n \in 0..SeqMod
  BY <1>1, <1>2 DEF Seqs
<1> DEFINE e == NextSeq(n)
<1>4. e \in Seqs /\ e = IF event_seq_num + n < SeqMod THEN event_seq_num + n
                                                    ELSE event_seq_num + n - SeqMod
  BY <1>1, <1>3, LaterSeq DEF NextSeq
<1> HIDE DEF e
<1>5. (next - e) % SeqMod = IF next < e THEN next - e + SeqMod ELSE next - e
  BY <1>1, <1>4, SinceSeq
<1>6. (next - e) % SeqMod = Behind - n
  BY <1>1, <1>2, <1>3, <1>4, <1>5 DEF Seqs
<1> QED BY <1>6 DEF e

\* on_cap_wait_frame_done keeps Frames: no frame among what it read is skipped.
LEMMA FramesPolled ==
  ASSUME Typing, Frames, on_cap_wait_frame_done
  PROVE  Frames'
<1> DEFINE n == reply.num
<1>1. /\ cap = "CAP_WAIT_FRAME" /\ wire = "answered" /\ UNCHANGED <<mask, log, next, acq>>
  BY DEF on_cap_wait_frame_done, Answered, eventVars
<1>2. CASE reply.status = "bad"
  BY <1>2, FramesEnd DEF on_cap_wait_frame_done, End, TornDown
<1>3. CASE reply.status # "bad"
  <2>1. /\ event_seq_num' = NextSeq(n) /\ wire' = "sent" /\ UNCHANGED <<want, frame, outcome>>
        /\ cap' \in {"CAP_EVENT_CLEAR", "CAP_WAIT_FRAME"}
        /\ cap' = "CAP_WAIT_FRAME" => ~SawFrameReady
        /\ frame_got' = FALSE => ~SawFrameReady
    BY <1>1, <1>3 DEF on_cap_wait_frame_done, NextState, Enter, StateAfter, contractVars
  <2>2. frame_got = FALSE /\ frame_got' \in BOOLEAN /\ (frame_got' => SawFrameReady)
    BY <1>1, <1>3 DEF on_cap_wait_frame_done, Typing, Control, Ssm
  <2>3. /\ n \in Nat /\ n <= Behind /\ (CutsReads = FALSE => Len(reply.evts) = n)
        /\ \A j \in 1..Len(reply.evts) : Len(log) - Behind + j >= 1 => reply.evts[j] = log[Len(log) - Behind + j]
    BY <1>1 DEF Frames, Reading, Typing, Numbered, Replies
  <2>4. Behind' = Behind - n /\ Behind \in Nat /\ Len(log) \in Nat
    <3>1. Behind' = (next - NextSeq(n)) % SeqMod
      BY <1>1, <2>1 DEF Behind
    <3> QED BY <2>3, <3>1, CaughtUp, SinceTyped DEF Typing, Events
  <2>5. SawFrameReady => Captured
    BY <1>1 DEF SawFrameReady, Frames, Reading
  <2>6. FramesSince(event_seq_num)' \subseteq FramesSince(event_seq_num)
    BY <1>1, <2>3, <2>4 DEF FramesSince, Since, Behind
  <2>7. ASSUME CutsReads = FALSE, NEW i \in DOMAIN log, i <= Len(log) - Behind', OwnFrame(log[i])
        PROVE  SawFrameReady
    <3>1. i \in Nat /\ i >= 1 /\ log \in Seq(Event)
      BY DEF Typing, Events
    <3>2. i > Len(log) - Behind
      BY <1>1, <2>2, <2>4, <2>7, <3>1 DEF Frames, Following, Polling
    <3> DEFINE j == i - (Len(log) - Behind)
    <3>3. j \in 1..Len(reply.evts) /\ Len(log) - Behind + j = i
      BY <2>3, <2>4, <2>7, <3>1, <3>2
    <3>4. reply.evts[j].type = "frame" /\ j \in DOMAIN reply.evts
      BY <2>3, <2>7, <3>1, <3>3 DEF OwnFrame, Typing, Numbered, Replies
    <3> QED BY <3>4 DEF SawFrameReady
  <2>8. /\ mask = "FRAME" /\ Behind <= LogSize + 1 /\ (acq # NoAcq => Behind <= LogSize)
        /\ FramesSince(event_seq_num) # {} => Captured
    BY <1>1 DEF Frames, Following, Polling
  <2>9. Following'
    <3>0. Behind' \in Int /\ Behind' <= Behind /\ LogSize \in Nat
      BY <2>3, <2>4, SizesSane
    <3>a. Behind <= LogSize + 1 /\ (acq # NoAcq => Behind <= LogSize) /\ Behind \in Int
      BY <2>4, <2>8
    <3>1. Behind' <= LogSize + 1 /\ (acq # NoAcq => Behind' <= LogSize)
      <4> QED BY <3>0, <3>a
    <3>2. FramesSince(event_seq_num)' # {} => Captured'
      BY <1>1, <2>1, <2>6, <2>8 DEF Captured
    <3>3. CutsReads = FALSE =>
            \A i \in DOMAIN log : i <= Len(log) - Behind' /\ OwnFrame(log[i]) => frame_got'
      BY <2>1, <2>2, <2>7
    <3> QED BY <1>1, <2>1, <2>8, <3>1, <3>2, <3>3 DEF Following, Starting, OwnFrame
  <2>10. Finishing' /\ Acquiring'
    BY <1>1, <2>1, <2>2, <2>5 DEF Finishing, Acquiring, Captured, Frames
  <2> QED
    BY <1>1, <2>1, <2>9, <2>10 DEF Frames, NoneOwned, Abandoned, Noted, Reading, TornDown, Starting
<1> QED BY <1>2, <1>3

\* What the sensor does with a command keeps Frames.
LEMMA FramesSensor ==
  ASSUME Typing, Frames, RefusesConfig = FALSE,
         SensorConfig \/ SensorAcq \/ SensorRead \/ SensorFinish \/ CommandFails
  PROVE  Frames'
<1> USE DEF driverVars
<1>1. CASE SensorConfig
  <2>1. /\ cap \in ConfigStates /\ wire = "sent" /\ wire' = "answered" /\ UNCHANGED <<driverVars, frame>>
        /\ mask' = MaskOf(cap) /\ reply'.full /\ reply'.seq = next
        /\ acq' = IF cap = "CAP_ARM_PRESS" THEN NoAcq ELSE acq
    BY <1>1 DEF SensorConfig, Executing, Answer
  <2>2. \/ UNCHANGED <<log, next>>
        \/ cap = "CAP_ARM_PRESS" /\ Post([type |-> "press", own |-> TRUE])
    BY <1>1 DEF SensorConfig
  <2>3. CASE cap = "CAP_ARM_PRESS"
    <3>1. \A i \in DOMAIN log : ~OwnFrame(log[i])
      BY <2>3 DEF Frames, NoneOwned, Starting
    <3>2. \A i \in DOMAIN log' : ~OwnFrame(log'[i])
      <4>1. CASE UNCHANGED log
        BY <3>1, <4>1
      <4>2. CASE Post([type |-> "press", own |-> TRUE])
        <5>1. [type |-> "press", own |-> TRUE] \in Event
          BY DEF Event
        <5>2. \A i \in DOMAIN log' : \/ log'[i] = [type |-> "press", own |-> TRUE]
                                     \/ \E j \in DOMAIN log : log'[i] = log[j]
          BY <4>2, <5>1, Posted DEF Typing, Events
        <5> QED BY <3>1, <5>2 DEF OwnFrame
      <4> QED BY <2>2, <4>1, <4>2
    <3> QED
      BY <2>1, <2>3, <3>2 DEF Frames, NoneOwned, Abandoned, Acquiring, Noted, Following, Reading,
         Finishing, TornDown, Starting, Polling, NoAcq, Typing, Control, Ssm
  <2>4. CASE cap = "CAP_ARM_FRAME"
    <3>1. /\ UNCHANGED <<log, next, acq>> /\ mask' = "FRAME"
      BY <2>1, <2>2, <2>4 DEF MaskOf
    <3>2. Since(reply.seq)' = 0
      BY <2>1, <3>1, SinceSeq DEF Since, Typing, Events, Seqs
    <3>3. FramesSince(reply.seq)' = {}
      <4>1. log \in Seq(Event)
        BY DEF Typing, Events
      <4> QED BY <3>1, <3>2, <4>1 DEF FramesSince
    <3> QED
      BY <2>1, <2>4, <3>1, <3>2, <3>3 DEF Frames, NoneOwned, Abandoned, Acquiring, Noted, Following,
         Reading, Finishing, TornDown, Starting, Polling, OwnFrame, Typing, Control, Ssm
  <2>5. CASE cap = "CAP_EVENT_CLEAR"
    <3>1. /\ UNCHANGED <<log, next, acq>> /\ mask' = "NONE"
      BY <2>1, <2>2, <2>5 DEF MaskOf
    <3> QED
      BY <2>1, <2>5, <3>1 DEF Frames, NoneOwned, Abandoned, Acquiring, Noted, Following,
         Reading, Finishing, TornDown, Starting, Polling, Captured, Typing, Control, Ssm
  <2> QED BY <2>1, <2>3, <2>4, <2>5 DEF ConfigStates
<1>2. CASE SensorAcq
  <2>1. /\ cap = "CAP_FRAME_ACQ" /\ wire = "sent" /\ wire' = "answered"
        /\ UNCHANGED <<driverVars, mask, log, next>>
        /\ \/ UNCHANGED <<acq, frame>>
           \/ acq' = [kind |-> want, own |-> TRUE] /\ frame' = "none"
    BY <1>2 DEF SensorAcq, Executing, Answer, Refused
  <2>2. Behind' = Behind /\ FramesSince(event_seq_num)' = {}
    BY <2>1 DEF Behind, FramesSince, Since, Frames, Following, Polling, Starting
  <2>3. acq = NoAcq /\ \A i \in DOMAIN log : ~OwnFrame(log[i])
    BY <2>1 DEF Frames, Abandoned, NoneOwned, Starting
  <2>4. /\ mask = "FRAME" /\ Behind <= LogSize /\ Behind \in Nat /\ frame_got = FALSE /\ outcome = "none"
    BY <2>1, SinceTyped DEF Frames, Following, Polling, Starting, Typing, Control, Ssm
  <2>5. acq' \in {NoAcq, [kind |-> want, own |-> TRUE]} 
    BY <2>1, <2>3
  <2> QED
    BY <2>1, <2>2, <2>3, <2>4, <2>5, SizesSane DEF Frames, NoneOwned, Abandoned, Acquiring, Noted, Following,
         Reading, Finishing, TornDown, Starting, Polling, OwnFrame
<1>3. CASE SensorRead
  <2>1. /\ cap = "CAP_WAIT_FRAME" /\ wire = "sent" /\ wire' = "answered"
        /\ UNCHANGED <<driverVars, frame, mask, log, next, acq>>
        /\ \/ reply'.evts = <<>> /\ reply'.num = 0
           \/ /\ Behind \in 1..Len(log)
              /\ \E n \in Brought : reply'.num = Counted /\ reply'.evts = Unread(n)
    BY <1>3 DEF SensorRead, Executing, Answer, Refused, eventVars
  <2>2. Behind' = Behind /\ FramesSince(event_seq_num)' = FramesSince(event_seq_num)
    BY <2>1 DEF Behind, FramesSince, Since
  <2>3. Reading'
    <3>1. CASE reply'.evts = <<>> /\ reply'.num = 0
      BY <2>2, <3>1, SinceTyped DEF Reading
    <3>2. CASE /\ Behind \in 1..Len(log)
               /\ \E n \in Brought : reply'.num = Counted /\ reply'.evts = Unread(n)
      <4>0. PICK n \in Brought : reply'.num = Counted /\ reply'.evts = Unread(n)
        BY <3>2
      <4> DEFINE f == Unread(n)
      <4>1. /\ Counted <= Behind /\ f \in Seq(Event) /\ Len(f) <= Counted
            /\ (CutsReads = FALSE => Len(f) = Counted)
            /\ \A j \in DOMAIN f : /\ Len(log) - Behind + j \in DOMAIN log
                                   /\ f[j] = log[Len(log) - Behind + j]
        <5>1. log \in Seq(Event) /\ Behind \in 1..Len(log)
          BY <3>2 DEF Typing, Events
        <5> QED BY <5>1, SomeUnread
      <4>2. DOMAIN f = 1..Len(f)
        BY <4>1
      <4>3. ASSUME NEW j \in DOMAIN f, f[j].type = "frame"
            PROVE  Captured
        <5>1. Len(log) - Behind + j \in FramesSince(event_seq_num)
          BY <3>2, <4>1, <4>2, <4>3 DEF FramesSince, Since, Behind, Typing, Events
        <5> QED BY <2>1, <5>1 DEF Frames, Following, Polling
      <4> HIDE DEF f
      <4> QED BY <2>1, <2>2, <4>0, <4>1, <4>3 DEF Reading, Captured, f
    <3> QED BY <2>1, <3>1, <3>2
  <2> QED
    BY <2>1, <2>2, <2>3 DEF Frames, NoneOwned, Abandoned, Acquiring, Noted, Following,
         Finishing, TornDown, Starting, Polling, OwnFrame, Captured
<1>4. CASE SensorFinish
  BY <1>4 DEF SensorFinish, Executing, Answer, Refused, Frames, NoneOwned, Abandoned, Acquiring, Noted,
    Following, Reading, Finishing, TornDown, Starting, Polling, OwnFrame, Captured
<1>5. CASE CommandFails
  <2>1. /\ wire' = "failed" /\ UNCHANGED <<driverVars, frame, mask, log, next, acq>> /\ wire \in {"sent", "answered"}
    BY <1>5 DEF CommandFails, eventVars
  <2>2. Behind' = Behind /\ FramesSince(event_seq_num)' = FramesSince(event_seq_num)
    BY <2>1 DEF Behind, FramesSince, Since
  <2> QED
    BY <2>1, <2>2 DEF Frames, NoneOwned, Abandoned, Acquiring, Noted, Following, Reading,
         Finishing, TornDown, Starting, Polling, OwnFrame, Captured
<1> QED BY <1>1, <1>2, <1>3, <1>4, <1>5

\* A posted event and the frames not read yet.
LEMMA PostedCounts ==
  ASSUME Typing, NEW e \in Event, Post(e), event_seq_num' = event_seq_num
  PROVE  /\ Behind < SeqMod - 1 => Behind' = Behind + 1
         /\ \A s \in Seqs : Since(s) < SeqMod - 1 => Since(s)' = Since(s) + 1
         /\ \A s \in Seqs : Since(s) < SeqMod - 1 /\ e.type # "frame" /\ FramesSince(s) = {}
                              => FramesSince(s)' = {}
         /\ (\A i \in DOMAIN log : ~OwnFrame(log[i])) /\ ~OwnFrame(e)
              => \A i \in DOMAIN log' : ~OwnFrame(log'[i])
<1>1. event_seq_num \in Seqs /\ log \in Seq(Event) /\ Len(log) <= LogSize /\ next \in Seqs
  BY DEF Typing, Numbered, Events
<1>2. /\ \A s \in Seqs : Since(s) < SeqMod - 1 => Since(s)' = Since(s) + 1
      /\ \A i \in DOMAIN log' :
           \/ i = Len(log') /\ log'[i] = e
           \/ LET j == i - Len(log') + 1 + Len(log)
              IN  j \in DOMAIN log /\ log'[i] = log[j]
      /\ log' \in Seq(Event)
  BY <1>1, Posted
<1>3. Behind = Since(event_seq_num) /\ Behind' = Since(event_seq_num)'
  BY DEF Behind, Since
<1>4. Behind < SeqMod - 1 => Behind' = Behind + 1
  BY <1>1, <1>2, <1>3
<1>5. ASSUME NEW s \in Seqs, Since(s) < SeqMod - 1, e.type # "frame",
             NEW i \in FramesSince(s)'
      PROVE  FramesSince(s) # {}
  <2> DEFINE j == i - Len(log') + 1 + Len(log)
  <2>1. i \in DOMAIN log' /\ i > Len(log') - Since(s)' /\ log'[i].type = "frame"
    BY <1>5 DEF FramesSince
  <2>2. j \in DOMAIN log /\ log'[i] = log[j]
    BY <1>2, <1>5, <2>1
  <2>3. /\ Since(s)' = Since(s) + 1 /\ Since(s) \in Nat
        /\ i \in Int /\ Len(log') \in Int /\ Len(log) \in Int
    BY <1>1, <1>2, <1>5, <2>1, SinceTyped
  <2>4. j > Len(log) - Since(s)
    BY <2>1, <2>3
  <2> QED BY <2>1, <2>2, <2>4 DEF FramesSince
<1> QED BY <1>2, <1>4, <1>5

\* What has been read, and what is on its way to the callback, stays where it was.
LEMMA PostedReading ==
  ASSUME Typing, NEW e \in Event, Post(e), event_seq_num' = event_seq_num, Behind < SeqMod - 1
  PROVE  /\ \A i \in DOMAIN log' : i <= Len(log') - Behind' /\ OwnFrame(log'[i]) =>
              \E j \in DOMAIN log : j <= Len(log) - Behind /\ OwnFrame(log[j])
         /\ \A k \in 1..Behind : Len(log') - Behind' + k >= 1 =>
              /\ Len(log) - Behind + k >= 1
              /\ log'[Len(log') - Behind' + k] = log[Len(log) - Behind + k]
<1>1. log \in Seq(Event) /\ Len(log) <= LogSize /\ next \in Seqs
  BY DEF Typing, Events
<1>2. /\ \A i \in DOMAIN log' :
           \/ i = Len(log') /\ log'[i] = e
           \/ LET j == i - Len(log') + 1 + Len(log)
              IN  j \in DOMAIN log /\ log'[i] = log[j]
      /\ log' \in Seq(Event)
  BY <1>1, Posted
<1>3. Behind' = Behind + 1 /\ Behind \in Nat /\ Len(log) \in Nat /\ Len(log') \in Nat
  BY <1>1, <1>2, PostedCounts, SinceTyped
<1>4. ASSUME NEW i \in DOMAIN log', i <= Len(log') - Behind', OwnFrame(log'[i])
      PROVE  \E j \in DOMAIN log : j <= Len(log) - Behind /\ OwnFrame(log[j])
  <2> DEFINE j == i - Len(log') + 1 + Len(log)
  <2>1. i \in Int /\ i # Len(log')
    BY <1>2, <1>3, <1>4
  <2>2. j \in DOMAIN log /\ log'[i] = log[j] /\ j <= Len(log) - Behind
    BY <1>2, <1>3, <1>4, <2>1
  <2> QED BY <1>4, <2>2
<1>5. ASSUME NEW k \in 1..Behind, Len(log') - Behind' + k >= 1
      PROVE  /\ Len(log) - Behind + k >= 1
             /\ log'[Len(log') - Behind' + k] = log[Len(log) - Behind + k]
  <2> DEFINE i == Len(log') - Behind' + k
             j == i - Len(log') + 1 + Len(log)
  <2>1. i \in DOMAIN log' /\ i # Len(log')
    BY <1>2, <1>3, <1>5
  <2>2. j \in DOMAIN log /\ log'[i] = log[j]
    BY <1>2, <2>1
  <2>3. j = Len(log) - Behind + k
    BY <1>3
  <2> QED BY <1>1, <2>2, <2>3
<1> QED BY <1>4, <1>5

\* What the sensor and the finger do by themselves keeps Frames.
LEMMA FramesPosted ==
  ASSUME Typing, Frames, FingerMoves \/ SensorAcquires \/ SensorOther
  PROVE  Frames'
<1>0. /\ UNCHANGED <<want, outcome, cap, wire, reply, frame_got, event_seq_num, mask>>
      /\ Ssm /\ LogSize \in Nat /\ SeqMod \in Nat /\ LogSize + 1 < SeqMod
  BY SizesSane DEF FingerMoves, SensorAcquires, SensorOther, contractVars, ssmVars, Typing, Control
<1>1. CASE FingerMoves
  <2>1. UNCHANGED <<frame, acq>>
    BY <1>1 DEF FingerMoves, contractVars
  <2>2. CASE UNCHANGED <<log, next>>
    BY <1>0, <2>1, <2>2, FramesStill DEF frameVars
  <2>3. CASE mask = "FINGER"
    <3> DEFINE e == [type |-> IF finger THEN "remove" ELSE "press", own |-> want # "none"]
    <3>1. e \in Event /\ ~OwnFrame(e) /\ Post(e)
      BY <1>1, <2>3 DEF Event, OwnFrame, FingerMoves
    <3> HIDE DEF e
    <3>2. (\A i \in DOMAIN log : ~OwnFrame(log[i])) => \A i \in DOMAIN log' : ~OwnFrame(log'[i])
      BY <1>0, <3>1, PostedCounts
    <3> QED
      BY <1>0, <2>1, <2>3, <3>2 DEF Frames, NoneOwned, Abandoned, Acquiring, Noted, Following,
         Reading, Finishing, TornDown, Starting, Polling, Captured
  <2> QED BY <1>1, <2>2, <2>3 DEF FingerMoves
<1>2. CASE SensorAcquires
  <2> DEFINE e == [type |-> "frame", own |-> acq.own]
  <2>1. /\ acq # NoAcq /\ frame' = acq.kind /\ acq' = NoAcq
        /\ IF mask = "FRAME" THEN Post(e) ELSE UNCHANGED <<log, next>>
    BY <1>2 DEF SensorAcquires
  <2>2. frame_got = FALSE /\ outcome # "ok"
    BY <2>1 DEF Frames, Finishing, Captured, TornDown, Typing, Control
  <2>3. e \in Event
    <3>1. acq \in [kind : CC!Kinds, own : BOOLEAN]
      BY <2>1 DEF Typing, Control
    <3> QED BY <3>1 DEF Event
  <2>4. Starting => cap = "CAP_ARM_PRESS" /\ wire # "answered" /\ acq.own = FALSE
    BY <2>1 DEF Frames, Abandoned, NoneOwned
  <2>5. Starting => \A i \in DOMAIN log' : ~OwnFrame(log'[i])
    <3>1. Starting => ~OwnFrame(e) /\ \A i \in DOMAIN log : ~OwnFrame(log[i])
      BY <2>4 DEF OwnFrame, Frames, NoneOwned
    <3> HIDE DEF e
    <3> QED BY <1>0, <2>1, <2>3, <3>1, PostedCounts
  <2>6. NoneOwned' /\ Abandoned' /\ Acquiring' /\ Noted' /\ Finishing' /\ TornDown'
    BY <1>0, <2>1, <2>2, <2>4, <2>5 DEF Frames, NoneOwned, Abandoned, Acquiring, Noted, Finishing,
       TornDown, Starting, NoAcq
  <2>7. ASSUME Polling PROVE Following' /\ Reading'
    <3>1. mask = "FRAME" /\ Post(e) /\ ~Starting /\ Behind <= LogSize /\ Behind \in Nat
      BY <2>1, <2>4, <2>7, SinceTyped DEF Frames, Following, Polling
    <3>2. acq = [kind |-> want, own |-> TRUE] /\ Captured'
      BY <1>0, <2>1, <2>7 DEF Frames, Acquiring, Polling, Captured
    <3> HIDE DEF e
    <3>3. Behind < SeqMod - 1 /\ Behind' = Behind + 1
      BY <1>0, <2>3, <3>1, PostedCounts
    <3>4. CutsReads = FALSE =>
            \A i \in DOMAIN log' : ~(i <= Len(log') - Behind' /\ OwnFrame(log'[i]))
      BY <1>0, <2>2, <2>3, <2>7, <3>1, <3>3, PostedReading DEF Frames, Following
    <3>5. Following'
      BY <1>0, <2>1, <3>1, <3>2, <3>3, <3>4 DEF Following, Starting
    <3>6. Reading'
      <4> SUFFICES ASSUME cap = "CAP_WAIT_FRAME" /\ wire = "answered"
                   PROVE  Reading'
        BY <1>0 DEF Reading
      <4>1. /\ Len(reply.evts) <= reply.num /\ reply.num <= Behind
            /\ reply.num \in Nat /\ reply.evts \in Seq(Event)
        BY DEF Frames, Reading, Typing, Numbered, Replies
      <4>2. ASSUME NEW j \in DOMAIN reply.evts, Len(log') - Behind' + j >= 1
            PROVE  reply.evts[j] = log'[Len(log') - Behind' + j]
        <5>1. j \in 1..Behind
          BY <3>1, <4>1
        <5>2. /\ Len(log) - Behind + j >= 1
              /\ log'[Len(log') - Behind' + j] = log[Len(log) - Behind + j]
          BY <1>0, <2>3, <3>1, <3>3, <4>2, <5>1, PostedReading
        <5> QED BY <5>2 DEF Frames, Reading
      <4>3. /\ Len(reply.evts) <= reply.num /\ reply.num <= Behind'
            /\ CutsReads = FALSE => Len(reply.evts) = reply.num
        BY <3>1, <3>3, <4>1 DEF Frames, Reading
      <4> QED BY <1>0, <3>2, <4>2, <4>3 DEF Reading
    <3> QED BY <3>5, <3>6
  <2> QED BY <1>0, <2>6, <2>7 DEF Frames, Following, Reading, Polling
<1>3. CASE SensorOther
  <2> DEFINE e == [type |-> "other", own |-> FALSE]
  <2>1. /\ mask = "FRAME" /\ Behind < LogSize /\ Post(e) /\ UNCHANGED <<frame, acq>>
        /\ e \in Event /\ e.type # "frame" /\ ~OwnFrame(e) /\ Behind \in Nat
    BY <1>3, SinceTyped DEF SensorOther, contractVars, Event, OwnFrame
  <2> HIDE DEF e
  <2>2. Behind < SeqMod - 1 /\ Behind' = Behind + 1
    BY <1>0, <2>1, PostedCounts
  <2>3. NoneOwned'
    BY <1>0, <2>1, PostedCounts DEF Frames, NoneOwned, Starting
  <2>4. Noted'
    <3> SUFFICES ASSUME cap = "CAP_ARM_FRAME" /\ wire = "answered"
                 PROVE  Noted'
      BY <1>0 DEF Noted
    <3>1. /\ reply.full /\ FramesSince(reply.seq) = {}
          /\ Since(reply.seq) = 0 \/ (Since(reply.seq) <= Behind /\ Behind <= LogSize)
          /\ reply.seq \in Seqs /\ Since(reply.seq) \in Nat
      BY SinceTyped DEF Frames, Noted
    <3>2. Since(reply.seq) < SeqMod - 1 /\ Since(reply.seq) <= Behind
      BY <1>0, <2>1, <3>1
    <3>3. Since(reply.seq)' = Since(reply.seq) + 1 /\ FramesSince(reply.seq)' = {}
      <4>1. \A s \in Seqs : s = reply.seq => /\ Since(s)' = Since(s) + 1 /\ FramesSince(s)' = {}
        BY <1>0, <2>1, <3>1, <3>2, PostedCounts
      <4>2. Since(reply.seq)' = (next' - reply.seq) % SeqMod
        BY <1>0 DEF Since
      <4> QED BY <1>0, <3>1, <4>1 DEF FramesSince, Since
    <3> QED BY <1>0, <2>1, <2>2, <3>1, <3>2, <3>3 DEF Noted
  <2>5. ASSUME Polling PROVE Following' /\ Reading'
    <3>1. /\ FramesSince(event_seq_num) # {} => Captured /\ ~Starting
          /\ CutsReads = FALSE =>
               \A i \in DOMAIN log : i <= Len(log) - Behind /\ OwnFrame(log[i]) => frame_got
      BY <2>5 DEF Frames, Following
    <3>2. Since(event_seq_num) = Behind /\ event_seq_num \in Seqs
      BY DEF Since, Behind, Typing, Numbered
    <3>3. FramesSince(event_seq_num) = {} => FramesSince(event_seq_num)' = {}
      <4>1. \A s \in Seqs : s = event_seq_num => (FramesSince(s) = {} => FramesSince(s)' = {})
        BY <1>0, <2>1, <2>2, <3>2, PostedCounts
      <4> QED BY <1>0, <3>2, <4>1 DEF FramesSince, Since
    <3>4. CutsReads = FALSE =>
            \A i \in DOMAIN log' : i <= Len(log') - Behind' /\ OwnFrame(log'[i]) => frame_got
      BY <1>0, <2>1, <2>2, <3>1, PostedReading
    <3>5. Following'
      BY <1>0, <2>1, <2>2, <3>1, <3>3, <3>4 DEF Following, Starting, Captured
    <3>6. Reading'
      <4> SUFFICES ASSUME cap = "CAP_WAIT_FRAME" /\ wire = "answered"
                   PROVE  Reading'
        BY <1>0 DEF Reading
      <4>1. /\ Len(reply.evts) <= reply.num /\ reply.num <= Behind
            /\ reply.num \in Nat /\ reply.evts \in Seq(Event)
        BY DEF Frames, Reading, Typing, Numbered, Replies
      <4>2. ASSUME NEW j \in DOMAIN reply.evts, Len(log') - Behind' + j >= 1
            PROVE  reply.evts[j] = log'[Len(log') - Behind' + j]
        <5>1. j \in 1..Behind
          BY <2>1, <4>1
        <5>2. /\ Len(log) - Behind + j >= 1
              /\ log'[Len(log') - Behind' + j] = log[Len(log) - Behind + j]
          BY <1>0, <2>1, <2>2, <4>2, <5>1, PostedReading
        <5> QED BY <5>2 DEF Frames, Reading
      <4>3. /\ Len(reply.evts) <= reply.num /\ reply.num <= Behind'
            /\ CutsReads = FALSE => Len(reply.evts) = reply.num
        BY <2>1, <2>2, <4>1 DEF Frames, Reading
      <4>4. \A j \in DOMAIN reply.evts : reply.evts[j].type = "frame" => Captured'
        BY <1>0, <2>1 DEF Frames, Reading, Captured
      <4> QED BY <1>0, <4>2, <4>3, <4>4 DEF Reading
    <3> QED BY <3>5, <3>6
  <2>6. Abandoned' /\ Acquiring' /\ Finishing' /\ TornDown'
    BY <1>0, <2>1 DEF Frames, Abandoned, Acquiring, Finishing, TornDown, Starting, Captured
  <2> QED BY <1>0, <2>3, <2>4, <2>5, <2>6 DEF Frames, Following, Reading, Polling
<1> QED BY <1>1, <1>2, <1>3

-----------------------------------------------------------------------------
(* The theorems *)

\* The initial state is well-typed.
LEMMA TypingInit == Init => Typing
<1> SUFFICES ASSUME Init PROVE Typing
  OBVIOUS
<1>1. Control
  BY DEF Init, CC!Init, Control, Ssm, CC!Kinds, CC!Outcomes
<1>2. Numbered
  BY NoReplyTyped, SizesSane DEF Init, Numbered, Seqs
<1>3. Events
  <2>1. next = 0 /\ log = <<>> /\ intr = <<>>
    BY DEF Init
  <2>2. <<>> \in Seq(Event) /\ Len(<<>>) = 0
    OBVIOUS
  <2> QED BY <2>1, <2>2, SizesSane DEF Events, Seqs
<1> QED BY <1>1, <1>2, <1>3 DEF Typing

\* The types and the agreement of the SSM's state with what it waits for are
\* kept by every step, whatever the sensor refuses.
THEOREM Typed == Spec => []Typing
<1>1. Init => Typing
  BY TypingInit
<1>2. Typing /\ [Next]_vars => Typing'
  BY ControlKept, NumberedKept, EventsKept DEF Typing
<1> QED BY <1>1, <1>2, PTL DEF Spec

\* Every variable keeps its type; the event number stays one of the counter's
\* values, the log and the interrupt queue keep within their sizes.
THEOREM TypeCorrect == Spec => []TypeOK
<1>1. Typing => TypeOK
  BY DEF Typing, TypeOK, Control, Numbered, Events, Replies
<1> QED BY <1>1, Typed, PTL

\* A press of this capture leaves the interrupt queue only where it ends the wait
\* for a press: neither a callback nor the drain eats it.
THEOREM PressReadOnce == Spec => PressNotEaten
<1> DEFINE A == want # "none" /\ Len(intr') < Len(intr) /\ Head(intr).type = "press" /\ Head(intr).own
                  => cap = "CAP_WAIT_PRESS" /\ cap' = "CAP_ARM_FRAME"
<1>1. Typing /\ [Next]_vars => A
  <2> SUFFICES ASSUME Typing, [Next]_vars, want # "none", Len(intr') < Len(intr),
                      Head(intr).type = "press"
               PROVE  cap = "CAP_WAIT_PRESS" /\ cap' = "CAP_ARM_FRAME"
    OBVIOUS
  <2>1. cap # "NULL" /\ intr \in Seq(Event) /\ Len(intr) \in Nat
    BY DEF Typing, Control, Ssm, Events
  <2>2. intr' # intr
    BY <2>1
  <2>3. ~\E e \in Event : Post(e)
    <3> SUFFICES ASSUME NEW e \in Event, Post(e) PROVE FALSE
      OBVIOUS
    <3> QED BY <2>1 DEF Post
  <2>4. CASE on_cap_wait_press_done
    BY <2>2, <2>4 DEF on_cap_wait_press_done, TimedOut, ReadOther, ReadPress, NextState, Enter, StateAfter
  <2>5. CASE \E kind \in CC!Kinds : verimark_moc_capture_ssm_new(kind)
    BY <2>1, <2>5 DEF verimark_moc_capture_ssm_new
  <2>6. CASE SensorConfig
    <3>1. [type |-> "press", own |-> TRUE] \in Event
      BY DEF Event
    <3> QED BY <2>2, <2>3, <2>6, <3>1 DEF SensorConfig
  <2>7. CASE FingerMoves
    <3>1. [type |-> IF finger THEN "remove" ELSE "press", own |-> want # "none"] \in Event
      BY DEF Event
    <3> QED BY <2>2, <2>3, <2>7, <3>1 DEF FingerMoves
  <2>8. ~SensorAcquires /\ ~SensorOther
    BY <2>2 DEF SensorAcquires, SensorOther, Post
  <2> QED
    BY <2>1, <2>2, <2>4, <2>5, <2>6, <2>7, <2>8 DEF Next, Callbacks, Sensor, vars, eventVars,
       CallbackError, on_cap_event_config_done, QueueAtWait, on_intr_read_done, ReadOther,
       on_cap_frame_acq_done, on_cap_wait_frame_done, on_cap_frame_finish_done, DeadlinePasses,
       verimark_intr_drain_sync, Crash, UseFrame, SensorAcq, SensorRead, SensorFinish, CommandFails
<1> QED BY <1>1, Typed, PTL DEF Spec, PressNotEaten

\* Every step keeps Frames.
LEMMA FramesKept ==
  ASSUME RefusesConfig = FALSE, Typing, Frames, [Next]_vars
  PROVE  Frames'
<1>1. CASE on_intr_read_done \/ DeadlinePasses \/ verimark_intr_drain_sync \/ UNCHANGED vars
  BY <1>1, FramesStill DEF frameVars, on_intr_read_done, DeadlinePasses, verimark_intr_drain_sync,
     vars, contractVars, ssmVars, eventVars
<1>2. CASE Crash
  BY <1>2, FramesEnd DEF Crash, TornDown
<1>3. CASE UseFrame
  <2>1. cap = "NULL" /\ cap' = "NULL" /\ frame_got' = frame_got /\ outcome' = "none"
    BY <1>3 DEF UseFrame, ssmVars
  <2> QED BY <2>1, FramesEnd DEF Typing, Control, Ssm, TornDown
<1> QED
  BY <1>1, <1>2, <1>3, FramesCallback, FramesPolled, FramesSensor, FramesPosted
     DEF Next, Callbacks, Sensor

\* Nothing is owned or captured at the start.
LEMMA FramesInit == Init => Frames
BY DEF Init, CC!Init, Frames, NoneOwned, Abandoned, Acquiring, Noted, Following, Reading,
  Finishing, TornDown, Starting, Polling

\* The invariant about the frame holds in every state, with a sensor that
\* refuses no EVENT_CONFIG.
THEOREM FramesHeld ==
  ASSUME RefusesConfig = FALSE
  PROVE  Spec => []Frames
<1>1. Typing /\ Frames /\ [Next]_vars => Frames'
  BY FramesKept
<1> QED BY <1>1, FramesInit, Typed, PTL DEF Spec

\* A capture that succeeds has disarmed the events and left no acquisition open,
\* after any history of cancelled, failed and crashed captures.
THEOREM TornDownKept ==
  ASSUME RefusesConfig = FALSE
  PROVE  Spec => []TornDown
<1>1. Frames => TornDown
  BY DEF Frames
<1> QED BY <1>1, FramesHeld, PTL

\* No frame-ready event of the capture in progress is behind the driver's event
\* number unseen, wherever the counter wraps and however the batches fall, with
\* a sensor that sends the record of every event it counts.
THEOREM FrameSeen ==
  ASSUME RefusesConfig = FALSE, CutsReads = FALSE
  PROVE  Spec => []NoFrameMissed
<1>1. Typing /\ Frames => NoFrameMissed
  <2> SUFFICES ASSUME Typing, Frames, cap \in {"CAP_WAIT_FRAME", "CAP_EVENT_CLEAR"}, wire = "sent",
                      NEW i \in 1..Len(log) - Behind, log[i].type = "frame", log[i].own
               PROVE  frame_got
    BY DEF NoFrameMissed
  <2>1. i \in DOMAIN log /\ i <= Len(log) - Behind
    BY SinceTyped DEF Typing, Events
  <2> QED BY <2>1 DEF Frames, Following, Polling, OwnFrame
<1> QED BY <1>1, FramesHeld, Typed, PTL

\* Capture implements CaptureContract: a capture that ends well leaves in the
\* sensor a frame of the kind it was asked for, and nothing changes that frame
\* before it is used.
THEOREM ContractKept ==
  ASSUME RefusesConfig = FALSE
  PROVE  Spec => Contract
<1>1. Init => CC!Init
  BY DEF Init
<1>2. Typing /\ Frames /\ Typing' /\ [Next]_vars => [CC!Next]_<<want, frame, outcome>>
  <2> SUFFICES ASSUME Typing, Frames, Typing', [Next]_vars
               PROVE  CC!Next \/ UNCHANGED <<want, frame, outcome>>
    OBVIOUS
  <2>0. Ssm /\ want \in CC!Kinds \cup {"none"} /\ frame' \in CC!Kinds \cup {"none"}
    BY DEF Typing, Control
  <2> USE DEF contractVars
  <2>e. ASSUME NEW r \in {"retry", "error"}, End(r), cap # "NULL" PROVE CC!Next
    BY <2>0, <2>e DEF End, Ssm, CC!Next, CC!Fail
  <2>1. CASE \E kind \in CC!Kinds : verimark_moc_capture_ssm_new(kind)
    <3>1. PICK kind \in CC!Kinds : verimark_moc_capture_ssm_new(kind)
      BY <2>1
    <3>2. CC!Start(kind)
      BY <2>0, <3>1 DEF verimark_moc_capture_ssm_new, CC!Start, Ssm
    <3> QED BY <3>2 DEF CC!Next
  <2>2. CASE CallbackError
    BY <2>0, <2>2, <2>e DEF CallbackError, Ssm
  <2>3. CASE on_cap_wait_press_done
    BY <2>3, <2>e DEF on_cap_wait_press_done, TimedOut
  <2>4. CASE on_cap_wait_frame_done
    BY <2>4, <2>e DEF on_cap_wait_frame_done, Answered
  <2>5. CASE on_cap_frame_finish_done
    <3>1. CASE frame_got
      <4>1. CC!Deliver
        BY <2>0, <2>5, <3>1 DEF on_cap_frame_finish_done, Answered, End, Result, CC!Deliver, Frames,
           Finishing, Captured, Ssm
      <4> QED BY <4>1 DEF CC!Next
    <3>2. CASE ~frame_got
      BY <2>5, <2>e, <3>2 DEF on_cap_frame_finish_done, Answered, Result
    <3> QED BY <3>1, <3>2
  <2>6. CASE UseFrame
    BY <2>0, <2>6 DEF UseFrame, Ssm, CC!Next, CC!Use
  <2>7. CASE Crash
    BY <2>7 DEF Crash, CC!Next, CC!Die
  <2>8. CASE SensorAcq
    BY <2>0, <2>8 DEF SensorAcq, Executing, Answer, Refused, driverVars, Ssm, CC!Next, CC!Acquire
  <2>9. CASE SensorAcquires
    <3>1. outcome # "ok" /\ UNCHANGED <<want, outcome>>
      BY <2>9 DEF SensorAcquires, Frames, TornDown
    <3> QED BY <2>0, <3>1 DEF CC!Next, CC!Acquire
  <2> QED
    BY <2>1, <2>2, <2>3, <2>4, <2>5, <2>6, <2>7, <2>8, <2>9 DEF Next, Callbacks, Sensor, vars,
       on_cap_event_config_done, on_intr_read_done, on_cap_frame_acq_done, DeadlinePasses,
       verimark_intr_drain_sync, SensorConfig, SensorRead, SensorFinish, CommandFails, FingerMoves,
       SensorOther, Answer, Refused, driverVars
<1> QED BY <1>1, <1>2, FramesHeld, Typed, PTL DEF Spec, Contract, CC!Spec

-----------------------------------------------------------------------------
(* A capture runs out of steps *)

\* What is left in each state and on each wire.
LEMMA StatesLeftAre ==
  /\ StatesLeft["NULL"] = 0 /\ StatesLeft["CAP_FRAME_FINISH"] = 1
  /\ StatesLeft["CAP_EVENT_CLEAR"] = 2 /\ StatesLeft["CAP_WAIT_FRAME"] = 3
  /\ StatesLeft["CAP_FRAME_ACQ"] = 4 /\ StatesLeft["CAP_ARM_FRAME"] = 5
  /\ StatesLeft["CAP_WAIT_PRESS"] = 6 /\ StatesLeft["CAP_ARM_PRESS"] = 7
BY DEF StatesLeft

LEMMA WireLeftIs ==
  /\ WireLeft["idle"] = 0 /\ WireLeft["failed"] = 1 /\ WireLeft["intr"] = 1
  /\ WireLeft["answered"] = 2 /\ WireLeft["sent"] = 3
BY DEF WireLeft

\* In a capture something is left to do, and when it ends nothing is.
LEMMA EndIsLess ==
  ASSUME Control, cap # "NULL", cap' = "NULL", wire' = "idle"
  PROVE  StepsLeft' < StepsLeft
<1>1. StatesLeft[cap] \in 1..7 /\ WireLeft[wire] \in 0..3
  BY StatesLeftAre, WireLeftIs DEF Control, CapStates, ConfigStates
<1>2. StepsLeft = 4 * StatesLeft[cap] + WireLeft[wire]
  BY DEF StepsLeft
<1>3. StepsLeft' = 4 * StatesLeft["NULL"] + WireLeft["idle"]
  BY DEF StepsLeft
<1> QED
  BY <1>1, <1>2, <1>3, StatesLeftAre, WireLeftIs

\* The next state has less left, whichever command it sends.
LEMMA NextStateIsLess ==
  ASSUME Control, cap \notin {"NULL", "CAP_FRAME_FINISH"}, NextState
  PROVE  StepsLeft' < StepsLeft
<1>1. cap' = StateAfter[cap] /\ wire' \in {"intr", "sent"}
  BY DEF NextState, Enter
<1>2. StatesLeft[cap] \in 2..7 /\ StatesLeft[cap'] = StatesLeft[cap] - 1
  BY <1>1, StatesLeftAre DEF Control, CapStates, ConfigStates, StateAfter
<1>3. WireLeft[wire] \in 1..3 /\ WireLeft[wire'] \in 1..3
  BY <1>1, WireLeftIs DEF Control, Ssm
<1>4. StepsLeft = 4 * StatesLeft[cap] + WireLeft[wire]
  BY DEF StepsLeft
<1>5. StepsLeft' = 4 * StatesLeft[cap'] + WireLeft[wire']
  BY DEF StepsLeft, StatesLeft, WireLeft
<1> QED
  BY <1>2, <1>3, <1>4, <1>5

\* An answer leaves less than its command, a failure less than an answer.
LEMMA WireIsLess ==
  ASSUME Control, cap # "NULL", cap' = cap,
         \/ wire = "sent" /\ wire' = "answered"
         \/ wire \in {"sent", "answered"} /\ wire' = "failed"
  PROVE  StepsLeft' < StepsLeft
<1>1. StatesLeft[cap] \in 1..7
  BY StatesLeftAre DEF Control, CapStates, ConfigStates
<1>2. WireLeft[wire'] < WireLeft[wire] /\ WireLeft[wire] \in 0..3 /\ WireLeft[wire'] \in 0..3
  BY WireLeftIs
<1>3. StepsLeft = 4 * StatesLeft[cap] + WireLeft[wire]
  BY DEF StepsLeft
<1>4. StepsLeft' = 4 * StatesLeft[cap] + WireLeft[wire']
  BY DEF StepsLeft, StatesLeft, WireLeft
<1> QED
  BY <1>1, <1>2, <1>3, <1>4

\* A capture takes at most four steps in each of its states, whatever the sensor
\* answers and whichever commands fail, but for the EVENT_READs that are polled
\* before the deadline of the frame.
THEOREM CapturesRunOut == Spec => CaptureRunsOut
<1>1. Typing /\ [Next]_vars
        => [cap # "NULL" => \/ StepsLeft' < StepsLeft
                            \/ cap = "CAP_WAIT_FRAME" /\ cap' = cap /\ ~late]_<<cap, wire>>
  <2> SUFFICES ASSUME Control, [Next]_vars, cap # "NULL", <<cap, wire>>' # <<cap, wire>>,
                      ~(cap = "CAP_WAIT_FRAME" /\ cap' = cap /\ ~late)
               PROVE  StepsLeft' < StepsLeft
    BY DEF Typing
  <2>1. ASSUME NEW r, End(r) PROVE StepsLeft' < StepsLeft
    BY <2>1, EndIsLess DEF End
  <2>2. CASE CallbackError
    BY <2>1, <2>2 DEF CallbackError
  <2>3. CASE on_cap_event_config_done
    BY <2>3, NextStateIsLess DEF on_cap_event_config_done, Answered, ConfigStates
  <2>4. CASE on_intr_read_done
    BY <2>4 DEF on_intr_read_done, ssmVars
  <2>5. CASE on_cap_wait_press_done
    BY <2>1, <2>5, NextStateIsLess DEF on_cap_wait_press_done
  <2>6. CASE on_cap_frame_acq_done
    BY <2>6, NextStateIsLess DEF on_cap_frame_acq_done, Answered
  <2>7. CASE on_cap_wait_frame_done
    <3>1. cap = "CAP_WAIT_FRAME"
      BY <2>7 DEF on_cap_wait_frame_done, Answered
    <3>2. CASE NextState
      BY <3>1, <3>2, NextStateIsLess
    <3>3. CASE ~PastDeadline /\ Enter("CAP_WAIT_FRAME")
      BY <3>1, <3>3 DEF PastDeadline, Enter
    <3> QED
      BY <2>1, <2>7, <3>2, <3>3 DEF on_cap_wait_frame_done
  <2>8. CASE on_cap_frame_finish_done
    BY <2>1, <2>8 DEF on_cap_frame_finish_done
  <2>9. CASE Crash
    BY <2>9, EndIsLess DEF Crash
  <2>10. CASE Sensor
    <3>1. cap' = cap /\ \/ wire = "sent" /\ wire' = "answered"
                        \/ wire \in {"sent", "answered"} /\ wire' = "failed"
      BY <2>10 DEF Sensor, SensorConfig, SensorAcq, SensorRead, SensorFinish, CommandFails,
                   Executing, Refused, Answer, driverVars
    <3> QED
      BY <3>1, WireIsLess
  <2>11. ~\E kind \in CC!Kinds : verimark_moc_capture_ssm_new(kind)
    BY DEF verimark_moc_capture_ssm_new
  <2>12. ~(UseFrame \/ DeadlinePasses \/ verimark_intr_drain_sync \/ FingerMoves
           \/ SensorAcquires \/ SensorOther \/ UNCHANGED vars)
    BY DEF UseFrame, DeadlinePasses, verimark_intr_drain_sync, FingerMoves, SensorAcquires,
           SensorOther, ssmVars, vars
  <2> QED
    BY <2>2, <2>3, <2>4, <2>5, <2>6, <2>7, <2>8, <2>9, <2>10, <2>11, <2>12 DEF Next, Callbacks
<1> QED
  BY <1>1, Typed, PTL DEF Spec, CaptureRunsOut
=============================================================================
