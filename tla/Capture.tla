------------------------------- MODULE Capture -------------------------------
(***************************************************************************)
(* The capture SSM of src/driver/verimark-moc.c: arm the finger events,    *)
(* wait for a press on the interrupt endpoint, arm frame-ready, start the  *)
(* acquisition, poll EVENT_READ for the frame-ready event, disarm, finish. *)
(* One action of this module is one completion callback together with the  *)
(* state handler it enters; the wait on the interrupt endpoint             *)
(* (verimark-transport.c) is the one state that reads a queue instead of   *)
(* sending a command.  A command is sent, executed and answered by the     *)
(* sensor, and may fail before or after it was executed: a lost transfer,  *)
(* a cancelled action.  Between captures the device may be closed and      *)
(* opened, which drains the interrupt endpoint; the process may die at any *)
(* time and leave the sensor armed.                                        *)
(*                                                                         *)
(* The sensor is external.  Assumed of it: events are numbered from the    *)
(* answer to EVENT_CONFIG on and only those of the armed mask are posted;  *)
(* an acquisition needs the finger; arming the finger events abandons an   *)
(* acquisition an earlier capture left open, starting an acquisition drops *)
(* the previous frame; a finger already down when its events are armed is  *)
(* echoed as a press; an EVENT_READ counts the events it answers with.     *)
(* Whether it refuses an EVENT_CONFIG, and whether it sends the record of  *)
(* every event it counts, is for the configuration to say.                 *)
(***************************************************************************)
EXTENDS Integers, Sequences

CONSTANTS
  SeqMod,        \* event numbers wrap here: 2^16 in the code
  LogSize,       \* events the sensor keeps for EVENT_READ
  Batch,         \* events one EVENT_READ asks for: 32 in the code
  IntrSize,      \* bound on the packets queued on the interrupt endpoint
  MaxDrained,    \* packets one drain reads at most: 16 in the code
  RefusesConfig, \* can the sensor refuse an EVENT_CONFIG?
  CutsReads      \* can an EVENT_READ bring fewer records than it counts?

ASSUME SizesSane == /\ LogSize \in Nat \ {0} /\ Batch \in Nat \ {0}
                    /\ IntrSize \in Nat \ {0} /\ MaxDrained \in Nat
                    /\ SeqMod \in Nat /\ SeqMod > LogSize + 1
ASSUME RefusesBoolean == RefusesConfig \in BOOLEAN
ASSUME CutsBoolean == CutsReads \in BOOLEAN

VARIABLES
  want, frame, outcome,   \* as in CaptureContract; want is ctx->acq_kind
  \* the driver
  cap,            \* state of the capture SSM
  wire,           \* what that state waits for
  reply,          \* the decrypted answer on its way to the callback
  late,           \* the deadline of the current wait has passed
  frame_got,      \* ctx->frame_got
  event_seq_num,  \* self->event_seq_num
  \* the sensor
  finger,         \* is a finger on it?
  mask,           \* the armed event mask
  log, next,      \* the latest events and the number of the next one
  acq,            \* the acquisition in progress
  intr            \* packets on the interrupt endpoint nobody has read

contractVars == <<want, frame, outcome>>
ssmVars      == <<cap, wire, reply, late, frame_got, event_seq_num>>
eventVars    == <<mask, log, next, acq>>
vars == <<contractVars, ssmVars, finger, eventVars, intr>>

CC == INSTANCE CaptureContract

ConfigStates == {"CAP_ARM_PRESS", "CAP_ARM_FRAME", "CAP_EVENT_CLEAR"}
CapStates    == ConfigStates \cup {"CAP_WAIT_PRESS", "CAP_FRAME_ACQ",
                                   "CAP_WAIT_FRAME", "CAP_FRAME_FINISH"}
Seqs == 0..SeqMod - 1

\* An event, and whether the capture in progress caused it (history).
Event == [type : {"press", "remove", "frame", "other"}, own : BOOLEAN]
Stale(q) == [i \in DOMAIN q |-> [type |-> q[i].type, own |-> FALSE]]

NoAcq   == [kind |-> "none", own |-> FALSE]
\* An answer: its status, whether it has more than that, the event number of an
\* EVENT_CONFIG, and for an EVENT_READ the count of events and their records.
NoReply == [status |-> "bad", full |-> FALSE, seq |-> 0, num |-> 0, evts |-> <<>>]

Init ==
  /\ CC!Init
  /\ cap = "NULL" /\ wire = "idle" /\ reply = NoReply /\ late = FALSE
  /\ frame_got = FALSE /\ event_seq_num = 0
  /\ finger = FALSE /\ mask = "NONE" /\ log = <<>> /\ next = 0 /\ acq = NoAcq
  /\ intr = <<>>

-----------------------------------------------------------------------------
(* The driver *)

Enter(s) == /\ cap' = s /\ reply' = NoReply
            /\ wire' = IF s = "CAP_WAIT_PRESS" THEN "intr" ELSE "sent"

\* fpi_ssm_next_state
StateAfter == [CAP_ARM_PRESS  |-> "CAP_WAIT_PRESS", CAP_WAIT_PRESS |-> "CAP_ARM_FRAME",
               CAP_ARM_FRAME  |-> "CAP_FRAME_ACQ",  CAP_FRAME_ACQ  |-> "CAP_WAIT_FRAME",
               CAP_WAIT_FRAME |-> "CAP_EVENT_CLEAR", CAP_EVENT_CLEAR |-> "CAP_FRAME_FINISH"]
NextState == Enter(StateAfter[cap])

\* The SSM is completed or failed; its completion belongs to the operation.
End(result) ==
  /\ want' = "none" /\ outcome' = result /\ UNCHANGED frame
  /\ cap' = "NULL" /\ wire' = "idle" /\ reply' = NoReply
  /\ late' = FALSE /\ frame_got' = FALSE /\ UNCHANGED event_seq_num

Answered(s) == cap = s /\ wire = "answered"

verimark_moc_capture_ssm_new(acq_kind) ==
  /\ cap = "NULL" /\ outcome # "ok"
  /\ want' = acq_kind /\ outcome' = "none"
  /\ Enter("CAP_ARM_PRESS")
  /\ log' = Stale(log) /\ intr' = Stale(intr) /\ acq' = [kind |-> acq.kind, own |-> FALSE]
  /\ UNCHANGED <<frame, late, frame_got, event_seq_num, finger, mask, next>>

\* A callback that gets an error fails the SSM: nothing is disarmed or finished.
CallbackError ==
  /\ wire = "failed"
  /\ End("error")
  /\ UNCHANGED <<finger, eventVars, intr>>

\* The packets the wait for a press finds: nothing is drained when it starts.
QueueAtWait_Drained == IF cap = "CAP_ARM_PRESS" THEN <<>> ELSE intr   \* mutant
QueueAtWait == intr

\* The status is not looked at; only a long enough answer sets the number.
on_cap_event_config_done ==
  /\ \E s \in ConfigStates : Answered(s)
  /\ event_seq_num' = IF reply.full THEN reply.seq ELSE event_seq_num
  /\ NextState /\ intr' = QueueAtWait
  /\ UNCHANGED <<contractVars, late, frame_got, finger, eventVars>>

\* on_intr_read_done: the wait ends with the first packet of a press; another
\* packet is dropped, and ends it only past the deadline.
ReadPress == intr # <<>> /\ Head(intr).type = "press" /\ intr' = Tail(intr)
ReadOther == intr # <<>> /\ Head(intr).type # "press" /\ intr' = Tail(intr)
TimedOut_OnPacket == late /\ ReadOther   \* mutant
TimedOut  == late /\ (ReadOther \/ UNCHANGED intr)

on_intr_read_done ==
  /\ cap = "CAP_WAIT_PRESS" /\ ~late
  /\ ReadOther
  /\ UNCHANGED <<contractVars, ssmVars, finger, eventVars>>

on_cap_wait_press_done ==
  /\ cap = "CAP_WAIT_PRESS"
  /\ \/ ReadPress /\ NextState /\ UNCHANGED <<contractVars, late, frame_got, event_seq_num>>
     \/ TimedOut /\ End("retry")
     \/ End("error") /\ UNCHANGED intr
  /\ UNCHANGED <<finger, eventVars>>

\* Nor is the status of FRAME_ACQ looked at.
on_cap_frame_acq_done ==
  /\ Answered("CAP_FRAME_ACQ")
  /\ late' = FALSE
  /\ NextState
  /\ UNCHANGED <<contractVars, frame_got, event_seq_num, finger, eventVars, intr>>

NextSeq_Wide(n) == event_seq_num + n   \* mutant
NextSeq(n) == (event_seq_num + n) % SeqMod

SawFrameReady_FirstOnly == reply.evts # <<>> /\ Head(reply.evts).type = "frame"  \* mutant
SawFrameReady == \E i \in DOMAIN reply.evts : reply.evts[i].type = "frame"

PastDeadline_Never == FALSE   \* mutant
PastDeadline == late

\* The records that are there are looked at; the number advances by the count.
on_cap_wait_frame_done ==
  /\ Answered("CAP_WAIT_FRAME")
  /\ IF reply.status = "bad"
       THEN End("error")
       ELSE /\ event_seq_num' = NextSeq(reply.num)
            /\ \/ SawFrameReady /\ frame_got' = TRUE /\ NextState
               \/ ~SawFrameReady /\ PastDeadline /\ frame_got' = FALSE /\ NextState
               \/ /\ ~SawFrameReady /\ ~PastDeadline
                  /\ Enter("CAP_WAIT_FRAME") /\ UNCHANGED frame_got
            /\ UNCHANGED <<contractVars, late>>
  /\ UNCHANGED <<finger, eventVars, intr>>

Result_AlwaysOk == "ok"   \* mutant
Result == IF frame_got THEN "ok" ELSE "retry"

on_cap_frame_finish_done ==
  /\ Answered("CAP_FRAME_FINISH")
  /\ End(Result)
  /\ UNCHANGED <<finger, eventVars, intr>>

DeadlinePasses ==
  /\ cap \in {"CAP_WAIT_PRESS", "CAP_WAIT_FRAME"} /\ ~late
  /\ late' = TRUE
  /\ UNCHANGED <<contractVars, cap, wire, reply, frame_got, event_seq_num,
                 finger, eventVars, intr>>

\* dev_open drains before anything else.  A read that times out or fails ends
\* the drain, whatever is queued; so does the last one allowed.
verimark_intr_drain_sync ==
  /\ cap = "NULL" /\ outcome # "ok"
  /\ \E n \in 1..Len(intr) : n <= MaxDrained /\ intr' = SubSeq(intr, n + 1, Len(intr))
  /\ UNCHANGED <<contractVars, ssmVars, finger, eventVars>>

\* What the process held in memory starts anew, the sensor is as it was.
Crash ==
  /\ want' = "none" /\ outcome' = "error" /\ UNCHANGED frame
  /\ cap' = "NULL" /\ wire' = "idle" /\ reply' = NoReply
  /\ late' = FALSE /\ frame_got' = FALSE /\ event_seq_num' = 0
  /\ UNCHANGED <<finger, eventVars, intr>>

\* The operation uses the frame the capture delivered.
UseFrame ==
  /\ cap = "NULL" /\ outcome = "ok"
  /\ frame' = "none" /\ outcome' = "none"
  /\ UNCHANGED <<want, ssmVars, finger, eventVars, intr>>

-----------------------------------------------------------------------------
(* The sensor and the finger (external) *)

driverVars == <<want, outcome, cap, late, frame_got, event_seq_num>>

MaskOf_KeepsFrame(s) == IF s = "CAP_ARM_PRESS" THEN "FINGER" ELSE "FRAME"   \* mutant
MaskOf(s) == CASE s = "CAP_ARM_PRESS"   -> "FINGER"
               [] s = "CAP_ARM_FRAME"   -> "FRAME"
               [] s = "CAP_EVENT_CLEAR" -> "NONE"

LastEvents(q) == IF Len(q) > LogSize THEN Tail(q) ELSE q

Post(e) == /\ log' = LastEvents(Append(log, e))
           /\ next' = (next + 1) % SeqMod
           /\ intr' = IF e.type \in {"press", "remove"} THEN Append(intr, e) ELSE intr

Executing(s) == cap = s /\ wire = "sent"

Answer(status, full, seq, num, evts) ==
  /\ wire' = "answered"
  /\ reply' = [status |-> status, full |-> full, seq |-> seq, num |-> num, evts |-> evts]
  /\ UNCHANGED driverVars

Refused == Answer("bad", FALSE, 0, 0, <<>>)

SensorConfig ==
  /\ \E s \in ConfigStates : Executing(s)
  /\ \/ RefusesConfig /\ Refused /\ UNCHANGED <<mask, log, next, acq, intr>>
     \/ /\ Answer("ok", TRUE, next, 0, <<>>)
        /\ mask' = MaskOf(cap)
        /\ acq' = IF cap = "CAP_ARM_PRESS" THEN NoAcq ELSE acq
        /\ IF cap = "CAP_ARM_PRESS" /\ finger
             THEN Len(intr) < IntrSize /\ Post([type |-> "press", own |-> TRUE])
             ELSE UNCHANGED <<log, next, intr>>
  /\ UNCHANGED <<frame, finger>>

SensorAcq ==
  /\ Executing("CAP_FRAME_ACQ")
  /\ \/ Refused /\ UNCHANGED <<acq, frame>>
     \/ /\ Answer("ok", TRUE, 0, 0, <<>>)
        /\ acq' = [kind |-> want, own |-> TRUE] /\ frame' = "none"
  /\ UNCHANGED <<finger, mask, log, next, intr>>

\* Events posted since the host's number, as the sensor counts them, and the
\* first n of those.
Behind == (next - event_seq_num) % SeqMod
Unread(n) == SubSeq(log, Len(log) - Behind + 1, Len(log) - Behind + n)

\* How many of them an EVENT_READ counts, and how many records it may bring.
Counted == IF Behind > Batch THEN Batch ELSE Behind
Brought == IF CutsReads THEN 0..Counted ELSE {Counted}

SensorRead ==
  /\ Executing("CAP_WAIT_FRAME")
  /\ \/ Refused
     \/ Answer("ok", FALSE, 0, 0, <<>>)
     \/ Behind = 0 /\ Answer("notready", FALSE, 0, 0, <<>>)
     \/ /\ Behind \in 1..Len(log)
        /\ \E n \in Brought : Answer("ok", TRUE, 0, Counted, Unread(n))
  /\ UNCHANGED <<frame, finger, eventVars, intr>>

SensorFinish ==
  /\ Executing("CAP_FRAME_FINISH")
  /\ \/ Refused /\ UNCHANGED acq
     \/ Answer("ok", TRUE, 0, 0, <<>>) /\ acq' = NoAcq
  /\ UNCHANGED <<frame, finger, mask, log, next, intr>>

\* The transfer fails, before the sensor executed the command or after.
CommandFails ==
  /\ wire \in {"sent", "answered"}
  /\ wire' = "failed" /\ reply' = NoReply
  /\ UNCHANGED <<driverVars, frame, finger, eventVars, intr>>

\* The finger is laid on the sensor or lifted.
FingerMoves ==
  /\ finger' = ~finger
  /\ IF mask = "FINGER"
       THEN /\ Len(intr) < IntrSize
            /\ Post([type |-> IF finger THEN "remove" ELSE "press", own |-> want # "none"])
       ELSE UNCHANGED <<log, next, intr>>
  /\ UNCHANGED <<contractVars, ssmVars, mask, acq>>

\* The acquisition has its frame.
SensorAcquires ==
  /\ acq # NoAcq /\ finger
  /\ frame' = acq.kind /\ acq' = NoAcq
  /\ IF mask = "FRAME" THEN Post([type |-> "frame", own |-> acq.own])
                       ELSE UNCHANGED <<log, next, intr>>
  /\ UNCHANGED <<want, outcome, ssmVars, finger, mask>>

\* Another event the frame mask lets through; bounded by what the log holds.
SensorOther ==
  /\ mask = "FRAME" /\ Behind < LogSize
  /\ Post([type |-> "other", own |-> FALSE])
  /\ UNCHANGED <<contractVars, ssmVars, finger, mask, acq>>

-----------------------------------------------------------------------------

Callbacks == \/ CallbackError \/ on_cap_event_config_done \/ on_intr_read_done
             \/ on_cap_wait_press_done \/ on_cap_frame_acq_done \/ on_cap_wait_frame_done
             \/ on_cap_frame_finish_done

Sensor == SensorConfig \/ SensorAcq \/ SensorRead \/ SensorFinish \/ CommandFails

Next == \/ \E kind \in CC!Kinds : verimark_moc_capture_ssm_new(kind)
        \/ Callbacks \/ UseFrame \/ DeadlinePasses
        \/ verimark_intr_drain_sync \/ Crash
        \/ Sensor \/ FingerMoves \/ SensorAcquires \/ SensorOther

\* A read of the interrupt endpoint fails, other than by its own timeout.
ReadFails == cap = "CAP_WAIT_PRESS" /\ outcome' = "error"

\* Transfers time out, callbacks run from the main loop, the clock advances.
\* Nobody owes the sensor a finger, or the wait for one an error.
Fairness == /\ WF_vars(Callbacks /\ ~ReadFails)
            /\ WF_vars(Sensor)
            /\ WF_vars(DeadlinePasses)

Spec == Init /\ [][Next]_vars /\ Fairness

-----------------------------------------------------------------------------
(* Properties *)

\* Every variable keeps its type; in particular the event number stays a
\* 16-bit one.
TypeOK ==
  /\ want \in CC!Kinds \cup {"none"} /\ frame \in CC!Kinds \cup {"none"}
  /\ outcome \in CC!Outcomes
  /\ cap \in CapStates \cup {"NULL"}
  /\ wire \in {"idle", "sent", "answered", "failed", "intr"}
  /\ reply \in [status : {"ok", "bad", "notready"}, full : BOOLEAN, seq : Seqs,
                num : Nat, evts : Seq(Event)]
  /\ late \in BOOLEAN /\ frame_got \in BOOLEAN /\ event_seq_num \in Seqs
  /\ finger \in BOOLEAN /\ mask \in {"NONE", "FINGER", "FRAME"}
  /\ log \in Seq(Event) /\ Len(log) <= LogSize /\ next \in Seqs
  /\ acq \in [kind : CC!Kinds, own : BOOLEAN] \cup {NoAcq}
  /\ intr \in Seq(Event) /\ Len(intr) <= IntrSize

\* A capture keeps its contract: it succeeds only when the sensor holds a frame
\* of the kind it asked for, also after captures that were cancelled or failed
\* half-way and left the event mask armed or an acquisition open.
Contract == CC!Spec

\* No frame-ready event of this capture is lost between two polls: whatever was
\* read past it was recognised.
NoFrameMissed ==
  cap \in {"CAP_WAIT_FRAME", "CAP_EVENT_CLEAR"} /\ wire = "sent" =>
    \A i \in 1..Len(log) - Behind : log[i].type = "frame" /\ log[i].own => frame_got

\* A capture that succeeds has disarmed the events and left no acquisition open.
TornDown == outcome = "ok" => mask = "NONE" /\ acq = NoAcq

\* A press the sensor sent after the capture armed it is never thrown away: it
\* is read only to end the wait for a press, so one tap is enough.
PressNotEaten ==
  [][want # "none" /\ Len(intr') < Len(intr) /\ Head(intr).type = "press" /\ Head(intr).own
       => cap = "CAP_WAIT_PRESS" /\ cap' = "CAP_ARM_FRAME"]_vars

\* What is left of a capture: its states, and in each the command on its way,
\* its answer and its failure.
StatesLeft == [NULL |-> 0, CAP_FRAME_FINISH |-> 1, CAP_EVENT_CLEAR |-> 2,
               CAP_WAIT_FRAME |-> 3, CAP_FRAME_ACQ |-> 4, CAP_ARM_FRAME |-> 5,
               CAP_WAIT_PRESS |-> 6, CAP_ARM_PRESS |-> 7]
WireLeft == [idle |-> 0, failed |-> 1, intr |-> 1, answered |-> 2, sent |-> 3]
StepsLeft == 4 * StatesLeft[cap] + WireLeft[wire]

\* Every step of the SSM leaves less to do, whatever fails; only another
\* EVENT_READ before the deadline of the frame puts the end off.
CaptureRunsOut ==
  [][cap # "NULL" => \/ StepsLeft' < StepsLeft
                     \/ cap = "CAP_WAIT_FRAME" /\ cap' = cap /\ ~late]_<<cap, wire>>

\* Every capture ends, finger or no finger.
CaptureEnds == cap # "NULL" ~> cap = "NULL"

-----------------------------------------------------------------------------
(* Claims of comments that the code does not keep *)

\* verimark-transport.c:479-480: only a press sent after the wait was armed can
\* satisfy it.
FreshPress ==
  [][cap = "CAP_WAIT_PRESS" /\ cap' = "CAP_ARM_FRAME" => Head(intr).own]_vars
=============================================================================
