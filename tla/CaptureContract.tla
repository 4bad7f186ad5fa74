---------------------------- MODULE CaptureContract ----------------------------
(***************************************************************************)
(* What the operations of the driver rely on when they start a capture     *)
(* (verimark-moc.c, verimark_moc_capture_ssm_new and its completion): each *)
(* capture ends once, and when it ends well the sensor holds a frame of    *)
(* the kind that was asked for, until a command uses it.  A capture that   *)
(* ends with an error promises nothing about the sensor's frame.           *)
(***************************************************************************)
VARIABLES want,     \* kind of frame the capture in progress acquires, or "none"
          frame,    \* kind of the frame the sensor holds, or "none"
          outcome   \* how the latest capture ended

Kinds    == {"verify", "enroll"}
Outcomes == {"none", "ok", "retry", "error"}

Init == want = "none" /\ frame = "none" /\ outcome = "none"

Start(kind) ==
  /\ want = "none"
  /\ want' = kind /\ outcome' = "none"
  /\ UNCHANGED frame

Deliver ==
  /\ want # "none" /\ frame = want
  /\ want' = "none" /\ outcome' = "ok"
  /\ UNCHANGED frame

Fail ==
  /\ want # "none"
  /\ want' = "none" /\ outcome' \in {"retry", "error"}
  /\ UNCHANGED frame

\* A command of the operation consumes the frame the capture delivered.
Use ==
  /\ want = "none" /\ outcome = "ok"
  /\ frame' = "none" /\ outcome' = "none"
  /\ UNCHANGED want

\* The process dies, in a capture or before it used the frame.
Die ==
  /\ want' = "none" /\ outcome' = "error"
  /\ UNCHANGED frame

\* Only while no delivered frame waits to be used may the sensor change it.
Acquire ==
  /\ outcome # "ok"
  /\ frame' \in Kinds \cup {"none"}
  /\ UNCHANGED <<want, outcome>>

Next == (\E kind \in Kinds : Start(kind)) \/ Deliver \/ Fail \/ Use \/ Die \/ Acquire

Spec == Init /\ [][Next]_<<want, frame, outcome>>
=============================================================================
