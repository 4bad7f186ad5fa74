------------------------------ MODULE MCCapture ------------------------------
(* Capture with a small event log: the instance TLC checks. *)
EXTENDS Capture
=============================================================================
