---------------------------- MODULE MCTransport ----------------------------
(* The module TLC runs for Transport.cfg. *)
EXTENDS Transport, ControlComm

\* The driver's plan for a command is what the prototype's loop transfers, up
\* to the size of the chunk table; and so it is for every shorter one.
PlanIsPrototypes ==
  ssm = "WRITE_CHUNK" /\ wchunk_idx = 0 =>
    \A n \in 0..cmd.len : CtrlWrite(n, ChunksMax, verimark_frame_write_chunks(n))
=============================================================================
