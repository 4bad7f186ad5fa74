----------------------------- MODULE MCSession -----------------------------
(* The module TLC runs for the configurations of Session. *)
EXTENDS Session
=============================================================================
