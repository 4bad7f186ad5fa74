---------------------------- MODULE ControlComm ----------------------------
(***************************************************************************)
(* The prototype's loop over a command's control-WRITEs (_ctrl_write of    *)
(* src/prototype/control_comm.py), as the reference of the driver's plan   *)
(* of chunks.  It is given by its rounds, and a sequence of transfers is   *)
(* checked against them one by one.                                        *)
(***************************************************************************)
EXTENDS Framing

\* Python's remainder is never negative.
PaddedTotal(truelen) == truelen + ((8 - (truelen % 8)) % 8)

\* The transfer of the round that starts at off.
Round(truelen, off) ==
  LET total  == PaddedTotal(truelen)
      size   == Least(MaxChunk, total - off)
      islast == off + size >= total
  IN  [offset |-> off,
       len    |-> size,
       wvalue |-> [cont |-> off # 0,
                   more |-> ~islast /\ size = MaxChunk,
                   low  |-> IF islast THEN truelen % 8 ELSE 0]]

End(transfer) == transfer.offset + transfer.len

\* The transfers are the loop's for a command of truelen bytes, from the first
\* one on: all of them, or as many as limit allows.
CtrlWrite(truelen, limit, transfers) ==
  LET count == Len(transfers)
      total == PaddedTotal(truelen)
  IN  /\ count \in 1..limit
      /\ transfers[1] = Round(truelen, 0)
      /\ \A i \in 1..count - 1 : /\ End(transfers[i]) < total
                                 /\ transfers[i + 1] = Round(truelen, End(transfers[i]))
      /\ count = limit \/ ~(End(transfers[count]) < total)
=============================================================================
