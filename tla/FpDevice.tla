------------------------------- MODULE FpDevice -------------------------------
(***************************************************************************)
(* What libfprint's FpDevice expects of any driver, as an abstract         *)
(* specification: one action at a time, every action that was started is   *)
(* completed exactly once, and for verify and identify the report and the  *)
(* completion agree (fpi_device_verify_report before a successful          *)
(* fpi_device_verify_complete, none before a failed one).  The code is     *)
(* libfprint's, outside this repository; the contract is modelled from the *)
(* calls src/driver makes.                                                 *)
(***************************************************************************)
VARIABLES act,       \* the action in progress, or "none"
          cancelled, \* the action's GCancellable has fired
          last       \* how the latest action ended

fpVars == <<act, cancelled, last>>

Matching == {"verify", "identify"}
Ops      == Matching \cup {"enroll", "list", "delete", "clear_storage"}
Reports  == {"match", "no_match", "retry", "none"}
Results  == {"ok", "retry", "error"}

\* The report and the completion of one action agree.
Legal(op, report, result) ==
  IF op \in Matching
    THEN (result = "ok") <=> (report # "none")
    ELSE report = "none"

Ending(op, report, result) == [op |-> op, report |-> report, result |-> result]
NoEnding == Ending("none", "none", "ok")

Init == act = "none" /\ cancelled = FALSE /\ last = NoEnding

Start(op) ==
  /\ act = "none"
  /\ act' = op
  /\ cancelled' = FALSE
  /\ last' = NoEnding

Cancel ==
  /\ act # "none"
  /\ cancelled' = TRUE
  /\ UNCHANGED <<act, last>>

Complete(report, result) ==
  /\ act # "none"
  /\ Legal(act, report, result)
  /\ act' = "none"
  /\ cancelled' = FALSE
  /\ last' = Ending(act, report, result)

\* An action the driver refuses before it does anything.
Refuse(op) ==
  /\ act = "none"
  /\ op \notin Matching
  /\ last' = Ending(op, "none", "error")
  /\ UNCHANGED <<act, cancelled>>

Completes == \E report \in Reports, result \in Results : Complete(report, result)

Next ==
  \/ \E op \in Ops : Start(op) \/ Refuse(op)
  \/ Cancel
  \/ Completes

Spec == Init /\ [][Next]_fpVars /\ WF_fpVars(Completes)
===============================================================================
