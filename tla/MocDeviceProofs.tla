--------------------------- MODULE MocDeviceProofs ---------------------------
(***************************************************************************)
(* Theorems about MocDevice, for every set of ids, coverage, number of     *)
(* stages and attempts.  The inductive invariant IInv is proved one        *)
(* conjunct at a time, each with one step per action; the safety           *)
(* properties and the refinement of FpDevice follow from it.               *)
(***************************************************************************)
EXTENDS MocDevice, TLAPS

-----------------------------------------------------------------------------
(* Records the steps assign, and steps several actions share *)

\* The fields of the answer no callback has yet.
LEMMA NoReplyFields ==
  /\ NoReply \in Reply
  /\ NoReply.form = "full" /\ NoReply.status = "ok"
  /\ NoReply.cov = 0 /\ NoReply.id = Zero
  BY BoundsPositive DEF NoReply, Reply

\* The fields of the session left after a commit.
LEMMA NoSessionFields ==
  /\ NoSession \in Session
  /\ ~NoSession.open /\ ~NoSession.own /\ ~NoSession.final
  /\ NoSession.cov = 0 /\ NoSession.id = Zero
  BY BoundsPositive DEF NoSession, Session

\* The fields of the session a create opens.
LEMMA OpenSessionFields ==
  /\ OpenSession \in Session
  /\ OpenSession.open /\ OpenSession.own /\ ~OpenSession.final
  /\ OpenSession.cov = 0 /\ OpenSession.id = Zero
  BY BoundsPositive DEF OpenSession, Session

\* Entering a state of an SSM keeps the types of the SSM's variables.
LEMMA EnterTypes ==
  ASSUME SsmTypes, NEW s \in TaskStates, Enter(s)
  PROVE  SsmTypes'
  BY NoReplyFields DEF Enter, SsmTypes

\* So does starting an action.
LEMMA BeginTypes ==
  ASSUME TypeOK, NEW op \in FP!Ops, NEW prints \in SUBSET FpPrint, NEW s \in TaskStates,
         Begin(op, prints, s)
  PROVE  CallTypes' /\ SsmTypes'
<1>1. CallTypes'
  BY DEF Begin, CallTypes, FP!NoEnding, FP!Ending, FP!Reports, FP!Results
<1>2. SsmTypes'
  BY EnterTypes DEF Begin, TypeOK
<1> QED BY <1>1, <1>2

\* So does completing one.
LEMMA FinishTypes ==
  ASSUME TypeOK, NEW report \in FP!Reports, NEW result \in FP!Results,
         Finish(report, result)
  PROVE  CallTypes' /\ SsmTypes' /\ CtxTypes'
<1>1. CallTypes'
  BY DEF Finish, TypeOK, FP!Ending, CallTypes
<1>2. SsmTypes'
  BY NoReplyFields DEF Finish, TypeOK, SsmTypes
<1>3. attempt' \in 0..MaxAttempts
  BY BoundsPositive DEF Finish
<1>4. CtxTypes'
  BY <1>3 DEF Finish, CtxTypes
<1> QED BY <1>1, <1>2, <1>4

\* So does an answer of the sensor.
LEMMA AnswerTypes ==
  ASSUME TypeOK, NEW form \in {"full", "short", "empty"}, NEW status \in {"ok", "bad"},
         NEW cov \in 0..FullCoverage, NEW id \in Ids \cup {Zero},
         Answer(form, status, cov, id)
  PROVE  CallTypes' /\ SsmTypes' /\ CtxTypes' /\ EnrollTypes' /\ saved' \in SUBSET Ids
<1>1. SsmTypes'
  BY DEF Answer, TypeOK, SsmTypes, Reply
<1>2. CallTypes' /\ CtxTypes' /\ EnrollTypes' /\ saved' \in SUBSET Ids
  BY DEF Answer, TypeOK, CallTypes, CtxTypes, EnrollTypes, ClientTypes, fpVars, ctxVars,
         enrollVars
<1> QED BY <1>1, <1>2

\* What a step leaves alone keeps its type.
LEMMA SameTypes ==
  TypeOK => /\ UNCHANGED fpVars => CallTypes'
            /\ UNCHANGED ssmVars => SsmTypes'
            /\ UNCHANGED ctxVars => CtxTypes'
            /\ UNCHANGED enrollVars => EnrollTypes'
            /\ UNCHANGED sensorVars => SensorTypes'
            /\ UNCHANGED clientVars => ClientTypes'
  BY DEF TypeOK, CallTypes, SsmTypes, CtxTypes, EnrollTypes, SensorTypes, ClientTypes,
         fpVars, ssmVars, ctxVars, enrollVars, sensorVars, templates, clientVars

\* Without an action there is no SSM and nothing is under way.
LEMMA IdleIsNull ==
  ASSUME TaskOfAction, act = "none"
  PROVE  task_ssm = "NULL" /\ wire = "idle"
  BY DEF TaskOfAction, StatesOf, FP!Matching

-----------------------------------------------------------------------------
(* The initial states *)

\* The driver after dev_open, with nothing enrolled.
LEMMA InitIInv == Init => IInv
<1> SUFFICES ASSUME Init PROVE IInv
  OBVIOUS
<1> USE DEF Init
<1>1. TypeOK
  <2>1. CallTypes
    BY DEF CallTypes, FP!Init, FP!NoEnding, FP!Ending, FP!Reports, FP!Results
  <2>2. SsmTypes
    BY NoReplyFields DEF SsmTypes
  <2>3. CtxTypes /\ EnrollTypes
    <3>1. 0 \in 0..MaxAttempts /\ 0 \in 0..EnrollStages /\ 0 \in 0..FullCoverage
      BY BoundsPositive
    <3> QED BY <3>1 DEF CtxTypes, EnrollTypes
  <2>4. SensorTypes /\ ClientTypes
    BY NoSessionFields DEF SensorTypes, ClientTypes
  <2> QED BY <2>1, <2>2, <2>3, <2>4 DEF TypeOK
<1>2. TaskOfAction
  BY DEF TaskOfAction, StatesOf, FP!Init, FP!Matching, CaptureStates
<1>3. SessionMinted
  BY NoSessionFields DEF SessionMinted
<1>4. AnswersTrue /\ FrameFresh /\ FinalizeNamesMinted
  BY DEF AnswersTrue, FrameFresh, FinalizeNamesMinted
<1>5. SlotAccounted /\ UnlessEmpty
  BY DEF SlotAccounted, UnlessEmpty, OwnSession, PrintBacked
<1> QED BY <1>1, <1>2, <1>3, <1>4, <1>5 DEF IInv

-----------------------------------------------------------------------------
(* The steps: one lemma per conjunct of IInv, one step per action *)

\* Every step keeps the types.  The ones that need more than their own types: a
\* successful commit stores an id (FinalizeNamesMinted), so does the sensor's
\* commit (SessionMinted).
LEMMA TypeStep == IInv /\ [Next]_vars => TypeOK'
<1> SUFFICES ASSUME IInv, [Next]_vars PROVE TypeOK'
  OBVIOUS
<1> USE DEF IInv, TypeOK
<1>1. CASE verimark_moc_enroll
  <2>1. CallTypes' /\ SsmTypes'
    BY <1>1, BeginTypes DEF verimark_moc_enroll, TaskStates, EnrollStates, FP!Ops
  <2>2. CtxTypes' /\ ClientTypes'
    BY <1>1, SameTypes DEF verimark_moc_enroll
  <2>3. EnrollTypes'
    BY <1>1, BoundsPositive DEF verimark_moc_enroll, EnrollTypes
  <2>4. SensorTypes'
    BY <1>1 DEF verimark_moc_enroll, SensorTypes, Session, templates
  <2> QED BY <2>1, <2>2, <2>3, <2>4
<1>2. CASE verimark_moc_verify
  <2>1. CallTypes' /\ SsmTypes'
    BY <1>2, BeginTypes
       DEF verimark_moc_verify, verimark_moc_verify_identify_start, ClientPrints,
           StoredPrints, TaskStates, FP!Ops, FP!Matching, SensorTypes, ClientTypes,
           FpPrint, VerifyStates
  <2>2. CtxTypes' /\ EnrollTypes' /\ SensorTypes' /\ ClientTypes'
    BY <1>2, SameTypes DEF verimark_moc_verify, verimark_moc_verify_identify_start
  <2> QED BY <2>1, <2>2
<1>3. CASE verimark_moc_identify
  <2>1. CallTypes' /\ SsmTypes'
    BY <1>3, BeginTypes
       DEF verimark_moc_identify, verimark_moc_verify_identify_start, StoredPrints,
           TaskStates, FP!Ops, FP!Matching, ClientTypes, FpPrint, VerifyStates
  <2>2. CtxTypes' /\ EnrollTypes' /\ SensorTypes' /\ ClientTypes'
    BY <1>3, SameTypes DEF verimark_moc_identify, verimark_moc_verify_identify_start
  <2> QED BY <2>1, <2>2
<1>4. CASE verimark_moc_list
  <2>1. CallTypes' /\ SsmTypes'
    BY <1>4, BeginTypes DEF verimark_moc_list, TaskStates, FP!Ops, FP!Matching, FpPrint
  <2>2. CtxTypes' /\ EnrollTypes' /\ SensorTypes' /\ ClientTypes'
    BY <1>4, SameTypes DEF verimark_moc_list
  <2> QED BY <2>1, <2>2
<1>5. CASE verimark_moc_delete
  <2>1. CASE FP!Refuse("delete") /\ UNCHANGED <<given, ssmVars>>
    <3>1. CallTypes'
      BY <2>1 DEF FP!Refuse, CallTypes, FP!Ops, FP!Ending, FP!Reports, FP!Results
    <3> QED BY <1>5, <2>1, <3>1, SameTypes DEF verimark_moc_delete
  <2>2. ASSUME NEW p \in ClientPrints, p.kind # "foreign", Begin("delete", {p}, "DEL_INFO")
        PROVE  TypeOK'
    <3>1. p \in FpPrint
      BY DEF ClientPrints, StoredPrints, FpPrint, SensorTypes, ClientTypes
    <3>2. CallTypes' /\ SsmTypes'
      BY <2>2, <3>1, BeginTypes DEF FP!Ops, TaskStates
    <3> QED BY <1>5, <3>2, SameTypes DEF verimark_moc_delete
  <2> QED BY <1>5, <2>1, <2>2 DEF verimark_moc_delete
<1>6. CASE verimark_moc_clear
  <2>1. CallTypes' /\ SsmTypes'
    BY <1>6, BeginTypes DEF verimark_moc_clear, TaskStates, FP!Ops, FP!Matching, FpPrint
  <2>2. CtxTypes' /\ EnrollTypes' /\ SensorTypes' /\ ClientTypes'
    BY <1>6, SameTypes DEF verimark_moc_clear
  <2> QED BY <2>1, <2>2
<1>7. CASE dev_cancel
  <2>1. CallTypes'
    BY <1>7 DEF dev_cancel, CallTypes
  <2> QED BY <1>7, <2>1, SameTypes DEF dev_cancel
<1>8. CASE DeadlinePasses
  <2>1. CtxTypes'
    BY <1>8 DEF DeadlinePasses, CtxTypes
  <2> QED BY <1>8, <2>1, SameTypes DEF DeadlinePasses
<1>9. CASE on_enr_capture_done
  <2>1. CallTypes' /\ SsmTypes' /\ CtxTypes'
    BY <1>9, SameTypes, EnterTypes, FinishTypes
       DEF on_enr_capture_done, EnrollFails, FP!Reports, FP!Results, TaskStates, EnrollStates
  <2>2. EnrollTypes' /\ ClientTypes'
    BY <1>9, SameTypes DEF on_enr_capture_done, EnrollFails, ClientTypes
  <2>3. SensorTypes'
    BY <1>9 DEF on_enr_capture_done, AcqKind, FrameAfterFailure, SensorTypes, templates
  <2> QED BY <2>1, <2>2, <2>3
<1>10. CASE on_vfy_capture_done
  <2>1. CallTypes' /\ SsmTypes'
    BY <1>10, SameTypes, EnterTypes, FinishTypes
       DEF on_vfy_capture_done, verimark_verify_ssm_done, FP!Reports, FP!Results, TaskStates,
           VerifyStates, CallTypes, fpVars
  <2>2. CtxTypes'
    BY <1>10, SameTypes, FinishTypes, BoundsPositive
       DEF on_vfy_capture_done, verimark_verify_ssm_done, FP!Reports, FP!Results, CtxTypes
  <2>3. EnrollTypes' /\ ClientTypes'
    BY <1>10, SameTypes DEF on_vfy_capture_done
  <2>4. SensorTypes'
    BY <1>10 DEF on_vfy_capture_done, AcqKind, FrameAfterFailure, SensorTypes, templates
  <2> QED BY <2>1, <2>2, <2>3, <2>4
<1>11. CASE on_enr_dedup_done
  <2>1. CallTypes' /\ SsmTypes' /\ CtxTypes'
    BY <1>11, SameTypes, EnterTypes, FinishTypes
       DEF on_enr_dedup_done, AfterDedup, EnrollFails, FP!Reports, FP!Results,
           TaskStates, EnrollStates
  <2>2. EnrollTypes' /\ SensorTypes' /\ ClientTypes'
    BY <1>11, SameTypes DEF on_enr_dedup_done, AfterDedup, EnrollFails, ClientTypes
  <2> QED BY <2>1, <2>2
<1>12. CASE on_enr_create_done
  <2>1. CallTypes' /\ SsmTypes' /\ CtxTypes'
    BY <1>12, SameTypes, EnterTypes, FinishTypes
       DEF on_enr_create_done, StatusDone, EnrollFails, FP!Reports, FP!Results,
           TaskStates, EnrollStates
  <2>2. EnrollTypes' /\ SensorTypes' /\ ClientTypes'
    BY <1>12, SameTypes DEF on_enr_create_done, StatusDone, EnrollFails, ClientTypes
  <2> QED BY <2>1, <2>2
<1>13. CASE on_enr_sample_done
  <2>1. CallTypes' /\ SsmTypes'
    BY <1>13, SameTypes, EnterTypes, FinishTypes
       DEF on_enr_sample_done, EnrollFails, FP!Reports, FP!Results, TaskStates, EnrollStates
  <2>2. CtxTypes' /\ SensorTypes' /\ ClientTypes'
    BY <1>13, SameTypes, FinishTypes
       DEF on_enr_sample_done, EnrollFails, ClientTypes, FP!Reports, FP!Results
  <2>3. EnrollTypes'
    <3>1. /\ NextStage \in 0..EnrollStages /\ MintedId \in Ids \cup {Zero}
          /\ reply.cov \in 0..FullCoverage
      BY BoundsPositive DEF NextStage, MintedId, EnrollTypes, SsmTypes, Reply
    <3> QED BY <1>13, <3>1, SameTypes DEF on_enr_sample_done, EnrollFails, EnrollTypes, enrollVars
  <2> QED BY <2>1, <2>2, <2>3
<1>14. CASE on_enr_finalize_done
  <2>1. CallTypes' /\ SsmTypes' /\ CtxTypes'
    BY <1>14, SameTypes, EnterTypes, FinishTypes
       DEF on_enr_finalize_done, StatusDone, EnrollFails, FP!Reports, FP!Results,
           TaskStates, EnrollStates
  <2>2. EnrollTypes' /\ SensorTypes' /\ ClientTypes'
    BY <1>14, SameTypes DEF on_enr_finalize_done, StatusDone, EnrollFails, ClientTypes
  <2> QED BY <2>1, <2>2
<1>15. CASE on_enr_commit_done
  <2>1. CallTypes' /\ SsmTypes' /\ CtxTypes'
    BY <1>15, FinishTypes DEF on_enr_commit_done, EnrollFails, FP!Reports, FP!Results
  <2>2. EnrollTypes' /\ SensorTypes'
    BY <1>15, SameTypes DEF on_enr_commit_done, EnrollFails
  <2>3. enroll_template_id \in Ids
    BY <1>15 DEF on_enr_commit_done, Answered, Failed, FinalizeNamesMinted, SensorTypes
  <2>4. ClientTypes'
    BY <1>15, <2>3 DEF on_enr_commit_done, PrintId, EnrollFails, SensorTypes, ClientTypes
  <2> QED BY <2>1, <2>2, <2>4
<1>16. CASE on_vfy_match_done
  <2>1. CallTypes' /\ SsmTypes' /\ CtxTypes'
    BY <1>16, FinishTypes
       DEF on_vfy_match_done, verimark_verify_ssm_done, FP!Reports, FP!Results
  <2>2. EnrollTypes' /\ SensorTypes' /\ ClientTypes'
    BY <1>16, SameTypes DEF on_vfy_match_done
  <2> QED BY <2>1, <2>2
<1>17. CASE on_list_done
  <2>1. CallTypes' /\ SsmTypes' /\ CtxTypes'
    BY <1>17, FinishTypes DEF on_list_done, FP!Reports, FP!Results
  <2>2. EnrollTypes' /\ SensorTypes' /\ ClientTypes'
    BY <1>17, SameTypes DEF on_list_done
  <2> QED BY <2>1, <2>2
<1>18. CASE on_del_info_done
  <2>1. CallTypes' /\ SsmTypes'
    BY <1>18, SameTypes, EnterTypes, FinishTypes
       DEF on_del_info_done, FP!Reports, FP!Results, TaskStates
  <2>2. CtxTypes'
    BY <1>18, FinishTypes DEF on_del_info_done, FP!Reports, FP!Results, CtxTypes, SsmTypes, Reply
  <2>3. EnrollTypes' /\ SensorTypes' /\ ClientTypes'
    BY <1>18, SameTypes DEF on_del_info_done
  <2> QED BY <2>1, <2>2, <2>3
<1>19. CASE on_del_delete_done
  <2>1. CallTypes' /\ SsmTypes' /\ CtxTypes'
    BY <1>19, FinishTypes DEF on_del_delete_done, FP!Reports, FP!Results
  <2>2. EnrollTypes' /\ SensorTypes' /\ ClientTypes'
    BY <1>19, SameTypes DEF on_del_delete_done, SensorTypes, ClientTypes
  <2> QED BY <2>1, <2>2
<1>20. CASE on_clr_done
  <2>1. CallTypes' /\ SsmTypes' /\ CtxTypes'
    BY <1>20, FinishTypes DEF on_clr_done, FP!Reports, FP!Results
  <2>2. EnrollTypes' /\ SensorTypes' /\ ClientTypes'
    BY <1>20, SameTypes DEF on_clr_done, SensorTypes, ClientTypes
  <2> QED BY <2>1, <2>2
<1>21. CASE SensorIdentify
  <2>1. CallTypes' /\ SsmTypes' /\ CtxTypes' /\ EnrollTypes' /\ saved' \in SUBSET Ids
    BY <1>21, AnswerTypes, BoundsPositive DEF SensorIdentify, Refused, SensorTypes
  <2>2. SensorTypes' /\ orphans' \in SUBSET Ids
    BY <1>21 DEF SensorIdentify, templates, SensorTypes, ClientTypes
  <2> QED BY <2>1, <2>2 DEF ClientTypes
<1>22. CASE SensorCreate
  <2>1. CallTypes' /\ SsmTypes' /\ CtxTypes' /\ EnrollTypes' /\ saved' \in SUBSET Ids
    BY <1>22, AnswerTypes, BoundsPositive DEF SensorCreate, Refused
  <2>2. SensorTypes' /\ orphans' \in SUBSET Ids
    BY <1>22, OpenSessionFields DEF SensorCreate, templates, SensorTypes, ClientTypes
  <2> QED BY <2>1, <2>2 DEF ClientTypes
<1>23. CASE SensorSample
  <2>1. enr \in Session /\ FullCoverage \in 0..FullCoverage /\ 0 \in 0..FullCoverage
    BY BoundsPositive DEF SensorTypes
  <2>2. enr.id \in Ids \cup {Zero} /\ enr.cov..FullCoverage \subseteq 0..FullCoverage
    BY <2>1, BoundsPositive DEF Session
  <2>3. CallTypes' /\ SsmTypes' /\ CtxTypes' /\ EnrollTypes' /\ saved' \in SUBSET Ids
    <3>1. CASE Refused
      BY <2>1, <2>2, <3>1, AnswerTypes DEF Refused
    <3>2. CASE \E c \in enr.cov..FullCoverage, form \in {"full", "short"} :
                 Answer(form, "ok", c, enr.id)
      <4>1. PICK c \in 0..FullCoverage, form \in {"full", "short"} :
                   Answer(form, "ok", c, enr.id)
        BY <2>2, <3>2
      <4> QED BY <2>2, <4>1, AnswerTypes
    <3>3. CASE \E t \in Ids, form \in {"full", "short"} : Answer(form, "ok", FullCoverage, t)
      <4>1. PICK t \in Ids, form \in {"full", "short"} : Answer(form, "ok", FullCoverage, t)
        BY <3>3
      <4> QED BY <2>1, <4>1, AnswerTypes
    <3> QED BY <1>23, <3>1, <3>2, <3>3 DEF SensorSample
  <2>4. enr' \in Session
    <3>1. \A c \in enr.cov..FullCoverage : [enr EXCEPT !.cov = c] \in Session
      BY <2>1, <2>2 DEF Session
    <3>2. \A t \in Ids : [enr EXCEPT !.cov = FullCoverage, !.id = t] \in Session
      BY <2>1 DEF Session
    <3> QED BY <1>23, <2>1, <3>1, <3>2 DEF SensorSample
  <2>5. SensorTypes' /\ ClientTypes'
    BY <1>23, <2>3, <2>4 DEF SensorSample, SensorTypes, ClientTypes
  <2> QED BY <2>3, <2>5
<1>24. CASE SensorFinalize
  <2>1. CallTypes' /\ SsmTypes' /\ CtxTypes' /\ EnrollTypes' /\ saved' \in SUBSET Ids
    BY <1>24, AnswerTypes, BoundsPositive DEF SensorFinalize, Refused
  <2>2. SensorTypes' /\ orphans' \in SUBSET Ids
    BY <1>24 DEF SensorFinalize, Session, templates, SensorTypes, ClientTypes
  <2> QED BY <2>1, <2>2 DEF ClientTypes
<1>25. CASE SensorCommit
  <2>1. CallTypes' /\ SsmTypes' /\ CtxTypes' /\ EnrollTypes' /\ saved' \in SUBSET Ids
    BY <1>25, AnswerTypes, BoundsPositive DEF SensorCommit, Refused
  <2>2. SensorTypes' /\ orphans' \in SUBSET Ids
    BY <1>25, NoSessionFields
       DEF SensorCommit, SessionMinted, templates, SensorTypes, ClientTypes
  <2> QED BY <2>1, <2>2 DEF ClientTypes
<1>26. CASE SensorList
  <2>1. CallTypes' /\ SsmTypes' /\ CtxTypes' /\ EnrollTypes' /\ saved' \in SUBSET Ids
    BY <1>26, AnswerTypes, BoundsPositive DEF SensorList, Refused
  <2>2. SensorTypes' /\ orphans' \in SUBSET Ids
    BY <1>26, SameTypes DEF SensorList, SensorTypes, ClientTypes
  <2> QED BY <2>1, <2>2 DEF ClientTypes
<1>27. CASE SensorInfo
  <2>1. CallTypes' /\ SsmTypes' /\ CtxTypes' /\ EnrollTypes' /\ saved' \in SUBSET Ids
    BY <1>27, AnswerTypes, BoundsPositive DEF SensorInfo, SensorTypes
  <2>2. SensorTypes' /\ orphans' \in SUBSET Ids
    BY <1>27, SameTypes DEF SensorInfo, SensorTypes, ClientTypes
  <2> QED BY <2>1, <2>2 DEF ClientTypes
<1>28. CASE SensorDelete
  <2>1. CallTypes' /\ SsmTypes' /\ CtxTypes' /\ EnrollTypes' /\ saved' \in SUBSET Ids
    BY <1>28, AnswerTypes, BoundsPositive DEF SensorDelete, Refused
  <2>2. SensorTypes' /\ orphans' \in SUBSET Ids
    BY <1>28 DEF SensorDelete, Drop, templates, SensorTypes, ClientTypes
  <2> QED BY <2>1, <2>2 DEF ClientTypes
<1>29. CASE SensorFormat
  <2>1. CallTypes' /\ SsmTypes' /\ CtxTypes' /\ EnrollTypes' /\ saved' \in SUBSET Ids
    BY <1>29, AnswerTypes, BoundsPositive DEF SensorFormat, Refused
  <2>2. SensorTypes' /\ orphans' \in SUBSET Ids
    BY <1>29 DEF SensorFormat, Drop, templates, SensorTypes, ClientTypes
  <2> QED BY <2>1, <2>2 DEF ClientTypes
<1>30. CASE SensorSilent
  <2>1. CallTypes' /\ SsmTypes' /\ CtxTypes' /\ EnrollTypes' /\ saved' \in SUBSET Ids
    BY <1>30, AnswerTypes, BoundsPositive DEF SensorSilent
  <2>2. SensorTypes' /\ orphans' \in SUBSET Ids
    BY <1>30, SameTypes DEF SensorSilent, SensorTypes, ClientTypes
  <2> QED BY <2>1, <2>2 DEF ClientTypes
<1>31. CASE CommandFails
  <2>1. SsmTypes'
    BY <1>31, NoReplyFields DEF CommandFails, SsmTypes
  <2> QED BY <1>31, <2>1, SameTypes DEF CommandFails
<1>32. CASE UNCHANGED vars
  BY <1>32
     DEF vars, fpVars, ssmVars, ctxVars, enrollVars, templates, sensorVars,
         clientVars, CallTypes, SsmTypes, CtxTypes, EnrollTypes, SensorTypes,
         ClientTypes
<1> QED
  BY <1>1, <1>2, <1>3, <1>4, <1>5, <1>6, <1>7, <1>8, <1>9, <1>10, <1>11, <1>12, <1>13,
     <1>14, <1>15, <1>16, <1>17, <1>18, <1>19, <1>20, <1>21, <1>22, <1>23, <1>24,
     <1>25, <1>26, <1>27, <1>28, <1>29, <1>30, <1>31, <1>32
     DEF Next, Client, Captures, Callbacks, Sensor

\* self->task_ssm stays in step with libfprint's action, and a command that uses
\* a frame is sent only by a capture of its kind that ended well.
LEMMA TaskStep == IInv /\ [Next]_vars => TaskOfAction' /\ FrameFresh'
<1> SUFFICES ASSUME IInv, [Next]_vars PROVE TaskOfAction' /\ FrameFresh'
  OBVIOUS
<1> USE DEF IInv, TaskOfAction, FrameFresh
<1>1. CASE verimark_moc_enroll
  BY <1>1 DEF verimark_moc_enroll, Begin, Enter, StatesOf, EnrollStates
<1>2. CASE verimark_moc_verify
  BY <1>2
     DEF verimark_moc_verify, verimark_moc_verify_identify_start, Begin, Enter,
         StatesOf, VerifyStates, FP!Matching
<1>3. CASE verimark_moc_identify
  BY <1>3
     DEF verimark_moc_identify, verimark_moc_verify_identify_start, Begin, Enter,
         StatesOf, VerifyStates, FP!Matching
<1>4. CASE verimark_moc_list
  BY <1>4 DEF verimark_moc_list, Begin, Enter, StatesOf, FP!Matching
<1>5. CASE verimark_moc_delete
  BY <1>5
     DEF verimark_moc_delete, Begin, Enter, FP!Refuse, ssmVars, ctxVars, StatesOf,
         FP!Matching
<1>6. CASE verimark_moc_clear
  BY <1>6 DEF verimark_moc_clear, Begin, Enter, StatesOf, FP!Matching
<1>7. CASE dev_cancel
  BY <1>7 DEF dev_cancel, ssmVars, ctxVars, sensorVars
<1>8. CASE DeadlinePasses
  BY <1>8
     DEF DeadlinePasses, fpVars, ssmVars, sensorVars, StatesOf, EnrollStates,
         VerifyStates, FP!Matching
<1>9. CASE on_enr_capture_done
  BY <1>9
     DEF on_enr_capture_done, AcqKind, EnrollFails, Finish, Enter, fpVars, StatesOf,
         EnrollStates, VerifyStates, CaptureStates, FP!Matching
<1>10. CASE on_vfy_capture_done
  BY <1>10
     DEF on_vfy_capture_done, AcqKind, verimark_verify_ssm_done, Finish, Enter,
         fpVars, StatesOf, EnrollStates, VerifyStates, CaptureStates, FP!Matching
<1>11. CASE on_enr_dedup_done
  BY <1>11
     DEF on_enr_dedup_done, AfterDedup, EnrollFails, Finish, Enter, Answered, fpVars,
         StatesOf, EnrollStates, VerifyStates, CaptureStates, FP!Matching
<1>12. CASE on_enr_create_done
  BY <1>12
     DEF on_enr_create_done, StatusDone, EnrollFails, Finish, Enter, Answered, fpVars,
         StatesOf, EnrollStates, VerifyStates, CaptureStates, FP!Matching
<1>13. CASE on_enr_sample_done
  BY <1>13
     DEF on_enr_sample_done, EnrollFails, Finish, Enter, Answered, fpVars, StatesOf,
         EnrollStates, VerifyStates, CaptureStates, FP!Matching
<1>14. CASE on_enr_finalize_done
  BY <1>14
     DEF on_enr_finalize_done, StatusDone, EnrollFails, Finish, Enter, Answered,
         fpVars, StatesOf, EnrollStates, VerifyStates, CaptureStates, FP!Matching
<1>15. CASE on_enr_commit_done
  BY <1>15
     DEF on_enr_commit_done, EnrollFails, Finish, StatesOf, CaptureStates, FP!Matching
<1>16. CASE on_vfy_match_done
  BY <1>16
     DEF on_vfy_match_done, verimark_verify_ssm_done, Finish, StatesOf, CaptureStates,
         FP!Matching
<1>17. CASE on_list_done
  BY <1>17 DEF on_list_done, Finish, StatesOf, CaptureStates, FP!Matching
<1>18. CASE on_del_info_done
  BY <1>18
     DEF on_del_info_done, Answered, Finish, Enter, fpVars, StatesOf, EnrollStates,
         VerifyStates, CaptureStates, FP!Matching
<1>19. CASE on_del_delete_done
  BY <1>19 DEF on_del_delete_done, Finish, StatesOf, CaptureStates, FP!Matching
<1>20. CASE on_clr_done
  BY <1>20 DEF on_clr_done, Finish, StatesOf, CaptureStates, FP!Matching
<1>21. CASE SensorIdentify
  BY <1>21 DEF SensorIdentify, Executing, Refused, Answer, fpVars
<1>22. CASE SensorCreate
  BY <1>22 DEF SensorCreate, Executing, Refused, Answer, fpVars
<1>23. CASE SensorSample
  BY <1>23, NoReplyFields
     DEF SensorSample, Executing, Refused, Answer, fpVars, ssmVars, ctxVars,
         enrollVars, templates, sensorVars, clientVars, StatesOf, EnrollStates,
         VerifyStates, CaptureStates, FP!Matching, FP!Ending
<1>24. CASE SensorFinalize
  BY <1>24 DEF SensorFinalize, Executing, Refused, Answer, fpVars
<1>25. CASE SensorCommit
  BY <1>25 DEF SensorCommit, Executing, Refused, Answer, fpVars
<1>26. CASE SensorList
  BY <1>26 DEF SensorList, Executing, Refused, Answer, fpVars
<1>27. CASE SensorInfo
  BY <1>27 DEF SensorInfo, Executing, Answer, fpVars
<1>28. CASE SensorDelete
  BY <1>28 DEF SensorDelete, Executing, Refused, Answer, fpVars
<1>29. CASE SensorFormat
  BY <1>29 DEF SensorFormat, Executing, Refused, Answer, fpVars
<1>30. CASE SensorSilent
  BY <1>30 DEF SensorSilent, Answer, fpVars
<1>31. CASE CommandFails
  BY <1>31 DEF CommandFails, fpVars
<1>32. CASE UNCHANGED vars
  BY <1>32
     DEF vars, fpVars, ssmVars, ctxVars, enrollVars, templates, sensorVars, clientVars
<1> QED
  BY <1>1, <1>2, <1>3, <1>4, <1>5, <1>6, <1>7, <1>8, <1>9, <1>10, <1>11, <1>12, <1>13,
     <1>14, <1>15, <1>16, <1>17, <1>18, <1>19, <1>20, <1>21, <1>22, <1>23, <1>24,
     <1>25, <1>26, <1>27, <1>28, <1>29, <1>30, <1>31, <1>32
     DEF Next, Client, Captures, Callbacks, Sensor

\* The sensor's session and the driver's copy of the minted id stay together
\* from the sample with full coverage to the commit.
LEMMA SessionStep == IInv /\ [Next]_vars => SessionMinted' /\ FinalizeNamesMinted'
<1> SUFFICES ASSUME IInv, [Next]_vars PROVE SessionMinted' /\ FinalizeNamesMinted'
  OBVIOUS
<1> USE DEF IInv, SessionMinted, FinalizeNamesMinted
<1>1. CASE verimark_moc_enroll
  BY <1>1 DEF verimark_moc_enroll, Begin, Enter, templates
<1>2. CASE verimark_moc_verify
  BY <1>2
     DEF verimark_moc_verify, verimark_moc_verify_identify_start, Begin, Enter,
         templates, sensorVars
<1>3. CASE verimark_moc_identify
  BY <1>3
     DEF verimark_moc_identify, verimark_moc_verify_identify_start, Begin, Enter,
         templates, sensorVars
<1>4. CASE verimark_moc_list
  BY <1>4 DEF verimark_moc_list, Begin, Enter, templates, sensorVars
<1>5. CASE verimark_moc_delete
  BY <1>5
     DEF verimark_moc_delete, Begin, Enter, ssmVars, enrollVars, templates, sensorVars
<1>6. CASE verimark_moc_clear
  BY <1>6 DEF verimark_moc_clear, Begin, Enter, templates, sensorVars
<1>7. CASE dev_cancel
  BY <1>7 DEF dev_cancel, ssmVars, enrollVars, templates, sensorVars
<1>8. CASE DeadlinePasses
  BY <1>8 DEF DeadlinePasses, ssmVars, enrollVars, templates, sensorVars
<1>9. CASE on_enr_capture_done
  BY <1>9 DEF on_enr_capture_done, EnrollFails, Finish, Enter, templates
<1>10. CASE on_vfy_capture_done
  BY <1>10 DEF on_vfy_capture_done, verimark_verify_ssm_done, Finish, Enter, templates
<1>11. CASE on_enr_dedup_done
  BY <1>11
     DEF on_enr_dedup_done, AfterDedup, EnrollFails, Finish, Enter, templates,
         sensorVars
<1>12. CASE on_enr_create_done
  BY <1>12
     DEF on_enr_create_done, StatusDone, EnrollFails, Finish, Enter, templates,
         sensorVars
<1>13. CASE on_enr_sample_done
  BY <1>13
     DEF on_enr_sample_done, Progress, MintedId, EnrollFails, Finish, Enter, Answered,
         templates, sensorVars, StatusOk, AnswersTrue
<1>14. CASE on_enr_finalize_done
  BY <1>14
     DEF on_enr_finalize_done, StatusDone, EnrollFails, Answered, Failed, enrollVars,
         templates, sensorVars
<1>15. CASE on_enr_commit_done
  BY <1>15 DEF on_enr_commit_done, EnrollFails, Finish, templates, sensorVars
<1>16. CASE on_vfy_match_done
  BY <1>16
     DEF on_vfy_match_done, verimark_verify_ssm_done, Finish, templates, sensorVars
<1>17. CASE on_list_done
  BY <1>17 DEF on_list_done, Finish, templates, sensorVars
<1>18. CASE on_del_info_done
  BY <1>18 DEF on_del_info_done, Finish, Enter, templates, sensorVars
<1>19. CASE on_del_delete_done
  BY <1>19 DEF on_del_delete_done, Finish, templates, sensorVars
<1>20. CASE on_clr_done
  BY <1>20 DEF on_clr_done, Finish, templates, sensorVars
<1>21. CASE SensorIdentify
  BY <1>21 DEF SensorIdentify, Refused, Answer, enrollVars, templates
<1>22. CASE SensorCreate
  BY <1>22, OpenSessionFields DEF SensorCreate, Executing, Refused, Answer, templates
<1>23. CASE SensorSample
  BY <1>23, NoReplyFields
     DEF SensorSample, Executing, Refused, Answer, fpVars, ssmVars, ctxVars,
         enrollVars, templates, sensorVars, clientVars, TaskOfAction, StatusOk,
         AnswersTrue, TypeOK, CallTypes, SsmTypes, CtxTypes, EnrollTypes, SensorTypes,
         ClientTypes, Session
<1>24. CASE SensorFinalize
  BY <1>24
     DEF SensorFinalize, Refused, Answer, enrollVars, templates, TypeOK, SensorTypes,
         Session
<1>25. CASE SensorCommit
  BY <1>25, NoSessionFields DEF SensorCommit, Executing, Refused, Answer, enrollVars
<1>26. CASE SensorList
  BY <1>26 DEF SensorList, Refused, Answer, enrollVars, templates, sensorVars
<1>27. CASE SensorInfo
  BY <1>27 DEF SensorInfo, Answer, enrollVars, templates, sensorVars
<1>28. CASE SensorDelete
  BY <1>28 DEF SensorDelete, Executing, Refused, Answer, Drop
<1>29. CASE SensorFormat
  BY <1>29 DEF SensorFormat, Executing, Refused, Answer, Drop
<1>30. CASE SensorSilent
  BY <1>30 DEF SensorSilent, Answer, enrollVars, templates, sensorVars
<1>31. CASE CommandFails
  BY <1>31 DEF CommandFails, enrollVars, templates, sensorVars
<1>32. CASE UNCHANGED vars
  BY <1>32
     DEF vars, fpVars, ssmVars, ctxVars, enrollVars, templates, sensorVars, clientVars
<1> QED
  BY <1>1, <1>2, <1>3, <1>4, <1>5, <1>6, <1>7, <1>8, <1>9, <1>10, <1>11, <1>12, <1>13,
     <1>14, <1>15, <1>16, <1>17, <1>18, <1>19, <1>20, <1>21, <1>22, <1>23, <1>24,
     <1>25, <1>26, <1>27, <1>28, <1>29, <1>30, <1>31, <1>32
     DEF Next, Client, Captures, Callbacks, Sensor

\* An answer stays true from the sensor's step to the callback: nothing else
\* changes what it speaks of while it is on its way.
LEMMA AnswerStep == IInv /\ [Next]_vars => AnswersTrue'
<1> SUFFICES ASSUME IInv, [Next]_vars PROVE AnswersTrue'
  OBVIOUS
<1> USE DEF IInv, AnswersTrue
<1>1. CASE verimark_moc_enroll
  BY <1>1 DEF verimark_moc_enroll, Begin, Enter
<1>2. CASE verimark_moc_verify
  BY <1>2 DEF verimark_moc_verify, verimark_moc_verify_identify_start, Begin, Enter
<1>3. CASE verimark_moc_identify
  BY <1>3 DEF verimark_moc_identify, verimark_moc_verify_identify_start, Begin, Enter
<1>4. CASE verimark_moc_list
  BY <1>4 DEF verimark_moc_list, Begin, Enter
<1>5. CASE verimark_moc_delete
  BY <1>5
     DEF verimark_moc_delete, Begin, Enter, ssmVars, enrollVars, templates,
         sensorVars, StatusOk
<1>6. CASE verimark_moc_clear
  BY <1>6 DEF verimark_moc_clear, Begin, Enter
<1>7. CASE dev_cancel
  BY <1>7 DEF dev_cancel, ssmVars, enrollVars, templates, sensorVars, StatusOk
<1>8. CASE DeadlinePasses
  BY <1>8 DEF DeadlinePasses, ssmVars, enrollVars, templates, sensorVars, StatusOk
<1>9. CASE on_enr_capture_done
  BY <1>9 DEF on_enr_capture_done, EnrollFails, Finish, Enter
<1>10. CASE on_vfy_capture_done
  BY <1>10 DEF on_vfy_capture_done, verimark_verify_ssm_done, Finish, Enter
<1>11. CASE on_enr_dedup_done
  BY <1>11 DEF on_enr_dedup_done, EnrollFails, Finish, Enter
<1>12. CASE on_enr_create_done
  BY <1>12 DEF on_enr_create_done, StatusDone, EnrollFails, Finish, Enter
<1>13. CASE on_enr_sample_done
  BY <1>13 DEF on_enr_sample_done, EnrollFails, Finish, Enter
<1>14. CASE on_enr_finalize_done
  BY <1>14 DEF on_enr_finalize_done, StatusDone, EnrollFails, Finish, Enter
<1>15. CASE on_enr_commit_done
  BY <1>15 DEF on_enr_commit_done, EnrollFails, Finish
<1>16. CASE on_vfy_match_done
  BY <1>16 DEF on_vfy_match_done, verimark_verify_ssm_done, Finish
<1>17. CASE on_list_done
  BY <1>17 DEF on_list_done, Finish
<1>18. CASE on_del_info_done
  BY <1>18 DEF on_del_info_done, Finish, Enter
<1>19. CASE on_del_delete_done
  BY <1>19 DEF on_del_delete_done, Finish
<1>20. CASE on_clr_done
  BY <1>20 DEF on_clr_done, Finish
<1>21. CASE SensorIdentify
  BY <1>21 DEF SensorIdentify, Executing, Refused, Answer, templates, StatusOk
<1>22. CASE SensorCreate
  BY <1>22, OpenSessionFields DEF SensorCreate, Executing, Refused, Answer, StatusOk
<1>23. CASE SensorSample
  <2>1. ASSUME Refused, UNCHANGED <<enr, minted>>
        PROVE  AnswersTrue'
    BY <2>1 DEF Refused, Answer, AnswersTrue, StatusOk
  <2>2. ASSUME NEW c \in enr.cov..FullCoverage, NEW form \in {"full", "short"},
               c = FullCoverage => enr.id # Zero, enr' = [enr EXCEPT !.cov = c],
               Answer(form, "ok", c, enr.id), UNCHANGED minted
        PROVE  AnswersTrue'
    BY <1>23, <2>2 DEF Answer, AnswersTrue, StatusOk, SensorSample, Executing, SessionMinted,
       TypeOK, SensorTypes, Session
  <2>3. ASSUME NEW t \in Ids, NEW form \in {"full", "short"},
               enr' = [enr EXCEPT !.cov = FullCoverage, !.id = t],
               Answer(form, "ok", FullCoverage, t), minted' = minted \cup {t}
        PROVE  AnswersTrue'
    BY <1>23, <2>3 DEF Answer, AnswersTrue, StatusOk, SensorSample, Executing, TypeOK,
       SensorTypes, Session
  <2> QED BY <1>23, <2>1, <2>2, <2>3 DEF SensorSample
<1>24. CASE SensorFinalize
  BY <1>24 DEF SensorFinalize, Executing, Refused, Answer
<1>25. CASE SensorCommit
  BY <1>25
     DEF SensorCommit, Executing, Refused, Answer, enrollVars, StatusOk,
         FinalizeNamesMinted
<1>26. CASE SensorList
  BY <1>26 DEF SensorList, Executing, Refused, Answer
<1>27. CASE SensorInfo
  BY <1>27 DEF SensorInfo, Executing, Answer
<1>28. CASE SensorDelete
  BY <1>28 DEF SensorDelete, Executing, Refused, Answer
<1>29. CASE SensorFormat
  BY <1>29 DEF SensorFormat, Executing, Refused, Answer
<1>30. CASE SensorSilent
  BY <1>30 DEF SensorSilent, Answer
<1>31. CASE CommandFails
  BY <1>31 DEF CommandFails
<1>32. CASE UNCHANGED vars
  BY <1>32
     DEF vars, fpVars, ssmVars, ctxVars, enrollVars, templates, sensorVars,
         clientVars, StatusOk
<1> QED
  BY <1>1, <1>2, <1>3, <1>4, <1>5, <1>6, <1>7, <1>8, <1>9, <1>10, <1>11, <1>12, <1>13,
     <1>14, <1>15, <1>16, <1>17, <1>18, <1>19, <1>20, <1>21, <1>22, <1>23, <1>24,
     <1>25, <1>26, <1>27, <1>28, <1>29, <1>30, <1>31, <1>32
     DEF Next, Client, Captures, Callbacks, Sensor

\* Prints, templates and the enroll session: what the client is told follows
\* what the sensor did.
LEMMA SlotStep == IInv /\ [Next]_vars => SlotAccounted' /\ UnlessEmpty'
<1> SUFFICES ASSUME IInv, [Next]_vars PROVE SlotAccounted' /\ UnlessEmpty'
  OBVIOUS
<1> USE DEF IInv, SlotAccounted, UnlessEmpty
<1>1. CASE verimark_moc_enroll
  BY <1>1, IdleIsNull
     DEF verimark_moc_enroll, Begin, Enter, templates, clientVars, OwnSession,
         PrintBacked
<1>2. CASE verimark_moc_verify
  BY <1>2, IdleIsNull
     DEF verimark_moc_verify, verimark_moc_verify_identify_start, Begin, Enter,
         templates, sensorVars, clientVars, OwnSession, PrintBacked
<1>3. CASE verimark_moc_identify
  BY <1>3, IdleIsNull
     DEF verimark_moc_identify, verimark_moc_verify_identify_start, Begin, Enter,
         templates, sensorVars, clientVars, OwnSession, PrintBacked
<1>4. CASE verimark_moc_list
  BY <1>4, IdleIsNull
     DEF verimark_moc_list, Begin, Enter, templates, sensorVars, clientVars,
         OwnSession, PrintBacked
<1>5. CASE verimark_moc_delete
  BY <1>5, IdleIsNull
     DEF verimark_moc_delete, Begin, Enter, ssmVars, enrollVars, templates,
         sensorVars, clientVars, OwnSession, PrintBacked
<1>6. CASE verimark_moc_clear
  BY <1>6, IdleIsNull
     DEF verimark_moc_clear, Begin, Enter, templates, sensorVars, clientVars,
         OwnSession, PrintBacked
<1>7. CASE dev_cancel
  BY <1>7
     DEF dev_cancel, ssmVars, enrollVars, templates, sensorVars, clientVars,
         OwnSession, PrintBacked
<1>8. CASE DeadlinePasses
  BY <1>8
     DEF DeadlinePasses, ssmVars, enrollVars, templates, sensorVars, clientVars,
         OwnSession, PrintBacked
<1>9. CASE on_enr_capture_done
  BY <1>9
     DEF on_enr_capture_done, EnrollFails, Finish, Enter, templates, OwnSession,
         PrintBacked
<1>10. CASE on_vfy_capture_done
  BY <1>10
     DEF on_vfy_capture_done, verimark_verify_ssm_done, Finish, Enter, templates,
         clientVars, OwnSession, PrintBacked
<1>11. CASE on_enr_dedup_done
  BY <1>11
     DEF on_enr_dedup_done, AfterDedup, EnrollFails, Finish, Enter, Answered, Failed,
         templates, sensorVars, OwnSession, PrintBacked
<1>12. CASE on_enr_create_done
  BY <1>12
     DEF on_enr_create_done, StatusDone, EnrollFails, Finish, Answered, Failed,
         templates, sensorVars, OwnSession, PrintBacked, AnswersTrue
<1>13. CASE on_enr_sample_done
  BY <1>13
     DEF on_enr_sample_done, EnrollFails, Answered, Failed, templates, sensorVars,
         OwnSession, PrintBacked
<1>14. CASE on_enr_finalize_done
  BY <1>14
     DEF on_enr_finalize_done, StatusDone, EnrollFails, Answered, Failed, templates,
         sensorVars, OwnSession, PrintBacked
<1>15. CASE on_enr_commit_done
  BY <1>15
     DEF on_enr_commit_done, PrintId, EnrollFails, Finish, Answered, templates,
         sensorVars, OwnSession, PrintBacked, AnswersTrue
<1>16. CASE on_vfy_match_done
  BY <1>16
     DEF on_vfy_match_done, Answered, Failed, verimark_verify_ssm_done, Finish,
         templates, sensorVars, clientVars, OwnSession, PrintBacked
<1>17. CASE on_list_done
  BY <1>17
     DEF on_list_done, Answered, Failed, Finish, templates, sensorVars, clientVars,
         OwnSession, PrintBacked
<1>18. CASE on_del_info_done
  BY <1>18
     DEF on_del_info_done, Answered, Failed, Finish, Enter, templates, sensorVars,
         clientVars, OwnSession, PrintBacked
<1>19. CASE on_del_delete_done
  BY <1>19
     DEF on_del_delete_done, Answered, Failed, Finish, templates, sensorVars,
         clientVars, OwnSession, PrintBacked
<1>20. CASE on_clr_done
  BY <1>20
     DEF on_clr_done, Failed, Finish, templates, sensorVars, clientVars, OwnSession,
         PrintBacked
<1>21. CASE SensorIdentify
  BY <1>21
     DEF SensorIdentify, Refused, Answer, enrollVars, templates, OwnSession,
         PrintBacked
<1>22. CASE SensorCreate
  BY <1>22
     DEF SensorCreate, Executing, Refused, Answer, templates, OwnSession, PrintBacked
<1>23. CASE SensorSample
  BY <1>23, NoReplyFields
     DEF SensorSample, Executing, Refused, Answer, fpVars, ssmVars, ctxVars,
         enrollVars, templates, sensorVars, clientVars, OwnSession, PrintBacked,
         AnswersTrue, StatusOk, FinalizeNamesMinted, TaskOfAction, TypeOK, CallTypes,
         SsmTypes, CtxTypes, EnrollTypes, SensorTypes, ClientTypes, Session
<1>24. CASE SensorFinalize
  BY <1>24
     DEF SensorFinalize, Refused, Answer, enrollVars, templates, OwnSession,
         PrintBacked, TypeOK, SensorTypes, Session
<1>25. CASE SensorCommit
  BY <1>25
     DEF SensorCommit, Executing, Refused, Answer, enrollVars, OwnSession,
         PrintBacked, FinalizeNamesMinted
<1>26. CASE SensorList
  BY <1>26
     DEF SensorList, Refused, Answer, enrollVars, templates, sensorVars, OwnSession,
         PrintBacked
<1>27. CASE SensorInfo
  BY <1>27
     DEF SensorInfo, Answer, enrollVars, templates, sensorVars, OwnSession,
         PrintBacked
<1>28. CASE SensorDelete
  BY <1>28 DEF SensorDelete, Refused, Answer, Drop, enrollVars, OwnSession, PrintBacked
<1>29. CASE SensorFormat
  BY <1>29 DEF SensorFormat, Refused, Answer, Drop, enrollVars, OwnSession, PrintBacked
<1>30. CASE SensorSilent
  BY <1>30 DEF SensorSilent, Answer, enrollVars, templates, sensorVars
<1>31. CASE CommandFails
  BY <1>31
     DEF CommandFails, enrollVars, templates, sensorVars, clientVars, OwnSession,
         PrintBacked
<1>32. CASE UNCHANGED vars
  BY <1>32
     DEF vars, fpVars, ssmVars, ctxVars, enrollVars, templates, sensorVars,
         clientVars, OwnSession, PrintBacked
<1> QED
  BY <1>1, <1>2, <1>3, <1>4, <1>5, <1>6, <1>7, <1>8, <1>9, <1>10, <1>11, <1>12, <1>13,
     <1>14, <1>15, <1>16, <1>17, <1>18, <1>19, <1>20, <1>21, <1>22, <1>23, <1>24,
     <1>25, <1>26, <1>27, <1>28, <1>29, <1>30, <1>31, <1>32
     DEF Next, Client, Captures, Callbacks, Sensor

-----------------------------------------------------------------------------
(* The theorems *)

\* The inductive invariant holds in every reachable state of the driver, the
\* sensor and the client, whatever is cancelled, lost, refused or late.
THEOREM Invariance == Spec => []IInv
<1>1. Init => IInv
  BY InitIInv
<1>2. IInv /\ [Next]_vars => IInv'
  BY TypeStep, TaskStep, SessionStep, AnswerStep, SlotStep DEF IInv
<1> QED BY <1>1, <1>2, PTL DEF Spec

\* Every variable keeps its type: the enroll stage never passes
\* nr_enroll_stages, the attempts never pass VERIMARK_VERIFY_MAX_ATTEMPTS.
THEOREM TypeCorrect == Spec => []TypeOK
<1>1. IInv => TypeOK
  BY DEF IInv
<1> QED BY <1>1, Invariance, PTL

\* When every answer has at least a status, a print the client keeps after an
\* enroll is backed by a committed template, unless a delete or clear removed
\* that template.
THEOREM EnrolledPrintsAreBacked ==
  ASSUME ~EmptyReplies
  PROVE  Spec => []PrintBacked
<1>1. IInv => PrintBacked
  BY DEF IInv, UnlessEmpty
<1> QED BY <1>1, Invariance, PTL

\* A template without a print has one of two explanations: a commit whose answer
\* was lost, or a delete or clear reported as done that the sensor refused.
THEOREM SlotsAccounted == Spec => []SlotAccounted
<1>1. IInv => SlotAccounted
  BY DEF IInv
<1> QED BY <1>1, Invariance, PTL

\* When every answer has at least a status, samples and finalize work on the
\* enroll session this enroll opened.
THEOREM SamplesOwnSession ==
  ASSUME ~EmptyReplies
  PROVE  Spec => []OwnSession
<1>1. IInv => OwnSession
  BY DEF IInv, UnlessEmpty
<1> QED BY <1>1, Invariance, PTL

\* Finalize and commit name the id the sensor minted for the session they end.
THEOREM FinalizeSound == Spec => []FinalizeNamesMinted
<1>1. IInv => FinalizeNamesMinted
  BY DEF IInv
<1> QED BY <1>1, Invariance, PTL

\* No dedup check, match or sample is sent without a fresh frame of its kind.
THEOREM FramesFresh == Spec => []FrameFresh
<1>1. IInv => FrameFresh
  BY DEF IInv
<1> QED BY <1>1, Invariance, PTL

\* Only the callback of the match command reports a match.
LEMMA OthersReportNoMatch ==
  ASSUME [Next]_vars, ~on_vfy_match_done
  PROVE  last' # last => last'.report # "match"
<1> SUFFICES ASSUME last' # last PROVE last'.report # "match"
  OBVIOUS
<1> USE DEF FP!Ending
<1>1. CASE verimark_moc_enroll
  BY <1>1 DEF verimark_moc_enroll, Begin, FP!NoEnding
<1>2. CASE verimark_moc_verify
  BY <1>2
     DEF verimark_moc_verify, verimark_moc_verify_identify_start, Begin, FP!NoEnding
<1>3. CASE verimark_moc_identify
  BY <1>3
     DEF verimark_moc_identify, verimark_moc_verify_identify_start, Begin, FP!NoEnding
<1>4. CASE verimark_moc_list
  BY <1>4 DEF verimark_moc_list, Begin, FP!NoEnding
<1>5. CASE verimark_moc_delete
  BY <1>5 DEF verimark_moc_delete, Begin, FP!NoEnding, FP!Refuse
<1>6. CASE verimark_moc_clear
  BY <1>6 DEF verimark_moc_clear, Begin, FP!NoEnding
<1>7. CASE dev_cancel
  BY <1>7 DEF dev_cancel
<1>8. CASE DeadlinePasses
  BY <1>8 DEF DeadlinePasses, fpVars
<1>9. CASE CommandFails
  BY <1>9 DEF CommandFails, fpVars
<1>10. CASE on_enr_capture_done
  BY <1>10 DEF on_enr_capture_done, EnrollFails, Finish, fpVars
<1>11. CASE on_enr_dedup_done
  BY <1>11 DEF on_enr_dedup_done, EnrollFails, Finish, fpVars
<1>12. CASE on_enr_create_done
  BY <1>12 DEF on_enr_create_done, StatusDone, EnrollFails, Finish, fpVars
<1>13. CASE on_enr_finalize_done
  BY <1>13 DEF on_enr_finalize_done, StatusDone, EnrollFails, Finish, fpVars
<1>14. CASE on_enr_sample_done
  BY <1>14 DEF on_enr_sample_done, EnrollFails, Finish, fpVars
<1>15. CASE on_enr_commit_done
  BY <1>15 DEF on_enr_commit_done, EnrollFails, Finish, fpVars
<1>16. CASE on_vfy_capture_done
  BY <1>16 DEF on_vfy_capture_done, verimark_verify_ssm_done, Finish, fpVars
<1>17. CASE on_list_done
  BY <1>17 DEF on_list_done, Finish, fpVars
<1>18. CASE on_del_info_done
  BY <1>18 DEF on_del_info_done, Finish, fpVars
<1>19. CASE on_del_delete_done
  BY <1>19 DEF on_del_delete_done, Finish, fpVars
<1>20. CASE on_clr_done
  BY <1>20 DEF on_clr_done, Finish, fpVars
<1>21. CASE Sensor \/ SensorSilent
  BY <1>21
     DEF Sensor, SensorIdentify, SensorCreate, SensorSample, SensorFinalize,
         SensorCommit, SensorList, SensorInfo, SensorDelete, SensorFormat,
         SensorSilent, Refused, Answer, fpVars
<1>22. CASE UNCHANGED vars
  BY <1>22 DEF vars, fpVars
<1> QED
  BY <1>1, <1>2, <1>3, <1>4, <1>5, <1>6, <1>7, <1>8, <1>9, <1>10, <1>11, <1>12, <1>13,
     <1>14, <1>15, <1>16, <1>17, <1>18, <1>19, <1>20, <1>21, <1>22
     DEF Next, Client, Captures, Callbacks

\* A reported match rests on a print this driver enrolled, that the client asked
\* about, and whose template the sensor stores: in every step of the driver.
THEOREM MatchesSound == Spec => MatchSound
<1>1. ASSUME IInv, [Next]_vars, last' # last, last'.report = "match"
      PROVE  \E p \in given : p.kind = "enrolled" /\ p.id = reply.id /\ p.id \in store
  <2>1. on_vfy_match_done
    BY <1>1, OthersReportNoMatch
  <2>2. /\ Answered("VFY_MATCH") /\ reply.form = "full" /\ reply.status = "ok"
        /\ \E p \in given : print_matches_tid(p, reply.id)
    BY <1>1, <2>1 DEF on_vfy_match_done, Finish, FP!Ending, verimark_verify_ssm_done
  <2>3. reply.id \in store
    BY <1>1, <2>2 DEF IInv, AnswersTrue, Answered, StatusOk
  <2> QED BY <2>2, <2>3 DEF print_matches_tid
<1>2. IInv /\ [Next]_vars
        => [last' # last /\ last'.report = "match"
              => \E p \in given : p.kind = "enrolled" /\ p.id = reply.id /\ p.id \in store]_vars
  BY <1>1
<1> QED BY <1>2, Invariance, PTL DEF Spec, MatchSound

\* Starting an action's SSM is libfprint's start of the action.
LEMMA BeginStarts ==
  ASSUME NEW op \in FP!Ops, NEW prints, NEW s, Begin(op, prints, s)
  PROVE  FP!Next
  BY DEF Begin, FP!Next, FP!Start

\* Completing the SSM with a report that fits the action completes the action.
LEMMA FinishCompletes ==
  ASSUME NEW report \in FP!Reports, NEW result \in FP!Results, act # "none",
         FP!Legal(act, report, result), Finish(report, result)
  PROVE  FP!Next
  BY DEF Finish, FP!Next, FP!Completes, FP!Complete

\* The action in progress, told from the state of its SSM.
LEMMA ActionOfTask ==
  ASSUME TaskOfAction
  PROVE  /\ task_ssm \in EnrollStates => act = "enroll"
         /\ task_ssm \in VerifyStates => act \in {"verify", "identify"}
         /\ task_ssm = "LIST_GET" => act = "list"
         /\ task_ssm \in {"DEL_INFO", "DEL_DELETE"} => act = "delete"
         /\ task_ssm = "CLR_FORMAT" => act = "clear_storage"
  BY DEF TaskOfAction, StatesOf, EnrollStates, VerifyStates, FP!Matching

\* Every step of the driver, the sensor and the client is a step libfprint's
\* contract allows, or changes nothing libfprint sees.
LEMMA ContractStep ==
  IInv /\ [Next]_vars => FP!Next \/ UNCHANGED <<act, cancelled, last>>
<1> SUFFICES ASSUME IInv, [Next]_vars
             PROVE  FP!Next \/ UNCHANGED <<act, cancelled, last>>
  OBVIOUS
<1> USE DEF fpVars
<1>1. CASE verimark_moc_enroll
  BY <1>1, BeginStarts DEF verimark_moc_enroll, FP!Ops, FP!Matching
<1>2. CASE verimark_moc_verify
  BY <1>2, BeginStarts
     DEF verimark_moc_verify, FP!Ops, FP!Matching, verimark_moc_verify_identify_start
<1>3. CASE verimark_moc_identify
  BY <1>3, BeginStarts
     DEF verimark_moc_identify, FP!Ops, FP!Matching,
         verimark_moc_verify_identify_start
<1>4. CASE verimark_moc_list
  BY <1>4, BeginStarts DEF verimark_moc_list, FP!Ops, FP!Matching
<1>5. CASE verimark_moc_delete
  BY <1>5, BeginStarts DEF verimark_moc_delete, FP!Ops, FP!Matching, FP!Next
<1>6. CASE verimark_moc_clear
  BY <1>6, BeginStarts DEF verimark_moc_clear, FP!Ops, FP!Matching
<1>7. CASE dev_cancel
  BY <1>7 DEF dev_cancel, FP!Next, FP!Cancel
<1>8. CASE DeadlinePasses \/ CommandFails
  BY <1>8 DEF DeadlinePasses, CommandFails
<1>9. CASE on_enr_capture_done
  BY <1>9, FinishCompletes, ActionOfTask
     DEF on_enr_capture_done, EnrollFails, IInv, EnrollStates, FP!Legal, FP!Matching,
         FP!Reports, FP!Results
<1>10. CASE on_enr_dedup_done
  BY <1>10, FinishCompletes, ActionOfTask
     DEF on_enr_dedup_done, EnrollFails, Answered, Failed, IInv, EnrollStates,
         FP!Legal, FP!Matching, FP!Reports, FP!Results
<1>11. CASE on_enr_create_done
  BY <1>11, FinishCompletes, ActionOfTask
     DEF on_enr_create_done, StatusDone, EnrollFails, Answered, Failed, IInv,
         EnrollStates, FP!Legal, FP!Matching, FP!Reports, FP!Results
<1>12. CASE on_enr_finalize_done
  BY <1>12, FinishCompletes, ActionOfTask
     DEF on_enr_finalize_done, StatusDone, EnrollFails, Answered, Failed, IInv,
         EnrollStates, FP!Legal, FP!Matching, FP!Reports, FP!Results
<1>13. CASE on_enr_sample_done
  BY <1>13, FinishCompletes, ActionOfTask
     DEF on_enr_sample_done, EnrollFails, Answered, Failed, IInv, EnrollStates,
         FP!Legal, FP!Matching, FP!Reports, FP!Results
<1>14. CASE on_enr_commit_done
  BY <1>14, FinishCompletes, ActionOfTask
     DEF on_enr_commit_done, EnrollFails, Answered, Failed, IInv, EnrollStates,
         FP!Legal, FP!Matching, FP!Reports, FP!Results
<1>15. CASE on_vfy_capture_done
  BY <1>15, FinishCompletes, ActionOfTask
     DEF on_vfy_capture_done, verimark_verify_ssm_done, IInv, VerifyStates, FP!Legal,
         FP!Matching, FP!Reports, FP!Results
<1>16. CASE on_list_done
  BY <1>16, FinishCompletes, ActionOfTask
     DEF on_list_done, Answered, Failed, IInv, FP!Legal, FP!Matching, FP!Reports,
         FP!Results
<1>17. CASE on_del_info_done
  BY <1>17, FinishCompletes, ActionOfTask
     DEF on_del_info_done, Answered, Failed, IInv, FP!Legal, FP!Matching, FP!Reports,
         FP!Results
<1>18. CASE on_del_delete_done
  BY <1>18, FinishCompletes, ActionOfTask
     DEF on_del_delete_done, Answered, Failed, IInv, FP!Legal, FP!Matching,
         FP!Reports, FP!Results
<1>19. CASE on_clr_done
  BY <1>19, FinishCompletes, ActionOfTask
     DEF on_clr_done, Answered, Failed, IInv, FP!Legal, FP!Matching, FP!Reports,
         FP!Results
<1>20. CASE on_vfy_match_done
  BY <1>20, FinishCompletes, ActionOfTask
     DEF on_vfy_match_done, verimark_verify_ssm_done, Answered, Failed, IInv,
         VerifyStates, FP!Legal, FP!Matching, FP!Reports, FP!Results
<1>21. CASE Sensor \/ SensorSilent
  BY <1>21
     DEF Sensor, SensorIdentify, SensorCreate, SensorSample, SensorFinalize,
         SensorCommit, SensorList, SensorInfo, SensorDelete, SensorFormat,
         SensorSilent, Refused, Answer
<1>22. CASE UNCHANGED vars
  BY <1>22 DEF vars
<1> QED
  BY <1>1, <1>2, <1>3, <1>4, <1>5, <1>6, <1>7, <1>8, <1>9, <1>10, <1>11, <1>12, <1>13,
     <1>14, <1>15, <1>16, <1>17, <1>18, <1>19, <1>20, <1>21, <1>22
     DEF Next, Client, Captures, Callbacks

\* The driver implements libfprint's contract: each action completes once, with
\* a report exactly when a verify or identify completes without an error.
THEOREM HonoursContract == Spec => Contract
<1>1. Init => FP!Init
  BY DEF Init
<1>2. IInv /\ [Next]_vars => [FP!Next]_<<act, cancelled, last>>
  BY ContractStep
<1> QED BY <1>1, <1>2, Invariance, PTL DEF Spec, Contract

-----------------------------------------------------------------------------
(* An action runs out of steps *)

\* The coverage the driver noted is never ahead of the session it samples, so
\* that a sample with another coverage brings more of it.
CoverageFollows ==
  /\ task_ssm \in {"ENR_DEDUP_CAPTURE", "ENR_DEDUP", "ENR_CREATE"} => enroll_coverage = 0
  /\ task_ssm \in {"ENR_SAMPLE_CAPTURE", "ENR_SAMPLE"} => enroll_coverage <= enr.cov
  /\ Answered("ENR_SAMPLE") /\ reply.form = "full" /\ StatusOk => reply.cov = enr.cov

\* The sensor's answer to a sample tells its coverage, which the sample does
\* not lower.
LEMMA SampleCoverage ==
  ASSUME IInv, CoverageFollows, SensorSample
  PROVE  CoverageFollows'
<1>1. FullCoverage \in Nat /\ enroll_coverage \in Nat /\ enr \in Session
  BY BoundsPositive DEF IInv, TypeOK, EnrollTypes, SensorTypes
<1>2. task_ssm = "ENR_SAMPLE"
  BY DEF SensorSample, Executing
<1>3. enr.cov \in 0..FullCoverage /\ enroll_coverage <= enr.cov
  BY <1>1, <1>2 DEF Session, CoverageFollows
<1>4. ASSUME Refused, UNCHANGED <<enr, minted>>
      PROVE  CoverageFollows'
  BY <1>2, <1>3, <1>4 DEF Refused, Answer, CoverageFollows, Answered, StatusOk, enrollVars
<1>5. ASSUME NEW c \in Nat, c >= enr.cov, enr'.cov = c, NEW form \in {"full", "short"}, NEW id,
             Answer(form, "ok", c, id)
      PROVE  CoverageFollows'
  BY <1>1, <1>2, <1>3, <1>5 DEF Answer, CoverageFollows, Answered, StatusOk, enrollVars
<1>6. ASSUME NEW c \in enr.cov..FullCoverage, NEW form \in {"full", "short"},
             enr' = [enr EXCEPT !.cov = c], Answer(form, "ok", c, enr.id)
      PROVE  CoverageFollows'
  <2>1. c \in Nat /\ c >= enr.cov /\ enr'.cov = c
    BY <1>1, <1>3, <1>6 DEF Session
  <2> QED
    BY <1>5, <1>6, <2>1
<1>7. ASSUME NEW t \in Ids, NEW form \in {"full", "short"},
             enr' = [enr EXCEPT !.cov = FullCoverage, !.id = t],
             Answer(form, "ok", FullCoverage, t)
      PROVE  CoverageFollows'
  <2>1. FullCoverage >= enr.cov /\ enr'.cov = FullCoverage
    BY <1>1, <1>3, <1>7 DEF Session
  <2> QED
    BY <1>1, <1>5, <1>7, <2>1
<1> QED
  BY <1>4, <1>6, <1>7 DEF SensorSample

\* The driver's and the sensor's coverage stay together through every step.
LEMMA CoverageStep == IInv /\ CoverageFollows /\ [Next]_vars => CoverageFollows'
<1> SUFFICES ASSUME IInv, CoverageFollows, [Next]_vars PROVE CoverageFollows'
  OBVIOUS
<1>t. /\ enroll_coverage \in Nat /\ FullCoverage \in Nat
      /\ enr \in Session /\ enr.cov \in 0..FullCoverage
  BY BoundsPositive DEF IInv, TypeOK, EnrollTypes, SensorTypes, Session
<1> USE DEF CoverageFollows, Answered, StatusOk
<1>1. CASE verimark_moc_enroll
  BY <1>1 DEF verimark_moc_enroll, Begin, Enter, CaptureStates
<1>2. ASSUME NEW op, NEW prints, NEW s \in TaskStates \ EnrollStates, Begin(op, prints, s)
      PROVE  CoverageFollows'
  BY <1>2 DEF Begin, Enter, TaskStates, EnrollStates, CaptureStates
<1>3. CASE verimark_moc_verify \/ verimark_moc_identify
  BY <1>2, <1>3 DEF verimark_moc_verify, verimark_moc_identify,
     verimark_moc_verify_identify_start, TaskStates, EnrollStates, VerifyStates
<1>4. CASE verimark_moc_list \/ verimark_moc_clear
  BY <1>2, <1>4 DEF verimark_moc_list, verimark_moc_clear, TaskStates, EnrollStates
<1>5. CASE verimark_moc_delete
  BY <1>2, <1>5 DEF verimark_moc_delete, ssmVars, enrollVars, sensorVars, TaskStates,
     EnrollStates, VerifyStates
<1>6. CASE dev_cancel \/ DeadlinePasses \/ CommandFails \/ UNCHANGED vars
  BY <1>6 DEF dev_cancel, DeadlinePasses, CommandFails, vars, ssmVars, enrollVars, sensorVars
<1>7. ASSUME NEW report, NEW result, Finish(report, result)
      PROVE  CoverageFollows'
  BY <1>7 DEF Finish
<1>8. CASE on_enr_capture_done
  BY <1>7, <1>8 DEF on_enr_capture_done, EnrollFails, Enter, enrollVars, CaptureStates
<1>9. CASE on_enr_dedup_done
  BY <1>7, <1>9 DEF on_enr_dedup_done, AfterDedup, EnrollFails, Enter, enrollVars, CaptureStates
<1>10. CASE on_enr_create_done
  BY <1>t, <1>7, <1>10 DEF on_enr_create_done, StatusDone, EnrollFails, Enter, enrollVars,
     sensorVars, CaptureStates
<1>11. CASE on_enr_finalize_done
  BY <1>7, <1>11 DEF on_enr_finalize_done, StatusDone, EnrollFails, Enter, CaptureStates
<1>12. CASE on_enr_sample_done
  <2>1. CASE Answered("ENR_SAMPLE") /\ Progress /\ enroll_coverage' = reply.cov
             /\ UNCHANGED enr
    <3>1. reply.cov = enr.cov
      BY <2>1 DEF Progress
    <3>2. task_ssm' \in {"ENR_FINALIZE", "ENR_SAMPLE_CAPTURE"}
      BY <1>12, <2>1 DEF on_enr_sample_done, Enter, Failed
    <3> QED
      BY <1>t, <2>1, <3>1, <3>2
  <2>2. CASE Answered("ENR_SAMPLE") /\ Enter("ENR_SAMPLE_CAPTURE")
             /\ UNCHANGED <<enrollVars, enr>>
    BY <2>2 DEF Enter, enrollVars, CaptureStates
  <2> QED
    BY <1>7, <1>12, <2>1, <2>2 DEF on_enr_sample_done, EnrollFails, sensorVars
<1>13. CASE on_enr_commit_done
  BY <1>7, <1>13 DEF on_enr_commit_done, EnrollFails
<1>14. CASE on_vfy_capture_done
  BY <1>7, <1>14 DEF on_vfy_capture_done, verimark_verify_ssm_done, Enter, CaptureStates
<1>15. CASE on_vfy_match_done \/ on_list_done \/ on_del_delete_done \/ on_clr_done
  BY <1>7, <1>15 DEF on_vfy_match_done, verimark_verify_ssm_done, on_list_done,
     on_del_delete_done, on_clr_done
<1>16. CASE on_del_info_done
  BY <1>7, <1>16 DEF on_del_info_done, Enter, CaptureStates
<1>17. CASE SensorCreate
  BY <1>17 DEF SensorCreate, Executing, Refused, Answer, enrollVars
<1>18. CASE SensorSample
  BY <1>18, SampleCoverage
<1>19. CASE SensorIdentify \/ SensorFinalize \/ SensorCommit \/ SensorList \/ SensorInfo
            \/ SensorDelete \/ SensorFormat
  BY <1>19 DEF SensorIdentify, SensorFinalize, SensorCommit, SensorList, SensorInfo,
     SensorDelete, SensorFormat, Executing, Refused, Answer, enrollVars
<1>20. CASE SensorSilent
  BY <1>20 DEF SensorSilent, Answer, enrollVars, sensorVars
<1> QED
  BY <1>1, <1>3, <1>4, <1>5, <1>6, <1>8, <1>9, <1>10, <1>11, <1>12, <1>13, <1>14, <1>15,
     <1>16, <1>17, <1>18, <1>19, <1>20 DEF Next, Client, Captures, Callbacks, Sensor

\* What is left in each state of an SSM and on each wire.
Left ==
  /\ task_ssm \in {"ENR_COMMIT", "VFY_MATCH", "LIST_GET", "DEL_DELETE", "CLR_FORMAT", "NULL"}
       => StatesLeft = 0
  /\ task_ssm \in {"ENR_FINALIZE", "DEL_INFO"} => StatesLeft = 1
  /\ task_ssm = "VFY_CAPTURE" => StatesLeft = 1 + MaxAttempts - attempt
  /\ task_ssm = "ENR_SAMPLE" => StatesLeft = 2 + 2 * (FullCoverage - enroll_coverage)
  /\ task_ssm = "ENR_SAMPLE_CAPTURE" => StatesLeft = 3 + 2 * (FullCoverage - enroll_coverage)
  /\ task_ssm = "ENR_CREATE" => StatesLeft = 4 + 2 * FullCoverage
  /\ task_ssm = "ENR_DEDUP" => StatesLeft = 5 + 2 * FullCoverage
  /\ task_ssm = "ENR_DEDUP_CAPTURE" => StatesLeft = 6 + 2 * FullCoverage

LEMMA StatesLeftAre == Left /\ Left'
  BY DEF Left, StatesLeft

LEMMA WireLeftIs ==
  /\ WireLeft["idle"] = 0 /\ WireLeft["capture"] = 1 /\ WireLeft["failed"] = 1
  /\ WireLeft["answered"] = 2 /\ WireLeft["sent"] = 3
  BY DEF WireLeft

\* Never less than nothing is left.
StatesCount == StatesLeft \in Nat

LEMMA StatesAreLeft == TypeOK => StatesCount
<1> SUFFICES ASSUME TypeOK PROVE StatesLeft \in Nat
  BY DEF StatesCount
<1>1. /\ attempt \in 0..MaxAttempts /\ enroll_coverage \in 0..FullCoverage
      /\ task_ssm \in TaskStates \cup {"NULL"}
      /\ MaxAttempts \in Nat /\ FullCoverage \in Nat
  BY BoundsPositive DEF TypeOK, CtxTypes, EnrollTypes, SsmTypes
<1> QED
  BY <1>1, StatesLeftAre DEF Left, TaskStates, EnrollStates, VerifyStates

\* A state less is a step less, whichever command the new state sends.
LEMMA FewerStates ==
  ASSUME StatesCount, StatesCount', StatesLeft' < StatesLeft,
         wire \in {"capture", "sent", "answered", "failed"},
         wire' \in {"idle", "capture", "sent", "answered", "failed"}
  PROVE  StepsLeft' \in 0..StepsLeft - 1
<1>1. WireLeft[wire] \in 1..3 /\ WireLeft[wire'] \in 0..3
  BY WireLeftIs
<1>2. StepsLeft = 4 * StatesLeft + WireLeft[wire]
  BY DEF StepsLeft
<1>3. StepsLeft' = 4 * StatesLeft' + WireLeft[wire']
  BY DEF StepsLeft, WireLeft
<1> QED
  BY <1>1, <1>2, <1>3 DEF StatesCount

\* So is the completion of the SSM,
LEMMA FinishIsLess ==
  ASSUME StatesCount, wire \in {"capture", "sent", "answered", "failed"},
         NEW report, NEW result, Finish(report, result)
  PROVE  StepsLeft' \in 0..StepsLeft - 1
<1>1. WireLeft[wire] \in 1..3
  BY WireLeftIs
<1>2. StepsLeft = 4 * StatesLeft + WireLeft[wire]
  BY DEF StepsLeft
<1>3. StatesLeft' = 0 /\ wire' = "idle"
  BY StatesLeftAre DEF Finish, Left
<1>4. StepsLeft' = 0
  BY <1>3, WireLeftIs DEF StepsLeft, WireLeft
<1> QED
  BY <1>1, <1>2, <1>4 DEF StatesCount

\* and an answer or a failure of the command on its way.
LEMMA WireIsLess ==
  ASSUME StatesCount, UNCHANGED <<task_ssm, attempt, enroll_coverage>>,
         \/ wire = "sent" /\ wire' = "answered"
         \/ wire \in {"sent", "answered"} /\ wire' = "failed"
  PROVE  StepsLeft' \in 0..StepsLeft - 1
<1>1. WireLeft[wire'] < WireLeft[wire] /\ WireLeft[wire] \in 0..3 /\ WireLeft[wire'] \in 0..3
  BY WireLeftIs
<1>2. StepsLeft = 4 * StatesLeft + WireLeft[wire]
  BY DEF StepsLeft
<1>3. StatesLeft' = StatesLeft
  BY DEF StatesLeft
<1>4. StepsLeft' = 4 * StatesLeft + WireLeft[wire']
  BY <1>3 DEF StepsLeft, WireLeft
<1> QED
  BY <1>1, <1>2, <1>4 DEF StatesCount

\* Every step of an enroll leaves less to do, but for another capture before its
\* deadline.
LEMMA EnrollRunsOut ==
  ASSUME IInv, CoverageFollows, StatesCount, StatesCount', SsmTypes', ~(~late /\ task_ssm' \in CaptureStates),
         wire \in {"capture", "sent", "answered", "failed"},
         \/ on_enr_capture_done \/ on_enr_dedup_done \/ on_enr_create_done
         \/ on_enr_sample_done \/ on_enr_finalize_done \/ on_enr_commit_done
  PROVE  StepsLeft' \in 0..StepsLeft - 1
<1>1. /\ enroll_coverage \in 0..FullCoverage /\ reply.cov \in 0..FullCoverage
      /\ FullCoverage \in Nat /\ enr.cov \in 0..FullCoverage
      /\ wire' \in {"idle", "capture", "sent", "answered", "failed"}
  BY BoundsPositive DEF IInv, TypeOK, EnrollTypes, SsmTypes, Reply, SensorTypes, Session
<1>2. ASSUME StatesLeft' < StatesLeft PROVE StepsLeft' \in 0..StepsLeft - 1
  BY <1>1, <1>2, FewerStates
<1>3. ASSUME NEW result, EnrollFails(result) PROVE StepsLeft' \in 0..StepsLeft - 1
  BY <1>3, FinishIsLess DEF EnrollFails
<1>4. CASE on_enr_capture_done
  <2>1. ASSUME frame' = AcqKind(task_ssm),
               Enter(IF task_ssm = "ENR_DEDUP_CAPTURE" THEN "ENR_DEDUP" ELSE "ENR_SAMPLE"),
               UNCHANGED enrollVars
        PROVE  StatesLeft' < StatesLeft
    BY <1>1, <1>4, <2>1, StatesLeftAre DEF on_enr_capture_done, Enter, Left, enrollVars
  <2>2. ASSUME ~PastDeadline, Enter(task_ssm) PROVE FALSE
    BY <1>4, <2>2 DEF on_enr_capture_done, Enter, PastDeadline, CaptureStates
  <2> QED
    BY <1>2, <1>3, <1>4, <2>1, <2>2 DEF on_enr_capture_done
<1>5. CASE on_enr_dedup_done
  <2>1. ASSUME Answered("ENR_DEDUP"), Enter(AfterDedup) PROVE StatesLeft' < StatesLeft
    BY <1>1, <2>1, StatesLeftAre DEF Answered, AfterDedup, Enter, Left
  <2> QED
    BY <1>2, <1>3, <1>5, <2>1 DEF on_enr_dedup_done
<1>6. CASE on_enr_create_done
  <2>1. ASSUME Answered("ENR_CREATE"), Enter("ENR_SAMPLE_CAPTURE"), UNCHANGED enrollVars
        PROVE  StatesLeft' < StatesLeft
    BY <1>1, <2>1, StatesLeftAre DEF Answered, Enter, Left, enrollVars
  <2> QED
    BY <1>2, <1>3, <1>6, <2>1 DEF on_enr_create_done, StatusDone
<1>7. CASE on_enr_finalize_done
  <2>1. ASSUME Answered("ENR_FINALIZE"), Enter("ENR_COMMIT") PROVE StatesLeft' < StatesLeft
    BY <2>1, StatesLeftAre DEF Answered, Enter, Left
  <2> QED
    BY <1>2, <1>3, <1>7, <2>1 DEF on_enr_finalize_done, StatusDone
<1>8. CASE on_enr_sample_done
  <2>1. ASSUME Answered("ENR_SAMPLE"), Progress, enroll_coverage' = reply.cov,
               Enter("ENR_FINALIZE") \/ Enter("ENR_SAMPLE_CAPTURE")
        PROVE  StatesLeft' < StatesLeft
    <3>1. task_ssm = "ENR_SAMPLE" /\ task_ssm' \in {"ENR_FINALIZE", "ENR_SAMPLE_CAPTURE"}
      BY <2>1 DEF Answered, Enter
    <3>2. enroll_coverage' > enroll_coverage
      BY <1>1, <2>1, <3>1 DEF CoverageFollows, Answered, Progress, StatusOk
    <3> QED
      BY <1>1, <2>1, <3>1, <3>2, StatesLeftAre DEF Left
  <2>2. ASSUME ~PastDeadline, Enter("ENR_SAMPLE_CAPTURE") PROVE FALSE
    BY <2>2 DEF Enter, PastDeadline, CaptureStates
  <2> QED
    BY <1>2, <1>3, <1>8, <2>1, <2>2 DEF on_enr_sample_done
<1>9. CASE on_enr_commit_done
  BY <1>3, <1>9, FinishIsLess DEF on_enr_commit_done
<1> QED
  BY <1>4, <1>5, <1>6, <1>7, <1>8, <1>9

\* So does every step of the other operations: a match is captured for at most
\* MaxAttempts times.
LEMMA OthersRunOut ==
  ASSUME IInv, StatesCount, StatesCount', SsmTypes',
         wire \in {"capture", "sent", "answered", "failed"},
         \/ on_vfy_capture_done \/ on_vfy_match_done \/ on_list_done \/ on_del_info_done
         \/ on_del_delete_done \/ on_clr_done
  PROVE  StepsLeft' \in 0..StepsLeft - 1
<1>1. /\ attempt \in 0..MaxAttempts /\ MaxAttempts \in Nat
      /\ wire' \in {"idle", "capture", "sent", "answered", "failed"}
  BY BoundsPositive DEF IInv, TypeOK, CtxTypes, SsmTypes
<1>2. ASSUME StatesLeft' < StatesLeft PROVE StepsLeft' \in 0..StepsLeft - 1
  BY <1>1, <1>2, FewerStates
<1>3. ASSUME NEW result, verimark_verify_ssm_done(result)
      PROVE  StepsLeft' \in 0..StepsLeft - 1
  BY <1>3, FinishIsLess DEF verimark_verify_ssm_done
<1>4. CASE on_vfy_capture_done
  <2>1. ASSUME Enter("VFY_MATCH") PROVE StatesLeft' < StatesLeft
    BY <1>1, <1>4, <2>1, StatesLeftAre DEF on_vfy_capture_done, Enter, Left
  <2>2. ASSUME attempt' = attempt + 1, Enter("VFY_CAPTURE") PROVE StatesLeft' < StatesLeft
    BY <1>1, <1>4, <2>2, StatesLeftAre DEF on_vfy_capture_done, Enter, Left
  <2> QED
    BY <1>2, <1>3, <1>4, <2>1, <2>2 DEF on_vfy_capture_done
<1>5. CASE on_vfy_match_done
  BY <1>3, <1>5, FinishIsLess DEF on_vfy_match_done
<1>6. CASE on_list_done \/ on_del_delete_done \/ on_clr_done
  BY <1>6, FinishIsLess DEF on_list_done, on_del_delete_done, on_clr_done
<1>7. CASE on_del_info_done
  <2>1. ASSUME Answered("DEL_INFO"), Enter("DEL_DELETE") PROVE StatesLeft' < StatesLeft
    BY <2>1, StatesLeftAre DEF Answered, Enter, Left
  <2> QED
    BY <1>2, <1>7, <2>1, FinishIsLess DEF on_del_info_done
<1> QED
  BY <1>4, <1>5, <1>6, <1>7

\* An action takes a bounded number of steps, whatever the sensor answers and
\* whichever commands fail or are cancelled; only an enroll puts its end off, by
\* a capture it starts before its deadline.
THEOREM ActionsRunOut == Spec => ActionRunsOut
<1>1. Init => CoverageFollows
  BY DEF Init, CoverageFollows, Answered
<1>2. IInv => StatesCount /\ TypeOK
  BY StatesAreLeft DEF IInv
<1>3. IInv /\ CoverageFollows /\ StatesCount /\ StatesCount' /\ TypeOK' /\ [Next]_vars
        => [act # "none" => \/ StepsLeft' \in 0..StepsLeft - 1
                            \/ act = "enroll" /\ ~late /\ task_ssm' \in CaptureStates]_ssmVars
  <2> SUFFICES ASSUME IInv, CoverageFollows, StatesCount, StatesCount', SsmTypes', [Next]_vars,
                      act # "none", ssmVars' # ssmVars,
                      ~(act = "enroll" /\ ~late /\ task_ssm' \in CaptureStates)
               PROVE  StepsLeft' \in 0..StepsLeft - 1
    BY DEF TypeOK
  <2>1. wire \in {"capture", "sent", "answered", "failed"}
    BY DEF IInv, TypeOK, CallTypes, SsmTypes, TaskOfAction, StatesOf, FP!Ops, FP!Matching,
       EnrollStates, VerifyStates
  <2>2. ~Client /\ ~DeadlinePasses /\ ~UNCHANGED vars
    BY DEF Client, verimark_moc_enroll, verimark_moc_verify, verimark_moc_identify,
       verimark_moc_verify_identify_start, verimark_moc_list, verimark_moc_delete,
       verimark_moc_clear, dev_cancel, DeadlinePasses, Begin, FP!Refuse, vars
  <2>3. CASE \/ on_enr_capture_done \/ on_enr_dedup_done \/ on_enr_create_done
             \/ on_enr_sample_done \/ on_enr_finalize_done \/ on_enr_commit_done
    <3>1. act = "enroll"
      BY <2>3, ActionOfTask
         DEF IInv, on_enr_capture_done, on_enr_dedup_done, on_enr_create_done, StatusDone,
         on_enr_sample_done, on_enr_finalize_done, on_enr_commit_done, Answered, Failed, EnrollStates
    <3> QED
      BY <2>1, <2>3, <3>1, EnrollRunsOut
  <2>4. CASE \/ on_vfy_capture_done \/ on_vfy_match_done \/ on_list_done \/ on_del_info_done
             \/ on_del_delete_done \/ on_clr_done
    BY <2>1, <2>4, OthersRunOut
  <2>5. CASE Sensor \/ SensorSilent \/ CommandFails
    <3>1. ASSUME wire = "sent", NEW form, NEW status, NEW cov, NEW id,
                 Answer(form, status, cov, id)
          PROVE  StepsLeft' \in 0..StepsLeft - 1
      BY <3>1, WireIsLess DEF Answer, ctxVars, enrollVars
    <3>2. CASE CommandFails
      BY <3>2, WireIsLess DEF CommandFails, ctxVars, enrollVars
    <3>3. CASE SensorIdentify \/ SensorCreate \/ SensorFinalize \/ SensorCommit \/ SensorList
      BY <3>1, <3>3 DEF SensorIdentify, SensorCreate, SensorFinalize, SensorCommit, SensorList,
         Executing, Refused
    <3>4. CASE SensorSample
      BY <3>1, <3>4 DEF SensorSample, Executing, Refused
    <3>5. CASE SensorInfo \/ SensorDelete \/ SensorFormat \/ SensorSilent
      BY <3>1, <3>5 DEF SensorInfo, SensorDelete, SensorFormat, SensorSilent, Executing, Refused
    <3> QED
      BY <2>5, <3>2, <3>3, <3>4, <3>5 DEF Sensor
  <2> QED
    BY <2>2, <2>3, <2>4, <2>5 DEF Next, Captures, Callbacks
<1>4. IInv /\ CoverageFollows /\ [Next]_vars => CoverageFollows'
  BY CoverageStep
<1> QED
  BY <1>1, <1>2, <1>3, <1>4, Invariance, PTL DEF Spec, ActionRunsOut
===============================================================================
