------------------------------ MODULE MocDevice ------------------------------
(***************************************************************************)
(* The match-on-chip operations of the VeriMark driver                     *)
(* (src/driver/verimark-moc.c): enroll, verify, identify, list, delete and *)
(* clear, each an FpiSsm run by the callbacks of wrapped sensor commands.  *)
(* One action of this module is one callback or one entry point of the     *)
(* code; everything a callback does before it returns to the main loop     *)
(* (report, jump, submit the next command, complete) is that one step.     *)
(*                                                                         *)
(* Two parts are abstracted here.  The capture SSM is one step that ends   *)
(* ok, with a retry error or with another error, as CaptureContract allows *)
(* and module Capture implements.                                          *)
(* A wrapped command is sent, is executed and answered by the sensor, and  *)
(* its answer or an error is delivered; the error may come before or after *)
(* the sensor executed it.  Whatever is submitted on the cancellable of an *)
(* action that was cancelled fails before it is sent.                      *)
(*                                                                         *)
(* The sensor and the client (fprintd) are external.  Assumed of the       *)
(* sensor: it mints a fresh id when an enroll session reaches full         *)
(* coverage, coverage never decreases within a session, it commits under   *)
(* the id it minted, create-enroll starts a fresh session, and it names    *)
(* only templates it stores.  It may refuse any command, and may drop an   *)
(* object or keep it whatever it answers to a delete.                      *)
(***************************************************************************)
EXTENDS Integers, FiniteSets

CONSTANTS
  Ids,           \* the 16-byte ids the sensor can mint
  Zero,          \* the all-zero id
  FullCoverage,  \* coverage 0x7f, as a number of steps
  EnrollStages,  \* VERIMARK_ENROLL_STAGES
  MaxAttempts,   \* VERIMARK_VERIFY_MAX_ATTEMPTS
  EmptyReplies   \* can a control-IN answer with no bytes at all?

ASSUME ZeroIsNoId     == Zero \notin Ids
ASSUME BoundsPositive == /\ FullCoverage \in Nat \ {0}
                         /\ EnrollStages \in Nat \ {0}
                         /\ MaxAttempts \in Nat \ {0}
ASSUME EmptyRepliesBoolean == EmptyReplies \in BOOLEAN

VARIABLES
  \* the current action, kept by libfprint
  act, cancelled, last,
  given,              \* the prints the client passed to it
  \* the driver
  task_ssm,           \* state of the SSM self->task_ssm points to
  wire,               \* what that state waits for
  reply,              \* the decrypted answer on its way to the callback
  late,               \* the action's overall deadline has passed
  attempt,            \* VerimarkVerifyCtx.attempt
  capture_no,         \* captures started so far, modulo 2
  child,              \* VerimarkDeleteCtx.child
  enroll_stage, enroll_coverage, enroll_template_id,
  \* the sensor
  frame,              \* kind of the captured frame no command has used yet
  enr,                \* its enroll session
  store,              \* ids of the committed templates
  minted,             \* ids ever minted
  \* the client
  saved,              \* ids of the enrolled prints it keeps
  \* history
  erased,             \* templates the sensor removed
  orphans             \* stored, though the client was told otherwise

fpVars     == <<act, cancelled, last, given>>
ssmVars    == <<task_ssm, wire, reply, capture_no>>
ctxVars    == <<attempt, late, child>>
enrollVars == <<enroll_stage, enroll_coverage, enroll_template_id>>
templates  == <<store, minted, erased>>
sensorVars == <<frame, enr, templates>>
clientVars == <<saved, orphans>>
vars == <<fpVars, ssmVars, ctxVars, enrollVars, sensorVars, clientVars>>

-----------------------------------------------------------------------------
(* Types *)

EnrollStates  == {"ENR_DEDUP_CAPTURE", "ENR_DEDUP", "ENR_CREATE",
                  "ENR_SAMPLE_CAPTURE", "ENR_SAMPLE", "ENR_FINALIZE", "ENR_COMMIT"}
VerifyStates  == {"VFY_CAPTURE", "VFY_MATCH"}
CaptureStates == {"ENR_DEDUP_CAPTURE", "ENR_SAMPLE_CAPTURE", "VFY_CAPTURE"}
TaskStates    == EnrollStates \cup VerifyStates
                   \cup {"LIST_GET", "DEL_INFO", "DEL_DELETE", "CLR_FORMAT"}

\* A print carries the id minted at enroll, or the id a list returned for the
\* object, never both; any other fpi-data names no object ("foreign").
FpPrint == [kind : {"enrolled", "listed"}, id : Ids]
           \cup [kind : {"foreign"}, id : {Zero}]

\* "full": the whole answer.  "short": a status but less than the parser
\* needs.  "empty": no byte, which the callback sees as status 0x0000.
Reply == [form : {"full", "short", "empty"}, status : {"ok", "bad"},
          cov : 0..FullCoverage, id : Ids \cup {Zero}]
NoReply == [form |-> "full", status |-> "ok", cov |-> 0, id |-> Zero]

Session == [open : BOOLEAN, own : BOOLEAN, cov : 0..FullCoverage,
            id : Ids \cup {Zero}, final : BOOLEAN]
NoSession   == [open |-> FALSE, own |-> FALSE, cov |-> 0, id |-> Zero, final |-> FALSE]
OpenSession == [open |-> TRUE, own |-> TRUE, cov |-> 0, id |-> Zero, final |-> FALSE]

FP == INSTANCE FpDevice

Init ==
  /\ FP!Init
  /\ given = {}
  /\ task_ssm = "NULL" /\ wire = "idle" /\ reply = NoReply /\ capture_no = 0
  /\ attempt = 0 /\ late = FALSE /\ child = Zero
  /\ enroll_stage = 0 /\ enroll_coverage = 0 /\ enroll_template_id = Zero
  /\ frame = "none" /\ enr = NoSession /\ store = {} /\ minted = {} /\ erased = {}
  /\ saved = {} /\ orphans = {}

-----------------------------------------------------------------------------
(* Steps shared by the operations *)

\* Enter state s: its handler starts a capture, or wraps and submits a command,
\* on the action's cancellable, which may have fired.
Enter(s) ==
  /\ task_ssm' = s
  /\ reply' = NoReply
  /\ wire' = IF cancelled THEN "failed"
             ELSE IF s \in CaptureStates THEN "capture" ELSE "sent"
  /\ capture_no' = IF s \in CaptureStates THEN 1 - capture_no ELSE capture_no

\* A new action of the client, its SSM started in state s.
Begin(op, prints, s) ==
  /\ act = "none"
  /\ act' = op /\ cancelled' = FALSE /\ last' = FP!NoEnding /\ given' = prints
  /\ Enter(s)

\* The SSM ends, its completion callback calls fpi_device_*_complete and its
\* data is freed; libfprint drops the action's prints and cancellable.
Finish(report, result) ==
  /\ act' = "none" /\ last' = FP!Ending(act, report, result)
  /\ cancelled' = FALSE /\ given' = {}
  /\ task_ssm' = "NULL" /\ wire' = "idle" /\ reply' = NoReply
  /\ late' = FALSE /\ attempt' = 0 /\ child' = Zero
  /\ UNCHANGED capture_no

\* The callback of the command of state s runs, with an answer or an error.
Answered(s) == task_ssm = s /\ wire = "answered"
Failed(s)   == task_ssm = s /\ wire = "failed"

\* verimark_moc_send's callback gets an error: the command was never executed,
\* or its answer was lost, cancelled or did not decrypt.
CommandFails ==
  /\ wire \in {"sent", "answered"}
  /\ wire' = "failed" /\ reply' = NoReply
  /\ UNCHANGED <<fpVars, task_ssm, capture_no, ctxVars, enrollVars,
                 sensorVars, clientVars>>

\* The client cancels: dev_cancel itself does nothing.  What is on its way may
\* still arrive; Enter fails what the action submits from now on.
dev_cancel ==
  /\ act # "none" /\ ~cancelled
  /\ cancelled' = TRUE
  /\ UNCHANGED <<act, last, given, ssmVars, ctxVars, enrollVars,
                 sensorVars, clientVars>>

DeadlinePasses ==
  /\ act \in {"enroll", "verify", "identify"} /\ ~late
  /\ late' = TRUE
  /\ UNCHANGED <<fpVars, ssmVars, attempt, child, enrollVars, sensorVars, clientVars>>

-----------------------------------------------------------------------------
(* Enroll *)

verimark_moc_enroll ==
  /\ Begin("enroll", {}, "ENR_DEDUP_CAPTURE")
  /\ enroll_stage' = 0 /\ enroll_coverage' = 0 /\ enroll_template_id' = Zero
  /\ enr' = [enr EXCEPT !.own = FALSE]
  /\ UNCHANGED <<ctxVars, frame, templates, clientVars>>

EnrollFails(result) == Finish("none", result) /\ UNCHANGED <<enrollVars, saved>>

\* Which frame a capture state acquires: VERIMARK_ACQ_VERIFY for the dedup
\* check and for a match, VERIMARK_ACQ_ENROLL for a sample.
AcqKind_VerifyOnly(s) == "verify"   \* mutant
AcqKind(s) == IF s = "ENR_SAMPLE_CAPTURE" THEN "enroll" ELSE "verify"

\* A failed capture promises nothing about the frame it leaves behind; one that
\* never got its first command out leaves what there was.
FrameAfterFailure == IF wire = "capture" THEN {"none", "verify", "enroll"} ELSE {frame}

\* A capture or a sample that fails ends the enroll only after its deadline.
PastDeadline_Never == FALSE   \* mutant
PastDeadline == late

on_enr_capture_done ==
  /\ task_ssm \in {"ENR_DEDUP_CAPTURE", "ENR_SAMPLE_CAPTURE"}
  /\ \/ /\ wire = "capture" /\ frame' = AcqKind(task_ssm)
        /\ Enter(IF task_ssm = "ENR_DEDUP_CAPTURE" THEN "ENR_DEDUP" ELSE "ENR_SAMPLE")
        /\ UNCHANGED <<fpVars, ctxVars, enrollVars, saved>>
     \/ /\ ~PastDeadline   \* any error, a cancelled capture's too: capture again
        /\ frame' \in FrameAfterFailure
        /\ Enter(task_ssm)
        /\ UNCHANGED <<fpVars, ctxVars, enrollVars, saved>>
     \/ /\ PastDeadline
        /\ frame' \in FrameAfterFailure
        /\ \E result \in {"retry", "error"} : EnrollFails(result)
  /\ UNCHANGED <<enr, templates, orphans>>

\* The state entered after the dedup check.
AfterDedup_NoCreate == "ENR_SAMPLE_CAPTURE"   \* mutant
AfterDedup == "ENR_CREATE"

\* The answer to the dedup check is not looked at.
on_enr_dedup_done ==
  /\ \/ /\ Answered("ENR_DEDUP")
        /\ Enter(AfterDedup)
        /\ UNCHANGED <<fpVars, ctxVars, enrollVars, saved>>
     \/ Failed("ENR_DEDUP") /\ EnrollFails("error")
  /\ UNCHANGED <<sensorVars, orphans>>

\* The callbacks of create, finalize and commit test the status alone.
StatusOk_Ignored == TRUE   \* mutant
StatusOk == reply.status = "ok"

StatusDone(s, next) ==
  /\ \/ /\ Answered(s) /\ StatusOk
        /\ Enter(next)
        /\ UNCHANGED <<fpVars, ctxVars, enrollVars, saved>>
     \/ /\ Failed(s) \/ (Answered(s) /\ ~StatusOk)
        /\ EnrollFails("error")
  /\ UNCHANGED <<sensorVars, orphans>>

on_enr_create_done   == StatusDone("ENR_CREATE", "ENR_SAMPLE_CAPTURE")
on_enr_finalize_done == StatusDone("ENR_FINALIZE", "ENR_COMMIT")

\* verimark_moc_parse_sample accepts only a whole answer.
Progress == reply.form = "full" /\ reply.status = "ok" /\ reply.cov # enroll_coverage

\* Stages reported to the client, at most nr_enroll_stages.
NextStage_Uncapped == enroll_stage + 1   \* mutant
NextStage == IF enroll_stage < EnrollStages THEN enroll_stage + 1 ELSE enroll_stage

\* The id the sensor minted, taken from the answer with full coverage.
MintedId_NotCopied == enroll_template_id   \* mutant
MintedId == reply.id

on_enr_sample_done ==
  /\ \/ /\ Answered("ENR_SAMPLE") /\ Progress
        /\ enroll_coverage' = reply.cov /\ enroll_stage' = NextStage
        /\ IF reply.cov = FullCoverage
             THEN enroll_template_id' = MintedId /\ Enter("ENR_FINALIZE")
             ELSE Enter("ENR_SAMPLE_CAPTURE") /\ UNCHANGED enroll_template_id
        /\ UNCHANGED <<fpVars, ctxVars, saved>>
     \/ /\ Answered("ENR_SAMPLE") /\ ~Progress /\ ~PastDeadline
        /\ Enter("ENR_SAMPLE_CAPTURE")
        /\ UNCHANGED <<fpVars, ctxVars, enrollVars, saved>>
     \/ /\ Failed("ENR_SAMPLE") \/ (Answered("ENR_SAMPLE") /\ ~Progress /\ PastDeadline)
        /\ EnrollFails("error")
  /\ UNCHANGED <<sensorVars, orphans>>

\* The id the new print carries as its minted id.
PrintId_Zero == Zero   \* mutant
PrintId == enroll_template_id

\* A commit that answers ok completes the enroll with a print the client keeps.
on_enr_commit_done ==
  /\ \/ /\ Answered("ENR_COMMIT") /\ StatusOk
        /\ Finish("none", "ok")
        /\ saved' = saved \cup {PrintId}
        /\ UNCHANGED <<enrollVars, orphans>>
     \/ /\ Failed("ENR_COMMIT") \/ (Answered("ENR_COMMIT") /\ ~StatusOk)
        /\ EnrollFails("error")
        /\ orphans' = orphans \cup (store \cap {enroll_template_id})
  /\ UNCHANGED sensorVars

-----------------------------------------------------------------------------
(* Verify and identify *)

\* Prints the client stored, among them one this driver did not make, and
\* prints a list returned at some time.
StoredPrints == [kind : {"enrolled"}, id : saved] \cup [kind : {"foreign"}, id : {Zero}]
ClientPrints == StoredPrints \cup [kind : {"listed"}, id : store \cup erased]

verimark_moc_verify_identify_start(op, prints) ==
  /\ Begin(op, prints, "VFY_CAPTURE")
  /\ UNCHANGED <<ctxVars, enrollVars, sensorVars, clientVars>>

verimark_moc_verify ==
  \E p \in ClientPrints : verimark_moc_verify_identify_start("verify", {p})
verimark_moc_identify ==
  \E prints \in SUBSET StoredPrints : verimark_moc_verify_identify_start("identify", prints)

\* A retry error is stolen for the report, so that the action completes without
\* an error; any other error is the completion's.
verimark_verify_ssm_done_NoReport(result) ==   \* mutant
  IF result = "retry" THEN Finish("none", "ok") ELSE Finish("none", "error")
verimark_verify_ssm_done(result) ==
  IF result = "retry" THEN Finish("retry", "ok") ELSE Finish("none", "error")

on_vfy_capture_done ==
  /\ task_ssm = "VFY_CAPTURE"
  /\ \/ /\ wire = "capture" /\ frame' = AcqKind(task_ssm)
        /\ Enter("VFY_MATCH")
        /\ UNCHANGED <<fpVars, ctxVars>>
     \/ /\ frame' \in FrameAfterFailure
        /\ attempt + 1 >= MaxAttempts \/ late
        /\ \E result \in {"retry", "error"} : verimark_verify_ssm_done(result)
     \/ /\ frame' \in FrameAfterFailure
        /\ attempt + 1 < MaxAttempts /\ ~late
        /\ attempt' = attempt + 1
        /\ Enter("VFY_CAPTURE")
        /\ UNCHANGED <<fpVars, late, child>>
  /\ UNCHANGED <<enrollVars, enr, templates, clientVars>>

\* print_matches_tid: the id minted at enroll is compared, never a listed id.
print_matches_tid_Any(print, id) == TRUE   \* mutant
print_matches_tid(print, id) == print.kind = "enrolled" /\ print.id = id

on_vfy_match_done ==
  /\ \/ /\ Answered("VFY_MATCH") /\ reply.form = "full" /\ reply.status = "ok"
        /\ Finish(IF \E p \in given : print_matches_tid(p, reply.id)
                    THEN "match" ELSE "no_match", "ok")
     \/ /\ Answered("VFY_MATCH") /\ reply.status = "bad"
        /\ Finish("no_match", "ok")
     \/ /\ \/ Failed("VFY_MATCH")
           \/ Answered("VFY_MATCH") /\ reply.form # "full" /\ reply.status = "ok"
        /\ verimark_verify_ssm_done("error")
  /\ UNCHANGED <<enrollVars, sensorVars, clientVars>>

-----------------------------------------------------------------------------
(* List, delete and clear *)

verimark_moc_list ==
  /\ Begin("list", {}, "LIST_GET")
  /\ UNCHANGED <<ctxVars, enrollVars, sensorVars, clientVars>>

on_list_done ==
  /\ \/ /\ Answered("LIST_GET") /\ reply.form = "full" /\ reply.status = "ok"
        /\ Finish("none", "ok")
     \/ /\ \/ Failed("LIST_GET")
           \/ Answered("LIST_GET") /\ (reply.form # "full" \/ reply.status = "bad")
        /\ Finish("none", "error")
  /\ UNCHANGED <<enrollVars, sensorVars, clientVars>>

\* A print without an id is refused before anything is sent.
verimark_moc_delete ==
  /\ \/ /\ \E p \in ClientPrints : p.kind = "foreign"
        /\ FP!Refuse("delete") /\ UNCHANGED <<given, ssmVars>>
     \/ \E p \in ClientPrints : p.kind # "foreign" /\ Begin("delete", {p}, "DEL_INFO")
  /\ UNCHANGED <<ctxVars, enrollVars, sensorVars, clientVars>>

\* The object's child is read from the answer whatever its status says.
on_del_info_done ==
  /\ \/ /\ Answered("DEL_INFO") /\ reply.form = "full"
        /\ child' = reply.id
        /\ Enter("DEL_DELETE") /\ UNCHANGED <<fpVars, late, attempt>>
     \/ /\ Failed("DEL_INFO") \/ (Answered("DEL_INFO") /\ reply.form # "full")
        /\ Finish("none", "error")
  /\ UNCHANGED <<enrollVars, sensorVars, clientVars>>

\* The status of the delete is not looked at: the client drops its print.
on_del_delete_done ==
  /\ \/ /\ Answered("DEL_DELETE")
        /\ Finish("none", "ok")
        /\ saved'   = {t \in saved : \A p \in given : p.kind = "enrolled" => p.id # t}
        /\ orphans' = orphans \cup {t \in store : \E p \in given : p.id = t}
     \/ /\ Failed("DEL_DELETE")
        /\ Finish("none", "error") /\ UNCHANGED clientVars
  /\ UNCHANGED <<enrollVars, sensorVars>>

verimark_moc_clear ==
  /\ Begin("clear_storage", {}, "CLR_FORMAT")
  /\ UNCHANGED <<ctxVars, enrollVars, sensorVars, clientVars>>

\* Nor is the status of the format.
on_clr_done ==
  /\ \/ /\ Answered("CLR_FORMAT")
        /\ Finish("none", "ok")
        /\ saved' = {} /\ orphans' = store
     \/ /\ Failed("CLR_FORMAT")
        /\ Finish("none", "error") /\ UNCHANGED clientVars
  /\ UNCHANGED <<enrollVars, sensorVars>>

-----------------------------------------------------------------------------
(* The sensor (external): it executes the command it was sent and answers *)

Answer(form, status, cov, id) ==
  /\ wire' = "answered"
  /\ reply' = [form |-> form, status |-> status, cov |-> cov, id |-> id]
  /\ UNCHANGED <<fpVars, task_ssm, capture_no, ctxVars, enrollVars, saved>>

Executing(s) == task_ssm = s /\ wire = "sent"

Refused == Answer("full", "bad", 0, Zero)

\* A control-IN that moves no byte ends verimark_cmd like any short read.
SensorSilent ==
  /\ EmptyReplies /\ wire = "sent"
  /\ Answer("empty", "ok", 0, Zero)
  /\ UNCHANGED <<sensorVars, orphans>>

\* 0x99 01, the dedup check and the match: it uses up the frame.
SensorIdentify ==
  /\ Executing("ENR_DEDUP") \/ Executing("VFY_MATCH")
  /\ frame' = "none"
  /\ \/ Refused
     \/ Answer("short", "ok", 0, Zero)
     \/ \E t \in store : Answer("full", "ok", 0, t)
  /\ UNCHANGED <<enr, templates, orphans>>

SensorCreate ==
  /\ Executing("ENR_CREATE")
  /\ \/ Refused /\ UNCHANGED enr
     \/ /\ Answer("full", "ok", 0, Zero)
        /\ enr' = OpenSession
  /\ UNCHANGED <<frame, templates, orphans>>

\* 0x96 02 uses up the frame; a session that reaches full coverage mints its id.
SensorSample ==
  /\ Executing("ENR_SAMPLE")
  /\ frame' = "none"
  /\ \/ Refused /\ UNCHANGED <<enr, minted>>
     \/ \E c \in enr.cov..FullCoverage, form \in {"full", "short"} :
          /\ enr.open /\ (c = FullCoverage => enr.id # Zero)
          /\ enr' = [enr EXCEPT !.cov = c]
          /\ Answer(form, "ok", c, enr.id)
          /\ UNCHANGED minted
     \/ \E t \in Ids \ minted, form \in {"full", "short"} :
          /\ enr.open /\ enr.id = Zero
          /\ enr' = [enr EXCEPT !.cov = FullCoverage, !.id = t]
          /\ Answer(form, "ok", FullCoverage, t)
          /\ minted' = minted \cup {t}
  /\ UNCHANGED <<store, erased, orphans>>

SensorFinalize ==
  /\ Executing("ENR_FINALIZE")
  /\ \/ Refused /\ UNCHANGED enr
     \/ /\ enr.open /\ enr.id # Zero
        /\ enr' = [enr EXCEPT !.final = TRUE]
        /\ Answer("full", "ok", 0, Zero)
  /\ UNCHANGED <<frame, templates, orphans>>

SensorCommit ==
  /\ Executing("ENR_COMMIT")
  /\ \/ Refused /\ UNCHANGED <<enr, store>>
     \/ /\ enr.final
        /\ store' = store \cup {enr.id}
        /\ enr' = NoSession
        /\ Answer("full", "ok", 0, Zero)
  /\ UNCHANGED <<frame, minted, erased, orphans>>

SensorList ==
  /\ Executing("LIST_GET")
  /\ Refused \/ (\E form \in {"full", "short"} : Answer(form, "ok", 0, Zero))
  /\ UNCHANGED <<sensorVars, orphans>>

\* 0xa0: the child of the object the print names, or an answer naming none.
SensorInfo ==
  /\ Executing("DEL_INFO")
  /\ \/ \E p \in given : p.id \in store /\ Answer("full", "ok", 0, p.id)
     \/ \E form \in {"full", "short"} : Answer(form, "bad", 0, Zero)
  /\ UNCHANGED <<sensorVars, orphans>>

Drop(S) ==
  store' = store \ S /\ erased' = erased \cup (store \cap S) /\ orphans' = orphans \ S

\* 0xa3
SensorDelete ==
  /\ Executing("DEL_DELETE")
  /\ \/ Refused /\ UNCHANGED <<store, erased, orphans>>
     \/ Answer("full", "ok", 0, Zero) /\ Drop({child})
  /\ UNCHANGED <<frame, enr, minted>>

\* 0xa5
SensorFormat ==
  /\ Executing("CLR_FORMAT")
  /\ \/ Refused /\ UNCHANGED <<store, erased, orphans>>
     \/ Answer("full", "ok", 0, Zero) /\ Drop(store)
  /\ UNCHANGED <<frame, enr, minted>>

-----------------------------------------------------------------------------

Client == \/ verimark_moc_enroll \/ verimark_moc_verify \/ verimark_moc_identify
          \/ verimark_moc_list \/ verimark_moc_delete \/ verimark_moc_clear
          \/ dev_cancel

Captures == on_enr_capture_done \/ on_vfy_capture_done

Callbacks == \/ on_enr_dedup_done \/ on_enr_create_done \/ on_enr_sample_done
             \/ on_enr_finalize_done \/ on_enr_commit_done \/ on_vfy_match_done
             \/ on_list_done \/ on_del_info_done \/ on_del_delete_done \/ on_clr_done

Sensor == \/ SensorIdentify \/ SensorCreate \/ SensorSample \/ SensorFinalize
          \/ SensorCommit \/ SensorList \/ SensorInfo \/ SensorDelete \/ SensorFormat

Next == Client \/ DeadlinePasses \/ Captures \/ Callbacks \/ Sensor
          \/ SensorSilent \/ CommandFails

\* Transfers and captures are bounded by timeouts, callbacks run from the main
\* loop and the monotonic clock advances; the client owes nothing.
Fairness == /\ WF_vars(DeadlinePasses)
            /\ WF_vars(Captures)
            /\ WF_vars(Callbacks)
            /\ WF_vars(Sensor \/ SensorSilent \/ CommandFails)

Spec == Init /\ [][Next]_vars /\ Fairness

-----------------------------------------------------------------------------
(* Properties *)

CallTypes ==
  /\ act \in FP!Ops \cup {"none"} /\ cancelled \in BOOLEAN
  /\ last \in [op : FP!Ops \cup {"none"}, report : FP!Reports, result : FP!Results]
  /\ given \in SUBSET FpPrint
SsmTypes ==
  /\ task_ssm \in TaskStates \cup {"NULL"}
  /\ wire \in {"idle", "capture", "sent", "answered", "failed"}
  /\ reply \in Reply /\ capture_no \in {0, 1}
CtxTypes ==
  attempt \in 0..MaxAttempts /\ late \in BOOLEAN /\ child \in Ids \cup {Zero}
EnrollTypes ==
  /\ enroll_stage \in 0..EnrollStages /\ enroll_coverage \in 0..FullCoverage
  /\ enroll_template_id \in Ids \cup {Zero}
SensorTypes ==
  /\ frame \in {"none", "verify", "enroll"} /\ enr \in Session
  /\ store \in SUBSET Ids /\ minted \in SUBSET Ids /\ erased \in SUBSET Ids
ClientTypes == saved \in SUBSET Ids /\ orphans \in SUBSET Ids

\* Every variable keeps its type; in particular the enroll stage stays within
\* nr_enroll_stages although a sensor may need more samples than that.
TypeOK ==
  CallTypes /\ SsmTypes /\ CtxTypes /\ EnrollTypes /\ SensorTypes /\ ClientTypes

\* A print the client got from a successful enroll is backed by a template on
\* the sensor, unless a delete or a clear removed that template later: enroll
\* never succeeds for a template that was not committed, whatever was
\* cancelled, lost or refused before.
PrintBacked == saved \subseteq store \cup erased

\* A template can sit on the sensor without a print of the client for two
\* reasons only: the answer to its commit was lost, or a delete or clear was
\* reported as done while the sensor kept it.
SlotAccounted ==
  store \subseteq saved \cup orphans
                   \cup (IF task_ssm = "ENR_COMMIT" THEN {enroll_template_id} ELSE {})

\* Samples, finalize and commit work on the enroll session this enroll opened,
\* never on one a cancelled or failed enroll left half-open on the sensor.
OwnSession ==
  task_ssm \in {"ENR_SAMPLE_CAPTURE", "ENR_SAMPLE", "ENR_FINALIZE"}
    => enr.open /\ enr.own

\* Finalize and commit are reached only with full coverage, and the id spliced
\* into finalize is the one the sensor minted for the session it will commit.
FinalizeNamesMinted ==
  /\ task_ssm \in {"ENR_FINALIZE", "ENR_COMMIT"}
       => enroll_coverage = FullCoverage /\ enroll_template_id \in minted
  /\ task_ssm = "ENR_FINALIZE" => enr.id = enroll_template_id
  /\ task_ssm = "ENR_COMMIT" => \/ enr.id = enroll_template_id
                                \/ wire # "sent" /\ enroll_template_id \in store

\* A command that consumes a frame is on its way only after a capture of the
\* kind it needs, and no frame is ever used for two commands.
FrameFresh ==
  wire = "sent" => /\ task_ssm \in {"ENR_DEDUP", "VFY_MATCH"} => frame = "verify"
                   /\ task_ssm = "ENR_SAMPLE" => frame = "enroll"

\* A reported match rests on a print enrolled by this driver that the client
\* asked about and whose template the sensor stores.
MatchSound ==
  [][last' # last /\ last'.report = "match"
       => \E p \in given : p.kind = "enrolled" /\ p.id = reply.id /\ p.id \in store]_vars

\* The driver honours libfprint's contract: each action completes once, with a
\* report exactly when a verify or identify completes without an error.
Contract == FP!Init /\ [][FP!Next]_<<act, cancelled, last>>

\* What is left of an action: the states its SSM may still enter, and in each
\* the command on its way, its answer and its failure.  A sample that brings no
\* coverage and a capture of a match that fails are not repeated for ever.
StatesLeft ==
  CASE task_ssm \in {"ENR_COMMIT", "VFY_MATCH", "LIST_GET", "DEL_DELETE", "CLR_FORMAT"} -> 0
    [] task_ssm \in {"ENR_FINALIZE", "DEL_INFO"} -> 1
    [] task_ssm = "VFY_CAPTURE"        -> 1 + MaxAttempts - attempt
    [] task_ssm = "ENR_SAMPLE"         -> 2 + 2 * (FullCoverage - enroll_coverage)
    [] task_ssm = "ENR_SAMPLE_CAPTURE" -> 3 + 2 * (FullCoverage - enroll_coverage)
    [] task_ssm = "ENR_CREATE"         -> 4 + 2 * FullCoverage
    [] task_ssm = "ENR_DEDUP"          -> 5 + 2 * FullCoverage
    [] task_ssm = "ENR_DEDUP_CAPTURE"  -> 6 + 2 * FullCoverage
    [] OTHER -> 0
WireLeft == [idle |-> 0, capture |-> 1, failed |-> 1, answered |-> 2, sent |-> 3]
StepsLeft == 4 * StatesLeft + WireLeft[wire]

\* Every step of an action leaves less to do, whatever fails or is cancelled;
\* only another capture of an enroll before its deadline puts the end off.
ActionRunsOut ==
  [][act # "none" => \/ StepsLeft' \in 0..StepsLeft - 1
                     \/ act = "enroll" /\ ~late /\ task_ssm' \in CaptureStates]_ssmVars

\* Every action the client starts completes, whatever fails on the way.
ActionEnds == act # "none" ~> act = "none"

-----------------------------------------------------------------------------
(* The inductive invariant behind the safety properties *)

\* The states of the SSM each action runs.
StatesOf(op) == IF op = "enroll" THEN EnrollStates
                ELSE IF op \in FP!Matching THEN VerifyStates
                ELSE IF op = "list" THEN {"LIST_GET"}
                ELSE IF op = "delete" THEN {"DEL_INFO", "DEL_DELETE"}
                ELSE IF op = "clear_storage" THEN {"CLR_FORMAT"}
                ELSE {"NULL"}

\* self->task_ssm belongs to the current action and waits for what it started.
TaskOfAction ==
  /\ task_ssm \in StatesOf(act)
  /\ wire = "idle" <=> task_ssm = "NULL"
  /\ wire = "capture" => task_ssm \in CaptureStates
  /\ task_ssm \in CaptureStates => wire \in {"capture", "failed"}
  /\ task_ssm = "NULL" => attempt = 0 /\ ~late /\ child = Zero

SessionMinted == /\ enr.id # Zero => enr.id \in minted
                 /\ enr.final => enr.id # Zero
                 /\ store \cup erased \subseteq minted

\* What an answer on its way to its callback says of the sensor.
AnswersTrue ==
  wire = "answered" =>
    /\ reply.form = "empty" => EmptyReplies
    /\ reply.form # "empty" /\ StatusOk =>
         /\ task_ssm = "ENR_CREATE" => enr.open /\ enr.own
         /\ task_ssm = "ENR_SAMPLE" /\ reply.cov = FullCoverage
              => reply.id = enr.id /\ reply.id \in minted
         /\ task_ssm = "ENR_COMMIT" => enroll_template_id \in store
         /\ task_ssm = "VFY_MATCH" /\ reply.form = "full" => reply.id \in store

\* These two need every command to be answered with at least a status.
UnlessEmpty == ~EmptyReplies => OwnSession /\ PrintBacked

\* Holds in every reachable state and is preserved by every step.
IInv == /\ TypeOK /\ TaskOfAction /\ SessionMinted /\ AnswersTrue
        /\ FinalizeNamesMinted /\ FrameFresh /\ SlotAccounted /\ UnlessEmpty

-----------------------------------------------------------------------------
(* Claims of comments and plans that the code does not keep *)

\* verimark.c:567-570: a cancelled transfer unwinds the action's SSM like any
\* other failure, so no new capture starts once the action is cancelled.
CancelUnwinds == [][act # "none" /\ cancelled => capture_no' = capture_no]_vars

\* PORTING-PLAN.md:307: cancelling an enroll discards its half-open context.
CancelDiscardsEnroll ==
  [][act = "enroll" /\ act' = "none" /\ cancelled => ~enr'.open]_vars

\* verimark-moc.c:1457-1459: a retry failure is surfaced as a report and as the
\* completion error.
RetryEndsWithError ==
  [][act # "none" /\ act' = "none" /\ last'.report = "retry"
       => last'.result = "retry"]_vars
===============================================================================
