----------------------------- MODULE Remediation -----------------------------
(***************************************************************************)
(* The human-in-the-loop remediation workflow: the Step Functions state    *)
(* machine of terraform/modules/remediation, the cleanup Lambda it calls   *)
(* to detect and to delete, the approval Lambda it pauses on, and the      *)
(* clicks of whoever holds the email.  Executions overlap: one may wait    *)
(* for a day while the next is started.                                    *)
(***************************************************************************)
EXTENDS ApprovalLambda, Progress

CONSTANT MaxAttempts        \* task_retry_max_attempts: retries after the first try

ASSUME MaxAttemptsAssumption == MaxAttempts \in Nat

VARIABLES
    state,      \* state[e]: the state of the state machine that e is in
    retries     \* retries[e]: retries already spent on the current task

vars == <<state, retries, approvalVars, runVars, cloudVars>>

Tasks == {"DetectZombies", "RequestApproval", "DeleteApproved"}
CleanTerminals == {"NoZombies", "RemediationRejected", "RemediationIgnored", "ApprovalTimedOut"}
Terminals == CleanTerminals \cup {"Succeeded", "ApprovalFailed", "Failed"}

TypeOK ==
    /\ state \in [Executions -> {"NotStarted"} \cup Tasks \cup Terminals]
    /\ retries \in [Executions -> 0..MaxAttempts]
    /\ ApprovalTypeOK
    /\ RunTypeOK
    /\ CloudTypeOK

Init ==
    /\ state = [e \in Executions |-> "NotStarted"]
    /\ retries = [e \in Executions |-> 0]
    /\ ApprovalInit
    /\ RunInit
    /\ CloudInit

-----------------------------------------------------------------------------
(* Step Functions. *)

StartExecution(e) ==
    /\ state[e] = "NotStarted"
    /\ state' = [state EXCEPT ![e] = "DetectZombies"]
    /\ InvokeDetect(e)
    /\ UNCHANGED <<retries, approvalVars, cloudVars>>

\* DetectZombies has returned; AnyZombies chooses.
AnyZombies(e) ==
    /\ state[e] = "DetectZombies" /\ call[e] = "returned"
    /\ IF manifest[e] # {}
         THEN /\ state' = [state EXCEPT ![e] = "RequestApproval"]
              /\ InvokeNotify(e)
         ELSE /\ state' = [state EXCEPT ![e] = "NoZombies"]
              /\ UNCHANGED approvalVars
    /\ UNCHANGED <<retries, runVars, cloudVars>>

\* Mutant: the timeout covers only the time until the email is out.
MutantTimeoutBeforeEmail(e) ==
    /\ outcome[e] = "waiting" /\ ~Mailed(e)
    /\ outcome' = [outcome EXCEPT ![e] = "timeout"]
    /\ UNCHANGED <<tableVars, clickVars, state, retries, runVars, cloudVars>>

\* TimeoutSeconds of RequestApproval, a day; the notify Lambda is long over.
ApprovalTimesOut(e) ==
    /\ outcome[e] = "waiting" /\ NotifyEnded(e)
    /\ outcome' = [outcome EXCEPT ![e] = "timeout"]
    /\ UNCHANGED <<tableVars, clickVars, state, retries, runVars, cloudVars>>

\* Catch of RequestApproval.
AfterCatch ==
    [timeout |-> "ApprovalTimedOut", reject |-> "RemediationRejected",
     ignore |-> "RemediationIgnored", error |-> "ApprovalFailed"]

\* The token is resolved: approved goes on to the deletion of the very list
\* that was detected, anything else to its terminal.
ApprovalResolved(e) ==
    /\ state[e] = "RequestApproval" /\ outcome[e] # "waiting"
    /\ \/ /\ outcome[e] = "approve"
          /\ state' = [state EXCEPT ![e] = "DeleteApproved"]
          /\ retries' = [retries EXCEPT ![e] = 0]
          /\ InvokeRemediate(e)
       \/ /\ outcome[e] \in DOMAIN AfterCatch
          /\ state' = [state EXCEPT ![e] = AfterCatch[outcome[e]]]
          /\ UNCHANGED <<retries, runVars>>
    /\ UNCHANGED <<approvalVars, cloudVars>>

DeletionEnds(e) ==
    /\ state[e] = "DeleteApproved" /\ call[e] = "returned"
    /\ state' = [state EXCEPT ![e] = "Succeeded"]
    /\ UNCHANGED <<retries, approvalVars, runVars, cloudVars>>

\* Mutant: the retries are counted but not limited.
MutantRetryForever(e) ==
    /\ call[e] = "raised"
    /\ retries' = [retries EXCEPT ![e] = @ + 1]
    /\ \/ state[e] = "DetectZombies" /\ InvokeDetect(e)
       \/ state[e] = "DeleteApproved" /\ InvokeRemediate(e)
    /\ UNCHANGED <<state, approvalVars, cloudVars>>

\* Retry on States.ALL, the same in DetectZombies and DeleteApproved.
RetryTask(e) ==
    /\ call[e] = "raised" /\ retries[e] < MaxAttempts
    /\ retries' = [retries EXCEPT ![e] = @ + 1]
    /\ \/ state[e] = "DetectZombies" /\ InvokeDetect(e)
       \/ state[e] = "DeleteApproved" /\ InvokeRemediate(e)
    /\ UNCHANGED <<state, approvalVars, cloudVars>>

\* Mutant: DeleteApproved shares the Catch of RequestApproval.
MutantDeletionCaught(e) ==
    /\ state[e] \in {"DetectZombies", "DeleteApproved"}
    /\ call[e] = "raised" /\ retries[e] = MaxAttempts
    /\ state' = [state EXCEPT ![e] = "ApprovalFailed"]
    /\ UNCHANGED <<retries, approvalVars, runVars, cloudVars>>

\* Neither task has a Catch.
RetriesExhausted(e) ==
    /\ state[e] \in {"DetectZombies", "DeleteApproved"}
    /\ call[e] = "raised" /\ retries[e] = MaxAttempts
    /\ state' = [state EXCEPT ![e] = "Failed"]
    /\ UNCHANGED <<retries, approvalVars, runVars, cloudVars>>

StateMachineStep(e) ==
    \/ AnyZombies(e)
    \/ ApprovalTimesOut(e) \/ ApprovalResolved(e)
    \/ DeletionEnds(e) \/ RetryTask(e) \/ RetriesExhausted(e)

-----------------------------------------------------------------------------
(* The whole. *)

LambdaCall(e) == LambdaStep(e) /\ UNCHANGED <<state, retries, approvalVars>>
NotifyCall(e) == NotifyStep(e) /\ UNCHANGED <<state, retries>>
Table(e) == TableStep(e) /\ UNCHANGED <<state, retries>>
Callback(c) == ClickStep(c) /\ UNCHANGED <<state, retries>>
Owner(r) ==
    /\ OwnerActs(r)
    /\ spared' = IF tag' = tag THEN spared ELSE [e \in Executions |-> spared[e] \ {r}]
    /\ UNCHANGED <<state, retries, approvalVars, lambdaVars>>

Next ==
    \/ \E e \in Executions :
          \/ StartExecution(e) \/ StateMachineStep(e)
          \/ LambdaCall(e) \/ NotifyCall(e) \/ Table(e)
    \/ \E c \in Clicks : Callback(c)
    \/ \E r \in Resources : Owner(r)

\* Step Functions advances its executions and the task timeout fires; a Lambda
\* that has been invoked ends, if only by its own timeout.  Nobody has to
\* start an execution, click, or touch a resource.
Fairness ==
    /\ \A e \in Executions :
          /\ WF_vars(StateMachineStep(e))
          /\ WF_vars(LambdaCall(e))
          /\ WF_vars(NotifyCall(e))
    /\ \A c \in Clicks : WF_vars(pc[c] # "idle" /\ Callback(c))

SafetySpec == Init /\ [][Next]_vars
Spec == SafetySpec /\ Fairness

-----------------------------------------------------------------------------
(* Safety. *)

Resolved(e) == outcome[e] \notin {"none", "waiting"}

\* What an execution has deleted is part of the list it put to the operator,
\* and its token was resolved by an accepted Approve: whatever clicks race, time
\* out, repeat or crash.  Two executions never both delete a resource.
OnlyApprovedIsRemoved ==
    \A e \in Executions :
        /\ removed[e] \subseteq manifest[e]
        /\ removed[e] # {} => outcome[e] = "approve" /\ EnvArmed
        /\ \A f \in Executions \ {e} : removed[e] \cap removed[f] = {}

\* "Rejected / ignored / timed out are clean terminals": an execution that ends
\* in one, or in ApprovalFailed, has deleted nothing and logged no attempt.
CleanTerminalsAreClean ==
    \A e \in Executions :
        state[e] \in CleanTerminals \cup {"ApprovalFailed"} =>
            removed[e] = {} /\ log[e] = {} /\ records[e] = {}

\* The page a click is shown agrees with what Step Functions did: "Approved",
\* "Rejected", "Ignored" is the outcome, and "moved on" is never shown for an
\* execution that still waits.
PagesTellTheOutcome ==
    \A c \in Clicks :
        /\ pc[c] \in {"accepted", "Decided"} => outcome[link[c].exec] = link[c].action
        /\ pc[c] \in {"movedOn", "MovedOn", "AlreadyDecided"} => Resolved(link[c].exec)

\* At most one click per execution gets a 200 page.
OneClickDecides ==
    \A c, d \in Clicks :
        /\ pc[c] \in {"accepted", "Decided"} /\ pc[d] \in {"accepted", "Decided"}
        /\ link[c].exec = link[d].exec
        => c = d

\* A row is never marked decided while the workflow still waits: every link
\* would answer "already decided" and the execution could only time out.
\* APPROVED and REJECTED are the decision that was taken.
RowsFollowTheOutcome ==
    \A e \in Executions : \A item \in {row[e], replica[e]} :
        /\ item.status \notin {"ABSENT", "PENDING"} => Resolved(e)
        /\ item.status = "APPROVED" => outcome[e] = "approve"
        /\ item.status = "REJECTED" => outcome[e] = "reject"

\* While an execution waits and its links are in the inbox and not expired, its
\* row is there and open, so a click can still decide.
WaitingIsAnswerable ==
    \A e \in Executions :
        outcome[e] = "waiting" /\ Mailed(e) /\ ~expired[e] =>
            row[e].status = "PENDING"

\* An execution that Succeeded has logged an attempt on every approved resource,
\* in the mode the Lambda was armed for; a SUCCESS row is about a resource this
\* execution really deleted.
AuditIsHonest ==
    \A e \in Executions :
        /\ state[e] = "Succeeded" => manifest[e] = {rec.resource : rec \in log[e]}
        /\ \A rec \in log[e] :
              /\ rec.status = "SUCCESS" => rec.resource \in removed[e]
              /\ rec.status = "SKIPPED_DRY_RUN" <=> ~EnvArmed

\* What an owner has tagged AutoCleanup=ignore by the time a detection starts, and
\* leaves so, is not on its list, which finders build while owners go on tagging and
\* which a second try builds anew, and is not deleted for this execution.
KeepForever ==
    \A e \in Executions : spared[e] \cap (manifest[e] \cup removed[e]) = {}

-----------------------------------------------------------------------------
(* Liveness and refinement. *)

\* Every started execution ends: it never waits for an answer that nobody
\* gives, for a notify Lambda that died, or in retries.
EveryExecutionEnds ==
    \A e \in Executions : state[e] = "DetectZombies" ~> state[e] \in Terminals

\* The abstract gate: its decision is the task token's outcome, its proposal the
\* list the task was given, what is gone what the executions deleted.
Gate == INSTANCE HumanGate WITH
    proposal <- [e \in Executions |-> IF outcome[e] = "none" THEN {} ELSE manifest[e]],
    decision <- outcome,
    gone <- removed

\* The workflow implements the gate: one decision, deletions only after it, and
\* no decision awaited forever.
ImplementsGate == Gate!GateSpec
ImplementsGateSafety == Gate!GateSafety

-----------------------------------------------------------------------------
(* The inductive invariant: why the safety properties hold. *)

\* The state an execution is in says what its Lambdas may be doing and how far
\* its token has got.
ControlInv ==
    \A e \in Executions :
        /\ call[e] = "detect" => state[e] = "DetectZombies"
        /\ call[e] = "remediate" => state[e] = "DeleteApproved"
        /\ call[e] # "detect" => unread[e] = {}
        /\ state[e] \in {"NotStarted", "DetectZombies", "NoZombies"} => outcome[e] = "none"
        /\ outcome[e] = "waiting" => state[e] = "RequestApproval"
        /\ state[e] = "RequestApproval" => outcome[e] # "none"
        /\ state[e] \in {"DeleteApproved", "Succeeded"} => outcome[e] = "approve"
        /\ state[e] = "Failed" => outcome[e] \in {"none", "approve"}
        /\ state[e] \in {"RemediationRejected", "RemediationIgnored",
                         "ApprovalTimedOut", "ApprovalFailed"} =>
              outcome[e] \in {"reject", "ignore", "timeout", "error"}
        /\ outcome[e] = "none" <=> notify[e] = "none"

\* Nothing is visited, recorded or deleted before approval; what is deleted is
\* gone, so no second execution can delete it.
RemovalInv ==
    \A e \in Executions :
        /\ outcome[e] # "approve" =>
              removed[e] = {} /\ todo[e] = {} /\ records[e] = {} /\ log[e] = {}
        /\ todo[e] \subseteq manifest[e]
        /\ removed[e] \subseteq manifest[e]
        /\ removed[e] # {} => EnvArmed
        /\ \A r \in removed[e] : ec2[r] = "deleted"
        /\ \A f \in Executions \ {e} : removed[e] \cap removed[f] = {}

\* What is spared is tagged, so that no finder takes it for a zombie.
SparedInv ==
    \A e \in Executions :
        /\ \A r \in spared[e] : tag[r] = "ignore"
        /\ spared[e] \cap manifest[e] = {}

\* A callback past its read belongs to an execution that has asked.
CallbackInv ==
    /\ \A c \in Clicks : pc[c] \in Running => outcome[link[c].exec] # "none"
    /\ PagesTellTheOutcome
    /\ OneClickDecides
    /\ RowsFollowTheOutcome

\* Once stored, the row of a waiting execution stays open until it expires.
AnswerInv ==
    \A e \in Executions :
        outcome[e] = "waiting" /\ notify[e] \notin {"none", "invoked"} /\ ~expired[e] =>
            row[e].status = "PENDING"

Logged(e, recs) == \A r \in manifest[e] : \E rec \in recs : rec.resource = r

\* The loop has a record of each resource it has visited, and a task that has
\* returned has written them all.
AuditInv ==
    \A e \in Executions :
        /\ call[e] = "remediate" =>
              \A r \in manifest[e] \ todo[e] : \E rec \in records[e] : rec.resource = r
        /\ state[e] = "DeleteApproved" /\ call[e] = "returned" => Logged(e, log[e])
        /\ state[e] = "Succeeded" => Logged(e, log[e])
        /\ \A rec \in records[e] \cup log[e] :
              /\ rec.resource \in manifest[e]
              /\ rec.status = "SUCCESS" => rec.resource \in removed[e]
              /\ rec.status = "SKIPPED_DRY_RUN" <=> ~EnvArmed

\* All of it together is kept by every step.
IInv ==
    /\ TypeOK /\ ControlInv /\ RemovalInv /\ SparedInv
    /\ CallbackInv /\ AnswerInv /\ AuditInv

-----------------------------------------------------------------------------
(* Why executions end: one that has not ended has a step to take, and its   *)
(* steps lead down an order that no step of anybody leads up.               *)

\* What is running for e, or what the state machine does next about it: without
\* clicks and owners, that is.
CanGoOn(e) ==
    \/ call[e] \in {"detect", "remediate"}
    \/ state[e] \in {"DetectZombies", "DeleteApproved"} /\ call[e] \in {"returned", "raised"}
    \/ notify[e] \in {"invoked", "persisted", "emailed"}
    \/ state[e] = "RequestApproval" /\ (NotifyEnded(e) \/ Resolved(e))

\* An execution that has started and not ended is never left with nothing running
\* and nothing to react to: no answer of a Lambda or of the operator is waited for
\* without a timeout.
NothingIsStuck == \A e \in Executions : state[e] \in Tasks => CanGoOn(e)

StateLeft(e) ==
    CASE state[e] = "NotStarted" -> 4
      [] state[e] = "DetectZombies" -> 3
      [] state[e] = "RequestApproval" -> 2
      [] state[e] = "DeleteApproved" -> 1
      [] OTHER -> 0
TokenLeft(e) == IF outcome[e] = "none" THEN 2 ELSE IF outcome[e] = "waiting" THEN 1 ELSE 0
NotifyLeft(e) ==
    CASE notify[e] = "none" -> 4
      [] notify[e] = "invoked" -> 3
      [] notify[e] = "persisted" -> 2
      [] notify[e] = "emailed" -> 1
      [] OTHER -> 0
CallLeft(e) == IF call[e] \in {"detect", "remediate"} THEN 1 ELSE 0

Left(e) == <<StateLeft(e) + TokenLeft(e) + NotifyLeft(e),
             MaxAttempts - retries[e],
             Cardinality(unread[e]) + Cardinality(todo[e]) + CallLeft(e)>>

OwnStep(e) == StartExecution(e) \/ StateMachineStep(e) \/ LambdaCall(e) \/ NotifyCall(e)

\* Every step that is made for e brings it closer to its end, retries and deaths
\* of its Lambdas included, and no click, owner or other execution sets it back.
StepsGoForward ==
    [][\A e \in Executions :
          /\ OwnStep(e) => Less(Left(e)', Left(e))
          /\ AtMost(Left(e)', Left(e))]_vars

-----------------------------------------------------------------------------
(* What comments of the code say and the code does not do. *)

\* "Single-use guard: flip PENDING -> terminal status" (_mark_decided): a status
\* other than PENDING is final until the item is purged.
SingleUseGuard ==
    [][\A e \in Executions :
          row[e].status \notin {"ABSENT", "PENDING"} =>
              row'[e].status \in {row[e].status, "ABSENT"}]_vars

\* "Every remediation attempt (success, ...) is logged".
EveryRemovalIsLogged ==
    \A e \in Executions : state[e] \in Terminals =>
        \A r \in removed[e] : \E rec \in log[e] : rec.resource = r
=============================================================================
