---------------------------- MODULE CleanupLambda ----------------------------
(***************************************************************************)
(* The resource_cleanup Lambda as the remediation workflow calls it: in    *)
(* "detect" mode, which returns the zombies it finds, and in "remediate"   *)
(* mode, which deletes an explicit list and logs each attempt.  One        *)
(* execution has at most one invocation of it running.                     *)
(***************************************************************************)
EXTENDS CloudResources

CONSTANTS
    Executions,     \* executions of the remediation state machine
    EnvArmed        \* the Lambda's AUTO_REMEDIATE environment variable

ASSUME EnvArmedAssumption == EnvArmed \in BOOLEAN

VARIABLES
    call,       \* call[e]: where the invocation made for e is
    unread,     \* unread[e]: resources the finders have yet to look at
    manifest,   \* manifest[e]: all_findings, then $.detect.resources
    spared,     \* spared[e]: tagged "ignore" ever since the call to detect (history)
    todo,       \* todo[e]: resources the remediate loop has yet to visit
    records,    \* records[e]: audit records the loop holds in memory
    log,        \* log[e]: rows written to the remediation log for e
    removed     \* removed[e]: resources that calls made for e have deleted

lambdaVars == <<call, unread, manifest, todo, records, log, removed>>
runVars == <<lambdaVars, spared>>

Record == [resource : Resources, status : {"SUCCESS", "FAILED", "SKIPPED_DRY_RUN"}]

RunTypeOK ==
    /\ call \in [Executions -> {"none", "detect", "remediate", "returned", "raised"}]
    /\ unread \in [Executions -> SUBSET Resources]
    /\ manifest \in [Executions -> SUBSET Resources]
    /\ spared \in [Executions -> SUBSET Resources]
    /\ todo \in [Executions -> SUBSET Resources]
    /\ records \in [Executions -> SUBSET Record]
    /\ log \in [Executions -> SUBSET Record]
    /\ removed \in [Executions -> SUBSET Resources]

RunInit ==
    /\ call = [e \in Executions |-> "none"]
    /\ unread = [e \in Executions |-> {}]
    /\ manifest = [e \in Executions |-> {}]
    /\ spared = [e \in Executions |-> {}]
    /\ todo = [e \in Executions |-> {}]
    /\ records = [e \in Executions |-> {}]
    /\ log = [e \in Executions |-> {}]
    /\ removed = [e \in Executions |-> {}]

\* What DeleteApproved passes as auto_remediate.
EventFlag == TRUE

\* Mutant: either gate is enough.
MutantEitherGate(flag) == EnvArmed \/ flag

\* Both gates must opt in: the environment and the event's auto_remediate.
AutoRemediateEnabled(flag) == EnvArmed /\ flag

-----------------------------------------------------------------------------
(* Invocations, made by Step Functions. *)

\* Mutant: a list that outlives the invocation in a warm process.
MutantWarmList(e) ==
    /\ call' = [call EXCEPT ![e] = "detect"]
    /\ unread' = [unread EXCEPT ![e] = Resources]
    /\ spared' = [spared EXCEPT ![e] = {r \in Resources : tag[r] = "ignore"}]
    /\ UNCHANGED <<manifest, todo, records, log, removed>>

\* A fresh process: nothing looked at, nothing found.
InvokeDetect(e) ==
    /\ call' = [call EXCEPT ![e] = "detect"]
    /\ unread' = [unread EXCEPT ![e] = Resources]
    /\ manifest' = [manifest EXCEPT ![e] = {}]
    /\ spared' = [spared EXCEPT ![e] = {r \in Resources : tag[r] = "ignore"}]
    /\ UNCHANGED <<todo, records, log, removed>>

\* Mutant: the deletion detects again instead of taking the approved list.
MutantDetectAgain(e) ==
    /\ call' = [call EXCEPT ![e] = "remediate"]
    /\ todo' = [todo EXCEPT ![e] = Zombies]
    /\ records' = [records EXCEPT ![e] = {}]
    /\ UNCHANGED <<unread, manifest, spared, log, removed>>

\* A fresh process: the whole approved list to visit, no record yet.
InvokeRemediate(e) ==
    /\ call' = [call EXCEPT ![e] = "remediate"]
    /\ todo' = [todo EXCEPT ![e] = manifest[e]]
    /\ records' = [records EXCEPT ![e] = {}]
    /\ UNCHANGED <<unread, manifest, spared, log, removed>>

-----------------------------------------------------------------------------
(* The handler. *)

\* A finder looks at a volume, an address or a snapshot, as a page of a listing
\* shows it.  It swallows the error of one volume or snapshot and of the listing of
\* addresses, and may find a resource too young: any part of the list may be missing.
LookAt(e, r) ==
    /\ call[e] = "detect" /\ r \in unread[e]
    /\ unread' = [unread EXCEPT ![e] = @ \ {r}]
    /\ \/ r \in Zombies /\ manifest' = [manifest EXCEPT ![e] = @ \cup {r}]
       \/ UNCHANGED manifest
    /\ UNCHANGED <<call, spared, todo, records, log, removed, cloudVars>>

\* The list is returned once its findings are upserted, which takes a query and a
\* write each (module Findings): nothing is looked at again.
DetectReturns(e) ==
    /\ call[e] = "detect" /\ unread[e] = {}
    /\ call' = [call EXCEPT ![e] = "returned"]
    /\ UNCHANGED <<unread, manifest, spared, todo, records, log, removed, cloudVars>>

Visited(e, r, status) ==
    /\ todo' = [todo EXCEPT ![e] = @ \ {r}]
    /\ records' = [records EXCEPT ![e] = @ \cup {[resource |-> r, status |-> status]}]

\* Not armed: a record of the skip and no call to EC2.
SkipDryRun(e, r) ==
    /\ call[e] = "remediate" /\ r \in todo[e] /\ ~AutoRemediateEnabled(EventFlag)
    /\ Visited(e, r, "SKIPPED_DRY_RUN")
    /\ UNCHANGED <<call, unread, manifest, spared, log, removed, cloudVars>>

\* The delete call takes effect.  Its answer may be lost: the SDK then retries
\* it, is told that the resource is gone, and the record says FAILED.
DeleteEffective(e, r) ==
    /\ call[e] = "remediate" /\ r \in todo[e] /\ AutoRemediateEnabled(EventFlag)
    /\ Deletable(r)
    /\ \E status \in {"SUCCESS", "FAILED"} : Visited(e, r, status)
    /\ ec2' = [ec2 EXCEPT ![r] = "deleted"]
    /\ removed' = [removed EXCEPT ![e] = @ \cup {r}]
    /\ UNCHANGED <<call, unread, manifest, spared, log, tag>>

\* The delete call is refused (IAM, attached, gone) or fails in EC2.
DeleteRefused(e, r) ==
    /\ call[e] = "remediate" /\ r \in todo[e] /\ AutoRemediateEnabled(EventFlag)
    /\ Visited(e, r, "FAILED")
    /\ UNCHANGED <<call, unread, manifest, spared, log, removed, cloudVars>>

\* Mutant: the loop may stop early and what it has is logged as the whole.
MutantLogEarly(e) ==
    /\ call[e] = "remediate"
    /\ log' = [log EXCEPT ![e] = @ \cup records[e]]
    /\ call' = [call EXCEPT ![e] = "returned"]
    /\ UNCHANGED <<unread, manifest, spared, todo, records, removed, cloudVars>>

\* The only write to the remediation log, after the loop.
WriteLog(e) ==
    /\ call[e] = "remediate" /\ todo[e] = {}
    /\ log' = [log EXCEPT ![e] = @ \cup records[e]]
    /\ call' = [call EXCEPT ![e] = "returned"]
    /\ UNCHANGED <<unread, manifest, spared, todo, records, removed, cloudVars>>

\* The Lambda times out, is killed or raises.  During the batch write some
\* of the records may already be in the table.
CallRaises(e) ==
    /\ call[e] \in {"detect", "remediate"}
    /\ call' = [call EXCEPT ![e] = "raised"]
    /\ \E written \in SUBSET records[e] :
          /\ written # {} => call[e] = "remediate" /\ todo[e] = {}
          /\ log' = [log EXCEPT ![e] = @ \cup written]
    /\ unread' = [unread EXCEPT ![e] = {}]
    /\ UNCHANGED <<manifest, spared, todo, records, removed, cloudVars>>

LambdaStep(e) ==
    \/ DetectReturns(e)
    \/ \E r \in Resources :
          LookAt(e, r) \/ SkipDryRun(e, r) \/ DeleteEffective(e, r) \/ DeleteRefused(e, r)
    \/ WriteLog(e)
    \/ CallRaises(e)
=============================================================================
