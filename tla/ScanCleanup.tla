----------------------------- MODULE ScanCleanup -----------------------------
(***************************************************************************)
(* The resource_cleanup Lambda in "scan" mode, as the ResourceCleanup      *)
(* branch of the scan workflow calls it, beside the remediation workflow:  *)
(* one call detects, upserts the findings and, if both gates are armed,    *)
(* deletes what it found without asking anybody.  The two workflows share  *)
(* the account's resources and the remediation log, and nothing orders     *)
(* them.                                                                   *)
(***************************************************************************)
EXTENDS Remediation

CONSTANTS
    Scans,              \* executions of the scan state machine
    MaxScanAttempts     \* scanner_retry_max_attempts: retries of the branch

ASSUME MaxScanAttemptsAssumption == MaxScanAttempts \in Nat

VARIABLES
    autoRemediate,       \* autoRemediate[s]: auto_remediate in the input of s
    scan,       \* scan[s]: where the branch of s and its invocation are
    tries,      \* tries[s]: retries already spent
    batch,      \* batch[s]: all_findings of the current invocation
    unseen,     \* unseen[s]: findings it has yet to upsert
    told,       \* told[s]: resources s has upserted a finding of
    unvisited,  \* unvisited[s]: findings its _remediate loop has yet to visit
    notes,      \* notes[s]: audit records the loop holds in memory
    scanLog,    \* scanLog[s]: rows s has written to the remediation log
    deleted     \* deleted[s]: resources s has deleted

scanVars == <<autoRemediate, scan, tries, batch, unseen, told, unvisited, notes, scanLog, deleted>>
cleanupVars == <<vars, scanVars>>

Invoked == {"finding", "upserting", "remediating"}

CleanupTypeOK ==
    /\ TypeOK
    /\ autoRemediate \in [Scans -> BOOLEAN]
    /\ scan \in [Scans -> {"NotStarted", "raised", "End", "CleanupFailed"} \cup Invoked]
    /\ tries \in [Scans -> 0..MaxScanAttempts]
    /\ batch \in [Scans -> SUBSET Resources]
    /\ unseen \in [Scans -> SUBSET Resources]
    /\ told \in [Scans -> SUBSET Resources]
    /\ unvisited \in [Scans -> SUBSET Resources]
    /\ notes \in [Scans -> SUBSET Record]
    /\ scanLog \in [Scans -> SUBSET Record]
    /\ deleted \in [Scans -> SUBSET Resources]

\* EventBridge passes auto_remediate=false; whoever starts a scan by hand may
\* pass true.
CleanupInit ==
    /\ Init
    /\ autoRemediate \in [Scans -> BOOLEAN]
    /\ scan = [s \in Scans |-> "NotStarted"]
    /\ tries = [s \in Scans |-> 0]
    /\ batch = [s \in Scans |-> {}]
    /\ unseen = [s \in Scans |-> {}]
    /\ told = [s \in Scans |-> {}]
    /\ unvisited = [s \in Scans |-> {}]
    /\ notes = [s \in Scans |-> {}]
    /\ scanLog = [s \in Scans |-> {}]
    /\ deleted = [s \in Scans |-> {}]

-----------------------------------------------------------------------------
(* The ResourceCleanup branch. *)

\* A fresh process: nothing found, nothing to upsert or visit, no record.
InvokeScan(s) ==
    /\ scan' = [scan EXCEPT ![s] = "finding"]
    /\ batch' = [batch EXCEPT ![s] = {}]
    /\ unseen' = [unseen EXCEPT ![s] = {}]
    /\ unvisited' = [unvisited EXCEPT ![s] = {}]
    /\ notes' = [notes EXCEPT ![s] = {}]
    /\ UNCHANGED <<autoRemediate, told, scanLog, deleted>>

StartScan(s) ==
    /\ scan[s] = "NotStarted"
    /\ InvokeScan(s)
    /\ UNCHANGED <<tries, cloudVars>>

\* Mutant: the retries are counted but not limited.
MutantRetriesOn(s) ==
    /\ scan[s] = "raised"
    /\ tries' = [tries EXCEPT ![s] = @ + 1]
    /\ InvokeScan(s)
    /\ UNCHANGED cloudVars

\* Retry on States.ALL.
RetryScan(s) ==
    /\ scan[s] = "raised" /\ tries[s] < MaxScanAttempts
    /\ tries' = [tries EXCEPT ![s] = @ + 1]
    /\ InvokeScan(s)
    /\ UNCHANGED cloudVars

\* Catch: the branch ends in its Pass state.
CatchScan(s) ==
    /\ scan[s] = "raised" /\ tries[s] = MaxScanAttempts
    /\ scan' = [scan EXCEPT ![s] = "CleanupFailed"]
    /\ UNCHANGED <<autoRemediate, tries, batch, unseen, told, unvisited, notes, scanLog, deleted, cloudVars>>

-----------------------------------------------------------------------------
(* The handler, mode "scan". *)

\* The three finders, any of which may swallow an error, as in LookAt.
FindZombies(s) ==
    /\ scan[s] = "finding"
    /\ scan' = [scan EXCEPT ![s] = "upserting"]
    /\ \E found \in SUBSET Zombies :
          /\ batch' = [batch EXCEPT ![s] = found]
          /\ unseen' = [unseen EXCEPT ![s] = found]
    /\ UNCHANGED <<autoRemediate, tries, told, unvisited, notes, scanLog, deleted, cloudVars>>

\* One upsert of batch_upsert_findings.
UpsertFinding(s, r) ==
    /\ scan[s] = "upserting" /\ r \in unseen[s]
    /\ unseen' = [unseen EXCEPT ![s] = @ \ {r}]
    /\ told' = [told EXCEPT ![s] = @ \cup {r}]
    /\ UNCHANGED <<autoRemediate, scan, tries, batch, unvisited, notes, scanLog, deleted, cloudVars>>

\* Mutant: the loop does not wait for the upserts.
MutantDeletesFirst(s) ==
    /\ scan[s] = "upserting"
    /\ scan' = [scan EXCEPT ![s] = "remediating"]
    /\ unvisited' = [unvisited EXCEPT ![s] = batch[s]]
    /\ UNCHANGED <<autoRemediate, tries, batch, unseen, told, notes, scanLog, deleted, cloudVars>>

\* _detect is through: _remediate gets the same list.
StartRemediate(s) ==
    /\ scan[s] = "upserting" /\ unseen[s] = {}
    /\ scan' = [scan EXCEPT ![s] = "remediating"]
    /\ unvisited' = [unvisited EXCEPT ![s] = batch[s]]
    /\ UNCHANGED <<autoRemediate, tries, batch, unseen, told, notes, scanLog, deleted, cloudVars>>

Noted(s, r, status) ==
    /\ scan[s] = "remediating" /\ r \in unvisited[s]
    /\ unvisited' = [unvisited EXCEPT ![s] = @ \ {r}]
    /\ notes' = [notes EXCEPT ![s] = @ \cup {[resource |-> r, status |-> status]}]
    /\ UNCHANGED <<autoRemediate, scan, tries, batch, unseen, told, scanLog>>

\* Not armed: a record of the skip.
SkipInScan(s, r) ==
    /\ ~AutoRemediateEnabled(autoRemediate[s])
    /\ Noted(s, r, "SKIPPED_DRY_RUN")
    /\ UNCHANGED <<deleted, cloudVars>>

\* The delete call takes effect; FAILED if its answer is lost and the SDK's
\* retry finds nothing.
DeleteInScan(s, r) ==
    /\ AutoRemediateEnabled(autoRemediate[s]) /\ Deletable(r)
    /\ \E status \in {"SUCCESS", "FAILED"} : Noted(s, r, status)
    /\ ec2' = [ec2 EXCEPT ![r] = "deleted"]
    /\ deleted' = [deleted EXCEPT ![s] = @ \cup {r}]
    /\ UNCHANGED tag

\* The delete call is refused (IAM, attached, gone) or fails in EC2.
RefusedInScan(s, r) ==
    /\ AutoRemediateEnabled(autoRemediate[s])
    /\ Noted(s, r, "FAILED")
    /\ UNCHANGED <<deleted, cloudVars>>

\* Mutant: what is logged is what the loop has got to.
MutantLogsEarly(s) ==
    /\ scan[s] = "remediating"
    /\ scanLog' = [scanLog EXCEPT ![s] = @ \cup notes[s]]
    /\ scan' = [scan EXCEPT ![s] = "End"]
    /\ UNCHANGED <<autoRemediate, tries, batch, unseen, told, unvisited, notes, deleted, cloudVars>>

\* The only write to the remediation log, after the loop; the branch ends.
LogScan(s) ==
    /\ scan[s] = "remediating" /\ unvisited[s] = {}
    /\ scanLog' = [scanLog EXCEPT ![s] = @ \cup notes[s]]
    /\ scan' = [scan EXCEPT ![s] = "End"]
    /\ UNCHANGED <<autoRemediate, tries, batch, unseen, told, unvisited, notes, deleted, cloudVars>>

\* The Lambda times out, is killed or raises: findings upserted and resources
\* deleted so far remain so, and part of the batch write may have been done.
ScanRaises(s) ==
    /\ scan[s] \in Invoked
    /\ scan' = [scan EXCEPT ![s] = "raised"]
    /\ \E written \in SUBSET notes[s] :
          /\ written # {} => scan[s] = "remediating" /\ unvisited[s] = {}
          /\ scanLog' = [scanLog EXCEPT ![s] = @ \cup written]
    /\ UNCHANGED <<autoRemediate, tries, batch, unseen, told, unvisited, notes, deleted, cloudVars>>

ScanStep(s) ==
    \/ StartScan(s) \/ RetryScan(s) \/ CatchScan(s)
    \/ FindZombies(s) \/ StartRemediate(s) \/ LogScan(s) \/ ScanRaises(s)
    \/ \E r \in Resources :
          UpsertFinding(s, r) \/ SkipInScan(s, r) \/ DeleteInScan(s, r) \/ RefusedInScan(s, r)

-----------------------------------------------------------------------------
(* Both workflows. *)

Scanning(s) == ScanStep(s) /\ UNCHANGED <<state, retries, approvalVars, runVars>>

CleanupNext ==
    \/ Next /\ UNCHANGED scanVars
    \/ \E s \in Scans : Scanning(s)

CleanupSpec == CleanupInit /\ [][CleanupNext]_cleanupVars

-----------------------------------------------------------------------------
(* Safety. *)

\* A scan deletes only with both gates armed, only what it has first written to
\* the findings table, and never what its owner has meanwhile tagged "ignore".
ScansDeleteInTheOpen ==
    [][\A s \in Scans : \A r \in deleted'[s] \ deleted[s] :
          EnvArmed /\ autoRemediate[s] /\ r \in told[s] /\ tag[r] # "ignore"]_cleanupVars

\* A scan that ended well has logged an attempt on each of its findings, in the
\* mode it was armed for; its SUCCESS rows are about what it deleted, over all
\* tries, and a scheduled scan has logged nothing but skips.
ScanAuditIsHonest ==
    \A s \in Scans :
        /\ scan[s] = "End" => batch[s] \subseteq {rec.resource : rec \in scanLog[s]}
        /\ \A rec \in scanLog[s] :
              /\ rec.resource \in told[s]
              /\ rec.status = "SUCCESS" => rec.resource \in deleted[s]
              /\ rec.status = "SKIPPED_DRY_RUN" <=> ~(EnvArmed /\ autoRemediate[s])

-----------------------------------------------------------------------------
(* The inductive invariant. *)

ScanCleanupInv ==
    \A s \in Scans :
        /\ batch[s] \subseteq told[s] \cup unseen[s]
        /\ scan[s] = "finding" => batch[s] = {} /\ notes[s] = {}
        /\ scan[s] = "upserting" => notes[s] = {}
        /\ scan[s] = "remediating" =>
              /\ batch[s] \subseteq told[s]
              /\ unvisited[s] \subseteq batch[s]
              /\ \A r \in batch[s] \ unvisited[s] : \E rec \in notes[s] : rec.resource = r
        /\ scan[s] = "End" => \A r \in batch[s] : \E rec \in scanLog[s] : rec.resource = r
        /\ \A rec \in notes[s] \cup scanLog[s] :
              /\ rec.resource \in told[s]
              /\ rec.status = "SUCCESS" => rec.resource \in deleted[s]
              /\ rec.status = "SKIPPED_DRY_RUN" <=> ~(EnvArmed /\ autoRemediate[s])

CleanupInv == CleanupTypeOK /\ ScanCleanupInv
-----------------------------------------------------------------------------
(* Why scans end. *)

ScanStageLeft(s) ==
    CASE scan[s] = "NotStarted" -> 5
      [] scan[s] = "finding" -> 4
      [] scan[s] = "upserting" -> 3
      [] scan[s] = "remediating" -> 2
      [] scan[s] = "raised" -> 1
      [] OTHER -> 0

ScanLeft(s) == <<MaxScanAttempts - tries[s],
                 ScanStageLeft(s),
                 Cardinality(unseen[s]) + Cardinality(unvisited[s])>>

\* A scan that retries, deletes and logs beside any executions gets closer to its
\* end with every step, and no step of an execution or another scan sets it back.
ScansGoForward ==
    [][\A s \in Scans :
          /\ Scanning(s) => Less(ScanLeft(s)', ScanLeft(s))
          /\ AtMost(ScanLeft(s)', ScanLeft(s))]_cleanupVars
=============================================================================
