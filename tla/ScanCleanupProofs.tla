-------------------------- MODULE ScanCleanupProofs --------------------------
(***************************************************************************)
(* Proofs about the two workflows together.  Seen from the remediation     *)
(* workflow a scan does nothing but what an owner might do, so that all    *)
(* that RemediationProofs proves holds beside any number of scans.  What   *)
(* scans delete and log follows from an inductive invariant of their own.  *)
(***************************************************************************)
EXTENDS ScanCleanup, RemediationProofs

-----------------------------------------------------------------------------
(* The composition is a remediation workflow with owners. *)

\* A scan's deletion is an owner's, and no other step of it touches the variables
\* of the remediation workflow.
LEMMA ScanIsOwner ==
  ASSUME NEW s \in Scans, Scanning(s) PROVE [Next]_vars
<1>1. ASSUME NEW r \in Resources, DeleteInScan(s, r) PROVE [Next]_vars
  <2>1. OwnerActs(r)
    BY <1>1 DEF DeleteInScan, Deletable, OwnerActs, OwnerDeletes
  <2>2. UNCHANGED <<state, retries, approvalVars, lambdaVars, spared, tag>>
    BY <1>1 DEF Scanning, DeleteInScan, runVars
  <2> QED BY <2>1, <2>2 DEF Next, Owner
<1>2. ASSUME UNCHANGED cloudVars PROVE [Next]_vars
  BY <1>2 DEF Scanning, vars
<1> QED
  BY <1>1, <1>2 DEF Scanning, ScanStep, StartScan, RetryScan, CatchScan, FindZombies,
     StartRemediate, LogScan, ScanRaises, UpsertFinding, SkipInScan, RefusedInScan

\* Beside any scans the remediation workflow behaves as it does beside owners alone:
\* every theorem about it carries over.
THEOREM ScansActAsOwners == CleanupSpec => SafetySpec
<1>1. CleanupInit => Init
  BY DEF CleanupInit
<1>2. [CleanupNext]_cleanupVars => [Next]_vars
  BY ScanIsOwner DEF CleanupNext, cleanupVars
<1> QED BY <1>1, <1>2, PTL DEF CleanupSpec, SafetySpec

\* The gate is kept although scans delete beside it: what an execution removes is
\* still what its own operator approved.
THEOREM GateHoldsBesideScans == CleanupSpec => [](OnlyApprovedIsRemoved /\ AuditIsHonest)
BY ScansActAsOwners, Removal, HonestAudit, PTL

\* ImplementsGateSafety, KeepForever: beside scans, too, an execution is a human gate,
\* and what is tagged "ignore" from before a detection is not on its list.
THEOREM GateIsImplementedBesideScans == CleanupSpec => ImplementsGateSafety /\ []KeepForever
BY ScansActAsOwners, Refinement, IgnoreTagIsObeyed, PTL

\* StepsGoForward, NothingIsStuck: no number of scans keeps an execution from its end.
THEOREM ScansDelayNoExecution == CleanupSpec => StepsGoForward /\ []NothingIsStuck
BY ScansActAsOwners, EveryStepIsProgress, NothingGetsStuck, PTL

-----------------------------------------------------------------------------
(* Types. *)

LEMMA InvokeScanType ==
  ASSUME CleanupTypeOK, NEW s \in Scans, InvokeScan(s)
  PROVE  /\ scan' \in [Scans -> {"NotStarted", "raised", "End", "CleanupFailed"} \cup Invoked]
         /\ batch' \in [Scans -> SUBSET Resources]
         /\ unseen' \in [Scans -> SUBSET Resources]
         /\ unvisited' \in [Scans -> SUBSET Resources]
         /\ notes' \in [Scans -> SUBSET Record]
         /\ UNCHANGED <<autoRemediate, told, scanLog, deleted>>
BY DEF CleanupTypeOK, InvokeScan, Invoked

LEMMA NotedType ==
  ASSUME CleanupTypeOK, NEW s \in Scans, NEW r \in Resources,
         NEW status \in {"SUCCESS", "FAILED", "SKIPPED_DRY_RUN"}, Noted(s, r, status)
  PROVE  /\ unvisited' \in [Scans -> SUBSET Resources]
         /\ notes' \in [Scans -> SUBSET Record]
         /\ UNCHANGED <<autoRemediate, scan, tries, batch, unseen, told, scanLog>>
BY DEF CleanupTypeOK, Noted, Record

LEMMA CleanupTypeStep ==
  ASSUME CleanupTypeOK, TypeOK', [CleanupNext]_cleanupVars PROVE CleanupTypeOK'
<1>1. ASSUME UNCHANGED scanVars PROVE CleanupTypeOK'
  BY <1>1 DEF CleanupTypeOK, scanVars
<1>2. ASSUME NEW s \in Scans, ScanStep(s) PROVE CleanupTypeOK'
  <2>1. CASE StartScan(s)
    BY <2>1, InvokeScanType DEF StartScan, CleanupTypeOK
  <2>2. CASE RetryScan(s)
    <3>1. tries[s] + 1 \in 0..MaxScanAttempts
      BY <2>2, MaxScanAttemptsAssumption DEF RetryScan, CleanupTypeOK
    <3> QED BY <2>2, <3>1, InvokeScanType DEF RetryScan, CleanupTypeOK
  <2>3. CASE CatchScan(s)
    BY <2>3 DEF CatchScan, CleanupTypeOK
  <2>4. CASE FindZombies(s)
    BY <2>4 DEF FindZombies, CleanupTypeOK, Zombies, Invoked
  <2>5. CASE StartRemediate(s)
    BY <2>5 DEF StartRemediate, CleanupTypeOK, Invoked
  <2>6. CASE LogScan(s)
    BY <2>6 DEF LogScan, CleanupTypeOK
  <2>7. CASE ScanRaises(s)
    BY <2>7 DEF ScanRaises, CleanupTypeOK
  <2>8. ASSUME NEW r \in Resources, UpsertFinding(s, r) PROVE CleanupTypeOK'
    BY <2>8 DEF UpsertFinding, CleanupTypeOK
  <2>9. ASSUME NEW r \in Resources, SkipInScan(s, r) \/ RefusedInScan(s, r)
        PROVE  CleanupTypeOK'
    BY <2>9, NotedType DEF SkipInScan, RefusedInScan, CleanupTypeOK
  <2>10. ASSUME NEW r \in Resources, DeleteInScan(s, r) PROVE CleanupTypeOK'
    <3>1. PICK status \in {"SUCCESS", "FAILED"} : Noted(s, r, status)
      BY <2>10 DEF DeleteInScan
    <3> QED BY <2>10, <3>1, NotedType DEF DeleteInScan, CleanupTypeOK
  <2> QED
    BY <1>2, <2>1, <2>2, <2>3, <2>4, <2>5, <2>6, <2>7, <2>8, <2>9, <2>10 DEF ScanStep
<1> QED BY <1>1, <1>2 DEF CleanupNext, Scanning, cleanupVars

\* The types of both workflows; a scan is not tried more often than configured.
THEOREM CleanupTypeCorrect == CleanupSpec => []CleanupTypeOK
<1>1. ASSUME CleanupInit PROVE TypeOK
  BY <1>1, InitTypeOK DEF CleanupInit
<1>2. CleanupInit => CleanupTypeOK
  BY <1>1, MaxScanAttemptsAssumption DEF CleanupInit, CleanupTypeOK
<1>3. CleanupSpec => []TypeOK
  BY ScansActAsOwners, TypeCorrect, PTL
<1>4. CleanupTypeOK /\ TypeOK' /\ [CleanupNext]_cleanupVars => CleanupTypeOK'
  BY CleanupTypeStep
<1> QED BY <1>2, <1>3, <1>4, PTL DEF CleanupSpec

-----------------------------------------------------------------------------
(* The inductive invariant of scans. *)

\* What ScanCleanupInv says of one scan.
NotesAreHonest(s, recs) ==
  \A rec \in recs :
     /\ rec.resource \in told[s]
     /\ rec.status = "SUCCESS" => rec.resource \in deleted[s]
     /\ rec.status = "SKIPPED_DRY_RUN" <=> ~(EnvArmed /\ autoRemediate[s])

Progress(s) ==
  /\ batch[s] \subseteq told[s] \cup unseen[s]
  /\ scan[s] = "finding" => batch[s] = {} /\ notes[s] = {}
  /\ scan[s] = "upserting" => notes[s] = {}
  /\ scan[s] = "remediating" =>
        /\ batch[s] \subseteq told[s]
        /\ unvisited[s] \subseteq batch[s]
        /\ \A r \in batch[s] \ unvisited[s] : \E rec \in notes[s] : rec.resource = r
  /\ scan[s] = "End" => \A r \in batch[s] : \E rec \in scanLog[s] : rec.resource = r

Honest(s) == NotesAreHonest(s, notes[s] \cup scanLog[s])

LEMMA ByScan == ScanCleanupInv <=> \A s \in Scans : Progress(s) /\ Honest(s)
BY DEF ScanCleanupInv, Progress, Honest, NotesAreHonest

\* A step of one scan leaves what the others keep in mind as it was.
LEMMA OthersUntouched ==
  ASSUME CleanupTypeOK, NEW s \in Scans, ScanStep(s), NEW t \in Scans, t # s
  PROVE  /\ autoRemediate'[t] = autoRemediate[t] /\ scan'[t] = scan[t]
         /\ batch'[t] = batch[t] /\ unseen'[t] = unseen[t] /\ told'[t] = told[t]
         /\ unvisited'[t] = unvisited[t] /\ notes'[t] = notes[t]
         /\ scanLog'[t] = scanLog[t] /\ deleted'[t] = deleted[t]
<1> USE DEF CleanupTypeOK
<1>1. CASE StartScan(s) \/ RetryScan(s)
  BY <1>1 DEF StartScan, RetryScan, InvokeScan
<1>2. CASE CatchScan(s) \/ FindZombies(s) \/ StartRemediate(s)
  BY <1>2 DEF CatchScan, FindZombies, StartRemediate
<1>3. CASE LogScan(s) \/ ScanRaises(s)
  BY <1>3 DEF LogScan, ScanRaises
<1>4. ASSUME NEW r \in Resources, UpsertFinding(s, r) \/ SkipInScan(s, r) \/ RefusedInScan(s, r)
      PROVE  /\ autoRemediate'[t] = autoRemediate[t] /\ scan'[t] = scan[t]
             /\ batch'[t] = batch[t] /\ unseen'[t] = unseen[t] /\ told'[t] = told[t]
             /\ unvisited'[t] = unvisited[t] /\ notes'[t] = notes[t]
             /\ scanLog'[t] = scanLog[t] /\ deleted'[t] = deleted[t]
  BY <1>4 DEF UpsertFinding, SkipInScan, RefusedInScan, Noted
<1>5. ASSUME NEW r \in Resources, DeleteInScan(s, r)
      PROVE  /\ autoRemediate'[t] = autoRemediate[t] /\ scan'[t] = scan[t]
             /\ batch'[t] = batch[t] /\ unseen'[t] = unseen[t] /\ told'[t] = told[t]
             /\ unvisited'[t] = unvisited[t] /\ notes'[t] = notes[t]
             /\ scanLog'[t] = scanLog[t] /\ deleted'[t] = deleted[t]
  BY <1>5 DEF DeleteInScan, Noted
<1> QED BY <1>1, <1>2, <1>3, <1>4, <1>5 DEF ScanStep

\* A record of a finding that has just been visited.
LEMMA NotedKeeps ==
  ASSUME CleanupTypeOK, NEW s \in Scans, Progress(s), Honest(s), NEW r \in Resources,
         NEW status \in {"SUCCESS", "FAILED", "SKIPPED_DRY_RUN"}, Noted(s, r, status),
         status = "SKIPPED_DRY_RUN" <=> ~(EnvArmed /\ autoRemediate[s]),
         deleted[s] \subseteq deleted'[s], status = "SUCCESS" => r \in deleted'[s]
  PROVE  Progress(s)' /\ Honest(s)'
<1> DEFINE rec == [resource |-> r, status |-> status]
<1>1. /\ scan[s] = "remediating" /\ r \in unvisited[s]
      /\ unvisited'[s] = unvisited[s] \ {r} /\ notes'[s] = notes[s] \cup {rec}
      /\ UNCHANGED <<autoRemediate, scan, batch, unseen, told, scanLog>>
  BY DEF Noted, CleanupTypeOK
<1>2. rec.resource = r /\ rec.status = status
  OBVIOUS
<1> HIDE DEF rec
<1>3. \A q \in batch[s] \ unvisited'[s] : \E n \in notes'[s] : n.resource = q
  BY <1>1, <1>2 DEF Progress
<1>4. Progress(s)'
  BY <1>1, <1>3 DEF Progress
<1>5. r \in told[s]
  BY <1>1 DEF Progress
<1> QED BY <1>1, <1>2, <1>4, <1>5 DEF Honest, NotesAreHonest

LEMMA StepOfScan ==
  ASSUME CleanupTypeOK, NEW s \in Scans, Progress(s), Honest(s), ScanStep(s)
  PROVE  Progress(s)' /\ Honest(s)'
<1> USE DEF CleanupTypeOK
<1>1. CASE StartScan(s) \/ RetryScan(s)
  <2>1. /\ scan'[s] = "finding" /\ batch'[s] = {} /\ notes'[s] = {}
        /\ UNCHANGED <<autoRemediate, told, scanLog, deleted, ec2>>
    BY <1>1 DEF StartScan, RetryScan, InvokeScan, cloudVars
  <2> QED BY <2>1 DEF Progress, Honest, NotesAreHonest
<1>2. CASE CatchScan(s)
  BY <1>2 DEF CatchScan, Progress, Honest, NotesAreHonest, cloudVars
<1>3. CASE FindZombies(s)
  <2>1. /\ scan[s] = "finding" /\ scan'[s] = "upserting" /\ batch'[s] = unseen'[s]
        /\ UNCHANGED <<autoRemediate, told, notes, scanLog, deleted, ec2>>
    BY <1>3 DEF FindZombies, cloudVars
  <2> QED BY <2>1 DEF Progress, Honest, NotesAreHonest
<1>4. CASE StartRemediate(s)
  BY <1>4 DEF StartRemediate, Progress, Honest, NotesAreHonest, cloudVars
<1>5. CASE LogScan(s)
  <2>1. /\ scan[s] = "remediating" /\ unvisited[s] = {} /\ scan'[s] = "End"
        /\ scanLog'[s] = scanLog[s] \cup notes[s]
        /\ UNCHANGED <<autoRemediate, batch, unseen, told, unvisited, notes, deleted, ec2>>
    BY <1>5 DEF LogScan, cloudVars
  <2>2. Progress(s)'
    BY <2>1 DEF Progress
  <2> QED BY <2>1, <2>2 DEF Honest, NotesAreHonest
<1>6. CASE ScanRaises(s)
  <2>1. PICK written \in SUBSET notes[s] : scanLog'[s] = scanLog[s] \cup written
    BY <1>6 DEF ScanRaises
  <2>2. /\ scan'[s] = "raised"
        /\ UNCHANGED <<autoRemediate, batch, unseen, told, unvisited, notes, deleted, ec2>>
    BY <1>6 DEF ScanRaises, cloudVars
  <2>3. Progress(s)'
    BY <2>2 DEF Progress
  <2> QED BY <2>1, <2>2, <2>3 DEF Honest, NotesAreHonest
<1>7. ASSUME NEW r \in Resources, UpsertFinding(s, r)
      PROVE  Progress(s)' /\ Honest(s)'
  BY <1>7 DEF UpsertFinding, Progress, Honest, NotesAreHonest, cloudVars
<1>8. ASSUME NEW r \in Resources, SkipInScan(s, r)
      PROVE  Progress(s)' /\ Honest(s)'
  BY <1>8, NotedKeeps DEF SkipInScan, AutoRemediateEnabled
<1>9. ASSUME NEW r \in Resources, RefusedInScan(s, r)
      PROVE  Progress(s)' /\ Honest(s)'
  BY <1>9, NotedKeeps DEF RefusedInScan, AutoRemediateEnabled
<1>10. ASSUME NEW r \in Resources, DeleteInScan(s, r)
       PROVE  Progress(s)' /\ Honest(s)'
  <2>1. PICK status \in {"SUCCESS", "FAILED"} : Noted(s, r, status)
    BY <1>10 DEF DeleteInScan
  <2>2. deleted'[s] = deleted[s] \cup {r}
    BY <1>10 DEF DeleteInScan
  <2>3. EnvArmed /\ autoRemediate[s]
    BY <1>10 DEF DeleteInScan, AutoRemediateEnabled
  <2> QED BY <2>1, <2>2, <2>3, NotedKeeps
<1> QED
  BY <1>1, <1>2, <1>3, <1>4, <1>5, <1>6, <1>7, <1>8, <1>9, <1>10 DEF ScanStep

LEMMA ScanCleanupInvStep ==
  ASSUME CleanupTypeOK, ScanCleanupInv, [CleanupNext]_cleanupVars PROVE ScanCleanupInv'
<1>1. \A s \in Scans : Progress(s) /\ Honest(s)
  BY ByScan
<1>2. CASE UNCHANGED scanVars
  BY <1>1, <1>2 DEF ScanCleanupInv, Progress, Honest, NotesAreHonest, scanVars
<1>3. ASSUME NEW s \in Scans, Scanning(s) PROVE ScanCleanupInv'
  <2>1. ScanStep(s)
    BY <1>3 DEF Scanning
  <2>2. Progress(s)' /\ Honest(s)'
    BY <1>1, <2>1, StepOfScan
  <2>3. ASSUME NEW t \in Scans, t # s PROVE Progress(t)' /\ Honest(t)'
    BY <1>1, <2>1, <2>3, OthersUntouched DEF Progress, Honest, NotesAreHonest
  <2> QED BY <2>2, <2>3 DEF ScanCleanupInv, Progress, Honest, NotesAreHonest
<1> QED BY <1>2, <1>3 DEF CleanupNext, cleanupVars

\* However scans, executions and owners interleave, the invariant holds: what a scan
\* notes it has upserted and visited, and its log is made of its notes.
THEOREM CleanupInvariance == CleanupSpec => []CleanupInv
<1>1. CleanupInit => ScanCleanupInv
  BY DEF CleanupInit, ScanCleanupInv
<1>2. CleanupTypeOK /\ ScanCleanupInv /\ [CleanupNext]_cleanupVars => ScanCleanupInv'
  BY ScanCleanupInvStep
<1>3. CleanupSpec => []ScanCleanupInv
  BY <1>1, <1>2, CleanupTypeCorrect, PTL DEF CleanupSpec
<1> QED BY <1>3, CleanupTypeCorrect, PTL DEF CleanupInv

-----------------------------------------------------------------------------
(* What users of the system rely on. *)

\* ScanAuditIsHonest: the log of a scan covers its findings, invents no success,
\* and tells skips from attempts.
THEOREM ScansLogHonestly == CleanupSpec => []ScanAuditIsHonest
<1>1. CleanupInv => ScanAuditIsHonest
  BY DEF CleanupInv, ScanCleanupInv, ScanAuditIsHonest
<1> QED BY <1>1, CleanupInvariance, PTL

\* ScansDeleteInTheOpen: both gates, a finding first, and the owner's tag as it is at
\* the moment of the deletion.
THEOREM ScansAreOpen == CleanupSpec => ScansDeleteInTheOpen
<1> DEFINE Open == \A s \in Scans : \A r \in deleted'[s] \ deleted[s] :
                      EnvArmed /\ autoRemediate[s] /\ r \in told[s] /\ tag[r] # "ignore"
<1>1. ASSUME CleanupInv, [CleanupNext]_cleanupVars, NEW s \in Scans,
             NEW r \in deleted'[s] \ deleted[s]
      PROVE  EnvArmed /\ autoRemediate[s] /\ r \in told[s] /\ tag[r] # "ignore"
  <2>1. PICK t \in Scans, q \in Resources : DeleteInScan(t, q)
    BY <1>1 DEF CleanupNext, cleanupVars, scanVars, Scanning, ScanStep, StartScan, RetryScan,
       InvokeScan, CatchScan, FindZombies, StartRemediate, LogScan, ScanRaises, UpsertFinding,
       SkipInScan, RefusedInScan
  <2>2. t = s /\ q = r
    BY <1>1, <2>1 DEF DeleteInScan, CleanupInv, CleanupTypeOK
  <2>3. q \in unvisited[t] /\ scan[t] = "remediating"
    BY <2>1 DEF DeleteInScan, Noted
  <2>4. q \in told[t]
    BY <1>1, <2>3 DEF CleanupInv, ScanCleanupInv
  <2> QED BY <2>1, <2>2, <2>4 DEF DeleteInScan, AutoRemediateEnabled, Deletable
<1>2. CleanupInv /\ [CleanupNext]_cleanupVars => [Open]_cleanupVars
  BY <1>1
<1> QED BY <1>2, CleanupInvariance, PTL DEF CleanupSpec, ScansDeleteInTheOpen
-----------------------------------------------------------------------------
(* Scans come to their end. *)

LEMMA ScanLeftIsLocal ==
  ASSUME NEW s \in Scans, scan'[s] = scan[s], tries'[s] = tries[s],
         unseen'[s] = unseen[s], unvisited'[s] = unvisited[s]
  PROVE  ScanLeft(s)' = ScanLeft(s)
BY DEF ScanLeft, ScanStageLeft

LEMMA ScanStageGoesDown ==
  ASSUME NEW s \in Scans, tries'[s] = tries[s], ScanStageLeft(s)' < ScanStageLeft(s)
  PROVE  Less(ScanLeft(s)', ScanLeft(s))
BY DEF ScanLeft, Less

\* One finding less to upsert, or one less to visit.
LEMMA FindingDone ==
  ASSUME CleanupTypeOK, NEW s \in Scans, NEW r, scan'[s] = scan[s], tries'[s] = tries[s],
         \/ r \in unseen[s] /\ unseen'[s] = unseen[s] \ {r} /\ unvisited'[s] = unvisited[s]
         \/ r \in unvisited[s] /\ unvisited'[s] = unvisited[s] \ {r} /\ unseen'[s] = unseen[s]
  PROVE  Less(ScanLeft(s)', ScanLeft(s))
<1>1. /\ IsFiniteSet(unseen[s]) /\ Cardinality(unseen[s]) \in Nat
      /\ IsFiniteSet(unvisited[s]) /\ Cardinality(unvisited[s]) \in Nat
  BY ResourcesAssumption, FS_Subset, FS_CardinalityType DEF CleanupTypeOK
<1>2. Cardinality(unseen'[s]) + Cardinality(unvisited'[s])
        < Cardinality(unseen[s]) + Cardinality(unvisited[s])
  <2>1. CASE r \in unseen[s] /\ unseen'[s] = unseen[s] \ {r} /\ unvisited'[s] = unvisited[s]
    <3>1. Cardinality(unseen'[s]) = Cardinality(unseen[s]) - 1
      BY <1>1, <2>1, FS_RemoveElement
    <3> QED BY <1>1, <2>1, <3>1
  <2>2. CASE r \in unvisited[s] /\ unvisited'[s] = unvisited[s] \ {r} /\ unseen'[s] = unseen[s]
    <3>1. Cardinality(unvisited'[s]) = Cardinality(unvisited[s]) - 1
      BY <1>1, <2>2, FS_RemoveElement
    <3> QED BY <1>1, <2>2, <3>1
  <2> QED BY <2>1, <2>2
<1>3. ScanStageLeft(s)' = ScanStageLeft(s)
  BY DEF ScanStageLeft
<1> QED BY <1>2, <1>3 DEF ScanLeft, Less

LEMMA ScanStepGoesDown ==
  ASSUME CleanupTypeOK, NEW s \in Scans, ScanStep(s)
  PROVE  Less(ScanLeft(s)', ScanLeft(s))
<1>1. CASE StartScan(s) \/ CatchScan(s) \/ FindZombies(s) \/ StartRemediate(s) \/ LogScan(s)
           \/ ScanRaises(s)
  <2>1. tries' = tries /\ ScanStageLeft(s)' < ScanStageLeft(s)
    BY <1>1 DEF CleanupTypeOK, StartScan, InvokeScan, CatchScan, FindZombies, StartRemediate,
                LogScan, ScanRaises, Invoked, ScanStageLeft
  <2> QED BY <2>1, ScanStageGoesDown
<1>2. CASE RetryScan(s)
  <2>1. tries[s] \in Nat /\ tries'[s] = tries[s] + 1
    BY <1>2, MaxScanAttemptsAssumption DEF CleanupTypeOK, RetryScan
  <2>2. MaxScanAttempts - tries'[s] < MaxScanAttempts - tries[s]
    BY <2>1, MaxScanAttemptsAssumption
  <2> QED BY <2>2 DEF ScanLeft, Less
<1>3. ASSUME NEW r \in Resources, UpsertFinding(s, r) PROVE Less(ScanLeft(s)', ScanLeft(s))
  BY <1>3, FindingDone DEF UpsertFinding, CleanupTypeOK
<1>4. ASSUME NEW r \in Resources, SkipInScan(s, r) \/ DeleteInScan(s, r) \/ RefusedInScan(s, r)
      PROVE  Less(ScanLeft(s)', ScanLeft(s))
  <2>1. PICK status : Noted(s, r, status)
    BY <1>4 DEF SkipInScan, DeleteInScan, RefusedInScan
  <2>2. /\ r \in unvisited[s] /\ unvisited'[s] = unvisited[s] \ {r}
        /\ UNCHANGED <<scan, tries, unseen>>
    BY <2>1 DEF Noted, CleanupTypeOK, SkipInScan, DeleteInScan, RefusedInScan
  <2> QED BY <2>2, FindingDone
<1> QED BY <1>1, <1>2, <1>3, <1>4 DEF ScanStep

\* A scan writes nothing of another one.
LEMMA ScanLeavesOthers ==
  ASSUME CleanupTypeOK, NEW t \in Scans, ScanStep(t), NEW s \in Scans, s # t
  PROVE  ScanLeft(s)' = ScanLeft(s)
<1>1. CASE StartScan(t) \/ RetryScan(t)
  BY <1>1, ScanLeftIsLocal DEF StartScan, RetryScan, InvokeScan, CleanupTypeOK
<1>2. CASE CatchScan(t) \/ FindZombies(t) \/ StartRemediate(t) \/ LogScan(t) \/ ScanRaises(t)
  BY <1>2, ScanLeftIsLocal DEF CatchScan, FindZombies, StartRemediate, LogScan, ScanRaises,
     CleanupTypeOK
<1>3. ASSUME NEW r \in Resources, UpsertFinding(t, r) PROVE ScanLeft(s)' = ScanLeft(s)
  BY <1>3, ScanLeftIsLocal DEF UpsertFinding, CleanupTypeOK
<1>4. ASSUME NEW r \in Resources, SkipInScan(t, r) \/ DeleteInScan(t, r) \/ RefusedInScan(t, r)
      PROVE  ScanLeft(s)' = ScanLeft(s)
  <2>1. PICK status : Noted(t, r, status)
    BY <1>4 DEF SkipInScan, DeleteInScan, RefusedInScan
  <2> QED BY <2>1, ScanLeftIsLocal DEF Noted, CleanupTypeOK
<1> QED BY <1>1, <1>2, <1>3, <1>4 DEF ScanStep

\* ScansGoForward: each step of a scan lowers its measure, whatever it shares the
\* account with, so that it can take only so many.
THEOREM EveryScanStepIsProgress == CleanupSpec => ScansGoForward
<1> DEFINE Forward == \A s \in Scans :
              /\ Scanning(s) => Less(ScanLeft(s)', ScanLeft(s))
              /\ AtMost(ScanLeft(s)', ScanLeft(s))
<1>1. ASSUME CleanupTypeOK, [CleanupNext]_cleanupVars, NEW s \in Scans, ~Scanning(s)
      PROVE  ScanLeft(s)' = ScanLeft(s)
  <2>1. ASSUME NEW t \in Scans, Scanning(t) PROVE ScanLeft(s)' = ScanLeft(s)
    BY <1>1, <2>1, ScanLeavesOthers DEF Scanning
  <2>2. CASE UNCHANGED scanVars
    BY <2>2, ScanLeftIsLocal DEF scanVars
  <2> QED BY <1>1, <2>1, <2>2 DEF CleanupNext, cleanupVars
<1>2. CleanupTypeOK /\ [CleanupNext]_cleanupVars => [Forward]_cleanupVars
  BY <1>1, ScanStepGoesDown DEF Scanning, AtMost
<1> QED BY <1>2, CleanupTypeCorrect, PTL DEF CleanupSpec, ScansGoForward
=============================================================================
