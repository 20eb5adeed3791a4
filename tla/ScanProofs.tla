------------------------------ MODULE ScanProofs ------------------------------
(***************************************************************************)
(* The scan workflow for any number of executions, scanners and retries:   *)
(* to the findings table its tasks are writers like any other, and a       *)
(* failing scanner does not end the work of another.                       *)
(***************************************************************************)
EXTENDS ScanWorkflow, FindingsProofs, FiniteSetTheorems

USE DEF vars, tableVars, writerVars, scanVars, Branches, BranchesOf
USE BranchesAssumption, MaxAttemptsAssumption

LEMMA ScanStepIsFindingsStep == [ScanNext]_<<vars, scanVars>> => [Next]_vars
  <1>1. ASSUME NEW s \in Scans, StartScan(s) PROVE Next
    <2>1. PICK ws : ws = BranchesOf(s)
      OBVIOUS
    <2>2. ws \in SUBSET Writers
      BY <2>1
    <2>3. Invoke(ws)
      BY <1>1, <2>1 DEF StartScan
    <2> QED
      BY <2>2, <2>3 DEF Next
  <1>2. ASSUME NEW w \in Writers, StartDetect(w) \/ RetryTask(w) PROVE Next
    <2>1. Invoke({w})
      BY <1>2 DEF StartDetect, RetryTask
    <2> QED
      BY <2>1 DEF Next
  <1>3. ASSUME NEW s \in Scans, ScanEnds(s) PROVE UNCHANGED vars
    BY <1>3 DEF ScanEnds
  <1>4. ASSUME NEW w \in Branches, BranchReturns(w) \/ BranchCaught(w) PROVE UNCHANGED vars
    BY <1>4 DEF BranchReturns, BranchCaught
  <1>5. ASSUME NEW w \in Writers, ScannerStep(w) PROVE Next
    BY <1>5 DEF ScannerStep, Next
  <1>6. CASE Surroundings
    BY <1>6 DEF Surroundings, Next
  <1> QED
    BY <1>1, <1>2, <1>3, <1>4, <1>5, <1>6 DEF ScanNext, StateMachineStep

\* To the table the workflow is a set of writers like any other.
LEMMA ScanIsSetOfWriters == ScanSafety => Spec
  <1>1. ScanInit => Init
    BY DEF ScanInit
  <1> QED
    BY <1>1, ScanStepIsFindingsStep, PTL DEF ScanSafety, Spec

\* ReportIsComplete in the workflow: a finding that a task has upserted is in
\* every report of the window, however often tasks fail and are retried and
\* whatever detect calls do meanwhile.
THEOREM ScannedIsReported == ScanSafety => []ReportIsComplete
  BY ScanIsSetOfWriters, ReportCompleteness, PTL

-----------------------------------------------------------------------------
(* Isolation of failures. *)

\* A branch's result says how its last invocation ended, and an execution is
\* over only when all its branches have one.
ResultInv ==
    /\ execution \in [Scans -> {"NotStarted", "ParallelScanners", "Succeeded"}]
    /\ attempts \in [Writers -> 0..MaxAttempts]
    /\ result \in [Branches -> {"none", "ok", "FAILED"}]
    /\ \A w \in Writers : stage[w] = "returned" => todo[w] = {}
    /\ \A s \in Scans : \A b \in BranchesOf(s) :
          /\ execution[s] = "NotStarted" => stage[b] = "idle" /\ result[b] = "none"
          /\ execution[s] = "Succeeded" => result[b] # "none"
    /\ \A b \in Branches :
          /\ result[b] = "ok" => stage[b] = "returned"
          /\ result[b] = "FAILED" => stage[b] = "raised" /\ attempts[b] = MaxAttempts

LEMMA ResultInit == ScanInit => ResultInv
  BY DEF ScanInit, Init, ResultInv

\* What a scanner does itself: it is running, and it ends or goes on.
LEMMA ScannerResult ==
    ASSUME TypeOK, PendingInv, ResultInv, NEW w \in Writers, ScannerStep(w)
    PROVE  ResultInv'
  <1>1. UNCHANGED scanVars
    BY DEF ScannerStep
  <1> DEFINE OwnStep ==
              /\ stage[w] \in {"detecting", "upserting"}
              /\ \A v \in Writers : v # w => stage'[v] = stage[v] /\ todo'[v] = todo[v]
              /\ stage'[w] \in {"upserting", "returned", "raised"}
              /\ stage'[w] = "returned" => todo'[w] = {}
  <1>2. OwnStep
    <2>1. CASE Stamp(w)
      BY <2>1 DEF Stamp, TypeOK
    <2>2. ASSUME NEW f \in FindingIds, Query(w, f) PROVE OwnStep
      BY <2>2 DEF Query, TypeOK
    <2>3. ASSUME NEW p \in pending, p.by = w, Write(p) PROVE OwnStep
      <3>1. stage' = stage /\ stage[w] = "upserting"
        BY <2>3 DEF Write, PendingInv
      <3>2. \A v \in Writers : v # w => todo'[v] = todo[v]
        <4>1. todo' = [todo EXCEPT ![p.by] = @ \ {p.id}] \/ todo' = todo
          BY <2>3 DEF Write
        <4> QED
          BY <2>3, <4>1 DEF TypeOK
      <3> QED
        BY <3>1, <3>2
    <2>4. CASE Return(w)
      BY <2>4 DEF Return, TypeOK
    <2>5. CASE Raise(w)
      BY <2>5 DEF Raise, Running, TypeOK
    <2> QED
      BY <2>1, <2>2, <2>3, <2>4, <2>5 DEF ScannerStep, WriterStep
  <1> QED
    BY <1>1, <1>2 DEF ResultInv

LEMMA ResultStep ==
    ASSUME TypeOK, PendingInv, ResultInv, [ScanNext]_<<vars, scanVars>>
    PROVE  ResultInv'
  <1>1. ASSUME NEW s \in Scans, StartScan(s) PROVE ResultInv'
    <2>1. \A w \in Writers :
             /\ stage'[w] = IF w \in BranchesOf(s) THEN "detecting" ELSE stage[w]
             /\ todo'[w] = IF w \in BranchesOf(s) THEN {} ELSE todo[w]
      BY <1>1 DEF StartScan, Invoke
    <2>2. /\ execution' = [execution EXCEPT ![s] = "ParallelScanners"]
          /\ attempts' = attempts /\ result' = result
          /\ execution[s] = "NotStarted"
      BY <1>1 DEF StartScan
    <2>3. \A w \in Writers : stage'[w] = "returned" => todo'[w] = {}
      BY <2>1 DEF ResultInv
    <2>4. \A b \in BranchesOf(s) : result[b] = "none"
      BY <2>2 DEF ResultInv
    <2>5. \A t \in Scans : t # s => execution'[t] = execution[t]
      BY <2>2 DEF ResultInv
    <2>6. \A t \in Scans, b \in Writers : t # s /\ b \in BranchesOf(t) => stage'[b] = stage[b]
      BY <2>1
    <2>7. execution'[s] = "ParallelScanners" /\ execution' \in
             [Scans -> {"NotStarted", "ParallelScanners", "Succeeded"}]
      BY <2>2 DEF ResultInv
    <2>8. \A b \in Branches : result[b] # "none" => stage'[b] = stage[b]
      BY <2>1, <2>4
    <2> QED
      BY <2>2, <2>3, <2>4, <2>5, <2>6, <2>7, <2>8 DEF ResultInv
  <1>2. ASSUME NEW s \in Scans, ScanEnds(s) PROVE ResultInv'
    BY <1>2 DEF ScanEnds, ResultInv
  <1>3. ASSUME NEW w \in Writers, StartDetect(w) PROVE ResultInv'
    <2>1. \A v \in Writers : /\ v # w => stage'[v] = stage[v]
                             /\ v # w => todo'[v] = todo[v]
                             /\ stage'[w] = "detecting"
      BY <1>3 DEF StartDetect, Invoke
    <2> QED
      BY <1>3, <2>1 DEF StartDetect, ResultInv
  <1>4. ASSUME NEW w \in Writers, RetryTask(w) PROVE ResultInv'
    <2>1. \A v \in Writers : /\ v # w => stage'[v] = stage[v]
                             /\ v # w => todo'[v] = todo[v]
                             /\ stage'[w] = "detecting"
      BY <1>4 DEF RetryTask, Invoke
    <2>2. /\ attempts' = [attempts EXCEPT ![w] = @ + 1]
          /\ stage[w] = "raised" /\ attempts[w] < MaxAttempts
          /\ execution' = execution /\ result' = result
      BY <1>4 DEF RetryTask
    <2>3. attempts' \in [Writers -> 0..MaxAttempts]
      BY <2>2 DEF ResultInv
    <2>4. w \in Branches => result[w] = "none"
      BY <2>2 DEF ResultInv
    <2> QED
      BY <2>1, <2>2, <2>3, <2>4 DEF ResultInv
  <1>5. ASSUME NEW b \in Branches, BranchReturns(b) PROVE ResultInv'
    BY <1>5 DEF BranchReturns, ResultInv
  <1>6. ASSUME NEW b \in Branches, BranchCaught(b) PROVE ResultInv'
    BY <1>6 DEF BranchCaught, ResultInv
  <1>7. ASSUME NEW w \in Writers, ScannerStep(w) PROVE ResultInv'
    BY <1>7, ScannerResult
  <1>8. CASE Surroundings
    BY <1>8 DEF Surroundings, Environment, Purge, Replicate, Tick, ResultInv
  <1>9. CASE UNCHANGED <<vars, scanVars>>
    BY <1>9 DEF ResultInv
  <1> QED
    BY <1>1, <1>2, <1>3, <1>4, <1>5, <1>6, <1>7, <1>8, <1>9 DEF ScanNext, StateMachineStep

\* ScanTypeOK: the state machine keeps no more retries and no other results
\* than it is configured for.
THEOREM ScanTypeCorrect == ScanSafety => []ScanTypeOK
  <1>1. TypeOK /\ ResultInv => ScanTypeOK
    BY DEF ScanTypeOK, ResultInv
  <1>2. ScanSafety => []IInv
    BY ScanIsSetOfWriters, FindingsInvariance, PTL
  <1>3. IInv => TypeOK /\ PendingInv
    BY DEF IInv
  <1> QED
    BY <1>1, <1>2, <1>3, ResultInit, ResultStep, PTL DEF ScanSafety

\* FailureIsIsolated: an execution is over only when each of its scanners has
\* upserted its whole batch or has used up its retries.
THEOREM Isolation == ScanSafety => []FailureIsIsolated
  <1>1. ResultInv => FailureIsIsolated
    BY DEF ResultInv, FailureIsIsolated
  <1>2. ScanSafety => []IInv
    BY ScanIsSetOfWriters, FindingsInvariance, PTL
  <1>3. IInv => TypeOK /\ PendingInv
    BY DEF IInv
  <1> QED
    BY <1>1, <1>2, <1>3, ResultInit, ResultStep, PTL DEF ScanSafety

-----------------------------------------------------------------------------
(* Counts. *)

LEMMA InvocationIs ==
    ASSUME NEW f, NEW i
    PROVE  i \in Invocations(f) <=>
              \E w \in Writers : \E n \in 0..attempts[w] :
                 i = <<w, n>> /\ stage[w] # "idle" /\ f \in Emits[w]
  BY DEF Invocations, Started

LEMMA TriesAreFinite ==
    ASSUME NEW S, IsFiniteSet(S)
    PROVE  IsFiniteSet(S \X (0..MaxAttempts))
  <1>1. IsFiniteSet(0..MaxAttempts)
    BY MaxAttemptsAssumption, FS_Interval, 0 \in Int, MaxAttempts \in Int
  <1> QED
    BY <1>1, FS_Product

LEMMA InvocationsAreFinite ==
    ASSUME ResultInv, IsFiniteSet(Started), NEW f
    PROVE  IsFiniteSet(Invocations(f))
  <1>1. Invocations(f) \subseteq Started \X (0..MaxAttempts)
    BY MaxAttemptsAssumption DEF Invocations, Started, ResultInv
  <1> QED
    BY <1>1, TriesAreFinite, FS_Subset

LEMMA InvocationsAreFiniteNext ==
    ASSUME ResultInv', IsFiniteSet(Started'), NEW f
    PROVE  IsFiniteSet(Invocations(f)')
  <1>1. Invocations(f)' \subseteq Started' \X (0..MaxAttempts)
    BY MaxAttemptsAssumption DEF Invocations, Started, ResultInv
  <1> QED
    BY <1>1, TriesAreFinite, FS_Subset

LEMMA SightedIsFinite ==
    ASSUME ResultInv, IsFiniteSet(Started), NEW f
    PROVE  IsFiniteSet(Sighted(f)) /\ Cardinality(Sighted(f)) \in Nat
  BY InvocationsAreFinite, FS_Subset, FS_CardinalityType DEF Sighted

LEMMA SightedIsFiniteNext ==
    ASSUME ResultInv', IsFiniteSet(Started'), NEW f
    PROVE  IsFiniteSet(Sighted(f)') /\ Cardinality(Sighted(f)') \in Nat
  <1>1. IsFiniteSet(Invocations(f)')
    BY InvocationsAreFiniteNext
  <1>2. Sighted(f)' \subseteq Invocations(f)'
    BY DEF Sighted
  <1> QED
    BY <1>1, <1>2, FS_Subset, FS_CardinalityType

\* A step that begins no try twice, and lets no invocation sight again what it
\* has sighted, forgets no sight.
LEMMA SightsAreKept ==
    ASSUME ResultInv, ResultInv', NEW f,
           \A w \in Writers : stage[w] # "idle" =>
              /\ stage'[w] # "idle" /\ attempts[w] <= attempts'[w]
              /\ attempts'[w] = attempts[w] /\ w \in MaySight(f)' => w \in MaySight(f)
    PROVE  Sighted(f) \subseteq Sighted(f)'
  <1> SUFFICES ASSUME NEW i \in Sighted(f) PROVE i \in Sighted(f)'
    OBVIOUS
  <1>1. i \in Invocations(f) /\ i \notin {<<w, attempts[w]>> : w \in MaySight(f)}
    BY DEF Sighted
  <1>2. PICK w \in Writers : \E n \in 0..attempts[w] :
           i = <<w, n>> /\ stage[w] # "idle" /\ f \in Emits[w]
    BY <1>1, InvocationIs
  <1> PICK n \in 0..attempts[w] : i = <<w, n>>
    BY <1>2
  <1>3. attempts[w] \in Nat /\ attempts'[w] \in Nat /\ attempts[w] <= attempts'[w] /\ stage'[w] # "idle"
    BY <1>2 DEF ResultInv
  <1>4. i \in Invocations(f)'
    <2>1. w \in {v \in Started' : f \in Emits[v]}
      BY <1>2, <1>3 DEF Started
    <2>2. i \in {w} \X (0..attempts'[w])
      BY <1>2, <1>3
    <2> QED
      BY <2>1, <2>2 DEF Invocations
  <1>5. ASSUME NEW v \in MaySight(f)', i = <<v, attempts'[v]>> PROVE FALSE
    <2>1. v = w /\ n = attempts'[w]
      BY <1>2, <1>5
    <2>2. attempts'[w] = attempts[w]
      BY <1>2, <1>3, <2>1
    <2>3. w \in MaySight(f)
      BY <1>2, <1>5, <2>1, <2>2
    <2> QED
      BY <1>1, <1>2, <2>1, <2>2, <2>3
  <1> QED
    BY <1>4, <1>5 DEF Sighted

LEMMA SightInit == ScanInit => SightInv
  <1>1. SUFFICES ASSUME ScanInit PROVE SightInv
    OBVIOUS
  <1>2. Started = {} /\ (\A w \in Writers : todo[w] = {}) /\ \A f \in FindingIds : sights[f] = 0
    BY <1>1 DEF ScanInit, Init, Started
  <1>3. \A f : Sighted(f) = {}
    BY <1>2 DEF Sighted, Invocations
  <1> QED
    BY <1>2, <1>3, FS_EmptySet DEF SightInv

\* A query is the one sight of its invocation.
LEMMA QueryIsSighted ==
    ASSUME TypeOK, ResultInv, ResultInv', SightInv, NEW w \in Writers, NEW f \in FindingIds,
           Query(w, f), attempts' = attempts
    PROVE  SightInv'
  <1>1. /\ stage[w] = "upserting" /\ f \in todo[w] /\ \A p \in pending : p.by # w
        /\ stage' = stage /\ todo' = todo
        /\ sights' = [sights EXCEPT ![f] = @ + 1]
    BY DEF Query
  <1>2. PICK q : pending' = pending \cup {q} /\ q.by = w /\ q.id = f
    BY QueryAdds
  <1>3. Started' = Started /\ IsFiniteSet(Started)
    BY <1>1 DEF Started, SightInv
  <1>4. ASSUME NEW g \in FindingIds PROVE Sighted(g) \subseteq Sighted(g)'
    <2>1. \A v \in Writers : v \in MaySight(g)' => v \in MaySight(g)
      BY <1>1, <1>2 DEF MaySight
    <2>2. \A v \in Writers : attempts[v] \in Nat
      BY DEF ResultInv
    <2> QED
      BY <1>1, <2>1, <2>2, SightsAreKept
  <1>5. <<w, attempts[w]>> \notin Sighted(f)
    BY <1>1 DEF Sighted, MaySight
  <1>6. <<w, attempts[w]>> \in Sighted(f)'
    <2>1. f \in Emits[w]
      BY <1>1 DEF SightInv
    <2>2. attempts[w] \in 0..attempts[w]
      BY DEF ResultInv
    <2>3. <<w, attempts[w]>> \in Invocations(f)'
      <3>1. w \in {v \in Started' : f \in Emits[v]}
        BY <1>1, <2>1 DEF Started
      <3> QED
        BY <2>2, <3>1 DEF Invocations
    <2>4. w \notin MaySight(f)'
      BY <1>1, <1>2 DEF MaySight
    <2> QED
      BY <2>3, <2>4 DEF Sighted
  <1>7. \A g \in FindingIds : /\ IsFiniteSet(Sighted(g)) /\ Cardinality(Sighted(g)) \in Nat
                              /\ IsFiniteSet(Sighted(g)') /\ Cardinality(Sighted(g)') \in Nat
    BY <1>3, SightedIsFinite, SightedIsFiniteNext
  <1>8. Cardinality(Sighted(f)) + 1 <= Cardinality(Sighted(f)')
    <2>1. Cardinality(Sighted(f) \cup {<<w, attempts[w]>>}) = Cardinality(Sighted(f)) + 1
      BY <1>5, <1>7, FS_AddElement
    <2>2. Sighted(f) \cup {<<w, attempts[w]>>} \subseteq Sighted(f)'
      BY <1>4, <1>6
    <2> QED
      BY <1>7, <2>1, <2>2, FS_Subset
  <1>9. \A g \in FindingIds : Cardinality(Sighted(g)) <= Cardinality(Sighted(g)')
    BY <1>4, <1>7, FS_Subset
  <1>10. ASSUME NEW g \in FindingIds PROVE sights'[g] <= Cardinality(Sighted(g)')
    <2>1. sights[g] \in Nat /\ sights[g] <= Cardinality(Sighted(g))
      BY DEF TypeOK, SightInv
    <2>2. sights'[g] = IF g = f THEN sights[g] + 1 ELSE sights[g]
      BY <1>1 DEF TypeOK
    <2> QED
      BY <1>7, <1>8, <1>9, <2>1, <2>2
  <1> QED
    BY <1>1, <1>3, <1>10 DEF SightInv

\* Any other step sights nothing.
LEMMA SightStep ==
    ASSUME IInv, ResultInv, ResultInv', SightInv, [ScanNext]_<<vars, scanVars>>
    PROVE  SightInv'
  <1> USE DEF IInv
  <1>0. /\ \A w \in Writers : attempts[w] \in Nat /\ attempts'[w] \in Nat
        /\ \A w \in Writers : todo[w] \subseteq Emits[w]
        /\ IsFiniteSet(Started)
        /\ \A f \in FindingIds : sights[f] \in Nat /\ sights[f] <= Cardinality(Sighted(f))
    BY DEF ResultInv, SightInv, TypeOK
  <1> DEFINE Quiet ==
         /\ sights' = sights /\ IsFiniteSet(Started')
         /\ \A w \in Writers : todo'[w] \subseteq Emits[w]
         /\ \A w \in Writers : stage[w] # "idle" =>
               /\ stage'[w] # "idle" /\ attempts[w] <= attempts'[w]
               /\ attempts'[w] = attempts[w] =>
                     \A f \in FindingIds : w \in MaySight(f)' => w \in MaySight(f)
  <1>1. ASSUME Quiet PROVE SightInv'
    <2>1. ASSUME NEW f \in FindingIds PROVE sights'[f] <= Cardinality(Sighted(f)')
      <3>1. Sighted(f) \subseteq Sighted(f)'
        BY <1>1, SightsAreKept
      <3>2. /\ Cardinality(Sighted(f)) \in Nat
            /\ IsFiniteSet(Sighted(f)') /\ Cardinality(Sighted(f)') \in Nat
        BY <1>0, <1>1, SightedIsFinite, SightedIsFiniteNext
      <3>3. Cardinality(Sighted(f)) <= Cardinality(Sighted(f)')
        BY <3>1, <3>2, FS_Subset
      <3> QED
        BY <1>0, <1>1, <3>2, <3>3
    <2> QED
      BY <1>1, <2>1 DEF SightInv
  <1>2. ASSUME NEW ws \in SUBSET Writers, IsFiniteSet(ws), Invoke(ws),
               \A w \in ws : stage[w] = "idle" \/ attempts'[w] # attempts[w],
               \A w \in Writers : attempts[w] <= attempts'[w]
        PROVE  Quiet
    <2>1. /\ \A w \in Writers : /\ stage'[w] = IF w \in ws THEN "detecting" ELSE stage[w]
                                /\ todo'[w] = IF w \in ws THEN {} ELSE todo[w]
          /\ sights' = sights /\ pending' = pending
      BY <1>2 DEF Invoke
    <2>2. Started' \subseteq Started \cup ws
      BY <2>1 DEF Started
    <2>3. IsFiniteSet(Started')
      BY <1>0, <1>2, <2>2, FS_Union, FS_Subset
    <2>4. \A w \in Writers \ ws, f \in FindingIds : w \in MaySight(f)' => w \in MaySight(f)
      BY <2>1 DEF MaySight
    <2> QED
      BY <1>0, <1>2, <2>1, <2>3, <2>4
  <1>3. ASSUME NEW s \in Scans, StartScan(s) PROVE Quiet
    <2>1. Invoke(BranchesOf(s)) /\ attempts' = attempts /\ execution[s] = "NotStarted"
      BY <1>3 DEF StartScan
    <2>2. IsFiniteSet(BranchesOf(s))
      BY ScannersAssumption, FS_Singleton, FS_Product
    <2>3. BranchesOf(s) \in SUBSET Writers /\ \A w \in BranchesOf(s) : stage[w] = "idle"
      BY <2>1 DEF ResultInv
    <2> QED
      BY <1>0, <1>2, <2>1, <2>2, <2>3
  <1>4. ASSUME NEW w \in Writers, StartDetect(w) \/ RetryTask(w) PROVE Quiet
    <2>1. /\ Invoke({w})
          /\ \/ stage[w] = "idle" /\ attempts' = attempts
             \/ attempts' = [attempts EXCEPT ![w] = @ + 1]
      BY <1>4 DEF StartDetect, RetryTask
    <2>2. /\ stage[w] = "idle" \/ attempts'[w] # attempts[w]
          /\ \A v \in Writers : attempts[v] <= attempts'[v]
      BY <1>0, <2>1 DEF ResultInv
    <2> QED
      BY <1>2, <2>1, <2>2, FS_Singleton
  <1>5. ASSUME UNCHANGED <<stage, todo, pending, sights, attempts>> PROVE Quiet
    BY <1>0, <1>5 DEF MaySight, Started
  <1>6. ASSUME NEW w \in Writers, ScannerStep(w) PROVE SightInv'
    <2>1. attempts' = attempts /\ WriterStep(w)
      BY <1>6 DEF ScannerStep
    <2>2. CASE Stamp(w)
      <3>1. /\ stage[w] = "detecting" /\ stage' = [stage EXCEPT ![w] = "upserting"]
            /\ sights' = sights /\ pending' = pending
        BY <2>2 DEF Stamp
      <3>2. \A v \in Writers : /\ v # w => todo'[v] = todo[v]
                               /\ todo'[v] \subseteq Emits[v]
        BY <1>0, <2>2 DEF Stamp, TypeOK
      <3>3. Started' = Started
        BY <3>1 DEF Started, TypeOK
      <3>4. \A v \in Writers, f \in FindingIds : v \in MaySight(f)' => v \in MaySight(f)
        BY <3>1, <3>2 DEF MaySight, TypeOK
      <3>5. \A v \in Writers : stage[v] # "idle" => stage'[v] # "idle"
        BY <3>1 DEF TypeOK
      <3> QED
        BY <1>0, <1>1, <2>1, <3>1, <3>2, <3>3, <3>4, <3>5
    <2>3. ASSUME NEW f \in FindingIds, Query(w, f) PROVE SightInv'
      BY <2>1, <2>3, QueryIsSighted
    <2>4. ASSUME NEW p \in pending, p.by = w, Write(p) PROVE SightInv'
      <3>1. p.id \in FindingIds /\ p.by \in Writers
        BY DEF TypeOK, Pending
      <3>2. stage' = stage /\ sights' = sights
        BY <2>4 DEF Write
      <3>3. \/ pending' = pending \ {p} /\ todo' = [todo EXCEPT ![p.by] = @ \ {p.id}]
            \/ /\ pending' = (pending \ {p}) \cup {[p EXCEPT !.sent = TRUE]} /\ todo' = todo
        BY <2>4 DEF Write
      <3>4. \A v \in Writers : todo'[v] \subseteq todo[v]
        BY <3>3 DEF TypeOK
      <3>5. \A v \in Writers, f \in FindingIds : v \in MaySight(f)' => v \in MaySight(f)
        <4>1. CASE pending' = pending \ {p} /\ todo' = [todo EXCEPT ![p.by] = @ \ {p.id}]
          <5>1. p.id \notin todo'[p.by]
            BY <3>1, <4>1 DEF TypeOK
          <5> QED
            BY <3>2, <3>4, <4>1, <5>1 DEF MaySight
        <4>2. CASE pending' = (pending \ {p}) \cup {[p EXCEPT !.sent = TRUE]} /\ todo' = todo
          <5>1. [p EXCEPT !.sent = TRUE].by = p.by /\ [p EXCEPT !.sent = TRUE].id = p.id
            BY DEF TypeOK, Pending
          <5> QED
            BY <3>2, <4>2, <5>1 DEF MaySight
        <4> QED
          BY <3>3, <4>1, <4>2
      <3>6. Started' = Started
        BY <3>2 DEF Started
      <3> QED
        BY <1>0, <1>1, <2>1, <3>2, <3>4, <3>5, <3>6
    <2>5. CASE Return(w) \/ Raise(w)
      <3>1. /\ \/ stage' = [stage EXCEPT ![w] = "returned"] /\ pending' = pending
               \/ stage' = [stage EXCEPT ![w] = "raised"] /\ pending' = {p \in pending : p.by # w}
            /\ sights' = sights /\ todo' = todo /\ stage[w] # "idle"
        BY <2>5 DEF Return, Raise, Running
      <3>2. \A v \in Writers : /\ v # w => stage'[v] = stage[v]
                               /\ stage'[w] \in {"returned", "raised"}
        BY <3>1 DEF TypeOK
      <3>3. \A v \in Writers, f \in FindingIds : v \in MaySight(f)' => v \in MaySight(f)
        BY <3>1, <3>2 DEF MaySight
      <3>4. Started' = Started
        BY <3>1, <3>2 DEF Started
      <3> QED
        BY <1>0, <1>1, <2>1, <3>1, <3>2, <3>3, <3>4
    <2> QED
      BY <2>1, <2>2, <2>3, <2>4, <2>5 DEF WriterStep
  <1>7. CASE Surroundings
    BY <1>1, <1>5, <1>7 DEF Surroundings, Environment, Purge, Replicate, Tick
  <1>8. ASSUME NEW s \in Scans, ScanEnds(s) PROVE SightInv'
    BY <1>1, <1>5, <1>8 DEF ScanEnds
  <1>9. ASSUME NEW b \in Branches, BranchReturns(b) \/ BranchCaught(b) PROVE SightInv'
    BY <1>1, <1>5, <1>9 DEF BranchReturns, BranchCaught
  <1>10. CASE UNCHANGED <<vars, scanVars>>
    BY <1>1, <1>5, <1>10
  <1> QED
    BY <1>1, <1>3, <1>4, <1>6, <1>7, <1>8, <1>9, <1>10 DEF ScanNext, StateMachineStep

\* CountsAreInvocations: batches that die half way, retries, repeated writes and
\* lagging queries never make a count exceed the times its scanners were invoked.
THEOREM CountsAreOfInvocations == ScanSafety => []CountsAreInvocations
  <1>1. ASSUME IInv, ResultInv, SightInv PROVE CountsAreInvocations
    <2>1. SUFFICES ASSUME NEW f \in FindingIds, NEW t \in Times
                   PROVE  rows[f][t].count <= Cardinality(Invocations(f))
      BY DEF CountsAreInvocations
    <2>2. rows[f][t].count \in Nat /\ sights[f] \in Nat /\ rows[f][t].count <= sights[f]
      <3>1. rows[f][t] \in Row
        BY <1>1 DEF IInv, TypeOK
      <3> QED
        BY <1>1, <3>1 DEF IInv, TypeOK, PendingInv, CountNeverOverstates, Row
    <2>3. sights[f] <= Cardinality(Sighted(f)) /\ Cardinality(Sighted(f)) \in Nat
      BY <1>1, SightedIsFinite DEF SightInv
    <2>4. IsFiniteSet(Invocations(f))
      BY <1>1, InvocationsAreFinite DEF SightInv
    <2>5. /\ Cardinality(Sighted(f)) <= Cardinality(Invocations(f))
          /\ Cardinality(Invocations(f)) \in Nat
      BY <2>4, FS_Subset, FS_CardinalityType DEF Sighted
    <2> QED
      BY <2>2, <2>3, <2>5
  <1>2. ScanSafety => []IInv
    BY ScanIsSetOfWriters, FindingsInvariance, PTL
  <1>3. IInv => TypeOK /\ PendingInv
    BY DEF IInv
  <1>4. ScanSafety => []ResultInv
    BY <1>2, <1>3, ResultInit, ResultStep, PTL DEF ScanSafety
  <1>5. IInv /\ ResultInv /\ ResultInv' /\ SightInv /\ [ScanNext]_<<vars, scanVars>> => SightInv'
    BY SightStep
  <1> QED
    BY <1>1, <1>2, <1>4, <1>5, SightInit, PTL DEF ScanSafety
-----------------------------------------------------------------------------
(* Executions come to their end. *)

\* NoScanIsStuck: whatever an execution still waits for is running or has ended.
THEOREM NoScanGetsStuck == ScanSafety => []NoScanIsStuck
  <1> DEFINE Invoked == \A s \in Scans : execution[s] = "ParallelScanners" =>
                           \A b \in BranchesOf(s) : stage[b] # "idle"
  <1>1. ScanInit => Invoked
    BY DEF ScanInit
  <1>2. ASSUME TypeOK, ResultInv, Invoked, [ScanNext]_<<vars, scanVars>> PROVE Invoked'
    <2>1. ASSUME NEW s \in Scans, StartScan(s) PROVE Invoked'
      <3>1. \A w \in Writers : stage'[w] = IF w \in BranchesOf(s) THEN "detecting" ELSE stage[w]
        BY <2>1 DEF StartScan, Invoke
      <3>2. \A t \in Scans : t # s => execution'[t] = execution[t]
        BY <2>1 DEF StartScan, ResultInv
      <3> QED
        BY <1>2, <3>1, <3>2
    <2>2. ASSUME \A b \in Branches : stage[b] # "idle" => stage'[b] # "idle", execution' = execution
          PROVE  Invoked'
      BY <1>2, <2>2
    <2>3. ASSUME NEW s \in Scans, ScanEnds(s) PROVE Invoked'
      BY <1>2, <2>3 DEF ScanEnds, ResultInv
    <2>4. ASSUME NEW w \in Writers, StartDetect(w) \/ RetryTask(w) PROVE Invoked'
      <3>1. execution' = execution
        BY <2>4 DEF StartDetect, RetryTask
      <3>2. \A v \in Writers : stage'[v] = IF v = w THEN "detecting" ELSE stage[v]
        BY <2>4 DEF StartDetect, RetryTask, Invoke
      <3> QED
        BY <2>2, <3>1, <3>2
    <2>5. ASSUME NEW w \in Branches, BranchReturns(w) \/ BranchCaught(w) PROVE Invoked'
      BY <2>2, <2>5 DEF BranchReturns, BranchCaught
    <2>6. ASSUME NEW w \in Writers, ScannerStep(w) PROVE Invoked'
      <3>1. \/ stage' = stage
            \/ \E new \in {"upserting", "returned", "raised"} : stage' = [stage EXCEPT ![w] = new]
        BY <2>6 DEF ScannerStep, WriterStep, Stamp, Query, Write, Return, Raise
      <3> QED
        BY <1>2, <2>2, <2>6, <3>1 DEF TypeOK, ScannerStep
    <2>7. CASE Surroundings
      BY <2>2, <2>7 DEF Surroundings, Environment, Purge, Replicate, Tick
    <2>8. CASE UNCHANGED <<vars, scanVars>>
      BY <2>2, <2>8
    <2> QED
      BY <1>2, <2>1, <2>3, <2>4, <2>5, <2>6, <2>7, <2>8 DEF ScanNext, StateMachineStep
  <1>3. ASSUME TypeOK, Invoked PROVE NoScanIsStuck
    BY <1>3 DEF TypeOK, NoScanIsStuck, TaskCanGoOn, Running
  <1>4. ScanSafety => []IInv
    BY ScanIsSetOfWriters, FindingsInvariance, PTL
  <1>5. IInv => TypeOK /\ PendingInv
    BY DEF IInv
  <1>6. ScanSafety => []ResultInv
    BY <1>4, <1>5, ResultInit, ResultStep, PTL DEF ScanSafety
  <1> HIDE DEF Invoked
  <1> QED
    BY <1>1, <1>2, <1>3, <1>4, <1>5, <1>6, PTL DEF ScanSafety

\* A task's measure depends on nothing but the task and its own upsert.
LEMMA TaskLeftIsLocal ==
    ASSUME NEW w \in Writers,
           attempts'[w] = attempts[w], stage'[w] = stage[w], todo'[w] = todo[w],
           w \in Branches => result'[w] = result[w],
           \A p : p.by = w => (p \in pending' <=> p \in pending)
    PROVE  TaskLeft(w)' = TaskLeft(w)
  <1>1. UpsertLeft(w)' = UpsertLeft(w)
    BY DEF UpsertLeft
  <1>2. StageLeft(w)' = StageLeft(w) /\ ResultLeft(w)' = ResultLeft(w)
    BY DEF StageLeft, ResultLeft
  <1> QED
    BY <1>1, <1>2 DEF TaskLeft

\* A step of the stage or the result outweighs the batch.
LEMMA TaskStageGoesDown ==
    ASSUME NEW w \in Writers, attempts'[w] = attempts[w],
           StageLeft(w)' + ResultLeft(w)' < StageLeft(w) + ResultLeft(w)
    PROVE  Less(TaskLeft(w)', TaskLeft(w))
  BY DEF TaskLeft, Less

LEMMA UpsertGoesDown ==
    ASSUME NEW w \in Writers, attempts'[w] = attempts[w], stage'[w] = stage[w],
           w \in Branches => result'[w] = result[w],
           3 * Cardinality(todo'[w]) + UpsertLeft(w)' < 3 * Cardinality(todo[w]) + UpsertLeft(w)
    PROVE  Less(TaskLeft(w)', TaskLeft(w))
  <1>1. StageLeft(w)' = StageLeft(w) /\ ResultLeft(w)' = ResultLeft(w)
    BY DEF StageLeft, ResultLeft
  <1> QED
    BY <1>1 DEF TaskLeft, Less

\* Invoked for the first time, or once more against one try less.
LEMMA InvokedGoesDown ==
    ASSUME ResultInv, NEW w \in Writers, stage'[w] = "detecting", result' = result,
           \/ stage[w] = "idle" /\ attempts' = attempts
           \/ attempts' = [attempts EXCEPT ![w] = @ + 1]
    PROVE  Less(TaskLeft(w)', TaskLeft(w))
  <1>1. CASE stage[w] = "idle" /\ attempts' = attempts
    <2>1. StageLeft(w)' = 2 /\ StageLeft(w) = 3
      BY <1>1 DEF StageLeft
    <2>2. ResultLeft(w)' = ResultLeft(w) /\ ResultLeft(w) \in {0, 1}
      BY DEF ResultLeft
    <2> QED
      BY <1>1, <2>1, <2>2, TaskStageGoesDown
  <1>2. CASE attempts' = [attempts EXCEPT ![w] = @ + 1]
    <2>1. attempts[w] \in Nat /\ attempts'[w] = attempts[w] + 1
      BY <1>2 DEF ResultInv
    <2>2. MaxAttempts - attempts'[w] < MaxAttempts - attempts[w]
      BY <2>1
    <2> QED
      BY <2>2 DEF TaskLeft, Less
  <1> QED
    BY <1>1, <1>2

\* The upsert under way: queried, sent again, or done with.
LEMMA WriteGoesDown ==
    ASSUME TypeOK, PendingInv, NEW w \in Writers, NEW p \in pending, p.by = w, Write(p),
           UNCHANGED scanVars
    PROVE  Less(TaskLeft(w)', TaskLeft(w))
  <1>1. /\ IsFiniteSet(todo[w]) /\ Cardinality(todo[w]) \in Nat
        /\ UpsertLeft(w) \in {0, 1, 2} /\ stage' = stage
    BY FindingIdsAssumption, FS_Subset, FS_CardinalityType DEF TypeOK, UpsertLeft, Write
  <1>2. CASE todo' = [todo EXCEPT ![p.by] = @ \ {p.id}] /\ pending' = pending \ {p}
    <2>1. todo'[w] = todo[w] \ {p.id} /\ p.id \in todo[w]
      BY <1>2 DEF TypeOK, PendingInv
    <2>2. Cardinality(todo'[w]) = Cardinality(todo[w]) - 1
      BY <1>1, <2>1, FS_RemoveElement
    <2>3. UpsertLeft(w)' = 2
      BY <1>2 DEF UpsertLeft, PendingInv
    <2>4. 3 * Cardinality(todo'[w]) + UpsertLeft(w)' < 3 * Cardinality(todo[w]) + UpsertLeft(w)
      BY <1>1, <2>2, <2>3
    <2> QED
      BY <1>1, <2>4, UpsertGoesDown
  <1>3. CASE ~p.sent /\ todo' = todo /\ pending' = (pending \ {p}) \cup {[p EXCEPT !.sent = TRUE]}
    <2>1. \A q \in pending : q.by = w => q = p
      BY DEF PendingInv
    <2>2. UpsertLeft(w) = 1
      BY <1>3, <2>1 DEF UpsertLeft
    <2>3. [p EXCEPT !.sent = TRUE].by = w /\ [p EXCEPT !.sent = TRUE].sent
      BY DEF TypeOK, Pending
    <2>4. UpsertLeft(w)' = 0
      BY <1>3, <2>3 DEF UpsertLeft
    <2>5. 3 * Cardinality(todo'[w]) + UpsertLeft(w)' < 3 * Cardinality(todo[w]) + UpsertLeft(w)
      BY <1>1, <1>3, <2>2, <2>4
    <2> QED
      BY <1>1, <2>5, UpsertGoesDown
  <1> QED
    BY <1>2, <1>3 DEF Write

LEMMA QueryGoesDown ==
    ASSUME TypeOK, NEW w \in Writers, NEW f \in FindingIds, Query(w, f), UNCHANGED scanVars
    PROVE  Less(TaskLeft(w)', TaskLeft(w))
  <1>1. /\ stage' = stage /\ todo' = todo /\ Cardinality(todo[w]) \in Nat
        /\ \A p \in pending : p.by # w
    BY FindingIdsAssumption, FS_Subset, FS_CardinalityType DEF TypeOK, Query
  <1>2. PICK q : pending' = pending \cup {q} /\ q.by = w /\ ~q.sent
    BY QueryAdds
  <1>3. UpsertLeft(w) = 2 /\ UpsertLeft(w)' = 1
    BY <1>1, <1>2 DEF UpsertLeft
  <1>4. 3 * Cardinality(todo'[w]) + UpsertLeft(w)' < 3 * Cardinality(todo[w]) + UpsertLeft(w)
    BY <1>1, <1>3
  <1> QED
    BY <1>1, <1>4, UpsertGoesDown

LEMMA TaskStepGoesDown ==
    ASSUME IInv, ResultInv, NEW w \in Writers, TaskStep(w)
    PROVE  Less(TaskLeft(w)', TaskLeft(w))
  <1> USE DEF IInv
  <1>0. ResultLeft(w) \in {0, 1}
    BY DEF ResultLeft
  <1>1. CASE StartDetect(w) \/ RetryTask(w)
    <2>1. Invoke({w}) /\ result' = result
      BY <1>1 DEF StartDetect, RetryTask
    <2>2. stage'[w] = "detecting"
      BY <2>1 DEF Invoke
    <2>3. \/ stage[w] = "idle" /\ attempts' = attempts
          \/ attempts' = [attempts EXCEPT ![w] = @ + 1]
      BY <1>1 DEF StartDetect, RetryTask
    <2> QED
      BY <2>1, <2>2, <2>3, InvokedGoesDown
  <1>2. CASE w \in Branches /\ (BranchReturns(w) \/ BranchCaught(w))
    <2>1. StageLeft(w)' = StageLeft(w) /\ StageLeft(w) = 0
      BY <1>2 DEF BranchReturns, BranchCaught, StageLeft
    <2>2. ResultLeft(w) = 1 /\ ResultLeft(w)' = 0 /\ attempts' = attempts
      BY <1>2 DEF BranchReturns, BranchCaught, ResultLeft, ResultInv
    <2> QED
      BY <2>1, <2>2, TaskStageGoesDown
  <1>3. CASE ScannerStep(w)
    <2>1. UNCHANGED scanVars /\ WriterStep(w)
      BY <1>3 DEF ScannerStep
    <2>2. CASE Stamp(w) \/ Return(w) \/ Raise(w)
      <3>1. /\ StageLeft(w)' < StageLeft(w)
            /\ StageLeft(w) \in Nat /\ StageLeft(w)' \in Nat
        BY <2>2 DEF Stamp, Return, Raise, Running, StageLeft, TypeOK
      <3>2. ResultLeft(w)' = ResultLeft(w)
        BY <2>1 DEF ResultLeft
      <3> QED
        BY <1>0, <2>1, <3>1, <3>2, TaskStageGoesDown
    <2>3. ASSUME NEW f \in FindingIds, Query(w, f) PROVE Less(TaskLeft(w)', TaskLeft(w))
      BY <2>1, <2>3, QueryGoesDown
    <2>4. ASSUME NEW p \in pending, p.by = w, Write(p) PROVE Less(TaskLeft(w)', TaskLeft(w))
      BY <2>1, <2>4, WriteGoesDown
    <2> QED
      BY <2>1, <2>2, <2>3, <2>4 DEF WriterStep
  <1> QED
    BY <1>1, <1>2, <1>3 DEF TaskStep, StateMachineStep

\* A scanner touches nothing of another task.
LEMMA ScannerLeavesOthers ==
    ASSUME TypeOK, NEW v \in Writers, ScannerStep(v), NEW w \in Writers, w # v
    PROVE  TaskLeft(w)' = TaskLeft(w)
  <1>1. UNCHANGED scanVars
    BY DEF ScannerStep
  <1>2. CASE Stamp(v) \/ Return(v)
    BY <1>1, <1>2, TaskLeftIsLocal DEF Stamp, Return, TypeOK
  <1>3. CASE Raise(v)
    BY <1>1, <1>3, TaskLeftIsLocal DEF Raise, TypeOK
  <1>4. ASSUME NEW f \in FindingIds, Query(v, f) PROVE TaskLeft(w)' = TaskLeft(w)
    <2>1. PICK q : pending' = pending \cup {q} /\ q.by = v
      BY <1>4, QueryAdds
    <2> QED
      BY <1>1, <1>4, <2>1, TaskLeftIsLocal DEF Query
  <1>5. ASSUME NEW p \in pending, p.by = v, Write(p) PROVE TaskLeft(w)' = TaskLeft(w)
    <2>1. stage' = stage /\ todo'[w] = todo[w]
      BY <1>5 DEF Write, TypeOK
    <2>2. [p EXCEPT !.sent = TRUE].by = v
      BY <1>5 DEF TypeOK, Pending
    <2>3. \A q : q.by = w => (q \in pending' <=> q \in pending)
      BY <1>5, <2>2 DEF Write
    <2> QED
      BY <1>1, <2>1, <2>3, TaskLeftIsLocal
  <1> QED
    BY <1>2, <1>3, <1>4, <1>5 DEF ScannerStep, WriterStep

LEMMA OthersSetNoTaskBack ==
    ASSUME IInv, ResultInv, [ScanNext]_<<vars, scanVars>>, NEW w \in Writers, ~TaskStep(w)
    PROVE  AtMost(TaskLeft(w)', TaskLeft(w))
  <1> USE DEF IInv
  <1>1. ASSUME NEW s \in Scans, StartScan(s) PROVE AtMost(TaskLeft(w)', TaskLeft(w))
    <2>1. /\ stage'[w] = IF w \in BranchesOf(s) THEN "detecting" ELSE stage[w]
          /\ todo'[w] = IF w \in BranchesOf(s) THEN {} ELSE todo[w]
          /\ pending' = pending /\ attempts' = attempts /\ result' = result
          /\ w \in BranchesOf(s) => stage[w] = "idle"
      BY <1>1 DEF StartScan, Invoke, ResultInv
    <2>2. CASE w \in BranchesOf(s)
      BY <2>1, <2>2, InvokedGoesDown DEF AtMost
    <2>3. CASE w \notin BranchesOf(s)
      BY <2>1, <2>3, TaskLeftIsLocal DEF AtMost
    <2> QED
      BY <2>2, <2>3
  <1>2. ASSUME NEW s \in Scans, ScanEnds(s) PROVE TaskLeft(w)' = TaskLeft(w)
    BY <1>2, TaskLeftIsLocal DEF ScanEnds
  <1>3. ASSUME NEW v \in Writers, v # w, TaskStep(v) PROVE TaskLeft(w)' = TaskLeft(w)
    <2>1. CASE StartDetect(v) \/ RetryTask(v)
      <3>1. Invoke({v}) /\ result' = result /\ attempts'[w] = attempts[w]
        BY <1>3, <2>1 DEF StartDetect, RetryTask, ResultInv
      <3>2. stage'[w] = stage[w] /\ todo'[w] = todo[w] /\ pending' = pending
        BY <1>3, <3>1 DEF Invoke
      <3> QED
        BY <3>1, <3>2, TaskLeftIsLocal
    <2>2. CASE v \in Branches /\ (BranchReturns(v) \/ BranchCaught(v))
      BY <1>3, <2>2, TaskLeftIsLocal DEF BranchReturns, BranchCaught, ResultInv
    <2>3. CASE ScannerStep(v)
      BY <1>3, <2>3, ScannerLeavesOthers
    <2> QED
      BY <1>3, <2>1, <2>2, <2>3 DEF TaskStep, StateMachineStep
  <1>4. CASE Surroundings
    <2>1. TaskLeft(w)' = TaskLeft(w)
      BY <1>4, TaskLeftIsLocal DEF Surroundings, Environment, Purge, Replicate, Tick
    <2> QED
      BY <2>1 DEF AtMost
  <1>5. CASE UNCHANGED <<vars, scanVars>>
    BY <1>5, TaskLeftIsLocal DEF AtMost
  <1> QED
    BY <1>1, <1>2, <1>3, <1>4, <1>5 DEF ScanNext, TaskStep, AtMost

\* TasksGoForward: each step of a task lowers its measure, whatever dies or is
\* sent twice and whoever else is at work, so that it can take only so many.
THEOREM EveryTaskStepIsProgress == ScanSafety => TasksGoForward
  <1> DEFINE Forward == \A w \in Writers :
                /\ TaskStep(w) => Less(TaskLeft(w)', TaskLeft(w))
                /\ AtMost(TaskLeft(w)', TaskLeft(w))
  <1>1. IInv /\ ResultInv /\ [ScanNext]_<<vars, scanVars>> => [Forward]_<<vars, scanVars>>
    BY TaskStepGoesDown, OthersSetNoTaskBack DEF AtMost
  <1>2. ScanSafety => []IInv
    BY ScanIsSetOfWriters, FindingsInvariance, PTL
  <1>3. IInv => TypeOK /\ PendingInv
    BY DEF IInv
  <1>4. ScanSafety => []ResultInv
    BY <1>2, <1>3, ResultInit, ResultStep, PTL DEF ScanSafety
  <1> QED
    BY <1>1, <1>2, <1>4, PTL DEF ScanSafety, TasksGoForward
=============================================================================
