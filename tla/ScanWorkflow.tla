----------------------------- MODULE ScanWorkflow -----------------------------
(***************************************************************************)
(* The scan state machine of terraform/modules/step-functions: one task    *)
(* for each scanner, side by side, each retried, then caught, so that a    *)
(* scanner that fails does not stop the others.  The findings table is     *)
(* also written by the cleanup Lambda in detect mode, which the            *)
(* remediation state machine calls and retries on its own schedule.        *)
(***************************************************************************)
EXTENDS Findings, Progress

CONSTANTS
    Scans,          \* executions of the scan state machine
    Scanners,       \* cost, security, cleanup
    MaxAttempts     \* scanner_retry_max_attempts: retries after the first try

Branches == Scans \X Scanners
BranchesOf(s) == {s} \X Scanners

ASSUME BranchesAssumption == Branches \subseteq Writers
ASSUME ScannersAssumption == IsFiniteSet(Scanners)
ASSUME FindingIdsAssumption == IsFiniteSet(FindingIds)
ASSUME MaxAttemptsAssumption == MaxAttempts \in Nat

VARIABLES
    execution,  \* execution[s]: the state that s is in
    attempts,   \* attempts[w]: retries of w's task so far
    result      \* result[b]: what branch b of its execution ended with

scanVars == <<execution, attempts, result>>

ScanTypeOK ==
    /\ TypeOK
    /\ execution \in [Scans -> {"NotStarted", "ParallelScanners", "Succeeded"}]
    /\ attempts \in [Writers -> 0..MaxAttempts]
    /\ result \in [Branches -> {"none", "ok", "FAILED"}]

ScanInit ==
    /\ Init
    /\ execution = [s \in Scans |-> "NotStarted"]
    /\ attempts = [w \in Writers |-> 0]
    /\ result = [b \in Branches |-> "none"]

-----------------------------------------------------------------------------
(* Step Functions. *)

\* The scan schedule or an operator starts an execution; all tasks start.
StartScan(s) ==
    /\ execution[s] = "NotStarted"
    /\ execution' = [execution EXCEPT ![s] = "ParallelScanners"]
    /\ Invoke(BranchesOf(s))
    /\ UNCHANGED <<attempts, result>>

BranchReturns(b) ==
    /\ stage[b] = "returned" /\ result[b] = "none"
    /\ result' = [result EXCEPT ![b] = "ok"]
    /\ UNCHANGED <<vars, execution, attempts>>

\* Mutant: one retry too many.
MutantOneMoreRetry(w) ==
    /\ stage[w] = "raised" /\ attempts[w] <= MaxAttempts
    /\ attempts' = [attempts EXCEPT ![w] = @ + 1]
    /\ Invoke({w})
    /\ UNCHANGED <<execution, result>>

\* Retry on States.ALL: a new invocation that detects and upserts anew.
RetryTask(w) ==
    /\ stage[w] = "raised" /\ attempts[w] < MaxAttempts
    /\ attempts' = [attempts EXCEPT ![w] = @ + 1]
    /\ Invoke({w})
    /\ UNCHANGED <<execution, result>>

\* Mutant: the last failure is not caught.
MutantNotCaught(b) ==
    /\ stage[b] = "raised" /\ attempts[b] > MaxAttempts /\ result[b] = "none"
    /\ result' = [result EXCEPT ![b] = "FAILED"]
    /\ UNCHANGED <<vars, execution, attempts>>

\* Catch on States.ALL: the Pass state puts a FAILED result in its place.
BranchCaught(b) ==
    /\ stage[b] = "raised" /\ attempts[b] = MaxAttempts /\ result[b] = "none"
    /\ result' = [result EXCEPT ![b] = "FAILED"]
    /\ UNCHANGED <<vars, execution, attempts>>

\* Mutant: the first branch to end ends the execution.
MutantFirstBranchEnds(s) ==
    /\ execution[s] = "ParallelScanners"
    /\ \E b \in BranchesOf(s) : result[b] # "none"
    /\ execution' = [execution EXCEPT ![s] = "Succeeded"]
    /\ UNCHANGED <<vars, attempts, result>>

\* A Parallel state ends when every branch has.
ScanEnds(s) ==
    /\ execution[s] = "ParallelScanners"
    /\ \A b \in BranchesOf(s) : result[b] # "none"
    /\ execution' = [execution EXCEPT ![s] = "Succeeded"]
    /\ UNCHANGED <<vars, attempts, result>>

\* DetectZombies of the remediation state machine.
StartDetect(w) ==
    /\ w \notin Branches /\ stage[w] = "idle"
    /\ Invoke({w})
    /\ UNCHANGED scanVars

StateMachineStep(w) ==
    \/ RetryTask(w)
    \/ w \in Branches /\ (BranchReturns(w) \/ BranchCaught(w))

ScannerStep(w) == WriterStep(w) /\ UNCHANGED scanVars
Surroundings == Environment /\ UNCHANGED scanVars

ScanNext ==
    \/ \E s \in Scans : StartScan(s) \/ ScanEnds(s)
    \/ \E w \in Writers : StartDetect(w) \/ StateMachineStep(w) \/ ScannerStep(w)
    \/ Surroundings

\* Step Functions advances its executions and a Lambda ends, if only by its own
\* timeout.  Nobody has to start anything, and time need not pass.
ScanFairness ==
    /\ \A s \in Scans : WF_<<vars, scanVars>>(ScanEnds(s))
    /\ \A w \in Writers : /\ WF_<<vars, scanVars>>(StateMachineStep(w))
                          /\ WF_<<vars, scanVars>>(ScannerStep(w))

ScanSafety == ScanInit /\ [][ScanNext]_<<vars, scanVars>>
ScanSpec == ScanSafety /\ ScanFairness

-----------------------------------------------------------------------------
(* Properties. *)

\* "A single scanner failing must NOT abort the rest": an execution is over
\* only when each scanner has upserted its whole batch or has used up its
\* retries, and none of its invocations is left running behind its back.
FailureIsIsolated ==
    \A s \in Scans : execution[s] = "Succeeded" =>
        \A b \in BranchesOf(s) :
            \/ stage[b] = "returned" /\ todo[b] = {}
            \/ stage[b] = "raised" /\ attempts[b] = MaxAttempts

\* Scanners that may report f, by writer and try, as far as they have been invoked.
Started == {w \in Writers : stage[w] # "idle"}
Invocations(f) ==
    UNION {{w} \X (0..attempts[w]) : w \in {v \in Started : f \in Emits[v]}}

\* A batch that dies half way and is retried counts its findings again, but no
\* finding is ever counted more often than its scanners were invoked.
CountsAreInvocations ==
    \A f \in FindingIds, t \in Times : rows[f][t].count <= Cardinality(Invocations(f))

\* Every execution ends, whatever its scanners do.
EveryScanEnds ==
    \A s \in Scans : execution[s] = "ParallelScanners" ~> execution[s] = "Succeeded"

-----------------------------------------------------------------------------
(* Why counts are bounded: no invocation sights a finding twice. *)

\* Whose current invocation may still sight f.
MaySight(f) ==
    {w \in Writers :
        \/ stage[w] = "detecting"
        \/ /\ stage[w] = "upserting" /\ f \in todo[w]
           /\ \A p \in pending : p.by = w => p.id # f}

Sighted(f) == Invocations(f) \ {<<w, attempts[w]>> : w \in MaySight(f)}

SightInv ==
    /\ IsFiniteSet(Started)
    /\ \A w \in Writers : todo[w] \subseteq Emits[w]
    /\ \A f \in FindingIds : sights[f] <= Cardinality(Sighted(f))
-----------------------------------------------------------------------------
(* Why executions end: one that has not ended has a step to take, and the    *)
(* steps of its tasks lead down an order that no step of anybody leads up.   *)

\* The task's Lambda is running, or Step Functions has its end to react to.
TaskCanGoOn(b) == Running(b) \/ (stage[b] \in {"returned", "raised"} /\ result[b] = "none")

\* An execution under way waits for a task that can go on, or ends.
NoScanIsStuck ==
    \A s \in Scans : execution[s] = "ParallelScanners" =>
        \A b \in BranchesOf(s) : result[b] # "none" \/ TaskCanGoOn(b)

StageLeft(w) ==
    CASE stage[w] = "idle" -> 3
      [] stage[w] = "detecting" -> 2
      [] stage[w] = "upserting" -> 1
      [] OTHER -> 0
ResultLeft(w) == IF w \in Branches /\ result[w] = "none" THEN 1 ELSE 0

\* An upsert that has queried has a write to make, which is sent twice at most.
UpsertLeft(w) ==
    IF \A p \in pending : p.by # w THEN 2
      ELSE IF \A p \in pending : p.by = w => ~p.sent THEN 1 ELSE 0

TaskLeft(w) == <<MaxAttempts - attempts[w],
                 StageLeft(w) + ResultLeft(w),
                 3 * Cardinality(todo[w]) + UpsertLeft(w)>>

TaskStep(w) == StartDetect(w) \/ StateMachineStep(w) \/ ScannerStep(w)

\* Every step of a task and of its Lambda brings it closer to its end, deaths,
\* retries and repeated writes included, and nothing else sets it back.
TasksGoForward ==
    [][\A w \in Writers :
          /\ TaskStep(w) => Less(TaskLeft(w)', TaskLeft(w))
          /\ AtMost(TaskLeft(w)', TaskLeft(w))]_<<vars, scanVars>>
=============================================================================
