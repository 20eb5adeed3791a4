--------------------------- MODULE MCScanCleanup ---------------------------
(* TLC instance of ScanCleanup: the remediation workflow overlapping with  *)
(* another execution of itself or with a scan.                             *)
EXTENDS ScanCleanup, TLC

CONSTANT Late       \* the execution that gives way to a scan

\* Resources and clicks are interchangeable.  The properties that are checked as
\* temporal formulas are safety properties that treat them alike.
Symmetry == Permutations(Resources) \cup Permutations(Clicks)

NoScan == \A s \in Scans : scan[s] = "NotStarted"

\* One click, on Approve: the other decisions leave the resources alone.
OneApproval ==
    /\ \A c \in Clicks : link[c].action = "approve" /\ link[c].exec # Late
    /\ Cardinality({c \in Clicks : pc'[c] # "idle"}) <= 1

Started == \A e \in Executions \ {Late} : state[e] # "NotStarted"

\* The links of every execution are clicked: two clicks on those of one are the
\* matter of MCRemediationRaces.
LinksOfAll == {link[c].exec : c \in Clicks} = Executions

\* While owners leave the resources alone and nobody scans: two executions, or
\* the part of one that comes before a scan.  Late comes after the others, for
\* they are interchangeable; what a scan's input says matters only beside a scan.
TwoExecutions ==
    /\ NoScan
    /\ \/ \E e \in Executions :
             \/ StateMachineStep(e) \/ LambdaCall(e) \/ NotifyCall(e)
             \/ StartExecution(e) /\ (e = Late => Started)
       \/ \E c \in Clicks : Callback(c)
    /\ UNCHANGED scanVars
    /\ \/ LinksOfAll /\ \A s \in Scans : ~autoRemediate[s]
       \/ state'[Late] = "NotStarted" /\ OneApproval

\* One execution that is approved or times out, a scan and owners that
\* tag their resources.
ExecutionAndScan ==
    /\ state[Late] = "NotStarted"
    /\ \/ /\ ~NoScan
          /\ \/ \E e \in Executions \ {Late} :
                   \/ StartExecution(e) \/ StateMachineStep(e)
                   \/ LambdaCall(e) \/ NotifyCall(e)
             \/ \E c \in Clicks : Callback(c)
             \/ \E r \in Resources : Owner(r) /\ UNCHANGED ec2
          /\ UNCHANGED scanVars
       \/ \E s \in Scans : Scanning(s)
    /\ OneApproval

OverlapNext == TwoExecutions \/ ExecutionAndScan

OverlapSpec == CleanupInit /\ [][OverlapNext]_cleanupVars
=============================================================================
