---------------------------- MODULE MCScanWorkflow ----------------------------
(***************************************************************************)
(* ScanWorkflow for TLC: a scan whose cleanup task meets a detect call of  *)
(* the remediation workflow on the same finding.                           *)
(***************************************************************************)
EXTENDS ScanWorkflow, TLC

CONSTANTS
    Detects,        \* detect calls of the remediation workflow
    Cleanup         \* the one scanner that reports what they report

ScanWriters == Branches \cup Detects

\* Cleanup tasks and detect calls report the findings, other scanners none.
EmitsCleanup == [w \in ScanWriters |->
    IF w \in Detects \/ w \in Scans \X {Cleanup} THEN FindingIds ELSE {}]

=============================================================================
