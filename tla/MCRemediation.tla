---------------------------- MODULE MCRemediation ----------------------------
(* TLC instances of Remediation. *)
EXTENDS Remediation, TLC

\* Executions, resources and clicks are interchangeable.  Used in the runs
\* without liveness properties only.
Symmetry ==
    Permutations(Executions) \cup Permutations(Resources) \cup Permutations(Clicks)
=============================================================================
