------------------------------ MODULE MCFindings ------------------------------
(***************************************************************************)
(* Findings for TLC.                                                       *)
(***************************************************************************)
EXTENDS Findings, TLC

CONSTANT MaxSights      \* bound on the upserts of one finding

Symmetry == Permutations(Writers)

\* Every scanner may report every finding.
EmitsAll == [w \in Writers |-> FindingIds]

Bounded == \A f \in FindingIds : sights'[f] <= MaxSights
BoundedSpec == Init /\ [][Next /\ Bounded]_vars

\* The same with queries that are always up to date.
FreshSpec ==
    Init /\ [][/\ Next /\ Bounded
               /\ \A f \in FindingIds : sights'[f] > sights[f] => replica[f] = rows[f]]_vars

BoundedSerialSpec == Init /\ [][Undisturbed /\ Bounded]_vars
=============================================================================
