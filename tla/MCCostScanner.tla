----------------------------- MODULE MCCostScanner -----------------------------
(***************************************************************************)
(* CostScanner for TLC.                                                    *)
(***************************************************************************)
EXTENDS CostScanner, TLC

CONSTANTS s1, s2, i1, i2,
          MaxScans, MaxBills    \* bounds on invocations and on changes of the bill

\* Credits and what they cancel, the floor, a spike at the threshold, and one that
\* rounds to double.
MCAmounts == {-50, 50, 10000, 15000, 19996}

Symmetry == Permutations(Slots)

VARIABLES scans, bills

Charged(s, costs) == [e \in {<<s, d>> : d \in DOMAIN costs} |-> costs[e[2]]]

\* On day 3 s1 is new; s2 was below the floor and is at it, or had a credit, alone or
\* cancelled by a charge.  On day 4 s2 has had two spikes.
MCBills(day) ==
    {Overlay([e \in {<<s1, 2>>} |-> 10000], Charged(s2, costs)) : costs \in
        IF day = 3 THEN {<<50, 10000>>, <<-50>>, <<-50, 50>>}
                   ELSE {<<10000, 15000, 19996>>}}

BoundedInit ==
    /\ today \in {3, 4} /\ bill \in MCBills(today)
    /\ CostInit
    /\ scans = 0 /\ bills = 0
BoundedNext ==
    \/ \E i \in Slots :
          /\ ScannerStep(i)
          /\ scans' = (IF Active(i) THEN scans ELSE scans + 1) /\ scans' <= MaxScans
          /\ UNCHANGED bills
    \/ (NextDay \/ RowExpires) /\ UNCHANGED <<scans, bills>>
    \/ bills < MaxBills /\ (Bill \/ Withdraw) /\ bills' = bills + 1 /\ UNCHANGED scans
BoundedSpec == BoundedInit /\ [][BoundedNext]_<<costVars, scans, bills>>
=============================================================================
