------------------------------- MODULE Progress -------------------------------
(***************************************************************************)
(* What is left to do, as three numbers, the later ones of no weight       *)
(* against the earlier: the order by which workflows come to an end.       *)
(***************************************************************************)
EXTENDS Naturals

Measures == Nat \X Nat \X Nat

Less(x, y) ==
    \/ x[1] < y[1]
    \/ x[1] = y[1] /\ x[2] < y[2]
    \/ x[1] = y[1] /\ x[2] = y[2] /\ x[3] < y[3]

AtMost(x, y) == x = y \/ Less(x, y)
=============================================================================
