------------------------------- MODULE CostProofs -------------------------------
(***************************************************************************)
(* Any bill, any paging of it and any revisions while it is read, any      *)
(* number of invocations at once, and deaths anywhere: findings tell the   *)
(* spikes of the bill, up to the rounding of floats, the cost table backs  *)
(* them, and only what was outdated can take table or findings back.       *)
(***************************************************************************)
EXTENDS CostScanner, FiniteSetTheorems, WellFoundedInduction, TLAPS

USE DEF scannerVars, tableVars, writeHistory, historyVars, costVars, Active

LEMMA Constants ==
    /\ LastDay \in Nat \ {0} /\ History \in Nat \ {0} /\ Retention \in Nat
    /\ MinAnomaly \in Int /\ Amounts \subseteq Int /\ Slack \in Nat
  BY AmountsAssumption, DaysAssumption, MinAnomalyAssumption, SlackAssumption

-----------------------------------------------------------------------------
(* Sums over finite sets. *)

\* The fold behind a sum takes this element of a set first.
Pick(s) == CHOOSE x \in s : TRUE

\* g satisfies, on the subsets of T, the equation that defines the fold.
Sums(f, T, g) ==
    g = [s \in SUBSET T |-> IF s = {} THEN 0 ELSE f[Pick(s)] + g[s \ {Pick(s)}]]

\* A non-empty set of finite sets has a member that includes no other: what
\* stands for induction over finite sets.
LEMMA SmallestSet ==
  ASSUME NEW S, IsFiniteSet(S), NEW bad \in SUBSET (SUBSET S), bad # {}
  PROVE  \E T \in bad : \A U \in bad : ~(U \subseteq T /\ U # T)
  <1>1. bad \subseteq FiniteSubsetsOf(S)
    BY FS_Subset DEF FiniteSubsetsOf
  <1>2. PICK T \in bad : \A U \in bad : ~(<<U, T>> \in StrictSubsetOrdering(S))
    BY <1>1, FS_StrictSubsetOrderingWellFounded, WFMin
  <1> QED
    BY <1>1, <1>2 DEF StrictSubsetOrdering, FiniteSubsetsOf

LEMMA SumsRestrict ==
  ASSUME NEW f, NEW T, NEW g, Sums(f, T, g), NEW U \in SUBSET T
  PROVE  Sums(f, U, [s \in SUBSET U |-> g[s]])
  BY DEF Sums

LEMMA SumsUnique ==
  ASSUME NEW f, NEW T, IsFiniteSet(T), NEW g, NEW h, Sums(f, T, g), Sums(f, T, h)
  PROVE  g = h
  <1> DEFINE bad == {s \in SUBSET T : g[s] # h[s]}
  <1>1. SUFFICES ASSUME bad # {} PROVE FALSE
    BY DEF Sums
  <1>2. PICK s \in bad : \A u \in bad : ~(u \subseteq s /\ u # s)
    <2>1. bad \in SUBSET (SUBSET T)
      OBVIOUS
    <2> HIDE DEF bad
    <2> QED BY <1>1, <2>1, SmallestSet
  <1>3. CASE s = {}
    BY <1>3 DEF Sums
  <1>4. CASE s # {}
    <2>1. Pick(s) \in s
      BY <1>4 DEF Pick
    <2>2. s \ {Pick(s)} \notin bad /\ s \ {Pick(s)} \in SUBSET T
      BY <1>2, <2>1
    <2>3. /\ g[s] = f[Pick(s)] + g[s \ {Pick(s)}]
          /\ h[s] = f[Pick(s)] + h[s \ {Pick(s)}]
      BY <1>4 DEF Sums
    <2> QED
      BY <1>2, <2>2, <2>3
  <1> QED
    BY <1>3, <1>4

LEMMA SumsExist ==
  ASSUME NEW f, NEW S, IsFiniteSet(S)
  PROVE  \E g : Sums(f, S, g)
  <1> DEFINE bad == {T \in SUBSET S : ~ \E g : Sums(f, T, g)}
  <1>1. SUFFICES ASSUME bad # {} PROVE FALSE
    OBVIOUS
  <1>2. PICK T \in bad : \A U \in bad : ~(U \subseteq T /\ U # T)
    <2>1. bad \in SUBSET (SUBSET S)
      OBVIOUS
    <2> HIDE DEF bad
    <2> QED BY <1>1, <2>1, SmallestSet
  <1> DEFINE H(u) == CHOOSE h : Sums(f, u, h)
  <1> DEFINE G == [s \in SUBSET T |->
                     IF s = {} THEN 0 ELSE f[Pick(s)] + H(s \ {Pick(s)})[s \ {Pick(s)}]]
  <1>3. ASSUME NEW u \in SUBSET T, u # T PROVE Sums(f, u, H(u)) /\ IsFiniteSet(u)
    <2>1. \E h : Sums(f, u, h)
      BY <1>2, <1>3
    <2> QED
      BY <2>1, FS_Subset
  <1>4. ASSUME NEW u \in SUBSET T, u # T PROVE G[u] = H(u)[u]
    <2>0. H(u) = [s \in SUBSET u |-> IF s = {} THEN 0 ELSE f[Pick(s)] + H(u)[s \ {Pick(s)}]]
      BY <1>3, <1>4 DEF Sums
    <2>1. CASE u = {}
      <3> HIDE DEF H
      <3> QED BY <2>0, <2>1
    <2>2. CASE u # {}
      <3> DEFINE v == u \ {Pick(u)}
      <3>1. Pick(u) \in u
        BY <2>2 DEF Pick
      <3>2. v \in SUBSET u /\ v \in SUBSET T /\ v # T
        BY <3>1
      <3>3. Sums(f, v, [s \in SUBSET v |-> H(u)[s]])
        BY <1>3, <1>4, <3>2, SumsRestrict
      <3>4. H(v) = [s \in SUBSET v |-> H(u)[s]]
        BY <1>3, <3>2, <3>3, SumsUnique
      <3>5. H(v)[v] = H(u)[v]
        <4> HIDE DEF H, v
        <4> QED BY <3>4
      <3>6. H(u)[u] = f[Pick(u)] + H(u)[v]
        <4> HIDE DEF H
        <4> QED BY <2>0, <2>2
      <3>7. G[u] = f[Pick(u)] + H(v)[v]
        <4> HIDE DEF H
        <4> QED BY <2>2
      <3> QED
        BY <3>5, <3>6, <3>7
    <2> QED
      BY <2>1, <2>2
  <1>5. Sums(f, T, G)
    <2>1. ASSUME NEW s \in SUBSET T, s # {}
          PROVE  G[s \ {Pick(s)}] = H(s \ {Pick(s)})[s \ {Pick(s)}]
      <3>1. Pick(s) \in s
        BY <2>1 DEF Pick
      <3>2. s \ {Pick(s)} \in SUBSET T /\ s \ {Pick(s)} # T
        BY <3>1
      <3> QED
        BY <1>4, <3>2
    <2> HIDE DEF H
    <2> QED
      BY <2>1 DEF Sums
  <1> QED
    BY <1>2, <1>5

LEMMA SumIsSums ==
  ASSUME NEW f, NEW S, IsFiniteSet(S)
  PROVE  \E g : Sums(f, S, g) /\ SumFunctionOnSet(f, S) = g[S]
  <1>1. SumFunctionOnSet(f, S) = (CHOOSE g : Sums(f, S, g))[S]
    BY DEF SumFunctionOnSet, FoldFunctionOnSet, MapThenFoldSet, Sums, Pick
  <1> QED
    BY <1>1, SumsExist

\* The sum of a finite set is what is picked first plus the sum of the rest.
LEMMA SumStep ==
  ASSUME NEW f, NEW S, IsFiniteSet(S), S # {}
  PROVE  SumFunctionOnSet(f, S) = f[Pick(S)] + SumFunctionOnSet(f, S \ {Pick(S)})
  <1>1. PICK g : Sums(f, S, g) /\ SumFunctionOnSet(f, S) = g[S]
    BY SumIsSums
  <1> DEFINE R == S \ {Pick(S)}
  <1>2. IsFiniteSet(R)
    BY FS_Subset
  <1>3. PICK h : Sums(f, R, h) /\ SumFunctionOnSet(f, R) = h[R]
    BY <1>2, SumIsSums
  <1>4. h = [s \in SUBSET R |-> g[s]]
    <2>1. Sums(f, R, [s \in SUBSET R |-> g[s]])
      BY <1>1, SumsRestrict
    <2> QED BY <1>2, <1>3, <2>1, SumsUnique
  <1>5. g[S] = f[Pick(S)] + g[R]
    BY <1>1 DEF Sums
  <1> QED
    BY <1>1, <1>3, <1>4, <1>5

LEMMA SumOfNothing == ASSUME NEW f PROVE SumFunctionOnSet(f, {}) = 0
  <1>1. PICK g : Sums(f, {}, g) /\ SumFunctionOnSet(f, {}) = g[{}]
    BY SumIsSums, FS_EmptySet
  <1> QED
    BY <1>1 DEF Sums

LEMMA SumIsInt ==
  ASSUME NEW f, NEW S, IsFiniteSet(S), \A x \in S : f[x] \in Int
  PROVE  SumFunctionOnSet(f, S) \in Int
  <1> DEFINE bad == {T \in SUBSET S : SumFunctionOnSet(f, T) \notin Int}
  <1>1. SUFFICES ASSUME bad # {} PROVE FALSE
    OBVIOUS
  <1>2. PICK T \in bad : \A U \in bad : ~(U \subseteq T /\ U # T)
    <2>1. bad \in SUBSET (SUBSET S)
      OBVIOUS
    <2> HIDE DEF bad
    <2> QED BY <1>1, <2>1, SmallestSet
  <1>3. T # {}
    BY SumOfNothing
  <1>4. Pick(T) \in T
    BY <1>3 DEF Pick
  <1>5. T \ {Pick(T)} \notin bad
    BY <1>2, <1>4
  <1>6. SumFunctionOnSet(f, T \ {Pick(T)}) \in Int
    BY <1>5
  <1>7. IsFiniteSet(T)
    BY FS_Subset
  <1>8. SumFunctionOnSet(f, T) = f[Pick(T)] + SumFunctionOnSet(f, T \ {Pick(T)})
    BY <1>3, <1>7, SumStep
  <1> QED
    BY <1>4, <1>6, <1>8

\* No summand is larger in f than in g, nor is the sum.
LEMMA SumIsMonotone ==
  ASSUME NEW f, NEW g, NEW S, IsFiniteSet(S),
         \A x \in S : f[x] \in Int /\ g[x] \in Int /\ f[x] <= g[x]
  PROVE  SumFunctionOnSet(f, S) <= SumFunctionOnSet(g, S)
  <1> DEFINE bad == {T \in SUBSET S : ~(SumFunctionOnSet(f, T) <= SumFunctionOnSet(g, T))}
  <1>1. SUFFICES ASSUME bad # {} PROVE FALSE
    OBVIOUS
  <1>2. PICK T \in bad : \A U \in bad : ~(U \subseteq T /\ U # T)
    <2>1. bad \in SUBSET (SUBSET S)
      OBVIOUS
    <2> HIDE DEF bad
    <2> QED BY <1>1, <2>1, SmallestSet
  <1>3. T # {}
    BY SumOfNothing
  <1>4. Pick(T) \in T
    BY <1>3 DEF Pick
  <1> DEFINE R == T \ {Pick(T)}
  <1>5. SumFunctionOnSet(f, R) <= SumFunctionOnSet(g, R)
    BY <1>2, <1>4
  <1>6. IsFiniteSet(T) /\ IsFiniteSet(R)
    BY FS_Subset
  <1>7. /\ SumFunctionOnSet(f, T) = f[Pick(T)] + SumFunctionOnSet(f, R)
        /\ SumFunctionOnSet(g, T) = g[Pick(T)] + SumFunctionOnSet(g, R)
    BY <1>3, <1>6, SumStep
  <1>8. SumFunctionOnSet(f, R) \in Int /\ SumFunctionOnSet(g, R) \in Int
    BY <1>6, SumIsInt
  <1>9. f[Pick(T)] \in Int /\ g[Pick(T)] \in Int /\ f[Pick(T)] <= g[Pick(T)]
    BY <1>4
  <1> HIDE DEF R
  <1>10. SumFunctionOnSet(f, T) <= SumFunctionOnSet(g, T)
    BY <1>5, <1>7, <1>8, <1>9
  <1> QED
    BY <1>2, <1>10

-----------------------------------------------------------------------------
(* Charges. *)

LEMMA OnlyIs ==
    ASSUME NEW c, NEW entries
    PROVE  /\ DOMAIN Only(c, entries) = DOMAIN c \cap entries
           /\ \A e \in DOMAIN c \cap entries : Only(c, entries)[e] = c[e]
           /\ IsCharges(c) => IsCharges(Only(c, entries))
  BY DEF Only, IsCharges

LEMMA OverlayIs ==
    ASSUME NEW c, NEW new
    PROVE  /\ DOMAIN Overlay(c, new) = DOMAIN c \cup DOMAIN new
           /\ \A e \in DOMAIN new : Overlay(c, new)[e] = new[e]
           /\ \A e \in DOMAIN c \ DOMAIN new : Overlay(c, new)[e] = c[e]
           /\ IsCharges(c) /\ IsCharges(new) => IsCharges(Overlay(c, new))
  BY DEF Overlay, IsCharges

LEMMA NoChargesIs == DOMAIN NoCharges = {} /\ IsCharges(NoCharges)
  BY DEF NoCharges, IsCharges

LEMMA CostsIs ==
    ASSUME NEW c, NEW s
    PROVE  /\ DOMAIN CostsOf(c, s) = {d \in Days : <<s, d>> \in DOMAIN c}
           /\ \A d \in DOMAIN CostsOf(c, s) : CostsOf(c, s)[d] = c[<<s, d>>]
  BY DEF CostsOf

\* The same, of one day at a time.
LEMMA DaysOfCosts ==
    ASSUME NEW c, NEW s
    PROVE  /\ DOMAIN CostsOf(c, s) \subseteq Days
           /\ \A d \in DOMAIN CostsOf(c, s) :
                 d \in Days /\ <<s, d>> \in DOMAIN c /\ CostsOf(c, s)[d] = c[<<s, d>>]
           /\ \A d \in Days : <<s, d>> \in DOMAIN c => d \in DOMAIN CostsOf(c, s)
  <1> DEFINE costs == CostsOf(c, s)
  <1>1. /\ DOMAIN costs = {d \in Days : <<s, d>> \in DOMAIN c}
        /\ \A d \in DOMAIN costs : costs[d] = c[<<s, d>>]
    BY CostsIs
  <1> HIDE DEF costs
  <1>2. /\ DOMAIN costs \subseteq Days
        /\ \A d \in DOMAIN costs : d \in Days /\ <<s, d>> \in DOMAIN c /\ costs[d] = c[<<s, d>>]
        /\ \A d \in Days : <<s, d>> \in DOMAIN c => d \in DOMAIN costs
    BY <1>1
  <1> QED
    BY <1>2 DEF costs

\* Two bills alike in a service have the same costs of it.
LEMMA SameCosts ==
    ASSUME NEW b, NEW c, NEW s,
           \A d \in Days : <<s, d>> \in DOMAIN b <=> <<s, d>> \in DOMAIN c,
           \A d \in Days : <<s, d>> \in DOMAIN b => b[<<s, d>>] = c[<<s, d>>]
    PROVE  CostsOf(b, s) = CostsOf(c, s)
  <1>1. {d \in Days : <<s, d>> \in DOMAIN b} = {d \in Days : <<s, d>> \in DOMAIN c}
    OBVIOUS
  <1> QED
    BY <1>1 DEF CostsOf

\* The last of some days is one of them.
LEMMA MaxIsLast ==
    ASSUME NEW n \in Nat, NEW S \in SUBSET (1..n), S # {}
    PROVE  Max(S) \in S /\ \A x \in S : x <= Max(S)
  <1> DEFINE T == {n - x : x \in S}
             R == OpToRel(<, Nat)
  <1>1. T \subseteq Nat /\ T # {}
    <2>1. T \subseteq Nat
      OBVIOUS
    <2>2. PICK x \in S : TRUE
      OBVIOUS
    <2>3. n - x \in T
      OBVIOUS
    <2> QED
      BY <2>1, <2>3
  <1>2. IsWellFoundedOn(R, Nat)
    BY NatLessThanWellFounded
  <1>3. PICK t \in T : \A y \in T : ~(<<y, t>> \in R)
    <2> HIDE DEF T, R
    <2> QED
      BY <1>1, <1>2, WFMin
  <1>4. \A y \in T : ~(y < t)
    BY <1>1, <1>3 DEF OpToRel
  <1>5. PICK x \in S : t = n - x
    OBVIOUS
  <1>6. \A y \in S : y <= x
    BY <1>4, <1>5
  <1> QED
    BY <1>5, <1>6 DEF Max

LEMMA LatestIsLast ==
    ASSUME NEW costs, DOMAIN costs \subseteq Days, DOMAIN costs # {}
    PROVE  /\ Latest(costs) \in DOMAIN costs
           /\ \A d \in DOMAIN costs : d <= Latest(costs)
           /\ PriorDays(costs) = {d \in DOMAIN costs : d < Latest(costs)}
  <1>1. Latest(costs) \in DOMAIN costs /\ \A d \in DOMAIN costs : d <= Latest(costs)
    BY Constants, MaxIsLast DEF Days, Latest
  <1> QED
    BY <1>1, Constants DEF PriorDays, Days

\* The exits of detect_anomalies come to the documented rule, at any margin.
LEMMA AnomalyIsSpike ==
    ASSUME NEW costs, DOMAIN costs \subseteq Days, NEW margin
    PROVE  Cardinality(DOMAIN costs) >= 2 /\ IsAnomaly(Sight(costs), margin) <=> IsSpike(costs, margin)
  <1> DEFINE D == DOMAIN costs
  <1>1. IsFiniteSet(D) /\ Cardinality(D) \in Nat
    <2>1. IsFiniteSet(1..LastDay)
      BY Constants, FS_Interval
    <2> QED
      BY <2>1, FS_Subset, FS_CardinalityType DEF Days
  <1>2. CASE D = {}
    <2>1. Cardinality(D) = 0
      BY <1>2, FS_EmptySet
    <2> QED
      BY <1>2, <2>1 DEF IsSpike
  <1>3. CASE D # {}
    <2> DEFINE l == Latest(costs)
               before == {d \in D : d < l}
               total == SumFunctionOnSet(costs, before)
    <2>1. l \in D /\ (\A d \in D : d <= l) /\ PriorDays(costs) = before
      BY <1>3, LatestIsLast
    <2>2. Cardinality(D) >= 2 <=> before # {}
      <3>1. IsFiniteSet(before) /\ Cardinality(before) \in Nat
        BY <1>1, FS_Subset, FS_CardinalityType
      <3>2. D \ {l} = before
        BY <2>1 DEF PriorDays
      <3>3. Cardinality(D) = Cardinality(before) + 1
        <4>1. Cardinality(D \ {l}) = Cardinality(D) - 1
          BY <1>1, <2>1, FS_RemoveElement
        <4> QED
          BY <1>1, <3>1, <3>2, <4>1
      <3>4. Cardinality(before) = 0 <=> before = {}
        BY <3>1, FS_EmptySet
      <3> HIDE DEF before, D, l
      <3> QED
        BY <3>1, <3>3, <3>4
    <2>3. Sight(costs).total = total /\ Sight(costs).actual = costs[l] /\ Sight(costs).before = before
      BY <2>1 DEF Sight
    <2>4. IsSpike(costs, margin) <=>
            /\ costs[l] >= MinAnomaly /\ before # {} /\ total > margin
            /\ 1000 * costs[l] * Cardinality(before) >= 1500 * (total + margin)
      <3>1. \A d \in D : (\A x \in D : x <= d) => d = l
        BY <2>1, Constants DEF Days
      <3> DEFINE Holds(d) ==
                    /\ costs[d] >= MinAnomaly /\ {x \in D : x < d} # {}
                    /\ SumFunctionOnSet(costs, {x \in D : x < d}) > margin
                    /\ 1000 * costs[d] * Cardinality({x \in D : x < d})
                         >= 1500 * (SumFunctionOnSet(costs, {x \in D : x < d}) + margin)
      <3>2. IsSpike(costs, margin) <=> \E d \in D : (\A x \in D : x <= d) /\ Holds(d)
        BY DEF IsSpike
      <3>3. IsSpike(costs, margin) <=> Holds(l)
        <4> HIDE DEF Holds, l, D
        <4> QED
          BY <2>1, <3>1, <3>2
      <3> QED
        BY <3>3
    <2> HIDE DEF before, total, l
    <2> QED
      BY <2>2, <2>3, <2>4 DEF IsAnomaly, RatioIsAtLeast
  <1> QED
    BY <1>2, <1>3
-----------------------------------------------------------------------------
(* The inductive invariant. *)

\* The days of which an invocation has read the charges.
DaysRead(i) == DaysAsked(asked[i]) \ unread[i]

BillOK == DOMAIN bill \subseteq On({d \in Days : d < today})

\* What was ever billed stays so, unless it was withdrawn.
TableOK == \A e \in DOMAIN costTable : e[1] \notin withdrawn => e \in DOMAIN bill

\* Days that an invocation did not ask for were billed after it began.
LateOK(i) == \A e \in DOMAIN bill : e[1] \notin revised[i] => e[2] < asked[i]

DataOK(i) ==
    /\ unread[i] \subseteq DaysAsked(asked[i])
    /\ DOMAIN data[i] \subseteq On(DaysRead(i))
    /\ \A e \in DOMAIN data[i] : e[1] \notin withdrawn => e \in DOMAIN bill
    /\ Active(i) => \A e \in Entries :
          e[2] \in DaysRead(i) /\ e[1] \notin revised[i] =>
              /\ e \in DOMAIN data[i] <=> e \in DOMAIN bill
              /\ e \in DOMAIN bill => data[i][e] = bill[e]

StoredOK(i) ==
    /\ pc[i] \in {"storing", "reporting"} => DOMAIN data[i] \ unstored[i] \subseteq DOMAIN costTable
    /\ revised[i] = {} /\ i \notin crossed =>
          /\ pc[i] \in {"storing", "reporting"} =>
                \A e \in DOMAIN data[i] \ unstored[i] : costTable[e] = bill[e]
          /\ pc[i] = "done" =>
                \A e \in DOMAIN bill : e[2] \in DaysAsked(asked[i]) =>
                    e \in DOMAIN costTable /\ costTable[e] = bill[e]

\* Rows that nobody else has put since an invocation began are of days it knows.
RowsOK(i) ==
    Active(i) => \A s \in DOMAIN rows \ (overtaken[i] \cup withdrawn) :
        /\ rows[s].told.day < asked[i]
        /\ rows[s].told.day \in DaysRead(i) => <<s, rows[s].told.day>> \in DOMAIN data[i]

TodoOK(i) ==
    /\ todo[i] \subseteq Anomalies(data[i], -Slack)
    /\ pc[i] \in {"reading", "storing"} => told[i] = {}
    /\ pc[i] = "reporting" =>
          /\ told[i] \subseteq Anomalies(data[i], -Slack)
          /\ Anomalies(data[i], Slack) \subseteq todo[i] \cup told[i]
    /\ today = asked[i] => \A s \in told[i] : s \in DOMAIN rows /\ rows[s].at >= asked[i]

DoneOK(i) ==
    pc[i] = "done" => \A s \in Services \ revised[i] :
        /\ IsSpike(CostsOf(Shown(i), s), Slack) => s \in told[i]
        /\ s \in told[i] => IsSpike(CostsOf(Shown(i), s), -Slack)

SlotOK(i) == LateOK(i) /\ DataOK(i) /\ StoredOK(i) /\ RowsOK(i) /\ TodoOK(i) /\ DoneOK(i)

CostInv ==
    /\ CostTypeOK /\ BillOK /\ TableOK /\ BackedByTheTable
    /\ \A i \in Slots : SlotOK(i)

LEMMA DaysAskedAre ==
    ASSUME NEW end \in Int
    PROVE  \A d : d \in DaysAsked(end) => d \in Days /\ d \in Nat /\ d < end
  BY Constants DEF DaysAsked, Days

LEMMA SlotType ==
    ASSUME CostTypeOK, NEW i \in Slots
    PROVE  /\ today \in 1..(LastDay + 1) /\ today \in Nat /\ asked[i] \in 1..today /\ asked[i] \in Nat
           /\ unread[i] \subseteq Days /\ todo[i] \subseteq Services /\ told[i] \subseteq Services
           /\ revised[i] \subseteq Services /\ overtaken[i] \subseteq Services
           /\ IsCharges(data[i]) /\ unstored[i] \subseteq DOMAIN data[i]
           /\ pc[i] \in {"idle", "reading", "storing", "reporting", "done", "raised"}
           /\ pc[i] # "reading" => unread[i] = {}
           /\ pc[i] # "storing" => unstored[i] = {}
           /\ pc[i] # "reporting" => todo[i] = {}
           /\ ~Active(i) => data[i] = NoCharges
  BY Constants DEF CostTypeOK

\* The sight of an anomaly is within what the invocation read, and its day the last.
LEMMA SightIs ==
    ASSUME CostInv, NEW i \in Slots, NEW s \in todo[i]
    PROVE  /\ s \in Services
           /\ LET t == Sight(CostsOf(data[i], s)) IN
              /\ t.day \in DaysRead(i) /\ t.day \in Days /\ t.day < asked[i]
              /\ \A d \in t.before \cup {t.day} : <<s, d>> \in DOMAIN data[i]
              /\ \A d \in Days : <<s, d>> \in DOMAIN data[i] => d <= t.day
  <1> DEFINE read == data[i]
             costs == CostsOf(read, s)
  <1>0. SlotOK(i) /\ asked[i] \in Int
    BY SlotType DEF CostInv
  <1>1. s \in Services /\ Cardinality(DOMAIN costs) >= 2
    BY <1>0 DEF SlotOK, TodoOK, Anomalies
  <1>2. DOMAIN costs \subseteq Days
    <2> HIDE DEF read
    <2> QED
      BY DaysOfCosts
  <1>3. DOMAIN costs # {}
    <2>1. SUFFICES ASSUME DOMAIN costs = {} PROVE FALSE
      OBVIOUS
    <2>2. Cardinality(DOMAIN costs) = 0
      BY <2>1, FS_EmptySet
    <2> QED
      BY <1>1, <2>2
  <1>4. /\ Latest(costs) \in DOMAIN costs /\ PriorDays(costs) \subseteq DOMAIN costs
        /\ \A d \in DOMAIN costs : d <= Latest(costs)
    BY <1>2, <1>3, LatestIsLast DEF PriorDays
  <1>5. Sight(costs).day = Latest(costs) /\ Sight(costs).before = PriorDays(costs)
    BY DEF Sight
  <1>6. \A d \in DOMAIN costs :
          <<s, d>> \in DOMAIN data[i] /\ d \in DaysRead(i) /\ d \in Days /\ d < asked[i]
    <2>1. SUFFICES ASSUME NEW d \in DOMAIN costs
                   PROVE  <<s, d>> \in DOMAIN data[i] /\ d \in DaysRead(i) /\ d \in Days /\ d < asked[i]
      OBVIOUS
    <2>2. <<s, d>> \in DOMAIN data[i] /\ d \in Days
      <3> HIDE DEF read
      <3>1. <<s, d>> \in DOMAIN read /\ d \in Days
        BY DaysOfCosts
      <3> QED
        BY <3>1 DEF read
    <2>3. d \in DaysRead(i)
      BY <1>0, <2>2 DEF SlotOK, DataOK, On
    <2> QED
      BY <1>0, <2>2, <2>3, DaysAskedAre DEF DaysRead
  <1>7. \A d \in Days : <<s, d>> \in DOMAIN data[i] => d \in DOMAIN costs
    <2>1. \A d \in Days : <<s, d>> \in DOMAIN read => d \in DOMAIN costs
      <3> HIDE DEF read
      <3> QED
        BY DaysOfCosts
    <2> QED
      BY <2>1 DEF read
  <1> HIDE DEF costs
  <1>8. Sight(costs).before \cup {Sight(costs).day} \subseteq DOMAIN costs
    BY <1>4, <1>5
  <1>9. /\ Sight(costs).day \in DaysRead(i) /\ Sight(costs).day \in Days /\ Sight(costs).day < asked[i]
        /\ \A d \in Sight(costs).before \cup {Sight(costs).day} : <<s, d>> \in DOMAIN data[i]
        /\ \A d \in Days : <<s, d>> \in DOMAIN data[i] => d <= Sight(costs).day
    BY <1>4, <1>5, <1>6, <1>7, <1>8
  <1> QED
    BY <1>1, <1>9 DEF costs

LEMMA PutRowIs ==
    ASSUME NEW i, NEW s, PutRow(i, s)
    PROVE  /\ DOMAIN rows' = DOMAIN rows \cup {s}
           /\ rows'[s].told = Sight(CostsOf(data[i], s))
           /\ rows'[s].severity \in Severities(Sight(CostsOf(data[i], s)))
           /\ rows'[s].first =
                IF s \in DOMAIN rows THEN rows[s].first ELSE Sight(CostsOf(data[i], s))
           /\ rows'[s].at = today
           /\ \A x \in DOMAIN rows \ {s} : rows'[x] = rows[x]
  <1> DEFINE t == Sight(CostsOf(data[i], s))
  <1>1. PICK severity \in Severities(t) :
          rows' = [x \in DOMAIN rows \cup {s} |-> IF x = s THEN RowOf(s, t, severity) ELSE rows[x]]
    BY DEF PutRow, SeveritiesOf
  <1>2. /\ DOMAIN rows' = DOMAIN rows \cup {s} /\ rows'[s] = RowOf(s, t, severity)
        /\ \A x \in DOMAIN rows \ {s} : rows'[x] = rows[x]
    BY <1>1
  <1> QED
    BY <1>2 DEF RowOf

\* A row put is typed and backed by the table, and sets the day back only where
\* another invocation has told of the service and its bill has changed.
LEMMA PutRowKeeps ==
    ASSUME CostInv, NEW i \in Slots, NEW s \in todo[i], PutRow(i, s),
           UNCHANGED <<today, costTable>>
    PROVE  /\ BackedByTheTable'
           /\ DOMAIN rows' \subseteq Services /\ s \in DOMAIN rows' /\ rows'[s].at = today
           /\ \A x \in DOMAIN rows' :
                /\ rows'[x].severity \in {"CRITICAL", "HIGH"}
                /\ rows'[x].at \in 1..today
                /\ x # s => x \in DOMAIN rows /\ rows'[x] = rows[x]
           /\ rows'[s].told.day \in DaysRead(i) /\ rows'[s].told.day < asked[i]
           /\ <<s, rows'[s].told.day>> \in DOMAIN data[i]
           /\ s \in DOMAIN rows \ withdrawn /\ s \notin overtaken[i] \cap revised[i] =>
                rows[s].told.day <= rows'[s].told.day
  <1> DEFINE t == Sight(CostsOf(data[i], s))
  <1>1. /\ s \in Services /\ t.day \in DaysRead(i) /\ t.day \in Days /\ t.day < asked[i]
        /\ \A d \in t.before \cup {t.day} : <<s, d>> \in DOMAIN data[i]
        /\ \A d \in Days : <<s, d>> \in DOMAIN data[i] => d <= t.day
    BY SightIs
  <1>2. /\ DOMAIN rows' = DOMAIN rows \cup {s} /\ rows'[s].told = t
        /\ rows'[s].severity \in {"CRITICAL", "HIGH"} /\ rows'[s].at = today
        /\ \A x \in DOMAIN rows \ {s} : rows'[x] = rows[x]
    BY PutRowIs DEF Severities
  <1> HIDE DEF t
  <1>3. /\ SlotOK(i) /\ pc[i] = "reporting" /\ unstored[i] = {} /\ unread[i] = {}
        /\ today \in Nat /\ asked[i] \in 1..today /\ asked[i] \in Nat
    BY SlotType DEF CostInv
  <1>4. DOMAIN data[i] \subseteq DOMAIN costTable
    BY <1>3 DEF SlotOK, StoredOK
  <1>5. BackedByTheTable'
    BY <1>1, <1>2, <1>4 DEF CostInv, BackedByTheTable
  <1>6. \A x \in DOMAIN rows' :
          /\ rows'[x].severity \in {"CRITICAL", "HIGH"} /\ rows'[x].at \in 1..today
          /\ x # s => x \in DOMAIN rows /\ rows'[x] = rows[x]
    <2>1. \A x \in DOMAIN rows : rows[x].severity \in {"CRITICAL", "HIGH"} /\ rows[x].at \in 1..today
      BY DEF CostInv, CostTypeOK
    <2>2. today \in 1..today
      BY <1>3
    <2> QED
      BY <1>2, <2>1, <2>2
  <1>7. ASSUME s \in DOMAIN rows \ withdrawn, s \notin overtaken[i] \cap revised[i]
        PROVE  rows[s].told.day <= t.day
    <2> DEFINE d == rows[s].told.day
    <2>1. <<s, d>> \in DOMAIN costTable /\ <<s, d>>[1] = s /\ <<s, d>>[2] = d
      BY <1>7 DEF CostInv, BackedByTheTable
    <2>2. <<s, d>> \in DOMAIN bill /\ <<s, d>> \in Entries /\ d \in Days
      BY <1>7, <2>1 DEF CostInv, TableOK, CostTypeOK, IsCharges, Entries
    <2>3. /\ d < asked[i]
          /\ d \in DaysRead(i) => <<s, d>> \in DOMAIN data[i]
      <3>1. CASE s \notin revised[i]
        BY <1>3, <2>1, <2>2, <3>1 DEF SlotOK, LateOK, DataOK
      <3>2. CASE s \notin overtaken[i]
        BY <1>3, <1>7, <3>2 DEF SlotOK, RowsOK
      <3> QED
        BY <1>7, <3>1, <3>2
    <2> HIDE DEF d
    <2>4. ASSUME d \in DaysRead(i) PROVE d <= t.day
      BY <1>1, <2>2, <2>3, <2>4
    <2>5. ASSUME d \notin DaysRead(i) PROVE d <= t.day
      <3>1. d \notin DaysAsked(asked[i])
        BY <1>3, <2>5 DEF DaysRead
      <3>2. t.day \in DaysAsked(asked[i])
        BY <1>1 DEF DaysRead
      <3>3. t.day \in Int /\ asked[i] - History <= t.day
        BY <3>2 DEF DaysAsked, Days
      <3>4. d \in Int /\ ~(asked[i] - History <= d)
        BY <2>2, <2>3, <3>1 DEF DaysAsked, Days
      <3> QED
        BY <1>3, <3>3, <3>4, Constants
    <2> QED
      BY <2>4, <2>5 DEF d
  <1>8. DOMAIN rows' \subseteq Services
    BY <1>1, <1>2 DEF CostInv, CostTypeOK
  <1> QED
    BY <1>1, <1>2, <1>5, <1>6, <1>7, <1>8
-----------------------------------------------------------------------------
(* Every step keeps the invariant. *)

LEMMA CostInitInv == CostInit => CostInv
  <1>1. SUFFICES ASSUME CostInit PROVE CostInv
    OBVIOUS
  <1>2. today \in 1..(LastDay + 1) /\ today \in 1..today
    <2>1. today \in 1..(LastDay + 1)
      BY <1>1 DEF CostInit
    <2> QED
      BY <2>1, Constants
  <1>3. /\ pc = [i \in Slots |-> "idle"] /\ asked = [i \in Slots |-> today]
        /\ data = [i \in Slots |-> NoCharges] /\ unread = [i \in Slots |-> {}]
        /\ unstored = [i \in Slots |-> {}] /\ todo = [i \in Slots |-> {}]
        /\ told = [i \in Slots |-> {}] /\ revised = [i \in Slots |-> {}]
        /\ overtaken = [i \in Slots |-> {}]
        /\ costTable = NoCharges /\ DOMAIN rows = {} /\ crossed = {} /\ withdrawn = {}
        /\ IsCharges(bill) /\ DOMAIN bill \subseteq On({d \in Days : d < today})
    BY <1>1 DEF CostInit
  <1>4. CostTypeOK
    BY <1>2, <1>3, NoChargesIs DEF CostTypeOK
  <1>5. BillOK /\ TableOK /\ BackedByTheTable
    BY <1>3, NoChargesIs DEF BillOK, TableOK, BackedByTheTable
  <1>6. ASSUME NEW i \in Slots PROVE SlotOK(i)
    <2>1. LateOK(i)
      BY <1>3 DEF LateOK, On
    <2>2. DataOK(i) /\ StoredOK(i) /\ RowsOK(i) /\ TodoOK(i) /\ DoneOK(i)
      BY <1>3, NoChargesIs DEF DataOK, StoredOK, RowsOK, TodoOK, DoneOK
    <2> QED
      BY <2>1, <2>2 DEF SlotOK
  <1> QED
    BY <1>4, <1>5, <1>6 DEF CostInv

\* What a step leaves alone of the invocation in a slot.
Same(i) ==
    /\ pc'[i] = pc[i] /\ asked'[i] = asked[i] /\ unread'[i] = unread[i] /\ data'[i] = data[i]
    /\ unstored'[i] = unstored[i] /\ todo'[i] = todo[i]
    /\ told'[i] = told[i] /\ revised'[i] = revised[i]

\* An invocation whose own state is left alone keeps its part of the invariant, if
\* what others store agrees with the bill and the rows they put are noted.
LEMMA OthersKeep ==
    ASSUME CostInv, NEW i \in Slots, Same(i), UNCHANGED <<today, bill, withdrawn>>,
           overtaken[i] \subseteq overtaken'[i], i \in crossed => i \in crossed',
           DOMAIN costTable \subseteq DOMAIN costTable',
           i \notin crossed' /\ revised[i] = {} =>
              \A e \in DOMAIN costTable : costTable[e] = bill[e] => costTable'[e] = bill[e],
           \A s \in DOMAIN rows' \ overtaken'[i] : s \in DOMAIN rows /\ rows'[s] = rows[s],
           \A s \in DOMAIN rows : s \in DOMAIN rows' /\ (rows'[s] = rows[s] \/ rows'[s].at = today)
    PROVE  SlotOK(i)'
  <1>1. SlotOK(i)
    BY DEF CostInv
  <1>2. DaysRead(i)' = DaysRead(i) /\ Active(i)' = Active(i) /\ Shown(i)' = Shown(i)
    BY DEF Same, DaysRead, Shown
  <1>3. LateOK(i)' /\ DataOK(i)' /\ DoneOK(i)'
    BY <1>1, <1>2 DEF SlotOK, LateOK, DataOK, DoneOK, Same
  <1>4. StoredOK(i)'
    BY <1>1 DEF SlotOK, StoredOK, Same
  <1>5. RowsOK(i)'
    BY <1>1, <1>2 DEF SlotOK, RowsOK, Same
  <1>6. TodoOK(i)'
    <2>1. today \in Nat
      BY SlotType DEF CostInv
    <2>2. today = asked[i] => \A s \in told[i] : s \in DOMAIN rows' /\ rows'[s].at >= asked[i]
      BY <1>1, <2>1 DEF SlotOK, TodoOK
    <2> QED
      BY <1>1, <2>2 DEF SlotOK, TodoOK, Same
  <1> QED
    BY <1>3, <1>4, <1>5, <1>6 DEF SlotOK

\* A step that writes no table.
LEMMA OthersKeepSimply ==
    ASSUME CostInv, NEW i \in Slots, Same(i),
           UNCHANGED <<today, bill, withdrawn, costTable, rows>>,
           overtaken'[i] = overtaken[i], i \in crossed <=> i \in crossed'
    PROVE  SlotOK(i)'
  BY OthersKeep

\* What CostTypeOK says of one slot.
Typed(i) ==
    /\ IsCharges(data[i]) /\ unstored[i] \subseteq DOMAIN data[i]
    /\ pc[i] # "reading" => unread[i] = {}
    /\ pc[i] # "storing" => unstored[i] = {}
    /\ pc[i] # "reporting" => todo[i] = {}
    /\ ~Active(i) => data[i] = NoCharges

LEMMA TypedSlots ==
    ASSUME CostTypeOK, NEW i \in Slots, Typed(i)', \A k \in Slots \ {i} : Same(k)
    PROVE  \A k \in Slots : Typed(k)'
  BY DEF CostTypeOK, Typed, Same

\* The state of one slot changes, and no table.
LEMMA OneSlotKeeps ==
    ASSUME CostInv, NEW i \in Slots, CostTypeOK', SlotOK(i)',
           UNCHANGED <<today, bill, withdrawn, costTable, rows>>,
           \A k \in Slots \ {i} : Same(k) /\ overtaken'[k] = overtaken[k] /\ (k \in crossed <=> k \in crossed')
    PROVE  CostInv'
  <1>1. BillOK' /\ TableOK' /\ BackedByTheTable'
    BY DEF CostInv, BillOK, TableOK, BackedByTheTable
  <1>2. \A k \in Slots \ {i} : SlotOK(k)'
    BY OthersKeepSimply
  <1> QED
    BY <1>1, <1>2 DEF CostInv

LEMMA BeginKeeps ==
    ASSUME CostInv, NEW i \in Slots, Begin(i)
    PROVE  CostInv'
  <1>1. /\ CostTypeOK /\ today \in 1..(LastDay + 1) /\ today \in 1..today /\ today \in Nat
        /\ data[i] = NoCharges /\ unstored[i] = {} /\ todo[i] = {}
    BY SlotType DEF CostInv, Begin
  <1>2. /\ pc'[i] = "reading" /\ asked'[i] = today /\ unread'[i] = DaysAsked(today)
        /\ told'[i] = {} /\ revised'[i] = {} /\ overtaken'[i] = {}
        /\ data'[i] = NoCharges /\ unstored'[i] = {} /\ todo'[i] = {}
    BY <1>1 DEF Begin, CostTypeOK
  <1>3. /\ UNCHANGED <<today, bill, withdrawn, data, unstored, todo, costTable, rows>>
        /\ crossed' = crossed \ {i}
        /\ \A k \in Slots \ {i} : Same(k) /\ overtaken'[k] = overtaken[k]
    BY <1>1 DEF Begin, Same, CostTypeOK
  <1>4. DaysAsked(today) \subseteq Days
    BY DEF DaysAsked
  <1>5. CostTypeOK'
    <2>1. Typed(i)'
      BY <1>2, NoChargesIs DEF Typed
    <2>2. \A k \in Slots : Typed(k)'
      BY <1>1, <1>3, <2>1, TypedSlots
    <2>3. /\ pc' \in [Slots -> {"idle", "reading", "storing", "reporting", "done", "raised"}]
          /\ asked' \in [Slots -> 1..today] /\ unread' \in [Slots -> SUBSET Days]
      BY <1>1, <1>4 DEF Begin, CostTypeOK
    <2>4. /\ told' \in [Slots -> SUBSET Services] /\ revised' \in [Slots -> SUBSET Services]
          /\ overtaken' \in [Slots -> SUBSET Services]
      BY <1>1 DEF Begin, CostTypeOK
    <2> QED
      BY <1>1, <1>3, <2>2, <2>3, <2>4 DEF CostTypeOK, Typed
  <1>6. DaysRead(i)' = {}
    BY <1>2 DEF DaysRead
  <1>7. \A e \in DOMAIN bill : e[2] < today
    BY DEF CostInv, BillOK, On
  <1>8. \A s \in DOMAIN rows \ withdrawn : rows[s].told.day < today
    <2>1. SUFFICES ASSUME NEW s \in DOMAIN rows \ withdrawn PROVE rows[s].told.day < today
      OBVIOUS
    <2>2. <<s, rows[s].told.day>> \in DOMAIN costTable
      BY DEF CostInv, BackedByTheTable
    <2>3. <<s, rows[s].told.day>> \in DOMAIN bill
      BY <2>2 DEF CostInv, TableOK
    <2> QED
      BY <1>7, <2>3
  <1>9. SlotOK(i)'
    <2>1. LateOK(i)' /\ RowsOK(i)'
      BY <1>2, <1>3, <1>6, <1>7, <1>8 DEF LateOK, RowsOK
    <2>2. DataOK(i)' /\ StoredOK(i)' /\ TodoOK(i)' /\ DoneOK(i)'
      BY <1>2, <1>3, <1>6, NoChargesIs DEF DataOK, StoredOK, TodoOK, DoneOK
    <2> QED
      BY <2>1, <2>2 DEF SlotOK
  <1> QED
    BY <1>3, <1>5, <1>9, OneSlotKeeps

LEMMA ReadPageKeeps ==
    ASSUME CostInv, NEW i \in Slots, ReadPage(i)
    PROVE  CostInv'
  <1>0. CostTypeOK /\ SlotOK(i)
    BY DEF CostInv
  <1>1. PICK last \in unread[i] : LET read == {d \in unread[i] : d <= last} IN
          AddPage(i, Only(bill, On(read))) /\ unread' = [unread EXCEPT ![i] = @ \ read]
    BY DEF ReadPage
  <1> DEFINE read == {d \in unread[i] : d <= last}
  <1>2. /\ data' = [data EXCEPT ![i] = Overlay(@, Only(bill, On(read)))]
        /\ unread' = [unread EXCEPT ![i] = @ \ read]
    BY <1>1 DEF AddPage
  <1>3. /\ pc[i] = "reading"
        /\ UNCHANGED <<today, bill, pc, asked, unstored, todo, costTable, rows,
                       told, revised, overtaken, crossed, withdrawn>>
    BY DEF ReadPage
  <1>4. /\ unstored[i] = {} /\ todo[i] = {} /\ read \subseteq unread[i]
        /\ unread[i] \subseteq DaysAsked(asked[i]) /\ IsCharges(data[i]) /\ IsCharges(bill)
    BY <1>0, <1>3, SlotType DEF SlotOK, DataOK, CostTypeOK
  <1> HIDE DEF read
  <1>5. /\ DOMAIN data'[i] = DOMAIN data[i] \cup (DOMAIN bill \cap On(read))
        /\ \A e \in DOMAIN bill \cap On(read) : data'[i][e] = bill[e]
        /\ \A e \in DOMAIN data[i] \ (DOMAIN bill \cap On(read)) : data'[i][e] = data[i][e]
        /\ IsCharges(data'[i])
    <2> DEFINE page == Only(bill, On(read))
               old == data[i]
    <2>2. /\ DOMAIN page = DOMAIN bill \cap On(read)
          /\ \A e \in DOMAIN bill \cap On(read) : page[e] = bill[e]
          /\ IsCharges(page)
      BY <1>4, OnlyIs
    <2>3. /\ DOMAIN Overlay(old, page) = DOMAIN old \cup DOMAIN page
          /\ \A e \in DOMAIN page : Overlay(old, page)[e] = page[e]
          /\ \A e \in DOMAIN old \ DOMAIN page : Overlay(old, page)[e] = old[e]
          /\ IsCharges(old) /\ IsCharges(page) => IsCharges(Overlay(old, page))
      BY OverlayIs
    <2>4. data'[i] = Overlay(old, page)
      BY <1>0, <1>2 DEF CostTypeOK
    <2> HIDE DEF page
    <2> QED
      BY <1>4, <2>2, <2>3, <2>4
  <1>6. unread'[i] = unread[i] \ read /\ DaysRead(i)' = DaysRead(i) \cup read
    <2>1. unread'[i] = unread[i] \ read
      BY <1>0, <1>2 DEF CostTypeOK
    <2> QED
      BY <1>3, <1>4, <2>1 DEF DaysRead
  <1>7. \A k \in Slots \ {i} : Same(k)
    BY <1>0, <1>2, <1>3 DEF Same, CostTypeOK
  <1>8. CostTypeOK'
    <2>1. Typed(i)'
      BY <1>3, <1>4, <1>5 DEF Typed
    <2>2. \A k \in Slots : Typed(k)'
      BY <1>0, <1>7, <2>1, TypedSlots
    <2>3. unread' \in [Slots -> SUBSET Days] /\ DOMAIN data' = Slots
      BY <1>0, <1>2 DEF CostTypeOK
    <2> QED
      BY <1>0, <1>3, <2>2, <2>3 DEF CostTypeOK, Typed
  <1>9. DataOK(i)'
    <2>1. DOMAIN data'[i] \subseteq On(DaysRead(i)')
      BY <1>0, <1>5, <1>6 DEF SlotOK, DataOK, On
    <2>2. \A e \in DOMAIN data'[i] : e[1] \notin withdrawn => e \in DOMAIN bill
      BY <1>0, <1>5 DEF SlotOK, DataOK
    <2>3. ASSUME NEW e \in Entries, e[2] \in DaysRead(i)', e[1] \notin revised[i]
          PROVE  /\ e \in DOMAIN data'[i] <=> e \in DOMAIN bill
                 /\ e \in DOMAIN bill => data'[i][e] = bill[e]
      <3>1. CASE e \in On(read)
        <4>1. e \in DOMAIN data[i] => e \in DOMAIN bill
          <5>1. e[2] \in DaysRead(i) => (e \in DOMAIN data[i] <=> e \in DOMAIN bill)
            BY <1>0, <1>3, <2>3 DEF SlotOK, DataOK
          <5>2. e \in DOMAIN data[i] => e[2] \in DaysRead(i)
            BY <1>0 DEF SlotOK, DataOK, On
          <5> QED
            BY <5>1, <5>2
        <4> QED
          BY <1>5, <3>1, <4>1
      <3>2. CASE e \notin On(read)
        <4>1. e[2] \in DaysRead(i)
          BY <1>6, <2>3, <3>2 DEF On, Entries
        <4>2. /\ e \in DOMAIN data[i] <=> e \in DOMAIN bill
              /\ e \in DOMAIN bill => data[i][e] = bill[e]
          BY <1>0, <1>3, <2>3, <4>1 DEF SlotOK, DataOK
        <4> QED
          BY <1>5, <3>2, <4>2
      <3> QED
        BY <3>1, <3>2
    <2>4. unread'[i] \subseteq DaysAsked(asked[i])
      BY <1>4, <1>6
    <2> QED
      BY <1>3, <2>1, <2>2, <2>3, <2>4 DEF DataOK
  <1>10. RowsOK(i)'
    <2>1. ASSUME NEW s \in DOMAIN rows \ (overtaken[i] \cup withdrawn),
                 rows[s].told.day \in DaysRead(i)'
          PROVE  <<s, rows[s].told.day>> \in DOMAIN data'[i]
      <3> DEFINE d == rows[s].told.day
      <3>1. CASE d \in DaysRead(i)
        BY <1>0, <1>3, <1>5, <3>1 DEF SlotOK, RowsOK
      <3>2. CASE d \in read
        <4>1. <<s, d>> \in DOMAIN costTable
          BY DEF CostInv, BackedByTheTable
        <4>2. <<s, d>> \in DOMAIN bill /\ s \in Services
          BY <4>1, <1>0 DEF CostInv, TableOK, CostTypeOK
        <4> HIDE DEF d
        <4>3. <<s, d>> \in On(read)
          BY <3>2, <4>2 DEF On
        <4> QED
          BY <1>5, <4>2, <4>3 DEF d
      <3> QED
        BY <1>6, <2>1, <3>1, <3>2
    <2> QED
      BY <1>0, <1>3, <2>1 DEF SlotOK, RowsOK
  <1>11. LateOK(i)' /\ StoredOK(i)' /\ TodoOK(i)' /\ DoneOK(i)'
    BY <1>0, <1>3, <1>4 DEF SlotOK, LateOK, StoredOK, TodoOK, DoneOK
  <1>12. SlotOK(i)'
    BY <1>9, <1>10, <1>11 DEF SlotOK
  <1> QED
    BY <1>3, <1>7, <1>8, <1>12, OneSlotKeeps

LEMMA LastPageReadKeeps ==
    ASSUME CostInv, NEW i \in Slots, LastPageRead(i)
    PROVE  CostInv'
  <1>0. CostTypeOK /\ SlotOK(i)
    BY DEF CostInv
  <1>1. /\ pc[i] = "reading" /\ unread[i] = {} /\ pc' = [pc EXCEPT ![i] = "storing"]
        /\ unstored' = [unstored EXCEPT ![i] = DOMAIN data[i]]
        /\ UNCHANGED <<today, bill, asked, unread, data, todo, costTable, rows,
                       told, revised, overtaken, crossed, withdrawn>>
    BY DEF LastPageRead, StartStoring
  <1>2. /\ todo[i] = {} /\ DaysRead(i)' = DaysRead(i)
        /\ pc'[i] = "storing" /\ unstored'[i] = DOMAIN data[i]
    BY <1>0, <1>1, SlotType DEF DaysRead, CostTypeOK
  <1>3. \A k \in Slots \ {i} : Same(k)
    BY <1>0, <1>1 DEF Same, CostTypeOK
  <1>4. CostTypeOK'
    <2>1. Typed(i)'
      BY <1>0, <1>1, <1>2, SlotType DEF Typed
    <2>2. \A k \in Slots : Typed(k)'
      BY <1>0, <1>3, <2>1, TypedSlots
    <2>3. /\ pc' \in [Slots -> {"idle", "reading", "storing", "reporting", "done", "raised"}]
          /\ DOMAIN unstored' = Slots
      BY <1>0, <1>1 DEF CostTypeOK
    <2> QED
      BY <1>0, <1>1, <2>2, <2>3 DEF CostTypeOK, Typed
  <1>5. LateOK(i)' /\ DataOK(i)' /\ RowsOK(i)'
    BY <1>0, <1>1, <1>2 DEF SlotOK, LateOK, DataOK, RowsOK
  <1>6. StoredOK(i)' /\ TodoOK(i)' /\ DoneOK(i)'
    BY <1>0, <1>1, <1>2 DEF SlotOK, StoredOK, TodoOK, DoneOK
  <1>7. SlotOK(i)'
    BY <1>5, <1>6 DEF SlotOK
  <1> QED
    BY <1>1, <1>3, <1>4, <1>7, OneSlotKeeps

\* Charges put are those read, and nothing else changes in the table.
LEMMA PutIs ==
    ASSUME CostInv, NEW i \in Slots, NEW part \in SUBSET DOMAIN data[i], PutCharges(i, part)
    PROVE  /\ DOMAIN costTable' = DOMAIN costTable \cup part
           /\ \A e \in part : costTable'[e] = data[i][e]
           /\ \A e \in DOMAIN costTable \ part : costTable'[e] = costTable[e]
           /\ IsCharges(costTable')
  <1>1. IsCharges(costTable) /\ IsCharges(data[i])
    BY DEF CostInv, CostTypeOK
  <1> DEFINE new == Only(data[i], part)
             old == data[i]
  <1>2. DOMAIN old \cap part = part
    OBVIOUS
  <1>3. DOMAIN new = part /\ IsCharges(new) /\ \A e \in part : new[e] = data[i][e]
    <2>1. /\ DOMAIN Only(old, part) = DOMAIN old \cap part
          /\ \A e \in DOMAIN old \cap part : Only(old, part)[e] = old[e]
          /\ IsCharges(old) => IsCharges(Only(old, part))
      BY OnlyIs
    <2> QED
      BY <1>1, <1>2, <2>1
  <1>4. /\ DOMAIN Overlay(costTable, new) = DOMAIN costTable \cup DOMAIN new
        /\ \A e \in DOMAIN new : Overlay(costTable, new)[e] = new[e]
        /\ \A e \in DOMAIN costTable \ DOMAIN new : Overlay(costTable, new)[e] = costTable[e]
        /\ IsCharges(costTable) /\ IsCharges(new) => IsCharges(Overlay(costTable, new))
    BY OverlayIs
  <1>5. costTable' = Overlay(costTable, new)
    BY DEF PutCharges
  <1> HIDE DEF new
  <1> QED
    BY <1>1, <1>3, <1>4, <1>5

\* Charges that agree with the bill are put unless the slot's bill was revised, and
\* then the others are noted as crossed.
LEMMA PutKeeps ==
    ASSUME CostInv, NEW i \in Slots, NEW part \in SUBSET unstored[i],
           PutCharges(i, part), NoteCharges(i), UNCHANGED <<today, bill, withdrawn, rows>>,
           \A k \in Slots \ {i} : Same(k)
    PROVE  /\ TableOK' /\ BackedByTheTable'
           /\ \A k \in Slots \ {i} : SlotOK(k)'
           /\ DOMAIN costTable' = DOMAIN costTable \cup part
           /\ IsCharges(costTable')
           /\ \A e \in part : costTable'[e] = data[i][e]
           /\ \A e \in DOMAIN costTable \ part : costTable'[e] = costTable[e]
           /\ revised[i] = {} => \A e \in part : data[i][e] = bill[e]
           /\ UNCHANGED <<told, overtaken>> /\ crossed' \in SUBSET Slots
           /\ i \in crossed <=> i \in crossed'
  <1>1. CostTypeOK /\ SlotOK(i) /\ part \in SUBSET DOMAIN data[i]
    BY SlotType DEF CostInv
  <1>2. /\ DOMAIN costTable' = DOMAIN costTable \cup part
        /\ \A e \in part : costTable'[e] = data[i][e]
        /\ \A e \in DOMAIN costTable \ part : costTable'[e] = costTable[e]
        /\ IsCharges(costTable')
    BY <1>1, PutIs
  <1>3. \A e \in part : e \in Entries /\ e[2] \in DaysRead(i) /\ Active(i)
    <2>1. part # {} => Active(i)
      BY SlotType DEF CostInv
    <2>2. part \subseteq On(DaysRead(i))
      BY <1>1 DEF SlotOK, DataOK
    <2>3. part \subseteq Entries
      BY <1>1, SlotType DEF IsCharges
    <2>4. \A e \in On(DaysRead(i)) : e[2] \in DaysRead(i)
      BY DEF On
    <2> QED
      BY <2>1, <2>2, <2>3, <2>4
  <1>4. revised[i] = {} => \A e \in part : data[i][e] = bill[e]
    BY <1>1, <1>3 DEF SlotOK, DataOK
  <1>5. /\ UNCHANGED <<told, overtaken>>
        /\ crossed' = crossed \cup {j \in Slots \ {i} : revised[i] # {}}
    BY DEF NoteCharges
  <1>6. TableOK' /\ BackedByTheTable'
    <2>1. TableOK'
      BY <1>1, <1>2 DEF CostInv, TableOK, SlotOK, DataOK
    <2>2. BackedByTheTable'
      BY <1>2 DEF CostInv, BackedByTheTable
    <2> QED
      BY <2>1, <2>2
  <1>7. ASSUME NEW k \in Slots \ {i} PROVE SlotOK(k)'
    <2>1. k \notin crossed' => \A e \in DOMAIN costTable :
            costTable[e] = bill[e] => costTable'[e] = bill[e]
      BY <1>2, <1>4, <1>5
    <2> QED
      BY <1>2, <1>5, <1>7, <2>1, OthersKeep
  <1>8. crossed' \in SUBSET Slots
    BY <1>1, <1>5 DEF CostTypeOK
  <1> QED
    BY <1>2, <1>4, <1>5, <1>6, <1>7, <1>8

LEMMA StoreChargesKeeps ==
    ASSUME CostInv, NEW i \in Slots, StoreCharges(i)
    PROVE  CostInv'
  <1>0. CostTypeOK /\ SlotOK(i)
    BY DEF CostInv
  <1>1. PICK part \in SUBSET unstored[i] :
          PutCharges(i, part) /\ unstored' = [unstored EXCEPT ![i] = @ \ part]
    BY DEF StoreCharges
  <1>2. /\ pc[i] = "storing" /\ NoteCharges(i)
        /\ UNCHANGED <<today, bill, pc, asked, unread, data, todo, rows, revised, withdrawn>>
    BY DEF StoreCharges
  <1>3. UNCHANGED told /\ unstored'[i] = unstored[i] \ part /\ DaysRead(i)' = DaysRead(i)
    BY <1>0, <1>1, <1>2 DEF CostTypeOK, NoteCharges, DaysRead
  <1>4. \A k \in Slots \ {i} : Same(k)
    BY <1>0, <1>1, <1>2, <1>3 DEF Same, CostTypeOK
  <1>5. /\ TableOK' /\ BackedByTheTable'
        /\ \A k \in Slots \ {i} : SlotOK(k)'
        /\ DOMAIN costTable' = DOMAIN costTable \cup part
        /\ IsCharges(costTable')
        /\ \A e \in part : costTable'[e] = data[i][e]
        /\ \A e \in DOMAIN costTable \ part : costTable'[e] = costTable[e]
        /\ revised[i] = {} => \A e \in part : data[i][e] = bill[e]
        /\ UNCHANGED <<told, overtaken>> /\ crossed' \in SUBSET Slots
        /\ i \in crossed <=> i \in crossed'
    BY <1>1, <1>2, <1>4, PutKeeps
  <1>6. CostTypeOK'
    <2>1. Typed(i)'
      BY <1>0, <1>2, <1>3, SlotType DEF Typed
    <2>2. \A k \in Slots : Typed(k)'
      BY <1>0, <1>4, <2>1, TypedSlots
    <2>3. DOMAIN unstored' = Slots
      BY <1>0, <1>1 DEF CostTypeOK
    <2> QED
      BY <1>0, <1>2, <1>5, <2>2, <2>3 DEF CostTypeOK, Typed
  <1>7. LateOK(i)' /\ DataOK(i)' /\ RowsOK(i)' /\ TodoOK(i)' /\ DoneOK(i)'
    BY <1>0, <1>2, <1>3, <1>5 DEF SlotOK, LateOK, DataOK, RowsOK, TodoOK, DoneOK
  <1>8. StoredOK(i)'
    <2>1. unstored[i] \subseteq DOMAIN data[i]
      BY <1>0, SlotType
    <2>2. DOMAIN data[i] \ unstored'[i] \subseteq DOMAIN costTable'
      BY <1>0, <1>2, <1>3, <1>5 DEF SlotOK, StoredOK
    <2>3. revised[i] = {} /\ i \notin crossed =>
            \A e \in DOMAIN data[i] \ unstored'[i] : costTable'[e] = bill[e]
      BY <1>0, <1>2, <1>3, <1>5, <2>1 DEF SlotOK, StoredOK
    <2> QED
      BY <1>2, <1>5, <2>2, <2>3 DEF StoredOK
  <1>9. BillOK'
    BY <1>2 DEF CostInv, BillOK
  <1> QED
    BY <1>5, <1>6, <1>7, <1>8, <1>9 DEF CostInv, SlotOK

LEMMA DetectKeeps ==
    ASSUME CostInv, NEW i \in Slots, Detect(i)
    PROVE  CostInv'
  <1>0. CostTypeOK /\ SlotOK(i)
    BY DEF CostInv
  <1>1. PICK found \in SUBSET Anomalies(data[i], -Slack) :
          Anomalies(data[i], Slack) \subseteq found /\ todo' = [todo EXCEPT ![i] = found]
    BY DEF Detect
  <1>2. /\ pc[i] = "storing" /\ unstored[i] = {} /\ pc' = [pc EXCEPT ![i] = "reporting"]
        /\ UNCHANGED <<today, bill, asked, unread, data, unstored, costTable, rows,
                       told, revised, overtaken, crossed, withdrawn>>
    BY DEF Detect
  <1>3. /\ unread[i] = {} /\ DaysRead(i)' = DaysRead(i) /\ told[i] = {}
        /\ pc'[i] = "reporting" /\ todo'[i] = found
    BY <1>0, <1>1, <1>2, SlotType DEF CostTypeOK, DaysRead, SlotOK, TodoOK
  <1>4. \A k \in Slots \ {i} : Same(k)
    BY <1>0, <1>1, <1>2 DEF Same, CostTypeOK
  <1>5. found \subseteq Services
    BY DEF Anomalies
  <1>6. CostTypeOK'
    <2>1. Typed(i)'
      BY <1>0, <1>2, <1>3, SlotType DEF Typed
    <2>2. \A k \in Slots : Typed(k)'
      BY <1>0, <1>4, <2>1, TypedSlots
    <2>3. /\ pc' \in [Slots -> {"idle", "reading", "storing", "reporting", "done", "raised"}]
          /\ todo' \in [Slots -> SUBSET Services]
      BY <1>0, <1>1, <1>2, <1>5 DEF CostTypeOK
    <2> QED
      BY <1>0, <1>2, <2>2, <2>3 DEF CostTypeOK, Typed
  <1>7. LateOK(i)' /\ DataOK(i)' /\ StoredOK(i)' /\ RowsOK(i)' /\ DoneOK(i)'
    BY <1>0, <1>2, <1>3 DEF SlotOK, LateOK, DataOK, StoredOK, RowsOK, DoneOK
  <1>8. TodoOK(i)'
    BY <1>1, <1>2, <1>3 DEF TodoOK
  <1>9. SlotOK(i)'
    BY <1>7, <1>8 DEF SlotOK
  <1> QED
    BY <1>2, <1>4, <1>6, <1>9, OneSlotKeeps

\* A row put by one slot is noted for the others.
LEMMA RowKeeps ==
    ASSUME CostInv, NEW i \in Slots, NEW s \in todo[i], PutRow(i, s), NoteRow(i, s),
           UNCHANGED <<today, bill, withdrawn, costTable>>,
           \A k \in Slots \ {i} : Same(k)
    PROVE  /\ \A k \in Slots \ {i} : SlotOK(k)'
           /\ told'[i] = told[i] \cup {s} /\ overtaken'[i] = overtaken[i] /\ UNCHANGED crossed
           /\ told' \in [Slots -> SUBSET Services] /\ overtaken' \in [Slots -> SUBSET Services]
  <1>1. CostTypeOK /\ s \in Services
    BY SlotType DEF CostInv
  <1>2. /\ told' = [told EXCEPT ![i] = @ \cup {s}] /\ UNCHANGED crossed
        /\ overtaken' = [j \in Slots |-> IF j = i THEN overtaken[j] ELSE overtaken[j] \cup {s}]
    BY DEF NoteRow
  <1>3. /\ DOMAIN rows' = DOMAIN rows \cup {s} /\ rows'[s].at = today
        /\ \A x \in DOMAIN rows \ {s} : rows'[x] = rows[x]
    BY PutRowIs
  <1>4. ASSUME NEW k \in Slots \ {i} PROVE SlotOK(k)'
    <2>1. overtaken'[k] = overtaken[k] \cup {s}
      BY <1>2
    <2> QED
      BY <1>2, <1>3, <2>1, OthersKeep
  <1>5. told' \in [Slots -> SUBSET Services] /\ overtaken' \in [Slots -> SUBSET Services]
    BY <1>1, <1>2 DEF CostTypeOK
  <1>6. told'[i] = told[i] \cup {s} /\ overtaken'[i] = overtaken[i]
    BY <1>1, <1>2 DEF CostTypeOK
  <1> QED
    BY <1>2, <1>4, <1>5, <1>6

LEMMA UpsertKeeps ==
    ASSUME CostInv, NEW i \in Slots, NEW s \in Services, Upsert(i, s)
    PROVE  CostInv'
  <1>0. CostTypeOK /\ SlotOK(i)
    BY DEF CostInv
  <1>1. /\ pc[i] = "reporting" /\ s \in todo[i] /\ PutRow(i, s) /\ NoteRow(i, s)
        /\ todo' = [todo EXCEPT ![i] = @ \ {s}]
        /\ UNCHANGED <<today, bill, pc, asked, unread, data, unstored, costTable, revised, withdrawn>>
    BY DEF Upsert
  <1>2. DaysRead(i)' = DaysRead(i) /\ todo'[i] = todo[i] \ {s} /\ asked[i] \in 1..today /\ today \in Nat
    BY <1>0, <1>1, SlotType DEF DaysRead, CostTypeOK
  <1>3. \A k \in Slots \ {i} : Same(k)
    BY <1>0, <1>1 DEF Same, CostTypeOK, NoteRow
  <1>4. /\ \A k \in Slots \ {i} : SlotOK(k)'
        /\ told'[i] = told[i] \cup {s} /\ overtaken'[i] = overtaken[i] /\ UNCHANGED crossed
        /\ told' \in [Slots -> SUBSET Services] /\ overtaken' \in [Slots -> SUBSET Services]
    BY <1>1, <1>3, RowKeeps
  <1>5. /\ BackedByTheTable'
        /\ DOMAIN rows' \subseteq Services /\ s \in DOMAIN rows' /\ rows'[s].at = today
        /\ \A x \in DOMAIN rows' :
             /\ rows'[x].severity \in {"CRITICAL", "HIGH"} /\ rows'[x].at \in 1..today
             /\ x # s => x \in DOMAIN rows /\ rows'[x] = rows[x]
        /\ rows'[s].told.day \in DaysRead(i) /\ rows'[s].told.day < asked[i]
        /\ <<s, rows'[s].told.day>> \in DOMAIN data[i]
    BY <1>1, PutRowKeeps
  <1>6. \A x \in DOMAIN rows : x # s => x \in DOMAIN rows' /\ rows'[x] = rows[x]
    <2>1. DOMAIN rows' = DOMAIN rows \cup {s} /\ \A x \in DOMAIN rows \ {s} : rows'[x] = rows[x]
      BY <1>1, PutRowIs
    <2> QED
      BY <2>1
  <1>7. CostTypeOK'
    <2>1. Typed(i)'
      BY <1>0, <1>1, SlotType DEF Typed
    <2>2. \A k \in Slots : Typed(k)'
      BY <1>0, <1>3, <2>1, TypedSlots
    <2>3. todo' \in [Slots -> SUBSET Services]
      BY <1>0, <1>1 DEF CostTypeOK
    <2> QED
      BY <1>0, <1>1, <1>4, <1>5, <2>2, <2>3 DEF CostTypeOK, Typed
  <1>8. BillOK' /\ TableOK'
    BY <1>1 DEF CostInv, BillOK, TableOK
  <1>9. LateOK(i)' /\ DataOK(i)' /\ StoredOK(i)' /\ DoneOK(i)'
    BY <1>0, <1>1, <1>2, <1>4 DEF SlotOK, LateOK, DataOK, StoredOK, DoneOK
  <1>10. RowsOK(i)'
    BY <1>0, <1>1, <1>2, <1>4, <1>5 DEF SlotOK, RowsOK
  <1>11. TodoOK(i)'
    <2>1. /\ todo'[i] \cup told'[i] = todo[i] \cup told[i]
          /\ told'[i] \subseteq Anomalies(data[i], -Slack) /\ todo'[i] \subseteq Anomalies(data[i], -Slack)
          /\ Anomalies(data[i], Slack) \subseteq todo'[i] \cup told'[i]
      BY <1>0, <1>1, <1>2, <1>4 DEF SlotOK, TodoOK
    <2>2. today = asked[i] => \A x \in told'[i] : x \in DOMAIN rows' /\ rows'[x].at >= asked[i]
      BY <1>0, <1>2, <1>4, <1>5, <1>6 DEF SlotOK, TodoOK
    <2> QED
      BY <1>1, <2>1, <2>2 DEF TodoOK
  <1> QED
    BY <1>4, <1>5, <1>7, <1>8, <1>9, <1>10, <1>11 DEF CostInv, SlotOK

\* A service whose bill was not revised: the data are what the bill shows.
LEMMA DataIsShown ==
    ASSUME CostInv, NEW i \in Slots, pc[i] \in {"storing", "reporting"},
           NEW s \in Services \ revised[i]
    PROVE  CostsOf(data[i], s) = CostsOf(Shown(i), s)
  <1> DEFINE shown == Shown(i)
             read == data[i]
  <1>0. SlotOK(i) /\ Active(i) /\ DaysRead(i) = DaysAsked(asked[i])
    BY SlotType DEF CostInv, DaysRead
  <1>2. /\ DOMAIN shown = DOMAIN bill \cap On(DaysAsked(asked[i]))
        /\ \A e \in DOMAIN bill \cap On(DaysAsked(asked[i])) : shown[e] = bill[e]
    BY OnlyIs DEF Shown
  <1>3. ASSUME NEW d \in Days
        PROVE  /\ <<s, d>> \in DOMAIN read <=> <<s, d>> \in DOMAIN shown
               /\ <<s, d>> \in DOMAIN read => read[<<s, d>>] = shown[<<s, d>>]
    <2> DEFINE e == <<s, d>>
    <2>1. e \in Entries /\ e[1] = s /\ e[2] = d
      BY DEF Entries
    <2>2. e \in On(DaysAsked(asked[i])) <=> d \in DaysAsked(asked[i])
      BY DEF On
    <2>3. d \in DaysAsked(asked[i]) =>
            (e \in DOMAIN read <=> e \in DOMAIN bill) /\ (e \in DOMAIN bill => read[e] = bill[e])
      BY <1>0, <2>1 DEF SlotOK, DataOK
    <2>4. e \in DOMAIN read => e \in On(DaysAsked(asked[i]))
      BY <1>0 DEF SlotOK, DataOK
    <2> HIDE DEF e, shown, read
    <2>5. (e \in DOMAIN read <=> e \in DOMAIN shown) /\ (e \in DOMAIN read => read[e] = shown[e])
      BY <1>2, <2>2, <2>3, <2>4
    <2> QED
      BY <2>5 DEF e
  <1> HIDE DEF shown, read
  <1>4. CostsOf(read, s) = CostsOf(shown, s)
    BY <1>3, SameCosts
  <1> QED
    BY <1>4 DEF shown, read

\* Being an anomaly of the data is being a spike of the bill that is shown.
LEMMA AnomaliesAreSpikes ==
    ASSUME CostInv, NEW i \in Slots, pc[i] \in {"storing", "reporting"},
           NEW s \in Services \ revised[i], NEW margin
    PROVE  s \in Anomalies(data[i], margin) <=> IsSpike(CostsOf(Shown(i), s), margin)
  <1> DEFINE read == data[i]
             costs == CostsOf(read, s)
  <1>1. s \in Anomalies(data[i], margin) <=>
          Cardinality(DOMAIN costs) >= 2 /\ IsAnomaly(Sight(costs), margin)
    BY DEF Anomalies
  <1>2. DOMAIN costs \subseteq Days
    <2> HIDE DEF read
    <2> QED
      BY DaysOfCosts
  <1>3. costs = CostsOf(Shown(i), s)
    BY DataIsShown
  <1> HIDE DEF costs
  <1> QED
    BY <1>1, <1>2, <1>3, AnomalyIsSpike

LEMMA FinishKeeps ==
    ASSUME CostInv, NEW i \in Slots, Finish(i)
    PROVE  CostInv'
  <1>0. CostTypeOK /\ SlotOK(i)
    BY DEF CostInv
  <1>1. /\ pc[i] = "reporting" /\ todo[i] = {} /\ pc' = [pc EXCEPT ![i] = "done"]
        /\ data' = [data EXCEPT ![i] = NoCharges]
        /\ UNCHANGED <<today, bill, asked, unread, unstored, todo, costTable, rows,
                       told, revised, overtaken, crossed, withdrawn>>
    BY DEF Finish
  <1>2. /\ unread[i] = {} /\ unstored[i] = {} /\ DaysRead(i) = DaysAsked(asked[i])
        /\ DaysRead(i)' = DaysRead(i) /\ pc'[i] = "done" /\ data'[i] = NoCharges
    BY <1>0, <1>1, SlotType DEF CostTypeOK, DaysRead
  <1>3. \A k \in Slots \ {i} : Same(k)
    BY <1>0, <1>1 DEF Same, CostTypeOK
  <1>4. CostTypeOK'
    <2>1. Typed(i)'
      BY <1>1, <1>2, NoChargesIs DEF Typed
    <2>2. \A k \in Slots : Typed(k)'
      BY <1>0, <1>3, <2>1, TypedSlots
    <2>3. /\ pc' \in [Slots -> {"idle", "reading", "storing", "reporting", "done", "raised"}]
          /\ DOMAIN data' = Slots
      BY <1>0, <1>1 DEF CostTypeOK
    <2> QED
      BY <1>0, <1>1, <2>2, <2>3 DEF CostTypeOK, Typed
  <1>5. LateOK(i)' /\ DataOK(i)' /\ RowsOK(i)' /\ TodoOK(i)'
    BY <1>0, <1>1, <1>2, NoChargesIs DEF SlotOK, LateOK, DataOK, RowsOK, TodoOK
  <1>6. StoredOK(i)'
    <2>1. SUFFICES ASSUME revised[i] = {}, i \notin crossed,
                          NEW e \in DOMAIN bill, e[2] \in DaysAsked(asked[i])
                   PROVE  e \in DOMAIN costTable /\ costTable[e] = bill[e]
      BY <1>1, <1>2 DEF StoredOK
    <2>2. e \in Entries
      BY DEF CostInv, CostTypeOK, IsCharges
    <2>3. e \in DOMAIN data[i]
      BY <1>0, <1>1, <1>2, <2>1, <2>2 DEF SlotOK, DataOK
    <2> QED
      BY <1>0, <1>1, <1>2, <2>1, <2>3 DEF SlotOK, StoredOK
  <1>7. DoneOK(i)'
    <2>1. SUFFICES ASSUME NEW s \in Services \ revised[i]
                   PROVE  /\ IsSpike(CostsOf(Shown(i), s), Slack) => s \in told[i]
                          /\ s \in told[i] => IsSpike(CostsOf(Shown(i), s), -Slack)
      <3>1. Shown(i)' = Shown(i)
        BY <1>1 DEF Shown
      <3> QED
        BY <1>1, <3>1 DEF DoneOK
    <2>2. /\ s \in Anomalies(data[i], Slack) <=> IsSpike(CostsOf(Shown(i), s), Slack)
          /\ s \in Anomalies(data[i], -Slack) <=> IsSpike(CostsOf(Shown(i), s), -Slack)
      BY <1>1, AnomaliesAreSpikes
    <2> QED
      BY <1>0, <1>1, <2>2 DEF SlotOK, TodoOK
  <1>8. SlotOK(i)'
    BY <1>5, <1>6, <1>7 DEF SlotOK
  <1> QED
    BY <1>1, <1>3, <1>4, <1>8, OneSlotKeeps


\* The last write may have been made, and the process forgets the rest.
LEMMA DiesKeeps ==
    ASSUME CostInv, NEW i \in Slots, InvocationDies(i)
    PROVE  CostInv'
  <1>0. CostTypeOK /\ SlotOK(i) /\ asked[i] \in 1..today /\ today \in Nat
    BY SlotType DEF CostInv
  <1>1. /\ pc' = [pc EXCEPT ![i] = "raised"] /\ data' = [data EXCEPT ![i] = NoCharges]
        /\ unread' = [unread EXCEPT ![i] = {}] /\ unstored' = [unstored EXCEPT ![i] = {}]
        /\ todo' = [todo EXCEPT ![i] = {}]
        /\ UNCHANGED <<today, bill, asked, revised, withdrawn>>
    BY DEF InvocationDies, Forget
  <1>2. /\ pc'[i] = "raised" /\ data'[i] = NoCharges /\ unread'[i] = {} /\ unstored'[i] = {}
        /\ todo'[i] = {}
    BY <1>0, <1>1 DEF CostTypeOK
  <1>3. \A k \in Slots \ {i} : told'[k] = told[k] => Same(k)
    BY <1>0, <1>1 DEF Same, CostTypeOK
  <1>4. ASSUME TableOK', BackedByTheTable', \A k \in Slots \ {i} : SlotOK(k)' /\ Same(k),
               IsCharges(costTable'), crossed' \in SUBSET Slots,
               told' \in [Slots -> SUBSET Services], overtaken' \in [Slots -> SUBSET Services],
               DOMAIN rows' \subseteq Services,
               \A x \in DOMAIN rows' :
                   rows'[x].severity \in {"CRITICAL", "HIGH"} /\ rows'[x].at \in 1..today,
               today = asked[i] => \A x \in told'[i] : x \in DOMAIN rows' /\ rows'[x].at >= asked[i]
        PROVE  CostInv'
    <2>1. Typed(i)'
      BY <1>2, NoChargesIs DEF Typed
    <2>2. \A k \in Slots : Typed(k)'
      BY <1>0, <1>4, <2>1, TypedSlots
    <2>3. /\ pc' \in [Slots -> {"idle", "reading", "storing", "reporting", "done", "raised"}]
          /\ unread' \in [Slots -> SUBSET Days] /\ todo' \in [Slots -> SUBSET Services]
          /\ DOMAIN data' = Slots /\ DOMAIN unstored' = Slots
      BY <1>0, <1>1 DEF CostTypeOK
    <2>4. CostTypeOK'
      BY <1>0, <1>1, <1>4, <2>2, <2>3 DEF CostTypeOK, Typed
    <2>5. LateOK(i)' /\ DataOK(i)' /\ StoredOK(i)' /\ RowsOK(i)' /\ DoneOK(i)'
      BY <1>0, <1>1, <1>2, NoChargesIs DEF SlotOK, LateOK, DataOK, StoredOK, RowsOK, DoneOK
    <2>6. TodoOK(i)'
      BY <1>1, <1>2, <1>4 DEF TodoOK
    <2>7. BillOK'
      BY <1>1 DEF CostInv, BillOK
    <2> QED
      BY <1>4, <2>4, <2>5, <2>6, <2>7 DEF CostInv, SlotOK
  <1>5. /\ \A x \in DOMAIN rows :
              rows[x].severity \in {"CRITICAL", "HIGH"} /\ rows[x].at \in 1..today
        /\ DOMAIN rows \subseteq Services
        /\ today = asked[i] => \A x \in told[i] : x \in DOMAIN rows /\ rows[x].at >= asked[i]
    BY <1>0 DEF CostTypeOK, SlotOK, TodoOK
  <1>6. CASE UNCHANGED <<tableVars, writeHistory>>
    <2>1. \A k \in Slots \ {i} : SlotOK(k)' /\ Same(k)
      BY <1>1, <1>3, <1>6, OthersKeepSimply
    <2>2. TableOK' /\ BackedByTheTable'
      BY <1>1, <1>6 DEF CostInv, TableOK, BackedByTheTable
    <2> QED
      BY <1>0, <1>4, <1>5, <1>6, <2>1, <2>2 DEF CostTypeOK
  <1>7. ASSUME NEW part \in SUBSET unstored[i], PutCharges(i, part), NoteCharges(i), UNCHANGED rows
        PROVE  CostInv'
    <2>1. \A k \in Slots \ {i} : Same(k)
      BY <1>3, <1>7 DEF NoteCharges
    <2>2. /\ TableOK' /\ BackedByTheTable'
          /\ \A k \in Slots \ {i} : SlotOK(k)'
          /\ IsCharges(costTable')
          /\ UNCHANGED <<told, overtaken>> /\ crossed' \in SUBSET Slots
      BY <1>1, <1>7, <2>1, PutKeeps
    <2> QED
      BY <1>0, <1>4, <1>5, <1>7, <2>1, <2>2 DEF CostTypeOK
  <1>8. ASSUME NEW s \in todo[i], PutRow(i, s), NoteRow(i, s), UNCHANGED costTable
        PROVE  CostInv'
    <2>1. \A k \in Slots \ {i} : Same(k)
      BY <1>0, <1>3, <1>8 DEF NoteRow, CostTypeOK
    <2>2. /\ \A k \in Slots \ {i} : SlotOK(k)'
          /\ told'[i] = told[i] \cup {s} /\ UNCHANGED crossed
          /\ told' \in [Slots -> SUBSET Services] /\ overtaken' \in [Slots -> SUBSET Services]
      BY <1>1, <1>8, <2>1, RowKeeps
    <2>3. /\ BackedByTheTable'
          /\ DOMAIN rows' \subseteq Services /\ s \in DOMAIN rows' /\ rows'[s].at = today
          /\ \A x \in DOMAIN rows' :
               rows'[x].severity \in {"CRITICAL", "HIGH"} /\ rows'[x].at \in 1..today
      BY <1>1, <1>8, PutRowKeeps
    <2>4. \A x \in DOMAIN rows : x # s => x \in DOMAIN rows' /\ rows'[x] = rows[x]
      <3>1. DOMAIN rows' = DOMAIN rows \cup {s} /\ \A x \in DOMAIN rows \ {s} : rows'[x] = rows[x]
        BY <1>8, PutRowIs
      <3> QED
        BY <3>1
    <2>5. today = asked[i] => \A x \in told'[i] : x \in DOMAIN rows' /\ rows'[x].at >= asked[i]
      BY <1>0, <1>5, <2>2, <2>3, <2>4
    <2>6. TableOK'
      BY <1>1, <1>8 DEF CostInv, TableOK
    <2> QED
      BY <1>0, <1>4, <1>8, <2>1, <2>2, <2>3, <2>5, <2>6 DEF CostTypeOK
  <1> QED
    BY <1>6, <1>7, <1>8 DEF InvocationDies

\* The bill of one service changes: what the invocations under way hold of it need
\* no longer agree with it.
LEMMA BillChanges ==
    ASSUME CostInv, NEW s \in Services, Revise(s),
           UNCHANGED <<today, scannerVars, tableVars, writeHistory>>,
           IsCharges(bill'), BillOK', withdrawn \subseteq withdrawn', withdrawn' \subseteq Services,
           \A e \in Entries : e[1] # s =>
               /\ e \in DOMAIN bill <=> e \in DOMAIN bill'
               /\ e \in DOMAIN bill => bill'[e] = bill[e],
           s \in withdrawn' \/ DOMAIN bill \subseteq DOMAIN bill'
    PROVE  CostInv'
  <1>0. CostTypeOK
    BY DEF CostInv
  <1>1. /\ revised' \in [Slots -> SUBSET Services]
        /\ \A i \in Slots : revised'[i] = revised[i] \cup {s}
    BY <1>0 DEF Revise, CostTypeOK
  <1>2. \A e \in DOMAIN bill : e[1] \notin withdrawn' => e \in DOMAIN bill'
    BY <1>0 DEF CostTypeOK, IsCharges
  <1>3. CostTypeOK'
    BY <1>0, <1>1 DEF CostTypeOK
  <1>4. TableOK' /\ BackedByTheTable'
    BY <1>2 DEF CostInv, TableOK, BackedByTheTable
  <1>5. ASSUME NEW i \in Slots PROVE SlotOK(i)'
    <2>1. SlotOK(i) /\ DaysRead(i)' = DaysRead(i) /\ s \in revised'[i] /\ revised[i] \subseteq revised'[i]
      BY <1>1 DEF CostInv, DaysRead
    <2>2. LateOK(i)'
      <3>1. \A e \in DOMAIN bill' : e \in Entries
        BY DEF IsCharges
      <3> QED
        BY <2>1, <3>1 DEF SlotOK, LateOK
    <2>3. DataOK(i)'
      <3>1. \A e \in DOMAIN data[i] : e[1] \notin withdrawn' => e \in DOMAIN bill'
        BY <1>2, <2>1 DEF SlotOK, DataOK
      <3>2. Active(i) => \A e \in Entries :
              e[2] \in DaysRead(i) /\ e[1] \notin revised'[i] =>
                  /\ e \in DOMAIN data[i] <=> e \in DOMAIN bill'
                  /\ e \in DOMAIN bill' => data[i][e] = bill'[e]
        BY <2>1 DEF SlotOK, DataOK
      <3> QED
        BY <2>1, <3>1, <3>2 DEF SlotOK, DataOK
    <2>4. StoredOK(i)' /\ RowsOK(i)' /\ TodoOK(i)'
      BY <2>1 DEF SlotOK, StoredOK, RowsOK, TodoOK
    <2>5. ASSUME pc[i] = "done", NEW x \in Services \ revised'[i]
          PROVE  CostsOf(Shown(i)', x) = CostsOf(Shown(i), x)
      <3> DEFINE old == Shown(i)
                 new == Only(bill', On(DaysAsked(asked[i])))
      <3>1. x \in Services /\ x # s /\ new = Shown(i)'
        BY <2>1, <2>5 DEF Shown
      <3>2. /\ DOMAIN old = DOMAIN bill \cap On(DaysAsked(asked[i]))
            /\ \A e \in DOMAIN bill \cap On(DaysAsked(asked[i])) : old[e] = bill[e]
        BY OnlyIs DEF Shown
      <3>3. /\ DOMAIN new = DOMAIN bill' \cap On(DaysAsked(asked[i]))
            /\ \A e \in DOMAIN bill' \cap On(DaysAsked(asked[i])) : new[e] = bill'[e]
        BY OnlyIs
      <3>4. \A y \in Days : <<x, y>> \in Entries /\ <<x, y>>[1] = x
        BY <3>1 DEF Entries
      <3> HIDE DEF old, new
      <3>5. \A y \in Days : <<x, y>> \in DOMAIN bill <=> <<x, y>> \in DOMAIN bill'
        BY <3>1, <3>4
      <3>6. \A y \in Days : <<x, y>> \in DOMAIN bill => bill'[<<x, y>>] = bill[<<x, y>>]
        BY <3>1, <3>4
      <3>7. \A y \in Days : <<x, y>> \in DOMAIN new <=> <<x, y>> \in DOMAIN old
        BY <3>2, <3>3, <3>5
      <3>8. \A y \in Days : <<x, y>> \in DOMAIN new => new[<<x, y>>] = old[<<x, y>>]
        BY <3>2, <3>3, <3>5, <3>6, <3>7
      <3>9. CostsOf(new, x) = CostsOf(old, x)
        BY <3>7, <3>8, SameCosts
      <3> QED
        BY <3>1, <3>9 DEF old
    <2>6. DoneOK(i)'
      BY <2>1, <2>5 DEF SlotOK, DoneOK
    <2> QED
      BY <2>2, <2>3, <2>4, <2>6 DEF SlotOK
  <1> QED
    BY <1>3, <1>4, <1>5 DEF CostInv

LEMMA BillKeeps ==
    ASSUME CostInv, Bill
    PROVE  CostInv'
  <1>1. PICK s \in Services, d \in {x \in Days : x < today}, a \in Amounts :
          bill' = Overlay(bill, [e \in {<<s, d>>} |-> a]) /\ Revise(s)
    BY DEF Bill
  <1>2. UNCHANGED <<today, scannerVars, tableVars, writeHistory, withdrawn>>
    BY DEF Bill
  <1>3. /\ DOMAIN bill' = DOMAIN bill \cup {<<s, d>>} /\ IsCharges(bill')
        /\ \A e \in DOMAIN bill \ {<<s, d>>} : bill'[e] = bill[e]
    <2> DEFINE new == [e \in {<<s, d>>} |-> a]
    <2>1. IsCharges(bill) /\ IsCharges(new) /\ DOMAIN new = {<<s, d>>}
      BY DEF CostInv, CostTypeOK, IsCharges, Entries
    <2>2. /\ DOMAIN Overlay(bill, new) = DOMAIN bill \cup DOMAIN new
          /\ \A e \in DOMAIN bill \ DOMAIN new : Overlay(bill, new)[e] = bill[e]
          /\ IsCharges(bill) /\ IsCharges(new) => IsCharges(Overlay(bill, new))
      BY OverlayIs
    <2>3. bill' = Overlay(bill, new)
      BY <1>1
    <2> HIDE DEF new
    <2> QED
      BY <2>1, <2>2, <2>3
  <1>4. BillOK'
    BY <1>2, <1>3 DEF CostInv, BillOK, On
  <1>5. withdrawn \subseteq withdrawn' /\ withdrawn' \subseteq Services
    BY <1>2 DEF CostInv, CostTypeOK
  <1>6. \A e \in Entries : e[1] # s => e # <<s, d>>
    OBVIOUS
  <1> QED
    BY <1>1, <1>2, <1>3, <1>4, <1>5, <1>6, BillChanges

LEMMA WithdrawKeeps ==
    ASSUME CostInv, Withdraw
    PROVE  CostInv'
  <1>1. PICK x \in DOMAIN bill :
          /\ bill' = Only(bill, DOMAIN bill \ {x}) /\ Revise(x[1])
          /\ withdrawn' = withdrawn \cup {x[1]}
    BY DEF Withdraw
  <1>2. UNCHANGED <<today, scannerVars, tableVars, writeHistory>>
    BY DEF Withdraw
  <1>3. IsCharges(bill) /\ x \in Entries /\ x[1] \in Services /\ withdrawn \subseteq Services
    BY DEF CostInv, CostTypeOK, IsCharges, Entries
  <1>4. /\ DOMAIN bill' = DOMAIN bill \ {x} /\ IsCharges(bill')
        /\ \A e \in DOMAIN bill \ {x} : bill'[e] = bill[e]
    <2>1. DOMAIN bill \cap (DOMAIN bill \ {x}) = DOMAIN bill \ {x}
      OBVIOUS
    <2> QED
      BY <1>1, <1>3, <2>1, OnlyIs
  <1>5. BillOK'
    BY <1>2, <1>4 DEF CostInv, BillOK
  <1> QED
    BY <1>1, <1>2, <1>3, <1>4, <1>5, BillChanges

LEMMA NextDayKeeps ==
    ASSUME CostInv, NextDay
    PROVE  CostInv'
  <1>1. /\ today < LastDay + 1 /\ today' = today + 1
        /\ UNCHANGED <<bill, scannerVars, tableVars, historyVars>>
    BY DEF NextDay
  <1>2. /\ today \in 1..(LastDay + 1) /\ asked \in [Slots -> 1..today]
        /\ today \in Nat /\ today' \in 1..(LastDay + 1) /\ 1..today \subseteq 1..today'
    BY <1>1, Constants DEF CostInv, CostTypeOK
  <1>3. CostTypeOK'
    BY <1>1, <1>2 DEF CostInv, CostTypeOK
  <1>4. BillOK'
    BY <1>1, <1>2, Constants DEF CostInv, BillOK, On, Days
  <1>5. TableOK' /\ BackedByTheTable'
    BY <1>1 DEF CostInv, TableOK, BackedByTheTable
  <1>6. ASSUME NEW i \in Slots PROVE SlotOK(i)'
    <2>1. SlotOK(i) /\ DaysRead(i)' = DaysRead(i) /\ Shown(i)' = Shown(i) /\ today' # asked[i]
      BY <1>1, <1>2 DEF CostInv, DaysRead, Shown
    <2>2. LateOK(i)' /\ DataOK(i)' /\ StoredOK(i)' /\ RowsOK(i)'
      BY <1>1, <2>1 DEF SlotOK, LateOK, DataOK, StoredOK, RowsOK
    <2>3. TodoOK(i)' /\ DoneOK(i)'
      BY <1>1, <2>1 DEF SlotOK, TodoOK, DoneOK
    <2> QED
      BY <2>2, <2>3 DEF SlotOK
  <1> QED
    BY <1>3, <1>4, <1>5, <1>6 DEF CostInv

LEMMA RowExpiresKeeps ==
    ASSUME CostInv, RowExpires
    PROVE  CostInv'
  <1>1. PICK s \in DOMAIN rows :
          rows[s].at + Retention < today /\ rows' = [x \in DOMAIN rows \ {s} |-> rows[x]]
    BY DEF RowExpires
  <1>2. UNCHANGED <<today, bill, scannerVars, costTable, historyVars>>
    BY DEF RowExpires
  <1>3. DOMAIN rows' = DOMAIN rows \ {s} /\ \A x \in DOMAIN rows' : rows'[x] = rows[x]
    BY <1>1
  <1>4. CostTypeOK' /\ BillOK' /\ TableOK' /\ BackedByTheTable'
    BY <1>2, <1>3 DEF CostInv, CostTypeOK, BillOK, TableOK, BackedByTheTable
  <1>5. ASSUME NEW i \in Slots PROVE SlotOK(i)'
    <2>1. SlotOK(i) /\ DaysRead(i)' = DaysRead(i) /\ Shown(i)' = Shown(i)
      BY <1>2 DEF CostInv, DaysRead, Shown
    <2>2. LateOK(i)' /\ DataOK(i)' /\ StoredOK(i)' /\ DoneOK(i)'
      BY <1>2, <2>1 DEF SlotOK, LateOK, DataOK, StoredOK, DoneOK
    <2>3. RowsOK(i)'
      BY <1>2, <1>3, <2>1 DEF SlotOK, RowsOK
    <2>4. ASSUME today = asked[i], NEW x \in told[i]
          PROVE  x \in DOMAIN rows' /\ rows'[x].at >= asked[i]
      <3>1. x \in DOMAIN rows /\ rows[x].at >= asked[i]
        BY <2>1, <2>4 DEF SlotOK, TodoOK
      <3>2. rows[s].at \in Nat /\ today \in Nat
        BY Constants DEF CostInv, CostTypeOK
      <3>3. x # s
        BY <1>1, <2>4, <3>1, <3>2, Constants
      <3> QED
        BY <1>3, <3>1, <3>3
    <2>5. TodoOK(i)'
      BY <1>2, <2>1, <2>4 DEF SlotOK, TodoOK
    <2> QED
      BY <2>2, <2>3, <2>5 DEF SlotOK
  <1> QED
    BY <1>4, <1>5 DEF CostInv

LEMMA CostStepKeeps ==
    ASSUME CostInv, [CostNext]_costVars
    PROVE  CostInv'
  <1>1. ASSUME NEW i \in Slots, ScannerStep(i) PROVE CostInv'
    <2>1. ASSUME NEW s \in Services, Upsert(i, s) PROVE CostInv'
      BY <2>1, UpsertKeeps
    <2>2. Begin(i) => CostInv'
      BY BeginKeeps
    <2>3. ReadPage(i) => CostInv'
      BY ReadPageKeeps
    <2>4. LastPageRead(i) => CostInv'
      BY LastPageReadKeeps
    <2>5. StoreCharges(i) => CostInv'
      BY StoreChargesKeeps
    <2>6. Detect(i) => CostInv'
      BY DetectKeeps
    <2>7. Finish(i) => CostInv'
      BY FinishKeeps
    <2>8. InvocationDies(i) => CostInv'
      BY DiesKeeps
    <2> QED
      BY <1>1, <2>1, <2>2, <2>3, <2>4, <2>5, <2>6, <2>7, <2>8 DEF ScannerStep
  <1>2. CASE Environment
    <2>1. Bill => CostInv'
      BY BillKeeps
    <2>2. Withdraw => CostInv'
      BY WithdrawKeeps
    <2>3. NextDay => CostInv'
      BY NextDayKeeps
    <2>4. RowExpires => CostInv'
      BY RowExpiresKeeps
    <2> QED
      BY <1>2, <2>1, <2>2, <2>3, <2>4 DEF Environment
  <1>3. CASE UNCHANGED costVars
    <2>1. CostTypeOK' /\ BillOK' /\ TableOK' /\ BackedByTheTable'
      BY <1>3 DEF CostInv, CostTypeOK, BillOK, TableOK, BackedByTheTable
    <2>2. ASSUME NEW i \in Slots PROVE SlotOK(i)'
      BY <1>3, OthersKeepSimply DEF Same
    <2> QED
      BY <2>1, <2>2 DEF CostInv
  <1> QED
    BY <1>1, <1>2, <1>3 DEF CostNext

\* What each scan has read of the bill, and what of it is in the two tables, is kept
\* by every step of the scans, the bill and the clock.
THEOREM CostInvariance == CostSpec => []CostInv
  <1>1. CostInit => CostInv
    BY CostInitInv
  <1>2. CostInv /\ [CostNext]_costVars => CostInv'
    BY CostStepKeeps
  <1> QED
    BY <1>1, <1>2, PTL DEF CostSpec

-----------------------------------------------------------------------------
(* Theorems. *)

\* Whatever is billed and however many invocations run at once: charges, rows and
\* what an invocation holds are what they should be, and one that is over holds nothing.
THEOREM CostTypeCorrect == CostSpec => []CostTypeOK
  <1>1. CostInv => CostTypeOK
    BY DEF CostInv
  <1> QED
    BY <1>1, CostInvariance, PTL

\* detect_anomalies, with the pages, retries and days of get_cost_data around it
\* and other scans beside it, finds each clear spike of the bill and nothing that
\* is no spike within the rounding of its floats.
THEOREM SpikesAndNothingElseHolds == CostSpec => []SpikesAndNothingElse
  <1>1. ASSUME CostInv PROVE SpikesAndNothingElse
    <2>1. SUFFICES ASSUME NEW i \in Slots, JustDone(i), NEW s \in Services \ revised[i]
                   PROVE  /\ IsSpike(CostsOf(Shown(i), s), Slack) => s \in told[i]
                          /\ s \in told[i] => IsSpike(CostsOf(Shown(i), s), -Slack)
                          /\ s \in told[i] => s \in DOMAIN rows /\ rows[s].at >= asked[i]
      BY DEF SpikesAndNothingElse
    <2> QED
      BY <1>1, <2>1 DEF CostInv, SlotOK, TodoOK, DoneOK, JustDone
  <1> QED
    BY <1>1, CostInvariance, PTL

\* lambda_handler stores the charges before it tells of them: no death in between
\* leaves a finding that the cost table does not back.
THEOREM BackedByTheTableHolds == CostSpec => []BackedByTheTable
  <1>1. CostInv => BackedByTheTable
    BY DEF CostInv
  <1> QED
    BY <1>1, CostInvariance, PTL

\* store_cost_data overwrites, so what earlier invocations left, whole or torn,
\* never shows in the tile "Latest daily spend" after a scan of a settled bill,
\* nor what scans beside it store, unless they have read before the bill settled.
THEOREM LatestSpendIsTheBillHolds == CostSpec => []LatestSpendIsTheBill
  <1>1. ASSUME CostInv PROVE LatestSpendIsTheBill
    <2>1. SUFFICES ASSUME NEW i \in Slots, pc[i] = "done", today = asked[i], revised[i] = {},
                          i \notin crossed, withdrawn = {}
                   PROVE  LatestSpend = Spend(Shown(i))
      BY DEF LatestSpendIsTheBill, JustDone
    <2> DEFINE window == {d \in Days : d >= today - History}
    <2>2. asked[i] \in Int /\ History \in Int /\ SlotOK(i)
      BY <1>1, SlotType, Constants DEF CostInv
    <2>3. DOMAIN costTable \cap On(window) = DOMAIN bill \cap On(DaysAsked(asked[i]))
      <3>1. ASSUME NEW e \in DOMAIN costTable \cap On(window)
            PROVE  e \in DOMAIN bill \cap On(DaysAsked(asked[i]))
        <4>1. e \in DOMAIN bill /\ e[2] < today
          BY <1>1, <2>1 DEF CostInv, TableOK, BillOK, On
        <4> QED
          BY <2>1, <2>2, <4>1, Constants DEF On, DaysAsked, Days
      <3>2. ASSUME NEW e \in DOMAIN bill \cap On(DaysAsked(asked[i]))
            PROVE  e \in DOMAIN costTable \cap On(window)
        <4>1. e[2] \in DaysAsked(asked[i])
          BY DEF On
        <4>2. e \in DOMAIN costTable
          BY <2>1, <2>2, <4>1 DEF SlotOK, StoredOK
        <4> QED
          BY <2>1, <2>2, <4>2, Constants DEF On, DaysAsked, Days
      <3> QED
        BY <3>1, <3>2
    <2>4. \A e \in DOMAIN bill \cap On(DaysAsked(asked[i])) : costTable[e] = bill[e]
      BY <2>1, <2>2 DEF SlotOK, StoredOK, On
    <2>5. Only(costTable, On(window)) = Only(bill, On(DaysAsked(asked[i])))
      BY <2>3, <2>4 DEF Only
    <2> QED
      BY <2>5 DEF LatestSpend, Shown
  <1> QED
    BY <1>1, CostInvariance, PTL

\* Old charges leave the window and late ones come, invocations die, are repeated
\* and overlap: only a withdrawn charge, or an invocation that another has passed
\* with a later bill, takes a finding to an earlier day.
THEOREM DayNeverGoesBackHolds == CostSpec => DayNeverGoesBack
  <1> DEFINE Excused(s) == \E i \in Slots : s \in todo[i] \ todo'[i] /\ s \in overtaken[i] \cap revised[i]
  <1>1. ASSUME CostInv, [CostNext]_costVars, NEW s \in (DOMAIN rows \cap DOMAIN rows') \ withdrawn,
               rows'[s].told.day < rows[s].told.day
        PROVE  Excused(s)
    <2>1. rows[s].told.day \in Int
      <3>1. <<s, rows[s].told.day>> \in DOMAIN costTable
        BY <1>1 DEF CostInv, BackedByTheTable
      <3>2. rows[s].told.day \in Days
        BY <1>1, <3>1 DEF CostInv, CostTypeOK, IsCharges, Entries
      <3> QED
        BY <3>2 DEF Days
    <2>2. rows'[s] # rows[s]
      BY <1>1, <2>1
    <2>3. ASSUME NEW i \in Slots, NEW x \in todo[i], x \notin todo'[i], PutRow(i, x),
                 UNCHANGED <<today, costTable>>
          PROVE  Excused(s)
      <3>1. /\ x = s
            /\ rows'[s].told.day \in DaysRead(i)
            /\ s \notin overtaken[i] \cap revised[i] => rows[s].told.day <= rows'[s].told.day
        BY <1>1, <2>2, <2>3, PutRowKeeps
      <3>2. rows'[s].told.day \in Int
        BY <3>1 DEF DaysRead, DaysAsked, Days
      <3>3. s \in overtaken[i] \cap revised[i]
        BY <1>1, <2>1, <3>1, <3>2
      <3> QED
        BY <2>3, <3>1, <3>3
    <2>4. ASSUME NEW i \in Slots, NEW x \in Services, Upsert(i, x) PROVE Excused(s)
      <3>1. x \notin todo'[i]
        BY <1>1, <2>4 DEF Upsert, CostInv, CostTypeOK
      <3> QED
        BY <2>3, <2>4, <3>1 DEF Upsert
    <2>5. ASSUME NEW i \in Slots, InvocationDies(i) PROVE Excused(s)
      <3>1. todo'[i] = {}
        BY <1>1, <2>5 DEF InvocationDies, Forget, CostInv, CostTypeOK
      <3>2. CASE UNCHANGED rows
        BY <2>2, <3>2
      <3>3. ASSUME NEW x \in todo[i], PutRow(i, x), UNCHANGED costTable PROVE Excused(s)
        BY <2>3, <2>5, <3>1, <3>3 DEF InvocationDies
      <3> QED
        BY <2>5, <3>2, <3>3 DEF InvocationDies
    <2>6. ~RowExpires
      BY <1>1, <2>2 DEF RowExpires
    <2>7. ASSUME NEW i \in Slots
          PROVE  Begin(i) \/ ReadPage(i) \/ LastPageRead(i) \/ StoreCharges(i) \/ Detect(i) \/ Finish(i)
                    => UNCHANGED rows
      BY DEF Begin, ReadPage, LastPageRead, StoreCharges, Detect, Finish
    <2>8. Bill \/ Withdraw \/ NextDay => UNCHANGED rows
      BY DEF Bill, Withdraw, NextDay
    <2> HIDE DEF Excused
    <2> QED
      BY <1>1, <2>2, <2>4, <2>5, <2>6, <2>7, <2>8 DEF CostNext, ScannerStep, Environment
  <1>2. CostInv /\ [CostNext]_costVars =>
          \A s \in (DOMAIN rows \cap DOMAIN rows') \ withdrawn :
              rows'[s].told.day < rows[s].told.day => Excused(s)
    BY <1>1
  <1> QED
    BY <1>2, CostInvariance, PTL DEF CostSpec, DayNeverGoesBack

-----------------------------------------------------------------------------
(* The story a row tells. *)

\* A sight that the code may have taken for an anomaly.
IsStory(t) ==
    /\ t.day \notin t.before
    /\ t.actual \in Int /\ t.total \in Int /\ Cardinality(t.before) \in Nat
    /\ IsAnomaly(t, -Slack)

\* What Upsert puts into a row, whatever was there: numbers of one anomaly and a
\* severity of that anomaly, and beside them the numbers of the first one.
StoryOK ==
    \A s \in DOMAIN rows :
        /\ IsStory(rows[s].told) /\ IsStory(rows[s].first)
        /\ rows[s].severity \in Severities(rows[s].told)

\* An anomaly that waits to be upserted.
LEMMA AnomalyToTell ==
    ASSUME CostInv, NEW i \in Slots, NEW s \in todo[i]
    PROVE  IsStory(Sight(CostsOf(data[i], s)))
  <1> DEFINE read == data[i]
             costs == CostsOf(read, s)
             t == Sight(costs)
             D == DOMAIN costs
  <1>1. IsAnomaly(t, -Slack) /\ Cardinality(D) >= 2
    BY DEF CostInv, SlotOK, TodoOK, Anomalies
  <1>2. D \subseteq Days /\ IsFiniteSet(D)
    <2>1. IsFiniteSet(1..LastDay)
      BY Constants, FS_Interval
    <2>2. D \subseteq Days
      <3> HIDE DEF read
      <3> QED
        BY DaysOfCosts
    <2> QED
      BY <2>1, <2>2, FS_Subset DEF Days
  <1>3. D # {}
    <2>1. SUFFICES ASSUME D = {} PROVE FALSE
      OBVIOUS
    <2>2. Cardinality(D) = 0
      BY <2>1, FS_EmptySet
    <2> QED
      BY <1>1, <2>2
  <1>4. \A d \in D : costs[d] \in Int
    <2>1. \A e \in DOMAIN read : read[e] \in Int
      BY Constants DEF CostInv, CostTypeOK, IsCharges
    <2>2. \A d \in D : <<s, d>> \in DOMAIN read /\ costs[d] = read[<<s, d>>]
      <3> HIDE DEF read
      <3> QED
        BY DaysOfCosts
    <2> QED
      BY <2>1, <2>2
  <1>5. /\ t.day = Latest(costs) /\ t.actual = costs[Latest(costs)]
        /\ t.before = PriorDays(costs) /\ t.total = SumFunctionOnSet(costs, PriorDays(costs))
    BY DEF Sight
  <1>6. Latest(costs) \in D /\ PriorDays(costs) \in SUBSET D /\ Latest(costs) \notin PriorDays(costs)
    BY <1>2, <1>3, LatestIsLast DEF PriorDays
  <1> HIDE DEF costs, t, D, read
  <1>7. IsFiniteSet(PriorDays(costs)) /\ Cardinality(PriorDays(costs)) \in Nat
    BY <1>2, <1>6, FS_Subset, FS_CardinalityType
  <1>8. SumFunctionOnSet(costs, PriorDays(costs)) \in Int
    BY <1>4, <1>6, <1>7, SumIsInt
  <1>9. t.actual \in Int
    BY <1>4, <1>5, <1>6
  <1>10. t.day \notin t.before /\ t.total \in Int /\ Cardinality(t.before) \in Nat
    BY <1>5, <1>6, <1>7, <1>8
  <1> QED
    BY <1>1, <1>9, <1>10 DEF t, costs, read, IsStory

LEMMA PutRowTells ==
    ASSUME CostInv, StoryOK, NEW i \in Slots, NEW s \in todo[i], PutRow(i, s)
    PROVE  StoryOK'
  <1> DEFINE t == Sight(CostsOf(data[i], s))
  <1>1. IsStory(t)
    BY AnomalyToTell
  <1>2. /\ DOMAIN rows' = DOMAIN rows \cup {s} /\ rows'[s].told = t
        /\ rows'[s].severity \in Severities(t)
        /\ rows'[s].first = IF s \in DOMAIN rows THEN rows[s].first ELSE t
        /\ \A x \in DOMAIN rows \ {s} : rows'[x] = rows[x]
    BY PutRowIs
  <1> HIDE DEF t
  <1>3. \A x \in DOMAIN rows' : x # s => x \in DOMAIN rows /\ rows'[x] = rows[x]
    BY <1>2
  <1> QED
    BY <1>1, <1>2, <1>3 DEF StoryOK

LEMMA StoryStep ==
    ASSUME CostInv, StoryOK, [CostNext]_costVars
    PROVE  StoryOK'
  <1>1. CASE UNCHANGED rows
    BY <1>1 DEF StoryOK
  <1>2. CASE RowExpires
    BY <1>2 DEF RowExpires, StoryOK
  <1>3. ASSUME NEW i \in Slots, NEW s \in Services, Upsert(i, s) PROVE StoryOK'
    BY <1>3, PutRowTells DEF Upsert
  <1>4. ASSUME NEW i \in Slots, InvocationDies(i) PROVE StoryOK'
    BY <1>1, <1>4, PutRowTells DEF InvocationDies
  <1>5. ASSUME NEW i \in Slots
        PROVE  Begin(i) \/ ReadPage(i) \/ LastPageRead(i) \/ StoreCharges(i) \/ Detect(i) \/ Finish(i)
                  => UNCHANGED rows
    BY DEF Begin, ReadPage, LastPageRead, StoreCharges, Detect, Finish
  <1>6. Bill \/ Withdraw \/ NextDay => UNCHANGED rows
    BY DEF Bill, Withdraw, NextDay
  <1> QED
    BY <1>1, <1>2, <1>3, <1>4, <1>5, <1>6 DEF CostNext, ScannerStep, Environment

\* The thresholds of detect_anomalies and _severity_for, without division.
LEMMA StoryFits == StoryOK => SeverityFitsTheStory
  <1>1. ASSUME NEW a \in Int, NEW n \in Nat
        PROVE  /\ 1000 * a * n = 1000 * (a * n) /\ 2000 * a * n = 2000 * (a * n)
               /\ 2 * 1000 * a * n = 2000 * (a * n) /\ 2 * a * n = 2 * (a * n) /\ a * n \in Int
    OBVIOUS
  <1>2. ASSUME NEW t, IsStory(t)
        PROVE  /\ t.day \notin t.before /\ t.actual >= MinAnomaly /\ t.total > -Slack
               /\ 2 * t.actual * Cardinality(t.before) >= 3 * (t.total - Slack)
               /\ t.actual * Cardinality(t.before) >= 2 * (t.total + Slack) =>
                     "HIGH" \notin Severities(t)
               /\ "CRITICAL" \in Severities(t) =>
                     2000 * t.actual * Cardinality(t.before) >= 3999 * (t.total - Slack)
    <2> DEFINE a == t.actual
               n == Cardinality(t.before)
               p == a * n
               total == t.total
    <2>1. a \in Int /\ total \in Int /\ n \in Nat /\ IsAnomaly(t, -Slack) /\ t.day \notin t.before
          /\ Slack \in Nat
      BY <1>2, Constants DEF IsStory
    <2>2. /\ 1000 * a * n = 1000 * p /\ 2000 * a * n = 2000 * p
          /\ 2 * 1000 * a * n = 2000 * p /\ 2 * a * n = 2 * p /\ p \in Int
      BY <1>1, <2>1
    <2>3. total > -Slack /\ a >= MinAnomaly /\ 1000 * a * n >= 1500 * (total + -Slack)
      BY <2>1 DEF IsAnomaly, RatioIsAtLeast
    <2>4. /\ "CRITICAL" \in Severities(t) => 2 * 1000 * a * n >= (2 * 2000 - 1) * (total + -Slack)
          /\ "HIGH" \in Severities(t) => ~(2 * 1000 * a * n >= (2 * 2000 - 1) * (total + Slack))
      BY DEF Severities, RoundsToDouble
    <2> HIDE DEF p, n, a, total
    <2>5. 1000 * p >= 1500 * (total + -Slack)
      BY <2>2, <2>3
    <2>6. /\ "CRITICAL" \in Severities(t) => 2000 * p >= 3999 * (total + -Slack)
          /\ "HIGH" \in Severities(t) => ~(2000 * p >= 3999 * (total + Slack))
      BY <2>2, <2>4
    <2>7. 2 * p >= 3 * (total - Slack)
      BY <2>1, <2>2, <2>5
    <2>8. total + Slack > 0
      BY <2>1, <2>3
    <2>9. p >= 2 * (total + Slack) => "HIGH" \notin Severities(t)
      BY <2>1, <2>2, <2>6, <2>8
    <2>10. "CRITICAL" \in Severities(t) => 2000 * p >= 3999 * (total - Slack)
      BY <2>1, <2>2, <2>6
    <2>11. 2 * a * n >= 3 * (total - Slack)
      BY <2>2, <2>7
    <2>12. "CRITICAL" \in Severities(t) => 2000 * a * n >= 3999 * (total - Slack)
      BY <2>2, <2>10
    <2>13. a * n >= 2 * (total + Slack) => "HIGH" \notin Severities(t)
      BY <2>9 DEF p
    <2> QED
      BY <2>1, <2>3, <2>11, <2>12, <2>13 DEF a, n, total
  <1>3. ASSUME StoryOK, NEW s \in DOMAIN rows
        PROVE  /\ IsStory(rows[s].told) /\ IsStory(rows[s].first)
               /\ rows[s].severity \in Severities(rows[s].told)
               /\ rows[s].severity \in {"CRITICAL", "HIGH"}
    BY <1>3 DEF StoryOK, Severities
  <1> QED
    BY <1>2, <1>3 DEF SeverityFitsTheStory

\* store_findings takes description and severity of one sight: whatever died,
\* was repeated, overlapped or revised, the severity of a row is that of its story,
\* up to the rounding of floats.
THEOREM SeverityFitsTheStoryHolds == CostSpec => []SeverityFitsTheStory
  <1>1. CostInit => StoryOK
    BY DEF CostInit, StoryOK
  <1>2. CostInv /\ StoryOK /\ [CostNext]_costVars => StoryOK'
    BY StoryStep
  <1> QED
    BY <1>1, <1>2, CostInvariance, StoryFits, PTL DEF CostSpec

-----------------------------------------------------------------------------
(* The rule alone. *)

\* detect_anomalies and _severity_for: with a larger charge on the latest day and
\* smaller ones before it a spike is still a spike and no milder, as long as the
\* days before still cost something.  (At zero or less the rule falls silent.)  So
\* it is wherever the rounding of floats has put the thresholds.
THEOREM SteeperIsNeverMilder ==
  ASSUME NEW costs, NEW steeper, NEW margin \in Int,
         DOMAIN costs \subseteq Days, DOMAIN steeper = DOMAIN costs,
         \A d \in DOMAIN costs : costs[d] \in Int /\ steeper[d] \in Int,
         \A d \in PriorDays(costs) : steeper[d] <= costs[d],
         steeper[Latest(costs)] >= costs[Latest(costs)],
         SumFunctionOnSet(steeper, PriorDays(costs)) > margin,
         IsSpike(costs, margin)
  PROVE  /\ IsSpike(steeper, margin)
         /\ RoundsToDouble(Sight(costs), margin) => RoundsToDouble(Sight(steeper), margin)
  <1> DEFINE D == DOMAIN costs
             l == Latest(costs)
             before == PriorDays(costs)
             n == Cardinality(before)
             a == costs[l]
             b == steeper[l]
             old == SumFunctionOnSet(costs, before)
             new == SumFunctionOnSet(steeper, before)
  <1>1. Cardinality(D) >= 2 /\ IsAnomaly(Sight(costs), margin)
    BY AnomalyIsSpike
  <1>2. IsFiniteSet(D)
    <2>1. IsFiniteSet(1..LastDay)
      BY Constants, FS_Interval
    <2> QED
      BY <2>1, FS_Subset DEF Days
  <1>3. D # {}
    <2>1. SUFFICES ASSUME D = {} PROVE FALSE
      OBVIOUS
    <2>2. Cardinality(D) = 0
      BY <2>1, FS_EmptySet
    <2> QED
      BY <1>1, <2>2
  <1>4. l \in D /\ before \in SUBSET D
    BY <1>3, LatestIsLast DEF PriorDays
  <1>5. /\ Sight(costs).actual = a /\ Sight(costs).before = before /\ Sight(costs).total = old
        /\ Sight(steeper).actual = b /\ Sight(steeper).before = before /\ Sight(steeper).total = new
    BY DEF Sight, Latest, PriorDays
  <1>6. IsFiniteSet(before) /\ n \in Nat
    BY <1>2, <1>4, FS_Subset, FS_CardinalityType
  <1>7. old \in Int /\ new \in Int /\ new <= old /\ new > margin
    <2>1. \A d \in before : costs[d] \in Int /\ steeper[d] \in Int /\ steeper[d] <= costs[d]
      BY <1>4
    <2> HIDE DEF before
    <2>2. old \in Int /\ new \in Int
      BY <1>6, <2>1, SumIsInt
    <2>3. new <= old
      BY <1>6, <2>1, SumIsMonotone
    <2> QED
      BY <2>2, <2>3 DEF before
  <1>8. a \in Int /\ b \in Int /\ b >= a
    BY <1>4
  <1> HIDE DEF D, l, before, n, a, b, old, new
  <1>9. b * n >= a * n /\ a * n \in Int /\ b * n \in Int
    <2>1. (b - a) * n >= 0
      BY <1>6, <1>8
    <2> QED
      BY <1>6, <1>8, <2>1
  <1>10. /\ 1000 * a * n = 1000 * (a * n) /\ 1000 * b * n = 1000 * (b * n)
         /\ 2 * 1000 * a * n = 2000 * (a * n) /\ 2 * 1000 * b * n = 2000 * (b * n)
    BY <1>6, <1>8
  <1>11. old > margin /\ a >= MinAnomaly /\ 1000 * (a * n) >= 1500 * (old + margin)
    BY <1>1, <1>5, <1>10 DEF IsAnomaly, RatioIsAtLeast, n
  <1>12. b >= MinAnomaly
    BY <1>8, <1>11, Constants
  <1>13. 1000 * (b * n) >= 1500 * (new + margin)
    BY <1>7, <1>9, <1>11
  <1>14. IsAnomaly(Sight(steeper), margin)
    BY <1>5, <1>7, <1>10, <1>12, <1>13 DEF IsAnomaly, RatioIsAtLeast, n
  <1>15. IsSpike(steeper, margin)
    BY <1>1, <1>14, AnomalyIsSpike DEF D
  <1>16. 2000 * (a * n) >= 3999 * (old + margin) => 2000 * (b * n) >= 3999 * (new + margin)
    BY <1>7, <1>9
  <1>17. /\ RoundsToDouble(Sight(costs), margin) <=> 2000 * (a * n) >= 3999 * (old + margin)
         /\ RoundsToDouble(Sight(steeper), margin) <=> 2000 * (b * n) >= 3999 * (new + margin)
    BY <1>5, <1>7, <1>10 DEF RoundsToDouble, n
  <1> QED
    BY <1>15, <1>16, <1>17
=============================================================================
