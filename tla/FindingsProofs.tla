---------------------------- MODULE FindingsProofs ----------------------------
(***************************************************************************)
(* The findings table for any number of issues, writers and invocations,   *)
(* and any clock, timeout, window and time to live: its invariant, the     *)
(* completeness of the report and the honesty of the count.                *)
(***************************************************************************)
EXTENDS Findings, TLAPS

USE DEF vars, tableVars, writerVars, Times
USE TimesAssumption, EmitsAssumption

\* Row and Pending as sets of records, for the provers.
LEMMA RowTyped ==
    ASSUME NEW last \in Times, NEW count \in Nat, NEW whole \in BOOLEAN
    PROVE  [last |-> last, count |-> count, whole |-> whole] \in Row
  BY DEF Row

LEMMA StoredTyped ==
    ASSUME TypeOK, NEW p \in pending
    PROVE  Stored(p) \in Row
  <1>1. p.by \in Writers /\ p.id \in FindingIds /\ p.sk \in Times /\ p.count \in Nat
    BY DEF TypeOK, Pending
  <1>2. stamp[p.by] \in Times
    BY <1>1 DEF TypeOK
  <1>3. (p.op = "put" \/ rows[p.id][p.sk].whole) \in BOOLEAN
    BY <1>1 DEF TypeOK, Row
  <1> QED
    BY <1>1, <1>2, <1>3, RowTyped DEF Stored

\* Sending an upsert again changes nothing else of it.
LEMMA Resent ==
    ASSUME NEW p \in Pending
    PROVE  \E r \in Pending :
              /\ r = [p EXCEPT !.sent = TRUE]
              /\ r.by = p.by /\ r.id = p.id /\ r.count = p.count
              /\ r.sk = p.sk /\ r.op = p.op /\ r.sent
  <1>1. [p EXCEPT !.sent = TRUE] \in Pending
    BY DEF Pending
  <1>2. /\ [p EXCEPT !.sent = TRUE].by = p.by
        /\ [p EXCEPT !.sent = TRUE].id = p.id
        /\ [p EXCEPT !.sent = TRUE].count = p.count
        /\ [p EXCEPT !.sent = TRUE].sk = p.sk
        /\ [p EXCEPT !.sent = TRUE].op = p.op
        /\ [p EXCEPT !.sent = TRUE].sent
    BY DEF Pending
  <1> QED
    BY <1>1, <1>2

\* What Decide adds is an upsert of f by w, and nothing else.
LEMMA DecideAdds ==
    ASSUME TypeOK, NEW w \in Writers, NEW f \in FindingIds,
           NEW items \in [Times -> Row], Decide(w, f, items)
    PROVE  \E p \in Pending :
              /\ pending' = pending \cup {p}
              /\ p.by = w /\ p.id = f /\ ~p.sent
              /\ \/ /\ Keys(items) = {}
                    /\ p.op = "put" /\ p.sk = stamp[w] /\ p.count = 1
                 \/ /\ p.sk \in Keys(items)
                    /\ p.op = "update" /\ p.count = items[p.sk].count + 1
  <1>1. CASE /\ Keys(items) = {}
             /\ pending' = pending \cup {[by |-> w, id |-> f, op |-> "put",
                              sk |-> stamp[w], count |-> 1, sent |-> FALSE]}
    <2> DEFINE p == [by |-> w, id |-> f, op |-> "put", sk |-> stamp[w], count |-> 1, sent |-> FALSE]
    <2>1. p \in Pending
      BY DEF TypeOK, Pending
    <2> QED
      BY <1>1, <2>1
  <1>2. CASE \E sk \in Keys(items) :
                pending' = pending \cup {[by |-> w, id |-> f, op |-> "update", sk |-> sk,
                              count |-> items[sk].count + 1, sent |-> FALSE]}
    <2>1. PICK sk \in Keys(items) :
             pending' = pending \cup {[by |-> w, id |-> f, op |-> "update", sk |-> sk,
                              count |-> items[sk].count + 1, sent |-> FALSE]}
      BY <1>2
    <2> DEFINE p == [by |-> w, id |-> f, op |-> "update", sk |-> sk,
                     count |-> items[sk].count + 1, sent |-> FALSE]
    <2>2. sk \in Times /\ items[sk].count \in Nat
      BY DEF Keys, Row
    <2>3. p \in Pending
      BY <2>2 DEF Pending
    <2> QED
      BY <2>1, <2>3
  <1> QED
    BY <1>1, <1>2 DEF Decide

\* How each action of a query is turned into the upsert it starts.
LEMMA QueryAdds ==
    ASSUME TypeOK, NEW w \in Writers, NEW f \in FindingIds, Query(w, f)
    PROVE  \E items \in {rows[f], replica[f]}, p \in Pending :
              /\ pending' = pending \cup {p}
              /\ p.by = w /\ p.id = f /\ ~p.sent
              /\ \/ /\ Keys(items) = {}
                    /\ p.op = "put" /\ p.sk = stamp[w] /\ p.count = 1
                 \/ /\ p.sk \in Keys(items)
                    /\ p.op = "update" /\ p.count = items[p.sk].count + 1
  <1>1. PICK items \in {rows[f], replica[f]} : Decide(w, f, items)
    BY DEF Query
  <1>2. items \in [Times -> Row]
    BY DEF TypeOK
  <1>3. PICK S : S = items
    OBVIOUS
  <1>4. S \in [Times -> Row] /\ S \in {rows[f], replica[f]}
    BY <1>2, <1>3
  <1>5. Decide(w, f, S)
    BY <1>1, <1>3
  <1> QED
    BY <1>4, <1>5, DecideAdds

-----------------------------------------------------------------------------
(* Types. *)

LEMMA NoRowTyped == NoRow \in Row
  BY TimesAssumption DEF NoRow, Row

LEMMA TypeInit == Init => TypeOK
  <1> SUFFICES ASSUME Init PROVE TypeOK
    OBVIOUS
  <1>1. now \in Times /\ 0 \in Times
    BY DEF Init
  <1>2. rows \in [FindingIds -> [Times -> Row]] /\ replica = rows
    BY NoRowTyped DEF Init
  <1> QED
    BY <1>1, <1>2 DEF Init, TypeOK

LEMMA WriteTyped ==
    ASSUME TypeOK, NEW p \in pending, Write(p)
    PROVE  TypeOK'
  <1>1. p \in Pending
    BY DEF TypeOK
  <1>2. p.by \in Writers /\ p.id \in FindingIds /\ p.sk \in Times
    BY <1>1 DEF Pending
  <1>3. rows' = [rows EXCEPT ![p.id][p.sk] = Stored(p)]
    BY DEF Write
  <1>4. rows' \in [FindingIds -> [Times -> Row]]
    <2> DEFINE new == Stored(p)
    <2>1. new \in Row
      BY StoredTyped
    <2>2. rows' = [rows EXCEPT ![p.id][p.sk] = new]
      BY <1>3
    <2> HIDE DEF new
    <2> QED
      BY <1>2, <2>1, <2>2 DEF TypeOK
  <1>5. pending' \subseteq Pending
    <2>1. [p EXCEPT !.sent = TRUE] \in Pending
      BY <1>1 DEF Pending
    <2> QED
      BY <2>1 DEF Write, TypeOK
  <1>6. todo' \in [Writers -> SUBSET FindingIds]
    <2>1. todo' = [todo EXCEPT ![p.by] = @ \ {p.id}] \/ todo' = todo
      BY DEF Write
    <2>2. PICK left : left = todo[p.by] \ {p.id}
      OBVIOUS
    <2>3. left \in SUBSET FindingIds /\ todo \in [Writers -> SUBSET FindingIds]
      BY <1>2, <2>2 DEF TypeOK
    <2>4. todo' = [todo EXCEPT ![p.by] = left] \/ todo' = todo
      BY <2>1, <2>2
    <2> QED
      BY <1>2, <2>3, <2>4
  <1> QED
    BY <1>4, <1>5, <1>6 DEF Write, TypeOK

LEMMA TypeStep == TypeOK /\ [Next]_vars => TypeOK'
  <1> SUFFICES ASSUME TypeOK, [Next]_vars PROVE TypeOK'
    OBVIOUS
  <1>1. ASSUME NEW ws \in SUBSET Writers, Invoke(ws) PROVE TypeOK'
    BY <1>1 DEF TypeOK, Invoke
  <1>2. ASSUME NEW w \in Writers, Stamp(w) PROVE TypeOK'
    <2>1. PICK batch \in SUBSET Emits[w] :
             /\ found' = [found EXCEPT ![w] = batch]
             /\ todo' = [todo EXCEPT ![w] = batch]
      BY <1>2 DEF Stamp
    <2>2. batch \in SUBSET FindingIds
      OBVIOUS
    <2> QED
      BY <1>2, <2>1, <2>2 DEF Stamp, TypeOK
  <1>3. ASSUME NEW w \in Writers, NEW f \in FindingIds, Query(w, f) PROVE TypeOK'
    <2>1. PICK p \in Pending : pending' = pending \cup {p}
      BY <1>3, QueryAdds
    <2>2. sights' \in [FindingIds -> Nat]
      BY <1>3 DEF Query, TypeOK
    <2> QED
      BY <1>3, <2>1, <2>2 DEF Query, TypeOK
  <1>4. ASSUME NEW p \in pending, Write(p) PROVE TypeOK'
    BY <1>4, WriteTyped
  <1>5. ASSUME NEW w \in Writers, Return(w) PROVE TypeOK'
    BY <1>5 DEF Return, TypeOK
  <1>6. ASSUME NEW w \in Writers, Raise(w) PROVE TypeOK'
    BY <1>6 DEF Raise, TypeOK
  <1>7. ASSUME NEW f \in FindingIds, NEW t \in Times, Purge(f, t) PROVE TypeOK'
    BY <1>7, NoRowTyped DEF Purge, TypeOK
  <1>8. ASSUME NEW f \in FindingIds, Replicate(f) PROVE TypeOK'
    BY <1>8 DEF Replicate, TypeOK
  <1>9. CASE Tick
    BY <1>9 DEF Tick, TypeOK
  <1>10. CASE UNCHANGED vars
    BY <1>10 DEF TypeOK
  <1> QED
    BY <1>1, <1>2, <1>3, <1>4, <1>5, <1>6, <1>7, <1>8, <1>9, <1>10
       DEF Next, WriterStep, Environment

\* TypeOK: no operation of any scanner, nor DynamoDB, stores an item or keeps a
\* position that the table or the batch loop cannot have.
THEOREM FindingsTypeCorrect == Spec => []TypeOK
  BY TypeInit, TypeStep, PTL DEF Spec

-----------------------------------------------------------------------------
(* Upserts in flight, and what they count. *)

LEMMA PendingInit == Init => PendingInv
  BY DEF Init, PendingInv, CountNeverOverstates, NoRow

LEMMA QueryCounts ==
    ASSUME TypeOK, PendingInv, NEW w \in Writers, NEW f \in FindingIds, Query(w, f)
    PROVE  PendingInv'
  <1>1. PICK items \in {rows[f], replica[f]}, p \in Pending :
              /\ pending' = pending \cup {p}
              /\ p.by = w /\ p.id = f /\ ~p.sent
              /\ \/ /\ Keys(items) = {}
                    /\ p.op = "put" /\ p.sk = stamp[w] /\ p.count = 1
                 \/ /\ p.sk \in Keys(items)
                    /\ p.op = "update" /\ p.count = items[p.sk].count + 1
    BY QueryAdds
  <1>2. sights' = [sights EXCEPT ![f] = @ + 1]
    BY DEF Query
  <1>3. \A g \in FindingIds : /\ sights[g] \in Nat /\ sights'[g] \in Nat
                              /\ sights[g] <= sights'[g]
    BY <1>2 DEF TypeOK
  <1>4. sights'[f] = sights[f] + 1
    BY <1>2 DEF TypeOK
  <1>5. p.count \in 1..sights'[f]
    <2>1. CASE p.count = 1
      BY <2>1, <1>3, <1>4
    <2>2. CASE p.sk \in Keys(items) /\ p.count = items[p.sk].count + 1
      <3>1. p.sk \in Times
        BY <2>2 DEF Keys
      <3>2. items[p.sk].count \in Nat /\ items[p.sk].count <= sights[f]
        <4>1. rows[f][p.sk].count <= sights[f] /\ replica[f][p.sk].count <= sights[f]
          BY <3>1 DEF PendingInv, CountNeverOverstates
        <4>2. rows[f][p.sk] \in Row /\ replica[f][p.sk] \in Row
          BY <3>1 DEF TypeOK
        <4> QED
          BY <4>1, <4>2 DEF Row
      <3> QED
        BY <2>2, <3>2, <1>3, <1>4
    <2> QED
      BY <1>1, <2>1, <2>2
  <1>6. \A q \in pending : q.count \in 1..sights'[q.id]
    <2> TAKE q \in pending
    <2>1. q.id \in FindingIds /\ q.count \in 1..sights[q.id]
      BY DEF PendingInv, TypeOK, Pending
    <2> QED
      BY <2>1, <1>3
  <1>7. \A g \in FindingIds, t \in Times :
           rows'[g][t].count <= sights'[g] /\ replica'[g][t].count <= sights'[g]
    <2> TAKE g \in FindingIds, t \in Times
    <2>1. rows[g][t].count <= sights[g] /\ replica[g][t].count <= sights[g]
      BY DEF PendingInv, CountNeverOverstates
    <2>2. rows[g][t].count \in Nat /\ replica[g][t].count \in Nat
      BY DEF TypeOK, Row
    <2>3. rows' = rows /\ replica' = replica
      BY DEF Query
    <2> QED
      BY <2>1, <2>2, <2>3, <1>3
  <1>8. \A q \in pending' : stage'[q.by] = "upserting" /\ q.id \in todo'[q.by]
    BY <1>1 DEF Query, PendingInv
  <1>9. \A v \in Writers : todo'[v] \subseteq found'[v]
    BY DEF Query, PendingInv
  <1>10. \A q, r \in pending' : q.by = r.by => q = r
    BY <1>1 DEF Query, PendingInv
  <1> QED
    BY <1>1, <1>5, <1>6, <1>7, <1>8, <1>9, <1>10 DEF PendingInv, CountNeverOverstates

LEMMA WriteCounts ==
    ASSUME TypeOK, PendingInv, NEW p \in pending, Write(p)
    PROVE  PendingInv'
  <1>1. /\ p \in Pending /\ p.by \in Writers /\ p.id \in FindingIds /\ p.sk \in Times
        /\ stage[p.by] = "upserting" /\ p.id \in todo[p.by]
        /\ p.count \in 1..sights[p.id]
    BY DEF TypeOK, Pending, PendingInv
  <1>2. /\ sights' = sights /\ stage' = stage /\ found' = found /\ replica' = replica
    BY DEF Write
  <1>3. PICK row \in Row : row = Stored(p) /\ row.count = p.count
    BY StoredTyped DEF Stored
  <1>4. rows' = [rows EXCEPT ![p.id][p.sk] = row]
    BY <1>3 DEF Write
  <1>5. \A g \in FindingIds, t \in Times :
           rows'[g][t].count <= sights[g]
    <2> SUFFICES ASSUME NEW g \in FindingIds, NEW t \in Times
                 PROVE  rows'[g][t].count <= sights[g]
      OBVIOUS
    <2>1. rows'[g][t] = IF g = p.id /\ t = p.sk THEN row ELSE rows[g][t]
      BY <1>1, <1>4 DEF TypeOK
    <2>2. rows[g][t].count <= sights[g]
      BY DEF PendingInv, CountNeverOverstates
    <2>3. row.count <= sights[p.id]
      BY <1>1, <1>3 DEF TypeOK
    <2> QED
      BY <2>1, <2>2, <2>3
  <1>6. \A w \in Writers : todo'[w] \subseteq todo[w]
    <2>1. todo' = [todo EXCEPT ![p.by] = @ \ {p.id}] \/ todo' = todo
      BY DEF Write
    <2> QED
      BY <1>1, <2>1 DEF TypeOK
  <1>7. \A q \in pending' : /\ stage[q.by] = "upserting" /\ q.id \in todo'[q.by]
                            /\ q.count \in 1..sights[q.id]
    <2>1. CASE /\ pending' = pending \ {p}
               /\ todo' = [todo EXCEPT ![p.by] = @ \ {p.id}]
      <3> SUFFICES ASSUME NEW q \in pending, q # p
                   PROVE  /\ stage[q.by] = "upserting" /\ q.id \in todo'[q.by]
                          /\ q.count \in 1..sights[q.id]
        BY <2>1
      <3>1. /\ stage[q.by] = "upserting" /\ q.id \in todo[q.by]
            /\ q.count \in 1..sights[q.id] /\ q.by \in Writers
        BY DEF PendingInv, TypeOK, Pending
      <3>2. q.by # p.by
        BY DEF PendingInv
      <3> QED
        BY <2>1, <3>1, <3>2, <1>1 DEF TypeOK
    <2>2. CASE /\ pending' = (pending \ {p}) \cup {[p EXCEPT !.sent = TRUE]}
               /\ todo' = todo
      <3>1. PICK r \in Pending : /\ r = [p EXCEPT !.sent = TRUE]
                                 /\ r.by = p.by /\ r.id = p.id /\ r.count = p.count
        BY <1>1, Resent
      <3>2. pending' = (pending \ {p}) \cup {r}
        BY <2>2, <3>1
      <3> QED
        BY <1>1, <2>2, <3>1, <3>2 DEF PendingInv
    <2> QED
      BY <2>1, <2>2 DEF Write
  <1>8. \A q, r \in pending' : q.by = r.by => q = r
    <2>1. CASE pending' = pending \ {p}
      BY <2>1 DEF PendingInv
    <2>2. CASE pending' = (pending \ {p}) \cup {[p EXCEPT !.sent = TRUE]}
      <3>1. PICK r \in Pending : r = [p EXCEPT !.sent = TRUE] /\ r.by = p.by
        BY <1>1, Resent
      <3>2. pending' = (pending \ {p}) \cup {r}
        BY <2>2, <3>1
      <3>3. \A q \in pending \ {p} : q.by # p.by
        BY DEF PendingInv
      <3>4. \A a, b \in pending : a.by = b.by => a = b
        BY DEF PendingInv
      <3> QED
        BY <3>1, <3>2, <3>3, <3>4
    <2> QED
      BY <2>1, <2>2 DEF Write
  <1> QED
    BY <1>2, <1>5, <1>6, <1>7, <1>8 DEF PendingInv, CountNeverOverstates

LEMMA PendingStep == TypeOK /\ PendingInv /\ [Next]_vars => PendingInv'
  <1> SUFFICES ASSUME TypeOK, PendingInv, [Next]_vars PROVE PendingInv'
    OBVIOUS
  <1>1. ASSUME NEW ws \in SUBSET Writers, Invoke(ws) PROVE PendingInv'
    <2>1. \A p \in pending : p.by \in Writers /\ p.by \notin ws
      BY <1>1 DEF Invoke, Running, PendingInv, TypeOK, Pending
    <2> QED
      BY <1>1, <2>1 DEF Invoke, PendingInv, CountNeverOverstates
  <1>2. ASSUME NEW w \in Writers, Stamp(w) PROVE PendingInv'
    <2>1. PICK batch \in SUBSET Emits[w] :
             /\ found' = [found EXCEPT ![w] = batch]
             /\ todo' = [todo EXCEPT ![w] = batch]
      BY <1>2 DEF Stamp
    <2>2. \A p \in pending : p.by \in Writers /\ p.by # w
      BY <1>2 DEF Stamp, PendingInv, TypeOK, Pending
    <2>3. \A v \in Writers : todo'[v] \subseteq found'[v]
      BY <2>1 DEF PendingInv, TypeOK
    <2>4. \A p \in pending : stage'[p.by] = stage[p.by] /\ todo'[p.by] = todo[p.by]
      BY <1>2, <2>1, <2>2 DEF Stamp, TypeOK
    <2> QED
      BY <1>2, <2>3, <2>4 DEF Stamp, PendingInv, CountNeverOverstates
  <1>3. ASSUME NEW w \in Writers, NEW f \in FindingIds, Query(w, f) PROVE PendingInv'
    BY <1>3, QueryCounts
  <1>4. ASSUME NEW p \in pending, Write(p) PROVE PendingInv'
    BY <1>4, WriteCounts
  <1>5. ASSUME NEW w \in Writers, Return(w) PROVE PendingInv'
    <2>1. \A p \in pending : p.by \in Writers /\ p.by # w
      BY <1>5 DEF Return, PendingInv, TypeOK, Pending
    <2>2. \A p \in pending : stage'[p.by] = stage[p.by]
      BY <1>5, <2>1 DEF Return, TypeOK
    <2> QED
      BY <1>5, <2>2 DEF Return, PendingInv, CountNeverOverstates
  <1>6. ASSUME NEW w \in Writers, Raise(w) PROVE PendingInv'
    <2>1. \A p \in pending' : p \in pending /\ p.by \in Writers /\ p.by # w
      BY <1>6 DEF Raise, TypeOK, Pending
    <2>2. \A p \in pending' : stage'[p.by] = stage[p.by]
      BY <1>6, <2>1 DEF Raise, TypeOK
    <2> QED
      BY <1>6, <2>1, <2>2 DEF Raise, PendingInv, CountNeverOverstates
  <1>7. ASSUME NEW f \in FindingIds, NEW t \in Times, Purge(f, t) PROVE PendingInv'
    <2>1. \A g \in FindingIds, u \in Times :
             rows'[g][u] = rows[g][u] \/ rows'[g][u].count = 0
      BY <1>7 DEF Purge, TypeOK, NoRow
    <2>2. \A g \in FindingIds : sights[g] \in Nat
      BY DEF TypeOK
    <2>3. \A g \in FindingIds, u \in Times : rows'[g][u].count <= sights[g]
      BY <2>1, <2>2 DEF PendingInv, CountNeverOverstates
    <2> QED
      BY <1>7, <2>3 DEF Purge, PendingInv, CountNeverOverstates
  <1>8. ASSUME NEW f \in FindingIds, Replicate(f) PROVE PendingInv'
    <2>1. \A g \in FindingIds, u \in Times :
             replica'[g][u] \in {replica[g][u], rows[g][u]}
      BY <1>8 DEF Replicate, TypeOK
    <2>2. \A g \in FindingIds, u \in Times : replica'[g][u].count <= sights[g]
      BY <2>1 DEF PendingInv, CountNeverOverstates
    <2> QED
      BY <1>8, <2>2 DEF Replicate, PendingInv, CountNeverOverstates
  <1>9. CASE Tick
    BY <1>9 DEF Tick, PendingInv, CountNeverOverstates
  <1>10. CASE UNCHANGED vars
    BY <1>10 DEF PendingInv, CountNeverOverstates
  <1> QED
    BY <1>1, <1>2, <1>3, <1>4, <1>5, <1>6, <1>7, <1>8, <1>9, <1>10
       DEF Next, WriterStep, Environment

-----------------------------------------------------------------------------
(* Stamps and the clock. *)

LEMMA ClockStep == TypeOK /\ ClockInv /\ [Next]_vars => ClockInv'
  <1> SUFFICES ASSUME TypeOK, ClockInv, [Next]_vars, NEW w \in Writers
               PROVE  /\ stamp'[w] <= now'
                      /\ stage'[w] = "upserting" => now' <= stamp'[w] + Lifetime
    BY DEF ClockInv
  <1> USE DEF ClockInv
  <1>0. now \in Nat /\ stamp[w] \in Nat
    BY DEF TypeOK
  <1>1. CASE \E ws \in SUBSET Writers : Invoke(ws)
    BY <1>1 DEF Invoke
  <1>2. ASSUME NEW v \in Writers, Stamp(v)
        PROVE  /\ stamp'[w] <= now'
               /\ stage'[w] = "upserting" => now' <= stamp'[w] + Lifetime
    <2>1. CASE w = v
      <3>1. stamp'[w] = now /\ now' = now
        BY <1>2, <2>1 DEF Stamp, TypeOK
      <3> QED
        BY <3>1, <1>0
    <2>2. CASE w # v
      BY <1>2, <2>2 DEF Stamp, TypeOK
    <2> QED
      BY <2>1, <2>2
  <1>3. CASE \E v \in Writers, f \in FindingIds : Query(v, f)
    BY <1>3 DEF Query
  <1>4. CASE \E p \in pending : Write(p)
    BY <1>4 DEF Write
  <1>5. CASE \E v \in Writers : Return(v)
    BY <1>5 DEF Return, TypeOK
  <1>6. CASE \E v \in Writers : Raise(v)
    BY <1>6 DEF Raise, TypeOK
  <1>7. CASE \E f \in FindingIds, t \in Times : Purge(f, t)
    BY <1>7 DEF Purge
  <1>8. CASE \E f \in FindingIds : Replicate(f)
    BY <1>8 DEF Replicate
  <1>9. CASE Tick
    BY <1>9, <1>0 DEF Tick
  <1>10. CASE UNCHANGED vars
    BY <1>10
  <1> QED
    BY <1>1, <1>2, <1>3, <1>4, <1>5, <1>6, <1>7, <1>8, <1>9, <1>10
       DEF Next, WriterStep, Environment

-----------------------------------------------------------------------------
(* What has been upserted stays recorded. *)

Fresh(w, f) == \E t \in Keys(rows[f]) : rows[f][t].last + Lifetime >= stamp[w]

\* A write may set last_seen of a row back, but only to the stamp of a running
\* invocation, which is at most a lifetime old.
LEMMA WriteRecords ==
    ASSUME TypeOK, PendingInv, ClockInv, RecordedInv, NEW p \in pending, Write(p),
           NEW w \in Writers, stamp[w] + TTL >= now + Lifetime,
           NEW f \in found[w], f \notin todo'[w]
    PROVE  Fresh(w, f)'
  <1>1. /\ p.by \in Writers /\ p.id \in FindingIds /\ p.sk \in Times
        /\ stage[p.by] = "upserting" /\ p.count \in Nat /\ p.count > 0
    BY DEF TypeOK, Pending, PendingInv
  <1>2. f \in FindingIds /\ stamp' = stamp
    BY DEF TypeOK, Write
  <1>3. PICK row \in Row : row.count = p.count /\ row.last = stamp[p.by] /\ row = Stored(p)
    BY StoredTyped DEF Stored
  <1>4. rows' = [rows EXCEPT ![p.id][p.sk] = row]
    BY <1>3 DEF Write
  <1>5. \A g \in FindingIds, t \in Times :
           rows'[g][t] = IF g = p.id /\ t = p.sk THEN row ELSE rows[g][t]
    BY <1>1, <1>4 DEF TypeOK
  <1>6. row.last + Lifetime >= stamp[w]
    <2>1. now <= stamp[p.by] + Lifetime /\ stamp[w] <= now
      BY <1>1 DEF ClockInv
    <2>2. now \in Nat /\ stamp[p.by] \in Nat /\ stamp[w] \in Nat
      BY <1>1 DEF TypeOK
    <2> QED
      BY <1>3, <2>1, <2>2
  <1>7. CASE f = p.id
    <2>1. p.sk \in Keys(rows'[f]) /\ rows'[f][p.sk] = row
      BY <1>1, <1>3, <1>5, <1>7 DEF Keys
    <2> QED
      BY <1>2, <1>6, <2>1 DEF Fresh
  <1>8. CASE f # p.id
    <2>1. f \notin todo[w]
      <3>1. todo' = [todo EXCEPT ![p.by] = @ \ {p.id}] \/ todo' = todo
        BY DEF Write
      <3> QED
        BY <1>1, <1>8, <3>1 DEF TypeOK
    <2>2. PICK t \in Keys(rows[f]) : rows[f][t].last + Lifetime >= stamp[w]
      BY <2>1 DEF RecordedInv
    <2>3. t \in Times /\ rows'[f][t] = rows[f][t]
      BY <1>2, <1>5, <1>8, <2>2 DEF Keys
    <2>4. t \in Keys(rows'[f])
      BY <2>2, <2>3 DEF Keys
    <2> QED
      BY <1>2, <2>2, <2>3, <2>4 DEF Fresh
  <1> QED
    BY <1>7, <1>8

\* The TTL takes no row that is recent enough for a stamp it must answer for.
LEMMA PurgeRecords ==
    ASSUME TypeOK, RecordedInv, NEW g \in FindingIds, NEW u \in Times, Purge(g, u),
           NEW w \in Writers, stamp[w] + TTL >= now + Lifetime,
           NEW f \in found[w], f \notin todo[w]
    PROVE  Fresh(w, f)'
  <1>1. f \in FindingIds /\ stamp' = stamp
    BY DEF TypeOK, Purge, writerVars
  <1>2. PICK t \in Keys(rows[f]) : rows[f][t].last + Lifetime >= stamp[w]
    BY DEF RecordedInv
  <1>3. t \in Times /\ rows[f][t] \in Row
    BY <1>1, <1>2 DEF Keys, TypeOK
  <1>4. ~(f = g /\ t = u)
    <2> SUFFICES ASSUME f = g, t = u PROVE FALSE
      OBVIOUS
    <2>1. rows[f][t].last + TTL < now
      BY DEF Purge, Expired
    <2>2. rows[f][t].last \in Nat
      BY <1>3 DEF Row
    <2>3. stamp[w] \in Nat /\ now \in Nat
      BY DEF TypeOK
    <2> QED
      BY <1>2, <2>1, <2>2, <2>3
  <1>5. rows'[f][t] = rows[f][t]
    BY <1>1, <1>3, <1>4 DEF Purge, TypeOK
  <1>6. t \in Keys(rows'[f])
    BY <1>2, <1>3, <1>5 DEF Keys
  <1> QED
    BY <1>1, <1>2, <1>5, <1>6 DEF Fresh

LEMMA RecordedStep == IInv /\ [Next]_vars => RecordedInv'
  <1> SUFFICES ASSUME IInv, [Next]_vars, NEW w \in Writers,
                      stamp'[w] + TTL >= now' + Lifetime,
                      NEW f \in found'[w], f \notin todo'[w]
               PROVE  Fresh(w, f)'
    BY DEF RecordedInv, Fresh
  <1>0. TypeOK /\ PendingInv /\ ClockInv /\ RecordedInv
    BY DEF IInv
  <1>a. ASSUME rows' = rows, stamp'[w] = stamp[w], now' = now,
               f \in found[w], f \notin todo[w]
        PROVE  Fresh(w, f)'
    BY <1>0, <1>a DEF Fresh, RecordedInv
  <1>1. ASSUME NEW ws \in SUBSET Writers, Invoke(ws) PROVE Fresh(w, f)'
    <2>1. w \notin ws
      BY <1>1 DEF Invoke
    <2> QED
      BY <1>1, <2>1, <1>a DEF Invoke
  <1>2. ASSUME NEW v \in Writers, Stamp(v) PROVE Fresh(w, f)'
    <2>1. w # v
      BY <1>0, <1>2 DEF Stamp, TypeOK
    <2> QED
      BY <1>0, <1>2, <2>1, <1>a DEF Stamp, TypeOK
  <1>3. ASSUME NEW v \in Writers, NEW g \in FindingIds, Query(v, g) PROVE Fresh(w, f)'
    BY <1>3, <1>a DEF Query
  <1>4. ASSUME NEW p \in pending, Write(p) PROVE Fresh(w, f)'
    <2>1. found' = found /\ stamp' = stamp /\ now' = now
      BY <1>4 DEF Write
    <2> QED
      BY <1>0, <1>4, <2>1, WriteRecords
  <1>5. ASSUME NEW v \in Writers, Return(v) PROVE Fresh(w, f)'
    BY <1>5, <1>a DEF Return
  <1>6. ASSUME NEW v \in Writers, Raise(v) PROVE Fresh(w, f)'
    BY <1>6, <1>a DEF Raise
  <1>7. ASSUME NEW g \in FindingIds, NEW u \in Times, Purge(g, u) PROVE Fresh(w, f)'
    <2>1. found' = found /\ todo' = todo /\ stamp' = stamp /\ now' = now
      BY <1>7 DEF Purge
    <2> QED
      BY <1>0, <1>7, <2>1, PurgeRecords
  <1>8. ASSUME NEW g \in FindingIds, Replicate(g) PROVE Fresh(w, f)'
    BY <1>8, <1>a DEF Replicate
  <1>9. CASE Tick
    <2>1. stamp' = stamp /\ now' = now + 1 /\ rows' = rows /\ found' = found /\ todo' = todo
      BY <1>9 DEF Tick
    <2>2. stamp[w] + TTL >= now + Lifetime
      <3>1. stamp[w] \in Nat /\ now \in Nat
        BY <1>0 DEF TypeOK
      <3> QED
        BY <2>1, <3>1
    <2> QED
      BY <1>0, <2>1, <2>2 DEF Fresh, RecordedInv
  <1>10. CASE UNCHANGED vars
    BY <1>10, <1>a
  <1> QED
    BY <1>1, <1>2, <1>3, <1>4, <1>5, <1>6, <1>7, <1>8, <1>9, <1>10
       DEF Next, WriterStep, Environment

-----------------------------------------------------------------------------
(* What scanners, DynamoDB and the clock do to the table. *)

\* A row is kept, or written by an invocation not older than a lifetime, or
\* purged after its TTL.
Kept(f, t) == rows'[f][t] = rows[f][t]
Written(f, t) == /\ t \in Keys(rows'[f])
                 /\ rows'[f][t].last <= now /\ now <= rows'[f][t].last + Lifetime
                 /\ \E p \in pending : p.sk = t
Purged(f, t) == /\ t \notin Keys(rows'[f]) /\ t \in Keys(rows[f])
                /\ rows[f][t].last + TTL < now

LEMMA RowNats ==
    ASSUME TypeOK, NEW f \in FindingIds, NEW t \in Times
    PROVE  /\ rows[f][t] \in Row /\ rows[f][t].last \in Nat
           /\ replica[f][t] \in Row /\ replica[f][t].last \in Nat
           /\ t \in Nat /\ now \in Nat
  <1>1. rows[f][t] \in Row /\ replica[f][t] \in Row
    BY DEF TypeOK
  <1>2. \A row \in Row : row.last \in Nat
    BY DEF Row
  <1> QED
    BY <1>1, <1>2 DEF TypeOK

LEMMA WriteEffect ==
    ASSUME IInv, NEW p \in pending, Write(p), NEW f \in FindingIds, NEW t \in Times
    PROVE  Kept(f, t) \/ Written(f, t)
  <1>1. /\ p.by \in Writers /\ p.id \in FindingIds /\ p.sk \in Times
        /\ stage[p.by] = "upserting" /\ p.count \in Nat /\ p.count > 0
    BY DEF IInv, TypeOK, Pending, PendingInv
  <1>2. PICK row \in Row : row.count = p.count /\ row.last = stamp[p.by] /\ row = Stored(p)
    BY StoredTyped DEF Stored, IInv
  <1>3. rows' = [rows EXCEPT ![p.id][p.sk] = row]
    BY <1>2 DEF Write
  <1>4. rows'[f][t] = IF f = p.id /\ t = p.sk THEN row ELSE rows[f][t]
    BY <1>1, <1>3 DEF IInv, TypeOK
  <1>5. row.last <= now /\ now <= row.last + Lifetime
    BY <1>1, <1>2 DEF IInv, ClockInv
  <1>6. CASE f = p.id /\ t = p.sk
    BY <1>1, <1>2, <1>4, <1>5, <1>6 DEF Written, Keys
  <1>7. CASE ~(f = p.id /\ t = p.sk)
    BY <1>4, <1>7 DEF Kept
  <1> QED
    BY <1>6, <1>7

LEMMA RowEffect ==
    ASSUME IInv, [Next]_vars, NEW f \in FindingIds, NEW t \in Times
    PROVE  Kept(f, t) \/ Written(f, t) \/ Purged(f, t)
  <1>1. CASE rows' = rows
    BY <1>1 DEF Kept
  <1>2. ASSUME NEW p \in pending, Write(p)
        PROVE  Kept(f, t) \/ Written(f, t)
    BY <1>2, WriteEffect
  <1>3. ASSUME NEW g \in FindingIds, NEW u \in Times, Purge(g, u)
        PROVE  Kept(f, t) \/ Purged(f, t)
    <2>1. rows'[f][t] = IF f = g /\ t = u THEN NoRow ELSE rows[f][t]
      BY <1>3 DEF Purge, IInv, TypeOK
    <2> QED
      BY <1>3, <2>1 DEF Purge, Expired, Kept, Purged, Keys, NoRow
  <1> QED
    BY <1>1, <1>2, <1>3 DEF Next, WriterStep, Environment, Invoke, Stamp, Query,
                            Return, Raise, Replicate, Tick

\* A lagging copy stays as it is or catches up.
LEMMA CopyEffect ==
    ASSUME TypeOK, [Next]_vars, NEW f \in FindingIds
    PROVE  replica'[f] = replica[f] \/ (replica'[f] = rows[f] /\ rows' = rows)
  <1>1. ASSUME NEW g \in FindingIds, Replicate(g)
        PROVE  replica'[f] = replica[f] \/ (replica'[f] = rows[f] /\ rows' = rows)
    BY <1>1 DEF Replicate, TypeOK
  <1>2. CASE replica' = replica
    BY <1>2
  <1> QED
    BY <1>1, <1>2 DEF Next, WriterStep, Environment, Invoke, Stamp, Query, Write,
                      Return, Raise, Purge, Tick

LEMMA ClockEffect ==
    ASSUME TypeOK, [Next]_vars
    PROVE  now' = now \/ (now' = now + 1 /\ rows' = rows /\ replica' = replica)
  <1>1. CASE Tick
    BY <1>1 DEF Tick
  <1>2. CASE now' = now
    BY <1>2
  <1> QED
    BY <1>1, <1>2 DEF Next, WriterStep, Environment, Invoke, Stamp, Query, Write,
                      Return, Raise, Purge, Replicate

-----------------------------------------------------------------------------
(* How far the copies are apart. *)

LEMMA CopyInit == Init => CopyInv
  <1> SUFFICES ASSUME Init PROVE CopyInv
    OBVIOUS
  <1>1. \A f \in FindingIds : Keys(rows[f]) = {} /\ Keys(replica[f]) = {}
    BY DEF Init, Keys, NoRow
  <1> QED
    BY <1>1 DEF Init, CopyInv

\* The sort key that a write will have is not in the future.
LEMMA PendingKeys ==
    ASSUME IInv, CopyInv, [Next]_vars, NEW p \in pending'
    PROVE  p.sk <= now'
  <1>0. TypeOK /\ ClockInv
    BY DEF IInv
  <1>1. now \in Nat /\ (now' = now \/ now' = now + 1)
    BY <1>0, ClockEffect DEF TypeOK
  <1>2. CASE p \in pending
    <2>1. p.sk <= now /\ p.sk \in Nat
      BY <1>0, <1>2 DEF CopyInv, TypeOK, Pending
    <2> QED
      BY <1>1, <2>1
  <1>3. ASSUME NEW w \in Writers, NEW f \in FindingIds, Query(w, f), p \notin pending
        PROVE  p.sk <= now'
    <2>1. PICK items \in {rows[f], replica[f]}, q \in Pending :
             /\ pending' = pending \cup {q}
             /\ \/ q.sk = stamp[w]
                \/ q.sk \in Keys(items)
      BY <1>0, <1>3, QueryAdds
    <2>2. p = q /\ now' = now
      BY <1>3, <2>1 DEF Query
    <2>3. stamp[w] <= now
      BY <1>0 DEF ClockInv
    <2>4. \A t \in Keys(items) : t <= now
      BY <2>1 DEF CopyInv, Keys
    <2> QED
      BY <2>1, <2>2, <2>3, <2>4
  <1>4. ASSUME NEW q \in pending, Write(q), p \notin pending
        PROVE  p.sk <= now'
    <2>1. q \in Pending /\ q.sk <= now
      BY <1>0 DEF CopyInv, TypeOK
    <2>2. p = [q EXCEPT !.sent = TRUE]
      BY <1>4 DEF Write
    <2>3. p.sk = q.sk
      BY <2>1, <2>2, Resent
    <2> QED
      BY <1>4, <2>1, <2>3 DEF Write
  <1> QED
    BY <1>2, <1>3, <1>4 DEF Next, WriterStep, Environment, Invoke, Stamp,
                            Return, Raise, Purge, Replicate, Tick

LEMMA CopyStep ==
    ASSUME IInv, CopyInv, [Next]_vars
    PROVE  CopyInv'
  <1>0. TypeOK
    BY DEF IInv
  <1>1. \A p \in pending' : p.sk <= now'
    BY PendingKeys
  <1>2. ASSUME NEW f \in FindingIds, NEW t \in Times
        PROVE  /\ t \in Keys(rows'[f]) =>
                     t <= now' /\ rows'[f][t].last <= now' /\ t <= rows'[f][t].last + Lifetime
               /\ t \in Keys(replica'[f]) =>
                     /\ t <= now' /\ replica'[f][t].last <= now'
                     /\ \/ /\ t \in Keys(rows'[f])
                           /\ replica'[f][t].last <= rows'[f][t].last + Lifetime
                        \/ /\ t + TTL < now' + Lifetime
                           /\ replica'[f][t].last + TTL < now' + Lifetime
    <2>1. /\ rows[f][t].last \in Nat /\ replica[f][t].last \in Nat
          /\ t \in Nat /\ now \in Nat
      BY <1>0, RowNats
    <2>2. TypeOK'
      BY <1>0, TypeStep
    <2>3. now' \in Nat /\ rows'[f][t].last \in Nat /\ replica'[f][t].last \in Nat
      <3>1. \A row \in Row : row.last \in Nat
        BY DEF Row
      <3> QED
        BY <2>2, <3>1 DEF TypeOK
    <2>4. now <= now'
      BY <1>0, <2>1, ClockEffect
    <2>5. /\ t \in Keys(rows[f]) =>
                t <= now /\ rows[f][t].last <= now /\ t <= rows[f][t].last + Lifetime
          /\ t \in Keys(replica[f]) =>
                /\ t <= now /\ replica[f][t].last <= now
                /\ \/ /\ t \in Keys(rows[f])
                      /\ replica[f][t].last <= rows[f][t].last + Lifetime
                   \/ /\ t + TTL < now + Lifetime
                      /\ replica[f][t].last + TTL < now + Lifetime
      BY DEF CopyInv
    <2>6. Kept(f, t) \/ Written(f, t) \/ Purged(f, t)
      BY RowEffect
    <2>7. Kept(f, t) => (t \in Keys(rows'[f]) <=> t \in Keys(rows[f]))
      BY DEF Kept, Keys
    <2>8. \A p \in pending : p.sk <= now
      BY DEF CopyInv
    <2>9. CASE replica'[f] = replica[f]
      <3>1. CASE Kept(f, t)
        <4>1. /\ t <= now => t <= now'
              /\ rows[f][t].last <= now => rows[f][t].last <= now'
              /\ replica[f][t].last <= now => replica[f][t].last <= now'
              /\ t + TTL < now + Lifetime => t + TTL < now' + Lifetime
              /\ replica[f][t].last + TTL < now + Lifetime
                    => replica[f][t].last + TTL < now' + Lifetime
          BY <2>1, <2>3, <2>4
        <4>2. rows'[f][t] = rows[f][t]
          BY <3>1 DEF Kept
        <4> QED
          BY <2>5, <2>7, <2>9, <3>1, <4>1, <4>2
      <3>2. CASE Written(f, t)
        <4>1. t <= now
          BY <2>8, <3>2 DEF Written
        <4>2. /\ t \in Keys(rows'[f])
              /\ rows'[f][t].last <= now /\ now <= rows'[f][t].last + Lifetime
          BY <3>2 DEF Written
        <4>3. t <= now' /\ rows'[f][t].last <= now' /\ t <= rows'[f][t].last + Lifetime
          BY <2>1, <2>3, <2>4, <4>1, <4>2
        <4>4. t \in Keys(replica'[f]) => replica'[f][t].last <= now
          BY <2>5, <2>9
        <4>5. t \in Keys(replica'[f]) =>
                 /\ replica'[f][t].last <= now'
                 /\ replica'[f][t].last <= rows'[f][t].last + Lifetime
          BY <2>1, <2>3, <2>4, <4>2, <4>4
        <4> QED
          BY <4>2, <4>3, <4>5
      <3>3. CASE Purged(f, t)
        <4>1. /\ t \notin Keys(rows'[f]) /\ t \in Keys(rows[f])
              /\ rows[f][t].last + TTL < now
          BY <3>3 DEF Purged
        <4>2. t <= rows[f][t].last + Lifetime
          BY <2>5, <4>1
        <4>3. t \in Keys(replica[f]) =>
                 /\ t <= now /\ replica[f][t].last <= now
                 /\ \/ replica[f][t].last <= rows[f][t].last + Lifetime
                    \/ replica[f][t].last + TTL < now + Lifetime
          BY <2>5
        <4>4. t + TTL < now + Lifetime
          BY <2>1, <4>1, <4>2
        <4>5. t \in Keys(replica[f]) =>
                 /\ t <= now /\ replica[f][t].last <= now
                 /\ replica[f][t].last + TTL < now + Lifetime
          BY <2>1, <4>1, <4>3
        <4>6. /\ t <= now => t <= now'
              /\ replica[f][t].last <= now => replica[f][t].last <= now'
              /\ t + TTL < now' + Lifetime
              /\ replica[f][t].last + TTL < now + Lifetime
                    => replica[f][t].last + TTL < now' + Lifetime
          BY <2>1, <2>3, <2>4, <4>4
        <4> QED
          BY <2>9, <4>1, <4>5, <4>6
      <3> QED
        BY <2>6, <3>1, <3>2, <3>3
    <2>10. CASE replica'[f] = rows[f] /\ rows' = rows
      <3>1. t \in Keys(rows[f]) =>
               t <= now' /\ rows[f][t].last <= now' /\ t <= rows[f][t].last + Lifetime
        BY <2>1, <2>3, <2>4, <2>5
      <3>2. rows[f][t].last <= rows[f][t].last + Lifetime
        BY <2>1
      <3> QED
        BY <2>10, <3>1, <3>2
    <2> QED
      BY <1>0, <2>9, <2>10, CopyEffect
  <1> QED
    BY <1>1, <1>2 DEF CopyInv

-----------------------------------------------------------------------------
(* Rows that an update made. *)

TornRow(f, t) == t \in Keys(rows[f]) /\ ~rows[f][t].whole

\* An update that is under way has its row, or that row's TTL is over.
LEMMA UpdatesFindTheirRow ==
    ASSUME IInv, CopyInv, TornInv, [Next]_vars, NEW p \in pending', p.op = "update"
    PROVE  p.sk \in Keys(rows'[p.id]) \/ p.sk + TTL < now' + Lifetime
  <1>0. TypeOK /\ TypeOK' /\ now \in Nat /\ (now' = now \/ now' = now + 1)
    BY TypeStep, ClockEffect DEF IInv, TypeOK
  <1>1. /\ p \in Pending /\ p.id \in FindingIds /\ p.sk \in Times /\ p.sk \in Nat
        /\ rows[p.id][p.sk].last \in Nat
    BY <1>0, RowNats DEF TypeOK, Pending
  <1>2. CASE p \in pending
    <2>1. p.sk \in Keys(rows[p.id]) \/ p.sk + TTL < now + Lifetime
      BY <1>2 DEF TornInv
    <2>2. CASE Kept(p.id, p.sk)
      BY <1>0, <1>1, <2>1, <2>2 DEF Kept, Keys
    <2>3. CASE Purged(p.id, p.sk)
      <3>1. p.sk <= rows[p.id][p.sk].last + Lifetime
        BY <1>1, <2>3 DEF CopyInv, Purged
      <3> QED
        BY <1>0, <1>1, <2>3, <3>1 DEF Purged
    <2> QED
      BY <1>1, <2>2, <2>3, RowEffect DEF Written
  <1>3. ASSUME NEW w \in Writers, NEW f \in FindingIds, Query(w, f), p \notin pending
        PROVE  p.sk \in Keys(rows'[p.id]) \/ p.sk + TTL < now' + Lifetime
    <2>1. PICK items \in {rows[f], replica[f]}, q \in Pending :
             /\ pending' = pending \cup {q}
             /\ q.id = f /\ (q.op = "put" \/ q.sk \in Keys(items))
      BY <1>0, <1>3, QueryAdds
    <2>2. p = q /\ now' = now /\ rows' = rows
      BY <1>3, <2>1 DEF Query
    <2>3. p.sk \in Keys(rows[f]) \/ p.sk \in Keys(replica[f])
      BY <2>1, <2>2
    <2> QED
      BY <1>1, <2>1, <2>2, <2>3 DEF CopyInv
  <1>4. ASSUME NEW q \in pending, Write(q), p \notin pending
        PROVE  p.sk \in Keys(rows'[p.id])
    <2>1. p.sk = q.sk /\ p.id = q.id /\ q.count \in Nat /\ q.count > 0
      <3>1. q \in Pending /\ q.count > 0 /\ q.id \in FindingIds
        BY <1>0 DEF IInv, TypeOK, Pending, PendingInv
      <3>2. p = [q EXCEPT !.sent = TRUE]
        BY <1>4 DEF Write
      <3> QED
        BY <3>1, <3>2, Resent DEF Pending
    <2>2. PICK row \in Row : row = Stored(q) /\ row.count = q.count
      BY <1>0, StoredTyped DEF Stored
    <2>3. rows'[p.id][p.sk] = row
      <3>1. rows' = [rows EXCEPT ![p.id][p.sk] = row]
        BY <1>4, <2>1, <2>2 DEF Write
      <3> QED
        BY <1>0, <1>1, <3>1 DEF TypeOK
    <2> QED
      BY <1>1, <2>1, <2>2, <2>3 DEF Keys
  <1> QED
    BY <1>2, <1>3, <1>4 DEF Next, WriterStep, Environment, Invoke, Stamp,
                            Return, Raise, Purge, Replicate, Tick

\* A write leaves a row torn only where the row was so, or was gone with its TTL.
LEMMA TornByWrite ==
    ASSUME IInv, TornInv, NEW p \in pending, Write(p),
           NEW f \in FindingIds, NEW t \in Times, TornRow(f, t)', ~Kept(f, t)
    PROVE  t + TTL < now + Lifetime /\ t + TTL < rows'[f][t].last + 2 * Lifetime
  <1>0. TypeOK
    BY DEF IInv
  <1>1. /\ p.by \in Writers /\ p.id \in FindingIds /\ p.sk \in Times
        /\ p.op \in {"put", "update"} /\ stage[p.by] = "upserting"
    BY <1>0 DEF IInv, TypeOK, Pending, PendingInv
  <1>2. PICK row \in Row : /\ row = Stored(p) /\ row.last = stamp[p.by]
                           /\ row.whole = (p.op = "put" \/ rows[p.id][p.sk].whole)
    BY <1>0, StoredTyped DEF Stored
  <1>3. rows' = [rows EXCEPT ![p.id][p.sk] = row]
    BY <1>2 DEF Write
  <1>4. rows'[f][t] = IF f = p.id /\ t = p.sk THEN row ELSE rows[f][t]
    BY <1>0, <1>1, <1>3 DEF TypeOK
  <1>5. f = p.id /\ t = p.sk /\ rows'[f][t] = row
    BY <1>4 DEF Kept
  <1>6. p.op = "update" /\ ~rows[f][t].whole
    BY <1>1, <1>2, <1>5 DEF TornRow
  <1>7. t + TTL < now + Lifetime
    BY <1>5, <1>6 DEF TornInv
  <1>8. now <= stamp[p.by] + Lifetime /\ stamp[p.by] \in Nat /\ now \in Nat /\ t \in Nat
    BY <1>0, <1>1 DEF IInv, ClockInv, TypeOK
  <1> QED
    BY <1>2, <1>5, <1>7, <1>8

LEMMA TornStep ==
    ASSUME IInv, CopyInv, TornInv, [Next]_vars PROVE TornInv'
  <1>0. TypeOK /\ now \in Nat /\ (now' = now \/ now' = now + 1)
    BY ClockEffect DEF IInv, TypeOK
  <1>1. ASSUME NEW f \in FindingIds, NEW t \in Times, TornRow(f, t)'
        PROVE  t + TTL < now' + Lifetime /\ t + TTL < rows'[f][t].last + 2 * Lifetime
    <2>0. t \in Nat
      OBVIOUS
    <2>1. CASE Kept(f, t)
      <3>1. TornRow(f, t) /\ rows'[f][t].last = rows[f][t].last
        BY <1>1, <2>1 DEF TornRow, Kept, Keys
      <3>2. t + TTL < now + Lifetime /\ t + TTL < rows[f][t].last + 2 * Lifetime
        BY <3>1 DEF TornInv, TornRowsHadExpired, TornRow
      <3> QED
        BY <1>0, <2>0, <3>1, <3>2
    <2>2. ASSUME NEW p \in pending, Write(p), ~Kept(f, t)
          PROVE  t + TTL < now' + Lifetime /\ t + TTL < rows'[f][t].last + 2 * Lifetime
      <3>1. now' = now
        BY <2>2 DEF Write
      <3> QED
        BY <1>1, <2>2, <3>1, TornByWrite
    <2>3. ASSUME NEW g \in FindingIds, NEW u \in Times, Purge(g, u), ~Kept(f, t)
          PROVE  FALSE
      <3>1. rows'[f][t] = IF f = g /\ t = u THEN NoRow ELSE rows[f][t]
        BY <1>0, <2>3 DEF Purge, TypeOK
      <3> QED
        BY <1>1, <2>3, <3>1 DEF TornRow, Kept, Keys, NoRow
    <2>4. CASE rows' = rows
      BY <2>1, <2>4 DEF Kept
    <2> QED
      BY <2>1, <2>2, <2>3, <2>4 DEF Next, WriterStep, Environment, Invoke, Stamp, Query,
                                    Return, Raise, Replicate, Tick
  <1>2. TornRowsHadExpired'
    BY <1>1 DEF TornRowsHadExpired, TornRow, Keys
  <1> QED
    BY <1>1, <1>2, UpdatesFindTheirRow DEF TornInv, TornRow

LEMMA TornInit == Init => TornInv
  <1> SUFFICES ASSUME Init PROVE TornInv
    OBVIOUS
  <1>1. \A f \in FindingIds : Keys(rows[f]) = {}
    BY DEF Init, Keys, NoRow
  <1> QED
    BY <1>1 DEF Init, TornInv, TornRowsHadExpired

-----------------------------------------------------------------------------
(* Theorems. *)

\* IInv: upserts in flight, counts, stamps and recorded findings, kept by every
\* step of every writer, of DynamoDB and of the clock.
THEOREM FindingsInvariance == Spec => []IInv
  <1>1. Init => IInv
    <2>1. Init => ClockInv /\ RecordedInv
      BY DEF Init, ClockInv, RecordedInv
    <2> QED
      BY <2>1, TypeInit, PendingInit DEF IInv
  <1>2. IInv /\ [Next]_vars => IInv'
    BY TypeStep, PendingStep, ClockStep, RecordedStep DEF IInv
  <1> QED
    BY <1>1, <1>2, PTL DEF Spec

\* ReportIsComplete: what an invocation has upserted is in every report of its
\* window, for any interleaving of upserts, lagging queries, crashes and TTL.
THEOREM ReportCompleteness == Spec => []ReportIsComplete
  <1>1. IInv => ReportIsComplete
    <2> SUFFICES ASSUME IInv, NEW w \in Writers, stamp[w] + Window >= now + Lifetime,
                        NEW f \in found[w], f \notin todo[w]
                 PROVE  f \in Reported
      BY DEF ReportIsComplete
    <2>1. f \in FindingIds /\ stamp[w] \in Nat /\ now \in Nat
      BY DEF IInv, TypeOK
    <2>2. stamp[w] + TTL >= now + Lifetime
      BY <2>1
    <2>3. PICK t \in Keys(rows[f]) : rows[f][t].last + Lifetime >= stamp[w]
      BY <2>2 DEF IInv, RecordedInv
    <2>4. rows[f][t].last \in Nat
      <3>1. rows[f][t] \in Row
        BY <2>1, <2>3 DEF Keys, IInv, TypeOK
      <3> QED
        BY <3>1 DEF Row
    <2>5. rows[f][t].last + Window >= now
      BY <2>1, <2>3, <2>4
    <2> QED
      BY <2>1, <2>3, <2>5 DEF Reported
  <1> QED
    BY <1>1, FindingsInvariance, PTL

\* CountNeverOverstates: lost updates may lower occurrence_count, repeated
\* writes, lagging queries and retries never raise it above what was seen.
THEOREM HonestCount == Spec => []CountNeverOverstates
  <1>1. IInv => CountNeverOverstates
    BY DEF IInv, PendingInv
  <1> QED
    BY <1>1, FindingsInvariance, PTL

\* CopyInv, TornInv: how far copies, sights and updates can be apart.
THEOREM CopiesInvariance == Spec => [](CopyInv /\ TornInv)
  <1>1. Init => CopyInv /\ TornInv
    BY CopyInit, TornInit
  <1>2. IInv /\ CopyInv /\ TornInv /\ [Next]_vars => CopyInv' /\ TornInv'
    BY CopyStep, TornStep
  <1> QED
    BY <1>1, <1>2, FindingsInvariance, PTL DEF Spec

\* TornRowsHadExpired: with queries that lag, writers that overlap and the TTL
\* at work between a query and its update, a row that lacks its category,
\* resource and check is one whose finding was first seen a whole TTL ago.
THEOREM TornRowsAreOld == Spec => []TornRowsHadExpired
  <1>1. TornInv => TornRowsHadExpired
    BY DEF TornInv
  <1> QED
    BY <1>1, CopiesInvariance, PTL
=============================================================================
