-------------------------- MODULE FindingLedgerProofs --------------------------
(***************************************************************************)
(* A findings table that nothing disturbs (one invocation at a time, up to *)
(* date queries, no TTL between a query and its write) implements the      *)
(* idempotent ledger of FindingLedger, crashes, repeated writes and        *)
(* retries included.                                                       *)
(***************************************************************************)
EXTENDS FindingsProofs, FiniteSetTheorems

USE DEF vars, tableVars, writerVars, Times
USE TimesAssumption, EmitsAssumption

LEMMA UndisturbedIsNext ==
    ASSUME TypeOK, [Undisturbed]_vars PROVE [Next]_vars
  <1>1. ASSUME NEW w \in Writers, Invoke({w}) PROVE Next
    BY <1>1 DEF Next
  <1>2. ASSUME NEW p \in pending, Write(p) PROVE Next
    <2>1. p.by \in Writers
      BY DEF TypeOK, Pending
    <2> QED
      BY <1>2, <2>1 DEF Next, WriterStep
  <1> QED
    BY <1>1, <1>2 DEF Undisturbed, Next, WriterStep, Environment

\* What is known while nothing disturbs.
LInv == IInv /\ SerialInv

\* Each conjunct of SerialInv that does not speak of the items in the table or
\* of the upserts is kept when they are left alone.
LEMMA TableUntouched ==
    ASSUME LInv, rows' = rows, stamp' = stamp, now' \in {now, now + 1},
           pending' \subseteq pending,
           \A w \in Writers : stage'[w] = "upserting" => stage[w] = "upserting",
           \A v, w \in Writers : Running(v)' /\ Running(w)' => v = w
    PROVE  SerialInv'
  <1>1. \A f \in FindingIds : \A t, u \in Keys(rows'[f]) : t = u
    BY DEF LInv, SerialInv, Keys
  <1>2. \A w \in Writers, f \in FindingIds : \A t \in Keys(rows'[f]) :
           /\ rows'[f][t].last <= now'
           /\ stage'[w] = "upserting" => rows'[f][t].last <= stamp'[w]
    <2> SUFFICES ASSUME NEW w \in Writers, NEW f \in FindingIds, NEW t \in Keys(rows[f])
                 PROVE  /\ rows[f][t].last <= now'
                        /\ stage'[w] = "upserting" => rows[f][t].last <= stamp[w]
      OBVIOUS
    <2>1. rows[f][t].last <= now /\ (stage[w] = "upserting" => rows[f][t].last <= stamp[w])
      BY DEF LInv, SerialInv
    <2>2. now \in Nat /\ rows[f][t] \in Row
      BY DEF LInv, IInv, TypeOK, Keys
    <2>3. rows[f][t].last \in Nat
      BY <2>2 DEF Row
    <2> QED
      BY <2>1, <2>2, <2>3
  <1>3. \A p \in pending' : Stored(p)' = Stored(p)
    BY DEF Stored
  <1> QED
    BY <1>1, <1>2, <1>3 DEF LInv, SerialInv

LEMMA StampSerial ==
    ASSUME LInv, NEW w \in Writers, Stamp(w) PROVE SerialInv'
  <1>1. TypeOK /\ PendingInv /\ ClockInv
    BY DEF LInv, IInv
  <1>2. /\ rows' = rows /\ now' = now /\ pending' = pending
        /\ stage' = [stage EXCEPT ![w] = "upserting"]
        /\ stamp' = [stamp EXCEPT ![w] = now]
    BY DEF Stamp
  <1>3. \A v \in Writers : Running(v)' => Running(v)
    BY <1>1, <1>2 DEF Stamp, Running, TypeOK
  <1>4. \A v \in Writers, f \in FindingIds : \A t \in Keys(rows[f]) :
           /\ rows[f][t].last <= now
           /\ stage'[v] = "upserting" => rows[f][t].last <= stamp'[v]
    <2> SUFFICES ASSUME NEW v \in Writers, NEW f \in FindingIds, NEW t \in Keys(rows[f])
                 PROVE  /\ rows[f][t].last <= now
                        /\ stage'[v] = "upserting" => rows[f][t].last <= stamp'[v]
      OBVIOUS
    <2>1. rows[f][t].last <= now /\ (stage[v] = "upserting" => rows[f][t].last <= stamp[v])
      BY DEF LInv, SerialInv
    <2>2. CASE v = w
      BY <1>1, <1>2, <2>1, <2>2 DEF TypeOK
    <2>3. CASE v # w
      BY <1>1, <1>2, <2>1, <2>3 DEF TypeOK
    <2> QED
      BY <2>2, <2>3
  <1>5. pending = {}
    <2> SUFFICES ASSUME NEW p \in pending PROVE FALSE
      OBVIOUS
    <2>1. p.by \in Writers /\ Running(p.by) /\ stage[p.by] = "upserting"
      BY <1>1 DEF TypeOK, Pending, PendingInv, Running
    <2>2. Running(w) /\ stage[w] = "detecting"
      BY DEF Stamp, Running
    <2> QED
      BY <2>1, <2>2 DEF LInv, SerialInv
  <1> QED
    BY <1>2, <1>3, <1>4, <1>5 DEF LInv, SerialInv, Keys

LEMMA QuerySerial ==
    ASSUME LInv, NEW w \in Writers, NEW f \in FindingIds, replica[f] = rows[f], Query(w, f)
    PROVE  SerialInv'
  <1>1. TypeOK /\ PendingInv
    BY DEF LInv, IInv
  <1>2. PICK items \in {rows[f], replica[f]}, p \in Pending :
              /\ pending' = pending \cup {p}
              /\ p.by = w /\ p.id = f /\ ~p.sent
              /\ \/ /\ Keys(items) = {}
                    /\ p.op = "put" /\ p.sk = stamp[w] /\ p.count = 1
                 \/ /\ p.sk \in Keys(items)
                    /\ p.op = "update" /\ p.count = items[p.sk].count + 1
    BY <1>1, QueryAdds
  <1>3. items = rows[f]
    BY <1>2
  <1>4. /\ rows' = rows /\ now' = now /\ stage' = stage /\ stamp' = stamp
    BY DEF Query
  <1>5. pending = {}
    <2> SUFFICES ASSUME NEW q \in pending PROVE FALSE
      OBVIOUS
    <2>1. q.by \in Writers /\ Running(q.by) /\ q.by # w
      BY <1>1 DEF TypeOK, Pending, PendingInv, Running, Query
    <2>2. Running(w)
      BY DEF Query, Running
    <2> QED
      BY <2>1, <2>2 DEF LInv, SerialInv
  <1>6. \/ Keys(rows[f]) = {} /\ p.op = "put" /\ p.sk = stamp[w] /\ p.count = 1
        \/ Keys(rows[f]) = {p.sk} /\ p.op = "update" /\ p.count = rows[f][p.sk].count + 1
    <2>1. \A t, u \in Keys(rows[f]) : t = u
      BY <1>1 DEF LInv, SerialInv
    <2> QED
      BY <1>2, <1>3, <2>1
  <1>7. \A q \in pending' : q = p
    BY <1>2, <1>5
  <1> QED
    BY <1>2, <1>4, <1>6, <1>7 DEF LInv, SerialInv, Keys, Running

\* A write leaves the items of its finding with one key, the write's own.
LEMMA WriteKeys ==
    ASSUME LInv, NEW p \in pending, Write(p)
    PROVE  /\ p \in Pending /\ p.by \in Writers /\ p.id \in FindingIds /\ p.sk \in Times
           /\ Keys(rows[p.id]) \subseteq {p.sk}
           /\ Keys(rows'[p.id]) = {p.sk}
           /\ rows'[p.id][p.sk] = Stored(p)
           /\ \A f \in FindingIds : f # p.id => rows'[f] = rows[f]
           /\ p.sent => rows' = rows
  <1>1. TypeOK /\ PendingInv
    BY DEF LInv, IInv
  <1>2. p \in Pending /\ p.by \in Writers /\ p.id \in FindingIds /\ p.sk \in Times
    BY <1>1 DEF TypeOK, Pending
  <1>3. Keys(rows[p.id]) \subseteq {p.sk}
    BY DEF LInv, SerialInv
  <1>4. PICK row \in Row : row = Stored(p) /\ row.count = p.count
    BY <1>1, StoredTyped DEF Stored
  <1>5. rows' = [rows EXCEPT ![p.id][p.sk] = row]
    BY <1>4 DEF Write
  <1>6. /\ rows'[p.id][p.sk] = row
        /\ \A t \in Times : t # p.sk => rows'[p.id][t] = rows[p.id][t]
        /\ \A f \in FindingIds : f # p.id => rows'[f] = rows[f]
    BY <1>1, <1>2, <1>5 DEF TypeOK
  <1>7. p.count > 0
    BY <1>1, <1>2 DEF PendingInv, TypeOK
  <1>8. Keys(rows'[p.id]) = {p.sk}
    BY <1>2, <1>3, <1>4, <1>6, <1>7 DEF Keys
  <1>9. ASSUME p.sent PROVE rows' = rows
    <2>1. rows[p.id][p.sk] = row
      BY <1>4, <1>9 DEF LInv, SerialInv
    <2> QED
      BY <1>1, <1>2, <1>5, <2>1 DEF TypeOK
  <1> QED
    BY <1>2, <1>3, <1>4, <1>6, <1>8, <1>9

LEMMA WriteSerial ==
    ASSUME LInv, NEW p \in pending, Write(p) PROVE SerialInv'
  <1>1. TypeOK /\ PendingInv /\ ClockInv /\ SerialInv
    BY DEF LInv, IInv
  <1>2. /\ p \in Pending /\ p.by \in Writers /\ p.id \in FindingIds /\ p.sk \in Times
        /\ Keys(rows[p.id]) \subseteq {p.sk}
        /\ Keys(rows'[p.id]) = {p.sk}
        /\ rows'[p.id][p.sk] = Stored(p)
        /\ \A f \in FindingIds : f # p.id => rows'[f] = rows[f]
    BY WriteKeys
  <1>3. stage' = stage /\ stamp' = stamp /\ now' = now
    BY DEF Write
  <1>4. stage[p.by] = "upserting"
    BY <1>1 DEF PendingInv
  <1>5. \A f \in FindingIds : \A t, u \in Keys(rows'[f]) : t = u
    <2> TAKE f \in FindingIds
    <2>1. \A t, u \in Keys(rows[f]) : t = u
      BY <1>1 DEF SerialInv
    <2>2. Keys(rows'[f]) = Keys(rows[f]) \/ Keys(rows'[f]) = {p.sk}
      BY <1>2
    <2> QED
      BY <2>1, <2>2
  <1>6. \A w \in Writers, f \in FindingIds : \A t \in Keys(rows'[f]) :
           /\ rows'[f][t].last <= now
           /\ stage[w] = "upserting" => rows'[f][t].last <= stamp[w]
    <2> SUFFICES ASSUME NEW w \in Writers, NEW f \in FindingIds, NEW t \in Keys(rows'[f])
                 PROVE  /\ rows'[f][t].last <= now
                        /\ stage[w] = "upserting" => rows'[f][t].last <= stamp[w]
      OBVIOUS
    <2>1. CASE f # p.id
      BY <1>1, <1>2, <2>1 DEF SerialInv
    <2>2. CASE f = p.id
      <3>1. rows'[f][t].last = stamp[p.by]
        BY <1>2, <2>2 DEF Stored
      <3>2. stage[w] = "upserting" => w = p.by
        BY <1>1, <1>2, <1>4 DEF SerialInv, Running
      <3>3. stamp[p.by] \in Nat /\ stamp[p.by] <= now
        BY <1>1, <1>2 DEF TypeOK, ClockInv
      <3> QED
        BY <3>1, <3>2, <3>3
    <2> QED
      BY <2>1, <2>2
  <1>7. \A q \in pending : q = p
    <2> TAKE q \in pending
    <2>1. q.by \in Writers /\ Running(q.by) /\ Running(p.by)
      BY <1>1, <1>4 DEF TypeOK, Pending, PendingInv, Running
    <2>2. q.by = p.by
      BY <1>1, <1>2, <2>1 DEF SerialInv
    <2> QED
      BY <1>1, <2>2 DEF PendingInv
  <1>8. PICK r \in Pending :
              /\ r = [p EXCEPT !.sent = TRUE]
              /\ r.by = p.by /\ r.id = p.id /\ r.count = p.count
              /\ r.sk = p.sk /\ r.op = p.op /\ r.sent
    BY <1>2, Resent
  <1>9. pending' \subseteq {r}
    <2>1. pending' = pending \ {p} \/ pending' = (pending \ {p}) \cup {r}
      BY <1>8 DEF Write
    <2> QED
      BY <1>7, <2>1
  <1>10. Stored(r)' = Stored(p)
    <2>1. rows'[p.id][p.sk].whole = (p.op = "put" \/ rows[p.id][p.sk].whole)
      BY <1>2 DEF Stored
    <2>2. (p.op = "put" \/ rows'[p.id][p.sk].whole) = (p.op = "put" \/ rows[p.id][p.sk].whole)
      BY <2>1
    <2>3. Stored(r)' = [last |-> stamp'[p.by], count |-> p.count,
                        whole |-> p.op = "put" \/ rows'[p.id][p.sk].whole]
      BY <1>8 DEF Stored
    <2> QED
      BY <1>3, <2>2, <2>3 DEF Stored
  <1>11. \A q \in pending' :
            q.sent /\ Keys(rows'[q.id]) = {q.sk} /\ rows'[q.id][q.sk] = Stored(q)'
    BY <1>2, <1>8, <1>9, <1>10
  <1> QED
    BY <1>1, <1>3, <1>5, <1>6, <1>11 DEF SerialInv, Running, Keys

LEMMA PurgeSerial ==
    ASSUME LInv, pending = {}, NEW f \in FindingIds, NEW t \in Times, Purge(f, t)
    PROVE  SerialInv'
  <1>1. TypeOK /\ SerialInv
    BY DEF LInv, IInv
  <1>2. /\ now' = now /\ stage' = stage /\ stamp' = stamp /\ pending' = {}
        /\ rows' = [rows EXCEPT ![f][t] = NoRow]
    BY DEF Purge
  <1>3. \A g \in FindingIds : \A u \in Keys(rows'[g]) :
           u \in Keys(rows[g]) /\ rows'[g][u] = rows[g][u]
    BY <1>1, <1>2 DEF Keys, NoRow, TypeOK
  <1> QED
    BY <1>1, <1>2, <1>3 DEF SerialInv, Running, Keys

LEMMA SerialStep ==
    ASSUME LInv, [Undisturbed]_vars PROVE LInv'
  <1>1. TypeOK /\ SerialInv
    BY DEF LInv, IInv
  <1>2. IInv'
    BY <1>1, UndisturbedIsNext, TypeStep, PendingStep, ClockStep, RecordedStep DEF LInv, IInv
  <1>3. ASSUME NEW w \in Writers, \A v \in Writers : ~Running(v), Invoke({w}) PROVE SerialInv'
    <2>1. \A v \in Writers : stage'[v] = IF v = w THEN "detecting" ELSE stage[v]
      BY <1>3 DEF Invoke
    <2>2. \A u, v \in Writers : Running(u)' /\ Running(v)' => u = v
      BY <1>3, <2>1 DEF Running
    <2>3. \A v \in Writers : stage'[v] = "upserting" => stage[v] = "upserting"
      BY <2>1
    <2> QED
      BY <1>3, <2>2, <2>3, TableUntouched DEF Invoke
  <1>4. ASSUME NEW w \in Writers, Stamp(w) PROVE SerialInv'
    BY <1>4, StampSerial
  <1>5. ASSUME NEW w \in Writers, Return(w) PROVE SerialInv'
    <2>1. \A v \in Writers : stage'[v] = IF v = w THEN "returned" ELSE stage[v]
      BY <1>1, <1>5 DEF Return, TypeOK
    <2>2. \A u, v \in Writers : Running(u)' /\ Running(v)' => u = v
      BY <1>1, <2>1 DEF Running, SerialInv
    <2> QED
      BY <1>5, <2>1, <2>2, TableUntouched DEF Return
  <1>6. ASSUME NEW w \in Writers, Raise(w) PROVE SerialInv'
    <2>1. \A v \in Writers : stage'[v] = IF v = w THEN "raised" ELSE stage[v]
      BY <1>1, <1>6 DEF Raise, TypeOK
    <2>2. \A u, v \in Writers : Running(u)' /\ Running(v)' => u = v
      BY <1>1, <2>1 DEF Running, SerialInv
    <2> QED
      BY <1>6, <2>1, <2>2, TableUntouched DEF Raise
  <1>7. ASSUME NEW w \in Writers, NEW f \in FindingIds, replica[f] = rows[f], Query(w, f)
        PROVE SerialInv'
    BY <1>7, QuerySerial
  <1>8. ASSUME NEW p \in pending, Write(p) PROVE SerialInv'
    BY <1>8, WriteSerial
  <1>9. ASSUME NEW f \in FindingIds, NEW t \in Times, pending = {}, Purge(f, t)
        PROVE SerialInv'
    BY <1>9, PurgeSerial
  <1>10. ASSUME \/ \E f \in FindingIds : Replicate(f)
                \/ Tick
                \/ UNCHANGED vars
         PROVE SerialInv'
    <2>1. /\ rows' = rows /\ stamp' = stamp /\ pending' = pending /\ stage' = stage
          /\ now' \in {now, now + 1}
      BY <1>10 DEF Replicate, Tick
    <2>2. \A u, v \in Writers : Running(u)' /\ Running(v)' => u = v
      BY <1>1, <2>1 DEF Running, SerialInv
    <2> QED
      BY <2>1, <2>2, TableUntouched
  <1>11. SerialInv'
    BY <1>3, <1>4, <1>5, <1>6, <1>7, <1>8, <1>9, <1>10 DEF Undisturbed
  <1> QED
    BY <1>2, <1>11 DEF LInv

LEMMA SerialInit == Init => LInv
  <1> SUFFICES ASSUME Init PROVE LInv
    OBVIOUS
  <1>1. IInv
    BY TypeInit, PendingInit DEF Init, IInv, ClockInv, RecordedInv
  <1>2. SerialInv
    BY DEF Init, SerialInv, Running, Keys, NoRow
  <1> QED
    BY <1>1, <1>2 DEF LInv

\* SerialInv: while nothing disturbs the store, the upsert in flight knows the
\* one item it is about to write to.
THEOREM SerialInvariance == SerialSpec => []SerialInv
  <1>1. LInv => SerialInv
    BY DEF LInv
  <1> QED
    BY SerialInit, SerialStep, <1>1, PTL DEF SerialSpec

\* OneRowPerFinding: a finding scanned again, by retries and after crashes too,
\* has one row.
THEOREM Idempotence == SerialSpec => []OneRowPerFinding
  <1>1. ASSUME SerialInv PROVE OneRowPerFinding
    <2> SUFFICES ASSUME NEW f \in FindingIds PROVE Cardinality(Keys(rows[f])) <= 1
      BY DEF OneRowPerFinding
    <2>1. CASE Keys(rows[f]) = {}
      BY <2>1, FS_EmptySet
    <2>2. CASE \E t : t \in Keys(rows[f])
      <3>1. \A t, u \in Keys(rows[f]) : t = u
        BY <1>1 DEF SerialInv
      <3>2. PICK t : Keys(rows[f]) = {t}
        BY <2>2, <3>1
      <3>3. Cardinality({t}) = 1
        BY FS_Singleton
      <3> QED
        BY <3>2, <3>3
    <2> QED
      BY <2>1, <2>2
  <1> QED
    BY SerialInvariance, <1>1, PTL

-----------------------------------------------------------------------------
(* The refinement. *)

LEMMA EntryOfNone ==
    ASSUME NEW items, Keys(items) = {} PROVE Entry(items) = Ledger!Unseen
  BY DEF Entry, Ledger!Unseen

LEMMA EntryOfOne ==
    ASSUME NEW items, NEW t, Keys(items) = {t}
    PROVE  Entry(items) = [first |-> t, last |-> items[t].last, count |-> items[t].count]
  BY DEF Entry

LEMMA LedgerInitially == Init => Ledger!LedgerInit
  <1> SUFFICES ASSUME Init PROVE Ledger!LedgerInit
    OBVIOUS
  <1>1. \A f \in FindingIds : Keys(rows[f]) = {}
    BY DEF Init, Keys, NoRow
  <1>2. \A f \in FindingIds : Entry(rows[f]) = Ledger!Unseen
    BY <1>1, EntryOfNone
  <1> QED
    BY <1>2 DEF Init, entries, Ledger!LedgerInit

\* A write sent for the first time is a sight, a repeated one changes nothing.
LEMMA WriteIsSight ==
    ASSUME LInv, NEW p \in pending, Write(p)
    PROVE  Ledger!LedgerNext \/ UNCHANGED <<entries, now>>
  <1>1. TypeOK /\ PendingInv /\ ClockInv /\ SerialInv
    BY DEF LInv, IInv
  <1>2. /\ p \in Pending /\ p.by \in Writers /\ p.id \in FindingIds /\ p.sk \in Times
        /\ Keys(rows'[p.id]) = {p.sk}
        /\ rows'[p.id][p.sk] = Stored(p)
        /\ \A f \in FindingIds : f # p.id => rows'[f] = rows[f]
        /\ p.sent => rows' = rows
    BY WriteKeys
  <1>3. now' = now
    BY DEF Write
  <1>4. stage[p.by] = "upserting"
    BY <1>1 DEF PendingInv
  <1>5. stamp[p.by] \in Ledger!Sights
    <2>1. stamp[p.by] \in Nat /\ now \in Nat
      BY <1>1, <1>2 DEF TypeOK
    <2>2. stamp[p.by] <= now /\ now <= stamp[p.by] + Lifetime
      BY <1>1, <1>2, <1>4 DEF ClockInv
    <2> QED
      BY <2>1, <2>2 DEF Ledger!Sights
  <1>6. Entry(rows'[p.id]) = [first |-> p.sk, last |-> stamp[p.by], count |-> p.count]
    <2>1. Stored(p).last = stamp[p.by] /\ Stored(p).count = p.count
      BY DEF Stored
    <2> QED
      BY <1>2, <2>1, EntryOfOne
  <1>7. entries' = [entries EXCEPT ![p.id] =
                       [first |-> p.sk, last |-> stamp[p.by], count |-> p.count]]
    BY <1>2, <1>6 DEF entries
  <1>8. CASE p.sent
    BY <1>2, <1>3, <1>8 DEF entries
  <1>9. CASE p.sk = stamp[p.by] /\ p.count = 1 /\ Keys(rows[p.id]) = {}
    <2>1. entries[p.id] = Ledger!Unseen
      BY <1>2, <1>9, EntryOfNone DEF entries
    <2>2. Ledger!FirstSight(p.id, stamp[p.by])
      BY <1>3, <1>7, <1>9, <2>1 DEF Ledger!FirstSight
    <2> QED
      BY <1>2, <1>5, <2>2 DEF Ledger!LedgerNext
  <1>10. CASE Keys(rows[p.id]) = {p.sk} /\ p.count = rows[p.id][p.sk].count + 1
    <2>1. entries[p.id] = [first |-> p.sk, last |-> rows[p.id][p.sk].last,
                           count |-> rows[p.id][p.sk].count]
      BY <1>2, <1>10, EntryOfOne DEF entries
    <2>2. rows[p.id][p.sk].count > 0 /\ rows[p.id][p.sk].last <= stamp[p.by]
      BY <1>1, <1>2, <1>4, <1>10 DEF SerialInv, Keys
    <2>3. entries[p.id].first = p.sk /\ p.count = entries[p.id].count + 1
      BY <1>10, <2>1
    <2>4. entries' = [entries EXCEPT ![p.id] =
                         [first |-> entries[p.id].first, last |-> stamp[p.by],
                          count |-> entries[p.id].count + 1]]
      BY <1>7, <2>3
    <2>5. entries[p.id].count > 0 /\ entries[p.id].last <= stamp[p.by]
      BY <2>1, <2>2
    <2>6. Ledger!ReSight(p.id, stamp[p.by])
      BY <1>3, <2>4, <2>5 DEF Ledger!ReSight
    <2> QED
      BY <1>2, <1>5, <2>6 DEF Ledger!LedgerNext
  <1> QED
    BY <1>1, <1>8, <1>9, <1>10 DEF SerialInv

LEMMA PurgeForgets ==
    ASSUME LInv, NEW f \in FindingIds, NEW t \in Times, Purge(f, t)
    PROVE  Ledger!LedgerNext
  <1>1. TypeOK /\ SerialInv
    BY DEF LInv, IInv
  <1>2. /\ now' = now /\ rows' = [rows EXCEPT ![f][t] = NoRow]
        /\ t \in Keys(rows[f]) /\ Expired(rows[f][t])
    BY DEF Purge
  <1>3. Keys(rows[f]) = {t}
    BY <1>1, <1>2 DEF SerialInv
  <1>4. Keys(rows'[f]) = {}
    BY <1>1, <1>2, <1>3 DEF Keys, NoRow, TypeOK
  <1>5. entries[f] = [first |-> t, last |-> rows[f][t].last, count |-> rows[f][t].count]
    BY <1>3, EntryOfOne DEF entries
  <1>6. Entry(rows'[f]) = Ledger!Unseen
    BY <1>4, EntryOfNone
  <1>7. \A g \in FindingIds : g # f => rows'[g] = rows[g]
    BY <1>1, <1>2 DEF TypeOK
  <1>8. entries' = [entries EXCEPT ![f] = Ledger!Unseen]
    BY <1>6, <1>7 DEF entries
  <1>9. entries[f].count > 0 /\ entries[f].last + TTL < now
    BY <1>2, <1>5 DEF Keys, Expired
  <1>10. Ledger!Forget(f)
    BY <1>2, <1>8, <1>9 DEF Ledger!Forget
  <1> QED
    BY <1>10 DEF Ledger!LedgerNext

LEMMA LedgerSteps ==
    ASSUME LInv, [Undisturbed]_vars
    PROVE  Ledger!LedgerNext \/ UNCHANGED <<entries, now>>
  <1>1. ASSUME NEW p \in pending, Write(p)
        PROVE Ledger!LedgerNext \/ UNCHANGED <<entries, now>>
    BY <1>1, WriteIsSight
  <1>2. ASSUME NEW f \in FindingIds, NEW t \in Times, Purge(f, t)
        PROVE Ledger!LedgerNext
    BY <1>2, PurgeForgets
  <1>3. CASE Tick
    BY <1>3 DEF Tick, entries, Ledger!LedgerNext, Ledger!TimePasses
  <1>4. ASSUME rows' = rows, now' = now PROVE UNCHANGED <<entries, now>>
    BY <1>4 DEF entries
  <1>5. ASSUME \/ \E w \in Writers :
                  \/ Invoke({w}) \/ Stamp(w) \/ Return(w) \/ Raise(w)
                  \/ \E f \in FindingIds : Query(w, f)
               \/ \E f \in FindingIds : Replicate(f)
               \/ UNCHANGED vars
        PROVE rows' = rows /\ now' = now
    BY <1>5 DEF Invoke, Stamp, Return, Raise, Query, Replicate
  <1> QED
    BY <1>1, <1>2, <1>3, <1>4, <1>5 DEF Undisturbed

\* ImplementsLedger: each write of the undisturbed store is one sight of the
\* ledger, at the time its caller stamped; each purge forgets; nothing else is
\* to be seen.
THEOREM StoreImplementsLedger == SerialSpec => ImplementsLedger
  <1>1. LInv /\ [Undisturbed]_vars => [Ledger!LedgerNext]_<<entries, now>>
    BY LedgerSteps
  <1>2. SerialSpec => []LInv
    BY SerialInit, SerialStep, PTL DEF SerialSpec
  <1> QED
    BY LedgerInitially, <1>1, <1>2, PTL DEF SerialSpec, ImplementsLedger, Ledger!LedgerSpec
=============================================================================
