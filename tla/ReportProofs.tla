------------------------------ MODULE ReportProofs ------------------------------
(***************************************************************************)
(* Reports over any findings table, with any number of writers, reports    *)
(* and retries: nothing owed is missing, nothing listed is stale, and what *)
(* a message says is what its link leads to.                               *)
(***************************************************************************)
EXTENDS Report, FindingsProofs

USE DEF vars, tableVars, writerVars, reportVars, Times
USE TimesAssumption, ReportTimesAssumption, MaxRetriesAssumption

LEMMA ReportStepIsFindingsStep == [ReportNext]_<<vars, reportVars>> => [Next]_vars
  BY DEF ReportNext, InvokeReport, RetryReport, HandlerStep, ReadPage, Render, Upload,
         SendEmail, PublishSns, ReportRaises, ScannersStep

\* All that is proved of the findings table holds under its reports.
LEMMA TableInvariance == ReportSpec => []IInv
  <1>1. ReportInit => Init
    BY DEF ReportInit
  <1>2. ReportSpec => Spec
    BY <1>1, ReportStepIsFindingsStep, PTL DEF ReportSpec, Spec
  <1> QED
    BY <1>2, FindingsInvariance, PTL

-----------------------------------------------------------------------------
(* What a running report relies on. *)

\* A row in the window of a running report stays there: writes carry stamps
\* that are at most a lifetime old, and its TTL is not over.
LEMMA SeenStays ==
    ASSUME IInv, [Next]_vars, NEW f \in FindingIds, NEW s \in Nat, NEW d \in Nat,
           d <= Lifetime, s <= now, now <= s + Lifetime,
           Seen(s, Window + d, rows[f])
    PROVE  Seen(s, Window + d, rows'[f])
  <1>1. PICK t \in Keys(rows[f]) : rows[f][t].last + (Window + d) >= s
    BY DEF Seen
  <1>2. t \in Times
    BY <1>1 DEF Keys
  <1>3. rows[f][t].last \in Nat /\ now \in Nat
    BY <1>2, RowNats DEF IInv
  <1>4. CASE Kept(f, t)
    BY <1>1, <1>4 DEF Kept, Seen, Keys
  <1>5. CASE Written(f, t)
    <2>1. TypeOK'
      BY TypeStep DEF IInv
    <2>2. rows'[f][t].last \in Nat
      <3>1. \A row \in Row : row.last \in Nat
        BY DEF Row
      <3> QED
        BY <1>2, <2>1, <3>1 DEF TypeOK
    <2>3. rows'[f][t].last + (Window + d) >= s
      BY <1>3, <1>5, <2>2 DEF Written
    <2> QED
      BY <1>5, <2>3 DEF Written, Seen
  <1>6. CASE Purged(f, t)
    <2>1. rows[f][t].last + TTL < now
      BY <1>6 DEF Purged
    <2> QED
      BY <1>1, <1>3, <2>1
  <1> QED
    BY <1>2, <1>4, <1>5, <1>6, RowEffect

\* A page of whichever copy only selects what the table still has, seen in the
\* window or less than a lifetime before.
LEMMA SelectedIsSeen ==
    ASSUME TypeOK, CopyInv, NEW f \in FindingIds, NEW s \in Nat,
           s <= now, now <= s + Lifetime,
           NEW items \in {rows[f], replica[f]}, Selects(s, items)
    PROVE  Seen(s, Window + Lifetime, rows[f])
  <1>1. PICK t \in Keys(items) : items[t].last + Window >= s \/ t + Window >= s
    BY DEF Selects
  <1>2. t \in Times
    BY <1>1 DEF Keys
  <1>3. /\ rows[f][t].last \in Nat /\ replica[f][t].last \in Nat
        /\ t \in Nat /\ now \in Nat
    BY <1>2, RowNats
  <1>4. t \in Keys(rows[f]) =>
           t <= now /\ rows[f][t].last <= now /\ t <= rows[f][t].last + Lifetime
    BY <1>2 DEF CopyInv
  <1>5. CASE items = rows[f]
    <2>1. rows[f][t].last + (Window + Lifetime) >= s
      BY <1>1, <1>3, <1>4, <1>5
    <2> QED
      BY <1>1, <1>5, <2>1 DEF Seen
  <1>6. CASE items = replica[f]
    <2>1. \/ /\ t \in Keys(rows[f])
             /\ replica[f][t].last <= rows[f][t].last + Lifetime
          \/ /\ t + TTL < now + Lifetime
             /\ replica[f][t].last + TTL < now + Lifetime
      BY <1>1, <1>2, <1>6 DEF CopyInv
    <2>2. t \in Keys(rows[f]) /\ replica[f][t].last <= rows[f][t].last + Lifetime
      BY <1>1, <1>3, <1>6, <2>1
    <2>3. rows[f][t].last + (Window + Lifetime) >= s
      BY <1>1, <1>3, <1>4, <1>6, <2>2
    <2> QED
      BY <2>2, <2>3 DEF Seen
  <1> QED
    BY <1>5, <1>6

\* What is owed at the start is in the window in every copy.
LEMMA OwedIsSeen ==
    ASSUME TypeOK, RecordedInv, NEW f \in Owed
    PROVE  /\ f \in FindingIds
           /\ Seen(now, Window, rows[f]) /\ Seen(now, Window, replica[f])
  <1>1. PICK w \in Writers : f \in found[w] \ todo[w] /\ stamp[w] + Window >= now + Lifetime
    BY DEF Owed
  <1>2. f \in FindingIds /\ replica[f] = rows[f]
    BY DEF Owed
  <1>3. stamp[w] \in Nat /\ now \in Nat
    BY DEF TypeOK
  <1>4. stamp[w] + TTL >= now + Lifetime
    BY <1>1, <1>3
  <1>5. PICK t \in Keys(rows[f]) : rows[f][t].last + Lifetime >= stamp[w]
    BY <1>1, <1>4 DEF RecordedInv
  <1>6. rows[f][t].last \in Nat
    BY <1>2, <1>5, RowNats DEF Keys
  <1>7. rows[f][t].last + Window >= now
    BY <1>1, <1>3, <1>5, <1>6
  <1> QED
    BY <1>2, <1>5, <1>7 DEF Seen

-----------------------------------------------------------------------------
(* Steps of the handler. *)

CurrentOf(r) == Active(r) =>
    \A f \in run[r].listed : Seen(run[r].started, Window + Lifetime, rows[f])

\* Reports other than the one that takes a step keep what holds of them.
LEMMA OthersKeep ==
    ASSUME ReportInv, UNCHANGED vars, NEW r \in Reports, NEW q \in Reports, q # r,
           run'[q] = run[q]
    PROVE  ScanOf(q)' /\ CurrentOf(q)'
  BY DEF ReportInv, ScanInv, ScanOf, NoFindingIsStale, CurrentOf, Active, Seen, Keys

LEMMA FromReports ==
    ASSUME NEW r \in Reports,
           \A q \in Reports : q # r => ScanOf(q)' /\ CurrentOf(q)',
           ScanOf(r)', CurrentOf(r)'
    PROVE  ScanInv' /\ NoFindingIsStale'
  BY DEF ScanInv, NoFindingIsStale, CurrentOf, Active

LEMMA InvocationFields ==
    ASSUME ReportTypeOK, NEW r \in Reports
    PROVE  /\ run[r] \in Invocation
           /\ run[r].pc \in {"scheduled", "scanning", "rendered", "uploaded", "emailed",
                             "done", "raised"}
           /\ run[r].started \in Times /\ run[r].started \in Nat
           /\ run[r].due \subseteq FindingIds /\ run[r].unread \subseteq FindingIds
           /\ run[r].listed \subseteq FindingIds
           /\ run[r].try \in Tries /\ run[r].try \in Nat
           /\ run[r].at \in Times /\ run[r].at \in Nat
  <1>1. run[r] \in Invocation
    BY DEF ReportTypeOK
  <1> QED
    BY <1>1 DEF Invocation, Tries

-----------------------------------------------------------------------------
(* Objects and messages. *)

Links(m) == /\ bucket[m.key].by # {}
            /\ m.report \in bucket[m.key].by => bucket[m.key].lists = m.tells

LEMMA MessageFields ==
    ASSUME ReportTypeOK, NEW m \in sent
    PROVE  m.report \in Reports /\ m.key \in Times /\ m.key \in Nat
  BY DEF ReportTypeOK, Message

LEMMA DeliveryParts ==
    ASSUME DeliveryInv, NEW r \in Reports
    PROVE  /\ run[r].at <= now /\ ObjectOf(r) /\ ReportMissesNothing
           /\ \A m \in sent : MessageOf(m) /\ Links(m)
  BY DEF DeliveryInv, MessagesMatchReports, Links

\* A report goes on, or is tried again in a later second, and stores and sends
\* nothing meanwhile.
LEMMA MoveKeeps ==
    ASSUME ReportInv, NEW r \in Reports, now' = now, bucket' = bucket, sent' = sent,
           \A q \in Reports : q # r => run'[q] = run[q],
           run'[r].at \in Nat, run[r].at <= run'[r].at, run'[r].at <= now,
           run'[r].pc # "scheduled",
           run'[r].pc \in {"scanning", "rendered"} =>
               run[r].pc \in {"scheduled", "scanning", "rendered"} \/ run[r].at < run'[r].at,
           run'[r].pc \in {"uploaded", "emailed"} =>
               /\ run[r].pc \in {"uploaded", "emailed"}
               /\ run'[r].at = run[r].at /\ run'[r].listed = run[r].listed
    PROVE  DeliveryInv'
  <1>1. ReportTypeOK /\ DeliveryInv
    BY DEF ReportInv
  <1>2. ASSUME NEW q \in Reports PROVE run'[q].at <= now' /\ ObjectOf(q)'
    BY <1>1, <1>2, DeliveryParts DEF ObjectOf
  <1>3. ASSUME NEW m \in sent PROVE MessageOf(m)'
    <2>1. /\ m.report \in Reports /\ m.key \in Nat /\ MessageOf(m)
          /\ run[r].at \in Nat
      BY <1>1, <1>3, MessageFields, InvocationFields, DeliveryParts
    <2>2. CASE m.report = r
      BY <2>1, <2>2 DEF MessageOf
    <2>3. CASE m.report # r
      BY <2>1, <2>3 DEF MessageOf
    <2> QED
      BY <2>2, <2>3
  <1> QED
    BY <1>1, <1>2, <1>3 DEF DeliveryInv, ReportMissesNothing, MessagesMatchReports

\* A new object has all it owes; it takes the place of none of its own report's
\* that a message leads to.
LEMMA PutKeeps ==
    ASSUME ReportInv, NEW r \in Reports, run[r].pc = "rendered", PutObject(r),
           now' = now, sent' = sent,
           \A q \in Reports : q # r => run'[q] = run[q],
           run'[r].at = run[r].at, run'[r].pc \in {"uploaded", "raised"},
           run'[r].pc = "uploaded" => run'[r].listed = run[r].listed
    PROVE  bucket' \in [Times -> Object] /\ DeliveryInv'
  <1> DEFINE object == [by |-> {r}, due |-> run[r].due, lists |-> run[r].listed]
  <1>1. ReportTypeOK /\ DeliveryInv /\ ScanOf(r)
    BY DEF ReportInv, ScanInv
  <1>2. /\ run[r].at \in Times /\ run[r].at \in Nat
        /\ run[r].due \subseteq FindingIds /\ run[r].listed \subseteq FindingIds
    BY <1>1, InvocationFields
  <1>3. /\ object \in Object /\ object.by = {r} /\ object.lists = run[r].listed
        /\ object.due \subseteq object.lists
    BY <1>1, <1>2 DEF Object, ScanOf
  <1>4. bucket' = [bucket EXCEPT ![run[r].at] = object] /\ bucket \in [Times -> Object]
    BY <1>1 DEF PutObject, KeyOf, ReportTypeOK
  <1> HIDE DEF object
  <1>5. /\ bucket' \in [Times -> Object]
        /\ bucket'[run[r].at] = object
        /\ bucket'[run[r].at].by = {r} /\ bucket'[run[r].at].lists = run[r].listed
        /\ \A k \in Times : k # run[r].at => bucket'[k] = bucket[k]
    BY <1>2, <1>3, <1>4
  <1>6. ASSUME NEW q \in Reports PROVE run'[q].at <= now' /\ ObjectOf(q)'
    <2>1. run[q].at <= now /\ ObjectOf(q) /\ run[q].at \in Times
      BY <1>1, DeliveryParts, InvocationFields
    <2>2. run'[q].at = run[q].at
      OBVIOUS
    <2>3. CASE run[q].at = run[r].at
      <3>0. /\ bucket'[run'[q].at].by = {r}
            /\ bucket'[run'[q].at].lists = run[r].listed
        BY <1>5, <2>2, <2>3
      <3>1. CASE q = r
        BY <2>1, <2>2, <3>0, <3>1 DEF ObjectOf
      <3>2. CASE q # r
        BY <2>1, <2>2, <3>0, <3>2 DEF ObjectOf
      <3> QED
        BY <2>1, <2>2, <3>1, <3>2
    <2>4. CASE run[q].at # run[r].at
      <3>1. q # r /\ bucket'[run[q].at] = bucket[run[q].at]
        BY <1>5, <2>1, <2>4
      <3> QED
        BY <2>1, <3>1 DEF ObjectOf
    <2> QED
      BY <2>3, <2>4
  <1>7. ASSUME NEW m \in sent PROVE MessageOf(m)' /\ Links(m)'
    <2>1. /\ m.report \in Reports /\ m.key \in Times /\ m.key \in Nat
          /\ MessageOf(m) /\ Links(m)
      BY <1>1, <1>7, MessageFields, DeliveryParts
    <2>2. MessageOf(m)'
      BY <2>1 DEF MessageOf
    <2>3. CASE m.key = run[r].at
      <3>1. m.report # r
        BY <1>2, <2>1, <2>3 DEF MessageOf
      <3>2. bucket'[m.key].by = {r}
        BY <1>5, <2>3
      <3> QED
        BY <2>2, <3>1, <3>2 DEF Links
    <2>4. CASE m.key # run[r].at
      <3>1. bucket'[m.key] = bucket[m.key]
        BY <1>5, <2>1, <2>4
      <3> QED
        BY <2>1, <2>2, <3>1 DEF Links
    <2> QED
      BY <2>3, <2>4
  <1>8. ReportMissesNothing'
    BY <1>1, <1>3, <1>5 DEF DeliveryInv, ReportMissesNothing
  <1> QED
    BY <1>5, <1>6, <1>7, <1>8 DEF DeliveryInv, MessagesMatchReports, Links

\* A message leads to its report's object, or to one that stands in its place.
LEMMA SendKeeps ==
    ASSUME ReportInv, NEW r \in Reports, run[r].pc \in {"uploaded", "emailed"}, Send(r),
           now' = now, bucket' = bucket,
           \A q \in Reports : q # r => run'[q] = run[q],
           run'[r].at = run[r].at, run'[r].pc \in {"emailed", "done", "raised"},
           run'[r].pc = "emailed" => run'[r].listed = run[r].listed
    PROVE  sent' \subseteq Message /\ DeliveryInv'
  <1> DEFINE m == [report |-> r, key |-> run[r].at, tells |-> run[r].listed]
  <1>1. ReportTypeOK /\ DeliveryInv /\ sent \subseteq Message
    BY DEF ReportInv, ReportTypeOK
  <1>2. run[r].at \in Times /\ run[r].at \in Nat /\ run[r].listed \subseteq FindingIds
    BY <1>1, InvocationFields
  <1>3. sent' = sent \/ sent' = sent \cup {m}
    BY DEF Send, KeyOf
  <1>4. m \in Message /\ m.report = r /\ m.key = run[r].at /\ m.tells = run[r].listed
    BY <1>2 DEF Message
  <1>5. ASSUME NEW k, k = m PROVE Links(k) /\ MessageOf(k)'
    <2>1. ObjectOf(r)
      BY <1>1, DeliveryParts
    <2>2. k.report = r /\ k.key = run[r].at /\ k.tells = run[r].listed
      BY <1>4, <1>5
    <2> QED
      BY <1>2, <2>1, <2>2 DEF ObjectOf, Links, MessageOf
  <1> HIDE DEF m
  <1>6. ASSUME NEW k \in sent PROVE MessageOf(k)' /\ Links(k)
    <2>1. k.report \in Reports /\ MessageOf(k) /\ Links(k)
      BY <1>1, <1>6, MessageFields, DeliveryParts
    <2> QED
      BY <2>1 DEF MessageOf
  <1>7. ASSUME NEW q \in Reports PROVE run'[q].at <= now' /\ ObjectOf(q)'
    BY <1>1, <1>7, DeliveryParts DEF ObjectOf
  <1>8. \A k \in sent' : MessageOf(k)' /\ Links(k)
    <2> TAKE k \in sent'
    <2>1. CASE k \in sent
      BY <1>6, <2>1
    <2>2. CASE k = m
      BY <1>5, <2>2
    <2> QED
      BY <1>3, <2>1, <2>2
  <1>9. \A k \in sent' : Links(k)'
    BY <1>8 DEF Links
  <1> QED
    BY <1>1, <1>3, <1>4, <1>7, <1>8, <1>9
       DEF DeliveryInv, ReportMissesNothing, MessagesMatchReports, Links

-----------------------------------------------------------------------------
(* Steps of the handler. *)

\* What steps of r that leave the table alone have to show.
LEMMA HandlerKeeps ==
    ASSUME IInv, ReportInv, UNCHANGED vars, NEW r \in Reports, NEW new \in Invocation,
           run' = [run EXCEPT ![r] = new],
           bucket' \in [Times -> Object],
           sent' \subseteq Message,
           ScanOf(r)', CurrentOf(r)', DeliveryInv'
    PROVE  ReportInv'
  <1>1. TypeOK /\ run \in [Reports -> Invocation]
    BY DEF ReportInv, ReportTypeOK
  <1>2. \A q \in Reports : q # r => run'[q] = run[q]
    BY <1>1
  <1>3. TypeOK'
    BY <1>1 DEF TypeOK
  <1>4. ReportTypeOK'
    BY <1>1, <1>3 DEF ReportTypeOK
  <1>5. CopyInv'
    BY DEF ReportInv, CopyInv, Keys
  <1>6. ScanInv' /\ NoFindingIsStale'
    BY <1>2, OthersKeep, FromReports
  <1> QED
    BY <1>4, <1>5, <1>6 DEF ReportInv

\* A first try, or another one in a later second.
LEMMA BeginStep ==
    ASSUME IInv, ReportInv, NEW r \in Reports, NEW n \in Tries, Begin(r, n),
           UNCHANGED <<vars, bucket, sent>>,
           run[r].pc = "scheduled" \/ run[r].at < now
    PROVE  ReportInv'
  <1> DEFINE new == [pc |-> "scanning", started |-> now, due |-> Owed,
                     unread |-> FindingIds, listed |-> {}, at |-> now, try |-> n]
  <1>1. ReportTypeOK /\ TypeOK /\ RecordedInv /\ DeliveryInv /\ run \in [Reports -> Invocation]
    BY DEF ReportInv, ReportTypeOK, IInv
  <1>2. Owed \subseteq FindingIds /\ now \in Times /\ now \in Nat
    BY <1>1 DEF Owed, TypeOK
  <1>3. new \in Invocation
    BY <1>2 DEF Invocation
  <1>4. run' = [run EXCEPT ![r] = new]
    BY DEF Begin
  <1>5. run'[r] = new /\ \A q \in Reports : q # r => run'[q] = run[q]
    BY <1>1, <1>4
  <1>6. /\ run'[r].pc = "scanning" /\ run'[r].started = now /\ run'[r].due = Owed
        /\ run'[r].unread = FindingIds /\ run'[r].listed = {} /\ run'[r].at = now
        /\ run'[r].try = n
    BY <1>5
  <1>7. ScanOf(r)'
    <2>1. \A f \in Owed : /\ f \in FindingIds
                          /\ Seen(now, Window, rows[f]) /\ Seen(now, Window, replica[f])
      BY <1>1, OwedIsSeen
    <2>2. \A f \in Owed : Seen(now, Window, rows'[f]) /\ Seen(now, Window, replica'[f])
      BY <2>1 DEF Seen, Keys
    <2> QED
      BY <1>2, <1>6, <2>1, <2>2 DEF ScanOf
  <1>8. CurrentOf(r)'
    BY <1>6 DEF CurrentOf
  <1>9. DeliveryInv'
    BY <1>1, <1>2, <1>5, <1>6, MoveKeeps, DeliveryParts
  <1> HIDE DEF new
  <1> QED
    BY <1>1, <1>3, <1>4, <1>7, <1>8, <1>9, HandlerKeeps DEF ReportTypeOK

LEMMA ReadPageStep ==
    ASSUME IInv, ReportInv, NEW r \in Reports, NEW f \in FindingIds, ReadPage(r, f)
    PROVE  ReportInv'
  <1>1. PICK items \in {rows[f], replica[f]} :
           run' = [run EXCEPT ![r].unread = @ \ {f},
                              ![r].listed = IF Selects(run[r].started, items)
                                              THEN @ \cup {f} ELSE @]
    BY DEF ReadPage
  <1> DEFINE new == [run[r] EXCEPT !.unread = @ \ {f},
                                   !.listed = IF Selects(run[r].started, items)
                                                THEN @ \cup {f} ELSE @]
  <1>2. ReportTypeOK /\ TypeOK /\ run \in [Reports -> Invocation]
    BY DEF ReportInv, ReportTypeOK
  <1>3. run[r] \in Invocation
    BY <1>2
  <1>4. /\ new.pc = run[r].pc /\ new.started = run[r].started
        /\ new.due = run[r].due /\ new.try = run[r].try /\ new.at = run[r].at
        /\ new.unread = run[r].unread \ {f}
        /\ new.listed = IF Selects(run[r].started, items)
                           THEN run[r].listed \cup {f} ELSE run[r].listed
        /\ new \in Invocation
    BY <1>3 DEF Invocation
  <1>5. run' = [run EXCEPT ![r] = new]
    BY <1>1, <1>2
  <1>6. run'[r] = new /\ \A q \in Reports : q # r => run'[q] = run[q]
    BY <1>2, <1>5
  <1>7. run[r].pc = "scanning" /\ UNCHANGED <<vars, bucket, sent>>
    BY DEF ReadPage
  <1>8. ScanOf(r)
    BY DEF ReportInv, ScanInv
  <1>9. /\ run[r].started \in Nat /\ run[r].started <= now
        /\ now <= run[r].started + Lifetime
    BY <1>2, <1>7, <1>8, InvocationFields DEF ScanOf, Active
  <1>10. ScanOf(r)'
    <2>1. /\ run'[r].pc = "scanning" /\ run'[r].started = run[r].started
          /\ run'[r].due = run[r].due /\ run'[r].unread = run[r].unread \ {f}
          /\ run[r].listed \subseteq run'[r].listed
          /\ Selects(run[r].started, items) => f \in run'[r].listed
      BY <1>4, <1>6, <1>7
    <2>2. ASSUME NEW g \in run[r].due, g \notin run'[r].listed
          PROVE  /\ g \in run'[r].unread
                 /\ Seen(run[r].started, Window, rows[g])
                 /\ Seen(run[r].started, Window, replica[g])
      <3>1. /\ g \in run[r].unread
            /\ Seen(run[r].started, Window, rows[g])
            /\ Seen(run[r].started, Window, replica[g])
        BY <1>7, <1>8, <2>1, <2>2 DEF ScanOf
      <3>2. g # f
        <4> SUFFICES ASSUME g = f PROVE FALSE
          OBVIOUS
        <4>1. Selects(run[r].started, items)
          BY <3>1 DEF Seen, Selects
        <4> QED
          BY <2>1, <2>2, <4>1
      <3> QED
        BY <2>1, <3>1, <3>2
    <2>3. \A g \in run[r].due \ run'[r].listed :
             /\ g \in run'[r].unread
             /\ Seen(run[r].started, Window, rows'[g])
             /\ Seen(run[r].started, Window, replica'[g])
      BY <1>7, <2>2
    <2> QED
      BY <1>7, <1>9, <2>1, <2>3 DEF ScanOf, Active
  <1>11. CurrentOf(r)'
    <2>1. \A g \in run[r].listed : Seen(run[r].started, Window + Lifetime, rows[g])
      BY <1>7 DEF ReportInv, NoFindingIsStale, Active
    <2>2. Selects(run[r].started, items) => Seen(run[r].started, Window + Lifetime, rows[f])
      BY <1>2, <1>9, SelectedIsSeen DEF ReportInv
    <2>3. \A g \in run'[r].listed : Seen(run[r].started, Window + Lifetime, rows[g])
      BY <1>4, <1>6, <2>1, <2>2
    <2> QED
      BY <1>4, <1>6, <1>7, <2>3 DEF CurrentOf
  <1>12. DeliveryInv'
    <2>1. run[r].at \in Nat /\ run[r].at <= now
      BY <1>2, InvocationFields, DeliveryParts DEF ReportInv
    <2>2. run'[r].at = run[r].at /\ run'[r].pc = "scanning"
      BY <1>4, <1>6, <1>7
    <2>3. /\ now' = now /\ bucket' = bucket /\ sent' = sent
          /\ \A q \in Reports : q # r => run'[q] = run[q]
      BY <1>6, <1>7
    <2> HIDE DEF new
    <2> QED
      BY <1>7, <2>1, <2>2, <2>3, MoveKeeps
  <1>13. bucket' \in [Times -> Object] /\ sent' \subseteq Message
    BY <1>2, <1>7 DEF ReportTypeOK
  <1> QED
    BY <1>4, <1>5, <1>7, <1>10, <1>11, <1>12, <1>13, HandlerKeeps

\* The page is built: all that the scan owes is in it.
LEMMA RenderStep ==
    ASSUME IInv, ReportInv, NEW r \in Reports, Render(r)
    PROVE  ReportInv'
  <1> DEFINE new == [run[r] EXCEPT !.pc = "rendered", !.at = now]
  <1>1. ReportTypeOK /\ TypeOK /\ run \in [Reports -> Invocation]
    BY DEF ReportInv, ReportTypeOK
  <1>2. run[r] \in Invocation /\ now \in Times /\ now \in Nat
    BY <1>1 DEF TypeOK
  <1>3. /\ new.pc = "rendered" /\ new.started = run[r].started /\ new.due = run[r].due
        /\ new.try = run[r].try /\ new.listed = run[r].listed /\ new.at = now
        /\ new \in Invocation
    BY <1>2 DEF Invocation
  <1>4. /\ run[r].pc = "scanning" /\ run[r].unread = {} /\ UNCHANGED <<vars, bucket, sent>>
    BY DEF Render
  <1>5. run' = [run EXCEPT ![r] = new]
    BY <1>1 DEF Render
  <1>6. run'[r] = new /\ \A q \in Reports : q # r => run'[q] = run[q]
    BY <1>1, <1>5
  <1>7. ScanOf(r)'
    <2>1. ScanOf(r)
      BY DEF ReportInv, ScanInv
    <2> QED
      BY <1>3, <1>4, <1>6, <2>1 DEF ScanOf, Active
  <1>8. CurrentOf(r)'
    BY <1>3, <1>4, <1>6 DEF ReportInv, NoFindingIsStale, Active, CurrentOf, Seen, Keys
  <1>9. DeliveryInv'
    <2>1. run[r].at <= now
      BY DeliveryParts DEF ReportInv
    <2>2. run'[r].at = now /\ run'[r].pc = "rendered"
      BY <1>3, <1>6
    <2>3. /\ now' = now /\ bucket' = bucket /\ sent' = sent
          /\ \A q \in Reports : q # r => run'[q] = run[q]
      BY <1>4, <1>6
    <2> HIDE DEF new
    <2> QED
      BY <1>2, <1>4, <2>1, <2>2, <2>3, MoveKeeps
  <1> QED
    BY <1>1, <1>3, <1>4, <1>5, <1>7, <1>8, <1>9, HandlerKeeps DEF ReportTypeOK

LEMMA UploadStep ==
    ASSUME IInv, ReportInv, NEW r \in Reports, Upload(r)
    PROVE  ReportInv'
  <1> DEFINE new == [run[r] EXCEPT !.pc = "uploaded"]
  <1>1. ReportTypeOK /\ run \in [Reports -> Invocation]
    BY DEF ReportInv, ReportTypeOK
  <1>2. run[r] \in Invocation
    BY <1>1
  <1>3. /\ new.pc = "uploaded" /\ new.started = run[r].started /\ new.due = run[r].due
        /\ new.try = run[r].try /\ new.listed = run[r].listed /\ new.at = run[r].at
        /\ new \in Invocation
    BY <1>2 DEF Invocation
  <1>4. run[r].pc = "rendered" /\ PutObject(r) /\ UNCHANGED <<vars, sent>>
    BY DEF Upload
  <1>5. run' = [run EXCEPT ![r] = new]
    BY <1>1 DEF Upload
  <1>6. run'[r] = new /\ \A q \in Reports : q # r => run'[q] = run[q]
    BY <1>1, <1>5
  <1>7. bucket' \in [Times -> Object] /\ DeliveryInv'
    BY <1>3, <1>4, <1>6, PutKeeps
  <1>8. ScanOf(r)'
    <2>1. ScanOf(r)
      BY DEF ReportInv, ScanInv
    <2> QED
      BY <1>3, <1>4, <1>6, <2>1 DEF ScanOf, Active
  <1>9. CurrentOf(r)'
    BY <1>3, <1>4, <1>6 DEF ReportInv, NoFindingIsStale, Active, CurrentOf, Seen, Keys
  <1> QED
    BY <1>1, <1>3, <1>4, <1>5, <1>7, <1>8, <1>9, HandlerKeeps DEF ReportTypeOK

\* The two sends: the report moves on, whether they were accepted or not.
LEMMA SendStep ==
    ASSUME IInv, ReportInv, NEW r \in Reports, SendEmail(r) \/ PublishSns(r)
    PROVE  ReportInv'
  <1>1. PICK pc \in {"emailed", "done"} :
           /\ run' = [run EXCEPT ![r].pc = pc]
           /\ run[r].pc \in {"uploaded", "emailed"} /\ Send(r)
           /\ UNCHANGED <<vars, bucket>>
    BY DEF SendEmail, PublishSns
  <1> DEFINE new == [run[r] EXCEPT !.pc = pc]
  <1>2. ReportTypeOK /\ run \in [Reports -> Invocation]
    BY DEF ReportInv, ReportTypeOK
  <1>3. run[r] \in Invocation
    BY <1>2
  <1>4. /\ new.pc = pc /\ new.started = run[r].started /\ new.due = run[r].due
        /\ new.try = run[r].try /\ new.listed = run[r].listed /\ new.at = run[r].at
        /\ new \in Invocation
    BY <1>3 DEF Invocation
  <1>5. run' = [run EXCEPT ![r] = new]
    BY <1>1, <1>2
  <1>6. run'[r] = new /\ \A q \in Reports : q # r => run'[q] = run[q]
    BY <1>2, <1>5
  <1>7. ScanOf(r)'
    <2>1. ScanOf(r)
      BY DEF ReportInv, ScanInv
    <2> QED
      BY <1>1, <1>4, <1>6, <2>1 DEF ScanOf, Active
  <1>8. CurrentOf(r)'
    BY <1>1, <1>4, <1>6 DEF ReportInv, NoFindingIsStale, Active, CurrentOf, Seen, Keys
  <1>9. sent' \subseteq Message /\ DeliveryInv'
    BY <1>1, <1>4, <1>6, SendKeeps
  <1>10. bucket' \in [Times -> Object]
    BY <1>1, <1>2 DEF ReportTypeOK
  <1> QED
    BY <1>1, <1>4, <1>5, <1>7, <1>8, <1>9, <1>10, HandlerKeeps

LEMMA RaiseStep ==
    ASSUME IInv, ReportInv, NEW r \in Reports, ReportRaises(r)
    PROVE  ReportInv'
  <1> DEFINE new == [run[r] EXCEPT !.pc = "raised", !.due = {}, !.unread = {}, !.listed = {}]
  <1>1. ReportTypeOK /\ DeliveryInv /\ run \in [Reports -> Invocation]
    BY DEF ReportInv, ReportTypeOK
  <1>2. run[r] \in Invocation /\ run[r].at \in Nat /\ run[r].at <= now
    BY <1>1, InvocationFields, DeliveryParts
  <1>3. /\ new.pc = "raised" /\ new.try = run[r].try /\ new.listed = {}
        /\ new.at = run[r].at /\ new \in Invocation
    BY <1>2 DEF Invocation
  <1>4. run' = [run EXCEPT ![r] = new] /\ UNCHANGED vars
    BY <1>1 DEF ReportRaises
  <1>5. run'[r] = new /\ \A q \in Reports : q # r => run'[q] = run[q]
    BY <1>1, <1>4
  <1>6. ScanOf(r)' /\ CurrentOf(r)'
    BY <1>3, <1>5 DEF ScanOf, CurrentOf, Active
  <1>7. bucket' \in [Times -> Object] /\ sent' \subseteq Message /\ DeliveryInv'
    <2>1. CASE run[r].pc = "rendered" /\ PutObject(r) /\ UNCHANGED sent
      BY <1>1, <1>3, <1>4, <1>5, <2>1, PutKeeps DEF ReportTypeOK
    <2>2. CASE run[r].pc \in {"uploaded", "emailed"} /\ Send(r) /\ UNCHANGED bucket
      BY <1>1, <1>3, <1>4, <1>5, <2>2, SendKeeps DEF ReportTypeOK
    <2>3. CASE UNCHANGED <<bucket, sent>>
      BY <1>1, <1>2, <1>3, <1>4, <1>5, <2>3, MoveKeeps DEF ReportTypeOK
    <2> QED
      BY <2>1, <2>2, <2>3 DEF ReportRaises
  <1> QED
    BY <1>3, <1>4, <1>6, <1>7, HandlerKeeps

\* Scanners, DynamoDB and the clock move under a running report.
LEMMA ScannersKeep ==
    ASSUME IInv, ReportInv, [Next]_vars, UNCHANGED reportVars,
           now' # now => \A r \in Reports : Active(r) => now < run[r].started + Lifetime
    PROVE  ReportInv'
  <1>1. ReportTypeOK /\ TypeOK /\ CopyInv
    BY DEF ReportInv, IInv
  <1>2. TypeOK' /\ CopyInv'
    BY <1>1, TypeStep, CopyStep
  <1>3. ReportTypeOK'
    BY <1>1, <1>2 DEF ReportTypeOK
  <1>4. ASSUME NEW r \in Reports PROVE ScanOf(r)' /\ CurrentOf(r)'
    <2>1. ScanOf(r) /\ CurrentOf(r)
      BY DEF ReportInv, ScanInv, NoFindingIsStale, CurrentOf
    <2>2. /\ run[r].started \in Nat /\ run[r].due \subseteq FindingIds
          /\ run[r].listed \subseteq FindingIds /\ now \in Nat /\ run' = run /\ bucket' = bucket
      BY <1>1, InvocationFields DEF TypeOK
    <2>3. Active(r) => run[r].started <= now' /\ now' <= run[r].started + Lifetime
      BY <1>1, <2>1, <2>2, ClockEffect DEF ScanOf
    <2>4. ASSUME Active(r), NEW f \in FindingIds, NEW d \in {0, Lifetime},
                 Seen(run[r].started, Window + d, rows[f])
          PROVE  Seen(run[r].started, Window + d, rows'[f])
      <3>1. run[r].started <= now /\ now <= run[r].started + Lifetime
        BY <2>1, <2>4 DEF ScanOf
      <3> QED
        BY <2>2, <2>4, <3>1, SeenStays
    <2>5. CurrentOf(r)'
      <3>1. ASSUME Active(r), NEW f \in run[r].listed
            PROVE  Seen(run[r].started, Window + Lifetime, rows'[f])
        BY <2>1, <2>2, <2>4, <3>1 DEF CurrentOf
      <3> QED
        BY <2>2, <3>1 DEF CurrentOf, Active
    <2>6. ASSUME run[r].pc = "scanning", NEW f \in run[r].due \ run[r].listed
          PROVE  /\ f \in run[r].unread
                 /\ Seen(run[r].started, Window, rows'[f])
                 /\ Seen(run[r].started, Window, replica'[f])
      <3>1. /\ f \in FindingIds /\ f \in run[r].unread
            /\ Seen(run[r].started, Window, rows[f])
            /\ Seen(run[r].started, Window, replica[f])
        BY <2>1, <2>2, <2>6 DEF ScanOf
      <3>2. Window + 0 = Window
        OBVIOUS
      <3>3. Seen(run[r].started, Window, rows'[f])
        BY <2>4, <2>6, <3>1, <3>2 DEF Active
      <3>4. Seen(run[r].started, Window, replica'[f])
        BY <1>1, <3>1, CopyEffect DEF Seen
      <3> QED
        BY <3>1, <3>3, <3>4
    <2>7. ScanOf(r)'
      BY <2>1, <2>2, <2>3, <2>6 DEF ScanOf, Active
    <2> QED
      BY <2>5, <2>7
  <1>5. ScanInv' /\ NoFindingIsStale'
    BY <1>4 DEF ScanInv, NoFindingIsStale, CurrentOf
  <1>6. DeliveryInv'
    <2>1. DeliveryInv /\ now \in Nat /\ (now' = now \/ now' = now + 1)
      BY <1>1, ClockEffect DEF ReportInv, TypeOK
    <2>2. ASSUME NEW r \in Reports PROVE run'[r].at <= now' /\ ObjectOf(r)'
      <3>1. run[r].at <= now /\ run[r].at \in Nat /\ ObjectOf(r)
        BY <1>1, <2>1, DeliveryParts, InvocationFields
      <3> QED
        BY <2>1, <3>1 DEF ObjectOf
    <2>3. \A m \in sent : MessageOf(m)'
      BY <2>1, DeliveryParts DEF MessageOf, DeliveryInv
    <2> QED
      BY <2>1, <2>2, <2>3 DEF DeliveryInv, ReportMissesNothing, MessagesMatchReports
  <1> QED
    BY <1>2, <1>3, <1>5, <1>6 DEF ReportInv

-----------------------------------------------------------------------------
(* Theorems. *)

LEMMA ReportInvInit == ReportInit => ReportInv
  <1> SUFFICES ASSUME ReportInit PROVE ReportInv
    OBVIOUS
  <1>1. /\ run = [r \in Reports |-> [pc |-> "scheduled", started |-> 0, due |-> {},
                                     unread |-> {}, listed |-> {}, at |-> 0, try |-> 0]]
        /\ bucket = [k \in Times |-> NoObject] /\ sent = {} /\ Init
    BY DEF ReportInit
  <1>2. ReportTypeOK
    <2>1. NoObject \in Object
      BY DEF NoObject, Object
    <2>2. [pc |-> "scheduled", started |-> 0, due |-> {},
           unread |-> {}, listed |-> {}, at |-> 0, try |-> 0] \in Invocation
      BY DEF Invocation, Tries
    <2> QED
      BY <1>1, <2>1, <2>2, TypeInit DEF ReportTypeOK
  <1>3. ScanInv /\ NoFindingIsStale
    BY <1>1 DEF ScanInv, ScanOf, NoFindingIsStale, Active
  <1>4. DeliveryInv
    BY <1>1 DEF DeliveryInv, ObjectOf, ReportMissesNothing, MessagesMatchReports, NoObject, Init
  <1> QED
    BY <1>1, <1>2, <1>3, <1>4, CopyInit DEF ReportInv

\* ReportInv: what is owed and not yet listed can still be read, what is listed
\* is in the table, and every message has its object, whatever scanners, crashes,
\* retries, refused sends, lagging copies and the TTL do.
THEOREM ReportInvariance == ReportSpec => []ReportInv
  <1>1. ASSUME IInv, ReportInv, [ReportNext]_<<vars, reportVars>> PROVE ReportInv'
    <2>1. ASSUME NEW r \in Reports, InvokeReport(r) PROVE ReportInv'
      <3>1. 0 \in Tries
        BY DEF Tries
      <3> QED
        BY <1>1, <2>1, <3>1, BeginStep DEF InvokeReport
    <2>2. ASSUME NEW r \in Reports, RetryReport(r) PROVE ReportInv'
      <3>1. run[r].try \in Nat /\ run[r].at \in Nat /\ now \in Nat
        BY <1>1, InvocationFields DEF ReportInv, ReportTypeOK, TypeOK
      <3>2. run[r].try + 1 \in Tries /\ run[r].at < now
        BY <2>2, <3>1 DEF RetryReport, Tries
      <3> QED
        BY <1>1, <2>2, <3>2, BeginStep DEF RetryReport
    <2>3. ASSUME NEW r \in Reports, HandlerStep(r) PROVE ReportInv'
      BY <1>1, <2>3, ReadPageStep, RenderStep, UploadStep, SendStep, RaiseStep DEF HandlerStep
    <2>4. CASE ScannersStep
      BY <1>1, <2>4, ScannersKeep DEF ScannersStep
    <2>5. CASE UNCHANGED <<vars, reportVars>>
      BY <1>1, <2>5, ScannersKeep
    <2> QED
      BY <1>1, <2>1, <2>2, <2>3, <2>4, <2>5 DEF ReportNext
  <1> QED
    BY <1>1, ReportInvInit, TableInvariance, PTL DEF ReportSpec

\* ReportMissesNothing: a stored report lists every finding that was upserted
\* with a stamp in its window before it began.
THEOREM NothingIsMissed == ReportSpec => []ReportMissesNothing
  <1>1. ReportInv => ReportMissesNothing
    BY DEF ReportInv, DeliveryInv
  <1> QED
    BY <1>1, ReportInvariance, PTL

\* NoFindingIsStale: no page of any copy brings back what has aged out.
THEOREM NothingIsStale == ReportSpec => []NoFindingIsStale
  <1>1. ReportInv => NoFindingIsStale
    BY DEF ReportInv
  <1> QED
    BY <1>1, ReportInvariance, PTL

\* MessagesMatchReports: a link leads to a report, and to none of its own
\* report's later tries; only another delivery of the same second replaces it.
THEOREM LinksLeadToTheirReport == ReportSpec => []MessagesMatchReports
  <1>1. ReportInv => MessagesMatchReports
    BY DEF ReportInv, DeliveryInv
  <1> QED
    BY <1>1, ReportInvariance, PTL
=============================================================================
