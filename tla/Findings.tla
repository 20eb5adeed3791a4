------------------------------- MODULE Findings -------------------------------
(***************************************************************************)
(* The findings table and upsert_finding of shared/dynamo_client: one      *)
(* query and one write for each finding of a batch, no lock and no         *)
(* condition on the write.  Several scanner invocations may be at it at    *)
(* the same time, any of them may die half way, the query may be answered  *)
(* by a replica that lags, and DynamoDB deletes rows whose TTL is over.    *)
(***************************************************************************)
EXTENDS Naturals, FiniteSets

CONSTANTS
    FindingIds,     \* values of compute_finding_id: one for each real issue
    Writers,        \* callers of batch_upsert_findings: a task of a state machine
    Emits,          \* Emits[w]: what w's scanner can report
    MaxTime,        \* bound on the clock
    Lifetime,       \* a Lambda's timeout
    Window,         \* report_window_hours
    TTL             \* FINDING_TTL_DAYS

ASSUME EmitsAssumption == Emits \in [Writers -> SUBSET FindingIds]
ASSUME TimesAssumption == /\ MaxTime \in Nat /\ Lifetime \in Nat
                          /\ Window \in Nat /\ TTL \in Nat
                          /\ Window <= TTL

VARIABLES
    now,        \* the clock
    rows,       \* rows[f][t]: the item with finding_id f and sort key t
    replica,    \* replica[f]: the items of f as a lagging replica has them
    stage,      \* stage[w]: where w's invocation is
    stamp,      \* stamp[w]: timestamp its findings carry
    found,      \* found[w]: the batch
    todo,       \* todo[w]: findings of the batch not yet upserted
    pending,    \* upserts that have queried and not yet been answered by the write
    sights      \* sights[f]: upserts of f that have begun (history)

tableVars == <<rows, replica>>
writerVars == <<stage, stamp, found, todo, pending, sights>>
vars == <<now, tableVars, writerVars>>

Times == 0..MaxTime

\* "whole" is false when only the update has written the item: it then lacks
\* category, resource, check name and all else that an insert stores.
Row == [last : Times, count : Nat, whole : BOOLEAN]
NoRow == [last |-> 0, count |-> 0, whole |-> FALSE]
Keys(items) == {t \in Times : items[t].count > 0}

\* count and sk are what the write will carry.
Pending == [by : Writers, id : FindingIds, op : {"put", "update"}, sk : Times,
            count : Nat, sent : BOOLEAN]

TypeOK ==
    /\ now \in Times
    /\ rows \in [FindingIds -> [Times -> Row]]
    /\ replica \in [FindingIds -> [Times -> Row]]
    /\ stage \in [Writers -> {"idle", "detecting", "upserting", "returned", "raised"}]
    /\ stamp \in [Writers -> Times]
    /\ found \in [Writers -> SUBSET FindingIds]
    /\ todo \in [Writers -> SUBSET FindingIds]
    /\ pending \subseteq Pending
    /\ sights \in [FindingIds -> Nat]

Init ==
    /\ now = 0
    /\ rows = [f \in FindingIds |-> [t \in Times |-> NoRow]]
    /\ replica = rows
    /\ stage = [w \in Writers |-> "idle"]
    /\ stamp = [w \in Writers |-> 0]
    /\ found = [w \in Writers |-> {}]
    /\ todo = [w \in Writers |-> {}]
    /\ pending = {}
    /\ sights = [f \in FindingIds |-> 0]

Running(w) == stage[w] \in {"detecting", "upserting"}

-----------------------------------------------------------------------------
(* A scanner invocation. *)

\* Invoked by a state machine, for the first time or again, several in one step.
Invoke(ws) ==
    /\ \A w \in ws : ~Running(w)
    /\ stage' = [w \in Writers |-> IF w \in ws THEN "detecting" ELSE stage[w]]
    /\ found' = [w \in Writers |-> IF w \in ws THEN {} ELSE found[w]]
    /\ todo' = [w \in Writers |-> IF w \in ws THEN {} ELSE todo[w]]
    /\ UNCHANGED <<now, tableVars, stamp, pending, sights>>

\* Detection is over and its findings get one timestamp.  A checker that
\* raises is logged and reports nothing, so any part may be missing.
Stamp(w) ==
    /\ stage[w] = "detecting"
    /\ stage' = [stage EXCEPT ![w] = "upserting"]
    /\ stamp' = [stamp EXCEPT ![w] = now]
    /\ \E batch \in SUBSET Emits[w] :
          /\ found' = [found EXCEPT ![w] = batch]
          /\ todo' = [todo EXCEPT ![w] = batch]
    /\ UNCHANGED <<now, tableVars, pending, sights>>

\* Mutant: an update addresses the row of this scan's own timestamp.
MutantOwnKey(w, f, items) ==
    \/ /\ Keys(items) = {}
       /\ pending' = pending \cup
             {[by |-> w, id |-> f, op |-> "put", sk |-> stamp[w], count |-> 1, sent |-> FALSE]}
    \/ \E sk \in Keys(items) :
          pending' = pending \cup
             {[by |-> w, id |-> f, op |-> "update", sk |-> stamp[w],
               count |-> items[sk].count + 1, sent |-> FALSE]}

\* Mutant: expires_at is taken for the sort key of an insert.
MutantExpiryAsKey(w, f, items) ==
    /\ Keys(items) = {}
    /\ pending' = pending \cup
          {[by |-> w, id |-> f, op |-> "put", sk |-> stamp[w] + TTL, count |-> 1, sent |-> FALSE]}

\* What the write will be, given the items the query was answered with: of
\* several items the one with the least sort key (Limit=1).
Decide(w, f, items) ==
    \/ /\ Keys(items) = {}
       /\ pending' = pending \cup
             {[by |-> w, id |-> f, op |-> "put", sk |-> stamp[w], count |-> 1, sent |-> FALSE]}
    \/ \E sk \in Keys(items) :
          /\ \A t \in Keys(items) : sk <= t
          /\ pending' = pending \cup
                {[by |-> w, id |-> f, op |-> "update", sk |-> sk,
                  count |-> items[sk].count + 1, sent |-> FALSE]}

\* The query of upsert_finding, eventually consistent.
Query(w, f) ==
    /\ stage[w] = "upserting" /\ f \in todo[w]
    /\ \A p \in pending : p.by # w
    /\ \E items \in {rows[f], replica[f]} : Decide(w, f, items)
    /\ sights' = [sights EXCEPT ![f] = @ + 1]
    /\ UNCHANGED <<now, tableVars, stage, stamp, found, todo>>

\* Mutant: the update leaves last_seen alone.
MutantKeepsLastSeen(p) ==
    [last |-> IF p.op = "put" THEN stamp[p.by] ELSE rows[p.id][p.sk].last,
     count |-> p.count, whole |-> p.op = "put" \/ rows[p.id][p.sk].whole]

\* Mutant: the count is added up by DynamoDB (ADD occurrence_count 1), which
\* a repeated call adds up again.
MutantAddsOne(p) ==
    [last |-> stamp[p.by],
     count |-> rows[p.id][p.sk].count + 1,
     whole |-> p.op = "put" \/ rows[p.id][p.sk].whole]

\* put_item stores the whole finding; update_item sets the count it computed,
\* last_seen and expires_at, and makes an item if there is none.
Stored(p) ==
    [last |-> stamp[p.by], count |-> p.count,
     whole |-> p.op = "put" \/ rows[p.id][p.sk].whole]

\* The write takes effect.  When its answer is lost the SDK sends it again.
Write(p) ==
    /\ p \in pending
    /\ rows' = [rows EXCEPT ![p.id][p.sk] = Stored(p)]
    /\ \/ /\ pending' = pending \ {p}
          /\ todo' = [todo EXCEPT ![p.by] = @ \ {p.id}]
       \/ /\ ~p.sent
          /\ pending' = (pending \ {p}) \cup {[p EXCEPT !.sent = TRUE]}
          /\ UNCHANGED todo
    /\ UNCHANGED <<now, replica, stage, stamp, found, sights>>

Return(w) ==
    /\ stage[w] = "upserting" /\ todo[w] = {}
    /\ stage' = [stage EXCEPT ![w] = "returned"]
    /\ UNCHANGED <<now, tableVars, stamp, found, todo, pending, sights>>

\* Mutant: an upsert of an invocation that is over still goes through.
MutantOutlivesItsCaller(w) ==
    /\ Running(w)
    /\ stage' = [stage EXCEPT ![w] = "raised"]
    /\ UNCHANGED <<now, tableVars, stamp, found, todo, pending, sights>>

\* The invocation times out, is killed or raises: the rest of its batch is lost.
Raise(w) ==
    /\ Running(w)
    /\ stage' = [stage EXCEPT ![w] = "raised"]
    /\ pending' = {p \in pending : p.by # w}
    /\ UNCHANGED <<now, tableVars, stamp, found, todo, sights>>

WriterStep(w) ==
    \/ Stamp(w)
    \/ \E f \in FindingIds : Query(w, f)
    \/ \E p \in pending : p.by = w /\ Write(p)
    \/ Return(w)
    \/ Raise(w)

-----------------------------------------------------------------------------
(* DynamoDB and the clock. *)

\* expires_at is stamped together with last_seen.
Expired(row) == row.last + TTL < now

Purge(f, t) ==
    /\ t \in Keys(rows[f]) /\ Expired(rows[f][t])
    /\ rows' = [rows EXCEPT ![f][t] = NoRow]
    /\ UNCHANGED <<now, replica, writerVars>>

Replicate(f) ==
    /\ replica[f] # rows[f]
    /\ replica' = [replica EXCEPT ![f] = rows[f]]
    /\ UNCHANGED <<now, rows, writerVars>>

\* No invocation outlives its timeout.
Tick ==
    /\ now < MaxTime
    /\ \A w \in Writers : stage[w] = "upserting" => now < stamp[w] + Lifetime
    /\ now' = now + 1
    /\ UNCHANGED <<tableVars, writerVars>>

Environment ==
    \/ \E f \in FindingIds, t \in Times : Purge(f, t)
    \/ \E f \in FindingIds : Replicate(f)
    \/ Tick

Next ==
    \/ \E ws \in SUBSET Writers : Invoke(ws)
    \/ \E w \in Writers : WriterStep(w)
    \/ Environment

Spec == Init /\ [][Next]_vars

-----------------------------------------------------------------------------
(* Safety. *)

\* What a report generated now shows: last_seen or the sort key is in its window.
Reported ==
    {f \in FindingIds : \E t \in Keys(rows[f]) :
        rows[f][t].last + Window >= now \/ t + Window >= now}

\* A finding that an invocation has upserted is in every report of the window,
\* whatever other invocations, crashes, lagging reads and the TTL do to its
\* rows.  The margin is one Lambda timeout: a slower invocation that began
\* earlier may set last_seen back by as much.
ReportIsComplete ==
    \A w \in Writers : stamp[w] + Window >= now + Lifetime =>
        found[w] \ todo[w] \subseteq Reported

\* "Seen N times" never says more than the scanners have seen.
CountNeverOverstates ==
    \A f \in FindingIds, t \in Times : rows[f][t].count <= sights[f]

\* Re-scanning the same issue updates its row and adds no other.
OneRowPerFinding ==
    \A f \in FindingIds : Cardinality(Keys(rows[f])) <= 1

\* A row without category, resource and check, one that an update made because
\* the TTL took the row it was meant for after its query, stands only for a
\* finding first seen longer ago than the whole TTL: nobody who has just been
\* told of a finding meets such a row.
TornRowsHadExpired ==
    \A f \in FindingIds : \A t \in Keys(rows[f]) :
        ~rows[f][t].whole => t + TTL < rows[f][t].last + 2 * Lifetime

-----------------------------------------------------------------------------
(* The inductive invariant. *)

\* An upsert in flight belongs to a running invocation, which has no other.
PendingInv ==
    /\ \A w \in Writers : todo[w] \subseteq found[w]
    /\ \A p, q \in pending : p.by = q.by => p = q
    /\ \A p \in pending :
          /\ stage[p.by] = "upserting" /\ p.id \in todo[p.by]
          /\ p.count \in 1..sights[p.id]
    /\ \A f \in FindingIds, t \in Times : replica[f][t].count <= sights[f]
    /\ CountNeverOverstates

\* No stamp is in the future, and an invocation's own is at most its lifetime old.
ClockInv ==
    \A w \in Writers :
        /\ stamp[w] <= now
        /\ stage[w] = "upserting" => now <= stamp[w] + Lifetime

\* A finding upserted at s has a row no older than s minus a lifetime, until
\* the TTL of such a row may be over.
RecordedInv ==
    \A w \in Writers : stamp[w] + TTL >= now + Lifetime =>
        \A f \in found[w] \ todo[w] :
            \E t \in Keys(rows[f]) : rows[f][t].last + Lifetime >= stamp[w]

IInv == TypeOK /\ PendingInv /\ ClockInv /\ RecordedInv

\* How far the copies of a row can be apart: sights are at most a lifetime out
\* of order, and a row that only the lagging copy still has is too old for any
\* report that can be running.
CopyInv ==
    /\ \A p \in pending : p.sk <= now
    /\ \A f \in FindingIds, t \in Times :
          /\ t \in Keys(rows[f]) =>
                t <= now /\ rows[f][t].last <= now /\ t <= rows[f][t].last + Lifetime
          /\ t \in Keys(replica[f]) =>
                /\ t <= now /\ replica[f][t].last <= now
                /\ \/ /\ t \in Keys(rows[f])
                      /\ replica[f][t].last <= rows[f][t].last + Lifetime
                   \/ /\ t + TTL < now + Lifetime
                      /\ replica[f][t].last + TTL < now + Lifetime

\* An update that no longer finds its row comes after the row's TTL, and so does
\* every row that such an update made.
TornInv ==
    /\ \A p \in pending : p.op = "update" =>
          p.sk \in Keys(rows[p.id]) \/ p.sk + TTL < now + Lifetime
    /\ \A f \in FindingIds, t \in Times : t \in Keys(rows[f]) /\ ~rows[f][t].whole =>
          t + TTL < now + Lifetime
    /\ TornRowsHadExpired

-----------------------------------------------------------------------------
(* What the store promises when nothing gets in its way: one invocation at a  *)
(* time, queries answered by an up-to-date replica, no TTL between a query    *)
(* and its write.                                                             *)

Undisturbed ==
    \/ \E w \in Writers :
          \/ (\A v \in Writers : ~Running(v)) /\ Invoke({w})
          \/ Stamp(w) \/ Return(w) \/ Raise(w)
          \/ \E f \in FindingIds : replica[f] = rows[f] /\ Query(w, f)
    \/ \E p \in pending : Write(p)
    \/ \E f \in FindingIds, t \in Times : pending = {} /\ Purge(f, t)
    \/ \E f \in FindingIds : Replicate(f)
    \/ Tick

SerialSpec == Init /\ [][Undisturbed]_vars

\* The items of one finding as the ledger sees them.
Entry(items) ==
    IF Keys(items) = {}
      THEN [first |-> 0, last |-> 0, count |-> 0]
      ELSE LET t == CHOOSE t \in Keys(items) : TRUE
           IN  [first |-> t, last |-> items[t].last, count |-> items[t].count]

entries == [f \in FindingIds |-> Entry(rows[f])]

Ledger == INSTANCE FindingLedger WITH ledger <- entries

\* An undisturbed store is the idempotent ledger its documentation describes.
ImplementsLedger == Ledger!LedgerSpec

\* Why: the one upsert in flight knows the items it is about to write to, and
\* once its write has been sent they are as it wants them.
SerialInv ==
    /\ \A v, w \in Writers : Running(v) /\ Running(w) => v = w
    /\ \A f \in FindingIds : \A t, u \in Keys(rows[f]) : t = u
    /\ \A w \in Writers, f \in FindingIds : \A t \in Keys(rows[f]) :
          /\ rows[f][t].last <= now
          /\ stage[w] = "upserting" => rows[f][t].last <= stamp[w]
    /\ \A p \in pending :
          \/ p.sent /\ Keys(rows[p.id]) = {p.sk} /\ rows[p.id][p.sk] = Stored(p)
          \/ /\ ~p.sent /\ p.op = "put" /\ p.sk = stamp[p.by] /\ p.count = 1
             /\ Keys(rows[p.id]) = {}
          \/ /\ ~p.sent /\ p.op = "update" /\ Keys(rows[p.id]) = {p.sk}
             /\ p.count = rows[p.id][p.sk].count + 1
=============================================================================
