------------------------------ MODULE CostScanner ------------------------------
(***************************************************************************)
(* The cost scanner, cost_scanner/handler.py and cost_analyzer.py: page by *)
(* page it reads what each service was charged on the last days, stores    *)
(* the charges, and upserts a finding for each service whose latest day is *)
(* far above its days before.  Meanwhile AWS goes on billing and revising, *)
(* invocations overlap, and each may die at any call.                      *)
(***************************************************************************)
EXTENDS Integers, FiniteSets, FiniteSetsExt

CONSTANTS
    Services,
    Slots,          \* environments of the Lambda: its reserved concurrency
    Amounts,        \* charges, in a unit of which each is a whole number; credits are negative
    Slack,          \* bound on what rounding in binary floats may add to a total
    LastDay,        \* bound on the days of the model
    History,        \* days that a scan asks for: 30
    MinAnomaly,     \* MIN_ANOMALY_DOLLARS
    Retention       \* FINDING_TTL_DAYS

Days == 1..LastDay

ASSUME AmountsAssumption == Amounts \subseteq Int
ASSUME SlackAssumption == Slack \in Nat
ASSUME DaysAssumption == {LastDay, History} \subseteq Nat \ {0} /\ Retention \in Nat
ASSUME MinAnomalyAssumption == MinAnomaly \in Int

VARIABLES
    today,
    bill,       \* what Cost Explorer shows: charges by service and day
    pc,         \* by slot: where its invocation is
    asked,      \* by slot: the day it began, end_date
    unread,     \* by slot: days on the pages still to come
    data,       \* by slot: the charges that it has read
    unstored,   \* by slot: charges not yet known to be stored
    todo,       \* by slot: anomalies still to be upserted
    costTable,  \* the cost-data table
    rows,       \* cost findings by service, in the findings table
    told,       \* by slot: services it has upserted (history)
    revised,    \* by slot: services whose bill changed since it began (history)
    overtaken,  \* by slot: services another has upserted since it began (history)
    crossed,    \* slots since whose start another has stored outdated charges (history)
    withdrawn   \* services whose bill has ever lost a charge (history)

scannerVars == <<pc, asked, unread, data, unstored, todo>>
tableVars == <<costTable, rows>>
writeHistory == <<told, overtaken, crossed>>
historyVars == <<writeHistory, revised, withdrawn>>
costVars == <<today, bill, scannerVars, tableVars, historyVars>>

\* Charges by <<service, day>>; no entry where there was no usage.
Entries == Services \X Days
IsCharges(c) == DOMAIN c \subseteq Entries /\ c = [e \in DOMAIN c |-> c[e]]
                  /\ \A e \in DOMAIN c : c[e] \in Amounts
On(days) == Services \X days
Only(c, entries) == [e \in DOMAIN c \cap entries |-> c[e]]
Overlay(c, new) ==
    [e \in DOMAIN c \cup DOMAIN new |-> IF e \in DOMAIN new THEN new[e] ELSE c[e]]
NoCharges == [e \in {} |-> 0]

\* day_costs of a service.
CostsOf(c, s) == [d \in {x \in Days : <<s, x>> \in DOMAIN c} |-> c[<<s, d>>]]

\* Start is inclusive, End exclusive: today's own charges are never read.
DaysAsked(end) == {d \in Days : end - History <= d /\ d < end}

-----------------------------------------------------------------------------
(* detect_anomalies. *)

\* Mutant: the dearest day in place of the latest.
MutantDearest(costs) == CHOOSE d \in DOMAIN costs : \A x \in DOMAIN costs : costs[x] <= costs[d]

Latest(costs) == Max(DOMAIN costs)
PriorDays(costs) == DOMAIN costs \ {Latest(costs)}

\* A sight: the charge of a day, against the total of the days before it.
Sight(costs) == [day |-> Latest(costs), actual |-> costs[Latest(costs)],
                 before |-> PriorDays(costs), total |-> SumFunctionOnSet(costs, PriorDays(costs))]

\* Sum, average and ratio are floats: on a total the code decides as on one that is
\* off by a margin of at most Slack either way.
RatioIsAtLeast(sight, thousandths, margin) ==
    1000 * sight.actual * Cardinality(sight.before) >= thousandths * (sight.total + margin)

IsAnomaly(sight, margin) ==
    /\ sight.total > margin /\ sight.actual >= MinAnomaly
    /\ RatioIsAtLeast(sight, 1500, margin)

Anomalies(c, margin) ==
    {s \in Services : LET costs == CostsOf(c, s) IN
        Cardinality(DOMAIN costs) >= 2 /\ IsAnomaly(Sight(costs), margin)}

\* The ratio has been rounded to three digits.
RoundsToDouble(sight, margin) ==
    2 * 1000 * sight.actual * Cardinality(sight.before) >= (2 * 2000 - 1) * (sight.total + margin)

Severities(sight) ==
    {x \in {"CRITICAL"} : RoundsToDouble(sight, -Slack)}
      \cup {x \in {"HIGH"} : ~RoundsToDouble(sight, Slack)}

-----------------------------------------------------------------------------
(* The invocations. *)

Active(i) == pc[i] \in {"reading", "storing", "reporting"}

CostInit ==
    /\ today \in 1..(LastDay + 1)
    /\ IsCharges(bill) /\ DOMAIN bill \subseteq On({d \in Days : d < today})
    /\ pc = [i \in Slots |-> "idle"] /\ asked = [i \in Slots |-> today]
    /\ data = [i \in Slots |-> NoCharges]
    /\ unread = [i \in Slots |-> {}] /\ unstored = unread /\ todo = unread
    /\ told = unread /\ revised = unread /\ overtaken = unread
    /\ costTable = NoCharges /\ rows = [s \in {} |-> 0]
    /\ crossed = {} /\ withdrawn = {}

\* By the scan workflow, for the first time or as a retry, or by hand.
Begin(i) ==
    /\ ~Active(i)
    /\ pc' = [pc EXCEPT ![i] = "reading"] /\ asked' = [asked EXCEPT ![i] = today]
    /\ unread' = [unread EXCEPT ![i] = DaysAsked(today)]
    /\ told' = [told EXCEPT ![i] = {}] /\ revised' = [revised EXCEPT ![i] = {}]
    /\ overtaken' = [overtaken EXCEPT ![i] = {}] /\ crossed' = crossed \ {i}
    /\ UNCHANGED <<today, bill, data, unstored, todo, tableVars, withdrawn>>

\* Mutant: each page replaces the one before.
MutantLastPage(i, page) == data' = [data EXCEPT ![i] = page]

AddPage(i, page) == data' = [data EXCEPT ![i] = Overlay(@, page)]

\* A page has the groups of some more days, in the order of days.
ReadPage(i) ==
    /\ pc[i] = "reading"
    /\ \E last \in unread[i] :
          LET read == {d \in unread[i] : d <= last} IN
          /\ AddPage(i, Only(bill, On(read)))
          /\ unread' = [unread EXCEPT ![i] = @ \ read]
    /\ UNCHANGED <<today, bill, pc, asked, unstored, todo, tableVars, historyVars>>

\* Mutant: the anomalies are upserted before the charges are stored.
MutantFindingsFirst(i) ==
    /\ pc' = [pc EXCEPT ![i] = "reporting"]
    /\ todo' = [todo EXCEPT ![i] = Anomalies(data[i], Slack)]
    /\ UNCHANGED unstored

StartStoring(i) ==
    /\ pc' = [pc EXCEPT ![i] = "storing"]
    /\ unstored' = [unstored EXCEPT ![i] = DOMAIN data[i]]
    /\ UNCHANGED todo

LastPageRead(i) ==
    /\ pc[i] = "reading" /\ unread[i] = {}
    /\ StartStoring(i)
    /\ UNCHANGED <<today, bill, asked, unread, data, tableVars, historyVars>>

\* Mutant: a charge that is stored is not overwritten.
MutantKeepsFirst(i, entries) == costTable' = Overlay(Only(data[i], entries), costTable)

PutCharges(i, entries) == costTable' = Overlay(costTable, Only(data[i], entries))

\* What i has read is outdated once the bill has changed.
NoteCharges(i) ==
    /\ crossed' = crossed \cup {j \in Slots \ {i} : revised[i] # {}}
    /\ UNCHANGED <<told, overtaken>>

\* Some of a batch of at most 25 are processed, the rest is sent again.
StoreCharges(i) ==
    /\ pc[i] = "storing"
    /\ \E part \in SUBSET unstored[i] \ {{}} :
          PutCharges(i, part) /\ unstored' = [unstored EXCEPT ![i] = @ \ part]
    /\ NoteCharges(i)
    /\ UNCHANGED <<today, bill, pc, asked, unread, data, todo, rows, revised, withdrawn>>

Detect(i) ==
    /\ pc[i] = "storing" /\ unstored[i] = {}
    /\ pc' = [pc EXCEPT ![i] = "reporting"]
    /\ \E found \in SUBSET Anomalies(data[i], -Slack) :
          /\ Anomalies(data[i], Slack) \subseteq found
          /\ todo' = [todo EXCEPT ![i] = found]
    /\ UNCHANGED <<today, bill, asked, unread, data, unstored, tableVars, historyVars>>

\* Mutant: a row that is there keeps the severity of its first sight.
MutantOldSeverity(s, sight) ==
    IF s \in DOMAIN rows THEN {rows[s].severity} ELSE Severities(sight)

SeveritiesOf(s, sight) == Severities(sight)

\* A row that is there gets description and severity of the new sight; the
\* costs of its first sight stay.
RowOf(s, sight, severity) ==
    [told |-> sight, severity |-> severity, at |-> today,
     first |-> IF s \in DOMAIN rows THEN rows[s].first ELSE sight]

PutRow(i, s) ==
    LET sight == Sight(CostsOf(data[i], s)) IN
    \E severity \in SeveritiesOf(s, sight) :
        rows' = [x \in DOMAIN rows \cup {s} |-> IF x = s THEN RowOf(s, sight, severity) ELSE rows[x]]

NoteRow(i, s) ==
    /\ told' = [told EXCEPT ![i] = @ \cup {s}]
    /\ overtaken' = [j \in Slots |-> IF j = i THEN overtaken[j] ELSE overtaken[j] \cup {s}]
    /\ UNCHANGED crossed

\* Query, then insert or update: module Findings has the calls one by one, and
\* what two writers of one row do to it.
Upsert(i, s) ==
    /\ pc[i] = "reporting" /\ s \in todo[i]
    /\ PutRow(i, s) /\ NoteRow(i, s)
    /\ todo' = [todo EXCEPT ![i] = @ \ {s}]
    /\ UNCHANGED <<today, bill, pc, asked, unread, data, unstored, costTable, revised, withdrawn>>

Finish(i) ==
    /\ pc[i] = "reporting" /\ todo[i] = {}
    /\ pc' = [pc EXCEPT ![i] = "done"]
    /\ data' = [data EXCEPT ![i] = NoCharges]
    /\ UNCHANGED <<today, bill, asked, unread, unstored, todo, tableVars, historyVars>>

\* Mutant: what a page brought outlives the invocation in the warm process.
MutantWarmState(i) ==
    /\ UNCHANGED data
    /\ unread' = [unread EXCEPT ![i] = {}] /\ unstored' = [unstored EXCEPT ![i] = {}]
    /\ todo' = [todo EXCEPT ![i] = {}]

Forget(i) ==
    /\ data' = [data EXCEPT ![i] = NoCharges]
    /\ unread' = [unread EXCEPT ![i] = {}] /\ unstored' = [unstored EXCEPT ![i] = {}]
    /\ todo' = [todo EXCEPT ![i] = {}]

\* A call raises, or the Lambda times out.  The last write may have been made.
InvocationDies(i) ==
    /\ Active(i)
    /\ \/ UNCHANGED <<tableVars, writeHistory>>
       \/ \E part \in SUBSET unstored[i] : PutCharges(i, part) /\ NoteCharges(i) /\ UNCHANGED rows
       \/ \E s \in todo[i] : PutRow(i, s) /\ NoteRow(i, s) /\ UNCHANGED costTable
    /\ pc' = [pc EXCEPT ![i] = "raised"]
    /\ Forget(i)
    /\ UNCHANGED <<today, bill, asked, revised, withdrawn>>

ScannerStep(i) ==
    \/ Begin(i) \/ ReadPage(i) \/ LastPageRead(i) \/ StoreCharges(i) \/ Detect(i)
    \/ \E s \in Services : Upsert(i, s)
    \/ Finish(i) \/ InvocationDies(i)

Revise(s) == revised' = [i \in Slots |-> revised[i] \cup {s}]

\* AWS bills a service for a day that is over, or revises what it billed.
Bill ==
    /\ \E s \in Services, d \in {x \in Days : x < today}, a \in Amounts :
          /\ bill' = Overlay(bill, [e \in {<<s, d>>} |-> a])
          /\ bill' # bill
          /\ Revise(s)
    /\ UNCHANGED <<today, scannerVars, tableVars, writeHistory, withdrawn>>

\* AWS withdraws a charge.
Withdraw ==
    /\ \E e \in DOMAIN bill :
          /\ bill' = Only(bill, DOMAIN bill \ {e})
          /\ Revise(e[1])
          /\ withdrawn' = withdrawn \cup {e[1]}
    /\ UNCHANGED <<today, scannerVars, tableVars, writeHistory>>

NextDay ==
    /\ today < LastDay + 1
    /\ today' = today + 1
    /\ UNCHANGED <<bill, scannerVars, tableVars, historyVars>>

\* The TTL of the findings table.
RowExpires ==
    /\ \E s \in DOMAIN rows :
          /\ rows[s].at + Retention < today
          /\ rows' = [x \in DOMAIN rows \ {s} |-> rows[x]]
    /\ UNCHANGED <<today, bill, scannerVars, costTable, historyVars>>

Environment == Bill \/ Withdraw \/ NextDay \/ RowExpires

CostNext == (\E i \in Slots : ScannerStep(i)) \/ Environment
CostSpec == CostInit /\ [][CostNext]_costVars

-----------------------------------------------------------------------------
(* Properties. *)

CostTypeOK ==
    /\ today \in 1..(LastDay + 1) /\ asked \in [Slots -> 1..today]
    /\ IsCharges(bill) /\ IsCharges(costTable)
    /\ pc \in [Slots -> {"idle", "reading", "storing", "reporting", "done", "raised"}]
    /\ unread \in [Slots -> SUBSET Days] /\ DOMAIN data = Slots /\ DOMAIN unstored = Slots
    /\ todo \in [Slots -> SUBSET Services] /\ told \in [Slots -> SUBSET Services]
    /\ revised \in [Slots -> SUBSET Services] /\ overtaken \in [Slots -> SUBSET Services]
    /\ crossed \subseteq Slots /\ withdrawn \subseteq Services
    /\ \A i \in Slots :
          /\ IsCharges(data[i]) /\ unstored[i] \subseteq DOMAIN data[i]
          /\ pc[i] # "reading" => unread[i] = {}
          /\ pc[i] # "storing" => unstored[i] = {}
          /\ pc[i] # "reporting" => todo[i] = {}
          /\ ~Active(i) => data[i] = NoCharges
    /\ DOMAIN rows \subseteq Services
    /\ \A s \in DOMAIN rows :
          rows[s].severity \in {"CRITICAL", "HIGH"} /\ rows[s].at \in 1..today

\* What a scan that is over was asked to judge, unless it was revised meanwhile.
Shown(i) == Only(bill, On(DaysAsked(asked[i])))
JustDone(i) == pc[i] = "done" /\ today = asked[i]

\* The documented rule, without the order in which the code takes its exits: on
\* the last day with a charge the service cost at least the floor and 1.5 times
\* the average of the days before, and there were such days and they cost
\* something: by more, or for a negative margin less, than the rounding of floats.
IsSpike(costs, margin) ==
    \E d \in DOMAIN costs :
        LET before == {x \in DOMAIN costs : x < d}
            total == SumFunctionOnSet(costs, before)
        IN  /\ \A x \in DOMAIN costs : x <= d
            /\ costs[d] >= MinAnomaly /\ before # {} /\ total > margin
            /\ 1000 * costs[d] * Cardinality(before) >= 1500 * (total + margin)

\* A scan that comes to its end has told of each clear spike that the bill showed
\* all the while, and the row is there; and of nothing that is no spike even with
\* the rounding of floats.  Whatever pages the bill came in, however many tries
\* died before and whatever other scans did, on any day.
SpikesAndNothingElse ==
    \A i \in Slots : JustDone(i) => \A s \in Services \ revised[i] :
        /\ IsSpike(CostsOf(Shown(i), s), Slack) => s \in told[i]
        /\ s \in told[i] => IsSpike(CostsOf(Shown(i), s), -Slack)
        /\ s \in told[i] => s \in DOMAIN rows /\ rows[s].at >= asked[i]

\* Severity and story of a row are of one sight and fit together, also when the
\* service had another spike before: twice the average is CRITICAL, below that
\* only what rounds to it, and no day is its own baseline, but for the rounding of
\* floats; the first sight, whose costs the row keeps, was a spike as well.
SeverityFitsTheStory ==
    \A s \in DOMAIN rows :
        /\ \A t \in {rows[s].told, rows[s].first} :
              /\ t.day \notin t.before /\ t.actual >= MinAnomaly /\ t.total > -Slack
              /\ 2 * t.actual * Cardinality(t.before) >= 3 * (t.total - Slack)
        /\ LET t == rows[s].told IN
              /\ t.actual * Cardinality(t.before) >= 2 * (t.total + Slack) =>
                    rows[s].severity = "CRITICAL"
              /\ rows[s].severity = "CRITICAL" =>
                    2000 * t.actual * Cardinality(t.before) >= 3999 * (t.total - Slack)

\* Whatever a finding tells of is in the cost table that reports show beside
\* it, although an invocation may die between the two tables.
BackedByTheTable ==
    \A s \in DOMAIN rows : \A d \in rows[s].told.before \cup {rows[s].told.day} :
        <<s, d>> \in DOMAIN costTable

\* The tile "Latest daily spend" of a report, from rows of the last 30 days.
Spend(c) ==
    LET days == {e[2] : e \in DOMAIN c}
    IN  IF days = {} THEN 0
        ELSE SumFunctionOnSet(c, {e \in DOMAIN c : e[2] = Max(days)})
LatestSpend == Spend(Only(costTable, On({d \in Days : d >= today - History})))

\* After a scan the tile is the bill of the latest day billed: torn batches,
\* charges since revised, rows of days gone by and scans beside it leave no trace
\* in it.  Except for charges withdrawn, which stay in the table, and those of a
\* scan beside it that has read them before they were revised: "latest data
\* wins" is true of writes and not of what they write.
LatestSpendIsTheBill ==
    \A i \in Slots : JustDone(i) /\ revised[i] = {} /\ i \notin crossed /\ withdrawn = {} =>
        LatestSpend = Spend(Shown(i))

\* No late page, retry or scan beside it takes a finding back to an earlier day,
\* unless the service lost a charge, or another scan has told of the service since
\* this one began and its bill has changed since.
DayNeverGoesBack ==
    [][\A s \in (DOMAIN rows \cap DOMAIN rows') \ withdrawn :
          rows'[s].told.day < rows[s].told.day =>
              \E i \in Slots : s \in todo[i] \ todo'[i] /\ s \in overtaken[i] \cap revised[i]]_costVars
=============================================================================
