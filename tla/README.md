# CloudGuard: models, checks and proofs

CloudGuard scans an AWS account for cost anomalies, security problems and unused
("zombie") resources, reports them, and deletes zombies after a human has
approved. This directory holds TLA+ models of the parts of it in which order,
concurrency and failure matter, the TLC configurations that check them, and
proofs, checked by TLAPS, of what has to hold whatever the number of executions,
resources, clicks, findings and scanners.

Paths below are relative to the repository. `lambda` stands for `src/` inside the
repository's own `src/` directory (`src/shared`, `src/resource_cleanup`, ...).

Contents: [1 Inventory](#1-inventory) - [2 Modules](#2-modules) -
[3 Runs](#3-runs) - [4 Proofs](#4-proofs) - [5 Where code and docs differ](#5-where-code-and-docs-differ) -
[6 Not modelled](#6-not-modelled) - [7 Plan](#7-plan) - [8 How to run](#8-how-to-run)

## 1 Inventory

### Components

| Component | Source | State it keeps | Operations |
|---|---|---|---|
| Remediation state machine | `terraform/modules/remediation/main.tf` | state of each execution, retries, the task token it waits on | DetectZombies, AnyZombies, RequestApproval (24 h task token, Catch), DeleteApproved (Retry, no Catch), terminals |
| Resource cleanup Lambda | `src/resource_cleanup/handler.py` | remediation log (one row per attempt) | detect, remediate, scan |
| Zombie finders | `src/resource_cleanup/zombie_finder.py` | none; reads EC2 | status, ignore tag, age, price |
| Remediation approval Lambda | `src/remediation_approval/handler.py` | approvals table (token, status, TTL) | notify (store, email), callback (check link, read, tag, resolve the token, mark) |
| IAM tag gate | `terraform/modules/iam/main.tf` | none | deletes only what is tagged `AutoCleanup=true` |
| Findings store | `src/shared/dynamo_client.py` | findings table, rows with a TTL | upsert: one query, one put or update |
| Scan state machine | `terraform/modules/step-functions/main.tf` | state of each branch, retries | three scanners in parallel, Retry and Catch in each |
| Security scanner | `src/security_scanner` | none of its own | five checkers, call by call; stamp, upsert |
| Cost scanner | `src/cost_scanner` | cost table (charge per service and day) | read the bill in pages, store charges, find spikes, upsert |
| Report generator | `src/report_generator` | reports in S3 | select a window, render, upload, mail, publish |
| Schedules | `terraform/modules/eventbridge/main.tf` | none | scan every 6 h, remediation daily, reports daily and weekly |

### How they interact

```
scan schedule ----> scan state machine --+--> cost scanner ------+------> cost table
                                         +--> security scanner --+--> findings table
                                         +--> cleanup (scan) ----+        ^     |
                                          (EC2 deletes, log)              |     |
                                                                          |     v
remediation schedule -> remediation state machine -> cleanup (detect) ----+   report
                              |    ^                                        generator
                token, list   |    | send_task_success / failure
                              v    |
                        approval Lambda <---- a click on an emailed link
                              | approvals table
                              v
                        cleanup (remediate) -> EC2 deletes -> remediation log
```

Nothing is locked anywhere. State is shared through DynamoDB (eventually
consistent reads, TTL) and EC2 (tags and status, which the account's owners
change too); Step Functions and the AWS SDK retry; every Lambda can die between
two calls, and every call's answer can be lost.

### What is hard, and what makes each part correct

* **Remediation.** Two clicks race each other, the task timeout, the link expiry
  and the table's TTL; executions overlap and list the same resource; the list is
  up to a day old when it is deleted; a deletion that dies half way is repeated.
  Correct means: only what was put to the operator and approved is deleted, at most
  once; what an owner tagged ignore before a detection is neither listed nor deleted; an execution that ends in
  "rejected", "ignored" or "timed out" has deleted nothing; the page a click is shown is
  what happened; a waiting execution stays answerable; the log claims no deletion that
  did not happen; every execution ends.
* **Findings.** Query and write are separate calls, so invocations lose each
  other's updates, insert twice, and meet the TTL in between; a batch dies half way and
  is repeated. Correct means: a finding just upserted is in the report; the count never
  overstates; a row without its attributes stands only for a finding whose TTL is over;
  undisturbed, one row per finding with its first time kept.
* **Scan workflow.** A scanner that fails is retried, then caught. Correct means: the
  others still deliver, the execution ends, and retries do not inflate counts without
  bound.
* **Report.** It pages through a table that scanners write to, from copies that lag, while rows
  expire; upload, mail and SNS fail separately, and Lambda invokes a report that raised
  again. Correct means: what had been upserted when the report began is in it; what has aged
  out is not; a link that was mailed leads to the report it was mailed with, of which a retry is
  no part.
* **Scan mode of the cleanup Lambda.** One call finds zombies, upserts them and, if both gates are
  armed, deletes them with nobody asked, while an execution may be waiting for the approval of the
  same resource. Correct means: a scan deletes only what it has reported, only when armed, and never
  what is tagged ignore by then; each caller's log tells what that caller did.
* **Security scanner.** Some thirty calls, each of which may fail, with errors caught at five
  different places; the account changes between two calls that make one finding. Correct means: the
  batch tells of nothing that was never so, a failure hides only what its own call would have
  told, no two findings of a batch get the same id (but for results of one Config rule, section 5).
* **Cost scanner.** The bill comes in pages and is revised meanwhile, the charges are stored in
  batches that may be torn, then the findings; it may die anywhere and is run again, perhaps on the next
  day, and two may run at once. Boundaries: zero or negative baseline, the dollar floor, the threshold
  met exactly, rounding, and sums and ratios in binary floats.
  Correct means: a scan that ends has reported the spikes and nothing else, but for what rounding blurs;
  table and findings agree; only outdated charges take a finding back to an earlier day.

`PROJECT.json` lists the hazards one by one, each at its line, with the properties
that would catch it going wrong or the reason why none does yet.

## 2 Modules

```
CloudResources <- CleanupLambda <- ApprovalLambda <- Remediation <- MCRemediation   (Progress <- Remediation)
                                                      |   |  |  <- RemediationProofs
                                                      |   |  + INSTANCE HumanGate
                                                      |   + <- ScanCleanup <- MCScanCleanup
                                                      + (RemediationProofs, ScanCleanup) <- ScanCleanupProofs
Findings <- ScanWorkflow <- MCScanWorkflow                                       (Progress <- ScanWorkflow)
    |  |         + (with FindingsProofs) <- ScanProofs
    |  +<- FindingsProofs <- FindingLedgerProofs
    |  +<- MCFindings
    |  +<- Report <- MCReport
    |         + (with FindingsProofs) <- ReportProofs
    + INSTANCE FindingLedger
SecurityChecks <- SecurityScanner <- MCSecurityScanner
                                 <- SecurityProofs
CostScanner <- MCCostScanner
            <- CostProofs
```

`ScanWorkflow` says what scanners as writers do to the findings table; `SecurityScanner`,
`CostScanner` and `ScanCleanup` are the insides of the three scanners, up to the upsert, which is
one step there and call by call in `Findings`.

### Remediation: six modules

* **CloudResources** is the account: `ec2[r]` (unused, in use, deleted) and
  `tag[r]`. `Zombies` is what the finders report: unused and not ignored. `Deletable` is
  what EC2 and the IAM condition let the Lambda delete. Owners tag, attach, detach and delete
  at any time.
* **CleanupLambda** is the detect and remediate modes. A detection looks at one resource after the
  other (`LookAt`), while owners tag and attach, and lists what is a zombie at that moment or leaves it
  out, because finders also look at age and swallow errors; `DetectReturns` hands the list on
  later, after the upserts, with nothing read again. `spared` is history: what was tagged
  ignore when the try began and has stayed so.
  `Visited` is one round of the deletion loop, in any order; `DeleteEffective` and
  `DeleteRefused` are its outcomes, a lost answer being an effective delete recorded
  as FAILED; `WriteLog` is the one batch write after the loop; `CallRaises` may happen
  anywhere before.
* **ApprovalLambda** is notify (`Persist`, `SendEmail`, `NotifyReturns`,
  `NotifyRaises`) and callback, one process per click: `OpenLink` reads the row, from
  the table or from a `replica` that lags; `TagIgnore`; `SignalAccepted`,
  `SignalTooLate`, `SignalFails`; `MarkDecided`, unconditional and best effort, which
  also recreates a purged item; `CallbackDies`. Which links are clicked is fixed in
  `Init`, because it is not the program's choice.
* **Remediation** is the state machine, one action per ASL transition, and composes the
  others. Properties and the inductive invariant are at its end.
* **Progress** is the order on what is left to do that section 4 measures executions and scans by; it models no
  code.
* **HumanGate** is the abstract specification: a proposal, *one* decision, removals only
  of what was proposed and only after "approve". `Remediation` implements it with the
  token's outcome as the decision.

Choices worth knowing. Checks of the signature and the action are one action
(`RefuseRequest`): they pass or they do not. The expiry check and the read are one step,
since nothing the program does lies between. The notify Lambda (at most 300 s) is over
before the task timeout and the link expiry (both 24 h) can come; these two come in
either order. A `send_task_*` whose answer is lost is repeated by the SDK and then
refused (`TaskDoesNotExist`), so a click that won may be told "moved on".
The event flag is always set in the call made by this state machine, so `EnvArmed`
(AUTO_REMEDIATE) is what arms it.

### ScanCleanup

The third branch of the scan state machine and the scan mode of the cleanup Lambda, added to
`Remediation`. `StartScan`, `RetryScan` and `CatchScan` are the branch; `InvokeScan` is a fresh process.
`FindZombies` is the three finders, `UpsertFinding` one upsert of their batch, `StartRemediate` the
return of `_detect`; `SkipInScan`, `DeleteInScan` and `RefusedInScan` are one round of `_remediate`,
`LogScan` its one batch write, `ScanRaises` a death anywhere. `autoRemediate[s]` is the flag in the
scan's input: EventBridge passes false, and whoever starts a scan by hand may pass true. `told` and
`deleted` are history. The remediation workflow is the whole of `Remediation!Next`; the two share EC2 and
the remediation log (each caller's rows are a variable of their own), and nothing orders them. The scan
state machine's other two branches do not touch these and are in `ScanWorkflow`.

### Findings: two modules

* **Findings** is `upsert_finding` in a batch loop, for any set of `Writers`. Items of
  one finding are a function of the sort key; `count = 0` says there is none.
  `Query` reads the table or a lagging replica and fixes in `pending` what the write will
  carry; `Write` applies it, at most twice (a lost answer); `Raise` is the death of an
  invocation at any point; `Purge` is the TTL; `Tick` is the clock, which cannot pass a
  running invocation's timeout (`Lifetime`). `Limit=1` returns the item with the least sort key.
  Severity, description and metadata are reduced to `whole`: whether the item holds
  what an insert stores. The ids of a batch form a set, as every checker adds
  a discriminator to `check_name`; results of one Config rule that share an id (section 5) are one
  finding here, although the code upserts, and counts, each of them.
* **FindingLedger** is what the docs promise: one entry per finding, its first time
  kept, its last time moved on, its count one more, each sight recorded within a Lambda
  timeout of its time.

### ScanWorkflow

`StartScan` invokes all branches; `RetryTask` starts a *new* invocation (fresh batch,
fresh timestamp); `BranchCaught` puts FAILED in its place; `ScanEnds` needs a result of
each branch. `StartDetect` is the remediation workflow's detect call, which writes the
same table on its own schedule and is retried with the same bound (both variables
default to 2). The scanner's inside is `Findings`, which the module extends.

### Report

The report Lambda over `Findings`, for reports of one window. `InvokeReport` and `RetryReport`
begin a *new* invocation, with a cutoff of its own; `ReadPage` reads one finding's items from the
table or from the lagging copy and keeps what `Selects` lets through; `Render` takes the time,
and `Upload` stores the page under the key made of it (`report-<window>h-<time>.html`, the time in seconds;
the window is the same for all reports of the model). A delivery that builds its page in the same second
has the same key and replaces the object; Lambda waits a minute before it retries, so the tries of
one delivery never do. `SendEmail` and `PublishSns` each succeed or are
swallowed; `ReportRaises` may happen anywhere, the upload or the send it was making having
taken effect or not. `due` is history: what was `Owed` when the invocation began. Scanners
are the whole of `Findings!Next`, so any number of them run meanwhile.

Not in it: the scans of the other two tables (they come after, are read the same way, and
can only fail), the expiry of the link and what the page looks like. A duplicate delivery
by EventBridge, or an invocation by hand, is another member of `Reports`. The one number of the page that is
computed from a table that tears, the latest daily spend, is `LatestSpend` of `CostScanner`.

### Security scanner: two modules

* **SecurityChecks** is the account as the APIs show it and what the checkers make of one
  answer: which rules of a security group are flagged and how (`PortRange`, `RuleIsFlagged`,
  `RuleSeverity`), and the findings of each S3, IAM, EBS and Config call. A finding has the resource
  and the check name with its discriminator, which are what `finding_id` is a hash of. A result of Config
  has a type, an id, which may be missing, and a note; `EvaluatedId` is what of them gets into the hash: the id, or
  the rule's name. Ages are reduced to which side of 90 days they are on.
* **SecurityScanner** is the invocation. `agenda` holds the calls the current checker has yet to make: an
  answer adds findings and further calls (`FollowUps`: users lead to keys, keys to last uses, Config
  rules to details); calls about one resource come in the order of the code, resources in any order.
  `CallFails` is an error caught next to the call, which skips it; `CheckerRaises` one that is not, and
  `_run_check` drops the checker's findings; `CaughtAtCall` says which is which, for ClientError and for
  other errors. Owners change one thing at a time in between. `ever`, `steady` and `excused` are history: what
  has been true, what has been true throughout, and what failed calls would have told.

### CostScanner

Invocations run in `Slots`, the environments that Lambda's reserved concurrency allows, one after the other in
each and at once in several: the schedule, a retry or a manual start does not wait for another. `ReadPage` adds
some more days to `data`, `StoreCharges` writes any part of the batch, `Detect` is
`detect_anomalies` on what was read, `Upsert` one finding, `InvocationDies` a death anywhere with its last
write made or not. AWS bills and revises (`Bill`) and takes charges back (`Withdraw`), days pass (`NextDay`) and
rows expire.

Money is counted in a unit of which every charge is a whole number, so the model's totals are exact, and the
code's are not: it adds, averages and divides binary floats. The model therefore judges with a margin: the code may
decide as on any total that is off by up to `Slack` (`IsAnomaly(sight, margin)`, `RoundsToDouble(sight, margin)`).
`Detect` takes any set between the anomalies at `Slack`, which are anomalies however floats round, and those at `-Slack`,
outside of which nothing is; `Severities` is both severities in the band between. A credit that cancels the charges
before it may so leave a positive average, and an exact 1.5 may fall short. The rounding of the ratio to three
digits before it is judged is in `RoundsToDouble`.

`told` of a row is what its description says, `first` what its metadata has kept from the first sight. The sum over
the days before is the fold of the community modules. History: `told[i]`, whom scan `i` has told of; `revised[i]`,
whose bill has changed since it began; `overtaken[i]`, whose row another scan has put since; `crossed`, scans beside which
another has stored charges while its own bill was already outdated; `withdrawn`, who ever lost a charge.

## 3 Runs

All bounds are constants in the `.cfg` files. `CHECK_DEADLOCK FALSE` throughout:
executions and scans end, and nothing has to start another.

| Run | Instance | Checks |
|---|---|---|
| `remediation_races` | 1 execution, 1 resource, 2 clicks, 1 retry | `TypeOK`, `PagesTellTheOutcome`, `OneClickDecides`, `RowsFollowTheOutcome`, `WaitingIsAnswerable` |
| `remediation_deletion` | 1 execution, 2 resources, 1 click, 1 retry | `OnlyApprovedIsRemoved`, `CleanTerminalsAreClean`, `AuditIsHonest`, `KeepForever` |
| `remediation_overlap` | 2 executions, or 1 execution and 1 scan with a retry; 1 resource, 2 clicks | `CleanupTypeOK`, `ScanAuditIsHonest`, `ScansDeleteInTheOpen`, `ImplementsGateSafety` |
| `remediation_liveness` | 1 execution, 1 resource, 1 click, AUTO_REMEDIATE off, fairness | `EveryExecutionEnds`, `ImplementsGate` |
| `findings_serial` | 1 finding, 2 writers, 3 sights, clock to 4, undisturbed | `OneRowPerFinding`, `ImplementsLedger` |
| `scan_workflow` | 1 scan of 2 scanners, 1 retry each, 1 detect call, fairness | `ScanTypeOK`, `CountsAreInvocations`, `FailureIsIsolated`, `EveryScanEnds` |
| `report` | 1 report with a retry or a duplicate delivery, 2 writers of 1 finding, one invocation each, clock to 4 | `ReportIsComplete`, `CountNeverOverstates`, `ReportMissesNothing`, `NoFindingIsStale`, `TornRowsHadExpired`, `MessagesMatchReports` |
| `security_scan` | 1 group with up to 5 rules, 1 bucket, 1 user with 2 keys, 1 volume, 2 Config rules with 4 results; 1 change by an owner, 3 findings lost | `ScannerTypeOK`, `NothingInvented`, `OnlyFailedCallsHide`, `IdsTellFindingsApart`, `LadderIsFollowed` |
| `cost_scan` | 2 services, 3 days of charges, 2 scans at once or in turn, 1 bill, revision or withdrawal, rounding by 1 | `CostTypeOK`, `SpikesAndNothingElse`, `SeverityFitsTheStory`, `BackedByTheTable`, `LatestSpendIsTheBill`, `DayNeverGoesBack` |
| `single_use`, `lost_audit`, `duplicate_rows` | the smallest that shows it | one property each, violated: section 5 |

Why these bounds are enough to be of use. A race of callbacks needs two clicks on one
execution; what is said of clicks is about pairs. An interrupted deletion needs a list
of two, one deleted and one not, and one retry. Overlap needs two executions and one
shared resource. A lost update, a duplicate row and a lagging read each need two
writers and one finding: findings do not interact. The races of writers are checked in the run of
the report, which has the whole of `Findings` in it. `MaxSights` of the ledger's run lets a third sight find what
two earlier ones left. `scan_workflow` needs one retry, one foreign writer and a second branch that may fail by
itself; its clock stands still (`MaxTime = 0`), since none of its properties speaks of time and the
clock's races are those of `report`. `report` needs two writers, of which the one that was stamped first
writes last; with `TTL = 3` and a clock to 4 the row of the first moment expires; one retry is
enough for a second object, and one duplicate for a second writer of the same object. `BoundedReportSpec` names what
else keeps the run small. `ScannersBounded`: each scanner is invoked once. `DuplicateBounded`: the duplicate comes in the
second in which the first delivery builds its page, for in any other it has another key, and there is a retry or a
duplicate. `ScannersRest`: beside either, and before the retry, no scanner runs; copies that lag and the TTL suffice
to make the second page another. `PageBuiltAtRest`: from its last page on a delivery and the scanners are independent, so
the page is built when they have ended and nothing else happens while it is sent. `FailuresBounded`: the first try fails with its object stored, or else its retry is as a first try that begins
later. `Interesting`: nothing is explored once reports are over.

`remediation_overlap` has two parts in one graph (`OverlapNext`): two executions with one click on a link
of each, without owners (two clicks on the links of one are `remediation_races`); and one execution,
approved or timed out, with a scan and owners who tag the resource meanwhile. One resource is all they can quarrel about. Expiry, TTL and owners who attach or delete are in the
two runs before it. The liveness run has AUTO_REMEDIATE off because both settings take the
same steps, a resource being skipped instead of deleted; the other runs have it on.

`security_scan` begins with an account in which much is wrong and one in which little is; one change by an owner
between any two calls is enough to make an answer stale, two keys to lose one and keep the other, and
findings lost are bounded (`MaxExcused`) only to keep every combination of failures out. The four results of Config are
two of one resource, one of another type with its id, and one without an id.

`cost_scan` has amounts at the floor, at the threshold, at the rounding edge, a credit, and a charge that cancels it,
so that with `Slack = 1` the total zero, the exact threshold and the edge can each fall either way. It begins on day 3, with a
service below or at the floor or with a credit, or on day 4, with a service that has had two spikes (`MCBills`);
`LastDay = 3` and `History = 3` let the clock reach day 4, on which a scan asks for all three days, and on day 3 one for the
first two. `Slots` are two and interchangeable (`SYMMETRY`), and `MaxScans = 2` scans let one overtake the other, a try
die and its retry end, or the next day's scan follow; `MaxBills = 1` is one bill, revision or withdrawal at any moment.
`Retention = 0` lets a row expire on the next day, the earliest that any `FINDING_TTL_DAYS` allows.
Beyond the bounds the theorems of section 4 hold.

Each property has a mutant in its module (`Mutant...`): the definition as a plausible bug
would have it, under which TLC finds the property violated in the same run.

### Fairness

* `Remediation`: weak fairness of the state machine's own steps (Step Functions runs its
  executions and fires the task timeout), of running Lambda calls (they end, if only by
  their timeout) and of a callback that has begun. Nobody has to start an execution, to
  click or to tag anything, and neither DynamoDB's TTL nor replication has to happen.
  "Ends" is justified by `TimeoutSeconds` of RequestApproval, bounded
  retries of both other tasks, and the Lambda timeout.
* `ScanWorkflow`: weak fairness of `ScanEnds`, of the state machine's steps for a task, and of
  the steps of a running scanner. The clock need not advance; a scan may never start.

## 4 Proofs

| Module | Theorems |
|---|---|
| `RemediationProofs` | `TypeCorrect`, `Invariance` (`IInv`), `Removal` (`OnlyApprovedIsRemoved`), `CleanTerminalsStayClean`, `PagesAgree`, `OneClickAtMost`, `RowsAgree`, `Answerable`, `HonestAudit`, `IgnoreTagIsObeyed` (`KeepForever`), `Refinement` (implements `HumanGate`'s safety), `NothingGetsStuck`, `EveryStepIsProgress` |
| `ScanCleanupProofs` | `ScansActAsOwners`, `GateHoldsBesideScans`, `GateIsImplementedBesideScans`, `ScansDelayNoExecution`, `CleanupTypeCorrect`, `CleanupInvariance` (`CleanupInv`), `ScansLogHonestly`, `ScansAreOpen`, `EveryScanStepIsProgress` |
| `FindingsProofs` | `FindingsTypeCorrect`, `FindingsInvariance` (`IInv`), `ReportCompleteness`, `HonestCount`, `CopiesInvariance` (`CopyInv`), `TornRowsAreOld` (`TornRowsHadExpired`) |
| `FindingLedgerProofs` | `SerialInvariance`, `Idempotence`, `StoreImplementsLedger` (implements `FindingLedger`) |
| `ReportProofs` | `ReportInvariance` (`ReportInv`), `NothingIsMissed`, `NothingIsStale`, `LinksLeadToTheirReport` (`MessagesMatchReports`) |
| `ScanProofs` | `ScannedIsReported`, `ScanTypeCorrect`, `Isolation`, `CountsAreOfInvocations`, `NoScanGetsStuck`, `EveryTaskStepIsProgress` |
| `SecurityProofs` | `ScannerInvariance` (`ScannerInv`), `ScannerTypeCorrect`, `NothingInventedHolds`, `OnlyFailedCallsHideHolds`, `IdsTellFindingsApartHolds`, `LadderIsFollowedHolds`, `WiderIsNeverMilder` |
| `CostProofs` | `CostInvariance` (`CostInv`), `CostTypeCorrect`, `SpikesAndNothingElseHolds`, `BackedByTheTableHolds`, `LatestSpendIsTheBillHolds`, `DayNeverGoesBackHolds`, `SeverityFitsTheStoryHolds`, `SteeperIsNeverMilder` |

**Assumptions** are those of the modules: `EnvArmed` is a Boolean; `MaxAttempts`,
`MaxTime`, `Lifetime`, `Window`, `TTL` are naturals and the report window is not longer
than the TTL (24 h or 168 h against 90 days); for reports, a Lambda timeout is not longer than the
window and window and two timeouts fit into the TTL; `Emits` maps writers to sets of findings; branches
of scans are writers; an account has finitely many `Resources`, a scan finitely many `Scanners`, and there
are finitely many `FindingIds` (they are 32 hexadecimal digits); every access key has a user, and rules of security groups are as EC2 admits them
(ports in order, none with "all protocols"); results of Config have a type, an id and a note; amounts are integers and
the error of floats on a total is at most `Slack`, any natural number. `MaxTime` and `LastDay`, the ends of the
two calendars, are the only bounds the models themselves have, and they are any natural number.

**Remediation.** The properties are not inductive. `IInv` adds to them
`ControlInv` (the state an execution is in says what its Lambdas may be doing and how far
its token is: without it a "remediate" call might run in an execution that was rejected),
`RemovalInv` (nothing is visited, recorded or deleted before approval, and what an execution
has deleted is gone from EC2: this is what excludes a second deletion by an overlapping
execution, with no lock in the code), `SparedInv` (what is spared is still tagged, so that no finder can list
it however long the detection takes), `CallbackInv` (a callback past its read belongs to
an execution that has asked), `AnswerInv` (once stored, the row of a waiting execution is
open; the argument needs that a row is marked only after the token is resolved), and
`AuditInv` (the loop holds a record of each resource it has visited; a call that
returned has written them all). Each has a lemma, with one step for each action that can
disturb it.

**Both workflows.** `ScansActAsOwners` is the key: a scan's deletion changes EC2 as an owner's does, and no other
step of a scan touches what the remediation workflow sees, so every behaviour of the composition is one of
`Remediation`, and every theorem about it carries over (`GateHoldsBesideScans`, `GateIsImplementedBesideScans` and
`ScansDelayNoExecution` state six of them). `CleanupInv`
adds, for each scan, how far it has got with its batch (upserted or still to be, visited or noted) and that what
it deleted is gone from EC2.

**Findings.** `ReportIsComplete` survives duplicate rows, lost updates and rows whose
`last_seen` moves back, and the invariant says why: `ClockInv`, a running invocation's stamp is
at most one Lambda timeout old, so whatever it writes is at most that much older than
what it overwrites; `PendingInv`, a write in flight belongs to a running invocation; hence
`RecordedInv`, a finding upserted at `s` has a row no older than `s - Lifetime`, until the TTL of
such a row may be over. The property's margin of one Lambda timeout is therefore
real, not an artefact: without it TLC finds a slow invocation that sets `last_seen` back.
`CountNeverOverstates` needs the same of every replica and every write in flight. An update whose row the TTL takes
between query and write makes a row without most attributes; `TornInv` says that this comes after the TTL of that
row and no later than a Lambda timeout after the query, so `TornRowsHadExpired`: such a row stands for a
finding that was first seen a whole TTL before. It needs `CopyInv`, for the query may be answered by a copy that lags.

**The ledger.** With one invocation at a time, up-to-date queries and no TTL between query
and write (`Undisturbed`), `SerialInv` says that the upsert in flight knows the one item it is about
to write to, and that a write already sent has left that item as a repeat would. So the
first sending maps to `FirstSight` or `ReSight`, a repeat to a stutter, a purge to
`Forget`. Each condition is needed: dropping the first two gives the `duplicate_rows` violation, dropping the
third lets an update recreate a row that the TTL has just deleted (`TornRowsHadExpired` says what is true then).

**Reports.** `ReportInv` adds `CopyInv`, how far the two copies of a row can be apart: sights are at
most a lifetime out of order, and a row that only the lagging copy still has expired too long
ago for a report that can be running to select it. `ScanOf` then says that what is owed and not
yet listed is in the window in *every* copy, whatever page it will be read from; it is kept because
a write under a running report carries a stamp of at most one lifetime before it, inside the
window, and the TTL cannot have ended. `DeliveryInv` ties messages to the objects under their keys: a try that is about to
send has its object in the bucket, unless another delivery of the same second has replaced it, and the key of
a later try is a later second. That an
owed finding is in the window at all is `RecordedInv` of `Findings`, which holds here because each
step of the report leaves the table alone.

**Scans.** Each step of the workflow is a step of `Findings` or leaves the table alone,
so what is proved there holds of it; `Isolation` needs `ResultInv`, which ties each
branch's result to how its last invocation ended.

**Counts.** `CountsAreInvocations` bounds what is in the table by a number that is nowhere in the program: of how
many invocations a finding can be. `CountNeverOverstates` leads from rows to upserts that have begun; `SightInv`
leads on from there. An invocation is a task and a try, and it has *sighted* a finding when it cannot do so any
more (`MaySight`: it is still detecting, or has the finding to upsert and has not queried for it). Every query
takes its invocation out of that set, whatever becomes of the write; a death and a retry add an invocation; nothing
puts one back, since an upsert under way leaves the batch only with its last write. So the begun upserts
are never more than the `Sighted` invocations, and these are some of all. `ResultInv` is needed because a task that
is started must have been idle.

**The security scanner.** The invariant divides the account's problems among the calls: `InCharge` says which
call would tell which finding, `Apart` that no two calls of the agenda are in charge of the same one. `NothingForgotten`: what
has been wrong all the time is told, excused, some call's charge, or a later checker's; an answer settles its
charge and passes the rest on to the calls that follow it, a failure excuses exactly that. `KeysAsked` is why
a finding made of two answers is never invented: what was asked about a key cannot have changed in a way
that makes the pair of answers untrue at both moments. `IdsOK` follows from the division, since ids within one
call differ by their discriminator, except within the answer for one Config rule. `LadderIsFollowed` is about the rule evaluation alone, for all ports.

**The cost scanner.** The invariant (`CostInv`) is of every slot (`SlotOK`) beside what is common. `DataOK`: of the days read
(`DaysRead`), what is in memory is the bill, except where it has been revised since. `StoredOK` and `TodoOK` carry
that to the table and to the findings, `DoneOK` keeps it when memory is gone. `OthersKeep` is why a scan may not mind the
others: what another stores agrees with the bill, or the other is outdated and the slot is `crossed`; what another upserts is
noted in `overtaken`. Both exceptions are real, as is `withdrawn`: with any of them left out TLC finds a
violation. `DayNeverGoesBack` needs more than it seems: a scan may read fewer days with charges than an earlier one only if the
bill lost some, and a scan that began before another may have read less only of what was revised since. `LateOK` and `RowsOK`
say so: what is billed beyond a scan's days was billed after it began, and the day a row tells of, if nobody has put it
since, is read again or still to be read. The latest day is a maximum of a finite set; that it exists is proved by
well-founded induction on a minimum.

For `SeverityFitsTheStory`, `StoryOK` says what an upsert puts into a row, new or old: the numbers of one anomaly and a
severity of it within the margin, beside the numbers of the first one. That the sum of the earlier days is a
number at all, whatever days there are, is the one hard step: what a fold over a set returns is the number that
any order of adding comes to (`SumsUnique`, `SumsExist`, `SumIsSums`), proved by taking a smallest
counterexample among the finite subsets, which needs no induction rule. The same lemmas give `SumIsMonotone`
and with it `SteeperIsNeverMilder`, about the rule for every bill at once: raise the latest charge, lower earlier ones,
and a spike stays a spike and gets no milder, as long as the earlier ones still add up to more than nothing (below that
the rule falls silent). `WiderIsNeverMilder` is its counterpart in the security scanner: open a rule to more
ports or sources and its finding stays and gets no milder. `SteeperIsNeverMilder` is about any fixed margin, so it holds
wherever floats have put the thresholds, as long as both bills are rounded alike.

**Ends.** That executions end is a liveness property, and those are checked by TLC. What makes it true is proved, for
all three workflows, in two halves that leave nothing but the fairness rule to apply. No
unended execution is ever without a next step of its own (`NothingGetsStuck`, `NoScanGetsStuck`; the scan of `ScanCleanup` has
one in each of its states; `CanGoOn` and `TaskCanGoOn` write out the guards, for want of `ENABLED`), and each such step lowers a measure of what is left (`EveryStepIsProgress`,
`EveryTaskStepIsProgress`, `EveryScanStepIsProgress`). A measure is three numbers in lexicographic order (`Progress`): for
an execution of the remediation workflow the stages of the state machine, the token and the notify invocation; then
the retries left; then the resources left to visit. For tasks of a scan retries come first, because a retry starts
over, and a write that is sent again counts too. The order is well-founded (the lemma `LessIsWellFounded`), and no step of
anybody else raises a measure: no click, owner, table or concurrent execution can send one around again. The
argument uses `ControlInv` (a token is opened once) and that lists are finite.

**Only model-checked**: liveness under fairness, that is `EveryExecutionEnds`, `EveryScanEnds` and the liveness part
of `ImplementsGate`. The provers have no rule for `ENABLED` and none for induction over temporal formulas; the
paragraph above says how much of the argument is proved. Every other property of a run that is expected to pass is
stated by a theorem.

## 5 Where code and docs differ

Each of these is a run that TLC ends with a counterexample.

* `single_use`: `_mark_decided` is called a "single-use guard" but is an unconditional
  update; of two racing clicks the refused one overwrites APPROVED with EXPIRED or IGNORED. The
  decision itself is safe (`OneClickDecides`): the token is the guard.
* `lost_audit`: the records are written once, after the loop; a call that dies before leaves
  deletions without a row.
* `duplicate_rows`: the upsert is "idempotent" only without overlap; a scan and a detect
  call that both query first insert two rows, and both stay until they expire.

Met on the way, without a run of their own:

* A repeated delete is refused and logged FAILED, "resource still exists", for a resource that this
  execution deleted (`src/resource_cleanup/handler.py:105`; `Visited` has the repeat).
* A finding stamped just before a report and written after its scan is in neither that report nor the
  next, whose window begins at its own start, unless it is seen again meanwhile.
* Email and SNS failures are both swallowed, so a report nobody hears of counts as done; and a link
  presigned with a Lambda role's temporary credentials ends with them, before the 7 days the email states.
* `total_daily_cost` of the cost scanner looks up `date.today()`, the exclusive end of the range it
  asked Cost Explorer for, so it is always 0 (`src/cost_scanner/handler.py:58`).
* `_expand_port_range` says that ICMP's -1/-1 yields the all-ports sentinel; it yields port -1, so the
  rule is HIGH and not CRITICAL (`src/security_scanner/sg_checker.py:26`). An ICMP rule of one type with
  all codes has ToPort -1 and yields an empty range: it is not flagged at all.
* `iam_checker.py:9` says that a single user that errors should not abort the scan, but only ClientError is
  caught: a timeout drops the findings of all users (`CheckerRaises`).
* A wildcard inside a list of principals does not make a bucket policy public (`IsPublicStatement`).
* `upsert_finding` updates without a condition that the row still exists: if the TTL deletes it after the query, the
  update makes a row without category or check name, although "each row carries" them (`docs/runbook.md:65`).
* `cost_scanner/handler.py:4` speaks of more than 1.5 times the prior 29-day average. The code takes 1.5 times as
  enough, judges the latest day *that has data*, so that the spike of a service that has stopped is found anew
  for up to 30 days, and averages over the days that are there, not over 29.
* The ratio is rounded to three digits before it is judged: 1.9995 is CRITICAL.
* Sums, averages and ratios of charges are binary floats (`cost_analyzer.py:88`): a charge of 1.65 after one of 1.10 is
  exactly 1.5 times it and not reported, and charges of 0.1, 0.2 and -0.3 have a positive average, against which
  any charge at the floor is a spike. The model allows both (`Slack`).
* "Re-running the same day overwrites (latest data wins)" (`cost_analyzer.py:126`) is true of what is written last, not of
  what was read last: scans may overlap (the schedule, a manual start, `docs/runbook.md:15`), and an older, slower one
  sets charges and findings back (`crossed`, `overtaken`). And a charge that AWS withdraws is not overwritten by
  anything: its row in the cost table stays (`withdrawn`).
* "Emits one finding per non-compliant resource" (`config_checker.py:5`), but the id is a hash of the rule and of the
  resource's id alone, or of the rule's name if there is none (line 54): resources of two types with one id, several results of
  one resource, and all results without an id share one row, of which each upsert of one batch replaces the
  last and counts one more. `IdsTellFindingsApart` permits exactly these.
* Reports are named by window and second (`src/report_generator/handler.py:193`), so a duplicate delivery in the same second
  replaces the object behind a link that was mailed with the numbers of the other (`MessagesMatchReports` permits
  exactly this).
* A detection reads tags, then upserts, then returns its list: a resource tagged ignore meanwhile is still put to the
  operator, although it is not deleted (`KeepForever` is about tags set before the try).
* A cost finding's id has no date: later spikes replace description and severity of the row, but its costs and
  ratio stay those of the first.
* `_tag_ignore` swallows a failed `create_tags`, and the page still says "Tagged
  AutoCleanup=ignore" (`TagIgnore` has the failure).
* The row is stored before the email so that the link is resolvable "the instant it is
  clickable", but read without `ConsistentRead`: a quick click may get 404 (`OpenLink` reads
  `replica`).
* `terraform/environments/dev/main.tf:239` says that "ONLY the approval workflow's DeleteApproved step" can
  delete, after a human's click, and `docs/runbook.md:38` that a scan started with `{"auto_remediate": true}`
  deletes nothing in dev because the environment's gate is false. AUTO_REMEDIATE is "true" in dev, and such a scan
  deletes tagged zombies without asking anybody (`DeleteInScan`). What holds instead is
  `ScansDeleteInTheOpen`.

## 6 Not modelled

* Texts, HTML, logging, pricing and the secrets of link signing: no property is about them.
* The size of the detected list (256 KB of state input).
* `query_by_*` of the findings store (no caller), the purge script, notifications (best effort, no
  state), AWS pagination helpers.
* Prices and severities of zombies, and how old a snapshot has to be: finders return any subset of what they may.
* The counts and summaries that handlers return to Step Functions, which nothing reads.
* Of the report, the other two tables' scans and the page (`html_builder.py`): formatting of rows, without a choice
  that a property could be about, but for the latest spend.
* Infrastructure, CI and packaging: declarations. Timeouts, retry numbers and table keys enter as
  constants and assumptions.

## 7 Plan

Done, each with its proofs: `Remediation` with its parts and `HumanGate`; `ScanCleanup`; `Findings` and
`FindingLedger`; `ScanWorkflow`; `Report`; `SecurityChecks` and `SecurityScanner`; `CostScanner`.

What is left, in this order:

1. Two reports a window apart, and which findings fall between them.
2. The scans of the cost table and the remediation log by the report, beside `CostScanner` and
   `ScanCleanup` as their writers.
3. That an `Ignore` whose `create_tags` failed shows the page of one that did not (section 1, hazards): a page
   that distinguishes the two would be a property.

## 8 How to run

```
tlc -workers 2 -config MCRemediationRaces.cfg MCRemediation.tla    # any run of section 3
tlapm RemediationProofs.tla                                        # any module of section 4
```

The largest run takes about four minutes on two cores, each proof module less.
