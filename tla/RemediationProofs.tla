-------------------------- MODULE RemediationProofs --------------------------
(***************************************************************************)
(* Theorems about Remediation for every number of executions, resources,   *)
(* clicks and retries.                                                     *)
(***************************************************************************)
EXTENDS Remediation, FiniteSetTheorems, WellFoundedInduction, TLAPS

-----------------------------------------------------------------------------
(* Type correctness. *)

\* A status can be set on an item of any shape.
LEMMA ItemWithStatus ==
  ASSUME NEW item \in Item, NEW s \in RowStatus
  PROVE  [item EXCEPT !.status = s] \in Item
  BY Zenon DEF Item

LEMMA InitTypeOK == Init => TypeOK
  BY MaxAttemptsAssumption
  DEF Init, TypeOK, ApprovalInit, ApprovalTypeOK, RunInit, RunTypeOK, CloudInit,
      CloudTypeOK, Outcome, NotifyPc, Item, NoItem, RowStatus, Status

\* The variables of Step Functions and of the three components, unfolded.
USE DEF vars, approvalVars, tableVars, clickVars, runVars, lambdaVars, cloudVars

LEMMA TypeOKStep == TypeOK /\ [Next]_vars => TypeOK'
<1> SUFFICES ASSUME TypeOK, [Next]_vars PROVE TypeOK'
  OBVIOUS
<1> USE MaxAttemptsAssumption DEF TypeOK, ApprovalTypeOK, RunTypeOK, CloudTypeOK
<1>1. ASSUME NEW e \in Executions, StartExecution(e) PROVE TypeOK'
  BY <1>1 DEF StartExecution, InvokeDetect, Tasks
<1>2. ASSUME NEW e \in Executions, StateMachineStep(e) PROVE TypeOK'
  <2>1. CASE AnyZombies(e)
    BY <2>1 DEF AnyZombies, InvokeNotify, Tasks, Terminals, CleanTerminals, Outcome, NotifyPc
  <2>2. CASE ApprovalTimesOut(e)
    BY <2>2 DEF ApprovalTimesOut, Outcome
  <2>3. CASE ApprovalResolved(e)
    <3>1. outcome[e] \in DOMAIN AfterCatch => AfterCatch[outcome[e]] \in Terminals
      BY DEF AfterCatch, Terminals, CleanTerminals
    <3>2. state' \in [Executions -> {"NotStarted"} \cup Tasks \cup Terminals]
      BY <2>3, <3>1 DEF ApprovalResolved, Tasks
    <3>3. retries' \in [Executions -> 0..MaxAttempts]
      BY <2>3 DEF ApprovalResolved
    <3>4. RunTypeOK'
      <4>1. ASSUME InvokeRemediate(e) PROVE RunTypeOK'
        BY <4>1 DEF InvokeRemediate
      <4>2. ASSUME UNCHANGED runVars PROVE RunTypeOK'
        BY <4>2
      <4> QED
        BY <2>3, <4>1, <4>2 DEF ApprovalResolved
    <3> QED BY <2>3, <3>2, <3>3, <3>4 DEF ApprovalResolved
  <2>4. CASE DeletionEnds(e)
    BY <2>4 DEF DeletionEnds, Terminals
  <2>5. CASE RetryTask(e)
    <3>1. retries' \in [Executions -> 0..MaxAttempts]
      BY <2>5 DEF RetryTask
    <3>2. CASE InvokeDetect(e)
      <4>1. RunTypeOK'
        BY <3>2 DEF InvokeDetect
      <4> QED
        BY <2>5, <3>1, <4>1 DEF RetryTask
    <3>3. CASE InvokeRemediate(e)
      <4>1. RunTypeOK'
        BY <3>3 DEF InvokeRemediate
      <4> QED
        BY <2>5, <3>1, <4>1 DEF RetryTask
    <3> QED
      BY <2>5, <3>2, <3>3 DEF RetryTask
  <2>6. CASE RetriesExhausted(e)
    BY <2>6 DEF RetriesExhausted, Terminals
  <2> QED BY <1>2, <2>1, <2>2, <2>3, <2>4, <2>5, <2>6 DEF StateMachineStep
<1>3. ASSUME NEW e \in Executions, LambdaCall(e) PROVE TypeOK'
  <2> USE <1>3 DEF LambdaCall
  <2>1. ASSUME NEW r \in Resources, LookAt(e, r) PROVE TypeOK'
    BY <2>1 DEF LookAt, Zombies
  <2>2. ASSUME NEW r \in Resources, SkipDryRun(e, r) PROVE TypeOK'
    BY <2>2 DEF SkipDryRun, Visited, Record
  <2>3. ASSUME NEW r \in Resources, DeleteEffective(e, r) PROVE TypeOK'
    BY <2>3 DEF DeleteEffective, Visited, Record, Status
  <2>4. ASSUME NEW r \in Resources, DeleteRefused(e, r) PROVE TypeOK'
    BY <2>4 DEF DeleteRefused, Visited, Record
  <2>5. CASE WriteLog(e)
    BY <2>5 DEF WriteLog
  <2>6. CASE CallRaises(e)
    BY <2>6 DEF CallRaises
  <2>7. CASE DetectReturns(e)
    BY <2>7 DEF DetectReturns
  <2> QED BY <1>3, <2>1, <2>2, <2>3, <2>4, <2>5, <2>6, <2>7 DEF LambdaStep
<1>4. ASSUME NEW e \in Executions, NotifyCall(e) PROVE TypeOK'
  <2> USE <1>4 DEF NotifyCall
  <2>1. CASE Persist(e)
    BY <2>1 DEF Persist, NotifyPc, Item, RowStatus
  <2>2. CASE SendEmail(e)
    BY <2>2 DEF SendEmail, NotifyPc
  <2>3. CASE NotifyReturns(e)
    BY <2>3 DEF NotifyReturns, NotifyPc
  <2>4. CASE NotifyRaises(e)
    <3>1. row' \in [Executions -> Item]
      <4>1. [status |-> "PENDING", ttl |-> TRUE] \in Item
        BY DEF Item, RowStatus
      <4> QED BY <2>4, <4>1 DEF NotifyRaises
    <3>2. notify' \in [Executions -> NotifyPc] /\ outcome' \in [Executions -> Outcome]
      BY <2>4 DEF NotifyRaises, NotifyPc, Outcome
    <3> QED BY <2>4, <3>1, <3>2 DEF NotifyRaises
  <2> QED BY <1>4, <2>1, <2>2, <2>3, <2>4 DEF NotifyStep
<1>5. ASSUME NEW e \in Executions, Table(e) PROVE TypeOK'
  <2>1. NoItem \in Item
    BY DEF NoItem, Item, RowStatus
  <2>2. CASE LinkExpires(e)
    BY <1>5, <2>2 DEF Table, LinkExpires
  <2>3. CASE PurgeRow(e)
    BY <1>5, <2>1, <2>3 DEF Table, PurgeRow
  <2>4. CASE Replicate(e)
    BY <1>5, <2>4 DEF Table, Replicate
  <2> QED BY <1>5, <2>2, <2>3, <2>4 DEF Table, TableStep
<1>6. ASSUME NEW c \in Clicks, Callback(c) PROVE TypeOK'
  <2> USE <1>6 DEF Callback
  <2>1. CASE RefuseRequest(c)
    BY <2>1 DEF RefuseRequest, Page
  <2>2. CASE OpenLink(c)
    BY <2>2 DEF OpenLink, AfterRead, Page, Running
  <2>3. CASE TagIgnore(c)
    BY <2>3 DEF TagIgnore, Running, TagValue
  <2>4. CASE SignalAccepted(c)
    BY <2>4 DEF SignalAccepted, Running, Page, Link, Outcome
  <2>5. CASE SignalTooLate(c)
    BY <2>5 DEF SignalTooLate, Running
  <2>6. CASE SignalFails(c)
    BY <2>6 DEF SignalFails, Page
  <2>7. CASE MarkDecided(c)
    <3>1. NewStatus(c) \in RowStatus
      BY DEF NewStatus, RowStatus
    <3>2. row' \in [Executions -> Item]
      <4>1. row[link[c].exec] \in Item
        BY DEF Link
      <4>2. [row[link[c].exec] EXCEPT !.status = NewStatus(c)] \in Item
        BY <3>1, <4>1, ItemWithStatus
      <4> QED BY <2>7, <4>2 DEF MarkDecided
    <3> QED BY <2>7, <3>2 DEF MarkDecided, Page
  <2>8. CASE CallbackDies(c)
    BY <2>8 DEF CallbackDies, Page
  <2> QED BY <1>6, <2>1, <2>2, <2>3, <2>4, <2>5, <2>6, <2>7, <2>8 DEF ClickStep
<1>7. ASSUME NEW r \in Resources, Owner(r) PROVE TypeOK'
  BY <1>7 DEF Owner, OwnerActs, OwnerTags, OwnerAttaches, OwnerDetaches, OwnerDeletes, Status
<1>8. CASE UNCHANGED vars
  BY <1>8
<1> QED BY <1>1, <1>2, <1>3, <1>4, <1>5, <1>6, <1>7, <1>8 DEF Next

\* Every variable keeps its type: Step Functions never exceeds its retries, no
\* callback reaches a page or a row status that the handler does not have.
THEOREM TypeCorrect == SafetySpec => []TypeOK
  BY InitTypeOK, TypeOKStep, PTL DEF SafetySpec

LEMMA ControlInvStep == IInv /\ [Next]_vars => ControlInv'
<1> SUFFICES ASSUME IInv, [Next]_vars PROVE ControlInv'
  OBVIOUS
<1> USE DEF IInv, TypeOK, ApprovalTypeOK, RunTypeOK, CloudTypeOK, ControlInv
<1>1. ASSUME NEW e \in Executions, StartExecution(e) PROVE ControlInv'
  BY <1>1 DEF StartExecution, InvokeDetect
<1>2. ASSUME NEW e \in Executions, StateMachineStep(e) PROVE ControlInv'
  <2>1. CASE AnyZombies(e)
    BY <2>1 DEF AnyZombies, InvokeNotify
  <2>2. CASE ApprovalTimesOut(e)
    BY <2>2 DEF ApprovalTimesOut
  <2>3. CASE ApprovalResolved(e)
    BY <2>3 DEF ApprovalResolved, AfterCatch, InvokeRemediate
  <2>4. CASE DeletionEnds(e)
    BY <2>4 DEF DeletionEnds
  <2>5. CASE RetryTask(e)
    BY <2>5 DEF RetryTask, InvokeDetect, InvokeRemediate
  <2>6. CASE RetriesExhausted(e)
    BY <2>6 DEF RetriesExhausted
  <2> QED BY <1>2, <2>1, <2>2, <2>3, <2>4, <2>5, <2>6 DEF StateMachineStep
<1>3. ASSUME NEW e \in Executions, LambdaCall(e) PROVE ControlInv'
  <2> USE <1>3 DEF LambdaCall
  <2>1. ASSUME NEW r \in Resources, LookAt(e, r) PROVE ControlInv'
    BY <2>1 DEF LookAt, Zombies
  <2>2. ASSUME NEW r \in Resources, SkipDryRun(e, r) PROVE ControlInv'
    BY <2>2 DEF SkipDryRun, Visited
  <2>3. ASSUME NEW r \in Resources, DeleteEffective(e, r) PROVE ControlInv'
    BY <2>3 DEF DeleteEffective, Visited, Deletable
  <2>4. ASSUME NEW r \in Resources, DeleteRefused(e, r) PROVE ControlInv'
    BY <2>4 DEF DeleteRefused, Visited
  <2>5. CASE WriteLog(e)
    BY <2>5 DEF WriteLog
  <2>6. CASE CallRaises(e)
    BY <2>6 DEF CallRaises
  <2>7. CASE DetectReturns(e)
    BY <2>7 DEF DetectReturns
  <2> QED BY <1>3, <2>1, <2>2, <2>3, <2>4, <2>5, <2>6, <2>7 DEF LambdaStep
<1>4. ASSUME NEW e \in Executions, NotifyCall(e) PROVE ControlInv'
  <2> USE <1>4 DEF NotifyCall
  <2>1. CASE Persist(e)
    BY <2>1 DEF Persist
  <2>2. CASE SendEmail(e)
    BY <2>2 DEF SendEmail
  <2>3. CASE NotifyReturns(e)
    BY <2>3 DEF NotifyReturns
  <2>4. CASE NotifyRaises(e)
    BY <2>4 DEF NotifyRaises
  <2> QED BY <1>4, <2>1, <2>2, <2>3, <2>4 DEF NotifyStep
<1>5. ASSUME NEW e \in Executions, Table(e) PROVE ControlInv'
  <2> USE <1>5 DEF Table
  <2>1. CASE LinkExpires(e)
    BY <2>1 DEF LinkExpires
  <2>2. CASE PurgeRow(e)
    BY <2>2 DEF PurgeRow, NoItem
  <2>3. CASE Replicate(e)
    BY <2>3 DEF Replicate
  <2> QED BY <1>5, <2>1, <2>2, <2>3 DEF TableStep
<1>6. ASSUME NEW c \in Clicks, Callback(c) PROVE ControlInv'
  <2> USE <1>6 DEF Callback
  <2>1. CASE RefuseRequest(c)
    BY <2>1 DEF RefuseRequest
  <2>2. CASE OpenLink(c)
    BY <2>2 DEF OpenLink
  <2>3. CASE TagIgnore(c)
    BY <2>3 DEF TagIgnore
  <2>4. CASE SignalAccepted(c)
    <3>1. link[c].exec \in Executions /\ link[c].action \in ValidActions
      BY DEF Link
    <3>2. link[c].action \notin {"none", "waiting"}
      BY <3>1 DEF ValidActions
    <3> QED BY <2>4, <3>1, <3>2 DEF SignalAccepted
  <2>5. CASE SignalTooLate(c)
    BY <2>5 DEF SignalTooLate
  <2>6. CASE SignalFails(c)
    BY <2>6 DEF SignalFails
  <2>7. CASE MarkDecided(c)
    BY <2>7 DEF MarkDecided
  <2>8. CASE CallbackDies(c)
    BY <2>8 DEF CallbackDies
  <2> QED BY <1>6, <2>1, <2>2, <2>3, <2>4, <2>5, <2>6, <2>7, <2>8 DEF ClickStep
<1>7. ASSUME NEW r \in Resources, Owner(r) PROVE ControlInv'
  BY <1>7 DEF Owner, OwnerActs, OwnerTags, OwnerAttaches, OwnerDetaches, OwnerDeletes
<1>8. CASE UNCHANGED vars
  BY <1>8
<1> QED BY <1>1, <1>2, <1>3, <1>4, <1>5, <1>6, <1>7, <1>8 DEF Next

LEMMA RemovalInvStep == IInv /\ [Next]_vars => RemovalInv'
<1> SUFFICES ASSUME IInv, [Next]_vars PROVE RemovalInv'
  OBVIOUS
<1> USE DEF IInv, TypeOK, ApprovalTypeOK, RunTypeOK, CloudTypeOK, RemovalInv, AutoRemediateEnabled, EventFlag
<1>1. ASSUME NEW e \in Executions, StartExecution(e) PROVE RemovalInv'
  BY <1>1 DEF StartExecution, InvokeDetect, ControlInv
<1>2. ASSUME NEW e \in Executions, StateMachineStep(e) PROVE RemovalInv'
  <2>1. CASE AnyZombies(e)
    BY <2>1 DEF AnyZombies, InvokeNotify, ControlInv
  <2>2. CASE ApprovalTimesOut(e)
    BY <2>2 DEF ApprovalTimesOut, ControlInv
  <2>3. CASE ApprovalResolved(e)
    BY <2>3 DEF ApprovalResolved, AfterCatch, InvokeRemediate, ControlInv
  <2>4. CASE DeletionEnds(e)
    BY <2>4 DEF DeletionEnds
  <2>5. CASE RetryTask(e)
    BY <2>5 DEF RetryTask, InvokeDetect, InvokeRemediate, ControlInv
  <2>6. CASE RetriesExhausted(e)
    BY <2>6 DEF RetriesExhausted
  <2> QED BY <1>2, <2>1, <2>2, <2>3, <2>4, <2>5, <2>6 DEF StateMachineStep
<1>3. ASSUME NEW e \in Executions, LambdaCall(e) PROVE RemovalInv'
  <2> USE <1>3 DEF LambdaCall
  <2>1. ASSUME NEW r \in Resources, LookAt(e, r) PROVE RemovalInv'
    BY <2>1 DEF LookAt, Zombies, ControlInv
  <2>2. ASSUME NEW r \in Resources, SkipDryRun(e, r) PROVE RemovalInv'
    BY <2>2 DEF SkipDryRun, Visited, ControlInv
  <2>3. ASSUME NEW r \in Resources, DeleteEffective(e, r) PROVE RemovalInv'
    BY <2>3 DEF DeleteEffective, Visited, Deletable, ControlInv
  <2>4. ASSUME NEW r \in Resources, DeleteRefused(e, r) PROVE RemovalInv'
    BY <2>4 DEF DeleteRefused, Visited, ControlInv
  <2>5. CASE WriteLog(e)
    BY <2>5 DEF WriteLog, ControlInv
  <2>6. CASE CallRaises(e)
    BY <2>6 DEF CallRaises, ControlInv
  <2>7. CASE DetectReturns(e)
    BY <2>7 DEF DetectReturns, ControlInv
  <2> QED BY <1>3, <2>1, <2>2, <2>3, <2>4, <2>5, <2>6, <2>7 DEF LambdaStep
<1>4. ASSUME NEW e \in Executions, NotifyCall(e) PROVE RemovalInv'
  <2> USE <1>4 DEF NotifyCall
  <2>1. CASE Persist(e)
    BY <2>1 DEF Persist
  <2>2. CASE SendEmail(e)
    BY <2>2 DEF SendEmail
  <2>3. CASE NotifyReturns(e)
    BY <2>3 DEF NotifyReturns
  <2>4. CASE NotifyRaises(e)
    BY <2>4 DEF NotifyRaises
  <2> QED BY <1>4, <2>1, <2>2, <2>3, <2>4 DEF NotifyStep
<1>5. ASSUME NEW e \in Executions, Table(e) PROVE RemovalInv'
  <2> USE <1>5 DEF Table
  <2>1. CASE LinkExpires(e)
    BY <2>1 DEF LinkExpires
  <2>2. CASE PurgeRow(e)
    BY <2>2 DEF PurgeRow, NoItem
  <2>3. CASE Replicate(e)
    BY <2>3 DEF Replicate
  <2> QED BY <1>5, <2>1, <2>2, <2>3 DEF TableStep
<1>6. ASSUME NEW c \in Clicks, Callback(c) PROVE RemovalInv'
  <2> USE <1>6 DEF Callback
  <2>1. CASE RefuseRequest(c)
    BY <2>1 DEF RefuseRequest
  <2>2. CASE OpenLink(c)
    BY <2>2 DEF OpenLink
  <2>3. CASE TagIgnore(c)
    BY <2>3 DEF TagIgnore
  <2>4. CASE SignalAccepted(c)
    BY <2>4 DEF SignalAccepted
  <2>5. CASE SignalTooLate(c)
    BY <2>5 DEF SignalTooLate
  <2>6. CASE SignalFails(c)
    BY <2>6 DEF SignalFails
  <2>7. CASE MarkDecided(c)
    BY <2>7 DEF MarkDecided
  <2>8. CASE CallbackDies(c)
    BY <2>8 DEF CallbackDies
  <2> QED BY <1>6, <2>1, <2>2, <2>3, <2>4, <2>5, <2>6, <2>7, <2>8 DEF ClickStep
<1>7. ASSUME NEW r \in Resources, Owner(r) PROVE RemovalInv'
  BY <1>7 DEF Owner, OwnerActs, OwnerTags, OwnerAttaches, OwnerDetaches, OwnerDeletes
<1>8. CASE UNCHANGED vars
  BY <1>8
<1> QED BY <1>1, <1>2, <1>3, <1>4, <1>5, <1>6, <1>7, <1>8 DEF Next

\* A callback about to mark its row belongs to an execution whose token is resolved.
LEMMA MarkingMeansResolved ==
  ASSUME IInv, NEW c \in Clicks, pc[c] \in {"accepted", "movedOn"}
  PROVE  Resolved(link[c].exec)
<1>1. link[c].action \in ValidActions
  BY DEF IInv, TypeOK, ApprovalTypeOK, Link
<1>2. pc[c] = "accepted" => outcome[link[c].exec] = link[c].action
  BY DEF IInv, CallbackInv, PagesTellTheOutcome
<1>3. pc[c] = "movedOn" => Resolved(link[c].exec)
  BY DEF IInv, CallbackInv, PagesTellTheOutcome
<1> QED BY <1>1, <1>2, <1>3 DEF Resolved, ValidActions

LEMMA AnswerInvStep == IInv /\ [Next]_vars => AnswerInv'
<1> SUFFICES ASSUME IInv, [Next]_vars PROVE AnswerInv'
  OBVIOUS
<1> USE DEF IInv, TypeOK, ApprovalTypeOK, RunTypeOK, CloudTypeOK, AnswerInv
<1>1. ASSUME NEW e \in Executions, StartExecution(e) PROVE AnswerInv'
  BY <1>1 DEF StartExecution, InvokeDetect
<1>2. ASSUME NEW e \in Executions, StateMachineStep(e) PROVE AnswerInv'
  <2>1. CASE AnyZombies(e)
    BY <2>1 DEF AnyZombies, InvokeNotify, ControlInv
  <2>2. CASE ApprovalTimesOut(e)
    BY <2>2 DEF ApprovalTimesOut
  <2>3. CASE ApprovalResolved(e)
    BY <2>3 DEF ApprovalResolved, AfterCatch, InvokeRemediate
  <2>4. CASE DeletionEnds(e)
    BY <2>4 DEF DeletionEnds
  <2>5. CASE RetryTask(e)
    BY <2>5 DEF RetryTask, InvokeDetect, InvokeRemediate
  <2>6. CASE RetriesExhausted(e)
    BY <2>6 DEF RetriesExhausted
  <2> QED BY <1>2, <2>1, <2>2, <2>3, <2>4, <2>5, <2>6 DEF StateMachineStep
<1>3. ASSUME NEW e \in Executions, LambdaCall(e) PROVE AnswerInv'
  <2> USE <1>3 DEF LambdaCall
  <2>1. ASSUME NEW r \in Resources, LookAt(e, r) PROVE AnswerInv'
    BY <2>1 DEF LookAt, Zombies
  <2>2. ASSUME NEW r \in Resources, SkipDryRun(e, r) PROVE AnswerInv'
    BY <2>2 DEF SkipDryRun, Visited
  <2>3. ASSUME NEW r \in Resources, DeleteEffective(e, r) PROVE AnswerInv'
    BY <2>3 DEF DeleteEffective, Visited, Deletable
  <2>4. ASSUME NEW r \in Resources, DeleteRefused(e, r) PROVE AnswerInv'
    BY <2>4 DEF DeleteRefused, Visited
  <2>5. CASE WriteLog(e)
    BY <2>5 DEF WriteLog
  <2>6. CASE CallRaises(e)
    BY <2>6 DEF CallRaises
  <2>7. CASE DetectReturns(e)
    BY <2>7 DEF DetectReturns
  <2> QED BY <1>3, <2>1, <2>2, <2>3, <2>4, <2>5, <2>6, <2>7 DEF LambdaStep
<1>4. ASSUME NEW e \in Executions, NotifyCall(e) PROVE AnswerInv'
  <2> USE <1>4 DEF NotifyCall
  <2>1. CASE Persist(e)
    BY <2>1 DEF Persist
  <2>2. CASE SendEmail(e)
    BY <2>2 DEF SendEmail
  <2>3. CASE NotifyReturns(e)
    BY <2>3 DEF NotifyReturns
  <2>4. CASE NotifyRaises(e)
    BY <2>4 DEF NotifyRaises
  <2> QED BY <1>4, <2>1, <2>2, <2>3, <2>4 DEF NotifyStep
<1>5. ASSUME NEW e \in Executions, Table(e) PROVE AnswerInv'
  <2> USE <1>5 DEF Table
  <2>1. CASE LinkExpires(e)
    BY <2>1 DEF LinkExpires, NotifyEnded
  <2>2. CASE PurgeRow(e)
    BY <2>2 DEF PurgeRow, NoItem
  <2>3. CASE Replicate(e)
    BY <2>3 DEF Replicate
  <2> QED BY <1>5, <2>1, <2>2, <2>3 DEF TableStep
<1>6. ASSUME NEW c \in Clicks, Callback(c) PROVE AnswerInv'
  <2> USE <1>6 DEF Callback
  <2>1. CASE RefuseRequest(c)
    BY <2>1 DEF RefuseRequest
  <2>2. CASE OpenLink(c)
    BY <2>2 DEF OpenLink
  <2>3. CASE TagIgnore(c)
    BY <2>3 DEF TagIgnore
  <2>4. CASE SignalAccepted(c)
    BY <2>4 DEF SignalAccepted
  <2>5. CASE SignalTooLate(c)
    BY <2>5 DEF SignalTooLate
  <2>6. CASE SignalFails(c)
    BY <2>6 DEF SignalFails
  <2>7. CASE MarkDecided(c)
    <3>1. Resolved(link[c].exec)
      BY <2>7, MarkingMeansResolved DEF MarkDecided
    <3> QED BY <2>7, <3>1 DEF MarkDecided, Resolved
  <2>8. CASE CallbackDies(c)
    BY <2>8 DEF CallbackDies
  <2> QED BY <1>6, <2>1, <2>2, <2>3, <2>4, <2>5, <2>6, <2>7, <2>8 DEF ClickStep
<1>7. ASSUME NEW r \in Resources, Owner(r) PROVE AnswerInv'
  BY <1>7 DEF Owner, OwnerActs, OwnerTags, OwnerAttaches, OwnerDetaches, OwnerDeletes
<1>8. CASE UNCHANGED vars
  BY <1>8
<1> QED BY <1>1, <1>2, <1>3, <1>4, <1>5, <1>6, <1>7, <1>8 DEF Next

\* Visiting a resource of the list, in the mode the Lambda is armed for, keeps the
\* records complete and honest.
LEMMA VisitKeepsAudit ==
  ASSUME IInv,
         NEW e \in Executions, NEW r \in todo[e], NEW status,
         call[e] = "remediate",
         Visited(e, r, status),
         status = "SKIPPED_DRY_RUN" <=> ~EnvArmed,
         status = "SUCCESS" => r \in removed'[e],
         \A f \in Executions : removed[f] \subseteq removed'[f],
         UNCHANGED <<call, state, manifest, log>>
  PROVE  AuditInv'
<1> DEFINE new == [resource |-> r, status |-> status]
<1>1. /\ todo'[e] = todo[e] \ {r}
      /\ records'[e] = records[e] \cup {new}
  BY DEF Visited, IInv, TypeOK, RunTypeOK
<1>2. \A f \in Executions \ {e} : todo'[f] = todo[f] /\ records'[f] = records[f]
  BY DEF Visited, IInv, TypeOK, RunTypeOK
<1>3. r \in manifest[e]
  BY DEF IInv, RemovalInv
<1>4. new.resource = r /\ new.status = status
  OBVIOUS
<1> HIDE DEF new
<1>5. ASSUME NEW f \in Executions, call[f] = "remediate", NEW q \in manifest[f] \ todo'[f]
      PROVE  \E rec \in records'[f] : rec.resource = q
  <2>1. CASE f = e /\ q = r
    BY <1>1, <1>4, <2>1
  <2>2. CASE f = e /\ q # r
    BY <1>1, <1>5, <2>2 DEF IInv, AuditInv
  <2>3. CASE f # e
    BY <1>2, <1>5, <2>3 DEF IInv, AuditInv
  <2> QED BY <2>1, <2>2, <2>3
<1>6. ASSUME NEW f \in Executions, NEW rec \in records'[f] \cup log[f]
      PROVE  /\ rec.resource \in manifest[f]
             /\ rec.status = "SUCCESS" => rec.resource \in removed'[f]
             /\ rec.status = "SKIPPED_DRY_RUN" <=> ~EnvArmed
  <2>1. CASE rec \in records[f] \cup log[f]
    BY <2>1 DEF IInv, AuditInv
  <2>2. CASE rec \notin records[f] \cup log[f]
    <3>1. f = e /\ rec = new
      BY <1>1, <1>2, <2>2
    <3> QED BY <1>3, <1>4, <3>1
  <2> QED BY <2>1, <2>2
<1> QED BY <1>5, <1>6 DEF IInv, AuditInv, Logged

LEMMA AuditInvStep == IInv /\ [Next]_vars => AuditInv'
<1> SUFFICES ASSUME IInv, [Next]_vars PROVE AuditInv'
  OBVIOUS
<1> USE DEF IInv, TypeOK, ApprovalTypeOK, RunTypeOK, CloudTypeOK, AuditInv, Logged, AutoRemediateEnabled, EventFlag
<1>1. ASSUME NEW e \in Executions, StartExecution(e) PROVE AuditInv'
  BY <1>1 DEF StartExecution, InvokeDetect, ControlInv, RemovalInv
<1>2. ASSUME NEW e \in Executions, StateMachineStep(e) PROVE AuditInv'
  <2>1. CASE AnyZombies(e)
    BY <2>1 DEF AnyZombies, InvokeNotify, ControlInv, RemovalInv
  <2>2. CASE ApprovalTimesOut(e)
    BY <2>2 DEF ApprovalTimesOut, ControlInv, RemovalInv
  <2>3. CASE ApprovalResolved(e)
    BY <2>3 DEF ApprovalResolved, AfterCatch, InvokeRemediate, ControlInv, RemovalInv
  <2>4. CASE DeletionEnds(e)
    BY <2>4 DEF DeletionEnds, ControlInv, RemovalInv
  <2>5. CASE RetryTask(e)
    BY <2>5 DEF RetryTask, InvokeDetect, InvokeRemediate, ControlInv, RemovalInv
  <2>6. CASE RetriesExhausted(e)
    BY <2>6 DEF RetriesExhausted
  <2> QED BY <1>2, <2>1, <2>2, <2>3, <2>4, <2>5, <2>6 DEF StateMachineStep
<1>3. ASSUME NEW e \in Executions, LambdaCall(e) PROVE AuditInv'
  <2> USE <1>3 DEF LambdaCall
  <2>1. ASSUME NEW r \in Resources, LookAt(e, r) PROVE AuditInv'
    BY <2>1 DEF LookAt, Zombies, ControlInv, RemovalInv
  <2>2. ASSUME NEW r \in Resources, SkipDryRun(e, r) PROVE AuditInv'
    <3>1. call[e] = "remediate" /\ r \in todo[e] /\ Visited(e, r, "SKIPPED_DRY_RUN")
      BY <2>2 DEF SkipDryRun
    <3>2. ~EnvArmed
      BY <2>2 DEF SkipDryRun
    <3>3. UNCHANGED <<call, state, manifest, log, removed>>
      BY <2>2 DEF SkipDryRun
    <3> QED BY <3>1, <3>2, <3>3, VisitKeepsAudit
  <2>3. ASSUME NEW r \in Resources, DeleteEffective(e, r) PROVE AuditInv'
    <3>1. PICK status \in {"SUCCESS", "FAILED"} : Visited(e, r, status)
      BY <2>3 DEF DeleteEffective
    <3>2. call[e] = "remediate" /\ r \in todo[e] /\ EnvArmed
      BY <2>3 DEF DeleteEffective
    <3>3. UNCHANGED <<call, state, manifest, log>>
      BY <2>3 DEF DeleteEffective
    <3>4. r \in removed'[e] /\ \A f \in Executions : removed[f] \subseteq removed'[f]
      BY <2>3 DEF DeleteEffective
    <3> QED BY <3>1, <3>2, <3>3, <3>4, VisitKeepsAudit
  <2>4. ASSUME NEW r \in Resources, DeleteRefused(e, r) PROVE AuditInv'
    <3>1. call[e] = "remediate" /\ r \in todo[e] /\ Visited(e, r, "FAILED")
      BY <2>4 DEF DeleteRefused
    <3>2. EnvArmed
      BY <2>4 DEF DeleteRefused
    <3>3. UNCHANGED <<call, state, manifest, log, removed>>
      BY <2>4 DEF DeleteRefused
    <3> QED BY <3>1, <3>2, <3>3, VisitKeepsAudit
  <2>5. CASE WriteLog(e)
    BY <2>5 DEF WriteLog, ControlInv, RemovalInv
  <2>6. CASE CallRaises(e)
    BY <2>6 DEF CallRaises, ControlInv, RemovalInv
  <2>7. CASE DetectReturns(e)
    BY <2>7 DEF DetectReturns, ControlInv, RemovalInv
  <2> QED BY <1>3, <2>1, <2>2, <2>3, <2>4, <2>5, <2>6, <2>7 DEF LambdaStep
<1>4. ASSUME NEW e \in Executions, NotifyCall(e) PROVE AuditInv'
  <2> USE <1>4 DEF NotifyCall
  <2>1. CASE Persist(e)
    BY <2>1 DEF Persist
  <2>2. CASE SendEmail(e)
    BY <2>2 DEF SendEmail
  <2>3. CASE NotifyReturns(e)
    BY <2>3 DEF NotifyReturns
  <2>4. CASE NotifyRaises(e)
    BY <2>4 DEF NotifyRaises
  <2> QED BY <1>4, <2>1, <2>2, <2>3, <2>4 DEF NotifyStep
<1>5. ASSUME NEW e \in Executions, Table(e) PROVE AuditInv'
  <2> USE <1>5 DEF Table
  <2>1. CASE LinkExpires(e)
    BY <2>1 DEF LinkExpires
  <2>2. CASE PurgeRow(e)
    BY <2>2 DEF PurgeRow, NoItem
  <2>3. CASE Replicate(e)
    BY <2>3 DEF Replicate
  <2> QED BY <1>5, <2>1, <2>2, <2>3 DEF TableStep
<1>6. ASSUME NEW c \in Clicks, Callback(c) PROVE AuditInv'
  <2> USE <1>6 DEF Callback
  <2>1. CASE RefuseRequest(c)
    BY <2>1 DEF RefuseRequest
  <2>2. CASE OpenLink(c)
    BY <2>2 DEF OpenLink
  <2>3. CASE TagIgnore(c)
    BY <2>3 DEF TagIgnore
  <2>4. CASE SignalAccepted(c)
    BY <2>4 DEF SignalAccepted
  <2>5. CASE SignalTooLate(c)
    BY <2>5 DEF SignalTooLate
  <2>6. CASE SignalFails(c)
    BY <2>6 DEF SignalFails
  <2>7. CASE MarkDecided(c)
    BY <2>7 DEF MarkDecided
  <2>8. CASE CallbackDies(c)
    BY <2>8 DEF CallbackDies
  <2> QED BY <1>6, <2>1, <2>2, <2>3, <2>4, <2>5, <2>6, <2>7, <2>8 DEF ClickStep
<1>7. ASSUME NEW r \in Resources, Owner(r) PROVE AuditInv'
  BY <1>7 DEF Owner, OwnerActs, OwnerTags, OwnerAttaches, OwnerDetaches, OwnerDeletes
<1>8. CASE UNCHANGED vars
  BY <1>8
<1> QED BY <1>1, <1>2, <1>3, <1>4, <1>5, <1>6, <1>7, <1>8 DEF Next

\* While the token of e is unresolved no click and no row claims otherwise.
LEMMA UnresolvedIsUnclaimed ==
  ASSUME IInv, NEW e \in Executions, ~Resolved(e)
  PROVE  /\ \A c \in Clicks : link[c].exec = e =>
               pc[c] \notin {"accepted", "Decided", "movedOn", "MovedOn", "AlreadyDecided"}
         /\ row[e].status \in {"ABSENT", "PENDING"}
         /\ replica[e].status \in {"ABSENT", "PENDING"}
<1>1. ASSUME NEW c \in Clicks, link[c].exec = e
      PROVE  pc[c] \notin {"accepted", "Decided", "movedOn", "MovedOn", "AlreadyDecided"}
  <2>1. link[c].action \in ValidActions
    BY DEF IInv, TypeOK, ApprovalTypeOK, Link
  <2>2. link[c].action \notin {"none", "waiting"}
    BY <2>1 DEF ValidActions
  <2> QED BY <1>1, <2>2 DEF IInv, CallbackInv, PagesTellTheOutcome, Resolved
<1>2. row[e].status \in {"ABSENT", "PENDING"} /\ replica[e].status \in {"ABSENT", "PENDING"}
  BY DEF IInv, CallbackInv, RowsFollowTheOutcome
<1> QED BY <1>1, <1>2

\* The token of e is handed out, or resolved by something other than a click.
LEMMA TokenMovesAlone ==
  ASSUME IInv, NEW e \in Executions, ~Resolved(e), NEW o, o # "none",
         outcome' = [outcome EXCEPT ![e] = o],
         \A f \in Executions : row'[f] = row[f] \/ row'[f].status = "PENDING",
         UNCHANGED <<pc, link, replica>>
  PROVE  CallbackInv'
<1>1. outcome'[e] = o /\ \A f \in Executions \ {e} : outcome'[f] = outcome[f]
  BY DEF IInv, TypeOK, ApprovalTypeOK
<1>2. \A c \in Clicks : link[c].exec \in Executions
  BY DEF IInv, TypeOK, ApprovalTypeOK, Link
<1>3. \A c \in Clicks : pc[c] \in Running => outcome'[link[c].exec] # "none"
  BY <1>1, <1>2 DEF IInv, CallbackInv
<1>4. PagesTellTheOutcome'
  BY <1>1, <1>2, UnresolvedIsUnclaimed DEF IInv, CallbackInv, PagesTellTheOutcome, Resolved
<1>5. OneClickDecides'
  BY DEF IInv, CallbackInv, OneClickDecides
<1>6. RowsFollowTheOutcome'
  BY <1>1, UnresolvedIsUnclaimed DEF IInv, CallbackInv, RowsFollowTheOutcome, Resolved
<1> QED BY <1>3, <1>4, <1>5, <1>6 DEF CallbackInv

\* update_item on one item sets its status and leaves the other items alone.
LEMMA SettingTheStatus ==
  ASSUME TypeOK, NEW e \in Executions, NEW s
  PROVE  LET new == [row EXCEPT ![e].status = s] IN
         /\ new[e].status = s
         /\ \A f \in Executions \ {e} : new[f] = row[f]
<1>1. row[e] \in Item
  BY DEF TypeOK, ApprovalTypeOK
<1>2. [row[e] EXCEPT !.status = s].status = s
  BY <1>1 DEF Item
<1> QED BY <1>2 DEF TypeOK, ApprovalTypeOK

LEMMA CallbackInvStep == IInv /\ [Next]_vars => CallbackInv'
<1> SUFFICES ASSUME IInv, [Next]_vars PROVE CallbackInv'
  OBVIOUS
<1> USE DEF IInv, TypeOK, ApprovalTypeOK, RunTypeOK, CloudTypeOK, CallbackInv, PagesTellTheOutcome, OneClickDecides, RowsFollowTheOutcome, Resolved, Link, Running
<1>1. ASSUME NEW e \in Executions, StartExecution(e) PROVE CallbackInv'
  BY <1>1 DEF StartExecution, InvokeDetect
<1>2. ASSUME NEW e \in Executions, StateMachineStep(e) PROVE CallbackInv'
  <2>1. CASE AnyZombies(e)
    <3>1. CASE manifest[e] # {}
      <4>1. ~Resolved(e)
        BY <2>1 DEF AnyZombies, ControlInv
      <4> QED BY <2>1, <3>1, <4>1, TokenMovesAlone DEF AnyZombies, InvokeNotify
    <3>2. CASE manifest[e] = {}
      BY <2>1, <3>2 DEF AnyZombies
    <3> QED BY <3>1, <3>2
  <2>2. CASE ApprovalTimesOut(e)
    BY <2>2, TokenMovesAlone DEF ApprovalTimesOut
  <2>3. CASE ApprovalResolved(e)
    BY <2>3 DEF ApprovalResolved, AfterCatch, InvokeRemediate
  <2>4. CASE DeletionEnds(e)
    BY <2>4 DEF DeletionEnds
  <2>5. CASE RetryTask(e)
    BY <2>5 DEF RetryTask, InvokeDetect, InvokeRemediate
  <2>6. CASE RetriesExhausted(e)
    BY <2>6 DEF RetriesExhausted
  <2> QED BY <1>2, <2>1, <2>2, <2>3, <2>4, <2>5, <2>6 DEF StateMachineStep
<1>3. ASSUME NEW e \in Executions, LambdaCall(e) PROVE CallbackInv'
  <2> USE <1>3 DEF LambdaCall
  <2>1. ASSUME NEW r \in Resources, LookAt(e, r) PROVE CallbackInv'
    BY <2>1 DEF LookAt, Zombies
  <2>2. ASSUME NEW r \in Resources, SkipDryRun(e, r) PROVE CallbackInv'
    BY <2>2 DEF SkipDryRun, Visited
  <2>3. ASSUME NEW r \in Resources, DeleteEffective(e, r) PROVE CallbackInv'
    BY <2>3 DEF DeleteEffective, Visited, Deletable
  <2>4. ASSUME NEW r \in Resources, DeleteRefused(e, r) PROVE CallbackInv'
    BY <2>4 DEF DeleteRefused, Visited
  <2>5. CASE WriteLog(e)
    BY <2>5 DEF WriteLog
  <2>6. CASE CallRaises(e)
    BY <2>6 DEF CallRaises
  <2>7. CASE DetectReturns(e)
    BY <2>7 DEF DetectReturns
  <2> QED BY <1>3, <2>1, <2>2, <2>3, <2>4, <2>5, <2>6, <2>7 DEF LambdaStep
<1>4. ASSUME NEW e \in Executions, NotifyCall(e) PROVE CallbackInv'
  <2> USE <1>4 DEF NotifyCall
  <2>1. CASE Persist(e)
    BY <2>1 DEF Persist
  <2>2. CASE SendEmail(e)
    BY <2>2 DEF SendEmail
  <2>3. CASE NotifyReturns(e)
    BY <2>3 DEF NotifyReturns
  <2>4. CASE NotifyRaises(e)
    <3>1. \A f \in Executions : row'[f] = row[f] \/ row'[f].status = "PENDING"
      BY <2>4 DEF NotifyRaises
    <3>2. CASE outcome[e] = "waiting"
      BY <2>4, <3>1, <3>2, TokenMovesAlone DEF NotifyRaises
    <3>3. CASE outcome[e] # "waiting"
      BY <2>4, <3>1, <3>3 DEF NotifyRaises
    <3> QED BY <3>2, <3>3
  <2> QED BY <1>4, <2>1, <2>2, <2>3, <2>4 DEF NotifyStep
<1>5. ASSUME NEW e \in Executions, Table(e) PROVE CallbackInv'
  <2> USE <1>5 DEF Table
  <2>1. CASE LinkExpires(e)
    BY <2>1 DEF LinkExpires
  <2>2. CASE PurgeRow(e)
    BY <2>2 DEF PurgeRow, NoItem
  <2>3. CASE Replicate(e)
    BY <2>3 DEF Replicate
  <2> QED BY <1>5, <2>1, <2>2, <2>3 DEF TableStep
<1>6. ASSUME NEW c \in Clicks, Callback(c) PROVE CallbackInv'
  <2> USE <1>6 DEF Callback
  <2>1. CASE RefuseRequest(c)
    BY <2>1 DEF RefuseRequest
  <2>2. CASE OpenLink(c)
    <3> DEFINE x == link[c].exec
    <3>1. x \in Executions /\ outcome[x] # "none"
      BY <2>2 DEF OpenLink, ControlInv, Mailed
    <3>2. pc' = [pc EXCEPT ![c] = pc'[c]]
      BY <2>2 DEF OpenLink
    <3>3. pc'[c] \in {"LinkExpired", "NotFound", "opened", "toSignal", "AlreadyDecided"}
      BY <2>2 DEF OpenLink, AfterRead
    <3>4. pc'[c] = "AlreadyDecided" => Resolved(x)
      <4>1. SUFFICES ASSUME pc'[c] = "AlreadyDecided" PROVE Resolved(x)
        OBVIOUS
      <4>2. PICK item \in {row[x], replica[x]} :
               pc' = [pc EXCEPT ![c] = AfterRead(item.status, link[c].action)]
        BY <2>2, <4>1 DEF OpenLink
      <4>3. AfterRead(item.status, link[c].action) = "AlreadyDecided"
        BY <4>1, <4>2
      <4>4. item.status \notin {"ABSENT", "PENDING"}
        BY <4>3 DEF AfterRead
      <4> QED BY <3>1, <4>4
    <3>5. UNCHANGED <<outcome, row, replica, link>>
      BY <2>2 DEF OpenLink
    <3> HIDE <1>6 DEF Callback
    <3>6. \A d \in Clicks : pc'[d] \in Running => outcome'[link[d].exec] # "none"
      BY <3>1, <3>2, <3>3, <3>5
    <3>7. PagesTellTheOutcome'
      BY <3>2, <3>3, <3>4, <3>5
    <3>8. OneClickDecides'
      BY <3>2, <3>3, <3>5
    <3>9. RowsFollowTheOutcome'
      BY <3>5
    <3> HIDE DEF PagesTellTheOutcome, OneClickDecides, RowsFollowTheOutcome
    <3> QED BY <3>5, <3>6, <3>7, <3>8, <3>9
  <2>3. CASE TagIgnore(c)
    BY <2>3 DEF TagIgnore
  <2>4. CASE SignalAccepted(c)
    <3> DEFINE x == link[c].exec
    <3>1. x \in Executions /\ outcome[x] = "waiting" /\ ~Resolved(x)
      BY <2>4 DEF SignalAccepted
    <3>2. link[c].action \notin {"none", "waiting"}
      BY DEF ValidActions
    <3>3. outcome'[x] = link[c].action /\ \A f \in Executions \ {x} : outcome'[f] = outcome[f]
      BY <2>4, <3>1 DEF SignalAccepted
    <3>4. /\ pc'[c] \in {"accepted", "movedOn", "Crashed"}
          /\ \A d \in Clicks \ {c} : pc'[d] = pc[d]
      BY <2>4 DEF SignalAccepted
    <3>5. UNCHANGED <<row, replica, link>>
      BY <2>4 DEF SignalAccepted
    <3> HIDE <1>6 DEF Callback
    <3>6. \A d \in Clicks : pc'[d] \in Running => outcome'[link[d].exec] # "none"
      BY <3>1, <3>2, <3>3, <3>4
    <3>7. PagesTellTheOutcome'
      BY <3>1, <3>2, <3>3, <3>4, <3>5, UnresolvedIsUnclaimed
    <3>8. OneClickDecides'
      BY <3>1, <3>4, <3>5, UnresolvedIsUnclaimed
    <3>9. RowsFollowTheOutcome'
      BY <3>1, <3>2, <3>3, <3>5, UnresolvedIsUnclaimed
    <3> QED BY <3>5, <3>6, <3>7, <3>8, <3>9
  <2>5. CASE SignalTooLate(c)
    BY <2>5 DEF SignalTooLate
  <2>6. CASE SignalFails(c)
    BY <2>6 DEF SignalFails
  <2>7. CASE MarkDecided(c)
    <3> DEFINE x == link[c].exec
    <3>1. x \in Executions /\ Resolved(x) /\ outcome[x] # "none"
      BY <2>7, MarkingMeansResolved DEF MarkDecided
    <3>2. /\ \/ pc[c] = "accepted" /\ pc'[c] = "Decided"
             \/ pc[c] = "movedOn" /\ pc'[c] = "MovedOn"
          /\ \A d \in Clicks \ {c} : pc'[d] = pc[d]
      <4>1. /\ pc[c] \in {"accepted", "movedOn"}
            /\ pc' = [pc EXCEPT ![c] = IF pc[c] = "accepted" THEN "Decided" ELSE "MovedOn"]
        BY <2>7 DEF MarkDecided
      <4>2. DOMAIN pc = Clicks
        OBVIOUS
      <4> HIDE DEF IInv, TypeOK, ApprovalTypeOK
      <4> QED BY <4>1, <4>2
    <3>3. UNCHANGED <<outcome, replica, link>>
      BY <2>7 DEF MarkDecided
    <3>4. /\ NewStatus(c) = "APPROVED" => outcome[x] = "approve"
          /\ NewStatus(c) = "REJECTED" => outcome[x] = "reject"
      BY <3>2 DEF NewStatus
    <3>5. /\ row'[x].status \in {row[x].status, NewStatus(c)}
          /\ \A f \in Executions \ {x} : row'[f] = row[f]
      <4>1. row' = row \/ row' = [row EXCEPT ![x].status = NewStatus(c)]
        BY <2>7 DEF MarkDecided
      <4>2. /\ [row EXCEPT ![x].status = NewStatus(c)][x].status = NewStatus(c)
            /\ \A f \in Executions \ {x} :
                  [row EXCEPT ![x].status = NewStatus(c)][f] = row[f]
        BY <3>1, SettingTheStatus
      <4> HIDE DEF x
      <4> QED BY <4>1, <4>2
    <3> HIDE <1>6 DEF Callback
    <3>6. \A d \in Clicks : pc'[d] \in Running => outcome'[link[d].exec] # "none"
      BY <3>2, <3>3
    <3>7. PagesTellTheOutcome'
      BY <3>1, <3>2, <3>3
    <3>8. OneClickDecides'
      BY <3>2, <3>3
    <3>9. RowsFollowTheOutcome'
      BY <3>1, <3>3, <3>4, <3>5
    <3> QED BY <3>3, <3>6, <3>7, <3>8, <3>9
  <2>8. CASE CallbackDies(c)
    BY <2>8 DEF CallbackDies
  <2> QED BY <1>6, <2>1, <2>2, <2>3, <2>4, <2>5, <2>6, <2>7, <2>8 DEF ClickStep
<1>7. ASSUME NEW r \in Resources, Owner(r) PROVE CallbackInv'
  BY <1>7 DEF Owner, OwnerActs, OwnerTags, OwnerAttaches, OwnerDetaches, OwnerDeletes
<1>8. CASE UNCHANGED vars
  BY <1>8
<1> QED BY <1>1, <1>2, <1>3, <1>4, <1>5, <1>6, <1>7, <1>8 DEF Next

\* An owner who changes a tag takes the resource out of what is spared; a finder
\* puts nothing that is tagged on its list.
LEMMA SparedInvStep == IInv /\ [Next]_vars => SparedInv'
<1> SUFFICES ASSUME IInv, [Next]_vars PROVE SparedInv'
  OBVIOUS
<1> USE DEF IInv, TypeOK, RunTypeOK, CloudTypeOK, SparedInv
<1>1. ASSUME NEW e \in Executions, StartExecution(e) PROVE SparedInv'
  BY <1>1 DEF StartExecution, InvokeDetect
<1>2. ASSUME NEW e \in Executions, StateMachineStep(e) PROVE SparedInv'
  <2>1. CASE RetryTask(e)
    BY <2>1 DEF RetryTask, InvokeDetect, InvokeRemediate
  <2>2. CASE ApprovalResolved(e)
    BY <2>2 DEF ApprovalResolved, InvokeRemediate
  <2>3. CASE AnyZombies(e) \/ ApprovalTimesOut(e) \/ DeletionEnds(e) \/ RetriesExhausted(e)
    BY <2>3 DEF AnyZombies, ApprovalTimesOut, DeletionEnds, RetriesExhausted
  <2> QED BY <1>2, <2>1, <2>2, <2>3 DEF StateMachineStep
<1>3. ASSUME NEW e \in Executions, LambdaCall(e) PROVE SparedInv'
  <2>1. ASSUME NEW r \in Resources, LookAt(e, r) PROVE SparedInv'
    BY <2>1 DEF LookAt, Zombies, IsIgnored
  <2>2. ASSUME NEW r \in Resources, DeleteEffective(e, r) PROVE SparedInv'
    BY <2>2 DEF DeleteEffective
  <2> QED
    BY <1>3, <2>1, <2>2 DEF LambdaCall, LambdaStep, SkipDryRun, DeleteRefused, WriteLog,
       CallRaises, DetectReturns
<1>4. ASSUME NEW c \in Clicks, Callback(c) PROVE SparedInv'
  <2>1. CASE TagIgnore(c)
    BY <2>1 DEF TagIgnore
  <2> QED
    BY <1>4, <2>1 DEF Callback, ClickStep, RefuseRequest, OpenLink, SignalAccepted,
       SignalTooLate, SignalFails, MarkDecided, CallbackDies
<1>5. ASSUME NEW r \in Resources, Owner(r) PROVE SparedInv'
  <2>1. tag' \in [Resources -> TagValue] /\ \A q \in Resources \ {r} : tag'[q] = tag[q]
    BY <1>5 DEF Owner, OwnerActs, OwnerTags, OwnerAttaches, OwnerDetaches, OwnerDeletes
  <2> QED BY <1>5, <2>1 DEF Owner
<1>6. ASSUME NEW e \in Executions, NotifyCall(e) \/ Table(e) PROVE SparedInv'
  BY <1>6 DEF NotifyCall, NotifyStep, Table, TableStep, Persist, SendEmail, NotifyReturns,
              NotifyRaises, LinkExpires, PurgeRow, Replicate
<1>7. CASE UNCHANGED vars
  BY <1>7
<1> QED BY <1>1, <1>2, <1>3, <1>4, <1>5, <1>6, <1>7 DEF Next

-----------------------------------------------------------------------------
(* The inductive invariant holds. *)

LEMMA InitIInv == Init => IInv
<1> SUFFICES ASSUME Init PROVE IInv
  OBVIOUS
<1> USE DEF Init, ApprovalInit, RunInit, CloudInit, NoItem
<1>1. TypeOK
  BY InitTypeOK
<1>2. ControlInv
  BY DEF ControlInv
<1>3. RemovalInv
  BY DEF RemovalInv
<1>4. CallbackInv
  BY DEF CallbackInv, PagesTellTheOutcome, OneClickDecides, RowsFollowTheOutcome, Running
<1>5. AnswerInv
  BY DEF AnswerInv
<1>6. AuditInv
  BY DEF AuditInv, Logged
<1>7. SparedInv
  BY DEF SparedInv
<1> QED BY <1>1, <1>2, <1>3, <1>4, <1>5, <1>6, <1>7 DEF IInv

\* The strengthening is inductive: it is kept by every step of Step Functions, of
\* the two Lambdas, of the table, of any click and of the account's owners.
THEOREM Invariance == SafetySpec => []IInv
<1>1. IInv /\ [Next]_vars => IInv'
  BY TypeOKStep, ControlInvStep, RemovalInvStep, SparedInvStep, CallbackInvStep, AnswerInvStep,
     AuditInvStep
  DEF IInv
<1> QED BY <1>1, InitIInv, PTL DEF SafetySpec

-----------------------------------------------------------------------------
(* The safety properties. *)

\* Only what is on an approved list is deleted, only when the environment is
\* armed, and by one execution only.
THEOREM Removal == SafetySpec => []OnlyApprovedIsRemoved
<1>1. IInv => OnlyApprovedIsRemoved
  BY DEF IInv, RemovalInv, OnlyApprovedIsRemoved
<1> QED BY <1>1, Invariance, PTL

\* An execution that ends rejected, ignored, timed out or failed at the approval
\* has deleted and logged nothing.
THEOREM CleanTerminalsStayClean == SafetySpec => []CleanTerminalsAreClean
<1>1. IInv => CleanTerminalsAreClean
  BY DEF IInv, ControlInv, RemovalInv, CleanTerminalsAreClean, CleanTerminals
<1> QED BY <1>1, Invariance, PTL

\* However clicks, timeouts, expiry and lost answers interleave: the page a click
\* is shown is what became of the execution.
THEOREM PagesAgree == SafetySpec => []PagesTellTheOutcome
<1>1. IInv => PagesTellTheOutcome
  BY DEF IInv, CallbackInv
<1> QED BY <1>1, Invariance, PTL

\* Of all the clicks on an execution's links one at most is told that it decided.
THEOREM OneClickAtMost == SafetySpec => []OneClickDecides
<1>1. IInv => OneClickDecides
  BY DEF IInv, CallbackInv
<1> QED BY <1>1, Invariance, PTL

\* The approvals row and its lagging copy are marked only after the decision, and
\* APPROVED and REJECTED are the decision.
THEOREM RowsAgree == SafetySpec => []RowsFollowTheOutcome
<1>1. IInv => RowsFollowTheOutcome
  BY DEF IInv, CallbackInv
<1> QED BY <1>1, Invariance, PTL

\* A waiting execution whose links are out and not expired has an open row.
THEOREM Answerable == SafetySpec => []WaitingIsAnswerable
<1>1. IInv => WaitingIsAnswerable
  BY DEF IInv, AnswerInv, WaitingIsAnswerable, Mailed
<1> QED BY <1>1, Invariance, PTL

\* The remediation log of an execution that succeeded covers its whole list and
\* calls nothing a success that is not.
THEOREM HonestAudit == SafetySpec => []AuditIsHonest
<1>1. ASSUME IInv, NEW e \in Executions, state[e] = "Succeeded"
      PROVE  manifest[e] = {rec.resource : rec \in log[e]}
  BY <1>1 DEF IInv, AuditInv, Logged
<1>2. IInv => AuditIsHonest
  BY <1>1 DEF IInv, AuditInv, AuditIsHonest
<1> QED BY <1>2, Invariance, PTL

-----------------------------------------------------------------------------
(* Which actions touch the decisions, the lists and the deletions. *)

\* The list of e is begun or built, before anybody is asked.
Listing(e) ==
  /\ outcome[e] = "none"
  /\ \E S \in SUBSET Resources : manifest' = [manifest EXCEPT ![e] = S]
  /\ UNCHANGED <<outcome, removed>>

\* Only detection and an effective delete touch the lists and the deletions;
\* besides them, only asking and resolving touch the token.
LEMMA GateChanges ==
  ASSUME IInv, [Next]_vars
  PROVE  \/ UNCHANGED <<outcome, manifest, removed>>
         \/ \E e \in Executions :
               \/ AnyZombies(e) /\ manifest[e] # {}
               \/ Listing(e)
               \/ ApprovalTimesOut(e)
               \/ NotifyRaises(e) /\ outcome[e] = "waiting"
               \/ \E r \in Resources : LambdaCall(e) /\ DeleteEffective(e, r)
         \/ \E c \in Clicks : SignalAccepted(c)
<1> DEFINE Moves ==
       \/ UNCHANGED <<outcome, manifest, removed>>
       \/ \E e \in Executions :
             \/ AnyZombies(e) /\ manifest[e] # {}
             \/ Listing(e)
             \/ ApprovalTimesOut(e)
             \/ NotifyRaises(e) /\ outcome[e] = "waiting"
             \/ \E r \in Resources : LambdaCall(e) /\ DeleteEffective(e, r)
       \/ \E c \in Clicks : SignalAccepted(c)
<1>1. ASSUME NEW e \in Executions, StartExecution(e) \/ StateMachineStep(e) PROVE Moves
  <2>1. CASE AnyZombies(e) /\ manifest[e] = {}
    BY <2>1 DEF AnyZombies
  <2>2. CASE StartExecution(e)
    BY <2>2 DEF StartExecution, InvokeDetect, Listing, IInv, ControlInv
  <2>3. CASE RetryTask(e)
    BY <2>3 DEF RetryTask, InvokeDetect, InvokeRemediate, Listing, IInv, ControlInv
  <2> QED
    BY <1>1, <2>1, <2>2, <2>3 DEF StateMachineStep, ApprovalResolved, InvokeRemediate,
       DeletionEnds, RetriesExhausted
<1>2. ASSUME NEW e \in Executions, LambdaCall(e) PROVE Moves
  <2>1. ASSUME NEW r \in Resources, LookAt(e, r) PROVE Moves
    <3>1. outcome[e] = "none" /\ UNCHANGED <<outcome, removed>>
      BY <1>2, <2>1 DEF LambdaCall, LookAt, IInv, ControlInv
    <3>2. \/ UNCHANGED manifest
          \/ manifest' = [manifest EXCEPT ![e] = manifest[e] \cup {r}]
      BY <2>1 DEF LookAt
    <3>3. manifest[e] \cup {r} \in SUBSET Resources
      BY DEF IInv, TypeOK, RunTypeOK
    <3> QED BY <3>1, <3>2, <3>3 DEF Listing
  <2> QED
    BY <1>2, <2>1 DEF LambdaCall, LambdaStep, DetectReturns, SkipDryRun, DeleteRefused,
       WriteLog, CallRaises
<1>3. ASSUME NEW e \in Executions, NotifyCall(e) PROVE Moves
  <2>1. CASE NotifyRaises(e) /\ outcome[e] # "waiting"
    BY <2>1 DEF NotifyRaises
  <2> QED BY <1>3, <2>1 DEF NotifyCall, NotifyStep, Persist, SendEmail, NotifyReturns
<1>4. ASSUME NEW e \in Executions, Table(e) PROVE Moves
  BY <1>4 DEF Table, TableStep, LinkExpires, PurgeRow, Replicate
<1>5. ASSUME NEW c \in Clicks, Callback(c) PROVE Moves
  BY <1>5 DEF Callback, ClickStep, RefuseRequest, OpenLink, TagIgnore, SignalTooLate,
     SignalFails, MarkDecided, CallbackDies
<1>6. ASSUME NEW r \in Resources, Owner(r) PROVE Moves
  BY <1>6 DEF Owner
<1>7. CASE UNCHANGED vars
  BY <1>7
<1> QED BY <1>1, <1>2, <1>3, <1>4, <1>5, <1>6, <1>7 DEF Next

-----------------------------------------------------------------------------
(* The ignore tag. *)

\* KeepForever: what is tagged "ignore" from before a detection is neither on its
\* list nor deleted, whatever its owner and the operator do to the rest meanwhile.
THEOREM IgnoreTagIsObeyed == SafetySpec => []KeepForever
<1>1. IInv => KeepForever
  BY DEF IInv, SparedInv, RemovalInv, KeepForever
<1> QED BY <1>1, Invariance, PTL

-----------------------------------------------------------------------------
(* Refinement: the workflow is a human gate. *)

proposal == [e \in Executions |-> IF outcome[e] = "none" THEN {} ELSE manifest[e]]
gateState == <<proposal, outcome, removed>>

LEMMA InitGate == Init => Gate!GateInit
  BY DEF Init, ApprovalInit, RunInit, Gate!GateInit

\* A step that resolves the token of one waiting execution is a decision.
LEMMA ResolvingIsDeciding ==
  ASSUME IInv, NEW e \in Executions, outcome[e] = "waiting",
         NEW d \in Gate!Decision,
         outcome' = [outcome EXCEPT ![e] = d],
         UNCHANGED <<manifest, removed>>
  PROVE  Gate!Decide(e)
<1>1. \A f \in Executions : outcome'[f] = "none" <=> outcome[f] = "none"
  BY DEF IInv, TypeOK, ApprovalTypeOK, Gate!Decision
<1>2. proposal' = proposal
  BY <1>1 DEF proposal
<1> QED BY <1>2 DEF Gate!Decide, proposal

LEMMA StepGate == IInv /\ [Next]_vars => [Gate!GateNext]_gateState
<1> SUFFICES ASSUME IInv, [Next]_vars PROVE Gate!GateNext \/ UNCHANGED gateState
  BY DEF gateState
<1> DEFINE Simulated == Gate!GateNext \/ UNCHANGED gateState
<1>1. CASE UNCHANGED <<outcome, manifest, removed>>
  BY <1>1 DEF gateState, proposal
<1>2. ASSUME NEW e \in Executions, AnyZombies(e), manifest[e] # {} PROVE Simulated
  <2>1. outcome[e] = "none" /\ manifest[e] \in SUBSET Resources
    BY <1>2 DEF AnyZombies, IInv, ControlInv, TypeOK, RunTypeOK
  <2>2. PICK S \in SUBSET Resources : S = manifest[e]
    BY <2>1
  <2>3. outcome' = [outcome EXCEPT ![e] = "waiting"] /\ UNCHANGED <<manifest, removed>>
    BY <1>2 DEF AnyZombies, InvokeNotify
  <2>4. proposal' = [proposal EXCEPT ![e] = S]
    BY <2>1, <2>2, <2>3 DEF proposal, IInv, TypeOK, ApprovalTypeOK
  <2>5. Gate!Propose(e, S)
    BY <1>2, <2>1, <2>2, <2>3, <2>4 DEF Gate!Propose, proposal
  <2> QED BY <2>5 DEF Gate!GateNext
<1>3. ASSUME NEW e \in Executions, Listing(e) PROVE Simulated
  BY <1>3 DEF Listing, gateState, proposal, IInv, TypeOK, RunTypeOK
<1>4. ASSUME NEW e \in Executions, ApprovalTimesOut(e) PROVE Simulated
  BY <1>4, ResolvingIsDeciding DEF ApprovalTimesOut, Gate!GateNext, Gate!Decision
<1>5. ASSUME NEW e \in Executions, NotifyRaises(e), outcome[e] = "waiting" PROVE Simulated
  BY <1>5, ResolvingIsDeciding DEF NotifyRaises, Gate!GateNext, Gate!Decision
<1>6. ASSUME NEW c \in Clicks, SignalAccepted(c) PROVE Simulated
  <2>1. link[c].exec \in Executions /\ link[c].action \in Gate!Decision
    BY DEF IInv, TypeOK, ApprovalTypeOK, Link, ValidActions, Gate!Decision
  <2> QED BY <1>6, <2>1, ResolvingIsDeciding DEF SignalAccepted, Gate!GateNext
<1>7. ASSUME NEW e \in Executions, NEW r \in Resources, LambdaCall(e), DeleteEffective(e, r)
      PROVE  Simulated
  <2>1. outcome[e] = "approve" /\ r \in manifest[e]
    BY <1>7 DEF DeleteEffective, IInv, ControlInv, RemovalInv
  <2>2. \A f \in Executions : r \notin removed[f]
    BY <1>7 DEF DeleteEffective, Deletable, IInv, RemovalInv
  <2>3. Gate!Remove(e, r)
    BY <1>7, <2>1, <2>2 DEF LambdaCall, DeleteEffective, Gate!Remove, proposal
  <2> QED BY <2>3 DEF Gate!GateNext
<1>8. \/ UNCHANGED <<outcome, manifest, removed>>
      \/ \E e \in Executions :
            \/ AnyZombies(e) /\ manifest[e] # {}
            \/ Listing(e)
            \/ ApprovalTimesOut(e)
            \/ NotifyRaises(e) /\ outcome[e] = "waiting"
            \/ \E r \in Resources : LambdaCall(e) /\ DeleteEffective(e, r)
      \/ \E c \in Clicks : SignalAccepted(c)
  BY GateChanges
<1> QED BY <1>1, <1>2, <1>3, <1>4, <1>5, <1>6, <1>7, <1>8

\* The workflow is a human gate: one decision for each execution, taken once, and
\* deletions from its own list after it approves.
THEOREM Refinement == SafetySpec => ImplementsGateSafety
<1>1. SafetySpec => Gate!GateInit /\ [][Gate!GateNext]_gateState
  BY InitGate, StepGate, Invariance, PTL DEF SafetySpec
<1> QED BY <1>1, PTL DEF ImplementsGateSafety, Gate!GateSafety, Gate!gateVars, gateState, proposal
-----------------------------------------------------------------------------
(* Executions come to their end. *)

\* Progress!Less: no set of measures is without a least one, so that nothing goes
\* down for ever.
LEMMA LessIsWellFounded ==
  ASSUME NEW M \in SUBSET Measures, M # {}
  PROVE  \E x \in M : \A y \in M : ~Less(y, x)
<1>1. ASSUME NEW N \in SUBSET Nat, N # {} PROVE \E n \in N : \A k \in N : n <= k
  <2> DEFINE R == OpToRel(<, Nat)
  <2>1. IsWellFoundedOn(R, Nat)
    BY NatLessThanWellFounded
  <2>2. PICK n \in N : \A k \in N : ~(<<k, n>> \in R)
    <3> HIDE DEF R
    <3> QED BY <1>1, <2>1, WFMin
  <2>3. \A k \in N : ~(k < n)
    BY <2>2 DEF OpToRel
  <2> QED BY <2>3
<1>2. PICK a \in {x[1] : x \in M} : \A k \in {x[1] : x \in M} : a <= k
  <2> DEFINE N == {x[1] : x \in M}
  <2>1. N \in SUBSET Nat
    BY DEF Measures
  <2>2. N # {}
    BY DEF Measures
  <2>3. \E n \in N : \A k \in N : n <= k
    <3> HIDE DEF N
    <3> QED BY <1>1, <2>1, <2>2
  <2> QED BY <2>3
<1> DEFINE A == {x \in M : x[1] = a}
<1>3. A # {}
  OBVIOUS
<1>4. PICK b \in {x[2] : x \in A} : \A k \in {x[2] : x \in A} : b <= k
  <2> DEFINE N == {x[2] : x \in A}
  <2>1. N \in SUBSET Nat
    BY DEF Measures
  <2>2. N # {}
    BY <1>3 DEF Measures
  <2>3. \E n \in N : \A k \in N : n <= k
    <3> HIDE DEF N
    <3> QED BY <1>1, <2>1, <2>2
  <2> QED BY <2>3
<1> DEFINE B == {x \in A : x[2] = b}
<1>5. B # {}
  OBVIOUS
<1>6. PICK c \in {x[3] : x \in B} : \A k \in {x[3] : x \in B} : c <= k
  <2> DEFINE N == {x[3] : x \in B}
  <2>1. N \in SUBSET Nat
    BY DEF Measures
  <2>2. N # {}
    BY <1>5 DEF Measures
  <2>3. \E n \in N : \A k \in N : n <= k
    <3> HIDE DEF N
    <3> QED BY <1>1, <2>1, <2>2
  <2> QED BY <2>3
<1>7. PICK x \in B : x[3] = c
  BY <1>6
<1>8. ASSUME NEW y \in M, Less(y, x) PROVE FALSE
  <2>1. /\ y \in Nat \X Nat \X Nat /\ x \in Nat \X Nat \X Nat
        /\ a <= y[1] /\ x[1] = a /\ x[2] = b
    BY <1>2, <1>7 DEF Measures
  <2>2. y[1] = a
    BY <1>8, <2>1 DEF Less
  <2>3. b <= y[2]
    BY <1>4, <2>2
  <2>4. y[2] = b
    BY <1>8, <2>1, <2>2, <2>3 DEF Less
  <2>5. c <= y[3]
    BY <1>6, <2>2, <2>4
  <2> QED BY <1>7, <1>8, <2>1, <2>2, <2>4, <2>5 DEF Less
<1> QED BY <1>7, <1>8

LEMMA CallsAreMade ==
  ASSUME IInv, [Next]_vars, NEW e \in Executions,
         state[e] \in {"DetectZombies", "DeleteApproved"} => call[e] # "none"
  PROVE  (state[e] \in {"DetectZombies", "DeleteApproved"} => call[e] # "none")'
<1> USE DEF IInv, TypeOK, RunTypeOK
<1>1. ASSUME NEW g \in Executions, StartExecution(g)
      PROVE  state'[e] \in {"DetectZombies", "DeleteApproved"} => call'[e] # "none"
  BY <1>1 DEF StartExecution, InvokeDetect
<1>2. ASSUME NEW g \in Executions, StateMachineStep(g)
      PROVE  state'[e] \in {"DetectZombies", "DeleteApproved"} => call'[e] # "none"
  <2>1. CASE AnyZombies(g)
    BY <2>1 DEF AnyZombies, runVars
  <2>2. CASE ApprovalTimesOut(g) \/ DeletionEnds(g) \/ RetriesExhausted(g)
    BY <2>2 DEF ApprovalTimesOut, DeletionEnds, RetriesExhausted, runVars
  <2>3. CASE ApprovalResolved(g)
    BY <2>3 DEF ApprovalResolved, AfterCatch, InvokeRemediate, runVars
  <2>4. CASE RetryTask(g)
    BY <2>4 DEF RetryTask, InvokeDetect, InvokeRemediate
  <2> QED BY <1>2, <2>1, <2>2, <2>3, <2>4 DEF StateMachineStep
<1>3. ASSUME NEW g \in Executions, LambdaCall(g)
      PROVE  state'[e] \in {"DetectZombies", "DeleteApproved"} => call'[e] # "none"
  BY <1>3 DEF LambdaCall, LambdaStep, LookAt, DetectReturns, SkipDryRun, DeleteEffective,
              DeleteRefused, WriteLog, CallRaises
<1>4. CASE UNCHANGED <<state, call>>
  BY <1>4
<1>5. ASSUME NEW g \in Executions, NotifyCall(g) \/ Table(g) PROVE UNCHANGED <<state, call>>
  BY <1>5 DEF NotifyCall, NotifyStep, Table, TableStep, Persist, SendEmail, NotifyReturns,
              NotifyRaises, LinkExpires, PurgeRow, Replicate, runVars
<1>6. ASSUME NEW c \in Clicks, Callback(c) PROVE UNCHANGED <<state, call>>
  BY <1>6 DEF Callback, ClickStep, RefuseRequest, OpenLink, TagIgnore, SignalAccepted,
              SignalTooLate, SignalFails, MarkDecided, CallbackDies, runVars
<1>7. ASSUME NEW r \in Resources, Owner(r) PROVE UNCHANGED <<state, call>>
  BY <1>7 DEF Owner, runVars
<1>8. CASE UNCHANGED vars
  BY <1>8 DEF vars, runVars
<1> QED BY <1>1, <1>2, <1>3, <1>4, <1>5, <1>6, <1>7, <1>8 DEF Next

\* NothingIsStuck: an unended execution always has a Lambda under way, an answer to
\* react to, or a timeout to come.
THEOREM NothingGetsStuck == SafetySpec => []NothingIsStuck
<1> DEFINE Called == \A e \in Executions :
                        state[e] \in {"DetectZombies", "DeleteApproved"} => call[e] # "none"
<1>1. Init => Called
  BY DEF Init
<1>2. IInv /\ Called /\ [Next]_vars => Called'
  BY CallsAreMade
<1>3. IInv /\ Called => NothingIsStuck
  BY DEF IInv, TypeOK, RunTypeOK, ApprovalTypeOK, ControlInv, NothingIsStuck, CanGoOn, Tasks,
         NotifyEnded, Resolved, NotifyPc
<1> QED BY <1>1, <1>2, <1>3, Invariance, PTL DEF SafetySpec

\* A measure depends on nothing but the execution's own variables.
LEMMA LeftIsLocal ==
  ASSUME NEW e \in Executions,
         state'[e] = state[e], outcome'[e] = outcome[e], notify'[e] = notify[e],
         retries'[e] = retries[e], call'[e] = call[e], unread'[e] = unread[e],
         todo'[e] = todo[e]
  PROVE  Left(e)' = Left(e)
BY DEF Left, StateLeft, TokenLeft, NotifyLeft, CallLeft

LEMMA TodoIsFinite ==
  ASSUME TypeOK, NEW e \in Executions
  PROVE  /\ IsFiniteSet(todo[e]) /\ Cardinality(todo[e]) \in Nat
         /\ IsFiniteSet(unread[e]) /\ Cardinality(unread[e]) \in Nat
BY ResourcesAssumption, FS_Subset, FS_CardinalityType DEF TypeOK, RunTypeOK

\* A step of the state, the token or the notify invocation outweighs the rest.
LEMMA StageGoesDown ==
  ASSUME NEW e \in Executions,
         StateLeft(e)' = StateLeft(e) \/ StateLeft(e)' < StateLeft(e),
         TokenLeft(e)' = TokenLeft(e) \/ TokenLeft(e)' < TokenLeft(e),
         NotifyLeft(e)' = NotifyLeft(e) \/ NotifyLeft(e)' < NotifyLeft(e),
         \/ StateLeft(e)' < StateLeft(e)
         \/ TokenLeft(e)' < TokenLeft(e)
         \/ NotifyLeft(e)' < NotifyLeft(e)
  PROVE  Less(Left(e)', Left(e))
<1>1. \A x \in {StateLeft(e), StateLeft(e)', TokenLeft(e), TokenLeft(e)', NotifyLeft(e), NotifyLeft(e)'} :
         x \in 0..4
  BY DEF StateLeft, TokenLeft, NotifyLeft
<1> QED BY <1>1 DEF Left, Less

\* Within a stage a retry outweighs what the call has left to do.
LEMMA RetryGoesDown ==
  ASSUME TypeOK, NEW e \in Executions, RetryTask(e)
  PROVE  Less(Left(e)', Left(e))
<1>1. /\ state' = state /\ outcome' = outcome /\ notify' = notify
      /\ retries'[e] = retries[e] + 1 /\ retries[e] \in Nat /\ retries[e] < MaxAttempts
  BY MaxAttemptsAssumption DEF RetryTask, approvalVars, TypeOK
<1>2. StateLeft(e)' = StateLeft(e) /\ TokenLeft(e)' = TokenLeft(e) /\ NotifyLeft(e)' = NotifyLeft(e)
  BY <1>1 DEF StateLeft, TokenLeft, NotifyLeft
<1>3. MaxAttempts - retries'[e] < MaxAttempts - retries[e]
  BY <1>1, MaxAttemptsAssumption
<1> QED BY <1>2, <1>3 DEF Left, Less

\* Within a try every step of the Lambda visits a resource or ends the call.
LEMMA CallGoesDown ==
  ASSUME TypeOK, NEW e \in Executions, LambdaCall(e)
  PROVE  Less(Left(e)', Left(e))
<1>1. UNCHANGED <<state, outcome, notify, retries>>
  BY DEF LambdaCall, approvalVars
<1>2. /\ StateLeft(e)' = StateLeft(e) /\ TokenLeft(e)' = TokenLeft(e)
      /\ NotifyLeft(e)' = NotifyLeft(e) /\ retries'[e] = retries[e]
  BY <1>1 DEF StateLeft, TokenLeft, NotifyLeft
<1> DEFINE unseen == Cardinality(unread[e])
           size == Cardinality(todo[e])
<1>3. unseen \in Nat /\ size \in Nat
  BY TodoIsFinite
<1>4. Cardinality(unread'[e]) + Cardinality(todo'[e]) + CallLeft(e)' < unseen + size + CallLeft(e)
  <2> DEFINE Fewer == Cardinality(unread'[e]) + Cardinality(todo'[e]) + CallLeft(e)'
                        < unseen + size + CallLeft(e)
  <2>1. ASSUME NEW r \in Resources, SkipDryRun(e, r) \/ DeleteEffective(e, r) \/ DeleteRefused(e, r)
        PROVE  Fewer
    <3>1. /\ r \in todo[e] /\ todo'[e] = todo[e] \ {r} /\ UNCHANGED <<call, unread>>
      BY <2>1 DEF SkipDryRun, DeleteEffective, DeleteRefused, Visited, TypeOK, RunTypeOK
    <3>2. Cardinality(todo'[e]) = size - 1
      BY <3>1, TodoIsFinite, FS_RemoveElement
    <3>3. CallLeft(e)' = CallLeft(e) /\ CallLeft(e) \in {0, 1}
      BY <3>1 DEF CallLeft
    <3> QED BY <1>3, <3>1, <3>2, <3>3
  <2>2. ASSUME NEW r \in Resources, LookAt(e, r) PROVE Fewer
    <3>1. /\ r \in unread[e] /\ unread'[e] = unread[e] \ {r} /\ UNCHANGED <<call, todo>>
      BY <2>2 DEF LookAt, TypeOK, RunTypeOK
    <3>2. Cardinality(unread'[e]) = unseen - 1
      BY <3>1, TodoIsFinite, FS_RemoveElement
    <3>3. CallLeft(e)' = CallLeft(e) /\ CallLeft(e) \in {0, 1}
      BY <3>1 DEF CallLeft
    <3> QED BY <1>3, <3>1, <3>2, <3>3
  <2>3. ASSUME DetectReturns(e) \/ WriteLog(e) PROVE Fewer
    <3>1. UNCHANGED <<unread, todo>> /\ CallLeft(e) = 1 /\ CallLeft(e)' = 0
      BY <2>3 DEF DetectReturns, WriteLog, CallLeft, TypeOK, RunTypeOK
    <3> QED BY <1>3, <3>1
  <2>4. ASSUME CallRaises(e) PROVE Fewer
    <3>1. todo' = todo /\ unread'[e] = {} /\ CallLeft(e) = 1 /\ CallLeft(e)' = 0
      BY <2>4 DEF CallRaises, CallLeft, TypeOK, RunTypeOK
    <3>2. Cardinality(unread'[e]) = 0
      BY <3>1, FS_EmptySet
    <3> QED BY <1>3, <3>1, <3>2
  <2> QED BY <2>1, <2>2, <2>3, <2>4 DEF LambdaCall, LambdaStep
<1> QED BY <1>2, <1>4 DEF Left, Less

LEMMA OwnStepGoesDown ==
  ASSUME IInv, NEW e \in Executions, OwnStep(e)
  PROVE  Less(Left(e)', Left(e))
<1> USE DEF IInv, TypeOK, ApprovalTypeOK
<1>1. CASE StartExecution(e)
  <2>1. StateLeft(e)' < StateLeft(e) /\ UNCHANGED <<outcome, notify>>
    BY <1>1 DEF StartExecution, StateLeft, approvalVars
  <2> QED BY <2>1, StageGoesDown DEF TokenLeft, NotifyLeft
<1>2. CASE AnyZombies(e)
  <2>1. outcome[e] = "none" /\ notify[e] = "none"
    BY <1>2 DEF AnyZombies, ControlInv
  <2>2. StateLeft(e)' < StateLeft(e)
    BY <1>2 DEF AnyZombies, StateLeft
  <2>3. /\ TokenLeft(e)' = TokenLeft(e) \/ TokenLeft(e)' < TokenLeft(e)
        /\ NotifyLeft(e)' = NotifyLeft(e) \/ NotifyLeft(e)' < NotifyLeft(e)
    BY <1>2, <2>1 DEF AnyZombies, InvokeNotify, approvalVars, TokenLeft, NotifyLeft
  <2> QED BY <2>2, <2>3, StageGoesDown
<1>3. CASE ApprovalTimesOut(e)
  <2>1. TokenLeft(e)' < TokenLeft(e) /\ UNCHANGED <<state, notify>>
    BY <1>3 DEF ApprovalTimesOut, TokenLeft, tableVars
  <2> QED BY <2>1, StageGoesDown DEF StateLeft, NotifyLeft
<1>4. CASE ApprovalResolved(e) \/ DeletionEnds(e) \/ RetriesExhausted(e)
  <2>1. StateLeft(e)' < StateLeft(e) /\ UNCHANGED <<outcome, notify>>
    BY <1>4 DEF ApprovalResolved, DeletionEnds, RetriesExhausted, AfterCatch, StateLeft, approvalVars
  <2> QED BY <2>1, StageGoesDown DEF TokenLeft, NotifyLeft
<1>5. CASE RetryTask(e)
  BY <1>5, RetryGoesDown
<1>6. CASE LambdaCall(e)
  BY <1>6, CallGoesDown
<1>7. CASE NotifyCall(e)
  <2>1. NotifyLeft(e)' < NotifyLeft(e)
    BY <1>7 DEF NotifyCall, NotifyStep, Persist, SendEmail, NotifyReturns, NotifyRaises, NotifyLeft
  <2>2. (TokenLeft(e)' = TokenLeft(e) \/ TokenLeft(e)' < TokenLeft(e)) /\ state' = state
    BY <1>7 DEF NotifyCall, NotifyStep, Persist, SendEmail, NotifyReturns, NotifyRaises, TokenLeft
  <2> QED BY <2>1, <2>2, StageGoesDown DEF StateLeft
<1> QED BY <1>1, <1>2, <1>3, <1>4, <1>5, <1>6, <1>7 DEF OwnStep, StateMachineStep

\* No step of another execution, of the table, of a click or of an owner.
LEMMA OthersSetNothingBack ==
  ASSUME IInv, [Next]_vars, NEW e \in Executions, ~OwnStep(e)
  PROVE  AtMost(Left(e)', Left(e))
<1> USE DEF IInv, TypeOK, ApprovalTypeOK, RunTypeOK
<1>1. ASSUME NEW g \in Executions \ {e}, OwnStep(g) PROVE Left(e)' = Left(e)
  <2>1. CASE StartExecution(g)
    BY <1>1, <2>1, LeftIsLocal DEF StartExecution, InvokeDetect, approvalVars
  <2>2. CASE StateMachineStep(g)
    <3>1. CASE AnyZombies(g)
      BY <1>1, <3>1, LeftIsLocal DEF AnyZombies, InvokeNotify, approvalVars, runVars
    <3>2. CASE ApprovalTimesOut(g)
      BY <1>1, <3>2, LeftIsLocal DEF ApprovalTimesOut, tableVars, runVars
    <3>3. CASE ApprovalResolved(g)
      BY <1>1, <3>3, LeftIsLocal DEF ApprovalResolved, AfterCatch, InvokeRemediate, approvalVars, runVars
    <3>4. CASE DeletionEnds(g) \/ RetriesExhausted(g)
      BY <1>1, <3>4, LeftIsLocal DEF DeletionEnds, RetriesExhausted, approvalVars, runVars
    <3>5. CASE RetryTask(g)
      BY <1>1, <3>5, LeftIsLocal DEF RetryTask, InvokeDetect, InvokeRemediate, approvalVars
    <3> QED BY <2>2, <3>1, <3>2, <3>3, <3>4, <3>5 DEF StateMachineStep
  <2>3. CASE LambdaCall(g)
    BY <1>1, <2>3, LeftIsLocal DEF LambdaCall, LambdaStep, LookAt, DetectReturns, SkipDryRun,
       DeleteEffective, DeleteRefused, WriteLog, CallRaises, Visited, approvalVars
  <2>4. CASE NotifyCall(g)
    BY <1>1, <2>4, LeftIsLocal DEF NotifyCall, NotifyStep, Persist, SendEmail, NotifyReturns,
       NotifyRaises, runVars
  <2> QED BY <1>1, <2>1, <2>2, <2>3, <2>4 DEF OwnStep
<1>2. ASSUME NEW g \in Executions, Table(g) PROVE Left(e)' = Left(e)
  BY <1>2, LeftIsLocal DEF Table, TableStep, LinkExpires, PurgeRow, Replicate, runVars
<1>3. ASSUME NEW c \in Clicks, SignalAccepted(c), Callback(c) PROVE AtMost(Left(e)', Left(e))
  <2>1. /\ UNCHANGED <<state, notify, retries, call, unread, todo>>
        /\ outcome[link[c].exec] = "waiting" /\ link[c].exec \in Executions
        /\ outcome' = [outcome EXCEPT ![link[c].exec] = link[c].action]
        /\ link[c].action \in ValidActions
    BY <1>3 DEF SignalAccepted, Callback, tableVars, runVars, Link
  <2>2. CASE link[c].exec = e
    <3>1. TokenLeft(e)' < TokenLeft(e)
      BY <2>1, <2>2 DEF TokenLeft, ValidActions
    <3> QED BY <2>1, <3>1, StageGoesDown DEF StateLeft, NotifyLeft, AtMost
  <2>3. CASE link[c].exec # e
    BY <2>1, <2>3, LeftIsLocal DEF AtMost
  <2> QED BY <2>2, <2>3
<1>4. ASSUME NEW c \in Clicks, ~SignalAccepted(c), Callback(c) PROVE Left(e)' = Left(e)
  BY <1>4, LeftIsLocal DEF Callback, ClickStep, RefuseRequest, OpenLink, TagIgnore,
     SignalTooLate, SignalFails, MarkDecided, CallbackDies, tableVars, runVars
<1>5. ASSUME NEW r \in Resources, Owner(r) PROVE Left(e)' = Left(e)
  BY <1>5, LeftIsLocal DEF Owner, approvalVars, runVars
<1>6. CASE UNCHANGED vars
  BY <1>6, LeftIsLocal DEF vars, approvalVars, runVars, AtMost
<1> QED BY <1>1, <1>2, <1>3, <1>4, <1>5, <1>6 DEF Next, OwnStep, AtMost

\* StepsGoForward: each step made for an execution lowers its measure, whoever else
\* is at work, and with LessIsWellFounded and NothingGetsStuck it has to end once
\* it is allowed to take its steps.
THEOREM EveryStepIsProgress == SafetySpec => StepsGoForward
<1> DEFINE Forward == \A e \in Executions :
              /\ OwnStep(e) => Less(Left(e)', Left(e))
              /\ AtMost(Left(e)', Left(e))
<1>1. IInv /\ [Next]_vars => [Forward]_vars
  BY OwnStepGoesDown, OthersSetNothingBack DEF AtMost
<1> QED BY <1>1, Invariance, PTL DEF SafetySpec, StepsGoForward

=============================================================================
