---------------------------- MODULE ApprovalLambda ----------------------------
(***************************************************************************)
(* The remediation_approval Lambda and its approvals table.  Invoked by    *)
(* the state machine it stores the task token and emails three signed      *)
(* links (notify); invoked through the HTTP API by a click on a link it    *)
(* resolves the token (callback).  Every invocation is a process of its    *)
(* own, the table is read with eventual consistency, and every call to     *)
(* DynamoDB, Step Functions or EC2 can fail or lose its answer.            *)
(***************************************************************************)
EXTENDS CleanupLambda

CONSTANT Clicks     \* invocations of the callback, by whoever has the email

VARIABLES
    outcome,    \* outcome[e]: the task token of e, as Step Functions holds it
    notify,     \* notify[e]: where the notify invocation of e is
    row,        \* row[e]: the approvals item of e
    replica,    \* replica[e]: an older version a read may still return
    expired,    \* expired[e]: the signed expiry of the links of e has passed
    pc,         \* pc[c]: where callback c is, or the page it answered
    link        \* link[c]: the link that c carries

tableVars == <<notify, row, replica, expired>>
clickVars == <<pc, link>>
approvalVars == <<outcome, notify, row, replica, expired, pc, link>>

ValidActions == {"approve", "reject", "ignore"}
Outcome == {"none", "waiting", "timeout", "error"} \cup ValidActions
NotifyPc == {"none", "invoked", "persisted", "emailed", "returned", "raised", "raisedMailed"}
RowStatus == {"ABSENT", "PENDING", "APPROVED", "REJECTED", "IGNORED", "EXPIRED"}

\* ttl: the item has an expires_at attribute.
Item == [status : RowStatus, ttl : BOOLEAN]
NoItem == [status |-> "ABSENT", ttl |-> FALSE]

Running == {"opened", "toSignal", "accepted", "movedOn"}
Page == {"BadRequest", "LinkExpired", "NotFound", "AlreadyDecided", "MovedOn",
         "SignalFailed", "Decided", "Crashed"}

Link == [exec : Executions, action : ValidActions]

ApprovalTypeOK ==
    /\ outcome \in [Executions -> Outcome]
    /\ notify \in [Executions -> NotifyPc]
    /\ row \in [Executions -> Item]
    /\ replica \in [Executions -> Item]
    /\ expired \in [Executions -> BOOLEAN]
    /\ pc \in [Clicks -> {"idle"} \cup Running \cup Page]
    /\ link \in [Clicks -> Link]

\* link is chosen once: which links will be clicked is not the program's choice.
ApprovalInit ==
    /\ outcome = [e \in Executions |-> "none"]
    /\ notify = [e \in Executions |-> "none"]
    /\ row = [e \in Executions |-> NoItem]
    /\ replica = [e \in Executions |-> NoItem]
    /\ expired = [e \in Executions |-> FALSE]
    /\ pc = [c \in Clicks |-> "idle"]
    /\ link \in [Clicks -> Link]

Mailed(e) == notify[e] \in {"emailed", "returned", "raisedMailed"}
NotifyEnded(e) == notify[e] \in {"returned", "raised", "raisedMailed"}

-----------------------------------------------------------------------------
(* Notify. *)

\* Step Functions enters a waitForTaskToken task: a token, an invocation.
InvokeNotify(e) ==
    /\ outcome' = [outcome EXCEPT ![e] = "waiting"]
    /\ notify' = [notify EXCEPT ![e] = "invoked"]
    /\ UNCHANGED <<row, replica, expired, clickVars>>

\* Mutant: a failed put_item is swallowed, as failures are elsewhere.
MutantPersistBestEffort(e) ==
    /\ notify[e] = "invoked"
    /\ row' \in {row, [row EXCEPT ![e] = [status |-> "PENDING", ttl |-> TRUE]]}
    /\ notify' = [notify EXCEPT ![e] = "persisted"]
    /\ UNCHANGED <<outcome, replica, expired, clickVars, runVars, cloudVars>>

Persist(e) ==
    /\ notify[e] = "invoked"
    /\ row' = [row EXCEPT ![e] = [status |-> "PENDING", ttl |-> TRUE]]
    /\ notify' = [notify EXCEPT ![e] = "persisted"]
    /\ UNCHANGED <<outcome, replica, expired, clickVars, runVars, cloudVars>>

\* From here on the links are in the operator's inbox.
SendEmail(e) ==
    /\ notify[e] = "persisted"
    /\ notify' = [notify EXCEPT ![e] = "emailed"]
    /\ UNCHANGED <<outcome, row, replica, expired, clickVars, runVars, cloudVars>>

NotifyReturns(e) ==
    /\ notify[e] = "emailed"
    /\ notify' = [notify EXCEPT ![e] = "returned"]
    /\ UNCHANGED <<outcome, row, replica, expired, clickVars, runVars, cloudVars>>

\* DynamoDB, SSM or SES fails, or the Lambda dies.  The call under way may have
\* taken effect.  The task fails if it is still waiting.
NotifyRaises(e) ==
    /\ notify[e] \in {"invoked", "persisted", "emailed"}
    /\ \/ notify[e] \in {"invoked", "persisted"}
          /\ notify' = [notify EXCEPT ![e] = "raised"]
          /\ \/ UNCHANGED row
             \/ /\ notify[e] = "invoked"
                /\ row' = [row EXCEPT ![e] = [status |-> "PENDING", ttl |-> TRUE]]
       \/ notify[e] \in {"persisted", "emailed"}
          /\ notify' = [notify EXCEPT ![e] = "raisedMailed"]
          /\ UNCHANGED row
    /\ outcome' = IF outcome[e] = "waiting"
                    THEN [outcome EXCEPT ![e] = "error"] ELSE outcome
    /\ UNCHANGED <<replica, expired, clickVars, runVars, cloudVars>>

-----------------------------------------------------------------------------
(* The approvals table and the clock. *)

\* exp = now + APPROVAL_TTL_SECONDS.  The Lambda ends long before; whether the
\* link or the task times out first depends on two settings.
LinkExpires(e) ==
    /\ NotifyEnded(e) /\ ~expired[e]
    /\ expired' = [expired EXCEPT ![e] = TRUE]
    /\ UNCHANGED <<outcome, notify, row, replica, clickVars, runVars, cloudVars>>

\* DynamoDB removes an item some time after its expires_at.
PurgeRow(e) ==
    /\ expired[e] /\ row[e].ttl
    /\ row' = [row EXCEPT ![e] = NoItem]
    /\ UNCHANGED <<outcome, notify, replica, expired, clickVars, runVars, cloudVars>>

\* The lagging copy catches up with the item.
Replicate(e) ==
    /\ replica[e] # row[e]
    /\ replica' = [replica EXCEPT ![e] = row[e]]
    /\ UNCHANGED <<outcome, notify, row, expired, clickVars, runVars, cloudVars>>

-----------------------------------------------------------------------------
(* Callback. *)

\* A link whose action, parameters, expiry or signature does not check out:
\* 404, 400 or 403 before anything is read.
RefuseRequest(c) ==
    /\ pc[c] = "idle"
    /\ pc' = [pc EXCEPT ![c] = "BadRequest"]
    /\ UNCHANGED <<outcome, tableVars, link, runVars, cloudVars>>

\* The page or the next step that a row status, as read, leads to.
AfterRead(status, action) ==
    CASE status = "ABSENT" -> "NotFound"
      [] status = "PENDING" /\ action = "ignore" -> "opened"
      [] status = "PENDING" /\ action # "ignore" -> "toSignal"
      [] OTHER -> "AlreadyDecided"

\* A genuine link: expiry check, then an eventually consistent get_item.
OpenLink(c) ==
    LET e == link[c].exec IN
    /\ pc[c] = "idle" /\ Mailed(e)
    /\ \/ /\ expired[e]
          /\ pc' = [pc EXCEPT ![c] = "LinkExpired"]
       \/ /\ ~expired[e]
          /\ \E item \in {row[e], replica[e]} :
                pc' = [pc EXCEPT ![c] = AfterRead(item.status, link[c].action)]
    /\ UNCHANGED <<outcome, tableVars, link, runVars, cloudVars>>

\* Ignore only, before the token is resolved.  create_tags is all or nothing,
\* refuses a list that names a deleted resource, and its failure is swallowed.
TagIgnore(c) ==
    LET listed == manifest[link[c].exec] IN
    /\ pc[c] = "opened"
    /\ \/ /\ \A r \in listed : ec2[r] # "deleted"
          /\ tag' = [r \in Resources |-> IF r \in listed THEN "ignore" ELSE tag[r]]
       \/ UNCHANGED tag
    /\ pc' = [pc EXCEPT ![c] = "toSignal"]
    /\ UNCHANGED <<outcome, tableVars, link, ec2, runVars>>

\* Mutant: Ignore falls into the else branch and is sent as a rejection.
MutantIgnoreAsReject(c) ==
    LET e == link[c].exec IN
    /\ pc[c] = "toSignal" /\ outcome[e] = "waiting"
    /\ outcome' = [outcome EXCEPT ![e] =
                      IF link[c].action = "approve" THEN "approve" ELSE "reject"]
    /\ \E next \in {"accepted", "movedOn", "Crashed"} : pc' = [pc EXCEPT ![c] = next]
    /\ UNCHANGED <<tableVars, link, runVars, cloudVars>>

\* Mutant: one token for all executions that wait.
MutantSharedToken(c) ==
    /\ pc[c] = "toSignal" /\ outcome[link[c].exec] = "waiting"
    /\ outcome' = [e \in Executions |->
                      IF outcome[e] = "waiting" THEN link[c].action ELSE outcome[e]]
    /\ \E next \in {"accepted", "movedOn", "Crashed"} : pc' = [pc EXCEPT ![c] = next]
    /\ UNCHANGED <<tableVars, link, runVars, cloudVars>>

\* The token is open: Step Functions takes the decision.  When the answer is
\* lost the SDK's own retry is told that the task is gone, or the call raises.
SignalAccepted(c) ==
    LET e == link[c].exec IN
    /\ pc[c] = "toSignal" /\ outcome[e] = "waiting"
    /\ outcome' = [outcome EXCEPT ![e] = link[c].action]
    /\ \E next \in {"accepted", "movedOn", "Crashed"} : pc' = [pc EXCEPT ![c] = next]
    /\ UNCHANGED <<tableVars, link, runVars, cloudVars>>

\* Mutant: the error of a late call is ignored and the click goes on as usual.
MutantLateIsAccepted(c) ==
    /\ pc[c] = "toSignal" /\ outcome[link[c].exec] # "waiting"
    /\ pc' = [pc EXCEPT ![c] = "accepted"]
    /\ UNCHANGED <<outcome, tableVars, link, runVars, cloudVars>>

\* Mutant: the last click wins.
MutantLastClickWins(c) ==
    /\ pc[c] = "toSignal" /\ outcome[link[c].exec] # "waiting"
    /\ outcome' = [outcome EXCEPT ![link[c].exec] = link[c].action]
    /\ pc' = [pc EXCEPT ![c] = "accepted"]
    /\ UNCHANGED <<tableVars, link, runVars, cloudVars>>

\* TaskTimedOut or TaskDoesNotExist.
SignalTooLate(c) ==
    /\ pc[c] = "toSignal" /\ outcome[link[c].exec] # "waiting"
    /\ pc' = [pc EXCEPT ![c] = "movedOn"]
    /\ UNCHANGED <<outcome, tableVars, link, runVars, cloudVars>>

\* Mutant: every error of the call is taken for a task that has moved on.
MutantAnyErrorIsTerminal(c) ==
    /\ pc[c] = "toSignal"
    /\ pc' = [pc EXCEPT ![c] = "movedOn"]
    /\ UNCHANGED <<outcome, tableVars, link, runVars, cloudVars>>

\* Any other ClientError: 500, and the row is left alone.
SignalFails(c) ==
    /\ pc[c] = "toSignal"
    /\ pc' = [pc EXCEPT ![c] = "SignalFailed"]
    /\ UNCHANGED <<outcome, tableVars, link, runVars, cloudVars>>

\* The status that _mark_decided is called with.
NewStatus(c) ==
    CASE link[c].action = "ignore" -> "IGNORED"
      [] link[c].action = "approve" /\ pc[c] = "accepted" -> "APPROVED"
      [] link[c].action = "reject" /\ pc[c] = "accepted" -> "REJECTED"
      [] OTHER -> "EXPIRED"

\* An unconditional update_item whose failure is swallowed.  On an item that
\* TTL has purged it creates one without expires_at.  Then the page.
MarkDecided(c) ==
    LET e == link[c].exec IN
    /\ pc[c] \in {"accepted", "movedOn"}
    /\ \/ row' = [row EXCEPT ![e].status = NewStatus(c)]
       \/ UNCHANGED row
    /\ pc' = [pc EXCEPT ![c] = IF pc[c] = "accepted" THEN "Decided" ELSE "MovedOn"]
    /\ UNCHANGED <<outcome, notify, replica, expired, link, runVars, cloudVars>>

\* The invocation times out or raises between two calls.
CallbackDies(c) ==
    /\ pc[c] \in Running
    /\ pc' = [pc EXCEPT ![c] = "Crashed"]
    /\ UNCHANGED <<outcome, tableVars, link, runVars, cloudVars>>

NotifyStep(e) == Persist(e) \/ SendEmail(e) \/ NotifyReturns(e) \/ NotifyRaises(e)
TableStep(e) == LinkExpires(e) \/ PurgeRow(e) \/ Replicate(e)
ClickStep(c) ==
    \/ RefuseRequest(c) \/ OpenLink(c)
    \/ TagIgnore(c)
    \/ SignalAccepted(c) \/ SignalTooLate(c) \/ SignalFails(c)
    \/ MarkDecided(c)
    \/ CallbackDies(c)
=============================================================================
