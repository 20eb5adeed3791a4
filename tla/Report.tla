--------------------------------- MODULE Report ---------------------------------
(***************************************************************************)
(* The report Lambda, report_generator/handler.py: it pages through the    *)
(* findings table while scanners go on writing to it, stores what it has   *)
(* read as an object, and then mails and publishes a link to the object.   *)
(* Nothing is locked, the scan is eventually consistent, the two sends are *)
(* best effort, Lambda invokes a report that raised again, and an event    *)
(* may be delivered twice.  The reports here are of one window; the clock  *)
(* of Findings counts seconds, which is what an object's key is made of.   *)
(***************************************************************************)
EXTENDS Findings

CONSTANTS
    Reports,        \* deliveries of the events of one schedule, duplicates too
    MaxRetries      \* retries of an asynchronous invocation

ASSUME MaxRetriesAssumption == MaxRetries \in Nat
\* 90 days, 1 or 7 days, and 5 or 10 minutes.
ASSUME ReportTimesAssumption == /\ Lifetime <= Window
                                /\ Window + 2 * Lifetime <= TTL

VARIABLES
    run,        \* run[r]: the last invocation for report r
    bucket,     \* bucket[k]: the object whose key has the second k in it
    sent        \* messages that mail and topic have accepted

reportVars == <<run, bucket, sent>>

Tries == 0..MaxRetries
\* Who stored the object (nobody, if there is none), what it owes and lists.
Object == [by : SUBSET Reports, due : SUBSET FindingIds, lists : SUBSET FindingIds]
NoObject == [by |-> {}, due |-> {}, lists |-> {}]

Invocation == [pc : {"scheduled", "scanning", "rendered", "uploaded", "emailed", "done",
                     "raised"},
               started : Times, due : SUBSET FindingIds, unread : SUBSET FindingIds,
               listed : SUBSET FindingIds, at : Times, try : Tries]

\* A mail or a notification: a link to the object under key, and its numbers.
Message == [report : Reports, key : Times, tells : SUBSET FindingIds]

ReportTypeOK ==
    /\ TypeOK
    /\ run \in [Reports -> Invocation]
    /\ bucket \in [Times -> Object]
    /\ sent \subseteq Message

ReportInit ==
    /\ Init
    /\ run = [r \in Reports |-> [pc |-> "scheduled", started |-> 0, due |-> {},
                                 unread |-> {}, listed |-> {}, at |-> 0, try |-> 0]]
    /\ bucket = [k \in Times |-> NoObject]
    /\ sent = {}

Active(r) == run[r].pc \in {"scanning", "rendered", "uploaded", "emailed"}

\* What a report that starts now owes its reader (history): the findings that
\* have been upserted with a stamp in the window and have reached every copy.
\* The margin is that of ReportIsComplete.
Owed ==
    {f \in FindingIds : /\ replica[f] = rows[f]
                        /\ \E w \in Writers : /\ f \in found[w] \ todo[w]
                                              /\ stamp[w] + Window >= now + Lifetime}

-----------------------------------------------------------------------------
(* The handler. *)

\* The cutoff is Window before the start of this invocation.
Begin(r, n) ==
    run' = [run EXCEPT ![r] = [pc |-> "scanning", started |-> now, due |-> Owed,
                               unread |-> FindingIds, listed |-> {}, at |-> now, try |-> n]]

InvokeReport(r) ==
    /\ run[r].pc = "scheduled"
    /\ Begin(r, 0)
    /\ UNCHANGED <<vars, bucket, sent>>

\* Lambda waits a minute before it invokes a function again.
RetryReport(r) ==
    /\ run[r].pc = "raised" /\ run[r].try < MaxRetries
    /\ now > run[r].at
    /\ Begin(r, run[r].try + 1)
    /\ UNCHANGED <<vars, bucket, sent>>

\* Mutant: only timestamp is compared, which is the first sight.
MutantFirstSeenOnly(started, items) ==
    \E t \in Keys(items) : t + Window >= started

\* Mutant: no filter.
MutantNoFilter(started, items) == Keys(items) # {}

\* last_seen or timestamp is not before the cutoff.
Selects(started, items) ==
    \E t \in Keys(items) : items[t].last + Window >= started \/ t + Window >= started

\* One page of the scan, from whichever copy answers.
ReadPage(r, f) ==
    /\ run[r].pc = "scanning" /\ f \in run[r].unread
    /\ \E items \in {rows[f], replica[f]} :
          run' = [run EXCEPT ![r].unread = @ \ {f},
                             ![r].listed = IF Selects(run[r].started, items)
                                             THEN @ \cup {f} ELSE @]
    /\ UNCHANGED <<vars, bucket, sent>>

\* generated_at is taken when no LastEvaluatedKey is left, and the page built.
Render(r) ==
    /\ run[r].pc = "scanning" /\ run[r].unread = {}
    /\ run' = [run EXCEPT ![r].pc = "rendered", ![r].at = now]
    /\ UNCHANGED <<vars, bucket, sent>>

\* Mutant: the key has the day only.
MutantKeyOfTheDay(r) == 0

\* _build_s3_key: window and second.
KeyOf(r) == run[r].at

\* put_object replaces what is there.
PutObject(r) ==
    bucket' = [bucket EXCEPT ![KeyOf(r)] =
                  [by |-> {r}, due |-> run[r].due, lists |-> run[r].listed]]

Upload(r) ==
    /\ run[r].pc = "rendered"
    /\ PutObject(r)
    /\ run' = [run EXCEPT ![r].pc = "uploaded"]
    /\ UNCHANGED <<vars, sent>>

\* A send that is refused is logged and forgotten.
Send(r) ==
    \/ UNCHANGED sent
    \/ sent' = sent \cup {[report |-> r, key |-> KeyOf(r), tells |-> run[r].listed]}

SendEmail(r) ==
    /\ run[r].pc = "uploaded"
    /\ Send(r)
    /\ run' = [run EXCEPT ![r].pc = "emailed"]
    /\ UNCHANGED <<vars, bucket>>

PublishSns(r) ==
    /\ run[r].pc = "emailed"
    /\ Send(r)
    /\ run' = [run EXCEPT ![r].pc = "done"]
    /\ UNCHANGED <<vars, bucket>>

\* A scan or the upload raises, or the invocation times out.  The upload or a
\* send may have been accepted by then although the handler never learned of it.
ReportRaises(r) ==
    /\ Active(r)
    /\ \/ UNCHANGED <<bucket, sent>>
       \/ run[r].pc = "rendered" /\ PutObject(r) /\ UNCHANGED sent
       \/ run[r].pc \in {"uploaded", "emailed"} /\ Send(r) /\ UNCHANGED bucket
    /\ run' = [run EXCEPT ![r] = [@ EXCEPT !.pc = "raised", !.due = {}, !.unread = {},
                                           !.listed = {}]]
    /\ UNCHANGED vars

HandlerStep(r) ==
    \/ \E f \in FindingIds : ReadPage(r, f)
    \/ Render(r) \/ Upload(r) \/ SendEmail(r) \/ PublishSns(r)
    \/ ReportRaises(r)

\* Scanners, DynamoDB and the clock; no report outlives its timeout.
ScannersStep ==
    /\ Next
    /\ now' # now => \A r \in Reports : Active(r) => now < run[r].started + Lifetime
    /\ UNCHANGED reportVars

ReportNext ==
    \/ \E r \in Reports : InvokeReport(r) \/ RetryReport(r) \/ HandlerStep(r)
    \/ ScannersStep

ReportSpec == ReportInit /\ [][ReportNext]_<<vars, reportVars>>

-----------------------------------------------------------------------------
(* Properties. *)

Seen(started, margin, items) == \E t \in Keys(items) : items[t].last + margin >= started

\* A stored report has everything it owes, although the scanners changed last
\* seen times under its scan, forwards and backwards, a lagging copy may have
\* answered any page, and rows expired meanwhile.
ReportMissesNothing ==
    \A k \in Times : bucket[k].due \subseteq bucket[k].lists

\* While the report is made, what it lists is in the table, seen in the window
\* or less than a Lambda timeout before it: no page of a lagging copy brings
\* back a finding that has aged out or expired.
NoFindingIsStale ==
    \A r \in Reports : Active(r) =>
        \A f \in run[r].listed : Seen(run[r].started, Window + Lifetime, rows[f])

\* As long as it works, a link that was mailed or published leads to a report:
\* to the one whose numbers came with it, unless another delivery, whose page
\* was built in the same second, has put its own there.  No later try of the
\* same report takes its place.
MessagesMatchReports ==
    \A m \in sent : /\ bucket[m.key].by # {}
                    /\ m.report \in bucket[m.key].by => bucket[m.key].lists = m.tells

-----------------------------------------------------------------------------
(* The inductive invariant. *)

\* What is owed and not yet listed is still to be read, and any copy shows it.
ScanOf(r) ==
    /\ run[r].pc = "scheduled" => run[r].try = 0
    /\ Active(r) => run[r].started <= now /\ now <= run[r].started + Lifetime
    /\ run[r].pc = "scanning" => \A f \in run[r].due \ run[r].listed :
          /\ f \in run[r].unread
          /\ Seen(run[r].started, Window, rows[f])
          /\ Seen(run[r].started, Window, replica[f])
    /\ run[r].pc \in {"rendered", "uploaded", "emailed"} => run[r].due \subseteq run[r].listed

ScanInv == \A r \in Reports : ScanOf(r)

\* The object of a report that is about to send is there, if no other's.
ObjectOf(r) == run[r].pc \in {"uploaded", "emailed"} =>
    /\ bucket[run[r].at].by # {}
    /\ r \in bucket[run[r].at].by => bucket[run[r].at].lists = run[r].listed

\* A message has its object, and no later try will have its key.
MessageOf(m) ==
    /\ m.key <= run[m.report].at
    /\ run[m.report].pc # "scheduled"
    /\ run[m.report].pc \in {"scanning", "rendered"} => m.key < run[m.report].at

DeliveryInv ==
    /\ \A r \in Reports : run[r].at <= now /\ ObjectOf(r)
    /\ \A m \in sent : MessageOf(m)
    /\ ReportMissesNothing
    /\ MessagesMatchReports

ReportInv == ReportTypeOK /\ CopyInv /\ ScanInv /\ NoFindingIsStale /\ DeliveryInv
=============================================================================
