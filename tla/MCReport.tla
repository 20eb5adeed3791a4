------------------------------- MODULE MCReport -------------------------------
(***************************************************************************)
(* Report for TLC: a delivery with its retry, and a duplicate of it.       *)
(***************************************************************************)
EXTENDS Report, TLC

CONSTANTS Daily, Duplicate

DailyAndDuplicate == {Daily, Duplicate}

Symmetry == Permutations(Writers)

\* Every scanner may report every finding.
EmitsAll == [w \in Writers |-> FindingIds]

\* Each scanner is invoked once.
ScannersBounded ==
    \A w \in Writers : stage'[w] = "detecting" => stage[w] \in {"idle", "detecting"}

\* The duplicate comes when the first delivery has built its page, in the second
\* in which that began, does not fail and ends in it (in another second it has
\* another key).  There is a retry or a duplicate, not both.
DuplicateBounded ==
    /\ run[Duplicate].pc = "scheduled" /\ run'[Duplicate].pc # "scheduled" =>
          run[Daily].pc = "rendered" /\ run[Daily].started = now
    /\ run'[Duplicate].pc # "raised"
    /\ run'[Daily].try = 0 \/ run'[Duplicate].pc = "scheduled"
    /\ run[Duplicate].pc # "scheduled" => now' = now

\* Before and beside a retry, and beside a duplicate, no scanner runs: copies and
\* the TTL make the second page another.
ScannersRest ==
    run'[Daily].try > 0 \/ run'[Daily].pc = "raised" \/ run'[Duplicate].pc # "scheduled" =>
        \A w \in Writers : ~Running(w) /\ ~Running(w)'

\* A try that fails with nothing stored leaves nothing behind: its retry is as
\* a first try that begins later.
FailuresBounded ==
    run[Daily].pc # "raised" /\ run'[Daily].pc = "raised" =>
        \E k \in Times : bucket'[k].by = {Daily}

\* When the first delivery has read its last page, what it does next and what
\* scanners do are independent: these come first, and may as well have ended.
PageBuiltAtRest ==
    run'[Daily].pc \in {"rendered", "uploaded", "emailed"} =>
        UNCHANGED vars /\ \A w \in Writers : ~Running(w)

\* What scanners do when the reports are over they also do before reports begin.
Over(r) == run[r].pc = "done" \/ (run[r].pc = "raised" /\ run[r].try = MaxRetries)
Interesting == ~Over(Daily) \/ Active(Duplicate)

BoundedReportSpec ==
    ReportInit /\ [][/\ ReportNext
                     /\ ScannersBounded /\ DuplicateBounded /\ ScannersRest /\ FailuresBounded
                     /\ PageBuiltAtRest /\ Interesting]_<<vars, reportVars>>
=============================================================================
