---------------------------- MODULE FindingLedger ----------------------------
(***************************************************************************)
(* What docs/architecture.md promises of the findings table: an issue has  *)
(* one entry; seeing it again keeps the time it was first seen, moves the  *)
(* time it was last seen forward and adds one to its count; an entry goes  *)
(* away when it has not been seen for the time to live.                    *)
(***************************************************************************)
EXTENDS Naturals

CONSTANTS FindingIds, MaxTime, TTL,
          Lifetime      \* the longest from a sight to its record

VARIABLES
    ledger,     \* ledger[f]: when f was first and last seen, and how often
    now         \* the clock

Unseen == [first |-> 0, last |-> 0, count |-> 0]

LedgerInit ==
    /\ now = 0
    /\ ledger = [f \in FindingIds |-> Unseen]

Sights == {t \in 0..now : now <= t + Lifetime}

FirstSight(f, t) ==
    /\ ledger[f] = Unseen
    /\ ledger' = [ledger EXCEPT ![f] = [first |-> t, last |-> t, count |-> 1]]
    /\ UNCHANGED now

ReSight(f, t) ==
    /\ ledger[f].count > 0 /\ ledger[f].last <= t
    /\ ledger' = [ledger EXCEPT ![f] =
                     [first |-> ledger[f].first, last |-> t, count |-> ledger[f].count + 1]]
    /\ UNCHANGED now

Forget(f) ==
    /\ ledger[f].count > 0 /\ ledger[f].last + TTL < now
    /\ ledger' = [ledger EXCEPT ![f] = Unseen]
    /\ UNCHANGED now

TimePasses == now < MaxTime /\ now' = now + 1 /\ UNCHANGED ledger

LedgerNext ==
    \/ \E f \in FindingIds, t \in Sights : FirstSight(f, t) \/ ReSight(f, t)
    \/ \E f \in FindingIds : Forget(f)
    \/ TimePasses

LedgerSpec == LedgerInit /\ [][LedgerNext]_<<ledger, now>>
=============================================================================
