--------------------------- MODULE MCSecurityScanner ---------------------------
(***************************************************************************)
(* SecurityScanner for TLC.                                                *)
(***************************************************************************)
EXTENDS SecurityScanner

CONSTANTS g1, b1, u1, k1, k2, v1, r1, r2, noId,
          MaxChanges, MaxExcused    \* bounds on the owners' changes and on findings lost

VARIABLE changes

MCKeyOwner == [k \in {k1, k2} |-> u1]
Inbound(proto, from, to, sources) ==
    [proto |-> proto, bounds |-> <<from, to>>, sources |-> sources]

\* SSH is inside the first range and not at its ends.
MCRules == {Inbound("tcp", 20, 25, {"0.0.0.0/0", "known"}), Inbound("tcp", 443, 443, {"0.0.0.0/0"}),
            Inbound("udp", 53, 53, {"::/0"}), Inbound("tcp", 80, 443, {"known"}),
            Inbound("icmp", -1, -1, {"::/0"})}
MCPolicies == {{}} \cup {{[effect |-> "Allow", principal |-> p]} : p \in {"AWS *", "AWS list"}}

\* Two resources of one id, one of them with two results, and a result without an id.
Result(type, id, note) == [type |-> type, id |-> id, note |-> note]
MCEvaluated == {Result("volume", v1, "a"), Result("volume", v1, "b"), Result("snapshot", v1, "a"),
                Result("account", noId, "a")}

\* Much is wrong, and not much is.
Neglected ==
    [groups |-> [g \in Groups |-> Rules],
     buckets |-> [b \in Buckets |-> [exists |-> TRUE, block |-> "partial", encrypted |-> FALSE,
                    policy |-> {[effect |-> "Allow", principal |-> "AWS *"]}, versioned |-> TRUE]],
     users |-> [u \in Users |-> [exists |-> TRUE, mfa |-> FALSE, admin |-> FALSE]],
     keys |-> [k \in Keys |-> [active |-> TRUE, aged |-> TRUE, used |-> "never"]],
     volumes |-> [v \in Volumes |-> [exists |-> TRUE, encrypted |-> FALSE, attached |-> TRUE]],
     noncompliant |-> ConfigRules \X Evaluated]
Tended ==
    [groups |-> [g \in Groups |-> {}],
     buckets |-> [b \in Buckets |-> [exists |-> TRUE, block |-> "full", encrypted |-> TRUE,
                    policy |-> {}, versioned |-> TRUE]],
     users |-> [u \in Users |-> [exists |-> TRUE, mfa |-> TRUE, admin |-> FALSE]],
     keys |-> [k \in Keys |-> [active |-> FALSE, aged |-> TRUE, used |-> "long ago"]],
     volumes |-> [v \in Volumes |-> [exists |-> FALSE, encrypted |-> TRUE, attached |-> FALSE]],
     noncompliant |-> {}]

BoundedInit ==
    /\ account \in {Neglected, Tended} /\ changes = 0
    /\ ScannerInit
BoundedNext ==
    /\ \/ ScannerStep /\ UNCHANGED changes
       \/ changes < MaxChanges /\ OwnerActs /\ changes' = changes + 1
    /\ Cardinality(excused') <= MaxExcused
BoundedSpec == BoundedInit /\ [][BoundedNext]_<<scanVars, changes>>
=============================================================================
