------------------------------ MODULE HumanGate ------------------------------
(***************************************************************************)
(* What the remediation workflow promises, without tokens, links, tables   *)
(* or retries: each execution puts one non-empty list of resources to a    *)
(* human, gets exactly one decision, and may remove resources of its list  *)
(* only once that decision is "approve".  No decision is awaited forever.  *)
(***************************************************************************)
CONSTANTS Executions, Resources

VARIABLES
    proposal,   \* proposal[e]: the list put to the human
    decision,   \* decision[e]: "none", "waiting" or what was decided
    gone        \* gone[e]: what e has removed

gateVars == <<proposal, decision, gone>>

Decision == {"approve", "reject", "ignore", "timeout", "error"}

GateInit ==
    /\ proposal = [e \in Executions |-> {}]
    /\ decision = [e \in Executions |-> "none"]
    /\ gone = [e \in Executions |-> {}]

Propose(e, S) ==
    /\ decision[e] = "none" /\ S # {}
    /\ proposal' = [proposal EXCEPT ![e] = S]
    /\ decision' = [decision EXCEPT ![e] = "waiting"]
    /\ UNCHANGED gone

Decide(e) ==
    /\ decision[e] = "waiting"
    /\ \E d \in Decision : decision' = [decision EXCEPT ![e] = d]
    /\ UNCHANGED <<proposal, gone>>

Remove(e, r) ==
    /\ decision[e] = "approve" /\ r \in proposal[e]
    /\ \A x \in Executions : r \notin gone[x]
    /\ gone' = [gone EXCEPT ![e] = @ \cup {r}]
    /\ UNCHANGED <<proposal, decision>>

GateNext ==
    \E e \in Executions :
        \/ \E S \in SUBSET Resources : Propose(e, S)
        \/ Decide(e)
        \/ \E r \in Resources : Remove(e, r)

GateSafety == GateInit /\ [][GateNext]_gateVars

GateSpec == GateSafety /\ \A e \in Executions : WF_gateVars(Decide(e))
=============================================================================
