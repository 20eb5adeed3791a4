--------------------------- MODULE CloudResources ---------------------------
(***************************************************************************)
(* The EC2 side of CloudGuard: the volumes, addresses and snapshots its    *)
(* cleanup looks at, their AutoCleanup tag, and the two rules that decide  *)
(* what CloudGuard sees and may delete.  Everything the account's owners   *)
(* do to a resource behind CloudGuard's back is an action of this module.  *)
(***************************************************************************)
EXTENDS FiniteSets, Naturals

CONSTANT Resources          \* volumes, Elastic IPs and snapshots

ASSUME ResourcesAssumption == IsFiniteSet(Resources)

VARIABLES
    ec2,    \* ec2[r]: "idle" (a finder would report it), "inUse" or "deleted"
    tag     \* tag[r]: value of the AutoCleanup tag, "none" when absent

cloudVars == <<ec2, tag>>

Status == {"idle", "inUse", "deleted"}

\* "ignore" stands for the four opt-out values, "true" for the opt-in that the
\* IAM policy asks for, "none" for no tag or for any other value.
TagValue == {"none", "true", "ignore"}

CloudTypeOK ==
    /\ ec2 \in [Resources -> Status]
    /\ tag \in [Resources -> TagValue]

CloudInit ==
    /\ ec2 \in [Resources -> {"idle", "inUse"}]
    /\ tag \in [Resources -> TagValue]

IsIgnored(r) == tag[r] = "ignore"

\* What the three finders report: unattached and not opted out.
Zombies == {r \in Resources : ec2[r] = "idle" /\ ~IsIgnored(r)}

\* The cleanup role may delete only what carries AutoCleanup=true; EC2 itself
\* refuses to delete what is attached or gone.
Deletable(r) == ec2[r] = "idle" /\ tag[r] = "true"

-----------------------------------------------------------------------------
(* The account's owners. *)

OwnerTags(r, t) ==
    /\ ec2[r] # "deleted"
    /\ t # tag[r]
    /\ tag' = [tag EXCEPT ![r] = t]
    /\ UNCHANGED ec2

OwnerAttaches(r) ==
    /\ ec2[r] = "idle"
    /\ ec2' = [ec2 EXCEPT ![r] = "inUse"]
    /\ UNCHANGED tag

OwnerDetaches(r) ==
    /\ ec2[r] = "inUse"
    /\ ec2' = [ec2 EXCEPT ![r] = "idle"]
    /\ UNCHANGED tag

OwnerDeletes(r) ==
    /\ ec2[r] = "idle"
    /\ ec2' = [ec2 EXCEPT ![r] = "deleted"]
    /\ UNCHANGED tag

OwnerActs(r) ==
    \/ \E t \in TagValue : OwnerTags(r, t)
    \/ OwnerAttaches(r)
    \/ OwnerDetaches(r)
    \/ OwnerDeletes(r)
=============================================================================
