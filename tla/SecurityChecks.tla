---------------------------- MODULE SecurityChecks ----------------------------
(***************************************************************************)
(* What the checkers of security_scanner make of one answer of AWS: the    *)
(* account as the APIs show it, and the findings that each call leads to.  *)
(***************************************************************************)
EXTENDS Integers, FiniteSets

CONSTANTS
    Groups, Buckets, Users, Keys, Volumes,  \* ids of resources
    KeyOwner,       \* KeyOwner[k]: the user of access key k
    Rules,          \* inbound rules that groups may have
    Policies,       \* bucket policies: sets of statements
    ConfigRules, CriticalRules, HighRules,  \* AWS Config rules
    Evaluated,      \* evaluation results of Config: of what resource, and their note
    NoId            \* the ResourceId of a result that has none

\* A rule of a security group.  bounds is FromPort and ToPort, <<>> when absent.
Rule == [proto : {"tcp", "udp", "icmp", "-1"}, bounds : {<<>>} \cup (Int \X Int),
         sources : SUBSET {"0.0.0.0/0", "::/0", "known"}]
Statement == [effect : {"Allow", "Deny"}, principal : {"*", "AWS *", "AWS list", "named"}]

ASSUME KeyOwnerAssumption == KeyOwner \in [Keys -> Users]
ASSUME RulesAssumption ==
    /\ Rules \subseteq Rule
    /\ \A rule \in Rules :
          /\ rule.proto = "-1" => rule.bounds = <<>>
          /\ rule.proto \in {"tcp", "udp"} /\ rule.bounds # <<>> => rule.bounds[1] <= rule.bounds[2]
ASSUME PoliciesAssumption == Policies \subseteq SUBSET Statement
\* A resource is known by type and id together; results of one may differ in note.
ASSUME EvaluatedAssumption == \A e \in Evaluated : DOMAIN e = {"type", "id", "note"}

Bucket == [exists : BOOLEAN, block : {"unset", "partial", "full"}, encrypted : BOOLEAN,
           policy : Policies, versioned : BOOLEAN]
User == [exists : BOOLEAN, mfa : BOOLEAN, admin : BOOLEAN]
\* active: not disabled or deleted.  aged: created more than 90 days ago; "long
\* ago": last used more than 90 days ago.
AccessKey == [active : BOOLEAN, aged : BOOLEAN, used : {"never", "long ago", "recently"}]
Volume == [exists : BOOLEAN, encrypted : BOOLEAN, attached : BOOLEAN]

\* AWS merges the rules of a group that have protocol and ports in common.
RuleSets ==
    {rules \in SUBSET Rules :
        \A x, y \in rules : x.proto = y.proto /\ x.bounds = y.bounds => x = y}

Account == [groups : [Groups -> RuleSets], buckets : [Buckets -> Bucket],
            users : [Users -> User], keys : [Keys -> AccessKey],
            volumes : [Volumes -> Volume],
            noncompliant : SUBSET (ConfigRules \X Evaluated)]

\* check is check_name with its discriminator; resource and check are hashed
\* into finding_id.  about is what the description tells of.
Finding(resource, check, severity, about) ==
    [resource |-> resource, check |-> check, severity |-> severity, about |-> about]

-----------------------------------------------------------------------------
(* sg_checker: rules open to the world. *)

AllowedPublicPorts == {80, 443}
CriticalPorts == {22, 3389}
IsOpenToWorld(rule) == rule.sources \cap {"0.0.0.0/0", "::/0"} # {}

\* The sentinel None of _expand_port_range, and the ports it yields otherwise:
\* from-1 for an ICMP rule of all types, none when the code is below the type.
AllPorts(rule) == rule.proto = "-1" \/ rule.bounds = <<>>
PortRange(rule) == IF AllPorts(rule) THEN {} ELSE rule.bounds[1]..rule.bounds[2]

RuleIsFlagged(rule) ==
    IsOpenToWorld(rule) /\ (AllPorts(rule) \/ ~(PortRange(rule) \subseteq AllowedPublicPorts))

\* Mutant: only the two ends of the range are looked at.
MutantEndsOnly(rule) ==
    IF AllPorts(rule) \/ {rule.bounds[1], rule.bounds[2]} \cap CriticalPorts # {}
      THEN "CRITICAL" ELSE "HIGH"

RuleSeverity(rule) ==
    IF AllPorts(rule) \/ PortRange(rule) \cap CriticalPorts # {} THEN "CRITICAL" ELSE "HIGH"

\* Mutant: one check name for all rules of a group, as before STEP 21.5.
MutantNoDiscriminator(rule) == <<"sg_open_to_world">>

RuleCheck(rule) ==
    <<"sg_open_to_world", rule.proto, IF AllPorts(rule) THEN <<>> ELSE rule.bounds>>

GroupFindings(g, rules) ==
    {Finding(g, RuleCheck(rule), RuleSeverity(rule), rule) : rule \in {x \in rules : RuleIsFlagged(x)}}

-----------------------------------------------------------------------------
(* s3_checker: four calls for each bucket. *)

\* A finding if the condition holds.
If(condition, finding) == {f \in {finding} : condition}

BlockFindings(b, bucket) ==
    If(bucket.block = "unset", Finding(b, <<"s3_no_public_access_block">>, "HIGH", b))
      \cup If(bucket.block = "partial",
              Finding(b, <<"s3_public_access_block_disabled">>, "HIGH", b))

EncryptionFindings(b, bucket) ==
    If(~bucket.encrypted, Finding(b, <<"s3_no_default_encryption">>, "HIGH", b))

\* A wildcard in a list of principals is not recognised.
IsPublicStatement(s) == s.effect = "Allow" /\ s.principal \in {"*", "AWS *"}

PolicyFindings(b, bucket) ==
    If(\E s \in bucket.policy : IsPublicStatement(s),
       Finding(b, <<"s3_bucket_policy_public">>, "CRITICAL", b))

VersioningFindings(b, bucket) ==
    If(~bucket.versioned, Finding(b, <<"s3_versioning_disabled">>, "LOW", b))

-----------------------------------------------------------------------------
(* iam_checker: keys, MFA and policies of each user. *)

AgedKeyFindings(k, key) ==
    If(key.active /\ key.aged,
       Finding(KeyOwner[k], <<"iam_access_key_old", k>>, "MEDIUM", k))

\* aged is from the list of keys, used from the later call for this key.
UnusedKeyFindings(k, aged, used) ==
    If(used = "long ago" \/ (used = "never" /\ aged),
       Finding(KeyOwner[k], <<"iam_access_key_unused", k>>, "MEDIUM", k))

MfaFindings(u, user) == If(~user.mfa, Finding(u, <<"iam_user_no_mfa">>, "HIGH", u))
AdminFindings(u, user) == If(user.admin, Finding(u, <<"iam_user_admin_attached">>, "HIGH", u))

-----------------------------------------------------------------------------
(* ebs_checker and config_checker. *)

VolumeFindings(v, volume) ==
    If(volume.exists /\ ~volume.encrypted,
       Finding(v, <<"ebs_volume_unencrypted">>, IF volume.attached THEN "HIGH" ELSE "MEDIUM", v))

\* Mutant: the verdict of Config in place of a severity of the findings.
MutantVerdict(r) == IF r \in CriticalRules \cup HighRules THEN "HIGH" ELSE "NON_COMPLIANT"

SeverityForRule(r) ==
    IF r \in CriticalRules THEN "CRITICAL" ELSE IF r \in HighRules THEN "HIGH" ELSE "MEDIUM"

\* The type of the resource is not part of the id, and a result without an id is
\* taken for one of the rule itself.
EvaluatedId(r, result) == IF result.id = NoId THEN r ELSE result.id

ConfigFindings(r, noncompliant) ==
    {Finding(EvaluatedId(r, e[2]), <<"config_rule", r>>, SeverityForRule(r), e[2])
        : e \in {x \in noncompliant : x[1] = r}}
=============================================================================
