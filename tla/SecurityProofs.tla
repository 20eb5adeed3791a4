---------------------------- MODULE SecurityProofs ----------------------------
(***************************************************************************)
(* Any account and any way its owners change it under a scan, whichever    *)
(* calls fail: the batch of the security scanner invents nothing, hides    *)
(* only what failed calls concern, and gives each finding an id of its own,*)
(* the results of one Config rule apart.                                   *)
(***************************************************************************)
EXTENDS SecurityScanner, TLAPS

USE DEF scannerVars, historyVars, scanVars, Checkers

-----------------------------------------------------------------------------
(* Which call is in charge of which finding. *)

Kind(f) == f.check[1]

BlockKinds == {"s3_no_public_access_block", "s3_public_access_block_disabled"}
BucketKinds == BlockKinds \cup
    {"s3_no_default_encryption", "s3_bucket_policy_public", "s3_versioning_disabled"}
KeyKinds == {"iam_access_key_old", "iam_access_key_unused"}
UserKinds == KeyKinds \cup {"iam_user_no_mfa", "iam_user_admin_attached"}

KindsOf(c) ==
    CASE c = "security_groups" -> {"sg_open_to_world"}
      [] c = "s3_buckets" -> BucketKinds
      [] c = "iam_users" -> UserKinds
      [] c = "ebs_encryption" -> {"ebs_volume_unencrypted"}
      [] c = "config_compliance" -> {"config_rule"}
      [] OTHER -> {}

\* The calls of a checker, and on what they are.
IsCallOf(i, c) ==
    /\ i \in Inquiry
    /\ \/ c = "security_groups" /\ i.call = "describe_security_groups" /\ i.on \in Groups
       \/ c = "s3_buckets" /\ (i.call = "list_buckets" \/ (i.call \in BucketCalls /\ i.on \in Buckets))
       \/ /\ c = "iam_users"
          /\ \/ i.call \in UserCalls \cup {"list_users"} /\ i.on \in Users
             \/ i.call = "get_access_key_last_used" /\ i.on \in Keys
       \/ c = "ebs_encryption" /\ i.call = "describe_volumes" /\ i.on \in Volumes
       \/ /\ c = "config_compliance"
          /\ \/ i.call = "describe_compliance_by_config_rule"
             \/ i.call = "get_compliance_details_by_config_rule" /\ i.on \in ConfigRules

InCharge(i, f) ==
    \/ i.call = "describe_security_groups" /\ Kind(f) = "sg_open_to_world" /\ f.resource = i.on
    \/ i.call = "list_buckets" /\ Kind(f) \in BucketKinds
    \/ i.call = "get_public_access_block" /\ Kind(f) \in BlockKinds /\ f.resource = i.on
    \/ i.call = "get_bucket_encryption" /\ Kind(f) = "s3_no_default_encryption" /\ f.resource = i.on
    \/ i.call = "get_bucket_policy" /\ Kind(f) = "s3_bucket_policy_public" /\ f.resource = i.on
    \/ i.call = "get_bucket_versioning" /\ Kind(f) = "s3_versioning_disabled" /\ f.resource = i.on
    \/ i.call = "list_users" /\ Kind(f) \in UserKinds /\ f.resource = i.on
    \/ i.call = "list_access_keys" /\ Kind(f) \in KeyKinds /\ f.resource = i.on
    \/ /\ i.call = "get_access_key_last_used" /\ Kind(f) = "iam_access_key_unused"
       /\ f.check[2] = i.on /\ f.resource = KeyOwner[i.on]
    \/ i.call = "list_mfa_devices" /\ Kind(f) = "iam_user_no_mfa" /\ f.resource = i.on
    \/ i.call = "list_attached_user_policies" /\ Kind(f) = "iam_user_admin_attached" /\ f.resource = i.on
    \/ i.call = "describe_volumes" /\ Kind(f) = "ebs_volume_unencrypted" /\ f.resource = i.on
    \/ i.call = "describe_compliance_by_config_rule" /\ Kind(f) = "config_rule"
    \/ i.call = "get_compliance_details_by_config_rule" /\ Kind(f) = "config_rule" /\ f.check[2] = i.on

-----------------------------------------------------------------------------
(* What findings look like. *)

LEMMA GroupShape ==
    ASSUME NEW g, NEW rules, NEW f \in GroupFindings(g, rules)
    PROVE  Kind(f) = "sg_open_to_world" /\ f.resource = g /\ f.severity \in {"CRITICAL", "HIGH"}
  BY DEF GroupFindings, Finding, RuleCheck, RuleSeverity, Kind

LEMMA BucketShape ==
    ASSUME NEW b, NEW bucket, NEW f
    PROVE  /\ f \in BlockFindings(b, bucket) => f.resource = b /\ Kind(f) \in BlockKinds
                                                 /\ f.severity = "HIGH"
           /\ f \in EncryptionFindings(b, bucket) =>
                f.resource = b /\ Kind(f) = "s3_no_default_encryption" /\ f.severity = "HIGH"
           /\ f \in PolicyFindings(b, bucket) =>
                f.resource = b /\ Kind(f) = "s3_bucket_policy_public" /\ f.severity = "CRITICAL"
           /\ f \in VersioningFindings(b, bucket) =>
                f.resource = b /\ Kind(f) = "s3_versioning_disabled" /\ f.severity = "LOW"
  BY DEF BlockFindings, EncryptionFindings, PolicyFindings, VersioningFindings, If, Finding,
         Kind, BlockKinds

LEMMA AgedShape ==
    ASSUME NEW k, NEW key, NEW f \in AgedKeyFindings(k, key)
    PROVE  /\ f.resource = KeyOwner[k] /\ f.severity = "MEDIUM" /\ f.check[2] = k
           /\ Kind(f) = "iam_access_key_old" /\ key.active
  BY DEF AgedKeyFindings, If, Finding, Kind

LEMMA UnusedShape ==
    ASSUME NEW k, NEW aged, NEW used, NEW f \in UnusedKeyFindings(k, aged, used)
    PROVE  /\ f.resource = KeyOwner[k] /\ f.severity = "MEDIUM" /\ f.check[2] = k
           /\ Kind(f) = "iam_access_key_unused"
  <1>1. f = Finding(KeyOwner[k], <<"iam_access_key_unused", k>>, "MEDIUM", k)
    BY Zenon DEF UnusedKeyFindings, If
  <1> QED
    BY <1>1 DEF Finding, Kind

LEMMA UserShape ==
    ASSUME NEW u, NEW user, NEW f
    PROVE  /\ f \in MfaFindings(u, user) =>
                f.resource = u /\ Kind(f) = "iam_user_no_mfa" /\ f.severity = "HIGH"
           /\ f \in AdminFindings(u, user) =>
                f.resource = u /\ Kind(f) = "iam_user_admin_attached" /\ f.severity = "HIGH"
  BY DEF MfaFindings, AdminFindings, If, Finding, Kind

LEMMA OtherShape ==
    ASSUME NEW v, NEW volume, NEW r, NEW noncompliant, NEW f
    PROVE  /\ f \in VolumeFindings(v, volume) =>
                f.resource = v /\ Kind(f) = "ebs_volume_unencrypted" /\ f.severity \in {"HIGH", "MEDIUM"}
           /\ f \in ConfigFindings(r, noncompliant) =>
                /\ Kind(f) = "config_rule" /\ f.check[2] = r
                /\ f.severity \in {"CRITICAL", "HIGH", "MEDIUM"}
  BY DEF VolumeFindings, ConfigFindings, SeverityForRule, If, Finding, Kind
-----------------------------------------------------------------------------
(* Answers. *)

LEMMA CallNames ==
    ASSUME NEW i, NEW c \in Checkers, IsCallOf(i, c)
    PROVE  \/ c = "security_groups" /\ i.call = "describe_security_groups" /\ i.on \in Groups
           \/ c = "s3_buckets" /\ i.call = "list_buckets"
           \/ c = "s3_buckets" /\ i.on \in Buckets /\ i.call = "get_public_access_block"
           \/ c = "s3_buckets" /\ i.on \in Buckets /\ i.call = "get_bucket_encryption"
           \/ c = "s3_buckets" /\ i.on \in Buckets /\ i.call = "get_bucket_policy"
           \/ c = "s3_buckets" /\ i.on \in Buckets /\ i.call = "get_bucket_versioning"
           \/ c = "iam_users" /\ i.on \in Users /\ i.call = "list_users"
           \/ c = "iam_users" /\ i.on \in Users /\ i.call = "list_access_keys"
           \/ c = "iam_users" /\ i.on \in Keys /\ i.call = "get_access_key_last_used"
           \/ c = "iam_users" /\ i.on \in Users /\ i.call = "list_mfa_devices"
           \/ c = "iam_users" /\ i.on \in Users /\ i.call = "list_attached_user_policies"
           \/ c = "ebs_encryption" /\ i.on \in Volumes /\ i.call = "describe_volumes"
           \/ c = "config_compliance" /\ i.call = "describe_compliance_by_config_rule"
           \/ /\ c = "config_compliance" /\ i.on \in ConfigRules
              /\ i.call = "get_compliance_details_by_config_rule"
  BY DEF IsCallOf, BucketCalls, UserCalls

\* A call tells only of what it is in charge of.
LEMMA AnswerShape ==
    ASSUME NEW i, NEW c \in Checkers, IsCallOf(i, c), NEW a, NEW f \in Answer(i, a)
    PROVE  /\ InCharge(i, f) /\ Kind(f) \in KindsOf(c)
           /\ f.severity \in {"CRITICAL", "HIGH", "MEDIUM", "LOW"}
  <1> USE DEF InCharge, KindsOf, BlockKinds, BucketKinds, KeyKinds, UserKinds
  <1>1. CASE c = "security_groups" /\ i.call = "describe_security_groups"
    <2>1. f \in GroupFindings(i.on, a.groups[i.on])
      BY <1>1 DEF Answer
    <2> QED
      BY <1>1, <2>1, GroupShape
  <1>2. CASE c = "s3_buckets" /\ i.call = "get_public_access_block"
    <2>1. f \in BlockFindings(i.on, a.buckets[i.on])
      BY <1>2 DEF Answer
    <2> QED
      BY <1>2, <2>1, BucketShape
  <1>3. CASE c = "s3_buckets" /\ i.call = "get_bucket_encryption"
    <2>1. f \in EncryptionFindings(i.on, a.buckets[i.on])
      BY <1>3 DEF Answer
    <2> QED
      BY <1>3, <2>1, BucketShape
  <1>4. CASE c = "s3_buckets" /\ i.call = "get_bucket_policy"
    <2>1. f \in PolicyFindings(i.on, a.buckets[i.on])
      BY <1>4 DEF Answer
    <2> QED
      BY <1>4, <2>1, BucketShape
  <1>5. CASE c = "s3_buckets" /\ i.call = "get_bucket_versioning"
    <2>1. f \in VersioningFindings(i.on, a.buckets[i.on])
      BY <1>5 DEF Answer
    <2> QED
      BY <1>5, <2>1, BucketShape
  <1>6. CASE c = "iam_users" /\ i.call = "list_access_keys"
    <2>1. PICK k \in KeysOf(i.on) : f \in AgedKeyFindings(k, a.keys[k])
      BY <1>6 DEF Answer
    <2>2. f.resource = i.on /\ Kind(f) = "iam_access_key_old" /\ f.severity = "MEDIUM"
      BY <2>1, AgedShape DEF KeysOf
    <2> QED
      BY <1>6, <2>2
  <1>7. CASE c = "iam_users" /\ i.call = "get_access_key_last_used"
    <2>1. f \in UnusedKeyFindings(i.on, i.aged, a.keys[i.on].used)
      BY <1>7 DEF Answer
    <2>2. /\ f.resource = KeyOwner[i.on] /\ f.severity = "MEDIUM" /\ f.check[2] = i.on
          /\ Kind(f) = "iam_access_key_unused"
      BY <2>1, UnusedShape
    <2> QED
      BY <1>7, <2>2
  <1>8. CASE c = "iam_users" /\ i.call = "list_mfa_devices"
    <2>1. f \in MfaFindings(i.on, a.users[i.on])
      BY <1>8 DEF Answer
    <2> QED
      BY <1>8, <2>1, UserShape
  <1>9. CASE c = "iam_users" /\ i.call = "list_attached_user_policies"
    <2>1. f \in AdminFindings(i.on, a.users[i.on])
      BY <1>9 DEF Answer
    <2> QED
      BY <1>9, <2>1, UserShape
  <1>10. CASE c = "ebs_encryption" /\ i.call = "describe_volumes"
    <2>1. f \in VolumeFindings(i.on, a.volumes[i.on])
      BY <1>10 DEF Answer
    <2> QED
      BY <1>10, <2>1, OtherShape
  <1>11. CASE c = "config_compliance" /\ i.call = "get_compliance_details_by_config_rule"
    <2>1. f \in ConfigFindings(i.on, a.noncompliant)
      BY <1>11 DEF Answer
    <2> QED
      BY <1>11, <2>1, OtherShape
  <1>12. CASE i.call \in {"list_buckets", "list_users", "describe_compliance_by_config_rule"}
    BY <1>12 DEF Answer
  <1> QED
    BY <1>1, <1>2, <1>3, <1>4, <1>5, <1>6, <1>7, <1>8, <1>9, <1>10, <1>11, <1>12, CallNames

\* What a call is told is true, unless the call is refused.
LEMMA AnswerIsTrue ==
    ASSUME NEW i, NEW c \in Checkers, IsCallOf(i, c), i.call # "get_access_key_last_used",
           NEW a, ~Refused(i, a), NEW f \in Answer(i, a)
    PROVE  f \in CheckerProblems(c, a)
  <1>1. CASE c = "security_groups" /\ i.call = "describe_security_groups" /\ i.on \in Groups
    BY <1>1 DEF Answer, CheckerProblems
  <1>2. CASE c = "s3_buckets" /\ i.call \in BucketCalls /\ i.on \in Buckets
    <2>1. a.buckets[i.on].exists
      BY <1>2 DEF Refused
    <2>2. f \in BucketProblems(i.on, a.buckets[i.on])
      BY <1>2, <2>1 DEF Answer, BucketProblems, BucketCalls
    <2> QED
      BY <1>2, <2>2 DEF CheckerProblems
  <1>3. CASE c = "iam_users" /\ i.call \in UserCalls /\ i.on \in Users
    <2>1. a.users[i.on].exists
      BY <1>3 DEF Refused
    <2>2. CASE i.call = "list_access_keys"
      <3>1. PICK k \in KeysOf(i.on) : f \in AgedKeyFindings(k, a.keys[k])
        BY <2>2 DEF Answer
      <3>2. f \in UserProblems(i.on, a)
        BY <2>1, <3>1 DEF UserProblems, KeyProblems
      <3> QED
        BY <1>3, <3>2 DEF CheckerProblems
    <2>3. CASE i.call \in {"list_mfa_devices", "list_attached_user_policies"}
      <3>1. f \in UserProblems(i.on, a)
        BY <2>1, <2>3 DEF UserProblems, Answer
      <3> QED
        BY <1>3, <3>1 DEF CheckerProblems
    <2> QED
      BY <1>3, <2>2, <2>3 DEF UserCalls
  <1>4. CASE c = "ebs_encryption" /\ i.call = "describe_volumes" /\ i.on \in Volumes
    BY <1>4 DEF Answer, CheckerProblems
  <1>5. CASE /\ c = "config_compliance" /\ i.on \in ConfigRules
             /\ i.call = "get_compliance_details_by_config_rule"
    BY <1>5 DEF Answer, CheckerProblems
  <1>6. CASE i.call \in {"list_buckets", "list_users", "describe_compliance_by_config_rule"}
    BY <1>6 DEF Answer
  <1> QED
    BY <1>1, <1>2, <1>3, <1>4, <1>5, <1>6, CallNames DEF BucketCalls, UserCalls
-----------------------------------------------------------------------------
(* Problems: each has a call in charge, which tells of it or asks further. *)

LEMMA BucketProblemShape ==
    ASSUME NEW b, NEW bucket, NEW f \in BucketProblems(b, bucket)
    PROVE  /\ bucket.exists /\ f.resource = b /\ Kind(f) \in BucketKinds
           /\ Kind(f) \in BlockKinds => f \in BlockFindings(b, bucket)
           /\ Kind(f) = "s3_no_default_encryption" => f \in EncryptionFindings(b, bucket)
           /\ Kind(f) = "s3_bucket_policy_public" => f \in PolicyFindings(b, bucket)
           /\ Kind(f) = "s3_versioning_disabled" => f \in VersioningFindings(b, bucket)
           /\ f.severity \in {"CRITICAL", "HIGH", "LOW"}
  <1>1. /\ bucket.exists
        /\ \/ f \in BlockFindings(b, bucket) \/ f \in EncryptionFindings(b, bucket)
           \/ f \in PolicyFindings(b, bucket) \/ f \in VersioningFindings(b, bucket)
    BY DEF BucketProblems
  <1> QED
    BY <1>1, BucketShape DEF BucketKinds, BlockKinds

LEMMA UserProblemShape ==
    ASSUME NEW u, NEW a, NEW f \in UserProblems(u, a)
    PROVE  /\ a.users[u].exists /\ f.resource = u /\ Kind(f) \in UserKinds /\ f.severity \in {"HIGH", "MEDIUM"}
           /\ Kind(f) = "iam_user_no_mfa" => f \in MfaFindings(u, a.users[u])
           /\ Kind(f) = "iam_user_admin_attached" => f \in AdminFindings(u, a.users[u])
           /\ Kind(f) \in KeyKinds => \E k \in KeysOf(u) :
                /\ f.check[2] = k /\ a.keys[k].active
                /\ Kind(f) = "iam_access_key_old" => f \in AgedKeyFindings(k, a.keys[k])
                /\ Kind(f) = "iam_access_key_unused" =>
                      f \in UnusedKeyFindings(k, a.keys[k].aged, a.keys[k].used)
  <1>1. a.users[u].exists
    BY DEF UserProblems
  <1>2. CASE f \in MfaFindings(u, a.users[u]) \/ f \in AdminFindings(u, a.users[u])
    BY <1>1, <1>2, UserShape DEF UserKinds, KeyKinds
  <1>3. CASE f \in UNION {KeyProblems(k, a.keys[k]) : k \in KeysOf(u)}
    <2>1. PICK k \in KeysOf(u) : f \in KeyProblems(k, a.keys[k])
      BY <1>3
    <2>2. KeyOwner[k] = u
      BY DEF KeysOf
    <2>3. \/ f \in AgedKeyFindings(k, a.keys[k])
          \/ f \in UnusedKeyFindings(k, a.keys[k].aged, a.keys[k].used) /\ a.keys[k].active
      BY <2>1 DEF KeyProblems
    <2>4. f \in AgedKeyFindings(k, a.keys[k]) => a.keys[k].active
      BY AgedShape
    <2>5. /\ f.resource = u /\ f.severity = "MEDIUM" /\ f.check[2] = k /\ Kind(f) \in KeyKinds
          /\ Kind(f) = "iam_access_key_old" => f \in AgedKeyFindings(k, a.keys[k])
          /\ Kind(f) = "iam_access_key_unused" =>
                f \in UnusedKeyFindings(k, a.keys[k].aged, a.keys[k].used)
      <3>1. CASE f \in AgedKeyFindings(k, a.keys[k])
        <4>1. f.resource = u /\ f.severity = "MEDIUM" /\ f.check[2] = k /\ Kind(f) = "iam_access_key_old"
          BY <3>1, <2>2, AgedShape
        <4> QED
          BY <3>1, <4>1 DEF KeyKinds
      <3>2. CASE f \in UnusedKeyFindings(k, a.keys[k].aged, a.keys[k].used)
        <4>1. f.resource = u /\ f.severity = "MEDIUM" /\ f.check[2] = k /\ Kind(f) = "iam_access_key_unused"
          BY <3>2, <2>2, UnusedShape
        <4> QED
          BY <3>2, <4>1 DEF KeyKinds
      <3> QED
        BY <2>3, <3>1, <3>2
    <2> QED
      BY <1>1, <2>3, <2>4, <2>5 DEF UserKinds, KeyKinds
  <1> QED
    BY <1>2, <1>3 DEF UserProblems

LEMMA ProblemShape ==
    ASSUME NEW c \in Checkers, NEW a, NEW f \in CheckerProblems(c, a)
    PROVE  Kind(f) \in KindsOf(c) /\ f.severity \in {"CRITICAL", "HIGH", "MEDIUM", "LOW"}
  <1>1. CASE c = "security_groups"
    <2>1. PICK g \in Groups : f \in GroupFindings(g, a.groups[g])
      BY <1>1 DEF CheckerProblems
    <2> QED
      BY <1>1, <2>1, GroupShape DEF KindsOf
  <1>2. CASE c = "s3_buckets"
    <2>1. PICK b \in Buckets : f \in BucketProblems(b, a.buckets[b])
      BY <1>2 DEF CheckerProblems
    <2> QED
      BY <1>2, <2>1, BucketProblemShape DEF KindsOf
  <1>3. CASE c = "iam_users"
    <2>1. PICK u \in Users : f \in UserProblems(u, a)
      BY <1>3 DEF CheckerProblems
    <2> QED
      BY <1>3, <2>1, UserProblemShape DEF KindsOf
  <1>4. CASE c = "ebs_encryption"
    <2>1. PICK v \in Volumes : f \in VolumeFindings(v, a.volumes[v])
      BY <1>4 DEF CheckerProblems
    <2> QED
      BY <1>4, <2>1, OtherShape DEF KindsOf
  <1>5. CASE c = "config_compliance"
    <2>1. PICK r \in ConfigRules : f \in ConfigFindings(r, a.noncompliant)
      BY <1>5 DEF CheckerProblems
    <2> QED
      BY <1>5, <2>1, OtherShape DEF KindsOf
  <1> QED
    BY <1>1, <1>2, <1>3, <1>4, <1>5

LEMMA KindsApart ==
    ASSUME NEW c \in Checkers, NEW d \in Checkers, NEW kind \in KindsOf(c) \cap KindsOf(d)
    PROVE  c = d
  BY DEF KindsOf, BucketKinds, BlockKinds, UserKinds, KeyKinds

LEMMA ChargeKinds ==
    ASSUME NEW i, NEW c \in Checkers, IsCallOf(i, c), NEW f, InCharge(i, f)
    PROVE  Kind(f) \in KindsOf(c)
  BY CallNames DEF InCharge, KindsOf, BucketKinds, BlockKinds, UserKinds, KeyKinds

\* The problem that a call is in charge of is one of its checker's.
LEMMA ChargeOfChecker ==
    ASSUME NEW i, NEW c \in Checkers, IsCallOf(i, c), NEW a, NEW f \in Problems(a), InCharge(i, f)
    PROVE  f \in CheckerProblems(c, a)
  <1>1. PICK d \in Checkers : f \in CheckerProblems(d, a)
    BY DEF Problems
  <1> QED
    BY <1>1, ProblemShape, ChargeKinds, KindsApart

\* What a call is in charge of it tells, or a call that follows it does.
LEMMA ChargeIsMet ==
    ASSUME NEW i, NEW c \in Checkers, IsCallOf(i, c), NEW a, NEW f \in Problems(a), InCharge(i, f),
           i.call = "get_access_key_last_used" => i.aged = a.keys[i.on].aged,
           KeyOwnerAssumption
    PROVE  /\ ~Refused(i, a)
           /\ f \in Answer(i, a) \/ \E j \in FollowUps(i, a) : InCharge(j, f)
  <1>0. f \in CheckerProblems(c, a)
    BY ChargeOfChecker
  <1>1. CASE c = "security_groups"
    <2>1. i.call = "describe_security_groups" /\ f.resource = i.on
      BY <1>1, CallNames DEF InCharge
    <2>2. PICK g \in Groups : f \in GroupFindings(g, a.groups[g])
      BY <1>0, <1>1 DEF CheckerProblems
    <2>3. g = i.on
      BY <2>1, <2>2, GroupShape
    <2> QED
      BY <2>1, <2>2, <2>3 DEF Answer, Refused, BucketCalls, UserCalls
  <1>2. CASE c = "s3_buckets"
    <2>1. PICK b \in Buckets : f \in BucketProblems(b, a.buckets[b])
      BY <1>0, <1>2 DEF CheckerProblems
    <2>2. a.buckets[b].exists /\ f.resource = b /\ Kind(f) \in BucketKinds
      BY <2>1, BucketProblemShape
    <2>3. CASE i.call = "list_buckets"
      <3>1. PICK call \in BucketCalls : InCharge(Ask(call, b), f)
        BY <2>2 DEF InCharge, Ask, BucketKinds, BucketCalls
      <3>2. Ask(call, b) \in FollowUps(i, a)
        BY <2>2, <2>3 DEF FollowUps
      <3> QED
        BY <2>3, <3>1, <3>2 DEF Refused, BucketCalls, UserCalls
    <2>4. CASE i.call \in BucketCalls
      <3>1. i.on = b
        BY <2>2, <2>4 DEF InCharge, BucketCalls
      <3>2. ~Refused(i, a)
        BY <2>2, <2>4, <3>1 DEF Refused, BucketCalls, UserCalls
      <3>3. f \in Answer(i, a)
        BY <2>1, <2>4, <3>1, BucketProblemShape DEF InCharge, Answer, BucketCalls
      <3> QED
        BY <3>2, <3>3
    <2> QED
      BY <1>2, <2>3, <2>4, CallNames DEF BucketCalls
  <1>3. CASE c = "iam_users"
    <2>1. PICK u \in Users : f \in UserProblems(u, a)
      BY <1>0, <1>3 DEF CheckerProblems
    <2>2. a.users[u].exists /\ f.resource = u /\ Kind(f) \in UserKinds
      BY <2>1, UserProblemShape
    <2>3. CASE i.call = "list_users"
      <3>1. i.on = u
        BY <2>2, <2>3 DEF InCharge
      <3>2. PICK call \in UserCalls : InCharge(Ask(call, u), f)
        BY <2>2 DEF InCharge, Ask, UserKinds, UserCalls
      <3>3. Ask(call, u) \in FollowUps(i, a)
        BY <2>2, <2>3, <3>1 DEF FollowUps
      <3> QED
        BY <2>3, <3>2, <3>3 DEF Refused, BucketCalls, UserCalls
    <2>4. CASE i.call = "list_access_keys"
      <3>1. i.on = u /\ Kind(f) \in KeyKinds
        BY <2>2, <2>4 DEF InCharge
      <3>2. ~Refused(i, a)
        BY <2>2, <2>4, <3>1 DEF Refused, BucketCalls
      <3>3. PICK k \in KeysOf(u) :
              /\ f.check[2] = k /\ a.keys[k].active
              /\ Kind(f) = "iam_access_key_old" => f \in AgedKeyFindings(k, a.keys[k])
        BY <2>1, <3>1, UserProblemShape
      <3>4. CASE Kind(f) = "iam_access_key_old"
        BY <2>4, <3>1, <3>2, <3>3, <3>4 DEF Answer
      <3>5. CASE Kind(f) = "iam_access_key_unused"
        <4>1. InCharge(AskForKey(k, a.keys[k].aged), f)
          BY <2>2, <3>3, <3>5 DEF InCharge, AskForKey, KeysOf
        <4>2. AskForKey(k, a.keys[k].aged) \in FollowUps(i, a)
          BY <2>4, <3>1, <3>3 DEF FollowUps, KeyInquiries
        <4> QED
          BY <3>2, <4>1, <4>2
      <3> QED
        BY <3>1, <3>4, <3>5 DEF KeyKinds
    <2>5. CASE i.call = "get_access_key_last_used"
      <3>1. f.check[2] = i.on /\ Kind(f) = "iam_access_key_unused"
        BY <2>5 DEF InCharge
      <3>2. f \in UnusedKeyFindings(i.on, a.keys[i.on].aged, a.keys[i.on].used)
        BY <2>1, <3>1, UserProblemShape DEF KeyKinds
      <3> QED
        BY <2>5, <3>2 DEF Answer, Refused, BucketCalls, UserCalls
    <2>6. CASE i.call \in {"list_mfa_devices", "list_attached_user_policies"}
      <3>1. i.on = u
        BY <2>2, <2>6 DEF InCharge
      <3>2. ~Refused(i, a)
        BY <2>2, <2>6, <3>1 DEF Refused, BucketCalls
      <3>3. f \in Answer(i, a)
        BY <2>1, <2>6, <3>1, UserProblemShape DEF InCharge, Answer
      <3> QED
        BY <3>2, <3>3
    <2> QED
      BY <1>3, <2>3, <2>4, <2>5, <2>6, CallNames
  <1>4. CASE c = "ebs_encryption"
    <2>1. i.call = "describe_volumes" /\ f.resource = i.on
      BY <1>4, CallNames DEF InCharge
    <2>2. PICK v \in Volumes : f \in VolumeFindings(v, a.volumes[v])
      BY <1>0, <1>4 DEF CheckerProblems
    <2>3. v = i.on
      BY <2>1, <2>2, OtherShape
    <2> QED
      BY <2>1, <2>2, <2>3 DEF Answer, Refused, BucketCalls, UserCalls
  <1>5. CASE c = "config_compliance"
    <2>1. PICK r \in ConfigRules : f \in ConfigFindings(r, a.noncompliant)
      BY <1>0, <1>5 DEF CheckerProblems
    <2>2. Kind(f) = "config_rule" /\ f.check[2] = r
      BY <2>1, OtherShape
    <2>3. CASE i.call = "get_compliance_details_by_config_rule"
      <3>1. i.on = r
        BY <2>2, <2>3 DEF InCharge
      <3> QED
        BY <2>1, <2>3, <3>1 DEF Answer, Refused, BucketCalls, UserCalls
    <2>4. CASE i.call = "describe_compliance_by_config_rule"
      <3>1. \E e \in a.noncompliant : e[1] = r
        BY <2>1 DEF ConfigFindings
      <3>2. Ask("get_compliance_details_by_config_rule", r) \in FollowUps(i, a)
        BY <2>4, <3>1 DEF FollowUps
      <3>3. InCharge(Ask("get_compliance_details_by_config_rule", r), f)
        BY <2>2 DEF InCharge, Ask
      <3> QED
        BY <2>4, <3>2, <3>3 DEF Refused, BucketCalls, UserCalls
    <2> QED
      BY <1>5, <2>3, <2>4, CallNames
  <1> QED
    BY <1>1, <1>2, <1>3, <1>4, <1>5
-----------------------------------------------------------------------------
(* The calls of a checker divide its findings among them. *)

\* No finding is of both calls.
Apart(i, j) == \A f : ~(InCharge(i, f) /\ InCharge(j, f))

LEMMA FirstIsCall ==
    ASSUME NEW c \in Checkers, NEW i \in FirstCalls(c)
    PROVE  IsCallOf(i, c)
  <1> USE DEF Ask, Inquiry, IsCallOf, Calls, BucketCalls, UserCalls
  <1>1. CASE c = "security_groups"
    <2>1. PICK g \in Groups : i = Ask("describe_security_groups", g)
      BY <1>1 DEF FirstCalls
    <2> QED
      BY <1>1, <2>1
  <1>2. CASE c = "s3_buckets"
    <2>1. i = Ask("list_buckets", "account")
      BY <1>2 DEF FirstCalls
    <2> QED
      BY <1>2, <2>1
  <1>3. CASE c = "iam_users"
    <2>1. PICK u \in Users : i = Ask("list_users", u)
      BY <1>3 DEF FirstCalls
    <2> QED
      BY <1>3, <2>1
  <1>4. CASE c = "ebs_encryption"
    <2>1. PICK v \in Volumes : i = Ask("describe_volumes", v)
      BY <1>4 DEF FirstCalls
    <2> QED
      BY <1>4, <2>1
  <1>5. CASE c = "config_compliance"
    <2>1. i = Ask("describe_compliance_by_config_rule", "account")
      BY <1>5 DEF FirstCalls
    <2> QED
      BY <1>5, <2>1
  <1> QED
    BY <1>1, <1>2, <1>3, <1>4, <1>5

LEMMA FirstApart ==
    ASSUME NEW c \in Checkers, NEW i \in FirstCalls(c), NEW j \in FirstCalls(c), i # j
    PROVE  Apart(i, j)
  <1>1. \/ i = j
        \/ \E call \in {"describe_security_groups", "list_users", "describe_volumes"} : \E x, y :
              x # y /\ i = Ask(call, x) /\ j = Ask(call, y)
    <2>1. CASE c = "security_groups"
      BY <2>1 DEF FirstCalls
    <2>2. CASE c = "iam_users"
      BY <2>2 DEF FirstCalls
    <2>3. CASE c = "ebs_encryption"
      BY <2>3 DEF FirstCalls
    <2>4. CASE c \in {"s3_buckets", "config_compliance"}
      BY <2>4 DEF FirstCalls
    <2> QED
      BY <2>1, <2>2, <2>3, <2>4
  <1> QED
    BY <1>1 DEF Ask, Apart, InCharge

LEMMA FirstInCharge ==
    ASSUME NEW c \in Checkers, NEW a, NEW f \in CheckerProblems(c, a)
    PROVE  \E i \in FirstCalls(c) : InCharge(i, f)
  <1>1. CASE c = "security_groups"
    <2>1. PICK g \in Groups : f \in GroupFindings(g, a.groups[g])
      BY <1>1 DEF CheckerProblems
    <2>2. Ask("describe_security_groups", g) \in FirstCalls(c)
      BY <1>1 DEF FirstCalls
    <2> QED
      BY <2>1, <2>2, GroupShape DEF InCharge, Ask
  <1>2. CASE c = "s3_buckets"
    <2>1. Kind(f) \in BucketKinds
      BY <1>2, ProblemShape DEF KindsOf
    <2>2. Ask("list_buckets", "account") \in FirstCalls(c)
      BY <1>2 DEF FirstCalls
    <2> QED
      BY <2>1, <2>2 DEF InCharge, Ask
  <1>3. CASE c = "iam_users"
    <2>1. PICK u \in Users : f \in UserProblems(u, a)
      BY <1>3 DEF CheckerProblems
    <2>2. Ask("list_users", u) \in FirstCalls(c)
      BY <1>3 DEF FirstCalls
    <2> QED
      BY <2>1, <2>2, UserProblemShape DEF InCharge, Ask
  <1>4. CASE c = "ebs_encryption"
    <2>1. PICK v \in Volumes : f \in VolumeFindings(v, a.volumes[v])
      BY <1>4 DEF CheckerProblems
    <2>2. Ask("describe_volumes", v) \in FirstCalls(c)
      BY <1>4 DEF FirstCalls
    <2> QED
      BY <2>1, <2>2, OtherShape DEF InCharge, Ask
  <1>5. CASE c = "config_compliance"
    <2>1. Kind(f) = "config_rule"
      BY <1>5, ProblemShape DEF KindsOf
    <2>2. Ask("describe_compliance_by_config_rule", "account") \in FirstCalls(c)
      BY <1>5 DEF FirstCalls
    <2> QED
      BY <2>1, <2>2 DEF InCharge, Ask
  <1> QED
    BY <1>1, <1>2, <1>3, <1>4, <1>5

\* The four ways to ask further.
LEMMA FollowUpCases ==
    ASSUME NEW i, NEW a, NEW j \in FollowUps(i, a)
    PROVE  \/ /\ i.call = "list_buckets"
              /\ \E call \in BucketCalls, b \in Buckets : j = Ask(call, b)
           \/ i.call = "list_users" /\ a.users[i.on].exists /\ \E call \in UserCalls : j = Ask(call, i.on)
           \/ /\ i.call = "list_access_keys"
              /\ \E k \in KeysOf(i.on) : a.keys[k].active /\ j = AskForKey(k, a.keys[k].aged)
           \/ /\ i.call = "describe_compliance_by_config_rule"
              /\ \E e \in a.noncompliant : j = Ask("get_compliance_details_by_config_rule", e[1])
  BY DEF FollowUps, KeyInquiries

LEMMA FollowUpIsCall ==
    ASSUME NEW c \in Checkers, NEW i, IsCallOf(i, c), NEW a \in Account, NEW j \in FollowUps(i, a)
    PROVE  IsCallOf(j, c)
  <1> USE DEF Inquiry, IsCallOf, Calls, BucketCalls, UserCalls
  <1>1. CASE i.call = "list_buckets"
    <2>1. PICK call \in BucketCalls, b \in Buckets : j = Ask(call, b)
      BY <1>1, FollowUpCases
    <2>2. c = "s3_buckets"
      BY <1>1, CallNames
    <2> QED
      BY <2>1, <2>2 DEF Ask
  <1>2. CASE i.call = "list_users"
    <2>1. PICK call \in UserCalls : j = Ask(call, i.on)
      BY <1>2, FollowUpCases
    <2>2. c = "iam_users" /\ i.on \in Users
      BY <1>2, CallNames
    <2> QED
      BY <2>1, <2>2 DEF Ask
  <1>3. CASE i.call = "list_access_keys"
    <2>1. PICK k \in KeysOf(i.on) : j = AskForKey(k, a.keys[k].aged)
      BY <1>3, FollowUpCases
    <2>2. c = "iam_users"
      BY <1>3, CallNames
    <2>3. k \in Keys /\ a.keys[k].aged \in BOOLEAN
      BY <2>1 DEF KeysOf, Account, AccessKey
    <2> QED
      BY <2>1, <2>2, <2>3 DEF AskForKey
  <1>4. CASE i.call = "describe_compliance_by_config_rule"
    <2>1. PICK e \in a.noncompliant : j = Ask("get_compliance_details_by_config_rule", e[1])
      BY <1>4, FollowUpCases
    <2>2. c = "config_compliance"
      BY <1>4, CallNames
    <2>3. e[1] \in ConfigRules
      BY <2>1 DEF Account
    <2> QED
      BY <2>1, <2>2, <2>3 DEF Ask
  <1> QED
    BY <1>1, <1>2, <1>3, <1>4, FollowUpCases

\* What follows a call is about what the call was in charge of and has not told.
LEMMA FollowUpCharge ==
    ASSUME NEW c \in Checkers, NEW i, IsCallOf(i, c), NEW a, NEW j \in FollowUps(i, a), NEW f, InCharge(j, f)
    PROVE  InCharge(i, f) /\ f \notin Answer(i, a)
  <1> USE DEF InCharge, BucketCalls, UserCalls, BucketKinds, UserKinds, KeyKinds, BlockKinds
  <1>1. CASE i.call = "list_buckets"
    <2>1. PICK call \in BucketCalls, b \in Buckets : j = Ask(call, b)
      BY <1>1, FollowUpCases
    <2> QED
      BY <1>1, <2>1 DEF Ask, Answer
  <1>2. CASE i.call = "list_users"
    <2>1. PICK call \in UserCalls : j = Ask(call, i.on)
      BY <1>2, FollowUpCases
    <2> QED
      BY <1>2, <2>1 DEF Ask, Answer
  <1>3. CASE i.call = "list_access_keys"
    <2>1. PICK k \in KeysOf(i.on) : j = AskForKey(k, a.keys[k].aged)
      BY <1>3, FollowUpCases
    <2>2. Kind(f) = "iam_access_key_unused" /\ f.resource = i.on
      BY <2>1 DEF AskForKey, KeysOf
    <2>3. f \notin Answer(i, a)
      <3>1. SUFFICES ASSUME NEW x \in KeysOf(i.on), f \in AgedKeyFindings(x, a.keys[x])
                     PROVE  FALSE
        BY <1>3 DEF Answer
      <3>2. Kind(f) = "iam_access_key_old"
        BY <3>1, AgedShape
      <3> QED
        BY <2>2, <3>2
    <2> QED
      BY <1>3, <2>2, <2>3
  <1>4. CASE i.call = "describe_compliance_by_config_rule"
    <2>1. PICK e \in a.noncompliant : j = Ask("get_compliance_details_by_config_rule", e[1])
      BY <1>4, FollowUpCases
    <2> QED
      BY <1>4, <2>1 DEF Ask, Answer
  <1> QED
    BY <1>1, <1>2, <1>3, <1>4, FollowUpCases

LEMMA FollowUpsApart ==
    ASSUME NEW i, NEW a, NEW j \in FollowUps(i, a), NEW k \in FollowUps(i, a), j # k
    PROVE  Apart(j, k)
  <1> USE DEF Apart, InCharge, BucketCalls, UserCalls, BlockKinds
  <1>1. CASE i.call = "list_buckets"
    <2>1. PICK call1 \in BucketCalls, b1 \in Buckets : j = Ask(call1, b1)
      BY <1>1, FollowUpCases
    <2>2. PICK call2 \in BucketCalls, b2 \in Buckets : k = Ask(call2, b2)
      BY <1>1, FollowUpCases
    <2> QED
      BY <2>1, <2>2 DEF Ask
  <1>2. CASE i.call = "list_users"
    <2>1. PICK call1 \in UserCalls : j = Ask(call1, i.on)
      BY <1>2, FollowUpCases
    <2>2. PICK call2 \in UserCalls : k = Ask(call2, i.on)
      BY <1>2, FollowUpCases
    <2> QED
      BY <2>1, <2>2 DEF Ask, KeyKinds
  <1>3. CASE i.call = "list_access_keys"
    <2>1. PICK k1 \in KeysOf(i.on) : j = AskForKey(k1, a.keys[k1].aged)
      BY <1>3, FollowUpCases
    <2>2. PICK k2 \in KeysOf(i.on) : k = AskForKey(k2, a.keys[k2].aged)
      BY <1>3, FollowUpCases
    <2> QED
      BY <2>1, <2>2 DEF AskForKey
  <1>4. CASE i.call = "describe_compliance_by_config_rule"
    <2>1. PICK e \in a.noncompliant : j = Ask("get_compliance_details_by_config_rule", e[1])
      BY <1>4, FollowUpCases
    <2>2. PICK d \in a.noncompliant : k = Ask("get_compliance_details_by_config_rule", d[1])
      BY <1>4, FollowUpCases
    <2> QED
      BY <2>1, <2>2 DEF Ask
  <1> QED
    BY <1>1, <1>2, <1>3, <1>4, FollowUpCases
-----------------------------------------------------------------------------
(* Ids.  Those of the results of one Config rule may be equal. *)

SameId(f, g) ==
    f.resource = g.resource /\ f.check = g.check /\ Kind(f) # "config_rule"

\* Charges are by id.
LEMMA ChargeById ==
    ASSUME NEW i, NEW f, NEW g, SameId(f, g), InCharge(i, f)
    PROVE  InCharge(i, g)
  BY DEF SameId, InCharge, Kind

LEMMA GroupIds ==
    ASSUME RulesAssumption, NEW r, NEW rules \in RuleSets,
           NEW f \in GroupFindings(r, rules), NEW g \in GroupFindings(r, rules), f.check = g.check
    PROVE  f = g
  <1>1. PICK x \in rules : f = Finding(r, RuleCheck(x), RuleSeverity(x), x)
    BY DEF GroupFindings
  <1>2. PICK y \in rules : g = Finding(r, RuleCheck(y), RuleSeverity(y), y)
    BY DEF GroupFindings
  <1>3. RuleCheck(x) = RuleCheck(y)
    BY <1>1, <1>2 DEF Finding
  <1>4. /\ x.proto = y.proto
        /\ (IF AllPorts(x) THEN <<>> ELSE x.bounds) = (IF AllPorts(y) THEN <<>> ELSE y.bounds)
    BY <1>3 DEF RuleCheck
  <1>5. x \in Rules /\ y \in Rules
    BY DEF RuleSets
  <1>6. x.bounds = y.bounds
    <2>1. \A z \in {x, y} : (IF AllPorts(z) THEN <<>> ELSE z.bounds) = z.bounds
      BY <1>5 DEF RulesAssumption, AllPorts
    <2> QED
      BY <1>4, <2>1
  <1>7. x = y
    BY <1>4, <1>6 DEF RuleSets
  <1> QED
    BY <1>1, <1>2, <1>7

LEMMA AnswerIds ==
    ASSUME RulesAssumption, NEW c \in Checkers, NEW i, IsCallOf(i, c), NEW a \in Account,
           NEW f \in Answer(i, a), NEW g \in Answer(i, a), SameId(f, g)
    PROVE  f = g
  <1>1. CASE i.call = "describe_security_groups"
    <2>1. a.groups[i.on] \in RuleSets
      BY <1>1, CallNames DEF Account
    <2>2. f \in GroupFindings(i.on, a.groups[i.on]) /\ g \in GroupFindings(i.on, a.groups[i.on])
      BY <1>1 DEF Answer
    <2> QED
      BY <2>1, <2>2, GroupIds DEF SameId
  <1>2. CASE i.call = "get_public_access_block"
    BY <1>2 DEF Answer, BlockFindings, If
  <1>3. CASE i.call = "get_bucket_encryption"
    BY <1>3 DEF Answer, EncryptionFindings, If
  <1>4. CASE i.call = "get_bucket_policy"
    BY <1>4 DEF Answer, PolicyFindings, If
  <1>5. CASE i.call = "get_bucket_versioning"
    BY <1>5 DEF Answer, VersioningFindings, If
  <1>6. CASE i.call = "list_access_keys"
    <2>1. PICK k \in KeysOf(i.on) : f \in AgedKeyFindings(k, a.keys[k])
      BY <1>6 DEF Answer
    <2>2. PICK l \in KeysOf(i.on) : g \in AgedKeyFindings(l, a.keys[l])
      BY <1>6 DEF Answer
    <2>3. f.check[2] = k
      BY <2>1, AgedShape
    <2>4. g.check[2] = l
      BY <2>2, AgedShape
    <2> QED
      BY <2>1, <2>2, <2>3, <2>4 DEF AgedKeyFindings, If, SameId
  <1>7. CASE i.call = "get_access_key_last_used"
    BY <1>7 DEF Answer, UnusedKeyFindings, If
  <1>8. CASE i.call = "list_mfa_devices"
    BY <1>8 DEF Answer, MfaFindings, If
  <1>9. CASE i.call = "list_attached_user_policies"
    BY <1>9 DEF Answer, AdminFindings, If
  <1>10. CASE i.call = "describe_volumes"
    BY <1>10 DEF Answer, VolumeFindings, If
  <1>11. CASE i.call = "get_compliance_details_by_config_rule"
    BY <1>11, OtherShape DEF Answer, SameId
  <1>12. CASE i.call \in {"list_buckets", "list_users", "describe_compliance_by_config_rule"}
    BY <1>12 DEF Answer
  <1> QED
    BY <1>1, <1>2, <1>3, <1>4, <1>5, <1>6, <1>7, <1>8, <1>9, <1>10, <1>11, <1>12, CallNames

-----------------------------------------------------------------------------
(* The account and its owners. *)

LEMMA OwnersKeepType ==
    ASSUME account \in Account, OwnerChanges
    PROVE  account' \in Account
  <1>1. CASE \E g \in Groups, rules \in RuleSets : account' = [account EXCEPT !.groups[g] = rules]
    BY <1>1 DEF Account
  <1>2. CASE \E b \in Buckets, bucket \in Bucket : account' = [account EXCEPT !.buckets[b] = bucket]
    BY <1>2 DEF Account
  <1>3. CASE \E u \in Users, user \in User : account' = [account EXCEPT !.users[u] = user]
    BY <1>3 DEF Account
  <1>4. CASE \E k \in Keys : \E key \in KeyMayBecome(account.keys[k]) :
                account' = [account EXCEPT !.keys[k] = key]
    BY <1>4 DEF Account, KeyMayBecome
  <1>5. CASE \E v \in Volumes, volume \in Volume : account' = [account EXCEPT !.volumes[v] = volume]
    BY <1>5 DEF Account
  <1>6. CASE \E x \in SUBSET (ConfigRules \X Evaluated) : account' = [account EXCEPT !.noncompliant = x]
    BY <1>6 DEF Account
  <1> QED
    BY <1>1, <1>2, <1>3, <1>4, <1>5, <1>6 DEF OwnerChanges

\* A key keeps its age, and becomes one that is used or stays what it was.
LEMMA OwnersAndKeys ==
    ASSUME account \in Account, OwnerChanges, NEW k \in Keys
    PROVE  /\ account.keys[k].aged = account.keys[k].aged'
           /\ account.keys[k].used' \in {account.keys[k].used, "recently"}
  <1>1. CASE account.keys' = account.keys
    BY <1>1
  <1>2. CASE \E x \in Keys : \E key \in KeyMayBecome(account.keys[x]) :
                account' = [account EXCEPT !.keys[x] = key]
    BY <1>2 DEF Account, KeyMayBecome
  <1>3. CASE \E g \in Groups, rules \in RuleSets : account' = [account EXCEPT !.groups[g] = rules]
    BY <1>1, <1>3 DEF Account
  <1>4. CASE \E b \in Buckets, bucket \in Bucket : account' = [account EXCEPT !.buckets[b] = bucket]
    BY <1>1, <1>4 DEF Account
  <1>5. CASE \E u \in Users, user \in User : account' = [account EXCEPT !.users[u] = user]
    BY <1>1, <1>5 DEF Account
  <1>6. CASE \E v \in Volumes, volume \in Volume : account' = [account EXCEPT !.volumes[v] = volume]
    BY <1>1, <1>6 DEF Account
  <1>7. CASE \E x \in SUBSET (ConfigRules \X Evaluated) : account' = [account EXCEPT !.noncompliant = x]
    BY <1>1, <1>7 DEF Account
  <1> QED
    BY <1>2, <1>3, <1>4, <1>5, <1>6, <1>7 DEF OwnerChanges
-----------------------------------------------------------------------------
(* The inductive invariant. *)

\* The checkers after this one.
Later(c) ==
    CASE c = "security_groups" ->
            {"s3_buckets", "iam_users", "ebs_encryption", "config_compliance"}
      [] c = "s3_buckets" -> {"iam_users", "ebs_encryption", "config_compliance"}
      [] c = "iam_users" -> {"ebs_encryption", "config_compliance"}
      [] c = "ebs_encryption" -> {"config_compliance"}
      [] OTHER -> {}

AgendaOK == \A i \in agenda : pc \in Checkers /\ IsCallOf(i, pc)

HistoryOK ==
    /\ steady \subseteq Problems(account)
    /\ pc # "idle" => Problems(account) \subseteq ever

\* What is asked of a key with the age it had has been true, if it is true still.
KeysAsked ==
    \A i \in agenda : i.call = "get_access_key_last_used" =>
        /\ i.aged = account.keys[i.on].aged
        /\ UnusedKeyFindings(i.on, i.aged, account.keys[i.on].used) \subseteq ever

AllWasTrue == found \cup batch \subseteq ever

\* What is wrong all the time is told, excused, or some call's charge.
Owed(f) ==
    \/ f \in batch \cup found \cup excused
    \/ \E i \in agenda : InCharge(i, f)
    \/ \E d \in Later(pc) : Kind(f) \in KindsOf(d)
NothingForgotten == pc \in Checkers \cup {"stamped"} => \A f \in steady : Owed(f)

FoundOfChecker ==
    /\ \A f \in found : pc \in Checkers /\ Kind(f) \in KindsOf(pc)
    /\ \A f \in batch, d \in Later(pc) \cup {pc} : Kind(f) \notin KindsOf(d)

DivisionOK ==
    /\ \A i \in agenda, j \in agenda : i # j => Apart(i, j)
    /\ \A i \in agenda, f \in found : ~InCharge(i, f)

IdsOK ==
    /\ \A f \in found, g \in found : SameId(f, g) => f = g
    /\ \A f \in batch, g \in batch : SameId(f, g) => f = g

ScannerInv ==
    /\ ScannerTypeOK /\ AgendaOK /\ HistoryOK /\ KeysAsked /\ AllWasTrue
    /\ NothingForgotten /\ FoundOfChecker /\ DivisionOK /\ IdsOK

LEMMA AfterLater ==
    ASSUME NEW c \in Checkers
    PROVE  /\ After(c) \in Checkers \cup {"stamped"} /\ c \notin Later(c)
           /\ Later(c) \subseteq Checkers
           /\ Later(c) = IF After(c) = "stamped" THEN {} ELSE Later(After(c)) \cup {After(c)}
  BY DEF After, Later

LEMMA LaterKinds ==
    ASSUME NEW c \in Checkers, NEW d \in Later(c) \cup {After(c)}, NEW kind \in KindsOf(c)
    PROVE  kind \notin KindsOf(d)
  <1>1. CASE d \in Checkers
    <2>1. c # d
      BY DEF After, Later
    <2> QED
      BY <1>1, <2>1, KindsApart
  <1>2. CASE d = "stamped"
    BY <1>2 DEF KindsOf
  <1> QED
    BY <1>1, <1>2, AfterLater

\* Severities of what calls tell.
LEMMA ToldSeverity ==
    ASSUME NEW c \in Checkers, NEW i, IsCallOf(i, c), NEW a \in Account, NEW f \in Told(i, a)
    PROVE  f.severity \in {"CRITICAL", "HIGH", "MEDIUM", "LOW"}
  <1>1. CASE f \in Answer(i, a)
    BY <1>1, AnswerShape
  <1>2. CASE \E j \in FollowUps(i, a) : f \in Answer(j, a)
    <2>1. PICK j \in FollowUps(i, a) : f \in Answer(j, a)
      BY <1>2
    <2>2. IsCallOf(j, c)
      BY FollowUpIsCall
    <2> QED
      BY <2>1, <2>2, AnswerShape
  <1> QED
    BY <1>1, <1>2 DEF Told

\* A call whose error is caught next to it told all that it is in charge of.
LEMMA CaughtIsTold ==
    ASSUME NEW c \in Checkers, NEW i, IsCallOf(i, c), NEW a \in Account, NEW error,
           CaughtAtCall(i, error), NEW f \in Problems(a), InCharge(i, f),
           i.call = "get_access_key_last_used" => i.aged = a.keys[i.on].aged,
           KeyOwnerAssumption
    PROVE  f \in Told(i, a)
  <1>1. CASE f \in Answer(i, a)
    BY <1>1 DEF Told
  <1>2. CASE \E j \in FollowUps(i, a) : InCharge(j, f)
    <2>1. PICK j \in FollowUps(i, a) : InCharge(j, f)
      BY <1>2
    <2>2. i.call = "list_access_keys"
      BY FollowUpCases DEF CaughtAtCall, BucketCalls, UserCalls
    <2>3. PICK k \in KeysOf(i.on) : j = AskForKey(k, a.keys[k].aged)
      BY <2>2, FollowUpCases
    <2>4. IsCallOf(j, c)
      BY FollowUpIsCall
    <2>5. j.call = "get_access_key_last_used" /\ j.aged = a.keys[j.on].aged
      BY <2>3 DEF AskForKey
    <2>6. FollowUps(j, a) = {}
      BY <2>5 DEF FollowUps
    <2>7. f \in Answer(j, a)
      BY <2>1, <2>4, <2>5, <2>6, ChargeIsMet
    <2> QED
      BY <2>7 DEF Told
  <1> QED
    BY <1>1, <1>2, ChargeIsMet
-----------------------------------------------------------------------------
(* Every step keeps the invariant. *)

LEMMA InitInv == ScannerInit => ScannerInv
  BY DEF ScannerInit, ScannerInv, ScannerTypeOK, AgendaOK, HistoryOK, KeysAsked, AllWasTrue,
         NothingForgotten, FoundOfChecker, DivisionOK, IdsOK

LEMMA InvokeKeepsInv ==
    ASSUME ScannerInv, Invoke
    PROVE  ScannerInv'
  <1> DEFINE c == "security_groups"
  <1>1. /\ pc' = c /\ agenda' = FirstCalls(c) /\ found' = {} /\ batch' = {} /\ account' = account
        /\ ever' = Problems(account) /\ steady' = Problems(account) /\ excused' = {}
    BY DEF Invoke
  <1>2. \A i \in FirstCalls(c) : IsCallOf(i, c) /\ i.call = "describe_security_groups"
    BY FirstIsCall, CallNames
  <1>3. ScannerTypeOK'
    <2>1. \A f \in Problems(account) : f.severity \in {"CRITICAL", "HIGH", "MEDIUM", "LOW"}
      BY ProblemShape DEF Problems
    <2> QED
      BY <1>1, <1>2, <2>1 DEF ScannerTypeOK, ScannerInv, IsCallOf
  <1>4. AgendaOK' /\ KeysAsked'
    BY <1>1, <1>2 DEF AgendaOK, KeysAsked
  <1>5. HistoryOK' /\ AllWasTrue' /\ IdsOK'
    BY <1>1 DEF HistoryOK, AllWasTrue, IdsOK
  <1>6. NothingForgotten'
    <2>1. SUFFICES ASSUME NEW f \in Problems(account)
                   PROVE  Owed(f)'
      BY <1>1 DEF NothingForgotten
    <2>2. PICK d \in Checkers : f \in CheckerProblems(d, account)
      BY DEF Problems
    <2>3. CASE d = c
      BY <1>1, <2>2, <2>3, FirstInCharge DEF Owed
    <2>4. CASE d # c
      <3>1. d \in Later(c)
        BY <2>4 DEF Later
      <3> QED
        BY <1>1, <2>2, <3>1, ProblemShape DEF Owed
    <2> QED
      BY <2>3, <2>4
  <1>7. FoundOfChecker' /\ DivisionOK'
    BY <1>1, FirstApart DEF FoundOfChecker, DivisionOK
  <1> QED
    BY <1>3, <1>4, <1>5, <1>6, <1>7 DEF ScannerInv

\* The findings of an answer among those already there.
LEMMA FoundGrows ==
    ASSUME ScannerInv, RulesAssumption, NEW i \in agenda, NEW news \in SUBSET Answer(i, account),
           found' = found \cup news, UNCHANGED <<account, pc, batch>>
    PROVE  /\ FoundOfChecker' /\ IdsOK'
           /\ \A f \in found' : f.severity \in {"CRITICAL", "HIGH", "MEDIUM", "LOW"}
  <1>1. pc \in Checkers /\ IsCallOf(i, pc) /\ account \in Account
    BY DEF ScannerInv, AgendaOK, ScannerTypeOK
  <1>2. \A f \in news : /\ InCharge(i, f) /\ Kind(f) \in KindsOf(pc)
                        /\ f.severity \in {"CRITICAL", "HIGH", "MEDIUM", "LOW"}
    BY <1>1, AnswerShape
  <1>3. FoundOfChecker'
    BY <1>2, <1>1 DEF ScannerInv, FoundOfChecker
  <1>4. \A f \in news, g \in news : SameId(f, g) => f = g
    BY <1>1, AnswerIds
  <1>5. \A f \in news, g \in found : ~SameId(f, g) /\ ~SameId(g, f)
    <2>1. SUFFICES ASSUME NEW f \in news, NEW g \in found, SameId(f, g) \/ SameId(g, f)
                   PROVE  FALSE
      OBVIOUS
    <2>2. InCharge(i, g)
      BY <1>2, <2>1, ChargeById DEF SameId, Kind
    <2> QED
      BY <2>2 DEF ScannerInv, DivisionOK
  <1>6. IdsOK'
    BY <1>4, <1>5 DEF ScannerInv, IdsOK
  <1> QED
    BY <1>2, <1>3, <1>6 DEF ScannerInv, ScannerTypeOK

LEMMA AnsweredKeepsInv ==
    ASSUME ScannerInv, RulesAssumption, KeyOwnerAssumption, NEW i \in agenda, Answered(i)
    PROVE  ScannerInv'
  <1>1. /\ ~Refused(i, account)
        /\ agenda' = (agenda \ {i}) \cup FollowUps(i, account)
        /\ found' = found \cup Answer(i, account)
        /\ UNCHANGED <<account, pc, batch, ever, steady, excused>>
    BY DEF Answered
  <1>2. pc \in Checkers /\ IsCallOf(i, pc) /\ account \in Account
    BY DEF ScannerInv, AgendaOK, ScannerTypeOK
  <1>3. \A j \in FollowUps(i, account) : IsCallOf(j, pc)
    BY <1>2, FollowUpIsCall
  <1>4. FoundOfChecker' /\ IdsOK' /\ \A f \in found' : f.severity \in {"CRITICAL", "HIGH", "MEDIUM", "LOW"}
    BY <1>1, FoundGrows
  <1>5. AgendaOK'
    BY <1>1, <1>2, <1>3 DEF ScannerInv, AgendaOK
  <1>6. ScannerTypeOK'
    <2>1. agenda' \subseteq Inquiry
      BY <1>5 DEF AgendaOK, IsCallOf
    <2> QED
      BY <1>1, <1>4, <2>1 DEF ScannerInv, ScannerTypeOK
  <1>7. HistoryOK'
    BY <1>1 DEF ScannerInv, HistoryOK
  <1>8. Problems(account) \subseteq ever
    BY <1>2 DEF ScannerInv, HistoryOK
  <1>9. KeysAsked'
    <2>1. SUFFICES ASSUME NEW j \in FollowUps(i, account), j.call = "get_access_key_last_used"
                   PROVE  /\ j.aged = account.keys[j.on].aged
                          /\ UnusedKeyFindings(j.on, j.aged, account.keys[j.on].used) \subseteq ever
      BY <1>1 DEF ScannerInv, KeysAsked
    <2>2. i.call = "list_access_keys"
      BY <2>1, FollowUpCases DEF Ask, BucketCalls, UserCalls
    <2>3. PICK k \in KeysOf(i.on) : account.keys[k].active /\ j = AskForKey(k, account.keys[k].aged)
      BY <2>2, FollowUpCases
    <2>4. account.users[i.on].exists /\ i.on \in Users
      BY <1>1, <1>2, <2>2, CallNames DEF Refused, UserCalls
    <2>5. UnusedKeyFindings(k, account.keys[k].aged, account.keys[k].used)
            \subseteq CheckerProblems("iam_users", account)
      BY <2>3, <2>4 DEF CheckerProblems, UserProblems, KeyProblems
    <2>6. UnusedKeyFindings(k, account.keys[k].aged, account.keys[k].used) \subseteq ever
      BY <1>8, <2>5 DEF Problems
    <2> QED
      BY <2>3, <2>6 DEF AskForKey
  <1>10. AllWasTrue'
    <2>1. Answer(i, account) \subseteq ever
      <3>1. CASE i.call = "get_access_key_last_used"
        BY <3>1 DEF Answer, ScannerInv, KeysAsked
      <3>2. CASE i.call # "get_access_key_last_used"
        BY <1>1, <1>2, <1>8, <3>2, AnswerIsTrue DEF Problems
      <3> QED
        BY <3>1, <3>2
    <2> QED
      BY <1>1, <2>1 DEF ScannerInv, AllWasTrue
  <1>11. NothingForgotten'
    <2>1. SUFFICES ASSUME NEW f \in steady
                   PROVE  Owed(f)'
      BY <1>1 DEF NothingForgotten
    <2>2. Owed(f) /\ f \in Problems(account)
      BY <1>2 DEF ScannerInv, NothingForgotten, HistoryOK
    <2>3. CASE InCharge(i, f)
      <3>1. i.call = "get_access_key_last_used" => i.aged = account.keys[i.on].aged
        BY DEF ScannerInv, KeysAsked
      <3>2. f \in Answer(i, account) \/ \E j \in FollowUps(i, account) : InCharge(j, f)
        BY <1>2, <2>2, <2>3, <3>1, ChargeIsMet
      <3> QED
        BY <1>1, <3>2 DEF Owed
    <2>4. CASE ~InCharge(i, f)
      BY <1>1, <2>2, <2>4 DEF Owed
    <2> QED
      BY <2>3, <2>4
  <1>12. DivisionOK'
    <2>1. \A j \in agenda \ {i}, k \in FollowUps(i, account) : Apart(j, k) /\ Apart(k, j)
      BY <1>2, FollowUpCharge DEF ScannerInv, DivisionOK, Apart
    <2>2. \A j \in FollowUps(i, account), k \in FollowUps(i, account) : j # k => Apart(j, k)
      BY FollowUpsApart
    <2>3. \A j \in agenda \ {i}, f \in Answer(i, account) : ~InCharge(j, f)
      BY <1>2, AnswerShape DEF ScannerInv, DivisionOK, Apart
    <2>4. \A j \in FollowUps(i, account), f \in Answer(i, account) \cup found : ~InCharge(j, f)
      BY <1>2, FollowUpCharge DEF ScannerInv, DivisionOK
    <2> QED
      BY <1>1, <2>1, <2>2, <2>3, <2>4 DEF ScannerInv, DivisionOK
  <1> QED
    BY <1>4, <1>5, <1>6, <1>7, <1>9, <1>10, <1>11, <1>12 DEF ScannerInv

LEMMA CallFailsKeepsInv ==
    ASSUME ScannerInv, RulesAssumption, KeyOwnerAssumption, NEW i \in agenda, NEW error,
           CallFails(i, error)
    PROVE  ScannerInv'
  <1>1. PICK pages \in SUBSET Answer(i, account) :
          /\ i.call # "get_compliance_details_by_config_rule" => pages = {}
          /\ found' = found \cup pages
    BY DEF CallFails
  <1>2. /\ CaughtAtCall(i, error) /\ agenda' = agenda \ {i}
        /\ excused' = excused \cup Told(i, account)
        /\ UNCHANGED <<account, pc, batch, ever, steady>>
    BY DEF CallFails, SkipCall
  <1>3. pc \in Checkers /\ IsCallOf(i, pc) /\ account \in Account
    BY DEF ScannerInv, AgendaOK, ScannerTypeOK
  <1>4. FoundOfChecker' /\ IdsOK' /\ \A f \in found' : f.severity \in {"CRITICAL", "HIGH", "MEDIUM", "LOW"}
    BY <1>1, <1>2, FoundGrows
  <1>5. AgendaOK' /\ KeysAsked' /\ HistoryOK'
    BY <1>2 DEF ScannerInv, AgendaOK, KeysAsked, HistoryOK
  <1>6. ScannerTypeOK'
    BY <1>2, <1>3, <1>4, ToldSeverity DEF ScannerInv, ScannerTypeOK
  <1>7. AllWasTrue'
    <2>1. pages \subseteq ever
      <3>1. CASE i.call = "get_compliance_details_by_config_rule"
        <4>1. ~Refused(i, account)
          BY <3>1 DEF Refused, BucketCalls, UserCalls
        <4>2. pages \subseteq Problems(account)
          BY <1>3, <3>1, <4>1, AnswerIsTrue DEF Problems
        <4> QED
          BY <1>3, <4>2 DEF ScannerInv, HistoryOK
      <3> QED
        BY <1>1, <3>1
    <2> QED
      BY <1>1, <1>2, <2>1 DEF ScannerInv, AllWasTrue
  <1>8. NothingForgotten'
    <2>1. SUFFICES ASSUME NEW f \in steady
                   PROVE  Owed(f)'
      BY <1>2 DEF NothingForgotten
    <2>2. Owed(f) /\ f \in Problems(account)
      BY <1>3 DEF ScannerInv, NothingForgotten, HistoryOK
    <2>3. CASE InCharge(i, f)
      <3>1. i.call = "get_access_key_last_used" => i.aged = account.keys[i.on].aged
        BY DEF ScannerInv, KeysAsked
      <3>2. f \in Told(i, account)
        BY <1>2, <1>3, <2>2, <2>3, <3>1, CaughtIsTold
      <3> QED
        BY <1>2, <3>2 DEF Owed
    <2>4. CASE ~InCharge(i, f)
      BY <1>1, <1>2, <2>2, <2>4 DEF Owed
    <2> QED
      BY <2>3, <2>4
  <1>9. DivisionOK'
    <2>1. \A j \in agenda \ {i}, f \in pages : ~InCharge(j, f)
      BY <1>3, AnswerShape DEF ScannerInv, DivisionOK, Apart
    <2> QED
      BY <1>1, <1>2, <2>1 DEF ScannerInv, DivisionOK
  <1> QED
    BY <1>4, <1>5, <1>6, <1>7, <1>8, <1>9 DEF ScannerInv
LEMMA CheckerRaisesKeepsInv ==
    ASSUME ScannerInv, NEW i \in agenda, NEW error, CheckerRaises(i, error)
    PROVE  ScannerInv'
  <1>1. /\ agenda' = {} /\ found' = {}
        /\ excused' = excused \cup CheckerProblems(pc, account)
        /\ UNCHANGED <<account, pc, batch, ever, steady>>
    BY DEF CheckerRaises
  <1>2. pc \in Checkers
    BY DEF ScannerInv, AgendaOK
  <1>3. ScannerTypeOK'
    BY <1>1, <1>2, ProblemShape DEF ScannerInv, ScannerTypeOK
  <1>4. NothingForgotten'
    <2>1. SUFFICES ASSUME NEW f \in steady
                   PROVE  Owed(f)'
      BY <1>1 DEF NothingForgotten
    <2>2. Owed(f) /\ f \in Problems(account)
      BY <1>2 DEF ScannerInv, NothingForgotten, HistoryOK
    <2>3. CASE f \in found \/ \E j \in agenda : InCharge(j, f)
      <3>1. Kind(f) \in KindsOf(pc)
        BY <1>2, <2>3, ChargeKinds DEF ScannerInv, FoundOfChecker, AgendaOK
      <3>2. PICK d \in Checkers : f \in CheckerProblems(d, account)
        BY <2>2 DEF Problems
      <3>3. d = pc
        BY <1>2, <3>1, <3>2, ProblemShape, KindsApart
      <3> QED
        BY <1>1, <3>2, <3>3 DEF Owed
    <2> QED
      BY <1>1, <2>2, <2>3 DEF Owed
  <1>5. AgendaOK' /\ HistoryOK' /\ KeysAsked' /\ AllWasTrue'
    BY <1>1 DEF ScannerInv, AgendaOK, HistoryOK, KeysAsked, AllWasTrue
  <1>6. FoundOfChecker' /\ DivisionOK' /\ IdsOK'
    BY <1>1 DEF ScannerInv, FoundOfChecker, DivisionOK, IdsOK
  <1> QED
    BY <1>3, <1>4, <1>5, <1>6 DEF ScannerInv

LEMMA CheckerEndsKeepsInv ==
    ASSUME ScannerInv, CheckerEnds
    PROVE  ScannerInv'
  <1>1. /\ pc \in Checkers /\ agenda = {}
        /\ batch' = batch \cup found /\ found' = {} /\ pc' = After(pc)
        /\ agenda' = FirstCalls(After(pc))
        /\ UNCHANGED <<account, ever, steady, excused>>
    BY DEF CheckerEnds
  <1>2. \A i \in agenda' : pc' \in Checkers /\ IsCallOf(i, pc')
    <2>1. CASE After(pc) = "stamped"
      BY <1>1, <2>1 DEF FirstCalls
    <2>2. CASE After(pc) \in Checkers
      BY <1>1, <2>2, FirstIsCall
    <2> QED
      BY <1>1, <2>1, <2>2, AfterLater
  <1>3. ScannerTypeOK' /\ AgendaOK'
    BY <1>1, <1>2, AfterLater DEF ScannerInv, ScannerTypeOK, AgendaOK, IsCallOf
  <1>4. HistoryOK' /\ AllWasTrue'
    BY <1>1 DEF ScannerInv, HistoryOK, AllWasTrue
  <1>5. \A i \in agenda' : i.call # "get_access_key_last_used"
    BY <1>1 DEF FirstCalls, Ask
  <1>6. KeysAsked'
    BY <1>5 DEF KeysAsked
  <1>7. NothingForgotten'
    <2>1. SUFFICES ASSUME NEW f \in steady
                   PROVE  Owed(f)'
      BY <1>1 DEF NothingForgotten
    <2>2. Owed(f) /\ f \in Problems(account)
      BY <1>1 DEF ScannerInv, NothingForgotten, HistoryOK
    <2>3. CASE \E d \in Later(pc) : Kind(f) \in KindsOf(d)
      <3>1. PICK d \in Later(pc) : Kind(f) \in KindsOf(d)
        BY <2>3
      <3>2. CASE d = After(pc)
        <4>1. d \in Checkers
          BY <1>1, AfterLater
        <4>2. PICK e \in Checkers : f \in CheckerProblems(e, account)
          BY <2>2 DEF Problems
        <4>3. d = e
          BY <3>1, <4>1, <4>2, ProblemShape, KindsApart
        <4>4. \E i \in FirstCalls(d) : InCharge(i, f)
          BY <4>2, <4>3, FirstInCharge
        <4> QED
          BY <1>1, <3>2, <4>4 DEF Owed
      <3>3. CASE d # After(pc)
        <4>1. d \in Later(After(pc))
          BY <1>1, <3>1, <3>3, AfterLater
        <4> QED
          BY <1>1, <3>1, <4>1 DEF Owed
      <3> QED
        BY <3>2, <3>3
    <2>4. CASE f \in batch \cup found \cup excused
      BY <1>1, <2>4 DEF Owed
    <2> QED
      BY <1>1, <2>2, <2>3, <2>4 DEF Owed
  <1>8. FoundOfChecker'
    <2>1. SUFFICES ASSUME NEW f \in batch \cup found, NEW d \in Later(After(pc)) \cup {After(pc)}
                   PROVE  Kind(f) \notin KindsOf(d)
      BY <1>1 DEF FoundOfChecker
    <2>2. CASE d = "stamped"
      BY <2>2 DEF KindsOf
    <2>3. CASE d # "stamped"
      <3>1. d \in Later(pc)
        BY <1>1, <2>3, AfterLater DEF Later
      <3> QED
        BY <1>1, <3>1, LaterKinds DEF ScannerInv, FoundOfChecker
    <2> QED
      BY <2>2, <2>3
  <1>9. DivisionOK'
    <2>1. CASE After(pc) = "stamped"
      BY <1>1, <2>1 DEF DivisionOK, FirstCalls
    <2>2. CASE After(pc) \in Checkers
      BY <1>1, <2>2, FirstApart DEF DivisionOK
    <2> QED
      BY <1>1, <2>1, <2>2, AfterLater
  <1>10. IdsOK'
    <2>1. \A f \in found, g \in batch : Kind(f) # Kind(g)
      BY DEF ScannerInv, FoundOfChecker
    <2>2. \A f \in found, g \in batch : ~SameId(f, g) /\ ~SameId(g, f)
      BY <2>1 DEF SameId, Kind
    <2> QED
      BY <1>1, <2>2 DEF ScannerInv, IdsOK
  <1> QED
    BY <1>3, <1>4, <1>6, <1>7, <1>8, <1>9, <1>10 DEF ScannerInv

LEMMA InvocationDiesKeepsInv ==
    ASSUME ScannerInv, InvocationDies
    PROVE  ScannerInv'
  <1>1. /\ pc' = "raised" /\ pc \in Checkers /\ agenda' = {} /\ found' = {} /\ batch' = {}
        /\ UNCHANGED <<account, ever, steady, excused>>
    BY DEF InvocationDies
  <1> QED
    BY <1>1 DEF ScannerInv, ScannerTypeOK, AgendaOK, HistoryOK, KeysAsked, AllWasTrue,
                NothingForgotten, FoundOfChecker, DivisionOK, IdsOK

LEMMA OwnerActsKeepsInv ==
    ASSUME ScannerInv, OwnerActs
    PROVE  ScannerInv'
  <1>1. /\ OwnerChanges
        /\ ever' = ever \cup Problems(account') /\ steady' = steady \cap Problems(account')
        /\ UNCHANGED <<pc, agenda, found, batch, excused>>
    BY DEF OwnerActs
  <1>2. account' \in Account
    BY <1>1, OwnersKeepType DEF ScannerInv, ScannerTypeOK
  <1>3. ScannerTypeOK'
    <2>1. \A f \in Problems(account') : f.severity \in {"CRITICAL", "HIGH", "MEDIUM", "LOW"}
      BY ProblemShape DEF Problems
    <2> QED
      BY <1>1, <1>2, <2>1 DEF ScannerInv, ScannerTypeOK
  <1>4. HistoryOK' /\ AllWasTrue' /\ AgendaOK'
    BY <1>1 DEF ScannerInv, HistoryOK, AllWasTrue, AgendaOK
  <1>5. KeysAsked'
    <2>1. SUFFICES ASSUME NEW i \in agenda, i.call = "get_access_key_last_used"
                   PROVE  /\ i.aged = account'.keys[i.on].aged
                          /\ UnusedKeyFindings(i.on, i.aged, account'.keys[i.on].used) \subseteq ever'
      BY <1>1 DEF KeysAsked
    <2>2. /\ i.aged = account.keys[i.on].aged
          /\ UnusedKeyFindings(i.on, i.aged, account.keys[i.on].used) \subseteq ever
      BY <2>1 DEF ScannerInv, KeysAsked
    <2>3. i.on \in Keys
      BY <2>1, CallNames DEF ScannerInv, AgendaOK
    <2>4. /\ account'.keys[i.on].aged = account.keys[i.on].aged
          /\ account'.keys[i.on].used \in {account.keys[i.on].used, "recently"}
      BY <1>1, <2>3, OwnersAndKeys DEF ScannerInv, ScannerTypeOK
    <2>5. UnusedKeyFindings(i.on, i.aged, "recently") = {}
      BY DEF UnusedKeyFindings, If
    <2> QED
      BY <1>1, <2>2, <2>4, <2>5
  <1>6. NothingForgotten'
    BY <1>1 DEF ScannerInv, NothingForgotten, Owed
  <1>7. FoundOfChecker' /\ DivisionOK' /\ IdsOK'
    BY <1>1 DEF ScannerInv, FoundOfChecker, DivisionOK, IdsOK
  <1> QED
    BY <1>3, <1>4, <1>5, <1>6, <1>7 DEF ScannerInv

LEMMA StepKeepsInv ==
    ASSUME RulesAssumption, KeyOwnerAssumption, ScannerInv, [ScannerNext]_scanVars
    PROVE  ScannerInv'
  <1>1. CASE Invoke
    BY <1>1, InvokeKeepsInv
  <1>2. ASSUME NEW i \in agenda, Answered(i) PROVE ScannerInv'
    BY <1>2, AnsweredKeepsInv
  <1>3. ASSUME NEW i \in agenda, NEW error, CallFails(i, error) PROVE ScannerInv'
    BY <1>3, CallFailsKeepsInv
  <1>4. ASSUME NEW i \in agenda, NEW error, CheckerRaises(i, error) PROVE ScannerInv'
    BY <1>4, CheckerRaisesKeepsInv
  <1>5. CASE CheckerEnds
    BY <1>5, CheckerEndsKeepsInv
  <1>6. CASE InvocationDies
    BY <1>6, InvocationDiesKeepsInv
  <1>7. CASE OwnerActs
    BY <1>7, OwnerActsKeepsInv
  <1>8. CASE UNCHANGED scanVars
    BY <1>8 DEF ScannerInv, ScannerTypeOK, AgendaOK, HistoryOK, KeysAsked, AllWasTrue,
                NothingForgotten, Owed, FoundOfChecker, DivisionOK, IdsOK
  <1> QED
    BY <1>1, <1>2, <1>3, <1>4, <1>5, <1>6, <1>7, <1>8 DEF ScannerNext, ScannerStep

\* What the checkers' calls have told, and which calls are still in charge of what,
\* is kept by every step of scanner and owners.
THEOREM ScannerInvariance == ScannerSpec => []ScannerInv
  <1>1. ScannerInit => ScannerInv
    BY InitInv
  <1>2. ScannerInv /\ [ScannerNext]_scanVars => ScannerInv'
    BY StepKeepsInv, RulesAssumption, KeyOwnerAssumption
  <1> QED
    BY <1>1, <1>2, PTL DEF ScannerSpec
-----------------------------------------------------------------------------
(* Theorems. *)

\* Whatever the account, severities are the four of config.SEVERITIES and every
\* call is one that the scanner makes.
THEOREM ScannerTypeCorrect == ScannerSpec => []ScannerTypeOK
  <1>1. ScannerInv => ScannerTypeOK
    BY DEF ScannerInv
  <1> QED
    BY <1>1, ScannerInvariance, PTL

\* The handler returns nothing that was at no time of the invocation so: a finding
\* made of two answers, such as that of an unused key, was so at the first of them.
THEOREM NothingInventedHolds == ScannerSpec => []NothingInvented
  <1>1. ScannerInv => NothingInvented
    BY DEF ScannerInv, AllWasTrue, NothingInvented
  <1> QED
    BY <1>1, ScannerInvariance, PTL

\* What was wrong all the time is missing from the batch only where a call that
\* would have told of it failed, or the checker it was a call of raised.
THEOREM OnlyFailedCallsHideHolds == ScannerSpec => []OnlyFailedCallsHide
  <1>1. ScannerInv => OnlyFailedCallsHide
    <2>1. SUFFICES ASSUME ScannerInv, pc = "stamped", NEW f \in steady
                   PROVE  f \in batch \cup excused
      BY DEF OnlyFailedCallsHide
    <2>2. agenda = {} /\ found = {} /\ Later(pc) = {}
      BY <2>1 DEF ScannerInv, AgendaOK, FoundOfChecker, Later
    <2> QED
      BY <2>1, <2>2 DEF ScannerInv, NothingForgotten, Owed
  <1> QED
    BY <1>1, ScannerInvariance, PTL

\* Whatever is wrong with the account, two findings of a batch that have one resource
\* and check are results of one Config rule.
THEOREM IdsTellFindingsApartHolds == ScannerSpec => []IdsTellFindingsApart
  <1>1. ScannerInv => IdsTellFindingsApart
    BY DEF ScannerInv, IdsOK, SameId, Kind, IdsTellFindingsApart
  <1> QED
    BY <1>1, ScannerInvariance, PTL

LEMMA LadderOfRule ==
    ASSUME RulesAssumption, NEW rule \in Rules, NEW g,
           rule.proto # "icmp" \/ rule.bounds = <<-1, -1>>
    PROVE  {f.severity : f \in GroupFindings(g, {rule})} = LadderSeverities(rule)
  <1>1. /\ rule.proto \in {"tcp", "udp", "icmp", "-1"}
        /\ rule.bounds = <<>> \/ rule.bounds \in Int \X Int
        /\ rule.sources \subseteq {"0.0.0.0/0", "::/0", "known"}
        /\ rule.proto = "-1" => rule.bounds = <<>>
        /\ rule.proto \in {"tcp", "udp"} /\ rule.bounds # <<>> => rule.bounds[1] <= rule.bounds[2]
    BY DEF RulesAssumption, Rule
  <1>2. {f.severity : f \in GroupFindings(g, {rule})} =
          IF RuleIsFlagged(rule) THEN {RuleSeverity(rule)} ELSE {}
    <2> DEFINE F == Finding(g, RuleCheck(rule), RuleSeverity(rule), rule)
    <2>1. CASE RuleIsFlagged(rule)
      <3>1. GroupFindings(g, {rule}) = {F}
        BY <2>1 DEF GroupFindings
      <3>2. F.severity = RuleSeverity(rule)
        BY DEF Finding
      <3> HIDE DEF F
      <3> QED
        BY <2>1, <3>1, <3>2
    <2>2. CASE ~RuleIsFlagged(rule)
      <3>1. GroupFindings(g, {rule}) = {}
        BY <2>2 DEF GroupFindings
      <3> QED
        BY <2>2, <3>1
    <2> QED
      BY <2>1, <2>2
  <1>3. IsOpenToWorld(rule) <=> ~(rule.sources \subseteq {"known"})
    BY <1>1 DEF IsOpenToWorld
  <1>4. AllPorts(rule) <=> rule.bounds = <<>>
    BY <1>1 DEF AllPorts
  <1>5. CASE rule.sources \subseteq {"known"}
    <2>1. LadderSeverities(rule) = {}
      BY <1>5 DEF LadderSeverities
    <2>2. ~RuleIsFlagged(rule)
      BY <1>3, <1>5 DEF RuleIsFlagged
    <2> QED
      BY <1>2, <2>1, <2>2
  <1>6. CASE ~(rule.sources \subseteq {"known"}) /\ rule.bounds = <<>>
    <2>1. RuleIsFlagged(rule) /\ RuleSeverity(rule) = "CRITICAL"
      BY <1>3, <1>4, <1>6 DEF RuleIsFlagged, RuleSeverity
    <2>2. LadderSeverities(rule) = {"CRITICAL"}
      BY <1>3, <1>6 DEF LadderSeverities, Admits, IsOpenToWorld
    <2> QED
      BY <1>2, <2>1, <2>2
  <1>7. CASE ~(rule.sources \subseteq {"known"}) /\ rule.bounds # <<>>
    <2>1. PICK lo \in Int, hi \in Int : rule.bounds = <<lo, hi>>
      BY <1>1, <1>7
    <2>2. lo <= hi
      BY <1>1, <1>7, <2>1
    <2>3. ~AllPorts(rule) /\ PortRange(rule) = lo..hi
      BY <1>4, <1>7, <2>1 DEF PortRange
    <2>4. lo..hi \subseteq {80, 443} <=> lo = hi /\ lo \in {80, 443}
      <3>1. ASSUME lo..hi \subseteq {80, 443} PROVE lo = hi /\ lo \in {80, 443}
        <4>1. lo \in {80, 443}
          BY <2>2, <3>1
        <4>2. lo < hi => lo + 1 \in {80, 443}
          BY <2>2, <3>1
        <4> QED
          BY <2>2, <4>1, <4>2
      <3>2. ASSUME lo = hi, lo \in {80, 443} PROVE lo..hi \subseteq {80, 443}
        <4>1. \A p \in lo..hi : p = lo
          BY <3>2
        <4> QED
          BY <3>2, <4>1
      <3> QED
        BY <3>1, <3>2
    <2>5. RuleIsFlagged(rule) <=> rule.bounds \notin {<<80, 80>>, <<443, 443>>}
      BY <1>3, <1>7, <2>1, <2>3, <2>4 DEF RuleIsFlagged, AllowedPublicPorts
    <2>6. PortRange(rule) \cap CriticalPorts # {} <=> Admits(rule, 22) \/ Admits(rule, 3389)
      <3>1. \A p \in Int : p \in lo..hi <=> Admits(rule, p)
        BY <1>1, <1>7, <2>1 DEF Admits
      <3>2. \A S : S \cap {22, 3389} # {} <=> 22 \in S \/ 3389 \in S
        OBVIOUS
      <3>3. PortRange(rule) \cap CriticalPorts # {}
              <=> 22 \in PortRange(rule) \/ 3389 \in PortRange(rule)
        BY <3>2 DEF CriticalPorts
      <3>4. 22 \in PortRange(rule) <=> Admits(rule, 22)
        BY <2>3, <3>1
      <3>5. 3389 \in PortRange(rule) <=> Admits(rule, 3389)
        BY <2>3, <3>1
      <3> QED
        BY <3>3, <3>4, <3>5
    <2>7. rule.bounds \in {<<80, 80>>, <<443, 443>>} => ~Admits(rule, 22) /\ ~Admits(rule, 3389)
      BY <1>1, <1>7, <2>1 DEF Admits
    <2>8. RuleSeverity(rule) = IF Admits(rule, 22) \/ Admits(rule, 3389) THEN "CRITICAL" ELSE "HIGH"
      BY <2>3, <2>6 DEF RuleSeverity
    <2>9. rule.sources \cap {"0.0.0.0/0", "::/0"} # {}
      BY <1>3, <1>7 DEF IsOpenToWorld
    <2> QED
      <3> DEFINE low == Admits(rule, 22) \/ Admits(rule, 3389)
      <3>1. CASE low
        <4>1. LadderSeverities(rule) = {"CRITICAL"}
          BY <1>7, <2>9, <3>1 DEF LadderSeverities
        <4>2. RuleIsFlagged(rule) /\ RuleSeverity(rule) = "CRITICAL"
          BY <2>5, <2>7, <2>8, <3>1
        <4> QED
          BY <1>2, <4>1, <4>2
      <3>2. CASE ~low
        <4>1. LadderSeverities(rule) = {f \in {"HIGH"} : rule.bounds \notin {<<80, 80>>, <<443, 443>>}}
          BY <1>7, <3>2 DEF LadderSeverities
        <4>2. LadderSeverities(rule) =
                IF rule.bounds \notin {<<80, 80>>, <<443, 443>>} THEN {"HIGH"} ELSE {}
          BY <4>1
        <4>3. RuleSeverity(rule) = "HIGH"
          BY <2>8, <3>2
        <4>4. CASE rule.bounds \in {<<80, 80>>, <<443, 443>>}
          BY <1>2, <2>5, <4>2, <4>4
        <4>5. CASE rule.bounds \notin {<<80, 80>>, <<443, 443>>}
          BY <1>2, <2>5, <4>2, <4>3, <4>5
        <4> QED
          BY <4>4, <4>5
      <3> HIDE DEF low
      <3> QED
        BY <3>1, <3>2
  <1> QED
    BY <1>5, <1>6, <1>7

\* For all rules with all their ports, not those of the run alone, sg_checker's
\* expansion of the range comes to the ladder of its documentation.
THEOREM LadderIsFollowedHolds == ScannerSpec => []LadderIsFollowed
  <1>1. ASSUME RulesAssumption, ScannerTypeOK PROVE LadderIsFollowed
    <2>1. \A g \in Groups : account.groups[g] \subseteq Rules
      BY <1>1 DEF ScannerTypeOK, Account, RuleSets
    <2> QED
      BY <1>1, <2>1, LadderOfRule DEF LadderIsFollowed
  <1> QED
    BY <1>1, RulesAssumption, ScannerTypeCorrect, PTL

\* wide admits all that rule admits, as the console shows it: its sources, and all
\* ports or a range around its range.
Widens(wide, rule) ==
    /\ rule.sources \subseteq wide.sources
    /\ \/ AllPorts(wide)
       \/ /\ ~AllPorts(rule) /\ ~AllPorts(wide)
          /\ wide.bounds[1] <= rule.bounds[1] /\ rule.bounds[2] <= wide.bounds[2]

\* Opening a rule further never hides its finding or makes it milder: the two
\* allowed ports shield no range that holds another one.
THEOREM WiderIsNeverMilder ==
    ASSUME NEW rule \in Rules, NEW wide \in Rules, Widens(wide, rule), NEW g,
           NEW f \in GroupFindings(g, {rule})
    PROVE  \E h \in GroupFindings(g, {wide}) :
              h.severity = "CRITICAL" \/ h.severity = f.severity
  <1>1. rule \in Rule /\ wide \in Rule
    BY RulesAssumption
  <1>2. /\ f = Finding(g, RuleCheck(rule), RuleSeverity(rule), rule)
        /\ RuleIsFlagged(rule)
    BY DEF GroupFindings
  <1>3. f.severity = RuleSeverity(rule) /\ RuleSeverity(rule) \in {"CRITICAL", "HIGH"}
    BY <1>2 DEF Finding, RuleSeverity
  <1>4. IsOpenToWorld(wide)
    BY <1>2 DEF RuleIsFlagged, IsOpenToWorld, Widens
  <1>5. CASE AllPorts(wide)
    <2>1. RuleIsFlagged(wide) /\ RuleSeverity(wide) = "CRITICAL"
      BY <1>4, <1>5 DEF RuleIsFlagged, RuleSeverity
    <2>2. Finding(g, RuleCheck(wide), RuleSeverity(wide), wide) \in GroupFindings(g, {wide})
      BY <2>1 DEF GroupFindings
    <2> QED
      BY <2>1, <2>2 DEF Finding
  <1>6. CASE ~AllPorts(wide)
    <2>1. ~AllPorts(rule) /\ rule.bounds \in Int \X Int /\ wide.bounds \in Int \X Int
      BY <1>1, <1>6 DEF Widens, AllPorts, Rule
    <2>2. PortRange(rule) \subseteq PortRange(wide)
      BY <1>6, <2>1 DEF Widens, PortRange
    <2>3. RuleIsFlagged(wide)
      BY <1>2, <1>4, <1>6, <2>1, <2>2 DEF RuleIsFlagged
    <2>4. RuleSeverity(rule) = "CRITICAL" => RuleSeverity(wide) = "CRITICAL"
      BY <2>1, <2>2 DEF RuleSeverity
    <2>5. RuleSeverity(wide) \in {"CRITICAL", "HIGH"}
      BY DEF RuleSeverity
    <2>6. Finding(g, RuleCheck(wide), RuleSeverity(wide), wide) \in GroupFindings(g, {wide})
      BY <2>3 DEF GroupFindings
    <2> QED
      BY <1>3, <2>4, <2>5, <2>6 DEF Finding
  <1> QED
    BY <1>5, <1>6
=============================================================================
