---------------------------- MODULE SecurityScanner ----------------------------
(***************************************************************************)
(* An invocation of the security scanner, security_scanner/handler.py: its *)
(* five checkers one after the other, call by call, while the account's    *)
(* owners change what the calls look at.  Any call may fail; where the     *)
(* error is caught decides how many findings are lost with it.             *)
(***************************************************************************)
EXTENDS SecurityChecks

VARIABLES
    account,    \* what the AWS APIs show now
    pc,         \* the checker at work, or where the invocation is
    agenda,     \* the calls this checker has still to make
    found,      \* findings of this checker: lost if it raises
    batch,      \* findings of the checkers that are over
    ever,       \* findings that were true at some time since the start (history)
    steady,     \* findings that have been true all the time since then (history)
    excused     \* findings that failed calls may have cost (history)

scannerVars == <<pc, agenda, found, batch>>
historyVars == <<ever, steady, excused>>
scanVars == <<account, scannerVars, historyVars>>

Checkers == {"security_groups", "s3_buckets", "iam_users", "ebs_encryption", "config_compliance"}

After(c) ==
    CASE c = "security_groups" -> "s3_buckets"
      [] c = "s3_buckets" -> "iam_users"
      [] c = "iam_users" -> "ebs_encryption"
      [] c = "ebs_encryption" -> "config_compliance"
      [] c = "config_compliance" -> "stamped"

BucketCalls == {"get_public_access_block", "get_bucket_encryption", "get_bucket_policy",
                "get_bucket_versioning"}
UserCalls == {"list_access_keys", "list_mfa_devices", "list_attached_user_policies"}
Calls == BucketCalls \cup UserCalls \cup
    {"describe_security_groups", "list_buckets", "list_users", "get_access_key_last_used",
     "describe_volumes", "describe_compliance_by_config_rule",
     "get_compliance_details_by_config_rule"}

\* aged: what the list of keys said of this key.
Ask(call, on) == [call |-> call, on |-> on, aged |-> FALSE]
AskForKey(k, aged) == [call |-> "get_access_key_last_used", on |-> k, aged |-> aged]
Inquiry == [call : Calls, on : Groups \cup Buckets \cup Users \cup Keys \cup Volumes \cup
                               ConfigRules \cup {"account"}, aged : BOOLEAN]

\* The pages of a paginator are separate calls, each with any one of the resources.
FirstCalls(c) ==
    CASE c = "security_groups" -> {Ask("describe_security_groups", g) : g \in Groups}
      [] c = "s3_buckets" -> {Ask("list_buckets", "account")}
      [] c = "iam_users" -> {Ask("list_users", u) : u \in Users}
      [] c = "ebs_encryption" -> {Ask("describe_volumes", v) : v \in Volumes}
      [] c = "config_compliance" -> {Ask("describe_compliance_by_config_rule", "account")}
      [] OTHER -> {}

KeysOf(u) == {k \in Keys : KeyOwner[k] = u}

\* Mutant: no status filter, inactive keys are asked about too.
MutantInactiveToo(u, a) == {AskForKey(k, a.keys[k].aged) : k \in KeysOf(u)}

KeyInquiries(u, a) == {AskForKey(k, a.keys[k].aged) : k \in {x \in KeysOf(u) : a.keys[x].active}}

\* The calls that an answer gives rise to.
FollowUps(i, a) ==
    CASE i.call = "list_buckets" ->
            {Ask(call, b) : call \in BucketCalls, b \in {x \in Buckets : a.buckets[x].exists}}
      [] i.call = "list_users" -> {Ask(call, i.on) : call \in {x \in UserCalls : a.users[i.on].exists}}
      [] i.call = "list_access_keys" -> KeyInquiries(i.on, a)
      [] i.call = "describe_compliance_by_config_rule" ->
            {Ask("get_compliance_details_by_config_rule", e[1]) : e \in a.noncompliant}
      [] OTHER -> {}

\* The findings made of an answer.
Answer(i, a) ==
    CASE i.call = "describe_security_groups" -> GroupFindings(i.on, a.groups[i.on])
      [] i.call = "get_public_access_block" -> BlockFindings(i.on, a.buckets[i.on])
      [] i.call = "get_bucket_encryption" -> EncryptionFindings(i.on, a.buckets[i.on])
      [] i.call = "get_bucket_policy" -> PolicyFindings(i.on, a.buckets[i.on])
      [] i.call = "get_bucket_versioning" -> VersioningFindings(i.on, a.buckets[i.on])
      [] i.call = "list_access_keys" -> UNION {AgedKeyFindings(k, a.keys[k]) : k \in KeysOf(i.on)}
      [] i.call = "get_access_key_last_used" -> UnusedKeyFindings(i.on, i.aged, a.keys[i.on].used)
      [] i.call = "list_mfa_devices" -> MfaFindings(i.on, a.users[i.on])
      [] i.call = "list_attached_user_policies" -> AdminFindings(i.on, a.users[i.on])
      [] i.call = "describe_volumes" -> VolumeFindings(i.on, a.volumes[i.on])
      [] i.call = "get_compliance_details_by_config_rule" -> ConfigFindings(i.on, a.noncompliant)
      [] OTHER -> {}

\* A call on a bucket or a user that is gone by now is refused.
Refused(i, a) ==
    \/ i.call \in BucketCalls /\ ~a.buckets[i.on].exists
    \/ i.call \in UserCalls /\ ~a.users[i.on].exists

\* The calls for one resource are made in the order of the code; the order of
\* resources is that of AWS's lists.
Place(i) ==
    CASE i.call \in {"get_access_key_last_used", "get_bucket_encryption"} -> 1
      [] i.call \in {"list_mfa_devices", "get_bucket_policy"} -> 2
      [] i.call \in {"list_attached_user_policies", "get_bucket_versioning"} -> 3
      [] OTHER -> 0
Subject(i) == IF i.call = "get_access_key_last_used" THEN KeyOwner[i.on] ELSE i.on
InTurn(i) ==
    i \in agenda /\ \A j \in agenda : Subject(j) = Subject(i) => Place(i) <= Place(j)

-----------------------------------------------------------------------------
(* What is wrong with an account, as the checkers' documentation lists it. *)

BucketProblems(b, bucket) ==
    {f \in BlockFindings(b, bucket) \cup EncryptionFindings(b, bucket) \cup
           PolicyFindings(b, bucket) \cup VersioningFindings(b, bucket) : bucket.exists}

KeyProblems(k, key) ==
    AgedKeyFindings(k, key)
      \cup {f \in UnusedKeyFindings(k, key.aged, key.used) : key.active}

UserProblems(u, a) ==
    {f \in MfaFindings(u, a.users[u]) \cup AdminFindings(u, a.users[u]) \cup
           UNION {KeyProblems(k, a.keys[k]) : k \in KeysOf(u)} : a.users[u].exists}

CheckerProblems(c, a) ==
    CASE c = "security_groups" -> UNION {GroupFindings(g, a.groups[g]) : g \in Groups}
      [] c = "s3_buckets" -> UNION {BucketProblems(b, a.buckets[b]) : b \in Buckets}
      [] c = "iam_users" -> UNION {UserProblems(u, a) : u \in Users}
      [] c = "ebs_encryption" -> UNION {VolumeFindings(v, a.volumes[v]) : v \in Volumes}
      [] c = "config_compliance" -> UNION {ConfigFindings(r, a.noncompliant) : r \in ConfigRules}

Problems(a) == UNION {CheckerProblems(c, a) : c \in Checkers}

-----------------------------------------------------------------------------
(* The invocation. *)

ScannerTypeOK ==
    /\ account \in Account
    /\ pc \in Checkers \cup {"idle", "stamped", "raised"}
    /\ agenda \subseteq Inquiry
    /\ \A fs \in {found, batch, ever, steady, excused} : \A f \in fs :
          f.severity \in {"CRITICAL", "HIGH", "MEDIUM", "LOW"}

ScannerInit ==
    /\ account \in Account
    /\ pc = "idle"
    /\ agenda = {} /\ found = {} /\ batch = {}
    /\ ever = {} /\ steady = {} /\ excused = {}

\* By the scan workflow, for the first time, on schedule or as a retry.
Invoke ==
    /\ pc \in {"idle", "stamped", "raised"}
    /\ pc' = "security_groups"
    /\ agenda' = FirstCalls("security_groups")
    /\ found' = {} /\ batch' = {}
    /\ ever' = Problems(account) /\ steady' = Problems(account) /\ excused' = {}
    /\ UNCHANGED account

Answered(i) ==
    /\ InTurn(i) /\ ~Refused(i, account)
    /\ agenda' = (agenda \ {i}) \cup FollowUps(i, account)
    /\ found' = found \cup Answer(i, account)
    /\ UNCHANGED <<account, pc, batch, historyVars>>

\* Mutant: the keys of a user are given up with the first that cannot be asked about.
MutantKeysGivenUp(i) ==
    agenda' = {j \in agenda : j.call # i.call}

\* The error is logged and the next call made.
SkipCall(i) == agenda' = agenda \ {i}

\* Where an error is caught next to its call.  check_s3_buckets catches every
\* exception of a bucket's checks; in the others it is ClientError only, and a
\* timeout or a lost connection is not one.
CaughtAtCall(i, error) ==
    \/ i.call \in BucketCalls
    \/ /\ error = "ClientError"
       /\ i.call \in UserCalls \cup
             {"get_access_key_last_used", "get_compliance_details_by_config_rule"}

\* What a call would have told, the calls that follow it included.
Told(i, a) == Answer(i, a) \cup UNION {Answer(j, a) : j \in FollowUps(i, a)}

\* Of the details of a Config rule the pages before the one that fails stay.
CallFails(i, error) ==
    /\ InTurn(i) /\ CaughtAtCall(i, error)
    /\ Refused(i, account) => error = "ClientError"
    /\ SkipCall(i)
    /\ \E pages \in SUBSET Answer(i, account) :
          /\ i.call # "get_compliance_details_by_config_rule" => pages = {}
          /\ found' = found \cup pages
    /\ excused' = excused \cup Told(i, account)
    /\ UNCHANGED <<account, pc, batch, ever, steady>>

\* _run_check, or the checker's outermost except, returns no findings.
CheckerRaises(i, error) ==
    /\ InTurn(i) /\ ~CaughtAtCall(i, error)
    /\ Refused(i, account) => error = "ClientError"
    /\ agenda' = {} /\ found' = {}
    /\ excused' = excused \cup CheckerProblems(pc, account)
    /\ UNCHANGED <<account, pc, batch, ever, steady>>

\* After the last checker the batch is stamped and handed to the upserts of Findings.
CheckerEnds ==
    /\ pc \in Checkers /\ agenda = {}
    /\ batch' = batch \cup found
    /\ found' = {}
    /\ pc' = After(pc)
    /\ agenda' = FirstCalls(After(pc))
    /\ UNCHANGED <<account, historyVars>>

\* The Lambda times out or is killed: nothing of this invocation is stored.
InvocationDies ==
    /\ pc \in Checkers
    /\ pc' = "raised"
    /\ agenda' = {} /\ found' = {} /\ batch' = {}
    /\ UNCHANGED <<account, historyVars>>

ScannerStep ==
    \/ Invoke
    \/ \E i \in agenda :
          \/ Answered(i)
          \/ \E error \in {"ClientError", "other"} : CallFails(i, error) \/ CheckerRaises(i, error)
    \/ CheckerEnds
    \/ InvocationDies

\* Within an invocation a key gets no older and is used, if at all, now.
KeyMayBecome(key) ==
    {k \in AccessKey : k.aged = key.aged /\ k.used \in {key.used, "recently"}}

\* One thing of the account changes.
OwnerChanges ==
    \/ \E g \in Groups, rules \in RuleSets : account' = [account EXCEPT !.groups[g] = rules]
    \/ \E b \in Buckets, bucket \in Bucket : account' = [account EXCEPT !.buckets[b] = bucket]
    \/ \E u \in Users, user \in User : account' = [account EXCEPT !.users[u] = user]
    \/ \E k \in Keys : \E key \in KeyMayBecome(account.keys[k]) :
          account' = [account EXCEPT !.keys[k] = key]
    \/ \E v \in Volumes, volume \in Volume : account' = [account EXCEPT !.volumes[v] = volume]
    \/ \E x \in SUBSET (ConfigRules \X Evaluated) : account' = [account EXCEPT !.noncompliant = x]

OwnerActs ==
    /\ OwnerChanges
    /\ account' # account
    /\ ever' = ever \cup Problems(account')
    /\ steady' = steady \cap Problems(account')
    /\ UNCHANGED <<scannerVars, excused>>

ScannerNext == ScannerStep \/ OwnerActs

ScannerSpec == ScannerInit /\ [][ScannerNext]_scanVars

-----------------------------------------------------------------------------
(* Properties. *)

\* A batch tells of nothing that was not so at some time of the invocation,
\* although a finding may be made of two answers with changes in between.
NothingInvented == pc = "stamped" => batch \subseteq ever

\* What was wrong all the time is in the batch, unless a call that would have
\* told of it failed or its checker raised: an error hides what it concerns,
\* not other keys, users or buckets, and no other checker's findings.
OnlyFailedCallsHide == pc = "stamped" => steady \subseteq batch \cup excused

\* Two findings of a batch never get one finding_id, so that no upsert of the
\* batch overwrites another, "two open rules must produce two ids": save the
\* results of one Config rule, whose ids leave out the type of the resource.
IdsTellFindingsApart ==
    \A f, g \in batch :
        f.resource = g.resource /\ f.check = g.check => f = g \/ f.check[1] = "config_rule"

\* The ladder of sg_checker: open to the world is CRITICAL where it lets in SSH,
\* RDP or everything, nothing for exactly port 80 or 443, and HIGH otherwise, ICMP
\* of all types included.
Admits(rule, port) ==
    rule.proto = "-1" \/ rule.bounds = <<>> \/ (rule.bounds[1] <= port /\ port <= rule.bounds[2])

LadderSeverities(rule) ==
    CASE rule.sources \subseteq {"known"} -> {}
      [] rule.sources \cap {"0.0.0.0/0", "::/0"} # {} /\ (Admits(rule, 22) \/ Admits(rule, 3389))
            -> {"CRITICAL"}
      [] OTHER -> {f \in {"HIGH"} : rule.bounds \notin {<<80, 80>>, <<443, 443>>}}

\* One ICMP type is no range of ports: what becomes of it is left open here.
LadderIsFollowed ==
    \A g \in Groups : \A rule \in account.groups[g] :
        rule.proto # "icmp" \/ rule.bounds = <<-1, -1>> =>
            {f.severity : f \in GroupFindings(g, {rule})} = LadderSeverities(rule)
=============================================================================
