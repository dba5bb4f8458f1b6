------------------------------ MODULE BucketAudit ------------------------------
(***************************************************************************)
(* Discovery of dark-data-storage: internal/awsx audits every bucket with  *)
(* a series of independent S3 calls, internal/discovery scores the facts   *)
(* and selects the buckets to scan.  Any call may be refused, Ctrl-C makes *)
(* the rest of them fail, and the owner may reconfigure a bucket between   *)
(* two calls.  The order of the buckets in the report is left out.         *)
(***************************************************************************)
EXTENDS Naturals, FiniteSets

CONSTANTS
    Buckets,
    NoBucket,    \* no audit is under way
    Configs,     \* the configurations a bucket is found in
    MaxChanges   \* bound: reconfigurations during one bucket's audit

\* What S3 knows of a bucket: an ACL grant to everybody, the bucket policy, the
\* Public Access Block's IgnorePublicAcls and RestrictPublicBuckets, default
\* encryption, tags.
Config == [acl : BOOLEAN, policy : {"none", "private", "public"},
           pab : SUBSET {"ignoreAcls", "restrict"}, enc : BOOLEAN, tags : BOOLEAN]

ASSUME BucketAssumption == NoBucket \notin Buckets
ASSUME ConfigAssumption == Configs \subseteq Config
ASSUME ChangeAssumption == MaxChanges \in Nat

VARIABLES
    phase,      \* list, audit, done or failed
    todo,       \* listed buckets still to audit
    current,    \* the bucket being audited
    config,     \* S3: its configuration
    step,       \* its next audit call
    draft,      \* its BucketFacts, and what auditPublic holds in locals
    facts,      \* BucketFacts of the audited buckets
    cancelled,  \* signal.NotifyContext's context is done
    opts,       \* --all-buckets and --min-tier, chosen where they matter
    reported,   \* the buckets that match --filter
    selected    \* the buckets to scan

vars == <<phase, todo, current, config, step, draft, facts, cancelled, opts, reported,
          selected>>

Known == {"yes", "no", "unknown"}
Gap   == {"exposed", "unencrypted", "untagged"}

\* BucketFacts; errors holds the kind of call that failed.  always and ever are
\* history: the gaps that stood all through the audit, and at some moment of it.
Facts == [public : BOOLEAN, enc : Known, tag : Known,
          errors : SUBSET {"exposure", "other"},
          always : SUBSET Gap, ever : SUBSET Gap, changes : 0..MaxChanges]
Draft == [byACL : BOOLEAN, byPolicy : BOOLEAN, f : Facts]

\* What is wrong with a configuration.  IgnorePublicAcls takes ACL grants out of
\* force, RestrictPublicBuckets a public policy.
Gaps(c) ==
    {g \in Gap :
        CASE g = "exposed" -> \/ c.acl /\ "ignoreAcls" \notin c.pab
                              \/ c.policy = "public" /\ "restrict" \notin c.pab
          [] g = "unencrypted" -> ~c.enc
          [] g = "untagged"    -> ~c.tags}

Tiers    == <<"low", "medium", "high", "critical">>
MinTiers == {"none", "low", "medium", "high", "critical"}
Rank(t)  == CHOOSE i \in 1..4 : Tiers[i] = t

-----------------------------------------------------------------------------
(* discovery.Assess and discovery.Select.                                   *)

Score(f) ==
    (IF f.public THEN 60 ELSE 0) + (IF f.enc = "no" THEN 25 ELSE 0)
    + (IF f.tag = "no" THEN 15 ELSE 0) + (IF f.errors # {} THEN 10 ELSE 0)

\* Mutant: the tier boundary is exclusive.
TierExclusive(f) ==
    LET s == Score(f)
    IN  IF s > 60 THEN "critical"
        ELSE IF s > 40 THEN "high" ELSE IF s > 20 THEN "medium" ELSE "low"

Tier(f) ==
    LET s == Score(f)
    IN  IF s >= 60 THEN "critical"
        ELSE IF s >= 40 THEN "high" ELSE IF s >= 20 THEN "medium" ELSE "low"

\* Mutant: only a confirmed gap flags a bucket.
FlaggedConfirmed(f) == f.public \/ f.enc = "no" \/ f.tag = "no"

Flagged(f) == f.public \/ f.enc = "no" \/ f.tag = "no" \/ f.errors # {}

Chosen(f, all, min) ==
    /\ all \/ Flagged(f)
    /\ min # "none" => Rank(Tier(f)) >= Rank(min)

-----------------------------------------------------------------------------
NoConfig == [acl |-> FALSE, policy |-> "none", pab |-> {}, enc |-> FALSE, tags |-> FALSE]

NewFacts(gaps) == [public |-> FALSE, enc |-> "unknown", tag |-> "unknown", errors |-> {},
                   always |-> gaps, ever |-> gaps, changes |-> 0]

NewDraft(gaps) == [byACL |-> FALSE, byPolicy |-> FALSE, f |-> NewFacts(gaps)]

Init ==
    /\ phase = "list" /\ todo = {} /\ current = NoBucket
    /\ config = NoConfig /\ step = "region" /\ draft = NewDraft({})
    /\ facts = [b \in Buckets |-> NewFacts({})]
    /\ cancelled = FALSE
    /\ opts = [all |-> FALSE, min |-> "none"]
    /\ reported = {} /\ selected = {}

\* ListBuckets; an error ends the run.
List ==
    /\ phase = "list"
    /\ \/ ~cancelled /\ todo' = Buckets /\ phase' = "audit"
       \/ phase' = "failed" /\ UNCHANGED todo
    /\ UNCHANGED <<current, config, step, draft, facts, cancelled, opts, reported, selected>>

\* DiscoverBuckets' loop takes up a bucket.
Take(b) ==
    /\ phase = "audit" /\ current = NoBucket /\ b \in todo
    /\ current' = b /\ todo' = todo \ {b}
    /\ config' \in Configs /\ draft' = NewDraft(Gaps(config')) /\ step' = "region"
    /\ UNCHANGED <<phase, facts, cancelled, opts, reported, selected>>

\* An audit call and what is asked next; the answer goes into the draft.
Ask(call, then, answer) ==
    /\ current # NoBucket /\ step = call
    /\ draft' = answer /\ step' = then
    /\ UNCHANGED <<phase, todo, current, config, facts, cancelled, opts, reported, selected>>

Answered == ~cancelled

Failed(kind) == [draft EXCEPT !.f.errors = @ \cup {kind}]

Region ==
    \/ Answered /\ Ask("region", "acl", draft)
    \/ Ask("region", "acl", Failed("other"))

Acl ==
    \/ Answered /\ Ask("acl", "policy", [draft EXCEPT !.byACL = config.acl])
    \/ Ask("acl", "policy", Failed("exposure"))

\* "NoSuchBucketPolicy" is not an audit gap.
PolicyStatus ==
    \/ Answered /\ Ask("policy", "pab", [draft EXCEPT !.byPolicy = config.policy = "public"])
    \/ Ask("policy", "pab", Failed("exposure"))

\* Mutant: one of the two settings is taken for enough.
PublicAccessBlockEither ==
    \/ /\ Answered
       /\ Ask("pab", "encryption",
              [draft EXCEPT !.f.public = (draft.byACL \/ draft.byPolicy) /\ config.pab = {}])
    \/ Ask("pab", "encryption",
           [draft EXCEPT !.f.public = draft.byACL \/ draft.byPolicy,
                         !.f.errors = @ \cup {"exposure"}])

\* Only a block of both ACLs and policies counts; without an answer nothing is
\* blocked.  The end of auditPublic.
PublicAccessBlock ==
    \/ /\ Answered
       /\ Ask("pab", "encryption",
              [draft EXCEPT !.f.public = /\ draft.byACL \/ draft.byPolicy
                                         /\ config.pab # {"ignoreAcls", "restrict"}])
    \/ Ask("pab", "encryption",
           [draft EXCEPT !.f.public = draft.byACL \/ draft.byPolicy,
                         !.f.errors = @ \cup {"exposure"}])

\* Mutant: a refused call is taken for "no default encryption".
EncryptionDenied ==
    \/ Answered /\ Ask("encryption", "tagging",
                       [draft EXCEPT !.f.enc = IF config.enc THEN "yes" ELSE "no"])
    \/ Ask("encryption", "tagging", [draft EXCEPT !.f.enc = "no"])

\* "Not found" means confirmed absent, any other failure unknown.
Encryption ==
    \/ Answered /\ Ask("encryption", "tagging",
                       [draft EXCEPT !.f.enc = IF config.enc THEN "yes" ELSE "no"])
    \/ Ask("encryption", "tagging", Failed("other"))

Tagging ==
    \/ Answered /\ Ask("tagging", "count",
                       [draft EXCEPT !.f.tag = IF config.tags THEN "yes" ELSE "no"])
    \/ Ask("tagging", "count", Failed("other"))

\* The approximate object count, unless --audit-list is 0; the facts are kept.
Count ==
    /\ current # NoBucket /\ step = "count"
    /\ \E f \in {draft.f, Failed("other").f} : facts' = [facts EXCEPT ![current] = f]
    /\ current' = NoBucket
    /\ UNCHANGED <<phase, todo, config, step, draft, cancelled, opts, reported, selected>>

\* filterFacts, AssessAll and Select.
Select ==
    /\ phase = "audit" /\ current = NoBucket /\ todo = {}
    /\ \E matching \in SUBSET Buckets : reported' = matching
    /\ opts' \in [all : BOOLEAN, min : MinTiers]
    /\ selected' = {b \in reported' : Chosen(facts[b], opts'.all, opts'.min)}
    /\ phase' = "done"
    /\ UNCHANGED <<todo, current, config, step, draft, facts, cancelled>>

\* The owner reconfigures the bucket under audit, one setting at a time.
Reconfigure ==
    /\ current # NoBucket /\ draft.f.changes < MaxChanges
    /\ \E c \in Config :
         /\ Cardinality({x \in DOMAIN config : c[x] # config[x]}) = 1
         /\ config' = c
         /\ draft' = [draft EXCEPT !.f.always = @ \cap Gaps(c), !.f.ever = @ \cup Gaps(c),
                                   !.f.changes = @ + 1]
    /\ UNCHANGED <<phase, todo, current, step, facts, cancelled, opts, reported, selected>>

Interrupt ==
    /\ phase \in {"list", "audit"} /\ ~cancelled
    /\ cancelled' = TRUE
    /\ UNCHANGED <<phase, todo, current, config, step, draft, facts, opts, reported, selected>>

Audit == Region \/ Acl \/ PolicyStatus \/ PublicAccessBlock \/ Encryption \/ Tagging \/ Count

Next ==
    \/ List \/ \E b \in Buckets : Take(b)
    \/ Audit \/ Select \/ Reconfigure \/ Interrupt

Spec == Init /\ [][Next]_vars

-----------------------------------------------------------------------------
(* Properties.                                                              *)

TypeOK ==
    /\ phase \in {"list", "audit", "done", "failed"} /\ todo \in SUBSET Buckets
    /\ current \in Buckets \cup {NoBucket} /\ config \in Config
    /\ step \in {"region", "acl", "policy", "pab", "encryption", "tagging", "count"}
    /\ draft \in Draft /\ facts \in [Buckets -> Facts] /\ cancelled \in BOOLEAN
    /\ opts \in [all : BOOLEAN, min : MinTiers]
    /\ reported \in SUBSET Buckets /\ selected \in SUBSET reported

\* The buckets whose audit is over.
Audited == IF phase \in {"audit", "done"} THEN Buckets \ (todo \cup {current}) ELSE {}

\* A bucket with an exposure or a governance gap that stood all through its audit
\* is flagged, whichever calls failed or were cut off by Ctrl-C, even if one
\* setting changed meanwhile.  (Two changes can move an exposure from the policy,
\* not read yet, to the ACL, read already.)
DarkIsFlagged ==
    \A b \in Audited :
        LET f == facts[b]
        IN  f.always \ (IF f.changes > 1 THEN {"exposed"} ELSE {}) # {} => Flagged(f)

\* A bucket is never penalized for a property the audit could not see: points for
\* missing encryption or tags only when they were missing (README:85).
NoBlindPenalty ==
    \A b \in Audited : /\ facts[b].enc = "no" => "unencrypted" \in facts[b].ever
                       /\ facts[b].tag = "no" => "untagged" \in facts[b].ever

\* A bucket that a part of the audit could not read is not passed off as governed
\* (README:69 "reported (and flagged), never silently skipped").
UnknownIsFlagged ==
    \A b \in Audited : "unknown" \in {facts[b].enc, facts[b].tag} => Flagged(facts[b])

\* Whatever floor --min-tier sets, a bucket that was exposed all through its audit
\* is scanned, if its exposure could be read and at most one setting changed.
ExposedIsSelected ==
    phase = "done" =>
        \A b \in reported :
            /\ "exposed" \in facts[b].always /\ facts[b].changes <= 1
            /\ "exposure" \notin facts[b].errors
            => b \in selected

-----------------------------------------------------------------------------
(* A statement of the documentation that the code does not keep.            *)

\* README:75 "publicly accessible via policy and/or ACL, unless a Public Access
\* Block neutralizes it": a bucket reported public was reachable.
PublicIsReachable ==
    \A b \in Audited : facts[b].public /\ facts[b].errors = {} =>
                           "exposed" \in facts[b].ever

=============================================================================
