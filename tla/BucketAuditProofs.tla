--------------------------- MODULE BucketAuditProofs ---------------------------
(***************************************************************************)
(* Proofs about BucketAudit: for any set of buckets, any configurations and *)
(* any number of reconfigurations, dark buckets are flagged and exposed     *)
(* ones are selected.                                                      *)
(***************************************************************************)
EXTENDS BucketAudit, FiniteSetTheorems, TLAPS

Steps == {"region", "acl", "policy", "pab", "encryption", "tagging", "count"}

-----------------------------------------------------------------------------
(* What is wrong with a configuration, gap by gap.                          *)

LEMMA GapsOf ==
    ASSUME NEW c
    PROVE  /\ Gaps(c) \subseteq Gap
           /\ "exposed" \in Gaps(c) <=> \/ c.acl /\ "ignoreAcls" \notin c.pab
                                        \/ c.policy = "public" /\ "restrict" \notin c.pab
           /\ "unencrypted" \in Gaps(c) <=> ~c.enc
           /\ "untagged" \in Gaps(c) <=> ~c.tags
BY DEF Gaps, Gap

-----------------------------------------------------------------------------
(* Types.                                                                   *)

LEMMA NewDraftType ==
    ASSUME NEW g \in SUBSET Gap
    PROVE  NewDraft(g) \in Draft /\ NewFacts(g) \in Facts
BY ChangeAssumption DEF NewDraft, NewFacts, Draft, Facts, Known

LEMMA FailedType ==
    ASSUME draft \in Draft, NEW kind \in {"exposure", "other"}
    PROVE  Failed(kind) \in Draft
BY DEF Failed, Draft, Facts

LEMMA TypeInit == Init => TypeOK
<1> SUFFICES ASSUME Init PROVE TypeOK
  OBVIOUS
<1>1. draft \in Draft /\ facts \in [Buckets -> Facts]
  BY NewDraftType DEF Init
<1>2. config \in Config
  BY DEF Init, NoConfig, Config
<1> QED
  BY <1>1, <1>2 DEF Init, TypeOK, MinTiers

\* What an audit call leaves alone.
AskFrame == UNCHANGED <<phase, todo, current, config, facts, cancelled, opts, reported, selected>>

LEMMA AuditType == TypeOK /\ (Audit \/ Reconfigure) => draft' \in Draft
<1> SUFFICES ASSUME TypeOK, Audit \/ Reconfigure PROVE draft' \in Draft
  OBVIOUS
<1> USE DEF TypeOK
<1>1. ASSUME Region PROVE draft' \in Draft
  BY <1>1, FailedType DEF Region, Ask
<1>2. ASSUME Acl PROVE draft' \in Draft
  <2>1. [draft EXCEPT !.byACL = config.acl] \in Draft
    BY DEF Draft, Config
  <2> QED
    BY <1>2, <2>1, FailedType DEF Acl, Ask
<1>3. ASSUME PolicyStatus PROVE draft' \in Draft
  <2>1. [draft EXCEPT !.byPolicy = config.policy = "public"] \in Draft
    BY DEF Draft
  <2> QED
    BY <1>3, <2>1, FailedType DEF PolicyStatus, Ask
<1>4. ASSUME PublicAccessBlock PROVE draft' \in Draft
  <2>1. \A x \in BOOLEAN : [draft EXCEPT !.f.public = x] \in Draft
    BY DEF Draft, Facts
  <2>2. \A x \in BOOLEAN :
          [draft EXCEPT !.f.public = x, !.f.errors = @ \cup {"exposure"}] \in Draft
    BY DEF Draft, Facts
  <2>3. /\ (draft.byACL \/ draft.byPolicy) \in BOOLEAN
        /\ (/\ draft.byACL \/ draft.byPolicy
            /\ config.pab # {"ignoreAcls", "restrict"}) \in BOOLEAN
    BY DEF Draft
  <2> QED
    BY <1>4, <2>1, <2>2, <2>3 DEF PublicAccessBlock, Ask
<1>5. ASSUME Encryption PROVE draft' \in Draft
  <2>1. \A x \in Known : [draft EXCEPT !.f.enc = x] \in Draft
    BY DEF Draft, Facts
  <2> QED
    BY <1>5, <2>1, FailedType DEF Encryption, Ask, Known
<1>6. ASSUME Tagging PROVE draft' \in Draft
  <2>1. \A x \in Known : [draft EXCEPT !.f.tag = x] \in Draft
    BY DEF Draft, Facts
  <2> QED
    BY <1>6, <2>1, FailedType DEF Tagging, Ask, Known
<1>7. ASSUME Count PROVE draft' \in Draft
  BY <1>7 DEF Count
<1>8. ASSUME Reconfigure PROVE draft' \in Draft
  <2>1. PICK c : /\ draft.f.changes < MaxChanges
                 /\ draft' = [draft EXCEPT !.f.always = @ \cap Gaps(c),
                                           !.f.ever = @ \cup Gaps(c), !.f.changes = @ + 1]
    BY <1>8 DEF Reconfigure
  <2> DEFINE g == [draft.f EXCEPT !.always = @ \cap Gaps(c), !.ever = @ \cup Gaps(c),
                                  !.changes = @ + 1]
  <2>2. draft.f \in Facts
    BY DEF Draft
  <2>3. draft.f.changes + 1 \in 0..MaxChanges
    BY <2>1, <2>2, ChangeAssumption DEF Facts
  <2>4. g \in Facts
    BY <2>2, <2>3, GapsOf DEF Facts
  <2>5. draft' = [draft EXCEPT !.f = g]
    BY <2>1 DEF Draft
  <2> QED
    BY <2>4, <2>5 DEF Draft
<1> QED
  BY <1>1, <1>2, <1>3, <1>4, <1>5, <1>6, <1>7, <1>8 DEF Audit

LEMMA TypeStep == TypeOK /\ [Next]_vars => TypeOK'
<1> SUFFICES ASSUME TypeOK, [Next]_vars PROVE TypeOK'
  OBVIOUS
<1> USE DEF TypeOK
<1>1. ASSUME List PROVE TypeOK'
  BY <1>1 DEF List
<1>2. ASSUME NEW b \in Buckets, Take(b) PROVE TypeOK'
  BY <1>2, NewDraftType, GapsOf, ConfigAssumption DEF Take
<1>3. ASSUME Audit PROVE TypeOK'
  <2>1. draft' \in Draft
    BY <1>3, AuditType
  <2>2. ASSUME NEW then \in Steps, NEW call, NEW answer, Ask(call, then, answer) PROVE TypeOK'
    BY <2>1, <2>2 DEF Ask, Steps
  <2>3. ASSUME Count PROVE TypeOK'
    <3>1. {draft.f, Failed("other").f} \subseteq Facts
      BY FailedType DEF Draft
    <3> QED
      BY <2>3, <3>1 DEF Count
  <2> QED
    BY <1>3, <2>2, <2>3
    DEF Audit, Region, Acl, PolicyStatus, PublicAccessBlock, Encryption, Tagging, Steps
<1>4. ASSUME Select PROVE TypeOK'
  BY <1>4 DEF Select
<1>5. ASSUME Reconfigure PROVE TypeOK'
  BY <1>5, AuditType DEF Reconfigure
<1>6. ASSUME Interrupt PROVE TypeOK'
  BY <1>6 DEF Interrupt
<1>7. ASSUME UNCHANGED vars PROVE TypeOK'
  BY <1>7 DEF vars
<1> QED
  BY <1>1, <1>2, <1>3, <1>4, <1>5, <1>6, <1>7 DEF Next

THEOREM TypeCorrect == Spec => []TypeOK
BY TypeInit, TypeStep, PTL DEF Spec

-----------------------------------------------------------------------------
(* What holds of the facts of a bucket when its audit is over.              *)

\* No gap is held against it that was not there, none is held to be absent that stood
\* all the time, and a value that is unknown has an error with it.
FactsOK(x) ==
    /\ x.enc = "no" => "unencrypted" \in x.ever
    /\ x.tag = "no" => "untagged" \in x.ever
    /\ x.enc = "yes" => "unencrypted" \notin x.always
    /\ x.tag = "yes" => "untagged" \notin x.always
    /\ x.enc = "unknown" => x.errors # {}
    /\ x.tag = "unknown" => x.errors # {}

\* Exposed all the time with one change at most and every call answered: public.
Seen(x) ==
    "exposed" \in x.always /\ x.changes <= 1 /\ "exposure" \notin x.errors => x.public

\* The same while the audit is under way.  What was not asked yet is unknown.
GapInv ==
    LET x == draft.f
    IN  /\ Gaps(config) \subseteq x.ever /\ x.always \subseteq Gaps(config)
        /\ x.enc = "no" => "unencrypted" \in x.ever
        /\ x.tag = "no" => "untagged" \in x.ever
        /\ x.enc = "yes" => "unencrypted" \notin x.always
        /\ x.tag = "yes" => "untagged" \notin x.always
        /\ step \in {"tagging", "count"} /\ x.enc = "unknown" => x.errors # {}
        /\ step = "count" /\ x.tag = "unknown" => x.errors # {}

\* What auditPublic holds while it has an exposure to find: an exposure seen now, or one
\* that the calls to come will see.
ExposureInv ==
    LET x == draft.f
    IN  "exposed" \in x.always /\ x.changes <= 1 /\ "exposure" \notin x.errors =>
          /\ step = "policy" => IF x.changes = 0 THEN draft.byACL = config.acl
                                ELSE draft.byACL \/ config.policy = "public"
          /\ step = "pab" => draft.byACL \/ draft.byPolicy
          /\ step \in {"encryption", "tagging", "count"} => x.public

PhaseInv ==
    /\ current # NoBucket => phase = "audit" /\ current \notin todo
    /\ phase \in {"list", "failed"} => Audited = {}

IInv ==
    /\ TypeOK /\ PhaseInv
    /\ current # NoBucket => GapInv /\ ExposureInv
    /\ \A b \in Audited : FactsOK(facts[b]) /\ Seen(facts[b])
    /\ ExposedIsSelected

LEMMA IInvInit == Init => IInv
<1> SUFFICES ASSUME Init PROVE IInv
  OBVIOUS
<1>1. TypeOK
  BY TypeInit
<1>2. Audited = {} /\ current = NoBucket /\ phase = "list"
  BY DEF Init, Audited
<1> QED
  BY <1>1, <1>2 DEF IInv, PhaseInv, ExposedIsSelected

\* Before the first answer nothing is claimed.
LEMMA TakeInv == ASSUME IInv, NEW b \in Buckets, Take(b) PROVE GapInv' /\ ExposureInv'
<1>1. /\ step' = "region" /\ draft' = NewDraft(Gaps(config'))
  BY DEF Take
<1>2. /\ draft'.f.enc = "unknown" /\ draft'.f.tag = "unknown"
      /\ draft'.f.ever = Gaps(config') /\ draft'.f.always = Gaps(config')
  BY <1>1 DEF NewDraft, NewFacts
<1> QED
  BY <1>1, <1>2 DEF GapInv, ExposureInv

\* What a call that fails does to the draft.
LEMMA FailedFields ==
    ASSUME TypeOK, NEW kind \in {"exposure", "other"}, draft' = Failed(kind)
    PROVE  /\ draft'.byACL = draft.byACL /\ draft'.byPolicy = draft.byPolicy
           /\ draft'.f.public = draft.f.public
           /\ draft'.f.enc = draft.f.enc /\ draft'.f.tag = draft.f.tag
           /\ draft'.f.always = draft.f.always /\ draft'.f.ever = draft.f.ever
           /\ draft'.f.changes = draft.f.changes
           /\ kind \in draft'.f.errors /\ draft.f.errors \subseteq draft'.f.errors
BY DEF TypeOK, Failed, Draft, Facts

\* A change of one setting.
LEMMA ReconfigureFields ==
    ASSUME TypeOK, Reconfigure
    PROVE  /\ draft'.byACL = draft.byACL /\ draft'.byPolicy = draft.byPolicy
           /\ draft'.f.public = draft.f.public
           /\ draft'.f.enc = draft.f.enc /\ draft'.f.tag = draft.f.tag
           /\ draft'.f.errors = draft.f.errors
           /\ draft'.f.always = draft.f.always \cap Gaps(config')
           /\ draft'.f.ever = draft.f.ever \cup Gaps(config')
           /\ draft'.f.changes = draft.f.changes + 1
           /\ draft.f.changes \in Nat
           /\ config'.acl = config.acl \/ config'.policy = config.policy
<1>1. PICK c \in Config :
          /\ Cardinality({x \in DOMAIN config : c[x] # config[x]}) = 1
          /\ config' = c
          /\ draft' = [draft EXCEPT !.f.always = @ \cap Gaps(c), !.f.ever = @ \cup Gaps(c),
                                    !.f.changes = @ + 1]
  BY DEF Reconfigure
<1>2. ASSUME c.acl # config.acl, c.policy # config.policy PROVE FALSE
  <2> DEFINE D == {x \in DOMAIN config : c[x] # config[x]}
  <2>1. {"acl", "policy"} \subseteq D
    BY <1>2 DEF TypeOK, Config
  <2>2. D \subseteq {"acl", "policy", "pab", "enc", "tags"}
    BY DEF TypeOK, Config
  <2>3. IsFiniteSet({"acl", "policy", "pab", "enc", "tags"})
    <3>1. IsFiniteSet({"acl"}) /\ IsFiniteSet({"policy"}) /\ IsFiniteSet({"pab"})
      BY FS_Singleton
    <3>2. IsFiniteSet({"enc"}) /\ IsFiniteSet({"tags"})
      BY FS_Singleton
    <3>3. IsFiniteSet({"acl"} \cup {"policy"}) /\ IsFiniteSet({"enc"} \cup {"tags"})
      BY <3>1, <3>2, FS_Union
    <3>4. IsFiniteSet(({"acl"} \cup {"policy"}) \cup {"pab"})
      BY <3>1, <3>3, FS_Union
    <3>5. IsFiniteSet((({"acl"} \cup {"policy"}) \cup {"pab"}) \cup ({"enc"} \cup {"tags"}))
      BY <3>3, <3>4, FS_Union
    <3>6. (({"acl"} \cup {"policy"}) \cup {"pab"}) \cup ({"enc"} \cup {"tags"})
            = {"acl", "policy", "pab", "enc", "tags"}
      OBVIOUS
    <3> QED
      BY <3>5, <3>6
  <2>4. IsFiniteSet(D)
    BY <2>2, <2>3, FS_Subset
  <2>5. Cardinality({"acl"}) = 1 /\ IsFiniteSet({"acl"})
    BY FS_Singleton
  <2>6. {"acl", "policy"} = {"acl"} \cup {"policy"} /\ "policy" \notin {"acl"}
    OBVIOUS
  <2>7. Cardinality({"acl", "policy"}) = 2
    BY <2>5, <2>6, FS_AddElement
  <2>8. Cardinality(D) = 1
    BY <1>1
  <2> HIDE DEF D
  <2>9. Cardinality({"acl", "policy"}) <= Cardinality(D)
    BY <2>1, <2>4, FS_Subset
  <2> QED
    BY <2>7, <2>8, <2>9
<1>3. draft \in [byACL : BOOLEAN, byPolicy : BOOLEAN, f : Facts]
  BY DEF TypeOK, Draft
<1>4. draft.f \in Facts /\ draft.f.changes \in Nat
  BY <1>3, ChangeAssumption DEF Facts
<1>5. draft' = [draft EXCEPT !.f = [draft.f EXCEPT !.always = @ \cap Gaps(c),
                                     !.ever = @ \cup Gaps(c), !.changes = @ + 1]]
  BY <1>1, <1>3, <1>4 DEF Facts
<1>6. draft'.f = [draft.f EXCEPT !.always = @ \cap Gaps(c),
                                 !.ever = @ \cup Gaps(c), !.changes = @ + 1]
  BY <1>3, <1>5
<1>7. draft'.byACL = draft.byACL /\ draft'.byPolicy = draft.byPolicy
  BY <1>3, <1>5
<1>8. /\ draft'.f.public = draft.f.public
      /\ draft'.f.enc = draft.f.enc /\ draft'.f.tag = draft.f.tag
      /\ draft'.f.errors = draft.f.errors
      /\ draft'.f.always = draft.f.always \cap Gaps(c)
      /\ draft'.f.ever = draft.f.ever \cup Gaps(c)
      /\ draft'.f.changes = draft.f.changes + 1
  BY <1>4, <1>6 DEF Facts
<1> QED
  BY <1>1, <1>2, <1>4, <1>7, <1>8

-----------------------------------------------------------------------------
(* The calls, one by one.                                                   *)

\* What a call that is no answer changes: the errors, and the place of the next call.
LEMMA FailedCall ==
    ASSUME IInv, current # NoBucket, NEW kind \in {"exposure", "other"},
           draft' = Failed(kind), UNCHANGED config,
           \/ step = "region" /\ step' = "acl"
           \/ step \in {"acl", "policy"} /\ kind = "exposure" /\ step' \in {"policy", "pab"}
           \/ step = "encryption" /\ step' = "tagging"
           \/ step = "tagging" /\ step' = "count"
    PROVE  GapInv' /\ ExposureInv'
<1>1. TypeOK /\ GapInv /\ ExposureInv
  BY DEF IInv
<1>2. PICK e : e = draft'.f.errors /\ kind \in e /\ draft.f.errors \subseteq e
  BY <1>1, FailedFields
<1>3. GapInv'
  BY <1>1, <1>2, FailedFields DEF GapInv
<1>4. ExposureInv'
  BY <1>1, <1>2, FailedFields DEF ExposureInv
<1> QED
  BY <1>3, <1>4

LEMMA RegionInv ==
    ASSUME IInv, Region PROVE GapInv' /\ ExposureInv'
<1> USE DEF IInv, Region, Ask
<1>1. CASE draft' = draft
  BY <1>1 DEF GapInv, ExposureInv
<1>2. CASE draft' = Failed("other")
  BY <1>2, FailedCall
<1> QED
  BY <1>1, <1>2

\* Exposed before the ACL is read: by the ACL that the call reads, or by the policy
\* that the next call reads.
LEMMA AclInv ==
    ASSUME IInv, Acl PROVE GapInv' /\ ExposureInv'
<1> USE DEF IInv, Acl, Ask
<1>1. CASE draft' = [draft EXCEPT !.byACL = config.acl]
  <2>1. draft'.f = draft.f /\ draft'.byACL = config.acl
    BY <1>1 DEF TypeOK, Draft
  <2>2. GapInv'
    BY <2>1 DEF GapInv
  <2>3. "exposed" \in draft.f.always => config.acl \/ config.policy = "public"
    BY GapsOf DEF GapInv
  <2> QED
    BY <2>1, <2>2, <2>3 DEF ExposureInv
<1>2. CASE draft' = Failed("exposure")
  BY <1>2, FailedCall
<1> QED
  BY <1>1, <1>2

LEMMA PolicyInv ==
    ASSUME IInv, PolicyStatus PROVE GapInv' /\ ExposureInv'
<1> USE DEF IInv, PolicyStatus, Ask
<1>1. CASE draft' = [draft EXCEPT !.byPolicy = config.policy = "public"]
  <2>1. /\ draft'.f = draft.f /\ draft'.byACL = draft.byACL
        /\ draft'.byPolicy = (config.policy = "public")
    BY <1>1 DEF TypeOK, Draft
  <2>2. GapInv'
    BY <2>1 DEF GapInv
  <2>3. "exposed" \in draft.f.always => config.acl \/ config.policy = "public"
    BY GapsOf DEF GapInv
  <2> QED
    BY <2>1, <2>2, <2>3 DEF ExposureInv
<1>2. CASE draft' = Failed("exposure")
  BY <1>2, FailedCall
<1> QED
  BY <1>1, <1>2

\* A bucket whose two settings are both on is not exposed, so the one that is exposed
\* does not pass for blocked.
LEMMA PublicAccessBlockInv ==
    ASSUME IInv, PublicAccessBlock PROVE GapInv' /\ ExposureInv'
<1> USE DEF IInv, PublicAccessBlock, Ask
<1>1. draft \in Draft /\ draft.f \in Facts
  BY DEF TypeOK, Draft
<1> DEFINE blocked == config.pab = {"ignoreAcls", "restrict"}
<1> DEFINE x == (draft.byACL \/ draft.byPolicy) /\ ~blocked
<1>2. CASE draft' = [draft EXCEPT !.f.public = x]
  <2>1. /\ draft'.f.public = x /\ draft'.f.errors = draft.f.errors
        /\ draft'.f.enc = draft.f.enc /\ draft'.f.tag = draft.f.tag
        /\ draft'.f.always = draft.f.always /\ draft'.f.ever = draft.f.ever
        /\ draft'.f.changes = draft.f.changes
    <3> HIDE DEF x
    <3> QED
      BY <1>1, <1>2 DEF Draft, Facts
  <2>2. GapInv'
    BY <2>1 DEF GapInv
  <2>3. "exposed" \in draft.f.always => ~blocked
    BY GapsOf DEF GapInv
  <2>4. ExposureInv'
    BY <2>1, <2>3 DEF ExposureInv
  <2> QED
    BY <2>2, <2>4
<1>3. CASE draft' = [draft EXCEPT !.f.public = draft.byACL \/ draft.byPolicy,
                                  !.f.errors = @ \cup {"exposure"}]
  <2>1. /\ "exposure" \in draft'.f.errors /\ draft.f.errors \subseteq draft'.f.errors
        /\ draft'.f.enc = draft.f.enc /\ draft'.f.tag = draft.f.tag
        /\ draft'.f.always = draft.f.always /\ draft'.f.ever = draft.f.ever
        /\ draft'.f.changes = draft.f.changes
    BY <1>1, <1>3 DEF Draft, Facts
  <2>2. GapInv'
    BY <2>1 DEF GapInv
  <2>3. ExposureInv'
    BY <2>1 DEF ExposureInv
  <2> QED
    BY <2>2, <2>3
<1> QED
  BY <1>2, <1>3

LEMMA EncryptionInv ==
    ASSUME IInv, Encryption PROVE GapInv' /\ ExposureInv'
<1> USE DEF IInv, Encryption, Ask
<1>1. CASE draft' = [draft EXCEPT !.f.enc = IF config.enc THEN "yes" ELSE "no"]
  <2>1. draft \in Draft /\ draft.f \in Facts
    BY DEF TypeOK, Draft
  <2>2. /\ draft'.f.enc = IF config.enc THEN "yes" ELSE "no"
        /\ draft'.f.tag = draft.f.tag /\ draft'.f.public = draft.f.public
        /\ draft'.f.errors = draft.f.errors
        /\ draft'.f.always = draft.f.always /\ draft'.f.ever = draft.f.ever
        /\ draft'.f.changes = draft.f.changes
    BY <1>1, <2>1 DEF Draft, Facts
  <2>3. "unencrypted" \in Gaps(config) <=> ~config.enc
    BY GapsOf
  <2>4. GapInv'
    BY <2>2, <2>3 DEF GapInv
  <2>5. ExposureInv'
    BY <2>2 DEF ExposureInv
  <2> QED
    BY <2>4, <2>5
<1>2. CASE draft' = Failed("other")
  BY <1>2, FailedCall
<1> QED
  BY <1>1, <1>2

LEMMA TaggingInv ==
    ASSUME IInv, Tagging PROVE GapInv' /\ ExposureInv'
<1> USE DEF IInv, Tagging, Ask
<1>1. CASE draft' = [draft EXCEPT !.f.tag = IF config.tags THEN "yes" ELSE "no"]
  <2>1. draft \in Draft /\ draft.f \in Facts
    BY DEF TypeOK, Draft
  <2>2. /\ draft'.f.tag = IF config.tags THEN "yes" ELSE "no"
        /\ draft'.f.enc = draft.f.enc /\ draft'.f.public = draft.f.public
        /\ draft'.f.errors = draft.f.errors
        /\ draft'.f.always = draft.f.always /\ draft'.f.ever = draft.f.ever
        /\ draft'.f.changes = draft.f.changes
    BY <1>1, <2>1 DEF Draft, Facts
  <2>3. "untagged" \in Gaps(config) <=> ~config.tags
    BY GapsOf
  <2>4. GapInv'
    BY <2>2, <2>3 DEF GapInv
  <2>5. ExposureInv'
    BY <2>2 DEF ExposureInv
  <2> QED
    BY <2>4, <2>5
<1>2. CASE draft' = Failed("other")
  BY <1>2, FailedCall
<1> QED
  BY <1>1, <1>2

\* One change can move the exposure only to where it was read, or will be.
LEMMA ReconfigureInv ==
    ASSUME IInv, Reconfigure PROVE GapInv' /\ ExposureInv'
<1>1. TypeOK /\ GapInv /\ ExposureInv /\ step' = step
  BY DEF IInv, Reconfigure
<1>2. GapInv'
  BY <1>1, ReconfigureFields DEF GapInv
<1>3. "exposed" \in draft'.f.always =>
        /\ "exposed" \in draft.f.always
        /\ config.acl \/ config.policy = "public"
        /\ config'.acl \/ config'.policy = "public"
  BY <1>1, ReconfigureFields, GapsOf DEF GapInv
<1>4. draft'.f.changes <= 1 => draft.f.changes = 0 /\ draft'.f.changes = 1
  BY <1>1, ReconfigureFields
<1>5. ExposureInv'
  BY <1>1, <1>3, <1>4, ReconfigureFields DEF ExposureInv
<1> QED
  BY <1>2, <1>5

-----------------------------------------------------------------------------
(* The other steps, and the theorem.                                        *)

\* A verdict on the draft that the audit leaves.
LEMMA CountInv ==
    ASSUME IInv, Count PROVE FactsOK(facts'[current]) /\ Seen(facts'[current])
<1>1. TypeOK /\ GapInv /\ ExposureInv /\ step = "count" /\ current \in Buckets
  BY DEF IInv, Count, TypeOK
<1>2. PICK f \in {draft.f, Failed("other").f} : facts' = [facts EXCEPT ![current] = f]
  BY DEF Count
<1>3. facts'[current] = f
  BY <1>1, <1>2 DEF TypeOK
<1>4. CASE f = draft.f
  BY <1>1, <1>3, <1>4 DEF GapInv, ExposureInv, FactsOK, Seen
<1>5. CASE f = Failed("other").f
  <2>1. draft \in Draft /\ draft.f \in Facts
    BY <1>1 DEF TypeOK, Draft
  <2>2. f = [draft.f EXCEPT !.errors = @ \cup {"other"}]
    BY <1>5, <2>1 DEF Failed, Draft
  <2>3. /\ f.enc = draft.f.enc /\ f.tag = draft.f.tag /\ f.public = draft.f.public
        /\ f.always = draft.f.always /\ f.ever = draft.f.ever
        /\ f.changes = draft.f.changes /\ f.errors = draft.f.errors \cup {"other"}
    BY <2>1, <2>2 DEF Facts
  <2> QED
    BY <1>1, <1>3, <2>3 DEF GapInv, ExposureInv, FactsOK, Seen
<1> QED
  BY <1>2, <1>4, <1>5

\* A public bucket is critical, and no floor is above critical.
LEMMA PublicIsChosen ==
    ASSUME NEW f \in Facts, f.public, NEW all \in BOOLEAN, NEW min \in MinTiers
    PROVE  Chosen(f, all, min)
<1>1. Score(f) \in Nat /\ Score(f) >= 60
  BY DEF Score, Facts
<1>2. Tier(f) = "critical"
  BY <1>1 DEF Tier
<1>3. Rank("critical") = 4
  BY DEF Rank, Tiers
<1>4. min # "none" => Rank(min) \in 1..4
  BY DEF Rank, Tiers, MinTiers
<1> QED
  BY <1>2, <1>3, <1>4 DEF Chosen, Flagged

LEMMA SelectInv == ASSUME IInv, Select PROVE ExposedIsSelected'
<1> SUFFICES ASSUME NEW b \in reported', "exposed" \in facts[b].always,
                    facts[b].changes <= 1, "exposure" \notin facts[b].errors
             PROVE  b \in selected'
  BY DEF ExposedIsSelected, Select
<1>1. b \in Buckets
  BY DEF Select
<1>2. b \in Audited
  BY <1>1, BucketAssumption DEF Select, Audited
<1>3. facts[b].public /\ facts[b] \in Facts
  BY <1>1, <1>2 DEF IInv, Seen, TypeOK
<1>4. opts'.all \in BOOLEAN /\ opts'.min \in MinTiers
  BY DEF Select
<1> QED
  BY <1>3, <1>4, PublicIsChosen DEF Select

LEMMA IInvStep == IInv /\ [Next]_vars => IInv'
<1> SUFFICES ASSUME IInv, [Next]_vars PROVE IInv'
  OBVIOUS
<1> USE DEF IInv
<1>0. TypeOK'
  BY TypeStep
\* What is left to show of a step that finishes neither a bucket nor the run.
<1>1. ASSUME Audited' \subseteq Audited, facts' = facts, phase' # "done", PhaseInv',
             current' # NoBucket => GapInv' /\ ExposureInv'
      PROVE  IInv'
  BY <1>0, <1>1 DEF ExposedIsSelected
<1>2. CASE List
  <2>1. current = NoBucket
    BY <1>2 DEF List, PhaseInv
  <2>2. Audited' = {}
    BY <1>2, <2>1 DEF List, Audited
  <2> QED
    BY <1>1, <1>2, <2>1, <2>2 DEF List, PhaseInv
<1>3. ASSUME NEW b \in Buckets, Take(b) PROVE IInv'
  <2>1. Audited' \subseteq Audited
    BY <1>3, BucketAssumption DEF Take, Audited
  <2>2. GapInv' /\ ExposureInv'
    BY <1>3, TakeInv
  <2>3. PhaseInv' /\ phase' = "audit" /\ facts' = facts
    BY <1>3 DEF Take, PhaseInv
  <2> QED
    BY <1>1, <2>1, <2>2, <2>3
<1>4. CASE Region \/ Acl \/ PolicyStatus \/ PublicAccessBlock \/ Encryption \/ Tagging
  <2>1. GapInv' /\ ExposureInv'
    BY <1>4, RegionInv, AclInv, PolicyInv, PublicAccessBlockInv, EncryptionInv, TaggingInv
  <2>2. UNCHANGED <<phase, todo, current, facts>> /\ current # NoBucket
    BY <1>4 DEF Region, Acl, PolicyStatus, PublicAccessBlock, Encryption, Tagging, Ask
  <2> QED
    BY <1>1, <2>1, <2>2 DEF PhaseInv, Audited
<1>5. CASE Count
  <2>1. /\ current # NoBucket /\ phase = "audit" /\ current' = NoBucket
        /\ UNCHANGED <<phase, todo>>
    BY <1>5 DEF Count, PhaseInv
  <2>2. ASSUME NEW b \in Audited' PROVE FactsOK(facts'[b]) /\ Seen(facts'[b])
    <3>1. CASE b = current
      BY <1>5, <3>1, CountInv
    <3>2. CASE b # current
      <4>1. b \in Audited /\ facts'[b] = facts[b]
        BY <1>5, <2>1, <3>2 DEF Audited, Count, TypeOK
      <4> QED
        BY <4>1
    <3> QED
      BY <3>1, <3>2
  <2> QED
    BY <1>0, <2>1, <2>2 DEF PhaseInv, ExposedIsSelected
<1>6. CASE Select
  <2>1. Audited' = Audited /\ facts' = facts /\ current' = NoBucket /\ phase' = "done"
    BY <1>6 DEF Select, Audited
  <2> QED
    BY <1>0, <1>6, <2>1, SelectInv DEF PhaseInv
<1>7. CASE Reconfigure
  <2>1. UNCHANGED <<phase, todo, current, facts>> /\ current # NoBucket
    BY <1>7 DEF Reconfigure
  <2> QED
    BY <1>1, <1>7, <2>1, ReconfigureInv DEF PhaseInv, Audited
<1>8. CASE Interrupt
  <2>1. UNCHANGED <<phase, todo, current, step, draft, config, facts>> /\ phase # "done"
    BY <1>8 DEF Interrupt
  <2> QED
    BY <1>1, <2>1 DEF PhaseInv, Audited, GapInv, ExposureInv
<1>9. CASE UNCHANGED vars
  BY <1>9 DEF vars, TypeOK, PhaseInv, Audited, GapInv, ExposureInv, ExposedIsSelected
<1> QED
  BY <1>2, <1>3, <1>4, <1>5, <1>6, <1>7, <1>8, <1>9 DEF Next, Audit

\* From the facts that the audit leaves to what the report says of them.
LEMMA IInvIsEnough ==
    IInv => DarkIsFlagged /\ NoBlindPenalty /\ UnknownIsFlagged /\ ExposedIsSelected
<1> SUFFICES ASSUME IInv
             PROVE  DarkIsFlagged /\ NoBlindPenalty /\ UnknownIsFlagged
  BY DEF IInv
<1>1. ASSUME NEW b \in Audited
      PROVE  /\ facts[b] \in Facts /\ FactsOK(facts[b]) /\ Seen(facts[b])
  BY DEF IInv, TypeOK, Audited
<1>2. NoBlindPenalty /\ UnknownIsFlagged
  BY <1>1 DEF NoBlindPenalty, UnknownIsFlagged, FactsOK, Flagged
<1>3. DarkIsFlagged
  <2> SUFFICES ASSUME NEW b \in Audited,
                      facts[b].always \ (IF facts[b].changes > 1 THEN {"exposed"} ELSE {}) # {}
               PROVE  Flagged(facts[b])
    BY DEF DarkIsFlagged
  <2>1. PICK g \in facts[b].always : g = "exposed" => facts[b].changes <= 1
    BY <1>1, ChangeAssumption DEF Facts
  <2>2. g \in {"exposed", "unencrypted", "untagged"}
    BY <1>1, <2>1 DEF Facts, Gap
  <2>3. facts[b].enc \in Known /\ facts[b].tag \in Known
    BY <1>1 DEF Facts
  <2> QED
    BY <1>1, <2>1, <2>2, <2>3 DEF FactsOK, Seen, Flagged, Known
<1> QED
  BY <1>2, <1>3

THEOREM Invariance == Spec => []IInv
BY IInvInit, IInvStep, PTL DEF Spec

\* Whatever calls fail and whenever the run is interrupted, a bucket with a gap that stood
\* throughout its audit is flagged; an exposure, if one setting changed at most.
THEOREM GapsAreFlagged == Spec => []DarkIsFlagged
BY Invariance, IInvIsEnough, PTL

\* Missing encryption or tags are held against no bucket that had them throughout.
THEOREM NothingIsHeldBlind == Spec => []NoBlindPenalty
BY Invariance, IInvIsEnough, PTL

\* A bucket whose encryption or tags could not be read is flagged.
THEOREM UnknownsAreFlagged == Spec => []UnknownIsFlagged
BY Invariance, IInvIsEnough, PTL

\* A bucket whose exposure stood throughout its audit and could be read is selected for
\* the scan whatever the floor, if one setting changed at most.
THEOREM ExposedAreSelected == Spec => []ExposedIsSelected
BY Invariance, IInvIsEnough, PTL

=============================================================================
