--------------------------- MODULE IdentityProofs ---------------------------
(***************************************************************************)
(* Theorems about Identity, for any identifiers, registers, names and      *)
(* number of concurrent reconciliations.                                   *)
(***************************************************************************)
EXTENDS Identity, FiniteSetTheorems, TLAPS

-----------------------------------------------------------------------------
(* Plans *)

LEMMA PairOfTwo == ASSUME NEW p, NEW q, NEW a, NEW b, {p, q} = {a, b}
                   PROVE  (p = a /\ q = b) \/ (p = b /\ q = a)
  OBVIOUS

LEMMA FiniteRows ==
    ASSUME holder \in [Ids -> Ids \cup {NoOne}]
    PROVE  NextSerial \in Nat /\ Cardinality(Public) \in Nat /\ (Public # {} => Cardinality(Public) > 0)
  <1>1. IsFiniteSet(Mapped) /\ IsFiniteSet(Public)
    BY IdentityAssumption, FS_Subset, Mapped \subseteq Ids, Public \subseteq Ids DEF Mapped, Public
  <1>2. Cardinality(Mapped) \in Nat /\ Cardinality(Public) \in Nat BY <1>1, FS_CardinalityType
  <1>3. Public # {} => Cardinality(Public) # 0 BY <1>1, FS_EmptySet
  <1>. QED BY <1>2, <1>3 DEF NextSerial

\* What a plan proposes are corroborated namesakes, both public, with nothing against it.
LEMMA PlanIsEligible ==
    ASSUME NEW pairs \in SUBSET NamesakePairs, NEW m \in ReconciliationPlan(pairs)
    PROVE  /\ m \in Match /\ m.removed \in Ids /\ m.retained \in Ids
           /\ m.removed # m.retained
           /\ {m.removed, m.retained} \in Edges(pairs)
           /\ profile[m.removed] = "public" /\ profile[m.retained] = "public"
           /\ ~Blocked(m.removed, m.retained)
           /\ OnlyChoice(Edges(pairs), m.removed, m.retained)
           /\ OnlyChoice(Edges(pairs), m.retained, m.removed)
           /\ Precedes(m.retained, m.removed)
  <1>1. m \in Matches(pairs) BY DEF ReconciliationPlan
  <1>2. /\ m \in Match /\ {m.removed, m.retained} \in Edges(pairs)
        /\ OnlyChoice(Edges(pairs), m.removed, m.retained)
        /\ OnlyChoice(Edges(pairs), m.retained, m.removed)
        /\ m.removed # m.retained /\ Precedes(m.retained, m.removed)
    BY <1>1 DEF Matches
  <1>3. m.removed \in Ids /\ m.retained \in Ids BY <1>2 DEF Match
  <1>4. {m.removed, m.retained} \in NamesakePairs /\ ~Blocked(m.removed, m.retained)
    BY <1>2 DEF Edges
  <1>5. PICK p \in Public, q \in Public : {m.removed, m.retained} = {p, q}
    BY <1>4 DEF NamesakePairs
  <1>6. m.removed \in Public /\ m.retained \in Public BY <1>5
  <1>. QED BY <1>2, <1>3, <1>4, <1>6 DEF Public

LEMMA ComponentIsPart == ASSUME NEW pairs, NEW seeds
                         PROVE  NamesakeComponent(pairs, seeds) \subseteq pairs
  BY DEF NamesakeComponent

\* The match a recheck merges.
LEMMA CurrentIsEligible ==
    ASSUME NEW x, NEW m \in Current(x)
    PROVE  /\ m \in Match /\ m.removed \in Ids /\ m.retained \in Ids
           /\ m.removed # m.retained
           /\ profile[m.removed] = "public" /\ profile[m.retained] = "public"
           /\ ~Blocked(m.removed, m.retained)
  BY ComponentIsPart, PlanIsEligible DEF Current
-----------------------------------------------------------------------------
(* Type correctness *)

\* A job that runs has merges left.
Working == \A j \in Jobs : job[j].state # "idle" => job[j].left > 0

Typed == TypeOK /\ Working

LEMMA IdleTyped == Idle \in JobType
  BY DEF Idle, JobType, Match

LEMMA InterruptedTyped ==
    ASSUME NEW x \in JobType
    PROVE  /\ Interrupted(x) \in JobType
           /\ Interrupted(x).state = x.state /\ Interrupted(x).left = x.left
  <1>1. Interrupted(x) = [x EXCEPT !.quiet = FALSE] BY DEF Interrupted
  <1>. QED BY <1>1 DEF JobType

LEMMA JobsDisturbed ==
    ASSUME Typed, Disturb
    PROVE  job' \in [Jobs -> JobType] /\ Working'
  <1>1. job \in [Jobs -> JobType] BY DEF Typed, TypeOK
  <1>2. \A j \in Jobs : /\ Interrupted(job[j]) \in JobType
                        /\ Interrupted(job[j]).state = job[j].state
                        /\ Interrupted(job[j]).left = job[j].left
    BY <1>1, InterruptedTyped
  <1>. QED BY <1>2 DEF Typed, Working, Disturb

LEMMA FinishedTyped ==
    ASSUME Typed, NEW j \in Jobs
    PROVE  Finished(j) \in JobType /\ Finished(j).state = "idle"
  BY IdleTyped DEF Typed, TypeOK, Finished, Idle, JobType

LEMMA MergeTyped ==
    ASSUME TypeOK, NEW m \in Match, Merge(m)
    PROVE  /\ profile' \in [Ids -> {"absent", "public", "hidden", "merged"}]
           /\ holder' \in [Ids -> Ids \cup {NoOne}]
           /\ serial' \in [Ids -> Nat]
           /\ claim' \in [Ids -> {"unused", "published", "withdrawn"}]
           /\ alias' \in [Ids -> [Ids -> SUBSET Names]]
           /\ suggestion' \in [Ids -> [Ids -> Statuses]]
           /\ distinct' \subseteq SUBSET Ids
           /\ redirect' \in [Ids -> Ids \cup {NoOne}] /\ audit' \in [Ids -> Ids \cup {NoOne}]
           /\ edits' \in 0..MaxEdits
           /\ refused' \subseteq Ids \X Ids /\ apart' \subseteq SUBSET Ids
  <1>. USE DEF Merge
  <1>1. m.removed \in Ids /\ m.retained \in Ids BY DEF Match
  <1>2. /\ profile' \in [Ids -> {"absent", "public", "hidden", "merged"}]
        /\ audit' \in [Ids -> Ids \cup {NoOne}]
        /\ serial' \in [Ids -> Nat] /\ claim' \in [Ids -> {"unused", "published", "withdrawn"}]
        /\ edits' \in 0..MaxEdits
        /\ refused' \subseteq Ids \X Ids /\ apart' \subseteq SUBSET Ids
    BY <1>1 DEF TypeOK
  <1>3. holder' \in [Ids -> Ids \cup {NoOne}] BY <1>1 DEF TypeOK, Moved
  <1>4. redirect' \in [Ids -> Ids \cup {NoOne}] BY <1>1 DEF TypeOK, Moved, RedirectsAfter
  <1>5. distinct' \subseteq SUBSET Ids
    <2>1. \A p \in Ids : Moved(p, m) \in Ids BY <1>1 DEF Moved
    <2>2. distinct \subseteq SUBSET Ids /\ distinct' = DecisionsAfter(m) BY DEF TypeOK
    <2>. QED BY <2>1, <2>2 DEF DecisionsAfter
  <1>6. suggestion' \in [Ids -> [Ids -> Statuses]]
    <2>1. suggestion \in [Ids -> [Ids -> Statuses]] /\ "none" \in Statuses
      BY DEF TypeOK, Statuses
    <2>2. \A p, i \in Ids : Combined(suggestion[p][i], suggestion[m.removed][i]) \in Statuses
      BY <1>1, <2>1 DEF Combined
    <2>3. suggestion' = SuggestionsAfter(m) OBVIOUS
    <2>. QED BY <2>1, <2>2, <2>3 DEF SuggestionsAfter
  <1>7. alias' \in [Ids -> [Ids -> SUBSET Names]]
    <2>1. alias \in [Ids -> [Ids -> SUBSET Names]] BY DEF TypeOK
    <2>2. Name[m.removed] \in Names BY <1>1, IdentityAssumption
    <2>3. \A i \in Ids : alias[m.retained][i] \cup alias[m.removed][i]
              \cup (IF holder[i] = m.removed THEN {Name[m.removed]} ELSE {}) \in SUBSET Names
      BY <1>1, <2>1, <2>2
    <2>4. alias' = AliasesAfter(m) OBVIOUS
    <2>. QED BY <2>1, <2>3, <2>4 DEF AliasesAfter
  <1>. QED BY <1>2, <1>3, <1>4, <1>5, <1>6, <1>7

LEMMA TypedInit == Init => Typed
  BY IdleTyped, IdentityAssumption DEF Init, Typed, TypeOK, Working, Statuses, Idle

LEMMA TypedNext == Typed /\ [Next]_vars => Typed'
  <1>. SUFFICES ASSUME Typed, [Next]_vars PROVE Typed' OBVIOUS
  <1>. USE IdentityAssumption
  <1>0. TypeOK BY DEF Typed
  <1>1. CASE UNCHANGED vars
    BY <1>0, <1>1 DEF Typed, TypeOK, Working, vars
  <1>2. ASSUME NEW i \in feed, Import(i) \/ Review(i) \/ Edit(i), UNCHANGED feed PROVE Typed'
    <2>0. i \in Ids BY <1>0, <1>2 DEF TypeOK
    <2>1. Disturb BY <1>2 DEF Import, Resolve, Attach, Create, Suggest, Review, Accept, Reject,
            Remap, Edit, SetPublic, SetClaim, Decide, Automatic, Decision
    <2>2. job' \in [Jobs -> JobType] /\ Working' BY <2>1, JobsDisturbed
    <2>3. \A names \in SUBSET Names, p \in Ids : RecordAliases(p, i, names)
            => alias' \in [Ids -> [Ids -> SUBSET Names]]
      BY <1>0, <2>0 DEF RecordAliases, TypeOK
    <2>4. Published[i] \in SUBSET Names /\ Name[i] \in Names BY <2>0
    <2>5. NextSerial \in Nat BY <1>0, FiniteRows DEF TypeOK
    <2>6. Automatic \/ Decision => edits' \in 0..MaxEdits BY <1>0 DEF TypeOK, Automatic, Decision
    <2>7. "none" \in Statuses /\ "pending" \in Statuses /\ "accepted" \in Statuses
            /\ "rejected" \in Statuses BY DEF Statuses
    <2>8. CASE Resolve(i)
      <3>1. holder[i] \in Ids BY <1>0, <2>0, <2>8 DEF TypeOK, Resolve
      <3>2. alias' \in [Ids -> [Ids -> SUBSET Names]] BY <3>1, <2>3, <2>4, <2>8 DEF Resolve
      <3>. QED BY <1>0, <1>2, <2>2, <2>6, <2>8, <3>2 DEF Resolve, Typed, TypeOK, reviews, history
    <2>9. ASSUME NEW p \in Ids, Attach(i, p) PROVE Typed'
      <3>1. alias' \in [Ids -> [Ids -> SUBSET Names]] BY <2>3, <2>4, <2>9 DEF Attach
      <3>. QED BY <1>0, <1>2, <2>0, <2>2, <2>5, <2>6, <2>9, <3>1
             DEF Attach, Typed, TypeOK, reviews, history
    <2>10. CASE Create(i)
      <3>1. alias' \in [Ids -> [Ids -> SUBSET Names]] BY <2>0, <2>3, <2>4, <2>10 DEF Create
      <3>2. suggestion' \in [Ids -> [Ids -> Statuses]] BY <1>0, <2>7, <2>10 DEF Create, TypeOK
      <3>. QED BY <1>0, <1>2, <2>0, <2>2, <2>5, <2>6, <2>10, <3>1, <3>2
             DEF Create, Typed, TypeOK, history
    <2>11. ASSUME NEW p \in Ids, Suggest(p, i) PROVE Typed'
      BY <1>0, <1>2, <2>0, <2>2, <2>6, <2>7, <2>11 DEF Suggest, Typed, TypeOK, history
    <2>12. ASSUME NEW p \in Ids, Accept(p, i) PROVE Typed'
      <3>1. alias' \in [Ids -> [Ids -> SUBSET Names]]
        <4>1. FollowAliases(holder[i], p, i) BY <2>12 DEF Accept
        <4>2. alias \in [Ids -> [Ids -> SUBSET Names]] BY <1>0 DEF TypeOK
        <4>3. (IF holder[i] = NoOne THEN {} ELSE alias[holder[i]][i]) \in SUBSET Names
          BY <1>0, <2>0, <4>2 DEF TypeOK
        <4>. QED BY <2>0, <2>4, <4>1, <4>2, <4>3 DEF FollowAliases
      <3>2. suggestion' \in [Ids -> [Ids -> Statuses]] BY <1>0, <2>7, <2>12 DEF Accept, TypeOK
      <3>3. refused' \subseteq Ids \X Ids BY <1>0, <2>0, <2>12 DEF Accept, TypeOK
      <3>4. serial' \in [Ids -> Nat] BY <1>0, <2>0, <2>5, <2>12 DEF Accept, TypeOK
      <3>. QED BY <1>0, <1>2, <2>0, <2>2, <2>6, <2>12, <3>1, <3>2, <3>3, <3>4
             DEF Accept, Typed, TypeOK, history
    <2>13. ASSUME NEW p \in Ids, Reject(p, i) PROVE Typed'
      BY <1>0, <1>2, <2>0, <2>2, <2>6, <2>7, <2>13 DEF Reject, Typed, TypeOK, history
    <2>14. ASSUME NEW p \in Ids, Remap(i, p) PROVE Typed'
      BY <1>0, <1>2, <2>0, <2>2, <2>6, <2>14 DEF Remap, Typed, TypeOK, history
    <2>15. CASE SetPublic(i)
      BY <1>0, <1>2, <2>0, <2>2, <2>6, <2>15 DEF SetPublic, Typed, TypeOK, reviews, history
    <2>16. ASSUME NEW status \in {"published", "withdrawn"}, SetClaim(i, status) PROVE Typed'
      BY <1>0, <1>2, <2>0, <2>2, <2>6, <2>16 DEF SetClaim, Typed, TypeOK, reviews, history
    <2>17. ASSUME NEW p \in Ids, Decide(i, p) PROVE Typed'
      <3>1. distinct' \subseteq SUBSET Ids /\ apart' \subseteq SUBSET Ids
        BY <1>0, <2>0, <2>17 DEF Decide, TypeOK
      <3>2. UNCHANGED <<profile, holder, serial, claim, alias, suggestion, refused, redirect, audit>>
        BY <2>17 DEF Decide, reviews, history
      <3>3. edits' \in 0..MaxEdits BY <2>6, <2>17 DEF Decide
      <3>. QED BY <1>0, <1>2, <2>2, <3>1, <3>2, <3>3 DEF Typed, TypeOK
    <2>. QED BY <1>2, <2>8, <2>9, <2>10, <2>11, <2>12, <2>13, <2>14, <2>15, <2>16, <2>17
           DEF Import, Review, Edit
  <1>3. ASSUME NEW j \in Jobs, Reconcile(j), UNCHANGED feed PROVE Typed'
    <2>0. /\ job[j] \in JobType /\ Finished(j) \in JobType /\ Finished(j).state = "idle"
          /\ job \in [Jobs -> JobType]
      BY <1>0, FinishedTyped DEF Typed, TypeOK
    <2>1. NoMerge /\ job' \in [Jobs -> JobType] /\ Working' => Typed'
      BY <1>0, <1>3 DEF NoMerge, Typed, TypeOK, reviews, history
    <2>2. CASE Start(j)
      <3>1. Cardinality(Public) \in Nat /\ Cardinality(Public) > 0
        BY <1>0, <2>2, FiniteRows DEF TypeOK, Start
      <3>2. job' \in [Jobs -> JobType] BY <2>0, <2>2, <3>1 DEF Start, JobType, Match
      <3>3. Working' BY <2>0, <2>2, <3>1 DEF Start, Working, Typed
      <3>. QED BY <2>1, <2>2, <3>2, <3>3 DEF Start
    <2>3. CASE Plan(j)
      <3>1. ReconciliationPlan(NamesakePairs) \in SUBSET Match
        BY DEF ReconciliationPlan, Matches
      <3>2. job' \in [Jobs -> JobType] BY <2>0, <2>3, <3>1 DEF Plan, JobType
      <3>3. Working' BY <2>0, <2>3 DEF Plan, Working, Typed, JobType
      <3>. QED BY <2>1, <2>3, <3>2, <3>3 DEF Plan
    <2>4. CASE EndPass(j)
      <3>1. AfterPass(j) \in JobType /\ (AfterPass(j).state # "idle" => AfterPass(j).left > 0)
        BY <2>0, <2>4 DEF EndPass, AfterPass, Typed, Working, JobType
      <3>2. job' \in [Jobs -> JobType] /\ Working'
        BY <2>0, <2>4, <3>1 DEF EndPass, Typed, Working
      <3>. QED BY <2>1, <2>4, <3>2 DEF EndPass
    <2>5. ASSUME NEW x \in job[j].plan, Recheck(j, x) PROVE Typed'
      <3>1. CASE Current(x) = {} /\ job' = [job EXCEPT ![j].plan = job[j].plan \ {x}] /\ NoMerge
        <4>1. job' \in [Jobs -> JobType] BY <2>0, <3>1 DEF JobType
        <4>2. Working' BY <2>0, <3>1 DEF Working, Typed, JobType
        <4>. QED BY <2>1, <3>1, <4>1, <4>2
      <3>2. CASE ~(Current(x) = {} /\ job' = [job EXCEPT ![j].plan = job[j].plan \ {x}] /\ NoMerge)
        <4>1. PICK m \in Current(x) : Merge(m) BY <2>5, <3>2 DEF Recheck
        <4>2. m \in Match BY CurrentIsEligible
        <4>3. job[j].left > 0 /\ job[j].state = "merging"
          BY <2>5 DEF Recheck, Typed, Working
        <4>4. job' = [k \in Jobs |->
                IF k # j THEN Interrupted(job[k])
                ELSE IF job[j].left = 1 THEN Finished(j)
                ELSE [job[j] EXCEPT !.plan = job[j].plan \ {x}, !.changed = TRUE, !.left = @ - 1]]
          BY <2>5, <3>2 DEF Recheck, Spent
        <4>5. \A k \in Jobs : Interrupted(job[k]) \in JobType /\ Interrupted(job[k]).state = job[k].state
                              /\ Interrupted(job[k]).left = job[k].left
          BY <2>0, InterruptedTyped
        <4>6. job' \in [Jobs -> JobType]
          <5>1. job[j].left \in Nat /\ job[j].plan \ {x} \in SUBSET Match BY <2>0 DEF JobType
          <5>2. job[j].left - 1 \in Nat BY <4>3, <5>1
          <5>3. [job[j] EXCEPT !.plan = job[j].plan \ {x}, !.changed = TRUE, !.left = @ - 1]
                  \in JobType
            BY <2>0, <5>1, <5>2 DEF JobType
          <5>. QED BY <2>0, <4>4, <4>5, <5>3
        <4>7. Working' BY <2>0, <4>3, <4>4, <4>5 DEF Working, Typed, JobType
        <4>. QED BY <1>0, <1>3, <4>1, <4>2, <4>6, <4>7, MergeTyped DEF Typed, TypeOK
      <3>. QED BY <3>1, <3>2
    <2>. QED BY <1>3, <2>2, <2>3, <2>4, <2>5 DEF Reconcile
  <1>. QED BY <1>1, <1>2, <1>3 DEF Next

\* Every reachable state of identities, reviews and reconciliations is well typed.
THEOREM TypeCorrect == Spec => []TypeOK
  <1>1. Typed => TypeOK BY DEF Typed
  <1>. QED BY <1>1, TypedInit, TypedNext, PTL DEF Spec
-----------------------------------------------------------------------------
(* Rows *)

\* Identifiers stand for profiles that were not merged away, and so do suggestions; only a
\* mapped identifier has claims.
RowsInv ==
    /\ \A i \in Ids : holder[i] # NoOne => Exists(holder[i])
    /\ \A i \in Ids : holder[i] = NoOne => claim[i] = "unused"
    /\ \A p, i \in Ids : suggestion[p][i] # "none" => Exists(p)

\* Either nothing but a job changes, or an eligible match is merged.
LEMMA ReconcileSteps ==
    ASSUME NEW j, Reconcile(j)
    PROVE  NoMerge \/ \E x : \E m \in Current(x) : Merge(m)
  BY DEF Reconcile, Start, Plan, EndPass, Recheck

LEMMA RowsInit == Init => RowsInv
  BY DEF Init, RowsInv

LEMMA RowsMerge ==
    ASSUME TypeOK, RowsInv, NEW x, NEW m \in Current(x), Merge(m)
    PROVE  RowsInv'
  <1>1. /\ m.removed \in Ids /\ m.retained \in Ids /\ m.removed # m.retained
        /\ profile[m.removed] = "public" /\ profile[m.retained] = "public"
    BY CurrentIsEligible
  <1>2. \A p \in Ids : profile'[p] = IF p = m.removed THEN "merged" ELSE profile[p]
    BY <1>1 DEF Merge, TypeOK
  <1>3. \A i \in Ids : holder'[i] = Moved(holder[i], m) BY DEF Merge
  <1>4. \A i \in Ids : holder'[i] # NoOne => profile'[holder'[i]] \in {"public", "hidden"}
    <2>. SUFFICES ASSUME NEW i \in Ids, holder'[i] # NoOne PROVE profile'[holder'[i]] \in {"public", "hidden"} OBVIOUS
    <2>1. holder[i] \in Ids \cup {NoOne} BY DEF TypeOK
    <2>2. CASE holder[i] = m.removed
      BY <1>1, <1>2, <1>3, <2>2 DEF Moved
    <2>3. CASE holder[i] # m.removed
      <3>1. holder'[i] = holder[i] BY <1>3, <2>3 DEF Moved
      <3>2. holder[i] \in Ids /\ Exists(holder[i]) BY <2>1, <3>1 DEF RowsInv
      <3>. QED BY <1>2, <2>3, <3>1, <3>2 DEF Exists
    <2>. QED BY <2>2, <2>3
  <1>5. \A i \in Ids : holder'[i] = NoOne => claim'[i] = "unused"
    BY <1>1, <1>3, IdentityAssumption DEF RowsInv, Moved, Merge
  <1>6. \A p, i \in Ids : suggestion'[p][i] # "none" => Exists(p)'
    <2>. SUFFICES ASSUME NEW p \in Ids, NEW i \in Ids, suggestion'[p][i] # "none"
                  PROVE  Exists(p)' OBVIOUS
    <2>1. suggestion' = SuggestionsAfter(m) BY DEF Merge
    <2>2. p # m.removed BY <2>1 DEF SuggestionsAfter
    <2>3. CASE p = m.retained BY <1>1, <1>2, <2>2, <2>3 DEF Exists
    <2>4. CASE p # m.retained
      <3>1. suggestion'[p][i] = suggestion[p][i] BY <2>1, <2>2, <2>4 DEF SuggestionsAfter
      <3>2. Exists(p) BY <3>1 DEF RowsInv
      <3>. QED BY <1>2, <2>2, <3>2 DEF Exists
    <2>. QED BY <2>3, <2>4
  <1>. QED BY <1>4, <1>5, <1>6 DEF RowsInv, Exists

LEMMA RowsNext == Typed /\ RowsInv /\ [Next]_vars => RowsInv'
  <1>. SUFFICES ASSUME TypeOK, RowsInv, [Next]_vars PROVE RowsInv' BY DEF Typed
  <1>. USE IdentityAssumption
  <1>1. CASE UNCHANGED vars BY <1>1 DEF vars, RowsInv, Exists
  <1>2. ASSUME NEW i \in Ids, Import(i) \/ Review(i) \/ Edit(i) PROVE RowsInv'
    <2>1. CASE Resolve(i) BY <2>1 DEF Resolve, RowsInv, Exists, reviews, history
    <2>2. ASSUME NEW p \in Ids, Attach(i, p) PROVE RowsInv'
      <3>1. Exists(p) BY <2>2 DEF Attach, Candidates, Public, Exists
      <3>. QED BY <2>2, <3>1 DEF Attach, RowsInv, Exists, reviews, history, TypeOK
    <2>3. CASE Create(i)
      <3>1. \A p \in Ids : profile'[p] = IF p = i THEN "public" ELSE profile[p]
        BY <2>3 DEF Create, TypeOK
      <3>2. \A p, k \in Ids : suggestion'[p][k] # "none" => Exists(p)
        <4>1. \A p \in Candidates(i) : Exists(p) BY DEF Candidates, Public, Exists
        <4>2. \A p, k \in Ids : \/ suggestion'[p][k] = suggestion[p][k]
                                \/ p \in Candidates(i)
          BY <2>3 DEF Create, TypeOK
        <4>. QED BY <4>1, <4>2 DEF RowsInv
      <3>3. \A k \in Ids : holder'[k] = (IF k = i THEN i ELSE holder[k])
        BY <2>3 DEF Create, TypeOK
      <3>4. \A k \in Ids : holder[k] \in Ids \cup {NoOne} BY DEF TypeOK
      <3>5. \A k \in Ids : holder'[k] # NoOne => holder'[k] \in Ids /\ profile'[holder'[k]] \in {"public", "hidden"}
        BY <3>1, <3>3, <3>4 DEF RowsInv, Exists
      <3>6. \A k \in Ids : holder'[k] = NoOne => claim'[k] = "unused"
        BY <2>3, <3>3 DEF Create, RowsInv
      <3>7. \A p, k \in Ids : suggestion'[p][k] # "none" => Exists(p)'
        BY <3>1, <3>2 DEF Exists
      <3>. QED BY <3>5, <3>6, <3>7 DEF RowsInv, Exists
    <2>4. ASSUME NEW p \in Ids, Suggest(p, i) PROVE RowsInv'
      BY <2>4 DEF Suggest, RowsInv, Exists, TypeOK
    <2>5. ASSUME NEW p \in Ids, Accept(p, i) PROVE RowsInv'
      <3>1. Exists(p) BY <2>5 DEF Accept, RowsInv
      <3>2. \A q, k \in Ids : suggestion'[q][k] # "none" => suggestion[q][k] # "none"
        BY <2>5 DEF Accept, TypeOK
      <3>3. \A k \in Ids : holder'[k] = (IF k = i THEN p ELSE holder[k])
        BY <2>5 DEF Accept, TypeOK
      <3>. QED BY <2>5, <3>1, <3>2, <3>3 DEF Accept, RowsInv, Exists
    <2>6. ASSUME NEW p \in Ids, Reject(p, i) PROVE RowsInv'
      BY <2>6 DEF Reject, RowsInv, Exists, TypeOK
    <2>7. ASSUME NEW p \in Ids, Remap(i, p) PROVE RowsInv'
      BY <2>7 DEF Remap, RowsInv, Exists, TypeOK
    <2>8. CASE SetPublic(i)
      <3>1. \A p \in Ids : Exists(p)' = Exists(p) BY <2>8 DEF SetPublic, Exists, TypeOK
      <3>2. \A k \in Ids : holder[k] \in Ids \cup {NoOne} BY DEF TypeOK
      <3>. QED BY <2>8, <3>1, <3>2 DEF SetPublic, RowsInv, reviews
    <2>9. ASSUME NEW status \in {"published", "withdrawn"}, SetClaim(i, status) PROVE RowsInv'
      BY <2>9 DEF SetClaim, RowsInv, Exists, TypeOK, reviews
    <2>10. ASSUME NEW p \in Ids, Decide(i, p) PROVE RowsInv'
      BY <2>10 DEF Decide, RowsInv, Exists, reviews
    <2>. QED BY <1>2, <2>1, <2>2, <2>3, <2>4, <2>5, <2>6, <2>7, <2>8, <2>9, <2>10
           DEF Import, Review, Edit
  <1>3. ASSUME NEW j \in Jobs, Reconcile(j) PROVE RowsInv'
    <2>1. CASE NoMerge BY <2>1 DEF NoMerge, RowsInv, Exists, reviews
    <2>. QED BY <1>3, <2>1, ReconcileSteps, RowsMerge
  <1>4. feed \subseteq Ids BY DEF TypeOK
  <1>. QED BY <1>1, <1>2, <1>3, <1>4 DEF Next
-----------------------------------------------------------------------------
(* Redirects *)

RedirectInv ==
    \A p \in Ids :
        /\ (profile[p] = "merged") = (redirect[p] # NoOne)
        /\ redirect[p] # NoOne => /\ audit[p] \in Ids /\ redirect[p] \in Ids
                                  /\ redirect[p] = Canonical(audit[p])
                                  /\ Exists(redirect[p])

\* A merge sends every reader of the removed profile, old or new, to the retained one.
LEMMA MergedCanonical ==
    ASSUME TypeOK, RedirectInv, NEW x, NEW m \in Current(x), Merge(m)
    PROVE  \A p \in Ids : Canonical(p)' = Moved(Canonical(p), m)
  <1>1. /\ m.removed \in Ids /\ m.retained \in Ids /\ m.removed # m.retained
        /\ profile[m.removed] = "public"
    BY CurrentIsEligible
  <1>2. \A p \in Ids : redirect'[p] = IF p = m.removed THEN m.retained ELSE Moved(redirect[p], m)
    BY DEF Merge, RedirectsAfter
  <1>3. redirect[m.removed] = NoOne BY <1>1 DEF RedirectInv
  <1>4. m.retained # NoOne /\ m.removed # NoOne BY <1>1, IdentityAssumption
  <1>. QED BY <1>1, <1>2, <1>3, <1>4 DEF Canonical, Moved

LEMMA RedirectMerge ==
    ASSUME TypeOK, RedirectInv, NEW x, NEW m \in Current(x), Merge(m)
    PROVE  RedirectInv'
  <1>1. /\ m.removed \in Ids /\ m.retained \in Ids /\ m.removed # m.retained
        /\ profile[m.removed] = "public" /\ profile[m.retained] = "public"
    BY CurrentIsEligible
  <1>. SUFFICES ASSUME NEW p \in Ids
                PROVE  /\ (profile'[p] = "merged") = (redirect'[p] # NoOne)
                       /\ redirect'[p] # NoOne => /\ audit'[p] \in Ids /\ redirect'[p] \in Ids
                                                  /\ redirect'[p] = Canonical(audit[p])'
                                                  /\ profile'[redirect'[p]] \in {"public", "hidden"}
    BY DEF RedirectInv, Exists
  <1>2. \A q \in Ids : Canonical(q)' = Moved(Canonical(q), m) BY MergedCanonical
  <1>3. redirect'[p] = IF p = m.removed THEN m.retained ELSE Moved(redirect[p], m)
    BY DEF Merge, RedirectsAfter
  <1>4. /\ audit' = [audit EXCEPT ![m.removed] = m.retained]
        /\ profile' = [profile EXCEPT ![m.removed] = "merged"]
    BY DEF Merge
  <1>5. redirect[m.retained] = NoOne /\ NoOne \notin Ids BY <1>1, IdentityAssumption DEF RedirectInv
  <1>6. CASE p = m.removed
    <2>1. redirect'[p] = m.retained /\ audit'[p] = m.retained /\ profile'[p] = "merged"
      BY <1>3, <1>4, <1>6 DEF TypeOK
    <2>2. Canonical(m.retained)' = m.retained BY <1>1, <1>2, <1>5 DEF Moved, Canonical
    <2>3. Canonical(audit[p])' = m.retained BY <2>1, <2>2 DEF Canonical
    <2>4. profile'[m.retained] = "public" BY <1>1, <1>4 DEF TypeOK
    <2>. QED BY <1>1, <1>5, <2>1, <2>3, <2>4
  <1>7. CASE p # m.removed
    <2>1. audit'[p] = audit[p] /\ profile'[p] = profile[p] /\ redirect'[p] = Moved(redirect[p], m)
      BY <1>3, <1>4, <1>7 DEF TypeOK
    <2>2. (redirect'[p] # NoOne) = (redirect[p] # NoOne)
      BY <1>1, <1>5, <2>1 DEF Moved
    <2>3. ASSUME redirect[p] # NoOne
          PROVE  /\ audit[p] \in Ids /\ redirect'[p] \in Ids
                 /\ redirect'[p] = Canonical(audit[p])' /\ profile'[redirect'[p]] \in {"public", "hidden"}
      <3>1. /\ audit[p] \in Ids /\ redirect[p] \in Ids /\ redirect[p] = Canonical(audit[p])
            /\ Exists(redirect[p])
        BY <2>3 DEF RedirectInv
      <3>2. redirect'[p] = Canonical(audit[p])' BY <1>2, <2>1, <3>1
      <3>3. profile'[redirect'[p]] \in {"public", "hidden"} /\ redirect'[p] \in Ids
        BY <1>1, <1>4, <2>1, <3>1 DEF Exists, Moved, TypeOK
      <3>. QED BY <3>1, <3>2, <3>3
    <2>. QED BY <2>1, <2>2, <2>3 DEF RedirectInv
  <1>. QED BY <1>6, <1>7

LEMMA RedirectNext == Typed /\ RedirectInv /\ [Next]_vars => RedirectInv'
  <1>. SUFFICES ASSUME TypeOK, RedirectInv, [Next]_vars PROVE RedirectInv' BY DEF Typed
  <1>1. ASSUME UNCHANGED history, \A p \in Ids : /\ (profile'[p] = "merged") = (profile[p] = "merged")
                                                 /\ Exists(p) => Exists(p)'
        PROVE  RedirectInv'
    BY <1>1 DEF RedirectInv, Canonical, history
  <1>2. CASE UNCHANGED <<profile, history>> BY <1>1, <1>2 DEF Exists
  <1>3. CASE UNCHANGED vars BY <1>2, <1>3 DEF vars, history
  <1>4. ASSUME NEW i \in Ids, Import(i) \/ Review(i) \/ Edit(i) PROVE RedirectInv'
    <2>1. CASE Create(i)
      <3>1. \A p \in Ids : /\ (profile'[p] = "merged") = (profile[p] = "merged")
                           /\ Exists(p) => Exists(p)'
        BY <2>1 DEF Create, Exists, TypeOK
      <3>. QED BY <1>1, <2>1, <3>1 DEF Create
    <2>2. CASE SetPublic(i)
      <3>1. \A p \in Ids : /\ (profile'[p] = "merged") = (profile[p] = "merged")
                           /\ Exists(p) => Exists(p)'
        BY <2>2 DEF SetPublic, Exists, TypeOK
      <3>. QED BY <1>1, <2>2, <3>1 DEF SetPublic
    <2>3. CASE Resolve(i) BY <1>2, <2>3 DEF Resolve
    <2>4. ASSUME NEW p \in Ids, Attach(i, p) PROVE RedirectInv' BY <1>2, <2>4 DEF Attach
    <2>5. ASSUME NEW p \in Ids, Suggest(p, i) PROVE RedirectInv' BY <1>2, <2>5 DEF Suggest
    <2>6. ASSUME NEW p \in Ids, Accept(p, i) PROVE RedirectInv' BY <1>2, <2>6 DEF Accept
    <2>7. ASSUME NEW p \in Ids, Reject(p, i) PROVE RedirectInv' BY <1>2, <2>7 DEF Reject
    <2>8. ASSUME NEW p \in Ids, Remap(i, p) PROVE RedirectInv' BY <1>2, <2>8 DEF Remap
    <2>9. ASSUME NEW status, SetClaim(i, status) PROVE RedirectInv' BY <1>2, <2>9 DEF SetClaim
    <2>10. ASSUME NEW p \in Ids, Decide(i, p) PROVE RedirectInv' BY <1>2, <2>10 DEF Decide
    <2>. QED BY <1>4, <2>1, <2>2, <2>3, <2>4, <2>5, <2>6, <2>7, <2>8, <2>9, <2>10
           DEF Import, Review, Edit
  <1>5. ASSUME NEW j \in Jobs, Reconcile(j) PROVE RedirectInv'
    <2>1. CASE NoMerge BY <1>2, <2>1 DEF NoMerge
    <2>2. CASE ~NoMerge
      <3>1. PICK x : \E m \in Current(x) : Merge(m) BY <1>5, <2>2, ReconcileSteps
      <3>2. PICK m \in Current(x) : Merge(m) BY <3>1
      <3>. QED BY <3>2, RedirectMerge
    <2>. QED BY <2>1, <2>2
  <1>6. feed \subseteq Ids BY IdentityAssumption DEF TypeOK
  <1>. QED BY <1>3, <1>4, <1>5, <1>6 DEF Next

LEMMA RedirectInit == Init => RedirectInv
  BY DEF Init, RedirectInv

\* Old URLs lead in one step to the profile that the immutable audits, followed from merge to
\* merge, end at.
THEOREM Redirects == Spec => []RedirectsFollowAudit
  <1>1. Typed /\ RedirectInv => RedirectsFollowAudit
    BY DEF RedirectInv, RedirectsFollowAudit
  <1>. QED BY <1>1, TypedInit, TypedNext, RedirectInit, RedirectNext, PTL DEF Spec
-----------------------------------------------------------------------------
(* Decisions of editors *)

\* The refusal of a profile binds the one it was merged into.
RefusedInv ==
    \A p, i \in Ids : <<p, i>> \in refused => /\ suggestion[Canonical(p)][i] = "rejected"
                                              /\ holder[i] # Canonical(p)

ApartInv ==
    \A p, q \in Ids : {p, q} \in apart /\ p # q => /\ {Canonical(p), Canonical(q)} \in distinct
                                                   /\ Canonical(p) # Canonical(q)

Decided == Typed /\ RowsInv /\ RedirectInv /\ RefusedInv /\ ApartInv

LEMMA DecidedInit == Init => Decided
  BY TypedInit, RowsInit, RedirectInit DEF Init, Decided, RefusedInv, ApartInv

LEMMA CanonicalTyped == ASSUME TypeOK, NEW p \in Ids PROVE Canonical(p) \in Ids
  BY DEF TypeOK, Canonical

LEMMA CanonicalOfExisting ==
    ASSUME RedirectInv, NEW p \in Ids, Exists(p) PROVE Canonical(p) = p
  BY DEF RedirectInv, Canonical, Exists

LEMMA RefusedMerge ==
    ASSUME Decided, NEW x, NEW m \in Current(x), Merge(m)
    PROVE  RefusedInv'
  <1>1. /\ m.removed \in Ids /\ m.retained \in Ids /\ m.removed # m.retained
        /\ ~Blocked(m.removed, m.retained)
    BY CurrentIsEligible
  <1>. SUFFICES ASSUME NEW p \in Ids, NEW i \in Ids, <<p, i>> \in refused'
                PROVE  suggestion'[Canonical(p)'][i] = "rejected" /\ holder'[i] # Canonical(p)'
    BY DEF RefusedInv
  <1>. DEFINE c == Canonical(p)
  <1>2. c \in Ids BY CanonicalTyped DEF Decided, Typed
  <1>3. suggestion[c][i] = "rejected" /\ holder[i] # c BY DEF Merge, Decided, RefusedInv
  <1>4. Canonical(p)' = Moved(c, m) BY MergedCanonical DEF Decided, Typed
  <1>5. holder'[i] = Moved(holder[i], m) /\ suggestion' = SuggestionsAfter(m) BY DEF Merge
  <1>6. ~Rejected(m.removed, m.retained) /\ ~Rejected(m.retained, m.removed)
    BY <1>1 DEF Blocked
  <1>. HIDE DEF c
  <1>7. suggestion'[Moved(c, m)][i] = "rejected"
    BY <1>1, <1>2, <1>3, <1>5 DEF Moved, SuggestionsAfter, Combined
  <1>8. ~(c = m.removed /\ holder[i] = m.retained) /\ ~(c = m.retained /\ holder[i] = m.removed)
    BY <1>3, <1>6 DEF Rejected, Known
  <1>9. Moved(holder[i], m) # Moved(c, m) BY <1>3, <1>8 DEF Moved
  <1>. QED BY <1>4, <1>5, <1>7, <1>9

LEMMA ApartMerge ==
    ASSUME Decided, NEW x, NEW m \in Current(x), Merge(m)
    PROVE  ApartInv'
  <1>1. /\ m.removed \in Ids /\ m.retained \in Ids /\ m.removed # m.retained
        /\ {m.removed, m.retained} \notin distinct
    BY CurrentIsEligible DEF Blocked
  <1>. SUFFICES ASSUME NEW p \in Ids, NEW q \in Ids, {p, q} \in apart', p # q
                PROVE  {Canonical(p)', Canonical(q)'} \in distinct' /\ Canonical(p)' # Canonical(q)'
    BY DEF ApartInv
  <1>. DEFINE c == Canonical(p)
              d == Canonical(q)
  <1>2. {c, d} \in distinct /\ c # d BY DEF Merge, Decided, ApartInv
  <1>3. Canonical(p)' = Moved(c, m) /\ Canonical(q)' = Moved(d, m)
    BY MergedCanonical DEF Decided, Typed
  <1>4. distinct' = DecisionsAfter(m) BY DEF Merge
  <1>. HIDE DEF c, d
  <1>5. {Moved(r, m) : r \in {c, d}} \in distinct' BY <1>2, <1>4 DEF DecisionsAfter
  <1>6. {Moved(r, m) : r \in {c, d}} = {Moved(c, m), Moved(d, m)} OBVIOUS
  <1>7. ~(c = m.removed /\ d = m.retained) /\ ~(c = m.retained /\ d = m.removed) BY <1>1, <1>2
  <1>8. Moved(c, m) # Moved(d, m) BY <1>2, <1>7 DEF Moved
  <1>. QED BY <1>3, <1>5, <1>6, <1>8

LEMMA DecidedNext == Decided /\ [Next]_vars => RefusedInv' /\ ApartInv'
  <1>. SUFFICES ASSUME Decided, [Next]_vars PROVE RefusedInv' /\ ApartInv' OBVIOUS
  <1>0. TypeOK /\ RowsInv /\ RedirectInv /\ RefusedInv /\ ApartInv BY DEF Decided, Typed
  <1>1. ASSUME UNCHANGED redirect PROVE \A p \in Ids : Canonical(p)' = Canonical(p)
    BY <1>1 DEF Canonical
  <1>2. ASSUME UNCHANGED <<holder, suggestion, distinct, refused, apart, redirect>>
        PROVE  RefusedInv' /\ ApartInv'
    BY <1>0, <1>2 DEF RefusedInv, ApartInv, Canonical
  <1>3. CASE UNCHANGED vars BY <1>2, <1>3 DEF vars
  <1>4. ASSUME UNCHANGED <<distinct, apart, redirect>> PROVE ApartInv'
    BY <1>0, <1>4 DEF ApartInv, Canonical
  <1>5. \A p \in Ids : Canonical(p) \in Ids BY <1>0, CanonicalTyped
  <1>6. \A p \in Ids : Exists(p) => Canonical(p) = p BY <1>0, CanonicalOfExisting
  <1>7. ASSUME NEW i \in Ids, Import(i) \/ Review(i) \/ Edit(i) PROVE RefusedInv' /\ ApartInv'
    <2>1. CASE Resolve(i) BY <1>2, <2>1 DEF Resolve, reviews, history
    <2>2. ASSUME NEW p \in Ids, Attach(i, p) PROVE RefusedInv' /\ ApartInv'
      <3>1. suggestion[p][i] # "rejected" BY <2>2 DEF Attach, Fits
      <3>2. \A k \in Ids : holder'[k] = IF k = i THEN p ELSE holder[k]
        BY <1>0, <2>2 DEF Attach, TypeOK
      <3>3. UNCHANGED <<suggestion, refused, redirect, distinct, apart>>
        BY <2>2 DEF Attach, reviews, history
      <3>. QED BY <1>0, <1>1, <1>4, <3>1, <3>2, <3>3 DEF RefusedInv
    <2>3. CASE Create(i)
      <3>1. \A k \in Ids : holder'[k] = IF k = i THEN i ELSE holder[k]
        BY <1>0, <2>3 DEF Create, TypeOK
      <3>2. \A p, k \in Ids : suggestion[p][k] = "rejected" => suggestion'[p][k] = "rejected"
        BY <1>0, <2>3 DEF Create, TypeOK
      <3>3. \A k \in Ids : suggestion[i][k] = "none"
        BY <1>0, <2>3 DEF Create, RowsInv, Exists
      <3>4. UNCHANGED <<refused, redirect, distinct, apart>> BY <2>3 DEF Create, history
      <3>. QED BY <1>0, <1>1, <1>4, <1>5, <3>1, <3>2, <3>3, <3>4 DEF RefusedInv
    <2>4. ASSUME NEW p \in Ids, Suggest(p, i) PROVE RefusedInv' /\ ApartInv'
      <3>1. \A q, k \in Ids : suggestion[q][k] = "rejected" => suggestion'[q][k] = "rejected"
        BY <1>0, <2>4 DEF Suggest, TypeOK
      <3>2. UNCHANGED <<holder, refused, redirect, distinct, apart>> BY <2>4 DEF Suggest, history
      <3>. QED BY <1>0, <1>1, <1>4, <1>5, <3>1, <3>2 DEF RefusedInv
    <2>5. ASSUME NEW p \in Ids, Accept(p, i) PROVE RefusedInv' /\ ApartInv'
      <3>. DEFINE others == {q \in Ids \ {p} : suggestion[q][i] = "pending"}
      <3>1. \A k \in Ids : holder'[k] = IF k = i THEN p ELSE holder[k]
        BY <1>0, <2>5 DEF Accept, TypeOK
      <3>2. /\ suggestion[p][i] = "pending"
            /\ suggestion' = [q \in Ids |-> [suggestion[q] EXCEPT ![i] =
                 IF q = p THEN "accepted" ELSE IF q \in others THEN "rejected" ELSE @]]
            /\ refused' = refused \cup (others \X {i})
        BY <2>5 DEF Accept
      <3>3. \A q, k \in Ids : suggestion[q][k] = "rejected" => suggestion'[q][k] = "rejected"
        BY <1>0, <3>2 DEF TypeOK
      <3>4. \A q \in others : /\ q # p /\ Canonical(q) = q /\ suggestion'[q][i] = "rejected"
        BY <1>0, <1>6, <3>2 DEF TypeOK, RowsInv
      <3>5. UNCHANGED <<redirect, distinct, apart>> BY <2>5 DEF Accept, history
      <3>6. ASSUME NEW q \in Ids, NEW k \in Ids, <<q, k>> \in refused'
            PROVE  suggestion'[Canonical(q)][k] = "rejected" /\ holder'[k] # Canonical(q)
        <4>1. CASE <<q, k>> \in refused
          BY <1>0, <1>5, <3>1, <3>2, <3>3, <4>1 DEF RefusedInv
        <4>2. CASE q \in others /\ k = i BY <3>1, <3>4, <4>2
        <4>3. <<q, k>> \in refused \/ (q \in others /\ k = i) BY <3>2, <3>6
        <4>. QED BY <4>1, <4>2, <4>3
      <3>. QED BY <1>1, <1>4, <3>5, <3>6 DEF RefusedInv
    <2>6. ASSUME NEW p \in Ids, Reject(p, i) PROVE RefusedInv' /\ ApartInv'
      <3>1. /\ suggestion[p][i] = "pending" /\ Exists(p) /\ Canonical(p) = p
        BY <1>0, <1>6, <2>6 DEF Reject, RowsInv
      <3>2. \A q, k \in Ids : suggestion'[q][k] =
                IF q = p /\ k = i THEN "rejected" ELSE suggestion[q][k]
        BY <1>0, <2>6 DEF Reject, TypeOK
      <3>3. UNCHANGED <<holder, redirect, distinct, apart>> BY <2>6 DEF Reject, history
      <3>4. \A q, k \in Ids : <<q, k>> \in refused' =>
                <<q, k>> \in refused \/ (q = p /\ k = i /\ holder[i] # p)
        BY <2>6 DEF Reject
      <3>. QED BY <1>0, <1>1, <1>4, <1>5, <3>1, <3>2, <3>3, <3>4 DEF RefusedInv
    <2>7. ASSUME NEW p \in Ids, Remap(i, p) PROVE RefusedInv' /\ ApartInv'
      <3>1. \A k \in Ids : holder'[k] = IF k = i THEN p ELSE holder[k]
        BY <1>0, <2>7 DEF Remap, TypeOK
      <3>2. \A q, k \in Ids : <<q, k>> \in refused' =>
                <<q, k>> \in refused /\ ~(k = i /\ Canonical(q) = p)
        BY <2>7 DEF Remap
      <3>3. UNCHANGED <<suggestion, redirect, distinct, apart>> BY <2>7 DEF Remap, history
      <3>. QED BY <1>0, <1>1, <1>4, <3>1, <3>2, <3>3 DEF RefusedInv
    <2>8. CASE SetPublic(i) BY <1>2, <2>8 DEF SetPublic, reviews, history
    <2>9. ASSUME NEW status, SetClaim(i, status) PROVE RefusedInv' /\ ApartInv'
      BY <1>2, <2>9 DEF SetClaim, reviews, history
    <2>10. ASSUME NEW p \in Ids, Decide(i, p) PROVE RefusedInv' /\ ApartInv'
      <3>1. UNCHANGED <<holder, suggestion, refused, redirect>>
        BY <2>10 DEF Decide, reviews, history
      <3>2. RefusedInv' BY <1>0, <1>1, <3>1 DEF RefusedInv
      <3>3. /\ i # p /\ Canonical(i) = i /\ Canonical(p) = p
            /\ distinct' = distinct \cup {{i, p}} /\ apart' = apart \cup {{i, p}}
        BY <1>6, <2>10 DEF Decide
      <3>4. ASSUME NEW q \in Ids, NEW r \in Ids, {q, r} \in apart', q # r
            PROVE  {Canonical(q), Canonical(r)} \in distinct' /\ Canonical(q) # Canonical(r)
        <4>1. CASE {q, r} \in apart BY <1>0, <3>3, <3>4, <4>1 DEF ApartInv
        <4>2. CASE {q, r} = {i, p}
          <5>1. (q = i /\ r = p) \/ (q = p /\ r = i) BY <4>2, PairOfTwo
          <5>. QED BY <3>3, <5>1
        <4>. QED BY <3>3, <3>4, <4>1, <4>2
      <3>. QED BY <1>1, <3>1, <3>2, <3>4 DEF ApartInv
    <2>. QED BY <1>7, <2>1, <2>2, <2>3, <2>4, <2>5, <2>6, <2>7, <2>8, <2>9, <2>10
           DEF Import, Review, Edit
  <1>8. ASSUME NEW j \in Jobs, Reconcile(j) PROVE RefusedInv' /\ ApartInv'
    <2>1. CASE NoMerge BY <1>2, <2>1 DEF NoMerge, reviews, history
    <2>2. CASE ~NoMerge
      <3>1. PICK x : \E m \in Current(x) : Merge(m) BY <1>8, <2>2, ReconcileSteps
      <3>2. PICK m \in Current(x) : Merge(m) BY <3>1
      <3>. QED BY <3>2, RefusedMerge, ApartMerge
    <2>. QED BY <2>1, <2>2
  <1>9. feed \subseteq Ids BY <1>0, IdentityAssumption DEF TypeOK
  <1>. QED BY <1>3, <1>7, <1>8, <1>9 DEF Next

LEMMA DecidedHolds == Spec => []Decided
  <1>1. Decided /\ [Next]_vars => Decided'
    BY TypedNext, RowsNext, RedirectNext, DecidedNext DEF Decided
  <1>. QED BY <1>1, DecidedInit, PTL DEF Spec

\* No import, review or merge ever joins a profile and an identifier that an editor decided
\* against: the merge rule reads the same rejections that a merge carries to the retained profile.
THEOREM Rejections == Spec => []RejectionsHold
  <1>1. Decided => RejectionsHold BY DEF Decided, Typed, TypeOK, RefusedInv, RejectionsHold
  <1>. QED BY <1>1, DecidedHolds, PTL

\* Profiles decided to be distinct people are never merged, with each other or through others.
THEOREM Distinctness == Spec => []DistinctHold
  <1>1. Decided => DistinctHold BY DEF Decided, ApartInv, DistinctHold
  <1>. QED BY <1>1, DecidedHolds, PTL

\* What an editor decided about two profiles stands.
THEOREM Decisions == Spec => []DecisionsHold
  BY Rejections, Distinctness, PTL DEF DecisionsHold
-----------------------------------------------------------------------------
(* What a merge may do *)

\* The component that is planned again holds every namesake pair of the profiles it merges.
LEMMA SameNeighbours ==
    ASSUME NEW seeds, NEW p \in Ids,
           \E e \in NamesakeComponent(NamesakePairs, seeds) : p \in e
    PROVE  Neighbours(Edges(NamesakeComponent(NamesakePairs, seeds)), p)
             = Neighbours(Edges(NamesakePairs), p)
  <1>. DEFINE part == NamesakeComponent(NamesakePairs, seeds)
  <1>1. part \subseteq NamesakePairs BY ComponentIsPart
  <1>2. PICK e \in part : p \in e OBVIOUS
  <1>3. ASSUME NEW q \in Ids, {p, q} \in NamesakePairs PROVE {p, q} \in part
    <2>. SUFFICES ASSUME NEW s \in SUBSET Ids, seeds \subseteq s,
                         \A d \in NamesakePairs : d \cap s # {} => d \subseteq s
                  PROVE  {p, q} \subseteq s
      BY <1>3 DEF NamesakeComponent
    <2>1. e \subseteq s BY <1>2 DEF NamesakeComponent
    <2>. QED BY <1>2, <1>3, <2>1
  <1>. HIDE DEF part
  <1>4. \A q \in Ids : {p, q} \in Edges(part) <=> {p, q} \in Edges(NamesakePairs)
    BY <1>1, <1>3 DEF Edges
  <1>. QED BY <1>4 DEF Neighbours, part

LEMMA MergeIsUnambiguous ==
    ASSUME NEW x, NEW m \in Current(x)
    PROVE  /\ {m.removed, m.retained} \in Edges(NamesakePairs) /\ Precedes(m.retained, m.removed)
           /\ OnlyChoice(Edges(NamesakePairs), m.removed, m.retained)
           /\ OnlyChoice(Edges(NamesakePairs), m.retained, m.removed)
  <1>. DEFINE seeds == {x.removed, x.retained}
              part == NamesakeComponent(NamesakePairs, seeds)
  <1>1. m \in ReconciliationPlan(part) /\ part \in SUBSET NamesakePairs
    BY ComponentIsPart DEF Current
  <1>2. /\ m.removed \in Ids /\ m.retained \in Ids
        /\ {m.removed, m.retained} \in Edges(part) /\ Precedes(m.retained, m.removed)
        /\ OnlyChoice(Edges(part), m.removed, m.retained)
        /\ OnlyChoice(Edges(part), m.retained, m.removed)
    BY <1>1, PlanIsEligible
  <1>3. {m.removed, m.retained} \in part BY <1>2 DEF Edges
  <1>4. /\ Neighbours(Edges(part), m.removed) = Neighbours(Edges(NamesakePairs), m.removed)
        /\ Neighbours(Edges(part), m.retained) = Neighbours(Edges(NamesakePairs), m.retained)
    BY <1>2, <1>3, SameNeighbours
  <1>5. {m.removed, m.retained} \in Edges(NamesakePairs) BY <1>1, <1>2 DEF Edges
  <1>. HIDE DEF part
  <1>. QED BY <1>2, <1>4, <1>5 DEF OnlyChoice

\* Which mappings a step of an import, a review or an editor may change.
LEMMA MappingSteps ==
    ASSUME Decided, NEW i \in Ids, Import(i) \/ Review(i) \/ Edit(i)
    PROVE  /\ UNCHANGED audit
           /\ \/ UNCHANGED holder
              \/ \E p \in Ids :
                   /\ holder' = [holder EXCEPT ![i] = p]
                   /\ \/ Attach(i, p) \/ (Create(i) /\ p = i)
                      \/ Accept(p, i) \/ (Remap(i, p) /\ holder[i] # NoOne)
  <1>1. CASE Resolve(i) BY <1>1 DEF Resolve, history
  <1>2. ASSUME NEW p \in Ids, Attach(i, p) PROVE holder' = [holder EXCEPT ![i] = p] /\ UNCHANGED audit
    BY <1>2 DEF Attach, history
  <1>3. CASE Create(i) BY <1>3 DEF Create, history
  <1>4. ASSUME NEW p \in Ids, Suggest(p, i) PROVE UNCHANGED <<holder, audit>>
    BY <1>4 DEF Suggest, history
  <1>5. ASSUME NEW p \in Ids, Accept(p, i) PROVE holder' = [holder EXCEPT ![i] = p] /\ UNCHANGED audit
    BY <1>5 DEF Accept, history
  <1>6. ASSUME NEW p \in Ids, Reject(p, i) PROVE UNCHANGED <<holder, audit>>
    BY <1>6 DEF Reject, history
  <1>7. ASSUME NEW p \in Ids, Remap(i, p)
        PROVE holder' = [holder EXCEPT ![i] = p] /\ holder[i] # NoOne /\ UNCHANGED audit
    BY <1>7 DEF Remap, history
  <1>8. CASE SetPublic(i) BY <1>8 DEF SetPublic, history
  <1>9. ASSUME NEW status, SetClaim(i, status) PROVE UNCHANGED <<holder, audit>>
    BY <1>9 DEF SetClaim, history
  <1>10. ASSUME NEW p \in Ids, Decide(i, p) PROVE UNCHANGED <<holder, audit>>
    BY <1>10 DEF Decide, history
  <1>. QED BY <1>1, <1>2, <1>3, <1>4, <1>5, <1>6, <1>7, <1>8, <1>9, <1>10 DEF Import, Review, Edit

\* An identifier under which claims were published keeps its profile until an audited merge.
THEOREM AuditedMoves == Spec => UsedMovesAreAudited
  <1>. DEFINE A == \A i \in Ids : claim[i] # "unused" /\ holder'[i] # holder[i]
                     => audit'[holder[i]] = holder'[i] /\ profile'[holder[i]] = "merged"
  <1>1. ASSUME Decided, [Next]_vars PROVE [A]_vars
    <2>0. TypeOK /\ RowsInv BY <1>1 DEF Decided, Typed
    <2>1. CASE UNCHANGED vars BY <2>1
    <2>2. ASSUME NEW k \in Ids, Import(k) \/ Review(k) \/ Edit(k) PROVE A
      <3>1. CASE UNCHANGED holder BY <3>1
      <3>2. CASE ~UNCHANGED holder
        <4>1. PICK p \in Ids : /\ holder' = [holder EXCEPT ![k] = p]
                               /\ \/ Attach(k, p) \/ (Create(k) /\ p = k)
                                  \/ Accept(p, k) \/ (Remap(k, p) /\ holder[k] # NoOne)
          BY <1>1, <2>2, <3>2, MappingSteps
        <4>2. claim[k] = "unused" \/ holder[k] = p
          BY <2>0, <4>1 DEF Attach, Create, Accept, Movable, Remap, RowsInv
        <4>. QED BY <2>0, <4>1, <4>2 DEF TypeOK
      <3>. QED BY <3>1, <3>2
    <2>3. ASSUME NEW j \in Jobs, Reconcile(j) PROVE A
      <3>1. CASE NoMerge BY <3>1 DEF NoMerge
      <3>2. CASE ~NoMerge
        <4>1. PICK x : \E m \in Current(x) : Merge(m) BY <2>3, <3>2, ReconcileSteps
        <4>2. PICK m \in Current(x) : Merge(m) BY <4>1
        <4>3. m.removed \in Ids /\ m.retained \in Ids BY CurrentIsEligible
        <4>. QED BY <2>0, <4>2, <4>3 DEF Merge, Moved, TypeOK
      <3>. QED BY <3>1, <3>2
    <2>4. feed \subseteq Ids BY <2>0, IdentityAssumption DEF TypeOK
    <2>. HIDE DEF A
    <2>. QED BY <1>1, <2>1, <2>2, <2>3, <2>4 DEF Next
  <1>. QED BY <1>1, DecidedHolds, PTL DEF Spec, UsedMovesAreAudited

\* However stale the plan of a reconciliation, what it merges is at that moment the only choice
\* among all profiles.
THEOREM UnambiguousMerges == Spec => MergesAreUnambiguous
  <1>. DEFINE A == \A p \in Ids : audit'[p] # audit[p]
                     => LET edges == Edges(NamesakePairs)
                            q == audit'[p]
                        IN  /\ {p, q} \in edges /\ Precedes(q, p)
                            /\ OnlyChoice(edges, p, q) /\ OnlyChoice(edges, q, p)
  <1>1. ASSUME Decided, [Next]_vars PROVE [A]_vars
    <2>0. TypeOK BY <1>1 DEF Decided, Typed
    <2>1. CASE UNCHANGED vars BY <2>1
    <2>2. ASSUME NEW k \in Ids, Import(k) \/ Review(k) \/ Edit(k) PROVE A
      BY <1>1, <2>2, MappingSteps
    <2>3. ASSUME NEW j \in Jobs, Reconcile(j) PROVE A
      <3>1. CASE NoMerge BY <3>1 DEF NoMerge, history
      <3>2. CASE ~NoMerge
        <4>1. PICK x : \E m \in Current(x) : Merge(m) BY <2>3, <3>2, ReconcileSteps
        <4>2. PICK m \in Current(x) : Merge(m) BY <4>1
        <4>3. \A p \in Ids : audit'[p] # audit[p] => p = m.removed /\ audit'[p] = m.retained
          BY <2>0, <4>2 DEF Merge, TypeOK
        <4>4. /\ {m.removed, m.retained} \in Edges(NamesakePairs)
              /\ Precedes(m.retained, m.removed)
              /\ OnlyChoice(Edges(NamesakePairs), m.removed, m.retained)
              /\ OnlyChoice(Edges(NamesakePairs), m.retained, m.removed)
          BY MergeIsUnambiguous
        <4>. QED BY <4>3, <4>4
      <3>. QED BY <3>1, <3>2
    <2>4. feed \subseteq Ids BY <2>0, IdentityAssumption DEF TypeOK
    <2>. HIDE DEF A
    <2>. QED BY <1>1, <2>1, <2>2, <2>3, <2>4 DEF Next
  <1>. QED BY <1>1, DecidedHolds, PTL DEF Spec, MergesAreUnambiguous

\* Two identifiers of an exclusive register meet in one profile only where a reviewer put them.
THEOREM ExclusiveRegisters == Spec => RegistersStayExclusive
  <1>. DEFINE A == \A i, k \in Ids :
                      /\ Register[i] = Register[k] /\ Register[i] # Shared
                      /\ holder'[i] = holder'[k] /\ holder[i] # holder[k]
                      => Reviewed
  <1>1. ASSUME Decided, [Next]_vars PROVE [A]_vars
    <2>0. TypeOK /\ RowsInv BY <1>1 DEF Decided, Typed
    <2>1. CASE UNCHANGED vars BY <2>1
    <2>2. ASSUME NEW h \in Ids, Import(h) \/ Review(h) \/ Edit(h) PROVE A
      <3>1. CASE UNCHANGED holder BY <3>1
      <3>2. CASE ~UNCHANGED holder
        <4>1. PICK p \in Ids : /\ holder' = [holder EXCEPT ![h] = p]
                               /\ \/ Attach(h, p) \/ (Create(h) /\ p = h)
                                  \/ Accept(p, h) \/ (Remap(h, p) /\ holder[h] # NoOne)
          BY <1>1, <2>2, <3>2, MappingSteps
        <4>2. CASE Accept(p, h)
          <5>1. suggestion[p][h] = "pending" /\ suggestion'[p][h] = "accepted"
            BY <2>0, <4>2 DEF Accept, TypeOK
          <5>. QED BY <5>1 DEF Reviewed
        <4>3. CASE Remap(h, p) /\ holder[h] # NoOne
          <5>1. h \in Mapped /\ audit' = audit BY <4>3 DEF Mapped, Remap, history
          <5>. QED BY <3>2, <4>1, <4>3, <5>1 DEF Reviewed, Remap, TypeOK
        <4>4. CASE Attach(h, p)
          <5>1. Fits(p, h) BY <4>4 DEF Attach
          <5>2. \A k \in Ids : holder[k] = p => Register[k] = Shared \/ Register[k] # Register[h]
            BY <5>1 DEF Fits, Registers, Known
          <5>. QED BY <2>0, <4>1, <5>2 DEF TypeOK
        <4>5. CASE Create(h) /\ p = h
          <5>1. \A k \in Ids : holder[k] # p
            BY <2>0, <4>5, IdentityAssumption DEF Create, RowsInv, Exists
          <5>. QED BY <2>0, <4>1, <5>1 DEF TypeOK
        <4>. HIDE DEF A
        <4>. QED BY <4>1, <4>2, <4>3, <4>4, <4>5
      <3>. QED BY <3>1, <3>2
    <2>3. ASSUME NEW j \in Jobs, Reconcile(j) PROVE A
      <3>1. CASE NoMerge BY <3>1 DEF NoMerge
      <3>2. CASE ~NoMerge
        <4>1. PICK x : \E m \in Current(x) : Merge(m) BY <2>3, <3>2, ReconcileSteps
        <4>2. PICK m \in Current(x) : Merge(m) BY <4>1
        <4>3. Registers(m.removed) \cap Registers(m.retained) = {}
          BY CurrentIsEligible DEF Blocked
        <4>4. \A i \in Ids : holder'[i] = Moved(holder[i], m) BY <4>2 DEF Merge
        <4>5. \A i, k \in Ids : holder[i] = m.removed /\ holder[k] = m.retained
                => Register[i] = Shared \/ Register[i] # Register[k]
          BY <4>3 DEF Registers, Known
        <4>. QED BY <4>4, <4>5 DEF Moved
      <3>. QED BY <3>1, <3>2
    <2>4. feed \subseteq Ids BY <2>0, IdentityAssumption DEF TypeOK
    <2>. HIDE DEF A
    <2>. QED BY <1>1, <2>1, <2>2, <2>3, <2>4 DEF Next
  <1>. QED BY <1>1, DecidedHolds, PTL DEF Spec, RegistersStayExclusive
-----------------------------------------------------------------------------
(* The end of a reconciliation *)

Left == ReconciliationPlan(NamesakePairs)

\* A job that nobody interfered with has as many merges left as there are public profiles, and
\* in a pass that merged nothing yet it still has the whole plan before it.
FixpointInv ==
    \A j \in Jobs : job[j].quiet =>
        /\ job[j].state = "idle" => Left = {}
        /\ job[j].state # "idle" => job[j].left = Cardinality(Public)
        /\ job[j].state = "merging" /\ ~job[j].changed => job[j].plan = Left /\ Left # {}

\* What is planned depends on the rows alone.
LEMMA PlanStays ==
    ASSUME UNCHANGED <<profile, holder, serial, claim, alias, distinct, suggestion>>
    PROVE  Left' = Left /\ Public' = Public
  BY DEF Left, ReconciliationPlan, Matches, Edges, NamesakePairs, Public, NamesOf, Blocked, Registers,
         Known, Rejected, Corroborated, Offices, OnlyChoice, Neighbours, Precedes, BestRank, Oldest,
         Earlier, Match

\* A match of the whole plan is found again when its component is planned.
LEMMA FoundAgain ==
    ASSUME NEW m \in Left PROVE m \in Current(m)
  <1>. DEFINE seeds == {m.removed, m.retained}
              part == NamesakeComponent(NamesakePairs, seeds)
  <1>1. /\ m \in Match /\ m.removed \in Ids /\ m.retained \in Ids /\ m.removed # m.retained
        /\ seeds \in Edges(NamesakePairs) /\ Precedes(m.retained, m.removed)
        /\ OnlyChoice(Edges(NamesakePairs), m.removed, m.retained)
        /\ OnlyChoice(Edges(NamesakePairs), m.retained, m.removed)
    BY PlanIsEligible DEF Left
  <1>2. seeds \in NamesakePairs BY <1>1 DEF Edges
  <1>3. seeds \in part BY <1>2 DEF NamesakeComponent
  <1>4. part \subseteq NamesakePairs BY ComponentIsPart
  <1>5. ASSUME NEW p \in Ids, NEW e \in part, p \in e
        PROVE  Neighbours(Edges(part), p) = Neighbours(Edges(NamesakePairs), p)
    BY <1>5, SameNeighbours
  <1>. HIDE DEF part
  <1>6. m \in Matches(part)
    <2>1. seeds \in Edges(part) BY <1>1, <1>3 DEF Edges
    <2>2. /\ Neighbours(Edges(part), m.removed) = Neighbours(Edges(NamesakePairs), m.removed)
          /\ Neighbours(Edges(part), m.retained) = Neighbours(Edges(NamesakePairs), m.retained)
      BY <1>1, <1>3, <1>5
    <2>3. /\ OnlyChoice(Edges(part), m.removed, m.retained)
          /\ OnlyChoice(Edges(part), m.retained, m.removed)
      BY <1>1, <2>2 DEF OnlyChoice
    <2>. QED BY <1>1, <2>1, <2>3 DEF Matches
  <1>7. ASSUME NEW n \in Matches(part) PROVE n \in Matches(NamesakePairs)
    <2>1. /\ n \in Match /\ {n.removed, n.retained} \in Edges(part)
          /\ OnlyChoice(Edges(part), n.removed, n.retained)
          /\ OnlyChoice(Edges(part), n.retained, n.removed)
          /\ n.removed # n.retained /\ Precedes(n.retained, n.removed)
      BY DEF Matches
    <2>2. {n.removed, n.retained} \in part /\ {n.removed, n.retained} \in Edges(NamesakePairs)
      BY <1>4, <2>1 DEF Edges
    <2>3. n.removed \in Ids /\ n.retained \in Ids BY <2>1 DEF Match
    <2>4. /\ Neighbours(Edges(part), n.removed) = Neighbours(Edges(NamesakePairs), n.removed)
          /\ Neighbours(Edges(part), n.retained) = Neighbours(Edges(NamesakePairs), n.retained)
      BY <1>5, <2>2, <2>3
    <2>5. /\ OnlyChoice(Edges(NamesakePairs), n.removed, n.retained)
          /\ OnlyChoice(Edges(NamesakePairs), n.retained, n.removed)
      BY <2>1, <2>4 DEF OnlyChoice
    <2>. QED BY <2>1, <2>2, <2>5 DEF Matches
  <1>8. m \in ReconciliationPlan(part)
    BY <1>6, <1>7 DEF ReconciliationPlan, Left
  <1>. QED BY <1>8 DEF Current, part

\* A merge takes one profile from the public ones, and leaves another.
LEMMA OneFewer ==
    ASSUME TypeOK, NEW x, NEW m \in Current(x), Merge(m)
    PROVE  Cardinality(Public') = Cardinality(Public) - 1 /\ Cardinality(Public) > 1
  <1>1. /\ m.removed \in Public /\ m.retained \in Public /\ m.removed # m.retained
        /\ m.removed \in Ids
    BY CurrentIsEligible DEF Public
  <1>2. profile' = [profile EXCEPT ![m.removed] = "merged"] BY DEF Merge
  <1>3. Public' = Public \ {m.removed} BY <1>1, <1>2 DEF Public, TypeOK
  <1>4. IsFiniteSet(Public) BY IdentityAssumption, FS_Subset DEF IdentityAssumption, Public
  <1>5. Cardinality(Public') = Cardinality(Public) - 1 /\ IsFiniteSet(Public')
    BY <1>1, <1>3, <1>4, FS_RemoveElement
  <1>6. Cardinality(Public') # 0 BY <1>1, <1>3, <1>5, FS_EmptySet
  <1>. QED BY <1>4, <1>5, <1>6, FS_CardinalityType

\* Whatever is not the job's own interferes with it.
LEMMA NobodyQuiet ==
    ASSUME TypeOK, Disturb PROVE \A j \in Jobs : ~job'[j].quiet
  <1>1. \A j \in Jobs : job[j] \in JobType BY DEF TypeOK
  <1>2. \A j \in Jobs : job'[j] = [job[j] EXCEPT !.quiet = FALSE] BY DEF Disturb, Interrupted
  <1>. QED BY <1>1, <1>2 DEF JobType

LEMMA FixpointStep == TypeOK /\ FixpointInv /\ [Next]_vars => FixpointInv'
  <1>. SUFFICES ASSUME TypeOK, FixpointInv, [Next]_vars PROVE FixpointInv' OBVIOUS
  <1>0. \A j \in Jobs : job[j] \in JobType BY DEF TypeOK
  <1>1. ASSUME NoMerge, NEW j \in Jobs, \A k \in Jobs : k # j => job'[k] = job[k],
               job'[j].quiet => /\ job'[j].state = "idle" => Left = {}
                                /\ job'[j].state # "idle" => job'[j].left = Cardinality(Public)
                                /\ job'[j].state = "merging" /\ ~job'[j].changed
                                     => job'[j].plan = Left /\ Left # {}
        PROVE  FixpointInv'
    <2>1. Left' = Left /\ Public' = Public BY <1>1, PlanStays DEF NoMerge, reviews
    <2>. QED BY <1>1, <2>1 DEF FixpointInv
  <1>2. ASSUME UNCHANGED vars PROVE FixpointInv'
    <2>1. Left' = Left /\ Public' = Public BY <1>2, PlanStays DEF vars, reviews
    <2>. QED BY <1>2, <2>1 DEF vars, FixpointInv
  <1>3. ASSUME NEW i, Import(i) \/ Review(i) \/ Edit(i) PROVE FixpointInv'
    <2>1. Disturb
      BY <1>3 DEF Import, Review, Edit, Resolve, Create, Attach, Suggest, Accept, Reject, Remap,
                  SetPublic, SetClaim, Decide, Automatic, Decision
    <2>. QED BY <2>1, NobodyQuiet DEF FixpointInv
  <1>4. ASSUME NEW j \in Jobs, Start(j) PROVE FixpointInv'
    <2>1. job'[j] = [state |-> "planning", plan |-> {}, quiet |-> TRUE, changed |-> FALSE,
                     left |-> Cardinality(Public)]
      BY <1>4 DEF Start, TypeOK
    <2>2. \A k \in Jobs : k # j => job'[k] = job[k] BY <1>4 DEF Start, TypeOK
    <2>. QED BY <1>1, <1>4, <2>1, <2>2 DEF Start
  <1>5. ASSUME NEW j \in Jobs, Plan(j) PROVE FixpointInv'
    <2>1. \A k \in Jobs : k # j => job'[k] = job[k] BY <1>5 DEF Plan, TypeOK
    <2>2. job'[j] = IF Left = {} THEN Finished(j)
                    ELSE [job[j] EXCEPT !.state = "merging", !.plan = Left, !.changed = FALSE]
      BY <1>5 DEF Plan, TypeOK, Left
    <2>3. CASE Left = {}
      <3>1. job'[j].state = "idle" BY <2>2, <2>3 DEF Finished, Idle
      <3>. QED BY <1>1, <1>5, <2>1, <2>3, <3>1 DEF Plan
    <2>4. CASE Left # {}
      <3>1. /\ job'[j].state = "merging" /\ job'[j].plan = Left /\ job'[j].left = job[j].left
            /\ job'[j].quiet = job[j].quiet
        BY <1>0, <2>2, <2>4 DEF JobType
      <3>2. job[j].quiet => job[j].left = Cardinality(Public) BY <1>5 DEF FixpointInv, Plan
      <3>. QED BY <1>1, <1>5, <2>1, <2>4, <3>1, <3>2 DEF Plan
    <2>. QED BY <2>3, <2>4
  <1>6. ASSUME NEW j \in Jobs, EndPass(j) PROVE FixpointInv'
    <2>1. \A k \in Jobs : k # j => job'[k] = job[k] BY <1>6 DEF EndPass, TypeOK
    <2>2. job'[j] = AfterPass(j) /\ job[j].state = "merging" /\ job[j].plan = {}
      BY <1>6 DEF EndPass, TypeOK
    <2>3. CASE job[j].changed
      <3>1. /\ job'[j].state = "planning" /\ job'[j].left = job[j].left
            /\ job'[j].quiet = job[j].quiet
        BY <1>0, <2>2, <2>3 DEF JobType, AfterPass
      <3>. QED BY <1>1, <1>6, <2>1, <2>2, <3>1 DEF EndPass, FixpointInv
    <2>4. CASE ~job[j].changed
      <3>1. job'[j].quiet = job[j].quiet BY <2>2, <2>4 DEF AfterPass, Finished, Idle
      <3>2. ~job[j].quiet BY <2>2, <2>4 DEF FixpointInv
      <3>. QED BY <1>1, <1>6, <2>1, <3>1, <3>2 DEF EndPass
    <2>. QED BY <2>3, <2>4
  <1>7. ASSUME NEW j \in Jobs, NEW x \in job[j].plan, Recheck(j, x) PROVE FixpointInv'
    <2>1. CASE Current(x) = {} /\ job' = [job EXCEPT ![j].plan = job[j].plan \ {x}] /\ NoMerge
      <3>1. \A k \in Jobs : k # j => job'[k] = job[k] BY <2>1 DEF TypeOK
      <3>2. job'[j] = [job[j] EXCEPT !.plan = job[j].plan \ {x}] BY <2>1 DEF TypeOK
      <3>3. /\ job'[j].state = job[j].state /\ job'[j].left = job[j].left
            /\ job'[j].quiet = job[j].quiet /\ job'[j].changed = job[j].changed
        BY <1>0, <3>2 DEF JobType
      <3>4. job[j].state = "merging" BY <1>7 DEF Recheck
      <3>5. x \notin Left BY <2>1, FoundAgain
      <3>6. job[j].quiet => job[j].changed BY <1>7, <3>4, <3>5 DEF FixpointInv
      <3>7. job[j].quiet => job[j].left = Cardinality(Public) BY <3>4 DEF FixpointInv
      <3>. QED BY <1>1, <2>1, <3>1, <3>3, <3>4, <3>6, <3>7
    <2>2. ASSUME NEW m \in Current(x), Merge(m),
                 job' = [k \in Jobs |->
                           IF k # j THEN Interrupted(job[k])
                           ELSE IF Spent(job[j].left) THEN Finished(j)
                           ELSE [job[j] EXCEPT !.plan = job[j].plan \ {x}, !.changed = TRUE,
                                               !.left = @ - 1]]
          PROVE  FixpointInv'
      <3>1. Cardinality(Public') = Cardinality(Public) - 1 /\ Cardinality(Public) > 1
        BY <2>2, OneFewer
      <3>2. \A k \in Jobs : k # j => ~job'[k].quiet BY <1>0, <2>2 DEF Interrupted, JobType
      <3>3. job[j].state = "merging" BY <1>7 DEF Recheck
      <3>4. job[j].quiet => job[j].left = Cardinality(Public) BY <3>3 DEF FixpointInv
      <3>5. CASE Spent(job[j].left)
        <4>1. job'[j].quiet = job[j].quiet BY <2>2, <3>5 DEF Finished, Idle
        <4>. QED BY <3>1, <3>2, <3>4, <3>5, <4>1 DEF FixpointInv, Spent
      <3>6. CASE ~Spent(job[j].left)
        <4>1. job'[j] = [job[j] EXCEPT !.plan = job[j].plan \ {x}, !.changed = TRUE, !.left = @ - 1]
          BY <2>2, <3>6
        <4>2. /\ job'[j].state = "merging" /\ job'[j].changed /\ job'[j].left = job[j].left - 1
              /\ job'[j].quiet = job[j].quiet
          BY <1>0, <3>3, <4>1 DEF JobType
        <4>. QED BY <3>1, <3>2, <3>4, <4>2 DEF FixpointInv
      <3>. QED BY <3>5, <3>6
    <2>. QED BY <1>7, <2>1, <2>2 DEF Recheck
  <1>. QED BY <1>2, <1>3, <1>4, <1>5, <1>6, <1>7 DEF Next, Reconcile

\* A reconciliation that nobody interferes with ends when nothing is left to merge: the bound on
\* its merges is never what stops it, and no proposal is lost between the scan and its recheck.
THEOREM Fixpoint == Spec => []FixpointReached
  <1>1. Init => FixpointInv BY DEF Init, FixpointInv, Idle
  <1>2. TypeOK /\ FixpointInv /\ [Next]_vars => FixpointInv' BY FixpointStep
  <1>3. FixpointInv => FixpointReached BY DEF FixpointInv, FixpointReached, Left
  <1>. QED BY <1>1, <1>2, <1>3, TypeCorrect, PTL DEF Spec
=============================================================================
