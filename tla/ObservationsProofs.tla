------------------------- MODULE ObservationsProofs -------------------------
(***************************************************************************)
(* Theorems about Observations, for any passages, scopes, profiles and     *)
(* identifiers.                                                            *)
(***************************************************************************)
EXTENDS Observations, TLAPS

-----------------------------------------------------------------------------
(* Stored passages *)

\* A claim has a subject and its passage a row; only claims have evidence.
Sound(x) == /\ x \in RowType
            /\ x.claim # "none" => x.exists /\ x.on # NoEntity
            /\ x.evidence => x.claim # "none"
            /\ x.current => x.exists

\* What invalidating, retiring and listing a stored passage leave.
LEMMA RowOperations ==
    ASSUME NEW x, Sound(x)
    PROVE  /\ Sound(Invalidated(x)) /\ Sound(Retired(x)) /\ Sound(Present(x))
           /\ Invalidated(x).claim = IF x.claim \in Published THEN "draft" ELSE x.claim
           /\ Invalidated(x).on = x.on /\ Invalidated(x).current = x.current
           /\ Retired(x).claim = Invalidated(x).claim
           /\ Retired(x).on = x.on /\ ~Retired(x).current
           /\ Present(x).claim \in {x.claim, Invalidated(x).claim}
           /\ Present(x).on = x.on /\ Present(x).current /\ Present(x).exists
  <1>0. x \in RowType BY DEF Sound
  <1>1. Invalidated(x) \in RowType /\ /\ Invalidated(x).on = x.on
                                      /\ Invalidated(x).current = x.current
                                      /\ Invalidated(x).exists = x.exists
                                      /\ Invalidated(x).evidence = x.evidence
                                      /\ Invalidated(x).claim =
                                           IF x.claim \in Published THEN "draft" ELSE x.claim
    BY <1>0 DEF Invalidated, RowType, Published
  <1>2. /\ Retired(x) \in RowType /\ Retired(x).on = x.on /\ ~Retired(x).current
        /\ Retired(x).exists = x.exists /\ ~Retired(x).evidence
        /\ Retired(x).claim = Invalidated(x).claim
    BY <1>1 DEF Retired, RowType
  <1>3. Sound(Invalidated(x)) /\ Sound(Retired(x)) BY <1>1, <1>2 DEF Sound, Published
  <1>4. CASE ~x.exists
    <2>1. Present(x) = [x EXCEPT !.exists = TRUE, !.current = TRUE] BY <1>4 DEF Present
    <2>. QED BY <1>0, <1>1, <1>2, <1>3, <1>4, <2>1 DEF Sound, RowType
  <1>5. CASE x.exists /\ ~x.current
    <2>1. Present(x) = [Retired(x) EXCEPT !.current = TRUE] BY <1>5 DEF Present
    <2>. QED BY <1>1, <1>2, <1>3, <1>5, <2>1 DEF Sound, RowType
  <1>6. CASE x.exists /\ x.current
    <2>1. Present(x) = x BY <1>6 DEF Present
    <2>. QED BY <1>1, <1>2, <1>3, <1>6, <2>1 DEF Sound
  <1>. QED BY <1>4, <1>5, <1>6

\* The claim of a listed passage: its subject, and who approved it.
LEMMA ClaimOperations ==
    ASSUME NEW x, Sound(x), x.exists, x.current, NEW p \in Passages,
           x.claim = "none" <=> row[p].claim = "none", row[p].claim = "draft" => x.claim = "draft",
           x.claim = "none" => holder'[Info[p].subject] \in Ents, NoEntity \notin Ents
    PROVE  /\ Sound(Claimed(x, p)) /\ Claimed(x, p).current /\ Claimed(x, p).claim # "none"
           /\ x.claim = "none" => Claimed(x, p).on = holder'[Info[p].subject]
           /\ x.claim # "none" => Claimed(x, p).on = x.on
           /\ x.claim \in {"rejected"} \cup Published => Claimed(x, p).claim = x.claim
           /\ Claimed(x, p).claim \in {x.claim, "draft", "auto"}
  <1>0. x \in RowType BY DEF Sound
  <1>1. ASSUME NEW y, y \in RowType, y.claim = "draft"
        PROVE  LET z == AutoPublished(y, Info[p].object)
               IN  /\ z \in RowType /\ z.claim \in {"draft", "auto"} /\ z.on = y.on
                   /\ z.current = y.current /\ z.exists = y.exists
    BY <1>1 DEF AutoPublished, RowType, Published
  <1>2. CASE x.claim = "none"
    <2> DEFINE y == [x EXCEPT !.claim = "draft", !.evidence = TRUE,
                              !.on = holder'[Info[p].subject]]
    <2>1. /\ y \in RowType /\ y.claim = "draft" /\ y.on = holder'[Info[p].subject]
          /\ y.current /\ y.exists
      BY <1>0, <1>2 DEF RowType
    <2>2. Claimed(x, p) = AutoPublished(y, Info[p].object) BY <1>2 DEF Claimed
    <2> HIDE DEF y
    <2>3. LET z == Claimed(x, p)
          IN  /\ z \in RowType /\ z.claim \in {"draft", "auto"} /\ z.on = y.on
              /\ z.current = y.current /\ z.exists = y.exists
      BY <1>1, <2>1, <2>2
    <2>. QED BY <1>2, <2>1, <2>3 DEF Sound, Published
  <1>3. CASE row[p].claim = "draft"
    <2> DEFINE y == [x EXCEPT !.evidence = TRUE]
    <2>1. y \in RowType /\ y.claim = "draft" /\ y.on = x.on /\ y.current /\ y.exists
      BY <1>0, <1>3 DEF RowType
    <2>2. Claimed(x, p) = AutoPublished(y, Info[p].object) BY <1>3 DEF Claimed
    <2> HIDE DEF y
    <2>3. LET z == Claimed(x, p)
          IN  /\ z \in RowType /\ z.claim \in {"draft", "auto"} /\ z.on = y.on
              /\ z.current = y.current /\ z.exists = y.exists
      BY <1>1, <2>1, <2>2
    <2>. QED BY <1>3, <2>1, <2>3 DEF Sound, Published
  <1>4. CASE row[p].claim \notin {"none", "draft"}
    <2>1. Claimed(x, p) = x BY <1>4 DEF Claimed
    <2>. QED BY <1>4, <2>1 DEF Published
  <1>. QED BY <1>2, <1>3, <1>4

\* The snapshot a collector holds lists one revision per entry, in the scopes it covers,
\* and knows the profile of each official subject.
FetchedInv ==
    fetched # None =>
        /\ \A p \in fetched.lists : /\ Info[p].scope \in fetched.covers
                                    /\ SameEntry(p) \cap fetched.lists = {p}
        /\ \A i \in Official(fetched.lists) : fetched.holder[i] # NoEntity

LEMMA Soundness == TypeOK => \A p \in Passages : Sound(row[p])
  BY DEF TypeOK, Sound

\* What an applied snapshot makes of a stored passage.
Settling(p) ==
    /\ p \in Settled(fetched)
    /\ row'[p] = Claimed([Present(row[p]) EXCEPT !.resolved = TRUE], p)
Listing(p) ==
    /\ p \in fetched.lists \ Settled(fetched)
    /\ row'[p] = [Present(row[p]) EXCEPT !.resolved = @ \/ ~Info[p].named]
Ceasing(p)  == Ceases(fetched, p) /\ p \notin fetched.lists /\ row'[p] = Retired(row[p])
Standing(p) == ~Ceases(fetched, p) /\ p \notin fetched.lists /\ row'[p] = row[p]

LEMMA Outcomes ==
    ASSUME Apply, NEW p \in Passages
    PROVE  Settling(p) \/ Listing(p) \/ Ceasing(p) \/ Standing(p)
  BY DEF Apply, Settling, Listing, Ceasing, Standing, Settled, Ceases

\* The row of a passage that the snapshot lists.
LEMMA ListedRow ==
    ASSUME TypeOK, FetchedInv, Apply, NEW p \in Passages, Settling(p) \/ Listing(p)
    PROVE  /\ Sound(row'[p]) /\ row'[p].current
           /\ row[p].claim # "none" => row'[p].on = row[p].on
           /\ row[p].claim = "none" /\ row'[p].claim # "none" =>
                 /\ p \in Creates(fetched) /\ row'[p].on = holder'[Info[p].subject]
           /\ row'[p].claim = "auto" => row[p].claim = "auto" \/ p \in Settled(fetched)
  <1> DEFINE x == Present(row[p])
  <1>0. /\ Sound(x) /\ x.exists /\ x.current /\ x.on = row[p].on
        /\ x.claim \in {row[p].claim, Invalidated(row[p]).claim}
        /\ Invalidated(row[p]).claim = IF row[p].claim \in Published THEN "draft"
                                       ELSE row[p].claim
    BY Soundness, RowOperations
  <1>1. /\ x.claim = "none" <=> row[p].claim = "none"
        /\ row[p].claim = "draft" => x.claim = "draft"
    BY <1>0 DEF Published
  <1>2. x.claim = "auto" => row[p].claim = "auto" BY <1>0 DEF Published
  <1> HIDE DEF x
  <1>3. CASE Listing(p)
    <2>1. row'[p] = [x EXCEPT !.resolved = @ \/ ~Info[p].named] BY <1>3 DEF Listing, x
    <2>2. x \in RowType /\ Info[p].named \in BOOLEAN
      BY <1>0, ObservationsAssumption DEF Sound, ObservationsAssumption, InfoType
    <2>3. /\ row'[p] \in RowType /\ row'[p].claim = x.claim /\ row'[p].on = x.on
          /\ row'[p].current = x.current /\ row'[p].exists = x.exists
          /\ row'[p].evidence = x.evidence
      <3>1. \A b \in BOOLEAN : [x EXCEPT !.resolved = b] \in RowType BY <2>2 DEF RowType
      <3>2. (x.resolved \/ ~Info[p].named) \in BOOLEAN BY <2>2 DEF RowType
      <3>3. row'[p] = [x EXCEPT !.resolved = (x.resolved \/ ~Info[p].named)] BY <2>1, <2>2 DEF RowType
      <3>. QED BY <2>2, <3>1, <3>2, <3>3 DEF RowType
    <2>. QED BY <1>0, <1>1, <1>2, <2>3 DEF Sound
  <1>4. CASE Settling(p)
    <2> DEFINE y == [x EXCEPT !.resolved = TRUE]
    <2>1. row'[p] = Claimed(y, p) BY <1>4 DEF Settling, x
    <2>2. /\ Sound(y) /\ y.exists /\ y.current /\ y.claim = x.claim /\ y.on = x.on
      BY <1>0 DEF Sound, RowType
    <2> HIDE DEF y
    <2>3. p \in fetched.lists /\ Info[p].subject \in Identifiers /\ Info[p].named \in BOOLEAN
      BY <1>4, ObservationsAssumption
      DEF Settling, Settled, ObservationsAssumption, InfoType
    <2>4. holder'[Info[p].subject] \in Ents
      <3>1. PICK f \in [Identifiers -> People] :
              holder' = [i \in Identifiers |-> IF i \in Resolving(fetched) /\ holder[i] = NoEntity
                                       THEN f[i] ELSE holder[i]]
        BY DEF Apply, Resolves
      <3>2. holder \in [Identifiers -> Ents \cup {NoEntity}] BY DEF TypeOK
      <3>3. CASE Info[p].named
        <4>1. Info[p].subject \in Resolving(fetched) BY <1>4, <3>3 DEF Resolving, Settling
        <4>. QED BY <2>3, <3>1, <3>2, <4>1 DEF Ents
      <3>4. CASE ~Info[p].named
        <4>1. Info[p].subject \in Official(fetched.lists) BY <2>3, <3>4 DEF Official
        <4>2. holder[Info[p].subject] # NoEntity
          BY <4>1 DEF Apply, Fresh, FetchedInv
        <4>. QED BY <2>3, <3>1, <3>2, <4>2
      <3>. QED BY <2>3, <3>3, <3>4
    <2>5. NoEntity \notin Ents BY ObservationsAssumption DEF ObservationsAssumption
    <2>6. /\ Sound(Claimed(y, p)) /\ Claimed(y, p).current
          /\ y.claim = "none" => Claimed(y, p).on = holder'[Info[p].subject]
          /\ y.claim # "none" => Claimed(y, p).on = y.on
      BY <1>1, <2>2, <2>4, <2>5, ClaimOperations
    <2>7. row[p].claim = "none" => p \in Creates(fetched) BY <1>4 DEF Settling, Creates
    <2>8. p \in Settled(fetched) BY <1>4 DEF Settling
    <2>. QED BY <1>0, <1>1, <2>1, <2>2, <2>6, <2>7, <2>8
  <1>. QED BY <1>3, <1>4

-----------------------------------------------------------------------------
(* Types *)

LEMMA ApplyTypes == ASSUME TypeOK, FetchedInv, Apply PROVE TypeOK'
  <1>1. ASSUME NEW p \in Passages PROVE Sound(row'[p])
    <2>1. Sound(row[p]) BY Soundness
    <2>2. CASE Ceasing(p) BY <2>1, <2>2, RowOperations DEF Ceasing
    <2>3. CASE Standing(p) BY <2>1, <2>3 DEF Standing
    <2>. QED BY <2>2, <2>3, Outcomes, ListedRow
  <1>2. row' \in [Passages -> RowType] BY <1>1 DEF Apply, Sound
  <1>3. holder' \in [Identifiers -> Ents \cup {NoEntity}] BY DEF Apply, Resolves, TypeOK, Ents
  <1>4. fetched \in Snapshot BY DEF Apply, TypeOK
  <1>5. Info \in [Passages -> InfoType]
    BY ObservationsAssumption DEF ObservationsAssumption
  <1>6. fetched.lists \subseteq Passages /\ fetched.day \in Days BY <1>4 DEF Snapshot
  <1>7. used' \subseteq Identifiers
    BY <1>5, <1>6 DEF Apply, Freeze, Official, TypeOK, InfoType
  <1>8. source' \subseteq Srcs
    <2>1. Cites(fetched) \subseteq Passages BY <1>6 DEF Cites, Settled
    <2>. QED BY <1>5, <2>1 DEF Apply, TypeOK, InfoType
  <1>9. synced' \in [Scopes -> Days \cup {0}] /\ listed' \in [Scopes -> SUBSET Passages]
    BY <1>6 DEF Apply, TypeOK
  <1>10. fetched' = None /\ UNCHANGED <<shown, pulled, edited>> BY DEF Apply
  <1>. QED BY <1>1, <1>2, <1>3, <1>7, <1>8, <1>9, <1>10 DEF TypeOK, Sound

\* A collected snapshot lists passages, and covers scopes.
LEMMA Imports ==
    ASSUME Import
    PROVE  \/ \E lists \in SUBSET Passages, covers \in SUBSET Scopes, whole \in BOOLEAN,
                day \in Days : Collect(lists, covers, whole, day)
           \/ Apply \/ Abandon
  <1>1. ASSUME NEW covers \in (SUBSET Prefixed) \cup {{sc} : sc \in Scopes}
        PROVE  covers \in SUBSET Scopes
    <2>1. CASE covers \in SUBSET Prefixed
      BY <2>1, ObservationsAssumption DEF ObservationsAssumption
    <2>2. CASE covers \in {{sc} : sc \in Scopes} BY <2>2
    <2>. QED BY <2>1, <2>2
  <1>. QED BY <1>1 DEF Import

LEMMA TypeStep == TypeOK /\ FetchedInv /\ Next => TypeOK'
  <1> SUFFICES ASSUME TypeOK, FetchedInv, Next PROVE TypeOK'
    OBVIOUS
  <1>0. \A p \in Passages : Sound(row[p]) BY Soundness
  <1>a. ASSUME row' \in [Passages -> RowType], \A p \in Passages : Sound(row'[p]),
               holder' \in [Identifiers -> Ents \cup {NoEntity}], shown' \subseteq Ents,
               source' \subseteq Srcs, pulled' \subseteq Passages, edited' \subseteq Passages,
               UNCHANGED <<used, synced, fetched, listed>>
        PROVE  TypeOK'
    BY <1>a DEF TypeOK, Sound
  <1>1. ASSUME NEW lists \in SUBSET Passages, NEW covers \in SUBSET Scopes,
               NEW whole \in BOOLEAN, NEW day \in Days, Collect(lists, covers, whole, day)
        PROVE  TypeOK'
    <2>1. fetched' \in Snapshot BY <1>1 DEF Collect, Snapshot, TypeOK
    <2>. QED BY <1>1, <2>1 DEF Collect, TypeOK
  <1>2. CASE Abandon BY <1>2 DEF Abandon, TypeOK
  <1>3. ASSUME NEW p \in Passages, NEW x, Sound(x), row' = [row EXCEPT ![p] = x],
               holder' \in [Identifiers -> Ents \cup {NoEntity}], shown' \subseteq Ents,
               source' \subseteq Srcs, pulled' \subseteq Passages, edited' \subseteq Passages,
               UNCHANGED <<used, synced, fetched, listed>>
        PROVE  TypeOK'
    <2>1. row' \in [Passages -> RowType] /\ \A q \in Passages : Sound(row'[q])
      BY <1>0, <1>3 DEF TypeOK, Sound
    <2>. QED BY <1>3, <1>a, <2>1
  <1>4. ASSUME NEW p \in Passages, Publish(p) PROVE TypeOK'
    <2>1. row' = [row EXCEPT ![p] = [row[p] EXCEPT !.claim = "reviewed"]]
      BY <1>4 DEF Publish
    <2>2. Sound([row[p] EXCEPT !.claim = "reviewed"])
      BY <1>0, <1>4 DEF Publish, Stored, Sound, RowType, Published
    <2>. QED BY <1>3, <1>4, <2>1, <2>2 DEF Publish, TypeOK
  <1>5. ASSUME NEW p \in Passages, Withdraw(p) PROVE TypeOK'
    <2>1. row' = [row EXCEPT ![p] = [row[p] EXCEPT !.claim = "rejected"]]
      BY <1>5 DEF Withdraw
    <2>2. Sound([row[p] EXCEPT !.claim = "rejected"])
      BY <1>0, <1>5 DEF Withdraw, Stored, Sound, RowType
    <2>. QED BY <1>3, <1>5, <2>1, <2>2 DEF Withdraw, TypeOK
  <1>6. ASSUME NEW p \in Passages, NEW e \in People, Convert(p, e) PROVE TypeOK'
    <2> DEFINE x == [row[p] EXCEPT !.claim = "draft", !.evidence = FALSE, !.on = e]
    <2>1. row' = [row EXCEPT ![p] = x] BY <1>6 DEF Convert
    <2>2. row[p] \in RowType /\ row[p].exists BY <1>0, <1>6 DEF Convert, Sound
    <2>3. e \in Ents /\ e # NoEntity
      BY ObservationsAssumption DEF ObservationsAssumption, Ents
    <2>4. Sound(x) BY <2>2, <2>3 DEF Sound, RowType
    <2>. QED BY <1>3, <1>6, <2>1, <2>4 DEF Convert, TypeOK
  <1>7. ASSUME NEW p \in Passages, NEW e \in People, EditClaim(p, e) PROVE TypeOK'
    <2> DEFINE x == [Invalidated(row[p]) EXCEPT !.on = e]
    <2>1. row' = [row EXCEPT ![p] = x] BY <1>7 DEF EditClaim
    <2>2. e \in Ents /\ e # NoEntity
      BY ObservationsAssumption DEF ObservationsAssumption, Ents
    <2>3. Sound(Invalidated(row[p])) BY <1>0, RowOperations
    <2>4. Sound(x) BY <2>2, <2>3 DEF Sound, RowType
    <2>. QED BY <1>3, <1>7, <2>1, <2>4 DEF EditClaim, TypeOK
  <1>8. ASSUME NEW p \in Passages, SaveEvidence(p) PROVE TypeOK'
    <2> DEFINE y == Invalidated(row[p])
               x == [y EXCEPT !.evidence = ~y.evidence]
    <2>1. row' = [row EXCEPT ![p] = x] BY <1>8 DEF SaveEvidence
    <2>2. Sound(y) /\ y.claim = IF row[p].claim \in Published THEN "draft" ELSE row[p].claim
      BY <1>0, RowOperations
    <2>3. y.claim # "none" BY <1>8, <2>2 DEF SaveEvidence, Stored
    <2> HIDE DEF y
    <2>4. Sound(x) BY <2>2, <2>3 DEF Sound, RowType
    <2>. QED BY <1>3, <1>8, <2>1, <2>4 DEF SaveEvidence, TypeOK
  <1>9. ASSUME NEW s \in Srcs, SaveSource(s) PROVE TypeOK'
    <2>1. \A p \in Passages : Sound(row'[p])
      BY <1>0, <1>9, RowOperations DEF SaveSource
    <2>2. row' \in [Passages -> RowType] BY <1>9, <2>1 DEF SaveSource, Sound
    <2>. QED BY <1>9, <1>a, <2>1, <2>2 DEF SaveSource, TypeOK
  <1>10. ASSUME NEW e \in Ents, SaveEntity(e) PROVE TypeOK'
    <2>1. \A p \in Passages : Sound(row'[p])
      BY <1>0, <1>10, RowOperations DEF SaveEntity
    <2>2. row' \in [Passages -> RowType] BY <1>10, <2>1 DEF SaveEntity, Sound
    <2>. QED BY <1>10, <1>a, <2>1, <2>2 DEF SaveEntity, TypeOK
  <1>11. ASSUME NEW i \in Identifiers, NEW e \in Ents, MoveIdentity(i, e) PROVE TypeOK'
    BY <1>11 DEF MoveIdentity, TypeOK
  <1>12. ASSUME NEW a \in People, NEW b \in People, MergeIdentity(a, b) PROVE TypeOK'
    <2>1. b \in Ents /\ b # NoEntity
      BY ObservationsAssumption DEF ObservationsAssumption, Ents
    <2>2. ASSUME NEW p \in Passages PROVE Sound(row'[p])
      <3>1. row'[p] = [row[p] EXCEPT !.on = IF row[p].on = a THEN b ELSE row[p].on]
        BY <1>12 DEF MergeIdentity
      <3>. QED BY <1>0, <2>1, <3>1 DEF Sound, RowType
    <2>3. row' \in [Passages -> RowType] BY <1>12, <2>2 DEF MergeIdentity, Sound
    <2>. QED BY <1>12, <1>a, <2>1, <2>2, <2>3 DEF MergeIdentity, TypeOK
  <1>. QED BY Imports, ApplyTypes, <1>1, <1>2, <1>4, <1>5, <1>6, <1>7, <1>8, <1>9, <1>10, <1>11,
              <1>12
           DEF Next, Review, Edit, Identify

LEMMA FetchedStep == FetchedInv /\ Next => FetchedInv'
  <1> SUFFICES ASSUME FetchedInv, Next PROVE FetchedInv'
    OBVIOUS
  <1>1. ASSUME NEW lists \in SUBSET Passages, NEW covers \in SUBSET Scopes,
               NEW whole \in BOOLEAN, NEW day \in Days, Collect(lists, covers, whole, day)
        PROVE  FetchedInv'
    <2>1. \A i \in Official(lists) : i \in Identifiers
      BY ObservationsAssumption DEF Official, ObservationsAssumption, InfoType
    <2>2. /\ fetched'.lists = lists /\ fetched'.covers = covers
          /\ fetched'.holder = [i \in Identifiers |-> IF i \in Official(lists) THEN holder[i]
                                             ELSE NoEntity]
      BY <1>1 DEF Collect
    <2>. QED BY <1>1, <2>1, <2>2 DEF Collect, FetchedInv, SameEntry, InScope, Official
  <1>2. fetched' = None => FetchedInv' BY DEF FetchedInv
  <1>3. fetched' = fetched => FetchedInv' BY DEF FetchedInv
  <1>. QED BY Imports, <1>1, <1>2, <1>3
           DEF Next, Review, Edit, Identify, Apply, Abandon, Publish, Withdraw, Convert,
               EditClaim, SaveEvidence, SaveSource, SaveEntity, MoveIdentity, MergeIdentity

LEMMA Types == Spec => [](TypeOK /\ FetchedInv)
  <1>1. Init => TypeOK /\ FetchedInv
    BY DEF Init, TypeOK, FetchedInv, RowType, Published
  <1>2. TypeOK /\ FetchedInv /\ [Next]_vars => (TypeOK /\ FetchedInv)'
    <2>1. CASE Next BY <2>1, TypeStep, FetchedStep
    <2>2. CASE UNCHANGED vars
      BY <2>2 DEF vars, TypeOK, FetchedInv
    <2>. QED BY <2>1, <2>2
  <1>. QED BY <1>1, <1>2, PTL DEF Spec

\* Every reachable state is well typed: no claim lacks a subject and no passage without a
\* claim has evidence.
THEOREM TypeCorrect == Spec => []TypeOK
  <1>. QED BY Types, PTL

-----------------------------------------------------------------------------
(* Listed passages, subjects and withdrawals *)

AutoInv == \A p \in Passages : row[p].claim = "auto" => row[p].current /\ p \in listed[Info[p].scope]

\* The identifier an import's claim rests on is frozen.
SubjectInv ==
    \A p \in Passages : Stored(p) /\ p \notin edited =>
        Info[p].subject \in used /\ row[p].on = holder[Info[p].subject]

\* The inductive invariant.
IInv == AutoInv /\ OneCurrentRevision /\ SubjectInv

LEMMA ApplyStep == ASSUME TypeOK, FetchedInv, IInv, Apply PROVE IInv'
  <1>0. AutoInv /\ OneCurrentRevision /\ SubjectInv BY DEF IInv
  <1>1. fetched \in Snapshot /\ fetched # None BY DEF Apply, TypeOK
  <1>2. \A p \in Passages : Info[p] \in InfoType
    BY ObservationsAssumption DEF ObservationsAssumption
  <1>3. \A p \in fetched.lists : /\ p \in Passages /\ Info[p].scope \in Covered(fetched)
                                 /\ SameEntry(p) \cap fetched.lists = {p}
    BY <1>1 DEF FetchedInv, Covered, Snapshot
  <1>4. AutoInv'
    <2> SUFFICES ASSUME NEW p \in Passages, row'[p].claim = "auto"
                 PROVE  row'[p].current /\ p \in listed'[Info[p].scope]
      BY DEF AutoInv
    <2>1. listed'[Info[p].scope] = IF Info[p].scope \in Covered(fetched)
                                   THEN fetched.lists \cap InScope(Info[p].scope)
                                   ELSE listed[Info[p].scope]
      BY <1>2 DEF Apply, InfoType
    <2>2. CASE Settling(p) \/ Listing(p)
      <3>1. row'[p].current BY <2>2, ListedRow
      <3>2. p \in fetched.lists BY <2>2 DEF Settling, Listing, Settled
      <3>. QED BY <1>3, <2>1, <3>1, <3>2 DEF InScope
    <2>3. CASE Ceasing(p)
      <3>1. Retired(row[p]).claim # "auto" BY Soundness, RowOperations DEF Published
      <3>. QED BY <2>3, <3>1 DEF Ceasing
    <2>4. CASE Standing(p)
      <3>1. row'[p] = row[p] /\ row[p].current /\ p \in listed[Info[p].scope]
        BY <1>0, <2>4 DEF AutoInv, Standing
      <3>2. Info[p].scope \notin Covered(fetched) BY <2>4, <3>1 DEF Standing, Ceases
      <3>. QED BY <2>1, <3>1, <3>2
    <2>. QED BY <2>2, <2>3, <2>4, Outcomes
  <1>5. OneCurrentRevision'
    <2>1. \A p \in Passages : row'[p].current =>
             \/ p \in fetched.lists
             \/ row[p].current /\ Info[p].scope \notin Covered(fetched)
      <3> SUFFICES ASSUME NEW p \in Passages, row'[p].current
                   PROVE  \/ p \in fetched.lists
                          \/ row[p].current /\ Info[p].scope \notin Covered(fetched)
        OBVIOUS
      <3>1. CASE Settling(p) \/ Listing(p) BY <3>1 DEF Settling, Listing, Settled
      <3>2. CASE Ceasing(p) BY <3>2, Soundness, RowOperations DEF Ceasing
      <3>3. CASE Standing(p) BY <3>3 DEF Standing, Ceases
      <3>. QED BY <3>1, <3>2, <3>3, Outcomes
    <2>2. ASSUME NEW p \in Passages, NEW q \in SameEntry(p), row'[p].current, row'[q].current
          PROVE  q = p
      <3>1. q \in Passages /\ Info[q].scope = Info[p].scope BY DEF SameEntry, InScope
      <3>2. p \in SameEntry(q) BY <2>2 DEF SameEntry, InScope
      <3>3. CASE p \in fetched.lists
        <4>1. q \in fetched.lists BY <1>3, <2>1, <2>2, <3>1, <3>3
        <4>. QED BY <1>3, <2>2, <3>3, <4>1
      <3>4. CASE p \notin fetched.lists
        <4>1. row[p].current /\ q \notin fetched.lists BY <1>3, <2>1, <2>2, <3>1, <3>4
        <4>2. row[q].current BY <2>1, <2>2, <3>1, <4>1
        <4>. QED BY <1>0, <2>2, <4>1, <4>2 DEF OneCurrentRevision
      <3>. QED BY <3>3, <3>4
    <2>. QED BY <2>2 DEF OneCurrentRevision, SameEntry, InScope
  <1>6. SubjectInv'
    <2> SUFFICES ASSUME NEW p \in Passages, row'[p].claim # "none", p \notin edited
                 PROVE  Info[p].subject \in used' /\ row'[p].on = holder'[Info[p].subject]
      BY DEF SubjectInv, Stored, Apply
    <2>1. Info[p].subject \in Identifiers BY <1>2 DEF InfoType
    <2>2. CASE row[p].claim = "none"
      <3>1. Settling(p) \/ Listing(p)
        <4>1. Retired(row[p]).claim = "none"
          BY <2>2, Soundness, RowOperations DEF Published
        <4>. QED BY <2>2, <4>1, Outcomes DEF Ceasing, Standing
      <3>2. p \in Creates(fetched) /\ row'[p].on = holder'[Info[p].subject]
        BY <2>2, <3>1, ListedRow
      <3>3. Info[p].subject \in used' BY <2>1, <3>2 DEF Apply, Freeze
      <3>. QED BY <3>2, <3>3
    <2>3. CASE row[p].claim # "none"
      <3>1. Info[p].subject \in used /\ row[p].on = holder[Info[p].subject]
        BY <1>0, <2>3 DEF SubjectInv, Stored
      <3>2. row'[p].on = row[p].on
        <4>1. Retired(row[p]).on = row[p].on BY Soundness, RowOperations
        <4>. QED BY <2>3, <4>1, Outcomes, ListedRow DEF Ceasing, Standing
      <3>3. row[p].on # NoEntity BY <2>3, Soundness DEF Sound
      <3>4. holder'[Info[p].subject] = holder[Info[p].subject]
        BY <2>1, <3>1, <3>3 DEF Apply, Resolves
      <3>5. Info[p].subject \in used' BY <3>1 DEF Apply, Freeze
      <3>. QED BY <3>1, <3>2, <3>4, <3>5
    <2>. QED BY <2>2, <2>3
  <1>. QED BY <1>4, <1>5, <1>6 DEF IInv

LEMMA IStep == TypeOK /\ FetchedInv /\ IInv /\ Next => IInv'
  <1> SUFFICES ASSUME TypeOK, FetchedInv, IInv, Next PROVE IInv'
    OBVIOUS
  <1>0. AutoInv /\ OneCurrentRevision /\ SubjectInv BY DEF IInv
  <1>a. \A p \in Passages : Sound(row[p]) BY Soundness
  \* A step that touches one claim, and never approves it in the import's name.
  <1>b. ASSUME NEW p \in Passages, NEW x, row' = [row EXCEPT ![p] = x],
               x.current = row[p].current, x.claim = "auto" => row[p].claim = "auto",
               \/ p \in edited'
               \/ x.on = row[p].on /\ (x.claim # "none" => row[p].claim # "none"),
               edited \subseteq edited', UNCHANGED <<listed, holder, used>>
        PROVE  IInv'
    <2>1. \A q \in Passages : row'[q] = IF q = p THEN x ELSE row[q] BY <1>b DEF TypeOK
    <2>2. AutoInv' BY <1>0, <1>b, <2>1 DEF AutoInv
    <2>3. OneCurrentRevision'
      BY <1>0, <1>b, <2>1 DEF OneCurrentRevision, SameEntry, InScope
    <2>4. SubjectInv' BY <1>0, <1>b, <2>1 DEF SubjectInv, Stored
    <2>. QED BY <2>2, <2>3, <2>4 DEF IInv
  <1>1. ASSUME UNCHANGED <<row, listed, holder, used, edited>> PROVE IInv'
    BY <1>0, <1>1
    DEF IInv, AutoInv, OneCurrentRevision, SubjectInv, Stored, SameEntry, InScope
  <1>2. ASSUME NEW p \in Passages, Publish(p) PROVE IInv'
    <2> DEFINE x == [row[p] EXCEPT !.claim = "reviewed"]
    <2>1. /\ x.current = row[p].current /\ x.claim = "reviewed" /\ x.on = row[p].on
          /\ row[p].claim # "none"
      BY <1>a, <1>2 DEF Sound, RowType, Publish, Stored
    <2>2. row' = [row EXCEPT ![p] = x] /\ UNCHANGED <<listed, holder, used, edited>>
      BY <1>2 DEF Publish
    <2> HIDE DEF x
    <2>. QED BY <1>b, <2>1, <2>2
  <1>3. ASSUME NEW p \in Passages, Withdraw(p) PROVE IInv'
    <2> DEFINE x == [row[p] EXCEPT !.claim = "rejected"]
    <2>1. /\ x.current = row[p].current /\ x.claim = "rejected" /\ x.on = row[p].on
          /\ row[p].claim # "none"
      BY <1>a, <1>3 DEF Sound, RowType, Withdraw, Stored
    <2>2. row' = [row EXCEPT ![p] = x] /\ UNCHANGED <<listed, holder, used, edited>>
      BY <1>3 DEF Withdraw
    <2> HIDE DEF x
    <2>. QED BY <1>b, <2>1, <2>2
  <1>4. ASSUME NEW p \in Passages, NEW e \in People, Convert(p, e) PROVE IInv'
    <2> DEFINE x == [row[p] EXCEPT !.claim = "draft", !.evidence = FALSE, !.on = e]
    <2>1. x.current = row[p].current /\ x.claim = "draft" BY <1>a DEF Sound, RowType
    <2>2. /\ row' = [row EXCEPT ![p] = x] /\ edited' = edited \cup {p}
          /\ UNCHANGED <<listed, holder, used>>
      BY <1>4 DEF Convert
    <2> HIDE DEF x
    <2>. QED BY <1>b, <2>1, <2>2
  <1>5. ASSUME NEW p \in Passages, NEW e \in People, EditClaim(p, e) PROVE IInv'
    <2> DEFINE x == [Invalidated(row[p]) EXCEPT !.on = e]
    <2>0. /\ Invalidated(row[p]) \in RowType
          /\ Invalidated(row[p]).claim = IF row[p].claim \in Published THEN "draft"
                                         ELSE row[p].claim
          /\ Invalidated(row[p]).current = row[p].current
      BY <1>a, RowOperations DEF Sound
    <2>1. x.current = row[p].current /\ x.claim # "auto" BY <2>0 DEF RowType, Published
    <2>2. /\ row' = [row EXCEPT ![p] = x] /\ edited' = edited \cup {p}
          /\ UNCHANGED <<listed, holder, used>>
      BY <1>5 DEF EditClaim
    <2> HIDE DEF x
    <2>. QED BY <1>b, <2>1, <2>2
  <1>6. ASSUME NEW p \in Passages, SaveEvidence(p) PROVE IInv'
    <2> DEFINE y == Invalidated(row[p])
               x == [y EXCEPT !.evidence = ~y.evidence]
    <2>0. /\ y \in RowType /\ y.current = row[p].current /\ y.on = row[p].on
          /\ y.claim = IF row[p].claim \in Published THEN "draft" ELSE row[p].claim
      BY <1>a, RowOperations DEF Sound
    <2>1. /\ x.current = row[p].current /\ x.claim # "auto" /\ x.on = row[p].on
          /\ row[p].claim # "none"
      BY <1>6, <2>0 DEF RowType, Published, SaveEvidence, Stored
    <2>2. row' = [row EXCEPT ![p] = x] /\ UNCHANGED <<listed, holder, used, edited>>
      BY <1>6 DEF SaveEvidence
    <2> HIDE DEF x
    <2>. QED BY <1>b, <2>1, <2>2
  \* A step that invalidates claims.
  <1>c. ASSUME \A p \in Passages : row'[p] \in {row[p], Invalidated(row[p])},
               UNCHANGED <<listed, holder, used, edited>>
        PROVE  IInv'
    <2>1. \A p \in Passages : /\ row'[p].current = row[p].current /\ row'[p].on = row[p].on
                              /\ row'[p].claim = "auto" => row[p].claim = "auto"
                              /\ row'[p].claim = "none" <=> row[p].claim = "none"
      BY <1>a, <1>c, RowOperations DEF Published
    <2>2. AutoInv' BY <1>0, <1>c, <2>1 DEF AutoInv
    <2>3. OneCurrentRevision' BY <1>0, <2>1 DEF OneCurrentRevision, SameEntry, InScope
    <2>4. SubjectInv' BY <1>0, <1>c, <2>1 DEF SubjectInv, Stored
    <2>. QED BY <2>2, <2>3, <2>4 DEF IInv
  <1>7. ASSUME NEW s \in Srcs, SaveSource(s) PROVE IInv'
    BY <1>7, <1>c DEF SaveSource
  <1>8. ASSUME NEW e \in Ents, SaveEntity(e) PROVE IInv'
    BY <1>8, <1>c DEF SaveEntity
  <1>9. ASSUME NEW i \in Identifiers, NEW e \in Ents, MoveIdentity(i, e) PROVE IInv'
    <2>1. AutoInv' /\ OneCurrentRevision'
      BY <1>0, <1>9 DEF MoveIdentity, AutoInv, OneCurrentRevision, SameEntry, InScope
    <2>2. SubjectInv' BY <1>0, <1>9 DEF MoveIdentity, SubjectInv, Stored, TypeOK
    <2>. QED BY <2>1, <2>2 DEF IInv
  <1>10. ASSUME NEW a \in People, NEW b \in People, MergeIdentity(a, b) PROVE IInv'
    <2>1. \A p \in Passages : /\ row'[p].claim = row[p].claim
                              /\ row'[p].current = row[p].current
                              /\ row'[p].on = IF row[p].on = a THEN b ELSE row[p].on
      BY <1>a, <1>10 DEF MergeIdentity, Sound, RowType
    <2>2. AutoInv' BY <1>0, <1>10, <2>1 DEF MergeIdentity, AutoInv
    <2>3. OneCurrentRevision' BY <1>0, <2>1 DEF OneCurrentRevision, SameEntry, InScope
    <2>4. \A p \in Passages : Info[p].subject \in Identifiers
      BY ObservationsAssumption DEF ObservationsAssumption, InfoType
    <2>5. SubjectInv' BY <1>0, <1>10, <2>1, <2>4 DEF MergeIdentity, SubjectInv, Stored
    <2>. QED BY <2>2, <2>3, <2>5 DEF IInv
  <1>11. ASSUME NEW lists \in SUBSET Passages, NEW covers \in SUBSET Scopes,
                NEW whole \in BOOLEAN, NEW day \in Days, Collect(lists, covers, whole, day)
         PROVE  IInv'
    BY <1>1, <1>11 DEF Collect
  <1>12. CASE Abandon BY <1>1, <1>12 DEF Abandon
  <1>. QED BY Imports, ApplyStep, <1>2, <1>3, <1>4, <1>5, <1>6, <1>7, <1>8, <1>9, <1>10, <1>11,
              <1>12
           DEF Next, Review, Edit, Identify

LEMMA Invariance == Spec => [](TypeOK /\ FetchedInv /\ IInv)
  <1>1. Init => IInv
    BY DEF Init, IInv, AutoInv, OneCurrentRevision, SubjectInv, Stored
  <1>2. TypeOK /\ FetchedInv /\ IInv /\ [Next]_vars => IInv'
    <2>1. CASE Next BY <2>1, IStep
    <2>2. CASE UNCHANGED vars
      BY <2>2 DEF vars, IInv, AutoInv, OneCurrentRevision, SubjectInv, Stored, SameEntry, InScope
    <2>. QED BY <2>1, <2>2
  <1>. QED BY <1>1, <1>2, Types, PTL DEF Spec

\* What an import published is listed, in that revision, by its scope's last snapshot.
THEOREM Listed == Spec => []AutoIsListed
  <1>1. IInv => AutoIsListed BY DEF IInv, AutoInv, AutoIsListed
  <1>. QED BY <1>1, Invariance, PTL

\* At most one revision of a source entry is current.
THEOREM OneCurrent == Spec => []OneCurrentRevision
  <1>1. IInv => OneCurrentRevision BY DEF IInv
  <1>. QED BY <1>1, Invariance, PTL

\* An import's claim is about the profile its passage's identifier stands for.
THEOREM Subjects == Spec => []ClaimsFollowIdentity
  <1>1. IInv => ClaimsFollowIdentity BY DEF IInv, SubjectInv, ClaimsFollowIdentity
  <1>. QED BY <1>1, Invariance, PTL

\* A snapshot is never replaced by an older one.
THEOREM Newest == Spec => NewestStands
  <1> DEFINE Later == \A sc \in Scopes : synced'[sc] >= synced[sc]
  <1>1. ASSUME TypeOK, [Next]_vars PROVE Later
    <2>a. Days \subseteq Nat BY ObservationsAssumption DEF ObservationsAssumption
    <2>b. synced \in [Scopes -> Days \cup {0}] BY <1>1 DEF TypeOK
    <2>0. \A sc \in Scopes : synced[sc] \in Nat
      <3>1. Days \cup {0} \subseteq Nat BY <2>a
      <3>2. synced \in [Scopes -> Nat] BY <2>b, <3>1
      <3>. QED BY <3>2
    <2>1. CASE Apply
      <3>1. \A sc \in Covered(fetched) : fetched.day >= synced[sc] BY <2>1 DEF Apply, UpToDate
      <3>2. \A sc \in Scopes : synced'[sc] = IF sc \in Covered(fetched) THEN fetched.day
                                               ELSE synced[sc]
        BY <2>1 DEF Apply
      <3>. QED BY <2>0, <3>1, <3>2
    <2>2. CASE UNCHANGED synced BY <2>0, <2>2
    <2>. QED BY Imports, <1>1, <2>1, <2>2
      DEF Next, vars, Review, Edit, Identify, Collect, Abandon, Publish, Withdraw,
          Convert, EditClaim, SaveEvidence, SaveSource, SaveEntity, MoveIdentity, MergeIdentity
  <1>2. TypeOK /\ [Next]_vars => [Later]_vars BY <1>1
  <1>. QED BY <1>2, TypeCorrect, PTL DEF Spec, NewestStands

-----------------------------------------------------------------------------
(* Withdrawals *)

PulledInv == \A p \in pulled : row[p].claim = "rejected"

LEMMA PulledStep ==
    ASSUME Convertible = {}, TypeOK, FetchedInv, PulledInv, Next PROVE PulledInv'
  <1>0. pulled \subseteq Passages /\ \A p \in Passages : Sound(row[p])
    BY Soundness DEF TypeOK
  <1>1. CASE Apply
    <2> SUFFICES ASSUME NEW p \in pulled PROVE row'[p].claim = "rejected"
      BY <1>1 DEF PulledInv, Apply
    <2>1. p \in Passages /\ row[p].claim = "rejected" BY <1>0 DEF PulledInv
    <2>2. p \notin Settled(fetched)
      <3>1. p \in SameEntry(p) BY <2>1 DEF SameEntry, InScope
      <3>. QED BY <2>1, <3>1 DEF Settled, Barred
    <2>3. /\ Present(row[p]).claim = "rejected" /\ Retired(row[p]).claim = "rejected"
          /\ Present(row[p]) \in RowType
      BY <1>0, <2>1, RowOperations DEF Published, Sound
    <2>4. CASE Listing(p)
      <3>1. \A b : [Present(row[p]) EXCEPT !.resolved = b].claim = Present(row[p]).claim
        BY <2>3 DEF RowType
      <3>. QED BY <2>3, <2>4, <3>1 DEF Listing
    <2>. QED BY <1>1, <2>1, <2>2, <2>3, <2>4, Outcomes DEF Settling, Ceasing, Standing
  <1>2. ASSUME NEW p \in Passages, Publish(p) PROVE PulledInv'
    BY <1>0, <1>2 DEF Publish, PulledInv, TypeOK
  <1>3. ASSUME NEW p \in Passages, Withdraw(p) PROVE PulledInv'
    BY <1>0, <1>3 DEF Withdraw, PulledInv, TypeOK, Sound, RowType
  <1>4. ASSUME NEW p \in Passages, NEW e \in People, EditClaim(p, e) PROVE PulledInv'
    <2>1. \A q \in pulled : Invalidated(row[q]) = row[q]
      BY <1>0 DEF PulledInv, Invalidated, Published, Sound, RowType
    <2>2. \A q \in pulled : [row[q] EXCEPT !.on = e].claim = row[q].claim
      BY <1>0 DEF Sound, RowType
    <2>. QED BY <1>0, <1>4, <2>1, <2>2 DEF EditClaim, PulledInv, TypeOK
  <1>5. ASSUME NEW p \in Passages, SaveEvidence(p) PROVE PulledInv'
    <2>1. \A q \in pulled : Invalidated(row[q]) = row[q]
      BY <1>0 DEF PulledInv, Invalidated, Published, Sound, RowType
    <2>2. \A q \in pulled : [row[q] EXCEPT !.evidence = ~row[q].evidence].claim = row[q].claim
      BY <1>0 DEF Sound, RowType
    <2>. QED BY <1>0, <1>5, <2>1, <2>2 DEF SaveEvidence, PulledInv, TypeOK
  <1>6. ASSUME \A q \in Passages : row'[q] \in {row[q], Invalidated(row[q])}, pulled' = pulled
        PROVE  PulledInv'
    <2>1. \A q \in pulled : Invalidated(row[q]).claim = "rejected"
      BY <1>0, RowOperations DEF PulledInv, Published
    <2>. QED BY <1>0, <1>6, <2>1 DEF PulledInv
  <1>7. ASSUME NEW s \in Srcs, SaveSource(s) PROVE PulledInv' BY <1>6, <1>7 DEF SaveSource
  <1>8. ASSUME NEW e \in Ents, SaveEntity(e) PROVE PulledInv' BY <1>6, <1>8 DEF SaveEntity
  <1>9. ASSUME NEW a \in People, NEW b \in People, MergeIdentity(a, b) PROVE PulledInv'
    BY <1>0, <1>9 DEF MergeIdentity, PulledInv, Sound, RowType
  <1>10. ASSUME UNCHANGED <<row, pulled>> PROVE PulledInv' BY <1>10 DEF PulledInv
  <1>11. ~\E p \in Passages, e \in People : Convert(p, e) BY DEF Convert
  <1>. QED BY Imports, <1>1, <1>2, <1>3, <1>4, <1>5, <1>7, <1>8, <1>9, <1>10, <1>11
           DEF Next, Review, Edit, Identify, Collect, Abandon, MoveIdentity

\* Where no withdrawn passage is converted by hand, no import publishes what a reviewer
\* withdrew, in any revision, or a biography entry withdrawn in another legislature.
THEOREM Withdrawals == Convertible = {} /\ Spec => WithdrawalsHold
  <1> DEFINE Held ==
        \A p \in Passages :
          row'[p].claim = "auto" /\ row[p].claim # "auto" => \A q \in pulled : ~Kin(p, q)
  <1>0. SUFFICES ASSUME Convertible = {} PROVE Spec => WithdrawalsHold
    OBVIOUS
  <1>1. Init => PulledInv BY DEF Init, PulledInv
  <1>2. TypeOK /\ FetchedInv /\ PulledInv /\ [Next]_vars => PulledInv'
    BY <1>0, PulledStep DEF vars, PulledInv
  <1>3. ASSUME TypeOK, FetchedInv, PulledInv, [Next]_vars PROVE Held
    <2>0. \A p \in Passages : Sound(row[p]) BY <1>3, Soundness
    <2> SUFFICES ASSUME NEW p \in Passages, NEW q \in pulled, Kin(p, q),
                        row'[p].claim = "auto", row[p].claim # "auto"
                 PROVE  FALSE
      OBVIOUS
    <2>a. q \in Passages BY <1>3 DEF TypeOK
    <2>1. CASE Apply
      <3>1. row[q].claim = "rejected" BY <1>3 DEF PulledInv
      <3>2. Barred(p) BY <2>a, <3>1 DEF Barred, Kin
      <3>3. p \notin Settled(fetched) BY <3>2 DEF Settled
      <3>4. ~Settling(p) /\ ~Listing(p) BY <1>3, <2>1, <3>3, ListedRow DEF Settling
      <3>5. Retired(row[p]).claim # "auto" BY <2>0, RowOperations DEF Published
      <3>. QED BY <2>1, <3>4, <3>5, Outcomes DEF Ceasing, Standing
    <2>2. row'[p] # row[p] OBVIOUS
    <2>3. Invalidated(row[p]).claim # "auto" /\ Invalidated(row[p]) \in RowType
      BY <2>0, RowOperations DEF Published, Sound
    <2>4. ASSUME NEW r \in Passages, Publish(r) \/ Withdraw(r) \/ SaveEvidence(r) PROVE FALSE
      BY <1>3, <2>0, <2>2, <2>3, <2>4
      DEF Publish, Withdraw, SaveEvidence, TypeOK, Sound, RowType
    <2>5. ASSUME NEW r \in Passages, NEW e \in People, EditClaim(r, e) \/ Convert(r, e)
          PROVE  FALSE
      BY <1>0, <1>3, <2>2, <2>3, <2>5 DEF EditClaim, Convert, TypeOK, RowType
    <2>6. ASSUME NEW s \in Srcs, SaveSource(s) PROVE FALSE
      BY <2>2, <2>3, <2>6 DEF SaveSource
    <2>7. ASSUME NEW e \in Ents, SaveEntity(e) PROVE FALSE
      BY <2>2, <2>3, <2>7 DEF SaveEntity
    <2>8. ASSUME NEW a \in People, NEW b \in People, MergeIdentity(a, b) PROVE FALSE
      BY <2>0, <2>8 DEF MergeIdentity, Sound, RowType
    <2>9. ASSUME UNCHANGED row PROVE FALSE BY <2>2, <2>9
    <2>. QED BY Imports, <1>3, <2>1, <2>4, <2>5, <2>6, <2>7, <2>8, <2>9
             DEF Next, vars, Review, Edit, Identify, Collect, Abandon, MoveIdentity
  <1>4. TypeOK /\ FetchedInv /\ PulledInv /\ [Next]_vars => [Held]_vars BY <1>3
  <1>. QED BY <1>1, <1>2, <1>4, Types, PTL DEF Spec, WithdrawalsHold
=============================================================================
