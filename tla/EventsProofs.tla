---------------------------- MODULE EventsProofs ----------------------------
(***************************************************************************)
(* Theorems about Events, for any records, scopes, profiles, identifiers   *)
(* and snapshots, and about OpenData, for any files of the portal, legal   *)
(* persons and numbers of uploads and runs: what is kept while files are   *)
(* read row by row is what their rows so far say.                          *)
(***************************************************************************)
EXTENDS Events, OpenData, FiniteSetTheorems, SequenceTheorems, TLAPS

-----------------------------------------------------------------------------
(* Types *)

\* A record's row stays well formed when it is listed, ceases or is merged.
LEMMA RowTypes ==
    ASSUME TypeOK, NEW r \in Records
    PROVE  /\ \A sc \in Scopes, s \in Srcs, day \in Days, c \in Contents :
                c.amount \in Nat => Seen(r, c, sc, s, day) \in EventType
           /\ \A day \in Days : [event[r] EXCEPT !.status = "ceased", !.day = day] \in EventType
           /\ [event[r] EXCEPT !.status = "withdrawn"] \in EventType
           /\ \A a, b \in Ents : Moved(event[r], a, b) \in EventType
  <1>0. event[r] \in EventType BY DEF TypeOK
  <1>1. ASSUME NEW sc \in Scopes, NEW s \in Srcs, NEW day \in Days, NEW c \in Contents,
               c.amount \in Nat
        PROVE  Seen(r, c, sc, s, day) \in EventType
    <2>1. Resolved(c) \subseteq Party
      BY EventsAssumption DEF EventsAssumption, Resolved, Party, TypeOK
    <2>2. CASE event[r].status = "withdrawn" BY <1>0, <2>2 DEF Seen, EventType
    <2>3. CASE event[r].status # "withdrawn"
      BY <1>1, <2>1, <2>3 DEF Seen, EventType, Statuses
    <2>. QED BY <2>2, <2>3
  <1>2. \A day \in Days : [event[r] EXCEPT !.status = "ceased", !.day = day] \in EventType
    BY <1>0 DEF EventType, Statuses
  <1>3. [event[r] EXCEPT !.status = "withdrawn"] \in EventType
    BY <1>0 DEF EventType, Statuses
  <1>4. ASSUME NEW a \in Ents, NEW b \in Ents PROVE Moved(event[r], a, b) \in EventType
    <2> DEFINE P == {[p EXCEPT !.entity = IF @ = a THEN b ELSE @] : p \in event[r].parties}
    <2>1. event[r].parties \subseteq Party BY <1>0 DEF EventType
    <2>2. P \subseteq Party BY <2>1 DEF Party
    <2>3. Moved(event[r], a, b) = [event[r] EXCEPT !.parties = P] BY DEF Moved
    <2>. HIDE DEF P
    <2>. QED BY <1>0, <2>2, <2>3 DEF EventType
  <1>. QED BY <1>1, <1>2, <1>3, <1>4

\* A rebuild writes rows of entities about other entities.
LEMMA RebuildTypes ==
    ASSUME TypeOK, event' \in [Records -> EventType], NEW E, Rebuild(E)
    PROVE  summary' \in [Ents -> SUBSET SummaryType]
  <1>1. ASSUME NEW e \in Ents PROVE Aggregate(e)' \subseteq SummaryType
    <2>1. \A r \in Records : event'[r].amount \in Nat BY DEF EventType
    <2>. QED BY <2>1 DEF Aggregate, SummaryType
  <1>. QED BY <1>1 DEF Rebuild, TypeOK

LEMMA TypeStep == TypeOK /\ Next => TypeOK'
  <1> SUFFICES ASSUME TypeOK, Next PROVE TypeOK'
    OBVIOUS
  <1>1. ASSUME NEW sc \in Scopes, NEW items \in Snapshots, NEW day \in Days,
               NEW complete \in BOOLEAN, SyncEvents(sc, items, day, complete)
        PROVE  TypeOK'
    <2>1. PICK s \in Srcs :
            /\ DatasetSource(s)
            /\ event' = [r \in Records |->
                           IF r \in DOMAIN items THEN Seen(r, items[r], sc, s, day)
                           ELSE IF complete /\ r \in Ceasing(sc, items)
                           THEN [event[r] EXCEPT !.status = "ceased", !.day = day]
                           ELSE event[r]]
      BY <1>1 DEF SyncEvents
    <2>2. DOMAIN items \subseteq Records /\ \A r \in DOMAIN items : items[r] \in Contents
      BY DEF Snapshots
    <2>3. \A c \in Contents : c.amount \in Nat BY EventsAssumption DEF EventsAssumption
    <2>4. event' \in [Records -> EventType]
      <3>1. ASSUME NEW r \in Records, r \in DOMAIN items
            PROVE  Seen(r, items[r], sc, s, day) \in EventType
        BY <2>2, <2>3, <3>1, RowTypes
      <3>2. ASSUME NEW r \in Records
            PROVE  [event[r] EXCEPT !.status = "ceased", !.day = day] \in EventType
        BY RowTypes
      <3>. QED BY <2>1, <3>1, <3>2 DEF TypeOK
    <2>5. source' \in [Srcs -> SourceType]
      <3>1. DatasetSource(s) BY <2>1
      <3>2. source \in [Srcs -> SourceType] BY DEF TypeOK
      <3>3. [exists |-> TRUE, public |-> TRUE, listed |-> TRUE] \in SourceType BY DEF SourceType
      <3>. QED BY <3>1, <3>2, <3>3 DEF DatasetSource
    <2>6. summary' \in [Ents -> SUBSET SummaryType]
      BY <1>1, <2>4, RebuildTypes DEF SyncEvents
    <2>7. listed' \in [Scopes -> SUBSET Records] /\ latest' \in [Scopes -> Days \cup {0}]
      BY <1>1, <2>2 DEF SyncEvents, TypeOK
    <2>8. used' \subseteq Anchors BY <1>1 DEF SyncEvents, Freeze, TypeOK
    <2>. QED BY <1>1, <2>4, <2>5, <2>6, <2>7, <2>8 DEF SyncEvents, TypeOK
  <1>2. ASSUME NEW r \in Records, WithdrawEvent(r) PROVE TypeOK'
    <2>1. event' = [event EXCEPT ![r] = [event[r] EXCEPT !.status = "withdrawn"]]
      BY <1>2 DEF WithdrawEvent
    <2>2. event' \in [Records -> EventType] BY <2>1, RowTypes DEF TypeOK
    <2>3. summary' \in [Ents -> SUBSET SummaryType]
      BY <1>2, <2>2, RebuildTypes DEF WithdrawEvent
    <2>. QED BY <1>2, <2>2, <2>3 DEF WithdrawEvent, TypeOK
  <1>3. ASSUME NEW e \in Ents, SaveEntity(e) PROVE TypeOK'
    <2>1. event' \in [Records -> EventType] BY <1>3 DEF SaveEntity, TypeOK
    <2>2. summary' \in [Ents -> SUBSET SummaryType]
      BY <1>3, <2>1, RebuildTypes DEF SaveEntity
    <2>. QED BY <1>3, <2>2 DEF SaveEntity, TypeOK
  <1>4. ASSUME NEW s \in Srcs, NEW x \in SourceType, SaveSource(s, x) PROVE TypeOK'
    <2>1. event' \in [Records -> EventType] BY <1>4 DEF SaveSource, TypeOK
    <2>2. summary' \in [Ents -> SUBSET SummaryType]
      BY <1>4, <2>1, RebuildTypes DEF SaveSource
    <2>. QED BY <1>4, <2>2 DEF SaveSource, TypeOK
  <1>5. ASSUME NEW i \in Ids, NEW e \in Ents \cup {NoEntity}, MoveIdentity(i, e)
        PROVE  TypeOK'
    BY <1>5 DEF MoveIdentity, TypeOK
  <1>6. ASSUME NEW a \in Ents, NEW b \in Ents, MergeIdentity(a, b) PROVE TypeOK'
    <2>1. event' \in [Records -> EventType]
      BY <1>6, RowTypes DEF MergeIdentity
    <2>2. summary' \in [Ents -> SUBSET SummaryType]
      BY <1>6, <2>1, RebuildTypes DEF MergeIdentity
    <2>. QED BY <1>6, <2>1, <2>2 DEF MergeIdentity, TypeOK
  <1>. QED BY <1>1, <1>2, <1>3, <1>4, <1>5, <1>6 DEF Next, Sync, Edit, Identify

\* Every reachable state is well typed: what is derived is about entities only, and only
\* anchors are frozen.
THEOREM TypeCorrect == Spec => []TypeOK
  <1>1. Init => TypeOK
    <2> SUFFICES ASSUME Init PROVE TypeOK
      OBVIOUS
    <2>. QED BY DEF Init, TypeOK, EventType, Statuses, SourceType
  <1>2. TypeOK /\ [Next]_vars => TypeOK'
    BY TypeStep DEF vars, TypeOK
  <1>. QED BY <1>1, <1>2, PTL DEF Spec

-----------------------------------------------------------------------------
(* Parties, anchors and absence *)

\* A row's source exists; its anchored parties are held by a frozen identifier.
SourceInv == \A r \in Records : event[r].status # "absent" => source[event[r].source].exists

FrozenInv ==
    \A r \in Records : \A p \in event[r].parties :
        p.id \in Anchors /\ p.entity # NoEntity => p.id \in used /\ holder[p.id] = p.entity

AnchorInv ==
    \A r \in Records : event[r].status = "published" =>
        \A p \in event[r].parties : \E i \in Anchors \cap used : holder[i] = p.entity

\* The inductive invariant.
IInv == SourceInv /\ FrozenInv /\ AnchorInv /\ AbsentIsNotPublished

\* What a snapshot leaves in the row of r.
Listing(r, items, sc, s, day, complete) ==
    \/ r \in DOMAIN items /\ event'[r] = Seen(r, items[r], sc, s, day)
    \/ /\ r \notin DOMAIN items /\ complete /\ r \in Ceasing(sc, items)
       /\ event'[r] = [event[r] EXCEPT !.status = "ceased", !.day = day]
    \/ /\ r \notin DOMAIN items /\ ~(complete /\ r \in Ceasing(sc, items))
       /\ event'[r] = event[r]

LEMMA Listings ==
    ASSUME TypeOK, NEW sc \in Scopes, NEW items \in Snapshots, NEW day \in Days,
           NEW complete \in BOOLEAN, SyncEvents(sc, items, day, complete)
    PROVE  \E s \in Srcs : /\ DatasetSource(s)
                           /\ \A r \in Records : Listing(r, items, sc, s, day, complete)
  BY DEF SyncEvents, Listing, TypeOK

\* The row of a listed record holds the parties the importer resolved, or its old ones.
LEMMA ListedParties ==
    ASSUME TypeOK, NEW r \in Records, NEW c \in Contents, NEW sc \in Scopes, NEW s \in Srcs,
           NEW day \in Days, event'[r] = Seen(r, c, sc, s, day), NEW p \in event'[r].parties
    PROVE  \/ p \in event[r].parties /\ event'[r].parties = event[r].parties
           \/ /\ p.id \in Ids => p.entity = holder[p.id]
              /\ event[r].status # "withdrawn"
  BY DEF Seen, Resolved, TypeOK, EventType

LEMMA SnapshotStep ==
    ASSUME TypeOK, IInv, NEW sc \in Scopes, NEW items \in Snapshots, NEW day \in Days,
           NEW complete \in BOOLEAN, SyncEvents(sc, items, day, complete)
    PROVE  IInv'
  <1>0. SourceInv /\ FrozenInv /\ AnchorInv /\ AbsentIsNotPublished BY DEF IInv
  <1>1. PICK s \in Srcs : /\ DatasetSource(s)
                          /\ \A r \in Records : Listing(r, items, sc, s, day, complete)
    BY Listings
  <1>2. \A r \in DOMAIN items : r \in Records /\ items[r] \in Contents BY DEF Snapshots
  <1>3. holder' = holder /\ used' = used \cup {i \in Anchors : holder[i] \in Relied(items)}
    BY DEF SyncEvents, Freeze
  <1>5. SourceInv'
    <2>1. \A t \in Srcs : source[t].exists => source'[t].exists
      BY <1>1 DEF DatasetSource, TypeOK, SourceType
    <2>2. source'[s].exists BY <1>1 DEF DatasetSource, TypeOK
    <2> SUFFICES ASSUME NEW r \in Records, event'[r].status # "absent"
                 PROVE  source'[event'[r].source].exists
      BY DEF SourceInv
    <2>3. Listing(r, items, sc, s, day, complete) /\ event[r] \in EventType BY <1>1 DEF TypeOK
    <2>4. \/ event'[r].source = s
          \/ event'[r].source = event[r].source /\ event[r].status # "absent"
      <3>1. CASE r \in DOMAIN items /\ event'[r] = Seen(r, items[r], sc, s, day)
        <4>1. CASE event[r].status = "withdrawn"
          BY <2>3, <3>1, <4>1 DEF Seen, EventType
        <4>2. CASE event[r].status # "withdrawn" BY <3>1, <4>2 DEF Seen
        <4>. QED BY <4>1, <4>2
      <3>2. CASE r \in Ceasing(sc, items)
                 /\ event'[r] = [event[r] EXCEPT !.status = "ceased", !.day = day]
        BY <2>3, <3>2 DEF EventType, Ceasing, Current
      <3>3. CASE event'[r] = event[r] BY <3>3
      <3>. QED BY <2>3, <3>1, <3>2, <3>3 DEF Listing
    <2>5. event[r].source \in Srcs BY <2>3 DEF EventType
    <2>. QED BY <1>0, <2>1, <2>2, <2>4, <2>5 DEF SourceInv
  <1>6. FrozenInv'
    <2> SUFFICES ASSUME NEW r \in Records, NEW p \in event'[r].parties,
                        p.id \in Anchors, p.entity # NoEntity
                 PROVE  p.id \in used' /\ holder'[p.id] = p.entity
      BY DEF FrozenInv
    <2>1. CASE p \in event[r].parties BY <1>0, <1>3, <2>1 DEF FrozenInv
    <2>2. CASE p \notin event[r].parties
      <3>1. r \in DOMAIN items /\ event'[r] = Seen(r, items[r], sc, s, day)
        <4>1. event[r] \in EventType BY DEF TypeOK
        <4>. QED BY <1>1, <2>2, <4>1 DEF Listing, EventType
      <3>2. p.id \in Ids => p.entity = holder[p.id] /\ event[r].status # "withdrawn"
        BY <1>2, <2>2, <3>1, ListedParties
      <3>3. p.id \in Ids BY EventsAssumption DEF EventsAssumption
      <3>4. Written(r, event'[r]) BY <2>2, <3>2, <3>3 DEF Written
      <3>5. p.entity \in Relied(items) BY <3>1, <3>4 DEF Relied, EntitiesOf
      <3>. QED BY <1>3, <3>2, <3>3, <3>5
    <2>. QED BY <2>1, <2>2
  <1>7. AnchorInv'
    <2> SUFFICES ASSUME NEW r \in Records, event'[r].status = "published",
                        NEW p \in event'[r].parties
                 PROVE  \E i \in Anchors \cap used' : holder'[i] = p.entity
      BY DEF AnchorInv
    <2>0. event[r] \in EventType BY DEF TypeOK
    <2>1. CASE r \in DOMAIN items
      <3>1. event'[r] = Seen(r, items[r], sc, s, day) BY <1>1, <2>1 DEF Listing
      <3>2. event[r].status # "withdrawn" BY <3>1, <2>0 DEF Seen, EventType
      <3>3. event'[r].parties = Resolved(items[r]) /\ AllPublishable(Resolved(items[r]))
        BY <3>1, <3>2 DEF Seen
      <3>4. p.entity \in shown /\ Anchored(p.entity) BY <3>3 DEF AllPublishable
      <3>5. p.entity # NoEntity BY <3>4, EventsAssumption DEF EventsAssumption, TypeOK
      <3>6. p.entity \in Relied(items) BY <2>1, <3>5 DEF Relied, EntitiesOf
      <3>. QED BY <1>3, <3>4, <3>6 DEF Anchored
    <2>2. CASE r \notin DOMAIN items
      <3>1. event'[r] = event[r] BY <1>1, <2>0, <2>2 DEF Listing, EventType
      <3>. QED BY <1>0, <1>3, <3>1 DEF AnchorInv
    <2>. QED BY <2>1, <2>2
  <1>8. AbsentIsNotPublished'
    <2> SUFFICES ASSUME NEW r \in Records, event'[r].status = "published"
                 PROVE  r \in listed'[event'[r].scope]
      BY DEF AbsentIsNotPublished
    <2>0. event[r] \in EventType BY DEF TypeOK
    <2>1. listed' = [listed EXCEPT ![sc] = IF complete THEN DOMAIN items
                                           ELSE listed[sc] \cup DOMAIN items]
      BY DEF SyncEvents
    <2>2. listed \in [Scopes -> SUBSET Records] BY DEF TypeOK
    <2>3. CASE r \in DOMAIN items
      <3>1. event'[r].scope = sc
        <4>1. event'[r] = Seen(r, items[r], sc, s, day) BY <1>1, <2>3 DEF Listing
        <4>2. event[r].status # "withdrawn" BY <2>0, <4>1 DEF Seen, EventType
        <4>. QED BY <4>1, <4>2 DEF Seen
      <3>. QED BY <2>1, <2>2, <2>3, <3>1
    <2>4. CASE r \notin DOMAIN items
      <3>1. event'[r] = event[r] /\ ~(complete /\ r \in Ceasing(sc, items))
        BY <1>1, <2>0, <2>4 DEF Listing, EventType
      <3>2. event[r].scope # sc \/ ~complete BY <2>4, <3>1 DEF Ceasing, Current
      <3>3. r \in listed[event[r].scope] BY <1>0, <3>1 DEF AbsentIsNotPublished
      <3>. QED BY <2>0, <2>1, <2>2, <3>1, <3>2, <3>3 DEF EventType
    <2>. QED BY <2>3, <2>4
  <1>. QED BY <1>5, <1>6, <1>7, <1>8 DEF IInv

LEMMA IStep == TypeOK /\ IInv /\ Next => IInv'
  <1> SUFFICES ASSUME TypeOK, IInv, Next PROVE IInv'
    OBVIOUS
  <1> USE DEF IInv, SourceInv, FrozenInv, AnchorInv, AbsentIsNotPublished
  <1>1. ASSUME NEW r \in Records, WithdrawEvent(r) PROVE IInv'
    BY <1>1 DEF WithdrawEvent, TypeOK, EventType
  <1>2. ASSUME NEW e \in Ents, SaveEntity(e) PROVE IInv'
    BY <1>2 DEF SaveEntity
  <1>3. ASSUME NEW s \in Srcs, NEW x \in SourceType, SaveSource(s, x) PROVE IInv'
    BY <1>3 DEF SaveSource, TypeOK, EventType
  <1>4. ASSUME NEW i \in Ids, NEW e \in Ents \cup {NoEntity}, MoveIdentity(i, e) PROVE IInv'
    BY <1>4, EventsAssumption DEF MoveIdentity, TypeOK, EventsAssumption
  <1>5. ASSUME NEW a \in Ents, NEW b \in Ents, MergeIdentity(a, b) PROVE IInv'
    <2>1. \A r \in Records : /\ event'[r].status = event[r].status
                             /\ event'[r].scope = event[r].scope
                             /\ event'[r].source = event[r].source
      BY <1>5 DEF MergeIdentity, Moved, TypeOK, EventType
    <2>2. \A r \in Records : \A q \in event'[r].parties : \E p \in event[r].parties :
             q.id = p.id /\ q.entity = IF p.entity = a THEN b ELSE p.entity
      <3> SUFFICES ASSUME NEW r \in Records, NEW q \in event'[r].parties
                   PROVE  \E p \in event[r].parties :
                            q.id = p.id /\ q.entity = IF p.entity = a THEN b ELSE p.entity
        OBVIOUS
      <3>1. event[r] \in EventType /\ event[r].parties \subseteq Party
        BY DEF TypeOK, EventType
      <3>2. event'[r].parties =
              {[p EXCEPT !.entity = IF @ = a THEN b ELSE @] : p \in event[r].parties}
        BY <1>5, <3>1 DEF MergeIdentity, Moved, EventType
      <3>. QED BY <3>1, <3>2 DEF Party
    <2>3. /\ holder' = [i \in Ids |-> IF holder[i] = a THEN b ELSE holder[i]]
          /\ UNCHANGED <<used, source, listed>>
      BY <1>5 DEF MergeIdentity
    <2>4. Anchors \subseteq Ids /\ a # NoEntity
      BY EventsAssumption DEF EventsAssumption
    <2>5. FrozenInv' BY <2>2, <2>3, <2>4
    <2>6. AnchorInv' BY <2>1, <2>2, <2>3, <2>4
    <2>. QED BY <2>1, <2>3, <2>5, <2>6
  <1>. QED BY SnapshotStep, <1>1, <1>2, <1>3, <1>4, <1>5 DEF Next, Sync, Edit, Identify

LEMMA Invariance == Spec => [](TypeOK /\ IInv)
  <1>1. Init => IInv
    BY DEF Init, IInv, SourceInv, FrozenInv, AnchorInv, AbsentIsNotPublished
  <1>2. TypeOK /\ IInv /\ [Next]_vars => IInv'
    BY IStep DEF vars, IInv, SourceInv, FrozenInv, AnchorInv, AbsentIsNotPublished
  <1>. QED BY <1>1, <1>2, TypeCorrect, PTL DEF Spec

\* No snapshot, review, visibility change or merge parts an event from the person or body
\* its official identifier stands for.
THEOREM Identified == Spec => []PartiesAreIdentified
  <1>1. IInv => PartiesAreIdentified BY DEF IInv, FrozenInv, PartiesAreIdentified
  <1>. QED BY <1>1, Invariance, PTL

\* A published event keeps an official identifier for each of its parties.
THEOREM AnchoredEvents == Spec => []PublishedIsAnchored
  <1>1. IInv => PublishedIsAnchored BY DEF IInv, AnchorInv, PublishedIsAnchored, Anchored
  <1>. QED BY <1>1, Invariance, PTL

\* Through every import, review and merge the published parties stand on their identifiers.
THEOREM Parties == Spec => []PartiesStand
  BY Identified, AnchoredEvents, PTL DEF PartiesStand

\* A record its own scope's last complete snapshot left out is not published.
THEOREM Absence == Spec => []AbsentIsNotPublished
  <1>1. IInv => AbsentIsNotPublished BY DEF IInv
  <1>. QED BY <1>1, Invariance, PTL

-----------------------------------------------------------------------------
(* Derived rows *)

\* What r adds to the rows of e is as it was.
SameRows(e, r) ==
    /\ PublicEvent(r)' /\ e \in EntitiesOf(event'[r]) <=> PublicEvent(r) /\ e \in EntitiesOf(event[r])
    /\ PublicEvent(r) /\ e \in EntitiesOf(event[r]) =>
          event'[r].amount = event[r].amount /\ EntitiesOf(event'[r]) = EntitiesOf(event[r])

LEMMA SameAggregate ==
    ASSUME NEW e, \A r \in Records : SameRows(e, r)
    PROVE  Aggregate(e)' = Aggregate(e)
  <1> DEFINE P == {p \in Records \X Ents :
                     PublicEvent(p[1]) /\ {e, p[2]} \subseteq EntitiesOf(event[p[1]])}
  <1>1. P' = P BY DEF SameRows
  <1>2. \A q \in P : event'[q[1]].amount = event[q[1]].amount BY DEF SameRows
  <1>3. Aggregate(e) = {[event |-> q[1], amount |-> event[q[1]].amount, counterpart |-> q[2]] :
                          q \in P}
    BY DEF Aggregate
  <1>4. Aggregate(e)' =
          {[event |-> q[1], amount |-> event'[q[1]].amount, counterpart |-> q[2]] : q \in P'}
    BY DEF Aggregate
  <1> HIDE DEF P
  <1>. QED BY <1>1, <1>2, <1>3, <1>4

\* It is enough that the rows of whoever is not rebuilt are as they were.
LEMMA RebuildExact ==
    ASSUME TypeOK, SummariesExact, NEW E, Rebuild(E),
           \A e \in Ents \ E : \A r \in Records : SameRows(e, r)
    PROVE  SummariesExact'
  <1> SUFFICES ASSUME NEW e \in Ents PROVE summary'[e] = Aggregate(e)'
    BY DEF SummariesExact
  <1>1. CASE e \in E BY <1>1 DEF Rebuild
  <1>2. CASE e \notin E
    <2>1. summary'[e] = summary[e] BY <1>2 DEF Rebuild
    <2>2. Aggregate(e)' = Aggregate(e) BY <1>2, SameAggregate
    <2>. QED BY <2>1, <2>2 DEF SummariesExact
  <1>. QED BY <1>1, <1>2

LEMMA SnapshotRows ==
    ASSUME TypeOK, SourceInv, NEW sc \in Scopes, NEW items \in Snapshots, NEW day \in Days,
           NEW complete \in BOOLEAN, SyncEvents(sc, items, day, complete),
           NEW e \in Ents \ Touched(sc, items), NEW r \in Records
    PROVE  SameRows(e, r)
  <1>1. PICK s \in Srcs : DatasetSource(s) /\ Listing(r, items, sc, s, day, complete)
    BY Listings
  <1>2. event[r] \in EventType BY DEF TypeOK
  <1>3. shown' = shown BY DEF SyncEvents
  <1>4. event[r].status = "published" =>
           source'[event[r].source].public = source[event[r].source].public
    <2>1. event[r].status = "published" => source[event[r].source].exists BY DEF SourceInv
    <2>2. event[r].source \in Srcs BY <1>2 DEF EventType
    <2>. QED BY <1>1, <2>1, <2>2 DEF DatasetSource, TypeOK
  <1>5. event'[r] = event[r] => SameRows(e, r)
    BY <1>3, <1>4 DEF SameRows, PublicEvent
  <1>6. CASE r \in DOMAIN items /\ event'[r] = Seen(r, items[r], sc, s, day)
    <2>1. CASE event[r].status = "withdrawn"
      <3>1. event'[r].status = "withdrawn" BY <1>2, <1>6, <2>1 DEF Seen, EventType
      <3>. QED BY <2>1, <3>1 DEF SameRows, PublicEvent
    <2>2. CASE Written(r, event'[r])
      <3>1. e \notin EntitiesOf(event[r]) BY <1>6, <2>2 DEF Touched
      <3>2. e \notin EntitiesOf(event'[r]) BY <1>6, <2>2 DEF Touched
      <3>. QED BY <3>1, <3>2 DEF SameRows
    <2>3. CASE event[r].status # "withdrawn" /\ ~Written(r, event'[r])
      <3>1. /\ event'[r].parties = event[r].parties /\ event'[r].amount = event[r].amount
            /\ event'[r].source = event[r].source
        BY <2>3 DEF Written
      <3>2. EntitiesOf(event'[r]) = EntitiesOf(event[r]) BY <3>1 DEF EntitiesOf
      <3>3. CASE Flipped(r, event'[r])
        <4>1. e \notin EntitiesOf(event[r]) BY <1>6, <3>3 DEF Touched
        <4>. QED BY <3>2, <4>1 DEF SameRows
      <3>4. CASE (event[r].status = "published") = (event'[r].status = "published")
        BY <1>3, <1>4, <3>1, <3>2, <3>4 DEF SameRows, PublicEvent
      <3>. QED BY <2>3, <3>3, <3>4 DEF Flipped
    <2>. QED BY <2>1, <2>2, <2>3
  <1>7. CASE /\ complete /\ r \in Ceasing(sc, items)
             /\ event'[r] = [event[r] EXCEPT !.status = "ceased", !.day = day]
    <2>1. event'[r].status = "ceased" /\ event'[r].parties = event[r].parties
      BY <1>2, <1>7 DEF EventType
    <2>2. CASE event[r].status = "published"
      <3>1. e \notin EntitiesOf(event[r]) BY <1>7, <2>2 DEF Touched
      <3>. QED BY <2>1, <3>1 DEF SameRows, PublicEvent
    <2>3. CASE event[r].status # "published" BY <2>1, <2>3 DEF SameRows, PublicEvent
    <2>. QED BY <2>2, <2>3
  <1>. QED BY <1>1, <1>5, <1>6, <1>7 DEF Listing

LEMMA ExactStep == TypeOK /\ IInv /\ SummariesExact /\ Next => SummariesExact'
  <1> SUFFICES ASSUME TypeOK, IInv, SummariesExact, Next PROVE SummariesExact'
    OBVIOUS
  <1>1. ASSUME NEW sc \in Scopes, NEW items \in Snapshots, NEW day \in Days,
               NEW complete \in BOOLEAN, SyncEvents(sc, items, day, complete)
        PROVE  SummariesExact'
    <2>1. \A e \in Ents \ Touched(sc, items) : \A r \in Records : SameRows(e, r)
      BY <1>1, SnapshotRows DEF IInv
    <2>2. Rebuild(Touched(sc, items)) BY <1>1 DEF SyncEvents
    <2>. QED BY <2>1, <2>2, RebuildExact
  <1>2. ASSUME NEW w \in Records, WithdrawEvent(w) PROVE SummariesExact'
    <2> DEFINE E == IF event[w].status = "published" THEN EntitiesOf(event[w]) ELSE {}
    <2>1. ASSUME NEW e \in Ents \ E, NEW r \in Records PROVE SameRows(e, r)
      <3>1. CASE r = w
        <4>1. event'[w].status = "withdrawn" BY <1>2 DEF WithdrawEvent, TypeOK, EventType
        <4>. QED BY <2>1, <3>1, <4>1 DEF SameRows, PublicEvent
      <3>2. CASE r # w
        <4>1. event'[r] = event[r] /\ UNCHANGED <<source, shown>>
          BY <1>2, <3>2 DEF WithdrawEvent, TypeOK
        <4>. QED BY <4>1 DEF SameRows, PublicEvent
      <3>. QED BY <3>1, <3>2
    <2>2. Rebuild(E) BY <1>2 DEF WithdrawEvent
    <2> HIDE DEF E
    <2>. QED BY <2>1, <2>2, RebuildExact
  <1>3. ASSUME NEW h \in Ents, SaveEntity(h) PROVE SummariesExact'
    <2>1. ASSUME NEW e \in Ents \ CoParties({h}), NEW r \in Records PROVE SameRows(e, r)
      <3>1. event' = event /\ source' = source /\ \A x : x # h => (x \in shown' <=> x \in shown)
        BY <1>3 DEF SaveEntity
      <3>2. e \in EntitiesOf(event[r]) => h \notin EntitiesOf(event[r])
        BY <2>1 DEF CoParties
      <3>3. e \in EntitiesOf(event[r]) => \A p \in event[r].parties : p.entity # h
        BY <3>2, EventsAssumption DEF EntitiesOf, EventsAssumption
      <3>. QED BY <3>1, <3>3 DEF SameRows, PublicEvent
    <2>2. Rebuild(CoParties({h})) BY <1>3 DEF SaveEntity
    <2>. QED BY <2>1, <2>2, RebuildExact
  <1>4. ASSUME NEW s \in Srcs, NEW x \in SourceType, SaveSource(s, x) PROVE SummariesExact'
    <2>1. ASSUME NEW e \in Ents \ SourceMoves(s, x), NEW r \in Records PROVE SameRows(e, r)
      <3>1. x.public = source[s].public BY <2>1 DEF SourceMoves
      <3>2. \A t \in Srcs : source'[t].public = source[t].public
        BY <1>4, <3>1 DEF SaveSource, TypeOK
      <3>3. event[r].source \in Srcs BY DEF TypeOK, EventType
      <3>. QED BY <1>4, <3>2, <3>3 DEF SaveSource, SameRows, PublicEvent
    <2>2. Rebuild(SourceMoves(s, x)) BY <1>4 DEF SaveSource
    <2>. QED BY <2>1, <2>2, RebuildExact
  <1>5. ASSUME NEW i \in Ids, NEW e \in Ents \cup {NoEntity}, MoveIdentity(i, e)
        PROVE  SummariesExact'
    <2>1. UNCHANGED <<event, shown, source, summary>> BY <1>5 DEF MoveIdentity
    <2>. QED BY <2>1 DEF SummariesExact, Aggregate, PublicEvent
  <1>6. ASSUME NEW a \in Ents, NEW b \in Ents, MergeIdentity(a, b) PROVE SummariesExact'
    <2>1. ASSUME NEW e \in Ents \ CoParties({a, b}), NEW r \in Records PROVE SameRows(e, r)
      <3>1. event[r] \in EventType /\ event[r].parties \subseteq Party
        BY DEF TypeOK, EventType
      <3>2. event'[r].parties =
              {[p EXCEPT !.entity = IF @ = a THEN b ELSE @] : p \in event[r].parties}
        BY <1>6, <3>1 DEF MergeIdentity, Moved, EventType
      <3>3. /\ event'[r].status = event[r].status /\ event'[r].amount = event[r].amount
            /\ event'[r].source = event[r].source
        BY <1>6, <3>1 DEF MergeIdentity, Moved, EventType
      <3>4. e # a /\ e # b /\ a # NoEntity /\ b # NoEntity
        BY <2>1, EventsAssumption DEF CoParties, EventsAssumption
      <3>5. CASE e \in EntitiesOf(event[r])
        <4>1. a \notin EntitiesOf(event[r]) BY <2>1, <3>5 DEF CoParties
        <4>2. \A p \in event[r].parties : p.entity # a BY <3>4, <4>1 DEF EntitiesOf
        <4>3. event'[r].parties = event[r].parties
          <5>1. \A p \in event[r].parties : [p EXCEPT !.entity = IF @ = a THEN b ELSE @] = p
            BY <3>1, <4>2 DEF Party
          <5>. QED BY <3>2, <5>1
        <4>4. source' = source /\ shown' = shown \ {a} BY <1>6 DEF MergeIdentity
        <4>5. PublicEvent(r)' <=> PublicEvent(r) BY <3>3, <4>2, <4>3, <4>4 DEF PublicEvent
        <4>. QED BY <3>3, <4>3, <4>5 DEF SameRows, EntitiesOf
      <3>6. CASE e \notin EntitiesOf(event[r])
        <4>1. e \notin EntitiesOf(event'[r])
          BY <2>1, <3>1, <3>2, <3>4, <3>6 DEF EntitiesOf, Party
        <4>. QED BY <3>6, <4>1 DEF SameRows
      <3>. QED BY <3>5, <3>6
    <2>2. Rebuild(CoParties({a, b})) BY <1>6 DEF MergeIdentity
    <2>. QED BY <2>1, <2>2, RebuildExact
  <1>. QED BY <1>1, <1>2, <1>3, <1>4, <1>5, <1>6 DEF Next, Sync, Edit, Identify

\* The derived rows hold exactly what public_events() yields, whatever moved an event, a
\* party, an entity, a source or an identity.
THEOREM Summaries == Spec => []SummariesExact
  <1>1. Init => SummariesExact
    <2> SUFFICES ASSUME Init, NEW e \in Ents PROVE Aggregate(e) = {}
      BY DEF Init, SummariesExact
    <2>1. \A r \in Records : ~PublicEvent(r) BY DEF Init, PublicEvent
    <2>. QED BY <2>1 DEF Aggregate
  <1>2. TypeOK /\ IInv /\ SummariesExact /\ [Next]_vars => SummariesExact'
    <2> SUFFICES ASSUME SummariesExact, UNCHANGED vars PROVE SummariesExact'
      BY ExactStep
    <2>. QED BY DEF vars, SummariesExact, Aggregate, PublicEvent
  <1>. QED BY <1>1, <1>2, Invariance, PTL DEF Spec

\* Later imports never republish or modify a withdrawn event.
THEOREM Withdrawn == Spec => WithdrawnIsFinal
  <1> DEFINE Kept(r) == event[r].status = "withdrawn" =>
                /\ event'[r].status = "withdrawn" /\ event'[r].amount = event[r].amount
                /\ {p.id : p \in event'[r].parties} = {p.id : p \in event[r].parties}
  <1>1. ASSUME TypeOK, [Next]_vars, NEW r \in Records, event[r].status = "withdrawn"
        PROVE  Kept(r)
    <2>0. event[r] \in EventType /\ event[r].parties \subseteq Party
      BY <1>1 DEF TypeOK, EventType
    <2>1. event'[r] = event[r] => Kept(r) OBVIOUS
    <2>2. ASSUME NEW sc \in Scopes, NEW items \in Snapshots, NEW day \in Days,
                 NEW complete \in BOOLEAN, SyncEvents(sc, items, day, complete)
          PROVE  Kept(r)
      <3>1. PICK s \in Srcs : Listing(r, items, sc, s, day, complete)
        BY <1>1, <2>2, Listings
      <3>2. r \notin Ceasing(sc, items) BY <1>1 DEF Ceasing, Current
      <3>3. event'[r] = event[r] \/ event'[r] = [event[r] EXCEPT !.day = day]
        BY <1>1, <3>1, <3>2 DEF Listing, Seen
      <3>. QED BY <1>1, <2>0, <3>3 DEF EventType
    <2>3. ASSUME NEW w \in Records, WithdrawEvent(w) PROVE event'[r] = event[r]
      BY <1>1, <2>3 DEF WithdrawEvent, TypeOK
    <2>4. ASSUME NEW a \in Ents, NEW b \in Ents, MergeIdentity(a, b) PROVE Kept(r)
      <3>1. event'[r].parties =
              {[p EXCEPT !.entity = IF @ = a THEN b ELSE @] : p \in event[r].parties}
        BY <2>0, <2>4 DEF MergeIdentity, Moved, EventType
      <3>2. event'[r].status = event[r].status /\ event'[r].amount = event[r].amount
        BY <2>0, <2>4 DEF MergeIdentity, Moved, EventType
      <3>3. \A p \in event[r].parties : [p EXCEPT !.entity = IF @ = a THEN b ELSE @].id = p.id
        BY <2>0 DEF Party
      <3>4. {p.id : p \in event'[r].parties} = {p.id : p \in event[r].parties}
        <4> DEFINE M(p) == [p EXCEPT !.entity = IF @ = a THEN b ELSE @]
        <4>1. event'[r].parties = {M(p) : p \in event[r].parties} BY <3>1
        <4>2. \A p \in event[r].parties : M(p).id = p.id BY <3>3
        <4> HIDE DEF M
        <4>. QED BY <4>1, <4>2
      <3>. QED BY <1>1, <3>2, <3>4
    <2>5. CASE UNCHANGED vars BY <2>1, <2>5 DEF vars
    <2>6. CASE Next
      <3>1. ASSUME NEW e \in Ents, SaveEntity(e) PROVE event'[r] = event[r]
        BY <3>1 DEF SaveEntity
      <3>2. ASSUME NEW s \in Srcs, NEW x \in SourceType, SaveSource(s, x)
            PROVE  event'[r] = event[r]
        BY <3>2 DEF SaveSource
      <3>3. ASSUME NEW i \in Ids, NEW e \in Ents \cup {NoEntity}, MoveIdentity(i, e)
            PROVE  event'[r] = event[r]
        BY <3>3 DEF MoveIdentity
      <3>. HIDE DEF Kept
      <3>. QED BY <2>1, <2>2, <2>3, <2>4, <2>6, <3>1, <3>2, <3>3
               DEF Next, Sync, Edit, Identify
    <2>. QED BY <1>1, <2>5, <2>6
  <1>2. TypeOK /\ [Next]_vars => [\A r \in Records : Kept(r)]_vars
    BY <1>1
  <1>. QED BY <1>2, TypeCorrect, PTL DEF Spec, WithdrawnIsFinal

-----------------------------------------------------------------------------
(* OpenData: files that are read row by row. *)

\* The members of a finite set have places by an order of them, each place one member.
OrderOf(R, D) ==
    /\ \A s \in D : <<s, s>> \in R
    /\ \A s, t \in D : /\ <<s, t>> \in R \/ <<t, s>> \in R
                       /\ <<s, t>> \in R /\ <<t, s>> \in R => s = t
                       /\ \A u \in D : <<s, t>> \in R /\ <<t, u>> \in R => <<s, u>> \in R
UpToIn(R, D, s)  == {t \in D : <<t, s>> \in R}
PlaceIn(R, D, s) == Cardinality(UpToIn(R, D, s))

LEMMA PlacesGrow ==
    ASSUME NEW D, IsFiniteSet(D), NEW R, OrderOf(R, D), NEW s \in D
    PROVE  /\ PlaceIn(R, D, s) \in 1..Cardinality(D)
           /\ \A t \in D : s # t /\ <<s, t>> \in R => PlaceIn(R, D, s) < PlaceIn(R, D, t)
  <1>1. \A t \in D : IsFiniteSet(UpToIn(R, D, t)) /\ PlaceIn(R, D, t) \in Nat
                     /\ PlaceIn(R, D, t) <= Cardinality(D)
    BY FS_Subset, FS_CardinalityType DEF UpToIn, PlaceIn
  <1>2. PlaceIn(R, D, s) # 0
    <2>1. s \in UpToIn(R, D, s) BY DEF UpToIn, OrderOf
    <2> QED BY <2>1, <1>1, FS_EmptySet DEF PlaceIn
  <1>3. ASSUME NEW t \in D, s # t, <<s, t>> \in R PROVE PlaceIn(R, D, s) < PlaceIn(R, D, t)
    <2>1. UpToIn(R, D, s) \subseteq UpToIn(R, D, t) BY <1>3 DEF UpToIn, OrderOf
    <2>2. t \in UpToIn(R, D, t) /\ t \notin UpToIn(R, D, s) BY <1>3 DEF UpToIn, OrderOf
    <2>3. PlaceIn(R, D, s) <= PlaceIn(R, D, t) /\ PlaceIn(R, D, s) # PlaceIn(R, D, t)
      BY <2>1, <2>2, <1>1, FS_Subset DEF PlaceIn
    <2> QED BY <2>3, <1>1
  <1>4. Cardinality(D) \in Nat BY FS_CardinalityType
  <1> QED BY <1>1, <1>2, <1>3, <1>4

OneEach(R, D) == /\ \A s, t \in D : PlaceIn(R, D, s) = PlaceIn(R, D, t) => s = t
                 /\ \A k \in 1..Cardinality(D) : \E s \in D : PlaceIn(R, D, s) = k

LEMMA EachPlace ==
    ASSUME NEW D, IsFiniteSet(D), NEW R, OrderOf(R, D)
    PROVE  OneEach(R, D)
  <1> DEFINE n == Cardinality(D)
             place == [s \in D |-> PlaceIn(R, D, s)]
  <1>1. \A s, t \in D : PlaceIn(R, D, s) = PlaceIn(R, D, t) => s = t
    <2> SUFFICES ASSUME NEW s \in D, NEW t \in D, s # t, <<s, t>> \in R
                 PROVE  PlaceIn(R, D, s) # PlaceIn(R, D, t)
      BY DEF OrderOf
    <2>1. PlaceIn(R, D, s) \in Nat /\ PlaceIn(R, D, t) \in Nat /\ PlaceIn(R, D, s) < PlaceIn(R, D, t)
      BY PlacesGrow
    <2> QED BY <2>1
  <1>2. place \in [D -> 1..n] BY PlacesGrow
  <1>3. n \in Nat /\ IsFiniteSet(1..n) /\ Cardinality(1..n) = n BY FS_CardinalityType, FS_Interval
  <1>4. place \in Surjection(D, 1..n)
    <2>1. \A s, t \in D : place[s] = place[t] => s = t BY <1>1
    <2> HIDE DEF place, n
    <2>2. place \in Injection(D, 1..n) BY <1>2, <2>1 DEF Injection, IsInjective
    <2> QED BY <2>2, <1>3, FS_Injection DEF n
  <1>5. \A k \in 1..n : \E s \in D : place[s] = k
    <2> HIDE DEF place, n
    <2> QED BY <1>4 DEF Surjection
  <1> QED BY <1>1, <1>5 DEF OneEach

\* Positions in a sequence, by their number.
NumberIn(K, k) == Cardinality({l \in K : l <= k})

LEMMA NumbersInOrder ==
    ASSUME NEW n \in Nat, NEW K \in SUBSET (1..n)
    PROVE  /\ IsFiniteSet(K) /\ Cardinality(K) \in Nat
           /\ \A k \in K : NumberIn(K, k) \in 1..Cardinality(K)
           /\ \A k, l \in K : NumberIn(K, k) = NumberIn(K, l) => k = l
           /\ \A i \in 1..Cardinality(K) : \E k \in K : NumberIn(K, k) = i
           /\ \A k, l \in K : k < l => NumberIn(K, k) < NumberIn(K, l)
  <1> DEFINE R == {x \in (1..n) \X (1..n) : x[1] <= x[2]}
  <1>1. IsFiniteSet(K)
    <2>1. IsFiniteSet(1..n) BY FS_Interval
    <2> QED BY <2>1, FS_Subset
  <1>2. OrderOf(R, K)
    <2>1. \A k, l \in K : <<k, l>> \in R <=> k <= l OBVIOUS
    <2>2. \A k \in K : k \in Int OBVIOUS
    <2> HIDE DEF R
    <2>3. \A k \in K : <<k, k>> \in R BY <2>1, <2>2
    <2>4. \A k, l \in K : /\ <<k, l>> \in R \/ <<l, k>> \in R
                          /\ <<k, l>> \in R /\ <<l, k>> \in R => k = l
      <3> SUFFICES ASSUME NEW k \in K, NEW l \in K
                   PROVE  /\ <<k, l>> \in R \/ <<l, k>> \in R
                          /\ <<k, l>> \in R /\ <<l, k>> \in R => k = l
        OBVIOUS
      <3>1. (<<k, l>> \in R <=> k <= l) /\ (<<l, k>> \in R <=> l <= k) BY <2>1
      <3>2. k \in Int /\ l \in Int BY <2>2
      <3> QED BY <3>1, <3>2
    <2>5. \A k, l, j \in K : <<k, l>> \in R /\ <<l, j>> \in R => <<k, j>> \in R
      BY <2>1, <2>2
    <2> QED BY <2>3, <2>4, <2>5 DEF OrderOf
  <1>3. ASSUME NEW k \in K PROVE NumberIn(K, k) = PlaceIn(R, K, k)
    <2>1. UpToIn(R, K, k) = {l \in K : l <= k} BY DEF UpToIn
    <2> QED BY <2>1 DEF NumberIn, PlaceIn
  <1>4. ASSUME NEW k \in K, NEW l \in K, k < l PROVE k # l /\ <<k, l>> \in R
    BY <1>4
  <1> HIDE DEF R
  <1>5. \A k, l \in K : k < l => PlaceIn(R, K, k) < PlaceIn(R, K, l) BY <1>1, <1>2, <1>4, PlacesGrow
  <1>6. Cardinality(K) \in Nat BY <1>1, FS_CardinalityType
  <1>7. \A k \in K : PlaceIn(R, K, k) \in 1..Cardinality(K) BY <1>1, <1>2, PlacesGrow
  <1>8. /\ \A k, l \in K : PlaceIn(R, K, k) = PlaceIn(R, K, l) => k = l
        /\ \A i \in 1..Cardinality(K) : \E k \in K : PlaceIn(R, K, k) = i
    <2>1. OneEach(R, K) BY <1>1, <1>2, EachPlace
    <2> QED BY <2>1 DEF OneEach
  <1> QED BY <1>1, <1>3, <1>6, <1>7, <1>8, <1>5

LEMMA LeastPosition ==
    ASSUME NEW n \in Nat, NEW K \in SUBSET (1..n), K # {}
    PROVE  \E k \in K : \A l \in K : k <= l
  <1>1. IsFiniteSet(K) /\ Cardinality(K) \in Nat BY NumbersInOrder
  <1>2. 1 \in 1..Cardinality(K)
    <2>1. Cardinality(K) # 0 BY <1>1, FS_EmptySet
    <2> QED BY <1>1, <2>1
  <1>3. PICK k \in K : NumberIn(K, k) = 1 BY <1>2, NumbersInOrder
  <1>4. ASSUME NEW l \in K PROVE k <= l
    <2>1. NumberIn(K, l) \in 1..Cardinality(K) /\ (l < k => NumberIn(K, l) < NumberIn(K, k))
      BY NumbersInOrder
    <2> QED BY <1>1, <1>3, <2>1
  <1> QED BY <1>4

\* What is at some positions of a sequence, in order.
SelectedBy(s, K, at) ==
    /\ Cardinality(K) \in Nat /\ at \in [1..Cardinality(K) -> K]
    /\ Selected(s, K) = [i \in 1..Cardinality(K) |-> s[at[i]]]
    /\ \A i, j \in 1..Cardinality(K) : at[i] = at[j] => i = j
    /\ \A k \in K : \E i \in 1..Cardinality(K) : at[i] = k

LEMMA SelectedAre ==
    ASSUME NEW s, NEW n \in Nat, NEW K \in SUBSET (1..n)
    PROVE  \E at : SelectedBy(s, K, at)
  <1> DEFINE m == Cardinality(K)
             at == [i \in 1..m |-> CHOOSE k \in K : NumberIn(K, k) = i]
  <1>1. m \in Nat BY NumbersInOrder
  <1>2. \A i \in 1..m : at[i] \in K /\ NumberIn(K, at[i]) = i
    <2> SUFFICES ASSUME NEW i \in 1..m PROVE at[i] \in K /\ NumberIn(K, at[i]) = i
      OBVIOUS
    <2>1. \E k \in K : NumberIn(K, k) = i BY NumbersInOrder
    <2> QED BY <2>1
  <1>3. at \in [1..m -> K] BY <1>2
  <1>4. Selected(s, K) = [i \in 1..m |-> s[at[i]]] BY DEF Selected, NumberIn
  <1> HIDE DEF at
  <1>5. \A i, j \in 1..m : at[i] = at[j] => i = j BY <1>2
  <1>6. \A k \in K : \E i \in 1..m : at[i] = k
    <2> SUFFICES ASSUME NEW k \in K PROVE \E i \in 1..m : at[i] = k
      OBVIOUS
    <2>1. NumberIn(K, k) \in 1..m BY NumbersInOrder
    <2>2. \A l \in K : NumberIn(K, l) = NumberIn(K, k) => l = k BY NumbersInOrder
    <2>3. at[NumberIn(K, k)] = k BY <2>1, <2>2, <1>2
    <2> QED BY <2>1, <2>3
  <1> QED BY <1>1, <1>3, <1>4, <1>5, <1>6 DEF SelectedBy

LEMMA RowsMade ==
    ASSUME NEW n \in Nat, NEW s, DOMAIN s = 1..n, s = [i \in 1..n |-> s[i]]
    PROVE  IsRows(s) /\ Len(s) = n
  <1>1. s \in [1..n -> ToSet(s)] BY DEF ToSet
  <1>2. s \in Seq(ToSet(s)) BY <1>1
  <1> QED BY <1>2 DEF IsRows

LEMMA RowsHave ==
    ASSUME NEW s, IsRows(s)
    PROVE  /\ Len(s) \in Nat /\ DOMAIN s = 1..Len(s) /\ s = [i \in 1..Len(s) |-> s[i]]
           /\ ToSet(s) = {s[i] : i \in 1..Len(s)} /\ (s = <<>> <=> Len(s) = 0)
  BY DEF IsRows, ToSet

LEMMA SelectedRows ==
    ASSUME NEW s, NEW n \in Nat, NEW K \in SUBSET (1..n)
    PROVE  IsRows(Selected(s, K)) /\ ToSet(Selected(s, K)) = {s[k] : k \in K}
  <1> DEFINE m == Cardinality(K)
             t == Selected(s, K)
  <1>1. PICK at : SelectedBy(s, K, at) BY SelectedAre
  <1>2. m \in Nat /\ DOMAIN t = 1..m /\ t = [i \in 1..m |-> t[i]] /\ \A i \in 1..m : t[i] = s[at[i]]
    BY <1>1 DEF SelectedBy
  <1>3. IsRows(t)
    <2> HIDE DEF t, m
    <2> QED BY <1>2, RowsMade
  <1>4. ToSet(t) = {s[at[i]] : i \in 1..m}
    <2> HIDE DEF t, m
    <2> QED BY <1>2 DEF ToSet
  <1>5. {s[at[i]] : i \in 1..m} = {s[k] : k \in K}
    <2>1. (\A i \in 1..m : at[i] \in K) /\ \A k \in K : \E i \in 1..m : at[i] = k
      BY <1>1 DEF SelectedBy
    <2> HIDE DEF m
    <2> QED BY <2>1
  <1> QED BY <1>3, <1>4, <1>5

LEMMA Appended ==
    ASSUME NEW s, IsRows(s), NEW e
    PROVE  /\ IsRows(Append(s, e)) /\ Append(s, e) # <<>> /\ Len(Append(s, e)) = Len(s) + 1
           /\ ToSet(Append(s, e)) = ToSet(s) \cup {e}
           /\ Append(s, e)[Len(s) + 1] = e /\ \A i \in 1..Len(s) : Append(s, e)[i] = s[i]
  <1> DEFINE S == ToSet(s) \cup {e}
             t == Append(s, e)
             n == Len(s)
  <1>1. s \in Seq(S)
    <2>1. s \in Seq(ToSet(s)) /\ ToSet(s) \subseteq S BY DEF IsRows
    <2> HIDE DEF S
    <2> QED BY <2>1, SeqMonotonic
  <1>2. e \in S OBVIOUS
  <1>3. n \in Nat /\ ToSet(s) = {s[i] : i \in 1..n} BY RowsHave
  <1>4. /\ t \in Seq(S) /\ Len(t) = n + 1
        /\ t[n + 1] = e /\ \A i \in 1..n : t[i] = s[i]
    <2> HIDE DEF S
    <2> QED BY <1>1, <1>2, AppendProperties
  <1>5. DOMAIN t = 1..(n + 1) /\ t = [i \in 1..(n + 1) |-> t[i]]
    <2> HIDE DEF S, t
    <2> QED BY <1>4
  <1>6. IsRows(t) BY <1>3, <1>5, RowsMade
  <1>7. ToSet(t) = {t[i] : i \in 1..(n + 1)} BY <1>4, <1>6, RowsHave
  <1>8. ToSet(t) = ToSet(s) \cup {e}
    <2> HIDE DEF t, n
    <2>1. \A i \in 1..(n + 1) : i \in 1..n \/ i = n + 1 BY <1>3
    <2>2. \A i \in 1..n : i \in 1..(n + 1) BY <1>3
    <2>3. n + 1 \in 1..(n + 1) BY <1>3
    <2> QED BY <1>3, <1>4, <1>7, <2>1, <2>2, <2>3
  <1>9. t # <<>> BY <1>3, <1>4
  <1> QED BY <1>4, <1>6, <1>8, <1>9

\* What the parties file tells up to a row of it.
LegalUpto(f, n, c) ==
    {<<f.parties[k].role, f.parties[k].number>> :
       k \in {j \in 1..n : f.parties[j].code = c /\ Legal(f.parties[j].number)}}
PersonsUpto(f, n) == {f.parties[k].code : k \in {j \in 1..n : ~Legal(f.parties[j].number)}} \ {NoCode}

\* The index after n rows, without the operations met.
IndexIs(ix, f, n, met) ==
    /\ DOMAIN ix = {"parties", "withheld"} /\ ix.withheld = PersonsUpto(f, n)
    /\ \A c : c \in DOMAIN ix.parties <=> c # NoCode /\ c \notin met /\ LegalUpto(f, n, c) # {}
    /\ \A c \in DOMAIN ix.parties : IsRows(ix.parties[c]) /\ ToSet(ix.parties[c]) = LegalUpto(f, n, c)

LEMMA IndexGrows ==
    ASSUME NEW f, NEW n \in Nat, NEW row, row = f.parties[n + 1]
    PROVE  /\ \A c : LegalUpto(f, n + 1, c) =
                LegalUpto(f, n, c) \cup IF row.code = c /\ Legal(row.number) THEN {<<row.role, row.number>>} ELSE {}
           /\ PersonsUpto(f, n + 1) =
                PersonsUpto(f, n) \cup IF Legal(row.number) THEN {} ELSE {row.code} \ {NoCode}
  <1>1. \A k : k \in 1..(n + 1) <=> k \in 1..n \/ k = n + 1 OBVIOUS
  <1>2. ASSUME NEW c
        PROVE  LegalUpto(f, n + 1, c) =
                LegalUpto(f, n, c) \cup IF row.code = c /\ Legal(row.number) THEN {<<row.role, row.number>>} ELSE {}
    BY <1>1 DEF LegalUpto
  <1>3. PersonsUpto(f, n + 1) =
          PersonsUpto(f, n) \cup IF Legal(row.number) THEN {} ELSE {row.code} \ {NoCode}
    BY <1>1 DEF PersonsUpto
  <1> QED BY <1>2, <1>3

EntriesOf(parties, c) == IF c \in DOMAIN parties THEN ToSet(parties[c]) ELSE {}
OneMoreEntry(new, parties, c, entry) ==
    /\ DOMAIN new = DOMAIN parties \cup {c}
    /\ \A d \in DOMAIN parties \ {c} : new[d] = parties[d]
    /\ IsRows(new[c]) /\ ToSet(new[c]) = EntriesOf(parties, c) \cup {entry}

LEMMA AddedHas ==
    ASSUME NEW parties, NEW c, NEW role, NEW number,
           c \in DOMAIN parties => IsRows(parties[c])
    PROVE  OneMoreEntry(Added(parties, c, role, number), parties, c, <<role, number>>)
  <1> DEFINE entries == IF c \in DOMAIN parties THEN parties[c] ELSE <<>>
             entry   == <<role, number>>
             new     == Added(parties, c, role, number)
             old     == EntriesOf(parties, c)
  <1>1. new = [d \in DOMAIN parties \cup {c} |->
                 IF d # c THEN parties[d]
                 ELSE IF Contains(entries, entry) THEN entries ELSE Append(entries, entry)]
    BY DEF Added
  <1>2. IsRows(entries) /\ ToSet(entries) = old
    <2>1. IsRows(<<>>) /\ ToSet(<<>>) = {}
      <3>1. ToSet(<<>>) = {} BY DEF ToSet
      <3> QED BY <3>1 DEF IsRows
    <2> QED BY <2>1 DEF EntriesOf
  <1> HIDE DEF entries, entry, old, new
  <1>3. CASE Contains(entries, entry)
    <2>1. entry \in ToSet(entries) BY <1>2, <1>3, RowsHave DEF Contains
    <2>2. new[c] = entries BY <1>1, <1>3
    <2> QED BY <1>1, <1>2, <2>1, <2>2 DEF new, old, entry, OneMoreEntry
  <1>4. CASE ~Contains(entries, entry)
    <2>1. new[c] = Append(entries, entry) BY <1>1, <1>4
    <2>2. IsRows(new[c]) /\ ToSet(new[c]) = old \cup {entry} BY <1>2, <2>1, Appended
    <2> QED BY <1>1, <2>2 DEF new, old, entry, OneMoreEntry
  <1> QED BY <1>3, <1>4

\* One more row of the parties file.
LEMMA PartyRowStep ==
    ASSUME PartyRow, next \in Nat \ {0}, IndexIs(index, files, next - 1, {})
    PROVE  IndexIs(index', files, next, {})
  <1> DEFINE row == files.parties[next]
             n == next - 1
  <1>1. n \in Nat /\ n + 1 = next OBVIOUS
  <1>2. /\ index' = IF row.code # NoCode /\ Legal(row.number)
                      THEN [index EXCEPT !.parties = Added(@, row.code, row.role, row.number)]
                      ELSE [index EXCEPT !.withheld = @ \cup ({row.code} \ {NoCode})]
    BY DEF PartyRow
  <1> HIDE DEF row
  <1>3. /\ \A c : LegalUpto(files, next, c) =
             LegalUpto(files, n, c) \cup IF row.code = c /\ Legal(row.number) THEN {<<row.role, row.number>>} ELSE {}
        /\ PersonsUpto(files, next) =
             PersonsUpto(files, n) \cup IF Legal(row.number) THEN {} ELSE {row.code} \ {NoCode}
    <2>1. row = files.parties[n + 1] BY <1>1 DEF row
    <2> HIDE DEF n
    <2> QED BY <1>1, <2>1, IndexGrows
  <1> HIDE DEF n
  <1>4. IndexIs(index, files, n, {}) BY DEF n
  <1>5. CASE row.code # NoCode /\ Legal(row.number)
    <2> DEFINE new == Added(index.parties, row.code, row.role, row.number)
               old == EntriesOf(index.parties, row.code)
    <2>1. /\ DOMAIN index' = {"parties", "withheld"} /\ index'.withheld = index.withheld
          /\ index'.parties = new
      <3> HIDE DEF new
      <3> QED BY <1>2, <1>4, <1>5 DEF IndexIs, new
    <2>2. /\ DOMAIN new = DOMAIN index.parties \cup {row.code}
          /\ \A d \in DOMAIN index.parties \ {row.code} : new[d] = index.parties[d]
          /\ IsRows(new[row.code]) /\ ToSet(new[row.code]) = old \cup {<<row.role, row.number>>}
      <3>1. row.code \in DOMAIN index.parties => IsRows(index.parties[row.code]) BY <1>4 DEF IndexIs
      <3>2. OneMoreEntry(new, index.parties, row.code, <<row.role, row.number>>)
        BY <3>1, AddedHas
      <3> HIDE DEF new
      <3> QED BY <3>2 DEF OneMoreEntry
    <2>3. old = LegalUpto(files, n, row.code) BY <1>4, <1>5 DEF IndexIs, EntriesOf
    <2> HIDE DEF new, old
    <2>4. PersonsUpto(files, next) = PersonsUpto(files, n) BY <1>3, <1>5
    <2>5. \A c : c # row.code => LegalUpto(files, next, c) = LegalUpto(files, n, c) BY <1>3
    <2>6. LegalUpto(files, next, row.code) = old \cup {<<row.role, row.number>>} BY <1>3, <1>5, <2>3
    <2>7. \A c : c \in DOMAIN index'.parties <=> c # NoCode /\ c \notin {} /\ LegalUpto(files, next, c) # {}
      <3> SUFFICES ASSUME NEW c
                   PROVE  c \in DOMAIN index'.parties <=> c # NoCode /\ c \notin {} /\ LegalUpto(files, next, c) # {}
        OBVIOUS
      <3>1. CASE c = row.code BY <1>5, <2>1, <2>2, <2>6, <3>1
      <3>2. CASE c # row.code BY <1>4, <2>1, <2>2, <2>5, <3>2 DEF IndexIs
      <3> QED BY <3>1, <3>2
    <2>8. ASSUME NEW c \in DOMAIN index'.parties
          PROVE  IsRows(index'.parties[c]) /\ ToSet(index'.parties[c]) = LegalUpto(files, next, c)
      <3>1. CASE c = row.code BY <2>1, <2>2, <2>6, <3>1
      <3>2. CASE c # row.code BY <1>4, <2>1, <2>2, <2>5, <2>8, <3>2 DEF IndexIs
      <3> QED BY <3>1, <3>2
    <2>9. index'.withheld = PersonsUpto(files, next) BY <1>4, <2>1, <2>4 DEF IndexIs
    <2> QED BY <2>1, <2>7, <2>8, <2>9 DEF IndexIs
  <1>6. CASE ~(row.code # NoCode /\ Legal(row.number))
    <2>1. /\ DOMAIN index' = {"parties", "withheld"} /\ index'.parties = index.parties
          /\ index'.withheld = index.withheld \cup ({row.code} \ {NoCode})
      BY <1>2, <1>4, <1>6 DEF IndexIs
    <2>2. \A c : c # NoCode => LegalUpto(files, next, c) = LegalUpto(files, n, c) BY <1>3, <1>6
    <2>3. PersonsUpto(files, next) = PersonsUpto(files, n) \cup ({row.code} \ {NoCode}) BY <1>3, <1>6
    <2>4. index'.withheld = PersonsUpto(files, next) BY <1>4, <2>1, <2>3 DEF IndexIs
    <2>5. \A c : c \in DOMAIN index'.parties <=> c # NoCode /\ c \notin {} /\ LegalUpto(files, next, c) # {}
      BY <1>4, <2>1, <2>2 DEF IndexIs
    <2>6. \A c \in DOMAIN index'.parties :
            IsRows(index'.parties[c]) /\ ToSet(index'.parties[c]) = LegalUpto(files, next, c)
      BY <1>4, <2>1, <2>2 DEF IndexIs
    <2> QED BY <2>1, <2>4, <2>5, <2>6 DEF IndexIs
  <1> QED BY <1>5, <1>6

\* What is listed of an operation, by its first row.
FirstOf(f, k) == f.rows[k].code # NoCode /\ \A l \in 1..(k - 1) : f.rows[l].code # f.rows[k].code
PartiesOf(f, k) ==
    IF LegalOf(f.parties, f.rows[k].code) # {} THEN LegalOf(f.parties, f.rows[k].code)
    ELSE {<<"lead", Operation(f.rows[k]).lead>>} \cap ({"lead"} \X LegalNumbers)
TitleOf(f, k) ==
    IF f.rows[k].title = "redacted" \/ \E row \in Rowed(f.parties, f.rows[k].code) : ~Legal(row.number)
    THEN "neutral" ELSE f.rows[k].title
EntryOf(f, k) == <<f.rows[k].code, {<<Public(p[1]), p[2]>> : p \in PartiesOf(f, k)}, TitleOf(f, k)>>
FundsUpto(f, n) == {EntryOf(f, k) : k \in {j \in 1..n : FirstOf(f, j) /\ PartiesOf(f, j) # {}}}
FundsOf(f) == {EntryOf(f, k) : k \in {j \in DOMAIN f.rows : FirstOf(f, j) /\ PartiesOf(f, j) # {}}}
CodesUpto(f, n) == {f.rows[k].code : k \in 1..n} \ {NoCode}

\* An event has legal parties that are organisations, days in order and its lead among them.
EventHolds(e, who) ==
    /\ \A party \in e.parties : Legal(party[2]) /\ party[2] \in who
    /\ e.period[1] <= e.period[2] \/ e.period[2] = 0
    /\ e.lead # NoNumber => <<"beneficiary", e.lead>> \in e.parties
Told(events) == {<<e.id, e.parties, e.title>> : e \in events}

DaysHold(rows) ==
    \A row \in ToSet(rows) : \A i \in {1, 2} : row.start[i] \in Nat /\ row.end[i] \in Nat

LEMMA FundsAreListed == \A f : FundsListed(f) = FundsOf(f)
  <1>1. \A f, k : EntryOf(f, k) =
                  <<f.rows[k].code, {<<Public(p[1]), p[2]>> : p \in PartiesOf(f, k)},
                    IF \/ f.rows[k].title = "redacted"
                       \/ \E row \in Rowed(f.parties, f.rows[k].code) : ~Legal(row.number)
                    THEN "neutral" ELSE f.rows[k].title>>
    BY DEF EntryOf, TitleOf
  <1> QED BY <1>1 DEF FundsListed, FundsOf, FirstOf, PartiesOf

LEMMA FundsAreUpto ==
    ASSUME NEW f, IsRows(f.rows)
    PROVE  FundsOf(f) = FundsUpto(f, Len(f.rows))
  BY RowsHave DEF FundsOf, FundsUpto

LEMMA FundsGrow ==
    ASSUME NEW f, NEW n \in Nat
    PROVE  /\ FundsUpto(f, n + 1) = FundsUpto(f, n) \cup
                IF FirstOf(f, n + 1) /\ PartiesOf(f, n + 1) # {} THEN {EntryOf(f, n + 1)} ELSE {}
           /\ CodesUpto(f, n + 1) = CodesUpto(f, n) \cup ({f.rows[n + 1].code} \ {NoCode})
           /\ FirstOf(f, n + 1) <=> f.rows[n + 1].code # NoCode /\ f.rows[n + 1].code \notin CodesUpto(f, n)
  <1>1. \A k : k \in 1..(n + 1) <=> k \in 1..n \/ k = n + 1 OBVIOUS
  <1>2. FundsUpto(f, n + 1) = FundsUpto(f, n) \cup
          IF FirstOf(f, n + 1) /\ PartiesOf(f, n + 1) # {} THEN {EntryOf(f, n + 1)} ELSE {}
    BY <1>1 DEF FundsUpto
  <1>3. CodesUpto(f, n + 1) = CodesUpto(f, n) \cup ({f.rows[n + 1].code} \ {NoCode})
    BY <1>1 DEF CodesUpto
  <1>4. (n + 1) - 1 = n OBVIOUS
  <1>5. FirstOf(f, n + 1) <=> f.rows[n + 1].code # NoCode /\ f.rows[n + 1].code \notin CodesUpto(f, n)
    BY <1>4 DEF FirstOf, CodesUpto
  <1> QED BY <1>2, <1>3, <1>5

\* All rows of the parties file tell what it lists of a code.
LEMMA WholeIndex ==
    ASSUME NEW f, IsRows(f.parties)
    PROVE  LET n == Len(f.parties)
           IN /\ \A c : LegalUpto(f, n, c) = LegalOf(f.parties, c)
              /\ \A c : c # NoCode => (c \in PersonsUpto(f, n) <=>
                                         \E row \in Rowed(f.parties, c) : ~Legal(row.number))
  <1> DEFINE n == Len(f.parties)
  <1>1. ToSet(f.parties) = {f.parties[k] : k \in 1..n} BY RowsHave
  <1>2. \A c : Rowed(f.parties, c) = {f.parties[k] : k \in {j \in 1..n : f.parties[j].code = c}}
    BY <1>1 DEF Rowed
  <1> HIDE DEF n
  <1>3. ASSUME NEW c PROVE LegalUpto(f, n, c) = LegalOf(f.parties, c)
    BY <1>2 DEF LegalUpto, LegalOf
  <1>4. ASSUME NEW c, c # NoCode
        PROVE  c \in PersonsUpto(f, n) <=> \E row \in Rowed(f.parties, c) : ~Legal(row.number)
    BY <1>2, <1>4 DEF PersonsUpto
  <1> QED BY <1>3, <1>4 DEF n

LEMMA PeriodInOrder ==
    ASSUME NEW start, NEW end, \A i \in {1, 2} : start[i] \in Nat /\ end[i] \in Nat
    PROVE  Period(start, end)[1] <= Period(start, end)[2] \/ Period(start, end)[2] = 0
  <1>1. Actual(start) \in Nat /\ Actual(end) \in Nat BY DEF Actual
  <1> QED BY <1>1 DEF Period

LEMMA OperationHas ==
    ASSUME NEW row, portal.programme \in Programmes,
           \A i \in {1, 2} : row.start[i] \in Nat /\ row.end[i] \in Nat
    PROVE  LET o == Operation(row)
           IN /\ o.code = row.code /\ o.title = row.title
              /\ o.period[1] <= o.period[2] \/ o.period[2] = 0
  <1> DEFINE o == Operation(row)
  <1>1. o.code = row.code /\ o.title = row.title BY DEF Operation
  <1>2. o.period \in {Period(<<0, 0>>, row.end), Period(row.start, row.end), Period(<<row.start[1], 0>>, row.end)}
    BY DEF Operation, Programmes
  <1>3. \A p \in {Period(<<0, 0>>, row.end), Period(row.start, row.end), Period(<<row.start[1], 0>>, row.end)} :
          p[1] <= p[2] \/ p[2] = 0
    <2>1. \A i \in {1, 2} : <<0, 0>>[i] \in Nat /\ <<row.start[1], 0>>[i] \in Nat OBVIOUS
    <2> QED BY <2>1, PeriodInOrder
  <1> QED BY <1>1, <1>2, <1>3

\* The event of an operation, of its parties in a sequence.
IsFunded(e, row, parties, title) ==
    /\ e.id = row.code /\ e.title = title
    /\ e.parties = {<<Public(entry[1]), entry[2]>> : entry \in ToSet(parties)}
    /\ EventHolds(e, {entry[2] : entry \in ToSet(parties)})

LEMMA FundedHolds ==
    ASSUME NEW row, NEW parties, IsRows(parties), NEW title,
           \A entry \in ToSet(parties) : entry = <<entry[1], entry[2]>> /\ Legal(entry[2]),
           row.period[1] <= row.period[2] \/ row.period[2] = 0
    PROVE  IsFunded(FundedEvent(row, parties, title), row, parties, title)
  <1> DEFINE leads == {k \in DOMAIN parties : parties[k][1] = "lead"}
             first == CHOOSE k \in leads : \A l \in leads : k <= l
             e == FundedEvent(row, parties, title)
  <1>1. /\ e.id = row.code /\ e.title = title /\ e.period = row.period
        /\ e.parties = {<<Public(entry[1]), entry[2]>> : entry \in ToSet(parties)}
        /\ e.lead = IF leads = {} THEN NoNumber ELSE parties[first][2]
    BY DEF FundedEvent
  <1>2. ASSUME leads # {} PROVE first \in leads
    <2>1. Len(parties) \in Nat /\ leads \in SUBSET (1..Len(parties)) /\ leads # {} BY <1>2, RowsHave
    <2>2. \E k \in leads : \A l \in leads : k <= l
      <3> HIDE DEF leads
      <3> QED BY <2>1, LeastPosition
    <2> QED BY <2>2
  <1> HIDE DEF e, first
  <1>3. ASSUME leads # {} PROVE <<"beneficiary", parties[first][2]>> \in e.parties
    <2>1. first \in DOMAIN parties /\ parties[first][1] = "lead" BY <1>2, <1>3
    <2>2. parties[first] \in ToSet(parties) BY <2>1 DEF ToSet
    <2>3. Public("lead") = "beneficiary" BY DEF Public
    <2> QED BY <1>1, <2>1, <2>2, <2>3
  <1> HIDE DEF leads
  <1>4. e.lead # NoNumber => <<"beneficiary", e.lead>> \in e.parties BY <1>1, <1>3
  <1>5. \A party \in e.parties : Legal(party[2]) /\ party[2] \in {entry[2] : entry \in ToSet(parties)}
    BY <1>1
  <1> QED BY <1>1, <1>4, <1>5 DEF IsFunded, EventHolds, e

DraftsHold(ds, who, f, n, met) ==
    /\ IsRows(ds) /\ Unrepeated(ds) /\ Told(ToSet(ds)) = FundsUpto(f, n)
    /\ \A e \in ToSet(ds) : EventHolds(e, who) /\ e.id \in met

OperationsHold(ix, met, ds, who, f, n) ==
    /\ met = CodesUpto(f, n) /\ IndexIs(ix, f, Len(f.parties), met)
    /\ DraftsHold(ds, who, f, n, met)

LEMMA OneMoreDraft ==
    ASSUME NEW ds, IsRows(ds), Unrepeated(ds), NEW e, \A x \in ToSet(ds) : x.id # e.id
    PROVE  Unrepeated(Append(ds, e))
  <1> DEFINE t == Append(ds, e)
             n == Len(ds)
  <1>1. n \in Nat /\ DOMAIN ds = 1..n /\ \A k \in 1..n : ds[k] \in ToSet(ds) BY RowsHave DEF ToSet
  <1>2. /\ IsRows(t) /\ Len(t) = n + 1 /\ t[n + 1] = e /\ \A i \in 1..n : t[i] = ds[i]
    BY Appended
  <1>3. DOMAIN t = 1..(n + 1) BY <1>2, RowsHave
  <1> HIDE DEF t, n
  <1>4. \A k \in 1..(n + 1) : k \in 1..n \/ k = n + 1 BY <1>1
  <1>5. ASSUME NEW k \in 1..(n + 1), NEW l \in 1..(n + 1), t[k].id = t[l].id PROVE k = l
    <2>1. CASE k \in 1..n /\ l \in 1..n BY <1>1, <1>2, <1>5, <2>1 DEF Unrepeated
    <2>2. CASE k = n + 1 /\ l \in 1..n BY <1>1, <1>2, <1>5, <2>2
    <2>3. CASE k \in 1..n /\ l = n + 1 BY <1>1, <1>2, <1>5, <2>3
    <2> QED BY <1>4, <2>1, <2>2, <2>3
  <1>6. Unrepeated(t) BY <1>3, <1>5 DEF Unrepeated
  <1> QED BY <1>6 DEF t

LEMMA NoneOrOne ==
    ASSUME NEW x
    PROVE  /\ IsRows(<<>>) /\ ToSet(<<>>) = {}
           /\ IsRows(<<x>>) /\ ToSet(<<x>>) = {x}
  <1>1. ToSet(<<>>) = {} BY DEF ToSet
  <1>2. ToSet(<<x>>) = {x} BY DEF ToSet
  <1>3. <<x>> \in Seq({x}) /\ <<>> \in Seq({}) OBVIOUS
  <1> QED BY <1>1, <1>2, <1>3 DEF IsRows

LEMMA HoldsOfMore ==
    ASSUME NEW e, NEW who, NEW more, EventHolds(e, who), who \subseteq more
    PROVE  EventHolds(e, more)
  BY DEF EventHolds

\* One more row of the operations file.
LEMMA OperationRowStep ==
    ASSUME OperationRow, portal.programme \in Programmes, IsRows(files.parties), IsRows(files.rows),
           DaysHold(files.rows), next \in Nat \ {0},
           OperationsHold(index, seen, drafts, resolved, files, next - 1)
    PROVE  OperationsHold(index', seen', drafts', resolved', files, next)
  <1> DEFINE n == next - 1
             row == Operation(files.rows[next])
             code == files.rows[next].code
             known == row.code \in DOMAIN index.parties
             parties == IF known THEN index.parties[row.code]
                        ELSE IF Legal(row.lead) THEN <<<<"lead", row.lead>>>> ELSE <<>>
             kept == row.code # NoCode /\ row.code \notin seen
             e == FundedEvent(row, parties, Title(row))
  <1>1. /\ n \in Nat /\ n + 1 = next /\ next \in 1..Len(files.rows)
        /\ seen = CodesUpto(files, n) /\ IndexIs(index, files, Len(files.parties), seen)
        /\ DraftsHold(drafts, resolved, files, n, seen)
    BY DEF OperationRow, OperationsHold
  <1>2. /\ seen' = IF row.code = NoCode THEN seen ELSE seen \cup {row.code}
        /\ index' = IF ~kept THEN index
                    ELSE [index EXCEPT !.parties = [c \in DOMAIN @ \ {row.code} |-> @[c]]]
        /\ IF kept /\ parties # <<>>
             THEN drafts' = Append(drafts, e) /\ resolved' = resolved \cup {entry[2] : entry \in ToSet(parties)}
             ELSE UNCHANGED <<drafts, resolved>>
    BY DEF OperationRow
  <1>3. /\ row.code = code /\ row.title = files.rows[next].title
        /\ row.period[1] <= row.period[2] \/ row.period[2] = 0
    <2>1. files.rows[next] \in ToSet(files.rows) BY <1>1, RowsHave
    <2>2. \A i \in {1, 2} : files.rows[next].start[i] \in Nat /\ files.rows[next].end[i] \in Nat
      BY <2>1 DEF DaysHold
    <2> HIDE DEF row
    <2> QED BY <2>2, OperationHas DEF row
  <1>4. /\ FundsUpto(files, next) = FundsUpto(files, n) \cup
             IF FirstOf(files, next) /\ PartiesOf(files, next) # {} THEN {EntryOf(files, next)} ELSE {}
        /\ CodesUpto(files, next) = seen \cup ({code} \ {NoCode})
        /\ FirstOf(files, next) <=> kept
    <2> HIDE DEF n, row
    <2> QED BY <1>1, <1>3, FundsGrow
  <1>5. seen' = CodesUpto(files, next)
    <2> HIDE DEF row, n, code, e, parties
    <2> QED BY <1>2, <1>3, <1>4
  <1>6. /\ \A c : LegalUpto(files, Len(files.parties), c) = LegalOf(files.parties, c)
        /\ \A c : c # NoCode => (c \in PersonsUpto(files, Len(files.parties)) <=>
                                   \E r \in Rowed(files.parties, c) : ~Legal(r.number))
    BY WholeIndex
  <1>7. IndexIs(index', files, Len(files.parties), seen')
    <2> HIDE DEF row, n, code, e, parties
    <2>1. CASE ~kept
      <3>1. index' = index BY <1>2, <2>1
      <3>2. \A c : c \notin seen' /\ c # NoCode <=> c \notin seen /\ c # NoCode BY <1>2, <2>1
      <3> QED BY <1>1, <3>1, <3>2 DEF IndexIs
    <2>2. CASE kept
      <3>1. /\ DOMAIN index' = {"parties", "withheld"} /\ index'.withheld = index.withheld
            /\ index'.parties = [c \in DOMAIN index.parties \ {row.code} |-> index.parties[c]]
        BY <1>1, <1>2, <2>2 DEF IndexIs
      <3>2. seen' = seen \cup {row.code} BY <1>2, <2>2
      <3> QED BY <1>1, <3>1, <3>2 DEF IndexIs
    <2> QED BY <2>1, <2>2
  <1>8. ASSUME kept
        PROVE  /\ IsRows(parties) /\ ToSet(parties) = PartiesOf(files, next)
               /\ \A entry \in ToSet(parties) : entry = <<entry[1], entry[2]>> /\ Legal(entry[2])
               /\ Title(row) = TitleOf(files, next)
    <2>1. known <=> LegalOf(files.parties, code) # {} BY <1>1, <1>3, <1>6, <1>8 DEF IndexIs
    <2>2. \A entry \in LegalOf(files.parties, code) : entry = <<entry[1], entry[2]>> /\ Legal(entry[2])
      BY DEF LegalOf
    <2>3. ASSUME known PROVE IsRows(parties) /\ ToSet(parties) = LegalOf(files.parties, code)
                             /\ PartiesOf(files, next) = LegalOf(files.parties, code)
      <3>1. /\ IsRows(index.parties[row.code])
            /\ ToSet(index.parties[row.code]) = LegalOf(files.parties, code)
        BY <1>1, <1>3, <1>6, <2>3 DEF IndexIs
      <3>2. parties = index.parties[row.code] BY <2>3
      <3>3. PartiesOf(files, next) = LegalOf(files.parties, code) BY <2>1, <2>3 DEF PartiesOf
      <3> HIDE DEF parties
      <3> QED BY <3>1, <3>2, <3>3
    <2>4. ASSUME ~known
          PROVE  /\ IsRows(parties) /\ ToSet(parties) = PartiesOf(files, next)
                 /\ \A entry \in ToSet(parties) : entry = <<entry[1], entry[2]>> /\ Legal(entry[2])
      <3>1. PartiesOf(files, next) = {<<"lead", row.lead>>} \cap ({"lead"} \X LegalNumbers)
        BY <2>1, <2>4 DEF PartiesOf
      <3>2. CASE Legal(row.lead)
        <4>1. parties = <<<<"lead", row.lead>>>> BY <2>4, <3>2
        <4> HIDE DEF parties
        <4>2. IsRows(parties) /\ ToSet(parties) = {<<"lead", row.lead>>}
          <5> HIDE DEF row
          <5> QED BY <4>1, NoneOrOne
        <4>3. PartiesOf(files, next) = {<<"lead", row.lead>>}
          <5> HIDE DEF row
          <5> QED BY <3>1, <3>2 DEF Legal
        <4> HIDE DEF row
        <4> QED BY <3>2, <4>2, <4>3
      <3>3. CASE ~Legal(row.lead)
        <4>1. parties = <<>> BY <2>4, <3>3
        <4> HIDE DEF parties, row
        <4>2. IsRows(parties) /\ ToSet(parties) = {} BY <4>1, NoneOrOne
        <4>3. PartiesOf(files, next) = {} BY <3>1, <3>3 DEF Legal
        <4> QED BY <4>2, <4>3
      <3> QED BY <3>2, <3>3
    <2>5. Title(row) = TitleOf(files, next)
      <3>1. index.withheld = PersonsUpto(files, Len(files.parties)) BY <1>1 DEF IndexIs
      <3> HIDE DEF row
      <3> QED BY <1>3, <1>6, <1>8, <3>1 DEF Title, TitleOf
    <2> HIDE DEF known, parties, row, code
    <2> QED BY <2>2, <2>3, <2>4, <2>5
  <1>9. CASE kept /\ parties # <<>>
    <2>1. /\ drafts' = Append(drafts, e) /\ resolved' = resolved \cup {entry[2] : entry \in ToSet(parties)}
          /\ seen' = seen \cup {code} /\ code \notin seen
      BY <1>2, <1>3, <1>9
    <2>2. /\ e.id = code /\ e.title = TitleOf(files, next)
          /\ e.parties = {<<Public(entry[1]), entry[2]>> : entry \in PartiesOf(files, next)}
          /\ EventHolds(e, {entry[2] : entry \in ToSet(parties)})
      <3>1. IsFunded(e, row, parties, Title(row))
        <4> HIDE DEF row, parties
        <4> QED BY <1>3, <1>8, <1>9, FundedHolds
      <3> HIDE DEF row, parties, e, code
      <3> QED BY <1>3, <1>8, <1>9, <3>1 DEF IsFunded
    <2>3. PartiesOf(files, next) # {}
      <3> HIDE DEF row, parties
      <3>1. Len(parties) # 0 /\ Len(parties) \in Nat BY <1>8, <1>9, RowsHave
      <3>2. parties[1] \in ToSet(parties) BY <1>8, <1>9, <3>1, RowsHave
      <3> QED BY <1>8, <1>9, <3>2
    <2>4. FundsUpto(files, next) = FundsUpto(files, n) \cup {EntryOf(files, next)}
      BY <1>4, <1>9, <2>3
    <2> HIDE DEF e, n, row, parties, code
    <2>5. <<e.id, e.parties, e.title>> = EntryOf(files, next) BY <2>2 DEF EntryOf, code
    <2>6. /\ IsRows(drafts) /\ Unrepeated(drafts) /\ Told(ToSet(drafts)) = FundsUpto(files, n)
          /\ \A x \in ToSet(drafts) : EventHolds(x, resolved) /\ x.id \in seen
      BY <1>1 DEF DraftsHold
    <2>7. IsRows(drafts') /\ ToSet(drafts') = ToSet(drafts) \cup {e} BY <2>1, <2>6, Appended
    <2>8. Unrepeated(drafts')
      <3>1. \A x \in ToSet(drafts) : x.id # e.id BY <2>1, <2>2, <2>6
      <3> QED BY <2>1, <2>6, <3>1, OneMoreDraft
    <2>9. Told(ToSet(drafts')) = FundsUpto(files, next)
      <3>1. Told(ToSet(drafts) \cup {e}) = Told(ToSet(drafts)) \cup {<<e.id, e.parties, e.title>>} BY DEF Told
      <3> QED BY <2>4, <2>5, <2>6, <2>7, <3>1
    <2>10. \A x \in ToSet(drafts') : EventHolds(x, resolved') /\ x.id \in seen'
      <3>1. EventHolds(e, resolved') /\ e.id \in seen' BY <2>1, <2>2, HoldsOfMore
      <3>2. \A x \in ToSet(drafts) : EventHolds(x, resolved') /\ x.id \in seen' BY <2>1, <2>6, HoldsOfMore
      <3> QED BY <2>7, <3>1, <3>2
    <2> QED BY <1>5, <1>7, <2>7, <2>8, <2>9, <2>10 DEF OperationsHold, DraftsHold
  <1>10. CASE ~(kept /\ parties # <<>>)
    <2>1. UNCHANGED <<drafts, resolved>> BY <1>2, <1>10
    <2>2. seen \subseteq seen' BY <1>2
    <2>3. FundsUpto(files, next) = FundsUpto(files, n)
      <3>1. kept => PartiesOf(files, next) = {}
        <4> SUFFICES ASSUME kept PROVE PartiesOf(files, next) = {}
          OBVIOUS
        <4>1. parties = <<>> BY <1>10
        <4>2. ToSet(<<>>) = {} BY DEF ToSet
        <4> HIDE DEF parties, kept
        <4> QED BY <1>8, <4>1, <4>2
      <3> HIDE DEF kept, parties, n
      <3> QED BY <1>4, <3>1
    <2> HIDE DEF row, parties, n, code, e
    <2>4. DraftsHold(drafts', resolved', files, next, seen') BY <1>1, <2>1, <2>2, <2>3 DEF DraftsHold
    <2> QED BY <1>5, <1>7, <2>4 DEF OperationsHold
  <1> QED BY <1>9, <1>10

LEMMA SeqRows ==
    ASSUME NEW S, NEW s \in Seq(S)
    PROVE  IsRows(s)
  <1>1. Len(s) \in Nat /\ DOMAIN s = 1..Len(s) /\ s = [i \in 1..Len(s) |-> s[i]] OBVIOUS
  <1> QED BY <1>1, RowsMade

LEMMA CopiesAreMany ==
    ASSUME NEW rows, IsRows(rows), \A row \in ToSet(rows) : row.repeated \in Nat
    PROVE  Cardinality(Copies(rows)) \in Nat
  <1> DEFINE n == Len(rows)
             of(k) == {k} \X (1..Times(rows[k]))
             S == {of(k) : k \in 1..n}
             at == [k \in 1..n |-> of(k)]
  <1>1. n \in Nat /\ DOMAIN rows = 1..n /\ \A k \in 1..n : rows[k] \in ToSet(rows) BY RowsHave DEF ToSet
  <1>2. \A k \in 1..n : Times(rows[k]) \in Nat BY <1>1 DEF Times
  <1>3. ASSUME NEW k \in 1..n PROVE IsFiniteSet(of(k))
    <2>1. IsFiniteSet({k}) BY FS_Singleton
    <2>2. IsFiniteSet(1..Times(rows[k])) BY <1>2, FS_Interval
    <2> HIDE DEF n
    <2> QED BY <2>1, <2>2, FS_Product
  <1>4. Copies(rows) = UNION S BY <1>1 DEF Copies
  <1> HIDE DEF of
  <1>5. IsFiniteSet(S)
    <2>1. IsFiniteSet(1..n)
      <3> HIDE DEF n
      <3> QED BY <1>1, FS_Interval
    <2>2. at \in [1..n -> S] /\ \A T \in S : \E k \in 1..n : at[k] = T OBVIOUS
    <2> HIDE DEF at, S, n
    <2>3. at \in Surjection(1..n, S) BY <2>2 DEF Surjection
    <2> QED BY <2>1, <2>3, FS_Surjection
  <1>6. \A T \in S : IsFiniteSet(T) BY <1>3
  <1> HIDE DEF S
  <1>7. IsFiniteSet(UNION S) BY <1>5, <1>6, FS_UNION
  <1> QED BY <1>4, <1>7, FS_CardinalityType

LEMMA BelowIsRows ==
    ASSUME NEW rows, IsRows(rows)
    PROVE  IsRows(Below(rows))
  <1> DEFINE heads == {k \in DOMAIN rows : rows[k].kind = "header"}
             first == CHOOSE k \in heads : \A l \in heads : k <= l
             n == Len(rows)
  <1>1. n \in Nat /\ DOMAIN rows = 1..n /\ rows \in Seq(ToSet(rows)) BY RowsHave DEF IsRows
  <1>2. Below(rows) = IF heads = {} THEN <<>> ELSE SubSeq(rows, 1 + first, n) BY DEF Below
  <1>3. CASE heads = {} BY <1>2, <1>3, NoneOrOne
  <1>4. CASE heads # {}
    <2>1. heads \in SUBSET (1..n) BY <1>1
    <2>2. first \in heads
      <3>1. \E k \in heads : \A l \in heads : k <= l
        <4> HIDE DEF heads, n
        <4> QED BY <1>1, <1>4, <2>1, LeastPosition
      <3> QED BY <3>1
    <2>3. first \in 1..n BY <1>1, <2>2
    <2> HIDE DEF first, n, heads
    <2>4. SubSeq(rows, 1 + first, n) \in Seq(ToSet(rows)) BY <1>1, <2>3
    <2> QED BY <1>2, <1>4, <2>4, SeqRows
  <1> QED BY <1>3, <1>4

\* The grants of a list, of legal persons.
GrantsHold(grants) ==
    /\ IsRows(grants)
    /\ \A g \in ToSet(grants) : Legal(g.to) /\ (g.from = NoNumber \/ Legal(g.from))

LEMMA GrantsAre ==
    ASSUME NEW rows, IsRows(rows), \A row \in ToSet(rows) : row.repeated \in Nat
    PROVE  GrantsHold(Grants(rows))
  <1> DEFINE ods == OdsRows(rows)
             below == Below(ods)
             K == {k \in DOMAIN below : below[k].kind = "grant" /\ Legal(below[k].to)}
             kept == Selected(below, K)
             g == Grants(rows)
  <1>1. IsRows(ods)
    <2>1. Cardinality(Copies(rows)) \in Nat BY CopiesAreMany
    <2> DEFINE c == Cardinality(Copies(rows))
    <2>2. DOMAIN ods = 1..c /\ ods = [i \in 1..c |-> ods[i]] BY DEF OdsRows
    <2> HIDE DEF ods, c
    <2> QED BY <2>1, <2>2, RowsMade DEF c
  <1> HIDE DEF ods
  <1>2. IsRows(below) BY <1>1, BelowIsRows
  <1>3. /\ DOMAIN g = DOMAIN kept
        /\ g = [k \in DOMAIN kept |-> g[k]]
        /\ \A k \in DOMAIN kept : /\ g[k].from = IF Legal(kept[k].from) THEN kept[k].from ELSE NoNumber
                                  /\ g[k].to = kept[k].to
    BY DEF Grants, ods
  <1> HIDE DEF g, below
  <1>4. IsRows(kept) /\ ToSet(kept) = {below[k] : k \in K}
    <2>1. Len(below) \in Nat /\ K \in SUBSET (1..Len(below)) BY <1>2, RowsHave
    <2> HIDE DEF K
    <2> QED BY <2>1, SelectedRows
  <1>5. \A row \in ToSet(kept) : Legal(row.to) BY <1>4
  <1> HIDE DEF kept, K
  <1>6. Len(kept) \in Nat /\ DOMAIN kept = 1..Len(kept) /\ ToSet(kept) = {kept[k] : k \in 1..Len(kept)}
    BY <1>4, RowsHave
  <1>7. IsRows(g) BY <1>3, <1>6, RowsMade
  <1>8. \A k \in 1..Len(kept) : Legal(g[k].to) /\ (g[k].from = NoNumber \/ Legal(g[k].from))
    BY <1>3, <1>5, <1>6
  <1>9. ToSet(g) = {g[k] : k \in 1..Len(kept)} BY <1>3, <1>6 DEF ToSet
  <1> QED BY <1>7, <1>8, <1>9 DEF GrantsHold, g

\* The organisations of a list of grants, and its events.
GranteesOf(rows) == UNION {{g.to, g.from} \ {NoNumber} : g \in ToSet(Grants(rows))}
GrantDrafts(rows) == LET grants == Grants(rows)
                     IN [k \in DOMAIN grants |-> GrantEvent(grants[k], Occurrence(grants, k))]

DraftsAre(ds, who) == IsRows(ds) /\ Unrepeated(ds) /\ \A e \in ToSet(ds) : EventHolds(e, who)
IdsOf(events) == {e.id : e \in events}

\* How often a row is in a sequence; the nth of the equal rows is the nth in it.
TimesIn(s, x) == Cardinality({k \in DOMAIN s : s[k] = x})

LEMMA OccurrencesAre ==
    ASSUME NEW s, IsRows(s)
    PROVE  /\ \A k \in DOMAIN s : Occurrence(s, k) \in 1..TimesIn(s, s[k])
           /\ \A k, l \in DOMAIN s : s[k] = s[l] /\ Occurrence(s, k) = Occurrence(s, l) => k = l
           /\ \A x \in ToSet(s) : \A i \in 1..TimesIn(s, x) :
                \E k \in DOMAIN s : s[k] = x /\ Occurrence(s, k) = i
  <1> DEFINE n == Len(s)
             At(x) == {k \in DOMAIN s : s[k] = x}
  <1>1. n \in Nat /\ DOMAIN s = 1..n /\ \A x : At(x) \in SUBSET (1..n) BY RowsHave
  <1>2. ASSUME NEW k \in DOMAIN s PROVE Occurrence(s, k) = NumberIn(At(s[k]), k)
    <2>1. k \in Nat /\ k <= n BY <1>1
    <2>2. {l \in 1..k : s[l] = s[k]} = {l \in At(s[k]) : l <= k}
      <3> HIDE DEF n
      <3> QED BY <1>1, <2>1
    <2> QED BY <2>2 DEF Occurrence, NumberIn
  <1>3. \A k \in DOMAIN s : k \in At(s[k]) OBVIOUS
  <1>4. \A x : \A k \in At(x) : k \in DOMAIN s /\ s[k] = x OBVIOUS
  <1> HIDE DEF At, n
  <1>5. ASSUME NEW x
        PROVE  /\ Cardinality(At(x)) \in Nat
               /\ \A k \in At(x) : NumberIn(At(x), k) \in 1..Cardinality(At(x))
               /\ \A k, l \in At(x) : NumberIn(At(x), k) = NumberIn(At(x), l) => k = l
               /\ \A i \in 1..Cardinality(At(x)) : \E k \in At(x) : NumberIn(At(x), k) = i
    BY <1>1, NumbersInOrder
  <1>6. \A k \in DOMAIN s : Occurrence(s, k) \in 1..Cardinality(At(s[k])) BY <1>2, <1>3, <1>5
  <1>7. \A k, l \in DOMAIN s : s[k] = s[l] /\ Occurrence(s, k) = Occurrence(s, l) => k = l
    <2> SUFFICES ASSUME NEW k \in DOMAIN s, NEW l \in DOMAIN s, s[k] = s[l],
                        Occurrence(s, k) = Occurrence(s, l)
                 PROVE  k = l
      OBVIOUS
    <2>1. k \in At(s[k]) /\ l \in At(s[k]) BY <1>3
    <2>2. NumberIn(At(s[k]), k) = NumberIn(At(s[k]), l) BY <1>2
    <2> QED BY <1>5, <2>1, <2>2
  <1>8. \A x \in ToSet(s) : \A i \in 1..Cardinality(At(x)) :
          \E k \in DOMAIN s : s[k] = x /\ Occurrence(s, k) = i
    BY <1>2, <1>4, <1>5
  <1>9. \A x : TimesIn(s, x) = Cardinality(At(x)) BY DEF At, TimesIn
  <1> QED BY <1>6, <1>7, <1>8, <1>9

LEMMA GrantsListedAre ==
    ASSUME NEW f
    PROVE  \A x : x \in GrantsListed(f) <=>
             \E y \in ToSet(Grants(f.rows)) : \E i \in 1..TimesIn(Grants(f.rows), y) : x = <<y, i>>
  BY DEF GrantsListed, TimesIn

LEMMA GrantEventHas ==
    ASSUME NEW g, NEW n
    PROVE  LET e == GrantEvent(g, n)
           IN /\ e.id = <<g, n>> /\ e.period = <<0, 0>> /\ e.lead = NoNumber
              /\ e.parties = {<<"beneficiary", g.to>>}
                             \cup IF g.from = NoNumber THEN {} ELSE {<<"grantor", g.from>>}
  BY DEF GrantEvent

LEMMA GrantDraftsAre ==
    ASSUME NEW f, GrantsHold(Grants(f.rows))
    PROVE  /\ DraftsAre(GrantDrafts(f.rows), GranteesOf(f.rows))
           /\ IdsOf(ToSet(GrantDrafts(f.rows))) = GrantsListed(f)
  <1> DEFINE g == Grants(f.rows)
             n == Len(g)
             ds == GrantDrafts(f.rows)
             who == GranteesOf(f.rows)
  <1>1. /\ IsRows(g) /\ n \in Nat /\ DOMAIN g = 1..n /\ ToSet(g) = {g[k] : k \in 1..n}
        /\ \A x \in ToSet(g) : Legal(x.to) /\ (x.from = NoNumber \/ Legal(x.from))
    <2> HIDE DEF g
    <2> QED BY RowsHave DEF GrantsHold, g
  <1>2. who = UNION {{x.to, x.from} \ {NoNumber} : x \in ToSet(g)} BY DEF GranteesOf
  <1>3. /\ DOMAIN ds = DOMAIN g /\ ds = [k \in DOMAIN g |-> ds[k]]
        /\ \A k \in DOMAIN g : ds[k] = GrantEvent(g[k], Occurrence(g, k))
    BY DEF GrantDrafts
  <1>4. \A x : x \in GrantsListed(f) <=> \E y \in ToSet(g) : \E i \in 1..TimesIn(g, y) : x = <<y, i>>
    BY GrantsListedAre
  <1>5. /\ \A k \in DOMAIN g : Occurrence(g, k) \in 1..TimesIn(g, g[k])
        /\ \A k, l \in DOMAIN g : g[k] = g[l] /\ Occurrence(g, k) = Occurrence(g, l) => k = l
        /\ \A x \in ToSet(g) : \A i \in 1..TimesIn(g, x) : \E k \in DOMAIN g : g[k] = x /\ Occurrence(g, k) = i
    BY <1>1, OccurrencesAre
  <1> HIDE DEF g, n, ds, who
  <1>6. IsRows(ds) BY <1>1, <1>3, RowsMade
  <1>7. ToSet(ds) = {ds[k] : k \in DOMAIN g} BY <1>3 DEF ToSet
  <1>8. \A k \in DOMAIN g : ds[k].id = <<g[k], Occurrence(g, k)>> BY <1>3, GrantEventHas
  <1>9. Unrepeated(ds) BY <1>3, <1>5, <1>8 DEF Unrepeated
  <1>10. ASSUME NEW e \in ToSet(ds) PROVE EventHolds(e, who)
    <2>1. PICK k \in DOMAIN g : e = GrantEvent(g[k], Occurrence(g, k)) BY <1>3, <1>7
    <2>2. g[k] \in ToSet(g) BY <1>1, <2>1
    <2>3. /\ e.period = <<0, 0>> /\ e.lead = NoNumber
          /\ e.parties = {<<"beneficiary", g[k].to>>}
                         \cup IF g[k].from = NoNumber THEN {} ELSE {<<"grantor", g[k].from>>}
      BY <2>1, GrantEventHas
    <2>4. g[k].to \in who /\ (g[k].from # NoNumber => g[k].from \in who)
      <3>1. g[k].to # NoNumber BY <1>1, <2>2, OpenDataAssumption DEF Legal
      <3> QED BY <1>2, <2>2, <3>1
    <2>5. \A party \in e.parties : Legal(party[2]) /\ party[2] \in who BY <1>1, <2>2, <2>3, <2>4
    <2> QED BY <2>3, <2>5 DEF EventHolds
  <1>11. IdsOf(ToSet(ds)) = GrantsListed(f)
    <2>1. IdsOf(ToSet(ds)) = {ds[k].id : k \in DOMAIN g} BY <1>7 DEF IdsOf
    <2>2. ASSUME NEW x \in GrantsListed(f) PROVE x \in IdsOf(ToSet(ds))
      <3>1. PICK y \in ToSet(g) : \E i \in 1..TimesIn(g, y) : x = <<y, i>> BY <1>4
      <3>2. PICK i \in 1..TimesIn(g, y) : x = <<y, i>> BY <3>1
      <3>3. PICK k \in DOMAIN g : g[k] = y /\ Occurrence(g, k) = i BY <1>5, <3>2
      <3>4. ds[k].id = x BY <1>8, <3>2, <3>3
      <3> QED BY <2>1, <3>4
    <2>3. ASSUME NEW k \in DOMAIN g PROVE ds[k].id \in GrantsListed(f)
      <3>1. g[k] \in ToSet(g) /\ Occurrence(g, k) \in 1..TimesIn(g, g[k]) BY <1>1, <1>5
      <3> QED BY <1>4, <1>8, <3>1
    <2> QED BY <2>1, <2>2, <2>3
  <1> QED BY <1>6, <1>9, <1>10, <1>11 DEF DraftsAre, ds, who

\* The organisations of an archive of contracts, and its events.
PartiesIn(rows) == {party[2] : party \in UNION {LegalParties(c) : c \in ToSet(Contracts(rows))}}
ContractDrafts(rows) == [k \in DOMAIN Contracts(rows) |-> ContractEvent(Contracts(rows)[k])]
PairsOf(events) == {<<e.id, e.parties>> : e \in events}

\* The places of contracts in an archive.
FirstItems(rows) ==
    {k \in DOMAIN rows : /\ rows[k].id # NoCode /\ \A l \in 1..(k - 1) : rows[l].id # rows[k].id
                         /\ LegalParties(rows[k]) # {}}

LEMMA ContractsListedAre ==
    ASSUME NEW f, IsRows(ArrayItems(f.rows))
    PROVE  LET rows == ArrayItems(f.rows)
           IN ContractsListed(f) = {<<rows[k].id, LegalParties(rows[k])>> : k \in FirstItems(rows)}
  <1> DEFINE rows == ArrayItems(f.rows)
             n == Len(rows)
             IsFirst(c, k) == rows[k].id = c /\ \A l \in 1..(k - 1) : rows[l].id # c
             first(c) == CHOOSE k \in DOMAIN rows : IsFirst(c, k)
             ids == {r.id : r \in ToSet(rows)} \ {NoCode}
  <1>1. ContractsListed(f) =
          {<<c, LegalParties(rows[first(c)])>> : c \in {d \in ids : LegalParties(rows[first(d)]) # {}}}
    BY DEF ContractsListed
  <1> HIDE DEF rows
  <1>2. n \in Nat /\ DOMAIN rows = 1..n /\ ToSet(rows) = {rows[k] : k \in 1..n} BY RowsHave DEF rows
  <1> HIDE DEF n
  <1>3. ASSUME NEW c \in ids PROVE first(c) \in DOMAIN rows /\ IsFirst(c, first(c))
    <2> DEFINE K == {k \in 1..n : rows[k].id = c}
    <2>1. K \in SUBSET (1..n) /\ K # {} BY <1>2
    <2>2. PICK k \in K : \A l \in K : k <= l
      <3> HIDE DEF K
      <3> QED BY <1>2, <2>1, LeastPosition
    <2>3. k \in DOMAIN rows /\ IsFirst(c, k)
      <3>1. k \in 1..n /\ rows[k].id = c BY <2>2
      <3>2. ASSUME NEW l \in 1..(k - 1) PROVE rows[l].id # c
        <4>1. l \in 1..n /\ ~(k <= l) BY <1>2, <3>1
        <4> QED BY <2>2, <4>1
      <3> QED BY <1>2, <3>1, <3>2
    <2> QED BY <2>3
  <1>4. ASSUME NEW k \in DOMAIN rows, NEW l \in DOMAIN rows, NEW c, IsFirst(c, k), IsFirst(c, l)
        PROVE  k = l
    <2>1. k \in 1..n /\ l \in 1..n BY <1>2
    <2>2. ~(k \in 1..(l - 1)) /\ ~(l \in 1..(k - 1)) BY <1>4
    <2> QED BY <1>2, <2>1, <2>2
  <1>5. FirstItems(rows) = {k \in DOMAIN rows : rows[k].id # NoCode /\ IsFirst(rows[k].id, k)
                                                /\ LegalParties(rows[k]) # {}}
    BY DEF FirstItems
  <1>6. \A k \in DOMAIN rows : rows[k].id # NoCode => rows[k].id \in ids BY <1>2
  <1>7. \A c \in ids : c # NoCode OBVIOUS
  <1>8. \A c, k : IsFirst(c, k) => rows[k].id = c OBVIOUS
  <1> HIDE DEF ids, first, IsFirst
  <1>9. ASSUME NEW k \in FirstItems(rows) PROVE k = first(rows[k].id) /\ rows[k].id \in ids
    <2>1. k \in DOMAIN rows /\ rows[k].id # NoCode /\ IsFirst(rows[k].id, k) BY <1>5
    <2>2. rows[k].id \in ids BY <1>6, <2>1
    <2> QED BY <1>3, <1>4, <2>1, <2>2
  <1>10. ASSUME NEW c \in ids, LegalParties(rows[first(c)]) # {}
         PROVE  first(c) \in FirstItems(rows) /\ rows[first(c)].id = c
    <2>1. first(c) \in DOMAIN rows /\ IsFirst(c, first(c)) BY <1>3
    <2>2. rows[first(c)].id = c /\ c # NoCode BY <1>7, <1>8, <2>1
    <2> QED BY <1>5, <1>10, <2>1, <2>2
  <1>11. \A k \in FirstItems(rows) : LegalParties(rows[k]) # {} BY <1>5
  <1>12. ContractsListed(f) = {<<rows[k].id, LegalParties(rows[k])>> : k \in FirstItems(rows)}
    BY <1>1, <1>9, <1>10, <1>11
  <1> QED BY <1>12 DEF rows

LEMMA ContractEventHas ==
    ASSUME NEW c
    PROVE  LET e == ContractEvent(c)
           IN /\ e.id = c.id /\ e.parties = LegalParties(c) /\ e.period = <<0, 0>> /\ e.lead = NoNumber
  BY DEF ContractEvent

LEMMA ContractDraftsAre ==
    ASSUME NEW f, IsRows(f.rows)
    PROVE  /\ DraftsAre(ContractDrafts(f.rows), PartiesIn(f.rows))
           /\ PairsOf(ToSet(ContractDrafts(f.rows))) = ContractsListed(f)
  <1> DEFINE rows == ArrayItems(f.rows)
             K == FirstItems(rows)
             cs == Contracts(f.rows)
             ds == ContractDrafts(f.rows)
             who == PartiesIn(f.rows)
             m == Cardinality(K)
  <1>1. IsRows(rows)
    <2> DEFINE J == {k \in DOMAIN f.rows : f.rows[k].id # "]"}
    <2>1. Len(f.rows) \in Nat /\ J \in SUBSET (1..Len(f.rows)) BY RowsHave
    <2>2. rows = Selected(f.rows, J) BY DEF ArrayItems
    <2> HIDE DEF J, rows
    <2> QED BY <2>1, <2>2, SelectedRows
  <1>2. ContractsListed(f) = {<<rows[k].id, LegalParties(rows[k])>> : k \in K}
    BY <1>1, ContractsListedAre
  <1>3. cs = Selected(rows, K) BY DEF Contracts, FirstItems
  <1>4. who = {party[2] : party \in UNION {LegalParties(c) : c \in ToSet(cs)}} BY DEF PartiesIn
  <1>5. DOMAIN ds = DOMAIN cs /\ ds = [k \in DOMAIN cs |-> ds[k]]
        /\ \A k \in DOMAIN cs : ds[k] = ContractEvent(cs[k])
    BY DEF ContractDrafts
  <1> HIDE DEF rows, cs, ds, who
  <1>6. Len(rows) \in Nat /\ K \in SUBSET (1..Len(rows)) BY <1>1, RowsHave DEF FirstItems
  <1>7. \A k, l \in K : rows[k].id = rows[l].id => k = l
    <2> SUFFICES ASSUME NEW k \in K, NEW l \in K, rows[k].id = rows[l].id PROVE k = l
      OBVIOUS
    <2>1. k \in 1..Len(rows) /\ l \in 1..Len(rows) BY <1>6
    <2>2. ~(k \in 1..(l - 1)) /\ ~(l \in 1..(k - 1)) BY DEF FirstItems
    <2> QED BY <1>6, <2>1, <2>2
  <1> HIDE DEF K
  <1>8. PICK at : SelectedBy(rows, K, at) BY <1>6, SelectedAre
  <1>9. /\ m \in Nat /\ DOMAIN cs = 1..m /\ \A i \in 1..m : cs[i] = rows[at[i]] /\ at[i] \in K
        /\ \A i, j \in 1..m : at[i] = at[j] => i = j
        /\ \A k \in K : \E i \in 1..m : at[i] = k
    BY <1>3, <1>8 DEF SelectedBy
  <1> HIDE DEF m
  <1>10. IsRows(ds) BY <1>5, <1>9, RowsMade
  <1>11. ToSet(ds) = {ds[i] : i \in 1..m} /\ ToSet(cs) = {cs[i] : i \in 1..m} BY <1>5, <1>9 DEF ToSet
  <1>12. \A i \in 1..m : ds[i].id = rows[at[i]].id /\ ds[i].parties = LegalParties(rows[at[i]])
    BY <1>5, <1>9, ContractEventHas
  <1>13. Unrepeated(ds)
    <2> SUFFICES ASSUME NEW i \in 1..m, NEW j \in 1..m, ds[i].id = ds[j].id PROVE i = j
      BY <1>5, <1>9 DEF Unrepeated
    <2>1. rows[at[i]].id = rows[at[j]].id BY <1>12
    <2> QED BY <1>7, <1>9, <2>1
  <1>14. ASSUME NEW e \in ToSet(ds) PROVE EventHolds(e, who)
    <2>1. PICK i \in 1..m : e = ContractEvent(cs[i]) /\ cs[i] \in ToSet(cs) BY <1>5, <1>9, <1>11
    <2>2. e.parties = LegalParties(cs[i]) /\ e.period = <<0, 0>> /\ e.lead = NoNumber
      BY <2>1, ContractEventHas
    <2>3. \A party \in LegalParties(cs[i]) : Legal(party[2]) BY DEF LegalParties
    <2>4. \A party \in LegalParties(cs[i]) : party[2] \in who BY <1>4, <2>1
    <2> QED BY <2>2, <2>3, <2>4 DEF EventHolds
  <1>15. PairsOf(ToSet(ds)) = ContractsListed(f)
    <2>1. PairsOf(ToSet(ds)) = {<<rows[at[i]].id, LegalParties(rows[at[i]])>> : i \in 1..m}
      BY <1>11, <1>12 DEF PairsOf
    <2>2. {<<rows[at[i]].id, LegalParties(rows[at[i]])>> : i \in 1..m} =
          {<<rows[k].id, LegalParties(rows[k])>> : k \in K}
      BY <1>9
    <2> QED BY <1>2, <2>1, <2>2
  <1> QED BY <1>10, <1>13, <1>14, <1>15 DEF DraftsAre, ds, who

PortalHolds(p) ==
    /\ DOMAIN p = {"programme", "parties", "funds", "contracts", "grants"}
    /\ p.programme \in Programmes
    /\ IsRows(p.parties) /\ IsRows(p.funds) /\ IsRows(p.contracts) /\ IsRows(p.grants)
    /\ DaysHold(p.funds) /\ \A row \in ToSet(p.grants) : row.repeated \in Nat

NothingRead == /\ files = NoFiles /\ next = 1 /\ index = NoIndex /\ seen = {} /\ drafts = <<>>
               /\ resolved = {}

\* What a run has read, at each of its stages.
RunHolds ==
    /\ PortalHolds(portal) /\ importer \in Importers
    /\ fileStage \in {"idle", "resources", "parties file", "file", "parties", "operations",
                      "scan", "apply", "sync"}
    /\ fileStage \in {"idle", "resources", "parties file", "file"} => NothingRead
    /\ fileStage \in {"parties file", "parties", "operations"} => importer = "funds"
    /\ fileStage \in {"file", "scan", "apply", "sync"} => importer \in {"contracts", "grants"}
PartiesStage ==
    fileStage = "parties" =>
      /\ DOMAIN files = {"parties", "rows"} /\ IsRows(files.parties)
      /\ next \in 1..(Len(files.parties) + 1) /\ IndexIs(index, files, next - 1, {})
      /\ seen = {} /\ drafts = <<>> /\ resolved = {}
OperationsStage ==
    fileStage = "operations" =>
      /\ IsRows(files.parties) /\ IsRows(files.rows) /\ DaysHold(files.rows)
      /\ next \in 1..(Len(files.rows) + 1)
      /\ OperationsHold(index, seen, drafts, resolved, files, next - 1)
SheetStages ==
    fileStage \in {"scan", "apply", "sync"} =>
      /\ IsRows(files.rows)
      /\ importer = "grants" => \A row \in ToSet(files.rows) : row.repeated \in Nat
      /\ fileStage = "apply" => resolved = IF importer = "contracts" THEN PartiesIn(files.rows)
                                           ELSE GranteesOf(files.rows)
      /\ fileStage = "sync" =>
           /\ DraftsAre(drafts, resolved)
           /\ importer = "contracts" => PairsOf(ToSet(drafts)) = ContractsListed(files)
           /\ importer = "grants" => IdsOf(ToSet(drafts)) = GrantsListed(files)
ReadInv == RunHolds /\ PartiesStage /\ OperationsStage /\ SheetStages

\* What is stored is what the files of the last applied run list.
SavedInv ==
    /\ DOMAIN fileEvents = Importers /\ DOMAIN lastFiles = Importers
    /\ Told(fileEvents["funds"]) = FundsOf(lastFiles["funds"])
    /\ IdsOf(fileEvents["grants"]) = GrantsListed(lastFiles["grants"])
    /\ PairsOf(fileEvents["contracts"]) = ContractsListed(lastFiles["contracts"])
    /\ \A i \in Importers : \A e \in fileEvents[i] : EventHolds(e, entities)

LEMMA PortalsHold == \A p \in Portals : PortalHolds(p)
  BY OpenDataAssumption DEF PortalHolds, DaysHold

LEMMA SheetRowsAre ==
    ASSUME NEW sheet, IsRows(sheet)
    PROVE  IsRows(SheetRows(sheet)) /\ ToSet(SheetRows(sheet)) \subseteq ToSet(sheet)
  <1> DEFINE K == {k \in DOMAIN sheet : ~sheet[k].blank}
  <1>1. Len(sheet) \in Nat /\ K \in SUBSET (1..Len(sheet)) /\ ToSet(sheet) = {sheet[k] : k \in 1..Len(sheet)}
    BY RowsHave
  <1>2. SheetRows(sheet) = Selected(sheet, K) BY DEF SheetRows
  <1> HIDE DEF K
  <1>3. IsRows(Selected(sheet, K)) /\ ToSet(Selected(sheet, K)) = {sheet[k] : k \in K}
    BY <1>1, SelectedRows
  <1> QED BY <1>1, <1>2, <1>3

LEMMA ProgrammeStays ==
    ASSUME RunHolds, [OpenNext]_odvars
    PROVE  PortalHolds(portal') /\ portal'.programme = portal.programme
  <1>1. CASE Upload
    <2>1. PICK p \in Portals : portal' = [portal EXCEPT !.funds = p.funds]
      BY <1>1 DEF Upload, OperationFiles
    <2>2. PortalHolds(portal) /\ PortalHolds(p) BY PortalsHold DEF RunHolds
    <2>3. /\ DOMAIN portal' = DOMAIN portal /\ portal'.funds = p.funds
          /\ portal'.programme = portal.programme /\ portal'.parties = portal.parties
          /\ portal'.contracts = portal.contracts /\ portal'.grants = portal.grants
      BY <2>1, <2>2 DEF PortalHolds
    <2> QED BY <2>2, <2>3 DEF PortalHolds
  <1>2. CASE ~Upload
    <2>1. portal' = portal
      BY <1>2 DEF OpenNext, odvars, BeginFiles, SelectResources, Download, DownloadOperations, PartyRow,
         OperationRow, ScanContracts, StreamContracts, ScanGrants, StreamGrants, CommitFiles, RefuseFiles
    <2> QED BY <2>1 DEF RunHolds
  <1> QED BY <1>1, <1>2

LEMMA SameFunds ==
    ASSUME portal'.programme = portal.programme
    PROVE  /\ \A f, n : FundsUpto(f, n)' = FundsUpto(f, n)
           /\ \A f : FundsOf(f)' = FundsOf(f)
  <1>1. \A row : Operation(row)' = Operation(row) BY DEF Operation
  <1>2. \A f, k : PartiesOf(f, k)' = PartiesOf(f, k) BY <1>1 DEF PartiesOf
  <1>3. \A f, k : EntryOf(f, k)' = EntryOf(f, k) BY <1>2 DEF EntryOf
  <1>4. \A f, n : FundsUpto(f, n)' = FundsUpto(f, n) BY <1>2, <1>3 DEF FundsUpto
  <1>5. \A f : FundsOf(f)' = FundsOf(f) BY <1>2, <1>3 DEF FundsOf
  <1> QED BY <1>4, <1>5

LEMMA NothingFound ==
    /\ \A f : IndexIs(NoIndex, f, 0, {})
    /\ \A f : FundsUpto(f, 0) = {} /\ CodesUpto(f, 0) = {}
    /\ DraftsAre(<<>>, {}) /\ ToSet(<<>>) = {}
  <1>1. 1..0 = {} OBVIOUS
  <1>2. \A f, c : LegalUpto(f, 0, c) = {} BY <1>1 DEF LegalUpto
  <1>3. \A f : PersonsUpto(f, 0) = {} BY <1>1 DEF PersonsUpto
  <1>4. \A f : IndexIs(NoIndex, f, 0, {}) BY <1>2, <1>3 DEF IndexIs, NoIndex
  <1>5. \A f : FundsUpto(f, 0) = {} /\ CodesUpto(f, 0) = {} BY <1>1 DEF FundsUpto, CodesUpto
  <1>6. IsRows(<<>>) /\ ToSet(<<>>) = {} BY NoneOrOne
  <1>7. Unrepeated(<<>>) BY DEF Unrepeated
  <1> QED BY <1>4, <1>5, <1>6, <1>7 DEF DraftsAre

LEMMA FirstRead ==
    ASSUME RunHolds, BeginFiles \/ SelectResources \/ Upload \/ CommitFiles \/ RefuseFiles \/ UNCHANGED odvars
    PROVE  RunHolds'
  <1>0. PortalHolds(portal') BY ProgrammeStays DEF OpenNext
  <1>1. importer' = importer
    BY DEF BeginFiles, SelectResources, Upload, CommitFiles, RefuseFiles, odvars
  <1>2. CASE BeginFiles BY <1>0, <1>1, <1>2 DEF BeginFiles, batch, RunHolds, NothingRead
  <1>3. CASE SelectResources BY <1>0, <1>1, <1>3 DEF SelectResources, batch, RunHolds, NothingRead, Importers
  <1>4. CASE Upload BY <1>0, <1>1, <1>4 DEF Upload, batch, RunHolds, NothingRead
  <1>5. CASE CommitFiles \/ RefuseFiles
    BY <1>0, <1>1, <1>5 DEF CommitFiles, RefuseFiles, RunHolds, NothingRead
  <1>6. CASE UNCHANGED odvars BY <1>0, <1>1, <1>6 DEF odvars, batch, RunHolds, NothingRead
  <1> QED BY <1>2, <1>3, <1>4, <1>5, <1>6

LEMMA OtherStages ==
    ASSUME RunHolds, Download \/ DownloadOperations \/ PartyRow \/ OperationRow
                     \/ ScanContracts \/ StreamContracts \/ ScanGrants \/ StreamGrants
    PROVE  RunHolds'
  <1>0. PortalHolds(portal') BY ProgrammeStays DEF OpenNext
  <1>1. importer' = importer
    BY DEF Download, DownloadOperations, PartyRow, OperationRow, ScanContracts, StreamContracts,
           ScanGrants, StreamGrants
  <1>2. CASE Download BY <1>0, <1>1, <1>2 DEF Download, RunHolds
  <1>3. CASE DownloadOperations BY <1>0, <1>1, <1>3 DEF DownloadOperations, RunHolds
  <1>4. CASE PartyRow BY <1>0, <1>1, <1>4 DEF PartyRow, RunHolds
  <1>5. CASE OperationRow BY <1>0, <1>1, <1>5 DEF OperationRow, RunHolds
  <1>6. CASE ScanContracts BY <1>0, <1>1, <1>6 DEF ScanContracts, RunHolds
  <1>7. CASE StreamContracts BY <1>0, <1>1, <1>7 DEF StreamContracts, RunHolds
  <1>8. CASE ScanGrants BY <1>0, <1>1, <1>8 DEF ScanGrants, RunHolds
  <1>9. CASE StreamGrants BY <1>0, <1>1, <1>9 DEF StreamGrants, RunHolds
  <1> QED BY <1>2, <1>3, <1>4, <1>5, <1>6, <1>7, <1>8, <1>9

LEMMA PartiesStep ==
    ASSUME RunHolds, PartiesStage, [OpenNext]_odvars
    PROVE  PartiesStage'
  <1>1. CASE Download
    <2> SUFFICES ASSUME fileStage' = "parties" PROVE PartiesStage'
      BY DEF PartiesStage
    <2>1. files' = [NoFiles EXCEPT !.parties = SheetRows(portal.parties)] /\ fileStage = "parties file"
          /\ UNCHANGED <<next, index, seen, drafts, resolved>>
      BY <1>1 DEF Download
    <2>2. IsRows(SheetRows(portal.parties)) BY SheetRowsAre DEF RunHolds, PortalHolds
    <2>3. DOMAIN files' = {"parties", "rows"} /\ files'.parties = SheetRows(portal.parties) BY <2>1 DEF NoFiles
    <2>4. next' = 1 /\ index' = NoIndex /\ seen' = {} /\ drafts' = <<>> /\ resolved' = {}
      BY <2>1 DEF RunHolds, NothingRead
    <2>5. Len(files'.parties) \in Nat BY <2>2, <2>3, RowsHave
    <2>6. next' \in 1..(Len(files'.parties) + 1) /\ next' - 1 = 0 BY <2>4, <2>5
    <2>7. IndexIs(index', files', next' - 1, {}) BY <2>4, <2>6, NothingFound
    <2> QED BY <2>2, <2>3, <2>4, <2>6, <2>7 DEF PartiesStage
  <1>2. CASE PartyRow
    <2>1. /\ fileStage = "parties" /\ next \in 1..Len(files.parties) /\ next' = next + 1
          /\ UNCHANGED <<files, seen, drafts, resolved>>
          /\ DOMAIN files = {"parties", "rows"} /\ IsRows(files.parties)
          /\ IndexIs(index, files, next - 1, {})
          /\ seen = {} /\ drafts = <<>> /\ resolved = {}
      BY <1>2, RowsHave DEF PartyRow, PartiesStage
    <2>2. Len(files.parties) \in Nat BY <2>1, RowsHave
    <2>3. next \in Nat \ {0} /\ next' - 1 = next /\ next' \in 1..(Len(files.parties) + 1) BY <2>1, <2>2
    <2>4. IndexIs(index', files, next, {}) BY <1>2, <2>1, <2>3, PartyRowStep
    <2> QED BY <2>1, <2>3, <2>4 DEF PartiesStage
  <1>3. CASE Upload \/ UNCHANGED odvars BY <1>3 DEF Upload, odvars, batch, PartiesStage
  <1>4. CASE BeginFiles \/ SelectResources \/ DownloadOperations \/ OperationRow \/ ScanContracts
             \/ StreamContracts \/ ScanGrants \/ StreamGrants \/ CommitFiles \/ RefuseFiles
    <2>1. fileStage' # "parties"
      BY <1>4 DEF BeginFiles, SelectResources, DownloadOperations, OperationRow, ScanContracts,
                  StreamContracts, ScanGrants, StreamGrants, CommitFiles, RefuseFiles
    <2> QED BY <2>1 DEF PartiesStage
  <1> QED BY <1>1, <1>2, <1>3, <1>4 DEF OpenNext

LEMMA OperationsStep ==
    ASSUME RunHolds, PartiesStage, OperationsStage, [OpenNext]_odvars
    PROVE  OperationsStage'
  <1>0. \A f, n : FundsUpto(f, n)' = FundsUpto(f, n) BY ProgrammeStays, SameFunds
  <1>1. CASE DownloadOperations
    <2>1. /\ files' = [files EXCEPT !.rows = SheetRows(portal.funds)] /\ next' = 1
          /\ UNCHANGED <<index, seen, drafts, resolved>>
          /\ ~(next <= Len(files.parties)) /\ fileStage = "parties"
      BY <1>1, RowsHave DEF DownloadOperations, PartiesStage
    <2>2. /\ DOMAIN files = {"parties", "rows"} /\ IsRows(files.parties)
          /\ next \in 1..(Len(files.parties) + 1) /\ IndexIs(index, files, next - 1, {})
          /\ seen = {} /\ drafts = <<>> /\ resolved = {}
      BY <2>1 DEF PartiesStage
    <2>3. Len(files.parties) \in Nat BY <2>2, RowsHave
    <2>4. next - 1 = Len(files.parties) BY <2>1, <2>2, <2>3
    <2>5. files'.parties = files.parties /\ files'.rows = SheetRows(portal.funds) BY <2>1, <2>2
    <2>6. IsRows(files'.rows) /\ DaysHold(files'.rows)
      BY <2>5, SheetRowsAre DEF RunHolds, PortalHolds, DaysHold
    <2>7. Len(files'.rows) \in Nat BY <2>6, RowsHave
    <2>8. next' \in 1..(Len(files'.rows) + 1) /\ next' - 1 = 0 BY <2>1, <2>7
    <2>9. IndexIs(index', files', Len(files'.parties), {})
      BY <2>1, <2>2, <2>4, <2>5 DEF IndexIs, LegalUpto, PersonsUpto
    <2>10. FundsUpto(files', 0) = {} /\ CodesUpto(files', 0) = {} BY NothingFound
    <2>11. IsRows(drafts') /\ Unrepeated(drafts') /\ ToSet(drafts') = {} BY <2>1, <2>2, NothingFound DEF DraftsAre
    <2>12. Told({}) = {} BY DEF Told
    <2>13. FundsUpto(files, next - 1)' = {} BY <1>0, <2>8, <2>10
    <2> QED BY <2>1, <2>2, <2>5, <2>6, <2>8, <2>9, <2>10, <2>11, <2>12, <2>13
            DEF OperationsStage, OperationsHold, DraftsHold
  <1>2. CASE OperationRow
    <2>1. /\ fileStage = "operations" /\ next' = next + 1 /\ UNCHANGED files
          /\ IsRows(files.parties) /\ IsRows(files.rows) /\ DaysHold(files.rows)
          /\ next <= Len(files.rows) /\ next \in 1..(Len(files.rows) + 1)
          /\ OperationsHold(index, seen, drafts, resolved, files, next - 1)
      BY <1>2 DEF OperationRow, OperationsStage
    <2>2. Len(files.rows) \in Nat BY <2>1, RowsHave
    <2>3. next \in Nat \ {0} /\ next' - 1 = next /\ next' \in 1..(Len(files.rows) + 1) BY <2>1, <2>2
    <2>4. portal.programme \in Programmes BY DEF RunHolds, PortalHolds
    <2>5. OperationsHold(index', seen', drafts', resolved', files, next)
      BY <1>2, <2>1, <2>3, <2>4, OperationRowStep
    <2>6. FundsUpto(files, next - 1)' = FundsUpto(files, next) BY <1>0, <2>1, <2>3
    <2> QED BY <2>1, <2>3, <2>5, <2>6 DEF OperationsStage, OperationsHold, DraftsHold
  <1>3. CASE Upload
    <2>1. fileStage' = fileStage /\ fileStage # "operations" BY <1>3 DEF Upload
    <2> QED BY <2>1 DEF OperationsStage
  <1>4. CASE UNCHANGED odvars BY <1>0, <1>4 DEF odvars, batch, OperationsStage, OperationsHold, DraftsHold
  <1>5. CASE BeginFiles \/ SelectResources \/ Download \/ PartyRow \/ ScanContracts
             \/ StreamContracts \/ ScanGrants \/ StreamGrants \/ CommitFiles \/ RefuseFiles
    <2>1. fileStage' # "operations"
      BY <1>5 DEF BeginFiles, SelectResources, Download, PartyRow, ScanContracts,
                  StreamContracts, ScanGrants, StreamGrants, CommitFiles, RefuseFiles
    <2> QED BY <2>1 DEF OperationsStage
  <1> QED BY <1>1, <1>2, <1>3, <1>4, <1>5 DEF OpenNext

LEMMA SheetsStep ==
    ASSUME RunHolds, SheetStages, [OpenNext]_odvars
    PROVE  SheetStages'
  <1>1. CASE Download
    <2> SUFFICES ASSUME fileStage' \in {"scan", "apply", "sync"} PROVE SheetStages'
      BY DEF SheetStages
    <2>1. /\ files' = [NoFiles EXCEPT !.rows = portal[importer]] /\ fileStage' = "scan"
          /\ fileStage = "file" /\ importer' = importer
      BY <1>1 DEF Download
    <2>2. importer \in {"contracts", "grants"} BY <2>1 DEF RunHolds
    <2>3. files'.rows = portal[importer] BY <2>1 DEF NoFiles
    <2>4. IsRows(files'.rows) BY <2>2, <2>3 DEF RunHolds, PortalHolds
    <2>5. importer = "grants" => \A row \in ToSet(files'.rows) : row.repeated \in Nat
      BY <2>3 DEF RunHolds, PortalHolds
    <2> QED BY <2>1, <2>4, <2>5 DEF SheetStages
  <1>2. CASE ScanContracts
    <2>1. /\ fileStage = "scan" /\ importer = "contracts" /\ fileStage' = "apply" /\ UNCHANGED <<files, importer>>
          /\ resolved' = PartiesIn(files.rows)
      BY <1>2 DEF ScanContracts, PartiesIn
    <2> QED BY <2>1 DEF SheetStages
  <1>3. CASE ScanGrants
    <2>1. /\ fileStage = "scan" /\ importer = "grants" /\ fileStage' = "apply" /\ UNCHANGED <<files, importer>>
          /\ resolved' = GranteesOf(files.rows)
      BY <1>3 DEF ScanGrants, GranteesOf
    <2> QED BY <2>1 DEF SheetStages
  <1>4. CASE StreamContracts
    <2>1. /\ fileStage = "apply" /\ importer = "contracts" /\ fileStage' = "sync"
          /\ UNCHANGED <<files, importer, resolved>> /\ drafts' = ContractDrafts(files.rows)
      BY <1>4 DEF StreamContracts, ContractDrafts
    <2>2. IsRows(files.rows) /\ resolved = PartiesIn(files.rows) BY <2>1 DEF SheetStages
    <2>3. DraftsAre(drafts', resolved') /\ PairsOf(ToSet(drafts')) = ContractsListed(files')
      BY <2>1, <2>2, ContractDraftsAre
    <2> QED BY <2>1, <2>2, <2>3 DEF SheetStages
  <1>5. CASE StreamGrants
    <2>1. /\ fileStage = "apply" /\ importer = "grants" /\ fileStage' = "sync"
          /\ UNCHANGED <<files, importer, resolved>> /\ drafts' = GrantDrafts(files.rows)
      BY <1>5 DEF StreamGrants, GrantDrafts
    <2>2. /\ IsRows(files.rows) /\ resolved = GranteesOf(files.rows)
          /\ \A row \in ToSet(files.rows) : row.repeated \in Nat
      BY <2>1 DEF SheetStages
    <2>3. GrantsHold(Grants(files.rows)) BY <2>2, GrantsAre
    <2>4. DraftsAre(drafts', resolved') /\ IdsOf(ToSet(drafts')) = GrantsListed(files')
      BY <2>1, <2>2, <2>3, GrantDraftsAre
    <2> QED BY <2>1, <2>2, <2>4 DEF SheetStages
  <1>6. CASE Upload \/ UNCHANGED odvars BY <1>6 DEF Upload, odvars, batch, SheetStages
  <1>7. CASE BeginFiles \/ SelectResources \/ DownloadOperations \/ PartyRow \/ OperationRow
             \/ CommitFiles \/ RefuseFiles
    <2>1. fileStage' \notin {"scan", "apply", "sync"}
      BY <1>7 DEF BeginFiles, SelectResources, DownloadOperations, PartyRow, OperationRow,
                  CommitFiles, RefuseFiles, RunHolds
    <2> QED BY <2>1 DEF SheetStages
  <1> QED BY <1>1, <1>2, <1>3, <1>4, <1>5, <1>6, <1>7 DEF OpenNext

LEMMA ReadStep ==
    ASSUME ReadInv, [OpenNext]_odvars
    PROVE  ReadInv'
  <1>1. RunHolds' BY FirstRead, OtherStages DEF ReadInv, OpenNext
  <1>2. PartiesStage' /\ OperationsStage' /\ SheetStages'
    BY PartiesStep, OperationsStep, SheetsStep DEF ReadInv
  <1> QED BY <1>1, <1>2 DEF ReadInv

\* What is handed over holds, and is what its files list.
LEMMA DraftsListed ==
    ASSUME ReadInv, CommitFiles
    PROVE  /\ \A e \in ToSet(drafts) : EventHolds(e, resolved)
           /\ importer = "funds" => Told(ToSet(drafts)) = FundsOf(files)
           /\ importer = "grants" => IdsOf(ToSet(drafts)) = GrantsListed(files)
           /\ importer = "contracts" => PairsOf(ToSet(drafts)) = ContractsListed(files)
  <1>1. CASE fileStage = "operations"
    <2>1. /\ IsRows(files.rows) /\ next \in 1..(Len(files.rows) + 1) /\ importer = "funds"
          /\ OperationsHold(index, seen, drafts, resolved, files, next - 1)
      BY <1>1 DEF ReadInv, OperationsStage, RunHolds
    <2>2. Len(files.rows) \in Nat /\ next > Len(files.rows) BY <1>1, <2>1, RowsHave DEF CommitFiles, FilesRead
    <2>3. next - 1 = Len(files.rows) BY <2>1, <2>2
    <2> QED BY <2>1, <2>3, FundsAreUpto DEF OperationsHold, DraftsHold
  <1>2. CASE fileStage = "sync"
    <2>1. importer # "funds" BY <1>2 DEF ReadInv, RunHolds
    <2> QED BY <1>2, <2>1 DEF ReadInv, SheetStages, DraftsAre
  <1> QED BY <1>1, <1>2 DEF CommitFiles, FilesRead

LEMMA SavedStep ==
    ASSUME ReadInv, SavedInv, [OpenNext]_odvars
    PROVE  SavedInv'
  <1>0. \A f : FundsOf(f)' = FundsOf(f) BY ProgrammeStays, SameFunds DEF ReadInv
  <1>1. CASE CommitFiles
    <2>1. /\ fileEvents' = [fileEvents EXCEPT ![importer] = ToSet(drafts)]
          /\ lastFiles' = [lastFiles EXCEPT ![importer] = files]
          /\ entities' = entities \cup resolved /\ importer \in Importers
      BY <1>1 DEF CommitFiles, ReadInv, RunHolds
    <2>2. DOMAIN fileEvents' = Importers /\ DOMAIN lastFiles' = Importers BY <2>1 DEF SavedInv
    <2>3. \A i \in Importers : fileEvents'[i] = IF i = importer THEN ToSet(drafts) ELSE fileEvents[i]
      BY <2>1 DEF SavedInv
    <2>4. \A i \in Importers : lastFiles'[i] = IF i = importer THEN files ELSE lastFiles[i]
      BY <2>1 DEF SavedInv
    <2>5. "funds" \in Importers /\ "grants" \in Importers /\ "contracts" \in Importers BY DEF Importers
    <2>6. /\ \A e \in ToSet(drafts) : EventHolds(e, resolved)
          /\ importer = "funds" => Told(ToSet(drafts)) = FundsOf(files)
          /\ importer = "grants" => IdsOf(ToSet(drafts)) = GrantsListed(files)
          /\ importer = "contracts" => PairsOf(ToSet(drafts)) = ContractsListed(files)
      BY <1>1, DraftsListed
    <2>7. Told(fileEvents'["funds"]) = FundsOf(lastFiles'["funds"])
      BY <2>3, <2>4, <2>5, <2>6 DEF SavedInv
    <2>8. FundsOf(lastFiles["funds"])' = FundsOf(lastFiles'["funds"]) BY <1>0
    <2>9. IdsOf(fileEvents'["grants"]) = GrantsListed(lastFiles'["grants"])
      BY <2>3, <2>4, <2>5, <2>6 DEF SavedInv
    <2>10. PairsOf(fileEvents'["contracts"]) = ContractsListed(lastFiles'["contracts"])
      BY <2>3, <2>4, <2>5, <2>6 DEF SavedInv
    <2>11. ASSUME NEW i \in Importers, NEW e \in fileEvents'[i] PROVE EventHolds(e, entities')
      <3>1. CASE i = importer
        <4>1. EventHolds(e, resolved) BY <2>3, <2>6, <2>11, <3>1
        <4> QED BY <2>1, <4>1, HoldsOfMore
      <3>2. CASE i # importer
        <4>1. EventHolds(e, entities) BY <2>3, <2>11, <3>2 DEF SavedInv
        <4> QED BY <2>1, <4>1, HoldsOfMore
      <3> QED BY <3>1, <3>2
    <2> QED BY <2>2, <2>7, <2>8, <2>9, <2>10, <2>11 DEF SavedInv
  <1>2. CASE ~CommitFiles
    <2>1. UNCHANGED <<fileEvents, entities, lastFiles>>
      BY <1>2 DEF OpenNext, odvars, saved, BeginFiles, SelectResources, Download, DownloadOperations, Upload,
         PartyRow, OperationRow, ScanContracts, StreamContracts, ScanGrants, StreamGrants, RefuseFiles
    <2>2. FundsOf(lastFiles["funds"])' = FundsOf(lastFiles["funds"]) BY <1>0, <2>1
    <2> QED BY <2>1, <2>2 DEF SavedInv
  <1> QED BY <1>1, <1>2

LEMMA OpenInvInit ==
    ASSUME OpenInit
    PROVE  ReadInv /\ SavedInv
  <1>1. ReadInv
    BY PortalsHold DEF OpenInit, ReadInv, RunHolds, PartiesStage, OperationsStage, SheetStages, NothingRead
  <1>2. NoFiles.parties = <<>> /\ NoFiles.rows = <<>> BY DEF NoFiles
  <1>3. FundsOf(NoFiles) = {}
    <2>1. IsRows(NoFiles.rows) /\ Len(NoFiles.rows) = 0 BY <1>2, NoneOrOne
    <2> QED BY <2>1, FundsAreUpto, NothingFound
  <1>4. GrantsListed(NoFiles) = {}
    <2> DEFINE g == Grants(NoFiles.rows)
    <2>1. Below(OdsRows(<<>>)) = <<>>
      <3>1. Copies(<<>>) = {} BY DEF Copies
      <3>2. Cardinality({}) = 0 BY FS_EmptySet
      <3>3. DOMAIN OdsRows(<<>>) = 1..Cardinality(Copies(<<>>)) BY DEF OdsRows
      <3>4. DOMAIN OdsRows(<<>>) = {} BY <3>1, <3>2, <3>3
      <3> QED BY <3>4 DEF Below
    <2>2. DOMAIN Selected(<<>>, {}) = {}
      <3>1. Cardinality({}) = 0 BY FS_EmptySet
      <3> QED BY <3>1 DEF Selected
    <2>3. DOMAIN g = {}
      <3> DEFINE below == Below(OdsRows(<<>>))
                 K == {k \in DOMAIN below : below[k].kind = "grant" /\ Legal(below[k].to)}
      <3>1. DOMAIN g = DOMAIN Selected(below, K) BY <1>2 DEF Grants
      <3>2. K = {} BY <2>1
      <3> HIDE DEF g, K, below
      <3> QED BY <2>1, <2>2, <3>1, <3>2 DEF below
    <2> HIDE DEF g
    <2>4. ToSet(g) = {} BY <2>3 DEF ToSet
    <2>5. \A x : x \in GrantsListed(NoFiles) => \E y \in ToSet(g) : TRUE BY GrantsListedAre DEF g
    <2> QED BY <2>4, <2>5
  <1>5. ContractsListed(NoFiles) = {}
    <2> DEFINE rows == ArrayItems(NoFiles.rows)
    <2>1. rows = Selected(<<>>, {}) BY <1>2 DEF ArrayItems
    <2>2. IsRows(rows) /\ ToSet(rows) = {}
      <3>1. {} \in SUBSET (1..0) OBVIOUS
      <3>2. IsRows(Selected(<<>>, {})) /\ ToSet(Selected(<<>>, {})) = {<<>>[k] : k \in {}} BY <3>1, SelectedRows
      <3> QED BY <2>1, <3>2
    <2>3. DOMAIN rows = {}
      <3> HIDE DEF rows
      <3> QED BY <2>2 DEF ToSet
    <2>4. FirstItems(rows) = {}
      <3> HIDE DEF rows
      <3> QED BY <2>3 DEF FirstItems
    <2>5. ContractsListed(NoFiles) = {<<rows[k].id, LegalParties(rows[k])>> : k \in FirstItems(rows)}
      BY <2>2, ContractsListedAre
    <2> HIDE DEF rows
    <2> QED BY <2>4, <2>5
  <1>6. \A i \in Importers : fileEvents[i] = {} /\ lastFiles[i] = NoFiles BY DEF OpenInit
  <1>7. "funds" \in Importers /\ "grants" \in Importers /\ "contracts" \in Importers BY DEF Importers
  <1>8. Told({}) = {} /\ IdsOf({}) = {} /\ PairsOf({}) = {} BY DEF Told, IdsOf, PairsOf
  <1>9. DOMAIN fileEvents = Importers /\ DOMAIN lastFiles = Importers BY DEF OpenInit
  <1>10. SavedInv BY <1>3, <1>4, <1>5, <1>6, <1>7, <1>8, <1>9 DEF SavedInv
  <1> QED BY <1>1, <1>10

LEMMA OpenInvFaithful ==
    ASSUME ReadInv, SavedInv
    PROVE  OpenDataIsFaithful
  <1>1. FilesRead => Unrepeated(drafts)
    BY DEF FilesRead, ReadInv, OperationsStage, SheetStages, OperationsHold, DraftsHold, DraftsAre
  <1>2. \A e \in UNION {fileEvents[i] : i \in Importers} : EventHolds(e, entities) BY DEF SavedInv
  <1>3. Told(fileEvents["funds"]) = FundsListed(lastFiles["funds"]) BY FundsAreListed DEF SavedInv
  <1> QED BY <1>1, <1>2, <1>3 DEF OpenDataIsFaithful, SavedInv, EventHolds, Told, IdsOf, PairsOf

\* Whatever files the portal publishes and replaces, each scope holds what the files of its
\* last applied run list, of legal persons alone.
THEOREM FilesStayFaithful == OpenSpec => []OpenDataIsFaithful
  <1>1. OpenInit => ReadInv /\ SavedInv BY OpenInvInit
  <1>2. ReadInv /\ SavedInv /\ [OpenNext]_odvars => (ReadInv /\ SavedInv)' BY ReadStep, SavedStep
  <1>3. ReadInv /\ SavedInv => OpenDataIsFaithful BY OpenInvFaithful
  <1> QED BY <1>1, <1>2, <1>3, PTL DEF OpenSpec
=============================================================================
