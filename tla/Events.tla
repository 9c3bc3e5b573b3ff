------------------------------- MODULE Events -------------------------------
(***************************************************************************)
(* Official dated records between parties (core/events.py), the derived    *)
(* summaries of the public ones (core/event_summaries.py), and every write *)
(* elsewhere that moves them: an entity's or a source's visibility         *)
(* (core/models.py), the identity an official identifier stands for and    *)
(* the merge of two identities (core/identity.py).                         *)
(*                                                                         *)
(* One dataset.  Each write holds the editorial lock for its whole         *)
(* transaction, so it is one step, whatever the number of batches.         *)
(***************************************************************************)
EXTENDS Naturals, FiniteSets

CONSTANTS
    Records, Scopes, Days,
    Ents, Ids,       \* profiles; identifiers a source gives the parties of its records
    Anchors,         \* the identifiers of anchor_schemes
    Contents,        \* [parties : SUBSET (Ids \cup {Unresolved}), amount : Nat]
    Srcs, Unresolved, NoEntity

ASSUME EventsAssumption ==
    /\ Anchors \subseteq Ids /\ Days \subseteq Nat \ {0}
    /\ NoEntity \notin Ents /\ Unresolved \notin Ids
    /\ \A c \in Contents : /\ c.parties \subseteq Ids \cup {Unresolved} /\ c.parties # {}
                          /\ c.amount \in Nat

VARIABLES
    event,      \* the row of each record
    holder,     \* the entity each identifier stands for: SourceIdentity
    used,       \* identifiers whose SourceIdentity is frozen
    shown,      \* entities with is_public
    source,     \* the dataset's Source rows
    summary,    \* EventEntitySummary and EventPairSummary rows, per entity
    listed,     \* history: records the snapshots of each scope last listed
    latest      \* history: date of the snapshot last applied to each scope

vars == <<event, holder, used, shown, source, summary, listed, latest>>

Party    == [id : Ids \cup {Unresolved}, entity : Ents \cup {NoEntity}]
Statuses == {"absent", "draft", "published", "ceased", "withdrawn"}
Current  == {"draft", "published"}
EventType == [status : Statuses, scope : Scopes, parties : SUBSET Party, amount : Nat,
              source : Srcs, day : Days \cup {0}]
SourceType == [exists : BOOLEAN, public : BOOLEAN, listed : BOOLEAN]

\* What one event adds to the rows of one of its parties: the party's own row and one
\* for each counterpart.
SummaryType == [event : Records, amount : Nat, counterpart : Ents]

TypeOK ==
    /\ event \in [Records -> EventType]
    /\ holder \in [Ids -> Ents \cup {NoEntity}]
    /\ used \subseteq Anchors /\ shown \subseteq Ents
    /\ source \in [Srcs -> SourceType]
    /\ summary \in [Ents -> SUBSET SummaryType]
    /\ listed \in [Scopes -> SUBSET Records] /\ latest \in [Scopes -> Days \cup {0}]

Init ==
    /\ \E sc \in Scopes, s \in Srcs :
         event = [r \in Records |-> [status |-> "absent", scope |-> sc, parties |-> {},
                                     amount |-> 0, source |-> s, day |-> 0]]
    /\ holder = [i \in Ids |-> NoEntity] /\ used = {} /\ shown = Ents
    /\ source = [s \in Srcs |-> [exists |-> FALSE, public |-> FALSE, listed |-> FALSE]]
    /\ summary = [e \in Ents |-> {}]
    /\ listed = [sc \in Scopes |-> {}] /\ latest = [sc \in Scopes |-> 0]

-----------------------------------------------------------------------------
(* Visibility and summaries *)

EntitiesOf(x) == {p.entity : p \in x.parties} \ {NoEntity}

\* public_events: the single visibility rule.
PublicEvent(r) ==
    /\ event[r].status = "published" /\ source[event[r].source].public
    /\ \A p \in event[r].parties : p.entity \in shown

\* The rows a rebuild inserts for e, from the events that are public now.
Aggregate(e) ==
    {[event |-> q[1], amount |-> event[q[1]].amount, counterpart |-> q[2]] :
        q \in {p \in Records \X Ents : /\ PublicEvent(p[1])
                                       /\ {e, p[2]} \subseteq EntitiesOf(event[p[1]])}}

\* rebuild_event_summaries for the entities in E.
Rebuild(E) == summary' = [e \in Ents |-> IF e \in E THEN Aggregate(e)' ELSE summary[e]]

\* mutant: only the hidden entity's own rows are rebuilt.
JustThem(E) == E

\* co_party_entities: E and everyone who shares an event with one of E, in any status.
CoParties(E) ==
    E \cup UNION {EntitiesOf(event[r]) : r \in {q \in Records : EntitiesOf(event[q]) \cap E # {}}}

-----------------------------------------------------------------------------
(* Snapshots *)

\* An item's parties as the importer resolves them.
Resolved(c) ==
    {[id |-> i, entity |-> IF i \in Ids THEN holder[i] ELSE NoEntity] : i \in c.parties}

Anchored(e) == \E i \in Anchors : holder[i] = e

\* _publishable: public entities with an official identifier.
AllPublishable(P) == \A p \in P : p.entity \in shown /\ Anchored(p.entity)

\* mutant: withdrawn records fall under the rule for listed ones.
SeenAgain(r, c, sc, s, day) ==
    [status |-> IF AllPublishable(Resolved(c)) THEN "published" ELSE "draft",
     scope |-> sc, parties |-> Resolved(c), amount |-> c.amount, source |-> s, day |-> day]

\* What the record r becomes when a snapshot of scope sc lists it with content c.
Seen(r, c, sc, s, day) ==
    IF event[r].status = "withdrawn" THEN [event[r] EXCEPT !.day = day]
    ELSE [status |-> IF AllPublishable(Resolved(c)) THEN "published" ELSE "draft",
          scope |-> sc, parties |-> Resolved(c), amount |-> c.amount,
          source |-> s, day |-> day]

\* A listed record whose row is written anew, and one that only changes its state.
Written(r, x) ==
    /\ event[r].status # "withdrawn"
    /\ \/ event[r].status = "absent"
       \/ event[r].parties # x.parties \/ event[r].amount # x.amount
       \/ event[r].scope # x.scope \/ event[r].source # x.source
Flipped(r, x) ==
    /\ event[r].status # "withdrawn" /\ ~Written(r, x)
    /\ (event[r].status = "published") # (x.status = "published")

\* mutant: only drafts cease.
CeasingDrafts(sc, items) ==
    {r \in Records \ DOMAIN items : event[r].scope = sc /\ event[r].status = "draft"}

\* Current records of the scope that the snapshot no longer lists.
Ceasing(sc, items) ==
    {r \in Records \ DOMAIN items : event[r].scope = sc /\ event[r].status \in Current}

\* dataset_source: a row that still matches the catalogue and no claim cites, the lowest
\* of their random keys if there are several, or else a new public one.
DatasetSource(s) ==
    \/ source[s].exists /\ source[s].listed /\ UNCHANGED source
    \/ /\ ~\E t \in Srcs : source[t].exists /\ source[t].listed
       /\ ~source[s].exists
       /\ source' = [source EXCEPT ![s] = [exists |-> TRUE, public |-> TRUE, listed |-> TRUE]]

\* Entities whose rows the snapshot may move: old and new parties of written events, the
\* parties of flipped ones and of published ones that cease.
Touched(sc, items) ==
    LET D == {r \in DOMAIN items : Written(r, event'[r])}
        F == {r \in DOMAIN items : Flipped(r, event'[r])}
        C == {r \in Ceasing(sc, items) : event[r].status = "published"}
    IN  (UNION {EntitiesOf(event[r]) : r \in D \cup F \cup C})
          \cup (UNION {EntitiesOf(event'[r]) : r \in D})

\* mutant: a flipped event's anchors are not frozen.
ReliedWritten(items) ==
    UNION {EntitiesOf(event'[r]) : r \in {q \in DOMAIN items : Written(q, event'[q])}}

\* Entities a written, flipped or still published event rests on.
Relied(items) ==
    UNION {EntitiesOf(event'[r]) :
             r \in {q \in DOMAIN items : \/ Written(q, event'[q]) \/ Flipped(q, event'[q])
                                         \/ event'[q].status = "published"}}

\* mutant: identifiers that are no anchors are frozen too.
FreezeAll(E) == used' = used \cup {i \in Ids : holder[i] \in E}

Freeze(E) == used' = used \cup {i \in Anchors : holder[i] \in E}

\* The snapshot's date against the rows of its scope.
NotOlder(sc, day) == \A r \in Records : event[r].status # "absent" /\ event[r].scope = sc
                                           => event[r].day <= day

\* sync_events: a complete snapshot, or a partial one, of scope sc as of a day.
SyncEvents(sc, items, day, complete) ==
    /\ NotOlder(sc, day)
    /\ \E s \in Srcs :
         /\ DatasetSource(s)
         /\ event' = [r \in Records |->
                        IF r \in DOMAIN items THEN Seen(r, items[r], sc, s, day)
                        ELSE IF complete /\ r \in Ceasing(sc, items)
                        THEN [event[r] EXCEPT !.status = "ceased", !.day = day]
                        ELSE event[r]]
    /\ UNCHANGED <<holder, shown>>
    /\ Freeze(Relied(items))
    /\ Rebuild(Touched(sc, items))
    /\ listed' = [listed EXCEPT ![sc] = IF complete THEN DOMAIN items ELSE @ \cup DOMAIN items]
    /\ latest' = [latest EXCEPT ![sc] = day]

\* withdraw_event, once.
WithdrawEvent(r) ==
    /\ event[r].status \notin {"absent", "withdrawn"}
    /\ event' = [event EXCEPT ![r].status = "withdrawn"]
    /\ UNCHANGED <<holder, used, shown, source, listed, latest>>
    /\ Rebuild(IF event[r].status = "published" THEN EntitiesOf(event[r]) ELSE {})

-----------------------------------------------------------------------------
(* Visibility *)

\* Entity.save with the other visibility.
SaveEntity(e) ==
    /\ shown' = IF e \in shown THEN shown \ {e} ELSE shown \cup {e}
    /\ UNCHANGED <<event, holder, used, source, listed, latest>>
    /\ Rebuild(CoParties({e}))

\* mutant: hiding a source leaves the derived rows.
SourceMovesNone(s, x) == {}

\* Entities whose rows the source's visibility may move: all of its dataset.
SourceMoves(s, x) == IF x.public # source[s].public THEN Ents ELSE {}

\* Source.save: its visibility, or metadata that no longer match the catalogue.
SaveSource(s, x) ==
    /\ source[s].exists /\ x.exists
    /\ source' = [source EXCEPT ![s] = x]
    /\ UNCHANGED <<event, holder, used, shown, listed, latest>>
    /\ Rebuild(SourceMoves(s, x))

-----------------------------------------------------------------------------
(* Identities *)

\* SourceIdentity.save and .delete: an editor or an importer gives an identifier to
\* another entity, or to none; a used one is immutable.
MoveIdentity(i, e) ==
    /\ i \notin used /\ holder[i] # e
    /\ holder' = [holder EXCEPT ![i] = e]
    /\ UNCHANGED <<event, used, shown, source, summary, listed, latest>>

\* mutant: event parties are left with the hidden shell.
StaysPut(x, a, b) == x

\* The parties of x once b stands for a.
Moved(x, a, b) ==
    [x EXCEPT !.parties = {[p EXCEPT !.entity = IF @ = a THEN b ELSE @] : p \in @}]

\* _merge_identity, the only move of a used identifier; which public profiles are one
\* person is the reconciliation plan's to say, any two here.
MergeIdentity(removed, retained) ==
    /\ removed # retained /\ {removed, retained} \subseteq shown
    /\ holder' = [i \in Ids |-> IF holder[i] = removed THEN retained ELSE holder[i]]
    /\ event' = [r \in Records |-> Moved(event[r], removed, retained)]
    /\ shown' = shown \ {removed}
    /\ UNCHANGED <<used, source, listed, latest>>
    /\ Rebuild(CoParties({removed, retained}))

-----------------------------------------------------------------------------
Snapshots == UNION {[R -> Contents] : R \in SUBSET Records}

Sync == \E sc \in Scopes, items \in Snapshots, day \in Days, complete \in BOOLEAN :
           SyncEvents(sc, items, day, complete)

Edit == \/ \E r \in Records : WithdrawEvent(r)
        \/ \E e \in Ents : SaveEntity(e)
        \/ \E s \in Srcs, x \in SourceType : SaveSource(s, x)

Identify == \/ \E i \in Ids, e \in Ents \cup {NoEntity} : MoveIdentity(i, e)
            \/ \E a, b \in Ents : MergeIdentity(a, b)

Next == Sync \/ Edit \/ Identify

Spec == Init /\ [][Next]_vars

-----------------------------------------------------------------------------
(* Properties *)

\* The derived rows hold exactly what public_events() yields, whichever of the six kinds
\* of write moved an event, a party, an entity, a source or an identity.
SummariesExact == \A e \in Ents : summary[e] = Aggregate(e)

\* A record its own scope's last complete snapshot left out is not published, even after
\* it moved between scopes.
AbsentIsNotPublished ==
    \A r \in Records : event[r].status = "published" => r \in listed[event[r].scope]

\* No import, review or merge parts an event from the person or body its official
\* identifier stands for.
PartiesAreIdentified ==
    \A r \in Records : \A p \in event[r].parties :
        p.id \in Anchors /\ p.entity # NoEntity => holder[p.id] = p.entity

\* A published event keeps an official identifier for each of its parties.
PublishedIsAnchored ==
    \A r \in Records : event[r].status = "published" =>
        \A p \in event[r].parties : Anchored(p.entity)

\* What a reader sees of the parties of an event stands on official identifiers: each is
\* whom its identifier stands for, and nobody published is known by name alone.
PartiesStand == PartiesAreIdentified /\ PublishedIsAnchored

\* Later imports never republish or modify a withdrawn event.
WithdrawnIsFinal ==
    [][\A r \in Records : event[r].status = "withdrawn" =>
          /\ event'[r].status = "withdrawn" /\ event'[r].amount = event[r].amount
          /\ {p.id : p \in event'[r].parties} = {p.id : p \in event[r].parties}]_vars

\* Older snapshots cannot replace newer ones (docs/architecture.md).
NewestStands == [][\A sc \in Scopes : latest'[sc] >= latest[sc]]_vars
=============================================================================
