---------------------------- MODULE Observations ----------------------------
(***************************************************************************)
(* Scoped snapshots of official passages and the claims they publish       *)
(* (core/enrichment.py): a collector reads the source and the identities,  *)
(* and a later transaction applies the whole snapshot against whatever     *)
(* reviewers, editors and identity reviews have written meanwhile.         *)
(*                                                                         *)
(* Each write holds the editorial lock for its whole transaction, so it is *)
(* one step.  A passage is one revision of one source entry; its claim has *)
(* the one evidence row the import created for it.                         *)
(***************************************************************************)
EXTENDS Naturals, FiniteSets

CONSTANTS
    Passages,        \* (scope, external_id, revision)
    Info,            \* what the source says in each passage
    Scopes, Days,
    Prefixed,        \* scopes under the prefix of the complete run over many scopes
    Biographies,     \* member:<id>:<legislature> scopes of ar_registo_biografico
    Convertible,     \* passages a reviewer may convert by hand
    Touchable,       \* claims, sources and profiles editors save: a bound of the instances
    Legacy,          \* date of the shared biography scope an old importer left
    Identifiers,             \* identifiers of the subjects
    People, Bodies,  \* profiles
    Exts, Srcs, NoEntity, None

Ents == People \cup Bodies

InfoType == [scope : Scopes, ext : Exts, subject : Identifiers, object : Bodies, source : Srcs,
             named : BOOLEAN,       \* only a name, no official identifier
             complete : BOOLEAN]    \* a known kind, compatible parties and their names

ASSUME ObservationsAssumption ==
    /\ Info \in [Passages -> InfoType] /\ Days \subseteq Nat \ {0} /\ Legacy \in [Scopes -> Nat]
    /\ Prefixed \subseteq Scopes /\ Biographies \subseteq Scopes
    /\ Convertible \subseteq Passages /\ NoEntity \notin Ents
    /\ \A p \in Passages : Info[p].scope \in Biographies => ~Info[p].named

VARIABLES
    row,        \* SourceObservation with its Relationship and Evidence
    holder,     \* SourceIdentity: the profile of each identifier
    used,       \* frozen identities
    shown,      \* profiles with is_public
    source,     \* Source rows with is_public
    synced,     \* SourceSyncState
    fetched,    \* the snapshot a collector holds and the identities it read
    pulled,     \* history: claims whose last review was a withdrawal
    edited,     \* history: claims whose facts an editor wrote
    listed      \* history: the passages the last snapshot of each scope listed

vars == <<row, holder, used, shown, source, synced, fetched, pulled, edited, listed>>

\* A published claim was approved by the import or by a reviewer (reviewed_by).
Published == {"auto", "reviewed"}
RowType == [exists : BOOLEAN, current : BOOLEAN, resolved : BOOLEAN, evidence : BOOLEAN,
            claim : {"none", "draft", "rejected"} \cup Published, on : Ents \cup {NoEntity}]
Snapshot == [lists : SUBSET Passages, covers : SUBSET Scopes, whole : BOOLEAN, day : Days,
             holder : [Identifiers -> Ents \cup {NoEntity}]]

TypeOK ==
    /\ row \in [Passages -> RowType]
    /\ \A p \in Passages :
         /\ row[p].claim # "none" => row[p].exists /\ row[p].on # NoEntity
         /\ row[p].evidence => row[p].claim # "none"
         /\ row[p].current => row[p].exists
    /\ holder \in [Identifiers -> Ents \cup {NoEntity}]
    /\ used \subseteq Identifiers /\ shown \subseteq Ents /\ source \subseteq Srcs
    /\ synced \in [Scopes -> Days \cup {0}] /\ fetched \in Snapshot \cup {None}
    /\ pulled \subseteq Passages /\ edited \subseteq Passages
    /\ listed \in [Scopes -> SUBSET Passages]

Init ==
    /\ row = [p \in Passages |-> [exists |-> FALSE, current |-> FALSE, resolved |-> FALSE,
                                  evidence |-> FALSE, claim |-> "none", on |-> NoEntity]]
    /\ holder \in [Identifiers -> Ents \cup {NoEntity}] /\ used = {}
    /\ shown = Ents /\ source = Srcs
    /\ synced = [sc \in Scopes |-> 0] /\ fetched = None /\ pulled = {} /\ edited = {}
    /\ listed = [sc \in Scopes |-> {}]

InScope(sc) == {p \in Passages : Info[p].scope = sc}
SameEntry(p) == {q \in InScope(Info[p].scope) : Info[q].ext = Info[p].ext}

-----------------------------------------------------------------------------
(* Collecting *)

\* The identities a collector reads from the database for the passages of P.
Official(P) == {Info[p].subject : p \in {q \in P : ~Info[q].named}}

\* A complete read of one scope, or of every scope of a run over a prefix.
Collect(lists, covers, whole, day) ==
    /\ fetched = None
    /\ IF whole THEN covers \subseteq Prefixed ELSE \E sc \in Scopes : covers = {sc}
    /\ \A p \in lists : Info[p].scope \in covers /\ SameEntry(p) \cap lists = {p}
    /\ \A i \in Official(lists) : holder[i] # NoEntity
    /\ fetched' = [lists |-> lists, covers |-> covers, whole |-> whole, day |-> day,
                   holder |-> [i \in Identifiers |-> IF i \in Official(lists) THEN holder[i]
                                             ELSE NoEntity]]
    /\ UNCHANGED <<row, holder, used, shown, source, synced, pulled, edited, listed>>

\* The run stops, or its transaction is refused.
Abandon ==
    /\ fetched # None /\ fetched' = None
    /\ UNCHANGED <<row, holder, used, shown, source, synced, pulled, edited, listed>>

-----------------------------------------------------------------------------
(* Applying *)

\* The scopes a snapshot speaks for: under a prefix, also the known ones it does not name.
Covered(x) ==
    x.covers \cup {sc \in Prefixed : /\ x.whole
                                     /\ \/ synced[sc] # 0
                                        \/ \E p \in InScope(sc) : row[p].current}

\* mutant: the snapshot is not compared with the last one.
AnySnapshot(x) == TRUE

UpToDate(x) == \A sc \in Covered(x) : x.day >= synced[sc] /\ x.day >= Legacy[sc]

\* _fresh_identity: the mapping the collector read still stands.
Fresh(x) == \A i \in Official(x.lists) : holder[i] = x.holder[i]

\* mutant: a claim in any status becomes a draft.
DraftAll(x) == [x EXCEPT !.claim = "draft"]

\* invalidate_relationships.
Invalidated(x) == [x EXCEPT !.claim = IF @ \in Published THEN "draft" ELSE @]

\* mutant: what a source no longer says keeps its approval.
RetiredQuietly(x) == [x EXCEPT !.current = FALSE]

\* _withdraw.
Retired(x) == [Invalidated(x) EXCEPT !.current = FALSE, !.evidence = FALSE]

\* The stored passage once a snapshot lists it: new, returning or still there.
Present(x) ==
    IF ~x.exists THEN [x EXCEPT !.exists = TRUE, !.current = TRUE]
    ELSE IF ~x.current THEN [Retired(x) EXCEPT !.current = TRUE]
    ELSE x

\* mutant: a withdrawal counts only for the same revision.
BarredRevision(p) == row[p].claim = "rejected"

\* An editor withdrew some revision of the entry, or the same biography entry of the same
\* person in another legislature.
Barred(p) ==
    \/ \E q \in SameEntry(p) : row[q].claim = "rejected"
    \/ /\ Info[p].scope \in Biographies
       /\ \E q \in Passages :
            /\ Info[q].scope \in Biographies /\ Info[q].ext = Info[p].ext
            /\ row[q].claim = "rejected"
            /\ holder[Info[q].subject] = holder[Info[p].subject]

\* The passages of a snapshot whose claim is published or created.
Settled(x) == {p \in x.lists : Info[p].complete /\ ~Barred(p)}

\* Name-only subjects that get their profile now: a corroborated namesake or a new one.
Resolving(x) == {Info[p].subject : p \in {q \in Settled(x) : Info[q].named}}
Resolves(x) ==
    \E f \in [Identifiers -> People] :
        holder' = [i \in Identifiers |-> IF i \in Resolving(x) /\ holder[i] = NoEntity THEN f[i]
                                 ELSE holder[i]]

\* publish_imported: only drafts, with public endpoints; _make_public saw to the citation.
AutoPublished(x, object) ==
    [x EXCEPT !.claim = IF @ = "draft" /\ {x.on, object} \subseteq shown THEN "auto" ELSE @]

\* _publish_new, and the republication of a claim that was a draft when the sync read the
\* stored rows: a published one that returns has become a draft since, and waits for the next
\* sync; a reviewer's rejection stands.
Claimed(x, p) ==
    IF row[p].claim = "none"
    THEN AutoPublished([x EXCEPT !.claim = "draft", !.evidence = TRUE,
                                 !.on = holder'[Info[p].subject]], Info[p].object)
    ELSE IF row[p].claim = "draft"
    THEN AutoPublished([x EXCEPT !.evidence = TRUE], Info[p].object)
    ELSE x

\* mutant: the revision that another one replaces is left current.
GoneEntry(x, p) == Info[p].scope \in Covered(x) /\ row[p].current /\ SameEntry(p) \cap x.lists = {}

\* A stored passage that is current and that the snapshot does not list, whether another
\* revision took its place or its entry is gone.
Ceases(x, p) == Info[p].scope \in Covered(x) /\ row[p].current /\ p \notin x.lists

\* Claims this snapshot creates, and those whose citation it makes public.
Creates(x) == {p \in Settled(x) : row[p].claim = "none"}
Cites(x)   == {p \in Settled(x) : row[p].claim \in {"none", "draft"}}

\* mutant: name-only subjects are not frozen.
FreezeOfficial(x) ==
    used' = used \cup Official(x.lists)

\* The identities a claim rests on are frozen with every other of the same profiles.
Freeze(x) ==
    used' = used \cup Official(x.lists)
                 \cup {i \in Identifiers : \E p \in Creates(x) : holder'[i] = holder'[Info[p].subject]}
                 \cup {i \in Identifiers : \E p \in Creates(x) : holder'[i] = Info[p].object}

\* sync_observations and sync_scoped_snapshot.
Apply ==
    /\ fetched # None
    /\ UpToDate(fetched) /\ Fresh(fetched)
    /\ Resolves(fetched)
    /\ row' = [p \in Passages |->
                 IF p \in Settled(fetched)
                 THEN Claimed([Present(row[p]) EXCEPT !.resolved = TRUE], p)
                 ELSE IF p \in fetched.lists
                 THEN [Present(row[p]) EXCEPT !.resolved = @ \/ ~Info[p].named]
                 ELSE IF Ceases(fetched, p) THEN Retired(row[p])
                 ELSE row[p]]
    /\ Freeze(fetched)
    /\ source' = source \cup {Info[p].source : p \in Cites(fetched)}
    /\ synced' = [sc \in Scopes |-> IF sc \in Covered(fetched) THEN fetched.day ELSE synced[sc]]
    /\ listed' = [sc \in Scopes |-> IF sc \in Covered(fetched) THEN fetched.lists \cap InScope(sc)
                                    ELSE listed[sc]]
    /\ fetched' = None
    /\ UNCHANGED <<shown, pulled, edited>>

-----------------------------------------------------------------------------
(* Reviewers and editors *)

Stored(p) == row[p].claim # "none"

\* publish_relationship.
Publish(p) ==
    /\ Stored(p) /\ row[p].claim \notin Published
    /\ row[p].evidence /\ Info[p].source \in source /\ {row[p].on, Info[p].object} \subseteq shown
    /\ row' = [row EXCEPT ![p].claim = "reviewed"]
    /\ pulled' = pulled \ {p}
    /\ UNCHANGED <<holder, used, shown, source, synced, fetched, edited, listed>>

\* withdraw_relationship.
Withdraw(p) ==
    /\ Stored(p) /\ row[p].claim # "rejected"
    /\ row' = [row EXCEPT ![p].claim = "rejected"]
    /\ pulled' = pulled \cup {p}
    /\ UNCHANGED <<holder, used, shown, source, synced, fetched, edited, listed>>

\* Relationship.save of other facts, the subject's profile included.
EditClaim(p, e) ==
    /\ Stored(p)
    /\ row' = [row EXCEPT ![p] = [Invalidated(row[p]) EXCEPT !.on = e]]
    /\ edited' = edited \cup {p}
    /\ UNCHANGED <<holder, used, shown, source, synced, fetched, pulled, listed>>

\* Evidence.save with the other visibility.
SaveEvidence(p) ==
    /\ Stored(p)
    /\ row' = [row EXCEPT ![p] = [Invalidated(row[p]) EXCEPT !.evidence = ~@]]
    /\ UNCHANGED <<holder, used, shown, source, synced, fetched, pulled, edited, listed>>

\* convert_observation of a passage still listed: the subject of an identified passage is
\* its profile, of a named one the reviewer's choice.
Convert(p, e) ==
    /\ p \in Convertible /\ row[p].current
    /\ row[p].resolved => e = holder[Info[p].subject]
    /\ row' = [row EXCEPT ![p] = [@ EXCEPT !.claim = "draft", !.evidence = FALSE, !.on = e]]
    /\ edited' = edited \cup {p}
    /\ UNCHANGED <<holder, used, shown, source, synced, fetched, pulled, listed>>

\* Source.save with the other visibility.
SaveSource(s) ==
    /\ source' = IF s \in source THEN source \ {s} ELSE source \cup {s}
    /\ row' = [p \in Passages |-> IF Info[p].source = s THEN Invalidated(row[p]) ELSE row[p]]
    /\ UNCHANGED <<holder, used, shown, synced, fetched, pulled, edited, listed>>

\* Entity.save with the other visibility.
SaveEntity(e) ==
    /\ shown' = IF e \in shown THEN shown \ {e} ELSE shown \cup {e}
    /\ row' = [p \in Passages |-> IF e \in {row[p].on, Info[p].object} THEN Invalidated(row[p])
                                  ELSE row[p]]
    /\ UNCHANGED <<holder, used, source, synced, fetched, pulled, edited, listed>>

-----------------------------------------------------------------------------
(* Identities *)

\* accept_suggestion, or an importer that anchors a new profile.
MoveIdentity(i, e) ==
    /\ i \notin used /\ holder[i] # e
    /\ holder' = [holder EXCEPT ![i] = e]
    /\ UNCHANGED <<row, used, shown, source, synced, fetched, pulled, edited, listed>>

\* _merge_identity of two public people: claims and identifiers move.
MergeIdentity(a, b) ==
    /\ a # b /\ {a, b} \subseteq shown
    /\ holder' = [i \in Identifiers |-> IF holder[i] = a THEN b ELSE holder[i]]
    /\ row' = [p \in Passages |-> [row[p] EXCEPT !.on = IF @ = a THEN b ELSE @]]
    /\ shown' = shown \ {a}
    /\ UNCHANGED <<used, source, synced, fetched, pulled, edited, listed>>

-----------------------------------------------------------------------------
Import == \/ \E covers \in (SUBSET Prefixed) \cup {{sc} : sc \in Scopes}, day \in Days :
                \E lists \in SUBSET {p \in Passages : Info[p].scope \in covers} :
                  \E whole \in BOOLEAN : Collect(lists, covers, whole, day)
          \/ Apply \/ Abandon

Review == \/ \E p \in Passages : Publish(p) \/ Withdraw(p)
          \/ \E p \in Passages, e \in People : Convert(p, e)

Edit == \/ \E p \in Passages \cap Touchable, e \in People : EditClaim(p, e)
        \/ \E p \in Passages \cap Touchable : SaveEvidence(p)
        \/ \E s \in Srcs \cap Touchable : SaveSource(s)
        \/ \E e \in Ents \cap Touchable : SaveEntity(e)

Identify == \/ \E i \in Identifiers, e \in Ents : MoveIdentity(i, e)
            \/ \E a, b \in People : MergeIdentity(a, b)

Next == Import \/ Review \/ Edit \/ Identify

Spec == Init /\ [][Next]_vars

-----------------------------------------------------------------------------
(* Properties *)

\* What an import published is listed, in that very revision, by the last snapshot of its
\* scope: changed, absent and absent-scope passages never keep an automatic approval.
AutoIsListed == \A p \in Passages : row[p].claim = "auto" => p \in listed[Info[p].scope]

\* At most one revision of a source entry is current (source_observation_current).
OneCurrentRevision ==
    \A p \in Passages : row[p].current => \A q \in SameEntry(p) : row[q].current => q = p

\* An import's claim is about the profile that its passage's identifier stands for, through
\* every identity review and merge.
ClaimsFollowIdentity ==
    \A p \in Passages : Stored(p) /\ p \notin edited => row[p].on = holder[Info[p].subject]

\* The same entry, or the same biography entry of the same person in another legislature.
Kin(p, q) ==
    \/ q \in SameEntry(p)
    \/ /\ {Info[p].scope, Info[q].scope} \subseteq Biographies /\ Info[p].ext = Info[q].ext
       /\ holder[Info[p].subject] = holder[Info[q].subject]

\* No import publishes a claim whose last review was a withdrawal, or another revision of
\* the entry, or the same biography entry of the same person in another legislature.
WithdrawalsHold ==
    [][\A p \in Passages :
         row'[p].claim = "auto" /\ row[p].claim # "auto" => \A q \in pulled : ~Kin(p, q)]_vars

\* An editorial withdrawal blocks automatic republication (docs/methodology.md).
WithdrawnStaysOut ==
    [][\A p \in pulled : row'[p].claim = "auto" => row[p].claim = "auto"]_vars

\* Older snapshots never replace newer ones.
NewestStands == [][\A sc \in Scopes : synced'[sc] >= synced[sc]]_vars
=============================================================================
