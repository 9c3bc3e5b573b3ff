----------------------------- MODULE PublicBodies -----------------------------
(***************************************************************************)
(* sioe.py: the register of public bodies is read by paged searches and    *)
(* one history per organisation, with retries, a renewed session and a     *)
(* cache from which a later run resumes, while the register changes; the   *)
(* complete or partial snapshot then anchors organisations and replaces    *)
(* the claims of their supervision, succession and boards.  Reviewers give *)
(* codes and NIPCs to entities meanwhile.                                  *)
(***************************************************************************)
EXTENDS Integers, Sequences, FiniteSets

CONSTANTS
    BodyRegisters,              \* what SIOE may publish: entries of organisations by code
    BodyTypes, KindOfType,      \* entity types, and the kind each stands for
    BodyKind, HigherKind,       \* an organisation's kind; a university's
    NoNipc, FirstAnchors,       \* what was known: entities by SIOE code and by NIPC
    OtherEntities,              \* organisations that this importer did not create
    Reviewable,                 \* schemes and identifiers that a reviewer may record
    Governments,                \* governments imported from elsewhere
    SearchPage,                 \* entries of a page
    MaxAttempts, HistoryLimits, \* NoLimit or how many histories a rehearsal reads
    NoLimit, MaxSnapshots, MaxRegisterChanges, MaxIdentityReviews \* bounds of the instance

VARIABLES
    bodies,                     \* the register now
    crawl,                      \* the run of the command
    received,                   \* responses of this run, by request
    cached,                     \* responses kept under this reference date
    versions,                   \* history: registers published since the oldest response was made
    anchorOf, nipcOf,           \* SourceIdentity: entity by SIOE code and by NIPC
    relied,                     \* schemes and identifiers that claims rely on
    kindOf,                     \* kind of the entities this importer created
    structure, boards,          \* current claims of each scope
    lastSnapshot,               \* history: the snapshot applied last, and the scopes before it
    registerChanges, snapshots, identityReviews \* counters of the bounds

collecting == <<crawl, received, cached>>
identities == <<anchorOf, nipcOf, relied>>
anchored   == <<identities, kindOf, structure, boards, lastSnapshot>>
bodyVars   == <<bodies, collecting, versions, anchored, registerChanges, snapshots, identityReviews>>

\* Codes are numbers in the order of the register.
ASSUME BodyAssumption ==
    /\ SearchPage \in Nat \ {0} /\ BodyTypes \cap {"universe", "history"} = {}
    /\ \A reg \in BodyRegisters : DOMAIN reg \subseteq Nat /\ IsFiniteSet(DOMAIN reg)

NewEntity(c) == <<"sioe", c>>
NewEntities == {NewEntity(c) : c \in UNION {DOMAIN reg : reg \in BodyRegisters}}

\* Before the first import this importer has created no entity.
ASSUME AnchorAssumption ==
    /\ OtherEntities \cap NewEntities = {}
    /\ \A c \in DOMAIN FirstAnchors.sioe : FirstAnchors.sioe[c] \in OtherEntities
    /\ \A n \in DOMAIN FirstAnchors.nipc : FirstAnchors.nipc[n] \in OtherEntities

NotRunning == [on |-> FALSE, cache |-> FALSE, limit |-> NoLimit, attempt |-> 0, renewed |-> FALSE]
NotApplied == [organisations |-> {}]

BodiesInit ==
    /\ bodies \in BodyRegisters /\ versions = {bodies} /\ crawl = NotRunning
    /\ received = <<>> /\ cached = <<>> /\ kindOf = <<>> /\ structure = <<>> /\ boards = <<>>
    /\ anchorOf = FirstAnchors.sioe /\ nipcOf = FirstAnchors.nipc /\ relied = {}
    /\ lastSnapshot = NotApplied /\ registerChanges = 0 /\ snapshots = 0 /\ identityReviews = 0

-----------------------------------------------------------------------------
(* Responses.                                                              *)

Tagged(reg, t) == IF t = "universe" THEN DOMAIN reg ELSE {c \in DOMAIN reg : t \in reg[c].types}
PagesOf(n) == IF n = 0 THEN 1 ELSE (n + SearchPage - 1) \div SearchPage

\* One page of a search, by code; its totals are those of the moment.
Page(reg, t, number) ==
    LET all  == Tagged(reg, t)
        rank(c) == Cardinality({d \in all : d <= c})
        here == {c \in all : rank(c) \in ((number - 1) * SearchPage + 1)..(number * SearchPage)}
    IN [total |-> Cardinality(all),
        items |-> {[code |-> c, nipc |-> reg[c].nipc, active |-> reg[c].active,
                    ghost |-> reg[c].ghost] : c \in here}]

\* A history names its organisation: one that is no longer listed is answered, if at all, with
\* what it was.
HistoryOf(reg, c) == reg[c].history
Past(c) == {v \in versions : c \in DOMAIN v}
Answered(c) == IF c \in DOMAIN bodies THEN {HistoryOf(bodies, c)}
                ELSE {HistoryOf(v, c) : v \in Past(c)}

Responses(r) == IF r.search = "history" THEN Answered(r.of) ELSE {Page(bodies, r.search, r.of)}

Asked(t, number) == [search |-> t, of |-> number]
Pages(got, t) == {r \in DOMAIN got : r.search = t}
Listed(got, t) == UNION {got[r].items : r \in Pages(got, t)}
CodesOf(items) == {i.code : i \in items}

\* mutant: pages of different totals make one search
CountOnly(got, t) ==
    Cardinality(CodesOf(Listed(got, t))) = got[Asked(t, Cardinality(Pages(got, t)))].total

\* parse_codes(): every page of the same total, as many codes as it says, none twice.
Consistent(got, t) ==
    LET first == got[Asked(t, 1)]
    IN /\ \A r \in Pages(got, t) : got[r].total = first.total
       /\ Cardinality(CodesOf(Listed(got, t))) = first.total
       /\ \A r, q \in Pages(got, t) : r # q => CodesOf(got[r].items) \cap CodesOf(got[q].items) = {}

Complete(got, t) == Asked(t, 1) \in DOMAIN got
                      /\ Cardinality(Pages(got, t)) = PagesOf(got[Asked(t, 1)].total)

\* Ghosts are dropped; a rehearsal reads the first histories only.
Bodies(got) == {i \in Listed(got, "universe") : ~i.ghost}
ToRead(got, limit) ==
    LET all == CodesOf(Bodies(got))
    IN IF limit = NoLimit THEN all ELSE {c \in all : Cardinality({d \in all : d < c}) < limit}
HistoriesLeft(got, limit) == {c \in ToRead(got, limit) : Asked("history", c) \notin DOMAIN got}

Pending(got) == {t \in BodyTypes : ~Complete(got, t)}
LeastBody(S) == CHOOSE n \in S : \A k \in S : n <= k

\* fetch_snapshot(): the universe, each type, then each history.
NextRequest(got, limit) ==
    LET page(t) == Asked(t, Cardinality(Pages(got, t)) + 1)
    IN IF ~Complete(got, "universe") THEN page("universe")
       ELSE IF Pending(got) # {} THEN page(CHOOSE t \in Pending(got) : TRUE)
       ELSE Asked("history", LeastBody(HistoriesLeft(got, limit)))

Done(got, limit) == /\ Complete(got, "universe") /\ Pending(got) = {}
                    /\ HistoriesLeft(got, limit) = {}

\* A search whose pages do not agree refuses the crawl.
Searches(got) == {t \in BodyTypes \cup {"universe"} : Complete(got, t)}
Agree(got) == \A t \in Searches(got) : Consistent(got, t)

-----------------------------------------------------------------------------
(* The client.                                                             *)

Crawling == crawl.on /\ Agree(received) /\ ~Done(received, crawl.limit)
Request  == NextRequest(received, crawl.limit)

StartCrawl ==
    /\ ~crawl.on /\ snapshots < MaxSnapshots /\ snapshots' = snapshots + 1
    /\ \E keep \in BOOLEAN, limit \in HistoryLimits :
         crawl' = [NotRunning EXCEPT !.on = TRUE, !.cache = keep, !.limit = limit]
    /\ received' = <<>>
    /\ versions' = IF cached = <<>> THEN {bodies} ELSE versions \cup {bodies}
    /\ UNCHANGED <<bodies, cached, anchored, registerChanges, identityReviews>>

\* A run with a cache takes a response it has.
FromCache ==
    /\ Crawling /\ crawl.cache /\ Request \in DOMAIN cached
    /\ received' = [r \in DOMAIN received \cup {Request} |->
                      IF r = Request THEN cached[r] ELSE received[r]]
    /\ UNCHANGED <<bodies, crawl, cached, versions, anchored, registerChanges, snapshots, identityReviews>>

Asking == /\ Crawling /\ (crawl.cache => Request \notin DOMAIN cached)
          /\ UNCHANGED <<bodies, versions, anchored, registerChanges, snapshots, identityReviews>>

\* A response is kept as soon as it arrives.
Receive ==
    /\ Asking
    /\ \E response \in Responses(Request) :
         /\ received' = [r \in DOMAIN received \cup {Request} |->
                           IF r = Request THEN response ELSE received[r]]
         /\ cached' = IF ~crawl.cache THEN cached
                      ELSE [r \in DOMAIN cached \cup {Request} |->
                              IF r = Request THEN response ELSE cached[r]]
    /\ crawl' = [crawl EXCEPT !.attempt = 0, !.renewed = FALSE]

\* An expired session is renewed once for a request, and is no attempt.
Renew == /\ Asking /\ ~crawl.renewed
         /\ crawl' = [crawl EXCEPT !.renewed = TRUE] /\ UNCHANGED <<received, cached>>

\* The network, 429 and 5xx are tried again.
TryAgain == /\ Asking /\ crawl.attempt + 1 < MaxAttempts
            /\ crawl' = [crawl EXCEPT !.attempt = @ + 1] /\ UNCHANGED <<received, cached>>

\* Too many attempts, another status, a refused page, or a kill: the cache stays.
EndCrawl ==
    /\ crawl.on /\ crawl' = NotRunning /\ received' = <<>>
    /\ UNCHANGED <<bodies, cached, versions, anchored, registerChanges, snapshots, identityReviews>>

\* An operator deletes the cache of this date.
DropCache ==
    /\ cached # <<>> /\ ~crawl.on
    /\ cached' = <<>> /\ versions' = {bodies}
    /\ UNCHANGED <<bodies, crawl, received, anchored, registerChanges, snapshots, identityReviews>>

\* SIOE publishes changes.
ChangeRegister ==
    /\ registerChanges < MaxRegisterChanges /\ registerChanges' = registerChanges + 1
    /\ bodies' \in BodyRegisters \ {bodies} /\ versions' = versions \cup {bodies'}
    /\ UNCHANGED <<collecting, anchored, snapshots, identityReviews>>

-----------------------------------------------------------------------------
(* Reviewers.                                                              *)

Known(scheme) == IF scheme = "sioe" THEN anchorOf ELSE nipcOf
Given(known, id, e) == [i \in DOMAIN known \cup {id} |-> IF i = id THEN e ELSE known[i]]

\* SourceIdentityAdmin: an identifier is unique and belongs to any organisation, which may have
\* others of its scheme; one that no claim relies on yet may be moved.
ReviewIdentity ==
    /\ identityReviews < MaxIdentityReviews /\ identityReviews' = identityReviews + 1
    /\ \E id \in Reviewable \ relied, e \in OtherEntities \cup DOMAIN kindOf :
         /\ id[2] \in DOMAIN Known(id[1]) => Known(id[1])[id[2]] # e
         /\ anchorOf' = IF id[1] = "sioe" THEN Given(anchorOf, id[2], e) ELSE anchorOf
         /\ nipcOf' = IF id[1] = "nipc" THEN Given(nipcOf, id[2], e) ELSE nipcOf
    /\ UNCHANGED <<bodies, collecting, versions, relied, kindOf, structure, boards, lastSnapshot,
                   registerChanges, snapshots>>

-----------------------------------------------------------------------------
(* apply_snapshot().                                                       *)

\* nipc_owners(): the one active holder, or the one holder.
Holders(orgs, n) == {i \in orgs : i.nipc = n}
Owners(orgs, n) == LET active == {i \in Holders(orgs, n) : i.active}
                   IN IF active # {} THEN active ELSE Holders(orgs, n)
Owned(orgs) == {n \in {i.nipc : i \in orgs} \ {NoNipc} : Cardinality(Owners(orgs, n)) = 1}
OwnerOf(orgs, n) == (CHOOSE i \in Owners(orgs, n) : TRUE).code

\* plan_organisations(): an organisation another SIOE code anchors is not taken.
Free(n) == n \in DOMAIN nipcOf /\ \A c \in DOMAIN anchorOf : anchorOf[c] # nipcOf[n]

ViaNipc(orgs) == {i.code : i \in {j \in orgs : /\ j.code \notin DOMAIN anchorOf
                                               /\ j.nipc \in Owned(orgs)
                                               /\ OwnerOf(orgs, j.nipc) = j.code /\ Free(j.nipc)}}
NipcIn(orgs, c) == (CHOOSE i \in orgs : i.code = c).nipc
NewBodies(orgs) == CodesOf(orgs) \ (DOMAIN anchorOf \cup ViaNipc(orgs))

EntityOf(orgs) == [c \in CodesOf(orgs) \cup DOMAIN anchorOf |->
                     IF c \in DOMAIN anchorOf THEN anchorOf[c]
                     ELSE IF c \in ViaNipc(orgs) THEN nipcOf[NipcIn(orgs, c)] ELSE NewEntity(c)]

\* The single type search that lists it, else the type its history gives; what teaches has no
\* type of its own.
TypeTags(got, c) == {t \in BodyTypes : c \in CodesOf(Listed(got, t))}
Classified(got, hist, c) ==
    LET tags == TypeTags(got, c)
        type == IF Cardinality(tags) = 1 THEN tags
                ELSE IF c \in DOMAIN hist THEN hist[c].type ELSE {}
        kind == IF type = {} THEN BodyKind ELSE KindOfType[CHOOSE t \in type : TRUE]
    IN IF kind = BodyKind /\ c \in DOMAIN hist /\ hist[c].higher THEN HigherKind ELSE kind

Histories(got, limit) == [c \in ToRead(got, limit) |-> got[Asked("history", c)]]

\* Links to organisations that are anchored, never to itself; members with a name.
Links(orgs, c, h) ==
    {l \in h.links : l.to \in DOMAIN EntityOf(orgs) /\ EntityOf(orgs)[l.to] # EntityOf(orgs)[c]}
Named(h) == {m \in h.members : m.named}

\* Structure: what supervises an organisation and what it belongs to or succeeds, and the
\* government of a ministry if that was imported.  A scope of no claims is not published.
Ministries(hist) == UNION {hist[c].ministries : c \in DOMAIN hist}
Filled(scopes) == [s \in {t \in DOMAIN scopes : scopes[t] # {}} |-> scopes[s]]

StructureOf(orgs, hist) ==
    Filled([s \in ({"body"} \X DOMAIN hist) \cup ({"ministry"} \X Ministries(hist)) |->
              IF s[1] = "body"
              THEN {<<"link", l>> : l \in Links(orgs, s[2], hist[s[2]])}
                     \cup {<<"supervised by", m>> : m \in hist[s[2]].ministries}
              ELSE {<<"part of", g>> : g \in {s[2].government} \cap Governments}])
BoardsOf(hist) == Filled([c \in DOMAIN hist |-> Named(hist[c])])

\* Only a history of every organisation says which scopes are gone.
Replaced(now, scopes, complete) ==
    IF complete THEN scopes
    ELSE [s \in DOMAIN now \cup DOMAIN scopes |-> IF s \in DOMAIN scopes THEN scopes[s] ELSE now[s]]

\* A claim published for the first time makes its organisations' identifiers used.
NewClaims(now, scopes) ==
    {p \in UNION {{t} \X scopes[t] : t \in DOMAIN scopes} : p[1] \in DOMAIN now => p[2] \notin now[p[1]]}
ReliedOn(orgs, hist) ==
    LET E == EntityOf(orgs)
        structural == NewClaims(structure, StructureOf(orgs, hist))
    IN {E[p[1][2]] : p \in {q \in structural : q[1][1] = "body"}}
         \cup {E[p[2][2].to] : p \in {q \in structural : q[2][1] = "link"}}
         \cup {E[p[1]] : p \in NewClaims(boards, BoardsOf(hist))}
IdentifiersOf(codes, nipcs, entities) ==
    {<<"sioe", c>> : c \in {d \in DOMAIN codes : codes[d] \in entities}}
      \cup {<<"nipc", n>> : n \in {m \in DOMAIN nipcs : nipcs[m] \in entities}}

ApplyBodies ==
    /\ crawl.on /\ Agree(received) /\ Done(received, crawl.limit)
    /\ LET orgs == Bodies(received)
           hist == Histories(received, crawl.limit)
           complete == DOMAIN hist = CodesOf(orgs)
           owned == {n \in Owned(orgs) : n \notin DOMAIN nipcOf}
       IN /\ anchorOf' = EntityOf(orgs)
          /\ nipcOf' = [n \in DOMAIN nipcOf \cup owned |->
                          IF n \in owned THEN EntityOf(orgs)[OwnerOf(orgs, n)] ELSE nipcOf[n]]
          /\ kindOf' = [e \in DOMAIN kindOf \cup {NewEntity(c) : c \in NewBodies(orgs)} |->
                          IF e \in DOMAIN kindOf THEN kindOf[e] ELSE Classified(received, hist, e[2])]
          /\ relied' = relied \cup IdentifiersOf(anchorOf', nipcOf', ReliedOn(orgs, hist))
          /\ structure' = Replaced(structure, StructureOf(orgs, hist), complete)
          /\ boards' = Replaced(boards, BoardsOf(hist), complete)
          /\ lastSnapshot' = [organisations |-> orgs, complete |-> complete, read |-> DOMAIN hist,
                              since |-> versions, boardsBefore |-> boards,
                              before |-> anchorOf, nipcsBefore |-> nipcOf, after |-> anchorOf']
    /\ crawl' = NotRunning /\ received' = <<>>
    /\ UNCHANGED <<bodies, cached, versions, registerChanges, snapshots, identityReviews>>

BodiesNext == \/ StartCrawl \/ FromCache \/ Receive \/ Renew \/ TryAgain \/ EndCrawl \/ DropCache
              \/ ChangeRegister \/ ReviewIdentity \/ ApplyBodies
BodiesSpec == BodiesInit /\ [][BodiesNext]_bodyVars

-----------------------------------------------------------------------------
(* What an import promises.                                                *)

Regular(reg) == {c \in DOMAIN reg : ~reg[c].ghost}

\* Unless the register lost and gained as many entries or ghosts meanwhile, the organisations
\* are all those of one of its versions, whatever was read from the cache or changed between
\* pages.
Steady(vs) == \A v, w \in vs : Cardinality(DOMAIN v) = Cardinality(DOMAIN w)
                                 => DOMAIN v = DOMAIN w /\ Regular(v) = Regular(w)

UniverseIsWhole ==
    Steady(lastSnapshot.since) =>
      \E v \in lastSnapshot.since : CodesOf(lastSnapshot.organisations) = Regular(v)

\* An import moves no code.  It gives a code the entity of another only in one case: the entity
\* had no code, and two organisations that no code named yet each own one of its NIPCs.  The
\* entity of a code that is known, or that is taken meanwhile, is no other's but by a review.
Owns(orgs, c, n) == n \in Owned(orgs) /\ OwnerOf(orgs, n) = c
TwoNipcs(c, d) ==
    LET e == lastSnapshot.after[c]
        nipcs == lastSnapshot.nipcsBefore
    IN /\ {c, d} \cap DOMAIN lastSnapshot.before = {}
       /\ \A b \in DOMAIN lastSnapshot.before : lastSnapshot.before[b] # e
       /\ \E m, n \in DOMAIN nipcs :
            /\ m # n /\ nipcs[m] = e /\ nipcs[n] = e
            /\ Owns(lastSnapshot.organisations, c, m) /\ Owns(lastSnapshot.organisations, d, n)

EntitiesAreDistinct ==
    /\ \A c \in DOMAIN lastSnapshot.before :
         c \in DOMAIN lastSnapshot.after /\ lastSnapshot.after[c] = lastSnapshot.before[c]
    /\ \A c, d \in DOMAIN lastSnapshot.after :
         c # d /\ lastSnapshot.after[c] = lastSnapshot.after[d] =>
           {c, d} \subseteq DOMAIN lastSnapshot.before \/ TwoNipcs(c, d)
    /\ CodesOf(lastSnapshot.organisations) \subseteq DOMAIN lastSnapshot.after
    /\ Owned(lastSnapshot.organisations) \subseteq DOMAIN nipcOf

BoardOf(scopes, c) == IF c \in DOMAIN scopes THEN scopes[c] ELSE {}
\* The boards are those of a history that was published, those of the organisations not read
\* are as they were, and a complete import leaves no other.
BoardsAreThose ==
    /\ \A c \in lastSnapshot.read :
         \/ \E v \in lastSnapshot.since : c \in DOMAIN v /\ BoardOf(boards, c) = Named(v[c].history)
         \/ ~lastSnapshot.complete /\ BoardOf(boards, c) = BoardOf(lastSnapshot.boardsBefore, c)
    /\ lastSnapshot.complete => DOMAIN boards \subseteq CodesOf(lastSnapshot.organisations)
    /\ ~lastSnapshot.complete => \A c \in DOMAIN lastSnapshot.boardsBefore :
         c \notin lastSnapshot.read => BoardOf(boards, c) = lastSnapshot.boardsBefore[c]
    /\ DOMAIN boards \subseteq DOMAIN anchorOf

BodiesAreTrue ==
    lastSnapshot # NotApplied => UniverseIsWhole /\ EntitiesAreDistinct /\ BoardsAreThose

\* sioe.py:1008: an organisation another SIOE code anchors is never merged through its NIPC.
NeverMergedThroughNipc ==
    lastSnapshot # NotApplied =>
      \A c, d \in DOMAIN lastSnapshot.after :
        c # d /\ lastSnapshot.after[c] = lastSnapshot.after[d] => {c, d} \subseteq DOMAIN lastSnapshot.before
===============================================================================
