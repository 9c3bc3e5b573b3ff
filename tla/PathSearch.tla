------------------------------ MODULE PathSearch ------------------------------
(***************************************************************************)
(* public/paths.py: the shortest documented paths between two entities.    *)
(* The search expands the smaller of two frontiers level by level, each    *)
(* level by queries of its own, so the published data may change between   *)
(* any two of them and before the hops of the answer are read.             *)
(***************************************************************************)
EXTENDS Integers, Sequences, FiniteSets

CONSTANTS
    Nodes, From, To,            \* entities, by the order of their identifiers; the two asked about
    Structural,                 \* entities of a hub classification
    ClaimGraphs, EventGraphs,   \* what may be published: sets of pairs of entities
    MaxDepths,                  \* the longest path asked for
    MaxPaths, HubDegree, FrontierLimit, VisitedLimit, LevelRowLimit, EventNeighbours,
    MaxGraphEdits               \* bound: how often what is published changes

\* Entities are finitely many, limits are numbers, and what is published joins two entities: a
\* claim by relationship_distinct_entities, an event by other.entity_id <> own.entity_id.
ASSUME PathAssumption ==
    /\ IsFiniteSet(Nodes) /\ Nodes \subseteq Nat /\ {From, To} \subseteq Nodes /\ From # To
    /\ \A graph \in ClaimGraphs \cup EventGraphs :
         \A pair \in graph : \E n, q \in Nodes : n # q /\ pair = {n, q}
    /\ MaxPaths \in Nat \ {0} /\ FrontierLimit \in Nat \ {0} /\ {HubDegree, LevelRowLimit} \subseteq Nat
    /\ EventNeighbours \in Nat \ {0} /\ MaxDepths \subseteq Nat \ {0}

Sides == {"forward", "backward"}
Root  == [forward |-> From, backward |-> To]
Other == [forward |-> "backward", backward |-> "forward"]

VARIABLES
    visible,                    \* entities that are public
    claims, events,             \* what is published now, between them
    ever,                       \* history: every pair published since the search began
    asked,                      \* the request
    search,                     \* what it waits for
    parents, depths,            \* of each side: predecessors and depth of each visited entity
    frontier, depth,            \* of each side
    side, beside,               \* the side being expanded and the neighbours read for it
    found,                      \* predecessors of what the level found
    links, excluded,            \* the kind of link between two entities; the hubs left out
    truncated, eventsCapped,
    paths,                      \* joined, and in the end those on the page
    read,                       \* history: the claims and entities the page was built from
    graphEdits                  \* counter of the bound MaxGraphEdits

published == <<visible, claims, events, ever, graphEdits>>
tree      == <<parents, depths, frontier, depth>>
svars     == <<published, asked, search, tree, side, beside, found, links, excluded, truncated,
               eventsCapped, paths, read>>

\* Rows in no particular order, cut at k.
AnyOf(S, k) == {T \in SUBSET S : Cardinality(T) = IF Cardinality(S) > k THEN k ELSE Cardinality(S)}

\* The first k of sorted(S).
FirstOf(S, k) == {n \in S : Cardinality({q \in S : q < n}) < k}

Touching(pairs, F) == {pair \in pairs : pair \cap F # {}}
Degree(n) == Cardinality(Touching(claims, {n}))
Visited(s) == DOMAIN depths[s]

PathInit ==
    /\ visible = Nodes /\ claims \in ClaimGraphs /\ events \in EventGraphs /\ ever = claims \cup events
    /\ graphEdits = 0 /\ search = "level" /\ side = "forward"
    /\ asked \in [maxDepth : MaxDepths, includeEvents : BOOLEAN, includeHubs : BOOLEAN]
    /\ parents = [s \in Sides |-> [n \in {Root[s]} |-> {}]]
    /\ depths = [s \in Sides |-> [n \in {Root[s]} |-> 0]]
    /\ frontier = [s \in Sides |-> {Root[s]}] /\ depth = [s \in Sides |-> 0]
    /\ beside = {} /\ found = <<>> /\ links = <<>> /\ excluded = {} /\ paths = {}
    /\ read = [claims |-> {}, visible |-> {}]
    /\ truncated = FALSE /\ eventsCapped = FALSE

-----------------------------------------------------------------------------
(* One level of the search.                                                *)

\* The side PathSearch.run expands.
Smaller == IF Cardinality(frontier["forward"]) <= Cardinality(frontier["backward"])
             THEN "forward" ELSE "backward"

Expanded == FirstOf(frontier[side], FrontierLimit)

\* The neighbours that kept rows give the members of F.
Beside(F, kept, via) == {row \in F \X Nodes \X {via} : row[1] # row[2] /\ {row[1], row[2]} \in kept}

\* The first query of neighbours(): one row per claimed pair, whichever side asks.
ReadClaims ==
    /\ search = "level"
    /\ side' = Smaller
    /\ LET F == FirstOf(frontier[Smaller], FrontierLimit)
       IN \E kept \in AnyOf(Touching(claims, F), LevelRowLimit) :
            /\ beside' = Beside(F, kept, "relationship")
            /\ truncated' = (\/ truncated \/ F # frontier[Smaller]
                             \/ kept # Touching(claims, F))
    /\ search' = IF asked.includeEvents THEN "events" ELSE "level read"
    /\ UNCHANGED <<published, asked, tree, found, links, excluded, eventsCapped, paths, read>>

\* Of each entity the busiest counterparts in public events, then the rows of the level.
ReadEvents ==
    /\ search = "events"
    /\ \E top \in [Expanded -> UNION {AnyOf(Touching(events, {n}), EventNeighbours) : n \in Expanded}] :
         /\ \A n \in Expanded : top[n] \in AnyOf(Touching(events, {n}), EventNeighbours)
         /\ LET ranked == UNION {Beside({n}, top[n], "event") : n \in Expanded}
            IN \E kept \in AnyOf(ranked, LevelRowLimit) :
                 /\ beside' = beside \cup kept
                 /\ truncated' = (truncated \/ kept # ranked)
                 /\ eventsCapped' = (\/ eventsCapped
                                     \/ \E row \in kept : top[row[1]] # Touching(events, {row[1]}))
    /\ search' = "level read"
    /\ UNCHANGED <<published, asked, tree, side, found, links, excluded, paths, read>>

IsStructural(n) == ~asked.includeHubs /\ n \notin {From, To} /\ n \in Structural

\* expand(): what the rows add, hub classifications aside; at most MaxPaths predecessors.
Sort ==
    /\ search = "level read"
    /\ LET fresh  == {row[2] : row \in beside} \ (Visited(side) \cup excluded)
           open   == {n \in fresh : ~IsStructural(n)}
           before == [n \in open |-> {row[1] : row \in {r \in beside : r[2] = n}}]
           via(pair) == IF \E row \in beside : {row[1], row[2]} = pair /\ row[3] = "relationship"
                          THEN "relationship" ELSE "event"
       IN \E chosen \in [open -> UNION {AnyOf(before[n], MaxPaths) : n \in open}] :
            /\ \A n \in open : chosen[n] \in AnyOf(before[n], MaxPaths)
            /\ found' = chosen
            /\ links' = LET new == UNION {{{n, p} : p \in chosen[n]} : n \in open}
                        IN [pair \in DOMAIN links \cup new |->
                              IF pair \in DOMAIN links THEN links[pair] ELSE via(pair)]
            /\ excluded' = excluded \cup (fresh \ open)
    /\ depth' = [depth EXCEPT ![side] = @ + 1]
    /\ beside' = {} /\ search' = "found"
    /\ UNCHANGED <<published, asked, parents, depths, frontier, side, truncated, eventsCapped,
                   paths, read>>

\* mutant: only meeting points are checked, on every level
MeetingOnly == DOMAIN found \cap Visited(Other[side])

\* drop_busy(): on the last level only meeting points matter.
Checked == IF depth[side] + depth[Other[side]] >= asked.maxDepth
                THEN DOMAIN found \cap Visited(Other[side]) ELSE DOMAIN found

Busy == IF asked.includeHubs THEN {}
        ELSE {n \in Checked \ {From, To} : Degree(n) > HubDegree}

\* chains(): from the root to a node, by recorded predecessors, each a level nearer to it.
Chains(before, far, n) ==
    {c \in [1..(far[n] + 1) -> DOMAIN before] :
       c[far[n] + 1] = n /\ before[c[1]] = {} /\ \A k \in 1..far[n] : c[k] \in before[c[k + 1]]}

\* (*reversed(head), *tail[1:])
Path(head, tail) ==
    [k \in 1..(Len(head) + Len(tail) - 1) |->
       IF k <= Len(head) THEN head[k] ELSE tail[Len(head) + Len(tail) - k]]
Simple(p) == \A k, l \in DOMAIN p : p[k] = p[l] => k = l

\* join(): through the meeting points that are nearest to both roots.
JoinedSides(before, far, meeting) ==
    LET total(n) == far["forward"][n] + far["backward"][n]
        near == {n \in meeting : \A q \in meeting : total(n) <= total(q)}
        all  == UNION {{Path(head, tail) : head \in Chains(before["forward"], far["forward"], n),
                                           tail \in Chains(before["backward"], far["backward"], n)} :
                         n \in near}
    IN {p \in all : Simple(p)}

\* The level ends: busy entities are left out, the side grows, and the loop goes on, or
\* the sides have met, or a limit stops it.
Settle ==
    /\ search = "found"
    /\ LET kept == [n \in DOMAIN found \ Busy |-> found[n]]
           before == [parents EXCEPT ![side] = [n \in DOMAIN @ \cup DOMAIN kept |->
                                                  IF n \in DOMAIN @ THEN @[n] ELSE kept[n]]]
           far  == [depths EXCEPT ![side] = [n \in DOMAIN @ \cup DOMAIN kept |->
                                               IF n \in DOMAIN @ THEN @[n] ELSE depth[side]]]
           meeting == DOMAIN kept \cap Visited(Other[side])
           tooMany == /\ meeting = {}
                      /\ Cardinality(DOMAIN far["forward"]) + Cardinality(DOMAIN far["backward"])
                           > VisitedLimit
           goesOn  == /\ meeting = {} /\ ~tooMany
                      /\ depth["forward"] + depth["backward"] < asked.maxDepth
                      /\ DOMAIN kept # {} /\ frontier[Other[side]] # {}
       IN /\ parents' = before /\ depths' = far
          /\ frontier' = [frontier EXCEPT ![side] = DOMAIN kept]
          /\ truncated' = (truncated \/ tooMany)
          /\ search' = IF goesOn THEN "level" ELSE "build"
          /\ paths' \in AnyOf(JoinedSides(before, far, meeting), MaxPaths)
    /\ excluded' = excluded \cup Busy /\ found' = <<>>
    /\ UNCHANGED <<published, asked, depth, side, beside, links, eventsCapped, read>>

\* A query is cancelled by its timeout, and the answer says so.
TimeOut ==
    /\ search \in {"level", "events", "found"}
    /\ search' = "shown" /\ truncated' = TRUE /\ paths' = {} /\ beside' = {} /\ found' = <<>>
    /\ UNCHANGED <<published, asked, tree, side, links, excluded, eventsCapped, read>>

-----------------------------------------------------------------------------
(* The answer.                                                             *)

Met(p) == {p[k] : k \in 1..Len(p)}
Hops(p) == {{p[k], p[k + 1]} : k \in 1..(Len(p) - 1)}
ClaimHops(p) == {h \in Hops(p) : links[h] = "relationship"}

\* build_paths(): all or nothing.
Documented == \A p \in paths : Met(p) \subseteq visible /\ ClaimHops(p) \subseteq claims

Build ==
    /\ search = "build"
    /\ paths' = IF Documented THEN paths ELSE {}
    /\ read' = [claims |-> claims, visible |-> visible] /\ search' = "shown"
    /\ UNCHANGED <<published, asked, tree, side, beside, found, links, excluded, truncated,
                   eventsCapped>>

\* An import or an editor publishes or withdraws a claim or an event, or hides an entity.
Toggled(pairs, pair) == IF pair \in pairs THEN pairs \ {pair} ELSE pairs \cup {pair}

Change ==
    /\ graphEdits < MaxGraphEdits /\ search # "shown"
    /\ \/ \E pair \in UNION ClaimGraphs : /\ pair \subseteq visible /\ claims' = Toggled(claims, pair)
                                         /\ UNCHANGED <<events, visible>>
       \/ \E pair \in UNION EventGraphs : /\ pair \subseteq visible /\ events' = Toggled(events, pair)
                                         /\ UNCHANGED <<claims, visible>>
       \/ \E n \in visible : /\ visible' = visible \ {n}
                            /\ claims' = {pair \in claims : n \notin pair}
                            /\ events' = {pair \in events : n \notin pair}
    /\ ever' = ever \cup claims' \cup events' /\ graphEdits' = graphEdits + 1
    /\ UNCHANGED <<asked, search, tree, side, beside, found, links, excluded, truncated,
                   eventsCapped, paths, read>>

PathNext == \/ ReadClaims \/ ReadEvents \/ Sort \/ Settle \/ TimeOut \/ Build \/ Change
PathSpec == PathInit /\ [][PathNext]_svars

-----------------------------------------------------------------------------
(* What an answer promises.                                                *)

\* The reference: all paths of k steps over what is published, hubs aside.
Crossed == IF asked.includeHubs THEN Nodes
           ELSE {From, To} \cup {n \in Nodes \ Structural : Degree(n) <= HubDegree}
Linked  == claims \cup IF asked.includeEvents THEN events ELSE {}
Reached == [k \in 0..asked.maxDepth |->
              {p \in [1..(k + 1) -> Crossed] :
                 /\ p[1] = From /\ p[k + 1] = To /\ Simple(p)
                 /\ \A l \in 1..k : {p[l], p[l + 1]} \in Linked}]
Shortest == IF \A k \in DOMAIN Reached : Reached[k] = {} THEN {}
            ELSE Reached[CHOOSE k \in DOMAIN Reached :
                           Reached[k] # {} /\ \A l \in 0..(k - 1) : Reached[l] = {}]

\* An answer that reports no cut, of a search during which nothing changed, shows as many
\* shortest paths as it may, and none only if none of the length asked for exists.  A search
\* that was cut still shows only paths that exist and cross no hub.  (The two sides that
\* meet, the hubs left out by degree, the entities met on the last level.)
PathsAreShortest ==
    graphEdits = 0 => /\ ~truncated /\ ~eventsCapped => paths \in AnyOf(Shortest, MaxPaths)
                   /\ paths \subseteq UNION {Reached[k] : k \in DOMAIN Reached}

\* Whatever changes meanwhile, each hop was published during the search, and the page shows
\* only entities that were public, and claims that were published, when it was built.
HopsAreDocumented ==
    \A p \in paths : /\ Hops(p) \subseteq ever /\ ClaimHops(p) \subseteq read.claims
                     /\ Met(p) \subseteq read.visible

PathsAreSound == search = "shown" => PathsAreShortest /\ HopsAreDocumented
=============================================================================
