--------------------------- MODULE MCObservations ---------------------------
(***************************************************************************)
(* Instances of Observations: revisions of one entry, and the same entry   *)
(* in another scope.                                                       *)
(***************************************************************************)
EXTENDS Observations, TLC

CONSTANTS p1, p2, p3, p4, sc1, sc2, sc3, x, id1, id2, o, s

VARIABLE feed       \* the passages a source lists in a behaviour

Passage(sc, id, named, complete) ==
    [scope |-> sc, ext |-> x, subject |-> id, object |-> o, source |-> s,
     named |-> named, complete |-> complete]

\* Two revisions in one legislature, the entry in another one, and a name without identifier.
TwoPeople == [p \in Passages |-> IF p = p3 THEN Passage(sc2, id2, FALSE, TRUE)
                                 ELSE IF p = p4 THEN Passage(sc3, id1, TRUE, TRUE)
                                 ELSE Passage(sc1, id1, FALSE, TRUE)]
\* Two complete revisions and an incomplete one in another scope.
TwoScopes == [p \in Passages |-> IF p = p3 THEN Passage(sc2, id1, FALSE, FALSE) ELSE TwoPeople[p]]

NoLegacy == [sc \in Scopes |-> 0]
OldScope == [sc \in Scopes |-> IF sc = sc1 THEN 2 ELSE 0]

InScopes == INSTANCE Observations WITH
    Info <- TwoScopes, Scopes <- {sc1, sc2}, Identifiers <- {id1}, Days <- {1, 2},
    Prefixed <- {sc1, sc2},
    Biographies <- {}, Convertible <- {p2}, Touchable <- {p1, s, o}, Legacy <- OldScope,
    People <- {CHOOSE a \in People : TRUE}

Fetches(S) == fetched # None => fetched.covers \subseteq S

\* Biographies of two people who may turn out to be one, or a named and an identified one.
InFeed == \/ feed = "years" /\ Fetches({sc1, sc2}) /\ edited = {}
          \/ feed = "names" /\ Fetches({sc2, sc3})
ConvertedFirst == \A p \in pulled \cap edited : row[p].claim # "draft"

MCInit == \/ Init /\ feed \in {"years", "names"} 
          \/ InScopes!Init /\ feed = "scopes"
MCNext == /\ UNCHANGED feed
          /\ \/ feed # "scopes" /\ Next /\ InFeed'
             \/ feed = "scopes" /\ InScopes!Next /\ ConvertedFirst'
MCSpec == MCInit /\ [][MCNext]_<<vars, feed>>

OneFeedInit == Init /\ feed = "all"
OneFeedNext == Next /\ UNCHANGED feed
MCOneFeed   == OneFeedInit /\ [][OneFeedNext]_<<vars, feed>>
=============================================================================
