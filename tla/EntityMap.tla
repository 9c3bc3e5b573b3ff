------------------------------ MODULE EntityMap ------------------------------
(***************************************************************************)
(* The map of an entity: public/graph_data.py answers with claims and      *)
(* totals of public events, by queries between which what is published may *)
(* change; frontend/src/graph.ts draws the answer and adds the claims of   *)
(* the entities a reader expands, while answers may be late, fail, or      *)
(* arrive after the map was reset or the page left.                        *)
(***************************************************************************)
EXTENDS Integers, FiniteSets

CONSTANTS
    Ents, Centre,               \* entities and the one the page is about
    Claims, Ends,               \* claims, in the order profiles list them, and who each is about
    OfKind,                     \* the claims a filtered page keeps
    Ties,                       \* entities that share public events with Centre
    RelationshipLimit, EventEdgeLimit, \* of an answer
    CanvasNodeLimit, CanvasEdgeLimit, \* of the map
    ExpandableLimit,            \* connections of an entity that may be expanded
    NoChoice,
    MaxEdits, MaxResets         \* bounds of the instance

ASSUME MapAssumption ==
    /\ IsFiniteSet(Ents) /\ Centre \in Ents /\ NoChoice \notin Ents /\ Ties \subseteq Ents \ {Centre}
    /\ Claims \subseteq Nat /\ IsFiniteSet(Claims)
    /\ Ends \in [Claims -> {ends \in SUBSET Ents : Cardinality(ends) = 2}]
    /\ {RelationshipLimit, EventEdgeLimit, CanvasNodeLimit, CanvasEdgeLimit, ExpandableLimit}
         \subseteq Nat
    /\ ExpandableLimit <= RelationshipLimit

VARIABLES
    filtered,                   \* the page asks for one kind of claim
    open, approved,             \* public entities, and published claims with public evidence
    everApproved, edits,        \* history: claims approved at some time; counter of MaxEdits
    answer,                     \* the answer being made
    view,                       \* loading, ready, empty, error or left
    base,                       \* the first answer
    nodesOn, claimsOn,          \* what is drawn
    expanded, chosen, expanding, capped, generation,
    button,                     \* the detail was drawn last with no answer due
    drawnAnswers                \* history: the answers drawn on this map

server   == <<filtered, open, approved, everApproved, edits>>
canvas   == <<nodesOn, claimsOn, expanded, chosen, capped>>
mapvars  == <<server, answer, view, base, canvas, expanding, button, generation, drawnAnswers>>

LeastOf(S, k) == {c \in S : Cardinality({d \in S : d < c}) < k}
\* The entities that some claims join.
EndsOf(C) == UNION {Ends[c] : c \in C}

Connections(e) == {c \in approved : e \in Ends[c] /\ Ends[c] \subseteq open}

Idle == [step |-> "none", of |-> NoChoice, asked |-> 0, claims |-> {}, ties |-> {}, drawn |-> {},
         more |-> 0, truncated |-> FALSE, nodes |-> {}, few |-> {}]

MapInit ==
    /\ filtered \in BOOLEAN /\ open = Ents /\ approved \in {Claims, {}}
    /\ everApproved = approved /\ edits = 0
    /\ answer = [Idle EXCEPT !.step = "claims", !.of = Centre]
    /\ view = "loading" /\ base = Idle
    /\ nodesOn = {} /\ claimsOn = {} /\ expanded = {} /\ chosen = NoChoice /\ expanding = FALSE
    /\ capped = FALSE /\ button = TRUE /\ generation = 0 /\ drawnAnswers = {}

-----------------------------------------------------------------------------
(* graph_payload(): one query after another.                               *)

Query(step) == /\ answer.step = step
               /\ UNCHANGED <<server, view, base, canvas, expanding, button, generation, drawnAnswers>>

\* The first connections of the profile, and whether there are more.
Profile(e) == IF filtered /\ e = Centre THEN Connections(e) \cap OfKind ELSE Connections(e)

ListClaims ==
    /\ Query("claims")
    /\ answer' = [answer EXCEPT !.step = "evidence",
                     !.claims = LeastOf(Profile(answer.of), RelationshipLimit),
                     !.truncated = Cardinality(Profile(answer.of)) > RelationshipLimit]

\* The prefetch checks approval again.
StillApproved(listed) == {c \in listed : c \in approved /\ Ends[c] \subseteq open}

PrefetchEvidence ==
    /\ Query("evidence")
    /\ LET kept == StillApproved(answer.claims)
       IN answer' = [answer EXCEPT !.step = "events", !.claims = kept,
                        !.nodes = {answer.of} \cup EndsOf(kept)]

\* Counterparts in events, the first ones drawn.
Tied(e) == IF e = Centre /\ ~filtered THEN Ties \cap open ELSE {}

ListEvents ==
    /\ Query("events")
    /\ LET tied == Cardinality(Tied(answer.of)) IN
       \E top \in SUBSET Tied(answer.of) :
         /\ Cardinality(top) = IF tied > EventEdgeLimit THEN EventEdgeLimit ELSE tied
         /\ answer' = [answer EXCEPT !.step = "counterparts", !.ties = top, !.drawn = top,
                                     !.more = tied - Cardinality(top)]

\* Hidden since the aggregate ran: dropped, although counted as drawn.
DropHidden ==
    /\ Query("counterparts")
    /\ answer' = [answer EXCEPT !.step = IF answer.more > 0 THEN "totals" ELSE "connections",
                                !.ties = @ \cap open, !.nodes = @ \cup (answer.ties \cap open)]

\* "+N entidades": the counterparts there are now, less those the rows showed.
CountTotals ==
    /\ Query("totals")
    /\ LET left == Cardinality(Tied(answer.of)) - Cardinality(answer.drawn)
       IN answer' = [answer EXCEPT !.step = "connections", !.more = IF left > 0 THEN left ELSE 0]

\* public_connection_counts(): the entities the map may expand.
CountConnections ==
    /\ Query("connections")
    /\ answer' = [answer EXCEPT !.step = "sent",
                     !.few = {e \in answer.nodes : Cardinality(Connections(e)) \in 2..ExpandableLimit}]

Serve == \/ ListClaims \/ PrefetchEvidence \/ ListEvents \/ DropHidden \/ CountTotals
         \/ CountConnections

\* An editor or an import withdraws a claim, publishes one, or hides an entity.
Edit ==
    /\ edits < MaxEdits /\ edits' = edits + 1
    /\ \/ \E c \in Claims : /\ approved' = IF c \in approved THEN approved \ {c} ELSE approved \cup {c}
                            /\ UNCHANGED open
       \/ \E e \in open \ {Centre} : open' = open \ {e} /\ UNCHANGED approved
    /\ everApproved' = everApproved \cup approved'
    /\ UNCHANGED <<filtered, answer, view, base, canvas, expanding, button, generation, drawnAnswers>>

-----------------------------------------------------------------------------
(* mountGraph().                                                           *)

\* parseGraph(): one bad element refuses the answer.
Parsed(a) == /\ \A c \in a.claims : Ends[c] \subseteq a.nodes
             /\ a.ties \subseteq a.nodes /\ Cardinality(a.claims) <= RelationshipLimit
             /\ Cardinality(a.ties) <= EventEdgeLimit
             /\ Cardinality(a.nodes) <= 2 * RelationshipLimit + 1 + EventEdgeLimit

MoreNodes(a) == IF a.more > 0 THEN 1 ELSE 0
NodeCount == Cardinality(nodesOn) + MoreNodes(base)
EdgeCount == Cardinality(claimsOn) + Cardinality(base.ties) + MoreNodes(base)

\* load(): the first answer, and nothing else.
Mounted ==
    /\ view = "loading" /\ answer.step = "sent" /\ Parsed(answer)
    /\ answer' = Idle
    /\ IF answer.claims = {} /\ answer.ties = {} /\ answer.more = 0
         THEN view' = "empty" /\ UNCHANGED <<base, nodesOn, claimsOn>>
         ELSE /\ view' = "ready" /\ base' = answer
              /\ nodesOn' = answer.nodes /\ claimsOn' = answer.claims
    /\ UNCHANGED <<server, expanded, chosen, capped, expanding, button, generation, drawnAnswers>>

\* select(): the detail of what is chosen is drawn again, with a button to expand it that can
\* be used unless an answer is due.
Select == /\ view = "ready"
          /\ chosen' \in nodesOn \cup {NoChoice} /\ button' = ~expanding
          /\ UNCHANGED <<server, answer, view, base, nodesOn, claimsOn, expanded, capped, expanding,
                         generation, drawnAnswers>>

\* The button of the chosen entity; every entity keeps the figure it was first drawn with.
Expand ==
    /\ view = "ready" /\ button /\ ~expanding
    /\ chosen \in (base.few \cup UNION {a.few : a \in drawnAnswers})
    /\ chosen \in nodesOn \ ({Centre} \cup expanded)
    /\ expanding' = TRUE /\ button' = FALSE
    /\ answer' = [Idle EXCEPT !.step = "claims", !.of = chosen, !.asked = generation]
    /\ UNCHANGED <<server, view, base, canvas, generation, drawnAnswers>>

\* merge(): the claims of an answer in its order, each drawn if with those drawn before it
\* both limits hold.
Fits(C, c) == LET before == {d \in C : d < c}
              IN /\ EdgeCount + Cardinality(before) + 1 <= CanvasEdgeLimit
                 /\ Cardinality(nodesOn \cup EndsOf(before) \cup Ends[c]) + MoreNodes(base)
                      <= CanvasNodeLimit

Fitting(new) == {C \in SUBSET new : \A c \in new : c \in C <=> Fits(C, c)}

\* mutant: an answer is drawn on whatever map is there
AnyMap == view = "ready"

\* The answer is for this map, which is still there.
ForThisMap == view = "ready" /\ answer.asked = generation

Merge ==
    /\ expanding /\ answer.step = "sent" /\ ForThisMap /\ Parsed(answer)
    /\ LET new == answer.claims \ claimsOn
       IN \E drawn \in Fitting(new) :
            /\ claimsOn' = claimsOn \cup drawn /\ nodesOn' = nodesOn \cup EndsOf(drawn)
            /\ capped' = (capped \/ drawn # new)
    /\ expanded' = expanded \cup {answer.of} /\ drawnAnswers' = drawnAnswers \cup {answer}
    /\ answer' = Idle /\ expanding' = FALSE /\ button' = TRUE
    /\ UNCHANGED <<server, view, base, chosen, generation>>

\* Too late for this map: nothing is drawn again, the button of what was chosen meanwhile
\* included.
Discard ==
    /\ expanding /\ answer.step = "sent" /\ ~ForThisMap
    /\ answer' = Idle /\ expanding' = FALSE
    /\ UNCHANGED <<server, view, base, canvas, button, generation, drawnAnswers>>

\* The network, the server, a redirect or the ten seconds of the signal.
NoResponse ==
    /\ answer.step # "none"
    /\ answer' = Idle /\ expanding' = FALSE /\ button' = (button \/ ForThisMap)
    /\ view' = IF view = "loading" THEN "error" ELSE view
    /\ UNCHANGED <<server, base, canvas, generation, drawnAnswers>>

\* The button appears with the first expansion.
Reset ==
    /\ view = "ready" /\ generation < MaxResets /\ expanded # {}
    /\ generation' = generation + 1
    /\ nodesOn' = base.nodes /\ claimsOn' = base.claims
    /\ expanded' = {} /\ capped' = FALSE /\ chosen' = NoChoice /\ drawnAnswers' = {}
    /\ button' = ~expanding
    /\ UNCHANGED <<server, answer, view, base, expanding>>

\* pagehide
LeavePage == /\ view = "ready" /\ view' = "left"
             /\ UNCHANGED <<server, answer, base, canvas, expanding, button, generation, drawnAnswers>>

MapNext == \/ Serve \/ Edit \/ Mounted \/ Select \/ Expand \/ Merge \/ Discard \/ NoResponse \/ Reset
           \/ LeavePage
MapSpec == MapInit /\ [][MapNext]_mapvars

-----------------------------------------------------------------------------
(* What the map promises.                                                  *)

\* Every line joins two entities that are drawn, and was published.
LinesStand == \A c \in claimsOn : Ends[c] \subseteq nodesOn /\ c \in everApproved

\* Beyond the first answer the map holds only what expansions of this map brought, all of
\* it unless it says that it reached its limits, and it keeps within them.
ExpansionsStand ==
    /\ expanded = {a.of : a \in drawnAnswers} /\ \A a \in drawnAnswers : a.asked = generation
    /\ nodesOn = base.nodes \cup EndsOf(claimsOn)
    /\ LET brought == UNION {a.claims : a \in drawnAnswers}
       IN /\ claimsOn \subseteq base.claims \cup brought
          /\ ~capped => claimsOn = base.claims \cup brought
    /\ claimsOn # base.claims => EdgeCount <= CanvasEdgeLimit /\ NodeCount <= CanvasNodeLimit

\* Nothing is published or withdrawn: expanding never leaves out connections unsaid.
NothingIsLeftOut == edits = 0 => \A a \in drawnAnswers : ~a.truncated /\ a.claims = Connections(a.of)

\* What the server sends the browser takes, whatever was hidden between its queries.
AnswersAreTaken == answer.step = "sent" => Parsed(answer)

\* A map awaits an answer exactly while one is due, and only after a reset is a button left
\* disabled with none due, until the next choice.
NeverStuck == /\ expanding <=> (view # "loading" /\ answer.step # "none")
              /\ ~button => expanding \/ generation > 0

MapIsSound ==
    /\ AnswersAreTaken
    /\ view = "ready" => LinesStand /\ ExpansionsStand /\ NothingIsLeftOut /\ NeverStuck
=============================================================================
