----------------------------- MODULE MCImports ------------------------------
(* Two ways of importing, one at a time: observations and the claims they    *)
(* support, and the queue of Parliament imports.                             *)
EXTENDS MCObservations, ImportQueue

Req(k, m, d, b, c) == [id |-> k, mode |-> m, leg |-> "XVII", asOf |-> d, by |-> b, call |-> c]

\* An administrator's apply request, and one of the dispatcher with its date left out.
MCTwoRequests == {Req("a", "apply", 2, "ana", 1), Req("b", "apply", Today, GitHub, 1)}

\* Workers and sessions are interchangeable.
MCSymmetry == Permutations(Workers) \cup Permutations(Sessions)

-----------------------------------------------------------------------------

observationVars == <<vars, feed>>

\* While the queue is looked at, nobody is identified.
Unidentified == holder = [k \in Identifiers |-> NoEntity]

ImportsInit == QueueInit /\ (MCInit \/ (Init /\ feed = "none" /\ Unidentified))
ImportsNext == \/ feed # "none" /\ MCNext /\ UNCHANGED queueVars
               \/ feed = "none" /\ QueueNext /\ UNCHANGED observationVars
ImportsSpec == ImportsInit /\ [][ImportsNext]_<<observationVars, queueVars>>
=============================================================================
