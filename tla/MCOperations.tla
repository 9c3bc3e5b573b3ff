---------------------------- MODULE MCOperations -----------------------------
(* Four independent parts of the platform in operation, one at a time: the   *)
(* refresh plan, a download, the search for paths and the map of an entity.  *)
EXTENDS RefreshPlan, OfficialHTTP, PathSearch, EntityMap, TLC

VARIABLE part

Step(n, f, i) == [name |-> n, family |-> f, interval |-> i, initial |-> FALSE]

\* Days: two legislatures, offices that rest on members and others that rest on both,
\* and the first years of BASE.
MCPlan == << Step("parliament:XVI", "parliament", 6), Step("parliament:XVII", "parliament", 0),
             Step("government", "government", 0), Step("ept_offices", "ept_offices", 0),
             [name |-> "base_contracts:2012", family |-> "base_contracts", interval |-> 6,
              initial |-> TRUE] >>

MCOptions == { [apply |-> FALSE, initial |-> FALSE, only |-> {}, skip |-> {}],
               [apply |-> TRUE, initial |-> TRUE, only |-> {}, skip |-> {}],
               [apply |-> TRUE, initial |-> FALSE, only |-> {}, skip |-> {"parliament:XVI"}] }

\* Five entities: one on each side for certain, and any claims between the others.
MCClaimGraphs == { {{1, 2}, {4, 5}} \cup g : g \in SUBSET {{1, 3}, {2, 3}, {2, 4}, {3, 4}, {3, 5}} }
MCEventGraphs == { {}, {{1, 4}, {3, 4}} }

\* Claims of the entity of the page, two of them with the same one, and claims of others.
MCEnds == 1 :> {"c", "a"} @@ 2 :> {"c", "b"} @@ 3 :> {"a", "b"} @@ 4 :> {"b", "d"} @@ 5 :> {"c", "b"}

-----------------------------------------------------------------------------

mcvars == <<rvars, hvars, svars, mapvars, part>>

\* A part that is not looked at stays in one of its initial states.
OneSearch == /\ claims = CHOOSE g \in ClaimGraphs : TRUE
             /\ events = {} /\ asked.maxDepth = 2 /\ ~asked.includeEvents /\ ~asked.includeHubs
OneMap == ~filtered /\ approved = {}

MCInit == /\ part \in {"refresh", "download", "paths", "map"}
          /\ RefreshInit /\ HTTPInit
          /\ PathInit /\ (part = "paths" \/ OneSearch)
          /\ MapInit /\ (part = "map" \/ OneMap)

MCNext == \/ part = "refresh" /\ RefreshNext /\ UNCHANGED <<hvars, svars, mapvars, part>>
          \/ part = "download" /\ HTTPNext /\ UNCHANGED <<rvars, svars, mapvars, part>>
          \/ part = "paths" /\ PathNext /\ UNCHANGED <<rvars, hvars, mapvars, part>>
          \/ part = "map" /\ MapNext /\ UNCHANGED <<rvars, hvars, svars, part>>
          \/ part = "refresh" /\ Later = {} /\ UNCHANGED mcvars   \* the calendar ends
          \/ part = "paths" /\ search = "shown" /\ UNCHANGED mcvars
          \/ part = "map" /\ view \notin {"loading", "ready"} /\ UNCHANGED mcvars

Downloading(A) == part = "download" /\ A /\ UNCHANGED <<rvars, svars, mapvars, part>>

\* The clock goes on, threads are scheduled, the wait for the resolver is bounded, and a
\* call on a socket that was shut down or closed returns.  The network owes nothing.
MCSpec == /\ MCInit /\ [][MCNext]_mcvars
          /\ WF_mcvars(Downloading(Proceed)) /\ WF_mcvars(Downloading(DeadlinePasses))
          /\ WF_mcvars(Downloading(Watchdog)) /\ WF_mcvars(Downloading(ResolveFails))
          /\ WF_mcvars(Downloading(Interrupted /\ (Fails \/ ReadEnd)))
=============================================================================
