--------------------------- MODULE ImportDispatch ---------------------------
(***************************************************************************)
(* scripts/import_dispatch.py, the workflow step that submits one import   *)
(* and polls it, with the endpoint it talks to (core/import_api.py) and    *)
(* the queue behind both (ImportQueue).                                    *)
(*                                                                         *)
(* An answer is computed by the server in one step and heard, if at all,   *)
(* in a later one: it may be lost, or overtaken by the worker, and an      *)
(* alarm ends the dispatcher at any time while the run goes on without it. *)
(***************************************************************************)
EXTENDS ImportQueue

CONSTANTS Dispatched,   \* the requests that dispatchers submit
          Periods       \* [Legislatures -> [Dates -> Nat]]: periods the source lists

Seats == 230            \* import_dispatch.py _run

\* configuration() fills a blank date in before it submits, so none is left open.
ASSUME DispatchAssumption ==
    /\ Dispatched \subseteq {r \in Requests : r.by = GitHub /\ r.asOf \in Dates}
    /\ Periods \in [Legislatures -> [Dates -> Nat]]

VARIABLES phase,        \* of each dispatcher: where dispatch() is, or how it ended
          wire,         \* the answer on its way to each dispatcher
          seen          \* the status the last answer showed

observers == <<phase, wire, seen>>
dvars == <<queueVars, observers>>

Ends    == {"success", "failure", "rejected", "unreachable", "timeout", "counts", "transition"}
Waiting == {"posting", "asking"}
Phases  == {"idle", "polling"} \cup Waiting \cup Ends

Nothing == [kind |-> "none"]
Refusal == [kind |-> "refused"]

\* _representation: the stored parameters, the status and, of a success, its counts.
Representation(s, p, i) ==
    [kind |-> "run", status |-> s[i], run |-> p[i],
     serving |-> IF s[i] = "succeeded" THEN Periods[p[i].leg][p[i].asOf] ELSE 0]

Answers == {Nothing, Refusal} \cup
           [kind : {"run"}, status : Active \cup Terminal, run : RunType, serving : Nat]

DTypeOK ==
    /\ phase \in [Dispatched -> Phases]
    /\ wire \in [Dispatched -> Answers]
    /\ seen \in [Dispatched -> Active \cup {"none"}]

DInit == /\ QueueInit
         /\ phase = [r \in Dispatched |-> "idle"]
         /\ wire = [r \in Dispatched |-> Nothing]
         /\ seen = [r \in Dispatched |-> "none"]

Become(r, p) == phase' = [phase EXCEPT ![r] = p]

-----------------------------------------------------------------------------
(* The endpoint *)

\* Only a request the dispatcher sent is served; it may be served after its alarm.
ServePost(r) ==
    /\ phase[r] # "idle" /\ Ask(r)
    /\ wire' = [wire EXCEPT ![r] =
                  IF reply'[r] = "accepted" THEN Representation(status', stored', r.id)
                  ELSE IF reply'[r] \in {"conflict", "busy"} THEN Refusal ELSE @]
    /\ UNCHANGED <<phase, seen>>

ServeGet(r) ==
    /\ phase[r] = "asking" /\ wire[r] = Nothing
    /\ wire' = [wire EXCEPT ![r] = IF status[r.id] = "absent" THEN Refusal
                                   ELSE Representation(status, stored, r.id)]
    /\ UNCHANGED <<queueVars, phase, seen>>

-----------------------------------------------------------------------------
(* The dispatcher: dispatch() and main() *)

Post(r) == /\ phase[r] = "idle" /\ Become(r, "posting")
           /\ UNCHANGED <<queueVars, wire, seen>>

\* After each poll interval the stored run is read again.
Poll(r) == /\ phase[r] = "polling" /\ Become(r, "asking")
           /\ UNCHANGED <<queueVars, wire, seen>>

OwnRun(r, a) == a.run.mode = r.mode /\ a.run.leg = r.leg /\ a.run.asOf = r.asOf

CountsMatch(a) == a.status = "succeeded" => a.serving = Seats

\* What an answer makes of the dispatcher: _request's and _run's refusals, the check
\* of the transition, another round, or the end of the run.
Verdict(r, a) ==
    IF a.kind = "refused" \/ ~OwnRun(r, a) THEN "rejected"
    ELSE IF ~CountsMatch(a) THEN "counts"
    ELSE IF seen[r] = "running" /\ a.status = "queued" THEN "transition"
    ELSE IF a.status \in Active THEN "polling"
    ELSE IF a.status = "succeeded" THEN "success" ELSE "failure"

Hear(r) ==
    /\ phase[r] \in Waiting /\ wire[r] # Nothing
    /\ Become(r, Verdict(r, wire[r]))
    /\ seen' = [seen EXCEPT ![r] = IF Verdict(r, wire[r]) = "polling"
                                   THEN wire[r].status ELSE @]
    /\ wire' = [wire EXCEPT ![r] = Nothing]
    /\ UNCHANGED queueVars

\* The connection fails before, during or after the server's work on the request.
LoseConnection(r) ==
    /\ phase[r] \in Waiting /\ Become(r, "unreachable")
    /\ wire' = [wire EXCEPT ![r] = Nothing]
    /\ UNCHANGED <<queueVars, seen>>

BetweenPolls(r) == phase[r] = "polling"     \* mutant: the deadline is only read between polls

\* SIGALRM reaches main() wherever it is; the deadlines of dispatch() and of each
\* request end in the same message.
Interruptible(r) == phase[r] \in Waiting \cup {"polling"}

Expire(r) == /\ Interruptible(r) /\ Become(r, "timeout")
             /\ UNCHANGED <<queueVars, wire, seen>>

Dispatch(r) == Post(r) \/ Poll(r) \/ Hear(r) \/ LoseConnection(r) \/ Expire(r)

\* Everything in ImportQueue but the requests that dispatchers submit.
QueueStep ==
    /\ (\E r \in Requests \ Dispatched : Ask(r)) \/ Background
    /\ UNCHANGED observers

DNext == \/ \E r \in Dispatched : ServePost(r) \/ ServeGet(r) \/ Dispatch(r)
         \/ QueueStep

DSpec == DInit /\ [][DNext]_dvars

\* The worker's loop and the platform's restart policy keep every worker going; source
\* networking is bounded by the fetcher's deadlines; a server ends a COMMIT it was sent,
\* a request it received and, at last, a backend whose client is gone; signal.alarm fires
\* whatever the network does.  Nothing else is fair: permissions, signals and connection
\* losses may or may not happen, and nothing makes a server answer a dispatcher in time.
DFairSpec ==
    /\ DSpec
    /\ \A w \in Workers : WF_dvars(Work(w) /\ UNCHANGED observers)
    /\ WF_dvars(CommitLands /\ UNCHANGED observers)
    /\ \A s \in Sessions : WF_dvars(ReapBackend(s) /\ UNCHANGED observers)
    /\ \A r \in Requests \ Dispatched : WF_dvars(Ask(r) /\ UNCHANGED observers)
    /\ \A r \in Dispatched : WF_dvars(ServePost(r)) /\ WF_dvars(Expire(r))

-----------------------------------------------------------------------------
(* Properties *)

\* A workflow step that ends in success stands for a run of its own parameters that
\* succeeded, its changes applied once exactly when it asked for them; one that reports
\* a failure, for a run that failed and changed nothing (main(): "no automatic retry was
\* made"), although workers, commits and other requests go on between two polls.  None
\* reports an invalid status transition: whatever workers and their restarts do, no run
\* goes back from running to queued under a dispatcher's eyes.
ReportIsTrue ==
    \A r \in Dispatched :
        /\ phase[r] = "success" =>
              /\ status[r.id] = "succeeded" /\ SameRequest(stored[r.id], r)
              /\ applied[r.id] = IF r.mode = "apply" THEN 1 ELSE 0
        /\ phase[r] = "failure" =>
              status[r.id] = "failed" /\ applied[r.id] = 0
        /\ phase[r] # "transition"

\* Every workflow step ends, although a server may never answer.
DispatchEnds == \A r \in Dispatched : phase[r] # "idle" ~> phase[r] \in Ends
=============================================================================
