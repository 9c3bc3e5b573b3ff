---------------------------- MODULE ImportQueue -----------------------------
(***************************************************************************)
(* The durable Parliament import queue of core/import_jobs.py: requests    *)
(* that race to insert one core.ImportRun, and workers                     *)
(* (run_import_worker.py) whose PostgreSQL session owns the queue through  *)
(* an advisory lock while it fetches, applies and finishes one run.        *)
(*                                                                         *)
(* A worker is the client end of a session; the backend is the server end, *)
(* which may outlive its client and may still land a COMMIT nobody hears   *)
(* of.  tx is the open editorial transaction: editorial_transaction() takes*)
(* the editorial advisory lock first, so there is at most one.             *)
(***************************************************************************)
EXTENDS Naturals, FiniteSets

CONSTANTS Ids, Requests, Actors, GitHub, Legislatures, Dates, Workers, Sessions,
          NoRun, NoSession, Today, MaxFaults, MaxDirect

\* A request as enqueue_import receives it; asOf = Today when the date is omitted.
\* by is the administrator, or GitHub for the token-authenticated endpoint.
RequestType == [id : Ids, mode : {"dry_run", "apply"}, leg : Legislatures,
                asOf : Dates \cup {Today}, by : Actors \cup {GitHub}, call : Nat]

RunType == [mode : {"dry_run", "apply"}, leg : Legislatures, asOf : Dates,
           by : Actors \cup {GitHub}]

ASSUME QueueAssumption ==
    /\ Requests \subseteq RequestType
    /\ Dates \subseteq Nat \ {0}
    /\ NoRun \notin Ids /\ NoSession \notin Sessions
    /\ Today \notin Dates /\ GitHub \notin Actors
    /\ MaxFaults \in Nat /\ MaxDirect \in Nat

VARIABLES
    status, stored, error,  \* core.ImportRun, by primary key
    applied,    \* history: times the changes of a run were committed
    published,  \* ParliamentImportState.as_of by legislature, 0 before the first
    perm,       \* administrators that hold core.run_import now
    late,       \* history: runs whose actor has lacked it since before the last check
    reply,      \* progress and answer of each request
    pc, run, session,       \* of each worker: step, claimed run, connection
    open,       \* sessions whose backend is alive
    lock,       \* session that holds the queue's advisory lock
    tx,         \* the open editorial transaction of the queue
    faults, directs         \* counters of the bounds MaxFaults and MaxDirect

ledger   == <<status, stored, error, applied>>
clients  == <<perm, late, reply>>
workers  == <<pc, run, session>>
backends == <<open, lock, tx>>
queueVars == <<ledger, published, clients, workers, backends, faults, directs>>

Active   == {"queued", "running"}
Terminal == {"succeeded", "failed"}
NoTx     == [phase |-> "none", session |-> NoSession, run |-> NoRun]

Pcs == {"down", "idle", "owner", "claimed", "fetching", "fetched", "applying",
        "committing", "failing", "unlock"}
Replies == {"new", "inserting", "rereading", "denied", "accepted", "conflict", "busy"}

QueueTypeOK ==
    /\ status \in [Ids -> {"absent"} \cup Active \cup Terminal]
    /\ stored \in [Ids -> RunType \cup {NoRun}]
    /\ error \in [Ids -> {"none", "failure", "interrupted"}]
    /\ applied \in [Ids -> Nat]
    /\ published \in [Legislatures -> Nat]
    /\ perm \subseteq Actors /\ late \subseteq Ids
    /\ reply \in [Requests -> Replies]
    /\ pc \in [Workers -> Pcs]
    /\ run \in [Workers -> Ids \cup {NoRun}]
    /\ session \in [Workers -> Sessions \cup {NoSession}]
    /\ open \subseteq Sessions /\ lock \in Sessions \cup {NoSession}
    /\ tx \in [phase : {"none", "open", "applied", "commit"},
               session : Sessions \cup {NoSession}, run : Ids \cup {NoRun}]
    /\ faults \in Nat /\ directs \in Nat

QueueInit ==
    /\ status = [i \in Ids |-> "absent"] /\ stored = [i \in Ids |-> NoRun]
    /\ error = [i \in Ids |-> "none"] /\ applied = [i \in Ids |-> 0]
    /\ published = [l \in Legislatures |-> 0]
    /\ perm = Actors /\ late = {}
    /\ reply = [r \in Requests |-> "new"]
    /\ pc = [w \in Workers |-> "down"] /\ run = [w \in Workers |-> NoRun]
    /\ session = [w \in Workers |-> NoSession]
    /\ open = {} /\ lock = NoSession /\ tx = NoTx
    /\ faults = 0 /\ directs = 0

-----------------------------------------------------------------------------
(* Requests: enqueue_import and _replay *)

Permitted(by) == by = GitHub \/ by \in perm

SameRequest(s, r) == /\ s.mode = r.mode /\ s.leg = r.leg /\ s.by = r.by
                     /\ r.asOf = Today \/ s.asOf = r.asOf

ReplayUnchecked(r) == "accepted"    \* mutant: parameters are not compared

\* The answer to a request whose identifier is already in the history.
Replay(r) == IF SameRequest(stored[r.id], r) THEN "accepted" ELSE "conflict"

Answer(r, a) == reply' = [reply EXCEPT ![r] = a]

\* Fresh permission check, then the first read by primary key.
Submit(r) ==
    /\ reply[r] = "new"
    /\ Answer(r, IF ~Permitted(r.by) THEN "denied"
                 ELSE IF status[r.id] # "absent" THEN Replay(r) ELSE "inserting")
    /\ UNCHANGED <<ledger, published, perm, late, workers, backends, faults, directs>>

RejectedByKey(r) == status[r.id] # "absent"     \* mutant: no import_single_active

\* The unique indexes that make the INSERT fail: the key and import_single_active.
Rejected(r) == status[r.id] # "absent" \/ \E i \in Ids : status[i] \in Active

DateAsGiven(r) == {r.asOf}          \* mutant: an omitted date is stored as it came

\* An omitted date becomes the day of the insertion, whichever that is.
DateToStore(r) == IF r.asOf = Today THEN Dates ELSE {r.asOf}

Insert(r) ==
    /\ reply[r] = "inserting"
    /\ ~Rejected(r)
    /\ \E d \in DateToStore(r) :
         stored' = [stored EXCEPT ![r.id] =
                       [mode |-> r.mode, leg |-> r.leg, asOf |-> d, by |-> r.by]]
    /\ status' = [status EXCEPT ![r.id] = "queued"]
    /\ Answer(r, "accepted")
    /\ UNCHANGED <<error, applied, published, perm, late, workers, backends, faults, directs>>

InsertFails(r) ==
    /\ reply[r] = "inserting" /\ Rejected(r)
    /\ Answer(r, "rereading")
    /\ UNCHANGED <<ledger, published, perm, late, workers, backends, faults, directs>>

\* The read after IntegrityError tells an identical request from a busy queue.
Reread(r) ==
    /\ reply[r] = "rereading"
    /\ Answer(r, IF status[r.id] # "absent" THEN Replay(r) ELSE "busy")
    /\ UNCHANGED <<ledger, published, perm, late, workers, backends, faults, directs>>

\* Administrators gain and lose core.run_import at any time.  A run is late once
\* its actor lacks the permission while its worker still has a check to make.
Unsealed(i) == ~(tx.phase = "commit" /\ tx.run = i)
Of(a) == {i \in Ids : status[i] \in Active /\ stored[i].by = a}

Revoke(a) ==
    /\ a \in perm /\ perm' = perm \ {a}
    /\ late' = late \cup {i \in Of(a) : Unsealed(i)}
    /\ UNCHANGED <<ledger, published, reply, workers, backends, faults, directs>>

Grant(a) ==
    /\ a \notin perm /\ perm' = perm \cup {a}
    /\ late' = late \ Of(a)
    /\ UNCHANGED <<ledger, published, reply, workers, backends, faults, directs>>

-----------------------------------------------------------------------------
(* Workers: run_next_import *)

Goto(w, step) == pc' = [pc EXCEPT ![w] = step]

Owns(w) == session[w] \in open /\ lock = session[w]       \* _owns_lock

Mine(w) == tx.phase # "none" /\ tx.session = session[w]

\* A status update waits for the row lock the open transaction holds.
RowFree(i) == tx.run # i

LockIgnored == TRUE                 \* mutant: the result of the try is not used
LockFree == lock = NoSession        \* pg_try_advisory_lock

TryLock(w) ==
    /\ pc[w] = "idle" /\ session[w] \in open
    /\ LockFree /\ lock' = session[w]
    /\ Goto(w, "owner")
    /\ UNCHANGED <<ledger, published, clients, run, session, open, tx, faults, directs>>

NoOrphans == {}                     \* mutant: orphans of a lost owner are left alone
Orphans == {i \in Ids : status[i] = "running"}

Claim(w) ==
    /\ pc[w] = "owner" /\ Owns(w)
    /\ \A i \in Orphans : RowFree(i)
    /\ error' = [i \in Ids |-> IF i \in Orphans THEN "interrupted" ELSE error[i]]
    /\ \/ /\ \A i \in Ids : status[i] # "queued"
          /\ status' = [i \in Ids |-> IF i \in Orphans THEN "failed" ELSE status[i]]
          /\ Goto(w, "unlock")
          /\ UNCHANGED run
       \/ \E q \in Ids :
          /\ status[q] = "queued"
          /\ status' = [i \in Ids |-> IF i \in Orphans THEN "failed"
                                      ELSE IF i = q THEN "running" ELSE status[i]]
          /\ run' = [run EXCEPT ![w] = q]
          /\ Goto(w, "claimed")
    /\ UNCHANGED <<stored, applied, published, clients, session, backends, faults, directs>>

StartFetch(w) ==
    /\ pc[w] = "claimed" /\ session[w] \in open
    /\ Goto(w, IF Permitted(stored[run[w]].by) THEN "fetching" ELSE "failing")
    /\ UNCHANGED <<ledger, published, clients, run, session, backends, faults, directs>>

\* The network answers with a complete matching snapshot, or does not.
Fetch(w) ==
    /\ pc[w] = "fetching"
    /\ \E step \in {"fetched", "failing"} : Goto(w, step)
    /\ UNCHANGED <<ledger, published, clients, run, session, backends, faults, directs>>

\* Ownership, the reread row and the actor are checked under the editorial lock.
BeginApply(w) ==
    /\ pc[w] = "fetched" /\ session[w] \in open /\ tx = NoTx
    /\ IF Owns(w) /\ status[run[w]] = "running" /\ Permitted(stored[run[w]].by)
       THEN /\ tx' = [phase |-> "open", session |-> session[w], run |-> run[w]]
            /\ Goto(w, "applying")
       ELSE /\ Goto(w, "failing") /\ UNCHANGED tx
    /\ UNCHANGED <<ledger, published, clients, run, session, open, lock, faults, directs>>

Rollback(w) == Goto(w, "failing") /\ tx' = NoTx

AnyDate(i) == TRUE                  \* mutant: an older snapshot is applied

\* apply_snapshot refuses a snapshot older than the one that is published.
NotOlder(i) == stored[i].asOf >= published[stored[i].leg]

ApplySnapshot(w) ==
    /\ pc[w] = "applying" /\ Mine(w) /\ tx.phase = "open"
    /\ \/ /\ stored[run[w]].mode = "apply" => NotOlder(run[w])
          /\ tx' = [tx EXCEPT !.phase = "applied"] /\ UNCHANGED pc
       \/ Rollback(w)
    /\ UNCHANGED <<ledger, published, clients, run, session, open, lock, faults, directs>>

OwnershipOnly(w) == Owns(w)         \* mutant: no second permission check

FinalChecks(w) == Permitted(stored[run[w]].by) /\ Owns(w)

\* The checks after application; then COMMIT leaves for the server.
SendCommit(w) ==
    /\ pc[w] = "applying" /\ Mine(w) /\ tx.phase = "applied"
    /\ IF FinalChecks(w)
       THEN tx' = [tx EXCEPT !.phase = "commit"] /\ Goto(w, "committing")
       ELSE Rollback(w)
    /\ UNCHANGED <<ledger, published, clients, run, session, open, lock, faults, directs>>

\* The backend lands the changes and the success in one step, heard or not.
CommitLands ==
    /\ tx.phase = "commit"
    /\ LET i == tx.run IN
         /\ status' = [status EXCEPT ![i] = "succeeded"]
         /\ IF stored[i].mode = "apply"
            THEN /\ applied' = [applied EXCEPT ![i] = @ + 1]
                 /\ published' = [published EXCEPT ![stored[i].leg] = stored[i].asOf]
            ELSE UNCHANGED <<applied, published>>
    /\ tx' = NoTx
    /\ UNCHANGED <<stored, error, clients, workers, open, lock, faults, directs>>

CommitRefused(w) ==
    /\ pc[w] = "committing" /\ session[w] \in open /\ Mine(w)
    /\ Rollback(w)
    /\ UNCHANGED <<ledger, published, clients, run, session, open, lock, faults, directs>>

CommitHeard(w) ==
    /\ pc[w] = "committing" /\ session[w] \in open /\ ~Mine(w)
    /\ Goto(w, "unlock")
    /\ UNCHANGED <<ledger, published, clients, run, session, backends, faults, directs>>

\* The exception handler: only the owner labels the run, and only while RUNNING.
MarkFailed(w) ==
    /\ pc[w] = "failing" /\ Owns(w) /\ RowFree(run[w])
    /\ IF status[run[w]] = "running"
       THEN /\ status' = [status EXCEPT ![run[w]] = "failed"]
            /\ error' = [error EXCEPT ![run[w]] = "failure"]
       ELSE UNCHANGED <<status, error>>
    /\ Goto(w, "unlock")
    /\ UNCHANGED <<stored, applied, published, clients, run, session, backends, faults, directs>>

Unlock(w) ==
    /\ pc[w] = "unlock" /\ session[w] \in open
    /\ lock' = IF lock = session[w] THEN NoSession ELSE lock
    /\ run' = [run EXCEPT ![w] = NoRun]
    /\ Goto(w, "idle")
    /\ UNCHANGED <<ledger, published, clients, session, open, tx, faults, directs>>

-----------------------------------------------------------------------------
(* Processes and sessions end at any time; the platform restarts workers *)

Leave(w) == /\ Goto(w, "down")
            /\ run' = [run EXCEPT ![w] = NoRun]
            /\ session' = [session EXCEPT ![w] = NoSession]

LabelFailed(w) ==                   \* mutant: an unheard COMMIT is labelled a failure
    /\ status' = IF pc[w] = "committing" THEN [status EXCEPT ![run[w]] = "failed"] ELSE status
    /\ error' = IF pc[w] = "committing" THEN [error EXCEPT ![run[w]] = "failure"] ELSE error

RequeueOnExit(w) ==                 \* mutant: a worker that goes puts its run back in the queue
    /\ status' = IF pc[w] = "claimed" THEN [status EXCEPT ![run[w]] = "queued"] ELSE status
    /\ UNCHANGED error

\* An uncertain commit is left to the next owner, whatever the row says now.
LabelOnExit(w) == UNCHANGED <<status, error>>

\* A worker that cannot prove ownership raises and its command exits.
ExitOnError(w) ==
    /\ pc[w] \notin {"down", "fetching"}
    /\ session[w] \notin open \/ (pc[w] \in {"owner", "failing"} /\ ~Owns(w))
    /\ Leave(w) /\ LabelOnExit(w)
    /\ UNCHANGED <<stored, applied, published, clients, backends, faults, directs>>

\* SIGTERM, a kill, or a connection lost at the client: its backend lingers.
Terminate(w) ==
    /\ pc[w] # "down" /\ faults < MaxFaults /\ faults' = faults + 1
    /\ Leave(w)
    /\ UNCHANGED <<ledger, published, clients, backends, directs>>

\* The end of a backend rolls its transaction back and releases its locks.
EndBackend(s) ==
    /\ s \in open /\ open' = open \ {s}
    /\ lock' = IF lock = s THEN NoSession ELSE lock
    /\ tx' = IF tx.session = s THEN NoTx ELSE tx
    /\ UNCHANGED <<ledger, published, clients, workers, directs>>

Lingers(s) == \A w \in Workers : session[w] # s

ReapBackend(s) == Lingers(s) /\ EndBackend(s) /\ UNCHANGED faults

KillBackend(s) == ~Lingers(s) /\ EndBackend(s)
                  /\ faults < MaxFaults /\ faults' = faults + 1

Restart(w) ==
    /\ pc[w] = "down"
    /\ \E s \in Sessions \ open :
         /\ Lingers(s)
         /\ open' = open \cup {s}
         /\ session' = [session EXCEPT ![w] = s]
    /\ Goto(w, "idle")
    /\ UNCHANGED <<ledger, published, clients, run, lock, tx, faults, directs>>

\* import_parliament --apply and refresh_sources apply snapshots of their own,
\* under the same editorial lock and the same comparison with the stored date.
DirectApply(l, d) ==
    /\ tx = NoTx /\ directs < MaxDirect /\ directs' = directs + 1
    /\ d >= published[l]
    /\ published' = [published EXCEPT ![l] = d]
    /\ UNCHANGED <<ledger, clients, workers, backends, faults>>

Work(w) == \/ TryLock(w) \/ Claim(w) \/ StartFetch(w) \/ Fetch(w) \/ BeginApply(w)
           \/ ApplySnapshot(w) \/ SendCommit(w) \/ CommitHeard(w) \/ MarkFailed(w)
           \/ Unlock(w) \/ ExitOnError(w) \/ Restart(w)

Ask(r) == Submit(r) \/ Insert(r) \/ InsertFails(r) \/ Reread(r)

\* Everything that goes on behind those who ask.
Background ==
        \/ \E a \in Actors : Revoke(a) \/ Grant(a)
        \/ \E w \in Workers : Work(w) \/ CommitRefused(w) \/ Terminate(w)
        \/ CommitLands
        \/ \E s \in Sessions : ReapBackend(s) \/ KillBackend(s)
        \/ \E l \in Legislatures, d \in Dates : DirectApply(l, d)

QueueNext == (\E r \in Requests : Ask(r)) \/ Background

QueueSpec == QueueInit /\ [][QueueNext]_queueVars

-----------------------------------------------------------------------------
(* Properties *)

\* The failure text promises that nothing of a failed run was applied
\* (import_jobs.py _FAILURE, _INTERRUPTED), and a success is never a lost one:
\* the changes of an apply run are in the database exactly when, and only once,
\* its row says succeeded, whatever became of sessions, workers and commits.
AppliedExactlyOnSuccess ==
    \A i \in Ids :
        applied[i] = IF status[i] = "succeeded" /\ stored[i].mode = "apply" THEN 1 ELSE 0

\* Orphan recovery in run_next_import ("an active owner would still hold the
\* session lock") never labels interrupted a run some connected worker is still
\* processing, or one whose transaction may still land.
InterruptedOnlyOrphans ==
    [][\A i \in Ids :
          error[i] = "none" /\ error'[i] = "interrupted" =>
              /\ tx.run # i
              /\ \A w \in Workers : run[w] = i => session[w] \notin open]_queueVars

\* Permissions are never cached across queue and fetch boundaries
\* (_require_admin): a run whose administrator has lacked the permission since
\* before the worker's last check never succeeds.
RevokedNeverSucceeds == \A i \in late : status[i] # "succeeded"

\* The published reference date of a legislature never goes back, although queued
\* runs and direct imports fetch outside any transaction and finish in any order.
PublishedNeverOlder ==
    [][\A l \in Legislatures : published'[l] >= published[l]]_queueVars

\* A request answered as accepted stands for a stored run with its own mode,
\* legislature, origin and date; one answered as conflicting, for another's run.
AnswersAreTruthful ==
    \A r \in Requests :
        /\ reply[r] = "accepted" => status[r.id] # "absent" /\ SameRequest(stored[r.id], r)
        /\ reply[r] = "conflict" => status[r.id] # "absent" /\ ~SameRequest(stored[r.id], r)

\* At most one worker at a time fetches and applies: two connected workers never
\* both hold a claimed run, so a restarted worker cannot overtake a live owner.
OneConnectedOwner ==
    \A v, w \in Workers :
        run[v] # NoRun /\ run[w] # NoRun /\ {session[v], session[w]} \subseteq open => v = w

\* The history a reader sees is the one ImportLedger describes.
Ledger == INSTANCE ImportLedger WITH status <- status, applied <- applied
ImplementsLedger == Ledger!Spec

\* Every queued run is settled, however its workers end, once they stop failing; a
\* dispatcher that stopped watching changes nothing of it (operations.md: a workflow
\* timeout does not cancel the durable job).  ImportDispatch states the fairness.
QueuedSettles ==
    \A i \in Ids : status[i] \in Active ~> status[i] \in Terminal
=============================================================================
