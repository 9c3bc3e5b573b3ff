---------------------------- MODULE ImportProofs ----------------------------
(***************************************************************************)
(* Theorems about ImportQueue and ImportDispatch, for any requests,        *)
(* workers, sessions, dates and bounds.  The queue a dispatcher talks to   *)
(* is ImportQueue, and what a dispatcher has heard stays true because the  *)
(* history of a run only moves forward.                                    *)
(***************************************************************************)
EXTENDS ImportDispatch, TLAPS

(* ImportQueue *)

\* The row lock and the status reread keep the run of an open transaction running,
\* until the transaction itself settles it.
TxInv == /\ tx.phase = "none" => tx = NoTx
         /\ tx.phase # "none" => tx.run \in Ids /\ status[tx.run] = "running"
         /\ tx.phase \in {"applied", "commit"} /\ stored[tx.run].mode = "apply" =>
              NotOlder(tx.run)

HasRun == {"claimed", "fetching", "fetched", "applying", "committing", "failing"}

\* Where a worker can be with a claimed run.
RunInv == \A w \in Workers :
            /\ pc[w] \in HasRun => run[w] \in Ids
            /\ pc[w] \in {"down", "idle", "owner"} => run[w] = NoRun

\* What a row of the history holds, and how often its changes were committed.
RowInv == \A i \in Ids :
            /\ status[i] # "absent" => stored[i] \in RunType
            /\ applied[i] = IF status[i] = "succeeded" /\ stored[i].mode = "apply"
                            THEN 1 ELSE 0

\* A late run waits for a check that its actor fails, or has ended otherwise.
LateInv == \A i \in late :
            /\ status[i] # "absent" /\ status[i] # "succeeded"
            /\ status[i] \in Active => stored[i].by \in Actors /\ stored[i].by \notin perm
            /\ tx.phase = "commit" => tx.run # i

\* The advisory lock follows the backend, never the client.
OwnerInv ==
    /\ lock # NoSession => lock \in open
    /\ tx.phase # "none" => tx.session \in open /\ lock = tx.session
    /\ \A v, w \in Workers : session[v] = session[w] /\ session[v] # NoSession => v = w
    /\ \A w \in Workers :
        /\ pc[w] = "down" <=> session[w] = NoSession
        /\ pc[w] \notin {"down", "idle"} /\ session[w] \in open => lock = session[w]
        /\ tx.phase # "none" /\ session[w] = tx.session =>
              run[w] = tx.run /\ pc[w] = IF tx.phase = "commit" THEN "committing" ELSE "applying"

IInv == QueueTypeOK /\ TxInv /\ RunInv /\ RowInv /\ LateInv /\ OwnerInv /\ AnswersAreTruthful

-----------------------------------------------------------------------------
(* Every step keeps every part of the invariant *)

\* Each variable keeps its type.
LEMMA TypeStep == QueueTypeOK /\ RunInv /\ TxInv /\ RowInv /\ QueueNext => QueueTypeOK'
  <1> SUFFICES ASSUME QueueTypeOK, RunInv, TxInv, RowInv, QueueNext
               PROVE  QueueTypeOK'
    OBVIOUS
  <1> USE DEF QueueTypeOK, ledger, clients, workers, backends
  <1>1. ASSUME NEW r \in Requests, Submit(r) PROVE QueueTypeOK'
    BY <1>1 DEF Submit, Answer, Replies, Replay
  <1>2. ASSUME NEW r \in Requests, Insert(r) PROVE QueueTypeOK'
    BY <1>2, QueueAssumption DEF Insert, Answer, Replies, DateToStore, RequestType, RunType,
       QueueAssumption, Active
  <1>3. ASSUME NEW r \in Requests, InsertFails(r) PROVE QueueTypeOK'
    BY <1>3 DEF InsertFails, Answer, Replies
  <1>4. ASSUME NEW r \in Requests, Reread(r) PROVE QueueTypeOK'
    BY <1>4 DEF Reread, Answer, Replies, Replay
  <1>5. ASSUME NEW a \in Actors, Revoke(a) PROVE QueueTypeOK'
    BY <1>5 DEF Revoke, Of
  <1>6. ASSUME NEW a \in Actors, Grant(a) PROVE QueueTypeOK'
    BY <1>6 DEF Grant, Of
  <1>7. ASSUME NEW w \in Workers, TryLock(w) PROVE QueueTypeOK'
    BY <1>7 DEF TryLock, Goto, Pcs
  <1>8. ASSUME NEW w \in Workers, Claim(w) PROVE QueueTypeOK'
    BY <1>8 DEF Claim, Goto, Pcs, Orphans, Active, Terminal
  <1>9. ASSUME NEW w \in Workers, StartFetch(w) PROVE QueueTypeOK'
    BY <1>9 DEF StartFetch, Goto, Pcs
  <1>10. ASSUME NEW w \in Workers, Fetch(w) PROVE QueueTypeOK'
    BY <1>10 DEF Fetch, Goto, Pcs
  <1>11. ASSUME NEW w \in Workers, BeginApply(w) PROVE QueueTypeOK'
    BY <1>11 DEF BeginApply, Goto, Pcs, RunInv, HasRun
  <1>12. ASSUME NEW w \in Workers, ApplySnapshot(w) PROVE QueueTypeOK'
    BY <1>12 DEF ApplySnapshot, Goto, Pcs, Rollback, NoTx
  <1>13. ASSUME NEW w \in Workers, SendCommit(w) PROVE QueueTypeOK'
    BY <1>13 DEF SendCommit, Goto, Pcs, Rollback, NoTx
  <1>14. ASSUME NEW w \in Workers, CommitHeard(w) PROVE QueueTypeOK'
    BY <1>14 DEF CommitHeard, Goto, Pcs
  <1>15. ASSUME NEW w \in Workers, MarkFailed(w) PROVE QueueTypeOK'
    BY <1>15 DEF MarkFailed, Goto, Pcs, Terminal
  <1>16. ASSUME NEW w \in Workers, Unlock(w) PROVE QueueTypeOK'
    BY <1>16 DEF Unlock, Goto, Pcs
  <1>17. ASSUME NEW w \in Workers, ExitOnError(w) PROVE QueueTypeOK'
    BY <1>17 DEF ExitOnError, Goto, Pcs, Leave, LabelOnExit
  <1>18. ASSUME NEW w \in Workers, Restart(w) PROVE QueueTypeOK'
    BY <1>18 DEF Restart, Goto, Pcs
  <1>19. ASSUME NEW w \in Workers, CommitRefused(w) PROVE QueueTypeOK'
    BY <1>19 DEF CommitRefused, Goto, Pcs, Rollback, NoTx
  <1>20. ASSUME NEW w \in Workers, Terminate(w) PROVE QueueTypeOK'
    BY <1>20, QueueAssumption DEF Terminate, Goto, Pcs, Leave
  <1>21. ASSUME CommitLands PROVE QueueTypeOK'
    <2>1. tx.run \in Ids /\ stored[tx.run] \in RunType BY <1>21 DEF CommitLands, TxInv, RowInv
    <2>2. stored[tx.run].asOf \in Nat BY <2>1, QueueAssumption DEF RunType, QueueAssumption
    <2>. QED BY <1>21, <2>1, <2>2 DEF CommitLands, NoTx, Terminal
  <1>22. ASSUME NEW s \in Sessions, ReapBackend(s) PROVE QueueTypeOK'
    BY <1>22 DEF ReapBackend, EndBackend, NoTx
  <1>23. ASSUME NEW s \in Sessions, KillBackend(s) PROVE QueueTypeOK'
    BY <1>23, QueueAssumption DEF KillBackend, EndBackend, NoTx, QueueAssumption
  <1>24. ASSUME NEW l \in Legislatures, NEW d \in Dates, DirectApply(l, d) PROVE QueueTypeOK'
    BY <1>24, QueueAssumption DEF DirectApply, QueueAssumption
  <1>. QED
    BY <1>1, <1>2, <1>3, <1>4, <1>5, <1>6, <1>7, <1>8,
        <1>9, <1>10, <1>11, <1>12, <1>13, <1>14, <1>15, <1>16,
        <1>17, <1>18, <1>19, <1>20, <1>21, <1>22, <1>23, <1>24
    DEF QueueNext, Background, Work, Ask

\* The transaction keeps its run running and its snapshot no older than the published one.
LEMMA TxStep == QueueTypeOK /\ RunInv /\ TxInv /\ OwnerInv /\ QueueNext => TxInv'
  <1> SUFFICES ASSUME QueueTypeOK, RunInv, TxInv, OwnerInv, QueueNext
               PROVE  TxInv'
    OBVIOUS
  <1> USE DEF QueueTypeOK, TxInv, NoTx, NotOlder, ledger, clients, workers, backends
  <1>1. ASSUME NEW r \in Requests, Submit(r) PROVE TxInv'
    BY <1>1 DEF Submit
  <1>2. ASSUME NEW r \in Requests, Insert(r) PROVE TxInv'
    BY <1>2 DEF Insert, Rejected, NotOlder
  <1>3. ASSUME NEW r \in Requests, InsertFails(r) PROVE TxInv'
    BY <1>3 DEF InsertFails
  <1>4. ASSUME NEW r \in Requests, Reread(r) PROVE TxInv'
    BY <1>4 DEF Reread
  <1>5. ASSUME NEW a \in Actors, Revoke(a) PROVE TxInv'
    BY <1>5 DEF Revoke
  <1>6. ASSUME NEW a \in Actors, Grant(a) PROVE TxInv'
    BY <1>6 DEF Grant
  <1>7. ASSUME NEW w \in Workers, TryLock(w) PROVE TxInv'
    BY <1>7 DEF TryLock
  <1>8. ASSUME NEW w \in Workers, Claim(w) PROVE TxInv'
    BY <1>8 DEF Claim, Orphans, RowFree
  <1>9. ASSUME NEW w \in Workers, StartFetch(w) PROVE TxInv'
    BY <1>9 DEF StartFetch
  <1>10. ASSUME NEW w \in Workers, Fetch(w) PROVE TxInv'
    BY <1>10 DEF Fetch
  <1>11. ASSUME NEW w \in Workers, BeginApply(w) PROVE TxInv'
    BY <1>11 DEF BeginApply, RunInv, HasRun
  <1>12. ASSUME NEW w \in Workers, ApplySnapshot(w) PROVE TxInv'
    BY <1>12 DEF ApplySnapshot, Rollback, NotOlder, Mine, OwnerInv
  <1>13. ASSUME NEW w \in Workers, SendCommit(w) PROVE TxInv'
    BY <1>13 DEF SendCommit, Rollback, NotOlder, Mine
  <1>14. ASSUME NEW w \in Workers, CommitHeard(w) PROVE TxInv'
    BY <1>14 DEF CommitHeard
  <1>15. ASSUME NEW w \in Workers, MarkFailed(w) PROVE TxInv'
    BY <1>15 DEF MarkFailed, RowFree
  <1>16. ASSUME NEW w \in Workers, Unlock(w) PROVE TxInv'
    BY <1>16 DEF Unlock
  <1>17. ASSUME NEW w \in Workers, ExitOnError(w) PROVE TxInv'
    BY <1>17 DEF ExitOnError, LabelOnExit
  <1>18. ASSUME NEW w \in Workers, Restart(w) PROVE TxInv'
    BY <1>18 DEF Restart
  <1>19. ASSUME NEW w \in Workers, CommitRefused(w) PROVE TxInv'
    BY <1>19 DEF CommitRefused, Rollback
  <1>20. ASSUME NEW w \in Workers, Terminate(w) PROVE TxInv'
    BY <1>20 DEF Terminate
  <1>21. ASSUME CommitLands PROVE TxInv'
    BY <1>21 DEF CommitLands
  <1>22. ASSUME NEW s \in Sessions, ReapBackend(s) PROVE TxInv'
    BY <1>22 DEF ReapBackend, EndBackend
  <1>23. ASSUME NEW s \in Sessions, KillBackend(s) PROVE TxInv'
    BY <1>23 DEF KillBackend, EndBackend
  <1>24. ASSUME NEW l \in Legislatures, NEW d \in Dates, DirectApply(l, d) PROVE TxInv'
    BY <1>24 DEF DirectApply, NotOlder
  <1>. QED
    BY <1>1, <1>2, <1>3, <1>4, <1>5, <1>6, <1>7, <1>8,
        <1>9, <1>10, <1>11, <1>12, <1>13, <1>14, <1>15, <1>16,
        <1>17, <1>18, <1>19, <1>20, <1>21, <1>22, <1>23, <1>24
    DEF QueueNext, Background, Work, Ask

\* A worker works on a claimed run and on nothing else.
LEMMA RunStep == QueueTypeOK /\ RunInv /\ QueueNext => RunInv'
  <1> SUFFICES ASSUME QueueTypeOK, RunInv, QueueNext
               PROVE  RunInv'
    OBVIOUS
  <1> USE DEF QueueTypeOK, RunInv, HasRun, Goto, ledger, clients, workers, backends
  <1>1. ASSUME NEW r \in Requests, Submit(r) PROVE RunInv'
    BY <1>1 DEF Submit
  <1>2. ASSUME NEW r \in Requests, Insert(r) PROVE RunInv'
    BY <1>2 DEF Insert
  <1>3. ASSUME NEW r \in Requests, InsertFails(r) PROVE RunInv'
    BY <1>3 DEF InsertFails
  <1>4. ASSUME NEW r \in Requests, Reread(r) PROVE RunInv'
    BY <1>4 DEF Reread
  <1>5. ASSUME NEW a \in Actors, Revoke(a) PROVE RunInv'
    BY <1>5 DEF Revoke
  <1>6. ASSUME NEW a \in Actors, Grant(a) PROVE RunInv'
    BY <1>6 DEF Grant
  <1>7. ASSUME NEW w \in Workers, TryLock(w) PROVE RunInv'
    BY <1>7 DEF TryLock
  <1>8. ASSUME NEW w \in Workers, Claim(w) PROVE RunInv'
    BY <1>8 DEF Claim
  <1>9. ASSUME NEW w \in Workers, StartFetch(w) PROVE RunInv'
    BY <1>9 DEF StartFetch
  <1>10. ASSUME NEW w \in Workers, Fetch(w) PROVE RunInv'
    BY <1>10 DEF Fetch
  <1>11. ASSUME NEW w \in Workers, BeginApply(w) PROVE RunInv'
    BY <1>11 DEF BeginApply
  <1>12. ASSUME NEW w \in Workers, ApplySnapshot(w) PROVE RunInv'
    BY <1>12 DEF ApplySnapshot, Rollback
  <1>13. ASSUME NEW w \in Workers, SendCommit(w) PROVE RunInv'
    BY <1>13 DEF SendCommit, Rollback
  <1>14. ASSUME NEW w \in Workers, CommitHeard(w) PROVE RunInv'
    BY <1>14 DEF CommitHeard
  <1>15. ASSUME NEW w \in Workers, MarkFailed(w) PROVE RunInv'
    BY <1>15 DEF MarkFailed
  <1>16. ASSUME NEW w \in Workers, Unlock(w) PROVE RunInv'
    BY <1>16 DEF Unlock
  <1>17. ASSUME NEW w \in Workers, ExitOnError(w) PROVE RunInv'
    BY <1>17 DEF ExitOnError, Leave
  <1>18. ASSUME NEW w \in Workers, Restart(w) PROVE RunInv'
    BY <1>18 DEF Restart
  <1>19. ASSUME NEW w \in Workers, CommitRefused(w) PROVE RunInv'
    BY <1>19 DEF CommitRefused, Rollback
  <1>20. ASSUME NEW w \in Workers, Terminate(w) PROVE RunInv'
    BY <1>20 DEF Terminate, Leave
  <1>21. ASSUME CommitLands PROVE RunInv'
    BY <1>21 DEF CommitLands
  <1>22. ASSUME NEW s \in Sessions, ReapBackend(s) PROVE RunInv'
    BY <1>22 DEF ReapBackend, EndBackend
  <1>23. ASSUME NEW s \in Sessions, KillBackend(s) PROVE RunInv'
    BY <1>23 DEF KillBackend, EndBackend
  <1>24. ASSUME NEW l \in Legislatures, NEW d \in Dates, DirectApply(l, d) PROVE RunInv'
    BY <1>24 DEF DirectApply
  <1>. QED
    BY <1>1, <1>2, <1>3, <1>4, <1>5, <1>6, <1>7, <1>8,
        <1>9, <1>10, <1>11, <1>12, <1>13, <1>14, <1>15, <1>16,
        <1>17, <1>18, <1>19, <1>20, <1>21, <1>22, <1>23, <1>24
    DEF QueueNext, Background, Work, Ask

\* Changes are committed once, with the success that reports them.
LEMMA RowStep == QueueTypeOK /\ TxInv /\ RowInv /\ QueueNext => RowInv'
  <1> SUFFICES ASSUME QueueTypeOK, TxInv, RowInv, QueueNext
               PROVE  RowInv'
    OBVIOUS
  <1> USE DEF QueueTypeOK, RowInv, ledger, clients, workers, backends
  <1>1. ASSUME NEW r \in Requests, Submit(r) PROVE RowInv'
    BY <1>1 DEF Submit
  <1>2. ASSUME NEW r \in Requests, Insert(r) PROVE RowInv'
    BY <1>2, QueueAssumption DEF Insert, QueueAssumption, RequestType, RunType, Rejected,
       DateToStore
  <1>3. ASSUME NEW r \in Requests, InsertFails(r) PROVE RowInv'
    BY <1>3 DEF InsertFails
  <1>4. ASSUME NEW r \in Requests, Reread(r) PROVE RowInv'
    BY <1>4 DEF Reread
  <1>5. ASSUME NEW a \in Actors, Revoke(a) PROVE RowInv'
    BY <1>5 DEF Revoke
  <1>6. ASSUME NEW a \in Actors, Grant(a) PROVE RowInv'
    BY <1>6 DEF Grant
  <1>7. ASSUME NEW w \in Workers, TryLock(w) PROVE RowInv'
    BY <1>7 DEF TryLock
  <1>8. ASSUME NEW w \in Workers, Claim(w) PROVE RowInv'
    BY <1>8 DEF Claim, Orphans
  <1>9. ASSUME NEW w \in Workers, StartFetch(w) PROVE RowInv'
    BY <1>9 DEF StartFetch
  <1>10. ASSUME NEW w \in Workers, Fetch(w) PROVE RowInv'
    BY <1>10 DEF Fetch
  <1>11. ASSUME NEW w \in Workers, BeginApply(w) PROVE RowInv'
    BY <1>11 DEF BeginApply
  <1>12. ASSUME NEW w \in Workers, ApplySnapshot(w) PROVE RowInv'
    BY <1>12 DEF ApplySnapshot
  <1>13. ASSUME NEW w \in Workers, SendCommit(w) PROVE RowInv'
    BY <1>13 DEF SendCommit
  <1>14. ASSUME NEW w \in Workers, CommitHeard(w) PROVE RowInv'
    BY <1>14 DEF CommitHeard
  <1>15. ASSUME NEW w \in Workers, MarkFailed(w) PROVE RowInv'
    BY <1>15 DEF MarkFailed
  <1>16. ASSUME NEW w \in Workers, Unlock(w) PROVE RowInv'
    BY <1>16 DEF Unlock
  <1>17. ASSUME NEW w \in Workers, ExitOnError(w) PROVE RowInv'
    BY <1>17 DEF ExitOnError, LabelOnExit
  <1>18. ASSUME NEW w \in Workers, Restart(w) PROVE RowInv'
    BY <1>18 DEF Restart
  <1>19. ASSUME NEW w \in Workers, CommitRefused(w) PROVE RowInv'
    BY <1>19 DEF CommitRefused
  <1>20. ASSUME NEW w \in Workers, Terminate(w) PROVE RowInv'
    BY <1>20 DEF Terminate
  <1>21. ASSUME CommitLands PROVE RowInv'
    BY <1>21 DEF CommitLands, TxInv
  <1>22. ASSUME NEW s \in Sessions, ReapBackend(s) PROVE RowInv'
    BY <1>22 DEF ReapBackend, EndBackend
  <1>23. ASSUME NEW s \in Sessions, KillBackend(s) PROVE RowInv'
    BY <1>23 DEF KillBackend, EndBackend
  <1>24. ASSUME NEW l \in Legislatures, NEW d \in Dates, DirectApply(l, d) PROVE RowInv'
    BY <1>24 DEF DirectApply
  <1>. QED
    BY <1>1, <1>2, <1>3, <1>4, <1>5, <1>6, <1>7, <1>8,
        <1>9, <1>10, <1>11, <1>12, <1>13, <1>14, <1>15, <1>16,
        <1>17, <1>18, <1>19, <1>20, <1>21, <1>22, <1>23, <1>24
    DEF QueueNext, Background, Work, Ask

\* A revocation before the last check outlives every other step.
LEMMA LateStep ==
    QueueTypeOK /\ TxInv /\ RunInv /\ RowInv /\ LateInv /\ OwnerInv /\ QueueNext => LateInv'
  <1> SUFFICES ASSUME QueueTypeOK, TxInv, RunInv, RowInv, LateInv, OwnerInv, QueueNext
               PROVE  LateInv'
    OBVIOUS
  <1> USE DEF QueueTypeOK, LateInv, Active, ledger, clients, workers, backends
  <1>1. ASSUME NEW r \in Requests, Submit(r) PROVE LateInv'
    BY <1>1 DEF Submit
  <1>2. ASSUME NEW r \in Requests, Insert(r) PROVE LateInv'
    BY <1>2 DEF Insert, Rejected
  <1>3. ASSUME NEW r \in Requests, InsertFails(r) PROVE LateInv'
    BY <1>3 DEF InsertFails
  <1>4. ASSUME NEW r \in Requests, Reread(r) PROVE LateInv'
    BY <1>4 DEF Reread
  <1>5. ASSUME NEW a \in Actors, Revoke(a) PROVE LateInv'
    BY <1>5, QueueAssumption DEF Revoke, Of, Unsealed
  <1>6. ASSUME NEW a \in Actors, Grant(a) PROVE LateInv'
    BY <1>6, QueueAssumption DEF Grant, Of
  <1>7. ASSUME NEW w \in Workers, TryLock(w) PROVE LateInv'
    BY <1>7 DEF TryLock
  <1>8. ASSUME NEW w \in Workers, Claim(w) PROVE LateInv'
    BY <1>8 DEF Claim, Orphans
  <1>9. ASSUME NEW w \in Workers, StartFetch(w) PROVE LateInv'
    BY <1>9 DEF StartFetch
  <1>10. ASSUME NEW w \in Workers, Fetch(w) PROVE LateInv'
    BY <1>10 DEF Fetch
  <1>11. ASSUME NEW w \in Workers, BeginApply(w) PROVE LateInv'
    BY <1>11 DEF BeginApply
  <1>12. ASSUME NEW w \in Workers, ApplySnapshot(w) PROVE LateInv'
    BY <1>12 DEF ApplySnapshot, Rollback, NoTx
  <1>13. ASSUME NEW w \in Workers, SendCommit(w) PROVE LateInv'
    BY <1>13, QueueAssumption DEF SendCommit, Rollback, NoTx, FinalChecks, Permitted, OwnerInv,
       Mine, TxInv, QueueAssumption
  <1>14. ASSUME NEW w \in Workers, CommitHeard(w) PROVE LateInv'
    BY <1>14 DEF CommitHeard
  <1>15. ASSUME NEW w \in Workers, MarkFailed(w) PROVE LateInv'
    BY <1>15 DEF MarkFailed
  <1>16. ASSUME NEW w \in Workers, Unlock(w) PROVE LateInv'
    BY <1>16 DEF Unlock
  <1>17. ASSUME NEW w \in Workers, ExitOnError(w) PROVE LateInv'
    BY <1>17 DEF ExitOnError, LabelOnExit
  <1>18. ASSUME NEW w \in Workers, Restart(w) PROVE LateInv'
    BY <1>18 DEF Restart
  <1>19. ASSUME NEW w \in Workers, CommitRefused(w) PROVE LateInv'
    BY <1>19 DEF CommitRefused, Rollback, NoTx
  <1>20. ASSUME NEW w \in Workers, Terminate(w) PROVE LateInv'
    BY <1>20 DEF Terminate
  <1>21. ASSUME CommitLands PROVE LateInv'
    BY <1>21 DEF CommitLands, NoTx, TxInv
  <1>22. ASSUME NEW s \in Sessions, ReapBackend(s) PROVE LateInv'
    BY <1>22 DEF ReapBackend, EndBackend, NoTx
  <1>23. ASSUME NEW s \in Sessions, KillBackend(s) PROVE LateInv'
    BY <1>23 DEF KillBackend, EndBackend, NoTx
  <1>24. ASSUME NEW l \in Legislatures, NEW d \in Dates, DirectApply(l, d) PROVE LateInv'
    BY <1>24 DEF DirectApply
  <1>. QED
    BY <1>1, <1>2, <1>3, <1>4, <1>5, <1>6, <1>7, <1>8,
        <1>9, <1>10, <1>11, <1>12, <1>13, <1>14, <1>15, <1>16,
        <1>17, <1>18, <1>19, <1>20, <1>21, <1>22, <1>23, <1>24
    DEF QueueNext, Background, Work, Ask

\* The lock, the open transaction and the worker of the lock agree.
LEMMA OwnerStep == QueueTypeOK /\ TxInv /\ RunInv /\ OwnerInv /\ QueueNext => OwnerInv'
  <1> SUFFICES ASSUME QueueTypeOK, TxInv, RunInv, OwnerInv, QueueNext
               PROVE  OwnerInv'
    OBVIOUS
  <1> USE DEF QueueTypeOK, OwnerInv, Goto, ledger, clients, workers, backends
  <1>1. ASSUME NEW r \in Requests, Submit(r) PROVE OwnerInv'
    BY <1>1 DEF Submit
  <1>2. ASSUME NEW r \in Requests, Insert(r) PROVE OwnerInv'
    BY <1>2 DEF Insert
  <1>3. ASSUME NEW r \in Requests, InsertFails(r) PROVE OwnerInv'
    BY <1>3 DEF InsertFails
  <1>4. ASSUME NEW r \in Requests, Reread(r) PROVE OwnerInv'
    BY <1>4 DEF Reread
  <1>5. ASSUME NEW a \in Actors, Revoke(a) PROVE OwnerInv'
    BY <1>5 DEF Revoke
  <1>6. ASSUME NEW a \in Actors, Grant(a) PROVE OwnerInv'
    BY <1>6 DEF Grant
  <1>7. ASSUME NEW w \in Workers, TryLock(w) PROVE OwnerInv'
    BY <1>7, QueueAssumption DEF TryLock, LockFree, QueueAssumption
  <1>8. ASSUME NEW w \in Workers, Claim(w) PROVE OwnerInv'
    BY <1>8 DEF Claim
  <1>9. ASSUME NEW w \in Workers, StartFetch(w) PROVE OwnerInv'
    BY <1>9 DEF StartFetch
  <1>10. ASSUME NEW w \in Workers, Fetch(w) PROVE OwnerInv'
    BY <1>10 DEF Fetch
  <1>11. ASSUME NEW w \in Workers, BeginApply(w) PROVE OwnerInv'
    BY <1>11 DEF BeginApply, Owns, NoTx
  <1>12. ASSUME NEW w \in Workers, ApplySnapshot(w) PROVE OwnerInv'
    BY <1>12 DEF ApplySnapshot, Rollback, NoTx, Mine
  <1>13. ASSUME NEW w \in Workers, SendCommit(w) PROVE OwnerInv'
    BY <1>13 DEF SendCommit, Rollback, NoTx, Mine
  <1>14. ASSUME NEW w \in Workers, CommitHeard(w) PROVE OwnerInv'
    BY <1>14 DEF CommitHeard, Mine
  <1>15. ASSUME NEW w \in Workers, MarkFailed(w) PROVE OwnerInv'
    BY <1>15 DEF MarkFailed
  <1>16. ASSUME NEW w \in Workers, Unlock(w) PROVE OwnerInv'
    BY <1>16, QueueAssumption DEF Unlock, QueueAssumption
  <1>17. ASSUME NEW w \in Workers, ExitOnError(w) PROVE OwnerInv'
    BY <1>17, QueueAssumption DEF ExitOnError, Leave, QueueAssumption
  <1>18. ASSUME NEW w \in Workers, Restart(w) PROVE OwnerInv'
    BY <1>18, QueueAssumption DEF Restart, Lingers, QueueAssumption
  <1>19. ASSUME NEW w \in Workers, CommitRefused(w) PROVE OwnerInv'
    BY <1>19 DEF CommitRefused, Rollback, NoTx
  <1>20. ASSUME NEW w \in Workers, Terminate(w) PROVE OwnerInv'
    BY <1>20, QueueAssumption DEF Terminate, Leave, QueueAssumption
  <1>21. ASSUME CommitLands PROVE OwnerInv'
    BY <1>21 DEF CommitLands, NoTx
  <1>22. ASSUME NEW s \in Sessions, ReapBackend(s) PROVE OwnerInv'
    BY <1>22, QueueAssumption DEF ReapBackend, EndBackend, NoTx, QueueAssumption
  <1>23. ASSUME NEW s \in Sessions, KillBackend(s) PROVE OwnerInv'
    BY <1>23, QueueAssumption DEF KillBackend, EndBackend, NoTx, QueueAssumption
  <1>24. ASSUME NEW l \in Legislatures, NEW d \in Dates, DirectApply(l, d) PROVE OwnerInv'
    BY <1>24 DEF DirectApply
  <1>. QED
    BY <1>1, <1>2, <1>3, <1>4, <1>5, <1>6, <1>7, <1>8,
        <1>9, <1>10, <1>11, <1>12, <1>13, <1>14, <1>15, <1>16,
        <1>17, <1>18, <1>19, <1>20, <1>21, <1>22, <1>23, <1>24
    DEF QueueNext, Background, Work, Ask

\* Rows are never rewritten for another request, so an answer stays true.
LEMMA AnswerStep == QueueTypeOK /\ RowInv /\ AnswersAreTruthful /\ QueueNext => AnswersAreTruthful'
  <1> SUFFICES ASSUME QueueTypeOK, RowInv, AnswersAreTruthful, QueueNext
               PROVE  AnswersAreTruthful'
    OBVIOUS
  <1> USE DEF QueueTypeOK, AnswersAreTruthful, ledger, clients, workers, backends
  <1>1. ASSUME NEW r \in Requests, Submit(r) PROVE AnswersAreTruthful'
    BY <1>1 DEF Submit, Answer, Replay
  <1>2. ASSUME NEW r \in Requests, Insert(r) PROVE AnswersAreTruthful'
    BY <1>2, QueueAssumption DEF Insert, Answer, Rejected, DateToStore, SameRequest,
       QueueAssumption, RequestType
  <1>3. ASSUME NEW r \in Requests, InsertFails(r) PROVE AnswersAreTruthful'
    BY <1>3 DEF InsertFails, Answer
  <1>4. ASSUME NEW r \in Requests, Reread(r) PROVE AnswersAreTruthful'
    BY <1>4 DEF Reread, Answer, Replay
  <1>5. ASSUME NEW a \in Actors, Revoke(a) PROVE AnswersAreTruthful'
    BY <1>5 DEF Revoke
  <1>6. ASSUME NEW a \in Actors, Grant(a) PROVE AnswersAreTruthful'
    BY <1>6 DEF Grant
  <1>7. ASSUME NEW w \in Workers, TryLock(w) PROVE AnswersAreTruthful'
    BY <1>7 DEF TryLock
  <1>8. ASSUME NEW w \in Workers, Claim(w) PROVE AnswersAreTruthful'
    BY <1>8, QueueAssumption DEF Claim, Orphans, SameRequest, RequestType, QueueAssumption
  <1>9. ASSUME NEW w \in Workers, StartFetch(w) PROVE AnswersAreTruthful'
    BY <1>9 DEF StartFetch
  <1>10. ASSUME NEW w \in Workers, Fetch(w) PROVE AnswersAreTruthful'
    BY <1>10 DEF Fetch
  <1>11. ASSUME NEW w \in Workers, BeginApply(w) PROVE AnswersAreTruthful'
    BY <1>11 DEF BeginApply
  <1>12. ASSUME NEW w \in Workers, ApplySnapshot(w) PROVE AnswersAreTruthful'
    BY <1>12 DEF ApplySnapshot
  <1>13. ASSUME NEW w \in Workers, SendCommit(w) PROVE AnswersAreTruthful'
    BY <1>13 DEF SendCommit
  <1>14. ASSUME NEW w \in Workers, CommitHeard(w) PROVE AnswersAreTruthful'
    BY <1>14 DEF CommitHeard
  <1>15. ASSUME NEW w \in Workers, MarkFailed(w) PROVE AnswersAreTruthful'
    BY <1>15, QueueAssumption DEF MarkFailed, SameRequest, RequestType, QueueAssumption
  <1>16. ASSUME NEW w \in Workers, Unlock(w) PROVE AnswersAreTruthful'
    BY <1>16 DEF Unlock
  <1>17. ASSUME NEW w \in Workers, ExitOnError(w) PROVE AnswersAreTruthful'
    BY <1>17 DEF ExitOnError, LabelOnExit
  <1>18. ASSUME NEW w \in Workers, Restart(w) PROVE AnswersAreTruthful'
    BY <1>18 DEF Restart
  <1>19. ASSUME NEW w \in Workers, CommitRefused(w) PROVE AnswersAreTruthful'
    BY <1>19 DEF CommitRefused
  <1>20. ASSUME NEW w \in Workers, Terminate(w) PROVE AnswersAreTruthful'
    BY <1>20 DEF Terminate
  <1>21. ASSUME CommitLands PROVE AnswersAreTruthful'
    BY <1>21 DEF CommitLands, TxInv
  <1>22. ASSUME NEW s \in Sessions, ReapBackend(s) PROVE AnswersAreTruthful'
    BY <1>22 DEF ReapBackend, EndBackend
  <1>23. ASSUME NEW s \in Sessions, KillBackend(s) PROVE AnswersAreTruthful'
    BY <1>23 DEF KillBackend, EndBackend
  <1>24. ASSUME NEW l \in Legislatures, NEW d \in Dates, DirectApply(l, d) PROVE AnswersAreTruthful'
    BY <1>24 DEF DirectApply
  <1>. QED
    BY <1>1, <1>2, <1>3, <1>4, <1>5, <1>6, <1>7, <1>8,
        <1>9, <1>10, <1>11, <1>12, <1>13, <1>14, <1>15, <1>16,
        <1>17, <1>18, <1>19, <1>20, <1>21, <1>22, <1>23, <1>24
    DEF QueueNext, Background, Work, Ask

\* The inductive invariant holds in every behaviour.
LEMMA Invariance == QueueSpec => []IInv
  <1>1. QueueInit => IInv
    BY QueueAssumption DEF QueueInit, IInv, QueueTypeOK, TxInv, RunInv, RowInv, LateInv, OwnerInv,
       AnswersAreTruthful, HasRun, NoTx, Pcs, Replies, QueueAssumption
  <1>2. IInv /\ [QueueNext]_queueVars => IInv'
    <2>1. CASE QueueNext
      BY <2>1, TypeStep, TxStep, RunStep, RowStep, LateStep, OwnerStep, AnswerStep DEF IInv
    <2>2. CASE UNCHANGED queueVars
      BY <2>2 DEF queueVars, ledger, clients, workers, backends, IInv, QueueTypeOK, TxInv, RunInv,
         RowInv, LateInv, OwnerInv, AnswersAreTruthful, NoTx, NotOlder
    <2>. QED BY <2>1, <2>2
  <1>. QED BY <1>1, <1>2, PTL DEF QueueSpec

-----------------------------------------------------------------------------
(* Theorems *)

\* Type correctness of the queue for every instance of its constants.
THEOREM TypeCorrect == QueueSpec => []QueueTypeOK
  BY Invariance, PTL DEF IInv

\* What _FAILURE and _INTERRUPTED promise: a failed run changed nothing, a success
\* committed its changes exactly once.
THEOREM ExactlyOnSuccess == QueueSpec => []AppliedExactlyOnSuccess
  <1>1. IInv => AppliedExactlyOnSuccess BY DEF IInv, RowInv, AppliedExactlyOnSuccess
  <1>. QED BY <1>1, Invariance, PTL

\* A revoked administrator's run never succeeds after the revocation was visible
\* to a check.
THEOREM Revocation == QueueSpec => []RevokedNeverSucceeds
  <1>1. IInv => RevokedNeverSucceeds BY DEF IInv, LateInv, RevokedNeverSucceeds
  <1>. QED BY <1>1, Invariance, PTL

\* enqueue_import answers truthfully however requests race.
THEOREM TruthfulAnswers == QueueSpec => []AnswersAreTruthful
  <1>1. IInv => AnswersAreTruthful BY DEF IInv
  <1>. QED BY <1>1, Invariance, PTL

\* The session lock admits one connected owner at a time.
THEOREM Ownership == QueueSpec => []OneConnectedOwner
  <1>1. IInv => OneConnectedOwner
    BY QueueAssumption DEF IInv, QueueTypeOK, RunInv, OwnerInv, OneConnectedOwner, Pcs, HasRun,
       QueueAssumption
  <1>. QED BY <1>1, Invariance, PTL

\* Orphan recovery never interrupts a run that may still finish.
THEOREM OrphansOnly == QueueSpec => InterruptedOnlyOrphans
  <1> DEFINE Safe == \A i \in Ids :
          error[i] = "none" /\ error'[i] = "interrupted" =>
              /\ tx.run # i
              /\ \A w \in Workers : run[w] = i => session[w] \notin open
  <1>1. IInv /\ [QueueNext]_queueVars => [Safe]_queueVars
    <2> SUFFICES ASSUME IInv, QueueNext PROVE Safe
      OBVIOUS
    <2>1. ASSUME NEW w \in Workers, Claim(w) PROVE Safe
      <3> SUFFICES ASSUME NEW i \in Ids, error[i] = "none", error'[i] = "interrupted"
                   PROVE  tx.run # i /\ \A v \in Workers : run[v] = i => session[v] \notin open
        OBVIOUS
      <3>1. i \in Orphans BY <2>1 DEF Claim, IInv, QueueTypeOK
      <3>2. tx.run # i BY <2>1, <3>1 DEF Claim, RowFree
      <3>3. lock = session[w] /\ run[w] = NoRun /\ session[w] \in open
        BY <2>1 DEF Claim, Owns, IInv, RunInv
      <3>4. ASSUME NEW v \in Workers, run[v] = i, session[v] \in open PROVE FALSE
        <4>1. v # w BY <3>3, <3>4, QueueAssumption DEF QueueAssumption
        <4>2. pc[v] \notin {"down", "idle", "owner"}
          BY <3>4, QueueAssumption DEF QueueAssumption, IInv, RunInv
        <4>3. lock = session[v] BY <3>4, <4>2 DEF IInv, OwnerInv
        <4>4. session[v] # NoSession
          BY <3>4, QueueAssumption DEF QueueAssumption, IInv, QueueTypeOK
        <4>5. session[v] = session[w] BY <3>3, <4>3
        <4>. QED BY <4>1, <4>4, <4>5 DEF IInv, OwnerInv
      <3>. QED BY <3>2, <3>4
    <2>2. ASSUME NEW w \in Workers, MarkFailed(w) PROVE Safe
      BY <2>2 DEF MarkFailed, IInv, QueueTypeOK
    <2>3. CASE UNCHANGED error
      BY <2>3
    <2>. QED
      BY <2>1, <2>2, <2>3 DEF QueueNext, Background, Work, Ask, ledger, Submit, Insert,
         InsertFails, Reread, Revoke,
         Grant, TryLock, StartFetch, Fetch, BeginApply, ApplySnapshot, SendCommit, CommitHeard, Unlock,
         ExitOnError, LabelOnExit, Restart, CommitRefused, Terminate, CommitLands, ReapBackend,
         KillBackend, EndBackend, DirectApply
  <1>. QED BY <1>1, Invariance, PTL DEF QueueSpec, InterruptedOnlyOrphans

\* The published reference date of a legislature never goes back.
THEOREM NeverOlder == QueueSpec => PublishedNeverOlder
  <1> DEFINE Mono == \A l \in Legislatures : published'[l] >= published[l]
  <1>1. IInv /\ [QueueNext]_queueVars => [Mono]_queueVars
    <2> SUFFICES ASSUME IInv, QueueNext PROVE Mono
      OBVIOUS
    <2>1. CASE CommitLands
      BY <2>1 DEF CommitLands, IInv, QueueTypeOK, TxInv, RowInv, NotOlder, RunType
    <2>2. ASSUME NEW l \in Legislatures, NEW d \in Dates, DirectApply(l, d) PROVE Mono
      BY <2>2, QueueAssumption DEF DirectApply, IInv, QueueTypeOK, QueueAssumption
    <2>3. CASE UNCHANGED published
      BY <2>3 DEF IInv, QueueTypeOK
    <2>. QED
      BY <2>1, <2>2, <2>3 DEF QueueNext, Background, Work, Ask, Submit, Insert, InsertFails,
         Reread, Revoke,
         Grant, TryLock, Claim, StartFetch, Fetch, BeginApply, ApplySnapshot, SendCommit, CommitHeard,
         MarkFailed, Unlock, ExitOnError, Restart, CommitRefused, Terminate, ReapBackend,
         KillBackend, EndBackend, DirectApply
  <1>. QED BY <1>1, Invariance, PTL DEF QueueSpec, PublishedNeverOlder

\* The import history behaves as ImportLedger says: one active run, no state after
\* the terminal ones, and success together with the changes it stands for.
THEOREM Implementation == QueueSpec => ImplementsLedger
  <1> USE DEF Active, Terminal, Ledger!Active, Ledger!Terminal
  <1>1. QueueInit => Ledger!Init
    BY DEF QueueInit, Ledger!Init
  <1>2. IInv /\ [QueueNext]_queueVars => [Ledger!Next]_(Ledger!vars)
    <2> SUFFICES ASSUME IInv, [QueueNext]_queueVars PROVE [Ledger!Next]_(Ledger!vars)
      OBVIOUS
    <2>1. ASSUME NEW r \in Requests, Insert(r) PROVE Ledger!Next
      <3>1. r.id \in Ids BY QueueAssumption DEF QueueAssumption, RequestType
      <3>2. Ledger!Accept(r.id)
        BY <2>1, <3>1 DEF Insert, Rejected, Ledger!Accept
      <3>. QED BY <3>1, <3>2 DEF Ledger!Next
    <2>2. ASSUME NEW w \in Workers, Claim(w) PROVE Ledger!Next
      <3>1. CASE \A i \in Ids : status[i] # "queued"
        <4>1. Ledger!Fail(Orphans)
          BY <2>2, <3>1 DEF Claim, Orphans, Ledger!Fail
        <4>. QED BY <4>1 DEF Orphans, Ledger!Next
      <3>2. CASE ~ \A i \in Ids : status[i] # "queued"
        <4>1. PICK q \in Ids : Ledger!Start(q, Orphans)
          BY <2>2, <3>2 DEF Claim, Orphans, Ledger!Start
        <4>. QED BY <4>1 DEF Orphans, Ledger!Next
      <3>. QED BY <3>1, <3>2
    <2>3. ASSUME NEW w \in Workers, MarkFailed(w) PROVE Ledger!Next \/ UNCHANGED Ledger!vars
      <3>1. CASE status[run[w]] # "running"
        BY <2>3, <3>1 DEF MarkFailed, Ledger!vars
      <3>2. CASE status[run[w]] = "running"
        <4>1. run[w] \in Ids BY <2>3 DEF MarkFailed, IInv, RunInv, HasRun
        <4>2. Ledger!Fail({run[w]})
          BY <2>3, <3>2, <4>1 DEF MarkFailed, Ledger!Fail, IInv, QueueTypeOK
        <4>. QED BY <4>1, <4>2 DEF Ledger!Next
      <3>. QED BY <3>1, <3>2
    <2>4. ASSUME CommitLands PROVE Ledger!Next
      <3>1. tx.run \in Ids /\ status[tx.run] = "running" /\ applied[tx.run] = 0
        BY <2>4 DEF CommitLands, IInv, TxInv, RowInv
      <3>2. CASE stored[tx.run].mode = "apply"
        <4>1. Ledger!Succeed(tx.run, 1)
          BY <2>4, <3>1, <3>2 DEF CommitLands, Ledger!Succeed, IInv, QueueTypeOK
        <4>. QED BY <3>1, <4>1 DEF Ledger!Next
      <3>3. CASE stored[tx.run].mode # "apply"
        <4>1. Ledger!Succeed(tx.run, 0)
          BY <2>4, <3>1, <3>3 DEF CommitLands, Ledger!Succeed, IInv, QueueTypeOK
        <4>. QED BY <3>1, <4>1 DEF Ledger!Next
      <3>. QED BY <3>2, <3>3
    <2>5. CASE UNCHANGED <<status, applied>>
      BY <2>5 DEF Ledger!vars
    <2>. QED
      BY <2>1, <2>2, <2>3, <2>4, <2>5 DEF QueueNext, Background, Work, Ask, queueVars, ledger,
         Submit, InsertFails,
         Reread, Revoke, Grant, TryLock, StartFetch, Fetch, BeginApply, ApplySnapshot, SendCommit,
         CommitHeard, Unlock, ExitOnError, LabelOnExit, Restart, CommitRefused, Terminate,
         ReapBackend, KillBackend, EndBackend, DirectApply
  <1>. QED BY <1>1, <1>2, Invariance, PTL DEF QueueSpec, ImplementsLedger, Ledger!Spec

(* ImportDispatch *)

\* A row never goes back, and never changes its parameters.
Forward(s, t) == /\ s \in Terminal => t = s
                 /\ s = "running" => t \notin {"absent", "queued"}
                 /\ s = "queued" => t # "absent"

Onward == /\ \A i \in Ids : /\ Forward(status[i], status'[i])
                            /\ status[i] # "absent" => stored'[i] = stored[i]
          /\ \A r \in Requests : reply[r] = "accepted" => reply'[r] = "accepted"

LEMMA HistoryMovesOnward == QueueTypeOK /\ TxInv /\ [QueueNext]_queueVars => Onward
  <1> SUFFICES ASSUME QueueTypeOK, TxInv, [QueueNext]_queueVars
               PROVE  Onward
    OBVIOUS
  <1> USE DEF QueueTypeOK, Onward, Forward, Terminal, ledger, clients, workers, backends
  <1>1. ASSUME NEW r \in Requests, Ask(r) PROVE Onward
    <2>1. CASE Insert(r)
      BY <2>1 DEF Insert, Answer, Rejected
    <2>2. CASE Submit(r) \/ InsertFails(r) \/ Reread(r)
      BY <2>2 DEF Submit, InsertFails, Reread, Answer
    <2> QED BY <1>1, <2>1, <2>2 DEF Ask
  <1>2. ASSUME NEW a \in Actors, Revoke(a) \/ Grant(a) PROVE Onward
    BY <1>2 DEF Revoke, Grant
  <1>3. ASSUME NEW w \in Workers, Work(w) PROVE Onward
    <2>1. CASE Claim(w)
      BY <2>1 DEF Claim, Orphans
    <2>2. CASE MarkFailed(w)
      BY <2>2 DEF MarkFailed
    <2>3. CASE ~Claim(w) /\ ~MarkFailed(w)
      BY <1>3, <2>3 DEF Work, TryLock, StartFetch, Fetch, BeginApply, ApplySnapshot, Rollback,
         SendCommit,
         CommitHeard, Unlock, ExitOnError, LabelOnExit, Restart
    <2> QED BY <2>1, <2>2, <2>3
  <1>4. ASSUME NEW w \in Workers, CommitRefused(w) \/ Terminate(w) PROVE Onward
    BY <1>4 DEF CommitRefused, Terminate, Rollback
  <1>5. CASE CommitLands
    BY <1>5 DEF CommitLands, TxInv
  <1>6. ASSUME NEW s \in Sessions, ReapBackend(s) \/ KillBackend(s) PROVE Onward
    BY <1>6 DEF ReapBackend, KillBackend, EndBackend
  <1>7. ASSUME NEW l \in Legislatures, NEW d \in Dates, DirectApply(l, d) PROVE Onward
    BY <1>7 DEF DirectApply
  <1>8. CASE UNCHANGED queueVars
    BY <1>8 DEF queueVars
  <1> QED BY <1>1, <1>2, <1>3, <1>4, <1>5, <1>6, <1>7, <1>8 DEF QueueNext, Background

-----------------------------------------------------------------------------
(* The dispatchers leave the queue alone *)

LEMMA QueueKept == DSpec => QueueSpec
  <1>1. DInit => QueueInit
    BY DEF DInit
  <1>2. [DNext]_dvars => [QueueNext]_queueVars
    <2> SUFFICES ASSUME [DNext]_dvars PROVE [QueueNext]_queueVars
      OBVIOUS
    <2>1. ASSUME NEW r \in Dispatched, ServePost(r) PROVE QueueNext
      BY <2>1, DispatchAssumption DEF ServePost, QueueNext, DispatchAssumption
    <2>2. ASSUME NEW r \in Dispatched, ServeGet(r) \/ Dispatch(r) PROVE UNCHANGED queueVars
      BY <2>2 DEF ServeGet, Dispatch, Post, Poll, Hear, LoseConnection, Expire
    <2>3. CASE QueueStep
      BY <2>3 DEF QueueStep, QueueNext
    <2>4. CASE UNCHANGED dvars
      BY <2>4 DEF dvars
    <2> QED BY <2>1, <2>2, <2>3, <2>4 DEF DNext
  <1> QED BY <1>1, <1>2, PTL DEF DSpec, QueueSpec

-----------------------------------------------------------------------------
(* What a dispatcher holds was true when it was read, and the run can only have moved on *)

\* An answer on its way shows an earlier state of the run of the request it answers.
WireTrue(r) ==
    wire[r].kind = "run" =>
       /\ reply[r] = "accepted" /\ wire[r].run = stored[r.id]
       /\ wire[r].status # "absent" /\ Forward(wire[r].status, status[r.id])
       /\ seen[r] = "running" => wire[r].status # "queued"

\* A dispatcher polls only a request that was accepted, and remembers what has happened.
SeenTrue(r) ==
    /\ phase[r] \in {"polling", "asking"} \/ seen[r] # "none" => reply[r] = "accepted"
    /\ seen[r] = "running" => status[r.id] \notin {"absent", "queued"}
    /\ phase[r] \in {"success", "failure"} =>
         /\ reply[r] = "accepted"
         /\ status[r.id] = IF phase[r] = "success" THEN "succeeded" ELSE "failed"
    /\ phase[r] # "transition"

DInv == \A r \in Dispatched : WireTrue(r) /\ SeenTrue(r)

LEMMA DispatchTyped == \A r \in Dispatched : r \in Requests /\ r.id \in Ids /\ r.asOf # Today
  BY QueueAssumption, DispatchAssumption DEF QueueAssumption, DispatchAssumption, RequestType

LEMMA WireTyped ==
    ASSUME DTypeOK, NEW r \in Dispatched
    PROVE  /\ wire[r].kind = "run" <=> (wire[r] # Nothing /\ wire[r] # Refusal)
           /\ wire[r].kind = "run" => wire[r].status \in Active \cup Terminal
  BY DEF DTypeOK, Answers, Nothing, Refusal

\* What the queue does behind a dispatcher keeps it.
LEMMA OnwardKeeps ==
    ASSUME QueueTypeOK, QueueTypeOK', DTypeOK, Onward,
           NEW r \in Dispatched, WireTrue(r), SeenTrue(r),
           wire'[r] = wire[r], phase'[r] = phase[r], seen'[r] = seen[r]
    PROVE  WireTrue(r)' /\ SeenTrue(r)'
  <1>1. /\ Forward(status[r.id], status'[r.id])
        /\ status[r.id] # "absent" => stored'[r.id] = stored[r.id]
        /\ reply[r] = "accepted" => reply'[r] = "accepted"
    BY DispatchTyped DEF Onward
  <1>2. wire[r].kind = "run" => Forward(wire[r].status, status'[r.id]) /\ status[r.id] # "absent"
    <2> DEFINE S == {"absent", "queued", "running", "succeeded", "failed"}
    <2>1. status[r.id] \in S /\ status'[r.id] \in S
      BY DispatchTyped DEF QueueTypeOK, Active, Terminal
    <2>2. wire[r].kind = "run" => wire[r].status \in S
      BY WireTyped DEF Active, Terminal
    <2>3. \A a, b, c \in S : Forward(a, b) /\ Forward(b, c) /\ a # "absent" =>
                               Forward(a, c) /\ b # "absent"
      BY DEF Forward, Terminal
    <2> HIDE DEF S
    <2>4. wire[r].kind = "run" => Forward(wire[r].status, status[r.id]) /\ wire[r].status # "absent"
      BY DEF WireTrue
    <2> QED BY <1>1, <2>1, <2>2, <2>3, <2>4
  <1>3. WireTrue(r)'
    BY <1>1, <1>2 DEF WireTrue
  <1>4. SeenTrue(r)'
    <2>1. phase[r] \in {"success", "failure"} => status'[r.id] = status[r.id]
      BY <1>1 DEF SeenTrue, Forward, Terminal
    <2>2. seen[r] = "running" => status'[r.id] \notin {"absent", "queued"}
      <3>1. status[r.id] \in {"absent", "queued", "running", "succeeded", "failed"}
        BY DispatchTyped DEF QueueTypeOK, Active, Terminal
      <3> QED BY <1>1, <3>1 DEF SeenTrue, Forward, Terminal
    <2> QED BY <1>1, <2>1, <2>2 DEF SeenTrue
  <1> QED BY <1>3, <1>4

\* The endpoint and the dispatchers keep the invariant.
LEMMA DispatchStep ==
    ASSUME IInv, IInv', DTypeOK, DInv, Onward, NEW r \in Dispatched,
           ServePost(r) \/ ServeGet(r) \/ Dispatch(r)
    PROVE  DInv'
  <1>1. ASSUME NEW q \in Dispatched, q # r PROVE WireTrue(q)' /\ SeenTrue(q)'
    <2>1. wire'[q] = wire[q] /\ phase'[q] = phase[q] /\ seen'[q] = seen[q]
      BY <1>1 DEF ServePost, ServeGet, Dispatch, Post, Poll, Hear, LoseConnection, Expire, Become,
         DTypeOK
    <2> QED BY <2>1, <1>1, OnwardKeeps DEF DInv, IInv
  <1>2. WireTrue(r)' /\ SeenTrue(r)'
    <2> USE DispatchTyped
    <2>1. WireTrue(r) /\ SeenTrue(r)
      BY DEF DInv
    <2>2. CASE ServePost(r)
      <3> DEFINE a == Representation(status', stored', r.id)
      <3>1. reply[r] # "accepted" /\ wire[r].kind # "run" /\ UNCHANGED <<phase, seen>>
        BY <2>1, <2>2 DEF ServePost, Ask, Submit, Insert, InsertFails, Reread, WireTrue
      <3>2. CASE reply'[r] = "accepted"
        <4>1. wire'[r] = a
          BY <2>2, <3>2 DEF ServePost, DTypeOK
        <4>2. a.run = stored'[r.id] /\ a.status = status'[r.id]
          BY DEF Representation
        <4>3. status'[r.id] # "absent" /\ Forward(status'[r.id], status'[r.id])
          BY <3>2 DEF IInv, AnswersAreTruthful, Forward
        <4>4. seen[r] # "running"
          BY <2>1, <3>1 DEF SeenTrue
        <4> QED BY <2>1, <3>1, <3>2, <4>1, <4>2, <4>3, <4>4 DEF WireTrue, SeenTrue
      <3>3. CASE reply'[r] # "accepted"
        <4>1. wire'[r].kind # "run"
          BY <2>2, <3>1, <3>3 DEF ServePost, DTypeOK, Refusal
        <4> QED BY <2>1, <3>1, <4>1 DEF WireTrue, SeenTrue
      <3> QED BY <3>2, <3>3
    <2>3. CASE ServeGet(r)
      <3>1. UNCHANGED <<status, stored, reply, phase, seen>>
        BY <2>3 DEF ServeGet, queueVars, ledger, clients
      <3>2. CASE status[r.id] = "absent"
        <4>1. wire'[r].kind # "run"
          BY <2>3, <3>2 DEF ServeGet, DTypeOK, Refusal
        <4> QED BY <2>1, <3>1, <4>1 DEF WireTrue, SeenTrue
      <3>3. CASE status[r.id] # "absent"
        <4>1. wire'[r].run = stored[r.id] /\ wire'[r].status = status[r.id]
          BY <2>3, <3>3 DEF ServeGet, DTypeOK, Representation
        <4>2. reply[r] = "accepted"
          BY <2>1, <2>3 DEF ServeGet, SeenTrue
        <4> QED BY <2>1, <3>1, <3>3, <4>1, <4>2 DEF WireTrue, SeenTrue, Forward
      <3> QED BY <3>2, <3>3
    <2>4. CASE Hear(r)
      <3>1. UNCHANGED <<status, stored, reply>>
        BY <2>4 DEF Hear, queueVars, ledger, clients
      <3>2. wire'[r].kind # "run"
        BY <2>4 DEF Hear, DTypeOK, Nothing
      <3>3. phase'[r] = Verdict(r, wire[r])
        BY <2>4 DEF Hear, Become, DTypeOK
      <3>4. seen'[r] = IF Verdict(r, wire[r]) = "polling" THEN wire[r].status ELSE seen[r]
        BY <2>4 DEF Hear, DTypeOK
      <3>5. CASE wire[r] = Refusal
        BY <2>1, <3>1, <3>2, <3>3, <3>4, <3>5 DEF Verdict, Refusal, WireTrue, SeenTrue
      <3>6. CASE wire[r] # Refusal
        <4>1. wire[r].kind = "run" /\ wire[r].status \in Active \cup Terminal
          BY <2>4, <3>6, WireTyped DEF Hear
        <4> QED BY <2>1, <3>1, <3>2, <3>3, <3>4, <4>1
            DEF Verdict, WireTrue, SeenTrue, Forward, Active, Terminal
      <3> QED BY <3>5, <3>6
    <2>5. CASE Post(r) \/ Poll(r) \/ LoseConnection(r) \/ Expire(r)
      <3>1. UNCHANGED <<status, stored, reply, seen>>
        BY <2>5 DEF Post, Poll, LoseConnection, Expire, queueVars, ledger, clients
      <3>2. phase'[r] \in {"posting", "asking", "unreachable", "timeout"}
        BY <2>5 DEF Post, Poll, LoseConnection, Expire, Become, DTypeOK
      <3>3. phase'[r] = "asking" => phase[r] = "polling"
        BY <2>5 DEF Post, Poll, LoseConnection, Expire, Become, DTypeOK
      <3>4. wire'[r] = wire[r] \/ wire'[r].kind # "run"
        BY <2>5 DEF Post, Poll, LoseConnection, Expire, DTypeOK, Nothing
      <3> QED BY <2>1, <3>1, <3>2, <3>3, <3>4 DEF WireTrue, SeenTrue
    <2> QED BY <2>2, <2>3, <2>4, <2>5 DEF Dispatch
  <1> QED BY <1>1, <1>2 DEF DInv

LEMMA DTypeStep ==
    ASSUME IInv, IInv', DTypeOK, [DNext]_dvars PROVE DTypeOK'
  <1> USE DispatchTyped DEF DTypeOK
  <1>0. ASSUME NEW r \in Dispatched, NEW a \in Answers
        PROVE  [wire EXCEPT ![r] = a] \in [Dispatched -> Answers]
    OBVIOUS
  <1>1. ASSUME NEW r \in Dispatched, ServePost(r) PROVE DTypeOK'
    <2> DEFINE a == Representation(status', stored', r.id)
    <2>1. ASSUME reply'[r] = "accepted" PROVE a \in Answers
      <3>1. status'[r.id] \in Active \cup Terminal /\ stored'[r.id] \in RunType
        BY <2>1 DEF IInv, AnswersAreTruthful, QueueTypeOK, RowInv
      <3> QED BY <3>1, DispatchAssumption DEF Representation, Answers, RunType, DispatchAssumption
    <2>2. wire[r] \in Answers /\ Refusal \in Answers
      BY DEF Answers
    <2> QED BY <1>0, <1>1, <2>1, <2>2 DEF ServePost
  <1>2. ASSUME NEW r \in Dispatched, ServeGet(r) PROVE DTypeOK'
    <2> DEFINE a == Representation(status, stored, r.id)
    <2>1. ASSUME status[r.id] # "absent" PROVE a \in Answers
      <3>1. status[r.id] \in Active \cup Terminal /\ stored[r.id] \in RunType
        BY <2>1 DEF IInv, QueueTypeOK, RowInv
      <3> QED BY <3>1, DispatchAssumption DEF Representation, Answers, RunType, DispatchAssumption
    <2>2. Refusal \in Answers
      BY DEF Answers
    <2> QED BY <1>0, <1>2, <2>1, <2>2 DEF ServeGet
  <1>3. ASSUME NEW r \in Dispatched, Dispatch(r) PROVE DTypeOK'
    <2>1. CASE Hear(r)
      <3>1. Verdict(r, wire[r]) \in Phases
        BY DEF Verdict, Phases, Ends
      <3>2. Verdict(r, wire[r]) = "polling" => wire[r].status \in Active
        BY <2>1 DEF Verdict, Hear
      <3>3. Nothing \in Answers
        BY DEF Answers
      <3>4. phase' \in [Dispatched -> Phases] /\ wire' \in [Dispatched -> Answers]
        BY <1>0, <2>1, <3>1, <3>3 DEF Hear, Become
      <3>5. seen' \in [Dispatched -> Active \cup {"none"}]
        BY <2>1, <3>2 DEF Hear
      <3> QED BY <3>4, <3>5
    <2>2. CASE Post(r) \/ Poll(r) \/ LoseConnection(r) \/ Expire(r)
      <3>1. \A p \in Phases : [phase EXCEPT ![r] = p] \in [Dispatched -> Phases]
        OBVIOUS
      <3>2. {"posting", "asking", "unreachable", "timeout"} \subseteq Phases
        BY DEF Phases, Waiting, Ends
      <3>3. phase' \in [Dispatched -> Phases] /\ seen' = seen
        BY <2>2, <3>1, <3>2 DEF Post, Poll, LoseConnection, Expire, Become
      <3>4. wire' = wire \/ wire' = [wire EXCEPT ![r] = Nothing]
        BY <2>2 DEF Post, Poll, LoseConnection, Expire
      <3>5. Nothing \in Answers
        BY DEF Answers
      <3> QED BY <1>0, <3>3, <3>4, <3>5
    <2> QED BY <1>3, <2>1, <2>2 DEF Dispatch
  <1>4. CASE QueueStep \/ UNCHANGED dvars
    BY <1>4 DEF QueueStep, observers, dvars
  <1> QED BY <1>1, <1>2, <1>3, <1>4 DEF DNext

LEMMA DInvariance == DSpec => [](IInv /\ DTypeOK /\ DInv)
  <1>1. DInit => DTypeOK /\ DInv
    <2> SUFFICES ASSUME DInit PROVE DTypeOK /\ DInv
      OBVIOUS
    <2>1. DTypeOK
      BY DEF DInit, DTypeOK, Phases, Answers
    <2>2. DInv
      BY DEF DInit, DInv, WireTrue, SeenTrue, Nothing
    <2> QED BY <2>1, <2>2
  <1>2. IInv /\ IInv' /\ [QueueNext]_queueVars /\ DTypeOK /\ DInv /\ [DNext]_dvars => DTypeOK' /\ DInv'
    <2> SUFFICES ASSUME IInv, IInv', [QueueNext]_queueVars, DTypeOK, DInv, [DNext]_dvars
                 PROVE  DTypeOK' /\ DInv'
      OBVIOUS
    <2>1. QueueTypeOK /\ QueueTypeOK' /\ TxInv
      BY DEF IInv
    <2>2. Onward
      BY <2>1, HistoryMovesOnward
    <2>3. DTypeOK'
      BY <2>1, DTypeStep
    <2>4. ASSUME NEW r \in Dispatched, ServePost(r) \/ ServeGet(r) \/ Dispatch(r) PROVE DInv'
      BY <2>2, <2>4, DispatchStep
    <2>5. CASE QueueStep \/ UNCHANGED dvars
      <3>1. wire' = wire /\ phase' = phase /\ seen' = seen
        BY <2>5 DEF QueueStep, observers, dvars
      <3>2. ASSUME NEW r \in Dispatched PROVE WireTrue(r)' /\ SeenTrue(r)'
        <4>1. WireTrue(r) /\ SeenTrue(r)
          BY DEF DInv
        <4>2. wire'[r] = wire[r] /\ phase'[r] = phase[r] /\ seen'[r] = seen[r]
          BY <3>1
        <4> QED BY <2>1, <2>2, <4>1, <4>2, OnwardKeeps
      <3> QED BY <2>3, <3>2 DEF DInv
    <2> QED BY <2>3, <2>4, <2>5 DEF DNext
  <1>3. DSpec => []IInv /\ [][QueueNext]_queueVars
    BY QueueKept, Invariance, PTL DEF QueueSpec
  <1> QED BY <1>1, <1>2, <1>3, PTL DEF DSpec

-----------------------------------------------------------------------------

\* What a workflow step reports of its run is true of the stored run.
THEOREM TrueReports == DSpec => []ReportIsTrue
  <1>1. IInv /\ DInv => ReportIsTrue
    <2> SUFFICES ASSUME IInv, DInv, NEW r \in Dispatched
                 PROVE  /\ phase[r] = "success" =>
                             /\ status[r.id] = "succeeded" /\ SameRequest(stored[r.id], r)
                             /\ applied[r.id] = IF r.mode = "apply" THEN 1 ELSE 0
                        /\ phase[r] = "failure" => status[r.id] = "failed" /\ applied[r.id] = 0
                        /\ phase[r] # "transition"
      BY DEF ReportIsTrue
    <2>1. phase[r] = "success" => SameRequest(stored[r.id], r)
      BY DispatchTyped DEF DInv, SeenTrue, IInv, AnswersAreTruthful
    <2>2. phase[r] # "transition"
      BY DEF DInv, SeenTrue
    <2> QED BY <2>1, <2>2, DispatchTyped DEF DInv, SeenTrue, IInv, RowInv, SameRequest
  <1> QED BY <1>1, DInvariance, PTL

\* With dispatchers as clients, whose requests are lost and repeated, the history of imports is
\* still one of the abstract ledger, and an answer to one of them is true of the stored run.
THEOREM DispatchImplementsLedger == DSpec => ImplementsLedger /\ []AnswersAreTruthful
  BY QueueKept, Implementation, TruthfulAnswers, PTL
=============================================================================
