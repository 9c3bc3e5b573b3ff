---------------------------- MODULE ImportLedger ----------------------------
(***************************************************************************)
(* What the protected import history promises to whoever reads it: the     *)
(* entries of core.ImportRun and the database changes they stand for, with *)
(* neither workers, sessions nor transactions.  ImportQueue implements it. *)
(***************************************************************************)
EXTENDS Naturals

CONSTANTS Ids         \* request identifiers (UUIDs)

VARIABLES status,     \* [Ids -> Statuses]
          applied     \* [Ids -> Nat]: how often a run's changes were committed

vars == <<status, applied>>

Active   == {"queued", "running"}
Terminal == {"succeeded", "failed"}
Statuses == {"absent"} \cup Active \cup Terminal

Init == /\ status = [i \in Ids |-> "absent"]
        /\ applied = [i \in Ids |-> 0]

\* A request enters the history only when nothing else is waiting or running.
Accept(i) == /\ status[i] = "absent"
             /\ \A j \in Ids : status[j] \notin Active
             /\ status' = [status EXCEPT ![i] = "queued"]
             /\ UNCHANGED applied

\* One worker step may settle an orphan and start the waiting run.
Start(i, orphans) ==
             /\ \A j \in orphans : status[j] = "running"
             /\ status[i] = "queued"
             /\ status' = [j \in Ids |-> IF j \in orphans THEN "failed"
                                         ELSE IF j = i THEN "running" ELSE status[j]]
             /\ UNCHANGED applied

\* A failed run has changed nothing.
Fail(orphans) ==
             /\ \A j \in orphans : status[j] = "running"
             /\ status' = [j \in Ids |-> IF j \in orphans THEN "failed" ELSE status[j]]
             /\ UNCHANGED applied

\* Success and the changes it reports are one step; a dry run reports none.
Succeed(i, n) ==
             /\ status[i] = "running"
             /\ status' = [status EXCEPT ![i] = "succeeded"]
             /\ applied' = [applied EXCEPT ![i] = n]

Next == \/ \E i \in Ids : Accept(i)
        \/ \E i \in Ids, orphans \in SUBSET Ids : Start(i, orphans)
        \/ \E orphans \in SUBSET Ids : Fail(orphans)
        \/ \E i \in Ids, n \in {0, 1} : Succeed(i, n)

Spec == Init /\ [][Next]_vars
=============================================================================
