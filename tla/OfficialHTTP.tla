---------------------------- MODULE OfficialHTTP -----------------------------
(***************************************************************************)
(* core/official_http.py: one bounded download.  The calling thread        *)
(* resolves, connects, wraps the socket in TLS and reads; the watchdog of  *)
(* _Deadline shuts the socket down at an absolute deadline.  They share    *)
(* the guard's reference, its closed flag and one lock.  The network may   *)
(* answer, fail or stay silent at every blocking call.                     *)
(***************************************************************************)
EXTENDS Naturals

CONSTANTS MaxRedirects

ASSUME HTTPAssumption == MaxRedirects \in Nat

VARIABLES
    step,       \* of the caller
    late,       \* the deadline has passed
    timer,      \* the watchdog thread
    lock,       \* holder of the guard's lock
    closed,     \* _Deadline._closed
    ref,        \* _Deadline._socket
    fd,         \* the descriptor: which object owns it
    shut,       \* it was shut down
    held,       \* a response's file still refers to it
    body,       \* what was read: nothing, all of it, or what a shutdown left of it
    hops,       \* redirects followed
    result

guard  == <<timer, lock, closed, ref>>
socket == <<fd, shut, held>>
hvars == <<step, late, guard, socket, body, hops, result>>

Blocking == {"resolve", "connect", "handshake", "request", "read"}
Closing  == {"close", "cancel", "release", "join"}
Ended    == {"ok", "error"}

FlowTypeOK ==
    /\ step \in {"open", "attach", "wrap", "wrapping", "check", "answer", "leave", "done"}
                \cup Blocking \cup Closing
    /\ late \in BOOLEAN /\ body \in {"none", "whole", "partial", "redirect"}
    /\ hops \in 0 .. MaxRedirects + 1
    /\ result \in {"none"} \cup Ended

SocketTypeOK ==
    /\ closed \in BOOLEAN /\ shut \in BOOLEAN /\ held \in BOOLEAN
    /\ timer \in {"none", "armed", "firing", "expired", "cancelled"}
    /\ lock \in {"free", "caller"}
    /\ ref \in {"none", "raw", "tls"}
    /\ fd \in {"none", "fresh", "raw", "hidden", "tls", "closed"}

HTTPTypeOK == FlowTypeOK /\ SocketTypeOK

HTTPInit ==
    /\ step = "open" /\ late = FALSE /\ timer = "none" /\ lock = "free" /\ closed = FALSE
    /\ ref = "none" /\ fd = "none" /\ shut = FALSE /\ held = FALSE
    /\ body = "none" /\ hops = 0 /\ result = "none"

Goto(s) == step' = s

\* Leaving the response's block lets go of its file; a socket closed meanwhile is gone.
LetGo == /\ held' = FALSE
         /\ fd' = IF held /\ (closed \/ shut) THEN "closed" ELSE fd
         /\ UNCHANGED shut

\* An exception leaves through both finally blocks.
Raise == Goto("close") /\ result' = "error" /\ LetGo

Alive == fd \in {"raw", "tls"} /\ ~shut

-----------------------------------------------------------------------------
(* The caller: open_connection, _PinnedHTTPSConnection.connect, download *)

Open ==
    /\ step = "open"
    /\ timer' = "armed" /\ closed' = FALSE /\ ref' = "none"
    /\ fd' = "none" /\ shut' = FALSE /\ held' = FALSE /\ body' = "none"
    /\ IF late THEN Goto("close") /\ result' = "error"
               ELSE Goto("resolve") /\ UNCHANGED result
    /\ UNCHANGED <<late, lock, hops>>

\* The resolver's own thread answers, or the wait for it ends.
Resolved == /\ step = "resolve" /\ fd' = "fresh" /\ Goto("attach")
            /\ UNCHANGED <<late, guard, shut, held, body, hops, result>>

ResolveFails == /\ step = "resolve" /\ Raise
                /\ UNCHANGED <<late, guard, body, hops>>

Refused == closed \/ late

Attach ==
    /\ step = "attach" /\ lock = "free"
    /\ IF Refused
       THEN Goto("close") /\ result' = "error" /\ fd' = "closed" /\ UNCHANGED ref
       ELSE Goto("connect") /\ ref' = "raw" /\ fd' = "raw" /\ UNCHANGED result
    /\ UNCHANGED <<late, timer, lock, closed, shut, held, body, hops>>

\* The network lets a blocking call succeed while the descriptor is alive.
AfterCall(s) == CASE s = "connect" -> "wrap" [] s = "handshake" -> "check" [] s = "request" -> "answer"

Answered ==
    /\ step \in {"connect", "handshake", "request"} /\ Alive
    /\ Goto(AfterCall(step))
    /\ UNCHANGED <<late, guard, socket, body, hops, result>>

\* Its own timeout, a reset, or the watchdog ends it with an error.
Fails == /\ step \in {"connect", "handshake", "request", "read"} /\ Raise
         /\ UNCHANGED <<late, guard, body, hops>>

WithoutLock == UNCHANGED lock   \* mutant: the descriptor is handed over outside the lock

TakeLock == lock = "free" /\ lock' = "caller"

\* wrap_socket takes the descriptor out of raw ...
WrapTLS ==
    /\ step = "wrap" /\ TakeLock
    /\ IF closed \/ late
       THEN Goto("wrapping") /\ UNCHANGED fd
       ELSE Goto("wrapping") /\ fd' = "hidden"
    /\ UNCHANGED <<late, timer, closed, ref, shut, held, body, hops, result>>

\* ... and the secured socket takes its place before the lock is released.
Wrapped ==
    /\ step = "wrapping" /\ lock' = "free"
    /\ IF fd = "hidden"
       THEN fd' = "tls" /\ ref' = "tls" /\ Goto("handshake") /\ UNCHANGED <<held, shut, result>>
       ELSE Raise /\ UNCHANGED ref
    /\ UNCHANGED <<late, timer, closed, body, hops>>

\* wrap_tls reads the clock once more after the handshake.
Check == /\ step = "check"
         /\ IF late THEN Raise ELSE Goto("request") /\ UNCHANGED <<socket, result>>
         /\ UNCHANGED <<late, guard, body, hops>>

\* A response: refused by its headers, a redirect, or a body to read.
Answer ==
    /\ step = "answer"
    /\ \/ Raise /\ UNCHANGED body
       \/ /\ body' = "redirect"
          /\ Goto("leave") /\ UNCHANGED <<socket, result>>
       \/ /\ Alive /\ held' = TRUE
          /\ Goto("read") /\ UNCHANGED <<fd, shut, result, body>>
    /\ UNCHANGED <<late, guard, hops>>

\* The source ends the body.
ReadWhole == /\ step = "read" /\ Alive /\ body' = "whole" /\ Goto("leave") /\ LetGo
             /\ UNCHANGED <<late, guard, hops, result>>

\* Without Content-Length a shutdown looks like the end of the body.
ReadEnd == /\ step = "read" /\ shut /\ body' = "partial" /\ Goto("leave") /\ LetGo
           /\ UNCHANGED <<late, guard, hops, result>>

NoLastLook == FALSE             \* mutant: the body is returned without a last look at the clock

TooLate == late

\* After the caller's block: the last look at the clock.
Leave ==
    /\ step = "leave" /\ Goto("close")
    /\ result' = IF TooLate THEN "error" ELSE IF body = "redirect" THEN "none" ELSE "ok"
    /\ UNCHANGED <<late, guard, socket, body, hops>>

\* connection.close() knows the socket only once connect() has returned it.
CloseConnection ==
    /\ step = "close" /\ Goto("cancel")
    /\ fd' \in IF fd = "tls" THEN {"tls", "closed"} ELSE {fd}
    /\ UNCHANGED <<late, guard, shut, held, body, hops, result>>

CancelTimer ==
    /\ step = "cancel" /\ Goto("release")
    /\ timer' = IF timer = "armed" THEN "cancelled" ELSE timer
    /\ UNCHANGED <<late, lock, closed, ref, socket, body, hops, result>>

CloseRef == IF ref # "none" THEN "closed" ELSE fd

CloseGuard ==
    /\ step = "release" /\ lock = "free"
    /\ closed' = TRUE /\ fd' = CloseRef /\ ref' = "none" /\ Goto("join")
    /\ UNCHANGED <<late, timer, lock, shut, held, body, hops, result>>

\* The watchdog has ended; a redirect opens the next connection under the same deadline.
Join ==
    /\ step = "join" /\ timer \in {"expired", "cancelled"}
    /\ IF result = "none" /\ hops < MaxRedirects
       THEN Goto("open") /\ hops' = hops + 1 /\ UNCHANGED result
       ELSE /\ Goto("done") /\ UNCHANGED hops
            /\ result' = IF result = "none" THEN "error" ELSE result
    /\ UNCHANGED <<late, guard, socket, body>>

-----------------------------------------------------------------------------
(* The clock and the watchdog *)

DeadlinePasses == ~late /\ late' = TRUE
                  /\ UNCHANGED <<step, guard, socket, body, hops, result>>

NotStarted == FALSE /\ UNCHANGED hvars     \* mutant: the watchdog is never started

Fire == /\ timer = "armed" /\ late /\ timer' = "firing"
        /\ UNCHANGED <<step, late, lock, closed, ref, socket, body, hops, result>>

ShutDown == shut' = (shut \/ fd = ref)

\* A detached object no longer reaches the descriptor; a file that reads it keeps it.
Expire ==
    /\ timer = "firing" /\ lock = "free" /\ timer' = "expired" /\ closed' = TRUE
    /\ IF ref # "none"
       THEN ShutDown /\ fd' = IF fd = ref /\ ~held THEN "closed" ELSE fd
       ELSE UNCHANGED <<shut, fd>>
    /\ UNCHANGED <<step, late, lock, ref, held, body, hops, result>>

Interrupted == shut \/ fd = "closed"

\* What the caller does without waiting for anybody.
Proceed == \/ Open \/ Attach \/ WrapTLS \/ Wrapped \/ Check \/ Answer \/ Leave
           \/ CloseConnection \/ CancelTimer \/ CloseGuard \/ Join

Network == Resolved \/ ResolveFails \/ Answered \/ Fails \/ ReadWhole \/ ReadEnd

Watchdog == Fire \/ Expire

Finished == step = "done" /\ UNCHANGED hvars

HTTPNext == Proceed \/ Network \/ DeadlinePasses \/ Watchdog \/ Finished

HTTPSpec == HTTPInit /\ [][HTTPNext]_hvars

-----------------------------------------------------------------------------
(* Properties *)

\* Once the watchdog has expired, nothing the caller holds can still carry traffic: it
\* never runs while the descriptor is between two objects, and nothing is attached
\* after it (wrap_tls: "No network I/O is allowed while that transfer is hidden").
ExpiredIsDead ==
    timer = "expired" => fd \in {"none", "fresh", "closed"} \/ shut

\* "Never accept that partial body as a successful collection" (open_connection).
NoPartialBody == result = "ok" => body = "whole"

\* When a download ends, however it ends, no descriptor and no watchdog is left.
NothingLeftBehind ==
    step = "done" => /\ fd \in {"none", "closed"} /\ ~held
                     /\ timer \in {"expired", "cancelled"} /\ lock = "free"

\* A download returns a whole body or nothing, and leaves nothing behind.
DownloadsEndClean == NoPartialBody /\ NothingLeftBehind

\* Every download ends, although the network may stay silent at any blocking call.
DownloadEnds == step = "resolve" ~> step = "done"
=============================================================================
