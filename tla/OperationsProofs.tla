-------------------------- MODULE OperationsProofs ---------------------------
(***************************************************************************)
(* Theorems about RefreshPlan, for any plan in dependency order, runners   *)
(* and calendar, about OfficialHTTP, for any number of redirects, and      *)
(* about EntityMap, for any entities, claims, limits, edits and resets.    *)
(***************************************************************************)
EXTENDS RefreshPlan, OfficialHTTP, EntityMap, FiniteSetTheorems, WellFoundedInduction, TLAPS

(* OfficialHTTP *)

\* The guard refers to whatever is attached; only wrap_tls hides the descriptor, with the
\* lock in its hands; a watchdog that has expired left the guard closed.
GuardInv ==
    /\ fd \in {"raw", "tls"} => ref = fd
    /\ fd = "fresh" <=> step = "attach"
    /\ fd = "hidden" => step = "wrapping" /\ timer # "expired"
    /\ lock = "caller" <=> step = "wrapping"
    /\ held => step = "read"
    /\ timer = "expired" => closed
    /\ timer = "expired" /\ fd \in {"raw", "tls"} => shut

\* A shutdown comes after the deadline, so what it cut short never passes the last look.
BodyInv ==
    /\ timer \in {"firing", "expired"} => late
    /\ shut => late
    /\ body = "partial" => late
    /\ step = "leave" => body \in {"whole", "partial", "redirect"}
    /\ result = "ok" => body = "whole" /\ step \in Closing \cup {"done"}
    /\ step = "join" => fd \in {"none", "closed"}
    /\ step = "done" => fd \in {"none", "closed"} /\ timer \in {"expired", "cancelled"}

HTTPInv == HTTPTypeOK /\ GuardInv /\ BodyInv

LEMMA HTTPInvariance == HTTPSpec => []HTTPInv
  <1>1. HTTPInit => HTTPInv
    <2> SUFFICES ASSUME HTTPInit PROVE HTTPInv
      OBVIOUS
    <2>1. HTTPTypeOK
      <3>1. 0 \in 0 .. MaxRedirects + 1 BY HTTPAssumption DEF HTTPAssumption
      <3> QED BY <3>1, Zenon DEF HTTPInit, HTTPTypeOK, FlowTypeOK, SocketTypeOK
    <2>2. GuardInv BY DEF HTTPInit, GuardInv
    <2>3. BodyInv BY DEF HTTPInit, BodyInv
    <2> QED BY <2>1, <2>2, <2>3 DEF HTTPInv
  <1>2. HTTPInv /\ [HTTPNext]_hvars => HTTPInv'
    <2> SUFFICES ASSUME HTTPInv, [HTTPNext]_hvars PROVE HTTPInv'
      OBVIOUS
    <2> USE HTTPAssumption
        DEF HTTPInv, HTTPTypeOK, FlowTypeOK, SocketTypeOK, GuardInv, BodyInv, Goto, guard, socket, Blocking, Closing, Ended,
            LetGo, Raise, HTTPAssumption
    <2>1. CASE Open
      <3>1. HTTPTypeOK'
        <4> HIDE DEF GuardInv, BodyInv
        <4>1. FlowTypeOK' BY <2>1 DEF Open
        <4>2. SocketTypeOK' BY <2>1 DEF Open
        <4> QED BY <4>1, <4>2
      <3>2. GuardInv' BY <2>1 DEF Open
      <3>3. BodyInv' BY <2>1 DEF Open
      <3> QED BY <3>1, <3>2, <3>3
    <2>2. CASE Attach
      <3>1. HTTPTypeOK'
        <4> HIDE DEF GuardInv, BodyInv
        <4>1. FlowTypeOK' BY <2>2 DEF Attach, Refused
        <4>2. SocketTypeOK' BY <2>2 DEF Attach, Refused
        <4> QED BY <4>1, <4>2
      <3>2. GuardInv' BY <2>2 DEF Attach, Refused
      <3>3. BodyInv' BY <2>2 DEF Attach, Refused
      <3> QED BY <3>1, <3>2, <3>3
    <2>3. CASE WrapTLS
      <3>1. HTTPTypeOK'
        <4> HIDE DEF GuardInv, BodyInv
        <4>1. FlowTypeOK' BY <2>3 DEF WrapTLS, TakeLock
        <4>2. SocketTypeOK' BY <2>3 DEF WrapTLS, TakeLock
        <4> QED BY <4>1, <4>2
      <3>2. GuardInv' BY <2>3 DEF WrapTLS, TakeLock
      <3>3. BodyInv' BY <2>3 DEF WrapTLS, TakeLock
      <3> QED BY <3>1, <3>2, <3>3
    <2>4. CASE Wrapped
      <3>1. HTTPTypeOK'
        <4> HIDE DEF GuardInv, BodyInv
        <4>1. FlowTypeOK' BY <2>4 DEF Wrapped
        <4>2. SocketTypeOK' BY <2>4 DEF Wrapped
        <4> QED BY <4>1, <4>2
      <3>2. GuardInv' BY <2>4 DEF Wrapped
      <3>3. BodyInv' BY <2>4 DEF Wrapped
      <3> QED BY <3>1, <3>2, <3>3
    <2>5. CASE Check
      <3>1. HTTPTypeOK'
        <4> HIDE DEF GuardInv, BodyInv
        <4>1. FlowTypeOK' BY <2>5 DEF Check
        <4>2. SocketTypeOK' BY <2>5 DEF Check
        <4> QED BY <4>1, <4>2
      <3>2. GuardInv' BY <2>5 DEF Check
      <3>3. BodyInv' BY <2>5 DEF Check
      <3> QED BY <3>1, <3>2, <3>3
    <2>6. CASE Answer
      <3>1. HTTPTypeOK'
        <4> HIDE DEF GuardInv, BodyInv
        <4>1. FlowTypeOK' BY <2>6 DEF Answer, Alive
        <4>2. SocketTypeOK' BY <2>6 DEF Answer, Alive
        <4> QED BY <4>1, <4>2
      <3>2. GuardInv' BY <2>6 DEF Answer, Alive
      <3>3. BodyInv' BY <2>6 DEF Answer, Alive
      <3> QED BY <3>1, <3>2, <3>3
    <2>7. CASE Leave
      <3>1. HTTPTypeOK'
        <4> HIDE DEF GuardInv, BodyInv
        <4>1. FlowTypeOK' BY <2>7 DEF Leave, TooLate
        <4>2. SocketTypeOK' BY <2>7 DEF Leave, TooLate
        <4> QED BY <4>1, <4>2
      <3>2. GuardInv' BY <2>7 DEF Leave, TooLate
      <3>3. BodyInv' BY <2>7 DEF Leave, TooLate
      <3> QED BY <3>1, <3>2, <3>3
    <2>8. CASE CloseConnection
      <3>1. HTTPTypeOK'
        <4> HIDE DEF GuardInv, BodyInv
        <4>1. FlowTypeOK' BY <2>8 DEF CloseConnection
        <4>2. SocketTypeOK' BY <2>8 DEF CloseConnection
        <4> QED BY <4>1, <4>2
      <3>2. GuardInv' BY <2>8 DEF CloseConnection
      <3>3. BodyInv' BY <2>8 DEF CloseConnection
      <3> QED BY <3>1, <3>2, <3>3
    <2>9. CASE CancelTimer
      <3>1. HTTPTypeOK'
        <4> HIDE DEF GuardInv, BodyInv
        <4>1. FlowTypeOK' BY <2>9 DEF CancelTimer
        <4>2. SocketTypeOK' BY <2>9 DEF CancelTimer
        <4> QED BY <4>1, <4>2
      <3>2. GuardInv' BY <2>9 DEF CancelTimer
      <3>3. BodyInv' BY <2>9 DEF CancelTimer
      <3> QED BY <3>1, <3>2, <3>3
    <2>10. CASE CloseGuard
      <3>1. HTTPTypeOK'
        <4> HIDE DEF GuardInv, BodyInv
        <4>1. FlowTypeOK' BY <2>10 DEF CloseGuard, CloseRef
        <4>2. SocketTypeOK' BY <2>10 DEF CloseGuard, CloseRef
        <4> QED BY <4>1, <4>2
      <3>2. GuardInv' BY <2>10 DEF CloseGuard, CloseRef
      <3>3. BodyInv' BY <2>10 DEF CloseGuard, CloseRef
      <3> QED BY <3>1, <3>2, <3>3
    <2>11. CASE Join
      <3>1. HTTPTypeOK'
        <4> HIDE DEF GuardInv, BodyInv
        <4>1. FlowTypeOK' BY <2>11 DEF Join
        <4>2. SocketTypeOK' BY <2>11 DEF Join
        <4> QED BY <4>1, <4>2
      <3>2. GuardInv' BY <2>11 DEF Join
      <3>3. BodyInv' BY <2>11 DEF Join
      <3> QED BY <3>1, <3>2, <3>3
    <2>12. CASE Network
      <3>1. CASE Resolved
        <4>1. HTTPTypeOK'
          <5> HIDE DEF GuardInv, BodyInv
          <5>1. FlowTypeOK' BY <3>1 DEF Resolved
          <5>2. SocketTypeOK' BY <3>1 DEF Resolved
          <5> QED BY <5>1, <5>2
        <4>2. GuardInv' BY <3>1 DEF Resolved
        <4>3. BodyInv' BY <3>1 DEF Resolved
        <4> QED BY <4>1, <4>2, <4>3
      <3>2. CASE ResolveFails
        <4>1. HTTPTypeOK'
          <5> HIDE DEF GuardInv, BodyInv
          <5>1. FlowTypeOK' BY <3>2 DEF ResolveFails
          <5>2. SocketTypeOK' BY <3>2 DEF ResolveFails
          <5> QED BY <5>1, <5>2
        <4>2. GuardInv' BY <3>2 DEF ResolveFails
        <4>3. BodyInv' BY <3>2 DEF ResolveFails
        <4> QED BY <4>1, <4>2, <4>3
      <3>3. CASE Answered
        <4>1. HTTPTypeOK'
          <5> HIDE DEF GuardInv, BodyInv
          <5>1. FlowTypeOK' BY <3>3 DEF Answered, AfterCall, Alive
          <5>2. SocketTypeOK' BY <3>3 DEF Answered, AfterCall, Alive
          <5> QED BY <5>1, <5>2
        <4>2. GuardInv' BY <3>3 DEF Answered, AfterCall, Alive
        <4>3. BodyInv' BY <3>3 DEF Answered, AfterCall, Alive
        <4> QED BY <4>1, <4>2, <4>3
      <3>4. CASE Fails
        <4>1. HTTPTypeOK'
          <5> HIDE DEF GuardInv, BodyInv
          <5>1. FlowTypeOK' BY <3>4 DEF Fails
          <5>2. SocketTypeOK' BY <3>4 DEF Fails
          <5> QED BY <5>1, <5>2
        <4>2. GuardInv' BY <3>4 DEF Fails
        <4>3. BodyInv' BY <3>4 DEF Fails
        <4> QED BY <4>1, <4>2, <4>3
      <3>5. CASE ReadWhole
        <4>1. HTTPTypeOK'
          <5> HIDE DEF GuardInv, BodyInv
          <5>1. FlowTypeOK' BY <3>5 DEF ReadWhole, Alive
          <5>2. SocketTypeOK' BY <3>5 DEF ReadWhole, Alive
          <5> QED BY <5>1, <5>2
        <4>2. GuardInv' BY <3>5 DEF ReadWhole, Alive
        <4>3. BodyInv' BY <3>5 DEF ReadWhole, Alive
        <4> QED BY <4>1, <4>2, <4>3
      <3>6. CASE ReadEnd
        <4>1. HTTPTypeOK'
          <5> HIDE DEF GuardInv, BodyInv
          <5>1. FlowTypeOK' BY <3>6 DEF ReadEnd
          <5>2. SocketTypeOK' BY <3>6 DEF ReadEnd
          <5> QED BY <5>1, <5>2
        <4>2. GuardInv' BY <3>6 DEF ReadEnd
        <4>3. BodyInv' BY <3>6 DEF ReadEnd
        <4> QED BY <4>1, <4>2, <4>3
      <3> QED BY <2>12, <3>1, <3>2, <3>3, <3>4, <3>5, <3>6 DEF Network
    <2>13. CASE DeadlinePasses
      <3>1. HTTPTypeOK'
        <4> HIDE DEF GuardInv, BodyInv
        <4>1. FlowTypeOK' BY <2>13 DEF DeadlinePasses
        <4>2. SocketTypeOK' BY <2>13 DEF DeadlinePasses
        <4> QED BY <4>1, <4>2
      <3>2. GuardInv' BY <2>13 DEF DeadlinePasses
      <3>3. BodyInv' BY <2>13 DEF DeadlinePasses
      <3> QED BY <3>1, <3>2, <3>3
    <2>14. CASE Watchdog
      <3>1. HTTPTypeOK'
        <4> HIDE DEF GuardInv, BodyInv
        <4>1. FlowTypeOK' BY <2>14 DEF Watchdog, Fire, Expire, ShutDown
        <4>2. SocketTypeOK' BY <2>14 DEF Watchdog, Fire, Expire, ShutDown
        <4> QED BY <4>1, <4>2
      <3>2. GuardInv' BY <2>14 DEF Watchdog, Fire, Expire, ShutDown
      <3>3. BodyInv' BY <2>14 DEF Watchdog, Fire, Expire, ShutDown
      <3> QED BY <3>1, <3>2, <3>3
    <2>15. CASE Finished \/ UNCHANGED hvars BY <2>15 DEF Finished, hvars
    <2> QED BY <2>1, <2>2, <2>3, <2>4, <2>5, <2>6, <2>7, <2>8, <2>9, <2>10, <2>11, <2>12, <2>13,
               <2>14, <2>15 DEF HTTPNext, Proceed
  <1> QED BY <1>1, <1>2, PTL DEF HTTPSpec

\* An expired watchdog leaves no socket that carries traffic.
THEOREM WatchdogReaches == HTTPSpec => []ExpiredIsDead
  <1>1. HTTPInv => ExpiredIsDead
    BY DEF HTTPInv, HTTPTypeOK, FlowTypeOK, SocketTypeOK, GuardInv, ExpiredIsDead
  <1> QED BY <1>1, HTTPInvariance, PTL

\* A body cut short by the watchdog is never returned.
THEOREM BodiesAreWhole == HTTPSpec => []NoPartialBody
  <1>1. HTTPInv => NoPartialBody
    BY DEF HTTPInv, BodyInv, NoPartialBody
  <1> QED BY <1>1, HTTPInvariance, PTL

\* However a download ends, its descriptor and its watchdog are gone.
THEOREM DownloadsCleanUp == HTTPSpec => []NothingLeftBehind
  <1>1. HTTPInv => NothingLeftBehind
    BY DEF HTTPInv, HTTPTypeOK, FlowTypeOK, SocketTypeOK, GuardInv, BodyInv, NothingLeftBehind
  <1> QED BY <1>1, HTTPInvariance, PTL

\* A download returns a whole body or nothing, and leaves neither descriptor nor watchdog.
THEOREM DownloadsAreClean == HTTPSpec => []DownloadsEndClean
  <1>1. NoPartialBody /\ NothingLeftBehind => DownloadsEndClean
    BY DEF DownloadsEndClean
  <1> QED BY <1>1, BodiesAreWhole, DownloadsCleanUp, PTL

-----------------------------------------------------------------------------
(* RefreshPlan *)

\* Times only grow, and a remembered success was committed.
ClockInv ==
    /\ \A s \in Steps : /\ applied[s] # Never => applied[s] <= now
                        /\ last[s] # Never => applied[s] # Never /\ last[s] <= applied[s]
    /\ \A r \in Runners : began[r] <= now
    /\ \A r \in Runners : phase[r] = "recording" => Running(r) /\ at[r] <= Len(Plan) /\ applied[at[r]] = now
    /\ \A r \in Runners : phase[r] = "importing" => Running(r) /\ at[r] <= Len(Plan) /\ ~Barred(r)

InPlan(r, s) == Plan[s].initial => options[r].initial

\* A step behind a runner is fresh, or reported, or was stopped by one that is.
Accounted(r, s) == \/ Fresh(r, s) \/ s \in failed[r]
                   \/ Requires(Plan[s].family) \cap FailedFamilies(r) # {}

ProgressInv ==
    \A r \in Runners : Unrestricted(options[r]) =>
        /\ Running(r) => \A s \in Steps : s < at[r] /\ InPlan(r, s) => Accounted(r, s)
        /\ outcome[r] = "ok" => ~Running(r) /\ \A s \in Steps : InPlan(r, s) => Fresh(r, s)

RefreshInv == RefreshTypeOK /\ ClockInv /\ ProgressInv

\* What a family rests on, through others, it also rests on directly.
LEMMA RequiresIsClosed ==
    \A f, g, h : f \in Requires(g) /\ g \in Requires(h) => f \in Requires(h)
  BY DEF Requires, ARDependents

LEMMA PlanTyped == /\ Steps = 1 .. Len(Plan) /\ Len(Plan) \in Nat
                   /\ \A s \in Steps : Plan[s].interval \in Nat
  <1> DEFINE S == [name : STRING, family : STRING, interval : Nat, initial : BOOLEAN]
  <1>1. Plan \in Seq(S)
    BY PlanAssumption DEF PlanAssumption
  <1>2. \A x \in S : x.interval \in Nat
    OBVIOUS
  <1> HIDE DEF S
  <1> QED BY <1>1, <1>2 DEF Steps

\* Time only goes on.
LEMMA TickForward == now \in Nat /\ Tick => now' \in Nat /\ now' > now
  <1>1. Instants \subseteq Nat BY PlanAssumption DEF PlanAssumption
  <1> QED BY <1>1 DEF Tick, Later

\* Times are numbers.
LEMMA Times == ASSUME RefreshTypeOK
               PROVE  /\ now \in Int
                      /\ \A s \in Steps : applied[s] \in Int
                      /\ \A s \in Steps : last[s] \in Int
                      /\ \A r \in Runners : began[r] \in Int
                      /\ \A s \in Steps : Plan[s].interval \in Int
  <1>1. now \in Int BY DEF RefreshTypeOK
  <1>2. \A s \in Steps : applied[s] \in Int BY DEF RefreshTypeOK, Never
  <1>3. \A s \in Steps : last[s] \in Int BY DEF RefreshTypeOK, Never
  <1>4. \A r \in Runners : began[r] \in Int BY DEF RefreshTypeOK
  <1>5. \A s \in Steps : Plan[s].interval \in Int BY PlanTyped
  <1> QED BY <1>1, <1>2, <1>3, <1>4, <1>5

LEMMA RefreshTypeStep == RefreshTypeOK /\ ClockInv /\ [RefreshNext]_rvars => RefreshTypeOK'
  <1> SUFFICES ASSUME RefreshTypeOK, ClockInv, [RefreshNext]_rvars PROVE RefreshTypeOK'
    OBVIOUS
  <1> USE PlanTyped DEF RefreshTypeOK, progress, Advance
  <1>1. CASE Tick
    BY <1>1, TickForward DEF Tick
  <1>2. ASSUME NEW r \in Runners, NEW o \in Options \cup {Usual}, Start(r, o) PROVE RefreshTypeOK'
    BY <1>2 DEF Start
  <1>3. ASSUME NEW r \in Runners, NEW how \in {"ok", "failed"}, End(r, how) PROVE RefreshTypeOK'
    BY <1>3 DEF End
  <1>4. ASSUME NEW r \in Runners, Pass(r) PROVE RefreshTypeOK'
    <2>1. at[r] \in Steps BY <1>4 DEF Pass, Between, Running
    <2> QED BY <1>4, <2>1 DEF Pass
  <1>5. ASSUME NEW r \in Runners, Call(r) PROVE RefreshTypeOK'
    BY <1>5 DEF Call
  <1>6. ASSUME NEW r \in Runners, Imported(r) \/ Record(r) \/ Fail(r) PROVE RefreshTypeOK'
    <2>1. at[r] \in Steps
      BY <1>6 DEF Imported, Record, Fail, Running, ClockInv
    <2>2. CASE Imported(r)
      <3>1. applied' \in [Steps -> {Never} \cup Nat]
        <4>1. applied' = applied \/ applied' = [applied EXCEPT ![at[r]] = now]
          BY <2>2 DEF Imported
        <4>2. now \in {Never} \cup Nat
          OBVIOUS
        <4> HIDE DEF Never
        <4> QED BY <2>1, <4>1, <4>2
      <3>2. phase' \in [Runners -> {"between", "importing", "recording"}]
        BY <2>2 DEF Imported
      <3>3. at' \in [Runners -> 0 .. Len(Plan) + 1]
        <4>1. at[r] \in 0 .. Len(Plan) + 1 /\ at[r] + 1 \in 0 .. Len(Plan) + 1
          BY <2>1, PlanTyped
        <4>2. at' = at \/ at' = [at EXCEPT ![r] = at[r] + 1]
          BY <2>2 DEF Imported
        <4> QED BY <4>1, <4>2
      <3>4. UNCHANGED <<now, last, by, failed, spared, options, began, outcome, manual>>
        BY <2>2 DEF Imported
      <3> QED BY <3>1, <3>2, <3>3, <3>4
    <2>3. CASE Record(r) BY <2>1, <2>3, SMTT(60) DEF Record
    <2>4. CASE Fail(r) BY <2>1, <2>4, SMTT(60) DEF Fail, Report
    <2> QED BY <1>6, <2>2, <2>3, <2>4
  <1>7. CASE UNCHANGED rvars
    BY <1>7 DEF rvars
  <1> QED
    BY <1>1, <1>2, <1>3, <1>4, <1>5, <1>6, <1>7 DEF RefreshNext, RunStep, Kill, Finish, Outcome

\* An import that returns is as new as time itself.
LEMMA ImportedClock == ASSUME RefreshTypeOK, ClockInv, NEW r \in Runners, Imported(r) PROVE ClockInv'
  <1>1. at[r] \in Steps /\ Running(r) /\ at[r] <= Len(Plan) /\ phase[r] = "importing"
    BY PlanTyped DEF Imported, ClockInv, RefreshTypeOK, Running
  <1>2. UNCHANGED <<now, last, failed, began>>
    BY DEF Imported
  <1>3. \A s \in Steps : applied'[s] = applied[s] \/ applied'[s] = now
    BY <1>1 DEF Imported, RefreshTypeOK
  <1>4. now # Never /\ now <= now
    BY DEF RefreshTypeOK, Never
  <1>5. ASSUME NEW s \in Steps
        PROVE  /\ applied'[s] # Never => applied'[s] <= now
               /\ last[s] # Never => applied'[s] # Never /\ last[s] <= applied'[s]
    <2>1. applied[s] # Never => applied[s] <= now
      BY DEF ClockInv
    <2>2. last[s] # Never => applied[s] # Never /\ last[s] <= applied[s]
      BY DEF ClockInv
    <2>3. last[s] # Never => last[s] <= now
      BY <2>1, <2>2, Times
    <2> QED BY <1>3, <1>4, <2>1, <2>2, <2>3
  <1>6. \A q \in Runners \ {r} : phase'[q] = phase[q] /\ at'[q] = at[q]
    BY DEF Imported, Advance, RefreshTypeOK
  <1>7. phase'[r] # "importing"
    BY DEF Imported, RefreshTypeOK
  <1>8. phase'[r] = "recording" => at'[r] = at[r] /\ applied'[at[r]] = now
    BY <1>1 DEF Imported, Remembers, RefreshTypeOK
  <1>9. \A q \in Runners : phase[q] = "recording" => at[q] \in Steps
    BY PlanTyped DEF ClockInv, RefreshTypeOK, Running
  <1>10. \A q \in Runners : phase[q] = "recording" => applied'[at[q]] = now
    BY <1>3, <1>9 DEF ClockInv
  <1>11. \A q \in Runners : phase'[q] = "recording" => Running(q)' /\ at'[q] <= Len(Plan) /\ applied'[at'[q]] = now
    BY <1>1, <1>6, <1>8, <1>10 DEF ClockInv, Running
  <1>12. \A q \in Runners : phase'[q] = "importing" => Running(q)' /\ at'[q] <= Len(Plan) /\ ~Barred(q)'
    BY <1>2, <1>6, <1>7 DEF ClockInv, Running, Barred, Current, FailedFamilies
  <1> QED BY <1>2, <1>5, <1>11, <1>12 DEF ClockInv

\* A runner that starts begins now and holds no step.
LEMMA StartClock ==
    ASSUME RefreshTypeOK, ClockInv, NEW r \in Runners, NEW o \in Options \cup {Usual}, Start(r, o) PROVE ClockInv'
  <1>1. UNCHANGED <<now, last, applied, phase>>
    BY DEF Start
  <1>2. \A q \in Runners \ {r} : at'[q] = at[q] /\ failed'[q] = failed[q] /\ began'[q] = began[q]
    BY DEF Start, RefreshTypeOK
  <1>3. began'[r] = now /\ now <= now
    BY DEF Start, RefreshTypeOK
  <1>4. phase[r] # "recording" /\ phase[r] # "importing"
    BY DEF Start, ClockInv
  <1>5. \A q \in Runners : began'[q] <= now
    BY <1>2, <1>3 DEF ClockInv
  <1>6. \A q \in Runners : phase[q] = "recording" => Running(q)' /\ at'[q] <= Len(Plan) /\ applied[at'[q]] = now
    BY <1>2, <1>4 DEF ClockInv, Running
  <1>7. \A q \in Runners : phase[q] = "importing" => Running(q)' /\ at'[q] <= Len(Plan) /\ ~Barred(q)'
    BY <1>2, <1>4 DEF ClockInv, Running, Barred, Current, FailedFamilies
  <1> QED BY <1>1, <1>5, <1>6, <1>7 DEF ClockInv

LEMMA ClockStep == RefreshTypeOK /\ ClockInv /\ [RefreshNext]_rvars => ClockInv'
  <1> SUFFICES ASSUME RefreshTypeOK, ClockInv, [RefreshNext]_rvars PROVE ClockInv'
    OBVIOUS
  <1> USE PlanTyped DEF RefreshTypeOK, ClockInv, progress, Advance, Running, Never, Barred, Current,
                        FailedFamilies
  <1>1. CASE Tick
    <2>1. now' > now /\ now' \in Nat
      BY <1>1, TickForward
    <2>2. \A r \in Runners : phase[r] # "recording"
      BY <1>1 DEF Tick
    <2>3. UNCHANGED <<last, applied, by, at, phase, failed, options, began>>
      BY <1>1 DEF Tick
    <2>4. \A s \in Steps : applied[s] # Never => applied[s] <= now'
      BY <2>1, Times
    <2>5. \A r \in Runners : began[r] <= now'
      BY <2>1, Times
    <2> QED BY <2>2, <2>3, <2>4, <2>5
  <1>2. ASSUME NEW r \in Runners, NEW o \in Options \cup {Usual}, Start(r, o) PROVE ClockInv'
    BY <1>2, StartClock
  <1>3. ASSUME NEW r \in Runners, NEW how \in {"ok", "failed"}, End(r, how) PROVE ClockInv'
    BY <1>3 DEF End
  <1>4. ASSUME NEW r \in Runners, Pass(r) PROVE ClockInv'
    BY <1>4 DEF Pass, Between
  <1>5. ASSUME NEW r \in Runners, Call(r) PROVE ClockInv'
    BY <1>5 DEF Call, Between
  <1>6. ASSUME NEW r \in Runners, Imported(r) PROVE ClockInv'
    BY <1>6, ImportedClock
  <1>7. ASSUME NEW r \in Runners, Record(r) PROVE ClockInv'
    BY <1>7 DEF Record
  <1>8. ASSUME NEW r \in Runners, Fail(r) PROVE ClockInv'
    BY <1>8 DEF Fail, Report
  <1>9. CASE UNCHANGED rvars
    BY <1>9 DEF rvars
  <1> QED
    BY <1>1, <1>2, <1>3, <1>4, <1>5, <1>6, <1>7, <1>8, <1>9
    DEF RefreshNext, RunStep, Kill, Finish, Outcome

\* A step stays accounted for while its runner goes on.
LEMMA StaysAccounted ==
    ASSUME RefreshTypeOK, RefreshTypeOK', NEW r \in Runners, NEW s \in Steps,
           \/ applied'[s] = applied[s]
           \/ applied[s] # Never /\ applied'[s] >= applied[s]
           \/ applied[s] = Never /\ applied'[s] # Never,
           began'[r] = began[r], failed[r] \subseteq failed'[r]
    PROVE  /\ Fresh(r, s) => Fresh(r, s)'
           /\ Accounted(r, s) => Accounted(r, s)'
  <1>1. Fresh(r, s) => Fresh(r, s)'
    <2>1. applied'[s] \in Int /\ (applied'[s] # Never => applied'[s] >= 0)
      BY DEF RefreshTypeOK, Never
    <2>2. applied[s] \in Int /\ began[r] \in Int /\ Plan[s].interval \in Int
      BY Times
    <2>3. applied[s] # Never => applied'[s] # Never /\ applied'[s] >= applied[s]
      <3>1. CASE applied'[s] = applied[s] BY <3>1, <2>2
      <3>2. CASE applied[s] # Never /\ applied'[s] >= applied[s] BY <3>2, <2>1, <2>2 DEF RefreshTypeOK, Never
      <3> QED BY <3>1, <3>2
    <2> HIDE DEF Never
    <2> QED BY <2>1, <2>2, <2>3 DEF Fresh
  <1>2. FailedFamilies(r) \subseteq FailedFamilies(r)'
    BY DEF FailedFamilies
  <1> QED BY <1>1, <1>2 DEF Accounted

\* Every step keeps what lies behind the runners accounted for.
LEMMA ProgressStep ==
    RefreshTypeOK /\ RefreshTypeOK' /\ ClockInv /\ ProgressInv /\ [RefreshNext]_rvars => ProgressInv'
  <1> SUFFICES ASSUME RefreshTypeOK, RefreshTypeOK', ClockInv, ProgressInv, [RefreshNext]_rvars
               PROVE  ProgressInv'
    OBVIOUS
  <1> DEFINE Same(z) == /\ at'[z] = at[z] /\ failed'[z] = failed[z] /\ options'[z] = options[z]
                        /\ began'[z] = began[z] /\ outcome'[z] = outcome[z]
             Goal(z) == Unrestricted(options'[z]) =>
                /\ at'[z] # 0 => \A s \in Steps : s < at'[z] /\ InPlan(z, s)' => Accounted(z, s)'
                /\ outcome'[z] = "ok" => at'[z] = 0 /\ \A s \in Steps : InPlan(z, s)' => Fresh(z, s)'
  <1>0. SUFFICES ASSUME NEW q \in Runners PROVE Goal(q)
    BY DEF ProgressInv, Running, Unrestricted
  <1>1. \A s \in Steps : \/ applied'[s] = applied[s]
                         \/ applied[s] # Never /\ applied'[s] >= applied[s]
                         \/ applied[s] = Never /\ applied'[s] # Never
    <2>1. CASE \E r \in Runners : Imported(r)
      BY <2>1 DEF Imported, RefreshTypeOK, ClockInv, Never
    <2>2. CASE UNCHANGED applied
      BY <2>2
    <2> QED BY <2>1, <2>2 DEF RefreshNext, Tick, RunStep, Pass, Call, Record, Fail, Finish, Kill, End, Start, rvars
  <1>2. ASSUME Same(q) PROVE Goal(q)
    BY <1>1, <1>2, StaysAccounted DEF ProgressInv, Running, InPlan
  <1>3. ASSUME NEW r \in Runners, RunStep(r) \/ Kill(r), r # q PROVE Same(q)
    BY <1>3 DEF RunStep, Kill, Pass, Call, Imported, Record, Fail, Report, Finish, End, Advance, progress, RefreshTypeOK
  <1>4. ASSUME NEW r \in Runners, NEW o \in Options \cup {Usual}, Start(r, o) PROVE Goal(q)
    <2>1. CASE r # q
      <3>1. Same(q) BY <1>4, <2>1 DEF Start, RefreshTypeOK
      <3> QED BY <3>1, <1>2
    <2>2. CASE r = q
      BY <1>4, <2>2, PlanTyped DEF Start, RefreshTypeOK
    <2> QED BY <2>1, <2>2
  <1>5. CASE Tick \/ UNCHANGED rvars
    <2>1. Same(q) BY <1>5 DEF Tick, rvars, progress
    <2> QED BY <2>1, <1>2
  <1>6. CASE Pass(q)
    <2>1. at'[q] = at[q] + 1 /\ at[q] # 0 /\ at[q] \in Steps
      BY <1>6, PlanTyped DEF Pass, Between, Running, Advance, RefreshTypeOK
    <2>2. UNCHANGED <<failed, options, began, outcome, applied, now>>
      BY <1>6 DEF Pass
    <2>3. InPlan(q, at[q]) /\ Unrestricted(options[q]) => Accounted(q, at[q])
      <3>1. CASE Unselected(q)
        BY <3>1 DEF Unselected, Unrestricted, InPlan, Current
      <3>2. CASE Barred(q)
        BY <3>2 DEF Barred, Accounted, Current
      <3>3. CASE Rested(q)
        <4> DEFINE t == at[q]
        <4>1. last[t] # Never /\ now - last[t] < Plan[t].interval
          BY <3>3 DEF Rested, Current
        <4>2. applied[t] # Never /\ last[t] <= applied[t] /\ began[q] <= now
          BY <2>1, <4>1 DEF ClockInv
        <4>3. /\ applied[t] \in Int /\ last[t] \in Int /\ now \in Int /\ began[q] \in Int
              /\ Plan[t].interval \in Int
          BY <2>1, Times
        <4>4. applied[t] > began[q] - Plan[t].interval
          BY <4>1, <4>2, <4>3
        <4> QED BY <4>2, <4>4 DEF Accounted, Fresh
      <3> QED BY <1>6, <3>1, <3>2, <3>3 DEF Pass
    <2>4. \A s \in Steps : Accounted(q, s)' <=> Accounted(q, s)
      BY <2>2 DEF Accounted, Fresh, FailedFamilies
    <2>5. outcome[q] # "ok" \/ ~Unrestricted(options[q])
      BY <2>1 DEF ProgressInv, Running
    <2>6. \A s \in Steps : s < at'[q] => s < at[q] \/ s = at[q]
      BY <2>1, PlanTyped
    <2> QED BY <2>1, <2>2, <2>3, <2>4, <2>5, <2>6 DEF ProgressInv, Running, InPlan
  <1>7. CASE Call(q)
    <2>1. Same(q) BY <1>7 DEF Call
    <2> QED BY <2>1, <1>2
  <1>8. CASE Imported(q) \/ Record(q) \/ Fail(q)
    <2>1. at[q] # 0 /\ at[q] \in Steps /\ phase[q] \in {"importing", "recording"}
      BY <1>8, PlanTyped DEF Imported, Record, Fail, Running, ClockInv, RefreshTypeOK
    <2>2. UNCHANGED <<options, began, outcome, now>> /\ failed[q] \subseteq failed'[q]
      BY <1>8 DEF Imported, Record, Fail, Report, RefreshTypeOK
    <2>3. at'[q] = at[q] \/ at'[q] = at[q] + 1
      BY <1>8 DEF Imported, Record, Fail, Advance, RefreshTypeOK
    <2>4. ASSUME NEW t \in Steps, t = at[q], at'[q] # at[q], Unrestricted(options[q])
          PROVE  Accounted(q, t)'
      <3>1. began'[q] = began[q] /\ began[q] <= now /\ now # Never
        BY <2>2 DEF ClockInv, RefreshTypeOK, Never
      <3>2. CASE applied'[t] = now
        BY <3>1, <3>2 DEF Accounted, Fresh
      <3>3. CASE t \in failed'[q]
        BY <3>3 DEF Accounted
      <3>4. CASE Imported(q)
        <4>1. applied'[t] = now
          BY <2>4, <3>4 DEF Imported, Unrestricted, RefreshTypeOK
        <4> QED BY <4>1, <3>2
      <3>5. CASE Record(q)
        <4>1. applied'[t] = now
          BY <2>4, <3>5 DEF Record, ClockInv
        <4> QED BY <4>1, <3>2
      <3>6. CASE Fail(q)
        <4>1. t \in failed'[q]
          BY <2>4, <3>6 DEF Fail, Report, RefreshTypeOK
        <4> QED BY <4>1, <3>3
      <3> QED BY <1>8, <3>4, <3>5, <3>6
    <2>5. \A s \in Steps : Accounted(q, s) => Accounted(q, s)'
      BY <1>1, <2>2, StaysAccounted
    <2>6. outcome[q] # "ok" \/ ~Unrestricted(options[q])
      BY <2>1 DEF ProgressInv, Running
    <2>7. at[q] \in Int /\ \A s \in Steps : s \in Int
      BY <2>1, PlanTyped
    <2>8. \A s \in Steps : s < at'[q] => s < at[q] \/ (s = at[q] /\ at'[q] # at[q])
      BY <2>3, <2>7
    <2>9. Unrestricted(options[q]) => \A s \in Steps : s < at'[q] /\ InPlan(q, s) => Accounted(q, s)'
      <3> SUFFICES ASSUME Unrestricted(options[q]), NEW s \in Steps, s < at'[q], InPlan(q, s)
                   PROVE  Accounted(q, s)'
        OBVIOUS
      <3>1. CASE s < at[q]
        BY <3>1, <2>1, <2>5 DEF ProgressInv, Running
      <3>2. CASE s = at[q] /\ at'[q] # at[q]
        BY <3>2, <2>4
      <3> QED BY <2>8, <3>1, <3>2
    <2> QED BY <2>2, <2>6, <2>9 DEF InPlan
  <1>9. CASE Finish(q) \/ Kill(q)
    <2>1. UNCHANGED <<options, began, applied>> /\ at'[q] = 0 /\ outcome'[q] \in {"ok", "failed"}
      BY <1>9 DEF Finish, Kill, End, Outcome, RefreshTypeOK
    <2>2. outcome'[q] = "ok" => Finish(q) /\ failed[q] = {}
      BY <1>9 DEF Finish, Kill, End, Outcome, RefreshTypeOK
    <2>3. ASSUME Finish(q), failed[q] = {}, Unrestricted(options[q]), NEW s \in Steps, InPlan(q, s)
          PROVE  Fresh(q, s)
      <3>1. Accounted(q, s)
        BY <2>3, PlanTyped DEF Finish, ProgressInv, Running
      <3> QED BY <3>1, <2>3 DEF Accounted, FailedFamilies
    <2> QED BY <2>1, <2>2, <2>3 DEF Fresh, InPlan
  <1> QED
    BY <1>2, <1>3, <1>4, <1>5, <1>6, <1>7, <1>8, <1>9 DEF RefreshNext, RunStep

LEMMA RefreshInvariance == RefreshSpec => []RefreshInv
  <1>1. RefreshInit => RefreshInv
    <2> SUFFICES ASSUME RefreshInit PROVE RefreshInv
      OBVIOUS
    <2>1. RefreshTypeOK
      BY PlanTyped, PlanAssumption DEF RefreshInit, RefreshTypeOK, PlanAssumption
    <2>2. ClockInv
      BY DEF RefreshInit, ClockInv
    <2>3. ProgressInv
      BY DEF RefreshInit, ProgressInv, Running
    <2> QED BY <2>1, <2>2, <2>3 DEF RefreshInv
  <1>2. RefreshInv /\ [RefreshNext]_rvars => RefreshInv'
    BY RefreshTypeStep, ClockStep, ProgressStep DEF RefreshInv
  <1> QED BY <1>1, <1>2, PTL DEF RefreshSpec

\* A refresh that ends without a failure has every source of its plan in.
THEOREM SuccessIsFresh == RefreshSpec => []OkMeansFresh
  <1>1. RefreshInv => OkMeansFresh
    BY DEF RefreshInv, ProgressInv, OkMeansFresh, InPlan
  <1> QED BY <1>1, RefreshInvariance, PTL

\* A step never imports on prerequisites its refresh failed to bring up to date.
THEOREM PrerequisitesAreFresh == RefreshSpec => []RestsOnFresh
  <1>1. RefreshInv => RestsOnFresh
    <2> SUFFICES ASSUME RefreshInv, NEW r \in Runners, NEW s \in Steps,
                        Running(r), at[r] <= Len(Plan), phase[r] = "importing",
                        Unrestricted(options[r]), Plan[s].family \in Requires(Current(r).family),
                        InPlan(r, s)
                 PROVE  Fresh(r, s)
      BY DEF RestsOnFresh, InPlan
    <2>1. at[r] \in Steps /\ ~Barred(r)
      BY PlanTyped DEF RefreshInv, RefreshTypeOK, ClockInv, Running
    <2>2. s < at[r]
      BY <2>1, PlanAssumption DEF PlanAssumption, Current
    <2>3. Accounted(r, s)
      BY <2>2 DEF RefreshInv, ProgressInv
    <2>4. s \notin failed[r]
      BY <2>1 DEF Barred, FailedFamilies
    <2>5. Requires(Plan[s].family) \cap FailedFamilies(r) = {}
      BY <2>1, RequiresIsClosed DEF Barred
    <2> QED BY <2>3, <2>4, <2>5 DEF Accounted
  <1> QED BY <1>1, RefreshInvariance, PTL

\* What a refresh imports, and what it reports as done, rests on sources that are fresh.
THEOREM RefreshesAreFresh == RefreshSpec => []StepsAreFresh
  <1>1. OkMeansFresh /\ RestsOnFresh => StepsAreFresh
    BY DEF StepsAreFresh
  <1> QED BY <1>1, SuccessIsFresh, PrerequisitesAreFresh, PTL

\* The weekly run is never past what it may last; what it recorded, it recorded that early
\* in a week, in the week before for the steps it has yet to reach.
WeeklyRecord(s) == by[s] = Weekly /\ last[s] # Never

WeeklyInv ==
    /\ began[Weekly] % Week = 0
    /\ Running(Weekly) => now <= began[Weekly] + MaxRun
    /\ \A s \in Steps : WeeklyRecord(s) =>
         /\ last[s] <= began[Weekly] + MaxRun
         /\ Running(Weekly) /\ s >= at[Weekly] => last[s] + Week <= began[Weekly] + MaxRun
         /\ Running(Weekly) \/ outcome[Weekly] # "none"
    /\ \A s \in spared[Weekly] : Running(Weekly) /\ s < at[Weekly] /\ by[s] # Weekly

\* Two beginnings of a week are a week apart.
LEMMA WeeksApart ==
    ASSUME NEW m \in Nat, NEW n \in Nat, m % Week = 0, n % Week = 0, m < n
    PROVE  m + Week <= n
  <1>1. Week \in Nat \ {0} BY PlanAssumption DEF PlanAssumption
  <1> DEFINE p == m \div Week
             q == n \div Week
  <1>2. p \in Int /\ q \in Int /\ m = Week * p /\ n = Week * q
    BY <1>1
  <1>3. p < q
    BY <1>1, <1>2
  <1> HIDE DEF p, q
  <1>4. Week * (q - p - 1) >= 0
    BY <1>1, <1>2, <1>3
  <1> QED BY <1>1, <1>2, <1>4

LEMMA WeeklyTick == ASSUME RefreshTypeOK, WeeklyInv, Tick PROVE WeeklyInv'
  <1>1. Weekly \in Runners /\ MaxRun \in Nat /\ Instants \subseteq Nat
    BY PlanAssumption DEF PlanAssumption
  <1>2. Running(Weekly) => now' <= began[Weekly] + MaxRun
    <2> SUFFICES ASSUME Running(Weekly) PROVE now' <= began[Weekly] + MaxRun
      OBVIOUS
    <2>1. PICK t \in Later : t \in now .. began[Weekly] + MaxRun
      BY <1>1 DEF Tick
    <2>2. now' <= t BY <2>1 DEF Tick
    <2>3. now' \in Nat /\ began[Weekly] \in Nat BY <1>1 DEF Tick, Later, RefreshTypeOK
    <2> QED BY <1>1, <2>1, <2>2, <2>3
  <1> QED BY <1>2 DEF Tick, WeeklyInv, WeeklyRecord, Running, progress

\* A weekly run begins a week after the one before.
LEMMA WeeklyStart ==
    ASSUME RefreshTypeOK, ClockInv, WeeklyInv, NEW r \in Runners, NEW o, Start(r, o)
    PROVE  WeeklyInv'
  <1>1. Weekly \in Runners /\ MaxRun \in Nat /\ Week \in Nat \ {0}
    BY PlanAssumption DEF PlanAssumption
  <1>2. CASE r # Weekly
    BY <1>1, <1>2 DEF Start, WeeklyInv, WeeklyRecord, Running, RefreshTypeOK
  <1>3. CASE r = Weekly
    <2>1. /\ began'[Weekly] = now /\ at'[Weekly] = 1 /\ spared'[Weekly] = {}
          /\ now' = now /\ last' = last /\ by' = by /\ now % Week = 0
          /\ outcome[Weekly] = "none" \/ began[Weekly] # now
      BY <1>1, <1>3 DEF Start, RefreshTypeOK
    <2>2. Running(Weekly)' BY <2>1 DEF Running
    <2>3. ASSUME NEW s \in Steps, WeeklyRecord(s) PROVE last[s] + Week <= now + MaxRun
      <3>1. outcome[Weekly] # "none" BY <1>3, <2>3 DEF Start, WeeklyInv
      <3>2. began[Weekly] \in Nat /\ now \in Nat /\ began[Weekly] < now
        BY <1>1, <2>1, <3>1 DEF RefreshTypeOK, ClockInv
      <3>3. began[Weekly] + Week <= now
        BY <2>1, <3>2, WeeksApart DEF WeeklyInv
      <3>4. last[s] <= began[Weekly] + MaxRun BY <2>3 DEF WeeklyInv
      <3>5. last[s] \in Int BY Times
      <3> QED BY <1>1, <3>2, <3>3, <3>4, <3>5
    <2>4. \A s \in Steps : WeeklyRecord(s)' =>
            last'[s] <= began'[Weekly] + MaxRun /\ last'[s] + Week <= began'[Weekly] + MaxRun
      <3> SUFFICES ASSUME NEW s \in Steps, WeeklyRecord(s)'
                   PROVE  last[s] <= now + MaxRun /\ last[s] + Week <= now + MaxRun
        BY <2>1
      <3>1. WeeklyRecord(s) BY <2>1 DEF WeeklyRecord
      <3>2. last[s] \in Int /\ now \in Int BY Times
      <3> QED BY <1>1, <2>3, <3>1, <3>2
    <2>5. now' <= began'[Weekly] + MaxRun BY <1>1, <2>1 DEF RefreshTypeOK
    <2> QED BY <2>1, <2>2, <2>4, <2>5 DEF WeeklyInv
  <1> QED BY <1>2, <1>3

\* The interval is over before a weekly run comes to a step again.
LEMMA WeeklyPass ==
    ASSUME RefreshTypeOK, ClockInv, WeeklyInv, NEW r \in Runners, Pass(r)
    PROVE  WeeklyInv'
  <1>1. Weekly \in Runners /\ MaxRun \in Nat /\ Week \in Nat
    BY PlanAssumption DEF PlanAssumption
  <1>2. CASE r # Weekly
    BY <1>1, <1>2 DEF Pass, Advance, WeeklyInv, WeeklyRecord, Running, RefreshTypeOK
  <1>3. CASE r = Weekly
    <2>1. at[r] \in Nat /\ at[r] \in Steps
      BY PlanTyped DEF Pass, Between, Running, RefreshTypeOK
    <2>2. at'[Weekly] = at[Weekly] + 1 /\ Running(Weekly) /\ Running(Weekly)'
      BY <1>3, <2>1 DEF Pass, Advance, Between, Running, RefreshTypeOK
    <2>3. spared'[r] = spared[r] \/ (Rested(r) /\ spared'[r] = spared[r] \cup {at[r]})
      <3>1. spared \in [Runners -> SUBSET Steps] BY DEF RefreshTypeOK
      <3>2. spared' = spared \/ (Rested(r) /\ spared' = [spared EXCEPT ![r] = @ \cup {at[r]}])
        BY DEF Pass
      <3> QED BY <3>1, <3>2
    <2>4. Rested(r) => by[at[r]] # Weekly
      <3> SUFFICES ASSUME Rested(r), by[at[r]] = Weekly PROVE FALSE
        OBVIOUS
      <3> DEFINE s == at[r]
      <3>1. s \in Steps BY <1>3, <2>1
      <3>2. last[s] + Week <= began[Weekly] + MaxRun
        BY <1>3, <2>1, <2>2 DEF Rested, WeeklyInv, WeeklyRecord
      <3>3. now - last[s] < Plan[s].interval BY DEF Rested, Current
      <3>4. Plan[s].interval + MaxRun <= Week BY <3>1, RestAssumption
      <3>5. began[Weekly] <= now BY <1>1 DEF ClockInv
      <3>6. last[s] \in Int /\ now \in Int /\ began[Weekly] \in Int /\ Plan[s].interval \in Int
        BY <1>1, <3>1, Times
      <3> HIDE DEF s
      <3> QED BY <1>1, <3>2, <3>3, <3>4, <3>5, <3>6
    <2>5. \A s \in spared'[Weekly] : s < at'[Weekly] /\ by[s] # Weekly
      <3>1. \A s \in spared[Weekly] : s \in Nat BY <1>1, PlanTyped DEF RefreshTypeOK
      <3> QED BY <1>3, <2>1, <2>2, <2>3, <2>4, <3>1 DEF WeeklyInv
    <2>6. \A s \in Steps : s >= at'[Weekly] => s >= at[Weekly]
      BY <1>3, <2>1, <2>2, PlanTyped
    <2>7. UNCHANGED <<now, last, by, began, outcome>> BY DEF Pass
    <2> QED BY <2>2, <2>5, <2>6, <2>7 DEF WeeklyInv, WeeklyRecord
  <1> QED BY <1>2, <1>3

\* What a run does at a step leaves the weeks as they are.
LEMMA WeeklyCall ==
    ASSUME RefreshTypeOK, ClockInv, WeeklyInv, NEW r \in Runners, Call(r) \/ Imported(r) \/ Fail(r)
    PROVE  WeeklyInv'
  <1>1. Weekly \in Runners /\ at[r] \in Nat /\ Running(r)
    BY PlanAssumption DEF PlanAssumption, RefreshTypeOK, Call, Imported, Fail, Between
  <1>2. UNCHANGED <<now, last, by, spared, began, outcome>>
    BY DEF Call, Imported, Fail
  <1>3. at' = at \/ at' = [at EXCEPT ![r] = at[r] + 1]
    BY DEF Call, Imported, Fail, Advance
  <1>4. at'[Weekly] = at[Weekly] \/ (Running(Weekly) /\ at'[Weekly] = at[Weekly] + 1)
    <2>1. at \in [Runners -> 0 .. Len(Plan) + 1] BY DEF RefreshTypeOK
    <2>2. CASE at' = [at EXCEPT ![r] = at[r] + 1] /\ r = Weekly
      BY <1>1, <2>1, <2>2 DEF Running
    <2>3. CASE at' = [at EXCEPT ![r] = at[r] + 1] /\ r # Weekly
      BY <1>1, <2>1, <2>3
    <2> QED BY <1>3, <2>2, <2>3
  <1>5. at[Weekly] \in Nat /\ Steps \subseteq Nat /\ spared[Weekly] \subseteq Nat
    BY <1>1, PlanTyped DEF RefreshTypeOK
  <1>6. Running(Weekly)' <=> Running(Weekly) BY <1>4, <1>5 DEF Running
  <1> QED BY <1>2, <1>4, <1>5, <1>6 DEF WeeklyInv, WeeklyRecord

\* A success is recorded before the run is too old, and behind the step it comes to next.
LEMMA WeeklyRecords ==
    ASSUME RefreshTypeOK, ClockInv, WeeklyInv, NEW r \in Runners, Record(r)
    PROVE  WeeklyInv'
  <1>1. Weekly \in Runners /\ at[r] \in Steps /\ at[r] \in Nat
    BY PlanAssumption, PlanTyped DEF PlanAssumption, RefreshTypeOK, ClockInv, Record, Running
  <1>2. /\ UNCHANGED <<now, spared, began, outcome>>
        /\ \A s \in Steps : s # at[r] => last'[s] = last[s] /\ by'[s] = by[s]
        /\ last'[at[r]] = now /\ by'[at[r]] = r
    BY <1>1 DEF Record, RefreshTypeOK
  <1>3. /\ \A q \in Runners : q # r => at'[q] = at[q]
        /\ at'[r] = at[r] + 1 /\ Running(r) /\ Running(r)'
    BY <1>1 DEF Record, Advance, Running, RefreshTypeOK
  <1>4. Steps \subseteq Nat /\ spared[Weekly] \subseteq Steps /\ at[Weekly] \in Nat
    BY <1>1, PlanTyped DEF RefreshTypeOK
  <1>5. CASE r # Weekly
    <2>1. \A s \in Steps : WeeklyRecord(s)' => s # at[r] /\ WeeklyRecord(s)
      BY <1>2, <1>5 DEF WeeklyRecord
    <2>2. \A s \in spared[Weekly] : by'[s] # Weekly
      BY <1>2, <1>4, <1>5 DEF WeeklyInv
    <2> QED BY <1>1, <1>2, <1>3, <1>5, <2>1, <2>2 DEF WeeklyInv, Running
  <1>6. CASE r = Weekly
    <2>1. now <= began[Weekly] + MaxRun BY <1>3, <1>6 DEF WeeklyInv
    <2>2. \A s \in Steps : s # at[r] => (WeeklyRecord(s)' <=> WeeklyRecord(s))
      BY <1>2 DEF WeeklyRecord
    <2>3. \A s \in Steps : s >= at'[Weekly] => s # at[r] /\ s >= at[Weekly]
      BY <1>1, <1>3, <1>4, <1>6
    <2>4. \A s \in spared[Weekly] : s # at[r] /\ s < at'[Weekly] /\ s \in Steps
      <3>1. \A s \in spared[Weekly] : s < at[Weekly] /\ s \in Steps /\ s \in Nat
        BY <1>4 DEF WeeklyInv
      <3> QED BY <1>3, <1>4, <1>6, <3>1
    <2>5. \A s \in Steps : WeeklyRecord(s)' =>
            /\ last'[s] <= began[Weekly] + MaxRun
            /\ s >= at'[Weekly] => last'[s] + Week <= began[Weekly] + MaxRun
      BY <1>2, <1>3, <1>6, <2>1, <2>2, <2>3 DEF WeeklyInv
    <2>6. \A s \in spared[Weekly] : by'[s] # Weekly
      BY <1>2, <2>4 DEF WeeklyInv
    <2> QED BY <1>2, <1>3, <1>6, <2>4, <2>5, <2>6 DEF WeeklyInv
  <1> QED BY <1>5, <1>6

LEMMA WeeklyEnd ==
    ASSUME RefreshTypeOK, WeeklyInv, NEW r \in Runners, NEW how \in {"ok", "failed"}, End(r, how)
    PROVE  WeeklyInv'
  <1>1. Weekly \in Runners BY PlanAssumption DEF PlanAssumption
  <1>2. CASE r # Weekly
    BY <1>1, <1>2 DEF End, WeeklyInv, WeeklyRecord, Running, RefreshTypeOK
  <1>3. CASE r = Weekly
    BY <1>1, <1>3 DEF End, WeeklyInv, WeeklyRecord, Running, RefreshTypeOK
  <1> QED BY <1>2, <1>3

LEMMA WeeklyStep == RefreshTypeOK /\ ClockInv /\ WeeklyInv /\ [RefreshNext]_rvars => WeeklyInv'
  <1> SUFFICES ASSUME RefreshTypeOK, ClockInv, WeeklyInv, [RefreshNext]_rvars PROVE WeeklyInv'
    OBVIOUS
  <1>1. CASE UNCHANGED rvars
    BY <1>1 DEF rvars, progress, WeeklyInv, WeeklyRecord, Running
  <1>2. ASSUME NEW r \in Runners, RunStep(r) PROVE WeeklyInv'
    <2>1. Finish(r) => WeeklyInv' BY WeeklyEnd DEF Finish, Outcome
    <2> QED BY <1>2, <2>1, WeeklyPass, WeeklyCall, WeeklyRecords DEF RunStep
  <1>3. ASSUME NEW r \in Runners, Kill(r) PROVE WeeklyInv'
    BY <1>3, WeeklyEnd DEF Kill
  <1> QED BY <1>1, <1>2, <1>3, WeeklyTick, WeeklyStart DEF RefreshNext

\* What a weekly run recorded never spares a step of the next one.
THEOREM WeeklyRunsImport == RefreshSpec => []WeeklySparesNothing
  <1>1. RefreshInit => WeeklyInv
    <2>1. Weekly \in Runners /\ Week \in Nat \ {0} BY PlanAssumption DEF PlanAssumption
    <2>2. 0 % Week = 0 BY <2>1
    <2> QED BY <2>1, <2>2 DEF RefreshInit, WeeklyInv, WeeklyRecord, Running
  <1>2. RefreshInv /\ WeeklyInv /\ [RefreshNext]_rvars => WeeklyInv'
    BY WeeklyStep DEF RefreshInv
  <1>3. WeeklyInv => WeeklySparesNothing BY DEF WeeklyInv, WeeklySparesNothing
  <1> QED BY <1>1, <1>2, <1>3, RefreshInvariance, PTL DEF RefreshSpec

-----------------------------------------------------------------------------
(* EntityMap: pages of claims and their ends. *)

LEMMA MaxExists ==
    ASSUME NEW T \in SUBSET Nat, IsFiniteSet(T), T # {}
    PROVE  \E m \in T : \A t \in T : t <= m
  <1> DEFINE Above(m) == {t \in T : t > m}
             Aboves == {Above(m) : m \in T}
  <1>1. Aboves \subseteq FiniteSubsetsOf(T) /\ Aboves # {}
    <2>1. \A m \in T : IsFiniteSet(Above(m)) BY FS_Subset
    <2> QED BY <2>1 DEF FiniteSubsetsOf
  <1>2. IsWellFoundedOn(StrictSubsetOrdering(T), FiniteSubsetsOf(T))
    BY FS_StrictSubsetOrderingWellFounded
  <1>3. PICK U \in Aboves : \A V \in Aboves : <<V, U>> \notin StrictSubsetOrdering(T)
    BY <1>1, <1>2, WFMin
  <1>4. PICK m \in T : U = Above(m) BY <1>3
  <1>5. Above(m) = {}
    <2> SUFFICES ASSUME NEW n \in Above(m) PROVE FALSE
      OBVIOUS
    <2>1. Above(n) \subseteq Above(m) /\ Above(n) # Above(m)
      <3>1. n \in T /\ n > m /\ \A t \in T : t \in Nat OBVIOUS
      <3>2. n \notin Above(n) BY <3>1
      <3>3. \A t \in Above(n) : t \in T /\ t > m BY <3>1
      <3> QED BY <3>2, <3>3
    <2>2. <<Above(n), U>> \in StrictSubsetOrdering(T) BY <2>1, <1>4 DEF StrictSubsetOrdering
    <2> QED BY <2>2, <1>3
  <1> QED BY <1>5

\* A page of k claims has at most k of them, and all of them if there are no more than k.
LEMMA LeastOfBound ==
    ASSUME NEW S \in SUBSET Claims, NEW k \in Nat
    PROVE  /\ LeastOf(S, k) \subseteq S /\ Cardinality(LeastOf(S, k)) <= k
           /\ Cardinality(S) <= k => LeastOf(S, k) = S
  <1> DEFINE L == LeastOf(S, k)
             Below(c) == {d \in S : d < c}
  <1>1. IsFiniteSet(S) /\ S \subseteq Nat BY FS_Subset, MapAssumption DEF MapAssumption
  <1>2. L \subseteq S /\ IsFiniteSet(L) BY <1>1, FS_Subset DEF LeastOf
  <1>3. Cardinality(L) <= k
    <2>1. CASE L = {} BY <2>1, FS_EmptySet
    <2>2. CASE L # {}
      <3>1. PICK m \in L : \A c \in L : c <= m BY <2>2, <1>1, <1>2, MaxExists
      <3>2. Cardinality(Below(m)) < k /\ m \in S BY <3>1 DEF LeastOf
      <3>3. IsFiniteSet(Below(m)) BY <1>1, FS_Subset
      <3>4. L \subseteq Below(m) \cup {m}
        <4>1. ASSUME NEW c \in L, c # m PROVE c \in S /\ c < m
          <5>1. c <= m /\ c \in S /\ m \in S BY <3>1, <1>2
          <5> QED BY <5>1, <1>1, <4>1
        <4> QED BY <4>1
      <3>8. m \notin Below(m) BY <1>1, <3>2
      <3>5. /\ IsFiniteSet(Below(m) \cup {m})
            /\ Cardinality(Below(m) \cup {m}) = Cardinality(Below(m)) + 1
        BY <3>3, <3>8, FS_AddElement
      <3>6. Cardinality(L) <= Cardinality(Below(m) \cup {m}) BY <3>4, <3>5, FS_Subset
      <3>7. Cardinality(L) \in Nat /\ Cardinality(Below(m)) \in Nat
        BY <1>2, <3>3, FS_CardinalityType
      <3> QED BY <3>2, <3>5, <3>6, <3>7
    <2> QED BY <2>1, <2>2
  <1>4. ASSUME Cardinality(S) <= k, NEW c \in S PROVE c \in L
    <2>1. IsFiniteSet(Below(c)) /\ Cardinality(Below(c)) <= Cardinality(S)
      BY <1>1, FS_Subset
    <2>2. Cardinality(Below(c)) # Cardinality(S)
      <3>1. Below(c) # S BY <1>1
      <3> QED BY <3>1, <1>1, FS_Subset
    <2>3. Cardinality(Below(c)) \in Nat /\ Cardinality(S) \in Nat BY <1>1, <2>1, FS_CardinalityType
    <2>4. Cardinality(Below(c)) < k BY <1>4, <2>1, <2>2, <2>3
    <2> QED BY <2>4 DEF LeastOf
  <1> QED BY <1>2, <1>3, <1>4

\* k claims join at most 2k entities.
LEMMA EndsBound ==
    ASSUME NEW C \in SUBSET Claims
    PROVE  /\ EndsOf(C) \subseteq Ents /\ IsFiniteSet(EndsOf(C))
           /\ Cardinality(C) \in Nat /\ Cardinality(EndsOf(C)) <= 2 * Cardinality(C)
  <1> DEFINE one == [c \in C |-> CHOOSE e : e \in Ends[c]]
             two == [c \in C |-> CHOOSE e : e \in Ends[c] \ {one[c]}]
             Ones == {one[c] : c \in C}
             Twos == {two[c] : c \in C}
  <1>1. IsFiniteSet(C) BY FS_Subset, MapAssumption DEF MapAssumption
  <1>2. \A c \in C : Ends[c] \subseteq Ents /\ Cardinality(Ends[c]) = 2 BY MapAssumption DEF MapAssumption
  <1>3. ASSUME NEW c \in C PROVE Ends[c] = {one[c], two[c]}
    <2>1. IsFiniteSet(Ends[c]) BY <1>2, FS_Subset, MapAssumption DEF MapAssumption
    <2>2. Ends[c] # {} BY <1>2, FS_EmptySet
    <2>3. one[c] \in Ends[c] BY <2>2
    <2>4. IsFiniteSet(Ends[c] \ {one[c]}) /\ Cardinality(Ends[c] \ {one[c]}) = 1
      <3> HIDE DEF one
      <3>1. /\ IsFiniteSet(Ends[c] \ {one[c]})
            /\ Cardinality(Ends[c] \ {one[c]})
                 = IF one[c] \in Ends[c] THEN Cardinality(Ends[c]) - 1 ELSE Cardinality(Ends[c])
        BY <2>1, FS_RemoveElement, Zenon
      <3> QED BY <3>1, <2>3, <1>2
    <2>5. PICK e : Ends[c] \ {one[c]} = {e} BY <2>4, FS_Singleton
    <2>6. two[c] = e BY <2>5
    <2> QED BY <2>3, <2>5, <2>6
  <1>4. EndsOf(C) = Ones \cup Twos
    <2>1. \A c \in C : Ends[c] = {one[c], two[c]} BY <1>3
    <2> HIDE DEF one, two
    <2> QED BY <2>1 DEF EndsOf
  <1>5. one \in Surjection(C, Ones) /\ two \in Surjection(C, Twos)
    <2> HIDE DEF Ones, Twos
    <2>1. one \in [C -> Ones] /\ two \in [C -> Twos] BY DEF Ones, Twos
    <2>2. (\A t \in Ones : \E c \in C : one[c] = t) /\ (\A t \in Twos : \E c \in C : two[c] = t)
      BY DEF Ones, Twos
    <2> QED BY <2>1, <2>2 DEF Surjection
  <1> HIDE DEF one, two, Ones, Twos
  <1>6. /\ IsFiniteSet(Ones) /\ Cardinality(Ones) <= Cardinality(C)
        /\ IsFiniteSet(Twos) /\ Cardinality(Twos) <= Cardinality(C)
    BY <1>1, <1>5, FS_Surjection
  <1>7. /\ IsFiniteSet(Ones \cup Twos)
        /\ Cardinality(Ones \cup Twos)
             = Cardinality(Ones) + Cardinality(Twos) - Cardinality(Ones \cap Twos)
    BY <1>6, FS_Union
  <1>8. IsFiniteSet(Ones \cap Twos) BY <1>6, FS_Intersection
  <1>9. /\ Cardinality(C) \in Nat /\ Cardinality(Ones) \in Nat /\ Cardinality(Twos) \in Nat
        /\ Cardinality(Ones \cap Twos) \in Nat
    BY <1>1, <1>6, <1>8, FS_CardinalityType
  <1>10. EndsOf(C) \subseteq Ents BY <1>2 DEF EndsOf
  <1> QED BY <1>4, <1>6, <1>7, <1>9, <1>10

(* EntityMap: the invariant. *)

Listed  == {"evidence", "events", "counterparts", "totals", "connections", "sent"}
Trimmed == {"totals", "connections", "sent"}
Answers == [step : {"none", "claims"} \cup Listed, of : Ents \cup {NoChoice}, asked : Nat,
            claims : SUBSET Claims, ties : SUBSET Ents, drawn : SUBSET Ents, more : Nat,
            truncated : BOOLEAN, nodes : SUBSET Ents, few : SUBSET Ents]

MapTypeOK ==
    /\ open \subseteq Ents /\ approved \subseteq Claims /\ everApproved \subseteq Claims
    /\ approved \subseteq everApproved /\ edits \in Nat
    /\ answer \in Answers /\ (answer.step # "none" => answer.of \in Ents)
    /\ base \in Answers /\ drawnAnswers \subseteq {a \in Answers : a.of \in Ents}
    /\ view \in {"loading", "ready", "empty", "error", "left"}
    /\ nodesOn \subseteq Ents /\ claimsOn \subseteq Claims
    /\ expanding \in BOOLEAN /\ button \in BOOLEAN /\ capped \in BOOLEAN /\ generation \in Nat

\* An answer lists what was published, within the limits, with the ends of every line.
AnswerInv ==
    /\ answer.claims \subseteq everApproved
    /\ Cardinality(answer.claims) <= RelationshipLimit
    /\ Cardinality(answer.ties) <= EventEdgeLimit
    /\ answer.step \in {"events", "counterparts"} =>
         answer.nodes = {answer.of} \cup EndsOf(answer.claims)
    /\ answer.step \in Trimmed =>
         answer.nodes = {answer.of} \cup EndsOf(answer.claims) \cup answer.ties

\* While nothing is published or withdrawn, an expansion is asked for where an answer holds
\* every connection, and holds them.
Lines == [e \in Ents |-> Connections(e)]

FewInv ==
    edits = 0 =>
      /\ \A e \in answer.few \cup base.few \cup UNION {a.few : a \in drawnAnswers} :
           Cardinality(Lines[e]) <= ExpandableLimit
      /\ view # "loading" /\ answer.step # "none" =>
           answer.of # Centre /\ Cardinality(Lines[answer.of]) <= ExpandableLimit
      /\ view # "loading" /\ answer.step \in Listed =>
           ~answer.truncated /\ answer.claims = Lines[answer.of]
      /\ \A a \in drawnAnswers : ~a.truncated /\ a.claims = Lines[a.of]

\* What is drawn is the first answer and what expansions added to it.
CanvasInv ==
    /\ EndsOf(base.claims) \subseteq base.nodes /\ base.claims \subseteq claimsOn
    /\ claimsOn \subseteq everApproved
    /\ ExpansionsStand

\* Nothing is drawn before the first answer, and afterwards one expansion is awaited at most.
WaitInv ==
    /\ view = "loading" => /\ drawnAnswers = {} /\ expanded = {} /\ ~capped /\ ~expanding
                           /\ base = Idle /\ nodesOn = {} /\ claimsOn = {} /\ answer.step # "none"
    /\ view # "loading" => (expanding <=> answer.step # "none")
    /\ answer.asked <= generation
    /\ view = "loading" => button
    /\ view = "ready" /\ ~button => expanding \/ generation > 0

MapInv == MapTypeOK /\ AnswerInv /\ FewInv /\ CanvasInv /\ WaitInv

LEMMA MapTypes == MapInit => MapTypeOK
  <1> SUFFICES ASSUME MapInit PROVE MapTypeOK
    OBVIOUS
  <1>1. Idle \in Answers /\ Centre \in Ents BY MapAssumption DEF MapAssumption, Idle, Answers
  <1>2. answer \in Answers /\ answer.of \in Ents BY <1>1 DEF MapInit, Answers
  <1> QED BY <1>1, <1>2 DEF MapInit, MapTypeOK

LEMMA MapTypeStep ==
    ASSUME MapTypeOK, [MapNext]_mapvars PROVE MapTypeOK'
  <1> USE DEF MapTypeOK
  <1>1. Idle \in Answers /\ Idle.step = "none" BY DEF Idle, Answers
  <1>2. \A C \in SUBSET Claims : EndsOf(C) \subseteq Ents BY EndsBound
  <1>3. CASE Serve
    <2>1. UNCHANGED <<server, view, base, canvas, expanding, button, generation, drawnAnswers>>
      BY <1>3 DEF Serve, Query, ListClaims, PrefetchEvidence, ListEvents, DropHidden, CountTotals,
                  CountConnections
    <2>2. answer.step # "none"
      BY <1>3 DEF Serve, Query, ListClaims, PrefetchEvidence, ListEvents, DropHidden, CountTotals,
                  CountConnections
    <2>3. answer' \in Answers /\ answer'.of = answer.of
      <3>1. CASE ListClaims
        <4>1. LeastOf(Profile(answer.of), RelationshipLimit) \in SUBSET Claims
          BY DEF LeastOf, Profile, Connections
        <4>2. (Cardinality(Profile(answer.of)) > RelationshipLimit) \in BOOLEAN OBVIOUS
        <4>3. PICK C \in SUBSET Claims, t \in BOOLEAN :
                answer' = [answer EXCEPT !.step = "evidence", !.claims = C, !.truncated = t]
          BY <4>1, <4>2, <3>1, Zenon DEF ListClaims
        <4> QED BY <4>3 DEF Answers, Listed
      <3>2. CASE PrefetchEvidence
        <4>1. StillApproved(answer.claims) \in SUBSET Claims BY DEF StillApproved, Answers
        <4>2. {answer.of} \cup EndsOf(StillApproved(answer.claims)) \in SUBSET Ents
          BY <4>1, <1>2, <2>2
        <4> QED BY <4>1, <4>2, <3>2 DEF PrefetchEvidence, Query, Answers, Listed
      <3>3. CASE ListEvents
        <4>1. PICK top \in SUBSET Tied(answer.of) :
                /\ Cardinality(top) = IF Cardinality(Tied(answer.of)) > EventEdgeLimit
                                        THEN EventEdgeLimit ELSE Cardinality(Tied(answer.of))
                /\ answer' = [answer EXCEPT !.step = "counterparts", !.ties = top, !.drawn = top,
                                            !.more = Cardinality(Tied(answer.of)) - Cardinality(top)]
          BY <3>3 DEF ListEvents
        <4>2. Tied(answer.of) \subseteq Ents /\ IsFiniteSet(Tied(answer.of))
          <5>1. Tied(answer.of) \in SUBSET Ents BY MapAssumption DEF MapAssumption, Tied
          <5> QED BY <5>1, FS_Subset, MapAssumption DEF MapAssumption
        <4>3. /\ Cardinality(Tied(answer.of)) \in Nat
              /\ Cardinality(Tied(answer.of)) - Cardinality(top) \in Nat
          <5>1. Cardinality(Tied(answer.of)) \in Nat BY <4>2, FS_CardinalityType
          <5> QED BY <5>1, <4>1, MapAssumption DEF MapAssumption
        <4>4. top \in SUBSET Ents BY <4>1, <4>2
        <4> QED BY <4>1, <4>3, <4>4 DEF Answers, Listed
      <3>4. CASE DropHidden
        <4>1. (answer.ties \cap open) \in SUBSET Ents /\ answer.nodes \cup (answer.ties \cap open) \in SUBSET Ents
          BY DEF Answers
        <4> QED BY <3>4, <4>1 DEF DropHidden, Query, Answers, Listed
      <3>5. CASE CountTotals
        <4> DEFINE left == Cardinality(Tied(answer.of)) - Cardinality(answer.drawn)
        <4>1. Tied(answer.of) \in SUBSET Ents /\ answer.drawn \in SUBSET Ents
          BY MapAssumption DEF MapAssumption, Tied, Answers
        <4>2. left \in Int
          <5>1. IsFiniteSet(Tied(answer.of)) /\ IsFiniteSet(answer.drawn)
            BY <4>1, FS_Subset, MapAssumption DEF MapAssumption
          <5> QED BY <5>1, FS_CardinalityType
        <4>3. answer' = [answer EXCEPT !.step = "connections", !.more = IF left > 0 THEN left ELSE 0]
          BY <3>5 DEF CountTotals
        <4>4. (IF left > 0 THEN left ELSE 0) \in Nat
          <5> HIDE DEF left
          <5> QED BY <4>2
        <4> HIDE DEF left
        <4> QED BY <4>3, <4>4 DEF Answers, Listed
      <3>6. CASE CountConnections
        <4>1. {e \in answer.nodes : Cardinality(Connections(e)) \in 2..ExpandableLimit} \in SUBSET Ents
          BY DEF Answers
        <4> QED BY <3>6, <4>1 DEF CountConnections, Query, Answers, Listed
      <3> QED BY <1>3, <3>1, <3>2, <3>3, <3>4, <3>5, <3>6 DEF Serve
    <2> QED BY <2>1, <2>2, <2>3 DEF server, canvas
  <1>4. CASE Edit BY <1>4 DEF Edit, canvas
  <1>5. CASE Mounted BY <1>5, <1>1 DEF Mounted, server, Answers
  <1>6. CASE Select BY <1>6 DEF Select, server
  <1>7. CASE Expand
    <2>1. chosen \in Ents BY <1>7 DEF Expand
    <2>2. answer' \in Answers BY <1>7, <2>1, <1>1 DEF Expand, Answers
    <2>3. answer'.of = chosen BY <1>7 DEF Expand, Idle
    <2> QED BY <1>7, <2>1, <2>2, <2>3 DEF Expand, server, canvas
  <1>8. CASE Merge
    <2>1. PICK C \in SUBSET (answer.claims \ claimsOn) :
            /\ claimsOn' = claimsOn \cup C /\ nodesOn' = nodesOn \cup EndsOf(C)
            /\ capped' = (capped \/ C # answer.claims \ claimsOn)
      BY <1>8 DEF Merge, Fitting
    <2>2. C \in SUBSET Claims BY DEF Answers
    <2>3. EndsOf(C) \subseteq Ents BY <2>2, <1>2
    <2>4. claimsOn' \subseteq Claims /\ nodesOn' \subseteq Ents /\ capped' \in BOOLEAN
      BY <2>1, <2>2, <2>3
    <2> QED BY <1>8, <1>1, <2>4 DEF Merge, server
  <1>9. CASE Discard BY <1>9, <1>1 DEF Discard, server, canvas
  <1>10. CASE NoResponse BY <1>10, <1>1 DEF NoResponse, server, canvas
  <1>11. CASE Reset
    <2>1. base.nodes \subseteq Ents /\ base.claims \subseteq Claims BY DEF Answers
    <2>2. nodesOn' \subseteq Ents /\ claimsOn' \subseteq Claims /\ drawnAnswers' \subseteq {a \in Answers : a.of \in Ents}
      BY <1>11, <2>1 DEF Reset
    <2>3. generation' \in Nat /\ button' \in BOOLEAN BY <1>11 DEF Reset
    <2>4. capped' \in BOOLEAN /\ UNCHANGED <<server, answer, view, base, expanding>>
      BY <1>11, Zenon DEF Reset
    <2> QED BY <2>2, <2>3, <2>4 DEF server
  <1>12. CASE LeavePage BY <1>12 DEF LeavePage, server, canvas
  <1>13. CASE UNCHANGED mapvars BY <1>13 DEF mapvars, server, canvas
  <1> QED
    BY <1>3, <1>4, <1>5, <1>6, <1>7, <1>8, <1>9, <1>10, <1>11, <1>12, <1>13 DEF MapNext

\* Idle says nothing.
LEMMA NothingAsked ==
    /\ Idle.step = "none" /\ Idle.asked = 0 /\ Idle.claims = {} /\ Idle.ties = {} /\ Idle.few = {} /\ Idle.nodes = {}
    /\ Cardinality({}) = 0 /\ EndsOf({}) = {}
  BY FS_EmptySet DEF Idle, EndsOf

LEMMA AnswerStep ==
    ASSUME MapTypeOK, AnswerInv, [MapNext]_mapvars PROVE AnswerInv'
  <1> USE DEF MapTypeOK
  <1>1. RelationshipLimit \in Nat /\ EventEdgeLimit \in Nat BY MapAssumption DEF MapAssumption
  <1>2. ASSUME answer' = Idle, everApproved' = everApproved PROVE AnswerInv'
    BY <1>1, <1>2, NothingAsked DEF AnswerInv, Trimmed
  <1>3. CASE ListClaims
    <2> DEFINE S == Profile(answer.of)
               L == LeastOf(S, RelationshipLimit)
    <2>1. S \in SUBSET Claims /\ S \subseteq approved BY DEF Profile, Connections
    <2>2. L \subseteq S /\ Cardinality(L) <= RelationshipLimit BY <2>1, <1>1, LeastOfBound
    <2>3. PICK t : answer' = [answer EXCEPT !.step = "evidence", !.claims = L, !.truncated = t]
      BY <1>3 DEF ListClaims
    <2>4. everApproved' = everApproved BY <1>3 DEF ListClaims, Query, server
    <2> HIDE DEF L
    <2>5. answer'.step = "evidence" /\ answer'.claims = L /\ answer'.ties = answer.ties
      BY <2>3 DEF Answers
    <2> QED BY <2>1, <2>2, <2>4, <2>5 DEF AnswerInv, Trimmed
  <1>4. CASE PrefetchEvidence
    <2> DEFINE kept == StillApproved(answer.claims)
    <2>1. kept \subseteq answer.claims BY DEF StillApproved
    <2>2. /\ answer'.step = "events" /\ answer'.claims = kept /\ answer'.ties = answer.ties
          /\ answer'.of = answer.of /\ answer'.nodes = {answer.of} \cup EndsOf(kept)
      BY <1>4 DEF PrefetchEvidence, Query, Answers
    <2>3. everApproved' = everApproved BY <1>4 DEF PrefetchEvidence, Query, server
    <2>4. Cardinality(kept) <= Cardinality(answer.claims) /\ Cardinality(kept) \in Nat
          /\ Cardinality(answer.claims) \in Nat
      <3>1. answer.claims \in SUBSET Claims BY DEF Answers
      <3>2. IsFiniteSet(answer.claims) BY <3>1, FS_Subset, MapAssumption DEF MapAssumption
      <3>3. IsFiniteSet(kept) /\ Cardinality(kept) <= Cardinality(answer.claims)
        BY <3>2, <2>1, FS_Subset
      <3> QED BY <3>2, <3>3, FS_CardinalityType
    <2> HIDE DEF kept
    <2> QED BY <2>1, <2>2, <2>3, <2>4, <1>1 DEF AnswerInv, Trimmed
  <1>5. CASE ListEvents
    <2>1. PICK top \in SUBSET Tied(answer.of) :
            /\ Cardinality(top) = IF Cardinality(Tied(answer.of)) > EventEdgeLimit
                                    THEN EventEdgeLimit ELSE Cardinality(Tied(answer.of))
            /\ answer' = [answer EXCEPT !.step = "counterparts", !.ties = top, !.drawn = top,
                                        !.more = Cardinality(Tied(answer.of)) - Cardinality(top)]
      BY <1>5 DEF ListEvents
    <2>2. Cardinality(Tied(answer.of)) \in Nat
      <3>1. Tied(answer.of) \in SUBSET Ents BY MapAssumption DEF MapAssumption, Tied
      <3> QED BY <3>1, FS_Subset, FS_CardinalityType, MapAssumption DEF MapAssumption
    <2>3. Cardinality(top) <= EventEdgeLimit BY <2>1, <2>2, <1>1
    <2>4. /\ answer'.step = "counterparts" /\ answer'.ties = top /\ answer'.claims = answer.claims
          /\ answer'.of = answer.of /\ answer'.nodes = answer.nodes
      BY <2>1 DEF Answers
    <2>5. everApproved' = everApproved /\ answer.step = "events" BY <1>5 DEF ListEvents, Query, server
    <2> QED BY <2>3, <2>4, <2>5 DEF AnswerInv, Trimmed
  <1>6. CASE DropHidden
    <2> DEFINE shown == answer.ties \cap open
    <2>1. /\ answer'.ties = shown /\ answer'.claims = answer.claims /\ answer'.of = answer.of
          /\ answer'.nodes = answer.nodes \cup shown /\ answer'.step \in Trimmed
      BY <1>6 DEF DropHidden, Query, Answers, Trimmed
    <2>2. everApproved' = everApproved /\ answer.step = "counterparts"
      BY <1>6 DEF DropHidden, Query, server
    <2>3. Cardinality(shown) <= EventEdgeLimit
      <3>1. answer.ties \in SUBSET Ents BY DEF Answers
      <3>2. IsFiniteSet(answer.ties) BY <3>1, FS_Subset, MapAssumption DEF MapAssumption
      <3>3. IsFiniteSet(shown) /\ Cardinality(shown) <= Cardinality(answer.ties) BY <3>2, FS_Subset
      <3>4. Cardinality(shown) \in Nat /\ Cardinality(answer.ties) \in Nat
        BY <3>2, <3>3, FS_CardinalityType
      <3>5. Cardinality(answer.ties) <= EventEdgeLimit BY DEF AnswerInv
      <3> HIDE DEF shown
      <3> QED BY <3>3, <3>4, <3>5, <1>1
    <2> HIDE DEF shown
    <2> QED BY <2>1, <2>2, <2>3 DEF AnswerInv, Trimmed
  <1>7. CASE CountTotals \/ CountConnections
    <2>1. /\ answer'.ties = answer.ties /\ answer'.claims = answer.claims /\ answer'.of = answer.of
          /\ answer'.nodes = answer.nodes /\ answer'.step \in {"connections", "sent"}
      <3>1. CASE CountTotals
        <4>1. PICK m : answer' = [answer EXCEPT !.step = "connections", !.more = m]
          BY <3>1 DEF CountTotals
        <4> QED BY <4>1 DEF Answers
      <3>2. CASE CountConnections
        <4>1. PICK f : answer' = [answer EXCEPT !.step = "sent", !.few = f]
          BY <3>2 DEF CountConnections
        <4> QED BY <4>1 DEF Answers
      <3> QED BY <1>7, <3>1, <3>2
    <2>2. everApproved' = everApproved /\ answer.step \in Trimmed
      BY <1>7 DEF CountTotals, CountConnections, Query, server, Trimmed
    <2> QED BY <2>1, <2>2 DEF AnswerInv, Trimmed
  <1>8. CASE Edit
    <2>1. everApproved \subseteq everApproved' /\ answer' = answer BY <1>8 DEF Edit
    <2> QED BY <2>1 DEF AnswerInv
  <1>9. CASE Expand
    <2>1. /\ answer'.step = "claims" /\ answer'.claims = {} /\ answer'.ties = {}
          /\ everApproved' = everApproved
      BY <1>9 DEF Expand, Idle, server
    <2> QED BY <2>1, <1>1, NothingAsked DEF AnswerInv, Trimmed
  <1>10. CASE Mounted \/ Merge \/ Discard \/ NoResponse
    BY <1>10, <1>2 DEF Mounted, Merge, Discard, NoResponse, server
  <1>11. CASE Select \/ Reset \/ LeavePage \/ UNCHANGED mapvars
    <2>1. answer' = answer /\ everApproved' = everApproved
      BY <1>11 DEF Select, Reset, LeavePage, mapvars, server
    <2> QED BY <2>1 DEF AnswerInv
  <1> QED
    BY <1>3, <1>4, <1>5, <1>6, <1>7, <1>8, <1>9, <1>10, <1>11 DEF MapNext, Serve

\* What is sent is taken.
LEMMA SentIsParsed == MapTypeOK /\ AnswerInv => AnswersAreTaken
  <1> SUFFICES ASSUME MapTypeOK, AnswerInv, answer.step = "sent" PROVE Parsed(answer)
    BY DEF AnswersAreTaken
  <1> DEFINE C == answer.claims
             T == answer.ties
             N == answer.nodes
  <1>1. C \in SUBSET Claims /\ T \in SUBSET Ents BY DEF MapTypeOK, Answers
  <1>2. /\ Cardinality(C) <= RelationshipLimit /\ Cardinality(T) <= EventEdgeLimit
        /\ N = {answer.of} \cup EndsOf(C) \cup T
    BY DEF AnswerInv, Trimmed
  <1>3. /\ IsFiniteSet(EndsOf(C)) /\ Cardinality(C) \in Nat
        /\ Cardinality(EndsOf(C)) <= 2 * Cardinality(C)
    BY <1>1, EndsBound
  <1>4. IsFiniteSet(T) BY <1>1, FS_Subset, MapAssumption DEF MapAssumption
  <1> HIDE DEF C, T, N
  <1>5. /\ IsFiniteSet(EndsOf(C) \cup {answer.of})
        /\ Cardinality(EndsOf(C) \cup {answer.of}) <= Cardinality(EndsOf(C)) + 1
    <2>1. /\ IsFiniteSet(EndsOf(C) \cup {answer.of})
          /\ Cardinality(EndsOf(C) \cup {answer.of})
               = IF answer.of \in EndsOf(C) THEN Cardinality(EndsOf(C)) ELSE Cardinality(EndsOf(C)) + 1
      BY <1>3, FS_AddElement, Zenon
    <2>2. Cardinality(EndsOf(C)) \in Nat BY <1>3, FS_CardinalityType
    <2> QED BY <2>1, <2>2
  <1>6. /\ IsFiniteSet((EndsOf(C) \cup {answer.of}) \cap T)
        /\ Cardinality((EndsOf(C) \cup {answer.of}) \cup T)
             = Cardinality(EndsOf(C) \cup {answer.of}) + Cardinality(T)
                 - Cardinality((EndsOf(C) \cup {answer.of}) \cap T)
    BY <1>4, <1>5, FS_Union, FS_Intersection
  <1>7. N = (EndsOf(C) \cup {answer.of}) \cup T BY <1>2
  <1>8. /\ Cardinality(T) \in Nat /\ Cardinality(EndsOf(C)) \in Nat
        /\ Cardinality(EndsOf(C) \cup {answer.of}) \in Nat
        /\ Cardinality((EndsOf(C) \cup {answer.of}) \cap T) \in Nat
    BY <1>3, <1>4, <1>5, <1>6, FS_CardinalityType
  <1>9. RelationshipLimit \in Nat /\ EventEdgeLimit \in Nat BY MapAssumption DEF MapAssumption
  <1>10. Cardinality(N) <= 2 * RelationshipLimit + 1 + EventEdgeLimit
    <2>1. Cardinality(N) = Cardinality(EndsOf(C) \cup {answer.of}) + Cardinality(T)
                             - Cardinality((EndsOf(C) \cup {answer.of}) \cap T)
      BY <1>6, <1>7
    <2> QED BY <2>1, <1>2, <1>3, <1>5, <1>8, <1>9
  <1>11. (\A c \in C : Ends[c] \subseteq N) /\ T \subseteq N BY <1>2 DEF EndsOf
  <1> QED BY <1>2, <1>10, <1>11 DEF Parsed, C, T, N

LEMMA FewStep ==
    ASSUME MapTypeOK, FewInv, [MapNext]_mapvars PROVE FewInv'
  <1> SUFFICES ASSUME edits' = 0 PROVE FewInv'
    BY DEF FewInv
  <1>1. ~Edit /\ edits = 0 /\ UNCHANGED server
    <2>1. CASE Edit
      <3>1. edits' = edits + 1 BY <2>1 DEF Edit
      <3> QED BY <3>1 DEF MapTypeOK
    <2>2. CASE ~Edit
      <3>1. UNCHANGED server
        BY <2>2 DEF MapNext, Serve, Query, ListClaims, PrefetchEvidence, ListEvents, DropHidden,
                    CountTotals, CountConnections, Mounted, Select, Expand, Merge, Discard,
                    NoResponse, Reset, LeavePage, mapvars
      <3> QED BY <2>2, <3>1 DEF server
    <2> QED BY <2>1, <2>2
  <1>2. Lines' = Lines BY <1>1 DEF server, Lines, Connections
  <1>3. answer.step # "none" => Lines[answer.of] = Connections(answer.of)
    BY DEF MapTypeOK, Lines
  <1>4. CASE Serve
    <2>1. UNCHANGED <<view, base, drawnAnswers>> /\ answer.step # "none"
      BY <1>4 DEF Serve, Query, ListClaims, PrefetchEvidence, ListEvents, DropHidden, CountTotals,
                  CountConnections
    <2>2. CASE ListClaims
      <3> DEFINE S == Profile(answer.of)
                 L == LeastOf(S, RelationshipLimit)
                 many == Cardinality(S) > RelationshipLimit
      <3>1. answer' = [answer EXCEPT !.step = "evidence", !.claims = L, !.truncated = many]
        BY <2>2 DEF ListClaims
      <3>2. ASSUME view # "loading" PROVE L = Lines[answer.of] /\ ~many
        <4>1. S = Lines[answer.of] /\ Cardinality(S) <= ExpandableLimit
          BY <3>2, <2>1, <1>1, <1>3 DEF Profile, FewInv
        <4>2. S \in SUBSET Claims BY DEF Profile, Connections, MapTypeOK
        <4>3. Cardinality(S) \in Nat BY <4>2, EndsBound
        <4>4. /\ ExpandableLimit <= RelationshipLimit /\ ExpandableLimit \in Nat
              /\ RelationshipLimit \in Nat
          BY MapAssumption DEF MapAssumption
        <4> HIDE DEF S
        <4>5. Cardinality(S) <= RelationshipLimit BY <4>1, <4>3, <4>4
        <4> QED BY <4>1, <4>2, <4>3, <4>4, <4>5, LeastOfBound
      <3> HIDE DEF L, many
      <3>3. /\ answer'.few = answer.few /\ answer'.of = answer.of /\ answer'.step = "evidence"
            /\ answer'.claims = L /\ answer'.truncated = many
        BY <3>1 DEF MapTypeOK, Answers
      <3> QED BY <1>1, <1>2, <2>1, <3>2, <3>3 DEF FewInv
    <2>3. CASE PrefetchEvidence
      <3>1. /\ answer'.few = answer.few /\ answer'.of = answer.of /\ answer'.step = "events"
            /\ answer'.claims = StillApproved(answer.claims) /\ answer'.truncated = answer.truncated
        BY <2>3 DEF PrefetchEvidence, MapTypeOK, Answers
      <3>2. answer.step = "evidence" BY <2>3 DEF PrefetchEvidence, Query
      <3>3. StillApproved(Lines[answer.of]) = Lines[answer.of]
        BY <1>3, <2>1 DEF StillApproved, Connections
      <3> QED BY <1>1, <1>2, <2>1, <3>1, <3>2, <3>3 DEF Listed, FewInv
    <2>4. CASE ListEvents \/ DropHidden \/ CountTotals
      <3>1. PICK st, ti, dr, mo, no :
              answer' = [answer EXCEPT !.step = st, !.ties = ti, !.drawn = dr, !.more = mo, !.nodes = no]
        <4>1. CASE ListEvents
          <5>1. PICK t, m : answer' = [answer EXCEPT !.step = "counterparts", !.ties = t, !.drawn = t,
                                                     !.more = m]
            BY <4>1 DEF ListEvents
          <5>2. answer' = [answer EXCEPT !.step = "counterparts", !.ties = t, !.drawn = t, !.more = m,
                                         !.nodes = answer.nodes]
            BY <5>1 DEF MapTypeOK, Answers
          <5> QED BY <5>2
        <4>2. CASE DropHidden
          <5>1. PICK t, ti, no : answer' = [answer EXCEPT !.step = t, !.ties = ti, !.nodes = no]
            BY <4>2 DEF DropHidden
          <5>2. answer' = [answer EXCEPT !.step = t, !.ties = ti, !.drawn = answer.drawn,
                                         !.more = answer.more, !.nodes = no]
            BY <5>1 DEF MapTypeOK, Answers
          <5> QED BY <5>2
        <4>3. CASE CountTotals
          <5>1. PICK m : answer' = [answer EXCEPT !.step = "connections", !.more = m]
            BY <4>3 DEF CountTotals
          <5>2. answer' = [answer EXCEPT !.step = "connections", !.ties = answer.ties,
                             !.drawn = answer.drawn, !.more = m, !.nodes = answer.nodes]
            BY <5>1 DEF MapTypeOK, Answers
          <5> QED BY <5>2
        <4> QED BY <2>4, <4>1, <4>2, <4>3
      <3>2. /\ answer'.few = answer.few /\ answer'.of = answer.of /\ answer'.claims = answer.claims
            /\ answer'.truncated = answer.truncated
        BY <3>1 DEF MapTypeOK, Answers
      <3>3. answer.step \in Listed
        BY <2>4 DEF ListEvents, DropHidden, CountTotals, Query, Listed
      <3> QED BY <1>1, <1>2, <2>1, <3>2, <3>3 DEF FewInv
    <2>5. CASE CountConnections
      <3>1. answer' = [answer EXCEPT !.step = "sent",
                         !.few = {e \in answer.nodes : Cardinality(Connections(e)) \in 2..ExpandableLimit}]
        BY <2>5 DEF CountConnections
      <3>2. /\ \A e \in answer'.few : Cardinality(Lines[e]) <= ExpandableLimit
            /\ answer'.of = answer.of /\ answer'.claims = answer.claims
            /\ answer'.truncated = answer.truncated
        BY <3>1 DEF MapTypeOK, Answers, Lines
      <3>3. answer.step \in Listed BY <2>5 DEF CountConnections, Query, Listed
      <3> QED BY <1>1, <1>2, <2>1, <3>2, <3>3 DEF FewInv
    <2> QED BY <1>4, <2>2, <2>3, <2>4, <2>5 DEF Serve
  <1>5. CASE Mounted
    <2>1. answer' = Idle /\ drawnAnswers' = drawnAnswers /\ base' \in {base, answer}
      BY <1>5 DEF Mounted
    <2> QED BY <1>1, <1>2, <2>1, NothingAsked DEF Listed, FewInv
  <1>6. CASE Expand
    <2>1. /\ answer'.few = {} /\ answer'.of = chosen /\ answer'.step = "claims"
          /\ chosen \in base.few \cup UNION {a.few : a \in drawnAnswers} /\ chosen # Centre
          /\ UNCHANGED <<view, base, drawnAnswers>>
      BY <1>6 DEF Expand, Idle
    <2> QED BY <1>1, <1>2, <2>1 DEF Listed, FewInv
  <1>7. CASE Merge
    <2>1. /\ answer' = Idle /\ drawnAnswers' = drawnAnswers \cup {answer} /\ base' = base
          /\ view # "loading" /\ answer.step \in Listed
      BY <1>7 DEF Merge, ForThisMap, Listed
    <2> QED BY <1>1, <1>2, <2>1, NothingAsked DEF Listed, FewInv
  <1>8. CASE Discard \/ NoResponse
    <2>1. answer' = Idle /\ UNCHANGED <<base, drawnAnswers>> BY <1>8 DEF Discard, NoResponse
    <2> QED BY <1>1, <1>2, <2>1, NothingAsked DEF Listed, FewInv
  <1>9. CASE Reset
    <2>1. drawnAnswers' = {} /\ UNCHANGED <<answer, base, view>> BY <1>9 DEF Reset
    <2> QED BY <1>1, <1>2, <2>1 DEF FewInv
  <1>10. CASE Select \/ LeavePage \/ UNCHANGED mapvars
    <2>1. UNCHANGED <<answer, base, drawnAnswers>> /\ (view' = "loading" <=> view = "loading")
      BY <1>10 DEF Select, LeavePage, mapvars
    <2> QED BY <1>1, <1>2, <2>1 DEF FewInv
  <1> QED BY <1>1, <1>4, <1>5, <1>6, <1>7, <1>8, <1>9, <1>10 DEF MapNext

LEMMA WaitStep ==
    ASSUME MapTypeOK, WaitInv, [MapNext]_mapvars PROVE WaitInv'
  <1> USE NothingAsked
  <1>0. generation \in Nat /\ answer.asked \in Nat /\ button \in BOOLEAN /\ expanding \in BOOLEAN
    BY DEF MapTypeOK, Answers
  <1>1. CASE Serve
    <2>1. /\ UNCHANGED <<view, base, canvas, expanding, button, generation, drawnAnswers>>
          /\ answer.step # "none"
      BY <1>1 DEF Serve, Query, ListClaims, PrefetchEvidence, ListEvents, DropHidden, CountTotals,
                  CountConnections
    <2>2. answer'.step # "none" /\ answer'.asked = answer.asked
      <3>1. CASE ListClaims
        <4>1. PICK c, t : answer' = [answer EXCEPT !.step = "evidence", !.claims = c, !.truncated = t]
          BY <3>1 DEF ListClaims
        <4> QED BY <4>1 DEF MapTypeOK, Answers
      <3>2. CASE PrefetchEvidence
        <4>1. PICK c, n : answer' = [answer EXCEPT !.step = "events", !.claims = c, !.nodes = n]
          BY <3>2 DEF PrefetchEvidence
        <4> QED BY <4>1 DEF MapTypeOK, Answers
      <3>3. CASE ListEvents
        <4>1. PICK t, m : answer' = [answer EXCEPT !.step = "counterparts", !.ties = t, !.drawn = t,
                                                   !.more = m]
          BY <3>3 DEF ListEvents
        <4> QED BY <4>1 DEF MapTypeOK, Answers
      <3>4. CASE DropHidden
        <4>1. PICK t, n : answer' = [answer EXCEPT !.step = IF answer.more > 0 THEN "totals" ELSE "connections",
                                                   !.ties = t, !.nodes = n]
          BY <3>4 DEF DropHidden
        <4> QED BY <4>1 DEF MapTypeOK, Answers
      <3>5. CASE CountTotals
        <4>1. PICK m : answer' = [answer EXCEPT !.step = "connections", !.more = m]
          BY <3>5 DEF CountTotals
        <4> QED BY <4>1 DEF MapTypeOK, Answers
      <3>6. CASE CountConnections
        <4>1. PICK f : answer' = [answer EXCEPT !.step = "sent", !.few = f]
          BY <3>6 DEF CountConnections
        <4> QED BY <4>1 DEF MapTypeOK, Answers
      <3> QED BY <1>1, <3>1, <3>2, <3>3, <3>4, <3>5, <3>6 DEF Serve
    <2>3. canvas' = canvas BY <2>1
    <2> QED BY <2>1, <2>2, <2>3 DEF WaitInv, canvas
  <1>2. CASE Edit BY <1>2 DEF Edit, canvas, WaitInv
  <1>3. CASE Mounted
    <2>1. answer'.step = "none" /\ answer'.asked = 0 BY <1>3 DEF Mounted
    <2>2. /\ view = "loading" /\ view' \in {"empty", "ready"} /\ button /\ ~expanding
          /\ UNCHANGED <<expanding, button, generation>>
      BY <1>3 DEF Mounted, WaitInv
    <2> QED BY <1>0, <2>1, <2>2 DEF WaitInv
  <1>4. CASE Select BY <1>0, <1>4 DEF Select, WaitInv
  <1>5. CASE Expand
    <2>1. answer'.step = "claims" /\ answer'.asked = generation BY <1>5 DEF Expand, Idle
    <2> QED BY <1>0, <1>5, <2>1 DEF Expand, WaitInv
  <1>6. CASE Merge BY <1>0, <1>6 DEF Merge, ForThisMap, WaitInv
  <1>7. CASE Discard BY <1>0, <1>7 DEF Discard, ForThisMap, WaitInv, canvas
  <1>8. CASE NoResponse
    <2>1. answer'.step = "none" /\ answer'.asked = 0 BY <1>8 DEF NoResponse
    <2>2. view' # "loading" /\ ~expanding' /\ generation' = generation BY <1>8 DEF NoResponse
    <2>3. ASSUME view' = "ready", ~button' PROVE generation > 0
      <3>1. view = "ready" /\ ~ForThisMap BY <1>8, <2>3 DEF NoResponse
      <3>. QED BY <1>0, <3>1 DEF ForThisMap, WaitInv
    <2> QED BY <1>0, <2>1, <2>2, <2>3 DEF WaitInv
  <1>9. CASE Reset BY <1>0, <1>9 DEF Reset, WaitInv
  <1>10. CASE LeavePage BY <1>10 DEF LeavePage, WaitInv, canvas
  <1>11. CASE UNCHANGED mapvars BY <1>11 DEF mapvars, WaitInv, canvas
  <1> QED BY <1>1, <1>2, <1>3, <1>4, <1>5, <1>6, <1>7, <1>8, <1>9, <1>10, <1>11 DEF MapNext

\* One expansion keeps both limits: the last line it drew fits with all the others.
LEMMA FittingBound ==
    ASSUME MapTypeOK, ExpansionsStand,
           NEW new \in SUBSET (Claims \ claimsOn), NEW C \in Fitting(new), C # {}
    PROVE  /\ Cardinality(claimsOn \cup C) + Cardinality(base.ties) + MoreNodes(base) <= CanvasEdgeLimit
           /\ Cardinality(nodesOn \cup EndsOf(C)) + MoreNodes(base) <= CanvasNodeLimit
  <1>1. C \subseteq new /\ \A c \in new : c \in C <=> Fits(C, c) BY DEF Fitting
  <1>2. C \in SUBSET Nat /\ IsFiniteSet(C) /\ C \cap claimsOn = {}
    BY <1>1, FS_Subset, MapAssumption DEF MapAssumption
  <1>3. PICK m \in C : \A c \in C : c <= m BY <1>2, MaxExists
  <1> DEFINE before == {d \in C : d < m}
  <1>4. C = before \cup {m} /\ m \notin before
    <2>1. ASSUME NEW c \in C, c # m PROVE c < m
      <3>1. c <= m /\ c \in Nat /\ m \in Nat BY <1>2, <1>3
      <3> QED BY <3>1, <2>1
    <2>2. ~(m < m) BY <1>2, <1>3
    <2> QED BY <2>1, <2>2
  <1>5. /\ EdgeCount + Cardinality(before) + 1 <= CanvasEdgeLimit
        /\ Cardinality(nodesOn \cup EndsOf(before) \cup Ends[m]) + MoreNodes(base) <= CanvasNodeLimit
    BY <1>1, <1>3 DEF Fits
  <1> HIDE DEF before
  <1>6. IsFiniteSet(before) BY <1>2, <1>4, FS_Subset
  <1>7. Cardinality(C) = Cardinality(before) + 1 BY <1>4, <1>6, FS_AddElement
  <1>8. Cardinality(claimsOn \cup C) = Cardinality(claimsOn) + Cardinality(C)
    <2>1. IsFiniteSet(claimsOn) BY FS_Subset, MapAssumption DEF MapAssumption, MapTypeOK
    <2>2. Cardinality(claimsOn \cup C)
            = Cardinality(claimsOn) + Cardinality(C) - Cardinality(claimsOn \cap C)
      BY <2>1, <1>2, FS_Union
    <2>3. claimsOn \cap C = {} BY <1>2
    <2>4. Cardinality(claimsOn \cap C) = 0 BY <2>3, FS_EmptySet
    <2>5. Cardinality(claimsOn) \in Nat /\ Cardinality(C) \in Nat BY <2>1, <1>2, FS_CardinalityType
    <2> QED BY <2>2, <2>4, <2>5
  <1>9. EndsOf(C) = EndsOf(before) \cup Ends[m] BY <1>4 DEF EndsOf
  <1>10. nodesOn \cup EndsOf(C) = nodesOn \cup EndsOf(before) \cup Ends[m] BY <1>9
  <1>11. /\ Cardinality(claimsOn) \in Nat /\ Cardinality(before) \in Nat
         /\ Cardinality(base.ties) \in Nat /\ MoreNodes(base) \in Nat /\ CanvasEdgeLimit \in Nat
    <2>1. IsFiniteSet(claimsOn) BY FS_Subset, MapAssumption DEF MapAssumption, MapTypeOK
    <2>2. base.ties \in SUBSET Ents BY DEF MapTypeOK, Answers
    <2>3. IsFiniteSet(base.ties) BY <2>2, FS_Subset, MapAssumption DEF MapAssumption
    <2>4. MoreNodes(base) \in Nat BY DEF MoreNodes
    <2> QED BY <2>1, <2>3, <2>4, <1>6, FS_CardinalityType, MapAssumption DEF MapAssumption
  <1>12. EdgeCount = Cardinality(claimsOn) + Cardinality(base.ties) + MoreNodes(base) BY DEF EdgeCount
  <1>13. Cardinality(claimsOn \cup C) + Cardinality(base.ties) + MoreNodes(base) <= CanvasEdgeLimit
    BY <1>5, <1>7, <1>8, <1>11, <1>12
  <1> QED BY <1>5, <1>10, <1>13

LEMMA CanvasStep ==
    ASSUME MapTypeOK, AnswerInv, CanvasInv, WaitInv, [MapNext]_mapvars PROVE CanvasInv'
  <1> DEFINE brought == UNION {a.claims : a \in drawnAnswers}
  <1>1. CASE Serve \/ Expand \/ Discard \/ NoResponse \/ Select \/ LeavePage \/ UNCHANGED mapvars
    <2>1. UNCHANGED <<everApproved, base, nodesOn, claimsOn, expanded, capped, generation, drawnAnswers>>
      BY <1>1 DEF Serve, Query, ListClaims, PrefetchEvidence, ListEvents, DropHidden, CountTotals,
                  CountConnections, Expand, Discard, NoResponse, Select, LeavePage, mapvars, server,
                  canvas
    <2> QED BY <2>1 DEF CanvasInv, ExpansionsStand, EdgeCount, NodeCount, MoreNodes
  <1>2. CASE Edit
    <2>1. /\ UNCHANGED <<base, nodesOn, claimsOn, expanded, capped, generation, drawnAnswers>>
          /\ everApproved \subseteq everApproved'
      BY <1>2 DEF Edit, canvas
    <2> QED BY <2>1 DEF CanvasInv, ExpansionsStand, EdgeCount, NodeCount, MoreNodes
  <1>3. CASE Mounted
    <2>1. /\ UNCHANGED <<everApproved, expanded, capped, generation, drawnAnswers>>
          /\ expanded = {} /\ drawnAnswers = {}
      BY <1>3 DEF Mounted, server, WaitInv
    <2>2. CASE UNCHANGED <<base, nodesOn, claimsOn>>
      BY <2>1, <2>2 DEF CanvasInv, ExpansionsStand, EdgeCount, NodeCount, MoreNodes
    <2>3. CASE base' = answer /\ nodesOn' = answer.nodes /\ claimsOn' = answer.claims
      <3>1. EndsOf(answer.claims) \subseteq answer.nodes BY <1>3 DEF Mounted, Parsed, EndsOf
      <3>2. answer.nodes = answer.nodes \cup EndsOf(answer.claims) BY <3>1
      <3>3. EndsOf(base'.claims) \subseteq base'.nodes /\ base'.claims \subseteq claimsOn'
        BY <2>3, <3>1
      <3>4. claimsOn' \subseteq everApproved' BY <2>1, <2>3 DEF AnswerInv
      <3>5. ExpansionsStand'
        <4>1. /\ expanded' = {a.of : a \in drawnAnswers'}
              /\ \A a \in drawnAnswers' : a.asked = generation'
              /\ nodesOn' = base'.nodes \cup EndsOf(claimsOn')
              /\ claimsOn' = base'.claims \cup UNION {a.claims : a \in drawnAnswers'}
              /\ claimsOn' = base'.claims
          BY <2>1, <2>3, <3>2
        <4> QED BY <4>1 DEF ExpansionsStand
      <3> QED BY <3>3, <3>4, <3>5 DEF CanvasInv
    <2> QED BY <1>3, <2>2, <2>3 DEF Mounted
  <1>4. CASE Merge
    <2> DEFINE new == answer.claims \ claimsOn
    <2>1. PICK C \in Fitting(new) :
            /\ claimsOn' = claimsOn \cup C /\ nodesOn' = nodesOn \cup EndsOf(C)
            /\ capped' = (capped \/ C # new)
      BY <1>4 DEF Merge
    <2>2. /\ expanded' = expanded \cup {answer.of} /\ drawnAnswers' = drawnAnswers \cup {answer}
          /\ UNCHANGED <<everApproved, base, generation>> /\ answer.asked = generation
      BY <1>4 DEF Merge, ForThisMap, server
    <2>3. C \subseteq new BY <2>1 DEF Fitting
    <2>4. new \in SUBSET (Claims \ claimsOn) BY DEF MapTypeOK, Answers
    <2> HIDE DEF new
    <2>5. EndsOf(claimsOn \cup C) = EndsOf(claimsOn) \cup EndsOf(C) BY DEF EndsOf
    <2>6. nodesOn' = base'.nodes \cup EndsOf(claimsOn')
      BY <2>1, <2>2, <2>5 DEF CanvasInv, ExpansionsStand
    <2>7. UNION {a.claims : a \in drawnAnswers'} = brought \cup answer.claims BY <2>2
    <2>8. claimsOn' \subseteq base'.claims \cup UNION {a.claims : a \in drawnAnswers'}
      BY <2>1, <2>2, <2>3, <2>7 DEF CanvasInv, ExpansionsStand, new
    <2>9. ~capped' => claimsOn' = base'.claims \cup UNION {a.claims : a \in drawnAnswers'}
      BY <2>1, <2>2, <2>3, <2>7 DEF CanvasInv, ExpansionsStand, new
    <2>10. claimsOn' # base'.claims =>
             EdgeCount' <= CanvasEdgeLimit /\ NodeCount' <= CanvasNodeLimit
      <3>1. CASE C = {}
        <4>1. claimsOn' = claimsOn /\ nodesOn' = nodesOn /\ base' = base
          BY <3>1, <2>1, <2>2, NothingAsked
        <4> QED BY <4>1 DEF CanvasInv, ExpansionsStand, EdgeCount, NodeCount, MoreNodes
      <3>2. CASE C # {}
        <4>1. /\ Cardinality(claimsOn \cup C) + Cardinality(base.ties) + MoreNodes(base)
                   <= CanvasEdgeLimit
              /\ Cardinality(nodesOn \cup EndsOf(C)) + MoreNodes(base) <= CanvasNodeLimit
          BY <3>2, <2>1, <2>4, FittingBound DEF CanvasInv
        <4> QED BY <4>1, <2>1, <2>2 DEF EdgeCount, NodeCount, MoreNodes
      <3> QED BY <3>1, <3>2
    <2>11. expanded' = {a.of : a \in drawnAnswers'} /\ \A a \in drawnAnswers' : a.asked = generation'
      BY <2>2 DEF CanvasInv, ExpansionsStand
    <2>12. ExpansionsStand' BY <2>6, <2>8, <2>9, <2>10, <2>11 DEF ExpansionsStand
    <2>13. /\ EndsOf(base'.claims) \subseteq base'.nodes /\ base'.claims \subseteq claimsOn'
           /\ claimsOn' \subseteq everApproved'
      BY <2>1, <2>2, <2>3 DEF CanvasInv, AnswerInv, new
    <2> QED BY <2>12, <2>13 DEF CanvasInv
  <1>5. CASE Reset
    <2>1. /\ UNCHANGED <<everApproved, base>> /\ nodesOn' = base.nodes /\ claimsOn' = base.claims
          /\ expanded' = {} /\ drawnAnswers' = {}
      BY <1>5 DEF Reset, server
    <2>2. base.nodes = base.nodes \cup EndsOf(base.claims) BY DEF CanvasInv
    <2>3. /\ expanded' = {a.of : a \in drawnAnswers'}
          /\ \A a \in drawnAnswers' : a.asked = generation'
          /\ nodesOn' = base'.nodes \cup EndsOf(claimsOn')
          /\ claimsOn' = base'.claims \cup UNION {a.claims : a \in drawnAnswers'}
          /\ claimsOn' = base'.claims
      BY <2>1, <2>2
    <2>4. ExpansionsStand' BY <2>3 DEF ExpansionsStand
    <2>5. /\ EndsOf(base'.claims) \subseteq base'.nodes /\ base'.claims \subseteq claimsOn'
          /\ claimsOn' \subseteq everApproved'
      BY <2>1 DEF CanvasInv
    <2> QED BY <2>4, <2>5 DEF CanvasInv
  <1> QED BY <1>1, <1>2, <1>3, <1>4, <1>5 DEF MapNext

LEMMA MapStart == MapInit => MapInv
  <1> SUFFICES ASSUME MapInit PROVE MapInv
    OBVIOUS
  <1>1. MapTypeOK BY MapTypes
  <1>2. /\ answer.claims = {} /\ answer.ties = {} /\ answer.few = {} /\ answer.step = "claims"
        /\ base = Idle /\ nodesOn = {} /\ claimsOn = {} /\ expanded = {} /\ drawnAnswers = {}
        /\ ~capped /\ ~expanding /\ view = "loading" /\ button /\ generation = 0 /\ answer.asked = 0
    BY DEF MapInit, Idle
  <1>3. base.claims = {} /\ base.nodes = {} /\ base.few = {} /\ base.ties = {}
    BY <1>2, NothingAsked
  <1>4. AnswerInv
    BY <1>2, NothingAsked, MapAssumption DEF MapAssumption, AnswerInv, Trimmed
  <1>5. FewInv BY <1>2, <1>3 DEF FewInv
  <1>6. CanvasInv BY <1>2, <1>3, NothingAsked DEF CanvasInv, ExpansionsStand
  <1>7. WaitInv BY <1>2 DEF WaitInv
  <1> QED BY <1>1, <1>4, <1>5, <1>6, <1>7 DEF MapInv

LEMMA MapInvariance == MapSpec => []MapInv
  <1>1. MapInit => MapInv BY MapStart
  <1>2. MapInv /\ [MapNext]_mapvars => MapInv'
    BY MapTypeStep, AnswerStep, FewStep, CanvasStep, WaitStep DEF MapInv
  <1> QED BY <1>1, <1>2, PTL DEF MapSpec

\* The browser takes every answer the server makes; every line drawn was published and joins
\* entities that are drawn; the map holds the first answer and what expansions of this map
\* brought, within its limits or saying that it reached them; and a reader can expand again.
THEOREM MapsAreSound == MapSpec => []MapIsSound
  <1>1. MapInv => MapIsSound
    <2> SUFFICES ASSUME MapInv PROVE MapIsSound
      OBVIOUS
    <2> USE DEF MapInv
    <2>1. AnswersAreTaken BY SentIsParsed
    <2>2. LinesStand
      BY DEF LinesStand, CanvasInv, ExpansionsStand, EndsOf
    <2>3. ExpansionsStand BY DEF CanvasInv
    <2>4. view = "ready" => NothingIsLeftOut
      <3>1. \A a \in drawnAnswers : Lines[a.of] = Connections(a.of) BY DEF MapTypeOK, Lines
      <3> QED BY <3>1 DEF FewInv, NothingIsLeftOut
    <2>5. view = "ready" => NeverStuck BY DEF WaitInv, NeverStuck
    <2> QED BY <2>1, <2>2, <2>3, <2>4, <2>5 DEF MapIsSound
  <1> QED BY <1>1, MapInvariance, PTL

=============================================================================
