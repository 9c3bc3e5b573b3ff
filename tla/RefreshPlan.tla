----------------------------- MODULE RefreshPlan -----------------------------
(***************************************************************************)
(* refresh_sources.py: every importer as an ordered step, prerequisites    *)
(* that stop the steps that rest on them, and minimum intervals kept in    *)
(* core.RefreshState.  Nothing locks a refresh: the weekly run and one     *)
(* started by hand may overlap, and either may die at any point, also      *)
(* between the import that commits and the row that remembers it.          *)
(***************************************************************************)
EXTENDS Integers, Sequences

CONSTANTS Plan,         \* what steps() yields: [name, family, interval, initial]
          Runners,      \* commands that may run at one time
          Weekly,       \* the one the platform starts every Week
          Options,      \* [apply, initial : BOOLEAN, only, skip : SUBSET names]
          Week, MaxRun, \* the period, and how long a run takes at most
          Instants,     \* when something may happen
          MaxManual     \* bound of the instance

Steps == DOMAIN Plan
Selectors == {Plan[s].name : s \in Steps} \cup {Plan[s].family : s \in Steps}

\* mutant: a family that rests on another's dependents is not listed itself
DirectDependents == {"government", "government_archive", "government_nominations",
                     "european_parliament"}

ARDependents == {"government", "government_archive", "government_nominations",
                 "ept_offices", "interests", "european_parliament"}

\* The families whose failure stops a family.
Requires(family) == {p \in {"parliament"} : family \in ARDependents}
               \cup {p \in {"government"} : family \in {"ept_offices", "interests"}}

\* The order steps() yields: what a family rests on comes first, link_identities last.
ASSUME PlanAssumption ==
    /\ Plan \in Seq([name : STRING, family : STRING, interval : Nat, initial : BOOLEAN])
    /\ \A s, t \in Steps : Plan[s].family \in Requires(Plan[t].family) => s < t
    /\ Options \subseteq [apply : BOOLEAN, initial : BOOLEAN,
                          only : SUBSET Selectors, skip : SUBSET Selectors]
    /\ Weekly \in Runners /\ Instants \subseteq Nat
    /\ Week \in Nat \ {0} /\ MaxRun \in Nat /\ MaxRun < Week

\* MIN_INTERVAL is less than the period by what a run may last.
ASSUME RestAssumption == \A s \in Steps : Plan[s].interval + MaxRun <= Week

Never  == -1
Usual  == [apply |-> TRUE, initial |-> FALSE, only |-> {}, skip |-> {}]

VARIABLES
    now,
    last,       \* RefreshState.last_success by step
    applied,    \* history: when a step's import last committed
    by,         \* history: the runner that wrote last
    at,         \* of each runner: index of its step, 0 when it does not run
    phase,      \* between steps, importing, or to record a success
    options, began,             \* its options and when it started
    failed,     \* steps it reports as failed
    spared,     \* history: steps it left alone because of their interval
    outcome,     \* how its last run ended
    manual      \* counter of the bound MaxManual

progress == <<at, phase, failed, spared>>
rvars == <<now, last, applied, by, progress, options, began, outcome, manual>>

RefreshTypeOK ==
    /\ now \in Nat /\ manual \in Nat
    /\ last \in [Steps -> {Never} \cup Nat] /\ applied \in [Steps -> {Never} \cup Nat]
    /\ by \in [Steps -> Runners]
    /\ at \in [Runners -> 0 .. Len(Plan) + 1]
    /\ phase \in [Runners -> {"between", "importing", "recording"}]
    /\ options \in [Runners -> Options \cup {Usual}]
    /\ began \in [Runners -> Nat]
    /\ failed \in [Runners -> SUBSET Steps] /\ spared \in [Runners -> SUBSET Steps]
    /\ outcome \in [Runners -> {"none", "ok", "failed"}]

RefreshInit ==
    /\ now = 0 /\ manual = 0
    /\ last = [s \in Steps |-> Never] /\ applied = [s \in Steps |-> Never]
    /\ by = [s \in Steps |-> Weekly]
    /\ at = [r \in Runners |-> 0] /\ phase = [r \in Runners |-> "between"]
    /\ options = [r \in Runners |-> Usual] /\ began = [r \in Runners |-> 0]
    /\ failed = [r \in Runners |-> {}] /\ spared = [r \in Runners |-> {}]
    /\ outcome = [r \in Runners |-> "none"]

Running(r) == at[r] # 0
Current(r) == Plan[at[r]]
Selected(r) == {Current(r).name, Current(r).family}
FailedFamilies(r) == {Plan[s].family : s \in failed[r]}

-----------------------------------------------------------------------------

Start(r, o) ==
    /\ ~Running(r) /\ at' = [at EXCEPT ![r] = 1]
    /\ IF r = Weekly THEN o = Usual /\ now % Week = 0 /\ (outcome[r] = "none" \/ began[r] # now)
                          /\ UNCHANGED manual
                     ELSE manual < MaxManual /\ manual' = manual + 1
    /\ options' = [options EXCEPT ![r] = o] /\ began' = [began EXCEPT ![r] = now]
    /\ failed' = [failed EXCEPT ![r] = {}] /\ spared' = [spared EXCEPT ![r] = {}]
    /\ outcome' = [outcome EXCEPT ![r] = "none"]
    /\ UNCHANGED <<now, last, applied, by, phase>>

Between(r) == Running(r) /\ at[r] <= Len(Plan) /\ phase[r] = "between"

Unselected(r) ==
    \/ options[r].only # {} /\ Selected(r) \cap options[r].only = {}
    \/ Selected(r) \cap options[r].skip # {}
    \/ Current(r).initial /\ ~options[r].initial

Barred(r) == Requires(Current(r).family) \cap FailedFamilies(r) # {}

WholeWeek(r) ==                 \* mutant: the interval is the period itself
    /\ Current(r).interval > 0 /\ options[r].only = {} /\ ~options[r].initial
    /\ last[at[r]] # Never /\ now - last[at[r]] < Week

\* A success less than the interval ago spares the step.
Rested(r) ==
    /\ Current(r).interval > 0 /\ options[r].only = {} /\ ~options[r].initial
    /\ last[at[r]] # Never /\ now - last[at[r]] < Current(r).interval

Advance(r) == at' = [at EXCEPT ![r] = @ + 1]

Pass(r) ==
    /\ Between(r) /\ (Unselected(r) \/ Barred(r) \/ Rested(r)) /\ Advance(r)
    /\ spared' = IF ~Unselected(r) /\ ~Barred(r)
                 THEN [spared EXCEPT ![r] = @ \cup {at[r]}] ELSE spared
    /\ UNCHANGED <<now, last, applied, by, phase, failed, options, began, outcome, manual>>

Call(r) ==
    /\ Between(r) /\ ~Unselected(r) /\ ~Barred(r) /\ ~Rested(r)
    /\ phase' = [phase EXCEPT ![r] = "importing"]
    /\ UNCHANGED <<now, last, applied, by, at, failed, spared, options, began, outcome, manual>>

\* Only an applied import of a step with an interval is remembered.
Remembers(r) == options[r].apply /\ Current(r).interval > 0

\* The import command returns: with --apply its changes are committed.
Imported(r) ==
    /\ Running(r) /\ phase[r] = "importing"
    /\ IF options[r].apply
       THEN applied' = [applied EXCEPT ![at[r]] = now] ELSE UNCHANGED applied
    /\ IF Remembers(r)
       THEN phase' = [phase EXCEPT ![r] = "recording"] /\ UNCHANGED at
       ELSE phase' = [phase EXCEPT ![r] = "between"] /\ Advance(r)
    /\ UNCHANGED <<now, last, by, failed, spared, options, began, outcome, manual>>

Record(r) ==
    /\ Running(r) /\ phase[r] = "recording"
    /\ last' = [last EXCEPT ![at[r]] = now] /\ by' = [by EXCEPT ![at[r]] = r]
    /\ phase' = [phase EXCEPT ![r] = "between"] /\ Advance(r)
    /\ UNCHANGED <<now, applied, failed, spared, options, began, outcome, manual>>

Report(r) == failed' = [failed EXCEPT ![r] = @ \cup {at[r]}]

\* The command, or the row it should write, raises; the next step is still tried.
Fail(r) ==
    /\ Running(r) /\ phase[r] \in {"importing", "recording"}
    /\ Report(r) /\ Advance(r) /\ phase' = [phase EXCEPT ![r] = "between"]
    /\ UNCHANGED <<now, last, applied, by, spared, options, began, outcome, manual>>

End(r, how) ==
    /\ outcome' = [outcome EXCEPT ![r] = how]
    /\ at' = [at EXCEPT ![r] = 0] /\ phase' = [phase EXCEPT ![r] = "between"]
    /\ failed' = [failed EXCEPT ![r] = {}] /\ spared' = [spared EXCEPT ![r] = {}]
    /\ UNCHANGED <<now, last, applied, by, options, began, manual>>

Outcome(r) == IF failed[r] = {} THEN "ok" ELSE "failed"

Finish(r) == at[r] = Len(Plan) + 1 /\ End(r, Outcome(r))

\* A signal, a lost database connection, or the command that could not even report.
Kill(r) == Running(r) /\ End(r, "failed")

Later == {t \in Instants : t > now}

\* Time passes in imports, never past what a run may last; a success is recorded at once.
Tick ==
    /\ \A r \in Runners : Running(r) =>
         Later \cap (now .. began[r] + MaxRun) # {} /\ phase[r] # "recording"
    /\ \E t \in Later : now' = t /\ \A u \in Later : t <= u
    /\ UNCHANGED <<last, applied, by, progress, options, began, outcome, manual>>

RunStep(r) == Pass(r) \/ Call(r) \/ Imported(r) \/ Record(r) \/ Fail(r) \/ Finish(r)

RefreshNext == \/ Tick
        \/ \E r \in Runners : RunStep(r) \/ Kill(r) \/ \E o \in Options \cup {Usual} : Start(r, o)

RefreshSpec == RefreshInit /\ [][RefreshNext]_rvars

-----------------------------------------------------------------------------
(* Properties *)

\* In force at the beginning of a run, less the interval a step may rest.
Fresh(r, s) == /\ applied[s] # Never
               /\ applied[s] >= began[r] \/ applied[s] > began[r] - Plan[s].interval

Unrestricted(o) == o.apply /\ o.only = {} /\ o.skip = {}

\* A refresh that reports no failure has every source in: each step of its plan was
\* committed in it or less than its interval before, whatever overlapped or died earlier
\* (handle: "Falharam passos" is the only report of the others).
OkMeansFresh ==
    \A r \in Runners :
        outcome[r] = "ok" /\ Unrestricted(options[r]) =>
            \A s \in Steps : ~Plan[s].initial \/ options[r].initial => Fresh(r, s)

\* No importer of offices runs on a register of members that this refresh failed to
\* bring up to date: while a step imports, all it rests on is fresh, also through the
\* families that stand between (AR_DEPENDENTS lists them one by one).
RestsOnFresh ==
    \A r \in Runners, s \in Steps :
        Running(r) /\ at[r] <= Len(Plan) /\ phase[r] = "importing" /\ Unrestricted(options[r])
            /\ Plan[s].family \in Requires(Current(r).family)
            /\ (Plan[s].initial => options[r].initial)
        => Fresh(r, s)

\* What a refresh imports or reports as done rests on sources that are fresh.
StepsAreFresh == OkMeansFresh /\ RestsOnFresh

\* "Under a week: a weekly run reaches each step less than seven days after it last
\* succeeded" (MIN_INTERVAL): what a weekly run recorded never spares the next one.
WeeklySparesNothing ==
    \A s \in spared[Weekly] : by[s] # Weekly
=============================================================================
