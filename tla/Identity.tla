------------------------------ MODULE Identity ------------------------------
(***************************************************************************)
(* Who is who (core/identity.py): official identifiers and the profiles    *)
(* they stand for, advisory suggestions and their review, decisions that   *)
(* two profiles are distinct people, and the audited reconciliation of     *)
(* corroborated namesakes with its redirects.                              *)
(*                                                                         *)
(* A profile is named after the identifier whose first resolution would    *)
(* create it.  An import, a review or one merge holds the editorial lock   *)
(* for its whole transaction and is one step; reconcile_identities is many *)
(* transactions, and everything else may run between them.                 *)
(***************************************************************************)
EXTENDS Naturals, FiniteSets, FiniteSetsExt

CONSTANTS
    Ids,          \* official and scoped identifiers
    Register,     \* the exclusive register of each identifier, or Shared
    Rank,         \* position of its scheme in the order of preference
    Published,    \* the names its source publishes, of which Name is the profile's own
    Name, Names,
    Signals,      \* what each identifier's office has in common with other offices
    Feeds,        \* which identifiers the sources may publish between them
    Hints,        \* <<profile, identifier>> that a crosswalk may suggest
    Jobs,         \* concurrent runs of reconcile_identities
    MaxEdits,     \* bound on editors' decisions, hints and withdrawals
    NoOne, Shared

ASSUME IdentityAssumption ==
    /\ NoOne \notin Ids /\ IsFiniteSet(Ids) /\ MaxEdits \in Nat /\ Hints \subseteq Ids \X Ids
    /\ Feeds \subseteq SUBSET Ids
    /\ Rank \in [Ids -> Nat] /\ Name \in [Ids -> Names]
    /\ Published \in [Ids -> SUBSET Names]
    /\ \A i \in Ids : Name[i] \in Published[i]

VARIABLES
    feed,         \* the identifiers the sources publish
    profile,      \* Entity rows
    holder,       \* SourceIdentity: the profile of each identifier
    serial,       \* the primary keys of those rows, in order of creation
    claim,        \* the public office its source published under each identifier
    alias,        \* EntityAlias names, per profile and identifier
    suggestion,   \* IdentitySuggestion status, per candidate and identifier
    distinct,     \* IdentityDecision pairs
    redirect,     \* EntityRedirect target of each merged profile
    audit,        \* IdentityMerge target of each merged profile
    job,          \* progress of each reconciliation
    edits,        \* how many of those there have been
    refused,      \* history: <<profile, identifier>> an editor decided against
    apart         \* history: pairs of profiles decided distinct, as they were then

vars == <<feed, profile, holder, serial, claim, alias, suggestion, distinct, redirect, audit, job,
          edits, refused, apart>>
reviews == <<suggestion, refused>>
history == <<redirect, audit>>

Statuses == {"none", "pending", "accepted", "rejected"}
Idle     == [state |-> "idle", plan |-> {}, left |-> 0, changed |-> FALSE, quiet |-> FALSE]
Match    == [removed : Ids, retained : Ids]
JobType  == [state : {"idle", "planning", "merging"}, plan : SUBSET Match, left : Nat,
             changed : BOOLEAN, quiet : BOOLEAN]

TypeOK ==
    /\ feed \in Feeds
    /\ profile \in [Ids -> {"absent", "public", "hidden", "merged"}]
    /\ holder \in [Ids -> Ids \cup {NoOne}]
    /\ serial \in [Ids -> Nat]
    /\ claim \in [Ids -> {"unused", "published", "withdrawn"}]
    /\ alias \in [Ids -> [Ids -> SUBSET Names]]
    /\ suggestion \in [Ids -> [Ids -> Statuses]]
    /\ distinct \subseteq SUBSET Ids
    /\ redirect \in [Ids -> Ids \cup {NoOne}] /\ audit \in [Ids -> Ids \cup {NoOne}]
    /\ job \in [Jobs -> JobType] /\ edits \in 0..MaxEdits
    /\ refused \subseteq Ids \X Ids /\ apart \subseteq SUBSET Ids

Init ==
    /\ feed \in Feeds
    /\ profile = [p \in Ids |-> "absent"] /\ holder = [i \in Ids |-> NoOne]
    /\ serial = [i \in Ids |-> 0] /\ claim = [i \in Ids |-> "unused"]
    /\ alias = [p \in Ids |-> [i \in Ids |-> {}]]
    /\ suggestion = [p \in Ids |-> [i \in Ids |-> "none"]]
    /\ distinct = {} /\ apart = {} /\ refused = {}
    /\ redirect = [p \in Ids |-> NoOne] /\ audit = [p \in Ids |-> NoOne]
    /\ job = [j \in Jobs |-> Idle] /\ edits = 0
-----------------------------------------------------------------------------
(* What the rows say. *)

Exists(p)    == profile[p] \in {"public", "hidden"}
Public       == {p \in Ids : profile[p] = "public"}
Known(p)     == {i \in Ids : holder[i] = p}
NamesOf(p)   == {Name[p]} \cup UNION {alias[p][i] : i \in Ids}
Offices(p)   == UNION {Signals[i] : i \in {k \in Known(p) : claim[k] = "published"}}
Registers(p) == {Register[i] : i \in Known(p)} \ {Shared}
Mapped       == {i \in Ids : holder[i] # NoOne}

\* The profile a reader of an old URL is sent to.
Canonical(p) == IF redirect[p] = NoOne THEN p ELSE redirect[p]

Interrupted(j) == [j EXCEPT !.quiet = FALSE]
Disturb == job' = [j \in Jobs |-> Interrupted(job[j])]
Automatic == Disturb /\ UNCHANGED edits
Decision  == Disturb /\ edits < MaxEdits /\ edits' = edits + 1

NextSerial == Cardinality(Mapped) + 1
-----------------------------------------------------------------------------
(* Reconciliation: which pairs of profiles are one person.                 *)

\* _person_name_pairs: canonical names and aliases, both profiles public.
NamesakePairs ==
    {e \in {{p, q} : p \in Public, q \in Public} :
        \E p, q \in e : e = {p, q} /\ p # q /\ NamesOf(p) \cap NamesOf(q) # {}}

Rejected(p, q) == \E i \in Known(q) : suggestion[p][i] = "rejected"

\* mutant: registers are not compared
BlockedByReview(p, q) == {p, q} \in distinct \/ Rejected(p, q) \/ Rejected(q, p)

\* _pair_blocked
Blocked(p, q) ==
    \/ Registers(p) \cap Registers(q) # {}
    \/ {p, q} \in distinct
    \/ Rejected(p, q) \/ Rejected(q, p)

Corroborated(p, q) == Offices(p) \cap Offices(q) # {}

Edges(pairs) == {e \in pairs : \A p, q \in e : p # q => ~Blocked(p, q) /\ Corroborated(p, q)}
Neighbours(edges, p) == {q \in Ids : q # p /\ {p, q} \in edges}

\* The only one of its registers that could be own, or the only one at all.
OnlyChoice(edges, own, other) ==
    /\ \A r \in Registers(other) :
          \A q \in Neighbours(edges, own) : r \in Registers(q) => q = other
    /\ Registers(own) \cup Registers(other) = {} => Neighbours(edges, own) = {other}

\* _anchor_order: scheme, then oldest mapping.
BestRank(p) == IF Known(p) = {} THEN 5 ELSE Min({Rank[i] : i \in Known(p)})
Oldest(p)   == Min({serial[i] : i \in Known(p)})
Precedes(p, q) ==
    \/ BestRank(p) < BestRank(q)
    \/ BestRank(p) = BestRank(q) /\ Oldest(p) < Oldest(q)

Matches(pairs) ==
    LET edges == Edges(pairs)
    IN  {m \in Match :
            /\ {m.removed, m.retained} \in edges
            /\ OnlyChoice(edges, m.removed, m.retained)
            /\ OnlyChoice(edges, m.retained, m.removed)
            /\ m.removed # m.retained /\ Precedes(m.retained, m.removed)}

Earlier(m, n) ==
    \/ Precedes(m.retained, n.retained)
    \/ m.retained = n.retained /\ Precedes(m.removed, n.removed)

\* _reconciliation_plan: each discarded profile once, with its strongest target.
ReconciliationPlan(pairs) ==
    LET all == Matches(pairs)
    IN  {m \in all : \A n \in all \ {m} : n.removed = m.removed => Earlier(m, n)}

IsFirst(m, plan) == m \in plan /\ \A n \in plan \ {m} : Earlier(m, n)

\* mutant: only the proposed pair is looked at again
PairAlone(pairs, seeds) == pairs \cap {seeds}

\* _namesake_component
NamesakeComponent(pairs, seeds) ==
    LET Closed(s) == \A e \in pairs : e \cap s # {} => e \subseteq s
    IN  {e \in pairs : \A s \in SUBSET Ids : seeds \subseteq s /\ Closed(s) => e \subseteq s}
-----------------------------------------------------------------------------
(* Imports and reviews, each one editorial transaction.                    *)

Candidates(i) == {p \in Public : NamesOf(p) \cap Published[i] # {}}

\* _corroboration of a candidate for an identifier that stands for nobody yet.
Fits(p, i) ==
    /\ suggestion[p][i] # "rejected" /\ Register[i] \notin Registers(p)
    /\ Signals[i] \cap Offices(p) # {}

RecordAliases(p, i, names) == alias' = [alias EXCEPT ![p][i] = @ \cup names]

\* resolve_person when the identifier is known: only the names can be new.
Resolve(i) ==
    /\ holder[i] # NoOne /\ RecordAliases(holder[i], i, Published[i])
    /\ Automatic
    /\ UNCHANGED <<profile, holder, serial, claim, distinct, apart, reviews, history>>

\* ... when exactly one corroborated namesake exists.
Attach(i, p) ==
    /\ holder[i] = NoOne /\ {q \in Candidates(i) : Fits(q, i)} = {p}
    /\ holder' = [holder EXCEPT ![i] = p] /\ serial' = [serial EXCEPT ![i] = NextSerial]
    /\ RecordAliases(p, i, Published[i])
    /\ Automatic
    /\ UNCHANGED <<profile, claim, distinct, apart, reviews, history>>

\* ... otherwise: a separate profile, with every namesake suggested.
Create(i) ==
    /\ holder[i] = NoOne /\ profile[i] = "absent"
    /\ Cardinality({q \in Candidates(i) : Fits(q, i)}) # 1
    /\ profile' = [profile EXCEPT ![i] = "public"]
    /\ holder' = [holder EXCEPT ![i] = i] /\ serial' = [serial EXCEPT ![i] = NextSerial]
    /\ RecordAliases(i, i, Published[i])
    /\ suggestion' = [p \in Ids |-> [suggestion[p] EXCEPT ![i] =
          IF p \in Candidates(i) /\ @ = "none" THEN "pending" ELSE @]]
    /\ Automatic
    /\ UNCHANGED <<claim, distinct, apart, refused, history>>

\* suggest_person, suggest_identity: a hint about an identifier nobody holds.
Suggest(p, i) ==
    /\ <<p, i>> \in Hints
    /\ holder[i] = NoOne /\ suggestion[p][i] = "none" /\ Exists(p)
    /\ suggestion' = [suggestion EXCEPT ![p][i] = "pending"]
    /\ Decision
    /\ UNCHANGED <<profile, holder, serial, claim, alias, distinct, apart, refused, history>>

\* mutant: used mappings move as well
AlwaysMovable(i, p) == TRUE

Movable(i, p) == claim[i] = "unused" \/ holder[i] = p

\* Names published under the identifier follow it to the candidate.
FollowAliases(old, p, i) ==
    alias' = [q \in Ids |-> [alias[q] EXCEPT ![i] =
                IF q = p THEN @ \cup {Name[i]} \cup (IF old = NoOne THEN {} ELSE alias[old][i])
                ELSE IF q = old THEN {} ELSE @]]

\* accept_suggestion
Accept(p, i) ==
    LET others == {q \in Ids \ {p} : suggestion[q][i] = "pending"}
    IN  /\ suggestion[p][i] = "pending" /\ Movable(i, p)
        /\ holder' = [holder EXCEPT ![i] = p]
        /\ serial' = [serial EXCEPT ![i] = IF holder[i] = NoOne THEN NextSerial ELSE @]
        /\ FollowAliases(holder[i], p, i)
        /\ suggestion' = [q \in Ids |-> [suggestion[q] EXCEPT ![i] =
              IF q = p THEN "accepted" ELSE IF q \in others THEN "rejected" ELSE @]]
        /\ refused' = refused \cup (others \X {i})
        /\ Decision
        /\ UNCHANGED <<profile, claim, distinct, apart, history>>

\* reject_suggestion
Reject(p, i) ==
    /\ suggestion[p][i] = "pending"
    /\ suggestion' = [suggestion EXCEPT ![p][i] = "rejected"]
    /\ refused' = IF holder[i] = p THEN refused ELSE refused \cup {<<p, i>>}
    /\ Decision
    /\ UNCHANGED <<profile, holder, serial, claim, alias, distinct, apart, history>>

\* SourceIdentity.save: an editor's own mapping overrides the refusals of that profile.
Remap(i, p) ==
    /\ holder[i] \notin {NoOne, p} /\ claim[i] = "unused" /\ Exists(p)
    /\ holder' = [holder EXCEPT ![i] = p]
    /\ refused' = {k \in refused : ~(k[2] = i /\ Canonical(k[1]) = p)}
    /\ Decision
    /\ UNCHANGED <<profile, serial, claim, alias, suggestion, distinct, apart, history>>

\* A source's office is published (freezing the mapping), withdrawn or published again.
SetClaim(i, status) ==
    /\ holder[i] # NoOne /\ claim[i] # status
    /\ claim[i] = "unused" => status = "published"
    /\ claim' = [claim EXCEPT ![i] = status]
    /\ IF status = "published" THEN Automatic ELSE Decision
    /\ UNCHANGED <<profile, holder, serial, alias, distinct, apart, reviews, history>>

\* Entity.save: an editor hides or shows a profile that was not merged away.
SetPublic(p) ==
    /\ Exists(p)
    /\ profile' = [profile EXCEPT ![p] = IF @ = "public" THEN "hidden" ELSE "public"]
    /\ Decision
    /\ UNCHANGED <<holder, serial, claim, alias, distinct, apart, reviews, history>>

\* IdentityDecision: entered by hand.
Decide(p, q) ==
    /\ p # q /\ Exists(p) /\ Exists(q) /\ {p, q} \notin distinct
    /\ distinct' = distinct \cup {{p, q}} /\ apart' = apart \cup {{p, q}}
    /\ Decision
    /\ UNCHANGED <<profile, holder, serial, claim, alias, reviews, history>>
-----------------------------------------------------------------------------
(* reconcile_identities                                                    *)

Moved(p, m) == IF p = m.removed THEN m.retained ELSE p

\* mutant: the retained profile's own suggestion always stands
OwnStands(own, other) == IF own = "none" THEN other ELSE own

\* A rejection outweighs whatever the retained profile's own suggestion says.
Combined(own, other) == IF own = "none" \/ other = "rejected" THEN other ELSE own

\* mutant: earlier redirects keep their target
RedirectOnly(m) == [redirect EXCEPT ![m.removed] = m.retained]

\* EntityRedirect: set for the removed profile, and moved with every other reference.
RedirectsAfter(m) == [p \in Ids |-> IF p = m.removed THEN m.retained ELSE Moved(redirect[p], m)]

\* mutant: decisions stay with the removed profile
DecisionsStay(m) == distinct

DecisionsAfter(m) == {{Moved(p, m) : p \in d} : d \in distinct}
SuggestionsAfter(m) ==
    [p \in Ids |-> [i \in Ids |->
        IF p = m.removed THEN "none"
        ELSE IF p = m.retained THEN Combined(suggestion[p][i], suggestion[m.removed][i])
        ELSE suggestion[p][i]]]
AliasesAfter(m) ==
    [p \in Ids |-> [i \in Ids |->
        IF p = m.removed THEN {}
        ELSE IF p = m.retained
        THEN alias[p][i] \cup alias[m.removed][i]
               \cup (IF holder[i] = m.removed THEN {Name[m.removed]} ELSE {})
        ELSE alias[p][i]]]

\* _merge_identity: used mappings move too, and the audit keeps the target of its day.
Merge(m) ==
    /\ holder' = [i \in Ids |-> Moved(holder[i], m)]
    /\ alias' = AliasesAfter(m) /\ suggestion' = SuggestionsAfter(m)
    /\ distinct' = DecisionsAfter(m)
    /\ redirect' = RedirectsAfter(m) /\ audit' = [audit EXCEPT ![m.removed] = m.retained]
    /\ profile' = [profile EXCEPT ![m.removed] = "merged"]
    /\ UNCHANGED <<serial, claim, edits, refused, apart>>

NoMerge == UNCHANGED <<profile, holder, serial, claim, alias, distinct, apart, reviews, history, edits>>

\* At most one merge for each profile that is public now.
Start(j) ==
    /\ job[j].state = "idle" /\ Public # {}
    /\ job' = [job EXCEPT ![j] = [state |-> "planning", plan |-> {}, quiet |-> TRUE,
                                  changed |-> FALSE, left |-> Cardinality(Public)]]
    /\ NoMerge

Finished(j) == [Idle EXCEPT !.quiet = job[j].quiet]

\* A global scan; nothing it finds authorises a merge.
Plan(j) ==
    LET plan == ReconciliationPlan(NamesakePairs)
    IN  /\ job[j].state = "planning"
        /\ job' = [job EXCEPT ![j] =
              IF plan = {} THEN Finished(j)
              ELSE [@ EXCEPT !.state = "merging", !.plan = plan, !.changed = FALSE]]
        /\ NoMerge

Current(m) == ReconciliationPlan(NamesakeComponent(NamesakePairs, {m.removed, m.retained}))

NeverSpent(left) == FALSE           \* mutant: the bound is not looked at

\* The last merge the bound allows.
Spent(left) == left = 1

\* A proposal's component is planned again under the lock, and its first match merged.
Recheck(j, proposed) ==
    LET current == Current(proposed)
        rest == job[j].plan \ {proposed}
    IN  /\ job[j].state = "merging" /\ proposed \in job[j].plan
        /\ \/ /\ current = {}
              /\ job' = [job EXCEPT ![j].plan = rest]
              /\ NoMerge
           \/ /\ \E m \in current : IsFirst(m, current) /\ Merge(m)
              /\ job' = [k \in Jobs |->
                    IF k # j THEN Interrupted(job[k])
                    ELSE IF Spent(job[j].left) THEN Finished(j)
                    ELSE [job[j] EXCEPT !.plan = rest, !.changed = TRUE, !.left = @ - 1]]

\* mutant: one pass only
AfterOnePass(j) == Finished(j)

\* After a pass: plan again if it merged anything.
AfterPass(j) == IF job[j].changed THEN [job[j] EXCEPT !.state = "planning"] ELSE Finished(j)
EndPass(j) ==
    /\ job[j].state = "merging" /\ job[j].plan = {}
    /\ job' = [job EXCEPT ![j] = AfterPass(j)]
    /\ NoMerge

Import(i)  == Resolve(i) \/ Create(i) \/ \E p \in Ids : (Attach(i, p) \/ Suggest(p, i))
Review(i)  == \E p \in Ids : (Accept(p, i) \/ Reject(p, i) \/ Remap(i, p))
Edit(i)    == \/ SetPublic(i)
              \/ \E status \in {"published", "withdrawn"} : SetClaim(i, status)
              \/ \E p \in Ids : Decide(i, p)
Reconcile(j) == \/ Start(j) \/ Plan(j) \/ EndPass(j)
                \/ \E m \in job[j].plan : Recheck(j, m)

Next == /\ \/ \E i \in feed : (Import(i) \/ Review(i) \/ Edit(i))
           \/ \E j \in Jobs : Reconcile(j)
        /\ UNCHANGED feed
Spec == Init /\ [][Next]_vars
-----------------------------------------------------------------------------
(* Properties *)

\* A profile and an identifier that an editor decided against never become one person, through
\* any later import, merge or review (only an editor's own mapping can overrule it).
RejectionsHold == \A k \in refused : holder[k[2]] # Canonical(k[1])

\* Two profiles decided to be distinct people never become one, however either is merged.
DistinctHold == \A p, q \in Ids : {p, q} \in apart /\ p # q => Canonical(p) # Canonical(q)

\* No later import, merge or review undoes what an editor decided about two profiles.
DecisionsHold == RejectionsHold /\ DistinctHold

\* Old URLs lead in one step to a profile that was not merged away: the one that the chain of
\* immutable audits ends at.
RedirectsFollowAudit ==
    \A p \in Ids :
        /\ (profile[p] = "merged") = (redirect[p] # NoOne)
        /\ profile[p] = "merged" => /\ redirect[p] = Canonical(audit[p])
                                    /\ Exists(redirect[p])

\* A mapping that claims were published under moves only in an audited merge.
UsedMovesAreAudited ==
    [][\A i \in Ids : claim[i] # "unused" /\ holder'[i] # holder[i]
          => audit'[holder[i]] = holder'[i] /\ profile'[holder[i]] = "merged"]_vars

\* When two profiles are merged they are, at that moment and among all profiles, corroborated
\* namesakes with nothing against it, and no third profile could take either's place.
MergesAreUnambiguous ==
    [][\A p \in Ids : audit'[p] # audit[p]
          => LET edges == Edges(NamesakePairs)
                 q == audit'[p]
             IN  /\ {p, q} \in edges /\ Precedes(q, p)
                 /\ OnlyChoice(edges, p, q) /\ OnlyChoice(edges, q, p)]_vars

\* No import and no merge gives one profile two identifiers of an exclusive register: that
\* takes a reviewer.
Reviewed == \/ \E p, i \in Ids : suggestion[p][i] = "pending" /\ suggestion'[p][i] = "accepted"
            \/ audit' = audit /\ \E i \in Mapped : holder'[i] # holder[i]
RegistersStayExclusive ==
    [][\A i, k \in Ids :
          /\ Register[i] = Register[k] /\ Register[i] # Shared
          /\ holder'[i] = holder'[k] /\ holder[i] # holder[k]
          => Reviewed]_vars

\* A reconciliation nobody interfered with ends with nothing left to merge.
FixpointReached ==
    \A j \in Jobs : job[j].state = "idle" /\ job[j].quiet => ReconciliationPlan(NamesakePairs) = {}
=============================================================================
