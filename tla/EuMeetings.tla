------------------------------ MODULE EuMeetings ------------------------------
(***************************************************************************)
(* core/eu_contacts.py: meetings of Portuguese members of the European     *)
(* Parliament, exported month by month under a silent limit of rows, and   *)
(* of Commissioners' cabinets, with the organisations of the Transparency  *)
(* Register.  One run reads everything and then applies it, month by month *)
(* and file by file, in one transaction.                                   *)
(***************************************************************************)
EXTENDS Integers, FiniteSets

CONSTANTS
    Meps, Months, Cabinets,     \* of the Parliament; the scopes of both datasets
    RegisterIds, Names,         \* of the register; names attendees are published under
    NameOf,                     \* each registrant's name
    Marked,                     \* names that read as an organisation's
    Cabinet,                    \* the actor of files that is a Portuguese Commissioner's
    Meetings,                   \* [scope, actor, dated, ids, free, paired]: what may be published
    Catalogues,                 \* what is published at first: sets of meetings
    Registers,                  \* what the register may hold: [registered, person, portuguese]
    RowCap, NoActor, MaxNews, MaxMeetingRuns

EuScopes == Months \cup Cabinets

\* A month is about members and a file about a cabinet; names are told apart.
ASSUME MeetingsAssumption ==
    /\ Months \cap Cabinets = {} /\ Meps # {} /\ Cabinet \notin Meps
    /\ NoActor \notin RegisterIds /\ Names \cap RegisterIds = {}
    /\ NameOf \in [RegisterIds -> Names]
    /\ \A i, j \in RegisterIds : NameOf[i] = NameOf[j] => i = j
    /\ \A x \in Meetings :
         /\ x.ids \subseteq RegisterIds /\ x.free \subseteq Names /\ x.paired \subseteq Names
         /\ x.scope \in Months => x.actor # Cabinet
         /\ x.scope \in Cabinets => x.actor \notin Meps
    /\ IsFiniteSet(Meetings) /\ Catalogues \subseteq SUBSET Meetings
    /\ Registers \subseteq [registered : SUBSET RegisterIds, person : SUBSET RegisterIds,
                           portuguese : SUBSET RegisterIds]
    /\ RowCap \in Nat

VARIABLES
    euSites, register,          \* the sites now
    known,                      \* members imported as people
    orgs, pendingReview,        \* organisations by register identity; identities under review
    euEvents,                   \* events of each scope
    euStage, skipBlocked,       \* the run
    euRead,                     \* what it collected
    euMembers,                  \* the members it asks for
    todo,                       \* windows still to ask for: months, members
    blocked,                    \* history: the export refused this run
    news, meetingRuns           \* counters of the bounds

euWorld   == <<euSites, register, known>>
euTables  == <<orgs, pendingReview, euEvents>>
euCollect == <<euRead, euMembers, todo>>
euvars    == <<euWorld, euTables, euStage, skipBlocked, euCollect, blocked, news, meetingRuns>>

Empty  == [registrants |-> {}, meetings |-> {}, scopes |-> {}]

EuInit ==
    /\ euSites \in Catalogues /\ register \in Registers
    /\ known \in {{}, Meps}
    /\ orgs = {} /\ pendingReview \in {{}} \cup {{i} : i \in RegisterIds}
    /\ euEvents = [s \in EuScopes |-> {}]
    /\ euStage = "idle" /\ skipBlocked \in BOOLEAN /\ euRead = Empty /\ euMembers = {} /\ todo = {}
    /\ blocked = FALSE /\ news = 0 /\ meetingRuns = 0

-----------------------------------------------------------------------------
(* fetch_snapshot().                                                       *)

\* The register comes first, whole or not at all.
ReadRegister ==
    /\ euStage = "idle" /\ meetingRuns < MaxMeetingRuns /\ meetingRuns' = meetingRuns + 1
    /\ register.registered # {}
    /\ euRead' = [Empty EXCEPT !.registrants = register] /\ blocked' = FALSE
    /\ euStage' = "members"
    /\ UNCHANGED <<euWorld, euTables, skipBlocked, euMembers, todo, news>>

\* portuguese_meps(): the people already imported, or the list of the Parliament.
ChooseMembers ==
    /\ euStage = "members"
    /\ euMembers' = IF known # {} THEN known ELSE Meps
    /\ todo' = {<<m, euMembers'>> : m \in Months} /\ euStage' = "months"
    /\ UNCHANGED <<euWorld, euTables, skipBlocked, euRead, blocked, news, meetingRuns>>

\* What the site exports for a window: at most RowCap rows, and it does not say so.
Listing(month, who) == {x \in euSites : x.scope = month /\ x.actor \in who}
Exports(month, who) == {e \in SUBSET Listing(month, who) :
                          Cardinality(e) = IF Cardinality(Listing(month, who)) > RowCap THEN RowCap
                                           ELSE Cardinality(Listing(month, who))}

\* parse_ep_csv(): rows of the members, neither undated nor in the future.
Declared(rows) == {x \in rows : x.dated /\ x.actor \in euMembers}

\* mutant: the limit is noticed one row too late
OverCap(lines) == lines > RowCap + 1

\* Line ends of the answer; the header has one and the last row may have none.
Capped(lines) == lines >= RowCap

\* _ep_window(): an answer as long as the limit is asked for again, member by member; of one
\* member it refuses the run.
ReadMonth ==
    /\ euStage = "months"
    /\ \E window \in todo : \E export \in Exports(window[1], window[2]) :
       \E lines \in {Cardinality(export), Cardinality(export) + 1} :
         IF Capped(lines)
           THEN /\ Cardinality(window[2]) > 1
                /\ todo' = (todo \ {window}) \cup {<<window[1], {m}>> : m \in window[2]}
                /\ UNCHANGED euRead
           ELSE /\ todo' = todo \ {window}
                /\ euRead' = [euRead EXCEPT !.meetings = @ \cup Declared(export),
                                             !.scopes = @ \cup {window[1]}]
    /\ UNCHANGED <<euWorld, euTables, euStage, skipBlocked, euMembers, blocked, news, meetingRuns>>

MonthsDone == /\ euStage = "months" /\ todo = {}
              /\ euStage' = "cabinets"
              /\ UNCHANGED <<euWorld, euTables, skipBlocked, euCollect, blocked, news, meetingRuns>>

\* No month of a refused export is applied.
WithoutParliament(collected) == [collected EXCEPT !.meetings = {}, !.scopes = {}]

\* The export refuses access: the run ends, or goes on without it.
Blocked ==
    /\ euStage = "months" /\ todo # {} /\ blocked' = TRUE
    /\ IF skipBlocked
         THEN euStage' = "cabinets" /\ euRead' = WithoutParliament(euRead)
         ELSE euStage' = "idle" /\ euRead' = Empty
    /\ euMembers' = {} /\ todo' = {}
    /\ UNCHANGED <<euWorld, euTables, skipBlocked, news, meetingRuns>>

\* parse_ec_xml(): those of exactly this cabinet.
OfCabinet(rows) == {x \in rows : x.dated /\ x.actor = Cabinet}

ReadCabinets ==
    /\ euStage = "cabinets"
    /\ euRead' = [euRead EXCEPT !.meetings = @ \cup OfCabinet({x \in euSites : x.scope \in Cabinets}),
                                    !.scopes = @ \cup Cabinets]
    /\ euStage' = "apply"
    /\ UNCHANGED <<euWorld, euTables, skipBlocked, euMembers, todo, blocked, news, meetingRuns>>

\* A download that fails, a structure that is not expected, a row too many: nothing changes.
FetchFails == /\ euStage \in {"members", "months", "cabinets"}
              /\ euStage' = "idle" /\ euRead' = Empty /\ euMembers' = {} /\ todo' = {}
              /\ UNCHANGED <<euWorld, euTables, skipBlocked, blocked, news, meetingRuns>>

-----------------------------------------------------------------------------
(* apply_snapshot().                                                       *)

Registered(i) == i \in euRead.registrants.registered
Person(i) == Registered(i) /\ i \in euRead.registrants.person

\* resolve_organisations(): Portuguese registrants and everyone a meeting cites, earlier ones
\* included; a person never, and one under review not yet.
Cited == UNION {x.ids : x \in euRead.meetings \cup UNION {euEvents[s] : s \in EuScopes}}
OrgsWanted == {i \in euRead.registrants.portuguese \cup Cited : Registered(i) /\ ~Person(i)}
NewOrgs == OrgsWanted \ (orgs \cup pendingReview)
OrgsNamed == (OrgsWanted \cap orgs) \cup NewOrgs

\* _organisation_parties(): cited organisations, and other names that read as one, unless the
\* meeting lists as many bare names as identifiers.
Label(i) == IF Registered(i) THEN {NameOf[i]} ELSE {}
Covered(x) == x.paired \cup UNION {Label(i) : i \in x.ids}
Remaining(x) == IF Cardinality(x.free) = Cardinality(x.ids) /\ x.paired = {} THEN {}
                ELSE x.free \ Covered(x)
Parties(x) == {[id |-> i, entity |-> i \in OrgsNamed,
                name |-> IF Registered(i) THEN NameOf[i] ELSE i] : i \in {j \in x.ids : ~Person(j)}}
              \cup {[id |-> NoActor, entity |-> FALSE, name |-> n] : n \in Remaining(x) \cap Marked}

\* A meeting without an organisation is left out.
EventsOf(s) == {[ids |-> x.ids, actor |-> x.actor, parties |-> Parties(x), of |-> x] :
                  x \in {y \in euRead.meetings : y.scope = s /\ Parties(y) # {}}}

Apply ==
    /\ euStage = "apply"
    /\ orgs' = orgs \cup NewOrgs
    /\ euEvents' = [s \in EuScopes |-> IF s \in euRead.scopes THEN EventsOf(s) ELSE euEvents[s]]
    /\ euStage' = "idle" /\ euRead' = Empty /\ euMembers' = {} /\ todo' = {}
    /\ UNCHANGED <<euWorld, pendingReview, skipBlocked, blocked, news, meetingRuns>>

\* Meetings are declared late, registrants come and go, people are imported.
News ==
    /\ news < MaxNews /\ news' = news + 1
    /\ \/ \E x \in Meetings \ euSites : euSites' = euSites \cup {x} /\ UNCHANGED <<register, known>>
       \/ register' \in Registers \ {register} /\ UNCHANGED <<euSites, known>>
       \/ known # Meps /\ known' = Meps /\ UNCHANGED <<euSites, register>>
    /\ UNCHANGED <<euTables, euStage, skipBlocked, euCollect, blocked, meetingRuns>>

EuNext == \/ ReadRegister \/ ChooseMembers \/ ReadMonth \/ MonthsDone \/ Blocked \/ ReadCabinets
          \/ FetchFails \/ Apply \/ News
EuSpec == EuInit /\ [][EuNext]_euvars

-----------------------------------------------------------------------------

\* When a snapshot is applied, each month it covers has every meeting the site lists for the
\* members asked for, but those declared since it was begun, however the site cut its
\* answers; and a run that the export refused covers no month.
MonthsAreWhole ==
    euStage = "apply" =>
      /\ blocked => euRead.scopes \cap Months = {}
      /\ ~blocked => euRead.scopes = EuScopes
      /\ euRead.meetings \subseteq euSites
      /\ news = 0 => \A s \in euRead.scopes :
           {x \in euRead.meetings : x.scope = s}
             = {x \in euSites : x.scope = s /\ x.dated /\ x.actor \in Meps \cup {Cabinet}}

\* No self-employed registrant becomes an organisation or a party, by number, by the name
\* published with the number or by a free name that is theirs; an organisation with a
\* pending match is not created a second time.
PeopleStayOut ==
    euStage = "apply" =>
      \A s \in euRead.scopes : \A e \in EventsOf(s) : \A p \in e.parties :
        /\ ~Person(p.id)
        /\ \A i \in e.ids : Person(i) =>
             p.name \notin Label(i) \cup (e.of.paired \ UNION {Label(j) : j \in RegisterIds \ {i}})
        /\ p.entity => p.id \in orgs \cup NewOrgs

NoTwins == orgs \cap pendingReview = {}

MeetingsAreWhole == MonthsAreWhole /\ PeopleStayOut /\ NoTwins
=============================================================================
