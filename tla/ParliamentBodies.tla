--------------------------- MODULE ParliamentBodies ---------------------------
(***************************************************************************)
(* parliament_bodies.py: the organs of one legislature and who sat in      *)
(* them, joined from four files and from as many rosters of other          *)
(* legislatures as the delegations need.  Files are read one by one while  *)
(* the Assembly publishes; a snapshot replaces structure and memberships,  *)
(* or is refused.  The dates of plenary periods are those of Mandates.     *)
(***************************************************************************)
EXTENDS Mandates

CONSTANTS
    AssemblyFiles,              \* what the Assembly may publish of this legislature
    Legislatures, ThisOne,      \* their ranks, and the one imported
    FirstDelegations,           \* the first that has a file of delegations
    RosterOf,                   \* of every other: cadastro identifier by DepId
    NoGroup, NoNumberGiven, NoDep,
    MaxGatherings, MaxReleases  \* bounds of the instance

\* Files are finite; a link names the number of a unit, and no DepId is that of nobody.
ASSUME BodiesFilesAssumption ==
    /\ \A a \in AssemblyFiles :
         /\ StatusesOf(a.rows) /\ \A r \in a.rows : r.dep # NoDep /\ \A g \in r.groups : DaysOf(g)
         /\ IsFiniteSet(a.organs) /\ \A l \in a.links : l.child # NoNumberGiven
    /\ Legislatures \subseteq Nat /\ ThisOne \in Legislatures /\ FirstDelegations \in Nat
    /\ \A l \in Legislatures : l # ThisOne => NoDep \notin DOMAIN RosterOf[l]

VARIABLES
    assembly,                   \* published now
    gathering, gathered,        \* the run: the file it reads next, and what it has read
    deputiesKnown, rostersRead, \* identifiers by DepId, and the legislatures they come from
    structureOfOrgans, memberships, \* current observations of both scopes
    lastGathered,               \* history: files and identifiers of the snapshot applied last
    gatherings, releases        \* counters of the bounds

gatherVars == <<gathering, gathered, deputiesKnown, rostersRead>>
organTables == <<structureOfOrgans, memberships, lastGathered>>
organVars  == <<assembly, gatherVars, organTables, gatherings, releases>>

NothingGathered == [rows |-> {}, organs |-> {}, links |-> {}, friends |-> {}, delegations |-> {}]
NeverGathered   == [files |-> NothingGathered, deputies |-> <<>>]

OrgansInit ==
    /\ assembly \in AssemblyFiles /\ gathering = "idle" /\ gathered = NothingGathered
    /\ deputiesKnown = <<>> /\ rostersRead = {}
    /\ structureOfOrgans = <<>> /\ memberships = {} /\ lastGathered = NeverGathered
    /\ gatherings = 0 /\ releases = 0

-----------------------------------------------------------------------------
(* fetch_snapshot().                                                       *)

Valid(row) == row.from = 0 \/ row.to >= row.from

\* dep_map(): a DepId of two people refuses the roster.
OnePersonEach(rows) == \A r, q \in rows : r.dep = q.dep => r.who = q.who
DepMap(rows) == [d \in {r.dep : r \in rows} |-> (CHOOSE r \in rows : r.dep = d).who]

StartGathering ==
    /\ gathering = "idle" /\ gatherings < MaxGatherings /\ gatherings' = gatherings + 1
    /\ gathered' = [NothingGathered EXCEPT !.rows = assembly.rows] /\ gathering' = "bodies"
    /\ UNCHANGED <<assembly, deputiesKnown, rostersRead, organTables, releases>>

\* Without delegations no roster is asked who is who.
HasDelegations == ThisOne >= FirstDelegations
NextFile == [bodies |-> "activity", delegations |-> "others",
             activity |-> IF HasDelegations THEN "delegations" ELSE "others"]

ReadFile ==
    /\ gathering \in DOMAIN NextFile /\ gathering' = NextFile[gathering]
    /\ gathered' =
         CASE gathering = "bodies"      -> [gathered EXCEPT !.organs = assembly.organs]
           [] gathering = "activity"    -> [gathered EXCEPT !.links = assembly.links,
                                                            !.friends = assembly.friends]
           [] gathering = "delegations" -> [gathered EXCEPT !.delegations = assembly.delegations]
    /\ IF gathering = "delegations"
         THEN /\ OnePersonEach(gathered.rows)
              /\ deputiesKnown' = DepMap(gathered.rows) /\ rostersRead' = {ThisOne}
         ELSE UNCHANGED <<deputiesKnown, rostersRead>>
    /\ UNCHANGED <<assembly, organTables, gatherings, releases>>

\* delegation_dep_ids()
WantedDeps == {r.dep : r \in UNION {d.rows : d \in gathered.delegations}} \ {NoDep}
NeedsRoster == ~(WantedDeps \subseteq DOMAIN deputiesKnown) /\ rostersRead # Legislatures

\* The nearest legislature not read yet, an earlier one before a later one.
Distance(l) == IF l < ThisOne THEN 2 * (ThisOne - l) ELSE 2 * (l - ThisOne) + 1
NearestRoster == CHOOSE l \in Legislatures \ rostersRead :
                   \A k \in Legislatures \ rostersRead : Distance(l) <= Distance(k)

Compatible(f, g) == \A d \in DOMAIN f \cap DOMAIN g : f[d] = g[d]

ReadOtherRoster ==
    /\ gathering = "others" /\ NeedsRoster
    /\ Compatible(deputiesKnown, RosterOf[NearestRoster])
    /\ deputiesKnown' = [d \in DOMAIN deputiesKnown \cup DOMAIN RosterOf[NearestRoster] |->
                           IF d \in DOMAIN deputiesKnown THEN deputiesKnown[d]
                           ELSE RosterOf[NearestRoster][d]]
    /\ rostersRead' = rostersRead \cup {NearestRoster}
    /\ UNCHANGED <<assembly, gathering, gathered, organTables, gatherings, releases>>

-----------------------------------------------------------------------------
(* _Builder.                                                               *)

Later(d, e)   == IF d > e THEN d ELSE e
Earlier(d, e) == IF d < e THEN d ELSE e

\* In the open legislature the day of the export is the end of most rows, and no end.
GroupRows(rows) == UNION {{<<r, g>> : g \in r.groups} : r \in rows}
EndsOn(rows, day) == Cardinality({x \in GroupRows(rows) : x[2].to = day})
Placeholder(rows) ==
    {d \in {x[2].to : x \in GroupRows(rows)} \ {OpenEnded} :
       /\ term.last = OpenEnded /\ 2 * EndsOn(rows, d) > Cardinality(GroupRows(rows))
       /\ \A x \in GroupRows(rows) : x[2].to # OpenEnded => x[2].to <= d}

\* mutant: the day of the export is taken for the end of a membership
EndAsPrinted(rows, g) == g.to

GroupEnd(rows, g) == IF g.to \in Placeholder(rows) THEN OpenEnded ELSE g.to

\* clip(): an open end stays open.
Clipped(p) ==
    {q \in {[from |-> Later(p.from, term.first),
             to   |-> IF p.to = OpenEnded THEN OpenEnded ELSE Earlier(p.to, term.last)]} :
       q.to >= q.from /\ q.from <= term.last}

Deputy(who) == <<"cad", who>>
Membership(organ, person, facet, role, p, says) ==
    [organ |-> organ, person |-> person, facet |-> facet, role |-> role,
     from |-> p.from, to |-> p.to, says |-> says]

\* roster(): a group's interval within each period of the row's own mandate.
GroupClaims(f) ==
    UNION {LET g   == x[1][2]
               end == GroupEnd(f.rows, g)
               both == [from |-> Later(g.from, x[2].from), to |-> Earlier(end, x[2].to)]
           IN {Membership(<<"group", g.group>>, Deputy(x[1][1].who), "gp", "deputy", c,
                          <<g.from, end, x[2].from, x[2].to>>) : c \in Clipped(both)} :
             x \in {y \in GroupRows(f.rows) \X UNION {Joined(r.status) : r \in f.rows} :
                      /\ y[2] \in Joined(y[1][1].status) /\ y[1][2].group # NoGroup
                      /\ y[1][2].from # 0
                      /\ GroupEnd(f.rows, y[1][2]) >= y[1][2].from}}

FriendClaims(f) ==
    {Membership(<<"friends", x.group>>, Deputy(x.who), "gpa", x.role, x, <<0, 0, x.from, x.to>>) :
       x \in {y \in f.friends : Valid(y)}}

\* members(): effective situations and every post; staff have no cadastro identifier.
Member(o, m) == IF m.who = NoDep THEN <<"staff", o.id, m.dep>> ELSE Deputy(m.who)
PostsHeld(o, m) ==
    {Membership(<<"organ", o.id>>, Member(o, m), e.facet, e.role, e, <<0, 0, e.from, e.to>>) :
       e \in {x \in m.entries : Valid(x) /\ (x.facet = "situation" => x.active)}}
OrganClaims(f) == UNION {UNION {PostsHeld(o, m) : m \in o.members} : o \in f.organs}

\* delegations(): the rows of one person, role and period are one claim that cites them all.
Delegate(d, row, deputies) ==
    IF row.dep \in DOMAIN deputies THEN Deputy(deputies[row.dep])
    ELSE IF row.dep # NoDep THEN <<"listed", d.id, row.dep>> ELSE <<"named", d.id, row.name>>
DelegationClaims(f, deputies) ==
    UNION {LET told(row) == {r \in d.rows : /\ Delegate(d, r, deputies) = Delegate(d, row, deputies)
                                            /\ r.role = row.role /\ r.from = row.from /\ r.to = row.to}
           IN {Membership(<<"delegation", d.id>>, Delegate(d, row, deputies), "delegacao", row.role,
                          row, {r.dep : r \in told(row)} \ {NoDep}) :
                 row \in {r \in d.rows : Valid(r)}} : d \in f.delegations}

\* parents(): the one committee that all links of a unit name.
Units(f, number) == {o \in f.organs : o.kind = "unit" /\ o.number = number}
CommitteesNumbered(f, number) == {o \in f.organs : o.kind = "committee" /\ o.number = number}
UnitsMeant(f, l) ==
    IF Cardinality(Units(f, l.child)) > 1 THEN {u \in Units(f, l.child) : u.title = l.title}
    ELSE Units(f, l.child)
Telling(f, u) == {l \in f.links : UnitsMeant(f, l) = {u}
                                  /\ Cardinality(CommitteesNumbered(f, l.parent)) = 1}
ParentsTold(f, u) == UNION {CommitteesNumbered(f, l.parent) : l \in Telling(f, u)}

TheAssembly == <<"assembly", NoNumberGiven>>
ParentOf(f, o) ==
    IF o.kind = "unit" /\ o.number # NoNumberGiven /\ Cardinality(ParentsTold(f, o)) = 1
    THEN <<"organ", (CHOOSE c \in ParentsTold(f, o) : TRUE).id>> ELSE TheAssembly

StructureClaims(f, claims) ==
    LET organs == {<<"organ", o.id>> : o \in f.organs}
        others == {c.organ : c \in claims} \cup {<<"friends", x.group>> : x \in f.friends}
                    \cup {<<"delegation", d.id>> : d \in f.delegations}
    IN [k \in organs \cup others |->
          IF k \in organs THEN ParentOf(f, CHOOSE o \in f.organs : o.id = k[2]) ELSE TheAssembly]

-----------------------------------------------------------------------------

MembershipClaims(f, deputies) ==
    GroupClaims(f) \cup FriendClaims(f) \cup OrganClaims(f) \cup DelegationClaims(f, deputies)

SameKey(c, d) == /\ c.organ = d.organ /\ c.person = d.person /\ c.facet = d.facet
                 /\ c.role = d.role /\ c.from = d.from /\ c.to = d.to

\* An identifier of two organs, and a claim told in two ways, refuse the snapshot.
Buildable(f, claims) ==
    /\ \A o, p \in f.organs : o.id = p.id => o = p
    /\ \A c, d \in claims : SameKey(c, d) => c = d

ApplyOrgans ==
    /\ gathering = "others" /\ ~NeedsRoster
    /\ LET claims == MembershipClaims(gathered, deputiesKnown)
       IN /\ Buildable(gathered, claims)
          /\ memberships' = claims
          /\ structureOfOrgans' = StructureClaims(gathered, claims)
    /\ lastGathered' = [files |-> gathered, deputies |-> deputiesKnown]
    /\ gathering' = "idle" /\ gathered' = NothingGathered
    /\ deputiesKnown' = <<>> /\ rostersRead' = {}
    /\ UNCHANGED <<assembly, gatherings, releases>>

\* A download that fails, a file that is not what it should be, or a rule above.
RefuseOrgans ==
    /\ gathering # "idle"
    /\ gathering' = "idle" /\ gathered' = NothingGathered
    /\ deputiesKnown' = <<>> /\ rostersRead' = {}
    /\ UNCHANGED <<assembly, organTables, gatherings, releases>>

ReleaseFiles ==
    /\ releases < MaxReleases /\ releases' = releases + 1
    /\ assembly' \in AssemblyFiles \ {assembly}
    /\ UNCHANGED <<gatherVars, organTables, gatherings>>

OrgansNext == \/ StartGathering \/ ReadFile \/ ReadOtherRoster \/ ApplyOrgans \/ RefuseOrgans
              \/ ReleaseFiles
OrgansSpec == /\ term \in Terms /\ OrgansInit
              /\ [][OrgansNext /\ UNCHANGED term]_<<organVars, term>>

-----------------------------------------------------------------------------
(* What the organs of a legislature promise.                               *)

\* On each day of the legislature a deputy is a member of a group exactly if the roster says
\* that the deputy sat and was in the group that day, and the day of the export, printed as
\* the end of most memberships of an open legislature, ends none.
MembersWhileSitting ==
    LET f == lastGathered.files IN
    \A r \in f.rows : \A g \in r.groups : g.group # NoGroup =>
      \A d \in term.first..Earlier(term.last, OpenEnded - 1) :
        (\E c \in memberships : /\ c.organ = <<"group", g.group>> /\ c.person = Deputy(r.who)
                                /\ c.from <= d /\ d <= c.to)
        <=> \E q \in f.rows : \E h \in q.groups :
              /\ q.who = r.who /\ h.group = g.group
              /\ \E s \in q.status : s.kind \in Serving /\ s.from \in 1..d /\ d <= s.to
              /\ h.from \in 1..d
              /\ \/ d <= h.to
                 \/ /\ term.last = OpenEnded
                    /\ \A x \in GroupRows(f.rows) : x[2].to # OpenEnded => x[2].to <= h.to
                    /\ 2 * EndsOn(f.rows, h.to) > Cardinality(GroupRows(f.rows))

\* A member of a delegation whose DepId is on a roster is who it is on the nearest one, in one
\* claim however many mandates list the deputy, and no delegate is left out.
RosterRead(f, l) == IF l = ThisOne THEN DepMap(f.rows) ELSE RosterOf[l]
DelegatesAreKnown ==
    LET f == lastGathered.files
        knowing(dep) == {l \in Legislatures : dep \in DOMAIN RosterRead(f, l)}
    IN \A d \in f.delegations : \A row \in {r \in d.rows : Valid(r)} :
         LET same == {c \in memberships : /\ c.organ = <<"delegation", d.id>> /\ c.role = row.role
                                          /\ c.from = row.from /\ c.to = row.to
                                          /\ row.dep \in c.says \/ row.dep = NoDep}
         IN /\ same # {}
            /\ row.dep # NoDep => Cardinality(same) = 1
            /\ \A l \in knowing(row.dep) :
                 (\A k \in knowing(row.dep) : Distance(l) <= Distance(k)) =>
                   \A c \in same : c.person = Deputy(RosterRead(f, l)[row.dep])

\* A unit is part of the one committee that the deputies' links to it name, and of none if a
\* link may mean another unit or two links disagree; whatever has members is in the
\* structure, under an organ that is in it too.
StructureAgrees ==
    LET f == lastGathered.files
        about(u, l) == /\ l.child = u.number /\ Cardinality(CommitteesNumbered(f, l.parent)) = 1
                       /\ \A v \in Units(f, u.number) \ {u} : v.title # l.title
                       /\ l.title = u.title \/ Units(f, u.number) = {u}
    IN /\ {c.organ : c \in memberships} \subseteq DOMAIN structureOfOrgans
       /\ \A k \in DOMAIN structureOfOrgans :
            structureOfOrgans[k] \in {TheAssembly} \cup DOMAIN structureOfOrgans
       /\ \A u, o \in f.organs : (u.kind = "unit" /\ o.kind = "committee") =>
            (structureOfOrgans[<<"organ", u.id>>] = <<"organ", o.id>>
               <=> {l.parent : l \in {x \in f.links : about(u, x)}} = {o.number})

OrgansAreWhole ==
    lastGathered # NeverGathered => MembersWhileSitting /\ DelegatesAreKnown /\ StructureAgrees

LegislatureIsWhole == MandatesFollowRoster /\ OrgansAreWhole
===============================================================================
