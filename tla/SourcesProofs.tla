---------------------------- MODULE SourcesProofs ----------------------------
(***************************************************************************)
(* Theorems about EuMeetings, for any members, months, meetings, registers *)
(* and limit of rows, about Mandates and ParliamentBodies, for any         *)
(* rosters, files and reviews, about GovernmentOffices, for any            *)
(* compositions and page size, about PublicBodies, for any versions of the *)
(* register, cache and page size, about ParliamentRegisters, for any       *)
(* lists, pages and files, and about BoardTables, for any sites and        *)
(* documents.                                                              *)
(***************************************************************************)
EXTENDS EuMeetings, ParliamentBodies, GovernmentOffices, PublicBodies, ParliamentRegisters,
        BoardTables, FiniteSetTheorems, SequenceTheorems, WellFoundedInduction, TLAPS

(* EuMeetings *)

Stages == {"idle", "members", "months", "cabinets", "apply"}
Mine(x) == x.dated /\ x.actor \in Meps

\* What a run may hold: months still to ask for with some of the members, and rows of what
\* the sites list.
RunInv ==
    /\ euSites \subseteq Meetings /\ register \in Registers /\ known \in {{}, Meps}
    /\ news \in Nat /\ euStage \in Stages
    /\ DOMAIN euRead = {"registrants", "meetings", "scopes"}
    /\ euStage # "idle" => euRead.registrants \in Registers
    /\ euRead.meetings \subseteq euSites
    /\ euStage = "months" => euMembers = Meps /\ todo \subseteq Months \X SUBSET Meps

\* Of each month, what is not read yet is still to be asked for.
MonthsInv ==
    /\ euStage \in {"idle", "members"} => euRead.meetings = {} /\ euRead.scopes = {}
    /\ euStage \in {"members", "months"} => ~blocked
    /\ euStage = "months" =>
         /\ euRead.scopes \subseteq Months
         /\ Months \subseteq euRead.scopes \cup {w[1] : w \in todo}
         /\ \A x \in euRead.meetings : x.scope \in Months /\ Mine(x)
         /\ news = 0 => \A x \in euSites : x.scope \in Months /\ Mine(x) =>
              x \in euRead.meetings \/ \E w \in todo : w[1] = x.scope /\ x.actor \in w[2]
    /\ euStage = "cabinets" =>
         /\ blocked => euRead.meetings = {} /\ euRead.scopes = {}
         /\ ~blocked => euRead.scopes = Months
         /\ \A x \in euRead.meetings : x.scope \in Months /\ Mine(x)
         /\ news = 0 /\ ~blocked => \A x \in euSites :
              x.scope \in Months /\ Mine(x) => x \in euRead.meetings

MeetingsInv == RunInv /\ MonthsInv /\ MonthsAreWhole /\ NoTwins

LEMMA MeetingsStart == EuInit => MeetingsInv
  BY MeetingsAssumption DEF MeetingsAssumption, EuInit, MeetingsInv, RunInv, MonthsInv,
       MonthsAreWhole, NoTwins, Empty, Stages

\* An answer shorter than the limit is all there is.
LEMMA WholeExport ==
    ASSUME RunInv, NEW m, NEW who, NEW export \in Exports(m, who),
           NEW lines \in {Cardinality(export), Cardinality(export) + 1}, ~Capped(lines)
    PROVE  export = Listing(m, who)
  <1> DEFINE L == Listing(m, who)
  <1>1. L \subseteq Meetings BY DEF RunInv, Listing
  <1>2. IsFiniteSet(L) BY <1>1, FS_Subset, MeetingsAssumption DEF MeetingsAssumption
  <1>3. /\ export \subseteq L
        /\ Cardinality(export) = IF Cardinality(L) > RowCap THEN RowCap ELSE Cardinality(L)
    BY DEF Exports
  <1>4. IsFiniteSet(export) /\ (Cardinality(L) = Cardinality(export) => L = export)
    BY <1>2, <1>3, FS_Subset
  <1>5. Cardinality(L) \in Nat /\ Cardinality(export) \in Nat /\ RowCap \in Nat
    BY <1>2, <1>4, FS_CardinalityType, MeetingsAssumption DEF MeetingsAssumption
  <1> HIDE DEF L
  <1>6. lines < RowCap BY <1>5 DEF Capped
  <1>7. Cardinality(export) < RowCap BY <1>5, <1>6
  <1>8. Cardinality(L) = Cardinality(export) BY <1>3, <1>5, <1>7
  <1> QED BY <1>4, <1>8 DEF L

LEMMA RunStep ==
    ASSUME MeetingsInv, [EuNext]_euvars PROVE RunInv'
  <1> USE DEF MeetingsInv, RunInv
  <1>1. CASE ReadRegister
    BY <1>1 DEF ReadRegister, Empty, euWorld, MonthsInv, Stages
  <1>2. CASE ChooseMembers
    BY <1>2 DEF ChooseMembers, euWorld, Stages
  <1>3. CASE ReadMonth
    <2>1. PICK window \in todo : \E export \in Exports(window[1], window[2]) :
            \E lines \in {Cardinality(export), Cardinality(export) + 1} :
              IF Capped(lines)
                THEN /\ todo' = (todo \ {window}) \cup {<<window[1], {m}>> : m \in window[2]}
                     /\ euRead' = euRead
                ELSE /\ todo' = todo \ {window}
                     /\ euRead' = [euRead EXCEPT !.meetings = @ \cup Declared(export),
                                                  !.scopes = @ \cup {window[1]}]
      BY <1>3 DEF ReadMonth
    <2>2. PICK export \in Exports(window[1], window[2]) :
            \/ /\ todo' = (todo \ {window}) \cup {<<window[1], {m}>> : m \in window[2]}
               /\ euRead' = euRead
            \/ /\ todo' = todo \ {window}
               /\ euRead' = [euRead EXCEPT !.meetings = @ \cup Declared(export),
                                            !.scopes = @ \cup {window[1]}]
      BY <2>1
    <2>3. Declared(export) \subseteq euSites BY DEF Exports, Listing, Declared
    <2>4. window \in Months \X SUBSET Meps BY <1>3 DEF ReadMonth
    <2>5. todo' \subseteq Months \X SUBSET Meps
      <3>1. todo \subseteq Months \X SUBSET Meps BY <1>3 DEF ReadMonth
      <3>2. \A m \in window[2] : <<window[1], {m}>> \in Months \X SUBSET Meps BY <2>4
      <3> QED BY <2>2, <3>1, <3>2
    <2>6. DOMAIN euRead' = DOMAIN euRead /\ euRead'.registrants = euRead.registrants
      BY <2>2
    <2>7. euRead'.meetings \subseteq euSites BY <2>2, <2>3
    <2> QED BY <1>3, <2>5, <2>6, <2>7 DEF ReadMonth, euWorld
  <1>4. CASE MonthsDone BY <1>4 DEF MonthsDone, euWorld, euCollect, Stages
  <1>5. CASE Blocked
    <2>1. /\ DOMAIN euRead' = DOMAIN euRead /\ euRead'.meetings = {}
          /\ euStage' \in {"cabinets", "idle"}
          /\ euStage' # "idle" => euRead'.registrants = euRead.registrants
      <3>1. CASE skipBlocked BY <1>5, <3>1 DEF Blocked, WithoutParliament
      <3>2. CASE ~skipBlocked BY <1>5, <3>2 DEF Blocked, Empty
      <3> QED BY <3>1, <3>2
    <2> QED BY <1>5, <2>1 DEF Blocked, euWorld, Stages
  <1>6. CASE ReadCabinets
    <2>1. OfCabinet({x \in euSites : x.scope \in Cabinets}) \subseteq euSites BY DEF OfCabinet
    <2> QED BY <1>6, <2>1 DEF ReadCabinets, euWorld, Stages
  <1>7. CASE FetchFails BY <1>7 DEF FetchFails, euWorld, Empty, Stages
  <1>8. CASE Apply BY <1>8 DEF Apply, euWorld, Empty, Stages
  <1>9. CASE News
    <2>1. /\ euSites \subseteq euSites' /\ euSites' \subseteq Meetings /\ register' \in Registers
          /\ known' \in {{}, Meps} /\ news' \in Nat
      BY <1>9 DEF News
    <2> QED BY <1>9, <2>1 DEF News, euCollect
  <1>10. CASE UNCHANGED euvars BY <1>10 DEF euvars, euWorld, euCollect
  <1> QED
    BY <1>1, <1>2, <1>3, <1>4, <1>5, <1>6, <1>7, <1>8, <1>9, <1>10 DEF EuNext

\* A window that is done leaves what it listed read; one cut short leaves its members asked for.
LEMMA ReadMonthStep ==
    ASSUME MeetingsInv, ReadMonth PROVE MonthsInv'
  <1>1. PICK window \in todo : \E export \in Exports(window[1], window[2]) :
          \E lines \in {Cardinality(export), Cardinality(export) + 1} :
            IF Capped(lines)
              THEN /\ Cardinality(window[2]) > 1
                   /\ todo' = (todo \ {window}) \cup {<<window[1], {m}>> : m \in window[2]}
                   /\ euRead' = euRead
              ELSE /\ todo' = todo \ {window}
                   /\ euRead' = [euRead EXCEPT !.meetings = @ \cup Declared(export),
                                                !.scopes = @ \cup {window[1]}]
    BY DEF ReadMonth
  <1>7. PICK export \in Exports(window[1], window[2]) :
          \E lines \in {Cardinality(export), Cardinality(export) + 1} :
            IF Capped(lines)
              THEN /\ Cardinality(window[2]) > 1
                   /\ todo' = (todo \ {window}) \cup {<<window[1], {m}>> : m \in window[2]}
                   /\ euRead' = euRead
              ELSE /\ todo' = todo \ {window}
                   /\ euRead' = [euRead EXCEPT !.meetings = @ \cup Declared(export),
                                                !.scopes = @ \cup {window[1]}]
    BY <1>1
  <1>2. PICK lines \in {Cardinality(export), Cardinality(export) + 1} :
          IF Capped(lines)
            THEN /\ Cardinality(window[2]) > 1
                 /\ todo' = (todo \ {window}) \cup {<<window[1], {m}>> : m \in window[2]}
                 /\ euRead' = euRead
            ELSE /\ todo' = todo \ {window}
                 /\ euRead' = [euRead EXCEPT !.meetings = @ \cup Declared(export),
                                              !.scopes = @ \cup {window[1]}]
    BY <1>7
  <1>3. /\ euStage = "months" /\ euStage' = "months" /\ ~blocked' /\ news' = news
        /\ euSites' = euSites /\ euMembers = Meps /\ window \in Months \X SUBSET Meps
    BY DEF ReadMonth, MeetingsInv, RunInv, MonthsInv, euWorld
  <1>4. /\ euRead.scopes \subseteq Months
        /\ Months \subseteq euRead.scopes \cup {w[1] : w \in todo}
        /\ \A x \in euRead.meetings : x.scope \in Months /\ Mine(x)
        /\ news = 0 => \A x \in euSites : x.scope \in Months /\ Mine(x) =>
             x \in euRead.meetings \/ \E w \in todo : w[1] = x.scope /\ x.actor \in w[2]
    BY <1>3 DEF MeetingsInv, MonthsInv
  <1>5. CASE Capped(lines)
    <2>1. /\ Cardinality(window[2]) > 1 /\ euRead' = euRead
          /\ todo' = (todo \ {window}) \cup {<<window[1], {m}>> : m \in window[2]}
      BY <1>2, <1>5
    <2>2. PICK a : a \in window[2]
      <3>1. window[2] # {} BY <2>1, FS_EmptySet
      <3> QED BY <3>1
    <2>3. <<window[1], {a}>> \in todo' BY <2>1, <2>2
    <2>4. Months \subseteq euRead'.scopes \cup {w[1] : w \in todo'}
      <3> SUFFICES ASSUME NEW m \in Months, m \notin euRead'.scopes
                   PROVE  \E w \in todo' : w[1] = m
        OBVIOUS
      <3>1. PICK w \in todo : w[1] = m BY <1>4, <2>1
      <3>2. CASE w = window BY <3>1, <3>2, <2>3
      <3>3. CASE w # window BY <3>1, <3>3, <2>1
      <3> QED BY <3>2, <3>3
    <2>5. ASSUME news = 0, NEW x \in euSites, x.scope \in Months, Mine(x), x \notin euRead'.meetings
          PROVE  \E w \in todo' : w[1] = x.scope /\ x.actor \in w[2]
      <3>1. PICK w \in todo : w[1] = x.scope /\ x.actor \in w[2] BY <1>4, <2>1, <2>5
      <3>2. CASE w = window
        <4>1. <<window[1], {x.actor}>> \in todo' BY <3>1, <3>2, <2>1
        <4> QED BY <4>1, <3>1, <3>2
      <3>3. CASE w # window BY <3>1, <3>3, <2>1
      <3> QED BY <3>2, <3>3
    <2> QED BY <1>3, <1>4, <2>1, <2>4, <2>5 DEF MonthsInv, Mine
  <1>6. CASE ~Capped(lines)
    <2>1. /\ todo' = todo \ {window}
          /\ euRead' = [euRead EXCEPT !.meetings = @ \cup Declared(export),
                                       !.scopes = @ \cup {window[1]}]
      BY <1>2, <1>6
    <2>2. /\ euRead'.meetings = euRead.meetings \cup Declared(export)
          /\ euRead'.scopes = euRead.scopes \cup {window[1]}
      BY <2>1 DEF MeetingsInv, RunInv
    <2>3. export = Listing(window[1], window[2]) BY <1>6, WholeExport DEF MeetingsInv
    <2>4. Declared(export) = {x \in euSites : x.scope = window[1] /\ x.actor \in window[2] /\ Mine(x)}
      BY <2>3, <1>3 DEF Declared, Listing, Mine
    <2>5. ASSUME NEW m \in Months, m \notin euRead'.scopes PROVE \E w \in todo' : w[1] = m
      <3>1. PICK w \in todo : w[1] = m BY <1>4, <2>2, <2>5
      <3> QED BY <3>1, <2>1, <2>2, <2>5
    <2>6. ASSUME news = 0, NEW x \in euSites, x.scope \in Months, Mine(x), x \notin euRead'.meetings
          PROVE  \E w \in todo' : w[1] = x.scope /\ x.actor \in w[2]
      <3>1. PICK w \in todo : w[1] = x.scope /\ x.actor \in w[2] BY <1>4, <2>2, <2>6
      <3>2. w # window BY <3>1, <2>2, <2>4, <2>6
      <3> QED BY <3>1, <3>2, <2>1
    <2>7. \A x \in euRead'.meetings : x.scope \in Months /\ Mine(x) BY <1>3, <1>4, <2>2, <2>4
    <2>8. euRead'.scopes \subseteq Months BY <1>3, <1>4, <2>2
    <2>9. Months \subseteq euRead'.scopes \cup {w[1] : w \in todo'} BY <2>5
    <2> QED BY <1>3, <2>6, <2>7, <2>8, <2>9 DEF MonthsInv, Mine
  <1> QED BY <1>5, <1>6

LEMMA MonthsStep ==
    ASSUME MeetingsInv, [EuNext]_euvars PROVE MonthsInv'
  <1> USE DEF MeetingsInv, MonthsInv
  <1>1. CASE ReadRegister BY <1>1 DEF ReadRegister, Empty, RunInv
  <1>2. CASE ChooseMembers
    <2>1. /\ todo' = {<<m, Meps>> : m \in Months} /\ UNCHANGED <<euSites, euRead, blocked, news>>
          /\ euStage = "members" /\ euStage' = "months"
      BY <1>2, MeetingsAssumption DEF MeetingsAssumption, ChooseMembers, RunInv, euWorld
    <2>2. \A m \in Months : \E w \in todo' : w[1] = m /\ w[2] = Meps
      <3>1. \A m \in Months : <<m, Meps>> \in todo' BY <2>1
      <3> QED BY <3>1
    <2>3. euRead'.meetings = {} /\ euRead'.scopes = {} BY <2>1
    <2> QED BY <2>1, <2>2, <2>3 DEF Mine
  <1>3. CASE ReadMonth BY <1>3, ReadMonthStep
  <1>4. CASE MonthsDone
    <2>1. /\ todo = {} /\ euStage = "months" /\ euStage' = "cabinets" /\ ~blocked
          /\ UNCHANGED <<euSites, euRead, blocked, news>>
      BY <1>4 DEF MonthsDone, euWorld, euCollect
    <2> QED BY <2>1 DEF Mine
  <1>5. CASE Blocked
    <2>1. blocked' /\ euRead'.meetings = {} /\ euRead'.scopes = {} /\ euStage' \in {"cabinets", "idle"}
      <3>1. CASE skipBlocked BY <1>5, <3>1 DEF Blocked, WithoutParliament, RunInv
      <3>2. CASE ~skipBlocked BY <1>5, <3>2 DEF Blocked, Empty
      <3> QED BY <3>1, <3>2
    <2> QED BY <2>1
  <1>6. CASE ReadCabinets BY <1>6 DEF ReadCabinets
  <1>7. CASE FetchFails BY <1>7 DEF FetchFails, Empty
  <1>8. CASE Apply BY <1>8 DEF Apply, Empty
  <1>9. CASE News
    <2>1. news' # 0 /\ UNCHANGED <<euStage, euRead, todo, blocked>>
      BY <1>9 DEF News, RunInv, euCollect
    <2> QED BY <2>1 DEF Mine
  <1>10. CASE UNCHANGED euvars BY <1>10 DEF euvars, euWorld, euCollect, Mine
  <1> QED
    BY <1>1, <1>2, <1>3, <1>4, <1>5, <1>6, <1>7, <1>8, <1>9, <1>10 DEF EuNext

LEMMA WholeStep ==
    ASSUME MeetingsInv, [EuNext]_euvars PROVE MonthsAreWhole' /\ NoTwins'
  <1>1. MonthsAreWhole'
    <2>1. CASE ReadCabinets
      <3> DEFINE files == OfCabinet({x \in euSites : x.scope \in Cabinets})
      <3>1. /\ euRead'.meetings = euRead.meetings \cup files
            /\ euRead'.scopes = euRead.scopes \cup Cabinets
            /\ euStage = "cabinets" /\ UNCHANGED <<euSites, blocked, news>>
        BY <2>1 DEF ReadCabinets, euWorld, MeetingsInv, RunInv
      <3>2. /\ blocked => euRead.meetings = {} /\ euRead.scopes = {}
            /\ ~blocked => euRead.scopes = Months
            /\ \A x \in euRead.meetings : x.scope \in Months /\ Mine(x)
            /\ news = 0 /\ ~blocked => \A x \in euSites :
                 x.scope \in Months /\ Mine(x) => x \in euRead.meetings
            /\ euRead.meetings \subseteq euSites /\ euSites \subseteq Meetings
        BY <3>1 DEF MeetingsInv, MonthsInv, RunInv
      <3>3. files = {x \in euSites : x.scope \in Cabinets /\ x.dated /\ x.actor = Cabinet}
        BY DEF OfCabinet
      <3>4. blocked' => euRead'.scopes \cap Months = {}
        BY <3>1, <3>2, MeetingsAssumption DEF MeetingsAssumption
      <3>5. ~blocked' => euRead'.scopes = EuScopes BY <3>1, <3>2 DEF EuScopes
      <3>6. euRead'.meetings \subseteq euSites' BY <3>1, <3>2, <3>3
      <3>7. ASSUME news' = 0, NEW s \in euRead'.scopes
            PROVE  {x \in euRead'.meetings : x.scope = s}
                     = {x \in euSites' : x.scope = s /\ x.dated /\ x.actor \in Meps \cup {Cabinet}}
        <4>1. \A x \in euSites : /\ x.scope \in Months => x.actor # Cabinet
                                 /\ x.scope \in Cabinets => x.actor \notin Meps
          BY <3>2, MeetingsAssumption DEF MeetingsAssumption
        <4>2. Months \cap Cabinets = {} BY MeetingsAssumption DEF MeetingsAssumption
        <4>3. CASE s \in Months
          <5>1. ~blocked BY <4>2, <4>3, <3>1, <3>2, <3>7
          <5>2. ASSUME NEW x, x.scope = s
                PROVE  x \in euRead.meetings \cup files
                         <=> x \in euSites /\ x.dated /\ x.actor \in Meps \cup {Cabinet}
            BY <3>1, <3>2, <3>3, <3>7, <4>1, <4>2, <4>3, <5>1, <5>2 DEF Mine
          <5> QED BY <5>2, <3>1
        <4>4. CASE s \in Cabinets
          <5>1. ASSUME NEW x, x.scope = s
                PROVE  x \in euRead.meetings \cup files
                         <=> x \in euSites /\ x.dated /\ x.actor \in Meps \cup {Cabinet}
            BY <3>1, <3>2, <3>3, <4>1, <4>2, <4>4, <5>1 DEF Mine
          <5> QED BY <5>1, <3>1
        <4> QED BY <4>3, <4>4, <3>1, <3>2, <3>7
      <3> QED BY <3>4, <3>5, <3>6, <3>7 DEF MonthsAreWhole
    <2>2. CASE News
      <3>1. news' # 0 /\ UNCHANGED <<euStage, euRead, blocked>> /\ euSites \subseteq euSites'
        BY <2>2 DEF News, MeetingsInv, RunInv, euCollect
      <3> QED BY <3>1 DEF MeetingsInv, MonthsAreWhole
    <2>3. CASE UNCHANGED euvars
      BY <2>3 DEF euvars, euWorld, euCollect, MeetingsInv, MonthsAreWhole
    <2>4. CASE ~(ReadCabinets \/ News \/ UNCHANGED euvars)
      <3>1. euStage' # "apply"
        BY <2>4 DEF EuNext, ReadRegister, ChooseMembers, ReadMonth, MonthsDone, Blocked, FetchFails,
                    Apply
      <3> QED BY <3>1 DEF MonthsAreWhole
    <2> QED BY <2>1, <2>2, <2>3, <2>4
  <1>2. NoTwins'
    <2>1. pendingReview' = pendingReview /\ orgs' \cap pendingReview = {}
      BY DEF EuNext, ReadRegister, ChooseMembers, ReadMonth, MonthsDone, Blocked, ReadCabinets,
             FetchFails, Apply, News, euTables, euvars, NewOrgs, MeetingsInv, NoTwins
    <2> QED BY <2>1 DEF NoTwins
  <1> QED BY <1>1, <1>2

LEMMA MeetingsInvariance == EuSpec => []MeetingsInv
  <1>1. EuInit => MeetingsInv BY MeetingsStart
  <1>2. MeetingsInv /\ [EuNext]_euvars => MeetingsInv'
    BY RunStep, MonthsStep, WholeStep DEF MeetingsInv
  <1> QED BY <1>1, <1>2, PTL DEF EuSpec

\* A party is never a self-employed registrant nor carries that registrant's name.
LEMMA NoPersonIsAParty ==
    ASSUME MeetingsInv, euStage = "apply" PROVE PeopleStayOut
  <1> SUFFICES ASSUME NEW s \in euRead.scopes, NEW e \in EventsOf(s), NEW p \in e.parties
               PROVE  /\ ~Person(p.id)
                      /\ \A i \in e.ids : Person(i) =>
                           p.name \notin Label(i) \cup (e.of.paired
                                                         \ UNION {Label(j) : j \in RegisterIds \ {i}})
                      /\ p.entity => p.id \in orgs \cup NewOrgs
    BY DEF PeopleStayOut
  <1>1. PICK x \in euRead.meetings : e = [ids |-> x.ids, actor |-> x.actor, parties |-> Parties(x),
                                          of |-> x]
    BY DEF EventsOf
  <1>2. e.ids = x.ids /\ e.of = x /\ p \in Parties(x) BY <1>1
  <1>3. x.ids \subseteq RegisterIds /\ x.free \subseteq Names /\ x.paired \subseteq Names
    BY <1>1, MeetingsAssumption DEF MeetingsAssumption, MeetingsInv, RunInv
  <1>4. \A i : Registered(i) => i \in RegisterIds
    <2>1. euRead.registrants \in Registers BY DEF MeetingsInv, RunInv
    <2>2. euRead.registrants.registered \subseteq RegisterIds
      BY <2>1, MeetingsAssumption DEF MeetingsAssumption
    <2> QED BY <2>2 DEF Registered
  <1>5. /\ NoActor \notin RegisterIds /\ Names \cap RegisterIds = {}
        /\ NameOf \in [RegisterIds -> Names]
        /\ \A i, j \in RegisterIds : NameOf[i] = NameOf[j] => i = j
    BY MeetingsAssumption DEF MeetingsAssumption
  <1>6. \A i : Person(i) => Registered(i) BY DEF Person
  <1>7. CASE \E j \in {k \in x.ids : ~Person(k)} :
               p = [id |-> j, entity |-> j \in OrgsNamed,
                    name |-> IF Registered(j) THEN NameOf[j] ELSE j]
    <2>1. PICK j \in x.ids : /\ ~Person(j)
                             /\ p = [id |-> j, entity |-> j \in OrgsNamed,
                                     name |-> IF Registered(j) THEN NameOf[j] ELSE j]
      BY <1>7
    <2>2. /\ p.id = j /\ (p.entity => j \in OrgsNamed)
          /\ p.name = IF Registered(j) THEN NameOf[j] ELSE j
      BY <2>1
    <2>3. p.entity => p.id \in orgs \cup NewOrgs BY <2>2 DEF OrgsNamed
    <2>4. ASSUME NEW i \in e.ids, Person(i)
          PROVE  p.name \notin Label(i) \cup (e.of.paired
                                                \ UNION {Label(k) : k \in RegisterIds \ {i}})
      <3>1. i # j /\ Registered(i) /\ i \in RegisterIds /\ j \in RegisterIds
        BY <1>2, <1>3, <1>6, <2>1, <2>4
      <3>2. Label(i) = {NameOf[i]} BY <3>1 DEF Label
      <3>3. CASE Registered(j)
        <4>1. p.name = NameOf[j] /\ Label(j) = {NameOf[j]} BY <3>3, <2>2 DEF Label
        <4>2. p.name \notin Label(i) BY <4>1, <3>1, <3>2, <1>5
        <4>3. p.name \in UNION {Label(k) : k \in RegisterIds \ {i}} BY <4>1, <3>1
        <4> QED BY <4>2, <4>3
      <3>4. CASE ~Registered(j)
        <4>1. p.name = j BY <3>4, <2>2
        <4> QED BY <4>1, <3>1, <3>2, <1>2, <1>3, <1>5
      <3> QED BY <3>3, <3>4
    <2> QED BY <2>1, <2>2, <2>3, <2>4
  <1>8. CASE \E n \in Remaining(x) \cap Marked : p = [id |-> NoActor, entity |-> FALSE, name |-> n]
    <2>1. PICK n \in Remaining(x) : p.id = NoActor /\ ~p.entity /\ p.name = n BY <1>8
    <2>2. ~Person(NoActor) BY <1>4, <1>5, <1>6
    <2>3. n \notin Covered(x) BY <2>1 DEF Remaining
    <2>4. \A i \in x.ids : n \notin Label(i) BY <2>3 DEF Covered
    <2>5. n \notin x.paired BY <2>3 DEF Covered
    <2> QED BY <2>1, <2>2, <2>4, <2>5, <1>2
  <1> QED BY <1>2, <1>7, <1>8 DEF Parties

\* When a run of the meetings is applied, each month it covers has every meeting listed for the
\* members, however the export was cut; a refused export covers no month; and no self-employed
\* registrant becomes a party or an organisation.
THEOREM MeetingsStayWhole == EuSpec => []MeetingsAreWhole
  <1>1. MeetingsInv => MeetingsAreWhole
    <2>1. MeetingsInv => PeopleStayOut
      <3>1. euStage # "apply" => PeopleStayOut BY DEF PeopleStayOut
      <3> QED BY <3>1, NoPersonIsAParty
    <2> QED BY <2>1 DEF MeetingsInv, MeetingsAreWhole
  <1> QED BY <1>1, MeetingsInvariance, PTL

-----------------------------------------------------------------------------
(* Mandates *)

\* Every record has its claim; a snapshot has the periods of the deputies of its rows.
RowsInv ==
    /\ DOMAIN record \subseteq DOMAIN claim
    /\ \A k \in DOMAIN record : DOMAIN record[k] = {"text", "current"}
    /\ \A k \in DOMAIN claim : DOMAIN claim[k] = {"status", "owner", "to"}
    /\ \A s \in fetched : DOMAIN s.periods = Deputised(s.rows)

MandatesInv == RowsInv /\ ClaimsFollowRecords /\ (lastRoster # NoSnapshot => SnapshotIsWhole)

LEMMA MandatesStart == MandatesInit => MandatesInv
  <1> SUFFICES ASSUME MandatesInit PROVE MandatesInv
    OBVIOUS
  <1>1. DOMAIN record = {} BY DEF MandatesInit
  <1>2. \A k \in DOMAIN claim : DOMAIN claim[k] = {"status", "owner", "to"} BY DEF MandatesInit
  <1>3. fetched = {} /\ lastRoster = NoSnapshot BY DEF MandatesInit
  <1> QED BY <1>1, <1>2, <1>3 DEF MandatesInv, RowsInv, ClaimsFollowRecords

\* What a snapshot makes of the claim of one period.
LEMMA ClaimOfPeriod ==
    ASSUME RowsInv, ClaimsFollowRecords, NEW s, NEW k
    PROVE  LET c == ClaimFor(s, k)
           IN /\ DOMAIN c = {"status", "owner", "to"}
              /\ c.owner = "record" /\ c.status # "unpublished" /\ c.to = EndOf(s, k)
              /\ k \in DOMAIN claim /\ claim[k].status = "withdrawn" => c.status = "withdrawn"
  <1>1. CASE Changed(s, k)
    <2> DEFINE made == [ClaimOf(k) EXCEPT !.to = EndOf(s, k), !.owner = "record"]
    <2>1. DOMAIN ClaimOf(k) = {"status", "owner", "to"} BY DEF ClaimOf, NoClaim, RowsInv
    <2>2. /\ DOMAIN made = {"status", "owner", "to"} /\ made.to = EndOf(s, k)
          /\ made.owner = "record" /\ made.status = ClaimOf(k).status
      BY <2>1
    <2>3. ClaimFor(s, k) = Published(made) BY <1>1 DEF ClaimFor
    <2> HIDE DEF made
    <2>4. /\ DOMAIN Published(made) = {"status", "owner", "to"} /\ Published(made).to = EndOf(s, k)
          /\ Published(made).owner = "record"
          /\ Published(made).status
               = IF made.status = "withdrawn" THEN "withdrawn" ELSE "published"
      BY <2>2 DEF Published
    <2> QED BY <2>2, <2>3, <2>4 DEF ClaimOf
  <1>2. CASE ~Changed(s, k)
    <2>1. k \in DOMAIN record /\ record[k] = AsRecorded(s, k) /\ ClaimFor(s, k) = claim[k]
      BY <1>2 DEF Changed, ClaimFor
    <2>2. record[k].current /\ record[k].text.to = EndOf(s, k)
      BY <2>1 DEF AsRecorded, Fingerprint
    <2> QED BY <2>1, <2>2 DEF RowsInv, ClaimsFollowRecords
  <1> QED BY <1>1, <1>2

\* What a snapshot keeps of a period as its record.
LEMMA RecordOfPeriod ==
    ASSUME NEW s, NEW k
    PROVE  /\ DOMAIN AsRecorded(s, k) = {"text", "current"}
           /\ AsRecorded(s, k).current = TRUE
           /\ AsRecorded(s, k).text.to = EndOf(s, k)
  <1> DEFINE of == RowsOf(s.rows, k[1])
             end == EndOf(s, k)
             over == s.ended \/ EndOf(s, k) # OpenEnded
             text == [roster |-> of, to |-> end, ended |-> over]
  <1>1. AsRecorded(s, k) = [text |-> text, current |-> TRUE] BY DEF AsRecorded, Fingerprint
  <1>2. text.to = end
    <2> HIDE DEF of, end, over
    <2> QED OBVIOUS
  <1>3. /\ DOMAIN AsRecorded(s, k) = {"text", "current"} /\ AsRecorded(s, k).current = TRUE
        /\ AsRecorded(s, k).text = text
    <2> HIDE DEF text
    <2> QED BY <1>1
  <1> QED BY <1>2, <1>3

LEMMA ApplyRosterStep ==
    ASSUME MandatesInv, NEW s \in fetched, ApplyRoster(s)
    PROVE  /\ MandatesInv'
           /\ \A k \in DOMAIN claim : claim[k].status = "withdrawn" => claim'[k].status = "withdrawn"
  <1>1. /\ fetched' = fetched \ {s} /\ latestAsOf' = s.asOf /\ lastRoster' = s
        /\ DOMAIN record' = DOMAIN record \cup Keys(s) /\ DOMAIN claim' = DOMAIN claim \cup Keys(s)
    BY DEF ApplyRoster
  <1>2. ASSUME NEW k \in Keys(s)
        PROVE  record'[k] = AsRecorded(s, k) /\ claim'[k] = ClaimFor(s, k)
    BY <1>2 DEF ApplyRoster
  <1>3. ASSUME NEW k \in DOMAIN record, k \notin Keys(s)
        PROVE  record'[k] = [record[k] EXCEPT !.current = FALSE]
    BY <1>3 DEF ApplyRoster
  <1>4. ASSUME NEW k \in DOMAIN claim, k \notin Keys(s)
        PROVE  claim'[k] = IF k \in Ceased(s) THEN Revoked(claim[k]) ELSE claim[k]
    BY <1>4 DEF ApplyRoster
  <1>5. ASSUME NEW k \in DOMAIN claim, k \notin Keys(s)
        PROVE  /\ DOMAIN claim'[k] = {"status", "owner", "to"} /\ claim'[k].owner = claim[k].owner
               /\ claim'[k].status \in {claim[k].status, "unpublished"}
               /\ claim[k].status = "withdrawn" => claim'[k].status = "withdrawn"
               /\ k \in Ceased(s) => claim'[k].status # "published"
    <2>1. DOMAIN claim[k] = {"status", "owner", "to"} BY DEF MandatesInv, RowsInv
    <2>2. /\ DOMAIN Revoked(claim[k]) = {"status", "owner", "to"}
          /\ Revoked(claim[k]).owner = claim[k].owner
          /\ Revoked(claim[k]).status
               = IF claim[k].status = "withdrawn" THEN "withdrawn" ELSE "unpublished"
      BY <2>1 DEF Revoked
    <2> QED BY <2>1, <2>2, <1>4, <1>5
  <1>6. RowsInv'
    <2>1. \A k \in DOMAIN record' : DOMAIN record'[k] = {"text", "current"}
      <3>1. \A k \in Keys(s) : DOMAIN record'[k] = {"text", "current"}
        <4> SUFFICES ASSUME NEW k \in Keys(s) PROVE DOMAIN record'[k] = {"text", "current"}
          OBVIOUS
        <4>1. record'[k] = AsRecorded(s, k) BY <1>2
        <4>2. DOMAIN AsRecorded(s, k) = {"text", "current"} BY RecordOfPeriod
        <4> QED BY <4>1, <4>2, Zenon
      <3>2. \A k \in DOMAIN record \ Keys(s) : DOMAIN record'[k] = {"text", "current"}
        BY <1>3 DEF MandatesInv, RowsInv
      <3> QED BY <1>1, <3>1, <3>2
    <2>2. \A k \in DOMAIN claim' : DOMAIN claim'[k] = {"status", "owner", "to"}
      <3>1. \A k \in Keys(s) : DOMAIN claim'[k] = {"status", "owner", "to"}
        BY <1>2, ClaimOfPeriod DEF MandatesInv
      <3> QED BY <1>1, <3>1, <1>5
    <2> QED BY <1>1, <2>1, <2>2 DEF MandatesInv, RowsInv
  <1>7. ClaimsFollowRecords'
    <2> SUFFICES ASSUME NEW k \in DOMAIN record'
                 PROVE  /\ claim'[k].owner = "record"
                        /\ claim'[k].status = "published" => record'[k].current
                        /\ record'[k].current => claim'[k].status # "unpublished"
                        /\ record'[k].current => claim'[k].to = record'[k].text.to
      BY DEF ClaimsFollowRecords
    <2>1. CASE k \in Keys(s)
      <3>1. record'[k].current /\ record'[k].text.to = EndOf(s, k)
        <4>1. record'[k] = AsRecorded(s, k) BY <1>2, <2>1
        <4>2. AsRecorded(s, k).current = TRUE /\ AsRecorded(s, k).text.to = EndOf(s, k)
          BY RecordOfPeriod
        <4> QED BY <4>1, <4>2, Zenon
      <3>2. /\ claim'[k].owner = "record" /\ claim'[k].status # "unpublished"
            /\ claim'[k].to = EndOf(s, k)
        BY <1>2, <2>1, ClaimOfPeriod DEF MandatesInv
      <3> QED BY <3>1, <3>2
    <2>2. CASE k \notin Keys(s)
      <3>1. k \in DOMAIN record /\ k \in DOMAIN claim BY <1>1, <2>2 DEF MandatesInv, RowsInv
      <3>2. ~record'[k].current BY <1>3, <2>2, <3>1 DEF MandatesInv, RowsInv
      <3>3. claim'[k].owner = "record" BY <1>5, <2>2, <3>1 DEF MandatesInv, ClaimsFollowRecords
      <3>4. claim'[k].status # "published"
        <4>1. CASE k \in Ceased(s) BY <4>1, <1>5, <2>2, <3>1
        <4>2. CASE k \notin Ceased(s)
          <5>1. ~record[k].current BY <4>2, <2>2, <3>1 DEF Ceased
          <5>2. claim[k].status # "published" BY <5>1, <3>1 DEF MandatesInv, ClaimsFollowRecords
          <5> QED BY <5>2, <1>5, <2>2, <3>1
        <4> QED BY <4>1, <4>2
      <3> QED BY <3>2, <3>3, <3>4
    <2> QED BY <2>1, <2>2
  <1>8. SnapshotIsWhole'
    <2>1. DOMAIN s.periods = Deputised(s.rows) BY DEF MandatesInv, RowsInv
    <2>2. {i[1] : i \in intervals'} \subseteq Deputised(s.rows)
      <3>1. intervals' = UNION {{<<w, i>> : i \in StatusOf(s.rows, w)} : w \in Deputised(s.rows)}
        BY DEF ApplyRoster
      <3> QED BY <3>1
    <2>3. ASSUME s.hasBiography, NEW w \in Cadastros, isCurrent'[w]
          PROVE  biographyRoles'[w] = s.roles[w]
      <3>1. PICK k \in Keys(s) : k[1] = w BY <2>3 DEF ApplyRoster
      <3>2. w \in DOMAIN s.periods /\ s.periods[w] # {} BY <3>1 DEF Keys
      <3>3. biographyRoles'[w] = RolesAfter(s, w) BY DEF ApplyRoster
      <3> QED BY <2>1, <2>3, <3>2, <3>3 DEF RolesAfter
    <2> QED BY <1>1, <2>2, <2>3 DEF SnapshotIsWhole
  <1>9. ASSUME NEW k \in DOMAIN claim, claim[k].status = "withdrawn"
        PROVE  claim'[k].status = "withdrawn"
    <2>1. CASE k \in Keys(s) BY <2>1, <1>2, <1>9, ClaimOfPeriod DEF MandatesInv
    <2>2. CASE k \notin Keys(s) BY <2>2, <1>5, <1>9
    <2> QED BY <2>1, <2>2
  <1> QED BY <1>6, <1>7, <1>8, <1>9 DEF MandatesInv

LEMMA MandatesStep ==
    ASSUME MandatesInv, [MandatesNext]_mandateVars
    PROVE  /\ MandatesInv'
           /\ \A k \in DOMAIN claim : claim[k].status = "withdrawn" => claim'[k].status = "withdrawn"
  <1>1. CASE FetchRoster
    <2>1. PICK day, bios : fetched' = fetched \cup {Snapshot(day, bios)} BY <1>1 DEF FetchRoster
    <2>2. DOMAIN Snapshot(day, bios).periods = Deputised(Snapshot(day, bios).rows) BY DEF Snapshot
    <2>3. UNCHANGED mandateTables BY <1>1 DEF FetchRoster
    <2>4. RowsInv' BY <2>1, <2>2, <2>3 DEF mandateTables, MandatesInv, RowsInv
    <2> QED BY <2>3, <2>4 DEF mandateTables, MandatesInv, ClaimsFollowRecords, SnapshotIsWhole
  <1>2. CASE \E s \in fetched : ApplyRoster(s) BY <1>2, ApplyRosterStep
  <1>3. CASE GiveUpSnapshot \/ PublishRoster \/ UNCHANGED mandateVars
    <2>1. fetched' \subseteq fetched /\ UNCHANGED mandateTables
      BY <1>3 DEF GiveUpSnapshot, PublishRoster, mandateVars
    <2>2. RowsInv' BY <2>1 DEF mandateTables, MandatesInv, RowsInv
    <2> QED BY <2>1, <2>2 DEF mandateTables, MandatesInv, ClaimsFollowRecords, SnapshotIsWhole
  <1>4. CASE WithdrawMandate
    <2>1. PICK k \in DOMAIN claim : /\ claim[k].status = "published"
                                    /\ claim' = [claim EXCEPT ![k].status = "withdrawn"]
      BY <1>4 DEF WithdrawMandate
    <2>2. UNCHANGED <<fetched, latestAsOf, record, isCurrent, intervals, biographyRoles, lastRoster>>
      BY <1>4 DEF WithdrawMandate
    <2>3. /\ DOMAIN claim' = DOMAIN claim /\ claim'[k] = [claim[k] EXCEPT !.status = "withdrawn"]
          /\ \A l \in DOMAIN claim : l # k => claim'[l] = claim[l]
      BY <2>1
    <2>4. DOMAIN claim[k] = {"status", "owner", "to"} BY DEF MandatesInv, RowsInv
    <2>5. /\ claim'[k].status = "withdrawn" /\ claim'[k].owner = claim[k].owner
          /\ claim'[k].to = claim[k].to /\ DOMAIN claim'[k] = {"status", "owner", "to"}
      BY <2>3, <2>4
    <2>6. RowsInv' BY <2>2, <2>3, <2>5 DEF MandatesInv, RowsInv
    <2>7. ClaimsFollowRecords'
      BY <2>1, <2>2, <2>3, <2>5 DEF MandatesInv, RowsInv, ClaimsFollowRecords
    <2>8. lastRoster' # NoSnapshot => SnapshotIsWhole' BY <2>2 DEF MandatesInv, SnapshotIsWhole
    <2>9. \A l \in DOMAIN claim : claim[l].status = "withdrawn" => claim'[l].status = "withdrawn"
      BY <2>3, <2>5
    <2> QED BY <2>6, <2>7, <2>8, <2>9 DEF MandatesInv
  <1> QED BY <1>1, <1>2, <1>3, <1>4 DEF MandatesNext

LEMMA MandatesInvariance == MandatesSpec => []MandatesInv
  <1>1. MandatesInit => MandatesInv BY MandatesStart
  <1>2. MandatesInv /\ [MandatesNext]_mandateVars => MandatesInv' BY MandatesStep
  <1> QED BY <1>1, <1>2, PTL DEF MandatesSpec

\* However snapshots are held, overtaken and applied, only periods of the roster applied last are
\* public, and the roles of who is in office are those of its biographies.
THEOREM MandatesFollowRecords ==
    MandatesSpec => [](ClaimsFollowRecords /\ (lastRoster # NoSnapshot => SnapshotIsWhole))
  <1>1. MandatesInv => ClaimsFollowRecords /\ (lastRoster # NoSnapshot => SnapshotIsWhole)
    BY DEF MandatesInv
  <1> QED BY <1>1, MandatesInvariance, PTL

\* No snapshot, of whatever roster, brings back the claim of a period that an editor withdrew,
\* be it changed, ceased, listed again or taken over from the bodies of the Parliament.
THEOREM WithdrawnMandatesStay ==
    MandatesSpec => [][\A k \in DOMAIN claim : claim[k].status = "withdrawn" =>
                         claim'[k].status = "withdrawn"]_mandateVars
  <1>1. MandatesInv /\ [MandatesNext]_mandateVars =>
          [\A k \in DOMAIN claim : claim[k].status = "withdrawn" =>
             claim'[k].status = "withdrawn"]_mandateVars
    BY MandatesStep
  <1> QED BY <1>1, MandatesInvariance, PTL DEF MandatesSpec

\* A finite set of numbers has a least one.
LEMMA LeastExists ==
    ASSUME NEW T \in SUBSET Nat, IsFiniteSet(T), T # {}
    PROVE  \E m \in T : \A t \in T : m <= t
  <1> DEFINE Below(m) == {t \in T : t < m}
             Belows == {Below(m) : m \in T}
  <1>1. Belows \subseteq FiniteSubsetsOf(T) /\ Belows # {}
    <2>1. \A m \in T : IsFiniteSet(Below(m)) BY FS_Subset
    <2> QED BY <2>1 DEF FiniteSubsetsOf
  <1>2. IsWellFoundedOn(StrictSubsetOrdering(T), FiniteSubsetsOf(T))
    BY FS_StrictSubsetOrderingWellFounded
  <1>3. PICK U \in Belows : \A V \in Belows : <<V, U>> \notin StrictSubsetOrdering(T)
    BY <1>1, <1>2, WFMin
  <1>4. PICK m \in T : U = Below(m) BY <1>3
  <1>5. ASSUME NEW n \in Below(m) PROVE FALSE
    <2>1. n \in T /\ n < m /\ n \notin Below(n) BY <1>5
    <2>2. \A t \in T : t < n => t < m
      <3>1. \A t \in T : t \in Nat OBVIOUS
      <3> QED BY <2>1, <3>1
    <2>3. <<Below(n), U>> \in StrictSubsetOrdering(T) BY <2>1, <2>2, <1>4, <1>5 DEF StrictSubsetOrdering
    <2> QED BY <2>1, <2>3, <1>3
  <1>6. \A t \in T : m <= t BY <1>5
  <1> QED BY <1>6

\* What holds of 0 and passes on from each number to the next holds up to n.
LEMMA CountedUp ==
    ASSUME NEW n \in Nat, NEW S, 0 \in S, \A k \in 0..n : k \in S /\ k < n => k + 1 \in S
    PROVE  0..n \subseteq S
  <1> DEFINE Rest == (0..n) \ S
  <1> SUFFICES ASSUME Rest # {} PROVE FALSE
    OBVIOUS
  <1>1. IsFiniteSet(Rest) /\ Rest \subseteq Nat
    <2>1. IsFiniteSet(0..n) BY FS_Interval
    <2>2. Rest \in SUBSET (0..n) OBVIOUS
    <2>3. IsFiniteSet(Rest) BY <2>1, <2>2, FS_Subset
    <2> QED BY <2>2, <2>3
  <1>2. PICK k \in Rest : \A m \in Rest : k <= m
    <2> HIDE DEF Rest
    <2> QED BY <1>1, LeastExists
  <1>3. k # 0 OBVIOUS
  <1>4. k - 1 \in 0..n /\ k - 1 < n BY <1>3
  <1>5. k - 1 \in S BY <1>2, <1>4
  <1>6. (k - 1) + 1 = k OBVIOUS
  <1> QED BY <1>4, <1>5, <1>6

Took(n, V, v, step, f) ==
    f \in [0..n -> V] /\ f[0] = v /\ \A k \in 1..n : f[k] = step[k][f[k - 1]]

\* A value can be taken through n steps.
LEMMA Iterated ==
    ASSUME NEW V, NEW n \in Nat, NEW v \in V, NEW step \in [1..n -> [V -> V]]
    PROVE  \E f : Took(n, V, v, step, f)
  <1> DEFINE Goes(m, f) == f[0] = v /\ \A k \in 1..m : f[k] = step[k][f[k - 1]]
             S == {m \in 0..n : \E f \in [0..m -> V] : Goes(m, f)}
  <1>1. 0 \in S
    <2> DEFINE g == [k \in 0..0 |-> v]
    <2>1. g \in [0..0 -> V] OBVIOUS
    <2>2. g[0] = v /\ 1..0 = {} OBVIOUS
    <2> HIDE DEF g
    <2> QED BY <2>1, <2>2
  <1>2. ASSUME NEW m \in 0..n, m \in S, m < n PROVE m + 1 \in S
    <2>1. PICK f \in [0..m -> V] : Goes(m, f) BY <1>2
    <2> DEFINE g == [k \in 0..(m + 1) |-> IF k <= m THEN f[k] ELSE step[m + 1][f[m]]]
    <2>2. m + 1 \in 1..n /\ f[m] \in V BY <1>2
    <2>3. step[m + 1] \in [V -> V] BY <2>2
    <2>4. step[m + 1][f[m]] \in V BY <2>2, <2>3
    <2>5. g \in [0..(m + 1) -> V] BY <2>4
    <2>6. Goes(m + 1, g)
      <3>1. g[0] = v BY <2>1
      <3>2. ASSUME NEW k \in 1..(m + 1) PROVE g[k] = step[k][g[k - 1]]
        <4>1. CASE k <= m
          <5>1. g[k] = f[k] /\ g[k - 1] = f[k - 1] BY <4>1
          <5>2. k \in 1..m BY <4>1
          <5> QED BY <2>1, <5>1, <5>2
        <4>2. CASE k = m + 1
          <5>1. g[k] = step[m + 1][f[m]] /\ g[k - 1] = f[m] BY <4>2
          <5> QED BY <5>1, <4>2
        <4> QED BY <4>1, <4>2
      <3> QED BY <3>1, <3>2
    <2>7. m + 1 \in 0..n BY <1>2
    <2> HIDE DEF g
    <2> QED BY <2>5, <2>6, <2>7
  <1>3. 0..n \subseteq S
    <2> HIDE DEF S
    <2> QED BY <1>1, <1>2, CountedUp
  <1>4. n \in S BY <1>3
  <1> QED BY <1>4 DEF Took

(* Mandates: the periods of a deputy. *)

Period == [from : Nat, to : Nat]
UpTo(D, s) == {t \in D : Sooner(t, s)}
Rank(D, s) == Cardinality(UpTo(D, s))

LEMMA RanksDiffer ==
    ASSUME NEW D \in SUBSET Period, IsFiniteSet(D), NEW s \in D
    PROVE  /\ Rank(D, s) \in 1..Cardinality(D)
           /\ \A t \in D : s # t /\ Rank(D, s) <= Rank(D, t) => Sooner(s, t) /\ Rank(D, s) < Rank(D, t)
  <1>1. \A t, u \in D : Sooner(t, t) /\ (Sooner(t, u) \/ Sooner(u, t))
                        /\ (Sooner(t, u) /\ Sooner(u, t) => t = u)
    BY DEF Sooner, Period
  <1>2. \A t, u, w \in D : Sooner(t, u) /\ Sooner(u, w) => Sooner(t, w)
    BY DEF Sooner, Period
  <1>3. \A t \in D : IsFiniteSet(UpTo(D, t)) /\ Rank(D, t) \in Nat /\ Rank(D, t) <= Cardinality(D)
    BY FS_Subset, FS_CardinalityType DEF UpTo, Rank
  <1>4. Rank(D, s) >= 1
    <2>1. s \in UpTo(D, s) BY <1>1 DEF UpTo
    <2> QED BY <2>1, <1>3, FS_EmptySet DEF Rank
  <1>5. ASSUME NEW t \in D, NEW u \in D, t # u, Sooner(t, u) PROVE Rank(D, t) < Rank(D, u)
    <2>1. UpTo(D, t) \subseteq UpTo(D, u) BY <1>2, <1>5 DEF UpTo
    <2>2. u \in UpTo(D, u) /\ u \notin UpTo(D, t) BY <1>1, <1>5 DEF UpTo
    <2>3. Rank(D, t) <= Rank(D, u) /\ Rank(D, t) # Rank(D, u)
      BY <2>1, <2>2, <1>3, FS_Subset DEF Rank
    <2> QED BY <2>3, <1>3
  <1>6. Rank(D, s) \in 1..Cardinality(D) BY <1>3, <1>4, FS_CardinalityType
  <1>7. ASSUME NEW t \in D, s # t, Rank(D, s) <= Rank(D, t)
        PROVE  Sooner(s, t) /\ Rank(D, s) < Rank(D, t)
    <2>1. CASE Sooner(s, t) BY <2>1, <1>5, <1>7
    <2>2. CASE Sooner(t, s)
      <3>1. Rank(D, t) < Rank(D, s) BY <2>2, <1>5, <1>7
      <3> QED BY <3>1, <1>3, <1>7
    <2> QED BY <2>1, <2>2, <1>1
  <1> QED BY <1>6, <1>7

\* Each place is that of one row.
LEMMA NthHasRank ==
    ASSUME NEW D \in SUBSET Period, IsFiniteSet(D), NEW k \in 1..Cardinality(D)
    PROVE  Nth(D, k) \in D /\ Rank(D, Nth(D, k)) = k
  <1> DEFINE n == Cardinality(D)
             place == [s \in D |-> Rank(D, s)]
  <1>1. n \in Nat BY FS_CardinalityType
  <1>2. place \in [D -> 1..n] BY RanksDiffer
  <1>3. \A s, t \in D : place[s] = place[t] => s = t
    <2> SUFFICES ASSUME NEW s \in D, NEW t \in D, place[s] = place[t], s # t PROVE FALSE
      OBVIOUS
    <2>1. Rank(D, s) \in 1..n /\ Rank(D, t) \in 1..n /\ Rank(D, s) = Rank(D, t) BY RanksDiffer
    <2>2. Rank(D, s) < Rank(D, t) BY <2>1, RanksDiffer
    <2> QED BY <2>1, <2>2
  <1>4. IsFiniteSet(1..n) /\ Cardinality(1..n) = n BY <1>1, FS_Interval
  <1>5. place \in Surjection(D, 1..n)
    <2> HIDE DEF place, n
    <2>1. place \in Injection(D, 1..n) BY <1>2, <1>3 DEF Injection, IsInjective
    <2> QED BY <2>1, <1>4, FS_Injection DEF n
  <1>6. \E s \in D : Rank(D, s) = k BY <1>5 DEF Surjection
  <1>7. \A s \in D : Rank(D, s) = k <=> Cardinality({t \in D : Sooner(t, s)}) = k BY DEF Rank, UpTo
  <1> QED BY <1>6, <1>7 DEF Nth

LEMMA JoinedIsSeq ==
    ASSUME NEW p \in Seq(Period), NEW s \in Period
    PROVE  JoinedTo(p, s) \in Seq(Period) /\ JoinedTo(p, s) # <<>>
  <1>1. CASE p = <<>> BY <1>1 DEF JoinedTo, Period
  <1>2. CASE p # <<>>
    <2>1. Last(p) \in Period /\ Front(p) \in Seq(Period) /\ Len(p) # 0
      BY <1>2, SubSeqProperties DEF Last, Front
    <2>2. [Last(p) EXCEPT !.to = IF s.to > @ THEN s.to ELSE @] \in Period BY <2>1 DEF Period
    <2>3. [from |-> s.from, to |-> s.to] \in Period BY DEF Period
    <2> QED BY <2>1, <2>2, <2>3, AppendProperties DEF JoinedTo
  <1> QED BY <1>1, <1>2

LEMMA JoiningGoes ==
    ASSUME NEW D \in SUBSET Period, IsFiniteSet(D)
    PROVE  /\ Joining(D) \in [0..Cardinality(D) -> Seq(Period)]
           /\ Joining(D)[0] = <<>>
           /\ \A k \in 1..Cardinality(D) :
                Joining(D)[k] = JoinedTo(Joining(D)[k - 1], Nth(D, k))
  <1> DEFINE n == Cardinality(D)
             step == [k \in 1..n |-> [p \in Seq(Period) |-> JoinedTo(p, Nth(D, k))]]
             Next(f) == [k \in 0..n |-> IF k = 0 THEN <<>> ELSE JoinedTo(f[k - 1], Nth(D, k))]
  <1>1. n \in Nat BY FS_CardinalityType
  <1>2. step \in [1..n -> [Seq(Period) -> Seq(Period)]]
    <2>1. \A k \in 1..n : \A p \in Seq(Period) : JoinedTo(p, Nth(D, k)) \in Seq(Period)
      BY NthHasRank, JoinedIsSeq
    <2> QED BY <2>1
  <1>3. PICK f \in [0..n -> Seq(Period)] :
          f[0] = <<>> /\ \A k \in 1..n : f[k] = step[k][f[k - 1]]
    <2> DEFINE V == Seq(Period)
               v == <<>>
    <2>1. v \in V OBVIOUS
    <2>2. step \in [1..n -> [V -> V]] BY <1>2
    <2> HIDE DEF step, n, v, V
    <2>3. \E f : Took(n, V, v, step, f)
      BY <1>1, <2>1, <2>2, Iterated
    <2> QED BY <2>3 DEF Took, v, V
  <1>4. f = Next(f)
    <2>1. ASSUME NEW k \in 1..n PROVE f[k] = JoinedTo(f[k - 1], Nth(D, k))
      <3>1. k - 1 \in 0..n BY <1>1
      <3>2. f[k - 1] \in Seq(Period) BY <3>1
      <3> QED BY <1>3, <3>2
    <2>2. \A k \in 0..n : k # 0 => k \in 1..n BY <1>1
    <2> HIDE DEF n
    <2> QED BY <1>3, <2>1, <2>2
  <1> DEFINE g == Joining(D)
  <1>5. g = Next(g)
    <2>1. g = CHOOSE h : h = Next(h) BY DEF Joining
    <2> HIDE DEF Next, g
    <2> QED BY <2>1, <1>4
  <1> HIDE DEF g
  <1>6. \A k \in 1..n : g[k] = JoinedTo(g[k - 1], Nth(D, k)) /\ g[0] = <<>>
    BY <1>1, <1>5
  <1>7. \A k \in 0..n : g[k] = f[k]
    <2> DEFINE S == {k \in 0..n : g[k] = f[k]}
    <2>1. 0 \in S BY <1>1, <1>3, <1>6, <1>5
    <2>2. \A k \in 0..n : k \in S /\ k < n => k + 1 \in S
      <3> SUFFICES ASSUME NEW k \in 0..n, g[k] = f[k], k < n PROVE g[k + 1] = f[k + 1] /\ k + 1 \in 0..n
        OBVIOUS
      <3>1. k + 1 \in 1..n /\ (k + 1) - 1 = k BY <1>1
      <3>2. f[k + 1] = JoinedTo(f[k], Nth(D, k + 1)) BY <1>3, <3>1
      <3>3. g[k + 1] = JoinedTo(g[k], Nth(D, k + 1)) BY <1>6, <3>1
      <3> QED BY <3>1, <3>2, <3>3
    <2>3. 0..n \subseteq S
      <3> HIDE DEF S
      <3> QED BY <1>1, <2>1, <2>2, CountedUp
    <2> QED BY <2>3
  <1>8. g = f
    <2>1. g = [k \in 0..n |-> g[k]] BY <1>5
    <2> QED BY <2>1, <1>7
  <1> QED BY <1>8, <1>6, <1>3 DEF g

\* Periods one after the other, with a day at least between two.
InTurn(p) == \A i \in 1..Len(p) : /\ 1 <= p[i].from /\ p[i].from <= p[i].to
                                 /\ \A j \in 1..Len(p) : i < j => p[i].to + 1 < p[j].from
InPeriod(p, d) == p.from <= d /\ d <= p.to
InOne(p, d)    == \E i \in 1..Len(p) : InPeriod(p[i], d)

LEMMA OneMoreRow ==
    ASSUME NEW p \in Seq(Period), InTurn(p), NEW s \in Period, 1 <= s.from, s.from <= s.to,
           p # <<>> => Last(p).from <= s.from
    PROVE  /\ InTurn(JoinedTo(p, s)) /\ Last(JoinedTo(p, s)).from \in {s.from, Last(p).from}
           /\ Last(JoinedTo(p, s)).from # s.from => p # <<>>
           /\ \A d \in Nat : InOne(JoinedTo(p, s), d) <=> InOne(p, d) \/ InPeriod(s, d)
  <1> DEFINE q == JoinedTo(p, s)
             n == Len(p)
             row == [from |-> s.from, to |-> s.to]
             joined == [Last(p) EXCEPT !.to = IF s.to > @ THEN s.to ELSE @]
             fuse == p # <<>> /\ Contiguous(Last(p), s)
  <1>0. row \in Period /\ n \in Nat BY DEF Period
  <1>1. CASE ~fuse
    <2>1. q = Append(p, row) BY <1>1 DEF JoinedTo
    <2>2. /\ Len(q) = n + 1 /\ q[n + 1] = row /\ q # <<>>
          /\ \A i \in 1..n : q[i] = p[i]
      BY <2>1, <1>0, AppendProperties
    <2> HIDE DEF q, fuse
    <2>3. \A i \in 1..n : p[i] \in Period /\ p[i].to + 1 < s.from
      <3> SUFFICES ASSUME NEW i \in 1..n PROVE p[i] \in Period /\ p[i].to + 1 < s.from
        OBVIOUS
      <3>1. p # <<>> /\ n \in 1..n /\ p[n] \in Period /\ p[i] \in Period /\ Last(p) = p[n]
        BY DEF Last
      <3>2. p[n].to + 1 < s.from BY <1>1, <3>1 DEF fuse, Contiguous, Period
      <3>3. i = n \/ i < n OBVIOUS
      <3>4. i < n => p[i].to + 1 < p[n].from /\ p[n].from <= p[n].to BY <3>1 DEF InTurn
      <3> QED BY <3>1, <3>2, <3>3, <3>4 DEF Period
    <2>4. InTurn(q)
      <3> SUFFICES ASSUME NEW i \in 1..(n + 1)
                   PROVE  /\ 1 <= q[i].from /\ q[i].from <= q[i].to
                          /\ \A j \in 1..(n + 1) : i < j => q[i].to + 1 < q[j].from
        BY <2>2 DEF InTurn
      <3>1. i \in 1..n \/ i = n + 1 BY <1>0
      <3>2. CASE i = n + 1 BY <3>2, <2>2, <1>0
      <3>3. CASE i \in 1..n
        <4>1. q[i] = p[i] /\ 1 <= p[i].from /\ p[i].from <= p[i].to BY <3>3, <2>2 DEF InTurn
        <4>2. ASSUME NEW j \in 1..(n + 1), i < j PROVE p[i].to + 1 < q[j].from
          <5>1. j \in 1..n \/ j = n + 1 BY <1>0
          <5>2. CASE j = n + 1 BY <5>2, <2>2, <2>3, <3>3
          <5>3. CASE j \in 1..n BY <5>3, <3>3, <4>2, <2>2 DEF InTurn
          <5> QED BY <5>1, <5>2, <5>3
        <4> QED BY <4>1, <4>2
      <3> QED BY <3>1, <3>2, <3>3
    <2>5. Last(q).from = s.from BY <2>2, <1>0 DEF Last
    <2>6. ASSUME NEW d \in Nat PROVE InOne(q, d) <=> InOne(p, d) \/ InPeriod(s, d)
      <3>1. InPeriod(q[n + 1], d) <=> InPeriod(s, d) BY <2>2 DEF InPeriod
      <3>2. \A i \in 1..(n + 1) : i \in 1..n \/ i = n + 1 BY <1>0
      <3>3. \A i \in 1..n : i \in 1..(n + 1) BY <1>0
      <3>4. n + 1 \in 1..(n + 1) BY <1>0
      <3> QED BY <3>1, <3>2, <3>3, <3>4, <2>2 DEF InOne
    <2> QED BY <2>4, <2>5, <2>6 DEF q
  <1>2. CASE fuse
    <2>1. n >= 1 /\ Last(p) = p[n] /\ p[n] \in Period /\ n \in 1..n BY <1>2 DEF Last
    <2>2. joined \in Period /\ joined.from = p[n].from
          /\ joined.to = (IF s.to > p[n].to THEN s.to ELSE p[n].to)
      BY <2>1 DEF Period
    <2>3. Front(p) \in Seq(Period) /\ Len(Front(p)) = n - 1
          /\ \A i \in 1..(n - 1) : Front(p)[i] = p[i]
      <3>1. \A i \in 1..(n - 1) : p[i] \in Period OBVIOUS
      <3>2. n \in Nat /\ n >= 1 BY <1>0, <2>1
      <3>3. n - 1 \in Int /\ (n - 1) - 1 + 1 = n - 1 /\ (1 <= n - 1 \/ n - 1 = 0)
        <4> HIDE DEF n
        <4> QED BY <3>2
      <3>4. /\ SubSeq(p, 1, n - 1) \in Seq(Period)
            /\ Len(SubSeq(p, 1, n - 1)) = IF 1 <= n - 1 THEN (n - 1) - 1 + 1 ELSE 0
            /\ \A i \in 1..((n - 1) - 1 + 1) : SubSeq(p, 1, n - 1)[i] = p[1 + i - 1]
        BY <3>1, <3>3, SubSeqProperties
      <3>5. Len(SubSeq(p, 1, n - 1)) = n - 1 BY <3>3, <3>4
      <3> QED BY <3>3, <3>4, <3>5 DEF Front
    <2>4. q = Append(Front(p), joined) BY <1>2 DEF JoinedTo
    <2>5. Len(q) = n /\ q[n] = joined /\ \A i \in 1..(n - 1) : q[i] = p[i]
      <3> HIDE DEF q, joined
      <3> QED BY <2>1, <2>2, <2>3, <2>4, AppendProperties
    <2> HIDE DEF q, joined
    <2>6. p[n].from <= s.from /\ s.from <= p[n].to + 1 /\ p[n].from <= p[n].to /\ 1 <= p[n].from
      BY <1>2, <2>1 DEF Contiguous, InTurn
    <2>7. \A i \in 1..n : q[i].from = p[i].from /\ p[i] \in Period
      BY <2>1, <2>2, <2>5
    <2>8. InTurn(q)
      <3> SUFFICES ASSUME NEW i \in 1..n
                   PROVE  /\ 1 <= q[i].from /\ q[i].from <= q[i].to
                          /\ \A j \in 1..n : i < j => q[i].to + 1 < q[j].from
        BY <2>5 DEF InTurn
      <3>1. i \in 1..(n - 1) \/ i = n BY <2>1
      <3>2. CASE i = n BY <3>2, <2>2, <2>5, <2>6, <2>1 DEF Period
      <3>3. CASE i \in 1..(n - 1) BY <3>3, <2>5, <2>7 DEF InTurn
      <3> QED BY <3>1, <3>2, <3>3
    <2>9. Last(q).from = Last(p).from BY <2>1, <2>2, <2>5 DEF Last
    <2>10. ASSUME NEW d \in Nat PROVE InOne(q, d) <=> InOne(p, d) \/ InPeriod(s, d)
      <3>1. InPeriod(q[n], d) <=> InPeriod(p[n], d) \/ InPeriod(s, d)
        BY <2>1, <2>2, <2>5, <2>6 DEF InPeriod, Period
      <3>2. \A i \in 1..n : i \in 1..(n - 1) \/ i = n BY <2>1
      <3>3. \A i \in 1..(n - 1) : i \in 1..n BY <2>1
      <3> QED BY <3>1, <3>2, <3>3, <2>1, <2>5 DEF InOne
    <2> QED BY <1>2, <2>8, <2>9, <2>10 DEF q
  <1> HIDE DEF fuse
  <1> QED BY <1>1, <1>2

\* After k rows, the periods are apart and have the days of these rows.
LEMMA JoiningDays ==
    ASSUME NEW D \in SUBSET Period, IsFiniteSet(D), \A s \in D : 1 <= s.from /\ s.from <= s.to
    PROVE  LET q == Joining(D)[Cardinality(D)]
           IN q \in Seq(Period) /\ InTurn(q)
              /\ \A d \in Nat : InOne(q, d) <=> \E s \in D : InPeriod(s, d)
  <1> DEFINE n == Cardinality(D)
             g == Joining(D)
             Upto(k) == /\ InTurn(g[k])
                        /\ g[k] # <<>> => \E t \in D : Rank(D, t) <= k /\ Last(g[k]).from = t.from
                        /\ \A d \in Nat : InOne(g[k], d) <=>
                             \E s \in D : Rank(D, s) <= k /\ InPeriod(s, d)
             S == {k \in 0..n : Upto(k)}
  <1>1. n \in Nat /\ \A s \in D : Rank(D, s) \in 1..n BY FS_CardinalityType, RanksDiffer
  <1>2. g \in [0..n -> Seq(Period)] /\ g[0] = <<>> /\ \A k \in 1..n : g[k] = JoinedTo(g[k - 1], Nth(D, k))
    BY JoiningGoes
  <1>3. \A k \in 1..n : Nth(D, k) \in D /\ Rank(D, Nth(D, k)) = k BY NthHasRank
  <1> HIDE DEF g, n
  <1>4. 0 \in S
    <2>1. \A s \in D : ~(Rank(D, s) <= 0) BY <1>1
    <2>2. InTurn(<<>>) /\ \A d : ~InOne(<<>>, d) BY DEF InTurn, InOne
    <2> QED BY <1>1, <1>2, <2>1, <2>2
  <1>5. ASSUME NEW k \in 0..n, k \in S, k < n PROVE k + 1 \in S
    <2> DEFINE p == g[k]
               s == Nth(D, k + 1)
    <2>1. k + 1 \in 1..n /\ (k + 1) - 1 = k /\ k + 1 \in 0..n BY <1>1, <1>5
    <2>2. g[k + 1] = JoinedTo(p, s) /\ p \in Seq(Period) BY <1>2, <2>1
    <2>3. s \in D /\ Rank(D, s) = k + 1 /\ s \in Period /\ 1 <= s.from /\ s.from <= s.to BY <1>3, <2>1
    <2>4. Upto(k) BY <1>5
    <2>5. \A t \in D : Rank(D, t) \in Nat /\ (Rank(D, t) <= k + 1 <=> Rank(D, t) <= k \/ t = s)
      <3> SUFFICES ASSUME NEW t \in D
                   PROVE  Rank(D, t) \in Nat /\ (Rank(D, t) <= k + 1 <=> Rank(D, t) <= k \/ t = s)
        OBVIOUS
      <3>1. Rank(D, t) \in Nat BY <1>1
      <3>2. t # s /\ Rank(D, t) <= Rank(D, s) => Rank(D, t) < Rank(D, s) BY <2>3, RanksDiffer
      <3> QED BY <2>3, <3>1, <3>2
    <2>6. \A t \in D : Rank(D, t) <= k => t.from <= s.from
      <3> SUFFICES ASSUME NEW t \in D, Rank(D, t) <= k PROVE t.from <= s.from
        OBVIOUS
      <3>1. t # s /\ Rank(D, t) <= Rank(D, s) BY <2>3, <2>5
      <3>2. Sooner(t, s) BY <2>3, <3>1, RanksDiffer
      <3>3. t \in Period OBVIOUS
      <3> QED BY <2>3, <3>2, <3>3 DEF Sooner, Period
    <2> HIDE DEF p, s
    <2>7. InTurn(p) /\ (p # <<>> => Last(p).from <= s.from) BY <2>4, <2>6 DEF p
    <2>8. /\ InTurn(JoinedTo(p, s)) /\ Last(JoinedTo(p, s)).from \in {s.from, Last(p).from}
          /\ Last(JoinedTo(p, s)).from # s.from => p # <<>>
          /\ \A d \in Nat : InOne(JoinedTo(p, s), d) <=> InOne(p, d) \/ InPeriod(s, d)
      BY <2>2, <2>3, <2>7, OneMoreRow
    <2>9. \E t \in D : Rank(D, t) <= k + 1 /\ Last(g[k + 1]).from = t.from
      <3>1. CASE Last(g[k + 1]).from = s.from BY <2>3, <2>5, <3>1
      <3>2. CASE Last(g[k + 1]).from # s.from
        <4>1. p # <<>> /\ Last(g[k + 1]).from = Last(p).from BY <2>2, <2>8, <3>2
        <4> QED BY <2>4, <2>5, <4>1 DEF p
      <3> QED BY <3>1, <3>2
    <2>10. \A d \in Nat : InOne(g[k + 1], d) <=> \E t \in D : Rank(D, t) <= k + 1 /\ InPeriod(t, d)
      <3> SUFFICES ASSUME NEW d \in Nat
                   PROVE  InOne(g[k + 1], d) <=> \E t \in D : Rank(D, t) <= k + 1 /\ InPeriod(t, d)
        OBVIOUS
      <3>1. InOne(g[k + 1], d) <=> InOne(p, d) \/ InPeriod(s, d) BY <2>2, <2>8
      <3>2. InOne(p, d) <=> \E t \in D : Rank(D, t) <= k /\ InPeriod(t, d) BY <2>4 DEF p
      <3> QED BY <2>3, <2>5, <3>1, <3>2
    <2> QED BY <2>1, <2>2, <2>8, <2>9, <2>10
  <1>6. 0..n \subseteq S
    <2> HIDE DEF S
    <2> QED BY <1>1, <1>4, <1>5, CountedUp
  <1>7. n \in 0..n /\ Upto(n) /\ g[n] \in Seq(Period) BY <1>1, <1>2, <1>6
  <1>8. \A s \in D : Rank(D, s) <= n BY <1>1
  <1> QED BY <1>7, <1>8 DEF g, n

\* The days of service that a list of statuses has, and what its periods are.
Serves(status, d) == \E s \in status : s.kind \in Serving /\ s.from \in 1..d /\ d <= s.to

PeriodsApart(P) ==
    /\ P \subseteq Period
    /\ \A p \in P : 1 <= p.from /\ p.from <= p.to /\ p.to <= OpenEnded
    /\ \A p, q \in P : p # q => p.to + 1 < q.from \/ q.to + 1 < p.from

LEMMA PeriodsAreService ==
    ASSUME NEW status, IsFiniteSet(status), \A s \in status : DaysOf(s)
    PROVE  /\ PeriodsApart(Joined(status))
           /\ \A d \in Nat : (\E p \in Joined(status) : InPeriod(p, d)) <=> Serves(status, d)
  <1> DEFINE D == ServingDays(status)
             row == [s \in Effective(status) |-> [from |-> s.from, to |-> s.to]]
             q == Joining(D)[Cardinality(D)]
  <1>1. \A s \in Effective(status) : /\ s \in status /\ s.from \in Nat /\ s.to \in Nat /\ 1 <= s.from
                                     /\ s.from <= s.to /\ s.to <= OpenEnded /\ s.kind \in Serving
    BY MandatesAssumption DEF Effective, DaysOf
  <1>2. D \in SUBSET Period /\ \A s \in D : 1 <= s.from /\ s.from <= s.to
    BY <1>1 DEF ServingDays, Period
  <1>3. IsFiniteSet(D)
    <2>1. IsFiniteSet(Effective(status)) BY FS_Subset DEF Effective
    <2>2. row \in Surjection(Effective(status), D) BY DEF Surjection, ServingDays
    <2> HIDE DEF D, row
    <2> QED BY <2>1, <2>2, FS_Surjection
  <1>4. /\ q \in Seq(Period) /\ InTurn(q)
        /\ \A d \in Nat : InOne(q, d) <=> \E s \in D : InPeriod(s, d)
    <2> HIDE DEF D
    <2> QED BY <1>2, <1>3, JoiningDays
  <1>5. Joined(status) = {q[i] : i \in 1..Len(q)} BY <1>4 DEF Joined, ToSet
  <1>6. \A d \in Nat : (\E s \in D : InPeriod(s, d)) <=> Serves(status, d)
    <2> SUFFICES ASSUME NEW d \in Nat PROVE (\E s \in D : InPeriod(s, d)) <=> Serves(status, d)
      OBVIOUS
    <2>1. ASSUME NEW s \in D, InPeriod(s, d) PROVE Serves(status, d)
      <3>1. PICK t \in Effective(status) : s = [from |-> t.from, to |-> t.to] BY DEF ServingDays
      <3>2. t.from <= d /\ d <= t.to BY <2>1, <3>1 DEF InPeriod
      <3> QED BY <1>1, <3>2 DEF Serves
    <2>2. ASSUME NEW s \in status, s.kind \in Serving, s.from \in 1..d, d <= s.to
          PROVE  \E t \in D : InPeriod(t, d)
      <3>1. s.to >= s.from /\ s.from # 0 BY <2>2 DEF DaysOf
      <3>2. s \in Effective(status) BY <2>2, <3>1 DEF Effective
      <3>3. [from |-> s.from, to |-> s.to] \in D BY <3>2 DEF ServingDays
      <3>4. InPeriod([from |-> s.from, to |-> s.to], d) BY <2>2 DEF InPeriod
      <3> QED BY <3>3, <3>4
    <2> HIDE DEF D
    <2> QED BY <2>1, <2>2 DEF Serves
  <1> HIDE DEF q, D
  <1>7. \A d \in Nat : (\E p \in Joined(status) : InPeriod(p, d)) <=> Serves(status, d)
    BY <1>4, <1>5, <1>6 DEF InOne
  <1>8. Joined(status) \subseteq Period BY <1>4, <1>5
  <1>9. \A p \in Joined(status) : 1 <= p.from /\ p.from <= p.to BY <1>4, <1>5 DEF InTurn
  <1>10. \A p \in Joined(status) : p.to <= OpenEnded
    <2> SUFFICES ASSUME NEW p \in Joined(status) PROVE p.to <= OpenEnded
      OBVIOUS
    <2>1. p.from \in Nat /\ p.to \in Nat /\ p.from <= p.to BY <1>8, <1>9 DEF Period
    <2>2. Serves(status, p.to) BY <1>7, <2>1 DEF InPeriod
    <2> QED BY <2>1, <2>2, MandatesAssumption DEF Serves, DaysOf
  <1>11. ASSUME NEW p \in Joined(status), NEW r \in Joined(status), p # r
         PROVE  p.to + 1 < r.from \/ r.to + 1 < p.from
    <2>1. PICK i \in 1..Len(q), j \in 1..Len(q) : p = q[i] /\ r = q[j] BY <1>5
    <2>2. i < j \/ j < i BY <2>1, <1>11
    <2> QED BY <1>4, <2>1, <2>2 DEF InTurn
  <1> QED BY <1>7, <1>8, <1>9, <1>10, <1>11 DEF PeriodsApart

-----------------------------------------------------------------------------

Term(d) == term.cut => d \in term.first..term.last

\* Cutting to the legislature keeps periods apart, and the days in it.
LEMMA CutIsService ==
    ASSUME term \in Terms, NEW P, PeriodsApart(P)
    PROVE  LET C == {CutToTerm(p) : p \in {q \in P : q.from <= term.last /\ q.to >= term.first}}
           IN /\ PeriodsApart(C)
              /\ \A d \in Nat : (\E c \in C : InPeriod(c, d)) <=>
                                  (\E p \in P : InPeriod(p, d)) /\ d \in term.first..term.last
  <1> DEFINE In == {q \in P : q.from <= term.last /\ q.to >= term.first}
             C == {CutToTerm(p) : p \in In}
  <1>1. term.first \in Nat /\ term.last \in Nat /\ term.first <= term.last BY MandatesAssumption
  <1>2. \A p \in P : /\ p.from \in Nat /\ p.to \in Nat /\ 1 <= p.from /\ p.from <= p.to
                     /\ p.to <= OpenEnded
    BY DEF PeriodsApart, Period
  <1>3. ASSUME NEW p \in In
        PROVE  /\ CutToTerm(p) \in Period /\ CutToTerm(p).from >= p.from /\ CutToTerm(p).to <= p.to
               /\ CutToTerm(p).from >= term.first /\ CutToTerm(p).to <= term.last
               /\ CutToTerm(p).from \in {p.from, term.first} /\ CutToTerm(p).to \in {p.to, term.last}
    BY <1>1, <1>2 DEF CutToTerm, Period
  <1> HIDE DEF C
  <1>4. PeriodsApart(C)
    <2>1. C \subseteq Period BY <1>3 DEF C
    <2>2. ASSUME NEW c \in C PROVE 1 <= c.from /\ c.from <= c.to /\ c.to <= OpenEnded
      <3>1. PICK p \in In : c = CutToTerm(p) BY DEF C
      <3>2. /\ p.from <= p.to /\ 1 <= p.from /\ p.to <= OpenEnded /\ p.from \in Nat /\ p.to \in Nat
            /\ p.from <= term.last /\ p.to >= term.first
        BY <1>2
      <3>3. c.from \in Nat /\ c.to \in Nat BY <2>1 DEF Period
      <3>4. c.from <= c.to
        BY <1>1, <1>3, <3>1, <3>2
      <3> QED BY <1>1, <1>3, <3>1, <3>2, <3>3, <3>4, MandatesAssumption
    <2>3. ASSUME NEW c \in C, NEW e \in C, c # e PROVE c.to + 1 < e.from \/ e.to + 1 < c.from
      <3>1. PICK p \in In : c = CutToTerm(p) BY DEF C
      <3>2. PICK q \in In : e = CutToTerm(q) BY DEF C
      <3>3. p.to + 1 < q.from \/ q.to + 1 < p.from BY <2>3, <3>1, <3>2 DEF PeriodsApart
      <3>4. c \in Period /\ e \in Period BY <2>1
      <3> QED BY <1>2, <1>3, <3>1, <3>2, <3>3, <3>4 DEF Period
    <2> QED BY <2>1, <2>2, <2>3 DEF PeriodsApart
  <1>5. ASSUME NEW d \in Nat
        PROVE  (\E c \in C : InPeriod(c, d)) <=>
                 (\E p \in P : InPeriod(p, d)) /\ d \in term.first..term.last
    <2>1. ASSUME NEW c \in C, InPeriod(c, d)
          PROVE  (\E p \in P : InPeriod(p, d)) /\ d \in term.first..term.last
      <3>1. PICK p \in In : c = CutToTerm(p) BY DEF C
      <3>2. c \in Period BY <1>3, <3>1
      <3>3. InPeriod(p, d) BY <1>2, <1>3, <2>1, <3>1, <3>2 DEF InPeriod, Period
      <3> QED BY <1>1, <1>3, <2>1, <3>1, <3>2, <3>3 DEF InPeriod, Period
    <2>2. ASSUME NEW p \in P, InPeriod(p, d), d \in term.first..term.last
          PROVE  \E c \in C : InPeriod(c, d)
      <3>1. p \in In BY <1>1, <1>2, <2>2 DEF InPeriod
      <3>2. CutToTerm(p) \in C BY <3>1 DEF C
      <3>3. InPeriod(CutToTerm(p), d) BY <1>1, <1>2, <1>3, <2>2, <3>1 DEF InPeriod, Period
      <3> QED BY <3>2, <3>3
    <2> QED BY <2>1, <2>2
  <1> QED BY <1>4, <1>5 DEF C

LEMMA PeriodsAreWhole ==
    ASSUME term \in Terms, NEW rows, StatusesOf(rows), NEW w
    PROVE  /\ PeriodsApart(PeriodsOf(rows, w))
           /\ \A d \in Nat : (\E p \in PeriodsOf(rows, w) : InPeriod(p, d)) <=>
                               Serves(StatusOf(rows, w), d) /\ Term(d)
  <1> DEFINE status == StatusOf(rows, w)
             P == Joined(status)
  <1>1. \A s \in status : DaysOf(s) BY DEF StatusOf, RowsOf, StatusesOf
  <1>2. IsFiniteSet(status)
    <2> DEFINE lists == {r.status : r \in RowsOf(rows, w)}
               list == [r \in RowsOf(rows, w) |-> r.status]
    <2>1. IsFiniteSet(RowsOf(rows, w)) BY FS_Subset DEF RowsOf, StatusesOf
    <2>2. list \in Surjection(RowsOf(rows, w), lists) BY DEF Surjection
    <2>3. \A l \in lists : IsFiniteSet(l) BY DEF RowsOf, StatusesOf
    <2> HIDE DEF list, lists
    <2>4. IsFiniteSet(lists) BY <2>1, <2>2, FS_Surjection
    <2>5. IsFiniteSet(UNION lists) BY <2>3, <2>4, FS_UNION
    <2> QED BY <2>5 DEF StatusOf, lists
  <1>3. PeriodsApart(P) /\ \A d \in Nat : (\E p \in P : InPeriod(p, d)) <=> Serves(status, d)
    <2> HIDE DEF status
    <2> QED BY <1>1, <1>2, PeriodsAreService
  <1>4. CASE ~term.cut
    <2>1. PeriodsOf(rows, w) = P BY <1>4 DEF PeriodsOf
    <2> QED BY <1>3, <1>4, <2>1 DEF Term
  <1>5. CASE term.cut
    <2> DEFINE C == {CutToTerm(p) : p \in {q \in P : q.from <= term.last /\ q.to >= term.first}}
    <2>1. PeriodsOf(rows, w) = C BY <1>5 DEF PeriodsOf
    <2> HIDE DEF P
    <2>2. /\ PeriodsApart(C)
          /\ \A d \in Nat : (\E c \in C : InPeriod(c, d)) <=>
                              (\E p \in P : InPeriod(p, d)) /\ d \in term.first..term.last
      BY <1>3, CutIsService
    <2> HIDE DEF C
    <2> QED BY <1>3, <1>5, <2>1, <2>2 DEF Term
  <1> QED BY <1>4, <1>5

\* A snapshot has the periods of its rows; after it, the records are of its periods.
Whole(s) == StatusesOf(s.rows) /\ s.periods = [w \in Deputised(s.rows) |-> PeriodsOf(s.rows, w)]

ServiceInv ==
    /\ term \in Terms /\ roster \in Rosters /\ \A s \in fetched : Whole(s)
    /\ lastRoster # NoSnapshot =>
         /\ Whole(lastRoster) /\ Keys(lastRoster) \subseteq DOMAIN record
         /\ \A k \in DOMAIN record : record[k].current <=> k \in Keys(lastRoster)
         /\ \A k \in Keys(lastRoster) : record[k].text.to = EndOf(lastRoster, k)
         /\ \A w \in Cadastros : isCurrent[w] <=> \E k \in Keys(lastRoster) : k[1] = w

LEMMA ServiceStep ==
    ASSUME RowsInv, ServiceInv, [MandatesNext]_mandateVars
    PROVE  ServiceInv'
  <1>1. CASE FetchRoster
    <2>1. PICK day, bios : fetched' = fetched \cup {Snapshot(day, bios)} BY <1>1 DEF FetchRoster
    <2>2. Whole(Snapshot(day, bios))
      BY MandatesAssumption DEF ServiceInv, Snapshot, Whole
    <2>3. UNCHANGED <<term, roster, mandateTables>> BY <1>1 DEF FetchRoster
    <2>4. \A s : Whole(s)' <=> Whole(s) BY <2>3 DEF Whole, PeriodsOf, CutToTerm
    <2> QED BY <2>1, <2>2, <2>3, <2>4 DEF mandateTables, ServiceInv
  <1>2. ASSUME NEW s \in fetched, ApplyRoster(s) PROVE ServiceInv'
    <2>1. /\ fetched' = fetched \ {s} /\ lastRoster' = s /\ UNCHANGED <<term, roster>>
          /\ DOMAIN record' = DOMAIN record \cup Keys(s)
          /\ isCurrent' = [w \in Cadastros |-> \E k \in Keys(s) : k[1] = w]
      BY <1>2 DEF ApplyRoster
    <2>2. \A x : Whole(x)' <=> Whole(x) BY <2>1 DEF Whole, PeriodsOf, CutToTerm
    <2>3. ASSUME NEW k \in Keys(s) PROVE record'[k].current = TRUE /\ record'[k].text.to = EndOf(s, k)
      <3>1. record'[k] = AsRecorded(s, k) BY <1>2, <2>3 DEF ApplyRoster
      <3>2. AsRecorded(s, k).current = TRUE /\ AsRecorded(s, k).text.to = EndOf(s, k)
        BY RecordOfPeriod
      <3> QED BY <3>1, <3>2, Zenon
    <2>4. ASSUME NEW k \in DOMAIN record, k \notin Keys(s) PROVE record'[k].current = FALSE
      <3>1. record'[k] = [record[k] EXCEPT !.current = FALSE] BY <1>2, <2>4 DEF ApplyRoster
      <3>2. "current" \in DOMAIN record[k] BY DEF RowsInv
      <3> QED BY <3>1, <3>2
    <2>5. \A k \in DOMAIN record' : record'[k].current <=> k \in Keys(s) BY <2>1, <2>3, <2>4
    <2>6. /\ Keys(s) \subseteq DOMAIN record'
          /\ \A k \in Keys(s) : record'[k].text.to = EndOf(s, k)
          /\ \A w \in Cadastros : isCurrent'[w] <=> \E k \in Keys(s) : k[1] = w
      BY <2>1, <2>3
    <2> QED BY <2>1, <2>2, <2>5, <2>6 DEF ServiceInv
  <1>3. CASE GiveUpSnapshot \/ PublishRoster \/ UNCHANGED mandateVars
    <2>1. fetched' \subseteq fetched /\ UNCHANGED <<term, mandateTables>> /\ roster' \in {roster} \cup Rosters
      BY <1>3 DEF GiveUpSnapshot, PublishRoster, mandateVars
    <2>2. \A s : Whole(s)' <=> Whole(s) BY <2>1 DEF Whole, PeriodsOf, CutToTerm
    <2> QED BY <2>1, <2>2 DEF mandateTables, ServiceInv
  <1>4. CASE WithdrawMandate
    <2>1. UNCHANGED <<term, roster, fetched, record, isCurrent, lastRoster>> BY <1>4 DEF WithdrawMandate
    <2>2. \A s : Whole(s)' <=> Whole(s) BY <2>1 DEF Whole, PeriodsOf, CutToTerm
    <2> QED BY <2>1, <2>2 DEF ServiceInv
  <1> QED BY <1>1, <1>2, <1>3, <1>4 DEF MandatesNext

\* The current records of a deputy are one for each period.
LEMMA RecordsArePeriods ==
    ASSUME ServiceInv, lastRoster # NoSnapshot, NEW w
    PROVE  \E P : /\ PeriodsApart(P)
                  /\ \A d \in Nat : (\E p \in P : InPeriod(p, d)) <=> ServedOn(w, d)
                  /\ \A k \in CurrentRecords(w) : \E p \in P : k = <<w, p.from>> /\ record[k].text.to = p.to
                  /\ \A p \in P : /\ <<w, p.from>> \in CurrentRecords(w)
                                  /\ record[<<w, p.from>>].text.to = p.to
                  /\ w \in Cadastros => (isCurrent[w] <=> P # {})
  <1> DEFINE rows == lastRoster.rows
             P == PeriodsOf(rows, w)
  <1>1. /\ term \in Terms /\ StatusesOf(rows)
        /\ lastRoster.periods = [v \in Deputised(rows) |-> PeriodsOf(rows, v)]
        /\ Keys(lastRoster) \subseteq DOMAIN record
        /\ \A k \in DOMAIN record : record[k].current <=> k \in Keys(lastRoster)
        /\ \A k \in Keys(lastRoster) : record[k].text.to = EndOf(lastRoster, k)
        /\ w \in Cadastros => (isCurrent[w] <=> \E k \in Keys(lastRoster) : k[1] = w)
    BY DEF ServiceInv, Whole
  <1>2. /\ PeriodsApart(P)
        /\ \A d \in Nat : (\E p \in P : InPeriod(p, d)) <=> Serves(StatusOf(rows, w), d) /\ Term(d)
    <2> HIDE DEF rows
    <2> QED BY <1>1, PeriodsAreWhole
  <1>3. \A d \in Nat : ServedOn(w, d) <=> Serves(StatusOf(rows, w), d) /\ Term(d)
    BY DEF ServedOn, Serves, Term
  <1>4. w \notin Deputised(rows) => P = {}
    <2> SUFFICES ASSUME w \notin Deputised(rows), NEW p \in P PROVE FALSE
      OBVIOUS
    <2>1. StatusOf(rows, w) = {} BY DEF StatusOf, RowsOf, Deputised
    <2>2. p.from \in Nat /\ InPeriod(p, p.from) BY <1>2 DEF PeriodsApart, Period, InPeriod
    <2> QED BY <1>2, <2>1, <2>2 DEF Serves
  <1> HIDE DEF P
  <1>5. \A k : k \in Keys(lastRoster) /\ k[1] = w <=> \E p \in P : k = <<w, p.from>>
    <2>1. ASSUME NEW k \in Keys(lastRoster), k[1] = w PROVE \E p \in P : k = <<w, p.from>>
      <3>1. PICK v \in Deputised(rows) : k \in {<<v, p.from>> : p \in lastRoster.periods[v]}
        BY <1>1, <2>1 DEF Keys
      <3>2. PICK p \in lastRoster.periods[v] : k = <<v, p.from>> BY <3>1
      <3>3. v = w /\ lastRoster.periods[v] = P BY <1>1, <2>1, <3>2 DEF P
      <3> QED BY <3>2, <3>3
    <2>2. ASSUME NEW p \in P PROVE <<w, p.from>> \in Keys(lastRoster)
      BY <1>1, <1>4 DEF Keys, P
    <2> QED BY <2>1, <2>2
  <1>6. ASSUME NEW p \in P PROVE EndOf(lastRoster, <<w, p.from>>) = p.to
    <2>1. lastRoster.periods[w] = P BY <1>1, <1>4 DEF P
    <2>2. \A q \in P : q.from = p.from => q = p BY <1>2 DEF PeriodsApart, Period
    <2> QED BY <2>1, <2>2 DEF EndOf
  <1>7. CurrentRecords(w) = {k \in Keys(lastRoster) : k[1] = w} BY <1>1 DEF CurrentRecords
  <1>8. ASSUME NEW k \in CurrentRecords(w) PROVE \E p \in P : k = <<w, p.from>> /\ record[k].text.to = p.to
    BY <1>1, <1>5, <1>6, <1>7
  <1>9. ASSUME NEW p \in P
        PROVE  <<w, p.from>> \in CurrentRecords(w) /\ record[<<w, p.from>>].text.to = p.to
    BY <1>1, <1>5, <1>6, <1>7
  <1>10. w \in Cadastros => (isCurrent[w] <=> P # {}) BY <1>1, <1>5
  <1> QED BY <1>2, <1>3, <1>8, <1>9, <1>10

LEMMA ServiceIsCovered ==
    ASSUME ServiceInv, lastRoster # NoSnapshot
    PROVE  RecordsCoverService
  <1> SUFFICES ASSUME NEW w \in Cadastros
               PROVE  /\ \A d \in DaysOfTerm :
                           ServedOn(w, d) <=> Cardinality({k \in CurrentRecords(w) : Covers(k, d)}) = 1
                      /\ \A k, l \in CurrentRecords(w) : k # l => l[2] # record[k].text.to + 1
                      /\ isCurrent[w] <=> \E d \in DaysOfTerm : ServedOn(w, d)
    BY DEF RecordsCoverService
  <1>1. PICK P : /\ PeriodsApart(P)
                 /\ \A d \in Nat : (\E p \in P : InPeriod(p, d)) <=> ServedOn(w, d)
                 /\ \A k \in CurrentRecords(w) : \E p \in P : k = <<w, p.from>> /\ record[k].text.to = p.to
                 /\ \A p \in P : /\ <<w, p.from>> \in CurrentRecords(w)
                                 /\ record[<<w, p.from>>].text.to = p.to
                 /\ w \in Cadastros => (isCurrent[w] <=> P # {})
    BY RecordsArePeriods
  <1>2. \A p \in P : /\ p.from \in Nat /\ p.to \in Nat /\ 1 <= p.from /\ p.from <= p.to
                     /\ p.to <= OpenEnded
    BY <1>1 DEF PeriodsApart, Period
  <1>3. ASSUME NEW d \in DaysOfTerm
        PROVE  ServedOn(w, d) <=> Cardinality({k \in CurrentRecords(w) : Covers(k, d)}) = 1
    <2> DEFINE of == {k \in CurrentRecords(w) : Covers(k, d)}
    <2>1. d \in Nat BY MandatesAssumption DEF DaysOfTerm
    <2>2. ASSUME NEW k \in CurrentRecords(w)
          PROVE  \E p \in P : k = <<w, p.from>> /\ (Covers(k, d) <=> InPeriod(p, d))
      <3>1. PICK p \in P : k = <<w, p.from>> /\ record[k].text.to = p.to BY <1>1
      <3> QED BY <3>1 DEF Covers, InPeriod
    <2>3. ASSUME NEW p \in P, InPeriod(p, d) PROVE of = {<<w, p.from>>}
      <3>1. <<w, p.from>> \in of BY <1>1, <2>3 DEF Covers, InPeriod
      <3>2. ASSUME NEW k \in of PROVE k = <<w, p.from>>
        <4>1. PICK q \in P : k = <<w, q.from>> /\ InPeriod(q, d) BY <2>2
        <4>2. q = p BY <1>1, <1>2, <2>1, <2>3, <4>1 DEF PeriodsApart, InPeriod
        <4> QED BY <4>1, <4>2
      <3> QED BY <3>1, <3>2
    <2>4. ASSUME NEW k \in of PROVE \E p \in P : InPeriod(p, d) BY <2>2
    <2> HIDE DEF of
    <2>5. CASE \E p \in P : InPeriod(p, d)
      <3>1. PICK k : of = {k} BY <2>3, <2>5
      <3>2. Cardinality(of) = 1 BY <3>1, FS_Singleton
      <3> QED BY <1>1, <2>1, <2>5, <3>2 DEF of
    <2>6. CASE ~\E p \in P : InPeriod(p, d)
      <3>1. of = {} BY <2>4, <2>6
      <3>2. Cardinality(of) = 0 BY <3>1, FS_EmptySet
      <3> QED BY <1>1, <2>1, <2>6, <3>2 DEF of
    <2> QED BY <2>5, <2>6
  <1>4. ASSUME NEW k \in CurrentRecords(w), NEW l \in CurrentRecords(w), k # l
        PROVE  l[2] # record[k].text.to + 1
    <2>1. PICK p \in P : k = <<w, p.from>> /\ record[k].text.to = p.to BY <1>1
    <2>2. PICK q \in P : l = <<w, q.from>> BY <1>1
    <2>3. p # q BY <1>4, <2>1, <2>2
    <2>4. q.from # p.to + 1 BY <1>1, <1>2, <2>3 DEF PeriodsApart
    <2> QED BY <2>1, <2>2, <2>4
  <1>5. isCurrent[w] <=> \E d \in DaysOfTerm : ServedOn(w, d)
    <2>1. ASSUME NEW p \in P PROVE \E d \in DaysOfTerm : ServedOn(w, d)
      <3>1. InPeriod(p, p.from) /\ p.from \in DaysOfTerm
        BY <1>2, MandatesAssumption DEF InPeriod, DaysOfTerm
      <3> QED BY <1>1, <1>2, <3>1
    <2>2. ASSUME NEW d \in DaysOfTerm, ServedOn(w, d) PROVE P # {}
      BY <1>1, <2>2, MandatesAssumption DEF DaysOfTerm
    <2> QED BY <1>1, <2>1, <2>2
  <1> QED BY <1>3, <1>4, <1>5

LEMMA ServiceStart == MandatesInit => ServiceInv
  BY DEF MandatesInit, ServiceInv

\* The records of a legislature cover exactly the days its deputies serve, and its claims follow.
LEMMA MandatesStayTrue == MandatesSpec => []MandatesFollowRoster
  <1>1. MandatesInit => ServiceInv BY ServiceStart
  <1>2. MandatesInv /\ ServiceInv /\ [MandatesNext]_mandateVars => ServiceInv'
    BY ServiceStep DEF MandatesInv
  <1>3. MandatesInv /\ ServiceInv => MandatesFollowRoster
    BY ServiceIsCovered DEF MandatesInv, MandatesFollowRoster
  <1> QED BY <1>1, <1>2, <1>3, MandatesInvariance, PTL DEF MandatesSpec

-----------------------------------------------------------------------------
(* ParliamentBodies *)

LEMMA LeastOfAny ==
    ASSUME NEW T \in SUBSET Nat, T # {}
    PROVE  \E m \in T : \A t \in T : m <= t
  <1>1. PICK n : n \in T OBVIOUS
  <1> DEFINE low == {t \in T : t <= n}
  <1>2. low \in SUBSET (0..n) /\ n \in low /\ n \in Nat
    <2>1. n \in Nat /\ \A t \in T : t \in Nat BY <1>1
    <2>2. n \in low BY <1>1, <2>1
    <2>3. \A t \in low : t \in 0..n BY <2>1
    <2> HIDE DEF low
    <2> QED BY <2>1, <2>2, <2>3
  <1>3. IsFiniteSet(0..n) BY <1>2, FS_Interval
  <1>4. IsFiniteSet(low) BY <1>2, <1>3, FS_Subset
  <1>5. low \in SUBSET Nat OBVIOUS
  <1>6. PICK m \in low : \A t \in low : m <= t
    <2> HIDE DEF low
    <2> QED BY <1>2, <1>4, <1>5, LeastExists
  <1>7. ASSUME NEW t \in T PROVE m <= t
    <2>1. t \in Nat /\ m \in Nat /\ m <= n BY <1>6
    <2>2. t <= n => m <= t BY <1>6
    <2> QED BY <1>2, <2>1, <2>2
  <1> QED BY <1>6, <1>7
\* Files as published, and the rosters that tell who a delegate is: the nearest ones.
FilesHold(f) ==
    /\ DOMAIN f = {"rows", "organs", "links", "friends", "delegations"}
    /\ StatusesOf(f.rows) /\ \A r \in f.rows : r.dep # NoDep /\ \A g \in r.groups : DaysOf(g)
    /\ IsFiniteSet(f.organs) /\ \A l \in f.links : l.child # NoNumberGiven

WhoIsWho(f, who, read) ==
    /\ ThisOne \in read /\ read \subseteq Legislatures
    /\ \A l \in read : \A k \in Legislatures : Distance(k) < Distance(l) => k \in read
    /\ DOMAIN who = UNION {DOMAIN RosterRead(f, l) : l \in read}
    /\ \A l \in read : \A d \in DOMAIN RosterRead(f, l) : who[d] = RosterRead(f, l)[d]

Wanted(f) == {r.dep : r \in UNION {d.rows : d \in f.delegations}} \ {NoDep}

GatheredInv ==
    /\ assembly \in AssemblyFiles /\ FilesHold(gathered)
    /\ HasDelegations /\ gathering = "others" => WhoIsWho(gathered, deputiesKnown, rostersRead)
    /\ ~HasDelegations => gathering # "delegations" /\ gathered.delegations = {}

OrgansInv ==
    /\ GatheredInv /\ term \in Terms
    /\ lastGathered # NeverGathered =>
         LET f == lastGathered.files IN
         /\ FilesHold(f) /\ memberships = MembershipClaims(f, lastGathered.deputies)
         /\ structureOfOrgans = StructureClaims(f, memberships) /\ Buildable(f, memberships)
         /\ \/ f.delegations = {}
            \/ \E read : /\ WhoIsWho(f, lastGathered.deputies, read)
                         /\ Wanted(f) \subseteq DOMAIN lastGathered.deputies \/ read = Legislatures

LEMMA NothingHolds == FilesHold(NothingGathered)
  <1>1. IsFiniteSet({}) BY FS_EmptySet
  <1> QED BY <1>1 DEF FilesHold, NothingGathered, StatusesOf

\* One more roster, the nearest of those left.
LEMMA RosterStep ==
    ASSUME GatheredInv, ReadOtherRoster
    PROVE  WhoIsWho(gathered, deputiesKnown', rostersRead') /\ HasDelegations
  <1> DEFINE near == NearestRoster
             left == Legislatures \ rostersRead
  <1>0. HasDelegations
    <2> SUFFICES ASSUME ~HasDelegations PROVE FALSE
      OBVIOUS
    <2>1. WantedDeps = {} BY DEF GatheredInv, WantedDeps
    <2> QED BY <2>1 DEF ReadOtherRoster, NeedsRoster
  <1>1. /\ WhoIsWho(gathered, deputiesKnown, rostersRead) /\ rostersRead # Legislatures
        /\ Compatible(deputiesKnown, RosterOf[near]) /\ rostersRead' = rostersRead \cup {near}
        /\ deputiesKnown' = [d \in DOMAIN deputiesKnown \cup DOMAIN RosterOf[near] |->
                               IF d \in DOMAIN deputiesKnown THEN deputiesKnown[d] ELSE RosterOf[near][d]]
    BY <1>0 DEF ReadOtherRoster, NeedsRoster, GatheredInv
  <1>2. left # {} /\ left \subseteq Nat /\ ThisOne \in Nat BY <1>1, BodiesFilesAssumption DEF WhoIsWho
  <1>3. \A l \in left : Distance(l) \in Nat BY <1>2 DEF Distance
  <1>4. near \in left /\ \A k \in left : Distance(near) <= Distance(k)
    <2> DEFINE away == {Distance(l) : l \in left}
    <2>1. away \subseteq Nat /\ away # {} BY <1>2, <1>3
    <2>2. \E m \in away : \A n \in away : m <= n
      <3> HIDE DEF away
      <3> QED BY <2>1, LeastOfAny
    <2>3. \E l \in left : \A k \in left : Distance(l) <= Distance(k) BY <2>2
    <2> QED BY <2>3 DEF NearestRoster
  <1> HIDE DEF near
  <1>5. near # ThisOne /\ RosterRead(gathered, near) = RosterOf[near] BY <1>1, <1>4 DEF RosterRead, WhoIsWho
  <1>6. \A l \in rostersRead' : \A k \in Legislatures : Distance(k) < Distance(l) => k \in rostersRead'
    <2> SUFFICES ASSUME NEW k \in Legislatures, Distance(k) < Distance(near), k \in left PROVE FALSE
      BY <1>1 DEF WhoIsWho
    <2> QED BY <1>3, <1>4
  <1>7. DOMAIN deputiesKnown' = UNION {DOMAIN RosterRead(gathered, l) : l \in rostersRead'}
    BY <1>1, <1>5 DEF WhoIsWho
  <1>8. ASSUME NEW l \in rostersRead', NEW d \in DOMAIN RosterRead(gathered, l)
        PROVE  deputiesKnown'[d] = RosterRead(gathered, l)[d]
    <2>1. CASE l \in rostersRead BY <1>1, <2>1 DEF WhoIsWho
    <2>2. CASE l = near
      <3>1. d \in DOMAIN RosterOf[near] BY <1>5, <2>2
      <3>2. CASE d \in DOMAIN deputiesKnown BY <1>1, <1>5, <2>2, <3>1, <3>2 DEF Compatible
      <3>3. CASE d \notin DOMAIN deputiesKnown BY <1>1, <1>5, <2>2, <3>1, <3>3
      <3> QED BY <3>2, <3>3
    <2> QED BY <1>1, <2>1, <2>2
  <1> QED BY <1>0, <1>1, <1>4, <1>6, <1>7, <1>8 DEF WhoIsWho

\* What is applied depends on the files and the term of the legislature only.
LEMMA ClaimsOfTerm ==
    ASSUME UNCHANGED term, NEW f, NEW who
    PROVE  MembershipClaims(f, who)' = MembershipClaims(f, who)
  <1>1. GroupClaims(f)' = GroupClaims(f) BY DEF GroupClaims, GroupEnd, Placeholder, Clipped
  <1> QED BY <1>1 DEF MembershipClaims

LEMMA OrgansStep ==
    ASSUME OrgansInv, [OrgansNext /\ UNCHANGED term]_<<organVars, term>>
    PROVE  OrgansInv'
  <1>0. UNCHANGED term => \A f, who : MembershipClaims(f, who)' = MembershipClaims(f, who)
    BY ClaimsOfTerm
  <1>1. CASE StartGathering
    <2>1. /\ gathered' = [NothingGathered EXCEPT !.rows = assembly.rows] /\ gathering' = "bodies"
          /\ UNCHANGED <<assembly, organTables, term>>
      BY <1>1 DEF StartGathering, organVars
    <2>2. FilesHold(gathered')
      <3>1. FilesHold(NothingGathered) BY NothingHolds
      <3>2. assembly \in AssemblyFiles BY DEF OrgansInv, GatheredInv
      <3> QED BY <2>1, <3>1, <3>2, BodiesFilesAssumption DEF FilesHold, NothingGathered
    <2>3. gathered'.delegations = {} BY <2>1 DEF NothingGathered
    <2> QED BY <1>0, <2>1, <2>2, <2>3 DEF OrgansInv, GatheredInv, organTables, HasDelegations
  <1>2. CASE ReadFile
    <2>1. UNCHANGED <<assembly, organTables, term>> BY <1>2 DEF ReadFile, organVars
    <2>2. FilesHold(gathered')
      <3>1. assembly \in AssemblyFiles /\ FilesHold(gathered) BY DEF OrgansInv, GatheredInv
      <3>2. gathering \in {"bodies", "activity", "delegations"} BY <1>2 DEF ReadFile, NextFile
      <3>3. gathered' \in {[gathered EXCEPT !.organs = assembly.organs],
                           [gathered EXCEPT !.links = assembly.links, !.friends = assembly.friends],
                           [gathered EXCEPT !.delegations = assembly.delegations]}
        BY <1>2, <3>2 DEF ReadFile
      <3> QED BY <3>1, <3>3, BodiesFilesAssumption DEF FilesHold
    <2>0. /\ NextFile["bodies"] = "activity" /\ NextFile["delegations"] = "others"
          /\ HasDelegations => NextFile["activity"] = "delegations"
          /\ ~HasDelegations => NextFile["activity"] = "others"
          /\ DOMAIN NextFile = {"bodies", "activity", "delegations"}
      BY DEF NextFile
    <2>3. ASSUME HasDelegations, gathering' = "others"
          PROVE  WhoIsWho(gathered', deputiesKnown', rostersRead')
      <3>1. gathering = "delegations" BY <1>2, <2>0, <2>3 DEF ReadFile
      <3>2. /\ deputiesKnown' = DepMap(gathered.rows) /\ rostersRead' = {ThisOne}
            /\ gathered' = [gathered EXCEPT !.delegations = assembly.delegations]
        BY <1>2, <3>1 DEF ReadFile
      <3>3. gathered'.rows = gathered.rows BY <3>2 DEF OrgansInv, GatheredInv, FilesHold
      <3>4. RosterRead(gathered', ThisOne) = deputiesKnown' BY <3>2, <3>3 DEF RosterRead
      <3>5. ~\E k \in Legislatures : Distance(k) < Distance(ThisOne)
        BY BodiesFilesAssumption DEF Distance
      <3> QED BY <3>2, <3>4, <3>5, BodiesFilesAssumption DEF WhoIsWho
    <2>4. ASSUME ~HasDelegations
          PROVE  gathering' # "delegations" /\ gathered'.delegations = gathered.delegations
      <3>1. /\ gathering \in {"bodies", "activity"} /\ gathering' = NextFile[gathering]
        BY <1>2, <2>0, <2>4 DEF ReadFile, OrgansInv, GatheredInv
      <3>2. gathered' \in {[gathered EXCEPT !.organs = assembly.organs],
                           [gathered EXCEPT !.links = assembly.links, !.friends = assembly.friends]}
        BY <1>2, <3>1 DEF ReadFile
      <3>3. gathered'.delegations = gathered.delegations
        BY <3>2 DEF OrgansInv, GatheredInv, FilesHold
      <3> QED BY <2>0, <2>4, <3>1, <3>3
    <2>5. GatheredInv' BY <2>1, <2>2, <2>3, <2>4 DEF OrgansInv, GatheredInv, HasDelegations
    <2> QED BY <1>0, <2>1, <2>5 DEF OrgansInv, organTables
  <1>3. CASE ReadOtherRoster
    <2>1. UNCHANGED <<assembly, gathering, gathered, organTables, term>> BY <1>3 DEF ReadOtherRoster, organVars
    <2>2. WhoIsWho(gathered, deputiesKnown', rostersRead') /\ HasDelegations
      BY <1>3, RosterStep DEF OrgansInv
    <2>3. GatheredInv' BY <2>1, <2>2 DEF OrgansInv, GatheredInv, HasDelegations
    <2> QED BY <1>0, <2>1, <2>3 DEF OrgansInv, organTables
  <1>4. CASE ApplyOrgans
    <2>1. /\ gathering = "others" /\ ~NeedsRoster /\ UNCHANGED <<assembly, term>>
          /\ memberships' = MembershipClaims(gathered, deputiesKnown)
          /\ Buildable(gathered, memberships')
          /\ structureOfOrgans' = StructureClaims(gathered, memberships')
          /\ lastGathered' = [files |-> gathered, deputies |-> deputiesKnown]
          /\ gathering' = "idle" /\ gathered' = NothingGathered
      BY <1>4 DEF ApplyOrgans, organVars
    <2>2. Wanted(gathered) \subseteq DOMAIN deputiesKnown \/ rostersRead = Legislatures
      BY <2>1 DEF NeedsRoster, WantedDeps, Wanted
    <2>3. /\ FilesHold(gathered)
          /\ WhoIsWho(gathered, deputiesKnown, rostersRead) \/ gathered.delegations = {}
      BY <2>1 DEF OrgansInv, GatheredInv
    <2>4. FilesHold(gathered') BY <2>1, NothingHolds
    <2>5. lastGathered'.files = gathered /\ lastGathered'.deputies = deputiesKnown BY <2>1
    <2>6. GatheredInv'
      <3>1. gathered'.delegations = {} BY <2>1 DEF NothingGathered
      <3> QED BY <2>1, <2>4, <3>1 DEF OrgansInv, GatheredInv, HasDelegations
    <2> QED BY <1>0, <2>1, <2>2, <2>3, <2>5, <2>6 DEF OrgansInv
  <1>5. CASE RefuseOrgans
    <2>1. /\ gathering' = "idle" /\ gathered' = NothingGathered
          /\ UNCHANGED <<assembly, organTables, term>>
      BY <1>5 DEF RefuseOrgans, organVars
    <2>2. gathered'.delegations = {} BY <2>1 DEF NothingGathered
    <2> QED BY <1>0, <2>1, <2>2, NothingHolds DEF OrgansInv, GatheredInv, organTables, HasDelegations
  <1>6. CASE ReleaseFiles
    <2>1. assembly' \in AssemblyFiles /\ UNCHANGED <<gatherVars, organTables, term>>
      BY <1>6 DEF ReleaseFiles, organVars
    <2> QED BY <1>0, <2>1 DEF OrgansInv, GatheredInv, gatherVars, organTables, HasDelegations
  <1>7. CASE UNCHANGED <<organVars, term>>
    BY <1>0, <1>7 DEF OrgansInv, GatheredInv, organVars, gatherVars, organTables, HasDelegations
  <1> QED BY <1>1, <1>2, <1>3, <1>4, <1>5, <1>6, <1>7 DEF OrgansNext

\* The claims of groups: of a row, a group of it and a period of it.
Sitting(f, g, p) == [from |-> Later(g.from, p.from), to |-> Earlier(GroupEnd(f.rows, g), p.to)]
GroupClaim(f, r, g, p, q) ==
    Membership(<<"group", g.group>>, Deputy(r.who), "gp", "deputy", q,
               <<g.from, GroupEnd(f.rows, g), p.from, p.to>>)
SatAs(f, c, r, g, p) == /\ g.group # NoGroup /\ g.from # 0 /\ GroupEnd(f.rows, g) >= g.from
                        /\ \E q \in Clipped(Sitting(f, g, p)) : c = GroupClaim(f, r, g, p, q)

LEMMA GroupClaimsAre ==
    ASSUME NEW f, NEW c
    PROVE  c \in GroupClaims(f) <=>
             \E r \in f.rows : \E g \in r.groups : \E p \in Joined(r.status) : SatAs(f, c, r, g, p)
  <1> DEFINE X == {y \in GroupRows(f.rows) \X UNION {Joined(r.status) : r \in f.rows} :
                     /\ y[2] \in Joined(y[1][1].status) /\ y[1][2].group # NoGroup
                     /\ y[1][2].from # 0
                     /\ GroupEnd(f.rows, y[1][2]) >= y[1][2].from}
             of(x) == {GroupClaim(f, x[1][1], x[1][2], x[2], q) : q \in Clipped(Sitting(f, x[1][2], x[2]))}
  <1>1. GroupClaims(f) = UNION {of(x) : x \in X}
    BY DEF GroupClaims, GroupClaim, Sitting
  <1>2. ASSUME NEW r \in f.rows, NEW g \in r.groups, NEW p \in Joined(r.status), SatAs(f, c, r, g, p)
        PROVE  \E x \in X : c \in of(x)
    <2>1. <<r, g>> \in GroupRows(f.rows) BY DEF GroupRows
    <2>2. <<<<r, g>>, p>> \in X BY <1>2, <2>1 DEF SatAs
    <2>3. c \in of(<<<<r, g>>, p>>) BY <1>2 DEF SatAs
    <2> HIDE DEF X, of
    <2> QED BY <2>2, <2>3
  <1>3. ASSUME NEW x \in X, c \in of(x)
        PROVE  \E r \in f.rows : \E g \in r.groups : \E p \in Joined(r.status) : SatAs(f, c, r, g, p)
    <2>1. PICK r \in f.rows : \E g \in r.groups : x[1] = <<r, g>> BY DEF GroupRows
    <2>2. PICK g \in r.groups : x[1] = <<r, g>> BY <2>1
    <2>3. x[2] \in Joined(r.status) BY <2>2
    <2>4. SatAs(f, c, r, g, x[2]) BY <1>3, <2>2 DEF SatAs
    <2> QED BY <2>3, <2>4
  <1> HIDE DEF X, of
  <1> QED BY <1>1, <1>2, <1>3

LEMMA OrgansOfClaims ==
    ASSUME NEW f, NEW c
    PROVE  /\ c \in GroupClaims(f) => c.organ[1] = "group"
           /\ c \in FriendClaims(f) => c.organ[1] = "friends"
           /\ c \in OrganClaims(f) => c.organ[1] = "organ"
           /\ \A who : c \in DelegationClaims(f, who) => c.organ[1] = "delegation"
  <1>1. \A organ, person, facet, role, p, says :
          Membership(organ, person, facet, role, p, says).organ = organ
    BY DEF Membership
  <1>0. \A kind, name : c.organ = <<kind, name>> => c.organ[1] = kind
    OBVIOUS
  <1>2. c \in GroupClaims(f) => c.organ[1] = "group"
    <2>1. \A r, g, p, q : GroupClaim(f, r, g, p, q).organ = <<"group", g.group>> BY <1>1 DEF GroupClaim
    <2> SUFFICES ASSUME c \in GroupClaims(f) PROVE c.organ[1] = "group"
      OBVIOUS
    <2>2. PICK r \in f.rows : \E g \in r.groups : \E p \in Joined(r.status) : SatAs(f, c, r, g, p)
      BY GroupClaimsAre
    <2>3. PICK g \in r.groups : \E p \in Joined(r.status) : SatAs(f, c, r, g, p) BY <2>2
    <2>4. PICK p \in Joined(r.status) : SatAs(f, c, r, g, p) BY <2>3
    <2>5. PICK q \in Clipped(Sitting(f, g, p)) : c = GroupClaim(f, r, g, p, q) BY <2>4 DEF SatAs
    <2>6. c.organ = <<"group", g.group>> BY <2>1, <2>5
    <2> QED BY <2>6, <1>0
  <1>3. c \in FriendClaims(f) => c.organ[1] = "friends"
    <2> SUFFICES ASSUME c \in FriendClaims(f) PROVE c.organ[1] = "friends"
      OBVIOUS
    <2>1. PICK x \in f.friends : c = Membership(<<"friends", x.group>>, Deputy(x.who), "gpa", x.role, x,
                                                <<0, 0, x.from, x.to>>)
      BY DEF FriendClaims
    <2>2. c.organ = <<"friends", x.group>> BY <2>1, <1>1
    <2> QED BY <2>2, <1>0
  <1>4. c \in OrganClaims(f) => c.organ[1] = "organ"
    <2> SUFFICES ASSUME c \in OrganClaims(f) PROVE c.organ[1] = "organ"
      OBVIOUS
    <2>2. PICK o \in f.organs : c \in UNION {PostsHeld(o, m) : m \in o.members} BY DEF OrganClaims
    <2>3. PICK m \in o.members : c \in PostsHeld(o, m) BY <2>2
    <2>1. PICK e \in m.entries : c = Membership(<<"organ", o.id>>, Member(o, m), e.facet, e.role, e,
                                                <<0, 0, e.from, e.to>>)
      BY <2>3 DEF PostsHeld
    <2>4. c.organ = <<"organ", o.id>> BY <2>1, <1>1
    <2> QED BY <2>4, <1>0
  <1>5. ASSUME NEW who, c \in DelegationClaims(f, who) PROVE c.organ[1] = "delegation"
    <2>1. PICK d \in f.delegations : \E row \in d.rows : \E says : 
            c = Membership(<<"delegation", d.id>>, Delegate(d, row, who), "delegacao", row.role, row, says)
      BY <1>5 DEF DelegationClaims
    <2>2. c.organ = <<"delegation", d.id>> BY <2>1, <1>1
    <2> QED BY <2>2, <1>0
  <1> QED BY <1>2, <1>3, <1>4, <1>5

\* Who is who in a delegation.
LEMMA DelegatesHold ==
    ASSUME OrgansInv, lastGathered # NeverGathered
    PROVE  DelegatesAreKnown
  <1> DEFINE f == lastGathered.files
             who == lastGathered.deputies
             knowing(dep) == {l \in Legislatures : dep \in DOMAIN RosterRead(f, l)}
             claims(d, row) ==
               {c \in memberships : /\ c.organ = <<"delegation", d.id>> /\ c.role = row.role
                                    /\ c.from = row.from /\ c.to = row.to
                                    /\ row.dep \in c.says \/ row.dep = NoDep}
  <1>1. /\ FilesHold(f) /\ memberships = MembershipClaims(f, who) /\ Buildable(f, memberships)
        /\ \/ f.delegations = {}
           \/ \E read : /\ WhoIsWho(f, who, read)
                        /\ Wanted(f) \subseteq DOMAIN who \/ read = Legislatures
    BY DEF OrgansInv
  <1> SUFFICES ASSUME NEW d \in f.delegations, NEW row \in d.rows, Valid(row)
               PROVE  /\ claims(d, row) # {}
                      /\ row.dep # NoDep => Cardinality(claims(d, row)) = 1
                      /\ \A l \in knowing(row.dep) :
                           (\A k \in knowing(row.dep) : Distance(l) <= Distance(k)) =>
                             \A c \in claims(d, row) : c.person = Deputy(RosterRead(f, l)[row.dep])
    BY DEF DelegatesAreKnown
  <1> DEFINE told(e, r) == {q \in e.rows : /\ Delegate(e, q, who) = Delegate(e, r, who)
                                           /\ q.role = r.role /\ q.from = r.from /\ q.to = r.to}
             says(e, r) == {q.dep : q \in told(e, r)} \ {NoDep}
             claim0(e, r) == Membership(<<"delegation", e.id>>, Delegate(e, r, who), "delegacao", r.role,
                                       r, says(e, r))
             of(e) == {claim0(e, r) : r \in {x \in e.rows : Valid(x)}}
  <1> HIDE DEF f, who
  <1>9. DelegationClaims(f, who) = UNION {of(e) : e \in f.delegations} BY DEF DelegationClaims
  <1>2. \A e \in f.delegations : \A r \in e.rows : Valid(r) => claim0(e, r) \in memberships
    <2> SUFFICES ASSUME NEW e \in f.delegations, NEW r \in e.rows, Valid(r)
                 PROVE  claim0(e, r) \in DelegationClaims(f, who)
      BY <1>1 DEF MembershipClaims
    <2>1. claim0(e, r) \in of(e) OBVIOUS
    <2> HIDE DEF of, claim0
    <2> QED BY <1>9, <2>1
  <1>3. \A e, r : LET c == claim0(e, r)
                  IN /\ c.organ = <<"delegation", e.id>> /\ c.person = Delegate(e, r, who)
                     /\ c.facet = "delegacao" /\ c.role = r.role /\ c.from = r.from /\ c.to = r.to
                     /\ c.says = says(e, r)
    <2> HIDE DEF says
    <2> QED BY DEF Membership
  <1>4. ASSUME NEW c \in memberships, c.organ = <<"delegation", d.id>>
        PROVE  \E e \in f.delegations : \E r \in e.rows : c = claim0(e, r)
    <2>1. c \in DelegationClaims(f, who)
      <3>1. c.organ[1] = "delegation" BY <1>4
      <3> QED BY <1>1, <3>1, OrgansOfClaims DEF MembershipClaims
    <2>2. PICK e \in f.delegations : c \in of(e)
      <3> HIDE DEF of
      <3> QED BY <2>1, <1>9
    <2>3. \E r \in e.rows : c = claim0(e, r) BY <2>2
    <2> QED BY <2>3
  <1> HIDE DEF claim0, says, told, of
  <1>5. claim0(d, row) \in claims(d, row)
    <2>1. row \in told(d, row) BY DEF told
    <2>2. row.dep \in says(d, row) \/ row.dep = NoDep BY <2>1 DEF says
    <2> QED BY <1>2, <1>3, <2>2
  <1>6. ASSUME row.dep # NoDep, NEW c \in claims(d, row) PROVE c = claim0(d, row)
    <2>1. PICK e \in f.delegations : \E r \in e.rows : c = claim0(e, r) BY <1>4
    <2>2. PICK r \in e.rows : c = claim0(e, r) BY <2>1
    <2>3. /\ row.dep \in says(e, r) /\ e.id = d.id /\ r.role = row.role /\ r.from = row.from /\ r.to = row.to
          /\ c.person = Delegate(e, r, who)
      BY <1>3, <1>6, <2>2
    <2>4. PICK q \in e.rows : q.dep = row.dep /\ Delegate(e, q, who) = Delegate(e, r, who)
      BY <2>3 DEF says, told
    <2>5. Delegate(e, q, who) = Delegate(d, row, who) BY <1>6, <2>3, <2>4 DEF Delegate
    <2>6. SameKey(c, claim0(d, row)) BY <1>3, <2>2, <2>3, <2>4, <2>5 DEF SameKey
    <2> QED BY <1>1, <1>2, <2>6 DEF Buildable
  <1>7. row.dep # NoDep => Cardinality(claims(d, row)) = 1
    <2> SUFFICES ASSUME row.dep # NoDep PROVE Cardinality(claims(d, row)) = 1
      OBVIOUS
    <2>1. claims(d, row) = {claim0(d, row)}
      <3> HIDE DEF claims
      <3> QED BY <1>5, <1>6
    <2> HIDE DEF claims
    <2> QED BY <2>1, FS_Singleton
  <1>8. ASSUME NEW l \in knowing(row.dep), \A k \in knowing(row.dep) : Distance(l) <= Distance(k),
               NEW c \in claims(d, row)
        PROVE  c.person = Deputy(RosterRead(f, l)[row.dep])
    <2>1. row.dep # NoDep
      <3>1. NoDep \notin DOMAIN RosterRead(f, l)
        BY <1>1, BodiesFilesAssumption DEF RosterRead, FilesHold, DepMap
      <3> QED BY <3>1
    <2>2. c.person = Delegate(d, row, who) BY <1>3, <1>6, <1>8, <2>1
    <2>3. PICK read : /\ WhoIsWho(f, who, read)
                      /\ Wanted(f) \subseteq DOMAIN who \/ read = Legislatures
      BY <1>1
    <2>4. row.dep \in Wanted(f) BY <2>1 DEF Wanted
    <2>5. row.dep \in DOMAIN who BY <2>3, <2>4 DEF WhoIsWho
    <2>6. PICK k \in read : row.dep \in DOMAIN RosterRead(f, k) BY <2>3, <2>5 DEF WhoIsWho
    <2>7. k \in Legislatures /\ l \in Legislatures /\ Legislatures \subseteq Nat /\ ThisOne \in Nat
      BY <2>3, BodiesFilesAssumption DEF WhoIsWho
    <2>8. Distance(l) <= Distance(k) BY <1>8, <2>6, <2>7
    <2>9. Distance(l) < Distance(k) \/ l = k BY <2>7, <2>8 DEF Distance
    <2>10. l \in read BY <2>3, <2>7, <2>9 DEF WhoIsWho
    <2>11. who[row.dep] = RosterRead(f, l)[row.dep] BY <2>3, <2>10 DEF WhoIsWho
    <2> QED BY <2>2, <2>5, <2>11 DEF Delegate
  <1> HIDE DEF claims, knowing
  <1> QED BY <1>5, <1>7, <1>8

LEMMA OrgansStart == OrgansInit /\ term \in Terms => OrgansInv
  BY NothingHolds DEF OrgansInit, OrgansInv, GatheredInv, NothingGathered

\* A day within the legislature stays what it is when a membership is clipped to it.
LEMMA ClippedKeepsDays ==
    ASSUME NEW p, p.from \in Nat, p.to \in Nat, term \in Terms,
           NEW d \in term.first..term.last, d < OpenEnded
    PROVE  (\E q \in Clipped(p) : InPeriod(q, d)) <=> InPeriod(p, d)
  <1> DEFINE q == [from |-> Later(p.from, term.first),
                   to |-> IF p.to = OpenEnded THEN OpenEnded ELSE Earlier(p.to, term.last)]
  <1>1. term.first \in Nat /\ term.last \in Nat /\ OpenEnded \in Nat /\ d \in Nat
    BY MandatesAssumption
  <1>2. /\ q.from \in Nat /\ q.to \in Nat
        /\ q.from <= d <=> p.from <= d
        /\ d <= q.to <=> d <= p.to
    BY <1>1 DEF Later, Earlier
  <1>3. q.from <= d /\ d <= q.to => q.to >= q.from /\ q.from <= term.last
    BY <1>1, <1>2
  <1>4. \A x : x \in Clipped(p) <=> x = q /\ q.to >= q.from /\ q.from <= term.last
    BY DEF Clipped
  <1> HIDE DEF q
  <1> QED BY <1>2, <1>3, <1>4 DEF InPeriod

\* Until which day a row of a group counts.
LEMMA GroupEndIs ==
    ASSUME NEW rows, NEW r \in rows, NEW g \in r.groups, DaysOf(g), NEW d \in Nat, d < OpenEnded
    PROVE  /\ GroupEnd(rows, g) \in Nat
           /\ d <= GroupEnd(rows, g) <=>
                \/ d <= g.to
                \/ /\ term.last = OpenEnded
                   /\ \A x \in GroupRows(rows) : x[2].to # OpenEnded => x[2].to <= g.to
                   /\ 2 * EndsOn(rows, g.to) > Cardinality(GroupRows(rows))
  <1>1. OpenEnded \in Nat /\ g.to \in Nat BY MandatesAssumption DEF DaysOf
  <1>2. <<r, g>> \in GroupRows(rows) BY DEF GroupRows
  <1>3. g.to \in {x[2].to : x \in GroupRows(rows)}
    <2>1. <<r, g>>[2].to = g.to OBVIOUS
    <2> QED BY <1>2, <2>1
  <1> DEFINE last == \A x \in GroupRows(rows) : x[2].to # OpenEnded => x[2].to <= g.to
             most == 2 * EndsOn(rows, g.to) > Cardinality(GroupRows(rows))
  <1>4. g.to \in Placeholder(rows) <=> g.to # OpenEnded /\ term.last = OpenEnded /\ most /\ last
    BY <1>3 DEF Placeholder
  <1> HIDE DEF last, most
  <1>5. GroupEnd(rows, g) = IF g.to \in Placeholder(rows) THEN OpenEnded ELSE g.to BY DEF GroupEnd
  <1>6. /\ GroupEnd(rows, g) \in Nat
        /\ d <= GroupEnd(rows, g) <=> d <= g.to \/ (term.last = OpenEnded /\ last /\ most)
    BY <1>1, <1>4, <1>5
  <1> QED BY <1>6 DEF last, most

\* A day of a claim of a group is a day of the row, of the group and of a period of it.
LEMMA SittingDays ==
    ASSUME NEW f, FilesHold(f), term \in Terms, NEW r \in f.rows, NEW g \in r.groups,
           NEW p \in Joined(r.status), NEW d \in term.first..term.last, d < OpenEnded
    PROVE  /\ g.from \in Nat /\ p.from \in Nat /\ p.to \in Nat /\ GroupEnd(f.rows, g) \in Nat
           /\ (\E q \in Clipped(Sitting(f, g, p)) : InPeriod(q, d))
                <=> InPeriod(p, d) /\ g.from <= d /\ d <= GroupEnd(f.rows, g)
  <1>1. d \in Nat
    <2>1. term.first \in Nat /\ term.last \in Nat BY MandatesAssumption
    <2> QED BY <2>1
  <1>2. g.from \in Nat /\ DaysOf(g) BY DEF FilesHold, DaysOf
  <1>3. p.from \in Nat /\ p.to \in Nat
    <2>1. IsFiniteSet(r.status) /\ \A s \in r.status : DaysOf(s) BY DEF FilesHold, StatusesOf
    <2> QED BY <2>1, PeriodsAreService DEF PeriodsApart, Period
  <1>4. GroupEnd(f.rows, g) \in Nat BY <1>1, <1>2, GroupEndIs
  <1>5. /\ Sitting(f, g, p).from \in Nat /\ Sitting(f, g, p).to \in Nat
        /\ InPeriod(Sitting(f, g, p), d) <=> InPeriod(p, d) /\ g.from <= d /\ d <= GroupEnd(f.rows, g)
    BY <1>1, <1>2, <1>3, <1>4 DEF Sitting, InPeriod, Later, Earlier
  <1> QED BY <1>2, <1>3, <1>4, <1>5, ClippedKeepsDays

\* Who sat for a group, and when.
LEMMA MembersHold ==
    ASSUME OrgansInv, lastGathered # NeverGathered
    PROVE  MembersWhileSitting
  <1> DEFINE f == lastGathered.files
             open(h) == /\ term.last = OpenEnded
                        /\ \A x \in GroupRows(f.rows) : x[2].to # OpenEnded => x[2].to <= h.to
                        /\ 2 * EndsOn(f.rows, h.to) > Cardinality(GroupRows(f.rows))
             member(r, g, d) == \E c \in memberships : /\ c.organ = <<"group", g.group>> /\ c.person = Deputy(r.who)
                                                       /\ c.from <= d /\ d <= c.to
             sat(r, g, d) == \E q \in f.rows : \E h \in q.groups :
                               /\ q.who = r.who /\ h.group = g.group
                               /\ \E s \in q.status : s.kind \in Serving /\ s.from \in 1..d /\ d <= s.to
                               /\ h.from \in 1..d
                               /\ d <= h.to \/ open(h)
  <1>1. FilesHold(f) /\ memberships = MembershipClaims(f, lastGathered.deputies) /\ term \in Terms
    BY DEF OrgansInv
  <1> SUFFICES ASSUME NEW r \in f.rows, NEW g \in r.groups, g.group # NoGroup,
                      NEW d \in term.first..Earlier(term.last, OpenEnded - 1)
               PROVE  member(r, g, d) <=> sat(r, g, d)
    BY DEF MembersWhileSitting
  <1>2. d \in term.first..term.last /\ d < OpenEnded /\ d \in Nat
    <2>1. term.first \in Nat /\ term.last \in Nat /\ OpenEnded \in Nat BY <1>1, MandatesAssumption
    <2> QED BY <2>1 DEF Earlier
  <1> HIDE DEF f, open
  <1>3. ASSUME NEW q \in f.rows, NEW h \in q.groups
        PROVE  /\ d <= GroupEnd(f.rows, h) <=> d <= h.to \/ open(h)
               /\ h.from \in Nat
               /\ (\E p \in Joined(q.status) : InPeriod(p, d)) <=> Serves(q.status, d)
    <2>1. DaysOf(h) /\ IsFiniteSet(q.status) /\ \A s \in q.status : DaysOf(s)
      BY <1>1 DEF FilesHold, StatusesOf
    <2>2. d <= GroupEnd(f.rows, h) <=> d <= h.to \/ open(h) BY <1>2, <2>1, GroupEndIs DEF open
    <2>3. (\E p \in Joined(q.status) : InPeriod(p, d)) <=> Serves(q.status, d)
      BY <1>2, <2>1, PeriodsAreService
    <2>4. h.from \in Nat BY <2>1 DEF DaysOf
    <2> QED BY <2>2, <2>3, <2>4
  <1>4. \A q, h, p, c, x : c = GroupClaim(f, q, h, p, x) =>
          /\ c.organ = <<"group", h.group>> /\ c.person = Deputy(q.who) /\ c.from = x.from /\ c.to = x.to
    BY DEF GroupClaim, Membership
  <1>5. ASSUME member(r, g, d) PROVE sat(r, g, d)
    <2>1. PICK c \in memberships : /\ c.organ = <<"group", g.group>> /\ c.person = Deputy(r.who)
                                   /\ c.from <= d /\ d <= c.to
      BY <1>5
    <2>2. c \in GroupClaims(f)
      <3>1. c.organ[1] = "group" BY <2>1
      <3> QED BY <1>1, <3>1, OrgansOfClaims DEF MembershipClaims
    <2>3. PICK q \in f.rows : \E h \in q.groups : \E p \in Joined(q.status) : SatAs(f, c, q, h, p)
      BY <2>2, GroupClaimsAre
    <2>4. PICK h \in q.groups : \E p \in Joined(q.status) : SatAs(f, c, q, h, p) BY <2>3
    <2>5. PICK p \in Joined(q.status) : SatAs(f, c, q, h, p) BY <2>4
    <2>6. PICK x \in Clipped(Sitting(f, h, p)) : c = GroupClaim(f, q, h, p, x) BY <2>5 DEF SatAs
    <2>7. c.organ = <<"group", h.group>> /\ c.person = Deputy(q.who) /\ InPeriod(x, d)
      BY <1>4, <2>1, <2>6 DEF InPeriod
    <2>8. InPeriod(p, d) /\ h.from <= d /\ d <= GroupEnd(f.rows, h)
      BY <1>1, <1>2, <2>6, <2>7, SittingDays
    <2>9. h.from \in 1..d
      <3>1. h.from # 0 BY <2>5 DEF SatAs
      <3> QED BY <1>2, <1>3, <2>8, <3>1
    <2>10. Serves(q.status, d) /\ (d <= h.to \/ open(h)) BY <1>3, <2>8
    <2>11. q.who = r.who /\ h.group = g.group BY <2>1, <2>7 DEF Deputy
    <2> QED BY <2>9, <2>10, <2>11 DEF Serves
  <1>6. ASSUME sat(r, g, d) PROVE member(r, g, d)
    <2>1. PICK q \in f.rows : \E h \in q.groups :
                 /\ q.who = r.who /\ h.group = g.group /\ Serves(q.status, d)
                 /\ h.from \in 1..d /\ (d <= h.to \/ open(h))
      BY <1>6 DEF Serves
    <2>2. PICK h \in q.groups : /\ q.who = r.who /\ h.group = g.group /\ Serves(q.status, d)
                                /\ h.from \in 1..d /\ (d <= h.to \/ open(h))
      BY <2>1
    <2>3. PICK p \in Joined(q.status) : InPeriod(p, d) BY <1>3, <2>2
    <2>4. h.from \in Nat /\ h.from # 0 /\ h.from <= d /\ d <= GroupEnd(f.rows, h) BY <1>2, <1>3, <2>2
    <2>5. PICK x \in Clipped(Sitting(f, h, p)) : InPeriod(x, d)
      BY <1>1, <1>2, <2>3, <2>4, SittingDays
    <2> DEFINE c == GroupClaim(f, q, h, p, x)
    <2>6. /\ c.organ = <<"group", g.group>> /\ c.person = Deputy(r.who)
          /\ c.from <= d /\ d <= c.to
      BY <1>4, <2>2, <2>5 DEF InPeriod
    <2>7. c \in memberships
      <3>1. GroupEnd(f.rows, h) \in Nat BY <1>1, <1>2, SittingDays
      <3>2. GroupEnd(f.rows, h) >= h.from BY <1>2, <2>4, <3>1
      <3>3. SatAs(f, c, q, h, p) BY <2>2, <2>4, <2>5, <3>2 DEF SatAs
      <3>4. c \in GroupClaims(f)
        <4> HIDE DEF c
        <4> QED BY <3>3, GroupClaimsAre
      <3> QED BY <1>1, <3>4 DEF MembershipClaims
    <2> HIDE DEF c
    <2> QED BY <2>6, <2>7
  <1> QED BY <1>5, <1>6

LEMMA OneElement ==
    ASSUME NEW T, IsFiniteSet(T), NEW x \in T
    PROVE  /\ Cardinality(T) = 1 <=> T = {x}
           /\ Cardinality(T) > 1 <=> T # {x}
  <1>1. Cardinality(T) \in Nat /\ Cardinality(T) # 0 BY FS_CardinalityType, FS_EmptySet
  <1>2. Cardinality(T) = 1 <=> T = {x}
    <2>1. Cardinality({x}) = 1 BY FS_Singleton
    <2>2. Cardinality(T) = 1 => \E y : T = {y} BY FS_Singleton
    <2> QED BY <2>1, <2>2
  <1> QED BY <1>1, <1>2

\* The links that count for a unit are those about it and about no other.
About(f, u, l) ==
    /\ l.child = u.number /\ Cardinality(CommitteesNumbered(f, l.parent)) = 1
    /\ \A v \in Units(f, u.number) \ {u} : v.title # l.title
    /\ l.title = u.title \/ Units(f, u.number) = {u}

LEMMA LinksAbout ==
    ASSUME NEW f, FilesHold(f), NEW u \in f.organs, u.kind = "unit"
    PROVE  Telling(f, u) = {l \in f.links : About(f, u, l)}
  <1>1. u \in Units(f, u.number) /\ \A n : IsFiniteSet(Units(f, n))
    <2>1. \A n : Units(f, n) \in SUBSET f.organs BY DEF Units
    <2>2. \A n : IsFiniteSet(Units(f, n)) BY <2>1, FS_Subset DEF FilesHold
    <2> QED BY <2>2 DEF Units
  <1>2. ASSUME NEW l \in f.links, l.child = u.number
        PROVE  UnitsMeant(f, l) = {u} <=> /\ \A v \in Units(f, u.number) \ {u} : v.title # l.title
                                          /\ l.title = u.title \/ Units(f, u.number) = {u}
    <2> DEFINE same == Units(f, u.number)
    <2>1. u \in same /\ Cardinality(same) > 1 <=> same # {u}
      <3> HIDE DEF same
      <3> QED BY <1>1, OneElement DEF same
    <2>2. CASE same = {u} BY <1>2, <2>1, <2>2 DEF UnitsMeant
    <2>3. CASE same # {u}
      <3>1. UnitsMeant(f, l) = {v \in same : v.title = l.title} BY <1>2, <1>1, <2>1, <2>3 DEF UnitsMeant
      <3> HIDE DEF same
      <3> QED BY <1>1, <2>3, <3>1 DEF same
    <2> QED BY <2>2, <2>3
  <1>3. ASSUME NEW l \in f.links, UnitsMeant(f, l) = {u} PROVE l.child = u.number
    <2>1. u \in UnitsMeant(f, l) BY <1>3
    <2> QED BY <2>1 DEF UnitsMeant, Units
  <1>4. \A l \in f.links : About(f, u, l) <=> /\ UnitsMeant(f, l) = {u}
                                             /\ Cardinality(CommitteesNumbered(f, l.parent)) = 1
    BY <1>2, <1>3 DEF About
  <1> QED BY <1>4 DEF Telling

\* One committee is told exactly if the links name one number, and it is the number of that one.
LEMMA OneParent ==
    ASSUME NEW f, FilesHold(f), NEW u \in f.organs, u.kind = "unit",
           NEW o \in f.organs, o.kind = "committee"
    PROVE  /\ ParentsTold(f, u) \in SUBSET f.organs /\ IsFiniteSet(ParentsTold(f, u))
           /\ ParentsTold(f, u) = {o} <=> {l.parent : l \in Telling(f, u)} = {o.number}
           /\ ParentsTold(f, u) = {o} => u.number # NoNumberGiven
  <1> DEFINE of(l) == CommitteesNumbered(f, l.parent)
             told == Telling(f, u)
  <1>1. ParentsTold(f, u) = UNION {of(l) : l \in told} BY DEF ParentsTold
  <1>2. /\ \A l : of(l) \in SUBSET f.organs /\ \A c \in of(l) : c.number = l.parent
        /\ \A l : l.parent = o.number => o \in of(l)
    BY DEF CommitteesNumbered
  <1>3. told \subseteq f.links /\ \A l \in told : Cardinality(of(l)) = 1 /\ l.child = u.number
    BY LinksAbout DEF About
  <1>4. \A l \in told : \E c \in of(l) : of(l) = {c}
    <2> SUFFICES ASSUME NEW l \in told PROVE \E c \in of(l) : of(l) = {c}
      OBVIOUS
    <2>1. IsFiniteSet(of(l)) BY <1>2, FS_Subset DEF FilesHold
    <2>2. \E c : of(l) = {c}
      <3> HIDE DEF of
      <3> QED BY <1>3, <2>1, FS_Singleton
    <2> QED BY <2>2
  <1> HIDE DEF of, told
  <1>5. ParentsTold(f, u) \in SUBSET f.organs BY <1>1, <1>2
  <1>6. IsFiniteSet(ParentsTold(f, u)) BY <1>5, FS_Subset DEF FilesHold
  <1>7. ASSUME ParentsTold(f, u) = {o}
        PROVE  {l.parent : l \in told} = {o.number} /\ u.number # NoNumberGiven
    <2>1. PICK l \in told : o \in of(l) BY <1>1, <1>7
    <2>2. \A k \in told : o \in of(k)
      <3> SUFFICES ASSUME NEW k \in told PROVE o \in of(k)
        OBVIOUS
      <3>1. PICK c \in of(k) : of(k) = {c} BY <1>4
      <3>2. c \in ParentsTold(f, u) BY <1>1, <3>1
      <3> QED BY <1>7, <3>1, <3>2
    <2>3. \A k \in told : k.parent = o.number BY <1>2, <2>2
    <2>4. {k.parent : k \in told} = {o.number} BY <2>1, <2>3
    <2>5. u.number # NoNumberGiven BY <1>3, <2>1 DEF FilesHold
    <2> QED BY <2>4, <2>5
  <1>8. ASSUME {l.parent : l \in told} = {o.number} PROVE ParentsTold(f, u) = {o}
    <2>1. \A k \in told : k.parent = o.number BY <1>8
    <2>2. PICK l \in told : l.parent = o.number BY <1>8
    <2>3. \A k \in told : of(k) = {o} BY <1>2, <1>4, <2>1
    <2> QED BY <1>1, <2>2, <2>3
  <1> QED BY <1>5, <1>6, <1>7, <1>8 DEF told

LEMMA StructureHolds ==
    ASSUME OrgansInv, lastGathered # NeverGathered
    PROVE  StructureAgrees
  <1> DEFINE f == lastGathered.files
             organs == {<<"organ", o.id>> : o \in f.organs}
             others == {c.organ : c \in memberships} \cup {<<"friends", x.group>> : x \in f.friends}
                         \cup {<<"delegation", d.id>> : d \in f.delegations}
  <1>1. FilesHold(f) /\ structureOfOrgans = StructureClaims(f, memberships) /\ Buildable(f, memberships)
    BY DEF OrgansInv
  <1> HIDE DEF f
  <1>2. structureOfOrgans =
          [k \in organs \cup others |->
             IF k \in organs THEN ParentOf(f, CHOOSE o \in f.organs : o.id = k[2]) ELSE TheAssembly]
    BY <1>1 DEF StructureClaims
  <1>3. {c.organ : c \in memberships} \subseteq DOMAIN structureOfOrgans BY <1>2
  <1>4. ASSUME NEW o \in f.organs
        PROVE  ParentOf(f, o) \in {TheAssembly} \cup organs
    <2>1. SUFFICES ASSUME o.kind = "unit", Cardinality(ParentsTold(f, o)) = 1
                   PROVE  (CHOOSE c \in ParentsTold(f, o) : TRUE) \in f.organs
      BY DEF ParentOf
    <2>2. ParentsTold(f, o) \in SUBSET f.organs BY DEF ParentsTold, CommitteesNumbered
    <2>3. ParentsTold(f, o) # {} BY <2>1, FS_EmptySet
    <2> QED BY <2>2, <2>3
  <1>5. ASSUME NEW o \in f.organs
        PROVE  /\ <<"organ", o.id>> \in organs
               /\ structureOfOrgans[<<"organ", o.id>>] = ParentOf(f, o)
    <2>1. <<"organ", o.id>> \in organs OBVIOUS
    <2>2. (CHOOSE x \in f.organs : x.id = o.id) = o
      <3>1. \A x \in f.organs : x.id = o.id => x = o BY <1>1 DEF Buildable
      <3> QED BY <3>1
    <2>3. <<"organ", o.id>>[2] = o.id OBVIOUS
    <2> HIDE DEF organs, others
    <2> QED BY <1>2, <2>1, <2>2, <2>3
  <1>6. ASSUME NEW k \in DOMAIN structureOfOrgans
        PROVE  structureOfOrgans[k] \in {TheAssembly} \cup DOMAIN structureOfOrgans
    <2>1. CASE k \in organs
      <3>1. PICK o \in f.organs : k = <<"organ", o.id>> BY <2>1
      <3> QED BY <1>2, <1>4, <1>5, <3>1
    <2>2. CASE k \notin organs
      <3> HIDE DEF organs, others
      <3> QED BY <1>2, <1>6, <2>2
    <2> QED BY <2>1, <2>2
  <1>7. ASSUME NEW u \in f.organs, NEW o \in f.organs, u.kind = "unit", o.kind = "committee"
        PROVE  structureOfOrgans[<<"organ", u.id>>] = <<"organ", o.id>>
                 <=> {l.parent : l \in {x \in f.links : About(f, u, x)}} = {o.number}
    <2>1. ParentOf(f, u) = <<"organ", o.id>> <=> ParentsTold(f, u) = {o}
      <3>1. ASSUME ParentOf(f, u) = <<"organ", o.id>> PROVE ParentsTold(f, u) = {o}
        <4>1. <<"organ", o.id>> # TheAssembly BY DEF TheAssembly
        <4>2. /\ Cardinality(ParentsTold(f, u)) = 1
              /\ <<"organ", o.id>> = <<"organ", (CHOOSE c \in ParentsTold(f, u) : TRUE).id>>
          BY <3>1, <4>1 DEF ParentOf
        <4>3. PICK c : ParentsTold(f, u) = {c} BY <1>1, <1>7, <4>2, OneParent, FS_Singleton
        <4>4. c \in f.organs BY <1>1, <1>7, <4>3, OneParent
        <4>5. (CHOOSE x \in ParentsTold(f, u) : TRUE) = c BY <4>3
        <4>6. c.id = o.id BY <4>2, <4>5
        <4>7. c = o BY <1>1, <4>4, <4>6 DEF Buildable
        <4> QED BY <4>3, <4>7
      <3>2. ASSUME ParentsTold(f, u) = {o} PROVE ParentOf(f, u) = <<"organ", o.id>>
        <4>1. Cardinality(ParentsTold(f, u)) = 1 BY <3>2, FS_Singleton
        <4>2. (CHOOSE x \in ParentsTold(f, u) : TRUE) = o BY <3>2
        <4>3. u.number # NoNumberGiven BY <1>1, <1>7, <3>2, OneParent
        <4> QED BY <1>7, <4>1, <4>2, <4>3 DEF ParentOf
      <3> QED BY <3>1, <3>2
    <2>2. ParentsTold(f, u) = {o} <=> {l.parent : l \in Telling(f, u)} = {o.number}
      BY <1>1, <1>7, OneParent
    <2>3. Telling(f, u) = {x \in f.links : About(f, u, x)} BY <1>1, <1>7, LinksAbout
    <2> QED BY <1>5, <2>1, <2>2, <2>3
  <1> HIDE DEF organs, others
  <1> QED BY <1>3, <1>6, <1>7 DEF StructureAgrees, About, f

\* Of whatever files and rosters: the claims of a legislature follow its roster, a deputy is a
\* member of a group on exactly the days the roster says, a delegate is who the nearest roster
\* says in one claim, and a unit is part of the one committee its links name.
THEOREM LegislatureStaysWhole == MandatesSpec /\ OrgansSpec => []LegislatureIsWhole
  <1>1. term \in Terms /\ OrgansInit => OrgansInv BY OrgansStart
  <1>2. OrgansInv /\ [OrgansNext /\ UNCHANGED term]_<<organVars, term>> => OrgansInv' BY OrgansStep
  <1>3. OrgansInv => OrgansAreWhole
    BY MembersHold, DelegatesHold, StructureHolds DEF OrgansAreWhole
  <1>4. MandatesFollowRoster /\ OrgansAreWhole => LegislatureIsWhole BY DEF LegislatureIsWhole
  <1> QED BY <1>1, <1>2, <1>3, <1>4, MandatesStayTrue, PTL DEF OrgansSpec

-----------------------------------------------------------------------------
(* GovernmentOffices *)

RunFields == {"stage", "asOf", "start", "end", "premier", "page", "members", "count", "totals"}

\* What a run holds was on the site at some moment; what was applied passes on exactly.
CompositionInv ==
    /\ composition \in Compositions
    /\ ministers # NoRunYet => /\ DOMAIN ministers = RunFields /\ ministers.asOf \in ReadOn
                               /\ \A a \in ministers.members : DatedOnSite(a)
    /\ HandoversAreExact

LEMMA OfficeFields ==
  ASSUME NEW a
  PROVE  /\ Office(a).portfolio = a.portfolio /\ Office(a).from = a.from
         /\ Office(a).to = LastDay(a.to) /\ Office(a).status = StatusOn(a.to, ministers.asOf)
  BY DEF Office

\* An appointment read is current on the day of the run exactly when it is exercised on it.
LEMMA CurrentIsExercised ==
  ASSUME NEW a, NEW day \in 0..NoEnd - 1, DatedOnSite(a), a.from <= day
  PROVE  StatusOn(a.to, day) = "current" <=> day \in a.from..LastDay(a.to)
  BY GovernmentAssumption DEF DatedOnSite, StatusOn, LastDay

LEMMA Succession ==
  ASSUME NEW a, NEW b, DatedOnSite(a), DatedOnSite(b), Apart(a, b)
  PROVE  LastDay(a.to) < b.from \/ LastDay(b.to) < a.from
  BY GovernmentAssumption DEF DatedOnSite, Apart, LastDay

LEMMA AppliedHandovers ==
  ASSUME CompositionInv, ApplyComposition
  PROVE  OneHolder' /\ StatusesAgree'
  <1>1. ministers # NoRunYet
    BY DEF ApplyComposition, NoRunYet
  <1>2. /\ ministers.asOf \in 0..NoEnd - 1
        /\ \A a \in Members : DatedOnSite(a) /\ a.from <= ministers.asOf
    BY <1>1, GovernmentAssumption DEF CompositionInv, ApplyComposition, SearchIsWhole, Members
  <1>3. /\ officesHeld' = {Office(a) : a \in Members}
        /\ portfolioStatus' = [p \in Portfolios |-> StatusOfPortfolio(p)]
        /\ lastComposition'.asOf = ministers.asOf
    BY DEF ApplyComposition
  <1>4. ASSUME NEW a \in Members, NEW b \in Members, a.portfolio = b.portfolio, a # b
        PROVE  Apart(a, b)
    <2>1. CASE a.portfolio = Premier
      <3>1. a \in Holding(Premier) /\ b \in Holding(Premier)
        BY <1>4, <2>1 DEF Holding
      <3> QED BY <1>4, <3>1 DEF ApplyComposition, SearchIsWhole
    <2>2. CASE a.portfolio # Premier
      <3>1. a.portfolio \in DOMAIN histories
        BY <2>2 DEF ApplyComposition, Portfolios
      <3>2. a \in Holding(a.portfolio) /\ b \in Holding(a.portfolio)
        BY <1>4 DEF Holding
      <3> QED BY <1>4, <3>1, <3>2 DEF ApplyComposition, HistoryProves
    <2> QED BY <2>1, <2>2
  <1>5. OneHolder'
    <2> SUFFICES ASSUME NEW o \in officesHeld', NEW q \in officesHeld',
                        o.portfolio = q.portfolio, o # q
                 PROVE  o.to < q.from \/ q.to < o.from
      BY DEF OneHolder
    <2>1. PICK a \in Members : o = Office(a) BY <1>3
    <2>2. PICK b \in Members : q = Office(b) BY <1>3
    <2>3. a # b /\ a.portfolio = b.portfolio BY <2>1, <2>2, OfficeFields
    <2>4. LastDay(a.to) < b.from \/ LastDay(b.to) < a.from
      BY <1>2, <1>4, <2>3, Succession
    <2> QED BY <2>1, <2>2, <2>4, OfficeFields
  <1>6. ASSUME NEW o \in officesHeld'
        PROVE  \E a \in Members : /\ o = Office(a) /\ o.portfolio = a.portfolio
                                  /\ o.status = StatusOn(a.to, ministers.asOf)
                                  /\ (o.status = "current") <=> (lastComposition'.asOf \in o.from..o.to)
    <2>1. PICK a \in Members : o = Office(a) BY <1>3, <1>6
    <2>2. (StatusOn(a.to, ministers.asOf) = "current")
            <=> ministers.asOf \in a.from..LastDay(a.to)
      BY <1>2, CurrentIsExercised
    <2> QED BY <1>3, <2>1, <2>2, OfficeFields
  <1>7. \A o \in officesHeld' : (o.status = "current") <=> (lastComposition'.asOf \in o.from..o.to)
    BY <1>6
  <1>8. Portfolios = {o.portfolio : o \in officesHeld'}
    <2>1. \A a \in Members : Office(a) \in officesHeld' /\ Office(a).portfolio = a.portfolio
      BY <1>3, OfficeFields
    <2> QED BY <1>6, <2>1 DEF Portfolios
  <1>9. ASSUME NEW p \in Portfolios
        PROVE  (StatusOfPortfolio(p) = "current") <=>
                 \E o \in officesHeld' : o.portfolio = p /\ lastComposition'.asOf \in o.from..o.to
    <2>1. (StatusOfPortfolio(p) = "current") <=>
            \E a \in Members : a.portfolio = p /\ StatusOn(a.to, ministers.asOf) = "current"
      BY DEF StatusOfPortfolio, Holding
    <2>2. (\E a \in Members : a.portfolio = p /\ StatusOn(a.to, ministers.asOf) = "current")
            <=> \E o \in officesHeld' : o.portfolio = p /\ o.status = "current"
      <3>1. \A a \in Members : /\ Office(a) \in officesHeld' /\ Office(a).portfolio = a.portfolio
                               /\ Office(a).status = StatusOn(a.to, ministers.asOf)
        BY <1>3, OfficeFields
      <3> QED BY <1>6, <3>1
    <2> QED BY <1>7, <2>1, <2>2
  <1>10. StatusesAgree'
    <2>1. /\ DOMAIN portfolioStatus' = Portfolios
          /\ \A p \in Portfolios : portfolioStatus'[p] = StatusOfPortfolio(p)
      BY <1>3
    <2> QED BY <1>7, <1>8, <1>9, <2>1 DEF StatusesAgree, Exercised, HeldPortfolios
  <1> QED BY <1>5, <1>10

LEMMA CompositionStart == GovernmentInit => CompositionInv
  BY DEF GovernmentInit, CompositionInv, HandoversAreExact

LEMMA CompositionStep ==
  ASSUME CompositionInv, [GovernmentNext]_govVars
  PROVE  CompositionInv'
  <1>1. CASE ReadBootstrap
    <2>1. PICK day \in ReadOn :
            ministers' = [stage |-> "search", asOf |-> day, start |-> composition.start,
                          end |-> composition.end, premier |-> composition.premier,
                          page |-> 0, members |-> {}, count |-> 0, totals |-> {}]
      BY <1>1 DEF ReadBootstrap
    <2>2. DOMAIN ministers' = RunFields /\ ministers'.asOf \in ReadOn /\ ministers'.members = {}
      BY <2>1 DEF RunFields
    <2>3. UNCHANGED <<composition, govTables>> BY <1>1 DEF ReadBootstrap
    <2> QED BY <2>2, <2>3 DEF CompositionInv, HandoversAreExact, OneHolder, StatusesAgree,
                              HeldPortfolios, Exercised, govTables
  <1>2. CASE SearchAgain
    <2> DEFINE found == PageOf(composition, ministers.asOf, ministers.page + 1)
    <2>1. UNCHANGED <<composition, govTables>> BY <1>2 DEF SearchAgain
    <2>2. DOMAIN ministers = RunFields /\ ministers.asOf \in ReadOn
      BY <1>2 DEF SearchAgain, NoRunYet, CompositionInv
    <2>3. DOMAIN ministers' = RunFields /\ ministers'.asOf = ministers.asOf
          /\ ministers'.members = ministers.members \cup found
      BY <1>2, <2>2 DEF SearchAgain, RunFields
    <2>4. found \subseteq ToSet(composition.rows) BY DEF PageOf, Appearing, ToSet
    <2>5. \A a \in ministers'.members : DatedOnSite(a)
      BY <1>2, <2>3, <2>4, GovernmentAssumption DEF CompositionInv, SearchAgain, NoRunYet
    <2> QED BY <2>1, <2>2, <2>3, <2>5 DEF CompositionInv, HandoversAreExact, OneHolder,
                              StatusesAgree, HeldPortfolios, Exercised, govTables
  <1>3. CASE ReadHistory
    BY <1>3 DEF ReadHistory, CompositionInv, HandoversAreExact, OneHolder, StatusesAgree,
                HeldPortfolios, Exercised, govTables
  <1>4. CASE ApplyComposition
    <2>1. OneHolder' /\ StatusesAgree' BY <1>4, AppliedHandovers
    <2>2. composition' = composition /\ ministers' = NoRunYet BY <1>4 DEF ApplyComposition
    <2> QED BY <2>1, <2>2 DEF CompositionInv, HandoversAreExact
  <1>5. CASE GiveUpComposition
    BY <1>5 DEF GiveUpComposition, CompositionInv, HandoversAreExact, OneHolder, StatusesAgree,
                HeldPortfolios, Exercised, govTables
  <1>6. CASE Reshuffle
    BY <1>6 DEF Reshuffle, CompositionInv, HandoversAreExact, OneHolder, StatusesAgree,
                HeldPortfolios, Exercised, govTables
  <1>7. CASE UNCHANGED govVars
    BY <1>7 DEF CompositionInv, HandoversAreExact, OneHolder, StatusesAgree,
                HeldPortfolios, Exercised, govTables, govVars
  <1> QED BY <1>1, <1>2, <1>3, <1>4, <1>5, <1>6, <1>7 DEF GovernmentNext

\* Whatever the site publishes while it is read, the offices applied give a portfolio to one
\* person a day, and are current on exactly the days they and their portfolios are exercised.
THEOREM HandoversStayExact == GovernmentSpec => []HandoversAreExact
  <1>1. GovernmentInit => CompositionInv BY CompositionStart
  <1>2. CompositionInv /\ [GovernmentNext]_govVars => CompositionInv' BY CompositionStep
  <1>3. CompositionInv => HandoversAreExact BY DEF CompositionInv
  <1> QED BY <1>1, <1>2, <1>3, PTL DEF GovernmentSpec

\* A page is that of its portfolio in a version of the composition, and so is each appointment.
PageIn(v, p, rows) == rows = {a \in ToSet(v.rows) : a.portfolio = p /\ a.id \notin v.unlisted}
AppliedProved == lastComposition # NeverRead => PagesProve
ProvedInv ==
    /\ ministers # NoRunYet =>
         /\ DOMAIN ministers = RunFields
         /\ publishedSince \in Seq(Compositions) /\ composition \in ToSet(publishedSince)
         /\ \A a \in ministers.members : \E v \in ToSet(publishedSince) : a \in ToSet(v.rows)
         /\ \A p \in DOMAIN histories : \E v \in ToSet(publishedSince) : PageIn(v, p, histories[p].rows)
    /\ composition \in Compositions
    /\ AppliedProved

\* A version more stands behind those seen.
LEMMA OneMoreVersion ==
    ASSUME NEW S, NEW s \in Seq(S), NEW e \in S
    PROVE  /\ Append(s, e) \in Seq(S) /\ e \in ToSet(Append(s, e))
           /\ ToSet(s) \subseteq ToSet(Append(s, e))
  <1>1. /\ Append(s, e) \in Seq(S) /\ Len(Append(s, e)) = Len(s) + 1
        /\ Append(s, e)[Len(s) + 1] = e
        /\ \A i \in 1..Len(s) : Append(s, e)[i] = s[i]
    BY AppendProperties
  <1>2. DOMAIN Append(s, e) = 1..Len(Append(s, e)) /\ DOMAIN s = 1..Len(s) /\ Len(s) \in Nat
    BY <1>1
  <1>3. e \in ToSet(Append(s, e))
    <2>1. Len(s) + 1 \in DOMAIN Append(s, e) BY <1>1, <1>2
    <2> QED BY <1>1, <2>1 DEF ToSet
  <1>4. ASSUME NEW x \in ToSet(s) PROVE x \in ToSet(Append(s, e))
    <2>1. PICK i \in DOMAIN s : x = s[i] BY DEF ToSet
    <2>2. i \in DOMAIN Append(s, e) /\ Append(s, e)[i] = x BY <1>1, <1>2, <2>1
    <2> QED BY <2>2 DEF ToSet
  <1> QED BY <1>1, <1>3, <1>4

\* The part of an appointment that both the offices and the site's versions are compared by.
Tenure(a) == [id |-> a.id, who |-> a.who, role |-> a.role, from |-> a.from, to |-> LastDay(a.to)]

\* Offices of one portfolio are the terms of the appointments read of it.
LEMMA HeldAre ==
    ASSUME officesHeld' = {Office(a) : a \in Members}, NEW p
    PROVE  HeldIn(p)' = {Tenure(a) : a \in Holding(p)}
  <1>1. \A a : /\ Office(a).portfolio = a.portfolio
               /\ [id |-> Office(a).id, who |-> Office(a).who, role |-> Office(a).role,
                   from |-> Office(a).from, to |-> Office(a).to] = Tenure(a)
    BY DEF Office, Tenure
  <1> DEFINE Short(o) == [id |-> o.id, who |-> o.who, role |-> o.role, from |-> o.from, to |-> o.to]
  <1>2. HeldIn(p)' = {Short(o) : o \in {q \in officesHeld' : q.portfolio = p}} BY DEF HeldIn
  <1>3. \A a \in Holding(p) : Office(a) \in officesHeld' /\ Office(a).portfolio = p /\ Short(Office(a)) = Tenure(a)
    BY <1>1 DEF Holding
  <1>4. \A o \in officesHeld' : o.portfolio = p => \E a \in Holding(p) : o = Office(a)
    BY <1>1 DEF Holding
  <1> HIDE DEF Short
  <1>5. ASSUME NEW x \in HeldIn(p)' PROVE x \in {Tenure(a) : a \in Holding(p)}
    <2>1. PICK o \in officesHeld' : o.portfolio = p /\ x = Short(o) BY <1>2
    <2>2. PICK a \in Holding(p) : o = Office(a) BY <1>4, <2>1
    <2> QED BY <1>3, <2>1, <2>2
  <1>6. ASSUME NEW a \in Holding(p) PROVE Tenure(a) \in HeldIn(p)' BY <1>2, <1>3
  <1> QED BY <1>5, <1>6

\* What is applied was proved by the pages read.
LEMMA AppliedIsProved ==
    ASSUME ProvedInv, ApplyComposition
    PROVE  PagesProve'
  <1>1. ministers # NoRunYet BY DEF ApplyComposition, NoRunYet
  <1>2. /\ officesHeld' = {Office(a) : a \in Members} /\ lastComposition'.asOf = ministers.asOf
        /\ lastComposition'.since = publishedSince
        /\ SearchIsWhole /\ DOMAIN histories = Portfolios \ {Premier}
        /\ \A p \in DOMAIN histories : HistoryProves(p)
    BY DEF ApplyComposition
  <1>3. Versions' = ToSet(publishedSince) BY <1>2 DEF Versions, ToSet
  <1>4. \A p, v : PublishedIn(v, p)' = {Tenure(a) : a \in {b \in ToSet(v.rows) :
                                          ~b.hidden /\ b.from <= ministers.asOf /\ b.portfolio = p}}
    BY <1>2 DEF PublishedIn, Tenure
  <1>5. \A p : HeldIn(p)' = {Tenure(a) : a \in Holding(p)} BY <1>2, HeldAre
  <1>6. ASSUME NEW p \in HeldPortfolios' PROVE p \in Portfolios
    BY <1>2 DEF HeldPortfolios, Portfolios, Office
  <1>7. ASSUME NEW p, NEW o \in HeldIn(p)' PROVE \E v \in Versions' : o \in PublishedIn(v, p)'
    <2>1. PICK a \in Holding(p) : o = Tenure(a) BY <1>5
    <2>2. a \in ministers.members /\ a.portfolio = p BY DEF Holding, Members
    <2>3. ~a.hidden /\ a.from <= ministers.asOf BY <1>2, <2>2 DEF SearchIsWhole, Members
    <2>4. PICK v \in ToSet(publishedSince) : a \in ToSet(v.rows) BY <1>1, <2>2 DEF ProvedInv
    <2>5. o \in PublishedIn(v, p)' BY <1>4, <2>1, <2>2, <2>3, <2>4
    <2> QED BY <1>3, <2>4, <2>5
  <1>8. ASSUME NEW p \in Portfolios \ {Premier}
        PROVE  \E v \in Versions' :
                 /\ ListedIn(v, p)' \subseteq HeldIn(p)'
                 /\ \A o \in HeldIn(p)' \ ListedIn(v, p)' :
                      \E q \in HeldIn(p)' : q.who = o.who /\ q.role = o.role /\ q.from = o.to + 1
    <2>1. p \in DOMAIN histories /\ HistoryProves(p) BY <1>2
    <2>2. PICK v \in ToSet(publishedSince) : PageIn(v, p, histories[p].rows) BY <1>1, <2>1 DEF ProvedInv
    <2>3. /\ Proved(p) \subseteq Holding(p) /\ \A a \in Holding(p) \ Proved(p) : Continued(a, Holding(p))
      BY <2>1 DEF HistoryProves
    <2>4. Proved(p) = {a \in ToSet(v.rows) : /\ a.portfolio = p /\ a.id \notin v.unlisted /\ ~a.hidden
                                             /\ a.from <= ministers.asOf}
      BY <2>2 DEF PageIn, Proved, Unhidden
    <2>5. ListedIn(v, p)' = {Tenure(a) : a \in Proved(p)}
      <3>1. ListedIn(v, p)' = {o \in PublishedIn(v, p)' : o.id \notin v.unlisted} BY DEF ListedIn
      <3>2. \A a : Tenure(a).id = a.id BY DEF Tenure
      <3> QED BY <1>4, <2>4, <3>1, <3>2
    <2>6. ASSUME NEW o \in HeldIn(p)', o \notin ListedIn(v, p)'
          PROVE  \E q \in HeldIn(p)' : q.who = o.who /\ q.role = o.role /\ q.from = o.to + 1
      <3>1. PICK a \in Holding(p) : o = Tenure(a) BY <1>5, <2>6
      <3>2. a \notin Proved(p) BY <2>5, <2>6, <3>1
      <3>3. PICK b \in Holding(p) : b.who = a.who /\ b.role = a.role /\ b.from = a.to /\ a.to # NoEnd
        BY <2>3, <3>1, <3>2 DEF Continued
      <3>4. Tenure(b) \in HeldIn(p)' BY <1>5
      <3>5. /\ Tenure(b).who = b.who /\ Tenure(b).role = b.role /\ Tenure(b).from = b.from
            /\ o.who = a.who /\ o.role = a.role /\ o.to = LastDay(a.to)
        BY <3>1 DEF Tenure
      <3>6. a.to \in Int
        <4>1. PICK w \in ToSet(publishedSince) : a \in ToSet(w.rows)
          BY <1>1 DEF ProvedInv, Holding, Members
        <4>2. w \in Compositions
          BY <1>1, <4>1 DEF ProvedInv, ToSet
        <4> QED BY <4>1, <4>2, GovernmentAssumption DEF GovernmentAssumption, DatedOnSite
      <3>7. LastDay(a.to) + 1 = a.to BY <3>3, <3>6 DEF LastDay
      <3> QED BY <3>3, <3>4, <3>5, <3>7
    <2>7. ListedIn(v, p)' \subseteq HeldIn(p)' BY <1>5, <2>3, <2>5
    <2>8. v \in Versions' BY <1>3
    <2> QED BY <2>6, <2>7, <2>8
  <1> QED BY <1>6, <1>7, <1>8 DEF PagesProve

\* Nothing that is held changes between two snapshots.
LEMMA ProvedStays == ASSUME AppliedProved, UNCHANGED govTables PROVE AppliedProved'
  BY DEF AppliedProved, PagesProve, HeldPortfolios, HeldIn, ListedIn, PublishedIn, Versions, govTables

\* Nothing is held at first,
LEMMA ProvedStart == GovernmentInit => ProvedInv
  BY DEF GovernmentInit, ProvedInv, AppliedProved

\* and every step keeps what is held proved.
LEMMA ProvedStep == ASSUME ProvedInv, [GovernmentNext]_govVars PROVE ProvedInv'
  <1>1. CASE ReadBootstrap
    <2>1. PICK day \in ReadOn :
            ministers' = [stage |-> "search", asOf |-> day, start |-> composition.start,
                          end |-> composition.end, premier |-> composition.premier,
                          page |-> 0, members |-> {}, count |-> 0, totals |-> {}]
      BY <1>1 DEF ReadBootstrap
    <2>2. DOMAIN ministers' = RunFields /\ ministers'.members = {} BY <2>1 DEF RunFields
    <2>3. /\ UNCHANGED <<composition, govTables>> /\ histories' = <<>> /\ publishedSince' = <<composition>>
      BY <1>1 DEF ReadBootstrap
    <2>4. composition \in Compositions BY DEF ProvedInv
    <2>5. publishedSince' \in Seq(Compositions) /\ ToSet(publishedSince') = {composition}
      BY <2>3, <2>4 DEF ToSet
    <2>6. AppliedProved' BY <2>3, ProvedStays DEF ProvedInv
    <2>7. DOMAIN histories' = {} BY <2>3
    <2> QED BY <2>2, <2>3, <2>4, <2>5, <2>6, <2>7 DEF ProvedInv
  <1>2. CASE SearchAgain
    <2> DEFINE found == PageOf(composition, ministers.asOf, ministers.page + 1)
    <2>1. UNCHANGED <<composition, histories, publishedSince, govTables>> BY <1>2 DEF SearchAgain
    <2>2. ministers # NoRunYet /\ DOMAIN ministers = RunFields BY <1>2 DEF SearchAgain, NoRunYet, ProvedInv
    <2>3. DOMAIN ministers' = RunFields /\ ministers'.members = ministers.members \cup found
      BY <1>2, <2>2 DEF SearchAgain, RunFields
    <2>4. found \subseteq ToSet(composition.rows) BY DEF PageOf, Appearing, ToSet
    <2>5. AppliedProved' BY <2>1, ProvedStays DEF ProvedInv
    <2> HIDE DEF found
    <2>6. \A a \in ministers'.members : \E v \in ToSet(publishedSince) : a \in ToSet(v.rows)
      BY <2>2, <2>3, <2>4 DEF ProvedInv
    <2> QED BY <2>1, <2>2, <2>3, <2>5, <2>6 DEF ProvedInv
  <1>3. CASE ReadHistory
    <2>1. ministers # NoRunYet /\ UNCHANGED <<composition, ministers, publishedSince, govTables>>
      BY <1>3 DEF ReadHistory, NoRunYet
    <2>2. PICK p : histories' = [q \in DOMAIN histories \cup {p} |->
                     IF q = p THEN [rows |-> {a \in {b \in ToSet(composition.rows) : b.portfolio = p} :
                                                a.id \notin composition.unlisted},
                                    over |-> p \in composition.over]
                     ELSE histories[q]]
      BY <1>3 DEF ReadHistory
    <2>3. PageIn(composition, p, histories'[p].rows) BY <2>2 DEF PageIn
    <2>4. \A q \in DOMAIN histories : q # p => histories'[q] = histories[q] BY <2>2
    <2>5. DOMAIN histories' = DOMAIN histories \cup {p} BY <2>2
    <2>6. \A q \in DOMAIN histories' : \E v \in ToSet(publishedSince) : PageIn(v, q, histories'[q].rows)
      <3>1. composition \in ToSet(publishedSince) BY <2>1 DEF ProvedInv
      <3>2. \A q \in DOMAIN histories : \E v \in ToSet(publishedSince) : PageIn(v, q, histories[q].rows)
        BY <2>1 DEF ProvedInv
      <3> QED BY <2>3, <2>4, <2>5, <3>1, <3>2
    <2>7. AppliedProved' BY <2>1, ProvedStays DEF ProvedInv
    <2> QED BY <2>1, <2>6, <2>7 DEF ProvedInv
  <1>4. CASE ApplyComposition
    <2>1. PagesProve' BY <1>4, AppliedIsProved
    <2>2. composition' = composition /\ ministers' = NoRunYet BY <1>4 DEF ApplyComposition
    <2> QED BY <2>1, <2>2 DEF ProvedInv, AppliedProved
  <1>5. CASE GiveUpComposition
    <2>1. ministers' = NoRunYet /\ UNCHANGED <<composition, govTables>> BY <1>5 DEF GiveUpComposition
    <2> QED BY <2>1, ProvedStays DEF ProvedInv
  <1>6. CASE Reshuffle
    <2>1. UNCHANGED <<ministers, histories, govTables>> /\ composition' \in Compositions BY <1>6 DEF Reshuffle
    <2>2. AppliedProved' BY <2>1, ProvedStays DEF ProvedInv
    <2>3. CASE ministers = NoRunYet BY <2>1, <2>2, <2>3 DEF ProvedInv
    <2>4. CASE ministers # NoRunYet
      <3>1. publishedSince' = Append(publishedSince, composition') /\ publishedSince \in Seq(Compositions)
        BY <1>6, <2>4 DEF Reshuffle, ProvedInv
      <3>2. /\ publishedSince' \in Seq(Compositions) /\ composition' \in ToSet(publishedSince')
            /\ ToSet(publishedSince) \subseteq ToSet(publishedSince')
        BY <2>1, <3>1, OneMoreVersion
      <3> QED BY <2>1, <2>2, <2>4, <3>2 DEF ProvedInv
    <2> QED BY <2>3, <2>4
  <1>7. CASE UNCHANGED govVars
    <2>1. UNCHANGED <<composition, ministers, histories, publishedSince, govTables>> BY <1>7 DEF govVars
    <2>2. AppliedProved' BY <2>1, ProvedStays DEF ProvedInv
    <2> QED BY <2>1, <2>2 DEF ProvedInv
  <1> QED BY <1>1, <1>2, <1>3, <1>4, <1>5, <1>6, <1>7 DEF GovernmentNext

\* While the composition stays the same, a run reads what it shows of its day and nothing else,
\* and is told no other total.
RowsOn(c, day) == {c.rows[k] : k \in Appearing(c, day)}
UndisturbedInv ==
    /\ composition \in Compositions
    /\ ministers # NoRunYet =>
         /\ DOMAIN ministers = RunFields
         /\ publishedSince \in Seq(Compositions) /\ publishedSince # <<>>
         /\ Len(publishedSince) = 1 =>
              /\ publishedSince = <<composition>>
              /\ ministers.members \subseteq RowsOn(composition, ministers.asOf)
              /\ ministers.totals \subseteq {Cardinality(Appearing(composition, ministers.asOf))}
    /\ lastComposition # NeverRead => UndisturbedIsExact

\* As many different ids as places means that the row of every place was read.
LEMMA AllPlacesRead ==
    ASSUME NEW c, NEW day, IsFiniteSet(Appearing(c, day)), NEW M \in SUBSET RowsOn(c, day),
           Cardinality({a.id : a \in M}) = Cardinality(Appearing(c, day))
    PROVE  M = RowsOn(c, day)
  <1> DEFINE K == Appearing(c, day)
             s == c.rows
             R == RowsOn(c, day)
             ids == {a.id : a \in M}
  <1>1. IsFiniteSet(R) /\ Cardinality(R) <= Cardinality(K)
    <2> DEFINE row == [k \in K |-> s[k]]
    <2>1. row \in Surjection(K, R)
      <3> R = {s[k] : k \in K} BY DEF RowsOn
      <3> HIDE DEF R, K, s
      <3>1. row \in [K -> R] OBVIOUS
      <3>2. \A r \in R : \E k \in K : row[k] = r OBVIOUS
      <3> QED BY <3>1, <3>2 DEF Surjection
    <2> QED BY <2>1, FS_Surjection
  <1>2. IsFiniteSet(M) /\ Cardinality(M) <= Cardinality(R) /\ (Cardinality(R) = Cardinality(M) => R = M)
    BY <1>1, FS_Subset
  <1>3. Cardinality(ids) <= Cardinality(M)
    <2> DEFINE id == [a \in M |-> a.id]
    <2>1. id \in Surjection(M, ids)
      <3>1. id \in [M -> ids] OBVIOUS
      <3>2. \A i \in ids : \E a \in M : id[a] = i OBVIOUS
      <3> QED BY <3>1, <3>2 DEF Surjection
    <2> QED BY <1>2, <2>1, FS_Surjection
  <1>4. Cardinality(K) \in Nat /\ Cardinality(R) \in Nat /\ Cardinality(M) \in Nat
    BY <1>1, <1>2, FS_CardinalityType
  <1>5. Cardinality(ids) = Cardinality(K) OBVIOUS
  <1> HIDE DEF R, ids
  <1>6. Cardinality(R) = Cardinality(M) BY <1>1, <1>2, <1>3, <1>4, <1>5
  <1>7. R = M BY <1>2, <1>6
  <1> QED BY <1>7 DEF R

\* A composition shows finitely many rows, those that are neither hidden nor later.
LEMMA PlacesAreFew ==
    ASSUME NEW c \in Compositions, NEW day
    PROVE  /\ IsFiniteSet(Appearing(c, day))
           /\ \A a : a \in RowsOn(c, day) <=> a \in ToSet(c.rows) /\ ~a.hidden /\ a.from <= day
  <1>1. c.rows \in Seq(ToSet(c.rows)) BY GovernmentAssumption DEF GovernmentAssumption
  <1>2. PICK n \in Nat : DOMAIN c.rows = 1..n
    <2>1. PICK S : c.rows \in Seq(S) BY <1>1
    <2> QED BY <2>1, LenProperties
  <1>3. IsFiniteSet(DOMAIN c.rows) BY <1>2, FS_Interval
  <1>4. Appearing(c, day) \in SUBSET (DOMAIN c.rows) BY DEF Appearing
  <1>5. IsFiniteSet(Appearing(c, day)) BY <1>3, <1>4, FS_Subset
  <1> QED BY <1>5 DEF RowsOn, Appearing, ToSet

\* What is applied after a run that nothing disturbed is what the site shows.
LEMMA AppliedIsExact ==
    ASSUME UndisturbedInv, ApplyComposition
    PROVE  UndisturbedIsExact'
  <1>1. ministers # NoRunYet BY DEF ApplyComposition, NoRunYet
  <1>2. /\ officesHeld' = {Office(a) : a \in Members} /\ lastComposition'.asOf = ministers.asOf
        /\ lastComposition'.since = publishedSince /\ TotalHeld /\ NothingTwice
    BY DEF ApplyComposition, SearchIsWhole
  <1> SUFFICES ASSUME Len(publishedSince) = 1
               PROVE  \E v \in Versions' : /\ HeldPortfolios' = PublishedPortfolios(v)'
                                           /\ \A p \in HeldPortfolios' : Agrees(v, p)'
    BY <1>2 DEF UndisturbedIsExact
  <1>c. PICK c : c = composition OBVIOUS
  <1> DEFINE day == ministers.asOf
             K   == Appearing(c, day)
  <1>3. /\ publishedSince = <<c>> /\ Members \subseteq RowsOn(c, day)
        /\ ministers.totals \subseteq {Cardinality(K)} /\ c \in Compositions
    BY <1>1, <1>c DEF UndisturbedInv, Members
  <1>4. Cardinality({a.id : a \in Members}) = Cardinality(K)
    BY <1>2, <1>3 DEF TotalHeld, NothingTwice
  <1>5. IsFiniteSet(K) /\ \A a : a \in RowsOn(c, day) <=> a \in ToSet(c.rows) /\ ~a.hidden /\ a.from <= day
    BY <1>3, PlacesAreFew
  <1>6. Members = RowsOn(c, day) BY <1>3, <1>4, <1>5, AllPlacesRead
  <1>7. c \in Versions' BY <1>2, <1>3 DEF Versions, ToSet
  <1>8. HeldPortfolios' = PublishedPortfolios(c)'
    <2>1. HeldPortfolios' = {a.portfolio : a \in Members}
      <3>1. \A a : Office(a).portfolio = a.portfolio BY DEF Office
      <3> QED BY <1>2, <3>1 DEF HeldPortfolios
    <2>2. PublishedPortfolios(c)' = {a.portfolio : a \in {b \in ToSet(c.rows) : ~b.hidden /\ b.from <= day}}
      BY <1>2 DEF PublishedPortfolios
    <2> QED BY <1>5, <1>6, <2>1, <2>2
  <1>9. ASSUME NEW p PROVE Agrees(c, p)'
    <2>1. HeldIn(p)' = {Tenure(a) : a \in Holding(p)} BY <1>2, HeldAre
    <2>2. PublishedIn(c, p)' = {Tenure(a) : a \in {b \in ToSet(c.rows) :
                                          ~b.hidden /\ b.from <= day /\ b.portfolio = p}}
      BY <1>2 DEF PublishedIn, Tenure
    <2>3. Holding(p) = {b \in ToSet(c.rows) : ~b.hidden /\ b.from <= day /\ b.portfolio = p}
      BY <1>5, <1>6 DEF Holding
    <2> QED BY <2>1, <2>2, <2>3 DEF Agrees
  <1> QED BY <1>7, <1>8, <1>9

\* Nor does what a run found whole change between two snapshots.
LEMMA UndisturbedStays ==
    ASSUME UndisturbedIsExact, UNCHANGED govTables PROVE UndisturbedIsExact'
  <1>1. lastComposition' = lastComposition /\ officesHeld' = officesHeld BY DEF govTables
  <1>2. /\ Versions' = Versions /\ HeldPortfolios' = HeldPortfolios
        /\ \A v : PublishedPortfolios(v)' = PublishedPortfolios(v)
        /\ \A v, p : PublishedIn(v, p)' = PublishedIn(v, p)
        /\ \A p : HeldIn(p)' = HeldIn(p)
    BY <1>1 DEF HeldPortfolios, PublishedPortfolios, HeldIn, PublishedIn, Versions
  <1>3. \A v, p : Agrees(v, p)' <=> Agrees(v, p) BY <1>2 DEF Agrees
  <1> QED BY <1>1, <1>2, <1>3 DEF UndisturbedIsExact

\* Nothing is read at first,
LEMMA UndisturbedStart == GovernmentInit => UndisturbedInv
  BY DEF GovernmentInit, UndisturbedInv

\* and every step keeps what an undisturbed run read within what the site shows.
LEMMA UndisturbedStep == ASSUME UndisturbedInv, [GovernmentNext]_govVars PROVE UndisturbedInv'
  <1>1. ASSUME UNCHANGED govTables
        PROVE  (lastComposition # NeverRead => UndisturbedIsExact)'
    BY <1>1, UndisturbedStays DEF UndisturbedInv, govTables
  <1>2. CASE ReadBootstrap
    <2>1. PICK day \in ReadOn :
            ministers' = [stage |-> "search", asOf |-> day, start |-> composition.start,
                          end |-> composition.end, premier |-> composition.premier,
                          page |-> 0, members |-> {}, count |-> 0, totals |-> {}]
      BY <1>2 DEF ReadBootstrap
    <2>2. DOMAIN ministers' = RunFields /\ ministers'.members = {} /\ ministers'.totals = {}
      BY <2>1 DEF RunFields
    <2>3. /\ UNCHANGED <<composition, govTables>> /\ publishedSince' = <<composition>>
      BY <1>2 DEF ReadBootstrap
    <2>4. composition \in Compositions BY DEF UndisturbedInv
    <2>5. publishedSince' \in Seq(Compositions) /\ publishedSince' # <<>> BY <2>3, <2>4
    <2> QED BY <1>1, <2>2, <2>3, <2>4, <2>5 DEF UndisturbedInv
  <1>3. CASE SearchAgain
    <2> DEFINE found == PageOf(composition, ministers.asOf, ministers.page + 1)
               counted == Cardinality(Appearing(composition, ministers.asOf))
    <2>1. UNCHANGED <<composition, publishedSince, govTables>> BY <1>3 DEF SearchAgain
    <2>2. ministers # NoRunYet /\ DOMAIN ministers = RunFields
      BY <1>3 DEF SearchAgain, NoRunYet, UndisturbedInv
    <2>3. DOMAIN ministers' = RunFields /\ ministers'.members = ministers.members \cup found
          /\ ministers'.totals = ministers.totals \cup {counted} /\ ministers'.asOf = ministers.asOf
      BY <1>3, <2>2 DEF SearchAgain, RunFields
    <2>4. found \subseteq RowsOn(composition, ministers.asOf) BY DEF PageOf, RowsOn
    <2> HIDE DEF found
    <2> QED BY <1>1, <2>1, <2>2, <2>3, <2>4 DEF UndisturbedInv
  <1>4. CASE ReadHistory
    BY <1>1, <1>4 DEF ReadHistory, UndisturbedInv
  <1>5. CASE ApplyComposition
    <2>1. UndisturbedIsExact' BY <1>5, AppliedIsExact
    <2>2. composition' = composition /\ ministers' = NoRunYet BY <1>5 DEF ApplyComposition
    <2> QED BY <2>1, <2>2 DEF UndisturbedInv
  <1>6. CASE GiveUpComposition
    BY <1>1, <1>6 DEF GiveUpComposition, UndisturbedInv
  <1>7. CASE Reshuffle
    <2>1. UNCHANGED <<ministers, govTables>> /\ composition' \in Compositions BY <1>7 DEF Reshuffle
    <2>2. CASE ministers = NoRunYet BY <1>1, <2>1, <2>2 DEF UndisturbedInv
    <2>3. CASE ministers # NoRunYet
      <3>1. /\ publishedSince' = Append(publishedSince, composition')
            /\ publishedSince \in Seq(Compositions) /\ publishedSince # <<>>
        BY <1>7, <2>3 DEF Reshuffle, UndisturbedInv
      <3>2. Len(publishedSince) \in Nat \ {0} BY <3>1
      <3>3. publishedSince' \in Seq(Compositions) /\ Len(publishedSince') = Len(publishedSince) + 1
        BY <2>1, <3>1, AppendProperties
      <3>4. publishedSince' # <<>> /\ Len(publishedSince') # 1 BY <3>2, <3>3
      <3> QED BY <1>1, <2>1, <2>3, <3>3, <3>4 DEF UndisturbedInv
    <2> QED BY <2>2, <2>3
  <1>8. CASE UNCHANGED govVars
    BY <1>1, <1>8 DEF govVars, UndisturbedInv
  <1> QED BY <1>2, <1>3, <1>4, <1>5, <1>6, <1>7, <1>8 DEF GovernmentNext

\* Whatever the site publishes while it is read, each office applied was published meanwhile, and
\* the page of its portfolio proved it, or lists a later term of the same person in its place; and
\* the offices of a run during which nothing changed are all that the site shows and no other.
THEOREM OfficesStayProved == GovernmentSpec => []OfficesAreProved
  <1>1. GovernmentInit => ProvedInv /\ UndisturbedInv BY ProvedStart, UndisturbedStart
  <1>2. ProvedInv /\ UndisturbedInv /\ [GovernmentNext]_govVars => ProvedInv' /\ UndisturbedInv'
    BY ProvedStep, UndisturbedStep
  <1>3. ProvedInv /\ UndisturbedInv => OfficesAreProved
    BY DEF ProvedInv, AppliedProved, UndisturbedInv, OfficesAreProved
  <1> QED BY <1>1, <1>2, <1>3, PTL DEF GovernmentSpec

-----------------------------------------------------------------------------
(* PublicBodies *)

\* A response is what the register answered in one of its versions.
GivenBy(v, r, response) ==
    IF r.search = "history" THEN r.of \in DOMAIN v /\ response = HistoryOf(v, r.of)
                            ELSE response = Page(v, r.search, r.of)
AllGiven(got, vs) == \A r \in DOMAIN got : \E v \in vs : GivenBy(v, r, got[r])

ResponsesInv ==
    /\ bodies \in versions /\ versions \subseteq BodyRegisters
    /\ AllGiven(received, versions) /\ AllGiven(cached, versions)
    /\ "on" \in DOMAIN crawl /\ (~crawl.on => received = <<>>)

\* The pages of a search are read in order.
InOrder(got) == \A t \in BodyTypes \cup {"universe"} :
                  \E n \in Nat : Pages(got, t) = {Asked(t, k) : k \in 1..n}

\* Entities of this importer's exist once their code is anchored.
AnchorInv ==
    /\ \A d \in DOMAIN anchorOf : anchorOf[d] \in NewEntities => anchorOf[d] \in DOMAIN kindOf
    /\ \A n \in DOMAIN nipcOf : nipcOf[n] \in NewEntities => nipcOf[n] \in DOMAIN kindOf
    /\ \A e \in DOMAIN kindOf : \E d \in DOMAIN anchorOf : e = NewEntity(d)
    /\ DOMAIN boards \subseteq DOMAIN anchorOf

BodiesInv == ResponsesInv /\ InOrder(received) /\ AnchorInv /\ BodiesAreTrue

LEMMA PagesCount ==
    ASSUME NEW t, NEW n \in Nat
    PROVE  Cardinality({Asked(t, k) : k \in 1..n}) = n
  <1> DEFINE S == {Asked(t, k) : k \in 1..n}
             f == [k \in 1..n |-> Asked(t, k)]
  <1>1. \A j, k \in 1..n : Asked(t, j) = Asked(t, k) => j = k
    BY DEF Asked
  <1>2. f \in Bijection(1..n, S)
    BY <1>1 DEF Bijection, Injection, Surjection, IsInjective
  <1>3. ExistsBijection(1..n, S) BY <1>2 DEF ExistsBijection
  <1>4. Cardinality(S) = n
    <2> HIDE DEF S
    <2> QED BY <1>3, FS_CountingElements
  <1> QED BY <1>4

\* Of a complete search no page is missing.
LEMMA NoPageMissing ==
    ASSUME NEW got, InOrder(got), NEW t \in BodyTypes \cup {"universe"}, Complete(got, t)
    PROVE  \A k \in 1..PagesOf(got[Asked(t, 1)].total) : Asked(t, k) \in Pages(got, t)
  <1>1. PICK n \in Nat : Pages(got, t) = {Asked(t, k) : k \in 1..n} BY DEF InOrder
  <1>2. n = PagesOf(got[Asked(t, 1)].total) BY <1>1, PagesCount DEF Complete
  <1> QED BY <1>1, <1>2

\* The next page is the next.
LEMMA NextIsInOrder ==
    ASSUME NEW got, InOrder(got), NEW limit, NEW response, ~Done(got, limit)
    PROVE  LET q == NextRequest(got, limit)
           IN InOrder([r \in DOMAIN got \cup {q} |-> IF r = q THEN response ELSE got[r]])
  <1> DEFINE q == NextRequest(got, limit)
             longer == [r \in DOMAIN got \cup {q} |-> IF r = q THEN response ELSE got[r]]
             page(t) == Asked(t, Cardinality(Pages(got, t)) + 1)
  <1>1. \/ \E t \in BodyTypes \cup {"universe"} : q = page(t)
        \/ q.search = "history"
    <2>1. Pending(got) # {} => (CHOOSE t \in Pending(got) : TRUE) \in BodyTypes
      BY DEF Pending
    <2> QED BY <2>1 DEF NextRequest, Asked
  <1> SUFFICES ASSUME NEW t \in BodyTypes \cup {"universe"}
               PROVE  \E n \in Nat : Pages(longer, t) = {Asked(t, k) : k \in 1..n}
    BY DEF InOrder
  <1>2. PICK n \in Nat : Pages(got, t) = {Asked(t, k) : k \in 1..n} BY DEF InOrder
  <1>3. DOMAIN longer = DOMAIN got \cup {q} OBVIOUS
  <1> HIDE DEF longer
  <1>4. CASE q = page(t)
    <2>1. q = Asked(t, n + 1) BY <1>2, <1>4, PagesCount
    <2>2. Pages(longer, t) = Pages(got, t) \cup {Asked(t, n + 1)}
      BY <1>3, <2>1 DEF Pages, Asked
    <2>3. 1..(n + 1) = (1..n) \cup {n + 1} OBVIOUS
    <2>4. Pages(longer, t) = {Asked(t, k) : k \in 1..(n + 1)} BY <1>2, <2>2, <2>3
    <2> QED BY <2>4
  <1>5. CASE q # page(t)
    <2>1. q.search # t BY <1>1, <1>5, BodyAssumption DEF BodyAssumption, Asked
    <2>2. Pages(longer, t) = Pages(got, t) BY <1>3, <2>1 DEF Pages
    <2> QED BY <1>2, <2>2
  <1> QED BY <1>4, <1>5

\* Every entry has its page.
LEMMA EntryHasPage ==
    ASSUME NEW n \in Nat, NEW m \in 1..n
    PROVE  \E k \in 1..PagesOf(n) : m \in ((k - 1) * SearchPage + 1)..(k * SearchPage)
  <1>1. SearchPage \in Nat \ {0} BY BodyAssumption DEF BodyAssumption
  <1> DEFINE q == (m - 1) \div SearchPage
             N == (n + SearchPage - 1) \div SearchPage
  <1>2. q \in Nat /\ SearchPage * q <= m - 1 /\ m - 1 < SearchPage * q + SearchPage
    BY <1>1
  <1>3. N \in Nat /\ n + SearchPage - 1 < SearchPage * N + SearchPage
    BY <1>1
  <1>4. PagesOf(n) = N BY DEF PagesOf
  <1> HIDE DEF q, N
  <1>5. q + 1 <= N
    <2> SUFFICES ASSUME N <= q PROVE FALSE
      BY <1>2, <1>3
    <2>1. SearchPage * (q - N) >= 0 BY <1>1, <1>2, <1>3
    <2>2. SearchPage * N <= SearchPage * q BY <1>1, <1>2, <1>3, <2>1
    <2> QED BY <1>1, <1>2, <1>3, <2>2
  <1>6. (q + 1) * SearchPage = SearchPage * q + SearchPage
    BY <1>1, <1>2
  <1>7. ((q + 1) - 1) * SearchPage = SearchPage * q
    BY <1>1, <1>2
  <1>8. m \in (((q + 1) - 1) * SearchPage + 1)..((q + 1) * SearchPage)
    BY <1>1, <1>2, <1>6, <1>7
  <1> QED BY <1>2, <1>3, <1>4, <1>5, <1>8

LEMMA RankInRange ==
    ASSUME NEW S, IsFiniteSet(S), S \subseteq Nat, NEW c \in S
    PROVE  Cardinality({d \in S : d <= c}) \in 1..Cardinality(S)
  <1> DEFINE R == {d \in S : d <= c}
  <1>1. R \in SUBSET S /\ c \in R OBVIOUS
  <1> HIDE DEF R
  <1>2. IsFiniteSet(R) /\ Cardinality(R) <= Cardinality(S) BY <1>1, FS_Subset
  <1>3. Cardinality(R) # 0 BY <1>1, <1>2, FS_EmptySet
  <1>4. Cardinality(R) \in Nat /\ Cardinality(S) \in Nat BY <1>2, FS_CardinalityType
  <1>5. Cardinality(R) \in 1..Cardinality(S) BY <1>2, <1>3, <1>4
  <1> QED BY <1>5 DEF R

\* Pages of one total are pages of one register, and a complete search has them all.
LEMMA SearchIsOfOneVersion ==
    ASSUME NEW got, NEW vs, vs \subseteq BodyRegisters, AllGiven(got, vs), InOrder(got),
           Complete(got, "universe"), Consistent(got, "universe"), Steady(vs)
    PROVE  \E v \in vs : CodesOf(Bodies(got)) = Regular(v)
  <1> DEFINE T == got[Asked("universe", 1)].total
             Read == Pages(got, "universe")
  <1>1. ASSUME NEW r \in Read
        PROVE  \E v \in vs : got[r] = Page(v, "universe", r.of) /\ Cardinality(DOMAIN v) = T
    <2>1. r \in DOMAIN got /\ r.search = "universe" BY DEF Pages
    <2>2. PICK v \in vs : got[r] = Page(v, "universe", r.of)
      BY <2>1 DEF AllGiven, GivenBy
    <2>3. got[r].total = Cardinality(DOMAIN v) BY <2>2 DEF Page, Tagged
    <2>4. got[r].total = T BY <1>1 DEF Consistent
    <2> QED BY <2>2, <2>3, <2>4
  <1>2. Asked("universe", 1) \in Read BY DEF Complete, Pages, Asked
  <1>3. PICK v \in vs : Cardinality(DOMAIN v) = T BY <1>1, <1>2
  <1>4. \A w \in vs : Cardinality(DOMAIN w) = T => DOMAIN w = DOMAIN v /\ Regular(w) = Regular(v)
    BY <1>3 DEF Steady
  <1>5. IsFiniteSet(DOMAIN v) /\ DOMAIN v \subseteq Nat
    BY BodyAssumption DEF BodyAssumption
  <1>6. ASSUME NEW c \in CodesOf(Bodies(got)) PROVE c \in Regular(v)
    <2>1. PICK i \in Bodies(got) : c = i.code BY DEF CodesOf
    <2>2. PICK r \in Read : i \in got[r].items /\ ~i.ghost
      BY DEF Bodies, Listed
    <2>3. PICK w \in vs : got[r] = Page(w, "universe", r.of) /\ Cardinality(DOMAIN w) = T
      BY <1>1
    <2>4. PICK e \in DOMAIN w : i = [code |-> e, nipc |-> w[e].nipc, active |-> w[e].active,
                                     ghost |-> w[e].ghost]
      <3> DEFINE here == {e \in DOMAIN w : Cardinality({d \in DOMAIN w : d <= e})
                                             \in ((r.of - 1) * SearchPage + 1)..(r.of * SearchPage)}
      <3>1. got[r].items = {[code |-> e, nipc |-> w[e].nipc, active |-> w[e].active,
                             ghost |-> w[e].ghost] : e \in here}
        BY <2>3 DEF Page, Tagged
      <3>2. here \subseteq DOMAIN w OBVIOUS
      <3> HIDE DEF here
      <3> QED BY <2>2, <3>1, <3>2
    <2>5. c \in DOMAIN w /\ ~w[c].ghost BY <2>1, <2>2, <2>4
    <2> QED BY <1>4, <2>3, <2>5 DEF Regular
  <1>7. ASSUME NEW c \in Regular(v) PROVE c \in CodesOf(Bodies(got))
    <2> DEFINE m == Cardinality({d \in DOMAIN v : d <= c})
    <2>1. c \in DOMAIN v BY DEF Regular
    <2>2. m \in 1..T BY <1>3, <1>5, <2>1, RankInRange
    <2>3. T \in Nat BY <1>3, <1>5, FS_CardinalityType
    <2>4. PICK k \in 1..PagesOf(T) : m \in ((k - 1) * SearchPage + 1)..(k * SearchPage)
      <3> HIDE DEF m, T
      <3> QED BY <2>2, <2>3, EntryHasPage
    <2>5. Asked("universe", k) \in Read BY NoPageMissing
    <2>6. PICK w \in vs : /\ got[Asked("universe", k)] = Page(w, "universe", k)
                          /\ Cardinality(DOMAIN w) = T
      BY <1>1, <2>5 DEF Asked
    <2>7. DOMAIN w = DOMAIN v /\ c \in DOMAIN w /\ ~w[c].ghost
      BY <1>4, <2>1, <2>6 DEF Regular
    <2> DEFINE i == [code |-> c, nipc |-> w[c].nipc, active |-> w[c].active, ghost |-> w[c].ghost]
    <2>8. i \in Page(w, "universe", k).items
      <3>1. c \in {e \in DOMAIN w : Cardinality({d \in DOMAIN w : d <= e})
                                      \in ((k - 1) * SearchPage + 1)..(k * SearchPage)}
        BY <2>4, <2>7
      <3> QED BY <3>1 DEF Page, Tagged
    <2>9. i \in Listed(got, "universe") BY <2>5, <2>6, <2>8 DEF Listed
    <2>10. i \in Bodies(got) BY <2>7, <2>9 DEF Bodies
    <2> QED BY <2>10 DEF CodesOf
  <1>8. CodesOf(Bodies(got)) = Regular(v)
    <2> HIDE DEF T, Read
    <2> QED BY <1>6, <1>7
  <1> QED BY <1>8

\* A search that is accepted lists a code once.
LEMMA OneItemOfCode ==
    ASSUME NEW got, NEW vs, AllGiven(got, vs), Consistent(got, "universe"),
           NEW i \in Listed(got, "universe"), NEW j \in Listed(got, "universe"), i.code = j.code
    PROVE  i = j
  <1>1. PICK r \in Pages(got, "universe") : i \in got[r].items BY DEF Listed
  <1>2. PICK q \in Pages(got, "universe") : j \in got[q].items BY DEF Listed
  <1>3. r = q
    <2>1. i.code \in CodesOf(got[r].items) /\ i.code \in CodesOf(got[q].items)
      BY <1>1, <1>2 DEF CodesOf
    <2> QED BY <2>1 DEF Consistent
  <1>4. r \in DOMAIN got /\ r.search = "universe" BY DEF Pages
  <1>5. PICK v \in vs : got[r] = Page(v, "universe", r.of) BY <1>4 DEF AllGiven, GivenBy
  <1> DEFINE item(c) == [code |-> c, nipc |-> v[c].nipc, active |-> v[c].active, ghost |-> v[c].ghost]
  <1>6. \A k \in got[r].items : \E c \in DOMAIN v : k = item(c)
    <2> DEFINE here == {e \in DOMAIN v : Cardinality({d \in DOMAIN v : d <= e})
                                           \in ((r.of - 1) * SearchPage + 1)..(r.of * SearchPage)}
    <2>1. got[r].items = {item(c) : c \in here} BY <1>5 DEF Page, Tagged
    <2>2. here \subseteq DOMAIN v OBVIOUS
    <2> HIDE DEF here, item
    <2> QED BY <2>1, <2>2
  <1>7. PICK c \in DOMAIN v : i = item(c) BY <1>1, <1>6
  <1>8. PICK d \in DOMAIN v : j = item(d) BY <1>2, <1>3, <1>6
  <1> QED BY <1>7, <1>8

LEMMA OwnersAreListed ==
    ASSUME NEW listed, NEW n \in Owned(listed) PROVE OwnerOf(listed, n) \in CodesOf(listed)
  <1>1. Owners(listed, n) # {} BY FS_EmptySet DEF Owned
  <1>2. Owners(listed, n) \subseteq listed BY DEF Owners, Holders
  <1> QED BY <1>1, <1>2 DEF OwnerOf, CodesOf

AllCodes == UNION {DOMAIN reg : reg \in BodyRegisters}

\* The entities of codes that are found by their NIPC were free.
LEMMA TakenByNipc ==
    ASSUME NEW listed, \A i, j \in listed : i.code = j.code => i = j, NEW c \in ViaNipc(listed)
    PROVE  LET n == NipcIn(listed, c)
           IN n \in DOMAIN nipcOf /\ Free(n) /\ Owns(listed, c, n)
  <1>1. PICK j \in listed : /\ j.code = c /\ j.nipc \in Owned(listed)
                            /\ OwnerOf(listed, j.nipc) = j.code /\ Free(j.nipc)
    BY DEF ViaNipc
  <1>2. NipcIn(listed, c) = j.nipc BY <1>1 DEF NipcIn
  <1> QED BY <1>1, <1>2 DEF Free, Owns

\* Known codes keep their entities; two codes of which one is new get one entity only if they own
\* two of its NIPCs and it had no code; an entity of this importer's exists or is made now.
LEMMA EntitiesStayApart ==
    ASSUME AnchorInv, NEW listed, \A i, j \in listed : i.code = j.code => i = j,
           CodesOf(listed) \subseteq AllCodes
    PROVE  LET E == EntityOf(listed)
           IN /\ \A c, d \in DOMAIN E : c # d /\ E[c] = E[d] =>
                   \/ {c, d} \subseteq DOMAIN anchorOf
                   \/ /\ {c, d} \cap DOMAIN anchorOf = {}
                      /\ \A b \in DOMAIN anchorOf : anchorOf[b] # E[c]
                      /\ \E m, n \in DOMAIN nipcOf :
                           /\ m # n /\ nipcOf[m] = E[c] /\ nipcOf[n] = E[c]
                           /\ Owns(listed, c, m) /\ Owns(listed, d, n)
              /\ \A d \in DOMAIN E : E[d] \in NewEntities =>
                   E[d] \in DOMAIN kindOf \cup {NewEntity(c) : c \in NewBodies(listed)}
              /\ \A d \in DOMAIN anchorOf : d \in DOMAIN E /\ E[d] = anchorOf[d]
  <1> DEFINE E == EntityOf(listed)
             Via == ViaNipc(listed) \ DOMAIN anchorOf
             New == NewBodies(listed)
             of(c) == NipcIn(listed, c)
  <1>1. ViaNipc(listed) \subseteq CodesOf(listed) BY DEF ViaNipc, CodesOf
  <1>2. /\ DOMAIN E = DOMAIN anchorOf \cup Via \cup New
        /\ Via \cap DOMAIN anchorOf = {} /\ New \cap DOMAIN anchorOf = {}
    BY <1>1 DEF EntityOf, NewBodies
  <1>3. \A c \in DOMAIN anchorOf : E[c] = anchorOf[c] BY DEF EntityOf
  <1>4. \A c \in Via : E[c] = nipcOf[of(c)] BY <1>1 DEF EntityOf
  <1>5. \A c \in New : E[c] = NewEntity(c) /\ NewEntity(c) \in NewEntities
    BY DEF EntityOf, NewBodies, NewEntities, AllCodes
  <1>6. \A c \in Via : /\ \A d \in DOMAIN anchorOf : anchorOf[d] # nipcOf[of(c)]
                       /\ of(c) \in DOMAIN nipcOf /\ Owns(listed, c, of(c))
    BY TakenByNipc DEF Free
  <1>7. \A c, d : NewEntity(c) = NewEntity(d) => c = d BY DEF NewEntity
  <1> HIDE DEF E, Via, New, of
  <1>8. \A d \in New : NewEntity(d) \notin DOMAIN kindOf BY <1>2, <1>7 DEF AnchorInv
  <1>9. \A c \in DOMAIN anchorOf, d \in New : E[c] # E[d] BY <1>3, <1>5, <1>8 DEF AnchorInv
  <1>10. \A c \in Via, d \in New : E[c] # E[d] BY <1>4, <1>5, <1>6, <1>8 DEF AnchorInv
  <1>11. \A c \in DOMAIN anchorOf, d \in Via : E[c] # E[d] BY <1>3, <1>4, <1>6
  <1>12. \A c, d \in New : E[c] = E[d] => c = d BY <1>5, <1>7
  <1>13. ASSUME NEW c \in Via, NEW d \in Via, c # d, E[c] = E[d]
         PROVE  /\ {c, d} \cap DOMAIN anchorOf = {}
                /\ \A b \in DOMAIN anchorOf : anchorOf[b] # E[c]
                /\ \E m, n \in DOMAIN nipcOf :
                     /\ m # n /\ nipcOf[m] = E[c] /\ nipcOf[n] = E[c]
                     /\ Owns(listed, c, m) /\ Owns(listed, d, n)
    <2>1. of(c) # of(d) BY <1>6, <1>13 DEF Owns
    <2> QED BY <1>2, <1>4, <1>6, <1>13, <2>1
  <1>14. ASSUME NEW c \in DOMAIN E, NEW d \in DOMAIN E, c # d, E[c] = E[d]
         PROVE  {c, d} \subseteq DOMAIN anchorOf \/ (c \in Via /\ d \in Via)
    BY <1>2, <1>9, <1>10, <1>11, <1>12, <1>14
  <1>15. ASSUME NEW d \in DOMAIN E, E[d] \in NewEntities
         PROVE  E[d] \in DOMAIN kindOf \cup {NewEntity(c) : c \in New}
    BY <1>2, <1>3, <1>4, <1>5, <1>6, <1>15 DEF AnchorInv
  <1>16. \A d \in DOMAIN anchorOf : d \in DOMAIN E /\ E[d] = anchorOf[d] BY <1>2, <1>3
  <1> QED BY <1>13, <1>14, <1>15, <1>16 DEF E, New

\* What an import has read when it is applied.
LEMMA AppliedIsListed ==
    ASSUME ResponsesInv, InOrder(received), ApplyBodies
    PROVE  LET listed == Bodies(received)
           IN /\ Complete(received, "universe") /\ Consistent(received, "universe")
              /\ \A i, j \in listed : i.code = j.code => i = j
              /\ Steady(versions) => \E v \in versions : CodesOf(listed) = Regular(v)
              /\ CodesOf(listed) \subseteq AllCodes
  <1> DEFINE listed == Bodies(received)
  <1>1. Complete(received, "universe") /\ Consistent(received, "universe")
    BY DEF ApplyBodies, Done, Agree, Searches
  <1>2. AllGiven(received, versions) /\ versions \subseteq BodyRegisters BY DEF ResponsesInv
  <1>3. \A i, j \in listed : i.code = j.code => i = j
    BY <1>1, <1>2, OneItemOfCode DEF Bodies
  <1>4. Steady(versions) => \E v \in versions : CodesOf(listed) = Regular(v)
    BY <1>1, <1>2, SearchIsOfOneVersion
  <1>5. ASSUME NEW i \in listed PROVE i.code \in AllCodes
    <2>1. PICK r \in Pages(received, "universe") : i \in received[r].items BY DEF Bodies, Listed
    <2>2. r \in DOMAIN received /\ r.search = "universe" BY DEF Pages
    <2>3. PICK v \in versions : received[r] = Page(v, "universe", r.of)
      BY <1>2, <2>2 DEF AllGiven, GivenBy
    <2> DEFINE item(c) == [code |-> c, nipc |-> v[c].nipc, active |-> v[c].active, ghost |-> v[c].ghost]
               here == {e \in DOMAIN v : Cardinality({d \in DOMAIN v : d <= e})
                                           \in ((r.of - 1) * SearchPage + 1)..(r.of * SearchPage)}
    <2>4. received[r].items = {item(c) : c \in here} BY <2>3 DEF Page, Tagged
    <2>5. here \subseteq DOMAIN v OBVIOUS
    <2>6. PICK c \in DOMAIN v : i = item(c)
      <3> HIDE DEF here, item
      <3> QED BY <2>1, <2>4, <2>5
    <2> QED BY <1>2, <2>6 DEF AllCodes
  <1> QED BY <1>1, <1>3, <1>4, <1>5 DEF CodesOf

LEMMA ApplyAnchors ==
    ASSUME ResponsesInv, InOrder(received), AnchorInv, ApplyBodies PROVE AnchorInv'
  <1> DEFINE listed == Bodies(received)
             E == EntityOf(listed)
             hist == Histories(received, crawl.limit)
             owned == {n \in Owned(listed) : n \notin DOMAIN nipcOf}
             made == {NewEntity(c) : c \in NewBodies(listed)}
  <1>1. /\ \A d \in DOMAIN E : E[d] \in NewEntities => E[d] \in DOMAIN kindOf \cup made
        /\ \A d \in DOMAIN anchorOf : d \in DOMAIN E /\ E[d] = anchorOf[d]
    BY AppliedIsListed, EntitiesStayApart
  <1>2. DOMAIN E = CodesOf(listed) \cup DOMAIN anchorOf BY DEF EntityOf
  <1>3. anchorOf' = E /\ DOMAIN kindOf' = DOMAIN kindOf \cup made BY DEF ApplyBodies
  <1>4. nipcOf' = [n \in DOMAIN nipcOf \cup owned |->
                     IF n \in owned THEN E[OwnerOf(listed, n)] ELSE nipcOf[n]]
    BY DEF ApplyBodies
  <1>5. \A n \in owned : OwnerOf(listed, n) \in DOMAIN E BY <1>2, OwnersAreListed
  <1>6. \A e \in made : \E d \in DOMAIN E : e = NewEntity(d) BY <1>2 DEF NewBodies
  <1> HIDE DEF E, owned, made
  <1>7. ASSUME NEW n \in DOMAIN nipcOf', nipcOf'[n] \in NewEntities PROVE nipcOf'[n] \in DOMAIN kindOf'
    <2>1. CASE n \in owned BY <1>1, <1>3, <1>4, <1>5, <1>7, <2>1
    <2>2. CASE n \notin owned BY <1>3, <1>4, <1>7, <2>2 DEF AnchorInv
    <2> QED BY <2>1, <2>2
  <1>8. \A e \in DOMAIN kindOf' : \E d \in DOMAIN anchorOf' : e = NewEntity(d)
    BY <1>1, <1>3, <1>6 DEF AnchorInv
  <1>9. DOMAIN boards' \subseteq DOMAIN E
    <2>1. boards' = Replaced(boards, BoardsOf(hist), DOMAIN hist = CodesOf(listed))
      BY DEF ApplyBodies
    <2>2. DOMAIN BoardsOf(hist) \subseteq DOMAIN hist BY DEF BoardsOf, Filled
    <2>3. DOMAIN hist \subseteq CodesOf(listed) BY DEF Histories, ToRead
    <2>4. DOMAIN boards \subseteq DOMAIN anchorOf BY DEF AnchorInv
    <2>5. DOMAIN boards' \subseteq DOMAIN BoardsOf(hist) \cup DOMAIN boards
      BY <2>1 DEF Replaced
    <2> QED BY <1>2, <2>2, <2>3, <2>4, <2>5
  <1>10. \A d \in DOMAIN anchorOf' : anchorOf'[d] \in NewEntities => anchorOf'[d] \in DOMAIN kindOf'
    BY <1>1, <1>3
  <1> QED BY <1>3, <1>7, <1>8, <1>9, <1>10 DEF AnchorInv, NewEntity, NewEntities

\* The boards of an import are those of the histories it read.
LEMMA ApplyBoards ==
    ASSUME ResponsesInv, InOrder(received), AnchorInv, ApplyBodies PROVE BoardsAreThose'
  <1> DEFINE listed == Bodies(received)
             hist == Histories(received, crawl.limit)
             complete == DOMAIN hist = CodesOf(listed)
             new == BoardsOf(hist)
  <1>1. /\ boards' = Replaced(boards, new, complete)
        /\ lastSnapshot'.organisations = listed /\ lastSnapshot'.complete = complete
        /\ lastSnapshot'.read = DOMAIN hist /\ lastSnapshot'.since = versions
        /\ lastSnapshot'.boardsBefore = boards
    BY DEF ApplyBodies
  <1>2. ASSUME NEW c \in DOMAIN hist
        PROVE  \E v \in versions : c \in DOMAIN v /\ hist[c] = v[c].history
    <2>1. c \in ToRead(received, crawl.limit) /\ hist[c] = received[Asked("history", c)]
      BY DEF Histories
    <2>2. Asked("history", c) \in DOMAIN received
      BY <2>1 DEF ApplyBodies, Done, HistoriesLeft
    <2>3. PICK v \in versions : GivenBy(v, Asked("history", c), received[Asked("history", c)])
      BY <2>2 DEF ResponsesInv, AllGiven
    <2> QED BY <2>1, <2>3 DEF GivenBy, Asked, HistoryOf
  <1>3. /\ DOMAIN new \subseteq DOMAIN hist
        /\ \A c \in DOMAIN hist : c \in DOMAIN new => new[c] = Named(hist[c])
        /\ \A c \in DOMAIN hist : c \notin DOMAIN new => Named(hist[c]) = {}
    BY DEF BoardsOf, Filled
  <1>4. DOMAIN hist \subseteq CodesOf(listed) BY DEF Histories, ToRead
  <1> HIDE DEF listed, hist, new
  <1>5. complete => boards' = new BY <1>1 DEF Replaced
  <1>6. ~complete => boards' = [c \in DOMAIN boards \cup DOMAIN new |->
                                  IF c \in DOMAIN new THEN new[c] ELSE boards[c]]
    BY <1>1 DEF Replaced
  <1> HIDE DEF complete
  <1>7. ASSUME NEW c \in DOMAIN hist
        PROVE  \/ BoardOf(boards', c) = Named(hist[c])
               \/ ~complete /\ BoardOf(boards', c) = BoardOf(boards, c)
    <2>1. CASE complete BY <1>3, <1>5, <2>1 DEF BoardOf
    <2>2. CASE ~complete /\ c \in DOMAIN new BY <1>3, <1>6, <2>2 DEF BoardOf
    <2>3. CASE ~complete /\ c \notin DOMAIN new BY <1>6, <2>3 DEF BoardOf
    <2> QED BY <2>1, <2>2, <2>3
  <1>8. complete => DOMAIN boards' \subseteq CodesOf(listed) BY <1>3, <1>4, <1>5
  <1>9. ~complete => \A c \in DOMAIN boards : c \notin DOMAIN hist => BoardOf(boards', c) = boards[c]
    BY <1>3, <1>6 DEF BoardOf
  <1>10. DOMAIN boards' \subseteq DOMAIN anchorOf' BY ApplyAnchors DEF AnchorInv
  <1>11. \A c \in DOMAIN hist :
           \/ \E v \in versions : c \in DOMAIN v /\ BoardOf(boards', c) = Named(v[c].history)
           \/ ~complete /\ BoardOf(boards', c) = BoardOf(boards, c)
    BY <1>2, <1>7
  <1> QED BY <1>1, <1>8, <1>9, <1>10, <1>11 DEF BoardsAreThose, BoardOf, Named

LEMMA ApplyIsTrue ==
    ASSUME ResponsesInv, InOrder(received), AnchorInv, ApplyBodies PROVE BodiesAreTrue'
  <1> DEFINE listed == Bodies(received)
  <1>1. lastSnapshot'.organisations = listed /\ lastSnapshot'.since = versions
    BY DEF ApplyBodies
  <1>2. UniverseIsWhole'
    BY <1>1, AppliedIsListed DEF UniverseIsWhole, Steady, Regular
  <1>3. EntitiesAreDistinct'
    <2> DEFINE E == EntityOf(listed)
    <2>1. /\ lastSnapshot'.before = anchorOf /\ lastSnapshot'.nipcsBefore = nipcOf
          /\ lastSnapshot'.after = E
      BY DEF ApplyBodies
    <2>2. /\ \A c, d \in DOMAIN E : c # d /\ E[c] = E[d] =>
               \/ {c, d} \subseteq DOMAIN anchorOf
               \/ /\ {c, d} \cap DOMAIN anchorOf = {}
                  /\ \A b \in DOMAIN anchorOf : anchorOf[b] # E[c]
                  /\ \E m, n \in DOMAIN nipcOf :
                       /\ m # n /\ nipcOf[m] = E[c] /\ nipcOf[n] = E[c]
                       /\ Owns(listed, c, m) /\ Owns(listed, d, n)
          /\ \A d \in DOMAIN anchorOf : d \in DOMAIN E /\ E[d] = anchorOf[d]
      BY AppliedIsListed, EntitiesStayApart
    <2>3. CodesOf(listed) \subseteq DOMAIN E BY DEF EntityOf
    <2>4. Owned(listed) \subseteq DOMAIN nipcOf' BY DEF ApplyBodies
    <2> HIDE DEF E, listed
    <2>5. /\ \A c, n : Owns(lastSnapshot.organisations, c, n)' <=> Owns(listed, c, n)
          /\ CodesOf(lastSnapshot.organisations)' = CodesOf(listed)
          /\ Owned(lastSnapshot.organisations)' = Owned(listed)
      BY <1>1 DEF Owns, Owned, OwnerOf, Owners, Holders, CodesOf
    <2>6. ASSUME NEW c \in DOMAIN E, NEW d \in DOMAIN E, c # d, E[c] = E[d],
                 ~({c, d} \subseteq DOMAIN anchorOf)
          PROVE  TwoNipcs(c, d)'
      <3>1. /\ {c, d} \cap DOMAIN anchorOf = {}
            /\ \A b \in DOMAIN anchorOf : anchorOf[b] # E[c]
            /\ \E m, n \in DOMAIN nipcOf :
                 /\ m # n /\ nipcOf[m] = E[c] /\ nipcOf[n] = E[c]
                 /\ Owns(listed, c, m) /\ Owns(listed, d, n)
        BY <2>2, <2>6
      <3> QED BY <2>1, <2>5, <3>1 DEF TwoNipcs
    <2>7. /\ \A c \in DOMAIN lastSnapshot.before' :
               c \in DOMAIN lastSnapshot.after' /\ lastSnapshot.after'[c] = lastSnapshot.before'[c]
          /\ \A c, d \in DOMAIN lastSnapshot.after' :
               c # d /\ lastSnapshot.after'[c] = lastSnapshot.after'[d] =>
                 {c, d} \subseteq DOMAIN lastSnapshot.before' \/ TwoNipcs(c, d)'
      BY <2>1, <2>2, <2>6
    <2> QED BY <2>1, <2>3, <2>4, <2>5, <2>7 DEF EntitiesAreDistinct
  <1> QED BY <1>2, <1>3, ApplyBoards DEF BodiesAreTrue

LEMMA GivenOfMore ==
    ASSUME NEW got, NEW vs, NEW ws, AllGiven(got, vs), vs \subseteq ws PROVE AllGiven(got, ws)
  BY DEF AllGiven

WithResponse(got, q, response) == [r \in DOMAIN got \cup {q} |-> IF r = q THEN response ELSE got[r]]

LEMMA GivenOfOneMore ==
    ASSUME NEW got, NEW vs, NEW q, NEW response, AllGiven(got, vs),
           \E v \in vs : GivenBy(v, q, response)
    PROVE  AllGiven(WithResponse(got, q, response), vs)
  BY DEF AllGiven, WithResponse

LEMMA NothingRead == /\ InOrder(<<>>) /\ \A vs : AllGiven(<<>>, vs)
  <1>1. DOMAIN <<>> = {} OBVIOUS
  <1>2. \A t : Pages(<<>>, t) = {} BY <1>1 DEF Pages
  <1>3. \A t : {Asked(t, k) : k \in 1..0} = {} OBVIOUS
  <1> QED BY <1>1, <1>2, <1>3 DEF InOrder, AllGiven

\* What is received, kept or published while a crawl goes on.
LEMMA ResponsesStep ==
    ASSUME ResponsesInv, InOrder(received), BodiesNext
    PROVE  ResponsesInv' /\ InOrder(received')
  <1> USE DEF ResponsesInv
  <1>1. CASE StartCrawl
    <2>1. AllGiven(cached', versions')
      <3>1. CASE cached = <<>> BY <1>1, <3>1, NothingRead DEF StartCrawl
      <3>2. CASE cached # <<>> BY <1>1, <3>2, GivenOfMore DEF StartCrawl
      <3> QED BY <3>1, <3>2
    <2>2. received' = <<>> /\ bodies' = bodies /\ "on" \in DOMAIN crawl' /\ crawl'.on
      BY <1>1 DEF StartCrawl, NotRunning
    <2>3. bodies \in versions' /\ versions' \subseteq BodyRegisters BY <1>1 DEF StartCrawl
    <2> QED BY <2>1, <2>2, <2>3, NothingRead
  <1>2. CASE FromCache
    <2> DEFINE q == Request
    <2>1. q \in DOMAIN cached /\ crawl.on /\ ~Done(received, crawl.limit)
      BY <1>2 DEF FromCache, Crawling
    <2>2. received' = WithResponse(received, q, cached[q]) BY <1>2 DEF FromCache, WithResponse
    <2>3. q = NextRequest(received, crawl.limit) BY DEF Request
    <2>4. InOrder(received') BY <2>1, <2>2, <2>3, NextIsInOrder DEF WithResponse
    <2>5. \E v \in versions : GivenBy(v, q, cached[q])
      <3> HIDE DEF q
      <3> QED BY <2>1 DEF AllGiven
    <2>6. AllGiven(received', versions)
      <3> HIDE DEF q
      <3> QED BY <2>2, <2>5, GivenOfOneMore
    <2> QED BY <1>2, <2>1, <2>4, <2>6 DEF FromCache
  <1>3. CASE Receive
    <2> DEFINE q == Request
    <2>1. PICK a \in Responses(q) :
            /\ received' = WithResponse(received, q, a)
            /\ cached' = cached \/ cached' = WithResponse(cached, q, a)
      BY <1>3 DEF Receive, WithResponse
    <2>2. "on" \in DOMAIN crawl' /\ crawl'.on = crawl.on BY <1>3 DEF Receive
    <2>3. crawl.on /\ ~Done(received, crawl.limit) /\ UNCHANGED <<bodies, versions>>
      BY <1>3 DEF Receive, Asking, Crawling
    <2>4. InOrder(received')
      <3>1. q = NextRequest(received, crawl.limit) BY DEF Request
      <3> QED BY <2>1, <2>3, <3>1, NextIsInOrder DEF WithResponse
    <2>5. \E v \in versions : GivenBy(v, q, a)
      <3> HIDE DEF q
      <3>1. CASE q.search = "history" BY <2>1, <3>1 DEF GivenBy, Responses, Answered, Past
      <3>2. CASE q.search # "history" BY <2>1, <3>2 DEF GivenBy, Responses
      <3> QED BY <3>1, <3>2
    <2>6. AllGiven(received', versions) /\ AllGiven(cached', versions)
      <3>1. AllGiven(WithResponse(received, q, a), versions) /\ AllGiven(WithResponse(cached, q, a), versions)
        <4> HIDE DEF q
        <4> QED BY <2>5, GivenOfOneMore
      <3> QED BY <2>1, <3>1
    <2> QED BY <2>2, <2>3, <2>4, <2>6
  <1>4. CASE Renew \/ TryAgain
    <2>1. "on" \in DOMAIN crawl' /\ crawl'.on = crawl.on BY <1>4 DEF Renew, TryAgain
    <2> QED BY <1>4, <2>1 DEF Renew, TryAgain, Asking, Crawling
  <1>5. CASE EndCrawl \/ ApplyBodies
    <2>1. received' = <<>> /\ crawl' = NotRunning /\ UNCHANGED <<bodies, cached, versions>>
      BY <1>5 DEF EndCrawl, ApplyBodies
    <2> QED BY <2>1, NothingRead DEF NotRunning
  <1>6. CASE DropCache
    BY <1>6, NothingRead DEF DropCache
  <1>7. CASE ChangeRegister
    BY <1>7, GivenOfMore DEF ChangeRegister, collecting
  <1>8. CASE ReviewIdentity
    BY <1>8 DEF ReviewIdentity, collecting
  <1> QED BY <1>1, <1>2, <1>3, <1>4, <1>5, <1>6, <1>7, <1>8 DEF BodiesNext

\* Only an import and a reviewer write what is anchored.
LEMMA OthersLeaveAnchors ==
    ASSUME BodiesNext, ~ApplyBodies, ~ReviewIdentity PROVE UNCHANGED anchored
  BY DEF BodiesNext, StartCrawl, FromCache, Asking, Receive, Renew, TryAgain, EndCrawl, DropCache,
         ChangeRegister

\* A reviewer gives a code or a NIPC to an entity that exists.
LEMMA ReviewAnchors ==
    ASSUME AnchorInv, ReviewIdentity
    PROVE  /\ AnchorInv'
           /\ DOMAIN anchorOf \subseteq DOMAIN anchorOf' /\ DOMAIN nipcOf \subseteq DOMAIN nipcOf'
  <1>1. PICK id \in Reviewable, e \in OtherEntities \cup DOMAIN kindOf :
          /\ anchorOf' = anchorOf \/ anchorOf' = Given(anchorOf, id[2], e)
          /\ nipcOf' = nipcOf \/ nipcOf' = Given(nipcOf, id[2], e)
    BY DEF ReviewIdentity
  <1>2. UNCHANGED <<kindOf, boards>> BY DEF ReviewIdentity
  <1>3. e \in NewEntities => e \in DOMAIN kindOf BY AnchorAssumption DEF AnchorAssumption
  <1>4. /\ DOMAIN anchorOf \subseteq DOMAIN anchorOf'
        /\ \A c \in DOMAIN anchorOf' : anchorOf'[c] = e \/ (c \in DOMAIN anchorOf /\ anchorOf'[c] = anchorOf[c])
    BY <1>1 DEF Given
  <1>5. /\ DOMAIN nipcOf \subseteq DOMAIN nipcOf'
        /\ \A n \in DOMAIN nipcOf' : nipcOf'[n] = e \/ (n \in DOMAIN nipcOf /\ nipcOf'[n] = nipcOf[n])
    BY <1>1 DEF Given
  <1>6. \A c \in DOMAIN anchorOf' : anchorOf'[c] \in NewEntities => anchorOf'[c] \in DOMAIN kindOf'
    BY <1>2, <1>3, <1>4 DEF AnchorInv
  <1>7. \A n \in DOMAIN nipcOf' : nipcOf'[n] \in NewEntities => nipcOf'[n] \in DOMAIN kindOf'
    BY <1>2, <1>3, <1>5 DEF AnchorInv
  <1>8. \A f \in DOMAIN kindOf' : \E d \in DOMAIN anchorOf' : f = NewEntity(d)
    BY <1>2, <1>4 DEF AnchorInv
  <1>9. DOMAIN boards' \subseteq DOMAIN anchorOf' BY <1>2, <1>4 DEF AnchorInv
  <1> QED BY <1>4, <1>5, <1>6, <1>7, <1>8, <1>9 DEF AnchorInv, NewEntity, NewEntities

LEMMA ReviewIsTrue ==
    ASSUME AnchorInv, BodiesAreTrue, ReviewIdentity PROVE BodiesAreTrue'
  <1>1. UNCHANGED <<boards, lastSnapshot>> BY DEF ReviewIdentity
  <1>2. DOMAIN anchorOf \subseteq DOMAIN anchorOf' /\ DOMAIN nipcOf \subseteq DOMAIN nipcOf'
    BY ReviewAnchors
  <1> SUFFICES ASSUME lastSnapshot # NotApplied
               PROVE  UniverseIsWhole' /\ EntitiesAreDistinct' /\ BoardsAreThose'
    BY <1>1 DEF BodiesAreTrue, NotApplied
  <1>3. UniverseIsWhole /\ EntitiesAreDistinct /\ BoardsAreThose BY DEF BodiesAreTrue
  <1>4. UniverseIsWhole' BY <1>1, <1>3 DEF UniverseIsWhole
  <1>5. EntitiesAreDistinct'
    <2>1. \A c, d : TwoNipcs(c, d)' <=> TwoNipcs(c, d) BY <1>1 DEF TwoNipcs
    <2> QED BY <1>1, <1>2, <1>3, <2>1 DEF EntitiesAreDistinct
  <1>6. BoardsAreThose' BY <1>1, <1>2, <1>3 DEF BoardsAreThose
  <1> QED BY <1>4, <1>5, <1>6

LEMMA BodiesStart == BodiesInit => BodiesInv
  <1> SUFFICES ASSUME BodiesInit PROVE BodiesInv
    OBVIOUS
  <1>1. ResponsesInv /\ InOrder(received) BY NothingRead DEF BodiesInit, ResponsesInv, NotRunning
  <1>2. AnchorInv
    <2>1. DOMAIN <<>> = {} OBVIOUS
    <2> QED BY <2>1, AnchorAssumption DEF BodiesInit, AnchorInv, AnchorAssumption
  <1> QED BY <1>1, <1>2 DEF BodiesInit, BodiesInv, BodiesAreTrue

LEMMA BodiesInvariance == BodiesSpec => []BodiesInv
  <1>1. ASSUME BodiesInv, [BodiesNext]_bodyVars PROVE BodiesInv'
    <2>1. ResponsesInv' /\ InOrder(received')
      <3>1. CASE UNCHANGED bodyVars BY <1>1, <3>1 DEF bodyVars, collecting, BodiesInv, ResponsesInv
      <3> QED BY <1>1, <3>1, ResponsesStep DEF BodiesInv
    <2>2. CASE ApplyBodies BY <1>1, <2>1, <2>2, ApplyAnchors, ApplyIsTrue DEF BodiesInv
    <2>3. CASE ReviewIdentity
      BY <1>1, <2>1, <2>3, ReviewAnchors, ReviewIsTrue DEF BodiesInv
    <2>4. CASE ~ApplyBodies /\ ~ReviewIdentity
      <3>1. UNCHANGED anchored BY <1>1, <2>4, OthersLeaveAnchors DEF bodyVars
      <3>2. AnchorInv' BY <1>1, <3>1 DEF BodiesInv, AnchorInv, anchored, identities
      <3>3. BodiesAreTrue'
        BY <1>1, <3>1 DEF anchored, identities, BodiesInv, BodiesAreTrue, UniverseIsWhole,
              EntitiesAreDistinct, BoardsAreThose, TwoNipcs
      <3> QED BY <2>1, <3>2, <3>3 DEF BodiesInv
    <2> QED BY <2>2, <2>3, <2>4
  <1> QED BY <1>1, BodiesStart, PTL DEF BodiesSpec

\* Whatever is cached, retried, killed, reviewed or published meanwhile, an import takes the
\* organisations of one register and leaves the boards that were published.  It moves no code, and
\* gives a code the entity of another only where an entity without a code holds the NIPCs of two.
THEOREM BodiesStayTrue == BodiesSpec => []BodiesAreTrue
  <1>1. BodiesInv => BodiesAreTrue BY DEF BodiesInv
  <1> QED BY <1>1, BodiesInvariance, PTL
-----------------------------------------------------------------------------
(* ParliamentRegisters: the list. *)

WithOneAt(q, S, s, k, d) ==
    /\ q \in Seq(S) /\ Len(q) = Len(s) + 1
    /\ \A j \in 1..(Len(s) + 1) : q[j] = IF j < k THEN s[j] ELSE IF j = k THEN d ELSE s[j - 1]
WithoutOneAt(q, S, s, k) ==
    /\ q \in Seq(S) /\ Len(q) = Len(s) - 1
    /\ \A j \in 1..(Len(s) - 1) : q[j] = IF j < k THEN s[j] ELSE s[j + 1]

LEMMA Inserted ==
    ASSUME NEW S, NEW s \in Seq(S), NEW k \in 1..(Len(s) + 1), NEW d \in S
    PROVE  WithOneAt(InsertAt(s, k, d), S, s, k, d)
  <1> DEFINE a == SubSeq(s, 1, k - 1)
             b == a \o <<d>>
             c == SubSeq(s, k, Len(s))
  <1>1. a \in Seq(S) /\ Len(a) = k - 1 /\ \A j \in 1..(k - 1) : a[j] = s[j] BY SubSeqProperties
  <1>2. c \in Seq(S) /\ Len(c) = Len(s) - k + 1 /\ \A j \in 1..(Len(s) - k + 1) : c[j] = s[k + j - 1]
    BY SubSeqProperties
  <1>3. InsertAt(s, k, d) = b \o c BY DEF InsertAt
  <1> HIDE DEF a, c
  <1>4. b \in Seq(S) /\ Len(b) = k /\ \A j \in 1..k : b[j] = IF j < k THEN s[j] ELSE d BY <1>1
  <1> HIDE DEF b
  <1>5. /\ b \o c \in Seq(S) /\ Len(b \o c) = Len(s) + 1
        /\ \A j \in 1..(Len(s) + 1) : (b \o c)[j] = IF j <= k THEN b[j] ELSE c[j - k]
    <2>1. b \in Seq(S) /\ c \in Seq(S) BY <1>2, <1>4
    <2>2. /\ b \o c \in Seq(S) /\ Len(b \o c) = Len(b) + Len(c)
          /\ \A j \in 1..(Len(b) + Len(c)) : (b \o c)[j] = IF j <= Len(b) THEN b[j] ELSE c[j - Len(b)]
      BY <2>1, ConcatProperties
    <2>3. Len(b) = k /\ Len(b) + Len(c) = Len(s) + 1 BY <1>2, <1>4
    <2> QED BY <2>2, <2>3
  <1>6. ASSUME NEW j \in 1..(Len(s) + 1)
        PROVE  (b \o c)[j] = IF j < k THEN s[j] ELSE IF j = k THEN d ELSE s[j - 1]
    <2>1. CASE j <= k BY <1>4, <1>5, <2>1
    <2>2. CASE j > k
      <3>1. j - k \in 1..(Len(s) - k + 1) /\ k + (j - k) - 1 = j - 1 BY <2>2
      <3>2. c[j - k] = s[k + (j - k) - 1] BY <1>2, <3>1
      <3> QED BY <1>5, <2>2, <3>1, <3>2
    <2>3. j <= k \/ j > k OBVIOUS
    <2> HIDE DEF b, c
    <2> QED BY <2>1, <2>2, <2>3, Zenon
  <1> QED BY <1>3, <1>5, <1>6 DEF WithOneAt

LEMMA Removed ==
    ASSUME NEW S, NEW s \in Seq(S), NEW k \in 1..Len(s)
    PROVE  WithoutOneAt(RemoveAt(s, k), S, s, k)
  <1> DEFINE a == SubSeq(s, 1, k - 1)
             c == SubSeq(s, k + 1, Len(s))
  <1>1. a \in Seq(S) /\ Len(a) = k - 1 /\ \A j \in 1..(k - 1) : a[j] = s[j] BY SubSeqProperties
  <1>2. c \in Seq(S) /\ Len(c) = Len(s) - k /\ \A j \in 1..(Len(s) - k) : c[j] = s[k + j]
    BY SubSeqProperties
  <1>3. RemoveAt(s, k) = a \o c BY DEF RemoveAt
  <1> HIDE DEF a, c
  <1>4. a \in Seq(S) /\ c \in Seq(S) BY <1>1, <1>2
  <1>5. /\ a \o c \in Seq(S) /\ Len(a \o c) = Len(a) + Len(c)
        /\ \A j \in 1..(Len(a) + Len(c)) : (a \o c)[j] = IF j <= Len(a) THEN a[j] ELSE c[j - Len(a)]
    BY <1>4, ConcatProperties
  <1>6. Len(a) = k - 1 /\ Len(a) + Len(c) = Len(s) - 1 BY <1>1, <1>2
  <1>7. ASSUME NEW j \in 1..(Len(s) - 1)
        PROVE  (a \o c)[j] = IF j < k THEN s[j] ELSE s[j + 1]
    <2>1. CASE j < k BY <1>1, <1>5, <1>6, <2>1
    <2>2. CASE j >= k
      <3>1. j - (k - 1) \in 1..(Len(s) - k) /\ k + (j - (k - 1)) = j + 1 BY <2>2
      <3>2. c[j - (k - 1)] = s[k + (j - (k - 1))] BY <1>2, <3>1
      <3> QED BY <1>5, <1>6, <2>2, <3>1, <3>2
    <2>3. j < k \/ j >= k OBVIOUS
    <2> QED BY <2>1, <2>2, <2>3, Zenon
  <1> QED BY <1>3, <1>5, <1>6, <1>7 DEF WithoutOneAt

LEMMA Elements == ASSUME NEW S, NEW s \in Seq(S) PROVE ToSet(s) = {s[j] : j \in 1..Len(s)}
  BY DEF ToSet

\* While nobody left, whoever stays on the list is met or still ahead; while nobody came, all
\* are among those first listed.
PagingInv ==
    /\ deputies \in Seq(Deputies)
    /\ reading \in {"form", "search"} => IsInjective(deputies)
    /\ reading = "list" =>
         /\ pageNumber \in Nat
         /\ ~wentOut => /\ throughout \subseteq ToSet(deputies)
                        /\ ~more => throughout \subseteq met
                        /\ more => \A k \in 1..Len(deputies) :
                             deputies[k] \in throughout /\ k <= pageNumber * PageSize
                               => deputies[k] \in met
         /\ ~cameIn => \E S : /\ IsFiniteSet(S) /\ Cardinality(S) = total
                              /\ throughout \subseteq S /\ met \subseteq S
                              /\ ToSet(deputies) \subseteq S
    /\ ListsAreComplete

LEMMA CountedOnce ==
    ASSUME NEW S, NEW s \in Seq(S), IsInjective(s)
    PROVE  IsFiniteSet(ToSet(s)) /\ Cardinality(ToSet(s)) = Len(s)
  <1> DEFINE f == [k \in 1..Len(s) |-> s[k]]
  <1>1. f \in Bijection(1..Len(s), ToSet(s))
    <2>1. ToSet(s) = {s[k] : k \in 1..Len(s)} BY DEF ToSet
    <2>2. f \in [1..Len(s) -> ToSet(s)] BY <2>1
    <2>3. IsInjective(f) BY DEF IsInjective
    <2>4. \A y \in ToSet(s) : \E k \in 1..Len(s) : f[k] = y BY <2>1
    <2> HIDE DEF f
    <2>5. f \in Injection(1..Len(s), ToSet(s)) BY <2>2, <2>3 DEF Injection
    <2>6. f \in Surjection(1..Len(s), ToSet(s)) BY <2>2, <2>4 DEF Surjection
    <2> QED BY <2>5, <2>6 DEF Bijection
  <1>2. IsFiniteSet(1..Len(s)) /\ Cardinality(1..Len(s)) = Len(s)
    <2>1. Len(s) \in Nat OBVIOUS
    <2> QED BY <2>1, FS_Interval
  <1> QED BY <1>1, <1>2, FS_Bijection DEF ExistsBijection

LEMMA PagingSearched == ASSUME PagingInv, Searched PROVE PagingInv'
  <1> USE RegistersAssumption
  <1>1. /\ deputies' = deputies /\ IsInjective(deputies) /\ reading' = "list" /\ pageNumber' = 1
        /\ more' = HasMore(1) /\ total' = Len(deputies) /\ met' = PageRows(1)
        /\ throughout' = ToSet(deputies)
    BY DEF PagingInv, Searched, Got, parliament
  <1>2. PageRows(1) = {deputies[k] : k \in 1..Len(deputies) \cap 1..PageSize}
    BY DEF PageRows, PagingInv
  <1>3. ~HasMore(1) => ToSet(deputies) \subseteq PageRows(1) BY <1>2 DEF HasMore, ToSet, PagingInv
  <1>4. PageRows(1) \subseteq ToSet(deputies) BY <1>2 DEF ToSet, PagingInv
  <1>5. \A k \in 1..Len(deputies) : k <= 1 * PageSize => deputies[k] \in PageRows(1) BY <1>2
  <1>6. IsFiniteSet(ToSet(deputies)) /\ Cardinality(ToSet(deputies)) = Len(deputies)
    BY <1>1, CountedOnce DEF PagingInv
  <1>7. ListsAreComplete' BY <1>1 DEF ListsAreComplete
  <1> QED BY <1>1, <1>3, <1>4, <1>5, <1>6, <1>7 DEF PagingInv

LEMMA PagingNext == ASSUME PagingInv, NextPage PROVE PagingInv'
  <1> USE RegistersAssumption
  <1>1. /\ deputies' = deputies /\ reading = "list" /\ reading' = "list" /\ more
        /\ pageNumber \in Nat /\ pageNumber' = pageNumber + 1 /\ more' = HasMore(pageNumber + 1)
        /\ met' = met \cup PageRows(pageNumber + 1) /\ total' = total
        /\ throughout' = throughout /\ cameIn' = cameIn /\ wentOut' = wentOut
    BY DEF PagingInv, NextPage, Got, parliament, history
  <1> DEFINE n == pageNumber * PageSize
  <1>2. n \in Nat /\ (pageNumber + 1) * PageSize = n + PageSize /\ ((pageNumber + 1) - 1) * PageSize = n
    BY <1>1
  <1>3. PageRows(pageNumber + 1) = {deputies[k] : k \in 1..Len(deputies) \cap (n + 1)..(n + PageSize)}
    BY <1>2 DEF PageRows, PagingInv
  <1>4. HasMore(pageNumber + 1) <=> n + PageSize < Len(deputies) BY <1>2 DEF HasMore
  <1>5. pageNumber' * PageSize = n + PageSize BY <1>1, <1>2
  <1> HIDE DEF n
  <1>6. ASSUME ~wentOut
        PROVE  /\ throughout \subseteq ToSet(deputies)
               /\ \A k \in 1..Len(deputies) : deputies[k] \in throughout /\ k <= n + PageSize
                    => deputies[k] \in met'
    <2>1. \A k \in 1..Len(deputies) : deputies[k] \in throughout /\ k <= n => deputies[k] \in met
      BY <1>1, <1>6 DEF PagingInv, n
    <2>2. throughout \subseteq ToSet(deputies) BY <1>1, <1>6 DEF PagingInv
    <2>3. \A k \in 1..Len(deputies) : k <= n + PageSize => k <= n \/ k \in (n + 1)..(n + PageSize)
      BY <1>2
    <2> QED BY <1>1, <1>3, <2>1, <2>2, <2>3
  <1>7. ASSUME ~wentOut, n + PageSize >= Len(deputies) PROVE throughout \subseteq met'
    <2>1. \A k \in 1..Len(deputies) : k <= n + PageSize BY <1>2, <1>7 DEF PagingInv
    <2>2. ToSet(deputies) = {deputies[k] : k \in 1..Len(deputies)} BY DEF ToSet, PagingInv
    <2> QED BY <1>6, <1>7, <2>1, <2>2
  <1>8. PageRows(pageNumber + 1) \subseteq ToSet(deputies) BY <1>3 DEF ToSet, PagingInv
  <1>9. ListsAreComplete' BY <1>1 DEF ListsAreComplete
  <1>10. ~more' => n + PageSize >= Len(deputies) BY <1>1, <1>2, <1>4 DEF PagingInv
  <1> QED BY <1>1, <1>5, <1>6, <1>7, <1>8, <1>9, <1>10 DEF PagingInv

LEMMA PagingEnds == ASSUME PagingInv, ListEnds PROVE PagingInv'
  <1>1. (cameIn /\ wentOut) \/ throughout \subseteq met
    <2>1. ASSUME ~wentOut PROVE throughout \subseteq met BY <2>1 DEF PagingInv, ListEnds
    <2>2. ASSUME ~cameIn PROVE throughout \subseteq met
      <3>1. PICK S : /\ IsFiniteSet(S) /\ Cardinality(S) = total /\ throughout \subseteq S
                     /\ met \subseteq S
        BY <2>2 DEF PagingInv, ListEnds
      <3>2. met = S BY <3>1, FS_Subset DEF ListEnds
      <3> QED BY <3>1, <3>2
    <2> QED BY <2>1, <2>2
  <1> QED BY <1>1 DEF PagingInv, ListEnds, ListsAreComplete, parliament, paging, history

\* Nobody who stays is passed over by somebody who comes.
LEMMA PagingElected ==
    ASSUME PagingInv, NEW d \in Deputies \ ToSet(deputies), Elect(d), reading \in {"list", "pages"},
           cameIn' = (cameIn \/ reading = "list"),
           UNCHANGED <<wentOut, throughout, reading, paging>>
    PROVE  PagingInv'
  <1>1. PICK k \in 1..(Len(deputies) + 1) : deputies' = InsertAt(deputies, k, d) BY DEF Elect
  <1>2. /\ deputies' \in Seq(Deputies) /\ Len(deputies') = Len(deputies) + 1
        /\ \A j \in 1..(Len(deputies) + 1) :
             deputies'[j] = IF j < k THEN deputies[j] ELSE IF j = k THEN d ELSE deputies[j - 1]
    <2>1. deputies \in Seq(Deputies) /\ d \in Deputies /\ k \in 1..(Len(deputies) + 1)
      BY DEF PagingInv
    <2>2. WithOneAt(InsertAt(deputies, k, d), Deputies, deputies, k, d) BY <2>1, Inserted
    <2> QED BY <1>1, <2>2 DEF WithOneAt
  <1>3. /\ ToSet(deputies) = {deputies[j] : j \in 1..Len(deputies)}
        /\ ToSet(deputies') = {deputies'[j] : j \in 1..Len(deputies')}
    BY <1>2, Elements DEF PagingInv
  <1>4. ASSUME NEW j \in 1..Len(deputies) PROVE deputies[j] \in ToSet(deputies')
    <2>1. CASE j < k BY <1>2, <1>3, <2>1 DEF PagingInv
    <2>2. CASE j >= k
      <3>1. j + 1 \in 1..Len(deputies') /\ deputies'[j + 1] = deputies[j] BY <1>2, <2>2 DEF PagingInv
      <3> QED BY <1>3, <3>1
    <2> QED BY <2>1, <2>2
  <1>5. ToSet(deputies) \subseteq ToSet(deputies') BY <1>3, <1>4
  <1>6. ASSUME reading = "list", ~wentOut, more, NEW j \in 1..Len(deputies'),
               deputies'[j] \in throughout, j <= pageNumber * PageSize
        PROVE  deputies'[j] \in met
    <2> DEFINE n == pageNumber * PageSize
    <2>1. n \in Nat BY <1>6, RegistersAssumption DEF PagingInv
    <2>2. \A i \in 1..Len(deputies) : deputies[i] \in throughout /\ i <= n => deputies[i] \in met
      BY <1>6 DEF PagingInv
    <2>3. j <= n BY <1>6
    <2> HIDE DEF n
    <2>4. CASE j < k BY <1>2, <1>6, <2>1, <2>2, <2>3, <2>4 DEF PagingInv
    <2>5. CASE j > k
      <3>1. j - 1 \in 1..Len(deputies) /\ deputies'[j] = deputies[j - 1] /\ j - 1 <= n
        BY <1>2, <2>1, <2>3, <2>5 DEF PagingInv
      <3> QED BY <1>6, <2>2, <3>1
    <2>6. CASE j = k
      <3>1. d \in throughout BY <1>2, <1>6, <2>6 DEF PagingInv
      <3> QED BY <1>6, <3>1 DEF PagingInv
    <2> QED BY <2>4, <2>5, <2>6
  <1>7. ListsAreComplete' BY DEF ListsAreComplete, PagingInv, paging
  <1> QED BY <1>2, <1>5, <1>6, <1>7 DEF PagingInv, paging

LEMMA PagingLeft ==
    ASSUME PagingInv, NEW k \in DOMAIN deputies, deputies' = RemoveAt(deputies, k),
           throughout' = throughout \ {deputies[k]}, reading \in {"list", "pages"},
           wentOut' = (wentOut \/ reading = "list"), UNCHANGED <<cameIn, reading, paging>>
    PROVE  PagingInv'
  <1>1. k \in 1..Len(deputies) /\ Len(deputies) \in Nat BY DEF PagingInv
  <1>2. /\ deputies' \in Seq(Deputies) /\ Len(deputies') = Len(deputies) - 1
        /\ \A j \in 1..(Len(deputies) - 1) :
             deputies'[j] = IF j < k THEN deputies[j] ELSE deputies[j + 1]
    <2>1. deputies \in Seq(Deputies) BY DEF PagingInv
    <2>2. WithoutOneAt(deputies', Deputies, deputies, k) BY <1>1, <2>1, Removed
    <2> QED BY <2>2 DEF WithoutOneAt
  <1>3. /\ ToSet(deputies) = {deputies[j] : j \in 1..Len(deputies)}
        /\ ToSet(deputies') = {deputies'[j] : j \in 1..Len(deputies')}
    BY <1>2, Elements DEF PagingInv
  <1>4. ToSet(deputies') \subseteq ToSet(deputies) BY <1>1, <1>2, <1>3
  <1>5. ListsAreComplete' BY DEF ListsAreComplete, PagingInv, paging
  <1> QED BY <1>2, <1>4, <1>5 DEF PagingInv, paging

\* A list that was accepted is complete.
LEMMA PagingStep == ASSUME PagingInv, [RegistersNext]_prvars PROVE PagingInv'
  <1>1. CASE SearchForm BY <1>1 DEF SearchForm, Got, PagingInv, ListsAreComplete, parliament, paging, history
  <1>2. CASE ReadPage BY <1>2 DEF ReadPage, Got, PagingInv, ListsAreComplete, parliament, paging, history
  <1>3. CASE ApplyGifts BY <1>3 DEF ApplyGifts, PagingInv, ListsAreComplete, parliament, paging, history
  <1>4. CASE AttemptFails BY <1>4 DEF AttemptFails, PagingInv, ListsAreComplete, parliament, paging, history
  <1>5. CASE GiveUp BY <1>5 DEF GiveUp, PagingInv, ListsAreComplete, parliament, paging, history
  <1>6. CASE ApplyActivities
    BY <1>6 DEF ApplyActivities, PagingInv, ListsAreComplete, parliament, paging, history
  <1>7. CASE UNCHANGED prvars
    BY <1>7 DEF prvars, PagingInv, ListsAreComplete, parliament, paging, history
  <1>8. CASE SiteChanges
    <2>1. reading \in {"list", "pages"} /\ UNCHANGED <<reading, paging>> BY <1>8 DEF SiteChanges
    <2>2. CASE UNCHANGED <<deputies, cameIn, wentOut, throughout>>
      BY <2>1, <2>2 DEF PagingInv, ListsAreComplete, paging
    <2> QED BY <1>8, <2>1, <2>2, PagingElected, PagingLeft DEF SiteChanges
  <1> QED BY <1>1, <1>2, <1>3, <1>4, <1>5, <1>6, <1>7, <1>8, PagingSearched, PagingNext, PagingEnds
          DEF RegistersNext

(* ParliamentRegisters: gifts. *)

\* The number of a member among those up to it tells it from any other.
LEMMA NumbersDiffer ==
    ASSUME NEW S \in SUBSET Nat, IsFiniteSet(S), NEW k \in S, NEW l \in S,
           Cardinality({i \in S : i <= k}) = Cardinality({i \in S : i <= l})
    PROVE  k = l
  <1> DEFINE To(n) == {i \in S : i <= n}
  <1>1. \A m, n \in S : m < n => Cardinality(To(m)) # Cardinality(To(n))
    <2> SUFFICES ASSUME NEW m \in S, NEW n \in S, m < n, Cardinality(To(m)) = Cardinality(To(n))
                 PROVE  FALSE
      OBVIOUS
    <2>0. m \in Nat /\ n \in Nat /\ \A i \in S : i \in Nat OBVIOUS
    <2>1. To(m) \subseteq To(n) /\ n \in To(n) /\ n \notin To(m)
      <3>1. n <= n /\ ~(n <= m) /\ \A i \in S : i <= m => i <= n BY <2>0
      <3> QED BY <3>1
    <2>2. IsFiniteSet(To(n)) BY FS_Subset, To(n) \subseteq S
    <2> HIDE DEF To
    <2> QED BY <2>1, <2>2, FS_Subset
  <1> QED BY <1>1

RowsWith(text, c) == {k \in DOMAIN text : text[k] = c}
EntriesWith(d, text, c) == {e \in Entries(d, text) : e[2] = c}

\* There are as many entries of a content as rows that have it.
LEMMA EntriesAreRows ==
    ASSUME NEW C, NEW text \in Seq(C), NEW d, NEW c
    PROVE  Cardinality(EntriesWith(d, text, c)) = Cardinality(RowsWith(text, c))
  <1> DEFINE K == {k \in DOMAIN text : text[k] = c}
             E == {e \in Entries(d, text) : e[2] = c}
             Number(k) == Cardinality({l \in 1..k : text[l] = text[k]})
             f == [k \in K |-> <<d, c, Number(k)>>]
  <1>1. DOMAIN text = 1..Len(text) /\ Len(text) \in Nat OBVIOUS
  <1>2. IsFiniteSet(K)
    <2>1. IsFiniteSet(1..Len(text)) BY <1>1, FS_Interval
    <2> QED BY <1>1, <2>1, FS_Subset, K \subseteq 1..Len(text)
  <1>3. \A k \in K : Number(k) = Cardinality({l \in K : l <= k})
    <2> SUFFICES ASSUME NEW k \in K PROVE {l \in 1..k : text[l] = text[k]} = {l \in K : l <= k}
      OBVIOUS
    <2> QED BY <1>1
  <1>4. E = {<<d, c, Number(k)>> : k \in K}
    <2>1. Entries(d, text) = {<<d, text[k], Number(k)>> : k \in DOMAIN text} BY DEF Entries
    <2> HIDE DEF Number
    <2> QED BY <2>1
  <1> HIDE DEF Number, E
  <1>5. f \in [K -> E] /\ \A e \in E : \E k \in K : f[k] = e BY <1>4
  <1>6. IsInjective(f)
    <2> SUFFICES ASSUME NEW k \in K, NEW l \in K, f[k] = f[l] PROVE k = l BY DEF IsInjective
    <2>1. Number(k) = Number(l) OBVIOUS
    <2>2. K \in SUBSET Nat BY <1>1
    <2> HIDE DEF K
    <2>3. Cardinality({i \in K : i <= k}) = Cardinality({i \in K : i <= l}) BY <1>3, <2>1
    <2> QED BY <1>2, <2>2, <2>3, NumbersDiffer
  <1> HIDE DEF f, K
  <1>7. f \in Bijection(K, E) BY <1>5, <1>6 DEF Bijection, Injection, Surjection
  <1> QED BY <1>2, <1>7, FS_Bijection DEF ExistsBijection, K, E, RowsWith, EntriesWith

GiftsInv ==
    /\ reading \notin {"activities", "done"} => pageRows \in [Deputies -> PageContents]
    /\ met \subseteq Deputies /\ DOMAIN pages \subseteq met
    /\ \A d \in DOMAIN pages : pages[d] \in PageContents
    /\ reading \in {"form", "search", "list"} => DOMAIN pages = {}
    /\ reading = "applied" => /\ DOMAIN pages = met
                              /\ gifts = UNION {Entries(d, pages[d]) : d \in DOMAIN pages}

LEMMA EntryNames == ASSUME NEW d, NEW text, NEW e \in Entries(d, text) PROVE e[1] = d
  <1> DEFINE Number(k) == Cardinality({l \in 1..k : text[l] = text[k]})
  <1>1. Entries(d, text) = {<<d, text[k], Number(k)>> : k \in DOMAIN text} BY DEF Entries
  <1> HIDE DEF Number
  <1> QED BY <1>1

LEMMA GiftsHold == GiftsInv => GiftsAreThose
  <1> SUFFICES ASSUME GiftsInv, reading = "applied" PROVE GiftsAreThose BY DEF GiftsAreThose
  <1> DEFINE Told(d, c) == Cardinality({e \in gifts : e[1] = d /\ e[2] = c})
             Read(d, c) == Cardinality({k \in DOMAIN pages[d] : pages[d][k] = c})
  <1>1. gifts = UNION {Entries(q, pages[q]) : q \in met} /\ DOMAIN pages = met BY DEF GiftsInv
  <1>2. ASSUME NEW d \in met, NEW c PROVE Told(d, c) = Read(d, c)
    <2>1. {e \in gifts : e[1] = d /\ e[2] = c} = {e \in Entries(d, pages[d]) : e[2] = c}
      BY <1>1, EntryNames
    <2>2. pages[d] \in Seq(ToSet(pages[d])) BY <1>1, RegistersAssumption DEF GiftsInv
    <2>3. Cardinality(EntriesWith(d, pages[d], c)) = Cardinality(RowsWith(pages[d], c))
      BY <2>2, EntriesAreRows
    <2> QED BY <2>1, <2>3 DEF EntriesWith, RowsWith
  <1>3. ASSUME NEW d, d \notin met, NEW c PROVE Told(d, c) = 0
    <2>1. {e \in gifts : e[1] = d /\ e[2] = c} = {} BY <1>1, <1>3, EntryNames
    <2> QED BY <2>1, FS_EmptySet
  <1>4. GiftsAreThose <=>
          \A d \in Deputies : \A c \in UNION {ToSet(content) : content \in PageContents} :
            Told(d, c) = IF d \in met THEN Read(d, c) ELSE 0
    BY <1>1 DEF GiftsAreThose
  <1> HIDE DEF Told, Read
  <1> QED BY <1>2, <1>3, <1>4

LEMMA RowsAreDeputies == ASSUME PagingInv, NEW n PROVE PageRows(n) \subseteq Deputies
  BY DEF PageRows, PagingInv

LEMMA GiftsStep == ASSUME PagingInv, GiftsInv, [RegistersNext]_prvars PROVE GiftsInv'
  <1>1. CASE SearchForm BY <1>1 DEF SearchForm, Got, GiftsInv, parliament, paging, kept
  <1>2. CASE Searched BY <1>2, RowsAreDeputies DEF Searched, Got, GiftsInv, parliament, kept
  <1>3. CASE NextPage
    <2>1. met' \subseteq Deputies BY <1>3, RowsAreDeputies DEF NextPage, GiftsInv
    <2> QED BY <1>3, <2>1 DEF NextPage, Got, GiftsInv, parliament, kept
  <1>4. CASE ListEnds BY <1>4 DEF ListEnds, GiftsInv, parliament, paging, kept
  <1>5. CASE ReadPage
    <2>1. PICK d \in PagesLeft :
            pages' = [q \in DOMAIN pages \cup {d} |-> IF q = d THEN pageRows[d] ELSE pages[q]]
      BY <1>5 DEF ReadPage
    <2>2. d \in met /\ d \in Deputies /\ pageRows[d] \in PageContents
      BY <1>5, <2>1 DEF ReadPage, Got, PagesLeft, GiftsInv
    <2>3. DOMAIN pages' = DOMAIN pages \cup {d} /\ \A q \in DOMAIN pages' : pages'[q] \in PageContents
      BY <2>1, <2>2 DEF GiftsInv
    <2> QED BY <1>5, <2>2, <2>3 DEF ReadPage, Got, GiftsInv, parliament, paging, kept
  <1>6. CASE ApplyGifts BY <1>6 DEF ApplyGifts, PagesLeft, GiftsInv, parliament, paging
  <1>7. CASE AttemptFails BY <1>7 DEF AttemptFails, GiftsInv, parliament, paging, kept
  <1>8. CASE GiveUp BY <1>8 DEF GiveUp, GiftsInv, parliament, paging, kept
  <1>9. CASE SiteChanges
    <2>1. pageRows' \in [Deputies -> PageContents]
      BY <1>9 DEF SiteChanges, GiftsInv
    <2> QED BY <1>9, <2>1 DEF SiteChanges, GiftsInv, paging, kept
  <1>10. CASE ApplyActivities BY <1>10 DEF ApplyActivities, GiftsInv, parliament, paging
  <1>11. CASE UNCHANGED prvars BY <1>11 DEF prvars, GiftsInv, parliament, paging, kept
  <1> QED BY <1>1, <1>2, <1>3, <1>4, <1>5, <1>6, <1>7, <1>8, <1>9, <1>10, <1>11 DEF RegistersNext

(* ParliamentRegisters: activities. *)

ActivitiesInv ==
    /\ reading \in {"activities", "done"} => activity \in ActivityFiles
    /\ reading = "done" => /\ hearings = {HearingEvent(activity[k]) : k \in Held}
                           /\ elections = UNION {Candidacies(k) : k \in Elections}

LEMMA HostsAreSure ==
    ASSUME activity \in ActivityFiles, NEW k \in Held, NEW p \in HearingEvent(activity[k]).parties, p[3]
    PROVE  \/ Reported[activity[k].committee] \cap Committees = {p[2]}
           \/ \E t \in DOMAIN Tiers[activity[k].committee] :
                Tiers[activity[k].committee][t] \ UNION {Claimed(b) : b \in Acronyms} = {p[2]}
  <1> DEFINE a == activity[k].committee
             claimed == UNION {Claimed(b) : b \in Acronyms}
  <1>1. p \in Host(a)
    <2> DEFINE guests == {<<"attendee", n, FALSE>> : n \in activity[k].attendees}
    <2>1. HearingEvent(activity[k]).parties = Host(a) \cup guests BY DEF HearingEvent
    <2>2. p \notin guests
      <3> SUFFICES ASSUME NEW n \in activity[k].attendees, p = <<"attendee", n, FALSE>> PROVE FALSE
        OBVIOUS
      <3>1. p[3] = FALSE OBVIOUS
      <3> QED BY <3>1
    <2> HIDE DEF guests
    <2> QED BY <2>1, <2>2
  <1>2. a # NoCommittee /\ p[2] \in Mapped(a)
    <2>1. a # NoCommittee /\ Mapped(a) # {}
      <3>1. a # NoCommittee BY <1>1 DEF Host
      <3>2. ASSUME Mapped(a) = {} PROVE FALSE
        <4>1. p = <<"host", a, FALSE>> BY <1>1, <3>1, <3>2 DEF Host
        <4>2. p[3] = FALSE BY <4>1
        <4> QED BY <4>2
      <3> QED BY <3>1, <3>2
    <2>2. Host(a) = {<<"host", c, c \in Organs>> : c \in Mapped(a)} BY <2>1 DEF Host
    <2>3. PICK c \in Mapped(a) : p = <<"host", c, c \in Organs>> BY <1>1, <2>2
    <2> QED BY <2>1, <2>3
  <1>3. k \in DOMAIN activity /\ activity[k].kind = "hearing" BY DEF Held
  <1>4. a \in DOMAIN Tiers
    <2>1. activity[k] \in ToSet(activity) BY <1>3 DEF ToSet
    <2> QED BY <1>2, <1>3, <2>1, RegistersAssumption
  <1> HIDE DEF a
  <1>5. MayBe(a) \subseteq Committees /\ Cardinality(MayBe(a)) = 1 => MayBe(a) = {p[2]}
    <2> SUFFICES ASSUME MayBe(a) \subseteq Committees, Cardinality(MayBe(a)) = 1
                 PROVE  MayBe(a) = {p[2]}
      OBVIOUS
    <2>1. IsFiniteSet(MayBe(a)) BY FS_Subset, RegistersAssumption
    <2>2. PICK x : MayBe(a) = {x} BY <2>1, FS_Singleton
    <2>3. p[2] \in MayBe(a) BY <1>2 DEF Mapped
    <2> QED BY <2>2, <2>3
  <1>6. Cardinality(MayBe(a)) = 1 BY <1>2 DEF Mapped
  <1>7. CASE Claimed(a) # {}
    <2>1. MayBe(a) = Reported[a] \cap Committees BY <1>7 DEF MayBe, Claimed
    <2> QED BY <1>5, <1>6, <2>1 DEF a
  <1>8. CASE Claimed(a) = {}
    <2> DEFINE free == Committees \ claimed
               hits == [t \in DOMAIN Tiers[a] |-> Tiers[a][t] \cap free]
               some == {t \in DOMAIN hits : hits[t] # {}}
               first == CHOOSE t \in some : \A u \in some : t <= u
    <2>1. MayBe(a) = FirstTier(a, free) BY <1>8 DEF MayBe
    <2>2. some # {} /\ MayBe(a) = hits[first]
      <3>1. FirstTier(a, free) = IF some = {} THEN {} ELSE hits[first] BY DEF FirstTier
      <3>2. p[2] \in MayBe(a) BY <1>2 DEF Mapped
      <3> QED BY <2>1, <3>1, <3>2
    <2>3. some \subseteq 1..3 BY <1>4, RegistersAssumption
    <2>4. first \in some
      <3>1. \E t \in some : \A u \in some : t <= u
        <4> HIDE DEF some
        <4>0. \A t \in 1..3 : t = 1 \/ t = 2 \/ t = 3 OBVIOUS
        <4>1. \A t \in some : t = 1 \/ t = 2 \/ t = 3 BY <2>3, <4>0
        <4> QED BY <2>2, <4>1
      <3> QED BY <3>1
    <2>5. first \in DOMAIN Tiers[a] /\ MayBe(a) = Tiers[a][first] \cap free BY <2>2, <2>4
    <2>6. Tiers[a][first] \subseteq Committees BY <1>4, <2>5, RegistersAssumption
    <2> HIDE DEF first, claimed
    <2>7. Tiers[a][first] \ claimed = {p[2]} BY <1>5, <1>6, <2>5, <2>6
    <2> QED BY <2>5, <2>7 DEF a, claimed
  <1> QED BY <1>7, <1>8

LEMMA ElectionsAreRows ==
    ASSUME activity \in ActivityFiles
    PROVE  /\ Elections \subseteq Nat /\ IsFiniteSet(Elections)
           /\ \A k \in Elections : IsFiniteSet(NamesGiven(k))
  <1>1. activity \in Seq(ToSet(activity)) BY RegistersAssumption
  <1>2. DOMAIN activity = 1..Len(activity) /\ Len(activity) \in Nat BY <1>1
  <1>3. IsFiniteSet(1..Len(activity)) BY <1>2, FS_Interval
  <1>4. Elections \subseteq 1..Len(activity) BY <1>2 DEF Elections
  <1>5. ASSUME NEW k \in Elections PROVE IsFiniteSet(NamesGiven(k))
    <2>1. activity[k] \in ToSet(activity) /\ activity[k].kind = "election" BY DEF Elections, ToSet
    <2>2. activity[k].names \in Seq(ToSet(activity[k].names)) BY <2>1, RegistersAssumption
    <2> DEFINE names == activity[k].names
    <2>3. DOMAIN names = 1..Len(names) /\ Len(names) \in Nat BY <2>2
    <2>4. NamesGiven(k) \subseteq 1..Len(names) BY <2>3 DEF NamesGiven
    <2> HIDE DEF names
    <2>5. IsFiniteSet(1..Len(names)) BY <2>3, FS_Interval
    <2> QED BY <2>4, <2>5, FS_Subset
  <1>6. Elections \subseteq Nat BY <1>2, <1>4
  <1> QED BY <1>3, <1>4, <1>5, <1>6, FS_Subset

\* Equal activities are told apart by their number.
LEMMA ActivitiesDiffer ==
    ASSUME activity \in ActivityFiles, NEW k \in Elections, NEW l \in Elections, Activity(k) = Activity(l)
    PROVE  k = l
  <1> DEFINE Equal(i) == {j \in Elections : activity[j].id = activity[i].id}
             Until(i) == {j \in Elections : j <= i /\ activity[j].id = activity[i].id}
  <1>1. \A i : Activity(i) = <<activity[i].id, Cardinality(Until(i))>> BY DEF Activity
  <1>2. activity[k].id = activity[l].id /\ Cardinality(Until(k)) = Cardinality(Until(l))
    <2> HIDE DEF Until
    <2> QED BY <1>1
  <1>3. Equal(k) \in SUBSET Nat /\ IsFiniteSet(Equal(k)) /\ k \in Equal(k) /\ l \in Equal(k)
    <2>1. Equal(k) \subseteq Elections /\ k \in Equal(k) /\ l \in Equal(k) BY <1>2
    <2> HIDE DEF Equal
    <2> QED BY <2>1, ElectionsAreRows, FS_Subset
  <1>4. Until(k) = {j \in Equal(k) : j <= k} OBVIOUS
  <1>5. Until(l) = {j \in Equal(k) : j <= l} BY <1>2
  <1> HIDE DEF Equal, Until
  <1>6. Cardinality({j \in Equal(k) : j <= k}) = Cardinality({j \in Equal(k) : j <= l})
    BY <1>2, <1>4, <1>5
  <1> QED BY <1>3, <1>6, NumbersDiffer

LEMMA CandidatesAreNames ==
    ASSUME activity \in ActivityFiles
    PROVE  Cardinality(UNION {Candidacies(k) : k \in Elections})
             = Cardinality(UNION {{k} \X NamesGiven(k) : k \in Elections})
  <1> DEFINE W == UNION {{k} \X NamesGiven(k) : k \in Elections}
             E == UNION {Candidacies(k) : k \in Elections}
             Candidate(k, n) == <<Activity(k), n, activity[k].names[n]>>
             f == [w \in W |-> Candidate(w[1], w[2])]
  <1>1. \A w : w \in W <=> \E k \in Elections : \E n \in NamesGiven(k) : w = <<k, n>> OBVIOUS
  <1>2. \A e : e \in E <=> \E k \in Elections : \E n \in NamesGiven(k) : e = Candidate(k, n)
    <2>1. \A k : Candidacies(k) = {Candidate(k, n) : n \in NamesGiven(k)} BY DEF Candidacies, NamesGiven
    <2> HIDE DEF Candidate
    <2> QED BY <2>1
  <1>3. IsFiniteSet(W)
    <2> DEFINE N == UNION {NamesGiven(k) : k \in Elections}
    <2>1. IsFiniteSet({NamesGiven(k) : k \in Elections})
      <3> DEFINE names == [k \in Elections |-> NamesGiven(k)]
      <3>1. names \in Surjection(Elections, {NamesGiven(k) : k \in Elections}) BY DEF Surjection
      <3> QED BY <3>1, ElectionsAreRows, FS_Surjection
    <2>2. IsFiniteSet(N) BY <2>1, ElectionsAreRows, FS_UNION
    <2>3. IsFiniteSet(Elections \X N) BY <2>2, ElectionsAreRows, FS_Product
    <2>4. W \subseteq Elections \X N OBVIOUS
    <2> QED BY <2>3, <2>4, FS_Subset
  <1>4. \A k, n, j, m : Candidate(k, n) = Candidate(j, m) => Activity(k) = Activity(j) /\ n = m
    OBVIOUS
  <1> HIDE DEF Candidate, W, E
  <1>5. f \in [W -> E]
    <2> SUFFICES ASSUME NEW w \in W PROVE Candidate(w[1], w[2]) \in E OBVIOUS
    <2>1. PICK k \in Elections : \E n \in NamesGiven(k) : w = <<k, n>> BY <1>1
    <2>2. PICK n \in NamesGiven(k) : w = <<k, n>> BY <2>1
    <2> QED BY <1>2, <2>2
  <1>6. \A e \in E : \E w \in W : f[w] = e
    <2> TAKE e \in E
    <2>1. PICK k \in Elections : \E n \in NamesGiven(k) : e = Candidate(k, n) BY <1>2
    <2>2. PICK n \in NamesGiven(k) : e = Candidate(k, n) BY <2>1
    <2>3. <<k, n>> \in W BY <1>1
    <2>4. f[<<k, n>>] = e BY <2>2, <2>3
    <2> QED BY <2>3, <2>4
  <1>7. IsInjective(f)
    <2> SUFFICES ASSUME NEW v \in W, NEW w \in W, f[v] = f[w] PROVE v = w BY DEF IsInjective
    <2>1. PICK k \in Elections : \E n \in NamesGiven(k) : v = <<k, n>> BY <1>1
    <2>2. PICK n \in NamesGiven(k) : v = <<k, n>> BY <2>1
    <2>3. PICK j \in Elections : \E m \in NamesGiven(j) : w = <<j, m>> BY <1>1
    <2>4. PICK m \in NamesGiven(j) : w = <<j, m>> BY <2>3
    <2>5. Candidate(k, n) = Candidate(j, m) BY <2>2, <2>4
    <2>6. Activity(k) = Activity(j) /\ n = m BY <1>4, <2>5
    <2>7. k = j BY <2>6, ActivitiesDiffer
    <2> QED BY <2>2, <2>4, <2>6, <2>7
  <1> HIDE DEF f
  <1>8. f \in Bijection(W, E) BY <1>5, <1>6, <1>7 DEF Bijection, Injection, Surjection
  <1> QED BY <1>3, <1>8, FS_Bijection DEF ExistsBijection, W, E

LEMMA HearingsHold == ActivitiesInv => HearingsAreThose
  <1> SUFFICES ASSUME ActivitiesInv, reading = "done" PROVE HearingsAreThose BY DEF HearingsAreThose
  <1>1. activity \in ActivityFiles BY DEF ActivitiesInv
  <1>2. Cardinality(elections) = Cardinality(UNION {{k} \X NamesGiven(k) : k \in Elections})
    BY <1>1, CandidatesAreNames DEF ActivitiesInv
  <1>3. ASSUME NEW h \in hearings, NEW p \in h.parties, p[3]
        PROVE  \E k \in DOMAIN activity :
                 /\ activity[k].id = h.id
                 /\ \/ Reported[activity[k].committee] \cap Committees = {p[2]}
                    \/ \E t \in DOMAIN Tiers[activity[k].committee] :
                         Tiers[activity[k].committee][t] \ UNION {Claimed(b) : b \in Acronyms} = {p[2]}
    <2>1. PICK k \in Held : h = HearingEvent(activity[k]) BY <1>3 DEF ActivitiesInv
    <2>2. k \in DOMAIN activity /\ h.id = activity[k].id BY <2>1 DEF Held, HearingEvent
    <2> QED BY <1>1, <1>3, <2>1, <2>2, HostsAreSure
  <1> QED BY <1>2, <1>3 DEF HearingsAreThose

\* What is applied depends on the file alone.
LEMMA FileIsRead ==
    ASSUME activity' = activity
    PROVE  /\ {HearingEvent(activity[k]) : k \in Held}' = {HearingEvent(activity[k]) : k \in Held}
           /\ (UNION {Candidacies(k) : k \in Elections})' = UNION {Candidacies(k) : k \in Elections}
  <1>1. Held' = Held /\ Elections' = Elections /\ Acronyms' = Acronyms BY DEF Held, Elections, Acronyms
  <1>2. \A a : MayBe(a)' = MayBe(a) BY <1>1 DEF MayBe
  <1>3. \A a : Host(a)' = Host(a) BY <1>2 DEF Host, Mapped
  <1>4. \A row : HearingEvent(row)' = HearingEvent(row) BY <1>3 DEF HearingEvent
  <1>5. \A k : Candidacies(k)' = Candidacies(k) BY <1>1 DEF Candidacies, Activity
  <1> QED BY <1>1, <1>4, <1>5

LEMMA ActivitiesStep == ASSUME ActivitiesInv, [RegistersNext]_prvars PROVE ActivitiesInv'
  <1>1. CASE UNCHANGED kept /\ reading' \notin {"activities", "done"}
    BY <1>1 DEF ActivitiesInv
  <1>2. CASE ApplyActivities
    <2>1. /\ activity \in ActivityFiles /\ reading' = "done" /\ activity' = activity
          /\ hearings' = {HearingEvent(activity[k]) : k \in Held}
          /\ elections' = UNION {Candidacies(k) : k \in Elections}
      BY <1>2 DEF ApplyActivities, ActivitiesInv
    <2> QED BY <2>1, FileIsRead DEF ActivitiesInv
  <1>3. CASE UNCHANGED <<reading, kept>>
    <2>1. UNCHANGED <<reading, activity, hearings, elections>> BY <1>3 DEF kept
    <2> QED BY <2>1, FileIsRead DEF ActivitiesInv
  <1>4. CASE ApplyGifts BY <1>4 DEF ApplyGifts, ActivitiesInv
  <1>5. CASE AttemptFails \/ GiveUp BY <1>3, <1>5 DEF AttemptFails, GiveUp, ActivitiesInv
  <1> QED BY <1>1, <1>2, <1>3, <1>4, <1>5
          DEF RegistersNext, prvars, SearchForm, Searched, NextPage, ListEnds, ReadPage, SiteChanges, Got

\* However the site changes while it is read, a list that was accepted leaves out nobody who stayed
\* on it, unless some came and as many went; every declaration read is one gift, however often it
\* repeats; an entity is host of no hearing another could have held, and every elected person
\* named is one candidate.
THEOREM RegistersStayComplete == RegistersSpec => []RegistersAreComplete
  <1> DEFINE Inv == PagingInv /\ GiftsInv /\ ActivitiesInv
  <1>1. RegistersInit => Inv
    <2> SUFFICES ASSUME RegistersInit PROVE Inv OBVIOUS
    <2>1. reading # "activities" => deputies \in Lists /\ pageRows \in [Deputies -> PageContents]
      BY DEF RegistersInit
    <2>2. deputies \in Seq(Deputies)
      <3>1. CASE deputies \in Lists BY <3>1, RegistersAssumption
      <3>2. CASE deputies = <<>> BY <3>2
      <3> QED BY <3>1, <3>2 DEF RegistersInit
    <2>3. reading # "activities" => IsInjective(deputies) BY <2>1, RegistersAssumption
    <2>4. DOMAIN pages = {} /\ met = {} BY DEF RegistersInit
    <2>5. PagingInv BY <2>2, <2>3 DEF PagingInv, ListsAreComplete, RegistersInit
    <2>6. GiftsInv BY <2>1, <2>4 DEF GiftsInv, RegistersInit
    <2>7. ActivitiesInv BY DEF ActivitiesInv, RegistersInit
    <2> QED BY <2>5, <2>6, <2>7
  <1>2. Inv /\ [RegistersNext]_prvars => Inv' BY PagingStep, GiftsStep, ActivitiesStep
  <1>3. Inv => RegistersAreComplete
    BY GiftsHold, HearingsHold DEF PagingInv, RegistersAreComplete
  <1> QED BY <1>1, <1>2, <1>3, PTL DEF RegistersSpec

-----------------------------------------------------------------------------
(* BoardTables *)

VisitFields == {"on", "listed", "limit", "next", "link", "documents", "unreadable"}

\* The documents of a run are texts the site linked for their companies at some moment of it.
DocumentRead(d) == d.of \in DOMAIN BoardDocuments /\ d.rows = BoardRows(BoardDocuments[d.of])
LinkedFor(c, of, sites) == \E site \in sites : c \in DOMAIN site /\ site[c] = of

\* Why a company that the run came to has no document, or that it has one.
Seen(c) ==
    \/ c \in DOMAIN visit.documents
    \/ visit.unreadable
    \/ visit.link # Unlinked /\ c = visit.next
    \/ \E site \in sitesDuring : HasNoBoard(site, c)

VisitInv ==
    /\ boardSite \in BoardSites
    /\ DOMAIN visit = VisitFields
    /\ visit.on =>
         /\ boardSite \in sitesDuring
         /\ \E site \in sitesDuring : visit.listed = DOMAIN site
         /\ visit.listed \subseteq Nat \ {0} /\ visit.next \in Nat
         /\ visit.link # Unlinked => /\ visit.link \in DOMAIN BoardDocuments \cup {Unreadable}
                                    /\ LinkedFor(visit.next, visit.link, sitesDuring)
         /\ \A c \in DOMAIN visit.documents : /\ DocumentRead(visit.documents[c])
                                              /\ LinkedFor(c, visit.documents[c].of, sitesDuring)
         /\ \A c \in ChosenCompanies : c <= visit.next => Seen(c)
    /\ \A c \in DOMAIN lastVisit.read : DocumentRead(lastVisit.read[c])
    /\ BoardsFollowSite

LEMMA VisitStart == BoardsInit => VisitInv
  BY DEF BoardsInit, VisitInv, NoVisit, VisitFields, NotPublished, BoardsFollowSite

\* What was published stands until the next run is.
LEMMA FollowStays ==
    ASSUME BoardsFollowSite, UNCHANGED <<memberClaims, lastVisit>> PROVE BoardsFollowSite'
  BY DEF BoardsFollowSite, ReadIsPublished, OnlySeenIsWithdrawn, ReadNames, HasNoBoard

LEMMA ChosenAreListed == ChosenCompanies \subseteq visit.listed
  BY DEF ChosenCompanies

\* A run that is published follows the sites it saw.
LEMMA PublishedFollows ==
    ASSUME VisitInv, PublishBoards
    PROVE  /\ BoardsFollowSite' /\ \A c \in DOMAIN lastVisit'.read : DocumentRead(lastVisit'.read[c])
  <1>1. /\ visit.on /\ visit.link = Unlinked /\ \A c \in ChosenCompanies : c <= visit.next
    BY DEF PublishBoards, VisitDone
  <1>2. /\ lastVisit'.read = visit.documents /\ lastVisit'.complete = EveryBoard
        /\ lastVisit'.during = sitesDuring /\ lastVisit'.before = memberClaims
    BY DEF PublishBoards
  <1>3. /\ DOMAIN BoardScopes = {c \in DOMAIN visit.documents : visit.documents[c].rows # {}}
        /\ \A c \in DOMAIN BoardScopes : BoardScopes[c] = visit.documents[c].rows
    BY DEF BoardScopes
  <1>4. /\ DOMAIN memberClaims' = DOMAIN BoardScopes \cup (IF EveryBoard THEN {} ELSE DOMAIN memberClaims)
        /\ \A c \in DOMAIN memberClaims' :
             memberClaims'[c] = IF c \in DOMAIN BoardScopes THEN BoardScopes[c] ELSE memberClaims[c]
    BY DEF PublishBoards
  <1>5. \A c : ReadNames(c)' <=> c \in DOMAIN BoardScopes BY <1>2, <1>3 DEF ReadNames
  <1>6. ReadIsPublished'
    <2>1. \A c \in DOMAIN visit.documents : LinkedFor(c, visit.documents[c].of, sitesDuring)
      BY <1>1 DEF VisitInv
    <2>2. \A c \in DOMAIN visit.documents : visit.documents[c].rows # {} =>
            c \in DOMAIN memberClaims' /\ memberClaims'[c] = visit.documents[c].rows
      BY <1>3, <1>4
    <2> QED BY <1>2, <2>1, <2>2 DEF ReadIsPublished, LinkedFor
  <1>7. ASSUME NEW c \in DOMAIN memberClaims', ~ReadNames(c)'
        PROVE  ~EveryBoard /\ c \in DOMAIN memberClaims /\ memberClaims'[c] = memberClaims[c]
    BY <1>4, <1>5, <1>7
  <1>8. ASSUME NEW c \in DOMAIN memberClaims, c \notin DOMAIN memberClaims'
        PROVE  /\ EveryBoard
               /\ c \in DOMAIN visit.documents \/ \E site \in sitesDuring : HasNoBoard(site, c)
    <2>1. EveryBoard BY <1>4, <1>8
    <2>2. CASE c \in visit.listed
      <3>1. c \in ChosenCompanies /\ ~visit.unreadable BY <2>1, <2>2 DEF EveryBoard
      <3>2. Seen(c) BY <1>1, <3>1 DEF VisitInv
      <3> QED BY <1>1, <2>1, <3>1, <3>2 DEF Seen
    <2>3. CASE c \notin visit.listed
      <3>1. PICK site \in sitesDuring : visit.listed = DOMAIN site BY <1>1 DEF VisitInv
      <3> QED BY <2>1, <2>3, <3>1 DEF HasNoBoard
    <2> QED BY <2>2, <2>3
  <1>9. OnlySeenIsWithdrawn'
    BY <1>2, <1>7, <1>8 DEF OnlySeenIsWithdrawn, HasNoBoard
  <1> QED BY <1>1, <1>2, <1>6, <1>9 DEF BoardsFollowSite, VisitInv

\* A company that was seen stays so while sites, documents and what was unreadable are kept.
LEMMA SeenStays ==
    ASSUME NEW c, Seen(c), sitesDuring \subseteq sitesDuring',
           DOMAIN visit.documents \subseteq DOMAIN visit'.documents,
           visit.unreadable => visit'.unreadable,
           visit.link # Unlinked /\ c = visit.next => Seen(c)'
    PROVE  Seen(c)'
  BY DEF Seen, HasNoBoard

LEMMA VisitStep == ASSUME VisitInv, [BoardsNext]_boardVars PROVE VisitInv'
  <1>1. ASSUME UNCHANGED <<memberClaims, lastVisit>>
        PROVE  (BoardsFollowSite /\ \A c \in DOMAIN lastVisit.read : DocumentRead(lastVisit.read[c]))'
    BY <1>1, FollowStays DEF VisitInv, DocumentRead
  <1>2. CASE StartVisit
    <2>1. PICK limit \in BoardLimits :
            visit' = [NoVisit EXCEPT !.on = TRUE, !.listed = DOMAIN boardSite, !.limit = limit]
      BY <1>2 DEF StartVisit
    <2>2. /\ DOMAIN visit' = VisitFields /\ visit'.listed = DOMAIN boardSite /\ visit'.next = 0
          /\ visit'.documents = <<>> /\ visit'.link = Unlinked
      BY <2>1 DEF NoVisit, VisitFields
    <2>3. /\ UNCHANGED <<boardSite, memberClaims, lastVisit>> /\ sitesDuring' = {boardSite}
      BY <1>2 DEF StartVisit
    <2>4. boardSite \in BoardSites /\ DOMAIN boardSite \subseteq Nat \ {0}
      BY BoardAssumption DEF VisitInv, BoardAssumption
    <2>5. \A c \in ChosenCompanies' : ~(c <= visit'.next)
      BY <2>2, <2>4 DEF ChosenCompanies
    <2>6. DOMAIN visit'.documents = {} BY <2>2
    <2> QED BY <1>1, <2>2, <2>3, <2>4, <2>5, <2>6 DEF VisitInv
  <1>3. CASE VisitCompany
    <2>1. PICK c \in ChosenCompanies :
            /\ c > visit.next /\ c \in DOMAIN boardSite
            /\ \A d \in ChosenCompanies : d > visit.next => c <= d
            /\ visit' = [visit EXCEPT !.next = c, !.link = IF boardSite[c] = RefusedLink THEN Unlinked
                                                          ELSE boardSite[c]]
      BY <1>3 DEF VisitCompany
    <2>2. /\ visit.on /\ visit.link = Unlinked /\ UNCHANGED <<boardSite, sitesDuring, memberClaims, lastVisit>>
      BY <1>3 DEF VisitCompany
    <2>3. /\ DOMAIN visit' = VisitFields /\ visit'.on = visit.on /\ visit'.listed = visit.listed
          /\ visit'.limit = visit.limit /\ visit'.next = c /\ visit'.documents = visit.documents
          /\ visit'.unreadable = visit.unreadable
      BY <2>1 DEF VisitInv, VisitFields
    <2>4. visit'.link = IF boardSite[c] = RefusedLink THEN Unlinked ELSE boardSite[c]
      BY <2>1 DEF VisitInv, VisitFields
    <2>5. ChosenCompanies' = ChosenCompanies BY <2>3 DEF ChosenCompanies
    <2>6. visit.listed \subseteq Nat \ {0} /\ visit.next \in Nat BY <2>2 DEF VisitInv
    <2>7. ASSUME NEW d \in ChosenCompanies, d <= c PROVE Seen(d)'
      <3>1. d \in Nat /\ c \in Nat BY <2>6, ChosenAreListed
      <3>2. CASE d <= visit.next
        <4>1. Seen(d) BY <2>2, <3>2 DEF VisitInv
        <4> QED BY <2>2, <2>3, <4>1, SeenStays
      <3>3. CASE d > visit.next
        <4>1. d = c BY <2>1, <2>7, <3>1, <3>3
        <4>2. CASE boardSite[c] \notin {Unlinked, RefusedLink} BY <2>3, <2>4, <4>1, <4>2 DEF Seen
        <4>3. CASE boardSite[c] \in {Unlinked, RefusedLink}
          <5>1. HasNoBoard(boardSite, c) BY <4>3 DEF HasNoBoard
          <5>2. boardSite \in sitesDuring' BY <2>2 DEF VisitInv
          <5> QED BY <4>1, <5>1, <5>2 DEF Seen, HasNoBoard
        <4> QED BY <4>2, <4>3
      <3> QED BY <2>6, <3>1, <3>2, <3>3
    <2>8. c \in Nat BY <2>6, ChosenAreListed
    <2>9. visit'.link # Unlinked => /\ visit'.link \in DOMAIN BoardDocuments \cup {Unreadable}
                                    /\ LinkedFor(c, visit'.link, sitesDuring)
      <3>1. boardSite \in BoardSites /\ boardSite \in sitesDuring BY <2>2 DEF VisitInv
      <3>2. boardSite[c] \in DOMAIN BoardDocuments \cup {Unlinked, RefusedLink, Unreadable}
        BY <2>1, <3>1, BoardAssumption DEF BoardAssumption
      <3> QED BY <2>1, <2>4, <3>1, <3>2 DEF LinkedFor
    <2> QED BY <1>1, <2>2, <2>3, <2>5, <2>7, <2>8, <2>9 DEF VisitInv, LinkedFor
  <1>4. CASE ReadBoard
    <2> DEFINE of   == visit.link
               read == [of |-> of, rows |-> BoardRows(BoardDocuments[of])]
               documents == [c \in DOMAIN visit.documents \cup {visit.next} |->
                               IF c = visit.next THEN read ELSE visit.documents[c]]
    <2>1. visit.on /\ of # Unlinked /\ UNCHANGED <<boardSite, sitesDuring, memberClaims, lastVisit>>
      BY <1>4 DEF ReadBoard
    <2>2. visit' = IF of # Unreadable
                   THEN [visit EXCEPT !.link = Unlinked, !.documents = documents]
                   ELSE [visit EXCEPT !.link = Unlinked, !.unreadable = TRUE]
      BY <1>4 DEF ReadBoard
    <2>3. /\ DOMAIN visit' = VisitFields /\ visit'.on = visit.on /\ visit'.listed = visit.listed
          /\ visit'.limit = visit.limit /\ visit'.next = visit.next /\ visit'.link = Unlinked
      BY <2>2 DEF VisitInv, VisitFields
    <2>4. /\ of # Unreadable => visit'.documents = documents
                                /\ visit'.unreadable = visit.unreadable
          /\ of = Unreadable => visit'.unreadable /\ visit'.documents = visit.documents
      BY <2>2 DEF VisitInv, VisitFields
    <2>5. ChosenCompanies' = ChosenCompanies BY <2>3 DEF ChosenCompanies
    <2>6. of # Unreadable =>
            /\ DOMAIN visit'.documents = DOMAIN visit.documents \cup {visit.next}
            /\ \A c \in DOMAIN visit'.documents :
                 visit'.documents[c] = IF c = visit.next THEN read ELSE visit.documents[c]
      <3> HIDE DEF read
      <3> QED BY <2>4
    <2>7. of # Unreadable => DocumentRead(read) /\ LinkedFor(visit.next, read.of, sitesDuring)
      BY <2>1 DEF VisitInv, DocumentRead
    <2>8. ASSUME NEW c \in DOMAIN visit'.documents
          PROVE  DocumentRead(visit'.documents[c]) /\ LinkedFor(c, visit'.documents[c].of, sitesDuring)
      <3>1. \A d \in DOMAIN visit.documents :
              DocumentRead(visit.documents[d]) /\ LinkedFor(d, visit.documents[d].of, sitesDuring)
        BY <2>1 DEF VisitInv
      <3> HIDE DEF read, of
      <3>2. CASE of = Unreadable BY <2>4, <2>8, <3>1, <3>2
      <3>3. CASE of # Unreadable BY <2>6, <2>7, <2>8, <3>1, <3>3
      <3> QED BY <3>2, <3>3
    <2>9. ASSUME NEW c \in ChosenCompanies, c <= visit.next PROVE Seen(c)'
      <3>1. Seen(c) BY <2>1, <2>9 DEF VisitInv
      <3>2. c = visit.next => Seen(c)' BY <2>4, <2>6 DEF Seen
      <3>3. /\ DOMAIN visit.documents \subseteq DOMAIN visit'.documents
            /\ visit.unreadable => visit'.unreadable
        BY <2>4, <2>6
      <3> QED BY <2>1, <3>1, <3>2, <3>3, SeenStays
    <2> HIDE DEF read, of
    <2> QED BY <1>1, <2>1, <2>3, <2>5, <2>8, <2>9 DEF VisitInv, DocumentRead, LinkedFor
  <1>5. CASE EndVisit
    <2>1. visit' = NoVisit /\ UNCHANGED <<boardSite, memberClaims, lastVisit>> BY <1>5 DEF EndVisit
    <2>2. DOMAIN visit' = VisitFields /\ ~visit'.on BY <2>1 DEF NoVisit, VisitFields
    <2> QED BY <1>1, <2>1, <2>2 DEF VisitInv
  <1>6. CASE ChangeSite
    <2>1. /\ boardSite' \in BoardSites /\ UNCHANGED <<visit, memberClaims, lastVisit>>
          /\ visit.on => sitesDuring' = sitesDuring \cup {boardSite'}
      BY <1>6 DEF ChangeSite
    <2>2. ChosenCompanies' = ChosenCompanies BY <2>1 DEF ChosenCompanies
    <2>3. ASSUME visit.on, NEW c \in ChosenCompanies, c <= visit.next PROVE Seen(c)'
      <3>1. Seen(c) BY <2>3 DEF VisitInv
      <3> QED BY <2>1, <2>3, <3>1 DEF Seen, HasNoBoard
    <2>4. ASSUME visit.on, NEW c \in DOMAIN visit.documents
          PROVE  /\ DocumentRead(visit.documents[c])
                 /\ LinkedFor(c, visit.documents[c].of, sitesDuring')
      BY <2>1, <2>4 DEF VisitInv, LinkedFor
    <2>5. visit.on => \E site \in sitesDuring' : visit.listed = DOMAIN site
      BY <2>1 DEF VisitInv
    <2>6. visit.on /\ visit.link # Unlinked => LinkedFor(visit.next, visit.link, sitesDuring')
      BY <2>1 DEF VisitInv, LinkedFor
    <2> QED BY <1>1, <2>1, <2>2, <2>3, <2>4, <2>5, <2>6 DEF VisitInv, LinkedFor, DocumentRead
  <1>7. CASE PublishBoards
    <2>1. visit' = NoVisit /\ boardSite' = boardSite BY <1>7 DEF PublishBoards
    <2>2. DOMAIN visit' = VisitFields /\ ~visit'.on BY <2>1 DEF NoVisit, VisitFields
    <2>3. /\ BoardsFollowSite' /\ \A c \in DOMAIN lastVisit'.read : DocumentRead(lastVisit'.read[c])
      BY <1>7, PublishedFollows
    <2> QED BY <2>1, <2>2, <2>3 DEF VisitInv, DocumentRead
  <1>8. CASE UNCHANGED boardVars
    <2>1. UNCHANGED <<boardSite, visit, sitesDuring, memberClaims, lastVisit>> BY <1>8 DEF boardVars
    <2> QED BY <1>1, <2>1 DEF VisitInv, Seen, HasNoBoard, ChosenCompanies, DocumentRead, LinkedFor
  <1> QED BY <1>2, <1>3, <1>4, <1>5, <1>6, <1>7, <1>8 DEF BoardsNext

\* The parser reads nothing into any of the documents, and of those whose text lost nothing all.
EveryDocumentIsReadTruly ==
    \A d \in DOMAIN BoardDocuments :
      LET rows  == BoardRows(BoardDocuments[d])
          truth == BoardDocuments[d].truth
      IN /\ \A r \in rows : IsTrueRow(r, truth)
         /\ BoardDocuments[d].lossless => rows = truth /\ truth # {}

\* What is published is as true as the reading of each document.
LEMMA RowsAreAsRead ==
    ASSUME VisitInv, EveryDocumentIsReadTruly, lastVisit # NotPublished
    PROVE  RowsAreTrue /\ NothingSkipped
  <1>1. ReadIsPublished /\ OnlySeenIsWithdrawn BY DEF VisitInv, BoardsFollowSite
  <1>2. ASSUME NEW c \in DOMAIN lastVisit.read
        PROVE  /\ lastVisit.read[c].of \in DOMAIN BoardDocuments
               /\ lastVisit.read[c].rows = BoardRows(BoardDocuments[lastVisit.read[c].of])
    BY DEF VisitInv, DocumentRead
  <1>3. ASSUME NEW c \in DOMAIN lastVisit.read, c \in DOMAIN memberClaims
        PROVE  \/ \A r \in memberClaims[c] : IsTrueRow(r, BoardDocuments[lastVisit.read[c].of].truth)
               \/ /\ ~lastVisit.complete /\ lastVisit.read[c].rows = {}
                  /\ c \in DOMAIN lastVisit.before /\ memberClaims[c] = lastVisit.before[c]
    <2>1. CASE lastVisit.read[c].rows = {}
      BY <1>1, <1>3, <2>1 DEF OnlySeenIsWithdrawn, ReadNames
    <2>2. CASE lastVisit.read[c].rows # {}
      <3>1. memberClaims[c] = lastVisit.read[c].rows BY <1>1, <2>2 DEF ReadIsPublished
      <3> QED BY <1>2, <3>1 DEF EveryDocumentIsReadTruly
    <2> QED BY <2>1, <2>2
  <1>4. NothingSkipped
    BY <1>1, <1>2 DEF NothingSkipped, ReadIsPublished, EveryDocumentIsReadTruly
  <1> QED BY <1>3, <1>4 DEF RowsAreTrue

\* Whatever the site publishes while it is read, and however its documents are read, a board that
\* is published is the reading of a document that the site linked for its company meanwhile, and
\* none is withdrawn but for what a complete run saw.  If each document is read truly, so are
\* the members published.
THEOREM BoardsStayTrue ==
    BoardsSpec => [](BoardsFollowSite /\ (EveryDocumentIsReadTruly => BoardRowsAreTrue))
  <1>1. BoardsInit => VisitInv BY VisitStart
  <1>2. VisitInv /\ [BoardsNext]_boardVars => VisitInv' BY VisitStep
  <1>3. VisitInv => BoardsFollowSite /\ (EveryDocumentIsReadTruly => BoardRowsAreTrue)
    BY RowsAreAsRead DEF VisitInv, BoardRowsAreTrue
  <1> QED BY <1>1, <1>2, <1>3, PTL DEF BoardsSpec
=============================================================================
