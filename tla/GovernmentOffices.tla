-------------------------- MODULE GovernmentOffices --------------------------
(***************************************************************************)
(* government.py: the composition of one Government is a paged search for  *)
(* appointments, proved by the history on the page of each portfolio.  One *)
(* run reads everything and then applies the offices in one transaction,   *)
(* while appointments begin, end, are hidden or added on the site.  On the *)
(* site an appointment ends on the day of its successor.                   *)
(***************************************************************************)
EXTENDS Integers, FiniteSets, SequencesExt

CONSTANTS
    Compositions,               \* what the site may publish, in its order
    Premier,                    \* the portfolio of the Prime Minister, which has no history
    NoEnd,                      \* later than every day
    ReadOn,                     \* reference dates of the runs
    SearchSize, MostPages,      \* appointments on a page of the search, and pages read
    MaxGovernmentEvents         \* runs and changes of the composition in the instance

\* Days are numbers, and nothing begins on or after NoEnd.
DatedOnSite(a) == a.from \in 0..NoEnd - 1 /\ a.to \in 0..NoEnd

ASSUME GovernmentAssumption ==
    /\ NoEnd \in Nat \ {0} /\ ReadOn \subseteq 0..NoEnd - 1
    /\ \A c \in Compositions : /\ c.rows \in Seq(ToSet(c.rows))
                               /\ \A a \in ToSet(c.rows) : DatedOnSite(a)

VARIABLES
    composition,                \* published now
    ministers,                  \* the run: date, days of the Government, appointments read
    histories,                  \* the run: the page of each portfolio read
    publishedSince,             \* history: what was published since the run began
    officesHeld, portfolioStatus, \* current observations of both scopes
    officesAsOf,                \* SourceSyncState.as_of
    lastComposition,            \* history: the run applied last, and what was published meanwhile
    governmentEvents            \* counter of the bound

govTables == <<officesHeld, portfolioStatus, officesAsOf, lastComposition>>
govVars   == <<composition, ministers, histories, publishedSince, govTables, governmentEvents>>

NoRunYet   == [stage |-> "idle"]
NeverRead  == [asOf |-> 0]

GovernmentInit ==
    /\ composition \in Compositions /\ ministers = NoRunYet /\ histories = <<>>
    /\ officesHeld = {} /\ portfolioStatus = <<>> /\ officesAsOf = 0 /\ lastComposition = NeverRead
    /\ publishedSince = <<>> /\ governmentEvents = 0

Another == /\ governmentEvents < MaxGovernmentEvents
           /\ governmentEvents' = governmentEvents + 1

-----------------------------------------------------------------------------
(* fetch_snapshot().                                                       *)

\* The page of the composition names the Government's days and its Prime Minister.
ReadBootstrap ==
    /\ ministers = NoRunYet /\ Another
    /\ \E day \in ReadOn :
         /\ composition.start <= day
         /\ ministers' = [stage |-> "search", asOf |-> day, start |-> composition.start,
                          end |-> composition.end, premier |-> composition.premier,
                          page |-> 0, members |-> {}, count |-> 0, totals |-> {}]
    /\ histories' = <<>> /\ publishedSince' = <<composition>>
    /\ UNCHANGED <<composition, govTables>>

\* Neither hidden nor later than the date asked for; ended ones are history.
Appearing(c, day) == {k \in DOMAIN c.rows : ~c.rows[k].hidden /\ c.rows[k].from <= day}

\* The cursor of a page is a place in the list.
Place(c, day, k) == Cardinality({l \in Appearing(c, day) : l <= k})
PageOf(c, day, n) == {c.rows[k] : k \in {l \in Appearing(c, day) :
                        Place(c, day, l) \in (n - 1) * SearchSize + 1 .. n * SearchSize}}

SearchAgain ==
    /\ ministers.stage = "search"
    /\ LET found == PageOf(composition, ministers.asOf, ministers.page + 1)
           total == Cardinality(Appearing(composition, ministers.asOf))
       IN /\ ministers.page < MostPages /\ found # {}     \* otherwise refused
          /\ ministers' = [ministers EXCEPT
                !.page = @ + 1, !.members = @ \cup found, !.count = @ + Cardinality(found),
                !.totals = @ \cup {total},
                !.stage = IF total <= (ministers.page + 1) * SearchSize THEN "histories" ELSE @]
    /\ UNCHANGED <<composition, histories, publishedSince, govTables, governmentEvents>>

Members == ministers.members
Portfolios == {a.portfolio : a \in Members}
Holding(p) == {a \in Members : a.portfolio = p}

\* One page per portfolio, in some order: its appointments, hidden and coming ones too, and
\* whether it ended.
ReadHistory ==
    /\ ministers.stage = "histories"
    /\ \E p \in Portfolios \ (DOMAIN histories \cup {Premier}) :
         LET rows == {a \in ToSet(composition.rows) : a.portfolio = p}
             page == [rows |-> {a \in rows : a.id \notin composition.unlisted},
                      over |-> p \in composition.over]
         IN /\ rows # {}                                  \* otherwise there is no page
            /\ histories' = [q \in DOMAIN histories \cup {p} |->
                               IF q = p THEN page ELSE histories[q]]
    /\ UNCHANGED <<composition, ministers, publishedSince, govTables, governmentEvents>>

-----------------------------------------------------------------------------
(* parse_snapshot().                                                       *)

\* mutant: as many rows as the total are enough.
AnyRows == TRUE

TotalHeld == ministers.totals = {ministers.count}
NothingTwice == Cardinality({a.id : a \in Members}) = ministers.count

\* The total never changed, each appointment was read once, each is what was asked for, each
\* person has one name and there is one Prime Minister.
SearchIsWhole ==
    /\ TotalHeld /\ NothingTwice
    /\ \A a \in Members : ~a.hidden /\ a.from <= ministers.asOf
    /\ \A a, b \in Members : a.who = b.who => a.name = b.name
    /\ \E a \in Members : Holding(Premier) = {a} /\ a.id = ministers.premier

Unhidden(page) == {a \in page.rows : ~a.hidden}
Proved(p) == {a \in Unhidden(histories[p]) : a.from <= ministers.asOf}

\* A reappointment may leave the earlier appointment only in the composition, if the chain of
\* its successors ends in one that the page proves (no chain of dated appointments is a ring).
Continued(a, group) == a.to # NoEnd /\ \E b \in group \ {a} :
                                         b.who = a.who /\ b.role = a.role /\ b.from = a.to

Apart(a, b) == a.to <= b.from \/ b.to <= a.from

\* _validate_profile()
HistoryProves(p) ==
    LET page == histories[p]
    IN /\ page.over => \A a \in Holding(p) : a.to # NoEnd
       /\ \A a \in page.rows \ Unhidden(page) : \A b \in Holding(p) : a.id # b.id
       /\ Proved(p) \subseteq Holding(p)
       /\ \A a \in Holding(p) \ Proved(p) : Continued(a, Holding(p))
       /\ \A a, b \in Holding(p) \cup Unhidden(page) : a # b => Apart(a, b)

-----------------------------------------------------------------------------
(* apply_snapshot().                                                       *)

\* The last day of exercise is the eve of the end on the site.
LastDay(to) == IF to = NoEnd THEN NoEnd ELSE to - 1

StatusOn(to, day) == IF to # NoEnd /\ to <= day THEN "ended" ELSE "current"

Office(a) == [id |-> a.id, who |-> a.who, role |-> a.role, portfolio |-> a.portfolio,
              from |-> a.from, to |-> LastDay(a.to), status |-> StatusOn(a.to, ministers.asOf)]

\* Between two appointments, or abolished: the source does not say.
StatusOfPortfolio(p) ==
    IF \E a \in Holding(p) : StatusOn(a.to, ministers.asOf) = "current" THEN "current"
    ELSE IF StatusOn(ministers.end, ministers.asOf) = "ended" THEN "ended" ELSE "unknown"

Dated == /\ ministers.end > ministers.start
         /\ \A a \in Members : LastDay(a.to) >= a.from

ApplyComposition ==
    /\ ministers.stage = "histories" /\ SearchIsWhole
    /\ DOMAIN histories = Portfolios \ {Premier}
    /\ \A p \in DOMAIN histories : HistoryProves(p)
    /\ Dated /\ officesAsOf <= ministers.asOf
    /\ officesHeld' = {Office(a) : a \in Members}
    /\ portfolioStatus' = [p \in Portfolios |-> StatusOfPortfolio(p)]
    /\ officesAsOf' = ministers.asOf
    /\ lastComposition' = [asOf |-> ministers.asOf, since |-> publishedSince]
    /\ ministers' = NoRunYet /\ histories' = <<>> /\ publishedSince' = <<>>
    /\ UNCHANGED <<composition, governmentEvents>>

\* A refusal, an error of the network or a crash, at any point.
GiveUpComposition == /\ ministers # NoRunYet /\ ministers' = NoRunYet
                     /\ histories' = <<>> /\ publishedSince' = <<>>
                     /\ UNCHANGED <<composition, govTables, governmentEvents>>

\* Appointments begin, end, are corrected, hidden or added.
Reshuffle ==
    /\ Another
    /\ composition' \in Compositions \ {composition}
    /\ publishedSince' = IF ministers = NoRunYet THEN <<>>
                         ELSE Append(publishedSince, composition')
    /\ UNCHANGED <<ministers, histories, govTables>>

GovernmentNext == \/ ReadBootstrap \/ SearchAgain \/ ReadHistory \/ ApplyComposition
                  \/ GiveUpComposition \/ Reshuffle
GovernmentSpec == GovernmentInit /\ [][GovernmentNext]_govVars

-----------------------------------------------------------------------------
(* What the offices of a Government promise.                               *)

\* What the site published of a portfolio in a version of the composition.
PublishedIn(v, p) ==
    {[id |-> a.id, who |-> a.who, role |-> a.role, from |-> a.from, to |-> LastDay(a.to)] :
        a \in {b \in ToSet(v.rows) :
                ~b.hidden /\ b.from <= lastComposition.asOf /\ b.portfolio = p}}
HeldIn(p) ==
    {[id |-> o.id, who |-> o.who, role |-> o.role, from |-> o.from, to |-> o.to] :
        o \in {q \in officesHeld : q.portfolio = p}}
Agrees(v, p) == HeldIn(p) = PublishedIn(v, p)

Versions == ToSet(lastComposition.since)
HeldPortfolios == {o.portfolio : o \in officesHeld}
PublishedPortfolios(v) == {a.portfolio : a \in {b \in ToSet(v.rows) :
                                            ~b.hidden /\ b.from <= lastComposition.asOf}}

\* What is held was published during the run, and of each portfolio all that its page listed in
\* one version is held.  What is held besides is an earlier term of who is held after it.
ListedIn(v, p) == {o \in PublishedIn(v, p) : o.id \notin v.unlisted}
PagesProve ==
    \A p \in HeldPortfolios :
      /\ \A o \in HeldIn(p) : \E v \in Versions : o \in PublishedIn(v, p)
      /\ p # Premier => \E v \in Versions :
           /\ ListedIn(v, p) \subseteq HeldIn(p)
           /\ \A o \in HeldIn(p) \ ListedIn(v, p) :
                \E q \in HeldIn(p) : q.who = o.who /\ q.role = o.role /\ q.from = o.to + 1

\* Each portfolio is whole in one version that the site published during the run; and unless
\* the composition changed twice during it, one version has every portfolio and no other.
\* (The Prime Minister's appointment has no history that would prove it.)
OneComposition ==
    /\ \A p \in HeldPortfolios : \E v \in Versions : Agrees(v, p)
    /\ Len(lastComposition.since) <= 2 =>
         \E v \in Versions : /\ HeldPortfolios = PublishedPortfolios(v)
                             /\ \A p \in HeldPortfolios \ {Premier} : Agrees(v, p)

\* A portfolio passes from one holder to the next on the day of the handover.
OneHolder == \A o, q \in officesHeld :
               o.portfolio = q.portfolio /\ o # q => o.to < q.from \/ q.to < o.from

\* An office is current while it is exercised, and a portfolio while one of its offices is.
Exercised(o) == lastComposition.asOf \in o.from..o.to
StatusesAgree ==
    /\ \A o \in officesHeld : o.status = "current" <=> Exercised(o)
    /\ DOMAIN portfolioStatus = HeldPortfolios
    /\ \A p \in HeldPortfolios :
         portfolioStatus[p] = "current" <=> \E o \in officesHeld : o.portfolio = p /\ Exercised(o)

HandoversAreExact == lastComposition # NeverRead => OneHolder /\ StatusesAgree

\* If the site did not change during the run, its portfolios and offices are all there and
\* no other, the Prime Minister's too.
UndisturbedIsExact ==
    Len(lastComposition.since) = 1 =>
      \E v \in Versions : /\ HeldPortfolios = PublishedPortfolios(v)
                          /\ \A p \in HeldPortfolios : Agrees(v, p)

OfficesAreProved == lastComposition # NeverRead => PagesProve /\ UndisturbedIsExact

OfficesAreTrue == /\ HandoversAreExact /\ OfficesAreProved
                  /\ lastComposition # NeverRead => OneComposition
=============================================================================
