-------------------------- MODULE ParliamentRegisters --------------------------
(***************************************************************************)
(* Two event importers that read the site of the Parliament: the register  *)
(* of gifts, a list of deputies read page by page and then one page for    *)
(* each, while the list may change; and the activities of a legislature,   *)
(* two files whose hearings and elections become events and candidates.    *)
(* Each run applies a complete snapshot or nothing.                        *)
(***************************************************************************)
EXTENDS Integers, SequencesExt

CONSTANTS
    Deputies, Lists,            \* deputies; the lists the register may show, in its order
    PageContents,               \* what a deputy's page may say: sequences of rows
    PageSize, MaxPages, Retries,
    ActivityFiles,              \* sequences of rows of the activities file
    Committees, Reported, Tiers,\* organs; by acronym: organs its reports name, and those its
                                \* letters match, exactly, as a prefix, in order
    Organs,                     \* committees imported as entities
    NoCommittee,
    MaxListEdits                \* bounds of the instance

\* Letters match an organ exactly, as a prefix or, in long acronyms, in order, and only
\* among the names of committees.
ASSUME RegistersAssumption ==
    /\ PageSize \in Nat /\ IsFiniteSet(Committees)
    /\ \A list \in Lists : list \in Seq(Deputies) /\ IsInjective(list)
    /\ \A content \in PageContents : content \in Seq(ToSet(content))
    /\ \A a \in DOMAIN Tiers : /\ DOMAIN Tiers[a] \subseteq 1..3
                              /\ \A t \in DOMAIN Tiers[a] : Tiers[a][t] \subseteq Committees
    /\ \A file \in ActivityFiles :
         /\ file \in Seq(ToSet(file))
         /\ \A row \in ToSet(file) :
              \/ row.kind = "hearing" /\ row.committee \in DOMAIN Tiers \cup {NoCommittee}
              \/ row.kind # "hearing" /\ row.names \in Seq(ToSet(row.names))

VARIABLES
    deputies, pageRows,         \* the site: deputies in order, and the rows of each page
    listEdits,                  \* counter of MaxListEdits
    reading,                    \* what the run asks for next
    tries,                      \* failed attempts of this request
    pageNumber, more, total, met, \* paging: number, whether the pager goes on, results, deputies
    pages,                      \* register pages read
    throughout, cameIn, wentOut, \* history: deputies listed since the search; kinds of change
    gifts,                      \* events of the register
    activity,                   \* the activities file read, and its committees
    hearings, elections         \* its events and candidates

parliament == <<deputies, pageRows, listEdits>>
paging     == <<pageNumber, more, total, met>>
history    == <<throughout, cameIn, wentOut>>
kept       == <<gifts, activity, hearings, elections>>
prvars     == <<parliament, reading, tries, paging, pages, history, kept>>

RegistersInit ==
    /\ \/ /\ reading = "form" /\ activity = <<>>
          /\ deputies \in Lists /\ pageRows \in [Deputies -> PageContents]
       \/ /\ reading = "activities" /\ activity \in ActivityFiles
          /\ deputies = <<>> /\ pageRows = [d \in Deputies |-> <<>>]
    /\ listEdits = 0 /\ tries = 0 /\ pageNumber = 0 /\ more = FALSE /\ total = 0 /\ met = {}
    /\ pages = <<>> /\ throughout = {} /\ cameIn = FALSE /\ wentOut = FALSE
    /\ gifts = {} /\ hearings = {} /\ elections = {}

-----------------------------------------------------------------------------
(* The register of gifts.                                                  *)

PageRows(n) ==
    {deputies[k] : k \in DOMAIN deputies \cap (((n - 1) * PageSize + 1)..(n * PageSize))}
HasMore(n)  == n * PageSize < Len(deputies)

\* _Collector.get(): a page is taken once its parser accepts it.
Got(what) == reading = what /\ tries' = 0

SearchForm == /\ Got("form") /\ reading' = "search"
              /\ UNCHANGED <<parliament, paging, pages, history, kept>>

\* The first page of the results, and how many there are.
Searched ==
    /\ Got("search") /\ reading' = "list"
    /\ pageNumber' = 1 /\ more' = HasMore(1) /\ total' = Len(deputies) /\ met' = PageRows(1)
    /\ throughout' = ToSet(deputies) /\ cameIn' = FALSE /\ wentOut' = FALSE
    /\ UNCHANGED <<parliament, pages, kept>>

SameTotal == Len(deputies) = total

\* The pager's next page; another number of results means that the list changed.
NextPage ==
    /\ Got("list") /\ more /\ pageNumber < MaxPages /\ SameTotal
    /\ pageNumber' = pageNumber + 1
    /\ more' = HasMore(pageNumber') /\ met' = met \cup PageRows(pageNumber')
    /\ UNCHANGED <<parliament, reading, total, pages, history, kept>>

\* As many deputies as results, or the list is incomplete.
ListEnds ==
    /\ reading = "list" /\ ~more /\ Cardinality(met) = total
    /\ reading' = "pages"
    /\ UNCHANGED <<parliament, tries, paging, pages, history, kept>>

PagesLeft == met \ DOMAIN pages

ReadPage ==
    /\ Got("pages")
    /\ \E d \in PagesLeft :
         /\ \A e \in PagesLeft : d <= e
         /\ pages' = [q \in DOMAIN pages \cup {d} |-> IF q = d THEN pageRows[d] ELSE pages[q]]
    /\ UNCHANGED <<parliament, reading, paging, history, kept>>

\* mutant: identical rows are one declaration
MergedRows(d, read) == {<<d, read[k], 1>> : k \in DOMAIN read}

\* parse_register(): identical rows are distinct declarations, numbered in order.
Entries(d, read) ==
    {<<d, read[k], Cardinality({l \in 1..k : read[l] = read[k]})>> : k \in DOMAIN read}

ApplyGifts ==
    /\ reading = "pages" /\ PagesLeft = {}
    /\ gifts' = UNION {Entries(d, pages[d]) : d \in DOMAIN pages}
    /\ reading' = "applied"
    /\ UNCHANGED <<parliament, tries, paging, pages, history, activity, hearings, elections>>

\* An incomplete page or a dropped connection, tried again a few times.
AttemptFails ==
    /\ reading \in {"form", "search", "list", "pages"} /\ (reading = "pages" => PagesLeft # {})
    /\ tries' = tries + 1
    /\ reading' = IF tries + 1 = Retries THEN "refused" ELSE reading
    /\ UNCHANGED <<parliament, paging, pages, history, kept>>

\* The list changed, has too many pages or is incomplete; or the hour has passed.
GiveUp ==
    /\ \/ reading = "list" /\ more /\ (pageNumber = MaxPages \/ ~SameTotal)
       \/ reading = "list" /\ ~more /\ Cardinality(met) # total
       \/ reading \in {"form", "search", "list", "pages"}
    /\ reading' = "refused"
    /\ UNCHANGED <<parliament, tries, paging, pages, history, kept>>

\* The site goes on while it is read.
Elect(d) == \E k \in 1..(Len(deputies) + 1) : deputies' = InsertAt(deputies, k, d)

SiteChanges ==
    /\ listEdits < MaxListEdits /\ listEdits' = listEdits + 1 /\ reading \in {"list", "pages"}
    /\ \/ \E d \in Deputies \ ToSet(deputies) :
            /\ Elect(d) /\ cameIn' = (cameIn \/ reading = "list")
            /\ UNCHANGED <<pageRows, wentOut, throughout>>
       \/ \E k \in DOMAIN deputies :
            /\ deputies' = RemoveAt(deputies, k) /\ throughout' = throughout \ {deputies[k]}
            /\ wentOut' = (wentOut \/ reading = "list") /\ UNCHANGED <<pageRows, cameIn>>
       \/ \E d \in ToSet(deputies) : \E content \in PageContents :
            /\ pageRows' = [pageRows EXCEPT ![d] = content]
            /\ UNCHANGED <<deputies, cameIn, wentOut, throughout>>
    /\ UNCHANGED <<reading, tries, paging, pages, kept>>

-----------------------------------------------------------------------------
(* The activities of a legislature.                                        *)

\* _initials_match(): the organs of the first way of matching that has any.
FirstTier(acronym, free) ==
    LET hits == [t \in DOMAIN Tiers[acronym] |-> Tiers[acronym][t] \cap free]
        some == {t \in DOMAIN hits : hits[t] # {}}
    IN IF some = {} THEN {} ELSE hits[CHOOSE t \in some : \A u \in some : t <= u]

\* committee_map(): by the reports first, then by letters among organs not claimed so;
\* always a single candidate.
Acronyms == {row.committee : row \in {r \in ToSet(activity) : r.kind = "hearing"}} \ {NoCommittee}
Claimed(a) == IF Cardinality(Reported[a] \cap Committees) = 1 THEN Reported[a] \cap Committees ELSE {}
MayBe(a) == IF Claimed(a) # {} THEN Claimed(a)
                 ELSE FirstTier(a, Committees \ UNION {Claimed(b) : b \in Acronyms})

Mapped(a) == IF Cardinality(MayBe(a)) = 1 THEN MayBe(a) ELSE {}

\* _hearings(): those held that name a committee or an attendee; a repeated identifier
\* refuses the file.
Held == {k \in DOMAIN activity : /\ activity[k].kind = "hearing" /\ activity[k].held
                                 /\ activity[k].committee # NoCommittee \/ activity[k].attendees # {}}
UniqueHearings == \A k, l \in Held : activity[k].id = activity[l].id => k = l

\* _event(): the committee as host, an entity if it is mapped and imported.
Host(a) == IF a = NoCommittee THEN {}
           ELSE IF Mapped(a) = {} THEN {<<"host", a, FALSE>>}
           ELSE {<<"host", c, c \in Organs>> : c \in Mapped(a)}
HearingEvent(row) == [id |-> row.id,
                      parties |-> Host(row.committee)
                                    \cup {<<"attendee", n, FALSE>> : n \in row.attendees}]

\* _elections(): elections by the Parliament to other bodies, resignations left out; equal
\* activities are numbered, and rows without a name keep their place.
Elections == {k \in DOMAIN activity : activity[k].kind = "election" /\ ~activity[k].resignation}
Activity(k) ==
    LET equal == {l \in Elections : l <= k /\ activity[l].id = activity[k].id}
    IN <<activity[k].id, Cardinality(equal)>>
Candidacies(k) == {<<Activity(k), n, activity[k].names[n]>> :
                     n \in {i \in DOMAIN activity[k].names : activity[k].names[i] # NoCommittee}}

ApplyActivities ==
    /\ reading = "activities" /\ UniqueHearings
    /\ hearings' = {HearingEvent(activity[k]) : k \in Held}
    /\ elections' = UNION {Candidacies(k) : k \in Elections}
    /\ reading' = "done"
    /\ UNCHANGED <<parliament, tries, paging, pages, history, gifts, activity>>

RegistersNext == \/ SearchForm \/ Searched \/ NextPage \/ ListEnds \/ ReadPage \/ ApplyGifts
                 \/ AttemptFails \/ GiveUp \/ SiteChanges \/ ApplyActivities
RegistersSpec == RegistersInit /\ [][RegistersNext]_prvars

-----------------------------------------------------------------------------

\* A list that was accepted holds every deputy that stayed on it while it was read, unless
\* some came and as many went meanwhile: the number of results tells every other change.
ListsAreComplete == reading \in {"pages", "applied"} => (cameIn /\ wentOut) \/ throughout \subseteq met

\* The register then holds, for each deputy met, every row of the page read, however often
\* it repeats, and of nobody else.
GiftsAreThose ==
    reading = "applied" =>
      /\ DOMAIN pages = met
      /\ \A d \in Deputies : \A c \in UNION {ToSet(p) : p \in PageContents} :
           Cardinality({e \in gifts : e[1] = d /\ e[2] = c})
             = IF d \in met THEN Cardinality({k \in DOMAIN pages[d] : pages[d][k] = c}) ELSE 0

NamesGiven(k) == {n \in DOMAIN activity[k].names : activity[k].names[n] # NoCommittee}

\* An entity is host only of hearings of an acronym no other committee could stand for, and
\* every elected person named is one candidate, however many equal activities there are.
HearingsAreThose ==
    reading = "done" =>
      /\ \A h \in hearings : \A p \in h.parties : p[3] =>
           \E k \in DOMAIN activity :
             /\ activity[k].id = h.id
             /\ \/ Reported[activity[k].committee] \cap Committees = {p[2]}
                \/ \E t \in DOMAIN Tiers[activity[k].committee] :
                     Tiers[activity[k].committee][t]
                       \ UNION {Claimed(b) : b \in Acronyms} = {p[2]}
      /\ Cardinality(elections) = Cardinality(UNION {{k} \X NamesGiven(k) : k \in Elections})

RegistersAreComplete == ListsAreComplete /\ GiftsAreThose /\ HearingsAreThose
=============================================================================
