------------------------------ MODULE BoardTables ------------------------------
(***************************************************************************)
(* etf_boards.py: the boards of state-owned companies, read from the text  *)
(* of the PDF each company page attaches.  The text of a table arrives     *)
(* row by row or column by column, with names wrapped over lines and cells *)
(* lost; a parser collects cargos and names and pairs them in order, or    *)
(* skips the table.  A run reads the companies of an index one at a time   *)
(* while the site changes, and a complete or a partial run publishes them. *)
(***************************************************************************)
EXTENDS Integers, Sequences, FiniteSets, SequencesExt

CONSTANTS
    BoardDocuments,             \* documents: their true rows, and their text in either mode
    BoardSites,                 \* what the site may publish, by company in the order of its list:
                                \* a document, or Unlinked, Refused or Unreadable
    Unlinked, RefusedLink, Unreadable,
    RoleHeads, Connectors, Particles, \* vocabularies of words
    BoardLimits, EveryCompany,  \* companies a run may be limited to
    MaxVisits, MaxSiteChanges   \* bounds of the instance

\* A company is its place in the list, and links one of the documents or has none to read.
ASSUME BoardAssumption ==
    \A site \in BoardSites :
      /\ DOMAIN site \subseteq Nat \ {0}
      /\ \A c \in DOMAIN site :
           site[c] \in DOMAIN BoardDocuments \cup {Unlinked, RefusedLink, Unreadable}

VARIABLES
    boardSite,                  \* the site now
    visit,                      \* the run of the command: companies listed and read so far
    sitesDuring,                \* history: the sites published since the run began
    memberClaims,               \* current claims, by company
    lastVisit,                  \* history: the run applied last, its sites and the claims before it
    visits, siteChanges         \* counters of the bounds

boardVars == <<boardSite, visit, sitesDuring, memberClaims, lastVisit, visits, siteChanges>>

-----------------------------------------------------------------------------
(* The parser: one line of text after another.                             *)

NoYears == <<0, 0>>
\* Of each block the mandates of its cells, and the starts of those cut after it.
NewBlock(title) == [organ |-> title, cargos |-> <<>>, names |-> <<>>, years |-> <<>>, starts |-> {}]
NewSection(heading) == [years |-> heading.years, ended |-> heading.ended, positional |-> FALSE,
                        blocks |-> <<>>, notes |-> <<>>]
NoHeading == [years |-> NoYears, ended |-> FALSE]

Reading == [active |-> FALSE, columns |-> FALSE, sections |-> <<>>, heading |-> NoHeading,
            organ |-> <<>>, gap |-> 0, noting |-> FALSE, position |-> 0]

LastOf(s) == s[Len(s)]
WithLast(s, x) == [s EXCEPT ![Len(s)] = x]

InSection(p, section) == [p EXCEPT !.sections = WithLast(@, section)]
AddBlock(p, title) == InSection(p, [LastOf(p.sections) EXCEPT !.blocks = Append(@, NewBlock(title))])
BlocksOf(p) == LastOf(p.sections).blocks

\* A header opens a section under the heading and organ printed just before it.
ReadHeader(p, line) ==
    LET opened == IF p.active THEN p
                  ELSE LET q == [p EXCEPT !.sections = Append(@, NewSection(p.heading))]
                       IN IF p.organ = <<>> THEN q ELSE AddBlock(q, p.organ[1])
        section == LastOf(opened.sections)
    IN [InSection(opened, [section EXCEPT !.positional = @ \/ line.columns]) EXCEPT
          !.active = TRUE, !.columns = line.columns,
          !.heading = NoHeading, !.organ = <<>>, !.gap = 0]

ReadHeading(p, line) ==
    LET heading == [years |-> line.years, ended |-> line.ended]
    IN IF p.active THEN [p EXCEPT !.sections = Append(@, NewSection(heading))]
       ELSE [p EXCEPT !.heading = heading, !.organ = <<>>, !.gap = 0]

\* Text before a table: an organ waits for the header, other lines wear the heading out.
ReadOutside(p, line) ==
    IF line.kind = "organ" THEN [p EXCEPT !.organ = <<line.title>>]
    ELSE [p EXCEPT !.organ = <<>>, !.gap = @ + 1,
                   !.heading = IF p.gap + 1 > 3 THEN NoHeading ELSE @]

OpenRole(cargo) == cargo # <<>> /\ LastOf(cargo) \in Connectors

\* A cargo goes on in the next cell if it was left open or the cell starts with no role.
AddCargo(cargos, cargo) ==
    IF cargo = <<>> THEN cargos
    ELSE IF cargos # <<>> /\ (cargo[1] \notin RoleHeads \/ OpenRole(LastOf(cargos)))
    THEN WithLast(cargos, LastOf(cargos) \o cargo) ELSE Append(cargos, cargo)

\* A name goes on at a particle; any other line is a name of its own.
AddName(names, cell) ==
    LET last == LastOf(names)
        wrapped == /\ names # <<>> /\ last.what # "vacant" /\ cell.what # "vacant"
                   /\ \/ cell.words[1] \in Particles \/ LastOf(last.words) \in Particles
    IN IF cell.words = <<>> THEN names
       ELSE IF wrapped
       THEN WithLast(names, [last EXCEPT !.words = @ \o cell.words, !.markers = @ \cup cell.markers,
                                         !.what = IF cell.what = "firm" THEN "firm" ELSE @])
       ELSE Append(names, cell)

ReadCells(p, line) ==
    LET q == IF BlocksOf(p) = <<>> THEN AddBlock(p, "") ELSE p
        block == LastOf(BlocksOf(q))
        cell == [words |-> line.words, what |-> line.what, markers |-> line.markers,
                 position |-> p.position, block |-> Len(BlocksOf(q))]
    IN InSection(q, [LastOf(q.sections) EXCEPT !.blocks = WithLast(@,
         [block EXCEPT !.cargos = AddCargo(@, line.cargo), !.names = AddName(@, cell),
                       !.years = IF line.years = NoYears THEN @ ELSE Append(@, line.years),
                       !.starts = @ \cup line.starts])])

\* In the cargo column, the title of an organ may be the rest of an open cargo.
ContinuesCargo(p) == /\ p.columns /\ BlocksOf(p) # <<>> /\ LastOf(BlocksOf(p)).cargos # <<>>
                     /\ OpenRole(LastOf(LastOf(BlocksOf(p)).cargos))

\* A note goes on, whatever its lines hold, until a blank line, another note or a new part of
\* the document.  No cell is read meanwhile, so that it stands where it opens as well as where
\* _close_footnote() puts it.
OpenNote(p, line) ==
    [InSection(p, [LastOf(p.sections) EXCEPT !.notes =
       Append(@, [position |-> p.position, marker |-> line.marker, resigned |-> line.ended])])
     EXCEPT !.noting = TRUE]
GoOnWithNote(p, line) ==
    [InSection(p, [LastOf(p.sections) EXCEPT !.notes =
       WithLast(@, [LastOf(@) EXCEPT !.resigned = @ \/ line.ended])]) EXCEPT !.noting = TRUE]

\* _line(): remuneration and curricula stop the reading until another header.
ReadLine(before, line) ==
    LET p == [before EXCEPT !.position = @ + 1, !.noting = FALSE]
        organ == line.kind = "organ" /\ ~ContinuesCargo(before)
    IN CASE line.kind = "blank"   -> p
         [] line.kind = "stop"    -> [p EXCEPT !.active = FALSE, !.heading = NoHeading, !.organ = <<>>]
         [] line.kind = "header"  -> ReadHeader(p, line)
         [] line.kind = "heading" -> ReadHeading(p, line)
         [] line.kind \in {"organ", "note", "cells", "prose"} /\ ~p.active -> ReadOutside(p, line)
         [] line.kind = "note" /\ p.active -> OpenNote(p, line)
         [] line.kind \in {"organ", "cells", "prose"} /\ p.active ->
              IF organ THEN AddBlock(p, line.title)
              ELSE IF before.noting THEN GoOnWithNote(p, line)
              ELSE IF line.kind = "prose" THEN p
              ELSE ReadCells(p, IF line.kind = "organ" THEN [line EXCEPT !.cargo = <<line.title>>]
                                ELSE line)

-----------------------------------------------------------------------------
(* Pairing.                                                                *)

\* _reconcile(): the shortest line of one or two words, and of those the last, is the end
\* of the name before it in its organ.
Wraps(names) == {i \in 2..Len(names) :
                   /\ names[i].what = "person" /\ names[i - 1].what # "vacant"
                   /\ names[i - 1].block = names[i].block /\ Len(names[i].words) <= 2}
ShortestWrap(names) == CHOOSE i \in Wraps(names) : \A j \in Wraps(names) \ {i} :
                         \/ Len(names[i].words) < Len(names[j].words)
                         \/ Len(names[i].words) = Len(names[j].words) /\ i > j
JoinedName(names, i) ==
    RemoveAt([names EXCEPT ![i - 1].words = @ \o names[i].words,
                           ![i - 1].markers = @ \cup names[i].markers], i)
Reconciled(names, target) ==
    FoldLeft(LAMBDA ns, n : IF Len(ns) > target /\ Wraps(ns) # {}
                            THEN JoinedName(ns, ShortestWrap(ns)) ELSE ns, names, names)

\* mutant: fragments are taken for names
AnyNames(names) == TRUE

\* _whole(): a fragment of a name means that the cells did not pair.
IsFragment(words) == \/ Cardinality({i \in DOMAIN words : words[i] \notin Particles}) < 2
                     \/ \E i \in DOMAIN words : words[i] \in RoleHeads
WholeNames(names) == \A i \in DOMAIN names : names[i].what = "person" => ~IsFragment(names[i].words)

\* _distribute(): one value each, one for each person, or one for all; else the section's, unless
\* a cut mandate starts in another year.
Persons(names) == {i \in DOMAIN names : names[i].what = "person"}
Fallback(section, starts) == IF starts \subseteq {section.years[1]} THEN section.years ELSE NoYears
YearsFor(names, years, fallback) ==
    [i \in DOMAIN names |->
       IF Len(years) = Len(names) THEN years[i]
       ELSE IF years # <<>> /\ Len(years) = Cardinality(Persons(names))
       THEN IF i \in Persons(names) THEN years[Cardinality({j \in Persons(names) : j <= i})]
            ELSE NoYears
       ELSE IF Cardinality(ToSet(years)) = 1 THEN years[1] ELSE fallback]

Pairs(section, cargos, names, years, starts) ==
    [i \in DOMAIN names |-> [cargo |-> cargos[i], cell |-> names[i],
                             organ |-> section.blocks[names[i].block].organ,
                             years |-> YearsFor(names, years, Fallback(section, starts))[i]]]

FilledBlocks(section) == SelectSeq(section.blocks, LAMBDA b : b.cargos # <<>> \/ b.names # <<>>)
PairsWhole(cargos, names) == cargos # <<>> /\ Len(names) = Len(cargos) /\ WholeNames(names)
BlockNames(b) == Reconciled(b.names, Len(b.cargos))
BlockPairs(section, b) ==
    IF PairsWhole(b.cargos, BlockNames(b))
    THEN Pairs(section, b.cargos, BlockNames(b), b.years, b.starts) ELSE <<>>

\* finish(): organ by organ, or, for text read by columns, every cargo and every name in order.
Paired(section) ==
    LET blocks == FilledBlocks(section)
        failed == {i \in DOMAIN blocks : ~PairsWhole(blocks[i].cargos, BlockNames(blocks[i]))}
        each   == FlattenSeq([i \in DOMAIN blocks |-> BlockPairs(section, blocks[i])])
        cargos == FlattenSeq([i \in DOMAIN blocks |-> blocks[i].cargos])
        names  == Reconciled(FlattenSeq([i \in DOMAIN blocks |-> blocks[i].names]), Len(cargos))
        years  == FlattenSeq([i \in DOMAIN blocks |-> blocks[i].years])
        starts == UNION {blocks[i].starts : i \in DOMAIN blocks}
    IN IF failed = {} \/ section.positional THEN [pairs |-> each, skipped |-> Cardinality(failed)]
       ELSE IF PairsWhole(cargos, names)
       THEN [pairs |-> Pairs(section, cargos, names, years, starts), skipped |-> 0]
       ELSE [pairs |-> each, skipped |-> Cardinality(failed)]

\* A note after the name, under one of its markers, may say that the member resigned.
Resigned(section, cell) ==
    \E m \in cell.markers :
      LET after == {i \in DOMAIN section.notes : /\ section.notes[i].marker = m
                                                 /\ section.notes[i].position > cell.position}
      IN after # {} /\ section.notes[CHOOSE i \in after : \A j \in after : i <= j].resigned

SectionRows(section) ==
    FoldLeft(LAMBDA rows, x : IF x.cell.what # "person" THEN rows ELSE
               Append(rows, [organ |-> x.organ, cargo |-> x.cargo, name |-> x.cell.words,
                             years |-> x.years, ended |-> section.ended \/ Resigned(section, x.cell)]),
             <<>>, Paired(section).pairs)

\* _supersede(): a mandate before a later one of the same organ has ended.
Superseded(rows) ==
    FoldLeft(LAMBDA done, r : Append(done, [r EXCEPT !.ended = @ \/
               (r.years # NoYears /\ \E later \in ToSet(rows) :
                  /\ later.organ = r.organ /\ later.years[1] > r.years[2])]), <<>>, rows)

\* A member named twice in an office of a mandate is the first of its rows.
SameMember(r, q) == [r EXCEPT !.ended = FALSE] = [q EXCEPT !.ended = FALSE]
FirstRows(rows) ==
    FoldLeft(LAMBDA kept, r : IF \E k \in kept : SameMember(k, r) THEN kept ELSE kept \cup {r}, {}, rows)

ParsedText(lines) ==
    LET sections == FoldLeft(ReadLine, Reading, lines).sections
    IN [rows |-> FirstRows(Superseded(
                   FoldLeft(LAMBDA rows, s : rows \o SectionRows(s), <<>>, sections))),
        skipped |-> FoldLeft(LAMBDA n, s : n + Paired(s).skipped, 0, sections)]

\* read_document(): the reading of more members, then of fewer skipped tables.
Better(next, best) ==
    \/ Cardinality(next.rows) > Cardinality(best.rows)
    \/ Cardinality(next.rows) = Cardinality(best.rows) /\ next.skipped < best.skipped
BoardRows(doc) ==
    FoldLeft(LAMBDA best, next : IF Better(next, best) THEN next ELSE best,
             ParsedText(doc.layout), <<ParsedText(doc.plain)>>).rows

-----------------------------------------------------------------------------
(* A run.                                                                  *)

NoVisit == [on |-> FALSE, listed |-> {}, limit |-> EveryCompany, next |-> 0, link |-> Unlinked,
            documents |-> <<>>, unreadable |-> FALSE]
NotPublished == [read |-> <<>>]

BoardsInit ==
    /\ boardSite \in BoardSites /\ visit = NoVisit /\ memberClaims = <<>>
    /\ sitesDuring = {} /\ lastVisit = NotPublished /\ visits = 0 /\ siteChanges = 0

ChosenCompanies == {c \in visit.listed : visit.limit = EveryCompany
                                           \/ Cardinality({d \in visit.listed : d <= c}) <= visit.limit}
VisitDone == visit.on /\ visit.link = Unlinked /\ \A c \in ChosenCompanies : c <= visit.next

StartVisit ==
    /\ ~visit.on /\ visits < MaxVisits /\ visits' = visits + 1
    /\ \E limit \in BoardLimits :
         visit' = [NoVisit EXCEPT !.on = TRUE, !.listed = DOMAIN boardSite, !.limit = limit]
    /\ sitesDuring' = {boardSite}
    /\ UNCHANGED <<boardSite, memberClaims, lastVisit, siteChanges>>

\* The page of the next company, which links a document, refuses one, or links none.
VisitCompany ==
    /\ visit.on /\ visit.link = Unlinked
    /\ \E c \in ChosenCompanies :
         /\ c > visit.next /\ c \in DOMAIN boardSite
         /\ \A d \in ChosenCompanies : d > visit.next => c <= d
         /\ visit' = [visit EXCEPT !.next = c, !.link = IF boardSite[c] = RefusedLink THEN Unlinked
                                                       ELSE boardSite[c]]
    /\ UNCHANGED <<boardSite, sitesDuring, memberClaims, lastVisit, visits, siteChanges>>

\* The document the page linked, even if the site links another by now.  One that cannot be read
\* is counted; one that cannot be downloaded ends the run.
ReadBoard ==
    /\ visit.on /\ visit.link # Unlinked
    /\ LET read == [of |-> visit.link, rows |-> BoardRows(BoardDocuments[visit.link])]
           documents == [c \in DOMAIN visit.documents \cup {visit.next} |->
                           IF c = visit.next THEN read ELSE visit.documents[c]]
       IN visit' = IF visit.link # Unreadable
                   THEN [visit EXCEPT !.link = Unlinked, !.documents = documents]
                   ELSE [visit EXCEPT !.link = Unlinked, !.unreadable = TRUE]
    /\ UNCHANGED <<boardSite, sitesDuring, memberClaims, lastVisit, visits, siteChanges>>

EndVisit == /\ visit.on /\ visit' = NoVisit /\ sitesDuring' = {}
            /\ UNCHANGED <<boardSite, memberClaims, lastVisit, visits, siteChanges>>

ChangeSite ==
    /\ siteChanges < MaxSiteChanges /\ siteChanges' = siteChanges + 1
    /\ boardSite' \in BoardSites \ {boardSite}
    /\ sitesDuring' = IF visit.on THEN sitesDuring \cup {boardSite'} ELSE {}
    /\ UNCHANGED <<visit, memberClaims, lastVisit, visits>>

\* apply_snapshot(): a scope for each company with a row; a complete run withdraws the others.
BoardScopes ==
    LET rows(c) == visit.documents[c].rows
    IN [c \in {d \in DOMAIN visit.documents : rows(d) # {}} |-> rows(c)]
EveryBoard == ChosenCompanies = visit.listed /\ ~visit.unreadable

PublishBoards ==
    /\ VisitDone
    /\ memberClaims' = [c \in DOMAIN BoardScopes
                                \cup (IF EveryBoard THEN {} ELSE DOMAIN memberClaims) |->
                          IF c \in DOMAIN BoardScopes THEN BoardScopes[c] ELSE memberClaims[c]]
    /\ lastVisit' = [read |-> visit.documents, complete |-> EveryBoard, during |-> sitesDuring,
                      before |-> memberClaims]
    /\ visit' = NoVisit /\ sitesDuring' = {} /\ UNCHANGED <<boardSite, visits, siteChanges>>

BoardsNext == StartVisit \/ VisitCompany \/ ReadBoard \/ EndVisit \/ ChangeSite \/ PublishBoards
BoardsSpec == BoardsInit /\ [][BoardsNext]_boardVars

-----------------------------------------------------------------------------
(* What the import promises.                                               *)

\* However the text of a document was laid out and wherever a cell was lost, each member
\* published from it is one of its members, with that cargo and organ, and not said to have
\* left unless the document says so; only a partial run keeps what it found no member for.
IsTrueRow(r, truth) ==
    \E t \in truth : /\ [t EXCEPT !.ended = FALSE] = [r EXCEPT !.ended = FALSE]
                     /\ r.ended => t.ended
RowsAreTrue ==
    \A c \in DOMAIN lastVisit.read \cap DOMAIN memberClaims :
      \/ \A r \in memberClaims[c] : IsTrueRow(r, BoardDocuments[lastVisit.read[c].of].truth)
      \/ /\ ~lastVisit.complete /\ lastVisit.read[c].rows = {}
         /\ c \in DOMAIN lastVisit.before /\ memberClaims[c] = lastVisit.before[c]

\* A text that lost nothing gives every member.
NothingSkipped ==
    \A c \in DOMAIN lastVisit.read :
      BoardDocuments[lastVisit.read[c].of].lossless =>
        c \in DOMAIN memberClaims /\ memberClaims[c] = BoardDocuments[lastVisit.read[c].of].truth

\* Whatever the site published meanwhile, each document read was linked for its company at some
\* moment of the run, and what it names replaces what was held of the company.  Anything else is
\* kept, but by a complete run: it withdraws a company whose document named nobody, or that the
\* site did not list with a document it could read at some moment of the run.
HasNoBoard(site, c) == c \notin DOMAIN site \/ site[c] \in {Unlinked, RefusedLink}
ReadIsPublished ==
    \A c \in DOMAIN lastVisit.read :
      /\ \E site \in lastVisit.during : c \in DOMAIN site /\ site[c] = lastVisit.read[c].of
      /\ lastVisit.read[c].rows # {} =>
           c \in DOMAIN memberClaims /\ memberClaims[c] = lastVisit.read[c].rows
ReadNames(c) == c \in DOMAIN lastVisit.read /\ lastVisit.read[c].rows # {}
OnlySeenIsWithdrawn ==
    /\ \A c \in DOMAIN memberClaims : ~ReadNames(c) =>
         ~lastVisit.complete /\ c \in DOMAIN lastVisit.before /\ memberClaims[c] = lastVisit.before[c]
    /\ \A c \in DOMAIN lastVisit.before \ DOMAIN memberClaims :
         /\ lastVisit.complete
         /\ \/ c \in DOMAIN lastVisit.read
            \/ \E site \in lastVisit.during : HasNoBoard(site, c)

\* etf_boards.py:955: a fragment of a name means that the table did not pair.
PairedOrSkipped == lastVisit # NotPublished => RowsAreTrue

BoardsFollowSite == lastVisit # NotPublished => ReadIsPublished /\ OnlySeenIsWithdrawn

BoardRowsAreTrue ==
    /\ lastVisit # NotPublished => RowsAreTrue /\ NothingSkipped
    /\ BoardsFollowSite
===============================================================================
