------------------------------ MODULE MCSources ------------------------------
(* Snapshots of events, and the importers that read official sources, one    *)
(* at a time.                                                                *)
EXTENDS MCEvents, OpenData, ParliamentRegisters, EuMeetings, ParliamentBodies, PublicBodies, BoardTables,
        GovernmentOffices

VARIABLE part

Parts == {"snapshots", "files", "registers", "meetings", "mandates", "organs", "bodies", "boards",
          "government"}

-----------------------------------------------------------------------------
(* Files of open data: legal numbers L and M, a person's P.                  *)

PartyLine(c, r, n) == [blank |-> c = "blank", code |-> c, role |-> r, number |-> n]
OperationLine(c, l, t, s, e) ==
    [blank |-> c = "blank", code |-> c, lead |-> l, title |-> t, start |-> s, end |-> e]
ContractItem(i, p) == [id |-> i, title |-> "text", parties |-> p]
GrantLine(k, n, f, t) == [kind |-> k, repeated |-> n, from |-> f, to |-> t, content |-> "text"]

MCPartyLines == {PartyLine("a", "lead", "L"), PartyLine("a", "beneficiary", "P"),
                 PartyLine("a", "supplier", "M"), PartyLine("none", "lead", "L")}
MCPartyFiles == {<<p, q>> : p, q \in MCPartyLines}
                  \cup {<<>>, <<PartyLine("b", "other", "L")>>, <<PartyLine("blank", "lead", "L")>>}

\* The planned and the actual day of each date.
MCOperationLines == {OperationLine("a", "L", "text", <<0, 5>>, <<3, 0>>),
                     OperationLine("a", "P", "other", <<2, 1>>, <<0, 4>>),
                     OperationLine("b", "P", "redacted", <<0, 0>>, <<0, 4>>),
                     OperationLine("none", "L", "text", <<0, 1>>, <<1, 4>>)}
MCOperationFiles == {<<p, q>> : p, q \in MCOperationLines} \ {<<p, p>> : p \in MCOperationLines}

MCContractFiles ==
    LET arrays == BoundedSeq({ContractItem("x", {<<"buyer", "L">>, <<"seller", "P">>}),
                             ContractItem("x", {<<"seller", "P">>}),
                             ContractItem("y", {<<"buyer", "L">>, <<"seller", "M">>}),
                             ContractItem("none", {<<"buyer", "L">>})}, 3)
    IN arrays \cup {Append(f, ContractItem("]", {})) : f \in arrays}

MCGrantLines == {GrantLine("grant", 1, "L", "M"), GrantLine("grant", 2, "P", "M"),
                 GrantLine("header", 1, "L", "M")}
MCGrantFiles == BoundedSeq(MCGrantLines \cup {GrantLine("grant", 1, "L", "P"),
                                              GrantLine("empty", 2, "L", "M")}, 2)
                  \cup {<<GrantLine("header", 1, "L", "M"), a, b, c>> : a, b, c \in MCGrantLines}

NoProgramme == [programme |-> "prr", parties |-> <<>>, funds |-> <<>>, contracts |-> <<>>,
                grants |-> <<>>]
MCPortals == [programme : {"pt2020", "pt2030", "prr"}, parties : MCPartyFiles,
              funds : MCOperationFiles, contracts : {<<>>}, grants : {<<>>}]
             \cup {[NoProgramme EXCEPT !.contracts = f] : f \in MCContractFiles}
             \cup {[NoProgramme EXCEPT !.grants = f] : f \in MCGrantFiles}

\* Each portal has the files of one importer.
OneImporter == importer = IF portal.funds # <<>> THEN "funds"
                          ELSE IF portal.contracts # <<>> THEN "contracts" ELSE "grants"
OneFile == portal = NoProgramme

-----------------------------------------------------------------------------
(* Registers of the Parliament: lists of two, three and four pages.           *)

Hearing(i, h, c, a) == [kind |-> "hearing", id |-> i, held |-> h, committee |-> c, attendees |-> a]
Election(i, r, n)   == [kind |-> "election", id |-> i, resignation |-> r, names |-> n]

MCLists == {<<1, 2>>, <<2, 3, 1>>, <<1, 2, 3, 4>>}
MCPageContents == {<<"c", "c">>, <<"d", "c">>}

\* Equal elections, a resignation, an acronym of two candidates and a repeated identifier.
MCActivityFiles ==
    { <<>>,
      << Hearing("h", TRUE, "A", {}), Hearing("i", TRUE, "B", {"x"}),
         Election("o", FALSE, <<"p", "none">>), Election("o", FALSE, <<"p", "q">>) >>,
      << Hearing("h", TRUE, "C", {"x"}), Hearing("i", FALSE, "A", {}),
         Election("o", TRUE, <<"p">>), Hearing("j", TRUE, "none", {"x"}) >>,
      << Hearing("h", TRUE, "C", {"x"}), Hearing("h", TRUE, "A", {}),
         Hearing("k", TRUE, "none", {}) >> }
MCReported == "A" :> {1, 9} @@ "B" :> {} @@ "C" :> {}
MCTiers == "A" :> <<{2}, {2, 3}>> @@ "B" :> <<{}, {1, 2}>> @@ "C" :> <<{}, {2, 3}>>

OneRegister == reading = "activities" /\ activity = <<>>

-----------------------------------------------------------------------------
(* Meetings of two members in two months, and of a cabinet.                  *)

Meeting(s, a, i, f, p) ==
    [scope |-> s, actor |-> a, dated |-> ~(a = "x" /\ i = {"o"}), ids |-> i, free |-> f, paired |-> p]

MCMeetings == {Meeting("m1", "x", {"o"}, {"N"}, {}), Meeting("m1", "x", {"p"}, {"P", "N"}, {}),
               Meeting("m1", "y", {"o", "q"}, {}, {}), Meeting("m2", "y", {}, {"N", "R"}, {}),
               Meeting("f", "other", {"o"}, {}, {}), Meeting("f", "cab", {"p", "q"}, {"N"}, {"P", "Q"})}
MCCatalogues == {s \in SUBSET MCMeetings : Cardinality(s) >= 5}
MCRegisters == {[registered |-> {"o", "p", "q"}, person |-> {"p"}, portuguese |-> {"o"}],
                [registered |-> {"p"}, person |-> {"p"}, portuguese |-> {}]}
MCNameOf == "o" :> "N" @@ "p" :> "P" @@ "q" :> "Q"

OneCatalogue == /\ euSites = {} \/ euSites = MCMeetings
                /\ register.portuguese = {} /\ known = {} /\ pendingReview = {} /\ ~skipBlocked

-----------------------------------------------------------------------------
(* Mandates: suspensions, replacements, gaps, contiguous and reversed        *)
(* periods, two rows and two names of one deputy.                            *)

Status(k, f, t) == [kind |-> k, from |-> f, to |-> t]
RosterRow(w, n, s) == [who |-> w, name |-> n, status |-> s]
Seated == "Efetivo"

MCRosterRows ==
    { {RosterRow("a", "A", {Status(Seated, 1, 2), Status("Efetivo Definitivo", 3, 9)}),
       RosterRow("b", "B", {Status(Seated, 2, 2), Status("Suspenso", 3, 4)})},
      {RosterRow("a", "A", {Status(Seated, 1, 3), Status(Seated, 3, 2), Status(Seated, 5, 5)}),
       RosterRow("b", "B", {Status(Seated, 2, 2), Status("Suspenso", 3, 4)}),
       RosterRow("b", "B", {Status("Efetivo Temporário", 4, 9)})},
      {RosterRow("a", "A", {Status(Seated, 5, 9)}),
       RosterRow("b", "B", {Status("Suspenso", 1, 4), Status(Seated, 0, 4)})},
      {RosterRow("b", "B", {Status(Seated, 1, 9)}), RosterRow("b", "C", {Status(Seated, 4, 9)})},
      {RosterRow("a", "A", {Status(Seated, 2, 4)})} }
MCRosters == {[rows |-> r, ended |-> FALSE] : r \in MCRosterRows}
             \cup {[rows |-> {RosterRow("a", "A", {Status(Seated, 1, 9)}),
                              RosterRow("b", "B", {Status(Seated, 2, 2)})}, ended |-> TRUE]}
MCBiographies == {[a |-> {"r1"}, b |-> {}], [a |-> {"r1", "r2"}, b |-> {"r3"}]}
MCTerms == {[first |-> 1, last |-> 9, cut |-> FALSE], [first |-> 2, last |-> 4, cut |-> TRUE]}
MCPlenary == {<<"a", 5>>, <<"b", 3>>}

OneRoster == roster.ended /\ biography.b = {}

-----------------------------------------------------------------------------
(* Organs of the legislature: group memberships that end on the day of the   *)
(* export, units that share a number, staff, and delegates of other rosters. *)

Sat(d, w, s, g) == [dep |-> d, who |-> w, status |-> s, groups |-> g]
InGroup(g, f, t) == [group |-> g, from |-> f, to |-> t]
OrganFile(i, k, n, t, m) == [id |-> i, kind |-> k, number |-> n, title |-> t, members |-> m]
Entry(c, r, a, f, t) == [facet |-> c, role |-> r, active |-> a, from |-> f, to |-> t]
Delegated(n, d, f, t) == [name |-> n, dep |-> d, role |-> "member", from |-> f, to |-> t]

OfA == Sat(11, "a", {Status(Seated, 1, 2), Status("Efetivo Definitivo", 3, 9)}, {InGroup("G", 1, 6)})
OfB == Sat(12, "b", {Status(Seated, 2, 3), Status("Suspenso", 4, 4), Status(Seated, 5, 9)},
           {InGroup("G", 1, 2), InGroup("H", 3, 6), InGroup("none", 3, 6)})
AgainB == Sat(13, "b", {Status(Seated, 1, 1)}, {InGroup("G", 0, 6), InGroup("H", 6, 6)})

CommitteeA == OrganFile(1, "committee", 10, "c",
    { [who |-> "a", dep |-> 11, entries |-> {Entry("situation", "", TRUE, 2, 4),
                                             Entry("situation", "", FALSE, 5, 6),
                                             Entry("cargo", "chair", TRUE, 3, 2)}],
      [who |-> NoDep, dep |-> 77, entries |-> {Entry("situation", "staff", TRUE, 0, 9)}] })
CommitteeB == OrganFile(4, "committee", 11, "d", {})
UnitT == OrganFile(2, "unit", 20, "t", {[who |-> "b", dep |-> 12,
                                         entries |-> {Entry("cargo", "chair", TRUE, 3, 9)}]})
UnitU == OrganFile(3, "unit", 20, "u", {})
Mesa  == OrganFile(5, "body", 0, "", {})
LinkTo(t, p) == [child |-> 20, title |-> t, parent |-> p]

MCAssemblyFiles ==
    { [rows |-> {OfA, OfB}, organs |-> {CommitteeA, CommitteeB, UnitT, UnitU, Mesa},
       links |-> {LinkTo("t", 10), LinkTo("u", 10), LinkTo("u", 11), LinkTo("v", 11)},
       friends |-> {[group |-> "f", who |-> "b", role |-> "chair", from |-> 3, to |-> 2]},
       delegations |-> {[id |-> 1, rows |-> {Delegated("A", 11, 2, 9), Delegated("Aa", 5, 2, 9),
                                             Delegated("X", 99, 2, 9), Delegated("Y", NoDep, 2, 9)}]}],
      [rows |-> {OfA, AgainB}, organs |-> {CommitteeA, UnitT},
       links |-> {LinkTo("u", 10), LinkTo("t", 11)},
       friends |-> {[group |-> "f", who |-> "a", role |-> "", from |-> 0, to |-> 9]},
       delegations |-> {[id |-> 1, rows |-> {Delegated("A", 5, 2, 9), Delegated("B", 21, 4, 3)}]}],
      \* Refused: a DepId of two people, an organ twice, a group twice in one period, and a DepId
      \* that another roster gives to someone else.
      [rows |-> {OfA, [OfB EXCEPT !.dep = 11]}, organs |-> {}, links |-> {}, friends |-> {},
       delegations |-> {}],
      [rows |-> {OfA}, organs |-> {UnitT, [UnitT EXCEPT !.number = 21]}, links |-> {},
       friends |-> {}, delegations |-> {}],
      [rows |-> {[OfA EXCEPT !.groups = @ \cup {InGroup("G", 2, 6)},
                             !.status = {Status(Seated, 3, 9)}], [OfB EXCEPT !.groups = {}]},
       organs |-> {}, links |-> {}, friends |-> {}, delegations |-> {}],
      [rows |-> {[OfA EXCEPT !.dep = 21]}, organs |-> {}, links |-> {}, friends |-> {},
       delegations |-> {[id |-> 2, rows |-> {Delegated("X", 99, 2, 9), Delegated("A", 21, 2, 9)}]}] }
MCRosterOf == 1 :> (5 :> "a" @@ 11 :> "a") @@ 3 :> (21 :> "b")

OneFileSet == assembly.rows = {OfA} /\ assembly.delegations = {}

-----------------------------------------------------------------------------
(* Public bodies: registers of three and of two entries, one a ghost; a      *)
(* successor with the NIPC of its predecessor.                               *)

Record(t, l, m, who) == [type |-> t, higher |-> FALSE, links |-> l, ministries |-> m, members |-> who]
BoardMember(n) == [name |-> n, named |-> n # "123456789"]
Finance == [ministry |-> "Finance", government |-> 25]
Body(n, a, g, t, h) == [nipc |-> n, active |-> a, ghost |-> g, types |-> t, history |-> h]

Agency    == Body("n1", TRUE, FALSE, {"t1"}, Record({"t1"}, {}, {Finance}, {BoardMember("ana")}))
Abolished == Body("n1", FALSE, FALSE, {"t1"}, Record({"t1"}, {}, {}, {}))
Company   == Body("n2", TRUE, FALSE, {"t1", "t2"},
                  Record({"t2"}, {[id |-> 1, to |-> 1]}, {}, {BoardMember("rui"), BoardMember("123456789")}))
Successor == Body("n1", TRUE, FALSE, {},
                  [Record({}, {[id |-> 2, to |-> 1], [id |-> 3, to |-> 9]}, {}, {BoardMember("eva")})
                     EXCEPT !.higher = TRUE])
Ghost     == Body("none", TRUE, TRUE, {}, Record({}, {}, {}, {}))

MCBodyRegisters == {1 :> Agency @@ 2 :> Company @@ 4 :> Ghost,
                    1 :> Abolished @@ 2 :> Company @@ 3 :> Successor @@ 4 :> Ghost,
                    1 :> Abolished @@ 3 :> Successor}
MCKindOfType == "t1" :> "body" @@ "t2" :> "company"
MCFirstAnchors == [sioe |-> 9 :> <<"old", 9>>, nipc |-> "n2" :>  <<"known", 2>>]
MCOtherEntities == {<<"old", 9>>, <<"known", 2>>}
MCReviewable == {<<"nipc", "n1">>}

\* Only an application reads whom identifiers belong to: a review counts just before one.
ReviewBeforeApplying ==
    identityReviews' # identityReviews =>
      crawl.on /\ Agree(received) /\ Done(received, crawl.limit)

OneBodyRegister == DOMAIN bodies = {1, 3}

-----------------------------------------------------------------------------
(* Boards: a document of two mandates, by rows and by columns, with names    *)
(* wrapped or not and a cell lost or not.                                    *)

Line(k) == [kind |-> k, cargo |-> <<>>, words |-> <<>>, what |-> "person", markers |-> {},
            years |-> NoYears, starts |-> {}, ended |-> FALSE, columns |-> FALSE, title |-> "",
            marker |-> ""]
Seat(o, c, n, w, m) == [organ |-> o, cargo |-> c, words |-> n, what |-> w, markers |-> m]
Ana  == Seat("CA", <<"Presidente">>, <<"Ana", "Maria", "Silva">>, "person", {})
Rui  == Seat("CA", <<"Vogal", "da", "CE">>, <<"Rui", "Costa", "Reis">>, "person", {"a"})
Vacant == Seat("CF", <<"Presidente">>, <<"-">>, "vacant", {})
Eva  == Seat("CF", <<"Vogal">>, <<"Eva", "de", "Melo">>, "person", {})
Firm == Seat("ROC", <<"Efetivo">>, <<"Rocha", "SROC">>, "firm", {})
Mandate     == [years |-> <<2024, 2026>>, cells |-> <<2024, 2026>>, ended |-> FALSE,
                seats |-> <<Ana, Rui, Vacant, Eva>>]
LastMandate == [years |-> <<2021, 2023>>, cells |-> <<2021, 0>>, ended |-> FALSE, seats |-> <<Eva, Firm>>]

OrgansOf(m) == SelectSeq(<<"CA", "CF", "ROC">>, LAMBDA o : \E i \in DOMAIN m.seats : m.seats[i].organ = o)

\* The cell of a name, on one line or on two; its mandate may be cut after the start.
OfMandate(cell, y) == IF y[2] = 0 THEN [cell EXCEPT !.starts = {y[1]}] ELSE [cell EXCEPT !.years = y]
NameLines(s, wrap, y) ==
    LET cell == [Line("cells") EXCEPT !.what = s.what]
    IN IF wrap /\ Len(s.words) > 2
       THEN << OfMandate([cell EXCEPT !.words = SubSeq(s.words, 1, 2)], y),
               [cell EXCEPT !.words = SubSeq(s.words, 3, Len(s.words)), !.markers = s.markers] >>
       ELSE << OfMandate([cell EXCEPT !.words = s.words, !.markers = s.markers], y) >>

\* With its cargo, whose last word may be printed as the title of an organ.
RowLines(s, wrap, y) ==
    LET cells(cargo) == [NameLines(s, wrap, y) EXCEPT ![1].cargo = cargo]
    IN IF Last(s.cargo) \in {"CE"}
       THEN Append(cells(Front(s.cargo)), [Line("organ") EXCEPT !.title = Last(s.cargo)])
       ELSE cells(s.cargo)

Losing(m, i, lost) == lost = <<m.years, i>>
Cells(m, i, wrap, lost) ==
    IF Losing(m, i, lost) THEN << [Line("cells") EXCEPT !.cargo = m.seats[i].cargo] >>
    ELSE RowLines(m.seats[i], i \in wrap, m.cells)

\* A note of two lines, the second of which says that the member resigned.
Notes == << [Line("note") EXCEPT !.marker = "a"], [Line("cells") EXCEPT !.words = <<"Renunciou">>,
                                                                        !.ended = TRUE] >>
Heading(m) == [Line("heading") EXCEPT !.years = m.years, !.ended = m.ended]
ByOrgan(m, lines(_)) ==
    FlattenSeq([t \in DOMAIN OrgansOf(m) |->
      << [Line("organ") EXCEPT !.title = OrgansOf(m)[t]] >>
      \o FlattenSeq([i \in DOMAIN m.seats |->
           IF m.seats[i].organ = OrgansOf(m)[t] THEN lines(i) ELSE <<>>])])

ByRows(m, wrap, lost) ==
    << Heading(m), [Line("header") EXCEPT !.columns = TRUE] >>
    \o ByOrgan(m, LAMBDA i : Cells(m, i, wrap, lost)) \o Notes \o << Line("blank"), Line("prose") >>
ByColumns(m, wrap, lost) ==
    << Heading(m), Line("header") >>
    \o [i \in DOMAIN m.seats |-> [Line("cells") EXCEPT !.cargo = m.seats[i].cargo]]
    \o ByOrgan(m, LAMBDA i : IF Losing(m, i, lost) THEN <<>>
                             ELSE NameLines(m.seats[i], i \in wrap, m.cells)) \o Notes

Salaries == << Line("stop"), [Line("cells") EXCEPT !.cargo = <<"Vogal">>, !.words = <<"Nome", "Pago">>] >>

RowsOfMandate(m, newest) ==
    {[organ |-> s.organ, cargo |-> s.cargo, name |-> s.words, years |-> m.years,
      ended |-> m.ended \/ s.markers # {} \/ (~newest /\ s.organ = "CF")] :
        s \in {t \in ToSet(m.seats) : t.what = "person"}}

NoLoss == <<NoYears, 0>>
Document(wrap, lost) ==
    [lossless |-> lost = NoLoss,
     truth  |-> RowsOfMandate(Mandate, TRUE) \cup RowsOfMandate(LastMandate, FALSE),
     layout |-> ByRows(Mandate, wrap, lost) \o ByRows(LastMandate, {}, NoLoss) \o Salaries,
     plain  |-> ByColumns(Mandate, wrap, lost) \o ByColumns(LastMandate, {}, NoLoss) \o Salaries]

MCWraps  == <<{}, {1, 2}>>
MCLosses == <<NoLoss, <<Mandate.years, 1>>, <<Mandate.years, 2>>, <<Mandate.years, 4>>>>
MCBoardDocuments == [i \in 1..8 |-> Document(MCWraps[((i - 1) \div 4) + 1], MCLosses[((i - 1) % 4) + 1])]

\* A document whose first name is of four words on two lines, and whose second is lost.
LongName == Seat("CA", <<"Presidente">>, <<"Rui", "Costa", "Reis", "Lima">>, "person", {})
Wrapped  == [Mandate EXCEPT !.seats = <<LongName, Seat("CA", <<"Vogal">>, <<"Ana", "Melo">>, "person", {})>>]
WrappedLines == ByRows(Wrapped, {1}, <<Wrapped.years, 2>>)
MCWrappedDocument == 1 :> [lossless |-> FALSE, truth |-> RowsOfMandate(Wrapped, TRUE),
                           layout |-> WrappedLines, plain |-> WrappedLines]
MCWrappedSite == {2 :> 1}

MCBoardSites == {1 :> d @@ 2 :> 0 : d \in DOMAIN MCBoardDocuments}
                  \cup {1 :> 1 @@ 2 :> 1001, 1 :> 1000 @@ 2 :> 5, 2 :> 1}

OneSite == DOMAIN boardSite = {2}

-----------------------------------------------------------------------------
(* The Government: a Prime Minister and three portfolios, searched two       *)
(* appointments at a time.                                                   *)

Appointed(i, w, p, f, t) == [id |-> i, who |-> w, name |-> w, role |-> "minister",
                             portfolio |-> p, from |-> f, to |-> t, hidden |-> FALSE]
Pm     == Appointed(1, "n", "pm", 1, 9)
A1     == Appointed(2, "a", "x", 1, 9)
A1ends == [A1 EXCEPT !.to = 3]
A1hid  == [A1 EXCEPT !.hidden = TRUE]
A2     == Appointed(3, "b", "x", 3, 9)
A3     == Appointed(4, "a", "x", 3, 9)
B1     == Appointed(5, "b", "y", 1, 9)
B1ends == [B1 EXCEPT !.to = 2]
C1     == Appointed(6, "c", "z", 2, 9)
Late   == Appointed(7, "c", "x", 2, 9)
Gov(rows) == [rows |-> rows, start |-> 1, end |-> 9, premier |-> 1, unlisted |-> {}, over |-> {}]
Fallen(rows) == [Gov(rows) EXCEPT !.end = 3]
MCCompositions ==
  {Gov(<<Pm, A1, C1, B1>>),                                        \* four appointments, two pages
   Gov(<<Pm, B1, A1, C1>>),                                        \* in another order
   Gov(<<Pm, C1, A1hid, B1>>),                                     \* one of them hidden
   Gov(<<Pm, A1ends, A2, B1>>),                                    \* a successor on the day
   [Gov(<<Pm, A1ends, A3, B1>>) EXCEPT !.unlisted = {2}],          \* a reappointment
   [Gov(<<Pm, A1, B1ends, C1>>) EXCEPT !.over = {"y"}],            \* a portfolio abolished
   Gov(<<Pm, A1, Late>>),                                          \* refused: overlapping
   Fallen(<<[Pm EXCEPT !.to = 3], A1ends, [B1 EXCEPT !.to = 3]>>)}

OneGovernment == composition = Gov(<<Pm, A1ends, A2, B1>>)

-----------------------------------------------------------------------------

mcvars == <<vars, odvars, prvars, euvars, mandateVars, organVars, bodyVars, boardVars,
            govVars, part>>

\* A part that is not looked at stays in one of its initial states.
MCInit == /\ part \in Parts
          /\ Init
          /\ OpenInit /\ IF part = "files" THEN OneImporter ELSE OneFile /\ importer = "grants"
          /\ RegistersInit /\ (part = "registers" \/ OneRegister)
          /\ EuInit /\ (part = "meetings" \/ OneCatalogue)
          /\ MandatesInit /\ (part = "mandates" \/ OneRoster)
          /\ part \in {"mandates", "organs"} \/ term.cut
          /\ OrgansInit /\ (part = "organs" \/ OneFileSet)
          /\ BodiesInit /\ (part = "bodies" \/ OneBodyRegister)
          /\ BoardsInit /\ (part = "boards" \/ OneSite)
          /\ GovernmentInit /\ (part = "government" \/ OneGovernment)

MCNext == \/ /\ part = "snapshots" /\ Next
             /\ UNCHANGED <<odvars, prvars, euvars, mandateVars, organVars, bodyVars, boardVars, govVars, part>>
          \/ /\ part = "files" /\ OpenNext
             /\ UNCHANGED <<vars, prvars, euvars, mandateVars, organVars, bodyVars, boardVars, govVars, part>>
          \/ /\ part = "registers" /\ RegistersNext
             /\ UNCHANGED <<vars, odvars, euvars, mandateVars, organVars, bodyVars, boardVars, govVars, part>>
          \/ /\ part = "meetings" /\ EuNext
             /\ UNCHANGED <<vars, odvars, prvars, mandateVars, organVars, bodyVars, boardVars, govVars, part>>
          \/ /\ part = "mandates" /\ MandatesNext
             /\ UNCHANGED <<vars, odvars, prvars, euvars, organVars, bodyVars, boardVars, govVars, part>>
          \/ /\ part = "organs" /\ OrgansNext
             /\ UNCHANGED <<vars, odvars, prvars, euvars, mandateVars, bodyVars, boardVars, govVars, part>>
          \/ /\ part = "bodies" /\ BodiesNext /\ ReviewBeforeApplying
             /\ UNCHANGED <<vars, odvars, prvars, euvars, mandateVars, organVars, boardVars, govVars, part>>
          \/ /\ part = "boards" /\ BoardsNext
             /\ UNCHANGED <<vars, odvars, prvars, euvars, mandateVars, organVars, bodyVars, govVars, part>>
          \/ /\ part = "government" /\ GovernmentNext
             /\ UNCHANGED <<vars, odvars, prvars, euvars, mandateVars, organVars, bodyVars, boardVars, part>>
          \/ part # "snapshots" /\ UNCHANGED mcvars   \* the runs of an importer are bounded

MCSpec == MCInit /\ [][MCNext]_mcvars

\* One part alone.
BodiesOnly == MCInit /\ part = "bodies" /\ [][MCNext]_mcvars
BoardsOnly == MCInit /\ part = "boards" /\ [][MCNext]_mcvars
=============================================================================
