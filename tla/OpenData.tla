------------------------------- MODULE OpenData -------------------------------
(***************************************************************************)
(* Event importers that read files of dados.gov.pt: EU funds join two      *)
(* spreadsheets by operation code, BASE and IGF read one file twice.  Each *)
(* run replaces the events of one scope, or nothing.  Rows of natural      *)
(* persons are dropped while they are parsed.                              *)
(***************************************************************************)
EXTENDS Integers, SequencesExt

CONSTANTS
    LegalNumbers,               \* tax numbers of legal persons; any other is a natural person's
    Portals,                    \* what the portal may publish: files, as sequences of rows
    NoNumber, NoCode,
    MaxUploads, MaxFileRuns     \* bounds of the instance

IsRows(file) == file \in Seq(ToSet(file))
Programmes == {"pt2020", "pt2030", "prr"}

\* Files are sequences of rows, days and repetitions are numbers, and no number is no person's.
ASSUME OpenDataAssumption ==
    /\ NoNumber \notin LegalNumbers
    /\ \A p \in Portals :
         /\ DOMAIN p = {"programme", "parties", "funds", "contracts", "grants"}
         /\ p.programme \in Programmes
         /\ IsRows(p.parties) /\ IsRows(p.funds) /\ IsRows(p.contracts) /\ IsRows(p.grants)
         /\ \A row \in ToSet(p.funds) : \A i \in {1, 2} : row.start[i] \in Nat /\ row.end[i] \in Nat
         /\ \A row \in ToSet(p.grants) : row.repeated \in Nat

VARIABLES
    portal,                     \* the files published now
    importer, fileStage,        \* the run
    files,                      \* what it downloaded
    next,                       \* the next row
    index,                      \* PartyIndex: parties by operation, and operations that named a person
    seen,                       \* operation codes met
    drafts,                     \* events handed to sync_events, in order
    resolved,                   \* organisations of this transaction
    fileEvents, entities,       \* committed: events of each scope and organisations
    lastFiles,                  \* history: the files each scope was last applied from
    uploads, fileRuns           \* counters of the bounds

batch  == <<files, next, index, seen, drafts, resolved>>
saved  == <<fileEvents, entities, lastFiles>>
odvars == <<portal, importer, fileStage, batch, saved, uploads, fileRuns>>

Importers == {"funds", "contracts", "grants"}
NoIndex == [parties |-> <<>>, withheld |-> {}]
NoFiles == [parties |-> <<>>, rows |-> <<>>]

OpenInit ==
    /\ portal \in Portals
    /\ importer \in Importers /\ fileStage = "idle"
    /\ files = NoFiles /\ next = 1 /\ index = NoIndex /\ seen = {} /\ drafts = <<>> /\ resolved = {}
    /\ fileEvents = [i \in Importers |-> {}] /\ entities = {}
    /\ lastFiles = [i \in Importers |-> NoFiles] /\ uploads = 0 /\ fileRuns = 0

OperationFiles == {p.funds : p \in Portals}

Legal(number) == number \in LegalNumbers

-----------------------------------------------------------------------------
(* The network.                                                            *)

\* Resource addresses are found on each run, before any file is downloaded.
BeginFiles == /\ fileStage = "idle" /\ fileRuns < MaxFileRuns /\ fileRuns' = fileRuns + 1
              /\ fileStage' = "resources"
              /\ UNCHANGED <<portal, importer, batch, saved, uploads>>

\* A title must pick one resource: none, two or an unexpected address refuse the run.
SelectResources == /\ fileStage = "resources"
                   /\ fileStage' = IF importer = "funds" THEN "parties file" ELSE "file"
                   /\ UNCHANGED <<portal, importer, batch, saved, uploads, fileRuns>>

\* The elements of a sequence at some of its positions, in order.
Selected(s, positions) ==
    [i \in 1..Cardinality(positions) |->
       s[CHOOSE k \in positions : Cardinality({l \in positions : l <= k}) = i]]

\* Rows of a spreadsheet below its header; blank ones say nothing.
SheetRows(sheet) == Selected(sheet, {k \in DOMAIN sheet : ~sheet[k].blank})

\* The parties file, or the only one.
Download ==
    /\ fileStage \in {"parties file", "file"}
    /\ IF fileStage = "file"
         THEN files' = [NoFiles EXCEPT !.rows = portal[importer]] /\ fileStage' = "scan"
         ELSE files' = [NoFiles EXCEPT !.parties = SheetRows(portal.parties)] /\ fileStage' = "parties"
    /\ UNCHANGED <<portal, importer, next, index, seen, drafts, resolved, saved, uploads, fileRuns>>

\* The parties file is parsed and released before the operations file is fetched.
DownloadOperations ==
    /\ fileStage = "parties" /\ next > Len(files.parties)
    /\ files' = [files EXCEPT !.rows = SheetRows(portal.funds)] /\ next' = 1
    /\ fileStage' = "operations"
    /\ UNCHANGED <<portal, importer, index, seen, drafts, resolved, saved, uploads, fileRuns>>

\* The publisher replaces a file at any time: here between runs and between two downloads.
Upload == /\ fileStage \in {"idle", "parties"} /\ uploads < MaxUploads /\ uploads' = uploads + 1
          /\ \E file \in OperationFiles \ {portal.funds} : portal' = [portal EXCEPT !.funds = file]
          /\ UNCHANGED <<importer, fileStage, batch, saved, fileRuns>>

-----------------------------------------------------------------------------
(* EU funds.                                                               *)

Roles == {"lead", "beneficiary", "intermediary", "supplier"}

\* PartyIndex.add(): one entry per role and number.
Added(parties, code, role, number) ==
    LET entries == IF code \in DOMAIN parties THEN parties[code] ELSE <<>>
        entry   == <<role, number>>
    IN [c \in DOMAIN parties \cup {code} |->
          IF c # code THEN parties[c]
          ELSE IF Contains(entries, entry) THEN entries ELSE Append(entries, entry)]

\* parse_parties(): of a dropped row only the code is kept; an unknown role refuses the file.
PartyRow ==
    /\ fileStage = "parties" /\ next <= Len(files.parties)
    /\ LET row == files.parties[next] IN
       /\ row.role \in Roles
       /\ index' = IF row.code # NoCode /\ Legal(row.number)
                     THEN [index EXCEPT !.parties = Added(@, row.code, row.role, row.number)]
                     ELSE [index EXCEPT !.withheld = @ \cup ({row.code} \ {NoCode})]
    /\ next' = next + 1
    /\ UNCHANGED <<portal, importer, fileStage, files, seen, drafts, resolved, saved, uploads,
                   fileRuns>>

\* _dated(): actual dates win over planned ones, and an end before the start is dropped.
Actual(pair) == IF pair[1] # 0 THEN pair[1] ELSE pair[2]
Period(start, end) == LET first == Actual(start)  last == Actual(end)
                      IN <<first, IF first # 0 /\ last < first THEN 0 ELSE last>>

\* What each programme's sheet tells of an operation.
Operation(row) ==
    [code |-> row.code, title |-> row.title,
     lead |-> IF portal.programme = "prr" THEN NoNumber ELSE row.lead,
     period |-> CASE portal.programme = "pt2020" -> Period(<<0, 0>>, row.end)
                  [] portal.programme = "pt2030" -> Period(row.start, row.end)
                  [] portal.programme = "prr"    -> Period(<<row.start[1], 0>>, row.end)]

Public(role) == IF role = "lead" THEN "beneficiary" ELSE role

\* event(): the first principal beneficiary is told in the details.
FundedEvent(row, parties, title) ==
    LET leads == {k \in DOMAIN parties : parties[k][1] = "lead"}
    IN [id |-> row.code, title |-> title, period |-> row.period,
        parties |-> {<<Public(entry[1]), entry[2]>> : entry \in ToSet(parties)},
        lead |-> IF leads = {} THEN NoNumber
                 ELSE parties[CHOOSE k \in leads : \A l \in leads : k <= l][2]]

\* mutant: persons are looked for only in the operations sheet
TitleAsGiven(row) == row.title

Title(row) == IF row.code \in index.withheld \/ row.title = "redacted" THEN "neutral" ELSE row.title

\* operations(): the first row of a code, with the parties indexed for it or, when there are
\* none, the principal beneficiary of the row itself.
OperationRow ==
    /\ fileStage = "operations" /\ next <= Len(files.rows)
    /\ LET row == Operation(files.rows[next])
           indexed == row.code \in DOMAIN index.parties
           parties == IF indexed THEN index.parties[row.code]
                      ELSE IF Legal(row.lead) THEN <<<<"lead", row.lead>>>> ELSE <<>>
           kept == row.code # NoCode /\ row.code \notin seen
       IN /\ seen' = IF row.code = NoCode THEN seen ELSE seen \cup {row.code}
          /\ index' = IF ~kept THEN index   \* pop()
                      ELSE [index EXCEPT !.parties = [c \in DOMAIN @ \ {row.code} |-> @[c]]]
          /\ IF kept /\ parties # <<>>
               THEN /\ drafts' = Append(drafts, FundedEvent(row, parties, Title(row)))
                    /\ resolved' = resolved \cup {entry[2] : entry \in ToSet(parties)}
               ELSE UNCHANGED <<drafts, resolved>>
    /\ next' = next + 1
    /\ UNCHANGED <<portal, importer, fileStage, files, saved, uploads, fileRuns>>

-----------------------------------------------------------------------------
(* BASE: one archive with one array of contracts, read twice.              *)

\* _parties(): one party per role and number, persons dropped.
LegalParties(record) == {party \in record.parties : Legal(party[2])}

\* records(): the one member of the archive, one array to its end.
WholeArray(archive) == archive # <<>> /\ Last(archive).id = "]"
ArrayItems(archive) == Selected(archive, {k \in DOMAIN archive : archive[k].id # "]"})

\* contracts(): items with an identifier, each only where it is first met, with a party.
Contracts(archive) ==
    LET rows == ArrayItems(archive)
        first(k) == \A l \in 1..(k - 1) : rows[l].id # rows[k].id
    IN Selected(rows, {k \in DOMAIN rows :
                         rows[k].id # NoCode /\ first(k) /\ LegalParties(rows[k]) # {}})

ContractEvent(record) == [id |-> record.id, title |-> record.title, period |-> <<0, 0>>,
                          parties |-> LegalParties(record), lead |-> NoNumber]

\* scan(): the organisations named, before anything is written; an empty file is refused.
ScanContracts ==
    /\ fileStage = "scan" /\ importer = "contracts"
    /\ WholeArray(files.rows) /\ ArrayItems(files.rows) # <<>>
    /\ resolved' = {party[2] : party \in UNION {LegalParties(c) : c \in ToSet(Contracts(files.rows))}}
    /\ fileStage' = "apply"
    /\ UNCHANGED <<portal, importer, files, next, index, seen, drafts, saved, uploads, fileRuns>>

\* apply_year(): the second pass; every party was resolved by the first.
StreamContracts ==
    /\ fileStage = "apply" /\ importer = "contracts"
    /\ drafts' = [k \in DOMAIN Contracts(files.rows) |-> ContractEvent(Contracts(files.rows)[k])]
    /\ fileStage' = "sync"
    /\ UNCHANGED <<portal, importer, files, next, index, seen, resolved, saved, uploads, fileRuns>>

-----------------------------------------------------------------------------
(* IGF: one list of grants, whose rows have no identifier.                 *)

\* ods_rows(): a repeated row counts as often as it says, an empty one not at all.
Times(row)   == IF row.kind = "empty" THEN 0 ELSE row.repeated
Copies(rows) == UNION {{k} \X (1..Times(rows[k])) : k \in DOMAIN rows}
NotAfter(c, d) == c[1] < d[1] \/ (c[1] = d[1] /\ c[2] <= d[2])
OdsRows(rows) ==
    [i \in 1..Cardinality(Copies(rows)) |->
       rows[(CHOOSE d \in Copies(rows) : Cardinality({c \in Copies(rows) : NotAfter(c, d)}) = i)[1]]]

\* grants(): rows below the first header that are no header, of legal beneficiaries; a
\* grantor that is no legal person is left out.
Below(rows) == LET heads == {k \in DOMAIN rows : rows[k].kind = "header"}
               IN IF heads = {} THEN <<>>
                  ELSE SubSeq(rows, 1 + CHOOSE k \in heads : \A l \in heads : k <= l, Len(rows))
Grants(rows) == LET below == Below(OdsRows(rows))
                    kept == Selected(below, {k \in DOMAIN below :
                                               below[k].kind = "grant" /\ Legal(below[k].to)})
                IN [k \in DOMAIN kept |->
                      [from |-> IF Legal(kept[k].from) THEN kept[k].from ELSE NoNumber,
                       to |-> kept[k].to, content |-> kept[k].content]]

\* _numbered(): the rows identical to this one so far, itself included.
Occurrence(grants, k) == Cardinality({l \in 1..k : grants[l] = grants[k]})

GrantEvent(grant, n) ==
    [id |-> <<grant, n>>, title |-> grant.content, period |-> <<0, 0>>, lead |-> NoNumber,
     parties |-> {<<"beneficiary", grant.to>>}
                 \cup IF grant.from = NoNumber THEN {} ELSE {<<"grantor", grant.from>>}]

\* organisations(); a list without a header is refused.
ScanGrants ==
    /\ fileStage = "scan" /\ importer = "grants" /\ \E row \in ToSet(files.rows) : row.kind = "header"
    /\ resolved' = UNION {{g.to, g.from} \ {NoNumber} : g \in ToSet(Grants(files.rows))}
    /\ fileStage' = "apply"
    /\ UNCHANGED <<portal, importer, files, next, index, seen, drafts, saved, uploads, fileRuns>>

StreamGrants ==
    /\ fileStage = "apply" /\ importer = "grants"
    /\ LET grants == Grants(files.rows)
       IN drafts' = [k \in DOMAIN grants |-> GrantEvent(grants[k], Occurrence(grants, k))]
    /\ fileStage' = "sync"
    /\ UNCHANGED <<portal, importer, files, next, index, seen, resolved, saved, uploads, fileRuns>>

-----------------------------------------------------------------------------

\* sync_events() refuses repeated identifiers; what it was not given ceases.
Unrepeated(events) == \A k, l \in DOMAIN events : events[k].id = events[l].id => k = l

FilesRead == \/ fileStage = "operations" /\ next > Len(files.rows)
             \/ fileStage = "sync"

CommitFiles ==
    /\ FilesRead /\ Unrepeated(drafts)
    /\ fileEvents' = [fileEvents EXCEPT ![importer] = ToSet(drafts)]
    /\ entities' = entities \cup resolved
    /\ lastFiles' = [lastFiles EXCEPT ![importer] = files]
    /\ fileStage' = "idle"
    /\ files' = NoFiles /\ next' = 1 /\ index' = NoIndex /\ seen' = {} /\ drafts' = <<>>
    /\ resolved' = {}
    /\ UNCHANGED <<portal, importer, uploads, fileRuns>>

\* A resource that is missing or ambiguous, a download that fails or has another size, a
\* part that cannot be read, or any rule above: the transaction is rolled back.
RefuseFiles ==
    /\ fileStage # "idle"
    /\ fileStage' = "idle"
    /\ files' = NoFiles /\ next' = 1 /\ index' = NoIndex /\ seen' = {} /\ drafts' = <<>>
    /\ resolved' = {}
    /\ UNCHANGED <<portal, importer, saved, uploads, fileRuns>>

OpenNext == \/ BeginFiles \/ SelectResources \/ Download \/ DownloadOperations \/ Upload \/ PartyRow
            \/ OperationRow \/ ScanContracts \/ StreamContracts \/ ScanGrants \/ StreamGrants
            \/ CommitFiles \/ RefuseFiles
OpenSpec == OpenInit /\ [][OpenNext]_odvars

-----------------------------------------------------------------------------
(* What the stored events are, said of the files as wholes.                *)

Rowed(file, code) == {row \in ToSet(file) : row.code = code}
LegalOf(file, code) == {<<row.role, row.number>> : row \in {r \in Rowed(file, code) : Legal(r.number)}}

\* An operation stands for its first row: all legal parties of the parties file, or its own
\* beneficiary, and no free text if that file names a person for it.
FundsListed(f) ==
    LET code(k) == f.rows[k].code
        first == {k \in DOMAIN f.rows : code(k) # NoCode /\ \A l \in 1..(k - 1) : code(l) # code(k)}
        parties(k) == IF LegalOf(f.parties, code(k)) # {} THEN LegalOf(f.parties, code(k))
                      ELSE {<<"lead", Operation(f.rows[k]).lead>>} \cap ({"lead"} \X LegalNumbers)
    IN {<<code(k), {<<Public(p[1]), p[2]>> : p \in parties(k)},
          IF \/ f.rows[k].title = "redacted"
             \/ \E row \in Rowed(f.parties, code(k)) : ~Legal(row.number)
            THEN "neutral" ELSE f.rows[k].title>> : k \in {j \in first : parties(j) # {}}}

\* As many events as a list has rows of a legal beneficiary, however they are ordered.
GrantsListed(f) ==
    LET listed == ToSet(Grants(f.rows))
        times(g) == Cardinality({k \in DOMAIN Grants(f.rows) : Grants(f.rows)[k] = g})
    IN UNION {{<<g, n>> : n \in 1..times(g)} : g \in listed}

\* A contract stands for the first record of its identifier, if a legal person is party.
ContractsListed(f) ==
    LET rows == ArrayItems(f.rows)
        first(c) == CHOOSE k \in DOMAIN rows : rows[k].id = c /\ \A l \in 1..(k - 1) : rows[l].id # c
        ids == {r.id : r \in ToSet(rows)} \ {NoCode}
    IN {<<c, LegalParties(rows[first(c)])>> : c \in {d \in ids : LegalParties(rows[first(d)]) # {}}}

\* Each scope holds what the files of its last applied run say: every contract, grant and
\* operation once, with every legal party and no other, whatever order rows come in, what
\* is replaced on the portal between two downloads and where a run fails.  (Two sheets
\* joined row by row while the index is consumed; two passes over one archive; identifiers
\* made from the content of rows.)
OpenDataIsFaithful ==
    /\ {<<e.id, e.parties, e.title>> : e \in fileEvents["funds"]} = FundsListed(lastFiles["funds"])
    /\ {e.id : e \in fileEvents["grants"]} = GrantsListed(lastFiles["grants"])
    /\ {<<e.id, e.parties>> : e \in fileEvents["contracts"]} = ContractsListed(lastFiles["contracts"])
    /\ \A e \in UNION {fileEvents[i] : i \in Importers} :
         /\ \A party \in e.parties : Legal(party[2]) /\ party[2] \in entities
         /\ e.period[1] <= e.period[2] \/ e.period[2] = 0
         /\ e.lead # NoNumber => <<"beneficiary", e.lead>> \in e.parties
    /\ FilesRead => Unrepeated(drafts)
=============================================================================
