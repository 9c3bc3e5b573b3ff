# pt_ligacoes: a TLA+ verification project

`pt_ligacoes` publishes a graph of people, public bodies and companies in Portugal whose
every link is backed by an official source. A Django/PostgreSQL application
(`src/apps/platform/ligacoes`) imports official snapshots, administrators and reviewers
work on them in the Django administration, and a public site shows only what is evidenced
and reviewed. This directory holds TLA+ models of the parts of it that keep state, the TLC
configurations that check small instances of them, and theorems about them that TLAPS
proves for every value of the constants.

Paths below are relative to `src/apps/platform/ligacoes/` unless they start with `src/`.
`PROJECT.json` gives, for each definition, the lines of the code it stands for.

1. [The system](#1-the-system)
2. [Concurrency and what is hard](#2-concurrency-and-what-is-hard)
3. [The modules](#3-the-modules)
4. [Runs, bounds and fairness](#4-runs-bounds-and-fairness)
5. [What is proved](#5-what-is-proved)
6. [Where code and documents disagree](#6-where-code-and-documents-disagree)
7. [What is only model-checked, and what is not modelled](#7-what-is-only-model-checked-and-what-is-not-modelled)
8. [Plan](#8-plan)

Running it: `tlc -config X.cfg M` with the module each run names in `PROJECT.json`;
`tlapm XProofs.tla` for the proofs.

## 1. The system

| Component | State it keeps | Operations | Correct when |
|---|---|---|---|
| Parliament import queue (`core/import_jobs.py`, `run_import_worker.py`) | `ImportRun` rows; a PostgreSQL session advisory lock | `enqueue_import`, `run_next_import` | a run's changes are in the database exactly when its row says `succeeded`; one owner; every accepted run settles |
| Parliament snapshot (`core/parliament_parse.py`, `parliament_import.py`) | `ParliamentImportState`, `ParliamentRecord` with one claim each, status intervals, biography roles | fetch a roster and biographies, `apply_snapshot` | current records are the unbroken periods served; only what the last roster has is public; dates never go back; withdrawals survive |
| Publication and review (`core/models.py`, `services.py`, `admin.py`) | `Relationship`, `Evidence`, `ReviewEvent`, visibility of `Entity` and `Source` | `save`, `publish_relationship`, `withdraw_relationship`, `publish_imported`, administration forms | what is published is what was approved; withdrawals survive imports |
| Events (`core/events.py`, `event_summaries.py`) | `Event`, `EventParty`, derived summary rows | `sync_events`, `withdraw_event`, `rebuild_event_summaries` | summaries equal the visibility rule; absence ceases; withdrawal is final |
| Observations (`core/enrichment.py`) | `SourceObservation`, the claim each one supports, `SourceSyncState` | `sync_observations`, `sync_scoped_snapshot`, `convert_observation` | only what the last snapshot lists keeps an import's approval; claims follow identities |
| Declared offices (`core/ept_offices.py`) | the same rows, written in bulk | `_sync_offices` | the bulk queries do what the model methods would |
| Identities (`core/identity.py`) | `SourceIdentity`, `EntityAlias`, `IdentitySuggestion`, `IdentityDecision`, `IdentityMerge`, `EntityRedirect` | `resolve_person`, suggestion reviews, mapping edits, `reconcile_identities` | nobody merged against a decision; redirects follow the audits |
| Import requests over HTTP (`core/import_api.py`, `import_forms.py`) | none of their own | submit, status | answers describe the stored run |
| Import dispatcher (`src/scripts/import_dispatch.py`) | one polling client in CI | submit, poll until a deadline | never reports a success that is not one |
| Refresh plan (`refresh_sources.py`) | `RefreshState` dates | ordered steps with prerequisites and intervals; two commands may overlap | a failed step is due again and stops what depends on it |
| Official HTTP client (`core/official_http.py`) | one connection and a watchdog thread | `request`, `close` | no fetch outlives its deadline |
| Event importers (`eu_funds.py`, `base_contracts.py`, `igf_subsidies.py`, `parliament_gifts.py`, `parliament_activities.py`, `eu_contacts.py`) | files and pages of one run | download, join, scope, `sync_events` | a scope said to be complete is; people stay out; nothing is joined to the wrong row |
| Biography and office importers (`government.py`, `parliament_bodies.py`, `sioe.py`, `etf_boards.py`, and the biographies of Parliaments) | crawl caches, claims of organs and boards | crawl, parse, collect | nobody is given another's office, term or organ; a partial run withdraws nothing |
| Path search (`public/paths.py`) | one request's two frontiers | bounded queries, level by level | shortest paths; nothing hidden is shown |
| Graph and profile data (`public/graph_data.py`, `profile.py`, `selectors.py`) | one request | bounded queries | what is answered was published and is taken by the browser |
| Path search (`public/paths.py`), graph and profile pages, source page | none but a ten-minute cache of counts | bounded reads | nothing hidden is shown; shortest paths |
| Browser graph (`src/frontend/src/graph.ts`) | what is drawn, what is expanded, a generation counter | load, select, expand, merge, reset, leave | a late answer never lands in another map; limits are said |
| Sources page, crosswalks (`core/wikidata.py`, `gleif.py`), catalogue, administration pages | a cache of counts; suggestions | bounded reads | counts say their age; suggestions are reviewed |
| Release guard, workflows, deployment | none | checks before a merge; containers | what is deployed is what was validated |

How they interact:

* Everything that writes editorial rows takes one advisory transaction lock first
  (`editorial_transaction`, `core/models.py`), so these writes are serial **per
  transaction**. What is not serial is everything read before the lock (a collector's
  identities, an administration form's instance) and everything made of several
  transactions (an import run, a reconciliation).
* Importers call `resolve_person` (Identity), then one synchroniser (Events, Observations
  or the Parliament import), which calls `publish_imported` (Publication). `Entity.save`
  and `Source.save` invalidate approvals and rebuild event summaries. A merge moves
  claims, event parties and passages to the retained profile.
* Pages read in several queries without a lock; `public_relationships()` and
  `public_events()` are the only visibility rules. The browser parses what `graph_data.py`
  answers and refuses all of it if one element is wrong.
* The importers are steps of the refresh plan, which knows only whether a step returned;
  Parliament snapshots also run through the queue. Most fetch with `official_http.py`, the
  Parliament's roster with a client of its own (`parliament_fetch.py`).
* A workflow's dispatcher and administrators are clients of the same queue.

## 2. Concurrency and what is hard

`PROJECT.json` lists the hazards at their lines. In short:

* **the queue**: two workers, restarts, a session lost at any point, a COMMIT nobody hears
  of, a permission withdrawn between the checks, identical and conflicting requests racing
  to insert;
* **publication**: saves through seven paths that must all end the right approvals, moved
  evidence rows, forms loaded before and saved after a withdrawal, pages whose evidence is
  read after the claims;
* **events**: records that move between scopes, derived rows that six kinds of write must
  keep exact, identities frozen by what is published;
* **observations**: a snapshot collected against identities that are reviewed or merged
  before it is applied, revisions that come and go, withdrawals that must outlive revisions
  and legislatures;
* **identities**: a global plan that goes stale after each of its own merges and whenever
  an import or a reviewer commits in between; references that a merge must carry over;
* **dispatch**: the run a workflow polls may be recovered, failed or finished by others while
  an answer is on its way, while the alarm rings, or after a reply was lost;
* **refresh**: nothing locks it, two commands overlap, either dies between the import that
  commits and the row that remembers it, and intervals are measured in days;
* **downloads**: a watchdog thread against connect, the TLS handover of the descriptor,
  redirects and close;
* **paths and maps**: level by level queries over data that changes, limits that must be
  reported, two sides that meet; answers that arrive after a reset;
* **importers**: sites that change between two pages, cut exports silently, repeat
  identifiers, replace files between two downloads, or lose cells of a table: what was not
  read must not be taken for absent.

## 3. The modules

A component module has its actions and properties; an `MC` module the constants of its
instances; a `Proofs` module its theorems. Every action is one whole database transaction,
one request or one step of a process; its name is that of the function or method it models.

| Modules | Composed in | Theorems |
|---|---|---|
| `ImportLedger`, `ImportQueue` | `MCImports` | `ImportProofs` |
| `ImportDispatch` (extends `ImportQueue`) | `MCImportDispatch` | `ImportProofs` |
| `Publication`, `DeclaredOffices` (extends it) | `MCPublication` | `PublicationProofs` |
| `Events` | `MCEvents`, `MCSources` | `EventsProofs` |
| `OpenData` | `MCSources` | `EventsProofs` |
| `ParliamentRegisters`, `EuMeetings`, `Mandates`, `ParliamentBodies`, `PublicBodies`, `BoardTables`, `GovernmentOffices` | `MCSources` | `SourcesProofs` |
| `Observations` | `MCObservations`, `MCImports` | `ObservationsProofs` |
| `Identity` | `MCIdentity` | `IdentityProofs` |
| `RefreshPlan`, `OfficialHTTP`, `EntityMap` | `MCOperations` | `OperationsProofs` |
| `PathSearch` | `MCOperations` | `PathSearchProofs` |

`MCSources` and `MCOperations` hold components that share nothing: a variable `part` says
which of them an instance looks at, the others rest in one initial state. In the same way
`scope` (MCPublication) and `feed` (MCObservations) choose, in the initial state, between
instances that would be too large together: the actions are those of the component, and a
constraint on states (`InScope`, `InFeed`) drops what the chosen instance does not look at.
`MCObservations` takes its third instance by `INSTANCE Observations WITH` other passages.
`MCImports` adds the queue, which shares nothing with observations, as one more choice of
`feed`.

Variables marked *history* in their declaration exist only so that properties can relate a
state to an earlier one.

### ImportQueue, with ImportLedger as its specification

| Model | Code |
|---|---|
| `status`, `stored`, `error` | `ImportRun` by primary key |
| `reply` of a request; `Submit`, `Insert`, `InsertFails`, `Reread` | `enqueue_import`: permission and first read, `INSERT`, `IntegrityError`, second read with `_replay` |
| `pc`, `run`, `session` of a worker | the local state of `run_next_import` and its connection |
| `TryLock`, `Claim`, `StartFetch`, `Fetch`, `BeginApply`, `ApplySnapshot`, `SendCommit`, `MarkFailed`, `Unlock` | its steps in order, each with the check that precedes it |
| `open`, `lock`, `tx` | server ends of the sessions, the queue's lock, the editorial transaction |
| `CommitLands`, `CommitHeard`, `CommitRefused` | the server's commit, and whether the client learns of it |
| `Terminate`, `ReapBackend`, `KillBackend`, `ExitOnError`, `Restart` | signals, lost connections, the command exiting and the platform starting it again |
| `Revoke`, `Grant`; `DirectApply` | administrators' permissions; imports that do not use the queue |

The client and the server end of a session are separate: a worker may be gone while its
backend still holds the lock, or still commits. The snapshot's content is abstracted to its
date. `Unlock` of a session that was lost is the exit of the command and a restart, which
is what the finaliser does with a broken connection.

`ImportLedger` is what the history promises to its readers, with neither workers nor
sessions: a request enters only when nothing is active, a failed run has changed nothing,
success and its changes are one step. `ImplementsLedger` is the refinement, checked by TLC
and proved.

### ImportDispatch

The workflow step `scripts/import_dispatch.py`, `core/import_api.py` and the queue behind
both. `phase` is where a dispatcher is, `wire` the answer on its way to it, `seen` the last
status it heard. `Post` and `Poll` send a request, `ServePost` takes the steps of
the queue's `enqueue_import` for it and puts the answer on the wire, `ServeGet` is the status view,
`Hear` is the dispatcher reading an answer with every check it makes (`Verdict`),
`LoseConnection` a reply that never arrives, `Expire` the alarm at the deadline, at any
point. Between `ServePost` and `Hear` workers, sessions and other clients go on, so an answer
may be old when it is read. `QueueStep` is any step of `ImportQueue`, unchanged. Bodies of
requests and answers are reduced to what `_validated` and `_run` compare; tokens are left
out.

### Publication

`desk` is the review of a claim (status, reviewer, timestamp, last `ReviewEvent`);
`claim`, `entity`, `source` and `evidence` are rows reduced to their visibility and to one
`text` that stands for every public field. `SaveEntity`, `SaveSource`, `SaveEvidence`,
`DeleteEvidence`, `CreateClaim` and `SaveForm` are the model `save`/`delete` methods and
the claim form with its inline evidence; `Publish` and `Withdraw` the two services;
`ImportNew`, `ImportRevise`, `ImportRetire` and `ImportReassert` what the importers do with
claims they own; `ReadClaims` and `ReadEvidence` the two queries of a page. `LoadForm` is a
step of its own because `changeform_view` reads the instance before `save()` takes the lock.
`approved` (history) keeps the facts of the last publication, `barred` the withdrawn claims.
A stale form that overwrites a withdrawal also ends the bar on its claim and leaves a draft
that the history explains: that such a claim is published by an import is shown by
`publication_stale_form`, not by `WithdrawnStaysRejected` or `HistoryExplainsPublication`.

Left out: refused permissions, deletion of rows nothing refers to,
`PUBLIC_EVIDENCE_LIMIT` (it only shortens a list).

`DeclaredOffices` adds `_sync_offices`, which revises thousands of rows of the public listing
of office holders in bulk queries: `ListOffices` is one listing, with the rows that are gone
(`Gone`), come back (`Returning`) or changed, the citations it shows and hides (`Cite`) and
the claims it drafts (`Drafts`) and publishes (`Publishes`). The methods of the models are
not called, so whose approval ends is stated anew.

### Events

`event` is the row with its parties; `summary` the `EventEntitySummary` and
`EventPairSummary` rows of an entity, kept as the events that add up to them so that an
incorrect total cannot hide behind an equal number; `holder` and `used` the
`SourceIdentity` rows and whether they are frozen. `SyncEvents` is the whole of
`sync_events` (date check, source row, items, absence, freezing, rebuild of the touched
entities); its batches are parts of one transaction and so one step. `WithdrawEvent`,
`SaveEntity`, `SaveSource`, `MoveIdentity` and `MergeIdentity` are the other writes that
move derived rows.

Abstractions: one dataset (datasets share no rows but identities), items of a snapshot
have distinct record ids (a duplicate rolls the transaction back), the clock advances
between transactions, any two public profiles may be merged (Identity says which).

### Observations

A *passage* is one revision of one source entry; `row` is its `SourceObservation` with the
claim and the evidence row the import created for it. `Collect` reads the source and the
identities; `Apply` is the later transaction (`sync_observations`,
`sync_scoped_snapshot`), against whatever was written meanwhile; `Abandon` a run that
stops. `Covered` is the scopes a snapshot speaks for, with the absent ones under a prefix;
`Barred` the rule that an editor's withdrawal of any revision, or of the same biography
entry in another legislature, blocks publication. `Publish`, `Withdraw`, `EditClaim`,
`SaveEvidence`, `SaveSource`, `SaveEntity`, `Convert`, `MoveIdentity` and `MergeIdentity`
are the writes of reviewers, editors and identity reviews. `Info` fixes what each passage
says, so a revision never changes: in the code it is a hash of the content. `Claimed` decides
by the status a claim had when the sync read its rows, as the code does with its cached
object: a claim published by hand that ends and comes back in one snapshot waits for the
next as a draft. `WithdrawalsHold` leaves conversions of withdrawn claims out, which
`observation_conversion` shows. `Convertible`
and `Touchable` bound which rows people touch in an instance. `Legacy` is the date of the
shared biography scope that an older importer left.

### Identity

A profile is named after the identifier whose first resolution creates it. `Resolve`,
`Attach` and `Create` are the three outcomes of `resolve_person`; `Suggest`, `Accept`,
`Reject`, `Remap` (an editor's `SourceIdentity.save`) and `Decide` the editorial writes;
`SetClaim` and `SetPublic` the publication of an office and of a profile.
`reconcile_identities` is `Start`, `Plan`, `Recheck` and `EndPass`: a global scan that
authorises nothing, then for each proposal the component planned again under the lock and
its first match merged, until a pass merges nothing or the bound `left` is spent.
`Blocked`, `Corroborated`, `OnlyChoice`, `Precedes`, `ReconciliationPlan` and
`NamesakeComponent` are the pure functions it is built from.

Abstractions: what two offices have in common is one token per identifier (`Signals`, for
the code's signals S1 to S4); claims attached to an identifier move with it; a plan's
proposals may be processed in any order, which includes the code's; the limit counts the
modelled public profiles; editors neither show merged shells again nor map identifiers to
them. Profiles entered by hand and organisations are left out. `refused` and `apart` are
history: an identifier mapped by an editor's own `Remap` overrides a refusal.

### The importers (MCSources)

Each starts from what a source publishes, and has the requests of one run as actions, with
failures and changes of the source between any two of them; its last action is the
transaction that applies the run. Its property compares what is stored with a definition of
what the source says, written over whole lists and not along the code.

* **OpenData** (`eu_funds.py`, `base_contracts.py`, `igf_subsidies.py`). A run resolves the
  current resources, downloads, and reads: two sheets joined row by row while the index of
  the first is consumed (`PartyRow`, `OperationRow`), an archive or a list read twice
  (`ScanContracts`/`StreamContracts`, `ScanGrants`/`StreamGrants`), and replaces the scope
  (`CommitFiles`). `Upload` is the portal replacing files meanwhile. Numbers of natural
  persons are told apart from legal ones; dates are small numbers.
* **ParliamentRegisters** (`parliament_gifts.py`, `parliament_activities.py`). A list of
  deputies read page by page (`NextPage`) while members come and go (`SiteChanges`), then a
  page for each; and the hearings and elections of a file, with the acronyms of committees
  resolved in tiers (`Mapped`).
* **EuMeetings** (`eu_contacts.py`). Exports cut at `RowCap` rows without saying so, so a
  month is asked again for half of the members (`ReadMonth`); a refusal of the export
  (`Blocked`); files of cabinets; registrants who are people.
* **Mandates** (`parliament_parse.py`, `parliament_import.py`). `FetchRoster` makes the
  complete snapshot of a roster (`PeriodsOf`: effective rows, contiguous ones joined, cut to
  the legislature), `ApplyRoster` is `apply_snapshot` with records, claims, intervals and
  biographies. Several snapshots may be held and applied in another order.
* **ParliamentBodies** (`parliament_bodies.py`). The organs of a legislature, the
  delegations (which legislatures before `FirstDelegations` do not have) and the groups
  gathered from several files, periods clipped to the member's own, units placed under the
  committee that deputies' links name.
* **PublicBodies** (`sioe.py`). A crawl of paged searches and one history per organisation,
  with retries, a renewed session, a rehearsal limit and a cache that a later run resumes
  from, while the register changes; then entities, kinds, NIPCs, supervision and boards. A
  history that is no longer listed answers with what it was. `ReviewIdentity` is
  `SourceIdentityAdmin`: a reviewer records a code or a NIPC for any organisation, those of
  this importer included, or moves one that no published claim relies on yet (`relied`).
* **BoardTables** (`etf_boards.py`). The text of a table line by line (`ReadLine`), names
  wrapped over lines and lost cells, and the pairing of cargos with names in order
  (`Reconciled`, `Pairs`) or not at all. A footnote goes on over lines until a blank one, a
  header or an organ (`OpenNote`, `GoOnWithNote`); a mandate cut after its start
  keeps the section's only where the year agrees (`Fallback`); equal rows are kept once
  (`FirstRows`). Companies are visited one by one, their documents read from the link that
  was seen on their page (`VisitCompany`, `ReadBoard`), and the result is a complete or a
  partial publication. A word is a token; fonts and columns are reduced to the order in
  which the text arrives. `sitesDuring` (history) is what the site published since the visit began.
* **GovernmentOffices** (`government.py`). The days of a Government (`ReadBootstrap`), its
  appointments searched page by page (`SearchAgain`) and the history of each portfolio read
  in turn (`ReadHistory`, in any order), while appointments begin, end, move or are hidden (`Reshuffle`);
  `ApplyComposition` refuses what the histories do not prove (`HistoryProves`) and writes the
  offices, with the eve of a successor's first day as the last one, and the state of each
  portfolio. An appointment is its identifiers and days; areas and titles are left out.

### Operations (MCOperations)

* **RefreshPlan** (`refresh_sources.py`). `at` is the step a command is at, `failed` what it
  will report, `last` the rows of `RefreshState`; `Pass`, `Call`, `Imported`, `Record`, `Fail` are
  the branches of the loop; `Kill` may come anywhere, also between the import's commit and
  `Record`. `Tick` moves a calendar in days. `applied` (history) is when a source was last
  imported.
* **OfficialHTTP** (`official_http.py`). The caller's steps from `Resolved` to `Join`, the
  watchdog's `Fire` and `Expire`, the lock between them, and the socket whose descriptor
  TLS takes over (`WrapTLS`, `Wrapped`): `fd` is who holds it. Redirects start again.
* **PathSearch** (`public/paths.py`). Two frontiers expanded level by level (`ReadClaims`,
  `ReadEvents`, `Sort`, `Settle`) with every limit, hubs by degree and by kind, the joining
  of both sides, the statement timeout, and `Build`, which reads the hops again. `Reached`
  is the reference: all simple paths, by length. `Change` publishes or withdraws meanwhile.
* **EntityMap** (`public/graph_data.py`, `profile.py`, `selectors.py`, `graph.ts`). Six
  queries make an answer; `Mounted`, `Select`, `Expand`, `Merge`, `Discard`, `NoResponse`,
  `Reset` and `LeavePage` are what the browser does with it. One expansion is awaited at a
  time, as the code's `expanding` has it; `button` is the button of the detail as it was last
  drawn, which an answer discarded after a reset does not draw again. Layout, labels and the
  keyboard are left out.

## 4. Runs, bounds and fairness

| Run | Instance | Shows |
|---|---|---|
| `imports` | queue: 2 workers, 3 sessions, 2 runs, 2 dates, 3 failures, 1 direct import | a row says `succeeded` exactly when its changes are in; a withdrawn permission never succeeds; only orphans are interrupted; dates never go back; refinement of `ImportLedger` |
| | observations: one biography in 2 legislatures; a name and an identified subject; 2 revisions of an entry with another scope and conversions | one current revision, approval by listing, claims follow identities, withdrawals hold |
| `import_dispatch` | 1 worker, 2 sessions, 1 failure; a dispatcher, another caller and a reuse of the dispatcher's identifier | answers are truthful, reports are true, no valid transition is refused; every accepted run settles, every dispatcher ends |
| `publication` | 2 claims of one source, 2 evidence rows; two wordings, or an open form and a page, or two revisions of an office in a bulk listing | approval is exact and visible, withdrawals survive, history explains each row, pages attach approved evidence |
| `publication_stale_form`, `publication_offices` | the same; the evidence of an office moved | *violations*, section 6 |
| `observation_conversion` | the biography, one passage converted | *violation*, section 6 |
| `identity` | a deputy, two ministers of one name and a public-company post; 1 reconciliation, 2 editorial decisions | decisions hold, merges are unambiguous when made, registers stay exclusive, redirects follow audits, the fixpoint is reached |
| `sources` | events: 1 record, 2 scopes, 2 profiles, 2 anchors and a name; each importer: 2 runs and 1 change of its source (the list of deputies 2; the Government 3 of either) | summaries are exact, parties stand, absence and withdrawal hold; one property per importer |
| `events_older` | 1 record, 2 days | *violation*, section 6 |
| `bodies_two_nipcs`, `boards_wrapped` | the register of `sources` with one review; one document of a wrapped name and a lost one | *violations*, section 6 |
| `operations` | a weekly run of up to a day and one by hand in 8 days; 2 redirects; 5 nodes with every limit met and 1 change; a map of 4 entities with every limit met, 1 change, 1 reset | refreshes rest on what is fresh, downloads are whole and end, paths are shortest, maps are sound |

Why the bounds are enough to be interesting:

* *ImportQueue.* A restarted worker must meet its own lingering backend and another worker,
  hence three sessions; three failures allow a lost worker, a lost backend and the loss of
  the worker that recovers them. Two runs let one be orphaned while the other is queued.
  `MaxFaults` and `MaxDirect` only bound how often, not when.
* *ImportDispatch.* One worker that dies and restarts gives every transition a poll can
  meet; another caller and the reuse of an identifier give the conflicts.
* *Publication.* Two claims and two rows are what moving evidence and sharing a source
  need. Two wordings are what a change of content needs.
* *Events.* Records meet only through their source row and their co-parties; one record
  that moves between two scopes, with up to two parties and a name that is no anchor,
  meets every guard of `sync_events`. The theorems cover any number of them.
* *Observations.* Each feed takes the passages its question needs: two revisions of one
  entry, another scope, another legislature, a name without identifier.
* *Identity.* Three profiles at a time are what a rival for a match needs; `Feeds` chooses
  which three of the four identifiers the sources publish: with a deputy, the post holder
  bridges two registers, and without one, two ministers compete for the post holder. `MaxEdits`
  bounds decisions, hints and withdrawals, never imports or reconciliation.
* *Importers.* A run that is overtaken, one after it that repairs or resumes, and one
  change of the source anywhere between: pages of one or two rows make several pages, a
  limit of two rows makes an export reach it, exceed it and be split. The contents of
  `MCSources` were chosen so that each branch of a parser is taken: rows out of order,
  repeated, redacted, without identifier; periods that touch, reverse and overrun; a name
  on two lines and a cell lost at each place. `MaxIdentityReviews` is one: with the
  identities of the first import, which already have an entity with a NIPC and no code, a
  second NIPC makes the case in which two codes meet. Only the application of a run reads the
  identities, and what it relied on only grows with it, so `ReviewBeforeApplying` counts a
  review of one NIPC just before an application: it leaves out orders that nothing can tell
  apart, and reviews of a code, which no NIPC overrides.
* *Operations.* Instants 0, 1, 6, 7 and 8 are the edges of an interval of six days in a
  weekly calendar with runs of up to a day. The limits of paths and maps are as small as
  the graph needs to exceed each of them.

No run switches the deadlock check off. Where an instance bounds the runs of a component,
a stuttering disjunct of the `MC` module says that it may stop there; the downloads have
`Finished` for the end of the process.

Each property of a passing run has a mutant in `PROJECT.json`: a named operator in the
module (marked `\* mutant`) that changes one definition the way a plausible bug would, and
that makes TLC find the property violated in the same run.

Fairness is assumed for `QueuedSettles`, `DispatchEnds` and `DownloadEnds` only.
`DFairSpec` has weak fairness of each worker's `Work` (its loop, and the platform's restart
policy, keep it going; a fetch is bounded by the deadline of `parliament_fetch.py`), of
`CommitLands` and `ReapBackend` (a server finishes a COMMIT it was sent, and ends a backend
whose client is gone), of the steps of the other clients, of `ServePost` and of `Expire`:
the alarm of the workflow step rings. Polls, answers and lost connections are not fair.
`MCSpec` of `MCOperations` has weak fairness of the caller's own steps, of the clock, of the
watchdog thread, of the bounded wait for the resolver, and of the return of a call on a
socket that was shut down; whatever the network would have to do is not fair. Signals,
faults, refused commits and permissions may or may not happen; `MaxFaults` makes failures
finite, as they must be for a run to settle.

## 5. What is proved

For every value of the constants that satisfies the module's `ASSUME` and from no other
assumption, except where one is named; TLC evaluates every `ASSUME` in a run.
`PROJECT.json` lists each theorem. Each family proves one step lemma per part of
its invariant, with one step per action, and the temporal theorems follow by PTL.

* **ImportProofs.** *The queue:* type correctness, the four safety invariants, both action
  properties and the refinement. The invariant is
  `QueueTypeOK /\ TxInv /\ RunInv /\ RowInv /\ LateInv /\ OwnerInv /\ AnswersAreTruthful`:
  who may own the open transaction (`TxInv`), what a worker's step says of its run
  (`RunInv`), what a row's status says of `stored` and `applied` (`RowInv`), what a
  withdrawn permission leaves possible (`LateInv`), that claimed runs of connected workers
  belong to the lock (`OwnerInv`). The proofs show that exactness of the changes needs
  only the row lock and the reread status; the advisory lock is what single ownership and
  the recovery of orphans rest on. `Implementation` maps every step to a step of
  `ImportLedger` or a stutter.
  *Its dispatchers:* `TrueReports`, and `DispatchImplementsLedger`: the composition of queue and
  dispatchers implements `ImportLedger` too, with truthful answers. Rows only move forward and keep their
  parameters, so an answer on its way shows an earlier state of the very run it answers for
  (an invariant on `wire`), and what a dispatcher has seen stays behind what is stored. The
  queue's own invariant is used as proved, since dispatchers leave its variables alone.
* **PublicationProofs.** `ReviewInv`: the facts on record as approved are the row's facts
  and are publishable. Each action disturbs only facts of claims whose approval it ends
  (`StableFacts`). From it follow exact approval, visibility and the pages; an independent
  invariant gives the history. `Withdrawal` is about `barred`, the claims withdrawn since
  which no form opened earlier was saved: section 6 shows why it cannot say more.
  `OfficesWithdrawal` and `OfficesHistory` say the same of the bulk listing of offices;
  exact approval is not proved of it, and section 6 shows that it fails there.
* **EventsProofs.** `SourceInv /\ FrozenInv /\ AnchorInv /\ AbsentIsNotPublished` gives
  identification, anchors and absence. Exactness of the summaries rests on `RebuildExact`:
  a rebuild that covers every party of every event whose row, parties or visibility moved
  leaves all summaries exact; each action is shown to cover them.
  *Open-data files:* `FilesStayFaithful`: what is kept while the rows of a file are read one by
  one is what the rows so far say. The index of parties is every legal party and every code that
  named a person up to the row (`IndexIs`, `PartyRowStep`), less the operations met; the drafts are
  the first rows so far that have a party (`OperationsHold`, `OperationRowStep`), which is what the
  whole file lists once it is read (`FundsAreListed`). Nothing of the join depends on when the
  portal replaces a file, because each is read from one download (`RunHolds`). Contracts and
  grants are made of whole files: a sequence selected by positions holds each exactly once
  (`SelectedAre`), so an identifier met first stands once (`ContractDraftsAre`), and the equal rows
  of grants are numbered from one on without gaps (`OccurrencesAre`, `GrantDraftsAre`).
  `OpenDataAssumption` says that files are sequences, days and repetitions are numbers, the
  programme is one of the three and the missing number is no legal person's.
* **ObservationsProofs.** `FetchedInv` (what a collector holds is consistent) and
  `AutoInv /\ OneCurrentRevision /\ SubjectInv`. `OneCurrent` means that the database's
  unique constraint on current revisions can never refuse a snapshot. `Withdrawals`
  assumes `Convertible = {}`: section 6.
* **IdentityProofs.** `Decided`, the conjunction of typing, `RowsInv`, `RedirectInv`,
  `RefusedInv` and `ApartInv`. A merge respects decisions because `Blocked` reads the very
  rejections and decisions that earlier merges carried over to the profiles left.
  `UnambiguousMerges` rests on `SameNeighbours`: the component of two profiles holds every
  namesake edge of either, so what is the only choice in it is the only choice among all.
  `Fixpoint` is about a loop that plans until a plan is empty: what is left to do at any
  moment is what its last plan held and was not done yet, unless somebody interfered
  (`FixpointInv`).
* **OperationsProofs.** *Downloads:* the guard refers to whatever is attached, only
  `WrapTLS` hides the descriptor, under the lock, and a watchdog that expired left the guard
  closed (`GuardInv`); a shutdown comes after the deadline, so what it cut never passes the
  last look (`BodyInv`). *Refreshes:* time only grows, a remembered success was committed
  (`ClockInv`), and a step behind a runner is fresh, reported, or was stopped by one that
  is (`ProgressInv`), for any plan whose prerequisites come first and are closed
  (`PlanAssumption`). `WeeklyRunsImport`: what a weekly run recorded last is at least a week
  less one run old when the next one asks (`WeeklyInv`), and no interval is longer than that
  (`RestAssumption`, which is the table `MIN_INTERVAL` of the code). *Maps:* `MapsAreSound` rests on what an answer may list and how long
  (`AnswerInv`), on which entities may be expanded (`FewInv`), on what is drawn
  (`CanvasInv`) and on what is awaited (`WaitInv`). That a page of `k` claims has at most `k`
  (`LeastOfBound`), that `n` claims join at most `2n` entities (`EndsBound`) and that an
  expansion keeps both limits (`FittingBound`) are lemmas on finite sets. The maximum of a
  finite set (`MaxExists`) comes from the well-foundedness of strict inclusion.
* **PathSearchProofs.** `SearchesAreSound`, from four invariants, each resting on the one before.
  `SearchInv`: each side is a tree whose entities are a level further than their recorded
  predecessors, over pairs that were published at some time; while the search goes on the sides
  are apart and each frontier is the last level of its side. `CalmInv`: if nothing changed, those
  pairs are published and what is expanded is no hub. `WholeInv`: if nothing was cut either, a
  neighbour of an entity below the level of a side is on that side and at most a level further
  (`Closed`), and each entity has all its possible predecessors recorded, or `MaxPaths` of them
  (`Recorded`). Then a walk between the ends that is as long as both levels passes an entity of
  both sides (`WalksMeet`), so no shorter path was overlooked before they met (`NowShorter`), and
  they meet on their last levels only (`NowMeet`), so all that is joined is simple
  (`PathIsSimple`). Every shortest path is two chains, unless a chain was lost at an entity with
  `MaxPaths` predecessors, and then there are as many other paths (`ChainOrMany`,
  `JoinedEnough`). `PathAssumption` says that entities are finitely many, that claims and events
  join two different entities, and that the limits of paths, of the frontier, of events and of
  length are positive.
* **SourcesProofs.** `MeetingsStayWhole`: of each month, what is not read yet is still to be
  asked for (`MonthsInv`), since an export shorter than its limit is all there is
  (`WholeExport`), and a window cut short leaves its members asked for in halves. It assumes
  that names of registrants are distinct. `MandatesFollowRecords` and
  `WithdrawnMandatesStay`: whatever the rosters and their order, only current records are
  public, with their ends, and no snapshot brings back what an editor withdrew.
  `LegislatureStaysWhole`: the records cover exactly the days served. Joining the rows one
  by one, in the order `Nth` gives them, leaves periods that neither touch nor overlap and
  have the days of the rows so far (`OneMoreRow`, `JoiningDays`); the joining is a recursive
  function, over which `Iterated` counts up instead of an induction. The claims of a group
  are the days of its row within them (`SittingDays`); a delegate is on the nearest roster that
  has the DepId because rosters are read from the nearest on (`WhoIsWho`); a link counts for a
  unit only if it is about no other (`LinksAbout`). `MandatesAssumption` and
  `BodiesFilesAssumption` say that rosters and files are finite, days are numbers up to
  `OpenEnded`, the day of a row without an end, and no DepId or number is the missing one.
  `HandoversStayExact`: an appointment of the Prime Minister is the only one, and any two of
  another portfolio are apart by its history, so on the day of a handover the portfolio has
  the successor only. It assumes that days are numbers below `NoEnd`. `OfficesStayProved`: each
  page read is that of a version published during the run, and each appointment read stands in
  one (`ProvedInv`), so what is applied holds all that such a page listed of the portfolio, and
  besides it only earlier terms of who is held after them. If nothing changed meanwhile, each
  page read is the page of the one version there is (`UndisturbedInv`); the search is whole, as
  many different appointments as it has in all, so all of them are in (`AllPlacesRead`,
  `AppliedIsExact`).
  `RegistersStayComplete`: a deputy that stayed on the list is met already or is on a page
  still to come, as long as members only came or only went (`PagingInv`; `Inserted` and
  `Removed` say what each does to positions), and a different total ends the reading; rows
  read more than once keep their numbers apart (`EntriesAreRows`), and so do equal
  activities (`NumbersDiffer`). `RegistersAssumption` is the typing of the inputs, with
  deputies listed once. `BodiesStayTrue`: whatever was answered or found in the cache is a
  page or a history of a version seen (`ResponsesInv`) and pages come in order
  (`InOrder`); `parse_universe` compares the totals of all pages, so they are of versions
  with the same number of entries. That each code has an entity of its own is not so
  (section 6), and what holds is stated instead (`EntitiesAreDistinct`): an import moves no
  code, and two codes have one entity after it only if they both had it before or if that
  entity had no code and held the NIPCs that both own (`TwoNipcs`). A code gets the entity of
  a NIPC only if no code had it, and one of its own otherwise, which no other identity can
  name before its code is anchored (`AnchorInv`); reviewers may record what they like, before
  the first import and between any two. `AnchorAssumption` says only that the first
  identities name organisations that this importer did not create.
  `BoardsStayTrue`: the link that is followed was on the company's page when it was visited,
  so each document read was the company's in a version published during the visit, and a company passed by without one
  had none in such a version (`VisitInv`, with `Seen`); companies are visited in order, so a
  complete visit has passed every company of its list, and the others were not in the version
  that gave the list (`PublishedFollows`). That what is published of a document is true is
  proved from `EveryDocumentIsReadTruly`, the hypothesis that the parser reads nothing into a
  document and loses nothing of a text that lost nothing. The `sources` run reads every document of
  its instance, and shows it of those.
  `BoardAssumption` types the sites.

## 6. Where code and documents disagree

Each is a run that TLC must find violated; `PROJECT.json` quotes both sides.

* `publication_stale_form`: a claim form whose instance was read before a withdrawal
  overwrites `REJECTED` with its old `DRAFT` (`core/models.py:533`); the next snapshot
  publishes the claim. `src/docs/architecture.md:46` says imports never override editorial
  withdrawal. The steps: import, edit (draft), form loaded, withdrawal, form saved, import.
* `events_older`: the date of the last snapshot is inferred from the rows of the scope
  (`core/events.py:239`). A newer snapshot that leaves no row there leaves no date, and an
  older one is applied after it. `src/docs/architecture.md:79` says older snapshots cannot
  replace newer ones.
* `observation_conversion`: converting the passage of a withdrawn claim sets it to `DRAFT`
  (`core/enrichment.py:294`) and the next import publishes it with no reviewer.
  `src/docs/methodology.md:58` says a withdrawal blocks automatic republication.
* `publication_offices`: a bulk listing hides or shows an office's evidence by its key
  (`core/ept_offices.py:715`) and ends only the approval of the office's own claim. Evidence that
  an editor moved to another claim changes there without ending that claim's approval.
  `src/docs/methodology.md:58` says changed observations invalidate dependent publication.
* `bodies_two_nipcs`: which organisations a SIOE code anchors is asked once, before the plan
  anchors more (`core/sioe.py:1009`, `1023`). A reviewer gives an organisation without a code
  the NIPCs of two entries that no code names yet, and the next import makes the two public
  bodies one entity. The comment at `core/sioe.py:1008` says that an organisation anchored by
  another SIOE code is never merged through NIPC.
* `boards_wrapped`: a table is taken for whole when it has as many names as offices and no
  name is a fragment (`core/etf_boards.py:866`, `880`), which a half of two words is not taken
  for. Where a name of four words is on two lines and the cell of another name was lost, the
  halves are two members, the second of whom has the office of the one that was lost.
  `core/etf_boards.py:955` says that a fragment means the table did not pair.

## 7. What is only model-checked, and what is not modelled

With TLC only:

* liveness, which is out of the prover's reach: `QueuedSettles`, `DispatchEnds`,
  `DownloadEnds`;
* of `BoardRowsAreTrue`, that the parser reads the documents of the instance truly; another
  document may be one it misreads, as that of `boards_wrapped`. The rest is the theorem `BoardsStayTrue`;
* `OneComposition` of `OfficesAreTrue`, whose premises are about the changes of the
  instance (its other parts, `HandoversAreExact` and `OfficesAreProved`, are theorems);
* the violations of section 6.

Limits of the code that the models describe and no property contradicts, kept here for who
maintains it:

* the dispatcher accepts a success only if `serving` is exactly 230
  (`src/scripts/import_dispatch.py`, `CountsMatch`), although `src/docs/operations.md:86` says
  that `serving` counts effective periods, which exceed the seats as soon as one was replaced:
  such a run succeeds and the workflow fails. No property speaks of the workflow's failures,
  and the instance dispatches for a date with as many periods as seats;
* a list that loses and gains as many entries between two pages looks unchanged
  (`parliament_gifts.py:441`, `sioe.py`, the listing of `ept_offices.py`): `ListsAreComplete` and
  `UniverseIsWhole` say so in their premises, the latter also of entries without a name,
  which are counted and left out (`Steady`);
* a deputy gone under a snapshot whose biographies could not be read keeps the current
  roles of the last one that could (`parliament_import.py:322`): `SnapshotIsWhole` speaks of
  those in office;
* `sioe.py` keeps pages of several states of the register in one cache: a resumed run is
  refused until its files are deleted (`sioe.py:475`, `889`);
* a partial run of `sioe.py` or `etf_boards.py` whose reading names nobody leaves the previous
  board current, a complete one withdraws it;
* in `etf_boards.py`, names beside a shared or lost cell may be joined into one, and a skipped
  later table leaves an older mandate not ended; the documents of `sources` wrap names of
  three words, whose lost cells the parser notices, and that of `boards_wrapped` one of four;
* a portfolio may be missing from a Government applied, if its composition changed twice
  while it was searched and proved: an appointment that another displaces from the second
  page after the first was read, and that is back when the histories are
  (`government.py:765`). The Prime Minister's appointment, which no history proves, may be of
  an earlier version than the rest. `OneComposition` says both in its premises;
* after a reset of the map with an answer pending, the expand button of a newly chosen
  entity stays disabled until the next choice: the branch that discards the answer does not
  draw it again. `NeverStuck` says that only a reset leaves it so;
* in `parliament_bodies.py`, an open membership of a group stays open after the legislature,
  two rows of a group clipped to one period refuse the snapshot, and the files of one
  gathering may come from two publications;
* `ept_offices.py` does not publish again an editor's draft of an office listed unchanged,
  which `_sync_scope` would, and publishes a returning office by the entity of its identity.

Not modelled:

* the parsers of earlier governments and nominations, of the biographies of European and
  national deputies and of declarations of interest: their items go through `Observations` and
  `Identity`, which are modelled, but which items they make of a page is not;
* the crosswalks, which turn fixed answers of two services into suggestions (they are the
  hints of `Identity`), and the institution match by NIPC (`core/identity.py:932`), which
  concerns two fixed institutions;
* a tie of two clock readings in `core/events.py:347`, since the model's clock advances;
* the cache of counts of the sources page, the catalogue and the validators, the list pages
  of the site and of the administration, authentication of the import endpoint: they
  decide nothing that is stored, or decide it in one step;
* the release guard, a sequential script which outputs the head it read first;
* migrations, generated schema, containers and deployment.

## 8. Plan

Done, in the order of how much of what is published depends on them: ImportQueue,
Publication, Events, Observations, Identity; then the composition with dispatchers, the
bulk listing of offices, the operations (refresh, download, paths, maps) and the importers
whose scopes or joins can go wrong between two requests.

Left, in this order:

1. `government_archive.py` and `government_nominations.py`, as functions from pages to
   items, composed with `Observations` and `Identity`;
2. the same for `european_parliament.py`, `parliament_interests.py` and `interests.py`.
