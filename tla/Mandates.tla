------------------------------- MODULE Mandates -------------------------------
(***************************************************************************)
(* The mandates of one legislature: parliament_parse.py and the plenary    *)
(* periods of parliament_bodies.py turn a roster of the Assembly into a    *)
(* complete snapshot, and parliament_import.apply_snapshot makes one       *)
(* revocable claim of each period.  Several snapshots may be held at once, *)
(* the roster changes between them, and reviewers withdraw claims.         *)
(***************************************************************************)
EXTENDS Integers, FiniteSets, SequencesExt

CONSTANTS
    Cadastros,                  \* stable identifiers of deputies
    Rosters,                    \* what the Assembly may publish
    Biographies,                \* the biography files it may publish: roles of each deputy
    Terms,                      \* first and last day of a legislature; are periods cut to them
    OpenEnded,                  \* a period without an end: later than every day
    AsOfs,                      \* reference dates of the imports
    PlenaryClaims,              \* periods an older import of bodies had claimed
    MaxRosters, MaxHeld, MaxReviews \* bounds of the instance

\* Days are numbers up to OpenEnded, and a row without a first day has 0; files are finite.
DaysOf(s) == s.from \in 0..OpenEnded /\ s.to \in 0..OpenEnded
StatusesOf(rows) == /\ IsFiniteSet(rows)
                    /\ \A r \in rows : IsFiniteSet(r.status) /\ \A s \in r.status : DaysOf(s)

ASSUME MandatesAssumption ==
    /\ OpenEnded \in Nat /\ \A t \in Terms : t.first \in 0..t.last /\ t.last \in 0..OpenEnded
    /\ \A r \in Rosters : StatusesOf(r.rows)

Serving == {"Efetivo", "Efetivo Definitivo", "Efetivo Temporário"}

VARIABLES
    term,                       \* the legislature
    roster, biography,          \* published now
    fetched,                    \* snapshots fetched and not applied yet
    latestAsOf,                 \* ParliamentImportState.as_of, 0 before the first import
    record,                     \* ParliamentRecord, by deputy and first day
    claim,                      \* the claim of a record or of the bodies
    isCurrent,                  \* ParliamentMember.is_current
    intervals,                  \* ParliamentStatusInterval
    biographyRoles,             \* current role observations of each deputy
    lastRoster,                 \* history: the last snapshot applied
    editions, reviews           \* counters of the bounds

mandateTables == <<latestAsOf, record, claim, isCurrent, intervals, biographyRoles, lastRoster>>
mandateVars == <<term, roster, biography, fetched, mandateTables, editions, reviews>>

NoSnapshot == [asOf |-> 0]
NoClaim    == [status |-> "none", owner |-> "none", to |-> 0]

MandatesInit ==
    /\ term \in Terms
    /\ roster \in Rosters /\ biography \in Biographies /\ fetched = {} /\ latestAsOf = 0
    /\ record = <<>> /\ intervals = {} /\ lastRoster = NoSnapshot /\ editions = 0 /\ reviews = 0
    /\ claim = [k \in PlenaryClaims |-> [status |-> "published", owner |-> "bodies", to |-> k[2]]]
    /\ isCurrent = [w \in Cadastros |-> FALSE] /\ biographyRoles = [w \in Cadastros |-> {}]

-----------------------------------------------------------------------------
(* parse_snapshot().                                                       *)

\* Rows of one identifier are one deputy; their lists are merged without repeats.
RowsOf(rows, w)  == {r \in rows : r.who = w}
StatusOf(rows, w) == UNION {r.status : r \in RowsOf(rows, w)}

\* Missing starts and reversed intervals are neither repaired nor imported.
Effective(status) == {s \in status : s.kind \in Serving /\ s.from # 0 /\ s.to >= s.from}

Contiguous(period, s) == s.from <= period.to + 1

\* _serving(): overlapping or contiguous rows, by their first day, form one period.
JoinedTo(periods, s) ==
    IF periods # <<>> /\ Contiguous(Last(periods), s)
      THEN Append(Front(periods),
                  [Last(periods) EXCEPT !.to = IF s.to > @ THEN s.to ELSE @])
      ELSE Append(periods, [from |-> s.from, to |-> s.to])

Sooner(s, t) == s.from < t.from \/ (s.from = t.from /\ s.to <= t.to)

CutToTerm(p) == [from |-> IF p.from < term.first THEN term.first ELSE p.from,
           to   |-> IF p.to > term.last THEN term.last ELSE p.to]

\* The rows by their first day, then by their last: the k-th of them.
Nth(dated, k) == CHOOSE s \in dated : Cardinality({t \in dated : Sooner(t, s)}) = k

ServingDays(status) == {[from |-> s.from, to |-> s.to] : s \in Effective(status)}

\* The periods after each of the rows.
Joining(dated) ==
    LET periods[k \in 0..Cardinality(dated)] ==
          IF k = 0 THEN <<>> ELSE JoinedTo(periods[k - 1], Nth(dated, k))
    IN periods

Joined(status) == ToSet(Joining(ServingDays(status))[Cardinality(ServingDays(status))])

PeriodsOf(rows, w) ==
    LET all == Joined(StatusOf(rows, w))
    IN IF ~term.cut THEN all
       ELSE {CutToTerm(p) : p \in {q \in all : q.from <= term.last /\ q.to >= term.first}}

Deputised(rows) == {r.who : r \in rows}

\* Two names for one identifier refuse the roster.
Unambiguous(rows) == \A w \in Deputised(rows) : Cardinality({r.name : r \in RowsOf(rows, w)}) = 1

Snapshot(day, bios) ==
    [asOf |-> day, rows |-> roster.rows, ended |-> roster.ended,
     periods |-> [w \in Deputised(roster.rows) |-> PeriodsOf(roster.rows, w)],
     hasBiography |-> bios, roles |-> biography]

\* fetch_snapshot(): a biography file that cannot be read does not invalidate the roster.
FetchRoster ==
    /\ Cardinality(fetched) < MaxHeld /\ Unambiguous(roster.rows)
    /\ \E day \in AsOfs, bios \in BOOLEAN : fetched' = fetched \cup {Snapshot(day, bios)}
    /\ UNCHANGED <<term, roster, biography, mandateTables, editions, reviews>>

-----------------------------------------------------------------------------
(* apply_snapshot().                                                       *)

NotEarlier(s) == s.asOf >= latestAsOf

Keys(s) == UNION {{<<w, p.from>> : p \in s.periods[w]} : w \in DOMAIN s.periods}
EndOf(s, k) == (CHOOSE p \in s.periods[k[1]] : p.from = k[2]).to

\* What the fingerprint of a record covers.
Fingerprint(s, k) == [roster |-> RowsOf(s.rows, k[1]), to |-> EndOf(s, k),
                      ended |-> s.ended \/ EndOf(s, k) # OpenEnded]

AsRecorded(s, k) == [text |-> Fingerprint(s, k), current |-> TRUE]

Changed(s, k) == k \notin DOMAIN record \/ record[k] # AsRecorded(s, k)

\* Records of the legislature that the snapshot no longer has.
Ceased(s) == {k \in DOMAIN record \ Keys(s) : record[k].current}

\* publish_imported(): what a reviewer withdrew stays withdrawn.
Published(c) == [c EXCEPT !.status = IF @ = "withdrawn" THEN @ ELSE "published"]
Revoked(c)   == [c EXCEPT !.status = IF @ = "withdrawn" THEN @ ELSE "unpublished"]

\* The claim of a period: its own, one the bodies import had made, or a new one.
ClaimOf(k) == IF k \in DOMAIN claim THEN claim[k] ELSE NoClaim
ClaimFor(s, k) ==
    IF Changed(s, k) THEN Published([ClaimOf(k) EXCEPT !.to = EndOf(s, k), !.owner = "record"])
    ELSE claim[k]

\* Biographies of deputies with a period, and of those who left the roster.
RolesAfter(s, w) ==
    IF ~s.hasBiography THEN biographyRoles[w]
    ELSE IF w \in Deputised(s.rows)
           THEN IF s.periods[w] # {} THEN s.roles[w] ELSE biographyRoles[w]
    ELSE IF \E k \in Ceased(s) : k[1] = w THEN {} ELSE biographyRoles[w]

ApplyRoster(s) ==
    /\ s \in fetched /\ fetched' = fetched \ {s}
    /\ NotEarlier(s)
    /\ latestAsOf' = s.asOf /\ lastRoster' = s
    /\ record' = [k \in DOMAIN record \cup Keys(s) |->
                    IF k \in Keys(s) THEN AsRecorded(s, k)
                    ELSE [record[k] EXCEPT !.current = FALSE]]
    /\ claim' = [k \in DOMAIN claim \cup Keys(s) |->
                    IF k \in Keys(s) THEN ClaimFor(s, k)
                    ELSE IF k \in Ceased(s) THEN Revoked(claim[k])
                    ELSE claim[k]]
    /\ isCurrent' = [w \in Cadastros |-> \E k \in Keys(s) : k[1] = w]
    /\ intervals' = UNION {{<<w, i>> : i \in StatusOf(s.rows, w)} : w \in Deputised(s.rows)}
    /\ biographyRoles' = [w \in Cadastros |-> RolesAfter(s, w)]
    /\ UNCHANGED <<term, roster, biography, editions, reviews>>

\* A refusal, an error or a crash: the transaction is rolled back.
GiveUpSnapshot == /\ \E s \in fetched : fetched' = fetched \ {s}
                  /\ UNCHANGED <<term, roster, biography, mandateTables, editions, reviews>>

\* The Assembly publishes another roster, or another biography file.
PublishRoster ==
    /\ editions < MaxRosters /\ editions' = editions + 1
    /\ \/ roster' \in Rosters \ {roster} /\ UNCHANGED biography
       \/ biography' \in Biographies \ {biography} /\ UNCHANGED roster
    /\ UNCHANGED <<term, fetched, mandateTables, reviews>>

\* An editor withdraws a published claim.
WithdrawMandate ==
    /\ reviews < MaxReviews /\ reviews' = reviews + 1
    /\ \E k \in DOMAIN claim : /\ claim[k].status = "published"
                               /\ claim' = [claim EXCEPT ![k].status = "withdrawn"]
    /\ UNCHANGED <<term, roster, biography, fetched, latestAsOf, record, isCurrent, intervals,
                   biographyRoles, lastRoster, editions>>

MandatesNext == \/ FetchRoster \/ (\E s \in fetched : ApplyRoster(s)) \/ GiveUpSnapshot
                \/ PublishRoster \/ WithdrawMandate
MandatesSpec == MandatesInit /\ [][MandatesNext]_mandateVars

-----------------------------------------------------------------------------
(* What the claims of a legislature promise.                               *)

\* The days a deputy served according to the roster last applied.
ServedOn(w, d) ==
    /\ \E s \in StatusOf(lastRoster.rows, w) : s.kind \in Serving /\ s.from \in 1..d /\ d <= s.to
    /\ term.cut => d \in term.first..term.last
DaysOfTerm == 1..OpenEnded

CurrentRecords(w) == {k \in DOMAIN record : k[1] = w /\ record[k].current}
Covers(k, d) == k[2] <= d /\ d <= record[k].text.to

\* The current records of a deputy are exactly the unbroken periods served: each day of
\* service is in one record and no two records meet.
RecordsCoverService ==
    \A w \in Cadastros : /\ \A d \in DaysOfTerm : ServedOn(w, d)
                              <=> Cardinality({k \in CurrentRecords(w) : Covers(k, d)}) = 1
                         /\ \A k, l \in CurrentRecords(w) : k # l => l[2] # record[k].text.to + 1
                         /\ isCurrent[w] <=> \E d \in DaysOfTerm : ServedOn(w, d)

\* Only periods of the roster last applied are public, unless an editor withdrew the claim.
ClaimsFollowRecords ==
    \A k \in DOMAIN record :
      /\ claim[k].owner = "record"
      /\ claim[k].status = "published" => record[k].current
      /\ record[k].current => claim[k].status # "unpublished"
      /\ record[k].current => claim[k].to = record[k].text.to

\* Nothing a snapshot of an earlier date says replaces a later one, and the status intervals
\* and the roles of the deputies in office are those of the snapshot.
SnapshotIsWhole ==
    /\ lastRoster.asOf = latestAsOf
    /\ {i[1] : i \in intervals} \subseteq Deputised(lastRoster.rows)
    /\ lastRoster.hasBiography =>
         \A w \in Cadastros : isCurrent[w] => biographyRoles[w] = lastRoster.roles[w]

MandatesFollowRoster ==
    lastRoster # NoSnapshot => RecordsCoverService /\ ClaimsFollowRecords /\ SnapshotIsWhole
===============================================================================
