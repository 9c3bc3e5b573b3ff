------------------------- MODULE PublicationProofs --------------------------
(***************************************************************************)
(* Theorems about Publication, for any claims, evidence, editors, forms    *)
(* and pages, and about the bulk listings of DeclaredOffices.              *)
(***************************************************************************)
EXTENDS DeclaredOffices, TLAPS

Desks == [Rels -> DeskType]

-----------------------------------------------------------------------------
(* Operators *)

\* What the services and save() write is a review row.
LEMMA RowTypes ==
    ASSUME NEW d \in DeskType
    PROVE  /\ Drafted(d) \in DeskType /\ Invalid(d) \in DeskType
           /\ \A u \in Users \cup {Nobody} : Published(d, u) \in DeskType
           /\ \A u \in Users : Rejected(d, u) \in DeskType
           /\ \A st \in Statuses, b \in BOOLEAN :
                (st = "published" => d.status = "published") => Saved(d, st, b) \in DeskType
  <1>1. Drafted(d) \in DeskType BY DEF Drafted, DeskType, Statuses
  <1>2. Invalid(d) \in DeskType BY DEF Invalid, Drafted, DeskType, Statuses, Events
  <1>3. ASSUME NEW u \in Users \cup {Nobody} PROVE Published(d, u) \in DeskType
    BY DEF Published, DeskType, Statuses, Events
  <1>4. ASSUME NEW u \in Users PROVE Rejected(d, u) \in DeskType
    BY DEF Rejected, DeskType, Statuses, Events
  <1>5. ASSUME NEW st \in Statuses, NEW b \in BOOLEAN,
               st = "published" => d.status = "published"
        PROVE  Saved(d, st, b) \in DeskType
    BY <1>2, <1>5 DEF Saved, DeskType, Statuses
  <1>. QED BY <1>1, <1>2, <1>3, <1>4, <1>5

\* invalidate_relationships keeps the rows well formed and leaves the others alone.
LEMMA InvalidatedTypes ==
    ASSUME NEW d \in Desks, NEW R
    PROVE  Invalidated(d, R) \in Desks
  BY RowTypes DEF Invalidated, Desks

\* An evidence row stays one when an editor deletes it or an importer hides or rewrites it.
LEMMA EvidenceRows ==
    ASSUME NEW x \in EvidenceType
    PROVE  /\ [x EXCEPT !.rel = NoRel, !.public = FALSE] \in EvidenceType
           /\ \A b \in BOOLEAN : [x EXCEPT !.public = b] \in EvidenceType
           /\ \A s \in Srcs, t \in Texts :
                [x EXCEPT !.source = s, !.text = t, !.public = TRUE] \in EvidenceType
  BY DEF EvidenceType

\* publish_imported keeps the rows well formed.
LEMMA AutoPublishedTypes ==
    ASSUME NEW d \in Desks, NEW r \in Rels
    PROVE  AutoPublished(d, r) \in Desks
  BY RowTypes DEF AutoPublished, Desks

-----------------------------------------------------------------------------
(* Types *)

\* Each variable keeps its type.
LEMMA TypeStep == TypeOK /\ Next => TypeOK'
  <1> SUFFICES ASSUME TypeOK, Next PROVE TypeOK'
    OBVIOUS
  <1> USE DEF TypeOK, tables
  <1>d. desk \in Desks BY DEF Desks
  <1>1. ASSUME NEW e \in Ents, NEW x \in Public, SaveEntity(e, x) PROVE TypeOK'
    BY <1>1, <1>d, InvalidatedTypes DEF SaveEntity, Desks
  <1>2. ASSUME NEW s \in Srcs, NEW x \in Public, SaveSource(s, x) PROVE TypeOK'
    BY <1>2, <1>d, InvalidatedTypes DEF SaveSource, Desks
  <1>3. ASSUME NEW v \in Evs, DeleteEvidence(v) PROVE TypeOK'
    <2>1. evidence' \in [Evs -> EvidenceType] BY <1>3, EvidenceRows DEF DeleteEvidence
    <2>. QED BY <1>3, <1>d, <2>1, InvalidatedTypes DEF DeleteEvidence, Desks
  <1>4. ASSUME NEW v \in Evs, NEW x \in EvidenceType, SaveEvidence(v, x) PROVE TypeOK'
    BY <1>4, <1>d, InvalidatedTypes DEF SaveEvidence, Desks
  <1>5. ASSUME NEW r \in Rels, NEW c \in Claims, CreateClaim(r, c) PROVE TypeOK'
    BY <1>5, RowTypes DEF CreateClaim
  <1>6. ASSUME NEW r \in Rels, NEW u \in Users, Publish(r, u) PROVE TypeOK'
    BY <1>6, RowTypes DEF Publish
  <1>7. ASSUME NEW r \in Rels, NEW u \in Users, Withdraw(r, u) PROVE TypeOK'
    BY <1>7, RowTypes DEF Withdraw
  <1>8. ASSUME NEW r \in Rels, ImportRetire(r) PROVE TypeOK'
    <2>1. evidence' = [evidence EXCEPT ![Own[r]] = [@ EXCEPT !.public = FALSE]]
      BY <1>8 DEF ImportRetire
    <2>2. evidence' \in [Evs -> EvidenceType] BY <2>1, EvidenceRows
    <2>. QED BY <1>8, <1>d, <2>2, InvalidatedTypes DEF ImportRetire, Desks
  <1>r. ASSUME NEW r \in Imported, NEW d \in Desks, NEW x \in EvidenceType, Reopen(r, d, x)
        PROVE  /\ desk' \in Desks /\ source' \in [Srcs -> Public]
               /\ evidence' \in [Evs -> EvidenceType]
               /\ UNCHANGED <<entity, barred, form, page>>
    <2>1. Invalidated(d, Opened(x.source)) \in Desks BY InvalidatedTypes
    <2>2. r \in Rels /\ Own[r] \in Evs
      BY PublicationAssumption DEF PublicationAssumption
    <2>. QED
      BY <1>r, <2>1, <2>2, AutoPublishedTypes DEF Reopen, Public, EvidenceType
  <1>9. ASSUME NEW r \in Rels, NEW c \in Claims, NEW s \in Srcs, NEW t \in Texts,
               ImportNew(r, c, s, t)
        PROVE  TypeOK'
    <2>1. [desk EXCEPT ![r] = Drafted(@)] \in Desks BY <1>d, RowTypes DEF Desks
    <2>2. [rel |-> r, source |-> s, text |-> t, public |-> TRUE] \in EvidenceType
      BY DEF EvidenceType
    <2>3. r \in Imported BY <1>9 DEF ImportNew
    <2>. QED BY <1>9, <1>r, <2>1, <2>2, <2>3 DEF ImportNew, Desks
  <1>10. ASSUME NEW r \in Rels, NEW c \in Claims, NEW s \in Srcs, NEW t \in Texts,
                ImportRevise(r, c, s, t)
         PROVE  TypeOK'
    <2> DEFINE x == [evidence[Own[r]] EXCEPT !.source = s, !.text = t, !.public = TRUE]
               d == Invalidated(desk, {r} \cup Disturbed(Own[r], x))
               e == [d EXCEPT ![r] = Saved(@, @.status, TRUE)]
    <2>1. r \in Imported /\ Own[r] \in Evs
      BY <1>10, PublicationAssumption DEF ImportRevise, PublicationAssumption
    <2>2. x \in EvidenceType BY <2>1, EvidenceRows
    <2>3. d \in Desks BY <1>d, InvalidatedTypes
    <2>4. e \in Desks
      <3>1. d[r] \in DeskType /\ d[r].status \in Statuses BY <2>3 DEF Desks, DeskType
      <3>2. Saved(d[r], d[r].status, TRUE) \in DeskType BY <3>1, RowTypes
      <3>. QED BY <2>3, <3>2 DEF Desks
    <2>5. Reopen(r, e, x) /\ claim' = [claim EXCEPT ![r] = c] BY <1>10 DEF ImportRevise
    <2>. HIDE DEF x, d, e
    <2>. QED BY <1>r, <2>1, <2>2, <2>4, <2>5 DEF Desks
  <1>11. ASSUME NEW r \in Rels, ImportReassert(r) PROVE TypeOK'
    <2> DEFINE x == [evidence[Own[r]] EXCEPT !.public = TRUE]
               d == Invalidated(desk, Disturbed(Own[r], x))
    <2>1. r \in Imported /\ Own[r] \in Evs
      BY <1>11, PublicationAssumption DEF ImportReassert, PublicationAssumption
    <2>2. x \in EvidenceType BY <2>1, EvidenceRows
    <2>3. d \in Desks BY <1>d, InvalidatedTypes
    <2>4. Reopen(r, d, x) /\ UNCHANGED claim BY <1>11 DEF ImportReassert
    <2>. HIDE DEF x, d
    <2>. QED BY <1>r, <2>1, <2>2, <2>3, <2>4 DEF Desks
  <1>12. ASSUME NEW f \in Forms, NEW r \in Rels, LoadForm(f, r) PROVE TypeOK'
    BY <1>12 DEF LoadForm, DeskType
  <1>13. ASSUME NEW f \in Forms, NEW c \in Claims, SaveForm(f, c) PROVE TypeOK'
    <2> DEFINE r == form[f].rel
               refused == form[f].status = "published" /\ desk[r].status # "published"
    <2>1. CASE refused BY <1>13, <2>1 DEF SaveForm, Statuses
    <2>2. CASE ~refused
      <3>1. r \in Rels /\ form[f].status \in Statuses BY <1>13 DEF SaveForm
      <3>2. Saved(desk[r], form[f].status, c # claim[r]) \in DeskType
        BY <2>2, <3>1, RowTypes
      <3>3. [desk EXCEPT ![r] = Saved(@, form[f].status, c # claim[r])] \in Desks
        BY <1>d, <3>2 DEF Desks
      <3>4. desk' \in Desks BY <1>13, <2>2, <3>3, InvalidatedTypes DEF SaveForm
      <3>5. evidence' \in [Evs -> EvidenceType] BY <1>13, <2>2, <3>1 DEF SaveForm, Inlines
      <3>. QED BY <1>13, <2>2, <3>4, <3>5 DEF SaveForm, Desks, Statuses
    <2>. QED BY <2>1, <2>2
  <1>14. ASSUME NEW p \in Pages, NEW r \in Rels, ReadClaims(p, r) PROVE TypeOK'
    BY <1>14 DEF ReadClaims
  <1>15. ASSUME NEW p \in Pages, ReadEvidence(p) PROVE TypeOK'
    <2>1. ASSUME NEW r PROVE Attachable(r) \in SUBSET (Evs \X Texts \X Texts)
      <3>1. \A v \in Cited(r) : /\ v \in Evs /\ evidence[v].text \in Texts
                                /\ source[evidence[v].source].text \in Texts
        BY DEF Cited, EvidenceType, Public
      <3>. QED BY <3>1 DEF Attachable, Facts
    <2>2. page' = [page EXCEPT ![p] = [@ EXCEPT !.done = TRUE, !.cites = Attachable(page[p].rel)]]
      BY <1>15 DEF ReadEvidence
    <2>3. Attachable(page[p].rel) \in SUBSET (Evs \X Texts \X Texts) BY <2>1
    <2>4. page' \in [Pages -> [rel : Rels \cup {NoRel}, done : BOOLEAN,
                              cites : SUBSET (Evs \X Texts \X Texts)]]
      BY <2>2, <2>3
    <2>. QED BY <1>15, <2>4 DEF ReadEvidence
  <1>. QED
    BY <1>1, <1>2, <1>3, <1>4, <1>5, <1>6, <1>7, <1>8, <1>9, <1>10, <1>11, <1>12, <1>13,
       <1>14, <1>15
    DEF Next, Edit, Review, Import, Fill, Render

\* The empty tables are well typed.
LEMMA InitTypes == Init => TypeOK
  <1> SUFFICES ASSUME Init PROVE TypeOK
    OBVIOUS
  <1>1. NoReview \in DeskType BY DEF NoReview, DeskType, Statuses, Events
  <1>. QED BY <1>1 DEF Init, TypeOK, EvidenceType, Statuses

\* Every reachable state is well typed: no claim is published without a timestamp.
THEOREM TypeCorrect == Spec => []TypeOK
  <1>1. Init => TypeOK BY InitTypes
  <1>2. TypeOK /\ [Next]_vars => TypeOK'
    BY TypeStep DEF vars, tables, TypeOK
  <1>. QED BY <1>1, <1>2, PTL DEF Spec

-----------------------------------------------------------------------------
(* What is published is what was approved *)

\* Nothing a reader of claim r sees changes in the step.
Stable(r) ==
    /\ claim'[r] = claim[r]
    /\ \A e \in Ends(claim[r]) : entity'[e] = entity[e]
    /\ \A v \in Evs : evidence[v].rel = r \/ evidence'[v].rel = r =>
          /\ evidence'[v] = evidence[v]
          /\ source'[evidence[v].source] = source[evidence[v].source]

LEMMA StableFacts ==
    ASSUME NEW r \in Rels, Stable(r)
    PROVE  Facts(r)' = Facts(r) /\ (Publishable(r)' <=> Publishable(r))
  <1>1. Cited(r)' = Cited(r) BY DEF Stable, Cited
  <1>2. \A v \in Cited(r) : /\ evidence'[v] = evidence[v]
                            /\ source'[evidence[v].source] = source[evidence[v].source]
    BY DEF Stable, Cited
  <1>3. [e \in Ends(claim[r]) |-> entity[e].text]'
            = [e \in Ends(claim[r]) |-> entity[e].text]
    BY DEF Stable
  <1>4. {<<v, evidence[v].text, source[evidence[v].source].text>> : v \in Cited(r)}'
            = {<<v, evidence[v].text, source[evidence[v].source].text>> : v \in Cited(r)}
    BY <1>1, <1>2
  <1>5. Publishable(r)' <=> Publishable(r) BY <1>1 DEF Stable, Publishable
  <1>. QED BY <1>3, <1>4, <1>5 DEF Stable, Facts

Approved(r) ==
    desk[r].status = "published" => approved[r] = Facts(r) /\ Publishable(r)

\* The inductive invariant: an approval covers today's facts, and they may be shown.
ReviewInv == \A r \in Rels : Approved(r)

\* A step that publishes nothing keeps it if what stays published is stable.
LEMMA KeepsApproval ==
    ASSUME ReviewInv, Approve({}),
           \A r \in Rels : desk'[r].status = "published" =>
                             desk[r].status = "published" /\ Stable(r)
    PROVE  ReviewInv'
  <1> SUFFICES ASSUME NEW r \in Rels, desk'[r].status = "published"
               PROVE  approved'[r] = Facts(r)' /\ Publishable(r)'
    BY DEF ReviewInv, Approved
  <1>1. approved'[r] = approved[r] BY DEF Approve
  <1>2. approved[r] = Facts(r) /\ Publishable(r) BY DEF ReviewInv, Approved
  <1>. QED BY <1>1, <1>2, StableFacts

\* The tail of every import: of the claims it leaves published, the importer's own was
\* just published, and the others saw neither their row nor their source change.
LEMMA ReopenApproval ==
    ASSUME TypeOK, ReviewInv, NEW q \in Imported, NEW d \in Desks, NEW x \in EvidenceType,
           Reopen(q, d, x), d[q].status # "published",
           \A r \in Rels \ {q} : d[r].status = "published" =>
             /\ desk[r].status = "published" /\ claim'[r] = claim[r]
             /\ evidence[Own[q]].rel = r \/ x.rel = r => x = evidence[Own[q]]
    PROVE  ReviewInv'
  <1> DEFINE e == Invalidated(d, Opened(x.source))
  <1> SUFFICES ASSUME NEW r \in Rels, desk'[r].status = "published"
               PROVE  approved'[r] = Facts(r)' /\ Publishable(r)'
    BY DEF ReviewInv, Approved
  <1>0. q \in Rels /\ Own[q] \in Evs BY PublicationAssumption DEF PublicationAssumption
  <1>1. e \in Desks BY InvalidatedTypes
  <1>2. desk' = AutoPublished(e, q) /\ Approve({q}) BY DEF Reopen
  <1>3. \A p \in Rels : e[p].status = "published" =>
                          p \notin Opened(x.source) /\ d[p].status = "published"
    BY DEF Invalidated, Invalid, Drafted, Desks, DeskType
  <1> HIDE DEF e
  <1>4. CASE r = q
    <2>1. e[q].status # "published" BY <1>0, <1>3
    <2>2. Publishable(q)' BY <1>2, <1>4, <2>1 DEF AutoPublished
    <2>. QED BY <1>2, <1>4, <2>2 DEF Approve
  <1>5. CASE r # q
    <2>1. e[r].status = "published" BY <1>1, <1>2, <1>5 DEF AutoPublished, Desks
    <2>2. r \notin Opened(x.source) /\ d[r].status = "published" BY <1>3, <2>1
    <2>3. approved'[r] = approved[r] BY <1>2, <1>5 DEF Approve
    <2>4. approved[r] = Facts(r) /\ Publishable(r) BY <1>5, <2>2 DEF ReviewInv, Approved
    <2>5. Stable(r)
      <3>1. claim'[r] = claim[r] /\ entity' = entity BY <1>5, <2>2 DEF Reopen
      <3>2. \A v \in Evs : evidence[v].rel = r \/ evidence'[v].rel = r =>
                             evidence'[v] = evidence[v]
        BY <1>0, <1>5, <2>2 DEF Reopen, TypeOK
      <3>3. ASSUME NEW v \in Evs, evidence[v].rel = r
            PROVE  source'[evidence[v].source] = source[evidence[v].source]
        <4>1. source' = [source EXCEPT ![x.source].public = TRUE] BY DEF Reopen
        <4>2. source \in [Srcs -> Public] /\ evidence[v].source \in Srcs
          BY DEF TypeOK, EvidenceType
        <4>3. CASE evidence[v].source = x.source
          <5>1. source[x.source].public BY <2>2, <3>3, <4>3 DEF Opened, Citing
          <5>2. source[x.source].public = TRUE BY <4>2, <4>3, <5>1 DEF Public
          <5>. QED BY <4>1, <4>2, <4>3, <5>2 DEF Public
        <4>. QED BY <4>1, <4>2, <4>3
      <3>. QED BY <3>1, <3>2, <3>3 DEF Stable
    <2>. QED BY <2>3, <2>4, <2>5, StableFacts
  <1>. QED BY <1>4, <1>5

\* Every write either keeps an approval's facts as they are or ends the approval.
LEMMA ReviewStep == TypeOK /\ ReviewInv /\ Next => ReviewInv'
  <1> SUFFICES ASSUME TypeOK, ReviewInv, Next PROVE ReviewInv'
    OBVIOUS
  <1> USE DEF tables
  <1>d. desk \in Desks BY DEF TypeOK, Desks
  <1>k. ASSUME NEW R, NEW r \in Rels, NEW k \in Desks,
               Invalidated(k, R)[r].status = "published"
        PROVE  k[r].status = "published" /\ r \notin R
    BY <1>k DEF Invalidated, Invalid, Drafted, Desks, DeskType
  <1>i. ASSUME NEW R, NEW r \in Rels, Invalidated(desk, R)[r].status = "published"
        PROVE  desk[r].status = "published" /\ r \notin R
    BY <1>d, <1>i, <1>k
  <1>o. \A q \in Imported : q \in Rels /\ Own[q] \in Evs
    BY PublicationAssumption DEF PublicationAssumption
  <1>u. ASSUME UNCHANGED <<tables, desk, approved>> PROVE ReviewInv'
    BY <1>u DEF ReviewInv, Approved, Facts, Publishable, Cited
  <1>1. ASSUME NEW e \in Ents, NEW x \in Public, SaveEntity(e, x) PROVE ReviewInv'
    <2>1. ASSUME NEW r \in Rels, desk'[r].status = "published"
          PROVE  desk[r].status = "published" /\ Stable(r)
      BY <1>1, <1>i, <2>1 DEF SaveEntity, Touching, Stable, TypeOK
    <2>. QED BY <1>1, <2>1, KeepsApproval DEF SaveEntity
  <1>2. ASSUME NEW s \in Srcs, NEW x \in Public, SaveSource(s, x) PROVE ReviewInv'
    <2>1. ASSUME NEW r \in Rels, desk'[r].status = "published"
          PROVE  desk[r].status = "published" /\ Stable(r)
      BY <1>2, <1>i, <2>1 DEF SaveSource, Citing, Stable, TypeOK
    <2>. QED BY <1>2, <2>1, KeepsApproval DEF SaveSource
  <1>3. ASSUME NEW v \in Evs, DeleteEvidence(v) PROVE ReviewInv'
    <2>1. ASSUME NEW r \in Rels, desk'[r].status = "published"
          PROVE  desk[r].status = "published" /\ Stable(r)
      <3>1. desk[r].status = "published" /\ r # evidence[v].rel
        BY <1>3, <1>i, <2>1 DEF DeleteEvidence
      <3>2. NoRel # r BY PublicationAssumption DEF PublicationAssumption
      <3>. QED BY <1>3, <3>1, <3>2 DEF DeleteEvidence, Stable, TypeOK, EvidenceType
    <2>. QED BY <1>3, <2>1, KeepsApproval DEF DeleteEvidence
  <1>4. ASSUME NEW v \in Evs, NEW x \in EvidenceType, SaveEvidence(v, x) PROVE ReviewInv'
    <2>1. ASSUME NEW r \in Rels, desk'[r].status = "published"
          PROVE  desk[r].status = "published" /\ Stable(r)
      <3>1. desk[r].status = "published" /\ r \notin Disturbed(v, x)
        BY <1>4, <1>i, <2>1 DEF SaveEvidence
      <3>. QED BY <1>4, <3>1 DEF SaveEvidence, Disturbed, Stable, TypeOK
    <2>. QED BY <1>4, <2>1, KeepsApproval DEF SaveEvidence
  <1>5. ASSUME NEW q \in Rels, NEW c \in Claims, CreateClaim(q, c) PROVE ReviewInv'
    <2>1. ASSUME NEW r \in Rels, desk'[r].status = "published"
          PROVE  desk[r].status = "published" /\ Stable(r)
      BY <1>5, <2>1 DEF CreateClaim, Drafted, DeskType, Stable, TypeOK
    <2>. QED BY <1>5, <2>1, KeepsApproval DEF CreateClaim
  <1>6. ASSUME NEW q \in Rels, NEW u \in Users, Publish(q, u) PROVE ReviewInv'
    <2> SUFFICES ASSUME NEW r \in Rels, desk'[r].status = "published"
                 PROVE  approved'[r] = Facts(r)' /\ Publishable(r)'
      BY DEF ReviewInv, Approved
    <2>1. Facts(r)' = Facts(r) /\ (Publishable(r)' <=> Publishable(r))
      BY <1>6, StableFacts DEF Publish, Stable
    <2>2. CASE r = q BY <1>6, <2>1, <2>2 DEF Publish, Approve
    <2>3. CASE r # q
      BY <1>6, <2>1, <2>3 DEF Publish, Approve, ReviewInv, Approved, TypeOK
    <2>. QED BY <2>2, <2>3
  <1>7. ASSUME NEW q \in Rels, NEW u \in Users, Withdraw(q, u) PROVE ReviewInv'
    <2>1. ASSUME NEW r \in Rels, desk'[r].status = "published"
          PROVE  desk[r].status = "published" /\ Stable(r)
      BY <1>7, <2>1 DEF Withdraw, Rejected, DeskType, Stable, TypeOK
    <2>. QED BY <1>7, <2>1, KeepsApproval DEF Withdraw
  <1>8. ASSUME NEW q \in Rels, ImportRetire(q) PROVE ReviewInv'
    <2>1. ASSUME NEW r \in Rels, desk'[r].status = "published"
          PROVE  desk[r].status = "published" /\ Stable(r)
      <3>1. /\ desk[r].status = "published"
            /\ r \notin Disturbed(Own[q], evidence'[Own[q]])
        BY <1>8, <1>i, <2>1 DEF ImportRetire
      <3>. QED BY <1>8, <1>o, <3>1 DEF ImportRetire, Disturbed, Stable, TypeOK
    <2>. QED BY <1>8, <2>1, KeepsApproval DEF ImportRetire
  <1>9. ASSUME NEW q \in Rels, NEW c \in Claims, NEW s \in Srcs, NEW t \in Texts,
               ImportNew(q, c, s, t)
        PROVE  ReviewInv'
    <2> DEFINE x == [rel |-> q, source |-> s, text |-> t, public |-> TRUE]
               d == [desk EXCEPT ![q] = Drafted(@)]
    <2>1. d \in Desks /\ d[q].status # "published"
      BY <1>d, RowTypes DEF Desks, Drafted, DeskType
    <2>2. x \in EvidenceType BY DEF EvidenceType
    <2>3. ASSUME NEW r \in Rels \ {q}, d[r].status = "published"
          PROVE  /\ desk[r].status = "published" /\ claim'[r] = claim[r]
                 /\ evidence[Own[q]].rel = r \/ x.rel = r => x = evidence[Own[q]]
      <3>1. NoRel # r BY PublicationAssumption DEF PublicationAssumption
      <3>. QED BY <1>9, <2>3, <3>1 DEF ImportNew, TypeOK
    <2>4. q \in Imported /\ Reopen(q, d, x) BY <1>9 DEF ImportNew
    <2>. HIDE DEF x, d
    <2>. QED BY <2>1, <2>2, <2>3, <2>4, ReopenApproval
  <1>10. ASSUME NEW q \in Rels, NEW c \in Claims, NEW s \in Srcs, NEW t \in Texts,
                ImportRevise(q, c, s, t)
         PROVE  ReviewInv'
    <2> DEFINE x == [evidence[Own[q]] EXCEPT !.source = s, !.text = t, !.public = TRUE]
               R == {q} \cup Disturbed(Own[q], x)
               d == Invalidated(desk, R)
               e == [d EXCEPT ![q] = Saved(@, @.status, TRUE)]
    <2>1. q \in Imported /\ Own[q] \in Evs BY <1>10, <1>o DEF ImportRevise
    <2>2. x \in EvidenceType
      <3>1. evidence[Own[q]] \in EvidenceType BY <2>1 DEF TypeOK
      <3>. QED BY <3>1, EvidenceRows
    <2>3. d \in Desks BY <1>d, InvalidatedTypes
    <2>4. d[q].status # "published" BY <1>i
    <2>5. e \in Desks /\ e[q].status # "published"
      <3>1. d[q] \in DeskType /\ d[q].status \in Statuses BY <2>3 DEF Desks, DeskType
      <3>2. Saved(d[q], d[q].status, TRUE) \in DeskType BY <3>1, RowTypes
      <3>3. Saved(d[q], d[q].status, TRUE).status # "published"
        BY <2>4, <3>1 DEF Saved, DeskType
      <3>. QED BY <2>3, <3>2, <3>3 DEF Desks
    <2>6. ASSUME NEW r \in Rels \ {q}, e[r].status = "published"
          PROVE  /\ desk[r].status = "published" /\ claim'[r] = claim[r]
                 /\ evidence[Own[q]].rel = r \/ x.rel = r => x = evidence[Own[q]]
      <3>1. d[r].status = "published" BY <2>3, <2>6 DEF Desks
      <3>2. desk[r].status = "published" /\ r \notin R BY <1>i, <3>1
      <3>3. claim'[r] = claim[r] BY <1>10, <2>6 DEF ImportRevise, TypeOK
      <3>. QED BY <3>2, <3>3 DEF Disturbed
    <2>7. Reopen(q, e, x) BY <1>10 DEF ImportRevise
    <2>. HIDE DEF x, R, d, e
    <2>. QED BY <2>1, <2>2, <2>5, <2>6, <2>7, ReopenApproval
  <1>11. ASSUME NEW q \in Rels, ImportReassert(q) PROVE ReviewInv'
    <2> DEFINE x == [evidence[Own[q]] EXCEPT !.public = TRUE]
               R == Disturbed(Own[q], x)
               d == Invalidated(desk, R)
    <2>1. q \in Imported /\ Own[q] \in Evs BY <1>11, <1>o DEF ImportReassert
    <2>2. x \in EvidenceType
      <3>1. evidence[Own[q]] \in EvidenceType BY <2>1 DEF TypeOK
      <3>. QED BY <3>1, EvidenceRows
    <2>3. d \in Desks BY <1>d, InvalidatedTypes
    <2>4. d[q].status # "published" BY <1>11, <1>i DEF ImportReassert
    <2>5. ASSUME NEW r \in Rels \ {q}, d[r].status = "published"
          PROVE  /\ desk[r].status = "published" /\ claim'[r] = claim[r]
                 /\ evidence[Own[q]].rel = r \/ x.rel = r => x = evidence[Own[q]]
      <3>1. desk[r].status = "published" /\ r \notin R BY <1>i, <2>5
      <3>. QED BY <1>11, <3>1 DEF ImportReassert, Disturbed
    <2>6. Reopen(q, d, x) BY <1>11 DEF ImportReassert
    <2>. HIDE DEF x, R, d
    <2>. QED BY <2>1, <2>2, <2>3, <2>4, <2>5, <2>6, ReopenApproval
  <1>12. ASSUME NEW f \in Forms, NEW c \in Claims, SaveForm(f, c) PROVE ReviewInv'
    <2> DEFINE q == form[f].rel
               refused == form[f].status = "published" /\ desk[q].status # "published"
               d == [desk EXCEPT ![q] = Saved(@, form[f].status, c # claim[q])]
               R == IF evidence' # evidence THEN {q} ELSE {}
    <2>1. CASE refused BY <1>12, <1>u, <2>1 DEF SaveForm
    <2>2. CASE ~refused
      <3>1. q \in Rels BY <1>12 DEF SaveForm, TypeOK
      <3>2. desk' = Invalidated(d, R) /\ Approve({}) BY <1>12, <2>2 DEF SaveForm
      <3>3. evidence' \in Inlines(q) /\ claim' = [claim EXCEPT ![q] = c]
            /\ entity' = entity /\ source' = source
        BY <1>12, <2>2 DEF SaveForm
      <3>0. Saved(desk[q], form[f].status, c # claim[q]) \in DeskType
        BY <1>12, <2>2, <3>1, <1>d, RowTypes DEF SaveForm, TypeOK, Desks
      <3>4. \A r \in Rels : desk'[r].status = "published" =>
              /\ d[r].status = "published" /\ r \notin R
        <4>1. d \in Desks BY <1>d, <3>0 DEF Desks
        <4>. HIDE DEF d, R
        <4>. QED BY <1>k, <3>2, <4>1
      <3>5. d[q].status = "published" => desk[q].status = "published" /\ c = claim[q]
        BY <2>2, <3>1, <1>d DEF Saved, Invalid, Drafted, Desks, DeskType
      <3>6. ASSUME NEW r \in Rels, desk'[r].status = "published"
            PROVE  desk[r].status = "published" /\ Stable(r)
        <4>1. d[r].status = "published" /\ r \notin R BY <3>4, <3>6
        <4>2. desk[r].status = "published" /\ claim'[r] = claim[r]
          <5>1. CASE r = q BY <3>3, <3>5, <4>1, <5>1 DEF TypeOK
          <5>2. CASE r # q BY <3>3, <4>1, <5>2, <1>d DEF TypeOK, Desks
          <5>. QED BY <5>1, <5>2
        <4>3. \A v \in Evs : evidence[v].rel = r \/ evidence'[v].rel = r =>
                               evidence'[v] = evidence[v]
          <5>1. CASE evidence' = evidence BY <5>1
          <5>2. CASE evidence' # evidence
            <6>1. r # q BY <4>1, <5>2
            <6>2. PICK v \in Evs, x \in EvidenceType :
                    /\ evidence[v].rel \in {q, NoRel} /\ x.rel = q
                    /\ evidence' = [evidence EXCEPT ![v] = x]
              BY <3>3, <5>2 DEF Inlines
            <6>3. NoRel # r BY PublicationAssumption DEF PublicationAssumption
            <6>. QED BY <6>1, <6>2, <6>3 DEF TypeOK
          <5>. QED BY <5>1, <5>2
        <4>. QED BY <3>3, <4>2, <4>3 DEF Stable
      <3>. QED BY <3>2, <3>6, KeepsApproval
    <2>. QED BY <2>1, <2>2
  <1>13. ASSUME NEW f \in Forms, NEW r \in Rels, LoadForm(f, r) PROVE ReviewInv'
    BY <1>13, <1>u DEF LoadForm
  <1>14. ASSUME NEW p \in Pages, NEW r \in Rels, ReadClaims(p, r) PROVE ReviewInv'
    BY <1>14, <1>u DEF ReadClaims
  <1>15. ASSUME NEW p \in Pages, ReadEvidence(p) PROVE ReviewInv'
    BY <1>15, <1>u DEF ReadEvidence
  <1>. QED
    BY <1>1, <1>2, <1>3, <1>4, <1>5, <1>6, <1>7, <1>8, <1>9, <1>10, <1>11, <1>12, <1>13,
       <1>14, <1>15
    DEF Next, Edit, Review, Import, Fill, Render

LEMMA ReviewInvariance == Spec => [](TypeOK /\ ReviewInv)
  <1>1. Init => ReviewInv
    BY DEF Init, ReviewInv, Approved, NoReview
  <1>2. TypeOK /\ ReviewInv /\ [Next]_vars => ReviewInv'
    <2> SUFFICES ASSUME TypeOK, ReviewInv, UNCHANGED vars PROVE ReviewInv'
      BY ReviewStep
    <2>. QED BY DEF vars, tables, ReviewInv, Approved, Facts, Publishable, Cited
  <1>. QED BY <1>1, <1>2, TypeCorrect, PTL DEF Spec

\* Editing a published relationship, its entities, sources or evidence ends its approval:
\* what is published is exactly what was approved.
THEOREM ExactApproval == Spec => []ApprovedExactly
  <1>1. ReviewInv => ApprovedExactly BY DEF ReviewInv, Approved, ApprovedExactly
  <1>. QED BY <1>1, ReviewInvariance, PTL

\* The public rule shows every published claim: none loses an endpoint, a source or its
\* last evidence and stays published.
THEOREM NothingHidden == Spec => []PublishedIsVisible
  <1>1. TypeOK /\ ReviewInv => PublishedIsVisible
    BY DEF TypeOK, DeskType, ReviewInv, Approved, PublishedIsVisible, Visible
  <1>. QED BY <1>1, ReviewInvariance, PTL

\* A page whose evidence is read after its claims attaches only approved evidence.
THEOREM ApprovedPages == Spec => PageAttachesApproved
  <1> DEFINE Honest == \A p \in Pages : page[p].rel # NoRel /\ page'[p].done /\ ~page[p].done =>
                          page'[p].cites \subseteq Standing(page[p].rel)
  <1>1. TypeOK /\ ReviewInv /\ [Next]_vars => [Honest]_vars
    <2> SUFFICES ASSUME TypeOK, ReviewInv, Next, NEW p \in Pages,
                        page[p].rel # NoRel, page'[p].done, ~page[p].done
                 PROVE  page'[p].cites \subseteq Standing(page[p].rel)
      OBVIOUS
    <2>1. page' # page OBVIOUS
    <2>2. ~Edit BY <2>1 DEF Edit, SaveEntity, SaveSource, SaveEvidence, DeleteEvidence, CreateClaim
    <2>3. ~Review BY <2>1 DEF Review, Publish, Withdraw
    <2>4. ~Import
      <3>1. ASSUME NEW q, NEW d, NEW x, Reopen(q, d, x) PROVE page' = page BY <3>1 DEF Reopen
      <3>2. ASSUME NEW q, ImportRetire(q) PROVE FALSE BY <2>1, <3>2 DEF ImportRetire
      <3>3. ASSUME NEW q, ImportReassert(q) PROVE FALSE
        BY <2>1, <3>1, <3>3 DEF ImportReassert
      <3>4. ASSUME NEW q, NEW c, NEW s, NEW t, ImportNew(q, c, s, t) PROVE FALSE
        BY <2>1, <3>1, <3>4 DEF ImportNew
      <3>5. ASSUME NEW q, NEW c, NEW s, NEW t, ImportRevise(q, c, s, t) PROVE FALSE
        BY <2>1, <3>1, <3>5 DEF ImportRevise
      <3>. QED BY <3>2, <3>3, <3>4, <3>5 DEF Import
    <2>5. ~Fill BY <2>1 DEF Fill, LoadForm, SaveForm
    <2>6. ~\E q \in Pages, r \in Rels : ReadClaims(q, r) BY DEF ReadClaims, TypeOK
    <2>7. PICK q \in Pages : ReadEvidence(q)
      BY <2>2, <2>3, <2>4, <2>5, <2>6 DEF Next, Render
    <2>8. ReadEvidence(p)
      <3>1. page' = [page EXCEPT ![q].done = TRUE, ![q].cites = Attachable(page[q].rel)]
        BY <2>7 DEF ReadEvidence
      <3>2. q # p => page'[p] = page[p] BY <3>1 DEF TypeOK
      <3>. QED BY <2>7, <3>2
    <2>9. page'[p].cites = Attachable(page[p].rel) BY <2>8 DEF ReadEvidence, TypeOK
    <2>10. page[p].rel \in Rels BY DEF TypeOK
    <2>11. Visible(page[p].rel) => approved[page[p].rel] = Facts(page[p].rel)
      BY <2>10 DEF Visible, ReviewInv, Approved
    <2>. QED BY <2>9, <2>11 DEF Attachable, Standing, Visible
  <1>. QED BY <1>1, ReviewInvariance, PTL DEF Spec, PageAttachesApproved

-----------------------------------------------------------------------------
(* The review history explains the row *)

Explained(d) ==
    /\ d.status = "published" <=> d.event \in {"publish", "auto_publish"}
    /\ d.status = "published" => d.by = d.actor

AllExplained(d) == \A r \in Rels : Explained(d[r])

\* Each way of writing a review row appends the event that explains it.
LEMMA ExplainedRows ==
    ASSUME NEW d \in DeskType
    PROVE  /\ Explained(Invalid(d))
           /\ d.status = "absent" /\ Explained(d) => Explained(Drafted(d))
           /\ \A u : Explained(Published(d, u)) /\ Explained(Rejected(d, u))
           /\ \A st \in Statuses, b \in BOOLEAN :
                Explained(d) /\ (st = "published" => d.status = "published")
                  => Explained(Saved(d, st, b))
  <1>1. Explained(Invalid(d)) BY DEF Explained, Invalid, Drafted, DeskType
  <1>2. ASSUME d.status = "absent", Explained(d) PROVE Explained(Drafted(d))
    BY <1>2 DEF Explained, Drafted, DeskType
  <1>3. ASSUME NEW u PROVE Explained(Published(d, u)) /\ Explained(Rejected(d, u))
    BY DEF Explained, Published, Rejected, DeskType
  <1>4. ASSUME NEW st \in Statuses, NEW b \in BOOLEAN, Explained(d),
               st = "published" => d.status = "published"
        PROVE  Explained(Saved(d, st, b))
    BY <1>1, <1>4 DEF Saved, Explained, DeskType
  <1>. QED BY <1>1, <1>2, <1>3, <1>4

LEMMA ExplainedInvalidated ==
    ASSUME NEW d \in Desks, NEW R, AllExplained(d)
    PROVE  AllExplained(Invalidated(d, R))
  BY ExplainedRows DEF AllExplained, Invalidated, Desks

\* The tail of every import explains what it publishes.
LEMMA ExplainedReopen ==
    ASSUME NEW q \in Imported, NEW d \in Desks, NEW x, Reopen(q, d, x), AllExplained(d)
    PROVE  AllExplained(desk)'
  <1> DEFINE e == Invalidated(d, Opened(x.source))
  <1>1. e \in Desks /\ AllExplained(e) BY InvalidatedTypes, ExplainedInvalidated
  <1>2. desk' = AutoPublished(e, q) BY DEF Reopen
  <1>3. q \in Rels BY PublicationAssumption DEF PublicationAssumption
  <1>. HIDE DEF e
  <1>4. Explained(Published(e[q], Nobody)) BY <1>1, <1>3, ExplainedRows DEF Desks
  <1>. QED BY <1>1, <1>2, <1>3, <1>4 DEF AutoPublished, AllExplained, Desks

LEMMA HistoryStep == TypeOK /\ AllExplained(desk) /\ Next => AllExplained(desk)'
  <1> SUFFICES ASSUME TypeOK, AllExplained(desk), Next PROVE AllExplained(desk)'
    OBVIOUS
  <1> USE DEF tables
  <1>d. desk \in Desks BY DEF TypeOK, Desks
  <1>i. ASSUME NEW R PROVE AllExplained(Invalidated(desk, R))
    BY <1>d, ExplainedInvalidated
  <1>1. ASSUME NEW e \in Ents, NEW x \in Public, SaveEntity(e, x) PROVE AllExplained(desk)'
    BY <1>1, <1>i DEF SaveEntity, AllExplained
  <1>2. ASSUME NEW s \in Srcs, NEW x \in Public, SaveSource(s, x) PROVE AllExplained(desk)'
    BY <1>2, <1>i DEF SaveSource, AllExplained
  <1>3. ASSUME NEW v \in Evs, DeleteEvidence(v) PROVE AllExplained(desk)'
    BY <1>3, <1>i DEF DeleteEvidence, AllExplained
  <1>4. ASSUME NEW v \in Evs, NEW x \in EvidenceType, SaveEvidence(v, x)
        PROVE  AllExplained(desk)'
    BY <1>4, <1>i DEF SaveEvidence, AllExplained
  <1>5. ASSUME NEW q \in Rels, NEW c \in Claims, CreateClaim(q, c) PROVE AllExplained(desk)'
    BY <1>5, <1>d, ExplainedRows DEF CreateClaim, AllExplained, Desks
  <1>6. ASSUME NEW q \in Rels, NEW u \in Users, Publish(q, u) PROVE AllExplained(desk)'
    BY <1>6, <1>d, ExplainedRows DEF Publish, AllExplained, Desks
  <1>7. ASSUME NEW q \in Rels, NEW u \in Users, Withdraw(q, u) PROVE AllExplained(desk)'
    BY <1>7, <1>d, ExplainedRows DEF Withdraw, AllExplained, Desks
  <1>8. ASSUME NEW q \in Rels, ImportRetire(q) PROVE AllExplained(desk)'
    BY <1>8, <1>i DEF ImportRetire, AllExplained
  <1>9. ASSUME NEW q \in Rels, NEW c \in Claims, NEW s \in Srcs, NEW t \in Texts,
               ImportNew(q, c, s, t)
        PROVE  AllExplained(desk)'
    <2> DEFINE x == [rel |-> q, source |-> s, text |-> t, public |-> TRUE]
               d == [desk EXCEPT ![q] = Drafted(@)]
    <2>1. d \in Desks BY <1>d, RowTypes DEF Desks
    <2>2. AllExplained(d) BY <1>9, <1>d, ExplainedRows DEF ImportNew, AllExplained, Desks
    <2>3. q \in Imported /\ Reopen(q, d, x) BY <1>9 DEF ImportNew
    <2>. HIDE DEF x, d
    <2>. QED BY <2>1, <2>2, <2>3, ExplainedReopen
  <1>10. ASSUME NEW q \in Rels, NEW c \in Claims, NEW s \in Srcs, NEW t \in Texts,
                ImportRevise(q, c, s, t)
         PROVE  AllExplained(desk)'
    <2> DEFINE x == [evidence[Own[q]] EXCEPT !.source = s, !.text = t, !.public = TRUE]
               d == Invalidated(desk, {q} \cup Disturbed(Own[q], x))
               e == [d EXCEPT ![q] = Saved(@, @.status, TRUE)]
    <2>1. d \in Desks /\ AllExplained(d) BY <1>d, <1>i, InvalidatedTypes
    <2>2. d[q] \in DeskType /\ d[q].status \in Statuses BY <2>1 DEF Desks, DeskType
    <2>3. /\ Saved(d[q], d[q].status, TRUE) \in DeskType
          /\ Explained(Saved(d[q], d[q].status, TRUE))
      BY <2>1, <2>2, RowTypes, ExplainedRows DEF AllExplained
    <2>4. e \in Desks /\ AllExplained(e) BY <2>1, <2>3 DEF AllExplained, Desks
    <2>5. q \in Imported /\ Reopen(q, e, x) BY <1>10 DEF ImportRevise
    <2>. HIDE DEF x, d, e
    <2>. QED BY <2>4, <2>5, ExplainedReopen
  <1>11. ASSUME NEW q \in Rels, ImportReassert(q) PROVE AllExplained(desk)'
    <2> DEFINE x == [evidence[Own[q]] EXCEPT !.public = TRUE]
               d == Invalidated(desk, Disturbed(Own[q], x))
    <2>1. d \in Desks /\ AllExplained(d) BY <1>d, <1>i, InvalidatedTypes
    <2>2. q \in Imported /\ Reopen(q, d, x) BY <1>11 DEF ImportReassert
    <2>. HIDE DEF x, d
    <2>. QED BY <2>1, <2>2, ExplainedReopen
  <1>12. ASSUME NEW f \in Forms, NEW c \in Claims, SaveForm(f, c) PROVE AllExplained(desk)'
    <2> DEFINE q == form[f].rel
               refused == form[f].status = "published" /\ desk[q].status # "published"
               d == [desk EXCEPT ![q] = Saved(@, form[f].status, c # claim[q])]
               R == IF evidence' # evidence THEN {q} ELSE {}
    <2>1. CASE refused BY <1>12, <2>1 DEF SaveForm, AllExplained
    <2>2. CASE ~refused
      <3>1. q \in Rels BY <1>12 DEF SaveForm, TypeOK
      <3>2. form[f].status \in Statuses BY DEF TypeOK
      <3>3. /\ Saved(desk[q], form[f].status, c # claim[q]) \in DeskType
            /\ Explained(Saved(desk[q], form[f].status, c # claim[q]))
        BY <1>d, <2>2, <3>1, <3>2, RowTypes, ExplainedRows DEF Desks, AllExplained
      <3>4. d \in Desks /\ AllExplained(d) BY <1>d, <3>3 DEF Desks, AllExplained
      <3>5. desk' = Invalidated(d, R) BY <1>12, <2>2 DEF SaveForm
      <3>. HIDE DEF d, R
      <3>6. AllExplained(Invalidated(d, R)) BY <3>4, ExplainedInvalidated
      <3>. QED BY <3>5, <3>6 DEF AllExplained
    <2>. QED BY <2>1, <2>2
  <1>13. ASSUME UNCHANGED desk PROVE AllExplained(desk)' BY <1>13 DEF AllExplained
  <1>14. ASSUME NEW f \in Forms, NEW r \in Rels, LoadForm(f, r) PROVE AllExplained(desk)'
    BY <1>13, <1>14 DEF LoadForm
  <1>15. ASSUME NEW p \in Pages, NEW r \in Rels, ReadClaims(p, r) PROVE AllExplained(desk)'
    BY <1>13, <1>15 DEF ReadClaims
  <1>16. ASSUME NEW p \in Pages, ReadEvidence(p) PROVE AllExplained(desk)'
    BY <1>13, <1>16 DEF ReadEvidence
  <1>. QED
    BY <1>1, <1>2, <1>3, <1>4, <1>5, <1>6, <1>7, <1>8, <1>9, <1>10, <1>11, <1>12,
       <1>14, <1>15, <1>16
    DEF Next, Edit, Review, Import, Fill, Render

\* ReviewEvent explains every row: it is published exactly when its last event says so,
\* and the reviewer on it is the one who decided.
THEOREM History == Spec => []HistoryExplainsPublication
  <1>1. Init => AllExplained(desk) BY DEF Init, AllExplained, Explained, NoReview
  <1>2. TypeOK /\ AllExplained(desk) /\ [Next]_vars => AllExplained(desk)'
    BY HistoryStep DEF vars, AllExplained
  <1>3. AllExplained(desk) => HistoryExplainsPublication
    BY DEF AllExplained, Explained, HistoryExplainsPublication
  <1>. QED BY <1>1, <1>2, <1>3, TypeCorrect, PTL DEF Spec

-----------------------------------------------------------------------------
(* Withdrawals survive imports *)

\* No write of the services or the importers takes a claim out of the rejected state
\* except a reviewer's publication, or the saving of a form opened before.
LEMMA WithdrawalStep ==
    ASSUME TypeOK, WithdrawnStaysRejected, Next
    PROVE  WithdrawnStaysRejected'
  <1> USE DEF tables
  <1>d. desk \in Desks BY DEF TypeOK, Desks
  <1>b. barred \subseteq Rels /\ \A r \in barred : desk[r].status = "rejected"
    BY DEF TypeOK, WithdrawnStaysRejected
  <1>i. ASSUME NEW d \in Desks, NEW R, NEW r \in Rels, d[r].status = "rejected"
        PROVE  Invalidated(d, R)[r] = d[r]
    BY <1>i DEF Invalidated
  <1>k. ASSUME UNCHANGED barred, \A r \in barred : desk'[r] = desk[r]
        PROVE  WithdrawnStaysRejected'
    BY <1>b, <1>k DEF WithdrawnStaysRejected
  <1>n. ASSUME NEW R, desk' = Invalidated(desk, R), UNCHANGED barred
        PROVE  WithdrawnStaysRejected'
    BY <1>b, <1>d, <1>i, <1>k, <1>n
  <1>r. ASSUME NEW q \in Imported, NEW d \in Desks, NEW x, Reopen(q, d, x),
               \A r \in barred : d[r].status = "rejected"
        PROVE  WithdrawnStaysRejected'
    <2> DEFINE e == Invalidated(d, Opened(x.source))
    <2>1. e \in Desks /\ \A r \in barred : e[r].status = "rejected"
      BY <1>b, <1>i, <1>r, InvalidatedTypes
    <2>2. desk' = AutoPublished(e, q) /\ UNCHANGED barred BY <1>r DEF Reopen
    <2>. HIDE DEF e
    <2>3. \A r \in barred : desk'[r].status = "rejected"
      BY <1>b, <2>1, <2>2 DEF AutoPublished, Desks
    <2>. QED BY <2>2, <2>3 DEF WithdrawnStaysRejected
  <1>1. ASSUME NEW e \in Ents, NEW x \in Public, SaveEntity(e, x)
        PROVE  WithdrawnStaysRejected'
    BY <1>1, <1>n DEF SaveEntity
  <1>2. ASSUME NEW s \in Srcs, NEW x \in Public, SaveSource(s, x)
        PROVE  WithdrawnStaysRejected'
    BY <1>2, <1>n DEF SaveSource
  <1>3. ASSUME NEW v \in Evs, DeleteEvidence(v) PROVE WithdrawnStaysRejected'
    BY <1>3, <1>n DEF DeleteEvidence
  <1>4. ASSUME NEW v \in Evs, NEW x \in EvidenceType, SaveEvidence(v, x)
        PROVE  WithdrawnStaysRejected'
    BY <1>4, <1>n DEF SaveEvidence
  <1>5. ASSUME NEW q \in Rels, NEW c \in Claims, CreateClaim(q, c)
        PROVE  WithdrawnStaysRejected'
    BY <1>5, <1>b, <1>d, <1>k DEF CreateClaim, Desks
  <1>6. ASSUME NEW q \in Rels, NEW u \in Users, Publish(q, u) PROVE WithdrawnStaysRejected'
    BY <1>6, <1>b, <1>d DEF Publish, Desks, WithdrawnStaysRejected
  <1>7. ASSUME NEW q \in Rels, NEW u \in Users, Withdraw(q, u) PROVE WithdrawnStaysRejected'
    BY <1>7, <1>b, <1>d DEF Withdraw, Rejected, Desks, DeskType, WithdrawnStaysRejected
  <1>8. ASSUME NEW q \in Rels, ImportRetire(q) PROVE WithdrawnStaysRejected'
    BY <1>8, <1>n DEF ImportRetire
  <1>9. ASSUME NEW q \in Rels, NEW c \in Claims, NEW s \in Srcs, NEW t \in Texts,
               ImportNew(q, c, s, t)
        PROVE  WithdrawnStaysRejected'
    <2> DEFINE x == [rel |-> q, source |-> s, text |-> t, public |-> TRUE]
               d == [desk EXCEPT ![q] = Drafted(@)]
    <2>1. d \in Desks BY <1>d, RowTypes DEF Desks
    <2>2. \A r \in barred : d[r].status = "rejected" BY <1>9, <1>b, <1>d DEF ImportNew, Desks
    <2>3. q \in Imported /\ Reopen(q, d, x) BY <1>9 DEF ImportNew
    <2>. HIDE DEF x, d
    <2>. QED BY <1>r, <2>1, <2>2, <2>3
  <1>10. ASSUME NEW q \in Rels, NEW c \in Claims, NEW s \in Srcs, NEW t \in Texts,
                ImportRevise(q, c, s, t)
         PROVE  WithdrawnStaysRejected'
    <2> DEFINE x == [evidence[Own[q]] EXCEPT !.source = s, !.text = t, !.public = TRUE]
               d == Invalidated(desk, {q} \cup Disturbed(Own[q], x))
               e == [d EXCEPT ![q] = Saved(@, @.status, TRUE)]
    <2>1. d \in Desks /\ \A r \in barred : d[r].status = "rejected"
      BY <1>b, <1>d, <1>i, InvalidatedTypes
    <2>2. d[q] \in DeskType /\ d[q].status \in Statuses BY <2>1 DEF Desks, DeskType
    <2>3. Saved(d[q], d[q].status, TRUE) \in DeskType BY <2>2, RowTypes
    <2>4. d[q].status = "rejected" => Saved(d[q], d[q].status, TRUE).status = "rejected"
      BY <2>2 DEF Saved, DeskType
    <2>5. e \in Desks /\ \A r \in barred : e[r].status = "rejected"
      BY <1>b, <2>1, <2>3, <2>4 DEF Desks
    <2>6. q \in Imported /\ Reopen(q, e, x) BY <1>10 DEF ImportRevise
    <2>. HIDE DEF x, d, e
    <2>. QED BY <1>r, <2>5, <2>6
  <1>11. ASSUME NEW q \in Rels, ImportReassert(q) PROVE WithdrawnStaysRejected'
    <2> DEFINE x == [evidence[Own[q]] EXCEPT !.public = TRUE]
               d == Invalidated(desk, Disturbed(Own[q], x))
    <2>1. d \in Desks /\ \A r \in barred : d[r].status = "rejected"
      BY <1>b, <1>d, <1>i, InvalidatedTypes
    <2>2. q \in Imported /\ Reopen(q, d, x) BY <1>11 DEF ImportReassert
    <2>. HIDE DEF x, d
    <2>. QED BY <1>r, <2>1, <2>2
  <1>12. ASSUME NEW p \in Pages, NEW r \in Rels, ReadClaims(p, r)
         PROVE  WithdrawnStaysRejected'
    BY <1>12, <1>k DEF ReadClaims
  <1>13. ASSUME NEW p \in Pages, ReadEvidence(p) PROVE WithdrawnStaysRejected'
    BY <1>13, <1>k DEF ReadEvidence
  <1>14. ASSUME NEW f \in Forms, NEW q \in Rels, LoadForm(f, q) PROVE WithdrawnStaysRejected'
    BY <1>14, <1>k DEF LoadForm
  <1>15. ASSUME NEW f \in Forms, NEW c \in Claims, SaveForm(f, c) PROVE WithdrawnStaysRejected'
    <2> DEFINE q == form[f].rel
               st == form[f].status
               d == [desk EXCEPT ![q] = Saved(@, st, c # claim[q])]
               R == IF evidence' # evidence THEN {q} ELSE {}
    <2>1. CASE st = "published" /\ desk[q].status # "published"
      BY <1>15, <1>k, <2>1 DEF SaveForm
    <2>2. CASE ~(st = "published" /\ desk[q].status # "published")
      <3>1. q \in Rels /\ st \in Statuses
        BY <1>15 DEF SaveForm, TypeOK
      <3>2. desk' = Invalidated(d, R)
        BY <1>15, <2>2 DEF SaveForm
      <3>3. barred' = IF st = "rejected" THEN barred ELSE barred \ {q}
        BY <1>15, <2>2 DEF SaveForm
      <3>4. \A r \in Rels \ {q} : d[r] = desk[r]
        BY <1>d DEF Desks
      <3>5. st = "rejected" /\ q \in barred => d[q].status = "rejected"
        BY <3>1, <1>b, <1>d DEF Saved, Desks, DeskType
      <3>6. \A r \in barred' : r \in barred /\ d[r].status = "rejected"
        BY <1>b, <3>3, <3>4, <3>5
      <3> HIDE DEF d, R
      <3>7. \A r \in barred' : desk'[r].status = "rejected"
        BY <1>b, <3>2, <3>6 DEF Invalidated
      <3>. QED BY <3>7 DEF WithdrawnStaysRejected
    <2>. QED BY <2>1, <2>2
  <1>. QED
    BY <1>1, <1>2, <1>3, <1>4, <1>5, <1>6, <1>7, <1>8, <1>9, <1>10, <1>11, <1>12, <1>13,
       <1>14, <1>15
    DEF Next, Edit, Review, Import, Fill, Render

\* A withdrawn claim stays rejected through every import, edit and return of its source,
\* until a reviewer publishes it or a form opened before the withdrawal is saved.
THEOREM Withdrawal == Spec => []WithdrawnStaysRejected
  <1>1. Init => WithdrawnStaysRejected BY DEF Init, WithdrawnStaysRejected
  <1>2. TypeOK /\ WithdrawnStaysRejected /\ [Next]_vars => WithdrawnStaysRejected'
    BY WithdrawalStep DEF vars, WithdrawnStaysRejected
  <1>. QED BY <1>1, <1>2, TypeCorrect, PTL DEF Spec

-----------------------------------------------------------------------------
(* Listings of offices, written in bulk *)

OfficesTypeOK == observed \subseteq Offices /\ listed \subseteq Offices

\* The review rows a listing leaves are well formed and explained by their events, and those
\* of claims in the rejected state are the same.
LEMMA ListedDesks ==
    ASSUME TypeOK, AllExplained(desk), NEW L \in SUBSET Offices, NEW day, NEW s \in Srcs,
           NEW t \in Texts, ListOffices(L, day, s, t)
    PROVE  /\ desk' \in Desks /\ AllExplained(desk')
           /\ \A r \in Rels : desk[r].status = "rejected" => desk'[r] = desk[r]
  <1>d. desk \in Desks BY DEF TypeOK, Desks
  <1> DEFINE R == Gone(L) \cup Returning(L)
             e == Invalidated(desk, R)
  <1>1. e \in Desks /\ AllExplained(e) BY <1>d, InvalidatedTypes, ExplainedInvalidated
  <1>2. \A r \in Rels : desk[r].status = "rejected" => e[r] = desk[r] BY DEF Invalidated
  <1> HIDE DEF e
  <1>3. /\ NoReview \in DeskType /\ NoReview.status = "absent" /\ Explained(NoReview)
        /\ [NoReview EXCEPT !.status = "rejected"] \in DeskType
        /\ Explained([NoReview EXCEPT !.status = "rejected"])
    BY DEF NoReview, DeskType, Statuses, Events, Explained
  <1>4. Drafted(NoReview) \in DeskType /\ Explained(Drafted(NoReview))
    BY <1>3, RowTypes, ExplainedRows
  <1>5. \A r \in Rels : Drafts(L)[r] = IF r \in New(L)
                                       THEN IF RowOf[r] \in RejectedRows
                                            THEN [NoReview EXCEPT !.status = "rejected"]
                                            ELSE Drafted(NoReview)
                                       ELSE e[r]
    BY DEF Drafts, e
  <1>6. \A r \in Rels : Drafts(L)[r] \in DeskType /\ Explained(Drafts(L)[r])
    BY <1>1, <1>3, <1>4, <1>5 DEF AllExplained, Desks
  <1>7. \A r \in New(L) : desk[r].status = "absent" BY DEF ListOffices
  <1>8. \A r \in Rels : desk[r].status = "rejected" => Drafts(L)[r] = desk[r]
    BY <1>2, <1>5, <1>7
  <1>9. desk' = [r \in Rels |-> IF r \in Publishes(L) THEN Published(Drafts(L)[r], Nobody)
                                ELSE Drafts(L)[r]]
    BY DEF ListOffices
  <1>10. \A r \in Publishes(L) : Drafts(L)[r].status = "draft" BY DEF Publishes
  <1>11. \A r \in Rels : /\ Published(Drafts(L)[r], Nobody) \in DeskType
                         /\ Explained(Published(Drafts(L)[r], Nobody))
    BY <1>6, RowTypes, ExplainedRows
  <1>12. desk' \in Desks BY <1>6, <1>9, <1>11 DEF Desks
  <1>13. AllExplained(desk') BY <1>6, <1>9, <1>11 DEF AllExplained
  <1>14. \A r \in Rels : desk[r].status = "rejected" => desk'[r] = desk[r]
    BY <1>8, <1>9, <1>10
  <1>. QED BY <1>12, <1>13, <1>14

\* A listing writes rows of the right types.
LEMMA ListedTypes ==
    ASSUME TypeOK, OfficesTypeOK, NEW L \in SUBSET Offices, NEW day, NEW s \in Srcs,
           NEW t \in Texts, ListOffices(L, day, s, t), desk' \in Desks
    PROVE  TypeOK' /\ OfficesTypeOK'
  <1>1. New(L) \subseteq Offices /\ Offices \subseteq Rels
    BY OfficesAssumption DEF New, OfficesAssumption
  <1>2. claim' \in [Rels -> Claims]
    BY <1>1, OfficesAssumption DEF ListOffices, OfficesAssumption, TypeOK
  <1>3. source' \in [Srcs -> Public] BY DEF ListOffices, TypeOK, Public
  <1>4. evidence' = Cite(L, s, t) BY DEF ListOffices
  <1>5. ASSUME NEW v \in Evs PROVE Cite(L, s, t)[v] \in EvidenceType
    <2>1. CASE v \in CitationsOf(New(L))
      <3>1. \E r \in New(L) : Citation[r] = v BY <2>1 DEF CitationsOf
      <3>2. PICK q \in New(L) : q = CHOOSE r \in New(L) : Citation[r] = v BY <3>1
      <3>3. Cite(L, s, t)[v] = [rel |-> q, source |-> s, text |-> t, public |-> TRUE]
        BY <2>1, <3>2 DEF Cite
      <3>. QED BY <1>1, <3>3 DEF EvidenceType
    <2>2. CASE v \notin CitationsOf(New(L))
      <3> DEFINE b == IF v \in CitationsOf(Gone(L)) THEN FALSE
                      ELSE evidence[v].public \/ v \in CitationsOf(Returning(L))
      <3>1. Cite(L, s, t)[v] = [evidence[v] EXCEPT !.public = b] BY <2>2 DEF Cite
      <3>2. evidence[v] \in EvidenceType BY DEF TypeOK
      <3>3. b \in BOOLEAN BY Zenon
      <3> HIDE DEF b
      <3>. QED BY <3>1, <3>2, <3>3, EvidenceRows
    <2>. QED BY <2>1, <2>2
  <1>6. evidence' \in [Evs -> EvidenceType] BY <1>4, <1>5 DEF Cite
  <1>7. UNCHANGED <<entity, barred, form, page>> BY DEF ListOffices
  <1>8. OfficesTypeOK' BY DEF ListOffices, OfficesTypeOK
  <1>. QED BY <1>2, <1>3, <1>6, <1>7, <1>8 DEF TypeOK, Desks

OfficesInv == TypeOK /\ OfficesTypeOK /\ AllExplained(desk) /\ WithdrawnStaysRejected

LEMMA OfficesStep == OfficesInv /\ OfficesNext => OfficesInv'
  <1> SUFFICES ASSUME OfficesInv, OfficesNext PROVE OfficesInv'
    OBVIOUS
  <1> USE DEF OfficesInv
  <1>1. CASE Listing
    <2>1. PICK L \in SUBSET Offices, day \in ListingDays, s \in Srcs, t \in Texts :
                 ListOffices(L, day, s, t)
      BY <1>1 DEF Listing
    <2>2. /\ desk' \in Desks /\ AllExplained(desk')
          /\ \A r \in Rels : desk[r].status = "rejected" => desk'[r] = desk[r]
      BY <2>1, ListedDesks
    <2>3. TypeOK' /\ OfficesTypeOK' BY <2>1, <2>2, ListedTypes
    <2>4. barred' = barred BY <2>1 DEF ListOffices
    <2>5. barred \subseteq Rels BY DEF TypeOK
    <2>6. WithdrawnStaysRejected' BY <2>2, <2>4, <2>5 DEF WithdrawnStaysRejected
    <2>. QED BY <2>2, <2>3, <2>6
  <1>2. CASE (Edit \/ Review \/ Fill \/ Render) /\ UNCHANGED offices
    <2>1. Next BY <1>2 DEF Next
    <2>2. TypeOK' BY <2>1, TypeStep
    <2>3. AllExplained(desk)' BY <2>1, HistoryStep
    <2>4. WithdrawnStaysRejected' BY <2>1, WithdrawalStep
    <2>5. OfficesTypeOK' BY <1>2 DEF offices, OfficesTypeOK
    <2>. QED BY <2>2, <2>3, <2>4, <2>5
  <1>. QED BY <1>1, <1>2 DEF OfficesNext

LEMMA OfficesInvariance == OfficesSpec => []OfficesInv
  <1>1. OfficesInit => OfficesInv
    <2> SUFFICES ASSUME OfficesInit PROVE OfficesInv
      OBVIOUS
    <2>1. TypeOK BY InitTypes DEF OfficesInit
    <2>2. OfficesTypeOK BY DEF OfficesInit, OfficesTypeOK
    <2>3. AllExplained(desk) BY DEF OfficesInit, Init, AllExplained, Explained, NoReview
    <2>4. WithdrawnStaysRejected BY DEF OfficesInit, Init, WithdrawnStaysRejected
    <2>. QED BY <2>1, <2>2, <2>3, <2>4 DEF OfficesInv
  <1>2. OfficesInv /\ UNCHANGED <<vars, offices>> => OfficesInv'
    BY DEF OfficesInv, vars, tables, offices, TypeOK, OfficesTypeOK, AllExplained,
           WithdrawnStaysRejected
  <1>. QED BY <1>1, <1>2, OfficesStep, PTL DEF OfficesSpec

\* A claim that a reviewer withdrew stays rejected through every listing, bulk or not: while
\* its row is listed, changed, gone or back.
THEOREM OfficesWithdrawal == OfficesSpec => []WithdrawnStaysRejected
  BY OfficesInvariance, PTL DEF OfficesInv

\* The events that a listing writes in bulk explain the rows it leaves, as those of save() do.
THEOREM OfficesHistory == OfficesSpec => []HistoryExplainsPublication
  <1>1. OfficesInv => HistoryExplainsPublication
    BY DEF OfficesInv, AllExplained, Explained, HistoryExplainsPublication
  <1>. QED BY <1>1, OfficesInvariance, PTL
=============================================================================
