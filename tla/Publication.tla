---------------------------- MODULE Publication -----------------------------
(***************************************************************************)
(* Publication as a revocable permission: the save() methods of Entity,    *)
(* Source, Evidence and Relationship (core/models.py), the review services *)
(* (core/services.py), the importers' revise, retire and reassert of a     *)
(* claim of theirs (core/parliament_import.py, core/enrichment.py), the    *)
(* administration form that edits a claim, and the public rule with its    *)
(* two queries (public/selectors.py).                                      *)
(*                                                                         *)
(* Every write runs in editorial_transaction(), one at a time, so it is one*)
(* step; what is read before the lock is taken (the claim form's instance) *)
(* or outside it (a public page) is a step of its own.  Permission checks  *)
(* are left out: a refusal changes nothing.                                *)
(***************************************************************************)
EXTENDS Naturals, FiniteSets

CONSTANTS Rels, Ents, Srcs, Evs, Users, Texts,
          Claims,      \* contents a form or a source may give a relationship
          Own,         \* [Rels -> Evs]: the evidence an importer keeps for its claim
          Imported,    \* relationships the importers own; the others are editors'
          Forms,       \* claim forms that may be open at once
          Pages,       \* public pages being rendered at once
          Nobody, NoRel, Nothing

ClaimType == [subject : Ents, object : Ents, text : Texts]

ASSUME PublicationAssumption ==
    /\ Claims \subseteq ClaimType
    /\ \A c \in Claims : c.subject # c.object       \* relationship_distinct_entities
    /\ Imported \subseteq Rels /\ Own \in [Imported -> Evs]
    /\ \A r, s \in Imported : r # s => Own[r] # Own[s]
    /\ Nobody \notin Users /\ NoRel \notin Rels

VARIABLES
    claim,      \* content of each relationship
    desk,       \* its review: status, reviewer, timestamp and last ReviewEvent
    entity, source,
    evidence,   \* by slot; rel = NoRel when there is no such row
    approved,   \* history: the facts the last publication approved
    barred,     \* history: claims withdrawn that no reviewer published since, and no form
                \* opened before the withdrawal was saved over
    form, page

tables == <<claim, entity, source, evidence>>
vars   == <<tables, desk, approved, barred, form, page>>

Public   == [public : BOOLEAN, text : Texts]
EvidenceType == [rel : Rels \cup {NoRel}, source : Srcs, text : Texts, public : BOOLEAN]
Statuses == {"absent", "draft", "published", "rejected"}
Events   == {"none", "publish", "auto_publish", "withdraw", "invalidate"}

\* published_relationship_reviewed: no publication without its timestamp.
DeskType ==
    {d \in [status : Statuses, by : Users \cup {Nobody}, at : BOOLEAN,
            event : Events, actor : Users \cup {Nobody}] : d.status = "published" => d.at}

Ends(c) == {c.subject, c.object}

\* Evidence that counts: public, of a public source.
Cited(r) == {v \in Evs : /\ evidence[v].rel = r /\ evidence[v].public
                         /\ source[evidence[v].source].public}

\* Everything about a claim that its reader sees and its reviewer answers for.
Facts(r) == [claim |-> claim[r],
             names |-> [e \in Ends(claim[r]) |-> entity[e].text],
             cites |-> {<<v, evidence[v].text, source[evidence[v].source].text>> : v \in Cited(r)}]

Publishable(r) == /\ \A e \in Ends(claim[r]) : entity[e].public
                  /\ Cited(r) # {}

\* public_relationships, the single public-visibility rule.
Visible(r) == desk[r].status = "published" /\ desk[r].at /\ Publishable(r)

TypeOK ==
    /\ claim \in [Rels -> Claims]
    /\ desk \in [Rels -> DeskType]
    /\ entity \in [Ents -> Public] /\ source \in [Srcs -> Public]
    /\ evidence \in [Evs -> EvidenceType]
    /\ barred \subseteq Rels
    /\ form \in [Forms -> [rel : Rels \cup {NoRel}, status : Statuses]]
    /\ page \in [Pages -> [rel : Rels \cup {NoRel}, done : BOOLEAN,
                           cites : SUBSET (Evs \X Texts \X Texts)]]

NoReview == [status |-> "absent", by |-> Nobody, at |-> FALSE, event |-> "none", actor |-> Nobody]

Init ==
    /\ claim \in [Rels -> Claims]
    /\ desk = [r \in Rels |-> NoReview]
    /\ entity \in [Ents -> Public] /\ source \in [Srcs -> Public]
    /\ \E s \in Srcs, t \in Texts :
         evidence = [v \in Evs |-> [rel |-> NoRel, source |-> s, text |-> t, public |-> FALSE]]
    /\ approved = [r \in Rels |-> Nothing] /\ barred = {}
    /\ form = [f \in Forms |-> [rel |-> NoRel, status |-> "absent"]]
    /\ page = [p \in Pages |-> [rel |-> NoRel, done |-> FALSE, cites |-> {}]]

-----------------------------------------------------------------------------
(* Reviews *)

\* A desk d after the event; the shapes the services and save() write.
Drafted(d) == [d EXCEPT !.status = "draft", !.by = Nobody, !.at = FALSE]
Invalid(d) == [Drafted(d) EXCEPT !.event = "invalidate", !.actor = Nobody]
Published(d, u) == [d EXCEPT !.status = "published", !.by = u, !.at = TRUE, !.actor = u,
                             !.event = IF u = Nobody THEN "auto_publish" ELSE "publish"]
Rejected(d, u) == [d EXCEPT !.status = "rejected", !.by = u, !.at = TRUE,
                            !.event = "withdraw", !.actor = u]

\* invalidate_relationships: published ones among R fall back to drafts.
Invalidated(d, R) ==
    [r \in Rels |-> IF r \in R /\ d[r].status = "published" THEN Invalid(d[r]) ELSE d[r]]

\* mutant: a withdrawn claim is published again with the next snapshot.
AutoPublishedAlways(d, r) ==
    IF Publishable(r)' THEN [d EXCEPT ![r] = Published(d[r], Nobody)] ELSE d

\* mutant: a draft is published although an entity or its evidence is hidden.
AutoPublishedHidden(d, r) ==
    IF d[r].status = "draft" THEN [d EXCEPT ![r] = Published(d[r], Nobody)] ELSE d

\* publish_imported, on the desk d and the tables the step has already written.
AutoPublished(d, r) ==
    IF d[r].status = "draft" /\ Publishable(r)'
    THEN [d EXCEPT ![r] = Published(d[r], Nobody)] ELSE d

\* What is on record as approved once the step has published the claims in R.
Approve(R) ==
    approved' = [r \in Rels |-> IF desk'[r].status # "published" THEN Nothing
                                ELSE IF r \in R THEN Facts(r)' ELSE approved[r]]

-----------------------------------------------------------------------------
(* Editors *)

Touching(e) == {r \in Rels : e \in Ends(claim[r])}
NotCiting(s) == {}                  \* mutant: a corrected source is not reviewed again
Citing(s)   == {r \in Rels : \E v \in Evs : evidence[v].rel = r /\ evidence[v].source = s}

\* Entity.save: any public field that differs from the row.
SaveEntity(e, x) ==
    /\ entity' = [entity EXCEPT ![e] = x]
    /\ desk' = Invalidated(desk, IF x # entity[e] THEN Touching(e) ELSE {})
    /\ Approve({})
    /\ UNCHANGED <<claim, source, evidence, barred, form, page>>

\* Source.save.
SaveSource(s, x) ==
    /\ source' = [source EXCEPT ![s] = x]
    /\ desk' = Invalidated(desk, IF x # source[s] THEN Citing(s) ELSE {})
    /\ Approve({})
    /\ UNCHANGED <<claim, entity, evidence, barred, form, page>>

\* Claims whose approval ends when slot v becomes x: the old parent and the new.
Disturbed(v, x) == IF x # evidence[v] THEN {x.rel, evidence[v].rel} ELSE {}

\* Rows editors may add are never an importer's.
Editable(v) == evidence[v].rel # NoRel \/ v \notin {Own[r] : r \in Imported}

\* Evidence.save, of a new row or an existing one; the parent may change.
SaveEvidence(v, x) ==
    /\ Editable(v)
    /\ x.rel \in Rels /\ desk[x.rel].status # "absent"
    /\ evidence' = [evidence EXCEPT ![v] = x]
    /\ desk' = Invalidated(desk, Disturbed(v, x))
    /\ Approve({})
    /\ UNCHANGED <<claim, entity, source, barred, form, page>>

Kept == {Own[r] : r \in {q \in Imported : desk[q].status # "absent"}}

\* Evidence.delete; rows an importer refers to are protected.
DeleteEvidence(v) ==
    /\ evidence[v].rel # NoRel /\ v \notin Kept
    /\ evidence' = [evidence EXCEPT ![v] = [@ EXCEPT !.rel = NoRel, !.public = FALSE]]
    /\ desk' = Invalidated(desk, {evidence[v].rel})
    /\ Approve({})
    /\ UNCHANGED <<claim, entity, source, barred, form, page>>

CreateClaim(r, c) ==
    /\ r \notin Imported /\ desk[r].status = "absent"
    /\ claim' = [claim EXCEPT ![r] = c]
    /\ desk' = [desk EXCEPT ![r] = Drafted(@)]
    /\ Approve({})
    /\ UNCHANGED <<entity, source, evidence, barred, form, page>>

\* changeform_view reads its instance before save() takes the lock.
LoadForm(f, r) ==
    /\ form[f].rel = NoRel /\ desk[r].status # "absent"
    /\ form' = [form EXCEPT ![f] = [rel |-> r, status |-> desk[r].status]]
    /\ UNCHANGED <<tables, desk, approved, barred, page>>

\* mutant: approval ends without an event.
SavedSilently(d, st, differs) ==
    IF d.status = "published"
    THEN IF differs \/ st # d.status THEN Drafted(d) ELSE d
    ELSE [d EXCEPT !.status = st, !.by = Nobody, !.at = FALSE]

\* Relationship.save of an instance with status st and content c, over the row d.
Saved(d, st, differs) ==
    IF d.status = "published"
    THEN IF differs \/ st # d.status THEN Invalid(d) ELSE d
    ELSE [d EXCEPT !.status = st, !.by = Nobody, !.at = FALSE]

\* The inline evidence rows a claim form may write with it.
Inlines(r) ==
    {evidence} \cup
    {[evidence EXCEPT ![v] = x] :
        v \in {w \in Evs : Editable(w) /\ evidence[w].rel \in {r, NoRel}},
        x \in {y \in EvidenceType : y.rel = r}}

SaveForm(f, c) ==
    LET r == form[f].rel IN
    /\ r # NoRel
    /\ form' = [form EXCEPT ![f] = [rel |-> NoRel, status |-> "absent"]]
    /\ IF form[f].status = "published" /\ desk[r].status # "published"
       THEN UNCHANGED <<tables, desk, approved, barred>>        \* ValidationError
       ELSE /\ barred' = IF form[f].status = "rejected" THEN barred ELSE barred \ {r}
            /\ evidence' \in Inlines(r)
            /\ claim' = [claim EXCEPT ![r] = c]
            /\ desk' = Invalidated([desk EXCEPT ![r] = Saved(@, form[f].status, c # claim[r])],
                                   IF evidence' # evidence THEN {r} ELSE {})
            /\ Approve({})
            /\ UNCHANGED <<entity, source>>
    /\ UNCHANGED page

\* publish_relationship; a withdrawn claim may be published again by a reviewer.
Publish(r, u) ==
    /\ desk[r].status \in {"draft", "rejected"} /\ Publishable(r)
    /\ desk' = [desk EXCEPT ![r] = Published(@, u)]
    /\ barred' = barred \ {r}
    /\ UNCHANGED <<tables, form, page>>
    /\ Approve({r})

\* withdraw_relationship, of a draft too.
Withdraw(r, u) ==
    /\ desk[r].status \in {"draft", "published"}
    /\ desk' = [desk EXCEPT ![r] = Rejected(@, u)]
    /\ barred' = barred \cup {r}
    /\ Approve({})
    /\ UNCHANGED <<tables, form, page>>

-----------------------------------------------------------------------------
(* Importers, on the claims and the evidence they own *)

\* A source made public again disturbs every claim that cites it.
Opened(s) == IF source[s].public THEN {} ELSE Citing(s)

\* _publish and _make_public: source, then evidence, then the draft itself.
Reopen(r, d, x) ==
    /\ source' = [source EXCEPT ![x.source].public = TRUE]
    /\ evidence' = [evidence EXCEPT ![Own[r]] = x]
    /\ UNCHANGED <<entity, barred, form, page>>
    /\ desk' = AutoPublished(Invalidated(d, Opened(x.source)), r)
    /\ Approve({r})

ImportNew(r, c, s, t) ==
    /\ r \in Imported /\ desk[r].status = "absent" /\ evidence[Own[r]].rel = NoRel
    /\ claim' = [claim EXCEPT ![r] = c]
    /\ Reopen(r, [desk EXCEPT ![r] = Drafted(@)],
              [rel |-> r, source |-> s, text |-> t, public |-> TRUE])

\* A changed record: approval ends, content and passage are replaced, and the claim
\* is published again unless an editor withdrew it.
ImportRevise(r, c, s, t) ==
    LET x == [evidence[Own[r]] EXCEPT !.source = s, !.text = t, !.public = TRUE] IN
    /\ r \in Imported /\ desk[r].status # "absent"
    /\ claim' = [claim EXCEPT ![r] = c]
    /\ LET d == Invalidated(desk, {r} \cup Disturbed(Own[r], x))
       IN  Reopen(r, [d EXCEPT ![r] = Saved(@, @.status, TRUE)], x)

\* A record the source no longer lists: _withdraw.
ImportRetire(r) ==
    /\ r \in Imported /\ desk[r].status # "absent"
    /\ evidence' = [evidence EXCEPT ![Own[r]].public = FALSE]
    /\ desk' = Invalidated(desk, {r} \cup Disturbed(Own[r], evidence'[Own[r]]))
    /\ Approve({})
    /\ UNCHANGED <<claim, entity, source, barred, form, page>>

\* An unchanged observation whose claim is a draft is published again.
ImportReassert(r) ==
    LET x == [evidence[Own[r]] EXCEPT !.public = TRUE] IN
    /\ r \in Imported /\ desk[r].status = "draft"
    /\ UNCHANGED claim
    /\ Reopen(r, Invalidated(desk, Disturbed(Own[r], x)), x)

-----------------------------------------------------------------------------
(* Public pages: the relationships first, their evidence in a second query *)

ReadClaims(p, r) ==
    /\ Visible(r)
    /\ page' = [page EXCEPT ![p] = [rel |-> r, done |-> FALSE, cites |-> {}]]
    /\ UNCHANGED <<tables, desk, approved, barred, form>>

AttachableUnchecked(r) == Facts(r).cites       \* mutant: no recheck in the prefetch

\* The prefetch rechecks the public rule when it runs.
Attachable(r) == IF Visible(r) THEN Facts(r).cites ELSE {}

ReadEvidence(p) ==
    /\ page[p].rel # NoRel /\ ~page[p].done
    /\ page' = [page EXCEPT ![p].done = TRUE, ![p].cites = Attachable(page[p].rel)]
    /\ UNCHANGED <<tables, desk, approved, barred, form>>

-----------------------------------------------------------------------------
Edit == \/ \E e \in Ents, x \in Public : SaveEntity(e, x)
        \/ \E s \in Srcs, x \in Public : SaveSource(s, x)
        \/ \E v \in Evs : DeleteEvidence(v) \/ \E x \in EvidenceType : SaveEvidence(v, x)
        \/ \E r \in Rels, c \in Claims : CreateClaim(r, c)

Review == \E r \in Rels, u \in Users : Publish(r, u) \/ Withdraw(r, u)

Import == \E r \in Rels :
            \/ ImportRetire(r) \/ ImportReassert(r)
            \/ \E c \in Claims, s \in Srcs, t \in Texts :
                 ImportNew(r, c, s, t) \/ ImportRevise(r, c, s, t)

Fill == \E f \in Forms :
            \/ \E r \in Rels : LoadForm(f, r)
            \/ \E c \in Claims : SaveForm(f, c)

Render == \E p \in Pages : ReadEvidence(p) \/ \E r \in Rels : ReadClaims(p, r)

Next == Edit \/ Review \/ Import \/ Fill \/ Render

Spec == Init /\ [][Next]_vars

-----------------------------------------------------------------------------
(* Properties *)

\* Editing a published relationship, its entities, sources or evidence invalidates
\* approval: what is published is, in every detail a reader sees, what was approved.
ApprovedExactly ==
    \A r \in Rels : desk[r].status = "published" => approved[r] = Facts(r)

\* No path hides an endpoint, a source or the last evidence and leaves the claim
\* published: the public rule shows every published claim and nothing else.
PublishedIsVisible == \A r \in Rels : desk[r].status = "published" => Visible(r)

\* ReviewEvent explains the row: it is published exactly when the last event says so,
\* and the reviewer on the row is the one who decided it.
HistoryExplainsPublication ==
    \A r \in Rels :
        /\ desk[r].status = "published" <=> desk[r].event \in {"publish", "auto_publish"}
        /\ desk[r].status = "published" => desk[r].by = desk[r].actor

Standing(r) == IF desk[r].status = "published" THEN approved[r].cites ELSE {}

\* A page never attaches evidence that is not part of what is approved at that moment,
\* although the claim it belongs to was selected by an earlier query.
PageAttachesApproved ==
    [][\A p \in Pages : page[p].rel # NoRel /\ page'[p].done /\ ~page[p].done =>
          page'[p].cites \subseteq Standing(page[p].rel)]_vars

\* A withdrawn claim stays rejected through every import, edit and return of its source,
\* until a reviewer publishes it or a form opened before the withdrawal is saved.
WithdrawnStaysRejected == \A r \in barred : desk[r].status = "rejected"

\* Imports never override editorial withdrawal (docs/architecture.md): a claim whose last
\* review is a withdrawal is not published by anything but a reviewer's decision.
ImportsRespectWithdrawal ==
    [][\A r \in Rels : desk[r].event = "withdraw" => desk'[r].event # "auto_publish"]_vars
=============================================================================
