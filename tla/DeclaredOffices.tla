---------------------------- MODULE DeclaredOffices ----------------------------
(***************************************************************************)
(* core/ept_offices.py: the public listing of office holders becomes       *)
(* claims in bulk.  _sync_offices() does in queries over many rows what    *)
(* Relationship.save() and Evidence.save() do one by one, so it has its    *)
(* own account of whose approval a listing ends.                           *)
(***************************************************************************)
EXTENDS Publication

CONSTANTS
    Offices,        \* claims of the listing: each is one revision of one of its rows
    RowOf, Says,    \* the row of the listing, and what that revision says
    Citation,       \* [Offices -> Evs]: the evidence made for it
    ListingDays

ASSUME OfficesAssumption ==
    /\ Offices \subseteq Rels /\ Says \in [Offices -> Claims] /\ Citation \in [Offices -> Evs]
    /\ \A r, q \in Offices : r # q => Citation[r] # Citation[q]
    /\ ListingDays \subseteq Nat \ {0}

VARIABLES
    observed,       \* offices with a SourceObservation
    listed,         \* those that are current
    listedOn        \* SourceSyncState.as_of

offices == <<observed, listed, listedOn>>

OfficesInit == Init /\ observed = {} /\ listed = {} /\ listedOn = 0

-----------------------------------------------------------------------------
(* _sync_offices(), of a complete listing L.                               *)

Gone(L)      == listed \ L
New(L)       == L \ observed
Returning(L) == (L \cap observed) \ listed

CitationsOf(R) == {Citation[r] : r \in R}

\* Rows of which an editor withdrew some revision.
RejectedRows == {RowOf[r] : r \in {q \in observed : desk[q].status = "rejected"}}

\* A listing with new offices creates one source row; an equal one may stand for it.
Cite(L, s, t) ==
    [v \in Evs |->
       IF v \in CitationsOf(New(L))
       THEN [rel |-> CHOOSE r \in New(L) : Citation[r] = v, source |-> s, text |-> t, public |-> TRUE]
       ELSE [evidence[v] EXCEPT !.public = IF v \in CitationsOf(Gone(L)) THEN FALSE
                                           ELSE @ \/ v \in CitationsOf(Returning(L))]]

\* Approvals end of what is gone or returns; a new revision of a rejected row is rejected.
Drafts(L) ==
    [r \in Rels |->
       IF r \in New(L) THEN IF RowOf[r] \in RejectedRows
                            THEN [NoReview EXCEPT !.status = "rejected"] ELSE Drafted(NoReview)
       ELSE Invalidated(desk, Gone(L) \cup Returning(L))[r]]

\* What is new or returns is published, with public parties and a public source.
Publishes(L) ==
    {r \in New(L) \cup Returning(L) :
       /\ RowOf[r] \notin RejectedRows /\ Drafts(L)[r].status = "draft"
       /\ \A e \in Ends(Says[r]) : entity[e].public
       /\ source'[evidence'[Citation[r]].source].public}

ListOffices(L, day, s, t) ==
    /\ \A r, q \in L : RowOf[r] = RowOf[q] => r = q
    /\ day >= listedOn
    /\ \A r \in New(L) : desk[r].status = "absent" /\ evidence[Citation[r]].rel = NoRel
    /\ New(L) # {} => Citing(s) = {} \/ source[s] = [public |-> TRUE, text |-> t]
    /\ observed' = observed \cup L /\ listed' = L /\ listedOn' = day
    /\ claim' = [r \in Rels |-> IF r \in New(L) THEN Says[r] ELSE claim[r]]
    /\ source' = IF New(L) = {} THEN source ELSE [source EXCEPT ![s] = [public |-> TRUE, text |-> t]]
    /\ evidence' = Cite(L, s, t)
    /\ desk' = [r \in Rels |-> IF r \in Publishes(L) THEN Published(Drafts(L)[r], Nobody)
                               ELSE Drafts(L)[r]]
    /\ UNCHANGED <<entity, barred, form, page>>
    /\ Approve(Publishes(L))

Listing == \E L \in SUBSET Offices, day \in ListingDays, s \in Srcs, t \in Texts :
             ListOffices(L, day, s, t)

\* SourceObservation protects its evidence from deletion.
Protected == \A r \in observed : evidence'[Citation[r]].rel # NoRel

OfficesNext == \/ Listing
               \/ (Edit \/ Review \/ Fill \/ Render) /\ Protected /\ UNCHANGED offices
OfficesSpec == OfficesInit /\ [][OfficesNext]_<<vars, offices>>

-----------------------------------------------------------------------------

\* A claim stays published only while its evidence is what it was approved on: when the
\* source no longer lists what it rests on, or lists it again, the approval ends.
DependentsAreInvalidated ==
    \A r \in Rels : desk[r].status = "published" =>
      {c[1] : c \in approved[r].cites} = Cited(r)
=============================================================================
