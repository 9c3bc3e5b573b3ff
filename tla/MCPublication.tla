--------------------------- MODULE MCPublication ----------------------------
(* Small instances of Publication for TLC. *)
EXTENDS DeclaredOffices, TLC

VARIABLE scope      \* what may change in a behaviour: the wordings, or forms and pages

Claim(t) == [subject |-> "ana", object |-> "org", text |-> t]

\* Two wordings of a claim that an importer owns and of one that editors wrote.
MCClaims   == {Claim(t) : t \in Texts}
MCOwnFirst == [r \in {"r1"} |-> "v1"]

OneWording == /\ \A r \in Rels : claim[r].text = "old"
              /\ \A e \in Ents : entity[e].text = "old"
              /\ \A s \in Srcs : source[s].text = "old"
              /\ \A v \in Evs : evidence[v].text = "old"

NoSessions == /\ \A f \in Forms : form[f].rel = NoRel
              /\ \A p \in Pages : page[p].rel = NoRel

\* Two revisions of one row of a listing.
MCRowOf    == [r \in Offices |-> "row"]
MCSays     == [r \in Offices |-> Claim("old")]
MCCitation == [r \in Offices |-> IF r = "r1" THEN "v1" ELSE "v2"]

\* Nobody writes another claim or moves evidence between claims.
InTheirPlaces == /\ {r \in Rels : desk[r].status # "absent"} = observed
                 /\ \A r \in Offices : evidence[Citation[r]].rel \in {NoRel, r}

\* One side of the claims is reworded by no one, and nobody hides it while forms are open.
InScope == \/ scope = "wordings" /\ NoSessions /\ entity["org"].text = "old"
           \/ scope = "sessions" /\ OneWording /\ entity["org"].public
           \/ scope = "offices" /\ OneWording /\ entity["org"].public /\ NoSessions /\ InTheirPlaces

MCInit == OfficesInit /\ scope \in {"wordings", "sessions", "offices"} /\ InScope
MCNext == /\ UNCHANGED scope
          /\ \/ scope = "offices" /\ OfficesNext
             \/ scope # "offices" /\ Next /\ UNCHANGED offices
          /\ InScope'
MCSpec == MCInit /\ [][MCNext]_<<vars, offices, scope>>

\* Editors may also move evidence to a claim of theirs.
MovedInit == OfficesInit /\ scope = "moved"
MovedNext == OfficesNext /\ UNCHANGED scope
MovedSpec == MovedInit /\ [][MovedNext]_<<vars, offices, scope>>
=============================================================================
