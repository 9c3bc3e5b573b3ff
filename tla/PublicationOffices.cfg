\* An office of a listing and a claim of an editor, to which the evidence of the office moves.
CONSTANTS
    Rels = {"r1", "r2"}
    Ents = {"ana", "org"}
    Srcs = {"s1"}
    Evs = {"v1", "v2"}
    Users = {"rita"}
    Texts = {"old"}
    Claims <- MCClaims
    Imported = {"r1"}
    Own <- MCOwnFirst
    Forms = {}
    Pages = {}
    Offices = {"r1"}
    RowOf <- MCRowOf
    Says <- MCSays
    Citation <- MCCitation
    ListingDays = {1}
    Nobody = Nobody
    NoRel = NoRel
    Nothing = Nothing
SPECIFICATION MovedSpec
INVARIANTS DependentsAreInvalidated
