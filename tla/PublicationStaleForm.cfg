\* The same instance: an editor's form opened before the withdrawal.
CONSTANTS
    Rels = {"r1", "r2"}
    Ents = {"ana", "org"}
    Srcs = {"s1"}
    Evs = {"v1", "v2"}
    Users = {"rita"}
    Texts = {"old", "new"}
    Claims <- MCClaims
    Imported = {"r1"}
    Own <- MCOwnFirst
    Forms = {"f1"}
    Pages = {"p1"}
    Offices = {"r1", "r2"}
    RowOf <- MCRowOf
    Says <- MCSays
    Citation <- MCCitation
    ListingDays = {1}
    Nobody = Nobody
    NoRel = NoRel
    Nothing = Nothing
SPECIFICATION MCSpec
PROPERTIES ImportsRespectWithdrawal
