\* An imported claim and an editor's that share a source, two evidence rows that may move
\* between them.  Either every text has two wordings; or one claim form and one page whose
\* evidence is read after its claims are open; or both claims are revisions of one office of
\* the public listing.
CONSTANTS
    Rels = {"r1", "r2"}
    Ents = {"ana", "org"}
    Srcs = {"s1"}
    Evs = {"v1", "v2"}
    Users = {"rita"}
    Texts = {"old", "new"}
    Claims <- MCClaims
    Imported = {"r1"}
    Own <- MCOwnFirst
    Forms = {"f1"}
    Pages = {"p1"}
    Offices = {"r1", "r2"}
    RowOf <- MCRowOf
    Says <- MCSays
    Citation <- MCCitation
    ListingDays = {1}
    Nobody = Nobody
    NoRel = NoRel
    Nothing = Nothing
SPECIFICATION MCSpec
INVARIANTS ApprovedExactly PublishedIsVisible WithdrawnStaysRejected HistoryExplainsPublication
PROPERTIES PageAttachesApproved
