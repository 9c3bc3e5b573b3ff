\* A deputy, two ministers of one name and a public-company post; one reconciliation, two decisions.
SPECIFICATION Spec
CONSTANTS
    Deputy = Deputy  Holder = Holder  Ministers = {m1, m2}
    Ids <- MCIds  Register <- MCRegister  Rank <- MCRank
    Published <- MCPublished  Name <- MCName  Names = {"ana", "rui"}
    Signals <- MCSignals  Feeds <- MCFeeds  Hints <- MCHints
    Jobs = {j1}  MaxEdits = 2  NoOne = NoOne  Shared = Shared
INVARIANTS DecisionsHold RedirectsFollowAudit FixpointReached
PROPERTIES MergesAreUnambiguous RegistersStayExclusive
SYMMETRY Symmetry
