\* A record that moves between two scopes, two profiles, two official identifiers and a name
\* that is no anchor, merges, visibility and a source row that is hidden and renamed.  Then
\* each importer: two runs of it, and one change of what it reads meanwhile (of a list of
\* deputies two).
CONSTANTS
    Records = {r1}
    Scopes = {east, west}
    Days = {1}
    Ents = {ana, rui}
    Ids = {"i1", "i2", "n1"}
    Anchors = {"i1", "i2"}
    Contents <- MCParties
    Srcs = {s1}
    Unresolved = Unresolved
    NoEntity = NoEntity
    LegalNumbers = {"L", "M"}
    Portals <- MCPortals
    NoNumber = "none"
    NoCode = "none"
    MaxUploads = 1
    MaxFileRuns = 2
    Deputies = {1, 2, 3, 4}
    Lists <- MCLists
    PageContents <- MCPageContents
    PageSize = 1
    MaxPages = 3
    Retries = 2
    ActivityFiles <- MCActivityFiles
    Committees = {1, 2, 3}
    Reported <- MCReported
    Tiers <- MCTiers
    Organs = {1, 2}
    NoCommittee = "none"
    MaxListEdits = 2
    Meps = {"x", "y"}
    Months = {"m1", "m2"}
    Cabinets = {"f"}
    RegisterIds = {"o", "p", "q"}
    Names = {"N", "P", "Q", "R"}
    NameOf <- MCNameOf
    Marked = {"N", "P"}
    Cabinet = "cab"
    Meetings <- MCMeetings
    Catalogues <- MCCatalogues
    Registers <- MCRegisters
    RowCap = 2
    NoActor = "none"
    MaxNews = 1
    MaxMeetingRuns = 2
    Cadastros = {"a", "b"}
    Rosters <- MCRosters
    Biographies <- MCBiographies
    Terms <- MCTerms
    OpenEnded = 9
    AsOfs = {1, 2}
    PlenaryClaims <- MCPlenary
    MaxRosters = 1
    MaxHeld = 1
    MaxReviews = 1
    AssemblyFiles <- MCAssemblyFiles
    Legislatures = {1, 2, 3}
    ThisOne = 2
    FirstDelegations = 2
    RosterOf <- MCRosterOf
    NoGroup = "none"
    NoNumberGiven = 0
    NoDep = NoDep
    MaxGatherings = 2
    MaxReleases = 1
    BodyRegisters <- MCBodyRegisters
    BodyTypes = {"t1", "t2"}
    KindOfType <- MCKindOfType
    BodyKind = "body"
    HigherKind = "university"
    NoNipc = "none"
    FirstAnchors <- MCFirstAnchors
    OtherEntities <- MCOtherEntities
    Reviewable <- MCReviewable
    Governments = {25}
    SearchPage = 2
    MaxAttempts = 2
    HistoryLimits = {0, 1}
    NoLimit = 0
    MaxSnapshots = 2
    MaxRegisterChanges = 1
    MaxIdentityReviews = 1
    BoardDocuments <- MCBoardDocuments
    BoardSites <- MCBoardSites
    Unlinked = 0
    RefusedLink = 1000
    Unreadable = 1001
    RoleHeads = {"Presidente", "Vogal", "Efetivo"}
    Connectors = {"da"}
    Particles = {"de"}
    BoardLimits = {0, 1}
    EveryCompany = 0
    MaxVisits = 2
    MaxSiteChanges = 1
    Compositions <- MCCompositions
    Premier = "pm"
    NoEnd = 9
    ReadOn = {2, 3}
    SearchSize = 2
    MostPages = 2
    MaxGovernmentEvents = 3
SPECIFICATION MCSpec
SYMMETRY Symmetry
INVARIANTS SummariesExact PartiesStand AbsentIsNotPublished OpenDataIsFaithful RegistersAreComplete MeetingsAreWhole LegislatureIsWhole BodiesAreTrue BoardRowsAreTrue OfficesAreTrue
PROPERTIES WithdrawnIsFinal
