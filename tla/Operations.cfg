\* Two weekly runs that may last a day and one started by hand; downloads with two redirects;
\* searches whose limits are all met, and one change meanwhile; a map whose limits are all
\* met, with one change, two expansions and one reset.
CONSTANTS
    Plan <- MCPlan
    Runners = {"weekly", "manual"}
    Weekly = "weekly"
    Options <- MCOptions
    Week = 7
    MaxRun = 1
    Instants = {0, 1, 6, 7, 8}
    MaxManual = 1
    MaxRedirects = 2
    Nodes = {1, 2, 3, 4, 5}
    From = 1
    To = 5
    Structural = {4}
    ClaimGraphs <- MCClaimGraphs
    EventGraphs <- MCEventGraphs
    MaxDepths = {2, 3}
    MaxPaths = 2
    HubDegree = 2
    FrontierLimit = 2
    VisitedLimit = 5
    LevelRowLimit = 4
    EventNeighbours = 1
    MaxGraphEdits = 1
    Ents = {"a", "b", "c", "d"}
    Centre = "c"
    Claims = {1, 2, 3, 4, 5}
    Ends <- MCEnds
    OfKind = {1, 4}
    Ties = {"a", "d"}
    RelationshipLimit = 4
    EventEdgeLimit = 1
    CanvasNodeLimit = 4
    CanvasEdgeLimit = 6
    ExpandableLimit = 4
    NoChoice = "none"
    MaxEdits = 1
    MaxResets = 1
SPECIFICATION MCSpec
INVARIANTS StepsAreFresh WeeklySparesNothing DownloadsEndClean PathsAreSound MapIsSound
PROPERTIES DownloadEnds
