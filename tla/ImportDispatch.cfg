\* One worker process and its restarts, one failure, a lingering backend possible; a
\* dispatcher's request, another caller's, and one that reuses the dispatcher's identifier.
CONSTANTS
    Ids = {"a", "b"}
    Requests <- MCRequests
    Dispatched <- MCDispatched
    Periods <- MCPeriods
    Actors = {}
    GitHub = GitHub
    Legislatures = {"XVII"}
    Dates = {1, 2}
    Workers = {w1}
    Sessions = {s1, s2}
    NoRun = NoRun
    NoSession = NoSession
    Today = Today
    MaxFaults = 1
    MaxDirect = 0
SPECIFICATION DFairSpec
INVARIANTS AnswersAreTruthful ReportIsTrue
PROPERTIES QueuedSettles DispatchEnds
