\* Observations: biographies of two people in two legislatures; a name and an identified subject;
\* or two revisions of an entry, the entry in another scope under a prefix, and conversions.
\* The queue: two workers and three sessions, so that a restarted worker meets a lingering
\* backend; two runs, two reference dates; three process or session failures and one
\* direct import.
CONSTANTS
    p1 = p1  p2 = p2  p3 = p3  p4 = p4  sc1 = sc1  sc2 = sc2  sc3 = sc3
    x = x  id1 = id1  id2 = id2  o = o  s = s
    Passages = {p1, p2, p3, p4}  Scopes = {sc1, sc2, sc3}  Exts = {x}  Identifiers = {id1, id2}
    Info <- TwoPeople  Legacy <- NoLegacy
    Days = {1}  Prefixed = {}  Biographies = {sc1, sc2}  Convertible = {}  Touchable = {p4}
    People = {a, b}  Bodies = {o}  Srcs = {s}  NoEntity = NoEntity  None = None
    Ids = {"a", "b"}
    Requests <- MCTwoRequests
    Actors = {"ana"}
    GitHub = GitHub
    Legislatures = {"XVII"}
    Dates = {1, 2}
    Workers = {w1, w2}
    Sessions = {s1, s2, s3}
    NoRun = NoRun
    NoSession = NoSession
    Today = Today
    MaxFaults = 3
    MaxDirect = 1
SYMMETRY MCSymmetry
SPECIFICATION ImportsSpec
INVARIANTS OneCurrentRevision AutoIsListed ClaimsFollowIdentity AppliedExactlyOnSuccess RevokedNeverSucceeds
PROPERTIES WithdrawalsHold InterruptedOnlyOrphans PublishedNeverOlder ImplementsLedger
