\* A reviewer withdraws a claim and a colleague converts its passage.
SPECIFICATION MCOneFeed
CONSTANTS
    p1 = p1  p2 = p2  p3 = p3  p4 = p4  sc1 = sc1  sc2 = sc2  sc3 = sc3  x = x  id1 = id1  id2 = id2  o = o  s = s
    Passages = {p1, p2, p3, p4}  Scopes = {sc1, sc2, sc3}  Exts = {x}  Identifiers = {id1, id2}
    Info <- TwoPeople  Legacy <- NoLegacy
    Days = {1}  Prefixed = {}  Biographies = {sc1, sc2}  Convertible = {p1}  Touchable = {}
    People = {a, b}  Bodies = {o}  Srcs = {s}  NoEntity = NoEntity  None = None
PROPERTIES WithdrawnStaysOut
