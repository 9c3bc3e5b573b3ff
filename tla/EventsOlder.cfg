\* One record that the newer snapshot does not list.
CONSTANTS
    Records = {r1}
    Scopes = {all}
    Days = {1, 2}
    Ents = {ana}
    Ids = {"i1"}
    Anchors = {"i1"}
    Contents <- MCOne
    Srcs = {s1}
    Unresolved = Unresolved
    NoEntity = NoEntity
SPECIFICATION Spec
PROPERTIES NewestStands
