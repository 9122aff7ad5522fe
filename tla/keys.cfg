SPECIFICATION Spec
CONSTANTS
    Keys = {"left", "space", "s"}
    MaxEvents = 2
    Builds = {TRUE, FALSE}
INVARIANTS
    KeysTypeOK
    KeysAccounted
PROPERTIES
    KeysArrive
