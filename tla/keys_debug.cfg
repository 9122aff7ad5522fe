SPECIFICATION Spec
CONSTANTS
    Keys = {"left"}
    MaxEvents = 1
    Builds = {TRUE}
PROPERTIES
    ControlsWork
