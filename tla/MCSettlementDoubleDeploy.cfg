CONSTANTS
    Requests = {r1, r2}
    Apps = {a1, a2}
    NoApp = NoApp
    Unlinked = {"buyer"}
    Faults = FALSE
SPECIFICATION Spec
SYMMETRY Interchangeable
PROPERTY AppRecordedOnce
