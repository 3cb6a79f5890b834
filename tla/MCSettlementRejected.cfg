CONSTANTS
    Requests = {r1}
    Apps = {a1, a2}
    NoApp = NoApp
    Unlinked = {"buyer"}
    Faults = FALSE
SPECIFICATION Spec
SYMMETRY Interchangeable
PROPERTY RejectedIsTerminal
