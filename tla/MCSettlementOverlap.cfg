CONSTANTS
    Requests = {r1, r2}
    Apps = {a1, a2}
    NoApp = NoApp
    Unlinked = {"buyer"}
    Faults = TRUE
SPECIFICATION Spec
SYMMETRY Interchangeable
INVARIANTS
    
    
    PlatformReleasesDispatched
 
