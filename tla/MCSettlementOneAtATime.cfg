CONSTANTS
    Requests = {r1}
    Apps = {a1, a2, a3}
    NoApp = NoApp
    Unlinked = {"buyer"}
    Faults = TRUE
SPECIFICATION FairSpec
INVARIANT OneFundedApp
PROPERTIES
    AppRecordedOnce
    ApprovalResolved
    DispatchResolved
