CONSTANTS
    Chains = {c1, c2}
    Procs = {p1, p2}
    NoProc = NoProc
    NoEvent = NoEvent
    Kinds = {"EscrowFunded", "EscrowReleased"}
    Released = "EscrowReleased"
    Keys = {c1, c2}
    KeyOf <- MCKeyOf
    MaxEntries = 2
    Tabs = {b1, b2}
    Members = {m1}
    Admin = Admin
    NoOne = NoOne
    MaxGrants = 1
CHECK_DEADLOCK FALSE
SPECIFICATION ProgressSpec
INVARIANTS
    ChainVerifies
    RecordsFollowRelease
PROPERTIES
    LogSpec
    HandlersEnd
    SignOutReachesAll
