CONSTANTS
    Requests = {r1}
    Apps = {a1, a2}
    NoApp = NoApp
    Unlinked = {"seller"}
    Faults = FALSE
SPECIFICATION Spec
SYMMETRY Interchangeable
INVARIANT SellerIsPaid
