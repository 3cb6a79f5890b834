CONSTANTS
    Procs = {p1, p2, p3}
    NoProc = NoProc
    s1 = s1
    s2 = s2
    Sellers <- MCSellers
    Found <- MCFound
    MaxMatches = 2
    MaxEdits = 1
    Engines = {e1, e2}
    MaxOffers = 5
    MaxErrors = 2
    ShiftAt = 3
    Workers = {w1, w2}
    Talks = {t1, t2}
    FinalPrices = {q1, q2}
    NoFinalPrice = NoFinalPrice
    camera = camera
    tripod = tripod
    NoProduct = NoProduct
    Suppliers <- MCSellers
    Products <- MCProducts
    TopN = 2
    ParsedRFQs <- MCParsed
    Stocks <- MCStocks
    Sightings <- MCSightings
    Fields <- MCFields
    Variants <- MCVariants
    i1 = i1
    i2 = i2
    Items <- MCItems
    NoId = NoId
    Offerings <- MCOfferings
    Principals <- MCPrincipals
    MaxParses = 2
    MaxTurns = 2
CHECK_DEADLOCK FALSE
SYMMETRY Interchangeable
SPECIFICATION AllSpec
INVARIANTS
    ConfirmedHasAgreed
    SettledIsPaid
    RejectedForADeal
    EvidenceCountsOnce
    AgreedRecordsHaveAgreement
    OnePairUnlessBackfilled
    MatchesAreBest
    PricedByItsProduct
PROPERTY NoWayBack
