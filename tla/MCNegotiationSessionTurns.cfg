CONSTANTS
    MaxRounds = 4
    StallRounds = 1
    MaxSchemaFailures = 2
    HardGapRound = 3
    Prices = {40, 46, 50}
    Marks = {"REJECT"}
    Procs = {p1, p2}
    NoProc = NoProc
    Markets <- MCMarkets
    HumanPrices = {47}
    Overlapping = FALSE
    MaxOffers = 1
    MaxEvents = 2
    MaxBreaks = 1
SPECIFICATION RoomSpec
INVARIANTS
    
    NoStallBetweenTurns
    RoundsAlternate
    OfferShownOnce
PROPERTIES
    LastRoundDecides
    FinishedStays
    OffersKeepReservation
    LoopComesToEnd
    AgreementIsSeen
