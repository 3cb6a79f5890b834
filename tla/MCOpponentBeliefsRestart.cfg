CONSTANTS
    Engines = {e1}
    MaxOffers = 6
    MaxErrors = 3
    ShiftAt = 7
SPECIFICATION BeliefSpec
PROPERTY BeliefsSurvive
