CONSTANTS
    Amounts <- MCAmounts
    MinBalance = 1
    MaxSeeds = 2
    MaxInits = 2
SPECIFICATION AppSpec
PROPERTY StatusOnlyAdvances
