CHECK_DEADLOCK FALSE
SYMMETRY Interchangeable
SPECIFICATION Spec
CONSTANTS
    Calls = {r1, r2}
    p1 = p1
    p2 = p2
    n1 = n1
    n2 = n2
    Nonces = {n1, n2}
    Payments = {p1, p2}
    NoNonce = NoNonce
    Note <- MCNote
    Requests = {r1, r2}
    Firms = {f1, f2}
    Wallets = {w1, w2}
    NoWallet = NoWallet
    Files = {k1}
    NoFiles = NoFiles
    Configs = {c1, c2}
    DefaultConfig = c1
    Clerks = {s1, s2, s3}
    Deals = {d1, d2}
    MaxOrders = 3
    Tasks = {r1, r2}
    Editors = {e1}
    Texts = {x1, x2}
    RegistrationText = x1
    BlankText = x2
    Goods = {f1, f2}
    MaxLapses = 1
    Amounts <- MCAmounts
    MinBalance = 1
    MaxSeeds = 2
    MaxInits = 2
INVARIANTS OneAccessPerPayment OrdersNumbered OverlapNeedsLapse VectorsCurrent
     PaysOutOnce
PROPERTIES NoChargeOnceServed OnlyStaleWritesUndo FrozenPaysNothing
