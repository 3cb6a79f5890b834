----------------------- MODULE CadenciaEscrowApp_proofs -----------------------
(***************************************************************************)
(* Proofs about one escrow application, for every set of amounts, every    *)
(* minimum balance, and any number of plain payments.                      *)
(***************************************************************************)
EXTENDS CadenciaEscrowApp, TLAPS

USE AmountsAssumption, MaxInitsAssumption

\* Amounts are natural numbers.
LEMMA AmountIsNat == AppTypeOK => amount \in Nat
  BY DEF AppTypeOK

\* An application that does not exist yet is of the right type.
LEMMA AppInitTypeOK == AppInit => AppTypeOK
  BY DEF AppInit, AppTypeOK, NoContract, App, AppStatus, Accounts

\* What initialize() stores is a state of an application.
LEMMA InitializedType ==
  ASSUME NEW creator \in Accounts, NEW b \in Accounts, NEW s \in Accounts
  PROVE  Initialized(creator, b, s) \in App
  BY DEF Initialized, App, AppStatus

\* A payment out keeps the types of what it changes.
LEMMA PayType ==
  ASSUME AppTypeOK, NEW payee \in Accounts, Pay(payee)
  PROVE  /\ balance' \in Nat
         /\ paidOut' \in [Accounts -> Nat]
  <1>1. amount \in Nat /\ balance \in Nat /\ paidOut[payee] \in Nat
    BY DEF AppTypeOK
  <1>2. balance' \in Nat
    BY <1>1 DEF Pay
  <1>3. paidOut' \in [Accounts -> Nat]
    BY <1>1 DEF Pay, AppTypeOK
  <1>4. QED
    BY <1>2, <1>3

\* Every call keeps the types; Pay checks the balance before it takes from it.
LEMMA AppNextTypeOK == AppTypeOK /\ [AppNext]_appVars => AppTypeOK'
  <1> SUFFICES ASSUME AppTypeOK, [AppNext]_appVars PROVE AppTypeOK'
    OBVIOUS
  <1>1. CASE Seed
    BY <1>1 DEF Seed, AppTypeOK
  <1>2. CASE Fund
    <2>1. app' \in App
      BY <1>2 DEF Fund, Funded, AppTypeOK, App, AppStatus
    <2>2. balance' \in Nat
      BY <1>2, AmountIsNat DEF Fund, AppTypeOK
    <2>3. QED
      BY <1>2, <2>1, <2>2 DEF Fund, AppTypeOK
  <1>3. ASSUME NEW sender \in Accounts, Initialize(sender) PROVE AppTypeOK'
    <2>1. app' \in App
      BY <1>3, InitializedType DEF Initialize, Accounts
    <2>2. inits' \in 0 .. MaxInits
      BY <1>3 DEF Initialize, AppTypeOK
    <2>3. QED
      BY <1>3, <2>1, <2>2 DEF Initialize, AppTypeOK
  <1>4. ASSUME NEW sender \in Accounts, Freeze(sender) \/ Unfreeze(sender)
        PROVE  AppTypeOK'
    BY <1>4 DEF Freeze, Unfreeze, Frozen, Unfrozen, AppTypeOK, App
  <1>5. ASSUME NEW sender \in Accounts, NEW accounts \in SUBSET Accounts,
               Release(sender, accounts)
        PROVE  AppTypeOK'
    <2>1. app.seller \in Accounts /\ app' \in App
      BY <1>5 DEF Release, Released, AppTypeOK, App, AppStatus
    <2>2. balance' \in Nat /\ paidOut' \in [Accounts -> Nat]
      BY <1>5, <2>1, PayType DEF Release
    <2>3. QED
      BY <1>5, <2>1, <2>2 DEF Release, Pay, AppTypeOK
  <1>6. ASSUME NEW sender \in Accounts, NEW accounts \in SUBSET Accounts,
               Refund(sender, accounts)
        PROVE  AppTypeOK'
    <2>1. app.buyer \in Accounts /\ app' \in App
      BY <1>6 DEF Refund, Refunded, AppTypeOK, App, AppStatus
    <2>2. balance' \in Nat /\ paidOut' \in [Accounts -> Nat]
      BY <1>6, <2>1, PayType DEF Refund
    <2>3. QED
      BY <1>6, <2>1, <2>2 DEF Refund, Pay, AppTypeOK
  <1>7. CASE UNCHANGED appVars
    BY <1>7 DEF appVars, AppTypeOK
  <1>8. QED
    BY <1>1, <1>2, <1>3, <1>4, <1>5, <1>6, <1>7 DEF AppNext

\* The contract's state keeps its types; in particular no payment takes the
\* balance below zero.
THEOREM AppTypeCorrect == AppSpec => []AppTypeOK
  BY AppInitTypeOK, AppNextTypeOK, PTL DEF AppSpec

-----------------------------------------------------------------------------
\* Solvency.

\* No call takes money out of a funded contract and leaves it FUNDED.
LEMMA NextSolvent ==
  AppTypeOK /\ SolventWhenFunded /\ [AppNext]_appVars => SolventWhenFunded'
  <1> SUFFICES ASSUME AppTypeOK, SolventWhenFunded, [AppNext]_appVars, app'.status = "FUNDED"
               PROVE  balance' >= amount'
    BY DEF SolventWhenFunded
  <1>1. amount \in Nat /\ balance \in Nat /\ app \in App
    BY AmountIsNat DEF AppTypeOK
  <1>2. CASE Seed
    BY <1>1, <1>2 DEF Seed, SolventWhenFunded
  <1>3. CASE Fund
    BY <1>1, <1>3 DEF Fund
  <1>4. ASSUME NEW sender \in Accounts, Initialize(sender) PROVE FALSE
    BY <1>4 DEF Initialize, Initialized
  <1>5. ASSUME NEW sender \in Accounts, Freeze(sender) \/ Unfreeze(sender)
        PROVE  balance' >= amount'
    BY <1>1, <1>5 DEF Freeze, Unfreeze, Frozen, Unfrozen, App, SolventWhenFunded
  <1>6. ASSUME NEW sender, NEW accounts, Release(sender, accounts) \/ Refund(sender, accounts)
        PROVE  FALSE
    BY <1>1, <1>6 DEF Release, Refund, Released, Refunded, App
  <1>7. CASE UNCHANGED appVars
    BY <1>7 DEF appVars, SolventWhenFunded
  <1>8. QED
    BY <1>2, <1>3, <1>4, <1>5, <1>6, <1>7 DEF AppNext

\* A funded contract holds its amount, even when initialize() is accepted again
\* and again.
THEOREM Solvent == AppSpec => []SolventWhenFunded
  <1>1. AppInit => SolventWhenFunded
    BY DEF AppInit, SolventWhenFunded, NoContract
  <1>2. QED
    BY <1>1, NextSolvent, AppTypeCorrect, PTL DEF AppSpec

-----------------------------------------------------------------------------
\* A frozen contract.

\* No call moves money out of a frozen contract.
THEOREM FrozenKeepsMoney == AppSpec => FrozenPaysNothing
  <1>1. [AppNext]_appVars => (app.frozen => paidOut' = paidOut)
    BY DEF AppNext, Seed, Fund, Initialize, Freeze, Unfreeze, Release, Refund, CanRelease,
           CanRefund, appVars
  <1>2. [AppNext]_appVars => [app.frozen => paidOut' = paidOut]_appVars
    BY <1>1
  <1>3. QED
    BY <1>2, PTL DEF AppSpec, FrozenPaysNothing

-----------------------------------------------------------------------------
\* Payments out, and the order of the statuses.

\* An application exists once it has been initialized.
Created == app.status = "ABSENT" <=> inits = 0

PaysInv == PaysOutOnce /\ Created

\* Where nothing is paid out, and what a payment to one wallet makes of it.
LEMMA FirstPayment ==
  ASSUME AppTypeOK, PaysOutOnce, inits <= 1, app.status = "FUNDED", NEW payee \in Accounts, Pay(payee)
  PROVE  paidOut' = [w \in Accounts |-> IF w = payee THEN amount ELSE 0]
  <1>1. \A w \in Accounts : paidOut[w] = 0
    BY DEF PaysOutOnce
  <1>2. amount \in Nat /\ paidOut \in [Accounts -> Nat]
    BY AmountIsNat DEF AppTypeOK
  <1>3. paidOut' = [paidOut EXCEPT ![payee] = paidOut[payee] + amount]
    BY DEF Pay
  <1>4. \A w \in Accounts : paidOut'[w] = IF w = payee THEN amount ELSE 0
    BY <1>1, <1>2, <1>3
  <1>5. paidOut' = [w \in Accounts |-> paidOut'[w]]
    BY <1>2, <1>3
  <1>6. QED
    BY <1>4, <1>5

\* Every call keeps the account of what was paid to whom.
LEMMA NextPaysInv ==
  ASSUME AppTypeOK, PaysInv, [AppNext]_appVars
  PROVE  PaysInv'
  <1>1. /\ app \in App /\ PaysOutOnce /\ Created
        /\ inits \in Nat
    BY DEF AppTypeOK, PaysInv
  <1>2. CASE Seed \/ UNCHANGED appVars
    BY <1>2 DEF Seed, appVars, PaysInv, PaysOutOnce, Created
  <1>3. CASE Fund
    <2>1. app.status = "DEPLOYED" /\ app'.status = "FUNDED"
      BY <1>1, <1>3 DEF Fund, CanFund, Funded, App
    <2>2. inits <= 1 => paidOut = [w \in Accounts |-> 0]
      BY <1>1, <2>1 DEF PaysOutOnce
    <2>3. QED
      BY <1>1, <1>3, <2>1, <2>2 DEF Fund, PaysInv, PaysOutOnce, Created
  <1>4. ASSUME NEW sender \in Accounts, Initialize(sender) PROVE PaysInv'
    <2>1. app'.status = "DEPLOYED" /\ inits' = inits + 1 /\ paidOut' = paidOut
      BY <1>4 DEF Initialize, Initialized
    <2>2. CASE inits = 0
      <3>1. paidOut = [w \in Accounts |-> 0]
        BY <1>1, <2>2 DEF PaysOutOnce, Created
      <3>2. QED
        BY <2>1, <2>2, <3>1 DEF PaysInv, PaysOutOnce, Created
    <2>3. CASE inits # 0
      BY <1>1, <2>1, <2>3 DEF PaysInv, PaysOutOnce, Created
    <2>4. QED
      BY <2>2, <2>3
  <1>5. ASSUME NEW sender \in Accounts, Freeze(sender) \/ Unfreeze(sender)
        PROVE  PaysInv'
    <2>1. /\ app'.status = app.status
          /\ app'.seller = app.seller /\ app'.buyer = app.buyer
      BY <1>1, <1>5 DEF Freeze, Unfreeze, Frozen, Unfrozen, App
    <2>2. UNCHANGED <<amount, inits, paidOut>>
      BY <1>5 DEF Freeze, Unfreeze
    <2>3. QED
      BY <1>1, <2>1, <2>2 DEF PaysInv, PaysOutOnce, Created
  <1>6. ASSUME NEW sender, NEW accounts, Release(sender, accounts) PROVE PaysInv'
    <2>1. /\ app.status = "FUNDED" /\ app'.status = "RELEASED"
          /\ app.seller \in Accounts /\ app'.seller = app.seller
      BY <1>1, <1>6 DEF Release, CanRelease, Released, App
    <2>2. inits <= 1 =>
            paidOut' = [w \in Accounts |-> IF w = app.seller THEN amount ELSE 0]
      BY <1>1, <1>6, <2>1, FirstPayment DEF Release
    <2>3. amount' = amount /\ inits' = inits
      BY <1>6 DEF Release, Pay
    <2>4. QED
      BY <1>1, <2>1, <2>2, <2>3 DEF PaysInv, PaysOutOnce, Created
  <1>7. ASSUME NEW sender, NEW accounts, Refund(sender, accounts) PROVE PaysInv'
    <2>1. /\ app.status = "FUNDED" /\ app'.status = "REFUNDED"
          /\ app.buyer \in Accounts /\ app'.buyer = app.buyer
      BY <1>1, <1>7 DEF Refund, CanRefund, Refunded, App
    <2>2. inits <= 1 =>
            paidOut' = [w \in Accounts |-> IF w = app.buyer THEN amount ELSE 0]
      BY <1>1, <1>7, <2>1, FirstPayment DEF Refund
    <2>3. amount' = amount /\ inits' = inits
      BY <1>7 DEF Refund, Pay
    <2>4. QED
      BY <1>1, <2>1, <2>2, <2>3 DEF PaysInv, PaysOutOnce, Created
  <1>8. QED
    BY <1>2, <1>3, <1>4, <1>5, <1>6, <1>7 DEF AppNext

\* Nothing has been paid before the contract is created.
LEMMA InitPaysInv == AppInit => PaysInv
  BY DEF AppInit, NoContract, PaysInv, PaysOutOnce, Created

\* A contract initialized only once pays its amount at most once, and to the
\* party its status names.
THEOREM PaidOnce == AppSpec => []PaysOutOnce
  <1>1. AppTypeOK /\ PaysInv /\ [AppNext]_appVars => PaysInv'
    BY NextPaysInv
  <1>2. PaysInv => PaysOutOnce
    BY DEF PaysInv
  <1>3. QED
    BY <1>1, <1>2, InitPaysInv, AppTypeCorrect, PTL DEF AppSpec

\* With initialize() accepted only on creation, as the contract's source asks
\* for, the status of a contract never goes back.
THEOREM StatusAdvances ==
  ASSUME MaxInits = 1
  PROVE  AppSpec => StatusOnlyAdvances
  <1> DEFINE Advances ==
        /\ app.status = "FUNDED" => app'.status \in {"FUNDED", "RELEASED", "REFUNDED"}
        /\ app.status \in {"RELEASED", "REFUNDED"} => app'.status = app.status
  <1>1. AppTypeOK /\ PaysInv /\ [AppNext]_appVars => Advances
    <2>1. SUFFICES ASSUME AppTypeOK, PaysInv, [AppNext]_appVars PROVE Advances
      OBVIOUS
    <2>2. app \in App /\ inits \in 0 .. 1 /\ Created
      BY <2>1 DEF AppTypeOK, PaysInv
    <2>3. CASE Seed \/ UNCHANGED appVars
      BY <2>3 DEF Seed, appVars
    <2>4. CASE Fund
      BY <2>4 DEF Fund, CanFund
    <2>5. ASSUME NEW sender \in Accounts, Initialize(sender) PROVE Advances
      BY <2>2, <2>5 DEF Initialize, Created
    <2>6. ASSUME NEW sender \in Accounts, Freeze(sender) \/ Unfreeze(sender)
          PROVE  Advances
      BY <2>2, <2>6 DEF Freeze, Unfreeze, Frozen, Unfrozen, App
    <2>7. ASSUME NEW sender, NEW accounts,
                 Release(sender, accounts) \/ Refund(sender, accounts)
          PROVE  Advances
      BY <2>2, <2>7 DEF Release, Refund, CanRelease, CanRefund, Released, Refunded, App
    <2>8. QED
      BY <2>1, <2>3, <2>4, <2>5, <2>6, <2>7 DEF AppNext
  <1>2. AppTypeOK /\ PaysInv /\ [AppNext]_appVars => [Advances]_appVars
    BY <1>1
  <1>3. AppTypeOK /\ PaysInv /\ [AppNext]_appVars => PaysInv'
    BY NextPaysInv
  <1>4. QED
    BY <1>2, <1>3, InitPaysInv, AppTypeCorrect, PTL DEF AppSpec, StatusOnlyAdvances
=============================================================================
