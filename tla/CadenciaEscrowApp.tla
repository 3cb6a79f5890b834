-------------------------- MODULE CadenciaEscrowApp --------------------------
(***************************************************************************)
(* One application of the escrow contract on the chain: its global state,  *)
(* the balance of its account, and what it has paid out, under calls that  *)
(* any account may send in any order.                                      *)
(***************************************************************************)
EXTENDS Naturals, CadenciaEscrow

CONSTANTS Amounts,     \* amounts a deal can have, in micro-ALGO
          MinBalance,  \* the balance the chain keeps an account from spending
          MaxSeeds,    \* bound on plain payments to the application
          MaxInits     \* bound on initialize() calls, the creation included: 1
                       \* when the program accepts it only on creation

ASSUME AmountsAssumption ==
    Amounts \subseteq Nat \ {0} /\ MinBalance \in Nat \ {0} /\ MaxSeeds \in Nat
ASSUME MaxInitsAssumption == MaxInits \in Nat \ {0}

VARIABLES app,      \* global state except the amount
          amount,   \* global state: amount
          balance,  \* balance of the application's account
          inits,    \* initialize() calls that took effect
          seeds,    \* plain payments received
          paidOut   \* paidOut[w]: what the contract has paid to w

appVars == <<app, amount, balance, inits, seeds, paidOut>>

AppTypeOK ==
    /\ app \in App
    /\ amount \in Amounts \cup {0}
    /\ balance \in Nat
    /\ inits \in 0 .. MaxInits
    /\ seeds \in 0 .. MaxSeeds
    /\ paidOut \in [Accounts -> Nat]

AppInit ==
    /\ app = NoContract
    /\ amount = 0
    /\ balance = 0
    /\ inits = 0
    /\ seeds = 0
    /\ paidOut = [w \in Accounts |-> 0]

\* The creation call.  The router of the approval program accepts initialize()
\* on later calls too; its own check is that the sender is the creator.
Initialize(sender) ==
    /\ inits < MaxInits
    /\ app.status # "ABSENT" => sender = app.creator
    /\ \E b \in {"buyer", "platform"}, s \in {"seller", "platform"} :
          app' = Initialized(sender, b, s)
    /\ amount' \in Amounts
    /\ inits' = inits + 1
    /\ UNCHANGED <<balance, seeds, paidOut>>

\* The gateway seeds the minimum balance after a deployment, and the wallet
\* does so again in the group of a release or refund.
Seed ==
    /\ app.status # "ABSENT"
    /\ seeds < MaxSeeds
    /\ seeds' = seeds + 1
    /\ balance' = balance + MinBalance
    /\ UNCHANGED <<app, amount, inits, paidOut>>

\* Mutant: fund() without the check of the payment's amount.
FundAnyPayment ==
    /\ CanFund(app)
    /\ app' = Funded(app)
    /\ \E payment \in 1 .. amount : balance' = balance + payment
    /\ UNCHANGED <<amount, inits, seeds, paidOut>>

\* Atomic group: a payment of exactly the amount, and fund().
Fund ==
    /\ CanFund(app)
    /\ app' = Funded(app)
    /\ balance' = balance + amount
    /\ UNCHANGED <<amount, inits, seeds, paidOut>>

\* Mutant: an inner payment that the balance does not limit.
PayUnlimited(payee) ==
    /\ balance' = balance - amount - MinBalance
    /\ paidOut' = [paidOut EXCEPT ![payee] = @ + amount]
    /\ UNCHANGED <<amount, inits, seeds>>

\* The inner payment of the whole amount; the minimum balance must remain.
Pay(payee) ==
    /\ balance >= amount + MinBalance
    /\ balance' = balance - amount
    /\ paidOut' = [paidOut EXCEPT ![payee] = @ + amount]
    /\ UNCHANGED <<amount, inits, seeds>>

Release(sender, accounts) ==
    /\ CanRelease(app, sender, accounts)
    /\ app' = Released(app)
    /\ Pay(app.seller)

Refund(sender, accounts) ==
    /\ CanRefund(app, sender, accounts)
    /\ app' = Refunded(app)
    /\ Pay(app.buyer)

Freeze(sender) ==
    /\ CanFreeze(app, sender)
    /\ app' = Frozen(app)
    /\ UNCHANGED <<amount, balance, inits, seeds, paidOut>>

Unfreeze(sender) ==
    /\ CanUnfreeze(app, sender)
    /\ app' = Unfrozen(app)
    /\ UNCHANGED <<amount, balance, inits, seeds, paidOut>>

AppNext ==
    \/ Seed \/ Fund
    \/ \E sender \in Accounts :
          \/ Initialize(sender) \/ Freeze(sender) \/ Unfreeze(sender)
          \/ \E accounts \in SUBSET Accounts :
                Release(sender, accounts) \/ Refund(sender, accounts)

AppSpec == AppInit /\ [][AppNext]_appVars

-----------------------------------------------------------------------------
\* A funded contract can pay: the account holds the amount, whoever called
\* what in between.
SolventWhenFunded == app.status = "FUNDED" => balance >= amount

\* A contract that its creator has not initialized a second time pays its amount
\* exactly once, to the seller when it ends RELEASED and to the buyer when it
\* ends REFUNDED, and nothing before.
PaysOutOnce ==
    inits <= 1 =>
        paidOut = [w \in Accounts |->
                  IF \/ app.status = "RELEASED" /\ w = app.seller
                     \/ app.status = "REFUNDED" /\ w = app.buyer
                  THEN amount ELSE 0]

\* Between a freeze and the creator's unfreeze no money leaves the contract.
FrozenPaysNothing == [][app.frozen => paidOut' = paidOut]_appVars

\* Money that reached a contract is not forgotten: the status never goes back.
StatusOnlyAdvances ==
    [][/\ app.status = "FUNDED" => app'.status \in {"FUNDED", "RELEASED", "REFUNDED"}
       /\ app.status \in {"RELEASED", "REFUNDED"} => app'.status = app.status]_appVars
=============================================================================
