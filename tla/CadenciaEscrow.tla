--------------------------- MODULE CadenciaEscrow ---------------------------
(***************************************************************************)
(* The methods of the on-chain escrow contract (contracts/escrow_contract  *)
(* .py and the approval program compiled from it), as operators on the     *)
(* global state of one application.  Each deal gets an application of its  *)
(* own (AlgorandGateway.deploy_escrow).  The amount is left out here: one  *)
(* deal has one amount, and fund() asserts that the payment equals it.     *)
(* CadenciaEscrowApp models amounts and balances.                          *)
(***************************************************************************)

\* The accounts that sign contract calls or are paid by the contract.  The
\* deployer of a wallet-signed ("Pera") deployment is the buyer.
Accounts == {"buyer", "seller", "platform"}

\* The values of the `status` global state; ABSENT is an application id that
\* has not been created.
AppStatus == {"ABSENT", "DEPLOYED", "FUNDED", "RELEASED", "REFUNDED"}

App == [status : AppStatus, frozen : BOOLEAN,
        creator : Accounts, buyer : Accounts, seller : Accounts]

NoContract == [status |-> "ABSENT", frozen |-> FALSE,
               creator |-> "platform", buyer |-> "buyer", seller |-> "seller"]

\* initialize(): the creation call stores the parties and starts DEPLOYED.
Initialized(creator, buyer, seller) ==
    [status |-> "DEPLOYED", frozen |-> FALSE,
     creator |-> creator, buyer |-> buyer, seller |-> seller]

\* Mutant: fund() without the check of the status.
CanFundAgain(c) == c.status # "ABSENT" /\ ~c.frozen

CanFund(c) == c.status = "DEPLOYED" /\ ~c.frozen

Funded(c) == [c EXCEPT !.status = "FUNDED"]

\* An inner payment reaches only an account the AVM can see: the sender of the
\* call or a member of its foreign accounts array.
Available(sender, accounts, payee) == payee \in accounts \cup {sender}

\* Mutant: release() without the check of the status.
CanReleaseAgain(c, sender, accounts) ==
    /\ sender = c.creator
    /\ c.status # "ABSENT"
    /\ ~c.frozen
    /\ Available(sender, accounts, c.seller)

CanRelease(c, sender, accounts) ==
    /\ sender = c.creator
    /\ c.status = "FUNDED"
    /\ ~c.frozen
    /\ Available(sender, accounts, c.seller)

Released(c) == [c EXCEPT !.status = "RELEASED"]

\* Mutant: refund() without the check of the status.
CanRefundAgain(c, sender, accounts) ==
    /\ sender = c.creator
    /\ c.status # "ABSENT"
    /\ ~c.frozen
    /\ Available(sender, accounts, c.buyer)

\* Mutant: refund() without the check of the freeze.
CanRefundFrozen(c, sender, accounts) ==
    /\ sender = c.creator
    /\ c.status = "FUNDED"
    /\ Available(sender, accounts, c.buyer)

CanRefund(c, sender, accounts) ==
    /\ sender = c.creator
    /\ c.status = "FUNDED"
    /\ ~c.frozen
    /\ Available(sender, accounts, c.buyer)

Refunded(c) == [c EXCEPT !.status = "REFUNDED"]

CanFreeze(c, sender) ==
    c.status # "ABSENT" /\ sender \in {c.buyer, c.seller, c.creator}

Frozen(c) == [c EXCEPT !.frozen = TRUE]

CanUnfreeze(c, sender) ==
    c.status # "ABSENT" /\ sender = c.creator /\ c.frozen

Unfrozen(c) == [c EXCEPT !.frozen = FALSE]
=============================================================================
