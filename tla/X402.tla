-------------------------------- MODULE X402 --------------------------------
(***************************************************************************)
(* Pay-per-call access: the dependency in front of the paid endpoints      *)
(* (shared/middleware/x402_payment.py).  A caller asks for a nonce, signs  *)
(* a payment and presents both; the server broadcasts the payment, waits   *)
(* for it, consumes the nonce, records the payment and serves the call.    *)
(* Redis, the chain and the table of payments are three stores that no     *)
(* transaction spans: each access is a step, and a call may die at each.   *)
(***************************************************************************)
EXTENDS Naturals

CONSTANTS Calls,    \* HTTP requests under way
          Nonces,
          Payments, \* signed transactions that pay the platform enough
          NoNonce,
          Note      \* the nonce in the note of a payment, if there is one

ASSUME NoNonceAssumption == NoNonce \notin Nonces
ASSUME NoteAssumption == Note \in [Payments -> Nonces \cup {NoNonce}]

VARIABLES
    nonces,  \* Redis x402:pending:*, and what became of the other nonces
    used,    \* Redis x402:used:*
    chain,   \* the ledger of the network
    paid,    \* table x402_payments
    call,    \* call[c]: where request c is, its payment and its nonce
    served,  \* history: how often a payment bought access
    answered \* history: nonces on which a call was served

paymentVars == <<nonces, used, chain, paid, call, served, answered>>

CallSteps == {"idle", "used", "pending", "broadcast", "confirm", "consume", "mark",
              "record", "serve"}
IdleCalls == [step : {"idle"}]
BusyCalls == [step : CallSteps \ {"idle"}, payment : Payments, nonce : Nonces]
NoCall == [step |-> "idle"]

PaymentTypeOK ==
    /\ nonces \in [Nonces -> {"fresh", "pending", "gone"}]
    /\ used \subseteq Nonces
    /\ chain \in [Payments -> {"unsent", "sent", "confirmed"}]
    /\ paid \subseteq Payments \X Nonces
    /\ call \in [Calls -> IdleCalls \cup BusyCalls]
    /\ served \in [Payments -> Nat]
    /\ answered \subseteq Nonces

PaymentInit ==
    /\ nonces = [n \in Nonces |-> "fresh"]
    /\ used = {}
    /\ chain = [p \in Payments |-> "unsent"]
    /\ paid = {}
    /\ call = [c \in Calls |-> NoCall]
    /\ served = [p \in Payments |-> 0]
    /\ answered = {}

-----------------------------------------------------------------------------
At(c, step) == call[c].step = step
GoTo(c, step) == call' = [call EXCEPT ![c].step = step]
Refuse(c) == call' = [call EXCEPT ![c] = NoCall]   \* HTTP 402

\* A call without payment is answered with a fresh nonce; storing it may fail.
_raise_402(n) ==
    /\ nonces[n] = "fresh"
    /\ \E state \in {"pending", "gone"} : nonces' = [nonces EXCEPT ![n] = state]
    /\ UNCHANGED <<used, chain, paid, call, served, answered>>

Present(c, p, n) ==
    /\ At(c, "idle")
    /\ call' = [call EXCEPT ![c] = [step |-> "used", payment |-> p, nonce |-> n]]
    /\ UNCHANGED <<nonces, used, chain, paid, served, answered>>

RejectReplay(c) ==
    /\ At(c, "used")
    /\ IF call[c].nonce \in used THEN Refuse(c) ELSE GoTo(c, "pending")
    /\ UNCHANGED <<nonces, used, chain, paid, served, answered>>

\* Mutant: an unknown nonce is tolerated, as its storing may have failed.
TolerateUnknown(c) ==
    /\ At(c, "pending")
    /\ IF nonces[call[c].nonce] # "fresh"
       THEN GoTo(c, "broadcast") ELSE Refuse(c)
    /\ UNCHANGED <<nonces, used, chain, paid, served, answered>>

\* The nonce must be known, and the note must not name another one.
CheckPending(c) ==
    /\ At(c, "pending")
    /\ IF nonces[call[c].nonce] = "pending" /\ Note[call[c].payment] \in {NoNonce, call[c].nonce}
       THEN GoTo(c, "broadcast") ELSE Refuse(c)
    /\ UNCHANGED <<nonces, used, chain, paid, served, answered>>

\* Mutant: a payment the network knows already counts as sent.
BroadcastAgain(c) ==
    /\ At(c, "broadcast")
    /\ \/ /\ chain' = [chain EXCEPT ![call[c].payment] = IF @ = "unsent" THEN "sent" ELSE @]
          /\ GoTo(c, "confirm")
       \/ Refuse(c) /\ UNCHANGED chain
    /\ UNCHANGED <<nonces, used, paid, served, answered>>

\* send_raw_transaction: the network takes a transaction once, and its answer
\* may be lost.
Broadcast(c) ==
    /\ At(c, "broadcast")
    /\ \/ /\ chain[call[c].payment] = "unsent"
          /\ chain' = [chain EXCEPT ![call[c].payment] = "sent"]
          /\ GoTo(c, "confirm") \/ Refuse(c)
       \/ Refuse(c) /\ UNCHANGED chain
    /\ UNCHANGED <<nonces, used, paid, served, answered>>

Confirm(p) ==
    /\ chain[p] = "sent"
    /\ chain' = [chain EXCEPT ![p] = "confirmed"]
    /\ UNCHANGED <<nonces, used, paid, call, served, answered>>

\* wait_for_confirmation: or no answer within ten rounds, although the payment
\* may be confirmed later.
Confirmed(c) ==
    /\ At(c, "confirm")
    /\ \/ chain[call[c].payment] = "confirmed" /\ GoTo(c, "consume")
       \/ Refuse(c)
    /\ UNCHANGED <<nonces, used, chain, paid, served, answered>>

Consume(c) ==
    /\ At(c, "consume")
    /\ nonces' = [nonces EXCEPT ![call[c].nonce] = "gone"]
    /\ GoTo(c, "mark")
    /\ UNCHANGED <<used, chain, paid, served, answered>>

MarkUsed(c) ==
    /\ At(c, "mark")
    /\ used' = used \cup {call[c].nonce}
    /\ GoTo(c, "record")
    /\ UNCHANGED <<nonces, chain, paid, served, answered>>

\* tx_id and nonce are UNIQUE; a failed insert is rolled back and ignored.
Record(c) ==
    /\ At(c, "record")
    /\ \/ /\ \A r \in paid : r[1] # call[c].payment /\ r[2] # call[c].nonce
          /\ paid' = paid \cup {<<call[c].payment, call[c].nonce>>}
       \/ UNCHANGED paid
    /\ GoTo(c, "serve")
    /\ UNCHANGED <<nonces, used, chain, served, answered>>

Serve(c) ==
    /\ At(c, "serve")
    /\ served' = [served EXCEPT ![call[c].payment] = @ + 1]
    /\ answered' = answered \cup {call[c].nonce}
    /\ call' = [call EXCEPT ![c] = NoCall]
    /\ UNCHANGED <<nonces, used, chain, paid>>

\* The worker dies, or Redis fails the call.
Fail(c) ==
    /\ ~At(c, "idle")
    /\ call' = [call EXCEPT ![c] = NoCall]
    /\ UNCHANGED <<nonces, used, chain, paid, served, answered>>

\* Time to live: the mark on a used nonce is given a minute more than the nonce.
Expire(n) ==
    /\ nonces[n] = "pending"
    /\ nonces' = [nonces EXCEPT ![n] = "gone"]
    /\ UNCHANGED <<used, chain, paid, call, served, answered>>

ExpireMark(n) ==
    /\ n \in used
    /\ nonces[n] # "pending"
    /\ used' = used \ {n}
    /\ UNCHANGED <<nonces, chain, paid, call, served, answered>>

_validate_payment(c) ==
    \/ RejectReplay(c) \/ CheckPending(c) \/ Broadcast(c) \/ Confirmed(c)
    \/ Consume(c) \/ MarkUsed(c) \/ Record(c) \/ Serve(c) \/ Fail(c)

PaymentNext ==
    \/ \E n \in Nonces : _raise_402(n) \/ Expire(n) \/ ExpireMark(n)
    \/ \E p \in Payments : Confirm(p)
    \/ \E c \in Calls : \/ \E p \in Payments, n \in Nonces : Present(c, p, n)
                        \/ _validate_payment(c)

PaymentSpec == PaymentInit /\ [][PaymentNext]_paymentVars

-----------------------------------------------------------------------------
\* A payment buys access at most once, and none that is not on the chain; the
\* table holds no other payments, and each under one nonce.  Calls may present
\* one payment side by side, again after a timeout, or under a second nonce.
OneAccessPerPayment ==
    /\ \A p \in Payments : served[p] <= 1 /\ (served[p] > 0 => chain[p] = "confirmed")
    /\ \A r \in paid : chain[r[1]] = "confirmed" /\ nonces[r[2]] = "gone"
    /\ \A r, q \in paid : (r[1] = q[1] \/ r[2] = q[2]) => r = q

\* Once a nonce has served a call no other payment is charged under it, unless
\* the call that presents it passed its checks before: the mark may long have
\* expired.
NoChargeOnceServed ==
    [][\A c \in Calls : At(c, "pending") /\ call'[c].step = "broadcast"
            => call[c].nonce \notin answered]_paymentVars
=============================================================================
