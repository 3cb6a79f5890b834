---------------------------- MODULE EscrowLedger ----------------------------
(***************************************************************************)
(* What the settlement of a deal promises, without requests, workers or    *)
(* lost replies.  The deal's applications carry money once, in one         *)
(* direction; the book makes a claim about that money; a claim may be late *)
(* (the book lags the chain) but never ahead of the chain, and each        *)
(* release is entered in the settlements once.                             *)
(***************************************************************************)
EXTENDS Naturals

CONSTANT Apps

VARIABLES funds,     \* funds[a]: where the money of application a is
          claim,     \* what the book says
          receipts   \* receipts[a]: settlement rows for the release of a

ledger == <<funds, claim, receipts>>

\* "empty": created and not funded.  "held": in the contract's account.
Places == {"absent", "empty", "held", "released", "refunded"}

Claims == {"none", "deployed", "funded", "released", "refunded"}

\* The places that bear out each claim: a claim stays true as money moves on,
\* except that money released or refunded has come to rest.
Proof == [none |-> Places,
          deployed |-> Places \ {"absent"},
          funded |-> {"held", "released", "refunded"},
          released |-> {"released"},
          refunded |-> {"refunded"}]

Backed(c) == c = "none" \/ \E a \in Apps : funds[a] \in Proof[c]

Init ==
    /\ funds = [a \in Apps |-> "absent"]
    /\ claim = "none"
    /\ receipts = [a \in Apps |-> 0]

Move(a, from, to) ==
    /\ funds[a] = from
    /\ funds' = [funds EXCEPT ![a] = to]
    /\ UNCHANGED <<claim, receipts>>

Create(a) == Move(a, "absent", "empty")

Pay(a) == Move(a, "empty", "held")

Release(a) == Move(a, "held", "released")

Refund(a) == Move(a, "held", "refunded")

\* The book takes a claim that is already true.
Enter(c) ==
    /\ Backed(c)
    /\ claim' = c
    /\ UNCHANGED <<funds, receipts>>

\* The book enters a release together with its one settlement row.
Settle(a) ==
    /\ funds[a] = "released"
    /\ receipts[a] = 0
    /\ claim' = "released"
    /\ receipts' = [receipts EXCEPT ![a] = 1]
    /\ UNCHANGED funds

Next ==
    \/ \E a \in Apps : Create(a) \/ Pay(a) \/ Release(a) \/ Refund(a) \/ Settle(a)
    \/ \E c \in Claims : Enter(c)

Spec == Init /\ [][Next]_ledger
=============================================================================
