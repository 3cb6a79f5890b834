--------------------------- MODULE PurchaseOrders ---------------------------
(***************************************************************************)
(* Purchase orders (procurement/application/services.py), written by the   *)
(* handler of EscrowReleased and by POST /v1/procurement/generate: the     *)
(* number is the count of the orders plus one, read some queries after the *)
(* test for an order of the deal and some before the insert.  The year is  *)
(* part of the number; the orders here are those of one year.              *)
(***************************************************************************)
EXTENDS Naturals, FiniteSets

CONSTANTS Clerks, \* handlers and requests
          Deals,  \* sessions that are AGREED or CLOSED_BY_BUYER
          MaxOrders \* bound of the model

ASSUME MaxOrdersAssumption == MaxOrders \in Nat

VARIABLES orders, \* table procurement_documents: number and deal
          clerk   \* clerk[c]: the step of generate_po, its deal and number

orderVars == <<orders, clerk>>

Order == [number : Nat \ {0}, deal : Deals]
IdleClerks == [step : {"idle"}]
BusyClerks ==
    [step : {"count"}, deal : Deals]
    \cup [step : {"insert"}, deal : Deals, number : Nat \ {0}]
NoWork == [step |-> "idle"]

OrderTypeOK ==
    /\ orders \subseteq Order
    /\ clerk \in [Clerks -> IdleClerks \cup BusyClerks]

OrderInit ==
    /\ orders = {}
    /\ clerk = [c \in Clerks |-> NoWork]

-----------------------------------------------------------------------------
\* Two clerks may pass this test for the same deal.
generate_po(c, d) ==
    /\ clerk[c].step = "idle"
    /\ \A o \in orders : o.deal # d
    /\ Cardinality(orders) < MaxOrders
    /\ clerk' = [clerk EXCEPT ![c] = [step |-> "count", deal |-> d]]
    /\ UNCHANGED orders

_generate_po_number(c) ==
    /\ clerk[c].step = "count"
    /\ clerk' = [clerk EXCEPT ![c] = [step |-> "insert", deal |-> clerk[c].deal,
                                      number |-> Cardinality(orders) + 1]]
    /\ UNCHANGED orders

\* Mutant: no UNIQUE on po_number.
InsertAnyNumber(c) ==
    /\ clerk[c].step = "insert"
    /\ orders' = orders \cup {[number |-> clerk[c].number, deal |-> clerk[c].deal]}
    /\ clerk' = [clerk EXCEPT ![c] = NoWork]

\* po_number is UNIQUE: of two equal numbers the second insert fails, and with
\* it the order of that clerk's deal.
InsertOrder(c) ==
    /\ clerk[c].step = "insert"
    /\ orders' = IF \E o \in orders : o.number = clerk[c].number THEN orders
                 ELSE orders \cup {[number |-> clerk[c].number, deal |-> clerk[c].deal]}
    /\ clerk' = [clerk EXCEPT ![c] = NoWork]

FailClerk(c) ==
    /\ clerk[c].step # "idle"
    /\ clerk' = [clerk EXCEPT ![c] = NoWork]
    /\ UNCHANGED orders

OrderNext ==
    \E c \in Clerks :
        \/ \E d \in Deals : generate_po(c, d)
        \/ _generate_po_number(c) \/ InsertOrder(c) \/ FailClerk(c)

OrderSpec == OrderInit /\ [][OrderNext]_orderVars

-----------------------------------------------------------------------------
\* The orders are numbered 1, 2, 3, ... with no number twice and none left out,
\* although every number comes from a count that may be stale when it is used,
\* and clerks die on the way.
OrdersNumbered ==
    /\ \A o, q \in orders : o.number = q.number => o = q
    /\ {o.number : o \in orders} = 1..Cardinality(orders)
=============================================================================
