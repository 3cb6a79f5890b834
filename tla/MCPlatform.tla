----------------------------- MODULE MCPlatform -----------------------------
(***************************************************************************)
(* Parts of the platform that share no state, in one run: each behaviour   *)
(* is one of the payments, of the accounts, of the purchase orders, of the *)
(* embeddings or of one escrow contract, while the others rest.            *)
(***************************************************************************)
EXTENDS X402, Enterprises, PurchaseOrders, CapabilityEmbedding,
        CadenciaEscrowApp, TLC

VARIABLE area

CONSTANTS p1, p2, n1, n2

\* p1 was signed for the nonce n1 and names it in its note, p2 names none.
MCNote == p1 :> n1 @@ p2 :> NoNonce

MCAmounts == {2, 5}

vars == <<paymentVars, enterpriseVars, orderVars, embeddingVars, appVars, area>>

Init ==
    /\ PaymentInit /\ EnterpriseInit /\ OrderInit /\ EmbeddingInit /\ AppInit
    /\ area \in {"payments", "accounts", "orders", "embeddings", "contract"}

Next ==
    /\ UNCHANGED area
    /\ \/ /\ area = "payments" /\ PaymentNext
          /\ UNCHANGED <<enterpriseVars, orderVars, embeddingVars, appVars>>
       \/ /\ area = "accounts" /\ EnterpriseNext
          /\ UNCHANGED <<paymentVars, orderVars, embeddingVars, appVars>>
       \/ /\ area = "orders" /\ OrderNext
          /\ UNCHANGED <<paymentVars, enterpriseVars, embeddingVars, appVars>>
       \/ /\ area = "embeddings" /\ EmbeddingNext
          /\ UNCHANGED <<paymentVars, enterpriseVars, orderVars, appVars>>
       \/ /\ area = "contract" /\ AppNext
          /\ UNCHANGED <<paymentVars, enterpriseVars, orderVars, embeddingVars>>

Spec == Init /\ [][Next]_vars

\* One set of names serves the calls, the requests and the recomputes, another
\* the firms and the goods: no two of them are in use in one behaviour, but for
\* the requests and the firms.
Interchangeable == Permutations(Requests) \cup Permutations(Firms)
=============================================================================
