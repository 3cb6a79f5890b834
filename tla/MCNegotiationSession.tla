------------------------ MODULE MCNegotiationSession ------------------------
(***************************************************************************)
(* For TLC: the turns of a negotiation in two markets, one with a zone of  *)
(* agreement and an urgent delivery, and the strategies on small prices.   *)
(* Other behaviours are about the page that follows a session, of which it *)
(* sees the number of offers and the status: there the session rests.      *)
(***************************************************************************)
EXTENDS NegotiationSession, LiveStream

VARIABLE area

roomVars == <<vars, liveVars, area>>

MCMarkets ==
    {[ceiling |-> 50, buyerTarget |-> 40, floor |-> 45, sellerTarget |-> 50,
      marginPrice |-> 50, horizon |-> 3],
     [ceiling |-> 40, buyerTarget |-> 32, floor |-> 45, sellerTarget |-> 50,
      marginPrice |-> 50, horizon |-> 4]}

RoomInit ==
    /\ area \in {"turns", "page"}
    /\ Init
    /\ area = "page" => row = NewRow("SELLER_ANCHOR") /\ market = CHOOSE m \in Markets : TRUE
    /\ LiveStart(area = "page")

RoomNext ==
    /\ UNCHANGED area
    /\ \/ area = "turns" /\ Next /\ UNCHANGED liveVars
       \/ area = "page" /\ LiveNext /\ UNCHANGED vars

\* No fair step of a part is enabled where it rests.
RoomSpec == RoomInit /\ [][RoomNext]_roomVars /\ Fairness /\ LiveFairness

\* Valuations of both sides for small orders, as layer 1 makes them.
MCValuations(is_buyer) ==
    IF is_buyer
    THEN {compute_buyer_valuation_from_rfq(b, a) : b \in {1, 7, 100}, a \in {"LOW", "HIGH"}}
    ELSE {compute_seller_valuation_from_catalogue(p, f) : p \in {1, 7, 100}, f \in {0, 10, 100}}

MCContexts(is_buyer) ==
    {c \in [round : {0, 1, 2, 6, 9, 12, 14}, horizon : {3, 8, 15}, mine : {0, 6, 98},
            other : {0, 7, 95, 130}, valuation : MCValuations(is_buyer),
            flexibility : {10, 40, 60, 80}, stall : {0, 2, 3}, ramp : {0, 333, 1000},
            is_buyer : {is_buyer}, opponent_type : OpponentTypes] :
        c.ramp = 0 \/ c.round = 12}

ASSUME StrategiesChecked ==
    \A is_buyer \in BOOLEAN : \A c \in MCContexts(is_buyer) :
        /\ Ordered(c.valuation, is_buyer)
        /\ WithinReservation(c)
        /\ WithinPositions(c)
=============================================================================
