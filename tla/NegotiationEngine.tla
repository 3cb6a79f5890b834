-------------------------- MODULE NegotiationEngine --------------------------
(***************************************************************************)
(* One turn of the neutral engine, as operators: from the session as it    *)
(* was read, the price the strategy suggests and what the language model   *)
(* answers, to the offer, the marks in its text, whether the engine calls  *)
(* the turn terminal, and the counters it changed.  Prices are in units of *)
(* Rs 2,500, the finest quantum of the engine's rounding.                  *)
(***************************************************************************)
EXTENDS Strategy, Sequences

CONSTANTS MaxRounds,          \* MAX_ROUNDS, 15
          StallRounds,        \* STALL_ROUNDS, 3
          MaxSchemaFailures,  \* MAX_SCHEMA_FAILURES, 3
          HardGapRound,       \* 4: the round from which a wide gap ends the talks
          Prices,             \* prices the strategy and the model may name
          Marks               \* words of the dispatch a model's text may hold

ASSUME RoundsAssumption ==
    /\ MaxRounds \in Nat \ {0}
    /\ StallRounds \in Nat \ {0}
    /\ MaxSchemaFailures \in Nat \ {0}
    /\ HardGapRound \in Nat
ASSUME PricesAssumption == Prices \subseteq Nat \ {0}

Roles == {"BUYER", "SELLER"}
Opponent(role) == IF role = "BUYER" THEN "SELLER" ELSE "BUYER"

ActiveStatuses == {"INIT", "SELLER_ANCHOR", "BUYER_RESPONSE", "BUYER_ANCHOR",
                   "SELLER_RESPONSE", "ROUND_LOOP", "ACTIVE"}
TerminalStatuses == {"AGREED", "WALK_AWAY", "TIMEOUT", "POLICY_BREACH", "FAILED",
                     "EXPIRED", "CLOSED_BY_BUYER"}

\* STALLED is passed through within one transaction and is never stored.
Statuses == ActiveStatuses \cup TerminalStatuses \cup {"HUMAN_REVIEW"}

-----------------------------------------------------------------------------
\* A session as loaded: its row and its offers, ordered by round number and,
\* within a round, as inserted.
LastOffer(offers, roles) ==
    LET Of == {i \in DOMAIN offers : offers[i].role \in roles}
    IN  CHOOSE i \in Of : \A j \in Of :
            \/ offers[j].round < offers[i].round
            \/ offers[j].round = offers[i].round /\ j <= i

LastPrice(offers, role) ==
    IF \E i \in DOMAIN offers : offers[i].role = role
    THEN offers[LastOffer(offers, {role})].price
    ELSE NoPrice

\* Mutant: whoever came first in the last round is taken for the last speaker,
\* as an unsorted list of offers would have it.
FirstProposer(s) ==
    IF s.offers # <<>> THEN Opponent(s.offers[1].role)
    ELSE IF s.row.status = "BUYER_ANCHOR" THEN "BUYER" ELSE "SELLER"

next_proposer(s) ==
    IF s.offers # <<>> THEN Opponent(s.offers[LastOffer(s.offers, Roles)].role)
    ELSE IF s.row.status = "BUYER_ANCHOR" THEN "BUYER" ELSE "SELLER"

-----------------------------------------------------------------------------
\* Layers 1 and 2 are in Strategy; here, the range they are proved to stay in:
\* within the reservation, and not past the opening, one's own last price and
\* the opponent's.
Suggestions(m, s, role) ==
    LET mine == LastPrice(s.offers, role)
        other == LastPrice(s.offers, Opponent(role))
    IN  {p \in Prices :
            IF role = "SELLER"
            THEN /\ m.floor <= p
                 /\ 10 * p <= 11 * m.sellerTarget \/ p <= mine \/ p <= other
            ELSE /\ p <= m.ceiling
                 /\ \/ 100 * p >= 95 * m.buyerTarget
                    \/ mine # NoPrice /\ p >= mine
                    \/ other # NoPrice /\ p >= other}

\* Layer 3: an answer that fails the schema is INVALID; OFFER is also COUNTER.
generate_offer ==
    [action : {"OFFER", "ACCEPT", "REJECT", "INVALID"}, price : Prices,
     marks : {{}} \cup {{mark} : mark \in Marks}]

\* Layer 4: the veto, and the band of three per cent around the suggestion.
Vetoed(m, role, price) ==
    IF role = "BUYER" THEN price > m.ceiling
    ELSE price < m.floor \/ price < m.marginPrice

GuardedPrice(m, role, suggested, price) ==
    IF \/ Vetoed(m, role, price)
       \/ 100 * price < 97 * suggested
       \/ 100 * price > 103 * suggested
    THEN suggested
    ELSE price

\* The clamps: ceiling and target of the buyer, no retreat from one's last
\* price, floor of the seller.
ClampedPrice(m, role, mine, price) ==
    IF role = "BUYER"
    THEN Greater(mine, Greater(m.buyerTarget, Lesser(price, m.ceiling)))
    ELSE Greater(m.floor, IF mine = NoPrice THEN price ELSE Lesser(mine, price))

Crosses(role, price, other) ==
    /\ other # NoPrice
    /\ IF role = "BUYER" THEN price >= other ELSE price <= other

\* The price rounded half up to a quantum that shrinks with the rounds used of
\* those that the urgency of the delivery leaves (3 when critical).  Nothing but
\* prices depends on that horizon: offers are taken up to MaxRounds.
Quantum(round, horizon) ==
    IF 100 * round < 20 * horizon THEN 10
    ELSE IF 100 * round < 60 * horizon THEN 4
    ELSE IF 100 * round < 85 * horizon THEN 2
    ELSE 1

apply_negotiation_rounding(price, round, horizon) ==
    LET q == Quantum(round, horizon) IN Greater(1, ((2 * price + q) \div (2 * q)) * q)

RoundedPrice(m, role, price, round) ==
    LET rounded == apply_negotiation_rounding(price, round, m.horizon)
    IN  IF role = "SELLER" THEN Greater(rounded, m.floor)
        ELSE Lesser(rounded, m.ceiling)

-----------------------------------------------------------------------------
\* A move counts as a concession from 1% and Rs 5,000 on.
TrackConcession(row, mine, price) ==
    LET d == Distance(price, mine)
    IN  IF mine = NoPrice \/ (100 * d >= mine /\ d >= 2)
        THEN [row EXCEPT !.stall = 0]
        ELSE [row EXCEPT !.stall = @ + 1]

\* Within 3.5%; the auto-settle of a gap below 1% is within it.
check_convergence(bid, ask) ==
    /\ bid # NoPrice
    /\ ask # NoPrice
    /\ 1000 * Distance(bid, ask) <= 35 * Greater(bid, ask)

\* More than 25% apart, on the prices recorded before this turn.
HardGap(s) ==
    LET bid == LastPrice(s.offers, "BUYER")
        ask == LastPrice(s.offers, "SELLER")
    IN  /\ s.row.round >= HardGapRound
        /\ bid # NoPrice
        /\ ask # NoPrice
        /\ 4 * Distance(bid, ask) > Greater(bid, ask)

\* Mutant: the step that ends a stall goes half the way whatever one can pay.
HalfwayAnyhow(m, role, mine, other) == (mine + other) \div 2

\* Half the way to the opponent's last price: who is to move has an opponent
\* with a price, because that opponent moved last.
UnfreezePrice(m, role, mine, other) ==
    LET halfway == (mine + other) \div 2
    IN  IF role = "BUYER" THEN Lesser(halfway, m.ceiling)
        ELSE Greater(halfway, m.floor)

Turn(price, marks, terminal, row) ==
    [price |-> price, marks |-> marks, terminal |-> terminal, row |-> row]

\* Mutant: the recovery forgets to reset the stall counter.
RecoveredKeepsStall(row) == [row EXCEPT !.recovery = TRUE, !.schema = 0]

\* The counters after the one unfreeze move of a session.
Recovered(row) ==
    [row EXCEPT !.recovery = TRUE, !.stall = 0, !.schema = 0]

\* Mutant: the round limit is tested on the rounds before this one.
OutOfRoundsLate(row) == row.round >= MaxRounds

\* This offer is the last one add_offer will take.
OutOfRounds(row) == row.round + 1 >= MaxRounds

\* The end tests of an offer that neither accepts, rejects nor crosses.  The
\* midpoint of a convergence is computed after the offer was made, and the
\* offer keeps its own price.
EndTests(m, s, role, price, marks) ==
    LET mine == LastPrice(s.offers, role)
        other == LastPrice(s.offers, Opponent(role))
        row == TrackConcession(s.row, mine, price)
    IN  IF check_convergence(price, other) THEN Turn(price, marks, TRUE, row)
        ELSE IF HardGap(s) THEN Turn(price, {"WALK_AWAY"}, TRUE, row)
        ELSE IF row.stall >= StallRounds
        THEN IF row.recovery
             THEN Turn(price, marks \cup {"STALL_TERMINAL"}, TRUE, row)
             ELSE Turn(UnfreezePrice(m, role, mine, other), {}, FALSE, Recovered(row))
        ELSE IF OutOfRounds(row) THEN Turn(price, marks \cup {"MAX_ROUNDS"}, TRUE, row)
        ELSE Turn(price, marks, FALSE, row)

\* A model's ACCEPT takes the other side's price past every guardrail.
Move(m, s, suggested, out) ==
    LET role == next_proposer(s)
        mine == LastPrice(s.offers, role)
        other == LastPrice(s.offers, Opponent(role))
        price == ClampedPrice(m, role, mine,
                              GuardedPrice(m, role, suggested, out.price))
    IN  CASE out.action = "ACCEPT" ->
                Turn(IF other = NoPrice THEN out.price ELSE other, out.marks, TRUE, s.row)
          [] out.action = "REJECT" ->
                Turn(out.price, out.marks \cup {"REJECT"}, TRUE, s.row)
          [] out.action = "OFFER" /\ Crosses(role, price, other) ->
                Turn(IF role = "BUYER" THEN other ELSE price, {}, TRUE, s.row)
          [] OTHER ->
                EndTests(m, s, role, RoundedPrice(m, role, price, s.row.round), out.marks)

\* The first turn looks for a zone of agreement; answers that fail the schema
\* are replaced by the suggestion until they are too many.
process_turn(m, s, suggested, out) ==
    LET row == [s.row EXCEPT !.schema = @ + 1]
    IN  IF s.row.round = 0 /\ m.ceiling < m.floor
        THEN Turn(m.sellerTarget, {"WALK_AWAY"}, TRUE, s.row)
        ELSE IF out.action # "INVALID" THEN Move(m, s, suggested, out)
        ELSE IF row.schema >= MaxSchemaFailures
        THEN Turn(1, {"POLICY_BREACH"}, TRUE, row)
        ELSE Move(m, [s EXCEPT !.row = row], suggested,
                  [action |-> "OFFER", price |-> suggested, marks |-> {}])
=============================================================================
