------------------------------- MODULE Strategy -------------------------------
(***************************************************************************)
(* Layers 1 and 2 of the negotiation engine, as operators: what an order   *)
(* is worth to a side, and the price its strategy suggests for the turn.   *)
(* Prices are in hundredths of a rupee, the precision the code rounds to;  *)
(* fractions are exact, numerator over denominator.                        *)
(***************************************************************************)
EXTENDS Integers

MAX_ROUNDS == 15
NoPrice == 0

Lesser(a, b) == IF a < b THEN a ELSE b
Greater(a, b) == IF a > b THEN a ELSE b
Distance(a, b) == IF a > b THEN a - b ELSE b - a

\* quantize(): n/d to the nearest integer, ties up, or ties to even.
HalfUp(n, d) == (2 * n + d) \div (2 * d)
HalfEven(n, d) ==
    IF (2 * n + d) % (2 * d) = 0 /\ HalfUp(n, d) % 2 = 1 THEN HalfUp(n, d) - 1
    ELSE HalfUp(n, d)

-----------------------------------------------------------------------------
\* Layer 1.  A valuation holds the price beyond which the side does not go, the
\* price it would like, and the price it defends in between.
Valuation(reservation, target, aspirational) ==
    [reservation |-> reservation, target |-> target, aspirational |-> aspirational]

\* 40% of the way from the reservation (seller) or the target (buyer).
compute_aspirational_price(reservation, target, is_buyer) ==
    IF is_buyer
    THEN Greater(target, Lesser(HalfUp(3 * target + 2 * reservation, 5), reservation))
    ELSE Greater(reservation, Lesser(HalfUp(3 * reservation + 2 * target, 5), target))

\* The ceiling is the budget; the target 85%, 80% or 70% of it.
TargetPercent(risk_appetite) ==
    CASE risk_appetite = "LOW" -> 85 [] risk_appetite = "MEDIUM" -> 80
      [] risk_appetite = "HIGH" -> 70

compute_buyer_valuation_from_rfq(budget_max, risk_appetite) ==
    LET target == Greater(1, HalfUp(TargetPercent(risk_appetite) * budget_max, 100))
    IN  Valuation(budget_max, target, compute_aspirational_price(budget_max, target, TRUE))

\* The catalogue price is the target; the floor is margin_floor per cent below it.
compute_seller_valuation_from_catalogue(asking_price, margin_floor) ==
    LET reservation == Greater(1, HalfUp((100 - margin_floor) * asking_price, 100))
    IN  Valuation(reservation, asking_price,
                  compute_aspirational_price(reservation, asking_price, FALSE))

\* Without an RFQ budget the buyer is valued from a fair price, with the formula
\* of a seller: 5, 10 or 20% below it the ceiling, 3, 5 or 10% below it the target.
compute_buyer_valuation(fair_price, risk_appetite, budget_ceiling) ==
    LET Below == CASE risk_appetite = "LOW" -> <<95, 97>>
                   [] risk_appetite = "MEDIUM" -> <<90, 95>>
                   [] risk_appetite = "HIGH" -> <<80, 90>>
        computed == Greater(1, HalfUp(Below[1] * fair_price, 100))
        reservation == IF budget_ceiling > 0 THEN Lesser(computed, budget_ceiling)
                       ELSE computed
        target == Greater(1, HalfUp(Below[2] * fair_price, 100))
    IN  Valuation(reservation, target, compute_aspirational_price(reservation, target, TRUE))

\* Without a catalogue price the seller is valued from a cost.
compute_seller_valuation(cost_basis, margin_floor, risk_appetite) ==
    LET reservation == Greater(1, HalfUp((100 + margin_floor) * cost_basis, 100))
        percent == CASE risk_appetite = "LOW" -> 115 [] risk_appetite = "MEDIUM" -> 120
                     [] risk_appetite = "HIGH" -> 130
        target == Greater(1, HalfUp(percent * cost_basis, 100))
    IN  Valuation(reservation, target, compute_aspirational_price(reservation, target, FALSE))

-----------------------------------------------------------------------------
\* Layer 2.  What a strategy is chosen by: the round and the horizon the urgency
\* leaves, both sides' last prices, the valuation, and what is believed of the
\* opponent.  flexibility is in per cent; ramp is the deadline curve, in per
\* mille, at this round.
Urgencies == {3, 5, 8, 15}
OpponentTypes == {"other", "deadline_driven", "reciprocator", "hardball_then_cave",
                  "escalator"}

Context == [round : 0..(MAX_ROUNDS - 1), horizon : Urgencies, mine : Nat, other : Nat,
            valuation : [reservation : Nat \ {0}, target : Nat \ {0},
                         aspirational : Nat \ {0}],
            flexibility : 0..100, stall : Nat, ramp : 0..1000,
            is_buyer : BOOLEAN, opponent_type : OpponentTypes]

Advice(strategy, price) == [strategy |-> strategy, price |-> Greater(1, price)]

\* my_last_price or target_price
Mine(c) == IF c.mine = NoPrice THEN c.valuation.target ELSE c.mine

\* For a buyer the aspirational price is never above the reservation: its
\* practical limit is the true ceiling.
effective_floor(c) == Greater(c.valuation.aspirational, c.valuation.reservation)

\* A step of n/d of one's price towards the other side (its numerator), and a
\* price held at the floor (the buyer's ceiling).
Step(c, n, d) == IF c.is_buyer THEN Mine(c) * (d + n) ELSE Mine(c) * (d - n)
Held(c, price, floor) ==
    IF c.is_buyer THEN Lesser(price, floor) ELSE Greater(price, floor)

\* A price n/d of the way from the target to the floor.
Toward(c, floor, n, d) ==
    LET way == Distance(floor, c.valuation.target) * n
    IN  HalfUp(IF c.is_buyer THEN c.valuation.target * d + way
                             ELSE c.valuation.target * d - way, d)

_strong_anchor(c) ==
    Advice("STRONG_ANCHOR",
           HalfUp((IF c.is_buyer THEN 95 ELSE 110) * c.valuation.target, 100))

\* The buyer's answer to an anchor above its budget.
ResponsiveAnchor(c) ==
    Advice("STRONG_ANCHOR", HalfUp(c.valuation.target + c.valuation.aspirational, 2))

\* The Boulware curve is 1 - (1 - t)^3; it is used for t in 0..1 only.
_boulware(c) ==
    LET h == c.horizon
        left == h - c.round
        d == h * h * h
    IN  Advice("BOULWARE",
               Held(c, Toward(c, effective_floor(c), d - left * left * left, d),
                    effective_floor(c)))

\* The opponent's distance, in ten-thousandths, mirrored up to 15%.
MirroredStep(c, modifier) ==
    IF c.other = NoPrice THEN 200
    ELSE Greater(50, Lesser(1500,
             HalfUp(100 * modifier * Distance(c.other, Mine(c)), Mine(c))))

_tit_for_tat(c, modifier) ==
    Advice("TIT_FOR_TAT",
           Held(c, HalfUp(Step(c, MirroredStep(c, modifier), 10000), 10000),
                effective_floor(c)))

_ultimatum(c) ==
    Advice("ULTIMATUM",
           Held(c, IF c.other = NoPrice THEN Mine(c) ELSE HalfUp(Mine(c) + c.other, 2),
                c.valuation.reservation))

_hardball(c) ==
    Advice("HARDBALL", Held(c, HalfUp(Step(c, 5, 1000), 1000), effective_floor(c)))

\* The only curve that is not held at the floor: it ends there.
_deadline_pressure(c) ==
    Advice("DEADLINE_PRESSURE", Toward(c, c.valuation.reservation, c.ramp, 1000))

_conditional(c) == Advice("CONDITIONAL", c.valuation.target)

_walk_away(c) == Advice("WALK_AWAY", c.valuation.reservation)

\* 3% of a linear curve, at least 0.5%.
_conservative(c) ==
    LET h == c.horizon
    IN  Advice("CONSERVATIVE",
               Held(c, HalfEven(Step(c, Greater(h, 6 * c.round), 200 * h), 200 * h),
                    c.valuation.reservation))

\* 6% of a quadratic curve, at least 1.5%.
_concessive(c) ==
    LET hh == c.horizon * c.horizon
    IN  Advice("CONCESSIVE",
               Held(c, HalfEven(Step(c, Greater(3 * hh, 12 * c.round * c.round), 200 * hh),
                                200 * hh),
                    c.valuation.reservation))

_constrained(c) ==
    Advice("CONSTRAINED",
           Held(c, HalfEven(Step(c, 7, 1000), 1000), c.valuation.reservation))

-----------------------------------------------------------------------------
\* Time is counted on MAX_ROUNDS, whatever the horizon: percent of it left.
TimeLeft(c) == MAX_ROUNDS - c.round
TimeLeftBelow(c, percent) == 100 * TimeLeft(c) < percent * MAX_ROUNDS
TimeUsedWithin(c, low, high) ==
    low * MAX_ROUNDS <= 100 * c.round /\ 100 * c.round <= high * MAX_ROUNDS

BothMoved(c) == c.mine # NoPrice /\ c.other # NoPrice
GapAbove(c, percent) ==
    100 * Distance(c.mine, c.other) > percent * Greater(c.mine, 100)
GapBelow(c, percent) ==
    100 * Distance(c.mine, c.other) < percent * Greater(c.mine, 100)

\* At the price to defend, with time left and no stall.
HoldsFirm(c) ==
    /\ c.mine # NoPrice
    /\ ~TimeLeftBelow(c, 25)
    /\ c.stall < 3
    /\ IF c.is_buyer THEN 100 * c.mine >= 98 * c.valuation.aspirational
                     ELSE 100 * c.mine <= 102 * c.valuation.aspirational

BeyondReach(c) ==
    /\ c.other # NoPrice
    /\ c.stall >= 3
    /\ IF c.is_buyer THEN c.other > c.valuation.reservation
                     ELSE 10 * c.other < 9 * c.valuation.reservation

NearFloor(c) ==
    /\ c.mine # NoPrice
    /\ 100 * TimeLeft(c) > 25 * MAX_ROUNDS
    /\ IF c.is_buyer THEN 100 * c.mine >= 95 * c.valuation.reservation
                     ELSE 100 * c.mine <= 105 * c.valuation.reservation

\* Two reasons for larger steps: nobody has moved, or it is getting late.
ClosesGap(c) ==
    /\ BothMoved(c)
    /\ \/ /\ c.stall >= 3
          /\ 100 * c.round >= 50 * MAX_ROUNDS
          /\ ~GapBelow(c, 5)
          /\ ~GapAbove(c, 35)
       \/ TimeUsedWithin(c, 60, 85) /\ GapAbove(c, 8)

\* The last routes: the opponent's type, then the gap, then the default.
ByOpponentType(c) ==
    CASE c.opponent_type = "deadline_driven" /\ TimeLeftBelow(c, 35) -> _deadline_pressure(c)
      [] c.opponent_type = "reciprocator" -> _tit_for_tat(c, 90)
      [] c.opponent_type = "hardball_then_cave" /\ c.stall >= 2 -> _conservative(c)
      [] c.opponent_type = "escalator" -> _constrained(c)
      [] OTHER ->
            IF c.flexibility > 40 /\ BothMoved(c) /\ GapAbove(c, 20) THEN _conditional(c)
            ELSE IF NearFloor(c) THEN _constrained(c)
            ELSE IF ClosesGap(c) THEN _concessive(c)
            ELSE IF c.flexibility \in 30..50 /\ c.stall < 2 THEN _conservative(c)
            ELSE _boulware(c)

select_strategy(c) ==
    IF c.round = 0 \/ (c.round = 1 /\ c.mine = NoPrice)
    THEN IF c.is_buyer /\ c.other > c.valuation.reservation
         THEN ResponsiveAnchor(c) ELSE _strong_anchor(c)
    ELSE IF c.horizon - c.round <= 2 THEN _ultimatum(c)
    ELSE IF HoldsFirm(c)
    THEN IF c.other # NoPrice /\ GapBelow(c, 5) THEN _concessive(c) ELSE _hardball(c)
    ELSE IF c.flexibility < 15 /\ c.stall >= 2 THEN _hardball(c)
    ELSE IF TimeLeftBelow(c, 25) THEN _deadline_pressure(c)
    ELSE IF c.flexibility > 70 THEN _tit_for_tat(c, 85)
    ELSE IF BeyondReach(c) THEN _walk_away(c)
    ELSE ByOpponentType(c)

-----------------------------------------------------------------------------
\* Properties, proved in Strategy_proofs.

\* A valuation with its reservation on the far side of its target.
Ordered(v, is_buyer) ==
    IF is_buyer THEN v.target <= v.aspirational /\ v.aspirational <= v.reservation
                ELSE v.reservation <= v.aspirational /\ v.aspirational <= v.target

\* Whatever the opponent does and is taken for, no strategy suggests a price
\* beyond the reservation, the curves and the rounding included.
WithinReservation(c) ==
    IF c.is_buyer THEN select_strategy(c).price <= c.valuation.reservation
                  ELSE select_strategy(c).price >= c.valuation.reservation

\* Nor one past the opening, one's own last price and the opponent's: the range
\* the session model lets a strategy choose from.
WithinPositions(c) ==
    IF c.is_buyer
    THEN select_strategy(c).price >=
             Lesser(HalfUp(95 * c.valuation.target, 100), Lesser(Mine(c),
                 IF c.other = NoPrice THEN Mine(c) ELSE c.other))
    ELSE select_strategy(c).price <=
             Greater(HalfUp(110 * c.valuation.target, 100), Greater(Mine(c), c.other))
=============================================================================
