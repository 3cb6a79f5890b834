--------------------------- MODULE Strategy_proofs ---------------------------
(***************************************************************************)
(* The strategies keep to the reservation, for every price, horizon and    *)
(* belief; and the valuations made of a catalogue price or a budget are    *)
(* the ordered ones that this needs, also as the fields of an RFQ and the  *)
(* catalogue give them.  A turn is priced by an item of its product.  The  *)
(* beliefs about the opponent count no price twice.                        *)
(***************************************************************************)
EXTENDS Strategy, OpponentBeliefs, Grounding, WellFoundedInduction, NaturalsInduction, TLAPS

\* Division rounds down.
LEMMA Quotient ==
  ASSUME NEW n \in Nat, NEW d \in Nat \ {0}
  PROVE  /\ n \div d \in Nat
         /\ d * (n \div d) <= n
         /\ n < d * (n \div d) + d
  BY Z3

\* Products of naturals are monotone.
LEMMA Product ==
  ASSUME NEW a \in Nat, NEW b \in Nat, NEW k \in Nat, a <= b
  PROVE  k * a <= k * b
  BY Z3

\* Multiplication spreads over a sum.
LEMMA Spread ==
  ASSUME NEW a \in Nat, NEW b \in Nat, NEW k \in Nat
  PROVE  (a + b) * k = a * k + b * k
  BY Z3

\* Rounding keeps to any whole price that the exact price keeps to.
LEMMA HalfUpKeeps ==
  ASSUME NEW n \in Nat, NEW d \in Nat \ {0}, NEW k \in Nat
  PROVE  /\ HalfUp(n, d) \in Nat
         /\ k * d <= n => k <= HalfUp(n, d)
         /\ n <= k * d => HalfUp(n, d) <= k
<1> DEFINE q == HalfUp(n, d)
<1>1. q \in Nat /\ (2 * d) * q <= 2 * n + d /\ 2 * n + d < (2 * d) * q + 2 * d
  <2>1. 2 * n + d \in Nat /\ 2 * d \in Nat \ {0}
    OBVIOUS
  <2> QED
    BY <2>1, Quotient DEF HalfUp
<1> HIDE DEF q
<1>2. ASSUME k * d <= n PROVE k <= q
  <2>1. SUFFICES ASSUME q + 1 <= k PROVE FALSE
    BY <1>1
  <2>2. d * (q + 1) <= d * k
    BY <2>1, <1>1, Product
  <2>3. d * (q + 1) = d * q + d /\ (2 * d) * q = 2 * (d * q) /\ d * k = k * d
    BY <1>1
  <2>4. d * q \in Nat /\ d * k \in Nat
    BY <1>1
  <2> QED
    BY <1>1, <1>2, <2>2, <2>3, <2>4
<1>3. ASSUME n <= k * d PROVE q <= k
  <2>1. SUFFICES ASSUME k + 1 <= q PROVE FALSE
    BY <1>1
  <2>2. d * (k + 1) <= d * q
    BY <2>1, <1>1, Product
  <2>3. d * (k + 1) = d * k + d /\ (2 * d) * q = 2 * (d * q) /\ d * k = k * d
    BY <1>1
  <2>4. d * q \in Nat /\ d * k \in Nat
    BY <1>1
  <2> QED
    BY <1>1, <1>3, <2>2, <2>3, <2>4
<1> QED
  BY <1>1, <1>2, <1>3 DEF q

LEMMA HalfEvenKeeps ==
  ASSUME NEW n \in Nat, NEW d \in Nat \ {0}, NEW k \in Nat
  PROVE  /\ HalfEven(n, d) \in Nat
         /\ k * d <= n => k <= HalfEven(n, d)
         /\ n <= k * d => HalfEven(n, d) <= k
<1> DEFINE q == HalfUp(n, d)
<1>1. /\ q \in Nat
      /\ k * d <= n => k <= q
      /\ n <= k * d => q <= k
  BY HalfUpKeeps
<1>2. CASE (2 * n + d) % (2 * d) = 0 /\ q % 2 = 1
  <2>1. 2 * n + d = (2 * d) * q
    <3>1. 2 * n + d \in Nat /\ 2 * d \in Nat \ {0}
      OBVIOUS
    <3> QED
      BY <1>2, <3>1, Z3 DEF HalfUp
  <2>2. q >= 1
    BY <1>1, <1>2
  <2>3. ASSUME k * d <= n PROVE k <= q - 1
    <3>1. SUFFICES ASSUME k >= q PROVE FALSE
      BY <1>1
    <3>2. d * q <= d * k
      BY <1>1, <3>1, Product
    <3>3. (2 * d) * q = 2 * (d * q) /\ d * k = k * d /\ d * q \in Nat /\ d * k \in Nat
      BY <1>1
    <3> QED
      BY <2>1, <2>3, <3>2, <3>3
  <2> QED
    BY <1>1, <1>2, <2>2, <2>3 DEF HalfEven
<1>3. CASE ~((2 * n + d) % (2 * d) = 0 /\ q % 2 = 1)
  BY <1>1, <1>3 DEF HalfEven
<1> QED
  BY <1>2, <1>3

-----------------------------------------------------------------------------
\* What a suggested price must keep to, in one formula per side.
InRange(c, p) ==
    /\ p \in Nat
    /\ IF c.is_buyer
       THEN /\ p <= c.valuation.reservation
            /\ p >= Lesser(HalfUp(95 * c.valuation.target, 100), Lesser(Mine(c),
                        IF c.other = NoPrice THEN Mine(c) ELSE c.other))
       ELSE /\ p >= c.valuation.reservation
            /\ p <= Greater(HalfUp(110 * c.valuation.target, 100), Greater(Mine(c), c.other))

Sound(c) == c \in Context /\ Ordered(c.valuation, c.is_buyer)

\* The prices of a context, and the range without its roundings.
LEMMA ContextFacts ==
  ASSUME NEW c, Sound(c)
  PROVE  /\ c.round \in Nat /\ c.horizon \in Nat \ {0} /\ c.mine \in Nat /\ c.other \in Nat
         /\ c.is_buyer \in BOOLEAN /\ c.ramp \in 0..1000
         /\ c.valuation.reservation \in Nat \ {0}
         /\ c.valuation.target \in Nat \ {0}
         /\ c.valuation.aspirational \in Nat \ {0}
         /\ Mine(c) \in Nat \ {0}
         /\ effective_floor(c) \in Nat \ {0}
         /\ c.is_buyer => /\ c.valuation.target <= c.valuation.aspirational
                          /\ c.valuation.aspirational <= c.valuation.reservation
                          /\ effective_floor(c) = c.valuation.reservation
         /\ ~c.is_buyer => /\ c.valuation.reservation <= c.valuation.aspirational
                           /\ c.valuation.aspirational <= c.valuation.target
                           /\ effective_floor(c) = c.valuation.aspirational
<1>1. /\ c.valuation \in [reservation : Nat \ {0}, target : Nat \ {0},
                          aspirational : Nat \ {0}]
      /\ c.horizon \in {3, 5, 8, 15}
      /\ c.round \in 0..14 /\ c.mine \in Nat /\ c.other \in Nat
      /\ c.is_buyer \in BOOLEAN /\ c.ramp \in 0..1000
  BY DEF Sound, Context, Urgencies, MAX_ROUNDS
<1>2. Ordered(c.valuation, c.is_buyer)
  BY DEF Sound
<1> QED
  BY <1>1, <1>2 DEF Ordered, Mine, NoPrice, effective_floor, Greater

LEMMA RangeFromTarget ==
  ASSUME NEW c, Sound(c), NEW p \in Nat,
         c.is_buyer => /\ p <= c.valuation.reservation
                       /\ p >= c.valuation.target \/ p >= Mine(c)
                          \/ (c.other # NoPrice /\ p >= c.other)
                          \/ p >= HalfUp(95 * c.valuation.target, 100),
         ~c.is_buyer => /\ p >= c.valuation.reservation
                        /\ p <= c.valuation.target \/ p <= Mine(c) \/ p <= c.other
                           \/ p <= HalfUp(110 * c.valuation.target, 100)
  PROVE  InRange(c, p)
<1> DEFINE t == c.valuation.target
           low == HalfUp(95 * t, 100)
           high == HalfUp(110 * t, 100)
<1>1. t \in Nat /\ Mine(c) \in Nat /\ c.other \in Nat /\ c.is_buyer \in BOOLEAN
  BY ContextFacts
<1>2. low \in Nat /\ low <= t
  <2>1. 95 * t \in Nat /\ 95 * t <= t * 100
    BY <1>1
  <2> QED
    BY <2>1, <1>1, HalfUpKeeps
<1>3. high \in Nat /\ t <= high
  <2>1. 110 * t \in Nat /\ t * 100 <= 110 * t
    BY <1>1
  <2> QED
    BY <2>1, <1>1, HalfUpKeeps
<1> HIDE DEF low, high
<1>4. CASE c.is_buyer
  <2>1. p >= Lesser(low, Lesser(Mine(c), IF c.other = NoPrice THEN Mine(c) ELSE c.other))
    BY <1>1, <1>2, <1>4 DEF Lesser, low
  <2> QED
    BY <1>4, <2>1 DEF InRange, low
<1>5. CASE ~c.is_buyer
  <2>1. p <= Greater(high, Greater(Mine(c), c.other))
    BY <1>1, <1>3, <1>5 DEF Greater, high
  <2> QED
    BY <1>5, <2>1 DEF InRange, high
<1> QED
  BY <1>1, <1>4, <1>5

\* A price on the way from the target to a floor lies between the two.
LEMMA TowardKeeps ==
  ASSUME NEW c, Sound(c), NEW floor \in Nat, NEW n \in Nat, NEW d \in Nat \ {0}, n <= d,
         c.is_buyer => c.valuation.target <= floor,
         ~c.is_buyer => floor <= c.valuation.target
  PROVE  /\ Toward(c, floor, n, d) \in Nat
         /\ c.is_buyer => /\ c.valuation.target <= Toward(c, floor, n, d)
                          /\ Toward(c, floor, n, d) <= floor
         /\ ~c.is_buyer => /\ floor <= Toward(c, floor, n, d)
                           /\ Toward(c, floor, n, d) <= c.valuation.target
<1> DEFINE t == c.valuation.target
           gap == Distance(floor, t)
           way == gap * n
<1>1. t \in Nat /\ c.is_buyer \in BOOLEAN
  BY ContextFacts
<1>2. gap \in Nat /\ (c.is_buyer => floor = t + gap) /\ (~c.is_buyer => t = floor + gap)
  <2>1. (c.is_buyer => t <= floor) /\ (~c.is_buyer => floor <= t)
    OBVIOUS
  <2>2. gap = IF floor > t THEN floor - t ELSE t - floor
    BY DEF Distance
  <2> HIDE DEF t, gap
  <2> QED
    BY <1>1, <2>1, <2>2
<1> HIDE DEF gap, t
<1>3. way \in Nat /\ way <= gap * d
  BY <1>2, Product
<1>4. gap * d \in Nat /\ t * d \in Nat /\ floor * d \in Nat
  BY <1>1, <1>2
<1>5. CASE c.is_buyer
  <2>1. floor * d = t * d + gap * d
    <3>1. (t + gap) * d = t * d + gap * d
      BY <1>1, <1>2, Spread
    <3> QED
      BY <1>2, <1>5, <3>1
  <2>2. t * d + way \in Nat /\ t * d <= t * d + way /\ t * d + way <= floor * d
    BY <1>3, <1>4, <2>1
  <2>3. Toward(c, floor, n, d) = HalfUp(t * d + way, d)
    BY <1>5 DEF Toward, gap, t
  <2> HIDE DEF way
  <2> QED
    BY <1>1, <1>5, <2>2, <2>3, HalfUpKeeps DEF t
<1>6. CASE ~c.is_buyer
  <2>1. t * d = floor * d + gap * d
    <3>1. (floor + gap) * d = floor * d + gap * d
      BY <1>2, Spread
    <3> QED
      BY <1>2, <1>6, <3>1
  <2>2. t * d - way \in Nat /\ t * d - way <= t * d /\ floor * d <= t * d - way
    BY <1>3, <1>4, <2>1
  <2>3. Toward(c, floor, n, d) = HalfUp(t * d - way, d)
    BY <1>6 DEF Toward, gap, t
  <2> HIDE DEF way
  <2> QED
    BY <1>1, <1>6, <2>2, <2>3, HalfUpKeeps DEF t
<1> QED
  BY <1>1, <1>5, <1>6

\* A step goes towards the other side, and a seller's never below zero.
LEMMA StepKeeps ==
  ASSUME NEW c, Sound(c), NEW n \in Nat, NEW d \in Nat \ {0}, n <= d
  PROVE  /\ Step(c, n, d) \in Nat
         /\ c.is_buyer => Mine(c) * d <= Step(c, n, d)
         /\ ~c.is_buyer => Step(c, n, d) <= Mine(c) * d
<1>1. Mine(c) \in Nat /\ c.is_buyer \in BOOLEAN
  BY ContextFacts
<1>2. /\ d + n \in Nat /\ d - n \in Nat /\ d \in Nat
      /\ d <= d + n /\ d - n <= d
  OBVIOUS
<1>3. Mine(c) * d <= Mine(c) * (d + n) /\ Mine(c) * (d - n) <= Mine(c) * d
  BY <1>1, <1>2, Product
<1>4. Mine(c) * (d + n) \in Nat /\ Mine(c) * (d - n) \in Nat
  BY <1>1, <1>2
<1> QED
  BY <1>1, <1>3, <1>4 DEF Step

\* A rounded step, held at the reservation or at the price to defend.
LEMMA HeldStepInRange ==
  ASSUME NEW c, Sound(c), NEW n \in Nat, NEW d \in Nat \ {0}, n <= d,
         NEW floor \in {c.valuation.reservation, effective_floor(c)},
         NEW p \in {HalfUp(Step(c, n, d), d), HalfEven(Step(c, n, d), d)}
  PROVE  InRange(c, Greater(1, Held(c, p, floor)))
<1> USE ContextFacts
<1>1. Step(c, n, d) \in Nat
  BY StepKeeps
<1>2. p \in Nat /\ (c.is_buyer => Mine(c) <= p) /\ (~c.is_buyer => p <= Mine(c))
  <2>1. Mine(c) \in Nat
    OBVIOUS
  <2>2. CASE p = HalfUp(Step(c, n, d), d)
    BY <1>1, <2>1, <2>2, StepKeeps, HalfUpKeeps
  <2>3. CASE p = HalfEven(Step(c, n, d), d)
    BY <1>1, <2>1, <2>3, StepKeeps, HalfEvenKeeps
  <2> QED
    BY <2>2, <2>3
<1>3. CASE c.is_buyer
  <2>1. floor = c.valuation.reservation
    BY <1>3
  <2>2. Held(c, p, floor) = Lesser(p, floor)
    BY <1>3 DEF Held
  <2>3. /\ Greater(1, Lesser(p, floor)) \in Nat
        /\ Greater(1, Lesser(p, floor)) <= c.valuation.reservation
        /\ \/ Greater(1, Lesser(p, floor)) >= c.valuation.target
           \/ Greater(1, Lesser(p, floor)) >= Mine(c)
    BY <1>2, <1>3, <2>1 DEF Greater, Lesser
  <2> QED
    BY <1>3, <2>2, <2>3, RangeFromTarget
<1>4. CASE ~c.is_buyer
  <2>2. Held(c, p, floor) = Greater(p, floor)
    BY <1>4 DEF Held
  <2>3. /\ Greater(1, Greater(p, floor)) \in Nat
        /\ Greater(1, Greater(p, floor)) >= c.valuation.reservation
        /\ \/ Greater(1, Greater(p, floor)) <= c.valuation.target
           \/ Greater(1, Greater(p, floor)) <= Mine(c)
    BY <1>2, <1>4 DEF Greater
  <2> QED
    BY <1>4, <2>2, <2>3, RangeFromTarget
<1> QED
  BY <1>3, <1>4

-----------------------------------------------------------------------------
\* One lemma per strategy.

LEMMA AnchorInRange ==
  ASSUME NEW c, Sound(c)
  PROVE  InRange(c, _strong_anchor(c).price)
<1> DEFINE t == c.valuation.target
           p == HalfUp((IF c.is_buyer THEN 95 ELSE 110) * t, 100)
<1>1. t \in Nat \ {0} /\ c.is_buyer \in BOOLEAN
  BY ContextFacts
<1>2. c.is_buyer => p \in Nat /\ p <= t
  <2>1. 95 * t \in Nat /\ 95 * t <= t * 100 /\ t \in Nat
    BY <1>1
  <2> QED
    BY <2>1, HalfUpKeeps
<1>3. ~c.is_buyer => p \in Nat /\ t <= p
  <2>1. 110 * t \in Nat /\ t * 100 <= 110 * t /\ t \in Nat
    BY <1>1
  <2> QED
    BY <2>1, HalfUpKeeps
<1>4. /\ c.is_buyer => p = HalfUp(95 * t, 100)
      /\ ~c.is_buyer => p = HalfUp(110 * t, 100)
  OBVIOUS
<1>5. _strong_anchor(c).price = Greater(1, p)
  BY DEF _strong_anchor, Advice
<1> HIDE DEF p
<1>6. Greater(1, p) \in Nat /\ Greater(1, p) >= p /\ (Greater(1, p) = p \/ Greater(1, p) = 1)
  BY <1>1, <1>2, <1>3 DEF Greater
<1> QED
  BY <1>1, <1>2, <1>3, <1>4, <1>5, <1>6, ContextFacts, RangeFromTarget

LEMMA ResponseInRange ==
  ASSUME NEW c, Sound(c), c.is_buyer
  PROVE  InRange(c, ResponsiveAnchor(c).price)
<1> DEFINE t == c.valuation.target
           a == c.valuation.aspirational
           p == HalfUp(t + a, 2)
<1>1. t \in Nat \ {0} /\ a \in Nat /\ t <= a /\ a <= c.valuation.reservation
  BY ContextFacts
<1>2. p \in Nat /\ t <= p /\ p <= a
  <2>1. t + a \in Nat /\ t * 2 <= t + a /\ t + a <= a * 2 /\ t \in Nat
    BY <1>1
  <2> QED
    BY <1>1, <2>1, HalfUpKeeps
<1>3. ResponsiveAnchor(c).price = Greater(1, p)
  BY DEF ResponsiveAnchor, Advice
<1> HIDE DEF p
<1> QED
  BY <1>1, <1>2, <1>3, ContextFacts, RangeFromTarget DEF Greater

LEMMA BoulwareInRange ==
  ASSUME NEW c, Sound(c), c.round <= c.horizon
  PROVE  InRange(c, _boulware(c).price)
<1> DEFINE h == c.horizon
           left == h - c.round
           d == h * h * h
           n == d - left * left * left
           floor == effective_floor(c)
           p == Toward(c, floor, n, d)
<1>1. h \in Nat \ {0} /\ left \in Nat /\ left <= h /\ floor \in Nat /\ c.is_buyer \in BOOLEAN
  BY ContextFacts
<1> HIDE DEF h, left
<1>2. d \in Nat \ {0} /\ n \in Nat /\ n <= d
  <2>1. /\ h * h \in Nat \ {0} /\ left * left \in Nat
        /\ left * left <= left * h /\ h * left <= h * h /\ left * h = h * left
    BY <1>1, Product
  <2>2. left * left <= h * h
    BY <1>1, <2>1
  <2>3. /\ left * (left * left) <= left * (h * h)
        /\ (h * h) * left <= (h * h) * h
        /\ left * (h * h) = (h * h) * left
    BY <1>1, <2>1, <2>2, Product
  <2>4. /\ left * left * left = left * (left * left)
        /\ left * (left * left) \in Nat /\ (h * h) * h \in Nat \ {0}
        /\ (h * h) * left \in Nat
    BY <1>1, <2>1
  <2> QED
    BY <2>3, <2>4
<1> HIDE DEF d, n
<1>3. /\ c.is_buyer => c.valuation.target <= floor
      /\ ~c.is_buyer => floor <= c.valuation.target
  BY ContextFacts
<1>4. /\ p \in Nat
      /\ c.is_buyer => c.valuation.target <= p /\ p <= floor
      /\ ~c.is_buyer => floor <= p /\ p <= c.valuation.target
  BY <1>1, <1>2, <1>3, TowardKeeps
<1>5. _boulware(c).price = Greater(1, Held(c, p, floor))
  BY DEF _boulware, Advice, p, n, d, left, h, floor
<1> HIDE DEF p, floor
<1>6. Greater(1, Held(c, p, floor)) = Greater(1, p)
  BY <1>1, <1>4 DEF Held, Greater, Lesser
<1> QED
  BY <1>1, <1>3, <1>4, <1>5, <1>6, ContextFacts, RangeFromTarget DEF Greater, floor

LEMMA TitForTatInRange ==
  ASSUME NEW c, Sound(c), NEW modifier \in Nat
  PROVE  InRange(c, _tit_for_tat(c, modifier).price)
<1> DEFINE n == MirroredStep(c, modifier)
<1>1. n \in Nat /\ n <= 10000
  <2>1. Mine(c) \in Nat \ {0} /\ c.other \in Nat
    BY ContextFacts
  <2>2. Distance(c.other, Mine(c)) \in Nat
    BY <2>1 DEF Distance
  <2>3. 100 * modifier * Distance(c.other, Mine(c)) \in Nat
    <3>1. 100 * modifier \in Nat
      OBVIOUS
    <3> QED
      BY <2>2, <3>1
  <2>4. HalfUp(100 * modifier * Distance(c.other, Mine(c)), Mine(c)) \in Nat
    BY <2>1, <2>3, HalfUpKeeps
  <2> QED
    BY <2>4 DEF MirroredStep, Greater, Lesser
<1> HIDE DEF n
<1>2. _tit_for_tat(c, modifier).price
        = Greater(1, Held(c, HalfUp(Step(c, n, 10000), 10000), effective_floor(c)))
  BY DEF _tit_for_tat, Advice, n
<1> QED
  BY <1>1, <1>2, HeldStepInRange

LEMMA UltimatumInRange ==
  ASSUME NEW c, Sound(c)
  PROVE  InRange(c, _ultimatum(c).price)
<1> DEFINE mine == Mine(c)
           r == c.valuation.reservation
           p == IF c.other = NoPrice THEN mine ELSE HalfUp(mine + c.other, 2)
<1>1. mine \in Nat \ {0} /\ c.other \in Nat /\ r \in Nat \ {0} /\ c.is_buyer \in BOOLEAN
  BY ContextFacts
<1> HIDE DEF mine, r
<1>2. /\ p \in Nat
      /\ p >= mine \/ (c.other # NoPrice /\ p >= c.other)
      /\ p <= mine \/ p <= c.other
  <2>1. CASE c.other = NoPrice
    BY <1>1, <2>1
  <2>2. CASE c.other # NoPrice /\ mine <= c.other
    <3>1. mine + c.other \in Nat /\ mine * 2 <= mine + c.other /\ mine + c.other <= c.other * 2
      BY <1>1, <2>2
    <3> QED
      BY <1>1, <2>2, <3>1, HalfUpKeeps
  <2>3. CASE c.other # NoPrice /\ c.other <= mine
    <3>1. mine + c.other \in Nat /\ c.other * 2 <= mine + c.other /\ mine + c.other <= mine * 2
      BY <1>1, <2>3
    <3> QED
      BY <1>1, <2>3, <3>1, HalfUpKeeps
  <2> QED
    BY <1>1, <2>1, <2>2, <2>3
<1>3. _ultimatum(c).price = Greater(1, Held(c, p, r))
  BY DEF _ultimatum, Advice, mine, r
<1> HIDE DEF p
<1> DEFINE q == Greater(1, Held(c, p, r))
<1>4. CASE c.is_buyer
  <2>1. /\ q \in Nat /\ q <= r
        /\ q >= r \/ q >= mine \/ (c.other # NoPrice /\ q >= c.other)
    BY <1>1, <1>2, <1>4 DEF Held, Greater, Lesser
  <2> HIDE DEF q
  <2>2. c.valuation.target <= r /\ c.valuation.target \in Nat
    BY <1>4, ContextFacts DEF r
  <2> QED
    BY <1>1, <1>3, <1>4, <2>1, <2>2, RangeFromTarget DEF mine, r, q
<1>5. CASE ~c.is_buyer
  <2>1. q \in Nat /\ q >= r /\ (q <= r \/ q <= mine \/ q <= c.other)
    BY <1>1, <1>2, <1>5 DEF Held, Greater, Lesser
  <2> HIDE DEF q
  <2>2. r <= c.valuation.target /\ c.valuation.target \in Nat
    BY <1>5, ContextFacts DEF r
  <2> QED
    BY <1>1, <1>3, <1>5, <2>1, <2>2, RangeFromTarget DEF mine, r, q
<1> QED
  BY <1>1, <1>4, <1>5

LEMMA PressureInRange ==
  ASSUME NEW c, Sound(c)
  PROVE  InRange(c, _deadline_pressure(c).price)
<1> DEFINE r == c.valuation.reservation
           p == Toward(c, r, c.ramp, 1000)
<1>1. /\ r \in Nat /\ c.ramp \in Nat /\ c.ramp <= 1000 /\ c.valuation.target \in Nat \ {0}
      /\ c.is_buyer \in BOOLEAN
      /\ c.is_buyer => c.valuation.target <= r
      /\ ~c.is_buyer => r <= c.valuation.target
  <2>1. c.ramp \in 0..1000
    BY ContextFacts
  <2>2. c.ramp \in Nat /\ c.ramp <= 1000
    BY <2>1
  <2>3. /\ c.is_buyer => c.valuation.target <= r
        /\ ~c.is_buyer => r <= c.valuation.target
    BY ContextFacts
  <2> QED
    BY <2>2, <2>3, ContextFacts
<1>2. /\ p \in Nat
      /\ c.is_buyer => c.valuation.target <= p /\ p <= r
      /\ ~c.is_buyer => r <= p /\ p <= c.valuation.target
  BY <1>1, TowardKeeps
<1>3. _deadline_pressure(c).price = Greater(1, p)
  BY DEF _deadline_pressure, Advice
<1> HIDE DEF p
<1> QED
  BY <1>1, <1>2, <1>3, ContextFacts, RangeFromTarget DEF Greater

LEMMA PlainInRange ==
  ASSUME NEW c, Sound(c)
  PROVE  InRange(c, _conditional(c).price) /\ InRange(c, _walk_away(c).price)
<1>1. /\ _conditional(c).price = c.valuation.target
      /\ _walk_away(c).price = c.valuation.reservation
  BY ContextFacts DEF _conditional, _walk_away, Advice, Greater
<1> QED
  BY <1>1, ContextFacts, RangeFromTarget

LEMMA SmallStepsInRange ==
  ASSUME NEW c, Sound(c)
  PROVE  InRange(c, _hardball(c).price) /\ InRange(c, _constrained(c).price)
<1>1. /\ _hardball(c).price
           = Greater(1, Held(c, HalfUp(Step(c, 5, 1000), 1000), effective_floor(c)))
      /\ _constrained(c).price
           = Greater(1, Held(c, HalfEven(Step(c, 7, 1000), 1000), c.valuation.reservation))
  BY DEF _hardball, _constrained, Advice
<1> QED
  BY <1>1, HeldStepInRange

LEMMA CurvedStepsInRange ==
  ASSUME NEW c, Sound(c), c.round <= c.horizon
  PROVE  InRange(c, _conservative(c).price) /\ InRange(c, _concessive(c).price)
<1> DEFINE h == c.horizon
           hh == h * h
           rr == c.round * c.round
<1>1. h \in Nat \ {0} /\ c.round \in Nat /\ c.round <= h
  BY ContextFacts
<1> HIDE DEF h
<1>2. hh \in Nat \ {0} /\ rr \in Nat /\ rr <= hh
  <2>1. c.round * c.round <= c.round * h /\ h * c.round <= h * h
    BY <1>1, Product
  <2>2. c.round * h = h * c.round /\ c.round * h \in Nat /\ h * h \in Nat \ {0}
        /\ c.round * c.round \in Nat
    BY <1>1
  <2> QED
    BY <2>1, <2>2
<1>3. 12 * c.round * c.round = 12 * rr
  BY <1>1
<1> HIDE DEF hh, rr
<1>4. /\ Greater(h, 6 * c.round) \in Nat /\ 200 * h \in Nat \ {0}
      /\ Greater(h, 6 * c.round) <= 200 * h
  BY <1>1 DEF Greater
<1>5. /\ Greater(3 * hh, 12 * rr) \in Nat /\ 200 * hh \in Nat \ {0}
      /\ Greater(3 * hh, 12 * rr) <= 200 * hh
  BY <1>2 DEF Greater
<1>6. /\ _conservative(c).price
           = Greater(1, Held(c, HalfEven(Step(c, Greater(h, 6 * c.round), 200 * h), 200 * h),
                             c.valuation.reservation))
      /\ _concessive(c).price
           = Greater(1, Held(c, HalfEven(Step(c, Greater(3 * hh, 12 * rr), 200 * hh), 200 * hh),
                             c.valuation.reservation))
  BY <1>3 DEF _conservative, _concessive, Advice, h, hh
<1> QED
  BY <1>4, <1>5, <1>6, HeldStepInRange

LEMMA StrategyInRange ==
  ASSUME NEW c, Sound(c)
  PROVE  InRange(c, select_strategy(c).price)
<1>1. c.round \in Nat /\ c.horizon \in Nat /\ c.is_buyer \in BOOLEAN
  BY ContextFacts
<1>2. CASE c.horizon - c.round <= 2
  BY <1>2, AnchorInRange, ResponseInRange, UltimatumInRange DEF select_strategy
<1>3. CASE ~(c.horizon - c.round <= 2)
  <2>1. c.round <= c.horizon
    BY <1>1, <1>3
  <2>2. InRange(c, ByOpponentType(c).price)
    BY <2>1, PressureInRange, TitForTatInRange, CurvedStepsInRange, SmallStepsInRange,
       PlainInRange, BoulwareInRange DEF ByOpponentType
  <2> QED
    BY <1>3, <2>1, <2>2, AnchorInRange, ResponseInRange, CurvedStepsInRange,
       SmallStepsInRange, PressureInRange, TitForTatInRange, PlainInRange
    DEF select_strategy
<1> QED
  BY <1>2, <1>3

-----------------------------------------------------------------------------
\* With an ordered valuation, no strategy advises a seller below its floor or a
\* buyer above its ceiling: select_strategy and every strategy it chooses from.
THEOREM AdviceKeepsReservation ==
  \A c \in Context : Ordered(c.valuation, c.is_buyer) => WithinReservation(c)
<1> SUFFICES ASSUME NEW c \in Context, Ordered(c.valuation, c.is_buyer)
             PROVE  WithinReservation(c)
  OBVIOUS
<1>1. InRange(c, select_strategy(c).price)
  BY StrategyInRange DEF Sound
<1> QED
  BY <1>1 DEF InRange, WithinReservation

\* Nor does one advise a price past the opening, one's own last price and the
\* opponent's: Suggestions of NegotiationEngine leaves nothing out.
THEOREM AdviceKeepsPositions ==
  \A c \in Context : Ordered(c.valuation, c.is_buyer) => WithinPositions(c)
<1> SUFFICES ASSUME NEW c \in Context, Ordered(c.valuation, c.is_buyer)
             PROVE  WithinPositions(c)
  OBVIOUS
<1>1. InRange(c, select_strategy(c).price)
  BY StrategyInRange DEF Sound
<1> QED
  BY <1>1 DEF InRange, WithinPositions

LEMMA AspirationalBetween ==
  ASSUME NEW reservation \in Nat, NEW target \in Nat,
         NEW is_buyer \in BOOLEAN,
         is_buyer => target <= reservation, ~is_buyer => reservation <= target
  PROVE  Ordered(Valuation(reservation, target,
                     compute_aspirational_price(reservation, target, is_buyer)), is_buyer)
<1>1. /\ HalfUp(3 * target + 2 * reservation, 5) \in Nat
      /\ HalfUp(3 * reservation + 2 * target, 5) \in Nat
  <2>1. /\ 3 * target + 2 * reservation \in Nat
        /\ 3 * reservation + 2 * target \in Nat
    OBVIOUS
  <2> QED
    BY <2>1, HalfUpKeeps
<1>2. CASE is_buyer
  BY <1>1, <1>2 DEF Ordered, Valuation, compute_aspirational_price, Greater, Lesser
<1>3. CASE ~is_buyer
  BY <1>1, <1>3 DEF Ordered, Valuation, compute_aspirational_price, Greater, Lesser
<1> QED
  BY <1>2, <1>3

\* A seller valued from its catalogue and a buyer valued from its budget have
\* ordered valuations, for every price, margin and appetite for risk.
THEOREM ValuationsOrdered ==
  /\ \A asking_price \in Nat \ {0}, margin_floor \in 0..100 :
        Ordered(compute_seller_valuation_from_catalogue(asking_price, margin_floor), FALSE)
  /\ \A budget_max \in Nat \ {0}, risk_appetite \in {"LOW", "MEDIUM", "HIGH"} :
        Ordered(compute_buyer_valuation_from_rfq(budget_max, risk_appetite), TRUE)
<1>1. ASSUME NEW asking_price \in Nat \ {0}, NEW margin_floor \in 0..100
      PROVE  Ordered(compute_seller_valuation_from_catalogue(asking_price, margin_floor), FALSE)
  <2> DEFINE cut == HalfUp((100 - margin_floor) * asking_price, 100)
             reservation == Greater(1, cut)
  <2>1. cut \in Nat /\ cut <= asking_price
    <3>1. 100 - margin_floor \in Nat /\ 100 - margin_floor <= 100 /\ asking_price \in Nat
      OBVIOUS
    <3>2. asking_price * (100 - margin_floor) <= asking_price * 100
      BY <3>1, Product
    <3>3. /\ (100 - margin_floor) * asking_price = asking_price * (100 - margin_floor)
          /\ (100 - margin_floor) * asking_price \in Nat
      BY <3>1
    <3> QED
      BY <3>1, <3>2, <3>3, HalfUpKeeps
  <2> HIDE DEF cut
  <2>2. reservation \in Nat /\ reservation <= asking_price
    BY <2>1 DEF Greater
  <2>3. compute_seller_valuation_from_catalogue(asking_price, margin_floor)
          = Valuation(reservation, asking_price,
                      compute_aspirational_price(reservation, asking_price, FALSE))
    BY DEF compute_seller_valuation_from_catalogue, cut
  <2> HIDE DEF reservation
  <2> QED
    BY <2>2, <2>3, AspirationalBetween
<1>2. ASSUME NEW budget_max \in Nat \ {0}, NEW risk_appetite \in {"LOW", "MEDIUM", "HIGH"}
      PROVE  Ordered(compute_buyer_valuation_from_rfq(budget_max, risk_appetite), TRUE)
  <2> DEFINE share == HalfUp(TargetPercent(risk_appetite) * budget_max, 100)
             target == Greater(1, share)
  <2>1. share \in Nat /\ share <= budget_max
    <3>1. TargetPercent(risk_appetite) \in {70, 80, 85}
      BY DEF TargetPercent
    <3>2. /\ TargetPercent(risk_appetite) * budget_max \in Nat
          /\ TargetPercent(risk_appetite) * budget_max <= budget_max * 100
      BY <3>1
    <3> QED
      BY <3>2, HalfUpKeeps
  <2> HIDE DEF share
  <2>2. target \in Nat /\ target <= budget_max
    BY <2>1 DEF Greater
  <2>3. compute_buyer_valuation_from_rfq(budget_max, risk_appetite)
          = Valuation(budget_max, target, compute_aspirational_price(budget_max, target, TRUE))
    BY DEF compute_buyer_valuation_from_rfq, share
  <2> HIDE DEF target
  <2> QED
    BY <2>2, <2>3, AspirationalBetween
<1> QED
  BY <1>1, <1>2
-----------------------------------------------------------------------------
\* What the engines believe.  Between the offers of a side its cached belief has
\* counted fewer prices than there are, unless its turn has just been answered; so
\* the next update counts a new price.  At the last offer this ends: a refused turn
\* updates the cache and nothing is stored any more.

Honest(q, n) == Increasing(q) /\ UpTo(q, n)
Below(q, n) == \A i \in DOMAIN q : q[i] < n

Prices(s) == talks.count[Against(s)]
Answered(e, s) == engine[e].turn.step = "answered" /\ engine[e].turn.side = s

HonestCache(e, s) ==
    /\ Honest(engine[e].cache[s], Prices(s))
    /\ SideToMove = s /\ ~Answered(e, s) => Below(engine[e].cache[s], Prices(s))

TurnIsOfNow(e) ==
    LET t == engine[e].turn
    IN  t.step # "none" =>
            /\ t.side = SideToMove
            /\ t.seen = Prices(t.side)
            /\ t.step = "asked" => t.beliefs = beliefs
            /\ Made < MaxOffers => \A s \in Sides : Honest(t.beliefs[s], Prices(s))

OneTurn ==
    \A e \in Engines, f \in Engines :
        engine[e].turn.step # "none" /\ engine[f].turn.step # "none" => e = f

BeliefInv ==
    /\ BeliefTypeOK
    /\ Made <= MaxOffers
    /\ OneTurn
    /\ \A e \in Engines : TurnIsOfNow(e)
    /\ \A s \in Sides : Honest(beliefs[s], Prices(s))
    /\ Made < MaxOffers => \A e \in Engines, s \in Sides : HonestCache(e, s)

LEMMA AgainstSides ==
  /\ \A s \in Sides : Against(s) \in Sides /\ Against(s) # s /\ Against(Against(s)) = s
  /\ \A s \in Sides : \A u \in Sides : u # s => u = Against(s)
  BY DEF Sides, Against

LEMMA HonestGrows ==
  ASSUME NEW q \in Seq(Nat), NEW n \in Nat, NEW m \in Nat, n <= m, Honest(q, n)
  PROVE  /\ Honest(q, m)
         /\ n < m => Below(q, m)
  <1>1. \A i \in DOMAIN q : q[i] \in Nat
    OBVIOUS
  <1>2. QED
    BY <1>1 DEF Honest, UpTo, Below

LEMMA HonestAppended ==
  ASSUME NEW q \in Seq(Nat), NEW n \in Nat, Increasing(q), Below(q, n)
  PROVE  Append(q, n) \in Seq(Nat) /\ Honest(Append(q, n), n)
  <1>1. PICK r : r = Append(q, n)
    OBVIOUS
  <1>2. /\ r \in Seq(Nat) /\ Len(q) \in Nat
        /\ DOMAIN r = 1..(Len(q) + 1) /\ DOMAIN q = 1..Len(q)
    BY <1>1
  <1>3. \A i \in DOMAIN q : r[i] = q[i] /\ q[i] \in Nat
    BY <1>1
  <1>4. r[Len(q) + 1] = n
    BY <1>1
  <1>5. \A i \in DOMAIN r : i = Len(q) + 1 \/ i \in DOMAIN q
    BY <1>2
  <1>6. UpTo(r, n)
    BY <1>3, <1>4, <1>5 DEF UpTo, Below
  <1>7. ASSUME NEW i \in DOMAIN r, NEW j \in DOMAIN r, i < j PROVE r[i] < r[j]
    <2>1. i \in DOMAIN q
      BY <1>2, <1>7
    <2>2. CASE j \in DOMAIN q
      BY <1>3, <1>7, <2>1, <2>2 DEF Increasing
    <2>3. CASE j = Len(q) + 1
      BY <1>3, <1>4, <2>1, <2>3 DEF Below
    <2>4. QED
      BY <1>5, <2>2, <2>3
  <1>8. QED
    BY <1>1, <1>2, <1>6, <1>7 DEF Honest, Increasing

LEMMA HonestPrior == \A n : Honest(PRIOR, n) /\ Below(PRIOR, n)
  BY DEF Honest, Below, Increasing, UpTo, PRIOR

LEMMA PriorTyped == PRIOR \in Seq(Nat) /\ NoBeliefs \in Beliefs
  BY DEF PRIOR, NoBeliefs, Beliefs

\* An engine's record, as far as the invariant needs it.
Engine == [use : {"none", "loop", "request"}, cache : Beliefs,
           turn : Turns \cup {NoTurn}, errors : 0..(MaxErrors - 1)]

LEMMA EnginesTyped ==
  /\ NoEngine \in Engine
  /\ \A use \in {"loop", "request"} : NewEngine(use) \in Engine
  <1>1. 0 \in 0..(MaxErrors - 1)
    BY MaxErrorsAssumption
  <1>2. QED
    BY <1>1, PriorTyped DEF NoEngine, NewEngine, Engine

LEMMA EngineAfterTurn ==
  ASSUME BeliefTypeOK, NEW e \in Engines
  PROVE  /\ TurnOver(e) \in Engine /\ TurnFailed(e) \in Engine
         /\ TurnOver(e).turn = NoTurn /\ TurnFailed(e).turn = NoTurn
         /\ TurnOver(e).cache \in {engine[e].cache, NoBeliefs}
         /\ TurnFailed(e).cache \in {engine[e].cache, NoBeliefs}
  <1>1. engine[e] \in Engine
    BY DEF BeliefTypeOK, Engine
  <1>2. NoEngine.turn = NoTurn /\ NoEngine.cache = NoBeliefs
    BY DEF NoEngine, NewEngine
  <1>3. /\ [engine[e] EXCEPT !.turn = NoTurn, !.errors = 0] \in Engine
        /\ [engine[e] EXCEPT !.turn = NoTurn, !.errors = 0].turn = NoTurn
        /\ [engine[e] EXCEPT !.turn = NoTurn, !.errors = 0].cache = engine[e].cache
    <2>1. 0 \in 0..(MaxErrors - 1)
      BY MaxErrorsAssumption
    <2>2. QED
      BY <1>1, <2>1 DEF Engine
  <1>4. engine[e].errors + 1 # MaxErrors =>
            /\ [engine[e] EXCEPT !.turn = NoTurn, !.errors = @ + 1] \in Engine
            /\ [engine[e] EXCEPT !.turn = NoTurn, !.errors = @ + 1].turn = NoTurn
            /\ [engine[e] EXCEPT !.turn = NoTurn, !.errors = @ + 1].cache = engine[e].cache
    <2> SUFFICES ASSUME engine[e].errors + 1 # MaxErrors
                 PROVE  /\ [engine[e] EXCEPT !.turn = NoTurn, !.errors = @ + 1] \in Engine
                        /\ [engine[e] EXCEPT !.turn = NoTurn, !.errors = @ + 1].turn = NoTurn
                        /\ [engine[e] EXCEPT !.turn = NoTurn, !.errors = @ + 1].cache
                               = engine[e].cache
      OBVIOUS
    <2>1. engine[e].errors + 1 \in 0..(MaxErrors - 1)
      BY <1>1, MaxErrorsAssumption DEF Engine
    <2>2. QED
      BY <1>1, <2>1 DEF Engine
  <1>5. QED
    BY <1>2, <1>3, <1>4, EnginesTyped DEF TurnOver, TurnFailed

\* The step of one engine that neither offers nor changes the talks.
LEMMA EngineSteps ==
  ASSUME BeliefTypeOK, NEW e \in Engines, NEW new \in Engine,
         engine' = [engine EXCEPT ![e] = new], UNCHANGED <<talks, beliefs>>
  PROVE  BeliefTypeOK'
  BY DEF BeliefTypeOK, Engine

LEMMA TalksTyped ==
  BeliefTypeOK =>
      /\ \A s \in Sides : talks.count[s] \in Nat /\ Prices(s) \in Nat
      /\ Made \in Nat /\ SideToMove \in Sides
  BY AgainstSides DEF BeliefTypeOK, Prices, Made, SideToMove, Sides

LEMMA OfferCounted ==
  ASSUME BeliefTypeOK, NEW side \in Sides, NEW status \in {"open", "review", "ended"},
         talks' = [WithOffer(side) EXCEPT !.status = status]
  PROVE  /\ talks' \in [count : [Sides -> Nat], last : Sides \cup {"NONE"},
                        status : {"open", "review", "ended"}]
         /\ Made' = Made + 1
         /\ SideToMove' = Against(side)
         /\ Prices(side)' = Prices(side)
         /\ Prices(Against(side))' = Prices(Against(side)) + 1
  <1>1. /\ talks'.count = [talks.count EXCEPT ![side] = @ + 1] /\ talks'.last = side
        /\ talks'.status = status
    BY DEF BeliefTypeOK, WithOffer
  <1>2. talks.count \in [Sides -> Nat]
    BY DEF BeliefTypeOK
  <1>3. talks' \in [count : [Sides -> Nat], last : Sides \cup {"NONE"},
                    status : {"open", "review", "ended"}]
    <2>1. WithOffer(side) \in [count : [Sides -> Nat], last : Sides \cup {"NONE"},
                               status : {"open", "review", "ended"}]
      <3>1. [talks.count EXCEPT ![side] = @ + 1] \in [Sides -> Nat]
        BY <1>2
      <3>2. WithOffer(side) = [talks EXCEPT !.count = [talks.count EXCEPT ![side] = @ + 1],
                                            !.last = side]
        BY DEF BeliefTypeOK, WithOffer
      <3>3. QED
        BY <3>1, <3>2 DEF BeliefTypeOK
    <2>2. QED
      BY <2>1
  <1>4. talks'.count[side] = talks.count[side] + 1
        /\ talks'.count[Against(side)] = talks.count[Against(side)]
    BY <1>1, <1>2, AgainstSides
  <1>5. Made' = Made + 1
    BY <1>1, <1>2 DEF Made, Sides
  <1>6. SideToMove' = Against(side)
    BY <1>1 DEF SideToMove, Against, Sides
  <1>7. QED
    BY <1>3, <1>4, <1>5, <1>6, AgainstSides DEF Prices

\* An offer is made, by an engine at the end of its turn or by a person; no turn is
\* under way any more, and caches are kept or emptied.
LEMMA OfferKeepsBeliefs ==
  ASSUME BeliefInv, NEW side \in Sides, NEW status \in {"open", "review", "ended"},
         Made < MaxOffers,
         talks' = [WithOffer(side) EXCEPT !.status = status],
         engine' \in [Engines -> Engine],
         \A e \in Engines : /\ engine'[e].turn = NoTurn
                            /\ engine'[e].cache \in {engine[e].cache, NoBeliefs},
         beliefs' \in Beliefs,
         \A s \in Sides : Honest(beliefs'[s], Prices(s))
  PROVE  BeliefInv'
  <1>1. BeliefTypeOK
    BY DEF BeliefInv
  <1>2. /\ Made' = Made + 1 /\ SideToMove' = Against(side)
        /\ Prices(side)' = Prices(side) /\ Prices(Against(side))' = Prices(Against(side)) + 1
        /\ talks' \in [count : [Sides -> Nat], last : Sides \cup {"NONE"},
                       status : {"open", "review", "ended"}]
    BY <1>1, OfferCounted
  <1>3. \A s \in Sides : Prices(s) \in Nat /\ Prices(s)' \in Nat /\ Prices(s) <= Prices(s)'
    BY <1>1, <1>2, TalksTyped, AgainstSides
  <1>4. BeliefTypeOK'
    BY <1>2 DEF BeliefTypeOK, Engine
  <1>5. Made' <= MaxOffers
    BY <1>1, <1>2, TalksTyped, MaxOffersAssumption
  <1>6. OneTurn' /\ \A e \in Engines : TurnIsOfNow(e)'
    BY DEF OneTurn, TurnIsOfNow, NoTurn
  <1>7. \A s \in Sides : Honest(beliefs'[s], Prices(s)')
    BY <1>3, HonestGrows DEF Beliefs
  <1>8. ASSUME NEW e \in Engines, NEW s \in Sides PROVE HonestCache(e, s)'
    <2>1. CASE engine'[e].cache = NoBeliefs
      BY <2>1, HonestPrior DEF HonestCache, NoBeliefs
    <2>2. CASE engine'[e].cache = engine[e].cache
      <3>1. engine[e].cache[s] \in Seq(Nat) /\ Honest(engine[e].cache[s], Prices(s))
        BY <1>1 DEF BeliefInv, HonestCache, BeliefTypeOK, Beliefs
      <3>2. Honest(engine'[e].cache[s], Prices(s)')
        BY <1>3, <2>2, <3>1, HonestGrows
      <3>3. s = Against(side) => Below(engine'[e].cache[s], Prices(s)')
        BY <1>2, <1>3, <2>2, <3>1, HonestGrows
      <3>4. QED
        BY <1>2, <3>2, <3>3 DEF HonestCache
    <2>3. QED
      BY <2>1, <2>2
  <1>9. QED
    BY <1>4, <1>5, <1>6, <1>7, <1>8 DEF BeliefInv, Honest, UpTo

\* The turns of the engines.
LEMMA TurnKeepsBeliefs ==
  ASSUME BeliefInv, NEW e \in Engines,
         \/ StartEngine(e) \/ AskModel(e) \/ AnswerTurn(e) \/ SaveTurn(e)
         \/ RefuseTurn(e) \/ FailTurn(e) \/ ExhaustModel(e) \/ EndEarly(e) \/ DropEngine(e)
  PROVE  BeliefInv'
  <1>1. /\ BeliefTypeOK /\ OneTurn /\ engine[e] \in Engine /\ TurnIsOfNow(e)
        /\ Made <= MaxOffers
        /\ \A f \in Engines : engine[f] \in Engine
        /\ TurnOver(e) \in Engine /\ TurnFailed(e) \in Engine
        /\ TurnOver(e).turn = NoTurn /\ TurnFailed(e).turn = NoTurn
        /\ TurnOver(e).cache \in {engine[e].cache, NoBeliefs}
        /\ TurnFailed(e).cache \in {engine[e].cache, NoBeliefs}
    BY EngineAfterTurn DEF BeliefInv, BeliefTypeOK, Engine
  \* A step to no turn that keeps talks, beliefs, and the cache unless it is emptied
  \* or the offers are used up.
  <1>2. ASSUME NEW new \in Engine, engine' = [engine EXCEPT ![e] = new], new.turn = NoTurn,
               talks'.count = talks.count, talks'.last = talks.last,
               talks' \in [count : [Sides -> Nat], last : Sides \cup {"NONE"},
                           status : {"open", "review", "ended"}],
               beliefs' = beliefs,
               \/ new.cache = NoBeliefs
               \/ new.cache = engine[e].cache /\ ~InTurn(e, "answered")
               \/ ~(Made < MaxOffers)
        PROVE  BeliefInv'
    <2>1. BeliefTypeOK'
      BY <1>1, <1>2 DEF BeliefTypeOK, Engine
    <2>2. /\ Made' = Made /\ SideToMove' = SideToMove
          /\ \A s \in Sides : Prices(s)' = Prices(s)
      BY <1>2 DEF Made, SideToMove, Prices
    <2>3. /\ engine'[e] = new
          /\ \A f \in Engines \ {e} : engine'[f] = engine[f]
      BY <1>1, <1>2 DEF BeliefTypeOK
    <2>4. OneTurn'
      BY <1>1, <1>2, <2>3 DEF OneTurn, NoTurn
    <2>5. ASSUME NEW f \in Engines PROVE TurnIsOfNow(f)'
      <3>1. CASE f = e
        BY <1>2, <2>3, <3>1 DEF TurnIsOfNow, NoTurn
      <3>2. CASE f # e
        <4>1. TurnIsOfNow(f) /\ engine'[f] = engine[f]
          BY <2>3, <3>2 DEF BeliefInv
        <4>2. CASE engine[f].turn.step = "none"
          BY <4>1, <4>2 DEF TurnIsOfNow
        <4>3. CASE engine[f].turn.step # "none"
          <5>1. engine[f].turn.side \in Sides
            BY <1>1, <4>3 DEF Engine, Turns, NoTurn
          <5>2. QED
            BY <1>2, <2>2, <4>1, <4>3, <5>1 DEF TurnIsOfNow
        <4>4. QED
          BY <4>2, <4>3
      <3>3. QED
        BY <3>1, <3>2
    <2>6. ASSUME Made < MaxOffers, NEW f \in Engines, NEW s \in Sides PROVE HonestCache(f, s)'
      <3>1. HonestCache(f, s)
        BY <2>6 DEF BeliefInv
      <3>2. CASE f # e
        BY <2>2, <2>3, <3>1, <3>2 DEF HonestCache, Answered
      <3>3. CASE f = e /\ new.cache = NoBeliefs
        BY <2>3, <3>3, HonestPrior DEF HonestCache, NoBeliefs
      <3>4. CASE f = e /\ new.cache = engine[e].cache /\ ~InTurn(e, "answered")
        BY <1>2, <2>2, <2>3, <3>1, <3>4 DEF HonestCache, Answered, InTurn
      <3>5. QED
        BY <1>2, <2>6, <3>2, <3>3, <3>4
    <2>7. QED
      BY <1>1, <1>2, <2>1, <2>2, <2>4, <2>5, <2>6 DEF BeliefInv
  <1>3. CASE StartEngine(e)
    <2>1. PICK use \in {"loop", "request"} : engine' = [engine EXCEPT ![e] = NewEngine(use)]
      BY <1>3 DEF StartEngine
    <2>2. NewEngine(use) \in Engine /\ NewEngine(use).turn = NoTurn
          /\ NewEngine(use).cache = NoBeliefs
      BY EnginesTyped DEF NewEngine
    <2>3. QED
      BY <1>1, <1>2, <1>3, <2>1, <2>2 DEF StartEngine, BeliefTypeOK
  <1>4. CASE DropEngine(e)
    <2>1. NoEngine \in Engine /\ NoEngine.turn = NoTurn /\ NoEngine.cache = NoBeliefs
      BY EnginesTyped DEF NoEngine, NewEngine
    <2>2. QED
      BY <1>1, <1>2, <1>4, <2>1 DEF DropEngine, BeliefTypeOK
  <1>5. CASE FailTurn(e)
    <2>1. ~InTurn(e, "answered")
      BY <1>5 DEF FailTurn, InTurn
    <2>2. QED
      BY <1>1, <1>2, <1>5, <2>1 DEF FailTurn, BeliefTypeOK
  <1>6. CASE RefuseTurn(e)
    <2>1. ~(Made < MaxOffers)
      BY <1>6, MaxOffersAssumption DEF RefuseTurn
    <2>2. QED
      BY <1>1, <1>2, <1>6, <2>1 DEF RefuseTurn, BeliefTypeOK
  <1>7. CASE ExhaustModel(e)
    <2> DEFINE new == [TurnFailed(e) EXCEPT !.cache = NoBeliefs]
    <2>1. new \in Engine /\ new.turn = NoTurn /\ new.cache = NoBeliefs
      BY <1>1, PriorTyped DEF Engine
    <2>2. /\ talks'.count = talks.count /\ talks'.last = talks.last
          /\ talks' \in [count : [Sides -> Nat], last : Sides \cup {"NONE"},
                         status : {"open", "review", "ended"}]
      BY <1>1, <1>7 DEF ExhaustModel, BeliefTypeOK
    <2>3. beliefs' = beliefs
      BY <1>1, <1>7 DEF ExhaustModel, InTurn, TurnIsOfNow
    <2>4. engine' = [engine EXCEPT ![e] = new]
      BY <1>7 DEF ExhaustModel
    <2> HIDE DEF new
    <2>5. QED
      BY <1>2, <2>1, <2>2, <2>3, <2>4
  <1>8. CASE AskModel(e)
    <2> DEFINE t == [step |-> "asked", side |-> SideToMove, seen |-> Prices(SideToMove),
                     beliefs |-> beliefs]
    <2>1. t \in Turns
      BY <1>1, TalksTyped DEF BeliefTypeOK, Turns
    <2>2. PICK new : new = [engine[e] EXCEPT !.turn = t]
      OBVIOUS
    <2>3. new \in Engine /\ new.turn = t /\ new.cache = engine[e].cache
      BY <1>1, <2>1, <2>2 DEF Engine
    <2>4. engine' = [engine EXCEPT ![e] = new]
      BY <1>8, <2>2 DEF AskModel, Prices
    <2>5. /\ engine'[e] = new
          /\ \A f \in Engines \ {e} : engine'[f] = engine[f]
      BY <1>1, <2>4 DEF BeliefTypeOK
    <2>6. \A f \in Engines : engine[f].turn.step = "none"
      BY <1>8 DEF AskModel, NobodyInTurn, InTurn
    <2>7. BeliefTypeOK' /\ UNCHANGED <<talks, beliefs>>
      BY <1>1, <1>8, <2>3, <2>4, EngineSteps DEF AskModel
    <2>8. /\ Made' = Made /\ SideToMove' = SideToMove
          /\ \A s \in Sides : Prices(s)' = Prices(s)
      BY <2>7 DEF Made, SideToMove, Prices
    <2>9. OneTurn'
      BY <2>5, <2>6 DEF OneTurn
    <2>10. TurnIsOfNow(e)'
      <3>1. engine'[e].turn = t /\ t.side \in Sides
        BY <1>1, <2>3, <2>5, TalksTyped
      <3>2. QED
        BY <2>7, <2>8, <3>1 DEF TurnIsOfNow, BeliefInv
    <2>11. \A f \in Engines \ {e} : TurnIsOfNow(f)'
      BY <2>5, <2>6 DEF TurnIsOfNow
    <2>12. ASSUME Made < MaxOffers, NEW f \in Engines, NEW s \in Sides PROVE HonestCache(f, s)'
      <3>1. HonestCache(f, s) /\ ~Answered(f, s)
        BY <2>6, <2>12 DEF BeliefInv, Answered
      <3>2. engine'[f].cache = engine[f].cache
        BY <2>3, <2>5
      <3>3. QED
        BY <2>8, <3>1, <3>2 DEF HonestCache
    <2>13. QED
      BY <1>1, <2>7, <2>8, <2>9, <2>10, <2>11, <2>12 DEF BeliefInv
  <1>9. CASE EndEarly(e)
    <2>1. PICK side \in Sides : side = engine[e].turn.side
      BY <1>1, <1>9 DEF EndEarly, InTurn, Engine, Turns, NoTurn
    <2>2. beliefs' = beliefs
      BY <1>1, <1>9 DEF EndEarly, InTurn, TurnIsOfNow
    <2>3. /\ engine' \in [Engines -> Engine]
          /\ \A f \in Engines : /\ engine'[f].turn = NoTurn
                                /\ engine'[f].cache \in {engine[f].cache, NoBeliefs}
      <3>1. \A f \in Engines \ {e} : engine'[f] = engine[f] /\ engine[f].turn.step = "none"
        BY <1>1, <1>9 DEF EndEarly, InTurn, OneTurn, BeliefTypeOK
      <3>2. \A f \in Engines \ {e} : engine[f].turn = NoTurn
        BY <1>1, <3>1 DEF Engine, Turns, NoTurn
      <3>3. QED
        BY <1>1, <1>9, <3>1, <3>2 DEF EndEarly, BeliefTypeOK, Engine
    <2>4. /\ Made < MaxOffers /\ talks' = [WithOffer(side) EXCEPT !.status = "ended"]
          /\ beliefs' \in Beliefs /\ \A s \in Sides : Honest(beliefs'[s], Prices(s))
      BY <1>1, <1>9, <2>1, <2>2 DEF EndEarly, BeliefInv, BeliefTypeOK
    <2>5. QED
      BY <2>3, <2>4, OfferKeepsBeliefs
  <1>10. CASE SaveTurn(e)
    <2>1. PICK side \in Sides : side = engine[e].turn.side
      BY <1>1, <1>10 DEF SaveTurn, InTurn, Engine, Turns, NoTurn
    <2>2. PICK status \in {"open", "review", "ended"}, evicts \in BOOLEAN :
              /\ talks' = [WithOffer(side) EXCEPT !.status = status]
              /\ engine' = [engine EXCEPT ![e] =
                     IF evicts THEN [TurnOver(e) EXCEPT !.cache = NoBeliefs] ELSE TurnOver(e)]
      BY <1>10, <2>1 DEF SaveTurn
    <2>3. /\ engine' \in [Engines -> Engine]
          /\ \A f \in Engines : /\ engine'[f].turn = NoTurn
                                /\ engine'[f].cache \in {engine[f].cache, NoBeliefs}
      <3>1. \A f \in Engines \ {e} : engine'[f] = engine[f] /\ engine[f].turn.step = "none"
        BY <1>1, <1>10, <2>2 DEF SaveTurn, InTurn, OneTurn, BeliefTypeOK
      <3>2. \A f \in Engines \ {e} : engine[f].turn = NoTurn
        BY <1>1, <3>1 DEF Engine, Turns, NoTurn
      <3>3. PICK new : new = IF evicts THEN [TurnOver(e) EXCEPT !.cache = NoBeliefs]
                             ELSE TurnOver(e)
        OBVIOUS
      <3>4. new \in Engine /\ new.turn = NoTurn /\ new.cache \in {engine[e].cache, NoBeliefs}
        <4>1. CASE evicts
          BY <1>1, <3>3, <4>1, PriorTyped DEF Engine
        <4>2. CASE ~evicts
          BY <1>1, <3>3, <4>2
        <4>3. QED
          BY <4>1, <4>2
      <3>5. engine' = [engine EXCEPT ![e] = new]
        BY <2>2, <3>3
      <3>6. QED
        BY <1>1, <3>1, <3>2, <3>4, <3>5 DEF BeliefTypeOK, Engine
    <2>4. Made < MaxOffers /\ beliefs' = engine[e].turn.beliefs
      BY <1>10 DEF SaveTurn
    <2>5. beliefs' \in Beliefs
      BY <1>1, <1>10, <2>4 DEF SaveTurn, InTurn, Engine, Turns, NoTurn
    <2>6. \A s \in Sides : Honest(beliefs'[s], Prices(s))
      BY <1>1, <1>10, <2>4 DEF SaveTurn, InTurn, TurnIsOfNow
    <2>7. QED
      BY <2>2, <2>3, <2>4, <2>5, <2>6, OfferKeepsBeliefs
  <1>11. CASE AnswerTurn(e)
    <2>0. /\ engine[e].turn \in Turns /\ engine[e].turn.step = "asked"
          /\ engine[e].cache \in Beliefs
      <3>1. InTurn(e, "asked")
        BY <1>11 DEF AnswerTurn
      <3>2. engine[e].turn \in Turns \cup {NoTurn} /\ engine[e].cache \in Beliefs
        BY <1>1 DEF Engine
      <3>3. QED
        BY <3>1, <3>2 DEF InTurn, NoTurn
    <2>1. PICK side \in Sides, n \in Nat, old \in Beliefs, cache \in Beliefs :
              /\ side = engine[e].turn.side /\ n = engine[e].turn.seen
              /\ old = engine[e].turn.beliefs /\ cache = engine[e].cache
      BY <2>0 DEF Turns
    <2>2. PICK updated, held, cached :
              /\ updated = Updated(cache, side, n)
              /\ held = IF n < 2 THEN old ELSE [old EXCEPT ![side] = updated[side]]
              /\ cached \in {updated, [updated EXCEPT ![Against(side)] = PRIOR]}
              /\ engine' = [engine EXCEPT
                     ![e].turn = [engine[e].turn EXCEPT !.step = "answered", !.beliefs = held],
                     ![e].cache = cached]
      BY <1>11, <2>1 DEF AnswerTurn
    <2>3. updated \in Beliefs
      <3>1. cache[side] \in Seq(Nat)
        BY DEF Beliefs
      <3>2. Append(cache[side], n) \in Seq(Nat)
        BY <3>1
      <3>3. [cache EXCEPT ![side] = Append(cache[side], n)] \in Beliefs
        BY <3>2 DEF Beliefs
      <3>4. QED
        BY <2>2, <3>3 DEF Updated
    <2>4. held \in Beliefs /\ cached \in Beliefs
      <3>1. \A s \in Sides : updated[s] \in Seq(Nat)
        BY <2>3 DEF Beliefs
      <3>2. [old EXCEPT ![side] = updated[side]] \in Beliefs
        BY <3>1 DEF Beliefs
      <3>3. [updated EXCEPT ![Against(side)] = PRIOR] \in Beliefs
        BY <2>3, PriorTyped DEF Beliefs
      <3>4. QED
        BY <2>2, <2>3, <3>2, <3>3
    <2>5. PICK turn, new :
              /\ turn = [engine[e].turn EXCEPT !.step = "answered", !.beliefs = held]
              /\ new = [engine[e] EXCEPT !.turn = turn, !.cache = cached]
      OBVIOUS
    <2>6. /\ turn \in Turns /\ turn.step = "answered" /\ turn.side = side
          /\ turn.seen = n /\ turn.beliefs = held
      BY <2>0, <2>1, <2>4, <2>5 DEF Turns
    <2>7. /\ new \in Engine /\ new.turn = turn /\ new.cache = cached
          /\ engine' = [engine EXCEPT ![e] = new]
      <3>1. new \in Engine /\ new.turn = turn /\ new.cache = cached
        BY <1>1, <2>4, <2>5, <2>6 DEF Engine
      <3>2. engine' = [engine EXCEPT ![e] = new]
        BY <1>1, <2>2, <2>5 DEF BeliefTypeOK
      <3>3. QED
        BY <3>1, <3>2
    <2>8. BeliefTypeOK' /\ UNCHANGED <<talks, beliefs>>
      BY <1>1, <1>11, <2>7, EngineSteps DEF AnswerTurn
    <2>9. /\ Made' = Made /\ SideToMove' = SideToMove
          /\ \A s \in Sides : Prices(s)' = Prices(s)
      BY <2>8 DEF Made, SideToMove, Prices
    <2>10. /\ engine'[e] = new
           /\ \A f \in Engines \ {e} : engine'[f] = engine[f] /\ engine[f].turn.step = "none"
      BY <1>1, <2>0, <2>7 DEF BeliefTypeOK, OneTurn
    <2>11. side = SideToMove /\ n = Prices(side) /\ old = beliefs
      BY <1>1, <2>0, <2>1 DEF TurnIsOfNow
    <2>12. ASSUME Made < MaxOffers
           PROVE  /\ \A s \in Sides : Honest(updated[s], Prices(s))
                  /\ Below(updated[Against(side)], Prices(Against(side)))
                         \/ SideToMove # Against(side)
      <3>1. \A s \in Sides : HonestCache(e, s) /\ ~Answered(e, s)
        BY <2>0, <2>12 DEF BeliefInv, Answered
      <3>2. CASE n < 2
        BY <2>1, <2>2, <2>11, <3>1, <3>2, AgainstSides DEF Updated, HonestCache
      <3>3. CASE ~(n < 2)
        <4>1. updated = [cache EXCEPT ![side] = Append(cache[side], n)]
          BY <2>2, <3>3 DEF Updated
        <4>2. cache[side] \in Seq(Nat) /\ Increasing(cache[side]) /\ Below(cache[side], n)
          BY <2>1, <2>11, <3>1 DEF HonestCache, Honest, Beliefs
        <4>3. Honest(Append(cache[side], n), n)
          BY <4>2, HonestAppended
        <4>4. \A s \in Sides \ {side} : updated[s] = cache[s] /\ Honest(cache[s], Prices(s))
          BY <2>1, <3>1, <4>1 DEF HonestCache, Beliefs
        <4>5. updated[side] = Append(cache[side], n)
          BY <4>1 DEF Beliefs
        <4>6. QED
          BY <2>11, <4>3, <4>4, <4>5, AgainstSides
      <3>4. QED
        BY <3>2, <3>3
    <2>13. ASSUME Made < MaxOffers, NEW s \in Sides PROVE Honest(held[s], Prices(s))
      <3>1. Honest(beliefs[s], Prices(s)) /\ Honest(updated[s], Prices(s))
        BY <2>12, <2>13 DEF BeliefInv
      <3>2. held[s] \in {old[s], updated[s]}
        BY <2>2 DEF Beliefs
      <3>3. QED
        BY <2>11, <3>1, <3>2
    <2>14. OneTurn'
      BY <2>10 DEF OneTurn
    <2>15. TurnIsOfNow(e)'
      <3>1. /\ engine'[e].turn.step = "answered" /\ engine'[e].turn.side = side
            /\ engine'[e].turn.seen = n /\ engine'[e].turn.beliefs = held
        BY <2>6, <2>7, <2>10
      <3>2. QED
        BY <2>9, <2>11, <2>13, <3>1 DEF TurnIsOfNow
    <2>16. \A f \in Engines \ {e} : TurnIsOfNow(f)'
      BY <2>10 DEF TurnIsOfNow
    <2>17. ASSUME Made < MaxOffers, NEW s \in Sides PROVE HonestCache(e, s)'
      <3>1. /\ engine'[e].cache = cached
            /\ engine'[e].turn.step = "answered" /\ engine'[e].turn.side = side
        BY <2>6, <2>7, <2>10
      <3>2. cached[s] \in {updated[s], PRIOR}
        BY <2>2, <2>3 DEF Beliefs
      <3>3. Honest(cached[s], Prices(s))
        BY <2>12, <2>17, <3>2, HonestPrior
      <3>4. SideToMove' = s => Answered(e, s)'
        BY <2>9, <2>11, <3>1 DEF Answered
      <3>5. QED
        BY <2>9, <3>1, <3>3, <3>4 DEF HonestCache
    <2>18. ASSUME Made < MaxOffers, NEW f \in Engines \ {e}, NEW s \in Sides
           PROVE  HonestCache(f, s)'
      <3>1. HonestCache(f, s) /\ engine'[f] = engine[f]
        BY <2>10, <2>18 DEF BeliefInv
      <3>2. QED
        BY <2>9, <3>1 DEF HonestCache, Answered
    <2>19. QED
      BY <1>1, <2>8, <2>9, <2>14, <2>15, <2>16, <2>17, <2>18 DEF BeliefInv
  <1>12. QED
    BY <1>3, <1>4, <1>5, <1>6, <1>7, <1>8, <1>9, <1>10, <1>11

\* What a person does between the turns.
LEMMA PersonKeepsBeliefs ==
  ASSUME BeliefInv, (\E side \in Sides : OverrideTurn(side)) \/ ResumeTalks
  PROVE  BeliefInv'
  <1>1. BeliefTypeOK /\ \A e \in Engines : engine[e].turn = NoTurn
    BY DEF BeliefInv, BeliefTypeOK, OverrideTurn, ResumeTalks, NobodyInTurn, InTurn, Turns, NoTurn
  <1>2. ASSUME NEW side \in Sides, OverrideTurn(side) PROVE BeliefInv'
    <2>1. /\ Made < MaxOffers /\ talks' = [WithOffer(side) EXCEPT !.status = "open"]
          /\ UNCHANGED <<beliefs, engine>>
      BY <1>2 DEF OverrideTurn
    <2>2. engine \in [Engines -> Engine] /\ beliefs \in Beliefs
      BY <1>1 DEF BeliefTypeOK, Engine
    <2>3. \A s \in Sides : Honest(beliefs[s], Prices(s))
      BY DEF BeliefInv
    <2>4. QED
      BY <1>1, <2>1, <2>2, <2>3, OfferKeepsBeliefs
  <1>3. CASE ResumeTalks
    <2>1. /\ talks'.count = talks.count /\ talks'.last = talks.last
          /\ UNCHANGED <<beliefs, engine>> /\ BeliefTypeOK'
      BY <1>1, <1>3 DEF ResumeTalks, BeliefTypeOK
    <2>2. /\ Made' = Made /\ SideToMove' = SideToMove
          /\ \A s \in Sides : Prices(s)' = Prices(s)
      BY <2>1 DEF Made, SideToMove, Prices
    <2>3. OneTurn' /\ \A e \in Engines : TurnIsOfNow(e)'
      BY <1>1, <2>1 DEF OneTurn, TurnIsOfNow, NoTurn
    <2>4. \A e \in Engines, s \in Sides : HonestCache(e, s) => HonestCache(e, s)'
      BY <2>1, <2>2 DEF HonestCache, Answered
    <2>5. QED
      BY <2>1, <2>2, <2>3, <2>4 DEF BeliefInv
  <1>4. QED
    BY <1>2, <1>3

\* A stored belief counts every price once, for any number of engines and offers.
THEOREM BeliefsCountOnce == BeliefSpec => []EvidenceCountsOnce
  <1>1. BeliefInit => BeliefInv
    <2> SUFFICES ASSUME BeliefInit PROVE BeliefInv
      OBVIOUS
    <2>1. BeliefTypeOK
      BY EnginesTyped, PriorTyped DEF BeliefInit, BeliefTypeOK, Engine, Sides
    <2>2. Made <= MaxOffers
      BY MaxOffersAssumption DEF BeliefInit, Made, Sides
    <2>3. \A e \in Engines : engine[e].turn = NoTurn /\ engine[e].cache = NoBeliefs
      BY DEF BeliefInit, NoEngine, NewEngine
    <2>4. OneTurn /\ \A e \in Engines : TurnIsOfNow(e)
      BY <2>3 DEF OneTurn, TurnIsOfNow, NoTurn
    <2>5. \A s \in Sides : Honest(beliefs[s], Prices(s))
      BY HonestPrior DEF BeliefInit, NoBeliefs
    <2>6. \A e \in Engines, s \in Sides : HonestCache(e, s)
      BY <2>3, HonestPrior DEF HonestCache, NoBeliefs
    <2>7. QED
      BY <2>1, <2>2, <2>4, <2>5, <2>6 DEF BeliefInv
  <1>2. BeliefInv /\ [BeliefNext]_beliefVars => BeliefInv'
    <2> SUFFICES ASSUME BeliefInv, [BeliefNext]_beliefVars PROVE BeliefInv'
      OBVIOUS
    <2>1. CASE BeliefNext
      BY <2>1, TurnKeepsBeliefs, PersonKeepsBeliefs DEF BeliefNext
    <2>2. CASE UNCHANGED beliefVars
      BY <2>2 DEF beliefVars, BeliefInv, BeliefTypeOK, OneTurn, TurnIsOfNow, HonestCache,
         Answered, Prices, Made, SideToMove
    <2>3. QED
      BY <2>1, <2>2
  <1>3. BeliefInv => EvidenceCountsOnce
    BY DEF BeliefInv, EvidenceCountsOnce, Honest, Prices
  <1>4. QED
    BY <1>1, <1>2, <1>3, PTL DEF BeliefSpec

-----------------------------------------------------------------------------
\* What a session is about.

LEMMA LeastExists ==
  ASSUME NEW S \in SUBSET Nat, S # {}
  PROVE  \E n \in S : \A k \in S : n <= k
  <1>1. \E x \in S : \A y \in S : <<y, x>> \notin OpToRel(<, Nat)
    BY NatLessThanWellFounded, WFMin
  <1>2. \A x, y \in Nat : <<y, x>> \notin OpToRel(<, Nat) => x <= y
    BY DEF OpToRel
  <1>3. QED
    BY <1>1, <1>2

LEMMA GreatestExists ==
  ASSUME NEW S \in SUBSET Nat, S # {}, NEW b \in Nat, \A n \in S : n <= b
  PROVE  \E n \in S : \A k \in S : k <= n
  <1> DEFINE D == {b - n : n \in S}
  <1>1. D \in SUBSET Nat /\ D # {}
    <2>1. \A n \in S : n \in Nat /\ b - n \in Nat
      OBVIOUS
    <2>2. QED
      BY <2>1
  <1>2. PICK d \in D : \A k \in D : d <= k
    BY <1>1, LeastExists
  <1>3. PICK n \in S : d = b - n
    OBVIOUS
  <1>4. \A k \in S : d <= b - k
    BY <1>2
  <1>5. QED
    BY <1>3, <1>4

\* The cheapest of some items is one of them.
LEMMA CheapestIsOne ==
  ASSUME NEW items, items # {}, \A i \in items : i.price \in Nat
  PROVE  Cheapest(items) \in items
  <1>1. PICK n \in {i.price : i \in items} : \A k \in {i.price : i \in items} : n <= k
    BY LeastExists
  <1>2. PICK i \in items : n = i.price
    BY <1>1
  <1>3. \A j \in items : i.price <= j.price
    BY <1>1, <1>2
  <1>4. QED
    BY <1>3 DEF Cheapest

\* The fields of the product are its own where it has any.
LEMMA OverlayKeepsProduct ==
  ASSUME NEW base \in RFQFields, NEW context \in RFQFields
  PROVE  Overlay(base, context).product
            = IF context.product # 0 THEN context.product ELSE base.product
  <1>1. "product" \in DOMAIN base /\ base["product"] = base.product
    BY DEF RFQFields
  <1>2. context["product"] = context.product
    BY DEF RFQFields
  <1>3. CASE context = NoFields
    BY <1>3 DEF Overlay, NoFields
  <1>4. CASE context # NoFields
    BY <1>1, <1>2, <1>4 DEF Overlay
  <1>5. QED
    BY <1>3, <1>4

\* What SelectItem chooses, for a product.
LEMMA SelectKeepsProduct ==
  ASSUME NEW fields, NEW matched \in Items \cup {NoId},
         listed \in [Items -> Offerings \cup {NoItem}]
  PROVE  LET item == SelectItem(fields, matched)
         IN  \/ matched # NoId /\ item = listed[matched]
             \/ item.product = fields.product
             \/ \A i \in Items : listed[i] = NoItem \/ listed[i].product # fields.product
  <1> DEFINE active == {listed[i] : i \in Items} \ {NoItem}
             named == {o \in active : fields.product # 0 /\ o.product = fields.product}
  <1>1. CASE matched # NoId /\ listed[matched] # NoItem
    BY <1>1 DEF SelectItem
  <1>2. CASE ~(matched # NoId /\ listed[matched] # NoItem) /\ named # {}
    <2>1. \A o \in named : o.price \in Nat /\ o.product = fields.product
      BY OfferingsAssumption DEF Listings
    <2>2. Cheapest(named) \in named
      BY <1>2, <2>1, CheapestIsOne
    <2>3. SelectItem(fields, matched) = Cheapest(named)
      BY <1>2 DEF SelectItem
    <2>4. QED
      BY <2>1, <2>2, <2>3
  <1>3. CASE named = {}
    <2>1. ASSUME NEW i \in Items, listed[i] # NoItem PROVE listed[i].product # fields.product
      <3>1. listed[i] \in active /\ listed[i].product # 0
        BY <2>1, OfferingsAssumption DEF Listings
      <3>2. QED
        BY <1>3, <3>1
    <2>2. QED
      BY <2>1
  <1>4. QED
    BY <1>1, <1>2, <1>3

MatchRows == [variant : RFQFields, item : Items \cup {NoId}]

GroundTypeOK ==
    /\ parsed_fields \in RFQFields
    /\ match_rows \in Seq(MatchRows)
    /\ listed \in [Items -> Offerings \cup {NoItem}]
    /\ talk = NoTalk \/ talk.context \in RFQFields

LEMMA NoFieldsTyped == NoFields \in RFQFields
  BY DEF NoFields, RFQFields

LEMMA RowsTyped ==
  ASSUME match_rows \in Seq(MatchRows), NEW k \in 1..Len(match_rows)
  PROVE  match_rows[k].variant \in RFQFields /\ match_rows[k].item \in Items \cup {NoId}
  <1>1. match_rows[k] \in MatchRows
    OBVIOUS
  <1>2. QED
    BY <1>1 DEF MatchRows

\* The property outlives what happens to the RFQ and to the catalogue.
LEMMA PriceStays ==
  ASSUME GroundTypeOK, PricedByItsProduct, UNCHANGED talk,
         match_rows' = match_rows \/ \E m : match_rows' = Append(match_rows, m)
  PROVE  PricedByItsProduct'
  <1>1. \A k \in 1..Len(match_rows) :
            k \in 1..Len(match_rows') /\ match_rows'[k] = match_rows[k]
    BY DEF GroundTypeOK
  <1>2. OwnProduct' = OwnProduct
    BY DEF OwnProduct
  <1>3. QED
    BY <1>1, <1>2 DEF PricedByItsProduct

\* One step of a session: it opens, or takes a turn.
LEMMA OpenTalkKeeps ==
  ASSUME GroundTypeOK, OpenTalk
  PROVE  GroundTypeOK' /\ PricedByItsProduct'
  <1>1. PICK k \in 1..Len(match_rows) :
            talk' = [stage |-> "open", round |-> 0, context |-> match_rows[k].variant,
                     product |-> 0, item |-> NoItem, choice |-> <<>>, zopa |-> <<>>]
    BY DEF OpenTalk
  <1>2. match_rows[k].variant \in RFQFields
    BY RowsTyped DEF GroundTypeOK
  <1>3. talk'.item = NoItem
    BY <1>1
  <1>4. talk'.context \in RFQFields
    BY <1>1, <1>2
  <1>5. QED
    BY <1>3, <1>4 DEF PricedByItsProduct, OpenTalk, GroundTypeOK

LEMMA GroundTurnKeeps ==
  ASSUME GroundTypeOK, GroundTurn
  PROVE  GroundTypeOK' /\ PricedByItsProduct'
  <1>0. talk # NoTalk
    <2>1. talk.stage = "open"
      BY DEF GroundTurn
    <2>2. QED
      BY <2>1 DEF NoTalk
  <1>1. talk.context \in RFQFields
    BY <1>0 DEF GroundTypeOK
  <1>2. PICK k \in 1..Len(match_rows), us \in Principals,
             failed \in {"never", "first", "later"} :
            talk' = AfterTurn(Loaded(match_rows[k], failed),
                              match_rows[k], us)
    BY DEF GroundTurn
  <1> DEFINE loaded == Loaded(match_rows[k], failed)
  <1>3. /\ talk'.context = talk.context /\ talk'.product = loaded.fields.product
        /\ talk'.item = loaded.item /\ talk'.choice = listed
    BY <1>2 DEF AfterTurn
  <1>4. UNCHANGED <<parsed_fields, match_rows, listed>>
    BY DEF GroundTurn
  <1>5. /\ loaded.fields = IF failed = "first" THEN NoFields
                           ELSE Overlay(parsed_fields, talk.context)
        /\ loaded.item = IF failed # "never" THEN NoItem
                         ELSE SelectItem(loaded.fields, match_rows[k].item)
    BY DEF Loaded
  <1> HIDE DEF loaded
  <1>6. GroundTypeOK'
    BY <1>1, <1>3, <1>4 DEF GroundTypeOK
  <1>7. CASE failed # "never"
    BY <1>3, <1>5, <1>6, <1>7 DEF PricedByItsProduct
  <1>8. CASE failed = "never"
    <2>1. loaded.fields.product = IF talk.context.product # 0 THEN talk.context.product
                                  ELSE parsed_fields.product
      BY <1>1, <1>5, <1>8, OverlayKeepsProduct DEF GroundTypeOK
    <2>2. OwnProduct' = loaded.fields.product
      BY <1>3, <2>1 DEF OwnProduct
    <2>3. match_rows[k].item \in Items \cup {NoId}
      BY RowsTyped DEF GroundTypeOK
    <2>4. \/ match_rows[k].item # NoId /\ loaded.item = listed[match_rows[k].item]
          \/ loaded.item.product = loaded.fields.product
          \/ \A i \in Items :
                listed[i] = NoItem \/ listed[i].product # loaded.fields.product
      BY <1>5, <1>8, <2>3, SelectKeepsProduct DEF GroundTypeOK
    <2>5. QED
      BY <1>3, <1>4, <1>6, <2>2, <2>4 DEF PricedByItsProduct
  <1>9. QED
    BY <1>6, <1>7, <1>8

\* A turn is priced by an item of the session's product if the seller lists one,
\* or by the item a match names: for any catalogue, RFQ and number of turns,
\* whatever the parser and the seller write in between.
THEOREM PricedByOwnProduct == GroundSpec => []PricedByItsProduct
  <1>1. GroundInit => GroundTypeOK /\ PricedByItsProduct
    BY NoFieldsTyped DEF GroundInit, GroundTypeOK, PricedByItsProduct
  <1>2. GroundTypeOK /\ PricedByItsProduct /\ [GroundNext]_groundVars
            => GroundTypeOK' /\ PricedByItsProduct'
    <2> SUFFICES ASSUME GroundTypeOK, PricedByItsProduct, [GroundNext]_groundVars
                 PROVE  GroundTypeOK' /\ PricedByItsProduct'
      OBVIOUS
    <2>1. CASE ParseMatches
      <3>1. PICK fields \in Fields, variant \in Variants \cup {NoFields},
                 item \in Items \cup {NoId} :
                /\ parsed_fields' = fields
                /\ match_rows' = Append(match_rows, [variant |-> variant, item |-> item])
        BY <2>1 DEF ParseMatches
      <3>2. /\ fields \in RFQFields
            /\ [variant |-> variant, item |-> item]
                  \in MatchRows
        BY FieldsAssumption, NoFieldsTyped DEF MatchRows
      <3>3. UNCHANGED <<listed, talk>>
        BY <2>1 DEF ParseMatches
      <3>4. GroundTypeOK'
        BY <3>1, <3>2, <3>3 DEF GroundTypeOK
      <3>5. QED
        BY <3>1, <3>3, <3>4, PriceStays
    <2>2. CASE EditListing
      <3>1. GroundTypeOK'
        BY <2>2 DEF EditListing, GroundTypeOK
      <3>2. QED
        BY <2>2, <3>1, PriceStays DEF EditListing
    <2>3. CASE OpenTalk
      BY <2>3, OpenTalkKeeps
    <2>4. CASE GroundTurn
      BY <2>4, GroundTurnKeeps
    <2>5. CASE UNCHANGED groundVars
      <3>1. GroundTypeOK'
        BY <2>5 DEF groundVars, GroundTypeOK
      <3>2. QED
        BY <2>5, <3>1, PriceStays DEF groundVars
    <2>6. QED
      BY <2>1, <2>2, <2>3, <2>4, <2>5 DEF GroundNext
  <1>3. QED
    BY <1>1, <1>2, PTL DEF GroundSpec

\* The price of a turn is that of the item or of one of its tiers.
LEMMA EffectivePriceTyped ==
  ASSUME NEW item \in Listings, NEW quantity \in Nat
  PROVE  EffectivePrice(item, quantity) \in Nat
  <1> DEFINE reached == {t \in 1..Len(item.tiers) : item.tiers[t].min <= quantity}
  <1>1. /\ item.price \in Nat
        /\ \A t \in 1..Len(item.tiers) :
              item.tiers[t].min \in Nat /\ item.tiers[t].price \in Nat
    <2> DEFINE Tier == [min : Nat, price : Nat]
    <2>1. item.price \in Nat /\ item.tiers \in Seq(Tier)
      BY DEF Listings
    <2> HIDE DEF Tier
    <2>2. \A t \in 1..Len(item.tiers) : item.tiers[t] \in Tier
      BY <2>1
    <2>3. \A x \in Tier : x.min \in Nat /\ x.price \in Nat
      BY DEF Tier
    <2>4. QED
      BY <2>1, <2>2, <2>3
  <1>2. CASE quantity = 0 \/ reached = {}
    BY <1>1, <1>2 DEF EffectivePrice
  <1>3. CASE quantity # 0 /\ reached # {}
    <2> DEFINE mins == {item.tiers[t].min : t \in reached}
    <2>1. \A t \in reached : item.tiers[t].min \in Nat /\ item.tiers[t].min <= quantity
      BY <1>1
    <2>2. mins \in SUBSET Nat /\ mins # {} /\ \A n \in mins : n <= quantity
      BY <1>3, <2>1
    <2>3. PICK n \in mins : \A m \in mins : m <= n
      BY <2>2, GreatestExists
    <2>4. \E t \in reached : \A u \in reached : item.tiers[u].min <= item.tiers[t].min
      BY <2>3
    <2> DEFINE best == CHOOSE t \in reached :
                          \A u \in reached : item.tiers[u].min <= item.tiers[t].min
    <2>5. best \in reached
      BY <2>4
    <2>6. EffectivePrice(item, quantity) = item.tiers[best].price
      BY <1>3 DEF EffectivePrice
    <2>7. QED
      BY <1>1, <2>5, <2>6
  <1>4. QED
    BY <1>2, <1>3

\* Whichever of the two budgets is the nearer, it is one.
LEMMA TotalBudgetTyped ==
  ASSUME NEW fields \in RFQFields, fields.max # 0
  PROVE  TotalBudget(fields) \in Nat \ {0}
  <1>1. fields.max \in Nat /\ fields.perUnit \in Nat /\ fields.quantity \in Nat
    BY DEF RFQFields
  <1>2. fields.perUnit # 0 /\ fields.quantity > 1 =>
            fields.perUnit * fields.quantity \in Nat \ {0}
    BY <1>1
  <1>3. QED
    BY <1>1, <1>2 DEF TotalBudget

\* The valuations a session makes of its RFQ and its item are ordered, so that
\* AdviceKeepsReservation applies to its turns: the buyer's whenever the RFQ has a
\* budget, the seller's whenever there is a price, or a rate, for the quantity.
THEOREM GroundedValuationsOrdered ==
  \A fields \in RFQFields, item \in Listings \cup {NoItem},
     us \in [risk : {"LOW", "MEDIUM", "HIGH"}, ceiling : Nat],
     them \in [risk : {"LOW", "MEDIUM", "HIGH"}, ceiling : Nat, margin : 0..100],
     score \in Nat :
        LET price == IF item = NoItem THEN NoPrice ELSE EffectivePrice(item, fields.quantity)
        IN  /\ fields.max # 0 => Ordered(BuyerValuation(fields, us), TRUE)
            /\ CostBasis(fields, price) # NoPrice =>
                  Ordered(SellerValuation(fields, price, score, them), FALSE)
  <1> TAKE fields \in RFQFields, item \in Listings \cup {NoItem},
           us \in [risk : {"LOW", "MEDIUM", "HIGH"}, ceiling : Nat],
           them \in [risk : {"LOW", "MEDIUM", "HIGH"}, ceiling : Nat, margin : 0..100],
           score \in Nat
  <1> DEFINE price == IF item = NoItem THEN NoPrice
                      ELSE EffectivePrice(item, fields.quantity)
  <1>0. price \in Nat
    <2>1. fields.quantity \in Nat
      BY DEF RFQFields
    <2>2. QED
      BY <2>1, EffectivePriceTyped DEF NoPrice
  <1> HIDE DEF price
  <1>1. /\ fields.max \in Nat /\ fields.quantity \in Nat /\ fields.unitRate \in Nat
    BY DEF RFQFields
  <1>2. ASSUME fields.max # 0 PROVE Ordered(BuyerValuation(fields, us), TRUE)
    <2>1. TotalBudget(fields) \in Nat \ {0}
      BY <1>2, TotalBudgetTyped
    <2>2. BuyerValuation(fields, us)
            = compute_buyer_valuation_from_rfq(TotalBudget(fields), us.risk)
      BY <1>2 DEF BuyerValuation
    <2>3. us.risk \in {"LOW", "MEDIUM", "HIGH"}
      OBVIOUS
    <2>4. QED
      BY <2>1, <2>2, <2>3, ValuationsOrdered
  <1>3. ASSUME CostBasis(fields, price) # NoPrice
        PROVE  Ordered(SellerValuation(fields, price, score, them), FALSE)
    <2>1. CostBasis(fields, price) \in Nat \ {0}
      BY <1>0, <1>1, <1>3 DEF CostBasis, NoPrice
    <2>2. SellerValuation(fields, price, score, them)
            = compute_seller_valuation_from_catalogue(CostBasis(fields, price), them.margin)
      BY <1>3 DEF SellerValuation
    <2>3. them.margin \in 0..100
      OBVIOUS
    <2>4. QED
      BY <2>1, <2>2, <2>3, ValuationsOrdered
  <1>4. QED
    BY <1>2, <1>3 DEF price
=============================================================================
