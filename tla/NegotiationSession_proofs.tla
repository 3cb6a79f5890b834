---------------------- MODULE NegotiationSession_proofs ----------------------
(***************************************************************************)
(* Proofs about NegotiationSession, for every number of processes, every   *)
(* limit on rounds, stalls and schema failures, all prices and all markets *)
(* a session may be held in; and about LiveStream, for every number of     *)
(* offers, events and lost connections.                                    *)
(***************************************************************************)
EXTENDS NegotiationSession, LiveStream, FiniteSetTheorems, NaturalsInduction,
        WellFoundedInduction, TLAPS

-----------------------------------------------------------------------------
\* Least and greatest elements, and induction.  They are stated of sets of numbers,
\* not of predicates: the provers instantiate a set but no operator.

LEMMA LeastExists ==
  ASSUME NEW S \in SUBSET Nat, S # {}
  PROVE  \E n \in S : \A k \in S : n <= k
  <1>1. \E x \in S : \A y \in S : <<y, x>> \notin OpToRel(<, Nat)
    BY NatLessThanWellFounded, WFMin
  <1>2. \A x, y \in Nat : <<y, x>> \notin OpToRel(<, Nat) => x <= y
    BY DEF OpToRel
  <1>3. QED
    BY <1>1, <1>2

LEMMA SetInduction ==
  ASSUME NEW G, 0 \in G, \A n \in Nat : n \in G => n + 1 \in G
  PROVE  Nat \subseteq G
  <1> SUFFICES ASSUME Nat \ G # {} PROVE FALSE
    OBVIOUS
  <1>1. PICK m \in Nat \ G : \A k \in Nat \ G : m <= k
    BY LeastExists
  <1>2. m # 0 /\ m - 1 \in Nat /\ m - 1 < m
    BY <1>1
  <1>3. m - 1 \in G
    BY <1>1, <1>2
  <1>4. m \in G
    BY <1>2, <1>3
  <1>5. QED
    BY <1>1, <1>4

LEMMA GreatestExists ==
  ASSUME NEW S \in SUBSET Nat, S # {}, NEW b \in Nat, \A n \in S : n <= b
  PROVE  \E n \in S : \A k \in S : k <= n
  <1> DEFINE Gaps == {b - n : n \in S}
  <1>1. Gaps \in SUBSET Nat /\ Gaps # {}
    <2>1. \A n \in S : b - n \in Nat
      OBVIOUS
    <2>2. QED
      BY <2>1
  <1>2. PICK m \in Gaps : \A k \in Gaps : m <= k
    <2> HIDE DEF Gaps
    <2> QED
      BY <1>1, LeastExists
  <1>3. PICK n \in S : m = b - n
    BY <1>2
  <1>4. ASSUME NEW k \in S
        PROVE  k <= n
    <2>1. k \in Nat /\ n \in Nat /\ b - k \in Gaps
      OBVIOUS
    <2> HIDE DEF Gaps
    <2>2. b - n <= b - k
      BY <1>2, <1>3, <2>1
    <2>3. QED
      BY <2>1, <2>2
  <1>5. QED
    BY <1>4

LEMMA LastOfferIsOne ==
  ASSUME NEW os \in Seq(OfferRow), NEW roles,
         NEW k \in DOMAIN os, os[k].role \in roles
  PROVE  /\ LastOffer(os, roles) \in DOMAIN os
         /\ os[LastOffer(os, roles)].role \in roles
  <1> DEFINE Of == {i \in DOMAIN os : os[i].role \in roles}
             Rounds == {os[i].round : i \in Of}
  <1>1. DOMAIN os = 1..Len(os) /\ Len(os) \in Nat
    OBVIOUS
  <1>2. \A i \in DOMAIN os : os[i].round \in 1..MaxRounds
    <2>1. \A i \in DOMAIN os : os[i] \in OfferRow
      OBVIOUS
    <2>2. \A x \in OfferRow : x.round \in 1..MaxRounds
      BY DEF OfferRow
    <2>3. QED
      BY <2>1, <2>2
  <1>3. PICK r \in Rounds : \A n \in Rounds : n <= r
    <2>1. Rounds \in SUBSET Nat /\ Rounds # {} /\ \A n \in Rounds : n <= MaxRounds
      BY <1>2, RoundsAssumption
    <2>2. MaxRounds \in Nat
      BY RoundsAssumption
    <2> HIDE DEF Rounds
    <2>3. \E r \in Rounds : \A n \in Rounds : n <= r
      BY <2>1, <2>2, GreatestExists
    <2>4. QED
      BY <2>3
  <1> DEFINE Late == {i \in Of : os[i].round = r}
  <1>4. PICK l \in Late : \A i \in Late : i <= l
    <2>1. Late \in SUBSET Nat /\ Late # {} /\ \A n \in Late : n <= Len(os)
      BY <1>1, <1>3
    <2> HIDE DEF Late
    <2>2. \E l \in Late : \A i \in Late : i <= l
      BY <1>1, <2>1, GreatestExists
    <2>3. QED
      BY <2>2
  <1>5. l \in Of /\ \A j \in Of :
            \/ os[j].round < os[l].round
            \/ os[j].round = os[l].round /\ j <= l
    <2>1. SUFFICES ASSUME NEW j \in Of
                   PROVE  \/ os[j].round < os[l].round
                          \/ os[j].round = os[l].round /\ j <= l
      BY <1>4
    <2>2. os[j].round <= r /\ os[l].round = r
      BY <1>3, <1>4
    <2>3. os[j].round = r => j <= l
      BY <1>4
    <2>4. QED
      BY <1>2, <1>4, <2>2, <2>3
  <1>6. QED
    BY <1>5 DEF LastOffer

LEMMA LastPriceIsPrice ==
  ASSUME NEW os \in Seq(OfferRow), NEW role
  PROVE  /\ LastPrice(os, role) \in Nat
         /\ (\E i \in DOMAIN os : os[i].role = role) => LastPrice(os, role) \in Nat \ {0}
         /\ (\A i \in DOMAIN os : os[i].role # role) => LastPrice(os, role) = NoPrice
  <1>1. CASE \E i \in DOMAIN os : os[i].role = role
    <2>1. PICK i \in DOMAIN os : os[i].role \in {role}
      BY <1>1
    <2>2. LastOffer(os, {role}) \in DOMAIN os
      BY <2>1, LastOfferIsOne
    <2>3. os[LastOffer(os, {role})] \in OfferRow
      BY <2>2
    <2>4. LastPrice(os, role) \in Nat \ {0}
      BY <1>1, <2>3 DEF LastPrice, OfferRow
    <2>5. QED
      BY <1>1, <2>4
  <1>2. CASE ~(\E i \in DOMAIN os : os[i].role = role)
    BY <1>2 DEF LastPrice, NoPrice
  <1>3. QED
    BY <1>1, <1>2

-----------------------------------------------------------------------------
\* The engine.

Price == Nat \ {0}

Market == [ceiling : Price, buyerTarget : Price, floor : Price,
           sellerTarget : Price, marginPrice : Nat, horizon : 1..MaxRounds]

\* A session as an operation reads it.
Talk == [row : Row, offers : Seq(OfferRow)]

Keeps(m, role, price) ==
    IF role = "BUYER" THEN price <= m.ceiling ELSE price >= m.floor

LEMMA RoundedKeeps ==
  ASSUME NEW m \in Market, NEW role \in Roles, NEW price \in Price, NEW round
  PROVE  /\ RoundedPrice(m, role, price, round) \in Price
         /\ Keeps(m, role, RoundedPrice(m, role, price, round))
  <1> DEFINE q == Quantum(round, m.horizon)
             rounded == apply_negotiation_rounding(price, round, m.horizon)
  <1>1. q \in {1, 2, 4, 10}
    BY DEF Quantum
  <1>2. rounded \in Price
    <2>1. rounded = Greater(1, ((2 * price + q) \div (2 * q)) * q)
      BY DEF apply_negotiation_rounding
    <2>2. price \in Nat
      BY DEF Price
    <2> HIDE DEF q, rounded
    <2>3. ((2 * price + q) \div (2 * q)) * q \in Int
      <3>1. CASE q = 1
        BY <2>2, <3>1
      <3>2. CASE q = 2
        BY <2>2, <3>2
      <3>3. CASE q = 4
        BY <2>2, <3>3
      <3>4. CASE q = 10
        BY <2>2, <3>4
      <3>5. QED
        BY <1>1, <3>1, <3>2, <3>3, <3>4
    <2>4. QED
      BY <2>1, <2>3 DEF Greater, Price
  <1>3. m.ceiling \in Price /\ m.floor \in Price
    BY DEF Market
  <1>4. RoundedPrice(m, role, price, round) =
            IF role = "SELLER" THEN Greater(rounded, m.floor) ELSE Lesser(rounded, m.ceiling)
    BY DEF RoundedPrice
  <1> HIDE DEF rounded
  <1>5. QED
    BY <1>2, <1>3, <1>4 DEF Greater, Lesser, Price, Keeps, Roles

LEMMA ClampedIsPrice ==
  ASSUME NEW m \in Market, NEW role \in Roles, NEW mine \in Nat,
         NEW suggested \in Price, NEW price \in Price
  PROVE  ClampedPrice(m, role, mine, GuardedPrice(m, role, suggested, price)) \in Price
  <1>1. GuardedPrice(m, role, suggested, price) \in Price
    BY DEF GuardedPrice
  <1>2. m.ceiling \in Price /\ m.floor \in Price /\ m.buyerTarget \in Price
    BY DEF Market
  <1>3. QED
    BY <1>1, <1>2 DEF ClampedPrice, Greater, Lesser, Price, NoPrice

LEMMA UnfreezeKeeps ==
  ASSUME NEW m \in Market, NEW role \in Roles, NEW mine \in Price, NEW other \in Price
  PROVE  /\ UnfreezePrice(m, role, mine, other) \in Price
         /\ Keeps(m, role, UnfreezePrice(m, role, mine, other))
  <1>1. m.ceiling \in Price /\ m.floor \in Price
    BY DEF Market
  <1>2. (mine + other) \div 2 \in Price
    BY DEF Price
  <1>3. QED
    BY <1>1, <1>2 DEF UnfreezePrice, Greater, Lesser, Price, Keeps, Roles

\* Counting a concession changes the stall counter alone.
Counted(r, mine, t) ==
    /\ t \in Row
    /\ t.status = r.status
    /\ t.round = r.round
    /\ t.recovery = r.recovery
    /\ t.agreed = r.agreed
    /\ mine = NoPrice => t.stall = 0

LEMMA TrackKeeps ==
  ASSUME NEW r \in Row, NEW mine \in Nat, NEW price \in Nat
  PROVE  Counted(r, mine, TrackConcession(r, mine, price))
  BY DEF TrackConcession, Row, Counted

\* Who is to move follows who moved last; whoever has moved before has an
\* opponent with a price.
LEMMA ProposerAnswers ==
  ASSUME NEW s \in Talk
  PROVE  /\ next_proposer(s) \in Roles
         /\ LastPrice(s.offers, next_proposer(s)) # NoPrice =>
                LastPrice(s.offers, Opponent(next_proposer(s))) \in Price
  <1>1. s.offers \in Seq(OfferRow)
    BY DEF Talk
  <1>2. CASE s.offers = <<>>
    <2>1. next_proposer(s) \in Roles
      BY <1>2 DEF next_proposer, Roles
    <2>2. LastPrice(s.offers, next_proposer(s)) = NoPrice
      BY <1>2 DEF LastPrice
    <2>3. QED
      BY <2>1, <2>2
  <1>3. CASE s.offers # <<>>
    <2> DEFINE l == LastOffer(s.offers, Roles)
    <2>1. 1 \in DOMAIN s.offers /\ s.offers[1] \in OfferRow
      BY <1>1, <1>3
    <2>2. l \in DOMAIN s.offers /\ s.offers[l].role \in Roles
      BY <1>1, <2>1, LastOfferIsOne DEF OfferRow
    <2>3. next_proposer(s) = Opponent(s.offers[l].role)
      BY <1>3 DEF next_proposer
    <2> HIDE DEF l
    <2>4. next_proposer(s) \in Roles /\ Opponent(next_proposer(s)) = s.offers[l].role
      BY <2>2, <2>3 DEF Opponent, Roles
    <2>5. LastPrice(s.offers, Opponent(next_proposer(s))) \in Price
      BY <1>1, <2>2, <2>4, LastPriceIsPrice DEF Price
    <2>6. QED
      BY <2>4, <2>5
  <1>4. QED
    BY <1>2, <1>3

\* The words in an offer's text by which the service ends a session otherwise
\* than by an agreement.
Words == {"REJECT", "WALK_AWAY", "POLICY_BREACH", "STALL_TERMINAL", "MAX_ROUNDS", "TIMEOUT"}

\* What a turn may be: the talks go on with a price within the reservation, no
\* stall, and a round left unless the stall recovery has been spent; or they
\* end, and if no word says otherwise a buyer's price is the seller's or has
\* converged with it.
GoodTurn(m, s, taken) ==
    LET role == next_proposer(s)
        other == LastPrice(s.offers, Opponent(role))
    IN  /\ taken.price \in Price
        /\ taken.row \in Row
        /\ taken.row.status = s.row.status
        /\ taken.row.round = s.row.round
        /\ taken.row.agreed = s.row.agreed
        /\ taken.terminal \in BOOLEAN
        /\ ~taken.terminal =>
              /\ taken.row.stall < StallRounds
              /\ Keeps(m, role, taken.price)
              /\ \/ s.row.round + 1 < MaxRounds
                 \/ ~s.row.recovery /\ taken.row.recovery
        /\ taken.terminal /\ taken.marks \cap Words = {} /\ role = "BUYER" /\ other # NoPrice =>
              taken.price <= other \/ check_convergence(taken.price, other)

LEMMA EndTestsGood ==
  ASSUME NEW m \in Market, NEW s \in Talk, NEW price \in Price, NEW marks,
         Keeps(m, next_proposer(s), price)
  PROVE  GoodTurn(m, s, EndTests(m, s, next_proposer(s), price, marks))
  <1> DEFINE role == next_proposer(s)
             mine == LastPrice(s.offers, role)
             other == LastPrice(s.offers, Opponent(role))
             r == TrackConcession(s.row, mine, price)
             taken == EndTests(m, s, role, price, marks)
  <1>1. role \in Roles /\ (mine # NoPrice => other \in Price)
    BY ProposerAnswers
  <1>2. s.row \in Row /\ s.offers \in Seq(OfferRow)
    BY DEF Talk
  <1>3. mine \in Nat /\ other \in Nat
    BY <1>2, LastPriceIsPrice
  <1>4. /\ r \in Row /\ r.status = s.row.status /\ r.round = s.row.round
        /\ r.recovery = s.row.recovery /\ r.agreed = s.row.agreed
        /\ mine = NoPrice => r.stall = 0
    <2>1. price \in Nat
      BY DEF Price
    <2> HIDE DEF mine
    <2>2. Counted(s.row, mine, r)
      BY <1>2, <1>3, <2>1, TrackKeeps
    <2> HIDE DEF r
    <2>3. QED
      BY <2>2 DEF Counted
  <1>5. taken = IF check_convergence(price, other) THEN Turn(price, marks, TRUE, r)
               ELSE IF HardGap(s) THEN Turn(price, {"WALK_AWAY"}, TRUE, r)
               ELSE IF r.stall >= StallRounds
               THEN IF r.recovery
                    THEN Turn(price, marks \cup {"STALL_TERMINAL"}, TRUE, r)
                    ELSE Turn(UnfreezePrice(m, role, mine, other), {}, FALSE, Recovered(r))
               ELSE IF OutOfRounds(r) THEN Turn(price, marks \cup {"MAX_ROUNDS"}, TRUE, r)
               ELSE Turn(price, marks, FALSE, r)
    BY DEF EndTests
  <1>6. Keeps(m, role, price)
    OBVIOUS
  <1>7. GoodTurn(m, s, taken) <=>
          /\ taken.price \in Price
          /\ taken.row \in Row
          /\ taken.row.status = s.row.status
          /\ taken.row.round = s.row.round
          /\ taken.row.agreed = s.row.agreed
          /\ taken.terminal \in BOOLEAN
          /\ ~taken.terminal =>
                /\ taken.row.stall < StallRounds
                /\ Keeps(m, role, taken.price)
                /\ \/ s.row.round + 1 < MaxRounds
                   \/ ~s.row.recovery /\ taken.row.recovery
          /\ taken.terminal /\ taken.marks \cap Words = {} /\ role = "BUYER" /\ other # NoPrice =>
                taken.price <= other \/ check_convergence(taken.price, other)
    BY DEF GoodTurn
  <1> SUFFICES GoodTurn(m, s, taken)
    OBVIOUS
  <1> HIDE DEF role, mine, other, r, taken
  <1>8. CASE taken = Turn(price, marks, TRUE, r) /\ check_convergence(price, other)
    BY <1>4, <1>7, <1>8 DEF Turn
  <1>9. CASE \E w \in Words, others \in {{}, marks} : taken = Turn(price, others \cup {w}, TRUE, r)
    <2>1. PICK w \in Words, others \in {{}, marks} : taken = Turn(price, others \cup {w}, TRUE, r)
      BY <1>9
    <2>2. /\ taken.price = price /\ taken.terminal = TRUE /\ taken.row = r
          /\ taken.marks = others \cup {w}
      BY <2>1 DEF Turn
    <2>3. taken.marks \cap Words # {}
      BY <2>1, <2>2
    <2>4. QED
      BY <1>4, <1>7, <2>2, <2>3, Zenon
  <1>10. CASE /\ taken = Turn(UnfreezePrice(m, role, mine, other), {}, FALSE, Recovered(r))
              /\ r.stall >= StallRounds /\ ~r.recovery
    <2>1. mine \in Price /\ other \in Price
      BY <1>1, <1>3, <1>4, <1>10, RoundsAssumption DEF Price, NoPrice
    <2>2. /\ UnfreezePrice(m, role, mine, other) \in Price
          /\ Keeps(m, role, UnfreezePrice(m, role, mine, other))
      BY <1>1, <2>1, UnfreezeKeeps
    <2>3. /\ Recovered(r) \in Row /\ Recovered(r).stall = 0 /\ Recovered(r).recovery
          /\ Recovered(r).status = r.status /\ Recovered(r).round = r.round
          /\ Recovered(r).agreed = r.agreed
      BY <1>4 DEF Recovered, Row
    <2>4. 0 < StallRounds
      BY RoundsAssumption
    <2>5. /\ taken.price = UnfreezePrice(m, role, mine, other)
          /\ taken.terminal = FALSE /\ taken.row = Recovered(r)
      BY <1>10 DEF Turn
    <2>6. ~s.row.recovery
      BY <1>4, <1>10
    <2>7. QED
      BY <1>4, <1>7, <2>2, <2>3, <2>4, <2>5, <2>6, Zenon
  <1>11. CASE /\ taken = Turn(price, marks, FALSE, r)
              /\ ~(r.stall >= StallRounds) /\ ~OutOfRounds(r)
    <2>1. r.stall < StallRounds /\ s.row.round + 1 < MaxRounds
      BY <1>4, <1>11, RoundsAssumption DEF OutOfRounds, Row
    <2>2. taken.price = price /\ taken.terminal = FALSE /\ taken.row = r
      BY <1>11 DEF Turn
    <2>3. QED
      BY <1>4, <1>6, <1>7, <2>1, <2>2, Zenon
  <1>12. CASE check_convergence(price, other)
    BY <1>5, <1>8, <1>12
  <1>13. CASE ~check_convergence(price, other) /\ HardGap(s)
    <2>1. {"WALK_AWAY"} = {} \cup {"WALK_AWAY"} /\ "WALK_AWAY" \in Words
      BY DEF Words
    <2>2. taken = Turn(price, {"WALK_AWAY"}, TRUE, r)
      BY <1>5, <1>13
    <2>3. QED
      BY <1>9, <2>1, <2>2
  <1>14. CASE ~check_convergence(price, other) /\ ~HardGap(s) /\ r.stall >= StallRounds
    <2>1. "STALL_TERMINAL" \in Words
      BY DEF Words
    <2>2. CASE r.recovery
      BY <1>5, <1>9, <1>14, <2>1, <2>2
    <2>3. CASE ~r.recovery
      BY <1>5, <1>10, <1>14, <2>3
    <2>4. QED
      BY <2>2, <2>3
  <1>15. CASE ~check_convergence(price, other) /\ ~HardGap(s) /\ ~(r.stall >= StallRounds)
    <2>1. "MAX_ROUNDS" \in Words
      BY DEF Words
    <2>2. CASE OutOfRounds(r)
      BY <1>5, <1>9, <1>15, <2>1, <2>2
    <2>3. CASE ~OutOfRounds(r)
      BY <1>5, <1>11, <1>15, <2>3
    <2>4. QED
      BY <2>2, <2>3
  <1>16. QED
    BY <1>12, <1>13, <1>14, <1>15

LEMMA MoveGood ==
  ASSUME NEW m \in Market, NEW s \in Talk, NEW suggested \in Price,
         NEW out, out.price \in Price
  PROVE  GoodTurn(m, s, Move(m, s, suggested, out))
  <1> DEFINE role == next_proposer(s)
             mine == LastPrice(s.offers, role)
             other == LastPrice(s.offers, Opponent(role))
             price == ClampedPrice(m, role, mine,
                                   GuardedPrice(m, role, suggested, out.price))
             rounded == RoundedPrice(m, role, price, s.row.round)
             taken == Move(m, s, suggested, out)
  <1>1. s.row \in Row /\ s.offers \in Seq(OfferRow) /\ role \in Roles
    BY ProposerAnswers DEF Talk
  <1>2. mine \in Nat /\ other \in Nat
    BY <1>1, LastPriceIsPrice
  <1>3. price \in Price
    BY <1>1, <1>2, ClampedIsPrice
  <1>4. GoodTurn(m, s, EndTests(m, s, role, rounded, out.marks))
    <2> HIDE DEF price
    <2>1. rounded \in Price /\ Keeps(m, role, rounded)
      BY <1>1, <1>3, RoundedKeeps
    <2> HIDE DEF rounded
    <2>2. QED
      BY <2>1, EndTestsGood
  <1>5. taken = CASE out.action = "ACCEPT" ->
                      Turn(IF other = NoPrice THEN out.price ELSE other, out.marks, TRUE, s.row)
                 [] out.action = "REJECT" ->
                      Turn(out.price, out.marks \cup {"REJECT"}, TRUE, s.row)
                 [] out.action = "OFFER" /\ Crosses(role, price, other) ->
                      Turn(IF role = "BUYER" THEN other ELSE price, {}, TRUE, s.row)
                 [] OTHER -> EndTests(m, s, role, rounded, out.marks)
    BY DEF Move
  <1>6. /\ taken.price \in Price /\ taken.row = s.row /\ taken.terminal = TRUE
        /\ taken.marks \cap Words = {} /\ role = "BUYER" /\ other # NoPrice =>
              taken.price <= other
        => GoodTurn(m, s, taken)
    BY <1>1, Zenon DEF GoodTurn
  <1> SUFFICES GoodTurn(m, s, taken)
    OBVIOUS
  <1> HIDE DEF role, mine, other, price, rounded, taken
  <1>7. CASE out.action = "ACCEPT"
    <2>1. taken = Turn(IF other = NoPrice THEN out.price ELSE other, out.marks, TRUE, s.row)
      BY <1>5, <1>7
    <2>2. /\ taken.price = IF other = NoPrice THEN out.price ELSE other
          /\ taken.row = s.row /\ taken.terminal = TRUE
      BY <2>1 DEF Turn
    <2>3. taken.price \in Price /\ (other # NoPrice => taken.price <= other)
      BY <1>2, <2>2 DEF Price, NoPrice
    <2>4. QED
      BY <1>6, <2>2, <2>3, Zenon
  <1>8. CASE out.action = "REJECT"
    <2>1. taken = Turn(out.price, out.marks \cup {"REJECT"}, TRUE, s.row)
      BY <1>5, <1>8
    <2>2. /\ taken.price = out.price /\ taken.row = s.row /\ taken.terminal = TRUE
          /\ taken.marks = out.marks \cup {"REJECT"}
      BY <2>1 DEF Turn
    <2>3. taken.marks \cap Words # {}
      BY <2>2 DEF Words
    <2>4. QED
      BY <1>6, <2>2, <2>3, Zenon
  <1>9. CASE out.action = "OFFER" /\ Crosses(role, price, other)
    <2>1. taken = Turn(IF role = "BUYER" THEN other ELSE price, {}, TRUE, s.row)
      BY <1>5, <1>9
    <2>2. /\ taken.price = IF role = "BUYER" THEN other ELSE price
          /\ taken.row = s.row /\ taken.terminal = TRUE
      BY <2>1 DEF Turn
    <2>3. taken.price \in Price /\ (role = "BUYER" => taken.price <= other)
      BY <1>2, <1>3, <1>9, <2>2 DEF Crosses, Price, NoPrice
    <2>4. QED
      BY <1>6, <2>2, <2>3, Zenon
  <1>10. CASE /\ out.action \notin {"ACCEPT", "REJECT"}
              /\ ~(out.action = "OFFER" /\ Crosses(role, price, other))
    BY <1>4, <1>5, <1>10
  <1>11. QED
    BY <1>7, <1>8, <1>9, <1>10

LEMMA WordTurnGood ==
  ASSUME NEW m, NEW s \in Talk, NEW price \in Price, NEW w \in Words, NEW r \in Row,
         r.status = s.row.status, r.round = s.row.round, r.agreed = s.row.agreed
  PROVE  GoodTurn(m, s, Turn(price, {w}, TRUE, r))
  <1> DEFINE x == Turn(price, {w}, TRUE, r)
  <1>1. x.price = price /\ x.terminal = TRUE /\ x.row = r /\ x.marks = {w}
    BY DEF Turn
  <1> SUFFICES GoodTurn(m, s, x)
    OBVIOUS
  <1> HIDE DEF x
  <1>2. x.marks \cap Words # {}
    BY <1>1
  <1>3. QED
    BY <1>1, <1>2, Zenon DEF GoodTurn

LEMMA ProcessTurnGood ==
  ASSUME NEW m \in Market, NEW s \in Talk, NEW suggested \in Price,
         NEW out, out.price \in Price
  PROVE  GoodTurn(m, s, process_turn(m, s, suggested, out))
  <1> DEFINE r == [s.row EXCEPT !.schema = @ + 1]
             t == [s EXCEPT !.row = r]
             again == [action |-> "OFFER", price |-> suggested, marks |-> {}]
             taken == process_turn(m, s, suggested, out)
  <1>1. s.row \in Row /\ s.offers \in Seq(OfferRow)
    BY DEF Talk
  <1>2. /\ r \in Row /\ r.status = s.row.status /\ r.round = s.row.round
        /\ r.agreed = s.row.agreed /\ r.recovery = s.row.recovery
    BY <1>1 DEF Row
  <1>3. t \in Talk /\ t.row = r /\ t.offers = s.offers
    BY <1>1, <1>2 DEF Talk
  <1>4. next_proposer(t) = next_proposer(s)
    <2> HIDE DEF t, r
    <2>1. t.row.status = s.row.status /\ t.offers = s.offers
      BY <1>2, <1>3
    <2>2. QED
      BY <2>1 DEF next_proposer
  <1>5. taken = IF s.row.round = 0 /\ m.ceiling < m.floor
               THEN Turn(m.sellerTarget, {"WALK_AWAY"}, TRUE, s.row)
               ELSE IF out.action # "INVALID" THEN Move(m, s, suggested, out)
               ELSE IF r.schema >= MaxSchemaFailures
               THEN Turn(1, {"POLICY_BREACH"}, TRUE, r)
               ELSE Move(m, t, suggested, again)
    BY DEF process_turn
  <1>6. GoodTurn(m, s, Move(m, s, suggested, out))
    BY MoveGood
  <1>7. GoodTurn(m, s, Move(m, t, suggested, again))
    <2>1. again.price \in Price
      OBVIOUS
    <2> HIDE DEF t, again, r
    <2>2. GoodTurn(m, t, Move(m, t, suggested, again))
      BY <1>3, <2>1, MoveGood
    <2>3. QED
      BY <1>2, <1>3, <1>4, <2>2, Zenon DEF GoodTurn
  <1>8. m.sellerTarget \in Price /\ 1 \in Price
    BY DEF Market, Price
  <1>9. \A price \in Price, w \in Words, p \in {s.row, r} :
            GoodTurn(m, s, Turn(price, {w}, TRUE, p))
    <2> HIDE DEF r
    <2>1. QED
      BY <1>1, <1>2, WordTurnGood
  <1>10. "WALK_AWAY" \in Words /\ "POLICY_BREACH" \in Words
    BY DEF Words
  <1> SUFFICES GoodTurn(m, s, taken)
    OBVIOUS
  <1> HIDE DEF r, t, again, taken
  <1>11. QED
    BY <1>5, <1>6, <1>7, <1>8, <1>9, <1>10

-----------------------------------------------------------------------------
\* What an operation stores.

LEMMA AgreedPriceIsPrice ==
  ASSUME NEW s \in Talk, NEW role, NEW price \in Price
  PROVE  AgreedPrice(s, role, price) \in Price
  <1>1. LastPrice(s.offers, "SELLER") \in Nat
    BY LastPriceIsPrice DEF Talk
  <1>2. QED
    BY <1>1 DEF AgreedPrice, Greater, Price

LEMMA AddOfferKeeps ==
  ASSUME NEW r \in Row, r.round < MaxRounds, NEW n, NEW role
  PROVE  LET added == add_offer(r, n, role)
         IN  /\ added \in Row
             /\ added.round = r.round + 1
             /\ added.stall = r.stall
             /\ added.recovery = r.recovery
             /\ added.agreed = r.agreed
             /\ Active(r) => Active(added)
             /\ r.status = "HUMAN_REVIEW" => added.status = "HUMAN_REVIEW"
  <1>1. r.round + 1 \in 0..MaxRounds
    BY RoundsAssumption DEF Row
  <1>2. r.status \in Statuses
    BY DEF Row
  <1>3. /\ transition(r.status, n, role) \in Statuses
        /\ r.status \in ActiveStatuses => transition(r.status, n, role) \in ActiveStatuses
        /\ r.status = "HUMAN_REVIEW" => transition(r.status, n, role) = "HUMAN_REVIEW"
    <2>1. \/ transition(r.status, n, role) = r.status
          \/ /\ r.status \in ActiveStatuses
             /\ transition(r.status, n, role) \in
                    {"BUYER_RESPONSE", "ROUND_LOOP", "SELLER_RESPONSE"}
      BY DEF transition, ActiveStatuses
    <2>2. QED
      BY <1>2, <2>1 DEF Statuses, ActiveStatuses
  <1>4. QED
    BY <1>1, <1>3 DEF add_offer, Row, Active

LEMMA EndOfTurnEnds ==
  ASSUME NEW s \in Talk, NEW role, NEW taken, taken.price \in Price, NEW r \in Row
  PROVE  LET ended == EndOfTurn(s, role, taken, r)
         IN  /\ ended \in Row
             /\ ended.round = r.round
             /\ ~Active(ended)
             /\ ended.status = "AGREED" =>
                    /\ ended.agreed = AgreedPrice(s, role, taken.price)
                    /\ taken.marks \cap Words = {}
  <1> DEFINE ended == EndOfTurn(s, role, taken, r)
             agreed == AgreedPrice(s, role, taken.price)
  <1>1. agreed \in Nat
    BY AgreedPriceIsPrice DEF Price
  <1>2. \/ \E status \in {"WALK_AWAY", "POLICY_BREACH", "HUMAN_REVIEW", "TIMEOUT"} :
              ended = [r EXCEPT !.status = status]
        \/ /\ ended = [r EXCEPT !.status = "AGREED", !.agreed = agreed]
           /\ taken.marks \cap Words = {}
    BY DEF EndOfTurn, Words
  <1> HIDE DEF ended, agreed
  <1>3. /\ ended \in Row
        /\ ended.round = r.round
        /\ ended.status \notin ActiveStatuses
        /\ ended.status = "AGREED" => ended.agreed = agreed /\ taken.marks \cap Words = {}
    BY <1>1, <1>2 DEF Row, Statuses, ActiveStatuses, TerminalStatuses
  <1>4. QED
    BY <1>3 DEF Active, ended, agreed

\* What a turn stores, having read s: a row r and one offer.
Turned(m, s, r, added) ==
    LET role == next_proposer(s)
        other == LastPrice(s.offers, Opponent(role))
    IN  /\ s.row.round < MaxRounds
        /\ r \in Row
        /\ r.round = s.row.round + 1
        /\ \E price \in Price :
              /\ added = <<[round |-> s.row.round + 1, role |-> role, price |-> price,
                            human |-> FALSE]>>
              /\ Active(r) =>
                    /\ r.stall < StallRounds
                    /\ Keeps(m, role, price)
                    /\ \/ s.row.round + 1 < MaxRounds
                       \/ ~s.row.recovery /\ r.recovery
              /\ r.status = "AGREED" =>
                    /\ r.agreed = AgreedPrice(s, role, price)
                    /\ role = "BUYER" /\ other # NoPrice =>
                          price <= other \/ check_convergence(price, other)

LEMMA TurnResult ==
  ASSUME NEW m \in Market, NEW s \in Talk, s.row.round < MaxRounds, Active(s.row),
         NEW taken, GoodTurn(m, s, taken)
  PROVE  LET role == next_proposer(s)
             r == add_offer(taken.row, Len(s.offers) + 1, role)
             stored == IF taken.terminal THEN EndOfTurn(s, role, taken, r) ELSE r
         IN  Turned(m, s, stored, <<[round |-> s.row.round + 1, role |-> role,
                                     price |-> taken.price, human |-> FALSE]>>)
  <1> DEFINE role == next_proposer(s)
             other == LastPrice(s.offers, Opponent(role))
             r == add_offer(taken.row, Len(s.offers) + 1, role)
             ended == EndOfTurn(s, role, taken, r)
             stored == IF taken.terminal THEN ended ELSE r
             offer == [round |-> s.row.round + 1, role |-> role,
                       price |-> taken.price, human |-> FALSE]
  <1>1. /\ taken.price \in Price
        /\ taken.row \in Row
        /\ taken.row.status = s.row.status
        /\ taken.row.round = s.row.round
        /\ taken.terminal \in BOOLEAN
        /\ ~taken.terminal =>
              /\ taken.row.stall < StallRounds
              /\ Keeps(m, role, taken.price)
              /\ \/ s.row.round + 1 < MaxRounds
                 \/ ~s.row.recovery /\ taken.row.recovery
        /\ taken.terminal /\ taken.marks \cap Words = {} /\ role = "BUYER" /\ other # NoPrice =>
              taken.price <= other \/ check_convergence(taken.price, other)
    BY Zenon DEF GoodTurn
  <1>2. Active(taken.row)
    BY <1>1 DEF Active
  <1>3. /\ r \in Row /\ r.round = s.row.round + 1 /\ Active(r)
        /\ r.stall = taken.row.stall /\ r.recovery = taken.row.recovery
    BY <1>1, <1>2, AddOfferKeeps
  <1>4. /\ ended \in Row /\ ended.round = r.round /\ ~Active(ended)
        /\ ended.status = "AGREED" =>
              ended.agreed = AgreedPrice(s, role, taken.price) /\ taken.marks \cap Words = {}
    <2> HIDE DEF r
    <2>1. QED
      BY <1>1, <1>3, EndOfTurnEnds
  <1>5. r.status # "AGREED"
    BY <1>3 DEF Active, ActiveStatuses
  <1>6. SUFFICES Turned(m, s, stored, <<offer>>)
    OBVIOUS
  <1> HIDE DEF r, ended, role
  <1>7. CASE taken.terminal
    <2>1. stored = ended
      BY <1>7
    <2> HIDE DEF stored
    <2>2. QED
      BY <1>1, <1>3, <1>4, <1>7, <2>1, Zenon DEF Turned, role
  <1>8. CASE ~taken.terminal
    <2>1. stored = r
      BY <1>8
    <2> HIDE DEF stored
    <2>2. QED
      BY <1>1, <1>3, <1>5, <1>8, <2>1, Zenon DEF Turned, role
  <1>9. QED
    BY <1>1, <1>7, <1>8

-----------------------------------------------------------------------------
\* The inductive invariant.  An operation goes on with the session it has read:
\* what the checks of its read established of that session must be enough for
\* what it stores, however late, and whatever others have stored meanwhile.

Proc == [op : Ops \cup {"none"}, loop : BOOLEAN, snap : Talk]

Open(r) == Active(r) \/ r.status = "HUMAN_REVIEW"

MayGoOn(q) ==
    /\ Active(q.snap.row) => q.snap.row.stall < StallRounds
    /\ q.op = "turn" => Active(q.snap.row)
    /\ q.op = "override" => Open(q.snap.row) /\ q.snap.row.round < MaxRounds
    /\ q.op = "terminate" => Open(q.snap.row)
    /\ q.op = "resume" => q.snap.row.status = "HUMAN_REVIEW"
    /\ q.op = "close" => q.snap.row.status \notin TerminalStatuses \ {"AGREED"}

IInv ==
    /\ market \in Markets
    /\ row \in Row
    /\ offers \in Seq(OfferRow)
    /\ expired \in BOOLEAN
    /\ proc \in [Procs -> Proc]
    /\ lock \in Procs \cup {NoProc}
    /\ NoStallBetweenTurns
    /\ \A p \in Procs : MayGoOn(proc[p])

\* A step that stores nothing, ...
Quiet ==
    /\ UNCHANGED <<market, row, offers>>
    /\ expired' \in BOOLEAN
    /\ lock' \in Procs \cup {NoProc}
    /\ \/ proc' = proc
       \/ \E p \in Procs, q \in Proc :
             /\ proc' = [proc EXCEPT ![p] = q]
             /\ \/ q.op = proc[p].op /\ q.snap = proc[p].snap
                \/ q.op = "none" /\ q.snap = NotLoaded
                \/ q.snap = Loaded /\ MayStart(p) /\ MayGoOn(q)

\* ... and a step that stores the row r and the offers added.
Overridden(s, r, added) ==
    /\ r \in Row
    /\ r.round = s.row.round + 1
    /\ r.recovery => s.row.recovery
    /\ r.stall < StallRounds
    /\ r.status # "AGREED"
    /\ \E role \in Roles, price \in HumanPrices :
          added = <<[round |-> s.row.round + 1, role |-> role, price |-> price,
                     human |-> TRUE]>>

Stored(q, r, added) ==
    \/ q.op = "turn" /\ Turned(market, q.snap, r, added)
    \/ q.op = "override" /\ Overridden(q.snap, r, added)
    \/ /\ added = <<>>
       /\ \/ q.op = "terminate" /\ r = [q.snap.row EXCEPT !.status = "FAILED"]
          \/ q.op = "resume" /\ r = resume_from_human_review(q.snap)
          \/ q.op = "close" /\ r = [row EXCEPT !.status = "CLOSED_BY_BUYER"]

Writes == \E p \in Procs : \E r, added : Stored(proc[p], r, added) /\ Save(p, r, added)

LEMMA MarketIsMarket == Markets \subseteq Market
  BY MarketsAssumption DEF Market, Price

LEMMA NewRowIsRow ==
  ASSUME NEW status \in Statuses
  PROVE  /\ NewRow(status) \in Row
         /\ NewRow(status).stall = 0
         /\ NewRow(status).round = 0
         /\ NewRow(status).status = status
  BY RoundsAssumption DEF NewRow, Row, NoPrice

LEMMA NotLoadedIsTalk ==
  /\ NotLoaded \in Talk
  /\ NotLoaded.row.stall < StallRounds
  <1>1. NewRow("INIT") \in Row /\ NewRow("INIT").stall = 0
    BY NewRowIsRow DEF Statuses, ActiveStatuses
  <1>2. <<>> \in Seq(OfferRow)
    OBVIOUS
  <1> HIDE DEF NewRow
  <1>3. NotLoaded \in Talk /\ NotLoaded.row.stall = 0
    BY <1>1, <1>2 DEF NotLoaded, Talk
  <1>4. QED
    BY <1>3, RoundsAssumption

LEMMA IdleIsProc ==
  Idle \in Proc /\ Idle.op = "none" /\ Idle.snap = NotLoaded /\ ~Idle.loop
  BY NotLoadedIsTalk DEF Idle, Proc

LEMMA Initially == Init => IInv
  <1>1. SUFFICES ASSUME Init PROVE IInv
    OBVIOUS
  <1>2. row \in Row /\ row.stall < StallRounds
    <2>1. row = NewRow("SELLER_ANCHOR") \/ row = NewRow("BUYER_ANCHOR")
      BY <1>1 DEF Init
    <2>2. row \in Row /\ row.stall = 0
      BY <2>1, NewRowIsRow DEF Statuses, ActiveStatuses
    <2>3. QED
      BY <2>2, RoundsAssumption
  <1>3. proc = [p \in Procs |-> Idle] /\ proc \in [Procs -> Proc]
    BY <1>1, IdleIsProc DEF Init
  <1>4. MayGoOn(Idle)
    BY IdleIsProc, NotLoadedIsTalk DEF MayGoOn
  <1>5. /\ market \in Markets /\ expired \in BOOLEAN
        /\ lock \in Procs \cup {NoProc} /\ offers = <<>>
    BY <1>1 DEF Init
  <1>6. QED
    BY <1>2, <1>3, <1>4, <1>5 DEF IInv, NoStallBetweenTurns

LEMMA ReadsAreQuiet ==
  ASSUME IInv, NEW p \in Procs, NEW op \in Ops, Read(p, op),
         MayGoOn([proc[p] EXCEPT !.op = op, !.snap = Loaded])
  PROVE  Quiet
  <1> DEFINE q == [proc[p] EXCEPT !.op = op, !.snap = Loaded]
  <1>1. Loaded \in Talk
    BY DEF IInv, Loaded, Talk
  <1>2. proc[p] \in Proc /\ proc \in [Procs -> Proc]
    BY DEF IInv
  <1>3. q \in Proc /\ q.snap = Loaded
    BY <1>1, <1>2 DEF Proc
  <1>4. proc' = [proc EXCEPT ![p] = q]
    BY <1>1, <1>2 DEF Read, Proc
  <1>5. MayStart(p) /\ UNCHANGED <<market, row, offers, expired, lock>>
    BY DEF Read
  <1> HIDE DEF q
  <1>6. MayGoOn(q)
    BY DEF q
  <1>7. QED
    BY <1>3, <1>4, <1>5, <1>6 DEF Quiet, IInv

LEMMA SuggestedIsPrice ==
  ASSUME NEW m, NEW s, NEW role, NEW p \in Suggestions(m, s, role)
  PROVE  p \in Price
  BY PricesAssumption DEF Suggestions, Price

LEMMA TurnStores ==
  ASSUME IInv, NEW p \in Procs, WriteTurn(p) \/ WriteTimeout(p)
  PROVE  Writes
  <1> DEFINE s == proc[p].snap
             role == next_proposer(s)
             r(taken) == add_offer(taken.row, Len(s.offers) + 1, role)
             stored(taken) == IF taken.terminal THEN EndOfTurn(s, role, taken, r(taken)) ELSE r(taken)
             offer(taken) == [round |-> s.row.round + 1, role |-> role,
                             price |-> taken.price, human |-> FALSE]
  <1>1. market \in Market /\ s \in Talk
    BY MarketIsMarket DEF IInv, Proc
  <1>2. proc[p].op = "turn" /\ can_add_offer(s.row)
    BY DEF WriteTurn, WriteTimeout
  <1>3. s.row.round < MaxRounds
    BY <1>2 DEF can_add_offer
  <1>4. Active(s.row)
    BY <1>2 DEF IInv, MayGoOn
  <1>5. \A taken : GoodTurn(market, s, taken) => Turned(market, s, stored(taken), <<offer(taken)>>)
    <2>1. SUFFICES ASSUME NEW taken, GoodTurn(market, s, taken)
                   PROVE  Turned(market, s, stored(taken), <<offer(taken)>>)
      OBVIOUS
    <2>2. QED
      BY <1>1, <1>3, <1>4, <2>1, TurnResult
  <1>6. \E taken : GoodTurn(market, s, taken) /\ Save(p, stored(taken), <<offer(taken)>>)
    <2>1. CASE WriteTurn(p)
      <3>1. PICK suggested \in Suggestions(market, s, role), out \in generate_offer :
                LET taken == process_turn(market, s, suggested, out)
                IN  Save(p, stored(taken), <<offer(taken)>>)
        BY <2>1 DEF WriteTurn
      <3>2. suggested \in Price /\ out.price \in Price
        BY SuggestedIsPrice, PricesAssumption DEF generate_offer, Price
      <3>3. GoodTurn(market, s, process_turn(market, s, suggested, out))
        BY <1>1, <3>2, ProcessTurnGood
      <3>4. QED
        BY <3>1, <3>3
    <2>2. CASE WriteTimeout(p)
      <3> DEFINE taken == Turn(1, {"TIMEOUT"}, TRUE, s.row)
      <3>1. taken.row = s.row /\ taken.terminal = TRUE
        BY DEF Turn
      <3>2. Save(p, EndOfTurn(s, role, taken, add_offer(s.row, Len(s.offers) + 1, role)),
                 <<offer(taken)>>)
        BY <2>2 DEF WriteTimeout
      <3>3. s.row \in Row /\ "TIMEOUT" \in Words /\ 1 \in Price
        BY <1>1 DEF Talk, Words, Price
      <3>4. GoodTurn(market, s, taken)
        BY <1>1, <3>3, WordTurnGood
      <3> HIDE DEF taken
      <3>5. Save(p, stored(taken), <<offer(taken)>>)
        BY <3>1, <3>2
      <3>6. QED
        BY <3>4, <3>5
    <2>3. QED
      BY <2>1, <2>2
  <1>7. PICK taken : GoodTurn(market, s, taken) /\ Save(p, stored(taken), <<offer(taken)>>)
    BY <1>6
  <1>8. Turned(market, s, stored(taken), <<offer(taken)>>)
    BY <1>5, <1>7
  <1> DEFINE a == stored(taken)
             b == <<offer(taken)>>
  <1>9. Turned(market, proc[p].snap, a, b) /\ Save(p, a, b)
    BY <1>7, <1>8
  <1> HIDE DEF a, b
  <1>10. QED
    BY <1>2, <1>9 DEF Writes, Stored

LEMMA ResumeKeeps ==
  ASSUME NEW s \in Talk
  PROVE  LET r == resume_from_human_review(s)
         IN  /\ r \in Row
             /\ r.round = s.row.round
             /\ r.stall = 0
             /\ ~r.recovery
             /\ Active(r)
  BY DEF resume_from_human_review, Talk, Row, Statuses, ActiveStatuses, Active

LEMMA OverrideStores ==
  ASSUME IInv, NEW p \in Procs, WriteOverride(p)
  PROVE  Writes
  <1> DEFINE s == proc[p].snap
             r == IF s.row.status = "HUMAN_REVIEW" THEN resume_from_human_review(s) ELSE s.row
  <1>1. PICK role \in Roles, price \in HumanPrices :
            Save(p, add_offer(r, Len(s.offers) + 1, role),
                 <<[round |-> s.row.round + 1, role |-> role, price |-> price,
                    human |-> TRUE]>>)
    BY DEF WriteOverride
  <1>2. s \in Talk /\ proc[p].op = "override"
    BY DEF IInv, Proc, WriteOverride
  <1>3. s.row \in Row
    BY <1>2 DEF Talk
  <1>4. Open(s.row) /\ s.row.round < MaxRounds /\ (Active(s.row) => s.row.stall < StallRounds)
    BY <1>2 DEF IInv, MayGoOn
  <1>5. /\ r \in Row /\ r.round = s.row.round /\ Active(r) /\ r.stall < StallRounds
        /\ r.recovery => s.row.recovery
    <2>1. CASE s.row.status = "HUMAN_REVIEW"
      <3>1. r = resume_from_human_review(s)
        BY <2>1
      <3>2. QED
        BY <1>2, <3>1, ResumeKeeps, RoundsAssumption
    <2>2. CASE s.row.status # "HUMAN_REVIEW"
      BY <1>3, <1>4, <2>2 DEF Open
    <2>3. QED
      BY <2>1, <2>2
  <1> DEFINE a == add_offer(r, Len(s.offers) + 1, role)
             b == <<[round |-> s.row.round + 1, role |-> role, price |-> price,
                     human |-> TRUE]>>
  <1>6. /\ a \in Row /\ a.round = r.round + 1 /\ a.stall = r.stall
        /\ a.recovery = r.recovery /\ Active(a)
    <2> HIDE DEF r
    <2>1. QED
      BY <1>4, <1>5, AddOfferKeeps
  <1> HIDE DEF r, a
  <1>7. a.status # "AGREED"
    BY <1>6 DEF Active, ActiveStatuses
  <1>8. Overridden(s, a, b)
    BY <1>5, <1>6, <1>7 DEF Overridden
  <1>9. Save(p, a, b)
    BY <1>1 DEF a, r
  <1> HIDE DEF b
  <1>10. QED
    BY <1>2, <1>8, <1>9 DEF Writes, Stored

\* Every step is quiet or stores what one of the operations stores.
LEMMA QuietOrWrites ==
  ASSUME IInv, [Next]_vars
  PROVE  Quiet \/ Writes
  <1> USE DEF IInv
  <1>1. CASE UNCHANGED vars
    BY <1>1 DEF vars, Quiet
  <1>2. CASE Expire \/ LockExpires
    BY <1>2 DEF Expire, LockExpires, Quiet
  <1>3. ASSUME NEW p \in Procs, RunAuto(p) \/ ResumeOnStartup(p)
        PROVE  Quiet
    <2> DEFINE q == [proc[p] EXCEPT !.loop = TRUE]
    <2>1. q \in Proc /\ q.op = proc[p].op /\ q.snap = proc[p].snap
      BY DEF Proc
    <2>2. proc' = [proc EXCEPT ![p] = q]
      BY <1>3 DEF RunAuto, ResumeOnStartup
    <2>3. UNCHANGED <<market, row, offers, expired>> /\ lock' \in Procs \cup {NoProc}
      BY <1>3 DEF RunAuto, ResumeOnStartup
    <2> HIDE DEF q
    <2>4. QED
      BY <2>1, <2>2, <2>3 DEF Quiet
  <1>4. ASSUME NEW p \in Procs, LoopEnds(p) \/ TurnRefused(p) \/ GivesUp(p) \/ Crash(p)
        PROVE  Quiet
    <2>1. proc' = [proc EXCEPT ![p] = Idle]
      BY <1>4 DEF LoopEnds, TurnRefused, GivesUp, Crash
    <2>2. UNCHANGED <<market, row, offers, expired>> /\ lock' \in Procs \cup {NoProc}
      BY <1>4 DEF LoopEnds, TurnRefused, GivesUp, Crash, Release
    <2>3. QED
      BY <2>1, <2>2, IdleIsProc DEF Quiet
  <1>5. ASSUME NEW p \in Procs,
               ReadTurn(p) \/ ReadOverride(p) \/ ReadTerminate(p) \/ ReadResume(p) \/ ReadClose(p)
        PROVE  Quiet
    <2> DEFINE q(op) == [proc[p] EXCEPT !.op = op, !.snap = Loaded]
    <2>1. proc[p] \in Proc /\ Loaded.row = row
      BY DEF Loaded
    <2>2. \A op : q(op).op = op /\ q(op).snap.row = row
      BY <2>1 DEF Proc
    <2>3. Active(row) => row.stall < StallRounds
      BY DEF NoStallBetweenTurns
    <2>4. PICK op \in Ops : /\ Read(p, op)
                            /\ op = "turn" => Active(row)
                            /\ op = "override" => Open(row) /\ row.round < MaxRounds
                            /\ op = "terminate" => Open(row)
                            /\ op = "resume" => row.status = "HUMAN_REVIEW"
                            /\ op = "close" => row.status \notin TerminalStatuses \ {"AGREED"}
      <3>1. CASE ReadTurn(p)
        BY <3>1 DEF ReadTurn, Ops
      <3>2. CASE ReadOverride(p)
        BY <3>2 DEF ReadOverride, Ops, Open
      <3>3. CASE ReadTerminate(p)
        BY <3>3 DEF ReadTerminate, Ops, Open
      <3>4. CASE ReadResume(p)
        BY <3>4 DEF ReadResume, Ops
      <3>5. CASE ReadClose(p)
        BY <3>5 DEF ReadClose, Ops
      <3>6. QED
        BY <1>5, <3>1, <3>2, <3>3, <3>4, <3>5
    <2>5. MayGoOn(q(op))
      BY <2>2, <2>3, <2>4 DEF MayGoOn
    <2>6. QED
      BY <2>4, <2>5, ReadsAreQuiet
  <1>6. ASSUME NEW p \in Procs, WriteTerminate(p) \/ WriteResume(p) \/ WriteClose(p)
        PROVE  Writes
    <2>1. PICK r : /\ Save(p, r, <<>>)
                   /\ \/ /\ proc[p].op = "terminate"
                         /\ r = [proc[p].snap.row EXCEPT !.status = "FAILED"]
                      \/ proc[p].op = "resume" /\ r = resume_from_human_review(proc[p].snap)
                      \/ proc[p].op = "close" /\ r = [row EXCEPT !.status = "CLOSED_BY_BUYER"]
      BY <1>6 DEF WriteTerminate, WriteResume, WriteClose
    <2>2. QED
      BY <2>1 DEF Writes, Stored
  <1>7. ASSUME NEW p \in Procs, WriteTurn(p) \/ WriteTimeout(p) \/ WriteOverride(p)
        PROVE  Writes
    BY <1>7, TurnStores, OverrideStores
  <1>8. QED
    BY <1>1, <1>2, <1>3, <1>4, <1>5, <1>6, <1>7 DEF Next

\* What a writing step leaves: a good row, and at most one good offer more.
LEMMA WritesWell ==
  ASSUME IInv, NEW p \in Procs, NEW r, NEW added,
         Stored(proc[p], r, added), Save(p, r, added)
  PROVE  /\ row' \in Row
         /\ Active(row') => row'.stall < StallRounds
         /\ offers' \in Seq(OfferRow)
         /\ \/ added = <<>> /\ offers' = offers
            \/ \E o \in OfferRow : added = <<o>> /\ offers' = Append(offers, o)
         /\ proc' = [proc EXCEPT ![p] = [@ EXCEPT !.op = "none", !.snap = NotLoaded]]
  <1> DEFINE q == proc[p]
  <1>1. q \in Proc /\ q.snap \in Talk /\ q.snap.row \in Row /\ MayGoOn(q) /\ row \in Row
    BY DEF IInv, Proc, Talk
  <1>2. row' = r /\ offers' = offers \o added
    BY DEF Save
  <1>3. r \in Row /\ (Active(r) => r.stall < StallRounds)
    <2>1. CASE q.op = "turn" /\ Turned(market, q.snap, r, added)
      BY <2>1 DEF Turned
    <2>2. CASE q.op = "override" /\ Overridden(q.snap, r, added)
      BY <2>2 DEF Overridden
    <2>3. CASE q.op = "terminate" /\ r = [q.snap.row EXCEPT !.status = "FAILED"]
      BY <1>1, <2>3 DEF Row, Statuses, TerminalStatuses, ActiveStatuses, Active
    <2>4. CASE q.op = "resume" /\ r = resume_from_human_review(q.snap)
      BY <1>1, <2>4, ResumeKeeps, RoundsAssumption
    <2>5. CASE q.op = "close" /\ r = [row EXCEPT !.status = "CLOSED_BY_BUYER"]
      BY <1>1, <2>5 DEF Row, Statuses, TerminalStatuses, ActiveStatuses, Active
    <2>6. QED
      BY <2>1, <2>2, <2>3, <2>4, <2>5 DEF Stored
  <1>4. added = <<>> \/ \E o \in OfferRow : added = <<o>>
    <2>1. CASE q.op = "turn" /\ Turned(market, q.snap, r, added)
      <3>1. PICK price \in Price :
                added = <<[round |-> q.snap.row.round + 1, role |-> next_proposer(q.snap),
                           price |-> price, human |-> FALSE]>>
        BY <2>1 DEF Turned
      <3>2. q.snap.row.round + 1 \in 1..MaxRounds
        BY <1>1, <2>1, RoundsAssumption DEF Turned, Row
      <3>3. next_proposer(q.snap) \in Roles
        BY <1>1, ProposerAnswers
      <3>4. [round |-> q.snap.row.round + 1, role |-> next_proposer(q.snap),
             price |-> price, human |-> FALSE] \in OfferRow
        BY <3>2, <3>3 DEF OfferRow, Price
      <3>5. QED
        BY <3>1, <3>4
    <2>2. CASE q.op = "override" /\ Overridden(q.snap, r, added)
      <3>1. PICK role \in Roles, price \in HumanPrices :
                added = <<[round |-> q.snap.row.round + 1, role |-> role,
                           price |-> price, human |-> TRUE]>>
        BY <2>2 DEF Overridden
      <3>2. q.snap.row.round + 1 \in 1..MaxRounds
        BY <1>1, <2>2, RoundsAssumption DEF MayGoOn, Row
      <3>3. [round |-> q.snap.row.round + 1, role |-> role,
             price |-> price, human |-> TRUE] \in OfferRow
        BY <3>2, HumanPricesAssumption DEF OfferRow
      <3>4. QED
        BY <3>1, <3>3
    <2>3. QED
      BY <2>1, <2>2 DEF Stored
  <1>5. /\ offers \in Seq(OfferRow)
        /\ offers \o <<>> = offers
        /\ \A o \in OfferRow : offers \o <<o>> = Append(offers, o)
        /\ \A o \in OfferRow : Append(offers, o) \in Seq(OfferRow)
    BY DEF IInv
  <1>6. /\ offers' \in Seq(OfferRow)
        /\ \/ added = <<>> /\ offers' = offers
           \/ \E o \in OfferRow : added = <<o>> /\ offers' = Append(offers, o)
    BY <1>2, <1>4, <1>5
  <1>7. proc' = [proc EXCEPT ![p] = [@ EXCEPT !.op = "none", !.snap = NotLoaded]]
    BY <1>1, NotLoadedIsTalk DEF Save, IInv, Proc
  <1>8. QED
    BY <1>2, <1>3, <1>6, <1>7

LEMMA Stepping == IInv /\ [Next]_vars => IInv'
  <1>1. SUFFICES ASSUME IInv, [Next]_vars PROVE IInv'
    OBVIOUS
  <1>2. ASSUME NEW p \in Procs, NEW q \in Proc, MayGoOn(q),
               proc' = [proc EXCEPT ![p] = q]
        PROVE  proc' \in [Procs -> Proc] /\ \A o \in Procs : MayGoOn(proc'[o])
    BY <1>1, <1>2 DEF IInv
  <1>3. CASE Quiet
    <2>1. proc' \in [Procs -> Proc] /\ \A o \in Procs : MayGoOn(proc'[o])
      <3>1. CASE proc' = proc
        BY <1>1, <3>1 DEF IInv
      <3>2. ASSUME NEW p \in Procs, NEW q \in Proc, proc' = [proc EXCEPT ![p] = q],
                   \/ q.op = proc[p].op /\ q.snap = proc[p].snap
                   \/ q.op = "none" /\ q.snap = NotLoaded
                   \/ MayGoOn(q)
            PROVE  proc' \in [Procs -> Proc] /\ \A o \in Procs : MayGoOn(proc'[o])
        <4>1. MayGoOn(q)
          <5>1. MayGoOn(proc[p])
            BY <1>1 DEF IInv
          <5>2. CASE q.op = proc[p].op /\ q.snap = proc[p].snap
            BY <5>1, <5>2 DEF MayGoOn
          <5>3. CASE q.op = "none" /\ q.snap = NotLoaded
            BY <5>3, NotLoadedIsTalk DEF MayGoOn
          <5>4. QED
            BY <3>2, <5>2, <5>3
        <4>2. QED
          BY <1>2, <3>2, <4>1
      <3>3. QED
        BY <1>3, <3>1, <3>2 DEF Quiet
    <2>2. QED
      BY <1>1, <1>3, <2>1 DEF Quiet, IInv, NoStallBetweenTurns
  <1>4. CASE Writes
    <2> PICK p \in Procs : \E r, added : Stored(proc[p], r, added) /\ Save(p, r, added)
      BY <1>4 DEF Writes
    <2>1. PICK r, added : Stored(proc[p], r, added) /\ Save(p, r, added)
      OBVIOUS
    <2>2. /\ row' \in Row /\ (Active(row') => row'.stall < StallRounds)
          /\ offers' \in Seq(OfferRow)
          /\ proc' = [proc EXCEPT ![p] = [@ EXCEPT !.op = "none", !.snap = NotLoaded]]
      BY <1>1, <2>1, WritesWell
    <2> DEFINE q == [proc[p] EXCEPT !.op = "none", !.snap = NotLoaded]
    <2>3. q \in Proc /\ q.op = "none" /\ q.snap = NotLoaded
      BY <1>1, NotLoadedIsTalk DEF IInv, Proc
    <2>4. MayGoOn(q)
      BY <2>3, NotLoadedIsTalk DEF MayGoOn
    <2>5. proc' = [proc EXCEPT ![p] = q]
      BY <2>2
    <2> HIDE DEF q
    <2>6. proc' \in [Procs -> Proc] /\ \A o \in Procs : MayGoOn(proc'[o])
      BY <1>2, <2>3, <2>4, <2>5
    <2>7. UNCHANGED <<market, expired, lock>>
      BY <2>1 DEF Save
    <2>8. QED
      BY <1>1, <2>2, <2>6, <2>7 DEF IInv, NoStallBetweenTurns
  <1>5. QED
    BY <1>1, <1>3, <1>4, QuietOrWrites

\* The session, the offers and what operations hold of them keep their types:
\* an offer has a round of the session and a positive price.
THEOREM SessionTypeCorrect == Spec => []TypeOK
  <1>1. IInv => TypeOK
    BY DEF IInv, TypeOK, Proc, Talk
  <1>2. QED
    BY Initially, Stepping, <1>1, PTL DEF Spec

\* Whatever overlaps, no session that takes turns is stored with a stall: the
\* engine's one recovery or a review has seen to it.
THEOREM NoStallIsStored == Spec => []NoStallBetweenTurns
  <1>1. IInv => NoStallBetweenTurns
    BY DEF IInv
  <1>2. QED
    BY Initially, Stepping, <1>1, PTL DEF Spec

\* Whatever the model answers and whatever overlaps: an offer after which the
\* talks go on is within the reservation of its side, or a person's.
THEOREM ReservationKept == Spec => OffersKeepReservation
  <1> DEFINE Within ==
        offers' # offers /\ Active(row') =>
          LET offer == offers'[Len(offers')]
          IN  \/ offer.human
              \/ offer.role = "BUYER" /\ offer.price <= market.ceiling
              \/ offer.role = "SELLER" /\ offer.price >= market.floor
  <1>1. IInv /\ [Next]_vars => Within
    <2>1. SUFFICES ASSUME IInv, [Next]_vars, offers' # offers, Active(row')
                   PROVE  LET offer == offers'[Len(offers')]
                          IN  \/ offer.human
                              \/ offer.role = "BUYER" /\ offer.price <= market.ceiling
                              \/ offer.role = "SELLER" /\ offer.price >= market.floor
      OBVIOUS
    <2>2. Writes
      BY <2>1, QuietOrWrites DEF Quiet
    <2> PICK p \in Procs : \E r, added : Stored(proc[p], r, added) /\ Save(p, r, added)
      BY <2>2 DEF Writes
    <2>3. PICK r, added : Stored(proc[p], r, added) /\ Save(p, r, added)
      OBVIOUS
    <2>4. PICK o \in OfferRow : added = <<o>> /\ offers' = Append(offers, o)
      BY <2>1, <2>3, WritesWell
    <2>5. offers'[Len(offers')] = o
      BY <2>1, <2>4 DEF IInv
    <2>6. row' = r
      BY <2>3 DEF Save
    <2>7. CASE Turned(market, proc[p].snap, r, added)
      <3>1. PICK price \in Price :
                /\ added = <<[round |-> proc[p].snap.row.round + 1,
                              role |-> next_proposer(proc[p].snap), price |-> price,
                              human |-> FALSE]>>
                /\ Keeps(market, next_proposer(proc[p].snap), price)
        BY <2>1, <2>6, <2>7 DEF Turned
      <3>2. /\ o.role = next_proposer(proc[p].snap) /\ o.price = price
            /\ o.role \in Roles
        BY <2>4, <3>1 DEF OfferRow
      <3>3. QED
        BY <2>5, <3>1, <3>2 DEF Keeps, Roles
    <2>8. CASE Overridden(proc[p].snap, r, added)
      <3>1. o.human
        BY <2>4, <2>8 DEF Overridden
      <3>2. QED
        BY <2>5, <3>1
    <2>9. QED
      BY <2>3, <2>4, <2>7, <2>8 DEF Stored
  <1>2. IInv /\ [Next]_vars => [Within]_vars
    BY <1>1
  <1>3. QED
    BY Initially, Stepping, <1>2, PTL DEF Spec, OffersKeepReservation

-----------------------------------------------------------------------------
\* One operation at a time: an operation in flight is the only one, and what it
\* has read is still what the tables hold.

Solo ==
    \A p \in Procs : InFlight(p) =>
        /\ proc[p].snap = Loaded
        /\ \A q \in Procs : InFlight(q) => q = p

SoloInv == IInv /\ Solo /\ RoundsAlternate /\ AgreedIsOffered

LEMMA StoredInFlight ==
  ASSUME NEW p \in Procs, NEW r, NEW added, Stored(proc[p], r, added)
  PROVE  InFlight(p)
  BY DEF Stored, InFlight

LEMMA SoloStep ==
  ASSUME ~Overlapping, IInv, [Next]_vars, Solo
  PROVE  Solo'
  <1>1. proc \in [Procs -> Proc]
    BY DEF IInv
  <1>2. CASE Quiet
    <2>1. Loaded' = Loaded
      BY <1>2 DEF Quiet, Loaded
    <2>2. CASE proc' = proc
      BY <2>1, <2>2 DEF Solo, InFlight
    <2>3. ASSUME NEW p \in Procs, NEW q \in Proc, proc' = [proc EXCEPT ![p] = q],
                 \/ q.op = proc[p].op /\ q.snap = proc[p].snap
                 \/ q.op = "none"
                 \/ q.snap = Loaded /\ MayStart(p)
          PROVE  Solo'
      <3>1. \A o \in Procs : proc'[o] = IF o = p THEN q ELSE proc[o]
        BY <1>1, <2>3
      <3>2. CASE q.op = proc[p].op /\ q.snap = proc[p].snap
        BY <2>1, <3>1, <3>2 DEF Solo, InFlight
      <3>3. CASE q.op = "none"
        BY <2>1, <3>1, <3>3 DEF Solo, InFlight
      <3>4. CASE q.snap = Loaded /\ MayStart(p)
        <4>1. \A o \in Procs : proc[o].op = "none"
          BY <3>4 DEF MayStart, InFlight
        <4>2. QED
          BY <2>1, <3>1, <3>4, <4>1 DEF Solo, InFlight
      <3>5. QED
        BY <2>3, <3>2, <3>3, <3>4
    <2>4. QED
      BY <1>2, <2>2, <2>3 DEF Quiet
  <1>3. CASE Writes
    <2> PICK p \in Procs : \E r, added : Stored(proc[p], r, added) /\ Save(p, r, added)
      BY <1>3 DEF Writes
    <2>1. PICK r, added : Stored(proc[p], r, added) /\ Save(p, r, added)
      OBVIOUS
    <2>2. \A q \in Procs : proc[q].op # "none" => q = p
      BY <2>1, StoredInFlight DEF Solo, InFlight
    <2>3. \A q \in Procs : proc'[q].op = "none"
      BY <1>1, <2>1, <2>2 DEF Save, Proc
    <2>4. QED
      BY <2>3 DEF Solo, InFlight
  <1>4. QED
    BY <1>2, <1>3, QuietOrWrites

\* What a step stores when one operation runs at a time.
LEMMA SoloWrites ==
  ASSUME IInv, [Next]_vars, Solo
  PROVE  \/ UNCHANGED <<row, offers>>
         \/ /\ \/ Turned(market, Loaded, row', <<offers'[Len(offers')]>>)
               \/ Overridden(Loaded, row', <<offers'[Len(offers')]>>)
            /\ Open(row)
            /\ Active(row) \/ Overridden(Loaded, row', <<offers'[Len(offers')]>>)
            /\ offers'[Len(offers')] \in OfferRow
            /\ offers' = Append(offers, offers'[Len(offers')])
         \/ /\ offers' = offers
            /\ row'.round = row.round
            /\ row'.status # "AGREED"
            /\ \/ Open(row)
               \/ row.status = "AGREED" /\ row' = [row EXCEPT !.status = "CLOSED_BY_BUYER"]
               \/ ~Terminal(row)
  <1>1. CASE Quiet
    BY <1>1 DEF Quiet
  <1>2. CASE Writes
    <2> PICK p \in Procs : \E r, added : Stored(proc[p], r, added) /\ Save(p, r, added)
      BY <1>2 DEF Writes
    <2>1. PICK r, added : Stored(proc[p], r, added) /\ Save(p, r, added)
      OBVIOUS
    <2>2. proc[p].snap = Loaded /\ Loaded.row = row /\ Loaded.offers = offers
      BY <2>1, StoredInFlight DEF Solo, Loaded
    <2>3. MayGoOn(proc[p]) /\ row \in Row /\ Loaded \in Talk
      BY <2>2 DEF IInv, Proc
    <2>4. row' = r /\ offers' = offers \o added
      BY <2>1 DEF Save
    <2>5. CASE \/ proc[p].op = "turn" /\ Turned(market, Loaded, r, added)
               \/ proc[p].op = "override" /\ Overridden(Loaded, r, added)
      <3>1. added # <<>>
        <4>1. CASE Turned(market, Loaded, r, added)
          <5>1. PICK price \in Price :
                    added = <<[round |-> Loaded.row.round + 1, role |-> next_proposer(Loaded),
                               price |-> price, human |-> FALSE]>>
            BY <4>1, Zenon DEF Turned
          <5>2. QED
            BY <5>1
        <4>2. CASE Overridden(Loaded, r, added)
          <5>1. PICK role \in Roles, price \in HumanPrices :
                    added = <<[round |-> Loaded.row.round + 1, role |-> role,
                               price |-> price, human |-> TRUE]>>
            BY <4>2, Zenon DEF Overridden
          <5>2. QED
            BY <5>1
        <4>3. QED
          BY <2>5, <4>1, <4>2
      <3>2. PICK o \in OfferRow : added = <<o>> /\ offers' = Append(offers, o)
        BY <2>1, <3>1, WritesWell
      <3>3. o = offers'[Len(offers')]
        BY <3>2 DEF IInv
      <3>4. Open(row) /\ (proc[p].op = "turn" => Active(row))
        BY <2>2, <2>3, <2>5 DEF MayGoOn, Open
      <3>5. QED
        BY <2>4, <2>5, <3>2, <3>3, <3>4
    <2>6. CASE added = <<>> /\ \/ proc[p].op = "terminate" /\ r = [row EXCEPT !.status = "FAILED"]
                               \/ proc[p].op = "resume" /\ r = resume_from_human_review(Loaded)
                               \/ /\ proc[p].op = "close"
                                  /\ r = [row EXCEPT !.status = "CLOSED_BY_BUYER"]
      <3>1. offers' = offers
        BY <2>4, <2>6 DEF IInv
      <3>2. CASE proc[p].op = "terminate" /\ r = [row EXCEPT !.status = "FAILED"]
        BY <2>2, <2>3, <2>4, <3>1, <3>2 DEF MayGoOn, Row
      <3>3. CASE proc[p].op = "resume" /\ r = resume_from_human_review(Loaded)
        <4>1. row'.round = row.round /\ Active(row') /\ Open(row)
          BY <2>2, <2>3, <2>4, <3>3, ResumeKeeps DEF MayGoOn, Open
        <4>2. QED
          BY <3>1, <4>1 DEF Active, ActiveStatuses
      <3>4. CASE proc[p].op = "close" /\ r = [row EXCEPT !.status = "CLOSED_BY_BUYER"]
        BY <2>2, <2>3, <2>4, <3>1, <3>4 DEF MayGoOn, Row, Terminal
      <3>5. QED
        BY <2>6, <3>2, <3>3, <3>4
    <2>7. QED
      BY <2>1, <2>2, <2>5, <2>6 DEF Stored
  <1>3. QED
    BY <1>1, <1>2, QuietOrWrites

\* When offers are numbered in order, the last of a role is the one furthest on.
LEMMA FurthestIsLast ==
  ASSUME NEW os, \A i \in DOMAIN os : os[i].round = i, DOMAIN os \subseteq Nat, NEW roles,
         NEW k \in DOMAIN os, os[k].role \in roles,
         \A i \in DOMAIN os : os[i].role \in roles => i <= k
  PROVE  LastOffer(os, roles) = k
  <1> DEFINE Of == {i \in DOMAIN os : os[i].role \in roles}
             l == LastOffer(os, roles)
  <1>1. k \in Of /\ \A j \in Of : \/ os[j].round < os[k].round
                                  \/ os[j].round = os[k].round /\ j <= k
    OBVIOUS
  <1>2. l \in Of /\ \A j \in Of : \/ os[j].round < os[l].round
                                  \/ os[j].round = os[l].round /\ j <= l
    BY <1>1 DEF LastOffer
  <1> HIDE DEF l
  <1>3. k <= l /\ l <= k /\ k \in Nat /\ l \in Nat
    BY <1>1, <1>2
  <1>4. QED
    BY <1>3 DEF l

LEMMA AskAfterSeller ==
  ASSUME NEW os \in Seq(OfferRow), \A i \in DOMAIN os : os[i].round = i,
         os # <<>>, os[Len(os)].role = "SELLER"
  PROVE  LastPrice(os, "SELLER") = os[Len(os)].price
  <1>1. Len(os) \in DOMAIN os /\ DOMAIN os \subseteq Nat /\ \A i \in DOMAIN os : i <= Len(os)
    OBVIOUS
  <1>2. LastOffer(os, {"SELLER"}) = Len(os)
    BY <1>1, FurthestIsLast
  <1>3. QED
    BY <1>1, <1>2 DEF LastPrice

LEMMA AskAfterBuyer ==
  ASSUME NEW os \in Seq(OfferRow), NEW o \in OfferRow, o.role = "BUYER",
         \A i \in DOMAIN Append(os, o) : Append(os, o)[i].round = i
  PROVE  /\ LastPrice(Append(os, o), "SELLER") = LastPrice(os, "SELLER")
         /\ LastPrice(os, "SELLER") # NoPrice =>
               \E i \in DOMAIN Append(os, o) : Append(os, o)[i].price = LastPrice(os, "SELLER")
  <1> DEFINE more == Append(os, o)
             Sells == {i \in DOMAIN os : os[i].role = "SELLER"}
  <1>1. /\ DOMAIN os = 1..Len(os) /\ Len(os) \in Nat
        /\ DOMAIN more = 1..(Len(os) + 1)
        /\ \A i \in DOMAIN os : more[i] = os[i]
        /\ more[Len(os) + 1] = o
    OBVIOUS
  <1>2. \A i \in DOMAIN more : more[i].round = i
    OBVIOUS
  <1> HIDE DEF more
  <1>3. \A i \in DOMAIN more : more[i].role = "SELLER" <=> i \in Sells
    BY <1>1
  <1>4. CASE Sells = {}
    <2>1. LastPrice(os, "SELLER") = NoPrice /\ LastPrice(more, "SELLER") = NoPrice
      BY <1>3, <1>4 DEF LastPrice
    <2>2. QED
      BY <2>1 DEF more
  <1>5. CASE Sells # {}
    <2>1. Sells \in SUBSET Nat /\ \A i \in Sells : i <= Len(os)
      BY <1>1
    <2>2. \E k \in Sells : \A i \in Sells : i <= k
      <3> HIDE DEF Sells
      <3>1. QED
        BY <1>1, <1>5, <2>1, GreatestExists
    <2>3. PICK k \in Sells : \A i \in Sells : i <= k
      BY <2>2
    <2>4. k \in DOMAIN os /\ k \in DOMAIN more /\ os[k].role = "SELLER" /\ more[k] = os[k]
      BY <1>1, <2>3
    <2>5. LastOffer(os, {"SELLER"}) = k
      <3>1. \A i \in DOMAIN os : os[i].round = i
        BY <1>1, <1>2
      <3>2. \A i \in DOMAIN os : os[i].role \in {"SELLER"} => i <= k
        BY <2>3
      <3>3. DOMAIN os \subseteq Nat
        BY <1>1
      <3>4. QED
        BY <2>4, <3>1, <3>2, <3>3, FurthestIsLast
    <2>6. LastOffer(more, {"SELLER"}) = k
      <3>1. \A i \in DOMAIN more : more[i].role \in {"SELLER"} => i <= k
        BY <1>3, <2>3
      <3>2. DOMAIN more \subseteq Nat
        BY <1>1
      <3>3. QED
        BY <1>2, <2>4, <3>1, <3>2, FurthestIsLast
    <2>7. LastPrice(os, "SELLER") = os[k].price /\ LastPrice(more, "SELLER") = os[k].price
      BY <2>4, <2>5, <2>6 DEF LastPrice
    <2>8. QED
      BY <2>4, <2>7 DEF more
  <1>6. QED
    BY <1>4, <1>5

LEMMA RoundsStep ==
  ASSUME IInv, [Next]_vars, Solo, RoundsAlternate
  PROVE  RoundsAlternate'
  <1>1. offers \in Seq(OfferRow) /\ Loaded.row = row /\ Loaded.offers = offers
    BY DEF IInv, Loaded
  <1>2. CASE UNCHANGED <<row, offers>> \/ (offers' = offers /\ row'.round = row.round)
    BY <1>2 DEF RoundsAlternate
  <1> DEFINE o == offers'[Len(offers')]
             n == Len(offers)
  <1>3. CASE /\ \/ Turned(market, Loaded, row', <<o>>)
                \/ Overridden(Loaded, row', <<o>>)
             /\ o \in OfferRow
             /\ offers' = Append(offers, o)
    <2> HIDE DEF o
    <2>1. o.round = row.round + 1 /\ row'.round = row.round + 1
      BY <1>1, <1>3 DEF Turned, Overridden
    <2>2. /\ DOMAIN offers = 1..n /\ n \in Nat /\ row.round = n
          /\ DOMAIN offers' = 1..(n + 1) /\ Len(offers') = n + 1
          /\ \A i \in 1..n : offers'[i] = offers[i]
          /\ offers'[n + 1] = o
      BY <1>1, <1>3 DEF RoundsAlternate
    <2>3. o.human \/ o.role = next_proposer(Loaded)
      BY <1>3 DEF Turned, Overridden
    <2>4. n > 0 => next_proposer(Loaded) = Opponent(offers[n].role) /\ offers[n].role \in Roles
      <3>1. SUFFICES ASSUME n > 0
                     PROVE  /\ next_proposer(Loaded) = Opponent(offers[n].role)
                            /\ offers[n].role \in Roles
        OBVIOUS
      <3>2. n \in DOMAIN offers /\ offers[n] \in OfferRow /\ offers # <<>>
        BY <1>1, <2>2, <3>1
      <3>3. offers[n].role \in Roles
        BY <3>2 DEF OfferRow
      <3>4. /\ \A i \in DOMAIN offers : offers[i].round = i
            /\ \A i \in DOMAIN offers : i <= n
            /\ DOMAIN offers \subseteq Nat
        BY <2>2 DEF RoundsAlternate
      <3>5. LastOffer(offers, Roles) = n
        <4> HIDE DEF n
        <4>1. QED
          BY <3>2, <3>3, <3>4, FurthestIsLast
      <3>6. QED
        BY <1>1, <3>2, <3>3, <3>5 DEF next_proposer
    <2>5. n > 0 /\ ~o.human => o.role # offers[n].role
      BY <2>3, <2>4 DEF Opponent, Roles
    <2>6. row'.round = Len(offers')
      BY <2>1, <2>2
    <2>7. ASSUME NEW i \in DOMAIN offers'
          PROVE  /\ offers'[i].round = i
                 /\ i > 1 /\ offers'[i].role = offers'[i-1].role => offers'[i].human
      <3>1. CASE i \in 1..n
        <4>1. i > 1 => i - 1 \in 1..n
          BY <2>2, <3>1
        <4>2. offers'[i] = offers[i] /\ (i > 1 => offers'[i-1] = offers[i-1])
          BY <2>2, <3>1, <4>1
        <4>3. QED
          BY <2>2, <3>1, <4>2 DEF RoundsAlternate
      <3>2. CASE i = n + 1
        <4>1. offers'[i] = o /\ i - 1 = n
          BY <2>2, <3>2
        <4>2. i > 1 => n > 0 /\ offers'[i-1] = offers[n]
          BY <2>2, <3>2
        <4>3. QED
          BY <2>1, <2>2, <2>5, <3>2, <4>1, <4>2
      <3>3. QED
        BY <2>2, <2>7, <3>1, <3>2
    <2>8. QED
      BY <2>6, <2>7 DEF RoundsAlternate
  <1>4. QED
    BY <1>2, <1>3, SoloWrites

LEMMA AgreedStep ==
  ASSUME IInv, [Next]_vars, Solo, AgreedIsOffered, RoundsAlternate'
  PROVE  AgreedIsOffered'
  <1> DEFINE o == offers'[Len(offers')]
  <1>1. /\ offers \in Seq(OfferRow) /\ Loaded.row = row /\ Loaded.offers = offers
        /\ Loaded \in Talk /\ row \in Row
    BY DEF IInv, Loaded, Talk
  <1>2. CASE UNCHANGED <<row, offers>>
    BY <1>2 DEF AgreedIsOffered
  <1>3. CASE row'.status # "AGREED"
    BY <1>3 DEF AgreedIsOffered
  <1>4. CASE /\ row'.status = "AGREED"
             /\ Turned(market, Loaded, row', <<o>>)
             /\ o \in OfferRow
             /\ offers' = Append(offers, o)
    <2> DEFINE other == LastPrice(offers, Opponent(o.role))
               ask == LastPrice(offers, "SELLER")
               newask == LastPrice(offers', "SELLER")
    <2> HIDE DEF o
    <2>1. /\ o.role = next_proposer(Loaded) /\ o.role \in Roles /\ o.price \in Price
          /\ row'.agreed = AgreedPrice(Loaded, o.role, o.price)
          /\ o.role = "BUYER" /\ other # NoPrice =>
                 o.price <= other \/ check_convergence(o.price, other)
      <3>1. PICK price \in Price :
               /\ <<o>> = <<[round |-> row.round + 1, role |-> next_proposer(Loaded),
                             price |-> price, human |-> FALSE]>>
               /\ row'.agreed = AgreedPrice(Loaded, next_proposer(Loaded), price)
               /\ LET sofar == LastPrice(offers, Opponent(next_proposer(Loaded)))
                  IN  next_proposer(Loaded) = "BUYER" /\ sofar # NoPrice =>
                          price <= sofar \/ check_convergence(price, sofar)
        BY <1>1, <1>4, Zenon DEF Turned
      <3>2. o.role = next_proposer(Loaded) /\ o.price = price
        BY <3>1
      <3>3. QED
        BY <1>4, <3>1, <3>2 DEF OfferRow
    <2>2. /\ offers' \in Seq(OfferRow) /\ offers' # <<>>
          /\ Len(offers') \in DOMAIN offers' /\ offers'[Len(offers')] = o
          /\ \A i \in DOMAIN offers' : offers'[i].round = i
      BY <1>1, <1>4 DEF RoundsAlternate
    <2>3. ask \in Nat
      BY <1>1, LastPriceIsPrice
    <2>4. row'.agreed = IF o.role = "SELLER" THEN o.price ELSE Greater(o.price, ask)
      BY <1>1, <2>1 DEF AgreedPrice
    <2>5. CASE o.role = "SELLER"
      <3>1. newask = o.price /\ row'.agreed = o.price
        BY <2>2, <2>4, <2>5, AskAfterSeller
      <3>2. newask <= row'.agreed
        BY <2>1, <3>1 DEF Price
      <3>3. QED
        BY <2>2, <3>1, <3>2 DEF AgreedIsOffered
    <2>6. CASE o.role = "BUYER"
      <3>1. /\ newask = ask
            /\ ask # NoPrice => \E i \in DOMAIN offers' : offers'[i].price = ask
        BY <1>1, <1>4, <2>2, <2>6, AskAfterBuyer
      <3>2. other = ask /\ row'.agreed = Greater(o.price, ask)
        BY <2>4, <2>6 DEF Opponent
      <3>3. o.price \in Nat \ {0}
        BY <2>1 DEF Price
      <3> HIDE DEF ask, newask, other
      <3>4. CASE o.price > ask
        <4>1. row'.agreed = o.price /\ ask <= row'.agreed
          BY <2>3, <3>2, <3>3, <3>4 DEF Greater
        <4>2. ask # NoPrice => check_convergence(o.price, ask)
          <5>1. ~(o.price <= ask)
            BY <2>3, <3>3, <3>4
          <5>2. QED
            BY <2>1, <2>6, <3>2, <5>1
        <4>3. QED
          BY <2>2, <3>1, <4>1, <4>2 DEF AgreedIsOffered, newask
      <3>5. CASE ~(o.price > ask)
        <4>1. row'.agreed = ask /\ ask # NoPrice /\ ask <= ask
          BY <2>3, <3>2, <3>3, <3>5 DEF Greater, NoPrice
        <4>2. QED
          BY <3>1, <4>1 DEF AgreedIsOffered, newask
      <3>6. QED
        BY <3>4, <3>5
    <2>7. QED
      BY <2>1, <2>5, <2>6 DEF Roles
  <1>5. Overridden(Loaded, row', <<o>>) => row'.status # "AGREED"
    BY DEF Overridden
  <1>6. QED
    BY <1>2, <1>3, <1>4, <1>5, SoloWrites

LEMMA SoloInitially == Init => SoloInv
  <1>1. SUFFICES ASSUME Init PROVE SoloInv
    OBVIOUS
  <1>2. row.round = 0 /\ row.status # "AGREED"
    <2>1. row = NewRow("SELLER_ANCHOR") \/ row = NewRow("BUYER_ANCHOR")
      BY <1>1 DEF Init
    <2>2. QED
      BY <2>1, NewRowIsRow DEF Statuses, ActiveStatuses
  <1>3. offers = <<>> /\ \A p \in Procs : proc[p].op = "none"
    BY <1>1, IdleIsProc DEF Init
  <1>4. RoundsAlternate /\ AgreedIsOffered /\ Solo
    BY <1>2, <1>3 DEF RoundsAlternate, AgreedIsOffered, Solo, InFlight
  <1>5. QED
    BY <1>1, <1>4, Initially DEF SoloInv

LEMMA SoloStepping ==
  ASSUME ~Overlapping
  PROVE  SoloInv /\ [Next]_vars => SoloInv'
  BY Stepping, SoloStep, RoundsStep, AgreedStep DEF SoloInv

\* One operation at a time, whatever the model answers and people type in: an
\* agreement is at a price that was offered, the seller's last or above it, and
\* above it only by what passes for converged.
THEOREM AgreementsAreOffered ==
  ASSUME ~Overlapping
  PROVE  Spec => []AgreedIsOffered
  <1>1. SoloInv => AgreedIsOffered
    BY DEF SoloInv
  <1>2. QED
    BY SoloInitially, SoloStepping, <1>1, PTL DEF Spec

\* One operation at a time: rounds are numbered in order, and agents take turns.
THEOREM RoundsInOrder ==
  ASSUME ~Overlapping
  PROVE  Spec => []RoundsAlternate
  <1>1. SoloInv => RoundsAlternate
    BY DEF SoloInv
  <1>2. QED
    BY SoloInitially, SoloStepping, <1>1, PTL DEF Spec

\* One operation at a time: a finished session stays as it finished, unless its
\* buyer drops the agreement for another supplier.
THEOREM FinishedForGood ==
  ASSUME ~Overlapping
  PROVE  Spec => FinishedStays
  <1> DEFINE Stays == Terminal(row) =>
        \/ row' = row
        \/ row.status = "AGREED" /\ row' = [row EXCEPT !.status = "CLOSED_BY_BUYER"]
  <1>1. SoloInv /\ [Next]_vars => Stays
    <2>1. Open(row) => ~Terminal(row)
      BY DEF Open, Active, Terminal, ActiveStatuses, TerminalStatuses
    <2>2. QED
      BY <2>1, SoloWrites DEF SoloInv
  <1>2. SoloInv /\ [Next]_vars => [Stays]_vars
    BY <1>1
  <1>3. QED
    BY SoloInitially, SoloStepping, <1>2, PTL DEF Spec, FinishedStays

\* One operation at a time: the turn that takes the last round ends the talks,
\* unless it is a person's or the one that spends the stall recovery.
THEOREM LastRoundSettles ==
  ASSUME ~Overlapping
  PROVE  Spec => LastRoundDecides
  <1> DEFINE Decides ==
        row.round < MaxRounds /\ row'.round = MaxRounds /\ Active(row') =>
            \/ ~row.recovery /\ row'.recovery
            \/ offers'[Len(offers')].human
  <1>1. SoloInv /\ [Next]_vars => Decides
    <2>1. SUFFICES ASSUME SoloInv, [Next]_vars, row.round < MaxRounds,
                          row'.round = MaxRounds, Active(row')
                   PROVE  \/ ~row.recovery /\ row'.recovery
                          \/ offers'[Len(offers')].human
      OBVIOUS
    <2> DEFINE o == offers'[Len(offers')]
    <2>2. row.round \in Nat /\ MaxRounds \in Nat /\ Loaded.row = row
      BY <2>1, RoundsAssumption DEF SoloInv, IInv, Row, Loaded
    <2>3. Turned(market, Loaded, row', <<o>>) \/ Overridden(Loaded, row', <<o>>)
      <3>1. row'.round # row.round
        BY <2>1, <2>2
      <3>2. QED
        BY <2>1, <3>1, SoloWrites DEF SoloInv
    <2> HIDE DEF o
    <2>4. CASE Turned(market, Loaded, row', <<o>>)
      <3>1. row'.round = row.round + 1
        BY <2>2, <2>4 DEF Turned
      <3>2. \/ row.round + 1 < MaxRounds
            \/ ~row.recovery /\ row'.recovery
        BY <2>1, <2>2, <2>4, Zenon DEF Turned
      <3>3. QED
        BY <2>1, <2>2, <3>1, <3>2
    <2>5. CASE Overridden(Loaded, row', <<o>>)
      <3>1. o.human
        BY <2>5 DEF Overridden
      <3>2. QED
        BY <3>1 DEF o
    <2>6. QED
      BY <2>3, <2>4, <2>5
  <1>2. SoloInv /\ [Next]_vars => [Decides]_vars
    BY <1>1
  <1>3. QED
    BY SoloInitially, SoloStepping, <1>2, PTL DEF Spec, LastRoundDecides

\* One operation at a time: the session lives as Deal sees it.
THEOREM SessionLives ==
  ASSUME ~Overlapping
  PROVE  Spec => LifeSpec
  <1>1. Init => Life!Init
    <2> SUFFICES ASSUME Init PROVE Life!Init
      OBVIOUS
    <2>1. row.status \in {"SELLER_ANCHOR", "BUYER_ANCHOR"}
      BY DEF Init, NewRow
    <2>2. QED
      BY <2>1 DEF Life!Init, SessionStage, Terminal, TerminalStatuses
  <1>2. SoloInv /\ [Next]_vars => [Life!Next]_SessionStage
    <2> SUFFICES ASSUME SoloInv, [Next]_vars PROVE [Life!Next]_SessionStage
      OBVIOUS
    <2>1. CASE ~Terminal(row)
      <3>1. SessionStage = "OPEN" /\ SessionStage' \in {"OPEN", "AGREED", "OVER"}
        BY <2>1 DEF SessionStage, Terminal, TerminalStatuses
      <3>2. QED
        BY <3>1 DEF Life!Next, Life!Agree, Life!End
    <2>2. CASE Terminal(row)
      <3>1. row \in Row /\ ~Open(row)
        BY <2>2 DEF SoloInv, IInv, Open, Active, Terminal, ActiveStatuses, TerminalStatuses
      <3>2. \/ row' = row
            \/ row.status = "AGREED" /\ row' = [row EXCEPT !.status = "CLOSED_BY_BUYER"]
        BY <2>2, <3>1, SoloWrites DEF SoloInv
      <3>3. CASE row' = row
        <4>1. SessionStage' = SessionStage
          BY <3>3 DEF SessionStage, Terminal
        <4>2. QED
          BY <4>1
      <3>4. CASE row.status = "AGREED" /\ row' = [row EXCEPT !.status = "CLOSED_BY_BUYER"]
        <4>1. row'.status = "CLOSED_BY_BUYER"
          BY <3>1, <3>4 DEF Row
        <4>2. SessionStage = "AGREED" /\ SessionStage' = "OVER"
          BY <3>4, <4>1 DEF SessionStage, Terminal, TerminalStatuses
        <4>3. QED
          BY <4>2 DEF Life!Next, Life!End
      <3>5. QED
        BY <3>2, <3>3, <3>4
    <2>3. QED
      BY <2>1, <2>2
  <1>3. QED
    BY SoloInitially, SoloStepping, <1>1, <1>2, PTL DEF Spec, LifeSpec, Life!Spec

-----------------------------------------------------------------------------
\* Operations that overlap.  A finished session may be undone, but only by what
\* was under way when it finished.

\* Nothing is under way that has read the session before it finished.
Drained == Terminal(row) /\ \A p \in Procs : InFlight(p) => Terminal(proc[p].snap.row)

\* Whatever overlaps, a session that has finished loses its result to an operation
\* that had read it as it was before, unless its buyer drops the agreement.
OnlyStaleUndoes ==
    [][Terminal(row) /\ row' # row =>
        \/ row.status = "AGREED" /\ row' = [row EXCEPT !.status = "CLOSED_BY_BUYER"]
        \/ \E p \in Procs : InFlight(p) /\ ~InFlight(p)' /\ proc[p].snap.row # row]_vars

LEMMA FinishedIsNotOpen ==
  ASSUME NEW r, Terminal(r)
  PROVE  ~Open(r) /\ ~Active(r) /\ r.status # "HUMAN_REVIEW"
  BY DEF Open, Active, Terminal, ActiveStatuses, TerminalStatuses

Dropped(r, added) == r = [row EXCEPT !.status = "CLOSED_BY_BUYER"] /\ added = <<>>

\* Of the operations that have read a finished session, only the one that drops an
\* agreement goes on.
LEMMA OnlyCloseGoesOn ==
  ASSUME IInv, NEW p \in Procs, NEW r, NEW added,
         Stored(proc[p], r, added), Terminal(proc[p].snap.row)
  PROVE  Dropped(r, added) /\ proc[p].snap.row.status = "AGREED"
  <1>1. MayGoOn(proc[p])
    BY DEF IInv
  <1>2. proc[p].op \notin {"turn", "override", "terminate", "resume"}
    BY <1>1, FinishedIsNotOpen DEF MayGoOn
  <1>3. proc[p].op = "close" /\ Dropped(r, added)
    BY <1>2 DEF Stored, Dropped
  <1>4. QED
    BY <1>1, <1>3 DEF MayGoOn, Terminal

LEMMA StaleUndoes ==
  ASSUME IInv, [Next]_vars, Terminal(row), row' # row
  PROVE  \/ row.status = "AGREED" /\ row' = [row EXCEPT !.status = "CLOSED_BY_BUYER"]
         \/ \E p \in Procs : InFlight(p) /\ ~InFlight(p)' /\ proc[p].snap.row # row
  <1>1. Writes
    BY QuietOrWrites DEF Quiet
  <1> PICK p \in Procs : \E r, added : Stored(proc[p], r, added) /\ Save(p, r, added)
    BY <1>1 DEF Writes
  <1>2. PICK r, added : Stored(proc[p], r, added) /\ Save(p, r, added)
    OBVIOUS
  <1>3. InFlight(p) /\ row' = r
    BY <1>2, StoredInFlight DEF Save
  <1>4. ~InFlight(p)'
    BY <1>2, NotLoadedIsTalk DEF Save, InFlight, IInv, Proc
  <1>5. CASE proc[p].snap.row = row
    <2>1. Dropped(r, added) /\ row.status = "AGREED"
      BY <1>2, <1>5, OnlyCloseGoesOn
    <2>2. QED
      BY <1>3, <2>1 DEF Dropped
  <1>6. QED
    BY <1>3, <1>4, <1>5

\* Whatever overlaps, only a stale operation undoes the end of a session.
THEOREM FinishedUnlessStale == Spec => OnlyStaleUndoes
  <1> DEFINE Undoes == Terminal(row) /\ row' # row =>
        \/ row.status = "AGREED" /\ row' = [row EXCEPT !.status = "CLOSED_BY_BUYER"]
        \/ \E p \in Procs : InFlight(p) /\ ~InFlight(p)' /\ proc[p].snap.row # row
  <1>1. IInv /\ [Next]_vars => [Undoes]_vars
    BY StaleUndoes
  <1>2. QED
    BY Initially, Stepping, <1>1, PTL DEF Spec, OnlyStaleUndoes

\* A step leaves a drained session drained: nobody reads it to go on with it.
LEMMA DrainedStays ==
  ASSUME IInv, [Next]_vars, Drained
  PROVE  /\ Drained'
         /\ offers' = offers
         /\ row' = row \/ row' = [row EXCEPT !.status = "CLOSED_BY_BUYER"]
  <1>1. proc \in [Procs -> Proc] /\ row \in Row
    BY DEF IInv
  <1>2. CASE Quiet
    <2>1. UNCHANGED <<row, offers>> /\ Terminal(row) /\ Terminal(row') /\ Loaded.row = row
      BY <1>2 DEF Quiet, Drained, Loaded
    <2>2. CASE proc' = proc
      BY <2>1, <2>2 DEF Drained, InFlight
    <2>3. ASSUME NEW p \in Procs, NEW q \in Proc, proc' = [proc EXCEPT ![p] = q],
                 \/ q.op = proc[p].op /\ q.snap = proc[p].snap
                 \/ q.op = "none"
                 \/ q.snap = Loaded
          PROVE  Drained'
      <3>1. \A o \in Procs : proc'[o] = IF o = p THEN q ELSE proc[o]
        BY <1>1, <2>3
      <3>2. q.op # "none" => Terminal(q.snap.row)
        BY <2>1, <2>3 DEF Drained, InFlight
      <3>3. \A o \in Procs : proc'[o].op # "none" => Terminal(proc'[o].snap.row)
        BY <3>1, <3>2 DEF Drained, InFlight
      <3>4. QED
        BY <2>1, <3>3 DEF Drained, InFlight
    <2>4. Drained'
      BY <1>2, <2>2, <2>3 DEF Quiet
    <2>5. QED
      BY <2>1, <2>4
  <1>3. CASE Writes
    <2>1. PICK p \in Procs : \E r, added : Stored(proc[p], r, added) /\ Save(p, r, added)
      BY <1>3 DEF Writes
    <2> PICK r, added : Stored(proc[p], r, added) /\ Save(p, r, added)
      BY <2>1
    <2>2. Terminal(proc[p].snap.row)
      BY StoredInFlight DEF Drained
    <2>3. Dropped(r, added)
      BY <2>2, OnlyCloseGoesOn
    <2>4. row' = r /\ offers' = offers \o added
      BY DEF Save
    <2>5. offers' = offers
      BY <2>3, <2>4 DEF Dropped, IInv
    <2>6. Terminal(row')
      BY <1>1, <2>3, <2>4 DEF Dropped, Row, Terminal, TerminalStatuses
    <2>7. /\ proc'[p].op = "none"
          /\ \A o \in Procs : o # p => proc'[o] = proc[o]
      BY <1>1, NotLoadedIsTalk DEF Save, Proc
    <2>8. Drained'
      BY <2>6, <2>7 DEF Drained, InFlight
    <2>9. QED
      BY <2>3, <2>4, <2>5, <2>8 DEF Dropped
  <1>4. QED
    BY <1>2, <1>3, QuietOrWrites

\* Whatever overlaps, a session is finished for good once the operations that had
\* read it before its end are through: it stays finished for ever, ...
THEOREM DrainedForGood == Spec => [](Drained => []Terminal(row))
  <1>1. IInv /\ [Next]_vars /\ Drained => Drained'
    BY DrainedStays
  <1>2. Drained => Terminal(row)
    BY DEF Drained
  <1>3. QED
    BY Initially, Stepping, <1>1, <1>2, PTL DEF Spec

\* ... takes no offer, and at most its agreement is dropped.
THEOREM DrainedTakesNothing ==
  Spec => [][Drained => /\ offers' = offers
                        /\ row' = row \/ row' = [row EXCEPT !.status = "CLOSED_BY_BUYER"]]_vars
  <1> DEFINE Takes ==
        Drained => /\ offers' = offers
                   /\ row' = row \/ row' = [row EXCEPT !.status = "CLOSED_BY_BUYER"]
  <1>1. IInv /\ [Next]_vars => [Takes]_vars
    BY DrainedStays
  <1>2. QED
    BY Initially, Stepping, <1>1, PTL DEF Spec

-----------------------------------------------------------------------------
\* The live view of a session.

\* The numbers of a finite set can be put in order.
LEMMA CanBeOrdered ==
  ASSUME NEW k \in Nat, NEW S \in SUBSET (1..k)
  PROVE  /\ Cardinality(S) \in Nat
         /\ \E f \in [1..Cardinality(S) -> S] :
               \A i, j \in DOMAIN f : i < j => f[i] < f[j]
  <1> DEFINE Ordered_(T) == /\ Cardinality(T) \in Nat
                            /\ \E f \in [1..Cardinality(T) -> T] :
                                  \A i, j \in DOMAIN f : i < j => f[i] < f[j]
             G == {n \in Nat : \A T \in SUBSET (1..n) : Ordered_(T)}
  <1>1. 0 \in G
    <2>1. \A T \in SUBSET (1..0) : T = {}
      OBVIOUS
    <2>2. Ordered_({})
      <3>1. Cardinality({}) = 0
        BY FS_EmptySet
      <3>2. 1..Cardinality({}) = {}
        BY <3>1
      <3>3. ASSUME NEW D, D = {}
            PROVE  \E f \in [D -> {}] : \A i, j \in DOMAIN f : i < j => f[i] < f[j]
        <4> DEFINE e == [x \in {} |-> x]
        <4>1. e \in [D -> {}] /\ DOMAIN e = {}
          BY <3>3
        <4> HIDE DEF e
        <4>2. QED
          BY <4>1
      <3>4. \E f \in [1..Cardinality({}) -> {}] :
               \A i, j \in DOMAIN f : i < j => f[i] < f[j]
        BY <3>2, <3>3, Zenon
      <3>5. Cardinality({}) \in Nat
        BY <3>1
      <3>6. QED
        BY <3>4, <3>5, Zenon
    <2> HIDE DEF Ordered_
    <2>3. QED
      BY <2>1, <2>2
  <1>2. ASSUME NEW n \in Nat, n \in G
        PROVE  n + 1 \in G
    <2>1. SUFFICES ASSUME NEW T \in SUBSET (1..(n + 1))
                   PROVE  Ordered_(T)
      OBVIOUS
    <2>2. PICK R : R = T \ {n + 1}
      OBVIOUS
    <2>7. R \in SUBSET (1..n)
      <3>1. ASSUME NEW x \in R PROVE x \in 1..n
        <4>1. x \in 1..(n + 1) /\ x # n + 1
          BY <2>2
        <4>2. QED
          BY <4>1
      <3>2. QED
        BY <3>1
    <2>3. Ordered_(R)
      BY <1>2, <2>7
    <2>4. CASE n + 1 \notin T
      BY <2>2, <2>3, <2>4
    <2>5. CASE n + 1 \in T
      <3> DEFINE c == Cardinality(R)
      <3>1. PICK f \in [1..c -> R] : \A i, j \in DOMAIN f : i < j => f[i] < f[j]
        BY <2>3
      <3>2. c \in Nat
        BY <2>3
      <3>3. Cardinality(T) = c + 1
        <4>1. IsFiniteSet(R)
          <5>1. IsFiniteSet(1..n)
            BY FS_Interval
          <5>2. QED
            BY <2>7, <5>1, FS_Subset
        <4>2. T = R \cup {n + 1} /\ n + 1 \notin R
          BY <2>2, <2>5
        <4>3. QED
          BY <4>1, <4>2, FS_AddElement
      <3> DEFINE g == [i \in 1..(c + 1) |-> IF i = c + 1 THEN n + 1 ELSE f[i]]
      <3> HIDE DEF c
      <3>4. g \in [1..(c + 1) -> T]
        <4>1. ASSUME NEW i \in 1..(c + 1), i # c + 1 PROVE i \in 1..c
          BY <3>2, <4>1
        <4>2. \A i \in 1..c : f[i] \in T
          BY <2>2, <3>1
        <4>3. QED
          BY <2>5, <4>1, <4>2
      <3>5. ASSUME NEW i \in 1..(c + 1), NEW j \in 1..(c + 1), i < j
            PROVE  g[i] < g[j]
        <4>1. i \in 1..c /\ i # c + 1
          BY <3>2, <3>5
        <4>5. g[i] = f[i] /\ f[i] \in 1..n
          BY <2>7, <3>1, <4>1
        <4>2. CASE j = c + 1
          BY <4>2, <4>5, <3>2
        <4>3. CASE j # c + 1
          <5>1. j \in 1..c
            BY <3>2, <3>5, <4>3
          <5>2. g[j] = f[j]
            BY <4>3
          <5>3. QED
            BY <3>1, <3>5, <4>1, <4>5, <5>1, <5>2
        <4>4. QED
          BY <4>2, <4>3
      <3>6. DOMAIN g = 1..(c + 1)
        OBVIOUS
      <3> HIDE DEF g
      <3>7. QED
        BY <3>2, <3>3, <3>4, <3>5, <3>6
    <2>6. QED
      BY <2>4, <2>5
  <1> HIDE DEF G
  <1>3. k \in G
    BY <1>1, <1>2, SetInduction
  <1>4. QED
    BY <1>3 DEF G

\* Put in order, a set of offers is a sequence that shows none of them twice.
LEMMA InOrderShowsOnce ==
  ASSUME NEW k \in Nat, NEW S \in SUBSET (1..k)
  PROVE  InOrder(S) \in Seq(1..k) /\ IsInjective(InOrder(S))
  <1> DEFINE f == InOrder(S)
  <1>1. /\ Cardinality(S) \in Nat
        /\ f \in [1..Cardinality(S) -> S]
        /\ \A i, j \in DOMAIN f : i < j => f[i] < f[j]
    BY CanBeOrdered DEF InOrder
  <1> HIDE DEF f
  <1>2. \A i \in 1..Cardinality(S) : f[i] \in 1..k
    BY <1>1
  <1>3. f \in Seq(1..k)
    BY <1>1, <1>2
  <1>4. IsInjective(f)
    <2>1. ASSUME NEW i \in DOMAIN f, NEW j \in DOMAIN f, f[i] = f[j]
          PROVE  i = j
      BY <1>1, <1>2, <2>1
    <2>2. QED
      BY <2>1 DEF IsInjective
  <1>5. QED
    BY <1>3, <1>4 DEF f

\* Merging keeps what is shown once.
LEMMA MergedShowsOnce ==
  ASSUME NEW k \in Nat, NEW shown \in Seq(1..k), IsInjective(shown), NEW n \in 1..k
  PROVE  Merged(shown, n) \in Seq(1..k) /\ IsInjective(Merged(shown, n))
  <1>1. CASE Contains(shown, n)
    BY <1>1 DEF Merged
  <1>2. CASE ~Contains(shown, n)
    <2>1. Merged(shown, n) = Append(shown, n)
      BY <1>2 DEF Merged
    <2>2. /\ Append(shown, n) \in Seq(1..k)
          /\ DOMAIN Append(shown, n) = 1..(Len(shown) + 1)
          /\ \A i \in 1..Len(shown) : Append(shown, n)[i] = shown[i]
          /\ Append(shown, n)[Len(shown) + 1] = n
          /\ DOMAIN shown = 1..Len(shown)
      OBVIOUS
    <2>3. \A i \in 1..Len(shown) : shown[i] # n
      BY <1>2 DEF Contains
    <2>4. ASSUME NEW i \in 1..(Len(shown) + 1), NEW j \in 1..(Len(shown) + 1),
                 Append(shown, n)[i] = Append(shown, n)[j]
          PROVE  i = j
      <3>1. i \in 1..Len(shown) \/ i = Len(shown) + 1
        OBVIOUS
      <3>2. j \in 1..Len(shown) \/ j = Len(shown) + 1
        OBVIOUS
      <3>3. QED
        BY <2>2, <2>3, <2>4, <3>1, <3>2 DEF IsInjective
    <2>5. QED
      BY <2>1, <2>2, <2>4 DEF IsInjective
  <1>3. QED
    BY <1>1, <1>2

Streams == [open : BOOLEAN, timer : BOOLEAN, last : 0..MaxEvents,
            replay : 0..MaxEvents, breaks : 0..MaxBreaks]

\* A connection may end, and may come further, at any time.
LEMMA StreamMoves ==
  ASSUME NEW s \in Streams, NEW n \in 0..MaxEvents
  PROVE  /\ Closed(s) \in Streams
         /\ [s EXCEPT !.last = n] \in Streams
         /\ [s EXCEPT !.timer = FALSE] \in Streams
         /\ [s EXCEPT !.open = TRUE, !.timer = FALSE, !.replay = n] \in Streams
         /\ s.breaks < MaxBreaks =>
               [Closed(s) EXCEPT !.breaks = @ + 1] \in Streams
  <1>1. 0 \in 0..MaxEvents
    BY StreamBoundsAssumption
  <1>2. Closed(s) \in Streams /\ Closed(s).breaks = s.breaks
    BY <1>1 DEF Streams, Closed
  <1>3. s.breaks < MaxBreaks => s.breaks + 1 \in 0..MaxBreaks
    BY StreamBoundsAssumption DEF Streams
  <1>4. s.breaks < MaxBreaks => [Closed(s) EXCEPT !.breaks = @ + 1] \in Streams
    BY <1>2, <1>3 DEF Streams
  <1>5. QED
    BY <1>2, <1>4 DEF Streams

LiveInv == LiveTypeOK /\ RoomForOffer /\ OfferShownOnce

LEMMA LiveInitially == LiveInit => LiveInv
  <1> SUFFICES ASSUME LiveInit PROVE LiveInv
    OBVIOUS
  <1>1. NewSession \in Sessions
    BY StreamBoundsAssumption DEF NewSession, Sessions, PageStatus
  <1>2. <<>> \in Seq(SseEvents) /\ Len(<<>>) = 0 /\ <<>> \in Seq(1..MaxOffers)
    OBVIOUS
  <1>3. LiveTypeOK
    BY <1>1, <1>2, StreamBoundsAssumption
    DEF LiveInit, LiveStart, LiveTypeOK, PageRequests, PageStatus
  <1>4. RoomForOffer /\ OfferShownOnce
    BY DEF LiveInit, LiveStart, RoomForOffer, OfferShownOnce, IsInjective
  <1>5. QED
    BY <1>3, <1>4 DEF LiveInv

\* Every step keeps the types, and shows each offer once.
LEMMA LiveStepping == LiveInv /\ [LiveNext]_liveVars => LiveInv'
  <1> SUFFICES ASSUME LiveInv, [LiveNext]_liveVars PROVE LiveInv'
    OBVIOUS
  <1> USE StreamBoundsAssumption
  <1>1. /\ booked \in Sessions
        /\ turn \in {"none", "offered", "FAILED", "TIMEOUT", "HUMAN_REVIEW",
                     "agreed", "terminated", "overridden"}
        /\ events \in Seq(SseEvents) /\ Len(events) <= MaxEvents
        /\ stream \in Streams
        /\ page \in [offers : Seq(1..MaxOffers), sessionStatus : PageStatus,
                     agreedPrice : BOOLEAN, sseEnabled : BOOLEAN, drain : BOOLEAN,
                     request : PageRequests]
        /\ RoomForOffer
        /\ IsInjective(page.offers)
    BY DEF LiveInv, LiveTypeOK, OfferShownOnce, Streams
  \* The writers leave the stream and the page alone.
  <1>2. ASSUME UNCHANGED <<stream, page>>, booked' \in Sessions,
               turn' \in {"none", "offered", "FAILED", "TIMEOUT", "HUMAN_REVIEW",
                          "agreed", "terminated", "overridden"},
               events' \in Seq(SseEvents) /\ Len(events') <= MaxEvents,
               turn' \in {"offered", "FAILED", "TIMEOUT", "HUMAN_REVIEW"}
                  => booked'.offers < MaxOffers
        PROVE  LiveInv'
    BY <1>1, <1>2 DEF LiveInv, LiveTypeOK, RoomForOffer, OfferShownOnce, Streams
  <1>3. ASSUME NEW ev \in SseEvents, publish_turn(ev)
        PROVE  events' \in Seq(SseEvents) /\ Len(events') <= MaxEvents
    BY <1>1, <1>3 DEF publish_turn
  <1>4. \A kind \in TerminalEvents \cup {"notice"} : Event(kind) \in SseEvents
    BY DEF Event, SseEvents
  <1>5. CASE PublishOffer
    <2>1. NewOffer(booked.offers + 1) \in SseEvents
      BY <1>1, <1>5 DEF PublishOffer, NewOffer, SseEvents, Sessions
    <2>2. QED
      BY <1>1, <1>2, <1>3, <1>5, <2>1 DEF PublishOffer
  <1>6. CASE PublishEnding
    BY <1>1, <1>2, <1>3, <1>4, <1>6 DEF PublishEnding, TerminalEvents, RoomForOffer
  <1>7. CASE PublishExpiry
    BY <1>1, <1>2, <1>3, <1>4, <1>7 DEF PublishExpiry, TerminalEvents, RoomForOffer
  <1>8. CASE CommitTurn
    <2>1. PICK status \in PageStatus :
             /\ booked' = [offers |-> booked.offers + 1, status |-> status]
             /\ turn' \in {"agreed", "none"}
      BY <1>8 DEF CommitTurn, PageStatus
    <2>2. booked' \in Sessions
      BY <1>1, <1>8, <2>1 DEF CommitTurn, RoomForOffer, Sessions
    <2>3. QED
      BY <1>1, <1>2, <1>8, <2>1, <2>2 DEF CommitTurn
  <1>9. CASE terminate_session
    BY <1>1, <1>2, <1>9 DEF terminate_session, Sessions, PageStatus
  <1>10. CASE apply_human_override
    BY <1>1, <1>2, <1>10 DEF apply_human_override, Sessions, PageStatus
  <1>11. CASE PublishCommitted
    BY <1>1, <1>2, <1>3, <1>4, <1>11 DEF PublishCommitted, TerminalEvents
  <1>12. CASE TurnDies
    BY <1>1, <1>2, <1>12 DEF TurnDies
  \* The stream and the page leave the session alone.
  <1>13. ASSUME UNCHANGED <<booked, turn, events>>,
                stream' \in Streams,
                page' \in [offers : Seq(1..MaxOffers), sessionStatus : PageStatus,
                           agreedPrice : BOOLEAN, sseEnabled : BOOLEAN, drain : BOOLEAN,
                           request : PageRequests],
                IsInjective(page'.offers)
         PROVE  LiveInv'
    BY <1>1, <1>13 DEF LiveInv, LiveTypeOK, RoomForOffer, OfferShownOnce, Streams
  <1>27. 0 \in 0..MaxEvents
    OBVIOUS
  <1>14. Disabled \in Streams
    BY <1>1, <1>27, StreamMoves DEF Disabled
  <1>15. NotAsked \in PageRequests
    BY DEF PageRequests
  <1>16. CASE connect
    <2>1. Len(events) \in 0..MaxEvents
      BY <1>1
    <2>2. stream' \in Streams
      BY <1>1, <1>16, <2>1, StreamMoves DEF connect
    <2>3. QED
      BY <1>1, <1>13, <1>16, <2>2 DEF connect
  <1>17. CASE Deliver
    <2> DEFINE ev == events[stream.last + 1]
    <2>1. ev \in SseEvents
      BY <1>1, <1>17 DEF Deliver, Streams
    <2>2. stream' \in Streams
      <3>1. stream.last + 1 \in 0..MaxEvents
        BY <1>1, <1>17 DEF Deliver, Streams
      <3>2. [stream EXCEPT !.last = @ + 1] \in Streams
        BY <1>1, <3>1, StreamMoves
      <3>3. Yielded \in Streams
        BY <1>27, <3>2, StreamMoves DEF Yielded
      <3>4. QED
        BY <1>17, <3>3 DEF Deliver
    <2>3. page' = OnEvent(ev)
      BY <1>17 DEF Deliver
    <2> HIDE DEF ev
    <2>4. CASE ev.event = "new_offer"
      <3>1. ev.n \in 1..MaxOffers
        BY <2>1, <2>4 DEF SseEvents, TerminalEvents
      <3>2. page' = [page EXCEPT !.offers = Merged(page.offers, ev.n)]
        BY <2>3, <2>4 DEF OnEvent
      <3>3. /\ Merged(page.offers, ev.n) \in Seq(1..MaxOffers)
            /\ IsInjective(Merged(page.offers, ev.n))
        BY <1>1, <3>1, MergedShowsOnce
      <3>4. QED
        BY <1>1, <1>13, <1>17, <2>2, <3>2, <3>3 DEF Deliver
    <2>5. CASE ev.event # "new_offer"
      <3>1. page' \in {page,
                       [page EXCEPT !.sessionStatus = "AGREED", !.agreedPrice = TRUE,
                                    !.drain = TRUE],
                       [page EXCEPT !.sessionStatus = "FAILED", !.drain = TRUE]}
        BY <2>3, <2>5 DEF OnEvent
      <3>2. QED
        BY <1>1, <1>13, <1>17, <2>2, <3>1 DEF Deliver, PageStatus
    <2>6. QED
      BY <2>4, <2>5
  <1>18. CASE BreakOff
    <2>1. stream.breaks < MaxBreaks => [Closed(stream) EXCEPT !.breaks = @ + 1] \in Streams
      BY <1>1, <1>27, StreamMoves
    <2>2. stream' \in Streams
      BY <1>18, <2>1, Zenon DEF BreakOff
    <2>3. QED
      BY <1>1, <1>13, <1>18, <2>2 DEF BreakOff
  <1>19. CASE Drain
    <2>1. page' = [page EXCEPT !.drain = FALSE, !.sseEnabled = FALSE]
      BY <1>19 DEF Drain
    <2>2. QED
      BY <1>1, <1>13, <1>14, <1>19, <2>1 DEF Drain
  <1>20. CASE Ask("session") \/ Ask("auto")
    <2>1. \A kind \in {"session", "auto"} :
             [kind |-> kind, read |-> booked] \in PageRequests
      BY <1>1 DEF PageRequests
    <2>2. PICK request \in PageRequests : page' = [page EXCEPT !.request = request]
      BY <1>20, <2>1, Zenon DEF Ask
    <2>3. QED
      BY <1>1, <1>13, <1>20, <2>2 DEF Ask
  <1>21. CASE AskFails
    BY <1>1, <1>13, <1>15, <1>21 DEF AskFails
  <1>22. ASSUME page.request.kind \in {"session", "auto"}
         PROVE  page.request.read \in Sessions
    BY <1>1, <1>22 DEF PageRequests, NotAsked
  <1>23. CASE ShowSession
    <2> DEFINE s == page.request.read
               shown == IF s.offers > 0 THEN OffersOf(s) ELSE page.offers
    <2>1. s \in Sessions
      BY <1>22, <1>23 DEF ShowSession
    <2>2. OffersOf(s) \in Seq(1..MaxOffers) /\ IsInjective(OffersOf(s))
      BY <2>1 DEF OffersOf, Sessions, IsInjective
    <2>3. shown \in Seq(1..MaxOffers) /\ IsInjective(shown)
      BY <1>1, <2>2
    <2>4. page' = [page EXCEPT !.request = NotAsked, !.sessionStatus = s.status,
                      !.agreedPrice = page.agreedPrice \/ s.status = "AGREED",
                      !.offers = shown,
                      !.sseEnabled = page.sseEnabled /\ s.status = "ACTIVE"]
      BY <1>23 DEF ShowSession
    <2>5. s.status \in PageStatus
      BY <2>1 DEF Sessions
    <2> HIDE DEF s, shown
    <2>6. stream' \in {Disabled, stream} /\ UNCHANGED <<booked, turn, events>>
      BY <1>23 DEF ShowSession
    <2>7. QED
      BY <1>1, <1>13, <1>14, <1>15, <2>3, <2>4, <2>5, <2>6
  <1>24. CASE ShowAuto
    <2> DEFINE s == page.request.read
               all == ToSet(page.offers) \cup 1..s.offers
               shown == IF s.offers > 0 THEN InOrder(all) ELSE page.offers
               status == IF s.status = "ACTIVE" THEN page.sessionStatus ELSE s.status
    <2>1. s \in Sessions
      BY <1>22, <1>24 DEF ShowAuto
    <2>2. all \in SUBSET (1..MaxOffers)
      BY <1>1, <2>1 DEF ToSet, Sessions
    <2>3. page' = [page EXCEPT !.request = NotAsked, !.sessionStatus = status,
                      !.agreedPrice = page.agreedPrice \/ s.status = "AGREED",
                      !.offers = shown]
      BY <1>24 DEF ShowAuto
    <2>4. status \in PageStatus
      BY <1>1, <2>1 DEF Sessions
    <2>5. InOrder(all) \in Seq(1..MaxOffers) /\ IsInjective(InOrder(all))
      <3> HIDE DEF all
      <3> QED
        BY <2>2, InOrderShowsOnce
    <2>6. shown \in Seq(1..MaxOffers) /\ IsInjective(shown)
      BY <1>1, <2>5
    <2> HIDE DEF s, all, shown, status
    <2>7. UNCHANGED <<booked, turn, events, stream>>
      BY <1>24 DEF ShowAuto
    <2>8. QED
      BY <1>1, <1>13, <1>15, <2>3, <2>4, <2>6, <2>7
  <1>25. CASE UNCHANGED liveVars
    BY <1>25 DEF liveVars, LiveInv, LiveTypeOK, RoomForOffer, OfferShownOnce
  <1>26. QED
    BY <1>5, <1>6, <1>7, <1>8, <1>9, <1>10, <1>11, <1>12, <1>16, <1>17, <1>18, <1>19,
       <1>20, <1>21, <1>23, <1>24, <1>25
    DEF LiveNext

LEMMA LiveInvariant == LiveSpec => []LiveInv
  BY LiveInitially, LiveStepping, PTL DEF LiveSpec

\* The list of events, the connection and the page keep their types.
THEOREM LiveTypeCorrect == LiveSpec => []LiveTypeOK
  <1>1. LiveInv => LiveTypeOK
    BY DEF LiveInv
  <1>2. QED
    BY <1>1, LiveInvariant, PTL

\* Whatever is replayed after lost connections, and whatever fetched sessions and
\* answers of run-auto bring in between, the page shows no offer twice.
THEOREM OffersShownOnce == LiveSpec => []OfferShownOnce
  <1>1. LiveInv => OfferShownOnce
    BY DEF LiveInv
  <1>2. QED
    BY <1>1, LiveInvariant, PTL

\* The session that the live view follows lives as Deal's does (SessionLife).
BookedStage ==
    IF booked.status \in {"ACTIVE", "HUMAN_REVIEW"} THEN "OPEN"
    ELSE IF booked.status = "AGREED" THEN "AGREED" ELSE "OVER"

BookedLife == INSTANCE SessionLife WITH stage <- BookedStage

\* What a turn has yet to commit is of a session that goes on.
TurnOfActive ==
    turn \in {"offered", "FAILED", "TIMEOUT", "HUMAN_REVIEW"} => booked.status = "ACTIVE"

LEMMA WritersAlone ==
  ASSUME [LiveNext]_liveVars
  PROVE  \/ UNCHANGED <<booked, turn>>
         \/ PublishOffer \/ PublishEnding \/ CommitTurn \/ TurnDies
         \/ terminate_session \/ apply_human_override \/ PublishCommitted
  BY DEF LiveNext, liveVars, PublishExpiry, connect, Deliver, BreakOff, Drain, Ask, AskFails,
         ShowSession, ShowAuto

LEMMA TurnOfActiveKept ==
  LiveInv /\ TurnOfActive /\ [LiveNext]_liveVars => TurnOfActive'
  <1> SUFFICES ASSUME LiveInv, TurnOfActive, [LiveNext]_liveVars PROVE TurnOfActive'
    OBVIOUS
  <1>1. CASE UNCHANGED <<booked, turn>>
    BY <1>1 DEF TurnOfActive
  <1>2. CASE PublishOffer \/ PublishEnding
    BY <1>2 DEF TurnOfActive, PublishOffer, PublishEnding
  <1>3. CASE CommitTurn \/ TurnDies \/ PublishCommitted
    <2>1. turn' \in {"none", "agreed"}
      BY <1>3 DEF CommitTurn, TurnDies, PublishCommitted
    <2>2. QED
      BY <2>1 DEF TurnOfActive
  <1>4. CASE terminate_session \/ apply_human_override
    BY <1>4 DEF TurnOfActive, terminate_session, apply_human_override
  <1>5. QED
    BY <1>1, <1>2, <1>3, <1>4, WritersAlone

\* What is committed of a session, with publishing before the commit and after it,
\* with turns that die between the two, ends once; and at most one agreement.
THEOREM BookedLives == LiveSpec => BookedLife!Spec
  <1>1. LiveInit => BookedLife!Init /\ TurnOfActive
    BY DEF LiveInit, LiveStart, NewSession, BookedLife!Init, BookedStage, TurnOfActive
  <1>2. LiveInv /\ TurnOfActive /\ [LiveNext]_liveVars => [BookedLife!Next]_BookedStage
    <2> SUFFICES ASSUME LiveInv, TurnOfActive, [LiveNext]_liveVars
                 PROVE  [BookedLife!Next]_BookedStage
      OBVIOUS
    <2> DEFINE Moves == \/ booked'.status = booked.status
                        \/ BookedStage = "OPEN"
    <2>1. Moves
      <3>1. CASE UNCHANGED booked
        BY <3>1
      <3>2. CASE CommitTurn
        BY <3>2 DEF CommitTurn, TurnOfActive, BookedStage
      <3>3. CASE terminate_session \/ apply_human_override
        BY <3>3 DEF terminate_session, apply_human_override, BookedStage
      <3>4. CASE PublishOffer \/ PublishEnding \/ TurnDies \/ PublishCommitted
        BY <3>4 DEF PublishOffer, PublishEnding, TurnDies, PublishCommitted
      <3>5. QED
        BY <3>1, <3>2, <3>3, <3>4, WritersAlone
    <2>2. CASE booked'.status = booked.status
      <3>1. BookedStage' = BookedStage
        BY <2>2 DEF BookedStage
      <3>2. QED
        BY <3>1
    <2>3. CASE BookedStage = "OPEN"
      <3>1. BookedStage' \in {"OPEN", "AGREED", "OVER"}
        BY DEF BookedStage
      <3>2. QED
        BY <2>3, <3>1 DEF BookedLife!Next, BookedLife!Agree, BookedLife!End
    <2>4. QED
      BY <2>1, <2>2, <2>3
  <1>3. QED
    BY LiveInvariant, TurnOfActiveKept, <1>1, <1>2, PTL DEF LiveSpec, BookedLife!Spec
=============================================================================
