----------------------------- MODULE Grounding -----------------------------
(***************************************************************************)
(* What a negotiation is about.  Every turn reads the fields of the RFQ,   *)
(* lays the session's own product over them, looks for the match and for   *)
(* the catalogue item of the seller, and values the order for both sides.  *)
(* The RFQ, its matches and the catalogue may change between two turns.    *)
(* Money is in rupees, an absent number is 0, as is an absent product.     *)
(***************************************************************************)
EXTENDS Strategy, Sequences

CONSTANTS Fields,    \* what the parser may leave in the row of the RFQ
          Variants,  \* what a match may say of its product
          Items,     \* of the seller's catalogue
          NoId,      \* no item
          Offerings, \* what an item may say of itself
          Principals, \* the two sides' limits: ceilings, margin, risk appetite
          MaxParses, \* bound of the model: parses that ended in a match
          MaxTurns   \* bound of the model: turns

ASSUME GroundingAssumption ==
    NoId \notin Items /\ MaxParses \in Nat /\ MaxTurns \in Nat

\* The fields of an RFQ and of a match are numbers, absent or not.
RFQFields == [product : Nat, hsn : Nat, quantity : Nat, text : BOOLEAN, max : Nat,
              perUnit : Nat, unitRate : Nat]
ASSUME FieldsAssumption == Fields \subseteq RFQFields /\ Variants \subseteq RFQFields

\* A row of the catalogue has a name, and its prices are numbers.
Listings == [product : Nat \ {0}, hsn : Nat, price : Nat,
             tiers : Seq([min : Nat, price : Nat])]
ASSUME OfferingsAssumption == Offerings \subseteq Listings

VARIABLES
    parsed_fields,  \* of the row of the RFQ
    match_rows,     \* the matches of RFQ and seller: variant and item
    listed,         \* what each active item of the seller says
    talk            \* the session: its product, and what its last turn went by

groundVars == <<parsed_fields, match_rows, listed, talk>>

NoItem == [product |-> 0, hsn |-> 0, price |-> 0, tiers |-> <<>>]
NoFields == [product |-> 0, hsn |-> 0, quantity |-> 0, text |-> FALSE, max |-> 0,
             perUnit |-> 0, unitRate |-> 0]
NoTalk == [stage |-> "none"]

-----------------------------------------------------------------------------
\* The fields a turn goes by: those of the product over those of the RFQ.

\* Mutant: the product of the session is not looked at.
RFQOnly(base, context) == base

Overlay(base, context) ==
    IF context = NoFields THEN base
    ELSE [f \in DOMAIN base |->
            IF f = "text" THEN IF context.quantity # 0 THEN context.text ELSE base.text
            ELSE IF context[f] # 0 THEN context[f] ELSE base[f]]

-----------------------------------------------------------------------------
\* The catalogue item: the one of the match, else the cheapest of the name,
\* else of the tariff code, else the one nearest to the budget of a unit.

Cheapest(items) == CHOOSE i \in items : \A j \in items : i.price <= j.price

Nearest(items, unit) ==
    CHOOSE i \in items : \A j \in items : Distance(i.price, unit) <= Distance(j.price, unit)

SelectItem(fields, matched) ==
    LET active == {listed[i] : i \in Items} \ {NoItem}
        named == {o \in active : fields.product # 0 /\ o.product = fields.product}
        coded == {o \in active : fields.hsn # 0 /\ o.hsn = fields.hsn}
        units == IF fields.quantity = 0 THEN 1 ELSE fields.quantity
    IN  IF matched # NoId /\ listed[matched] # NoItem THEN listed[matched]
        ELSE IF named # {} THEN Cheapest(named)
        ELSE IF coded # {} THEN Cheapest(coded)
        ELSE IF active = {} THEN NoItem
        ELSE IF fields.max # 0 THEN Nearest(active, fields.max \div units)
        ELSE Cheapest(active)

\* The price of the highest tier the quantity reaches.
EffectivePrice(item, quantity) ==
    LET reached == {t \in 1..Len(item.tiers) : item.tiers[t].min <= quantity}
    IN  IF quantity = 0 \/ reached = {} THEN item.price
        ELSE item.tiers[CHOOSE t \in reached :
                            \A u \in reached : item.tiers[u].min <= item.tiers[t].min].price

-----------------------------------------------------------------------------
\* Layer 1: the buyer by the budget, the seller by the price of the quantity.

Countable(fields) == fields.quantity # 0 /\ ~fields.text

\* A budget that is nearer to the price of one unit than to that of all is
\* taken for the former; a quantity with words in it leaves it as it is.
TotalBudget(fields) ==
    LET total == fields.perUnit * fields.quantity
    IN  IF /\ fields.perUnit # 0 /\ Countable(fields) /\ fields.quantity > 1
           /\ Distance(fields.max, fields.perUnit) < Distance(fields.max, total)
        THEN total ELSE fields.max

BuyerValuation(fields, us) ==
    IF fields.max # 0
    THEN compute_buyer_valuation_from_rfq(TotalBudget(fields), us.risk)
    ELSE IF Countable(fields) /\ fields.unitRate # 0
    THEN compute_buyer_valuation(fields.quantity * fields.unitRate, us.risk, us.ceiling)
    ELSE compute_buyer_valuation((80 * us.ceiling) \div 100, us.risk, us.ceiling)

\* A quantity with words in it raises where there is a rate, and is read by its
\* leading number where there is none.
CostBasis(fields, price) ==
    IF fields.quantity # 0 /\ fields.unitRate # 0
    THEN IF fields.text THEN NoPrice
         ELSE fields.quantity * (IF price = NoPrice THEN fields.unitRate ELSE price)
    ELSE IF fields.max # 0 THEN fields.quantity * price
    ELSE NoPrice

\* Nothing to go by: a better match makes the seller start lower.
SellerValuation(fields, price, score, them) ==
    IF CostBasis(fields, price) # NoPrice
    THEN compute_seller_valuation_from_catalogue(CostBasis(fields, price), them.margin)
    ELSE compute_seller_valuation((them.ceiling * (7500 - 15 * score)) \div 10000,
                                  them.margin, them.risk)

\* Only a match that names an item has a composite score; any will do.
MatchScore(match) == IF match.item = NoId THEN 50 ELSE 80

Comparable(buyer, seller) == buyer.reservation > 0 /\ seller.reservation > 0

CheckZopaExists(buyer, seller) == buyer.reservation >= seller.reservation

-----------------------------------------------------------------------------
\* The RFQ, its matches and the catalogue.

GroundInit ==
    /\ parsed_fields = NoFields
    /\ match_rows = <<>>
    /\ listed \in [Items -> Offerings \cup {NoItem}]
    /\ talk = NoTalk

\* A parse ends in a match of this seller, perhaps beside that of another
\* parse or line of the RFQ.  Its variant and its item come from two searches
\* and need not be of one product.
ParseMatches ==
    /\ Len(match_rows) < MaxParses
    /\ \E fields \in Fields, variant \in Variants \cup {NoFields},
          item \in Items \cup {NoId} :
        /\ item # NoId => listed[item] # NoItem
        /\ parsed_fields' = fields
        /\ match_rows' = Append(match_rows, [variant |-> variant, item |-> item])
    /\ UNCHANGED <<listed, talk>>

\* An item is added, rewritten or taken off the list.
EditListing ==
    /\ \E i \in Items, o \in Offerings \cup {NoItem} : listed' = [listed EXCEPT ![i] = o]
    /\ UNCHANGED <<parsed_fields, match_rows, talk>>

-----------------------------------------------------------------------------
\* The session.

OpenTalk ==
    /\ talk = NoTalk
    /\ \E k \in 1..Len(match_rows) :
        talk' = [stage |-> "open", round |-> 0, context |-> match_rows[k].variant,
                 product |-> 0, item |-> NoItem, choice |-> <<>>, zopa |-> <<>>]
    /\ UNCHANGED <<parsed_fields, match_rows, listed>>

\* What a turn goes by.  When a query fails it goes on with what it has: no item,
\* and no fields if the first fails.
Loaded(match, failed) ==
    LET fields == IF failed = "first" THEN NoFields
                  ELSE Overlay(parsed_fields, talk.context)
    IN  [fields |-> fields,
         item |-> IF failed # "never" THEN NoItem ELSE SelectItem(fields, match.item)]

\* The zone of agreement is looked for, and remembered, in round 0.
AfterTurn(loaded, match, us) ==
    LET fields == loaded.fields
        price == IF loaded.item = NoItem THEN NoPrice
                 ELSE EffectivePrice(loaded.item, fields.quantity)
        buyer == BuyerValuation(fields, us.buyer)
        seller == SellerValuation(fields, price, MatchScore(match), us.seller)
        opening == talk.round = 0 /\ Comparable(buyer, seller)
    IN  [stage |-> IF opening /\ ~CheckZopaExists(buyer, seller) THEN "walk_away"
                   ELSE talk.stage,
         round |-> talk.round + 1, context |-> talk.context, product |-> fields.product,
         item |-> loaded.item, choice |-> listed,
         zopa |-> IF opening /\ CheckZopaExists(buyer, seller)
                  THEN <<seller.reservation, buyer.reservation>> ELSE talk.zopa]

\* The match is whichever row of RFQ and seller the query returns first.
GroundTurn ==
    /\ talk.stage = "open"
    /\ talk.round < MaxTurns
    /\ \E k \in 1..Len(match_rows), us \in Principals,
          failed \in {"never", "first", "later"} :
        talk' = AfterTurn(Loaded(match_rows[k], failed), match_rows[k], us)
    /\ UNCHANGED <<parsed_fields, match_rows, listed>>

GroundNext == ParseMatches \/ EditListing \/ OpenTalk \/ GroundTurn

GroundSpec == GroundInit /\ [][GroundNext]_groundVars

-----------------------------------------------------------------------------
\* A turn is priced by an item of the session's product if the seller lists
\* one, whatever was edited or parsed since the session began; only the item of
\* a match, which no order of the rows keeps to the session's own, leads it to
\* another product.
OwnProduct == IF talk.context.product # 0 THEN talk.context.product ELSE talk.product

PricedByItsProduct ==
    \/ talk = NoTalk
    \/ talk.item = NoItem
    \/ talk.item.product = OwnProduct
    \/ \A i \in Items : talk.choice[i] = NoItem \/ talk.choice[i].product # OwnProduct
    \/ \E k \in 1..Len(match_rows) :
          match_rows[k].item # NoId /\ talk.item = talk.choice[match_rows[k].item]
=============================================================================
