---------------------------- MODULE Matchmaking ----------------------------
(***************************************************************************)
(* What the parse of an RFQ does once the fields are extracted: it builds  *)
(* one variant per line item, looks for sellers of each, first by vectors  *)
(* with hard filters and a composite score, else by keywords, merges what  *)
(* it found, and stores one match per seller, or per seller and product.   *)
(* Scores are thousandths, budgets rupees, an absent number is 0; names,   *)
(* categories and tariff codes are members of Products.                    *)
(***************************************************************************)
EXTENDS Integers, FiniteSets, SequencesExt

CONSTANTS Suppliers,
          Products,
          NoProduct,
          TopN,        \* matches proposed for an RFQ
          ParsedRFQs,  \* what the parser may extract
          Stocks,      \* what a supplier may have in its profile and catalogue
          Sightings    \* how a supplier's profile may look against one product

ASSUME MatchmakingAssumption ==
    NoProduct \notin Products /\ TopN \in Nat \ {0} /\ IsFiniteSet(Suppliers)

\* What the parser extracts, what a supplier has, how its profile looks.
Names == Products \cup {NoProduct}
Lines == [product : Products, category : Names, hsn : Names, total : Nat, perUnit : Nat,
          quantity : Nat]
ParsedFields == [product : Products, category : Names, hsn : Names, quantity : Nat,
                 max : Nat, min : Nat, perUnit : Nat, perUnitMin : Nat, window : Nat,
                 items : Seq(Lines)]
Catalogued == [product : Products, category : Names, hsn : Names, lead : Nat, price : Nat,
               moq : Nat, mostQty : Nat, byWeight : BOOLEAN]
SupplierStock == [items : Seq(Catalogued), sells : SUBSET Products, addressed : BOOLEAN,
                  km : Nat \cup {-1}, radius : Nat, capacity : Nat, leastOrder : Nat,
                  mostOrder : Nat, declares : SUBSET Products, industry : Names]
Views == [similarity : Nat, exact : BOOLEAN, contained : BOOLEAN, related : Nat,
          words : Nat, industry : BOOLEAN, geography : Nat]
ASSUME InputsAssumption ==
    /\ ParsedRFQs \subseteq ParsedFields
    /\ Stocks \subseteq SupplierStock
    /\ Sightings \subseteq Views

VARIABLES
    variants,  \* the parsed fields and one variant per line item
    stock,     \* profile, catalogue and address of each supplier
    earlier,   \* suppliers with a match of this RFQ from an earlier parse
    search,    \* the variant that is next, and what was found for the others
    rows,      \* the matches to be stored
    stage

matchVars == <<variants, stock, earlier, search, rows, stage>>

Absent == 0
Lower(a, b) == IF a <= b THEN a ELSE b
Upper(a, b) == IF a >= b THEN a ELSE b
Gap(a, b) == Upper(a, b) - Lower(a, b)

-----------------------------------------------------------------------------
\* The members of a finite set in an order, given as the pairs of one that comes
\* before another; the elements of a sequence that are at some positions; and
\* the element at the first of them.

Ahead(K, before, i) == {j \in K : <<j, i>> \in before}

Ranked(K, before) ==
    [k \in 1..Cardinality(K) |->
        CHOOSE i \in K : Cardinality(Ahead(K, before, i)) = k - 1]

ByPosition(K) == {x \in K \X K : x[1] < x[2]}

Chosen(seq, K) ==
    LET order == Ranked(K, ByPosition(K))
    IN  [k \in 1..Cardinality(K) |-> seq[order[k]]]

FirstOf(seq, K) == seq[CHOOSE i \in K : \A j \in K : i <= j]

-----------------------------------------------------------------------------
\* The variants of an RFQ and their budgets.

MinShare(budget) == (budget * 80) \div 100

\* A price per unit and a quantity make the budget the total of the order.
NormalizeBudget(f) ==
    IF f.perUnit = Absent \/ f.quantity = Absent THEN f
    ELSE LET total == f.perUnit * f.quantity
         IN  [f EXCEPT !.max = total,
                       !.min = IF f.perUnitMin # Absent THEN f.perUnitMin * f.quantity
                               ELSE IF @ # Absent THEN @
                               ELSE MinShare(total)]

Category(f) == IF f.category = NoProduct THEN f.product ELSE f.category

Normalize(f) == [NormalizeBudget(f) EXCEPT !.category = Category(f)]

\* What the totals of the lines take of the budget, rupee by rupee.
KnownBudget(parsed) ==
    Cardinality({x \in (DOMAIN parsed.items) \X (1..parsed.max) :
                    x[2] <= parsed.items[x[1]].total})

\* Lines with neither a total nor a price share what the totals leave; a line
\* that gets none of it keeps the budget of the whole RFQ.
BuildParsedVariants(parsed) ==
    LET bare == Cardinality({k \in DOMAIN parsed.items :
                    parsed.items[k].total = Absent /\ parsed.items[k].perUnit = Absent})
        known == KnownBudget(parsed)
        share == IF parsed.max > known /\ bare > 0 THEN (parsed.max - known) \div bare
                 ELSE Absent
        Line(i) == [parsed EXCEPT !.product = i.product, !.items = <<>>,
                                  !.category = Category(i),
                                  !.hsn = IF i.hsn = NoProduct THEN @ ELSE i.hsn,
                                  !.quantity = IF i.quantity = Absent THEN @ ELSE i.quantity]
        Budgeted(i, total) == [Line(i) EXCEPT !.max = total, !.min = MinShare(total)]
        Variant(i) == IF i.total # Absent THEN Budgeted(i, i.total)
                      ELSE IF i.perUnit # Absent /\ i.quantity # Absent
                      THEN NormalizeBudget([Line(i) EXCEPT !.perUnit = i.perUnit])
                      ELSE IF share # Absent THEN Budgeted(i, share)
                      ELSE Line(i)
    IN  <<parsed>> \o [k \in DOMAIN parsed.items |-> Variant(parsed.items[k])]

HasDeliveryData(v) == v.window # Absent \/ v.quantity # Absent \/ v.min # Absent

-----------------------------------------------------------------------------
\* Delivery and capacity of one supplier for one variant.

TransitBands == <<[km |-> 200, days |-> 2], [km |-> 500, days |-> 3],
                  [km |-> 1000, days |-> 5], [km |-> 1500, days |-> 7],
                  [km |-> 2500, days |-> 10]>>
LongestTransit == 15
BufferDays == 2

EstimateTransitDays(km) ==
    LET within == {b \in DOMAIN TransitBands : km <= TransitBands[b].km}
    IN  IF within = {} THEN LongestTransit ELSE FirstOf(TransitBands, within).days

ComputeTotalDeliveryDays(lead, km) == lead + EstimateTransitDays(km) + BufferDays

\* Nothing is checked when an address or the window is missing; a pincode of
\* which not even the state is known (km = -1) is infeasible.
ChecksDelivery(s, v) == stock[s].addressed /\ v.window # Absent

CheckFeasibility(s, v, lead) ==
    stock[s].km >= 0 /\ ComputeTotalDeliveryDays(lead, stock[s].km) <= v.window

WithinRadius(s) == stock[s].radius # Absent => stock[s].km <= stock[s].radius

\* Tonnes the supplier can make: a month's at least, whatever the window is.
TotalProducible(s, v) ==
    (stock[s].capacity * Upper(IF v.window = Absent THEN 30 ELSE v.window, 30)) \div 30

-----------------------------------------------------------------------------
\* The catalogue: the item of the tariff code, else of the name, else the first.

CatalogueItems(s, v) ==
    {k \in DOMAIN stock[s].items : stock[s].items[k].category = Category(v)}

SelectBestCatalogueItem(s, v) ==
    LET items == stock[s].items
        coded == {k \in CatalogueItems(s, v) : v.hsn # NoProduct /\ items[k].hsn = v.hsn}
        named == {k \in CatalogueItems(s, v) : items[k].product = v.product}
    IN  FirstOf(items, IF coded # {} THEN coded ELSE IF named # {} THEN named
                       ELSE CatalogueItems(s, v))

-----------------------------------------------------------------------------
\* Scores.

Result(s, score, via) == [seller |-> s, score |-> score, via |-> via]

\* The scores of some suppliers, in the order the database has them.
Scored(table, via) ==
    LET sellers == SetToSeq(DOMAIN table)
    IN  [i \in 1..Cardinality(DOMAIN table) |-> Result(sellers[i], table[sellers[i]], via)]

\* The n best of some results; of equal ones the first.
ByScore(results) ==
    {x \in (DOMAIN results) \X (DOMAIN results) :
        \/ results[x[1]].score > results[x[2]].score
        \/ results[x[1]].score = results[x[2]].score /\ x[1] < x[2]}

Best(results, n) ==
    LET order == Ranked(DOMAIN results, ByScore(results))
    IN  [k \in 1..Lower(n, Len(results)) |-> results[order[k]]]

MinSemanticScore == 300

\* The n nearest profiles, those that are only noise left out.
FindMatches(seen, n) ==
    LET near == {s \in Suppliers : seen[s].similarity >= MinSemanticScore}
    IN  Best(Scored([s \in near |-> seen[s].similarity], "vector"), n)

\* The hierarchy of a commodity's relevance: equal, contained, related, a word.
ScoreCommodity(view) ==
    IF view.exact THEN 1000
    ELSE IF view.contained THEN 800
    ELSE IF view.related > 0 THEN Lower(view.related, 700)
    ELSE IF view.words > 0 THEN Lower(300 + 100 * view.words, 500)
    ELSE 0

HasRelevance(view) == ScoreCommodity(view) > 0 \/ view.industry

\* The part of the budget inside the order values the supplier takes; an
\* unbounded budget, or an unbounded supplier, is as large as Unbounded.
Unbounded == 1000000
ValueScore(s, v) ==
    LET top == IF v.max = Absent THEN Unbounded ELSE v.max
        most == IF stock[s].mostOrder = Absent THEN Unbounded ELSE stock[s].mostOrder
        low == Upper(v.min, stock[s].leastOrder)
        high == Lower(top, most)
    IN  IF v.min = Absent /\ v.max = Absent THEN 0
        ELSE IF v.min > most \/ top < stock[s].leastOrder THEN 0
        ELSE IF high <= low THEN 500
        ELSE Lower(1000, ((high - low) * 1000) \div Upper(top - v.min, 1))

KeywordScore(s, v, view) ==
    Lower(1000, (5 * ScoreCommodity(view) + 3 * view.geography + 2 * ValueScore(s, v)) \div 10)

KeywordMatches(v, seen) ==
    LET hit == {s \in Suppliers : ScoreCommodity(seen[s]) > 0
                                  /\ KeywordScore(s, v, seen[s]) >= 150}
    IN  Best(Scored([s \in hit |-> KeywordScore(s, v, seen[s])], "keyword"), TopN)

PassesHardFilters(s, v, view) ==
    LET item == SelectBestCatalogueItem(s, v)
    IN  /\ HasRelevance(view)
        /\ CatalogueItems(s, v) # {}
        /\ ChecksDelivery(s, v) => CheckFeasibility(s, v, item.lead) /\ WithinRadius(s)
        /\ (item.byWeight /\ v.quantity # Absent /\ stock[s].capacity # Absent)
              => v.quantity <= TotalProducible(s, v)
        /\ v.quantity # Absent => v.quantity \in item.moq .. item.mostQty

\* The price of one unit is compared with the middle of the whole budget.
PriceScore(item, v) ==
    LET mid == (v.min + v.max) \div 2
    IN  IF v.min = Absent \/ v.max = Absent \/ mid = 0 THEN 500
        ELSE Upper(0, 1000 - (Gap(item.price, mid) * 1000) \div mid)

CompositeScore(s, v, view) ==
    LET item == SelectBestCatalogueItem(s, v)
        checked == ChecksDelivery(s, v)
        days == ComputeTotalDeliveryDays(item.lead, stock[s].km)
        delivery == IF checked THEN 1000 - (days * 1000) \div v.window ELSE 1000
        proximity == IF checked THEN Upper(0, 1000 - (stock[s].km * 1000) \div 2500) ELSE 500
        \* the capacity of a supplier that passed the filter is never short
        capacity == 1000
        payment == 500       \* no caller passes payment terms
        certification == 1000
    IN  (25 * view.similarity + 20 * delivery + 15 * capacity + 15 * PriceScore(item, v)
         + 10 * proximity + 10 * payment + 5 * certification) \div 100

FindEnhancedMatches(v, seen) ==
    LET near == FindMatches(seen, 3 * TopN)
        passed == Chosen(near, {i \in DOMAIN near :
                      PassesHardFilters(near[i].seller, v, seen[near[i].seller])})
        all == [i \in DOMAIN passed |->
                    LET s == passed[i].seller
                    IN  Result(s, CompositeScore(s, v, seen[s]), "enhanced")]
    IN  Best(all, TopN)

-----------------------------------------------------------------------------
\* The search, one variant after the other.

NoResults == [s \in Suppliers |-> [score |-> 0, variant |-> 0]]

MatchInit ==
    /\ \E parsed \in ParsedRFQs : variants = BuildParsedVariants(Normalize(parsed))
    /\ stock \in [Suppliers -> Stocks]
    /\ earlier \in SUBSET Suppliers
    /\ search = [next |-> 1, enhanced |-> NoResults, raw |-> NoResults,
                 variant |-> [s \in Suppliers |-> 0],
                 product |-> [p \in Products |-> <<>>]]
    /\ rows = <<>>
    /\ stage = "searching"

BetterThan(best, found) ==
    {s \in Suppliers : \E i \in DOMAIN found :
        found[i].seller = s /\ found[i].score > best[s].score}

\* Mutant: the score found last replaces a better one.
KeepLast(best, found, v) ==
    [s \in Suppliers |->
        IF \E r \in ToSet(found) : r.seller = s
        THEN [score |-> (CHOOSE r \in ToSet(found) : r.seller = s).score, variant |-> v]
        ELSE best[s]]

\* The best score of each seller so far, and the variant that earned it.
Merged(best, found, v) ==
    [s \in Suppliers |->
        IF s \in BetterThan(best, found)
        THEN [score |-> (CHOOSE r \in ToSet(found) : r.seller = s).score, variant |-> v]
        ELSE best[s]]

\* Vectors and filters if there is something to filter by, plain vectors if
\* not, and keywords if that finds nobody.  One table holds, for both kinds of
\* score, the variant that last improved one.
SearchVariant ==
    /\ stage = "searching"
    /\ search.next \in DOMAIN variants
    /\ \E seen \in [Suppliers -> Sightings] :
        LET v == variants[search.next]
            enhanced == IF HasDeliveryData(v) THEN FindEnhancedMatches(v, seen) ELSE <<>>
            vector == IF HasDeliveryData(v) THEN <<>> ELSE FindMatches(seen, TopN)
            raw == IF enhanced # <<>> THEN <<>>
                   ELSE IF vector # <<>> THEN vector ELSE KeywordMatches(v, seen)
            improved == BetterThan(search.enhanced, enhanced) \cup BetterThan(search.raw, raw)
        IN  search' = [search EXCEPT
                !.next = @ + 1,
                !.enhanced = Merged(@, enhanced, search.next),
                !.raw = Merged(@, raw, search.next),
                !.variant = [s \in Suppliers |-> IF s \in improved THEN search.next ELSE @[s]],
                !.product[v.product] = @ \o enhanced \o raw]
    /\ UNCHANGED <<variants, stock, earlier, rows, stage>>

SearchEnds ==
    /\ stage = "searching"
    /\ search.next = Len(variants) + 1

-----------------------------------------------------------------------------
\* The matches.

Row(s, score, via, v) == [seller |-> s, score |-> score, via |-> via, variant |-> v]

ProductsInOrder ==
    Chosen([k \in DOMAIN variants |-> variants[k].product],
           {k \in DOMAIN variants : \A j \in 1..(k - 1) : variants[j].product # variants[k].product})

\* The last variant of a product stands for it.
VariantOf(p) == CHOOSE k \in DOMAIN variants :
    /\ variants[k].product = p
    /\ \A j \in DOMAIN variants : variants[j].product = p => j <= k

\* The best three of a product, a seller that does not sell it left out, one
\* that is there twice taken once.
PerProduct == 3
ProductRows(p) ==
    LET top == Best(search.product[p], PerProduct)
        kept == Chosen(top, {k \in DOMAIN top :
                    /\ p \in stock[top[k].seller].sells
                    /\ \A j \in 1..(k - 1) : top[j].seller # top[k].seller})
    IN  [k \in DOMAIN kept |-> Row(kept[k].seller, kept[k].score, kept[k].via, VariantOf(p))]

\* Those of the first product, then those of the next.
MultiRows ==
    LET products == ProductsInOrder
        places == {x \in (DOMAIN products) \X (1..PerProduct) :
                      x[2] \in DOMAIN ProductRows(products[x[1]])}
        before == {y \in places \X places :
                      \/ y[1][1] < y[2][1]
                      \/ y[1][1] = y[2][1] /\ y[1][2] < y[2][2]}
        order == Ranked(places, before)
    IN  [k \in 1..Cardinality(places) |-> ProductRows(products[order[k][1]])[order[k][2]]]

IsMultiProduct == Len(ProductsInOrder) > 1

\* The best rows of a table of scores.
MergedRows(best, via) ==
    LET top == Best(Scored([s \in {u \in Suppliers : best[u].score > 0} |-> best[s].score],
                           via), TopN)
    IN  [i \in DOMAIN top |->
            Row(top[i].seller, top[i].score, via, search.variant[top[i].seller])]

Matched(found) ==
    /\ rows' = found
    /\ stage' = "matched"
    /\ UNCHANGED <<variants, stock, earlier, search>>

MatchPerProduct ==
    /\ SearchEnds
    /\ IsMultiProduct /\ MultiRows # <<>>
    /\ Matched(MultiRows)

PerSeller == SearchEnds /\ ~(IsMultiProduct /\ MultiRows # <<>>)

\* The scores are added to the match row of RFQ and seller; with one of an
\* earlier parse there are two, the query raises and all is rolled back.
MatchEnhanced ==
    LET found == MergedRows(search.enhanced, "enhanced") IN
    /\ PerSeller
    /\ found # <<>>
    /\ \/ /\ \A i \in DOMAIN found : found[i].seller \notin earlier
          /\ Matched(found)
       \/ /\ \E i \in DOMAIN found : found[i].seller \in earlier
          /\ stage' = "died"
          /\ UNCHANGED <<variants, stock, earlier, search, rows>>

NothingEnhanced == PerSeller /\ \A s \in Suppliers : search.enhanced[s].score = 0

MatchRaw ==
    /\ NothingEnhanced
    /\ MergedRows(search.raw, "raw") # <<>>
    /\ Matched(MergedRows(search.raw, "raw"))

\* What the enterprises declared for their KYC, against product and category:
\* an industry left empty is contained in every term.
FallbackScore(s) ==
    LET terms == <<variants[1].product, Category(variants[1])>>
        Term(t) == (IF t \in stock[s].declares THEN 500 ELSE 0)
                   + (IF stock[s].industry \in {t, NoProduct} THEN 300 ELSE 0)
    IN  Lower(1000, Term(terms[1]) + Term(terms[2]))

FallbackRows ==
    LET hit == {s \in Suppliers : FallbackScore(s) > 0}
        top == Best(Scored([s \in hit |-> FallbackScore(s)], "declared"), TopN)
    IN  [i \in DOMAIN top |-> Row(top[i].seller, top[i].score, "declared", 0)]

\* An error here is only logged, and the RFQ stays PARSED.
MatchFallback ==
    /\ NothingEnhanced /\ \A s \in Suppliers : search.raw[s].score = 0
    /\ \/ FallbackRows # <<>> /\ Matched(FallbackRows)
       \/ /\ stage' = "unmatched"
          /\ UNCHANGED <<variants, stock, earlier, search, rows>>

\* A query raises; what the transaction did is rolled back.
MatchDies ==
    /\ stage = "searching"
    /\ stage' = "died"
    /\ UNCHANGED <<variants, stock, earlier, search, rows>>

MatchNext ==
    \/ SearchVariant
    \/ MatchPerProduct \/ MatchEnhanced \/ MatchRaw \/ MatchFallback
    \/ MatchDies

MatchSpec == MatchInit /\ [][MatchNext]_matchVars

-----------------------------------------------------------------------------
\* What was found for one product, or with one kind of score.
FoundFor(p) == ToSet(search.product[p])
FoundBy(kind) ==
    {r \in UNION {FoundFor(p) : p \in Products} : (r.via = "enhanced") = (kind = "enhanced")}

\* A seller is proposed once, or once per product, with the best score that
\* the searches gave it there; and a seller with a better score than one
\* proposed is only left out for more matches than the RFQ takes.
MatchesAreBest ==
    LET multi == IsMultiProduct /\ rows = MultiRows
        Pool(r) == IF multi THEN FoundFor(variants[r.variant].product) ELSE FoundBy(r.via)
        Same(r, q) == r.seller = q.seller
                      /\ (multi => variants[r.variant].product = variants[q.variant].product)
    IN  \A i \in DOMAIN rows :
            /\ \A j \in DOMAIN rows : Same(rows[i], rows[j]) => i = j
            /\ rows[i].via # "declared" =>
                /\ \A r \in Pool(rows[i]) : r.seller = rows[i].seller => r.score <= rows[i].score
                /\ \E r \in Pool(rows[i]) : r.seller = rows[i].seller /\ r.score = rows[i].score
                /\ (~multi /\ Len(rows) < TopN) =>
                      \A r \in Pool(rows[i]) : \E j \in DOMAIN rows : rows[j].seller = r.seller
=============================================================================
