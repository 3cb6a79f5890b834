------------------------------- MODULE MCDeal -------------------------------
(***************************************************************************)
(* Parts that share no state, in one run: each behaviour is one of the     *)
(* matching of an RFQ, of its deal, of what a session is about, of what    *)
(* its engines believe, or of the records that sessions leave, while the   *)
(* others rest.                                                            *)
(***************************************************************************)
EXTENDS Deal, OpponentBeliefs, NegotiationMemory, Matchmaking,
        Grounding, TLC

VARIABLE area

CONSTANTS s1, s2, camera, tripod, i1, i2

\* Both sellers are found, or one, perhaps again.
MCSellers == {s1, s2}
MCFound == {<<s1, s2>>, <<s1>>}

\* The parser may find one line or several, with a window or a budget or
\* neither; the first line is the primary product again.
MCProducts == {camera, tripod}
Line(p, price) == [product |-> p, category |-> NoProduct, hsn |-> NoProduct,
                   total |-> 0, perUnit |-> price, quantity |-> 0]
Parsed(window, items) ==
    [product |-> camera, category |-> NoProduct, hsn |-> camera, quantity |-> 0,
     max |-> 100, min |-> 0, perUnit |-> 0, perUnitMin |-> 0, window |-> window,
     items |-> items]
MCParsed ==
    {Parsed(0, <<Line(camera, 0)>>), Parsed(30, <<Line(camera, 0)>>),
     [Parsed(30, <<Line(camera, 0), Line(tripod, 8)>>) EXCEPT !.quantity = 10]}

\* One supplier delivers cameras, the other also tripods, but late.
Item(p, lead) == [product |-> p, category |-> p, hsn |-> p, lead |-> lead, price |-> 50,
                  moq |-> 1, mostQty |-> 100, byWeight |-> FALSE]
MCStocks ==
    {[items |-> <<Item(camera, 5)>>, sells |-> {camera}, addressed |-> TRUE, km |-> 300,
      radius |-> 0, capacity |-> 0, leastOrder |-> 0, mostOrder |-> 0,
      declares |-> {camera}, industry |-> camera],
     [items |-> <<Item(camera, 5), Item(tripod, 26)>>, sells |-> {camera, tripod},
      addressed |-> TRUE, km |-> 1200, radius |-> 0, capacity |-> 0, leastOrder |-> 0,
      mostOrder |-> 50, declares |-> {}, industry |-> tripod]}

\* A profile that has nothing to do with the product, one by name, one by place.
Sight(similarity, exact, geography) ==
    [similarity |-> similarity, exact |-> exact, contained |-> FALSE, related |-> 0,
     words |-> 0, industry |-> FALSE, geography |-> geography]
MCSightings == {Sight(0, FALSE, 0), Sight(900, TRUE, 0), Sight(0, TRUE, 500)}

\* Items that may be a camera or a tripod; RFQs for many cameras with a budget per
\* unit and for something else with a rate, and what matches say of a tripod.
Listing(p, price) == [product |-> p, hsn |-> p, price |-> price,
                      tiers |-> <<[min |-> 10, price |-> price - 10]>>]
MCItems == {i1, i2}
MCOfferings == {Listing(1, 100), Listing(2, 40)}
MCFields ==
    {[NoFields EXCEPT !.product = 1, !.quantity = 20, !.max = 100, !.perUnit = 100],
     [NoFields EXCEPT !.product = 3, !.hsn = 2, !.quantity = 20, !.text = TRUE,
                      !.unitRate = 50]}
MCVariants == {[NoFields EXCEPT !.product = 2, !.quantity = 5, !.max = 250]}
MCPrincipals ==
    {[buyer |-> [risk |-> "LOW", ceiling |-> 500],
      seller |-> [risk |-> "HIGH", ceiling |-> 500, margin |-> 10]]}

allVars == <<vars, beliefVars, memoryVars, matchVars,
             groundVars, area>>

AllInit ==
    /\ area \in {"deal", "beliefs", "records", "matching", "grounding"}
    /\ Init /\ BeliefInit /\ MemoryInit
    /\ IF area = "matching" THEN MatchInit
       ELSE /\ variants = <<>> /\ stock = <<>> /\ earlier = {} /\ search = <<>>
            /\ rows = <<>> /\ stage = "rest"
    /\ GroundInit /\ (area # "grounding" => listed = [i \in Items |-> NoItem])

AllNext ==
    /\ UNCHANGED area
    /\ \/ /\ area = "deal" /\ Next
          /\ UNCHANGED <<beliefVars, memoryVars, matchVars, groundVars>>
       \/ /\ area = "beliefs" /\ BeliefNext
          /\ UNCHANGED <<vars, memoryVars, matchVars, groundVars>>
       \/ /\ area = "records" /\ MemoryNext
          /\ UNCHANGED <<vars, beliefVars, matchVars, groundVars>>
       \/ /\ area = "matching" /\ MatchNext
          /\ UNCHANGED <<vars, beliefVars, memoryVars, groundVars>>
       \/ /\ area = "grounding" /\ GroundNext
          /\ UNCHANGED <<vars, beliefVars, memoryVars, matchVars>>

AllSpec == AllInit /\ [][AllNext]_allVars

\* Processes, and sessions, are told apart by nothing but their names.
Interchangeable == Permutations(Procs) \cup Permutations(Talks)
=============================================================================
