--------------------------- MODULE OpponentBeliefs ---------------------------
(***************************************************************************)
(* What the engine believes of each side's opponent, over the turns of one *)
(* session.  A belief is the result of Bayesian updates, one per turn,     *)
(* each on all the opponent's prices so far; here it is the sequence of    *)
(* the lengths of those price histories, and the prior is the empty one.   *)
(* A belief is kept twice: in the memory of the engine that made it, and   *)
(* in the column opponent_beliefs of the session's row.  An engine lives   *)
(* as long as one automatic loop or one request.  One operation is in      *)
(* flight at a time, as in NegotiationSession without overlap.             *)
(***************************************************************************)
EXTENDS Naturals, Sequences, SequencesExt

CONSTANTS Engines,   \* places where an engine may live: a worker's loop or request
          MaxOffers, \* MAX_ROUNDS
          MaxErrors, \* failed turns in a row after which a loop gives up: 3
          ShiftAt    \* prices detect_strategy_shift needs: 8

ASSUME MaxOffersAssumption == MaxOffers \in Nat
ASSUME MaxErrorsAssumption == MaxErrors \in Nat \ {0}
ASSUME ShiftAtAssumption == ShiftAt \in Nat

VARIABLES
    talks,   \* how many offers each side has made, who made the last, the status
    beliefs, \* the row's opponent_beliefs: beliefs[s] is what s thinks of its opponent
    engine   \* engine[e]: what it is for, its cache, and the turn it is in

beliefVars == <<talks, beliefs, engine>>

Sides == {"BUYER", "SELLER"}
Against(side) == IF side = "BUYER" THEN "SELLER" ELSE "BUYER"

PRIOR == <<>>
NoBeliefs == [s \in Sides |-> PRIOR]
Beliefs == [Sides -> Seq(Nat)]

\* A turn holds the side to move, the number of prices it saw of the opponent,
\* and the beliefs of the session it loaded.
Turns == [step : {"asked", "answered"}, side : Sides, seen : Nat, beliefs : Beliefs]
NoTurn == [step |-> "none"]

NewEngine(use) == [use |-> use, cache |-> NoBeliefs, turn |-> NoTurn, errors |-> 0]
NoEngine == NewEngine("none")

BeliefTypeOK ==
    /\ talks \in [count : [Sides -> Nat], last : Sides \cup {"NONE"},
                 status : {"open", "review", "ended"}]
    /\ beliefs \in Beliefs
    /\ engine \in [Engines -> [use : {"none", "loop", "request"}, cache : Beliefs,
                               turn : Turns \cup {NoTurn}, errors : 0..(MaxErrors - 1)]]

BeliefInit ==
    /\ talks = [count |-> [s \in Sides |-> 0], last |-> "NONE",
                status |-> "open"]
    /\ beliefs = NoBeliefs
    /\ engine = [e \in Engines |-> NoEngine]

-----------------------------------------------------------------------------
Made == talks.count["BUYER"] + talks.count["SELLER"]
SideToMove == IF talks.last = "SELLER" THEN "BUYER" ELSE "SELLER"
InTurn(e, step) == engine[e].turn.step = step
NobodyInTurn == \A e \in Engines : InTurn(e, "none")

WithOffer(side) == [talks EXCEPT !.count[side] = @ + 1, !.last = side]

\* A turn is over: a loop keeps its engine, a request does not.
TurnOver(e) ==
    IF engine[e].use = "request" THEN NoEngine
    ELSE [engine[e] EXCEPT !.turn = NoTurn, !.errors = 0]

\* A turn has failed: a loop tries again, unless it has failed too often.
TurnFailed(e) ==
    IF engine[e].use = "request" \/ engine[e].errors + 1 = MaxErrors THEN NoEngine
    ELSE [engine[e] EXCEPT !.turn = NoTurn, !.errors = @ + 1]

\* _update_belief_cache: nothing before the second price; the prior of the
\* update is what this engine has in memory, whatever the row says.
Updated(cache, side, n) ==
    IF n < 2 THEN cache ELSE [cache EXCEPT ![side] = Append(@, n)]

-----------------------------------------------------------------------------
\* A loop starts (run-auto, or the resumption of every session at start-up), or
\* a request for one turn: each makes an engine of its own.
StartEngine(e) ==
    /\ engine[e] = NoEngine
    /\ \E use \in {"loop", "request"} : engine' = [engine EXCEPT ![e] = NewEngine(use)]
    /\ UNCHANGED <<talks, beliefs>>

\* run_agent_turn loads the session; the engine takes the prices of the other
\* side from it and asks the language model.
AskModel(e) ==
    /\ engine[e].use # "none"
    /\ talks.status = "open"
    /\ NobodyInTurn
    /\ LET side == SideToMove
       IN  engine' = [engine EXCEPT ![e].turn =
               [step |-> "asked", side |-> side,
                seen |-> talks.count[Against(side)], beliefs |-> beliefs]]
    /\ UNCHANGED <<talks, beliefs>>

\* The end of process_turn: the engine's cache is updated and, from it, the
\* session in hand.  When the opponent's prices suggest a shift of strategy the
\* cache forgets a belief: the one the opponent holds of the mover.
AnswerTurn(e) ==
    /\ InTurn(e, "asked")
    /\ LET t == engine[e].turn
           cache == Updated(engine[e].cache, t.side, t.seen)
           held == IF t.seen < 2 THEN t.beliefs
                   ELSE [t.beliefs EXCEPT ![t.side] = cache[t.side]]
           forgetting == IF t.seen >= ShiftAt THEN {TRUE, FALSE} ELSE {FALSE}
       IN  \E forgets \in forgetting :
             engine' = [engine EXCEPT
                 ![e].turn = [t EXCEPT !.step = "answered", !.beliefs = held],
                 ![e].cache = IF forgets THEN [cache EXCEPT ![Against(t.side)] = PRIOR]
                              ELSE cache]
    /\ UNCHANGED <<talks, beliefs>>

\* The offer, and the row with the beliefs in hand, are committed.  A turn may
\* end the session or send it to review; most of these ends evict the session
\* from the engine, a walk-away does not.
SaveTurn(e) ==
    /\ InTurn(e, "answered")
    /\ Made < MaxOffers
    /\ \E status \in {"open", "review", "ended"}, evicts \in BOOLEAN :
          /\ status = "open" => ~evicts
          /\ status = "review" => evicts
          /\ talks' = [WithOffer(engine[e].turn.side) EXCEPT !.status = status]
          /\ engine' = [engine EXCEPT ![e] =
                 IF evicts THEN [TurnOver(e) EXCEPT !.cache = NoBeliefs] ELSE TurnOver(e)]
    /\ beliefs' = engine[e].turn.beliefs

\* add_offer refuses the offer after the last: the cache stays updated, nothing
\* is stored.
RefuseTurn(e) ==
    /\ InTurn(e, "answered")
    /\ Made = MaxOffers
    /\ engine' = [engine EXCEPT ![e] = TurnFailed(e)]
    /\ UNCHANGED <<talks, beliefs>>

\* Mutant: an error after the update, too, leaves the loop with its engine.
FailAnyTurn(e) ==
    /\ ~InTurn(e, "none")
    /\ engine' = [engine EXCEPT ![e] = TurnFailed(e)]
    /\ UNCHANGED <<talks, beliefs>>

\* The model, or anything before the update, raises.  (A failed statement of the
\* database aborts the loop's transaction, and then the loop: DropEngine.)
FailTurn(e) ==
    /\ InTurn(e, "asked")
    /\ engine' = [engine EXCEPT ![e] = TurnFailed(e)]
    /\ UNCHANGED <<talks, beliefs>>

\* No model has quota left: the session ends with the beliefs it was loaded with.
ExhaustModel(e) ==
    /\ InTurn(e, "asked")
    /\ talks' = [talks EXCEPT !.status = "ended"]
    /\ beliefs' = engine[e].turn.beliefs
    /\ engine' = [engine EXCEPT ![e] = [TurnFailed(e) EXCEPT !.cache = NoBeliefs]]

\* A turn that ends the session before the model is asked (no zone of agreement,
\* expiry) adds its last offer without an update.
EndEarly(e) ==
    /\ InTurn(e, "asked")
    /\ Made < MaxOffers
    /\ talks' = [WithOffer(engine[e].turn.side) EXCEPT !.status = "ended"]
    /\ beliefs' = engine[e].turn.beliefs
    /\ engine' = [engine EXCEPT ![e] = TurnOver(e)]

\* A person makes an offer for their side, which also ends a review; the row
\* keeps its beliefs.
OverrideTurn(side) ==
    /\ talks.status \in {"open", "review"}
    /\ NobodyInTurn
    /\ Made < MaxOffers
    /\ talks' = [WithOffer(side) EXCEPT !.status = "open"]
    /\ UNCHANGED <<beliefs, engine>>

\* POST resume: the review ends without an offer.
ResumeTalks ==
    /\ talks.status = "review"
    /\ NobodyInTurn
    /\ talks' = [talks EXCEPT !.status = "open"]
    /\ UNCHANGED <<beliefs, engine>>

\* The loop ends, the request is refused, or the worker dies at any point.
DropEngine(e) ==
    /\ engine[e] # NoEngine
    /\ engine' = [engine EXCEPT ![e] = NoEngine]
    /\ UNCHANGED <<talks, beliefs>>

BeliefNext ==
    \/ \E e \in Engines :
          \/ StartEngine(e) \/ AskModel(e) \/ AnswerTurn(e) \/ SaveTurn(e)
          \/ RefuseTurn(e) \/ FailTurn(e) \/ ExhaustModel(e) \/ EndEarly(e) \/ DropEngine(e)
    \/ \E side \in Sides : OverrideTurn(side)
    \/ ResumeTalks

BeliefSpec == BeliefInit /\ [][BeliefNext]_beliefVars

-----------------------------------------------------------------------------
Increasing(s) == \A i \in DOMAIN s : \A j \in DOMAIN s : i < j => s[i] < s[j]
UpTo(s, n) == \A i \in DOMAIN s : s[i] <= n

\* A stored belief counts each length of the opponent's history once, and only
\* prices that were offered: not again when a turn is retried after an error or
\* taken over by another loop.
EvidenceCountsOnce ==
    \A s \in Sides :
        Increasing(beliefs[s]) /\ UpTo(beliefs[s], talks.count[Against(s)])

\* What a session has learnt of an opponent is not lost: the column was made to
\* "persist Bayesian opponent beliefs so pod restarts don't lose accumulated
\* classification state".
BeliefsSurvive == [][\A s \in Sides : IsPrefix(beliefs[s], beliefs'[s])]_beliefVars
=============================================================================
