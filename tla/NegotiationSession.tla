-------------------------- MODULE NegotiationSession --------------------------
(***************************************************************************)
(* One negotiation session: its row, its offers, and the processes that    *)
(* work on it -- agent turns asked for one by one, automatic loops, human  *)
(* overrides, the administrator, a buyer who confirms another supplier.    *)
(* An operation reads the session, waits (for the language model, for the  *)
(* database) and writes every column of the row back; the row and the      *)
(* offer it adds are committed together.                                   *)
(***************************************************************************)
EXTENDS NegotiationEngine

CONSTANTS Procs,        \* workers and requests that may touch the session
          NoProc,
          Markets,      \* what buyer and seller may be worth to each other
          HumanPrices,  \* prices a person may type in
          Overlapping   \* may an operation start while another is in flight?

ASSUME OverlappingAssumption == Overlapping \in BOOLEAN
ASSUME NoProcAssumption == NoProc \notin Procs
ASSUME HumanPricesAssumption == HumanPrices \subseteq Nat \ {0}
ASSUME MarketsAssumption ==
    Markets \subseteq [ceiling : Nat \ {0}, buyerTarget : Nat \ {0}, floor : Nat \ {0},
                       sellerTarget : Nat \ {0}, marginPrice : Nat, horizon : 1..MaxRounds]

VARIABLES
    market,   \* the valuations and the urgency, recomputed alike at every turn
    row,      \* the negotiation_sessions row
    offers,   \* the session's rows of offers, in the order of insertion
    expired,  \* has expires_at passed?
    proc,     \* proc[p]: the operation p is in, and whether p runs a loop
    lock      \* holder of the Redis lock of run-auto

vars == <<market, row, offers, expired, proc, lock>>

-----------------------------------------------------------------------------
Row == [status : Statuses, round : 0..MaxRounds, stall : Nat, recovery : BOOLEAN,
        schema : Nat, agreed : Nat]

NewRow(status) == [status |-> status, round |-> 0, stall |-> 0, recovery |-> FALSE,
                   schema |-> 0, agreed |-> NoPrice]

OfferRow == [round : 1..MaxRounds, role : Roles, price : Nat \ {0}, human : BOOLEAN]

\* What an operation keeps between its read and its write.
Loaded == [row |-> row, offers |-> offers]
NotLoaded == [row |-> NewRow("INIT"), offers |-> <<>>]

Idle == [op |-> "none", loop |-> FALSE, snap |-> NotLoaded]
Ops == {"turn", "override", "terminate", "resume", "close"}

\* The session as created: activate() has put it in SELLER_ANCHOR; sessions
\* from before the buyer-first order was given up are in BUYER_ANCHOR.
Init ==
    /\ market \in Markets
    /\ row \in {NewRow("SELLER_ANCHOR"), NewRow("BUYER_ANCHOR")}
    /\ offers = <<>>
    /\ expired = FALSE
    /\ proc = [p \in Procs |-> Idle]
    /\ lock = NoProc

-----------------------------------------------------------------------------
\* The aggregate.

Active(r) == r.status \in ActiveStatuses
Terminal(r) == r.status \in TerminalStatuses

\* transition(offer), n offers being there with the new one.
transition(status, n, role) ==
    CASE status = "SELLER_ANCHOR" /\ role = "SELLER" -> "BUYER_RESPONSE"
      [] status = "BUYER_RESPONSE" /\ role = "BUYER" -> "ROUND_LOOP"
      [] status = "BUYER_ANCHOR" /\ role = "BUYER" -> "SELLER_RESPONSE"
      [] status = "SELLER_RESPONSE" /\ role = "SELLER" -> "ROUND_LOOP"
      [] status = "ACTIVE" -> IF n >= 2 THEN "ROUND_LOOP" ELSE "BUYER_RESPONSE"
      [] OTHER -> status

can_add_offer(r) ==
    /\ Active(r) \/ r.status = "HUMAN_REVIEW"
    /\ r.round < MaxRounds

add_offer(r, n, role) ==
    [r EXCEPT !.round = @ + 1, !.status = transition(@, n, role)]

resume_from_human_review(s) ==
    [s.row EXCEPT !.status = IF Len(s.offers) >= 2 THEN "ROUND_LOOP" ELSE "ACTIVE",
                  !.stall = 0, !.recovery = FALSE]

\* Mutant: the midpoint of bid and ask, as the engine's comments have it.
AgreedMidpoint(s, role, price) ==
    LET other == LastPrice(s.offers, Opponent(role))
    IN  IF other = NoPrice THEN price ELSE (price + other) \div 2

\* The price agreed on: the offer's or, if higher, the seller's last.
AgreedPrice(s, role, price) ==
    IF role = "SELLER" THEN price
    ELSE Greater(price, LastPrice(s.offers, "SELLER"))

\* How the service ends a turn the engine called terminal: by the words of the
\* offer's text first, then by the stall counter, else by an agreement.
EndOfTurn(s, role, turn, r) ==
    IF turn.marks \cap {"REJECT", "WALK_AWAY"} # {} THEN [r EXCEPT !.status = "WALK_AWAY"]
    ELSE IF "POLICY_BREACH" \in turn.marks THEN [r EXCEPT !.status = "POLICY_BREACH"]
    ELSE IF "STALL_TERMINAL" \in turn.marks THEN [r EXCEPT !.status = "HUMAN_REVIEW"]
    ELSE IF turn.marks \cap {"MAX_ROUNDS", "TIMEOUT"} # {} THEN [r EXCEPT !.status = "TIMEOUT"]
    ELSE IF turn.row.stall >= StallRounds THEN [r EXCEPT !.status = "HUMAN_REVIEW"]
    ELSE [r EXCEPT !.status = "AGREED", !.agreed = AgreedPrice(s, role, turn.price)]

-----------------------------------------------------------------------------
\* Processes.

InFlight(p) == proc[p].op # "none"
MayStart(p) ==
    /\ ~InFlight(p)
    /\ Overlapping \/ \A q \in Procs : ~InFlight(q)

\* A read that passed its checks.  Snapshots are kept only where the handler
\* goes on with the aggregate it read.
Read(p, op) ==
    /\ MayStart(p)
    /\ proc' = [proc EXCEPT ![p].op = op, ![p].snap = Loaded]
    /\ UNCHANGED <<market, row, offers, expired, lock>>

\* The commit of an operation: the whole row, and perhaps an offer.
Save(p, r, added) ==
    /\ row' = r
    /\ offers' = offers \o added
    /\ proc' = [proc EXCEPT ![p].op = "none", ![p].snap = NotLoaded]
    /\ UNCHANGED <<market, expired, lock>>

Release(p) == IF lock = p THEN NoProc ELSE lock

\* POST run-auto: refused while the lock is held.
RunAuto(p) ==
    /\ proc[p] = Idle
    /\ lock = NoProc
    /\ Overlapping \/ \A q \in Procs : ~proc[q].loop
    /\ lock' = p
    /\ proc' = [proc EXCEPT ![p].loop = TRUE]
    /\ UNCHANGED <<market, row, offers, expired>>

\* After a restart every worker goes on with the sessions it finds in these
\* statuses, without the lock.
ResumeOnStartup(p) ==
    /\ proc[p] = Idle
    /\ row.status \in {"ACTIVE", "ROUND_LOOP", "SELLER_RESPONSE", "BUYER_ANCHOR"}
    /\ ~expired
    /\ Overlapping \/ \A q \in Procs : ~proc[q].loop
    /\ proc' = [proc EXCEPT ![p].loop = TRUE]
    /\ UNCHANGED <<market, row, offers, expired, lock>>

\* run_agent_turn up to the engine, for a loop or for POST turn.
ReadTurn(p) ==
    /\ Active(row)
    /\ ~expired
    /\ Read(p, "turn")

\* Mutant: a loop does not give up on an expired session.
LoopEndsInactive(p) ==
    /\ proc[p].loop
    /\ ~InFlight(p)
    /\ ~Active(row)
    /\ proc' = [proc EXCEPT ![p] = Idle]
    /\ lock' = Release(p)
    /\ UNCHANGED <<market, row, offers, expired>>

\* A loop ends when the session takes no more turns.  Past expires_at the turn
\* marks it TIMEOUT and raises before the commit: the row stays as it is.
LoopEnds(p) ==
    /\ proc[p].loop
    /\ ~InFlight(p)
    /\ ~Active(row) \/ expired
    /\ proc' = [proc EXCEPT ![p] = Idle]
    /\ lock' = Release(p)
    /\ UNCHANGED <<market, row, offers, expired>>

\* run_agent_turn from the engine's answer to the commit.
WriteTurn(p) ==
    /\ proc[p].op = "turn"
    /\ LET s == proc[p].snap
           role == next_proposer(s)
       IN  /\ can_add_offer(s.row)
           /\ \E suggested \in Suggestions(market, s, role), out \in generate_offer :
                LET turn == process_turn(market, s, suggested, out)
                    r == add_offer(turn.row, Len(s.offers) + 1, role)
                    offer == [round |-> s.row.round + 1, role |-> role,
                              price |-> turn.price, human |-> FALSE]
                IN  Save(p, IF turn.terminal THEN EndOfTurn(s, role, turn, r) ELSE r,
                         <<offer>>)

\* The engine looks at the clock once more: a session that expires while the
\* profiles are loaded gets a placeholder offer and is stored as TIMEOUT.
WriteTimeout(p) ==
    /\ proc[p].op = "turn"
    /\ expired
    /\ LET s == proc[p].snap
           role == next_proposer(s)
           turn == Turn(1, {"TIMEOUT"}, TRUE, s.row)
           r == add_offer(s.row, Len(s.offers) + 1, role)
       IN  /\ can_add_offer(s.row)
           /\ Save(p, EndOfTurn(s, role, turn, r),
                   <<[round |-> s.row.round + 1, role |-> role, price |-> turn.price,
                      human |-> FALSE]>>)

\* add_offer refuses the offer: nothing is stored, and a loop gives up.
TurnRefused(p) ==
    /\ proc[p].op = "turn"
    /\ ~can_add_offer(proc[p].snap.row)
    /\ proc' = [proc EXCEPT ![p] = Idle]
    /\ lock' = Release(p)
    /\ UNCHANGED <<market, row, offers, expired>>

\* A loop has made the turns it was asked for, or a turn of it raised.
GivesUp(p) ==
    /\ proc[p].loop
    /\ proc' = [proc EXCEPT ![p] = Idle]
    /\ lock' = Release(p)
    /\ UNCHANGED <<market, row, offers, expired>>

\* apply_human_override: a person of either side, in or out of turn.
ReadOverride(p) ==
    /\ Active(row) \/ row.status = "HUMAN_REVIEW"
    /\ ~proc[p].loop
    /\ row.round < MaxRounds
    /\ Read(p, "override")

WriteOverride(p) ==
    /\ proc[p].op = "override"
    /\ LET s == proc[p].snap
           r == IF s.row.status = "HUMAN_REVIEW" THEN resume_from_human_review(s) ELSE s.row
       IN  \E role \in Roles, price \in HumanPrices :
             Save(p, add_offer(r, Len(s.offers) + 1, role),
                  <<[round |-> s.row.round + 1, role |-> role, price |-> price,
                     human |-> TRUE]>>)

\* Mutant: a finished session can be terminated.
ReadTerminateAnyStatus(p) ==
    /\ ~proc[p].loop
    /\ Read(p, "terminate")

\* terminate_session, by an administrator.
ReadTerminate(p) ==
    /\ Active(row) \/ row.status = "HUMAN_REVIEW"
    /\ ~proc[p].loop
    /\ Read(p, "terminate")

WriteTerminate(p) ==
    /\ proc[p].op = "terminate"
    /\ Save(p, [proc[p].snap.row EXCEPT !.status = "FAILED"], <<>>)

\* POST resume, by an administrator.
ReadResume(p) ==
    /\ row.status = "HUMAN_REVIEW"
    /\ ~proc[p].loop
    /\ Read(p, "resume")

WriteResume(p) ==
    /\ proc[p].op = "resume"
    /\ Save(p, resume_from_human_review(proc[p].snap), <<>>)

\* confirm_rfq for another supplier closes the session, also one in AGREED; it
\* writes the status column alone.
ReadClose(p) ==
    /\ row.status \notin TerminalStatuses \ {"AGREED"}
    /\ ~proc[p].loop
    /\ Read(p, "close")

WriteClose(p) ==
    /\ proc[p].op = "close"
    /\ Save(p, [row EXCEPT !.status = "CLOSED_BY_BUYER"], <<>>)

-----------------------------------------------------------------------------
\* The environment.

Expire ==
    /\ ~expired
    /\ expired' = TRUE
    /\ UNCHANGED <<market, row, offers, proc, lock>>

\* The lock is held for 300 seconds at most, whatever its holder does.
LockExpires ==
    /\ lock # NoProc
    /\ Overlapping \/ ~proc[lock].loop
    /\ lock' = NoProc
    /\ UNCHANGED <<market, row, offers, expired, proc>>

\* A worker dies; its lock stays until it expires.
Crash(p) ==
    /\ proc[p] # Idle
    /\ proc' = [proc EXCEPT ![p] = Idle]
    /\ UNCHANGED <<market, row, offers, expired, lock>>

LoopStep(p) == (proc[p].loop /\ ReadTurn(p)) \/ LoopEnds(p)
Write(p) == WriteTurn(p) \/ WriteTimeout(p) \/ TurnRefused(p) \/ WriteOverride(p)
              \/ WriteTerminate(p) \/ WriteResume(p) \/ WriteClose(p)

Next ==
    \/ \E p \in Procs :
        \/ RunAuto(p)
        \/ ResumeOnStartup(p)
        \/ ReadTurn(p)
        \/ LoopEnds(p)
        \/ WriteTurn(p)
        \/ WriteTimeout(p)
        \/ TurnRefused(p)
        \/ GivesUp(p)
        \/ ReadOverride(p)
        \/ WriteOverride(p)
        \/ ReadTerminate(p)
        \/ WriteTerminate(p)
        \/ ReadResume(p)
        \/ WriteResume(p)
        \/ ReadClose(p)
        \/ WriteClose(p)
        \/ Crash(p)
    \/ Expire
    \/ LockExpires

Spec == Init /\ [][Next]_vars

\* A handler that runs gets its answer from the model and the database, and a
\* loop goes on to its next turn.  Strong fairness only offsets the guard that
\* makes a loop wait for other requests when operations do not overlap.
Fairness == \A p \in Procs : SF_vars(LoopStep(p)) /\ WF_vars(Write(p))

FairSpec == Spec /\ Fairness

-----------------------------------------------------------------------------
\* Properties.

TypeOK ==
    /\ market \in Markets
    /\ row \in Row
    /\ offers \in Seq(OfferRow)
    /\ expired \in BOOLEAN
    /\ DOMAIN proc = Procs
    /\ \A p \in Procs :
        /\ proc[p].op \in Ops \cup {"none"}
        /\ proc[p].loop \in BOOLEAN
        /\ proc[p].snap.row \in Row
        /\ proc[p].snap.offers \in Seq(OfferRow)
    /\ lock \in Procs \cup {NoProc}

\* One operation at a time: an agreement is at a price somebody offered, never
\* an average: at the seller's last price or at a bid above it, and above it only
\* by what passes for converged -- a bid is rounded after the test for crossing.
AgreedIsOffered ==
    row.status = "AGREED" =>
        LET ask == LastPrice(offers, "SELLER")
        IN  /\ \E i \in DOMAIN offers : offers[i].price = row.agreed
            /\ ask # NoPrice => /\ ask <= row.agreed
                                /\ ask = row.agreed \/ check_convergence(row.agreed, ask)

\* Between two turns a session that takes turns has fewer no-concession rounds
\* than make a stall: the engine's recovery or the review has seen to it.  The
\* strategies reserved for a stalled opponent can therefore never be chosen.
NoStallBetweenTurns == Active(row) => row.stall < StallRounds

\* The turn that takes the last round leaves the session active only when it
\* is spent on the one stall recovery, or is a person's: such a session takes no
\* further offer, and nothing but an administrator ends it.
LastRoundDecides ==
    [][row.round < MaxRounds /\ row'.round = MaxRounds /\ Active(row') =>
        \/ ~row.recovery /\ row'.recovery
        \/ offers'[Len(offers')].human]_vars

\* One operation at a time: rounds are numbered without gap or repetition, and
\* agents take turns -- whoever speaks twice in a row is a person.
RoundsAlternate ==
    /\ row.round = Len(offers)
    /\ \A i \in DOMAIN offers :
        /\ offers[i].round = i
        /\ i > 1 /\ offers[i].role = offers[i-1].role => offers[i].human

\* One operation at a time: a finished session stays as it finished, except
\* that a buyer may drop an agreement for another supplier.
FinishedStays ==
    [][Terminal(row) =>
        \/ row' = row
        \/ row.status = "AGREED" /\ row' = [row EXCEPT !.status = "CLOSED_BY_BUYER"]]_vars

\* While the talks go on no agent has offered more than its side can pay or less
\* than it can take: not by the model's wish, by rounding to a quantum or by the
\* step towards the opponent that ends a stall.
OffersKeepReservation ==
    [][offers' # offers /\ Active(row') =>
        LET offer == offers'[Len(offers')]
        IN  \/ offer.human
            \/ offer.role = "BUYER" /\ offer.price <= market.ceiling
            \/ offer.role = "SELLER" /\ offer.price >= market.floor]_vars

\* A loop comes to its end: the session is decided, waits for a person, has
\* expired or has no round left.
LoopComesToEnd == \A p \in Procs : proc[p].loop ~> ~proc[p].loop

-----------------------------------------------------------------------------
\* What Deal sees of the session: whether it is over, and whether by an agreement.
SessionStage ==
    IF row.status = "AGREED" THEN "AGREED"
    ELSE IF Terminal(row) THEN "OVER"
    ELSE "OPEN"

Life == INSTANCE SessionLife WITH stage <- SessionStage

\* One operation at a time: a session ends once, and of what has ended only an
\* agreement is dropped.
LifeSpec == Life!Spec
=============================================================================
