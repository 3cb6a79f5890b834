----------------------------- MODULE LiveStream -----------------------------
(***************************************************************************)
(* The live view of one negotiation.  A turn pushes its events on a list   *)
(* in Redis, the offer before and the agreement after the commit of the    *)
(* transaction.  The stream endpoint replays the list and then follows it. *)
(* The page merges what the stream brings with the answers to its own      *)
(* requests, and reconnects the stream when it breaks.                     *)
(***************************************************************************)
EXTENDS Naturals, SequencesExt

CONSTANTS MaxOffers,  \* bound on the offers of the session
          MaxEvents,  \* bound on the events
          MaxBreaks   \* bound on the connections lost

ASSUME StreamBoundsAssumption == MaxOffers \in Nat /\ MaxEvents \in Nat /\ MaxBreaks \in Nat

VARIABLES
    booked,  \* the session as committed: the number of its offers, its status
    turn,    \* how far the turn, the override or the end is that writes it
    events,  \* the list sse:{session_id}
    stream,  \* the page's connection: what it has replayed and sent, its timer,
             \* how many were lost
    page     \* what the page shows, is the stream wanted, its requests

liveVars == <<booked, turn, events, stream, page>>

\* The statuses as the API names them: every active state is ACTIVE.
PageStatus == {"ACTIVE", "AGREED", "FAILED", "TIMEOUT", "HUMAN_REVIEW"}
Sessions == [offers : 0..MaxOffers, status : PageStatus]
NewSession == [offers |-> 0, status |-> "ACTIVE"]

\* Event n of a new offer, or n = 0; "notice" is stall_detected and override.
Event(kind) == [event |-> kind, n |-> 0]
NewOffer(n) == [event |-> "new_offer", n |-> n]
TerminalEvents == {"session_agreed", "session_failed", "round_timeout"}
SseEvents == [event : TerminalEvents \cup {"notice"}, n : {0}]
             \cup [event : {"new_offer"}, n : 1..MaxOffers]

\* The page's request that is under way, and the session the server read for it.
NotAsked == [kind |-> "none", read |-> NewSession]
PageRequests == {NotAsked} \cup [kind : {"session", "auto"}, read : Sessions]

LiveTypeOK ==
    /\ booked \in Sessions
    /\ turn \in {"none", "offered", "FAILED", "TIMEOUT", "HUMAN_REVIEW",
                 "agreed", "terminated", "overridden"}
    /\ events \in Seq(SseEvents) /\ Len(events) <= MaxEvents
    /\ stream \in [open : BOOLEAN, timer : BOOLEAN, last : 0..MaxEvents,
                   replay : 0..MaxEvents, breaks : 0..MaxBreaks]
    /\ page \in [offers : Seq(1..MaxOffers), sessionStatus : PageStatus,
                 agreedPrice : BOOLEAN, sseEnabled : BOOLEAN, drain : BOOLEAN,
                 request : PageRequests]

\* The page is open, or nobody looks.
LiveStart(watched) ==
    /\ booked = NewSession
    /\ turn = "none"
    /\ events = <<>>
    /\ stream = [open |-> FALSE, timer |-> watched, last |-> 0, replay |-> 0, breaks |-> 0]
    /\ page = [offers |-> <<>>, sessionStatus |-> "ACTIVE", agreedPrice |-> FALSE,
               sseEnabled |-> TRUE, drain |-> FALSE,
               request |-> NotAsked]

LiveInit == LiveStart(TRUE)

-----------------------------------------------------------------------------
\* What writes the session, one at a time.

publish_turn(ev) == Len(events) < MaxEvents /\ events' = Append(events, ev)

\* run_agent_turn adds the engine's offer and publishes it.
PublishOffer ==
    /\ turn = "none" /\ booked.status = "ACTIVE" /\ booked.offers < MaxOffers
    /\ publish_turn(NewOffer(booked.offers + 1))
    /\ turn' = "offered"
    /\ UNCHANGED <<booked, stream, page>>

\* So are a walk-away or breach of policy, the end of the rounds, and a stall.
PublishEnding ==
    /\ turn = "offered"
    /\ \/ publish_turn(Event("session_failed")) /\ turn' = "FAILED"
       \/ publish_turn(Event("round_timeout")) /\ turn' = "TIMEOUT"
       \/ publish_turn(Event("notice")) /\ turn' = "HUMAN_REVIEW"
    /\ UNCHANGED <<booked, stream, page>>

\* A session that is found expired ends on the list, and is rolled back.
PublishExpiry ==
    /\ turn = "none" /\ booked.status = "ACTIVE"
    /\ publish_turn(Event("round_timeout"))
    /\ UNCHANGED <<booked, turn, stream, page>>

\* The commit at the end of the turn; an agreement is committed by its handler.
CommitTurn ==
    /\ turn \in {"offered", "FAILED", "TIMEOUT", "HUMAN_REVIEW"}
    /\ \E status \in IF turn = "offered" THEN {"ACTIVE", "AGREED"} ELSE {turn} :
           /\ booked' = [offers |-> booked.offers + 1, status |-> status]
           /\ turn' = IF status = "AGREED" THEN "agreed" ELSE "none"
    /\ UNCHANGED <<events, stream, page>>

\* The parties' own interventions commit before they publish.
terminate_session ==
    /\ turn = "none" /\ booked.status \in {"ACTIVE", "HUMAN_REVIEW"}
    /\ booked' = [booked EXCEPT !.status = "FAILED"]
    /\ turn' = "terminated"
    /\ UNCHANGED <<events, stream, page>>

apply_human_override ==
    /\ turn = "none" /\ booked.status \in {"ACTIVE", "HUMAN_REVIEW"}
    /\ booked.offers < MaxOffers
    /\ booked' = [offers |-> booked.offers + 1, status |-> "ACTIVE"]
    /\ turn' = "overridden"
    /\ UNCHANGED <<events, stream, page>>

PublishCommitted ==
    /\ \/ turn = "agreed" /\ publish_turn(Event("session_agreed"))
       \/ turn = "terminated" /\ publish_turn(Event("session_failed"))
       \/ turn = "overridden" /\ publish_turn(Event("notice"))
    /\ turn' = "none"
    /\ UNCHANGED <<booked, stream, page>>

\* The request dies: what it has not committed is rolled back, what is on the list
\* stays.
TurnDies ==
    /\ turn # "none"
    /\ turn' = "none"
    /\ UNCHANGED <<booked, events, stream, page>>

-----------------------------------------------------------------------------
\* The stream.

\* connect(), at once or by its timer.  The page sends its last event under a name
\* the endpoint does not know: the list is replayed from the start.
connect ==
    /\ ~stream.open /\ stream.timer
    /\ stream' = [stream EXCEPT !.open = TRUE, !.timer = FALSE, !.replay = Len(events)]
    /\ UNCHANGED <<booked, turn, events, page>>

\* Mutant: the timer is set after an error only.
ClosedForGood(s) == [s EXCEPT !.open = FALSE, !.last = 0, !.replay = 0]

\* The connection is over: connect's finally block sets the timer.
Closed(s) == [s EXCEPT !.open = FALSE, !.timer = TRUE, !.last = 0, !.replay = 0]

\* event_generator after its next event: following the list it returns on a
\* terminal event, replaying it does not.
Yielded ==
    LET s == [stream EXCEPT !.last = @ + 1]
    IN  IF s.last > s.replay /\ events[s.last].event \in TerminalEvents THEN Closed(s) ELSE s

\* Mutant: an offer is appended as it comes.
Appended(offers, n) == Append(offers, n)

\* Merging an offer that is shown already: one of its round and role.
Merged(offers, n) == IF Contains(offers, n) THEN offers ELSE Append(offers, n)

\* onEvent: an offer is merged; the news of an end turns the stream off in 5 s.
OnEvent(ev) ==
    CASE ev.event = "new_offer" -> [page EXCEPT !.offers = Merged(@, ev.n)]
      [] ev.event = "session_agreed" ->
             [page EXCEPT !.sessionStatus = "AGREED", !.agreedPrice = TRUE, !.drain = TRUE]
      [] ev.event = "session_failed" ->
             [page EXCEPT !.sessionStatus = "FAILED", !.drain = TRUE]
      [] OTHER -> page

Deliver ==
    /\ stream.open /\ stream.last < Len(events)
    /\ stream' = Yielded
    /\ page' = OnEvent(events[stream.last + 1])
    /\ UNCHANGED <<booked, turn, events>>

\* The connection is lost, or refused from the start.
BreakOff ==
    /\ stream.open /\ stream.breaks < MaxBreaks
    /\ stream' = [Closed(stream) EXCEPT !.breaks = @ + 1]
    /\ UNCHANGED <<booked, turn, events, page>>

\* setSseEnabled(false).  The first time the effect is cleaned up: the connection is
\* aborted, for which connect's finally block sets the timer again; a timer that
\* runs already is cleared.
Disabled ==
    IF ~page.sseEnabled THEN stream
    ELSE IF stream.open THEN Closed(stream) ELSE [stream EXCEPT !.timer = FALSE]

Drain ==
    /\ page.drain
    /\ stream' = Disabled
    /\ page' = [page EXCEPT !.drain = FALSE, !.sseEnabled = FALSE]
    /\ UNCHANGED <<booked, turn, events>>

-----------------------------------------------------------------------------
\* The page's own requests, one at a time: the session, fetched when the page
\* appears or gets the focus again, and run-auto, which answers with the session it
\* has come to.

\* The server reads the session for its answer.
Ask(kind) ==
    /\ page.request = NotAsked
    /\ page' = [page EXCEPT !.request = [kind |-> kind, read |-> booked]]
    /\ UNCHANGED <<booked, turn, events, stream>>

\* The request fails: a toast.
AskFails ==
    /\ page.request # NotAsked
    /\ page' = [page EXCEPT !.request = NotAsked]
    /\ UNCHANGED <<booked, turn, events, stream>>

OffersOf(s) == [n \in 1..s.offers |-> n]

\* The effect of a fetched session, which may be older than what is shown.
ShowSession ==
    LET s == page.request.read
    IN  /\ page.request.kind = "session"
        /\ page' = [page EXCEPT !.request = NotAsked, !.sessionStatus = s.status,
               !.agreedPrice = @ \/ s.status = "AGREED",
               !.offers = IF s.offers > 0 THEN OffersOf(s) ELSE @,
               !.sseEnabled = @ /\ s.status = "ACTIVE"]
        /\ stream' = IF s.status # "ACTIVE" THEN Disabled ELSE stream
        /\ UNCHANGED <<booked, turn, events>>

\* The offers of a set, the earlier rounds first.
InOrder(S) ==
    CHOOSE f \in [1..Cardinality(S) -> S] : \A i, j \in DOMAIN f : i < j => f[i] < f[j]

\* The answer of run-auto: the status only when it is final, and its offers with
\* those that are shown.
ShowAuto ==
    LET s == page.request.read
    IN  /\ page.request.kind = "auto"
        /\ page' = [page EXCEPT !.request = NotAsked,
               !.sessionStatus = IF s.status = "ACTIVE" THEN @ ELSE s.status,
               !.agreedPrice = @ \/ s.status = "AGREED",
               !.offers = IF s.offers > 0 THEN InOrder(ToSet(@) \cup 1..s.offers) ELSE @]
        /\ UNCHANGED <<booked, turn, events, stream>>

-----------------------------------------------------------------------------
LiveNext ==
    \/ PublishOffer \/ PublishEnding \/ PublishExpiry \/ CommitTurn \/ TurnDies
    \/ terminate_session \/ apply_human_override \/ PublishCommitted
    \/ connect \/ Deliver \/ BreakOff \/ Drain
    \/ Ask("session") \/ Ask("auto") \/ AskFails \/ ShowSession \/ ShowAuto

\* The page's timer fires, and the server looks at its list twice a second.
LiveFairness == WF_liveVars(connect) /\ WF_liveVars(Deliver)

LiveSpec == LiveInit /\ [][LiveNext]_liveVars /\ LiveFairness

-----------------------------------------------------------------------------
\* What a turn writes is not booked before it commits: there is room for its offer.
RoomForOffer ==
    turn \in {"offered", "FAILED", "TIMEOUT", "HUMAN_REVIEW"} => booked.offers < MaxOffers

\* However often the stream is replayed, and whatever fetched sessions and answers
\* of run-auto bring in between, no offer is shown twice.
OfferShownOnce == IsInjective(page.offers)

\* Once an agreement is published the page comes to show its price, over lost
\* connections and replays and whatever it has fetched before; unless it has given
\* the stream up, after a failure or on a session that was under review.
AgreementIsSeen ==
    Contains(events, Event("session_agreed"))
        ~> page.agreedPrice \/ (~page.sseEnabled /\ ~stream.open /\ ~stream.timer)
=============================================================================
