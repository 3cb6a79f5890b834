-------------------------------- MODULE Deal --------------------------------
(***************************************************************************)
(* One RFQ from its upload to the paid deal: the background parse, the     *)
(* buyer's requests, the negotiation sessions with the matched sellers,    *)
(* the escrows of the deals selected, and the event handlers that carry an *)
(* agreement and a release back to the RFQ.  Sessions and escrows are seen *)
(* from outside: NegotiationSession and Settlement model them.  Match rows *)
(* are numbered as inserted; every row is stored as a whole, from what its *)
(* writer read.                                                            *)
(***************************************************************************)
EXTENDS Integers, Sequences

CONSTANTS Procs,      \* requests, background tasks and handlers
          NoProc,
          Sellers,
          Found,      \* what matchmaking may come up with: sequences of sellers
          MaxMatches, \* bound of the model: match rows
          MaxEdits    \* bound of the model: edits of the RFQ

ASSUME FoundAssumption == Found \subseteq Seq(Sellers) \ {<<>>}
ASSUME BoundsAssumption == MaxMatches \in Nat /\ MaxEdits \in Nat
ASSUME NoProcAssumption == NoProc \notin Procs

VARIABLES
    rfq,      \* the row of the RFQ: status and confirmed match
    matches,  \* the sellers of the match rows
    session,  \* session[i]: status of the session of match i
    escrow,   \* escrow[i]: status of the escrow of that session
    accepted, \* matches whose confirmation was answered with success
    edits,
    proc,     \* proc[p]: operation, step, match it is about, the RFQ it read
    rowlock   \* the transaction that has updated the RFQ and not committed

vars == <<rfq, matches, session, escrow, accepted, edits, proc, rowlock>>

-----------------------------------------------------------------------------
RFQStatus == {"DRAFT", "PARSE_FAILED", "PARSED", "MATCHED", "NEGOTIATING",
              "CONFIRMED", "SETTLED"}
\* An open session that ends, by whatever status, is ENDED; an agreed one keeps
\* its price when it is failed or closed.
SessionStatus == {"NONE", "OPEN", "AGREED", "ENDED", "FAILED", "CLOSED_BY_BUYER"}
\* An escrow that is rejected or refunded stays OPEN: it is there, and not released.
EscrowStatus == {"NONE", "OPEN", "RELEASED"}

MatchIds == 1..MaxMatches
NoMatch == 0
Rfq == [status : RFQStatus \cup {"NONE"}, confirmed : MatchIds \cup {NoMatch}]
NoRfq == [status |-> "NONE", confirmed |-> NoMatch]

BuyerOps == {"edit", "start", "confirm", "select"}
Ops == BuyerOps \cup {"idle", "parse", "agreed", "released"}
Pcs == {"read", "parsed", "write", "close", "create", "escrow", "reject"}
Idle == [op |-> "idle", pc |-> "read", match |-> NoMatch, snap |-> NoRfq]

Init ==
    /\ rfq = NoRfq
    /\ matches = <<>>
    /\ session = [i \in MatchIds |-> "NONE"]
    /\ escrow = [i \in MatchIds |-> "NONE"]
    /\ accepted = {}
    /\ edits = 0
    /\ proc = [p \in Procs |-> Idle]
    /\ rowlock = NoProc

At(p, op, pc) == proc[p].op = op /\ proc[p].pc = pc
Free == rowlock = NoProc
Unlocked(p) == IF rowlock = p THEN NoProc ELSE rowlock

\* The buyer is one person and makes one request at a time; the background
\* tasks and the handlers run beside it.
BuyerMay(p) ==
    /\ proc[p] = Idle
    /\ \A q \in Procs : proc[q].op \notin BuyerOps

-----------------------------------------------------------------------------
\* The RFQ: upload, parse and match in the background, edit.

upload_rfq(p) ==
    /\ rfq = NoRfq
    /\ proc[p] = Idle
    /\ rfq' = [rfq EXCEPT !.status = "DRAFT"]
    /\ proc' = [proc EXCEPT ![p].op = "parse"]
    /\ UNCHANGED <<matches, session, escrow, accepted, edits, rowlock>>

ReadForParse(p) ==
    /\ At(p, "parse", "read")
    /\ proc' = [proc EXCEPT ![p].pc = "write", ![p].snap = rfq]
    /\ UNCHANGED <<rfq, matches, session, escrow, accepted, edits, rowlock>>

\* mark_parse_failed asks for no status, mark_parsed for DRAFT.
mark_parse_failed(p) ==
    /\ At(p, "parse", "write")
    /\ Free
    /\ rfq' = [proc[p].snap EXCEPT !.status = "PARSE_FAILED"]
    /\ proc' = [proc EXCEPT ![p] = Idle]
    /\ UNCHANGED <<matches, session, escrow, accepted, edits, rowlock>>

mark_parsed(p) ==
    /\ At(p, "parse", "write")
    /\ Free
    /\ proc[p].snap.status = "DRAFT"
    /\ rfq' = [proc[p].snap EXCEPT !.status = "PARSED"]
    /\ proc' = [proc EXCEPT ![p].pc = "parsed", ![p].snap = rfq']
    /\ UNCHANGED <<matches, session, escrow, accepted, edits, rowlock>>

\* The task ends by an error of the transition or of what it calls.
ParseDies(p) ==
    /\ proc[p].op = "parse"
    /\ proc[p].pc # "read"
    /\ proc' = [proc EXCEPT ![p] = Idle]
    /\ UNCHANGED <<rfq, matches, session, escrow, accepted, edits, rowlock>>

\* Match rows and RFQ in one commit; matches of an earlier task stay.
mark_matched(p) ==
    /\ At(p, "parse", "parsed")
    /\ Free
    /\ \E found \in Found :
        /\ Len(matches) + Len(found) <= MaxMatches
        /\ matches' = matches \o found
    /\ rfq' = [proc[p].snap EXCEPT !.status = "MATCHED"]
    /\ proc' = [proc EXCEPT ![p] = Idle]
    /\ UNCHANGED <<session, escrow, accepted, edits, rowlock>>

NoMatches(p) ==
    /\ At(p, "parse", "parsed")
    /\ Free
    /\ rfq' = proc[p].snap
    /\ proc' = [proc EXCEPT ![p] = Idle]
    /\ UNCHANGED <<matches, session, escrow, accepted, edits, rowlock>>

edit_rfq(p) ==
    /\ BuyerMay(p)
    /\ rfq.status \in {"DRAFT", "PARSED", "PARSE_FAILED"}
    /\ edits < MaxEdits
    /\ edits' = edits + 1
    /\ proc' = [proc EXCEPT ![p].op = "edit", ![p].snap = rfq]
    /\ UNCHANGED <<rfq, matches, session, escrow, accepted, rowlock>>

\* Fields typed in make a failed parse good; a new text goes back to DRAFT and
\* starts another parse.
SaveOverrides(p) ==
    /\ proc[p].op = "edit"
    /\ Free
    /\ rfq' = [proc[p].snap EXCEPT !.status = IF @ = "PARSE_FAILED" THEN "PARSED" ELSE @]
    /\ proc' = [proc EXCEPT ![p] = Idle]
    /\ UNCHANGED <<matches, session, escrow, accepted, edits, rowlock>>

SaveText(p) ==
    /\ proc[p].op = "edit"
    /\ Free
    /\ rfq' = [proc[p].snap EXCEPT !.status = "DRAFT"]
    /\ proc' = [proc EXCEPT ![p] = [Idle EXCEPT !.op = "parse"]]
    /\ UNCHANGED <<matches, session, escrow, accepted, edits, rowlock>>

-----------------------------------------------------------------------------
\* Negotiations.

\* Mutant: the status is not asked for.
StartAnyStatus(p) ==
    /\ BuyerMay(p)
    /\ Free
    /\ matches # <<>>
    /\ proc' = [proc EXCEPT ![p] = [op |-> "start", pc |-> "create", match |-> 1,
                                    snap |-> rfq]]
    /\ rowlock' = p
    /\ UNCHANGED <<rfq, matches, session, escrow, accepted, edits>>

\* The status is written at once and stays uncommitted, and the row locked,
\* until a session of its own is created and committed for every match.
start_all_negotiations(p) ==
    /\ BuyerMay(p)
    /\ Free
    /\ rfq.status = "MATCHED"
    /\ matches # <<>>
    /\ proc' = [proc EXCEPT ![p] = [op |-> "start", pc |-> "create", match |-> 1,
                                    snap |-> rfq]]
    /\ rowlock' = p
    /\ UNCHANGED <<rfq, matches, session, escrow, accepted, edits>>

\* A match that has a session already is skipped by an error that is swallowed.
CreateNext(p) ==
    /\ At(p, "start", "create")
    /\ proc[p].match <= Len(matches)
    /\ session' = [session EXCEPT ![proc[p].match] = IF @ = "NONE" THEN "OPEN" ELSE @]
    /\ proc' = [proc EXCEPT ![p].match = @ + 1]
    /\ UNCHANGED <<rfq, matches, escrow, accepted, edits, rowlock>>

StartCommits(p) ==
    /\ At(p, "start", "create")
    /\ proc[p].match > Len(matches)
    /\ rfq' = [proc[p].snap EXCEPT !.status = "NEGOTIATING"]
    /\ proc' = [proc EXCEPT ![p] = Idle]
    /\ rowlock' = NoProc
    /\ UNCHANGED <<matches, session, escrow, accepted, edits>>

\* confirm_rfq finds the match by its seller, and only if the seller has one.
\* Its change of the RFQ stays uncommitted.
confirm_rfq(p, i) ==
    /\ BuyerMay(p)
    /\ Free
    /\ rfq.status \in {"MATCHED", "NEGOTIATING"}
    /\ i \in DOMAIN matches
    /\ \A j \in DOMAIN matches \ {i} : matches[j] # matches[i]
    /\ proc' = [proc EXCEPT ![p] = [op |-> "confirm", pc |-> "close", match |-> i,
                                    snap |-> rfq]]
    /\ rowlock' = p
    /\ UNCHANGED <<rfq, matches, session, escrow, accepted, edits>>

\* The other sessions, open or agreed, are closed in a database session of their
\* own.
CloseOthers(p) ==
    /\ At(p, "confirm", "close")
    /\ session' = [j \in MatchIds |->
                    IF j = proc[p].match THEN session[j]
                    ELSE IF session[j] = "OPEN" THEN "ENDED"
                    ELSE IF session[j] = "AGREED" THEN "CLOSED_BY_BUYER"
                    ELSE session[j]]
    /\ proc' = [proc EXCEPT ![p].pc = "create"]
    /\ UNCHANGED <<rfq, matches, escrow, accepted, edits, rowlock>>

\* The session is created; the request answers, and its own database session is
\* closed without a commit.
ConfirmCreates(p) ==
    /\ At(p, "confirm", "create")
    /\ session[proc[p].match] = "NONE"
    /\ session' = [session EXCEPT ![proc[p].match] = "OPEN"]
    /\ accepted' = accepted \cup {proc[p].match}
    /\ proc' = [proc EXCEPT ![p] = Idle]
    /\ rowlock' = NoProc
    /\ UNCHANGED <<rfq, matches, escrow, edits>>

\* A match that is negotiated already ends the request with an error.
ConfirmConflict(p) ==
    /\ At(p, "confirm", "create")
    /\ session[proc[p].match] # "NONE"
    /\ proc' = [proc EXCEPT ![p] = Idle]
    /\ rowlock' = NoProc
    /\ UNCHANGED <<rfq, matches, session, escrow, accepted, edits>>

SessionEnds(i) ==
    /\ session[i] = "OPEN"
    /\ session' = [session EXCEPT ![i] = "ENDED"]
    /\ UNCHANGED <<rfq, matches, escrow, accepted, edits, proc, rowlock>>

\* Mutant: SessionAgreed is published before the agreement is committed, which
\* may then fail.
PublishFirst(p, i) ==
    /\ session[i] = "OPEN"
    /\ proc[p] = Idle
    /\ session' \in {session, [session EXCEPT ![i] = "AGREED"]}
    /\ proc' = [proc EXCEPT ![p] = [Idle EXCEPT !.op = "agreed", !.match = i]]
    /\ UNCHANGED <<rfq, matches, escrow, accepted, edits, rowlock>>

\* _handle_agreement commits, then publishes SessionAgreed.
SessionAgrees(p, i) ==
    /\ session[i] = "OPEN"
    /\ proc[p] = Idle
    /\ session' = [session EXCEPT ![i] = "AGREED"]
    /\ proc' = [proc EXCEPT ![p] = [Idle EXCEPT !.op = "agreed", !.match = i]]
    /\ UNCHANGED <<rfq, matches, escrow, accepted, edits, rowlock>>

\* handle_session_agreed_confirm_rfq: read, and write if NEGOTIATING.
ReadForAgreed(p) ==
    /\ At(p, "agreed", "read")
    /\ proc' = IF rfq.status = "NEGOTIATING"
               THEN [proc EXCEPT ![p].pc = "write", ![p].snap = rfq]
               ELSE [proc EXCEPT ![p] = Idle]
    /\ UNCHANGED <<rfq, matches, session, escrow, accepted, edits, rowlock>>

WriteConfirmed(p) ==
    /\ At(p, "agreed", "write")
    /\ Free
    /\ rfq' = [status |-> "CONFIRMED", confirmed |-> proc[p].match]
    /\ proc' = [proc EXCEPT ![p] = Idle]
    /\ UNCHANGED <<matches, session, escrow, accepted, edits, rowlock>>

-----------------------------------------------------------------------------
\* The deal.

select_deal(p, i) ==
    /\ BuyerMay(p)
    /\ session[i] = "AGREED"
    /\ proc' = [proc EXCEPT ![p] = [Idle EXCEPT !.op = "select", !.pc = "escrow",
                                                !.match = i]]
    /\ UNCHANGED <<rfq, matches, session, escrow, accepted, edits, rowlock>>

\* Mutant: the other sessions are rejected first.
RejectFirst(p) ==
    /\ At(p, "select", "escrow")
    /\ session' = [j \in MatchIds |->
                    IF j # proc[p].match /\ session[j] = "AGREED"
                    THEN "FAILED" ELSE session[j]]
    /\ proc' = [proc EXCEPT ![p].pc = "reject"]
    /\ UNCHANGED <<rfq, matches, escrow, accepted, edits, rowlock>>

\* create_pending_escrow returns the escrow a session has already.
create_pending_escrow(p) ==
    /\ At(p, "select", "escrow")
    /\ escrow' = [escrow EXCEPT ![proc[p].match] = IF @ = "NONE" THEN "OPEN" ELSE @]
    /\ proc' = [proc EXCEPT ![p].pc = "reject"]
    /\ UNCHANGED <<rfq, matches, session, accepted, edits, rowlock>>

\* The agreed sessions that lost are failed in a second transaction.
RejectOthers(p) ==
    /\ At(p, "select", "reject")
    /\ session' = [j \in MatchIds |->
                    IF j # proc[p].match /\ session[j] = "AGREED"
                    THEN "FAILED" ELSE session[j]]
    /\ proc' = [proc EXCEPT ![p] = Idle]
    /\ UNCHANGED <<rfq, matches, escrow, accepted, edits, rowlock>>

\* That transaction is best effort.
RejectionFails(p) ==
    /\ At(p, "select", "reject")
    /\ proc' = [proc EXCEPT ![p] = Idle]
    /\ UNCHANGED <<rfq, matches, session, escrow, accepted, edits, rowlock>>

\* Mutant: EscrowReleased is published before the release is committed.
ReleasePublishedFirst(p, i) ==
    /\ escrow[i] # "NONE"
    /\ proc[p] = Idle
    /\ escrow' \in {escrow, [escrow EXCEPT ![i] = "RELEASED"]}
    /\ proc' = [proc EXCEPT ![p] = [Idle EXCEPT !.op = "released", !.match = i]]
    /\ UNCHANGED <<rfq, matches, session, accepted, edits, rowlock>>

\* The release is committed, then EscrowReleased published; twice where two
\* contracts were deployed for the escrow and both are released.
EscrowReleases(p, i) ==
    /\ escrow[i] # "NONE"
    /\ proc[p] = Idle
    /\ escrow' = [escrow EXCEPT ![i] = "RELEASED"]
    /\ proc' = [proc EXCEPT ![p] = [Idle EXCEPT !.op = "released", !.match = i]]
    /\ UNCHANGED <<rfq, matches, session, accepted, edits, rowlock>>

\* handle_escrow_released_settle_rfq: read, and write if CONFIRMED.
ReadForReleased(p) ==
    /\ At(p, "released", "read")
    /\ proc' = IF rfq.status = "CONFIRMED"
               THEN [proc EXCEPT ![p].pc = "write", ![p].snap = rfq]
               ELSE [proc EXCEPT ![p] = Idle]
    /\ UNCHANGED <<rfq, matches, session, escrow, accepted, edits, rowlock>>

mark_settled(p) ==
    /\ At(p, "released", "write")
    /\ Free
    /\ rfq' = [proc[p].snap EXCEPT !.status = "SETTLED"]
    /\ proc' = [proc EXCEPT ![p] = Idle]
    /\ UNCHANGED <<matches, session, escrow, accepted, edits, rowlock>>

\* The worker dies: its transaction is rolled back, what it had committed stays.
Crash(p) ==
    /\ proc[p] # Idle
    /\ proc' = [proc EXCEPT ![p] = Idle]
    /\ rowlock' = Unlocked(p)
    /\ UNCHANGED <<rfq, matches, session, escrow, accepted, edits>>

ParseStep(p) ==
    \/ ReadForParse(p)
    \/ mark_parse_failed(p)
    \/ mark_parsed(p)
    \/ ParseDies(p)
    \/ mark_matched(p)
    \/ NoMatches(p)

RequestStep(p) ==
    \/ SaveOverrides(p)
    \/ SaveText(p)
    \/ CreateNext(p)
    \/ StartCommits(p)
    \/ CloseOthers(p)
    \/ ConfirmCreates(p)
    \/ ConfirmConflict(p)
    \/ create_pending_escrow(p)
    \/ RejectOthers(p)
    \/ RejectionFails(p)

EventStep(p) ==
    \/ ReadForAgreed(p)
    \/ WriteConfirmed(p)
    \/ ReadForReleased(p)
    \/ mark_settled(p)

Next ==
    \/ \E p \in Procs :
        \/ upload_rfq(p)
        \/ edit_rfq(p)
        \/ start_all_negotiations(p)
        \/ \E i \in MatchIds :
            \/ confirm_rfq(p, i)
            \/ select_deal(p, i)
            \/ SessionAgrees(p, i)
            \/ EscrowReleases(p, i)
        \/ ParseStep(p)
        \/ RequestStep(p)
        \/ EventStep(p)
        \/ Crash(p)
    \/ \E i \in MatchIds : SessionEnds(i)

Spec == Init /\ [][Next]_vars

-----------------------------------------------------------------------------
TypeOK ==
    /\ rfq \in Rfq
    /\ matches \in Seq(Sellers)
    /\ Len(matches) <= MaxMatches
    /\ session \in [MatchIds -> SessionStatus]
    /\ escrow \in [MatchIds -> EscrowStatus]
    /\ accepted \subseteq MatchIds
    /\ edits \in 0..MaxEdits
    /\ proc \in [Procs -> [op : Ops, pc : Pcs, match : 0..(MaxMatches + 1), snap : Rfq]]
    /\ rowlock \in Procs \cup {NoProc}

HadAgreed(i) == session[i] \in {"AGREED", "FAILED", "CLOSED_BY_BUYER"}

\* A confirmed or settled RFQ names a match whose session has agreed on a price, even
\* if it was failed or closed since: handlers see an agreement only once it is
\* committed, whatever they overwrite meanwhile.
ConfirmedHasAgreed ==
    rfq.status \in {"CONFIRMED", "SETTLED"} =>
        rfq.confirmed # NoMatch /\ HadAgreed(rfq.confirmed)

\* A settled RFQ was paid: the escrow of one of its deals has been released.
SettledIsPaid == rfq.status = "SETTLED" => \E i \in MatchIds : escrow[i] = "RELEASED"

\* An agreed session is failed only for a deal that was made: the escrow of
\* another session of the RFQ was stored before, also if select-deal is cut short.
RejectedForADeal ==
    \A i \in MatchIds : session[i] = "FAILED" => \E j \in MatchIds \ {i} : escrow[j] # "NONE"

\* Without an edit, which starts a second parse, the RFQ never falls back behind a
\* stage it has reached, whatever rows the tasks and handlers in flight have read;
\* only a slow handler of an earlier agreement can confirm a settled RFQ again.
Stage == <<"NONE", "DRAFT", "PARSE_FAILED", "PARSED", "MATCHED", "NEGOTIATING",
           "CONFIRMED", "SETTLED">>
Reached(status) == CHOOSE n \in DOMAIN Stage : Stage[n] = status
NoWayBack ==
    [][\/ edits > 0
       \/ Reached(rfq.status) <= Reached(rfq'.status)
       \/ rfq.status = "SETTLED" /\ rfq'.status = "CONFIRMED"]_vars

-----------------------------------------------------------------------------
\* The lives of escrows and sessions: what they are allowed here is what
\* Settlement and NegotiationSession make of them.
EscrowOf(i) == INSTANCE EscrowLife WITH stage <- escrow[i]

SessionStage(status) ==
    IF status \in {"NONE", "OPEN"} THEN "OPEN"
    ELSE IF status = "AGREED" THEN "AGREED"
    ELSE "OVER"
SessionOf(i) == INSTANCE SessionLife WITH stage <- SessionStage(session[i])

\* No request, task or handler does more to an escrow or a session than the
\* module that details it.
LivesSpec ==
    /\ \A i \in MatchIds : EscrowOf(i)!Init /\ SessionOf(i)!Init
    /\ [][\A i \in MatchIds :
            /\ [EscrowOf(i)!Next]_(escrow[i])
            /\ [SessionOf(i)!Next]_(SessionStage(session[i]))]_<<escrow, session>>
=============================================================================
