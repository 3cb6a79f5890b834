----------------------------- MODULE Deal_proofs -----------------------------
(***************************************************************************)
(* Proofs about Deal, for every number of requests, tasks and handlers, of *)
(* sellers and matches, and of edits; about NegotiationMemory, for every   *)
(* number of workers and sessions; and about Matchmaking, for every set of *)
(* suppliers and products and all that may be extracted and be in stock.   *)
(***************************************************************************)
EXTENDS Deal, NegotiationMemory, Matchmaking, FiniteSetTheorems, FunctionTheorems,
        WellFoundedInduction, NaturalsInduction, TLAPS

-----------------------------------------------------------------------------
\* The inductive invariant.  A request or handler writes back a row it has read
\* before, and acts on an agreement or a release it was told of: what it holds
\* must be as well backed as the row in the table.

Proc == [op : Ops, pc : Pcs, match : 0..(MaxMatches + 1), snap : Rfq]

Paid == \E i \in MatchIds : escrow[i] = "RELEASED"

Behind(r) ==
    /\ r.status \in {"CONFIRMED", "SETTLED"} =>
           r.confirmed \in MatchIds /\ HadAgreed(r.confirmed)
    /\ r.status = "SETTLED" => Paid

GoodProc(q) ==
    /\ Behind(q.snap)
    /\ q.op \in {"confirm", "select", "agreed", "released"} => q.match \in MatchIds
    /\ q.op = "agreed" => HadAgreed(q.match)
    /\ q.op = "released" => escrow[q.match] = "RELEASED"
    /\ q.op = "released" /\ q.pc = "write" => q.snap.status = "CONFIRMED"
    /\ q.op = "select" /\ q.pc = "reject" => escrow[q.match] # "NONE"

IInv ==
    /\ TypeOK
    /\ Behind(rfq)
    /\ \A p \in Procs : GoodProc(proc[p])
    /\ RejectedForADeal

-----------------------------------------------------------------------------
\* Lemmas about the steps.

LEMMA IdleIsGood ==
  /\ Idle \in Proc
  /\ NoRfq \in Rfq
  /\ Idle.op = "idle" /\ Idle.pc = "read" /\ Idle.match = NoMatch /\ Idle.snap = NoRfq
  /\ Behind(NoRfq) /\ Behind(NoRfq)'
  /\ GoodProc(Idle) /\ GoodProc(Idle)'
  <1>1. /\ Idle.op = "idle" /\ Idle.pc = "read"
        /\ Idle.match = NoMatch /\ Idle.snap = NoRfq
    BY DEF Idle
  <1>2. NoRfq \in Rfq /\ NoRfq.status = "NONE"
    BY DEF NoRfq, Rfq
  <1>3. Idle \in Proc
    BY <1>2, BoundsAssumption DEF Idle, Proc, Ops, Pcs, NoMatch
  <1>4. Behind(NoRfq) /\ Behind(NoRfq)'
    BY <1>2 DEF Behind
  <1>5. QED
    BY <1>1, <1>2, <1>3, <1>4 DEF GoodProc

LEMMA MatchIsInRange == \A i \in MatchIds : i \in 0..(MaxMatches + 1)
  BY BoundsAssumption DEF MatchIds

\* An agreement stays made, a release stays done, an escrow stays.
Grows ==
    /\ \A i \in MatchIds : HadAgreed(i) => HadAgreed(i)'
    /\ \A i \in MatchIds : escrow[i] = "RELEASED" => escrow'[i] = "RELEASED"
    /\ \A i \in MatchIds : escrow[i] # "NONE" => escrow'[i] # "NONE"

LEMMA GoodKept ==
  ASSUME Grows
  PROVE  /\ \A r : Behind(r) => Behind(r)'
         /\ \A q : GoodProc(q) => GoodProc(q)'
  <1>1. ASSUME NEW r, Behind(r) PROVE Behind(r)'
    BY <1>1 DEF Grows, Behind, Paid
  <1>2. ASSUME NEW q, GoodProc(q) PROVE GoodProc(q)'
    <2>1. Behind(q.snap)'
      BY <1>1, <1>2 DEF GoodProc
    <2>2. QED
      BY <1>2, <2>1 DEF GoodProc, Grows
  <1>3. QED
    BY <1>1, <1>2

\* A step of p preserves the invariant if it forgets no agreement, release or
\* escrow, and leaves the row of the RFQ and p itself well backed.
LEMMA ProcStep ==
  ASSUME IInv, NEW p \in Procs, NEW h \in Proc,
         proc' = [proc EXCEPT ![p] = h], GoodProc(h)',
         rfq' \in Rfq, Behind(rfq)',
         matches' \in Seq(Sellers), Len(matches') <= MaxMatches,
         session' \in [MatchIds -> SessionStatus],
         escrow' \in [MatchIds -> EscrowStatus],
         accepted' \subseteq MatchIds,
         edits' \in 0..MaxEdits,
         rowlock' \in Procs \cup {NoProc},
         Grows, RejectedForADeal'
  PROVE  IInv'
  <1>1. TypeOK'
    BY DEF IInv, TypeOK, Proc
  <1>2. \A q \in Procs : proc'[q] = IF q = p THEN h ELSE proc[q]
    BY DEF IInv, TypeOK
  <1>3. ASSUME NEW q \in Procs PROVE GoodProc(proc[q])'
    <2>1. CASE q = p
      BY <1>2, <2>1 DEF GoodProc, Behind
    <2>2. CASE q # p
      <3>1. GoodProc(proc[q]) /\ proc'[q] = proc[q]
        BY <1>2, <2>2 DEF IInv
      <3>2. QED
        BY <3>1, GoodKept DEF GoodProc, Behind
    <2>3. QED
      BY <2>1, <2>2
  <1>4. QED
    BY <1>1, <1>3 DEF IInv

\* The same for a step that leaves sessions, escrows and matches alone.
LEMMA RowStep ==
  ASSUME IInv, NEW p \in Procs, NEW h \in Proc,
         proc' = [proc EXCEPT ![p] = h], GoodProc(h),
         rfq' \in Rfq, Behind(rfq'),
         edits' \in 0..MaxEdits,
         rowlock' \in Procs \cup {NoProc},
         UNCHANGED <<matches, session, escrow, accepted>>
  PROVE  IInv'
  <1>1. Grows
    BY DEF Grows, HadAgreed
  <1>2. GoodProc(h)' /\ Behind(rfq)'
    BY <1>1, GoodKept DEF Behind
  <1>3. RejectedForADeal'
    BY DEF IInv, RejectedForADeal
  <1>4. QED
    BY <1>1, <1>2, <1>3, ProcStep DEF IInv, TypeOK

\* And for a step that leaves the row alone too.
LEMMA OnlyProcStep ==
  ASSUME IInv, NEW p \in Procs, NEW h \in Proc,
         proc' = [proc EXCEPT ![p] = h], GoodProc(h),
         rowlock' \in Procs \cup {NoProc},
         UNCHANGED <<rfq, matches, session, escrow, accepted, edits>>
  PROVE  IInv'
  BY RowStep DEF IInv, TypeOK

\* A request or handler is a good record with a good copy of the row.
LEMMA ProcAt ==
  ASSUME IInv, NEW p \in Procs
  PROVE  /\ proc[p] \in Proc
         /\ proc[p].op \in Ops /\ proc[p].pc \in Pcs
         /\ proc[p].match \in 0..(MaxMatches + 1)
         /\ proc[p].snap \in Rfq
         /\ GoodProc(proc[p])
         /\ Behind(proc[p].snap)
  BY DEF IInv, TypeOK, Proc, GoodProc

\* A copy of the row with a status of an RFQ that is not confirmed.
LEMMA EarlyRow ==
  ASSUME NEW r \in Rfq, NEW s \in RFQStatus \ {"CONFIRMED", "SETTLED"}
  PROVE  [r EXCEPT !.status = s] \in Rfq /\ Behind([r EXCEPT !.status = s])
  BY DEF Rfq, Behind

-----------------------------------------------------------------------------
\* The actions, group by group.

\* A process that ends, whatever becomes of the row lock.
LEMMA EndStep ==
  ASSUME IInv, NEW p \in Procs, proc' = [proc EXCEPT ![p] = Idle],
         rowlock' \in {rowlock, NoProc},
         UNCHANGED <<rfq, matches, session, escrow, accepted, edits>>
  PROVE  IInv'
  <1>1. rowlock' \in Procs \cup {NoProc}
    BY DEF IInv, TypeOK
  <1>2. QED
    BY <1>1, OnlyProcStep, IdleIsGood

\* A process that ends by writing the row.
LEMMA WriteStep ==
  ASSUME IInv, NEW p \in Procs, proc' = [proc EXCEPT ![p] = Idle],
         rfq' \in Rfq, Behind(rfq'),
         rowlock' \in {rowlock, NoProc},
         UNCHANGED <<matches, session, escrow, accepted, edits>>
  PROVE  IInv'
  <1>1. rowlock' \in Procs \cup {NoProc} /\ edits' \in 0..MaxEdits
    BY DEF IInv, TypeOK
  <1>2. QED
    BY <1>1, RowStep, IdleIsGood

\* The background parse.
LEMMA ParseKeeps ==
  ASSUME IInv, NEW p \in Procs, upload_rfq(p) \/ ParseStep(p)
  PROVE  IInv'
  <1> DEFINE q == proc[p]
  <1>1. /\ q \in Proc /\ q.snap \in Rfq /\ GoodProc(q) /\ Behind(q.snap)
        /\ rfq \in Rfq /\ Behind(rfq)
        /\ rowlock \in Procs \cup {NoProc} /\ edits \in 0..MaxEdits
    BY ProcAt DEF IInv, TypeOK
  <1>2. CASE upload_rfq(p)
    <2> DEFINE h == [q EXCEPT !.op = "parse"]
    <2>1. h \in Proc /\ h.op = "parse" /\ h.snap = q.snap
      BY <1>1 DEF Proc, Ops
    <2>2. GoodProc(h)
      BY <1>1, <2>1 DEF GoodProc
    <2>3. proc' = [proc EXCEPT ![p] = h]
      BY <1>2 DEF upload_rfq
    <2> HIDE DEF h
    <2>4. rfq' \in Rfq /\ Behind(rfq')
      BY <1>1, <1>2, EarlyRow DEF upload_rfq, RFQStatus
    <2>5. QED
      BY <1>1, <1>2, <2>1, <2>2, <2>3, <2>4, RowStep DEF upload_rfq
  <1>3. CASE ReadForParse(p)
    <2> DEFINE h == [q EXCEPT !.pc = "write", !.snap = rfq]
    <2>1. h \in Proc /\ h.op = "parse" /\ h.snap = rfq
      BY <1>1, <1>3 DEF Proc, Pcs, ReadForParse, At
    <2>2. GoodProc(h)
      BY <1>1, <2>1 DEF GoodProc
    <2>3. proc' = [proc EXCEPT ![p] = h]
      BY <1>3 DEF ReadForParse
    <2> HIDE DEF h
    <2>4. QED
      BY <1>1, <1>3, <2>1, <2>2, <2>3, OnlyProcStep DEF ReadForParse
  <1>4. CASE mark_parse_failed(p)
    <2>1. rfq' \in Rfq /\ Behind(rfq')
      BY <1>1, <1>4, EarlyRow DEF mark_parse_failed, RFQStatus
    <2>2. QED
      BY <1>4, <2>1, WriteStep DEF mark_parse_failed
  <1>5. CASE mark_parsed(p)
    <2> DEFINE r == [q.snap EXCEPT !.status = "PARSED"]
               h == [q EXCEPT !.pc = "parsed", !.snap = r]
    <2>1. r \in Rfq /\ Behind(r)
      BY <1>1, EarlyRow DEF RFQStatus
    <2>2. rfq' = r
      BY <1>5 DEF mark_parsed
    <2> HIDE DEF r
    <2>3. h \in Proc /\ h.op = "parse" /\ h.snap = r
      BY <1>1, <1>5, <2>1 DEF Proc, Pcs, mark_parsed, At
    <2>4. GoodProc(h)
      BY <2>1, <2>3 DEF GoodProc
    <2>5. proc' = [proc EXCEPT ![p] = h]
      BY <1>5, <2>2 DEF mark_parsed
    <2> HIDE DEF h
    <2>6. QED
      BY <1>1, <1>5, <2>1, <2>2, <2>3, <2>4, <2>5, RowStep DEF mark_parsed
  <1>6. CASE ParseDies(p)
    BY <1>6, EndStep DEF ParseDies
  <1>7. CASE mark_matched(p)
    <2>1. rfq' \in Rfq /\ Behind(rfq')
      BY <1>1, <1>7, EarlyRow DEF mark_matched, RFQStatus
    <2>2. matches' \in Seq(Sellers) /\ Len(matches') <= MaxMatches
      <3>1. PICK found \in Found : /\ Len(matches) + Len(found) <= MaxMatches
                                   /\ matches' = matches \o found
        BY <1>7 DEF mark_matched
      <3>2. matches \in Seq(Sellers) /\ found \in Seq(Sellers)
        BY FoundAssumption DEF IInv, TypeOK
      <3>3. QED
        BY <3>1, <3>2
    <2>3. Grows /\ RejectedForADeal' /\ Behind(rfq)'
      BY <1>7, <2>1 DEF mark_matched, Grows, HadAgreed, IInv, RejectedForADeal, Behind, Paid
    <2>4. QED
      BY <1>7, <2>1, <2>2, <2>3, IdleIsGood, ProcStep DEF mark_matched, IInv, TypeOK
  <1>8. CASE NoMatches(p)
    BY <1>1, <1>8, WriteStep DEF NoMatches
  <1>9. QED
    BY <1>2, <1>3, <1>4, <1>5, <1>6, <1>7, <1>8 DEF ParseStep

\* The edit, and the start of the negotiations.
LEMMA EditKeeps ==
  ASSUME IInv, NEW p \in Procs, edit_rfq(p) \/ SaveOverrides(p) \/ SaveText(p)
  PROVE  IInv'
  <1> DEFINE q == proc[p]
  <1>1. /\ q \in Proc /\ q.snap \in Rfq /\ GoodProc(q) /\ Behind(q.snap)
        /\ rfq \in Rfq /\ Behind(rfq)
        /\ rowlock \in Procs \cup {NoProc} /\ edits \in 0..MaxEdits
    BY ProcAt DEF IInv, TypeOK
  <1>2. CASE edit_rfq(p)
    <2> DEFINE h == [q EXCEPT !.op = "edit", !.snap = rfq]
    <2>1. h \in Proc /\ h.op = "edit" /\ h.snap = rfq
      BY <1>1 DEF Proc, Ops, BuyerOps
    <2>2. GoodProc(h)
      BY <1>1, <2>1 DEF GoodProc
    <2>3. proc' = [proc EXCEPT ![p] = h]
      BY <1>2 DEF edit_rfq
    <2>4. edits' \in 0..MaxEdits
      BY <1>1, <1>2, BoundsAssumption DEF edit_rfq
    <2> HIDE DEF h
    <2>5. QED
      BY <1>1, <1>2, <2>1, <2>2, <2>3, <2>4, RowStep DEF edit_rfq
  <1>3. CASE SaveOverrides(p)
    <2>1. /\ [q.snap EXCEPT !.status = "PARSED"] \in Rfq
          /\ Behind([q.snap EXCEPT !.status = "PARSED"])
      BY <1>1, EarlyRow DEF RFQStatus
    <2>2. rfq' = q.snap \/ rfq' = [q.snap EXCEPT !.status = "PARSED"]
      <3>1. rfq' = [q.snap EXCEPT !.status = IF q.snap.status = "PARSE_FAILED" THEN "PARSED"
                                             ELSE q.snap.status]
        BY <1>3 DEF SaveOverrides
      <3>2. [q.snap EXCEPT !.status = q.snap.status] = q.snap
        BY <1>1 DEF Rfq
      <3>3. QED
        BY <3>1, <3>2
    <2>3. QED
      BY <1>1, <1>3, <2>1, <2>2, WriteStep DEF SaveOverrides
  <1>4. CASE SaveText(p)
    <2> DEFINE h == [Idle EXCEPT !.op = "parse"]
    <2>1. h \in Proc /\ h.op = "parse" /\ h.snap = NoRfq
      BY IdleIsGood DEF Proc, Ops
    <2>2. GoodProc(h)
      BY <2>1, IdleIsGood DEF GoodProc
    <2>3. proc' = [proc EXCEPT ![p] = h]
      BY <1>4 DEF SaveText
    <2> HIDE DEF h
    <2>4. rfq' \in Rfq /\ Behind(rfq')
      BY <1>1, <1>4, EarlyRow DEF SaveText, RFQStatus
    <2>5. QED
      BY <1>1, <1>4, <2>1, <2>2, <2>3, <2>4, RowStep DEF SaveText
  <1>5. QED
    BY <1>2, <1>3, <1>4

\* A session that is not failed and keeps its agreement.
LEMMA SessionStep ==
  ASSUME IInv, NEW p \in Procs, NEW h \in Proc,
         proc' = [proc EXCEPT ![p] = h], GoodProc(h)',
         session' \in [MatchIds -> SessionStatus],
         \A i \in MatchIds : session'[i] = "FAILED" => session[i] = "FAILED",
         \A i \in MatchIds : HadAgreed(i) => HadAgreed(i)',
         accepted' \subseteq MatchIds,
         rowlock' \in Procs \cup {NoProc},
         UNCHANGED <<rfq, matches, escrow, edits>>
  PROVE  IInv'
  <1>1. Grows
    BY DEF Grows
  <1>2. Behind(rfq)'
    BY <1>1, GoodKept DEF IInv, Behind, Paid
  <1>3. RejectedForADeal'
    BY DEF IInv, RejectedForADeal
  <1>4. QED
    BY <1>1, <1>2, <1>3, ProcStep DEF IInv, TypeOK

\* start-negotiations and confirm.
LEMMA StartKeeps ==
  ASSUME IInv, NEW p \in Procs,
         start_all_negotiations(p) \/ CreateNext(p) \/ StartCommits(p)
  PROVE  IInv'
  <1> DEFINE q == proc[p]
  <1>1. /\ q \in Proc /\ q.snap \in Rfq /\ GoodProc(q) /\ Behind(q.snap)
        /\ q.match \in 0..(MaxMatches + 1)
        /\ rfq \in Rfq /\ Behind(rfq)
        /\ rowlock \in Procs \cup {NoProc} /\ edits \in 0..MaxEdits
        /\ Len(matches) \in Nat /\ Len(matches) <= MaxMatches
        /\ accepted \subseteq MatchIds
    BY ProcAt DEF IInv, TypeOK
  <1>2. CASE start_all_negotiations(p)
    <2> DEFINE h == [op |-> "start", pc |-> "create", match |-> 1, snap |-> rfq]
    <2>1. h \in Proc /\ GoodProc(h)
      BY <1>1, BoundsAssumption DEF Proc, Ops, BuyerOps, Pcs, GoodProc
    <2>2. proc' = [proc EXCEPT ![p] = h]
      BY <1>2 DEF start_all_negotiations
    <2> HIDE DEF h
    <2>3. QED
      BY <1>1, <1>2, <2>1, <2>2, OnlyProcStep DEF start_all_negotiations
  <1>3. CASE CreateNext(p)
    <2>1. q.op = "start" /\ q.match + 1 \in 0..(MaxMatches + 1)
      BY <1>1, <1>3, BoundsAssumption DEF CreateNext, At
    <2>2. PICK h \in Proc : h = [q EXCEPT !.match = q.match + 1]
      BY <1>1, <2>1 DEF Proc
    <2>3. /\ proc' = [proc EXCEPT ![p] = h]
          /\ h.op = "start" /\ h.snap = q.snap
      BY <1>1, <1>3, <2>1, <2>2 DEF CreateNext, Proc
    <2>4. session' = [session EXCEPT ![q.match] = IF session[q.match] = "NONE" THEN "OPEN"
                                                   ELSE session[q.match]]
      BY <1>3 DEF CreateNext
    <2>5. /\ session' \in [MatchIds -> SessionStatus]
          /\ \A i \in MatchIds : session'[i] = "FAILED" => session[i] = "FAILED"
          /\ \A i \in MatchIds : HadAgreed(i) => HadAgreed(i)'
      BY <2>4 DEF IInv, TypeOK, SessionStatus, HadAgreed
    <2>6. Grows
      BY <1>3, <2>5 DEF Grows, CreateNext
    <2>7. GoodProc(h)
      BY <1>1, <2>3 DEF GoodProc
    <2>8. GoodProc(h)'
      BY <2>6, <2>7, GoodKept
    <2>9. QED
      BY <1>1, <1>3, <2>3, <2>5, <2>8, SessionStep DEF CreateNext
  <1>4. CASE StartCommits(p)
    <2>1. rfq' \in Rfq /\ Behind(rfq')
      BY <1>1, <1>4, EarlyRow DEF StartCommits, RFQStatus
    <2>2. QED
      BY <1>4, <2>1, WriteStep DEF StartCommits
  <1>5. QED
    BY <1>2, <1>3, <1>4

LEMMA ConfirmKeeps ==
  ASSUME IInv, NEW p \in Procs,
         \/ \E i \in MatchIds : confirm_rfq(p, i)
         \/ CloseOthers(p) \/ ConfirmCreates(p) \/ ConfirmConflict(p)
  PROVE  IInv'
  <1> DEFINE q == proc[p]
  <1>1. /\ q \in Proc /\ q.snap \in Rfq /\ GoodProc(q) /\ Behind(q.snap)
        /\ rfq \in Rfq /\ Behind(rfq)
        /\ rowlock \in Procs \cup {NoProc} /\ edits \in 0..MaxEdits
        /\ accepted \subseteq MatchIds
        /\ session \in [MatchIds -> SessionStatus]
    BY ProcAt DEF IInv, TypeOK
  <1>2. ASSUME NEW i \in MatchIds, confirm_rfq(p, i)
        PROVE  IInv'
    <2> DEFINE h == [op |-> "confirm", pc |-> "close", match |-> i, snap |-> rfq]
    <2>1. h \in Proc /\ GoodProc(h)
      BY <1>1, <1>2, BoundsAssumption DEF Proc, Ops, BuyerOps, Pcs, GoodProc, MatchIds
    <2>2. proc' = [proc EXCEPT ![p] = h]
      BY <1>2 DEF confirm_rfq
    <2> HIDE DEF h
    <2>3. QED
      BY <1>1, <1>2, <2>1, <2>2, OnlyProcStep DEF confirm_rfq
  <1>3. CASE CloseOthers(p)
    <2>1. PICK h \in Proc : h = [q EXCEPT !.pc = "create"]
      BY <1>1 DEF Proc, Pcs
    <2>2. /\ proc' = [proc EXCEPT ![p] = h]
          /\ h.op = "confirm" /\ h.snap = q.snap /\ h.match = q.match
      BY <1>1, <1>3, <2>1 DEF CloseOthers, At, Proc
    <2>3. /\ session' \in [MatchIds -> SessionStatus]
          /\ \A i \in MatchIds : session'[i] = "FAILED" => session[i] = "FAILED"
          /\ \A i \in MatchIds : HadAgreed(i) => HadAgreed(i)'
      BY <1>1, <1>3 DEF CloseOthers, SessionStatus, HadAgreed
    <2>4. Grows
      BY <1>3, <2>3 DEF Grows, CloseOthers
    <2>5. GoodProc(h)
      BY <1>1, <1>3, <2>2 DEF GoodProc, CloseOthers, At
    <2>6. GoodProc(h)'
      BY <2>4, <2>5, GoodKept
    <2>7. QED
      BY <1>1, <1>3, <2>2, <2>3, <2>6, SessionStep DEF CloseOthers
  <1>4. CASE ConfirmCreates(p)
    <2>1. q.match \in MatchIds
      BY <1>1, <1>4 DEF ConfirmCreates, At, GoodProc
    <2>2. /\ session' \in [MatchIds -> SessionStatus]
          /\ \A i \in MatchIds : session'[i] = "FAILED" => session[i] = "FAILED"
          /\ \A i \in MatchIds : HadAgreed(i) => HadAgreed(i)'
          /\ accepted' \subseteq MatchIds
      BY <1>1, <1>4, <2>1 DEF ConfirmCreates, SessionStatus, HadAgreed
    <2>3. QED
      BY <1>4, <2>2, IdleIsGood, SessionStep DEF ConfirmCreates
  <1>5. CASE ConfirmConflict(p)
    BY <1>5, EndStep DEF ConfirmConflict
  <1>6. QED
    BY <1>2, <1>3, <1>4, <1>5

\* A session that agrees, and the handler that confirms the RFQ.
LEMMA AgreedKeeps ==
  ASSUME IInv, NEW p \in Procs,
         \/ \E i \in MatchIds : SessionAgrees(p, i)
         \/ ReadForAgreed(p) \/ WriteConfirmed(p)
  PROVE  IInv'
  <1> DEFINE q == proc[p]
  <1>1. /\ q \in Proc /\ q.snap \in Rfq /\ GoodProc(q) /\ Behind(q.snap)
        /\ rfq \in Rfq /\ Behind(rfq)
        /\ rowlock \in Procs \cup {NoProc} /\ edits \in 0..MaxEdits
        /\ accepted \subseteq MatchIds
        /\ session \in [MatchIds -> SessionStatus]
    BY ProcAt DEF IInv, TypeOK
  <1>2. ASSUME NEW i \in MatchIds, SessionAgrees(p, i)
        PROVE  IInv'
    <2>1. PICK h \in Proc : h = [Idle EXCEPT !.op = "agreed", !.match = i]
      <3>1. "agreed" \in Ops
        BY DEF Ops
      <3>2. QED
        BY <3>1, IdleIsGood, MatchIsInRange DEF Proc
    <2>2. /\ proc' = [proc EXCEPT ![p] = h]
          /\ h.op = "agreed" /\ h.pc = "read" /\ h.match = i /\ h.snap = NoRfq
      BY <1>2, <2>1, IdleIsGood DEF SessionAgrees, Proc
    <2>3. /\ session' \in [MatchIds -> SessionStatus]
          /\ \A j \in MatchIds : session'[j] = "FAILED" => session[j] = "FAILED"
          /\ \A j \in MatchIds : HadAgreed(j) => HadAgreed(j)'
          /\ HadAgreed(i)'
      BY <1>1, <1>2 DEF SessionAgrees, SessionStatus, HadAgreed
    <2>4. GoodProc(h)'
      BY <2>2, <2>3, IdleIsGood DEF GoodProc
    <2>5. QED
      BY <1>1, <1>2, <2>2, <2>3, <2>4, SessionStep DEF SessionAgrees
  <1>3. CASE ReadForAgreed(p)
    <2>1. CASE rfq.status = "NEGOTIATING"
      <3> DEFINE h == [q EXCEPT !.pc = "write", !.snap = rfq]
      <3>1. /\ h \in Proc /\ h.op = "agreed" /\ h.snap = rfq /\ h.match = q.match
            /\ q.op = "agreed"
        BY <1>1, <1>3 DEF Proc, Pcs, ReadForAgreed, At
      <3>2. GoodProc(h)
        BY <1>1, <3>1 DEF GoodProc
      <3>3. proc' = [proc EXCEPT ![p] = h]
        BY <1>3, <2>1 DEF ReadForAgreed
      <3> HIDE DEF h
      <3>4. QED
        BY <1>1, <1>3, <3>1, <3>2, <3>3, OnlyProcStep DEF ReadForAgreed
    <2>2. CASE rfq.status # "NEGOTIATING"
      BY <1>3, <2>2, EndStep DEF ReadForAgreed
    <2>3. QED
      BY <2>1, <2>2
  <1>4. CASE WriteConfirmed(p)
    <2>1. q.match \in MatchIds /\ HadAgreed(q.match)
      BY <1>1, <1>4 DEF WriteConfirmed, At, GoodProc
    <2>2. rfq' = [status |-> "CONFIRMED", confirmed |-> q.match]
      BY <1>4 DEF WriteConfirmed
    <2>3. rfq' \in Rfq /\ Behind(rfq')
      BY <2>1, <2>2 DEF Rfq, RFQStatus, Behind
    <2>4. QED
      BY <1>4, <2>3, WriteStep DEF WriteConfirmed
  <1>5. QED
    BY <1>2, <1>3, <1>4

\* The selection of a deal.
LEMMA SelectKeeps ==
  ASSUME IInv, NEW p \in Procs,
         \/ \E i \in MatchIds : select_deal(p, i)
         \/ create_pending_escrow(p) \/ RejectOthers(p) \/ RejectionFails(p)
  PROVE  IInv'
  <1> DEFINE q == proc[p]
  <1>1. /\ q \in Proc /\ q.snap \in Rfq /\ GoodProc(q) /\ Behind(q.snap)
        /\ rfq \in Rfq /\ Behind(rfq)
        /\ rowlock \in Procs \cup {NoProc} /\ edits \in 0..MaxEdits
        /\ session \in [MatchIds -> SessionStatus]
        /\ escrow \in [MatchIds -> EscrowStatus]
        /\ RejectedForADeal
    BY ProcAt DEF IInv, TypeOK
  <1>2. ASSUME NEW i \in MatchIds, select_deal(p, i)
        PROVE  IInv'
    <2> DEFINE h == [Idle EXCEPT !.op = "select", !.pc = "escrow", !.match = i]
    <2>1. /\ h \in Proc /\ h.op = "select" /\ h.pc = "escrow"
          /\ h.match = i /\ h.snap = NoRfq
      <3>1. "select" \in Ops /\ "escrow" \in Pcs
        BY DEF Ops, BuyerOps, Pcs
      <3>2. QED
        BY <3>1, IdleIsGood, MatchIsInRange DEF Proc
    <2>2. proc' = [proc EXCEPT ![p] = h]
      BY <1>2 DEF select_deal
    <2> HIDE DEF h
    <2>3. GoodProc(h)
      BY <2>1, IdleIsGood DEF GoodProc
    <2>4. QED
      BY <1>1, <1>2, <2>1, <2>2, <2>3, OnlyProcStep DEF select_deal
  <1>3. CASE create_pending_escrow(p)
    <2>1. q.op = "select" /\ q.match \in MatchIds
      BY <1>1, <1>3 DEF create_pending_escrow, At, GoodProc
    <2>2. PICK h \in Proc : h = [q EXCEPT !.pc = "reject"]
      BY <1>1 DEF Proc, Pcs
    <2>3. /\ proc' = [proc EXCEPT ![p] = h]
          /\ h.op = "select" /\ h.snap = q.snap /\ h.match = q.match
      BY <1>1, <1>3, <2>1, <2>2 DEF create_pending_escrow, Proc
    <2>4. escrow' = [escrow EXCEPT ![q.match] = IF escrow[q.match] = "NONE" THEN "OPEN"
                                                 ELSE escrow[q.match]]
      BY <1>3 DEF create_pending_escrow
    <2>5. /\ escrow' \in [MatchIds -> EscrowStatus]
          /\ \A i \in MatchIds : escrow[i] # "NONE" => escrow'[i] = escrow[i]
          /\ escrow'[q.match] # "NONE"
      BY <1>1, <2>1, <2>4 DEF EscrowStatus
    <2>6. Grows
      BY <1>3, <2>5 DEF Grows, create_pending_escrow, HadAgreed
    <2>7. Behind(q.snap)' => Behind(h.snap)'
      BY <2>3 DEF Behind, Paid, HadAgreed
    <2>8. GoodProc(h)'
      <3>1. Behind(h.snap)
        BY <1>1, <2>3
      <3>2. Behind(h.snap)'
        BY <2>6, <3>1, GoodKept
      <3>3. QED
        BY <2>1, <2>3, <2>5, <3>2 DEF GoodProc
    <2>9. Behind(rfq)' /\ RejectedForADeal'
      <3>1. rfq' = rfq /\ session' = session
        BY <1>3 DEF create_pending_escrow
      <3>2. QED
        BY <1>1, <2>5, <2>6, <3>1, GoodKept DEF RejectedForADeal, Behind, Paid
    <2>10. QED
      BY <1>1, <1>3, <2>3, <2>5, <2>6, <2>8, <2>9, ProcStep
      DEF create_pending_escrow, IInv, TypeOK
  <1>4. CASE RejectOthers(p)
    <2>1. q.match \in MatchIds /\ escrow[q.match] # "NONE"
      BY <1>1, <1>4 DEF RejectOthers, At, GoodProc
    <2>2. /\ session' \in [MatchIds -> SessionStatus]
          /\ \A i \in MatchIds : session'[i] = session[i] \/
                 (i # q.match /\ session[i] = "AGREED" /\ session'[i] = "FAILED")
      BY <1>1, <1>4 DEF RejectOthers, SessionStatus
    <2>3. Grows
      BY <1>4, <2>2 DEF Grows, RejectOthers, HadAgreed
    <2>4. RejectedForADeal'
      BY <1>1, <1>4, <2>1, <2>2 DEF RejectOthers, RejectedForADeal
    <2>5. Behind(rfq)'
      <3>1. rfq' = rfq
        BY <1>4 DEF RejectOthers
      <3>2. QED
        BY <1>1, <2>3, <3>1, GoodKept DEF Behind, Paid
    <2>6. QED
      BY <1>4, <2>2, <2>3, <2>4, <2>5, IdleIsGood, ProcStep DEF RejectOthers, IInv, TypeOK
  <1>5. CASE RejectionFails(p)
    BY <1>5, EndStep DEF RejectionFails
  <1>6. QED
    BY <1>2, <1>3, <1>4, <1>5

\* An escrow that is released, and the handler that settles the RFQ.
LEMMA ReleasedKeeps ==
  ASSUME IInv, NEW p \in Procs,
         \/ \E i \in MatchIds : EscrowReleases(p, i)
         \/ ReadForReleased(p) \/ mark_settled(p)
  PROVE  IInv'
  <1> DEFINE q == proc[p]
  <1>1. /\ q \in Proc /\ q.snap \in Rfq /\ GoodProc(q) /\ Behind(q.snap)
        /\ rfq \in Rfq /\ Behind(rfq)
        /\ rowlock \in Procs \cup {NoProc} /\ edits \in 0..MaxEdits
        /\ session \in [MatchIds -> SessionStatus]
        /\ escrow \in [MatchIds -> EscrowStatus]
        /\ RejectedForADeal
    BY ProcAt DEF IInv, TypeOK
  <1>2. ASSUME NEW i \in MatchIds, EscrowReleases(p, i)
        PROVE  IInv'
    <2>1. PICK h \in Proc : h = [Idle EXCEPT !.op = "released", !.match = i]
      <3>1. "released" \in Ops
        BY DEF Ops
      <3>2. QED
        BY <3>1, IdleIsGood, MatchIsInRange DEF Proc
    <2>2. /\ proc' = [proc EXCEPT ![p] = h]
          /\ h.op = "released" /\ h.pc = "read" /\ h.match = i /\ h.snap = NoRfq
      BY <1>2, <2>1, IdleIsGood DEF EscrowReleases, Proc
    <2>3. /\ escrow' \in [MatchIds -> EscrowStatus]
          /\ \A j \in MatchIds : escrow[j] # "NONE" => escrow'[j] # "NONE"
          /\ \A j \in MatchIds : escrow[j] = "RELEASED" => escrow'[j] = "RELEASED"
          /\ escrow'[i] = "RELEASED"
      BY <1>1, <1>2 DEF EscrowReleases, EscrowStatus
    <2>4. Grows
      BY <1>2, <2>3 DEF Grows, EscrowReleases, HadAgreed
    <2>5. GoodProc(h)'
      BY <2>2, <2>3, IdleIsGood DEF GoodProc
    <2>6. Behind(rfq)' /\ RejectedForADeal'
      <3>1. rfq' = rfq /\ session' = session
        BY <1>2 DEF EscrowReleases
      <3>2. QED
        BY <1>1, <2>3, <2>4, <3>1, GoodKept DEF RejectedForADeal, Behind, Paid
    <2>7. QED
      BY <1>1, <1>2, <2>2, <2>3, <2>4, <2>5, <2>6, ProcStep DEF EscrowReleases, IInv, TypeOK
  <1>3. CASE ReadForReleased(p)
    <2>1. CASE rfq.status = "CONFIRMED"
      <3> DEFINE h == [q EXCEPT !.pc = "write", !.snap = rfq]
      <3>1. /\ h \in Proc /\ h.op = "released" /\ h.snap = rfq /\ h.match = q.match
            /\ q.op = "released"
        BY <1>1, <1>3 DEF Proc, Pcs, ReadForReleased, At
      <3>2. GoodProc(h)
        BY <1>1, <2>1, <3>1 DEF GoodProc
      <3>3. proc' = [proc EXCEPT ![p] = h]
        BY <1>3, <2>1 DEF ReadForReleased
      <3> HIDE DEF h
      <3>4. QED
        BY <1>1, <1>3, <3>1, <3>2, <3>3, OnlyProcStep DEF ReadForReleased
    <2>2. CASE rfq.status # "CONFIRMED"
      BY <1>3, <2>2, EndStep DEF ReadForReleased
    <2>3. QED
      BY <2>1, <2>2
  <1>4. CASE mark_settled(p)
    <2>1. /\ q.match \in MatchIds
          /\ escrow[q.match] = "RELEASED"
          /\ q.snap.status = "CONFIRMED"
      BY <1>1, <1>4 DEF mark_settled, At, GoodProc
    <2>2. rfq' = [q.snap EXCEPT !.status = "SETTLED"]
      BY <1>4 DEF mark_settled
    <2>3. rfq' \in Rfq /\ Behind(rfq')
      BY <1>1, <2>1, <2>2 DEF Rfq, RFQStatus, Behind, Paid
    <2>4. QED
      BY <1>4, <2>3, WriteStep DEF mark_settled
  <1>5. QED
    BY <1>2, <1>3, <1>4

\* A session that ends without an agreement concerns no process.
LEMMA EndsKeep ==
  ASSUME IInv, NEW i \in MatchIds, SessionEnds(i)
  PROVE  IInv'
  <1>1. TypeOK'
    BY DEF IInv, TypeOK, SessionEnds, SessionStatus, EscrowStatus
  <1>2. Grows
    BY DEF IInv, TypeOK, SessionEnds, Grows, HadAgreed
  <1>3. proc' = proc /\ rfq' = rfq
    BY DEF SessionEnds
  <1>4. ASSUME NEW p \in Procs PROVE GoodProc(proc[p])'
    BY <1>2, <1>3, GoodKept DEF IInv, GoodProc, Behind, Paid
  <1>5. Behind(rfq)'
    BY <1>2, <1>3, GoodKept DEF IInv, Behind, Paid
  <1>6. RejectedForADeal'
    BY DEF IInv, TypeOK, SessionEnds, RejectedForADeal
  <1>7. QED
    BY <1>1, <1>4, <1>5, <1>6 DEF IInv

-----------------------------------------------------------------------------
\* The theorems about states.

LEMMA InvariantKept ==
  ASSUME IInv, [Next]_vars
  PROVE  IInv'
  <1>1. ASSUME NEW p \in Procs, Crash(p) PROVE IInv'
    <2>1. rowlock' \in {rowlock, NoProc}
      BY <1>1 DEF Crash, Unlocked
    <2>2. QED
      BY <1>1, <2>1, EndStep DEF Crash
  <1>2. CASE UNCHANGED vars
    BY <1>2 DEF vars, IInv, TypeOK, GoodProc, Behind, Paid, HadAgreed, RejectedForADeal
  <1>3. QED
    BY <1>1, <1>2, ParseKeeps, EditKeeps, StartKeeps, ConfirmKeeps, AgreedKeeps, SelectKeeps,
       ReleasedKeeps, EndsKeep
    DEF Next, RequestStep, EventStep

LEMMA InvariantStarts == Init => IInv
  <1> SUFFICES ASSUME Init PROVE IInv
    OBVIOUS
  <1>1. TypeOK
    <2>1. matches \in Seq(Sellers) /\ Len(matches) = 0
      BY DEF Init
    <2>2. QED
      BY <2>1, IdleIsGood, BoundsAssumption
      DEF Init, TypeOK, Proc, SessionStatus, EscrowStatus
  <1>2. QED
    BY <1>1, IdleIsGood DEF Init, IInv, RejectedForADeal

LEMMA Invariant == Spec => []IInv
  <1>1. IInv /\ [Next]_vars => IInv'
    BY InvariantKept
  <1>2. QED
    BY <1>1, InvariantStarts, PTL DEF Spec

\* The rows and the processes keep their types.
THEOREM TypeCorrect == Spec => []TypeOK
  <1>1. IInv => TypeOK
    BY DEF IInv
  <1>2. QED
    BY <1>1, Invariant, PTL

\* A confirmed RFQ names a match whose session has agreed, with any number of
\* requests, handlers and tasks that write back rows they read before, and crash.
THEOREM ConfirmedAgreed == Spec => []ConfirmedHasAgreed
  <1>1. IInv => ConfirmedHasAgreed
    BY DEF IInv, Behind, ConfirmedHasAgreed, MatchIds, NoMatch
  <1>2. QED
    BY <1>1, Invariant, PTL

\* A settled RFQ was paid.
THEOREM SettledPaid == Spec => []SettledIsPaid
  <1>1. IInv => SettledIsPaid
    BY DEF IInv, Behind, Paid, SettledIsPaid
  <1>2. QED
    BY <1>1, Invariant, PTL

\* No agreed session is failed before the deal that beat it has its escrow.
THEOREM RejectedOnlyForADeal == Spec => []RejectedForADeal
  <1>1. IInv => RejectedForADeal
    BY DEF IInv
  <1>2. QED
    BY <1>1, Invariant, PTL

-----------------------------------------------------------------------------
\* The lives of sessions and escrows.

\* What a step may do to one session or one escrow.
SessionLivesOn(i) == [SessionOf(i)!Next]_(SessionStage(session[i]))
EscrowLivesOn(i) == [EscrowOf(i)!Next]_(escrow[i])

LEMMA SameSession ==
  ASSUME NEW i \in MatchIds, session'[i] = session[i]
  PROVE  SessionLivesOn(i)
  <1>1. SessionStage(session[i])' = SessionStage(session[i])
    BY DEF SessionStage
  <1>2. QED
    BY <1>1 DEF SessionLivesOn

LEMMA SessionMoves ==
  ASSUME NEW i \in MatchIds, session[i] \in SessionStatus,
         \/ session[i] = "NONE" /\ session'[i] = "OPEN"
         \/ session[i] \in {"NONE", "OPEN"} /\ session'[i] = "AGREED"
         \/ /\ session[i] \in {"NONE", "OPEN", "AGREED"}
            /\ session'[i] \in {"ENDED", "FAILED", "CLOSED_BY_BUYER"}
  PROVE  SessionLivesOn(i)
  BY DEF SessionLivesOn, SessionStage, SessionOf!Next, SessionOf!Agree, SessionOf!End

LEMMA EscrowMoves ==
  ASSUME NEW i \in MatchIds,
         \/ escrow'[i] = escrow[i]
         \/ escrow[i] = "NONE" /\ escrow'[i] = "OPEN"
         \/ escrow[i] = "OPEN" /\ escrow'[i] = "RELEASED"
  PROVE  EscrowLivesOn(i)
  BY DEF EscrowLivesOn, EscrowOf!Next, EscrowOf!Store, EscrowOf!Release

\* A step that leaves the sessions alone, the escrows, or both.
LEMMA SessionsRest ==
  ASSUME session' = session
  PROVE  \A i \in MatchIds : SessionLivesOn(i)
  BY SameSession

LEMMA EscrowsRest ==
  ASSUME escrow' = escrow
  PROVE  \A i \in MatchIds : EscrowLivesOn(i)
  BY EscrowMoves

LEMMA LivesGoOn ==
  ASSUME IInv, [Next]_vars, NEW i \in MatchIds
  PROVE  SessionLivesOn(i) /\ EscrowLivesOn(i)
  <1>1. /\ session \in [MatchIds -> SessionStatus] /\ session[i] \in SessionStatus
        /\ escrow \in [MatchIds -> EscrowStatus] /\ escrow[i] \in EscrowStatus
    BY DEF IInv, TypeOK
  <1>2. ASSUME NEW p \in Procs, CreateNext(p) PROVE SessionLivesOn(i) /\ escrow' = escrow
    <2>1. session'[i] = session[i] \/ (session[i] = "NONE" /\ session'[i] = "OPEN")
      BY <1>1, <1>2 DEF CreateNext
    <2>2. QED
      BY <1>1, <1>2, <2>1, SameSession, SessionMoves DEF CreateNext
  <1>3. ASSUME NEW p \in Procs, CloseOthers(p) \/ RejectOthers(p)
        PROVE  SessionLivesOn(i) /\ escrow' = escrow
    <2>1. \/ session'[i] = session[i]
          \/ /\ session[i] \in {"OPEN", "AGREED"}
             /\ session'[i] \in {"ENDED", "FAILED", "CLOSED_BY_BUYER"}
      BY <1>1, <1>3 DEF CloseOthers, RejectOthers
    <2>2. QED
      BY <1>1, <1>3, <2>1, SameSession, SessionMoves DEF CloseOthers, RejectOthers
  <1>4. ASSUME NEW p \in Procs, ConfirmCreates(p) PROVE SessionLivesOn(i) /\ escrow' = escrow
    <2>1. session'[i] = session[i] \/ (session[i] = "NONE" /\ session'[i] = "OPEN")
      BY <1>1, <1>4 DEF ConfirmCreates
    <2>2. QED
      BY <1>1, <1>4, <2>1, SameSession, SessionMoves DEF ConfirmCreates
  <1>5. ASSUME NEW j \in MatchIds, SessionEnds(j) PROVE SessionLivesOn(i) /\ escrow' = escrow
    <2>1. session'[i] = session[i] \/ (session[i] = "OPEN" /\ session'[i] = "ENDED")
      BY <1>1, <1>5 DEF SessionEnds
    <2>2. QED
      BY <1>1, <1>5, <2>1, SameSession, SessionMoves DEF SessionEnds
  <1>6. ASSUME NEW p \in Procs, NEW j \in MatchIds, SessionAgrees(p, j)
        PROVE  SessionLivesOn(i) /\ escrow' = escrow
    <2>1. session'[i] = session[i] \/ (session[i] = "OPEN" /\ session'[i] = "AGREED")
      BY <1>1, <1>6 DEF SessionAgrees
    <2>2. QED
      BY <1>1, <1>6, <2>1, SameSession, SessionMoves DEF SessionAgrees
  <1>7. ASSUME NEW p \in Procs, create_pending_escrow(p)
        PROVE  EscrowLivesOn(i) /\ session' = session
    <2>1. escrow'[i] = escrow[i] \/ (escrow[i] = "NONE" /\ escrow'[i] = "OPEN")
      BY <1>1, <1>7 DEF create_pending_escrow
    <2>2. QED
      BY <1>7, <2>1, EscrowMoves DEF create_pending_escrow
  <1>8. ASSUME NEW p \in Procs, NEW j \in MatchIds, EscrowReleases(p, j)
        PROVE  EscrowLivesOn(i) /\ session' = session
    <2>1. escrow'[i] = escrow[i] \/ (escrow[i] = "OPEN" /\ escrow'[i] = "RELEASED")
      BY <1>1, <1>8 DEF EscrowReleases, EscrowStatus
    <2>2. QED
      BY <1>8, <2>1, EscrowMoves DEF EscrowReleases
  <1>9. ASSUME NEW p \in Procs,
               \/ upload_rfq(p) \/ ParseStep(p) \/ edit_rfq(p) \/ SaveOverrides(p)
               \/ SaveText(p) \/ start_all_negotiations(p) \/ StartCommits(p)
               \/ ConfirmConflict(p) \/ RejectionFails(p) \/ EventStep(p) \/ Crash(p)
               \/ \E j \in MatchIds : confirm_rfq(p, j) \/ select_deal(p, j)
        PROVE  UNCHANGED <<session, escrow>>
    BY <1>9
    DEF upload_rfq, ParseStep, ReadForParse, mark_parse_failed, mark_parsed, ParseDies,
        mark_matched, NoMatches, edit_rfq, SaveOverrides, SaveText, start_all_negotiations,
        StartCommits, confirm_rfq, ConfirmConflict, select_deal, RejectionFails, EventStep,
        ReadForAgreed, WriteConfirmed, ReadForReleased, mark_settled, Crash
  <1>10. CASE UNCHANGED vars
    BY <1>10, SessionsRest, EscrowsRest DEF vars
  <1>11. QED
    BY <1>2, <1>3, <1>4, <1>5, <1>6, <1>7, <1>8, <1>9, <1>10, SessionsRest, EscrowsRest
    DEF Next, RequestStep

\* Sessions and escrows live here as the modules that detail them let them live:
\* no request, task or handler of a deal revives one or takes back a release.
THEOREM LivesAreKept == Spec => LivesSpec
  <1>1. Init => \A i \in MatchIds : EscrowOf(i)!Init /\ SessionOf(i)!Init
    BY DEF Init, EscrowOf!Init, SessionOf!Init, SessionStage
  <1>2. IInv /\ [Next]_vars =>
            [\A i \in MatchIds : /\ [EscrowOf(i)!Next]_(escrow[i])
                                 /\ [SessionOf(i)!Next]_(SessionStage(session[i]))
            ]_<<escrow, session>>
    BY LivesGoOn DEF SessionLivesOn, EscrowLivesOn
  <1>3. QED
    BY Invariant, <1>1, <1>2, PTL DEF Spec, LivesSpec

-----------------------------------------------------------------------------
\* The stages of an RFQ that is not edited.  What keeps a slow task from writing
\* an early status over a late one is that the one parse is over before anything
\* else can happen, and that start-negotiations holds the row locked.

Early == rfq.status \in {"NONE", "DRAFT", "PARSE_FAILED", "PARSED"}

Untouched ==
    /\ matches = <<>>
    /\ rowlock = NoProc
    /\ \A i \in MatchIds : session[i] = "NONE" /\ escrow[i] = "NONE"
    /\ \A p \in Procs : proc[p].op \in {"idle", "parse"}

OnlyParse(p) ==
    /\ Early /\ rfq.status # "NONE"
    /\ proc[p].pc = "read" => rfq.status = "DRAFT"
    /\ proc[p].pc = "write" => rfq.status = "DRAFT" /\ proc[p].snap = rfq
    /\ proc[p].pc = "parsed" => rfq.status = "PARSED" /\ proc[p].snap = rfq
    /\ \A q \in Procs : proc[q].op = "parse" => q = p

Unedited ==
    /\ Early => Untouched
    /\ \A p \in Procs : proc[p].op = "parse" => OnlyParse(p)
    /\ \A p \in Procs : proc[p].op # "edit"
    /\ \A p \in Procs : proc[p].op \in {"start", "confirm"} => rowlock = p
    /\ \A p \in Procs : proc[p].op = "start" => rfq.status = "MATCHED" /\ proc[p].snap = rfq

QuietInv == edits = 0 => Unedited

LEMMA StageOrder ==
  /\ Reached("NONE") = 1 /\ Reached("DRAFT") = 2 /\ Reached("PARSE_FAILED") = 3
  /\ Reached("PARSED") = 4 /\ Reached("MATCHED") = 5 /\ Reached("NEGOTIATING") = 6
  /\ Reached("CONFIRMED") = 7 /\ Reached("SETTLED") = 8
  <1>1. DOMAIN Stage = 1..8
    BY DEF Stage
  <1>2. /\ Stage[1] = "NONE" /\ Stage[2] = "DRAFT" /\ Stage[3] = "PARSE_FAILED"
        /\ Stage[4] = "PARSED" /\ Stage[5] = "MATCHED" /\ Stage[6] = "NEGOTIATING"
        /\ Stage[7] = "CONFIRMED" /\ Stage[8] = "SETTLED"
    BY DEF Stage
  <1>3. \A m, n \in 1..8 : Stage[m] = Stage[n] => m = n
    BY <1>2
  <1>4. \A n \in 1..8 : Reached(Stage[n]) = n
    BY <1>1, <1>3 DEF Reached
  <1>5. QED
    BY <1>2, <1>4

\* A step that writes no row goes back to no earlier stage.
LEMMA SameRow ==
  ASSUME TypeOK, rfq' = rfq
  PROVE  Reached(rfq.status) <= Reached(rfq'.status)
  BY StageOrder DEF TypeOK, Rfq, RFQStatus

\* What the steps below know of the types.
QuietTypes ==
    /\ proc \in [Procs -> Proc]
    /\ rfq \in Rfq
    /\ rowlock \in Procs \cup {NoProc}
    /\ session \in [MatchIds -> SessionStatus]
    /\ escrow \in [MatchIds -> EscrowStatus]
    /\ matches \in Seq(Sellers)

\* The one parse is over before anything else begins.
LEMMA ParseQuiet ==
  ASSUME QuietTypes, Unedited, edits = 0, edits' = 0, NEW p \in Procs,
         \/ upload_rfq(p)
         \/ ReadForParse(p)
         \/ mark_parse_failed(p)
         \/ mark_parsed(p)
         \/ ParseDies(p)
         \/ mark_matched(p)
         \/ NoMatches(p)
  PROVE  Unedited'
  <1>1. CASE upload_rfq(p)
    BY <1>1, IdleIsGood, NoProcAssumption
    DEF QuietTypes, upload_rfq, NoRfq, Unedited, Untouched, OnlyParse, Early, Proc, Rfq,
        SessionStatus, EscrowStatus
  <1>2. CASE ReadForParse(p)
    BY <1>2, IdleIsGood, NoProcAssumption
    DEF QuietTypes, ReadForParse, At, Unedited, Untouched, OnlyParse, Early, Proc, Rfq,
        SessionStatus, EscrowStatus
  <1>3. CASE mark_parse_failed(p)
    BY <1>3, IdleIsGood, NoProcAssumption
    DEF QuietTypes, mark_parse_failed, At, Unedited, Untouched, OnlyParse, Early, Proc, Rfq,
        SessionStatus, EscrowStatus
  <1>4. CASE mark_parsed(p)
    BY <1>4, IdleIsGood, NoProcAssumption
    DEF QuietTypes, mark_parsed, At, Unedited, Untouched, OnlyParse, Early, Proc, Rfq,
        SessionStatus, EscrowStatus
  <1>5. CASE ParseDies(p)
    BY <1>5, IdleIsGood, NoProcAssumption
    DEF QuietTypes, ParseDies, Unedited, Untouched, OnlyParse, Early, Proc, Rfq,
        SessionStatus, EscrowStatus
  <1>6. CASE mark_matched(p)
    BY <1>6, IdleIsGood, NoProcAssumption
    DEF QuietTypes, mark_matched, At, Unedited, Untouched, OnlyParse, Early, Proc, Rfq,
        SessionStatus, EscrowStatus
  <1>7. CASE NoMatches(p)
    BY <1>7, IdleIsGood, NoProcAssumption
    DEF QuietTypes, NoMatches, At, Unedited, Untouched, OnlyParse, Early, Proc, Rfq,
        SessionStatus, EscrowStatus
  <1>8. QED
    BY <1>1, <1>2, <1>3, <1>4, <1>5, <1>6, <1>7

\* The buyer's requests come after it, and start-negotiations and confirm
\* hold the row while they are at work.
LEMMA RequestQuiet ==
  ASSUME QuietTypes, Unedited, edits = 0, edits' = 0, NEW p \in Procs,
         \/ edit_rfq(p)
         \/ SaveOverrides(p)
         \/ SaveText(p)
         \/ start_all_negotiations(p)
         \/ CreateNext(p)
         \/ StartCommits(p)
         \/ \E i \in MatchIds : confirm_rfq(p, i)
         \/ CloseOthers(p)
         \/ ConfirmCreates(p)
         \/ ConfirmConflict(p)
  PROVE  Unedited'
  <1>1. CASE edit_rfq(p)
    BY <1>1, IdleIsGood, NoProcAssumption
    DEF QuietTypes, edit_rfq, Unedited, Untouched, OnlyParse, Early, Proc, Rfq,
        SessionStatus, EscrowStatus
  <1>2. CASE SaveOverrides(p)
    BY <1>2, IdleIsGood, NoProcAssumption
    DEF QuietTypes, SaveOverrides, Unedited, Untouched, OnlyParse, Early, Proc, Rfq,
        SessionStatus, EscrowStatus
  <1>3. CASE SaveText(p)
    BY <1>3, IdleIsGood, NoProcAssumption
    DEF QuietTypes, SaveText, Unedited, Untouched, OnlyParse, Early, Proc, Rfq,
        SessionStatus, EscrowStatus
  <1>4. CASE start_all_negotiations(p)
    BY <1>4, IdleIsGood, NoProcAssumption
    DEF QuietTypes, start_all_negotiations, Free, Unedited, Untouched, OnlyParse, Early, Proc, Rfq,
        SessionStatus, EscrowStatus
  <1>5. CASE CreateNext(p)
    BY <1>5, IdleIsGood, NoProcAssumption
    DEF QuietTypes, CreateNext, At, Unedited, Untouched, OnlyParse, Early, Proc, Rfq,
        SessionStatus, EscrowStatus
  <1>6. CASE StartCommits(p)
    BY <1>6, IdleIsGood, NoProcAssumption
    DEF QuietTypes, StartCommits, At, Unedited, Untouched, OnlyParse, Early, Proc, Rfq,
        SessionStatus, EscrowStatus
  <1>7. ASSUME NEW i \in MatchIds, confirm_rfq(p, i) PROVE Unedited'
    BY <1>7, IdleIsGood, NoProcAssumption
    DEF QuietTypes, confirm_rfq, Free, Unedited, Untouched, OnlyParse, Early, Proc, Rfq,
        SessionStatus, EscrowStatus
  <1>8. CASE CloseOthers(p)
    BY <1>8, IdleIsGood, NoProcAssumption
    DEF QuietTypes, CloseOthers, At, Unedited, Untouched, OnlyParse, Early, Proc, Rfq,
        SessionStatus, EscrowStatus
  <1>9. CASE ConfirmCreates(p)
    BY <1>9, IdleIsGood, NoProcAssumption
    DEF QuietTypes, ConfirmCreates, At, Unedited, Untouched, OnlyParse, Early, Proc, Rfq,
        SessionStatus, EscrowStatus
  <1>10. CASE ConfirmConflict(p)
    BY <1>10, IdleIsGood, NoProcAssumption
    DEF QuietTypes, ConfirmConflict, At, Unedited, Untouched, OnlyParse, Early, Proc, Rfq,
        SessionStatus, EscrowStatus
  <1>11. QED
    BY <1>1, <1>2, <1>3, <1>4, <1>5, <1>6, <1>7, <1>8, <1>9, <1>10

\* A handler or a selection that begins once there are sessions disturbs nothing.
LEMMA HandlerQuiet ==
  ASSUME QuietTypes, Unedited, ~Early, rfq' = rfq, rowlock' = rowlock,
         NEW p \in Procs, proc[p].op # "parse",
         NEW h, h.op \notin {"parse", "edit", "start", "confirm"},
         proc' = [proc EXCEPT ![p] = h]
  PROVE  Unedited'
  <1>1. ~Early'
    BY DEF Early
  <1>2. /\ proc'[p] = h
        /\ \A q \in Procs : q # p => proc'[q] = proc[q]
    BY DEF QuietTypes
  <1>3. \A q \in Procs : proc'[q].op # "parse"
    BY <1>2 DEF Unedited, OnlyParse
  <1>4. \A q \in Procs : proc'[q].op \in {"start", "confirm", "edit"} =>
                              proc'[q] = proc[q]
    BY <1>2
  <1>5. QED
    BY <1>1, <1>3, <1>4 DEF Unedited

\* So do agreements, deals and releases.
LEMMA DealQuiet ==
  ASSUME QuietTypes, Unedited, edits = 0, edits' = 0, NEW p \in Procs,
         \/ \E i \in MatchIds : SessionAgrees(p, i)
         \/ ReadForAgreed(p)
         \/ WriteConfirmed(p)
         \/ \E i \in MatchIds : select_deal(p, i)
         \/ create_pending_escrow(p)
         \/ RejectOthers(p)
         \/ RejectionFails(p)
         \/ \E i \in MatchIds : EscrowReleases(p, i)
         \/ ReadForReleased(p)
         \/ mark_settled(p)
         \/ Crash(p)
  PROVE  Unedited'
  <1>1. ASSUME NEW i \in MatchIds, SessionAgrees(p, i) PROVE Unedited'
    <2> DEFINE h == [Idle EXCEPT !.op = "agreed", !.match = i]
    <2>1. h.op = "agreed" /\ proc[p].op = "idle" /\ ~Early
      BY <1>1, IdleIsGood DEF SessionAgrees, Unedited, Untouched, Idle
    <2>2. rfq' = rfq /\ rowlock' = rowlock /\ proc' = [proc EXCEPT ![p] = h]
      BY <1>1 DEF SessionAgrees
    <2> HIDE DEF h
    <2>3. QED
      BY <2>1, <2>2, HandlerQuiet
  <1>2. CASE ReadForAgreed(p)
    BY <1>2, IdleIsGood, NoProcAssumption
    DEF QuietTypes, ReadForAgreed, At, Unedited, Untouched, OnlyParse, Early, Proc, Rfq,
        SessionStatus, EscrowStatus
  <1>3. CASE WriteConfirmed(p)
    BY <1>3, IdleIsGood, NoProcAssumption
    DEF QuietTypes, WriteConfirmed, At, Free, Unedited, Untouched, OnlyParse, Early, Proc, Rfq,
        SessionStatus, EscrowStatus
  <1>4. ASSUME NEW i \in MatchIds, select_deal(p, i) PROVE Unedited'
    <2> DEFINE h == [Idle EXCEPT !.op = "select", !.pc = "escrow", !.match = i]
    <2>1. h.op = "select" /\ proc[p].op # "parse" /\ ~Early
      BY <1>4, IdleIsGood DEF select_deal, BuyerMay, Unedited, Untouched, Idle
    <2>2. rfq' = rfq /\ rowlock' = rowlock /\ proc' = [proc EXCEPT ![p] = h]
      BY <1>4 DEF select_deal
    <2> HIDE DEF h
    <2>3. QED
      BY <2>1, <2>2, HandlerQuiet
  <1>5. CASE create_pending_escrow(p)
    BY <1>5, IdleIsGood, NoProcAssumption
    DEF QuietTypes, create_pending_escrow, At, Unedited, Untouched, OnlyParse, Early, Proc, Rfq,
        SessionStatus, EscrowStatus
  <1>6. CASE RejectOthers(p)
    BY <1>6, IdleIsGood, NoProcAssumption
    DEF QuietTypes, RejectOthers, At, Unedited, Untouched, OnlyParse, Early, Proc, Rfq,
        SessionStatus, EscrowStatus
  <1>7. CASE RejectionFails(p)
    BY <1>7, IdleIsGood, NoProcAssumption
    DEF QuietTypes, RejectionFails, At, Unedited, Untouched, OnlyParse, Early, Proc, Rfq,
        SessionStatus, EscrowStatus
  <1>8. ASSUME NEW i \in MatchIds, EscrowReleases(p, i) PROVE Unedited'
    <2> DEFINE h == [Idle EXCEPT !.op = "released", !.match = i]
    <2>1. h.op = "released" /\ proc[p].op = "idle" /\ ~Early
      BY <1>8, IdleIsGood DEF EscrowReleases, Unedited, Untouched, Idle
    <2>2. rfq' = rfq /\ rowlock' = rowlock /\ proc' = [proc EXCEPT ![p] = h]
      BY <1>8 DEF EscrowReleases
    <2> HIDE DEF h
    <2>3. QED
      BY <2>1, <2>2, HandlerQuiet
  <1>9. CASE ReadForReleased(p)
    BY <1>9, IdleIsGood, NoProcAssumption
    DEF QuietTypes, ReadForReleased, At, Unedited, Untouched, OnlyParse, Early, Proc, Rfq,
        SessionStatus, EscrowStatus
  <1>10. CASE mark_settled(p)
    BY <1>10, IdleIsGood, NoProcAssumption
    DEF QuietTypes, mark_settled, At, Free, Unedited, Untouched, OnlyParse, Early, Proc, Rfq,
        SessionStatus, EscrowStatus
  <1>11. CASE Crash(p)
    BY <1>11, IdleIsGood, NoProcAssumption
    DEF QuietTypes, Crash, Unlocked, Unedited, Untouched, OnlyParse, Early, Proc, Rfq,
        SessionStatus, EscrowStatus
  <1>12. QED
    BY <1>1, <1>2, <1>3, <1>4, <1>5, <1>6, <1>7, <1>8, <1>9, <1>10, <1>11

LEMMA QuietKept ==
  ASSUME IInv, QuietInv, [Next]_vars
  PROVE  QuietInv'
  <1> SUFFICES ASSUME edits' = 0 PROVE Unedited'
    BY DEF QuietInv
  <1>1. QuietTypes /\ edits \in Nat
    BY BoundsAssumption DEF IInv, TypeOK, QuietTypes, Proc
  <1>2. edits = 0
    <2>1. edits' = edits \/ edits' = edits + 1
      BY DEF Next, vars, ParseStep, RequestStep, EventStep, upload_rfq, ReadForParse,
             mark_parse_failed, mark_parsed, ParseDies, mark_matched, NoMatches, edit_rfq,
             SaveOverrides, SaveText, start_all_negotiations, CreateNext, StartCommits,
             confirm_rfq, CloseOthers, ConfirmCreates, ConfirmConflict, SessionEnds,
             SessionAgrees, ReadForAgreed, WriteConfirmed, select_deal,
             create_pending_escrow, RejectOthers, RejectionFails,
             EscrowReleases, ReadForReleased, mark_settled, Crash
    <2>2. QED
      BY <1>1, <2>1
  <1>3. Unedited
    BY <1>2 DEF QuietInv
  <1>4. ASSUME NEW i \in MatchIds, SessionEnds(i) PROVE Unedited'
    BY <1>1, <1>3, <1>4
    DEF QuietTypes, SessionEnds, Unedited, Untouched, OnlyParse, Early
  <1>5. CASE UNCHANGED vars
    BY <1>3, <1>5 DEF vars, Unedited, Untouched, OnlyParse, Early
  <1>6. QED
    BY <1>1, <1>2, <1>3, <1>4, <1>5, ParseQuiet, RequestQuiet, DealQuiet
    DEF Next, ParseStep, RequestStep, EventStep

\* No step takes an unedited RFQ back, but for the confirmation of a settled one.
LEMMA StageKept ==
  ASSUME IInv, QuietInv, edits = 0, [Next]_vars
  PROVE  \/ Reached(rfq.status) <= Reached(rfq'.status)
         \/ rfq.status = "SETTLED" /\ rfq'.status = "CONFIRMED"
  <1> DEFINE Kept == \/ Reached(rfq.status) <= Reached(rfq'.status)
                     \/ rfq.status = "SETTLED" /\ rfq'.status = "CONFIRMED"
  <1>1. /\ Unedited
        /\ rfq \in Rfq /\ rfq.status \in RFQStatus \cup {"NONE"}
        /\ \A p \in Procs : proc[p] \in Proc /\ proc[p].snap \in Rfq
    BY DEF QuietInv, IInv, TypeOK, Proc, Rfq
  <1>2. rfq' = rfq => Kept
    BY SameRow DEF IInv
  <1>3. ASSUME NEW p \in Procs,
               upload_rfq(p) \/ mark_parse_failed(p) \/ mark_parsed(p) \/ mark_matched(p)
        PROVE  Kept
    <2>1. CASE upload_rfq(p)
      BY <1>1, <2>1, StageOrder, IdleIsGood DEF upload_rfq, NoRfq, Rfq
    <2>2. CASE mark_parse_failed(p)
      BY <1>1, <2>2, StageOrder DEF mark_parse_failed, At, Unedited, OnlyParse, Rfq
    <2>3. CASE mark_parsed(p)
      BY <1>1, <2>3, StageOrder DEF mark_parsed, At, Unedited, OnlyParse, Rfq
    <2>4. CASE mark_matched(p)
      BY <1>1, <2>4, StageOrder DEF mark_matched, At, Unedited, OnlyParse, Rfq
    <2>5. QED
      BY <1>3, <2>1, <2>2, <2>3, <2>4
  <1>4. ASSUME NEW p \in Procs, NoMatches(p) PROVE rfq' = rfq
    BY <1>1, <1>4 DEF NoMatches, At, Unedited, OnlyParse
  <1>5. ASSUME NEW p \in Procs, SaveOverrides(p) \/ SaveText(p) PROVE FALSE
    BY <1>1, <1>5 DEF SaveOverrides, SaveText, Unedited
  <1>6. ASSUME NEW p \in Procs, StartCommits(p) PROVE Kept
    BY <1>1, <1>6, StageOrder DEF StartCommits, At, Unedited, Rfq
  <1>7. ASSUME NEW p \in Procs, WriteConfirmed(p) PROVE Kept
    <2>1. rfq'.status = "CONFIRMED"
      BY <1>7 DEF WriteConfirmed
    <2>2. QED
      BY <1>1, <2>1, StageOrder DEF RFQStatus
  <1>8. ASSUME NEW p \in Procs, mark_settled(p) PROVE Kept
    <2>1. rfq'.status = "SETTLED"
      BY <1>1, <1>8 DEF mark_settled, Rfq
    <2>2. QED
      BY <1>1, <2>1, StageOrder DEF RFQStatus
  <1>9. ASSUME NEW p \in Procs,
               \/ ReadForParse(p) \/ ParseDies(p) \/ edit_rfq(p) \/ start_all_negotiations(p)
               \/ CreateNext(p) \/ CloseOthers(p) \/ ConfirmCreates(p) \/ ConfirmConflict(p)
               \/ ReadForAgreed(p) \/ create_pending_escrow(p) \/ RejectOthers(p)
               \/ RejectionFails(p) \/ ReadForReleased(p) \/ Crash(p)
        PROVE  rfq' = rfq
    BY <1>9
    DEF ReadForParse, ParseDies, edit_rfq, start_all_negotiations, CreateNext, CloseOthers,
        ConfirmCreates, ConfirmConflict, ReadForAgreed, create_pending_escrow, RejectOthers,
        RejectionFails, ReadForReleased, Crash
  <1>10. ASSUME NEW p \in Procs, NEW i \in MatchIds,
                \/ confirm_rfq(p, i) \/ select_deal(p, i)
                \/ SessionAgrees(p, i) \/ EscrowReleases(p, i)
         PROVE  rfq' = rfq
    BY <1>10 DEF confirm_rfq, select_deal, SessionAgrees, EscrowReleases
  <1>11. ASSUME NEW i \in MatchIds, SessionEnds(i) PROVE rfq' = rfq
    BY <1>11 DEF SessionEnds
  <1>12. UNCHANGED vars => rfq' = rfq
    BY DEF vars
  <1> HIDE DEF Kept
  <1>13. Kept
    BY <1>2, <1>3, <1>4, <1>5, <1>6, <1>7, <1>8, <1>9, <1>10, <1>11, <1>12
    DEF Next, ParseStep, RequestStep, EventStep
  <1>14. QED
    BY <1>13 DEF Kept

\* Without an edit the RFQ never falls back behind a stage it has reached, with any
\* number of tasks, handlers and requests in flight; only a settled RFQ may be
\* confirmed again, by a slow handler.
THEOREM NeverBack == Spec => NoWayBack
  <1>1. Init => QuietInv
    BY IdleIsGood DEF Init, QuietInv, Unedited, Untouched
  <1>2. IInv /\ QuietInv /\ [Next]_vars => QuietInv'
    BY QuietKept
  <1>3. IInv /\ QuietInv /\ [Next]_vars =>
            [\/ edits > 0
             \/ Reached(rfq.status) <= Reached(rfq'.status)
             \/ rfq.status = "SETTLED" /\ rfq'.status = "CONFIRMED"]_vars
    <2> SUFFICES ASSUME IInv, QuietInv, [Next]_vars, ~(edits > 0)
                 PROVE  \/ Reached(rfq.status) <= Reached(rfq'.status)
                        \/ rfq.status = "SETTLED" /\ rfq'.status = "CONFIRMED"
      OBVIOUS
    <2>1. edits = 0
      BY BoundsAssumption DEF IInv, TypeOK
    <2>2. QED
      BY <2>1, StageKept
  <1>4. QED
    BY <1>1, <1>2, <1>3, Invariant, PTL DEF Spec, NoWayBack

-----------------------------------------------------------------------------
\* The records of negotiations.  A worker past the event, a record and the batch of
\* the script all speak of an agreement only if it is in the session's row.

Backed(t, price) ==
    /\ verdict[t].status \in {"AGREED", "CLOSED_BY_BUYER"}
    /\ verdict[t].price = price
    /\ price # NoFinalPrice

BackedWork(w) ==
    LET work == worker[w]
    IN  work.step # "idle" =>
            /\ work.outcome = "AGREED" =>
                   /\ ~work.fails
                   /\ Backed(work.talk, verdict[work.talk].price)
                   /\ work.step = "save" => Backed(work.talk, work.price)
            /\ work.fails => verdict[work.talk].status = "open"

OneWorkerEach ==
    \A v \in Workers, w \in Workers :
        worker[v].step # "idle" /\ worker[w].step # "idle" /\ worker[v].talk = worker[w].talk
            => v = w

BackedBatch ==
    /\ \A t \in Talks : verdict[t].status = "AGREED" => Backed(t, verdict[t].price)
    /\ batch # NoBatch =>
           \A t \in Talks : batch.seen[t].status = "AGREED" => Backed(t, batch.seen[t].price)

BackedRecords ==
    \A t \in Talks : \A i \in DOMAIN memory[t] :
        memory[t][i].outcome = "AGREED" => Backed(t, memory[t][i].price)

\* While nobody has met, whoever is to write records writes the first.
FirstPair ==
    \A t \in Talks : t \notin met =>
        /\ Len(memory[t]) <= 1
        /\ batch # NoBatch /\ t \in batch.held => memory[t] = <<>>
        /\ \A w \in Workers :
               worker[w].step \in {"load", "save"} /\ worker[w].talk = t =>
                   /\ memory[t] = <<>>
                   /\ batch # NoBatch => t \notin batch.held

MemoryInv ==
    /\ MemoryTypeOK
    /\ \A w \in Workers : BackedWork(w)
    /\ OneWorkerEach
    /\ BackedBatch
    /\ BackedRecords
    /\ FirstPair

LEMMA MemoryTypeStarts == MemoryInit => MemoryTypeOK
  BY DEF MemoryInit, MemoryTypeOK, Open, Verdict, Resting, NoBatch

\* What Append adds.
LEMMA Appended ==
  ASSUME NEW S, NEW s \in Seq(S), NEW r \in S, NEW q, q = Append(s, r)
  PROVE  /\ q \in Seq(S)
         /\ Len(q) = Len(s) + 1
         /\ \A i \in DOMAIN q : q[i] = r \/ (i \in DOMAIN s /\ q[i] = s[i])
         /\ Len(s) = 0 => Len(q) = 1
  <1>1. /\ q \in Seq(S) /\ Len(s) \in Nat
        /\ Len(q) = Len(s) + 1
        /\ DOMAIN q = 1..(Len(s) + 1) /\ DOMAIN s = 1..Len(s)
    OBVIOUS
  <1>2. \A i \in 1..Len(s) : q[i] = s[i]
    OBVIOUS
  <1>3. q[Len(s) + 1] = r
    OBVIOUS
  <1>4. \A i \in 1..(Len(s) + 1) : i = Len(s) + 1 \/ i \in 1..Len(s)
    BY <1>1
  <1>5. QED
    BY <1>1, <1>2, <1>3, <1>4

LEMMA WorkerMoves ==
  ASSUME MemoryTypeOK, NEW w \in Workers, worker[w].step # "idle",
         NEW step \in {"check", "load", "save", "finish"}
  PROVE  /\ worker[w] \in AtWork
         /\ [worker EXCEPT ![w].step = step] \in [Workers -> AtWork \cup {Resting}]
  <1>1. worker[w] \in AtWork
    BY DEF MemoryTypeOK, Resting
  <1>2. [worker[w] EXCEPT !.step = step] \in AtWork
    BY <1>1 DEF AtWork
  <1>3. QED
    BY <1>1, <1>2 DEF MemoryTypeOK

LEMMA StatusWritten ==
  ASSUME MemoryTypeOK, NEW t \in Talks,
         NEW status \in {"AGREED", "FAILED", "TIMEOUT", "CLOSED_BY_BUYER"}
  PROVE  [verdict EXCEPT ![t].status = status] \in [Talks -> Verdict]
  BY DEF MemoryTypeOK, Verdict

LEMMA MemoryTypeKept == MemoryTypeOK /\ [MemoryNext]_memoryVars => MemoryTypeOK'
  <1> SUFFICES ASSUME MemoryTypeOK, [MemoryNext]_memoryVars PROVE MemoryTypeOK'
    OBVIOUS
  <1> USE DEF MemoryTypeOK
  <1>1. ASSUME NEW w \in Workers, NEW t \in Talks,
               Agree(w, t) \/ FailTalks(w, t) \/ Terminate(w, t)
        PROVE MemoryTypeOK'
    <2>1. \A outcome \in {"AGREED", "REJECTED"}, fails \in BOOLEAN :
              [step |-> "check", talk |-> t, outcome |-> outcome, fails |-> fails,
               price |-> NoFinalPrice] \in AtWork
      BY DEF AtWork
    <2>2. worker' \in [Workers -> AtWork \cup {Resting}]
      <3>1. CASE Agree(w, t)
        BY <2>1, <3>1 DEF Agree, Publish
      <3>2. CASE FailTalks(w, t)
        BY <2>1, <3>2 DEF FailTalks, Publish
      <3>3. CASE Terminate(w, t)
        BY <2>1, <3>3 DEF Terminate, Publish
      <3>4. QED
        BY <1>1, <3>1, <3>2, <3>3
    <2>3. verdict' \in [Talks -> Verdict]
      <3>1. CASE Agree(w, t)
        BY <3>1 DEF Agree, Verdict
      <3>2. CASE FailTalks(w, t)
        BY <3>2 DEF FailTalks
      <3>3. CASE Terminate(w, t)
        BY <3>3, StatusWritten DEF Terminate
      <3>4. QED
        BY <1>1, <3>1, <3>2, <3>3
    <2>4. QED
      BY <1>1, <2>2, <2>3 DEF Agree, FailTalks, Terminate
  <1>3. ASSUME NEW w \in Workers, CheckRecords(w) PROVE MemoryTypeOK'
    <2>1. worker[w].step # "idle"
      BY <1>3 DEF CheckRecords, WorksAt
    <2>2. worker[w] \in AtWork /\ worker' \in [Workers -> AtWork \cup {Resting}]
      BY <1>3, <2>1, WorkerMoves DEF CheckRecords, Proceed
    <2>3. QED
      BY <1>3, <2>2 DEF CheckRecords, AtWork
  <1>2. ASSUME NEW w \in Workers, HandlerFails(w) PROVE MemoryTypeOK'
    <2>1. worker' \in [Workers -> AtWork \cup {Resting}]
      BY <1>2, WorkerMoves DEF HandlerFails, Proceed
    <2>2. QED
      BY <1>2, <2>1 DEF HandlerFails
  <1>4. ASSUME NEW w \in Workers, LoadSession(w) PROVE MemoryTypeOK'
    <2>1. worker[w] \in AtWork
      BY <1>4, WorkerMoves DEF LoadSession, WorksAt
    <2>2. verdict[worker[w].talk].price \in FinalPrices \cup {NoFinalPrice}
      BY <2>1 DEF AtWork, Verdict
    <2>3. [worker[w] EXCEPT !.step = "save", !.price = verdict[worker[w].talk].price] \in AtWork
      BY <2>1, <2>2 DEF AtWork
    <2>4. worker' \in [Workers -> AtWork \cup {Resting}]
      BY <1>4, <2>3 DEF LoadSession
    <2>5. QED
      BY <1>4, <2>4 DEF LoadSession
  <1>5. ASSUME NEW w \in Workers, SaveRecords(w) PROVE MemoryTypeOK'
    <2>1. worker[w] \in AtWork /\ worker' \in [Workers -> AtWork \cup {Resting}]
      BY <1>5, WorkerMoves DEF SaveRecords, WorksAt, Proceed
    <2>2. [outcome |-> worker[w].outcome, price |-> worker[w].price] \in Pair
      BY <2>1 DEF Pair, AtWork
    <2>3. memory' \in [Talks -> Seq(Pair)]
      BY <1>5, <2>1, <2>2 DEF SaveRecords, AtWork
    <2>4. QED
      BY <1>5, <2>1, <2>3 DEF SaveRecords
  <1>6. ASSUME NEW w \in Workers, Finish(w) \/ Die(w) PROVE MemoryTypeOK'
    <2>1. worker' \in [Workers -> AtWork \cup {Resting}]
      BY <1>6 DEF Finish, Die
    <2>2. verdict' \in [Talks -> Verdict]
      <3>1. worker[w] \in AtWork
        BY <1>6 DEF Finish, Die, WorksAt, Resting
      <3>2. worker[w].talk \in Talks
        BY <3>1 DEF AtWork
      <3>3. QED
        <4>1. CASE verdict' = verdict
          BY <4>1
        <4>2. CASE verdict' = [verdict EXCEPT ![worker[w].talk].status = "FAILED"]
          BY <3>2, <4>2, StatusWritten
        <4>3. QED
          BY <1>6, <4>1, <4>2 DEF Finish, Die
    <2>3. QED
      BY <1>6, <2>1, <2>2 DEF Finish, Die
  <1>7. ASSUME NEW t \in Talks, RunOutOfTime(t) \/ CloseByBuyer(t) PROVE MemoryTypeOK'
    <2>1. verdict' \in [Talks -> Verdict]
      BY <1>7 DEF RunOutOfTime, CloseByBuyer, Verdict
    <2>2. QED
      BY <1>7, <2>1 DEF RunOutOfTime, CloseByBuyer
  <1>8. ASSUME NEW t \in Talks, BackfillSession(t) PROVE MemoryTypeOK'
    <2>1. batch \in Batch
      BY <1>8 DEF BackfillSession
    <2>2. PICK held \in {batch.held, batch.held \cup {t}} :
              batch' = [batch EXCEPT !.left = @ \ {t}, !.held = held]
      BY <1>8 DEF BackfillSession
    <2>3. batch' = [step |-> "batch", left |-> batch.left \ {t}, seen |-> batch.seen,
                    held |-> held]
      BY <2>1, <2>2 DEF Batch
    <2>4. batch' \in Batch
      BY <2>1, <2>3 DEF Batch
    <2>5. QED
      BY <1>8, <2>4 DEF BackfillSession
  <1>9. CASE StartBatch \/ AbortBatch
    BY <1>9 DEF StartBatch, AbortBatch, Batch
  <1>10. CASE CommitBatch
    <2>1. \A t \in Talks :
              [outcome |-> OutcomeOf(batch.seen[t].status), price |-> batch.seen[t].price]
                  \in Pair
      BY <1>10 DEF CommitBatch, OutcomeOf, Pair, Batch, Verdict
    <2>2. memory' \in [Talks -> Seq(Pair)]
      BY <1>10, <2>1 DEF CommitBatch
    <2>3. QED
      BY <1>10, <2>2 DEF CommitBatch
  <1>11. CASE UNCHANGED memoryVars
    BY <1>11 DEF memoryVars
  <1>12. QED
    BY <1>1, <1>2, <1>3, <1>4, <1>5, <1>6, <1>7, <1>8, <1>9, <1>10, <1>11 DEF MemoryNext

\* What an agreement has fixed stays fixed.
LEMMA BackedStays ==
  MemoryInv /\ [MemoryNext]_memoryVars =>
      \A t \in Talks : \A p : Backed(t, p) => Backed(t, p)'
  <1> SUFFICES ASSUME MemoryInv, [MemoryNext]_memoryVars, NEW t \in Talks, NEW p, Backed(t, p)
               PROVE  Backed(t, p)'
    OBVIOUS
  <1> USE DEF MemoryInv, MemoryTypeOK, Backed
  <1>1. ASSUME NEW w \in Workers, NEW u \in Talks,
               Agree(w, u) \/ FailTalks(w, u) \/ Terminate(w, u)
        PROVE Backed(t, p)'
    BY <1>1 DEF Agree, FailTalks, Terminate, MayEnd
  <1>2. ASSUME NEW w \in Workers, Finish(w) PROVE Backed(t, p)'
    <2>1. worker[w] \in AtWork
      BY <1>2 DEF Finish, WorksAt, Resting
    <2>2. worker[w].fails => verdict[worker[w].talk].status = "open"
      BY <1>2 DEF Finish, WorksAt, BackedWork
    <2>3. QED
      BY <1>2, <2>1, <2>2 DEF Finish, AtWork
  <1>3. ASSUME NEW u \in Talks, RunOutOfTime(u) \/ CloseByBuyer(u) PROVE Backed(t, p)'
    <2>1. CASE RunOutOfTime(u)
      BY <2>1 DEF RunOutOfTime
    <2>2. CASE CloseByBuyer(u)
      BY <2>2 DEF CloseByBuyer, Verdict
    <2>3. QED
      BY <1>3, <2>1, <2>2
  <1>4. CASE UNCHANGED verdict
    BY <1>4
  <1>5. QED
    BY <1>1, <1>2, <1>3, <1>4 DEF MemoryNext, memoryVars, CheckRecords, LoadSession,
       SaveRecords, HandlerFails, Die, StartBatch, BackfillSession, CommitBatch, AbortBatch

\* A step of the workers, none of whom begins: no talk gets a second worker.
LEMMA WorkersStay ==
  ASSUME OneWorkerEach,
         \A v \in Workers : \/ worker'[v].step = "idle"
                            \/ worker[v].step # "idle" /\ worker'[v].talk = worker[v].talk
  PROVE  OneWorkerEach'
  BY DEF OneWorkerEach

\* The end of a session brings one worker to a talk nobody worked on.
LEMMA EndKeepsMemory ==
  ASSUME MemoryInv, NEW w \in Workers, NEW t \in Talks,
         Agree(w, t) \/ FailTalks(w, t) \/ Terminate(w, t)
  PROVE  MemoryInv'
  <1>1. MemoryTypeOK' /\ [MemoryNext]_memoryVars
    BY MemoryTypeKept DEF MemoryInv, MemoryNext
  <1>2. \A u \in Talks : \A p : Backed(u, p) => Backed(u, p)'
    BY <1>1, BackedStays
  <1>3. /\ MemoryTypeOK
        /\ worker[w].step = "idle" /\ verdict[t].status = "open"
        /\ \A v \in Workers : ~(worker[v].step # "idle" /\ worker[v].talk = t)
    BY DEF MemoryInv, Agree, FailTalks, Terminate, MayEnd, WorksAt, Undisturbed, WorksOn
  <1>4. /\ worker'[w].step = "check" /\ worker'[w].talk = t
        /\ \A v \in Workers \ {w} : worker'[v] = worker[v]
    BY <1>3 DEF Agree, FailTalks, Terminate, Publish, MemoryTypeOK
  <1>5. \A u \in Talks \ {t} : verdict'[u] = verdict[u]
    BY <1>3 DEF Agree, FailTalks, Terminate, MemoryTypeOK
  <1>6. UNCHANGED <<memory, batch, met>>
    BY DEF Agree, FailTalks, Terminate
  <1>7. BackedWork(w)'
    BY <1>3, NoFinalPriceAssumption
    DEF Agree, FailTalks, Terminate, Publish, MemoryTypeOK, BackedWork, Backed
  <1>8. ASSUME NEW v \in Workers \ {w} PROVE BackedWork(v)'
    <2>1. BackedWork(v)
      BY DEF MemoryInv
    <2>2. CASE worker[v].step = "idle"
      BY <1>4, <2>2 DEF BackedWork
    <2>3. CASE worker[v].step # "idle"
      <3>1. worker[v] \in AtWork /\ worker[v].talk \in Talks \ {t}
        BY <1>3, <2>3 DEF MemoryTypeOK, Resting, AtWork
      <3>2. verdict'[worker[v].talk] = verdict[worker[v].talk]
        BY <1>5, <3>1
      <3>3. QED
        BY <1>4, <2>1, <3>2 DEF BackedWork, Backed
    <2>4. QED
      BY <2>2, <2>3
  <1>9. OneWorkerEach'
    BY <1>3, <1>4 DEF MemoryInv, OneWorkerEach
  <1>10. BackedBatch'
    <2>1. verdict'[t].status = "AGREED" => Backed(t, verdict[t].price)'
      <3>1. CASE Agree(w, t)
        BY <3>1, NoFinalPriceAssumption DEF MemoryInv, Agree, MemoryTypeOK, Backed
      <3>2. CASE FailTalks(w, t)
        BY <1>3, <3>2 DEF FailTalks
      <3>3. CASE Terminate(w, t)
        BY <1>3, <3>3 DEF Terminate, MemoryTypeOK, Verdict
      <3>4. QED
        BY <3>1, <3>2, <3>3
    <2>2. \A u \in Talks \ {t} : verdict'[u].status = "AGREED" => Backed(u, verdict[u].price)'
      BY <1>5 DEF MemoryInv, BackedBatch, Backed
    <2>3. batch' # NoBatch =>
              \A u \in Talks : batch'.seen[u].status = "AGREED" => Backed(u, batch.seen[u].price)'
      BY <1>2, <1>6 DEF MemoryInv, BackedBatch, Backed
    <2>4. QED
      BY <2>1, <2>2, <2>3 DEF BackedBatch, NoBatch
  <1>11. BackedRecords'
    BY <1>2, <1>6 DEF MemoryInv, BackedRecords, Backed
  <1>12. FirstPair'
    BY <1>4, <1>6 DEF MemoryInv, FirstPair, NoBatch
  <1>13. QED
    BY <1>1, <1>7, <1>8, <1>9, <1>10, <1>11, <1>12 DEF MemoryInv

\* The handler of an ended session, its end and its death.
LEMMA WorkKeepsMemory ==
  ASSUME MemoryInv, NEW w \in Workers,
         \/ CheckRecords(w) \/ LoadSession(w) \/ SaveRecords(w)
         \/ HandlerFails(w) \/ Finish(w) \/ Die(w)
  PROVE  MemoryInv'
  <1>1. MemoryTypeOK' /\ [MemoryNext]_memoryVars
    BY MemoryTypeKept DEF MemoryInv, MemoryNext
  <1>2. \A u \in Talks : \A p : Backed(u, p) => Backed(u, p)'
    BY <1>1, BackedStays
  <1>3. MemoryTypeOK /\ BackedWork(w) /\ OneWorkerEach /\ FirstPair /\ BackedRecords
    BY DEF MemoryInv
  <1>4. worker[w].step # "idle"
    BY DEF CheckRecords, LoadSession, SaveRecords, HandlerFails, Finish, Die, WorksAt
  <1>5. worker[w] \in AtWork /\ worker[w].talk \in Talks
    BY <1>3, <1>4 DEF MemoryTypeOK, Resting, AtWork
  <1>6. /\ \A v \in Workers \ {w} : worker'[v] = worker[v]
        /\ \/ worker'[w] = Resting
           \/ /\ worker'[w].step # "idle"
              /\ worker'[w].talk = worker[w].talk
              /\ worker'[w].outcome = worker[w].outcome
              /\ worker'[w].fails = worker[w].fails
    BY <1>3, <1>5 DEF CheckRecords, LoadSession, SaveRecords, HandlerFails, Finish, Die,
       MemoryTypeOK, Proceed, AtWork
  <1>7. \A u \in Talks : u # worker[w].talk => verdict'[u] = verdict[u]
    BY <1>3 DEF CheckRecords, LoadSession, SaveRecords, HandlerFails, Finish, Die,
       MemoryTypeOK
  <1>8. worker'[w] # Resting => verdict' = verdict
    BY <1>3 DEF CheckRecords, LoadSession, SaveRecords, HandlerFails, Finish, Die,
       MemoryTypeOK
  <1>9. verdict'[worker[w].talk].status = "AGREED" => verdict' = verdict
    <2>1. CASE verdict' = verdict
      BY <2>1
    <2>2. CASE verdict' = [verdict EXCEPT ![worker[w].talk].status = "FAILED"]
      BY <1>3, <1>5, <2>2 DEF MemoryTypeOK, Verdict
    <2>3. QED
      BY <2>1, <2>2 DEF CheckRecords, LoadSession, SaveRecords, HandlerFails, Finish, Die
  <1>10. BackedWork(w)'
    <2>1. CASE worker'[w] = Resting
      BY <2>1 DEF BackedWork, Resting
    <2>2. CASE worker'[w] # Resting
      <3>1. verdict' = verdict /\ worker'[w].talk = worker[w].talk
            /\ worker'[w].outcome = worker[w].outcome /\ worker'[w].fails = worker[w].fails
        BY <1>6, <1>8, <2>2
      <3>2. worker'[w].step = "save" => worker'[w].price = verdict[worker[w].talk].price
        BY <1>3, <1>5, <2>2 DEF CheckRecords, LoadSession, SaveRecords, HandlerFails, Finish, Die,
           Proceed, MemoryTypeOK, AtWork
      <3>3. QED
        BY <1>3, <1>4, <3>1, <3>2 DEF BackedWork, Backed
    <2>3. QED
      BY <2>1, <2>2
  <1>11. ASSUME NEW v \in Workers \ {w} PROVE BackedWork(v)'
    <2>1. BackedWork(v)
      BY DEF MemoryInv
    <2>2. CASE worker[v].step = "idle"
      BY <1>6, <2>2 DEF BackedWork
    <2>3. CASE worker[v].step # "idle"
      <3>1. worker[v] \in AtWork /\ worker[v].talk \in Talks
        BY <1>3, <2>3 DEF MemoryTypeOK, Resting, AtWork
      <3>2. worker[v].talk # worker[w].talk
        BY <1>3, <1>4, <2>3 DEF OneWorkerEach
      <3>3. verdict'[worker[v].talk] = verdict[worker[v].talk]
        BY <1>7, <3>1, <3>2
      <3>4. QED
        BY <1>6, <2>1, <3>3 DEF BackedWork, Backed
    <2>4. QED
      BY <2>2, <2>3
  <1>12. OneWorkerEach'
    BY <1>3, <1>4, <1>6 DEF OneWorkerEach, Resting
  <1>13. batch' = batch
    BY DEF CheckRecords, LoadSession, SaveRecords, HandlerFails, Finish, Die
  <1>14. BackedBatch'
    <2>1. ASSUME NEW u \in Talks, verdict'[u].status = "AGREED"
          PROVE  Backed(u, verdict[u].price)'
      <3>1. verdict'[u] = verdict[u]
        BY <1>7, <1>9, <2>1
      <3>2. QED
        BY <2>1, <3>1 DEF MemoryInv, BackedBatch, Backed
    <2>2. QED
      BY <1>2, <1>13, <2>1 DEF MemoryInv, BackedBatch, Backed, NoBatch
  <1>15. CASE SaveRecords(w)
    <2>0. PICK t \in Talks, r \in Pair :
              /\ t = worker[w].talk
              /\ r = [outcome |-> worker[w].outcome, price |-> worker[w].price]
      BY <1>5 DEF AtWork, Pair
    <2>1. /\ memory[t] \in Seq(Pair) /\ r \in Pair
          /\ memory'[t] = Append(memory[t], r)
          /\ \A u \in Talks \ {t} : memory'[u] = memory[u]
      BY <1>3, <1>15, <2>0 DEF SaveRecords, MemoryTypeOK
    <2>2. /\ Len(memory[t]) = 0 => Len(memory'[t]) = 1
          /\ \A i \in DOMAIN memory'[t] :
                 memory'[t][i] = r \/ (i \in DOMAIN memory[t] /\ memory'[t][i] = memory[t][i])
      BY <2>1, Appended
    <2>3. worker[w].outcome = "AGREED" => Backed(t, worker[w].price)
      BY <1>3, <1>15, <2>0 DEF BackedWork, SaveRecords, WorksAt
    <2>4. \A i \in DOMAIN memory'[t] :
              memory'[t][i].outcome = "AGREED" => Backed(t, memory'[t][i].price)
      BY <1>3, <2>0, <2>2, <2>3 DEF BackedRecords
    <2>5. BackedRecords'
      <3>1. verdict' = verdict
        BY <1>15 DEF SaveRecords
      <3>2. QED
        <4>1. ASSUME NEW u \in Talks \ {t}, NEW i \in DOMAIN memory'[u],
                     memory'[u][i].outcome = "AGREED"
              PROVE  Backed(u, memory[u][i].price)'
          BY <1>3, <2>1, <3>1, <4>1 DEF BackedRecords, Backed
        <4>2. ASSUME NEW i \in DOMAIN memory'[t], memory'[t][i].outcome = "AGREED"
              PROVE  Backed(t, memory[t][i].price)'
          <5>1. Backed(t, memory'[t][i].price)
            BY <2>4, <4>2
          <5>2. QED
            BY <1>15, <3>1, <5>1 DEF Backed, SaveRecords
        <4>3. QED
          BY <4>1, <4>2 DEF BackedRecords
    <2>6. FirstPair'
      <3> SUFFICES ASSUME NEW u \in Talks, u \notin met'
                   PROVE  /\ Len(memory'[u]) <= 1
                          /\ batch' # NoBatch /\ u \in batch'.held => memory'[u] = <<>>
                          /\ \A v \in Workers :
                                 worker'[v].step \in {"load", "save"} /\ worker'[v].talk = u =>
                                     /\ memory'[u] = <<>>
                                     /\ batch' # NoBatch => u \notin batch'.held
        BY DEF FirstPair, NoBatch
      <3>1. met' = met /\ worker'[w].step = "finish" /\ worker[w].step = "save"
        BY <1>3, <1>5, <1>15 DEF SaveRecords, Proceed, WorksAt, MemoryTypeOK, AtWork
      <3>2. CASE u = t
        <4>1. memory[t] = <<>> /\ (batch # NoBatch => t \notin batch.held)
          BY <1>3, <2>0, <3>1, <3>2 DEF FirstPair
        <4>2. Len(memory'[u]) <= 1
          <5>1. Len(memory[t]) = 0
            BY <4>1
          <5>2. QED
            <6>1. Len(memory'[t]) = 1
              BY <2>2, <5>1
            <6>2. memory'[u] = memory'[t]
              BY <3>2
            <6>3. Len(memory'[u]) = 1
              BY <6>1, <6>2
            <6>4. QED
              BY <6>3
        <4>3. \A v \in Workers :
                  ~(worker'[v].step \in {"load", "save"} /\ worker'[v].talk = u)
          BY <1>3, <1>4, <1>6, <2>0, <3>1, <3>2 DEF OneWorkerEach
        <4>4. QED
          BY <1>13, <3>2, <4>1, <4>2, <4>3
      <3>3. CASE u # t
        BY <1>3, <1>6, <1>13, <2>1, <3>1, <3>3 DEF FirstPair
      <3>4. QED
        BY <3>2, <3>3
    <2>7. QED
      BY <1>1, <1>10, <1>11, <1>12, <1>14, <2>5, <2>6 DEF MemoryInv
  <1>16. CASE ~SaveRecords(w)
    <2>1. memory' = memory /\ met \subseteq met'
      BY <1>16 DEF CheckRecords, LoadSession, SaveRecords, HandlerFails, Finish, Die
    <2>2. BackedRecords'
      BY <1>2, <1>3, <2>1 DEF BackedRecords, Backed
    <2>3. worker'[w].step \in {"load", "save"} =>
              \/ worker[w].step \in {"load", "save"} /\ worker'[w].talk = worker[w].talk
              \/ /\ memory[worker[w].talk] = <<>> /\ worker'[w].talk = worker[w].talk
                 /\ batch # NoBatch /\ worker[w].talk \in batch.held
                        => worker[w].talk \in met'
      <3>1. CASE CheckRecords(w)
        BY <1>3, <1>5, <3>1 DEF CheckRecords, Proceed, MemoryTypeOK, AtWork
      <3>2. CASE LoadSession(w)
        BY <1>3, <1>5, <3>2 DEF LoadSession, WorksAt, MemoryTypeOK, AtWork
      <3>3. CASE HandlerFails(w)
        BY <1>3, <1>5, <3>3 DEF HandlerFails, Proceed, MemoryTypeOK, AtWork
      <3>4. CASE Finish(w) \/ Die(w)
        BY <1>3, <3>4 DEF Finish, Die, MemoryTypeOK, Resting
      <3>5. QED
        BY <1>16, <3>1, <3>2, <3>3, <3>4
    <2>4. FirstPair'
      <3> SUFFICES ASSUME NEW u \in Talks, u \notin met'
                   PROVE  /\ Len(memory'[u]) <= 1
                          /\ batch' # NoBatch /\ u \in batch'.held => memory'[u] = <<>>
                          /\ \A v \in Workers :
                                 worker'[v].step \in {"load", "save"} /\ worker'[v].talk = u =>
                                     /\ memory'[u] = <<>>
                                     /\ batch' # NoBatch => u \notin batch'.held
        BY DEF FirstPair, NoBatch
      <3>1. u \notin met
        BY <2>1
      <3>2. ASSUME NEW v \in Workers \ {w},
                   worker'[v].step \in {"load", "save"} /\ worker'[v].talk = u
            PROVE  memory'[u] = <<>> /\ (batch' # NoBatch => u \notin batch'.held)
        BY <1>3, <1>6, <1>13, <2>1, <3>1, <3>2 DEF FirstPair
      <3>3. ASSUME worker'[w].step \in {"load", "save"} /\ worker'[w].talk = u
            PROVE  memory'[u] = <<>> /\ (batch' # NoBatch => u \notin batch'.held)
        BY <1>3, <1>13, <2>1, <2>3, <3>1, <3>3 DEF FirstPair
      <3>4. QED
        BY <1>3, <1>13, <2>1, <3>1, <3>2, <3>3 DEF FirstPair
    <2>5. QED
      BY <1>1, <1>10, <1>11, <1>12, <1>14, <2>2, <2>4 DEF MemoryInv
  <1>17. QED
    BY <1>15, <1>16

\* A session that ends by itself or is closed, without an event.
LEMMA SilentEndKeepsMemory ==
  ASSUME MemoryInv, NEW t \in Talks, RunOutOfTime(t) \/ CloseByBuyer(t)
  PROVE  MemoryInv'
  <1>1. MemoryTypeOK' /\ [MemoryNext]_memoryVars
    BY MemoryTypeKept DEF MemoryInv, MemoryNext
  <1>2. \A u \in Talks : \A p : Backed(u, p) => Backed(u, p)'
    BY <1>1, BackedStays
  <1>3. /\ UNCHANGED <<memory, worker, batch, met>>
        /\ \A u \in Talks \ {t} : verdict'[u] = verdict[u]
    BY DEF MemoryInv, MemoryTypeOK, RunOutOfTime, CloseByBuyer
  <1>4. verdict'[t].status # "AGREED" /\ verdict'[t].price = verdict[t].price
    BY DEF MemoryInv, MemoryTypeOK, Verdict, RunOutOfTime, CloseByBuyer
  <1>5. ASSUME NEW w \in Workers PROVE BackedWork(w)'
    <2>1. BackedWork(w) /\ worker' = worker
      BY <1>3 DEF MemoryInv
    <2>2. CASE worker[w].step = "idle"
      BY <2>1, <2>2 DEF BackedWork
    <2>3. CASE worker[w].step # "idle"
      <3>1. worker[w].talk \in Talks
        BY <2>3 DEF MemoryInv, MemoryTypeOK, AtWork, Resting
      <3>2. ~(worker[w].talk = t /\ worker[w].fails)
        BY <2>3 DEF RunOutOfTime, CloseByBuyer, Undisturbed, WorksOn
      <3>3. verdict'[worker[w].talk].price = verdict[worker[w].talk].price
        BY <1>3, <1>4, <3>1
      <3>4. worker[w].fails => verdict'[worker[w].talk].status = "open"
        BY <1>3, <2>1, <2>3, <3>1, <3>2 DEF BackedWork
      <3>5. worker[w].outcome = "AGREED" =>
                /\ ~worker[w].fails
                /\ Backed(worker[w].talk, verdict[worker[w].talk].price)'
                /\ worker[w].step = "save" => Backed(worker[w].talk, worker[w].price)'
        <4> SUFFICES ASSUME worker[w].outcome = "AGREED"
                     PROVE  /\ ~worker[w].fails
                            /\ Backed(worker[w].talk, verdict[worker[w].talk].price)'
                            /\ worker[w].step = "save" =>
                                   Backed(worker[w].talk, worker[w].price)'
          OBVIOUS
        <4>1. /\ ~worker[w].fails
              /\ Backed(worker[w].talk, verdict[worker[w].talk].price)
              /\ worker[w].step = "save" => Backed(worker[w].talk, worker[w].price)
          BY <2>1, <2>3 DEF BackedWork
        <4>2. verdict'[worker[w].talk].status \in {"AGREED", "CLOSED_BY_BUYER"}
          BY <1>2, <3>1, <4>1 DEF Backed
        <4>3. QED
          BY <2>1, <3>3, <4>1, <4>2 DEF Backed
      <3>6. QED
        BY <2>1, <3>4, <3>5 DEF BackedWork
    <2>4. QED
      BY <2>2, <2>3
  <1>6. OneWorkerEach'
    BY <1>3 DEF MemoryInv, OneWorkerEach
  <1>7. BackedBatch'
    <2>1. ASSUME NEW u \in Talks, verdict'[u].status = "AGREED"
          PROVE  Backed(u, verdict[u].price)'
      BY <1>3, <1>4, <2>1 DEF MemoryInv, BackedBatch, Backed
    <2>2. QED
      BY <1>2, <1>3, <2>1 DEF MemoryInv, BackedBatch, Backed, NoBatch
  <1>8. BackedRecords'
    BY <1>2, <1>3 DEF MemoryInv, BackedRecords, Backed
  <1>9. FirstPair'
    BY <1>3 DEF MemoryInv, FirstPair, NoBatch
  <1>10. QED
    BY <1>1, <1>5, <1>6, <1>7, <1>8, <1>9 DEF MemoryInv

\* The script.
LEMMA BatchKeepsMemory ==
  ASSUME MemoryInv,
         \/ StartBatch \/ CommitBatch \/ AbortBatch
         \/ \E t \in Talks : BackfillSession(t)
  PROVE  MemoryInv'
  <1>1. MemoryTypeOK' /\ [MemoryNext]_memoryVars
    BY MemoryTypeKept DEF MemoryInv, MemoryNext
  <1>2. /\ UNCHANGED <<verdict, worker>>
        /\ met \subseteq met'
        /\ \A u \in Talks : \A p : Backed(u, p) => Backed(u, p)'
    BY DEF StartBatch, CommitBatch, AbortBatch, BackfillSession, Backed
  <1>3. \A w \in Workers : BackedWork(w)'
    BY <1>2 DEF MemoryInv, BackedWork, Backed
  <1>4. OneWorkerEach'
    BY <1>2 DEF MemoryInv, OneWorkerEach
  <1>5. CASE StartBatch
    <2>1. BackedBatch'
      BY <1>2, <1>5 DEF MemoryInv, StartBatch, BackedBatch, Backed, NoBatch
    <2>2. BackedRecords'
      BY <1>2, <1>5 DEF MemoryInv, StartBatch, BackedRecords, Backed
    <2>3. FirstPair'
      BY <1>2, <1>5 DEF MemoryInv, StartBatch, FirstPair, NoBatch
    <2>4. QED
      BY <1>1, <1>3, <1>4, <2>1, <2>2, <2>3 DEF MemoryInv
  <1>6. CASE AbortBatch
    <2>1. BackedBatch'
      BY <1>2, <1>6 DEF MemoryInv, AbortBatch, BackedBatch, Backed, NoBatch
    <2>2. BackedRecords'
      BY <1>2, <1>6 DEF MemoryInv, AbortBatch, BackedRecords, Backed
    <2>3. FirstPair'
      BY <1>2, <1>6 DEF MemoryInv, AbortBatch, FirstPair, NoBatch
    <2>4. QED
      BY <1>1, <1>3, <1>4, <2>1, <2>2, <2>3 DEF MemoryInv
  <1>7. ASSUME NEW t \in Talks, BackfillSession(t) PROVE MemoryInv'
    <2>1. /\ batch \in Batch /\ batch # NoBatch /\ memory' = memory
          /\ batch' \in Batch /\ batch'.seen = batch.seen
      <3>1. batch \in Batch /\ batch # NoBatch /\ memory' = memory
        BY <1>7 DEF MemoryInv, MemoryTypeOK, BackfillSession
      <3>2. PICK held : batch' = [batch EXCEPT !.left = @ \ {t}, !.held = held]
        BY <1>7 DEF BackfillSession
      <3>3. batch'.seen = batch.seen /\ batch'.step = "batch"
        BY <3>1, <3>2 DEF Batch
      <3>4. batch' # NoBatch
        BY <3>3 DEF NoBatch
      <3>5. QED
        BY <1>1, <3>1, <3>3, <3>4 DEF MemoryTypeOK
    <2>2. BackedBatch'
      BY <1>2, <2>1 DEF MemoryInv, BackedBatch, Backed, NoBatch
    <2>3. BackedRecords'
      BY <1>2, <2>1 DEF MemoryInv, BackedRecords, Backed
    <2>4. \/ batch'.held = batch.held
          \/ /\ batch'.held = batch.held \cup {t}
             /\ memory[t] = <<>>
             /\ t \notin met' => \A w \in Workers :
                    ~(worker[w].step \in {"load", "save"} /\ worker[w].talk = t)
      <3>1. PICK makes \in {memory[t] = <<>>, FALSE} :
                /\ batch' = [batch EXCEPT !.left = @ \ {t},
                                          !.held = IF makes THEN @ \cup {t} ELSE @]
                /\ met' = IF makes /\ \E w \in Workers :
                                 /\ WorksOn(w, t) /\ worker[w].step \in {"load", "save"}
                          THEN met \cup {t} ELSE met
        BY <1>7 DEF BackfillSession
      <3>2. CASE makes
        <4>1. memory[t] = <<>>
          BY <3>1, <3>2
        <4>2. batch'.held = batch.held \cup {t}
          BY <2>1, <3>1, <3>2 DEF Batch
        <4>3. t \notin met' => \A w \in Workers :
                  ~(worker[w].step \in {"load", "save"} /\ worker[w].talk = t)
          BY <3>1, <3>2 DEF WorksOn
        <4>4. QED
          BY <4>1, <4>2, <4>3
      <3>3. CASE ~makes
        BY <2>1, <3>1, <3>3 DEF Batch
      <3>4. QED
        BY <3>2, <3>3
    <2>5. FirstPair'
      BY <1>2, <2>1, <2>4 DEF MemoryInv, FirstPair, NoBatch
    <2>6. QED
      BY <1>1, <1>3, <1>4, <2>2, <2>3, <2>5 DEF MemoryInv
  <1>8. CASE CommitBatch
    <2> DEFINE r(t) == [outcome |-> OutcomeOf(batch.seen[t].status),
                        price |-> batch.seen[t].price]
    <2>1. /\ MemoryTypeOK /\ batch \in Batch /\ batch # NoBatch /\ batch' = NoBatch
          /\ met' = met
      BY <1>8 DEF CommitBatch, MemoryInv, MemoryTypeOK
    <2>2. \A t \in Talks : memory[t] \in Seq(Pair) /\ r(t) \in Pair
      BY <2>1 DEF MemoryTypeOK, Pair, Batch, Verdict, OutcomeOf
    <2>3. \A t \in Talks :
              /\ t \in batch.held => memory'[t] = Append(memory[t], r(t))
              /\ t \notin batch.held => memory'[t] = memory[t]
      BY <1>8 DEF CommitBatch
    <2>4. BackedBatch'
      BY <1>2, <2>1 DEF MemoryInv, BackedBatch, Backed, NoBatch
    <2>5. BackedRecords'
      <3> SUFFICES ASSUME NEW t \in Talks, NEW i \in DOMAIN memory'[t],
                          memory'[t][i].outcome = "AGREED"
                   PROVE  Backed(t, memory'[t][i].price)
        BY <1>2 DEF BackedRecords, Backed
      <3>1. CASE i \in DOMAIN memory[t] /\ memory'[t][i] = memory[t][i]
        BY <3>1 DEF MemoryInv, BackedRecords
      <3>2. CASE memory'[t][i] = r(t)
        <4>1. OutcomeOf(batch.seen[t].status) = "AGREED"
          BY <3>2
        <4>2. batch.seen[t].status = "AGREED"
          BY <4>1 DEF OutcomeOf
        <4>3. Backed(t, batch.seen[t].price)
          BY <2>1, <4>2 DEF MemoryInv, BackedBatch
        <4>4. QED
          BY <3>2, <4>3
      <3>3. QED
        <4>1. CASE t \in batch.held
          BY <2>2, <2>3, <3>1, <3>2, <4>1, Appended
        <4>2. CASE t \notin batch.held
          BY <2>3, <3>1, <4>2
        <4>3. QED
          BY <4>1, <4>2
    <2>6. FirstPair'
      <3> SUFFICES ASSUME NEW t \in Talks, t \notin met
                   PROVE  /\ Len(memory'[t]) <= 1
                          /\ \A w \in Workers :
                                 worker[w].step \in {"load", "save"} /\ worker[w].talk = t =>
                                     memory'[t] = <<>>
        BY <1>2, <2>1 DEF FirstPair
      <3>1. CASE t \in batch.held
        <4>1. memory[t] = <<>>
          BY <2>1, <3>1 DEF MemoryInv, FirstPair
        <4>2. Len(memory'[t]) = 1
          <5>1. Len(memory[t]) = 0
            BY <4>1
          <5>2. QED
            <6>1. memory'[t] = Append(memory[t], r(t))
              BY <2>3, <3>1
            <6>2. memory[t] \in Seq(Pair) /\ r(t) \in Pair
              BY <2>2
            <6>3. QED
              BY <5>1, <6>1, <6>2, Appended
        <4>3. \A w \in Workers : ~(worker[w].step \in {"load", "save"} /\ worker[w].talk = t)
          BY <2>1, <3>1 DEF MemoryInv, FirstPair
        <4>4. QED
          BY <4>2, <4>3
      <3>2. CASE t \notin batch.held
        BY <2>3, <3>2 DEF MemoryInv, FirstPair
      <3>3. QED
        BY <3>1, <3>2
    <2>7. QED
      BY <1>1, <1>3, <1>4, <2>4, <2>5, <2>6 DEF MemoryInv
  <1>9. QED
    BY <1>5, <1>6, <1>7, <1>8

LEMMA MemoryInvariant == MemorySpec => []MemoryInv
  <1>1. MemoryInit => MemoryInv
    <2> SUFFICES ASSUME MemoryInit PROVE MemoryInv
      OBVIOUS
    <2>1. MemoryTypeOK
      BY MemoryTypeStarts
    <2>2. QED
      BY <2>1 DEF MemoryInit, MemoryInv, BackedWork, OneWorkerEach, BackedBatch,
         BackedRecords, FirstPair, Open, Resting, NoBatch
  <1>2. MemoryInv /\ [MemoryNext]_memoryVars => MemoryInv'
    <2> SUFFICES ASSUME MemoryInv, [MemoryNext]_memoryVars PROVE MemoryInv'
      OBVIOUS
    <2>1. CASE UNCHANGED memoryVars
      <3>1. MemoryTypeOK'
        BY MemoryTypeKept DEF MemoryInv
      <3>2. QED
        BY <2>1, <3>1 DEF memoryVars, MemoryInv, BackedWork, OneWorkerEach, BackedBatch,
           BackedRecords, FirstPair, Backed, NoBatch
    <2>2. CASE MemoryNext
      BY <2>2, EndKeepsMemory, WorkKeepsMemory, SilentEndKeepsMemory, BatchKeepsMemory
      DEF MemoryNext
    <2>3. QED
      BY <2>1, <2>2
  <1>3. QED
    BY <1>1, <1>2, PTL DEF MemorySpec

\* A record of an agreement is of a session that agreed, at its price, for any number
\* of workers and sessions, whatever dies when.
THEOREM AgreedRecordsBacked == MemorySpec => []AgreedRecordsHaveAgreement
  <1>1. MemoryInv => AgreedRecordsHaveAgreement
    BY DEF MemoryInv, BackedRecords, AgreedRecordsHaveAgreement, Backed, Pairs
  <1>2. QED
    BY <1>1, MemoryInvariant, PTL

\* Script and handler write two pairs of records of a session only by overlapping on it.
THEOREM OnePair == MemorySpec => []OnePairUnlessBackfilled
  <1>1. MemoryInv => OnePairUnlessBackfilled
    BY DEF MemoryInv, FirstPair, OnePairUnlessBackfilled
  <1>2. QED
    BY <1>1, MemoryInvariant, PTL

\* The session as the records see it lives as Deal's does (SessionLife).
TalkStage(status) ==
    IF status = "open" THEN "OPEN" ELSE IF status = "AGREED" THEN "AGREED" ELSE "OVER"

TalkOf(t) == INSTANCE SessionLife WITH stage <- TalkStage(verdict[t].status)

TalkMoves(t) ==
    LET old == verdict[t].status
        new == verdict'[t].status
    IN  \/ new = old
        \/ old = "open" /\ new = "AGREED"
        \/ old \in {"open", "AGREED"} /\ new \in {"FAILED", "TIMEOUT", "CLOSED_BY_BUYER"}

LEMMA TalkGoesOn ==
  ASSUME MemoryInv, [MemoryNext]_memoryVars, NEW t \in Talks
  PROVE  TalkMoves(t)
  <1>1. verdict \in [Talks -> Verdict] /\ verdict[t] \in Verdict
    BY DEF MemoryInv, MemoryTypeOK
  <1>2. CASE UNCHANGED verdict
    BY <1>2 DEF TalkMoves
  <1>3. ASSUME NEW w \in Workers, NEW o \in Talks,
               Agree(w, o) \/ FailTalks(w, o) \/ Terminate(w, o)
        PROVE  TalkMoves(t)
    <2>1. CASE FailTalks(w, o)
      BY <1>2, <2>1 DEF FailTalks
    <2>2. CASE Agree(w, o)
      <3>1. PICK p : verdict' = [verdict EXCEPT ![o] = [status |-> "AGREED", price |-> p]]
        BY <2>2 DEF Agree
      <3>2. verdict[o].status = "open"
        BY <2>2 DEF Agree, MayEnd
      <3>3. QED
        BY <1>1, <3>1, <3>2 DEF TalkMoves
    <2>3. CASE Terminate(w, o)
      BY <1>1, <2>3 DEF Terminate, MayEnd, TalkMoves, Verdict
    <2>4. QED
      BY <1>3, <2>1, <2>2, <2>3
  <1>4. ASSUME NEW w \in Workers, Finish(w)
        PROVE  TalkMoves(t)
    <2>1. CASE worker[w].fails
      <3>1. worker[w].step # "idle" /\ BackedWork(w)
        BY <1>4 DEF Finish, WorksAt, MemoryInv
      <3>2. verdict[worker[w].talk].status = "open"
        BY <2>1, <3>1 DEF BackedWork
      <3>3. verdict' = [verdict EXCEPT ![worker[w].talk].status = "FAILED"]
        BY <1>4, <2>1 DEF Finish
      <3>4. QED
        BY <1>1, <3>2, <3>3 DEF TalkMoves, Verdict
    <2>2. CASE ~worker[w].fails
      BY <1>4, <2>2 DEF Finish, TalkMoves
    <2>3. QED
      BY <2>1, <2>2
  <1>5. ASSUME NEW o \in Talks, RunOutOfTime(o) \/ CloseByBuyer(o)
        PROVE  TalkMoves(t)
    BY <1>1, <1>5 DEF RunOutOfTime, CloseByBuyer, TalkMoves, Verdict
  <1>6. ASSUME NEW w \in Workers,
               CheckRecords(w) \/ LoadSession(w) \/ SaveRecords(w) \/ HandlerFails(w) \/ Die(w)
        PROVE  UNCHANGED verdict
    BY <1>6 DEF CheckRecords, LoadSession, SaveRecords, HandlerFails, Die
  <1>7. ASSUME StartBatch \/ CommitBatch \/ AbortBatch \/ \E o \in Talks : BackfillSession(o)
        PROVE  UNCHANGED verdict
    BY <1>7 DEF StartBatch, CommitBatch, AbortBatch, BackfillSession
  <1>8. CASE UNCHANGED memoryVars
    BY <1>2, <1>8 DEF memoryVars
  <1>9. QED
    BY <1>2, <1>3, <1>4, <1>5, <1>6, <1>7, <1>8 DEF MemoryNext

\* What the records are about ends once, with an agreement or without, and at most
\* the agreement is dropped: also when a worker dies between the event and the
\* commit of a failed turn.
THEOREM TalksLive ==
  MemorySpec => /\ \A t \in Talks : TalkOf(t)!Init
                /\ [][\A t \in Talks : [TalkOf(t)!Next]_(TalkStage(verdict[t].status))]_verdict
  <1>1. MemoryInit => \A t \in Talks : TalkOf(t)!Init
    BY DEF MemoryInit, Open, TalkOf!Init, TalkStage
  <1>2. MemoryInv /\ [MemoryNext]_memoryVars =>
            [\A t \in Talks : [TalkOf(t)!Next]_(TalkStage(verdict[t].status))]_verdict
    <2> SUFFICES ASSUME MemoryInv, [MemoryNext]_memoryVars, NEW t \in Talks
                 PROVE  [TalkOf(t)!Next]_(TalkStage(verdict[t].status))
      OBVIOUS
    <2>1. TalkMoves(t)
      BY TalkGoesOn
    <2>2. QED
      BY <2>1 DEF TalkMoves, TalkStage, TalkOf!Next, TalkOf!Agree, TalkOf!End
  <1>3. QED
    BY MemoryInvariant, <1>1, <1>2, PTL DEF MemorySpec

-----------------------------------------------------------------------------
\* Matching.  Its invariant says of the two tables of scores that they hold the
\* best that was found of each supplier so far; the lemmas before it, that an
\* order of a finite set is a sequence of all its members, and that the best of
\* some results are the first of them in such an order.

LEMMA LeastExists ==
  ASSUME NEW S \in SUBSET Nat, S # {}
  PROVE  \E n \in S : \A k \in S : n <= k
  <1>1. \E x \in S : \A y \in S : <<y, x>> \notin OpToRel(<, Nat)
    BY NatLessThanWellFounded, WFMin
  <1>2. \A x, y \in Nat : <<y, x>> \notin OpToRel(<, Nat) => x <= y
    BY DEF OpToRel
  <1>3. QED
    BY <1>1, <1>2

\* A strict order that compares any two.
IsOrder(K, before) ==
    /\ \A i \in K : <<i, i>> \notin before
    /\ \A i, j \in K : i # j => <<i, j>> \in before \/ <<j, i>> \in before
    /\ \A i, j, k \in K : <<i, j>> \in before /\ <<j, k>> \in before => <<i, k>> \in before

\* Who comes later has more ahead of it.
LEMMA AheadGrows ==
  ASSUME NEW K, IsFiniteSet(K), NEW before, IsOrder(K, before),
         NEW i \in K, NEW j \in K, <<i, j>> \in before
  PROVE  Cardinality(Ahead(K, before, i)) < Cardinality(Ahead(K, before, j))
  <1>1. /\ Ahead(K, before, i) \subseteq Ahead(K, before, j)
        /\ i \in Ahead(K, before, j) /\ i \notin Ahead(K, before, i)
    BY DEF Ahead, IsOrder
  <1>2. IsFiniteSet(Ahead(K, before, j)) /\ IsFiniteSet(Ahead(K, before, i))
    BY FS_Subset DEF Ahead
  <1>3. /\ Cardinality(Ahead(K, before, i)) <= Cardinality(Ahead(K, before, j))
        /\ Cardinality(Ahead(K, before, i)) # Cardinality(Ahead(K, before, j))
    BY <1>1, <1>2, FS_Subset
  <1>4. /\ Cardinality(Ahead(K, before, i)) \in Nat
        /\ Cardinality(Ahead(K, before, j)) \in Nat
    BY <1>2, FS_CardinalityType
  <1>5. QED
    BY <1>3, <1>4

\* Each member has a place of its own, and each place a member.
LEMMA PlacesTaken ==
  ASSUME NEW K, IsFiniteSet(K), NEW before, IsOrder(K, before)
  PROVE  LET place == [i \in K |-> Cardinality(Ahead(K, before, i)) + 1]
         IN  /\ Cardinality(K) \in Nat
             /\ place \in [K -> 1..Cardinality(K)]
             /\ \A i, j \in K : place[i] = place[j] => i = j
             /\ \A k \in 1..Cardinality(K) : \E i \in K : place[i] = k
  <1> DEFINE place == [i \in K |-> Cardinality(Ahead(K, before, i)) + 1]
             n == Cardinality(K)
  <1>1. n \in Nat
    BY FS_CardinalityType
  <1>2. ASSUME NEW i \in K PROVE place[i] \in 1..n
    <2>1. Ahead(K, before, i) \in SUBSET K /\ i \notin Ahead(K, before, i)
      BY DEF Ahead, IsOrder
    <2>2. IsFiniteSet(Ahead(K, before, i)) /\ Cardinality(Ahead(K, before, i)) <= n
          /\ Cardinality(Ahead(K, before, i)) # n
      BY <2>1, FS_Subset
    <2>3. Cardinality(Ahead(K, before, i)) \in Nat
      BY <2>2, FS_CardinalityType
    <2>4. QED
      BY <1>1, <2>2, <2>3
  <1>3. ASSUME NEW i \in K, NEW j \in K, place[i] = place[j] PROVE i = j
    <2>1. /\ IsFiniteSet(Ahead(K, before, i)) /\ IsFiniteSet(Ahead(K, before, j))
      BY FS_Subset DEF Ahead
    <2>2. /\ Cardinality(Ahead(K, before, i)) \in Nat
          /\ Cardinality(Ahead(K, before, j)) \in Nat
      BY <2>1, FS_CardinalityType
    <2>3. Cardinality(Ahead(K, before, i)) = Cardinality(Ahead(K, before, j))
      BY <1>3, <2>2
    <2>4. <<i, j>> \notin before /\ <<j, i>> \notin before
      BY <2>2, <2>3, AheadGrows
    <2>5. QED
      BY <2>4 DEF IsOrder
  <1> HIDE DEF place
  <1>4. place \in [K -> 1..n]
    BY <1>2 DEF place
  <1>5. place \in Injection(K, 1..n)
    BY <1>3, <1>4 DEF Injection, IsInjective
  <1>6. IsFiniteSet(1..n) /\ Cardinality(1..n) = n
    BY <1>1, FS_Interval
  <1>7. place \in Surjection(K, 1..n)
    BY <1>5, <1>6, FS_Injection
  <1>8. \A k \in 1..n : \E i \in K : place[i] = k
    BY <1>7 DEF Surjection
  <1>9. QED
    BY <1>1, <1>3, <1>4, <1>8 DEF place

\* The ranking is a sequence of all members, each once, in the order.
LEMMA RankedInOrder ==
  ASSUME NEW K, IsFiniteSet(K), NEW before, IsOrder(K, before)
  PROVE  LET order == Ranked(K, before)
             n == Cardinality(K)
         IN  /\ n \in Nat
             /\ order \in [1..n -> K]
             /\ \A i \in K : \E k \in 1..n : order[k] = i
             /\ \A a, b \in 1..n : a < b => <<order[a], order[b]>> \in before
             /\ \A a, b \in 1..n : order[a] = order[b] => a = b
  <1> DEFINE order == Ranked(K, before)
             n == Cardinality(K)
             place == [i \in K |-> Cardinality(Ahead(K, before, i)) + 1]
  <1>1. /\ n \in Nat
        /\ place \in [K -> 1..n]
        /\ \A i, j \in K : place[i] = place[j] => i = j
        /\ \A k \in 1..n : \E i \in K : place[i] = k
    BY PlacesTaken
  <1>2. \A i \in K : Cardinality(Ahead(K, before, i)) \in Nat
    BY FS_Subset, FS_CardinalityType DEF Ahead
  <1>3. \A i \in K, k \in 1..n :
            place[i] = k <=> Cardinality(Ahead(K, before, i)) = k - 1
    BY <1>1, <1>2
  <1>4. ASSUME NEW k \in 1..n PROVE order[k] \in K /\ place[order[k]] = k
    <2>1. \E i \in K : Cardinality(Ahead(K, before, i)) = k - 1
      BY <1>1, <1>3
    <2>2. order[k] = CHOOSE i \in K : Cardinality(Ahead(K, before, i)) = k - 1
      BY DEF Ranked
    <2>3. order[k] \in K /\ Cardinality(Ahead(K, before, order[k])) = k - 1
      BY <2>1, <2>2
    <2>4. QED
      BY <1>3, <2>3
  <1>5. order \in [1..n -> K]
    BY <1>4 DEF Ranked
  <1>6. ASSUME NEW i \in K PROVE \E k \in 1..n : order[k] = i
    <2>1. place[i] \in 1..n
      BY <1>1
    <2>2. place[order[place[i]]] = place[i] /\ order[place[i]] \in K
      BY <1>4, <2>1
    <2>3. QED
      BY <1>1, <2>1, <2>2
  <1>7. \A i, j \in K : <<i, j>> \in before => place[i] < place[j]
    BY <1>2, AheadGrows
  <1> HIDE DEF order, place
  <1>8. ASSUME NEW a \in 1..n, NEW b \in 1..n, a < b
        PROVE  <<order[a], order[b]>> \in before
    <2>1. /\ order[a] \in K /\ order[b] \in K
          /\ place[order[a]] = a /\ place[order[b]] = b
      BY <1>4
    <2>2. order[a] # order[b] /\ <<order[b], order[a]>> \notin before
      BY <1>7, <1>8, <2>1
    <2>3. QED
      BY <2>1, <2>2 DEF IsOrder
  <1>9. \A a, b \in 1..n : order[a] = order[b] => a = b
    BY <1>4
  <1>10. QED
    BY <1>1, <1>5, <1>6, <1>8, <1>9 DEF order

LEMMA PositionsOrdered ==
  ASSUME NEW K \in SUBSET Nat
  PROVE  IsOrder(K, ByPosition(K))
  <1>1. \A i \in K : i \in Nat
    OBVIOUS
  <1>2. \A i, j \in K : <<i, j>> \in ByPosition(K) <=> i < j
    BY DEF ByPosition
  <1>3. QED
    BY <1>1, <1>2 DEF IsOrder

\* Some elements of a sequence, in its order.
LEMMA ChosenInOrder ==
  ASSUME NEW R, NEW seq \in Seq(R), NEW K \in SUBSET (DOMAIN seq)
  PROVE  LET chosen == Chosen(seq, K)
         IN  /\ chosen \in Seq(R)
             /\ \E order \in [DOMAIN chosen -> K] :
                   /\ \A k \in DOMAIN chosen : chosen[k] = seq[order[k]]
                   /\ \A a, b \in DOMAIN chosen : a < b => order[a] < order[b]
                   /\ \A i \in K : \E k \in DOMAIN chosen : order[k] = i
  <1> DEFINE n == Cardinality(K)
             order == Ranked(K, ByPosition(K))
             chosen == Chosen(seq, K)
  <1>1. /\ K \in SUBSET Nat /\ IsFiniteSet(K)
        /\ \A i \in K : seq[i] \in R
    <2>1. DOMAIN seq = 1..Len(seq) /\ Len(seq) \in Nat
      OBVIOUS
    <2>2. IsFiniteSet(1..Len(seq))
      BY <2>1, FS_Interval
    <2>3. IsFiniteSet(K)
      BY <2>1, <2>2, FS_Subset
    <2>4. QED
      BY <2>1, <2>3
  <1>2. /\ n \in Nat
        /\ order \in [1..n -> K]
        /\ \A i \in K : \E k \in 1..n : order[k] = i
        /\ \A a, b \in 1..n : a < b => <<order[a], order[b]>> \in ByPosition(K)
    BY <1>1, PositionsOrdered, RankedInOrder
  <1>3. chosen = [k \in 1..n |-> seq[order[k]]]
    BY DEF Chosen
  <1> HIDE DEF n, order, chosen
  <1>4. \A a, b \in 1..n : a < b => order[a] < order[b]
    BY <1>2 DEF ByPosition
  <1>5. DOMAIN chosen = 1..n
    BY <1>3
  <1>6. \A k \in 1..n : chosen[k] = seq[order[k]] /\ seq[order[k]] \in R
    BY <1>1, <1>2, <1>3
  <1>7. chosen \in Seq(R)
    BY <1>2, <1>3, <1>6
  <1>8. \E o \in [DOMAIN chosen -> K] :
            /\ \A k \in DOMAIN chosen : chosen[k] = seq[o[k]]
            /\ \A a, b \in DOMAIN chosen : a < b => o[a] < o[b]
            /\ \A i \in K : \E k \in DOMAIN chosen : o[k] = i
    <2>1. order \in [DOMAIN chosen -> K]
      BY <1>2, <1>5
    <2>2. \A k \in DOMAIN chosen : chosen[k] = seq[order[k]]
      BY <1>5, <1>6
    <2>3. /\ \A a, b \in DOMAIN chosen : a < b => order[a] < order[b]
          /\ \A i \in K : \E k \in DOMAIN chosen : order[k] = i
      BY <1>2, <1>4, <1>5
    <2>4. QED
      BY <2>1, <2>2, <2>3
  <1>9. QED
    BY <1>7, <1>8 DEF chosen

LEMMA FirstIsOne ==
  ASSUME NEW R, NEW seq \in Seq(R), NEW K \in SUBSET (DOMAIN seq), K # {}
  PROVE  FirstOf(seq, K) \in R
  <1>1. K \in SUBSET Nat
    OBVIOUS
  <1>2. \E i \in K : \A j \in K : i <= j
    BY <1>1, LeastExists
  <1>3. QED
    BY <1>2 DEF FirstOf

\* An order of the results in which best is the beginning.
InRanking(order, results, best) ==
    /\ order \in [1..Len(results) -> 1..Len(results)]
    /\ \A k \in DOMAIN best : best[k] = results[order[k]]
    /\ \A a, b \in 1..Len(results) : order[a] = order[b] => a = b
    /\ \A a, b \in 1..Len(results) :
          a < b => results[order[b]].score <= results[order[a]].score
    /\ \A i \in 1..Len(results) : \E k \in 1..Len(results) : order[k] = i

\* The n best of some results: some of them, no two of one place, none worse than
\* one left out.
LEMMA BestOfResults ==
  ASSUME NEW R, \A r \in R : r.score \in Int, NEW results \in Seq(R), NEW n \in Nat
  PROVE  /\ Best(results, n) \in Seq(R)
         /\ Len(Best(results, n)) = Lower(n, Len(results))
         /\ DOMAIN Best(results, n) \subseteq 1..Len(results)
         /\ \E order : InRanking(order, results, Best(results, n))
  <1> DEFINE L == Len(results)
             K == DOMAIN results
             before == ByScore(results)
             order == Ranked(K, before)
  <1>1. K = 1..L /\ L \in Nat /\ \A i \in K : i \in Nat /\ results[i].score \in Int
    OBVIOUS
  <1>2. IsFiniteSet(K) /\ Cardinality(K) = L
    <2>1. IsFiniteSet(1..L) /\ Cardinality(1..L) = IF 1 > L THEN 0 ELSE L - 1 + 1
      BY <1>1, FS_Interval
    <2>2. (IF 1 > L THEN 0 ELSE L - 1 + 1) = L
      BY <1>1
    <2>3. QED
      BY <1>1, <2>1, <2>2
  <1>3. \A i, j \in K : <<i, j>> \in before <=>
            \/ results[i].score > results[j].score
            \/ results[i].score = results[j].score /\ i < j
    BY DEF ByScore
  <1> HIDE DEF before
  <1>4. IsOrder(K, before)
    <2>1. \A i \in K : <<i, i>> \notin before
      BY <1>1, <1>3
    <2>2. \A i, j \in K : i # j => <<i, j>> \in before \/ <<j, i>> \in before
      BY <1>1, <1>3
    <2>3. \A i, j, k \in K : <<i, j>> \in before /\ <<j, k>> \in before => <<i, k>> \in before
      BY <1>1, <1>3
    <2>4. QED
      BY <2>1, <2>2, <2>3 DEF IsOrder
  <1>5. /\ order \in [1..L -> K]
        /\ \A i \in K : \E k \in 1..L : order[k] = i
        /\ \A a, b \in 1..L : a < b => <<order[a], order[b]>> \in before
        /\ \A a, b \in 1..L : order[a] = order[b] => a = b
    BY <1>2, <1>4, RankedInOrder
  <1>6. Best(results, n) = [k \in 1..Lower(n, L) |-> results[order[k]]]
    BY DEF Best, before
  <1> HIDE DEF order, L
  <1>7. ASSUME NEW a \in 1..L, NEW b \in 1..L, a < b
        PROVE  results[order[b]].score <= results[order[a]].score
    <2>1. order[a] \in K /\ order[b] \in K /\ <<order[a], order[b]>> \in before
      BY <1>5, <1>7
    <2>2. results[order[a]].score \in Int /\ results[order[b]].score \in Int
      BY <1>1, <2>1
    <2>3. \/ results[order[a]].score > results[order[b]].score
          \/ results[order[a]].score = results[order[b]].score
      BY <1>3, <2>1
    <2>4. QED
      BY <2>2, <2>3
  <1>8. Lower(n, L) \in Nat /\ Lower(n, L) <= L
    BY <1>1 DEF Lower
  <1>9. \A k \in 1..Lower(n, L) : results[order[k]] \in R
    BY <1>1, <1>5, <1>8
  <1>10. /\ Best(results, n) \in Seq(R) /\ Len(Best(results, n)) = Lower(n, L)
         /\ DOMAIN Best(results, n) = 1..Lower(n, L)
    BY <1>6, <1>8, <1>9
  <1>11. \A k \in DOMAIN Best(results, n) : Best(results, n)[k] = results[order[k]]
    BY <1>6
  <1>12. InRanking(order, results, Best(results, n))
    BY <1>1, <1>5, <1>7, <1>11 DEF InRanking, L
  <1>13. DOMAIN Best(results, n) \subseteq 1..L
    BY <1>1, <1>8, <1>10
  <1>14. QED
    BY <1>10, <1>12, <1>13 DEF L

Scores(via) == [seller : Suppliers, score : Nat, via : {via}]

OneEach(results) ==
    \A i, j \in DOMAIN results : results[i].seller = results[j].seller => i = j

FromTable(results, table, S) ==
    \A i \in DOMAIN results :
        results[i].seller \in S /\ results[i].score = table[results[i].seller]

HasAll(results, S) == \A s \in S : \E i \in DOMAIN results : results[i].seller = s

\* Each supplier of a table of scores is there once, with its score.
LEMMA ScoredOnce ==
  ASSUME NEW S \in SUBSET Suppliers, NEW table \in [S -> Nat], NEW via
  PROVE  LET results == Scored(table, via)
         IN  /\ results \in Seq(Scores(via))
             /\ OneEach(results) /\ FromTable(results, table, S) /\ HasAll(results, S)
  <1> DEFINE n == Cardinality(S)
             sellers == SetToSeq(S)
             results == Scored(table, via)
  <1>1. IsFiniteSet(S)
    BY MatchmakingAssumption, FS_Subset
  <1>2. n \in Nat /\ IsFiniteSet(1..n) /\ Cardinality(1..n) = n
    BY <1>1, FS_CardinalityType, FS_Interval
  <1>3. \E f \in [1..n -> S] : IsInjective(f)
    <2>1. PICK f : f \in Bijection(1..n, S)
      BY <1>1, FS_CardinalityType DEF ExistsBijection
    <2>2. QED
      BY <2>1 DEF Bijection, Injection
  <1>4. sellers \in [1..n -> S] /\ IsInjective(sellers)
    BY <1>3 DEF SetToSeq
  <1> HIDE DEF sellers
  <1>5. sellers \in Surjection(1..n, S)
    BY <1>1, <1>2, <1>4, FS_Injection DEF Injection
  <1>6. results = [i \in 1..n |-> Result(sellers[i], table[sellers[i]], via)]
    BY DEF Scored, sellers
  <1> HIDE DEF results, n
  <1>7. \A i \in 1..n : /\ results[i] \in Scores(via)
                         /\ results[i].seller = sellers[i] /\ sellers[i] \in S
                         /\ results[i].score = table[sellers[i]]
    BY <1>4, <1>6 DEF Result, Scores
  <1>8. results \in Seq(Scores(via)) /\ DOMAIN results = 1..n
    BY <1>2, <1>6, <1>7
  <1>9. OneEach(results)
    BY <1>4, <1>7, <1>8 DEF IsInjective, OneEach
  <1>10. FromTable(results, table, S)
    BY <1>7, <1>8 DEF FromTable
  <1>11. HasAll(results, S)
    <2>1. \A s \in S : \E i \in 1..n : sellers[i] = s
      BY <1>5 DEF Surjection
    <2>2. QED
      BY <1>7, <1>8, <2>1 DEF HasAll
  <1>12. QED
    BY <1>8, <1>9, <1>10, <1>11 DEF results

-----------------------------------------------------------------------------
\* What the searches find: suppliers with a score, each once.

Vias == {"enhanced", "vector", "keyword"}
Finds == [seller : Suppliers, score : Nat \ {0}, via : Vias]

LEMMA BestOneEach ==
  ASSUME NEW R, \A r \in R : r.score \in Int, NEW results \in Seq(R), NEW n \in Nat,
         OneEach(results)
  PROVE  OneEach(Best(results, n))
  <1> DEFINE best == Best(results, n)
  <1>1. PICK order : InRanking(order, results, best)
    BY BestOfResults
  <1>2. DOMAIN best \subseteq 1..Len(results) /\ DOMAIN results = 1..Len(results)
    BY BestOfResults
  <1> HIDE DEF best
  <1>3. SUFFICES ASSUME NEW a \in DOMAIN best, NEW b \in DOMAIN best,
                        best[a].seller = best[b].seller
                 PROVE  a = b
    BY DEF OneEach, best
  <1>4. /\ a \in 1..Len(results) /\ b \in 1..Len(results)
        /\ order[a] \in DOMAIN results /\ order[b] \in DOMAIN results
        /\ results[order[a]].seller = results[order[b]].seller
    BY <1>1, <1>2, <1>3 DEF InRanking
  <1>5. order[a] = order[b]
    BY <1>4 DEF OneEach
  <1>6. QED
    BY <1>1, <1>4, <1>5 DEF InRanking

\* The best of a table of scores.
IsBest(best, table, S, via, n) ==
    /\ best \in Seq(Scores(via))
    /\ OneEach(best) /\ FromTable(best, table, S)
    /\ Len(best) <= n
    /\ Len(best) < n => HasAll(best, S)

LEMMA BestOfTable ==
  ASSUME NEW S \in SUBSET Suppliers, NEW table \in [S -> Nat], NEW via, NEW n \in Nat
  PROVE  IsBest(Best(Scored(table, via), n), table, S, via, n)
  <1> DEFINE R == Scores(via)
             results == Scored(table, via)
             L == Len(results)
             best == Best(results, n)
  <1>1. results \in Seq(R) /\ OneEach(results) /\ FromTable(results, table, S)
        /\ HasAll(results, S)
    BY ScoredOnce
  <1>2. \A r \in R : r.score \in Int
    BY DEF Scores
  <1> HIDE DEF R, results
  <1>3. L \in Nat /\ DOMAIN results = 1..L
    BY <1>1
  <1>4. OneEach(best)
    BY <1>1, <1>2, BestOneEach
  <1>5. PICK order : InRanking(order, results, best)
    BY <1>1, <1>2, BestOfResults
  <1>6. best \in Seq(R) /\ Len(best) = Lower(n, L) /\ DOMAIN best \subseteq 1..L
    BY <1>1, <1>2, BestOfResults
  <1> HIDE DEF best, L
  <1>7. Len(best) <= n
    BY <1>3, <1>6 DEF Lower
  <1>8. \A k \in DOMAIN best : \E i \in DOMAIN results : best[k] = results[i]
    BY <1>3, <1>5, <1>6 DEF InRanking, L
  <1>9. FromTable(best, table, S)
    BY <1>1, <1>8 DEF FromTable
  <1>10. ASSUME Len(best) < n, NEW s \in S
         PROVE  \E k \in DOMAIN best : best[k].seller = s
    <2>1. DOMAIN best = 1..L
      <3>1. Lower(n, L) = L
        BY <1>3, <1>6, <1>10 DEF Lower
      <3>2. QED
        BY <1>6, <3>1
    <2>2. PICK i \in 1..L : results[i].seller = s
      BY <1>1, <1>3 DEF HasAll
    <2>3. PICK k \in 1..L : order[k] = i
      BY <1>5 DEF InRanking, L
    <2>4. best[k] = results[i]
      BY <1>5, <2>1, <2>3 DEF InRanking
    <2>5. QED
      BY <2>1, <2>2, <2>4
  <1>11. QED
    BY <1>4, <1>6, <1>7, <1>9, <1>10 DEF R, results, best, IsBest, HasAll

\* Suppliers with a score, each once.
FoundOnce(results, vias) == results \in Seq(Finds) /\ OneEach(results)
                        /\ \A i \in DOMAIN results : results[i].via \in vias

LEMMA BestAreFound ==
  ASSUME NEW S \in SUBSET Suppliers, NEW table \in [S -> Nat], NEW via \in Vias,
         NEW n \in Nat, NEW best, IsBest(best, table, S, via, n),
         \A s \in S : table[s] > 0
  PROVE  FoundOnce(best, {via})
  <1>1. best \in Seq(Scores(via))
    BY DEF IsBest
  <1>2. \A i \in DOMAIN best : best[i] \in Scores(via) /\ best[i].score > 0
    BY <1>1 DEF IsBest, FromTable
  <1>3. \A i \in DOMAIN best : best[i] \in Finds /\ best[i].via = via
    BY <1>2 DEF Scores, Finds
  <1>4. best \in Seq(Finds)
    BY <1>1, <1>3
  <1>5. QED
    BY <1>3, <1>4 DEF FoundOnce, IsBest

LEMMA FindMatchesFinds ==
  ASSUME NEW seen \in [Suppliers -> Views], NEW n \in Nat
  PROVE  FoundOnce(FindMatches(seen, n), {"vector"})
  <1> DEFINE near == {s \in Suppliers : seen[s].similarity >= MinSemanticScore}
             table == [s \in near |-> seen[s].similarity]
  <1>1. \A s \in near : table[s] \in Nat /\ table[s] > 0
    BY DEF Views, MinSemanticScore
  <1>2. near \in SUBSET Suppliers /\ table \in [near -> Nat]
    BY <1>1
  <1>3. FindMatches(seen, n) = Best(Scored(table, "vector"), n)
    BY DEF FindMatches
  <1> HIDE DEF near, table
  <1>4. IsBest(FindMatches(seen, n), table, near, "vector", n)
    BY <1>2, <1>3, BestOfTable
  <1>5. QED
    BY <1>1, <1>2, <1>4, BestAreFound DEF Vias

\* Scores are numbers, and a supplier that passes the filters has one.
StockTyped == stock \in [Suppliers -> SupplierStock]

LEMMA Floors ==
  ASSUME NEW n \in Nat, NEW d \in Nat \ {0}
  PROVE  /\ n \div d \in Nat
         /\ d * (n \div d) <= n
         /\ n < d * (n \div d) + d
  BY Z3

\* A part of d, in thousandths.
Thousandths(n, d) == (n * 1000) \div d

LEMMA Parts ==
  ASSUME NEW n \in Nat, NEW d \in Nat, n <= d, d # 0
  PROVE  Thousandths(n, d) \in Nat /\ Thousandths(n, d) <= 1000
  <1> DEFINE q == (n * 1000) \div d
  <1>1. n * 1000 \in Nat /\ n * 1000 <= d * 1000
    OBVIOUS
  <1>2. q \in Nat /\ d * q <= n * 1000
    BY <1>1, Floors
  <1> HIDE DEF q
  <1>3. d * q <= d * 1000
    BY <1>1, <1>2
  <1>4. q <= 1000
    <2> SUFFICES ASSUME q >= 1001 PROVE FALSE
      BY <1>2
    <2>1. d * q >= d * 1001
      BY <1>2, Z3
    <2>2. QED
      BY <1>2, <1>3, <2>1
  <1>5. QED
    BY <1>2, <1>4 DEF q, Thousandths

LEMMA ItemTyped ==
  ASSUME StockTyped, NEW s \in Suppliers, NEW v, CatalogueItems(s, v) # {}
  PROVE  SelectBestCatalogueItem(s, v) \in Catalogued
  <1> DEFINE items == stock[s].items
             all == CatalogueItems(s, v)
             coded == {k \in all : v.hsn # NoProduct /\ items[k].hsn = v.hsn}
             named == {k \in all : items[k].product = v.product}
             K == IF coded # {} THEN coded ELSE IF named # {} THEN named ELSE all
  <1>1. items \in Seq(Catalogued)
    BY DEF StockTyped, SupplierStock
  <1>2. K \in SUBSET (DOMAIN items) /\ K # {}
    BY DEF CatalogueItems
  <1>3. SelectBestCatalogueItem(s, v) = FirstOf(items, K)
    BY DEF SelectBestCatalogueItem
  <1> HIDE DEF items, K
  <1>4. QED
    BY <1>1, <1>2, <1>3, FirstIsOne

LEMMA DaysTyped ==
  ASSUME NEW lead \in Nat, NEW km \in Int
  PROVE  ComputeTotalDeliveryDays(lead, km) \in Nat
  <1> DEFINE within == {b \in DOMAIN TransitBands : km <= TransitBands[b].km}
             Band == [km : Nat, days : Nat]
  <1>1. TransitBands \in Seq(Band)
    BY DEF TransitBands
  <1>2. within \in SUBSET (DOMAIN TransitBands)
    OBVIOUS
  <1>3. \A b \in Band : b.days \in Nat
    OBVIOUS
  <1>4. EstimateTransitDays(km) = IF within = {} THEN LongestTransit
                                  ELSE FirstOf(TransitBands, within).days
    BY DEF EstimateTransitDays
  <1> HIDE DEF within, Band
  <1>5. EstimateTransitDays(km) \in Nat
    BY <1>1, <1>2, <1>3, <1>4, FirstIsOne DEF LongestTransit
  <1>6. QED
    BY <1>5 DEF ComputeTotalDeliveryDays, BufferDays

LEMMA PriceScoreTyped ==
  ASSUME NEW item, item.price \in Nat, NEW v, v.min \in Nat, v.max \in Nat
  PROVE  PriceScore(item, v) \in Nat
  <1> DEFINE mid == (v.min + v.max) \div 2
             gap == Gap(item.price, mid)
  <1>1. mid \in Nat
    OBVIOUS
  <1>2. gap \in Nat
    BY <1>1 DEF Gap, Upper, Lower
  <1>3. PriceScore(item, v) = IF v.min = Absent \/ v.max = Absent \/ mid = 0 THEN 500
                              ELSE Upper(0, 1000 - (gap * 1000) \div mid)
    BY DEF PriceScore
  <1> HIDE DEF mid, gap
  <1>4. ASSUME mid # 0 PROVE Upper(0, 1000 - (gap * 1000) \div mid) \in Nat
    <2>1. gap * 1000 \in Nat /\ mid \in Nat \ {0}
      BY <1>1, <1>2, <1>4
    <2>2. (gap * 1000) \div mid \in Nat
      BY <2>1, Floors
    <2>3. QED
      BY <2>2 DEF Upper
  <1>5. QED
    BY <1>3, <1>4

LEMMA CompositeScoreTyped ==
  ASSUME StockTyped, NEW s \in Suppliers, NEW v \in ParsedFields, NEW view \in Views,
         PassesHardFilters(s, v, view)
  PROVE  CompositeScore(s, v, view) \in Nat \ {0}
  <1> DEFINE item == SelectBestCatalogueItem(s, v)
             checked == ChecksDelivery(s, v)
             km == stock[s].km
             days == ComputeTotalDeliveryDays(item.lead, km)
             delivery == IF checked THEN 1000 - (days * 1000) \div v.window ELSE 1000
             proximity == IF checked THEN Upper(0, 1000 - (km * 1000) \div 2500) ELSE 500
             price == PriceScore(item, v)
  <1>1. v.min \in Nat /\ v.max \in Nat /\ v.window \in Nat /\ view.similarity \in Nat
    BY DEF ParsedFields, Views
  <1>2. item \in Catalogued
    BY ItemTyped DEF PassesHardFilters
  <1>3. item.lead \in Nat /\ item.price \in Nat
    BY <1>2 DEF Catalogued
  <1>4. km \in Int
    BY DEF StockTyped, SupplierStock
  <1>5. days \in Nat
    BY <1>3, <1>4, DaysTyped
  <1>6. checked => v.window # 0 /\ km >= 0 /\ days <= v.window
    BY DEF PassesHardFilters, CheckFeasibility, ChecksDelivery, Absent
  <1>7. CompositeScore(s, v, view)
          = (25 * view.similarity + 20 * delivery + 15 * 1000 + 15 * price + 10 * proximity
             + 10 * 500 + 5 * 1000) \div 100
    BY DEF CompositeScore
  <1>8. price \in Nat
    BY <1>1, <1>3, PriceScoreTyped
  <1> HIDE DEF item, checked, km, days, price
  <1>9. delivery \in Nat
    <2>1. CASE checked
      <3>1. days \in Nat /\ v.window \in Nat /\ days <= v.window /\ v.window # 0
        BY <1>1, <1>5, <1>6, <2>1
      <3>2. Thousandths(days, v.window) \in Nat /\ Thousandths(days, v.window) <= 1000
        BY <3>1, Parts
      <3>3. delivery = 1000 - Thousandths(days, v.window)
        BY <2>1 DEF Thousandths
      <3>4. QED
        BY <3>2, <3>3
    <2>2. QED
      BY <2>1
  <1>10. proximity \in Nat
    <2>1. CASE checked
      <3>1. km * 1000 \in Nat
        BY <1>4, <1>6, <2>1
      <3>2. (km * 1000) \div 2500 \in Nat
        BY <3>1, Floors
      <3>3. QED
        BY <2>1, <3>2 DEF Upper
    <2>2. QED
      BY <2>1
  <1> HIDE DEF delivery, proximity
  <1> DEFINE sum == 25 * view.similarity + 20 * delivery + 15 * 1000 + 15 * price
                    + 10 * proximity + 10 * 500 + 5 * 1000
  <1>11. sum \in Nat /\ sum >= 100
    BY <1>1, <1>8, <1>9, <1>10
  <1> HIDE DEF sum
  <1>12. sum \div 100 \in Nat \ {0}
    BY <1>11
  <1>13. QED
    BY <1>7, <1>12 DEF sum

LEMMA KeywordScoreTyped ==
  ASSUME StockTyped, NEW s \in Suppliers, NEW v \in ParsedFields, NEW view \in Views
  PROVE  KeywordScore(s, v, view) \in Nat
  <1>1. v.min \in Nat /\ v.max \in Nat
    BY DEF ParsedFields
  <1>2. view.related \in Nat /\ view.words \in Nat /\ view.geography \in Nat
    BY DEF Views
  <1>3. stock[s].mostOrder \in Nat /\ stock[s].leastOrder \in Nat
    BY DEF StockTyped, SupplierStock
  <1>4. ScoreCommodity(view) \in Nat
    BY <1>2 DEF ScoreCommodity, Lower
  <1>5. ValueScore(s, v) \in Nat
    <2> DEFINE top == IF v.max = Absent THEN Unbounded ELSE v.max
               most == IF stock[s].mostOrder = Absent THEN Unbounded ELSE stock[s].mostOrder
               low == Upper(v.min, stock[s].leastOrder)
               high == Lower(top, most)
               part == ((high - low) * 1000) \div Upper(top - v.min, 1)
    <2>1. top \in Nat /\ most \in Nat
      BY <1>1, <1>3 DEF Unbounded
    <2>2. low \in Nat /\ high \in Nat /\ Upper(top - v.min, 1) \in Nat \ {0}
      BY <1>1, <1>3, <2>1 DEF Lower, Upper
    <2>3. ValueScore(s, v) =
            IF v.min = Absent /\ v.max = Absent THEN 0
            ELSE IF v.min > most \/ top < stock[s].leastOrder THEN 0
            ELSE IF high <= low THEN 500
            ELSE Lower(1000, part)
      BY DEF ValueScore
    <2> HIDE DEF low, high, top, most
    <2>4. high > low => (high - low) * 1000 \in Nat
      BY <2>2
    <2>5. high > low => part \in Nat
      BY <2>2, <2>4, Floors
    <2> HIDE DEF part
    <2>6. high > low => Lower(1000, part) \in Nat
      BY <2>5 DEF Lower
    <2>7. high <= low \/ high > low
      BY <2>2
    <2>8. QED
      BY <2>3, <2>6, <2>7
  <1> DEFINE sum == 5 * ScoreCommodity(view) + 3 * view.geography + 2 * ValueScore(s, v)
  <1>6. sum \in Nat
    BY <1>2, <1>4, <1>5
  <1> HIDE DEF sum
  <1>7. sum \div 10 \in Nat
    BY <1>6
  <1>8. KeywordScore(s, v, view) = Lower(1000, sum \div 10)
    BY DEF KeywordScore, sum
  <1>9. QED
    BY <1>7, <1>8 DEF Lower

LEMMA KeywordFinds ==
  ASSUME StockTyped, NEW v \in ParsedFields, NEW seen \in [Suppliers -> Views]
  PROVE  FoundOnce(KeywordMatches(v, seen), {"keyword"})
  <1> DEFINE hit == {s \in Suppliers : ScoreCommodity(seen[s]) > 0
                                       /\ KeywordScore(s, v, seen[s]) >= 150}
             table == [s \in hit |-> KeywordScore(s, v, seen[s])]
  <1>1. \A s \in hit : table[s] \in Nat /\ table[s] > 0
    <2>1. ASSUME NEW s \in hit PROVE table[s] \in Nat /\ table[s] > 0
      <3>1. seen[s] \in Views /\ s \in Suppliers
        OBVIOUS
      <3>2. KeywordScore(s, v, seen[s]) \in Nat
        BY <3>1, KeywordScoreTyped
      <3>3. QED
        BY <3>2
    <2>2. QED
      BY <2>1
  <1>2. hit \in SUBSET Suppliers /\ table \in [hit -> Nat]
    BY <1>1
  <1>3. KeywordMatches(v, seen) = Best(Scored(table, "keyword"), TopN)
    BY DEF KeywordMatches
  <1> HIDE DEF hit, table
  <1>4. IsBest(KeywordMatches(v, seen), table, hit, "keyword", TopN)
    BY <1>2, <1>3, BestOfTable, MatchmakingAssumption
  <1>5. QED
    BY <1>1, <1>2, <1>4, BestAreFound, MatchmakingAssumption DEF Vias

\* The results that are chosen are still one of each seller.
LEMMA ChosenOneEach ==
  ASSUME NEW R, NEW results \in Seq(R), NEW K \in SUBSET (DOMAIN results), OneEach(results)
  PROVE  /\ Chosen(results, K) \in Seq(R)
         /\ OneEach(Chosen(results, K))
         /\ \A k \in DOMAIN Chosen(results, K) : \E i \in K : Chosen(results, K)[k] = results[i]
  <1> DEFINE chosen == Chosen(results, K)
  <1>1. chosen \in Seq(R)
    BY ChosenInOrder
  <1>2. PICK order \in [DOMAIN chosen -> K] :
            /\ \A k \in DOMAIN chosen : chosen[k] = results[order[k]]
            /\ \A a, b \in DOMAIN chosen : a < b => order[a] < order[b]
    BY ChosenInOrder
  <1> HIDE DEF chosen
  <1>3. \A k \in DOMAIN chosen : k \in Nat /\ order[k] \in K /\ order[k] \in Nat
    BY <1>1, <1>2
  <1>4. \A a, b \in DOMAIN chosen : order[a] = order[b] => a = b
    BY <1>2, <1>3
  <1>5. ASSUME NEW a \in DOMAIN chosen, NEW b \in DOMAIN chosen,
               chosen[a].seller = chosen[b].seller
        PROVE  a = b
    <2>1. results[order[a]].seller = results[order[b]].seller
      BY <1>2, <1>5
    <2>2. order[a] = order[b]
      BY <1>3, <2>1 DEF OneEach
    <2>3. QED
      BY <1>4, <2>2
  <1>6. QED
    BY <1>1, <1>2, <1>3, <1>5 DEF OneEach, chosen

LEMMA EnhancedFinds ==
  ASSUME StockTyped, NEW v \in ParsedFields, NEW seen \in [Suppliers -> Views]
  PROVE  FoundOnce(FindEnhancedMatches(v, seen), {"enhanced"})
  <1> DEFINE R == [seller : Suppliers, score : Nat \ {0}, via : {"enhanced"}]
             near == FindMatches(seen, 3 * TopN)
             K == {i \in DOMAIN near :
                      PassesHardFilters(near[i].seller, v, seen[near[i].seller])}
             passed == Chosen(near, K)
             all == [i \in DOMAIN passed |->
                        Result(passed[i].seller,
                               CompositeScore(passed[i].seller, v, seen[passed[i].seller]),
                               "enhanced")]
  <1>1. TopN \in Nat /\ 3 * TopN \in Nat
    BY MatchmakingAssumption
  <1>2. near \in Seq(Finds) /\ OneEach(near)
    BY <1>1, FindMatchesFinds DEF FoundOnce
  <1>3. FindEnhancedMatches(v, seen) = Best(all, TopN)
    BY DEF FindEnhancedMatches
  <1> HIDE DEF near
  <1>4. K \in SUBSET (DOMAIN near)
        /\ \A i \in K : PassesHardFilters(near[i].seller, v, seen[near[i].seller])
    OBVIOUS
  <1> HIDE DEF K
  <1>5. /\ passed \in Seq(Finds) /\ OneEach(passed)
        /\ \A k \in DOMAIN passed : \E i \in K : passed[k] = near[i]
    BY <1>2, <1>4, ChosenOneEach
  <1> HIDE DEF passed
  <1>6. \A k \in DOMAIN passed : /\ passed[k].seller \in Suppliers
                                 /\ PassesHardFilters(passed[k].seller, v, seen[passed[k].seller])
    <2>1. \A k \in DOMAIN passed : passed[k] \in Finds
      BY <1>5
    <2>2. \A k \in DOMAIN passed : passed[k].seller \in Suppliers
      BY <2>1 DEF Finds
    <2>3. QED
      BY <1>4, <1>5, <2>2
  <1>7. \A k \in DOMAIN passed : all[k] \in R /\ all[k].seller = passed[k].seller
    <2>1. ASSUME NEW k \in DOMAIN passed
          PROVE  CompositeScore(passed[k].seller, v, seen[passed[k].seller]) \in Nat \ {0}
      <3>1. seen[passed[k].seller] \in Views
        BY <1>6
      <3>2. QED
        BY <1>6, <3>1, CompositeScoreTyped
    <2>2. QED
      BY <1>6, <2>1 DEF Result
  <1>8. all \in Seq(R) /\ DOMAIN all = DOMAIN passed
    <2>1. DOMAIN passed = 1..Len(passed) /\ Len(passed) \in Nat
      BY <1>5
    <2>2. QED
      BY <1>7, <2>1
  <1>9. OneEach(all)
    BY <1>5, <1>7, <1>8 DEF OneEach
  <1>10. \A r \in R : r.score \in Int /\ r \in Finds /\ r.via = "enhanced"
    BY DEF Finds, Vias
  <1> HIDE DEF all, R
  <1>11. Best(all, TopN) \in Seq(R) /\ OneEach(Best(all, TopN))
    BY <1>1, <1>8, <1>9, <1>10, BestOfResults, BestOneEach
  <1>12. Best(all, TopN) \in Seq(Finds)
         /\ \A i \in DOMAIN Best(all, TopN) : Best(all, TopN)[i].via = "enhanced"
    BY <1>10, <1>11
  <1>13. QED
    BY <1>3, <1>11, <1>12 DEF FoundOnce

-----------------------------------------------------------------------------
\* The variants are fields again.

LEMMA NormalizeTyped ==
  ASSUME NEW f \in ParsedFields
  PROVE  /\ NormalizeBudget(f) \in ParsedFields
         /\ Category(f) \in Names
         /\ Normalize(f) \in ParsedFields
  <1>1. f.max \in Nat /\ f.min \in Nat /\ f.perUnit \in Nat /\ f.perUnitMin \in Nat
        /\ f.quantity \in Nat /\ f.category \in Names /\ f.product \in Products
    BY DEF ParsedFields
  <1>2. f.perUnit * f.quantity \in Nat /\ f.perUnitMin * f.quantity \in Nat
    BY <1>1
  <1>3. MinShare(f.perUnit * f.quantity) \in Nat
    <2> DEFINE total == f.perUnit * f.quantity
    <2>1. total * 80 \in Nat
      BY <1>2
    <2> HIDE DEF total
    <2>2. (total * 80) \div 100 \in Nat
      BY <2>1, Floors
    <2>3. QED
      BY <2>2 DEF MinShare, total
  <1>4. Category(f) \in Names
    BY <1>1 DEF Category, Names
  <1>5. ASSUME NEW total \in Nat, NEW least \in Nat
        PROVE  [f EXCEPT !.max = total, !.min = least] \in ParsedFields
    BY DEF ParsedFields
  <1>6. NormalizeBudget(f) \in ParsedFields
    <2> DEFINE total == f.perUnit * f.quantity
               least == IF f.perUnitMin # Absent THEN f.perUnitMin * f.quantity
                        ELSE IF f.min # Absent THEN f.min ELSE MinShare(total)
    <2>1. total \in Nat /\ least \in Nat
      BY <1>1, <1>2, <1>3
    <2>2. NormalizeBudget(f) = IF f.perUnit = Absent \/ f.quantity = Absent THEN f
                               ELSE [f EXCEPT !.max = total, !.min = least]
      BY DEF NormalizeBudget, ParsedFields
    <2> HIDE DEF total, least
    <2>3. QED
      BY <1>5, <2>1, <2>2
  <1>7. [NormalizeBudget(f) EXCEPT !.category = Category(f)] \in ParsedFields
    BY <1>4, <1>6 DEF ParsedFields
  <1>8. QED
    BY <1>4, <1>6, <1>7 DEF Normalize

LEMMA KnownTyped ==
  ASSUME NEW parsed \in ParsedFields
  PROVE  KnownBudget(parsed) \in Nat
  <1> DEFINE all == (DOMAIN parsed.items) \X (1..parsed.max)
             taken == {x \in all : x[2] <= parsed.items[x[1]].total}
  <1>1. parsed.items \in Seq(Lines) /\ parsed.max \in Nat
    BY DEF ParsedFields
  <1>2. IsFiniteSet(DOMAIN parsed.items) /\ IsFiniteSet(1..parsed.max)
    <2>1. DOMAIN parsed.items = 1..Len(parsed.items) /\ Len(parsed.items) \in Int
          /\ 1 \in Int /\ parsed.max \in Int
      BY <1>1
    <2>2. QED
      BY <2>1, FS_Interval
  <1>3. IsFiniteSet(all)
    BY <1>2, FS_Product
  <1>4. taken \in SUBSET all
    OBVIOUS
  <1> HIDE DEF all, taken
  <1>5. Cardinality(taken) \in Nat
    BY <1>3, <1>4, FS_Subset, FS_CardinalityType
  <1>6. QED
    BY <1>5 DEF KnownBudget, all, taken

LEMMA VariantsTyped ==
  ASSUME NEW parsed \in ParsedFields
  PROVE  BuildParsedVariants(parsed) \in Seq(ParsedFields)
  <1> DEFINE bares == {k \in DOMAIN parsed.items :
                    parsed.items[k].total = Absent /\ parsed.items[k].perUnit = Absent}
             bare == Cardinality(bares)
             known == KnownBudget(parsed)
             share == IF parsed.max > known /\ bare > 0 THEN (parsed.max - known) \div bare
                      ELSE Absent
             Line(i) == [parsed EXCEPT !.product = i.product, !.items = <<>>,
                                       !.category = Category(i),
                                       !.hsn = IF i.hsn = NoProduct THEN @ ELSE i.hsn,
                                       !.quantity = IF i.quantity = Absent THEN @ ELSE i.quantity]
             Budgeted(i, total) == [Line(i) EXCEPT !.max = total, !.min = MinShare(total)]
             Variant(i) == IF i.total # Absent THEN Budgeted(i, i.total)
                           ELSE IF i.perUnit # Absent /\ i.quantity # Absent
                           THEN NormalizeBudget([Line(i) EXCEPT !.perUnit = i.perUnit])
                           ELSE IF share # Absent THEN Budgeted(i, share)
                           ELSE Line(i)
  <1>1. /\ parsed.items \in Seq(Lines) /\ parsed.max \in Nat
        /\ DOMAIN parsed.items = 1..Len(parsed.items) /\ Len(parsed.items) \in Nat
    BY DEF ParsedFields
  <1>2. bare \in Nat
    <2>1. bares \in SUBSET (1..Len(parsed.items))
      BY <1>1
    <2> HIDE DEF bares
    <2>2. IsFiniteSet(1..Len(parsed.items))
      BY <1>1, FS_Interval
    <2>3. IsFiniteSet(bares)
      BY <2>1, <2>2, FS_Subset
    <2>4. QED
      BY <2>3, FS_CardinalityType
  <1>3. known \in Nat
    BY KnownTyped
  <1> HIDE DEF bare, known
  <1>4. share \in Nat
    <2>1. parsed.max > known => parsed.max - known \in Nat
      BY <1>1, <1>3
    <2>2. parsed.max > known /\ bare > 0 => (parsed.max - known) \div bare \in Nat
      BY <1>2, <2>1, Floors
    <2>3. QED
      BY <2>2 DEF Absent
  <1> HIDE DEF share
  <1>5. ASSUME NEW i \in Lines PROVE Line(i) \in ParsedFields
    <2>1. Category(i) \in Names
      BY DEF Category, Lines, Names
    <2>2. <<>> \in Seq(Lines)
      OBVIOUS
    <2>3. QED
      BY <2>1, <2>2 DEF ParsedFields, Lines
  <1> HIDE DEF Line
  <1>6. ASSUME NEW i \in Lines, NEW total \in Nat PROVE Budgeted(i, total) \in ParsedFields
    <2>1. MinShare(total) \in Nat
      <3>1. total * 80 \in Nat
        OBVIOUS
      <3>2. QED
        BY <3>1, Floors DEF MinShare
    <2>2. QED
      BY <1>5, <2>1 DEF ParsedFields
  <1>7. ASSUME NEW i \in Lines
        PROVE  NormalizeBudget([Line(i) EXCEPT !.perUnit = i.perUnit]) \in ParsedFields
    <2>1. [Line(i) EXCEPT !.perUnit = i.perUnit] \in ParsedFields
      BY <1>5 DEF ParsedFields, Lines
    <2>2. QED
      BY <2>1, NormalizeTyped
  <1> HIDE DEF Budgeted
  <1>8. ASSUME NEW i \in Lines PROVE Variant(i) \in ParsedFields
    <2>1. i.total \in Nat
      BY DEF Lines
    <2>2. QED
      BY <1>4, <1>5, <1>6, <1>7, <2>1
  <1> HIDE DEF Variant
  <1>9. [k \in DOMAIN parsed.items |-> Variant(parsed.items[k])] \in Seq(ParsedFields)
    BY <1>1, <1>8
  <1>10. <<parsed>> \o [k \in DOMAIN parsed.items |-> Variant(parsed.items[k])]
            \in Seq(ParsedFields)
    BY <1>9
  <1>11. BuildParsedVariants(parsed)
           = <<parsed>> \o [k \in DOMAIN parsed.items |-> Variant(parsed.items[k])]
    BY DEF BuildParsedVariants, Variant, Budgeted, Line, share, known, bare
  <1>12. QED
    BY <1>10, <1>11

-----------------------------------------------------------------------------
\* The best score of each supplier so far, among what the searches found.

Tables == [Suppliers -> [score : Nat, variant : Nat]]

SoFar(best, pool) ==
    \A s \in Suppliers :
        /\ \A r \in pool : r.seller = s => r.score <= best[s].score
        /\ best[s].score > 0 => \E r \in pool : r.seller = s /\ r.score = best[s].score

LEMMA MergedSoFar ==
  ASSUME NEW best \in Tables, NEW pool \in SUBSET Finds, SoFar(best, pool),
         NEW vias, NEW found, FoundOnce(found, vias), NEW v \in Nat
  PROVE  /\ Merged(best, found, v) \in Tables
         /\ SoFar(Merged(best, found, v), pool \cup ToSet(found))
  <1> DEFINE S == ToSet(found)
             Of(s) == CHOOSE r \in S : r.seller = s
             next == Merged(best, found, v)
  <1>1. /\ S \in SUBSET Finds
        /\ \A i \in DOMAIN found : found[i] \in S
        /\ \A r \in S : \E i \in DOMAIN found : found[i] = r
    BY DEF FoundOnce, ToSet
  <1>2. \A r, q \in S : r.seller = q.seller => r = q
    <2>1. \A i, j \in DOMAIN found : found[i].seller = found[j].seller => i = j
      BY DEF FoundOnce, OneEach
    <2> HIDE DEF S
    <2>2. SUFFICES ASSUME NEW r \in S, NEW q \in S, r.seller = q.seller
                   PROVE  r = q
      OBVIOUS
    <2>3. PICK i \in DOMAIN found : found[i] = r
      BY <1>1
    <2>4. PICK j \in DOMAIN found : found[j] = q
      BY <1>1
    <2>5. i = j
      BY <2>1, <2>2, <2>3, <2>4
    <2>6. QED
      BY <2>3, <2>4, <2>5
  <1>3. \A r \in Finds : r.score \in Nat \ {0} /\ r.seller \in Suppliers
    BY DEF Finds
  <1> HIDE DEF S
  <1>4. ASSUME NEW r \in S PROVE Of(r.seller) = r
    BY <1>2
  <1>5. \A s \in Suppliers : s \in BetterThan(best, found) <=>
            \E r \in S : r.seller = s /\ r.score > best[s].score
    BY <1>1 DEF BetterThan
  <1>6. \A s \in Suppliers :
            next[s] = IF s \in BetterThan(best, found) THEN [score |-> Of(s).score, variant |-> v]
                      ELSE best[s]
    BY DEF Merged, S
  <1>7. \A s \in Suppliers : best[s].score \in Nat /\ best[s] \in [score : Nat, variant : Nat]
    BY DEF Tables
  <1> HIDE DEF Of
  <1>8. ASSUME NEW s \in Suppliers
        PROVE  /\ next[s] \in [score : Nat, variant : Nat]
               /\ best[s].score <= next[s].score
               /\ \A r \in S : r.seller = s => r.score <= next[s].score
               /\ \/ next[s].score = best[s].score
                  \/ \E r \in S : r.seller = s /\ r.score = next[s].score
    <2>1. CASE s \in BetterThan(best, found)
      <3>1. PICK r \in S : r.seller = s /\ r.score > best[s].score
        BY <1>5, <2>1
      <3>2. Of(s) = r
        BY <1>4, <3>1
      <3>3. next[s] = [score |-> r.score, variant |-> v] /\ r.score \in Nat
        BY <1>1, <1>3, <1>6, <2>1, <3>2
      <3>4. \A q \in S : q.seller = s => q = r
        BY <1>2, <3>1
      <3>5. next[s].score = r.score
        BY <3>3
      <3>6. QED
        BY <1>7, <3>1, <3>3, <3>4, <3>5
    <2>2. CASE s \notin BetterThan(best, found)
      <3>1. next[s] = best[s]
        BY <1>6, <2>2
      <3>2. \A r \in S : r.seller = s => ~(r.score > best[s].score)
        BY <1>5, <2>2
      <3>3. \A r \in S : r.score \in Nat
        BY <1>1, <1>3
      <3>4. QED
        BY <1>7, <3>1, <3>2, <3>3
    <2>3. QED
      BY <2>1, <2>2
  <1>9. next \in Tables
    BY <1>8 DEF Merged, Tables
  <1> HIDE DEF next
  <1>10. ASSUME NEW s \in Suppliers
         PROVE  /\ \A r \in pool \cup S : r.seller = s => r.score <= next[s].score
                /\ next[s].score > 0 =>
                      \E r \in pool \cup S : r.seller = s /\ r.score = next[s].score
    <2>1. /\ \A r \in pool : r.seller = s => r.score <= best[s].score
          /\ best[s].score > 0 => \E r \in pool : r.seller = s /\ r.score = best[s].score
      BY DEF SoFar
    <2>2. \A r \in pool : r.score \in Nat
      BY <1>3
    <2>3. best[s].score \in Nat /\ next[s].score \in Nat
      BY <1>7, <1>8
    <2>4. \A r \in pool : r.seller = s => r.score <= next[s].score
      BY <1>8, <2>1, <2>2, <2>3
    <2>5. QED
      BY <1>8, <2>1, <2>4
  <1>11. SoFar(next, pool \cup S)
    BY <1>10 DEF SoFar
  <1>12. QED
    BY <1>9, <1>11 DEF next, S

\* What a search leaves of a table when it finds nobody.
LEMMA NobodyFound ==
  ASSUME NEW vias
  PROVE  FoundOnce(<<>>, vias)
  BY DEF FoundOnce, OneEach

LEMMA FoundAppended ==
  ASSUME NEW R, NEW a \in Seq(R), NEW b \in Seq(R)
  PROVE  a \o b \in Seq(R) /\ ToSet(a \o b) = ToSet(a) \cup ToSet(b)
  <1>1. /\ a \o b \in Seq(R)
        /\ DOMAIN (a \o b) = 1..(Len(a) + Len(b))
        /\ DOMAIN a = 1..Len(a) /\ DOMAIN b = 1..Len(b)
        /\ Len(a) \in Nat /\ Len(b) \in Nat
    OBVIOUS
  <1>2. \A i \in DOMAIN a : i \in DOMAIN (a \o b) /\ (a \o b)[i] = a[i]
    BY <1>1
  <1>3. \A i \in DOMAIN b : Len(a) + i \in DOMAIN (a \o b) /\ (a \o b)[Len(a) + i] = b[i]
    BY <1>1
  <1>4. \A i \in DOMAIN (a \o b) :
            \/ i \in DOMAIN a /\ (a \o b)[i] = a[i]
            \/ i - Len(a) \in DOMAIN b /\ (a \o b)[i] = b[i - Len(a)]
    BY <1>1
  <1> DEFINE c == a \o b
  <1> HIDE DEF c
  <1>5. ASSUME NEW x PROVE x \in ToSet(c) <=> x \in ToSet(a) \/ x \in ToSet(b)
    <2>1. \A i \in DOMAIN a : a[i] \in ToSet(c)
      BY <1>2 DEF ToSet, c
    <2>2. \A i \in DOMAIN b : b[i] \in ToSet(c)
      BY <1>3 DEF ToSet, c
    <2>3. \A i \in DOMAIN c : c[i] \in ToSet(a) \/ c[i] \in ToSet(b)
      BY <1>4 DEF ToSet, c
    <2>4. QED
      BY <2>1, <2>2, <2>3 DEF ToSet
  <1>6. QED
    BY <1>1, <1>5 DEF c

SearchTyped == search \in [next : Nat, enhanced : Tables, raw : Tables,
                           variant : [Suppliers -> Nat], product : [Products -> Seq(Finds)]]

\* What the searches found, and the tables they leave.
SearchInv ==
    /\ variants \in Seq(ParsedFields)
    /\ StockTyped
    /\ SearchTyped
    /\ SoFar(search.enhanced, FoundBy("enhanced"))
    /\ SoFar(search.raw, FoundBy("raw"))

LEMMA InFoundBy ==
  ASSUME NEW kind, NEW r
  PROVE  r \in FoundBy(kind) <=>
            /\ \E p \in Products : r \in ToSet(search.product[p])
            /\ (r.via = "enhanced") = (kind = "enhanced")
  BY DEF FoundBy, FoundFor

LEMMA FoundByTyped ==
  ASSUME SearchTyped, NEW kind
  PROVE  FoundBy(kind) \in SUBSET Finds
  <1>1. \A p \in Products : search.product[p] \in Seq(Finds)
    BY DEF SearchTyped
  <1>2. \A p \in Products : ToSet(search.product[p]) \subseteq Finds
    BY <1>1 DEF ToSet
  <1>3. QED
    BY <1>2, InFoundBy

\* A search finds nobody by one kind of score, or nobody by the other.
LEMMA SearchFinds ==
  ASSUME SearchInv, NEW seen \in [Suppliers -> Sightings], search.next \in DOMAIN variants
  PROVE  LET v == variants[search.next]
             enhanced == IF HasDeliveryData(v) THEN FindEnhancedMatches(v, seen) ELSE <<>>
             vector == IF HasDeliveryData(v) THEN <<>> ELSE FindMatches(seen, TopN)
             raw == IF enhanced # <<>> THEN <<>>
                    ELSE IF vector # <<>> THEN vector ELSE KeywordMatches(v, seen)
         IN  /\ v \in ParsedFields
             /\ FoundOnce(enhanced, {"enhanced"}) /\ FoundOnce(raw, {"vector", "keyword"})
  <1> DEFINE v == variants[search.next]
             enhanced == IF HasDeliveryData(v) THEN FindEnhancedMatches(v, seen) ELSE <<>>
             vector == IF HasDeliveryData(v) THEN <<>> ELSE FindMatches(seen, TopN)
             raw == IF enhanced # <<>> THEN <<>>
                    ELSE IF vector # <<>> THEN vector ELSE KeywordMatches(v, seen)
             vias == {"vector", "keyword"}
  <1>1. v \in ParsedFields
    BY DEF SearchInv
  <1>2. seen \in [Suppliers -> Views]
    BY InputsAssumption
  <1>3. StockTyped /\ TopN \in Nat
    BY MatchmakingAssumption DEF SearchInv
  <1> HIDE DEF v
  <1>4. FoundOnce(enhanced, {"enhanced"})
    BY <1>1, <1>2, <1>3, EnhancedFinds, NobodyFound
  <1>5. FoundOnce(vector, vias)
    <2>1. FoundOnce(FindMatches(seen, TopN), {"vector"})
      BY <1>2, <1>3, FindMatchesFinds
    <2>2. FoundOnce(FindMatches(seen, TopN), vias)
      BY <2>1 DEF FoundOnce
    <2>3. QED
      BY <2>2, NobodyFound
  <1>6. FoundOnce(KeywordMatches(v, seen), vias)
    <2>1. FoundOnce(KeywordMatches(v, seen), {"keyword"})
      BY <1>1, <1>2, <1>3, KeywordFinds
    <2>2. QED
      BY <2>1 DEF FoundOnce
  <1> HIDE DEF enhanced, vector
  <1>7. FoundOnce(raw, vias)
    BY <1>5, <1>6, NobodyFound
  <1> HIDE DEF raw
  <1>8. QED
    BY <1>1, <1>4, <1>7 DEF v, enhanced, vector, raw

LEMMA SearchKeepsInv ==
  ASSUME SearchInv, SearchVariant
  PROVE  SearchInv'
  <1>1. PICK seen \in [Suppliers -> Sightings] :
            LET v == variants[search.next]
                enhanced == IF HasDeliveryData(v) THEN FindEnhancedMatches(v, seen) ELSE <<>>
                vector == IF HasDeliveryData(v) THEN <<>> ELSE FindMatches(seen, TopN)
                raw == IF enhanced # <<>> THEN <<>>
                       ELSE IF vector # <<>> THEN vector ELSE KeywordMatches(v, seen)
                improved == BetterThan(search.enhanced, enhanced)
                            \cup BetterThan(search.raw, raw)
            IN  search' = [search EXCEPT
                    !.next = @ + 1,
                    !.enhanced = Merged(@, enhanced, search.next),
                    !.raw = Merged(@, raw, search.next),
                    !.variant = [s \in Suppliers |->
                                    IF s \in improved THEN search.next ELSE @[s]],
                    !.product[v.product] = @ \o enhanced \o raw]
    BY DEF SearchVariant
  <1>2. search.next \in DOMAIN variants /\ variants' = variants /\ stock' = stock
    BY DEF SearchVariant
  <1> DEFINE v == variants[search.next]
             enhanced == IF HasDeliveryData(v) THEN FindEnhancedMatches(v, seen) ELSE <<>>
             vector == IF HasDeliveryData(v) THEN <<>> ELSE FindMatches(seen, TopN)
             raw == IF enhanced # <<>> THEN <<>>
                    ELSE IF vector # <<>> THEN vector ELSE KeywordMatches(v, seen)
             improved == BetterThan(search.enhanced, enhanced) \cup BetterThan(search.raw, raw)
             betterVariant == [s \in Suppliers |->
                                 IF s \in improved THEN search.next ELSE search.variant[s]]
             p == v.product
             here == search.product[p] \o enhanced \o raw
             product == [search.product EXCEPT ![p] = here]
             mergedEnhanced == Merged(search.enhanced, enhanced, search.next)
             mergedRaw == Merged(search.raw, raw, search.next)
  <1>3. v \in ParsedFields
        /\ FoundOnce(enhanced, {"enhanced"}) /\ FoundOnce(raw, {"vector", "keyword"})
    BY <1>2, SearchFinds
  <1>4. search' = [search EXCEPT !.next = @ + 1, !.enhanced = mergedEnhanced, !.raw = mergedRaw,
                                 !.variant = betterVariant, !.product = product]
    BY <1>1
  <1>5. p \in Products
    BY <1>3 DEF ParsedFields
  <1> HIDE DEF enhanced, raw, v
  <1>6. /\ search \in [next : Nat, enhanced : Tables, raw : Tables,
                       variant : [Suppliers -> Nat], product : [Products -> Seq(Finds)]]
        /\ SoFar(search.enhanced, FoundBy("enhanced")) /\ SoFar(search.raw, FoundBy("raw"))
        /\ FoundBy("enhanced") \in SUBSET Finds /\ FoundBy("raw") \in SUBSET Finds
    BY FoundByTyped DEF SearchInv, SearchTyped
  <1>7. /\ search.next \in Nat /\ search.variant \in [Suppliers -> Nat]
        /\ search.enhanced \in Tables /\ search.raw \in Tables
        /\ search.product \in [Products -> Seq(Finds)]
    BY <1>6
  <1>8. betterVariant \in [Suppliers -> Nat]
    BY <1>7
  <1>9. /\ enhanced \in Seq(Finds) /\ raw \in Seq(Finds)
        /\ \A r \in ToSet(enhanced) : r.via = "enhanced"
        /\ \A r \in ToSet(raw) : r.via # "enhanced"
    BY <1>3 DEF FoundOnce, ToSet
  <1>10. here \in Seq(Finds)
         /\ ToSet(here) = ToSet(search.product[p]) \cup ToSet(enhanced) \cup ToSet(raw)
    <2>1. search.product[p] \in Seq(Finds)
      BY <1>5, <1>7
    <2> DEFINE a == search.product[p]
               b == a \o enhanced
    <2> HIDE DEF a
    <2>2. b \in Seq(Finds) /\ ToSet(b) = ToSet(a) \cup ToSet(enhanced)
      BY <1>9, <2>1, FoundAppended DEF a
    <2> HIDE DEF b
    <2>3. b \o raw \in Seq(Finds) /\ ToSet(b \o raw) = ToSet(b) \cup ToSet(raw)
      BY <1>9, <2>2, FoundAppended
    <2>4. QED
      BY <2>2, <2>3 DEF a, b
  <1> HIDE DEF betterVariant, here, p
  <1>11. product \in [Products -> Seq(Finds)]
    BY <1>5, <1>7, <1>10
  <1>12. /\ mergedEnhanced \in Tables
         /\ SoFar(mergedEnhanced, FoundBy("enhanced") \cup ToSet(enhanced))
    BY <1>3, <1>6, <1>7, MergedSoFar
  <1>13. /\ mergedRaw \in Tables
         /\ SoFar(mergedRaw, FoundBy("raw") \cup ToSet(raw))
    BY <1>3, <1>6, <1>7, MergedSoFar
  <1>14. \A q \in Products : ToSet(product[q]) =
            IF q = p THEN ToSet(search.product[q]) \cup ToSet(enhanced) \cup ToSet(raw)
            ELSE ToSet(search.product[q])
    BY <1>5, <1>7, <1>10
  <1> HIDE DEF mergedEnhanced, mergedRaw, product
  <1>15. search' = [next |-> search.next + 1, enhanced |-> mergedEnhanced, raw |-> mergedRaw,
                    variant |-> betterVariant, product |-> product]
    BY <1>4, <1>6
  <1>16. SearchTyped'
    BY <1>7, <1>8, <1>11, <1>12, <1>13, <1>15 DEF SearchTyped
  <1>17. /\ search'.enhanced = mergedEnhanced /\ search'.raw = mergedRaw
         /\ search'.product = product
    BY <1>15
  <1>18. FoundBy("enhanced")' = FoundBy("enhanced") \cup ToSet(enhanced)
    <2>1. \A r : r \in FoundBy("enhanced")' <=>
              (\E q \in Products : r \in ToSet(product[q])) /\ r.via = "enhanced"
      BY <1>17 DEF FoundBy, FoundFor
    <2>2. \A r : r \in FoundBy("enhanced") <=>
              (\E q \in Products : r \in ToSet(search.product[q])) /\ r.via = "enhanced"
      BY InFoundBy
    <2>3. QED
      BY <1>5, <1>9, <1>14, <2>1, <2>2
  <1>19. FoundBy("raw")' = FoundBy("raw") \cup ToSet(raw)
    <2>1. \A r : r \in FoundBy("raw")' <=>
              (\E q \in Products : r \in ToSet(product[q])) /\ r.via # "enhanced"
      BY <1>17 DEF FoundBy, FoundFor
    <2>2. \A r : r \in FoundBy("raw") <=>
              (\E q \in Products : r \in ToSet(search.product[q])) /\ r.via # "enhanced"
      BY DEF FoundBy, FoundFor
    <2>3. QED
      BY <1>5, <1>9, <1>14, <2>1, <2>2
  <1>20. SoFar(search'.enhanced, FoundBy("enhanced")') /\ SoFar(search'.raw, FoundBy("raw")')
    BY <1>12, <1>13, <1>17, <1>18, <1>19
  <1>21. variants' \in Seq(ParsedFields) /\ StockTyped'
    BY <1>2 DEF SearchInv, StockTyped
  <1>22. QED
    BY <1>16, <1>20, <1>21 DEF SearchInv, SoFar

-----------------------------------------------------------------------------
\* The rows: one of each seller, with the best of its scores.

BestSellers(found, kind) ==
    /\ OneEach(found)
    /\ \A i \in DOMAIN found :
        /\ found[i].via = kind
        /\ \A r \in FoundBy(kind) : r.seller = found[i].seller => r.score <= found[i].score
        /\ \E r \in FoundBy(kind) : r.seller = found[i].seller /\ r.score = found[i].score
        /\ Len(found) < TopN =>
              \A r \in FoundBy(kind) : \E j \in DOMAIN found : found[j].seller = r.seller

LEMMA MergedRowsBest ==
  ASSUME SearchInv, NEW best \in Tables, NEW kind, SoFar(best, FoundBy(kind))
  PROVE  BestSellers(MergedRows(best, kind), kind)
  <1> DEFINE S == {u \in Suppliers : best[u].score > 0}
             table == [s \in S |-> best[s].score]
             top == Best(Scored(table, kind), TopN)
             found == MergedRows(best, kind)
             pool == FoundBy(kind)
  <1>1. \A s \in Suppliers : best[s].score \in Nat
    BY DEF Tables
  <1>2. S \in SUBSET Suppliers /\ table \in [S -> Nat] /\ \A s \in S : table[s] = best[s].score
    BY <1>1
  <1>3. \A s \in Suppliers : best[s].score > 0 => s \in S
    OBVIOUS
  <1>4. \A s \in S : s \in Suppliers /\ best[s].score > 0
    OBVIOUS
  <1>5. found = [i \in DOMAIN top |->
                    Row(top[i].seller, top[i].score, kind, search.variant[top[i].seller])]
    BY DEF MergedRows
  <1> HIDE DEF S, table
  <1>6. IsBest(top, table, S, kind, TopN)
    BY <1>2, BestOfTable, MatchmakingAssumption
  <1> HIDE DEF top, found
  <1>7. top \in Seq(Scores(kind)) /\ OneEach(top) /\ FromTable(top, table, S)
        /\ (Len(top) < TopN => HasAll(top, S))
    BY <1>6 DEF IsBest
  <1>8. DOMAIN found = DOMAIN top /\ Len(found) = Len(top)
    <2>1. DOMAIN top = 1..Len(top) /\ Len(top) \in Nat
      BY <1>7
    <2>2. QED
      BY <1>5, <2>1
  <1>9. \A i \in DOMAIN top : /\ found[i].seller = top[i].seller
                              /\ found[i].score = top[i].score /\ found[i].via = kind
    BY <1>5 DEF Row
  <1>10. OneEach(found)
    BY <1>7, <1>8, <1>9 DEF OneEach
  <1>11. \A i \in DOMAIN top : /\ top[i].seller \in S /\ top[i].seller \in Suppliers
                               /\ top[i].score = best[top[i].seller].score
                               /\ best[top[i].seller].score > 0
    BY <1>2, <1>4, <1>7 DEF FromTable
  <1>12. \A r \in pool : r.score > 0 /\ r.seller \in Suppliers /\ r.score \in Nat
    BY FoundByTyped DEF SearchInv, Finds
  <1> HIDE DEF pool
  <1>13. ASSUME NEW i \in DOMAIN found
         PROVE  /\ \A r \in pool : r.seller = found[i].seller => r.score <= found[i].score
                /\ \E r \in pool : r.seller = found[i].seller /\ r.score = found[i].score
    BY <1>8, <1>9, <1>11 DEF SoFar, pool
  <1>14. ASSUME Len(found) < TopN, NEW r \in pool
         PROVE  \E j \in DOMAIN found : found[j].seller = r.seller
    <2>1. r.score <= best[r.seller].score
      BY <1>12 DEF SoFar, pool
    <2>2. r.seller \in S
      BY <1>1, <1>3, <1>12, <2>1
    <2>3. HasAll(top, S)
      BY <1>7, <1>8, <1>14
    <2>4. QED
      BY <1>8, <1>9, <2>2, <2>3 DEF HasAll
  <1>15. QED
    BY <1>8, <1>9, <1>10, <1>13, <1>14 DEF BestSellers, found, pool

\* What enterprises declared gives rows too, one of each.
LEMMA FallbackRowsOnce ==
  /\ OneEach(FallbackRows)
  /\ \A i \in DOMAIN FallbackRows : FallbackRows[i].via = "declared"
  <1> DEFINE hit == {s \in Suppliers : FallbackScore(s) > 0}
             table == [s \in hit |-> FallbackScore(s)]
             top == Best(Scored(table, "declared"), TopN)
  <1>1. \A s \in Suppliers : FallbackScore(s) \in Nat
    <2>1. SUFFICES ASSUME NEW s \in Suppliers PROVE FallbackScore(s) \in Nat
      OBVIOUS
    <2> DEFINE terms == <<variants[1].product, Category(variants[1])>>
               Term(t) == (IF t \in stock[s].declares THEN 500 ELSE 0)
                          + (IF stock[s].industry \in {t, NoProduct} THEN 300 ELSE 0)
    <2>2. \A t : Term(t) \in Nat
      OBVIOUS
    <2>3. FallbackScore(s) = Lower(1000, Term(terms[1]) + Term(terms[2]))
      BY DEF FallbackScore
    <2> HIDE DEF Term, terms
    <2>4. QED
      BY <2>2, <2>3 DEF Lower
  <1>2. hit \in SUBSET Suppliers /\ table \in [hit -> Nat]
    BY <1>1
  <1>3. FallbackRows = [i \in DOMAIN top |-> Row(top[i].seller, top[i].score, "declared", 0)]
    BY DEF FallbackRows
  <1> HIDE DEF hit, table
  <1>4. IsBest(top, table, hit, "declared", TopN)
    BY <1>2, BestOfTable, MatchmakingAssumption
  <1> HIDE DEF top
  <1>5. OneEach(top)
    BY <1>4 DEF IsBest
  <1>6. QED
    BY <1>3, <1>5 DEF OneEach, Row

-----------------------------------------------------------------------------
\* An RFQ for several products.

LEMMA GreatestExists ==
  ASSUME NEW n \in Nat, NEW S \in SUBSET (1..n), S # {}
  PROVE  \E g \in S : \A k \in S : k <= g
  <1> DEFINE T == {n - k : k \in S}
  <1>1. T \in SUBSET Nat /\ T # {}
    <2>1. \A k \in S : n - k \in Nat
      OBVIOUS
    <2>2. QED
      BY <2>1
  <1>2. PICK t \in T : \A u \in T : t <= u
    BY <1>1, LeastExists
  <1>3. PICK g \in S : t = n - g
    BY <1>2
  <1>4. \A k \in S : n - g <= n - k
    BY <1>2, <1>3
  <1>5. \A k \in S : k <= g
    BY <1>4
  <1>6. QED
    BY <1>5

LEMMA LastVariant ==
  ASSUME variants \in Seq(ParsedFields), NEW k \in DOMAIN variants
  PROVE  variants[VariantOf(variants[k].product)].product = variants[k].product
  <1> DEFINE p == variants[k].product
             S == {j \in DOMAIN variants : variants[j].product = p}
  <1>1. Len(variants) \in Nat /\ S \in SUBSET (1..Len(variants)) /\ S # {}
    OBVIOUS
  <1>2. PICK g \in S : \A j \in S : j <= g
    BY <1>1, GreatestExists
  <1> HIDE DEF p
  <1>3. \E j \in DOMAIN variants :
            /\ variants[j].product = p
            /\ \A i \in DOMAIN variants : variants[i].product = p => i <= j
    BY <1>2
  <1>4. variants[VariantOf(p)].product = p
    BY <1>3 DEF VariantOf
  <1>5. QED
    BY <1>4 DEF p

\* The products of the variants, each once.
LEMMA ProductsOnce ==
  ASSUME variants \in Seq(ParsedFields)
  PROVE  /\ ProductsInOrder \in Seq(Products)
         /\ \A a, b \in DOMAIN ProductsInOrder :
                ProductsInOrder[a] = ProductsInOrder[b] => a = b
         /\ \A a \in DOMAIN ProductsInOrder :
                variants[VariantOf(ProductsInOrder[a])].product = ProductsInOrder[a]
  <1> DEFINE all == [k \in DOMAIN variants |-> variants[k].product]
             K == {k \in DOMAIN variants :
                      \A j \in 1..(k - 1) : variants[j].product # variants[k].product}
             products == ProductsInOrder
  <1>1. DOMAIN variants = 1..Len(variants) /\ Len(variants) \in Nat
    OBVIOUS
  <1>2. \A k \in DOMAIN variants : variants[k].product \in Products
    <2>1. \A k \in DOMAIN variants : variants[k] \in ParsedFields
      OBVIOUS
    <2>2. QED
      BY <2>1 DEF ParsedFields
  <1>3. all \in Seq(Products) /\ K \in SUBSET (DOMAIN all)
    BY <1>1, <1>2
  <1>4. \A k \in K : k \in DOMAIN variants /\ k \in Nat /\ all[k] = variants[k].product
    OBVIOUS
  <1>5. \A j, k \in K : j < k => all[j] # all[k]
    <2>1. ASSUME NEW j \in K, NEW k \in K, j < k PROVE all[j] # all[k]
      <3>1. j \in 1..(k - 1)
        BY <1>1, <1>4, <2>1
      <3>2. QED
        BY <1>4, <3>1
    <2>2. QED
      BY <2>1
  <1>6. products = Chosen(all, K)
    BY DEF ProductsInOrder
  <1> HIDE DEF all, K, products
  <1>7. products \in Seq(Products)
    BY <1>3, <1>6, ChosenInOrder
  <1>8. PICK order \in [DOMAIN products -> K] :
            /\ \A a \in DOMAIN products : products[a] = all[order[a]]
            /\ \A a, b \in DOMAIN products : a < b => order[a] < order[b]
    <2> DEFINE chosen == Chosen(all, K)
    <2>1. \E o \in [DOMAIN chosen -> K] :
              /\ \A a \in DOMAIN chosen : chosen[a] = all[o[a]]
              /\ \A a, b \in DOMAIN chosen : a < b => o[a] < o[b]
      BY <1>3, ChosenInOrder
    <2> HIDE DEF chosen
    <2>2. products = chosen
      BY <1>6 DEF chosen
    <2>3. QED
      BY <2>1, <2>2
  <1>9. \A a, b \in DOMAIN products : a < b => products[a] # products[b]
    BY <1>5, <1>8
  <1>10. \A a, b \in DOMAIN products : products[a] = products[b] => a = b
    <2>1. \A a \in DOMAIN products : a \in Nat
      BY <1>7
    <2>2. \A a, b \in DOMAIN products : a = b \/ a < b \/ b < a
      BY <2>1
    <2>3. QED
      BY <1>9, <2>2
  <1>11. ASSUME NEW a \in DOMAIN products
         PROVE  variants[VariantOf(products[a])].product = products[a]
    <2>1. PICK k \in DOMAIN variants : products[a] = variants[k].product
      BY <1>4, <1>8
    <2>2. QED
      BY <2>1, LastVariant
  <1>12. QED
    BY <1>7, <1>10, <1>11 DEF products

\* One row of each seller of a product, with its best score for the product.
OfProduct(found, p) ==
    /\ OneEach(found)
    /\ \A i \in DOMAIN found :
        /\ found[i].variant = VariantOf(p)
        /\ \A r \in FoundFor(p) : r.seller = found[i].seller => r.score <= found[i].score
        /\ \E r \in FoundFor(p) : r.seller = found[i].seller /\ r.score = found[i].score

LEMMA ProductRowsBest ==
  ASSUME SearchTyped, NEW p \in Products
  PROVE  OfProduct(ProductRows(p), p)
  <1> DEFINE results == search.product[p]
             top == Best(results, PerProduct)
             K == {k \in DOMAIN top :
                      /\ p \in stock[top[k].seller].sells
                      /\ \A j \in 1..(k - 1) : top[j].seller # top[k].seller}
             kept == Chosen(top, K)
             L == Len(results)
             pool == FoundFor(p)
  <1>1. results \in Seq(Finds)
    BY DEF SearchTyped
  <1>2. \A r \in Finds : r.score \in Int
    BY DEF Finds
  <1>3. PerProduct \in Nat
    BY DEF PerProduct
  <1>4. ProductRows(p) = [k \in DOMAIN kept |->
                             Row(kept[k].seller, kept[k].score, kept[k].via, VariantOf(p))]
    BY DEF ProductRows
  <1>5. pool = ToSet(results)
    BY DEF FoundFor
  <1> HIDE DEF results
  <1>6. top \in Seq(Finds) /\ DOMAIN top \subseteq 1..L
    BY <1>1, <1>2, <1>3, BestOfResults
  <1>7. PICK order : InRanking(order, results, top)
    BY <1>1, <1>2, <1>3, BestOfResults
  <1> HIDE DEF top, pool
  <1>8. K \in SUBSET (DOMAIN top)
        /\ \A k \in K : \A j \in 1..(k - 1) : top[j].seller # top[k].seller
    OBVIOUS
  <1> HIDE DEF K
  <1>9. PICK place \in [DOMAIN kept -> K] :
            /\ \A k \in DOMAIN kept : kept[k] = top[place[k]]
            /\ \A a, b \in DOMAIN kept : a < b => place[a] < place[b]
    BY <1>6, <1>8, ChosenInOrder
  <1>10. kept \in Seq(Finds)
    BY <1>6, <1>8, ChosenInOrder
  <1> HIDE DEF kept
  <1>11. \A k \in DOMAIN kept : k \in Nat
    BY <1>10
  <1>12. \A k \in K : k \in DOMAIN top /\ k \in 1..L /\ k \in Nat
    BY <1>6, <1>8
  <1>13. \A a, b \in DOMAIN kept : kept[a].seller = kept[b].seller => a = b
    <2>1. ASSUME NEW a \in DOMAIN kept, NEW b \in DOMAIN kept, a < b
          PROVE  kept[a].seller # kept[b].seller
      <3>1. place[a] \in K /\ place[b] \in K /\ place[a] < place[b]
        BY <1>9, <2>1
      <3>2. place[a] \in 1..(place[b] - 1)
        BY <1>12, <3>1
      <3>3. top[place[a]].seller # top[place[b]].seller
        BY <1>8, <3>1, <3>2
      <3>4. QED
        BY <1>9, <3>3
    <2>2. \A a, b \in DOMAIN kept : a = b \/ a < b \/ b < a
      BY <1>11
    <2>3. QED
      BY <2>1, <2>2
  <1>14. L \in Nat /\ DOMAIN results = 1..L
    BY <1>1
  <1>15. \A i \in 1..L : results[i].score \in Int
    BY <1>1, <1>2, <1>14
  <1>16. ASSUME NEW k \in DOMAIN kept, NEW r \in pool, r.seller = kept[k].seller
         PROVE  r.score <= kept[k].score
    <2>1. PICK i \in 1..L : results[i] = r
      BY <1>5, <1>14 DEF ToSet
    <2>2. PICK m \in 1..L : order[m] = i
      BY <1>7 DEF InRanking, L
    <2>3. place[k] \in K /\ place[k] \in DOMAIN top /\ place[k] \in 1..L
      BY <1>9, <1>12
    <2>4. kept[k] = results[order[place[k]]] /\ order[place[k]] \in 1..L
      BY <1>7, <1>9, <2>3 DEF InRanking, L
    <2>5. ~(m < place[k])
      <3>1. SUFFICES ASSUME m < place[k] PROVE FALSE
        OBVIOUS
      <3>2. m \in 1..(place[k] - 1)
        BY <2>3, <3>1
      <3>3. m \in DOMAIN top
        <4>1. DOMAIN top = 1..Len(top) /\ Len(top) \in Nat
          BY <1>6
        <4>2. QED
          BY <2>3, <3>2, <4>1
      <3>4. top[m] = r
        BY <1>7, <2>1, <2>2, <3>3 DEF InRanking
      <3>5. top[m].seller # top[place[k]].seller
        BY <1>8, <2>3, <3>2
      <3>6. QED
        BY <1>9, <1>16, <3>4, <3>5
    <2>6. m = place[k] \/ place[k] < m
      BY <1>14, <2>3, <2>5
    <2>7. CASE m = place[k]
      BY <1>15, <2>1, <2>2, <2>4, <2>7
    <2>8. CASE place[k] < m
      BY <1>7, <2>1, <2>2, <2>3, <2>4, <2>8 DEF InRanking, L
    <2>9. QED
      BY <2>6, <2>7, <2>8
  <1>17. ASSUME NEW k \in DOMAIN kept
         PROVE  kept[k] \in pool
    <2>1. place[k] \in DOMAIN top /\ place[k] \in 1..L
      BY <1>9, <1>12
    <2>2. kept[k] = results[order[place[k]]] /\ order[place[k]] \in 1..L
      BY <1>7, <1>9, <2>1 DEF InRanking, L
    <2>3. QED
      BY <1>5, <1>14, <2>2 DEF ToSet
  <1>18. /\ DOMAIN ProductRows(p) = DOMAIN kept
         /\ \A k \in DOMAIN kept : /\ ProductRows(p)[k].seller = kept[k].seller
                                   /\ ProductRows(p)[k].score = kept[k].score
                                   /\ ProductRows(p)[k].variant = VariantOf(p)
    BY <1>4 DEF Row
  <1>19. OneEach(ProductRows(p))
    BY <1>13, <1>18 DEF OneEach
  <1>20. QED
    BY <1>16, <1>17, <1>18, <1>19 DEF OfProduct, pool

ProductOf(r) == variants[r.variant].product

BestPerProduct(found) ==
    /\ \A i, j \in DOMAIN found :
          found[i].seller = found[j].seller /\ ProductOf(found[i]) = ProductOf(found[j]) => i = j
    /\ \A i \in DOMAIN found :
        /\ \A r \in FoundFor(ProductOf(found[i])) :
              r.seller = found[i].seller => r.score <= found[i].score
        /\ \E r \in FoundFor(ProductOf(found[i])) :
              r.seller = found[i].seller /\ r.score = found[i].score

LEMMA MultiRowsBest ==
  ASSUME SearchInv
  PROVE  BestPerProduct(MultiRows)
  <1> DEFINE products == ProductsInOrder
             N == DOMAIN products
             places == {x \in N \X (1..PerProduct) :
                           x[2] \in DOMAIN ProductRows(products[x[1]])}
             before == {y \in places \X places :
                           \/ y[1][1] < y[2][1]
                           \/ y[1][1] = y[2][1] /\ y[1][2] < y[2][2]}
             order == Ranked(places, before)
             n == Cardinality(places)
             all == MultiRows
  <1>1. /\ products \in Seq(Products)
        /\ \A a, b \in N : products[a] = products[b] => a = b
        /\ \A a \in N : variants[VariantOf(products[a])].product = products[a]
    BY ProductsOnce DEF SearchInv
  <1>2. \A p \in Products : OfProduct(ProductRows(p), p)
    BY ProductRowsBest DEF SearchInv
  <1>3. all = [k \in 1..n |-> ProductRows(products[order[k][1]])[order[k][2]]]
    BY DEF MultiRows
  <1> HIDE DEF products, all
  <1>4. \A a \in N : a \in Int /\ products[a] \in Products
    BY <1>1
  <1>5. IsFiniteSet(N \X (1..PerProduct))
    <2>1. N = 1..Len(products) /\ Len(products) \in Int /\ 1 \in Int /\ PerProduct \in Int
      BY <1>1 DEF PerProduct
    <2>2. IsFiniteSet(N) /\ IsFiniteSet(1..PerProduct)
      BY <2>1, FS_Interval
    <2> HIDE DEF N
    <2>3. QED
      BY <2>2, FS_Product
  <1>6. places \in SUBSET (N \X (1..PerProduct))
    OBVIOUS
  <1>7. IsFiniteSet(places)
    <2> HIDE DEF places, N
    <2>1. QED
      BY <1>5, <1>6, FS_Subset
  <1>8. \A x \in places : /\ x = <<x[1], x[2]>> /\ x[1] \in N /\ x[1] \in Int /\ x[2] \in Int
                          /\ x[2] \in DOMAIN ProductRows(products[x[1]])
    BY <1>4 DEF PerProduct
  <1>9. \A x, y \in places : <<x, y>> \in before <=>
            \/ x[1] < y[1]
            \/ x[1] = y[1] /\ x[2] < y[2]
    OBVIOUS
  <1> HIDE DEF places, before
  <1>10. IsOrder(places, before)
    <2>1. \A x \in places : <<x, x>> \notin before
      BY <1>8, <1>9
    <2>2. \A x, y \in places : x # y => <<x, y>> \in before \/ <<y, x>> \in before
      <3>1. SUFFICES ASSUME NEW x \in places, NEW y \in places, x # y
                     PROVE  <<x, y>> \in before \/ <<y, x>> \in before
        OBVIOUS
      <3>2. x[1] # y[1] \/ x[2] # y[2]
        BY <1>8, <3>1
      <3>3. x[1] \in Int /\ x[2] \in Int /\ y[1] \in Int /\ y[2] \in Int
        BY <1>8
      <3>4. QED
        BY <1>9, <3>2, <3>3
    <2>3. \A x, y, z \in places :
              <<x, y>> \in before /\ <<y, z>> \in before => <<x, z>> \in before
      BY <1>8, <1>9
    <2>4. QED
      BY <2>1, <2>2, <2>3 DEF IsOrder
  <1>11. /\ n \in Nat
         /\ order \in [1..n -> places]
         /\ \A a, b \in 1..n : order[a] = order[b] => a = b
    BY <1>7, <1>10, RankedInOrder
  <1> HIDE DEF order, n
  <1>12. ASSUME NEW k \in 1..n
         PROVE  LET a == order[k][1]
                    b == order[k][2]
                    p == products[a]
                IN  /\ order[k] = <<a, b>> /\ a \in N /\ p \in Products
                    /\ b \in DOMAIN ProductRows(p)
                    /\ all[k] = ProductRows(p)[b]
                    /\ ProductOf(all[k]) = p
    <2> DEFINE a == order[k][1]
               b == order[k][2]
               p == products[a]
    <2>1. order[k] \in places
      BY <1>11
    <2>2. order[k] = <<a, b>> /\ a \in N /\ p \in Products /\ b \in DOMAIN ProductRows(p)
      BY <1>4, <1>8, <2>1
    <2>3. all[k] = ProductRows(p)[b]
      BY <1>3
    <2> HIDE DEF b
    <2>4. ProductRows(p)[b].variant = VariantOf(p)
      BY <1>2, <2>2 DEF OfProduct
    <2>5. ProductOf(all[k]) = p
      BY <1>1, <2>2, <2>3, <2>4 DEF ProductOf
    <2>6. QED
      BY <2>2, <2>3, <2>5 DEF b
  <1>13. DOMAIN all = 1..n
    BY <1>3
  <1>14. ASSUME NEW i \in 1..n, NEW j \in 1..n, all[i].seller = all[j].seller,
                ProductOf(all[i]) = ProductOf(all[j])
         PROVE  i = j
    <2>1. products[order[i][1]] = products[order[j][1]]
      BY <1>12, <1>14
    <2>2. order[i][1] = order[j][1]
      BY <1>1, <1>12, <2>1
    <2>3. OneEach(ProductRows(products[order[i][1]]))
      BY <1>2, <1>12 DEF OfProduct
    <2>4. order[i][2] = order[j][2]
      <3>1. /\ order[i][2] \in DOMAIN ProductRows(products[order[i][1]])
            /\ order[j][2] \in DOMAIN ProductRows(products[order[i][1]])
        BY <1>12, <2>2
      <3>2. /\ all[i] = ProductRows(products[order[i][1]])[order[i][2]]
            /\ all[j] = ProductRows(products[order[i][1]])[order[j][2]]
        BY <1>12, <2>2
      <3>3. QED
        BY <1>14, <2>3, <3>1, <3>2 DEF OneEach
    <2>5. order[i] = order[j]
      BY <1>12, <2>2, <2>4
    <2>6. QED
      BY <1>11, <2>5
  <1>15. ASSUME NEW k \in 1..n
         PROVE  /\ \A r \in FoundFor(ProductOf(all[k])) :
                      r.seller = all[k].seller => r.score <= all[k].score
                /\ \E r \in FoundFor(ProductOf(all[k])) :
                      r.seller = all[k].seller /\ r.score = all[k].score
    <2> DEFINE p == products[order[k][1]]
               b == order[k][2]
    <2>1. /\ p \in Products /\ b \in DOMAIN ProductRows(p)
          /\ all[k] = ProductRows(p)[b] /\ ProductOf(all[k]) = p
      BY <1>12
    <2> HIDE DEF p, b
    <2>2. OfProduct(ProductRows(p), p)
      BY <1>2, <2>1
    <2>3. QED
      BY <2>1, <2>2 DEF OfProduct
  <1>16. QED
    BY <1>13, <1>14, <1>15 DEF BestPerProduct, all

-----------------------------------------------------------------------------
\* The proposals of every run.

MatchIInv ==
    /\ SearchInv
    /\ stage = "searching" => rows = <<>>
    /\ MatchesAreBest

LEMMA RowsUntouched ==
  ASSUME variants' = variants, stock' = stock, search' = search
  PROVE  /\ (IsMultiProduct' <=> IsMultiProduct)
         /\ MultiRows' = MultiRows
         /\ \A p : FoundFor(p)' = FoundFor(p)
         /\ \A kind : FoundBy(kind)' = FoundBy(kind)
         /\ SearchInv' <=> SearchInv
  <1>1. ProductsInOrder' = ProductsInOrder
    BY DEF ProductsInOrder
  <1>2. \A p : FoundFor(p)' = FoundFor(p)
    BY DEF FoundFor
  <1>3. \A kind : FoundBy(kind)' = FoundBy(kind)
    BY DEF FoundBy, FoundFor
  <1>4. \A p : VariantOf(p)' = VariantOf(p)
    BY DEF VariantOf
  <1>5. \A p : ProductRows(p)' = ProductRows(p)
    BY <1>4 DEF ProductRows
  <1>6. MultiRows' = MultiRows
    BY <1>1, <1>5 DEF MultiRows
  <1>7. SearchInv' <=> SearchInv
    BY <1>3 DEF SearchInv, StockTyped, SearchTyped
  <1>8. QED
    BY <1>1, <1>2, <1>3, <1>6, <1>7 DEF IsMultiProduct

LEMMA SellersMatched ==
  ASSUME PerSeller, NEW found, Matched(found), OneEach(found),
         \/ \A i \in DOMAIN found : found[i].via = "declared"
         \/ \E kind : BestSellers(found, kind)
  PROVE  MatchesAreBest'
  <1>1. variants' = variants /\ stock' = stock /\ search' = search /\ rows' = found
    BY DEF Matched
  <1>2. /\ (IsMultiProduct' <=> IsMultiProduct) /\ MultiRows' = MultiRows
        /\ \A kind : FoundBy(kind)' = FoundBy(kind)
    BY <1>1, RowsUntouched
  <1>3. CASE found = <<>>
    BY <1>1, <1>3 DEF MatchesAreBest
  <1>4. CASE found # <<>>
    <2>1. ~(IsMultiProduct' /\ rows' = MultiRows')
      BY <1>1, <1>2, <1>4 DEF PerSeller
    <2>2. MatchesAreBest' <=>
            \A i \in DOMAIN found :
                /\ \A j \in DOMAIN found : found[i].seller = found[j].seller => i = j
                /\ found[i].via # "declared" =>
                    /\ \A r \in FoundBy(found[i].via) :
                          r.seller = found[i].seller => r.score <= found[i].score
                    /\ \E r \in FoundBy(found[i].via) :
                          r.seller = found[i].seller /\ r.score = found[i].score
                    /\ Len(found) < TopN => \A r \in FoundBy(found[i].via) :
                                                \E j \in DOMAIN found : found[j].seller = r.seller
      BY <1>1, <1>2, <2>1 DEF MatchesAreBest
    <2>3. \A i, j \in DOMAIN found : found[i].seller = found[j].seller => i = j
      BY DEF OneEach
    <2>4. CASE \A i \in DOMAIN found : found[i].via = "declared"
      BY <2>2, <2>3, <2>4
    <2>5. CASE \E kind : BestSellers(found, kind)
      BY <2>2, <2>3, <2>5 DEF BestSellers
    <2>6. QED
      BY <2>4, <2>5
  <1>5. QED
    BY <1>3, <1>4

LEMMA ProductsMatched ==
  ASSUME SearchInv, IsMultiProduct, Matched(MultiRows)
  PROVE  MatchesAreBest'
  <1> DEFINE found == MultiRows
  <1>1. variants' = variants /\ stock' = stock /\ search' = search /\ rows' = found
    BY DEF Matched
  <1>2. /\ IsMultiProduct' /\ rows' = MultiRows'
        /\ \A p : FoundFor(p)' = FoundFor(p)
    BY <1>1, RowsUntouched
  <1>3. BestPerProduct(found)
    BY MultiRowsBest
  <1> HIDE DEF found
  <1>4. MatchesAreBest' <=>
          \A i \in DOMAIN found :
              /\ \A j \in DOMAIN found :
                    /\ found[i].seller = found[j].seller
                    /\ variants[found[i].variant].product = variants[found[j].variant].product
                    => i = j
              /\ found[i].via # "declared" =>
                  /\ \A r \in FoundFor(variants[found[i].variant].product) :
                        r.seller = found[i].seller => r.score <= found[i].score
                  /\ \E r \in FoundFor(variants[found[i].variant].product) :
                        r.seller = found[i].seller /\ r.score = found[i].score
    BY <1>1, <1>2 DEF MatchesAreBest
  <1>5. QED
    BY <1>3, <1>4 DEF BestPerProduct, ProductOf

LEMMA MatchInitInv ==
  MatchInit => MatchIInv
  <1> SUFFICES ASSUME MatchInit PROVE MatchIInv
    OBVIOUS
  <1>1. variants \in Seq(ParsedFields)
    <2>1. PICK parsed \in ParsedRFQs : variants = BuildParsedVariants(Normalize(parsed))
      BY DEF MatchInit
    <2>2. Normalize(parsed) \in ParsedFields
      BY InputsAssumption, NormalizeTyped
    <2>3. QED
      BY <2>1, <2>2, VariantsTyped
  <1>2. StockTyped
    BY InputsAssumption DEF MatchInit, StockTyped
  <1>3. search = [next |-> 1, enhanced |-> NoResults, raw |-> NoResults,
                  variant |-> [s \in Suppliers |-> 0], product |-> [p \in Products |-> <<>>]]
    BY DEF MatchInit
  <1>4. NoResults \in Tables /\ \A s \in Suppliers : NoResults[s].score = 0
    BY DEF NoResults, Tables
  <1>5. SearchTyped
    <2>1. [s \in Suppliers |-> 0] \in [Suppliers -> Nat]
      OBVIOUS
    <2>2. [p \in Products |-> <<>>] \in [Products -> Seq(Finds)]
      OBVIOUS
    <2>3. QED
      BY <1>3, <1>4, <2>1, <2>2 DEF SearchTyped
  <1>6. \A p \in Products : ToSet(search.product[p]) = {}
    BY <1>3 DEF ToSet
  <1>7. FoundBy("enhanced") = {} /\ FoundBy("raw") = {}
    BY <1>6 DEF FoundBy, FoundFor
  <1>8. SoFar(search.enhanced, FoundBy("enhanced")) /\ SoFar(search.raw, FoundBy("raw"))
    BY <1>3, <1>4, <1>7 DEF SoFar
  <1>9. rows = <<>>
    BY DEF MatchInit
  <1>10. MatchesAreBest
    BY <1>9 DEF MatchesAreBest
  <1>11. QED
    BY <1>1, <1>2, <1>5, <1>8, <1>9, <1>10 DEF MatchIInv, SearchInv

LEMMA NothingMatched ==
  ASSUME MatchIInv, UNCHANGED <<variants, stock, search, rows>>
  PROVE  SearchInv' /\ MatchesAreBest'
  <1>1. /\ (IsMultiProduct' <=> IsMultiProduct) /\ MultiRows' = MultiRows
        /\ \A p : FoundFor(p)' = FoundFor(p)
        /\ \A kind : FoundBy(kind)' = FoundBy(kind)
        /\ SearchInv'
    BY RowsUntouched DEF MatchIInv
  <1>2. MatchesAreBest
    BY DEF MatchIInv
  <1>3. MatchesAreBest'
    BY <1>1, <1>2 DEF MatchesAreBest
  <1>4. QED
    BY <1>1, <1>3

LEMMA MatchStep ==
  MatchIInv /\ [MatchNext]_matchVars => MatchIInv'
  <1> SUFFICES ASSUME MatchIInv, [MatchNext]_matchVars PROVE MatchIInv'
    OBVIOUS
  <1>1. SearchInv
    BY DEF MatchIInv
  <1>2. SoFar(search.enhanced, FoundBy("enhanced")) /\ search.enhanced \in Tables
        /\ SoFar(search.raw, FoundBy("raw")) /\ search.raw \in Tables
    BY <1>1 DEF SearchInv, SearchTyped
  <1>3. CASE SearchVariant
    <2>1. SearchInv'
      BY <1>1, <1>3, SearchKeepsInv
    <2>2. rows' = <<>>
      BY <1>3 DEF SearchVariant, MatchIInv
    <2>3. MatchesAreBest'
      BY <2>2 DEF MatchesAreBest
    <2>4. QED
      BY <2>1, <2>2, <2>3 DEF MatchIInv
  <1>4. ASSUME NEW found, Matched(found), MatchesAreBest' PROVE MatchIInv'
    <2>1. SearchInv'
      BY <1>1, <1>4, RowsUntouched DEF Matched
    <2>2. stage' = "matched"
      BY <1>4 DEF Matched
    <2>3. QED
      BY <1>4, <2>1, <2>2 DEF MatchIInv
  <1>5. ASSUME UNCHANGED <<variants, stock, search, rows>>, stage' # "searching" \/ stage' = stage
        PROVE  MatchIInv'
    BY <1>5, NothingMatched DEF MatchIInv
  <1>6. CASE MatchPerProduct
    <2>1. IsMultiProduct /\ Matched(MultiRows)
      BY <1>6 DEF MatchPerProduct
    <2>2. QED
      BY <1>1, <1>4, <2>1, ProductsMatched
  <1>7. CASE MatchEnhanced
    <2> DEFINE found == MergedRows(search.enhanced, "enhanced")
    <2>1. BestSellers(found, "enhanced")
      BY <1>1, <1>2, MergedRowsBest
    <2> HIDE DEF found
    <2>2. CASE Matched(found)
      <3>1. PerSeller
        BY <1>7 DEF MatchEnhanced
      <3>2. MatchesAreBest'
        BY <2>1, <2>2, <3>1, SellersMatched DEF BestSellers
      <3>3. QED
        BY <1>4, <2>2, <3>2
    <2>3. CASE ~Matched(found)
      <3>1. stage' = "died" /\ UNCHANGED <<variants, stock, search, rows>>
        BY <1>7, <2>3 DEF MatchEnhanced, found
      <3>2. QED
        BY <1>5, <3>1
    <2>4. QED
      BY <2>2, <2>3
  <1>8. CASE MatchRaw
    <2> DEFINE found == MergedRows(search.raw, "raw")
    <2>1. BestSellers(found, "raw")
      BY <1>1, <1>2, MergedRowsBest
    <2>2. PerSeller /\ Matched(found)
      BY <1>8 DEF MatchRaw, NothingEnhanced
    <2> HIDE DEF found
    <2>3. MatchesAreBest'
      BY <2>1, <2>2, SellersMatched DEF BestSellers
    <2>4. QED
      BY <1>4, <2>2, <2>3
  <1>9. CASE MatchFallback
    <2> DEFINE found == FallbackRows
    <2>1. OneEach(found) /\ \A i \in DOMAIN found : found[i].via = "declared"
      BY FallbackRowsOnce
    <2>2. PerSeller
      BY <1>9 DEF MatchFallback, NothingEnhanced
    <2>3. CASE Matched(found)
      <3> HIDE DEF found
      <3>1. MatchesAreBest'
        BY <2>1, <2>2, <2>3, SellersMatched
      <3>2. QED
        BY <1>4, <2>3, <3>1
    <2>4. CASE ~Matched(found)
      <3>1. stage' = "unmatched" /\ UNCHANGED <<variants, stock, search, rows>>
        BY <1>9, <2>4 DEF MatchFallback
      <3>2. QED
        BY <1>5, <3>1
    <2>5. QED
      BY <2>3, <2>4
  <1>10. CASE MatchDies
    BY <1>5, <1>10 DEF MatchDies
  <1>11. CASE UNCHANGED matchVars
    BY <1>5, <1>11 DEF matchVars
  <1>12. QED
    BY <1>3, <1>6, <1>7, <1>8, <1>9, <1>10, <1>11 DEF MatchNext

\* A seller is proposed once, or once per product, with the best score that the
\* searches gave it, and none with a better score is left out of a list with
\* room for it.
THEOREM BestMatches == MatchSpec => []MatchesAreBest
  <1>1. MatchIInv => MatchesAreBest
    BY DEF MatchIInv
  <1>2. QED
    BY <1>1, MatchInitInv, MatchStep, PTL DEF MatchSpec
=============================================================================
