------------------------- MODULE Settlement_proofs -------------------------
(***************************************************************************)
(* Proofs about Settlement, for every set of requests, applications and    *)
(* unlinked parties, with and without faults.                              *)
(***************************************************************************)
EXTENDS Settlement, TLAPS

-----------------------------------------------------------------------------
\* Lemmas about the data.

\* A row object is never mistaken for the missing row.
LEMMA RowIsNotNoRow == NoRow \notin Row /\ NoRow.app = NoApp /\ NoRow.status = "NONE"
  BY DEF NoRow, Row, RowStatus

\* The aggregate read from a row is an aggregate.
LEMMA EntityType ==
  ASSUME NEW r \in Row
  PROVE  EntityOf(r) \in Aggregate
  BY DEF EntityOf, Row, Aggregate, EscrowStatus

\* Setting the status of a kept row object, if there is one, makes it a row.
LEMMA SetStatusType ==
  ASSUME NEW x \in Row \cup {NoRow}, NEW status \in RowStatus
  PROVE  /\ [x EXCEPT !.status = status] \in Row
         /\ [x EXCEPT !.status = status].status = status
         /\ [x EXCEPT !.status = status].app = x.app
  <1> DEFINE Wide == [status : RowStatus \cup {"NONE"}, frozen : BOOLEAN,
                      app : Apps \cup {NoApp}, deal : BOOLEAN]
  <1>1. NoRow \in Wide
    BY DEF NoRow
  <1>2. x \in Row => x \in Wide
    BY DEF Row
  <1>3. x \in Wide
    BY <1>1, <1>2
  <1>4. QED
    BY <1>3 DEF Row

\* Merging an aggregate into a row gives a row.
LEMMA MergedType ==
  ASSUME NEW current \in Row, NEW loaded \in Row \cup {NoRow}, NEW e \in Aggregate
  PROVE  Merged(current, loaded, e) \in Row
  <1>1. ColumnsOf(e) \in [status : RowStatus, frozen : BOOLEAN, app : Apps \cup {NoApp}]
    BY DEF ColumnsOf, Aggregate, EscrowStatus, RowStatus
  <1>2. QED
    BY <1>1 DEF Merged, Row

\* A merged column is the one in hand or the current one.
LEMMA MergedColumns ==
  ASSUME NEW current \in Row, NEW loaded, NEW e \in Aggregate, e.status # "FROZEN"
  PROVE  /\ Merged(current, loaded, e).status \in {e.status, current.status}
         /\ Merged(current, loaded, e).app \in {e.app, current.app}
  BY DEF Merged, ColumnsOf, Row, Aggregate

-----------------------------------------------------------------------------
\* Lemmas about requests.

\* A handler that has ended relies on nothing.
LEMMA IdleIsGood ==
  /\ Idle \in Request
  /\ GoodRequest(Idle)
  /\ \A a \in Apps : ~Owes(Idle, a)
  <1>1. Idle \in Request
    BY DEF Idle, Request, PCs, NoAggregate
  <1>2. NoAggregate.app = NoApp
    BY DEF NoAggregate, EntityOf, NoRow
  <1>3. Backed("NONE")
    BY DEF Backed, ChainClaims
  <1>4. ~NeedsRow(Idle)
    BY DEF Idle, NeedsRow, FundOps, ReleaseOps, RefundOps
  <1>5. CarriesBacked(Idle) /\ CallDone(Idle)
    BY <1>2, <1>3, RowIsNotNoRow
    DEF Idle, CarriesBacked, CallDone, Exists, FundOps, ReleaseOps, RefundOps
  <1>6. \A a \in Apps : ~Owes(Idle, a)
    BY DEF Idle, Owes
  <1>7. QED
    BY <1>1, <1>4, <1>5, <1>6 DEF GoodRequest, Idle

\* The same in the state after a step.
LEMMA IdleStaysGood == GoodRequest(Idle)'
  <1>1. NoAggregate.app = NoApp
    BY DEF NoAggregate, EntityOf, NoRow
  <1>2. QED
    BY <1>1, RowIsNotNoRow
    DEF Idle, GoodRequest, NeedsRow, CarriesBacked, CallDone, Backed, ChainClaims, Exists,
        FundOps, ReleaseOps, RefundOps

\* A step that changes one request and nothing else preserves the invariant
\* if the request is left well-typed and good and owes no release it did not
\* owe before.
LEMMA RequestStep ==
  ASSUME IInv, NEW r \in Requests, NEW q \in Request,
         GoodRequest(q),
         \A a \in Apps : Owes(q, a) => Owes(req[r], a),
         req' = [req EXCEPT ![r] = q],
         UNCHANGED <<row, chain, settlements, dispatched, jobs>>
  PROVE  IInv'
  <1>1. TypeOK'
    BY DEF IInv, TypeOK
  <1>2. ASSUME NEW s \in Requests PROVE req'[s] = IF s = r THEN q ELSE req[s]
    BY DEF IInv, TypeOK
  <1>3. ASSUME NEW s \in Requests PROVE GoodRequest(req[s])'
    <2>1. GoodRequest(req'[s])
      BY <1>2, <1>3 DEF IInv
    <2>2. QED
      BY <2>1 DEF GoodRequest, NeedsRow, CarriesBacked, CallDone, Backed, Exists
  <1>4. ReleasesOwedOnce'
    <2>1. ASSUME NEW s \in Requests, NEW a \in Apps, Owes(req'[s], a)
          PROVE  Owes(req[s], a)
      BY <1>2, <2>1
    <2>2. ASSUME NEW a \in Apps, NEW s \in Requests, NEW t \in Requests,
                 Owes(req'[s], a)
          PROVE  settlements[a] = 0 /\ (Owes(req'[t], a) => t = s)
      BY <2>1, <2>2 DEF IInv, ReleasesOwedOnce
    <2>3. QED
      BY <2>2 DEF ReleasesOwedOnce, Owes
  <1>5. QED
    BY <1>1, <1>3, <1>4
    DEF IInv, BookBacked, Backed, Exists, OneSettlementPerRelease, PlatformReleasesDispatched

\* A step that starts a handler preserves the invariant if the handler's record
\* is good.
LEMMA BeginStep ==
  ASSUME IInv, NEW r \in Requests, NEW op \in Ops,
         NEW pc \in {"sign", "hold", "insert", "call", "save"},
         NEW agg \in Aggregate \cup {NoAggregate}, NEW app \in Apps \cup {NoApp},
         Begin(r, op, pc, agg, app),
         GoodRequest(Handler(op, pc, agg, app)),
         op \in ReleaseOps => pc # "save"
  PROVE  IInv'
  <1> DEFINE q == Handler(op, pc, agg, app)
  <1>1. q \in Request
    BY DEF Handler, Request, PCs
  <1>2. \A a \in Apps : ~Owes(q, a)
    BY DEF Owes, Handler
  <1>3. QED
    BY <1>1, <1>2, RequestStep DEF Begin

\* The chain only grows: whatever an application bore out it still bears out.
Grows ==
    \A a \in Apps, status \in ChainClaims :
        BearsOut(chain[a].status, status) => BearsOut(chain'[a].status, status)

\* A good request stays good while the row stays, the chain grows, and the
\* history is not forgotten.
LEMMA GoodRequestKept ==
  ASSUME TypeOK, Grows, row \in Row => row' \in Row, dispatched => dispatched'
  PROVE  \A q \in Request : GoodRequest(q) => GoodRequest(q)'
  <1> SUFFICES ASSUME NEW q \in Request, GoodRequest(q)
               PROVE  GoodRequest(q)'
    OBVIOUS
  <1>1. ASSUME NEW status, Backed(status) PROVE Backed(status)'
    BY <1>1 DEF Backed, Grows
  <1>2. ASSUME NEW a \in Apps \cup {NoApp}, Exists(a) PROVE Exists(a)'
    <2>1. a \in Apps => (chain[a].status # "ABSENT" => chain'[a].status # "ABSENT")
      BY DEF Grows, BearsOut, ChainClaims
    <2>2. QED
      BY <1>2, <2>1 DEF Exists
  <1>3. CarriesBacked(q)'
    <2>1. /\ q.snap.app \in Apps \cup {NoApp}
          /\ q.agg.app \in Apps \cup {NoApp}
      BY DEF Request, Row, NoRow, Aggregate, NoAggregate, EntityOf
    <2>2. QED
      BY <1>1, <1>2, <2>1 DEF GoodRequest, CarriesBacked
  <1>4. CallDone(q)'
    BY DEF GoodRequest, CallDone, Grows, BearsOut, ChainClaims
  <1>5. QED
    BY <1>3, <1>4 DEF GoodRequest, NeedsRow

-----------------------------------------------------------------------------
\* The first step of a handler.

\* A handler that takes nothing along but, at most, the row's application and
\* the aggregate read from the row, and that has not recorded anything yet, is
\* good if the row is there.
LEMMA FreshHandler ==
  ASSUME IInv, NEW op, NEW pc \in {"sign", "hold", "call"}, row \in Row,
         NEW agg \in {NoAggregate, EntityOf(row)}, NEW app,
         app = IF op \in FundOps \cup ReleaseOps \cup RefundOps THEN row.app ELSE NoApp,
         op \in FundOps \cup ReleaseOps \cup RefundOps => row.app # NoApp,
         op = "release" => row.status = "DISPATCHED"
  PROVE  /\ GoodRequest(Handler(op, pc, agg, app))
         /\ agg \in Aggregate \cup {NoAggregate}
         /\ app \in Apps \cup {NoApp}
  <1> DEFINE q == Handler(op, pc, agg, app)
  <1>1. /\ agg \in Aggregate \cup {NoAggregate}
        /\ Exists(agg.app)
        /\ app \in Apps \cup {NoApp}
    <2>1. EntityOf(row).app = row.app /\ NoAggregate.app = NoApp
      BY DEF EntityOf, NoAggregate, NoRow
    <2>2. row.app \in Apps \cup {NoApp}
      BY DEF Row
    <2>3. QED
      BY <2>1, <2>2, EntityType DEF IInv, BookBacked, Exists
  <1>2. CarriesBacked(q)
    BY <1>1, RowIsNotNoRow DEF Handler, CarriesBacked, Backed, ChainClaims, Exists
  <1>3. CallDone(q)
    BY <1>1 DEF Handler, CallDone
  <1>4. q.op = "release" => dispatched
    BY DEF Handler, IInv
  <1>5. QED
    BY <1>1, <1>2, <1>3, <1>4 DEF GoodRequest

\* Every endpoint starts with a handler that is good and owes nothing.
LEMMA StartStep ==
  ASSUME IInv, NEW r \in Requests, Start(r)
  PROVE  IInv'
  <1>0. /\ row # NoRow => row \in Row
        /\ row.app # NoApp => row # NoRow
        /\ NoAggregate.app = NoApp
    BY DEF IInv, TypeOK, NoRow, NoAggregate, EntityOf
  <1>1. ASSUME NEW status \in {"PENDING_APPROVAL", "DEPLOYED"}
        PROVE  /\ NewEscrow(status) \in Aggregate
               /\ NewEscrow(status).app = NoApp
               /\ NewEscrow(status).status = status
    BY DEF NewEscrow, Aggregate, EscrowStatus, RowStatus
  <1>2. ASSUME NEW op \in {"select_deal", "deploy_escrow"}
        PROVE  GoodRequest(Handler(op, "insert", NewEscrow("PENDING_APPROVAL"), NoApp))
    <2>1. Backed("PENDING_APPROVAL") /\ Backed("NONE") /\ Exists(NoApp)
      BY DEF Backed, ChainClaims, Exists
    <2>2. QED
      BY <1>1, <2>1, RowIsNotNoRow
      DEF Handler, GoodRequest, NeedsRow, CarriesBacked, CallDone,
          FundOps, ReleaseOps, RefundOps
  <1>3. CASE SelectDeal(r)
    BY <1>1, <1>2, <1>3, BeginStep DEF SelectDeal, Ops, BookOps
  <1>4. CASE DeployEscrow(r)
    BY <1>1, <1>2, <1>4, BeginStep DEF DeployEscrow, Ops, DeployOps
  <1>5. ASSUME NEW op \in {"approve", "reject"}, NEW agg \in Aggregate,
               row \in Row, agg.app = row.app, agg.status \in {"APPROVED", "REJECTED"},
               Begin(r, op, "save", agg, NoApp)
        PROVE  IInv'
    <2>1. Backed(agg.status) /\ Backed("NONE") /\ Exists(agg.app) /\ Exists(NoApp)
      BY <1>5 DEF Backed, ChainClaims, Exists, IInv, BookBacked
    <2>2. GoodRequest(Handler(op, "save", agg, NoApp))
      BY <1>5, <2>1, RowIsNotNoRow
      DEF Handler, GoodRequest, CarriesBacked, CallDone, FundOps, ReleaseOps, RefundOps
    <2>3. QED
      BY <1>5, <2>2, BeginStep DEF Ops, BookOps, ReleaseOps
  <1>6. CASE Approve(r)
    <2>1. /\ record_approval(EntityOf(row)) \in Aggregate
          /\ record_approval(EntityOf(row)).app = row.app
          /\ record_approval(EntityOf(row)).status = "APPROVED"
      BY <1>0, <1>6, EntityType
      DEF Approve, record_approval, EntityOf, Aggregate, EscrowStatus, RowStatus
    <2>2. QED
      BY <1>0, <1>5, <1>6, <2>1 DEF Approve
  <1>7. CASE RejectEscrow(r)
    <2>1. /\ record_rejection(EntityOf(row)) \in Aggregate
          /\ record_rejection(EntityOf(row)).app = row.app
          /\ record_rejection(EntityOf(row)).status = "REJECTED"
      BY <1>0, <1>7, EntityType
      DEF RejectEscrow, record_rejection, EntityOf, Aggregate, EscrowStatus, RowStatus
    <2>2. QED
      BY <1>0, <1>5, <1>7, <2>1 DEF RejectEscrow
  <1>8. ASSUME NEW op \in Ops, NEW pc \in {"sign", "hold", "call"}, row \in Row,
               NEW agg \in {NoAggregate, EntityOf(row)}, NEW app,
               app = IF op \in FundOps \cup ReleaseOps \cup RefundOps
                     THEN row.app ELSE NoApp,
               op \in FundOps \cup ReleaseOps \cup RefundOps => row.app # NoApp,
               op = "release" => row.status = "DISPATCHED",
               Begin(r, op, pc, agg, app)
        PROVE  IInv'
    BY <1>8, FreshHandler, BeginStep
  <1>9. CASE SellerApprove(r)
    BY <1>0, <1>8, <1>9
    DEF SellerApprove, Ops, DeployOps, FundOps, ReleaseOps, RefundOps
  <1>10. CASE SellerReject(r)
    BY <1>0, <1>8, <1>10
    DEF SellerReject, Ops, BookOps, FundOps, ReleaseOps, RefundOps
  <1>11. CASE SellerDispatch(r)
    BY <1>0, <1>8, <1>11
    DEF SellerDispatch, Ops, BookOps, FundOps, ReleaseOps, RefundOps
  <1>12. CASE PlatformDeploy(r)
    BY <1>0, <1>8, <1>12
    DEF PlatformDeploy, Ops, DeployOps, FundOps, ReleaseOps, RefundOps
  <1>13. CASE SubmitSignedDeploy(r)
    <2>1. GoodRequest(Handler("pera_deploy", "call", NoAggregate, NoApp))
      BY <1>0, RowIsNotNoRow
      DEF Handler, GoodRequest, NeedsRow, CarriesBacked, CallDone, Backed, ChainClaims,
          Exists, FundOps, ReleaseOps, RefundOps
    <2>2. QED
      BY <1>13, <2>1, BeginStep DEF SubmitSignedDeploy, Ops, DeployOps
  <1>14. CASE PlatformFund(r)
    BY <1>0, <1>8, <1>14 DEF PlatformFund, Ops, FundOps
  <1>15. CASE FundEscrow(r)
    BY <1>0, <1>8, <1>15 DEF FundEscrow, Ops, FundOps
  <1>16. CASE ReleaseToSeller(r)
    <2>1. row.status = "DISPATCHED"
      BY <1>16 DEF ReleaseToSeller, EntityOf
    <2>2. QED
      BY <1>0, <1>8, <1>16, <2>1 DEF ReleaseToSeller, Ops, ReleaseOps
  <1>17. CASE RefundEscrow(r)
    BY <1>0, <1>8, <1>17 DEF RefundEscrow, Ops, RefundOps
  <1>18. CASE BuildRelease(r)
    BY <1>0, <1>8, <1>18 DEF BuildRelease, Ops, ReleaseOps
  <1>19. CASE BuildRefund(r)
    BY <1>0, <1>8, <1>19 DEF BuildRefund, Ops, RefundOps
  <1>20. CASE BuyerConfirm(r)
    BY <1>16, <1>20 DEF BuyerConfirm
  <1>21. CASE BuildFund(r)
    BY <1>0, <1>8, <1>21 DEF BuildFund, Ops, FundOps
  <1>22. QED
    BY <1>3, <1>4, <1>6, <1>7, <1>9, <1>10, <1>11, <1>12, <1>13, <1>14, <1>15,
       <1>16, <1>17, <1>18, <1>19, <1>20, <1>21
    DEF Start

\* A transaction goes from the wallet to the network as it was built.
LEMMA SignedStep ==
  ASSUME IInv, NEW r \in Requests, Signed(r)
  PROVE  IInv'
  <1> DEFINE q == [req[r] EXCEPT !.pc = "call"]
  <1>1. /\ req[r] \in Request
        /\ GoodRequest(req[r])
    BY DEF IInv, TypeOK
  <1>2. /\ req[r].pc = "sign"
        /\ req' = [req EXCEPT ![r] = q]
        /\ UNCHANGED <<row, chain, settlements, dispatched, jobs>>
    BY DEF Signed, SubmitSignedFund, SubmitSignedRelease, SubmitSignedRefund, Submit
  <1>3. q \in Request
    BY <1>1 DEF Request, PCs
  <1>4. /\ q.pc = "call" /\ q.op = req[r].op /\ q.snap = req[r].snap
        /\ q.agg = req[r].agg /\ q.app = req[r].app
    BY <1>1 DEF Request
  <1>5. GoodRequest(q)
    BY <1>1, <1>2, <1>4 DEF GoodRequest, NeedsRow, CarriesBacked, CallDone
  <1>6. \A a \in Apps : ~Owes(q, a)
    BY <1>4 DEF Owes
  <1>7. QED
    BY <1>2, <1>3, <1>5, <1>6, RequestStep

-----------------------------------------------------------------------------
\* Later steps of a handler.

\* The part of the invariant about requests and jobs, for any step of handler r
\* that leaves it with the record q.
LEMMA HandlerStep ==
  ASSUME IInv, NEW r \in Requests, NEW q \in Request, GoodRequest(q)',
         req' = [req EXCEPT ![r] = q], jobs' = jobs,
         Grows, row \in Row => row' \in Row, dispatched => dispatched'
  PROVE  /\ req' \in [Requests -> Request]
         /\ \A s \in Requests : req'[s] = IF s = r THEN q ELSE req[s]
         /\ \A s \in Requests : GoodRequest(req[s])'
         /\ \A job \in Jobs : jobs'[job] => row' \in Row
  <1>1. req' \in [Requests -> Request]
    BY DEF IInv, TypeOK
  <1>2. \A s \in Requests : req'[s] = IF s = r THEN q ELSE req[s]
    BY DEF IInv, TypeOK
  <1>3. \A s \in Requests : req[s] \in Request /\ GoodRequest(req[s])
    BY DEF IInv, TypeOK
  <1>4. \A x \in Request : GoodRequest(x) => GoodRequest(x)'
    BY GoodRequestKept DEF IInv
  <1>5. ASSUME NEW s \in Requests PROVE GoodRequest(req[s])'
    BY <1>2, <1>3, <1>4
    DEF GoodRequest, NeedsRow, CarriesBacked, CallDone, Backed, Exists
  <1>6. QED
    BY <1>1, <1>2, <1>5 DEF IInv

\* While the chain stays it grows.
LEMMA SameChainGrows == chain' = chain => Grows
  BY DEF Grows

\* A handler may end at any time.
LEMMA EndStep ==
  ASSUME IInv, NEW r \in Requests, req' = [req EXCEPT ![r] = Idle],
         UNCHANGED <<row, chain, settlements, dispatched, jobs>>
  PROVE  IInv'
  BY IdleIsGood, RequestStep DEF Owes, Idle

\* The row object a handler loads and keeps is as backed as the row it was read from.
LEMMA HoldRowStep ==
  ASSUME IInv, NEW r \in Requests, HoldRow(r)
  PROVE  IInv'
  <1> DEFINE e == EntityOf(row)
             Held(pc, agg) == [req[r] EXCEPT !.pc = pc, !.snap = row, !.agg = agg]
  <1>1. /\ req[r] \in Request /\ GoodRequest(req[r])
        /\ row \in Row
        /\ Backed(row.status) /\ Exists(row.app)
    BY DEF IInv, TypeOK, GoodRequest, NeedsRow, HoldRow, BookBacked
  <1>2. e \in Aggregate /\ e.app = row.app
    BY <1>1, EntityType DEF EntityOf
  <1>3. ASSUME NEW pc \in {"call", "save"}, NEW agg \in Aggregate \cup {NoAggregate},
               Exists(agg.app),
               pc = "save" => /\ agg \in Aggregate
                              /\ agg.status # "FROZEN" /\ Backed(agg.status)
                              /\ req[r].op \notin ReleaseOps,
               req' = [req EXCEPT ![r] = Held(pc, agg)]
        PROVE  IInv'
    <2>1. Held(pc, agg) \in Request
      BY <1>1 DEF Request, PCs
    <2>2. GoodRequest(Held(pc, agg))
      BY <1>1, <1>3 DEF Request, GoodRequest, CarriesBacked, CallDone
    <2>3. \A a \in Apps : ~Owes(Held(pc, agg), a)
      BY <1>1, <1>3 DEF Request, Owes
    <2>4. QED
      BY <1>3, <2>1, <2>2, <2>3, RequestStep DEF HoldRow
  <1>4. CASE req[r].op \in {"platform_deploy", "release"}
    <2>1. Exists(NoAggregate.app)
      BY DEF NoAggregate, EntityOf, NoRow, Exists
    <2>2. req' = [req EXCEPT ![r] = Held("call", NoAggregate)]
      BY <1>4 DEF HoldRow
    <2>3. QED
      BY <1>3, <2>1, <2>2
  <1>5. CASE req[r].op = "seller_approve"
    <2>1. /\ record_approval(e) \in Aggregate
          /\ record_approval(e).status = "APPROVED"
          /\ record_approval(e).app = row.app
      BY <1>2 DEF record_approval, Aggregate, EscrowStatus, RowStatus
    <2>2. req' = [req EXCEPT ![r] = Held("save", record_approval(e))]
      BY <1>5 DEF HoldRow
    <2>3. QED
      BY <1>1, <1>3, <1>5, <2>1, <2>2 DEF Backed, ChainClaims, ReleaseOps
  <1>6. CASE req[r].op = "seller_reject"
    <2>1. /\ record_rejection(e) \in Aggregate
          /\ record_rejection(e).status = "REJECTED"
          /\ record_rejection(e).app = row.app
      BY <1>2 DEF record_rejection, Aggregate, EscrowStatus, RowStatus
    <2>2. req' = [req EXCEPT ![r] = Held("save", record_rejection(e))]
      BY <1>6 DEF HoldRow
    <2>3. QED
      BY <1>1, <1>3, <1>6, <2>1, <2>2 DEF Backed, ChainClaims, ReleaseOps
  <1>7. CASE req[r].op = "dispatch"
    <2>1. /\ mark_dispatched(e) \in Aggregate
          /\ mark_dispatched(e).status = "DISPATCHED"
          /\ mark_dispatched(e).app = row.app
      BY <1>2 DEF mark_dispatched, Aggregate, EscrowStatus, RowStatus
    <2>2. row.status = "FUNDED"
      BY <1>7 DEF HoldRow, can_mark_dispatched, EntityOf
    <2>3. Backed("DISPATCHED")
      BY <1>1, <2>2 DEF Backed, ChainClaims, BearsOut
    <2>4. req' = [req EXCEPT ![r] = Held("save", mark_dispatched(e))]
      BY <1>7 DEF HoldRow
    <2>5. QED
      BY <1>1, <1>3, <1>7, <2>1, <2>3, <2>4 DEF ReleaseOps
  <1>8. QED
    BY <1>4, <1>5, <1>6, <1>7 DEF HoldRow

\* A handler that inserts the row either goes on to deploy or ends.
LEMMA InsertRowStep ==
  ASSUME IInv, NEW r \in Requests, InsertRow(r)
  PROVE  IInv'
  <1>1. /\ req[r] \in Request /\ GoodRequest(req[r])
        /\ req[r].agg \in Aggregate /\ req[r].agg.status \notin {"FROZEN", "DISPATCHED"}
        /\ Backed(req[r].agg.status) /\ Exists(req[r].agg.app)
    BY DEF IInv, TypeOK, GoodRequest, CarriesBacked, InsertRow
  <1>2. /\ row' \in Row
        /\ row'.status = req[r].agg.status /\ row'.app = req[r].agg.app
    BY <1>1 DEF InsertRow, NewRow, ColumnsOf, Row, Aggregate, EscrowStatus
  <1>3. SUFFICES ASSUME NEW q,
                        q = IF req[r].op = "deploy_escrow"
                            THEN [req[r] EXCEPT !.pc = "call"] ELSE Idle
                 PROVE  IInv'
    OBVIOUS
  <1>4. q \in Request
    BY <1>1, <1>3, IdleIsGood DEF Request, PCs
  <1>5. GoodRequest(q)'
    <2>1. CASE req[r].op = "deploy_escrow"
      <3>1. /\ q.op = "deploy_escrow" /\ q.pc = "call"
            /\ q.snap = req[r].snap /\ q.agg = req[r].agg
        BY <1>1, <1>3, <2>1 DEF Request
      <3>2. CarriesBacked(q)'
        BY <1>1, <3>1 DEF GoodRequest, CarriesBacked, InsertRow, Backed, Exists
      <3>3. QED
        BY <1>2, <3>1, <3>2 DEF GoodRequest, CallDone, FundOps, ReleaseOps, RefundOps
    <2>2. CASE req[r].op # "deploy_escrow"
      BY <1>3, <2>2, IdleStaysGood
    <2>3. QED
      BY <2>1, <2>2
  <1>6. \A a \in Apps : ~Owes(q, a)
    BY <1>1, <1>3, IdleIsGood DEF Owes, Request
  <1>7. req' = [req EXCEPT ![r] = q]
    BY <1>3 DEF InsertRow
  <1>8. /\ req' \in [Requests -> Request]
        /\ \A s \in Requests : req'[s] = IF s = r THEN q ELSE req[s]
        /\ \A s \in Requests : GoodRequest(req[s])'
        /\ \A job \in Jobs : jobs'[job] => row' \in Row
    BY <1>2, <1>4, <1>5, <1>7, HandlerStep, SameChainGrows DEF InsertRow
  <1>9. ReleasesOwedOnce'
    BY <1>6, <1>8 DEF IInv, ReleasesOwedOnce, Owes, InsertRow
  <1>10. BookBacked'
    BY <1>1, <1>2 DEF BookBacked, Backed, Exists, InsertRow
  <1>11. QED
    BY <1>1, <1>2, <1>8, <1>9, <1>10
    DEF IInv, TypeOK, InsertRow, OneSettlementPerRelease, PlatformReleasesDispatched

\* A handler that saves its aggregate writes back only what the chain bears out,
\* and enters the release it owes.
LEMMA SaveRowStep ==
  ASSUME IInv, NEW r \in Requests, SaveRow(r)
  PROVE  IInv'
  <1>1. /\ req[r] \in Request /\ GoodRequest(req[r]) /\ req[r].pc = "save"
        /\ req[r].agg \in Aggregate /\ req[r].agg.status # "FROZEN"
        /\ Backed(req[r].agg.status) /\ Exists(req[r].agg.app)
        /\ row \in Row
    BY DEF IInv, TypeOK, GoodRequest, CarriesBacked, NeedsRow, SaveRow
  <1>2. row' = Merged(row, Seen(r), req[r].agg)
    BY DEF SaveRow
  <1>3. Seen(r) \in Row \cup {NoRow}
    BY <1>1 DEF Seen, Request
  <1>4. /\ row' \in Row
        /\ row'.status \in {req[r].agg.status, row.status}
        /\ row'.app \in {req[r].agg.app, row.app}
    BY <1>1, <1>2, <1>3, MergedType, MergedColumns
  <1>5. BookBacked'
    BY <1>1, <1>4 DEF IInv, BookBacked, Backed, Exists, SaveRow
  <1>6. /\ dispatched' \in BOOLEAN
        /\ dispatched => dispatched'
        /\ row'.status = "DISPATCHED" => dispatched'
    BY <1>2 DEF SaveRow, IInv, TypeOK
  <1>7. SUFFICES ASSUME NEW q,
                        q = IF SavesApproval(r)
                            THEN [req[r] EXCEPT !.pc = "call", !.agg = NoAggregate,
                                                !.snap.status = req[r].agg.status]
                            ELSE Idle
                 PROVE  IInv'
    OBVIOUS
  <1>8. req' = [req EXCEPT ![r] = q]
    BY <1>7 DEF SaveRow
  <1>9. q \in Request /\ GoodRequest(q)' /\ \A a \in Apps : ~Owes(q, a)
    <2>1. CASE SavesApproval(r)
      <3> DEFINE snap == [req[r].snap EXCEPT !.status = req[r].agg.status]
      <3>1. /\ snap \in Row
            /\ snap.status = req[r].agg.status /\ snap.app = req[r].snap.app
        <4>1. req[r].agg.status \in RowStatus
          BY <1>1 DEF Aggregate, EscrowStatus
        <4>2. req[r].snap \in Row \cup {NoRow}
          BY <1>1 DEF Request
        <4>3. QED
          BY <4>1, <4>2, SetStatusType
      <3>2. /\ q = [req[r] EXCEPT !.pc = "call", !.agg = NoAggregate, !.snap = snap]
            /\ req[r].op = "seller_approve"
        BY <1>7, <2>1 DEF SavesApproval
      <3> HIDE DEF snap
      <3>3. /\ q \in Request
            /\ q.op = "seller_approve" /\ q.pc = "call" /\ q.agg = NoAggregate
            /\ q.snap = snap
        BY <1>1, <3>1, <3>2 DEF Request, PCs
      <3>4. NoAggregate.app = NoApp
        BY DEF NoAggregate, EntityOf, NoRow
      <3>5. CarriesBacked(q)'
        BY <1>1, <3>1, <3>3, <3>4
        DEF GoodRequest, CarriesBacked, SaveRow, Backed, Exists
      <3>6. CallDone(q)'
        BY <3>3 DEF CallDone, FundOps, ReleaseOps, RefundOps
      <3>7. QED
        BY <1>4, <3>3, <3>5, <3>6 DEF GoodRequest, Owes
    <2>2. CASE ~SavesApproval(r)
      BY <1>7, <2>2, IdleIsGood, IdleStaysGood
    <2>3. QED
      BY <2>1, <2>2
  <1>10. /\ req' \in [Requests -> Request]
         /\ \A s \in Requests : req'[s] = IF s = r THEN q ELSE req[s]
         /\ \A s \in Requests : GoodRequest(req[s])'
         /\ \A job \in Jobs : jobs'[job] => row' \in Row
    BY <1>4, <1>6, <1>8, <1>9, HandlerStep, SameChainGrows DEF SaveRow
  <1>11. /\ settlements' \in [Apps -> Nat]
         /\ OneSettlementPerRelease'
         /\ ReleasesOwedOnce'
    <2>1. ASSUME NEW s \in Requests, NEW a \in Apps, Owes(req'[s], a)
          PROVE  s # r /\ Owes(req[s], a)
      BY <1>9, <1>10, <2>1
    <2>2. CASE req[r].op \in ReleaseOps
      <3>1. /\ req[r].app \in Apps
            /\ Owes(req[r], req[r].app)
            /\ chain[req[r].app].status = "RELEASED"
        BY <1>1, <2>2 DEF GoodRequest, CallDone, Owes
      <3>2. settlements[req[r].app] = 0
        BY <3>1 DEF IInv, ReleasesOwedOnce
      <3>3. settlements' = [settlements EXCEPT ![req[r].app] = 1]
        BY <2>2, <3>2 DEF SaveRow
      <3>4. ASSUME NEW a \in Apps, NEW s \in Requests, Owes(req[s], a), s # r
            PROVE  a # req[r].app
        BY <3>1, <3>4 DEF IInv, ReleasesOwedOnce
      <3>5. ASSUME NEW a \in Apps, NEW s \in Requests, Owes(req'[s], a)
            PROVE  /\ settlements'[a] = 0
                   /\ \A t \in Requests : Owes(req'[t], a) => t = s
        BY <2>1, <3>3, <3>4, <3>5 DEF IInv, TypeOK, ReleasesOwedOnce
      <3>6. ReleasesOwedOnce'
        BY <3>5 DEF ReleasesOwedOnce, Owes
      <3>7. QED
        BY <3>1, <3>3, <3>6 DEF IInv, TypeOK, OneSettlementPerRelease, SaveRow
    <2>3. CASE req[r].op \notin ReleaseOps
      <3>1. settlements' = settlements
        BY <2>3 DEF SaveRow
      <3>2. ASSUME NEW a \in Apps, NEW s \in Requests, Owes(req'[s], a)
            PROVE  /\ settlements'[a] = 0
                   /\ \A t \in Requests : Owes(req'[t], a) => t = s
        BY <2>1, <3>1, <3>2 DEF IInv, ReleasesOwedOnce
      <3>3. ReleasesOwedOnce'
        BY <3>2 DEF ReleasesOwedOnce, Owes
      <3>4. QED
        BY <3>1, <3>3 DEF IInv, TypeOK, OneSettlementPerRelease, SaveRow
    <2>4. QED
      BY <2>2, <2>3
  <1>12. QED
    BY <1>4, <1>5, <1>6, <1>10, <1>11
    DEF IInv, TypeOK, SaveRow, PlatformReleasesDispatched

\* A chain call that takes application a to the state c, whether its reply
\* reaches the handler or not.
LEMMA CallStep ==
  ASSUME IInv, NEW r \in Requests, req[r].pc = "call", NEW a \in Apps, NEW c \in App,
         chain' = [chain EXCEPT ![a] = c],
         Called(r, a),
         UNCHANGED <<row, settlements, dispatched, jobs>>,
         Grows,
         req[r].op \in DeployOps => BearsOut(c.status, "DEPLOYED"),
         req[r].op \in FundOps => BearsOut(c.status, "FUNDED"),
         req[r].op \in RefundOps => BearsOut(c.status, "REFUNDED"),
         req[r].op \in ReleaseOps => c.status = "RELEASED",
         c.status = "RELEASED" => /\ chain[a].status = "FUNDED"
                                  /\ c.creator = "platform" => req[r].op = "release"
  PROVE  IInv'
  <1>1. /\ req[r] \in Request /\ GoodRequest(req[r])
        /\ chain' \in [Apps -> App]
        /\ \A b \in Apps : chain'[b] = IF b = a THEN c ELSE chain[b]
    BY DEF IInv, TypeOK
  <1>2. PICK q : /\ req' = [req EXCEPT ![r] = q]
                 /\ q \in {Idle, [req[r] EXCEPT !.pc = "record", !.app = a]}
    BY DEF Called
  <1>3. q \in Request /\ GoodRequest(q)'
    <2>1. CASE q = Idle
      BY <2>1, IdleIsGood, IdleStaysGood
    <2>2. CASE q = [req[r] EXCEPT !.pc = "record", !.app = a]
      <3>1. /\ q \in Request
            /\ q.op = req[r].op /\ q.pc = "record" /\ q.app = a
            /\ q.snap = req[r].snap /\ q.agg = req[r].agg
        BY <1>1, <2>2 DEF Request, PCs
      <3>2. NeedsRow(q)' => row' \in Row
        BY <1>1, <3>1 DEF GoodRequest, NeedsRow
      <3>3. CarriesBacked(q)'
        <4>1. ASSUME NEW status, Backed(status) PROVE Backed(status)'
          BY <4>1 DEF Backed, Grows
        <4>2. ASSUME NEW b \in Apps \cup {NoApp}, Exists(b) PROVE Exists(b)'
          <5>1. b \in Apps => (chain[b].status # "ABSENT" => chain'[b].status # "ABSENT")
            BY DEF Grows, BearsOut, ChainClaims
          <5>2. QED
            BY <4>2, <5>1 DEF Exists
        <4>3. q.snap.app \in Apps \cup {NoApp} /\ q.agg.app \in Apps \cup {NoApp}
          BY <3>1 DEF Request, Row, NoRow, Aggregate, NoAggregate, EntityOf
        <4>4. QED
          BY <1>1, <3>1, <4>1, <4>2, <4>3 DEF GoodRequest, CarriesBacked
      <3>4. CallDone(q)'
        BY <1>1, <3>1 DEF CallDone, BearsOut, GoodRequest
      <3>5. QED
        BY <1>1, <3>1, <3>2, <3>3, <3>4 DEF GoodRequest
    <2>3. QED
      BY <1>2, <2>1, <2>2
  <1>4. /\ req' \in [Requests -> Request]
        /\ \A s \in Requests : req'[s] = IF s = r THEN q ELSE req[s]
        /\ \A s \in Requests : GoodRequest(req[s])'
        /\ \A job \in Jobs : jobs'[job] => row' \in Row
    BY <1>2, <1>3, HandlerStep
  <1>5. BookBacked'
    <2>1. row.app \in Apps \cup {NoApp}
      BY DEF IInv, TypeOK, Row, NoRow
    <2>2. Exists(row.app)'
      BY <2>1 DEF IInv, BookBacked, Exists, Grows, BearsOut, ChainClaims
    <2>3. Backed(row.status)'
      BY DEF IInv, BookBacked, Backed, Grows
    <2>4. QED
      BY <2>2, <2>3 DEF BookBacked
  <1>6. OneSettlementPerRelease'
    BY <1>1 DEF IInv, OneSettlementPerRelease, Grows, BearsOut, ChainClaims
  <1>7. PlatformReleasesDispatched'
    BY <1>1 DEF IInv, PlatformReleasesDispatched, GoodRequest
  <1>8. ReleasesOwedOnce'
    <2>1. ASSUME NEW s \in Requests, NEW b \in Apps, Owes(req[s], b)
          PROVE  chain[b].status = "RELEASED"
      <3>1. CallDone(req[s]) /\ req[s].op \in ReleaseOps /\ req[s].app = b
            /\ req[s].pc \in {"record", "save"}
        BY <2>1 DEF IInv, GoodRequest, Owes
      <3>2. QED
        BY <3>1 DEF CallDone, BearsOut
    <2>2. ASSUME NEW b \in Apps, Owes(q, b)
          PROVE  /\ b = a /\ settlements[a] = 0
                 /\ \A s \in Requests : ~Owes(req[s], a)
      <3>1. q.op = req[r].op /\ q.app = a /\ b = a /\ req[r].op \in ReleaseOps
        BY <1>1, <1>2, <2>2, IdleIsGood DEF Owes, Request
      <3>2. chain[a].status = "FUNDED"
        BY <3>1
      <3>3. settlements[a] = 0
        BY <3>2 DEF IInv, TypeOK, OneSettlementPerRelease
      <3>4. QED
        BY <2>1, <3>1, <3>2, <3>3
    <2>3. ASSUME NEW b \in Apps, NEW s \in Requests, Owes(req'[s], b)
          PROVE  /\ settlements[b] = 0
                 /\ \A t \in Requests : Owes(req'[t], b) => t = s
      BY <1>4, <2>2, <2>3 DEF IInv, ReleasesOwedOnce
    <2>4. QED
      BY <2>3 DEF ReleasesOwedOnce, Owes
  <1>9. QED
    BY <1>1, <1>4, <1>5, <1>6, <1>7, <1>8 DEF IInv, TypeOK

\* One application that moves forward makes the chain grow.
LEMMA MoveGrows ==
  ASSUME TypeOK, NEW a \in Apps, NEW c,
         chain' = [chain EXCEPT ![a] = c],
         \/ chain[a].status = "ABSENT"
         \/ chain[a].status = "DEPLOYED" /\ c.status = "FUNDED"
         \/ chain[a].status = "FUNDED" /\ c.status \in {"RELEASED", "REFUNDED"}
  PROVE  Grows
  <1>1. \A b \in Apps : chain'[b] = IF b = a THEN c ELSE chain[b]
    BY DEF TypeOK
  <1>2. QED
    BY <1>1 DEF Grows, BearsOut, ChainClaims

\* A deployment creates one application and hands it to its handler.
LEMMA CallDeployStep ==
  ASSUME IInv, NEW r \in Requests, CallDeploy(r)
  PROVE  IInv'
  <1>1. PICK a \in Apps, b \in BuyerWallets(req[r].op), s \in SellerWallets(req[r].op) :
          /\ chain[a].status = "ABSENT"
          /\ chain' = [chain EXCEPT ![a] = Initialized(Signer(req[r].op), b, s)]
          /\ Called(r, a)
    BY DEF CallDeploy
  <1>2. SUFFICES ASSUME NEW c, c = Initialized(Signer(req[r].op), b, s)
                 PROVE  IInv'
    OBVIOUS
  <1>3. c \in App /\ c.status = "DEPLOYED"
    <2>1. b \in Accounts /\ s \in Accounts /\ Signer(req[r].op) \in Accounts
      BY DEF BuyerWallets, SellerWallets, StandIns, Accounts, Signer
    <2>2. QED
      BY <1>2, <2>1 DEF Initialized, App, AppStatus
  <1>4. Grows
    BY <1>1, <1>2, MoveGrows DEF IInv
  <1>5. QED
    BY <1>1, <1>2, <1>3, <1>4, CallStep
    DEF CallDeploy, DeployOps, FundOps, ReleaseOps, RefundOps, BearsOut

\* An operation on a recorded application names an application.
LEMMA CallsApplication ==
  ASSUME IInv, NEW r \in Requests, req[r].op \in FundOps \cup ReleaseOps \cup RefundOps
  PROVE  req[r].app \in Apps /\ chain[req[r].app] \in App
  BY DEF IInv, TypeOK, GoodRequest, CallDone

\* A fund() that the contract accepts makes the application FUNDED.
LEMMA CallFundStep ==
  ASSUME IInv, NEW r \in Requests, CallFund(r)
  PROVE  IInv'
  <1>1. SUFFICES ASSUME NEW a \in Apps, a = req[r].app, NEW c, c = Funded(chain[a])
                 PROVE  IInv'
    BY CallsApplication DEF CallFund
  <1>2. c \in App /\ c.status = "FUNDED" /\ chain[a].status = "DEPLOYED"
    BY <1>1 DEF CallFund, CanFund, Funded, IInv, TypeOK, App, AppStatus
  <1>3. chain' = [chain EXCEPT ![a] = c] /\ Called(r, a)
    BY <1>1 DEF CallFund
  <1>4. Grows
    BY <1>2, <1>3, MoveGrows DEF IInv
  <1>5. QED
    BY <1>2, <1>3, <1>4, CallStep
    DEF CallFund, DeployOps, FundOps, ReleaseOps, RefundOps, BearsOut

\* A release() that the contract accepts makes its handler owe one settlement row.
LEMMA CallReleaseStep ==
  ASSUME IInv, NEW r \in Requests, CallRelease(r)
  PROVE  IInv'
  <1>1. SUFFICES ASSUME NEW a \in Apps, a = req[r].app, NEW c, c = Released(chain[a])
                 PROVE  IInv'
    BY CallsApplication DEF CallRelease
  <1>2. /\ c \in App /\ c.status = "RELEASED" /\ c.creator = chain[a].creator
        /\ chain[a].status = "FUNDED" /\ chain[a].creator = Signer(req[r].op)
    BY <1>1 DEF CallRelease, CanRelease, Released, IInv, TypeOK, App, AppStatus
  <1>3. chain' = [chain EXCEPT ![a] = c] /\ Called(r, a)
    BY <1>1 DEF CallRelease
  <1>4. Grows
    BY <1>2, <1>3, MoveGrows DEF IInv
  <1>5. c.creator = "platform" => req[r].op = "release"
    BY <1>2 DEF CallRelease, ReleaseOps, Signer
  <1>6. QED
    BY <1>2, <1>3, <1>4, <1>5, CallStep
    DEF CallRelease, DeployOps, FundOps, ReleaseOps, RefundOps

\* A refund() that the contract accepts makes the application REFUNDED.
LEMMA CallRefundStep ==
  ASSUME IInv, NEW r \in Requests, CallRefund(r)
  PROVE  IInv'
  <1>1. SUFFICES ASSUME NEW a \in Apps, a = req[r].app, NEW c, c = Refunded(chain[a])
                 PROVE  IInv'
    BY CallsApplication DEF CallRefund
  <1>2. c \in App /\ c.status = "REFUNDED" /\ chain[a].status = "FUNDED"
    BY <1>1 DEF CallRefund, CanRefund, Refunded, IInv, TypeOK, App, AppStatus
  <1>3. chain' = [chain EXCEPT ![a] = c] /\ Called(r, a)
    BY <1>1 DEF CallRefund
  <1>4. Grows
    BY <1>2, <1>3, MoveGrows DEF IInv
  <1>5. QED
    BY <1>2, <1>3, <1>4, CallStep
    DEF CallRefund, DeployOps, FundOps, ReleaseOps, RefundOps, BearsOut

\* A handler that records on an aggregate what the chain bears out.
LEMMA RecordedStep ==
  ASSUME IInv, NEW r \in Requests, req[r].pc = "record",
         NEW can \in BOOLEAN, NEW agg, NEW next \in {"insert", "save"},
         Recorded(r, can, agg, next),
         can => /\ agg \in Aggregate
                /\ agg.status \notin {"FROZEN", "DISPATCHED"}
                /\ Backed(agg.status) /\ Exists(agg.app),
         next = "save" => row \in Row,
         next = "insert" => req[r].op \in DeployOps \ {"deploy_escrow"},
         can /\ req[r].op \in ReleaseOps => /\ agg.status = "RELEASED"
                                            /\ req[r].snap.status # "RELEASED"
  PROVE  IInv'
  <1>1. req[r] \in Request /\ GoodRequest(req[r])
    BY DEF IInv, TypeOK
  <1>2. CASE ~can
    BY <1>2, EndStep DEF Recorded
  <1>3. CASE can
    <2>1. SUFFICES ASSUME NEW q, q = [req[r] EXCEPT !.pc = next, !.agg = agg]
                   PROVE  IInv'
      OBVIOUS
    <2>2. /\ q \in Request
          /\ q.op = req[r].op /\ q.pc = next /\ q.agg = agg
          /\ q.snap = req[r].snap /\ q.app = req[r].app
      BY <1>1, <1>3, <2>1 DEF Request, PCs
    <2>3. NeedsRow(q) => row \in Row
      BY <1>1, <2>2 DEF GoodRequest, NeedsRow
    <2>4. CarriesBacked(q)
      BY <1>1, <1>3, <2>2 DEF GoodRequest, CarriesBacked
    <2>5. CallDone(q)
      BY <1>1, <1>3, <2>2 DEF GoodRequest, CallDone, BearsOut
    <2>6. GoodRequest(q)
      BY <1>1, <2>2, <2>3, <2>4, <2>5 DEF GoodRequest
    <2>7. \A a \in Apps : Owes(q, a) => Owes(req[r], a)
      BY <2>2 DEF Owes
    <2>8. QED
      BY <1>3, <2>1, <2>2, <2>6, <2>7, RequestStep DEF Recorded
  <1>4. QED
    BY <1>2, <1>3

\* The row object a handler sees, and what it knows about it.
LEMMA SeenBacked ==
  ASSUME IInv, NEW r \in Requests
  PROVE  /\ Seen(r) \in Row \cup {NoRow}
         /\ Exists(Seen(r).app)
         /\ Seen(r) # NoRow => row \in Row
         /\ EntityOf(Seen(r)) \in Aggregate \cup {NoAggregate}
         /\ EntityOf(Seen(r)).app = Seen(r).app
  <1>1. /\ req[r] \in Request /\ GoodRequest(req[r])
        /\ row \in Row \cup {NoRow}
    BY DEF IInv, TypeOK
  <1>2. Seen(r) \in Row \cup {NoRow}
    BY <1>1 DEF Seen, Request
  <1>3. Exists(Seen(r).app)
    BY <1>1 DEF Seen, GoodRequest, CarriesBacked, IInv, BookBacked
  <1>4. Seen(r) # NoRow => row \in Row
    BY <1>1 DEF Seen, GoodRequest, NeedsRow
  <1>5. QED
    BY <1>2, <1>3, <1>4, EntityType DEF NoAggregate, EntityOf

\* The aggregate in hand, with the same knowledge.
LEMMA InHandBacked ==
  ASSUME IInv, NEW r \in Requests
  PROVE  /\ InHand(r) \in Aggregate \cup {NoAggregate}
         /\ Exists(InHand(r).app)
  <1>1. req[r].agg \in Aggregate \cup {NoAggregate} /\ Exists(req[r].agg.app)
    BY DEF IInv, TypeOK, Request, GoodRequest, CarriesBacked
  <1>2. QED
    BY <1>1, SeenBacked DEF InHand

\* Moving an aggregate, or the missing one, to a status gives an aggregate.
LEMMA MovedType ==
  ASSUME NEW e \in Aggregate \cup {NoAggregate}, NEW status \in EscrowStatus
  PROVE  /\ [e EXCEPT !.status = status] \in Aggregate
         /\ [e EXCEPT !.status = status].status = status
         /\ [e EXCEPT !.status = status].app = e.app
  <1> DEFINE Wide == [status : EscrowStatus \cup {"NONE"}, frozen : BOOLEAN,
                      app : Apps \cup {NoApp}]
  <1>1. NoAggregate = [status |-> "NONE", frozen |-> FALSE, app |-> NoApp]
    BY DEF NoAggregate, EntityOf, NoRow
  <1>2. NoAggregate \in Wide
    BY <1>1
  <1>3. e \in Aggregate => e \in Wide
    BY DEF Aggregate
  <1>4. e \in Wide
    BY <1>2, <1>3
  <1>5. QED
    BY <1>4 DEF Aggregate

\* record_deployment is made for an application that the chain has.
LEMMA RecordDeploymentStep ==
  ASSUME IInv, NEW r \in Requests, RecordDeployment(r)
  PROVE  IInv'
  <1>1. SUFFICES ASSUME NEW missing,
                        missing = (req[r].op # "deploy_escrow" /\ Seen(r) = NoRow),
                        NEW e, e = IF missing THEN NewEscrow("DEPLOYED") ELSE InHand(r),
                        NEW agg, agg = record_deployment(e, req[r].app)
                 PROVE  IInv'
    OBVIOUS
  <1>2. /\ req[r].pc = "record" /\ req[r].op \in DeployOps
        /\ Recorded(r, can_record_deployment(e), agg,
                    IF missing THEN "insert" ELSE "save")
    BY <1>1 DEF RecordDeployment
  <1>3. /\ req[r].app \in Apps
        /\ BearsOut(chain[req[r].app].status, "DEPLOYED")
    BY <1>2 DEF IInv, GoodRequest, CallDone
  <1>4. /\ agg \in Aggregate
        /\ agg.status = "DEPLOYED" /\ agg.app = req[r].app
    <2>1. NewEscrow("DEPLOYED") \in Aggregate
      BY DEF NewEscrow, Aggregate, EscrowStatus, RowStatus
    <2>2. e \in Aggregate \cup {NoAggregate}
      BY <1>1, <2>1, InHandBacked
    <2>3. SUFFICES ASSUME NEW moved, moved = [e EXCEPT !.status = "DEPLOYED"]
                   PROVE  /\ agg \in Aggregate
                          /\ agg.status = "DEPLOYED" /\ agg.app = req[r].app
      OBVIOUS
    <2>4. moved \in Aggregate /\ moved.status = "DEPLOYED"
      BY <2>2, <2>3, MovedType DEF EscrowStatus, RowStatus
    <2>5. agg = [moved EXCEPT !.app = req[r].app]
      BY <1>1, <2>2, <2>3 DEF record_deployment, Aggregate, NoAggregate, EntityOf
    <2>6. QED
      BY <1>3, <2>4, <2>5 DEF Aggregate
  <1>5. Backed(agg.status) /\ Exists(agg.app)
    BY <1>3, <1>4 DEF Backed, Exists, BearsOut
  <1>6. ~missing => row \in Row
    <2>1. CASE req[r].op = "deploy_escrow"
      BY <1>2, <2>1 DEF IInv, GoodRequest, NeedsRow
    <2>2. CASE req[r].op # "deploy_escrow"
      BY <1>1, <2>2, SeenBacked
    <2>3. QED
      BY <2>1, <2>2
  <1>7. missing => req[r].op \in DeployOps \ {"deploy_escrow"}
    BY <1>1, <1>2
  <1>8. req[r].op \notin ReleaseOps
    BY <1>2 DEF DeployOps, ReleaseOps
  <1>9. can_record_deployment(e) \in BOOLEAN
    BY DEF can_record_deployment
  <1>10. QED
    BY <1>2, <1>4, <1>5, <1>6, <1>7, <1>8, <1>9, RecordedStep

\* record_funding is made for an application that was funded.
LEMMA RecordFundingStep ==
  ASSUME IInv, NEW r \in Requests, RecordFunding(r)
  PROVE  IInv'
  <1>1. SUFFICES ASSUME NEW e, e = InHand(r), NEW agg, agg = record_funding(e)
                 PROVE  IInv'
    OBVIOUS
  <1>2. /\ req[r].pc = "record" /\ req[r].op \in FundOps
        /\ Recorded(r, can_record_funding(e), agg, "save")
    BY <1>1 DEF RecordFunding
  <1>3. /\ agg \in Aggregate
        /\ agg.status = "FUNDED" /\ agg.app = e.app /\ Exists(e.app)
    <2>1. e \in Aggregate \cup {NoAggregate} /\ Exists(e.app)
      BY <1>1, InHandBacked
    <2>2. "FUNDED" \in EscrowStatus
      BY DEF EscrowStatus, RowStatus
    <2>3. QED
      BY <1>1, <2>1, <2>2, MovedType DEF record_funding
  <1>4. req[r].app \in Apps /\ BearsOut(chain[req[r].app].status, "FUNDED")
    BY <1>2 DEF IInv, GoodRequest, CallDone
  <1>5. Backed(agg.status)
    BY <1>3, <1>4 DEF Backed
  <1>6. row \in Row
    BY <1>2 DEF IInv, GoodRequest, NeedsRow
  <1>7. can_record_funding(e) \in BOOLEAN /\ req[r].op \notin ReleaseOps
    BY <1>2 DEF FundOps, ReleaseOps, can_record_funding
  <1>8. QED
    BY <1>2, <1>3, <1>5, <1>6, <1>7, RecordedStep

\* record_release is made by the one handler that owes the release.
LEMMA RecordReleaseStep ==
  ASSUME IInv, NEW r \in Requests, RecordRelease(r)
  PROVE  IInv'
  <1>1. SUFFICES ASSUME NEW e, e = InHand(r), NEW agg, agg = record_release(e)
                 PROVE  IInv'
    OBVIOUS
  <1>2. /\ req[r].pc = "record" /\ req[r].op \in ReleaseOps
        /\ Recorded(r, can_record_release(e), agg, "save")
    BY <1>1 DEF RecordRelease
  <1>3. /\ agg \in Aggregate
        /\ agg.status = "RELEASED" /\ agg.app = e.app /\ Exists(e.app)
    <2>1. e \in Aggregate \cup {NoAggregate} /\ Exists(e.app)
      BY <1>1, InHandBacked
    <2>2. "RELEASED" \in EscrowStatus
      BY DEF EscrowStatus, RowStatus
    <2>3. QED
      BY <1>1, <2>1, <2>2, MovedType DEF record_release
  <1>4. req[r].app \in Apps /\ BearsOut(chain[req[r].app].status, "RELEASED")
    BY <1>2 DEF IInv, GoodRequest, CallDone
  <1>5. Backed(agg.status)
    BY <1>3, <1>4 DEF Backed
  <1>6. row \in Row
    BY <1>2 DEF IInv, GoodRequest, NeedsRow
  <1>7. ASSUME can_record_release(e) PROVE req[r].snap.status # "RELEASED"
    <2>1. e = EntityOf(Seen(r))
      BY <1>1, <1>2 DEF InHand, KeepsAggregate, ReleaseOps
    <2>2. CASE req[r].snap # NoRow
      BY <1>7, <2>1, <2>2 DEF Seen, EntityOf, can_record_release
    <2>3. CASE req[r].snap = NoRow
      BY <2>3, RowIsNotNoRow
    <2>4. QED
      BY <2>2, <2>3
  <1>8. can_record_release(e) \in BOOLEAN
    BY DEF can_record_release
  <1>9. QED
    BY <1>2, <1>3, <1>5, <1>6, <1>7, <1>8, RecordedStep

\* record_refund is made for an application that was refunded.
LEMMA RecordRefundStep ==
  ASSUME IInv, NEW r \in Requests, RecordRefund(r)
  PROVE  IInv'
  <1>1. SUFFICES ASSUME NEW e, e = InHand(r), NEW agg, agg = record_refund(e)
                 PROVE  IInv'
    OBVIOUS
  <1>2. /\ req[r].pc = "record" /\ req[r].op \in RefundOps
        /\ Recorded(r, can_record_refund(e), agg, "save")
    BY <1>1 DEF RecordRefund
  <1>3. /\ agg \in Aggregate
        /\ agg.status = "REFUNDED" /\ agg.app = e.app /\ Exists(e.app)
    <2>1. SUFFICES ASSUME NEW moved, moved = [e EXCEPT !.status = "REFUNDED"]
                   PROVE  /\ agg \in Aggregate
                          /\ agg.status = "REFUNDED" /\ agg.app = e.app /\ Exists(e.app)
      OBVIOUS
    <2>2. moved \in Aggregate /\ moved.status = "REFUNDED" /\ moved.app = e.app
      BY <1>1, <2>1, InHandBacked, MovedType DEF EscrowStatus, RowStatus
    <2>3. agg = [moved EXCEPT !.frozen = FALSE]
      BY <1>1, <2>1 DEF record_refund
    <2>4. QED
      BY <1>1, <2>2, <2>3, InHandBacked DEF Aggregate
  <1>4. req[r].app \in Apps /\ BearsOut(chain[req[r].app].status, "REFUNDED")
    BY <1>2 DEF IInv, GoodRequest, CallDone
  <1>5. Backed(agg.status)
    BY <1>3, <1>4 DEF Backed
  <1>6. row \in Row
    BY <1>2 DEF IInv, GoodRequest, NeedsRow
  <1>7. can_record_refund(e) \in BOOLEAN /\ req[r].op \notin ReleaseOps
    BY <1>2 DEF RefundOps, ReleaseOps, can_record_refund
  <1>8. QED
    BY <1>2, <1>3, <1>5, <1>6, <1>7, RecordedStep

-----------------------------------------------------------------------------
\* The periodic jobs.

\* A job that leaves the row with a status it had before, or with REJECTED.
LEMMA JobUpdateStep ==
  ASSUME IInv, row' \in Row, row'.status \in {row.status, "REJECTED"}, row'.app = row.app,
         jobs' \in [Jobs -> BOOLEAN],
         UNCHANGED <<chain, settlements, dispatched, req>>
  PROVE  IInv'
  <1>1. \A q \in Request : GoodRequest(q) => GoodRequest(q)'
    BY GoodRequestKept, SameChainGrows DEF IInv
  <1>2. ASSUME NEW r \in Requests PROVE GoodRequest(req[r])'
    <2>1. req[r] \in Request /\ GoodRequest(req[r])
      BY DEF IInv, TypeOK
    <2>2. QED
      BY <1>1, <2>1 DEF GoodRequest, NeedsRow, CarriesBacked, CallDone, Backed, Exists
  <1>3. ReleasesOwedOnce'
    BY DEF IInv, ReleasesOwedOnce, Owes
  <1>4. BookBacked'
    BY DEF IInv, BookBacked, Backed, Exists, ChainClaims
  <1>5. QED
    BY <1>2, <1>3, <1>4
    DEF IInv, TypeOK, OneSettlementPerRelease, PlatformReleasesDispatched

\* The periodic jobs write only statuses that claim nothing new.
LEMMA JobStep ==
  ASSUME IInv, Job
  PROVE  IInv'
  <1>1. row \in Row \cup {NoRow} /\ jobs \in [Jobs -> BOOLEAN]
    BY DEF IInv, TypeOK
  <1>2. ASSUME NEW job \in Jobs, NEW overdue, SelectOverdue(job, overdue),
               overdue => row.status # "NONE"
        PROVE  IInv'
    <2>1. row \in Row
      BY <1>1, <1>2, RowIsNotNoRow DEF SelectOverdue
    <2>2. QED
      BY <1>1, <1>2, <2>1, JobUpdateStep DEF SelectOverdue
  <1>3. CASE SelectApprovalOverdue
    BY <1>2, <1>3 DEF SelectApprovalOverdue, Jobs
  <1>4. CASE SelectDispatchOverdue
    BY <1>2, <1>4 DEF SelectDispatchOverdue, Jobs
  <1>5. CASE AutoReject
    <2>1. row \in Row
      BY <1>5 DEF AutoReject, IInv, Jobs
    <2>2. row' \in Row /\ row'.status = "REJECTED" /\ row'.app = row.app
      BY <1>5, <2>1 DEF AutoReject, Row, RowStatus
    <2>3. QED
      BY <1>1, <1>5, <2>2, JobUpdateStep DEF AutoReject
  <1>6. CASE AutoFreeze
    <2>1. row \in Row
      BY <1>6 DEF AutoFreeze, IInv, Jobs
    <2>2. row' \in Row /\ row'.status = row.status /\ row'.app = row.app
      BY <1>6, <2>1 DEF AutoFreeze, Row
    <2>3. QED
      BY <1>1, <1>6, <2>2, JobUpdateStep DEF AutoFreeze
  <1>7. ASSUME NEW job \in Jobs, AbortJob(job) PROVE IInv'
    <2>1. row \in Row
      BY <1>7 DEF AbortJob, IInv
    <2>2. QED
      BY <1>1, <1>7, <2>1, JobUpdateStep DEF AbortJob
  <1>8. QED
    BY <1>3, <1>4, <1>5, <1>6, <1>7 DEF Job

-----------------------------------------------------------------------------
\* One application per deal.  While deployments do not overlap with other
\* requests, every request names the application of the row, so nothing replaces
\* that application and no other one is funded.

\* A step that leaves the row's application, and after which only that
\* application may be newly funded, preserves AppIInv if the request it moves
\* still names the row's application.
LEMMA SameAppStep ==
  ASSUME TypeOK, AppIInv, NEW r \in Requests, NEW q,
         FollowsRow(q, row.app),
         req' = [req EXCEPT ![r] = q],
         row'.app = row.app,
         \A a \in Apps : /\ BearsOut(chain'[a].status, "FUNDED")
                         /\ ~BearsOut(chain[a].status, "FUNDED")
                         => a = row.app
  PROVE  AppIInv'
  <1>1. \A s \in Requests : req'[s] = IF s = r THEN q ELSE req[s]
    BY DEF TypeOK
  <1>2. \A s \in Requests : FollowsRow(req'[s], row'.app)
    BY <1>1 DEF AppIInv
  <1>3. FundedIsRecorded'
    BY DEF AppIInv, FundedIsRecorded
  <1>4. QED
    BY <1>2, <1>3 DEF AppIInv

\* The same when nothing but the request changes.
LEMMA SameBookStep ==
  ASSUME TypeOK, AppIInv, NEW r \in Requests, NEW q,
         FollowsRow(q, row.app),
         req' = [req EXCEPT ![r] = q],
         UNCHANGED <<row, chain>>
  PROVE  AppIInv'
  BY SameAppStep

\* A handler that has ended names no application.
LEMMA IdleFollows == \A app : FollowsRow(Idle, app)
  BY DEF FollowsRow, Idle, KeepsAggregate, FundOps, ReleaseOps, RefundOps

LEMMA EndFollows ==
  ASSUME TypeOK, AppIInv, NEW r \in Requests, req' = [req EXCEPT ![r] = Idle],
         UNCHANGED <<row, chain>>
  PROVE  AppIInv'
  BY IdleFollows, SameBookStep

\* Every endpoint starts with the application of the row or with none.
LEMMA StartFollows ==
  ASSUME IInv, AppIInv, NEW r \in Requests, Start(r)
  PROVE  AppIInv' /\ row' = row
  <1>1. ASSUME NEW op, NEW pc, NEW agg, NEW app, Begin(r, op, pc, agg, app),
               FollowsRow(Handler(op, pc, agg, app), row.app)
        PROVE  AppIInv' /\ row' = row
    BY <1>1, SameBookStep DEF Begin, IInv
  <1>2. /\ EntityOf(row).app = row.app /\ NoAggregate.app = NoApp
        /\ NewEscrow("PENDING_APPROVAL").app = NoApp
        /\ row = NoRow => row.app = NoApp
    BY DEF EntityOf, NoAggregate, NewEscrow, NoRow
  <1>3. row # NoRow => /\ record_approval(EntityOf(row)).app = row.app
                       /\ record_rejection(EntityOf(row)).app = row.app
    BY DEF record_approval, record_rejection, EntityOf
  <1> USE DEF FollowsRow, Handler, KeepsAggregate, DeployOps, FundOps, ReleaseOps, RefundOps
  <1>4. CASE SelectDeal(r) \/ DeployEscrow(r)
    BY <1>1, <1>2, <1>4 DEF SelectDeal, DeployEscrow
  <1>5. CASE Approve(r) \/ RejectEscrow(r)
    BY <1>1, <1>2, <1>3, <1>5 DEF Approve, RejectEscrow
  <1>6. CASE SellerApprove(r) \/ SellerReject(r) \/ SellerDispatch(r)
    BY <1>1, <1>6 DEF SellerApprove, SellerReject, SellerDispatch
  <1>7. CASE PlatformDeploy(r)
    BY <1>1, <1>7 DEF PlatformDeploy
  <1>8. CASE SubmitSignedDeploy(r)
    BY <1>1, <1>8 DEF SubmitSignedDeploy
  <1>9. CASE PlatformFund(r) \/ BuildFund(r) \/ BuildRelease(r) \/ BuildRefund(r)
    BY <1>1, <1>9 DEF PlatformFund, BuildFund, BuildRelease, BuildRefund
  <1>10. CASE FundEscrow(r) \/ RefundEscrow(r)
    BY <1>1, <1>2, <1>10 DEF FundEscrow, RefundEscrow
  <1>11. CASE ReleaseToSeller(r) \/ BuyerConfirm(r)
    BY <1>1, <1>11 DEF ReleaseToSeller, BuyerConfirm
  <1>12. QED
    BY <1>4, <1>5, <1>6, <1>7, <1>8, <1>9, <1>10, <1>11 DEF Start

\* A signed transaction is about the application it was built for.
LEMMA SignedFollows ==
  ASSUME IInv, AppIInv, NEW r \in Requests, Signed(r)
  PROVE  AppIInv' /\ row' = row
  <1> DEFINE q == [req[r] EXCEPT !.pc = "call"]
  <1>1. req[r] \in Request /\ FollowsRow(req[r], row.app)
    BY DEF IInv, TypeOK, AppIInv
  <1>2. /\ req' = [req EXCEPT ![r] = q]
        /\ UNCHANGED <<row, chain>>
        /\ req[r].op \in {"pera_fund", "pera_release", "pera_refund"}
    BY DEF Signed, SubmitSignedFund, SubmitSignedRelease, SubmitSignedRefund, Submit
  <1>3. /\ q.pc = "call" /\ q.op = req[r].op /\ q.snap = req[r].snap
        /\ q.agg = req[r].agg /\ q.app = req[r].app
    BY <1>1 DEF Request
  <1>4. FollowsRow(q, row.app)
    BY <1>1, <1>2, <1>3 DEF FollowsRow, KeepsAggregate
  <1>5. QED
    BY <1>2, <1>4, SameBookStep DEF IInv

\* The row object that a handler loads names the application of the row.
LEMMA HoldRowFollows ==
  ASSUME IInv, AppIInv, NEW r \in Requests, HoldRow(r)
  PROVE  AppIInv' /\ row' = row
  <1>1. /\ req[r] \in Request /\ FollowsRow(req[r], row.app)
        /\ row \in Row
    BY DEF IInv, TypeOK, AppIInv, GoodRequest, NeedsRow, HoldRow
  <1>2. ASSUME NEW pc \in {"call", "save"}, NEW agg,
               pc = "save" => agg.app = row.app,
               req[r].op \notin KeepsAggregate,
               req' = [req EXCEPT ![r] = [req[r] EXCEPT !.pc = pc, !.snap = row,
                                                        !.agg = agg]],
               UNCHANGED <<row, chain>>
        PROVE  AppIInv' /\ row' = row
    <2> DEFINE q == [req[r] EXCEPT !.pc = pc, !.snap = row, !.agg = agg]
    <2>1. /\ q.pc = pc /\ q.op = req[r].op /\ q.snap = row
          /\ q.agg = agg /\ q.app = req[r].app
      BY <1>1 DEF Request
    <2>2. FollowsRow(q, row.app)
      BY <1>1, <1>2, <2>1, RowIsNotNoRow DEF FollowsRow
    <2>3. QED
      BY <1>2, <2>2, SameBookStep DEF IInv
  <1>3. /\ record_approval(EntityOf(row)).app = row.app
        /\ record_rejection(EntityOf(row)).app = row.app
        /\ mark_dispatched(EntityOf(row)).app = row.app
    BY DEF record_approval, record_rejection, mark_dispatched, EntityOf
  <1>4. CASE req[r].op \in {"platform_deploy", "release"}
    BY <1>2, <1>4 DEF HoldRow, KeepsAggregate
  <1>5. CASE req[r].op = "seller_approve"
    BY <1>2, <1>3, <1>5 DEF HoldRow, KeepsAggregate
  <1>6. CASE req[r].op = "seller_reject"
    BY <1>2, <1>3, <1>6 DEF HoldRow, KeepsAggregate
  <1>7. CASE req[r].op = "dispatch"
    BY <1>2, <1>3, <1>7 DEF HoldRow, KeepsAggregate
  <1>8. QED
    BY <1>4, <1>5, <1>6, <1>7 DEF HoldRow

\* Before the row exists no application is recorded, so none is funded.
LEMMA NothingFunded ==
  ASSUME AppIInv, row.app = NoApp
  PROVE  \A a \in Apps : ~BearsOut(chain[a].status, "FUNDED")
  BY NoAppAssumption DEF AppIInv, FundedIsRecorded

\* A deployment that is alone may give the row its application.
LEMMA FirstAppStep ==
  ASSUME IInv, AppIInv, DeploysAlone, NEW r \in Requests, NEW q,
         req[r].op \in DeployOps, row.app = NoApp,
         FollowsRow(q, row'.app),
         req' = [req EXCEPT ![r] = q],
         chain' = chain
  PROVE  AppIInv'
  <1>1. \A s \in Requests : req'[s] = IF s = r THEN q ELSE req[s]
    BY DEF IInv, TypeOK
  <1>2. \A s \in Requests : s # r => req[s] = Idle
    BY DEF DeploysAlone
  <1>3. \A s \in Requests : FollowsRow(req'[s], row'.app)
    BY <1>1, <1>2, IdleFollows
  <1>4. FundedIsRecorded'
    BY NothingFunded DEF FundedIsRecorded
  <1>5. QED
    BY <1>3, <1>4 DEF AppIInv

\* The row is inserted without an application, or by a deployment that is alone.
LEMMA InsertRowFollows ==
  ASSUME IInv, AppIInv, DeploysAlone, NEW r \in Requests, InsertRow(r)
  PROVE  AppIInv' /\ row.app = NoApp
  <1>1. /\ req[r] \in Request /\ FollowsRow(req[r], row.app)
        /\ row = NoRow /\ row.app = NoApp
        /\ req[r].pc = "insert" /\ row'.app = req[r].agg.app
    BY RowIsNotNoRow DEF IInv, TypeOK, AppIInv, InsertRow, NewRow
  <1>2. req[r].snap = NoRow
    BY <1>1, RowIsNotNoRow DEF IInv, GoodRequest, NeedsRow
  <1>3. CASE req[r].op \in DeployOps
    <2>1. SUFFICES ASSUME NEW q,
                          q = IF req[r].op = "deploy_escrow"
                              THEN [req[r] EXCEPT !.pc = "call"] ELSE Idle
                   PROVE  AppIInv' /\ row.app = NoApp
      OBVIOUS
    <2>2. FollowsRow(q, row'.app)
      <3>1. CASE req[r].op = "deploy_escrow"
        <4>1. /\ q.pc = "call" /\ q.op = req[r].op /\ q.snap = req[r].snap
              /\ q.agg = req[r].agg
          BY <1>1, <2>1, <3>1 DEF Request
        <4>2. QED
          BY <1>1, <1>2, <3>1, <4>1 DEF FollowsRow, FundOps, ReleaseOps, RefundOps
      <3>2. CASE req[r].op # "deploy_escrow"
        BY <2>1, <3>2, IdleFollows
      <3>3. QED
        BY <3>1, <3>2
    <2>3. req' = [req EXCEPT ![r] = q] /\ chain' = chain
      BY <2>1 DEF InsertRow
    <2>4. QED
      BY <1>1, <1>3, <2>2, <2>3, FirstAppStep
  <1>4. CASE req[r].op \notin DeployOps
    <2>1. row'.app = row.app
      BY <1>1, <1>4 DEF FollowsRow
    <2>2. QED
      BY <1>1, <1>4, <2>1, IdleFollows, SameAppStep DEF InsertRow, IInv, DeployOps
  <1>5. QED
    BY <1>1, <1>3, <1>4

\* A handler saves the application that the row has already, or is a deployment
\* that gives the row its first one.
LEMMA SaveRowFollows ==
  ASSUME IInv, AppIInv, DeploysAlone, NEW r \in Requests, SaveRow(r)
  PROVE  AppIInv' /\ (row.app # NoApp => row'.app = row.app)
  <1>1. /\ req[r] \in Request /\ FollowsRow(req[r], row.app)
        /\ req[r].pc = "save"
        /\ req[r].agg \in Aggregate /\ req[r].agg.status # "FROZEN"
        /\ row \in Row
    BY DEF IInv, TypeOK, AppIInv, GoodRequest, NeedsRow, CarriesBacked, SaveRow
  <1>2. Seen(r).app = row.app
    BY <1>1 DEF Seen, FollowsRow
  <1>3. row'.app = req[r].agg.app
    BY <1>1, <1>2 DEF SaveRow, Merged, ColumnsOf
  <1>4. SUFFICES ASSUME NEW q,
                        q = IF SavesApproval(r)
                            THEN [req[r] EXCEPT !.pc = "call", !.agg = NoAggregate,
                                                !.snap.status = req[r].agg.status]
                            ELSE Idle
                 PROVE  AppIInv' /\ (row.app # NoApp => row'.app = row.app)
    OBVIOUS
  <1>5. req' = [req EXCEPT ![r] = q]
    BY <1>4 DEF SaveRow
  <1>6. CASE req[r].agg.app = row.app
    <2>1. FollowsRow(q, row.app)
      <3>1. CASE SavesApproval(r)
        <4> DEFINE snap == [req[r].snap EXCEPT !.status = req[r].agg.status]
        <4>1. snap \in Row /\ snap.app = req[r].snap.app
          <5>1. req[r].agg.status \in RowStatus
            BY <1>1 DEF Aggregate, EscrowStatus
          <5>2. req[r].snap \in Row \cup {NoRow}
            BY <1>1 DEF Request
          <5>3. QED
            BY <5>1, <5>2, SetStatusType
        <4>2. /\ q = [req[r] EXCEPT !.pc = "call", !.agg = NoAggregate, !.snap = snap]
              /\ req[r].op = "seller_approve"
          BY <1>4, <3>1 DEF SavesApproval
        <4> HIDE DEF snap
        <4>3. /\ q.op = "seller_approve" /\ q.pc = "call" /\ q.snap = snap
          BY <1>1, <4>2 DEF Request
        <4>4. snap.app = row.app
          BY <1>1, <4>1, <4>2 DEF FollowsRow
        <4>5. QED
          BY <4>1, <4>3, <4>4, RowIsNotNoRow
          DEF FollowsRow, KeepsAggregate, FundOps, ReleaseOps, RefundOps
      <3>2. CASE ~SavesApproval(r)
        BY <1>4, <3>2, IdleFollows
      <3>3. QED
        BY <3>1, <3>2
    <2>2. QED
      BY <1>3, <1>5, <1>6, <2>1, SameAppStep DEF SaveRow, IInv
  <1>7. CASE req[r].agg.app # row.app
    <2>1. row.app = NoApp /\ req[r].op \in DeployOps /\ req[r].app # NoApp
      BY <1>1, <1>7 DEF FollowsRow
    <2>2. q = Idle
      BY <1>4, <2>1 DEF SavesApproval
    <2>3. QED
      BY <1>5, <2>1, <2>2, IdleFollows, FirstAppStep DEF SaveRow
  <1>8. QED
    BY <1>6, <1>7

\* A chain call about the application that the row names, or one that only
\* deploys, funds no other application.
LEMMA CalledFollows ==
  ASSUME IInv, AppIInv, NEW r \in Requests, NEW a \in Apps, NEW c \in App,
         req[r].pc = "call", Called(r, a),
         chain' = [chain EXCEPT ![a] = c], row' = row,
         BearsOut(c.status, "FUNDED") => a = row.app,
         req[r].op \in FundOps \cup ReleaseOps \cup RefundOps => a = row.app
  PROVE  AppIInv'
  <1>1. /\ req[r] \in Request /\ FollowsRow(req[r], row.app)
        /\ chain \in [Apps -> App]
    BY DEF IInv, TypeOK, AppIInv
  <1>2. \A b \in Apps : /\ BearsOut(chain'[b].status, "FUNDED")
                        /\ ~BearsOut(chain[b].status, "FUNDED")
                        => b = row.app
    BY <1>1
  <1>3. PICK q : /\ req' = [req EXCEPT ![r] = q]
                 /\ q \in {Idle, [req[r] EXCEPT !.pc = "record", !.app = a]}
    BY DEF Called
  <1>4. CASE q = Idle
    BY <1>2, <1>3, <1>4, IdleFollows, SameAppStep DEF IInv
  <1>5. CASE q = [req[r] EXCEPT !.pc = "record", !.app = a]
    <2>1. /\ q.pc = "record" /\ q.op = req[r].op /\ q.snap = req[r].snap
          /\ q.agg = req[r].agg /\ q.app = a
      BY <1>1, <1>5 DEF Request
    <2>2. FollowsRow(q, row.app)
      BY <1>1, <2>1 DEF FollowsRow
    <2>3. QED
      BY <1>2, <1>3, <2>2, SameAppStep DEF IInv
  <1>6. QED
    BY <1>3, <1>4, <1>5

\* The chain calls of the handlers.
LEMMA CallFollows ==
  ASSUME IInv, AppIInv, NEW r \in Requests,
         CallDeploy(r) \/ CallFund(r) \/ CallRelease(r) \/ CallRefund(r)
  PROVE  AppIInv' /\ row' = row
  <1>1. /\ chain \in [Apps -> App]
        /\ FollowsRow(req[r], row.app)
        /\ GoodRequest(req[r])
    BY DEF IInv, TypeOK, AppIInv
  <1>2. CASE CallDeploy(r)
    <2>1. PICK a \in Apps, b \in BuyerWallets(req[r].op), s \in SellerWallets(req[r].op) :
             /\ chain' = [chain EXCEPT ![a] = Initialized(Signer(req[r].op), b, s)]
             /\ Called(r, a)
      BY <1>2 DEF CallDeploy
    <2>2. /\ Initialized(Signer(req[r].op), b, s) \in App
          /\ Initialized(Signer(req[r].op), b, s).status = "DEPLOYED"
      BY UnlinkedAssumption
      DEF Initialized, Signer, BuyerWallets, SellerWallets, StandIns, App, AppStatus, Accounts
    <2>3. QED
      BY <1>2, <2>1, <2>2, CalledFollows
      DEF CallDeploy, BearsOut, DeployOps, FundOps, ReleaseOps, RefundOps
  <1>3. ASSUME NEW status \in {"FUNDED", "RELEASED", "REFUNDED"},
               req[r].pc = "call", req[r].op \in FundOps \cup ReleaseOps \cup RefundOps,
               chain' = [chain EXCEPT ![req[r].app] = [@ EXCEPT !.status = status]],
               Called(r, req[r].app), row' = row
        PROVE  AppIInv' /\ row' = row
    <2>1. req[r].app \in Apps /\ req[r].app = row.app
      BY <1>1, <1>3 DEF GoodRequest, CallDone, FollowsRow
    <2>2. [chain[req[r].app] EXCEPT !.status = status] \in App
      BY <1>1, <2>1 DEF App, AppStatus
    <2>3. QED
      BY <1>3, <2>1, <2>2, CalledFollows
  <1>4. CASE CallFund(r)
    BY <1>3, <1>4 DEF CallFund, Funded
  <1>5. CASE CallRelease(r)
    BY <1>3, <1>5 DEF CallRelease, Released
  <1>6. CASE CallRefund(r)
    BY <1>3, <1>6 DEF CallRefund, Refunded
  <1>7. QED
    BY <1>2, <1>4, <1>5, <1>6

\* A handler that records on an aggregate which names the row's application, or
\* that records a deployment while the row has none.
LEMMA RecordedFollows ==
  ASSUME IInv, AppIInv, NEW r \in Requests, req[r].pc = "record",
         NEW can, NEW agg, NEW next \in {"insert", "save"},
         Recorded(r, can, agg, next),
         next = "insert" => req[r].op \in DeployOps,
         next = "save" /\ can => \/ agg.app = row.app
                                 \/ row.app = NoApp /\ req[r].op \in DeployOps
  PROVE  AppIInv'
  <1>1. /\ req[r] \in Request /\ FollowsRow(req[r], row.app)
        /\ req[r].app \in Apps
    BY DEF IInv, TypeOK, AppIInv, GoodRequest, CallDone
  <1>2. CASE ~can
    BY <1>2, EndFollows DEF Recorded, IInv
  <1>3. CASE can
    <2> DEFINE q == [req[r] EXCEPT !.pc = next, !.agg = agg]
    <2>1. /\ q.pc = next /\ q.op = req[r].op /\ q.snap = req[r].snap
          /\ q.agg = agg /\ q.app = req[r].app
      BY <1>1 DEF Request
    <2>2. FollowsRow(q, row.app)
      BY <1>1, <1>3, <2>1, NoAppAssumption DEF FollowsRow
    <2>3. QED
      BY <1>3, <2>2, SameBookStep DEF Recorded, IInv
  <1>4. QED
    BY <1>2, <1>3

\* The aggregate in hand names the application of the row.
LEMMA InHandFollows ==
  ASSUME IInv, AppIInv, NEW r \in Requests, req[r].pc = "record"
  PROVE  InHand(r).app = row.app
  <1>1. FollowsRow(req[r], row.app)
    BY DEF AppIInv
  <1>2. QED
    BY <1>1 DEF InHand, Seen, EntityOf, FollowsRow

\* The record_... methods.
LEMMA RecordFollows ==
  ASSUME IInv, AppIInv, NEW r \in Requests,
         \/ RecordDeployment(r) \/ RecordFunding(r)
         \/ RecordRelease(r) \/ RecordRefund(r)
  PROVE  AppIInv' /\ row' = row
  <1>1. row' = row /\ req[r].pc = "record"
    BY DEF RecordDeployment, RecordFunding, RecordRelease, RecordRefund, Recorded
  <1>2. InHand(r) \in Aggregate \cup {NoAggregate} /\ InHand(r).app = row.app
    BY <1>1, InHandBacked, InHandFollows
  <1>3. CASE RecordDeployment(r)
    <2>1. SUFFICES ASSUME NEW missing,
                          missing = (req[r].op # "deploy_escrow" /\ Seen(r) = NoRow),
                          NEW e, e = IF missing THEN NewEscrow("DEPLOYED") ELSE InHand(r)
                   PROVE  AppIInv' /\ row' = row
      OBVIOUS
    <2>2. /\ req[r].op \in DeployOps
          /\ Recorded(r, can_record_deployment(e), record_deployment(e, req[r].app),
                      IF missing THEN "insert" ELSE "save")
      BY <1>3, <2>1 DEF RecordDeployment
    <2>3. ~missing /\ can_record_deployment(e) => row.app = NoApp
      BY <1>2, <2>1 DEF can_record_deployment
    <2>4. QED
      BY <1>1, <2>2, <2>3, RecordedFollows
  <1>4. ASSUME NEW can, NEW agg, Recorded(r, can, agg, "save"), agg.app = row.app
        PROVE  AppIInv' /\ row' = row
    BY <1>1, <1>4, RecordedFollows
  <1>5. /\ record_funding(InHand(r)).app = row.app
        /\ record_release(InHand(r)).app = row.app
        /\ record_refund(InHand(r)).app = row.app
    <2>1. ASSUME NEW status \in EscrowStatus
          PROVE  [InHand(r) EXCEPT !.status = status].app = row.app
      BY <1>2, <2>1, MovedType
    <2>2. record_refund(InHand(r)).app = row.app
      BY <1>2 DEF record_refund, Aggregate, NoAggregate, EntityOf
    <2>3. QED
      BY <2>1, <2>2 DEF record_funding, record_release, EscrowStatus, RowStatus
  <1>6. CASE RecordFunding(r)
    BY <1>4, <1>5, <1>6 DEF RecordFunding
  <1>7. CASE RecordRelease(r)
    BY <1>4, <1>5, <1>7 DEF RecordRelease
  <1>8. CASE RecordRefund(r)
    BY <1>4, <1>5, <1>8 DEF RecordRefund
  <1>9. QED
    BY <1>3, <1>6, <1>7, <1>8

\* The jobs write neither the application of the row nor the chain.
LEMMA JobFollows ==
  ASSUME IInv, AppIInv, Job
  PROVE  AppIInv' /\ row'.app = row.app
  <1>1. UNCHANGED <<chain, req>>
    BY DEF Job, SelectApprovalOverdue, SelectDispatchOverdue, SelectOverdue,
           AutoReject, AutoFreeze, AbortJob
  <1>2. row'.app = row.app
    <2>1. CASE AutoReject
      <3>1. row \in Row
        BY <2>1 DEF AutoReject, IInv, Jobs
      <3>2. QED
        BY <2>1, <3>1 DEF AutoReject, Row
    <2>2. CASE AutoFreeze
      <3>1. row \in Row
        BY <2>2 DEF AutoFreeze, IInv, Jobs
      <3>2. QED
        BY <2>2, <3>1 DEF AutoFreeze, Row
    <2>3. QED
      BY <2>1, <2>2
      DEF Job, SelectApprovalOverdue, SelectDispatchOverdue, SelectOverdue, AbortJob
  <1>3. QED
    BY <1>1, <1>2 DEF AppIInv, FundedIsRecorded

\* Every step keeps AppIInv, and keeps the application that the row names.
LEMMA NextFollows ==
  ASSUME IInv, AppIInv, DeploysAlone, [Next]_vars
  PROVE  AppIInv' /\ (row.app # NoApp => row'.app = row.app)
  <1>1. CASE Job
    BY <1>1, JobFollows
  <1>2. ASSUME NEW r \in Requests, Start(r) \/ Signed(r) \/ Continue(r) \/ Crash(r)
        PROVE  AppIInv' /\ (row.app # NoApp => row'.app = row.app)
    <2>1. CASE Start(r)
      BY <2>1, StartFollows
    <2>2. CASE Signed(r)
      BY <2>2, SignedFollows
    <2>3. CASE HoldRow(r)
      BY <2>3, HoldRowFollows
    <2>4. CASE InsertRow(r)
      BY <2>4, InsertRowFollows
    <2>5. CASE InsertConflict(r) \/ Raise(r) \/ Crash(r)
      BY <2>5, EndFollows DEF InsertConflict, Raise, Crash, IInv
    <2>6. CASE SaveRow(r)
      BY <2>6, SaveRowFollows
    <2>7. CASE CallDeploy(r) \/ CallFund(r) \/ CallRelease(r) \/ CallRefund(r)
      BY <2>7, CallFollows
    <2>8. CASE \/ RecordDeployment(r) \/ RecordFunding(r)
               \/ RecordRelease(r) \/ RecordRefund(r)
      BY <2>8, RecordFollows
    <2>9. QED
      BY <1>2, <2>1, <2>2, <2>3, <2>4, <2>5, <2>6, <2>7, <2>8 DEF Continue
  <1>3. CASE UNCHANGED vars
    BY <1>3 DEF vars, AppIInv, FundedIsRecorded
  <1>4. QED
    BY <1>1, <1>2, <1>3 DEF Next

-----------------------------------------------------------------------------
\* The theorems.

\* Before the first request everything the invariant says is true.
LEMMA InitIInv == Init => IInv
  <1> SUFFICES ASSUME Init PROVE IInv
    OBVIOUS
  <1>1. /\ TypeOK
        /\ \A job \in Jobs : ~jobs[job]
    <2>1. NoContract \in App
      BY DEF NoContract, App, AppStatus, Accounts
    <2>2. QED
      BY <2>1, IdleIsGood DEF Init, TypeOK
  <1>2. BookBacked
    BY RowIsNotNoRow DEF Init, BookBacked, Backed, ChainClaims, Exists
  <1>3. \A r \in Requests : req[r] = Idle
    BY DEF Init
  <1>4. \A r \in Requests : GoodRequest(req[r])
    BY <1>3, IdleIsGood
  <1>5. ReleasesOwedOnce
    BY <1>3, IdleIsGood DEF ReleasesOwedOnce
  <1>6. OneSettlementPerRelease /\ PlatformReleasesDispatched
    BY DEF Init, OneSettlementPerRelease, PlatformReleasesDispatched, NoContract
  <1>7. row.status # "DISPATCHED"
    BY RowIsNotNoRow DEF Init
  <1>8. QED
    BY <1>1, <1>2, <1>4, <1>5, <1>6, <1>7 DEF IInv

\* Every step of a handler and of a job keeps the inductive invariant.
LEMMA NextIInv == IInv /\ [Next]_vars => IInv'
  <1> SUFFICES ASSUME IInv, [Next]_vars PROVE IInv'
    OBVIOUS
  <1>1. CASE Job
    BY <1>1, JobStep
  <1>2. ASSUME NEW r \in Requests, Start(r) PROVE IInv'
    BY <1>2, StartStep
  <1>7. ASSUME NEW r \in Requests, Signed(r) PROVE IInv'
    BY <1>7, SignedStep
  <1>3. ASSUME NEW r \in Requests, Continue(r) PROVE IInv'
    <2>1. CASE HoldRow(r)
      BY <2>1, HoldRowStep
    <2>2. CASE InsertRow(r)
      BY <2>2, InsertRowStep
    <2>3. CASE InsertConflict(r)
      BY <2>3, EndStep DEF InsertConflict
    <2>4. CASE SaveRow(r)
      BY <2>4, SaveRowStep
    <2>5. CASE CallDeploy(r)
      BY <2>5, CallDeployStep
    <2>6. CASE CallFund(r)
      BY <2>6, CallFundStep
    <2>7. CASE CallRelease(r)
      BY <2>7, CallReleaseStep
    <2>8. CASE CallRefund(r)
      BY <2>8, CallRefundStep
    <2>9. CASE Raise(r)
      BY <2>9, EndStep DEF Raise
    <2>10. CASE RecordDeployment(r)
      BY <2>10, RecordDeploymentStep
    <2>11. CASE RecordFunding(r)
      BY <2>11, RecordFundingStep
    <2>12. CASE RecordRelease(r)
      BY <2>12, RecordReleaseStep
    <2>13. CASE RecordRefund(r)
      BY <2>13, RecordRefundStep
    <2>14. QED
      BY <1>3, <2>1, <2>2, <2>3, <2>4, <2>5, <2>6, <2>7, <2>8, <2>9, <2>10, <2>11,
         <2>12, <2>13
      DEF Continue
  <1>4. ASSUME NEW r \in Requests, Crash(r) PROVE IInv'
    BY <1>4, EndStep DEF Crash
  <1>5. CASE UNCHANGED vars
    <2>1. UNCHANGED <<row, chain, settlements, dispatched, req, jobs>>
      BY <1>5 DEF vars
    <2>2. \A r \in Requests : GoodRequest(req[r])'
      BY <2>1
      DEF IInv, GoodRequest, NeedsRow, CarriesBacked, CallDone, Backed, Exists
    <2>3. ReleasesOwedOnce'
      BY <2>1 DEF IInv, ReleasesOwedOnce, Owes
    <2>4. BookBacked'
      BY <2>1 DEF IInv, BookBacked, Backed, Exists
    <2>5. QED
      BY <2>1, <2>2, <2>3, <2>4
      DEF IInv, TypeOK, OneSettlementPerRelease, PlatformReleasesDispatched
  <1>8. QED
    BY <1>1, <1>2, <1>3, <1>4, <1>5, <1>7 DEF Next

\* Every reachable state satisfies the inductive invariant, however many
\* requests overlap, whatever dies half-way, and however many applications the
\* chain allocates.
THEOREM InductiveInvariant == Spec => []IInv
  BY InitIInv, NextIInv, PTL DEF Spec

\* Rows, contracts, requests and jobs keep their types: no merge of a stale row
\* object with a newer row makes a row the code could not have written.
THEOREM TypeCorrect == Spec => []TypeOK
  <1>1. IInv => TypeOK
    BY DEF IInv
  <1>2. QED
    BY <1>1, InductiveInvariant, PTL

\* The book is never ahead of the chain.
THEOREM BookNeverAhead == Spec => []BookBacked
  <1>1. IInv => BookBacked
    BY DEF IInv
  <1>2. QED
    BY <1>1, InductiveInvariant, PTL

\* A release is entered in the settlements at most once.
THEOREM SettledOnce == Spec => []OneSettlementPerRelease
  <1>1. IInv => OneSettlementPerRelease
    BY DEF IInv
  <1>2. QED
    BY <1>1, InductiveInvariant, PTL

\* The platform key releases nothing before the seller has dispatched.
THEOREM DispatchBeforeRelease == Spec => []PlatformReleasesDispatched
  <1>1. IInv => PlatformReleasesDispatched
    BY DEF IInv
  <1>2. QED
    BY <1>1, InductiveInvariant, PTL

\* Before the first request nothing is recorded and nothing is funded.
LEMMA InitAppIInv == Init => AppIInv
  BY IdleFollows DEF Init, AppIInv, FundedIsRecorded, BearsOut, NoContract

\* While deployments do not overlap with other requests, whatever else overlaps
\* and whatever dies half-way: the application recorded for the deal is never
\* replaced.
THEOREM RecordedForGood == Spec /\ []DeploysAlone => AppRecordedOnce
  <1>1. IInv /\ AppIInv /\ DeploysAlone /\ [Next]_vars => AppIInv'
    BY NextFollows
  <1>2. IInv /\ AppIInv /\ DeploysAlone /\ [Next]_vars
        => [row.app # NoApp => row'.app = row.app]_vars
    BY NextFollows
  <1>3. QED
    BY <1>1, <1>2, InitAppIInv, InductiveInvariant, PTL DEF Spec, AppRecordedOnce

\* Under the same condition at most one application of the deal is ever funded.
THEOREM FundedOnce == Spec /\ []DeploysAlone => []OneFundedApp
  <1>1. IInv /\ AppIInv /\ DeploysAlone /\ [Next]_vars => AppIInv'
    BY NextFollows
  <1>2. AppIInv => OneFundedApp
    BY DEF AppIInv, FundedIsRecorded, OneFundedApp
  <1>3. QED
    BY <1>1, <1>2, InitAppIInv, InductiveInvariant, PTL DEF Spec

\* The condition holds of an API that handles one request at a time.
THEOREM OneRequestSuffices ==
  ASSUME \A r, s \in Requests : r = s
  PROVE  Spec => []OneFundedApp /\ AppRecordedOnce
  <1>1. DeploysAlone
    BY DEF DeploysAlone
  <1>2. QED
    BY <1>1, FundedOnce, RecordedForGood, PTL
=============================================================================
