----------------------------- MODULE Settlement -----------------------------
(***************************************************************************)
(* The settlement of one deal: the escrow_contracts row of one negotiation *)
(* session, the applications created for it on the chain, the requests     *)
(* that several API workers handle at the same time, and the two periodic  *)
(* jobs.  A request is a record that walks the steps of its handler; every *)
(* read, chain call and database write of a handler is a step of its own,  *)
(* because another worker may run between any two of them.                 *)
(***************************************************************************)
EXTENDS Naturals, Escrow, CadenciaEscrow

CONSTANTS Requests,   \* requests in flight at the same time
          Unlinked,   \* parties whose enterprise may have no linked wallet
          Faults      \* may requests die half-way and chain replies get lost?

ASSUME UnlinkedAssumption == Unlinked \subseteq {"buyer", "seller"}
ASSUME FaultsAssumption == Faults \in BOOLEAN

VARIABLES
    row,          \* the escrow_contracts row of the session
    chain,        \* chain[a]: global state of application a
    settlements,  \* settlements[a]: settlement rows written for a release of a
    dispatched,   \* history: the row has been DISPATCHED
    req,          \* req[r]: progress of request r
    jobs          \* jobs[j]: job j has selected the row and not yet updated it

vars == <<row, chain, settlements, dispatched, req, jobs>>

-----------------------------------------------------------------------------
\* The operations.  A "pera" operation is signed in the browser by the buyer's
\* wallet; release is both buyer-confirm and platform-release.

DeployOps == {"deploy_escrow", "seller_approve", "platform_deploy", "pera_deploy"}
FundOps == {"fund", "platform_fund", "pera_fund"}
ReleaseOps == {"release", "pera_release"}
RefundOps == {"refund", "pera_refund"}
BookOps == {"select_deal", "approve", "reject", "seller_reject", "dispatch"}
Ops == DeployOps \cup FundOps \cup ReleaseOps \cup RefundOps \cup BookOps

\* Service methods that keep the aggregate they read before the chain call.
KeepsAggregate == {"deploy_escrow", "fund", "refund"}

\* The key that signs the contract call of an operation.
Signer(op) ==
    IF op \in {"pera_deploy", "pera_fund", "pera_release", "pera_refund"} THEN "buyer"
    ELSE "platform"

PCs == {"idle", "sign", "hold", "insert", "call", "record", "save"}

NoAggregate == EntityOf(NoRow)

\* pc: the next step.  snap: the row object the handler's ORM session keeps
\* (NoRow when it keeps none).  agg: the aggregate in hand.  app: the
\* application the chain call is about.
Idle == [op |-> "none", pc |-> "idle", snap |-> NoRow, agg |-> NoAggregate,
         app |-> NoApp]

Handler(op, pc, agg, app) ==
    [op |-> op, pc |-> pc, snap |-> NoRow, agg |-> agg, app |-> app]

Begin(r, op, pc, agg, app) ==
    /\ req[r] = Idle
    /\ req' = [req EXCEPT ![r] = Handler(op, pc, agg, app)]
    /\ UNCHANGED <<row, chain, settlements, dispatched, jobs>>

\* What a re-read by the request's ORM session returns: the row object it still
\* keeps, however old, and else the row.
Seen(r) == IF req[r].snap # NoRow THEN req[r].snap ELSE row

Jobs == {"approval_deadline", "dispatch_timeout"}

Init ==
    /\ row = NoRow
    /\ chain = [a \in Apps |-> NoContract]
    /\ settlements = [a \in Apps |-> 0]
    /\ dispatched = FALSE
    /\ req = [r \in Requests |-> Idle]
    /\ jobs = [j \in Jobs |-> FALSE]

-----------------------------------------------------------------------------
\* First step of each endpoint: the read and the checks made on it.

\* POST select-deal.  A session with an escrow is answered without a change.
SelectDeal(r) ==
    /\ row = NoRow
    /\ Begin(r, "select_deal", "insert", NewEscrow("PENDING_APPROVAL"), NoApp)

\* ADMIN deploy: the row is inserted before the chain is called.
DeployEscrow(r) ==
    /\ row = NoRow
    /\ Begin(r, "deploy_escrow", "insert", NewEscrow("PENDING_APPROVAL"), NoApp)

\* ADMIN approve and reject: read, check and record are one block of code.
Approve(r) ==
    /\ row # NoRow
    /\ can_record_approval(EntityOf(row))
    /\ Begin(r, "approve", "save", record_approval(EntityOf(row)), NoApp)

RejectEscrow(r) ==
    /\ row # NoRow
    /\ can_record_rejection(EntityOf(row))
    /\ Begin(r, "reject", "save", record_rejection(EntityOf(row)), NoApp)

\* The seller's endpoints check the status on one read, then load the row
\* object they keep (HoldRow).  Only a selected deal names a seller.
SellerApprove(r) ==
    /\ row # NoRow
    /\ EntityOf(row).status = "PENDING_APPROVAL"
    /\ row.deal
    /\ Begin(r, "seller_approve", "hold", NoAggregate, NoApp)

SellerReject(r) ==
    /\ row # NoRow
    /\ EntityOf(row).status = "PENDING_APPROVAL"
    /\ row.deal
    /\ Begin(r, "seller_reject", "hold", NoAggregate, NoApp)

SellerDispatch(r) ==
    /\ row # NoRow
    /\ EntityOf(row).status = "FUNDED"
    /\ row.deal
    /\ Begin(r, "dispatch", "hold", NoAggregate, NoApp)

\* platform-deploy loads the row object only to find addresses the row lacks,
\* that is for a selected deal.
PlatformDeploy(r) ==
    /\ row # NoRow
    /\ EntityOf(row).status = "APPROVED"
    /\ Begin(r, "platform_deploy", IF row.deal THEN "hold" ELSE "call",
             NoAggregate, NoApp)

\* submit-signed-deploy broadcasts the buyer's transaction with no check.
SubmitSignedDeploy(r) ==
    Begin(r, "pera_deploy", "call", NoAggregate, NoApp)

\* Mutant: the funding is recorded before it is sent.
PlatformFundUnsent(r) ==
    /\ row # NoRow
    /\ EntityOf(row).status = "DEPLOYED"
    /\ row.app # NoApp
    /\ Begin(r, "platform_fund", "record", NoAggregate, row.app)

PlatformFund(r) ==
    /\ row # NoRow
    /\ EntityOf(row).status = "DEPLOYED"
    /\ row.app # NoApp
    /\ Begin(r, "platform_fund", "call", NoAggregate, row.app)

\* ADMIN fund checks only that an application is recorded.
FundEscrow(r) ==
    /\ row.app # NoApp
    /\ Begin(r, "fund", "call", EntityOf(row), row.app)

\* Mutant: platform-release of a deal that is only funded.
ReleaseUndispatched(r) ==
    /\ row # NoRow
    /\ EntityOf(row).status \in {"FUNDED", "DISPATCHED"}
    /\ row.app # NoApp
    /\ Begin(r, "release", "hold", NoAggregate, row.app)

ReleaseToSeller(r) ==
    /\ row # NoRow
    /\ EntityOf(row).status = "DISPATCHED"
    /\ row.app # NoApp
    /\ Begin(r, "release", "hold", NoAggregate, row.app)

\* buyer-confirm does the same for the buyer, whom only a selected deal names.
BuyerConfirm(r) == row.deal /\ ReleaseToSeller(r)

\* refund checks only that an application is recorded.
RefundEscrow(r) ==
    /\ row.app # NoApp
    /\ Begin(r, "refund", "call", EntityOf(row), row.app)

\* build-fund-txn, build-release-txn and build-refund-txn: the page asks for a
\* transaction and has the wallet sign it, for as long as the user takes.
BuildFund(r) ==
    /\ row # NoRow
    /\ EntityOf(row).status = "DEPLOYED"
    /\ row.app # NoApp
    /\ Begin(r, "pera_fund", "sign", NoAggregate, row.app)

BuildRelease(r) ==
    /\ row # NoRow
    /\ EntityOf(row).status = "FUNDED"
    /\ row.app # NoApp
    /\ Begin(r, "pera_release", "sign", NoAggregate, row.app)

BuildRefund(r) ==
    /\ row # NoRow
    /\ EntityOf(row).status = "FUNDED"
    /\ row.app # NoApp
    /\ Begin(r, "pera_refund", "sign", NoAggregate, row.app)

\* submit-signed-...: what the wallet signed is broadcast as it was built.
Submit(r, op) ==
    /\ req[r].pc = "sign"
    /\ req[r].op = op
    /\ req' = [req EXCEPT ![r].pc = "call"]
    /\ UNCHANGED <<row, chain, settlements, dispatched, jobs>>

\* submit-signed-fund alone looks at the status again.
SubmitSignedFund(r) == EntityOf(row).status = "DEPLOYED" /\ Submit(r, "pera_fund")

SubmitSignedRelease(r) == Submit(r, "pera_release")

SubmitSignedRefund(r) == Submit(r, "pera_refund")

-----------------------------------------------------------------------------
\* Later steps that touch the database.

\* The handler loads the row object it keeps until it returns.  Operations
\* that only move the book go on, with an aggregate made from that object, to
\* their record_... method, which raises on a wrong status.
HoldRow(r) ==
    LET op == req[r].op
        e  == EntityOf(row)
        Keep(pc, agg) == req' = [req EXCEPT ![r].pc = pc, ![r].snap = row,
                                            ![r].agg = agg]
    IN
    /\ req[r].pc = "hold"
    /\ \/ /\ op \in {"platform_deploy", "release"}
          /\ Keep("call", NoAggregate)
       \/ /\ op = "seller_approve"
          /\ can_record_approval(e)
          /\ Keep("save", record_approval(e))
       \/ /\ op = "seller_reject"
          /\ can_record_rejection(e)
          /\ Keep("save", record_rejection(e))
       \/ /\ op = "dispatch"
          /\ can_mark_dispatched(e)
          /\ Keep("save", mark_dispatched(e))
    /\ UNCHANGED <<row, chain, settlements, dispatched, jobs>>

\* repository.save() and commit.
InsertRow(r) ==
    /\ req[r].pc = "insert"
    /\ row = NoRow
    /\ row' = NewRow(req[r].agg, req[r].op = "select_deal")
    /\ req' = [req EXCEPT ![r] = IF req[r].op = "deploy_escrow"
                                 THEN [@ EXCEPT !.pc = "call"] ELSE Idle]
    /\ UNCHANGED <<chain, settlements, dispatched, jobs>>

\* session_id is unique: the second insert raises.
InsertConflict(r) ==
    /\ req[r].pc = "insert"
    /\ row # NoRow
    /\ req' = [req EXCEPT ![r] = Idle]
    /\ UNCHANGED <<row, chain, settlements, dispatched, jobs>>

\* seller-approve saves twice, the first time before its chain call.
SavesApproval(r) == req[r].op = "seller_approve" /\ req[r].app = NoApp

\* repository.update() and commit; a release adds its settlement row in the
\* same transaction.
SaveRow(r) ==
    LET merged == Merged(row, Seen(r), req[r].agg) IN
    /\ req[r].pc = "save"
    /\ row' = merged
    /\ settlements' = IF req[r].op \in ReleaseOps
                      THEN [settlements EXCEPT ![req[r].app] = @ + 1]
                      ELSE settlements
    /\ dispatched' = (dispatched \/ merged.status = "DISPATCHED")
    /\ req' = [req EXCEPT ![r] =
                 IF SavesApproval(r)
                 THEN [@ EXCEPT !.pc = "call", !.agg = NoAggregate,
                                !.snap.status = req[r].agg.status]
                 ELSE Idle]
    /\ UNCHANGED <<chain, jobs>>

-----------------------------------------------------------------------------
\* Chain calls.  The transaction is final when the call takes effect; the
\* reply may still be lost (no confirmation in time, the worker dies, or the
\* minimum-balance payment that follows a deployment fails), and then nothing
\* of it is recorded.

Called(r, app) ==
    \/ req' = [req EXCEPT ![r].pc = "record", ![r].app = app]
    \/ Faults /\ req' = [req EXCEPT ![r] = Idle]

\* The wallet stored in the contract for a party; the platform's address
\* stands in for a party without a linked wallet.
StandIns(party) ==
    {party} \cup IF party \in Unlinked THEN {"platform"} ELSE {}

BuyerWallets(op) ==
    IF op \in {"seller_approve", "platform_deploy"} THEN StandIns("buyer") ELSE {"buyer"}

SellerWallets(op) ==
    IF op = "platform_deploy" THEN StandIns("seller") ELSE {"seller"}

CallDeploy(r) ==
    /\ req[r].pc = "call"
    /\ req[r].op \in DeployOps
    /\ \E a \in Apps, b \in BuyerWallets(req[r].op), s \in SellerWallets(req[r].op) :
          /\ chain[a].status = "ABSENT"
          /\ chain' = [chain EXCEPT ![a] = Initialized(Signer(req[r].op), b, s)]
          /\ Called(r, a)
    /\ UNCHANGED <<row, settlements, dispatched, jobs>>

CallFund(r) ==
    LET a == req[r].app IN
    /\ req[r].pc = "call"
    /\ req[r].op \in FundOps
    /\ CanFund(chain[a])
    /\ chain' = [chain EXCEPT ![a] = Funded(chain[a])]
    /\ Called(r, a)
    /\ UNCHANGED <<row, settlements, dispatched, jobs>>

\* The platform names the seller in the foreign accounts array; the transaction
\* that the page builds names nobody, so the wallet's release does not go through.
NamedByRelease(op) == IF op = "release" THEN {"seller"} ELSE {}

CallRelease(r) ==
    LET a == req[r].app IN
    /\ req[r].pc = "call"
    /\ req[r].op \in ReleaseOps
    /\ CanRelease(chain[a], Signer(req[r].op), NamedByRelease(req[r].op))
    /\ chain' = [chain EXCEPT ![a] = Released(chain[a])]
    /\ Called(r, a)
    /\ UNCHANGED <<row, settlements, dispatched, jobs>>

\* No refund path names the buyer in the foreign accounts array.
CallRefund(r) ==
    LET a == req[r].app IN
    /\ req[r].pc = "call"
    /\ req[r].op \in RefundOps
    /\ CanRefund(chain[a], Signer(req[r].op), {})
    /\ chain' = [chain EXCEPT ![a] = Refunded(chain[a])]
    /\ Called(r, a)
    /\ UNCHANGED <<row, settlements, dispatched, jobs>>

\* The call is rejected or algod cannot be reached, an address or the platform
\* key is missing, the record_... method of HoldRow raises, or the user does not
\* sign: the handler ends.
Raise(r) ==
    /\ req[r].pc \in {"sign", "hold", "call"}
    /\ req' = [req EXCEPT ![r] = Idle]
    /\ UNCHANGED <<row, chain, settlements, dispatched, jobs>>

-----------------------------------------------------------------------------
\* After the chain call: the aggregate records what happened, or raises.

InHand(r) ==
    IF req[r].op \in KeepsAggregate THEN req[r].agg ELSE EntityOf(Seen(r))

Recorded(r, can, agg, next) ==
    /\ req' = [req EXCEPT ![r] = IF can THEN [@ EXCEPT !.pc = next, !.agg = agg]
                                        ELSE Idle]
    /\ UNCHANGED <<row, chain, settlements, dispatched, jobs>>

\* record_pera_deploy answers without a change when an application is already
\* recorded, and inserts a row when the session has none.
RecordDeployment(r) ==
    LET missing == req[r].op # "deploy_escrow" /\ Seen(r) = NoRow
        e == IF missing THEN NewEscrow("DEPLOYED") ELSE InHand(r)
    IN
    /\ req[r].pc = "record"
    /\ req[r].op \in DeployOps
    /\ Recorded(r, can_record_deployment(e), record_deployment(e, req[r].app),
                IF missing THEN "insert" ELSE "save")

RecordFunding(r) ==
    LET e == InHand(r) IN
    /\ req[r].pc = "record"
    /\ req[r].op \in FundOps
    /\ Recorded(r, can_record_funding(e), record_funding(e), "save")

RecordRelease(r) ==
    LET e == InHand(r) IN
    /\ req[r].pc = "record"
    /\ req[r].op \in ReleaseOps
    /\ Recorded(r, can_record_release(e), record_release(e), "save")

RecordRefund(r) ==
    LET e == InHand(r) IN
    /\ req[r].pc = "record"
    /\ req[r].op \in RefundOps
    /\ Recorded(r, can_record_refund(e), record_refund(e), "save")

\* The worker dies, or a statement fails and the transaction rolls back.
Crash(r) ==
    /\ Faults
    /\ req[r] # Idle
    /\ req' = [req EXCEPT ![r] = Idle]
    /\ UNCHANGED <<row, chain, settlements, dispatched, jobs>>

-----------------------------------------------------------------------------
\* The periodic jobs: a SELECT, then an UPDATE by primary key that does not
\* look at the status again.

SelectOverdue(job, overdue) ==
    /\ ~jobs[job]
    /\ overdue
    /\ jobs' = [jobs EXCEPT ![job] = TRUE]
    /\ UNCHANGED <<row, chain, settlements, dispatched, req>>

\* Mutant: the job looks for approved rows.
SelectApprovedOverdue ==
    SelectOverdue("approval_deadline", row.status = "APPROVED" /\ row.deal)

\* Only a selected deal has an approval_deadline.
SelectApprovalOverdue ==
    SelectOverdue("approval_deadline", row.status = "PENDING_APPROVAL" /\ row.deal)

SelectDispatchOverdue ==
    SelectOverdue("dispatch_timeout", row.status = "DISPATCHED" /\ ~row.frozen)

AutoReject ==
    /\ jobs["approval_deadline"]
    /\ row' = [row EXCEPT !.status = "REJECTED"]
    /\ jobs' = [jobs EXCEPT !["approval_deadline"] = FALSE]
    /\ UNCHANGED <<chain, settlements, dispatched, req>>

\* Mutant: the update leaves the frozen column alone.
AutoFreezeNothing ==
    /\ jobs["dispatch_timeout"]
    /\ jobs' = [jobs EXCEPT !["dispatch_timeout"] = FALSE]
    /\ UNCHANGED <<row, chain, settlements, dispatched, req>>

AutoFreeze ==
    /\ jobs["dispatch_timeout"]
    /\ row' = [row EXCEPT !.frozen = TRUE]
    /\ jobs' = [jobs EXCEPT !["dispatch_timeout"] = FALSE]
    /\ UNCHANGED <<chain, settlements, dispatched, req>>

\* The scheduler cancels the job, or its transaction fails.
AbortJob(job) ==
    /\ Faults
    /\ jobs[job]
    /\ jobs' = [jobs EXCEPT ![job] = FALSE]
    /\ UNCHANGED <<row, chain, settlements, dispatched, req>>

-----------------------------------------------------------------------------
Start(r) ==
    \/ SelectDeal(r) \/ DeployEscrow(r) \/ Approve(r) \/ RejectEscrow(r)
    \/ SellerApprove(r) \/ SellerReject(r) \/ SellerDispatch(r)
    \/ PlatformDeploy(r) \/ SubmitSignedDeploy(r)
    \/ PlatformFund(r) \/ FundEscrow(r)
    \/ ReleaseToSeller(r) \/ BuyerConfirm(r) \/ RefundEscrow(r)
    \/ BuildFund(r) \/ BuildRelease(r) \/ BuildRefund(r)

\* The user has signed.
Signed(r) == SubmitSignedFund(r) \/ SubmitSignedRelease(r) \/ SubmitSignedRefund(r)

Continue(r) ==
    \/ HoldRow(r) \/ InsertRow(r) \/ InsertConflict(r) \/ SaveRow(r)
    \/ CallDeploy(r) \/ CallFund(r) \/ CallRelease(r) \/ CallRefund(r) \/ Raise(r)
    \/ RecordDeployment(r) \/ RecordFunding(r) \/ RecordRelease(r) \/ RecordRefund(r)

Job ==
    \/ SelectApprovalOverdue \/ SelectDispatchOverdue \/ AutoReject \/ AutoFreeze
    \/ \E job \in Jobs : AbortJob(job)

Next == Job \/ \E r \in Requests : Start(r) \/ Signed(r) \/ Continue(r) \/ Crash(r)

Spec == Init /\ [][Next]_vars
-----------------------------------------------------------------------------
\* Invariants.

Request == [op : Ops \cup {"none"}, pc : PCs, snap : Row \cup {NoRow},
            agg : Aggregate \cup {NoAggregate}, app : Apps \cup {NoApp}]

\* Type correctness.
TypeOK ==
    /\ row \in Row \cup {NoRow}
    /\ chain \in [Apps -> App]
    /\ settlements \in [Apps -> Nat]
    /\ dispatched \in BOOLEAN
    /\ req \in [Requests -> Request]
    /\ jobs \in [Jobs -> BOOLEAN]

\* Statuses of the book that say something about the chain.
ChainClaims == {"DEPLOYED", "FUNDED", "DISPATCHED", "RELEASED", "REFUNDED"}

\* A contract in state c bears out a status of the book: a claim stays true as
\* the contract moves on, but RELEASED and REFUNDED name the state itself.
BearsOut(c, status) ==
    /\ c # "ABSENT"
    /\ status \in {"FUNDED", "DISPATCHED"} => c \in {"FUNDED", "RELEASED", "REFUNDED"}
    /\ status \in {"RELEASED", "REFUNDED"} => c = status

Backed(status) ==
    status \in ChainClaims => \E a \in Apps : BearsOut(chain[a].status, status)

\* An application that the book or an aggregate names exists on the chain.
Exists(app) == app # NoApp => chain[app].status # "ABSENT"

\* The book may lag the chain but is never ahead of it: when the row says
\* DEPLOYED, FUNDED, DISPATCHED, RELEASED or REFUNDED, some application of the
\* deal really got that far, and an application the row names exists, whatever
\* requests overlap, whichever stale row object is merged back and wherever a
\* worker dies.
BookBacked == Backed(row.status) /\ Exists(row.app)

\* record_pera_release writes one settlement row per release of the contract,
\* although buyer-confirm, platform-release and a signed release may overlap
\* and may be repeated: the settlements of an application are at most one, and
\* only for a released application.
OneSettlementPerRelease ==
    \A a \in Apps : /\ settlements[a] <= 1
                    /\ settlements[a] = 1 => chain[a].status = "RELEASED"

\* The platform key releases money only for a deal whose goods the seller has
\* marked as dispatched.
PlatformReleasesDispatched ==
    \A a \in Apps :
        chain[a].status = "RELEASED" /\ chain[a].creator = "platform" => dispatched

\* record_deployment's double-deploy guard: an application once recorded for the
\* deal is never replaced.  It guards one aggregate, not the row: overlapping
\* deployments each see an aggregate without an application.
AppRecordedOnce == [][row.app # NoApp => row'.app = row.app]_vars

\* At most one application of the deal ever receives the buyer's money.  One
\* request at a time cannot break this, even when requests die half-way;
\* overlapping requests can.
OneFundedApp ==
    \A a, b \in Apps :
        BearsOut(chain[a].status, "FUNDED") /\ BearsOut(chain[b].status, "FUNDED") => a = b

\* Money released for the deal goes to the seller's wallet and not to the
\* platform's.
SellerIsPaid ==
    \A a \in Apps : chain[a].status = "RELEASED" => chain[a].seller = "seller"

\* When no handler and no job is at work, a book that follows a contract shows
\* the state of that contract.
MirrorsChain ==
    (\A r \in Requests : req[r] = Idle) /\ (\A job \in Jobs : ~jobs[job]) =>
        /\ row.status \in {"DEPLOYED", "RELEASED", "REFUNDED"} =>
               chain[row.app].status = row.status
        /\ row.status \in {"FUNDED", "DISPATCHED"} => chain[row.app].status = "FUNDED"

\* A rejected escrow makes no further transition.
RejectedIsTerminal ==
    [][row.status = "REJECTED" => row'.status = "REJECTED"]_vars

-----------------------------------------------------------------------------
\* Liveness.  A handler that can go on does.  The scheduler runs each job again
\* and again and outlives a failed run, so a job that keeps finding work is not
\* aborted every time.  Nothing makes a user start a request or sign.
Fairness ==
    /\ \A r \in Requests : WF_vars(Continue(r))
    /\ WF_vars(SelectApprovalOverdue) /\ WF_vars(SelectDispatchOverdue)
    /\ SF_vars(AutoReject) /\ SF_vars(AutoFreeze)

FairSpec == Spec /\ Fairness

\* A selected deal does not wait for its seller forever: it is approved or
\* rejected, by a user or by the approval deadline.
ApprovalResolved ==
    row.status = "PENDING_APPROVAL" /\ row.deal ~> row.status # "PENDING_APPROVAL"

\* A dispatched deal does not wait for its buyer forever: it is settled, or
\* frozen for dispute by the dispatch timeout.
DispatchResolved ==
    row.status = "DISPATCHED" ~> row.status # "DISPATCHED" \/ row.frozen

-----------------------------------------------------------------------------
\* The inductive invariant.  Beside the row it speaks of what the requests
\* carry: a row object or an aggregate in hand may be written back at any later
\* time, so each of them must be backed by the chain as the row is.

\* Request q relies on the row being there.
NeedsRow(q) ==
    \/ q.snap # NoRow
    \/ q.pc \in {"hold", "save"}
    \/ q.op \in FundOps \cup ReleaseOps \cup RefundOps
    \/ q.op = "deploy_escrow" /\ q.pc # "insert"

\* What request q may write back is backed by the chain.
CarriesBacked(q) ==
    /\ Backed(q.snap.status) /\ Exists(q.snap.app)
    /\ Exists(q.agg.app)
    /\ q.pc \in {"insert", "save"} =>
          q.agg \in Aggregate /\ q.agg.status # "FROZEN" /\ Backed(q.agg.status)
    /\ q.pc = "insert" => q.agg.status # "DISPATCHED"

\* A request past its chain call finds the call's effect on the chain.
CallDone(q) ==
    /\ q.op \in FundOps \cup ReleaseOps \cup RefundOps => q.app \in Apps
    /\ q.pc = "record" =>
          /\ q.app \in Apps
          /\ q.op \in DeployOps => BearsOut(chain[q.app].status, "DEPLOYED")
          /\ q.op \in FundOps => BearsOut(chain[q.app].status, "FUNDED")
          /\ q.op \in ReleaseOps => BearsOut(chain[q.app].status, "RELEASED")
          /\ q.op \in RefundOps => BearsOut(chain[q.app].status, "REFUNDED")
    /\ q.pc = "save" /\ q.op \in ReleaseOps =>
          /\ chain[q.app].status = "RELEASED"
          /\ q.agg.status = "RELEASED" /\ q.snap.status # "RELEASED"

GoodRequest(q) ==
    /\ NeedsRow(q) => row \in Row
    /\ CarriesBacked(q)
    /\ CallDone(q)
    /\ q.op = "release" => dispatched

\* Request q has released application a and not yet entered it.
Owes(q, a) ==
    q.op \in ReleaseOps /\ q.pc \in {"record", "save"} /\ q.app = a

ReleasesOwedOnce ==
    \A a \in Apps, r \in Requests :
        Owes(req[r], a) => /\ settlements[a] = 0
                           /\ \A s \in Requests : Owes(req[s], a) => s = r

IInv ==
    /\ TypeOK
    /\ \A job \in Jobs : jobs[job] => row \in Row
    /\ BookBacked
    /\ row.status = "DISPATCHED" => dispatched
    /\ \A r \in Requests : GoodRequest(req[r])
    /\ OneSettlementPerRelease
    /\ ReleasesOwedOnce
    /\ PlatformReleasesDispatched

-----------------------------------------------------------------------------
\* When deployments do not overlap with other requests.

\* While a deployment is in flight no other request is.
DeploysAlone ==
    \A r, s \in Requests : req[r].op \in DeployOps /\ req[s] # Idle => r = s

\* Request q names app, the application that the row names: in the row object
\* and the aggregate it keeps, in what it is about to save, and in its chain
\* call.  Only a deployment about to save its application is ahead of the row.
FollowsRow(q, app) ==
    /\ q.snap # NoRow => q.snap.app = app
    /\ q.op = "seller_approve" /\ q.pc # "hold" => q.snap # NoRow
    /\ q.op \in KeepsAggregate /\ q.pc \in {"call", "record"} => q.agg.app = app
    /\ q.op \in FundOps \cup ReleaseOps \cup RefundOps => q.app = app
    /\ q.pc = "insert" => q.op \in DeployOps \/ q.agg.app = NoApp
    /\ q.pc = "save" => \/ q.agg.app = app
                        \/ app = NoApp /\ q.op \in DeployOps /\ q.app # NoApp

FundedIsRecorded ==
    \A a \in Apps : BearsOut(chain[a].status, "FUNDED") => a = row.app

AppIInv == FundedIsRecorded /\ \A r \in Requests : FollowsRow(req[r], row.app)

-----------------------------------------------------------------------------
\* The ledger that the settlement implements.

Place == [ABSENT |-> "absent", DEPLOYED |-> "empty", FUNDED |-> "held",
          RELEASED |-> "released", REFUNDED |-> "refunded"]

Claim(status) ==
    IF status = "DEPLOYED" THEN "deployed"
    ELSE IF status \in {"FUNDED", "DISPATCHED"} THEN "funded"
    ELSE IF status = "RELEASED" THEN "released"
    ELSE IF status = "REFUNDED" THEN "refunded"
    ELSE "none"

Ledger == INSTANCE EscrowLedger
          WITH funds <- [a \in Apps |-> Place[chain[a].status]],
               claim <- Claim(row.status),
               receipts <- settlements

\* Every step of the handlers and jobs is a step of EscrowLedger or leaves it
\* unchanged.
LedgerSpec == Ledger!Spec

-----------------------------------------------------------------------------
\* What Deal sees of the escrow: that it is there, and that a release is booked.
EscrowStage ==
    IF row = NoRow THEN "NONE"
    ELSE IF \E a \in Apps : settlements[a] > 0 THEN "RELEASED"
    ELSE "OPEN"

Life == INSTANCE EscrowLife WITH stage <- EscrowStage

\* No handler or job deletes an escrow or takes back a release, and none books a
\* release for an escrow that is not stored.
LifeSpec == Life!Spec
=============================================================================
