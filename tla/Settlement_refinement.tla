------------------------ MODULE Settlement_refinement ------------------------
(***************************************************************************)
(* Settlement implements EscrowLedger, for every value of the constants,   *)
(* and makes of the escrow what Deal sees of it, EscrowLife.               *)
(***************************************************************************)
EXTENDS Settlement_proofs

\* The ledger's variables, as the settlement shows them.
Funds == [a \in Apps |-> Place[chain[a].status]]

\* A status the chain backs makes a claim the ledger can take.
LEMMA BackedClaim ==
  ASSUME TypeOK, NEW status, Backed(status)
  PROVE  Ledger!Backed(Claim(status)) /\ Claim(status) \in Ledger!Claims
  <1>1. Claim(status) \in Ledger!Claims
    BY DEF Claim, Ledger!Claims
  <1>2. CASE status \in ChainClaims
    <2>1. PICK a \in Apps : BearsOut(chain[a].status, status)
      BY <1>2 DEF Backed
    <2>2. chain[a].status \in AppStatus
      BY DEF TypeOK, App
    <2>3. Funds[a] \in Ledger!Proof[Claim(status)]
      BY <1>2, <2>1, <2>2
      DEF Funds, Place, Claim, Ledger!Proof, Ledger!Places, BearsOut, ChainClaims, AppStatus
    <2>4. QED
      BY <1>1, <2>3 DEF Ledger!Backed, Funds
  <1>3. CASE status \notin ChainClaims
    BY <1>1, <1>3 DEF Ledger!Backed, Claim, ChainClaims
  <1>4. QED
    BY <1>1, <1>2, <1>3

\* A step of the book alone that leaves a backed status is an Enter.
LEMMA EnterStep ==
  ASSUME TypeOK, Backed(row'.status), UNCHANGED <<chain, settlements>>
  PROVE  Ledger!Next
  <1>1. Ledger!Backed(Claim(row'.status)) /\ Claim(row'.status) \in Ledger!Claims
    BY BackedClaim
  <1>2. Ledger!Enter(Claim(row'.status))
    BY <1>1 DEF Ledger!Enter
  <1>3. QED
    BY <1>1, <1>2 DEF Ledger!Next

\* A step of the contract alone moves the ledger's money.
LEMMA MoveStep ==
  ASSUME TypeOK, NEW a \in Apps, NEW c \in App, chain' = [chain EXCEPT ![a] = c],
         UNCHANGED <<row, settlements>>
  PROVE  Ledger!Move(a, Place[chain[a].status], Place[c.status])
  <1>1. \A b \in Apps : chain'[b] = IF b = a THEN c ELSE chain[b]
    BY DEF TypeOK
  <1>2. Funds' = [Funds EXCEPT ![a] = Place[c.status]]
    <2>1. Funds' = [b \in Apps |-> Place[chain'[b].status]]
      BY DEF Funds, Place
    <2>2. \A b \in Apps :
            Place[chain'[b].status] = IF b = a THEN Place[c.status] ELSE Place[chain[b].status]
      BY <1>1
    <2>3. QED
      BY <2>1, <2>2 DEF Funds
  <1>3. Funds[a] = Place[chain[a].status]
    BY DEF Funds
  <1>4. QED
    BY <1>2, <1>3 DEF Funds, Ledger!Move

\* A chain call is one move of money.
LEMMA CallMoves ==
  ASSUME IInv, NEW r \in Requests,
         CallDeploy(r) \/ CallFund(r) \/ CallRelease(r) \/ CallRefund(r)
  PROVE  Ledger!Next
  <1>1. TypeOK
    BY DEF IInv
  <1>2. CASE CallDeploy(r)
    <2>1. PICK a \in Apps, b \in BuyerWallets(req[r].op), s \in SellerWallets(req[r].op) :
            /\ chain[a].status = "ABSENT"
            /\ chain' = [chain EXCEPT ![a] = Initialized(Signer(req[r].op), b, s)]
      BY <1>2 DEF CallDeploy
    <2>2. SUFFICES ASSUME NEW c, c = Initialized(Signer(req[r].op), b, s)
                   PROVE  Ledger!Next
      OBVIOUS
    <2>3. c \in App /\ c.status = "DEPLOYED"
      <3>1. b \in Accounts /\ s \in Accounts /\ Signer(req[r].op) \in Accounts
        BY DEF BuyerWallets, SellerWallets, StandIns, Accounts, Signer
      <3>2. QED
        BY <2>2, <3>1 DEF Initialized, App, AppStatus
    <2>4. Ledger!Move(a, Place[chain[a].status], Place[c.status])
      BY <1>1, <1>2, <2>1, <2>2, <2>3, MoveStep DEF CallDeploy
    <2>5. Ledger!Create(a)
      BY <2>1, <2>3, <2>4 DEF Ledger!Create, Place
    <2>6. QED
      BY <2>5 DEF Ledger!Next
  <1>3. CASE CallFund(r)
    <2>1. SUFFICES ASSUME NEW a \in Apps, a = req[r].app, NEW c, c = Funded(chain[a])
                   PROVE  Ledger!Next
      BY <1>3, CallsApplication DEF CallFund
    <2>2. c \in App /\ c.status = "FUNDED" /\ chain[a].status = "DEPLOYED"
      BY <1>1, <1>3, <2>1 DEF CallFund, CanFund, Funded, TypeOK, App, AppStatus
    <2>3. Ledger!Move(a, Place[chain[a].status], Place[c.status])
      BY <1>1, <1>3, <2>1, <2>2, MoveStep DEF CallFund
    <2>4. Ledger!Pay(a)
      BY <2>2, <2>3 DEF Ledger!Pay, Place
    <2>5. QED
      BY <2>4 DEF Ledger!Next
  <1>4. CASE CallRelease(r)
    <2>1. SUFFICES ASSUME NEW a \in Apps, a = req[r].app, NEW c, c = Released(chain[a])
                   PROVE  Ledger!Next
      BY <1>4, CallsApplication DEF CallRelease
    <2>2. c \in App /\ c.status = "RELEASED" /\ chain[a].status = "FUNDED"
      BY <1>1, <1>4, <2>1 DEF CallRelease, CanRelease, Released, TypeOK, App, AppStatus
    <2>3. Ledger!Move(a, Place[chain[a].status], Place[c.status])
      BY <1>1, <1>4, <2>1, <2>2, MoveStep DEF CallRelease
    <2>4. Ledger!Release(a)
      BY <2>2, <2>3 DEF Ledger!Release, Place
    <2>5. QED
      BY <2>4 DEF Ledger!Next
  <1>5. CASE CallRefund(r)
    <2>1. SUFFICES ASSUME NEW a \in Apps, a = req[r].app, NEW c, c = Refunded(chain[a])
                   PROVE  Ledger!Next
      BY <1>5, CallsApplication DEF CallRefund
    <2>2. c \in App /\ c.status = "REFUNDED" /\ chain[a].status = "FUNDED"
      BY <1>1, <1>5, <2>1 DEF CallRefund, CanRefund, Refunded, TypeOK, App, AppStatus
    <2>3. Ledger!Move(a, Place[chain[a].status], Place[c.status])
      BY <1>1, <1>5, <2>1, <2>2, MoveStep DEF CallRefund
    <2>4. Ledger!Refund(a)
      BY <2>2, <2>3 DEF Ledger!Refund, Place
    <2>5. QED
      BY <2>4 DEF Ledger!Next
  <1>6. QED
    BY <1>2, <1>3, <1>4, <1>5

\* A save enters a claim, and settles the release it owes.
LEMMA SaveEnters ==
  ASSUME IInv, NEW r \in Requests, SaveRow(r)
  PROVE  Ledger!Next
  <1>1. /\ TypeOK /\ BookBacked /\ row \in Row
        /\ req[r] \in Request /\ GoodRequest(req[r])
        /\ req[r].agg \in Aggregate /\ req[r].agg.status # "FROZEN"
        /\ Backed(req[r].agg.status)
    BY DEF IInv, TypeOK, GoodRequest, CarriesBacked, NeedsRow, SaveRow
  <1>2. /\ row' = Merged(row, Seen(r), req[r].agg)
        /\ chain' = chain
    BY DEF SaveRow
  <1>3. row'.status \in {req[r].agg.status, row.status}
    BY <1>1, <1>2, MergedColumns
  <1>4. CASE req[r].op \notin ReleaseOps
    <2>1. Backed(row'.status)
      BY <1>1, <1>3 DEF BookBacked
    <2>2. QED
      BY <1>1, <1>4, <2>1, EnterStep DEF SaveRow
  <1>5. CASE req[r].op \in ReleaseOps
    <2>1. SUFFICES ASSUME NEW a \in Apps, a = req[r].app
                   PROVE  Ledger!Next
      BY <1>5, CallsApplication
    <2>2. /\ chain[a].status = "RELEASED"
          /\ req[r].agg.status = "RELEASED" /\ req[r].snap.status # "RELEASED"
          /\ settlements[a] = 0
      BY <1>1, <1>5, <2>1
      DEF GoodRequest, CallDone, SaveRow, IInv, ReleasesOwedOnce, Owes
    <2>3. row'.status = "RELEASED"
      <3>1. \/ row'.status = "RELEASED"
            \/ Seen(r).status = "RELEASED" /\ row'.status = row.status
        BY <1>2, <2>2 DEF Merged, ColumnsOf
      <3>2. Seen(r).status = "RELEASED" => Seen(r) = row
        BY <2>2 DEF Seen
      <3>3. QED
        BY <3>1, <3>2
    <2>4. settlements' = [settlements EXCEPT ![a] = 1]
      BY <1>5, <2>1, <2>2 DEF SaveRow
    <2>5. Funds[a] = "released"
      BY <2>2 DEF Funds, Place
    <2>6. Claim(row'.status) = "released"
      BY <2>3 DEF Claim
    <2>7. Ledger!Settle(a)
      BY <1>2, <2>2, <2>4, <2>5, <2>6 DEF Ledger!Settle, Funds
    <2>8. QED
      BY <2>7 DEF Ledger!Next
  <1>6. QED
    BY <1>4, <1>5

\* Every other step leaves the ledger alone or enters a claim.
LEMMA OtherSteps ==
  ASSUME IInv, [Next]_vars,
         \A r \in Requests : ~(\/ SaveRow(r) \/ CallDeploy(r) \/ CallFund(r)
                               \/ CallRelease(r) \/ CallRefund(r))
  PROVE  Ledger!Next \/ UNCHANGED <<row, chain, settlements>>
  <1>1. TypeOK /\ BookBacked
    BY DEF IInv
  <1>2. ASSUME NEW r \in Requests, Start(r) PROVE UNCHANGED <<row, chain, settlements>>
    BY <1>2
    DEF Start, Begin, SelectDeal, DeployEscrow, Approve, RejectEscrow, SellerApprove,
        SellerReject, SellerDispatch, PlatformDeploy, SubmitSignedDeploy, PlatformFund,
        FundEscrow, ReleaseToSeller, BuyerConfirm, RefundEscrow, BuildFund, BuildRelease,
        BuildRefund
  <1>8. ASSUME NEW r \in Requests, Signed(r) PROVE UNCHANGED <<row, chain, settlements>>
    BY <1>8 DEF Signed, SubmitSignedFund, SubmitSignedRelease, SubmitSignedRefund, Submit
  <1>3. ASSUME NEW r \in Requests, Continue(r)
        PROVE  Ledger!Next \/ UNCHANGED <<row, chain, settlements>>
    <2>1. CASE InsertRow(r)
      <3>1. /\ req[r].agg \in Aggregate /\ req[r].agg.status # "FROZEN"
            /\ Backed(req[r].agg.status)
        BY <2>1 DEF IInv, GoodRequest, CarriesBacked, InsertRow
      <3>2. row'.status = req[r].agg.status
        BY <2>1, <3>1 DEF InsertRow, NewRow, ColumnsOf
      <3>3. QED
        BY <1>1, <2>1, <3>1, <3>2, EnterStep DEF InsertRow
    <2>2. CASE ~InsertRow(r)
      BY <1>3, <2>2
      DEF Continue, HoldRow, InsertConflict, Raise, RecordDeployment, RecordFunding,
          RecordRelease, RecordRefund, Recorded
    <2>3. QED
      BY <2>1, <2>2
  <1>4. CASE Job
    <2>1. CASE AutoReject
      <3>1. row \in Row
        BY <2>1 DEF AutoReject, IInv, Jobs
      <3>2. row'.status = "REJECTED" /\ Backed("REJECTED")
        BY <2>1, <3>1 DEF AutoReject, Row, Backed, ChainClaims
      <3>3. QED
        BY <1>1, <2>1, <3>2, EnterStep DEF AutoReject
    <2>2. CASE AutoFreeze
      <3>1. row \in Row
        BY <2>2 DEF AutoFreeze, IInv, Jobs
      <3>2. row'.status = row.status
        BY <2>2, <3>1 DEF AutoFreeze, Row
      <3>3. QED
        BY <1>1, <2>2, <3>2, EnterStep DEF AutoFreeze, BookBacked
    <2>3. QED
      BY <1>4, <2>1, <2>2
      DEF Job, SelectApprovalOverdue, SelectDispatchOverdue, SelectOverdue, AbortJob
  <1>5. ASSUME NEW r \in Requests, Crash(r) PROVE UNCHANGED <<row, chain, settlements>>
    BY <1>5 DEF Crash
  <1>6. CASE UNCHANGED vars
    BY <1>6 DEF vars
  <1>9. QED
    BY <1>2, <1>3, <1>4, <1>5, <1>6, <1>8 DEF Next

\* No application and no row: no money and no claim.
LEMMA LedgerInit == Init => Ledger!Init
  BY RowIsNotNoRow DEF Init, NoContract, Place, Claim, Ledger!Init

\* Under the invariant, every step is a step of the ledger or leaves it unchanged.
LEMMA LedgerNext == IInv /\ [Next]_vars => [Ledger!Next]_(Ledger!ledger)
  <1> SUFFICES ASSUME IInv, [Next]_vars PROVE [Ledger!Next]_(Ledger!ledger)
    OBVIOUS
  <1>1. Ledger!Next \/ UNCHANGED <<row, chain, settlements>>
    BY CallMoves, SaveEnters, OtherSteps
  <1>2. UNCHANGED <<row, chain, settlements>> => UNCHANGED Ledger!ledger
    BY DEF Ledger!ledger, Claim, Place
  <1>3. QED
    BY <1>1, <1>2

\* The handlers and jobs, with all their interleavings, lost replies and
\* crashes, implement the ledger.
THEOREM Refinement == Spec => LedgerSpec
  BY InductiveInvariant, LedgerInit, LedgerNext, PTL DEF Spec, LedgerSpec, Ledger!Spec

-----------------------------------------------------------------------------
\* The escrow as Deal sees it.

\* A row that is there stays, whatever is merged into it.
LEMMA RowStays ==
  ASSUME IInv, [Next]_vars, row # NoRow
  PROVE  row' # NoRow
  <1>1. row \in Row /\ NoRow \notin Row
    BY RowIsNotNoRow DEF IInv, TypeOK
  <1>2. ASSUME NEW r \in Requests, SaveRow(r) PROVE row' \in Row
    <2>1. req[r].agg \in Aggregate /\ Seen(r) \in Row \cup {NoRow}
      BY <1>1, <1>2 DEF IInv, TypeOK, Request, GoodRequest, CarriesBacked, SaveRow, Seen
    <2>2. QED
      BY <1>1, <1>2, <2>1, MergedType DEF SaveRow
  <1>3. CASE AutoReject \/ AutoFreeze
    BY <1>1, <1>3 DEF AutoReject, AutoFreeze, Row, RowStatus, NoRow
  <1>4. ASSUME ~(\E r \in Requests : SaveRow(r)), ~(AutoReject \/ AutoFreeze)
        PROVE  row' = row
    <2>1. ASSUME NEW r \in Requests, Start(r) \/ Signed(r) \/ Crash(r) PROVE row' = row
      BY <2>1
      DEF Start, Begin, SelectDeal, DeployEscrow, Approve, RejectEscrow, SellerApprove,
          SellerReject, SellerDispatch, PlatformDeploy, SubmitSignedDeploy, PlatformFund,
          FundEscrow, ReleaseToSeller, BuyerConfirm, RefundEscrow, BuildFund, BuildRelease,
          BuildRefund, Signed, SubmitSignedFund, SubmitSignedRelease, SubmitSignedRefund,
          Submit, Crash
    <2>2. ASSUME NEW r \in Requests, Continue(r) PROVE row' = row
      BY <1>4, <2>2
      DEF Continue, HoldRow, InsertRow, InsertConflict, Raise, CallDeploy, CallFund,
          CallRelease, CallRefund, RecordDeployment, RecordFunding, RecordRelease,
          RecordRefund, Recorded
    <2>3. CASE Job
      BY <1>4, <2>3
      DEF Job, SelectApprovalOverdue, SelectDispatchOverdue, SelectOverdue, AbortJob
    <2>4. CASE UNCHANGED vars
      BY <2>4 DEF vars
    <2>5. QED
      BY <2>1, <2>2, <2>3, <2>4 DEF Next
  <1>5. QED
    BY <1>1, <1>2, <1>3, <1>4

\* Settlement rows are only added, and only by the save of a stored escrow.
LEMMA ReceiptsStay ==
  ASSUME IInv, [Next]_vars
  PROVE  \/ settlements' = settlements
         \/ /\ row # NoRow
            /\ \A a \in Apps : settlements[a] > 0 => settlements'[a] > 0
  <1>1. ASSUME NEW r \in Requests, SaveRow(r), req[r].op \in ReleaseOps
        PROVE  /\ row # NoRow
               /\ \A a \in Apps : settlements[a] > 0 => settlements'[a] > 0
    <2>1. row # NoRow
      BY <1>1, RowIsNotNoRow DEF IInv, GoodRequest, NeedsRow, SaveRow
    <2>2. settlements \in [Apps -> Nat]
      BY DEF IInv, TypeOK
    <2>3. settlements' = [settlements EXCEPT ![req[r].app] = @ + 1]
      BY <1>1 DEF SaveRow
    <2>4. QED
      BY <2>1, <2>2, <2>3
  <1>2. ASSUME ~(\E r \in Requests : SaveRow(r) /\ req[r].op \in ReleaseOps)
        PROVE  settlements' = settlements
    <2>1. ASSUME NEW r \in Requests, Start(r) \/ Signed(r) \/ Crash(r)
          PROVE  settlements' = settlements
      BY <2>1
      DEF Start, Begin, SelectDeal, DeployEscrow, Approve, RejectEscrow, SellerApprove,
          SellerReject, SellerDispatch, PlatformDeploy, SubmitSignedDeploy, PlatformFund,
          FundEscrow, ReleaseToSeller, BuyerConfirm, RefundEscrow, BuildFund, BuildRelease,
          BuildRefund, Signed, SubmitSignedFund, SubmitSignedRelease, SubmitSignedRefund,
          Submit, Crash
    <2>2. ASSUME NEW r \in Requests, Continue(r) PROVE settlements' = settlements
      <3>1. CASE SaveRow(r)
        BY <1>2, <3>1 DEF SaveRow
      <3>2. CASE ~SaveRow(r)
        BY <2>2, <3>2
        DEF Continue, HoldRow, InsertRow, InsertConflict, Raise, CallDeploy, CallFund,
            CallRelease, CallRefund, RecordDeployment, RecordFunding, RecordRelease,
            RecordRefund, Recorded
      <3>3. QED
        BY <3>1, <3>2
    <2>3. CASE Job
      BY <2>3
      DEF Job, SelectApprovalOverdue, SelectDispatchOverdue, SelectOverdue, AbortJob,
          AutoReject, AutoFreeze
    <2>4. CASE UNCHANGED vars
      BY <2>4 DEF vars
    <2>5. QED
      BY <2>1, <2>2, <2>3, <2>4 DEF Next
  <1>3. QED
    BY <1>1, <1>2

\* A release that is booked is booked for an escrow that is stored.
BookedIsStored == row = NoRow => \A a \in Apps : settlements[a] = 0

LEMMA BookedIsStoredStays == IInv /\ BookedIsStored /\ [Next]_vars => BookedIsStored'
  <1> SUFFICES ASSUME IInv, BookedIsStored, [Next]_vars, row' = NoRow
               PROVE  \A a \in Apps : settlements'[a] = 0
    BY DEF BookedIsStored
  <1>1. row = NoRow
    BY RowStays
  <1>2. QED
    BY <1>1, ReceiptsStay DEF BookedIsStored

\* Whatever overlaps, is lost or dies: the escrow is stored once and stays, and
\* a release that is booked stays booked.
THEOREM EscrowLives == Spec => LifeSpec
  <1>1. Init => Life!Init /\ BookedIsStored
    BY DEF Init, Life!Init, EscrowStage, BookedIsStored
  <1>2. IInv /\ BookedIsStored /\ [Next]_vars => [Life!Next]_EscrowStage
    <2> SUFFICES ASSUME IInv, BookedIsStored, [Next]_vars PROVE [Life!Next]_EscrowStage
      OBVIOUS
    <2>1. CASE row = NoRow
      <3>1. \A a \in Apps : settlements'[a] = 0
        BY <2>1, ReceiptsStay DEF BookedIsStored
      <3>2. EscrowStage = "NONE" /\ EscrowStage' \in {"NONE", "OPEN"}
        BY <2>1, <3>1 DEF EscrowStage
      <3>3. QED
        BY <3>2 DEF Life!Next, Life!Store
    <2>2. CASE row # NoRow
      <3>1. row' # NoRow
        BY <2>2, RowStays
      <3>2. (\E a \in Apps : settlements[a] > 0) => (\E a \in Apps : settlements'[a] > 0)
        BY ReceiptsStay
      <3>3. QED
        BY <2>2, <3>1, <3>2 DEF EscrowStage, Life!Next, Life!Release
    <2>3. QED
      BY <2>1, <2>2
  <1>3. QED
    BY InductiveInvariant, BookedIsStoredStays, <1>1, <1>2, PTL DEF Spec, LifeSpec, Life!Spec

\* An escrow that Deal sees released has paid: one of its contracts has released
\* its money.  SettledIsPaid of Deal is about such an escrow.
THEOREM ReleasedHasPaid ==
  Spec => [](EscrowStage = "RELEASED" => \E a \in Apps : chain[a].status = "RELEASED")
  <1>1. IInv => (EscrowStage = "RELEASED" => \E a \in Apps : chain[a].status = "RELEASED")
    <2> SUFFICES ASSUME IInv, EscrowStage = "RELEASED"
                 PROVE  \E a \in Apps : chain[a].status = "RELEASED"
      OBVIOUS
    <2>1. PICK a \in Apps : settlements[a] > 0
      BY DEF EscrowStage
    <2>2. settlements[a] = 1
      BY <2>1 DEF IInv, TypeOK, OneSettlementPerRelease
    <2>3. QED
      BY <2>2 DEF IInv, OneSettlementPerRelease
  <1>2. QED
    BY InductiveInvariant, <1>1, PTL
==============================================================================
