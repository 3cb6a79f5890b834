--------------------------- MODULE Platform_proofs ---------------------------
(***************************************************************************)
(* Proofs about X402, Enterprises, PurchaseOrders and CapabilityEmbedding, *)
(* for every number of calls, payments and nonces, of requests and firms,  *)
(* of clerks and deals, of recomputes and lapses.                          *)
(***************************************************************************)
EXTENDS X402, Enterprises, PurchaseOrders, CapabilityEmbedding, FiniteSetTheorems, TLAPS

-----------------------------------------------------------------------------
\* Purchase orders.  A number in hand may be stale, but the table only grows:
\* it is a number in use or the next one.

OrderInv ==
    /\ OrderTypeOK
    /\ IsFiniteSet(orders)
    /\ OrdersNumbered
    /\ \A c \in Clerks : clerk[c].step = "insert"
                         => clerk[c].number \in 1..(Cardinality(orders) + 1)

LEMMA OrderInitially == OrderInit => OrderInv
  <1> SUFFICES ASSUME OrderInit PROVE OrderInv
    OBVIOUS
  <1>1. IsFiniteSet(orders) /\ Cardinality(orders) = 0
    BY FS_EmptySet DEF OrderInit
  <1>2. OrderTypeOK
    BY DEF OrderInit, OrderTypeOK, NoWork, IdleClerks, BusyClerks
  <1>3. 1..Cardinality(orders) = {}
    BY <1>1
  <1>4. OrdersNumbered
    BY <1>3 DEF OrderInit, OrdersNumbered
  <1>5. QED
    BY <1>1, <1>2, <1>4 DEF OrderInv, OrderInit, NoWork

\* A clerk that stores, or abandons, an order leaves the numbers of the others
\* in range when the table is as it was or larger.
LEMMA OthersInRange ==
  ASSUME OrderInv, NEW c \in Clerks, clerk' = [clerk EXCEPT ![c] = NoWork],
         Cardinality(orders) \in Nat, Cardinality(orders)' \in Nat,
         Cardinality(orders) <= Cardinality(orders)'
  PROVE  \A d \in Clerks : clerk'[d].step = "insert"
                           => clerk'[d].number \in 1..(Cardinality(orders)' + 1)
  <1> SUFFICES ASSUME NEW d \in Clerks, clerk'[d].step = "insert"
               PROVE  clerk'[d].number \in 1..(Cardinality(orders)' + 1)
    OBVIOUS
  <1>1. d # c /\ clerk'[d] = clerk[d]
    BY DEF NoWork, OrderInv, OrderTypeOK
  <1>2. clerk[d].number \in 1..(Cardinality(orders) + 1)
    BY <1>1 DEF OrderInv
  <1>3. QED
    BY <1>1, <1>2

LEMMA InsertKeeps ==
  ASSUME OrderInv, NEW c \in Clerks, InsertOrder(c)
  PROVE  OrderInv'
  <1> DEFINE n == Cardinality(orders)
             new == [number |-> clerk[c].number, deal |-> clerk[c].deal]
  <1>1. n \in Nat
    BY FS_CardinalityType DEF OrderInv
  <1>2. /\ clerk[c] \in [step : {"insert"}, deal : Deals, number : Nat \ {0}]
        /\ clerk[c].number \in 1..(n + 1)
    BY DEF InsertOrder, OrderInv, OrderTypeOK, IdleClerks, BusyClerks
  <1>3. new \in Order
    BY <1>2 DEF Order
  <1>4. clerk' = [clerk EXCEPT ![c] = NoWork]
    BY DEF InsertOrder
  <1>5. clerk' \in [Clerks -> IdleClerks \cup BusyClerks]
    BY <1>4 DEF OrderInv, OrderTypeOK, NoWork, IdleClerks
  <1>6. CASE \E o \in orders : o.number = clerk[c].number
    <2>1. orders' = orders
      BY <1>6 DEF InsertOrder
    <2>2. Cardinality(orders)' = n /\ n <= Cardinality(orders)'
      BY <1>1, <2>1
    <2>3. \A d \in Clerks : clerk'[d].step = "insert"
                            => clerk'[d].number \in 1..(Cardinality(orders)' + 1)
      BY <1>1, <1>4, <2>2, OthersInRange
    <2>4. QED
      BY <2>1, <2>2, <2>3, <1>5 DEF OrderInv, OrderTypeOK, OrdersNumbered
  <1>7. CASE ~\E o \in orders : o.number = clerk[c].number
    <2>1. orders' = orders \cup {new}
      BY <1>7 DEF InsertOrder
    <2>2. new \notin orders
      BY <1>7
    <2>3. IsFiniteSet(orders') /\ Cardinality(orders') = n + 1
      BY <2>1, <2>2, FS_AddElement DEF OrderInv
    <2>4. clerk[c].number = n + 1
      <3>1. {o.number : o \in orders} = 1..n
        BY DEF OrderInv, OrdersNumbered
      <3>2. clerk[c].number \notin 1..n
        BY <1>7, <3>1
      <3>3. QED
        BY <1>1, <1>2, <3>2
    <2>5. {o.number : o \in orders'} = 1..(n + 1)
      <3>1. {o.number : o \in orders'} = {o.number : o \in orders} \cup {new.number}
        BY <2>1
      <3>2. 1..(n + 1) = 1..n \cup {n + 1}
        BY <1>1
      <3>3. QED
        BY <2>4, <3>1, <3>2 DEF OrderInv, OrdersNumbered
    <2>6. \A o, q \in orders' : o.number = q.number => o = q
      BY <1>7, <2>1 DEF OrderInv, OrdersNumbered
    <2>7. \A d \in Clerks : clerk'[d].step = "insert"
                            => clerk'[d].number \in 1..(Cardinality(orders)' + 1)
      <3>1. n <= Cardinality(orders)' /\ Cardinality(orders)' \in Nat
        BY <1>1, <2>3
      <3>2. QED
        BY <1>1, <1>4, <3>1, OthersInRange
    <2>8. OrderTypeOK'
      BY <1>3, <1>5, <2>1 DEF OrderInv, OrderTypeOK
    <2>9. OrdersNumbered'
      BY <2>3, <2>5, <2>6 DEF OrdersNumbered
    <2>10. QED
      BY <2>3, <2>7, <2>8, <2>9 DEF OrderInv
  <1>8. QED
    BY <1>6, <1>7

LEMMA OrderStep == OrderInv /\ [OrderNext]_orderVars => OrderInv'
  <1> SUFFICES ASSUME OrderInv, [OrderNext]_orderVars PROVE OrderInv'
    OBVIOUS
  <1>0. Cardinality(orders) \in Nat
    BY FS_CardinalityType DEF OrderInv
  <1>1. ASSUME NEW c \in Clerks, NEW d \in Deals, generate_po(c, d) PROVE OrderInv'
    <2>1. orders' = orders
      BY <1>1 DEF generate_po
    <2>2. clerk' = [clerk EXCEPT ![c] = [step |-> "count", deal |-> d]]
      BY <1>1 DEF generate_po
    <2>3. clerk' \in [Clerks -> IdleClerks \cup BusyClerks]
      BY <2>2 DEF OrderInv, OrderTypeOK, BusyClerks
    <2>4. \A e \in Clerks : clerk'[e].step = "insert" => clerk'[e] = clerk[e]
      BY <2>2 DEF OrderInv, OrderTypeOK
    <2>5. QED
      BY <2>1, <2>3, <2>4 DEF OrderInv, OrderTypeOK, OrdersNumbered
  <1>2. ASSUME NEW c \in Clerks, _generate_po_number(c) PROVE OrderInv'
    <2> DEFINE busy == [step |-> "insert", deal |-> clerk[c].deal,
                        number |-> Cardinality(orders) + 1]
    <2>1. orders' = orders /\ clerk' = [clerk EXCEPT ![c] = busy]
      BY <1>2 DEF _generate_po_number
    <2>2. clerk[c].deal \in Deals
      BY <1>2 DEF _generate_po_number, OrderInv, OrderTypeOK, IdleClerks, BusyClerks
    <2>3. busy \in BusyClerks
      BY <1>0, <2>2 DEF BusyClerks
    <2>4. clerk' \in [Clerks -> IdleClerks \cup BusyClerks]
      BY <2>1, <2>3 DEF OrderInv, OrderTypeOK
    <2>5. ASSUME NEW e \in Clerks, clerk'[e].step = "insert"
          PROVE  clerk'[e].number \in 1..(Cardinality(orders) + 1)
      <3>1. CASE e = c
        BY <1>0, <2>1, <3>1 DEF OrderInv, OrderTypeOK
      <3>2. CASE e # c
        BY <2>1, <2>5, <3>2 DEF OrderInv, OrderTypeOK
      <3>3. QED
        BY <3>1, <3>2
    <2>6. QED
      BY <2>1, <2>4, <2>5 DEF OrderInv, OrderTypeOK, OrdersNumbered
  <1>3. ASSUME NEW c \in Clerks, InsertOrder(c) PROVE OrderInv'
    BY <1>3, InsertKeeps
  <1>4. ASSUME NEW c \in Clerks, FailClerk(c) PROVE OrderInv'
    <2>1. orders' = orders /\ clerk' = [clerk EXCEPT ![c] = NoWork]
      BY <1>4 DEF FailClerk
    <2>2. clerk' \in [Clerks -> IdleClerks \cup BusyClerks]
      BY <2>1 DEF OrderInv, OrderTypeOK, NoWork, IdleClerks
    <2>3. Cardinality(orders)' \in Nat /\ Cardinality(orders) <= Cardinality(orders)'
      BY <1>0, <2>1
    <2>4. \A d \in Clerks : clerk'[d].step = "insert"
                            => clerk'[d].number \in 1..(Cardinality(orders)' + 1)
      BY <1>0, <2>1, <2>3, OthersInRange
    <2>5. QED
      BY <2>1, <2>2, <2>4 DEF OrderInv, OrderTypeOK, OrdersNumbered
  <1>5. CASE UNCHANGED orderVars
    BY <1>5 DEF orderVars, OrderInv, OrderTypeOK, OrdersNumbered
  <1>6. QED
    BY <1>1, <1>2, <1>3, <1>4, <1>5 DEF OrderNext

\* Orders are numbered 1, 2, 3, ... without a gap and without a number twice,
\* however many clerks count and insert side by side, and die on the way.
THEOREM OrdersAreNumbered == OrderSpec => []OrdersNumbered
  <1>1. OrderInv => OrdersNumbered
    BY DEF OrderInv
  <1>2. QED
    BY OrderInitially, OrderStep, <1>1, PTL DEF OrderSpec

-----------------------------------------------------------------------------
\* Enterprises.  What a request holds differs lawfully from what it loaded.

EnterpriseInv ==
    /\ EnterpriseTypeOK
    /\ \A r \in Requests :
        request[r].step \in {"update", "commit"}
        => Lawful(request[r].kind, request[r].loaded, request[r].enterprise)

LEMMA MergedType ==
  ASSUME NEW row \in Enterprise, NEW existing \in Enterprise, NEW e \in Enterprise
  PROVE  Merged(row, existing, e) \in Enterprise
  BY DEF Merged, Enterprise

\* Each column of a merged row is the aggregate's or the row's, whatever the
\* second reading: what is lawful for the aggregate is lawful for the row.
LEMMA MergedIsLawful ==
  ASSUME NEW row \in Enterprise, NEW existing \in Enterprise, NEW e \in Enterprise,
         NEW kind \in Kinds, Lawful(kind, row, e)
  PROVE  Lawful(kind, row, Merged(row, existing, e))
  BY DEF Merged, Enterprise, Lawful

LEMMA RequestParts ==
  ASSUME NEW q \in Request
  PROVE  /\ q.step = "insert" => q.firm \in Firms /\ q.wallet \in Wallets \cup {NoWallet}
         /\ q.step \in {"update", "commit"} =>
                /\ q.kind \in Kinds /\ q.firm \in Firms
                /\ q.loaded \in Enterprise /\ q.enterprise \in Enterprise
         /\ q.step = "commit" => q.existing \in Enterprise
  BY DEF Request

LEMMA NoRequestParts ==
  /\ NoRequest \in Request
  /\ NoRequest.step \notin {"update", "commit"}
  BY DEF NoRequest, Request

\* A step that gives one request a lawful value, and keeps the types of the
\* rows, keeps the invariant.
LEMMA OneRequest ==
  ASSUME EnterpriseInv, NEW r \in Requests, NEW q \in Request,
         request' = [request EXCEPT ![r] = q],
         q.step \in {"update", "commit"} => Lawful(q.kind, q.loaded, q.enterprise),
         registered' \subseteq Firms, rows' \in [Firms -> Enterprise]
  PROVE  EnterpriseInv'
  <1>1. EnterpriseTypeOK'
    BY DEF EnterpriseInv, EnterpriseTypeOK
  <1>2. ASSUME NEW s \in Requests, request'[s].step \in {"update", "commit"}
        PROVE  Lawful(request'[s].kind, request'[s].loaded, request'[s].enterprise)
    <2>1. CASE s = r
      <3>1. request'[s] = q
        BY <2>1 DEF EnterpriseInv, EnterpriseTypeOK
      <3>2. QED
        BY <1>2, <3>1
    <2>2. CASE s # r
      <3>1. request'[s] = request[s]
        BY <2>2 DEF EnterpriseInv, EnterpriseTypeOK
      <3>2. QED
        BY <1>2, <3>1 DEF EnterpriseInv
    <2>3. QED
      BY <2>1, <2>2
  <1>3. QED
    BY <1>1, <1>2 DEF EnterpriseInv, Lawful

LEMMA LoadedKeeps ==
  ASSUME EnterpriseInv, NEW r \in Requests, NEW f \in Firms, NEW kind \in Kinds,
         NEW e \in Enterprise, Loaded(r, kind, f, e), Lawful(kind, rows[f], e)
  PROVE  EnterpriseInv'
  <1> DEFINE q == [step |-> "update", kind |-> kind, firm |-> f,
                   loaded |-> rows[f], enterprise |-> e]
  <1>1. q \in Request
    BY DEF EnterpriseInv, EnterpriseTypeOK, Request
  <1>2. /\ request' = [request EXCEPT ![r] = q]
        /\ registered' = registered /\ rows' = rows
    BY DEF Loaded
  <1>3. QED
    BY <1>1, <1>2, OneRequest DEF EnterpriseInv, EnterpriseTypeOK

LEMMA EnterpriseInitially == EnterpriseInit => EnterpriseInv
  <1> SUFFICES ASSUME EnterpriseInit PROVE EnterpriseInv
    OBVIOUS
  <1>1. NewEnterprise \in Enterprise
    BY DefaultConfigAssumption DEF NewEnterprise, Enterprise
  <1>2. QED
    BY <1>1, NoRequestParts DEF EnterpriseInit, EnterpriseInv, EnterpriseTypeOK

LEMMA EnterpriseStep == EnterpriseInv /\ [EnterpriseNext]_enterpriseVars => EnterpriseInv'
  <1> SUFFICES ASSUME EnterpriseInv, [EnterpriseNext]_enterpriseVars PROVE EnterpriseInv'
    OBVIOUS
  <1> USE DEF EnterpriseInv, EnterpriseTypeOK
  <1>1. ASSUME NEW r \in Requests, register_enterprise(r) PROVE EnterpriseInv'
    <2> DEFINE f == request[r].firm
               w == request[r].wallet
               q == IF f \in registered \/ w = NoWallet THEN NoRequest
                    ELSE [step |-> "link", firm |-> f, wallet |-> w]
    <2>1. f \in Firms /\ w \in Wallets \cup {NoWallet}
      BY <1>1, RequestParts DEF register_enterprise
    <2>2. /\ request' = [request EXCEPT ![r] = q]
          /\ registered' = registered \cup {f} /\ rows' = rows
      BY <1>1 DEF register_enterprise
    <2>3. q \in Request /\ q.step \notin {"update", "commit"}
      BY <2>1, NoRequestParts DEF Request
    <2>4. QED
      BY <2>1, <2>2, <2>3, OneRequest
  <1>2. ASSUME NEW r \in Requests, Reselect(r) PROVE EnterpriseInv'
    <2> DEFINE q == request[r]
               p == [step |-> "commit", kind |-> q.kind, firm |-> q.firm,
                     loaded |-> q.loaded, enterprise |-> q.enterprise,
                     existing |-> rows[q.firm]]
    <2>1. /\ q.step = "update" /\ request' = [request EXCEPT ![r] = p]
          /\ registered' = registered /\ rows' = rows
      BY <1>2 DEF Reselect
    <2>2. /\ q.kind \in Kinds /\ q.firm \in Firms
          /\ q.loaded \in Enterprise /\ q.enterprise \in Enterprise
      BY <2>1, RequestParts
    <2>3. p \in Request
      BY <2>2 DEF Request
    <2>4. Lawful(p.kind, p.loaded, p.enterprise)
      BY <2>1
    <2>5. QED
      BY <2>1, <2>3, <2>4, OneRequest
  <1>3. ASSUME NEW r \in Requests, Commit(r) PROVE EnterpriseInv'
    <2> DEFINE q == request[r]
    <2>1. /\ q.step = "commit" /\ request' = [request EXCEPT ![r] = NoRequest]
          /\ rows' = [rows EXCEPT ![q.firm] = Merged(rows[q.firm], q.existing, q.enterprise)]
          /\ registered' = registered
      BY <1>3 DEF Commit
    <2>2. q.firm \in Firms /\ q.existing \in Enterprise /\ q.enterprise \in Enterprise
      BY <2>1, RequestParts
    <2>3. Merged(rows[q.firm], q.existing, q.enterprise) \in Enterprise
      BY <2>2, MergedType
    <2>4. rows' \in [Firms -> Enterprise]
      BY <2>1, <2>3
    <2>5. QED
      BY <2>1, <2>4, NoRequestParts, OneRequest
  <1>4. ASSUME NEW r \in Requests, FailRequest(r) PROVE EnterpriseInv'
    BY <1>4, NoRequestParts, OneRequest DEF FailRequest
  <1>5. ASSUME NEW r \in Requests, NEW f \in Firms, NEW w \in Wallets \cup {NoWallet},
               CheckUnique(r, f, w)
        PROVE  EnterpriseInv'
    <2> DEFINE q == [step |-> "insert", firm |-> f, wallet |-> w]
    <2>1. q \in Request /\ q.step \notin {"update", "commit"}
      BY DEF Request
    <2>2. QED
      BY <1>5, <2>1, OneRequest DEF CheckUnique
  <1>6. ASSUME NEW r \in Requests, NEW f \in Firms, NEW w \in Wallets, CheckAddress(r, f, w)
        PROVE  EnterpriseInv'
    <2> DEFINE q == [step |-> "link", firm |-> f, wallet |-> w]
    <2>1. q \in Request /\ q.step \notin {"update", "commit"}
      BY DEF Request
    <2>2. QED
      BY <1>6, <2>1, OneRequest DEF CheckAddress
  <1>7. ASSUME NEW r \in Requests, NEW f \in Firms, NEW files \in Files,
               submit_kyc(r, f, files)
        PROVE  EnterpriseInv'
    <2> DEFINE e == [rows[f] EXCEPT !.kyc = "KYC_SUBMITTED", !.docs = files]
    <2>1. e \in Enterprise
      BY DEF Enterprise
    <2>2. rows[f].kyc = "PENDING" /\ Loaded(r, "kyc", f, e)
      BY <1>7 DEF submit_kyc
    <2>3. Lawful("kyc", rows[f], e)
      BY <2>2 DEF Lawful, Enterprise
    <2>4. QED
      BY <2>1, <2>2, <2>3, LoadedKeeps DEF Kinds
  <1>8. ASSUME NEW r \in Requests, NEW f \in Firms, NEW config \in Configs,
               update_agent_config(r, f, config)
        PROVE  EnterpriseInv'
    <2> DEFINE e == [rows[f] EXCEPT !.config = config]
    <2>1. e \in Enterprise
      BY DEF Enterprise
    <2>2. Lawful("config", rows[f], e)
      BY DEF Lawful, Enterprise
    <2>3. QED
      BY <1>8, <2>1, <2>2, LoadedKeeps DEF Kinds, update_agent_config
  <1>9. ASSUME NEW r \in Requests, NEW f \in Firms, NEW w \in Wallets, link_wallet(r, f, w)
        PROVE  EnterpriseInv'
    <2> DEFINE e == [rows[f] EXCEPT !.wallet = w]
    <2>1. e \in Enterprise
      BY DEF Enterprise
    <2>2. rows[f].wallet = NoWallet /\ Loaded(r, "link", f, e)
      BY <1>9 DEF link_wallet
    <2>3. Lawful("link", rows[f], e)
      BY <2>2, NoWalletAssumption DEF Lawful, Enterprise
    <2>4. QED
      BY <2>1, <2>2, <2>3, LoadedKeeps DEF Kinds
  <1>10. ASSUME NEW r \in Requests, NEW f \in Firms, unlink_wallet(r, f)
         PROVE  EnterpriseInv'
    <2> DEFINE e == [rows[f] EXCEPT !.wallet = NoWallet]
    <2>1. e \in Enterprise
      BY DEF Enterprise
    <2>2. Lawful("unlink", rows[f], e)
      BY DEF Lawful, Enterprise
    <2>3. QED
      BY <1>10, <2>1, <2>2, LoadedKeeps DEF Kinds, unlink_wallet
  <1>11. CASE UNCHANGED enterpriseVars
    BY <1>11 DEF enterpriseVars, Lawful
  <1>12. QED
    BY <1>1, <1>2, <1>3, <1>4, <1>5, <1>6, <1>7, <1>8, <1>9, <1>10, <1>11
    DEF EnterpriseNext

\* The step of a request that commits is Commit or FailRequest.
LEMMA CommitIsLawful ==
  ASSUME EnterpriseInv, [EnterpriseNext]_enterpriseVars,
         NEW r \in Requests, request[r].step = "commit", request'[r] # request[r],
         request[r].loaded = rows[request[r].firm]
  PROVE  Lawful(request[r].kind, rows[request[r].firm], rows'[request[r].firm])
  <1> DEFINE q == request[r]
             f == q.firm
  <1>1. /\ q \in Request /\ q.kind \in Kinds /\ f \in Firms
        /\ q.existing \in Enterprise /\ q.enterprise \in Enterprise
    BY RequestParts DEF EnterpriseInv, EnterpriseTypeOK
  <1>2. Lawful(q.kind, rows[f], q.enterprise)
    BY DEF EnterpriseInv
  <1>3. rows[f] \in Enterprise
    BY <1>1 DEF EnterpriseInv, EnterpriseTypeOK
  <1>4. Commit(r) \/ FailRequest(r)
    <2> USE DEF EnterpriseInv, EnterpriseTypeOK
    <2>1. EnterpriseNext
      BY DEF enterpriseVars
    <2>2. ASSUME NEW s \in Requests, NEW p, request' = [request EXCEPT ![s] = p]
          PROVE  s = r
      BY <2>2
    <2>3. q # NoRequest
      BY DEF NoRequest
    <2>4. \A w, g : q # [step |-> "link", firm |-> g, wallet |-> w]
      OBVIOUS
    <2>5. \A s \in Requests, g \in Firms :
            \A kind, e : Loaded(s, kind, g, e) => s = r
      BY <2>2 DEF Loaded
    <2>6. ASSUME NEW s \in Requests, s # r
          PROVE  ~(register_enterprise(s) \/ Reselect(s) \/ Commit(s) \/ FailRequest(s))
      BY <2>2, <2>6 DEF register_enterprise, Reselect, Commit, FailRequest
    <2>7. ~register_enterprise(r) /\ ~Reselect(r)
      BY DEF register_enterprise, Reselect
    <2>8. ASSUME NEW s \in Requests, NEW g \in Firms, NEW w,
                 CheckUnique(s, g, w) \/ CheckAddress(s, g, w)
          PROVE  FALSE
      BY <2>2, <2>3, <2>8 DEF CheckUnique, CheckAddress
    <2>9. ASSUME NEW s \in Requests, NEW g \in Firms, NEW w, link_wallet(s, g, w)
          PROVE  FALSE
      BY <2>3, <2>4, <2>5, <2>9 DEF link_wallet, MayLink
    <2>10. ASSUME NEW s \in Requests, NEW g \in Firms,
                  \/ unlink_wallet(s, g)
                  \/ \E files \in Files : submit_kyc(s, g, files)
                  \/ \E config \in Configs : update_agent_config(s, g, config)
           PROVE  FALSE
      BY <2>3, <2>5, <2>10 DEF unlink_wallet, submit_kyc, update_agent_config
    <2>11. QED
      BY <2>1, <2>6, <2>7, <2>8, <2>9, <2>10 DEF EnterpriseNext
  <1>5. CASE Commit(r)
    <2>1. rows'[f] = Merged(rows[f], q.existing, q.enterprise)
      BY <1>1, <1>5 DEF Commit, EnterpriseInv, EnterpriseTypeOK
    <2>2. QED
      BY <1>1, <1>2, <1>3, <2>1, MergedIsLawful
  <1>6. CASE FailRequest(r)
    <2>1. rows' = rows
      BY <1>6 DEF FailRequest
    <2>2. QED
      BY <2>1 DEF Lawful
  <1>7. QED
    BY <1>4, <1>5, <1>6

\* A request that commits to the row it loaded changes its own columns only,
\* undoes no KYC submission and replaces no linked wallet, whatever any number
\* of other requests write and undo meanwhile.
THEOREM UpToDateWritesAreLawful == EnterpriseSpec => OnlyStaleWritesUndo
  <1>1. EnterpriseInv /\ [EnterpriseNext]_enterpriseVars
        => [\A r \in Requests :
             LET q == request[r]
             IN  q.step = "commit" /\ request'[r] # q /\ q.loaded = rows[q.firm]
                 => Lawful(q.kind, rows[q.firm], rows'[q.firm])]_enterpriseVars
    BY CommitIsLawful
  <1>2. QED
    BY EnterpriseInitially, EnterpriseStep, <1>1, PTL DEF EnterpriseSpec, OnlyStaleWritesUndo

\* Requests hold, and rows store, enterprises of the type the model gives them.
THEOREM EnterpriseTypeCorrect == EnterpriseSpec => []EnterpriseTypeOK
  <1>1. EnterpriseInv => EnterpriseTypeOK
    BY DEF EnterpriseInv
  <1>2. QED
    BY EnterpriseInitially, EnterpriseStep, <1>1, PTL DEF EnterpriseSpec

-----------------------------------------------------------------------------
\* Payments.  A call past its broadcast holds the payment: the network took it
\* from this call and takes it from no other.

Holding == {"confirm", "consume", "mark", "record", "serve"}

CallInv(c) ==
    /\ call[c].step \in Holding =>
           chain[call[c].payment] # "unsent" /\ served[call[c].payment] = 0
    /\ call[c].step \in Holding \ {"confirm"} => chain[call[c].payment] = "confirmed"
    /\ call[c].step \in {"mark", "record", "serve"} => nonces[call[c].nonce] = "gone"

PaymentInv ==
    /\ PaymentTypeOK
    /\ OneAccessPerPayment
    /\ \A c \in Calls : CallInv(c)
    /\ \A c, d \in Calls :
           /\ call[c].step \in Holding /\ call[d].step \in Holding
           /\ call[c].payment = call[d].payment
           => c = d
    /\ \A n \in answered : nonces[n] = "gone"

LEMMA CallParts ==
  ASSUME PaymentTypeOK, NEW c \in Calls
  PROVE  /\ call[c].step # "idle" =>
                call[c] \in BusyCalls /\ call[c].payment \in Payments /\ call[c].nonce \in Nonces
         /\ NoCall \in IdleCalls /\ NoCall.step = "idle" /\ NoCall.step \notin Holding
         /\ Holding \subseteq CallSteps \ {"idle"}
  BY DEF PaymentTypeOK, IdleCalls, BusyCalls, NoCall, Holding, CallSteps

LEMMA GoToParts ==
  ASSUME PaymentTypeOK, NEW c \in Calls, call[c].step # "idle",
         NEW step \in CallSteps \ {"idle"}, GoTo(c, step)
  PROVE  /\ call' \in [Calls -> IdleCalls \cup BusyCalls]
         /\ call'[c].step = step
         /\ call'[c].payment = call[c].payment
         /\ call'[c].nonce = call[c].nonce
         /\ \A d \in Calls \ {c} : call'[d] = call[d]
  <1>1. call[c] \in BusyCalls
    BY CallParts
  <1>2. [call[c] EXCEPT !.step = step] \in BusyCalls
    BY <1>1 DEF BusyCalls
  <1>3. call' = [call EXCEPT ![c] = [call[c] EXCEPT !.step = step]]
    BY DEF GoTo
  <1>4. QED
    BY <1>1, <1>2, <1>3 DEF PaymentTypeOK, BusyCalls

LEMMA RefuseParts ==
  ASSUME PaymentTypeOK, NEW c \in Calls, call' = [call EXCEPT ![c] = NoCall]
  PROVE  /\ call' \in [Calls -> IdleCalls \cup BusyCalls]
         /\ call'[c].step = "idle"
         /\ \A d \in Calls \ {c} : call'[d] = call[d]
  BY CallParts DEF PaymentTypeOK

LEMMA PaymentInitially == PaymentInit => PaymentInv
  <1> SUFFICES ASSUME PaymentInit PROVE PaymentInv
    OBVIOUS
  <1>1. PaymentTypeOK
    BY DEF PaymentInit, PaymentTypeOK, IdleCalls, NoCall
  <1>2. OneAccessPerPayment
    BY DEF PaymentInit, OneAccessPerPayment
  <1>3. QED
    BY <1>1, <1>2 DEF PaymentInit, PaymentInv, CallInv, NoCall, Holding

\* A call that goes back, or moves on without holding a payment, while the
\* stores stay as they are.
LEMMA OnlyTheCallMoves ==
  ASSUME PaymentInv, NEW c \in Calls, UNCHANGED <<nonces, used, chain, paid, served, answered>>,
         call' \in [Calls -> IdleCalls \cup BusyCalls],
         call'[c].step \notin Holding,
         \A d \in Calls \ {c} : call'[d] = call[d]
  PROVE  PaymentInv'
  <1>1. PaymentTypeOK'
    BY DEF PaymentInv, PaymentTypeOK
  <1>2. OneAccessPerPayment'
    BY DEF PaymentInv, OneAccessPerPayment
  <1>3. \A d \in Calls : CallInv(d)'
    BY DEF PaymentInv, CallInv, Holding
  <1>4. QED
    BY <1>1, <1>2, <1>3 DEF PaymentInv

\* A call that holds a payment and goes on holding it, while nonces may be
\* spent, payments confirmed and recorded.
LEMMA HolderMoves ==
  ASSUME PaymentInv, NEW c \in Calls, call[c].step \in Holding,
         NEW step \in Holding, GoTo(c, step),
         UNCHANGED <<chain, served, answered>>,
         nonces' \in [Nonces -> {"fresh", "pending", "gone"}],
         \A n \in Nonces : nonces[n] = "gone" => nonces'[n] = "gone",
         used' \subseteq Nonces,
         paid' \subseteq Payments \X Nonces,
         OneAccessPerPayment',
         step # "confirm" => chain[call[c].payment] = "confirmed",
         step \in {"mark", "record", "serve"} => nonces'[call[c].nonce] = "gone"
  PROVE  PaymentInv'
  <1>0. PaymentTypeOK
    BY DEF PaymentInv
  <1>1. /\ call[c].step # "idle" /\ step \in CallSteps \ {"idle"}
        /\ call[c].payment \in Payments /\ call[c].nonce \in Nonces
    BY <1>0, CallParts DEF Holding
  <1>2. /\ call' \in [Calls -> IdleCalls \cup BusyCalls]
        /\ call'[c].step = step
        /\ call'[c].payment = call[c].payment
        /\ call'[c].nonce = call[c].nonce
        /\ \A d \in Calls \ {c} : call'[d] = call[d]
    BY <1>0, <1>1, GoToParts
  <1>3. PaymentTypeOK'
    BY <1>0, <1>2 DEF PaymentTypeOK
  <1>4. ASSUME NEW d \in Calls PROVE CallInv(d)'
    <2>1. CASE d = c
      BY <1>2, <2>1 DEF PaymentInv, CallInv, Holding
    <2>2. CASE d # c
      <3>1. call'[d] = call[d]
        BY <1>2, <2>2
      <3>2. call[d].step \in {"mark", "record", "serve"} => call[d].nonce \in Nonces
        BY <1>0, CallParts
      <3>3. QED
        BY <3>1, <3>2 DEF PaymentInv, CallInv, Holding
    <2>3. QED
      BY <2>1, <2>2
  <1>5. ASSUME NEW d \in Calls, NEW e \in Calls,
               call'[d].step \in Holding, call'[e].step \in Holding,
               call'[d].payment = call'[e].payment
        PROVE  d = e
    <2>1. \A b \in Calls : /\ call'[b].step \in Holding => call[b].step \in Holding
                            /\ call'[b].payment = call[b].payment
      BY <1>2
    <2>2. QED
      BY <1>5, <2>1 DEF PaymentInv
  <1>6. \A n \in answered' : nonces'[n] = "gone"
    BY <1>0 DEF PaymentInv, PaymentTypeOK
  <1>7. QED
    BY <1>3, <1>4, <1>5, <1>6 DEF PaymentInv

\* A step of the stores alone: nonces are spent, payments confirmed.
LEMMA StoresMove ==
  ASSUME PaymentInv, UNCHANGED <<paid, call, served, answered>>,
         nonces' \in [Nonces -> {"fresh", "pending", "gone"}],
         \A n \in Nonces : nonces[n] = "gone" => nonces'[n] = "gone",
         chain' \in [Payments -> {"unsent", "sent", "confirmed"}],
         \A p \in Payments : /\ chain[p] # "unsent" => chain'[p] # "unsent"
                             /\ chain[p] = "confirmed" => chain'[p] = "confirmed",
         used' \subseteq Nonces
  PROVE  PaymentInv'
  <1>0. PaymentTypeOK
    BY DEF PaymentInv
  <1>1. PaymentTypeOK'
    BY <1>0 DEF PaymentTypeOK
  <1>2. OneAccessPerPayment'
    <2>1. \A r \in paid : r[1] \in Payments /\ r[2] \in Nonces
      BY <1>0 DEF PaymentTypeOK
    <2>2. QED
      BY <2>1 DEF PaymentInv, OneAccessPerPayment
  <1>3. ASSUME NEW c \in Calls PROVE CallInv(c)'
    <2>1. call[c].step \in Holding => call[c].payment \in Payments /\ call[c].nonce \in Nonces
      BY <1>0, CallParts DEF Holding
    <2>2. call'[c] = call[c]
      OBVIOUS
    <2>3. QED
      BY <2>1, <2>2 DEF PaymentInv, CallInv, Holding
  <1>4. \A n \in answered' : nonces'[n] = "gone"
    BY <1>0 DEF PaymentInv, PaymentTypeOK
  <1>5. QED
    BY <1>1, <1>2, <1>3, <1>4 DEF PaymentInv

LEMMA BroadcastKeeps ==
  ASSUME PaymentInv, NEW c \in Calls, Broadcast(c)
  PROVE  PaymentInv'
  <1> DEFINE p == call[c].payment
  <1>0. PaymentTypeOK /\ call[c].step = "broadcast" /\ p \in Payments
    BY CallParts DEF PaymentInv, Broadcast, At
  <1>1. CASE UNCHANGED chain /\ Refuse(c)
    <2>1. call' = [call EXCEPT ![c] = NoCall]
      BY <1>1 DEF Refuse
    <2>2. QED
      BY <1>0, <1>1, <2>1, RefuseParts, CallParts, OnlyTheCallMoves DEF Broadcast, Holding
  <1>2. CASE chain[p] = "unsent" /\ chain' = [chain EXCEPT ![p] = "sent"]
             /\ (GoTo(c, "confirm") \/ Refuse(c))
    <2>1. UNCHANGED <<nonces, used, paid, served, answered>>
      BY DEF Broadcast
    <2>2. /\ call' \in [Calls -> IdleCalls \cup BusyCalls]
          /\ call'[c].step \in {"confirm", "idle"}
          /\ call'[c].step = "confirm" => call'[c].payment = p
          /\ \A d \in Calls \ {c} : call'[d] = call[d]
      <3>1. CASE GoTo(c, "confirm")
        BY <1>0, <3>1, GoToParts DEF CallSteps
      <3>2. CASE Refuse(c)
        BY <1>0, <3>2, RefuseParts DEF Refuse
      <3>3. QED
        BY <1>2, <3>1, <3>2
    <2>3. PaymentTypeOK'
      BY <1>0, <1>2, <2>1, <2>2 DEF PaymentTypeOK
    <2>4. /\ \A q \in Payments : q # p => chain'[q] = chain[q]
          /\ chain'[p] = "sent"
      BY <1>0, <1>2 DEF PaymentTypeOK
    <2>5. served[p] = 0
      <3>1. served[p] \in Nat /\ ~(served[p] > 0)
        BY <1>0, <1>2 DEF PaymentInv, OneAccessPerPayment, PaymentTypeOK
      <3>2. QED
        BY <3>1
    <2>6. OneAccessPerPayment'
      <3>1. \A r \in paid : r[1] \in Payments /\ r[1] # p
        BY <1>0, <1>2 DEF PaymentInv, OneAccessPerPayment, PaymentTypeOK
      <3>2. \A q \in Payments : served[q] <= 1 /\ (served[q] > 0 => chain'[q] = "confirmed")
        BY <2>4, <2>5 DEF PaymentInv, OneAccessPerPayment
      <3>3. QED
        BY <2>1, <2>4, <3>1, <3>2 DEF PaymentInv, OneAccessPerPayment
    <2>7. \A d \in Calls : call[d].step \in Holding =>
                                call[d].payment \in Payments /\ call[d].payment # p
      BY <1>0, <1>2, CallParts DEF PaymentInv, CallInv, Holding
    <2>8. ASSUME NEW d \in Calls PROVE CallInv(d)'
      <3>1. CASE d = c
        BY <2>1, <2>2, <2>4, <2>5, <3>1 DEF CallInv, Holding
      <3>2. CASE d # c
        <4>1. call'[d] = call[d]
          BY <2>2, <3>2
        <4>2. QED
          BY <2>1, <2>4, <2>7, <4>1 DEF PaymentInv, CallInv, Holding
      <3>3. QED
        BY <3>1, <3>2
    <2>9. ASSUME NEW d \in Calls, NEW e \in Calls,
                 call'[d].step \in Holding, call'[e].step \in Holding,
                 call'[d].payment = call'[e].payment
          PROVE  d = e
      BY <2>2, <2>7, <2>9 DEF PaymentInv, Holding
    <2>10. QED
      BY <2>1, <2>3, <2>6, <2>8, <2>9 DEF PaymentInv
  <1>3. QED
    BY <1>1, <1>2 DEF Broadcast

LEMMA RecordKeeps ==
  ASSUME PaymentInv, NEW c \in Calls, Record(c)
  PROVE  PaymentInv'
  <1> DEFINE new == <<call[c].payment, call[c].nonce>>
  <1>0. /\ PaymentTypeOK /\ call[c].step = "record"
        /\ call[c].payment \in Payments /\ call[c].nonce \in Nonces
    BY CallParts DEF PaymentInv, Record, At
  <1>1. chain[call[c].payment] = "confirmed" /\ nonces[call[c].nonce] = "gone"
    BY <1>0 DEF PaymentInv, CallInv, Holding
  <1>2. /\ UNCHANGED <<nonces, used, chain, served, answered>> /\ GoTo(c, "serve")
        /\ \/ paid' = paid
           \/ /\ \A r \in paid : r[1] # call[c].payment /\ r[2] # call[c].nonce
              /\ paid' = paid \cup {new}
    BY DEF Record
  <1>3. OneAccessPerPayment' /\ paid' \subseteq Payments \X Nonces
    <2>1. CASE paid' = paid
      BY <1>0, <1>2, <2>1 DEF PaymentInv, OneAccessPerPayment, PaymentTypeOK
    <2>2. CASE /\ \A r \in paid : r[1] # call[c].payment /\ r[2] # call[c].nonce
               /\ paid' = paid \cup {new}
      <3>1. paid' \subseteq Payments \X Nonces
        BY <1>0, <2>2 DEF PaymentTypeOK
      <3>2. \A r \in paid' : chain[r[1]] = "confirmed" /\ nonces[r[2]] = "gone"
        BY <1>1, <2>2 DEF PaymentInv, OneAccessPerPayment
      <3>3. \A r, q \in paid' : (r[1] = q[1] \/ r[2] = q[2]) => r = q
        BY <2>2 DEF PaymentInv, OneAccessPerPayment
      <3>4. QED
        BY <1>2, <3>1, <3>2, <3>3 DEF PaymentInv, OneAccessPerPayment
    <2>3. QED
      BY <1>2, <2>1, <2>2
  <1>4. nonces' \in [Nonces -> {"fresh", "pending", "gone"}] /\ used' \subseteq Nonces
    BY <1>0, <1>2 DEF PaymentTypeOK
  <1>5. QED
    BY <1>0, <1>1, <1>2, <1>3, <1>4, HolderMoves DEF Holding

LEMMA ServeKeeps ==
  ASSUME PaymentInv, NEW c \in Calls, Serve(c)
  PROVE  PaymentInv'
  <1> DEFINE p == call[c].payment
             n == call[c].nonce
  <1>0. PaymentTypeOK /\ call[c].step = "serve" /\ p \in Payments /\ n \in Nonces
    BY CallParts DEF PaymentInv, Serve, At
  <1>1. /\ UNCHANGED <<nonces, used, chain, paid>>
        /\ served' = [served EXCEPT ![p] = served[p] + 1]
        /\ answered' = answered \cup {n}
        /\ call' = [call EXCEPT ![c] = NoCall]
    BY DEF Serve
  <1>2. /\ call' \in [Calls -> IdleCalls \cup BusyCalls]
        /\ call'[c].step = "idle"
        /\ \A d \in Calls \ {c} : call'[d] = call[d]
    BY <1>0, <1>1, RefuseParts
  <1>3. served[p] = 0 /\ chain[p] = "confirmed" /\ nonces[n] = "gone"
    BY <1>0 DEF PaymentInv, CallInv, Holding
  <1>4. served' \in [Payments -> Nat] /\ served'[p] = 1
        /\ \A q \in Payments : q # p => served'[q] = served[q]
    BY <1>0, <1>1, <1>3 DEF PaymentTypeOK
  <1>5. PaymentTypeOK'
    BY <1>0, <1>1, <1>2, <1>4 DEF PaymentTypeOK
  <1>6. OneAccessPerPayment'
    BY <1>0, <1>1, <1>3, <1>4 DEF PaymentInv, OneAccessPerPayment
  <1>7. ASSUME NEW d \in Calls PROVE CallInv(d)'
    <2>1. CASE d = c
      BY <1>2, <2>1 DEF CallInv, Holding
    <2>2. CASE d # c
      <3>1. call'[d] = call[d]
        BY <1>2, <2>2
      <3>2. call[d].step \in Holding => call[d].payment \in Payments /\ call[d].payment # p
        BY <1>0, <2>2, CallParts DEF PaymentInv, Holding
      <3>3. QED
        BY <1>1, <1>4, <3>1, <3>2 DEF PaymentInv, CallInv, Holding
    <2>3. QED
      BY <2>1, <2>2
  <1>8. ASSUME NEW d \in Calls, NEW e \in Calls,
               call'[d].step \in Holding, call'[e].step \in Holding,
               call'[d].payment = call'[e].payment
        PROVE  d = e
    BY <1>2, <1>8 DEF PaymentInv, Holding
  <1>9. \A m \in answered' : nonces'[m] = "gone"
    BY <1>1, <1>3 DEF PaymentInv
  <1>10. QED
    BY <1>5, <1>6, <1>7, <1>8, <1>9 DEF PaymentInv

LEMMA ValidationStep ==
  ASSUME PaymentInv, NEW c \in Calls, _validate_payment(c)
  PROVE  PaymentInv'
  <1>0. PaymentTypeOK /\ OneAccessPerPayment /\ CallInv(c)
    BY DEF PaymentInv
  <1>1. CASE \/ RejectReplay(c) \/ CheckPending(c) \/ Fail(c)
             \/ Confirmed(c) /\ Refuse(c)
    <2>1. /\ UNCHANGED <<nonces, used, chain, paid, served, answered>>
          /\ call[c].step # "idle"
          /\ Refuse(c) \/ GoTo(c, "pending") \/ GoTo(c, "broadcast")
      BY <1>1 DEF RejectReplay, CheckPending, Fail, Confirmed, At, Refuse
    <2>2. CASE Refuse(c)
      BY <1>0, <2>1, <2>2, RefuseParts, CallParts, OnlyTheCallMoves DEF Refuse, Holding
    <2>3. ASSUME NEW step \in {"pending", "broadcast"}, GoTo(c, step) PROVE PaymentInv'
      <3>1. step \in CallSteps \ {"idle"} /\ step \notin Holding
        BY DEF CallSteps, Holding
      <3>2. QED
        BY <1>0, <2>1, <2>3, <3>1, GoToParts, OnlyTheCallMoves
    <2>4. QED
      BY <2>1, <2>2, <2>3
  <1>2. CASE Confirmed(c) /\ ~Refuse(c)
    <2>1. /\ call[c].step = "confirm" /\ chain[call[c].payment] = "confirmed"
          /\ GoTo(c, "consume") /\ UNCHANGED <<nonces, used, chain, paid, served, answered>>
      BY <1>2 DEF Confirmed, At
    <2>2. OneAccessPerPayment'
      BY <1>0, <2>1 DEF OneAccessPerPayment
    <2>3. /\ nonces' \in [Nonces -> {"fresh", "pending", "gone"}] /\ used' \subseteq Nonces
          /\ paid' \subseteq Payments \X Nonces
          /\ \A n \in Nonces : nonces[n] = "gone" => nonces'[n] = "gone"
      BY <1>0, <2>1 DEF PaymentTypeOK
    <2>4. QED
      BY <2>1, <2>2, <2>3, HolderMoves DEF Holding
  <1>3. CASE Consume(c) \/ MarkUsed(c)
    <2>0. call[c].step \in {"consume", "mark"}
          /\ call[c].payment \in Payments /\ call[c].nonce \in Nonces
      BY <1>0, <1>3, CallParts DEF Consume, MarkUsed, At
    <2>1. chain[call[c].payment] = "confirmed"
      BY <1>0, <2>0 DEF CallInv, Holding
    <2>2. CASE Consume(c)
      <3>1. /\ nonces' = [nonces EXCEPT ![call[c].nonce] = "gone"]
            /\ GoTo(c, "mark") /\ UNCHANGED <<used, chain, paid, served, answered>>
        BY <2>2 DEF Consume
      <3>2. /\ nonces' \in [Nonces -> {"fresh", "pending", "gone"}]
            /\ used' \subseteq Nonces /\ paid' \subseteq Payments \X Nonces
            /\ \A n \in Nonces : nonces[n] = "gone" => nonces'[n] = "gone"
            /\ nonces'[call[c].nonce] = "gone"
        BY <1>0, <2>0, <3>1 DEF PaymentTypeOK
      <3>3. OneAccessPerPayment'
        BY <1>0, <3>1, <3>2 DEF OneAccessPerPayment, PaymentTypeOK
      <3>4. QED
        BY <2>0, <2>1, <3>1, <3>2, <3>3, HolderMoves DEF Holding
    <2>3. CASE MarkUsed(c)
      <3>1. /\ used' = used \cup {call[c].nonce} /\ call[c].step = "mark"
            /\ GoTo(c, "record") /\ UNCHANGED <<nonces, chain, paid, served, answered>>
        BY <2>3 DEF MarkUsed, At
      <3>2. nonces[call[c].nonce] = "gone"
        BY <1>0, <3>1 DEF CallInv
      <3>3. /\ nonces' \in [Nonces -> {"fresh", "pending", "gone"}]
            /\ used' \subseteq Nonces /\ paid' \subseteq Payments \X Nonces
        BY <1>0, <2>0, <3>1 DEF PaymentTypeOK
      <3>4. OneAccessPerPayment'
        BY <1>0, <3>1 DEF OneAccessPerPayment
      <3>5. QED
        BY <2>0, <2>1, <3>1, <3>2, <3>3, <3>4, HolderMoves DEF Holding
    <2>4. QED
      BY <1>3, <2>2, <2>3
  <1>4. QED
    BY <1>1, <1>2, <1>3, BroadcastKeeps, RecordKeeps, ServeKeeps DEF _validate_payment

LEMMA PaymentStep == PaymentInv /\ [PaymentNext]_paymentVars => PaymentInv'
  <1> SUFFICES ASSUME PaymentInv, [PaymentNext]_paymentVars PROVE PaymentInv'
    OBVIOUS
  <1>0. PaymentTypeOK
    BY DEF PaymentInv
  <1>1. ASSUME NEW n \in Nonces, _raise_402(n) \/ Expire(n) \/ ExpireMark(n)
        PROVE  PaymentInv'
    <2>1. UNCHANGED <<chain, paid, call, served, answered>> /\ used' \subseteq Nonces
      BY <1>0, <1>1 DEF _raise_402, Expire, ExpireMark, PaymentTypeOK
    <2>2. /\ nonces' \in [Nonces -> {"fresh", "pending", "gone"}]
          /\ \A m \in Nonces : nonces[m] = "gone" => nonces'[m] = "gone"
      BY <1>0, <1>1 DEF _raise_402, Expire, ExpireMark, PaymentTypeOK
    <2>3. QED
      BY <1>0, <2>1, <2>2, StoresMove DEF PaymentTypeOK
  <1>2. ASSUME NEW p \in Payments, Confirm(p) PROVE PaymentInv'
    BY <1>0, <1>2, StoresMove DEF Confirm, PaymentTypeOK
  <1>3. ASSUME NEW c \in Calls, NEW p \in Payments, NEW n \in Nonces, Present(c, p, n)
        PROVE  PaymentInv'
    <2> DEFINE new == [step |-> "used", payment |-> p, nonce |-> n]
    <2>1. new \in BusyCalls /\ new.step \notin Holding
      BY DEF BusyCalls, CallSteps, Holding
    <2>2. /\ call' = [call EXCEPT ![c] = new]
          /\ UNCHANGED <<nonces, used, chain, paid, served, answered>>
      BY <1>3 DEF Present
    <2>3. /\ call' \in [Calls -> IdleCalls \cup BusyCalls]
          /\ call'[c].step \notin Holding
          /\ \A d \in Calls \ {c} : call'[d] = call[d]
      BY <1>0, <2>1, <2>2 DEF PaymentTypeOK
    <2>4. QED
      BY <2>2, <2>3, OnlyTheCallMoves
  <1>4. ASSUME NEW c \in Calls, _validate_payment(c) PROVE PaymentInv'
    BY <1>4, ValidationStep
  <1>5. CASE UNCHANGED paymentVars
    BY <1>0, <1>5, StoresMove DEF paymentVars, PaymentTypeOK
  <1>6. QED
    BY <1>1, <1>2, <1>3, <1>4, <1>5 DEF PaymentNext

\* A payment buys one access at most, after it is on the chain, and is recorded
\* once, whatever is presented side by side, retried, lost or left by a crash.
THEOREM PaymentsBuyOnce == PaymentSpec => []OneAccessPerPayment
  <1>1. PaymentInv => OneAccessPerPayment
    BY DEF PaymentInv
  <1>2. QED
    BY PaymentInitially, PaymentStep, <1>1, PTL DEF PaymentSpec

LEMMA CheckedIsNotAnswered ==
  ASSUME PaymentInv, [PaymentNext]_paymentVars, NEW c \in Calls,
         call[c].step = "pending", call'[c].step = "broadcast"
  PROVE  call[c].nonce \notin answered
  <1> USE DEF At, Refuse, GoTo, NoCall
  <1>0. PaymentTypeOK
    BY DEF PaymentInv
  <1>1. PaymentNext
    BY DEF paymentVars
  <1>2. call' # call
    OBVIOUS
  <1>3. PICK d \in Calls : _validate_payment(d) \/ \E p \in Payments, n \in Nonces : Present(d, p, n)
    BY <1>1, <1>2 DEF PaymentNext, _raise_402, Expire, ExpireMark, Confirm
  <1>4. d = c
    <2>1. ASSUME d # c PROVE call'[c] = call[c]
      BY <1>0, <1>3, <2>1 DEF _validate_payment, RejectReplay, CheckPending, Broadcast,
         Confirmed, Consume, MarkUsed, Record, Serve, Fail, Present, PaymentTypeOK
    <2>2. QED
      BY <2>1
  <1>5. CheckPending(c)
    BY <1>0, <1>3, <1>4 DEF _validate_payment, RejectReplay, Broadcast,
       Confirmed, Consume, MarkUsed, Record, Serve, Fail, Present, PaymentTypeOK
  <1>6. nonces[call[c].nonce] = "pending"
    BY <1>0, <1>5 DEF CheckPending, PaymentTypeOK
  <1>7. QED
    BY <1>6 DEF PaymentInv

\* Under a nonce that has served a call, no call that is checked afterwards is
\* charged, also when the mark of the nonce has expired.
THEOREM NoSecondCharge == PaymentSpec => NoChargeOnceServed
  <1>1. PaymentInv /\ [PaymentNext]_paymentVars
        => [\A c \in Calls : At(c, "pending") /\ call'[c].step = "broadcast"
               => call[c].nonce \notin answered]_paymentVars
    BY CheckedIsNotAnswered DEF At
  <1>2. QED
    BY PaymentInitially, PaymentStep, <1>1, PTL DEF PaymentSpec, NoChargeOnceServed

-----------------------------------------------------------------------------
\* Embeddings.  Whoever goes on with a profile found it, and it is not deleted.

ProfileThere ==
    /\ \A t \in Tasks : task[t].step \in {"mark", "read", "embed"} => profile \in Profile
    /\ \A e \in Editors : editor[e].step \in {"found", "written"} => profile \in Profile
    /\ registrar.step \in {"read", "embed"} => profile \in Profile

TypeInv == EmbeddingTypeOK /\ ProfileThere

LEMMA TypeInitially == EmbeddingInit => TypeInv
  <1> SUFFICES ASSUME EmbeddingInit PROVE TypeInv
    OBVIOUS
  <1>1. NoTask \in Task /\ NoTask.step = "none"
    BY DEF NoTask, Task
  <1>2. NoEdit \in Editor /\ NoEdit.step = "none"
    BY DEF NoEdit, Editor
  <1>3. registrar \in Registrar /\ registrar.step = "look"
    BY DEF EmbeddingInit, Registrar
  <1>4. 0 \in 0..MaxLapses
    BY MaxLapsesAssumption
  <1>5. EmbeddingTypeOK
    BY <1>1, <1>2, <1>3, <1>4 DEF EmbeddingInit, EmbeddingTypeOK
  <1>6. ProfileThere
    BY <1>1, <1>2, <1>3 DEF EmbeddingInit, ProfileThere
  <1>7. QED
    BY <1>5, <1>6 DEF TypeInv

\* A request that moves on, while the profile stays or is one.
LEMMA EditorMoves ==
  ASSUME TypeInv, NEW e \in Editors, NEW x \in Editor, EditorAt(e, x),
         profile' = profile \/ profile' \in Profile,
         x.step \in {"found", "written"} => profile' \in Profile
  PROVE  /\ editor' \in [Editors -> Editor]
         /\ \A f \in Editors : editor'[f].step \in {"found", "written"} => profile' \in Profile
  BY DEF TypeInv, EmbeddingTypeOK, ProfileThere, EditorAt

\* A recompute that moves on, in the same way.
LEMMA TaskMoves ==
  ASSUME TypeInv, NEW t \in Tasks, NEW x \in Task, TaskAt(t, x),
         profile' = profile \/ profile' \in Profile,
         x.step \in {"mark", "read", "embed"} => profile' \in Profile
  PROVE  /\ task' \in [Tasks -> Task]
         /\ \A u \in Tasks : task'[u].step \in {"mark", "read", "embed"} => profile' \in Profile
  BY DEF TypeInv, EmbeddingTypeOK, ProfileThere, TaskAt

LEMMA SchedulesTyped ==
  ASSUME TypeInv, NEW t \in Tasks, Schedule(t), profile' = profile
  PROVE  /\ task' \in [Tasks -> Task]
         /\ \A u \in Tasks : task'[u].step \in {"mark", "read", "embed"} => profile' \in Profile
  <1>1. [step |-> "ready"] \in Task
    BY DEF Task
  <1>2. TaskAt(t, [step |-> "ready"])
    BY DEF Schedule, TaskAt
  <1>3. QED
    BY <1>1, <1>2, TaskMoves

LEMMA EditorKeepsType ==
  ASSUME TypeInv, NEW e \in Editors, EditorStep(e)
  PROVE  TypeInv'
  <1>1. ASSUME NEW text \in Texts, LookUp(e, text) PROVE TypeInv'
    <2> DEFINE x == [step |-> IF profile = NoProfile THEN "absent" ELSE "found",
                     text |-> text]
    <2>1. x \in Editor /\ EditorAt(e, x) /\ profile' = profile
      BY <1>1 DEF LookUp, Editor
    <2>2. x.step \in {"found", "written"} => profile \in Profile
      BY DEF TypeInv, EmbeddingTypeOK
    <2>3. QED
      BY <1>1, <2>1, <2>2, EditorMoves DEF LookUp, TypeInv, EmbeddingTypeOK, ProfileThere
  <1>2. ASSUME NEW t \in Tasks, update_capability_profile(e, t) PROVE TypeInv'
    <2> DEFINE x == IF editor[e].step = "found"
                    THEN [step |-> "written", text |-> editor[e].text]
                    ELSE IF profile = NoProfile
                    THEN [step |-> "inserted", text |-> editor[e].text]
                    ELSE [step |-> "lost"]
    <2>1. editor[e].text \in Texts
      BY <1>2 DEF update_capability_profile, TypeInv, EmbeddingTypeOK, Editor
    <2>2. x \in Editor /\ EditorAt(e, x) /\ profile' = profile
      BY <1>2, <2>1 DEF update_capability_profile, Editor
    <2>3. x.step \in {"found", "written"} => profile \in Profile
      BY DEF TypeInv, ProfileThere
    <2>4. QED
      BY <1>2, <2>2, <2>3, EditorMoves, SchedulesTyped
      DEF update_capability_profile, TypeInv, EmbeddingTypeOK, ProfileThere
  <1>3. ASSUME NEW t \in Tasks, ScheduleRecompute(e, t) PROVE TypeInv'
    <2>1. NoEdit \in Editor /\ NoEdit.step = "none"
      BY DEF NoEdit, Editor
    <2>2. QED
      BY <1>3, <2>1, EditorMoves, SchedulesTyped
      DEF ScheduleRecompute, TypeInv, EmbeddingTypeOK, ProfileThere
  <1>4. ASSUME CommitEdit(e) PROVE TypeInv'
    <2>1. NoEdit \in Editor /\ NoEdit.step = "none"
      BY DEF NoEdit, Editor
    <2>2. profile' = profile \/ profile' \in Profile
      <3>1. CASE editor[e].step = "written"
        <4>1. editor[e].text \in Texts /\ profile \in Profile
          BY <3>1 DEF TypeInv, EmbeddingTypeOK, ProfileThere, Editor
        <4>2. profile' = [profile EXCEPT !.text = editor[e].text, !.vector = NoVector]
          BY <1>4, <3>1 DEF CommitEdit
        <4>3. QED
          BY <4>1, <4>2 DEF Profile
      <3>2. CASE editor[e].step = "inserted"
        <4>1. editor[e].text \in Texts
          BY <3>2 DEF TypeInv, EmbeddingTypeOK, Editor
        <4>2. profile' = [text |-> editor[e].text, vector |-> NoVector,
                          status |-> "OUTDATED"]
          BY <1>4, <3>2 DEF CommitEdit
        <4>3. QED
          BY <4>1, <4>2 DEF Profile
      <3>3. CASE editor[e].step = "lost"
        BY <1>4, <3>3 DEF CommitEdit
      <3>4. QED
        BY <1>4, <3>1, <3>2, <3>3 DEF CommitEdit
    <2>3. QED
      BY <1>4, <2>1, <2>2, EditorMoves
      DEF CommitEdit, TypeInv, EmbeddingTypeOK, ProfileThere
  <1>5. ASSUME FailEditor(e) PROVE TypeInv'
    <2>1. NoEdit \in Editor /\ NoEdit.step = "none"
      BY DEF NoEdit, Editor
    <2>2. QED
      BY <1>5, <2>1, EditorMoves DEF FailEditor, TypeInv, EmbeddingTypeOK, ProfileThere
  <1>6. ASSUME NEW goods \in SUBSET Goods, CommitGoods(e, goods) PROVE TypeInv'
    <2>1. [step |-> "schedule"] \in Editor
      BY DEF Editor
    <2>2. QED
      BY <1>6, <2>1, EditorMoves DEF CommitGoods, TypeInv, EmbeddingTypeOK, ProfileThere
  <1>7. ASSUME NEW g \in Goods, create_catalogue_item(e, g) PROVE TypeInv'
    BY <1>6, <1>7 DEF create_catalogue_item, TypeInv, EmbeddingTypeOK
  <1>8. ASSUME NEW g \in Goods, deactivate_catalogue_item(e, g) PROVE TypeInv'
    BY <1>6, <1>8 DEF deactivate_catalogue_item, TypeInv, EmbeddingTypeOK
  <1>9. ASSUME NEW g \in Goods, NEW h \in Goods, update_catalogue_item(e, g, h)
        PROVE  TypeInv'
    BY <1>6, <1>9 DEF update_catalogue_item, TypeInv, EmbeddingTypeOK
  <1>10. ASSUME NEW goods \in SUBSET Goods, bulk_create_catalogue_items(e, goods)
         PROVE  TypeInv'
    BY <1>6, <1>10 DEF bulk_create_catalogue_items, TypeInv, EmbeddingTypeOK
  <1>11. QED
    BY <1>1, <1>2, <1>3, <1>4, <1>5, <1>7, <1>8, <1>9, <1>10 DEF EditorStep

LEMMA TaskKeepsType ==
  ASSUME TypeInv, NEW t \in Tasks, _recompute_embedding_standalone(t)
  PROVE  TypeInv'
  <1> USE DEF TypeInv, EmbeddingTypeOK, ProfileThere
  <1>0. NoTask \in Task /\ NoTask.step = "none" /\ [step |-> "release"] \in Task
        /\ [step |-> "load"] \in Task
    BY DEF NoTask, Task
  <1>1. CASE _acquire_embedding_lock(t)
    <2>1. TaskAt(t, [step |-> "load"]) /\ profile' = profile
      BY <1>1 DEF _acquire_embedding_lock
    <2>2. lapses' \in 0..MaxLapses /\ embedding_lock' \in BOOLEAN
      <3>1. lapses \in 0..MaxLapses /\ embedding_lock \in BOOLEAN
        OBVIOUS
      <3>2. \/ lapses' = lapses
            \/ lapses < MaxLapses /\ lapses' = lapses + 1
        BY <1>1, Zenon DEF _acquire_embedding_lock
      <3>3. embedding_lock' = TRUE \/ embedding_lock' = embedding_lock
        BY <1>1, Zenon DEF _acquire_embedding_lock
      <3>4. lapses' \in 0..MaxLapses
        BY <3>1, <3>2, MaxLapsesAssumption
      <3>5. QED
        BY <3>1, <3>3, <3>4, Zenon
    <2>3. [step |-> "load"].step = "load"
      OBVIOUS
    <2>4. /\ task' \in [Tasks -> Task]
          /\ \A u \in Tasks : task'[u].step \in {"mark", "read", "embed"}
                              => profile' \in Profile
      BY <1>0, <2>1, <2>3, TaskMoves
    <2>5. QED
      BY <1>1, <2>2, <2>4 DEF _acquire_embedding_lock
  <1>2. CASE Debounce(t)
    BY <1>0, <1>2, TaskMoves DEF Debounce
  <1>3. CASE LoadProfile(t)
    <2>1. CASE profile = NoProfile
      BY <1>0, <1>3, <2>1, TaskMoves DEF LoadProfile
    <2>2. CASE profile # NoProfile
      <3>1. profile \in Profile
        BY <2>2
      <3>2. [step |-> "mark", text |-> profile.text] \in Task
        BY <3>1 DEF Profile, Task
      <3>3. QED
        BY <1>3, <2>2, <3>1, <3>2, TaskMoves DEF LoadProfile
    <2>3. QED
      BY <2>1, <2>2
  <1>4. CASE MarkComputing(t)
    <2>1. task[t].text \in Texts /\ profile \in Profile
      BY <1>4 DEF MarkComputing, Task
    <2>2. profile' \in Profile
      BY <1>4, <2>1 DEF MarkComputing, Profile
    <2>3. [step |-> "read", text |-> task[t].text] \in Task
      BY <2>1 DEF Task
    <2>4. QED
      BY <1>4, <2>2, <2>3, TaskMoves DEF MarkComputing
  <1>5. CASE ReadCatalogue(t)
    <2>1. task[t].text \in Texts /\ profile \in Profile
      BY <1>5 DEF ReadCatalogue, Task
    <2>2. [step |-> "embed", text |-> task[t].text, goods |-> catalogue] \in Task
      BY <2>1 DEF Task
    <2>3. QED
      BY <1>0, <1>5, <2>1, <2>2, TaskMoves DEF ReadCatalogue
  <1>6. CASE StoreEmbedding(t)
    <2>1. task[t] \in [step : {"embed"}, text : Texts, goods : SUBSET Goods]
      BY <1>6 DEF StoreEmbedding, Task
    <2>2. profile' \in Profile
      BY <1>6, <2>1 DEF StoreEmbedding, EmbeddingOf, Profile, Vector
    <2>3. QED
      BY <1>0, <1>6, <2>2, TaskMoves DEF StoreEmbedding
  <1>7. CASE FailRecompute(t)
    <2>1. profile' = profile \/ profile' \in Profile
      BY <1>7 DEF FailRecompute, Profile
    <2>2. QED
      BY <1>0, <1>7, <2>1, TaskMoves DEF FailRecompute
  <1>8. CASE _release_embedding_lock(t)
    BY <1>0, <1>8, TaskMoves DEF _release_embedding_lock
  <1>9. CASE CrashTask(t)
    BY <1>0, <1>9, TaskMoves DEF CrashTask
  <1>10. QED
    BY <1>1, <1>2, <1>3, <1>4, <1>5, <1>6, <1>7, <1>8, <1>9
    DEF _recompute_embedding_standalone

LEMMA RegistrarKeepsType ==
  ASSUME TypeInv, RegistrarStep
  PROVE  TypeInv'
  <1> USE DEF TypeInv, EmbeddingTypeOK, ProfileThere
  <1>1. CASE LookForProfile
    BY <1>1 DEF LookForProfile, Registrar
  <1>2. CASE InsertProfile
    <2>1. [text |-> RegistrationText, vector |-> NoVector, status |-> "OUTDATED"] \in Profile
      BY TextsAssumption DEF Profile
    <2>2. QED
      BY <1>2, <2>1 DEF InsertProfile, Registrar
  <1>3. CASE ReadGoods
    BY <1>3 DEF ReadGoods, Registrar
  <1>4. CASE SetVector
    <2>1. registrar.goods \in SUBSET Goods /\ profile \in Profile
      BY <1>4 DEF SetVector, Registrar
    <2>2. profile' \in Profile
      BY <1>4, <2>1, TextsAssumption DEF SetVector, Profile, Vector
    <2>3. QED
      BY <1>4, <2>2 DEF SetVector, Registrar
  <1>5. CASE FailRegistrar
    BY <1>5 DEF FailRegistrar, Registrar
  <1>6. QED
    BY <1>1, <1>2, <1>3, <1>4, <1>5 DEF RegistrarStep

LEMMA TypeStep == TypeInv /\ [EmbeddingNext]_embeddingVars => TypeInv'
  <1> SUFFICES ASSUME TypeInv, [EmbeddingNext]_embeddingVars PROVE TypeInv'
    OBVIOUS
  <1>1. ASSUME NEW t \in Tasks, recompute_embeddings(t) PROVE TypeInv'
    BY <1>1, SchedulesTyped
    DEF recompute_embeddings, TypeInv, EmbeddingTypeOK, ProfileThere
  <1>2. ASSUME ExpireLock PROVE TypeInv'
    <2>1. lapses' \in 0..MaxLapses /\ embedding_lock' \in BOOLEAN
      <3>1. lapses \in 0..MaxLapses
        BY DEF TypeInv, EmbeddingTypeOK
      <3>2. \/ lapses' = lapses
            \/ lapses < MaxLapses /\ lapses' = lapses + 1
        BY <1>2, Zenon DEF ExpireLock
      <3>3. embedding_lock' \in BOOLEAN
        BY <1>2, Zenon DEF ExpireLock
      <3>4. lapses' \in 0..MaxLapses
        BY <3>1, <3>2, MaxLapsesAssumption
      <3>5. QED
        BY <3>3, <3>4
    <2>2. QED
      BY <1>2, <2>1 DEF ExpireLock, TypeInv, EmbeddingTypeOK, ProfileThere
  <1>3. ASSUME UNCHANGED embeddingVars PROVE TypeInv'
    BY <1>3 DEF embeddingVars, TypeInv, EmbeddingTypeOK, ProfileThere
  <1>4. QED
    BY <1>1, <1>2, <1>3, EditorKeepsType, TaskKeepsType, RegistrarKeepsType
    DEF EmbeddingNext

\* The embedding part is always typed.
THEOREM EmbeddingTypes == EmbeddingSpec => []EmbeddingTypeOK
  <1>1. TypeInv => EmbeddingTypeOK
    BY DEF TypeInv
  <1>2. QED
    BY <1>1, TypeInitially, TypeStep, PTL DEF EmbeddingSpec

-----------------------------------------------------------------------------
\* A task that works holds the key, or took a lapse of it: while nobody has the
\* key there is a lapse for every one of them.
LockInv ==
    /\ Cardinality(Working) <= lapses + 1
    /\ ~embedding_lock => Cardinality(Working) <= lapses

LEMMA WorkingCounted ==
  ASSUME TypeInv
  PROVE  IsFiniteSet(Working) /\ Cardinality(Working) \in Nat /\ lapses \in Nat
  <1>1. IsFiniteSet(Working)
    BY TasksAssumption, FS_Subset DEF Working
  <1>2. QED
    BY <1>1, FS_CardinalityType, MaxLapsesAssumption DEF TypeInv, EmbeddingTypeOK

LEMMA LockUntouched ==
  ASSUME LockInv, Working' = Working, UNCHANGED <<embedding_lock, lapses>>
  PROVE  LockInv'
  BY DEF LockInv

\* Leaving frees a place, so that the key may go with the task.
LEMMA LockLeft ==
  ASSUME TypeInv, LockInv, NEW t \in Working, Working' = Working \ {t},
         lapses' = lapses
  PROVE  LockInv'
  <1>1. Cardinality(Working \ {t}) = Cardinality(Working) - 1
    BY WorkingCounted, FS_RemoveElement
  <1>2. Cardinality(Working)' = Cardinality(Working) - 1
    BY <1>1
  <1>3. QED
    BY <1>2, WorkingCounted DEF LockInv

LEMMA WorkingStays ==
  ASSUME TypeInv, NEW t \in Tasks, NEW x, TaskAt(t, x),
         x.step \in {"load", "mark", "read", "embed", "release"} <=> t \in Working
  PROVE  Working' = Working
  BY DEF TypeInv, EmbeddingTypeOK, TaskAt, Working

LEMMA WorkingLeaves ==
  ASSUME TypeInv, NEW t \in Tasks, TaskAt(t, NoTask)
  PROVE  Working' = Working \ {t}
  BY DEF TypeInv, EmbeddingTypeOK, TaskAt, Working, NoTask

LEMMA SchedulingKeepsLock ==
  ASSUME TypeInv, LockInv, NEW t \in Tasks, Schedule(t), UNCHANGED <<embedding_lock, lapses>>
  PROVE  LockInv'
  <1>1. t \notin Working
    BY DEF Schedule, NoTask, Working
  <1>2. TaskAt(t, [step |-> "ready"])
    BY DEF Schedule, TaskAt
  <1>3. QED
    BY <1>1, <1>2, WorkingStays, LockUntouched

LEMMA EditorKeepsLock ==
  ASSUME TypeInv, LockInv, NEW e \in Editors, EditorStep(e)
  PROVE  LockInv'
  <1>1. UNCHANGED <<embedding_lock, lapses>>
    BY DEF EditorStep, LookUp, update_capability_profile, ScheduleRecompute, CommitEdit,
       FailEditor, create_catalogue_item, deactivate_catalogue_item,
       update_catalogue_item, bulk_create_catalogue_items, CommitGoods
  <1>2. task' = task \/ \E t \in Tasks : Schedule(t)
    BY DEF EditorStep, LookUp, update_capability_profile, ScheduleRecompute, CommitEdit,
       FailEditor, create_catalogue_item, deactivate_catalogue_item,
       update_catalogue_item, bulk_create_catalogue_items, CommitGoods
  <1>3. CASE task' = task
    <2>1. Working' = Working
      BY <1>3 DEF Working
    <2>2. QED
      BY <1>1, <2>1, LockUntouched
  <1>4. QED
    BY <1>1, <1>2, <1>3, SchedulingKeepsLock

LEMMA TaskKeepsLock ==
  ASSUME TypeInv, LockInv, NEW t \in Tasks, _recompute_embedding_standalone(t)
  PROVE  LockInv'
  <1>1. CASE _acquire_embedding_lock(t)
    <2>1. t \notin Working
      BY <1>1 DEF _acquire_embedding_lock, Working
    <2>2. Working' = Working \cup {t}
      BY <1>1 DEF _acquire_embedding_lock, TaskAt, Working, TypeInv, EmbeddingTypeOK
    <2>3. Cardinality(Working)' = Cardinality(Working) + 1
      BY <2>1, <2>2, WorkingCounted, FS_AddElement
    <2>4. CASE ~embedding_lock /\ embedding_lock' = TRUE /\ lapses' = lapses
      BY <2>3, <2>4, WorkingCounted DEF LockInv
    <2>5. CASE lapses' = lapses + 1 /\ embedding_lock' = embedding_lock
      BY <2>3, <2>5, WorkingCounted DEF LockInv
    <2>6. QED
      BY <1>1, <2>4, <2>5, Zenon DEF _acquire_embedding_lock
  <1>2. CASE Debounce(t)
    <2>1. t \notin Working
      BY <1>2 DEF Debounce, Working
    <2>2. Working' = Working
      BY <1>2, <2>1, WorkingLeaves DEF Debounce
    <2>3. QED
      BY <1>2, <2>2, LockUntouched DEF Debounce
  <1>3. ASSUME NEW x, TaskAt(t, x), t \in Working,
               x.step \in {"mark", "read", "embed", "release"},
               UNCHANGED <<embedding_lock, lapses>>
        PROVE  LockInv'
    BY <1>3, WorkingStays, LockUntouched
  <1>4. CASE LoadProfile(t) \/ MarkComputing(t) \/ ReadCatalogue(t)
             \/ StoreEmbedding(t) \/ FailRecompute(t)
    <2>1. t \in Working /\ UNCHANGED <<embedding_lock, lapses>>
      BY <1>4 DEF LoadProfile, MarkComputing, ReadCatalogue, StoreEmbedding,
         FailRecompute, Working
    <2>2. \/ TaskAt(t, [step |-> "release"])
          \/ TaskAt(t, [step |-> "mark", text |-> profile.text])
          \/ TaskAt(t, [step |-> "read", text |-> task[t].text])
          \/ TaskAt(t, [step |-> "embed", text |-> task[t].text, goods |-> catalogue])
      BY <1>4 DEF LoadProfile, MarkComputing, ReadCatalogue, StoreEmbedding, FailRecompute
    <2>3. QED
      BY <1>3, <2>1, <2>2
  <1>5. CASE _release_embedding_lock(t)
    <2>1. t \in Working
      BY <1>5 DEF _release_embedding_lock, Working
    <2>2. QED
      BY <1>5, <2>1, WorkingLeaves, LockLeft DEF _release_embedding_lock
  <1>6. CASE CrashTask(t)
    <2>1. Working' = Working \ {t} /\ UNCHANGED <<embedding_lock, lapses>>
      BY <1>6, WorkingLeaves DEF CrashTask
    <2>2. CASE t \in Working
      BY <2>1, <2>2, LockLeft
    <2>3. CASE t \notin Working
      BY <2>1, <2>3, LockUntouched
    <2>4. QED
      BY <2>2, <2>3
  <1>7. QED
    BY <1>1, <1>2, <1>4, <1>5, <1>6 DEF _recompute_embedding_standalone

LEMMA LockStep == TypeInv /\ LockInv /\ [EmbeddingNext]_embeddingVars => LockInv'
  <1> SUFFICES ASSUME TypeInv, LockInv, [EmbeddingNext]_embeddingVars PROVE LockInv'
    OBVIOUS
  <1>1. ASSUME NEW t \in Tasks, recompute_embeddings(t) PROVE LockInv'
    BY <1>1, SchedulingKeepsLock DEF recompute_embeddings
  <1>2. ASSUME ExpireLock PROVE LockInv'
    <2>1. Working' = Working
      BY <1>2 DEF ExpireLock, Working
    <2>2. CASE Working = {} /\ lapses' = lapses
      <3>1. Cardinality(Working) = 0
        BY <2>2, FS_EmptySet
      <3>2. QED
        BY <2>1, <2>2, <3>1, WorkingCounted DEF LockInv
    <2>3. CASE lapses' = lapses + 1
      BY <2>1, <2>3, WorkingCounted DEF LockInv
    <2>4. QED
      BY <1>2, <2>2, <2>3, Zenon DEF ExpireLock
  <1>3. ASSUME RegistrarStep \/ UNCHANGED embeddingVars PROVE LockInv'
    <2>1. UNCHANGED <<task, embedding_lock, lapses>>
      BY <1>3 DEF RegistrarStep, LookForProfile, InsertProfile, ReadGoods, SetVector,
         FailRegistrar, embeddingVars
    <2>2. Working' = Working
      BY <2>1 DEF Working
    <2>3. QED
      BY <2>1, <2>2, LockUntouched
  <1>4. QED
    BY <1>1, <1>2, <1>3, EditorKeepsLock, TaskKeepsLock DEF EmbeddingNext

LEMMA LockInitially == EmbeddingInit => LockInv
  <1> SUFFICES ASSUME EmbeddingInit PROVE LockInv
    OBVIOUS
  <1>1. Working = {}
    BY DEF EmbeddingInit, Working, NoTask
  <1>2. Cardinality(Working) = 0
    BY <1>1, FS_EmptySet
  <1>3. QED
    BY <1>2 DEF LockInv, EmbeddingInit

\* Two recomputes overlap only after a lapse of the lock, one for each lapse.
THEOREM OneRecomputePerLapse == EmbeddingSpec => []OverlapNeedsLapse
  <1>1. LockInv => OverlapNeedsLapse
    BY DEF LockInv, OverlapNeedsLapse
  <1>2. QED
    BY <1>1, TypeInitially, TypeStep, LockInitially, LockStep, PTL DEF EmbeddingSpec

-----------------------------------------------------------------------------
\* The text a vector was made of.

LEMMA TextKept ==
  ASSUME VectorOfItsText, profile' = profile
  PROVE  VectorOfItsText'
  BY DEF VectorOfItsText

\* A new status leaves text and vector as they are.
LEMMA StatusKeepsText ==
  ASSUME VectorOfItsText, profile \in Profile,
         NEW status, profile' = [profile EXCEPT !.status = status]
  PROVE  VectorOfItsText'
  <1>1. profile'.text = profile.text /\ profile'.vector = profile.vector
    BY DEF Profile
  <1>2. profile # NoProfile
    BY DEF Profile, NoProfile
  <1>3. QED
    BY <1>1, <1>2 DEF VectorOfItsText

LEMMA EditorKeepsText ==
  ASSUME TypeInv, VectorOfItsText, NEW e \in Editors, EditorStep(e)
  PROVE  VectorOfItsText'
  <1>1. CASE CommitEdit(e)
    <2>1. CASE editor[e].step = "written"
      <3>1. profile \in Profile
        BY <2>1 DEF TypeInv, ProfileThere
      <3>2. profile' = [profile EXCEPT !.text = editor[e].text, !.vector = NoVector]
        BY <1>1, <2>1 DEF CommitEdit
      <3>3. profile'.vector = NoVector
        BY <3>1, <3>2 DEF Profile
      <3>4. QED
        BY <3>3 DEF VectorOfItsText
    <2>2. CASE editor[e].step = "inserted"
      <3>1. profile'.vector = NoVector
        BY <1>1, <2>2 DEF CommitEdit
      <3>2. QED
        BY <3>1 DEF VectorOfItsText
    <2>3. CASE editor[e].step = "lost"
      <3>1. profile' = profile
        BY <1>1, <2>3 DEF CommitEdit
      <3>2. QED
        BY <3>1, TextKept
    <2>4. QED
      BY <1>1, <2>1, <2>2, <2>3 DEF CommitEdit
  <1>2. CASE ~CommitEdit(e)
    <2>1. profile' = profile
      BY <1>2 DEF EditorStep, LookUp, update_capability_profile, ScheduleRecompute,
         FailEditor, create_catalogue_item, deactivate_catalogue_item,
         update_catalogue_item, bulk_create_catalogue_items, CommitGoods
    <2>2. QED
      BY <2>1, TextKept
  <1>3. QED
    BY <1>1, <1>2

LEMMA TaskKeepsText ==
  ASSUME TypeInv, VectorOfItsText, NEW t \in Tasks, _recompute_embedding_standalone(t)
  PROVE  VectorOfItsText'
  <1>1. CASE MarkComputing(t)
    <2>1. profile \in Profile
      BY <1>1 DEF MarkComputing, TypeInv, ProfileThere
    <2>2. QED
      BY <1>1, <2>1, StatusKeepsText DEF MarkComputing
  <1>2. CASE StoreEmbedding(t)
    <2>1. profile'.text = task[t].text /\ profile'.vector.text = task[t].text
      BY <1>2 DEF StoreEmbedding, EmbeddingOf
    <2>2. QED
      BY <2>1 DEF VectorOfItsText
  <1>3. CASE FailRecompute(t)
    <2>1. CASE profile' = profile
      BY <2>1, TextKept
    <2>2. CASE profile # NoProfile /\ profile' = [profile EXCEPT !.status = "FAILED"]
      <3>1. profile \in Profile
        BY <2>2 DEF TypeInv, EmbeddingTypeOK
      <3>2. QED
        BY <2>2, <3>1, StatusKeepsText
    <2>3. QED
      BY <1>3, <2>1, <2>2 DEF FailRecompute
  <1>4. CASE \/ _acquire_embedding_lock(t) \/ Debounce(t) \/ LoadProfile(t)
            \/ ReadCatalogue(t) \/ _release_embedding_lock(t) \/ CrashTask(t)
    <2>1. profile' = profile
      BY <1>4 DEF _acquire_embedding_lock, Debounce, LoadProfile, ReadCatalogue,
         _release_embedding_lock, CrashTask
    <2>2. QED
      BY <2>1, TextKept
  <1>5. QED
    BY <1>1, <1>2, <1>3, <1>4 DEF _recompute_embedding_standalone

LEMMA TextStep ==
  TypeInv /\ VectorOfItsText /\ [EmbeddingNext]_embeddingVars => VectorOfItsText'
  <1> SUFFICES ASSUME TypeInv, VectorOfItsText, [EmbeddingNext]_embeddingVars
               PROVE  VectorOfItsText'
    OBVIOUS
  <1>1. CASE InsertProfile
    <2>1. CASE profile = NoProfile
      <3>1. profile'.vector = NoVector
        BY <1>1, <2>1 DEF InsertProfile
      <3>2. QED
        BY <3>1 DEF VectorOfItsText
    <2>2. CASE profile # NoProfile
      BY <1>1, <2>2, TextKept DEF InsertProfile
    <2>3. QED
      BY <2>1, <2>2
  <1>2. CASE SetVector
    <2>1. profile \in Profile
      BY <1>2 DEF SetVector, TypeInv, ProfileThere
    <2>2. profile'.vector.by = "registration"
      BY <1>2, <2>1 DEF SetVector, Profile
    <2>3. QED
      BY <2>2 DEF VectorOfItsText
  <1>3. CASE LookForProfile \/ ReadGoods \/ FailRegistrar \/ ExpireLock \/ UNCHANGED embeddingVars
    <2>1. profile' = profile
      BY <1>3 DEF LookForProfile, ReadGoods, FailRegistrar, ExpireLock, embeddingVars
    <2>2. QED
      BY <2>1, TextKept
  <1>4. ASSUME NEW t \in Tasks, recompute_embeddings(t) PROVE VectorOfItsText'
    BY <1>4, TextKept DEF recompute_embeddings
  <1>5. ASSUME RegistrarStep PROVE VectorOfItsText'
    BY <1>1, <1>2, <1>3, <1>5 DEF RegistrarStep
  <1>6. QED
    BY <1>3, <1>4, <1>5, EditorKeepsText, TaskKeepsText DEF EmbeddingNext

\* A vector that a recompute stored belongs to the text beside it.
THEOREM VectorsBelong == EmbeddingSpec => []VectorOfItsText
  <1>1. EmbeddingInit => VectorOfItsText
    BY DEF EmbeddingInit, VectorOfItsText
  <1>2. QED
    BY <1>1, TypeInitially, TypeStep, TextStep, PTL DEF EmbeddingSpec

-----------------------------------------------------------------------------
\* The catalogue in the vector.  While nothing lapsed or was dropped, the one
\* recompute that has read the catalogue has what is there, unless a request or
\* another recompute is still to come.

ToCome == \/ \E e \in Editors : editor[e].step = "schedule"
          \/ \E t \in Tasks : task[t].step \in {"ready", "load", "mark", "read"}

ReadInv ==
    lapses = 0 /\ ~dropped /\ ~ToCome
    => \A t \in Tasks : task[t].step = "embed" => task[t].goods = catalogue

CatalogueInv == ReadInv /\ VectorOfCatalogue

\* Nothing to show after a lapse or a drop, or with something still to come.
Excused == ToCome \/ dropped \/ lapses # 0

\* Steps that end nothing that was to come, and store no vector of a recompute.
Quiet ==
    /\ UNCHANGED <<catalogue, lapses, dropped>>
    /\ ToCome => ToCome'
    /\ Settled' => Settled
    /\ \A t \in Tasks : task'[t].step = "embed" => task'[t] = task[t]
    /\ \/ profile' = profile
       \/ profile'.vector = NoVector
       \/ profile'.vector.by = "registration"

LEMMA ExcusedKeeps ==
  ASSUME Excused'
  PROVE  CatalogueInv'
  <1>1. ToCome' => ~Settled'
    BY DEF ToCome, Settled
  <1>2. QED
    BY <1>1 DEF Excused, CatalogueInv, ReadInv, VectorOfCatalogue

LEMMA QuietKeeps ==
  ASSUME CatalogueInv, Quiet
  PROVE  CatalogueInv'
  <1>1. ReadInv'
    BY DEF Quiet, CatalogueInv, ReadInv
  <1>2. VectorOfCatalogue'
    BY DEF Quiet, CatalogueInv, VectorOfCatalogue
  <1>3. QED
    BY <1>1, <1>2 DEF CatalogueInv

\* A request that moves on, but not to or from the task it is to create.
LEMMA QuietEditor ==
  ASSUME TypeInv, NEW e \in Editors, NEW x, EditorAt(e, x),
         editor[e].step # "schedule", x.step # "schedule",
         UNCHANGED <<catalogue, lapses, dropped, task>>,
         \/ profile' = profile
         \/ profile'.vector = NoVector
  PROVE  Quiet
  BY DEF TypeInv, EmbeddingTypeOK, EditorAt, Quiet, ToCome, Settled

LEMMA ScheduledExcused ==
  ASSUME TypeInv, NEW t \in Tasks, Schedule(t)
  PROVE  Excused'
  BY DEF TypeInv, EmbeddingTypeOK, Schedule, Excused, ToCome

LEMMA EditorKeepsCatalogue ==
  ASSUME TypeInv, CatalogueInv, NEW e \in Editors, EditorStep(e)
  PROVE  CatalogueInv'
  <1>0. NoEdit.step = "none"
    BY DEF NoEdit
  <1>1. ASSUME NEW text \in Texts, LookUp(e, text) PROVE CatalogueInv'
    BY <1>0, <1>1, QuietEditor, QuietKeeps DEF LookUp
  <1>2. ASSUME NEW t \in Tasks, update_capability_profile(e, t) \/ ScheduleRecompute(e, t)
        PROVE  CatalogueInv'
    BY <1>2, ScheduledExcused, ExcusedKeeps DEF update_capability_profile, ScheduleRecompute
  <1>3. CASE CommitEdit(e)
    <2>1. profile' = profile \/ profile'.vector = NoVector
      <3>1. CASE editor[e].step = "written"
        <4>1. profile \in Profile
          BY <3>1 DEF TypeInv, ProfileThere
        <4>2. profile' = [profile EXCEPT !.text = editor[e].text, !.vector = NoVector]
          BY <1>3, <3>1 DEF CommitEdit
        <4>3. QED
          BY <4>1, <4>2 DEF Profile
      <3>2. CASE editor[e].step = "inserted"
        BY <1>3, <3>2 DEF CommitEdit
      <3>3. CASE editor[e].step = "lost"
        BY <1>3, <3>3 DEF CommitEdit
      <3>4. QED
        BY <1>3, <3>1, <3>2, <3>3 DEF CommitEdit
    <2>2. /\ editor[e].step # "schedule" /\ EditorAt(e, NoEdit)
          /\ UNCHANGED <<catalogue, lapses, dropped, task>>
      BY <1>3 DEF CommitEdit
    <2>3. QED
      BY <1>0, <2>1, <2>2, QuietEditor, QuietKeeps
  <1>4. CASE FailEditor(e)
    <2>1. CASE editor[e].step = "schedule"
      <3>1. dropped'
        BY <1>4, <2>1 DEF FailEditor
      <3>2. QED
        BY <3>1, ExcusedKeeps DEF Excused
    <2>2. CASE editor[e].step # "schedule"
      <3>1. dropped' = dropped
        BY <1>4, <2>2 DEF FailEditor, TypeInv, EmbeddingTypeOK
      <3>2. QED
        BY <1>0, <1>4, <2>2, <3>1, QuietEditor, QuietKeeps DEF FailEditor
    <2>3. QED
      BY <2>1, <2>2
  <1>5. ASSUME NEW goods, CommitGoods(e, goods) PROVE CatalogueInv'
    <2>1. editor'[e].step = "schedule"
      BY <1>5 DEF CommitGoods, EditorAt, TypeInv, EmbeddingTypeOK
    <2>2. QED
      BY <2>1, ExcusedKeeps DEF Excused, ToCome
  <1>6. CASE \/ \E g \in Goods : create_catalogue_item(e, g) \/ deactivate_catalogue_item(e, g)
             \/ \E g, h \in Goods : update_catalogue_item(e, g, h)
             \/ \E goods \in SUBSET Goods \ {{}} : bulk_create_catalogue_items(e, goods)
    BY <1>5, <1>6 DEF create_catalogue_item, deactivate_catalogue_item,
       update_catalogue_item, bulk_create_catalogue_items
  <1>7. QED
    BY <1>1, <1>2, <1>3, <1>4, <1>6 DEF EditorStep

LEMMA TaskToCome ==
  ASSUME TypeInv, NEW t \in Tasks, NEW x, TaskAt(t, x), x.step \in {"load", "mark", "read"}
  PROVE  Excused'
  BY DEF TypeInv, EmbeddingTypeOK, TaskAt, Excused, ToCome

\* Without a lapse there is one recompute at work.
LEMMA WorksAlone ==
  ASSUME TypeInv, LockInv, lapses = 0, NEW t \in Working
  PROVE  Working = {t}
  <1>1. Cardinality(Working) <= 1
    BY DEF LockInv
  <1>2. Cardinality(Working \ {t}) = Cardinality(Working) - 1 /\ IsFiniteSet(Working \ {t})
    BY WorkingCounted, FS_RemoveElement
  <1>3. Cardinality(Working \ {t}) = 0
    BY <1>1, <1>2, WorkingCounted, FS_CardinalityType
  <1>4. Working \ {t} = {}
    BY <1>2, <1>3, FS_EmptySet
  <1>5. QED
    BY <1>4

LEMMA ReadingKeepsCatalogue ==
  ASSUME TypeInv, LockInv, CatalogueInv, NEW t \in Tasks, ReadCatalogue(t)
  PROVE  CatalogueInv'
  <1>1. CASE dropped'
    BY <1>1, ExcusedKeeps DEF Excused
  <1>2. CASE ~dropped'
    <2> DEFINE x == [step |-> "embed", text |-> task[t].text, goods |-> catalogue]
    <2>1. TaskAt(t, x) /\ UNCHANGED <<catalogue, lapses>>
      BY <1>2 DEF ReadCatalogue
    <2>2. task'[t] = x /\ \A u \in Tasks \ {t} : task'[u] = task[u]
      BY <2>1 DEF TaskAt, TypeInv, EmbeddingTypeOK
    <2>3. ~Settled'
      BY <2>2 DEF Settled
    <2>4. ASSUME lapses' = 0, NEW u \in Tasks, task'[u].step = "embed"
          PROVE  task'[u].goods = catalogue'
      <3>1. lapses = 0 /\ t \in Working
        BY <2>1, <2>4 DEF ReadCatalogue, Working
      <3>2. u # t => task[u].step = "embed"
        BY <2>2, <2>4
      <3>3. u = t
        BY <3>1, <3>2, WorksAlone DEF Working
      <3>4. QED
        BY <2>1, <2>2, <3>3
    <2>5. ReadInv'
      BY <2>4 DEF ReadInv
    <2>6. VectorOfCatalogue'
      BY <2>3 DEF VectorOfCatalogue
    <2>7. QED
      BY <2>5, <2>6 DEF CatalogueInv
  <1>3. QED
    BY <1>1, <1>2

LEMMA StoringKeepsCatalogue ==
  ASSUME TypeInv, CatalogueInv, NEW t \in Tasks, StoreEmbedding(t)
  PROVE  CatalogueInv'
  <1>1. /\ task[t].step = "embed" /\ TaskAt(t, [step |-> "release"])
        /\ UNCHANGED <<catalogue, lapses, dropped, editor>>
    BY DEF StoreEmbedding
  <1>2. task'[t].step = "release" /\ \A u \in Tasks \ {t} : task'[u] = task[u]
    BY <1>1 DEF TaskAt, TypeInv, EmbeddingTypeOK
  <1>3. ToCome => ToCome'
    BY <1>1, <1>2 DEF ToCome
  <1>4. ReadInv'
    BY <1>1, <1>2, <1>3 DEF CatalogueInv, ReadInv
  <1>5. profile'.vector.goods = task[t].goods
    BY DEF StoreEmbedding, EmbeddingOf
  <1>6. ASSUME Settled', lapses' = 0, ~dropped' PROVE task[t].goods = catalogue'
    <2>1. ~ToCome
      BY <1>3, <1>6 DEF ToCome, Settled
    <2>2. QED
      BY <1>1, <1>6, <2>1 DEF CatalogueInv, ReadInv
  <1>7. VectorOfCatalogue'
    BY <1>5, <1>6 DEF VectorOfCatalogue
  <1>8. QED
    BY <1>4, <1>7 DEF CatalogueInv

LEMMA TaskKeepsCatalogue ==
  ASSUME TypeInv, LockInv, CatalogueInv, NEW t \in Tasks, _recompute_embedding_standalone(t)
  PROVE  CatalogueInv'
  <1>1. CASE _acquire_embedding_lock(t)
    BY <1>1, TaskToCome, ExcusedKeeps DEF _acquire_embedding_lock
  <1>2. CASE Debounce(t) \/ FailRecompute(t)
    BY <1>2, ExcusedKeeps DEF Debounce, FailRecompute, Excused
  <1>3. CASE LoadProfile(t)
    <2>1. CASE profile = NoProfile
      BY <1>3, <2>1, ExcusedKeeps DEF LoadProfile, Excused
    <2>2. CASE profile # NoProfile
      BY <1>3, <2>2, TaskToCome, ExcusedKeeps DEF LoadProfile
    <2>3. QED
      BY <2>1, <2>2
  <1>4. CASE MarkComputing(t)
    BY <1>4, TaskToCome, ExcusedKeeps DEF MarkComputing
  <1>5. ASSUME TaskAt(t, NoTask), task[t].step = "release",
               UNCHANGED <<profile, catalogue, editor, lapses, dropped>>
        PROVE  CatalogueInv'
    <2>1. task'[t].step = "none" /\ \A u \in Tasks \ {t} : task'[u] = task[u]
      BY <1>5 DEF TaskAt, TypeInv, EmbeddingTypeOK, NoTask
    <2>2. Quiet
      BY <1>5, <2>1 DEF Quiet, ToCome, Settled
    <2>3. QED
      BY <2>2, QuietKeeps
  <1>6. CASE _release_embedding_lock(t)
    BY <1>5, <1>6 DEF _release_embedding_lock
  <1>7. CASE CrashTask(t)
    <2>1. CASE task[t].step = "release"
      <3>1. dropped' = dropped
        BY <1>7, <2>1 DEF CrashTask, TypeInv, EmbeddingTypeOK
      <3>2. QED
        BY <1>5, <1>7, <2>1, <3>1 DEF CrashTask
    <2>2. CASE task[t].step # "release"
      <3>1. dropped'
        BY <1>7, <2>2 DEF CrashTask
      <3>2. QED
        BY <3>1, ExcusedKeeps DEF Excused
    <2>3. QED
      BY <2>1, <2>2
  <1>8. QED
    BY <1>1, <1>2, <1>3, <1>4, <1>6, <1>7, ReadingKeepsCatalogue, StoringKeepsCatalogue
    DEF _recompute_embedding_standalone

LEMMA CatalogueStep ==
  TypeInv /\ LockInv /\ CatalogueInv /\ [EmbeddingNext]_embeddingVars => CatalogueInv'
  <1> SUFFICES ASSUME TypeInv, LockInv, CatalogueInv, [EmbeddingNext]_embeddingVars
               PROVE  CatalogueInv'
    OBVIOUS
  <1>1. ASSUME NEW t \in Tasks, recompute_embeddings(t) PROVE CatalogueInv'
    BY <1>1, ScheduledExcused, ExcusedKeeps DEF recompute_embeddings
  <1>2. ASSUME UNCHANGED <<catalogue, task, editor, lapses, dropped>>,
               \/ profile' = profile
               \/ profile'.vector = NoVector
               \/ profile'.vector.by = "registration"
        PROVE  CatalogueInv'
    <2>1. Quiet
      BY <1>2 DEF Quiet, ToCome, Settled
    <2>2. QED
      BY <2>1, QuietKeeps
  <1>3. CASE ExpireLock
    <2>1. CASE lapses' = lapses
      BY <1>2, <1>3, <2>1 DEF ExpireLock
    <2>2. CASE lapses' = lapses + 1
      <3>1. lapses' # 0
        BY <2>2, WorkingCounted
      <3>2. QED
        BY <3>1, ExcusedKeeps DEF Excused
    <2>3. QED
      BY <1>3, <2>1, <2>2, Zenon DEF ExpireLock
  <1>4. CASE InsertProfile
    BY <1>2, <1>4 DEF InsertProfile
  <1>5. CASE SetVector
    <2>1. profile \in Profile
      BY <1>5 DEF SetVector, TypeInv, ProfileThere
    <2>2. profile'.vector.by = "registration"
      BY <1>5, <2>1 DEF SetVector, Profile
    <2>3. QED
      BY <1>2, <1>5, <2>2 DEF SetVector
  <1>6. CASE LookForProfile \/ ReadGoods \/ FailRegistrar \/ UNCHANGED embeddingVars
    BY <1>2, <1>6 DEF LookForProfile, ReadGoods, FailRegistrar, embeddingVars
  <1>7. ASSUME RegistrarStep PROVE CatalogueInv'
    BY <1>4, <1>5, <1>6, <1>7 DEF RegistrarStep
  <1>8. QED
    BY <1>1, <1>3, <1>6, <1>7, EditorKeepsCatalogue, TaskKeepsCatalogue DEF EmbeddingNext

LEMMA CatalogueInitially == EmbeddingInit => CatalogueInv
  BY DEF EmbeddingInit, CatalogueInv, ReadInv, VectorOfCatalogue, NoTask

\* Unless a recompute was dropped or two overlapped, the vector comes to show
\* the catalogue.
THEOREM VectorsShowTheCatalogue == EmbeddingSpec => []VectorOfCatalogue
  <1>1. CatalogueInv => VectorOfCatalogue
    BY DEF CatalogueInv
  <1>2. QED
    BY <1>1, TypeInitially, TypeStep, LockInitially, LockStep, CatalogueInitially,
       CatalogueStep, PTL DEF EmbeddingSpec

\* A stored vector is of the text beside it and comes to show the catalogue.
THEOREM VectorsAreCurrent == EmbeddingSpec => []VectorsCurrent
  <1>1. VectorOfItsText /\ VectorOfCatalogue => VectorsCurrent
    BY DEF VectorsCurrent
  <1>2. QED
    BY <1>1, VectorsBelong, VectorsShowTheCatalogue, PTL
=============================================================================
