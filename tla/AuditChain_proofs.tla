-------------------------- MODULE AuditChain_proofs --------------------------
(***************************************************************************)
(* Proofs about AuditChain, for every set of chains, handlers and kinds of *)
(* events, whichever chains share an advisory lock key, and with the       *)
(* trigger or without it; and about SignIn, for any tabs and users.        *)
(***************************************************************************)
EXTENDS AuditChain, SignIn, TLAPS

-----------------------------------------------------------------------------
\* The inductive invariant.  The properties say what an auditor sees; that they
\* last needs how the entries hang together, what the lock promises its holder
\* between the read and the insert, and what a handler of a release has behind it.

\* The entries are numbered from 0, each commits to what its chain holds up to it.
Linked(c, entries) ==
    \A i \in 1..Len(entries) :
        /\ entries[i].seq = i - 1
        /\ entries[i].content.chain = c
        /\ entries[i].prev = IF i = 1 THEN GENESIS_HASH ELSE entries[i - 1].hash
        /\ entries[i].hash = Append(entries[i].prev, entries[i].content)
        /\ Len(entries[i].hash) = i

HoldsLock(p) == lock[KeyOf[Chain(p)]] = p

HoldsRelease(c) == \E i \in DOMAIN rows[c] : rows[c][i].content.kind = Released

GoodHandler(p) ==
    /\ handler[p].pc \in {"read", "insert"} => HoldsLock(p)
    /\ handler[p].pc = "insert" => /\ handler[p].seq = NextSeq(rows[Chain(p)])
                                   /\ handler[p].prev = PrevHash(rows[Chain(p)])
    /\ handler[p].pc \in {"check", "save"} => HoldsRelease(Chain(p))

IInv ==
    /\ TypeOK
    /\ \A c \in Chains : Linked(c, rows[c])
    /\ \A p \in Procs : GoodHandler(p)
    /\ RecordsFollowRelease

-----------------------------------------------------------------------------
\* Lemmas about the entries.

\* The entry with the highest number is the last one.
LEMMA LatestIsLast ==
  ASSUME NEW c, NEW entries \in Seq(Entry), Linked(c, entries), entries # <<>>
  PROVE  get_latest(entries) = entries[Len(entries)]
  <1> DEFINE n == Len(entries)
             Highest(i) == \A j \in DOMAIN entries : entries[j].seq <= entries[i].seq
             top == CHOOSE i \in DOMAIN entries : Highest(i)
  <1>1. n \in DOMAIN entries /\ DOMAIN entries = 1..n
    OBVIOUS
  <1>2. \A i \in 1..n : entries[i].seq = i - 1
    BY DEF Linked
  <1>3. Highest(n)
    BY <1>1, <1>2
  <1>4. top \in DOMAIN entries /\ Highest(top)
    BY <1>1, <1>3
  <1>5. top = n
    BY <1>1, <1>2, <1>4
  <1>6. QED
    BY <1>5 DEF get_latest

\* What a handler reads under the lock: the next number and the last hash.
LEMMA ReadIsNext ==
  ASSUME NEW c, NEW entries \in Seq(Entry), Linked(c, entries)
  PROVE  /\ NextSeq(entries) = Len(entries)
         /\ PrevHash(entries) = IF entries = <<>> THEN GENESIS_HASH
                                ELSE entries[Len(entries)].hash
         /\ PrevHash(entries) \in Seq(Content)
         /\ Len(PrevHash(entries)) = Len(entries)
  <1>1. CASE entries = <<>>
    BY <1>1 DEF NextSeq, PrevHash, GENESIS_HASH
  <1>2. CASE entries # <<>>
    <2>1. Len(entries) \in 1..Len(entries)
      BY <1>2
    <2>2. entries[Len(entries)] \in Entry
      BY <2>1
    <2>3. get_latest(entries) = entries[Len(entries)]
      BY <1>2, LatestIsLast
    <2>4. /\ entries[Len(entries)].seq = Len(entries) - 1
          /\ Len(entries[Len(entries)].hash) = Len(entries)
      BY <2>1 DEF Linked
    <2>5. entries[Len(entries)].hash \in Seq(Content)
      BY <2>2 DEF Entry
    <2>6. NextSeq(entries) = (Len(entries) - 1) + 1
      BY <1>2, <2>3, <2>4 DEF NextSeq
    <2>7. PrevHash(entries) = entries[Len(entries)].hash
      BY <1>2, <2>3 DEF PrevHash
    <2>8. QED
      BY <1>2, <2>4, <2>5, <2>6, <2>7
  <1>3. QED
    BY <1>1, <1>2

\* An entry made from what was read continues the chain.
LEMMA AppendLinked ==
  ASSUME NEW c \in Chains, NEW entries \in Seq(Entry), Linked(c, entries),
         NEW content \in Content, content.chain = c
  PROVE  LET entry == create(NextSeq(entries), content, PrevHash(entries)) IN
             entry \in Entry /\ Linked(c, Append(entries, entry))
  <1> DEFINE n == Len(entries)
             prev == PrevHash(entries)
             entry == create(NextSeq(entries), content, prev)
             longer == Append(entries, entry)
             Continues(i) ==
                 /\ longer[i].seq = i - 1
                 /\ longer[i].content.chain = c
                 /\ longer[i].prev = IF i = 1 THEN GENESIS_HASH ELSE longer[i - 1].hash
                 /\ longer[i].hash = Append(longer[i].prev, longer[i].content)
                 /\ Len(longer[i].hash) = i
  <1>1. /\ NextSeq(entries) = n
        /\ prev = IF entries = <<>> THEN GENESIS_HASH ELSE entries[n].hash
        /\ prev \in Seq(Content)
        /\ Len(prev) = n
    BY ReadIsNext
  <1> HIDE DEF prev
  <1>2. /\ entry = [seq |-> n, content |-> content, prev |-> prev,
                    hash |-> Append(prev, content)]
        /\ entry \in Entry
    BY <1>1 DEF create, compute, Entry
  <1>3. /\ Len(longer) = n + 1
        /\ \A i \in 1..n : longer[i] = entries[i]
        /\ longer[n + 1] = entry
    BY <1>2
  <1> HIDE DEF entry, longer
  <1>4. ASSUME NEW i \in 1..n
        PROVE  Continues(i)
    <2>1. i # 1 => i - 1 \in 1..n
      BY <1>4
    <2>2. QED
      BY <1>3, <2>1 DEF Linked
  <1>5. Continues(n + 1)
    <2>1. entries = <<>> <=> n = 0
      OBVIOUS
    <2>2. n # 0 => n \in 1..n
      OBVIOUS
    <2>3. QED
      BY <1>1, <1>2, <1>3, <2>1, <2>2
  <1>6. Linked(c, longer)
    <2>1. SUFFICES ASSUME NEW i \in 1..Len(longer)
                   PROVE  Continues(i)
      BY DEF Linked
    <2>2. i \in 1..n \/ i = n + 1
      BY <1>3
    <2>3. n + 1 - 1 = n
      OBVIOUS
    <2>4. QED
      BY <1>4, <1>5, <2>2, <2>3
  <1>7. QED
    BY <1>2, <1>6 DEF entry, longer, prev

\* Such an entry has a number and a hash that no entry has.
LEMMA NewEntryIsNew ==
  ASSUME TypeOK, \A d \in Chains : Linked(d, rows[d]), NEW c \in Chains,
         NEW content \in Content, content.chain = c
  PROVE  LET entry == create(NextSeq(rows[c]), content, PrevHash(rows[c])) IN
             /\ \A i \in DOMAIN rows[c] : rows[c][i].seq # entry.seq
             /\ \A d \in Chains : \A i \in DOMAIN rows[d] : rows[d][i].hash # entry.hash
  <1> DEFINE n == Len(rows[c])
             prev == PrevHash(rows[c])
             entry == create(NextSeq(rows[c]), content, prev)
  <1>1. \A d \in Chains : rows[d] \in Seq(Entry) /\ Linked(d, rows[d])
    BY DEF TypeOK
  <1>2. NextSeq(rows[c]) = n /\ prev \in Seq(Content) /\ Len(prev) = n
    BY <1>1, ReadIsNext
  <1> HIDE DEF prev
  <1>3. entry.seq = n /\ entry.hash = Append(prev, content)
    BY <1>2 DEF create, compute
  <1>4. \A i \in DOMAIN rows[c] : rows[c][i].seq # entry.seq
    <2>1. \A i \in DOMAIN rows[c] : i \in 1..n /\ rows[c][i].seq = i - 1
      BY <1>1 DEF Linked
    <2>2. QED
      BY <1>3, <2>1
  <1> HIDE DEF entry
  <1>5. ASSUME NEW d \in Chains, NEW i \in DOMAIN rows[d], rows[d][i].hash = entry.hash
        PROVE  FALSE
    <2> DEFINE e == rows[d][i]
    <2>1. i \in 1..Len(rows[d]) /\ e \in Entry
      BY <1>1, <1>5
    <2>2. /\ e.hash = Append(e.prev, e.content)
          /\ e.content.chain = d
          /\ Len(e.hash) = i
      <3>1. Linked(d, rows[d])
        BY <1>1
      <3>2. QED
        BY <2>1, <3>1 DEF Linked
    <2>3. e.prev \in Seq(Content) /\ e.content \in Content
      BY <2>1 DEF Entry
    <2> HIDE DEF e
    <2>4. Append(e.prev, e.content) = Append(prev, content)
      BY <1>3, <1>5, <2>2 DEF e
    <2>5. Len(e.prev) = Len(prev)
      BY <1>2, <2>3, <2>4
    <2>6. e.content = content
      <3>1. Append(e.prev, e.content)[Len(prev) + 1] = e.content
        BY <2>3, <2>5
      <3>2. Append(prev, content)[Len(prev) + 1] = content
        BY <1>2
      <3>3. QED
        BY <2>4, <3>1, <3>2
    <2>7. d = c /\ i = n + 1
      <3>1. Len(Append(prev, content)) = n + 1
        BY <1>2
      <3>2. QED
        BY <1>3, <1>5, <2>2, <2>6, <3>1 DEF e
    <2>8. QED
      BY <1>1, <2>1, <2>7
  <1>6. QED
    BY <1>4, <1>5 DEF entry, prev

\* A linked chain passes the verifier.
LEMMA LinkedVerifies ==
  ASSUME NEW c, NEW entries \in Seq(Entry), Linked(c, entries)
  PROVE  verify(entries)
  <1>1. ASSUME NEW i \in DOMAIN entries
        PROVE  IF Before(entries, i) = {} THEN entries[i].prev = GENESIS_HASH
               ELSE \E j \in Before(entries, i) :
                        /\ entries[i].prev = entries[j].hash
                        /\ \A k \in Before(entries, i) : entries[k].seq <= entries[j].seq
    <2>1. i \in 1..Len(entries) /\ DOMAIN entries = 1..Len(entries)
      BY <1>1
    <2>2. Before(entries, i) = {j \in 1..Len(entries) : j < i}
      <3>1. \A j \in 1..Len(entries) : entries[j].seq = j - 1
        BY DEF Linked
      <3>2. \A j \in 1..Len(entries) : entries[j].seq < entries[i].seq <=> j < i
        BY <2>1, <3>1
      <3>3. QED
        BY <2>1, <3>2 DEF Before
    <2>3. CASE i = 1
      <3>1. Before(entries, i) = {}
        BY <2>2, <2>3
      <3>2. entries[i].prev = GENESIS_HASH
        BY <2>1, <2>3 DEF Linked
      <3>3. QED
        BY <3>1, <3>2
    <2>4. CASE i # 1
      <3>1. i - 1 \in Before(entries, i) /\ i - 1 \in 1..Len(entries)
        BY <2>1, <2>2, <2>4
      <3>2. entries[i].prev = entries[i - 1].hash
        BY <2>1, <2>4 DEF Linked
      <3>3. ASSUME NEW k \in Before(entries, i)
            PROVE  entries[k].seq <= entries[i - 1].seq
        <4>1. k \in 1..Len(entries) /\ k <= i - 1
          BY <2>1, <2>2, <3>3
        <4>2. entries[k].seq = k - 1 /\ entries[i - 1].seq = (i - 1) - 1
          BY <3>1, <4>1 DEF Linked
        <4>3. QED
          BY <2>1, <4>1, <4>2
      <3>4. QED
        BY <3>1, <3>2, <3>3
    <2>5. QED
      BY <2>3, <2>4
  <1>2. ASSUME NEW i \in DOMAIN entries
        PROVE  entries[i].hash = compute(entries[i].prev, entries[i].content)
    <2>1. i \in 1..Len(entries)
      BY <1>2
    <2>2. QED
      BY <2>1 DEF Linked, compute
  <1>3. QED
    BY <1>1, <1>2 DEF verify

-----------------------------------------------------------------------------
\* Lemmas about the handlers.

Handlers == [pc : Pcs, event : Content \cup {NoEvent}, seq : Nat, prev : Seq(Content)]

LEMMA IdleIsHandler == Idle \in Handlers /\ Idle.pc = "idle"
  BY DEF Idle, Handlers, Pcs, GENESIS_HASH

\* A handler at work has an event, and its chain is one of the chains.
LEMMA AtWork ==
  ASSUME TypeOK, NEW p \in Procs, handler[p].pc # "idle"
  PROVE  /\ handler[p] \in Handlers
         /\ handler[p].event \in Content
         /\ Chain(p) \in Chains
         /\ KeyOf[Chain(p)] \in Keys
  BY KeyOfAssumption DEF TypeOK, Handlers, Chain, Content

\* Releasing p's locks takes no lock from another handler.
LEMMA UnlockedKeeps ==
  ASSUME TypeOK, NEW p \in Procs
  PROVE  /\ Unlocked(p) \in [Keys -> Procs \cup {NoProc}]
         /\ \A q \in Procs \ {p} : \A k \in Keys : lock[k] = q => Unlocked(p)[k] = q
  BY DEF Unlocked, TypeOK

\* A step of p that leaves the tables alone, takes no lock from another handler,
\* and leaves p good preserves the invariant.
LEMMA OneHandlerSteps ==
  ASSUME IInv, NEW p \in Procs, NEW h \in Handlers,
         h.pc # "idle" => h.event \in Content,
         handler' = [handler EXCEPT ![p] = h],
         UNCHANGED <<rows, trigger, fema, gst>>,
         lock' \in [Keys -> Procs \cup {NoProc}],
         \A q \in Procs \ {p} : \A k \in Keys : lock[k] = q => lock'[k] = q,
         GoodHandler(p)'
  PROVE  IInv'
  <1>1. TypeOK'
    BY DEF IInv, TypeOK, Handlers
  <1>2. ASSUME NEW q \in Procs PROVE GoodHandler(q)'
    <2>1. CASE q = p
      BY <2>1
    <2>2. CASE q # p
      <3>1. handler'[q] = handler[q] /\ GoodHandler(q)
        BY <2>2 DEF IInv, TypeOK
      <3>2. handler[q].pc \in {"read", "insert"} => lock'[KeyOf[Chain(q)]] = q
        BY <2>2, <3>1, AtWork DEF IInv, GoodHandler, HoldsLock
      <3>3. QED
        BY <3>1, <3>2 DEF GoodHandler, HoldsLock, HoldsRelease, Chain
    <2>3. QED
      BY <2>1, <2>2
  <1>3. QED
    BY <1>1, <1>2 DEF IInv, RecordsFollowRelease

\* A handler that ends is good.
LEMMA OneHandlerEnds ==
  ASSUME IInv, NEW p \in Procs, handler' = [handler EXCEPT ![p] = Idle],
         UNCHANGED <<rows, trigger, fema, gst>>, lock' \in {lock, Unlocked(p)}
  PROVE  IInv'
  <1>1. handler'[p] = Idle
    BY DEF IInv, TypeOK
  <1>2. GoodHandler(p)'
    BY <1>1, IdleIsHandler DEF GoodHandler
  <1>3. /\ lock' \in [Keys -> Procs \cup {NoProc}]
        /\ \A q \in Procs \ {p} : \A k \in Keys : lock[k] = q => lock'[k] = q
    BY UnlockedKeeps DEF IInv, TypeOK
  <1>4. QED
    BY <1>2, <1>3, IdleIsHandler, OneHandlerSteps

\* What p inserts under the lock continues its chain, and the database accepts it
\* but for the first entry under the trigger.
LEMMA PendingIsNext ==
  ASSUME IInv, NEW p \in Procs, handler[p].pc = "insert"
  PROVE  /\ Pending(p) \in Entry
         /\ Pending(p).content = handler[p].event
         /\ Linked(Chain(p), Append(rows[Chain(p)], Pending(p)))
         /\ Accepts(Chain(p), Pending(p)) \/ (trigger /\ rows[Chain(p)] = <<>>)
  <1> DEFINE c == Chain(p)
             content == handler[p].event
  <1>1. c \in Chains /\ content \in Content /\ content.chain = c
    BY AtWork DEF IInv, Chain
  <1>2. rows[c] \in Seq(Entry) /\ Linked(c, rows[c])
    BY <1>1 DEF IInv, TypeOK
  <1>3. Pending(p) = create(NextSeq(rows[c]), content, PrevHash(rows[c]))
    BY DEF IInv, GoodHandler, Pending
  <1>4. Pending(p).content = content
    BY <1>3 DEF create
  <1> HIDE DEF c, content
  <1>5. Pending(p) \in Entry /\ Linked(c, Append(rows[c], Pending(p)))
    BY <1>1, <1>2, <1>3, AppendLinked
  <1>6. /\ \A i \in DOMAIN rows[c] : rows[c][i].seq # Pending(p).seq
        /\ \A d \in Chains : \A i \in DOMAIN rows[d] : rows[d][i].hash # Pending(p).hash
    BY <1>1, <1>3, NewEntryIsNew DEF IInv
  <1>7. rows[c] # <<>> => enforce_audit_hash_chain(rows[c], Pending(p))
    BY <1>3 DEF create, PrevHash, enforce_audit_hash_chain
  <1>8. QED
    BY <1>4, <1>5, <1>6, <1>7 DEF Accepts, c, content

\* A commit preserves the invariant: no other handler holds the chain's lock.
LEMMA CommitKeeps ==
  ASSUME IInv, NEW p \in Procs, CommitEntry(p)
  PROVE  IInv'
  <1> DEFINE c == Chain(p)
             longer == Append(rows[c], Pending(p))
             h == IF handler[p].event.kind = Released
                  THEN [handler[p] EXCEPT !.pc = "check"] ELSE Idle
  <1>1. handler[p].pc = "insert" /\ Accepts(c, Pending(p))
    BY DEF CommitEntry
  <1>2. /\ c \in Chains
        /\ handler[p] \in Handlers
        /\ handler[p].event \in Content
        /\ KeyOf[c] \in Keys
    BY <1>1, AtWork DEF IInv
  <1>3. /\ Pending(p) \in Entry
        /\ Pending(p).content = handler[p].event
        /\ Linked(c, longer)
    BY <1>1, PendingIsNext
  <1>4. rows[c] \in Seq(Entry) /\ longer \in Seq(Entry)
    BY <1>2, <1>3 DEF IInv, TypeOK
  <1>5. /\ rows' = [rows EXCEPT ![c] = longer]
        /\ lock' = Unlocked(p)
        /\ handler' = [handler EXCEPT ![p] = h]
        /\ UNCHANGED <<trigger, fema, gst>>
    BY DEF CommitEntry
  <1>6. h \in Handlers /\ (h.pc # "idle" => h.event \in Content)
    BY <1>2, IdleIsHandler DEF Handlers, Pcs
  <1>7. DOMAIN rows = Chains /\ DOMAIN handler = Procs
    BY DEF IInv, TypeOK
  <1>8. /\ rows'[c] = longer
        /\ \A d \in Chains \ {c} : rows'[d] = rows[d]
        /\ handler'[p] = h
        /\ \A q \in Procs \ {p} : handler'[q] = handler[q]
    BY <1>2, <1>5, <1>7
  <1>9. /\ Len(longer) = Len(rows[c]) + 1
        /\ \A i \in DOMAIN rows[c] : i \in DOMAIN longer /\ longer[i] = rows[c][i]
        /\ Len(longer) \in DOMAIN longer
        /\ longer[Len(longer)] = Pending(p)
    BY <1>3, <1>4
  <1> HIDE DEF c, longer, h
  <1>10. TypeOK'
    <2>1. rows' \in [Chains -> Seq(Entry)]
      BY <1>4, <1>5 DEF IInv, TypeOK
    <2>2. handler' \in [Procs -> Handlers]
      BY <1>5, <1>6 DEF IInv, TypeOK, Handlers
    <2>3. \A q \in Procs : handler'[q].pc # "idle" => handler'[q].event \in Content
      BY <1>6, <1>8 DEF IInv, TypeOK
    <2>4. lock' \in [Keys -> Procs \cup {NoProc}]
      BY <1>5, UnlockedKeeps DEF IInv
    <2>5. QED
      BY <1>5, <2>1, <2>2, <2>3, <2>4 DEF IInv, TypeOK, Handlers
  <1>11. ASSUME NEW d \in Chains PROVE Linked(d, rows'[d])
    BY <1>3, <1>8, <1>11 DEF IInv
  <1>12. ASSUME NEW d \in Chains, HoldsRelease(d) PROVE HoldsRelease(d)'
    <2>1. CASE d = c
      BY <1>8, <1>9, <1>12, <2>1 DEF HoldsRelease
    <2>2. CASE d # c
      BY <1>8, <1>12, <2>2 DEF HoldsRelease
    <2>3. QED
      BY <2>1, <2>2
  <1>13. ASSUME NEW q \in Procs PROVE GoodHandler(q)'
    <2>1. CASE q = p
      <3>1. h.pc \notin {"read", "insert"}
        BY <1>2, IdleIsHandler DEF h, Handlers
      <3>2. h.pc \in {"check", "save"} =>
                handler[p].event.kind = Released /\ h.event = handler[p].event
        BY <1>2, IdleIsHandler DEF h, Handlers
      <3>3. handler[p].event.kind = Released =>
                \E i \in DOMAIN rows'[c] : rows'[c][i].content.kind = Released
        BY <1>3, <1>8, <1>9
      <3>4. h.pc \in {"check", "save"} => HoldsRelease(Chain(p))'
        <4>1. h.event = handler[p].event => h.event.chain = c
          BY DEF c, Chain
        <4>2. QED
          BY <1>8, <3>2, <3>3, <4>1 DEF HoldsRelease, Chain
      <3>5. QED
        BY <1>8, <2>1, <3>1, <3>4 DEF GoodHandler
    <2>2. CASE q # p
      <3>1. handler'[q] = handler[q] /\ GoodHandler(q) /\ Chain(q)' = Chain(q)
        BY <1>8, <2>2 DEF IInv, Chain
      <3>2. handler[q].pc \in {"read", "insert"} =>
                lock[KeyOf[Chain(q)]] = q /\ lock'[KeyOf[Chain(q)]] = q /\ Chain(q) # c
        <4>1. lock[KeyOf[c]] = p
          BY <1>1 DEF IInv, GoodHandler, HoldsLock, c
        <4>2. QED
          BY <1>5, <2>2, <3>1, <4>1, AtWork, UnlockedKeeps DEF IInv, GoodHandler, HoldsLock
      <3>3. handler[q].pc # "idle" => Chain(q) \in Chains
        BY AtWork DEF IInv
      <3>4. handler[q].pc = "insert" => rows'[Chain(q)] = rows[Chain(q)]
        BY <1>8, <3>2, <3>3
      <3>5. handler[q].pc \in {"check", "save"} => HoldsRelease(Chain(q))'
        BY <1>12, <3>1, <3>3 DEF GoodHandler
      <3>6. QED
        BY <3>1, <3>2, <3>4, <3>5 DEF GoodHandler, HoldsLock
    <2>3. QED
      BY <2>1, <2>2
  <1>14. RecordsFollowRelease'
    BY <1>5, <1>12 DEF IInv, TypeOK, RecordsFollowRelease, HoldsRelease
  <1>15. QED
    BY <1>10, <1>11, <1>13, <1>14 DEF IInv

\* Every step preserves the invariant.
LEMMA InvariantKept ==
  ASSUME IInv, [Next]_vars
  PROVE  IInv'
  <1> DEFINE Same == UNCHANGED <<rows, trigger, fema, gst>>
  <1>1. ASSUME NEW p \in Procs, NEW e \in Content, Publish(p, e)
        PROVE  IInv'
    <2> DEFINE h == [handler[p] EXCEPT !.pc = "lock", !.event = e]
    <2>1. h \in Handlers /\ h.pc = "lock" /\ h.event = e
      BY DEF IInv, TypeOK, Handlers, Pcs
    <2>2. handler' = [handler EXCEPT ![p] = h]
      BY <1>1 DEF Publish
    <2> HIDE DEF h
    <2>3. handler'[p] = h
      BY <2>2 DEF IInv, TypeOK
    <2>4. GoodHandler(p)'
      BY <2>1, <2>3 DEF GoodHandler
    <2>5. QED
      BY <1>1, <2>1, <2>2, <2>4, OneHandlerSteps DEF Publish, IInv, TypeOK
  <1>2. ASSUME NEW p \in Procs, acquire_advisory_lock(p)
        PROVE  IInv'
    <2> DEFINE h == [handler[p] EXCEPT !.pc = "read"]
    <2>1. /\ handler[p] \in Handlers
          /\ handler[p].event \in Content
          /\ KeyOf[Chain(p)] \in Keys
          /\ lock[KeyOf[Chain(p)]] = NoProc
      BY <1>2, AtWork DEF acquire_advisory_lock, IInv
    <2>2. h \in Handlers /\ h.pc = "read" /\ h.event = handler[p].event
      BY <2>1 DEF Handlers, Pcs
    <2>3. /\ handler' = [handler EXCEPT ![p] = h]
          /\ lock' = [lock EXCEPT ![KeyOf[Chain(p)]] = p]
          /\ Same
      BY <1>2 DEF acquire_advisory_lock
    <2> HIDE DEF h
    <2>4. handler'[p] = h
      BY <2>3 DEF IInv, TypeOK
    <2>5. /\ lock' \in [Keys -> Procs \cup {NoProc}]
          /\ \A q \in Procs \ {p} : \A k \in Keys : lock[k] = q => lock'[k] = q
          /\ lock'[KeyOf[Chain(p)]] = p
      BY <2>1, <2>3, NoProcAssumption DEF IInv, TypeOK
    <2>6. GoodHandler(p)'
      BY <2>2, <2>4, <2>5 DEF GoodHandler, HoldsLock, Chain
    <2>7. QED
      BY <2>1, <2>2, <2>3, <2>5, <2>6, OneHandlerSteps
  <1>3. ASSUME NEW p \in Procs, ReadLatest(p)
        PROVE  IInv'
    <2> DEFINE c == Chain(p)
               h == [handler[p] EXCEPT !.pc = "insert", !.seq = NextSeq(rows[c]),
                                       !.prev = PrevHash(rows[c])]
    <2>1. /\ handler[p].pc = "read"
          /\ handler[p] \in Handlers
          /\ handler[p].event \in Content
          /\ c \in Chains
      BY <1>3, AtWork DEF ReadLatest, IInv
    <2>2. rows[c] \in Seq(Entry) /\ Linked(c, rows[c])
      BY <2>1 DEF IInv, TypeOK
    <2>3. NextSeq(rows[c]) \in Nat /\ PrevHash(rows[c]) \in Seq(Content)
      BY <2>2, ReadIsNext
    <2>4. /\ h \in Handlers
          /\ h.pc = "insert"
          /\ h.event = handler[p].event
          /\ h.seq = NextSeq(rows[c])
          /\ h.prev = PrevHash(rows[c])
      BY <2>1, <2>3 DEF Handlers, Pcs
    <2>5. handler' = [handler EXCEPT ![p] = h] /\ Same /\ lock' = lock
      BY <1>3 DEF ReadLatest
    <2> HIDE DEF h
    <2>6. handler'[p] = h
      BY <2>5 DEF IInv, TypeOK
    <2>7. GoodHandler(p)'
      BY <2>1, <2>4, <2>5, <2>6 DEF IInv, GoodHandler, HoldsLock, Chain
    <2>8. QED
      BY <2>1, <2>4, <2>5, <2>7, OneHandlerSteps DEF IInv, TypeOK
  <1>4. ASSUME NEW p \in Procs, CommitEntry(p)
        PROVE  IInv'
    BY <1>4, CommitKeeps
  <1>5. ASSUME NEW p \in Procs, EntryRefused(p)
        PROVE  IInv'
    BY <1>5, OneHandlerEnds DEF EntryRefused
  <1>6. ASSUME NEW p \in Procs, CheckRecords(p)
        PROVE  IInv'
    <2>1. CASE Chain(p) \in fema \cap gst
      BY <1>6, <2>1, OneHandlerEnds DEF CheckRecords
    <2>2. CASE Chain(p) \notin fema \cap gst
      <3> DEFINE h == [handler[p] EXCEPT !.pc = "save"]
      <3>1. /\ handler[p].pc = "check"
            /\ handler[p] \in Handlers
            /\ handler[p].event \in Content
        BY <1>6, AtWork DEF CheckRecords, IInv
      <3>2. h \in Handlers /\ h.pc = "save" /\ h.event = handler[p].event
        BY <3>1 DEF Handlers, Pcs
      <3>3. handler' = [handler EXCEPT ![p] = h] /\ Same /\ lock' = lock
        BY <1>6, <2>2 DEF CheckRecords
      <3> HIDE DEF h
      <3>4. handler'[p] = h
        BY <3>3 DEF IInv, TypeOK
      <3>5. GoodHandler(p)'
        BY <3>1, <3>2, <3>3, <3>4 DEF IInv, GoodHandler, HoldsRelease, Chain
      <3>6. QED
        BY <3>1, <3>2, <3>3, <3>5, OneHandlerSteps DEF IInv, TypeOK
    <2>3. QED
      BY <2>1, <2>2
  <1>7. ASSUME NEW p \in Procs, SaveRecords(p)
        PROVE  IInv'
    <2>1. handler[p].pc = "save" /\ Chain(p) \in Chains /\ HoldsRelease(Chain(p))
      BY <1>7, AtWork DEF SaveRecords, IInv, GoodHandler
    <2>2. /\ handler' = [handler EXCEPT ![p] = Idle]
          /\ UNCHANGED <<rows, trigger, lock>>
          /\ \/ fema' = fema /\ gst' = gst
             \/ fema' = fema \cup {Chain(p)} /\ gst' = gst \cup {Chain(p)}
      BY <1>7 DEF SaveRecords
    <2>3. TypeOK'
      BY <2>1, <2>2, IdleIsHandler DEF IInv, TypeOK, Handlers
    <2>4. ASSUME NEW q \in Procs PROVE GoodHandler(q)'
      <3>1. handler'[q] = Idle \/ handler'[q] = handler[q]
        BY <2>2 DEF IInv, TypeOK
      <3>2. QED
        BY <2>2, <3>1, IdleIsHandler DEF IInv, GoodHandler, HoldsLock, HoldsRelease, Chain
    <2>5. RecordsFollowRelease'
      BY <2>1, <2>2 DEF IInv, RecordsFollowRelease, HoldsRelease
    <2>6. QED
      BY <2>2, <2>3, <2>4, <2>5 DEF IInv
  <1>8. ASSUME NEW p \in Procs, Crash(p)
        PROVE  IInv'
    BY <1>8, OneHandlerEnds DEF Crash
  <1>9. CASE Migrate
    <2>1. TypeOK'
      BY <1>9 DEF Migrate, IInv, TypeOK
    <2>2. QED
      BY <1>9, <2>1 DEF Migrate, IInv, GoodHandler, HoldsLock, HoldsRelease, Chain,
                        RecordsFollowRelease
  <1>10. CASE UNCHANGED vars
    BY <1>10 DEF vars, IInv, TypeOK, GoodHandler, HoldsLock, HoldsRelease, Chain,
                 RecordsFollowRelease
  <1>11. QED
    BY <1>1, <1>2, <1>3, <1>4, <1>5, <1>6, <1>7, <1>8, <1>9, <1>10
    DEF Next, HandlerStep

LEMMA InvariantStarts == Init => IInv
  <1> SUFFICES ASSUME Init PROVE IInv
    OBVIOUS
  <1>1. TypeOK
    BY IdleIsHandler DEF Init, TypeOK, Handlers
  <1>2. \A c \in Chains : Linked(c, rows[c])
    BY DEF Init, Linked
  <1>3. \A p \in Procs : GoodHandler(p)
    BY IdleIsHandler DEF Init, GoodHandler
  <1>4. QED
    BY <1>1, <1>2, <1>3 DEF Init, IInv, RecordsFollowRelease

LEMMA Invariant == Spec => []IInv
  <1>1. IInv /\ [Next]_vars => IInv'
    BY InvariantKept
  <1>2. QED
    BY <1>1, InvariantStarts, PTL DEF Spec

-----------------------------------------------------------------------------
\* The theorems.

\* The tables, the handlers and the locks keep their types.
THEOREM TypeCorrect == Spec => []TypeOK
  <1>1. IInv => TypeOK
    BY DEF IInv
  <1>2. QED
    BY <1>1, Invariant, PTL

\* At any moment verify_audit_chain answers "valid" for every chain, and the
\* numbers have no gap, however many handlers append at once and crash.
THEOREM ChainsVerify == Spec => []ChainVerifies
  <1>1. IInv => ChainVerifies
    <2> SUFFICES ASSUME IInv, NEW c \in Chains
                 PROVE  /\ verify(rows[c])
                        /\ \A i \in DOMAIN rows[c] : rows[c][i].seq = i - 1
      BY DEF ChainVerifies
    <2>1. rows[c] \in Seq(Entry) /\ Linked(c, rows[c])
      BY DEF IInv, TypeOK
    <2>2. verify(rows[c])
      BY <2>1, LinkedVerifies
    <2>3. \A i \in DOMAIN rows[c] : rows[c][i].seq = i - 1
      <3>1. DOMAIN rows[c] = 1..Len(rows[c])
        BY <2>1
      <3>2. QED
        BY <2>1, <3>1 DEF Linked
    <2>4. QED
      BY <2>2, <2>3
  <1>2. QED
    BY <1>1, Invariant, PTL

\* An insert that was prepared under the advisory lock is refused by no UNIQUE
\* constraint, and by the trigger only as the first of its chain.
THEOREM LockedInsertsAccepted == Spec => []LockedInsertAccepted
  <1>1. IInv => LockedInsertAccepted
    BY PendingIsNext DEF LockedInsertAccepted
  <1>2. QED
    BY <1>1, Invariant, PTL

\* FEMA and GST records come in pairs, for releases the audit trail holds.
THEOREM RecordsHaveRelease == Spec => []RecordsFollowRelease
  <1>1. IInv => RecordsFollowRelease
    BY DEF IInv
  <1>2. QED
    BY <1>1, Invariant, PTL

-----------------------------------------------------------------------------
\* The chain implements the plain log.

Kind(entries) == [i \in DOMAIN entries |-> entries[i].content.kind]
LogOf == [c \in Chains |-> Kind(rows[c])]
Held(p) == IF handler[p].pc \in {"lock", "read", "insert"} THEN handler[p].event ELSE NoEvent
HeldOf == [p \in Procs |-> Held(p)]

LEMMA KindOfAppend ==
  ASSUME NEW entries \in Seq(Entry), NEW e \in Entry
  PROVE  Kind(Append(entries, e)) = Append(Kind(entries), e.content.kind)
  <1> DEFINE longer == Append(entries, e)
             kinds == Kind(entries)
  <1>1. kinds \in Seq(Kinds) /\ Len(kinds) = Len(entries)
    <2>1. kinds \in [1..Len(entries) -> Kinds]
      <3>1. \A i \in 1..Len(entries) : entries[i] \in Entry
        OBVIOUS
      <3>2. \A i \in 1..Len(entries) : entries[i].content.kind \in Kinds
        BY <3>1 DEF Entry, Content
      <3>3. DOMAIN entries = 1..Len(entries)
        OBVIOUS
      <3>4. QED
        BY <3>2, <3>3 DEF Kind
    <2> HIDE DEF kinds
    <2>2. \A n \in Nat : \A k \in [1..n -> Kinds] : k \in Seq(Kinds) /\ Len(k) = n
      OBVIOUS
    <2>3. QED
      BY <2>1, <2>2
  <1>2. e.content.kind \in Kinds
    BY DEF Entry, Content
  <1>3. /\ Len(longer) = Len(entries) + 1
        /\ DOMAIN longer = 1..(Len(entries) + 1)
        /\ \A i \in 1..Len(entries) : longer[i] = entries[i]
        /\ longer[Len(entries) + 1] = e
    OBVIOUS
  <1>4. /\ DOMAIN Append(kinds, e.content.kind) = 1..(Len(entries) + 1)
        /\ \A i \in 1..Len(entries) : Append(kinds, e.content.kind)[i] = kinds[i]
        /\ Append(kinds, e.content.kind)[Len(entries) + 1] = e.content.kind
    BY <1>1, <1>2
  <1>5. \A i \in 1..Len(entries) : kinds[i] = entries[i].content.kind
    BY DEF Kind
  <1> HIDE DEF kinds, longer
  <1>6. \A i \in 1..(Len(entries) + 1) :
            longer[i].content.kind = Append(kinds, e.content.kind)[i]
    <2>1. \A i \in 1..(Len(entries) + 1) : i \in 1..Len(entries) \/ i = Len(entries) + 1
      OBVIOUS
    <2>2. QED
      BY <1>3, <1>4, <1>5, <2>1
  <1>7. Append(kinds, e.content.kind) =
            [i \in 1..(Len(entries) + 1) |-> Append(kinds, e.content.kind)[i]]
    BY <1>1, <1>2, <1>4
  <1>8. QED
    BY <1>3, <1>6, <1>7 DEF Kind, longer, kinds

\* The initial states are initial states of the log.
LEMMA LogStarts == Init => Log!LogInit
  BY IdleIsHandler DEF Init, Log!LogInit

\* What a step does to the log and to the events in hand.
LEMMA LogSteps ==
  ASSUME IInv, [Next]_vars
  PROVE  \/ \E p \in Procs, e \in Content :
                Held(p) = NoEvent /\ LogOf' = LogOf /\ HeldOf' = [HeldOf EXCEPT ![p] = e]
         \/ \E p \in Procs :
                /\ Held(p) # NoEvent
                /\ LogOf' = [LogOf EXCEPT ![Held(p).chain] = Append(@, Held(p).kind)]
                /\ HeldOf' = [HeldOf EXCEPT ![p] = NoEvent]
         \/ \E p \in Procs : LogOf' = LogOf /\ HeldOf' = [HeldOf EXCEPT ![p] = NoEvent]
         \/ LogOf' = LogOf /\ HeldOf' = HeldOf
  <1>1. DOMAIN rows = Chains /\ DOMAIN handler = Procs
    BY DEF IInv, TypeOK
  <1>2. rows' = rows => LogOf' = LogOf
    BY DEF LogOf, Kind
  <1>3. ASSUME NEW p \in Procs, NEW h, handler' = [handler EXCEPT ![p] = h]
        PROVE  HeldOf' = [HeldOf EXCEPT ![p] = IF h.pc \in {"lock", "read", "insert"}
                                               THEN h.event ELSE NoEvent]
    BY <1>1, <1>3 DEF HeldOf, Held
  <1>4. ASSUME NEW p \in Procs, NEW h, handler' = [handler EXCEPT ![p] = h],
               h.event = handler[p].event,
               h.pc \in {"lock", "read", "insert"} <=>
                   handler[p].pc \in {"lock", "read", "insert"}
        PROVE  HeldOf' = HeldOf
    BY <1>1, <1>4 DEF HeldOf, Held
  <1>5. ASSUME NEW p \in Procs, handler' = [handler EXCEPT ![p] = Idle]
        PROVE  HeldOf' = [HeldOf EXCEPT ![p] = NoEvent]
    BY <1>3, <1>5, IdleIsHandler
  <1>6. ASSUME NEW p \in Procs, NEW e \in Content, Publish(p, e)
        PROVE  /\ Held(p) = NoEvent
               /\ LogOf' = LogOf
               /\ HeldOf' = [HeldOf EXCEPT ![p] = e]
    <2> DEFINE h == [handler[p] EXCEPT !.pc = "lock", !.event = e]
    <2>1. h.pc = "lock" /\ h.event = e
      BY DEF IInv, TypeOK
    <2>2. handler' = [handler EXCEPT ![p] = h]
      BY <1>6 DEF Publish
    <2> HIDE DEF h
    <2>3. HeldOf' = [HeldOf EXCEPT ![p] = e]
      BY <1>3, <2>1, <2>2
    <2>4. QED
      BY <1>2, <1>6, <2>3 DEF Publish, Held
  <1>7. ASSUME NEW p \in Procs, acquire_advisory_lock(p) \/ ReadLatest(p)
        PROVE  LogOf' = LogOf /\ HeldOf' = HeldOf
    <2>1. handler[p] \in Handlers /\ rows' = rows
      BY <1>7 DEF acquire_advisory_lock, ReadLatest, IInv, TypeOK, Handlers
    <2>2. handler[p].pc \in {"lock", "read"}
      BY <1>7 DEF acquire_advisory_lock, ReadLatest
    <2>3. CASE acquire_advisory_lock(p)
      <3> DEFINE h == [handler[p] EXCEPT !.pc = "read"]
      <3>1. handler' = [handler EXCEPT ![p] = h]
        BY <2>3 DEF acquire_advisory_lock
      <3>2. h.pc = "read" /\ h.event = handler[p].event
        BY <2>1 DEF Handlers
      <3> HIDE DEF h
      <3>3. QED
        BY <1>2, <1>4, <2>1, <2>2, <3>1, <3>2
    <2>4. CASE ReadLatest(p)
      <3> DEFINE h == [handler[p] EXCEPT !.pc = "insert",
                                         !.seq = NextSeq(rows[Chain(p)]),
                                         !.prev = PrevHash(rows[Chain(p)])]
      <3>1. handler' = [handler EXCEPT ![p] = h]
        BY <2>4 DEF ReadLatest
      <3>2. h.pc = "insert" /\ h.event = handler[p].event
        BY <2>1 DEF Handlers
      <3> HIDE DEF h
      <3>3. QED
        BY <1>2, <1>4, <2>1, <2>2, <3>1, <3>2
    <2>5. QED
      BY <1>7, <2>3, <2>4
  <1>8. ASSUME NEW p \in Procs, CommitEntry(p)
        PROVE  /\ Held(p) # NoEvent
               /\ LogOf' = [LogOf EXCEPT ![Held(p).chain] = Append(@, Held(p).kind)]
               /\ HeldOf' = [HeldOf EXCEPT ![p] = NoEvent]
    <2> DEFINE c == Chain(p)
    <2>1. /\ handler[p].pc = "insert"
          /\ rows' = [rows EXCEPT ![c] = Append(@, Pending(p))]
      BY <1>8 DEF CommitEntry
    <2>2. /\ handler[p] \in Handlers
          /\ handler[p].event \in Content
          /\ c \in Chains
      BY <2>1, AtWork DEF IInv
    <2>3. Pending(p) \in Entry /\ Pending(p).content = handler[p].event
      BY <2>1, PendingIsNext
    <2>4. rows[c] \in Seq(Entry)
      BY <2>2 DEF IInv, TypeOK
    <2>5. Kind(Append(rows[c], Pending(p))) = Append(Kind(rows[c]), handler[p].event.kind)
      BY <2>3, <2>4, KindOfAppend
    <2>6. LogOf' = [LogOf EXCEPT ![c] = Append(@, handler[p].event.kind)]
      <3>1. LogOf' = [d \in Chains |-> Kind(rows'[d])]
        BY DEF LogOf, Kind
      <3>2. \A d \in Chains : rows'[d] = IF d = c THEN Append(rows[c], Pending(p)) ELSE rows[d]
        BY <1>1, <2>1, <2>2
      <3> HIDE DEF c
      <3>3. \A d \in Chains : Kind(rows'[d]) =
                IF d = c THEN Append(Kind(rows[c]), handler[p].event.kind) ELSE Kind(rows[d])
        BY <2>5, <3>2
      <3>4. QED
        BY <2>2, <3>1, <3>3 DEF LogOf
    <2>7. Held(p) = handler[p].event /\ handler[p].event # NoEvent
      BY <2>1, <2>2, NoEventAssumption DEF Held, Content
    <2>8. HeldOf' = [HeldOf EXCEPT ![p] = NoEvent]
      <3>1. CASE handler[p].event.kind = Released
        <4> DEFINE h == [handler[p] EXCEPT !.pc = "check"]
        <4>1. handler' = [handler EXCEPT ![p] = h]
          BY <1>8, <3>1 DEF CommitEntry
        <4>2. h.pc = "check"
          BY <2>2 DEF Handlers
        <4> HIDE DEF h
        <4>3. QED
          BY <1>3, <4>1, <4>2
      <3>2. CASE handler[p].event.kind # Released
        BY <1>5, <1>8, <3>2 DEF CommitEntry
      <3>3. QED
        BY <3>1, <3>2
    <2>9. QED
      BY <2>6, <2>7, <2>8 DEF Chain
  <1>9. ASSUME NEW p \in Procs, EntryRefused(p) \/ SaveRecords(p) \/ Crash(p)
        PROVE  LogOf' = LogOf /\ HeldOf' = [HeldOf EXCEPT ![p] = NoEvent]
    BY <1>2, <1>5, <1>9 DEF EntryRefused, SaveRecords, Crash
  <1>10. ASSUME NEW p \in Procs, CheckRecords(p)
         PROVE  /\ LogOf' = LogOf
                /\ HeldOf' = HeldOf \/ HeldOf' = [HeldOf EXCEPT ![p] = NoEvent]
    <2>1. CASE Chain(p) \in fema \cap gst
      BY <1>2, <1>5, <1>10, <2>1 DEF CheckRecords
    <2>2. CASE Chain(p) \notin fema \cap gst
      <3> DEFINE h == [handler[p] EXCEPT !.pc = "save"]
      <3>1. handler' = [handler EXCEPT ![p] = h] /\ handler[p].pc = "check"
        BY <1>10, <2>2 DEF CheckRecords
      <3>2. h.pc = "save" /\ h.event = handler[p].event
        BY DEF IInv, TypeOK
      <3> HIDE DEF h
      <3>3. QED
        BY <1>2, <1>4, <1>10, <3>1, <3>2 DEF CheckRecords
    <2>3. QED
      BY <2>1, <2>2
  <1>11. Migrate \/ UNCHANGED vars => LogOf' = LogOf /\ HeldOf' = HeldOf
    BY DEF Migrate, vars, LogOf, Kind, HeldOf, Held
  <1>12. QED
    BY <1>6, <1>7, <1>8, <1>9, <1>10, <1>11 DEF Next, HandlerStep

LEMMA LogContinues == IInv /\ [Next]_vars => [Log!LogNext]_<<LogOf, HeldOf>>
  <1> SUFFICES ASSUME IInv, [Next]_vars PROVE [Log!LogNext]_<<LogOf, HeldOf>>
    OBVIOUS
  <1>1. \A p \in Procs : HeldOf[p] = Held(p)
    BY DEF HeldOf
  <1>2. ASSUME NEW p \in Procs, NEW e \in Content,
               Held(p) = NoEvent, LogOf' = LogOf, HeldOf' = [HeldOf EXCEPT ![p] = e]
        PROVE  Log!Take(p, e) /\ e \in Log!Event
    BY <1>1, <1>2 DEF Log!Take, Log!Event, LogOf, HeldOf, Held, Kind, Content
  <1>3. ASSUME NEW p \in Procs, Held(p) # NoEvent,
               LogOf' = [LogOf EXCEPT ![Held(p).chain] = Append(@, Held(p).kind)],
               HeldOf' = [HeldOf EXCEPT ![p] = NoEvent]
        PROVE  Log!Record(p)
    BY <1>1, <1>3 DEF Log!Record, LogOf, HeldOf, Held, Kind
  <1>4. ASSUME NEW p \in Procs, LogOf' = LogOf, HeldOf' = [HeldOf EXCEPT ![p] = NoEvent]
        PROVE  Log!Lose(p)
    BY <1>4 DEF Log!Lose, LogOf, HeldOf, Held, Kind
  <1>5. QED
    BY <1>2, <1>3, <1>4, LogSteps DEF Log!LogNext

\* The hash chain, with its lock, its refusals and its crashes, implements the
\* plain log: it grows at its end by an event that some handler holds, once.
THEOREM LogRefined == Spec => LogSpec
  <1>1. Init => Log!LogInit
    BY LogStarts
  <1>2. IInv /\ [Next]_vars => [Log!LogNext]_<<LogOf, HeldOf>>
    BY LogContinues
  <1>3. QED
    BY <1>1, <1>2, Invariant, PTL DEF Spec, LogSpec, Log!LogSpec, LogOf, HeldOf, Held, Kind

-----------------------------------------------------------------------------
\* Sign-in.  The types need that a cookie, in the browser or with a request under
\* way, holds a refresh token that has been issued, and that what is posted is a
\* form or the session with Magic.

Signing == {"posted", "granted"}
OnTheWay == Signing \cup {"profile"}
Leaving == {"leaving", "left"}

Issued(x, n) ==
    /\ x.gate.step \in Signing => x.gate.way # "cookie"
    /\ x.gate.step \in OnTheWay \cup {"restoring"} \cup Leaving => x.gate.cookie <= n
    /\ x.call.step = "refreshing" => x.call.cookie <= n

TabStates == [token : AccessTokens, shown : People \cup {NoOne}, method : Methods,
              gate : Gates, call : ApiCalls]
Browsers == [cookie : Cookies, method : Methods, magic : Members \cup {NoOne}]

SignInv ==
    /\ SignTypeOK
    /\ browser.cookie <= Len(grants)
    /\ revoked \subseteq 1..Len(grants)
    /\ \A t \in Tabs : Issued(tab[t], Len(grants))

\* What a step keeps, where x is what becomes of its tab.
TabBecomes(t, x) == tab' = [tab EXCEPT ![t] = x] /\ x \in TabStates /\ Issued(x, Len(grants'))

ServerGrows ==
    /\ grants' \in Seq(People) /\ Len(grants') <= MaxGrants
    /\ Len(grants) <= Len(grants')
    /\ \A n \in 1..Len(grants) : grants'[n] = grants[n]
    /\ revoked \subseteq revoked' /\ revoked' \subseteq 1..Len(grants')

BrowserKept == browser' \in Browsers /\ browser'.cookie <= Len(grants')

LEMMA GateForms ==
  ASSUME NEW g \in Gates
  PROVE  /\ g.step \in {"none", "restoring", "restored"} \cup OnTheWay \cup Leaving
         /\ g.step \in OnTheWay => g \in [step : OnTheWay, way : Ways, who : People, cookie : Cookies]
         /\ g.step = "restoring" => g \in [step : {"restoring"}, cookie : Cookies]
         /\ g.step = "restored" => g \in [step : {"restored"}, who : People \cup {NoOne}]
         /\ g.step \in Leaving => g \in [step : Leaving, cookie : Cookies]
  BY DEF Gates, AtRest, OnTheWay, Signing, Leaving

LEMMA GatesMade ==
  /\ AtRest \in Gates
  /\ [step : OnTheWay, way : Ways, who : People, cookie : Cookies] \subseteq Gates
  /\ [step : {"restoring"}, cookie : Cookies] \subseteq Gates
  /\ [step : {"restored"}, who : People \cup {NoOne}] \subseteq Gates
  /\ [step : Leaving, cookie : Cookies] \subseteq Gates
  BY DEF Gates, OnTheWay, Signing, Leaving

LEMMA CallForms ==
  ASSUME NEW c \in ApiCalls
  PROVE  /\ c.step \in {"none", "sent", "refreshing", "refreshed"}
         /\ c.step = "sent" => c \in [step : {"sent"}, token : AccessTokens, again : BOOLEAN]
         /\ c.step = "refreshing" => c \in [step : {"refreshing"}, cookie : Cookies]
         /\ c.step = "refreshed" => c \in [step : {"refreshed"}, who : People \cup {NoOne}]
  BY DEF ApiCalls, AtRest

LEMMA CallsMade ==
  /\ AtRest \in ApiCalls
  /\ [step : {"sent"}, token : AccessTokens, again : BOOLEAN] \subseteq ApiCalls
  /\ [step : {"refreshing"}, cookie : Cookies] \subseteq ApiCalls
  /\ [step : {"refreshed"}, who : People \cup {NoOne}] \subseteq ApiCalls
  BY DEF ApiCalls

\* A new tab, and what a failure leaves of one.
LEMMA BlankIsTab ==
  /\ Blank \in TabStates
  /\ \A n \in Nat : Issued(Blank, n)
  /\ Blank.call.step = "none" /\ Blank.gate.step = "none"
  /\ Blank.shown = NoOne /\ ~Blank.token.fresh
  <1>1. NoToken \in AccessTokens /\ ~NoToken.fresh
    BY DEF NoToken, AccessTokens
  <1>2. AtRest \in Gates /\ AtRest \in ApiCalls /\ AtRest.step = "none"
    BY GatesMade, CallsMade DEF AtRest
  <1>3. Blank \in TabStates /\ Blank.gate = AtRest /\ Blank.call = AtRest
    BY <1>1, <1>2 DEF Blank, TabStates, Methods
  <1>4. QED
    BY <1>1, <1>2, <1>3 DEF Blank, Issued, Signing, OnTheWay, Leaving

\* The tabs keep the invariant when one of them does.
LEMMA OneTabKeeps ==
  ASSUME SignInv, NEW t \in Tabs, NEW x, TabBecomes(t, x), ServerGrows, BrowserKept
  PROVE  SignInv'
  <1>1. tab \in [Tabs -> TabStates] /\ grants \in Seq(People)
    BY DEF SignInv, SignTypeOK, TabStates
  <1>2. tab' \in [Tabs -> TabStates]
    BY <1>1 DEF TabBecomes
  <1>3. SignTypeOK'
    <2>1. grants' \in Seq(People) /\ Len(grants') <= MaxGrants /\ browser' \in Browsers
      BY DEF ServerGrows, BrowserKept
    <2>2. revoked' \subseteq 1..MaxGrants
      BY <2>1, MaxGrantsAssumption DEF ServerGrows
    <2>3. QED
      BY <1>2, <2>1, <2>2 DEF SignTypeOK, TabStates, Browsers
  <1>4. ASSUME NEW o \in Tabs PROVE Issued(tab'[o], Len(grants'))
    <2>1. CASE o = t
      BY <1>1, <2>1 DEF TabBecomes
    <2>2. CASE o # t
      <3>1. tab'[o] = tab[o] /\ Issued(tab[o], Len(grants)) /\ tab[o] \in TabStates
        BY <1>1, <2>2 DEF TabBecomes, SignInv
      <3>2. tab[o].gate \in Gates /\ tab[o].call \in ApiCalls
        BY <3>1 DEF TabStates
      <3>3. /\ tab[o].gate.step \in OnTheWay \cup {"restoring"} \cup Leaving =>
                   tab[o].gate.cookie \in Nat
            /\ tab[o].call.step = "refreshing" => tab[o].call.cookie \in Nat
        BY <3>2, GateForms, CallForms, MaxGrantsAssumption DEF Cookies
      <3>4. Len(grants) \in Nat /\ Len(grants') \in Nat /\ Len(grants) <= Len(grants')
        BY <1>1 DEF ServerGrows
      <3>5. QED
        BY <3>1, <3>3, <3>4 DEF Issued
    <2>3. QED
      BY <2>1, <2>2
  <1>5. QED
    BY <1>3, <1>4 DEF SignInv, ServerGrows, BrowserKept

\* Signed out: nothing could sign a tab in, no refresh under way carries a good
\* token, and no answer brings one.
NoneComing(x) ==
    /\ x.gate.step = "restoring" => Refreshed(x.gate.cookie) = NoOne
    /\ x.gate.step = "restored" => x.gate.who = NoOne
    /\ x.call.step = "refreshing" => Refreshed(x.call.cookie) = NoOne
    /\ x.call.step = "refreshed" => x.call.who = NoOne

SignedOut == AllSignedOut /\ \A t \in Tabs : NoneComing(tab[t])

Showing(x) == x.shown # NoOne \/ x.gate.step = "profile"

PostsForm(x, y) == x.gate.step = "none" /\ y.gate.step = "posted"

\* What a tab that becomes y adds, when everybody is signed out.
AddsNothing(x, y) ==
    /\ y.token.fresh => x.token.fresh
    /\ Showing(y) => Showing(x)
    /\ \/ PostsForm(x, y)
       \/ /\ y.gate.step \notin Signing /\ NoneComing(y)
          /\ browser'.magic = NoOne /\ browser'.cookie \in {NoCookie, browser.cookie}

Handled(t) ==
    \E x : /\ TabBecomes(t, x) /\ ServerGrows /\ BrowserKept
           /\ SignedOut => AddsNothing(tab[t], x)

LEMMA OneTab ==
  ASSUME SignInv, NEW t \in Tabs
  PROVE  /\ tab[t] \in TabStates /\ tab \in [Tabs -> TabStates]
         /\ tab[t].gate \in Gates /\ tab[t].call \in ApiCalls
         /\ tab[t].token \in AccessTokens
         /\ Issued(tab[t], Len(grants))
         /\ browser \in Browsers /\ browser.cookie <= Len(grants) /\ browser.cookie \in Nat
         /\ grants \in Seq(People) /\ Len(grants) \in 0..MaxGrants
  <1>1. tab[t] \in TabStates /\ tab \in [Tabs -> TabStates]
    BY DEF SignInv, SignTypeOK, TabStates
  <1>2. browser \in Browsers /\ browser.cookie <= Len(grants) /\ browser.cookie \in Nat
    BY MaxGrantsAssumption DEF SignInv, SignTypeOK, Browsers, Cookies
  <1>3. grants \in Seq(People) /\ Len(grants) \in 0..MaxGrants
    BY MaxGrantsAssumption DEF SignInv, SignTypeOK
  <1>4. QED
    BY <1>1, <1>2, <1>3 DEF SignInv, TabStates

LEMMA ServerRests ==
  ASSUME SignInv, UNCHANGED <<grants, revoked>>
  PROVE  ServerGrows
  BY MaxGrantsAssumption DEF SignInv, SignTypeOK, ServerGrows

LEMMA BrowserRests ==
  ASSUME SignInv, UNCHANGED <<grants, browser>>
  PROVE  BrowserKept
  BY DEF SignInv, SignTypeOK, BrowserKept, Browsers

\* Nothing the browser still has signs anybody in.
LEMMA NobodyReturns ==
  ASSUME SignedOut, NEW t \in Tabs
  PROVE  /\ Refreshed(browser.cookie) = NoOne /\ browser.magic = NoOne
         /\ tab[t].gate.step \notin Signing /\ NoneComing(tab[t])
  BY DEF SignedOut, AllSignedOut, Entering, Signing

LEMMA Signed ==
  ASSUME SignInv, NEW t \in Tabs
  PROVE  /\ SignedOff(t) \in TabStates
         /\ SignedOff(t).shown = NoOne /\ ~SignedOff(t).token.fresh
         /\ SignedOff(t).gate = tab[t].gate /\ SignedOff(t).call = tab[t].call
  <1>1. tab[t] \in TabStates /\ NoToken \in AccessTokens /\ ~NoToken.fresh
    BY OneTab DEF NoToken, AccessTokens
  <1>2. QED
    BY <1>1 DEF SignedOff, TabStates, Methods

\* A tab that comes to rest at the gate, or in its call.
LEMMA GateRests ==
  ASSUME NEW x \in TabStates, NEW n \in Nat, Issued(x, n)
  PROVE  LET y == [x EXCEPT !.gate = AtRest]
         IN  /\ y \in TabStates /\ Issued(y, n)
             /\ y.gate.step = "none" /\ y.call = x.call
             /\ y.token = x.token /\ y.shown = x.shown
  <1>1. AtRest \in Gates /\ AtRest.step = "none"
    BY GatesMade DEF AtRest
  <1>2. QED
    BY <1>1 DEF TabStates, Issued, Signing, OnTheWay, Leaving

LEMMA CallRests ==
  ASSUME NEW x \in TabStates, NEW n \in Nat, Issued(x, n)
  PROVE  LET y == [x EXCEPT !.call = AtRest]
         IN  /\ y \in TabStates /\ Issued(y, n)
             /\ y.call.step = "none" /\ y.gate = x.gate
             /\ y.token = x.token /\ y.shown = x.shown
  <1>1. AtRest \in ApiCalls /\ AtRest.step = "none"
    BY CallsMade DEF AtRest
  <1>2. QED
    BY <1>1 DEF TabStates, Issued

LEMMA PostedForm ==
  ASSUME NEW way \in Ways \ {"cookie"}, NEW p \in People, NEW n \in Nat
  PROVE  LET g == Posted(way, p)
         IN  g \in Gates /\ g.step = "posted" /\ g.way # "cookie" /\ g.cookie <= n
  <1>1. Posted(way, p) \in [step : OnTheWay, way : Ways, who : People, cookie : Cookies]
    BY MaxGrantsAssumption DEF Posted, OnTheWay, Signing, Cookies, NoCookie
  <1>2. QED
    BY <1>1, GatesMade DEF Posted, NoCookie

LEMMA LoadPageHandled ==
  ASSUME SignInv, NEW t \in Tabs, LoadPage(t)
  PROVE  Handled(t)
  <1> DEFINE g == IF browser.method # "web3" /\ browser.magic # NoOne
                  THEN Posted("reload", browser.magic)
                  ELSE [step |-> "restoring", cookie |-> browser.cookie]
             x == [Blank EXCEPT !.gate = g]
  <1>1. tab' = [tab EXCEPT ![t] = x] /\ UNCHANGED <<grants, revoked, browser>>
    BY DEF LoadPage
  <1>2. /\ browser \in Browsers /\ browser.cookie <= Len(grants) /\ browser.cookie \in Nat
        /\ Len(grants) \in Nat
    BY OneTab
  <1>3. g \in Gates /\ \/ g.step = "posted" /\ g.way # "cookie" /\ g.cookie <= Len(grants)
                          /\ browser.magic # NoOne
                       \/ g = [step |-> "restoring", cookie |-> browser.cookie]
    <2>1. CASE browser.method # "web3" /\ browser.magic # NoOne
      <3>1. browser.magic \in People /\ "reload" \in Ways \ {"cookie"}
        BY <1>2, <2>1 DEF Browsers, People, Ways
      <3>2. QED
        BY <1>2, <2>1, <3>1, PostedForm
    <2>2. CASE ~(browser.method # "web3" /\ browser.magic # NoOne)
      <3>1. [step |-> "restoring", cookie |-> browser.cookie] \in Gates
        BY <1>2, GatesMade DEF Browsers
      <3>2. QED
        BY <2>2, <3>1
    <2>3. QED
      BY <2>1, <2>2
  <1> HIDE DEF g
  <1>4. /\ x \in TabStates /\ x.gate = g /\ x.call = Blank.call /\ x.token = Blank.token
        /\ x.shown = Blank.shown
    BY <1>3, BlankIsTab DEF TabStates
  <1> HIDE DEF x
  <1>5. Issued(x, Len(grants))
    BY <1>2, <1>3, <1>4, BlankIsTab DEF Issued, Signing, OnTheWay, Leaving
  <1>6. SignedOut => AddsNothing(tab[t], x)
    <2>1. SUFFICES ASSUME SignedOut PROVE AddsNothing(tab[t], x)
      OBVIOUS
    <2>2. Refreshed(browser.cookie) = NoOne /\ browser.magic = NoOne
      BY <2>1, NobodyReturns
    <2>3. g = [step |-> "restoring", cookie |-> browser.cookie]
      BY <1>3, <2>2
    <2>4. NoneComing(x) /\ x.gate.step = "restoring"
      BY <1>4, <2>2, <2>3, BlankIsTab DEF NoneComing
    <2>5. QED
      BY <1>1, <1>4, <2>2, <2>4, BlankIsTab DEF AddsNothing, Showing, Signing
  <1>7. TabBecomes(t, x)
    BY <1>1, <1>4, <1>5 DEF TabBecomes
  <1>8. QED
    BY <1>1, <1>6, <1>7, ServerRests, BrowserRests DEF Handled

LEMMA SendFormHandled ==
  ASSUME SignInv, NEW t \in Tabs, NEW way \in Ways, NEW p \in People, SendForm(t, way, p)
  PROVE  Handled(t)
  <1> DEFINE g == Posted(way, p)
             x == [tab[t] EXCEPT !.gate = g]
  <1>1. /\ tab' = [tab EXCEPT ![t].gate = g] /\ tab[t].gate.step = "none"
        /\ UNCHANGED <<grants, revoked>>
        /\ \/ browser' = [browser EXCEPT !.magic = p] /\ p \in Members
           \/ browser' = browser
        /\ way # "cookie"
    BY DEF SendForm, AtGate
  <1>2. /\ tab[t] \in TabStates /\ tab \in [Tabs -> TabStates] /\ Issued(tab[t], Len(grants))
        /\ browser \in Browsers /\ browser.cookie <= Len(grants) /\ Len(grants) \in Nat
    BY OneTab
  <1>3. g \in Gates /\ g.step = "posted" /\ g.way # "cookie" /\ g.cookie <= Len(grants)
    BY <1>1, <1>2, PostedForm
  <1> HIDE DEF g
  <1>4. /\ tab' = [tab EXCEPT ![t] = x] /\ x \in TabStates /\ x.gate = g
        /\ x.call = tab[t].call /\ x.token = tab[t].token /\ x.shown = tab[t].shown
    BY <1>1, <1>2, <1>3 DEF TabStates
  <1> HIDE DEF x
  <1>5. Issued(x, Len(grants))
    BY <1>2, <1>3, <1>4 DEF Issued, Leaving
  <1>6. BrowserKept
    BY <1>1, <1>2 DEF BrowserKept, Browsers
  <1>7. AddsNothing(tab[t], x)
    BY <1>1, <1>3, <1>4 DEF AddsNothing, PostsForm, Showing
  <1>8. TabBecomes(t, x)
    BY <1>1, <1>4, <1>5 DEF TabBecomes
  <1>9. QED
    BY <1>1, <1>6, <1>7, <1>8, ServerRests DEF Handled

LEMMA GrantHandled ==
  ASSUME SignInv, NEW t \in Tabs, Grant(t)
  PROVE  Handled(t)
  <1> DEFINE g == [tab[t].gate EXCEPT !.step = "granted", !.cookie = Len(grants) + 1]
             x == [tab[t] EXCEPT !.gate = g]
  <1>1. /\ tab' = [tab EXCEPT ![t].gate.step = "granted", ![t].gate.cookie = Len(grants) + 1]
        /\ tab[t].gate.step = "posted" /\ Len(grants) < MaxGrants
        /\ grants' = Append(grants, tab[t].gate.who)
        /\ UNCHANGED <<revoked, browser>>
    BY DEF Grant, AtGate
  <1>2. /\ tab[t] \in TabStates /\ tab \in [Tabs -> TabStates] /\ Issued(tab[t], Len(grants))
        /\ browser \in Browsers /\ browser.cookie <= Len(grants) /\ browser.cookie \in Nat
        /\ grants \in Seq(People) /\ Len(grants) \in 0..MaxGrants
        /\ tab[t].gate \in Gates /\ tab[t].call \in ApiCalls
    BY OneTab
  <1>3. tab[t].gate \in [step : OnTheWay, way : Ways, who : People, cookie : Cookies]
    BY <1>1, <1>2, GateForms DEF OnTheWay, Signing
  <1>4. /\ grants' \in Seq(People) /\ Len(grants') = Len(grants) + 1
        /\ \A n \in 1..Len(grants) : grants'[n] = grants[n]
    BY <1>1, <1>2, <1>3
  <1>5. ServerGrows
    <2>1. Len(grants') <= MaxGrants /\ Len(grants) <= Len(grants') /\ revoked' = revoked
      BY <1>1, <1>2, <1>4, MaxGrantsAssumption
    <2>2. revoked' \subseteq 1..Len(grants')
      BY <1>2, <1>4, <2>1 DEF SignInv
    <2>3. QED
      BY <1>4, <2>1, <2>2 DEF ServerGrows
  <1>6. Len(grants) + 1 \in Cookies
    BY <1>1, <1>2, MaxGrantsAssumption DEF Cookies
  <1>7. g \in Gates /\ g.step = "granted" /\ g.way = tab[t].gate.way /\ g.cookie = Len(grants')
    <2>1. g \in [step : OnTheWay, way : Ways, who : People, cookie : Cookies]
      BY <1>3, <1>6 DEF OnTheWay, Signing
    <2>2. QED
      BY <1>3, <1>4, <2>1, GatesMade
  <1>8. /\ tab' = [tab EXCEPT ![t] = x] /\ x \in TabStates /\ x.gate = g /\ x.call = tab[t].call
    <2>1. tab' = [tab EXCEPT ![t] = x]
      BY <1>1, <1>2, <1>3 DEF TabStates
    <2>2. QED
      BY <1>2, <1>7, <2>1 DEF TabStates
  <1> HIDE DEF g, x
  <1>9. Issued(x, Len(grants'))
    <2>1. tab[t].gate.way # "cookie" /\ Len(grants') \in Nat
      BY <1>1, <1>2, <1>4 DEF Issued, Signing
    <2>2. tab[t].call.step = "refreshing" => tab[t].call.cookie \in Nat
      BY <1>2, CallForms, MaxGrantsAssumption DEF Cookies
    <2>3. QED
      BY <1>2, <1>4, <1>7, <1>8, <2>1, <2>2 DEF Issued, Leaving
  <1>10. BrowserKept
    BY <1>1, <1>2, <1>4 DEF BrowserKept
  <1>11. ~SignedOut
    BY <1>1, NobodyReturns DEF Signing
  <1>12. QED
    BY <1>5, <1>8, <1>9, <1>10, <1>11 DEF Handled, TabBecomes

LEMMA EnterHandled ==
  ASSUME SignInv, NEW t \in Tabs, Enter(t)
  PROVE  Handled(t)
  <1> DEFINE old == tab[t].gate
             g == [old EXCEPT !.step = "profile"]
             x == [tab[t] EXCEPT !.token = NewToken(old.who), !.method = StoredMethod(old.way),
                                 !.gate = g]
  <1>1. /\ tab' = [tab EXCEPT ![t].token = NewToken(old.who), ![t].method = StoredMethod(old.way),
                              ![t].gate.step = "profile"]
        /\ old.step = "granted"
        /\ browser' = [browser EXCEPT !.cookie = old.cookie, !.method = StoredMethod(old.way)]
        /\ UNCHANGED <<grants, revoked>>
    BY DEF Enter, AtGate
  <1>2. /\ tab[t] \in TabStates /\ tab \in [Tabs -> TabStates] /\ Issued(tab[t], Len(grants))
        /\ browser \in Browsers /\ old \in Gates
    BY OneTab
  <1>3. /\ old \in [step : OnTheWay, way : Ways, who : People, cookie : Cookies]
        /\ old.way # "cookie" /\ old.cookie <= Len(grants)
    BY <1>1, <1>2, GateForms DEF OnTheWay, Signing, Issued
  <1>4. StoredMethod(old.way) \in Methods
    BY <1>3 DEF StoredMethod, Ways, Methods
  <1>5. NewToken(old.who) \in AccessTokens
    BY <1>3 DEF NewToken, AccessTokens
  <1>6. g \in Gates /\ g.step = "profile" /\ g.cookie = old.cookie
    <2>1. g \in [step : OnTheWay, way : Ways, who : People, cookie : Cookies]
      BY <1>3 DEF OnTheWay
    <2>2. QED
      BY <1>3, <2>1, GatesMade
  <1>7. /\ tab' = [tab EXCEPT ![t] = x] /\ x \in TabStates /\ x.gate = g /\ x.call = tab[t].call
    <2>1. tab' = [tab EXCEPT ![t] = x]
      BY <1>1, <1>2, <1>3 DEF TabStates
    <2>2. QED
      BY <1>2, <1>4, <1>5, <1>6, <2>1 DEF TabStates
  <1>8. Issued(x, Len(grants))
    <2> HIDE DEF g, x
    <2>1. QED
      BY <1>2, <1>3, <1>6, <1>7 DEF Issued, Signing
  <1>9. BrowserKept
    BY <1>1, <1>2, <1>3, <1>4 DEF BrowserKept, Browsers
  <1>10. ~SignedOut
    BY <1>1, NobodyReturns DEF Signing
  <1> HIDE DEF x
  <1>11. QED
    BY <1>1, <1>7, <1>8, <1>9, <1>10, ServerRests DEF Handled, TabBecomes

\* A tab whose way in has ended: it shows whom it came to show, or gave up.
LEMMA ShowProfileHandled ==
  ASSUME SignInv, NEW t \in Tabs, ShowProfile(t)
  PROVE  Handled(t)
  <1> DEFINE old == tab[t].gate
             y == [tab[t] EXCEPT !.shown = old.who]
             x == [y EXCEPT !.gate = AtRest]
  <1>1. /\ tab' = [tab EXCEPT ![t].shown = old.who, ![t].gate = AtRest]
        /\ old.step = "profile" /\ UNCHANGED <<grants, revoked, browser>>
    BY DEF ShowProfile, AtGate
  <1>2. /\ tab[t] \in TabStates /\ tab \in [Tabs -> TabStates] /\ Issued(tab[t], Len(grants))
        /\ Len(grants) \in Nat /\ old \in Gates
    BY OneTab
  <1>3. old.who \in People
    BY <1>1, <1>2, GateForms DEF OnTheWay
  <1>4. /\ y \in TabStates /\ Issued(y, Len(grants)) /\ y.token = tab[t].token
        /\ y.call = tab[t].call
    BY <1>2, <1>3 DEF TabStates, Issued
  <1>5. tab' = [tab EXCEPT ![t] = x]
    BY <1>1, <1>2 DEF TabStates
  <1> HIDE DEF y
  <1>6. /\ x \in TabStates /\ Issued(x, Len(grants)) /\ x.gate.step = "none"
        /\ x.call = tab[t].call /\ x.token = tab[t].token
    BY <1>2, <1>4, GateRests
  <1> HIDE DEF x
  <1>7. SignedOut => AddsNothing(tab[t], x)
    <2> SUFFICES ASSUME SignedOut PROVE AddsNothing(tab[t], x)
      OBVIOUS
    <2>1. NoneComing(tab[t]) /\ browser.magic = NoOne
      BY NobodyReturns
    <2>2. NoneComing(x) /\ x.gate.step \notin Signing
      BY <1>6, <2>1 DEF NoneComing, Signing
    <2>3. QED
      BY <1>1, <1>6, <2>1, <2>2 DEF AddsNothing, Showing
  <1>8. QED
    BY <1>1, <1>5, <1>6, <1>7, ServerRests, BrowserRests DEF Handled, TabBecomes

LEMMA FailToEnterHandled ==
  ASSUME SignInv, NEW t \in Tabs, FailToEnter(t)
  PROVE  Handled(t)
  <1> DEFINE old == tab[t].gate
             y == IF old.way \in {"reload", "cookie"} THEN SignedOff(t) ELSE tab[t]
             x == [y EXCEPT !.gate = AtRest]
  <1>1. /\ tab' = [tab EXCEPT ![t] = x] /\ UNCHANGED <<grants, revoked>>
        /\ \/ browser' = [browser EXCEPT !.method = "none", !.magic = NoOne]
           \/ browser' = [browser EXCEPT !.magic = NoOne]
           \/ browser' = browser
    BY DEF FailToEnter
  <1>2. /\ tab[t] \in TabStates /\ Issued(tab[t], Len(grants)) /\ Len(grants) \in Nat
        /\ browser \in Browsers /\ browser.cookie <= Len(grants)
    BY OneTab
  <1>3. /\ y \in TabStates /\ y.call = tab[t].call /\ y.gate = tab[t].gate
        /\ y.token.fresh => tab[t].token.fresh
        /\ y.shown # NoOne => tab[t].shown # NoOne
    BY <1>2, Signed
  <1>4. Issued(y, Len(grants))
    BY <1>2, <1>3 DEF Issued
  <1> HIDE DEF y
  <1>5. /\ x \in TabStates /\ Issued(x, Len(grants)) /\ x.gate.step = "none"
        /\ x.call = tab[t].call /\ x.token = y.token /\ x.shown = y.shown
    BY <1>2, <1>3, <1>4, GateRests
  <1> HIDE DEF x
  <1>6. BrowserKept /\ browser'.cookie = browser.cookie
        /\ (browser.magic = NoOne => browser'.magic = NoOne)
    BY <1>1, <1>2 DEF BrowserKept, Browsers, Methods
  <1>7. SignedOut => AddsNothing(tab[t], x)
    <2> SUFFICES ASSUME SignedOut PROVE AddsNothing(tab[t], x)
      OBVIOUS
    <2>1. NoneComing(tab[t]) /\ browser.magic = NoOne
      BY NobodyReturns
    <2>2. NoneComing(x) /\ x.gate.step \notin Signing
      BY <1>5, <2>1 DEF NoneComing, Signing
    <2>3. QED
      BY <1>3, <1>5, <1>6, <2>1, <2>2 DEF AddsNothing, Showing
  <1>8. QED
    BY <1>1, <1>5, <1>6, <1>7, ServerRests DEF Handled, TabBecomes

\* Whom a refresh token signs in has a row.
LEMMA RefreshedIsMember ==
  ASSUME NEW c
  PROVE  Refreshed(c) \in Members \cup {NoOne}
  BY DEF Refreshed

\* A tab at whose gate something becomes of the request under way.
LEMMA GateAnswered ==
  ASSUME SignInv, NEW t \in Tabs, NEW g \in Gates, tab' = [tab EXCEPT ![t].gate = g],
         g.step \notin Signing, tab[t].gate.step # "profile", g.step # "profile",
         g.step \in {"restoring"} \cup Leaving => g.cookie <= Len(grants),
         ServerGrows, UNCHANGED grants, BrowserKept,
         browser'.cookie = browser.cookie,
         browser.magic = NoOne => browser'.magic = NoOne,
         SignedOut => /\ g.step = "restoring" => Refreshed(g.cookie) = NoOne
                      /\ g.step = "restored" => g.who = NoOne
  PROVE  Handled(t)
  <1> DEFINE x == [tab[t] EXCEPT !.gate = g]
  <1>1. tab[t] \in TabStates /\ tab \in [Tabs -> TabStates] /\ Issued(tab[t], Len(grants))
    BY OneTab
  <1>2. /\ tab' = [tab EXCEPT ![t] = x] /\ x \in TabStates /\ x.gate = g
        /\ x.call = tab[t].call /\ x.token = tab[t].token /\ x.shown = tab[t].shown
    BY <1>1 DEF TabStates
  <1> HIDE DEF x
  <1>3. Issued(x, Len(grants))
    BY <1>1, <1>2 DEF Issued, OnTheWay
  <1>4. SignedOut => AddsNothing(tab[t], x)
    <2> SUFFICES ASSUME SignedOut PROVE AddsNothing(tab[t], x)
      OBVIOUS
    <2>1. NoneComing(tab[t]) /\ browser.magic = NoOne
      BY NobodyReturns
    <2>2. NoneComing(x)
      BY <1>2, <2>1 DEF NoneComing
    <2>3. QED
      BY <1>2, <2>1, <2>2 DEF AddsNothing, Showing
  <1>5. QED
    BY <1>2, <1>3, <1>4 DEF Handled, TabBecomes

LEMMA RestoreHandled ==
  ASSUME SignInv, NEW t \in Tabs, Restore(t)
  PROVE  Handled(t)
  <1> DEFINE g == [step |-> "restored", who |-> Refreshed(tab[t].gate.cookie)]
  <1>1. /\ tab' = [tab EXCEPT ![t].gate = g] /\ tab[t].gate.step = "restoring"
        /\ UNCHANGED <<grants, revoked, browser>>
    BY DEF Restore, AtGate
  <1>2. g \in [step : {"restored"}, who : People \cup {NoOne}]
    BY RefreshedIsMember DEF People
  <1>3. g \in Gates /\ g.step = "restored"
    BY <1>2, GatesMade
  <1>4. SignedOut => g.who = NoOne
    BY <1>1, NobodyReturns DEF NoneComing
  <1> HIDE DEF g
  <1>5. QED
    BY <1>1, <1>3, <1>4, GateAnswered, ServerRests, BrowserRests DEF Signing, Leaving

LEMMA RestoredHandled ==
  ASSUME SignInv, NEW t \in Tabs, Restored(t)
  PROVE  Handled(t)
  <1> DEFINE old == tab[t].gate
  <1>1. /\ tab[t] \in TabStates /\ tab \in [Tabs -> TabStates] /\ Issued(tab[t], Len(grants))
        /\ Len(grants) \in Nat /\ browser \in Browsers /\ browser.cookie <= Len(grants)
        /\ old \in Gates
    BY OneTab
  <1>2. old.step = "restored" /\ old.who \in People \cup {NoOne} /\ UNCHANGED <<grants, revoked>>
    BY <1>1, GateForms DEF Restored, AtGate
  <1>3. CASE /\ old.who # NoOne
             /\ tab' = [tab EXCEPT ![t].token = NewToken(old.who), ![t].method = browser.method,
                    ![t].gate = [step |-> "profile", way |-> "cookie", who |-> old.who,
                                 cookie |-> NoCookie]]
             /\ UNCHANGED browser
    <2> DEFINE g == [step |-> "profile", way |-> "cookie", who |-> old.who, cookie |-> NoCookie]
               x == [tab[t] EXCEPT !.token = NewToken(old.who), !.method = browser.method,
                                   !.gate = g]
    <2>1. NewToken(old.who) \in AccessTokens
      BY <1>2, <1>3 DEF NewToken, AccessTokens
    <2>2. g \in [step : OnTheWay, way : Ways, who : People, cookie : Cookies]
      BY <1>2, <1>3, MaxGrantsAssumption DEF OnTheWay, Ways, Cookies, NoCookie
    <2>3. g \in Gates /\ g.step = "profile" /\ g.cookie = 0
      BY <2>2, GatesMade DEF NoCookie
    <2>4. tab' = [tab EXCEPT ![t] = x]
      BY <1>1, <1>3 DEF TabStates
    <2> HIDE DEF g
    <2>5. x \in TabStates /\ x.gate = g /\ x.call = tab[t].call
      BY <1>1, <2>1, <2>3 DEF TabStates, Browsers
    <2> HIDE DEF x
    <2>6. Issued(x, Len(grants))
      BY <1>1, <2>3, <2>5 DEF Issued, Signing
    <2>7. ~SignedOut
      BY <1>2, <1>3, NobodyReturns DEF NoneComing
    <2>8. QED
      BY <1>2, <1>3, <2>4, <2>5, <2>6, <2>7, ServerRests, BrowserRests DEF Handled, TabBecomes
  <1>4. CASE /\ tab' = [tab EXCEPT ![t] = [SignedOff(t) EXCEPT !.gate = AtRest]]
             /\ browser' = [browser EXCEPT !.method = "none", !.magic = NoOne]
    <2> DEFINE x == [SignedOff(t) EXCEPT !.gate = AtRest]
    <2>1. /\ SignedOff(t) \in TabStates /\ Issued(SignedOff(t), Len(grants))
          /\ SignedOff(t).call = tab[t].call
          /\ SignedOff(t).shown = NoOne /\ ~SignedOff(t).token.fresh
      BY <1>1, Signed DEF Issued
    <2>2. /\ x \in TabStates /\ Issued(x, Len(grants)) /\ x.gate.step = "none"
          /\ x.call = tab[t].call /\ x.shown = NoOne /\ ~x.token.fresh
      BY <1>1, <2>1, GateRests
    <2>3. tab' = [tab EXCEPT ![t] = x]
      BY <1>4
    <2> HIDE DEF x
    <2>4. BrowserKept /\ browser'.magic = NoOne /\ browser'.cookie = browser.cookie
      BY <1>1, <1>2, <1>4 DEF BrowserKept, Browsers, Methods
    <2>5. SignedOut => AddsNothing(tab[t], x)
      BY <2>2, <2>4, NobodyReturns DEF AddsNothing, Showing, Signing, NoneComing
    <2>6. QED
      BY <1>2, <2>2, <2>3, <2>4, <2>5, ServerRests DEF Handled, TabBecomes
  <1>5. QED
    BY <1>3, <1>4 DEF Restored

LEMMA LeaveHandled ==
  ASSUME SignInv, NEW t \in Tabs, Leave(t)
  PROVE  Handled(t)
  <1> DEFINE g == [step |-> "leaving", cookie |-> browser.cookie]
  <1>1. /\ tab' = [tab EXCEPT ![t].gate = g] /\ tab[t].gate.step = "none"
        /\ browser' = [browser EXCEPT !.magic = NoOne] \/ browser' = browser
        /\ UNCHANGED <<grants, revoked>>
    BY DEF Leave, AtGate
  <1>2. browser \in Browsers /\ browser.cookie <= Len(grants)
    BY OneTab
  <1>3. g \in [step : Leaving, cookie : Cookies]
    BY <1>2 DEF Leaving, Browsers
  <1>4. g \in Gates /\ g.step = "leaving" /\ g.cookie <= Len(grants)
    BY <1>2, <1>3, GatesMade
  <1>5. /\ BrowserKept /\ browser'.cookie = browser.cookie
        /\ browser.magic = NoOne => browser'.magic = NoOne
    BY <1>1, <1>2 DEF BrowserKept, Browsers
  <1> HIDE DEF g
  <1>6. QED
    BY <1>1, <1>4, <1>5, GateAnswered, ServerRests DEF Signing

LEMMA RevokeHandled ==
  ASSUME SignInv, NEW t \in Tabs, Revoke(t)
  PROVE  Handled(t)
  <1> DEFINE old == tab[t].gate
             g == [old EXCEPT !.step = "left"]
  <1>1. /\ tab' = [tab EXCEPT ![t].gate.step = "left"] /\ old.step = "leaving"
        /\ revoked' = IF old.cookie = NoCookie THEN revoked ELSE revoked \cup {old.cookie}
        /\ UNCHANGED <<grants, browser>>
    BY DEF Revoke, AtGate
  <1>2. /\ tab[t] \in TabStates /\ tab \in [Tabs -> TabStates] /\ Issued(tab[t], Len(grants))
        /\ Len(grants) \in 0..MaxGrants /\ grants \in Seq(People) /\ old \in Gates
    BY OneTab
  <1>3. old \in [step : Leaving, cookie : Cookies] /\ old.cookie <= Len(grants)
    BY <1>1, <1>2, GateForms DEF Leaving, Issued
  <1>4. g \in Gates /\ g.step = "left" /\ g.cookie = old.cookie
    <2>1. g \in [step : Leaving, cookie : Cookies]
      BY <1>3 DEF Leaving
    <2>2. QED
      BY <1>3, <2>1, GatesMade
  <1>5. tab' = [tab EXCEPT ![t].gate = g]
    BY <1>1, <1>2 DEF TabStates
  <1>6. ServerGrows
    <2>1. old.cookie = NoCookie \/ old.cookie \in 1..Len(grants)
      BY <1>2, <1>3, MaxGrantsAssumption DEF Cookies, NoCookie
    <2>2. revoked \subseteq revoked' /\ revoked' \subseteq 1..Len(grants)
      BY <1>1, <2>1 DEF SignInv
    <2>3. QED
      BY <1>1, <1>2, <2>2, MaxGrantsAssumption DEF ServerGrows
  <1> HIDE DEF g
  <1>7. QED
    BY <1>1, <1>3, <1>4, <1>5, <1>6, GateAnswered, BrowserRests DEF Signing

LEMMA ForgetHandled ==
  ASSUME SignInv, NEW t \in Tabs, Forget(t)
  PROVE  Handled(t)
  <1> DEFINE x == [SignedOff(t) EXCEPT !.gate = AtRest]
  <1>1. /\ tab' = [tab EXCEPT ![t] = x] /\ UNCHANGED <<grants, revoked>>
        /\ \/ browser' = [browser EXCEPT !.cookie = NoCookie, !.method = "none"]
           \/ browser' = [browser EXCEPT !.method = "none"]
    BY DEF Forget
  <1>2. /\ tab[t] \in TabStates /\ Issued(tab[t], Len(grants)) /\ Len(grants) \in Nat
        /\ browser \in Browsers /\ browser.cookie <= Len(grants)
    BY OneTab
  <1>3. /\ SignedOff(t) \in TabStates /\ Issued(SignedOff(t), Len(grants))
        /\ SignedOff(t).call = tab[t].call
        /\ SignedOff(t).shown = NoOne /\ ~SignedOff(t).token.fresh
    BY <1>2, Signed DEF Issued
  <1>4. /\ x \in TabStates /\ Issued(x, Len(grants)) /\ x.gate.step = "none"
        /\ x.call = tab[t].call /\ x.shown = NoOne /\ ~x.token.fresh
    BY <1>2, <1>3, GateRests
  <1> HIDE DEF x
  <1>5. /\ BrowserKept /\ browser'.magic = browser.magic
        /\ browser'.cookie \in {NoCookie, browser.cookie}
    <2>1. NoCookie \in Cookies /\ NoCookie <= Len(grants) /\ "none" \in Methods
      BY <1>2, MaxGrantsAssumption DEF NoCookie, Cookies, Methods
    <2>2. /\ browser' \in Browsers /\ browser'.magic = browser.magic
          /\ browser'.cookie \in {NoCookie, browser.cookie}
      BY <1>1, <1>2, <2>1 DEF Browsers
    <2>3. QED
      BY <1>1, <1>2, <2>1, <2>2 DEF BrowserKept
  <1>6. SignedOut => AddsNothing(tab[t], x)
    BY <1>4, <1>5, NobodyReturns DEF AddsNothing, Showing, Signing, NoneComing
  <1>7. QED
    BY <1>1, <1>4, <1>5, <1>6, ServerRests DEF Handled, TabBecomes

\* A tab in whose call something becomes of the request under way.
LEMMA CallAnswered ==
  ASSUME SignInv, NEW t \in Tabs, NEW c \in ApiCalls, tab' = [tab EXCEPT ![t].call = c],
         c.step = "refreshing" => c.cookie <= Len(grants),
         UNCHANGED <<grants, revoked, browser>>,
         SignedOut => /\ c.step = "refreshing" => Refreshed(c.cookie) = NoOne
                      /\ c.step = "refreshed" => c.who = NoOne
  PROVE  Handled(t)
  <1> DEFINE x == [tab[t] EXCEPT !.call = c]
  <1>1. tab[t] \in TabStates /\ tab \in [Tabs -> TabStates] /\ Issued(tab[t], Len(grants))
    BY OneTab
  <1>2. /\ tab' = [tab EXCEPT ![t] = x] /\ x \in TabStates /\ x.call = c
        /\ x.gate = tab[t].gate /\ x.token = tab[t].token /\ x.shown = tab[t].shown
    BY <1>1 DEF TabStates
  <1> HIDE DEF x
  <1>3. Issued(x, Len(grants))
    BY <1>1, <1>2 DEF Issued
  <1>4. SignedOut => AddsNothing(tab[t], x)
    <2> SUFFICES ASSUME SignedOut PROVE AddsNothing(tab[t], x)
      OBVIOUS
    <2>1. NoneComing(tab[t]) /\ browser.magic = NoOne /\ tab[t].gate.step \notin Signing
      BY NobodyReturns
    <2>2. NoneComing(x)
      BY <1>2, <2>1 DEF NoneComing
    <2>3. QED
      BY <1>2, <2>1, <2>2 DEF AddsNothing, Showing
  <1>5. QED
    BY <1>2, <1>3, <1>4, ServerRests, BrowserRests DEF Handled, TabBecomes

LEMMA SentCallIsCall ==
  ASSUME NEW token \in AccessTokens, NEW again \in BOOLEAN
  PROVE  SentCall(token, again) \in ApiCalls /\ SentCall(token, again).step = "sent"
  <1>1. SentCall(token, again) \in [step : {"sent"}, token : AccessTokens, again : BOOLEAN]
    BY DEF SentCall
  <1>2. QED
    BY <1>1, CallsMade

LEMMA SendCallHandled ==
  ASSUME SignInv, NEW t \in Tabs, SendCall(t)
  PROVE  Handled(t)
  <1> DEFINE c == SentCall(tab[t].token, FALSE)
  <1>1. c \in ApiCalls /\ c.step = "sent"
    BY OneTab, SentCallIsCall
  <1>2. tab' = [tab EXCEPT ![t].call = c] /\ UNCHANGED <<grants, revoked, browser>>
    BY DEF SendCall
  <1> HIDE DEF c
  <1>3. QED
    BY <1>1, <1>2, CallAnswered

LEMMA AnswerCallHandled ==
  ASSUME SignInv, NEW t \in Tabs, AnswerCall(t)
  PROVE  Handled(t)
  <1> DEFINE old == tab[t].call
             asked == [step |-> "refreshing", cookie |-> browser.cookie]
             c == IF Accepted(old.token) \/ old.again THEN AtRest ELSE asked
  <1>1. tab' = [tab EXCEPT ![t].call = c] /\ UNCHANGED <<grants, revoked, browser>>
    BY DEF AnswerCall
  <1>2. browser \in Browsers /\ browser.cookie <= Len(grants)
    BY OneTab
  <1>3. asked \in ApiCalls /\ AtRest \in ApiCalls /\ AtRest.step = "none"
    BY <1>2, CallsMade DEF Browsers, AtRest
  <1>4. c = AtRest \/ c = asked
    OBVIOUS
  <1>5. SignedOut => Refreshed(asked.cookie) = NoOne
    BY NobodyReturns
  <1> HIDE DEF c
  <1>6. QED
    BY <1>1, <1>2, <1>3, <1>4, <1>5, CallAnswered

LEMMA RefreshHandled ==
  ASSUME SignInv, NEW t \in Tabs, Refresh(t)
  PROVE  Handled(t)
  <1> DEFINE c == [step |-> "refreshed", who |-> Refreshed(tab[t].call.cookie)]
  <1>1. /\ tab' = [tab EXCEPT ![t].call = c] /\ tab[t].call.step = "refreshing"
        /\ UNCHANGED <<grants, revoked, browser>>
    BY DEF Refresh, InCall
  <1>2. c \in [step : {"refreshed"}, who : People \cup {NoOne}]
    BY RefreshedIsMember DEF People
  <1>3. c \in ApiCalls /\ c.step = "refreshed"
    BY <1>2, CallsMade
  <1>4. SignedOut => c.who = NoOne
    BY <1>1, NobodyReturns DEF NoneComing
  <1> HIDE DEF c
  <1>5. QED
    BY <1>1, <1>3, <1>4, CallAnswered

LEMMA UseRefreshedHandled ==
  ASSUME SignInv, NEW t \in Tabs, UseRefreshed(t)
  PROVE  Handled(t)
  <1> DEFINE p == tab[t].call.who
  <1>1. /\ tab[t] \in TabStates /\ tab \in [Tabs -> TabStates] /\ Issued(tab[t], Len(grants))
        /\ Len(grants) \in Nat /\ browser \in Browsers /\ browser.cookie <= Len(grants)
        /\ tab[t].call \in ApiCalls
    BY OneTab
  <1>2. /\ tab[t].call.step = "refreshed" /\ p \in People \cup {NoOne}
        /\ UNCHANGED <<grants, revoked>>
    BY <1>1, CallForms DEF UseRefreshed, InCall
  <1>3. CASE /\ p # NoOne
             /\ tab' = [tab EXCEPT ![t].token = NewToken(p),
                                   ![t].call = SentCall(NewToken(p), TRUE)]
             /\ UNCHANGED browser
    <2> DEFINE token == NewToken(p)
               c == SentCall(token, TRUE)
               x == [tab[t] EXCEPT !.token = token, !.call = c]
    <2>1. token \in AccessTokens
      BY <1>2, <1>3 DEF NewToken, AccessTokens
    <2> HIDE DEF token
    <2>2. c \in ApiCalls /\ c.step = "sent"
      BY <2>1, SentCallIsCall
    <2>3. tab' = [tab EXCEPT ![t] = x]
      BY <1>1, <1>3 DEF TabStates, token
    <2> HIDE DEF c
    <2>4. x \in TabStates /\ x.call = c /\ x.gate = tab[t].gate
      BY <1>1, <2>1, <2>2 DEF TabStates
    <2> HIDE DEF x
    <2>5. Issued(x, Len(grants))
      BY <1>1, <2>2, <2>4 DEF Issued
    <2>6. ~SignedOut
      BY <1>2, <1>3, NobodyReturns DEF NoneComing
    <2>7. QED
      BY <1>2, <1>3, <2>3, <2>4, <2>5, <2>6, ServerRests, BrowserRests DEF Handled, TabBecomes
  <1>4. CASE /\ tab' = [tab EXCEPT ![t] = [SignedOff(t) EXCEPT !.call = AtRest]]
             /\ browser' = [browser EXCEPT !.method = "none"]
    <2> DEFINE x == [SignedOff(t) EXCEPT !.call = AtRest]
    <2>1. /\ SignedOff(t) \in TabStates /\ Issued(SignedOff(t), Len(grants))
          /\ SignedOff(t).gate = tab[t].gate
          /\ SignedOff(t).shown = NoOne /\ ~SignedOff(t).token.fresh
      BY <1>1, Signed DEF Issued
    <2>2. /\ x \in TabStates /\ Issued(x, Len(grants)) /\ x.call.step = "none"
          /\ x.gate = tab[t].gate /\ x.shown = NoOne /\ ~x.token.fresh
      BY <1>1, <2>1, CallRests
    <2>3. tab' = [tab EXCEPT ![t] = x]
      BY <1>4
    <2> HIDE DEF x
    <2>4. BrowserKept /\ browser'.magic = browser.magic /\ browser'.cookie = browser.cookie
      BY <1>1, <1>2, <1>4 DEF BrowserKept, Browsers, Methods
    <2>5. SignedOut => AddsNothing(tab[t], x)
      BY <2>2, <2>4, NobodyReturns DEF AddsNothing, Showing, NoneComing
    <2>6. QED
      BY <1>2, <2>2, <2>3, <2>4, <2>5, ServerRests DEF Handled, TabBecomes
  <1>5. QED
    BY <1>3, <1>4 DEF UseRefreshed

LEMMA TokenExpiresHandled ==
  ASSUME SignInv, NEW t \in Tabs, TokenExpires(t)
  PROVE  Handled(t)
  <1> DEFINE old == tab[t].call
             token == [tab[t].token EXCEPT !.fresh = FALSE]
             c == IF old.step = "sent" THEN [old EXCEPT !.token.fresh = FALSE] ELSE old
             x == [tab[t] EXCEPT !.token = token, !.call = c]
  <1>1. /\ tab[t] \in TabStates /\ tab \in [Tabs -> TabStates] /\ Issued(tab[t], Len(grants))
        /\ tab[t].token \in AccessTokens /\ old \in ApiCalls
    BY OneTab
  <1>2. tab' = [tab EXCEPT ![t] = x] /\ UNCHANGED <<grants, revoked, browser>>
    BY <1>1 DEF TokenExpires, TabStates
  <1>3. token \in AccessTokens /\ ~token.fresh
    BY <1>1 DEF AccessTokens
  <1>4. c \in ApiCalls /\ c.step = old.step /\ (c.step # "sent" => c = old)
    <2>1. CASE old.step = "sent"
      <3>1. old \in [step : {"sent"}, token : AccessTokens, again : BOOLEAN]
        BY <1>1, <2>1, CallForms
      <3>2. [old EXCEPT !.token.fresh = FALSE]
              \in [step : {"sent"}, token : AccessTokens, again : BOOLEAN]
        BY <3>1 DEF AccessTokens
      <3>3. QED
        BY <2>1, <3>2, CallsMade
    <2>2. CASE old.step # "sent"
      BY <1>1, <2>2
    <2>3. QED
      BY <2>1, <2>2
  <1> HIDE DEF token, c
  <1>5. /\ x \in TabStates /\ x.call = c /\ x.gate = tab[t].gate /\ x.shown = tab[t].shown
        /\ x.token = token
    BY <1>1, <1>3, <1>4 DEF TabStates
  <1> HIDE DEF x
  <1>6. Issued(x, Len(grants))
    BY <1>1, <1>4, <1>5 DEF Issued
  <1>7. SignedOut => AddsNothing(tab[t], x)
    <2> SUFFICES ASSUME SignedOut PROVE AddsNothing(tab[t], x)
      OBVIOUS
    <2>1. NoneComing(tab[t]) /\ browser.magic = NoOne /\ tab[t].gate.step \notin Signing
      BY NobodyReturns
    <2>2. NoneComing(x)
      BY <1>4, <1>5, <2>1 DEF NoneComing
    <2>3. QED
      BY <1>2, <1>3, <1>5, <2>1, <2>2 DEF AddsNothing, Showing
  <1>8. QED
    BY <1>2, <1>5, <1>6, <1>7, ServerRests, BrowserRests DEF Handled, TabBecomes

-----------------------------------------------------------------------------
LEMMA SignStepHandled ==
  ASSUME SignInv, SignNext
  PROVE  \E t \in Tabs : Handled(t)
  <1>1. ASSUME NEW t \in Tabs, GateStep(t) PROVE Handled(t)
    BY <1>1, GrantHandled, EnterHandled, ShowProfileHandled, FailToEnterHandled,
       RestoreHandled, RestoredHandled, RevokeHandled, ForgetHandled DEF GateStep
  <1>2. ASSUME NEW t \in Tabs, CallStep(t) PROVE Handled(t)
    BY <1>2, AnswerCallHandled, RefreshHandled, UseRefreshedHandled DEF CallStep
  <1>3. ASSUME NEW t \in Tabs, LoadPage(t) \/ Leave(t) \/ SendCall(t) \/ TokenExpires(t)
        PROVE  Handled(t)
    BY <1>3, LoadPageHandled, LeaveHandled, SendCallHandled, TokenExpiresHandled
  <1>4. ASSUME NEW t \in Tabs, NEW way \in Ways, NEW p \in People, SendForm(t, way, p)
        PROVE  Handled(t)
    BY <1>4, SendFormHandled
  <1>5. QED
    BY <1>1, <1>2, <1>3, <1>4 DEF SignNext

LEMMA SignStarts == SignInit => SignInv
  <1>1. SUFFICES ASSUME SignInit PROVE SignInv
    OBVIOUS
  <1>2. /\ grants = <<>> /\ revoked = {} /\ tab = [t \in Tabs |-> Blank]
        /\ browser = [cookie |-> NoCookie, method |-> "none", magic |-> NoOne]
    BY <1>1 DEF SignInit
  <1>3. grants \in Seq(People) /\ Len(grants) = 0 /\ 0 <= MaxGrants
    BY <1>2, MaxGrantsAssumption
  <1>4. browser \in Browsers /\ browser.cookie = 0
    BY <1>2, MaxGrantsAssumption DEF Browsers, Cookies, NoCookie, Methods
  <1>5. tab \in [Tabs -> TabStates] /\ \A t \in Tabs : Issued(tab[t], Len(grants))
    BY <1>2, <1>3, BlankIsTab
  <1>6. SignTypeOK
    BY <1>2, <1>3, <1>4, <1>5 DEF SignTypeOK, TabStates, Browsers
  <1>7. QED
    BY <1>2, <1>3, <1>4, <1>5, <1>6 DEF SignInv

LEMMA SignStepping == SignInv /\ [SignNext]_signVars => SignInv'
  <1>1. SUFFICES ASSUME SignInv, [SignNext]_signVars PROVE SignInv'
    OBVIOUS
  <1>2. CASE SignNext
    BY <1>1, <1>2, SignStepHandled, OneTabKeeps DEF Handled
  <1>3. CASE UNCHANGED signVars
    BY <1>1, <1>3 DEF signVars, SignInv, SignTypeOK
  <1>4. QED
    BY <1>1, <1>2, <1>3

\* Tokens, cookies and requests of the browser keep their types: what a tab keeps
\* or sends is a refresh token that was issued, or none.
THEOREM SignTypeCorrect == SignSpec => []SignTypeOK
  <1>1. SignInv => SignTypeOK
    BY DEF SignInv
  <1>2. QED
    BY SignStarts, SignStepping, <1>1, PTL DEF SignSpec

\* A token refused once is refused for ever: a sign-out takes nothing back, and
\* what is issued later is not among what was signed out.
LEMMA RefusedForGood ==
  ASSUME SignInv, ServerGrows, NEW c \in Nat, c <= Len(grants), Refreshed(c) = NoOne
  PROVE  Refreshed(c)' = NoOne
  <1>1. CASE c = NoCookie \/ c \in revoked
    BY <1>1 DEF Refreshed, ServerGrows
  <1>2. CASE c # NoCookie /\ c \notin revoked
    <2>1. grants[c] \notin Members
      BY <1>2, NobodyAssumption DEF Refreshed
    <2>2. grants'[c] = grants[c]
      <3>1. c \in 1..Len(grants)
        BY <1>2, MaxGrantsAssumption DEF NoCookie, SignInv, SignTypeOK
      <3>2. QED
        BY <3>1 DEF ServerGrows
    <2>3. QED
      BY <2>1, <2>2 DEF Refreshed
  <1>3. QED
    BY <1>1, <1>2

LEMMA ComesNeither ==
  ASSUME SignInv, ServerGrows, NEW x \in TabStates, Issued(x, Len(grants)), NoneComing(x)
  PROVE  /\ x.gate.step = "restoring" => Refreshed(x.gate.cookie)' = NoOne
         /\ x.gate.step = "restored" => x.gate.who = NoOne
         /\ x.call.step = "refreshing" => Refreshed(x.call.cookie)' = NoOne
         /\ x.call.step = "refreshed" => x.call.who = NoOne
  <1>1. x.gate \in Gates /\ x.call \in ApiCalls
    BY DEF TabStates
  <1>2. ASSUME x.gate.step = "restoring" PROVE Refreshed(x.gate.cookie)' = NoOne
    <2>1. x.gate.cookie \in Nat /\ x.gate.cookie <= Len(grants)
      BY <1>1, <1>2, GateForms, MaxGrantsAssumption DEF Issued, Cookies
    <2>2. QED
      BY <1>2, <2>1, RefusedForGood DEF NoneComing
  <1>3. ASSUME x.call.step = "refreshing" PROVE Refreshed(x.call.cookie)' = NoOne
    <2>1. x.call.cookie \in Nat /\ x.call.cookie <= Len(grants)
      BY <1>1, <1>3, CallForms, MaxGrantsAssumption DEF Issued, Cookies
    <2>2. QED
      BY <1>3, <2>1, RefusedForGood DEF NoneComing
  <1>4. QED
    BY <1>2, <1>3 DEF NoneComing

LEMMA NothingGranted ==
  ASSUME SignedOut, SignNext
  PROVE  UNCHANGED grants
  <1>1. ASSUME NEW t \in Tabs, GateStep(t) PROVE UNCHANGED grants
    <2>1. ~Grant(t)
      BY NobodyReturns DEF Grant, AtGate, Signing
    <2>2. QED
      BY <1>1, <2>1 DEF GateStep, Enter, ShowProfile, FailToEnter, Restore, Restored, Revoke,
                        Forget
  <1>2. ASSUME NEW t \in Tabs, CallStep(t) PROVE UNCHANGED grants
    BY <1>2 DEF CallStep, AnswerCall, Refresh, UseRefreshed
  <1>3. ASSUME NEW t \in Tabs, LoadPage(t) \/ Leave(t) \/ SendCall(t) \/ TokenExpires(t)
        PROVE  UNCHANGED grants
    BY <1>3 DEF LoadPage, Leave, SendCall, TokenExpires
  <1>4. ASSUME NEW t \in Tabs, NEW way \in Ways, NEW p \in People, SendForm(t, way, p)
        PROVE  UNCHANGED grants
    BY <1>4 DEF SendForm
  <1>5. QED
    BY <1>1, <1>2, <1>3, <1>4 DEF SignNext

\* Nobody comes back: no tab gains a good token or a user to show, and everybody
\* stays signed out until a form is sent.
NobodyComesBack ==
    /\ \A t \in Tabs : /\ tab'[t].token.fresh => tab[t].token.fresh
                       /\ Showing(tab'[t]) => Showing(tab[t])
    /\ SignedOut' \/ \E t \in Tabs : PostsForm(tab[t], tab'[t])

LEMMA SignedOutStep ==
  ASSUME SignInv, SignNext, SignedOut
  PROVE  NobodyComesBack
  <1>1. PICK t \in Tabs : Handled(t)
    BY SignStepHandled
  <1>2. PICK x : /\ TabBecomes(t, x) /\ ServerGrows /\ BrowserKept
                 /\ AddsNothing(tab[t], x)
    BY <1>1 DEF Handled
  <1>3. \A o \in Tabs : tab'[o] = IF o = t THEN x ELSE tab[o]
    BY <1>2, OneTab DEF TabBecomes
  <1>4. \A o \in Tabs : /\ tab'[o].token.fresh => tab[o].token.fresh
                        /\ Showing(tab'[o]) => Showing(tab[o])
    BY <1>2, <1>3 DEF AddsNothing
  <1>5. CASE PostsForm(tab[t], x)
    BY <1>3, <1>4, <1>5 DEF NobodyComesBack
  <1>6. CASE ~PostsForm(tab[t], x)
    <2>1. /\ x.gate.step \notin Signing /\ NoneComing(x)
          /\ browser'.magic = NoOne /\ browser'.cookie \in {NoCookie, browser.cookie}
      BY <1>2, <1>6 DEF AddsNothing
    <2>2. Issued(x, Len(grants)) /\ x \in TabStates
      BY <1>2, NothingGranted DEF TabBecomes
    <2>3. Refreshed(browser.cookie)' = NoOne
      <3>1. PICK c : c = browser'.cookie
        OBVIOUS
      <3>2. c \in Nat /\ c <= Len(grants) /\ Refreshed(c) = NoOne
        BY <1>1, <2>1, <3>1, OneTab, NobodyReturns DEF NoCookie, Refreshed
      <3>3. Refreshed(c)' = NoOne
        BY <1>2, <3>2, RefusedForGood
      <3>4. QED
        BY <3>1, <3>3 DEF Refreshed
    <2>4. ASSUME NEW o \in Tabs PROVE NoneComing(tab[o])' /\ ~Entering(o)'
      <3>1. PICK y : y = tab'[o]
        OBVIOUS
      <3>2. /\ y \in TabStates /\ Issued(y, Len(grants)) /\ NoneComing(y)
            /\ y.gate.step \notin Signing
        BY <1>3, <2>1, <2>2, <3>1, OneTab, NobodyReturns
      <3>3. NoneComing(y)'
        BY <1>2, <3>2, ComesNeither DEF NoneComing
      <3>4. NoneComing(tab[o])'
        BY <3>1, <3>3 DEF NoneComing, Refreshed
      <3>5. QED
        BY <3>1, <3>2, <3>4 DEF Entering, Signing
    <2>5. SignedOut'
      BY <2>1, <2>3, <2>4 DEF SignedOut, AllSignedOut
    <2>6. QED
      BY <1>4, <2>5 DEF NobodyComesBack
  <1>7. QED
    BY <1>5, <1>6

\* Once everybody is signed out -- the refresh token revoked or gone, no session
\* with Magic, no refresh under way that can succeed -- nobody comes back by stale
\* answers or by reloading: that takes a form to be sent.
THEOREM SignedOutForGood == SignSpec => [][SignedOut => NobodyComesBack]_signVars
  <1>1. SignInv /\ [SignNext]_signVars => [SignedOut => NobodyComesBack]_signVars
    BY SignedOutStep
  <1>2. QED
    BY SignStarts, SignStepping, <1>1, PTL DEF SignSpec
=============================================================================
