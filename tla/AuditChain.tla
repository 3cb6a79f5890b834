----------------------------- MODULE AuditChain -----------------------------
(***************************************************************************)
(* The hash-chained audit trail and the compliance records, as the event   *)
(* handlers write them: every handler has a database session of its own,   *)
(* appends its event under an advisory lock, and, after a release, writes  *)
(* the FEMA and GST records.  Errors are logged and swallowed.             *)
(***************************************************************************)
EXTENDS Integers, Sequences

CONSTANTS Chains,      \* escrow ids, and session ids for agreed sessions
          Procs,       \* handlers in flight
          NoProc,
          NoEvent,
          Kinds,       \* event types
          Released,    \* "EscrowReleased"
          Keys, KeyOf, \* advisory lock keys: half of the id
          MaxEntries   \* bound of the model: no event once a chain is as long

ASSUME KeyOfAssumption == KeyOf \in [Chains -> Keys]
ASSUME ReleasedAssumption == Released \in Kinds
ASSUME MaxEntriesAssumption == MaxEntries \in Nat
ASSUME NoProcAssumption == NoProc \notin Procs
ASSUME NoEventAssumption == NoEvent \notin [chain : Chains, kind : Kinds]

VARIABLES
    rows,     \* rows[c]: the audit_entries of c, in the order of insertion
    trigger,  \* has the database the trigger of migration 025?
    fema,     \* ids with a FEMA record
    gst,      \* ids with a GST record
    handler,  \* handler[p]: the handler's event and how far it is
    lock      \* lock[k]: holder of the advisory lock

vars == <<rows, trigger, fema, gst, handler, lock>>

-----------------------------------------------------------------------------
\* AuditHasher: an ideal hash of an entry is the content it commits to, which
\* is all the entries up to it; the payload holds the id, so the id is part.
Content == [chain : Chains, kind : Kinds]
GENESIS_HASH == <<>>
compute(prev, content) == Append(prev, content)

Entry == [seq : Nat, content : Content, prev : Seq(Content), hash : Seq(Content)]

\* Mutant: the entry is linked to its predecessor's predecessor.
CreateSkipping(seq, content, prev) ==
    [seq |-> seq, content |-> content, hash |-> compute(prev, content),
     prev |-> IF prev = GENESIS_HASH THEN prev ELSE SubSeq(prev, 1, Len(prev) - 1)]

create(seq, content, prev) ==
    [seq |-> seq, content |-> content, prev |-> prev, hash |-> compute(prev, content)]

\* get_latest: ORDER BY sequence_no DESC LIMIT 1.
get_latest(entries) ==
    entries[CHOOSE i \in DOMAIN entries : \A j \in DOMAIN entries :
                entries[j].seq <= entries[i].seq]

\* Mutant: numbering starts below zero.
NextSeqBelow(entries) == IF entries = <<>> THEN -1 ELSE get_latest(entries).seq + 1

NextSeq(entries) == IF entries = <<>> THEN 0 ELSE get_latest(entries).seq + 1
PrevHash(entries) == IF entries = <<>> THEN GENESIS_HASH ELSE get_latest(entries).hash

\* AuditChainVerifier.verify: by ascending sequence number, every entry hashes
\* its own content and links to the entry before it.
Before(entries, i) == {j \in DOMAIN entries : entries[j].seq < entries[i].seq}
verify(entries) ==
    \A i \in DOMAIN entries :
        /\ entries[i].hash = compute(entries[i].prev, entries[i].content)
        /\ IF Before(entries, i) = {} THEN entries[i].prev = GENESIS_HASH
           ELSE \E j \in Before(entries, i) :
                    /\ entries[i].prev = entries[j].hash
                    /\ \A k \in Before(entries, i) : entries[k].seq <= entries[j].seq

\* The trigger wants the first entry of a chain without any predecessor, NULL
\* or empty, and GENESIS_HASH is neither.
enforce_audit_hash_chain(entries, entry) ==
    entries # <<>> /\ entry.prev = get_latest(entries).hash

\* What the database makes of an insert: trigger and UNIQUE constraints.
Accepts(c, entry) ==
    /\ trigger => enforce_audit_hash_chain(rows[c], entry)
    /\ \A i \in DOMAIN rows[c] : rows[c][i].seq # entry.seq
    /\ \A d \in Chains : \A i \in DOMAIN rows[d] : rows[d][i].hash # entry.hash

-----------------------------------------------------------------------------
Idle == [pc |-> "idle", event |-> NoEvent, seq |-> 0, prev |-> GENESIS_HASH]
Pcs == {"idle", "lock", "read", "insert", "check", "save"}

Init ==
    /\ rows = [c \in Chains |-> <<>>]
    /\ trigger \in BOOLEAN
    /\ fema = {}
    /\ gst = {}
    /\ handler = [p \in Procs |-> Idle]
    /\ lock = [k \in Keys |-> NoProc]

Chain(p) == handler[p].event.chain
Pending(p) == create(handler[p].seq, handler[p].event, handler[p].prev)

\* What ends a transaction also ends the hold on the lock.
Unlocked(p) == [k \in Keys |-> IF lock[k] = p THEN NoProc ELSE lock[k]]

\* publish() awaits the subscribed compliance handler.
Publish(p, e) ==
    /\ handler[p].pc = "idle"
    /\ Len(rows[e.chain]) < MaxEntries
    /\ handler' = [handler EXCEPT ![p].pc = "lock", ![p].event = e]
    /\ UNCHANGED <<rows, trigger, fema, gst, lock>>

acquire_advisory_lock(p) ==
    /\ handler[p].pc = "lock"
    /\ lock[KeyOf[Chain(p)]] = NoProc
    /\ lock' = [lock EXCEPT ![KeyOf[Chain(p)]] = p]
    /\ handler' = [handler EXCEPT ![p].pc = "read"]
    /\ UNCHANGED <<rows, trigger, fema, gst>>

ReadLatest(p) ==
    /\ handler[p].pc = "read"
    /\ handler' = [handler EXCEPT ![p].pc = "insert",
                                  ![p].seq = NextSeq(rows[Chain(p)]),
                                  ![p].prev = PrevHash(rows[Chain(p)])]
    /\ UNCHANGED <<rows, trigger, fema, gst, lock>>

\* Mutant: the handler of a release writes the records whatever became of its
\* entry, and the other handlers do so too.
CommitThenRecord(p) ==
    /\ handler[p].pc = "insert"
    /\ Accepts(Chain(p), Pending(p))
    /\ rows' = [rows EXCEPT ![Chain(p)] = Append(@, Pending(p))]
    /\ lock' = Unlocked(p)
    /\ handler' = [handler EXCEPT ![p].pc = "check"]
    /\ UNCHANGED <<trigger, fema, gst>>

\* Mutant: the handler appends once more after its commit, as a retry would.
CommitAndRetry(p) ==
    /\ handler[p].pc = "insert"
    /\ Accepts(Chain(p), Pending(p))
    /\ rows' = [rows EXCEPT ![Chain(p)] = Append(@, Pending(p))]
    /\ lock' = Unlocked(p)
    /\ handler' = [handler EXCEPT ![p].pc = "lock"]
    /\ UNCHANGED <<trigger, fema, gst>>

\* The flush and the commit of append_audit_event; only the handler of a
\* release goes on.
CommitEntry(p) ==
    /\ handler[p].pc = "insert"
    /\ Accepts(Chain(p), Pending(p))
    /\ rows' = [rows EXCEPT ![Chain(p)] = Append(@, Pending(p))]
    /\ lock' = Unlocked(p)
    /\ handler' = IF handler[p].event.kind = Released
                  THEN [handler EXCEPT ![p].pc = "check"]
                  ELSE [handler EXCEPT ![p] = Idle]
    /\ UNCHANGED <<trigger, fema, gst>>

\* The database refuses the entry: the error ends the handler, records and all.
EntryRefused(p) ==
    /\ handler[p].pc = "insert"
    /\ ~Accepts(Chain(p), Pending(p))
    /\ lock' = Unlocked(p)
    /\ handler' = [handler EXCEPT ![p] = Idle]
    /\ UNCHANGED <<rows, trigger, fema, gst>>

\* generate_compliance_records: nothing to do when both records are there.
CheckRecords(p) ==
    /\ handler[p].pc = "check"
    /\ handler' = IF Chain(p) \in fema \cap gst
                  THEN [handler EXCEPT ![p] = Idle]
                  ELSE [handler EXCEPT ![p].pc = "save"]
    /\ UNCHANGED <<rows, trigger, fema, gst, lock>>

\* Both missing records in one transaction; UNIQUE(escrow_id) refuses both when
\* another handler was faster.
SaveRecords(p) ==
    /\ handler[p].pc = "save"
    /\ IF Chain(p) \in fema \cup gst
       THEN UNCHANGED <<fema, gst>>
       ELSE /\ fema' = fema \cup {Chain(p)}
            /\ gst' = gst \cup {Chain(p)}
    /\ handler' = [handler EXCEPT ![p] = Idle]
    /\ UNCHANGED <<rows, trigger, lock>>

\* Mutant: the lock survives the transaction, as a session-level lock would.
CrashKeepsLock(p) ==
    /\ handler[p].pc # "idle"
    /\ handler' = [handler EXCEPT ![p] = Idle]
    /\ UNCHANGED <<rows, trigger, fema, gst, lock>>

\* The worker dies or loses its connection: the transaction is rolled back.
Crash(p) ==
    /\ handler[p].pc # "idle"
    /\ lock' = Unlocked(p)
    /\ handler' = [handler EXCEPT ![p] = Idle]
    /\ UNCHANGED <<rows, trigger, fema, gst>>

\* Migration 025 is applied to the database of a running system.
Migrate ==
    /\ ~trigger
    /\ trigger' = TRUE
    /\ UNCHANGED <<rows, fema, gst, handler, lock>>

HandlerStep(p) ==
    \/ ReadLatest(p)
    \/ CommitEntry(p)
    \/ EntryRefused(p)
    \/ CheckRecords(p)
    \/ SaveRecords(p)

Next ==
    \/ \E p \in Procs :
        \/ \E e \in Content : Publish(p, e)
        \/ acquire_advisory_lock(p)
        \/ HandlerStep(p)
        \/ Crash(p)
    \/ Migrate

Spec == Init /\ [][Next]_vars

\* A handler that is awaited runs on, and the database queues the waiters for a
\* lock in order, so that none waits for ever.
Fairness == \A p \in Procs : WF_vars(HandlerStep(p)) /\ SF_vars(acquire_advisory_lock(p))

FairSpec == Spec /\ Fairness

-----------------------------------------------------------------------------
TypeOK ==
    /\ rows \in [Chains -> Seq(Entry)]
    /\ trigger \in BOOLEAN
    /\ fema \subseteq Chains
    /\ gst \subseteq Chains
    /\ handler \in [Procs -> [pc : Pcs, event : Content \cup {NoEvent}, seq : Nat,
                              prev : Seq(Content)]]
    /\ \A p \in Procs : handler[p].pc # "idle" => handler[p].event \in Content
    /\ lock \in [Keys -> Procs \cup {NoProc}]

\* verify_audit_chain answers "valid" at any moment, with any handlers in flight,
\* and sequence numbers have no gap: the chain neither forks nor breaks.
ChainVerifies ==
    \A c \in Chains :
        /\ verify(rows[c])
        /\ \A i \in DOMAIN rows[c] : rows[c][i].seq = i - 1

\* An append that was prepared under the lock is accepted: the lock and the read
\* after it see to it that no handler's event is lost to a UNIQUE constraint or to
\* the trigger, but for the first entry of a chain under the trigger.
LockedInsertAccepted ==
    \A p \in Procs : handler[p].pc = "insert" =>
        \/ Accepts(Chain(p), Pending(p))
        \/ trigger /\ rows[Chain(p)] = <<>>

\* The tax records come in pairs, and only where the trail holds the release
\* they are about.
RecordsFollowRelease ==
    /\ fema = gst
    /\ \A c \in fema : \E i \in DOMAIN rows[c] : rows[c][i].content.kind = Released

\* The chain implements the plain log: it only grows at its end, by an event some
\* handler holds, once.
Log == INSTANCE AuditLog WITH
    log <- [c \in Chains |-> [i \in DOMAIN rows[c] |-> rows[c][i].content.kind]],
    holding <- [p \in Procs |-> IF handler[p].pc \in {"lock", "read", "insert"}
                                THEN handler[p].event ELSE NoEvent]
LogSpec == Log!LogSpec

\* A handler comes to its end: nobody waits for the lock of a handler that died.
HandlersEnd == \A p \in Procs : handler[p].pc # "idle" ~> handler[p].pc = "idle"
=============================================================================
