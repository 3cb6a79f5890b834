-------------------------- MODULE NegotiationMemory --------------------------
(***************************************************************************)
(* The records that negotiations leave behind for later ones: a handler of *)
(* SessionAgreed and SessionFailed writes a buyer's and a seller's record, *)
(* in a database session of its own, and a script does so for sessions     *)
(* that have none.  An agreement is committed before its event, the end of *)
(* a failed turn only after the handlers have run.  Records of a session   *)
(* are written in pairs; a pair is one entry here.  One operation works on *)
(* a session at a time, as in NegotiationSession without overlap.          *)
(***************************************************************************)
EXTENDS Naturals, Sequences

CONSTANTS Workers,   \* requests and loops that may end a session
          Talks,     \* negotiation sessions
          FinalPrices,
          NoFinalPrice

ASSUME NoFinalPriceAssumption == NoFinalPrice \notin FinalPrices

VARIABLES
    verdict, \* verdict[t]: the session's status and agreed price, as committed
    memory,  \* memory[t]: the pairs of records of session t, as committed
    worker,  \* worker[w]: the operation w is in
    batch,   \* the script: sessions it has yet to see, and pairs it has not committed
    met      \* history: sessions on which script and handler were at work together

memoryVars == <<verdict, memory, worker, batch, met>>

Verdict == [status : {"open", "AGREED", "FAILED", "TIMEOUT", "CLOSED_BY_BUYER"},
            price : FinalPrices \cup {NoFinalPrice}]
Open == [status |-> "open", price |-> NoFinalPrice]

Pair == [outcome : {"AGREED", "REJECTED", "EXPIRED"},
         price : FinalPrices \cup {NoFinalPrice}]

\* `fails`: the status of the session is still to be committed, as FAILED.
Resting == [step |-> "idle"]
AtWork == [step : {"check", "load", "save", "finish"}, talk : Talks,
            outcome : {"AGREED", "REJECTED"}, fails : BOOLEAN,
            price : FinalPrices \cup {NoFinalPrice}]

NoBatch == [step |-> "idle"]
Batch == [step : {"batch"}, left : SUBSET Talks,
          seen : [Talks -> Verdict], held : SUBSET Talks]

MemoryTypeOK ==
    /\ verdict \in [Talks -> Verdict]
    /\ memory \in [Talks -> Seq(Pair)]
    /\ worker \in [Workers -> AtWork \cup {Resting}]
    /\ batch \in Batch \cup {NoBatch}
    /\ met \subseteq Talks

MemoryInit ==
    /\ verdict = [t \in Talks |-> Open]
    /\ memory = [t \in Talks |-> <<>>]
    /\ worker = [w \in Workers |-> Resting]
    /\ batch = NoBatch
    /\ met = {}

-----------------------------------------------------------------------------
WorksAt(w, step) == worker[w].step = step
WorksOn(w, t) == worker[w].step # "idle" /\ worker[w].talk = t
Undisturbed(t) == \A w \in Workers : ~WorksOn(w, t)
Proceed(w, step) == worker' = [worker EXCEPT ![w].step = step]

\* The event is published: its handlers start.
Publish(w, t, outcome, fails) ==
    worker' = [worker EXCEPT ![w] = [step |-> "check", talk |-> t, outcome |-> outcome,
                                     fails |-> fails, price |-> NoFinalPrice]]

MayEnd(w, t) == WorksAt(w, "idle") /\ verdict[t].status = "open" /\ Undisturbed(t)

\* Mutant: the event of an agreement is published before the commit.
AgreeAfterPublishing(w, t) ==
    /\ MayEnd(w, t)
    /\ Publish(w, t, "AGREED", FALSE)
    /\ UNCHANGED <<verdict, memory, batch, met>>

\* _handle_agreement
Agree(w, t) ==
    /\ MayEnd(w, t)
    /\ \E p \in FinalPrices :
          verdict' = [verdict EXCEPT ![t] = [status |-> "AGREED", price |-> p]]
    /\ Publish(w, t, "AGREED", FALSE)
    /\ UNCHANGED <<memory, batch, met>>

\* _handle_walk_away, _handle_policy_breach: the row is written, not committed.
FailTalks(w, t) ==
    /\ MayEnd(w, t)
    /\ Publish(w, t, "REJECTED", TRUE)
    /\ UNCHANGED <<verdict, memory, batch, met>>

\* terminate_session
Terminate(w, t) ==
    /\ MayEnd(w, t)
    /\ verdict' = [verdict EXCEPT ![t].status = "FAILED"]
    /\ Publish(w, t, "REJECTED", FALSE)
    /\ UNCHANGED <<memory, batch, met>>

\* _handle_timeout: SessionExpired has no handler that writes records.
RunOutOfTime(t) ==
    /\ verdict[t].status = "open" /\ Undisturbed(t)
    /\ verdict' = [verdict EXCEPT ![t].status = "TIMEOUT"]
    /\ UNCHANGED <<memory, worker, batch, met>>

\* The buyer confirms another supplier: open sessions and agreed ones are closed,
\* without an event.  (A turn that is about to fail holds the row.)
CloseByBuyer(t) ==
    /\ verdict[t].status \in {"open", "AGREED"}
    /\ \A w \in Workers : ~(WorksOn(w, t) /\ worker[w].fails)
    /\ verdict' = [verdict EXCEPT ![t].status = "CLOSED_BY_BUYER"]
    /\ UNCHANGED <<memory, worker, batch, met>>

-----------------------------------------------------------------------------
\* handle_session_completed_normalize.

\* Mutant: no check for records that are there.
CheckNothing(w) ==
    /\ WorksAt(w, "check")
    /\ Proceed(w, "load")
    /\ UNCHANGED <<verdict, memory, batch, met>>

\* Idempotency: one record found, or the exception raised by more, is the end.
CheckRecords(w) ==
    /\ WorksAt(w, "check")
    /\ LET t == worker[w].talk
       IN  /\ Proceed(w, IF memory[t] = <<>> THEN "load" ELSE "finish")
           /\ met' = IF batch # NoBatch /\ t \in batch.held THEN met \cup {t} ELSE met
    /\ UNCHANGED <<verdict, memory, batch>>

\* The session is read again, by a session that sees what is committed.
LoadSession(w) ==
    /\ WorksAt(w, "load")
    /\ worker' = [worker EXCEPT ![w].step = "save",
                                     ![w].price = verdict[worker[w].talk].price]
    /\ UNCHANGED <<verdict, memory, batch, met>>

\* After a summary by the language model, both records in one commit.
SaveRecords(w) ==
    /\ WorksAt(w, "save")
    /\ memory' = [memory EXCEPT ![worker[w].talk] =
           Append(@, [outcome |-> worker[w].outcome, price |-> worker[w].price])]
    /\ Proceed(w, "finish")
    /\ UNCHANGED <<verdict, batch, met>>

\* An error of the handler is logged.
HandlerFails(w) ==
    /\ worker[w].step \in {"check", "load", "save"}
    /\ Proceed(w, "finish")
    /\ UNCHANGED <<verdict, memory, batch, met>>

\* The operation ends; that of a failed turn commits the session now.
Finish(w) ==
    /\ WorksAt(w, "finish")
    /\ verdict' = IF worker[w].fails
                  THEN [verdict EXCEPT ![worker[w].talk].status = "FAILED"] ELSE verdict
    /\ worker' = [worker EXCEPT ![w] = Resting]
    /\ UNCHANGED <<memory, batch, met>>

Die(w) ==
    /\ ~WorksAt(w, "idle")
    /\ worker' = [worker EXCEPT ![w] = Resting]
    /\ UNCHANGED <<verdict, memory, batch, met>>

-----------------------------------------------------------------------------
\* The script backfill_negotiation_records: a batch of ended sessions, read once.
StartBatch ==
    /\ batch = NoBatch
    /\ LET ended == {t \in Talks : verdict[t].status \in {"AGREED", "FAILED", "TIMEOUT"}}
       IN  /\ ended # {}
           /\ batch' = [step |-> "batch", left |-> ended, seen |-> verdict, held |-> {}]
    /\ UNCHANGED <<verdict, memory, worker, met>>

\* The check of one session.  Its records are made now and committed later; an
\* error skips the session.
BackfillSession(t) ==
    /\ batch # NoBatch
    /\ t \in batch.left
    /\ \E makes \in {memory[t] = <<>>, FALSE} :
          /\ batch' = [batch EXCEPT !.left = @ \ {t},
                                    !.held = IF makes THEN @ \cup {t} ELSE @]
          /\ met' = IF makes /\ \E w \in Workers : /\ WorksOn(w, t)
                                                   /\ worker[w].step \in {"load", "save"}
                    THEN met \cup {t} ELSE met
    /\ UNCHANGED <<verdict, memory, worker>>

\* SESSION_STATUS_TO_OUTCOME
OutcomeOf(status) ==
    CASE status = "AGREED" -> "AGREED" [] status = "TIMEOUT" -> "EXPIRED"
      [] OTHER -> "REJECTED"

CommitBatch ==
    /\ batch # NoBatch
    /\ batch.left = {}
    /\ memory' = [t \in Talks |->
           IF t \in batch.held
           THEN Append(memory[t], [outcome |-> OutcomeOf(batch.seen[t].status),
                                   price |-> batch.seen[t].price])
           ELSE memory[t]]
    /\ batch' = NoBatch
    /\ UNCHANGED <<verdict, worker, met>>

AbortBatch ==
    /\ batch # NoBatch
    /\ batch' = NoBatch
    /\ UNCHANGED <<verdict, memory, worker, met>>

MemoryNext ==
    \/ \E w \in Workers, t \in Talks : Agree(w, t) \/ FailTalks(w, t) \/ Terminate(w, t)
    \/ \E w \in Workers :
          \/ CheckRecords(w) \/ LoadSession(w) \/ SaveRecords(w)
          \/ HandlerFails(w) \/ Finish(w) \/ Die(w)
    \/ \E t \in Talks : RunOutOfTime(t) \/ CloseByBuyer(t) \/ BackfillSession(t)
    \/ StartBatch \/ CommitBatch \/ AbortBatch

MemorySpec == MemoryInit /\ [][MemoryNext]_memoryVars

-----------------------------------------------------------------------------
Pairs(t) == {memory[t][i] : i \in DOMAIN memory[t]}

\* A record that teaches agents of an agreement is of a session that was agreed,
\* at the price of the record: also when a worker dies between event and commit,
\* and when the session was closed by the buyer later.
AgreedRecordsHaveAgreement ==
    \A t \in Talks : \A r \in Pairs(t) :
        r.outcome = "AGREED" =>
            /\ verdict[t].status \in {"AGREED", "CLOSED_BY_BUYER"}
            /\ r.price = verdict[t].price
            /\ r.price # NoFinalPrice

\* A session leaves one pair of records, also when its end is retried after a
\* crash; two only where the script and the handler overlap on it.
OnePairUnlessBackfilled == \A t \in Talks : t \notin met => Len(memory[t]) <= 1
=============================================================================
