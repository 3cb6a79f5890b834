------------------------- MODULE CapabilityEmbedding -------------------------
(***************************************************************************)
(* The capability profile of one seller and its embedding vector           *)
(* (marketplace/application/services.py): a profile edit or a catalogue    *)
(* change schedules a background recompute, debounced by a key in Redis    *)
(* that expires after a minute.  A recompute reads the profile and then    *)
(* the catalogue, asks the language model for the vector, and writes the   *)
(* whole profile back as it was read, with the vector.                     *)
(***************************************************************************)
EXTENDS Naturals, FiniteSets

CONSTANTS Tasks,   \* background recomputes under way
          Editors, \* requests of the seller under way
          Texts,   \* everything a profile says of itself
          RegistrationText, \* what registration makes of it
          BlankText, \* a profile that says nothing
          Goods,   \* catalogue items, as they are embedded
          MaxLapses \* bound of the model

ASSUME TasksAssumption == IsFiniteSet(Tasks)
ASSUME TextsAssumption == RegistrationText \in Texts \ {BlankText}
ASSUME MaxLapsesAssumption == MaxLapses \in Nat

VARIABLES profile,   \* row of capability_profiles, or NoProfile
          catalogue, \* active rows of catalogue_items
          embedding_lock, \* the key exists in Redis
          task,      \* task[t]: the step of the recompute, and what it read
          editor,    \* editor[e]: the step of the request
          registrar, \* the handler of EnterpriseRegistered
          lapses,    \* times the key failed to exclude
          dropped    \* history: a recompute ended without a vector, and none
                     \* has read the catalogue since

embeddingVars == <<profile, catalogue, embedding_lock, task, editor, registrar,
                   lapses, dropped>>

Vector == [text : Texts, goods : SUBSET Goods, by : {"recompute", "registration"}]
NoVector == [text |-> "none"]
Profile == [text : Texts, vector : Vector \cup {NoVector},
            status : {"OUTDATED", "COMPUTING", "ACTIVE", "FAILED"}]
NoProfile == [text |-> "none"]

Task ==
    [step : {"none", "ready", "load", "release"}]
    \cup [step : {"mark", "read"}, text : Texts]
    \cup [step : {"embed"}, text : Texts, goods : SUBSET Goods]
Editor ==
    [step : {"none", "schedule"}]
    \cup [step : {"found", "absent", "written", "inserted"}, text : Texts]
    \cup [step : {"lost"}]
Registrar ==
    [step : {"look", "insert", "read", "done"}]
    \cup [step : {"embed"}, goods : SUBSET Goods]

NoTask == [step |-> "none"]
NoEdit == [step |-> "none"]

EmbeddingTypeOK ==
    /\ profile \in Profile \cup {NoProfile}
    /\ catalogue \subseteq Goods
    /\ embedding_lock \in BOOLEAN
    /\ task \in [Tasks -> Task]
    /\ editor \in [Editors -> Editor]
    /\ registrar \in Registrar
    /\ lapses \in 0..MaxLapses
    /\ dropped \in BOOLEAN

EmbeddingInit ==
    /\ profile = NoProfile
    /\ catalogue = {}
    /\ embedding_lock = FALSE
    /\ task = [t \in Tasks |-> NoTask]
    /\ editor = [e \in Editors |-> NoEdit]
    /\ registrar = [step |-> "look"]
    /\ lapses = 0
    /\ dropped = FALSE

-----------------------------------------------------------------------------
(* Requests of the seller. *)

\* An edit holds the row, or the unique key of an insert, until it commits.
RowLocked == \E e \in Editors : editor[e].step \in {"written", "inserted"}

\* asyncio.create_task in a free slot of the model.
Schedule(t) == task[t] = NoTask /\ task' = [task EXCEPT ![t] = [step |-> "ready"]]

EditorAt(e, step) == editor' = [editor EXCEPT ![e] = step]

\* PUT /v1/marketplace/capability-profile, first reading of the profile.
LookUp(e, text) ==
    /\ editor[e] = NoEdit
    /\ EditorAt(e, [step |-> IF profile = NoProfile THEN "absent" ELSE "found",
                    text |-> text])
    /\ UNCHANGED <<profile, catalogue, embedding_lock, task, registrar, lapses, dropped>>

\* Second reading and flush; the recompute is scheduled before the router
\* commits.  A profile that appeared meanwhile is updated under the id of the
\* new one: no row.
update_capability_profile(e, t) ==
    /\ editor[e].step \in {"found", "absent"}
    /\ ~RowLocked
    /\ Schedule(t)
    /\ EditorAt(e, IF editor[e].step = "found"
                   THEN [step |-> "written", text |-> editor[e].text]
                   ELSE IF profile = NoProfile
                   THEN [step |-> "inserted", text |-> editor[e].text]
                   ELSE [step |-> "lost"])
    /\ UNCHANGED <<profile, catalogue, embedding_lock, registrar, lapses, dropped>>

\* An edit nullifies the vector and leaves its status alone.
CommitEdit(e) ==
    /\ editor[e].step \in {"written", "inserted", "lost"}
    /\ profile' = CASE editor[e].step = "written" ->
                         [profile EXCEPT !.text = editor[e].text, !.vector = NoVector]
                    [] editor[e].step = "inserted" ->
                         [text |-> editor[e].text, vector |-> NoVector, status |-> "OUTDATED"]
                    [] OTHER -> profile
    /\ EditorAt(e, NoEdit)
    /\ UNCHANGED <<catalogue, embedding_lock, task, registrar, lapses, dropped>>

\* The commit of a catalogue request.
CommitGoods(e, goods) ==
    /\ editor[e] = NoEdit
    /\ catalogue' = goods
    /\ EditorAt(e, [step |-> "schedule"])
    /\ UNCHANGED <<profile, embedding_lock, task, registrar, lapses, dropped>>

create_catalogue_item(e, g) == CommitGoods(e, catalogue \cup {g})

bulk_create_catalogue_items(e, goods) == CommitGoods(e, catalogue \cup goods)

\* The item, active or not, says something else.
update_catalogue_item(e, g, h) ==
    CommitGoods(e, IF g \in catalogue THEN (catalogue \ {g}) \cup {h} ELSE catalogue)

deactivate_catalogue_item(e, g) == g \in catalogue /\ CommitGoods(e, catalogue \ {g})

\* Mutant: the request ends without it.
ForgetRecompute(e, t) ==
    /\ editor[e].step = "schedule"
    /\ task[t] = NoTask
    /\ EditorAt(e, NoEdit)
    /\ UNCHANGED <<profile, catalogue, embedding_lock, task, registrar, lapses, dropped>>

\* The task that a catalogue request creates after its commit.
ScheduleRecompute(e, t) ==
    /\ editor[e].step = "schedule"
    /\ Schedule(t)
    /\ EditorAt(e, NoEdit)
    /\ UNCHANGED <<profile, catalogue, embedding_lock, registrar, lapses, dropped>>

\* POST /v1/marketplace/capability-profile/embeddings waits for it.
recompute_embeddings(t) ==
    /\ profile # NoProfile
    /\ Schedule(t)
    /\ UNCHANGED <<profile, catalogue, embedding_lock, editor, registrar, lapses, dropped>>

\* An error, or the worker dies; what was not committed is not done.
FailEditor(e) ==
    /\ editor[e] # NoEdit
    /\ EditorAt(e, NoEdit)
    /\ dropped' = (dropped \/ editor[e].step = "schedule")
    /\ UNCHANGED <<profile, catalogue, embedding_lock, task, registrar, lapses>>

-----------------------------------------------------------------------------
(* The recompute. *)

TaskAt(t, step) == task' = [task EXCEPT ![t] = step]

\* The tasks that count on the lock.
Working == {t \in Tasks : task[t].step \in {"load", "mark", "read", "embed", "release"}}

\* SET NX, or the dict of one worker process while Redis does not answer.
_acquire_embedding_lock(t) ==
    /\ task[t].step = "ready"
    /\ TaskAt(t, [step |-> "load"])
    /\ \/ ~embedding_lock /\ embedding_lock' = TRUE /\ UNCHANGED lapses
       \/ lapses < MaxLapses /\ lapses' = lapses + 1 /\ UNCHANGED embedding_lock
    /\ UNCHANGED <<profile, catalogue, editor, registrar, dropped>>

\* Mutant: the return is inside the try, whose finally releases the lock.
DebounceAndRelease(t) ==
    /\ task[t].step = "ready"
    /\ embedding_lock \/ lapses < MaxLapses
    /\ TaskAt(t, NoTask)
    /\ embedding_lock' = FALSE
    /\ dropped' = TRUE
    /\ UNCHANGED <<profile, catalogue, editor, registrar, lapses>>

\* The key is there, or Redis does not answer and this process has the flag.
Debounce(t) ==
    /\ task[t].step = "ready"
    /\ embedding_lock \/ lapses < MaxLapses
    /\ TaskAt(t, NoTask)
    /\ dropped' = TRUE
    /\ UNCHANGED <<profile, catalogue, embedding_lock, editor, registrar, lapses>>

\* Four readings of a profile that is not there yet, at most.
LoadProfile(t) ==
    /\ task[t].step = "load"
    /\ IF profile = NoProfile
       THEN TaskAt(t, [step |-> "release"]) /\ dropped' = TRUE
       ELSE TaskAt(t, [step |-> "mark", text |-> profile.text]) /\ UNCHANGED dropped
    /\ UNCHANGED <<profile, catalogue, embedding_lock, editor, registrar, lapses>>

MarkComputing(t) ==
    /\ task[t].step = "mark"
    /\ ~RowLocked
    /\ profile' = [profile EXCEPT !.status = "COMPUTING"]
    /\ TaskAt(t, [step |-> "read", text |-> task[t].text])
    /\ UNCHANGED <<catalogue, embedding_lock, editor, registrar, lapses, dropped>>

\* With nothing to embed the status stays COMPUTING; capacity, metadata and
\* history may still give an empty profile a text.
ReadCatalogue(t) ==
    /\ task[t].step = "read"
    /\ \/ /\ TaskAt(t, [step |-> "embed", text |-> task[t].text, goods |-> catalogue])
          /\ dropped' = FALSE
       \/ /\ task[t].text = BlankText /\ catalogue = {}
          /\ TaskAt(t, [step |-> "release"])
          /\ dropped' = TRUE
    /\ UNCHANGED <<profile, catalogue, embedding_lock, editor, registrar, lapses>>

EmbeddingOf(t) == [text |-> task[t].text, goods |-> task[t].goods, by |-> "recompute"]

\* Mutant: only the vector is written.
StoreVector(t) ==
    /\ task[t].step = "embed"
    /\ ~RowLocked
    /\ profile' = [profile EXCEPT !.vector = EmbeddingOf(t), !.status = "ACTIVE"]
    /\ TaskAt(t, [step |-> "release"])
    /\ UNCHANGED <<catalogue, embedding_lock, editor, registrar, lapses, dropped>>

\* set_embedding and update: every column of the profile as it was loaded, so
\* an edit committed since is undone.
StoreEmbedding(t) ==
    /\ task[t].step = "embed"
    /\ ~RowLocked
    /\ profile' = [text |-> task[t].text, vector |-> EmbeddingOf(t), status |-> "ACTIVE"]
    /\ TaskAt(t, [step |-> "release"])
    /\ UNCHANGED <<catalogue, embedding_lock, editor, registrar, lapses, dropped>>

\* The language model or the database fails; FAILED may not be written either.
FailRecompute(t) ==
    /\ task[t].step \in {"load", "mark", "read", "embed"}
    /\ \/ UNCHANGED profile
       \/ /\ profile # NoProfile /\ ~RowLocked
          /\ profile' = [profile EXCEPT !.status = "FAILED"]
    /\ TaskAt(t, [step |-> "release"])
    /\ dropped' = TRUE
    /\ UNCHANGED <<catalogue, embedding_lock, editor, registrar, lapses>>

\* The key is deleted, whoever has it now, unless Redis does not answer.
_release_embedding_lock(t) ==
    /\ task[t].step = "release"
    /\ TaskAt(t, NoTask)
    /\ embedding_lock' \in {FALSE, embedding_lock}
    /\ UNCHANGED <<profile, catalogue, editor, registrar, lapses, dropped>>

\* The worker process stops; the key stays until it expires.
CrashTask(t) ==
    /\ task[t] # NoTask
    /\ TaskAt(t, NoTask)
    /\ dropped' = (dropped \/ task[t].step # "release")
    /\ UNCHANGED <<profile, catalogue, embedding_lock, editor, registrar, lapses>>

\* After its minute; a lapse when a task still counts on it.
ExpireLock ==
    /\ embedding_lock
    /\ embedding_lock' = FALSE
    /\ \/ Working = {} /\ UNCHANGED lapses
       \/ Working # {} /\ lapses < MaxLapses /\ lapses' = lapses + 1
    /\ UNCHANGED <<profile, catalogue, task, editor, registrar, dropped>>

-----------------------------------------------------------------------------
(* handle_enterprise_registered_create_profile *)

LookForProfile ==
    /\ registrar.step = "look"
    /\ registrar' = [step |-> IF profile = NoProfile THEN "insert" ELSE "done"]
    /\ UNCHANGED <<profile, catalogue, embedding_lock, task, editor, lapses, dropped>>

\* The enterprise is UNIQUE: the insert fails if an edit made the profile.
InsertProfile ==
    /\ registrar.step = "insert"
    /\ ~RowLocked
    /\ IF profile = NoProfile
       THEN /\ profile' = [text |-> RegistrationText, vector |-> NoVector,
                           status |-> "OUTDATED"]
            /\ registrar' = [step |-> "read"]
       ELSE registrar' = [step |-> "done"] /\ UNCHANGED profile
    /\ UNCHANGED <<catalogue, embedding_lock, task, editor, lapses, dropped>>

ReadGoods ==
    /\ registrar.step = "read"
    /\ registrar' = [step |-> "embed", goods |-> catalogue]
    /\ UNCHANGED <<profile, catalogue, embedding_lock, task, editor, lapses, dropped>>

\* The ORM writes the one column that changed, and takes no lock in Redis.
SetVector ==
    /\ registrar.step = "embed"
    /\ ~RowLocked
    /\ profile' = [profile EXCEPT !.vector = [text |-> RegistrationText,
                                             goods |-> registrar.goods,
                                             by |-> "registration"]]
    /\ registrar' = [step |-> "done"]
    /\ UNCHANGED <<catalogue, embedding_lock, task, editor, lapses, dropped>>

FailRegistrar ==
    /\ registrar.step # "done"
    /\ registrar' = [step |-> "done"]
    /\ UNCHANGED <<profile, catalogue, embedding_lock, task, editor, lapses, dropped>>

-----------------------------------------------------------------------------
EditorStep(e) ==
    \/ \E text \in Texts : LookUp(e, text)
    \/ \E t \in Tasks : update_capability_profile(e, t) \/ ScheduleRecompute(e, t)
    \/ CommitEdit(e) \/ FailEditor(e)
    \/ \E g \in Goods : create_catalogue_item(e, g) \/ deactivate_catalogue_item(e, g)
    \/ \E g, h \in Goods : update_catalogue_item(e, g, h)
    \/ \E goods \in SUBSET Goods \ {{}} : bulk_create_catalogue_items(e, goods)

_recompute_embedding_standalone(t) ==
    \/ _acquire_embedding_lock(t) \/ Debounce(t) \/ LoadProfile(t) \/ MarkComputing(t)
    \/ ReadCatalogue(t) \/ StoreEmbedding(t) \/ FailRecompute(t)
    \/ _release_embedding_lock(t) \/ CrashTask(t)

RegistrarStep ==
    LookForProfile \/ InsertProfile \/ ReadGoods \/ SetVector \/ FailRegistrar

EmbeddingNext ==
    \/ \E e \in Editors : EditorStep(e)
    \/ \E t \in Tasks : recompute_embeddings(t) \/ _recompute_embedding_standalone(t)
    \/ ExpireLock
    \/ RegistrarStep

EmbeddingSpec == EmbeddingInit /\ [][EmbeddingNext]_embeddingVars

-----------------------------------------------------------------------------
\* "prevents N concurrent recomputes": two recomputes overlap only when the key
\* expired under one of them or Redis did not answer, and every such event lets
\* in one more, although a release deletes the key of whoever has it by then.
OverlapNeedsLapse == Cardinality(Working) <= lapses + 1

\* A vector that a recompute stored is of the text the profile has: an edit made
\* while it was computed is not left with the vector of the older text.
VectorOfItsText ==
    profile # NoProfile /\ profile.vector # NoVector
    => profile.vector.text = profile.text \/ profile.vector.by = "registration"

\* The requests and tasks that will still bring the catalogue into the vector.
Settled == /\ \A t \in Tasks : task[t].step \in {"none", "release"}
           /\ \A e \in Editors : editor[e].step # "schedule"

\* "item added -> regenerate seller embedding to include it": once nothing is
\* under way, a vector that a recompute stored shows the active catalogue, if no
\* two recomputes overlapped and none was debounced, failed or died since the
\* last reading of the catalogue.
VectorOfCatalogue ==
    /\ Settled /\ lapses = 0 /\ ~dropped
    /\ profile # NoProfile /\ profile.vector # NoVector
    /\ profile.vector.by = "recompute"
    => profile.vector.goods = catalogue

\* What a stored vector owes its profile: the text it was made of, and in the
\* end the catalogue.
VectorsCurrent == VectorOfItsText /\ VectorOfCatalogue
=============================================================================
