------------------------------- MODULE Escrow -------------------------------
(***************************************************************************)
(* The Escrow aggregate (settlement/domain/escrow.py) and its mapping to   *)
(* the escrow_contracts row (settlement/infrastructure/repositories.py).   *)
(*                                                                         *)
(* An aggregate is a record [status, frozen, app].  The guards can_... are *)
(* the conditions under which a lifecycle method does not raise.           *)
(***************************************************************************)
CONSTANTS Apps,   \* application ids the chain can allocate
          NoApp   \* algo_app_id is None

ASSUME NoAppAssumption == NoApp \notin Apps

\* Values of the status column; FROZEN exists only in the aggregate.
RowStatus == {"PENDING_APPROVAL", "APPROVED", "DEPLOYED", "FUNDED",
              "DISPATCHED", "RELEASED", "REFUNDED", "REJECTED"}

EscrowStatus == RowStatus \cup {"FROZEN"}

Aggregate == [status : EscrowStatus, frozen : BOOLEAN, app : Apps \cup {NoApp}]

\* Mutant: an application id of 0 for "none yet".
NewEscrowAppZero(status) == [status |-> status, frozen |-> FALSE, app |-> 0]

NewEscrow(status) == [status |-> status, frozen |-> FALSE, app |-> NoApp]

-----------------------------------------------------------------------------
\* Lifecycle methods.

can_record_approval(e) == e.status = "PENDING_APPROVAL"

record_approval(e) == [e EXCEPT !.status = "APPROVED"]

can_record_rejection(e) == e.status = "PENDING_APPROVAL"

record_rejection(e) == [e EXCEPT !.status = "REJECTED"]

\* Mutant: record_deployment without its double-deploy guard.
can_record_any_deployment(e) == TRUE

\* The only guard is the double-deploy guard: the status is not looked at.
can_record_deployment(e) == e.app = NoApp

record_deployment(e, app) == [e EXCEPT !.app = app, !.status = "DEPLOYED"]

can_record_funding(e) == ~e.frozen /\ e.status = "DEPLOYED"

record_funding(e) == [e EXCEPT !.status = "FUNDED"]

can_mark_dispatched(e) == ~e.frozen /\ e.status = "FUNDED"

mark_dispatched(e) == [e EXCEPT !.status = "DISPATCHED"]

can_record_release(e) == ~e.frozen /\ e.status \in {"FUNDED", "DISPATCHED"}

record_release(e) == [e EXCEPT !.status = "RELEASED"]

\* A frozen escrow may be refunded; a dispatched one may not.
can_record_refund(e) == e.status \in {"FUNDED", "FROZEN"}

record_refund(e) == [e EXCEPT !.status = "REFUNDED", !.frozen = FALSE]

-----------------------------------------------------------------------------
\* The escrow_contracts row: the aggregate's columns and `deal`, which says
\* that select_deal created it (enterprise ids and approval_deadline set).

Row == [status : RowStatus, frozen : BOOLEAN, app : Apps \cup {NoApp},
        deal : BOOLEAN]

\* No row for the session yet.
NoRow == [status |-> "NONE", frozen |-> FALSE, app |-> NoApp, deal |-> FALSE]

EntityOf(r) ==
    [status |-> IF r.frozen THEN "FROZEN" ELSE r.status,
     frozen |-> r.frozen, app |-> r.app]

ColumnsOf(e) ==
    [status |-> IF e.status = "FROZEN" THEN "FUNDED" ELSE e.status,
     frozen |-> e.status = "FROZEN" \/ e.frozen, app |-> e.app]

NewRow(e, deal) ==
    [status |-> ColumnsOf(e).status, frozen |-> ColumnsOf(e).frozen,
     app |-> e.app, deal |-> deal]

\* session.merge() emits an UPDATE of the columns that differ from the row as
\* the ORM session last loaded it, and of no others.
Merged(current, loaded, e) ==
    LET new == ColumnsOf(e) IN
    [status |-> IF new.status # loaded.status THEN new.status ELSE current.status,
     frozen |-> IF new.frozen # loaded.frozen THEN new.frozen ELSE current.frozen,
     app    |-> IF new.app # loaded.app THEN new.app ELSE current.app,
     deal   |-> current.deal]
=============================================================================
