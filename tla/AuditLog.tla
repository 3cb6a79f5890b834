------------------------------ MODULE AuditLog ------------------------------
(***************************************************************************)
(* What the audit trail promises, whatever its hashes and locks: one log   *)
(* per escrow or session, to which an event some handler holds is appended *)
(* at most once, at the end, and which never changes otherwise.  A handler *)
(* may lose its event: handlers are best effort.                           *)
(***************************************************************************)
EXTENDS Sequences

CONSTANTS Chains, Procs, Kinds, NoEvent

VARIABLES
    log,      \* log[c]: the kinds of events recorded for c, in order
    holding   \* holding[p]: the event handler p has yet to record

Event == [chain : Chains, kind : Kinds]

LogInit ==
    /\ log = [c \in Chains |-> <<>>]
    /\ holding = [p \in Procs |-> NoEvent]

Take(p, e) ==
    /\ holding[p] = NoEvent
    /\ holding' = [holding EXCEPT ![p] = e]
    /\ UNCHANGED log

Record(p) ==
    /\ holding[p] # NoEvent
    /\ log' = [log EXCEPT ![holding[p].chain] = Append(@, holding[p].kind)]
    /\ holding' = [holding EXCEPT ![p] = NoEvent]

Lose(p) ==
    /\ holding' = [holding EXCEPT ![p] = NoEvent]
    /\ UNCHANGED log

LogNext == \E p \in Procs : (\E e \in Event : Take(p, e)) \/ Record(p) \/ Lose(p)

LogSpec == LogInit /\ [][LogNext]_<<log, holding>>
=============================================================================
