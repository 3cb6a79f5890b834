----------------------------- MODULE EscrowLife -----------------------------
(***************************************************************************)
(* What the rest of the platform takes for granted of the escrow of a      *)
(* session: it is stored once and stays, and a release that is booked is   *)
(* never taken back.  Deal lets escrows live like this, and Settlement     *)
(* sees to it that they do.                                                *)
(***************************************************************************)
VARIABLE stage

Init == stage = "NONE"

Store == stage = "NONE" /\ stage' = "OPEN"

Release == stage = "OPEN" /\ stage' = "RELEASED"

Next == Store \/ Release

Spec == Init /\ [][Next]_stage
=============================================================================
