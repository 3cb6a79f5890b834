---------------------------- MODULE SessionLife ----------------------------
(***************************************************************************)
(* What the rest of the platform takes for granted of a session: it comes  *)
(* to an agreement or to another end, an agreement may be dropped, and     *)
(* nothing that has ended is taken up again.  Sessions live like this in   *)
(* Deal, NegotiationMemory and LiveStream, and in NegotiationSession where *)
(* operations do not overlap.                                              *)
(***************************************************************************)
VARIABLE stage

Init == stage = "OPEN"

Agree == stage = "OPEN" /\ stage' = "AGREED"

End == stage \in {"OPEN", "AGREED"} /\ stage' = "OVER"

Next == Agree \/ End

Spec == Init /\ [][Next]_stage
=============================================================================
