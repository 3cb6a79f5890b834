---------------------------- MODULE MCSettlement ----------------------------
(* Settlement for TLC: requests and applications are interchangeable. *)
EXTENDS Settlement, TLC

Interchangeable == Permutations(Requests) \cup Permutations(Apps)
=============================================================================
