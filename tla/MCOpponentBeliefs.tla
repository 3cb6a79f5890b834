-------------------------- MODULE MCOpponentBeliefs --------------------------
(* OpponentBeliefs for TLC. *)
EXTENDS OpponentBeliefs
=============================================================================
