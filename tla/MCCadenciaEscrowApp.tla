------------------------ MODULE MCCadenciaEscrowApp ------------------------
(* CadenciaEscrowApp for TLC: two amounts, room for two seeding payments. *)
EXTENDS CadenciaEscrowApp

MCAmounts == {2, 5}
=============================================================================
