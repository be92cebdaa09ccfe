------------------------ MODULE MCDefinitionTables ------------------------
(* Model checking of DefinitionTables: simulations are alike.              *)
EXTENDS DefinitionTables, TLC

Alike == Permutations(Sims)
=============================================================================
