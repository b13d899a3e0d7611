--------------------- MODULE MCRedundantSignallingSocket ---------------------
(***************************************************************************)
(* Instances of RedundantSignallingSocket for TLC: four servers, for one   *)
(* of which no socket can be created.                                      *)
(***************************************************************************)
EXTENDS RedundantSignallingSocket, TLC

CONSTANTS bad

GoodServers == Server \ {bad}

OneBad == {bad}

Symmetry == Permutations(GoodServers)
=============================================================================
