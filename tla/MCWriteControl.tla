--------------------------- MODULE MCWriteControl ---------------------------
(***************************************************************************)
(* Instances of WriteControl for TLC.                                      *)
(***************************************************************************)
EXTENDS WriteControl, TLC

CONSTANTS l0, l1

\* One batch that spans both lanes and has two events on one of them.
MCBatches == {<<l0, l1, l0>>}

\* One batch of two events on a lane.
MCPair == {<<l1, l1>>}

\* Producers are alike.
Symmetry == Permutations(Clients)
=============================================================================
