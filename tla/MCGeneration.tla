---------------------------- MODULE MCGeneration ----------------------------
(* Generation on grids of which two have the same number of tokens.         *)
EXTENDS Generation

MCGrids == {[h |-> 1, w |-> 2], [h |-> 2, w |-> 1], [h |-> 2, w |-> 2]}
=============================================================================
