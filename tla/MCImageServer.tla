--------------------------- MODULE MCImageServer ---------------------------
(* ImageServer for TLC: the threads of different connections run the same   *)
(* code, so permuting the connections is a symmetry of its safety runs.     *)
EXTENDS ImageServer, TLC

Symmetry == Permutations(Conn)

=============================================================================
