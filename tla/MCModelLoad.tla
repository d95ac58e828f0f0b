---------------------------- MODULE MCModelLoad ----------------------------
(***************************************************************************)
(* ModelLoad on packs with every header of one value and one tensor, in     *)
(* files of up to twelve bytes read with a first buffer of two, and on      *)
(* every layout of four tensors of two or three cells, in any order in the  *)
(* files, in one shard or in two.                                           *)
(***************************************************************************)
EXTENDS ModelLoad, FiniteSetsExt, Functions

MCValues  == [head : {1, 2}, tail : {0, 1, 4}, kind : {"tested", "skipped", "bad"}]
MCTensors == [head : {1}, tail : {0, 2}, kind : {"tested", "bad", "unsupported"}]

MCFiles == {[entries |-> <<v, t>>, length |-> n] : v \in MCValues, t \in MCTensors, n \in 0 .. 12}

MCLayouts ==
  {x \in [cells : [1 .. N -> {2, 3}],
          shard : {[t \in 1 .. N |-> 1], [t \in 1 .. N |-> 1 + (t % 2)]},
          begin : [1 .. N -> 0 .. N - 1]] :
     Cardinality(Range(x.begin)) = N}
=============================================================================
