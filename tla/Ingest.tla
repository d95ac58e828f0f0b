------------------------------- MODULE Ingest -------------------------------
(***************************************************************************)
(* What a weight loader promises its caller (src/model/weights.h): the     *)
(* parts of the model arrive on the device one by one, each with its own   *)
(* content and each once, and the store is handed out when every part is   *)
(* there.  A load that fails hands out nothing.                            *)
(***************************************************************************)
CONSTANT Part

VARIABLES memory, outcome

vars == <<memory, outcome>>

TypeOK ==
  /\ memory \in [Part -> {"missing", "loaded"}]
  /\ outcome \in {"loading", "ready", "failed", "freed"}

Init ==
  /\ memory = [p \in Part |-> "missing"]
  /\ outcome = "loading"

\* A part is on the device.
Arrive(p) ==
  /\ outcome = "loading" /\ memory[p] = "missing"
  /\ memory' = [memory EXCEPT ![p] = "loaded"]
  /\ UNCHANGED outcome

\* HD_OK: the caller may use every part.
HandOut ==
  /\ outcome = "loading" /\ \A p \in Part : memory[p] = "loaded"
  /\ outcome' = "ready"
  /\ UNCHANGED memory

\* Any other status: the arena is gone, whatever had arrived.
Fail ==
  /\ outcome = "loading"
  /\ outcome' = "failed"
  /\ memory' = [p \in Part |-> "missing"]

\* hd_weight_store_free.
Free ==
  /\ outcome = "ready"
  /\ outcome' = "freed"
  /\ memory' = [p \in Part |-> "missing"]

Next == (\E p \in Part : Arrive(p)) \/ HandOut \/ Fail \/ Free

Spec == Init /\ [][Next]_vars
=============================================================================
