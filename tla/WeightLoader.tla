---------------------------- MODULE WeightLoader ----------------------------
(***************************************************************************)
(* hd_weights_to_device (src/model/weights.c): the tensors of safetensors  *)
(* shards go one by one from their shard through a raw buffer, where they  *)
(* are read and perhaps converted to BF16, and one of two pinned slots to  *)
(* a device arena.                                                         *)
(*                                                                         *)
(* Pass 1 walks the tensors in the order of their names and sizes the      *)
(* arena; pass 2 walks them in the order of the files and places them.     *)
(* Sizes count cells of the arena; the content of a slot or of a cell is   *)
(* the tensor it belongs to.                                               *)
(***************************************************************************)
EXTENDS Integers, Sequences, FiniteSets, Functions, FiniteSetsExt

CONSTANTS
  N,          \* idx->n_tensors; tensors are 1 .. N in the order of their names
  Layouts,    \* the indexes hd_st_index_load may hand over
  Align,      \* HD_LOADER_ALIGN
  MaxShards   \* entries of the table of open shards

Tensor == 1 .. N

\* Of each tensor: hd_dev_nbytes, its shard by number in strcmp order, and its
\* data_begin there.
Layout == [cells : [Tensor -> Nat], shard : [Tensor -> Nat], begin : [Tensor -> Nat]]

\* What the module takes for granted; ModelLoad assumes it of its constants.
NAssumption == N \in Nat
SizeAssumption == Align \in Nat \ {0} /\ MaxShards \in Nat
LayoutAssumption ==
  /\ Layouts \subseteq Layout
  /\ \A x \in Layouts : \A t, u \in Tensor :
       x.shard[t] = x.shard[u] /\ x.begin[t] = x.begin[u] => t = u

VARIABLES
  layout,    \* the index of this load
  pc,        \* where the host is
  i,         \* the place in `order` pass 2 has reached, counted from 0
  cur,       \* the slot in use
  raw,       \* content of raw_slot
  slot,      \* content of dev_slot
  stream,    \* every copy ever queued on the upload stream
  arrived,   \* how many of them the copy engine has carried out
  ticket,    \* slot_ev: the length of the stream when it was last recorded
  arena,     \* content of the arena, by cell
  arenaOff,  \* arena_off
  ptr,       \* allocs[oi].dev_ptr as an offset, Torn before it is set
  held       \* the resources that exist

dataVars == <<raw, slot, arena, arrived>>
hostVars == <<layout, i, cur, stream, ticket, arenaOff, ptr>>
vars == <<pc, dataVars, hostVars, held>>

Cells == layout.cells

Nobody == 0   \* the content of what no tensor was written to
Torn   == -1  \* the content of a buffer between two tensors

\* hd_align_up.
AlignUp(v) == ((v + Align - 1) \div Align) * Align

\* Pass 1: the end of the first n tensors, each behind an aligned offset.
PlannedEnd ==
  LET end[n \in 0 .. N] == IF n = 0 THEN 0 ELSE AlignUp(end[n - 1]) + Cells[n]
  IN  end[N]

ArenaCells == AlignUp(PlannedEnd)

\* tensor_io_cmp: by shard, then by place in the shard.
Before(t, u) ==
  \/ layout.shard[t] < layout.shard[u]
  \/ layout.shard[t] = layout.shard[u] /\ layout.begin[t] < layout.begin[u]

\* The table `order` after qsort.
Order ==
  [n \in Tensor |-> CHOOSE t \in Tensor : Cardinality({u \in Tensor : Before(u, t)}) = n - 1]

\* What the loader acquires.
Resource == {"table", "arena", "pinned", "stream", "events", "shard_fds", "order", "gemm"}

Store == {"table", "arena", "stream", "gemm"}

Slot == {0, 1}

Copies == [slot : Slot, tensor : Tensor, at : Nat]

PC == {"table", "arena", "pinned", "stream", "shards", "order", "wait", "read",
       "convert", "copy", "place", "release", "sync", "gemm", "unwind", "ready",
       "failed", "freed"}

TypeOK ==
  /\ layout \in Layouts /\ pc \in PC /\ i \in 0 .. N /\ cur \in Slot
  /\ raw \in Tensor \cup {Nobody, Torn} /\ slot \in [Slot -> Tensor \cup {Nobody}]
  /\ stream \in Seq(Copies) /\ arrived \in 0 .. Len(stream)
  /\ ticket \in [Slot -> Nat]
  /\ arena \in [0 .. ArenaCells - 1 -> Tensor \cup {Nobody}]
  /\ arenaOff \in Nat /\ ptr \in [Tensor -> Nat \cup {Torn}]
  /\ held \subseteq Resource

Init ==
  /\ layout \in Layouts
  /\ pc = "table" /\ i = 0 /\ cur = 0
  /\ raw = Nobody /\ slot = [s \in Slot |-> Nobody]
  /\ stream = <<>> /\ arrived = 0 /\ ticket = [s \in Slot |-> 0]
  /\ arena = [a \in 0 .. ArenaCells - 1 |-> Nobody]
  /\ arenaOff = 0 /\ ptr = [t \in Tensor |-> Torn]
  /\ held = {}

\* The tensor pass 2 is at.
Current == Order[i + 1]

Goto(label) == pc' = label

Fails == Goto("unwind") /\ UNCHANGED held

\* One more resource, or the label fail.
Acquire(r, next) ==
  \/ held' = held \cup {r} /\ Goto(next)
  \/ Fails

-----------------------------------------------------------------------------
\* hd_device_info, cudaSetDevice and the table: nothing to unwind.
AllocateTable ==
  /\ pc = "table"
  /\ \/ held' = {"table"} /\ Goto("arena")
     \/ UNCHANGED held /\ Goto("failed")
  /\ UNCHANGED <<dataVars, hostVars>>

AllocateArena ==
  /\ pc = "arena" /\ Acquire("arena", "pinned")
  /\ UNCHANGED <<dataVars, hostVars>>

\* raw_slot and the two slots.  A failure of the second or third leaves some.
AllocatePinned ==
  /\ pc = "pinned"
  /\ \/ Acquire("pinned", "stream")
     \/ held' = held \cup {"pinned"} /\ Goto("unwind")
  /\ UNCHANGED <<dataVars, hostVars>>

\* The upload stream and the events.
AllocateStream ==
  /\ pc = "stream"
  /\ \/ held' = held \cup {"stream", "events"} /\ Goto("shards")
     \/ Fails
  /\ UNCHANGED <<dataVars, hostVars>>

\* Each shard is opened once; there may be too many, or one does not open.
OpenShards ==
  /\ pc = "shards"
  /\ \/ /\ Cardinality(Range(layout.shard)) <= MaxShards
        /\ Acquire("shard_fds", "order")
     \/ held' = held \cup {"shard_fds"} /\ Goto("unwind")
  /\ UNCHANGED <<dataVars, hostVars>>

SortTensors ==
  /\ pc = "order" /\ Acquire("order", "wait")
  /\ UNCHANGED <<dataVars, hostVars>>

\* Mutant: the wait begins one tensor late.
WaitForSlotLate ==
  /\ pc = "wait" /\ i < N
  /\ i > 2 => arrived >= ticket[cur]
  /\ Goto("read")
  /\ UNCHANGED <<dataVars, hostVars, held>>

\* The loop head, and cudaEventSynchronize from the third tensor on.
WaitForSlot ==
  /\ pc = "wait" /\ i < N
  /\ i >= 2 => arrived >= ticket[cur]
  /\ Goto("read")
  /\ UNCHANGED <<dataVars, hostVars, held>>

\* pread returns a part of the tensor.
ReadPart ==
  /\ pc = "read" /\ raw # Torn
  /\ raw' = Torn
  /\ UNCHANGED <<pc, slot, arena, arrived, hostVars, held>>

\* pread returns the rest, or ends short.
ReadTensor ==
  /\ pc = "read"
  /\ \/ raw' = Current /\ Goto("convert") /\ UNCHANGED held
     \/ UNCHANGED raw /\ Fails
  /\ UNCHANGED <<slot, arena, arrived, hostVars>>

\* hd_f32_buf_to_bf16 or memcpy into the slot.
FillSlot ==
  /\ pc = "convert"
  /\ slot' = [slot EXCEPT ![cur] = raw]
  /\ Goto("copy")
  /\ UNCHANGED <<raw, arena, arrived, hostVars, held>>

\* cudaMemcpyAsync to arena_off and the event behind it.
QueueCopy ==
  /\ pc = "copy"
  /\ \/ /\ stream' = Append(stream, [slot |-> cur, tensor |-> Current, at |-> arenaOff])
        /\ ticket' = [ticket EXCEPT ![cur] = Len(stream) + 1]
        /\ Goto("place") /\ UNCHANGED held
     \/ UNCHANGED <<stream, ticket>> /\ Fails
  /\ UNCHANGED <<dataVars, layout, i, cur, arenaOff, ptr>>

\* Mutant: the pointer is rounded up and the running offset is not.
PlaceTensorTight ==
  /\ pc = "place"
  /\ ptr' = [ptr EXCEPT ![Current] = AlignUp(arenaOff)]
  /\ arenaOff' = arenaOff + Cells[Current]
  /\ i' = i + 1 /\ cur' = 1 - cur
  /\ Goto("wait")
  /\ UNCHANGED <<dataVars, layout, stream, ticket, held>>

\* The tensor's pointer, the next offset and the next slot.
PlaceTensor ==
  /\ pc = "place"
  /\ ptr' = [ptr EXCEPT ![Current] = arenaOff]
  /\ arenaOff' = AlignUp(arenaOff) + Cells[Current]
  /\ i' = i + 1 /\ cur' = 1 - cur
  /\ Goto("wait")
  /\ UNCHANGED <<dataVars, layout, stream, ticket, held>>

\* After the last tensor: the order table, the files, the events and the slots
\* go, before anything waits for the stream.
ReleaseStaging ==
  /\ pc = "wait" /\ i = N
  /\ held' = held \ {"order", "shard_fds", "events", "pinned"}
  /\ Goto("sync")
  /\ UNCHANGED <<dataVars, hostVars>>

\* Mutant: the store is handed out while copies are queued.
DrainStreamSkipped ==
  /\ pc = "sync"
  /\ Goto("gemm") /\ UNCHANGED held
  /\ UNCHANGED <<dataVars, hostVars>>

\* cudaStreamSynchronize.
DrainStream ==
  /\ pc = "sync"
  /\ \/ arrived = Len(stream) /\ Goto("gemm") /\ UNCHANGED held
     \/ Fails
  /\ UNCHANGED <<dataVars, hostVars>>

\* hd_gemm_runtime_init and HD_OK.
InitGemm ==
  /\ pc = "gemm" /\ Acquire("gemm", "ready")
  /\ UNCHANGED <<dataVars, hostVars>>

\* The label fail.
Unwind ==
  /\ pc = "unwind"
  /\ held' = held \ {"arena", "stream", "gemm", "table"}
  /\ Goto("failed")
  /\ UNCHANGED <<dataVars, hostVars>>

\* hd_weight_store_free.
FreeStore ==
  /\ pc = "ready"
  /\ held' = held \ Store
  /\ Goto("freed")
  /\ UNCHANGED <<dataVars, hostVars>>

\* The copy engine carries out the next copy: it reads the slot as it is by then.
Transfer ==
  /\ arrived < Len(stream) /\ pc \notin {"failed", "freed"}
  /\ LET copy == stream[arrived + 1]
     IN  arena' = [a \in DOMAIN arena |->
                    IF a \in copy.at .. copy.at + Cells[copy.tensor] - 1
                    THEN slot[copy.slot] ELSE arena[a]]
  /\ arrived' = arrived + 1
  /\ UNCHANGED <<pc, raw, slot, hostVars, held>>

Host ==
  \/ AllocateTable \/ AllocateArena \/ AllocatePinned \/ AllocateStream \/ OpenShards
  \/ SortTensors \/ WaitForSlot \/ ReadPart \/ ReadTensor \/ FillSlot \/ QueueCopy
  \/ PlaceTensor \/ ReleaseStaging \/ DrainStream \/ InitGemm \/ Unwind

Next == Host \/ Transfer \/ FreeStore

Ended == pc \in {"failed", "freed"} /\ UNCHANGED vars

Spec == Init /\ [][Next \/ Ended]_vars

-----------------------------------------------------------------------------
\* The cells of a tensor that has its pointer.
Region(t) == ptr[t] .. ptr[t] + Cells[t] - 1

Placed == {t \in Tensor : ptr[t] # Torn}

\* What a queued copy is going to read is still the tensor it was queued for,
\* although there are only two slots.
SlotIntact ==
  \A k \in arrived + 1 .. Len(stream) : slot[stream[k].slot] = stream[k].tensor

\* Sized in the order of names, filled in the order of files: no tensor leaves
\* the arena and no two share a cell.
RegionsFit ==
  /\ \A t \in Placed : Region(t) \subseteq 0 .. ArenaCells - 1
  /\ \A t, u \in Placed : t # u => Region(t) \cap Region(u) = {}

\* HD_OK is returned only with every tensor where its own pointer says, and
\* with nothing acquired but what the caller is to release.
ReadyIsComplete ==
  pc = "ready" =>
    /\ Placed = Tensor
    /\ \A t \in Tensor : \A a \in Region(t) : arena[a] = t
    /\ held = Store

\* The loader implements the promise of its header.
Promise == INSTANCE Ingest WITH
  Part    <- Tensor,
  memory  <- [t \in Tensor |->
               IF pc \in {"failed", "freed"} \/ ~\E k \in 1 .. arrived : stream[k].tensor = t
               THEN "missing"
               ELSE IF \E k \in 1 .. arrived :
                         /\ stream[k].tensor = t
                         /\ \A a \in stream[k].at .. stream[k].at + Cells[t] - 1 : arena[a] = t
                    THEN "loaded" ELSE "wrong"],
  outcome <- IF pc \in {"ready", "failed", "freed"} THEN pc ELSE "loading"

ImplementsIngest == Promise!Spec

\* The load ends, whatever fails.
LoadEnds == <>(pc \in {"ready", "failed"})
=============================================================================
