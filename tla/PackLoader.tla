----------------------------- MODULE PackLoader -----------------------------
(***************************************************************************)
(* hd_weights_to_device_gguf (src/model/weights.c): the payload of a GGUF  *)
(* pack goes window by window from the file through a few pinned slots to  *)
(* one device arena.  The host reads a window into a slot and queues the   *)
(* copy on a non-blocking stream; the copy engine works through the stream *)
(* on its own and reads the slot when it gets there.                       *)
(*                                                                         *)
(* Windows are numbered: window w is the payload bytes from w *            *)
(* HD_LOADER_STAGE_BYTES on, so `off` is w and `off >= STAGE_BYTES *       *)
(* STAGE_SLOTS` is w >= Slots.  The content of a slot or of a piece of the *)
(* arena is the number of the window it holds.                             *)
(***************************************************************************)
EXTENDS Integers, Sequences

CONSTANTS
  Windows,   \* the payload, in windows
  Slots      \* HD_LOADER_STAGE_SLOTS

ASSUME WindowsAssumption == Windows \in Nat
ASSUME SlotsAssumption   == Slots \in Nat \ {0}

\* What the loader acquires: the header's strings and tables (hd_gguf_file),
\* its copy of the path alone, the allocation table, the arena, pinned slots
\* and their events, the stream, the file, the GEMM runtime.
Resource == {"path", "gguf", "table", "arena", "slot", "event", "stream", "file", "gemm"}

\* What the caller of a successful load owns.
Store == {"table", "arena", "stream", "gemm"}

Torn == -1   \* no window: never written, or a mix

Window == 0 .. Windows - 1

Slot == 0 .. Slots - 1

VARIABLES
  pc,       \* where the host is
  w,        \* off, in windows
  slot,     \* slot
  stage,    \* content of each pinned slot
  stream,   \* every copy ever queued on the upload stream, in order
  arrived,  \* how many of them the copy engine has carried out
  ticket,   \* ev[s]: the length of the stream when it was last recorded
  arena,    \* content of the arena, by window
  owned,    \* how many of each resource exist
  known     \* how many of each the pointers that are not NULL stand for

dataVars == <<stage, arena, arrived>>
hostVars == <<w, slot, stream, ticket>>
heldVars == <<owned, known>>
vars == <<pc, dataVars, hostVars, heldVars>>

PC == {"open", "table", "arena", "slots", "stream", "file", "wait", "read",
       "copy", "record", "drain", "bind", "gemm", "unwind", "ready", "failed", "freed"}

TypeOK ==
  /\ pc \in PC
  /\ w \in 0 .. Windows /\ slot \in Slot
  /\ stage \in [Slot -> Window \cup {Torn}]
  /\ stream \in Seq([slot : Slot, win : Window])
  /\ arrived \in 0 .. Len(stream)
  /\ ticket \in [Slot -> Nat]
  /\ arena \in [Window -> Window \cup {Torn}]
  /\ owned \in [Resource -> Int] /\ known \in [Resource -> Nat]

Init ==
  /\ pc = "open" /\ w = 0 /\ slot = 0
  /\ stage = [s \in Slot |-> Torn]
  /\ stream = <<>> /\ arrived = 0
  /\ ticket = [s \in Slot |-> 0]
  /\ arena = [v \in Window |-> Torn]
  /\ owned = [r \in Resource |-> 0] /\ known = [r \in Resource |-> 0]

-----------------------------------------------------------------------------
\* One more resource exists and a pointer stands for it.
Acquire(r) ==
  /\ owned' = [owned EXCEPT ![r] = @ + 1]
  /\ known' = [known EXCEPT ![r] = @ + 1]

\* What the pointers stand for is released; the pointers keep their values.
Release(R) ==
  owned' = [r \in Resource |-> IF r \in R THEN owned[r] - known[r] ELSE owned[r]]

\* The pointers are cleared as well, or cannot be reached any more.
Forget(R) ==
  known' = [r \in Resource |-> IF r \in R THEN 0 ELSE known[r]]

Goto(label) == pc' = label

\* hd_gguf_open.  One that fails after its strdup leaves the path behind: its
\* early returns do not release it and the caller does not close what failed.
Open ==
  /\ pc = "open"
  /\ \/ Acquire("gguf") /\ Goto("table")
     \/ Acquire("path") /\ Goto("failed")
     \/ UNCHANGED heldVars /\ Goto("failed")
  /\ UNCHANGED <<dataVars, hostVars>>

\* The allocation table; without it hd_gguf_close and out.
AllocateTable ==
  /\ pc = "table"
  /\ \/ Acquire("table") /\ Goto("arena")
     \/ Release({"gguf"}) /\ Forget({"gguf"}) /\ Goto("failed")
  /\ UNCHANGED <<dataVars, hostVars>>

\* The arena; without it hd_gguf_close, free of the table, and out.
AllocateArena ==
  /\ pc = "arena"
  /\ \/ Acquire("arena") /\ Goto("slots")
     \/ /\ Release({"gguf", "table"}) /\ Forget({"gguf", "table"})
        /\ Goto("failed")
  /\ UNCHANGED <<dataVars, hostVars>>

\* One pinned slot and its event after the other.
AllocateSlot ==
  /\ pc = "slots" /\ known["slot"] < Slots
  /\ \/ /\ owned' = [owned EXCEPT !["slot"] = @ + 1, !["event"] = @ + 1]
        /\ known' = [known EXCEPT !["slot"] = @ + 1, !["event"] = @ + 1]
        /\ UNCHANGED pc
     \/ UNCHANGED heldVars /\ Goto("unwind")
  /\ UNCHANGED <<dataVars, hostVars>>

\* The upload stream, then the file, opened a second time.
AllocateStream ==
  /\ pc = "slots" /\ known["slot"] = Slots
  /\ \/ Acquire("stream") /\ Goto("file")
     \/ UNCHANGED heldVars /\ Goto("unwind")
  /\ UNCHANGED <<dataVars, hostVars>>

OpenFile ==
  /\ pc = "file"
  /\ \/ Acquire("file") /\ Goto("wait")
     \/ UNCHANGED heldVars /\ Goto("unwind")
  /\ UNCHANGED <<dataVars, hostVars>>

\* Mutant: the slots are reused without waiting for their events.
WaitForSlotSkipped ==
  /\ pc = "wait" /\ w < Windows
  /\ Goto("read")
  /\ UNCHANGED <<dataVars, hostVars, heldVars>>

\* The loop head, and cudaEventSynchronize once every slot was used before.
WaitForSlot ==
  /\ pc = "wait" /\ w < Windows
  /\ w >= Slots => arrived >= ticket[slot]
  /\ Goto("read")
  /\ UNCHANGED <<dataVars, hostVars, heldVars>>

\* pread returns a part of the window: the slot holds a mix.
ReadPart ==
  /\ pc = "read" /\ stage[slot] # Torn
  /\ stage' = [stage EXCEPT ![slot] = Torn]
  /\ UNCHANGED <<pc, arena, arrived, hostVars, heldVars>>

\* pread returns the rest of it.
ReadWindow ==
  /\ pc = "read"
  /\ stage' = [stage EXCEPT ![slot] = w]
  /\ Goto("copy")
  /\ UNCHANGED <<arena, arrived, hostVars, heldVars>>

\* pread finds the end of the file or fails: close the file and unwind.
ReadFails ==
  /\ pc = "read"
  /\ Release({"file"}) /\ Forget({"file"})
  /\ Goto("unwind")
  /\ UNCHANGED <<dataVars, hostVars>>

\* cudaMemcpyAsync from the slot to the window's place in the arena.
QueueCopy ==
  /\ pc = "copy"
  /\ \/ /\ stream' = Append(stream, [slot |-> slot, win |-> w])
        /\ Goto("record")
        /\ UNCHANGED heldVars
     \/ /\ Release({"file"}) /\ Forget({"file"})
        /\ Goto("unwind")
        /\ UNCHANGED stream
  /\ UNCHANGED <<dataVars, w, slot, ticket>>

\* cudaEventRecord behind the copy, then the next window and the next slot.
RecordEvent ==
  /\ pc = "record"
  /\ ticket' = [ticket EXCEPT ![slot] = Len(stream)]
  /\ w' = w + 1
  /\ slot' = (slot + 1) % Slots
  /\ Goto("wait")
  /\ UNCHANGED <<dataVars, stream, heldVars>>

\* After the last window the file is closed.
CloseFile ==
  /\ pc = "wait" /\ w = Windows
  /\ Release({"file"}) /\ Forget({"file"})
  /\ Goto("drain")
  /\ UNCHANGED <<dataVars, hostVars>>

\* Mutant: the pointers are handed out while copies are queued.
DrainStreamSkipped ==
  /\ pc = "drain"
  /\ Goto("bind")
  /\ UNCHANGED <<dataVars, hostVars, heldVars>>

\* cudaStreamSynchronize returns when every queued copy is done, or with an error.
DrainStream ==
  /\ pc = "drain"
  /\ \/ arrived = Len(stream) /\ Goto("bind")
     \/ Goto("unwind")
  /\ UNCHANGED <<dataVars, hostVars, heldVars>>

\* Mutant: the slots are kept.
BindPointersOnly ==
  /\ pc = "bind"
  /\ Release({"event"})
  /\ Goto("gemm")
  /\ UNCHANGED <<dataVars, hostVars, known>>

\* The tensors get their pointers; events and slots are released, and the
\* arrays stage and ev keep their values.
BindPointers ==
  /\ pc = "bind"
  /\ Release({"slot", "event"})
  /\ Goto("gemm")
  /\ UNCHANGED <<dataVars, hostVars, known>>

\* hd_gemm_runtime_init, hd_gguf_close and HD_OK; a failure closes the header
\* and unwinds.
InitGemm ==
  /\ pc = "gemm"
  /\ \/ /\ owned' = [owned EXCEPT !["gemm"] = 1, !["gguf"] = 0]
        /\ known' = [known EXCEPT !["gemm"] = 1, !["gguf"] = 0]
        /\ Goto("ready")
     \/ Release({"gguf"}) /\ Forget({"gguf"}) /\ Goto("unwind")
  /\ UNCHANGED <<dataVars, hostVars>>

\* Mutant: the stream is forgotten.
UnwindKeepsStream ==
  /\ pc = "unwind"
  /\ Release({"slot", "event", "arena", "gemm", "gguf", "table"})
  /\ Forget(Resource)
  /\ Goto("failed")
  /\ UNCHANGED <<dataVars, hostVars>>

\* The label fail: everything a pointer stands for.
Unwind ==
  /\ pc = "unwind"
  /\ Release({"slot", "event", "arena", "stream", "gemm", "gguf", "table"})
  /\ Forget(Resource)
  /\ Goto("failed")
  /\ UNCHANGED <<dataVars, hostVars>>

\* hd_weight_store_free, when the caller is through.
FreeStore ==
  /\ pc = "ready"
  /\ Release(Store) /\ Forget(Resource)
  /\ Goto("freed")
  /\ UNCHANGED <<dataVars, hostVars>>

\* The copy engine carries out the next copy of the stream: it reads the slot
\* as it is by then.
Transfer ==
  /\ arrived < Len(stream) /\ pc \notin {"failed", "freed"}
  /\ LET copy == stream[arrived + 1]
     IN  arena' = [arena EXCEPT ![copy.win] = stage[copy.slot]]
  /\ arrived' = arrived + 1
  /\ UNCHANGED <<pc, stage, hostVars, heldVars>>

Host ==
  \/ Open \/ AllocateTable \/ AllocateArena \/ AllocateSlot \/ AllocateStream
  \/ OpenFile \/ WaitForSlot \/ ReadPart \/ ReadWindow \/ ReadFails \/ QueueCopy
  \/ RecordEvent \/ CloseFile \/ DrainStream \/ BindPointers \/ InitGemm \/ Unwind

Next == Host \/ Transfer \/ FreeStore

Ended == pc \in {"failed", "freed"} /\ UNCHANGED vars

Spec == Init /\ [][Next \/ Ended]_vars

-----------------------------------------------------------------------------
\* What a queued copy is going to read is still the window it was queued for:
\* the host never refills a slot whose copy is not done.
SlotIntact ==
  \A k \in arrived + 1 .. Len(stream) : stage[stream[k].slot] = stream[k].win

\* HD_OK is returned only with every window of the payload in its place, and
\* with nothing acquired but what the caller is to release.
ReadyIsComplete ==
  pc = "ready" =>
    /\ \A v \in Window : arena[v] = v
    /\ \A r \in Resource : owned[r] = IF r \in Store THEN 1 ELSE 0

\* A load that ended, well or badly, leaves nothing allocated, but for the path
\* of a header that could not be opened.
NothingLeaks ==
  pc \in {"failed", "freed"} => \A r \in Resource \ {"path"} : owned[r] <= 0

\* The loader implements the promise of its header.
Promise == INSTANCE Ingest WITH
  Part    <- Window,
  memory  <- [v \in Window |->
               IF pc \in {"failed", "freed"} \/ arena[v] = Torn THEN "missing"
               ELSE IF arena[v] = v THEN "loaded" ELSE "wrong"],
  outcome <- IF pc \in {"ready", "failed", "freed"} THEN pc ELSE "loading"

ImplementsIngest == Promise!Spec

\* The load ends, whatever fails: the wait for an event always comes back.
LoadEnds == <>(pc \in {"ready", "failed"})

-----------------------------------------------------------------------------
(* What a document says and the code does not do. *)

\* fixtures/M3_GB10_PRODUCTION_LOADER_MEMORY.md: "Any failure must unwind owned
\* resources".  Nothing is released that is owned no more.
NothingReleasedTwice == \A r \in Resource : owned[r] >= 0
=============================================================================
