--------------------------- MODULE ModelLoad_proofs ---------------------------
(***************************************************************************)
(* Proofs about ModelLoad and the pack loader it extends, for any payload, *)
(* any number of slots, any header and any index of shards.                *)
(*                                                                         *)
(* The pack loader comes first, for its own specification.  The shard      *)
(* loader is proved in WeightLoader_proofs.  The third part shows that the *)
(* composition is a run of either, and reads the header of the pack.  The  *)
(* last part is about the script that puts the model where it is loaded.   *)
(***************************************************************************)
EXTENDS ModelLoad, DownloadModel, SequenceTheorems, WellFoundedInduction, TLAPS

\* The places of the program where the loop over the windows is under way or over.
Streaming == {"wait", "read", "copy", "record", "drain", "bind", "gemm", "ready"}

\* The slot that was used d windows ago, for d up to a whole round.
Back(d) == IF slot >= d THEN slot - d ELSE slot - d + Slots

\* The windows went through the slots in turn, and the last event of each slot
\* is the one behind its last copy.
InTurn ==
  \A k \in 1 .. w : w - k < Slots =>
    stream[k].slot = Back(w - k + 1) /\ ticket[stream[k].slot] = k

\* The host's variables: one copy for each window so far, in order and in turn.
HostPlace ==
  /\ pc \in Streaming =>
       /\ Len(stream) = IF pc = "record" THEN w + 1 ELSE w
       /\ \A k \in 1 .. Len(stream) : stream[k].win = k - 1
       /\ InTurn
  /\ pc = "record" => stream[w + 1].slot = slot
  /\ pc \in {"read", "copy", "record"} => w < Windows
  /\ pc \in {"drain", "bind", "gemm", "ready"} => w = Windows
  /\ pc \notin Streaming \cup {"unwind", "failed", "freed"} => stream = <<>> /\ w = 0 /\ slot = 0

\* No copy is outstanding for longer than a round of the slots, and none from
\* the slot the host is about to fill.
SlotsFree ==
  /\ pc \in Streaming => arrived + Slots >= w
  /\ pc \in {"read", "copy", "record"} => arrived + Slots >= w + 1
  /\ pc \in {"copy", "record"} => stage[slot] = w
  /\ pc \in {"bind", "gemm", "ready"} => arrived = Windows

\* The copies that are done brought each window to its place, and nothing else
\* was ever written.
ArenaPlace ==
  /\ \A v \in Window : arena[v] \in {v, Torn}
  /\ \A k \in 1 .. Len(stream) : k <= arrived => arena[stream[k].win] = stream[k].win
  /\ pc \notin {"unwind", "failed", "freed"} => \A v \in Window : v >= arrived => arena[v] = Torn

\* One resource, held by its pointer exactly at the places given.
Held(r, places) ==
  /\ owned[r] = known[r]
  /\ owned[r] = IF pc \in places THEN 1 ELSE 0

\* What is acquired at each place.  The slots and the events alone are released
\* before their pointers are forgotten.
HeldPlace ==
  /\ pc \notin {"unwind", "failed", "freed"} =>
       /\ owned["path"] = 0
       /\ Held("gguf", PC \ {"open", "ready"})
       /\ Held("table", PC \ {"open", "table"})
       /\ Held("arena", PC \ {"open", "table", "arena"})
       /\ Held("stream", {"file"} \cup Streaming)
       /\ Held("file", {"wait", "read", "copy", "record"})
       /\ Held("gemm", {"ready"})
       /\ \A r \in {"slot", "event"} :
            /\ owned[r] = IF pc \in {"gemm", "ready"} THEN 0 ELSE known[r]
            /\ pc \in {"open", "table", "arena"} => known[r] = 0
  /\ pc = "unwind" => owned["file"] = 0 /\ \A r \in Resource \ {"path"} : owned[r] <= known[r]
  /\ pc \in {"failed", "freed"} => \A r \in Resource \ {"path"} : owned[r] <= 0

IInv == TypeOK /\ HostPlace /\ SlotsFree /\ SlotIntact /\ ArenaPlace /\ HeldPlace

-----------------------------------------------------------------------------
\* The initial state satisfies the invariant.
LEMMA InitInvariant == Init => IInv
  <1> SUFFICES ASSUME Init PROVE IInv OBVIOUS
  <1> USE WindowsAssumption, SlotsAssumption DEF Init
  <1>1. TypeOK BY DEF TypeOK, PC, Slot, Window, Resource
  <1>2. HostPlace /\ SlotsFree BY DEF HostPlace, SlotsFree, Streaming, InTurn
  <1>3. SlotIntact /\ ArenaPlace BY DEF SlotIntact, ArenaPlace, Streaming
  <1>4. HeldPlace BY DEF HeldPlace, Held, Streaming, Resource, PC
  <1> QED BY <1>1, <1>2, <1>3, <1>4 DEF IInv

\* The next slot is a slot.
LEMMA NextSlot ==
  ASSUME slot \in Slot
  PROVE  /\ (slot + 1) % Slots \in Slot
         /\ (slot + 1) % Slots = IF slot + 1 = Slots THEN 0 ELSE slot + 1
  <1>1. PICK m \in Nat : m = slot /\ m < Slots BY SlotsAssumption DEF Slot
  <1>2. CASE m + 1 = Slots BY <1>1, <1>2, SlotsAssumption DEF Slot
  <1>3. CASE m + 1 < Slots
    <2>1. (m + 1) % Slots = m + 1 BY <1>1, <1>3, SlotsAssumption
    <2> QED BY <1>1, <1>3, <2>1, SlotsAssumption DEF Slot
  <1> QED BY <1>1, <1>2, <1>3, SlotsAssumption

\* Acquiring and releasing keep the types of the counts.
LEMMA CountTypes ==
  ASSUME TypeOK
  PROVE  /\ \A r \in Resource : Acquire(r) =>
              owned' \in [Resource -> Int] /\ known' \in [Resource -> Nat]
         /\ \A R : Release(R) => owned' \in [Resource -> Int]
         /\ \A R : Forget(R) => known' \in [Resource -> Nat]
  <1> USE DEF TypeOK
  <1>1. \A r \in Resource : owned[r] \in Int /\ known[r] \in Nat OBVIOUS
  <1>2. \A r \in Resource : Acquire(r) =>
              owned' \in [Resource -> Int] /\ known' \in [Resource -> Nat]
    BY <1>1 DEF Acquire
  <1>3. ASSUME NEW R, Release(R) PROVE owned' \in [Resource -> Int]
    <2>1. \A r \in Resource : (IF r \in R THEN owned[r] - known[r] ELSE owned[r]) \in Int BY <1>1
    <2> QED BY <1>3, <2>1 DEF Release
  <1>4. ASSUME NEW R, Forget(R) PROVE known' \in [Resource -> Nat]
    <2>1. \A r \in Resource : (IF r \in R THEN 0 ELSE known[r]) \in Nat BY <1>1
    <2> QED BY <1>4, <2>1 DEF Forget
  <1> QED BY <1>2, <1>3, <1>4

\* Every step keeps the types.
LEMMA TypeStep == ASSUME TypeOK, HostPlace, [Next \/ Ended]_vars PROVE TypeOK'
  <1> DEFINE Counts == owned \in [Resource -> Int] /\ known \in [Resource -> Nat]
             Data   == /\ stage \in [Slot -> Window \cup {Torn}]
                       /\ arrived \in 0 .. Len(stream)
                       /\ arena \in [Window -> Window \cup {Torn}]
             Hosts  == /\ w \in 0 .. Windows /\ slot \in Slot
                       /\ stream \in Seq([slot : Slot, win : Window])
                       /\ ticket \in [Slot -> Nat]
  <1>1. TypeOK <=> pc \in PC /\ Counts /\ Data /\ Hosts BY DEF TypeOK
  <1>2. pc' \in PC
    <2>1. CASE Open \/ AllocateTable \/ AllocateArena \/ AllocateSlot \/ AllocateStream \/ OpenFile
      BY <2>1, <1>1 DEF Open, AllocateTable, AllocateArena, AllocateSlot, AllocateStream,
         OpenFile, Goto, PC
    <2>2. CASE WaitForSlot \/ ReadPart \/ ReadWindow \/ ReadFails \/ QueueCopy \/ RecordEvent
      BY <2>2, <1>1 DEF WaitForSlot, ReadPart, ReadWindow, ReadFails, QueueCopy, RecordEvent,
         Goto, PC
    <2>3. CASE CloseFile \/ DrainStream \/ BindPointers \/ InitGemm \/ Unwind
      BY <2>3, <1>1 DEF CloseFile, DrainStream, BindPointers, InitGemm, Unwind, Goto, PC
    <2>4. CASE Transfer \/ FreeStore \/ Ended \/ UNCHANGED vars
      BY <2>4, <1>1 DEF Transfer, FreeStore, Ended, vars, Goto, PC
    <2> QED BY <2>1, <2>2, <2>3, <2>4 DEF Next, Host
  <1>3. Counts'
    <2> USE CountTypes
    <2>1. {"path", "gguf", "table", "arena", "stream", "file", "slot", "event",
          "gemm"} \subseteq Resource BY DEF Resource
    <2>2. CASE Open \/ AllocateTable \/ AllocateArena \/ AllocateStream \/ OpenFile
      BY <2>1, <2>2, <1>1 DEF Open, AllocateTable, AllocateArena, AllocateStream, OpenFile, heldVars
    <2>3. CASE AllocateSlot
      <3>1. /\ owned["slot"] + 1 \in Int /\ owned["event"] + 1 \in Int
            /\ known["slot"] + 1 \in Nat /\ known["event"] + 1 \in Nat
        <4>1. Counts BY <1>1
        <4> QED BY <2>1, <4>1
      <3>2. CASE UNCHANGED heldVars BY <3>2, <1>1 DEF heldVars
      <3>3. CASE /\ owned' = [owned EXCEPT !["slot"] = @ + 1, !["event"] = @ + 1]
                 /\ known' = [known EXCEPT !["slot"] = @ + 1, !["event"] = @ + 1]
        BY <3>1, <3>3, <1>1
      <3> QED BY <2>3, <3>2, <3>3 DEF AllocateSlot
    <2>4. CASE WaitForSlot \/ ReadPart \/ ReadWindow \/ ReadFails \/ QueueCopy \/ RecordEvent
      BY <2>4, <1>1 DEF WaitForSlot, ReadPart, ReadWindow, ReadFails, QueueCopy, RecordEvent, heldVars
    <2>5. CASE CloseFile \/ DrainStream \/ BindPointers \/ Unwind
      BY <2>5, <1>1 DEF CloseFile, DrainStream, BindPointers, Unwind, heldVars
    <2>6. CASE InitGemm
      <3>1. CASE /\ owned' = [owned EXCEPT !["gemm"] = 1, !["gguf"] = 0]
                 /\ known' = [known EXCEPT !["gemm"] = 1, !["gguf"] = 0]
        <4>1. 0 \in Nat /\ 1 \in Nat /\ 0 \in Int /\ 1 \in Int /\ Counts BY <1>1
        <4> QED BY <3>1, <4>1
      <3>2. CASE Release({"gguf"}) /\ Forget({"gguf"})
        <4>1. owned' \in [Resource -> Int] BY <3>2, CountTypes
        <4>2. known' \in [Resource -> Nat] BY <3>2, CountTypes
        <4> QED BY <4>1, <4>2
      <3> QED BY <2>6, <3>1, <3>2 DEF InitGemm
    <2>7. CASE Transfer \/ FreeStore \/ Ended \/ UNCHANGED vars
      BY <2>7, <1>1 DEF Transfer, FreeStore, Ended, vars, heldVars
    <2> QED BY <2>2, <2>3, <2>4, <2>5, <2>6, <2>7 DEF Next, Host
  <1>4. Data' /\ Hosts'
    <2>1. CASE ReadPart \/ ReadWindow
      <3>1. pc = "read" /\ w \in Window
        BY <2>1, <1>1, WindowsAssumption DEF ReadPart, ReadWindow, HostPlace, Window
      <3>2. stage' \in [Slot -> Window \cup {Torn}]
        BY <2>1, <3>1, <1>1 DEF ReadPart, ReadWindow
      <3>3. UNCHANGED <<arrived, arena, w, slot, stream, ticket>>
        BY <2>1 DEF ReadPart, ReadWindow, hostVars
      <3> QED BY <3>2, <3>3, <1>1
    <2>2. CASE QueueCopy
      <3>1. CASE stream' = Append(stream, [slot |-> slot, win |-> w]) /\ pc = "copy"
        <4>1. [slot |-> slot, win |-> w] \in [slot : Slot, win : Window]
          BY <3>1, <1>1, WindowsAssumption DEF Window, HostPlace
        <4>2. stream' \in Seq([slot : Slot, win : Window]) /\ Len(stream') = Len(stream) + 1
          BY <3>1, <4>1, <1>1
        <4>3. UNCHANGED <<stage, arena, arrived, w, slot, ticket>>
          BY <2>2 DEF QueueCopy, dataVars
        <4> QED BY <4>2, <4>3, <1>1
      <3>2. CASE UNCHANGED stream BY <2>2, <3>2, <1>1 DEF QueueCopy, dataVars
      <3> QED BY <2>2, <3>1, <3>2 DEF QueueCopy
    <2>3. CASE RecordEvent
      <3>1. w + 1 \in 0 .. Windows BY <2>3, <1>1, WindowsAssumption DEF RecordEvent, HostPlace
      <3> QED BY <2>3, <3>1, <1>1, NextSlot DEF RecordEvent, dataVars
    <2>4. CASE Transfer
      <3>0. arrived + 1 \in 1 .. Len(stream) /\ stream \in Seq([slot : Slot, win : Window])
        BY <2>4, <1>1 DEF Transfer
      <3>1. stream[arrived + 1] \in [slot : Slot, win : Window] BY <3>0, ElementOfSeq
      <3>2. PICK copy \in [slot : Slot, win : Window] :
              arena' = [arena EXCEPT ![copy.win] = stage[copy.slot]]
        BY <2>4, <3>1 DEF Transfer
      <3>3. stage[copy.slot] \in Window \cup {Torn} BY <1>1
      <3>4. arena' \in [Window -> Window \cup {Torn}] BY <3>2, <3>3, <1>1
      <3>5. arrived' \in 0 .. Len(stream) BY <2>4, <1>1 DEF Transfer
      <3> QED BY <2>4, <3>4, <3>5, <1>1 DEF Transfer, hostVars
    <2>5. CASE UNCHANGED <<dataVars, hostVars>> BY <2>5, <1>1 DEF dataVars, hostVars
    <2> QED BY <2>1, <2>2, <2>3, <2>4, <2>5
         DEF Next, Host, Ended, vars, Open, AllocateTable, AllocateArena, AllocateSlot,
             AllocateStream, OpenFile, WaitForSlot, ReadFails, CloseFile, DrainStream,
             BindPointers, InitGemm, Unwind, FreeStore
  <1> QED BY <1>1, <1>2, <1>3, <1>4 DEF TypeOK

-----------------------------------------------------------------------------
\* The steps that leave the stream and the host's counters alone.
LEMMA HostQuiet ==
  ASSUME TypeOK, HostPlace, UNCHANGED hostVars,
         \/ pc' = pc
         \/ pc' \in {"unwind", "failed", "freed"}
         \/ pc \notin Streaming /\ pc' \notin Streaming /\ pc \notin {"unwind", "failed", "freed"}
         \/ pc = "file" /\ pc' = "wait"
         \/ pc = "wait" /\ w < Windows /\ pc' = "read"
         \/ pc = "read" /\ pc' = "copy"
         \/ pc = "wait" /\ w = Windows /\ pc' = "drain"
         \/ pc \in {"drain", "bind", "gemm"} /\ pc' \in {"bind", "gemm", "ready"}
  PROVE  HostPlace'
  <1>1. InTurn' = InTurn BY DEF InTurn, Back, hostVars
  <1>2. /\ Len(stream)' = Len(stream) /\ w' = w /\ slot' = slot /\ stream' = stream
        /\ (\A k \in 1 .. Len(stream) : stream[k].win = k - 1)' <=>
             \A k \in 1 .. Len(stream) : stream[k].win = k - 1
    BY DEF hostVars
  <1>3. CASE pc' = pc
    BY <1>1, <1>2, <1>3 DEF HostPlace
  <1>4. CASE pc \in Streaming /\ pc' \in Streaming \ {pc}
    BY <1>1, <1>2, <1>4 DEF HostPlace, Streaming
  <1>5. CASE pc = "file" /\ pc' = "wait"
    <2>1. w = 0 /\ stream = <<>> BY <1>5 DEF HostPlace, Streaming
    <2> QED BY <1>2, <1>5, <2>1 DEF HostPlace, Streaming, InTurn
  <1>6. CASE pc' \notin Streaming
    BY <1>2, <1>6 DEF HostPlace, Streaming
  <1> QED BY <1>3, <1>4, <1>5, <1>6 DEF Streaming

\* A step of the host keeps its place: the two that move the stream or the
\* counters, and all the others.
LEMMA HostStep ==
  ASSUME TypeOK, HostPlace, TypeOK', [Next \/ Ended]_vars
  PROVE  HostPlace'
  <1> USE WindowsAssumption, SlotsAssumption
  <1>1. CASE QueueCopy
    <2>1. CASE UNCHANGED stream
      BY <1>1, <2>1, HostQuiet DEF QueueCopy, Goto, hostVars
    <2>2. CASE pc' = "record" /\ stream' = Append(stream, [slot |-> slot, win |-> w])
      <3>1. pc = "copy" /\ UNCHANGED <<w, slot, ticket>> BY <1>1 DEF QueueCopy
      <3>2. Len(stream) = w /\ w \in Nat /\ stream \in Seq([slot : Slot, win : Window])
        BY <3>1 DEF HostPlace, Streaming, TypeOK
      <3>3. Len(stream') = w + 1 /\ stream'[w + 1] = [slot |-> slot, win |-> w]
        BY <2>2, <3>2
      <3>4. \A k \in 1 .. w : stream'[k] = stream[k] BY <2>2, <3>2
      <3>5. \A d \in Int : Back(d)' = Back(d) BY <3>1 DEF Back
      <3>6. \A k \in 1 .. w + 1 : stream'[k].win = k - 1
        BY <3>1, <3>2, <3>3, <3>4 DEF HostPlace, Streaming
      <3>7. \A k \in 1 .. w : w - k < Slots =>
              stream'[k].slot = Back(w - k + 1) /\ ticket[stream'[k].slot] = k
        BY <3>1, <3>2, <3>4 DEF HostPlace, Streaming, InTurn
      <3>8. w < Windows BY <3>1 DEF HostPlace
      <3> QED BY <2>2, <3>1, <3>2, <3>3, <3>5, <3>6, <3>7, <3>8 DEF HostPlace, Streaming, InTurn
    <2> QED BY <1>1, <2>1, <2>2 DEF QueueCopy, Goto
  <1>2. CASE RecordEvent
    <2>1. /\ pc = "record" /\ pc' = "wait" /\ stream' = stream
          /\ ticket' = [ticket EXCEPT ![slot] = Len(stream)]
          /\ w' = w + 1 /\ slot' = (slot + 1) % Slots
      BY <1>2 DEF RecordEvent, Goto
    <2>2. /\ w \in Nat /\ slot \in 0 .. Slots - 1 /\ ticket \in [Slot -> Nat]
          /\ slot' = IF slot + 1 = Slots THEN 0 ELSE slot + 1
      BY <2>1, NextSlot DEF TypeOK, Slot
    <2>3. Len(stream) = w + 1 /\ stream[w + 1].slot = slot
      BY <2>1 DEF HostPlace, Streaming
    <2>4. ASSUME NEW k \in 1 .. w', w' - k < Slots
          PROVE  stream[k].slot = Back(w - k + 1)' /\ ticket'[stream[k].slot] = k
      <3>1. CASE k = w + 1
        <4>0. w' - k + 1 = 1 BY <2>1, <2>2, <3>1
        <4>1. Back(1)' = slot BY <2>2 DEF Back
        <4>2. ticket'[slot] = w + 1 BY <2>1, <2>2, <2>3 DEF Slot
        <4> QED BY <2>2, <2>3, <3>1, <4>0, <4>1, <4>2
      <3>2. CASE k # w + 1
        <4>1. k \in 1 .. w /\ w - k < Slots BY <2>1, <2>2, <2>4, <3>2
        <4>2. stream[k].slot = Back(w - k + 1) /\ ticket[stream[k].slot] = k
          BY <2>1, <4>1 DEF HostPlace, Streaming, InTurn
        <4>3. PICK d \in Nat : d = w - k + 1 /\ d >= 1 /\ d < Slots BY <2>1, <2>2, <2>4, <4>1
        <4>4. Back(d + 1)' = Back(d) BY <2>2, <4>3 DEF Back
        <4>5. Back(d) # slot /\ Back(d) \in Slot BY <2>2, <4>3 DEF Back, Slot
        <4>6. ticket'[Back(d)] = ticket[Back(d)] BY <2>1, <2>2, <4>5
        <4>7. w' - k + 1 = d + 1 BY <2>1, <2>2, <4>3
        <4> QED BY <4>2, <4>3, <4>4, <4>6, <4>7
      <3> QED BY <3>1, <3>2
    <2>5. \A k \in 1 .. Len(stream) : stream[k].win = k - 1
      BY <2>1 DEF HostPlace, Streaming
    <2> QED BY <2>1, <2>2, <2>3, <2>4, <2>5 DEF HostPlace, Streaming, InTurn
  <1>3. CASE Open \/ AllocateTable \/ AllocateArena \/ AllocateSlot \/ AllocateStream \/ OpenFile
    BY <1>3, HostQuiet DEF Open, AllocateTable, AllocateArena, AllocateSlot, AllocateStream,
       OpenFile, Goto, Streaming
  <1>4. CASE WaitForSlot \/ ReadPart \/ ReadWindow \/ ReadFails \/ CloseFile
    BY <1>4, HostQuiet DEF WaitForSlot, ReadPart, ReadWindow, ReadFails, CloseFile, Goto
  <1>5. CASE DrainStream \/ BindPointers \/ InitGemm \/ Unwind
    BY <1>5, HostQuiet DEF DrainStream, BindPointers, InitGemm, Unwind, Goto
  <1>6. CASE Transfer \/ FreeStore \/ Ended \/ UNCHANGED vars
    BY <1>6, HostQuiet DEF Transfer, FreeStore, Ended, vars, Goto
  <1> QED BY <1>1, <1>2, <1>3, <1>4, <1>5, <1>6 DEF Next, Host

-----------------------------------------------------------------------------
\* While a window is read, no copy from the slot it is read into is outstanding.
LEMMA OtherSlots ==
  ASSUME TypeOK, HostPlace, SlotsFree, pc = "read"
  PROVE  \A k \in arrived + 1 .. Len(stream) : stream[k].slot \in Slot \ {slot}
  <1> USE WindowsAssumption, SlotsAssumption
  <1>1. /\ w \in Nat /\ arrived \in Nat /\ slot \in 0 .. Slots - 1 /\ Len(stream) = w
        /\ arrived + Slots >= w + 1 /\ InTurn
    BY DEF TypeOK, HostPlace, SlotsFree, Streaming, Slot
  <1>2. TAKE k \in arrived + 1 .. Len(stream)
  <1>3. PICK d \in Nat : d = w - k + 1 /\ d >= 1 /\ d < Slots BY <1>1, <1>2
  <1>4. stream[k].slot = Back(d) BY <1>1, <1>2, <1>3 DEF InTurn
  <1>5. Back(d) \in Slot \ {slot} BY <1>1, <1>3 DEF Back, Slot
  <1> QED BY <1>4, <1>5

\* The event the host waits for stands behind the copy of one round ago.
LEMMA SlotReleased ==
  ASSUME TypeOK, HostPlace, SlotsFree, WaitForSlot
  PROVE  arrived + Slots >= w + 1
  <1> USE WindowsAssumption, SlotsAssumption
  <1>1. /\ pc = "wait" /\ w \in Nat /\ arrived \in Nat /\ slot \in 0 .. Slots - 1
        /\ w >= Slots => arrived >= ticket[slot]
        /\ InTurn
    BY DEF TypeOK, HostPlace, SlotsFree, Streaming, Slot, WaitForSlot
  <1>2. CASE w >= Slots
    <2>1. PICK k \in 1 .. w : k = w - Slots + 1 BY <1>1, <1>2
    <2>2. w - k < Slots /\ w - k + 1 = Slots BY <1>1, <2>1
    <2>3. Back(Slots) = slot BY <1>1 DEF Back
    <2>4. stream[k].slot = slot /\ ticket[slot] = k BY <1>1, <2>1, <2>2, <2>3 DEF InTurn
    <2> QED BY <1>1, <1>2, <2>1, <2>4
  <1>3. CASE w < Slots BY <1>1, <1>3
  <1> QED BY <1>1, <1>2, <1>3

\* Every step keeps the bound on what is outstanding.
LEMMA SlotsStep ==
  ASSUME TypeOK, HostPlace, SlotsFree, TypeOK', HostPlace', [Next \/ Ended]_vars
  PROVE  SlotsFree'
  <1> USE WindowsAssumption, SlotsAssumption
  <1>0. /\ w \in Nat /\ arrived \in Nat /\ slot \in Slot /\ Len(stream) \in Nat
        /\ w <= Windows /\ arrived <= Len(stream)
    BY DEF TypeOK
  <1>1. CASE Open \/ AllocateTable \/ AllocateArena \/ AllocateSlot \/ AllocateStream
    BY <1>1 DEF Open, AllocateTable, AllocateArena, AllocateSlot, AllocateStream, Goto,
       SlotsFree, Streaming
  <1>2. CASE OpenFile
    <2>1. w = 0 /\ w' = 0 /\ arrived' = arrived
      BY <1>2 DEF OpenFile, HostPlace, Streaming, dataVars, hostVars
    <2> QED BY <1>0, <1>2, <2>1 DEF OpenFile, Goto, SlotsFree, Streaming
  <1>3. CASE WaitForSlot
    BY <1>0, <1>3, SlotReleased DEF WaitForSlot, Goto, SlotsFree, Streaming, dataVars, hostVars
  <1>4. CASE ReadPart \/ ReadFails \/ CloseFile
    BY <1>4 DEF ReadPart, ReadFails, CloseFile, Goto, SlotsFree, Streaming, dataVars, hostVars
  <1>5. CASE ReadWindow
    <2>1. stage'[slot] = w BY <1>0, <1>5 DEF ReadWindow, TypeOK
    <2> QED BY <1>5, <2>1 DEF ReadWindow, Goto, SlotsFree, Streaming, hostVars
  <1>6. CASE QueueCopy
    BY <1>6 DEF QueueCopy, Goto, SlotsFree, Streaming, dataVars
  <1>7. CASE RecordEvent
    BY <1>0, <1>7 DEF RecordEvent, Goto, SlotsFree, Streaming, dataVars
  <1>8. CASE DrainStream
    <2>1. Len(stream) = Windows BY <1>8 DEF DrainStream, HostPlace, Streaming
    <2> QED BY <1>8, <2>1 DEF DrainStream, Goto, SlotsFree, Streaming, dataVars, hostVars
  <1>9. CASE BindPointers \/ InitGemm \/ Unwind \/ FreeStore
    BY <1>9 DEF BindPointers, InitGemm, Unwind, FreeStore, Goto, SlotsFree, Streaming,
       dataVars, hostVars
  <1>10. CASE Transfer
    <2>1. pc \notin {"bind", "gemm", "ready"}
      BY <1>0, <1>10 DEF Transfer, HostPlace, SlotsFree, Streaming
    <2>2. pc' = pc /\ w' = w /\ slot' = slot /\ stage' = stage /\ arrived' = arrived + 1
      BY <1>10 DEF Transfer, hostVars
    <2> QED BY <1>0, <2>1, <2>2 DEF SlotsFree
  <1>11. CASE Ended \/ UNCHANGED vars
    BY <1>11 DEF Ended, vars, SlotsFree, dataVars, hostVars
  <1> QED BY <1>1, <1>2, <1>3, <1>4, <1>5, <1>6, <1>7, <1>8, <1>9, <1>10, <1>11 DEF Next, Host

\* Every step keeps what the outstanding copies are going to read.
LEMMA IntactStep ==
  ASSUME TypeOK, HostPlace, SlotsFree, SlotIntact, TypeOK', HostPlace', SlotsFree',
         [Next \/ Ended]_vars
  PROVE  SlotIntact'
  <1> USE WindowsAssumption, SlotsAssumption
  <1>0. arrived \in Nat /\ Len(stream) \in Nat /\ slot \in Slot BY DEF TypeOK
  <1>1. CASE ReadPart \/ ReadWindow
    <2>1. pc = "read" /\ stream' = stream /\ arrived' = arrived
      BY <1>1 DEF ReadPart, ReadWindow, hostVars
    <2>2. \A s \in Slot \ {slot} : stage'[s] = stage[s]
      BY <1>0, <1>1 DEF ReadPart, ReadWindow, TypeOK
    <2> QED BY <2>1, <2>2, OtherSlots DEF SlotIntact
  <1>2. CASE QueueCopy
    <2>1. CASE UNCHANGED stream BY <1>2, <2>1 DEF QueueCopy, SlotIntact, dataVars
    <2>2. CASE pc = "copy" /\ stream' = Append(stream, [slot |-> slot, win |-> w])
      <3>1. stage' = stage /\ arrived' = arrived BY <1>2 DEF QueueCopy, dataVars
      <3>2. stage[slot] = w BY <2>2 DEF SlotsFree
      <3>3. stream \in Seq([slot : Slot, win : Window]) BY DEF TypeOK
      <3>4. Len(stream') = Len(stream) + 1
            /\ stream'[Len(stream) + 1] = [slot |-> slot, win |-> w]
            /\ \A k \in 1 .. Len(stream) : stream'[k] = stream[k]
        BY <2>2, <3>3
      <3>5. ASSUME NEW k \in arrived + 1 .. Len(stream) + 1
            PROVE  stage[stream'[k].slot] = stream'[k].win
        <4>1. CASE k = Len(stream) + 1 BY <3>2, <3>4, <4>1
        <4>2. CASE k # Len(stream) + 1
          <5>1. k \in arrived + 1 .. Len(stream) /\ k \in 1 .. Len(stream) BY <1>0, <4>2
          <5> QED BY <3>4, <5>1 DEF SlotIntact
        <4> QED BY <4>1, <4>2
      <3> QED BY <3>1, <3>4, <3>5 DEF SlotIntact
    <2> QED BY <1>2, <2>1, <2>2 DEF QueueCopy
  <1>3. CASE Transfer
    <2>1. stage' = stage /\ stream' = stream /\ arrived' = arrived + 1
      BY <1>3 DEF Transfer, hostVars
    <2> QED BY <1>0, <2>1 DEF SlotIntact
  <1>4. CASE UNCHANGED <<stage, stream, arrived>> BY <1>4 DEF SlotIntact
  <1> QED BY <1>1, <1>2, <1>3, <1>4
       DEF Next, Host, Ended, vars, dataVars, hostVars, Open, AllocateTable, AllocateArena,
           AllocateSlot, AllocateStream, OpenFile, WaitForSlot, ReadFails, RecordEvent,
           CloseFile, DrainStream, BindPointers, InitGemm, Unwind, FreeStore

\* What a copy brings: its own window, to its own place, in the order of the windows.
LEMMA CopyBrings ==
  ASSUME TypeOK, HostPlace, SlotIntact, Transfer
  PROVE  \E v \in Window : /\ stream[arrived + 1].win = v
                           /\ arena' = [arena EXCEPT ![v] = v]
                           /\ pc \in Streaming => v = arrived
  <1>1. arrived + 1 \in 1 .. Len(stream) /\ arrived + 1 \in arrived + 1 .. Len(stream)
    BY DEF Transfer, TypeOK
  <1>2. stream \in Seq([slot : Slot, win : Window]) BY DEF TypeOK
  <1>3. stream[arrived + 1] \in [slot : Slot, win : Window] BY <1>1, <1>2, ElementOfSeq
  <1>4. PICK copy \in [slot : Slot, win : Window] :
          copy = stream[arrived + 1] /\ arena' = [arena EXCEPT ![copy.win] = stage[copy.slot]]
    BY <1>3 DEF Transfer
  <1>5. stage[copy.slot] = copy.win BY <1>1, <1>4 DEF SlotIntact
  <1>6. pc \in Streaming => copy.win = arrived
    <2>1. PICK k \in 1 .. Len(stream) : k = arrived + 1 BY <1>1
    <2>2. pc \in Streaming => stream[k].win = k - 1 BY DEF HostPlace
    <2>3. arrived \in Nat BY DEF TypeOK
    <2> QED BY <1>4, <2>1, <2>2, <2>3
  <1> QED BY <1>3, <1>4, <1>5, <1>6

\* Every step keeps the arena.
LEMMA ArenaStep ==
  ASSUME TypeOK, HostPlace, SlotIntact, ArenaPlace, TypeOK', HostPlace', [Next \/ Ended]_vars
  PROVE  ArenaPlace'
  <1>0. arrived \in Nat /\ Len(stream) \in Nat /\ stream \in Seq([slot : Slot, win : Window])
    BY DEF TypeOK
  <1>1. CASE Transfer
    <2>1. PICK v \in Window : /\ stream[arrived + 1].win = v
                              /\ arena' = [arena EXCEPT ![v] = v]
                              /\ pc \in Streaming => v = arrived
      BY <1>1, CopyBrings
    <2>2. stream' = stream /\ arrived' = arrived + 1 /\ pc' = pc BY <1>1 DEF Transfer, hostVars
    <2>3. arena \in [Window -> Window \cup {Torn}] BY DEF TypeOK
    <2>4. ASSUME NEW k \in 1 .. Len(stream), k <= arrived + 1
          PROVE  arena'[stream[k].win] = stream[k].win
      <3>1. stream[k] \in [slot : Slot, win : Window] BY <1>0, ElementOfSeq
      <3>2. stream[k].win \in Window BY <3>1
      <3>3. CASE k = arrived + 1 BY <2>1, <2>3, <3>3
      <3>4. CASE k <= arrived
        <4>1. arena[stream[k].win] = stream[k].win BY <3>4 DEF ArenaPlace
        <4> QED BY <2>1, <2>3, <3>2, <4>1
      <3> QED BY <1>0, <2>4, <3>3, <3>4
    <2>5. ASSUME pc \notin {"unwind", "failed", "freed"}, NEW u \in Window, u >= arrived + 1
          PROVE  arena'[u] = Torn
      <3>1. pc \in Streaming
        BY <1>0, <1>1, <2>5 DEF Transfer, HostPlace
      <3>2. u # v /\ u >= arrived BY <1>0, <2>1, <2>5, <3>1, WindowsAssumption DEF Window
      <3> QED BY <2>1, <2>3, <2>5, <3>2 DEF ArenaPlace
    <2>6. \A u \in Window : arena'[u] \in {u, Torn} BY <2>1, <2>3 DEF ArenaPlace
    <2> QED BY <2>2, <2>4, <2>5, <2>6 DEF ArenaPlace
  <1>2. CASE QueueCopy
    <2>1. CASE UNCHANGED stream BY <1>2, <2>1 DEF QueueCopy, ArenaPlace, dataVars, Goto
    <2>2. CASE pc = "copy" /\ stream' = Append(stream, [slot |-> slot, win |-> w])
      <3>1. /\ \A k \in 1 .. Len(stream) : stream'[k] = stream[k]
            /\ Len(stream') = Len(stream) + 1
        BY <1>0, <2>2
      <3>2. arena' = arena /\ arrived' = arrived /\ arrived <= Len(stream)
        BY <1>2 DEF QueueCopy, dataVars, TypeOK
      <3>3. \A k \in 1 .. Len(stream') : k <= arrived => k \in 1 .. Len(stream)
        BY <1>0, <3>1, <3>2
      <3> QED BY <2>2, <3>1, <3>2, <3>3 DEF ArenaPlace
    <2> QED BY <1>2, <2>1, <2>2 DEF QueueCopy
  <1>3. CASE UNCHANGED <<arena, stream, arrived>> /\ (pc \in {"unwind", "failed", "freed"} => pc' \in {"unwind", "failed", "freed"})
    BY <1>3 DEF ArenaPlace
  <1> QED BY <1>1, <1>2, <1>3
       DEF Next, Host, Ended, vars, dataVars, hostVars, Goto, Open, AllocateTable, AllocateArena,
           AllocateSlot, AllocateStream, OpenFile, WaitForSlot, ReadPart, ReadWindow, ReadFails,
           RecordEvent, CloseFile, DrainStream, BindPointers, InitGemm, Unwind, FreeStore

-----------------------------------------------------------------------------
\* Every step keeps the account of what is acquired.
LEMMA HeldStep ==
  ASSUME TypeOK, HostPlace, HeldPlace, TypeOK', [Next \/ Ended]_vars
  PROVE  HeldPlace'
  <1> USE DEF HeldPlace, Held
  <1>0. \A r \in Resource : owned[r] \in Int /\ known[r] \in Nat BY DEF TypeOK
  <1>r. Resource = {"path", "gguf", "table", "arena", "slot", "event", "stream", "file", "gemm"}
    BY DEF Resource
  <1>t. /\ owned \in [Resource -> Int] /\ known \in [Resource -> Nat]
        /\ owned' \in [Resource -> Int] /\ known' \in [Resource -> Nat]
    BY DEF TypeOK
  <1>1. CASE Open
    <2>0. pc = "open" BY <1>1 DEF Open
    <2>1. CASE Acquire("gguf") /\ Goto("table")
      BY <1>0, <1>r, <1>t, <2>0, <2>1 DEF Acquire, Goto, PC, Streaming
    <2>2. CASE Acquire("path") /\ Goto("failed")
      BY <1>0, <1>r, <1>t, <2>0, <2>2 DEF Acquire, Goto, PC, Streaming
    <2>3. CASE UNCHANGED heldVars /\ Goto("failed")
      BY <1>0, <1>r, <1>t, <2>0, <2>3 DEF heldVars, Goto, PC, Streaming
    <2> QED BY <1>1, <2>1, <2>2, <2>3 DEF Open
  <1>2. CASE AllocateTable
    <2>0. pc = "table" BY <1>2 DEF AllocateTable
    <2>1. CASE Acquire("table") /\ Goto("arena")
      BY <1>0, <1>r, <1>t, <2>0, <2>1 DEF Acquire, Goto, PC, Streaming
    <2>2. CASE Release({"gguf"}) /\ Goto("failed")
      BY <1>0, <1>r, <1>t, <2>0, <2>2 DEF Release, Goto, PC, Streaming
    <2> QED BY <1>2, <2>1, <2>2 DEF AllocateTable
  <1>3. CASE AllocateArena
    <2>0. pc = "arena" BY <1>3 DEF AllocateArena
    <2>1. CASE Acquire("arena") /\ Goto("slots")
      BY <1>0, <1>r, <1>t, <2>0, <2>1 DEF Acquire, Goto, PC, Streaming
    <2>2. CASE Release({"gguf", "table"}) /\ Goto("failed")
      BY <1>0, <1>r, <1>t, <2>0, <2>2 DEF Release, Goto, PC, Streaming
    <2> QED BY <1>3, <2>1, <2>2 DEF AllocateArena
  <1>4. CASE AllocateSlot
    BY <1>0, <1>r, <1>t, <1>4 DEF AllocateSlot, Goto, heldVars, PC, Streaming
  <1>5. CASE AllocateStream \/ OpenFile
    BY <1>0, <1>r, <1>t, <1>5 DEF AllocateStream, OpenFile, Acquire, Goto, heldVars, PC, Streaming
  <1>6. CASE ReadFails \/ CloseFile
    BY <1>0, <1>r, <1>t, <1>6 DEF ReadFails, CloseFile, Release, Forget, Goto, PC, Streaming
  <1>7. CASE QueueCopy
    <2>0. pc = "copy" BY <1>7 DEF QueueCopy
    <2>1. CASE UNCHANGED heldVars /\ Goto("record")
      BY <1>t, <2>0, <2>1 DEF heldVars, Goto, PC, Streaming
    <2>2. CASE Release({"file"}) /\ Forget({"file"}) /\ Goto("unwind")
      BY <1>0, <1>r, <1>t, <2>0, <2>2 DEF Release, Forget, Goto, PC, Streaming
    <2> QED BY <1>7, <2>1, <2>2 DEF QueueCopy
  <1>8. CASE WaitForSlot \/ ReadPart \/ ReadWindow \/ RecordEvent \/ DrainStream
    <2>1. /\ owned' = owned /\ known' = known
          /\ pc \in {"wait", "read", "record", "drain"}
          /\ \/ pc \in {"wait", "read", "record"} /\ pc' \in {"wait", "read", "copy", "record"}
             \/ pc = "drain" /\ pc' \in {"bind", "unwind"}
      BY <1>8 DEF WaitForSlot, ReadPart, ReadWindow, RecordEvent, DrainStream, Goto, heldVars
    <2>2. CASE pc = "drain"
      BY <1>0, <1>r, <2>1, <2>2 DEF PC, Streaming
    <2>3. CASE pc \in {"wait", "read", "record"} /\ pc' \in {"wait", "read", "copy", "record"}
      BY <2>1, <2>3 DEF PC, Streaming
    <2> QED BY <2>1, <2>2, <2>3
  <1>9. CASE BindPointers
    BY <1>0, <1>r, <1>t, <1>9 DEF BindPointers, Release, Goto, PC, Streaming
  <1>10. CASE InitGemm
    BY <1>0, <1>r, <1>t, <1>10 DEF InitGemm, Release, Forget, Goto, PC, Streaming
  <1>11. CASE Unwind
    BY <1>0, <1>r, <1>t, <1>11 DEF Unwind, Release, Forget, Goto
  <1>12. CASE FreeStore
    BY <1>0, <1>r, <1>t, <1>12 DEF FreeStore, Store, Release, Forget, Goto, PC, Streaming
  <1>13. CASE Transfer \/ Ended \/ UNCHANGED vars
    BY <1>13 DEF Transfer, Ended, vars, heldVars
  <1> QED BY <1>1, <1>2, <1>3, <1>4, <1>5, <1>6, <1>7, <1>8, <1>9, <1>10, <1>11, <1>12, <1>13
       DEF Next, Host

-----------------------------------------------------------------------------
\* Every reachable state satisfies the inductive invariant.
THEOREM InvariantHolds == Spec => []IInv
  <1>1. Init => IInv BY InitInvariant
  <1>2. IInv /\ [Next \/ Ended]_vars => IInv'
    <2> SUFFICES ASSUME IInv, [Next \/ Ended]_vars PROVE IInv' OBVIOUS
    <2>0. TypeOK /\ HostPlace /\ SlotsFree /\ SlotIntact /\ ArenaPlace /\ HeldPlace BY DEF IInv
    <2>1. TypeOK' BY <2>0, TypeStep
    <2>2. HostPlace' BY <2>0, <2>1, HostStep
    <2>3. SlotsFree' BY <2>0, <2>1, <2>2, SlotsStep
    <2>4. SlotIntact' BY <2>0, <2>1, <2>2, <2>3, IntactStep
    <2>5. ArenaPlace' BY <2>0, <2>1, <2>2, ArenaStep
    <2>6. HeldPlace' BY <2>0, <2>1, HeldStep
    <2> QED BY <2>1, <2>2, <2>3, <2>4, <2>5, <2>6 DEF IInv
  <1> QED BY <1>1, <1>2, PTL DEF Spec

\* The variables keep their types; in particular every reference into the
\* windows and the slots is in range.
THEOREM TypeCorrect == Spec => []TypeOK
  <1>1. IInv => TypeOK BY DEF IInv
  <1> QED BY <1>1, InvariantHolds, PTL

\* The host never refills a slot whose copy is not done, for any number of
\* windows and slots.
THEOREM SlotsStayIntact == Spec => []SlotIntact
  <1>1. IInv => SlotIntact BY DEF IInv
  <1> QED BY <1>1, InvariantHolds, PTL

\* When every copy is done, every window is in its place.
LEMMA AllArrived ==
  ASSUME IInv, pc \in {"gemm", "ready"}
  PROVE  \A v \in Window : arena[v] = v
  <1>1. Len(stream) = Windows /\ arrived = Windows
    BY DEF IInv, HostPlace, SlotsFree, Streaming
  <1>2. TAKE v \in Window
  <1>3. PICK k \in 1 .. Len(stream) : k = v + 1 /\ k <= arrived
    BY <1>1, <1>2, WindowsAssumption DEF Window
  <1>4. stream[k].win = k - 1 BY DEF IInv, HostPlace, Streaming
  <1>5. k - 1 = v BY <1>2, <1>3, WindowsAssumption DEF Window
  <1>6. arena[stream[k].win] = stream[k].win BY <1>3 DEF IInv, ArenaPlace
  <1> QED BY <1>4, <1>5, <1>6

\* A load that reports success is complete and holds nothing but the store.
THEOREM CompleteWhenReady == Spec => []ReadyIsComplete
  <1>1. IInv => ReadyIsComplete
    <2> SUFFICES ASSUME IInv, pc = "ready" PROVE ReadyIsComplete BY DEF ReadyIsComplete
    <2>1. \A v \in Window : arena[v] = v BY AllArrived
    <2>2. \A r \in Resource : owned[r] = IF r \in Store THEN 1 ELSE 0
      BY DEF IInv, HeldPlace, Held, Resource, Store, Streaming, PC
    <2> QED BY <2>1, <2>2 DEF ReadyIsComplete
  <1> QED BY <1>1, InvariantHolds, PTL

\* A load that ended leaves nothing allocated, but for the path.
THEOREM LeavesNothing == Spec => []NothingLeaks
  <1>1. IInv => NothingLeaks BY DEF IInv, HeldPlace, NothingLeaks
  <1> QED BY <1>1, InvariantHolds, PTL

-----------------------------------------------------------------------------
\* The two variables of the promise, as the loader's state gives them.
Memory == [v \in Window |->
             IF pc \in {"failed", "freed"} \/ arena[v] = Torn THEN "missing"
             ELSE IF arena[v] = v THEN "loaded" ELSE "wrong"]

Outcome == IF pc \in {"ready", "failed", "freed"} THEN pc ELSE "loading"

\* A step that leaves the arena alone and does not end anything is a stutter.
LEMMA Stutters ==
  ASSUME UNCHANGED arena,
         pc \notin {"ready", "failed", "freed"}, pc' \notin {"ready", "failed", "freed"}
  PROVE  Memory' = Memory /\ Outcome' = Outcome
  BY DEF Memory, Outcome

\* Every step of the loader is a step of the promise or a stutter.
LEMMA PromiseStep ==
  ASSUME IInv, IInv', [Next \/ Ended]_vars
  PROVE  [Promise!Next]_(Promise!vars)
  <1> USE DEF Promise!vars
  <1>m. Memory = [v \in Window |->
             IF pc \in {"failed", "freed"} \/ arena[v] = Torn THEN "missing"
             ELSE IF arena[v] = v THEN "loaded" ELSE "wrong"]
    BY DEF Memory
  <1>n. \A v \in Window : v # Torn BY WindowsAssumption DEF Window, Torn
  <1>1. ASSUME pc \notin {"ready", "failed", "freed"}, pc' = "failed"
        PROVE  Promise!Fail
    BY <1>1 DEF Promise!Fail
  <1>2. CASE \/ Open \/ AllocateTable \/ AllocateArena \/ AllocateSlot \/ AllocateStream
             \/ OpenFile \/ WaitForSlot \/ ReadPart \/ ReadWindow \/ ReadFails \/ QueueCopy
             \/ RecordEvent \/ CloseFile \/ DrainStream \/ BindPointers \/ Unwind
    <2>1. /\ arena' = arena /\ pc \notin {"ready", "failed", "freed"}
          /\ pc' \notin {"ready", "freed"}
      BY <1>2 DEF Open, AllocateTable, AllocateArena, AllocateSlot, AllocateStream, OpenFile,
         WaitForSlot, ReadPart, ReadWindow, ReadFails, QueueCopy, RecordEvent, CloseFile,
         DrainStream, BindPointers, Unwind, Goto, dataVars
    <2>2. CASE pc' = "failed" BY <1>1, <2>1, <2>2 DEF Promise!Next
    <2>3. CASE pc' # "failed" BY <2>1, <2>3, Stutters DEF Memory, Outcome
    <2> QED BY <2>2, <2>3
  <1>3. CASE InitGemm
    <2>1. arena' = arena /\ pc = "gemm" BY <1>3 DEF InitGemm, dataVars
    <2>2. CASE pc' = "ready"
      <3>1. \A v \in Window : arena[v] = v BY <2>1, AllArrived
      <3>2. Promise!HandOut BY <2>1, <2>2, <3>1, <1>n DEF Promise!HandOut
      <3> QED BY <3>2 DEF Promise!Next
    <2>3. CASE pc' = "unwind" BY <2>1, <2>3, Stutters DEF Memory, Outcome
    <2> QED BY <1>3, <2>2, <2>3 DEF InitGemm, Goto
  <1>4. CASE FreeStore
    <2>1. Promise!Free BY <1>4 DEF FreeStore, Goto, Promise!Free
    <2> QED BY <2>1 DEF Promise!Next
  <1>5. CASE Transfer
    <2>1. PICK v \in Window : arena' = [arena EXCEPT ![v] = v] BY <1>5, CopyBrings DEF IInv
    <2>2. pc' = pc /\ pc \notin {"failed", "freed"} BY <1>5 DEF Transfer
    <2>3. arena \in [Window -> Window \cup {Torn}] BY DEF IInv, TypeOK
    <2>4. CASE arena[v] = v
      <3>1. arena' = arena BY <2>1, <2>3, <2>4
      <3> QED BY <2>2, <3>1
    <2>5. CASE arena[v] = Torn
      <3>1. pc # "ready" BY <1>n, <2>5, AllArrived
      <3>2. Memory' = [Memory EXCEPT ![v] = "loaded"]
        BY <2>1, <2>2, <2>3, <2>5, <1>n DEF Memory
      <3>3. Promise!Arrive(v) BY <2>2, <2>5, <3>1, <3>2 DEF Promise!Arrive, Memory
      <3> QED BY <3>3 DEF Promise!Next
    <2> QED BY <2>4, <2>5 DEF IInv, ArenaPlace
  <1>6. CASE Ended \/ UNCHANGED vars
    BY <1>6 DEF Ended, vars, dataVars
  <1> QED BY <1>2, <1>3, <1>4, <1>5, <1>6 DEF Next, Host

\* The loader implements the promise: parts arrive one by one, each whole and
\* its own, the store is handed out complete or not at all.
THEOREM LoaderKeepsPromise == Spec => ImplementsIngest
  <1>1. Init => Promise!Init
    BY DEF Init, Promise!Init
  <1>2. IInv /\ IInv' /\ [Next \/ Ended]_vars => [Promise!Next]_(Promise!vars)
    BY PromiseStep
  <1> QED BY <1>1, <1>2, InvariantHolds, PTL DEF Spec, ImplementsIngest, Promise!Spec

-----------------------------------------------------------------------------
ShardProofs == INSTANCE WeightLoader_proofs WITH
  pc <- spc, slot <- sslot, stream <- sstream, arrived <- sarrived,
  ticket <- sticket, arena <- sarena

\* The entries of the file, and what the file is assumed to be.
LEMMA EntriesType ==
  ASSUME file \in Files
  PROVE  /\ Header!Entries \in Seq(Header!Entry) /\ Len(Header!Entries) \in Nat
         /\ Len(Header!Entries) >= 1 /\ file.length \in Nat
         /\ Header!Entries[Len(Header!Entries)].kind # "skipped"
         /\ \A k \in 1 .. Len(Header!Entries) :
              /\ Header!Entries[k].head \in Nat /\ Header!Entries[k].head >= 1
              /\ Header!Entries[k].tail \in Nat
              /\ Header!Entries[k].kind \in {"tested", "skipped", "bad", "unsupported"}
  <1>1. /\ Header!Entries \in Seq(Header!Entry) /\ file.length \in Nat /\ Header!Entries # <<>>
        /\ Header!Entries[Len(Header!Entries)].kind # "skipped"
    BY HeaderAssumption DEF Header!FileAssumption, Header!Entries
  <1>2. Len(Header!Entries) \in Nat /\ Len(Header!Entries) >= 1 BY <1>1
  <1>3. ASSUME NEW k \in 1 .. Len(Header!Entries)
        PROVE  Header!Entries[k] \in Header!Entry
    BY <1>1, ElementOfSeq
  <1> QED BY <1>1, <1>2, <1>3 DEF Header!Entry, Header!Kinds

\* A table of the first m places in the header, each behind the entry before it.
PlacesUpTo(m, f) ==
  /\ f \in [1 .. m -> Nat]
  /\ \A j \in 1 .. m :
       f[j] = IF j = 1 THEN 0 ELSE f[j - 1] + Header!Entries[j - 1].head + Header!Entries[j - 1].tail

\* There is a table of all places.
LEMMA PlacesExist ==
  ASSUME file \in Files
  PROVE  \E f : PlacesUpTo(Len(Header!Entries) + 1, f)
  <1> DEFINE L == Len(Header!Entries)
             S == {m \in Nat : m <= L => \E f : PlacesUpTo(m + 1, f)}
  <1>0. L \in Nat BY EntriesType
  <1>1. 0 \in S
    <2>1. PlacesUpTo(1, [j \in 1 .. 1 |-> 0]) BY DEF PlacesUpTo
    <2> QED BY <2>1
  <1>2. ASSUME NEW m \in Nat, m \in S PROVE m + 1 \in S
    <2> SUFFICES ASSUME m + 1 <= L PROVE \E f : PlacesUpTo(m + 2, f) OBVIOUS
    <2>1. PICK f : PlacesUpTo(m + 1, f) BY <1>0, <1>2
    <2>2. m + 1 \in 1 .. L /\ m + 1 \in 1 .. m + 1 BY <1>0
    <2>3. f \in [1 .. m + 1 -> Nat] /\ f[m + 1] \in Nat BY <2>1, <2>2 DEF PlacesUpTo
    <2> DEFINE next == f[m + 1] + Header!Entries[m + 1].head + Header!Entries[m + 1].tail
               g    == [j \in 1 .. m + 2 |-> IF j = m + 2 THEN next ELSE f[j]]
    <2>4. next \in Nat
      <3>1. Header!Entries[m + 1].head \in Nat /\ Header!Entries[m + 1].tail \in Nat
        BY <2>2, EntriesType
      <3> QED BY <2>3, <3>1
    <2>5. \A j \in 1 .. m + 2 : j # m + 2 => j \in 1 .. m + 1 OBVIOUS
    <2>6. g \in [1 .. m + 2 -> Nat] BY <2>3, <2>4, <2>5
    <2>7. ASSUME NEW j \in 1 .. m + 2
          PROVE  g[j] = IF j = 1 THEN 0
                        ELSE g[j - 1] + Header!Entries[j - 1].head + Header!Entries[j - 1].tail
      <3>1. CASE j = m + 2
        <4>1. j - 1 = m + 1 /\ j # 1 /\ m + 1 \in 1 .. m + 2 /\ m + 1 # m + 2 BY <3>1
        <4>2. g[j] = next /\ g[m + 1] = f[m + 1] BY <3>1, <4>1
        <4> QED BY <4>1, <4>2
      <3>2. CASE j \in 2 .. m + 1
        <4>1. /\ j - 1 \in 1 .. m + 2 /\ j - 1 # m + 2 /\ j # m + 2 /\ j # 1 /\ j \in 1 .. m + 1
          BY <3>2
        <4>2. g[j] = f[j] /\ g[j - 1] = f[j - 1] BY <4>1
        <4>3. f[j] = f[j - 1] + Header!Entries[j - 1].head + Header!Entries[j - 1].tail
          BY <2>1, <4>1 DEF PlacesUpTo
        <4> QED BY <4>1, <4>2, <4>3
      <3>3. CASE j = 1
        <4>1. 1 \in 1 .. m + 2 /\ 1 # m + 2 /\ 1 \in 1 .. m + 1 OBVIOUS
        <4>2. g[1] = f[1] /\ f[1] = 0 BY <2>1, <4>1 DEF PlacesUpTo
        <4> QED BY <3>3, <4>2
      <3> QED BY <3>1, <3>2, <3>3
    <2> HIDE DEF g
    <2>8. PlacesUpTo(m + 2, g) BY <2>6, <2>7 DEF PlacesUpTo
    <2> QED BY <2>8
  <1> HIDE DEF S
  <1>3. Nat \subseteq S BY <1>1, <1>2, ShardProofs!Induction
  <1> QED BY <1>0, <1>3 DEF S

\* The places are the ones the parser walks through.
LEMMA PlacesFollow ==
  ASSUME file \in Files
  PROVE  /\ \A k \in 1 .. Len(Header!Entries) + 1 : Header!Pos(k) \in Nat
         /\ Header!Pos(1) = 0
         /\ \A k \in 1 .. Len(Header!Entries) :
              Header!Pos(k + 1) = Header!Pos(k) + Header!Entries[k].head + Header!Entries[k].tail
  <1> DEFINE L == Len(Header!Entries)
             F(f) == f = [j \in 1 .. L + 1 |->
                           IF j = 1 THEN 0
                           ELSE f[j - 1] + Header!Entries[j - 1].head + Header!Entries[j - 1].tail]
             pos == CHOOSE f : F(f)
  <1>0. L \in Nat /\ L >= 1 BY EntriesType
  <1>1. PICK g : PlacesUpTo(L + 1, g) BY PlacesExist
  <1>2. F(g)
    <2>1. g = [j \in 1 .. L + 1 |-> g[j]] BY <1>1 DEF PlacesUpTo
    <2> QED BY <1>1, <2>1 DEF PlacesUpTo
  <1>3. F(pos) BY <1>2
  <1>4. \A k : Header!Pos(k) = pos[k] BY DEF Header!Pos
  <1> HIDE DEF pos
  <1>5. \A j \in 1 .. L + 1 :
          pos[j] = IF j = 1 THEN 0
                   ELSE pos[j - 1] + Header!Entries[j - 1].head + Header!Entries[j - 1].tail
    BY <1>3
  <1> HIDE DEF F
  <1>6. 1 \in 1 .. L + 1 BY <1>0
  <1>7. pos[1] = 0 BY <1>5, <1>6
  <1>8. ASSUME NEW k \in 1 .. L
        PROVE  pos[k + 1] = pos[k] + Header!Entries[k].head + Header!Entries[k].tail
    <2>1. k + 1 \in 1 .. L + 1 /\ k + 1 # 1 /\ (k + 1) - 1 = k BY <1>0
    <2> QED BY <1>5, <2>1
  <1> DEFINE S == {n \in Nat : n <= L => pos[n + 1] \in Nat}
  <1>9. 0 \in S BY <1>7
  <1>10. ASSUME NEW n \in Nat, n \in S PROVE n + 1 \in S
    <2> SUFFICES ASSUME n + 1 <= L PROVE pos[n + 2] \in Nat OBVIOUS
    <2>1. n + 1 \in 1 .. L /\ (n + 1) + 1 = n + 2 BY <1>0
    <2>2. pos[n + 1] \in Nat BY <1>0, <1>10
    <2>3. pos[n + 2] = pos[n + 1] + Header!Entries[n + 1].head + Header!Entries[n + 1].tail
      BY <1>8, <2>1
    <2> QED BY <2>1, <2>2, <2>3, EntriesType
  <1> HIDE DEF S
  <1>11. Nat \subseteq S BY <1>9, <1>10, ShardProofs!Induction
  <1>12. ASSUME NEW k \in 1 .. L + 1 PROVE pos[k] \in Nat
    <2>1. k - 1 \in Nat /\ k - 1 <= L /\ (k - 1) + 1 = k BY <1>0
    <2> QED BY <1>11, <2>1 DEF S
  <1> QED BY <1>4, <1>7, <1>8, <1>12

\* No entry ends behind the header.
LEMMA HeaderIsLast ==
  ASSUME file \in Files, NEW k \in 1 .. Len(Header!Entries)
  PROVE  /\ Header!Pos(k) + Header!Entries[k].head <= Header!HeaderLength
         /\ Header!Pos(k + 1) <= Header!HeaderLength
         /\ Header!HeaderLength \in Nat /\ Header!HeaderLength >= 1
  <1> DEFINE L == Len(Header!Entries)
             S == {d \in Nat : \A j \in 1 .. L + 1 : j + d <= L + 1 => Header!Pos(j) <= Header!Pos(j + d)}
  <1>0. L \in Nat /\ L >= 1 BY EntriesType
  <1>1. \A j \in 1 .. L + 1 : Header!Pos(j) \in Nat BY PlacesFollow
  <1>2. 0 \in S
    <2> SUFFICES ASSUME NEW j \in 1 .. L + 1 PROVE Header!Pos(j) <= Header!Pos(j + 0) OBVIOUS
    <2>1. j + 0 = j BY <1>0
    <2> QED BY <1>1, <2>1
  <1>3. ASSUME NEW d \in Nat, d \in S PROVE d + 1 \in S
    <2> SUFFICES ASSUME NEW j \in 1 .. L + 1, j + (d + 1) <= L + 1
                 PROVE  Header!Pos(j) <= Header!Pos(j + (d + 1))
      OBVIOUS
    <2>1. j + d \in 1 .. L /\ (j + d) + 1 = j + (d + 1) /\ j + (d + 1) \in 1 .. L + 1 BY <1>0
    <2>2. PICK m \in 1 .. L : m = j + d /\ m + 1 = j + (d + 1) BY <2>1
    <2>3. Header!Pos(m + 1) = Header!Pos(m) + Header!Entries[m].head + Header!Entries[m].tail
      BY PlacesFollow
    <2>4. Header!Pos(j) <= Header!Pos(m) BY <1>0, <1>3, <2>2
    <2>5. Header!Pos(j) \in Nat /\ Header!Pos(m) \in Nat /\ Header!Pos(m + 1) \in Nat
      BY <1>0, <1>1
    <2>6. Header!Entries[m].head \in Nat /\ Header!Entries[m].tail \in Nat BY EntriesType
    <2>7. \A p, q, x, y \in Nat : p <= q => p <= q + x + y OBVIOUS
    <2>8. Header!Pos(j) <= Header!Pos(m) + Header!Entries[m].head + Header!Entries[m].tail
      BY <2>4, <2>5, <2>6, <2>7
    <2> QED BY Zenon, <2>2, <2>3, <2>8
  <1> HIDE DEF S
  <1>4. Nat \subseteq S BY <1>2, <1>3, ShardProofs!Induction
  <1>5. Header!HeaderLength = Header!Pos(L + 1) BY DEF Header!HeaderLength
  <1>6. k + 1 \in 1 .. L + 1 /\ L - k \in Nat /\ (k + 1) + (L - k) = L + 1 BY <1>0
  <1>7. Header!Pos(k + 1) <= Header!HeaderLength
    <2>1. L - k \in S BY <1>4, <1>6
    <2>2. PICK d \in Nat : d = L - k /\ d \in S BY <1>6, <2>1
    <2>3. (k + 1) + d = L + 1 /\ (k + 1) + d <= L + 1 BY <1>0, <2>2
    <2>4. Header!Pos(k + 1) <= Header!Pos((k + 1) + d) BY <1>6, <2>2, <2>3 DEF S
    <2> QED BY <1>5, <2>3, <2>4
  <1>8. Header!Pos(k + 1) = Header!Pos(k) + Header!Entries[k].head + Header!Entries[k].tail
    BY PlacesFollow
  <1>9. /\ Header!Pos(k) \in Nat /\ Header!Pos(k + 1) \in Nat /\ Header!HeaderLength \in Nat
        /\ Header!Entries[k].head \in Nat /\ Header!Entries[k].head >= 1
        /\ Header!Entries[k].tail \in Nat
    BY <1>0, <1>1, <1>5, <1>6, EntriesType
  <1> QED BY <1>7, <1>8, <1>9

\* A short parse wants more of the header.
LEMMA ShortWantsMore ==
  ASSUME file \in Files, used \in Nat, NEW k \in 1 .. Len(Header!Entries), Header!Short(k)
  PROVE  used < Header!HeaderLength
  <1>0. Len(Header!Entries) \in Nat BY EntriesType
  <1>1. k \in 1 .. Len(Header!Entries) + 1 /\ k + 1 \in 1 .. Len(Header!Entries) + 1 BY <1>0
  <1>2. Header!Pos(k) \in Nat /\ Header!Pos(k + 1) \in Nat /\ Header!Entries[k].head \in Nat
    BY <1>1, PlacesFollow, EntriesType
  <1>3. used < Header!Pos(k) + Header!Entries[k].head \/ used < Header!Pos(k + 1)
    BY <1>2 DEF Header!Short
  <1> QED BY <1>2, <1>3, HeaderIsLast

\* What the three outcomes of a parse say.
LEMMA ParseOutcome ==
  ASSUME file \in Files, used \in Nat
  PROVE  /\ Header!Parse \in {"through", "short", "malformed"}
         /\ Header!Parse = "through" =>
              /\ used >= Header!HeaderLength
              /\ \A k \in DOMAIN Header!Entries : Header!Entries[k].kind # "bad"
         /\ Header!Parse = "short" => used < Header!HeaderLength
         /\ Header!Parse = "malformed" => \E k \in DOMAIN Header!Entries : Header!Entries[k].kind = "bad"
  <1> DEFINE L     == Len(Header!Entries)
             stops == {k \in 1 .. L : Header!Stops(k)}
  <1>0. L \in Nat /\ L >= 1 /\ DOMAIN Header!Entries = 1 .. L BY EntriesType
  <1>1. Header!Parse = IF stops = {} THEN "through"
                       ELSE IF Header!Short(Header!Min(stops)) THEN "short" ELSE "malformed"
    BY DEF Header!Parse
  <1>2. CASE stops = {}
    <2>1. Header!Parse = "through" BY <1>1, <1>2
    <2>2. \A k \in 1 .. L : ~Header!Short(k) /\ Header!Entries[k].kind # "bad"
      BY <1>2 DEF Header!Stops
    <2>3. L \in 1 .. L /\ L + 1 \in 1 .. L + 1 BY <1>0
    <2>4. Header!Entries[L].kind \in {"tested", "unsupported"} BY <2>2, <2>3, EntriesType
    <2>5. Header!Pos(L + 1) \in Nat BY <2>3, PlacesFollow
    <2>6. ~(Header!Pos(L + 1) > used) BY <2>2, <2>3, <2>4 DEF Header!Short
    <2>7. used >= Header!HeaderLength BY <2>5, <2>6 DEF Header!HeaderLength
    <2> QED BY <1>0, <2>1, <2>2, <2>7
  <1>3. CASE stops # {}
    <2> DEFINE m == Header!Min(stops)
    <2>1. m \in stops
      <3>1. stops \subseteq Nat BY <1>0
      <3>2. \E x \in stops : \A y \in stops : x <= y BY <1>3, <3>1, ShardProofs!Smallest
      <3> QED BY <3>2 DEF Header!Min
    <2>2. PICK k \in 1 .. L : k = m /\ Header!Stops(k) BY <2>1
    <2> HIDE DEF m
    <2>3. Header!Parse = IF Header!Short(k) THEN "short" ELSE "malformed"
      BY <1>1, <1>3, <2>2 DEF m
    <2>4. CASE Header!Short(k)
      <3>1. used < Header!HeaderLength BY <2>4, ShortWantsMore
      <3> QED BY <2>3, <2>4, <3>1
    <2>5. CASE ~Header!Short(k)
      <3>1. Header!Entries[k].kind = "bad" BY <2>2, <2>5 DEF Header!Stops
      <3> QED BY <1>0, <2>3, <2>5, <3>1
    <2> QED BY <2>4, <2>5
  <1> QED BY <1>2, <1>3

-----------------------------------------------------------------------------
\* The buffer is only filled again while it is shorter than the header, and a
\* parse that got through stays so.
HeaderInv ==
  /\ Header!TypeOK
  /\ hpc = "fill" => used = 0 \/ used < Header!HeaderLength
  /\ hpc \in {"real_parse", "ok", "refused"} => Header!Parse = "through"
  /\ hpc = "ok" => \A k \in DOMAIN Header!Entries : Header!Entries[k].kind # "unsupported"
  /\ Header!BufferFollowsHeader
  /\ hpc = "error" =>
       file.length = 0 \/ \E k \in DOMAIN Header!Entries : Header!Entries[k].kind = "bad"

\* The bound of the buffer, as two cases.
LEMMA BufferBound ==
  ASSUME file \in Files
  PROVE  \A c \in Nat : c <= Header!Max({Cap, 2 * (Header!HeaderLength - 1)}) <=>
                          c <= Cap \/ c <= 2 * (Header!HeaderLength - 1)
  <1>0. Cap \in Nat BY HeaderAssumption DEF Header!CapAssumption
  <1>1. PICK b : b = 2 * (Header!HeaderLength - 1) /\ b \in Nat
    <2>1. 1 \in 1 .. Len(Header!Entries) BY EntriesType
    <2> QED BY <2>1, HeaderIsLast
  <1>2. \E x \in {Cap, b} : \A y \in {Cap, b} : x >= y BY <1>0, <1>1
  <1>3. /\ Header!Max({Cap, b}) \in {Cap, b}
        /\ \A y \in {Cap, b} : Header!Max({Cap, b}) >= y
    BY <1>2 DEF Header!Max
  <1> QED BY <1>0, <1>1, <1>3

LEMMA HeaderInit == Header!Init => HeaderInv
  <1> SUFFICES ASSUME Header!Init PROVE HeaderInv OBVIOUS
  <1>1. file \in Files /\ hpc = "fill" /\ cap = Cap /\ used = 0 BY DEF Header!Init
  <1>2. Cap \in Nat /\ Cap # 0 BY HeaderAssumption DEF Header!CapAssumption
  <1>3. Header!TypeOK BY <1>1, <1>2 DEF Header!TypeOK
  <1>4. Header!BufferFollowsHeader BY <1>1, <1>2, BufferBound DEF Header!BufferFollowsHeader
  <1> QED BY <1>1, <1>3, <1>4 DEF HeaderInv

\* What depends on the file, or on the file and the bytes read, alone.
LEMMA HeaderFrame ==
  ASSUME file' = file
  PROVE  /\ Header!Entries' = Header!Entries
         /\ Header!HeaderLength' = Header!HeaderLength
         /\ Header!Max({Cap, 2 * (Header!HeaderLength - 1)})' =
              Header!Max({Cap, 2 * (Header!HeaderLength - 1)})
         /\ used' = used => Header!Parse' = Header!Parse
  <1>1. Header!Entries' = Header!Entries BY DEF Header!Entries
  <1>2. \A k : Header!Pos(k)' = Header!Pos(k) BY <1>1 DEF Header!Pos
  <1>3. Header!HeaderLength' = Header!HeaderLength BY <1>1 DEF Header!HeaderLength, Header!Pos
  <1>4. Header!Max({Cap, 2 * (Header!HeaderLength - 1)})' =
          Header!Max({Cap, 2 * (Header!HeaderLength - 1)})
    BY <1>3 DEF Header!Max
  <1>5. ASSUME used' = used PROVE Header!Parse' = Header!Parse
    <2>1. \A k : Header!Short(k)' = Header!Short(k)
      BY Zenon, <1>1, <1>2, <1>5 DEF Header!Short
    <2>2. \A k : Header!Stops(k)' = Header!Stops(k) BY Zenon, <1>1, <2>1 DEF Header!Stops
    <2> QED BY <1>1, <2>1, <2>2 DEF Header!Parse, Header!Min
  <1> QED BY <1>1, <1>3, <1>4, <1>5

LEMMA HeaderStays == ASSUME HeaderInv, UNCHANGED headerVars PROVE HeaderInv'
  <1>1. file' = file /\ hpc' = hpc /\ cap' = cap /\ used' = used BY DEF headerVars
  <1>2. Header!TypeOK' BY <1>1 DEF HeaderInv, Header!TypeOK
  <1>3. Header!BufferFollowsHeader'
    BY <1>1, HeaderFrame DEF HeaderInv, Header!BufferFollowsHeader
  <1> QED BY <1>1, <1>2, <1>3, HeaderFrame DEF HeaderInv

LEMMA HeaderStep == ASSUME HeaderInv, Header!Next PROVE HeaderInv'
  <1>0. /\ file \in Files /\ cap \in Nat /\ cap >= 1 /\ used \in 0 .. cap /\ used \in Nat
        /\ file.length \in Nat
    BY EntriesType DEF HeaderInv, Header!TypeOK
  <1>1. /\ file' = file /\ Header!Entries' = Header!Entries
        /\ Header!HeaderLength' = Header!HeaderLength
    <2>1. file' = file BY DEF Header!Next, Header!Fill, Header!DryParse, Header!RealParse
    <2> QED BY <2>1, HeaderFrame
  <1>2. CASE Header!Fill
    <2>1. /\ hpc = "fill" /\ cap' = (IF used = cap THEN 2 * cap ELSE cap)
          /\ used' = Header!Min({cap', file.length})
          /\ hpc' = IF used' = 0 THEN "error" ELSE "dry_parse"
      BY <1>2 DEF Header!Fill
    <2>2. cap' \in Nat /\ cap' >= 1 BY <1>0, <2>1
    <2>3. PICK c \in Nat : c = cap' /\ c >= 1 BY <2>2
    <2>4. \E x \in {c, file.length} : \A y \in {c, file.length} : x <= y BY <1>0, <2>3
    <2>5. /\ Header!Min({c, file.length}) \in {c, file.length}
          /\ \A y \in {c, file.length} : Header!Min({c, file.length}) <= y
      BY <2>4 DEF Header!Min
    <2>6. used' \in 0 .. c /\ (used' = 0 => file.length = 0)
      BY <1>0, <2>1, <2>3, <2>5
    <2>7. Header!TypeOK'
      BY <1>0, <1>1, <2>1, <2>3, <2>6 DEF Header!TypeOK
    <2>8. Header!BufferFollowsHeader'
      <3>1. cap <= Cap \/ cap <= 2 * (Header!HeaderLength - 1)
        BY <1>0, BufferBound DEF HeaderInv, Header!BufferFollowsHeader
      <3>2. PICK h : h = Header!HeaderLength /\ h \in Nat
        <4>1. 1 \in 1 .. Len(Header!Entries) BY <1>0, EntriesType
        <4> QED BY <1>0, <4>1, HeaderIsLast
      <3>3. used = cap => cap < h BY <1>0, <2>1, <3>2 DEF HeaderInv
      <3>4. c <= Cap \/ c <= 2 * (h - 1) BY <1>0, <2>1, <2>3, <3>1, <3>2, <3>3
      <3>5. c <= Header!Max({Cap, 2 * (Header!HeaderLength - 1)})
        BY <1>0, <3>2, <3>4, BufferBound
      <3> QED BY <1>1, <2>3, <3>5, HeaderFrame DEF Header!BufferFollowsHeader
    <2> QED BY <1>1, <2>1, <2>6, <2>7, <2>8 DEF HeaderInv
  <1>3. CASE Header!DryParse \/ Header!RealParse
    <2>1. /\ cap' = cap /\ used' = used
          /\ hpc \in {"dry_parse", "real_parse"}
          /\ hpc = "dry_parse" => hpc' = CASE Header!Parse = "through"   -> "real_parse"
                                           [] Header!Parse = "malformed" -> "error"
                                           [] Header!Parse = "short"     -> "fill"
          /\ hpc = "real_parse" =>
               \/ /\ hpc' = "ok"
                  /\ \A k \in DOMAIN Header!Entries : Header!Entries[k].kind # "unsupported"
               \/ hpc' = "refused"
      BY <1>3 DEF Header!DryParse, Header!RealParse
    <2>2. Header!Parse' = Header!Parse BY <1>1, <2>1, HeaderFrame
    <2>3. /\ Header!Parse \in {"through", "short", "malformed"}
          /\ Header!Parse = "short" => used < Header!HeaderLength
          /\ Header!Parse = "malformed" => \E k \in DOMAIN Header!Entries : Header!Entries[k].kind = "bad"
      BY <1>0, ParseOutcome
    <2>4. /\ hpc' \in {"fill", "real_parse", "ok", "error", "refused"}
          /\ hpc' = "fill" => used < Header!HeaderLength
          /\ hpc' \in {"real_parse", "ok", "refused"} => Header!Parse = "through"
          /\ hpc' = "ok" => \A k \in DOMAIN Header!Entries : Header!Entries[k].kind # "unsupported"
          /\ hpc' = "error" => \E k \in DOMAIN Header!Entries : Header!Entries[k].kind = "bad"
      BY <2>1, <2>3 DEF HeaderInv
    <2>5. Header!TypeOK' BY <1>1, <2>1, <2>4 DEF HeaderInv, Header!TypeOK
    <2>6. Header!BufferFollowsHeader'
      BY <1>1, <2>1, HeaderFrame DEF HeaderInv, Header!BufferFollowsHeader
    <2> QED BY <1>1, <2>1, <2>2, <2>4, <2>5, <2>6 DEF HeaderInv
  <1> QED BY <1>2, <1>3 DEF Header!Next


-----------------------------------------------------------------------------
(* A load is a run of either loader.  The theorems of WeightLoader_proofs   *)
(* come with a second instance of the shard loader, which is the same.      *)

\* A step of the load is one of the pack loader or leaves it alone.
LEMMA PackRuns == LoadSpec => Spec
  <1>1. LoadInit => Init BY DEF LoadInit
  <1>2. ASSUME [LoadNext \/ LoadEnded]_loadVars PROVE [Next \/ Ended]_vars
    <2>1. CASE OpenPack \/ StreamPack \/ Copies \/ CloseStore
      BY Zenon, <2>1 DEF OpenPack, StreamPack, Copies, CloseStore, Next, Host
    <2>2. CASE ReadHeader \/ LoadIndex \/ StreamShards \/ FreeIndex
      BY Zenon, <2>2 DEF ReadHeader, LoadIndex, StreamShards, FreeIndex
    <2>3. CASE LoadEnded \/ UNCHANGED loadVars BY Zenon, <2>3 DEF LoadEnded, loadVars, vars
    <2> QED BY Zenon, <1>2, <2>1, <2>2, <2>3 DEF LoadNext, Loads
  <1> QED BY <1>1, <1>2, PTL DEF LoadSpec, Spec

LEMMA SameCardinality == \A S : Shards!Cardinality(S) = ShardProofs!Cardinality(S)
  BY DEF Shards!Cardinality, ShardProofs!Cardinality

LEMMA SameOrder == Shards!Order = ShardProofs!Order
  <1>1. \A t, u : Shards!Before(t, u) = ShardProofs!Before(t, u)
    BY Zenon DEF Shards!Before, ShardProofs!Before
  <1> QED BY <1>1, SameCardinality
       DEF Shards!Order, ShardProofs!Order, Shards!Tensor, ShardProofs!Tensor

LEMMA SameHost == Shards!Host => ShardProofs!Host
  <1> USE DEF Shards!Goto, ShardProofs!Goto, Shards!Acquire, ShardProofs!Acquire,
              Shards!Fails, ShardProofs!Fails, Shards!dataVars, ShardProofs!dataVars,
              Shards!hostVars, ShardProofs!hostVars
  <1>1. Shards!AllocateTable \/ Shards!AllocateArena \/ Shards!AllocatePinned
          => ShardProofs!AllocateTable \/ ShardProofs!AllocateArena \/ ShardProofs!AllocatePinned
    BY Zenon DEF Shards!AllocateTable, ShardProofs!AllocateTable, Shards!AllocateArena,
       ShardProofs!AllocateArena, Shards!AllocatePinned, ShardProofs!AllocatePinned
  <1>2. Shards!AllocateStream \/ Shards!SortTensors
          => ShardProofs!AllocateStream \/ ShardProofs!SortTensors
    BY Zenon DEF Shards!AllocateStream, ShardProofs!AllocateStream, Shards!SortTensors,
       ShardProofs!SortTensors
  <1>3. Shards!OpenShards => ShardProofs!OpenShards
    BY Zenon, SameCardinality
       DEF Shards!OpenShards, ShardProofs!OpenShards, Shards!Range, ShardProofs!Range
  <1>4. Shards!WaitForSlot \/ Shards!ReadPart \/ Shards!FillSlot
          => ShardProofs!WaitForSlot \/ ShardProofs!ReadPart \/ ShardProofs!FillSlot
    BY Zenon DEF Shards!WaitForSlot, ShardProofs!WaitForSlot, Shards!ReadPart,
       ShardProofs!ReadPart, Shards!FillSlot, ShardProofs!FillSlot, Shards!Torn, ShardProofs!Torn
  <1>5. Shards!ReadTensor => ShardProofs!ReadTensor
    BY Zenon, SameOrder
       DEF Shards!ReadTensor, ShardProofs!ReadTensor, Shards!Current, ShardProofs!Current
  <1>6. Shards!QueueCopy => ShardProofs!QueueCopy
    BY Zenon, SameOrder
       DEF Shards!QueueCopy, ShardProofs!QueueCopy, Shards!Current, ShardProofs!Current
  <1>7. Shards!PlaceTensor => ShardProofs!PlaceTensor
    BY Zenon, SameOrder
       DEF Shards!PlaceTensor, ShardProofs!PlaceTensor, Shards!Current, ShardProofs!Current,
           Shards!AlignUp, ShardProofs!AlignUp, Shards!Cells, ShardProofs!Cells
  <1>8. Shards!ReleaseStaging \/ Shards!DrainStream
          => ShardProofs!ReleaseStaging \/ ShardProofs!DrainStream
    BY Zenon DEF Shards!ReleaseStaging, ShardProofs!ReleaseStaging, Shards!DrainStream,
       ShardProofs!DrainStream
  <1>9. Shards!InitGemm \/ Shards!Unwind => ShardProofs!InitGemm \/ ShardProofs!Unwind
    BY Zenon DEF Shards!InitGemm, ShardProofs!InitGemm, Shards!Unwind, ShardProofs!Unwind
  <1> QED BY Zenon, <1>1, <1>2, <1>3, <1>4, <1>5, <1>6, <1>7, <1>8, <1>9
       DEF Shards!Host, ShardProofs!Host

LEMMA SameTransfer == Shards!Transfer => ShardProofs!Transfer
  BY Zenon DEF Shards!Transfer, ShardProofs!Transfer, Shards!Cells, ShardProofs!Cells,
     Shards!hostVars, ShardProofs!hostVars

LEMMA SameFree == Shards!FreeStore => ShardProofs!FreeStore
  BY Zenon DEF Shards!FreeStore, ShardProofs!FreeStore, Shards!Store, ShardProofs!Store,
     Shards!Goto, ShardProofs!Goto, Shards!dataVars, ShardProofs!dataVars, Shards!hostVars,
     ShardProofs!hostVars

LEMMA SameInit == Shards!Init => ShardProofs!Init
  BY Zenon DEF Shards!Init, ShardProofs!Init, Shards!Slot, ShardProofs!Slot, Shards!Nobody,
     ShardProofs!Nobody, Shards!Torn, ShardProofs!Torn, Shards!Tensor, ShardProofs!Tensor,
     Shards!ArenaCells, ShardProofs!ArenaCells, Shards!PlannedEnd, ShardProofs!PlannedEnd,
     Shards!AlignUp, ShardProofs!AlignUp, Shards!Cells, ShardProofs!Cells

LEMMA SameGiven == ShardProofs!Given
  BY ShardsAssumption
     DEF ShardProofs!Given, ShardProofs!NAssumption, Shards!NAssumption,
         ShardProofs!SizeAssumption, Shards!SizeAssumption, ShardProofs!LayoutAssumption,
         Shards!LayoutAssumption, ShardProofs!Layout, Shards!Layout, ShardProofs!Tensor,
         Shards!Tensor

\* A step of the load is one of the shard loader or leaves it alone; an index
\* that does not load is a load that fails before it has anything.
LEMMA ShardsRun == LoadSpec => ShardProofs!Spec
  <1> USE DEF ShardProofs!dataVars, ShardProofs!hostVars
  <1>1. LoadInit => ShardProofs!Init BY SameInit DEF LoadInit
  <1>2. ASSUME [LoadNext \/ LoadEnded]_loadVars
        PROVE  [ShardProofs!Next \/ ShardProofs!Ended]_(ShardProofs!vars)
    <2>1. CASE \/ StreamShards \/ Copies \/ CloseStore \/ ReadHeader \/ OpenPack \/ StreamPack
               \/ FreeIndex
      <3>1. Shards!Host \/ Shards!Transfer \/ Shards!FreeStore \/ UNCHANGED shardVars
        BY Zenon, <2>1 DEF StreamShards, Copies, CloseStore, ReadHeader, OpenPack, StreamPack,
           FreeIndex
      <3>2. CASE UNCHANGED shardVars BY Zenon, <3>2 DEF shardVars, ShardProofs!vars
      <3> QED BY Zenon, <3>1, <3>2, SameHost, SameTransfer, SameFree DEF ShardProofs!Next
    <2>2. CASE LoadIndex
      <3>1. CASE UNCHANGED shardVars BY Zenon, <3>1 DEF shardVars, ShardProofs!vars
      <3>2. CASE ~UNCHANGED shardVars
        <4>1. ShardProofs!AllocateTable
          BY Zenon, <2>2, <3>2 DEF LoadIndex, ShardProofs!AllocateTable, ShardProofs!Goto
        <4> QED BY Zenon, <4>1 DEF ShardProofs!Next, ShardProofs!Host
      <3> QED BY <3>1, <3>2
    <2>3. CASE LoadEnded \/ UNCHANGED loadVars
      BY Zenon, <2>3 DEF LoadEnded, loadVars, shardVars, ShardProofs!vars
    <2> QED BY Zenon, <1>2, <2>1, <2>2, <2>3 DEF LoadNext, Loads
  <1> QED BY <1>1, <1>2, PTL DEF LoadSpec, ShardProofs!Spec

-----------------------------------------------------------------------------
(* What load_weights keeps. *)

\* The pack loader keeps inside load_weights what it keeps alone, for any header.
THEOREM PackOfTheLoad ==
  LoadSpec => [](TypeOK /\ SlotIntact /\ ReadyIsComplete /\ NothingLeaks) /\ ImplementsIngest
  BY PackRuns, TypeCorrect, SlotsStayIntact, CompleteWhenReady, LeavesNothing,
     LoaderKeepsPromise, PTL

\* What a queued copy of the shard loader will read is still its tensor.
THEOREM ShardSlotsStayIntact == LoadSpec => []ShardsStayIntact
  <1>1. ShardProofs!SlotIntact => ShardsStayIntact
    BY DEF ShardProofs!SlotIntact, Shards!SlotIntact, ShardsStayIntact
  <1>2. ShardProofs!Spec => []ShardProofs!SlotIntact
    BY SameGiven, ShardProofs!SlotsStayIntact
  <1> QED BY <1>1, <1>2, ShardsRun, PTL

\* The index is loaded before the shard loader moves on and freed before the
\* store is; for a pack the shard loader does not move.
IndexInv ==
  /\ index \in {"none", "loaded", "freed"}
  /\ kind = "pack" => spc = "table"
  /\ index = "none" => spc \in {"table", "failed"}
  /\ spc = "freed" => index = "freed"

LEMMA IndexIsKept == LoadSpec => []IndexInv
  <1> USE DEF IndexInv
  <1>1. LoadInit => IndexInv BY DEF LoadInit, Shards!Init
  <1>2. ASSUME IndexInv, [LoadNext \/ LoadEnded]_loadVars PROVE IndexInv'
    <2>1. CASE StreamShards
      <3>1. kind = "shards" /\ index = "loaded" /\ kind' = kind /\ index' = index /\ spc' # "freed"
        BY Zenon, <2>1 DEF StreamShards, Shards!Host, Shards!AllocateTable, Shards!AllocateArena,
           Shards!AllocatePinned, Shards!AllocateStream, Shards!OpenShards, Shards!SortTensors,
           Shards!WaitForSlot, Shards!ReadPart, Shards!ReadTensor, Shards!FillSlot,
           Shards!QueueCopy, Shards!PlaceTensor, Shards!ReleaseStaging, Shards!DrainStream,
           Shards!InitGemm, Shards!Unwind, Shards!Goto, Shards!Acquire, Shards!Fails
      <3> QED BY <3>1
    <2>2. CASE LoadIndex
      BY <1>2, <2>2 DEF LoadIndex, shardVars
    <2>3. CASE FreeIndex
      BY <1>2, <2>3 DEF FreeIndex, shardVars
    <2>4. CASE ReadHeader \/ OpenPack \/ StreamPack
      BY <1>2, <2>4 DEF ReadHeader, OpenPack, StreamPack, shardVars
    <2>5. CASE Copies
      BY <1>2, <2>5 DEF Copies, shardVars, Shards!Transfer
    <2>6. CASE CloseStore
      <3>1. CASE kind' = kind /\ index' = index /\ spc' = spc BY <1>2, <3>1
      <3>2. CASE /\ kind = "shards" /\ index # "loaded" /\ Shards!FreeStore
                 /\ kind' = kind /\ index' = index
        <4>1. spc = "ready" /\ spc' = "freed" BY <3>2 DEF Shards!FreeStore, Shards!Goto
        <4> QED BY <1>2, <3>2, <4>1
      <3> QED BY <2>6, <3>1, <3>2 DEF CloseStore, shardVars
    <2>7. CASE LoadEnded \/ UNCHANGED loadVars
      BY <1>2, <2>7 DEF LoadEnded, loadVars, shardVars
    <2> QED BY <1>2, <2>1, <2>2, <2>3, <2>4, <2>5, <2>6, <2>7 DEF LoadNext, Loads
  <1> QED BY <1>1, <1>2, PTL DEF LoadSpec

\* The shards come in place: no tensor leaves the arena and no two share a cell;
\* a load that reports success is complete and holds nothing but the store; the
\* index is gone before the store is.
THEOREM ShardsComeInPlace == LoadSpec => []ShardsAreInPlace
  <1> USE DEF Shards!Cells, ShardProofs!Cells, Shards!Tensor, ShardProofs!Tensor,
              Shards!Torn, ShardProofs!Torn
  <1>1. ShardProofs!IInv => Shards!TypeOK
    <2>1. ShardProofs!TypeOK => Shards!TypeOK
      BY Zenon DEF Shards!TypeOK, ShardProofs!TypeOK, Shards!PC, ShardProofs!PC, Shards!Slot,
         ShardProofs!Slot, Shards!Nobody, ShardProofs!Nobody, Shards!Copies, ShardProofs!Copies,
         Shards!ArenaCells, ShardProofs!ArenaCells, Shards!PlannedEnd, ShardProofs!PlannedEnd,
         Shards!AlignUp, ShardProofs!AlignUp, Shards!Resource, ShardProofs!Resource
    <2> QED BY <2>1 DEF ShardProofs!IInv
  <1>2. ShardProofs!RegionsFit => Shards!RegionsFit
    BY Zenon DEF Shards!RegionsFit, ShardProofs!RegionsFit, Shards!Placed, ShardProofs!Placed,
       Shards!Region, ShardProofs!Region, Shards!ArenaCells, ShardProofs!ArenaCells,
       Shards!PlannedEnd, ShardProofs!PlannedEnd, Shards!AlignUp, ShardProofs!AlignUp
  <1>3. ShardProofs!ReadyIsComplete => Shards!ReadyIsComplete
    BY Zenon DEF Shards!ReadyIsComplete, ShardProofs!ReadyIsComplete, Shards!Placed,
       ShardProofs!Placed, Shards!Region, ShardProofs!Region, Shards!Store, ShardProofs!Store
  <1>4. ShardProofs!Spec => [](ShardProofs!IInv /\ ShardProofs!RegionsFit /\ ShardProofs!ReadyIsComplete)
    BY SameGiven, ShardProofs!Invariance, ShardProofs!RegionsAlwaysFit,
       ShardProofs!CompleteWhenReady, PTL
  <1>5. ShardProofs!IInv /\ ShardProofs!RegionsFit /\ ShardProofs!ReadyIsComplete /\ IndexInv
          => ShardsAreInPlace
    BY <1>1, <1>2, <1>3 DEF ShardsAreInPlace, IndexInv
  <1> QED BY <1>4, <1>5, ShardsRun, IndexIsKept, PTL

\* The shard loader keeps the promise of its header inside load_weights.
THEOREM ShardsKeepPromise == LoadSpec => ShardsImplementIngest
  <1> USE DEF Shards!Cells, ShardProofs!Cells, Shards!Tensor, ShardProofs!Tensor
  <1>1. ShardProofs!Spec => ShardProofs!ImplementsIngest
    BY SameGiven, ShardProofs!LoaderKeepsPromise
  <1>2. ShardProofs!Promise!Init => Shards!Promise!Init
    BY Zenon DEF ShardProofs!Promise!Init, Shards!Promise!Init
  <1>3. [ShardProofs!Promise!Next]_(ShardProofs!Promise!vars)
          => [Shards!Promise!Next]_(Shards!Promise!vars)
    BY Zenon DEF ShardProofs!Promise!Next, Shards!Promise!Next, ShardProofs!Promise!vars,
       Shards!Promise!vars, ShardProofs!Promise!Arrive, Shards!Promise!Arrive,
       ShardProofs!Promise!HandOut, Shards!Promise!HandOut, ShardProofs!Promise!Fail,
       Shards!Promise!Fail, ShardProofs!Promise!Free, Shards!Promise!Free
  <1> QED BY <1>1, <1>2, <1>3, ShardsRun, PTL
       DEF ShardProofs!ImplementsIngest, Shards!ImplementsIngest, ShardsImplementIngest,
           ShardProofs!Promise!Spec, Shards!Promise!Spec

\* The header is through when the pack loader goes on, and does not change then.
LoadInv ==
  /\ HeaderInv
  /\ kind = "pack" /\ pc \notin {"open", "failed"} => hpc = "ok"

LEMMA LoadIsKept == LoadSpec => []LoadInv
  <1>1. LoadInit => LoadInv BY HeaderInit DEF LoadInit, LoadInv, Init
  <1>2. ASSUME LoadInv, [LoadNext \/ LoadEnded]_loadVars PROVE LoadInv'
    <2>1. CASE ReadHeader
      <3>1. HeaderInv' BY <1>2, <2>1, HeaderStep DEF ReadHeader, LoadInv
      <3>2. pc = "open" /\ pc' = pc BY <2>1 DEF ReadHeader, vars
      <3> QED BY <3>1, <3>2 DEF LoadInv
    <2>2. ASSUME UNCHANGED headerVars PROVE HeaderInv'
      BY <1>2, <2>2, HeaderStays DEF LoadInv
    <2>3. CASE OpenPack
      BY <2>2, <2>3 DEF OpenPack, Open, Goto, LoadInv, headerVars
    <2>4. CASE StreamPack
      <3>1. pc # "open" /\ pc # "failed" /\ kind' = kind /\ hpc' = hpc
        BY Zenon, <2>4 DEF StreamPack, headerVars, Host, Open, AllocateTable, AllocateArena,
           AllocateSlot, AllocateStream, OpenFile, WaitForSlot, ReadPart, ReadWindow, ReadFails,
           QueueCopy, RecordEvent, CloseFile, DrainStream, BindPointers, InitGemm, Unwind
      <3>2. HeaderInv' BY <2>2, <2>4 DEF StreamPack
      <3> QED BY <1>2, <3>1, <3>2 DEF LoadInv
    <2>5. CASE LoadIndex \/ StreamShards \/ FreeIndex \/ LoadEnded \/ UNCHANGED loadVars
      BY <1>2, <2>2, <2>5 DEF LoadIndex, StreamShards, FreeIndex, LoadEnded, loadVars, vars,
         headerVars, LoadInv
    <2>6. CASE Copies
      BY <1>2, <2>2, <2>6 DEF Copies, Transfer, vars, headerVars, LoadInv
    <2>7. CASE CloseStore
      BY <1>2, <2>2, <2>7 DEF CloseStore, FreeStore, vars, headerVars, LoadInv
    <2> QED BY <1>2, <2>1, <2>3, <2>4, <2>5, <2>6, <2>7 DEF LoadNext, Loads
  <1> QED BY <1>1, <1>2, PTL DEF LoadSpec

\* The header of a pack is read whole and from bytes of the file, through a
\* buffer of at most twice its length; one that is malformed or has a tensor without
\* a size does not open, and the loop gives up no other than a malformed one, for
\* any entries, any length of the file and any first buffer.
THEOREM HeaderIsAlwaysRead == LoadSpec => []HeaderIsRead
  <1>1. LoadInv => HeaderIsRead
    <2> SUFFICES ASSUME LoadInv PROVE HeaderIsRead OBVIOUS
    <2>1. HeaderInv BY DEF LoadInv
    <2>2. file \in Files /\ used \in Nat BY <2>1 DEF HeaderInv, Header!TypeOK
    <2>3. hpc \in {"real_parse", "ok", "refused"} =>
            /\ used >= Header!HeaderLength
            /\ \A k \in DOMAIN Header!Entries : Header!Entries[k].kind # "bad"
      BY <2>1, <2>2, ParseOutcome DEF HeaderInv
    <2>4. Header!WholeHeaderRead BY <2>3 DEF Header!WholeHeaderRead
    <2>5. Header!OutcomeIsRight BY <2>1, <2>3 DEF HeaderInv, Header!OutcomeIsRight
    <2> QED BY <2>1, <2>3, <2>4, <2>5 DEF HeaderIsRead, HeaderInv, LoadInv
  <1> QED BY <1>1, LoadIsKept, PTL

-----------------------------------------------------------------------------
(* How the model comes to where load_weights finds it: the download script, *)
(* for any files, any number of faults and any sequence of runs.            *)

\* What a run of the script keeps: what it says of the model, and who gets behind
\* the check of the file that is there.
DownloadInv == ReadyIsVerified /\ ForcedBehindCheck

\* The invariant holds before the first run.
LEMMA DownloadInit == ScriptInit => DownloadInv
  BY DEF ScriptInit, DownloadInv, ReadyIsVerified, ForcedBehindCheck

\* Every step of the script, and everything that goes wrong, preserves it.
LEMMA DownloadStep == DownloadInv /\ [ScriptNext]_scriptVars => DownloadInv'
  <1> SUFFICES ASSUME DownloadInv, [ScriptNext]_scriptVars PROVE DownloadInv' OBVIOUS
  <1> USE DEF DownloadInv, ReadyIsVerified, ForcedBehindCheck, World, Fetch, GoOn
  <1>1. CASE Call BY <1>1 DEF Call
  <1>2. CASE CheckExisting BY <1>2 DEF CheckExisting
  <1>3. CASE Fresh BY <1>3 DEF Fresh
  <1>4. CASE Resume BY <1>4 DEF Resume
  <1>5. CASE ResumeNothingLeft BY <1>5 DEF ResumeNothingLeft
  <1>6. CASE ResumeRefused BY <1>6 DEF ResumeRefused
  <1>7. CASE Receive BY <1>7 DEF Receive
  <1>8. CASE Received BY <1>8 DEF Received
  <1>9. CASE Move BY <1>9 DEF Move
  <1>10. CASE Verify BY <1>10 DEF Verify
  <1>11. CASE Break BY <1>11 DEF Break
  <1>12. CASE Retry BY <1>12 DEF Retry
  <1>13. CASE Kill BY <1>13 DEF Kill
  <1>14. CASE Publish BY <1>14 DEF Publish
  <1>15. CASE UNCHANGED scriptVars BY <1>15 DEF scriptVars
  <1> QED
    BY <1>1, <1>2, <1>3, <1>4, <1>5, <1>6, <1>7, <1>8, <1>9, <1>10, <1>11, <1>12, <1>13,
       <1>14, <1>15
    DEF ScriptNext, Script

\* A model that is there is moved over only by a run with --force.
LEMMA DownloadKeepsModel ==
  DownloadInv /\ [ScriptNext]_scriptVars => [out = Model /\ out' # Model => force]_scriptVars
  <1> SUFFICES ASSUME DownloadInv, ScriptNext, out = Model, out' # Model PROVE force OBVIOUS
  <1>1. ~(Call \/ CheckExisting \/ Fresh \/ Resume \/ ResumeNothingLeft \/ ResumeRefused)
    BY DEF Call, CheckExisting, Fresh, Resume, ResumeNothingLeft, ResumeRefused
  <1>2. ~(Receive \/ Received \/ Break \/ Retry \/ Kill \/ Publish)
    BY DEF Receive, Received, Break, Retry, Kill, Publish
  <1>3. ~Verify BY DEF Verify
  <1>4. Move BY <1>1, <1>2, <1>3 DEF ScriptNext, Script
  <1> QED BY <1>4 DEF Move, DownloadInv, ForcedBehindCheck

\* The model is announced only over the file of the manifest.
THEOREM ReadyMeansVerified == ScriptSpec => []ReadyIsVerified
  <1>1. DownloadInv => ReadyIsVerified BY DEF DownloadInv
  <1> QED BY <1>1, DownloadInit, DownloadStep, PTL DEF ScriptSpec

\* No run without --force loses a model that is there.
THEOREM ModelIsKept == ScriptSpec => ModelSurvives
  <1> QED BY DownloadInit, DownloadStep, DownloadKeepsModel, PTL DEF ScriptSpec, ModelSurvives
=============================================================================
