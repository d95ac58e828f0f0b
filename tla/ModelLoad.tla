----------------------------- MODULE ModelLoad -----------------------------
(***************************************************************************)
(* load_weights (src/runtime/engine.c): the path of the model decides which *)
(* loader runs.  A path that ends in ".gguf" is a pack: its header is read  *)
(* (GgufHeader) inside the first call of the pack loader (PackLoader, which *)
(* this module extends).  Any other path is a directory of safetensors      *)
(* shards: they are indexed, loaded (WeightLoader), and the index is freed. *)
(***************************************************************************)
EXTENDS PackLoader

CONSTANTS
  Cap, Files,                     \* of GgufHeader
  N, Layouts, Align, MaxShards    \* of WeightLoader

VARIABLES
  kind,    \* is_gguf: "pack" or "shards"
  index,   \* idx: "none", "loaded" or "freed"
  file, hpc, cap, used,                                      \* the header
  layout, spc, i, cur, raw, sslot, sstream, sarrived, sticket,
  sarena, arenaOff, ptr, held                                \* the shards

Header == INSTANCE GgufHeader WITH pc <- hpc

Shards == INSTANCE WeightLoader WITH
  pc <- spc, slot <- sslot, stream <- sstream, arrived <- sarrived,
  ticket <- sticket, arena <- sarena

ASSUME HeaderAssumption == Header!CapAssumption /\ Header!FileAssumption
ASSUME ShardsAssumption ==
  Shards!NAssumption /\ Shards!SizeAssumption /\ Shards!LayoutAssumption

headerVars == <<file, hpc, cap, used>>
shardVars  == <<layout, spc, i, cur, raw, sslot, sstream, sarrived, sticket,
                sarena, arenaOff, ptr, held>>
loadVars   == <<kind, index, headerVars, vars, shardVars>>

\* The loader that is not called stays as it begins, for one model is enough.
LoadInit ==
  /\ \/ kind = "pack"   /\ layout = CHOOSE x \in Layouts : TRUE
     \/ kind = "shards" /\ file = CHOOSE f \in Files : TRUE
  /\ Init /\ Header!Init /\ Shards!Init
  /\ index = "none"

-----------------------------------------------------------------------------
\* Inside hd_gguf_open.
ReadHeader ==
  /\ kind = "pack" /\ pc = "open"
  /\ Header!Next
  /\ UNCHANGED <<kind, index, vars, shardVars>>

\* hd_gguf_open returns: with the header, after an error of the parse or of the
\* buffer, or before anything was read.  The path goes with a header the second
\* parse refuses, and with no other.
OpenPack ==
  /\ kind = "pack" /\ Open
  /\ pc' = "table" <=> hpc = "ok"
  /\ hpc = "error" \/ (hpc = "fill" /\ used > 0) => owned'["path"] = 1
  /\ hpc = "refused" => owned'["path"] = 0
  /\ hpc \in {"fill", "ok", "error", "refused"}
  /\ UNCHANGED <<kind, index, headerVars, shardVars>>

\* The rest of hd_weights_to_device_gguf.
StreamPack ==
  /\ kind = "pack" /\ pc # "open"
  /\ Host
  /\ UNCHANGED <<kind, index, headerVars, shardVars>>

\* hd_st_index_load; without an index HD_ERR_IO.
LoadIndex ==
  /\ kind = "shards" /\ index = "none" /\ spc = "table"
  /\ \/ index' = "loaded" /\ UNCHANGED shardVars
     \/ /\ spc' = "failed"
        /\ UNCHANGED <<index, layout, i, cur, raw, sslot, sstream, sarrived, sticket,
                       sarena, arenaOff, ptr, held>>
  /\ UNCHANGED <<kind, headerVars, vars>>

\* hd_weights_to_device.
StreamShards ==
  /\ kind = "shards" /\ index = "loaded"
  /\ Shards!Host
  /\ UNCHANGED <<kind, index, headerVars, vars>>

\* hd_st_index_free, whatever the loader returned.
FreeIndex ==
  /\ index = "loaded" /\ spc \in {"ready", "failed"}
  /\ index' = "freed"
  /\ UNCHANGED <<kind, headerVars, vars, shardVars>>

\* The copy engine, for either loader.
Copies ==
  \/ Transfer /\ UNCHANGED <<kind, index, headerVars, shardVars>>
  \/ Shards!Transfer /\ UNCHANGED <<kind, index, headerVars, vars>>

\* hd_generation_engine_close, after load_weights has returned.
CloseStore ==
  \/ kind = "pack" /\ FreeStore /\ UNCHANGED <<kind, index, headerVars, shardVars>>
  \/ /\ kind = "shards" /\ index # "loaded"
     /\ Shards!FreeStore
     /\ UNCHANGED <<kind, index, headerVars, vars>>

Loads == ReadHeader \/ OpenPack \/ StreamPack \/ LoadIndex \/ StreamShards \/ FreeIndex

LoadNext == Loads \/ Copies \/ CloseStore

LoadEnded ==
  /\ IF kind = "pack" THEN pc \in {"failed", "freed"}
     ELSE index # "loaded" /\ spc \in {"failed", "freed"}
  /\ UNCHANGED loadVars

\* The calls return and the copy engine works on.
LoadSpec ==
  /\ LoadInit /\ [][LoadNext \/ LoadEnded]_loadVars
  /\ WF_loadVars(Loads) /\ WF_loadVars(Copies)
-----------------------------------------------------------------------------
\* The table that sizes the arena of a pack was read whole, from bytes of the
\* file, through a buffer that grew no further than twice the header, whatever
\* payload of many gigabytes comes behind it; a header that is malformed or has a
\* tensor of a type without a size does not open, and the loop gives up no other than
\* a malformed one, however the entries lie across the blocks.
HeaderIsRead ==
  /\ Header!TypeOK /\ Header!WholeHeaderRead /\ Header!BufferFollowsHeader
  /\ Header!OutcomeIsRight
  /\ kind = "pack" /\ pc \notin {"open", "failed"} => used >= Header!HeaderLength

\* What a queued copy is going to read is still the tensor it was queued for,
\* although the shards pass through two slots only.
ShardsStayIntact == Shards!SlotIntact

\* Sized in the order of names and filled in the order of files, no tensor leaves
\* the arena and no two share a cell; a load that reports success has every tensor
\* where its own pointer says, and holds nothing but the store.
ShardsAreInPlace ==
  /\ Shards!TypeOK /\ Shards!RegionsFit
  /\ Shards!ReadyIsComplete
  /\ spc = "freed" => index = "freed"

\* The shard loader keeps the promise of its header.
ShardsImplementIngest == Shards!ImplementsIngest

\* load_weights returns, whatever fails, unless the file ends inside the header
\* of a pack.
EveryLoadEnds ==
  /\ kind = "pack" /\ Header!HeaderLength <= file.length => LoadEnds
  /\ kind = "shards" => Shards!LoadEnds /\ <>(index # "loaded")
=============================================================================
