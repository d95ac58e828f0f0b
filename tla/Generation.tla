----------------------------- MODULE Generation -----------------------------
(***************************************************************************)
(* The resident engine (src/runtime/engine.c) and the stages of one        *)
(* request after the other on it (src/runtime/generate.c): what each stage *)
(* acquires, what each way out releases, and what the caller gets.  There  *)
(* are two paths, with and without reference images; the denoising loop    *)
(* itself is module Denoise and one step here.                             *)
(*                                                                         *)
(* Resources that are acquired and released together are one resource: it  *)
(* is live as soon as a part of it is.  Any allocation, file or kernel may *)
(* fail.                                                                   *)
(***************************************************************************)
EXTENDS Integers, Sequences

CONSTANTS
  Grids,     \* the conditioning grids of reference images, [h, w], in merged tokens
  MaxRefs,   \* HD_SEQ_MAX_REFS
  MaxCount   \* bound: an engine is closed after so many successes

ASSUME GridAssumption == Grids \subseteq [h : Nat \ {0}, w : Nat \ {0}]
ASSUME BoundAssumption == MaxRefs \in Nat /\ MaxCount \in Nat

\* Of the engine: the weights and the resolved binding.
Resident == {"store", "binding"}

\* Of a request.
Transient == {
  "deck", "deck 2",  \* seq or decks[0], and decks[1], of the unconditional branch
  "originals",       \* vlm_imgs
  "patches",         \* ref_patches
  "tower",           \* vwsbase: the tower's workspace and tables
  "embeds",          \* vimg_emb, vds0 .. vds2, vmask_h
  "tower plan",      \* vws.sdpa
  "pixels",          \* pv_f32_dev, pv_dev
  "mask",            \* vmask_dev
  "workspace",       \* wsbase
  "plan", "plan 2",  \* ws.sdpa, ws_uncond.sdpa
  "inputs",          \* posd, maskd, idsd, secd
  "buffers",         \* z_prev_dev .. vinput_dev, unipc_hist_dev, unipc_last_dev
  "upload",          \* ref_f32_dev
  "ref cache",       \* xe_ref_dev
  "noise",           \* noise_h, z_h, and z_f32_dev of the reference path
  "step noise",      \* noise_step
  "output"}          \* z_final, rgb

Resource == Resident \cup Transient

\* What the module needs to know of a request: the grids of its references, in
\* their order, and its sampler ("refused" is one the path does not know).
Request ==
  [refs : UNION {[1 .. k -> Grids] : k \in 0 .. MaxRefs + 1},
   sampler : {"flash", "default", "default with guidance", "refused"}]

VARIABLES
  pc,        \* where the engine is
  vision,    \* e->has_vision
  count,     \* e->request_count
  req,       \* the request being served
  st,        \* st
  ptr,       \* each pointer: "null", "live", "dangling" or "undefined"
  done,      \* how many references the current loop has done
  capacity,  \* how many raw patches the tower's workspace has room for
  plan_n,    \* vws_sdpa_n: the patches of the tower's attention plan, 0 before one
  tables,    \* ws->tables_*: the grid of the tower's tables, as a sequence of at most one
  offset,    \* vis_off
  embeds,    \* which reference each row of vimg_emb and vds0 .. vds2 is of, 0 before
  result     \* what the last request returned and left behind

towerVars == <<capacity, plan_n, tables, offset, embeds>>
vars == <<pc, vision, count, req, st, ptr, done, towerVars, result>>

PC == {"new", "resolve", "lora", "vision tower", "close", "closed", "idle",
       "dispatch", "tokenize", "references", "tower", "embeds", "reference",
       "prepare tower", "run tower", "mask", "vision_fail", "workspace", "plans",
       "inputs", "buffers", "upload", "ref cache", "noise", "schedule", "denoise",
       "decode", "check", "finish", "fail"}

TypeOK ==
  /\ pc \in PC /\ vision \in BOOLEAN /\ count \in 0 .. MaxCount
  /\ req \in Request /\ st \in {"ok", "error"}
  /\ ptr \in [Resource -> {"null", "live", "dangling", "undefined"}]
  /\ done \in 0 .. MaxRefs /\ capacity \in Nat /\ plan_n \in Nat /\ offset \in Nat
  /\ tables \in {<<>>} \cup {<<g>> : g \in Grids}
  /\ \A p \in DOMAIN embeds : embeds[p] \in 0 .. MaxRefs
  /\ result \in [status : {"none", "ok", "error"}, image : BOOLEAN, left : SUBSET Transient]

Init ==
  /\ pc = "new" /\ vision = FALSE /\ count = 0
  /\ req = [refs |-> <<>>, sampler |-> "flash"] /\ st = "ok"
  /\ ptr = [x \in Resource |-> "null"]
  /\ done = 0 /\ capacity = 0 /\ plan_n = 0 /\ tables = <<>> /\ offset = 0 /\ embeds = <<>>
  /\ result = [status |-> "none", image |-> FALSE, left |-> {}]

-----------------------------------------------------------------------------
(* Pointers. *)

Acquired(x) == [ptr EXCEPT ![x] = "live"]

\* Released, the pointers keep their values; dev_free and free skip NULL.
Freed(R) == [x \in Resource |-> IF x \in R /\ ptr[x] = "live" THEN "dangling" ELSE ptr[x]]

\* Released and set to NULL.
Cleared(R) == [x \in Resource |-> IF x \in R THEN "null" ELSE ptr[x]]

Goto(label) == pc' = label

\* The next stage, or a label, with the pointers as they are then.
Go(label, pointers) == Goto(label) /\ ptr' = pointers

\* The request returns: its locals are gone, and what they still stood for is
\* left behind, but for the image the caller gets.
Return(status, image, pointers) ==
  /\ result' = [status |-> status, image |-> image,
                left |-> {x \in Transient : pointers[x] = "live"}
                           \ (IF image THEN {"output"} ELSE {})]
  /\ ptr' = [x \in Resource |-> IF x \in Resident THEN pointers[x] ELSE "null"]
  /\ count' = IF status = "ok" THEN count + 1 ELSE count
  /\ Goto("idle")

\* The steps of a request that goes on leave these alone.
GoesOn == UNCHANGED <<vision, count, req, result>>

-----------------------------------------------------------------------------
(* The engine. *)

\* hd_generation_engine_open: the weights, the binding, the adapters and the
\* vision tower, without which an engine is still good for requests without
\* references.  A failure closes what there is.
LoadWeights ==
  /\ pc = "new"
  /\ Go("resolve", Acquired("store")) \/ Go("close", ptr)
  /\ UNCHANGED <<vision, count, req, st, done, towerVars, result>>

Resolve ==
  /\ pc = "resolve"
  /\ Go("lora", Acquired("binding")) \/ Go("close", ptr)
  /\ UNCHANGED <<vision, count, req, st, done, towerVars, result>>

ApplyLora ==
  /\ pc = "lora"
  /\ Goto("vision tower") \/ Goto("close")
  /\ UNCHANGED <<vision, count, req, st, ptr, done, towerVars, result>>

ResolveVision ==
  /\ pc = "vision tower"
  /\ vision' \in BOOLEAN
  /\ Goto("idle")
  /\ UNCHANGED <<count, req, st, ptr, done, towerVars, result>>

\* The caller closes it, between two requests.
CloseRequested ==
  /\ pc = "idle" /\ Goto("close")
  /\ UNCHANGED <<vision, count, req, st, ptr, done, towerVars, result>>

\* hd_generation_engine_close.
Close ==
  /\ pc = "close"
  /\ Go("closed", Freed(Resident))
  /\ UNCHANGED <<vision, count, req, st, done, towerVars, result>>

\* hd_generation_engine_generate; xe_ref_dev is declared further down and holds
\* nothing yet.
StartRequest ==
  /\ pc = "idle" /\ count < MaxCount
  /\ req' \in Request
  /\ st' = "ok" /\ done' = 0
  /\ capacity' = 0 /\ plan_n' = 0 /\ tables' = <<>> /\ offset' = 0 /\ embeds' = <<>>
  /\ result' = [status |-> "none", image |-> FALSE, left |-> {}]
  /\ Go("dispatch", [ptr EXCEPT !["ref cache"] =
                       IF req'.refs = <<>> THEN "null" ELSE "undefined"])
  /\ UNCHANGED <<vision, count>>

-----------------------------------------------------------------------------
(* Both paths. *)

References == Len(req.refs)

WithReferences == req.refs # <<>>

\* use_cfg: a second branch without the prompt.
Guided == ~WithReferences /\ req.sampler = "default with guidance"

Decks == IF Guided THEN {"deck", "deck 2"} ELSE {"deck"}
Plans == IF Guided THEN {"plan", "plan 2"} ELSE {"plan"}

\* The request goes down one of the two paths.
Accept ==
  /\ pc = "dispatch"
  /\ IF WithReferences THEN vision /\ References <= MaxRefs /\ Goto("references")
     ELSE req.sampler # "refused" /\ Goto("tokenize")
  /\ GoesOn /\ UNCHANGED <<st, ptr, done, towerVars>>

\* It is refused: no vision tower, too many references, a sampler the path does
\* not know, dimensions off the patch grid, an alias without references, or the
\* one reference that gives the dimensions does not load.
Refuse ==
  /\ pc = "dispatch"
  /\ Return("error", FALSE, ptr)
  /\ UNCHANGED <<vision, req, st, done, towerVars>>

\* Without references: the next branch's token ids and its sequence.
BuildDeck ==
  /\ pc = "tokenize"
  /\ LET next == IF ptr["deck"] = "null" THEN "deck" ELSE "deck 2"
     IN  Go(IF next = "deck" /\ Guided THEN "tokenize" ELSE "workspace", Acquired(next))
  /\ GoesOn /\ UNCHANGED <<st, done, towerVars>>

\* The ids fail: return at once.  The sequence fails: the decks go first.
BuildDeckFails ==
  /\ pc = "tokenize"
  /\ \E pointers \in {ptr, Freed(Decks)} : Return("error", FALSE, pointers)
  /\ UNCHANGED <<vision, req, st, done, towerVars>>

AllocateWorkspace ==
  /\ pc = "workspace" /\ Go("plans", Acquired("workspace"))
  /\ GoesOn /\ UNCHANGED <<st, done, towerVars>>

WorkspaceFails ==
  /\ pc = "workspace"
  /\ Return("error", FALSE, Freed(Decks \cup {"patches"}))
  /\ UNCHANGED <<vision, req, st, done, towerVars>>

\* An attention plan for each branch; without one the eager kernels do.
MakePlans ==
  /\ pc = "plans"
  /\ \E made \in SUBSET Plans :
       Go("inputs", [x \in Resource |-> IF x \in made THEN "live" ELSE ptr[x]])
  /\ GoesOn /\ UNCHANGED <<st, done, towerVars>>

StageInputs ==
  /\ pc = "inputs" /\ Go("buffers", Acquired("inputs"))
  /\ GoesOn /\ UNCHANGED <<st, done, towerVars>>

InputsFail ==
  /\ pc = "inputs"
  /\ Return("error", FALSE, Freed(Decks \cup {"patches", "workspace"}))
  /\ UNCHANGED <<vision, req, st, done, towerVars>>

\* All device buffers are asked for before the first is tested.
AllocateBuffers ==
  /\ pc = "buffers"
  /\ \E label \in {IF WithReferences THEN "upload" ELSE "noise", "fail"} :
       Go(label, Acquired("buffers"))
  /\ GoesOn /\ UNCHANGED <<st, done, towerVars>>

\* The reference patches go up through a buffer of their own, which a failure
\* beside it leaves behind.
UploadReferences ==
  /\ pc = "upload"
  /\ \/ Go("ref cache", ptr)
     \/ \E pointers \in {ptr, Acquired("upload")} : Go("fail", pointers)
  /\ GoesOn /\ UNCHANGED <<st, done, towerVars>>

\* The embedded reference rows, the same in every step.
EmbedReferences ==
  /\ pc = "ref cache"
  /\ \/ Go("noise", Acquired("ref cache"))
     \/ Go("fail", Cleared({"ref cache"}))
  /\ GoesOn /\ UNCHANGED <<st, done, towerVars>>

\* The first sample; a failure leaves one of its buffers behind.
MakeNoise ==
  /\ pc = "noise"
  /\ \/ Go("schedule", ptr)
     \/ \E pointers \in {ptr, Acquired("noise")} : Go("fail", pointers)
  /\ GoesOn /\ UNCHANGED <<st, done, towerVars>>

\* The sigmas and the buffer for the noise of a step.
PrepareLoop ==
  /\ pc = "schedule"
  /\ Go("denoise", Acquired("step noise")) \/ Go("fail", ptr)
  /\ GoesOn /\ UNCHANGED <<st, done, towerVars>>

\* The denoising loop (module Denoise), to its end or to a step that fails.
DenoiseLoop ==
  /\ pc = "denoise"
  /\ \/ Goto("decode") /\ UNCHANGED st
     \/ Goto("fail") /\ st' = "error"
  /\ ptr' = Freed({"step noise"})
  /\ GoesOn /\ UNCHANGED <<done, towerVars>>

AllocateOutput ==
  /\ pc = "decode"
  /\ Go("check", Acquired("output")) \/ Go("fail", Cleared({"output"}))
  /\ GoesOn /\ UNCHANGED <<st, done, towerVars>>

\* Mutant: the pointers to what was refused keep their values.
CheckOutputKeeps ==
  /\ pc = "check"
  /\ Go("finish", ptr) \/ Go("fail", Freed({"output"}))
  /\ GoesOn /\ UNCHANGED <<st, done, towerVars>>

\* The check of the final sample.
CheckOutput ==
  /\ pc = "check"
  /\ Go("finish", ptr) \/ Go("fail", Cleared({"output"}))
  /\ GoesOn /\ UNCHANGED <<st, done, towerVars>>

\* Mutant: the second plan is forgotten.
ReleasedForgetsPlan ==
  {"workspace", "inputs", "buffers", "deck"} \cup
  IF WithReferences
  THEN {"ref cache", "embeds", "mask", "tower plan", "tower", "patches"}
  ELSE {"plan"} \cup Decks

\* What both the end and the label fail release.
Released ==
  {"workspace", "inputs", "buffers", "deck"} \cup
  IF WithReferences
  THEN {"ref cache", "embeds", "mask", "tower plan", "tower", "patches"}
  ELSE Plans \cup Decks

\* HD_OK with the image, which is the caller's.
Finish ==
  /\ pc = "finish"
  /\ Return("ok", TRUE, Freed(Released))
  /\ UNCHANGED <<vision, req, st, done, towerVars>>

\* The label fail.
Fail ==
  /\ pc = "fail"
  /\ Return("error", FALSE, Freed(Released \cup {"output"}))
  /\ UNCHANGED <<vision, req, st, done, towerVars>>

-----------------------------------------------------------------------------
(* The path with references, up to the workspace. *)

Grid(r) == req.refs[r]

\* Merged tokens of a reference (V), and its raw patches (N = vlm_n).
Tokens(g) == g.h * g.w
Patches(g) == 4 * Tokens(g)

\* The next reference is loaded, kept for the tower, resized and appended.
LoadReference ==
  /\ pc = "references" /\ done < References
  /\ done' = done + 1
  /\ ptr' = [ptr EXCEPT !["originals"] = "live", !["patches"] = "live"]
  /\ GoesOn /\ UNCHANGED <<pc, st, towerVars>>

\* It does not load; or it cannot be resized; or there is no room to append it.
\* Only the last way out releases anything, the patches.
LoadReferenceFails ==
  /\ pc = "references" /\ done < References
  /\ \E pointers \in {ptr, Acquired("originals"),
                      [Freed({"patches"}) EXCEPT !["originals"] = "live"]} :
       Return("error", FALSE, pointers)
  /\ UNCHANGED <<vision, req, st, done, towerVars>>

\* The aliases of the prompt and the sequence.
BuildSequence ==
  /\ pc = "references" /\ done = References
  /\ Go("tower", Acquired("deck"))
  /\ GoesOn /\ UNCHANGED <<st, done, towerVars>>

BuildSequenceFails ==
  /\ pc = "references" /\ done = References
  /\ Return("error", FALSE, Freed({"patches"}))
  /\ UNCHANGED <<vision, req, st, done, towerVars>>

\* The tower's workspace, for the reference with the most patches.
AllocateTower ==
  /\ pc = "tower"
  /\ \E r \in 1 .. References :
       /\ \A q \in 1 .. References : Patches(Grid(q)) <= Patches(Grid(r))
       /\ capacity' = Patches(Grid(r))
  /\ Go("embeds", Acquired("tower"))
  /\ GoesOn /\ UNCHANGED <<st, done, plan_n, tables, offset, embeds>>

TowerFails ==
  /\ pc = "tower"
  /\ Return("error", FALSE, Freed({"deck", "patches", "originals"}))
  /\ UNCHANGED <<vision, req, st, done, towerVars>>

\* The row at which the first n references end.
Rows ==
  LET end[n \in 0 .. References] == IF n = 0 THEN 0 ELSE end[n - 1] + Tokens(Grid(n))
  IN  end

\* The rows of all references, in the order of the references.
AllocateEmbeds ==
  /\ pc = "embeds"
  /\ \E label \in {"reference", "vision_fail"} : Go(label, Acquired("embeds"))
  /\ embeds' = [p \in 1 .. Rows[References] |-> 0] /\ offset' = 0 /\ done' = 0
  /\ GoesOn /\ UNCHANGED <<st, capacity, plan_n, tables>>

\* The reference the tower is at.
Current == Grid(done + 1)

\* Its original goes, pointer and all: after the last one none is left.
OriginalGone == IF done + 1 = References THEN Cleared({"originals"}) ELSE ptr

\* The original is resized to the grid, normalised and sent to the device.
PrepareReference ==
  /\ pc = "reference"
  /\ Go("prepare tower", [OriginalGone EXCEPT !["pixels"] = "live"])
  /\ GoesOn /\ UNCHANGED <<st, done, towerVars>>

\* One of these steps fails.  Only hd_image_to_vlm_patches leaves its status in
\* st; out of device memory, one of the two buffers stays.
PrepareReferenceFails ==
  /\ pc = "reference"
  /\ \/ st' \in {st, "error"} /\ Go("vision_fail", OriginalGone)
     \/ UNCHANGED st /\ Go("vision_fail", [OriginalGone EXCEPT !["pixels"] = "live"])
  /\ GoesOn /\ UNCHANGED <<done, towerVars>>

\* Mutant: a plan is kept whatever it was made for.
MakePlanOnce(pointers) ==
  IF ptr["tower plan"] = "live"
  THEN ptr' = pointers /\ UNCHANGED plan_n
  ELSE \/ ptr' = [pointers EXCEPT !["tower plan"] = "live"] /\ plan_n' = Patches(Current)
       \/ ptr' = [pointers EXCEPT !["tower plan"] = "null"] /\ UNCHANGED plan_n

\* The tower's attention plan is kept for references with as many patches; else
\* it is released and a new one asked for, without which the tower does.
MakePlan(pointers) ==
  IF ptr["tower plan"] = "live" /\ plan_n = Patches(Current)
  THEN ptr' = pointers /\ UNCHANGED plan_n
  ELSE \/ ptr' = [pointers EXCEPT !["tower plan"] = "live"] /\ plan_n' = Patches(Current)
       \/ ptr' = [pointers EXCEPT !["tower plan"] = "null"] /\ UNCHANGED plan_n

\* Then its tables, which are kept for references with the same grid.
PrepareTower ==
  /\ pc = "prepare tower"
  /\ MakePlan(ptr)
  /\ tables' = <<Current>>
  /\ Goto("run tower")
  /\ GoesOn /\ UNCHANGED <<st, done, capacity, offset, embeds>>

\* They are for another grid and cannot be built.
PrepareTowerFails ==
  /\ pc = "prepare tower" /\ tables # <<Current>>
  /\ MakePlan(Freed({"pixels"}))
  /\ st' = "error" /\ Goto("vision_fail")
  /\ GoesOn /\ UNCHANGED <<done, capacity, tables, offset, embeds>>

\* Mutant: every reference is written to the first rows.
RunTowerInPlace ==
  /\ pc = "run tower"
  /\ embeds' = [p \in DOMAIN embeds |->
                  IF p \in offset + 1 .. offset + Tokens(Current) THEN done + 1 ELSE embeds[p]]
  /\ done' = done + 1
  /\ Go(IF done' = References THEN "mask" ELSE "reference", Freed({"pixels"}))
  /\ GoesOn /\ UNCHANGED <<st, capacity, plan_n, tables, offset>>

\* hd_vision_forward writes the rows of the reference behind those before it.
RunTower ==
  /\ pc = "run tower"
  /\ embeds' = [p \in DOMAIN embeds |->
                  IF p \in offset + 1 .. offset + Tokens(Current) THEN done + 1 ELSE embeds[p]]
  /\ offset' = offset + Tokens(Current)
  /\ done' = done + 1
  /\ Go(IF done' = References THEN "mask" ELSE "reference", Freed({"pixels"}))
  /\ GoesOn /\ UNCHANGED <<st, capacity, plan_n, tables>>

RunTowerFails ==
  /\ pc = "run tower"
  /\ st' = "error" /\ Go("vision_fail", Freed({"pixels"}))
  /\ GoesOn /\ UNCHANGED <<done, towerVars>>

\* The mask of the placeholders in the text; none on the device, or the wrong
\* number of them.
MakeMask ==
  /\ pc = "mask"
  /\ Go("workspace", Acquired("mask")) \/ Go("vision_fail", ptr)
  /\ GoesOn /\ UNCHANGED <<st, done, towerVars>>

\* What the label vision_fail releases.
ReleasedByVision ==
  {"deck", "patches", "tower", "embeds", "mask", "tower plan", "originals"}

\* The label vision_fail returns whatever st is.
VisionFail ==
  /\ pc = "vision_fail"
  /\ Return(st, FALSE, Freed(ReleasedByVision))
  /\ UNCHANGED <<vision, req, st, done, towerVars>>

-----------------------------------------------------------------------------
Engine == LoadWeights \/ Resolve \/ ApplyLora \/ ResolveVision \/ CloseRequested \/ Close

Prologue ==
  \/ LoadReference \/ LoadReferenceFails \/ BuildSequence \/ BuildSequenceFails
  \/ AllocateTower \/ TowerFails \/ AllocateEmbeds
  \/ PrepareReference \/ PrepareReferenceFails \/ PrepareTower \/ PrepareTowerFails
  \/ RunTower \/ RunTowerFails \/ MakeMask \/ VisionFail

Main ==
  \/ StartRequest \/ Accept \/ Refuse \/ BuildDeck \/ BuildDeckFails
  \/ AllocateWorkspace \/ WorkspaceFails \/ MakePlans \/ StageInputs \/ InputsFail
  \/ AllocateBuffers \/ UploadReferences \/ EmbedReferences \/ MakeNoise \/ PrepareLoop
  \/ DenoiseLoop \/ AllocateOutput \/ CheckOutput \/ Finish \/ Fail

Next == Engine \/ Prologue \/ Main

Ended == pc = "closed" /\ UNCHANGED vars

Spec == Init /\ [][Next \/ Ended]_vars

-----------------------------------------------------------------------------
(* Properties. *)

\* No way out releases what is gone already, although stages and labels both
\* release: a stage that releases something for good clears its pointer.  The
\* label fail may still release xe_ref_dev before it holds anything.
FreedOnce ==
  /\ pc = "vision_fail" => \A x \in ReleasedByVision : ptr[x] \in {"null", "live"}
  /\ pc = "finish" => \A x \in Released : ptr[x] \in {"null", "live"}
  /\ pc = "fail" => \A x \in Released \cup {"output"} : ptr[x] # "dangling"
  /\ pc # "closed" => \A x \in Resident : ptr[x] # "dangling"

\* A request that got its image leaves nothing on an engine that serves many,
\* but for the attention plan of a request with references.
NothingStays ==
  result.status = "ok" /\ result.image =>
    result.left \subseteq (IF WithReferences THEN {"plan"} ELSE {})

\* The tower runs with a plan and tables made for the reference at hand, though
\* both are kept from one reference to the next, and inside its workspace.
TowerFits ==
  pc = "run tower" =>
    /\ ptr["tower plan"] = "live" => plan_n = Patches(Current)
    /\ tables = <<Current>>
    /\ Patches(Current) <= capacity

\* The forward passes find every buffer they are given, and in the rows the
\* rows of each reference where its placeholders are in the text.
LoopHasItsInputs ==
  pc = "denoise" =>
    /\ \A x \in {"workspace", "inputs", "buffers", "step noise"} : ptr[x] = "live"
    /\ WithReferences =>
         /\ \A x \in {"embeds", "mask", "ref cache"} : ptr[x] = "live"
         /\ \A r \in 1 .. References : \A p \in Rows[r - 1] + 1 .. Rows[r] : embeds[p] = r

-----------------------------------------------------------------------------
(* What the header says and the code does not do. *)

\* generate.h: "Returns HD_OK on success.  Fails closed on [...] any stage error."
OkMeansImage == result.status = "ok" => result.image
=============================================================================
