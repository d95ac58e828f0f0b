-------------------------- MODULE Generation_proofs --------------------------
(***************************************************************************)
(* Proofs about module Generation, for any grids, any limit on references  *)
(* and any number of requests: types, that nothing is released twice, that *)
(* a successful request leaves nothing behind, that the tower runs on what *)
(* was made for it, that the denoising loop finds all it is given.         *)
(***************************************************************************)
EXTENDS Generation, SequenceTheorems, WellFoundedInduction, TLAPS

\* Between two requests.
Outside == {"new", "resolve", "lora", "vision tower", "idle", "close", "closed"}

\* The stages of the path with references alone, and those that go through them.
Towering == {"reference", "prepare tower", "run tower"}
OfReferences ==
  Towering \cup {"references", "tower", "embeds", "mask", "vision_fail", "upload", "ref cache"}

\* The stages behind the reference cache.
Late == {"noise", "schedule", "denoise", "decode", "check", "finish"}

\* Where a request is.
RequestPlace ==
  /\ pc \notin Outside => count < MaxCount
  /\ pc \notin Outside \cup {"dispatch"} /\ WithReferences => References <= MaxRefs
  /\ pc \in OfReferences => WithReferences
  /\ pc = "dispatch" => ptr["deck"] = "null"
  /\ pc = "tokenize" => ~WithReferences /\ (ptr["deck"] # "null" => Guided)
  /\ pc \in Towering => done < References

\* What no pointer is.
PointerPlace ==
  /\ pc \in Outside => \A x \in Transient : ptr[x] = "null"
  /\ \A x \in Transient \ {"pixels", "step noise"} : ptr[x] # "dangling"
  /\ pc # "closed" => \A x \in Resident : ptr[x] # "dangling"
  /\ \A x \in Resource \ {"ref cache"} : ptr[x] # "undefined"
  /\ ptr["ref cache"] = "undefined" => WithReferences /\ pc \notin Late

\* Where what the ends of the paths do not release may be live, and what only
\* one of the paths has.
StageLive ==
  /\ \A x \in {"upload", "noise"} : ptr[x] = "live" => pc = "fail"
  /\ ptr["step noise"] = "live" => pc = "denoise"
  /\ ptr["pixels"] = "live" => pc \in {"prepare tower", "run tower", "vision_fail"}
  /\ ptr["originals"] = "live" =>
       \/ pc \in {"references", "tower", "embeds", "reference", "vision_fail"}
       \/ pc \in {"prepare tower", "run tower"} /\ done + 1 # References

PathLive ==
  /\ \A x \in {"deck 2", "plan 2"} : ptr[x] = "live" => Guided
  /\ \A x \in {"patches", "tower", "tower plan", "embeds", "mask", "ref cache"} :
       ptr[x] = "live" => WithReferences

\* What the tower is given.
TowerPlace ==
  /\ pc \in Towering \cup {"embeds"} =>
       \A r \in 1 .. References : Patches(Grid(r)) <= capacity
  /\ TowerFits

\* Behind the allocation of the workspace, up to the denoising loop; and from the
\* loop of the tower on.
Filling == {"plans", "inputs", "buffers", "upload", "ref cache", "noise", "schedule", "denoise"}
Inside == Towering \cup {"mask", "workspace"} \cup Filling

\* What the loop is given is there from the stage that acquires it on.
InputsLive ==
  /\ pc \in Filling => ptr["workspace"] = "live"
  /\ pc \in Filling \ {"plans", "inputs"} => ptr["inputs"] = "live"
  /\ pc \in Filling \ {"plans", "inputs", "buffers"} => ptr["buffers"] = "live"
  /\ pc = "denoise" => ptr["step noise"] = "live"
  /\ WithReferences =>
       /\ pc \in Inside => ptr["embeds"] = "live"
       /\ pc \in Filling \cup {"workspace"} => ptr["mask"] = "live"
       /\ pc \in {"noise", "schedule", "denoise"} => ptr["ref cache"] = "live"

\* The references that are done have filled their rows, one behind the other.
RowsFilled ==
  pc \in Inside /\ WithReferences =>
    /\ done <= References
    /\ pc \notin Towering => done = References
    /\ DOMAIN embeds = 1 .. Rows[References] /\ offset = Rows[done]
    /\ \A r \in 1 .. done : \A p \in Rows[r - 1] + 1 .. Rows[r] : embeds[p] = r

IInv ==
  /\ TypeOK /\ RequestPlace /\ PointerPlace /\ StageLive /\ PathLive /\ TowerPlace
  /\ NothingStays /\ InputsLive /\ RowsFilled

-----------------------------------------------------------------------------
(* Types. *)

\* The types in three parts: control, pointers, tower.
Pointers == [Resource -> {"null", "live", "dangling", "undefined"}]
Results == [status : {"none", "ok", "error"}, image : BOOLEAN, left : SUBSET Transient]
ControlTypes ==
  /\ pc \in PC /\ vision \in BOOLEAN /\ count \in 0 .. MaxCount
  /\ req \in Request /\ st \in {"ok", "error"} /\ done \in 0 .. MaxRefs
  /\ result \in Results
TowerTypes ==
  /\ capacity \in Nat /\ plan_n \in Nat /\ offset \in Nat
  /\ tables \in {<<>>} \cup {<<g>> : g \in Grids}
  /\ \A p \in DOMAIN embeds : embeds[p] \in 0 .. MaxRefs

\* The three parts are the type invariant.
LEMMA TypeParts == TypeOK <=> ControlTypes /\ ptr \in Pointers /\ TowerTypes
  BY DEF TypeOK, ControlTypes, Pointers, Results, TowerTypes

\* The ways to change pointers keep their type.
LEMMA PointerTypes ==
  ASSUME TypeOK
  PROVE  /\ \A x : Acquired(x) \in Pointers
         /\ \A R : Freed(R) \in Pointers /\ Cleared(R) \in Pointers
         /\ OriginalGone \in Pointers
  BY DEF Pointers, TypeOK, Acquired, Freed, Cleared, OriginalGone

\* References are references, their tokens and patches numbers.
LEMMA GridTypes ==
  ASSUME TypeOK
  PROVE  /\ References \in 0 .. MaxRefs + 1 /\ req.refs \in [1 .. References -> Grids]
         /\ WithReferences <=> References # 0
         /\ \A g \in Grids : Tokens(g) \in Nat /\ Patches(g) \in Nat
<1>1. req.refs \in UNION {[1 .. k -> Grids] : k \in 0 .. MaxRefs + 1} BY DEF TypeOK, Request
<1>2. PICK k \in 0 .. MaxRefs + 1 : req.refs \in [1 .. k -> Grids] BY <1>1
<1>3. k \in Nat BY BoundAssumption
<1>4. req.refs \in Seq(Grids) /\ Len(req.refs) = k BY <1>2, <1>3
<1>5. WithReferences <=> k # 0 BY <1>4, EmptySeq DEF WithReferences
<1>6. ASSUME NEW g \in Grids PROVE Tokens(g) \in Nat /\ Patches(g) \in Nat
  <2>1. g.h \in Nat /\ g.w \in Nat BY GridAssumption
  <2>2. \A m, n \in Nat : m * n \in Nat OBVIOUS
  <2>3. Tokens(g) \in Nat BY <2>1, <2>2 DEF Tokens
  <2> QED BY <2>3 DEF Patches
<1> QED BY <1>2, <1>4, <1>5, <1>6 DEF References

\* The two counts of references are numbers.
LEMMA ReferencesType == TypeOK => References \in Nat /\ done \in Nat
<1> SUFFICES ASSUME TypeOK PROVE References \in Nat /\ done \in Nat OBVIOUS
<1>1. References \in 0 .. MaxRefs + 1 BY GridTypes
<1>2. done \in 0 .. MaxRefs BY DEF TypeOK
<1> QED BY <1>1, <1>2, BoundAssumption

\* A new engine has its types.
LEMMA InitTypes == Init => TypeOK
<1> SUFFICES ASSUME Init PROVE TypeOK OBVIOUS
<1>1. req \in Request
  <2>1. <<>> \in [1 .. 0 -> Grids] OBVIOUS
  <2>2. <<>> \in UNION {[1 .. k -> Grids] : k \in 0 .. MaxRefs + 1} BY <2>1, BoundAssumption
  <2> QED BY <2>2 DEF Init, Request
<1>2. ControlTypes
  <2>1. [status |-> "none", image |-> FALSE, left |-> {}] \in Results BY DEF Results
  <2>2. 0 \in 0 .. MaxCount /\ 0 \in 0 .. MaxRefs BY BoundAssumption
  <2>3. "new" \in PC BY DEF PC
  <2> QED BY <1>1, <2>1, <2>2, <2>3 DEF Init, ControlTypes
<1>3. ptr \in Pointers BY DEF Init, Pointers
<1>4. TowerTypes
  <2>1. DOMAIN <<>> = {} OBVIOUS
  <2> QED BY <2>1 DEF Init, TowerTypes
<1> QED BY <1>2, <1>3, <1>4, TypeParts

\* A step that leaves the tower alone.
LEMMA TowerTypesFrame == TowerTypes /\ UNCHANGED towerVars => TowerTypes'
  BY DEF TowerTypes, towerVars

\* Pointers keep their type.
LEMMA PointersStep ==
  ASSUME TypeOK, Next \/ Ended
  PROVE  ptr' \in Pointers
<1> USE DEF Pointers
<1>0. ptr \in Pointers BY TypeParts
<1>1. CASE Engine
  BY <1>0, <1>1, PointerTypes DEF Engine, LoadWeights, Resolve, ApplyLora, ResolveVision,
     CloseRequested, Close, Go, Goto
<1>2. CASE StartRequest BY <1>0, <1>2 DEF StartRequest, Go
<1>3. CASE \/ Refuse \/ BuildDeckFails \/ WorkspaceFails \/ InputsFail \/ Finish \/ Fail
           \/ LoadReferenceFails \/ BuildSequenceFails \/ TowerFails \/ VisionFail
  <2>1. ASSUME NEW status, NEW image, NEW pointers \in Pointers, Return(status, image, pointers)
        PROVE  ptr' \in Pointers
    BY <2>1 DEF Return
  <2>2. [Freed({"patches"}) EXCEPT !["originals"] = "live"] \in Pointers
    BY PointerTypes
  <2> QED
    BY <1>0, <1>3, <2>1, <2>2, PointerTypes
    DEF Refuse, BuildDeckFails, WorkspaceFails, InputsFail, Finish, Fail,
        LoadReferenceFails, BuildSequenceFails, TowerFails, VisionFail
<1>4. CASE \/ Accept \/ BuildSequence \/ BuildDeck \/ AllocateWorkspace \/ StageInputs
           \/ AllocateBuffers
  BY <1>0, <1>4, PointerTypes DEF Go, Accept, BuildDeck, BuildSequence, AllocateWorkspace,
     StageInputs, AllocateBuffers
<1>5. CASE \/ UploadReferences \/ EmbedReferences \/ MakeNoise \/ PrepareLoop \/ DenoiseLoop
           \/ AllocateOutput \/ CheckOutput
  BY <1>0, <1>5, PointerTypes DEF Go, UploadReferences, EmbedReferences, MakeNoise, PrepareLoop,
     DenoiseLoop, AllocateOutput, CheckOutput
<1>6. CASE MakePlans
  <2>1. PICK made \in SUBSET Plans :
          ptr' = [x \in Resource |-> IF x \in made THEN "live" ELSE ptr[x]]
    BY <1>6 DEF MakePlans, Go
  <2> QED BY <1>0, <2>1
<1>7. CASE LoadReference BY <1>0, <1>7 DEF LoadReference
<1>8. CASE \/ AllocateTower \/ AllocateEmbeds \/ MakeMask \/ RunTower \/ RunTowerFails
           \/ PrepareReference \/ PrepareReferenceFails
  BY <1>0, <1>8, PointerTypes DEF Go, AllocateTower, AllocateEmbeds, MakeMask, RunTower,
     RunTowerFails, PrepareReference, PrepareReferenceFails
<1>9. CASE PrepareTower \/ PrepareTowerFails
  <2>1. ASSUME NEW pointers \in Pointers, MakePlan(pointers) PROVE ptr' \in Pointers
    BY <2>1 DEF MakePlan
  <2>2. Freed({"pixels"}) \in Pointers BY PointerTypes
  <2> QED BY <1>0, <1>9, <2>1, <2>2 DEF PrepareTower, PrepareTowerFails
<1>10. CASE Ended BY <1>0, <1>10 DEF Ended, vars
<1> QED
  BY <1>1, <1>2, <1>3, <1>4, <1>5, <1>6, <1>7, <1>8, <1>9, <1>10 DEF Next, Main, Prologue

\* So does the rest of the control.
LEMMA ControlStep ==
  ASSUME TypeOK, RequestPlace, Next \/ Ended
  PROVE  ControlTypes'
<1>0. ControlTypes /\ ptr \in Pointers BY TypeParts
<1>1. CASE Engine
  BY <1>0, <1>1 DEF Engine, LoadWeights, Resolve, ApplyLora, ResolveVision, CloseRequested,
     Close, Go, Goto, PC, ControlTypes
<1>2. CASE StartRequest
  <2>1. [status |-> "none", image |-> FALSE, left |-> {}] \in Results BY DEF Results
  <2>2. 0 \in 0 .. MaxRefs BY BoundAssumption
  <2> QED BY <1>0, <1>2, <2>1, <2>2 DEF StartRequest, Go, Goto, PC, ControlTypes
<1>3. CASE \/ Refuse \/ BuildDeckFails \/ WorkspaceFails \/ InputsFail \/ Finish \/ Fail
           \/ LoadReferenceFails \/ BuildSequenceFails \/ TowerFails \/ VisionFail
  <2>1. \E status \in {"ok", "error"}, image \in BOOLEAN :
          \E pointers : Return(status, image, pointers)
    BY <1>0, <1>3 DEF ControlTypes, Refuse, BuildDeckFails, WorkspaceFails, InputsFail, Finish,
       Fail, LoadReferenceFails, BuildSequenceFails, TowerFails, VisionFail
  <2>2. UNCHANGED <<vision, req, st, done>>
    BY <1>3 DEF Refuse, BuildDeckFails, WorkspaceFails, InputsFail, Finish, Fail,
       LoadReferenceFails, BuildSequenceFails, TowerFails, VisionFail
  <2>3. count < MaxCount
    BY <1>3 DEF RequestPlace, Outside, Refuse, BuildDeckFails, WorkspaceFails, InputsFail,
       Finish, Fail, LoadReferenceFails, BuildSequenceFails, TowerFails, VisionFail
  <2>4. PICK status \in {"ok", "error"}, image \in BOOLEAN :
          \E pointers : Return(status, image, pointers)
    BY <2>1
  <2>5. PICK pointers : Return(status, image, pointers) BY <2>4
  <2>6. result' \in Results
    <3>1. {x \in Transient : pointers[x] = "live"} \ (IF image THEN {"output"} ELSE {})
            \in SUBSET Transient
      OBVIOUS
    <3> QED BY <2>5, <3>1 DEF Return, Results
  <2>7. pc' = "idle" BY <2>5 DEF Return, Goto
  <2>8. count' \in 0 .. MaxCount
    BY <1>0, <2>3, <2>5, BoundAssumption DEF Return, ControlTypes
  <2> QED BY <1>0, <2>2, <2>6, <2>7, <2>8 DEF ControlTypes, PC
<1>4. CASE \/ Accept \/ BuildDeck \/ AllocateWorkspace \/ MakePlans \/ StageInputs
           \/ AllocateBuffers \/ UploadReferences \/ EmbedReferences \/ MakeNoise
           \/ PrepareLoop \/ DenoiseLoop \/ AllocateOutput \/ CheckOutput
           \/ BuildSequence \/ MakeMask \/ AllocateTower \/ PrepareReference
           \/ PrepareReferenceFails \/ PrepareTower \/ PrepareTowerFails \/ RunTowerFails
  <2>1. UNCHANGED <<vision, count, req, result, done>> /\ st' \in {st, "error"}
    BY <1>4 DEF GoesOn, Accept, BuildDeck, AllocateWorkspace, MakePlans, StageInputs,
       AllocateBuffers, UploadReferences, EmbedReferences, MakeNoise, PrepareLoop, DenoiseLoop,
       AllocateOutput, CheckOutput, BuildSequence, MakeMask, AllocateTower, PrepareReference,
       PrepareReferenceFails, PrepareTower, PrepareTowerFails, RunTowerFails
  <2>2. pc' \in PC
    BY <1>4 DEF Go, Goto, PC, Accept, BuildDeck, AllocateWorkspace, MakePlans, StageInputs,
       AllocateBuffers, UploadReferences, EmbedReferences, MakeNoise, PrepareLoop, DenoiseLoop,
       AllocateOutput, CheckOutput, BuildSequence, MakeMask, AllocateTower, PrepareReference,
       PrepareReferenceFails, PrepareTower, PrepareTowerFails, RunTowerFails
  <2> QED BY <1>0, <2>1, <2>2 DEF ControlTypes
<1>5. CASE LoadReference \/ RunTower
  <2>1. done < References /\ References <= MaxRefs
    BY <1>5 DEF LoadReference, RunTower, RequestPlace, Outside, Towering, OfReferences
  <2>2. done' \in 0 .. MaxRefs
    <3>1. done' = done + 1 BY <1>5 DEF LoadReference, RunTower
    <3> QED BY <2>1, <3>1, ReferencesType, BoundAssumption
  <2>3. UNCHANGED <<vision, count, req, result, st>> /\ pc' \in {pc, "mask", "reference"}
    BY <1>5 DEF LoadReference, RunTower, GoesOn, Go, Goto
  <2> QED BY <1>0, <2>2, <2>3 DEF ControlTypes, PC
<1>6. CASE AllocateEmbeds
  <2>1. pc' \in {"reference", "vision_fail"} /\ done' = 0
    BY <1>6 DEF AllocateEmbeds, Go, Goto
  <2>2. UNCHANGED <<vision, count, req, result, st>> BY <1>6 DEF AllocateEmbeds, GoesOn
  <2>3. 0 \in 0 .. MaxRefs BY BoundAssumption
  <2> QED BY <1>0, <2>1, <2>2, <2>3 DEF PC, ControlTypes
<1>7. CASE Ended BY <1>0, <1>7 DEF Ended, vars, ControlTypes
<1> QED
  BY <1>1, <1>2, <1>3, <1>4, <1>5, <1>6, <1>7 DEF Next, Main, Prologue

\* So does what the tower keeps.
LEMMA TowerTypesStep ==
  ASSUME TypeOK, RequestPlace, Next \/ Ended
  PROVE  TowerTypes'
<1>0. TowerTypes BY TypeParts
<1>1. CASE UNCHANGED towerVars BY <1>0, <1>1, TowerTypesFrame
<1>2. CASE StartRequest
  <2>1. /\ capacity' = 0 /\ plan_n' = 0 /\ tables' = <<>> /\ offset' = 0
        /\ embeds' = <<>>
    BY <1>2 DEF StartRequest
  <2>2. DOMAIN <<>> = {} OBVIOUS
  <2> QED BY <2>1, <2>2 DEF TowerTypes
<1>3. CASE AllocateTower
  <2>1. capacity' \in Nat BY <1>3, GridTypes DEF AllocateTower, Grid
  <2> QED BY <1>0, <1>3, <2>1 DEF AllocateTower, TowerTypes
<1>4. CASE AllocateEmbeds
  <2>1. \A p \in DOMAIN embeds' : embeds'[p] \in 0 .. MaxRefs
    BY <1>4, BoundAssumption DEF AllocateEmbeds
  <2> QED BY <1>0, <1>4, <2>1 DEF AllocateEmbeds, TowerTypes
<1>5. CASE PrepareTower \/ PrepareTowerFails \/ RunTower
  <2>1. done < References /\ References <= MaxRefs
    BY <1>5 DEF PrepareTower, PrepareTowerFails, RunTower, RequestPlace, Outside, Towering,
       OfReferences
  <2>2. Current \in Grids
    <3>1. done + 1 \in 1 .. References BY <2>1, ReferencesType
    <3> QED BY <3>1, GridTypes DEF Current, Grid
  <2>3. Tokens(Current) \in Nat /\ Patches(Current) \in Nat BY <2>2, GridTypes
  <2>4. CASE PrepareTower \/ PrepareTowerFails
    BY <1>0, <2>2, <2>3, <2>4 DEF PrepareTower, PrepareTowerFails, MakePlan, TowerTypes
  <2>5. CASE RunTower
    <3>1. \A p \in DOMAIN embeds' : embeds'[p] \in 0 .. MaxRefs
      <4>1. embeds' = [p \in DOMAIN embeds |->
              IF p \in offset + 1 .. offset + Tokens(Current) THEN done + 1 ELSE embeds[p]]
        BY <2>5 DEF RunTower
      <4>2. done + 1 \in 0 .. MaxRefs BY <2>1, ReferencesType, BoundAssumption
      <4>3. \A p \in DOMAIN embeds : embeds[p] \in 0 .. MaxRefs BY <1>0 DEF TowerTypes
      <4> QED BY <4>1, <4>2, <4>3
    <3>2. offset' \in Nat
      <4>1. offset' = offset + Tokens(Current) BY <2>5 DEF RunTower
      <4>2. offset \in Nat BY <1>0 DEF TowerTypes
      <4> QED BY <2>3, <4>1, <4>2
    <3>3. UNCHANGED <<capacity, plan_n, tables>> BY <2>5 DEF RunTower
    <3> QED BY <1>0, <3>1, <3>2, <3>3 DEF TowerTypes
  <2> QED BY <1>5, <2>4, <2>5
<1> QED
  <2>1. CASE Engine
    BY <1>1, <2>1 DEF Engine, LoadWeights, Resolve, ApplyLora, ResolveVision, CloseRequested, Close
  <2>2. CASE Prologue
    BY <1>1, <1>3, <1>4, <1>5, <2>2 DEF Prologue, LoadReference, LoadReferenceFails,
       BuildSequence, BuildSequenceFails, TowerFails, PrepareReference, PrepareReferenceFails,
       RunTowerFails, MakeMask, VisionFail
  <2>3. CASE Main
    BY <1>1, <1>2, <2>3 DEF Main, Accept, Refuse, BuildDeck, BuildDeckFails, AllocateWorkspace,
       WorkspaceFails, MakePlans, StageInputs, InputsFail, AllocateBuffers, UploadReferences,
       EmbedReferences, MakeNoise, PrepareLoop, DenoiseLoop, AllocateOutput, CheckOutput,
       Finish, Fail
  <2>4. CASE Ended BY <1>1, <2>4 DEF Ended, vars, towerVars
  <2> QED BY <2>1, <2>2, <2>3, <2>4 DEF Next

\* The type invariant is kept.
LEMMA TypesStep == TypeOK /\ RequestPlace /\ (Next \/ Ended) => TypeOK'
<1> SUFFICES ASSUME TypeOK, RequestPlace, Next \/ Ended PROVE TypeOK' OBVIOUS
<1>1. ControlTypes' /\ ptr' \in Pointers /\ TowerTypes'
  BY PointersStep, ControlStep, TowerTypesStep
<1> QED BY <1>1 DEF TypeOK, ControlTypes, Pointers, Results, TowerTypes

-----------------------------------------------------------------------------
(* Where a request is. *)

\* The request goes on as it was.
LEMMA SameRequest ==
  ASSUME UNCHANGED req
  PROVE  /\ (WithReferences' <=> WithReferences) /\ References' = References
         /\ (Guided' <=> Guided) /\ \A r : Grid(r)' = Grid(r)
  BY DEF WithReferences, References, Guided, Grid

\* The steps that end a request.
Ending ==
  \/ Refuse \/ BuildDeckFails \/ WorkspaceFails \/ InputsFail \/ Finish \/ Fail
  \/ LoadReferenceFails \/ BuildSequenceFails \/ TowerFails \/ VisionFail

\* The steps of one that goes on.
Going ==
  \/ Accept \/ BuildDeck \/ AllocateWorkspace \/ MakePlans \/ StageInputs \/ AllocateBuffers
  \/ UploadReferences \/ EmbedReferences \/ MakeNoise \/ PrepareLoop \/ DenoiseLoop
  \/ AllocateOutput \/ CheckOutput
  \/ LoadReference \/ BuildSequence \/ AllocateTower \/ AllocateEmbeds \/ PrepareReference
  \/ PrepareReferenceFails \/ PrepareTower \/ PrepareTowerFails \/ RunTower \/ RunTowerFails
  \/ MakeMask

\* A step is the engine's, the start of a request, its end, or one between.
LEMMA FourKinds == Next <=> Engine \/ StartRequest \/ Ending \/ Going
  BY DEF Next, Main, Prologue, Ending, Going

\* The engine's own steps are between two requests.
LEMMA EngineOutside ==
  Engine => pc \in Outside /\ pc' \in Outside /\ UNCHANGED <<count, req, result, done>>
  BY DEF Engine, LoadWeights, Resolve, ApplyLora, ResolveVision, CloseRequested, Close, Go, Goto,
     Outside

\* A request that ends goes back to idle and changes little else.
LEMMA EndingReturns ==
  ASSUME Ending
  PROVE  /\ UNCHANGED <<vision, req, st, done, towerVars>> /\ pc \notin Outside /\ pc' = "idle"
         /\ \E status, image, pointers : Return(status, image, pointers)
<1> USE DEF Refuse, BuildDeckFails, WorkspaceFails, InputsFail, Finish, Fail,
      LoadReferenceFails, BuildSequenceFails, TowerFails, VisionFail
<1>1. UNCHANGED <<vision, req, st, done, towerVars>> /\ pc \notin Outside
  BY DEF Ending, Outside
<1>2. \A status, image, pointers : Return(status, image, pointers) => pc' = "idle"
  BY DEF Return, Goto
<1>3. CASE Refuse \/ WorkspaceFails \/ InputsFail \/ Finish \/ Fail
  BY <1>1, <1>2, <1>3
<1>4. CASE BuildDeckFails \/ LoadReferenceFails
  BY <1>1, <1>2, <1>4
<1>5. CASE BuildSequenceFails \/ TowerFails \/ VisionFail
  BY <1>1, <1>2, <1>5
<1> QED BY <1>3, <1>4, <1>5 DEF Ending

\* One that goes on stays one.
LEMMA GoingGoesOn == Going => GoesOn /\ pc \notin Outside /\ pc' \notin Outside
<1>1. Going => GoesOn /\ pc \notin Outside
  BY DEF Going, GoesOn, Outside, Accept, BuildDeck, AllocateWorkspace, MakePlans, StageInputs,
     AllocateBuffers, UploadReferences, EmbedReferences, MakeNoise, PrepareLoop, DenoiseLoop,
     AllocateOutput, CheckOutput, LoadReference, BuildSequence, AllocateTower, AllocateEmbeds,
     PrepareReference, PrepareReferenceFails, PrepareTower, PrepareTowerFails, RunTower,
     RunTowerFails, MakeMask
<1>2. Going => pc' \notin Outside
  BY DEF Going, Go, Goto, Outside, Accept, BuildDeck, AllocateWorkspace, MakePlans, StageInputs,
     AllocateBuffers, UploadReferences, EmbedReferences, MakeNoise, PrepareLoop, DenoiseLoop,
     AllocateOutput, CheckOutput, LoadReference, BuildSequence, AllocateTower, AllocateEmbeds,
     PrepareReference, PrepareReferenceFails, PrepareTower, PrepareTowerFails, RunTower,
     RunTowerFails, MakeMask
<1> QED BY <1>1, <1>2

\* RequestPlace is kept.
LEMMA RequestStep ==
  ASSUME TypeOK, RequestPlace, PointerPlace, Next
  PROVE  RequestPlace'
<1>1. CASE pc' \in Outside
  BY <1>1 DEF RequestPlace, Outside, OfReferences, Towering
<1>2. CASE StartRequest
  <2>1. pc' = "dispatch" /\ count' < MaxCount BY <1>2 DEF StartRequest, Go, Goto
  <2>2. ptr'["deck"] = "null"
    BY <1>2 DEF StartRequest, Go, TypeOK, PointerPlace, Outside, Transient, Resource
  <2> QED BY <2>1, <2>2 DEF RequestPlace, OfReferences, Towering
<1>3. CASE Going
  <2>1. UNCHANGED <<count, req>> /\ pc \notin Outside BY <1>3, GoingGoesOn DEF GoesOn
  <2>2. /\ (WithReferences' <=> WithReferences) /\ References' = References
        /\ (Guided' <=> Guided)
    BY <2>1, SameRequest
  <2>3. pc' \notin Outside => count' < MaxCount BY <2>1 DEF RequestPlace
  <2>4. pc' \in OfReferences => WithReferences
    <3>1. CASE Accept \/ AllocateBuffers \/ UploadReferences
      BY <3>1, GridTypes DEF RequestPlace, OfReferences, Towering, Go, Goto, Accept,
         AllocateBuffers, UploadReferences
    <3>3. CASE \/ BuildDeck \/ AllocateWorkspace \/ MakePlans \/ StageInputs
               \/ EmbedReferences \/ MakeNoise \/ PrepareLoop \/ DenoiseLoop
               \/ AllocateOutput \/ CheckOutput
      BY <3>3 DEF OfReferences, Towering, Go, Goto, BuildDeck, AllocateWorkspace, MakePlans,
         StageInputs, EmbedReferences, MakeNoise, PrepareLoop, DenoiseLoop, AllocateOutput,
         CheckOutput
    <3>2. CASE \/ LoadReference \/ BuildSequence \/ AllocateTower \/ AllocateEmbeds
               \/ PrepareReference \/ PrepareReferenceFails \/ PrepareTower
               \/ PrepareTowerFails \/ RunTower \/ RunTowerFails \/ MakeMask
      <4>1. pc \in OfReferences
        BY <3>2 DEF OfReferences, Towering, LoadReference, BuildSequence, AllocateTower,
           AllocateEmbeds, PrepareReference, PrepareReferenceFails, PrepareTower,
           PrepareTowerFails, RunTower, RunTowerFails, MakeMask
      <4> QED BY <4>1 DEF RequestPlace
    <3> QED BY <1>3, <3>1, <3>2, <3>3 DEF Going
  <2>5. pc' = "tokenize" => ~WithReferences /\ (ptr'["deck"] # "null" => Guided)
    <3> SUFFICES ASSUME pc' = "tokenize"
                 PROVE  ~WithReferences /\ (ptr'["deck"] # "null" => Guided)
      OBVIOUS
    <3>1. CASE Accept BY <3>1 DEF Accept, Goto, RequestPlace
    <3>2. CASE BuildDeck BY <3>2 DEF BuildDeck, Go, Goto, RequestPlace
    <3> QED
      BY <1>3, <3>1, <3>2 DEF Going, Go, Goto, AllocateWorkspace, MakePlans, StageInputs,
         AllocateBuffers, UploadReferences, EmbedReferences, MakeNoise, PrepareLoop, DenoiseLoop,
         AllocateOutput, CheckOutput, LoadReference, BuildSequence, AllocateTower,
         AllocateEmbeds, PrepareReference, PrepareReferenceFails, PrepareTower,
         PrepareTowerFails, RunTower, RunTowerFails, MakeMask
  <2>6. pc' \in Towering => done' < References
    <3> SUFFICES ASSUME pc' \in Towering PROVE done' < References OBVIOUS
    <3>1. CASE AllocateEmbeds
      <4>1. References # 0 BY <3>1, GridTypes DEF AllocateEmbeds, RequestPlace, OfReferences
      <4>2. done' = 0 BY <3>1 DEF AllocateEmbeds
      <4> QED BY <4>1, <4>2, ReferencesType
    <3>2. CASE PrepareReference \/ PrepareTower
      BY <3>2 DEF PrepareReference, PrepareTower, RequestPlace, Towering
    <3>3. CASE RunTower
      <4>1. done < References BY <3>3 DEF RunTower, RequestPlace, Towering
      <4>2. done' = done + 1 /\ (done' = References => pc' = "mask")
        BY <3>3 DEF RunTower, Go, Goto
      <4>3. done' # References BY <4>2 DEF Towering
      <4>4. done \in Nat /\ References \in Nat BY ReferencesType
      <4>5. done' = done + 1 BY <4>2
      <4> QED BY <4>1, <4>3, <4>4, <4>5
    <3> QED
      BY <1>3, <3>1, <3>2, <3>3 DEF Towering, Going, Go, Goto, Accept, BuildDeck,
         AllocateWorkspace, MakePlans, StageInputs, AllocateBuffers, UploadReferences,
         EmbedReferences, MakeNoise, PrepareLoop, DenoiseLoop, AllocateOutput, CheckOutput,
         LoadReference, BuildSequence, AllocateTower, PrepareReferenceFails, PrepareTowerFails,
         RunTowerFails, MakeMask
  <2>7. pc' # "dispatch"
    BY <1>3 DEF Going, Go, Goto, Accept, BuildDeck, AllocateWorkspace, MakePlans, StageInputs,
       AllocateBuffers, UploadReferences, EmbedReferences, MakeNoise, PrepareLoop, DenoiseLoop,
       AllocateOutput, CheckOutput, LoadReference, BuildSequence, AllocateTower, AllocateEmbeds,
       PrepareReference, PrepareReferenceFails, PrepareTower, PrepareTowerFails, RunTower,
       RunTowerFails, MakeMask
  <2>8. WithReferences => References <= MaxRefs
    <3>1. CASE Accept BY <3>1 DEF Accept
    <3>2. pc = "dispatch" => Accept
      BY <1>3 DEF Going, BuildDeck, AllocateWorkspace, MakePlans, StageInputs, AllocateBuffers,
         UploadReferences, EmbedReferences, MakeNoise, PrepareLoop, DenoiseLoop,
         AllocateOutput, CheckOutput, LoadReference, BuildSequence, AllocateTower,
         AllocateEmbeds, PrepareReference, PrepareReferenceFails, PrepareTower,
         PrepareTowerFails, RunTower, RunTowerFails, MakeMask
    <3> QED BY <2>1, <3>1, <3>2 DEF RequestPlace
  <2> QED BY <2>2, <2>3, <2>4, <2>5, <2>6, <2>7, <2>8 DEF RequestPlace
<1> QED BY <1>1, <1>2, <1>3, FourKinds, EngineOutside, EndingReturns DEF Outside

-----------------------------------------------------------------------------
(* Pointers. *)

\* What the ways to change pointers do to each of them.
LEMMA PointerAt ==
  TypeOK => \A x \in Resource :
    /\ \A y : Acquired(y)[x] = IF x = y THEN "live" ELSE ptr[x]
    /\ \A R : Freed(R)[x] = IF x \in R /\ ptr[x] = "live" THEN "dangling" ELSE ptr[x]
    /\ \A R : Cleared(R)[x] = IF x \in R THEN "null" ELSE ptr[x]
    /\ OriginalGone[x] = IF x = "originals" /\ done + 1 = References THEN "null" ELSE ptr[x]
<1> SUFFICES ASSUME TypeOK, NEW x \in Resource
             PROVE  /\ \A y : Acquired(y)[x] = IF x = y THEN "live" ELSE ptr[x]
                    /\ \A R : Freed(R)[x] = IF x \in R /\ ptr[x] = "live"
                                          THEN "dangling" ELSE ptr[x]
                    /\ \A R : Cleared(R)[x] = IF x \in R THEN "null" ELSE ptr[x]
                    /\ OriginalGone[x] = IF x = "originals" /\ done + 1 = References
                                         THEN "null" ELSE ptr[x]
  OBVIOUS
<1>1. ASSUME NEW y PROVE Acquired(y)[x] = IF x = y THEN "live" ELSE ptr[x]
  <2>1. ptr \in [Resource -> {"null", "live", "dangling", "undefined"}] BY DEF TypeOK
  <2> QED BY <2>1 DEF Acquired
<1>2. \A R : Freed(R)[x] = IF x \in R /\ ptr[x] = "live" THEN "dangling" ELSE ptr[x]
  BY DEF Freed
<1>3. \A R : Cleared(R)[x] = IF x \in R THEN "null" ELSE ptr[x]
  BY DEF Cleared
<1>4. OriginalGone[x] = IF x = "originals" /\ done + 1 = References THEN "null" ELSE ptr[x]
  <2>1. Cleared({"originals"})[x] = IF x = "originals" THEN "null" ELSE ptr[x] BY <1>3
  <2> QED BY <2>1 DEF OriginalGone
<1> QED BY <1>1, <1>2, <1>3, <1>4

\* What a request releases is its own.
LEMMA ResidentApart ==
  /\ Resident \cap Transient = {} /\ Decks \subseteq Transient /\ Plans \subseteq Transient
  /\ Released \subseteq Transient /\ ReleasedByVision \subseteq Transient
  BY DEF Resident, Transient, Decks, Plans, Released, ReleasedByVision

\* A request that ends leaves the engine's own pointers alone, and gives an
\* image only at its end.
LEMMA EndingPointers ==
  ASSUME TypeOK, Ending
  PROVE  \E status, image, pointers :
           /\ Return(status, image, pointers)
           /\ \A x \in Resident : pointers[x] = ptr[x]
           /\ image => pc = "finish" /\ pointers = Freed(Released)
<1>1. ASSUME NEW R, R \subseteq Transient, NEW x \in Resident PROVE Freed(R)[x] = ptr[x]
  <2>1. x \in Resource /\ x \notin R BY <1>1, ResidentApart DEF Resource
  <2> QED BY <2>1, PointerAt
<1>2. \A x \in Resident : Acquired("originals")[x] = ptr[x]
  <2>1. \A x \in Resident : x \in Resource /\ x # "originals" BY DEF Resource, Resident
  <2> QED BY <2>1, PointerAt
<1>3. \A x \in Resident : [Freed({"patches"}) EXCEPT !["originals"] = "live"][x] = ptr[x]
  <2>1. {"patches"} \subseteq Transient BY DEF Transient
  <2>2. Freed({"patches"}) \in Pointers BY PointerTypes
  <2>3. \A x \in Resident : x # "originals" /\ x \in Resource BY DEF Resident, Resource
  <2> QED BY <1>1, <2>1, <2>2, <2>3 DEF Pointers
<1>4. CASE Refuse BY <1>4 DEF Refuse
<1>5. CASE BuildDeckFails BY <1>1, <1>5, ResidentApart DEF BuildDeckFails
<1>6. CASE WorkspaceFails
  <2>1. Decks \cup {"patches"} \subseteq Transient BY ResidentApart DEF Transient
  <2> QED BY <1>1, <1>6, <2>1 DEF WorkspaceFails
<1>7. CASE InputsFail
  <2>1. Decks \cup {"patches", "workspace"} \subseteq Transient BY ResidentApart DEF Transient
  <2> QED BY <1>1, <1>7, <2>1 DEF InputsFail
<1>8. CASE Finish BY <1>1, <1>8, ResidentApart DEF Finish
<1>9. CASE Fail
  <2>1. Released \cup {"output"} \subseteq Transient BY ResidentApart DEF Transient
  <2> QED BY <1>1, <1>9, <2>1 DEF Fail
<1>10. CASE LoadReferenceFails BY <1>2, <1>3, <1>10 DEF LoadReferenceFails
<1>11. CASE BuildSequenceFails
  <2>1. {"patches"} \subseteq Transient BY DEF Transient
  <2> QED BY <1>1, <1>11, <2>1 DEF BuildSequenceFails
<1>12. CASE TowerFails
  <2>1. {"deck", "patches", "originals"} \subseteq Transient BY DEF Transient
  <2> QED BY <1>1, <1>12, <2>1 DEF TowerFails
<1>13. CASE VisionFail BY <1>1, <1>13, ResidentApart DEF VisionFail
<1> QED
  BY <1>4, <1>5, <1>6, <1>7, <1>8, <1>9, <1>10, <1>11, <1>12, <1>13 DEF Ending

\* What a step of a request that goes on may do to a pointer.
LEMMA GoingPointers ==
  ASSUME TypeOK, Going
  PROVE  \A x \in Resource :
           /\ x \in Resident => ptr'[x] = ptr[x]
           /\ \/ ptr'[x] \in {ptr[x], "live", "null"}
              \/ x \in {"pixels", "step noise"} /\ ptr'[x] = "dangling"
<1> SUFFICES ASSUME NEW x \in Resource
             PROVE  /\ x \in Resident => ptr'[x] = ptr[x]
                    /\ \/ ptr'[x] \in {ptr[x], "live", "null"}
                       \/ x \in {"pixels", "step noise"} /\ ptr'[x] = "dangling"
  OBVIOUS
<1> USE DEF Go
<1>0. ptr \in Pointers /\ x \in Resource BY TypeParts
<1>a. /\ \A y : Acquired(y)[x] = IF x = y THEN "live" ELSE ptr[x]
      /\ \A R : Freed(R)[x] = IF x \in R /\ ptr[x] = "live" THEN "dangling" ELSE ptr[x]
      /\ \A R : Cleared(R)[x] = IF x \in R THEN "null" ELSE ptr[x]
      /\ OriginalGone[x] = IF x = "originals" /\ done + 1 = References THEN "null" ELSE ptr[x]
  BY PointerAt
<1>b. x \in Resident => x \notin Transient BY ResidentApart
<1>1. CASE Accept \/ AllocateWorkspace \/ StageInputs \/ AllocateBuffers \/ BuildSequence
  BY ZenonT(60), <1>1, <1>a, <1>b DEF Accept, AllocateWorkspace, StageInputs, AllocateBuffers, BuildSequence,
     Transient
<1>2. CASE BuildDeck BY <1>2, <1>a, <1>b DEF BuildDeck, Transient
<1>3. CASE MakePlans
  <2>1. PICK made \in SUBSET Plans :
          ptr' = [y \in Resource |-> IF y \in made THEN "live" ELSE ptr[y]]
    BY <1>3 DEF MakePlans
  <2> QED BY <2>1, <1>b, ResidentApart
<1>4. CASE UploadReferences \/ EmbedReferences \/ MakeNoise \/ PrepareLoop
  BY ZenonT(120), <1>4, <1>a, <1>b DEF UploadReferences, EmbedReferences, MakeNoise, PrepareLoop, Transient
<1>5. CASE DenoiseLoop \/ AllocateOutput \/ CheckOutput
  BY ZenonT(60), <1>5, <1>a, <1>b DEF DenoiseLoop, AllocateOutput, CheckOutput, Transient
<1>6. CASE LoadReference BY <1>0, <1>b, <1>6 DEF LoadReference, Pointers, Transient
<1>7. CASE AllocateTower \/ AllocateEmbeds \/ MakeMask
  BY ZenonT(120), <1>7, <1>a, <1>b DEF AllocateTower, AllocateEmbeds, MakeMask, Transient
<1>8. CASE PrepareReference \/ PrepareReferenceFails
  <2>1. OriginalGone \in Pointers BY PointerTypes
  <2>2. [OriginalGone EXCEPT !["pixels"] = "live"][x] =
          IF x = "pixels" THEN "live" ELSE OriginalGone[x]
    BY <1>0, <2>1 DEF Pointers
  <2>3. ptr' = OriginalGone \/ ptr' = [OriginalGone EXCEPT !["pixels"] = "live"]
    BY <1>8 DEF PrepareReference, PrepareReferenceFails
  <2>4. OriginalGone[x] \in {ptr[x], "null"} /\ (x \in Resident => OriginalGone[x] = ptr[x])
    BY <1>a, <1>b DEF Transient
  <2>5. x \in Resident => x # "pixels" BY <1>b DEF Transient
  <2> QED BY <2>2, <2>3, <2>4, <2>5
<1>9. CASE PrepareTower \/ PrepareTowerFails
  <2>1. ASSUME NEW pointers \in Pointers, MakePlan(pointers)
        PROVE  ptr'[x] = pointers[x] \/ (x = "tower plan" /\ ptr'[x] \in {"live", "null"})
    <3>2. \/ ptr' = pointers
          \/ ptr' = [pointers EXCEPT !["tower plan"] = "live"]
          \/ ptr' = [pointers EXCEPT !["tower plan"] = "null"]
      BY <2>1 DEF MakePlan
    <3>3. ASSUME NEW v
          PROVE  [pointers EXCEPT !["tower plan"] = v][x] =
                   IF x = "tower plan" THEN v ELSE pointers[x]
      <4>1. x \in DOMAIN pointers BY <1>0 DEF Pointers
      <4> QED BY <4>1
    <3> QED BY <3>2, <3>3
  <2>2. Freed({"pixels"}) \in Pointers BY PointerTypes
  <2>3. CASE PrepareTower BY <1>0, <1>b, <2>1, <2>3 DEF PrepareTower, Transient
  <2>4. CASE PrepareTowerFails
    <3>1. \/ ptr'[x] = Freed({"pixels"})[x]
          \/ x = "tower plan" /\ ptr'[x] \in {"live", "null"}
      BY <2>1, <2>2, <2>4 DEF PrepareTowerFails
    <3> QED BY <1>a, <1>b, <3>1 DEF Transient
  <2> QED BY <1>9, <2>3, <2>4
<1>10. CASE RunTower \/ RunTowerFails
  BY <1>10, <1>a, <1>b DEF RunTower, RunTowerFails, Transient
<1> QED
  BY <1>1, <1>2, <1>3, <1>4, <1>5, <1>6, <1>7, <1>8, <1>9, <1>10 DEF Going

\* PointerPlace is kept.
LEMMA PointerStep ==
  ASSUME TypeOK, RequestPlace, PointerPlace, Next
  PROVE  PointerPlace'
<1>1. CASE Engine
  <2>1. /\ pc # "closed"
        /\ \/ ptr' \in {ptr, Acquired("store"), Acquired("binding")}
           \/ ptr' = Freed(Resident) /\ pc' = "closed"
    BY <1>1 DEF Engine, LoadWeights, Resolve, ApplyLora, ResolveVision, CloseRequested, Close,
       Go, Goto
  <2>2. \A x \in Resource :
          /\ x \notin Resident => ptr'[x] = ptr[x]
          /\ ptr'[x] \in {ptr[x], "live"} \/ (pc' = "closed" /\ ptr'[x] = "dangling")
    <3>1. CASE ptr' = ptr BY <3>1
    <3>2. CASE ptr' = Acquired("store") BY <3>2, PointerAt DEF Resident
    <3>3. CASE ptr' = Acquired("binding") BY <3>3, PointerAt DEF Resident
    <3>4. CASE ptr' = Freed(Resident) /\ pc' = "closed"
      BY <3>4, PointerAt
    <3> QED BY <2>1, <3>1, <3>2, <3>3, <3>4
  <2>3. \A x \in Transient : x \in Resource /\ x \notin Resident /\ ptr[x] = "null"
    BY <1>1, EngineOutside, ResidentApart DEF PointerPlace, Resource
  <2>4. \A x \in Transient : ptr'[x] = "null" BY <2>2, <2>3
  <2>5. \A x \in Resource : ptr'[x] # "undefined" /\ (pc' # "closed" => ptr'[x] # "dangling")
    <3>1. \A x \in Resource : ptr[x] # "undefined" /\ ptr[x] # "dangling"
      BY ZenonT(120), <2>1, <2>3 DEF PointerPlace, Resource, Transient
    <3> QED BY <2>2, <3>1
  <2> QED BY ZenonT(60), <2>4, <2>5 DEF PointerPlace, Resource, Transient
<1>2. CASE StartRequest
  <2>1. \A x \in Transient : ptr[x] = "null" BY <1>2 DEF PointerPlace, StartRequest, Outside
  <2>2. pc' = "dispatch" /\ (WithReferences' <=> req'.refs # <<>>)
    BY <1>2 DEF StartRequest, Go, Goto, WithReferences
  <2>3. /\ \A x \in Resource \ {"ref cache"} : ptr'[x] = ptr[x]
        /\ ptr'["ref cache"] = IF req'.refs = <<>> THEN "null" ELSE "undefined"
    BY <1>2 DEF StartRequest, Go, TypeOK, Resource, Transient
  <2>4. pc # "closed" BY <1>2 DEF StartRequest
  <2>5. \A x \in Transient \ {"ref cache"} : ptr'[x] = "null" BY <2>1, <2>3 DEF Resource
  <2>6. \A x \in Resident : ptr'[x] = ptr[x] BY <2>3 DEF Resource, Resident
  <2>7. ptr'["ref cache"] # "dangling" BY <2>3
  <2>8. ptr'["ref cache"] = "undefined" => WithReferences' BY <2>2, <2>3
  <2>9. \A x \in Resource \ {"ref cache"} : ptr'[x] # "undefined"
    BY <2>3 DEF PointerPlace
  <2>10. \A x \in Resident : ptr'[x] # "dangling" BY <2>4, <2>6 DEF PointerPlace
  <2>11. \A x \in Transient : ptr'[x] # "dangling" BY <2>5, <2>7
  <2>12. pc' \notin Outside /\ pc' \notin Late BY <2>2 DEF Outside, Late
  <2> QED BY <2>8, <2>9, <2>10, <2>11, <2>12 DEF PointerPlace
<1>3. CASE Ending
  <2>1. PICK status, image, pointers :
          Return(status, image, pointers) /\ \A x \in Resident : pointers[x] = ptr[x]
    BY <1>3, EndingPointers
  <2>2. pc' = "idle" /\ pc # "closed" BY <1>3, EndingReturns DEF Outside
  <2>3. \A x \in Resource : ptr'[x] = IF x \in Resident THEN ptr[x] ELSE "null"
    BY <2>1 DEF Return
  <2> QED BY ZenonT(60), <2>2, <2>3, ResidentApart DEF PointerPlace, Resource, Transient
<1>4. CASE Going
  <2>1. /\ (WithReferences' <=> WithReferences) /\ pc \notin Outside /\ pc' \notin Outside
    BY <1>4, GoingGoesOn, SameRequest DEF GoesOn
  <2>2. \A x \in Transient \ {"pixels", "step noise"} : ptr'[x] # "dangling"
    BY <1>4, GoingPointers DEF PointerPlace, Resource
  <2>3. \A x \in Resident : ptr'[x] # "dangling"
    BY <1>4, <2>1, GoingPointers DEF PointerPlace, Resource, Outside
  <2>4. \A x \in Resource \ {"ref cache"} : ptr'[x] # "undefined"
    BY <1>4, GoingPointers DEF PointerPlace
  <2>5. ptr'["ref cache"] = "undefined" => WithReferences /\ pc' \notin Late
    <3>1. "ref cache" \in Resource BY DEF Resource, Transient
    <3>2. ptr'["ref cache"] = "undefined" =>
            ptr["ref cache"] = "undefined" /\ WithReferences /\ pc \notin Late
      BY <1>4, <3>1, GoingPointers DEF PointerPlace
    <3>3. ASSUME pc' \in Late, pc \notin Late, WithReferences
          PROVE  ptr' \in {Acquired("ref cache"), Cleared({"ref cache"})}
      BY <1>4, <3>3 DEF Going, Late, Go, Goto, Accept, BuildDeck, AllocateWorkspace, MakePlans,
         StageInputs, AllocateBuffers, UploadReferences, EmbedReferences, MakeNoise,
         PrepareLoop, DenoiseLoop, AllocateOutput, CheckOutput, LoadReference, BuildSequence,
         AllocateTower, AllocateEmbeds, PrepareReference, PrepareReferenceFails,
         PrepareTower, PrepareTowerFails, RunTower, RunTowerFails, MakeMask
    <3>4. /\ Acquired("ref cache")["ref cache"] # "undefined"
          /\ Cleared({"ref cache"})["ref cache"] # "undefined"
      BY <3>1, PointerAt
    <3> QED BY <3>2, <3>3, <3>4
  <2> QED BY <2>1, <2>2, <2>3, <2>4, <2>5 DEF PointerPlace
<1> QED BY <1>1, <1>2, <1>3, <1>4, FourKinds

-----------------------------------------------------------------------------
(* What may be live. *)

\* The pointers the ends of the paths do not release, but by chance.
StageNames == {"upload", "noise", "step noise", "pixels", "originals"}

\* What only a path with references has.
ReferenceNames == {"patches", "tower", "tower plan", "embeds", "mask", "ref cache"}

\* They are names of pointers.
LEMMA Names ==
  StageNames \cup ReferenceNames \cup {"deck 2", "plan 2"} \subseteq Resource
  BY DEF StageNames, ReferenceNames, Transient, Resource

\* A step after which none of this is live.
LEMMA NothingLive ==
  ASSUME \A x \in Transient : ptr'[x] # "live"
  PROVE  StageLive' /\ PathLive'
<1>1. \A x \in StageNames \cup ReferenceNames \cup {"deck 2", "plan 2"} : ptr'[x] # "live"
  BY DEF StageNames, ReferenceNames, Transient
<1> QED BY <1>1 DEF StageLive, PathLive, StageNames, ReferenceNames

\* The steps of the prologue of the path with references, and those of both.
Early ==
  \/ LoadReference \/ BuildSequence \/ AllocateTower \/ AllocateEmbeds \/ PrepareReference
  \/ PrepareReferenceFails \/ PrepareTower \/ PrepareTowerFails \/ RunTower \/ RunTowerFails
  \/ MakeMask

\* What a step of both paths acquires of all this.
LEMMA CommonGains ==
  ASSUME TypeOK, Going, ~Early,
         NEW x \in StageNames \cup ReferenceNames \cup {"deck 2", "plan 2"}, ptr'[x] = "live"
  PROVE  \/ ptr[x] = "live" /\ (x = "step noise" => pc # "denoise")
         \/ x = "upload" /\ UploadReferences /\ pc' = "fail"
         \/ x = "noise" /\ MakeNoise /\ pc' = "fail"
         \/ x = "step noise" /\ PrepareLoop /\ pc' = "denoise"
         \/ x = "ref cache" /\ EmbedReferences
         \/ x = "deck 2" /\ BuildDeck /\ ptr["deck"] # "null"
         \/ x = "plan 2" /\ MakePlans /\ Guided
<1>1. /\ \A y : Acquired(y)[x] = IF x = y THEN "live" ELSE ptr[x]
      /\ \A R : Freed(R)[x] = IF x \in R /\ ptr[x] = "live" THEN "dangling" ELSE ptr[x]
      /\ \A R : Cleared(R)[x] = IF x \in R THEN "null" ELSE ptr[x]
  BY Names, PointerAt
<1> USE DEF Go, Goto
<1>2. CASE Accept \/ AllocateWorkspace \/ StageInputs \/ AllocateBuffers
  BY ZenonT(120), <1>1, <1>2 DEF Accept, AllocateWorkspace, StageInputs, AllocateBuffers, StageNames,
     ReferenceNames
<1>3. CASE BuildDeck
  BY <1>1, <1>3 DEF BuildDeck, StageNames, ReferenceNames
<1>4. CASE MakePlans
  <2>1. PICK made \in SUBSET Plans :
          ptr' = [y \in Resource |-> IF y \in made THEN "live" ELSE ptr[y]]
    BY <1>4 DEF MakePlans
  <2>2. ptr'[x] = IF x \in made THEN "live" ELSE ptr[x] BY <2>1, Names
  <2>3. x \in made => x = "plan 2" /\ Guided
    BY <2>1 DEF Plans, StageNames, ReferenceNames
  <2> QED BY <1>4, <2>2, <2>3 DEF MakePlans
<1>5. CASE UploadReferences
  <2>1. ptr' = ptr \/ (ptr' = Acquired("upload") /\ pc' = "fail")
    BY <1>5 DEF UploadReferences
  <2> QED BY <1>1, <1>5, <2>1 DEF UploadReferences
<1>6. CASE EmbedReferences BY <1>1, <1>6 DEF EmbedReferences
<1>7. CASE MakeNoise
  <2>1. ptr' = ptr \/ (ptr' = Acquired("noise") /\ pc' = "fail")
    BY <1>7 DEF MakeNoise
  <2> QED BY <1>1, <1>7, <2>1 DEF MakeNoise
<1>8. CASE PrepareLoop BY <1>1, <1>8 DEF PrepareLoop
<1>9. CASE DenoiseLoop BY <1>1, <1>9 DEF DenoiseLoop
<1>10. CASE AllocateOutput \/ CheckOutput
  BY ZenonT(120), <1>1, <1>10 DEF AllocateOutput, CheckOutput, StageNames, ReferenceNames
<1> QED
  BY <1>2, <1>3, <1>4, <1>5, <1>6, <1>7, <1>8, <1>9, <1>10 DEF Going, Early

\* And what one of the prologue with references does.
LEMMA EarlyGains ==
  ASSUME TypeOK, Early, NEW x \in StageNames \cup {"deck 2", "plan 2"}, ptr'[x] = "live"
  PROVE  \/ x = "originals" /\ LoadReference
         \/ x = "pixels" /\ (PrepareReference \/ PrepareReferenceFails)
         \/ /\ ptr[x] = "live"
            /\ x = "pixels" => ~RunTower
            /\ x = "originals" /\ pc = "reference" => done + 1 # References
<1>0. ptr \in Pointers BY TypeParts
<1>1. /\ \A y : Acquired(y)[x] = IF x = y THEN "live" ELSE ptr[x]
      /\ \A R : Freed(R)[x] = IF x \in R /\ ptr[x] = "live" THEN "dangling" ELSE ptr[x]
      /\ OriginalGone[x] = IF x = "originals" /\ done + 1 = References THEN "null" ELSE ptr[x]
  BY Names, PointerAt
<1> USE DEF Go, Goto
<1>2. CASE LoadReference
  <2>1. x \in Resource /\ x \in DOMAIN ptr BY <1>0, Names DEF Pointers
  <2>2. x # "originals" => ptr'[x] = ptr[x]
    BY <1>0, <1>2, <2>1 DEF LoadReference, Pointers, StageNames
  <2>3. ~RunTower /\ pc # "reference" BY <1>2 DEF LoadReference, RunTower
  <2> QED BY <1>2, <2>2, <2>3
<1>3. CASE BuildSequence \/ AllocateTower \/ AllocateEmbeds \/ MakeMask
  <2>1. ~RunTower /\ pc # "reference"
    BY <1>3 DEF BuildSequence, AllocateTower, AllocateEmbeds, MakeMask, RunTower
  <2>2. ptr' = ptr \/ \E y \in {"deck", "tower", "embeds", "mask"} : ptr' = Acquired(y)
    BY <1>3 DEF BuildSequence, AllocateTower, AllocateEmbeds, MakeMask
  <2>3. x \notin {"deck", "tower", "embeds", "mask"} BY DEF StageNames
  <2>4. ptr'[x] = ptr[x] BY <1>1, <2>2, <2>3
  <2> QED BY <2>1, <2>4
<1>4. CASE PrepareReference \/ PrepareReferenceFails
  <2>1. OriginalGone \in Pointers BY PointerTypes
  <2>2. [OriginalGone EXCEPT !["pixels"] = "live"][x] =
          IF x = "pixels" THEN "live" ELSE OriginalGone[x]
    BY <2>1, Names DEF Pointers
  <2>3. ptr' = OriginalGone \/ ptr' = [OriginalGone EXCEPT !["pixels"] = "live"]
    BY <1>4 DEF PrepareReference, PrepareReferenceFails
  <2>4. x # "pixels" => ptr'[x] = OriginalGone[x] BY <2>2, <2>3
  <2> QED BY <1>1, <1>4, <2>4
<1>5. CASE PrepareTower \/ PrepareTowerFails
  <2>1. ASSUME NEW pointers \in Pointers, MakePlan(pointers) PROVE ptr'[x] = pointers[x]
    <3>1. \/ ptr' = pointers
          \/ ptr' = [pointers EXCEPT !["tower plan"] = "live"]
          \/ ptr' = [pointers EXCEPT !["tower plan"] = "null"]
      BY <2>1 DEF MakePlan
    <3>2. x # "tower plan" /\ x \in DOMAIN pointers BY Names DEF StageNames, Pointers
    <3>3. \A v : [pointers EXCEPT !["tower plan"] = v][x] = pointers[x] BY <3>2
    <3> QED BY <3>1, <3>3
  <2>2. Freed({"pixels"}) \in Pointers BY PointerTypes
  <2>3. ptr'[x] = ptr[x] \/ ptr'[x] = Freed({"pixels"})[x]
    BY <1>0, <1>5, <2>1, <2>2 DEF PrepareTower, PrepareTowerFails
  <2>4. ~RunTower /\ pc # "reference"
    BY <1>5 DEF PrepareTower, PrepareTowerFails, RunTower
  <2> QED BY <1>1, <2>3, <2>4
<1>6. CASE RunTower \/ RunTowerFails
  <2>1. ptr' = Freed({"pixels"}) /\ pc # "reference" BY <1>6 DEF RunTower, RunTowerFails
  <2> QED BY <1>1, <2>1
<1> QED BY <1>2, <1>3, <1>4, <1>5, <1>6 DEF Early

\* What only one of the paths has.
LEMMA PathStep ==
  ASSUME TypeOK, RequestPlace, PathLive, Going
  PROVE  PathLive'
<1>1. (WithReferences' <=> WithReferences) /\ (Guided' <=> Guided)
  BY GoingGoesOn, SameRequest DEF GoesOn
<1>2. Early => WithReferences
  BY DEF Early, RequestPlace, OfReferences, Towering, LoadReference, BuildSequence,
     AllocateTower, AllocateEmbeds, PrepareReference, PrepareReferenceFails, PrepareTower,
     PrepareTowerFails, RunTower, RunTowerFails, MakeMask
<1>3. ASSUME NEW x \in ReferenceNames, ptr'[x] = "live" PROVE WithReferences
  <2>1. CASE Early BY <1>2, <2>1
  <2>2. CASE ~Early
    <3>1. ptr[x] = "live" \/ EmbedReferences
      BY <1>3, <2>2, CommonGains DEF ReferenceNames
    <3>2. EmbedReferences => WithReferences
      BY DEF EmbedReferences, RequestPlace, OfReferences
    <3> QED BY <3>1, <3>2 DEF PathLive, ReferenceNames
  <2> QED BY <2>1, <2>2
<1>4. ASSUME NEW x \in {"deck 2", "plan 2"}, ptr'[x] = "live" PROVE Guided
  <2>1. CASE Early
    <3>1. ptr[x] = "live" BY <1>4, <2>1, EarlyGains
    <3> QED BY <3>1 DEF PathLive
  <2>2. CASE ~Early
    <3>1. ptr[x] = "live" \/ (BuildDeck /\ ptr["deck"] # "null") \/ Guided
      BY <1>4, <2>2, CommonGains
    <3> QED BY <3>1 DEF PathLive, BuildDeck, RequestPlace
  <2> QED BY <2>1, <2>2
<1> QED BY <1>1, <1>3, <1>4 DEF PathLive, ReferenceNames

\* Where what the ends do not release may be live.
LEMMA StageStep ==
  ASSUME TypeOK, RequestPlace, StageLive, Going
  PROVE  StageLive'
<1> USE DEF Go, Goto
<1>0. References' = References BY GoingGoesOn, SameRequest DEF GoesOn
<1>1. CASE Early
  <2>1. pc \notin {"fail", "denoise"}
    BY <1>1 DEF Early, LoadReference, BuildSequence, AllocateTower, AllocateEmbeds,
       PrepareReference, PrepareReferenceFails, PrepareTower, PrepareTowerFails, RunTower,
       RunTowerFails, MakeMask
  <2>2. \A x \in {"upload", "noise", "step noise"} : ptr'[x] # "live"
    BY <1>1, <2>1, EarlyGains DEF StageLive, StageNames
  <2>3. ASSUME ptr'["pixels"] = "live"
        PROVE  pc' \in {"prepare tower", "run tower", "vision_fail"}
    <3>1. CASE PrepareReference \/ PrepareReferenceFails
      BY <3>1 DEF PrepareReference, PrepareReferenceFails
    <3>2. CASE pc \in {"prepare tower", "run tower"} /\ ~RunTower
      BY <1>1, <3>2 DEF Early, LoadReference, BuildSequence, AllocateTower, AllocateEmbeds,
         PrepareReference, PrepareReferenceFails, PrepareTower, PrepareTowerFails,
         RunTowerFails, MakeMask
    <3>3. pc # "vision_fail"
      BY <1>1 DEF Early, LoadReference, BuildSequence, AllocateTower, AllocateEmbeds,
         PrepareReference, PrepareReferenceFails, PrepareTower, PrepareTowerFails, RunTower,
         RunTowerFails, MakeMask
    <3> QED BY <1>1, <2>3, <3>1, <3>2, <3>3, EarlyGains DEF StageLive, StageNames
  <2>4. ASSUME ptr'["originals"] = "live"
        PROVE  \/ pc' \in {"references", "tower", "embeds", "reference", "vision_fail"}
               \/ pc' \in {"prepare tower", "run tower"} /\ done' + 1 # References'
    <3>1. CASE LoadReference BY <3>1 DEF LoadReference
    <3>2. CASE ~LoadReference
      <4>1. /\ ptr["originals"] = "live"
            /\ pc = "reference" => done + 1 # References
        BY <1>1, <2>4, <3>2, EarlyGains DEF StageNames
      <4>2. CASE BuildSequence \/ AllocateTower \/ AllocateEmbeds \/ PrepareReferenceFails
                 \/ PrepareTowerFails \/ RunTowerFails
        BY <4>2 DEF BuildSequence, AllocateTower, AllocateEmbeds, PrepareReferenceFails,
           PrepareTowerFails, RunTowerFails
      <4>3. CASE PrepareReference
        BY <1>0, <4>1, <4>3 DEF PrepareReference
      <4>4. CASE PrepareTower
        BY <1>0, <4>1, <4>4 DEF PrepareTower, StageLive
      <4>5. CASE RunTower
        BY <1>0, <4>1, <4>5 DEF RunTower, StageLive
      <4>6. CASE MakeMask BY <4>1, <4>6 DEF MakeMask, StageLive
      <4> QED BY <1>1, <3>2, <4>2, <4>3, <4>4, <4>5, <4>6 DEF Early
    <3> QED BY <3>1, <3>2
  <2> QED BY <2>2, <2>3, <2>4 DEF StageLive
<1>2. CASE ~Early
  <2>1. pc \notin {"fail", "prepare tower", "run tower", "vision_fail", "references", "tower",
                   "embeds", "reference"}
    BY <1>2 DEF Going, Early, Accept, BuildDeck, AllocateWorkspace, MakePlans, StageInputs,
       AllocateBuffers, UploadReferences, EmbedReferences, MakeNoise, PrepareLoop,
       DenoiseLoop, AllocateOutput, CheckOutput
  <2>2. \A x \in {"upload", "noise", "pixels", "originals"} : ptr[x] # "live"
    BY <2>1 DEF StageLive
  <2>3. \A x \in {"pixels", "originals"} : ptr'[x] # "live"
    BY <1>2, <2>2, CommonGains DEF StageNames
  <2>4. \A x \in {"upload", "noise"} : ptr'[x] = "live" => pc' = "fail"
    BY <1>2, <2>2, CommonGains DEF StageNames
  <2>5. \A x \in {"step noise"} : ptr'[x] = "live" =>
          (ptr[x] = "live" /\ pc # "denoise") \/ pc' = "denoise"
    BY <1>2, CommonGains DEF StageNames
  <2>6. ptr'["step noise"] = "live" => pc' = "denoise" BY <2>5 DEF StageLive
  <2> QED BY <2>3, <2>4, <2>6 DEF StageLive
<1> QED BY <1>1, <1>2

\* StageLive and PathLive are kept.
LEMMA LiveStep ==
  ASSUME TypeOK, RequestPlace, PointerPlace, StageLive, PathLive, Next
  PROVE  StageLive' /\ PathLive'
<1>1. CASE Engine \/ Ending
  <2>1. pc' \in Outside BY <1>1, EngineOutside, EndingReturns DEF Outside
  <2>2. \A x \in Transient : ptr'[x] = "null" BY <2>1, PointerStep DEF PointerPlace
  <2> QED BY <2>2, NothingLive
<1>2. CASE StartRequest
  <2>1. \A x \in Transient : ptr[x] = "null" BY <1>2 DEF StartRequest, PointerPlace, Outside
  <2>2. \A x \in Resource : ptr'[x] \in {ptr[x], "null", "undefined"}
    BY <1>2 DEF StartRequest, Go, TypeOK
  <2>3. \A x \in Transient : ptr'[x] # "live" BY <2>1, <2>2 DEF Resource
  <2> QED BY <2>3, NothingLive
<1>3. CASE Going BY <1>3, StageStep, PathStep
<1> QED BY <1>1, <1>2, <1>3, FourKinds

-----------------------------------------------------------------------------
(* The tower. *)

\* Its workspace has room for every reference, its plan and its tables are for
\* the one at hand.
LEMMA TowerStep ==
  ASSUME TypeOK, RequestPlace, TowerPlace, Next
  PROVE  TowerPlace'
<1> USE DEF Go, Goto
<1> DEFINE Room == \A r \in 1 .. References : Patches(Grid(r)) <= capacity
<1>1. CASE pc' \notin Towering \cup {"embeds"}
  BY <1>1 DEF TowerPlace, TowerFits, Towering
<1>2. CASE pc' \in Towering \cup {"embeds"}
  <2>1. Going
    BY <1>2, FourKinds, EngineOutside, EndingReturns DEF Outside, Towering, StartRequest
  <2>2. \/ AllocateTower \/ AllocateEmbeds \/ PrepareReference \/ PrepareTower
        \/ RunTower /\ pc' # "run tower"
    BY <1>2, <2>1 DEF Going, Towering, Accept, BuildDeck, AllocateWorkspace, MakePlans,
       StageInputs, AllocateBuffers, UploadReferences, EmbedReferences, MakeNoise, PrepareLoop,
       DenoiseLoop, AllocateOutput, CheckOutput, LoadReference, BuildSequence,
       PrepareReferenceFails, PrepareTowerFails, RunTower, RunTowerFails, MakeMask
  <2>3. References' = References /\ UNCHANGED req /\ \A r : Grid(r)' = Grid(r)
    BY <2>1, GoingGoesOn, SameRequest DEF GoesOn
  <2>4. Room'
    <3>1. CASE AllocateTower
      BY <2>3, <3>1 DEF AllocateTower, Grid, Patches, Tokens, References
    <3>2. CASE AllocateEmbeds \/ PrepareReference \/ PrepareTower \/ RunTower
      <4>1. Room /\ UNCHANGED capacity
        BY <3>2 DEF TowerPlace, Towering, AllocateEmbeds, PrepareReference, PrepareTower,
           RunTower, towerVars
      <4> QED BY <2>3, <4>1 DEF Grid, Patches, Tokens, References
    <3> QED BY <2>2, <3>1, <3>2
  <2>5. TowerFits'
    <3>1. CASE pc' # "run tower" BY <3>1 DEF TowerFits
    <3>2. CASE pc' = "run tower"
      <4>1. PrepareTower
        BY <2>2, <3>2 DEF AllocateTower, AllocateEmbeds, PrepareReference
      <4>2. done < References /\ done \in Nat /\ References \in Nat
        BY <4>1, ReferencesType DEF PrepareTower, RequestPlace, Towering
      <4>3. done + 1 \in 1 .. References BY <4>2
      <4>4. UNCHANGED <<req, done, capacity>> BY <4>1 DEF PrepareTower, GoesOn
      <4>5. Current' = Current BY <4>4 DEF Current, Grid
      <4>6. Patches(Current) <= capacity
        BY <4>1, <4>3 DEF TowerPlace, Towering, PrepareTower, Current
      <4>7. tables' = <<Current>> BY <4>1 DEF PrepareTower
      <4>8. ptr'["tower plan"] = "live" => plan_n' = Patches(Current)
        <5>1. "tower plan" \in DOMAIN ptr BY DEF TypeOK, Resource, Transient
        <5>2. MakePlan(ptr) BY <4>1 DEF PrepareTower
        <5> QED BY <5>1, <5>2 DEF MakePlan
      <4> QED BY <4>4, <4>5, <4>6, <4>7, <4>8 DEF TowerFits, Patches, Tokens
    <3> QED BY <3>1, <3>2
  <2> QED BY <2>4, <2>5 DEF TowerPlace
<1> QED BY <1>1, <1>2

-----------------------------------------------------------------------------
(* What a request leaves. *)

\* At its end, what is still live it releases, or the caller gets it, or it is
\* the plan of a request with references.
LEMMA LiveAtFinish ==
  ASSUME TypeOK, StageLive, PathLive, pc = "finish",
         NEW x \in Transient, x # "output", Freed(Released)[x] = "live"
  PROVE  x = "plan" /\ WithReferences
<1>1. x \notin Released /\ ptr[x] = "live"
  BY PointerAt DEF Resource
<1>2. x \notin StageNames BY <1>1 DEF StageNames, StageLive
<1>3. x \in {"deck 2", "plan 2"} => Guided BY <1>1 DEF PathLive
<1>4. x \in ReferenceNames => WithReferences BY <1>1 DEF PathLive, ReferenceNames
<1>5. Guided => ~WithReferences BY DEF Guided
<1>6. CASE WithReferences
  <2>1. x \notin {"workspace", "inputs", "buffers", "deck", "ref cache", "embeds", "mask",
                  "tower plan", "tower", "patches"}
    BY <1>1, <1>6 DEF Released
  <2>2. x \notin {"deck 2", "plan 2"} BY <1>3, <1>5, <1>6
  <2> QED BY <1>2, <1>6, <2>1, <2>2 DEF Transient, StageNames
<1>7. CASE ~WithReferences
  <2>1. x \notin {"workspace", "inputs", "buffers", "deck"} \cup Plans \cup Decks
    BY <1>1, <1>7 DEF Released
  <2>2. x \notin {"plan", "deck 2", "plan 2"} BY <1>3, <2>1 DEF Plans, Decks
  <2> QED BY <1>2, <1>4, <1>7, <2>1, <2>2 DEF Transient, StageNames, ReferenceNames
<1> QED BY <1>6, <1>7

\* NothingStays is kept.
LEMMA LeftStep ==
  ASSUME TypeOK, StageLive, PathLive, NothingStays, Next
  PROVE  NothingStays'
<1>1. CASE Engine \/ Going
  <2>1. UNCHANGED <<req, result>> BY <1>1, EngineOutside, GoingGoesOn DEF GoesOn
  <2> QED BY <2>1 DEF NothingStays, WithReferences
<1>2. CASE StartRequest BY <1>2 DEF StartRequest, NothingStays
<1>3. CASE Ending
  <2>1. PICK status, image, pointers :
          /\ Return(status, image, pointers)
          /\ image => pc = "finish" /\ pointers = Freed(Released)
    BY <1>3, EndingPointers
  <2>2. CASE image
    <3>1. result'.left \subseteq {x \in Transient : pointers[x] = "live"} \ {"output"}
      BY <2>1, <2>2 DEF Return
    <3>2. WithReferences' <=> WithReferences BY <1>3, EndingReturns, SameRequest
    <3>3. \A x \in result'.left : x = "plan" /\ WithReferences
      BY <2>1, <2>2, <3>1, LiveAtFinish
    <3> QED BY <3>2, <3>3 DEF NothingStays
  <2>3. CASE ~image BY <2>1, <2>3 DEF Return, NothingStays
  <2> QED BY <2>2, <2>3
<1> QED BY <1>1, <1>2, <1>3, FourKinds

-----------------------------------------------------------------------------
(* The rows of the references. *)

\* A set of naturals that is not empty has a smallest member.
LEMMA Smallest ==
  ASSUME NEW T, T \subseteq Nat, T # {}
  PROVE  \E x \in T : \A y \in T : x <= y
<1> DEFINE L == OpToRel(<, Nat)
<1>1. L = {ss \in Nat \X Nat : ss[1] < ss[2]} BY DEF OpToRel
<1>2. IsWellFoundedOn(L, Nat) BY NatLessThanWellFounded
<1> HIDE DEF L
<1>3. PICK x \in T : \A y \in T : ~ (<<y, x>> \in L) BY <1>2, WFMin
<1>4. ASSUME NEW y \in T PROVE x <= y
  <2>1. x \in Nat /\ y \in Nat BY <1>3, <1>4
  <2>2. <<y, x>> \in Nat \X Nat BY <2>1
  <2>3. ~(y < x) BY <1>1, <1>3, <2>2
  <2> QED BY <2>1, <2>3
<1> QED BY <1>3, <1>4

\* A set with zero and with the successor of each of its naturals has them all.
LEMMA Induction ==
  ASSUME NEW S, 0 \in S, \A n \in Nat : n \in S => n + 1 \in S
  PROVE  Nat \subseteq S
<1> SUFFICES ASSUME Nat \ S # {} PROVE FALSE OBVIOUS
<1>1. PICK x \in Nat \ S : \A y \in Nat \ S : x <= y BY Smallest
<1>2. x # 0 OBVIOUS
<1>3. PICK m \in Nat : m + 1 = x
  <2>1. x - 1 \in Nat /\ (x - 1) + 1 = x BY <1>2
  <2> QED BY <2>1
<1>4. m \notin S BY <1>3
<1>5. x <= m BY <1>1, <1>4
<1> QED BY <1>3, <1>5

\* The first n references end at the rows that g says.
EndsUpTo(n, g) ==
  /\ g \in [0 .. n -> Nat] /\ g[0] = 0
  /\ \A k \in 1 .. n : g[k] = g[k - 1] + Tokens(Grid(k))

\* There are such rows, for any number of references.
LEMMA EndsExist == ASSUME TypeOK PROVE \E g : EndsUpTo(References, g)
<1> DEFINE S == {n \in Nat : n <= References => \E g : EndsUpTo(n, g)}
<1>0. References \in Nat BY ReferencesType
<1>1. 0 \in S
  <2> DEFINE g == [k \in 0 .. 0 |-> 0]
  <2>1. EndsUpTo(0, g) BY DEF EndsUpTo
  <2> QED BY <2>1
<1>2. ASSUME NEW n \in Nat, n \in S PROVE n + 1 \in S
  <2> SUFFICES ASSUME n + 1 <= References PROVE \E g : EndsUpTo(n + 1, g) OBVIOUS
  <2>1. PICK g : EndsUpTo(n, g) BY <1>0, <1>2
  <2>2. Tokens(Grid(n + 1)) \in Nat
    <3>1. n + 1 \in 1 .. References BY <1>0
    <3> QED BY <3>1, GridTypes DEF Grid
  <2> DEFINE h == [k \in 0 .. n + 1 |-> IF k = n + 1 THEN g[n] + Tokens(Grid(n + 1)) ELSE g[k]]
  <2>3. g[n] \in Nat /\ \A k \in 0 .. n : g[k] \in Nat BY <2>1 DEF EndsUpTo
  <2>4. /\ h[n + 1] = g[n] + Tokens(Grid(n + 1)) /\ \A k \in 0 .. n : h[k] = g[k]
    BY <2>1 DEF EndsUpTo
  <2>5. h \in [0 .. n + 1 -> Nat]
    <3>1. g[n] + Tokens(Grid(n + 1)) \in Nat BY <2>2, <2>3
    <3>2. \A k \in 0 .. n + 1 : k = n + 1 \/ k \in 0 .. n OBVIOUS
    <3> QED BY <2>3, <3>1, <3>2
  <2> HIDE DEF h
  <2>6. ASSUME NEW k \in 1 .. n + 1 PROVE h[k] = h[k - 1] + Tokens(Grid(k))
    <3>1. CASE k = n + 1
      <4>1. k - 1 = n /\ n \in 0 .. n BY <3>1
      <4> QED BY <2>4, <3>1, <4>1
    <3>2. CASE k \in 1 .. n
      <4>1. k - 1 \in 0 .. n /\ k \in 0 .. n BY <3>2
      <4>2. g[k] = g[k - 1] + Tokens(Grid(k)) BY <2>1, <3>2 DEF EndsUpTo
      <4> QED BY <2>4, <4>1, <4>2
    <3> QED BY <2>6, <3>1, <3>2
  <2>7. h[0] = 0 BY <2>1, <2>4 DEF EndsUpTo
  <2>8. EndsUpTo(n + 1, h) BY <2>5, <2>6, <2>7 DEF EndsUpTo
  <2> QED BY <2>8
<1> HIDE DEF S
<1>3. Nat \subseteq S BY <1>1, <1>2, Induction
<1> QED BY <1>0, <1>3 DEF S

\* Each reference takes as many rows as it has tokens, behind those before it.
LEMMA RowsFollow == ASSUME TypeOK PROVE EndsUpTo(References, Rows)
<1> DEFINE F(f) == f = [n \in 0 .. References |-> IF n = 0 THEN 0 ELSE f[n - 1] + Tokens(Grid(n))]
           end == CHOOSE f : F(f)
<1>0. References \in Nat BY ReferencesType
<1>1. PICK g : EndsUpTo(References, g) BY EndsExist
<1>2. F(g)
  <2>1. g = [n \in 0 .. References |-> g[n]] BY <1>1 DEF EndsUpTo
  <2>2. ASSUME NEW n \in 0 .. References
        PROVE  g[n] = IF n = 0 THEN 0 ELSE g[n - 1] + Tokens(Grid(n))
    <3>1. n # 0 => n \in 1 .. References BY <1>0
    <3> QED BY <1>1, <3>1 DEF EndsUpTo
  <2> QED BY <2>1, <2>2
<1>3. F(end) BY <1>2
<1>4. Rows = end BY DEF Rows
<1> HIDE DEF end
<1>5. DOMAIN end = 0 .. References /\ end = [n \in 0 .. References |-> end[n]] BY <1>3
<1>6. \A n \in 0 .. References : end[n] = IF n = 0 THEN 0 ELSE end[n - 1] + Tokens(Grid(n))
  BY <1>3
<1> HIDE DEF F
<1> DEFINE S == {n \in Nat : n <= References => end[n] = g[n]}
<1>7. 0 \in S BY <1>0, <1>1, <1>6 DEF EndsUpTo
<1>8. ASSUME NEW n \in Nat, n \in S PROVE n + 1 \in S
  <2> SUFFICES ASSUME n + 1 <= References PROVE end[n + 1] = g[n + 1] OBVIOUS
  <2>1. n + 1 \in 0 .. References /\ n + 1 # 0 /\ n + 1 \in 1 .. References /\ (n + 1) - 1 = n
    BY <1>0
  <2>2. end[n] = g[n] BY <1>0, <1>8
  <2>3. end[n + 1] = end[n] + Tokens(Grid(n + 1)) BY <1>6, <2>1
  <2>4. g[n + 1] = g[n] + Tokens(Grid(n + 1)) BY <1>1, <2>1 DEF EndsUpTo
  <2> QED BY <2>2, <2>3, <2>4
<1> HIDE DEF S
<1>9. Nat \subseteq S BY <1>7, <1>8, Induction
<1>10. \A n \in 0 .. References : end[n] = g[n] BY <1>0, <1>9 DEF S
<1>11. end = g BY <1>1, <1>5, <1>10 DEF EndsUpTo
<1> QED BY <1>1, <1>4, <1>11

\* Later references end no earlier.
LEMMA RowsGrow ==
  ASSUME TypeOK, NEW j \in 0 .. References, NEW k \in 0 .. References, j <= k
  PROVE  Rows[j] <= Rows[k]
<1> DEFINE S == {d \in Nat : j + d <= References => Rows[j] <= Rows[j + d]}
<1>0. References \in Nat /\ EndsUpTo(References, Rows) BY ReferencesType, RowsFollow
<1>1. \A n \in 0 .. References : Rows[n] \in Nat BY <1>0 DEF EndsUpTo
<1>2. 0 \in S
  <2>1. j + 0 = j BY <1>0
  <2> QED BY <1>1, <2>1
<1>3. ASSUME NEW d \in Nat, d \in S PROVE d + 1 \in S
  <2> SUFFICES ASSUME j + (d + 1) <= References PROVE Rows[j] <= Rows[j + (d + 1)] OBVIOUS
  <2>1. PICK m \in 0 .. References : m = j + d /\ m + 1 = j + (d + 1) /\ m + 1 \in 1 .. References
    <3>1. j + d \in 0 .. References /\ (j + d) + 1 = j + (d + 1) /\ (j + d) + 1 \in 1 .. References
      BY <1>0
    <3> QED BY <3>1
  <2>2. Rows[m + 1] = Rows[m] + Tokens(Grid(m + 1))
    <3>1. (m + 1) - 1 = m BY <2>1
    <3>2. Rows[m + 1] = Rows[(m + 1) - 1] + Tokens(Grid(m + 1)) BY <1>0, <2>1 DEF EndsUpTo
    <3> QED BY <3>1, <3>2
  <2>3. Tokens(Grid(m + 1)) \in Nat BY <2>1, GridTypes DEF Grid
  <2>4. Rows[j] <= Rows[m]
    <3>1. j + d <= References BY <1>0, <2>1
    <3> QED BY <1>3, <2>1, <3>1
  <2>5. Rows[j] \in Nat /\ Rows[m] \in Nat BY <1>1
  <2>6. \A p, q, x \in Nat : p <= q => p <= q + x OBVIOUS
  <2>7. Rows[j] <= Rows[m] + Tokens(Grid(m + 1)) BY <2>3, <2>4, <2>5, <2>6
  <2> QED BY Zenon, <2>1, <2>2, <2>7
<1> HIDE DEF S
<1>4. Nat \subseteq S BY <1>2, <1>3, Induction
<1>5. PICK d \in Nat : d = k - j /\ j + d = k BY <1>0
<1>6. d \in S BY <1>4
<1> QED BY <1>0, <1>5, <1>6 DEF S

\* A step of the same request leaves them where they are.
LEMMA RowsStay == ASSUME UNCHANGED req PROVE Rows' = Rows
  BY SameRequest DEF Rows, Tokens

-----------------------------------------------------------------------------
(* What the denoising loop is given. *)

\* The pointers it is given and the loop of the tower fills.
InputNames == {"workspace", "inputs", "buffers", "embeds", "mask", "ref cache"}

\* They stay until the request fails or ends.
LEMMA InputsKept ==
  ASSUME TypeOK, Going, pc' \in Inside, NEW x \in InputNames, ptr[x] = "live"
  PROVE  ptr'[x] = "live"
<1> USE DEF Go, Goto
<1>0. ptr \in Pointers /\ x \in Resource /\ x \in DOMAIN ptr
  BY TypeParts DEF InputNames, Resource, Transient, Pointers
<1>1. /\ \A y : Acquired(y)[x] = "live"
      /\ \A R : x \notin R => Freed(R)[x] = "live"
      /\ OriginalGone[x] = "live"
  BY <1>0, PointerAt DEF InputNames
<1>2. x \notin {"pixels", "step noise", "output", "originals", "tower plan"} BY DEF InputNames
<1>3. CASE Accept \/ BuildDeck \/ AllocateWorkspace \/ StageInputs \/ AllocateBuffers
  BY <1>1, <1>3 DEF Accept, BuildDeck, AllocateWorkspace, StageInputs, AllocateBuffers
<1>4. CASE MakePlans BY <1>0, <1>4 DEF MakePlans
<1>5. CASE UploadReferences \/ EmbedReferences \/ MakeNoise \/ PrepareLoop
  BY <1>1, <1>5 DEF UploadReferences, EmbedReferences, MakeNoise, PrepareLoop, Inside, Filling,
     Towering
<1>6. CASE DenoiseLoop \/ AllocateOutput \/ CheckOutput
  BY <1>6 DEF DenoiseLoop, AllocateOutput, CheckOutput, Inside, Filling, Towering
<1>7. CASE LoadReference BY <1>7 DEF LoadReference, Inside, Filling, Towering
<1>8. CASE BuildSequence \/ AllocateTower \/ AllocateEmbeds \/ MakeMask
  BY <1>1, <1>8 DEF BuildSequence, AllocateTower, AllocateEmbeds, MakeMask
<1>9. CASE PrepareReference
  <2>1. ptr' = [OriginalGone EXCEPT !["pixels"] = "live"] BY <1>9 DEF PrepareReference
  <2>2. OriginalGone \in Pointers BY PointerTypes
  <2> QED BY <1>0, <1>1, <1>2, <2>1, <2>2 DEF Pointers
<1>10. CASE PrepareReferenceFails \/ PrepareTowerFails \/ RunTowerFails
  BY <1>10 DEF PrepareReferenceFails, PrepareTowerFails, RunTowerFails, Inside, Filling, Towering
<1>11. CASE PrepareTower
  <2>1. \/ ptr' = ptr
        \/ \E v \in {"live", "null"} : ptr' = [ptr EXCEPT !["tower plan"] = v]
    BY <1>11 DEF PrepareTower, MakePlan
  <2> QED BY <1>0, <1>2, <2>1
<1>12. CASE RunTower BY <1>1, <1>2, <1>12 DEF RunTower
<1> QED
  BY <1>3, <1>4, <1>5, <1>6, <1>7, <1>8, <1>9, <1>10, <1>11, <1>12 DEF Going

\* How a request comes to the stages between the tower and the loop, and through them.
LEMMA InsideSteps ==
  ASSUME TypeOK, RequestPlace, Going, pc' \in Inside
  PROVE  /\ WithReferences => pc \in Inside \/ AllocateEmbeds
         /\ WithReferences /\ pc' \in Filling \cup {"workspace"} =>
              pc \in Filling \cup {"workspace"} \/ MakeMask
         /\ pc' \in Filling => pc \in Filling \/ AllocateWorkspace
         /\ pc' \in Filling \ {"plans", "inputs"} =>
              pc \in Filling \ {"plans", "inputs"} \/ StageInputs
         /\ pc' \in Filling \ {"plans", "inputs", "buffers"} =>
              pc \in Filling \ {"plans", "inputs", "buffers"} \/ AllocateBuffers
         /\ WithReferences /\ pc' \in {"noise", "schedule", "denoise"} =>
              pc \in {"noise", "schedule", "denoise"} \/ EmbedReferences
         /\ pc' = "denoise" => PrepareLoop
<1> USE DEF Go, Goto, Inside, Filling, Towering
<1>1. CASE Accept \/ BuildDeck \/ AllocateWorkspace \/ MakePlans \/ StageInputs
  BY <1>1 DEF RequestPlace, Accept, BuildDeck, AllocateWorkspace, MakePlans, StageInputs
<1>2. CASE AllocateBuffers \/ UploadReferences \/ EmbedReferences \/ MakeNoise \/ PrepareLoop
  BY <1>2 DEF AllocateBuffers, UploadReferences, EmbedReferences, MakeNoise, PrepareLoop
<1>3. CASE DenoiseLoop \/ AllocateOutput \/ CheckOutput \/ LoadReference \/ BuildSequence
  BY <1>3 DEF DenoiseLoop, AllocateOutput, CheckOutput, LoadReference, BuildSequence
<1>4. CASE AllocateTower \/ AllocateEmbeds \/ PrepareReference \/ PrepareReferenceFails
  BY <1>4 DEF AllocateTower, AllocateEmbeds, PrepareReference, PrepareReferenceFails
<1>5. CASE PrepareTower \/ PrepareTowerFails \/ RunTower \/ RunTowerFails \/ MakeMask
  BY <1>5 DEF PrepareTower, PrepareTowerFails, RunTower, RunTowerFails, MakeMask
<1> QED BY <1>1, <1>2, <1>3, <1>4, <1>5 DEF Going

\* InputsLive is kept.
LEMMA InputsStep ==
  ASSUME TypeOK, RequestPlace, InputsLive, Going
  PROVE  InputsLive'
<1>1. WithReferences' <=> WithReferences BY GoingGoesOn, SameRequest DEF GoesOn
<1>2. CASE pc' \notin Inside BY <1>2 DEF InputsLive, Inside, Filling
<1>3. CASE pc' \in Inside
  <2>1. \A x \in Resource : Acquired(x)[x] = "live" BY PointerAt
  <2>2. InputNames \cup {"step noise"} \subseteq Resource
    BY DEF InputNames, Resource, Transient
  <2>3. /\ AllocateWorkspace => ptr'["workspace"] = "live"
        /\ StageInputs => ptr'["inputs"] = "live"
        /\ AllocateBuffers => ptr'["buffers"] = "live"
        /\ PrepareLoop /\ pc' = "denoise" => ptr'["step noise"] = "live"
        /\ AllocateEmbeds => ptr'["embeds"] = "live"
    BY <2>1, <2>2 DEF InputNames, AllocateWorkspace, StageInputs, AllocateBuffers, PrepareLoop,
       AllocateEmbeds, Go, Goto
  <2>4. /\ MakeMask => ptr'["mask"] = "live"
        /\ EmbedReferences => ptr'["ref cache"] = "live"
    BY <1>3, <2>1, <2>2 DEF InputNames, MakeMask, EmbedReferences, Go, Goto, Inside, Filling,
       Towering
  <2>5. \A x \in InputNames : ptr[x] = "live" => ptr'[x] = "live" BY <1>3, InputsKept
  <2>6. pc' \in Filling => ptr'["workspace"] = "live"
    BY <1>3, <2>3, <2>5, InsideSteps DEF InputsLive, InputNames
  <2>7. pc' \in Filling \ {"plans", "inputs"} => ptr'["inputs"] = "live"
    BY <1>3, <2>3, <2>5, InsideSteps DEF InputsLive, InputNames
  <2>8. pc' \in Filling \ {"plans", "inputs", "buffers"} => ptr'["buffers"] = "live"
    BY <1>3, <2>3, <2>5, InsideSteps DEF InputsLive, InputNames
  <2>9. pc' = "denoise" => ptr'["step noise"] = "live" BY <1>3, <2>3, InsideSteps
  <2>10. WithReferences => ptr'["embeds"] = "live"
    BY <1>3, <2>3, <2>5, InsideSteps DEF InputsLive, InputNames
  <2>11. WithReferences /\ pc' \in Filling \cup {"workspace"} => ptr'["mask"] = "live"
    BY <1>3, <2>4, <2>5, InsideSteps DEF InputsLive, InputNames
  <2>12. WithReferences /\ pc' \in {"noise", "schedule", "denoise"} => ptr'["ref cache"] = "live"
    BY <1>3, <2>4, <2>5, InsideSteps DEF InputsLive, InputNames
  <2> QED
    BY <1>1, <2>6, <2>7, <2>8, <2>9, <2>10, <2>11, <2>12 DEF InputsLive
<1> QED BY <1>2, <1>3

\* RowsFilled is kept.
LEMMA RowsStep ==
  ASSUME TypeOK, RequestPlace, RowsFilled, Going
  PROVE  RowsFilled'
<1> SUFFICES ASSUME pc' \in Inside, WithReferences'
             PROVE  /\ done' <= References'
                    /\ pc' \notin Towering => done' = References'
                    /\ DOMAIN embeds' = 1 .. Rows'[References'] /\ offset' = Rows'[done']
                    /\ \A r \in 1 .. done' : \A p \in Rows'[r - 1] + 1 .. Rows'[r] : embeds'[p] = r
  BY DEF RowsFilled
<1>1. (WithReferences' <=> WithReferences) /\ References' = References /\ Rows' = Rows
      /\ UNCHANGED req
  BY GoingGoesOn, SameRequest, RowsStay DEF GoesOn
<1>2. /\ References \in Nat /\ done \in Nat /\ Rows \in [0 .. References -> Nat] /\ Rows[0] = 0
      /\ \A k \in 1 .. References : Rows[k] = Rows[k - 1] + Tokens(Grid(k))
  BY ReferencesType, RowsFollow DEF EndsUpTo
<1>3. pc \in Inside \/ AllocateEmbeds BY <1>1, InsideSteps
<1>4. CASE AllocateEmbeds
  <2>1. /\ embeds' = [p \in 1 .. Rows[References] |-> 0] /\ offset' = 0 /\ done' = 0
        /\ pc' \in {"reference", "vision_fail"}
    BY <1>4 DEF AllocateEmbeds, Go, Goto
  <2>2. pc' \in Towering BY <2>1 DEF Inside, Filling, Towering
  <2>4. 1 .. done' = {} /\ done' <= References
    <3>1. done' = 0 BY <2>1
    <3>2. 1 .. 0 = {} /\ 0 <= References BY <1>2
    <3> QED BY <3>1, <3>2
  <2>3. DOMAIN embeds' = 1 .. Rows[References] /\ offset' = Rows[done'] BY <1>2, <2>1
  <2> QED BY <1>1, <2>2, <2>3, <2>4
<1>5. CASE pc \in Inside /\ RunTower
  <2>1. /\ done < References /\ pc \in Towering
    BY <1>5 DEF RunTower, RequestPlace, Towering
  <2>2. done + 1 \in 1 .. References /\ (done + 1) - 1 = done /\ done \in 0 .. References
    BY <1>2, <2>1
  <2>3. /\ DOMAIN embeds = 1 .. Rows[References] /\ offset = Rows[done]
        /\ \A r \in 1 .. done : \A p \in Rows[r - 1] + 1 .. Rows[r] : embeds[p] = r
    BY <1>1, <1>5 DEF RowsFilled
  <2>4. Rows[done + 1] = offset + Tokens(Current)
    BY <1>2, <2>2, <2>3 DEF Current
  <2>5. /\ embeds' = [p \in DOMAIN embeds |->
                       IF p \in offset + 1 .. offset + Tokens(Current) THEN done + 1 ELSE embeds[p]]
        /\ offset' = offset + Tokens(Current) /\ done' = done + 1
        /\ pc' = IF done' = References THEN "mask" ELSE "reference"
    BY <1>5 DEF RunTower, Go, Goto
  <2>6. done' <= References /\ (pc' \notin Towering => done' = References)
    BY <2>2, <2>5 DEF Towering
  <2>7. DOMAIN embeds' = 1 .. Rows[References] /\ offset' = Rows[done']
    BY <2>3, <2>4, <2>5
  <2>8. ASSUME NEW r \in 1 .. done', NEW p \in Rows[r - 1] + 1 .. Rows[r] PROVE embeds'[p] = r
    <3>1. /\ r \in 1 .. References /\ r \in 0 .. References /\ r - 1 \in 0 .. References
          /\ References \in 0 .. References
          /\ r = done + 1 \/ (r \in 1 .. done /\ r <= done)
      BY <1>2, <2>2, <2>5
    <3>2. Rows[r] <= Rows[References] BY <3>1, RowsGrow
    <3>3. Rows[r] \in Nat /\ Rows[r - 1] \in Nat /\ Rows[References] \in Nat BY <1>2, <3>1
    <3>4. p \in 1 .. Rows[References] BY <3>2, <3>3
    <3>5. embeds'[p] = IF p \in offset + 1 .. offset + Tokens(Current) THEN done + 1 ELSE embeds[p]
      BY <2>3, <2>5, <3>4
    <3>6. CASE r = done + 1
      <4>1. r - 1 = done BY <2>2, <3>6
      <4>2. p \in offset + 1 .. offset + Tokens(Current) BY <2>3, <2>4, <3>6, <4>1
      <4> QED BY <3>5, <3>6, <4>2
    <3>7. CASE r \in 1 .. done /\ r <= done
      <4>1. Rows[r] <= Rows[done] BY <2>2, <3>1, <3>7, RowsGrow
      <4>2. Rows[done] \in Nat BY <1>2, <2>2
      <4>3. p <= offset
        <5>1. p \in Nat /\ p <= Rows[r] BY <3>3
        <5> QED BY <2>3, <3>3, <4>1, <4>2, <5>1
      <4>4. p \notin offset + 1 .. offset + Tokens(Current) BY <2>3, <3>4, <3>3, <4>2, <4>3
      <4>5. embeds[p] = r BY <2>3, <3>7
      <4> QED BY <3>5, <4>4, <4>5
    <3> QED BY <3>1, <3>6, <3>7
  <2> QED BY <1>1, <2>6, <2>7, <2>8
<1>6. CASE pc \in Inside /\ ~RunTower /\ ~AllocateEmbeds
  <2>1. UNCHANGED <<done, embeds, offset>> /\ (pc \in Towering => pc' \in Towering)
    <3>1. CASE Accept \/ BuildDeck \/ AllocateWorkspace \/ MakePlans \/ StageInputs
               \/ AllocateBuffers
      BY <1>6, <3>1 DEF Accept, BuildDeck, AllocateWorkspace, MakePlans, StageInputs, Towering,
         AllocateBuffers, towerVars
    <3>2. CASE UploadReferences \/ EmbedReferences \/ MakeNoise \/ PrepareLoop
               \/ DenoiseLoop \/ AllocateOutput \/ CheckOutput
      BY <1>6, <3>2 DEF UploadReferences, EmbedReferences, MakeNoise, Towering, towerVars,
         PrepareLoop, DenoiseLoop, AllocateOutput, CheckOutput
    <3>3. CASE LoadReference \/ BuildSequence \/ AllocateTower
      BY <1>6, <3>3 DEF LoadReference, BuildSequence, AllocateTower, Inside, Filling, Towering
    <3>4. CASE PrepareReference \/ PrepareTower
      BY <1>6, <3>4 DEF PrepareReference, PrepareTower, Towering, Go, Goto, towerVars
    <3>5. CASE PrepareReferenceFails \/ PrepareTowerFails \/ RunTowerFails
      BY <1>6, <3>5 DEF PrepareReferenceFails, PrepareTowerFails, RunTowerFails, Go, Goto,
         Inside, Filling, Towering
    <3>6. CASE MakeMask BY <1>6, <3>6 DEF MakeMask, Towering, towerVars
    <3> QED BY <1>6, <3>1, <3>2, <3>3, <3>4, <3>5, <3>6 DEF Going
  <2>2. /\ done <= References /\ (pc \notin Towering => done = References)
        /\ DOMAIN embeds = 1 .. Rows[References] /\ offset = Rows[done]
        /\ \A r \in 1 .. done : \A p \in Rows[r - 1] + 1 .. Rows[r] : embeds[p] = r
    BY <1>1, <1>6 DEF RowsFilled
  <2> QED BY <1>1, <2>1, <2>2
<1> QED BY <1>3, <1>4, <1>5, <1>6

\* What the loop is given is kept by every step.
LEMMA LoopStep ==
  ASSUME TypeOK, RequestPlace, InputsLive, RowsFilled, Next
  PROVE  InputsLive' /\ RowsFilled'
<1>1. CASE Engine \/ Ending \/ StartRequest
  <2>1. pc' \notin Inside
    BY <1>1, EngineOutside, EndingReturns DEF StartRequest, Go, Goto, Outside, Inside, Filling,
       Towering
  <2> QED BY <2>1 DEF InputsLive, RowsFilled, Inside, Filling
<1>2. CASE Going BY <1>2, InputsStep, RowsStep
<1> QED BY <1>1, <1>2, FourKinds

-----------------------------------------------------------------------------
(* The theorems. *)

\* A new engine satisfies the invariant.
LEMMA InitInductive == Init => IInv
<1> SUFFICES ASSUME Init PROVE IInv OBVIOUS
<1>1. TypeOK BY InitTypes
<1>2. \A x \in Resource : ptr[x] = "null" BY DEF Init
<1>3. RequestPlace BY DEF Init, RequestPlace, Outside, OfReferences, Towering
<1>4. PointerPlace BY <1>2 DEF PointerPlace, Resource, Transient
<1>5. \A x \in StageNames \cup ReferenceNames \cup {"deck 2", "plan 2"} : ptr[x] # "live"
  BY <1>2, Names
<1>6. StageLive /\ PathLive BY <1>5 DEF StageLive, PathLive, StageNames, ReferenceNames
<1>7. TowerPlace BY DEF Init, TowerPlace, TowerFits, Towering
<1>8. NothingStays BY DEF Init, NothingStays
<1>9. InputsLive /\ RowsFilled BY DEF Init, InputsLive, RowsFilled, Inside, Filling, Towering
<1> QED BY <1>1, <1>3, <1>4, <1>6, <1>7, <1>8, <1>9 DEF IInv

\* Every step keeps it.
LEMMA StepInductive == IInv /\ [Next \/ Ended]_vars => IInv'
<1>1. CASE IInv /\ Next
  BY <1>1, TypesStep, RequestStep, PointerStep, LiveStep, TowerStep, LeftStep, LoopStep DEF IInv
<1>2. CASE IInv /\ UNCHANGED vars
  <2>1. /\ TypeOK' /\ RequestPlace' /\ PointerPlace' /\ StageLive' /\ PathLive' /\ TowerPlace'
        /\ NothingStays'
    <3>1. TypeOK' BY <1>2 DEF IInv, TypeOK, vars, towerVars
    <3>2. RequestPlace' /\ PointerPlace' /\ StageLive' /\ PathLive'
      <4>1. UNCHANGED <<pc, ptr, req, done, count>> BY <1>2 DEF vars
      <4>2. References' = References /\ (WithReferences' <=> WithReferences) /\ (Guided' <=> Guided)
        BY <4>1, SameRequest
      <4>3. RequestPlace' BY <1>2, <4>1, <4>2 DEF IInv, RequestPlace
      <4>4. PointerPlace' BY <1>2, <4>1, <4>2 DEF IInv, PointerPlace
      <4>5. StageLive' /\ PathLive' BY <1>2, <4>1, <4>2 DEF IInv, StageLive, PathLive
      <4> QED BY <4>3, <4>4, <4>5
    <3>3. NothingStays' BY <1>2 DEF IInv, NothingStays, WithReferences, vars
    <3>4. TowerPlace'
      <4>1. UNCHANGED <<pc, ptr, req, done, capacity, plan_n, tables>>
        BY <1>2 DEF vars, towerVars
      <4>2. References' = References /\ Current' = Current /\ \A r : Grid(r)' = Grid(r)
        BY <4>1, SameRequest DEF Current, Grid
      <4> QED BY <1>2, <4>1, <4>2 DEF IInv, TowerPlace, TowerFits, Patches, Tokens
    <3> QED BY <3>1, <3>2, <3>3, <3>4
  <2>2. UNCHANGED <<pc, ptr, req, done, offset, embeds>> BY <1>2 DEF vars, towerVars
  <2>3. Rows' = Rows /\ References' = References /\ (WithReferences' <=> WithReferences)
    BY <2>2, RowsStay, SameRequest
  <2>4. InputsLive' /\ RowsFilled' BY <1>2, <2>2, <2>3 DEF IInv, InputsLive, RowsFilled
  <2> QED BY <2>1, <2>4 DEF IInv
<1>3. CASE IInv /\ Ended BY <1>2, <1>3 DEF Ended
<1> QED BY <1>1, <1>2, <1>3

\* The places of the pointers keep every way out from releasing twice.
LEMMA PlacesSuffice == IInv => FreedOnce
<1> SUFFICES ASSUME IInv PROVE FreedOnce OBVIOUS
<1>1. TypeOK /\ PointerPlace BY DEF IInv
<1>2. \A x \in Transient : ptr[x] \in {"null", "live", "dangling", "undefined"}
  BY <1>1 DEF TypeOK, Resource
<1>3. ASSUME NEW x \in Released \cup {"output"} \cup ReleasedByVision
      PROVE  ptr[x] # "dangling" /\ x \in Transient
  <2>1. x \in Transient BY ResidentApart DEF Transient
  <2>2. x \notin {"pixels", "step noise"} BY DEF Released, ReleasedByVision, Decks, Plans
  <2> QED BY <1>1, <2>1, <2>2 DEF PointerPlace
<1>4. \A x \in Transient \ {"ref cache"} : ptr[x] # "undefined"
  BY <1>1 DEF PointerPlace, Resource
<1>5. "ref cache" \notin ReleasedByVision BY DEF ReleasedByVision
<1>6. pc = "finish" => ptr["ref cache"] # "undefined" BY <1>1 DEF PointerPlace, Late
<1>7. pc # "closed" => \A x \in Resident : ptr[x] # "dangling" BY <1>1 DEF PointerPlace
<1> QED BY <1>2, <1>3, <1>4, <1>5, <1>6, <1>7 DEF FreedOnce

\* The invariant holds in every run of an engine.
THEOREM Invariance == Spec => []IInv
BY InitInductive, StepInductive, PTL DEF Spec

\* Every variable of the engine and of its request has its type.
THEOREM TypeCorrect == Spec => []TypeOK
<1>1. IInv => TypeOK BY DEF IInv
<1> QED BY <1>1, Invariance, PTL

\* No way out of hd_generation_engine_generate releases what is gone already.
THEOREM ReleasesOnce == Spec => []FreedOnce
BY PlacesSuffice, Invariance, PTL

\* A request that got its image leaves nothing behind, but for the attention plan
\* of one with references.
THEOREM SuccessLeavesNothing == Spec => []NothingStays
<1>1. IInv => NothingStays BY DEF IInv
<1> QED BY <1>1, Invariance, PTL

\* The vision tower runs with a plan and tables for the reference at hand, and
\* inside its workspace, whatever the references before it were.
THEOREM TowerIsFitted == Spec => []TowerFits
<1>1. IInv => TowerFits BY DEF IInv, TowerPlace
<1> QED BY <1>1, Invariance, PTL

\* Whatever the way there, the forward passes find every buffer they are given, and
\* the rows of each reference where its placeholders are in the text.
THEOREM LoopFindsItsInputs == Spec => []LoopHasItsInputs
<1>1. IInv => LoopHasItsInputs
  <2> SUFFICES ASSUME IInv, pc = "denoise" PROVE LoopHasItsInputs BY DEF LoopHasItsInputs
  <2>1. pc \in Inside /\ pc \notin Towering /\ pc \in Filling \ {"plans", "inputs", "buffers"}
    BY DEF Inside, Filling, Towering
  <2>2. InputsLive /\ RowsFilled BY DEF IInv
  <2> QED BY <2>1, <2>2 DEF LoopHasItsInputs, InputsLive, RowsFilled
<1> QED BY <1>1, Invariance, PTL

=============================================================================
