------------------------------ MODULE Denoise ------------------------------
(***************************************************************************)
(* The denoising loop of a request (src/runtime/generate.c) with its       *)
(* scheduler (src/model/scheduler.c): the sigmas are derived, then every   *)
(* step runs the model on the current sample and lets one of three solvers *)
(* make the next one, and the last sample is checked before it becomes an  *)
(* image.                                                                  *)
(*                                                                         *)
(* The kernels of src/cuda/sched.cu are CONSTANT operators: the module     *)
(* says which buffers and which sigmas they are given, in which order, and *)
(* nothing about their arithmetic.  Samples, Converted and Corrected are   *)
(* the sequences the method defines by its recurrence, with all of them in *)
(* memory: the loop has to compute them in place, in three scratch thirds  *)
(* and three history slots that it rotates.                                *)
(***************************************************************************)
EXTENDS Integers

CONSTANTS
  MaxSigmas,          \* HD_SCHED_MAX_STEPS, the length of the array of sigmas
  DevSteps,           \* how many timesteps the frozen Dev recipe has
  StepLimit,          \* the most steps hd_request_validate accepts
  Initial,            \* the first sample: scaled noise, rounded
  Garbage,            \* what a device buffer holds before it is written
  Nan, MinusZero,     \* samples of which every number is that
  Ramp(_, _, _),      \* Ramp(recipe, steps, k): sigma number k of the recipe; nothing is
                      \* assumed of it, a shift of zero makes zeros and a NaN
  Noise(_),           \* the draw number k of the step generator, clipped
  Scale(_, _),        \* s_noise of step k of so many, two or more
  Narrow(_),          \* f32 to bf16, of numbers
  Upcast(_),          \* hd_sched_bf16_upcast
  Velocity(_, _, _),  \* hd_forward and hd_sched_vcond: branch, sample, sigma (and T_EPS)
  Guide(_, _),        \* hd_sched_cfg_guided: conditional, unconditional
  Convert(_, _, _),   \* hd_unipc_convert: sample, model output, sigma
  Correct1(_, _, _, _, _),        \* hd_unipc_correct: last, m0, conv, sigmas t, s0
  Correct2(_, _, _, _, _, _, _),  \* ... last, m0, m_old, conv, sigmas t, s0, m
  Predict1(_, _, _, _),           \* hd_unipc_predict: sample, m0, sigmas t, s0
  Predict2(_, _, _, _, _, _),     \* ... sample, m0, m_old, sigmas t, s0, m
  Denoised(_, _, _),  \* hd_sched_denoised: sample, model output, sigma
  Renoise(_, _, _, _),            \* hd_sched_z_next: noise, denoised, sigma_next, s_noise
  FlowStep(_, _, _, _)            \* hd_sched_flow_match_step: sample, model output, sigmas

Request == [path : {"t2i", "ref"}, scheduler : {"flash", "flow_match", "default"},
            guided : BOOLEAN, steps : 0 .. StepLimit + 1]

ASSUME StepsAssumption ==
  /\ MaxSigmas \in Nat /\ DevSteps \in Nat /\ StepLimit \in Nat
  /\ 2 <= DevSteps /\ DevSteps < MaxSigmas

-----------------------------------------------------------------------------
(* The method. *)

\* Which of the three solvers a request runs on.  The loop of the reference
\* path knows flow_match only; every other scheduler takes noisy Euler steps.
Solver(r) ==
  IF r.scheduler = "flow_match" THEN "flow"
  ELSE IF r.path = "t2i" /\ r.scheduler = "default" THEN "unipc" ELSE "noisy"

\* use_cfg: a second forward pass without the prompt.
Guided(r) == Solver(r) = "unipc" /\ r.guided

\* The output of the model the solver is given, -v_guided.
ModelOutput(r, z, sigma) ==
  IF r.path = "ref" THEN Velocity("with references", z, sigma)
  ELSE IF Guided(r)
       THEN Guide(Velocity("prompt", z, sigma), Velocity("no prompt", z, sigma))
       ELSE Velocity("prompt", z, sigma)

\* hd_dev_f32_to_bf16 rounds by adding to the bits of the number, that is to
\* a high and a low half of 16 bits; a carry out of the high half is lost.
HighHalf(high, low) == (high + ((low + 32767 + (high % 2)) \div 65536)) % 65536

\* The NaN that a kernel makes has the bits 7fff ffff.  Rounding carries them
\* over into 8000, minus zero (see NanBecomesZero); numbers are rounded.
Round(x) == IF x = Nan THEN MinusZero ELSE Narrow(x)

\* A product with a NaN is a NaN.
Noisy(noise, denoised, sigmaNext, sNoise) ==
  IF sNoise = Nan THEN Nan ELSE Renoise(noise, denoised, sigmaNext, sNoise)

\* The requests whose steps use up their schedule: an Euler solver with one
\* step gets the sigmas of the Dev recipe, of which it takes the first.
Regular == {r \in Request :
  /\ r.steps \in 1 .. MaxSigmas - 1
  /\ r.path = "t2i" => r.scheduler # "flow_match"
  /\ r.steps >= 2 \/ Solver(r) = "unipc"}

\* The schedule of a request.
Recipe(r) ==
  IF r.scheduler = "default" THEN "default"
  ELSE IF r.steps = DevSteps THEN "dev" ELSE "flash"
Schedule(r, k) == IF k < r.steps THEN Ramp(Recipe(r), r.steps, k) ELSE 0

\* The order of step k: the first has no history, and the last has no sigma
\* whose logarithm it could take.
Order(r, k) == IF k = 0 \/ k = r.steps - 1 THEN 1 ELSE 2

\* The sequence f of numbers 0 to n - 1 with the value v as number n.
Longer(f, n, v) == [j \in 0 .. n |-> IF j < n THEN f[j] ELSE v]

\* Step k of the UniPC method on what has been made so far: samples z up to
\* number k, model outputs conv and corrected samples corr up to k - 1.
UniPCStep(r, made, k) ==
  LET sigma(j) == Schedule(r, j)
      z == Upcast(made.z[k])
      conv == Longer(made.conv, k, Convert(z, ModelOutput(r, made.z[k], sigma(k)), sigma(k)))
      corrected ==
        IF k = 0 THEN z
        ELSE IF Order(r, k - 1) = 1
        THEN Correct1(made.corr[k - 1], conv[k - 1], conv[k], sigma(k), sigma(k - 1))
        ELSE Correct2(made.corr[k - 1], conv[k - 1], conv[k - 2], conv[k],
                      sigma(k), sigma(k - 1), sigma(k - 2))
      predicted ==
        IF Order(r, k) = 1
        THEN Predict1(corrected, conv[k], sigma(k + 1), sigma(k))
        ELSE Predict2(corrected, conv[k], conv[k - 1], sigma(k + 1), sigma(k), sigma(k - 1))
  IN  [z |-> Longer(made.z, k + 1, Round(predicted)),
       conv |-> conv, corr |-> Longer(made.corr, k, corrected)]

\* Step k of the Euler methods, with and without new noise.
EulerStep(r, made, k) ==
  LET z == made.z[k]
      mo == ModelOutput(r, z, Schedule(r, k))
      next == IF Solver(r) = "flow"
              THEN FlowStep(z, mo, Schedule(r, k), Schedule(r, k + 1))
              ELSE Noisy(Noise(k), Denoised(Upcast(z), mo, Schedule(r, k)),
                         Schedule(r, k + 1), Scale(k, r.steps))
  IN  [made EXCEPT !.z = Longer(@, k + 1, Round(next))]

MethodStep(r, made, k) ==
  IF Solver(r) = "unipc" THEN UniPCStep(r, made, k) ELSE EulerStep(r, made, k)

\* What the method makes of a request.
Method == [r \in Regular |->
  LET made[k \in 0 .. r.steps] ==
        IF k = 0 THEN [z |-> [j \in 0 .. 0 |-> Initial], conv |-> <<>>, corr |-> <<>>]
        ELSE MethodStep(r, made[k - 1], k - 1)
  IN  made[r.steps]]

Samples(r, k) == Method[r].z[k]
Converted(r, k) == Method[r].conv[k]
Corrected(r, k) == Method[r].corr[k]

-----------------------------------------------------------------------------
VARIABLES
  pc,         \* where the request is
  req,        \* the request
  sigmas,     \* which schedule was derived, [recipe, count]: sched.sigmas, sched.num_steps
  step_index, \* sched.step_index
  i,          \* the loop's own index
  z_prev, z_next, mo,  \* z_prev_dev, z_next_dev, mo_dev
  scratch,    \* the thirds of the scratch buffer
  slots,      \* unipc_slot_0, 1 and 2
  last,       \* unipc_last_dev
  history,    \* [this, lower, have]: unipc_this, unipc_lower, have_hist
  draws       \* how often step_rng has filled noise_step

schedVars == <<sigmas, step_index>>
unipcVars == <<slots, last, history>>
vars == <<pc, req, schedVars, i, z_prev, z_next, mo, scratch, unipcVars, draws>>

PC == {"validate", "prepare", "forward", "solve", "advance", "check", "image", "refused"}

TypeOK ==
  /\ pc \in PC /\ req \in Request
  /\ sigmas \in [recipe : {"none", "dev", "flash", "default"}, count : 0 .. MaxSigmas]
  /\ step_index \in 0 .. MaxSigmas /\ i \in 0 .. MaxSigmas /\ draws \in 0 .. MaxSigmas
  /\ DOMAIN scratch = 1 .. 3 /\ DOMAIN slots = 0 .. 2
  /\ history \in [this : 0 .. 2, lower : 0 .. 2, have : BOOLEAN]

Init ==
  /\ pc = "validate" /\ req \in Request
  /\ sigmas = [recipe |-> "none", count |-> 0] /\ step_index = 0 /\ i = 0 /\ draws = 0
  /\ z_prev = Garbage /\ z_next = Garbage /\ mo = Garbage /\ last = Garbage
  /\ scratch = [t \in 1 .. 3 |-> Garbage] /\ slots = [t \in 0 .. 2 |-> Garbage]
  /\ history = [this |-> 0, lower |-> 0, have |-> FALSE]

\* The request fails: every buffer is released, the caller gets no image.
Refuse ==
  /\ pc' = "refused"
  /\ UNCHANGED <<req, schedVars, i, z_prev, z_next, mo, scratch, unipcVars, draws>>

\* sched.sigmas[k]; memset clears what is behind the schedule.
Sigma(k) ==
  IF k < sigmas.count - 1 THEN Ramp(sigmas.recipe, sigmas.count - 1, k) ELSE 0

\* hd_request_validate.
Validate ==
  /\ pc = "validate" /\ req.steps \in 1 .. StepLimit
  /\ pc' = "prepare"
  /\ UNCHANGED <<req, schedVars, i, z_prev, z_next, mo, scratch, unipcVars, draws>>

ValidateFails == pc = "validate" /\ req.steps \notin 1 .. StepLimit /\ Refuse

\* The schedule derived for the request, none if derive_* refuses it.
Derived ==
  IF req.scheduler = "default"
  THEN IF req.steps \in 1 .. MaxSigmas - 1
       THEN [recipe |-> "default", count |-> req.steps + 1]
       ELSE [recipe |-> "none", count |-> 0]
  ELSE IF req.steps <= 1 \/ req.steps = DevSteps
  THEN [recipe |-> "dev", count |-> DevSteps + 1]
  ELSE IF req.steps \in 2 .. MaxSigmas - 1
       THEN [recipe |-> "flash", count |-> req.steps + 1]
       ELSE [recipe |-> "none", count |-> 0]

Supported ==
  /\ req.path = "t2i" => req.scheduler # "flow_match"
  /\ Derived.count >= req.steps + 1

\* The first sample is the scaled noise, rounded; step_rng gets its own seed.
Prepare ==
  /\ pc = "prepare" /\ Supported
  /\ pc' = "forward"
  /\ sigmas' = Derived /\ step_index' = 0 /\ i' = 0
  /\ z_prev' = Initial
  /\ UNCHANGED <<req, z_next, mo, scratch, unipcVars, draws>>

\* The scheduler is not supported, or an allocation, the prompt, a reference
\* or the vision tower fails.
PrepareFails == pc = "prepare" /\ Refuse

\* The forward passes on the current sample.
Forward ==
  /\ pc = "forward"
  /\ mo' = ModelOutput(req, z_prev, Sigma(i))
  /\ pc' = "solve"
  /\ UNCHANGED <<req, schedVars, i, z_prev, z_next, scratch, unipcVars, draws>>

ForwardFails == pc = "forward" /\ Refuse

\* The place of the zero that derive_* appends.
Trailing == sigmas.count - 1

\* Mutant: the order is not lowered for the final step.
PlanKeepsOrder ==
  [corr |-> IF i > 0 /\ history.this > 0 THEN history.this ELSE 0,
   pred |-> IF 2 > history.lower + 1 THEN history.lower + 1 ELSE 2,
   corrOld |-> IF i >= 2 THEN i - 2 ELSE 0,
   predOld |-> IF i >= 1 THEN i - 1 ELSE 0,
   lower |-> IF history.lower < 2 THEN history.lower + 1 ELSE history.lower]

\* hd_scheduler_unipc_plan for step i: the orders of the corrector and the
\* predictor, the sigmas their coefficients are made of, what to persist.
Plan ==
  LET order == IF Trailing - i < 2 THEN Trailing - i ELSE 2
      pred  == IF order > history.lower + 1 THEN history.lower + 1 ELSE order
  IN  [corr |-> IF i > 0 /\ history.this > 0 THEN history.this ELSE 0,
       pred |-> pred,
       corrOld |-> IF i >= 2 THEN i - 2 ELSE 0,
       predOld |-> IF i >= 1 THEN i - 1 ELSE 0,
       lower |-> IF history.lower < 2 THEN history.lower + 1 ELSE history.lower]

\* Mutant: slot 1 is overwritten before it is copied to slot 2.
RotatedEarly(conv) == [t \in 0 .. 2 |-> conv]

\* The history after a step: the new output in slots 0 and 1, that of the step
\* before in slot 2.
Rotated(conv) == [t \in 0 .. 2 |-> IF t = 2 THEN slots[1] ELSE conv]

\* The default scheduler: convert, correct, predict, rotate the history.
UniPC ==
  /\ pc = "solve" /\ Solver(req) = "unipc"
  /\ LET sample == Upcast(z_prev)
         conv == Convert(sample, mo, Sigma(i))
         corrected ==
           IF ~(i > 0 /\ history.this > 0 /\ history.have) THEN sample
           ELSE IF Plan.corr = 2
           THEN Correct2(last, slots[1], slots[2], conv,
                         Sigma(i), Sigma(i - 1), Sigma(Plan.corrOld))
           ELSE Correct1(last, slots[1], conv, Sigma(i), Sigma(i - 1))
         predicted ==
           IF Plan.pred = 2
           THEN Predict2(corrected, conv, slots[1],
                         Sigma(i + 1), Sigma(i), Sigma(Plan.predOld))
           ELSE Predict1(corrected, conv, Sigma(i + 1), Sigma(i))
     IN  /\ scratch' = <<conv, corrected, predicted>>
         /\ last' = corrected
         /\ z_next' = Round(predicted)
         /\ slots' = Rotated(conv)
         /\ history' = [this |-> Plan.pred, lower |-> Plan.lower, have |-> TRUE]
  /\ pc' = "advance"
  /\ UNCHANGED <<req, schedVars, i, z_prev, mo, draws>>

\* The noise scale as the loop writes it: 0/0 if there is one step.
NoiseScale == IF req.steps = 1 THEN Nan ELSE Scale(i, req.steps)

\* hd_scheduler_step, with the sigmas at its own step_index and fresh noise.
SchedulerStep ==
  /\ LET sample == Upcast(z_prev)
         denoised == Denoised(sample, mo, Sigma(step_index))
         next == Noisy(Noise(draws), denoised, Sigma(step_index + 1), NoiseScale)
     IN  scratch' = <<sample, denoised, next>> /\ z_next' = Round(next)
  /\ draws' = draws + 1 /\ step_index' = step_index + 1
  /\ pc' = "advance"
  /\ UNCHANGED <<req, sigmas, i, z_prev, mo, unipcVars>>

\* flash, and whatever else the reference path is given.  The scheduler
\* refuses when it has no sigma left (SchedulerKeepsPace: it always has).
NoisyEuler ==
  /\ pc = "solve" /\ Solver(req) = "noisy"
  /\ IF step_index >= sigmas.count - 1 THEN Refuse ELSE SchedulerStep

\* flow_match: no noise, and the loop's own index.
FlowMatch ==
  /\ pc = "solve" /\ Solver(req) = "flow"
  /\ z_next' = Round(FlowStep(z_prev, mo, Sigma(i), Sigma(i + 1)))
  /\ step_index' = step_index + 1
  /\ pc' = "advance"
  /\ UNCHANGED <<req, sigmas, i, z_prev, mo, scratch, unipcVars, draws>>

\* z_next becomes the current sample, the progress is reported.
Advance ==
  /\ pc = "advance"
  /\ z_prev' = z_next /\ i' = i + 1
  /\ pc' = IF i + 1 < req.steps THEN "forward" ELSE "check"
  /\ UNCHANGED <<req, schedVars, z_next, mo, scratch, unipcVars, draws>>

\* The final sample is decoded, unless it has a NaN or is out of range, which
\* of a number the module leaves open, or memory runs out.
Decode ==
  /\ pc = "check" /\ z_prev # Nan
  /\ pc' = "image"
  /\ UNCHANGED <<req, schedVars, i, z_prev, z_next, mo, scratch, unipcVars, draws>>

Reject == pc = "check" /\ Refuse

Next ==
  \/ Validate \/ ValidateFails \/ Prepare \/ PrepareFails \/ Forward \/ ForwardFails
  \/ UniPC \/ NoisyEuler \/ FlowMatch \/ Advance \/ Decode \/ Reject

Spec == Init /\ [][Next]_vars

-----------------------------------------------------------------------------
(* Properties. *)

InLoop == pc \in {"forward", "solve", "advance"}
Through == pc \in {"check", "image"}

\* The current sample is the one the method defines for the step: what the
\* loop keeps in place, rotates, overwrites and draws is what the recurrence
\* calls for, at both ends of the schedule and for every number of steps.
SampleFollowsMethod ==
  (InLoop \/ Through) /\ req \in Regular => z_prev = Samples(req, i)

\* A second-order formula is used only where there is a history for it, so
\* that the plan's fallback to the first sigma never is, and never on the
\* trailing zero, whose logarithm its coefficients would need.  Whether the other
\* sigmas have one is for the shift that was asked for to say.
SecondOrderFits ==
  pc = "solve" /\ Solver(req) = "unipc" =>
    /\ i < Trailing
    /\ Plan.pred = 2 => i >= 1 /\ i + 1 < Trailing
    /\ Plan.corr = 2 => i >= 2
    /\ i > 0 <=> Plan.corr > 0 /\ history.have

\* The two indices, that of the loop and that of the scheduler, and the step
\* generator stay together, and the steps of a regular request end exactly at
\* the trailing zero.
SchedulerKeepsPace ==
  /\ InLoop /\ Solver(req) # "unipc" =>
       step_index = (IF pc = "advance" THEN i + 1 ELSE i) /\ step_index < sigmas.count
  /\ pc = "solve" => i < Trailing
  /\ InLoop => draws = (IF Solver(req) = "noisy" THEN step_index ELSE 0)
  /\ Through /\ req \in Regular => i = Trailing

\* Every step is one the schedule and the history have the values for.
StepsFitSchedule == SecondOrderFits /\ SchedulerKeepsPace

-----------------------------------------------------------------------------
(* The inductive invariant behind them. *)

\* How many steps the solver has made.
Made == IF pc = "advance" THEN i + 1 ELSE i

\* A request in the loop has a schedule, long enough for its steps.
LoopPlace ==
  /\ pc \in {"validate", "prepare"} => draws = 0
  /\ pc # "validate" /\ pc # "refused" => req.steps \in 1 .. StepLimit
  /\ InLoop \/ Through => Supported /\ sigmas = Derived
  /\ InLoop => i < req.steps
  /\ Through => i = req.steps
  /\ InLoop \/ Through =>
       /\ step_index = (IF Solver(req) = "unipc" THEN 0 ELSE Made)
       /\ draws = (IF Solver(req) = "noisy" THEN Made ELSE 0)

\* The solver's history counts the steps made, up to the order of the method.
HistoryPlace ==
  /\ pc \in {"validate", "prepare"} => history = [this |-> 0, lower |-> 0, have |-> FALSE]
  /\ (InLoop \/ Through) /\ Solver(req) = "unipc" =>
       /\ history.lower = (IF Made < 2 THEN Made ELSE 2)
       /\ history.this = (IF Made = 0 THEN 0 ELSE Order(req, Made - 1))
       /\ history.have <=> Made > 0

\* The buffers hold what the method defines for the step they belong to.
BufferPlace ==
  (InLoop \/ Through) /\ req \in Regular =>
    /\ z_prev = Samples(req, i)
    /\ pc = "solve" => mo = ModelOutput(req, Samples(req, i), Schedule(req, i))
    /\ pc = "advance" => z_next = Samples(req, i + 1)
    /\ Solver(req) = "unipc" =>
         /\ Made >= 1 => last = Corrected(req, Made - 1) /\ slots[1] = Converted(req, Made - 1)
         /\ Made >= 2 => slots[2] = Converted(req, Made - 2)

IInv == TypeOK /\ LoopPlace /\ HistoryPlace /\ BufferPlace

=============================================================================
