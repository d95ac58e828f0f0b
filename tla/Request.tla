------------------------------ MODULE Request ------------------------------
(***************************************************************************)
(* What a client asks for and what the engine is given: the numbers of the *)
(* two kinds of body, the rules of job_submit (src/server/o1_server.c),    *)
(* hd_resolution_snap (src/runtime/sequence.c), hd_request_defaults and    *)
(* hd_request_validate (src/runtime/request.c).                            *)
(*                                                                         *)
(* A request is a record f: endpoint, prompt, model, unsupported (a field  *)
(* the server refuses whatever it says), uploads (the images, in order),   *)
(* mode, aliases (how many), layout, size, exact, keep, scheduler, steps,  *)
(* n, verbose.  A field that was not sent is Absent, and <<>> where a      *)
(* value would be a number or a pair.                                      *)
(***************************************************************************)
EXTENDS Integers, Sequences

CONSTANTS
  IntBits,    \* the width of int
  LongBits,   \* the width of long
  MaxN,       \* O1_SERVER_MAX_N
  MaxRefs,    \* HD_SEQ_MAX_REFS
  MaxSide,    \* the largest side parse_size takes
  StepLimit   \* the largest number of steps

Absent == "absent"
Profiles == {"dev", "base"}
Modes == {"t2i", "edit", "personalize", "layout", "skeleton"}
Schedulers == {"flash", "flow_match", "default"}

IntMax  == 2 ^ (IntBits - 1) - 1
LongMax == 2 ^ (LongBits - 1) - 1

\* A long holds every int, an int every number the server allows; the two halves of
\* an int are equally large.
ASSUME WidthsAssumption ==
  /\ {IntMax, LongMax, MaxN, StepLimit, MaxSide} \subseteq Nat
  /\ IntMax <= LongMax /\ MaxN <= IntMax /\ StepLimit <= IntMax
  /\ 2 ^ IntBits = 2 * (IntMax + 1)

Clamp(v, lo, hi) == IF v < lo THEN lo ELSE IF v > hi THEN hi ELSE v

Refs(f) == Len(f.uploads)

-----------------------------------------------------------------------------
(* Numbers: JSON reads a double, a form a long. *)

\* json_int: nothing below zero, nothing above INT_MAX.
JsonInt(v) == Clamp(v, 0, IntMax)

\* strtol stops at the ends of long.
Strtol(v) == Clamp(v, -LongMax - 1, LongMax)

\* (int)v keeps the low bits of a long.
ToInt(v) == ((v + IntMax + 1) % (2 ^ IntBits)) - IntMax - 1

\* o1_steps as the request has it, zero when it was not sent.
StepsField(f) ==
  IF f.steps = <<>> THEN 0
  ELSE IF f.endpoint = "edits" THEN ToInt(Strtol(f.steps[1])) ELSE JsonInt(f.steps[1])

\* n as job_submit has it.
NField(f) == IF f.endpoint = "edits" THEN Strtol(f.n) ELSE JsonInt(f.n)

\* The form's n is no int: the body is refused before its images are stored.
MalformedForm(f) == f.endpoint = "edits" /\ NField(f) \notin 0 .. IntMax

\* How many images are made.
Images(f) == IF NField(f) = 0 THEN 1 ELSE NField(f)

-----------------------------------------------------------------------------
(* Sizes. *)

\* k_resolutions, in units of 32 pixels.
Buckets ==
  {<<64, 64>>, <<72, 54>>, <<54, 72>>, <<80, 45>>, <<45, 80>>, <<78, 52>>, <<52, 78>>,
   <<97, 41>>, <<41, 97>>, <<72, 56>>, <<56, 72>>}

\* The ratio of bucket b is closer to w : h than that of bucket c.
Closer(b, c, w, h) ==
  LET off(a) == IF a[1] * h > w * a[2] THEN a[1] * h - w * a[2] ELSE w * a[2] - a[1] * h
  IN  off(b) * c[2] < off(c) * b[2]

\* What hd_resolution_snap may return: between two equally close buckets the
\* rounding of the ratios decides.
Snaps(w, h) ==
  {<<32 * b[1], 32 * b[2]>> : b \in {b \in Buckets : \A c \in Buckets : ~Closer(c, b, w, h)}}

\* parse_size takes it.
SizeParses(f) == f.size # <<>> => f.size[1] \in 1 .. MaxSide /\ f.size[2] \in 1 .. MaxSide

\* The sizes the engine may be asked for: 2048 x 2048 until a size is parsed.
EngineSizes(f) ==
  IF f.size = <<>> \/ ~SizeParses(f) THEN {<<2048, 2048>>} ELSE Snaps(f.size[1], f.size[2])

-----------------------------------------------------------------------------
(* Modes, steps and schedulers. *)

\* The mode that follows from the images and the boxes.
DerivedMode(f) ==
  IF f.endpoint # "edits" THEN "t2i"
  ELSE IF f.layout # Absent THEN "layout"
  ELSE IF Refs(f) = 1 THEN "edit" ELSE "personalize"

\* A mode that is asked for counts where there are images.
Mode(f) == IF f.mode = Absent \/ f.endpoint # "edits" THEN DerivedMode(f) ELSE f.mode

\* The mode that is asked for is not known, or does not go with the images.
ModeRefused(f) ==
  /\ f.mode # Absent
  /\ \/ f.mode \notin Modes \ {"skeleton"}
     \/ f.endpoint # "edits" /\ f.mode # "t2i"
     \/ f.mode = "edit" /\ Refs(f) # 1
     \/ f.mode = "personalize" /\ Refs(f) < 2
     \/ f.mode = "layout" /\ f.layout = Absent

\* The number of steps, by hd_request_defaults where none above zero came.
Steps(f, profile) ==
  IF StepsField(f) > 0 THEN StepsField(f) ELSE IF profile = "base" THEN 50 ELSE 28

\* Mutant: the profile's scheduler replaces the one asked for.
SchedulerByMode(f, profile) ==
  IF profile = "base" THEN "default" ELSE IF Mode(f) = "edit" THEN "flow_match" ELSE "flash"

\* hd_request_defaults: on dev the default scheduler is that of the mode.
Scheduler(f, profile) ==
  LET asked == IF f.scheduler = Absent THEN "default" ELSE f.scheduler
  IN  IF asked # "default" \/ profile = "base" THEN asked
      ELSE IF Mode(f) = "edit" THEN "flow_match" ELSE "flash"

-----------------------------------------------------------------------------
(* The rules. *)

\* hd_request_validate, where the rules before it leave something to refuse.
Invalid(f, profile) ==
  \/ Steps(f, profile) \notin 1 .. StepLimit
  \/ Mode(f) = "edit" /\ Refs(f) # 1
  \/ Mode(f) \in {"personalize", "layout"} /\ Refs(f) < 1

\* Mutant: the names may be fewer than the images.
AliasesTooMany(f) == f.aliases > Refs(f)

\* Names for the images come for all of them or for none.
AliasesRefused(f) == f.aliases \notin {0, Refs(f)}

\* What job_submit refuses once the model is known to be the one loaded.
Unacceptable(f, size, profile) ==
  \/ f.unsupported
  \/ Images(f) \notin 1 .. MaxN
  \/ f.endpoint = "edits" /\ Refs(f) = 0
  \/ ModeRefused(f)
  \/ AliasesRefused(f)
  \/ ~SizeParses(f)
  \/ f.keep /\ f.size # <<>>
  \/ f.exact /\ f.size # <<>> /\ size # f.size
  \/ f.scheduler \notin Schedulers \cup {Absent}
  \/ f.layout = "bad"
  \/ Invalid(f, profile)

\* The answer of job_submit: the status it refuses with, 0 when it does not.
Verdict(f, size, profile) ==
  IF f.prompt # "text" THEN 400
  ELSE IF f.model = "other" THEN 404
  ELSE IF Unacceptable(f, size, profile) THEN 400 ELSE 0

\* The job it fills in; the seed is the one sent, or a random one.
Job(f, size, profile, seed) ==
  [n |-> Images(f), seed |-> seed, mode |-> Mode(f), refs |-> Refs(f),
   aliases |-> f.aliases, layout |-> f.layout # Absent, size |-> size,
   steps |-> Steps(f, profile), scheduler |-> Scheduler(f, profile), verbose |-> f.verbose]
=============================================================================
