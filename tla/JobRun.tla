------------------------------- MODULE JobRun -------------------------------
(***************************************************************************)
(* One image request from its fields to its answer, and the next one after *)
(* it: handle_generations, handle_edits_multipart, job_submit and job_run  *)
(* of src/server/o1_server.c.  The images that were sent become temporary  *)
(* files, which live as long as the job; the worker sets O1_VERBOSE_REF of *)
(* the process for the length of a job; image k of a job has the job's     *)
(* seed plus k - 1.  Waiting, queueing and cancelling are ImageServer's.   *)
(***************************************************************************)
EXTENDS Request, FiniteSets

CONSTANTS
  Requests,   \* the requests that may come
  SeedBits    \* the width of a seed

SeedModulus == 2 ^ SeedBits

\* Only forms bring images; every limit is a number.
ASSUME RequestsAssumption ==
  /\ \A f \in Requests : /\ f.endpoint \in {"generations", "edits", "edits_json"}
                         /\ Len(f.uploads) \in Nat
                         /\ f.endpoint # "edits" => Len(f.uploads) = 0
                         /\ f.seed # <<>> => f.seed[1] \in 0 .. SeedModulus - 1
  /\ {MaxN, MaxRefs, StepLimit} \subseteq Nat
  /\ SeedModulus \in Nat \ {0}

VARIABLES
  profile,   \* g_cfg.profile
  shell,     \* O1_VERBOSE_REF as the server was started with it
  env,       \* O1_VERBOSE_REF of the process
  saved,     \* saved_verbose_ref
  pc,        \* where the request is
  fields,    \* what it asks for
  files,     \* the uploads that lie in the temporary directory, by position
  job,       \* the job, once it is filled in
  seed,      \* req.seed
  data,      \* the images of the reply, by the seed they were made with
  reply      \* the status of the reply, 0 before there is one

vars == <<profile, shell, env, saved, pc, fields, files, job, seed, data, reply>>

Unset == "unset"
Values == {Unset, "0", "1"}
NoFields == [endpoint |-> "none"]
NoJob == [n |-> 0]

Init ==
  /\ profile \in Profiles
  /\ shell \in Values
  /\ env = shell
  /\ saved = Unset
  /\ pc = "idle"
  /\ fields = NoFields
  /\ files = {}
  /\ job = NoJob
  /\ seed = 0
  /\ data = <<>>
  /\ reply = 0

Process == <<profile, shell, env, saved>>
Work == <<job, seed, data>>

-----------------------------------------------------------------------------
(* The connection thread. *)

\* Mutant: an upload that is refused leaves those before it.
AnswerKeeps(status) ==
  /\ reply' = status
  /\ pc' = "answered"
  /\ files' = IF pc = "upload" THEN files ELSE {}
  /\ UNCHANGED <<fields, Work>>

\* A request is answered and its job freed, and with it the uploads.
Answer(status) ==
  /\ reply' = status
  /\ pc' = "answered"
  /\ files' = {}
  /\ UNCHANGED <<fields, Work>>

\* A request comes.
Arrive ==
  /\ pc = "idle"
  /\ fields' \in Requests
  /\ pc' = "read"
  /\ UNCHANGED <<files, Work, reply, Process>>

\* handle_edits_json, and a form with a malformed number.
Refuse ==
  /\ pc = "read"
  /\ fields.endpoint = "edits_json" \/ MalformedForm(fields)
  /\ Answer(400)
  /\ UNCHANGED Process

\* The fields are read; the images of a form are next.
Read ==
  /\ pc = "read"
  /\ fields.endpoint # "edits_json" /\ ~MalformedForm(fields)
  /\ pc' = "upload"
  /\ UNCHANGED <<fields, files, Work, reply, Process>>

\* The images are taken in their order; none is left to take.
Left == Cardinality(files) < Refs(fields)
NextUpload == Cardinality(files) + 1

\* One image is written to a file of its own and can be decoded.
Upload ==
  /\ pc = "upload"
  /\ Left
  /\ NextUpload <= MaxRefs
  /\ fields.uploads[NextUpload] = "good"
  /\ files' = files \cup {NextUpload}
  /\ UNCHANGED <<pc, fields, Work, reply, Process>>

\* One image too many, too large, not stored or not decoded; the file of the
\* last is removed on the spot, those of the images before it with the job.
UploadFails ==
  /\ pc = "upload"
  /\ Left
  /\ \/ NextUpload > MaxRefs /\ Answer(400)
     \/ /\ NextUpload <= MaxRefs
        /\ \/ fields.uploads[NextUpload] = "large" /\ Answer(413)
           \/ fields.uploads[NextUpload] # "large" /\ Answer(500)
           \/ fields.uploads[NextUpload] = "bad" /\ Answer(400)
  /\ UNCHANGED Process

\* job_submit refuses, or the queue is full.
SubmitFails ==
  /\ pc = "upload"
  /\ ~Left
  /\ \E size \in EngineSizes(fields) :
       LET verdict == Verdict(fields, size, profile)
       IN  Answer(IF verdict = 0 THEN 429 ELSE verdict)
  /\ UNCHANGED Process

\* The seed that was sent, or any.
SeedsFor(f) == IF f.seed = <<>> THEN 0 .. SeedModulus - 1 ELSE {f.seed[1]}

\* The job is filled in and queued, and the worker takes it.
Submit ==
  /\ pc = "upload"
  /\ ~Left
  /\ \E size \in EngineSizes(fields), s \in SeedsFor(fields) :
       /\ Verdict(fields, size, profile) = 0
       /\ job' = Job(fields, size, profile, s)
  /\ pc' = "queued"
  /\ UNCHANGED <<fields, files, seed, data, reply, Process>>

\* The answer is written, the job freed, and the thread is done with it.
Leave ==
  /\ pc = "answered"
  /\ pc' = "idle"
  /\ fields' = NoFields
  /\ job' = NoJob
  /\ seed' = 0
  /\ data' = <<>>
  /\ reply' = 0
  /\ saved' = Unset
  /\ UNCHANGED <<files, profile, shell, env>>

\* The worker is done with the job: the client gets what it left.
Deliver ==
  /\ pc = "done"
  /\ pc' = "answered"
  /\ files' = {}
  /\ UNCHANGED <<fields, Work, reply, Process>>

-----------------------------------------------------------------------------
(* The worker: job_run. *)

\* The variable is saved and set for this job.
Start ==
  /\ pc = "queued"
  /\ saved' = env
  /\ env' = IF job.verbose THEN "1" ELSE Unset
  /\ seed' = job.seed
  /\ pc' = "generate"
  /\ UNCHANGED <<profile, shell, fields, files, job, data, reply>>

\* What the engine has a path for: with references any scheduler will do, without
\* them hd_engine_generate_t2i turns other modes and flow_match away, which
\* job_submit admits.
EngineServes(j) == j.refs > 0 \/ (j.mode = "t2i" /\ j.scheduler # "flow_match")

\* Mutant: the index is added to the seed of the image before.
GenerateDrifts ==
  /\ pc = "generate"
  /\ Len(data) < job.n
  /\ EngineServes(job)
  /\ seed' = (seed + Len(data)) % SeedModulus
  /\ pc' = "encode"
  /\ UNCHANGED <<fields, files, job, data, reply, Process>>

\* The engine makes the next image.
Generate ==
  /\ pc = "generate"
  /\ Len(data) < job.n
  /\ EngineServes(job)
  /\ seed' = (job.seed + Len(data)) % SeedModulus
  /\ pc' = "encode"
  /\ UNCHANGED <<fields, files, job, data, reply, Process>>

\* It is encoded and put behind those before it.
Encode ==
  /\ pc = "encode"
  /\ data' = Append(data, seed)
  /\ pc' = "generate"
  /\ UNCHANGED <<fields, files, job, seed, reply, Process>>

\* done: the variable is as it was before the job.
Restore ==
  /\ env' = saved
  /\ pc' = "done"
  /\ UNCHANGED <<profile, shell, saved, fields, files, job, seed>>

\* Mutant: a job that fails returns at once.
FailAtOnce ==
  /\ pc \in {"generate", "encode"}
  /\ pc = "generate" => Len(data) < job.n
  /\ reply' = 500
  /\ data' = <<>>
  /\ pc' = "done"
  /\ UNCHANGED <<fields, files, job, seed, Process>>

\* The engine or the encoder fails, the engine always where it has no path for the
\* job: what was made is thrown away.
Fail ==
  /\ pc \in {"generate", "encode"}
  /\ pc = "generate" => Len(data) < job.n
  /\ reply' = 500
  /\ data' = <<>>
  /\ Restore

\* All images are there.
Finish ==
  /\ pc = "generate"
  /\ Len(data) = job.n
  /\ reply' = 200
  /\ data' = data
  /\ Restore

Next ==
  \/ Arrive \/ Refuse \/ Read \/ Upload \/ UploadFails \/ SubmitFails \/ Submit
  \/ Start \/ Generate \/ Encode \/ Fail \/ Finish \/ Deliver \/ Leave

Spec == Init /\ [][Next]_vars

-----------------------------------------------------------------------------
(* What the server promises. *)

\* Every variable stays in its type; the variable of the process is only ever
\* what a job or the shell puts there.
TypeOK ==
  /\ profile \in Profiles
  /\ {shell, env, saved} \subseteq Values
  /\ pc \in {"idle", "read", "upload", "queued", "generate", "encode", "done", "answered"}
  /\ seed \in 0 .. SeedModulus - 1
  /\ data \in Seq(0 .. SeedModulus - 1)

\* What reaches the engine fits together, whatever combination of fields was
\* sent: count, steps and size in range, references and mode that go together,
\* names for all references or none, boxes where the mode needs them, and no
\* default scheduler on a profile that has none.  That a generation asks for
\* flow_match is not among what is refused here: see BodyIsWhole.
AdmittedFits ==
  job # NoJob =>
    /\ job.n \in 1 .. MaxN
    /\ job.steps \in 1 .. StepLimit
    /\ job.size \in {<<32 * b[1], 32 * b[2]>> : b \in Buckets}
    /\ job.refs <= MaxRefs /\ job.aliases \in {0, job.refs}
    /\ job.refs = 0 <=> fields.endpoint = "generations"
    /\ job.mode = "edit" => job.refs = 1
    /\ job.mode = "personalize" => job.refs > 1
    /\ job.mode = "layout" => job.refs > 0 /\ job.layout
    /\ job.mode \in Modes \ {"skeleton"}
    /\ job.scheduler = "default" => profile = "base"

\* What a client asks for within the documented ranges is what the engine gets:
\* steps, count, seed, mode and scheduler as sent, a size that is a bucket
\* unchanged, any other size only where exactness was not asked for and never
\* turned from upright to wide.
AdmittedAsAsked ==
  job # NoJob =>
    /\ fields.steps # <<>> /\ fields.steps[1] \in 1 .. StepLimit => job.steps = fields.steps[1]
    /\ fields.n \in 1 .. MaxN => job.n = fields.n
    /\ fields.seed # <<>> => job.seed = fields.seed[1]
    /\ fields.mode # Absent => job.mode = fields.mode
    /\ fields.scheduler \in {"flash", "flow_match"} => job.scheduler = fields.scheduler
    /\ fields.size # <<>> =>
         /\ (fields.exact \/ \E b \in Buckets : fields.size = <<32 * b[1], 32 * b[2]>>)
              => job.size = fields.size
         /\ fields.size[1] > fields.size[2] => job.size[1] >= job.size[2]
         /\ fields.size[1] < fields.size[2] => job.size[1] <= job.size[2]

\* A 200 carries exactly the images that were asked for, in order, made with
\* seeds that follow the job's seed; any other status carries none.  A job that is
\* admitted although the engine has no path for it never ends in a 200.
BodyIsWhole ==
  pc \in {"done", "answered"} =>
    IF reply = 200
    THEN /\ EngineServes(job) /\ Len(data) = job.n
         /\ \A k \in 1 .. job.n : data[k] = (job.seed + k - 1) % SeedModulus
    ELSE reply # 0 /\ data = <<>>

\* While a job is in the engine O1_VERBOSE_REF is the job's, and at every other
\* time it is what the server was started with, also after a job that failed.
EnvIsOwn ==
  env = IF pc \notin {"generate", "encode"} THEN shell
        ELSE IF job.verbose THEN "1" ELSE Unset

\* While the engine works the file of every reference is there, and a request
\* that was answered leaves none behind, on whatever path it ended.
FilesFollowJob ==
  /\ pc \in {"queued", "generate", "encode"} => files = 1 .. job.refs
  /\ pc \in {"idle", "read", "answered"} => files = {}

-----------------------------------------------------------------------------
(* The inductive invariant behind them. *)

\* A request is one that may come, and its images are taken from the first on.
UploadsInOrder ==
  /\ pc # "idle" => fields \in Requests
  /\ pc = "upload" => \E k \in 0 .. MaxRefs : k <= Refs(fields) /\ files = 1 .. k
  /\ pc \in {"queued", "generate", "encode", "done"} => files = 1 .. job.refs

\* A job is there while it is queued or run, with the images made so far.
JobUnderWay ==
  /\ pc \in {"queued", "generate", "encode", "done"} =>
       job.n \in Nat \ {0} /\ job.seed \in 0 .. SeedModulus - 1
  /\ pc \in {"idle", "read", "upload"} => job = NoJob
  /\ pc \in {"idle", "read", "upload", "queued"} => data = <<>>
  /\ pc \in {"generate", "encode"} =>
       /\ Len(data) <= job.n
       /\ \A k \in 1 .. Len(data) : data[k] = (job.seed + k - 1) % SeedModulus
  /\ pc = "encode" => Len(data) < job.n /\ seed = (job.seed + Len(data)) % SeedModulus

\* An image is only made for a job the engine has a path for.
ImagesAreServed == pc = "encode" \/ data # <<>> => EngineServes(job)

\* JSON on the edits route goes no further than the fields.
EndpointKnown ==
  pc \in {"upload", "queued", "generate", "encode"} => fields.endpoint \in {"generations", "edits"}

\* What the worker will put back is what the server was started with.
SavedIsShell == pc \in {"generate", "encode"} => saved = shell

IInv == TypeOK /\ UploadsInOrder /\ EndpointKnown /\ JobUnderWay /\ SavedIsShell
          /\ ImagesAreServed /\ EnvIsOwn /\ FilesFollowJob /\ BodyIsWhole /\ AdmittedFits
=============================================================================
