# A formal model of o1.c

o1.c is a native C/CUDA inference engine for the HiDream-O1 image model with a
command line (`src/main.c`) and an OpenAI-compatible HTTP server
(`src/server/o1_server.c`).  This directory holds TLA+ modules that model its
control, TLC configurations that check them on small instances, and theorems
that TLAPS checks for every value of the constants.  Paths below are relative
to the repository.

## 1. Inventory

| Component | State it keeps | Operations | Interacts with |
|---|---|---|---|
| Server: threads, queue, shutdown (`src/server/o1_server.c`) | `g_stop_requested`, `g_listen_fd`, the ring `g_queue` with `g_queue_head/len/cap/stopping`, one `server_job` per request, the resident engine, the process-wide error text | accept, one thread per connection, enqueue, dequeue, run, publish, wait, reply, stop, teardown | threads share the ring under `g_queue_mu` and each job under `j->mu`; signals; sockets; the engine |
| Server: one HTTP request | receive buffer, content length | read head, read body, drain, route, parse JSON or multipart, store uploads | sockets, temporary files |
| Server: one job (`job_submit`, `job_run`) | the fields of the job, `O1_VERBOSE_REF` | default, validate, generate n images, encode | engine, environment |
| Weight loader (`src/model/weights.c`) | device arena, pinned slots, events, upload stream, allocation table | plan, read, convert, copy, record, wait, bind, free | disk, CUDA copy engine |
| Containers (`src/io`) | header buffers and tensor tables | open, parse, read | disk |
| Scheduler (`src/model/scheduler.c`, `src/cuda/sched.cu`) | sigmas, timesteps, step index, plan, history slots | derive, plan, step | the denoising loop |
| Generation (`src/runtime/generate.c`) | per-request host and device buffers, attention plans, the latent | stages of a request without and with references | everything above |
| Engine (`src/runtime/engine.c`) | store, bindings, profile, counters | open, generate, close | generation, server, CLI |
| Request rules (`src/runtime/request.c`) | none | defaults, validation | server, CLI |
| Sequence and layout (`src/runtime/sequence.c`, `src/image/layout.c`) | token ids, positions, masks | build | generation |
| Aliases and refiner (`src/runtime/ref_alias.c`, `refiner.c`) | alias table | parse, resolve | server, CLI, generation |
| Kernels, forward, tokenizer, codecs, LoRA, RNG | numerics and tables | pure computation | generation |
| Scripts (`scripts/*.sh`) | files of a model | download, resume, verify, replace | disk, network |

What is hard in each of them:

* **Server.**  Concurrency of a worker, main, a signal handler and any number of
  detached connection threads; a bounded ring; peers that leave or stall at any
  moment; a stop at any moment; ownership of a job that two threads see.
  Correct means: an accepted job is worked on exactly once and in order, its
  memory outlives every use, the reply says what happened to it, nothing is
  left behind, a stop ends the process, a patient peer is answered.
* **One HTTP request.**  A stream comes in pieces of any size and may end or stall
  anywhere; two forms of line ends; limits on head and body.  Correct means: the
  routes get the request that was sent, every refusal has a cause, a reply is not
  written into unread bytes, the thread ends.
* **One job.**  A dozen rules about some fifteen fields at five places, two routes
  that parse numbers differently, a variable of the process that is set for a job.
  Correct means: what reaches the engine fits together and is what was asked for,
  the images of a reply are those of consecutive seeds, the variable and the
  temporary files go when the job does.
* **Prompt.**  Names are expanded, the text is merged to tokens, placeholders are
  expanded to rows, rows get places.  Correct means: the tokens are those of the
  encoding, no array is overrun, every row has a place and no two have the same.
* **Weight loader.**  The host overwrites pinned memory that the copy engine
  may still be reading; tensors are planned in one order and streamed in
  another.  Correct means: what the arena holds after a successful load is the
  file's content, every pointer is inside the arena and no two overlap.
* **Scheduler and denoising loop.**  A second-order multistep solver keeps three
  history slots that rotate; the order is reduced at both ends.  Correct means:
  each step combines exactly the outputs the method names.
* **Generation.**  Some thirty stages, each of which may fail and must release
  what was allocated before it.
* **Scripts.**  A download may be interrupted anywhere and is resumed by a later
  run, also when the file on the server is another one by then.  Correct means:
  "ready" is said over the verified model, a model that is there is not lost, and a
  repeated call comes to an end.

## 2. Plan

On disk, in the order they were written:

| Modules | What they are |
|---|---|
| `ImageServer`, `JobService`, `MCImageServer`, `ImageServer_proofs` | the concurrent core of the server, the queue service it implements, its instances, its proofs, refinement included |
| `PackLoader`, `Ingest` | the GGUF loader, the loader's promise |
| `WeightLoader`, `WeightLoader_proofs` | the safetensors loader against the same promise, its proofs, refinement included |
| `GgufHeader` | the header loop of the GGUF reader |
| `ModelLoad`, `MCModelLoad`, `ModelLoad_proofs` | `load_weights`: the composition of the three modules above; the proofs about the pack loader, the header, the whole, and the script that fetches the model |
| `Denoise`, `MCDenoise`, `Denoise_proofs` | schedules, solvers and the denoising loop |
| `Generation`, `MCGeneration`, `Generation_proofs` | the resident engine and the stages of its requests: who holds which buffer, what every way out releases |
| `HttpRead`, `MCHttpRead`, `HttpRead_proofs` | the steps `ReadFails`, `ReadProbe`, `ReadRequest` of `ImageServer` in detail |
| `Request` | constant-level operators: how the fields of a request are read, defaulted, bound and judged |
| `JobRun`, `MCJobRun`, `JobRun_proofs` | a request from its fields to its answer: uploads, admission by `Request`, the images of the job, `O1_VERBOSE_REF`; the steps `Submit...` and `Run...` of `ImageServer` in detail |
| `PromptPath`, `MCPromptPath`, `PromptPath_proofs` | names, template, tokens, rows and places of one caption; the proofs that the tokens are exact and the rows whole |
| `DownloadModel`, `MCDownloadModel` | the download script under crashes, faults and another file on the server |

Planned:

| What | Why |
|---|---|
| `ListenSocket`: the descriptor that `ImageServer` treats as one flag | a signal between the store and the close of `g_listen_fd` |
| two scripts at once in `DownloadModel` | they share the part file |

## 3. The modules and the code

### ImageServer (`src/server/o1_server.c`)

One connection stands for its thread, its socket, its one request (the server
answers `Connection: close`) and its `server_job`.  Control is kept in five
program counters: `main` (`main`, 2282-2419), `worker` (`worker_main`, `dequeue`,
`job_run`), and `pc[c]` for `client_main` with the handlers it calls; the signal
handler is one action.  The ring is the code's ring, an array of `Cap` slots
with `head` and `len`, so that index arithmetic is part of what is checked.

| Code | Actions |
|---|---|
| engine open, `listen_on`, worker creation, poll loop, teardown in `main` | `LoadEngine`, `Listen`, `SpawnWorker`, `LeaveLoop`, `PollError`, `Poll`, `Accept`, `AcceptFails`, `CloseListener`, `QueueStop`, `JoinWorker`, `CloseEngine`, `FreeProfile`, `Return` |
| `stop_signal_handler` | `FirstSignal`, `SecondSignal` |
| `enqueue`, `dequeue`, `queue_stop` | `Enqueue`, `QueueFull`, `Dequeue`, `Sleep`, `SpuriousWakeup`, `WorkerReturns`, `QueueStop` |
| `job_run`, the publication in `worker_main` | `RunSucceeds`, `EncodeFails`, `EngineFails` then `CopyEngineError`, `Publish` |
| `read_http_request`, `handle_request`, the JSON and multipart handlers | `ReadFails`, `ReadProbe`, `ReadRequest`, `StoreUpload`, `RejectUpload` |
| `job_submit`, `dispatch_job`, `wait_for_job_or_disconnect` | `SubmitAccepts`, `SubmitRefuses`, `ValidateFails` then `CopyValidateError`, `NoticeDisconnect`, `JobDone` |
| `http_response`, `send_all`, `server_job_free` | `SendHead`, `SendBody`, `SendFails`, `FreeJob` |

An action is one critical section, or one call between two places where another
thread can be seen.  `hd_set_error` and the later `hd_last_error` are two
actions because nothing keeps another thread out between them.  A request's
contents are abstracted to its kind, a reply to its status class and to how much
of it left the server.

`JobService` is what a client may rely on: jobs are served one at a time, first
come first served, at most `Cap` wait, a job is turned away only when the queue
is full or closing, and what was accepted is served even after closing.
`ImplementsService` states that the ring, the worker and the waiting threads
implement it; the mapping reads the ring from `head` on as the waiting sequence
and derives each job's fate from its flags.

Simplifications: the store to `g_listen_fd` happens together with `listen`; a
connection reset between `poll` and `accept` is not represented, so that a
blocking `accept` cannot hang here as it may in the code (hazard list);
descriptors are not numbered; uploads of one request count as present or not.

### PackLoader, WeightLoader and Ingest (`src/model/weights.c`)

Both loaders are one host thread and one copy engine that works through the
upload stream on its own (`Transfer`) and reads the pinned slot as it is *by
then*.  Contents are identities: a slot or a piece of the arena holds the number
of the window or tensor it was filled from, or `Torn`.  A partial `pread` is a
step of its own.  `ev[s]` is the length of the stream when it was last recorded;
waiting for it is waiting until that many copies are done.

`PackLoader` is `hd_weights_to_device_gguf`: every acquisition may fail, and each
resource is counted twice, how many exist (`owned`) and how many the pointers
that are not NULL stand for (`known`), because the code releases by pointer.
`WeightLoader` is `hd_weights_to_device`: the arena is sized walking the tensors
in name order and filled walking them in file order, with the code's rounding at
both places.  `Ingest` is the promise of `weights.h`: parts arrive one by one,
each once, each its own; the store is handed out complete; a failed load hands
out nothing.  Both loaders implement it (`ImplementsIngest`).

Simplification: `cudaFreeHost` and `cudaStreamDestroy` are taken not to disturb
copies still in flight; section 7 says where the code relies on it.

### ModelLoad (`src/runtime/engine.c`)

`load_weights` decides by the path which loader runs.  A pack is opened through
`GgufHeader` inside the first call of `PackLoader` (`ReadHeader`, `OpenPack`, then
`StreamPack`); a directory of shards is indexed, loaded by `WeightLoader` and its
index freed whatever came of it (`LoadIndex`, `StreamShards`, `FreeIndex`).  The loader that is
not called keeps its initial state.  This is what the run `model_load` checks: the
properties of the parts are stated about the composition.

### GgufHeader (`src/io/gguf.c`)

The header loop of `hd_gguf_open`: the buffer doubles when it is full, a dry
parse walks the entries, and a second parse fills the table.  An entry is how
many bytes its parser tests for, how many it steps over, and whether it tests
for those as well; the parser does not for values of a fixed size.  The second
parse (`RealParse`) may refuse what the first lets through, a tensor of a type it has no
size for (`"unsupported"`), or run out of memory; it then closes what was opened,
path included, which the errors of the loop do not (`OpenPack`).

### Denoise (`src/runtime/generate.c`, `src/model/scheduler.c`, `src/cuda/sched.cu`)

One request from its validation to the check of the final sample.  `Validate` is
the rule on steps of `hd_request_validate`; `Derived`, `Supported` and `Prepare`
are the derivation of the sigmas; `Forward` is one or two forward passes;
`UniPC`, `NoisyEuler` and `FlowMatch` are the three solvers with the buffers they
read and overwrite; `Advance` ends a step; `Decode` and `Reject` are the check.
`Trailing` is the place of the zero that every derivation appends; of the sigmas
before it nothing is assumed.  `Plan` is `hd_scheduler_unipc_plan`, `Rotated` the two copies that shift the
history.  A failure at any stage is `Refuse`: what a failure path frees is module
`Generation`.

The kernels are CONSTANT operators: the module fixes which buffers and sigmas
each is given, nothing about its arithmetic.  The exception is the rounding to
bf16, because of what it does to a NaN: `HighHalf` is its arithmetic on the two
halves of the bits.  `Samples`, `Converted` and `Corrected` are the sequences the
numerical method defines: `Method` computes them by their recurrence, as a text book
would, with unbounded memory and orders by position.  The loop has to compute them
in place with three scratch thirds, three slots and two flags.

Simplifications: the clamp of sigma against `T_EPS` is part of `Velocity`;
`PrepareFails` stands for every refusal before the loop; the range check of the
final sample is left open for numbers; a NaN a kernel makes has the canonical
bits 7fffffff.

### Generation (`src/runtime/engine.c`, `src/runtime/generate.c`)

A resident engine and one request after the other on it, with and without
reference images.  Every resource is one pointer of C and has its four values:
`"null"`, `"live"`, `"dangling"` (released, not cleared) and `"undefined"` (declared,
not initialised).  `Freed` is a release that leaves the pointer as it is, as
`dev_free` and `free` do (they skip NULL), `Cleared` one that sets it to NULL.
Buffers that are always acquired and released together are one resource, live
as soon as a part of it is.

| Code | Actions |
|---|---|
| `hd_generation_engine_open`, `_close` | `LoadWeights`, `Resolve`, `ApplyLora`, `ResolveVision`, `CloseRequested`, `Close` |
| `hd_generation_engine_generate` and the checks of both paths | `StartRequest`, `Accept`, `Refuse` |
| references, aliases, sequence (276-420) | `LoadReference(Fails)`, `BuildSequence(Fails)` |
| the vision tower, once per reference (437-633) | `AllocateTower`, `TowerFails`, `AllocateEmbeds`, `PrepareReference(Fails)`, `PrepareTower(Fails)`, `RunTower(Fails)`, `MakeMask`, `VisionFail` |
| tokens and sequences of the path without references (1071-1117) | `BuildDeck(Fails)` |
| workspace, plans, inputs, buffers of both paths | `AllocateWorkspace`, `WorkspaceFails`, `MakePlans`, `StageInputs`, `InputsFail`, `AllocateBuffers`, `UploadReferences`, `EmbedReferences` |
| noise, schedule, loop, decoding, check | `MakeNoise`, `PrepareLoop`, `DenoiseLoop`, `AllocateOutput`, `CheckOutput` |
| the end and the label `fail` of both paths | `Finish`, `Fail` |

A stage is one action, with a second one for its failures where these leave
different things behind.  `Return` is what the engine sees: the status, whether
there is an image, and what was still live when the locals went (`left`).  The
tower keeps its attention plan (`plan_n`) and its tables from one reference to
the next and remakes them only for another size or grid; `embeds` says which
reference each row of the tower's output is of.

Simplifications: host buffers that live and die inside one stage, the pixels of
previews, and the engine's own `calloc` are left out; allocations, files and
kernels are external and may fail at any time; the denoising loop is one step
here and module `Denoise` by itself.

### HttpRead (`src/server/o1_server.c`)

`read_http_request` and the frame of `client_main`.  What a peer may send is
abstracted to five numbers: where the first blank line of either form ends, what
`content_length` finds, whether the first line has a method and a path, and how
many bytes there are.  `Send` and `Shut` are the peer's; `RecvHead`, `Parse`,
`RecvBody`, `RecvDrain`, `RecvFails` and `Close` the thread's.  `HeaderEnd(n)` is what
`header_end` says about the first n bytes, so that the end of the head may be
found late, early, or by the other form.

### Request and JobRun (`src/server/o1_server.c`, `src/runtime/request.c`, `src/image/hd_image.c`)

`Request` holds the rules as operators on a record of fields: `JsonInt`, `Strtol` and
`ToInt` are the three ways a number is read; `EngineSizes` is the size the engine is
asked for (the bucket of the closest ratio); `DerivedMode`, `Steps`, `Scheduler` are the
defaults; `Verdict` is the status of the first rule that refuses, 0 where none does;
`Job` is what is queued.  `JobRun` takes one request after the other through
`handle_generations` or `handle_edits_multipart` (`Arrive`, `Refuse`, `Read`, `Upload`,
`UploadFails`), `job_submit` (`SubmitFails`, `Submit`), `job_run` (`Start`, `Generate`,
`Encode`, `Fail`, `Finish`) and its answer (`Deliver`, `Leave`).  `EngineServes` is which
jobs the engine has a path for; the others are admitted and fail.  An image is the seed it was made
with.  The queue, the peer that leaves and a second request at the same time are
`ImageServer`'s: the worker is one thread, so that `O1_VERBOSE_REF` is set for one job
at a time.  The widths of int, long and of a seed are constants.

### PromptPath (`src/runtime/ref_alias.c`, `src/model/tokenizer.c`, `src/runtime/sequence.c`)

One caption on its way to rows.  `Names` expands mentions and puts the template
around the caption; `EncodeMarker`, `BeginWord`, `Merge` and `EndWord` are the encoder,
one merge a step (`Best` is `bpe_apply_merge`'s choice); `Expand` and `Copy` replace
placeholders by the pads of the references; `AppendRows` adds the rows of the image
and the references; `PlaceText`, `PlaceBlock` give places; `Mask` is the count in
`generate.c`.  A caption may spell the names of added tokens: the expansion then
finds more starts than there are references and reads entries of `refs` nobody
set (they are zero, so that they give no pads), and the counts behind it refuse.

The table of merges is a constant.  `MergesAssumption` says what the generated
table (`tokenizer_tables.h`) is: each side of a merge is one byte or was made by a
better merge, and no two merges make the same token (there are 151,387 merges and
256 bytes for 151,643 tokens).  `Reference` is the encoding by definition: the merges
are made in the order of their ranks, each wherever its pair occurs from the left.
`Total` is a sum over the first references; the rows a reference has in the
template and behind the image (`CondAreas`, `GridAreas`) are added up with it.

### DownloadModel (`scripts/download_model.sh`)

A file is a sequence of blocks.  `Call` is a new run of the script, `CheckExisting`,
`Fresh`, `Resume`, `ResumeNothingLeft`, `ResumeRefused`, `Receive`, `Received`, `Move` and
`Verify` its steps.  `Break`, `Retry`, `Kill` and `Publish` are what goes wrong or changes:
the connection breaks, the client tries again by itself, the script is killed, the
server gets another file or loses the ability to continue one.

## 4. The runs

| Run | Instance | What it shows |
|---|---|---|
| `server_faults` | 2 connections, ring of 1, all kinds of request, every fault | memory, engine, replies and uploads under peers that stall and leave, failing calls, two signals |
| `server_queue` | 3 connections, ring of 2, generations | nothing lost, doubled or missed; the ring implements `JobService` |
| `server_live` | 2 connections, ring of 1, peers that leave | a stop ends the process, every request ends |
| `model_load` | packs of 9 windows with 4 slots behind all headers of a value and a tensor in files of 0 to 12 bytes (first buffer 2); all layouts of 4 tensors of 2 or 3 cells in one or two shards | both loaders: slots, regions, completeness, leaks, `Ingest`; the header is read whole and judged rightly; every load ends |
| `denoise_steps` | the code's own sizes: 64 sigmas, 28 Dev steps, up to 64 steps, every scheduler, both paths | the loop computes the method; orders; pace of the two indices |
| `generate_requests` | up to 3 references of 3 grids, 2 of them with as many tokens; an engine closed after at most 2 successes | nothing released twice, nothing left by a success, the tower and the loop are given what they need |
| `http_read` | streams of at most 9 bytes, a head of at most 4 and a body of at most 2, pieces of every size | the request is the one that was sent, refusals have causes, a drain takes all, the thread ends |
| `job_run` | int of 8, long of 12, seeds of 3 bits, the server's limits on n, side and steps, 2 uploads | what is admitted fits and is what was asked for; bodies, environment and files |
| `prompt_path` | all words of up to 4 letters of 3, 12 texts with names, blanks and spelt markers, up to 2 references of 3 grids | tokens, expansion, mask and places |
| `download` | a model of 3 blocks, four files, four leftover parts, 3 faults | ready means verified, a model is not lost, a repeated call comes to an end |
| `pack_released_twice` | 2 windows, 2 slots | violated: nothing is released twice |
| `generate_ok_image` | at most 1 reference | violated: a request that reports success has an image |

Why the bounds are enough.  *Server:* two connections and a ring of one give a
full ring, a refusal, a job waiting behind a running one and every crossing of
a stop with each; three connections and a ring of two make the indices wrap and
leave two jobs to be ordered.  *Loaders:* nine windows go round four slots twice
and stop in the middle; a slot is reused with one, two and three copies
outstanding.  Four tensors go round two slots twice; sizes of two and three cells
with an alignment of two make every combination of rounded and unrounded ends.
*Header:* every split of an entry over two or more buffers occurs.  *Denoise:*
nothing is scaled down; samples are residues modulo 10007 and every kernel is a
different polynomial, so that a wrong buffer, sigma or order ends in a different
residue; the theorem holds whatever the kernels are.  *Generation:* three
references make the tower keep, then remake its plan and its tables, each
without the other (two of the grids differ and have as many patches); a second
success runs on the engine as the first left it, and failed requests may come
before, between and after in any number.
*HTTP:* every limit is met one below, exactly and one above, and every stream is
cut in every way; the theorems hold for any sizes.  *Jobs:* a rule reads few
fields, so the requests vary one group of fields at a time, with numbers around
zero, the limits and the ends of int and long; images, mode, boxes and names, which
the rules relate, vary together.  The widths are small so that the ends are met.
*Prompt:* overlapping pairs, a pair that needs others first and a pair behind a
blank are in the table of merges; captions spell one to three markers in several
orders.  `FixPoint` is 20, above the longest text of the instance, as 4096 is meant
to be.  *Download:* three faults suffice for a kill, a break in the next run and a
change of the file; parts of the model, of another file and of more than the
model lie around at the start.

## 5. Fairness

`ImageServer` assumes weak fairness of main, of the worker and of each
connection thread, and nothing of peers and signals.  The code earns it with
timeouts: main polls for 200 ms, a waiting handler wakes up after 100 ms, `recv`
and `send` give up after 10 s and `send_all` after 2 s without progress; a
generation is a finite loop over at most 64 steps.  Hence also `ReadFails` is a
step of the thread and not of the peer.  The loaders assume that `pread` returns
and that the copy engine works on its stream; the header loop that `fread`
returns.  Nothing obliges the owner of a store to free it.

`HttpRead` assumes weak fairness of the thread alone: a `recv` returns with bytes or
after its timeout, and the peer may do nothing for ever.  `ModelLoad` assumes it of
the host and of the copy engine.  `DownloadModel` assumes that the script's
steps are taken and that a user whose run fails calls it again; faults are
bounded by `MaxFaults`, and the property asks for the model only if the server
comes to keep it.

The safety properties use no fairness.  `denoise_steps` and `prompt_path` switch the
deadlock check off: a request that has become an image or a sequence, or was
refused, has no further step.  No property of `Generation`, `JobRun` or `PromptPath`
needs fairness.  The
other specifications stutter explicitly (`Ended`) once the process or the load
is over, so that the deadlock check stays on for every earlier state.

## 6. What is proved

TLAPS checks, for every value of the constants:

* **ImageServer_proofs**, for any set of connections, any ring of at least one
  slot, any faults: `TypeOK`, `WorkerReachesNothingFreed` (`JobsOutliveWorker`
  and `EngineCoversUse`), `QueueKeepsJobs` (`NoJobLost` and `RingDistinct`),
  `NoMissedWakeup`, `ReplyFitsJob`, `NothingLeftBehind` and the action property
  `OutcomeIsFrozen`.  `IInv` says what main, a connection
  and the worker have reached at each place of their program (`MainPlace`,
  `ConnPlace`, `WorkerPlace`), what a status on its way says (`ReplyPlace`), and,
  the heart of it, that the jobs the ring and the worker hold are *exactly*
  those some thread waits for, each once (`QueuePlace`).  Neither `NoJobLost` nor
  `JobsOutliveWorker` is inductive alone: one is each half of that equality.
  The proof has lemmas for what `Enqueue` and `Dequeue` do to the set of queued
  jobs under the modular indices.  Assumptions: `CapAssumption`,
  `ConnAssumption`, and what the configuration may contain.
  The same module proves `ServerImplementsService`, that the server implements
  `JobService`.  Lemmas say
  that enqueue appends to the ring read from its head and dequeue takes its first,
  whatever the indices wrap; that the fate of a job changes at an enqueue, a 429
  and a publication only; and that each of these, and `queue_stop`, is the step of
  the service with that name.
* **ModelLoad_proofs**, about a load as a whole and its two smaller parts.
  *The pack loader*, for any number of windows and of slots: `TypeOK`,
  `SlotIntact`, `ReadyIsComplete`, `NothingLeaks`, and that it implements
  `Ingest` (`LoaderKeepsPromise`).  `SlotIntact` needs to know that the slots are
  used in turn and that the event of a slot is the one behind its last copy
  (`InTurn`), hence that no copy is outstanding for longer than one round
  (`SlotsFree`); completeness needs that done copies are exactly the windows up
  to `arrived` (`ArenaPlace`); the refinement then maps each transfer to the
  arrival of a part, success to the hand-over and every other step to a stutter.
  *The header*, for any entries, any length of the file and any first buffer:
  `HeaderIsRead`.  `HeaderInv` says how the buffer relates to the file; the lemmas
  say that the positions of the entries exist and grow (`PlacesExist`,
  `PlacesFollow`), that a parse that comes up short has stopped inside the header, and
  that the buffer is therefore never more than twice as long as the header.
  *The whole*: every behaviour of `load_weights` is one of each loader
  (`PackRuns`, `ShardsRun`: a step of the load is a step of the loader that was
  called or a stutter), so that what the loaders keep alone they keep inside it:
  `NothingLeaks`, `ShardsStayIntact`, `ShardsAreInPlace`, `ShardsImplementIngest`.
* **WeightLoader_proofs**, for any number of tensors, any sizes, any alignment and any
  order of the tensors in the files: `TypeOK`, `SlotIntact`, `RegionsFit`,
  `ReadyIsComplete`, and that the loader implements `Ingest`.  The arena is sized in
  the order of names and filled in the order of the files.  `IsSum` is the sum of the
  rounded sizes of a set of tensors; the plan is that sum over all of them (`PlanIsSum`), the
  running offset that sum over the tensors placed, and a part is never more than the
  whole (`AllIsMost`).  `OrderIsPermutation` is that the walk over the files meets each
  tensor once.  The theorems have one hypothesis, `Given`: an index has a size for
  every name and lays its tensors out in files.  `ModelLoad` assumes it of the indices it is
  given, and TLC evaluates it there.
* **Denoise_proofs**, for any number of steps, any length of the schedule and
  whatever the kernels compute: `TypeOK`, `SampleFollowsMethod`,
  `StepsFitSchedule` (`SecondOrderFits` and `SchedulerKeepsPace`).  These are about
  positions, whatever the sigmas are: a second-order formula has its history and stops
  short of the trailing zero.  `IInv` relates the flags to the
  number of steps made (`HistoryPlace`) and the buffers to the sequences of the
  method at that number (`BufferPlace`).  `MethodFollows` is that the recursive
  function `Method` satisfies the recurrence it is written by: the function exists
  (`MakingExists`, by induction over the steps) and a later step keeps what an earlier one
  made (`MakingKeeps`).  Values of samples stay untyped: nothing is assumed of the
  kernels.  `NanBecomesZero` is the conversion behind the open check that
  section 7 describes.

* **Generation_proofs**, for any grids, any limit on references and any number
  of requests: `TypeOK`, `FreedOnce`, `NothingStays`, `TowerFits`,
  `LoopHasItsInputs`.  None of them is inductive: what the end of a request leaves
  depends on where each resource may be live at all.  `IInv` says so in four parts: where a request is
  (`RequestPlace`), what no pointer is there (`PointerPlace`: only the pixels and
  the noise of a step may dangle, only `xe_ref_dev` may be undefined), where the
  resources no label releases may be live (`StageLive`), and what only one of the
  paths has (`PathLive`); `TowerPlace` adds the room in the tower's workspace.
  For what the loop is given, `InputsLive` says from which stage on each buffer is
  there, and `RowsFilled` that the references done have filled their rows, one behind
  the other; that the ends of the rows exist and grow is an induction over the
  references (`EndsExist`, `RowsFollow`, `RowsGrow`).
  The proof splits the steps four ways (engine, start, end, in between) and
  needs per resource which steps acquire it (`CommonGains`, `EarlyGains`).
  Assumptions: `GridAssumption` and `BoundAssumption`.

* **HttpRead_proofs**, for any limits, any sizes of the receive buffers, any
  request and any way of cutting it: `TypeOK`, `RequestIsWhatWasSent`,
  `RefusedForCause`, `DrainTakesAll`.  `HeadPlace` says where the head may have
  ended at each place of the thread, `BodyPlace` how much of the body is in the
  buffer or drained; the framing then follows from what `header_end` says
  about a prefix.
* **JobRun_proofs**, for any set of requests and any widths and limits:
  `TypeOK`, `AdmittedFits`, `AdmittedAsAsked`, `BodyIsWhole`, `EnvIsOwn`,
  `FilesFollowJob`.  `IInv` keeps that images are only made for jobs the engine has a
  path for (`ImagesAreServed`), that uploads are taken in order, which endpoint a
  request is of, and that the saved value is the shell's while a job runs; the admission is a lemma about
  `Verdict` alone, a case for each rule.  That a client gets what it asked for rests
  on three facts: a number within the limits is the same after each of the
  conversions (`SmallNumbersStay`), the ratios of the buckets differ, so that a bucket
  snaps to itself (`BucketsStay`), and for a size that is not square some bucket of
  its own orientation, or the square, is closer than any turned one (`NeverTurned`).  `WidthsAssumption` says that a long holds
  every int, that an int holds the limits and that its two halves are equally large.
* **PromptPath_proofs**, for any captions, any table of merges as assumed, any number
  of references and any grids that are not empty: `TypeOK`, `EncodingIsExact`,
  `ExpansionFits`, `RowsAreWhole`, `PlacesDistinct`.
  *Tokens:* `Encoding` says that a word being merged still has the tokens of the
  definition (`Reference`) that its single symbols have, and that nothing of the text
  is lost.  A step keeps it because the pair `Best` takes is the first that the definition
  would take as well (`LeftmostFirst`): no pair of a better rank is there, and a pair
  that the new token makes is of a worse one (`NewPairsAreWorse`), since each side of a
  merge was made before it; here the assumption on the table is needed.  When no
  pair is left the definition changes nothing either (`NothingToMerge`).
  *Sizes:* `Sizes` counts the rows against the tokens copied and the references put in,
  and the markers against those the caption spells (`MarkersAreSpelt`).
  *Rows:* that the first placeholders of the tokens are the template's own needs three
  steps back: the text begins with them (`TextIs`), so do the tokens (`IdsAre`), so that
  reference k fills the rows behind reference k - 1 (`RowsAre`).  The markers found in
  the rows are then exactly those of the blocks (`StartOfIs`): they stand at 2K + 1
  different places, and the code has counted that there are no more.  *Places:* `Placing`
  says that the blocks done have placed the rows before `start` once each, every block at
  a time of its own, and each behind all earlier ones but the image's, which begins
  at `FixPoint`; that is where `TextEndsBefore` is needed.  What the mask marks is at
  least the rows of the references, and the code has counted that it is no more
  (`MarkedIs`).  A grid's row determines its place by a division with rest (`Division`).
  Assumptions: `MergesAssumption`, `CaptionsAssumption`, `GridsAssumption`.
* The last part of **ModelLoad_proofs** is about `DownloadModel`, for any files,
  leftovers and number of faults: `ReadyIsVerified` and the action property
  `ModelSurvives`, whose invariant says that only a run with `--force` is behind the check
  while the model is there.

Induction over data appears in five of these modules.  It is that of a set of
naturals: a set that holds 0 and the successor of each of its members holds all of
them (`Induction`), which follows from the library's theorem that the order of the
naturals is well-founded.  A recursive function is unfolded by showing first, by that
induction, that a function with its recurrence exists (`RecursionExists`, `EndsExist`).

Only model-checked:

* liveness (`StopEndsProcess`, `RequestsEnd`, `EveryLoadEnds`, `ReadEnds`,
  `DownloadCompletes`), which needs `ENABLED`.

## 7. Where code and documents disagree

Two disagreements have a run each (see `findings` in `PROJECT.json`): a failure
after `BindPointers` releases slots and events a second time; and a request
whose vision stage runs out of memory returns `HD_OK` without an image, because
the label `vision_fail` returns `st`, which not every way to it has set.

Seen while modelling, without a run of their own:

* A GGUF file that ends inside its header is re-read for ever: `gguf.c:270` says
  "grow and retry", but without more bytes the buffer is not full and never grows.
  The model has the loop; `EveryLoadEnds` excepts such files.
* A request of one step computes 0/0 for the noise scale
  (`generate.c:1420`); `hd_dev_f32_to_bf16` rounds the bits 7fffffff of that NaN to
  8000, minus zero, so that the check "NaN/Inf/range check on raw output (fails
  closed)" (`generate.c:1474`) passes.  `README.md:421` recommends `--steps 1` as a smoke
  test and expects gray.  `NanBecomesZero` is the conversion.
* An explicit name `ref2` on image 1 hides the automatic name of image 2
  (`ref_alias.c:142`), while `docs/REFIMAGES.md:136` says that the automatic aliases must
  always exist, and `README.md:354` that `@ref1`, `@ref2` "always work".
* A count `n` of 0 or below in JSON becomes 1 and is not refused, `README.md:587`
  says 1-4.  `o1_steps` of 0 or below becomes the default, and in a form the
  number is narrowed to int before it is judged (`o1_server.c:1978`), so that one
  far out of range may be admitted as another; `README.md:598` says 1-64.
  `AdmittedAsAsked` is about the numbers in range.
* A generation with `flow_match` is admitted (`README.md:600` lists it as a choice), and
  so is mode `t2i` with uploads.  The engine refuses the first
  (`generate.c:1048`), as a 500; for the second it takes the reference path, which never
  looks at the mode.  `AdmittedFits` is what `job_submit` does check; `BodyIsWhole` says
  that a job the engine has no path for yields no image.
* A shift of 0 is accepted (`o1_server.c:1709`; `request.c:56` and `:61` replace only
  negative ones).  Every sigma of the default schedule is then zero, so that
  `hd_unipc_lambda` (`scheduler.c:216`) takes the logarithm of zero in the middle of
  it, and the first sigma of a derived flash schedule is 0/0 (`scheduler.c:140`).
  `StepsFitSchedule` is about positions: that no logarithm of zero is taken follows
  from it for positive shifts only.
* `default`/`unipc` on the Dev profile becomes `flash` or `flow_match` without a word
  (`README.md:600` lists it as a choice).
* Without `o1_seed` the images of a job have consecutive seeds from one random
  base; the server document (line 926) asks for independent seeds.
* A request that is refused with 400 or 413 while it is read keeps the copies of
  its header values (`o1_server.c:990` returns without `http_request_free`): `held`
  in `HttpRead`.
* A head with bare LF line ends is found or not found depending on how it is cut,
  for `header_end` looks for CRLF CRLF in the whole buffer first; the framing
  property is about streams where the two forms agree (`Regular`).
* Before a 413 the announced rest is drained until the peer closes or stalls for
  10 s; a peer that sends less than it announced waits for that long.
* The comment at `o1_server.c:1736` says that `O1_VERBOSE_REF` gates the expansion of
  aliases; `generate.c:386` gates only the logging.
* The multipart scanner (`o1_server.c:1412`) takes for granted that CRLF ends a
  delimiter's line, and takes a line of the data that begins with the boundary for
  one.
* A caption that spells `<|vision_start|><|image_pad|>` is expanded with entries of
  `refs` nobody set (`sequence.c:233`), and with more than 20 of them reads behind
  the array; more than 41 starts leave `vs_pos` (`sequence.c:302`).  The counts that refuse
  come after.  `ExpansionFits` says that nothing less overruns.
* The places of the text are not compared with the fixed point of the image (4096);
  `PlacesDistinct` assumes that the text is shorter.
* `download_model.sh`: every failure of a resumed transfer, a broken network
  included, deletes the part, while the message says "server cannot resume";
  `--force` loses a good file when the new one does not match (`ModelSurvives`
  excepts it); wget with a server that cannot continue fails at a leftover part for
  ever (`DownloadCompletes` excepts it); between the move and the comparison an
  unverified file has the final name.
* `README.md` of the repository holds merge-conflict markers (352, 353, 769).
* `g_error` (`src/model/model.c:11`) is one text for the process.
  `o1_server.c:1722` and `:1761` copy it after the call that failed, so a job may
  be answered with another job's text; the server document (section 32.4, line
  1755) asks for "no request state crossover".  The model has the two steps.
* `README.md:568` says the server "drains the in-flight request", the server
  document (line 38) asks for a "graceful draining on shutdown".  The drained job
  is finished, but `send_all` (`o1_server.c:482`) gives up as soon as the stop flag
  is set, so that its client gets no answer.  The model has it: `SendFails` is
  enabled by the stop.
* The server document (line 1562) orders "wait client threads" before the engine
  closes.  `main` joins the worker alone; detached connection threads may outlive
  the engine (`o1_server.c:2413`) and read the profile while it is released
  (`:2416`).  `EngineCoversUse` says what does hold: none of them uses the engine.
* `xe_ref_dev` is declared in the middle of the reference path
  (`generate.c:792`); a `goto fail` from before it (760-783) releases it without
  a value (1021).  `FreedOnce` excepts it by name.
* The reference path never destroys `ws.sdpa` (`generate.c:719`; 1000-1014,
  1018-1031), although `fixtures/M3_GB10_PRODUCTION_LOADER_MEMORY.md:1387` asks for
  "no persistent memory growth across repeated generations".  `NothingStays`
  names the plan as what stays.
* Failed requests leave more: the originals and patches when a reference does
  not load or the sequence fails, the tower's buffers when workspace or inputs
  fail after it, plans when the inputs fail, the first sequence when the second
  one's ids fail (1090-1096), one of two buffers at 532-536, 770-778 and 809-826.
  All are steps of the model; no document says otherwise.
* Without guidance `seq_S[1]` is never set and still gives the size of a buffer
  nobody reads (`generate.c:1074`, `:1119`, `:1241`): the allocation may fail, and
  with it the request.  `AllocateBuffers` may fail for any reason.
* `hd_gguf_open` leaks `out->path` on its early returns (`src/io/gguf.c:215-239`) and
  on the errors of the header loop (247-275); a second parse that fails closes it
  (281).  `NothingLeaks` of `PackLoader` excepts it by name.
* The label `fail` of `hd_weights_to_device` (`src/model/weights.c:507-512`)
  releases neither the pinned slots, the events, the open shards nor the order
  table.  `WeightLoader` models it so; no property claims the opposite.
* The same loader frees its staging (476-478) before it waits for the stream
  (480).  Whether the copies survive that is the runtime's promise, not the code's.
* `dev_ptr` is recorded before the offset is aligned (453-454): after a tensor of
  odd size the next pointer is not aligned, although
  `fixtures/M3_GB10_PRODUCTION_LOADER_MEMORY.md:429` asks to validate it.
* The CPU reference of UniPC sets `rks[0] = 1.0` (`scheduler.c:358`, `:401`); the
  plan for the GPU path computes the ratio.  The tests' reference and the loop
  thus use different coefficients in second order.
* The loops compute the noise scale themselves (`generate.c:1420-1422`, `:908-910`)
  and not with `hd_scheduler_noise_scale`, which treats a single step.
* `request.c:84` and `README.md:598` admit 64 steps; the schedule holds 64 sigmas,
  so that 64 steps are refused later, as an unsupported schedule.
* The reference path runs noisy Euler steps on the default scheduler's schedule
  where the path without references runs UniPC.

## 8. What is not modelled

* The arithmetic of kernels, forward pass, codecs, LoRA merging and the random
  stream: floating point compared with captured oracles by the unit tests, with
  no control that TLC could explore.
* Generated and vendored code.  `src/model/tokenizer_tables.h` alone is 376,476 of
  the 397,656 lines of the implementation: one table, which `PromptPath` abstracts to
  any table of merges.  A map of definitions to lines covers a small share of the
  whole for that reason.
* The byte-level parsers of JSON and of multipart forms, and the splitting of text
  by character classes: `Request` and `PromptPath` begin at what they return.
* The refiner's HTTP client (`src/runtime/refiner.c`): one blocking exchange with an
  external service, without timeouts and without effect on the state of a job but
  the prompt.
* Timing, logging, and the command line beyond the request it builds.
* Two downloads at once; the table of descriptors; bytes a peer sends behind its
  request (section 2 plans the first two).
