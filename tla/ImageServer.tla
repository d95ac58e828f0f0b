---------------------------- MODULE ImageServer ----------------------------
(***************************************************************************)
(* The concurrent core of hidream-server (src/server/o1_server.c): one     *)
(* detached thread per connection, a bounded ring of pending jobs, a       *)
(* single worker that owns the resident generation engine, and the main    *)
(* thread that loads the engine, accepts connections and shuts down.       *)
(*                                                                         *)
(* A connection stands for its thread, its socket, its one request         *)
(* ("Connection: close") and its server_job.  The contents of requests,    *)
(* images and replies are abstracted to what the properties tell apart:    *)
(* whose error text a reply carries, which status it has, how much of it   *)
(* left the server.                                                        *)
(***************************************************************************)
EXTENDS Integers, FiniteSets

CONSTANTS
  Conn,      \* the connections of one run of the process
  Cap,       \* --queue-depth: g_queue_cap, at least 1 (main clamps it)
  Kinds,     \* the requests that arrive: a subset of RequestKinds
  Faults,    \* what the environment may do besides connecting: a subset of AllFaults
  NoConn     \* "no connection" (a NULL server_job pointer, no error text)

RequestKinds == {"probe", "generation", "edit"}

\* A peer stops reading; a peer closes or half-closes its end; a second
\* SIGINT/SIGTERM comes; poll fails; accept fails; pthread_create fails.
AllFaults == {"stall", "leave", "second_signal", "poll_error", "accept_error", "no_thread"}

ASSUME CapAssumption  == Cap \in Nat \ {0}
ASSUME ConnAssumption == NoConn \notin Conn
ASSUME KindAssumption == Kinds \subseteq RequestKinds
ASSUME FaultAssumption == Faults \subseteq AllFaults

VARIABLES
  stop,       \* g_stop_requested
  listening,  \* the listening socket is open
  main,       \* program counter of the main thread
  engine,     \* the resident engine: "absent", "open" or "closed"
  slots,      \* g_queue: the ring, 0 .. Cap-1; a slot left behind keeps its pointer
  head,       \* g_queue_head
  len,        \* g_queue_len
  stopping,   \* g_queue_stopping
  worker,     \* program counter of the worker thread
  current,    \* the job worker_main holds, j of its loop body
  pc,         \* program counter of each connection's thread
  peer,       \* the other end of each socket: "up", "stalled" (reads no more) or "gone"
  heap,       \* the life of each connection's server_job: "none", "live", "freed"
  temps,      \* its uploads are files on disk
  status,     \* j->status
  err,        \* whose failure j->error_msg describes
  body,       \* j->body is there
  done,       \* j->done
  cancelled,  \* j->cancelled
  code,       \* the HTTP status being sent on each connection, 0 before there is one
  sent,       \* how much of the reply left the server: "nothing", "head" or "full"
  lastError   \* whose failure the process-wide g_error text describes

mainVars   == <<stop, listening, main, engine>>
queueVars  == <<slots, head, len, stopping>>
workerVars == <<worker, current>>
ownVars    == <<heap, temps>>
resultVars == <<status, err, body>>
flagVars   == <<done, cancelled>>
jobVars    == <<ownVars, resultVars, flagVars>>
connVars   == <<pc, peer, jobVars, code, sent>>
vars == <<mainVars, queueVars, workerVars, connVars, lastError>>

MainPC   == {"load", "listen", "spawn", "poll", "accept", "shutdown",
             "stop_queue", "join", "close_engine", "free_profile", "return",
             "exited", "killed"}
WorkerPC == {"absent", "dequeue", "asleep", "run", "engine_failed", "publish",
             "returned"}
ConnPC   == {"absent", "backlog", "read", "store", "submit", "invalid",
             "enqueue", "wait", "head", "body", "free", "closed"}

\* The classes of reply told apart; 400 stands for every client error but 429.
Status   == {200, 400, 429, 500}

\* A connection, or none.
Owner == Conn \cup {NoConn}

\* The ring position of the i-th waiting job, counted from 0.
Pos(i) == (head + i) % Cap

Queued == {slots[Pos(i)] : i \in 0 .. len - 1}

\* The job the worker is working on.
Busy == {current} \ {NoConn}

\* The process still exists: main has not returned and nothing called _exit.
Running == main \notin {"exited", "killed"}

\* A thread of the process is at the given place.
At(c, label) == Running /\ pc[c] = label

WorkerAt(label) == Running /\ worker = label

TypeOK ==
  /\ stop \in BOOLEAN /\ listening \in BOOLEAN /\ stopping \in BOOLEAN
  /\ main \in MainPC /\ engine \in {"absent", "open", "closed"}
  /\ slots \in [0 .. Cap - 1 -> Owner]
  /\ head \in 0 .. Cap - 1 /\ len \in 0 .. Cap
  /\ worker \in WorkerPC /\ current \in Owner
  /\ pc \in [Conn -> ConnPC]
  /\ peer \in [Conn -> {"up", "stalled", "gone"}]
  /\ heap \in [Conn -> {"none", "live", "freed"}] /\ temps \in [Conn -> BOOLEAN]
  /\ status \in [Conn -> {200, 400, 500}] /\ err \in [Conn -> Owner]
  /\ body \in [Conn -> BOOLEAN]
  /\ done \in [Conn -> BOOLEAN] /\ cancelled \in [Conn -> BOOLEAN]
  /\ code \in [Conn -> Status \cup {0}]
  /\ sent \in [Conn -> {"nothing", "head", "full"}]
  /\ lastError \in Owner

Init ==
  /\ stop = FALSE /\ listening = FALSE /\ main = "load" /\ engine = "absent"
  /\ slots = [i \in 0 .. Cap - 1 |-> NoConn]
  /\ head = 0 /\ len = 0 /\ stopping = FALSE
  /\ worker = "absent" /\ current = NoConn
  /\ pc = [c \in Conn |-> "absent"]
  /\ peer = [c \in Conn |-> "up"]
  /\ heap = [c \in Conn |-> "none"] /\ temps = [c \in Conn |-> FALSE]
  /\ status = [c \in Conn |-> 200] /\ err = [c \in Conn |-> NoConn]
  /\ body = [c \in Conn |-> FALSE]
  /\ done = [c \in Conn |-> FALSE] /\ cancelled = [c \in Conn |-> FALSE]
  /\ code = [c \in Conn |-> 0]
  /\ sent = [c \in Conn |-> "nothing"]
  /\ lastError = NoConn

-----------------------------------------------------------------------------
(* The environment: peers and signals. *)

\* A TCP connect completes in the kernel's backlog while the socket listens.
Connect(c) ==
  /\ listening /\ At(c, "absent")
  /\ pc' = [pc EXCEPT ![c] = "backlog"]
  /\ UNCHANGED <<mainVars, queueVars, workerVars, peer, jobVars, code, sent, lastError>>

\* A peer stops reading, or closes (or half-closes) its end, at any moment.
PeerChange(c) ==
  /\ Running /\ pc[c] \notin {"absent", "closed"}
  /\ \/ "stall" \in Faults /\ peer[c] = "up" /\ peer' = [peer EXCEPT ![c] = "stalled"]
     \/ "leave" \in Faults /\ peer[c] # "gone" /\ peer' = [peer EXCEPT ![c] = "gone"]
  /\ UNCHANGED <<mainVars, queueVars, workerVars, pc, jobVars, code, sent, lastError>>

\* Closing the listening socket resets the connections nobody accepted.
ResetBacklog == [c \in Conn |-> IF pc[c] = "backlog" THEN "closed" ELSE pc[c]]

\* The first SIGINT/SIGTERM: stop_signal_handler sets the flag and closes the
\* listening socket, if main has published one.
FirstSignal ==
  /\ Running /\ ~stop
  /\ stop' = TRUE
  /\ listening' = FALSE
  /\ pc' = ResetBacklog
  /\ UNCHANGED <<main, engine, queueVars, workerVars, peer, jobVars, code, sent, lastError>>

\* The second one: _exit(130), whatever the threads are doing.
SecondSignal ==
  /\ "second_signal" \in Faults /\ Running /\ stop
  /\ main' = "killed"
  /\ UNCHANGED <<stop, listening, engine, queueVars, workerVars, connVars, lastError>>

-----------------------------------------------------------------------------
(* The main thread. *)

\* hd_generation_engine_open, before there is a socket; a failure ends main.
LoadEngine ==
  /\ main = "load"
  /\ \/ engine' = "open" /\ main' = "listen"
     \/ engine' = engine /\ main' = "exited"
  /\ UNCHANGED <<stop, listening, queueVars, workerVars, connVars, lastError>>

\* listen_on and the store to g_listen_fd; a failure closes the engine and ends main.
Listen ==
  /\ main = "listen"
  /\ \/ listening' = TRUE /\ engine' = engine /\ main' = "spawn"
     \/ listening' = FALSE /\ engine' = "closed" /\ main' = "exited"
  /\ UNCHANGED <<stop, queueVars, workerVars, connVars, lastError>>

\* pthread_create of the worker; a failure closes the socket and the engine.
SpawnWorker ==
  /\ main = "spawn"
  /\ \/ /\ main' = "poll" /\ worker' = "dequeue"
        /\ UNCHANGED <<listening, engine, pc>>
     \/ /\ "no_thread" \in Faults
        /\ main' = "exited" /\ listening' = FALSE /\ engine' = "closed"
        /\ pc' = ResetBacklog
        /\ UNCHANGED worker
  /\ UNCHANGED <<stop, queueVars, current, peer, jobVars, code, sent, lastError>>

\* The loop head finds the stop flag set.
LeaveLoop ==
  /\ main = "poll" /\ stop
  /\ main' = "shutdown"
  /\ UNCHANGED <<stop, listening, engine, queueVars, workerVars, connVars, lastError>>

\* poll itself fails for another reason than a signal: the loop ends unasked.
PollError ==
  /\ "poll_error" \in Faults /\ main = "poll" /\ ~stop
  /\ main' = "shutdown"
  /\ UNCHANGED <<stop, listening, engine, queueVars, workerVars, connVars, lastError>>

\* A connection is pending, and the second check of the flag finds it clear.
Poll ==
  /\ main = "poll" /\ ~stop
  /\ \E c \in Conn : pc[c] = "backlog"
  /\ main' = "accept"
  /\ UNCHANGED <<stop, listening, engine, queueVars, workerVars, connVars, lastError>>

\* accept and the creation of the connection's thread.  When no thread can be
\* created the socket is closed unanswered.
Accept(c) ==
  /\ main = "accept" /\ listening /\ At(c, "backlog")
  /\ \/ pc' = [pc EXCEPT ![c] = "read"]
     \/ "no_thread" \in Faults /\ pc' = [pc EXCEPT ![c] = "closed"]
  /\ main' = "poll"
  /\ UNCHANGED <<stop, listening, engine, queueVars, workerVars, peer, jobVars, code, sent, lastError>>

\* accept on the descriptor the handler closed: EBADF leaves the loop.  Any
\* other failure (no descriptor left, an aborted connection) goes back to poll.
AcceptFails ==
  /\ main = "accept"
  /\ \/ ~listening /\ main' = "shutdown"
     \/ "accept_error" \in Faults /\ main' = "poll"
  /\ UNCHANGED <<stop, listening, engine, queueVars, workerVars, connVars, lastError>>

\* After the loop: close the listening socket if the handler has not.
CloseListener ==
  /\ main = "shutdown"
  /\ listening' = FALSE /\ pc' = ResetBacklog
  /\ main' = "stop_queue"
  /\ UNCHANGED <<stop, engine, queueVars, workerVars, peer, jobVars, code, sent, lastError>>

\* A broadcast, or a signal, on g_queue_cv: the waiting worker wakes up.
Wake == worker' = IF worker = "asleep" THEN "dequeue" ELSE worker

\* Mutant: queue_stop sets the flag without the broadcast.
QueueStopSilent ==
  /\ main = "stop_queue"
  /\ stopping' = TRUE
  /\ main' = "join"
  /\ UNCHANGED <<stop, listening, engine, slots, head, len, workerVars, connVars, lastError>>

\* queue_stop, under g_queue_mu.
QueueStop ==
  /\ main = "stop_queue"
  /\ stopping' = TRUE
  /\ Wake
  /\ main' = "join"
  /\ UNCHANGED <<stop, listening, engine, slots, head, len, current, connVars, lastError>>

\* pthread_join(worker).
JoinWorker ==
  /\ main = "join" /\ worker = "returned"
  /\ main' = "close_engine"
  /\ UNCHANGED <<stop, listening, engine, queueVars, workerVars, connVars, lastError>>

\* hd_generation_engine_close; g_engine is NULL from here on.
CloseEngine ==
  /\ main = "close_engine"
  /\ engine' = "closed"
  /\ main' = "free_profile"
  /\ UNCHANGED <<stop, listening, queueVars, workerVars, connVars, lastError>>

\* free(g_queue) and hd_profile_free: g_cfg.profile dangles from here on.
FreeProfile ==
  /\ main = "free_profile"
  /\ main' = "return"
  /\ UNCHANGED <<stop, listening, engine, queueVars, workerVars, connVars, lastError>>

\* main returns: the process ends with every thread that is left.
Return ==
  /\ main = "return"
  /\ main' = "exited"
  /\ UNCHANGED <<stop, listening, engine, queueVars, workerVars, connVars, lastError>>

-----------------------------------------------------------------------------
(* The worker thread: worker_main, dequeue and job_run. *)

\* dequeue finds the ring empty and sleeps on g_queue_cv, giving up g_queue_mu.
Sleep ==
  /\ WorkerAt("dequeue") /\ len = 0 /\ ~stopping
  /\ worker' = "asleep"
  /\ UNCHANGED <<mainVars, queueVars, current, connVars, lastError>>

\* cond_wait may return without a signal; dequeue tests its condition again.
SpuriousWakeup ==
  /\ WorkerAt("asleep")
  /\ worker' = "dequeue"
  /\ UNCHANGED <<mainVars, queueVars, current, connVars, lastError>>

\* Mutant: the newest job is taken first.
DequeueNewest ==
  /\ WorkerAt("dequeue") /\ len > 0
  /\ current' = slots[Pos(len - 1)]
  /\ len' = len - 1
  /\ worker' = "run"
  /\ UNCHANGED <<mainVars, slots, head, stopping, connVars, lastError>>

\* dequeue finds a job; it hands jobs out even when the queue is stopping.
Dequeue ==
  /\ WorkerAt("dequeue") /\ len > 0
  /\ current' = slots[head]
  /\ head' = (head + 1) % Cap
  /\ len' = len - 1
  /\ worker' = "run"
  /\ UNCHANGED <<mainVars, slots, stopping, connVars, lastError>>

\* Mutant: dequeue gives up as soon as the queue is stopping.
WorkerReturnsAtOnce ==
  /\ WorkerAt("dequeue") /\ stopping
  /\ worker' = "returned"
  /\ UNCHANGED <<mainVars, queueVars, current, connVars, lastError>>

\* dequeue returns NULL and worker_main ends.
WorkerReturns ==
  /\ WorkerAt("dequeue") /\ len = 0 /\ stopping
  /\ worker' = "returned"
  /\ UNCHANGED <<mainVars, queueVars, current, connVars, lastError>>

\* Every image of the job is generated and encoded: the body is complete.
RunSucceeds ==
  /\ WorkerAt("run")
  /\ body' = [body EXCEPT ![current] = TRUE]
  /\ status' = [status EXCEPT ![current] = 200]
  /\ worker' = "publish"
  /\ UNCHANGED <<mainVars, queueVars, current, pc, peer, ownVars, err, flagVars, code, sent, lastError>>

\* An image cannot be encoded: a fixed message, whatever was made is dropped.
EncodeFails ==
  /\ WorkerAt("run")
  /\ status' = [status EXCEPT ![current] = 500]
  /\ err' = [err EXCEPT ![current] = current]
  /\ worker' = "publish"
  /\ UNCHANGED <<mainVars, queueVars, current, pc, peer, ownVars, body, flagVars, code, sent, lastError>>

\* The engine fails on an image: hd_set_error writes the shared text ...
EngineFails ==
  /\ WorkerAt("run")
  /\ lastError' = current
  /\ worker' = "engine_failed"
  /\ UNCHANGED <<mainVars, queueVars, current, connVars>>

\* Mutant: the error is recorded but the status stays 200.
CopyEngineErrorOnly ==
  /\ WorkerAt("engine_failed")
  /\ err' = [err EXCEPT ![current] = lastError]
  /\ worker' = "publish"
  /\ UNCHANGED <<mainVars, queueVars, current, pc, peer, ownVars, status, body, flagVars, code, sent, lastError>>

\* ... and job_run copies what hd_last_error returns by then into the job.
CopyEngineError ==
  /\ WorkerAt("engine_failed")
  /\ status' = [status EXCEPT ![current] = 500]
  /\ err' = [err EXCEPT ![current] = lastError]
  /\ worker' = "publish"
  /\ UNCHANGED <<mainVars, queueVars, current, pc, peer, ownVars, body, flagVars, code, sent, lastError>>

\* worker_main publishes the result under j->mu and lets go of the job.
Publish ==
  /\ WorkerAt("publish")
  /\ done' = [done EXCEPT ![current] = TRUE]
  /\ worker' = "dequeue" /\ current' = NoConn
  /\ UNCHANGED <<mainVars, queueVars, pc, peer, ownVars, resultVars, cancelled, code, sent, lastError>>

-----------------------------------------------------------------------------
(* A connection's thread: client_main and the handlers it calls. *)

Goto(c, label) == pc' = [pc EXCEPT ![c] = label]

\* server_job_free: every upload is unlinked, then the job is released.
Release(c) ==
  /\ temps' = [temps EXCEPT ![c] = FALSE]
  /\ heap' = [heap EXCEPT ![c] = "freed"]

\* read_http_request gives up (the peer left or timed out, the request is
\* malformed or longer than --max-body-mb), handle_request refuses it (401,
\* 404, 415) or a handler cannot parse the body: a 4xx, and no job outlives
\* the handler's parsing.
ReadFails(c) ==
  /\ At(c, "read")
  /\ code' = [code EXCEPT ![c] = 400]
  /\ Goto(c, "head")
  /\ UNCHANGED <<mainVars, queueVars, workerVars, peer, jobVars, sent, lastError>>

\* A request handle_request answers itself: health, models, OPTIONS.
ReadProbe(c) ==
  /\ "probe" \in Kinds /\ At(c, "read")
  /\ code' = [code EXCEPT ![c] = 200]
  /\ Goto(c, "head")
  /\ UNCHANGED <<mainVars, queueVars, workerVars, peer, jobVars, sent, lastError>>

\* handle_generations, handle_edits_multipart: the request parses and gets a
\* job.  A peer that has left may have sent all of it before.
ReadRequest(c) ==
  /\ At(c, "read")
  /\ heap' = [heap EXCEPT ![c] = "live"]
  /\ \/ "generation" \in Kinds /\ Goto(c, "submit")
     \/ "edit" \in Kinds /\ \E next \in {"store", "submit"} : Goto(c, next)
  /\ UNCHANGED <<mainVars, queueVars, workerVars, peer, temps, resultVars, flagVars, code, sent, lastError>>

\* The next uploaded image is written to a temporary file of its own and
\* decodes; after the last one the job is submitted.
StoreUpload(c) ==
  /\ At(c, "store")
  /\ temps' = [temps EXCEPT ![c] = TRUE]
  /\ \E next \in {"store", "submit"} : Goto(c, next)
  /\ UNCHANGED <<mainVars, queueVars, workerVars, peer, heap, resultVars, flagVars, code, sent, lastError>>

\* Mutant: the refusal forgets the files written before it.
RejectUploadLeaks(c) ==
  /\ At(c, "store")
  /\ heap' = [heap EXCEPT ![c] = "freed"]
  /\ \E reply \in {400, 500} : code' = [code EXCEPT ![c] = reply]
  /\ lastError' \in IF code'[c] = 400 THEN {lastError, c} ELSE {lastError}
  /\ Goto(c, "head")
  /\ UNCHANGED <<mainVars, queueVars, workerVars, peer, temps, resultVars, flagVars, sent>>

\* One is refused: its file and the job go first, then a fixed reply is sent.  A
\* decoder failure leaves its text in g_error, an oversized or unstorable
\* upload does not.
RejectUpload(c) ==
  /\ At(c, "store")
  /\ Release(c)
  /\ \E reply \in {400, 500} : code' = [code EXCEPT ![c] = reply]
  /\ lastError' \in IF code'[c] = 400 THEN {lastError, c} ELSE {lastError}
  /\ Goto(c, "head")
  /\ UNCHANGED <<mainVars, queueVars, workerVars, peer, resultVars, flagVars, sent>>

\* job_submit accepts the request.  It compares g_cfg.profile on its way.
SubmitAccepts(c) ==
  /\ At(c, "submit")
  /\ Goto(c, "enqueue")
  /\ UNCHANGED <<mainVars, queueVars, workerVars, peer, jobVars, code, sent, lastError>>

\* job_submit refuses a field with a message of its own.
SubmitRefuses(c) ==
  /\ At(c, "submit")
  /\ status' = [status EXCEPT ![c] = 400]
  /\ err' = [err EXCEPT ![c] = c]
  /\ code' = [code EXCEPT ![c] = 400]
  /\ Goto(c, "head")
  /\ UNCHANGED <<mainVars, queueVars, workerVars, peer, ownVars, body, flagVars, sent, lastError>>

\* hd_request_validate refuses the combination and writes the shared text ...
ValidateFails(c) ==
  /\ At(c, "submit")
  /\ lastError' = c
  /\ Goto(c, "invalid")
  /\ UNCHANGED <<mainVars, queueVars, workerVars, peer, jobVars, code, sent>>

\* ... and job_submit copies what hd_last_error returns by then into the job.
CopyValidateError(c) ==
  /\ At(c, "invalid")
  /\ status' = [status EXCEPT ![c] = 400]
  /\ err' = [err EXCEPT ![c] = lastError]
  /\ code' = [code EXCEPT ![c] = 400]
  /\ Goto(c, "head")
  /\ UNCHANGED <<mainVars, queueVars, workerVars, peer, ownVars, body, flagVars, sent, lastError>>

\* Mutant: the job is added without a signal on g_queue_cv.
EnqueueSilent(c) ==
  /\ At(c, "enqueue") /\ ~stopping /\ len < Cap
  /\ slots' = [slots EXCEPT ![Pos(len)] = c]
  /\ len' = len + 1
  /\ Goto(c, "wait")
  /\ UNCHANGED <<mainVars, head, stopping, workerVars, peer, jobVars, code, sent, lastError>>

\* enqueue, under g_queue_mu: the job goes behind the waiting ones.
Enqueue(c) ==
  /\ At(c, "enqueue") /\ ~stopping /\ len < Cap
  /\ slots' = [slots EXCEPT ![Pos(len)] = c]
  /\ len' = len + 1
  /\ Wake
  /\ Goto(c, "wait")
  /\ UNCHANGED <<mainVars, head, stopping, current, peer, jobVars, code, sent, lastError>>

\* enqueue refuses: the ring is full or the queue is stopping.
QueueFull(c) ==
  /\ At(c, "enqueue") /\ (stopping \/ len >= Cap)
  /\ code' = [code EXCEPT ![c] = 429]
  /\ Goto(c, "head")
  /\ UNCHANGED <<mainVars, queueVars, workerVars, peer, jobVars, sent, lastError>>

\* Mutant: a disconnect ends the wait and the job at once.
NoticeDisconnectLeaves(c) ==
  /\ At(c, "wait") /\ ~done[c] /\ peer[c] = "gone"
  /\ cancelled' = [cancelled EXCEPT ![c] = TRUE]
  /\ Goto(c, "free")
  /\ UNCHANGED <<mainVars, queueVars, workerVars, peer, ownVars, resultVars, done, code, sent, lastError>>

\* Mutant: the socket is looked at although the job is done.
NoticeDisconnectLate(c) ==
  /\ At(c, "wait") /\ peer[c] = "gone"
  /\ cancelled' = [cancelled EXCEPT ![c] = TRUE]
  /\ UNCHANGED <<mainVars, queueVars, workerVars, pc, peer, ownVars, resultVars, done, code, sent, lastError>>

\* Mutant: a socket without pending data counts as closed.
NoticeDisconnectAlways(c) ==
  /\ At(c, "wait") /\ ~done[c]
  /\ cancelled' = [cancelled EXCEPT ![c] = TRUE]
  /\ UNCHANGED <<mainVars, queueVars, workerVars, pc, peer, ownVars, resultVars, done, code, sent, lastError>>

\* wait_for_job_or_disconnect wakes up, at the latest after 100 ms, and the
\* job is not done: it looks at the socket and goes on waiting.
NoticeDisconnect(c) ==
  /\ At(c, "wait") /\ ~done[c] /\ peer[c] = "gone"
  /\ cancelled' = [cancelled EXCEPT ![c] = TRUE]
  /\ UNCHANGED <<mainVars, queueVars, workerVars, pc, peer, ownVars, resultVars, done, code, sent, lastError>>

\* It finds the job done: dispatch_job drops a cancelled one and answers the
\* others with the worker's result.
JobDone(c) ==
  /\ At(c, "wait") /\ done[c]
  /\ \/ cancelled[c] /\ Goto(c, "free") /\ UNCHANGED code
     \/ /\ ~cancelled[c] /\ Goto(c, "head")
        /\ code' = [code EXCEPT ![c] = IF status[c] = 200 /\ body[c]
                                       THEN 200 ELSE status[c]]
  /\ UNCHANGED <<mainVars, queueVars, workerVars, peer, jobVars, sent, lastError>>

\* Where a thread goes after its reply: to server_job_free if it has a job.
AfterReply(c) == IF heap[c] = "live" THEN "free" ELSE "closed"

\* send_all of the header, then of the body: refused once stop is set.  What
\* is sent to a peer that left or stalled may still fit the socket's buffer.
SendHead(c) ==
  /\ At(c, "head") /\ ~stop
  /\ sent' = [sent EXCEPT ![c] = "head"]
  /\ Goto(c, "body")
  /\ UNCHANGED <<mainVars, queueVars, workerVars, peer, jobVars, code, lastError>>

SendBody(c) ==
  /\ At(c, "body") /\ ~stop
  /\ sent' = [sent EXCEPT ![c] = "full"]
  /\ Goto(c, AfterReply(c))
  /\ UNCHANGED <<mainVars, queueVars, workerVars, peer, jobVars, code, lastError>>

\* send_all gives up on the stop flag, on a closed peer, or after two seconds
\* without progress; http_response ignores the rest and the caller moves on.
SendFails(c) ==
  /\ At(c, "head") \/ At(c, "body")
  /\ (stop \/ peer[c] # "up")
  /\ Goto(c, AfterReply(c))
  /\ UNCHANGED <<mainVars, queueVars, workerVars, peer, jobVars, code, sent, lastError>>

\* server_job_free, then close(fd).
FreeJob(c) ==
  /\ At(c, "free")
  /\ Release(c)
  /\ Goto(c, "closed")
  /\ UNCHANGED <<mainVars, queueVars, workerVars, peer, resultVars, flagVars, code, sent, lastError>>

-----------------------------------------------------------------------------
(* The specification. *)

MainStep ==
  \/ LoadEngine \/ Listen \/ SpawnWorker
  \/ LeaveLoop \/ Poll \/ (\E c \in Conn : Accept(c)) \/ AcceptFails
  \/ CloseListener \/ QueueStop \/ JoinWorker \/ CloseEngine \/ FreeProfile \/ Return

WorkerStep ==
  \/ Sleep \/ Dequeue \/ WorkerReturns
  \/ RunSucceeds \/ EncodeFails \/ EngineFails \/ CopyEngineError \/ Publish

ConnStep(c) ==
  \/ ReadFails(c) \/ ReadProbe(c) \/ ReadRequest(c)
  \/ StoreUpload(c) \/ RejectUpload(c)
  \/ SubmitAccepts(c) \/ SubmitRefuses(c) \/ ValidateFails(c) \/ CopyValidateError(c)
  \/ Enqueue(c) \/ QueueFull(c) \/ NoticeDisconnect(c) \/ JobDone(c)
  \/ SendHead(c) \/ SendBody(c) \/ SendFails(c) \/ FreeJob(c)

Environment ==
  \/ FirstSignal \/ SecondSignal \/ PollError \/ SpuriousWakeup
  \/ \E c \in Conn : Connect(c) \/ PeerChange(c)

\* Threads and environment interleave while the process exists.
Next == MainStep \/ WorkerStep \/ (\E c \in Conn : ConnStep(c)) \/ Environment

\* Once the process is gone nothing happens any more.
Ended == ~Running /\ UNCHANGED vars

Spec == Init /\ [][Next \/ Ended]_vars

\* Every thread that can run is scheduled: main wakes every 200 ms, a waiting
\* handler every 100 ms, recv and send time out, a generation is a finite loop.
Fairness ==
  /\ WF_vars(MainStep)
  /\ WF_vars(WorkerStep)
  /\ \A c \in Conn : WF_vars(ConnStep(c))

FairSpec == Spec /\ Fairness

-----------------------------------------------------------------------------
(* Safety. *)

\* Every job the ring or the worker points to is allocated, not finished, and
\* its thread is inside wait_for_job_or_disconnect: nobody frees a job the
\* worker still reaches, whatever disconnects and stops happen.
JobsOutliveWorker ==
  \A c \in Queued \cup Busy :
    heap[c] = "live" /\ pc[c] = "wait" /\ ~done[c]

\* A thread that waits for a job waits for one the worker will reach: neither
\* the ring arithmetic, nor a full ring, nor queue_stop loses an accepted job,
\* and the worker does not end before the last of them.
NoJobLost ==
  \A c \in Conn : pc[c] = "wait" /\ ~done[c] =>
    c \in Queued \cup Busy /\ worker # "returned"

\* The ring holds len different jobs, none of them the one being worked on.
RingDistinct ==
  /\ \A i, j \in 0 .. len - 1 : slots[Pos(i)] = slots[Pos(j)] => i = j
  /\ Queued \cap Busy = {}

\* The queue keeps what it accepted: no job is lost, and none is there twice.
QueueKeepsJobs == NoJobLost /\ RingDistinct

\* The worker never sleeps on g_queue_cv while there is something for it to
\* do: no enqueue and no queue_stop misses it between its test and its wait.
NoMissedWakeup ==
  worker = "asleep" => len = 0 /\ ~stopping

\* A client that can connect, and a worker that may generate, have an open
\* engine behind them, from before the first accept to after the join.
EngineCoversUse ==
  listening \/ worker \notin {"absent", "returned"} => engine = "open"

\* What the worker reaches is there: its jobs, whoever disconnects, and the
\* engine, whenever the server stops.
WorkerReachesNothingFreed == JobsOutliveWorker /\ EngineCoversUse

\* The status sent fits what became of the job: 200 only for a finished job
\* with a body, 429 only for one the worker never gets, 500 on a live job only
\* when it finished without a body and says whose failure it was.
ReplyFitsJob ==
  \A c \in Conn : heap[c] = "live" =>
    /\ code[c] = 200 => done[c] /\ body[c]
    /\ code[c] = 429 => ~done[c] /\ c \notin Queued \cup Busy
    /\ code[c] = 500 => done[c] /\ ~body[c] /\ err[c] # NoConn

\* A thread that is through leaves neither a job nor an uploaded file behind,
\* on the success, error, refusal and cancel paths alike.
NothingLeftBehind ==
  \A c \in Conn : pc[c] = "closed" => heap[c] # "live" /\ ~temps[c]

\* Once done is published the outcome is frozen until the job is freed: the
\* handler reads status, body and cancelled after it let go of j->mu.
OutcomeIsFrozen ==
  [][\A c \in Conn : done[c] =>
       <<done[c], status[c], err[c], body[c], cancelled[c]>>' =
       <<done[c], status[c], err[c], body[c], cancelled[c]>>]_jobVars

-----------------------------------------------------------------------------
(* The inductive invariant behind the safety properties. *)

\* What main has reached by each place of its program.
MainPlace ==
  /\ main = "load" => engine = "absent"
  /\ main \in {"load", "listen"} => ~listening
  /\ main \in {"load", "listen", "spawn"} => worker = "absent"
  /\ main \in {"listen", "spawn", "poll", "accept", "shutdown", "stop_queue", "join",
               "close_engine"} => engine = "open"
  /\ main \in {"stop_queue", "join", "close_engine", "free_profile", "return", "exited"}
       => ~listening
  /\ main \in {"close_engine", "free_profile", "return"} => worker = "returned"
  /\ main = "exited" => worker \in {"absent", "returned"}

\* What a thread's job and reply are at each place of its program.
ConnPlace ==
  \A c \in Conn :
    /\ pc[c] \in {"absent", "backlog", "read"} =>
         heap[c] = "none" /\ code[c] = 0 /\ ~temps[c] /\ ~done[c]
    /\ pc[c] \in {"store", "submit", "invalid", "enqueue"} => ~done[c]
    /\ pc[c] \in {"store", "submit", "invalid", "enqueue", "wait"} =>
         heap[c] = "live" /\ code[c] = 0
    /\ pc[c] = "closed" => heap[c] # "live"
    /\ heap[c] # "live" => ~temps[c]

\* A result: a body with status 200, or 500 and whose failure it was.
Settled(c) ==
  \/ status[c] = 200 /\ body[c]
  \/ status[c] = 500 /\ ~body[c] /\ err[c] # NoConn

\* The worker holds a job exactly while it runs it, it ends only when the ring
\* is empty and stays so, a job gets its body from the worker only, and what is
\* published is a result.
WorkerPlace ==
  /\ worker \in {"run", "engine_failed", "publish"} <=> current # NoConn
  /\ worker = "engine_failed" => lastError # NoConn
  /\ worker = "publish" => Settled(current)
  /\ worker = "returned" => len = 0 /\ stopping
  /\ \A c \in Conn : done[c] => Settled(c)
  /\ \A c \in Conn : body[c] /\ ~done[c] => c = current /\ worker = "publish"

\* A thread inside wait_for_job_or_disconnect whose job is not done.
Waiting(c) == pc[c] = "wait" /\ heap[c] = "live" /\ ~done[c]

\* The jobs the ring and the worker hold are exactly those that are waited
\* for, each held once.
QueuePlace ==
  /\ Queued \cup Busy = {c \in Conn : Waiting(c)}
  /\ RingDistinct

\* What a status on its way says of the job it is about.
ReplyPlace ==
  \A c \in Conn : heap[c] = "live" =>
    /\ code[c] = 200 => done[c] /\ body[c]
    /\ code[c] = 429 => ~done[c]
    /\ code[c] = 500 => done[c] /\ ~body[c] /\ err[c] # NoConn

IInv ==
  /\ TypeOK /\ MainPlace /\ ConnPlace /\ WorkerPlace /\ QueuePlace /\ ReplyPlace
  /\ NoMissedWakeup /\ EngineCoversUse

-----------------------------------------------------------------------------
(* The same jobs seen as an abstract first-come first-served service. *)
FateOf(c) ==
  IF done[c] THEN "served"
  ELSE IF pc[c] = "wait" THEN "accepted"
  ELSE IF code[c] = 429 THEN "refused" ELSE "new"

Service == INSTANCE JobService
  WITH waiting <- [i \in 1 .. len |-> slots[Pos(i - 1)]],
       running <- current,
       fate    <- [c \in Conn |-> FateOf(c)],
       closing <- stopping

\* The ring, the worker and the waiting threads implement JobService: jobs are
\* served one at a time in the order they were accepted, and 429 is answered
\* only when Cap jobs wait or the queue is stopping.
ImplementsService == Service!Spec

-----------------------------------------------------------------------------
(* Liveness. *)

\* A stop request ends the process: the loop is left, the ring is drained and
\* the worker joined, however many jobs wait.
StopEndsProcess == stop ~> ~Running

\* Every request comes to an end while the process runs: its thread closes the
\* socket, also when the peer left or stopped reading, and by then a peer that
\* stayed has the whole reply, unless somebody asked for a stop.
RequestsEnd ==
  \A c \in Conn :
    pc[c] = "read" ~>
      \/ pc[c] = "closed" /\ (sent[c] = "full" \/ peer[c] # "up" \/ stop)
      \/ ~Running

=============================================================================
