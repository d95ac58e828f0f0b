------------------------ MODULE ImageServer_proofs ------------------------
(***************************************************************************)
(* Proofs about ImageServer for every set of connections, every queue      *)
(* depth, every kind of request and every selection of faults.             *)
(*                                                                         *)
(* The last part proves that the ring, the worker and the waiting threads  *)
(* implement JobService.  Five steps count: enqueue accepts, a full or     *)
(* stopping ring refuses, the worker starts and finishes a job, queue_stop *)
(* closes.  Every other step leaves the ring from its head on and the fate *)
(* of every job as they are.                                               *)
(***************************************************************************)
EXTENDS ImageServer, SequenceTheorems, TLAPS

\* The ring index of enqueue and dequeue, without the modulus: it wraps once.
LEMMA RingIndex ==
  ASSUME NEW N \in Nat \ {0}, NEW a \in 0 .. N - 1, NEW b \in 0 .. N
  PROVE  (a + b) % N = IF a + b < N THEN a + b ELSE a + b - N
  OBVIOUS

-----------------------------------------------------------------------------
(* Type correctness. *)

\* A step of the main thread keeps the types.
LEMMA MainStepType == ASSUME TypeOK, MainStep PROVE TypeOK'
  <1> USE DEF TypeOK, mainVars, queueVars, workerVars, connVars, jobVars, ownVars,
              resultVars, flagVars, MainPC, ConnPC, WorkerPC, Wake
  <1>0. ResetBacklog \in [Conn -> ConnPC] BY DEF ResetBacklog
  <1>1. CASE LoadEngine BY <1>1 DEF LoadEngine
  <1>2. CASE Listen BY ZenonT(60), <1>2 DEF Listen
  <1>3. CASE SpawnWorker
    <2>1. CASE worker' = "dequeue" /\ UNCHANGED <<listening, engine, pc>>
      BY <1>3, <2>1 DEF SpawnWorker
    <2>2. CASE pc' = ResetBacklog /\ UNCHANGED worker
      BY ZenonT(60), <1>0, <1>3, <2>2 DEF SpawnWorker
    <2> QED BY <1>3, <2>1, <2>2 DEF SpawnWorker
  <1>4. CASE LeaveLoop BY <1>4 DEF LeaveLoop
  <1>5. CASE Poll BY <1>5 DEF Poll
  <1>6. ASSUME NEW c \in Conn, Accept(c) PROVE TypeOK' BY <1>6 DEF Accept
  <1>7. CASE AcceptFails BY <1>7 DEF AcceptFails
  <1>8. CASE CloseListener BY ZenonT(60), <1>0, <1>8 DEF CloseListener
  <1>9. CASE QueueStop BY <1>9 DEF QueueStop
  <1>10. CASE JoinWorker BY <1>10 DEF JoinWorker
  <1>11. CASE CloseEngine BY <1>11 DEF CloseEngine
  <1>12. CASE FreeProfile BY <1>12 DEF FreeProfile
  <1>13. CASE Return BY <1>13 DEF Return
  <1> QED BY <1>1, <1>2, <1>3, <1>4, <1>5, <1>6, <1>7, <1>8, <1>9, <1>10, <1>11, <1>12,
             <1>13 DEF MainStep

\* A step of the worker keeps the types: it writes results only to the job of
\* a connection.
LEMMA WorkerStepType == ASSUME TypeOK, WorkerPlace, WorkerStep PROVE TypeOK'
  <1> USE CapAssumption DEF TypeOK, mainVars, queueVars, workerVars, connVars, jobVars,
              ownVars, resultVars, flagVars, WorkerPC, WorkerAt
  <1>0. worker \in {"run", "engine_failed", "publish"} => current \in Conn
    BY DEF WorkerPlace, Owner
  <1>1. CASE Sleep BY <1>1 DEF Sleep
  <1>2. CASE Dequeue
    <2>1. head' \in 0 .. Cap - 1 BY <1>2 DEF Dequeue
    <2> QED BY <1>2, <2>1 DEF Dequeue
  <1>3. CASE WorkerReturns BY <1>3 DEF WorkerReturns
  <1>4. CASE RunSucceeds BY <1>4, <1>0 DEF RunSucceeds
  <1>5. CASE EncodeFails BY <1>5, <1>0 DEF EncodeFails, Owner
  <1>6. CASE EngineFails BY <1>6, <1>0 DEF EngineFails
  <1>7. CASE CopyEngineError BY <1>7, <1>0 DEF CopyEngineError
  <1>8. CASE Publish BY <1>8, <1>0 DEF Publish, Owner
  <1> QED BY <1>1, <1>2, <1>3, <1>4, <1>5, <1>6, <1>7, <1>8 DEF WorkerStep

\* A step of a connection's thread keeps the types.
LEMMA ConnStepType == ASSUME TypeOK, NEW c \in Conn, ConnStep(c) PROVE TypeOK'
  <1> USE CapAssumption DEF TypeOK, mainVars, queueVars, workerVars, connVars, jobVars,
              ownVars, resultVars, flagVars, ConnPC, WorkerPC, Status, At, Goto
  <1>1. CASE ReadFails(c) BY <1>1 DEF ReadFails
  <1>2. CASE ReadProbe(c) BY <1>2 DEF ReadProbe
  <1>3. CASE ReadRequest(c) BY <1>3 DEF ReadRequest
  <1>4. CASE StoreUpload(c) BY <1>4 DEF StoreUpload
  <1>5. CASE RejectUpload(c) BY <1>5 DEF RejectUpload, Release, Owner
  <1>6. CASE SubmitAccepts(c) BY <1>6 DEF SubmitAccepts
  <1>7. CASE SubmitRefuses(c) BY <1>7 DEF SubmitRefuses, Owner
  <1>8. CASE ValidateFails(c) BY <1>8 DEF ValidateFails, Owner
  <1>9. CASE CopyValidateError(c) BY <1>9 DEF CopyValidateError
  <1>10. CASE Enqueue(c)
    <2>1. Pos(len) \in 0 .. Cap - 1 BY DEF Pos
    <2> QED BY <1>10, <2>1 DEF Enqueue, Wake, Owner
  <1>11. CASE QueueFull(c) BY <1>11 DEF QueueFull
  <1>12. CASE NoticeDisconnect(c) BY <1>12 DEF NoticeDisconnect
  <1>13. CASE JobDone(c) BY <1>13 DEF JobDone
  <1>14. CASE SendHead(c) BY <1>14 DEF SendHead
  <1>15. CASE SendBody(c) BY <1>15 DEF SendBody, AfterReply
  <1>16. CASE SendFails(c) BY <1>16 DEF SendFails, AfterReply
  <1>17. CASE FreeJob(c) BY <1>17 DEF FreeJob, Release
  <1> HIDE DEF TypeOK, mainVars, queueVars, workerVars, connVars, jobVars, ownVars,
              resultVars, flagVars, ConnPC, WorkerPC, Status, At, Goto
  <1> QED BY <1>1, <1>2, <1>3, <1>4, <1>5, <1>6, <1>7, <1>8, <1>9, <1>10, <1>11, <1>12,
             <1>13, <1>14, <1>15, <1>16, <1>17 DEF ConnStep

\* A step of the environment keeps the types.
LEMMA EnvironmentType == ASSUME TypeOK, Environment PROVE TypeOK'
  <1> USE DEF TypeOK, mainVars, queueVars, workerVars, connVars, jobVars, ownVars,
              resultVars, flagVars, MainPC, ConnPC, WorkerPC, At, WorkerAt
  <1>0. ResetBacklog \in [Conn -> ConnPC] BY DEF ResetBacklog
  <1>1. CASE FirstSignal
    <2>1. pc' \in [Conn -> ConnPC] /\ stop' \in BOOLEAN /\ listening' \in BOOLEAN
      BY <1>0, <1>1 DEF FirstSignal
    <2>2. UNCHANGED <<main, engine, queueVars, workerVars, peer, jobVars, code, sent, lastError>>
      BY <1>1 DEF FirstSignal
    <2> QED BY <2>1, <2>2
  <1>2. CASE SecondSignal BY <1>2 DEF SecondSignal
  <1>3. CASE PollError BY <1>3 DEF PollError
  <1>4. CASE SpuriousWakeup BY <1>4 DEF SpuriousWakeup
  <1>5. ASSUME NEW c \in Conn, Connect(c) PROVE TypeOK' BY <1>5 DEF Connect
  <1>6. ASSUME NEW c \in Conn, PeerChange(c) PROVE TypeOK' BY <1>6 DEF PeerChange
  <1> QED BY <1>1, <1>2, <1>3, <1>4, <1>5, <1>6 DEF Environment

-----------------------------------------------------------------------------
(* The ring and the waiting threads. *)

\* Different places among the first Cap of the ring are different slots.
LEMMA PosInjective ==
  ASSUME TypeOK, NEW i \in 0 .. Cap - 1, NEW k \in 0 .. Cap - 1, Pos(i) = Pos(k)
  PROVE  i = k
  <1>1. Cap \in Nat \ {0} /\ head \in 0 .. Cap - 1 BY CapAssumption DEF TypeOK
  <1>2. i \in 0 .. Cap /\ k \in 0 .. Cap BY <1>1
  <1>3. (head + i) % Cap = IF head + i < Cap THEN head + i ELSE head + i - Cap
    BY <1>1, <1>2, RingIndex
  <1>4. (head + k) % Cap = IF head + k < Cap THEN head + k ELSE head + k - Cap
    BY <1>1, <1>2, RingIndex
  <1>5. (head + i) % Cap = (head + k) % Cap BY DEF Pos
  <1> QED BY <1>1, <1>3, <1>4, <1>5

\* Place 0 is the head.
LEMMA PosZero == ASSUME TypeOK PROVE Pos(0) = head
  <1>1. Cap \in Nat \ {0} /\ head \in 0 .. Cap - 1 /\ 0 \in 0 .. Cap
    BY CapAssumption DEF TypeOK
  <1>2. (head + 0) % Cap = IF head + 0 < Cap THEN head + 0 ELSE head + 0 - Cap
    BY <1>1, RingIndex
  <1> QED BY <1>1, <1>2 DEF Pos

\* After the head moved, place i is what place i + 1 was.
LEMMA PosShift ==
  ASSUME TypeOK, head' = (head + 1) % Cap, NEW i \in 0 .. Cap - 1
  PROVE  Pos(i)' = Pos(i + 1)
  <1>1. Cap \in Nat \ {0} /\ head \in 0 .. Cap - 1 BY CapAssumption DEF TypeOK
  <1>2. 1 \in 0 .. Cap /\ i \in 0 .. Cap /\ i + 1 \in 0 .. Cap BY <1>1
  <1>3. head' = IF head + 1 < Cap THEN head + 1 ELSE head + 1 - Cap
    BY <1>1, <1>2, RingIndex
  <1>4. head' \in 0 .. Cap - 1 BY <1>1, <1>3
  <1>5. (head' + i) % Cap = IF head' + i < Cap THEN head' + i ELSE head' + i - Cap
    BY <1>1, <1>2, <1>4, RingIndex
  <1>6. (head + (i + 1)) % Cap
          = IF head + (i + 1) < Cap THEN head + (i + 1) ELSE head + (i + 1) - Cap
    BY <1>1, <1>2, RingIndex
  <1>7. (head' + i) % Cap = (head + (i + 1)) % Cap BY <1>1, <1>3, <1>5, <1>6
  <1> QED BY <1>7 DEF Pos

\* A step that leaves the ring, the worker's job and the waiting threads alone
\* keeps QueuePlace.
LEMMA QueueFrame ==
  ASSUME QueuePlace, UNCHANGED <<slots, head, len, current>>,
         \A c \in Conn : Waiting(c)' = Waiting(c)
  PROVE  QueuePlace'
  <1>1. Queued' = Queued /\ Busy' = Busy BY DEF Queued, Busy, Pos
  <1>2. RingDistinct' BY <1>1 DEF QueuePlace, RingDistinct, Pos
  <1> QED BY <1>1, <1>2 DEF QueuePlace

\* enqueue puts the new job in a slot no waiting job occupies.
LEMMA EnqueueQueue ==
  ASSUME TypeOK, WorkerPlace, QueuePlace, ConnPlace, NEW c \in Conn, Enqueue(c)
  PROVE  QueuePlace'
  <1> USE CapAssumption DEF TypeOK
  <1>1. len \in 0 .. Cap - 1 /\ len' = len + 1 /\ head' = head /\ current' = current
        /\ slots' = [slots EXCEPT ![Pos(len)] = c]
    BY DEF Enqueue
  <1>2. PICK n \in 0 .. Cap - 1 : n = len BY <1>1
  <1>3. \A i \in 0 .. Cap - 1 : Pos(i) \in 0 .. Cap - 1 /\ Pos(i)' = Pos(i)
    BY <1>1 DEF Pos
  <1>4. \A i \in 0 .. n - 1 : slots'[Pos(i)'] = slots[Pos(i)]
    BY SMTT(30), <1>1, <1>2, <1>3, PosInjective
  <1>5. slots'[Pos(n)'] = c BY <1>1, <1>2, <1>3
  <1>6. \A i \in 0 .. n : i \in 0 .. n - 1 \/ i = n OBVIOUS
  <1>7. 0 .. n - 1 \subseteq 0 .. n /\ n \in 0 .. n OBVIOUS
  <1>8. Queued = {slots[Pos(i)] : i \in 0 .. n - 1} BY <1>2 DEF Queued
  <1>9. Queued' = {slots'[Pos(i)'] : i \in 0 .. n}
    <2>1. len' - 1 = n BY <1>1, <1>2
    <2> QED BY <2>1 DEF Queued
  <1>10. Queued' = Queued \cup {c}
    <2>1. ASSUME NEW x \in Queued' PROVE x \in Queued \cup {c}
      <3>1. PICK i \in 0 .. n : x = slots'[Pos(i)'] BY <2>1, <1>9
      <3>2. CASE i = n BY <3>1, <3>2, <1>5
      <3>3. CASE i \in 0 .. n - 1 BY <3>1, <3>3, <1>4, <1>8
      <3> QED BY <3>2, <3>3, <1>6
    <2>2. ASSUME NEW x \in Queued PROVE x \in Queued'
      <3>1. PICK i \in 0 .. n - 1 : x = slots[Pos(i)] BY <2>2, <1>8
      <3>2. x = slots'[Pos(i)'] BY <3>1, <1>4
      <3> QED BY <3>2, <1>7, <1>9
    <2>3. c \in Queued' BY <1>5, <1>7, <1>9
    <2> QED BY <2>1, <2>2, <2>3
  <1>11. Busy' = Busy BY <1>1 DEF Busy
  <1>12. ~Waiting(c) /\ Waiting(c)'
    BY DEF Enqueue, At, Waiting, ConnPlace, Goto, connVars, jobVars, ownVars, flagVars
  <1>13. \A d \in Conn \ {c} : Waiting(d)' = Waiting(d)
    BY DEF Enqueue, Waiting, Goto, connVars, jobVars, ownVars, flagVars
  <1>14. c \notin Queued \cup Busy BY <1>12 DEF QueuePlace
  <1>15. Queued' \cup Busy' = {d \in Conn : Waiting(d)'}
    BY <1>10, <1>11, <1>12, <1>13 DEF QueuePlace
  <1>16. \A i \in 0 .. n - 1 : slots[Pos(i)] # c BY <1>8, <1>14
  <1>17. \A i, k \in 0 .. len' - 1 : slots'[Pos(i)'] = slots'[Pos(k)'] => i = k
    <2>1. len' - 1 = n BY <1>1, <1>2
    <2>2. \A i, k \in 0 .. n - 1 : slots[Pos(i)] = slots[Pos(k)] => i = k
      BY <1>2 DEF QueuePlace, RingDistinct
    <2>3. \A i, k \in 0 .. n : slots'[Pos(i)'] = slots'[Pos(k)'] => i = k
      BY <2>2, <1>4, <1>5, <1>6, <1>16
    <2> QED BY <2>1, <2>3
  <1>18. Queued' \cap Busy' = {} BY <1>10, <1>11, <1>14 DEF QueuePlace, RingDistinct
  <1> QED BY <1>15, <1>17, <1>18 DEF QueuePlace, RingDistinct

\* dequeue moves the oldest job from the ring to the worker.
LEMMA DequeueQueue ==
  ASSUME TypeOK, WorkerPlace, QueuePlace, Dequeue
  PROVE  QueuePlace'
  <1> USE CapAssumption DEF TypeOK
  <1>1. len \in 1 .. Cap /\ len' = len - 1 /\ head' = (head + 1) % Cap /\ slots' = slots
        /\ current' = slots[head] /\ current = NoConn
    BY DEF Dequeue, WorkerAt, WorkerPlace
  <1>2. Pos(0) = head BY PosZero
  <1>3. \A i \in 0 .. len' - 1 : slots'[Pos(i)'] = slots[Pos(i + 1)]
    <2>1. \A i \in 0 .. len' - 1 : i \in 0 .. Cap - 1 BY <1>1
    <2> QED BY <1>1, <2>1, PosShift
  <1>4. Queued = Queued' \cup {current'}
    <2>1. \A x \in Queued : x \in Queued' \cup {current'}
      <3>1. ASSUME NEW i \in 0 .. len - 1 PROVE slots[Pos(i)] \in Queued' \cup {current'}
        <4>1. CASE i = 0 BY <4>1, <1>1, <1>2
        <4>2. CASE i # 0
          <5>1. i - 1 \in 0 .. len' - 1 /\ (i - 1) + 1 = i BY <4>2, <1>1
          <5>2. slots'[Pos(i - 1)'] = slots[Pos(i)] BY <5>1, <1>3
          <5> QED BY <5>1, <5>2 DEF Queued
        <4> QED BY <4>1, <4>2
      <3> QED BY <3>1 DEF Queued
    <2>2. Queued' \subseteq Queued
      <3>1. \A i \in 0 .. len' - 1 : i + 1 \in 0 .. len - 1 BY <1>1
      <3> QED BY <1>3, <3>1 DEF Queued
    <2>3. current' \in Queued BY <1>1, <1>2 DEF Queued
    <2> QED BY <2>1, <2>2, <2>3
  <1>5. Queued \subseteq Conn BY DEF QueuePlace
  <1>6. Busy = {} /\ Busy' = {current'}
    BY <1>1, <1>4, <1>5, ConnAssumption DEF Busy
  <1>7. \A c \in Conn : Waiting(c)' = Waiting(c)
    BY DEF Dequeue, Waiting, connVars, jobVars, ownVars, flagVars
  <1>8. Queued' \cup Busy' = {c \in Conn : Waiting(c)'}
    BY <1>4, <1>6, <1>7 DEF QueuePlace
  <1>9. \A i, k \in 0 .. len' - 1 : slots'[Pos(i)'] = slots'[Pos(k)'] => i = k
    <2>1. \A i \in 0 .. len' - 1 : i + 1 \in 0 .. len - 1 BY <1>1
    <2>2. \A i, k \in 0 .. len - 1 : slots[Pos(i)] = slots[Pos(k)] => i = k
      BY DEF QueuePlace, RingDistinct
    <2>3. ASSUME NEW i \in 0 .. len' - 1, NEW k \in 0 .. len' - 1,
                 slots'[Pos(i)'] = slots'[Pos(k)']
          PROVE  i = k
      <3>1. i + 1 = k + 1 BY <2>1, <2>2, <2>3, <1>3
      <3> QED BY <3>1, <1>1
    <2> QED BY <2>3
  <1>10. current' \notin Queued'
    <2>1. \A i \in 0 .. len' - 1 : i + 1 \in 0 .. len - 1 /\ 0 \in 0 .. len - 1 /\ i + 1 # 0
      BY <1>1
    <2>2. \A i \in 0 .. len' - 1 : slots'[Pos(i)'] # slots[Pos(0)]
      BY <2>1, <1>3 DEF QueuePlace, RingDistinct
    <2> QED BY <2>2, <1>1, <1>2 DEF Queued
  <1> QED BY <1>6, <1>8, <1>9, <1>10 DEF QueuePlace, RingDistinct

\* Publishing a result takes the job from the worker and from the waiting.
LEMMA PublishQueue ==
  ASSUME TypeOK, WorkerPlace, QueuePlace, Publish
  PROVE  QueuePlace'
  <1>1. UNCHANGED <<slots, head, len>> /\ current' = NoConn /\ current \in Conn
    BY DEF Publish, WorkerAt, WorkerPlace, TypeOK, Owner, queueVars
  <1>2. Queued' = Queued BY <1>1 DEF Queued, Pos
  <1>3. Busy = {current} /\ Busy' = {} BY <1>1, ConnAssumption DEF Busy
  <1>4. \A c \in Conn : Waiting(c)' = (Waiting(c) /\ c # current)
    BY <1>1 DEF Publish, Waiting, TypeOK, ownVars
  <1>5. current \notin Queued BY <1>3 DEF QueuePlace, RingDistinct
  <1>6. Queued' \cup Busy' = {c \in Conn : Waiting(c)'}
    BY <1>1, <1>2, <1>3, <1>4, <1>5 DEF QueuePlace
  <1>7. RingDistinct' BY <1>1, <1>2, <1>3 DEF QueuePlace, RingDistinct, Pos
  <1> QED BY <1>6, <1>7 DEF QueuePlace

\* A step of the main thread keeps what holds at each place.
LEMMA MainStepPlaces ==
  ASSUME IInv, MainStep
  PROVE  MainPlace' /\ ConnPlace' /\ WorkerPlace' /\ ReplyPlace'
         /\ NoMissedWakeup' /\ EngineCoversUse'
  <1> USE DEF IInv, TypeOK, MainPlace, ConnPlace, WorkerPlace, ReplyPlace, NoMissedWakeup,
              EngineCoversUse, Settled, mainVars, queueVars, workerVars, connVars, jobVars,
              ownVars, resultVars, flagVars, ResetBacklog
  <1>1. CASE LoadEngine BY <1>1 DEF LoadEngine
  <1>2. CASE Listen BY <1>2 DEF Listen
  <1>3. CASE SpawnWorker
    <2>1. CASE worker' = "dequeue" /\ UNCHANGED <<listening, engine, pc>>
      BY <1>3, <2>1 DEF SpawnWorker
    <2>2. CASE pc' = ResetBacklog /\ UNCHANGED worker
      BY <1>3, <2>2 DEF SpawnWorker
    <2> QED BY <1>3, <2>1, <2>2 DEF SpawnWorker
  <1>4. CASE LeaveLoop BY <1>4 DEF LeaveLoop
  <1>5. CASE Poll BY <1>5 DEF Poll
  <1>6. ASSUME NEW c \in Conn, Accept(c)
        PROVE  MainPlace' /\ ConnPlace' /\ WorkerPlace' /\ ReplyPlace'
               /\ NoMissedWakeup' /\ EngineCoversUse'
    BY <1>6 DEF Accept, At
  <1>7. CASE AcceptFails BY <1>7 DEF AcceptFails
  <1>8. CASE CloseListener BY <1>8 DEF CloseListener
  <1>9. CASE QueueStop BY <1>9 DEF QueueStop, Wake
  <1>10. CASE JoinWorker BY <1>10 DEF JoinWorker
  <1>11. CASE CloseEngine BY <1>11 DEF CloseEngine
  <1>12. CASE FreeProfile BY <1>12 DEF FreeProfile
  <1>13. CASE Return BY <1>13 DEF Return
  <1> HIDE DEF IInv, TypeOK, MainPlace, ConnPlace, WorkerPlace, ReplyPlace, NoMissedWakeup,
              EngineCoversUse, Settled, mainVars, queueVars, workerVars, connVars, jobVars,
              ownVars, resultVars, flagVars, ResetBacklog
  <1> QED BY <1>1, <1>2, <1>3, <1>4, <1>5, <1>6, <1>7, <1>8, <1>9, <1>10, <1>11, <1>12,
             <1>13 DEF MainStep

\* The thread of the job the worker holds waits for it and has no reply yet.
LEMMA RunningWaits ==
  ASSUME IInv, current # NoConn
  PROVE  current \in Conn /\ Waiting(current) /\ code[current] = 0
  <1>1. current \in Busy BY DEF Busy
  <1>2. current \in Conn /\ Waiting(current) BY <1>1 DEF IInv, QueuePlace
  <1> QED BY <1>2 DEF IInv, ConnPlace, Waiting

\* A step of the worker keeps what holds at each place: it touches the results
\* of the job it holds only, whose thread waits and has no reply yet.
LEMMA WorkerStepPlaces ==
  ASSUME IInv, WorkerStep
  PROVE  MainPlace' /\ ConnPlace' /\ WorkerPlace' /\ ReplyPlace'
         /\ NoMissedWakeup' /\ EngineCoversUse'
  <1> USE DEF IInv, TypeOK, MainPlace, ConnPlace, WorkerPlace, ReplyPlace, NoMissedWakeup,
              EngineCoversUse, Settled, mainVars, queueVars, workerVars, connVars, jobVars,
              ownVars, resultVars, flagVars, WorkerAt, Running
  <1>0. worker \in {"run", "engine_failed", "publish"} =>
          current \in Conn /\ Waiting(current) /\ code[current] = 0 /\ engine = "open"
    BY RunningWaits
  <1> USE <1>0 DEF Waiting
  <1>1. CASE Sleep BY <1>1 DEF Sleep
  <1>2. CASE Dequeue
    <2>1. slots[head] \in Queued
      <3>1. Pos(0) = head BY PosZero
      <3>2. 0 \in 0 .. len - 1 BY <1>2, CapAssumption DEF Dequeue
      <3> QED BY <3>1, <3>2 DEF Queued
    <2>2. slots[head] \in Conn BY <2>1 DEF QueuePlace
    <2> QED BY <1>2, <2>2, ConnAssumption DEF Dequeue
  <1>3. CASE WorkerReturns BY <1>3 DEF WorkerReturns
  <1>4. CASE RunSucceeds BY <1>4 DEF RunSucceeds
  <1>5. CASE EncodeFails BY <1>5, ConnAssumption DEF EncodeFails
  <1>6. CASE EngineFails BY <1>6, ConnAssumption DEF EngineFails
  <1>7. CASE CopyEngineError BY <1>7 DEF CopyEngineError
  <1>8. CASE Publish BY <1>8 DEF Publish
  <1> QED BY <1>1, <1>2, <1>3, <1>4, <1>5, <1>6, <1>7, <1>8 DEF WorkerStep

\* A step of a connection's thread keeps what holds at each place.
LEMMA ConnStepPlaces ==
  ASSUME IInv, NEW c \in Conn, ConnStep(c)
  PROVE  MainPlace' /\ ConnPlace' /\ WorkerPlace' /\ ReplyPlace'
         /\ NoMissedWakeup' /\ EngineCoversUse'
  <1> USE DEF IInv, TypeOK, MainPlace, ConnPlace, WorkerPlace, ReplyPlace, NoMissedWakeup,
              EngineCoversUse, Settled, mainVars, queueVars, workerVars, connVars, jobVars,
              ownVars, resultVars, flagVars, At, Running, Goto
  <1>1. CASE ReadFails(c) BY <1>1 DEF ReadFails
  <1>2. CASE ReadProbe(c) BY <1>2 DEF ReadProbe
  <1>3. CASE ReadRequest(c) BY <1>3 DEF ReadRequest
  <1>4. CASE StoreUpload(c) BY <1>4 DEF StoreUpload
  <1>5. CASE RejectUpload(c) BY <1>5, ConnAssumption DEF RejectUpload, Release
  <1>6. CASE SubmitAccepts(c) BY <1>6 DEF SubmitAccepts
  <1>7. CASE SubmitRefuses(c)
    <2>1. current # NoConn => current # c BY <1>7, RunningWaits DEF SubmitRefuses, Waiting
    <2> QED BY <1>7, <2>1, ConnAssumption DEF SubmitRefuses
  <1>8. CASE ValidateFails(c) BY <1>8, ConnAssumption DEF ValidateFails
  <1>9. CASE CopyValidateError(c)
    <2>1. current # NoConn => current # c BY <1>9, RunningWaits DEF CopyValidateError, Waiting
    <2> QED BY <1>9, <2>1 DEF CopyValidateError
  <1>10. CASE Enqueue(c) BY <1>10 DEF Enqueue, Wake
  <1>11. CASE QueueFull(c) BY <1>11 DEF QueueFull
  <1>12. CASE NoticeDisconnect(c) BY <1>12 DEF NoticeDisconnect
  <1>13. CASE JobDone(c) BY <1>13 DEF JobDone
  <1>14. CASE SendHead(c) BY <1>14 DEF SendHead
  <1>15. CASE SendBody(c) BY <1>15 DEF SendBody, AfterReply
  <1>16. CASE SendFails(c) BY <1>16 DEF SendFails, AfterReply
  <1>17. CASE FreeJob(c) BY <1>17 DEF FreeJob, Release
  <1> HIDE DEF IInv, TypeOK, MainPlace, ConnPlace, WorkerPlace, ReplyPlace, NoMissedWakeup,
              EngineCoversUse, Settled, mainVars, queueVars, workerVars, connVars, jobVars,
              ownVars, resultVars, flagVars, At, Running, Goto
  <1> QED BY <1>1, <1>2, <1>3, <1>4, <1>5, <1>6, <1>7, <1>8, <1>9, <1>10, <1>11, <1>12,
             <1>13, <1>14, <1>15, <1>16, <1>17 DEF ConnStep

\* A step of the environment keeps what holds at each place.
LEMMA EnvironmentPlaces ==
  ASSUME IInv, Environment
  PROVE  MainPlace' /\ ConnPlace' /\ WorkerPlace' /\ ReplyPlace'
         /\ NoMissedWakeup' /\ EngineCoversUse'
  <1> USE DEF IInv, TypeOK, MainPlace, ConnPlace, WorkerPlace, ReplyPlace, NoMissedWakeup,
              EngineCoversUse, Settled, mainVars, queueVars, workerVars, connVars, jobVars,
              ownVars, resultVars, flagVars, ResetBacklog, At, WorkerAt, Running
  <1>1. CASE FirstSignal BY <1>1 DEF FirstSignal
  <1>2. CASE SecondSignal BY <1>2 DEF SecondSignal
  <1>3. CASE PollError BY <1>3 DEF PollError
  <1>4. CASE SpuriousWakeup BY <1>4 DEF SpuriousWakeup
  <1>5. ASSUME NEW c \in Conn, Connect(c)
        PROVE  MainPlace' /\ ConnPlace' /\ WorkerPlace' /\ ReplyPlace'
               /\ NoMissedWakeup' /\ EngineCoversUse'
    BY <1>5 DEF Connect
  <1>6. ASSUME NEW c \in Conn, PeerChange(c)
        PROVE  MainPlace' /\ ConnPlace' /\ WorkerPlace' /\ ReplyPlace'
               /\ NoMissedWakeup' /\ EngineCoversUse'
    BY <1>6 DEF PeerChange
  <1> QED BY ZenonT(60), <1>1, <1>2, <1>3, <1>4, <1>5, <1>6 DEF Environment

-----------------------------------------------------------------------------
(* The queue at every step. *)

\* What QueueFrame asks of a step.
QueueUnchanged ==
  UNCHANGED <<slots, head, len, current>> /\ \A c \in Conn : Waiting(c)' = Waiting(c)

\* The main thread and the environment never touch the queue, nor a thread
\* that waits.
LEMMA OthersQueue ==
  ASSUME IInv, MainStep \/ Environment
  PROVE  QueueUnchanged
  <1> USE DEF IInv, TypeOK, QueueUnchanged, Waiting, mainVars, queueVars, workerVars, connVars,
              jobVars, ownVars, resultVars, flagVars, ResetBacklog, At
  <1>1. CASE LoadEngine \/ Listen \/ LeaveLoop \/ Poll \/ AcceptFails \/ JoinWorker
    BY <1>1 DEF LoadEngine, Listen, LeaveLoop, Poll, AcceptFails, JoinWorker
  <1>2. CASE QueueStop \/ CloseEngine \/ FreeProfile \/ Return
    BY <1>2 DEF QueueStop, CloseEngine, FreeProfile, Return
  <1>3. CASE SpawnWorker BY <1>3 DEF SpawnWorker
  <1>4. CASE CloseListener BY <1>4 DEF CloseListener
  <1>5. ASSUME NEW c \in Conn, Accept(c) PROVE QueueUnchanged BY <1>5 DEF Accept
  <1>6. CASE FirstSignal BY <1>6 DEF FirstSignal
  <1>7. CASE SecondSignal \/ PollError \/ SpuriousWakeup
    BY <1>7 DEF SecondSignal, PollError, SpuriousWakeup
  <1>8. ASSUME NEW c \in Conn, Connect(c) PROVE QueueUnchanged BY <1>8 DEF Connect
  <1>9. ASSUME NEW c \in Conn, PeerChange(c) PROVE QueueUnchanged BY <1>9 DEF PeerChange
  <1> QED BY <1>1, <1>2, <1>3, <1>4, <1>5, <1>6, <1>7, <1>8, <1>9 DEF MainStep, Environment

\* The worker touches it in dequeue and when it publishes.
LEMMA WorkerQueue ==
  ASSUME IInv, WorkerStep, ~Dequeue, ~Publish
  PROVE  QueueUnchanged
  <1> USE DEF QueueUnchanged, Waiting, mainVars, queueVars, workerVars, connVars,
              jobVars, ownVars, resultVars, flagVars
  <1>1. CASE Sleep \/ WorkerReturns BY <1>1 DEF Sleep, WorkerReturns
  <1>2. CASE RunSucceeds \/ EncodeFails BY <1>2 DEF RunSucceeds, EncodeFails
  <1>3. CASE EngineFails \/ CopyEngineError BY <1>3 DEF EngineFails, CopyEngineError
  <1> QED BY <1>1, <1>2, <1>3 DEF WorkerStep

\* A connection's thread touches it in enqueue only: it leaves its wait when
\* its job is done.
LEMMA ConnQueue ==
  ASSUME IInv, NEW c \in Conn, ConnStep(c), ~Enqueue(c)
  PROVE  QueueUnchanged
  <1> USE DEF IInv, TypeOK, QueueUnchanged, Waiting, queueVars, workerVars, connVars,
              jobVars, ownVars, resultVars, flagVars, At, Goto
  <1>1. CASE ReadFails(c) \/ ReadProbe(c) BY <1>1 DEF ReadFails, ReadProbe
  <1>2. CASE ReadRequest(c) BY <1>2 DEF ReadRequest
  <1>3. CASE StoreUpload(c) BY <1>3 DEF StoreUpload
  <1>4. CASE RejectUpload(c) BY <1>4 DEF RejectUpload, Release
  <1>5. CASE SubmitAccepts(c) \/ SubmitRefuses(c) BY <1>5 DEF SubmitAccepts, SubmitRefuses
  <1>6. CASE ValidateFails(c) \/ CopyValidateError(c)
    BY <1>6 DEF ValidateFails, CopyValidateError
  <1>7. CASE QueueFull(c) \/ NoticeDisconnect(c) BY <1>7 DEF QueueFull, NoticeDisconnect
  <1>8. CASE JobDone(c) BY <1>8 DEF JobDone
  <1>9. CASE SendHead(c) BY <1>9 DEF SendHead
  <1>10. CASE SendBody(c) BY <1>10 DEF SendBody, AfterReply
  <1>11. CASE SendFails(c) BY <1>11 DEF SendFails, AfterReply
  <1>12. CASE FreeJob(c) BY <1>12 DEF FreeJob, Release
  <1> QED BY <1>1, <1>2, <1>3, <1>4, <1>5, <1>6, <1>7, <1>8, <1>9, <1>10, <1>11, <1>12
          DEF ConnStep

\* Every step keeps QueuePlace.
LEMMA QueueStep ==
  ASSUME IInv, Next
  PROVE  QueuePlace'
  <1>1. CASE Dequeue BY <1>1, DequeueQueue DEF IInv
  <1>2. CASE Publish BY <1>2, PublishQueue DEF IInv
  <1>3. ASSUME NEW c \in Conn, Enqueue(c) PROVE QueuePlace'
    BY <1>3, EnqueueQueue DEF IInv
  <1>4. CASE QueueUnchanged BY <1>4, QueueFrame DEF QueueUnchanged, IInv
  <1>5. ASSUME NEW c \in Conn, ConnStep(c) PROVE QueuePlace'
    BY <1>3, <1>4, <1>5, ConnQueue
  <1>6. CASE WorkerStep BY <1>1, <1>2, <1>4, <1>6, WorkerQueue
  <1>7. CASE MainStep \/ Environment BY <1>4, <1>7, OthersQueue
  <1> QED BY <1>5, <1>6, <1>7 DEF Next

-----------------------------------------------------------------------------
(* The invariant and what follows from it. *)

\* The initial states satisfy the invariant.
LEMMA InitInvariant == Init => IInv
  <1> SUFFICES ASSUME Init PROVE IInv OBVIOUS
  <1>1. TypeOK
    <2>1. head \in 0 .. Cap - 1 /\ len \in 0 .. Cap /\ slots \in [0 .. Cap - 1 -> Owner]
      BY CapAssumption DEF Init, Owner
    <2> QED BY ZenonT(60), <2>1 DEF Init, TypeOK, Owner, MainPC, WorkerPC, ConnPC
  <1>2. Queued = {} /\ Busy = {} /\ RingDistinct
    BY DEF Init, Queued, Busy, RingDistinct
  <1>3. QueuePlace BY <1>2 DEF Init, QueuePlace, Waiting
  <1>4. MainPlace /\ ConnPlace /\ WorkerPlace /\ ReplyPlace /\ NoMissedWakeup /\ EngineCoversUse
    BY DEF Init, MainPlace, ConnPlace, WorkerPlace, ReplyPlace, NoMissedWakeup, EngineCoversUse,
           Settled
  <1> QED BY <1>1, <1>3, <1>4 DEF IInv

\* Every step keeps it.
LEMMA NextInvariant == IInv /\ [Next \/ Ended]_vars => IInv'
  <1> SUFFICES ASSUME IInv, [Next \/ Ended]_vars PROVE IInv' OBVIOUS
  <1>1. CASE UNCHANGED vars
    BY <1>1 DEF IInv, TypeOK, MainPlace, ConnPlace, WorkerPlace, QueuePlace, ReplyPlace,
       NoMissedWakeup, EngineCoversUse, Settled, Waiting, Queued, Busy, Pos, RingDistinct, vars,
       mainVars, queueVars, workerVars, connVars, jobVars, ownVars, resultVars, flagVars
  <1>2. CASE MainStep
    BY <1>2, MainStepType, MainStepPlaces, QueueStep DEF IInv, Next
  <1>3. CASE WorkerStep
    BY <1>3, WorkerStepType, WorkerStepPlaces, QueueStep DEF IInv, Next
  <1>4. ASSUME NEW c \in Conn, ConnStep(c) PROVE IInv'
    BY <1>4, ConnStepType, ConnStepPlaces, QueueStep DEF IInv, Next
  <1>5. CASE Environment
    BY <1>5, EnvironmentType, EnvironmentPlaces, QueueStep DEF IInv, Next
  <1> QED BY <1>1, <1>2, <1>3, <1>4, <1>5 DEF Next, Ended

\* Every reachable state satisfies the inductive invariant.
THEOREM Invariance == Spec => []IInv
  <1> QED BY InitInvariant, NextInvariant, PTL DEF Spec

\* Every variable keeps its type.
THEOREM TypeCorrect == Spec => []TypeOK
  <1>1. IInv => TypeOK BY DEF IInv
  <1> QED BY <1>1, Invariance, PTL

\* No job the ring or the worker points to is freed or finished, and its
\* thread still waits for it.
THEOREM JobsOutliveTheWorker == Spec => []JobsOutliveWorker
  <1>1. IInv => JobsOutliveWorker BY DEF IInv, JobsOutliveWorker, QueuePlace, Waiting
  <1> QED BY <1>1, Invariance, PTL

\* No accepted job is lost: whoever waits waits for a job the worker reaches.
THEOREM NoAcceptedJobLost == Spec => []NoJobLost
  <1>1. IInv => NoJobLost
    <2> SUFFICES ASSUME IInv, NEW c \in Conn, pc[c] = "wait", ~done[c]
                 PROVE  c \in Queued \cup Busy /\ worker # "returned"
      BY DEF NoJobLost
    <2>1. c \in Queued \cup Busy BY DEF IInv, QueuePlace, Waiting, ConnPlace
    <2>2. worker = "returned" => Queued = {} /\ Busy = {}
      BY DEF IInv, TypeOK, WorkerPlace, Owner, Queued, Busy
    <2> QED BY <2>1, <2>2
  <1> QED BY <1>1, Invariance, PTL

\* The ring never holds a job twice, nor the one the worker is working on.
THEOREM RingHoldsOnce == Spec => []RingDistinct
  <1>1. IInv => RingDistinct BY DEF IInv, QueuePlace
  <1> QED BY <1>1, Invariance, PTL

\* The queue keeps what it accepted.
THEOREM QueueKeepsWhatItAccepted == Spec => []QueueKeepsJobs
  <1>1. NoJobLost /\ RingDistinct => QueueKeepsJobs BY DEF QueueKeepsJobs
  <1> QED BY <1>1, NoAcceptedJobLost, RingHoldsOnce, PTL

\* The worker never sleeps while a job waits or the queue is stopping.
THEOREM WorkerIsWoken == Spec => []NoMissedWakeup
  <1>1. IInv => NoMissedWakeup BY DEF IInv
  <1> QED BY <1>1, Invariance, PTL

\* The engine is open whenever a client can connect or the worker may use it.
THEOREM EngineOutlivesUse == Spec => []EngineCoversUse
  <1>1. IInv => EngineCoversUse BY DEF IInv
  <1> QED BY <1>1, Invariance, PTL

\* The worker reaches nothing that was freed.
THEOREM NothingFreedIsReached == Spec => []WorkerReachesNothingFreed
  <1>1. JobsOutliveWorker /\ EngineCoversUse => WorkerReachesNothingFreed
    BY DEF WorkerReachesNothingFreed
  <1> QED BY <1>1, JobsOutliveTheWorker, EngineOutlivesUse, PTL

\* Every reply fits what became of the job.
THEOREM RepliesFit == Spec => []ReplyFitsJob
  <1>1. IInv => ReplyFitsJob
    BY DEF IInv, ReplyFitsJob, ReplyPlace, QueuePlace, Waiting, ConnPlace
  <1> QED BY <1>1, Invariance, PTL

\* A thread that is through leaves no job and no uploaded file.
THEOREM NothingIsLeft == Spec => []NothingLeftBehind
  <1>1. IInv => NothingLeftBehind BY DEF IInv, NothingLeftBehind, ConnPlace
  <1> QED BY <1>1, Invariance, PTL

-----------------------------------------------------------------------------
(* What is published stays as it is. *)

\* The outcome of every done job is the same after the step.
Frozen ==
  \A c \in Conn : done[c] =>
    <<done[c], status[c], err[c], body[c], cancelled[c]>>' =
    <<done[c], status[c], err[c], body[c], cancelled[c]>>

\* The main thread and the environment write no outcome.
LEMMA OthersFreeze == ASSUME IInv, MainStep \/ Environment PROVE UNCHANGED <<resultVars, flagVars>>
  <1> USE DEF connVars, jobVars, resultVars, flagVars
  <1>1. CASE LoadEngine \/ Listen \/ SpawnWorker \/ LeaveLoop \/ Poll \/ AcceptFails
    BY <1>1 DEF LoadEngine, Listen, SpawnWorker, LeaveLoop, Poll, AcceptFails
  <1>2. CASE CloseListener \/ QueueStop \/ JoinWorker \/ CloseEngine \/ FreeProfile \/ Return
    BY <1>2 DEF CloseListener, QueueStop, JoinWorker, CloseEngine, FreeProfile, Return
  <1>3. CASE \E c \in Conn : Accept(c) \/ Connect(c) \/ PeerChange(c)
    BY <1>3 DEF Accept, Connect, PeerChange
  <1>4. CASE FirstSignal \/ SecondSignal \/ PollError \/ SpuriousWakeup
    BY <1>4 DEF FirstSignal, SecondSignal, PollError, SpuriousWakeup
  <1> QED BY <1>1, <1>2, <1>3, <1>4 DEF MainStep, Environment

\* The worker writes to the job it holds, which is not done.
LEMMA WorkerFreezes == ASSUME IInv, WorkerStep PROVE Frozen
  <1> USE DEF IInv, TypeOK, Frozen, connVars, jobVars, resultVars, flagVars
  <1>1. current # NoConn => current \in Conn /\ ~done[current] BY RunningWaits DEF Waiting
  <1>2. worker \in {"run", "engine_failed", "publish"} => current # NoConn BY DEF WorkerPlace
  <1> USE <1>1, <1>2 DEF WorkerAt
  <1>3. CASE Sleep \/ Dequeue \/ WorkerReturns BY <1>3 DEF Sleep, Dequeue, WorkerReturns
  <1>4. CASE RunSucceeds BY ZenonT(120), <1>4 DEF RunSucceeds
  <1>5. CASE EncodeFails BY <1>5 DEF EncodeFails
  <1>6. CASE EngineFails BY <1>6 DEF EngineFails
  <1>7. CASE CopyEngineError BY <1>7 DEF CopyEngineError
  <1>8. CASE Publish BY <1>8 DEF Publish
  <1> QED BY <1>3, <1>4, <1>5, <1>6, <1>7, <1>8 DEF WorkerStep

\* A thread writes to its own job, and only before that is done.
LEMMA ConnFreezes == ASSUME IInv, NEW c \in Conn, ConnStep(c) PROVE Frozen
  <1> USE DEF IInv, TypeOK, ConnPlace, Frozen, At, connVars, jobVars, ownVars, resultVars, flagVars
  <1>1. CASE ReadFails(c) \/ ReadProbe(c) \/ ReadRequest(c)
    BY <1>1 DEF ReadFails, ReadProbe, ReadRequest
  <1>2. CASE StoreUpload(c) \/ RejectUpload(c) BY ZenonT(60), <1>2 DEF StoreUpload, RejectUpload
  <1>3. CASE SubmitAccepts(c) \/ ValidateFails(c) BY <1>3 DEF SubmitAccepts, ValidateFails
  <1>4. CASE SubmitRefuses(c) BY <1>4 DEF SubmitRefuses
  <1>5. CASE CopyValidateError(c) BY <1>5 DEF CopyValidateError
  <1>6. CASE Enqueue(c) \/ QueueFull(c) \/ JobDone(c) BY <1>6 DEF Enqueue, QueueFull, JobDone
  <1>7. CASE NoticeDisconnect(c)
    <2>1. ~done[c] /\ UNCHANGED <<done, resultVars>> BY <1>7 DEF NoticeDisconnect
    <2>2. \A d \in Conn : d # c => cancelled'[d] = cancelled[d] BY <1>7 DEF NoticeDisconnect
    <2> QED BY <2>1, <2>2
  <1>8. CASE SendHead(c) \/ SendBody(c) \/ SendFails(c) \/ FreeJob(c)
    BY <1>8 DEF SendHead, SendBody, SendFails, FreeJob
  <1> QED BY <1>1, <1>2, <1>3, <1>4, <1>5, <1>6, <1>7, <1>8 DEF ConnStep

\* The outcome a handler reads after it let go of j->mu is the published one.
THEOREM OutcomesFreeze == Spec => OutcomeIsFrozen
  <1>1. IInv /\ [Next \/ Ended]_vars => [Frozen]_jobVars
    <2> SUFFICES ASSUME IInv, [Next \/ Ended]_vars, ~UNCHANGED jobVars PROVE Frozen
      OBVIOUS
    <2>1. ~UNCHANGED vars /\ ~Ended BY DEF vars, connVars, Ended
    <2>2. CASE MainStep \/ Environment
      BY <2>2, OthersFreeze DEF Frozen, resultVars, flagVars
    <2> QED BY <2>1, <2>2, WorkerFreezes, ConnFreezes DEF Next
  <1> QED BY <1>1, Invariance, PTL DEF Spec, OutcomeIsFrozen, Frozen

-----------------------------------------------------------------------------
(* The service. *)

\* The waiting jobs, oldest first, and what became of every job.
Line  == [i \in 1 .. len |-> slots[Pos(i - 1)]]
Fates == [c \in Conn |-> FateOf(c)]

\* A function on 1 .. n is a sequence of length n.
LEMMA LineIsSequence ==
  ASSUME NEW S, NEW n \in Nat, NEW f \in [1 .. n -> S]
  PROVE  f \in Seq(S) /\ Len(f) = n
  OBVIOUS

\* What appending makes, by place.
LEMMA AppendByPlace ==
  ASSUME NEW S, NEW n \in Nat, NEW f \in [1 .. n -> S], NEW g \in [1 .. n + 1 -> S],
         \A i \in 1 .. n : g[i] = f[i]
  PROVE  g = Append(f, g[n + 1])
  <1>1. n + 1 \in 1 .. n + 1 /\ n + 1 \in Nat OBVIOUS
  <1>2. f \in Seq(S) /\ Len(f) = n BY LineIsSequence
  <1>3. g \in Seq(S) /\ Len(g) = n + 1 BY <1>1, LineIsSequence
  <1>4. g[n + 1] \in S BY <1>1
  <1>5. DEFINE a == Append(f, g[n + 1])
  <1>6. a \in Seq(S) /\ Len(a) = n + 1 /\ a[n + 1] = g[n + 1] /\ \A i \in 1 .. n : a[i] = f[i]
    BY <1>2, <1>4, AppendProperties
  <1> HIDE DEF a
  <1>7. \A i \in 1 .. n + 1 : i \in 1 .. n \/ i = n + 1 OBVIOUS
  <1>8. \A i \in 1 .. n + 1 : g[i] = a[i] BY <1>6, <1>7
  <1>9. g = a BY <1>3, <1>6, <1>8, SeqEqual
  <1> QED BY <1>9 DEF a

\* What is left of a sequence without its head, by place.
LEMMA TailByPlace ==
  ASSUME NEW S, NEW n \in Nat \ {0}, NEW f \in [1 .. n -> S], NEW g \in [1 .. n - 1 -> S],
         \A i \in 1 .. n - 1 : g[i] = f[i + 1]
  PROVE  f # <<>> /\ Head(f) = f[1] /\ g = Tail(f)
  <1>1. f \in Seq(S) /\ Len(f) = n BY LineIsSequence
  <1>2. n - 1 \in Nat OBVIOUS
  <1>3. g \in Seq(S) /\ Len(g) = n - 1 BY <1>2, LineIsSequence
  <1>4. f # <<>> BY <1>1, EmptySeq
  <1>5. Tail(f) \in Seq(S) /\ Len(Tail(f)) = n - 1 /\ \A i \in 1 .. n - 1 : Tail(f)[i] = f[i + 1]
    BY <1>1, <1>4, HeadTailProperties
  <1>6. g = Tail(f) BY <1>3, <1>5, SeqEqual
  <1> QED BY <1>1, <1>4, <1>6

\* The ring from its head on is a sequence of owners.
LEMMA LineType ==
  ASSUME TypeOK
  PROVE  Line \in [1 .. len -> Owner] /\ Len(Line) = len
  <1>1. len \in Nat /\ len <= Cap /\ Cap \in Nat \ {0} /\ head \in 0 .. Cap - 1
    BY CapAssumption DEF TypeOK
  <1>2. ASSUME NEW i \in 1 .. len PROVE slots[Pos(i - 1)] \in Owner
    <2>1. i - 1 \in 0 .. Cap BY <1>1
    <2>2. Pos(i - 1) \in 0 .. Cap - 1 BY <1>1, <2>1, RingIndex DEF Pos
    <2> QED BY <2>2 DEF TypeOK
  <1>3. Line \in [1 .. len -> Owner] BY <1>2 DEF Line
  <1> QED BY <1>1, <1>3, LineIsSequence

\* A step that moves nothing in the ring leaves the line as it is.
LEMMA LineFrame ==
  ASSUME UNCHANGED <<slots, head, len>> PROVE Line' = Line
  BY DEF Line, Pos

-----------------------------------------------------------------------------
(* Fates. *)

\* A fate depends on three things of a connection.
LEMMA FateFrame ==
  ASSUME NEW c \in Conn, done[c]' = done[c],
         (pc[c]' = "wait") = (pc[c] = "wait"), (code[c]' = 429) = (code[c] = 429)
  PROVE  FateOf(c)' = FateOf(c)
  BY DEF FateOf

\* Steps of main and of the environment leave every fate as it is: the only
\* threads they move are those that wait in the backlog or come from it.
LEMMA OthersKeepFates ==
  ASSUME TypeOK, MainStep \/ Environment
  PROVE  Fates' = Fates
  <1> USE DEF mainVars, connVars, jobVars, flagVars, ownVars, resultVars, ResetBacklog, At
  <1>1. UNCHANGED <<done, code>>
    BY DEF MainStep, Environment, LoadEngine, Listen, SpawnWorker, LeaveLoop, Poll, Accept,
       AcceptFails, CloseListener, QueueStop, JoinWorker, CloseEngine, FreeProfile, Return,
       FirstSignal, SecondSignal, PollError, SpuriousWakeup, Connect, PeerChange
  <1>2. ASSUME NEW c \in Conn PROVE (pc[c]' = "wait") = (pc[c] = "wait")
    <2>1. CASE UNCHANGED pc BY <2>1
    <2>2. CASE pc' = ResetBacklog BY <2>2
    <2>3. ASSUME NEW d \in Conn, Accept(d) \/ Connect(d)
          PROVE  (pc[c]' = "wait") = (pc[c] = "wait")
      BY <2>3 DEF Accept, Connect, TypeOK
    <2> QED BY <2>1, <2>2, <2>3
         DEF MainStep, Environment, LoadEngine, Listen, SpawnWorker, LeaveLoop, Poll,
         AcceptFails, CloseListener, QueueStop, JoinWorker, CloseEngine, FreeProfile, Return,
         FirstSignal, SecondSignal, PollError, SpuriousWakeup, PeerChange
  <1>3. \A c \in Conn : FateOf(c)' = FateOf(c) BY <1>1, <1>2, FateFrame
  <1> QED BY <1>3 DEF Fates

\* So does a step of the worker that publishes nothing.
LEMMA WorkerKeepsFates ==
  ASSUME WorkerStep, ~Publish
  PROVE  Fates' = Fates
  <1>1. UNCHANGED <<done, code, pc>>
    BY DEF WorkerStep, Sleep, Dequeue, WorkerReturns, RunSucceeds, EncodeFails, EngineFails,
       CopyEngineError, connVars, jobVars, flagVars
  <1> QED BY <1>1 DEF Fates, FateOf

\* So does a step of a thread that is neither accepted nor refused: it leaves
\* its wait only when its job is done, and no other reply is a 429.
LEMMA ConnKeepsFates ==
  ASSUME TypeOK, ConnPlace, NEW c \in Conn, ConnStep(c), ~Enqueue(c), ~QueueFull(c)
  PROVE  Fates' = Fates
  <1> USE DEF TypeOK, At, Goto, connVars, jobVars, flagVars, ownVars, resultVars
  <1>1. UNCHANGED done
    BY DEF ConnStep, ReadFails, ReadProbe, ReadRequest, StoreUpload, RejectUpload, SubmitAccepts,
       SubmitRefuses, ValidateFails, CopyValidateError, NoticeDisconnect, JobDone, SendHead,
       SendBody, SendFails, FreeJob
  <1>2. CASE JobDone(c)
    <2>1. done[c] /\ \A d \in Conn \ {c} : pc[d]' = pc[d] /\ code[d]' = code[d]
      BY <1>2 DEF JobDone
    <2> QED BY <1>1, <2>1 DEF Fates, FateOf
  <1>3. CASE ~JobDone(c)
    <2>1. ASSUME NEW d \in Conn PROVE (pc[d]' = "wait") = (pc[d] = "wait")
      BY <1>3 DEF ConnStep, ReadFails, ReadProbe, ReadRequest, StoreUpload, RejectUpload,
         SubmitAccepts, SubmitRefuses, ValidateFails, CopyValidateError, NoticeDisconnect,
         SendHead, SendBody, SendFails, FreeJob, AfterReply
    <2>2. ASSUME NEW d \in Conn PROVE (code[d]' = 429) = (code[d] = 429)
      BY <1>3 DEF ConnPlace, ConnStep, ReadFails, ReadProbe, ReadRequest, StoreUpload,
         RejectUpload, SubmitAccepts, SubmitRefuses, ValidateFails, CopyValidateError,
         NoticeDisconnect, SendHead, SendBody, SendFails, FreeJob
    <2>3. \A d \in Conn : FateOf(d)' = FateOf(d) BY <1>1, <2>1, <2>2, FateFrame
    <2> QED BY <2>3 DEF Fates
  <1> QED BY <1>2, <1>3

-----------------------------------------------------------------------------
(* The steps that count. *)

\* enqueue appends to the line.
LEMMA EnqueueAppends ==
  ASSUME TypeOK, NEW c \in Conn, Enqueue(c)
  PROVE  Line' = Append(Line, c)
  <1> USE CapAssumption DEF TypeOK
  <1>1. len \in 0 .. Cap - 1 /\ len' = len + 1 /\ head' = head
        /\ slots' = [slots EXCEPT ![Pos(len)] = c]
    BY DEF Enqueue
  <1>2. PICK n \in 0 .. Cap - 1 : n = len BY <1>1
  <1>3. \A i \in 0 .. Cap - 1 : Pos(i) \in 0 .. Cap - 1 /\ Pos(i)' = Pos(i)
    BY <1>1 DEF Pos
  <1>4. \A i \in 0 .. n - 1 : slots'[Pos(i)'] = slots[Pos(i)]
    BY SMTT(30), <1>1, <1>2, <1>3, PosInjective
  <1>5. slots'[Pos(n)'] = c BY <1>1, <1>2, <1>3
  <1>6. Line \in [1 .. n -> Owner] BY <1>2, LineType
  <1>7. Line' = [i \in 1 .. n + 1 |-> slots'[Pos(i - 1)']]
    <2>1. len' = n + 1 BY <1>1, <1>2
    <2> QED BY <2>1 DEF Line
  <1>8. \A i \in 1 .. n : Line'[i] = Line[i]
    <2>1. \A i \in 1 .. n : i \in 1 .. n + 1 /\ i - 1 \in 0 .. n - 1 BY <1>2
    <2>2. \A i \in 1 .. n : Line[i] = slots[Pos(i - 1)] BY <1>2 DEF Line
    <2>3. \A i \in 1 .. n : Line'[i] = slots'[Pos(i - 1)'] BY <2>1, <1>7
    <2> QED BY <2>1, <2>2, <2>3, <1>4
  <1>9. Line'[n + 1] = c
    <2>1. n + 1 \in 1 .. n + 1 /\ (n + 1) - 1 = n BY <1>2
    <2> QED BY <2>1, <1>5, <1>7
  <1>10. Line' \in [1 .. n + 1 -> Owner]
    <2>1. \A i \in 1 .. n + 1 : i \in 1 .. n \/ i = n + 1 BY <1>2
    <2>2. \A i \in 1 .. n + 1 : Line'[i] \in Owner BY <2>1, <1>6, <1>8, <1>9 DEF Owner
    <2> QED BY <2>2, <1>7
  <1>11. n \in Nat BY <1>2
  <1> QED BY <1>6, <1>8, <1>9, <1>10, <1>11, AppendByPlace

\* dequeue takes the oldest from the line.
LEMMA DequeueTakesHead ==
  ASSUME TypeOK, Dequeue
  PROVE  Line # <<>> /\ current' = Head(Line) /\ Line' = Tail(Line)
  <1> USE CapAssumption DEF TypeOK
  <1>1. len \in 1 .. Cap /\ len' = len - 1 /\ head' = (head + 1) % Cap /\ slots' = slots
        /\ current' = slots[head]
    BY DEF Dequeue, WorkerAt
  <1>2. PICK n \in 1 .. Cap : n = len BY <1>1
  <1>3. Line \in [1 .. n -> Owner] BY <1>2, LineType
  <1>4. \A i \in 1 .. n : Line[i] = slots[Pos(i - 1)] BY <1>2 DEF Line
  <1>5. Line[1] = slots[head]
    <2>1. 1 \in 1 .. n /\ 1 - 1 = 0 BY <1>2
    <2> QED BY <2>1, <1>4, PosZero
  <1>6. Line' = [i \in 1 .. n - 1 |-> slots'[Pos(i - 1)']]
    <2>1. len' = n - 1 BY <1>1, <1>2
    <2> QED BY <2>1 DEF Line
  <1>7. ASSUME NEW i \in 1 .. n - 1 PROVE Line'[i] = Line[i + 1]
    <2>1. i - 1 \in 0 .. Cap - 1 /\ (i - 1) + 1 = i /\ i + 1 \in 1 .. n /\ (i + 1) - 1 = i
      BY <1>2
    <2>2. Pos(i - 1)' = Pos(i) BY <1>1, <2>1, PosShift
    <2>3. Line[i + 1] = slots[Pos(i)] BY <2>1, <1>4
    <2> QED BY <1>1, <1>6, <2>2, <2>3
  <1>8. Line' \in [1 .. n - 1 -> Owner]
    <2>1. \A i \in 1 .. n - 1 : i + 1 \in 1 .. n BY <1>2
    <2>2. \A i \in 1 .. n - 1 : Line'[i] \in Owner BY <2>1, <1>3, <1>7
    <2> QED BY <2>2, <1>6
  <1>9. n \in Nat \ {0} BY <1>2
  <1> QED BY <1>1, <1>3, <1>5, <1>7, <1>8, <1>9, TailByPlace

\* A thread that is about to enqueue has a new job.
LEMMA EnqueuersAreNew ==
  ASSUME ConnPlace, NEW c \in Conn, pc[c] = "enqueue"
  PROVE  FateOf(c) = "new" /\ ~done[c] /\ code[c] = 0
  BY DEF ConnPlace, FateOf

\* An enqueue is an acceptance.
LEMMA EnqueueAccepts ==
  ASSUME IInv, NEW c \in Conn, Enqueue(c)
  PROVE  Service!Accept(c)
  <1> USE DEF IInv
  <1>1. pc[c] = "enqueue" /\ ~stopping /\ len < Cap /\ pc' = [pc EXCEPT ![c] = "wait"]
        /\ UNCHANGED <<done, code, current, stopping>>
    BY DEF Enqueue, At, Goto, jobVars, flagVars
  <1>2. FateOf(c) = "new" /\ ~done[c] BY <1>1, EnqueuersAreNew
  <1>3. Line' = Append(Line, c) BY EnqueueAppends
  <1>4. Len(Line) = len BY LineType
  <1>5. pc'[c] = "wait" /\ \A d \in Conn \ {c} : pc'[d] = pc[d] BY <1>1 DEF TypeOK
  <1>6. FateOf(c)' = "accepted" /\ \A d \in Conn \ {c} : FateOf(d)' = FateOf(d)
    BY <1>1, <1>2, <1>5 DEF FateOf
  <1>7. Fates' = [Fates EXCEPT ![c] = "accepted"] BY <1>6 DEF Fates
  <1>8. Fates[c] = "new" BY <1>2 DEF Fates
  <1> QED BY <1>1, <1>3, <1>4, <1>7, <1>8 DEF Service!Accept, Line, Fates

\* A 429 is a refusal, and the service is full or closing then.
LEMMA QueueFullRefuses ==
  ASSUME IInv, NEW c \in Conn, QueueFull(c)
  PROVE  Service!Refuse(c)
  <1> USE DEF IInv
  <1>1. pc[c] = "enqueue" /\ (stopping \/ len >= Cap) /\ pc' = [pc EXCEPT ![c] = "head"]
        /\ code' = [code EXCEPT ![c] = 429]
        /\ UNCHANGED <<done, current, stopping, slots, head, len>>
    BY DEF QueueFull, At, Goto, jobVars, flagVars, queueVars, workerVars
  <1>2. FateOf(c) = "new" /\ ~done[c] BY <1>1, EnqueuersAreNew
  <1>3. Line' = Line BY <1>1, LineFrame
  <1>4. Len(Line) = len BY LineType
  <1>5. stopping \/ len = Cap BY <1>1, CapAssumption DEF TypeOK
  <1>6. /\ pc'[c] = "head" /\ code'[c] = 429
        /\ \A d \in Conn \ {c} : pc'[d] = pc[d] /\ code'[d] = code[d]
    BY <1>1 DEF TypeOK
  <1>7. FateOf(c)' = "refused" /\ \A d \in Conn \ {c} : FateOf(d)' = FateOf(d)
    BY <1>1, <1>2, <1>6 DEF FateOf
  <1>8. Fates' = [Fates EXCEPT ![c] = "refused"] BY <1>7 DEF Fates
  <1>9. Fates[c] = "new" BY <1>2 DEF Fates
  <1> QED BY <1>1, <1>3, <1>4, <1>5, <1>8, <1>9 DEF Service!Refuse, Line, Fates

\* The worker that takes a job starts it.
LEMMA DequeueStarts ==
  ASSUME IInv, Dequeue
  PROVE  Service!Start
  <1> USE DEF IInv
  <1>1. current = NoConn /\ UNCHANGED <<stopping, done, code, pc>>
    BY DEF Dequeue, WorkerAt, WorkerPlace, connVars, jobVars, flagVars
  <1>2. Line # <<>> /\ current' = Head(Line) /\ Line' = Tail(Line) BY DequeueTakesHead
  <1>3. Fates' = Fates BY <1>1 DEF Fates, FateOf
  <1> QED BY <1>1, <1>2, <1>3 DEF Service!Start, Line, Fates

\* The worker that publishes a result finishes the job.
LEMMA PublishFinishes ==
  ASSUME IInv, Publish
  PROVE  Service!Finish
  <1> USE DEF IInv
  <1>1. current \in Conn /\ current # NoConn /\ current' = NoConn
        /\ done' = [done EXCEPT ![current] = TRUE]
        /\ UNCHANGED <<stopping, code, pc, slots, head, len>>
    BY DEF Publish, WorkerAt, WorkerPlace, TypeOK, Owner, queueVars
  <1>2. Line' = Line BY <1>1, LineFrame
  <1>3. PICK c \in Conn : c = current BY <1>1
  <1>4. done'[c] /\ \A d \in Conn \ {c} : done'[d] = done[d] BY <1>1, <1>3 DEF TypeOK
  <1>5. FateOf(c)' = "served" /\ \A d \in Conn \ {c} : FateOf(d)' = FateOf(d)
    BY ZenonT(60), <1>1, <1>4 DEF FateOf
  <1>6. Fates' = [Fates EXCEPT ![c] = "served"] BY <1>5 DEF Fates
  <1> QED BY <1>1, <1>2, <1>3, <1>6 DEF Service!Finish, Line, Fates

\* Every step of the server is a step of the service or leaves it alone.
LEMMA ServiceStep ==
  ASSUME IInv, [Next \/ Ended]_vars
  PROVE  [Service!Next]_(Service!vars)
  <1> USE DEF IInv
  <1>f. ASSUME UNCHANGED <<slots, head, len, current, stopping>>, Fates' = Fates
        PROVE  UNCHANGED Service!vars
    <2>1. Line' = Line BY <1>f, LineFrame
    <2> QED BY <1>f, <2>1 DEF Service!vars, Line, Fates
  <1>1. CASE MainStep \/ Environment
    <2>1. Fates' = Fates BY <1>1, OthersKeepFates
    <2>2. CASE QueueStop
      <3>1. UNCHANGED <<slots, head, len, current>> /\ stopping' = TRUE BY <2>2 DEF QueueStop
      <3>2. Line' = Line BY <3>1, LineFrame
      <3>3. Service!Close BY <2>1, <3>1, <3>2 DEF Service!Close, Line, Fates
      <3> QED BY <3>3 DEF Service!Next
    <2>3. CASE ~QueueStop
      <3>1. UNCHANGED <<slots, head, len, current, stopping>>
        BY <1>1, <2>3 DEF MainStep, Environment, LoadEngine, Listen, SpawnWorker, LeaveLoop, Poll,
           Accept, AcceptFails, CloseListener, JoinWorker, CloseEngine, FreeProfile, Return,
           FirstSignal, SecondSignal, PollError, SpuriousWakeup, Connect, PeerChange, queueVars,
           workerVars
      <3> QED BY <1>f, <2>1, <3>1
    <2> QED BY <2>2, <2>3
  <1>2. CASE WorkerStep
    <2>1. CASE Dequeue BY <2>1, DequeueStarts DEF Service!Next
    <2>2. CASE Publish BY <2>2, PublishFinishes DEF Service!Next
    <2>3. CASE ~Dequeue /\ ~Publish
      <3>1. Fates' = Fates BY <1>2, <2>3, WorkerKeepsFates
      <3>2. UNCHANGED <<slots, head, len, current, stopping>>
        BY <1>2, <2>3 DEF WorkerStep, Sleep, WorkerReturns, RunSucceeds, EncodeFails, EngineFails,
           CopyEngineError, queueVars
      <3> QED BY <1>f, <3>1, <3>2
    <2> QED BY <2>1, <2>2, <2>3
  <1>3. ASSUME NEW c \in Conn, ConnStep(c) PROVE [Service!Next]_(Service!vars)
    <2>1. CASE Enqueue(c) BY <2>1, EnqueueAccepts DEF Service!Next
    <2>2. CASE QueueFull(c) BY <2>2, QueueFullRefuses DEF Service!Next
    <2>3. CASE ~Enqueue(c) /\ ~QueueFull(c)
      <3>1. Fates' = Fates BY <1>3, <2>3, ConnKeepsFates
      <3>2. UNCHANGED <<slots, head, len, current, stopping>>
        BY <1>3, <2>3 DEF ConnStep, ReadFails, ReadProbe, ReadRequest, StoreUpload, RejectUpload,
           SubmitAccepts, SubmitRefuses, ValidateFails, CopyValidateError, NoticeDisconnect,
           JobDone, SendHead, SendBody, SendFails, FreeJob, queueVars, workerVars
      <3> QED BY <1>f, <3>1, <3>2
    <2> QED BY <2>1, <2>2, <2>3
  <1>4. CASE Ended \/ UNCHANGED vars
    <2>1. UNCHANGED <<slots, head, len, current, stopping, done, code, pc>>
      BY <1>4 DEF Ended, vars, queueVars, workerVars, connVars, jobVars, flagVars
    <2>2. Fates' = Fates BY <2>1 DEF Fates, FateOf
    <2> QED BY <1>f, <2>1, <2>2
  <1> QED BY <1>1, <1>2, <1>3, <1>4 DEF Next

\* At the start nothing waits and every job is new.
LEMMA ServiceInit == Init => Service!Init
  <1> SUFFICES ASSUME Init PROVE Service!Init OBVIOUS
  <1>1. len = 0 /\ current = NoConn /\ stopping = FALSE
        /\ \A c \in Conn : ~done[c] /\ pc[c] = "absent" /\ code[c] = 0
    BY DEF Init
  <1>2. Line = <<>>
    <2>1. Line \in [1 .. 0 -> Owner] BY <1>1 DEF Line
    <2>2. Line \in Seq(Owner) /\ Len(Line) = 0 BY <2>1, LineIsSequence
    <2> QED BY <2>2, EmptySeq
  <1>3. \A c \in Conn : FateOf(c) = "new" BY <1>1 DEF FateOf
  <1>4. Fates = [c \in Conn |-> "new"] BY <1>3 DEF Fates
  <1> QED BY <1>1, <1>2, <1>4 DEF Service!Init, Line, Fates

\* The server serves its jobs one at a time, first come first served; it refuses
\* one only when the ring is full or closing, and serves what it accepted before
\* the stop, for every queue depth and however many connections.
THEOREM ServerImplementsService == Spec => ImplementsService
  <1>1. IInv /\ [Next \/ Ended]_vars => [Service!Next]_(Service!vars) BY ServiceStep
  <1> QED BY <1>1, ServiceInit, Invariance, PTL DEF Spec, ImplementsService, Service!Spec
=============================================================================
