--------------------------- MODULE JobRun_proofs ---------------------------
(***************************************************************************)
(* Proofs about JobRun, for any limits, any widths and any requests.        *)
(***************************************************************************)
EXTENDS JobRun, FiniteSetTheorems, TLAPS

USE RequestsAssumption

\* The seed of an image is one.
LEMMA SeedsAreSeeds ==
  ASSUME NEW a \in 0 .. SeedModulus - 1, NEW b \in Nat
  PROVE  (a + b) % SeedModulus \in 0 .. SeedModulus - 1
  <1> DEFINE m == SeedModulus
  <1>1. m \in Nat \ {0} /\ a \in 0 .. m - 1 OBVIOUS
  <1> HIDE DEF m
  <1>2. (a + b) % m \in 0 .. m - 1 BY <1>1
  <1> QED BY <1>2 DEF m

\* So many images are stored as the set of their positions has members.
LEMMA StoredCount == ASSUME NEW k \in Nat PROVE Cardinality(1 .. k) = k
  BY FS_Interval

\* The sizes the engine may be asked for are those of the buckets.
LEMMA SizesAreBuckets ==
  ASSUME NEW f, NEW size \in EngineSizes(f)
  PROVE  size \in {<<32 * b[1], 32 * b[2]>> : b \in Buckets}
  <1>1. CASE size = <<2048, 2048>>
    <2>1. <<64, 64>> \in Buckets BY DEF Buckets
    <2> QED BY <1>1, <2>1
  <1>2. CASE size # <<2048, 2048>>
    <2>1. size \in Snaps(f.size[1], f.size[2]) BY <1>2 DEF EngineSizes
    <2> QED BY <2>1 DEF Snaps
  <1> QED BY <1>1, <1>2

\* A job that the rules let through fits together.
LEMMA VerdictIsSound ==
  ASSUME NEW f \in Requests, NEW size \in EngineSizes(f), NEW s,
         profile \in Profiles, Refs(f) <= MaxRefs,
         f.endpoint \in {"generations", "edits"},
         Verdict(f, size, profile) = 0
  PROVE  LET j == Job(f, size, profile, s)
         IN  /\ j.n \in 1 .. MaxN
             /\ j.steps \in 1 .. StepLimit
             /\ j.size \in {<<32 * b[1], 32 * b[2]>> : b \in Buckets}
             /\ j.refs <= MaxRefs /\ j.aliases \in {0, j.refs}
             /\ j.refs = 0 <=> f.endpoint = "generations"
             /\ j.mode = "edit" => j.refs = 1
             /\ j.mode = "personalize" => j.refs > 1
             /\ j.mode = "layout" => j.refs > 0 /\ j.layout
             /\ j.mode \in Modes \ {"skeleton"}
             /\ j.scheduler = "default" => profile = "base"
  <1>1. ~Unacceptable(f, size, profile) BY DEF Verdict
  <1>2. Refs(f) \in Nat /\ (f.endpoint # "edits" => Refs(f) = 0) BY DEF Refs
  <1>3. Images(f) \in 1 .. MaxN /\ Steps(f, profile) \in 1 .. StepLimit
    BY <1>1 DEF Unacceptable, Invalid
  <1>4. f.aliases \in {0, Refs(f)} BY <1>1 DEF Unacceptable, AliasesRefused
  <1>5. f.endpoint = "edits" => Refs(f) # 0 BY <1>1 DEF Unacceptable
  <1>6. ~ModeRefused(f) BY <1>1 DEF Unacceptable
  <1>7. /\ Mode(f) \in Modes \ {"skeleton"}
        /\ Mode(f) = "edit" => Refs(f) = 1
        /\ Mode(f) = "personalize" => Refs(f) > 1
        /\ Mode(f) = "layout" => Refs(f) > 0 /\ f.layout # Absent
    BY <1>2, <1>5, <1>6 DEF Mode, DerivedMode, ModeRefused, Modes
  <1>8. Scheduler(f, profile) = "default" => profile = "base" BY DEF Scheduler
  <1>9. size \in {<<32 * b[1], 32 * b[2]>> : b \in Buckets} BY SizesAreBuckets
  <1> DEFINE j == Job(f, size, profile, s)
  <1>10. /\ j.n = Images(f) /\ j.steps = Steps(f, profile) /\ j.size = size /\ j.refs = Refs(f)
         /\ j.aliases = f.aliases /\ j.mode = Mode(f) /\ j.layout = (f.layout # Absent)
         /\ j.scheduler = Scheduler(f, profile)
    BY DEF Job
  <1> HIDE DEF j
  <1>11. /\ j.n \in 1 .. MaxN /\ j.steps \in 1 .. StepLimit
         /\ j.size \in {<<32 * b[1], 32 * b[2]>> : b \in Buckets}
    BY <1>3, <1>9, <1>10
  <1>12. /\ j.refs <= MaxRefs /\ j.aliases \in {0, j.refs}
         /\ j.refs = 0 <=> f.endpoint = "generations"
    BY <1>2, <1>4, <1>5, <1>10
  <1>13. /\ j.mode = "edit" => j.refs = 1
         /\ j.mode = "personalize" => j.refs > 1
         /\ j.mode = "layout" => j.refs > 0 /\ j.layout
         /\ j.mode \in Modes \ {"skeleton"}
    BY <1>7, <1>10
  <1>14. j.scheduler = "default" => profile = "base" BY <1>8, <1>10
  <1> QED BY <1>11, <1>12, <1>13, <1>14 DEF j

\* The invariant holds when the server starts.
LEMMA InitHolds == Init => IInv
  <1> SUFFICES ASSUME Init PROVE IInv OBVIOUS
  <1>1. seed \in 0 .. SeedModulus - 1 /\ data \in Seq(0 .. SeedModulus - 1) BY DEF Init
  <1>2. TypeOK BY <1>1 DEF Init, TypeOK, Values
  <1> QED
    BY <1>2 DEF Init, IInv, ImagesAreServed, UploadsInOrder, EndpointKnown, JobUnderWay, SavedIsShell,
                EnvIsOwn, FilesFollowJob, BodyIsWhole, AdmittedFits

\* An answer leaves no file and no image behind.
LEMMA AnswerHolds ==
  ASSUME IInv, NEW status \in {400, 404, 413, 429, 500}, Answer(status), UNCHANGED Process,
         pc \in {"read", "upload"}
  PROVE  IInv'
  <1>1. /\ pc' = "answered" /\ files' = {} /\ reply' = status
        /\ UNCHANGED <<profile, shell, env, saved, fields, job, seed, data>>
    BY DEF Answer, Process, Work
  <1>2. job = NoJob /\ data = <<>> /\ env = shell /\ fields \in Requests
    BY DEF IInv, JobUnderWay, EnvIsOwn, UploadsInOrder
  <1>3. TypeOK' BY <1>1 DEF IInv, TypeOK
  <1>4. UploadsInOrder' /\ EndpointKnown' /\ JobUnderWay' /\ SavedIsShell'
    BY <1>1, <1>2 DEF UploadsInOrder, EndpointKnown, JobUnderWay, SavedIsShell
  <1>5. EnvIsOwn' /\ FilesFollowJob' BY <1>1, <1>2 DEF EnvIsOwn, FilesFollowJob
  <1>6. ImagesAreServed' /\ BodyIsWhole' /\ AdmittedFits'
    BY <1>1, <1>2 DEF ImagesAreServed, BodyIsWhole, AdmittedFits
  <1> QED BY <1>3, <1>4, <1>5, <1>6 DEF IInv

\* The steps of the connection thread before the job is there.
LEMMA ReadingHolds ==
  ASSUME IInv, Arrive \/ Refuse \/ Read \/ Upload \/ UploadFails \/ SubmitFails
  PROVE  IInv'
  <1>1. CASE Arrive
    <2>1. /\ pc = "idle" /\ pc' = "read" /\ fields' \in Requests
          /\ UNCHANGED <<profile, shell, env, saved, files, job, seed, data, reply>>
      BY <1>1 DEF Arrive, Process, Work
    <2>2. job = NoJob /\ data = <<>> /\ env = shell /\ files = {}
      BY <2>1 DEF IInv, JobUnderWay, EnvIsOwn, FilesFollowJob
    <2>3. TypeOK' BY <2>1 DEF IInv, TypeOK
    <2>4. UploadsInOrder' /\ EndpointKnown' /\ JobUnderWay' /\ SavedIsShell'
      BY <2>1, <2>2 DEF UploadsInOrder, EndpointKnown, JobUnderWay, SavedIsShell
    <2>5. ImagesAreServed' /\ EnvIsOwn' /\ FilesFollowJob' /\ BodyIsWhole' /\ AdmittedFits'
      BY <2>1, <2>2 DEF ImagesAreServed, EnvIsOwn, FilesFollowJob, BodyIsWhole, AdmittedFits
    <2> QED BY <2>3, <2>4, <2>5 DEF IInv
  <1>2. CASE Refuse
    BY <1>2, AnswerHolds DEF Refuse
  <1>3. CASE Read
    <2>1. /\ pc = "read" /\ pc' = "upload"
          /\ UNCHANGED <<profile, shell, env, saved, fields, files, job, seed, data, reply>>
      BY <1>3 DEF Read, Process, Work
    <2>2. job = NoJob /\ data = <<>> /\ env = shell /\ files = {} /\ fields \in Requests
      BY <2>1 DEF IInv, JobUnderWay, EnvIsOwn, FilesFollowJob, UploadsInOrder
    <2>3. TypeOK' BY <2>1 DEF IInv, TypeOK
    <2>4. 0 \in 0 .. MaxRefs /\ 0 <= Refs(fields) /\ files = 1 .. 0
      BY <2>2 DEF Refs
    <2>5. UploadsInOrder' BY <2>1, <2>2, <2>4 DEF UploadsInOrder, Refs
    <2>6. JobUnderWay' /\ SavedIsShell' /\ EndpointKnown'
      BY <1>3, <2>1, <2>2 DEF Read, JobUnderWay, SavedIsShell, EndpointKnown
    <2>7. ImagesAreServed' /\ EnvIsOwn' /\ FilesFollowJob' /\ BodyIsWhole' /\ AdmittedFits'
      BY <2>1, <2>2 DEF ImagesAreServed, EnvIsOwn, FilesFollowJob, BodyIsWhole, AdmittedFits
    <2> QED BY <2>3, <2>5, <2>6, <2>7 DEF IInv
  <1>4. CASE Upload
    <2>1. /\ pc = "upload" /\ pc' = pc /\ files' = files \cup {NextUpload}
          /\ Left /\ NextUpload <= MaxRefs
          /\ UNCHANGED <<profile, shell, env, saved, fields, job, seed, data, reply>>
      BY <1>4 DEF Upload, Process, Work
    <2>2. job = NoJob /\ data = <<>> /\ env = shell /\ fields \in Requests
      BY <2>1 DEF IInv, JobUnderWay, EnvIsOwn, UploadsInOrder
    <2>3. TypeOK' BY <2>1 DEF IInv, TypeOK
    <2>4. PICK k \in 0 .. MaxRefs : k <= Refs(fields) /\ files = 1 .. k
      BY <2>1 DEF IInv, UploadsInOrder
    <2>5. Cardinality(files) = k BY <2>4, StoredCount
    <2>6. Refs(fields) \in Nat BY <2>2 DEF Refs
    <2>7. k + 1 \in 0 .. MaxRefs /\ k + 1 <= Refs(fields)
      BY <2>1, <2>5, <2>6 DEF Left, NextUpload
    <2>8. files' = 1 .. (k + 1) BY <2>1, <2>4, <2>5 DEF NextUpload
    <2>9. UploadsInOrder' BY <2>1, <2>2, <2>7, <2>8 DEF UploadsInOrder, Refs
    <2>10. JobUnderWay' /\ SavedIsShell' /\ EndpointKnown'
      BY <2>1, <2>2 DEF JobUnderWay, SavedIsShell, IInv, EndpointKnown
    <2>11. ImagesAreServed' /\ EnvIsOwn' /\ FilesFollowJob' /\ BodyIsWhole' /\ AdmittedFits'
      BY <2>1, <2>2 DEF ImagesAreServed, EnvIsOwn, FilesFollowJob, BodyIsWhole, AdmittedFits
    <2> QED BY <2>3, <2>9, <2>10, <2>11 DEF IInv
  <1>5. CASE UploadFails
    BY <1>5, AnswerHolds DEF UploadFails
  <1>6. CASE SubmitFails
    <2>1. PICK size \in EngineSizes(fields) :
            LET verdict == Verdict(fields, size, profile)
            IN  Answer(IF verdict = 0 THEN 429 ELSE verdict)
      BY <1>6 DEF SubmitFails
    <2>2. Verdict(fields, size, profile) \in {0, 400, 404} BY DEF Verdict
    <2> QED BY <1>6, <2>1, <2>2, AnswerHolds DEF SubmitFails
  <1> QED BY <1>1, <1>2, <1>3, <1>4, <1>5, <1>6

\* The job is filled in: it fits together, and its images are stored.
LEMMA SubmitHolds == ASSUME IInv, Submit PROVE IInv'
  <1>1. PICK size \in EngineSizes(fields), s \in SeedsFor(fields) :
          Verdict(fields, size, profile) = 0 /\ job' = Job(fields, size, profile, s)
    BY DEF Submit
  <1>2. /\ pc = "upload" /\ ~Left /\ pc' = "queued"
        /\ UNCHANGED <<profile, shell, env, saved, fields, files, seed, data, reply>>
    BY DEF Submit, Process
  <1>3. data = <<>> /\ env = shell /\ fields \in Requests /\ profile \in Profiles
    BY <1>2 DEF IInv, JobUnderWay, EnvIsOwn, UploadsInOrder, TypeOK
  <1>4. PICK k \in 0 .. MaxRefs : k <= Refs(fields) /\ files = 1 .. k
    BY <1>2 DEF IInv, UploadsInOrder
  <1>5. Refs(fields) \in Nat BY <1>3 DEF Refs
  <1>6. k = Refs(fields)
    <2>1. Cardinality(files) = k BY <1>4, StoredCount
    <2> QED BY <1>2, <1>4, <1>5, <2>1 DEF Left
  <1> DEFINE j == Job(fields, size, profile, s)
  <1>7. s \in 0 .. SeedModulus - 1 BY <1>3 DEF SeedsFor
  <1>8. /\ j.refs = Refs(fields) /\ j.seed = s /\ j.n = Images(fields)
    BY DEF Job
  <1>9. Refs(fields) <= MaxRefs BY <1>4, <1>6
  <1>10. Images(fields) \in 1 .. MaxN BY <1>1 DEF Verdict, Unacceptable
  <1>11. fields.endpoint \in {"generations", "edits"}
    BY <1>2, <1>3 DEF IInv, EndpointKnown
  <1>12. AdmittedFits'
    BY <1>1, <1>2, <1>3, <1>9, <1>11, VerdictIsSound DEF AdmittedFits
  <1> HIDE DEF j
  <1>13. job' = j BY <1>1 DEF j
  <1>14. files' = 1 .. job'.refs BY <1>2, <1>4, <1>6, <1>8, <1>13
  <1>15. job'.n \in Nat \ {0} /\ job'.seed \in 0 .. SeedModulus - 1 BY <1>7, <1>8, <1>10, <1>13
  <1>16. TypeOK' BY <1>2 DEF IInv, TypeOK
  <1>17. UploadsInOrder' BY <1>2, <1>3, <1>14 DEF UploadsInOrder
  <1>18. JobUnderWay' /\ SavedIsShell' BY <1>2, <1>3, <1>15 DEF JobUnderWay, SavedIsShell
  <1>19. ImagesAreServed' /\ EnvIsOwn' /\ FilesFollowJob' /\ BodyIsWhole'
    BY <1>2, <1>3, <1>14 DEF ImagesAreServed, EnvIsOwn, FilesFollowJob, BodyIsWhole
  <1>20. EndpointKnown' BY <1>2 DEF IInv, EndpointKnown
  <1> QED BY <1>12, <1>16, <1>17, <1>18, <1>19, <1>20 DEF IInv

\* The worker saves the variable and starts.
LEMMA StartHolds == ASSUME IInv, Start PROVE IInv'
  <1>1. /\ pc = "queued" /\ pc' = "generate" /\ saved' = env /\ seed' = job.seed
        /\ env' = (IF job.verbose THEN "1" ELSE Unset)
        /\ UNCHANGED <<profile, shell, fields, files, job, data, reply>>
    BY DEF Start
  <1>2. /\ data = <<>> /\ env = shell /\ fields \in Requests /\ files = 1 .. job.refs
        /\ job.n \in Nat \ {0} /\ job.seed \in 0 .. SeedModulus - 1
        /\ fields.endpoint \in {"generations", "edits"} /\ AdmittedFits
    BY <1>1 DEF IInv, JobUnderWay, EnvIsOwn, UploadsInOrder, EndpointKnown
  <1>3. TypeOK' BY <1>1, <1>2 DEF IInv, TypeOK, Values
  <1>4. UploadsInOrder' /\ EndpointKnown' BY <1>1, <1>2 DEF UploadsInOrder, EndpointKnown
  <1>5. JobUnderWay' /\ SavedIsShell' BY <1>1, <1>2 DEF JobUnderWay, SavedIsShell
  <1>6. ImagesAreServed' /\ EnvIsOwn' /\ FilesFollowJob' /\ BodyIsWhole' /\ AdmittedFits'
    BY <1>1, <1>2 DEF ImagesAreServed, EnvIsOwn, FilesFollowJob, BodyIsWhole, AdmittedFits
  <1> QED BY <1>3, <1>4, <1>5, <1>6 DEF IInv

\* The engine makes an image with the next seed.
LEMMA GenerateHolds == ASSUME IInv, Generate PROVE IInv'
  <1>1. /\ pc = "generate" /\ pc' = "encode" /\ Len(data) < job.n
        /\ seed' = (job.seed + Len(data)) % SeedModulus
        /\ UNCHANGED <<profile, shell, env, saved, fields, files, job, data, reply>>
        /\ EngineServes(job)
    BY DEF Generate, Process
  <1>2. job.seed \in 0 .. SeedModulus - 1 BY <1>1 DEF IInv, JobUnderWay
  <1>3. data \in Seq(0 .. SeedModulus - 1) /\ Len(data) \in Nat BY DEF IInv, TypeOK
  <1>4. seed' \in 0 .. SeedModulus - 1 BY <1>1, <1>2, <1>3, SeedsAreSeeds
  <1>5. TypeOK' BY <1>1, <1>4 DEF IInv, TypeOK
  <1>6. UploadsInOrder' /\ EndpointKnown'
    BY <1>1 DEF IInv, UploadsInOrder, EndpointKnown
  <1>7. JobUnderWay' /\ SavedIsShell' BY <1>1 DEF IInv, JobUnderWay, SavedIsShell
  <1>8. ImagesAreServed' /\ EnvIsOwn' /\ FilesFollowJob' /\ BodyIsWhole' /\ AdmittedFits'
    BY <1>1 DEF IInv, ImagesAreServed, EngineServes, EnvIsOwn, FilesFollowJob, BodyIsWhole,
                AdmittedFits
  <1> QED BY <1>5, <1>6, <1>7, <1>8 DEF IInv

\* The image is put behind those before it.
LEMMA EncodeHolds == ASSUME IInv, Encode PROVE IInv'
  <1>1. /\ pc = "encode" /\ pc' = "generate" /\ data' = Append(data, seed)
        /\ UNCHANGED <<profile, shell, env, saved, fields, files, job, seed, reply>>
    BY DEF Encode, Process
  <1>2. /\ seed \in 0 .. SeedModulus - 1 /\ data \in Seq(0 .. SeedModulus - 1)
        /\ Len(data) \in Nat
    BY DEF IInv, TypeOK
  <1>3. /\ data' \in Seq(0 .. SeedModulus - 1) /\ Len(data') = Len(data) + 1
        /\ data'[Len(data) + 1] = seed
        /\ \A k \in 1 .. Len(data) : data'[k] = data[k]
    BY <1>1, <1>2
  <1>4. /\ Len(data) < job.n /\ seed = (job.seed + Len(data)) % SeedModulus
        /\ \A k \in 1 .. Len(data) : data[k] = (job.seed + k - 1) % SeedModulus
        /\ job.n \in Nat \ {0} /\ job.seed \in 0 .. SeedModulus - 1
    BY <1>1 DEF IInv, JobUnderWay
  <1>5. Len(data') <= job.n BY <1>2, <1>3, <1>4
  <1>6. \A k \in 1 .. Len(data') : data'[k] = (job.seed + k - 1) % SeedModulus
    <2> SUFFICES ASSUME NEW k \in 1 .. Len(data')
                 PROVE  data'[k] = (job.seed + k - 1) % SeedModulus
      OBVIOUS
    <2>1. CASE k \in 1 .. Len(data)
      <3>1. data'[k] = data[k] BY <1>3, <2>1
      <3>2. data[k] = (job.seed + k - 1) % SeedModulus BY <1>4, <2>1
      <3> QED BY <3>1, <3>2
    <2>2. CASE k = Len(data) + 1
      <3>1. job.seed + k - 1 = job.seed + Len(data) BY <1>2, <1>4, <2>2
      <3>2. data'[k] = seed BY <1>3, <2>2
      <3> QED BY <1>4, <3>1, <3>2
    <2> QED BY <1>2, <1>3, <2>1, <2>2
  <1>7. TypeOK' BY <1>1, <1>3 DEF IInv, TypeOK
  <1>8. UploadsInOrder' /\ EndpointKnown' /\ SavedIsShell'
    BY <1>1 DEF IInv, UploadsInOrder, EndpointKnown, SavedIsShell
  <1>9. JobUnderWay' BY <1>1, <1>4, <1>5, <1>6 DEF JobUnderWay
  <1>10. ImagesAreServed' /\ EnvIsOwn' /\ FilesFollowJob' /\ BodyIsWhole' /\ AdmittedFits'
    BY <1>1 DEF IInv, ImagesAreServed, EnvIsOwn, FilesFollowJob, BodyIsWhole, AdmittedFits
  <1> QED BY <1>7, <1>8, <1>9, <1>10 DEF IInv

\* The job ends, well or not: the variable is put back.
LEMMA EndHolds == ASSUME IInv, Fail \/ Finish PROVE IInv'
  <1>1. /\ pc \in {"generate", "encode"} /\ pc' = "done" /\ env' = saved
        /\ UNCHANGED <<profile, shell, saved, fields, files, job, seed>>
    BY DEF Fail, Finish, Restore
  <1>2. \/ reply' = 500 /\ data' = <<>>
        \/ reply' = 200 /\ data' = data /\ pc = "generate" /\ Len(data) = job.n
    BY DEF Fail, Finish
  <1>3. /\ saved = shell /\ fields \in Requests /\ files = 1 .. job.refs
        /\ job.n \in Nat \ {0} /\ job.seed \in 0 .. SeedModulus - 1
        /\ \A k \in 1 .. Len(data) : data[k] = (job.seed + k - 1) % SeedModulus
    BY <1>1 DEF IInv, SavedIsShell, UploadsInOrder, JobUnderWay
  <1>4. TypeOK'
    <2> DEFINE Bodies == Seq(0 .. SeedModulus - 1)
    <2>1. <<>> \in Bodies OBVIOUS
    <2>2. data \in Bodies BY DEF IInv, TypeOK
    <2> HIDE DEF Bodies
    <2>3. data' = <<>> \/ data' = data BY <1>2
    <2>4. data' \in Bodies BY <2>1, <2>2, <2>3
    <2> QED BY <1>1, <2>4 DEF IInv, TypeOK, Bodies
  <1>5. UploadsInOrder' /\ EndpointKnown' /\ SavedIsShell' /\ JobUnderWay'
    BY <1>1, <1>3 DEF UploadsInOrder, EndpointKnown, SavedIsShell, JobUnderWay
  <1>6. ImagesAreServed' /\ EnvIsOwn' /\ FilesFollowJob'
    BY <1>1, <1>2, <1>3 DEF IInv, ImagesAreServed, EnvIsOwn, FilesFollowJob
  <1>7. BodyIsWhole'
    <2>1. Len(data) = job.n => data # <<>> BY <1>3
    <2>2. reply' = 200 => EngineServes(job) BY <1>2, <2>1 DEF IInv, ImagesAreServed
    <2>3. job' = job BY <1>1
    <2>4. (reply' = 200 => EngineServes(job)) => (reply' = 200 => EngineServes(job)')
      BY <2>3 DEF EngineServes
    <2> QED BY <1>1, <1>2, <1>3, <2>2, <2>4 DEF BodyIsWhole
  <1>8. AdmittedFits' BY <1>1 DEF IInv, AdmittedFits
  <1> QED BY <1>4, <1>5, <1>6, <1>7, <1>8 DEF IInv

\* The answer goes out, and the next request may come.
LEMMA AfterwardsHolds == ASSUME IInv, Deliver \/ Leave PROVE IInv'
  <1>1. CASE Deliver
    <2>1. /\ pc = "done" /\ pc' = "answered" /\ files' = {}
          /\ UNCHANGED <<profile, shell, env, saved, fields, job, seed, data, reply>>
      BY <1>1 DEF Deliver, Process, Work
    <2>2. TypeOK' BY <2>1 DEF IInv, TypeOK
    <2>3. UploadsInOrder' /\ EndpointKnown' /\ SavedIsShell' /\ JobUnderWay'
      BY <2>1 DEF IInv, UploadsInOrder, EndpointKnown, SavedIsShell, JobUnderWay
    <2>4. ImagesAreServed' /\ EnvIsOwn' /\ FilesFollowJob' /\ BodyIsWhole' /\ AdmittedFits'
      BY <2>1 DEF IInv, ImagesAreServed, EnvIsOwn, FilesFollowJob, BodyIsWhole, AdmittedFits
    <2> QED BY <2>2, <2>3, <2>4 DEF IInv
  <1>2. CASE Leave
    <2>1. /\ pc = "answered" /\ pc' = "idle" /\ job' = NoJob /\ data' = <<>>
          /\ seed' = 0 /\ saved' = Unset /\ UNCHANGED <<files, profile, shell, env>>
      BY <1>2 DEF Leave
    <2>2. files = {} /\ env = shell BY <2>1 DEF IInv, FilesFollowJob, EnvIsOwn
    <2>3. TypeOK' BY <2>1 DEF IInv, TypeOK, Values
    <2>4. UploadsInOrder' /\ EndpointKnown' /\ SavedIsShell' /\ JobUnderWay'
      BY <2>1 DEF UploadsInOrder, EndpointKnown, SavedIsShell, JobUnderWay
    <2>5. ImagesAreServed' /\ EnvIsOwn' /\ FilesFollowJob' /\ BodyIsWhole' /\ AdmittedFits'
      BY <2>1, <2>2 DEF ImagesAreServed, EnvIsOwn, FilesFollowJob, BodyIsWhole, AdmittedFits
    <2> QED BY <2>3, <2>4, <2>5 DEF IInv
  <1> QED BY <1>1, <1>2

-----------------------------------------------------------------------------
(* What was asked for. *)

\* A number between zero and the end of int comes through every conversion.
LEMMA SmallNumbersStay ==
  ASSUME NEW v \in 0 .. IntMax
  PROVE  JsonInt(v) = v /\ Strtol(v) = v /\ ToInt(v) = v
  <1> DEFINE m == IntMax
             l == LongMax
             width == 2 ^ IntBits
  <1>1. m \in Nat /\ l \in Nat /\ m <= l /\ width = 2 * (m + 1) /\ v \in 0 .. m
    BY WidthsAssumption
  <1>2. JsonInt(v) = Clamp(v, 0, m) /\ Strtol(v) = Clamp(v, -l - 1, l)
        /\ ToInt(v) = ((v + m + 1) % width) - m - 1
    BY DEF JsonInt, Strtol, ToInt
  <1> HIDE DEF m, l, width
  <1>3. Clamp(v, 0, m) = v /\ Clamp(v, -l - 1, l) = v BY <1>1 DEF Clamp
  <1>4. (v + m + 1) % width = v + m + 1
    <2>1. PICK a \in Nat, b \in Nat \ {0} : a = v + m + 1 /\ b = width /\ a < b
      <3>1. v + m + 1 \in Nat /\ width \in Nat \ {0} /\ v + m + 1 < width BY <1>1
      <3> QED BY <3>1
    <2>2. a % b = a BY <2>1
    <2> QED BY <2>1, <2>2
  <1>5. ((v + m + 1) % width) - m - 1 = v BY <1>1, <1>4
  <1> QED BY <1>2, <1>3, <1>5

\* The number of images that was sent.
LEMMA CountStays ==
  ASSUME NEW f, f.n \in 1 .. MaxN
  PROVE  Images(f) = f.n
  <1>1. f.n \in 0 .. IntMax /\ f.n # 0 BY WidthsAssumption
  <1>2. NField(f) = f.n BY <1>1, SmallNumbersStay DEF NField
  <1> QED BY <1>1, <1>2 DEF Images

\* The number of steps that was sent.
LEMMA StepsStay ==
  ASSUME NEW f, f.steps # <<>>, f.steps[1] \in 1 .. StepLimit
  PROVE  Steps(f, profile) = f.steps[1]
  <1>1. f.steps[1] \in 0 .. IntMax /\ f.steps[1] > 0 BY WidthsAssumption
  <1>2. StepsField(f) = f.steps[1] BY <1>1, SmallNumbersStay DEF StepsField
  <1> QED BY <1>1, <1>2 DEF Steps

\* The sides of a bucket are numbers, and no two buckets have the same ratio.
LEMMA BucketRatios ==
  /\ \A b \in Buckets : b[1] \in Nat \ {0} /\ b[2] \in Nat \ {0} /\ b = <<b[1], b[2]>>
  /\ \A a, b \in Buckets : a[1] * b[2] = b[1] * a[2] => a = b
  BY DEF Buckets

\* A size that is a bucket snaps to itself.
LEMMA BucketsStay ==
  ASSUME NEW b \in Buckets, NEW size \in Snaps(32 * b[1], 32 * b[2])
  PROVE  size = <<32 * b[1], 32 * b[2]>>
  <1>1. PICK a \in Buckets : /\ size = <<32 * a[1], 32 * a[2]>>
                             /\ ~Closer(b, a, 32 * b[1], 32 * b[2])
    BY DEF Snaps
  <1>2. PICK p, q, r, s \in Nat \ {0} : a[1] = p /\ a[2] = q /\ b[1] = r /\ b[2] = s
    BY BucketRatios
  <1>3. p * s = r * q
    <2>1. ~Closer(<<r, s>>, <<p, q>>, 32 * r, 32 * s) BY <1>1, <1>2, BucketRatios
    <2> DEFINE x == p * s
               y == r * q
    <2>2. x \in Nat /\ y \in Nat
      <3>1. \A m, n \in Nat : m * n \in Nat OBVIOUS
      <3> QED BY <3>1
    <2>3. p * (32 * s) = 32 * x /\ (32 * r) * q = 32 * y /\ r * (32 * s) = (32 * r) * s
      OBVIOUS
    <2>4. (32 * r) * s - r * (32 * s) = 0 /\ ~(r * (32 * s) > (32 * r) * s) OBVIOUS
    <2> DEFINE off == IF p * (32 * s) > (32 * r) * q
                      THEN p * (32 * s) - (32 * r) * q ELSE (32 * r) * q - p * (32 * s)
    <2>5. ~(0 * q < off * s) BY <2>1, <2>4 DEF Closer
    <2>6. off = IF x > y THEN 32 * x - 32 * y ELSE 32 * y - 32 * x BY <2>2, <2>3
    <2> HIDE DEF off, x, y
    <2>7. off \in Nat BY <2>2, <2>6
    <2>8. off = 0
      <3>1. \A m \in Nat, n \in Nat \ {0} : ~(0 < m * n) => m = 0 OBVIOUS
      <3>2. 0 * q = 0 OBVIOUS
      <3> QED BY <2>5, <2>7, <3>1, <3>2
    <2>9. x = y BY <2>2, <2>6, <2>8
    <2> QED BY <2>9 DEF x, y
  <1>4. a = b BY <1>2, <1>3, BucketRatios
  <1> QED BY <1>1, <1>4

\* No size is turned from upright to wide or back: the square is closer.
LEMMA NeverTurned ==
  ASSUME NEW w \in Nat \ {0}, NEW h \in Nat \ {0}, NEW size \in Snaps(w, h)
  PROVE  (w > h => size[1] >= size[2]) /\ (w < h => size[1] <= size[2])
  <1>1. PICK a \in Buckets : size = <<32 * a[1], 32 * a[2]>> /\ ~Closer(<<64, 64>>, a, w, h)
    <2>1. <<64, 64>> \in Buckets BY DEF Buckets
    <2> QED BY <2>1 DEF Snaps
  <1>2. PICK p, q \in Nat \ {0} : a[1] = p /\ a[2] = q BY BucketRatios
  <1>3. ASSUME w > h, p < q PROVE FALSE
    <2>1. p * h < w * q /\ p * h < q * h
      <3>1. \A m, n, k, j \in Nat \ {0} : m < n /\ k < j => m * k < j * n /\ m * k < n * k
        OBVIOUS
      <3> QED BY <1>3, <3>1
    <2>2. ~(p * h > w * q) /\ ~(64 * h > w * 64) BY <1>3, <2>1
    <2>3. ~((w * 64 - 64 * h) * q < (w * q - p * h) * 64) BY <1>1, <1>2, <2>2 DEF Closer
    <2>4. (w * 64 - 64 * h) * q = 64 * (w * q) - 64 * (q * h)
          /\ (w * q - p * h) * 64 = 64 * (w * q) - 64 * (p * h)
      OBVIOUS
    <2>5. w * q \in Nat /\ q * h \in Nat /\ p * h \in Nat
      <3>1. \A m, n \in Nat : m * n \in Nat OBVIOUS
      <3> QED BY <3>1
    <2> QED BY <2>1, <2>3, <2>4, <2>5
  <1>4. ASSUME w < h, p > q PROVE FALSE
    <2>1. p * h > w * q /\ p * h > q * h
      <3>1. \A m, n, k, j \in Nat \ {0} : m > n /\ k > j => m * k > j * n /\ m * k > n * k
        OBVIOUS
      <3> QED BY <1>4, <3>1
    <2>2. p * h > w * q /\ 64 * h > w * 64 BY <1>4, <2>1
    <2>3. ~((64 * h - w * 64) * q < (p * h - w * q) * 64) BY <1>1, <1>2, <2>2 DEF Closer
    <2>4. (64 * h - w * 64) * q = 64 * (q * h) - 64 * (w * q)
          /\ (p * h - w * q) * 64 = 64 * (p * h) - 64 * (w * q)
      OBVIOUS
    <2>5. w * q \in Nat /\ q * h \in Nat /\ p * h \in Nat
      <3>1. \A m, n \in Nat : m * n \in Nat OBVIOUS
      <3> QED BY <3>1
    <2> QED BY <2>1, <2>3, <2>4, <2>5
  <1>5. size[1] = 32 * p /\ size[2] = 32 * q BY <1>1, <1>2
  <1>6. \A m, n \in Nat : ~(m < n) => 32 * m >= 32 * n OBVIOUS
  <1> QED BY <1>2, <1>3, <1>4, <1>5, <1>6

\* The size that is admitted is the one that was sent, or the closest where that
\* is allowed.
LEMMA SizeAsAsked ==
  ASSUME NEW f, NEW size \in EngineSizes(f), ~Unacceptable(f, size, profile), f.size # <<>>
  PROVE  /\ (f.exact \/ \E b \in Buckets : f.size = <<32 * b[1], 32 * b[2]>>) => size = f.size
         /\ f.size[1] > f.size[2] => size[1] >= size[2]
         /\ f.size[1] < f.size[2] => size[1] <= size[2]
  <1>1. SizeParses(f) /\ (f.exact => size = f.size) BY DEF Unacceptable
  <1>2. f.size[1] \in Nat \ {0} /\ f.size[2] \in Nat \ {0}
    <2>1. MaxSide \in Nat BY WidthsAssumption
    <2>2. f.size[1] \in 1 .. MaxSide /\ f.size[2] \in 1 .. MaxSide BY <1>1 DEF SizeParses
    <2> QED BY <2>1, <2>2
  <1>3. size \in Snaps(f.size[1], f.size[2]) BY <1>1 DEF EngineSizes
  <1>4. ASSUME NEW b \in Buckets, f.size = <<32 * b[1], 32 * b[2]>> PROVE size = f.size
    <2>1. f.size[1] = 32 * b[1] /\ f.size[2] = 32 * b[2] BY <1>4
    <2> QED BY <1>3, <1>4, <2>1, BucketsStay
  <1> QED BY <1>1, <1>2, <1>3, <1>4, NeverTurned

\* The job is what was asked for when it is filled in, and neither changes after.
LEMMA AskedStep ==
  ASSUME IInv, AdmittedAsAsked, [Next]_vars
  PROVE  AdmittedAsAsked'
  <1>1. CASE job' = NoJob BY <1>1 DEF AdmittedAsAsked
  <1>2. CASE UNCHANGED <<job, fields>> BY <1>2 DEF AdmittedAsAsked
  <1>3. CASE Submit
    <2>1. PICK size \in EngineSizes(fields), s \in SeedsFor(fields) :
            Verdict(fields, size, profile) = 0 /\ job' = Job(fields, size, profile, s)
      BY <1>3 DEF Submit
    <2>2. ~Unacceptable(fields, size, profile) BY <2>1 DEF Verdict
    <2> DEFINE j == Job(fields, size, profile, s)
    <2>3. /\ j.n = Images(fields) /\ j.seed = s /\ j.mode = Mode(fields) /\ j.size = size
          /\ j.steps = Steps(fields, profile) /\ j.scheduler = Scheduler(fields, profile)
      BY DEF Job
    <2> HIDE DEF j
    <2>4. job' = j /\ fields' = fields BY <1>3, <2>1 DEF j, Submit
    <2>5. fields.seed # <<>> => s = fields.seed[1] BY <2>1 DEF SeedsFor
    <2>6. fields.mode # Absent => Mode(fields) = fields.mode
      BY <2>2 DEF Unacceptable, ModeRefused, Mode, DerivedMode
    <2>7. fields.scheduler \in {"flash", "flow_match"} =>
            Scheduler(fields, profile) = fields.scheduler
      BY DEF Scheduler, Absent
    <2>8. fields.steps # <<>> /\ fields.steps[1] \in 1 .. StepLimit => j.steps = fields.steps[1]
      BY <2>3, StepsStay
    <2>9. fields.n \in 1 .. MaxN => j.n = fields.n BY <2>3, CountStays
    <2>10. fields.size # <<>> =>
             /\ (fields.exact \/ \E b \in Buckets : fields.size = <<32 * b[1], 32 * b[2]>>)
                  => j.size = fields.size
             /\ fields.size[1] > fields.size[2] => j.size[1] >= j.size[2]
             /\ fields.size[1] < fields.size[2] => j.size[1] <= j.size[2]
      BY <2>2, <2>3, SizeAsAsked
    <2> QED BY <2>3, <2>4, <2>5, <2>6, <2>7, <2>8, <2>9, <2>10 DEF AdmittedAsAsked
  <1>4. CASE Arrive \/ Refuse \/ Read \/ Upload \/ UploadFails \/ SubmitFails
    <2>1. pc \in {"idle", "read", "upload"} /\ job' = job
      BY <1>4 DEF Arrive, Refuse, Read, Upload, UploadFails, SubmitFails, Answer, Work
    <2>2. job' = NoJob BY <2>1 DEF IInv, JobUnderWay
    <2> QED BY <1>1, <2>2
  <1>5. CASE Start \/ Generate \/ Encode \/ Fail \/ Finish \/ Deliver \/ UNCHANGED vars
    BY <1>2, <1>5 DEF Start, Generate, Encode, Fail, Finish, Restore, Deliver, Work, vars
  <1>6. CASE Leave BY <1>1, <1>6 DEF Leave
  <1> QED BY <1>3, <1>4, <1>5, <1>6 DEF Next

\* The inductive invariant of a request holds in every reachable state.
THEOREM Invariance == Spec => []IInv
  <1>1. IInv /\ [Next]_vars => IInv'
    <2> SUFFICES ASSUME IInv, [Next]_vars PROVE IInv' OBVIOUS
    <2>1. CASE UNCHANGED vars
      <3>1. UNCHANGED <<profile, shell, env, saved, pc, fields, files, job, seed, data, reply>>
        BY <2>1 DEF vars
      <3>2. TypeOK' /\ UploadsInOrder' /\ EndpointKnown'
        BY <3>1 DEF IInv, TypeOK, UploadsInOrder, EndpointKnown
      <3>3. JobUnderWay' /\ SavedIsShell' BY <3>1 DEF IInv, JobUnderWay, SavedIsShell
      <3>4. ImagesAreServed' /\ EnvIsOwn' /\ FilesFollowJob'
        BY <3>1 DEF IInv, ImagesAreServed, EngineServes, EnvIsOwn, FilesFollowJob
      <3>5. BodyIsWhole' /\ AdmittedFits' BY <3>1 DEF IInv, BodyIsWhole, AdmittedFits
      <3> QED BY <3>2, <3>3, <3>4, <3>5 DEF IInv
    <2>2. CASE Next
      BY <2>2, ReadingHolds, SubmitHolds, StartHolds, GenerateHolds, EncodeHolds, EndHolds,
         AfterwardsHolds DEF Next
    <2> QED BY <2>1, <2>2
  <1> QED BY <1>1, InitHolds, PTL DEF Spec

\* Type correctness: the seeds of a job and of its images stay within their width, and
\* the variable of the process within what a job or the shell puts there.
THEOREM TypeCorrect == Spec => []TypeOK
  <1>1. IInv => TypeOK BY DEF IInv
  <1> QED BY <1>1, Invariance, PTL

\* What the rules of job_submit let through fits together, for any requests and
\* any limits.
THEOREM AdmissionIsSound == Spec => []AdmittedFits
  <1>1. IInv => AdmittedFits BY DEF IInv
  <1> QED BY <1>1, Invariance, PTL

\* What a client asks for within the documented ranges is what the engine gets:
\* numbers survive the conversions of both bodies, a size that is a bucket snaps to
\* itself, and no size is turned.
THEOREM AskedIsGiven == Spec => []AdmittedAsAsked
  <1>1. Init => AdmittedAsAsked BY DEF Init, AdmittedAsAsked
  <1>2. IInv /\ AdmittedAsAsked /\ [Next]_vars => AdmittedAsAsked' BY AskedStep
  <1> QED BY <1>1, <1>2, Invariance, PTL DEF Spec

\* A 200 carries exactly the images asked for, made with consecutive seeds that
\* wrap at the width of a seed.
THEOREM BodiesAreWhole == Spec => []BodyIsWhole
  <1>1. IInv => BodyIsWhole BY DEF IInv
  <1> QED BY <1>1, Invariance, PTL

\* The variable of the process is the job's while it runs and the shell's at
\* every other time.
THEOREM EnvIsRestored == Spec => []EnvIsOwn
  <1>1. IInv => EnvIsOwn BY DEF IInv
  <1> QED BY <1>1, Invariance, PTL

\* The uploads are there as long as the engine needs them, and no longer than
\* the request.
THEOREM NoFileStays == Spec => []FilesFollowJob
  <1>1. IInv => FilesFollowJob BY DEF IInv
  <1> QED BY <1>1, Invariance, PTL
=============================================================================
