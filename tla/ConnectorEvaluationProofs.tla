----------------------- MODULE ConnectorEvaluationProofs -----------------------
(***************************************************************************)
(* Type correctness of ConnectorEvaluation and the fail-closed property    *)
(* AllowIsVetted, for any Checks and any durations that satisfy            *)
(* ConnectorAssumption.  The argument follows the answer "clean" from OSV  *)
(* through connector_cache to the snapshot a Check reads back, and bounds  *)
(* the age of the advisory at each place.                                  *)
(***************************************************************************)
EXTENDS ConnectorEvaluation, TLAPS

StepName == {"idle", "read", "fetch", "reply", "cache", "snapshot", "findings", "fail", "load"}

\* The age of the evidence in a row of the cache that is used.
CachedAge == BackgroundTimeout + CacheTTL + DbTime

\* What holds of a job k when the advisory is a old and the snapshot says s.
Sound(k, a, s) ==
    /\ k.pc = "reply" => k.ans \in Evidence
    /\ k.pc = "cache" => k.ans \in Evidence
    /\ k.pc = "snapshot" => k.ans \in Evidence
    /\ k.pc = "fail" => k.ans \in Failure
    /\ k.pc = "reply" /\ k.ans = "clean" => a <= k.t + 1
    /\ k.pc = "cache" /\ k.ans = "clean" => a <= BackgroundTimeout + k.t + 1
    /\ k.pc = "snapshot" /\ k.ans = "clean" => a <= CachedAge + k.t
    /\ k.pc = "findings" /\ s = "clean" => a <= CachedAge + DbTime + k.t
    /\ k.pc = "load" /\ s = "clean" => a <= CachedAge + 2 * DbTime + k.t

\* The time a job at k has been in its step.
InTime(j, k) ==
    /\ k.pc \in {"fetch", "reply"} =>
         k.t <= IF j[2] = "main" THEN ResponseTimeout ELSE BackgroundTimeout
    /\ k.pc \in {"read", "cache", "snapshot", "findings", "fail"} => k.t <= DbTime
    /\ k.pc = "load" => k.t <= OthersTime

\* A row of the cache that is still used was written within one statement of
\* the arrival of the answer it holds.
CacheSound == cache.ans = "clean" /\ cache.age < CacheTTL
                => advisory <= BackgroundTimeout + cache.age + DbTime + 1

\* Every job is sound and in time.
JobsSound == \A j \in Job : Sound(job[j], advisory, snap) /\ InTime(j, job[j])

\* The inductive invariant.
IInv == TypeOK /\ CacheSound /\ JobsSound

\* ConnectorAssumption, one constant at a time.
LEMMA Durations ==
    /\ CacheTTL \in Nat /\ CacheTTL >= 1
    /\ ResponseTimeout \in Nat /\ ResponseTimeout >= 1
    /\ BackgroundTimeout \in Nat /\ ResponseTimeout <= BackgroundTimeout
    /\ DbTime \in Nat /\ OthersTime \in Nat
    /\ CachedAge \in Nat /\ CachedAge = BackgroundTimeout + CacheTTL + DbTime
  BY ConnectorAssumption DEF CachedAge

\* The fields of a job.
LEMMA Fields ==
  ASSUME IInv, NEW j \in Job
  PROVE  /\ job[j] \in JobState
         /\ job[j].pc \in StepName
         /\ job[j].ans \in Evidence \cup Failure
         /\ job[j].caught \in BOOLEAN
         /\ job[j].t \in 0..(BackgroundTimeout + DbTime + OthersTime)
         /\ Sound(job[j], advisory, snap) /\ InTime(j, job[j])
  BY DEF IInv, TypeOK, JobState, JobsSound, StepName

\* The fields of a job that enters a step, in the try block or outside it.
LEMMA EnterTyped ==
  ASSUME NEW pc \in StepName,
         NEW ans \in Evidence \cup Failure
  PROVE  /\ Enter(pc, ans, TRUE) \in JobState /\ Enter(pc, ans, FALSE) \in JobState
         /\ Enter(pc, ans, TRUE).pc = pc /\ Enter(pc, ans, FALSE).pc = pc
         /\ Enter(pc, ans, TRUE).ans = ans /\ Enter(pc, ans, FALSE).ans = ans
         /\ Enter(pc, ans, TRUE).t = 0 /\ Enter(pc, ans, FALSE).t = 0
  BY Durations DEF Enter, JobState, StepName

\* The answers.
LEMMA Answers ==
    /\ "clean" \in Evidence \cup Failure /\ "clean" \in Evidence
    /\ "background_pending" \in Failure /\ "background_pending" \in Evidence \cup Failure
    /\ "error" \in Failure /\ "error" \in Evidence \cup Failure
  BY DEF Evidence, Failure

\* A job that is over.
LEMMA IdleTyped == Idle \in JobState /\ Idle.pc = "idle" /\ Idle.t = 0
  BY Answers, Durations DEF Idle, Enter, JobState

\* A job that is idle, or reads the cache, or asks OSV, claims nothing.
LEMMA NothingClaimed ==
  ASSUME NEW k, NEW a, NEW s, k.pc \in {"idle", "read", "fetch"}
  PROVE  Sound(k, a, s)
  BY DEF Sound

\* A job that just entered its step is in time.
LEMMA JustEntered ==
  ASSUME NEW j, NEW k, k.t = 0
  PROVE  InTime(j, k)
  BY Durations DEF InTime

\* A job goes on with its next step.
LEMMA GotoTyped ==
  ASSUME IInv, NEW j \in Job,
         NEW pc \in StepName,
         Goto(j, pc)
  PROVE  \E k \in JobState : /\ job' = [job EXCEPT ![j] = k]
                             /\ k.pc = pc /\ k.t = 0 /\ k.ans = job[j].ans
  <1> DEFINE i == [job[j] EXCEPT !.pc = pc]
             k == [i EXCEPT !.t = 0]
  <1>1. job' = [job EXCEPT ![j] = k]
    BY Zenon DEF Goto, IInv, TypeOK
  <1>2. i \in JobState /\ i.pc = pc /\ i.ans = job[j].ans
    BY Fields DEF JobState, StepName
  <1> HIDE DEF i
  <1>3. k \in JobState /\ k.pc = pc /\ k.t = 0 /\ k.ans = i.ans
    BY <1>2, Durations DEF JobState
  <1> HIDE DEF k
  <1> QED BY <1>1, <1>2, <1>3

\* The type of the advisory, of the bounds on it and of the tables.
LEMMA TablesTyped ==
  ASSUME IInv
  PROVE  /\ advisory \in 0..Horizon /\ advisory \in Nat
         /\ cache \in [ans : Evidence \cup {"none"}, age : 0..CacheTTL]
         /\ cache.ans \in Evidence \cup {"none"} /\ cache.age \in 0..CacheTTL
         /\ cache.ans = "none" => cache.age = CacheTTL
         /\ snap \in Evidence \cup Failure \cup {"none"}
         /\ job \in [Job -> JobState]
  <1>1. Horizon \in Nat
    BY Durations DEF Horizon, EvidenceAge
  <1>2. advisory \in 0..Horizon
    BY DEF IInv, TypeOK
  <1> QED BY <1>1, <1>2 DEF IInv, TypeOK

\* What jobs claim of the snapshot when another one, new enough, is written.
LEMMA SnapshotWritten ==
  ASSUME NEW k \in JobState, NEW a \in Nat, NEW s, NEW s2, Sound(k, a, s),
         s2 = "clean" => a <= CachedAge + DbTime
  PROVE  Sound(k, a, s2)
  <1>1. k.t \in Nat
    BY Durations DEF JobState
  <1>2. s2 = "clean" => /\ a <= CachedAge + DbTime + k.t
                        /\ a <= CachedAge + 2 * DbTime + k.t
    BY <1>1, Durations
  <1> QED BY <1>2 DEF Sound

\* One job goes on and the tables stay as they are.
LEMMA OneJob ==
  ASSUME IInv, NEW j \in Job, NEW k \in JobState, job' = [job EXCEPT ![j] = k],
         Sound(k, advisory, snap), InTime(j, k),
         UNCHANGED <<advisory, cache, snap>>
  PROVE  IInv'
  <1>1. job' \in [Job -> JobState]
    BY TablesTyped
  <1>2. \A d \in Job : job'[d] = IF d = j THEN k ELSE job[d]
    BY TablesTyped
  <1>3. \A d \in Job : Sound(job'[d], advisory, snap) /\ InTime(d, job'[d])
    BY <1>2, Fields
  <1>4. JobsSound'
    BY <1>3 DEF JobsSound, Sound, InTime
  <1>5. TypeOK'
    BY <1>1 DEF IInv, TypeOK, Horizon, EvidenceAge
  <1> QED BY <1>4, <1>5 DEF IInv, CacheSound

\* One job goes on and writes a snapshot that is new enough.
LEMMA OneJobAndSnapshot ==
  ASSUME IInv, NEW j \in Job, NEW k \in JobState, job' = [job EXCEPT ![j] = k],
         snap' \in Evidence \cup Failure,
         snap' = "clean" => advisory <= CachedAge + DbTime,
         Sound(k, advisory, snap'), InTime(j, k),
         UNCHANGED <<advisory, cache>>
  PROVE  IInv'
  <1>1. job' \in [Job -> JobState]
    BY TablesTyped
  <1>2. \A d \in Job : job'[d] = IF d = j THEN k ELSE job[d]
    BY TablesTyped
  <1>3. ASSUME NEW d \in Job PROVE Sound(job[d], advisory, snap')
    BY SnapshotWritten, Fields, TablesTyped
  <1>4. \A d \in Job : Sound(job'[d], advisory, snap') /\ InTime(d, job'[d])
    BY <1>2, <1>3, Fields
  <1>5. JobsSound'
    BY <1>4 DEF JobsSound, Sound, InTime
  <1>6. TypeOK'
    BY <1>1 DEF IInv, TypeOK, Horizon, EvidenceAge
  <1> QED BY <1>5, <1>6 DEF IInv, CacheSound

\* Main and background jobs.
LEMMA Jobs == \A c \in Check : /\ Main(c) \in Job /\ Background(c) \in Job
                               /\ Main(c) # Background(c)
                               /\ Main(c)[2] = "main" /\ Background(c)[2] = "background"
  BY DEF Main, Background, Job

\* An exception ends a job or enters the catch block with a failure.
LEMMA ThrowStep ==
  ASSUME IInv, NEW j \in Job, Throw(j), UNCHANGED <<advisory, cache, snap>>
  PROVE  IInv'
  <1>2. CASE job' = [job EXCEPT ![j] = Enter("fail", "error", FALSE)]
    <2> DEFINE k == Enter("fail", "error", FALSE)
    <2>1. k \in JobState /\ k.pc = "fail" /\ k.ans = "error" /\ k.t = 0
      BY EnterTyped, Answers DEF StepName
    <2>2. job' = [job EXCEPT ![j] = k]
      BY <1>2
    <2> HIDE DEF k
    <2>3. Sound(k, advisory, snap) /\ InTime(j, k)
      BY <2>1, Answers, JustEntered DEF Sound
    <2> QED BY <2>1, <2>2, <2>3, OneJob
  <1>3. CASE job' = [job EXCEPT ![j] = Idle]
    <2>1. Sound(Idle, advisory, snap) /\ InTime(j, Idle)
      BY IdleTyped, NothingClaimed, JustEntered
    <2> QED BY <1>3, <2>1, IdleTyped, OneJob
  <1> QED BY <1>2, <1>3 DEF Throw

\* A job ends.
LEMMA EndStep ==
  ASSUME IInv, NEW j \in Job, job' = [job EXCEPT ![j] = Idle],
         UNCHANGED <<advisory, cache, snap>>
  PROVE  IInv'
  <1>1. Sound(Idle, advisory, snap) /\ InTime(j, Idle)
    BY IdleTyped, NothingClaimed, JustEntered
  <1> QED BY <1>1, IdleTyped, OneJob

\* A Check begins.
LEMMA StartStep ==
  ASSUME IInv, NEW c \in Check, StartCheck(c)
  PROVE  IInv'
  <1>1. Goto(Main(c), "read") /\ UNCHANGED <<advisory, cache, snap>>
    BY DEF StartCheck
  <1>2. PICK k \in JobState : /\ job' = [job EXCEPT ![Main(c)] = k]
                              /\ k.pc = "read" /\ k.t = 0
    BY <1>1, GotoTyped, Jobs DEF StepName
  <1>3. Main(c) \in Job
    BY Jobs
  <1>4. Sound(k, advisory, snap) /\ InTime(Main(c), k)
    BY <1>2, NothingClaimed, JustEntered
  <1> QED BY <1>1, <1>2, <1>3, <1>4, OneJob

\* A row of the cache that is used was written with an answer that is at most
\* CachedAge old.
LEMMA CacheReadStep ==
  ASSUME IInv, NEW c \in Check, BuildCachedSnapshot(c)
  PROVE  IInv'
  <1>1. CASE FreshRow
    <2> DEFINE k == Enter("snapshot", cache.ans, TRUE)
    <2>1. cache.ans \in Evidence /\ cache.ans \in Evidence \cup Failure
      BY <1>1, TablesTyped, Durations DEF FreshRow
    <2>2. k \in JobState /\ k.pc = "snapshot" /\ k.ans = cache.ans /\ k.t = 0
      BY <2>1, EnterTyped DEF StepName
    <2>3. job' = [job EXCEPT ![Main(c)] = k]
      BY <1>1 DEF BuildCachedSnapshot
    <2> HIDE DEF k
    <2>4. cache.ans = "clean" => advisory <= CachedAge
      BY <1>1, TablesTyped, Durations DEF IInv, CacheSound, FreshRow
    <2>5. k.ans = "clean" => advisory <= CachedAge + k.t
      BY <2>2, <2>4, TablesTyped, Durations
    <2>6. Sound(k, advisory, snap)
      BY <2>1, <2>2, <2>5 DEF Sound
    <2> QED BY <2>2, <2>3, <2>6, Jobs, JustEntered, OneJob DEF BuildCachedSnapshot
  <1>2. CASE ~FreshRow
    <2> DEFINE k == Enter("fetch", "clean", TRUE)
    <2>1. k \in JobState /\ k.pc = "fetch" /\ k.t = 0
      BY Answers, Durations DEF Enter, JobState
    <2>2. job' = [job EXCEPT ![Main(c)] = k]
      BY <1>2 DEF BuildCachedSnapshot
    <2> HIDE DEF k
    <2>3. Sound(k, advisory, snap) /\ InTime(Main(c), k)
      BY <2>1, NothingClaimed, JustEntered
    <2> QED BY <2>1, <2>2, <2>3, Jobs, OneJob DEF BuildCachedSnapshot
  <1> QED BY <1>1, <1>2

\* OSV answers "clean" only while the advisory is not published.
LEMMA LooksStep ==
  ASSUME IInv, NEW j \in Job, OsvLooks(j)
  PROVE  IInv'
  <1> DEFINE ans == IF advisory = 0 THEN "clean" ELSE "vulnerable"
             i   == [job[j] EXCEPT !.pc = "reply"]
             k   == [i EXCEPT !.ans = ans]
  <1>1. /\ ans \in Evidence /\ ans \in Evidence \cup Failure
        /\ ans = "clean" => advisory = 0
    BY DEF Evidence
  <1>2. job' = [job EXCEPT ![j] = k]
    BY Zenon DEF OsvLooks, IInv, TypeOK
  <1>3. job[j].pc = "fetch" /\ UNCHANGED <<advisory, cache, snap>>
    BY DEF OsvLooks, At
  <1> HIDE DEF ans
  <1>4. i \in JobState /\ i.pc = "reply" /\ i.t = job[j].t
    BY Fields DEF JobState
  <1> HIDE DEF i
  <1>5. k \in JobState /\ k.pc = "reply" /\ k.ans = ans /\ k.t = job[j].t
    BY <1>1, <1>4 DEF JobState
  <1> HIDE DEF k
  <1>6. job[j].t \in Nat
    BY Fields, Durations
  <1>7. k.ans = "clean" => advisory <= k.t + 1
    BY <1>1, <1>5, <1>6, TablesTyped
  <1>8. Sound(k, advisory, snap)
    BY <1>1, <1>5, <1>7 DEF Sound
  <1>9. InTime(j, k)
    BY <1>3, <1>5, Fields DEF InTime
  <1> QED BY <1>2, <1>3, <1>5, <1>8, <1>9, OneJob

\* The answer is at most as old as the fetch when it arrives.
LEMMA FetchStep ==
  ASSUME IInv, NEW j \in Job, FetchAnswers(j)
  PROVE  IInv'
  <1> DEFINE k == Enter("cache", job[j].ans, FALSE)
  <1>1. job[j].pc = "reply" /\ job' = [job EXCEPT ![j] = k] /\ UNCHANGED <<advisory, cache, snap>>
    BY DEF FetchAnswers, At
  <1>2. job[j].ans \in Evidence /\ (job[j].ans = "clean" => advisory <= job[j].t + 1)
    BY <1>1, Fields DEF Sound
  <1>3. job[j].t <= BackgroundTimeout /\ job[j].t \in Nat
    BY <1>1, Fields, Durations DEF InTime
  <1>4. k \in JobState /\ k.pc = "cache" /\ k.ans = job[j].ans /\ k.t = 0
    <2>1. PICK a \in Evidence \cup Failure : a = job[j].ans
      BY Fields
    <2>2. "cache" \in StepName
      BY DEF StepName
    <2>3. /\ Enter("cache", a, FALSE) \in JobState /\ Enter("cache", a, FALSE).pc = "cache"
          /\ Enter("cache", a, FALSE).ans = a /\ Enter("cache", a, FALSE).t = 0
      BY <2>2, EnterTyped
    <2>4. k = Enter("cache", a, FALSE)
      BY <2>1
    <2> HIDE DEF k
    <2> QED BY <2>1, <2>3, <2>4
  <1> HIDE DEF k
  <1>5. k.ans = "clean" => advisory <= BackgroundTimeout + k.t + 1
    BY <1>2, <1>3, <1>4, TablesTyped, Durations
  <1>6. Sound(k, advisory, snap)
    BY <1>2, <1>4, <1>5 DEF Sound
  <1> QED BY <1>1, <1>4, <1>6, JustEntered, OneJob

\* The deadline passes: the Check fails closed, its fetch goes on behind it.
LEMMA DeadlineStep ==
  ASSUME IInv, NEW c \in Check, ResponseDeadline(c)
  PROVE  IInv'
  <1> DEFINE m == Main(c)
             b == Background(c)
             k == Enter("fail", "background_pending", FALSE)
  <1>1. m \in Job /\ b \in Job /\ m # b /\ m[2] = "main" /\ b[2] = "background"
    BY Jobs
  <1>2. /\ job' = [job EXCEPT ![m] = k, ![b] = job[m]]
        /\ job[m].pc \in {"fetch", "reply"} /\ UNCHANGED <<advisory, cache, snap>>
    BY DEF ResponseDeadline, Fetching, At
  <1>3. k \in JobState /\ k.pc = "fail" /\ k.ans \in Failure /\ k.t = 0
    BY EnterTyped, Answers DEF StepName
  <1> HIDE DEF k, m, b
  <1>4. job[m] \in JobState
    BY <1>1, Fields
  <1>5. job' \in [Job -> JobState]
    BY <1>1, <1>2, <1>3, <1>4, TablesTyped
  <1>6. \A d \in Job : job'[d] = IF d = b THEN job[m] ELSE IF d = m THEN k ELSE job[d]
    BY <1>1, <1>2, TablesTyped
  <1>7. Sound(k, advisory, snap) /\ InTime(m, k)
    BY <1>3, JustEntered DEF Sound
  <1>8. Sound(job[m], advisory, snap) /\ InTime(b, job[m])
    <2>1. Sound(job[m], advisory, snap)
      BY <1>1, Fields
    <2>2. job[m].t <= ResponseTimeout /\ job[m].t \in Nat
      BY <1>1, <1>2, Fields, Durations DEF InTime
    <2>3. job[m].t <= BackgroundTimeout
      BY <2>2, Durations
    <2> QED BY <1>1, <1>2, <2>1, <2>3 DEF InTime
  <1>9. \A d \in Job : Sound(job'[d], advisory, snap) /\ InTime(d, job'[d])
    BY <1>6, <1>7, <1>8, Fields
  <1>10. JobsSound'
    BY <1>2, <1>9 DEF JobsSound, Sound, InTime
  <1>11. TypeOK'
    BY <1>2, <1>5 DEF IInv, TypeOK, Horizon, EvidenceAge
  <1> QED BY <1>2, <1>10, <1>11 DEF IInv, CacheSound

\* The cache is written at most one statement after the answer.
LEMMA CacheWriteStep ==
  ASSUME IInv, NEW j \in Job, UpsertCachedResult(j)
  PROVE  IInv'
  <1>1. /\ job[j].pc = "cache" /\ cache' = [ans |-> job[j].ans, age |-> 0]
        /\ Goto(j, "snapshot") /\ UNCHANGED <<advisory, snap>>
    BY DEF UpsertCachedResult, At
  <1>2. PICK k \in JobState : /\ job' = [job EXCEPT ![j] = k]
                              /\ k.pc = "snapshot" /\ k.t = 0 /\ k.ans = job[j].ans
    BY <1>1, GotoTyped DEF StepName
  <1>3. job[j].ans \in Evidence /\ (job[j].ans = "clean" => advisory <= BackgroundTimeout + DbTime + 1)
    <2>1. job[j].t <= DbTime /\ job[j].t \in Nat
      BY <1>1, Fields, Durations DEF InTime
    <2>2. /\ job[j].ans \in Evidence
          /\ job[j].ans = "clean" => advisory <= BackgroundTimeout + job[j].t + 1
      BY <1>1, Fields DEF Sound
    <2> QED BY <2>1, <2>2, TablesTyped, Durations
  <1>4. k.ans = "clean" => advisory <= CachedAge + k.t
    BY <1>2, <1>3, TablesTyped, Durations
  <1>5. Sound(k, advisory, snap) /\ InTime(j, k)
    BY <1>2, <1>3, <1>4, JustEntered DEF Sound
  <1>6. job' \in [Job -> JobState]
    BY <1>2, TablesTyped
  <1>7. \A d \in Job : job'[d] = IF d = j THEN k ELSE job[d]
    BY <1>2, TablesTyped
  <1>8. \A d \in Job : Sound(job'[d], advisory, snap) /\ InTime(d, job'[d])
    BY <1>5, <1>7, Fields
  <1>9. JobsSound'
    BY <1>1, <1>8 DEF JobsSound, Sound, InTime
  <1>10. CacheSound'
    BY <1>1, <1>3, TablesTyped, Durations DEF CacheSound
  <1>11. /\ cache' \in [ans : Evidence \cup {"none"}, age : 0..CacheTTL]
         /\ cache'.ans # "none"
    BY <1>1, <1>3, Durations DEF Evidence
  <1>12. TypeOK'
    BY <1>1, <1>6, <1>11, TablesTyped DEF TypeOK, Horizon, EvidenceAge
  <1> QED BY <1>9, <1>10, <1>12 DEF IInv

\* The snapshot is written at most two statements after the answer, or one
\* after the row of the cache was read.
LEMMA SnapshotStep ==
  ASSUME IInv, NEW j \in Job, UpsertConnectorSnapshot(j)
  PROVE  IInv'
  <1>1. /\ job[j].pc = "snapshot" /\ snap' = job[j].ans
        /\ Goto(j, "findings") /\ UNCHANGED <<advisory, cache>>
    BY DEF UpsertConnectorSnapshot, At
  <1>2. PICK k \in JobState : /\ job' = [job EXCEPT ![j] = k]
                              /\ k.pc = "findings" /\ k.t = 0
    BY <1>1, GotoTyped DEF StepName
  <1>3. job[j].t <= DbTime /\ job[j].t \in Nat
    BY <1>1, Fields, Durations DEF InTime
  <1>4. job[j].ans = "clean" => advisory <= CachedAge + job[j].t
    BY <1>1, Fields DEF Sound
  <1>5. snap' = "clean" => advisory <= CachedAge + DbTime
    BY <1>1, <1>3, <1>4, TablesTyped, Durations
  <1>6. snap' = "clean" => advisory <= CachedAge + DbTime + k.t
    BY <1>2, <1>5, TablesTyped, Durations
  <1>7. Sound(k, advisory, snap') /\ InTime(j, k)
    BY <1>2, <1>6, JustEntered DEF Sound
  <1>8. snap' \in Evidence \cup Failure
    BY <1>1, Fields
  <1> QED BY <1>1, <1>2, <1>5, <1>7, <1>8, OneJobAndSnapshot

\* The findings are written one statement after the snapshot.
LEMMA FindingsStep ==
  ASSUME IInv, NEW j \in Job, UpsertProjectFindings(j)
  PROVE  IInv'
  <1>1. job[j].pc = "findings" /\ UNCHANGED <<advisory, cache, snap>>
    BY DEF UpsertProjectFindings, At
  <1>2. CASE j[2] = "main" /\ Goto(j, "load")
    <2>1. PICK k \in JobState : /\ job' = [job EXCEPT ![j] = k]
                                /\ k.pc = "load" /\ k.t = 0
      BY <1>2, GotoTyped DEF StepName
    <2>2. job[j].t <= DbTime /\ job[j].t \in Nat
      BY <1>1, Fields, Durations DEF InTime
    <2>3. snap = "clean" => advisory <= CachedAge + DbTime + job[j].t
      BY <1>1, Fields DEF Sound
    <2>4. snap = "clean" => advisory <= CachedAge + 2 * DbTime + k.t
      BY <2>1, <2>2, <2>3, TablesTyped, Durations
    <2>5. Sound(k, advisory, snap) /\ InTime(j, k)
      BY <2>1, <2>4, JustEntered DEF Sound
    <2> QED BY <1>1, <2>1, <2>5, OneJob
  <1>3. CASE job' = [job EXCEPT ![j] = Idle]
    BY <1>1, <1>3, EndStep
  <1> QED BY <1>2, <1>3 DEF UpsertProjectFindings

\* A failure writes a snapshot that no rule allows.
LEMMA FailureStep ==
  ASSUME IInv, NEW c \in Check, UpsertFailureSnapshot(c)
  PROVE  IInv'
  <1> DEFINE j == Main(c)
  <1>0. j \in Job
    BY Jobs
  <1>1. /\ job[j].pc = "fail" /\ snap' = job[j].ans
        /\ Goto(j, "load") /\ UNCHANGED <<advisory, cache>>
    BY DEF UpsertFailureSnapshot, At
  <1> HIDE DEF j
  <1>2. PICK k \in JobState : /\ job' = [job EXCEPT ![j] = k]
                              /\ k.pc = "load" /\ k.t = 0
    BY <1>0, <1>1, GotoTyped DEF StepName
  <1>3. snap' \in Failure /\ snap' # "clean"
    BY <1>0, <1>1, Fields DEF Sound, Failure
  <1>4. Sound(k, advisory, snap') /\ InTime(j, k)
    BY <1>2, <1>3, JustEntered DEF Sound
  <1> QED BY <1>0, <1>1, <1>2, <1>3, <1>4, OneJobAndSnapshot

\* A step fails, an RPC fails, a Check is answered, a fetch is given up.
LEMMA EndSteps ==
  ASSUME IInv,
         \/ \E j \in Job : StepFails(j)
         \/ \E c \in Check : Decide(c) \/ CheckFails(c) \/ FetchGivenUp(c)
  PROVE  IInv'
  <1>1. ASSUME NEW j \in Job, StepFails(j) PROVE IInv'
    BY <1>1, ThrowStep DEF StepFails
  <1>2. ASSUME NEW c \in Check, Decide(c) \/ CheckFails(c) PROVE IInv'
    <2>1. job' = [job EXCEPT ![Main(c)] = Idle] /\ UNCHANGED <<advisory, cache, snap>>
      BY <1>2 DEF Decide, CheckFails
    <2> QED BY <2>1, Jobs, EndStep
  <1>3. ASSUME NEW c \in Check, FetchGivenUp(c) PROVE IInv'
    <2>1. Throw(Background(c)) /\ UNCHANGED <<advisory, cache, snap>>
      BY <1>3 DEF FetchGivenUp
    <2> QED BY <2>1, Jobs, ThrowStep
  <1> QED BY <1>1, <1>2, <1>3

\* What jobs claim at the moment the advisory is published.
LEMMA PublishStep ==
  ASSUME IInv, PublishAdvisory
  PROVE  IInv'
  <1>1. advisory' = 1 /\ UNCHANGED <<cache, snap, job>>
    BY DEF PublishAdvisory
  <1>2. ASSUME NEW j \in Job PROVE Sound(job[j], 1, snap) /\ InTime(j, job[j])
    <2>1. job[j].t \in Nat
      BY Fields, Durations
    <2>2. /\ 1 <= job[j].t + 1 /\ 1 <= BackgroundTimeout + job[j].t + 1
          /\ 1 <= CachedAge + job[j].t
          /\ 1 <= CachedAge + DbTime + job[j].t /\ 1 <= CachedAge + 2 * DbTime + job[j].t
      BY <2>1, Durations
    <2> QED BY <2>2, Fields DEF Sound
  <1>3. JobsSound'
    BY <1>1, <1>2 DEF JobsSound, Sound, InTime
  <1>4. CacheSound'
    BY <1>1, TablesTyped, Durations DEF CacheSound
  <1>5. 1 \in 0..Horizon
    BY Durations DEF Horizon, EvidenceAge
  <1>6. TypeOK'
    BY <1>1, <1>5 DEF IInv, TypeOK, Horizon, EvidenceAge
  <1> QED BY <1>3, <1>4, <1>6 DEF IInv

\* What a job claims keeps up with time.
LEMMA SoundLater ==
  ASSUME NEW k \in JobState, NEW l \in JobState, NEW a \in Nat, NEW b \in Nat, NEW s,
         Sound(k, a, s), b <= a + 1, l.pc = k.pc, l.ans = k.ans, l.t = k.t + 1
  PROVE  Sound(l, b, s)
  <1>1. k.t \in Nat
    BY Durations DEF JobState
  <1>2. /\ a <= k.t + 1 => b <= l.t + 1
        /\ a <= BackgroundTimeout + k.t + 1 => b <= BackgroundTimeout + l.t + 1
        /\ a <= CachedAge + k.t => b <= CachedAge + l.t
        /\ a <= CachedAge + DbTime + k.t => b <= CachedAge + DbTime + l.t
        /\ a <= CachedAge + 2 * DbTime + k.t => b <= CachedAge + 2 * DbTime + l.t
    BY <1>1, Durations
  <1> QED BY <1>2 DEF Sound

\* A job over which one unit of time passes.
LEMMA JobAges ==
  ASSUME IInv, Tick, NEW j \in Job, NEW b \in Nat, b <= advisory + 1
  PROVE  /\ job'[j] \in JobState
         /\ Sound(job'[j], b, snap) /\ InTime(j, job'[j])
  <1>1. CASE At(j, "idle")
    <2>1. job'[j] = job[j] /\ job[j].pc = "idle"
      BY <1>1 DEF Tick, At
    <2> QED BY <2>1, Fields, NothingClaimed
  <1>2. CASE ~At(j, "idle")
    <2> DEFINE u == job[j].t + 1
               l == [job[j] EXCEPT !.t = u]
    <2>1. job'[j] = l
      BY <1>2, Zenon DEF Tick
    <2>2. job[j].t < Limit(j)
      BY <1>2 DEF Tick
    <2>3. job[j].t \in Nat
      BY Fields, Durations
    <2>4. /\ job[j].pc \in {"fetch", "reply"} =>
               u <= IF j[2] = "main" THEN ResponseTimeout ELSE BackgroundTimeout
          /\ job[j].pc \in {"read", "cache", "snapshot", "findings", "fail"} => u <= DbTime
          /\ job[j].pc = "load" => u <= OthersTime
          /\ u \in 0..(BackgroundTimeout + DbTime + OthersTime)
      BY <2>2, <2>3, Durations DEF Limit, At, Fetching
    <2> HIDE DEF u
    <2>5. l \in JobState /\ l.pc = job[j].pc /\ l.ans = job[j].ans /\ l.t = u
      BY <2>4, Fields DEF JobState
    <2> HIDE DEF l
    <2>6. InTime(j, l)
      BY <2>4, <2>5 DEF InTime
    <2>7. l.t = job[j].t + 1
      BY <2>5 DEF u
    <2>8. Sound(l, b, snap)
      BY <2>5, <2>7, Fields, TablesTyped, SoundLater
    <2> QED BY <2>1, <2>5, <2>6, <2>8
  <1> QED BY <1>1, <1>2

\* Time passes for the advisory, the cache and the jobs alike.
LEMMA TickStep ==
  ASSUME IInv, Tick
  PROVE  IInv'
  <1>1. /\ advisory' = IF advisory \in {0, Horizon} THEN advisory ELSE advisory + 1
        /\ cache' = [cache EXCEPT !.age = IF @ = CacheTTL THEN @ ELSE @ + 1]
        /\ snap' = snap
    BY Zenon DEF Tick
  <1>2. Horizon \in Nat
    BY Durations DEF Horizon, EvidenceAge
  <1>3. advisory' \in 0..Horizon /\ advisory' \in Nat /\ advisory' <= advisory + 1
    BY <1>1, <1>2, TablesTyped
  <1>4. \A j \in Job : /\ job'[j] \in JobState
                       /\ Sound(job'[j], advisory', snap) /\ InTime(j, job'[j])
    BY <1>3, JobAges
  <1>5. job' \in [Job -> JobState]
    <2>1. job' = [j \in Job |-> job'[j]]
      BY Zenon DEF Tick
    <2> QED BY <1>4, <2>1
  <1>6. JobsSound'
    BY <1>1, <1>4 DEF JobsSound, Sound, InTime
  <1>7. /\ cache' \in [ans : Evidence \cup {"none"}, age : 0..CacheTTL]
        /\ cache'.ans = cache.ans
        /\ cache'.age = IF cache.age = CacheTTL THEN cache.age ELSE cache.age + 1
    BY <1>1, TablesTyped, Durations
  <1>8. CacheSound'
    <2> SUFFICES ASSUME cache'.ans = "clean", cache'.age < CacheTTL
                 PROVE  advisory' <= BackgroundTimeout + cache'.age + DbTime + 1
      BY DEF CacheSound
    <2>1. cache'.age = cache.age + 1 /\ cache.age < CacheTTL
      BY <1>7, TablesTyped, Durations
    <2>2. advisory <= BackgroundTimeout + cache.age + DbTime + 1
      BY <1>7, <2>1 DEF IInv, CacheSound
    <2> QED BY <1>3, <2>1, <2>2, TablesTyped, Durations
  <1>9. cache'.ans = "none" => cache'.age = CacheTTL
    BY <1>7, TablesTyped
  <1>10. TypeOK'
    BY <1>1, <1>3, <1>5, <1>7, <1>9, TablesTyped DEF TypeOK, Horizon, EvidenceAge
  <1> QED BY <1>6, <1>8, <1>10 DEF IInv

\* Nothing is cached and no Check is in progress.
LEMMA InitIInv == Init => IInv
  <1> SUFFICES ASSUME Init PROVE IInv
    OBVIOUS
  <1>1. job = [j \in Job |-> Idle] /\ advisory = 0 /\ cache = NoRow /\ snap = "none"
    BY DEF Init
  <1>2. \A j \in Job : job[j] = Idle
    BY <1>1
  <1>3. JobsSound
    BY <1>2, IdleTyped, NothingClaimed, JustEntered DEF JobsSound
  <1>4. job \in [Job -> JobState]
    BY <1>1, IdleTyped
  <1>6. /\ cache \in [ans : Evidence \cup {"none"}, age : 0..CacheTTL]
        /\ cache.ans = "none" /\ cache.age = CacheTTL
    BY <1>1, Durations DEF NoRow
  <1>7. 0 \in 0..Horizon
    BY Durations DEF Horizon, EvidenceAge
  <1>8. TypeOK
    BY <1>1, <1>4, <1>6, <1>7 DEF TypeOK
  <1> QED BY <1>3, <1>6, <1>8 DEF IInv, CacheSound

\* The invariant is preserved by every step.
LEMMA NextIInv == IInv /\ [Next]_vars => IInv'
  <1> SUFFICES ASSUME IInv, [Next]_vars PROVE IInv'
    OBVIOUS
  <1>1. CASE UNCHANGED vars
    BY <1>1 DEF vars, IInv, TypeOK, CacheSound, JobsSound, Sound, InTime
  <1>2. CASE Next
    BY <1>2, StartStep, CacheReadStep, DeadlineStep, FailureStep, EndSteps, LooksStep, FetchStep,
       CacheWriteStep, SnapshotStep, FindingsStep, PublishStep, TickStep
    DEF Next, Step, Persist
  <1> QED BY <1>1, <1>2

\* The invariant holds in every reachable state.
LEMMA Invariance == Spec => []IInv
  BY InitIInv, NextIInv, PTL DEF Spec

\* Every state has its type, for every assignment of durations.
THEOREM TypeCorrect == Spec => []TypeOK
  <1>1. IInv => TypeOK
    BY DEF IInv
  <1> QED BY <1>1, Invariance, PTL

\* A Check is never allowed on what OSV saw longer than EvidenceAge ago, whatever
\* concurrent Checks write and however late a background result arrives: for any
\* number of Checks, any TTL and any timeouts.
THEOREM AllowRestsOnEvidence == Spec => []AllowIsVetted
  <1>1. IInv => AllowIsVetted
    <2> SUFFICES ASSUME IInv, NEW c \in Check, At(Main(c), "load"), Allows(snap)
                 PROVE  advisory <= EvidenceAge
      BY DEF AllowIsVetted
    <2> DEFINE j == Main(c)
    <2>1. j \in Job /\ job[j].pc = "load" /\ snap = "clean"
      BY Jobs DEF At, Allows
    <2> HIDE DEF j
    <2>2. job[j].t <= OthersTime /\ job[j].t \in Nat
      BY <2>1, Fields, Durations DEF InTime
    <2>3. advisory <= CachedAge + 2 * DbTime + job[j].t
      BY <2>1, Fields DEF Sound
    <2> QED BY <2>2, <2>3, TablesTyped, Durations DEF EvidenceAge
  <1> QED BY <1>1, Invariance, PTL
=============================================================================
