------------------------ MODULE ConnectorEvaluation ------------------------
(***************************************************************************)
(* How a Check obtains the evidence it decides on (check-service.ts,       *)
(* connectors/cache.ts, policy/effective.ts, project-findings.ts): the     *)
(* connector that must answer synchronously (OSV) is read from             *)
(* connector_cache or asked under a response deadline; its result is       *)
(* written to three tables one after the other; a result that comes after  *)
(* the deadline is written in the background; and the decision rests on    *)
(* the connector_snapshots row read back at the end, which concurrent      *)
(* Checks of the same project and artifact share.                          *)
(*                                                                         *)
(* One artifact of one project, with one finding that OSV does not know at *)
(* first (advisory = 0) and publishes at some time; OSV's answer has one   *)
(* page.  The policy is the one a tenant is provisioned with: block on the *)
(* finding, and block when OSV data is unavailable.  project_findings is   *)
(* written but decides nothing, so only the time it takes is modelled.     *)
(***************************************************************************)
EXTENDS Integers

CONSTANTS
    Check,              \* Checks of the artifact in progress at a time
    CacheTTL,           \* cacheTtlSeconds of the connector
    ResponseTimeout,    \* responseTimeoutMs
    BackgroundTimeout,  \* backgroundTimeoutMs of the HTTP client
    DbTime,             \* longest time between two database statements of a job
    OthersTime          \* longest time the contributor prefetch and the other
                        \* connectors hold up a Check whose OSV part is done

ASSUME ConnectorAssumption ==
    /\ {CacheTTL, ResponseTimeout, BackgroundTimeout} \subseteq Nat \ {0}
    /\ {DbTime, OthersTime} \subseteq Nat
    /\ ResponseTimeout <= BackgroundTimeout

VARIABLES
    advisory,   \* 0, or the time since the finding was published, from 1 on
    cache,      \* connector_cache: findings and age of the row
    snap,       \* connector_snapshots: what the row says of the artifact
    job         \* the Checks, and what a Check leaves running behind it

vars == <<advisory, cache, snap, job>>

\* A Check and the continuation its fetchPromise has after a timeout.
Job == Check \X {"main", "background"}

Evidence == {"clean", "vulnerable"}
Failure  == {"background_pending", "error"}

\* The oldest evidence an allow may rest on: OSV's answer may be on its way until
\* the HTTP client gives it up, the row of the cache is written one statement after
\* it arrives and is used until its age reaches CacheTTL; then the snapshot and the
\* findings are written, and the snapshot is read back when the others are done.
EvidenceAge == BackgroundTimeout + CacheTTL + 3 * DbTime + OthersTime
Horizon     == EvidenceAge + 1

\* A job at pc with the answer ans; caught says that an exception is thrown
\* inside the try block of evaluateConnectorForRequest.
Enter(pc, ans, caught) == [pc |-> pc, ans |-> ans, caught |-> caught, t |-> 0]

Idle == Enter("idle", "clean", TRUE)

JobState ==
    [pc  : {"idle", "read", "fetch", "reply", "cache", "snapshot", "findings",
            "fail", "load"},
     ans : Evidence \cup Failure,
     caught : BOOLEAN,
     t   : 0..(BackgroundTimeout + DbTime + OthersTime)]

NoRow == [ans |-> "none", age |-> CacheTTL]

\* The one type invariant of this module.
TypeOK ==
    /\ advisory \in 0..Horizon
    /\ cache \in [ans : Evidence \cup {"none"}, age : 0..CacheTTL]
    /\ cache.ans = "none" => cache.age = CacheTTL
    /\ snap \in Evidence \cup Failure \cup {"none"}
    /\ job \in [Job -> JobState]

Init ==
    /\ advisory = 0
    /\ cache = NoRow
    /\ snap = "none"
    /\ job = [j \in Job |-> Idle]

-----------------------------------------------------------------------------
Main(c)       == <<c, "main">>
Background(c) == <<c, "background">>

At(j, pc) == job[j].pc = pc

\* fetchPromise is pending: OSV has yet to look ("fetch"), or its answer is on
\* the way ("reply").
Fetching(j) == At(j, "fetch") \/ At(j, "reply")

Goto(j, pc) == job' = [job EXCEPT ![j].pc = pc, ![j].t = 0]

\* An exception: evaluateConnectorForRequest goes on in its catch block, the
\* background continuation only logs it.  The promise of persistConnectorResult
\* is returned, not awaited, so its rejection leaves the function without
\* entering the catch block and fails the RPC.
Throw(j) ==
    job' = [job EXCEPT ![j] = IF j[2] = "main" /\ job[j].caught
                                THEN Enter("fail", "error", FALSE)
                                ELSE Idle]

StartCheck(c) ==
    /\ At(Main(c), "idle") /\ At(Background(c), "idle")
    /\ Goto(Main(c), "read")
    /\ UNCHANGED <<advisory, cache, snap>>

\* Mutant: a row is used at the end of its TTL, and so is a missing one.
FreshRowOffByOne == cache.age <= CacheTTL

\* findFreshCacheRow: a row is used until its age reaches the TTL.
FreshRow == cache.age < CacheTTL

\* buildCachedSnapshot; on a miss handleEvent is called and the deadline set.
BuildCachedSnapshot(c) ==
    /\ At(Main(c), "read")
    /\ job' = [job EXCEPT ![Main(c)] =
                 IF FreshRow THEN Enter("snapshot", cache.ans, TRUE)
                             ELSE Enter("fetch", "clean", TRUE)]
    /\ UNCHANGED <<advisory, cache, snap>>

\* OSV answers what is published at that moment.
OsvLooks(j) ==
    /\ At(j, "fetch")
    /\ job' = [job EXCEPT ![j].pc = "reply",
                          ![j].ans = IF advisory = 0 THEN "clean" ELSE "vulnerable"]
    /\ UNCHANGED <<advisory, cache, snap>>

\* The answer arrives, before the deadline or behind it.
FetchAnswers(j) ==
    /\ At(j, "reply")
    /\ job' = [job EXCEPT ![j] = Enter("cache", job[j].ans, FALSE)]
    /\ UNCHANGED <<advisory, cache, snap>>

\* Mutant: the timer of the response deadline is not started.
ResponseDeadlineUnset(c) == FALSE /\ UNCHANGED vars

\* responseDeadline wins the race: the Check goes on without an answer and
\* fetchPromise keeps a continuation.
ResponseDeadline(c) ==
    /\ Fetching(Main(c)) /\ job[Main(c)].t = ResponseTimeout
    /\ job' = [job EXCEPT ![Main(c)] = Enter("fail", "background_pending", FALSE),
                          ![Background(c)] = job[Main(c)]]
    /\ UNCHANGED <<advisory, cache, snap>>

\* persistConnectorResult: three writes, one after the other.
UpsertCachedResult(j) ==
    /\ At(j, "cache")
    /\ cache' = [ans |-> job[j].ans, age |-> 0]
    /\ Goto(j, "snapshot")
    /\ UNCHANGED <<advisory, snap>>

UpsertConnectorSnapshot(j) ==
    /\ At(j, "snapshot")
    /\ snap' = job[j].ans
    /\ Goto(j, "findings")
    /\ UNCHANGED <<advisory, cache>>

UpsertProjectFindings(j) ==
    /\ At(j, "findings")
    /\ IF j[2] = "main" THEN Goto(j, "load") ELSE job' = [job EXCEPT ![j] = Idle]
    /\ UNCHANGED <<advisory, cache, snap>>

\* The end of the catch block.
UpsertFailureSnapshot(c) ==
    /\ At(Main(c), "fail")
    /\ snap' = job[Main(c)].ans
    /\ Goto(Main(c), "load")
    /\ UNCHANGED <<advisory, cache>>

\* Mutant: a pending result does not count as unavailable.
AllowsPending(s) == s \in {"clean", "background_pending"}

\* What the provisioned rules make of a snapshot.
Allows(s) == s = "clean"

\* loadSnapshots and evaluatePolicyDecision: the Check is answered with
\* Allows(snap).
Decide(c) ==
    /\ At(Main(c), "load")
    /\ job' = [job EXCEPT ![Main(c)] = Idle]
    /\ UNCHANGED <<advisory, cache, snap>>

\* A statement, or the request to OSV, may fail: in the evaluation of the
\* connector ...
StepFails(j) ==
    /\ job[j].pc \in {"read", "fetch", "reply", "cache", "snapshot", "findings"}
    /\ Throw(j)
    /\ UNCHANGED <<advisory, cache, snap>>

\* ... or behind it: the RPC fails and the Check has no answer.
CheckFails(c) ==
    /\ job[Main(c)].pc \in {"fail", "load"}
    /\ job' = [job EXCEPT ![Main(c)] = Idle]
    /\ UNCHANGED <<advisory, cache, snap>>

-----------------------------------------------------------------------------
PublishAdvisory ==
    /\ advisory = 0
    /\ advisory' = 1
    /\ UNCHANGED <<cache, snap, job>>

\* The longest a job stays in its step; a fetch that nothing answers fails
\* when the HTTP client gives it up, and loadSnapshots follows the contributor
\* prefetch and all other connectors.
Limit(j) ==
    CASE Fetching(j)   -> IF j[2] = "main" THEN ResponseTimeout ELSE BackgroundTimeout
      [] At(j, "load") -> OthersTime
      [] OTHER         -> DbTime

Tick ==
    /\ \A j \in Job : At(j, "idle") \/ job[j].t < Limit(j)
    /\ advisory' = IF advisory \in {0, Horizon} THEN advisory ELSE advisory + 1
    /\ cache' = [cache EXCEPT !.age = IF @ = CacheTTL THEN @ ELSE @ + 1]
    /\ job' = [j \in Job |-> IF At(j, "idle") THEN job[j]
                                              ELSE [job[j] EXCEPT !.t = @ + 1]]
    /\ UNCHANGED snap

\* The continuation of a fetch that the HTTP client gives up.
FetchGivenUp(c) ==
    /\ Fetching(Background(c)) /\ job[Background(c)].t = BackgroundTimeout
    /\ Throw(Background(c))
    /\ UNCHANGED <<advisory, cache, snap>>

Persist(j) ==
    UpsertCachedResult(j) \/ UpsertConnectorSnapshot(j) \/ UpsertProjectFindings(j)

Step(c) ==
    \/ BuildCachedSnapshot(c)
    \/ ResponseDeadline(c)
    \/ UpsertFailureSnapshot(c)
    \/ Decide(c)

Next ==
    \/ \E c \in Check : StartCheck(c) \/ Step(c) \/ CheckFails(c) \/ FetchGivenUp(c)
    \/ \E j \in Job : OsvLooks(j) \/ FetchAnswers(j) \/ Persist(j) \/ StepFails(j)
    \/ PublishAdvisory
    \/ Tick

Spec == Init /\ [][Next]_vars

\* Node runs every continuation and every timer; time passes however many
\* Checks come.  OSV need not answer.
FairSpec ==
    /\ Spec
    /\ SF_vars(Tick)
    /\ \A c \in Check : WF_vars(Step(c)) /\ WF_vars(FetchGivenUp(c))
    /\ \A j \in Job : WF_vars(Persist(j))

-----------------------------------------------------------------------------
\* Fail closed (README.md, "fail-closed behavior" of the response deadline): a
\* Check is allowed only on an answer of OSV that did not list the finding, and
\* OSV looked at most EvidenceAge ago, whatever other Checks of the artifact write
\* to the cache and the snapshot in between, although an answer that comes after
\* the deadline is already old when its continuation writes it, and although a
\* timed-out Check writes "background_pending" at the same time.
AllowIsVetted ==
    \A c \in Check : At(Main(c), "load") /\ Allows(snap) => advisory <= EvidenceAge

\* A Check is answered, or its RPC fails, even if OSV never answers.
EveryCheckAnswered ==
    \A c \in Check : ~At(Main(c), "idle") ~> At(Main(c), "idle")
=============================================================================
