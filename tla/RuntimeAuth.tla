---------------------------- MODULE RuntimeAuth ----------------------------
(***************************************************************************)
(* The proxy's runtime credential: the registration secret is exchanged    *)
(* for a short-lived JWT (client.go, bootstrap.go, token_refresh.go), the  *)
(* control plane authenticates the exchange against the proxies row and    *)
(* mints the token in two database round trips (token-exchange-service.ts, *)
(* bootstrap-auth-service.ts, proxy-auth.ts), an administrator disables,   *)
(* enables, revokes and rotates (lifecycle-service.ts), and /healthz shows *)
(* two flags that every exchange and the health probe write.               *)
(*                                                                         *)
(* Time is a countdown: Tick ages every token and every call in flight, so *)
(* the state space is finite without a bound on the length of a run.  The  *)
(* secret is abstracted to the column of the row it matches.               *)
(***************************************************************************)
EXTENDS Integers, FiniteSets

CONSTANTS
    Inactive,     \* the statuses of a proxy that is not active: disabled, revoked
    Request,      \* goroutines that send RPCs: checks, usage, metadata, the probe
    Loop,         \* refreshRuntimeTokenLoop (and, before it, the startup call)
    Probe,        \* probeControlPlaneHealth, one of Request
    TTL,          \* PROXY_JWT_TTL_SECONDS
    RefreshAge,   \* age at which refresh_after is reached (80 % of TTL)
    Timeout,      \* refreshTimeout, pingTimeout, http.Client.Timeout
    MinWait,      \* minWait and initialBackoff
    MaxBackoff,   \* maxBackoff
    Grace,        \* life of the previous secret after a rotation (one hour)
    MaxExchanges  \* bound on the requests that exchange the token at one time

Caller == Request \cup {Loop}
Status == Inactive \cup {"active"}

\* With PROXY_JWT_TTL_SECONDS in 300..1800 the refresh is due at 240 seconds
\* or later, 60 seconds or more before expiry; the timeouts are at most 10,
\* minWait is 1 and maxBackoff is 30 seconds.
ASSUME RuntimeAuthAssumption ==
    /\ {TTL, RefreshAge, Timeout, MinWait, MaxBackoff, Grace} \subseteq Nat \ {0}
    /\ RefreshAge + 2 * Timeout + MinWait <= TTL
    /\ MinWait <= MaxBackoff
    /\ MaxBackoff <= RefreshAge
    /\ "active" \notin Inactive
    /\ Probe \in Request /\ Loop \notin Request
    /\ MaxExchanges \in Nat \ {0}

VARIABLES
    status, slot, prevLeft,      \* the proxies row, as this proxy's secret sees it:
                                 \* prevLeft is what its grace period has left
    fault,                       \* network or database failing at the moment
    proc,                        \* the proxy process
    age,                         \* age of the stored token; TTL = expired or none
    reachable, healthy,          \* RuntimeState
    wait, backoff,               \* refreshRuntimeTokenLoop
    probe,                       \* the branch of probeControlPlaneHealth
    call,                        \* the exchange or RPC each goroutine is in
    sinceValid                   \* history: time since the credentials were good

row   == <<status, slot, prevLeft>>
flags == <<reachable, healthy>>
loop  == <<wait, backoff>>
vars  == <<row, fault, proc, age, flags, loop, probe, call, sinceValid>>

Horizon == TTL + Timeout

\* A call that begins at pc, and one that is over with a result.
Begin(pc, must) == [pc |-> pc, age |-> 0, tok |-> 0, res |-> "none", must |-> must]
Idle == Begin("idle", FALSE)
Outcome(k, res) == [pc |-> "flag1", age |-> 0, tok |-> 0, res |-> res, must |-> k.must]

Least(a, b) == IF a <= b THEN a ELSE b
Most(a, b)  == IF a <= b THEN b ELSE a

CallState ==
    [pc   : {"idle", "sent", "authed", "answer", "flag1", "flag2", "rpc"},
     age  : 0..Timeout,
     tok  : 0..TTL,
     res  : {"none", "ok", "transport", "transient", "permanent"},
     must : BOOLEAN]

\* The one type invariant of this module.
TypeOK ==
    /\ status \in Status
    /\ slot \in {"current", "previous", "none"}
    /\ prevLeft \in 0..Grace
    /\ fault \in BOOLEAN
    /\ proc \in {"starting", "running", "down"}
    /\ age \in 0..TTL
    /\ reachable \in BOOLEAN /\ healthy \in BOOLEAN
    /\ wait \in 0..RefreshAge
    /\ backoff \in MinWait..MaxBackoff
    /\ probe \in {"top", "heartbeat", "retry"}
    /\ call \in [Caller -> CallState]
    /\ sinceValid \in 0..Horizon

-----------------------------------------------------------------------------
\* TokenExpired: no token, or expires_at is not after now.
TokenExpired == age = TTL

\* requireBootstrapAuthenticatedProxy and the status checks after it.
Accepts ==
    /\ status = "active"
    /\ slot = "current" \/ (slot = "previous" /\ prevLeft > 0)

InFlight(c) == call[c].pc \in {"sent", "authed", "answer"}

Exchanging(c) == call[c].pc \notin {"idle", "rpc"}

\* GET /healthz answers 200.
HealthzOk == proc = "running" /\ reachable /\ healthy

\* main and InitializeControlPlaneAuth up to the startup exchange.
Starting ==
    /\ proc' = "starting"
    /\ age' = TTL
    /\ reachable' = FALSE /\ healthy' = TRUE
    /\ wait' = 0 /\ backoff' = MinWait /\ probe' = "top"
    /\ call' = [c \in Caller |-> IF c = Loop THEN Begin("sent", FALSE)
                                              ELSE Idle]

Init ==
    /\ status = "active" /\ slot = "current" /\ prevLeft = 0
    /\ fault \in BOOLEAN
    /\ sinceValid = 0
    /\ proc = "starting"
    /\ age = TTL
    /\ reachable = FALSE /\ healthy = TRUE
    /\ wait = 0 /\ backoff = MinWait /\ probe = "top"
    /\ call = [c \in Caller |-> IF c = Loop THEN Begin("sent", FALSE)
                                            ELSE Idle]

-----------------------------------------------------------------------------
(* The administrator: every operation is one UPDATE of the row.             *)

TrackValidity == sinceValid' = IF Accepts' THEN 0 ELSE sinceValid

SetProxyStatus(s) ==
    /\ status' = s
    /\ UNCHANGED <<slot, prevLeft, fault, proc, age, flags, loop, probe, call>>
    /\ TrackValidity

RotateProxySecret ==
    /\ slot' = IF slot = "current" THEN "previous" ELSE "none"
    /\ prevLeft' = IF slot = "current" THEN Grace ELSE 0
    /\ UNCHANGED <<status, fault, proc, age, flags, loop, probe, call>>
    /\ TrackValidity

-----------------------------------------------------------------------------
(* The control plane: POST /internal/v1/proxy/token.                        *)

\* Mutant: the grace period of the previous secret is not looked at.
AuthenticateWithoutGrace(c) ==
    /\ call[c].pc = "sent"
    /\ call' = [call EXCEPT ![c].pc =
                   IF status = "active" /\ slot # "none" THEN "authed" ELSE "answer",
                            ![c].res =
                   IF status = "active" /\ slot # "none" THEN "none" ELSE "permanent"]
    /\ UNCHANGED <<row, fault, proc, age, flags, loop, probe, sinceValid>>

Answer(c, r) == call' = [call EXCEPT ![c].pc = "answer", ![c].res = r]

\* authenticateBootstrapProxy.  A failing SELECT is caught and answered as
\* 401 UNREGISTERED_PROXY; when the SELECT of the catch block fails as well
\* the error is a 500.
AuthenticateBootstrapProxy(c) ==
    /\ call[c].pc = "sent"
    /\ \/ Accepts /\ call' = [call EXCEPT ![c].pc = "authed"]
       \/ ~Accepts /\ Answer(c, "permanent")
       \/ fault /\ Answer(c, "permanent")
       \/ fault /\ Answer(c, "transient")
    /\ UNCHANGED <<row, fault, proc, age, flags, loop, probe, sinceValid>>

\* exchangeProxyRuntimeToken after the authentication: the status events are
\* inserted around the minting of the token, which does not read the row again.
IssueProxyRuntimeToken(c) ==
    /\ call[c].pc = "authed"
    /\ \/ call' = [call EXCEPT ![c].pc = "answer", ![c].res = "ok", ![c].tok = 0]
       \/ fault /\ Answer(c, "transient")
    /\ UNCHANGED <<row, fault, proc, age, flags, loop, probe, sinceValid>>

-----------------------------------------------------------------------------
(* The proxy.                                                               *)

\* ExchangeRuntimeToken returns: the answer is stored under the lock.
ReceiveAnswer(c) ==
    /\ call[c].pc = "answer"
    /\ age' = IF call[c].res = "ok" THEN call[c].tok ELSE age
    /\ call' = [call EXCEPT ![c] = Outcome(@, @.res)]
    /\ UNCHANGED <<row, fault, proc, flags, loop, probe, sinceValid>>

GiveUp(c) ==
    /\ InFlight(c)
    /\ call' = [call EXCEPT ![c] = Outcome(@, "transport")]
    /\ UNCHANGED <<row, fault, proc, age, flags, loop, probe, sinceValid>>

\* The request, or its answer, is lost or late.
ExchangeTimesOut(c) == fault /\ GiveUp(c)

\* A request's exchange runs under the context of its client, or under the short
\* wait of a metadata submission: it ends when the one leaves or the other is over.
ClientLeaves(c) == c # Probe /\ GiveUp(c)

\* exchangeRuntimeToken of bootstrap.go: two stores, one after the other.
SetControlPlaneReachable(c) ==
    /\ call[c].pc = "flag1"
    /\ reachable' = (call[c].res # "transport")
    /\ call' = [call EXCEPT ![c].pc = "flag2"]
    /\ UNCHANGED <<row, fault, proc, age, healthy, loop, probe, sinceValid>>

Exit ==
    /\ proc' = "down"
    /\ age' = TTL
    /\ call' = [c \in Caller |-> Idle]
    /\ wait' = 0 /\ backoff' = MinWait /\ probe' = "top"
    /\ reachable' = FALSE /\ healthy' = FALSE

\* Mutant: minWait is forgotten.
NextWaitUnclamped(b) == IF TokenExpired THEN b ELSE RefreshAge - age

\* Mutants: only a rejection makes the refresh unhealthy; it never heals.
UnhealthyOnlyWhenRejected(res) == res # "permanent"
NeverHealthyAgain(res) == healthy /\ res = "ok"

\* The value exchangeRuntimeToken gives to SetAuthRefreshHealthy.
AuthRefreshHealthy(res) == res = "ok"

\* The wait at the top of refreshRuntimeTokenLoop.
NextWait(b) == IF TokenExpired THEN b ELSE Most(MinWait, RefreshAge - age)

\* SetAuthRefreshHealthy, then InitializeControlPlaneAuth or
\* refreshRuntimeTokenLoop goes on with the result.
LoopContinues ==
    LET res == call[Loop].res
        b   == IF res = "ok" \/ proc = "starting" THEN MinWait
               ELSE IF TokenExpired THEN Least(2 * backoff, MaxBackoff)
               ELSE backoff
    IN  /\ call[Loop].pc = "flag2"
        /\ \/ res = "permanent" /\ Exit
           \/ /\ res # "permanent"
              /\ proc' = "running"
              /\ healthy' = AuthRefreshHealthy(res)
              /\ backoff' = b
              /\ wait' = NextWait(b)
              /\ call' = [call EXCEPT ![Loop] = Idle]
              /\ UNCHANGED <<age, reachable, probe>>
        /\ UNCHANGED <<row, fault, sinceValid>>

RefreshLoopWakes ==
    /\ proc = "running"
    /\ call[Loop].pc = "idle" /\ wait = 0
    /\ call' = [call EXCEPT ![Loop] = Begin("sent", FALSE)]
    /\ UNCHANGED <<row, fault, proc, age, flags, loop, probe, sinceValid>>

\* The top of the loop of probeControlPlaneHealth, which is asleep until then.
ProbeLooks ==
    /\ proc = "running" /\ probe = "top"
    /\ probe' = IF reachable THEN "heartbeat" ELSE "retry"
    /\ UNCHANGED <<row, fault, proc, age, flags, loop, call, sinceValid>>

\* ensureRuntimeToken, called by the interceptor of every RPC.  Of the RPCs
\* themselves only the probe's ping changes something here.
EnsureRuntimeToken(c) ==
    /\ proc = "running"
    /\ call[c].pc = "idle"
    /\ IF c = Probe THEN probe # "top" ELSE age >= RefreshAge
    /\ age >= RefreshAge => Cardinality({d \in Request : Exchanging(d)}) < MaxExchanges
    /\ call' = [call EXCEPT ![c] = Begin(IF age >= RefreshAge THEN "sent" ELSE "rpc",
                                         c = Probe /\ TokenExpired)]
    /\ UNCHANGED <<row, fault, proc, age, flags, loop, probe, sinceValid>>

\* The ping returns to the branch it was sent from: a heartbeat that fails clears
\* the flag, a retry that succeeds sets it.
PingReturns(ok) ==
    /\ reachable' = IF ok = (probe = "retry") THEN ok ELSE reachable
    /\ probe' = "top"

\* The refresher returns to ensureRuntimeToken: a permanent rejection, or any
\* failure without a valid token, fails the RPC; otherwise the stored token
\* is used.
RefreshReturns(c) ==
    LET fails == call[c].res = "permanent"
                 \/ (call[c].must /\ call[c].res # "ok")
    IN  /\ call[c].pc = "flag2"
        /\ healthy' = AuthRefreshHealthy(call[c].res)
        /\ call' = [call EXCEPT ![c] = IF fails \/ c # Probe THEN Idle
                                       ELSE Begin("rpc", FALSE)]
        /\ IF fails /\ c = Probe THEN PingReturns(FALSE) ELSE UNCHANGED <<reachable, probe>>
        /\ UNCHANGED <<row, fault, proc, age, loop, sinceValid>>

\* RuntimePing: proxyJwtAuthInterceptor verifies the token and reads no table.
SendRPC ==
    /\ call[Probe].pc = "rpc"
    /\ \E ok \in BOOLEAN :
         /\ ok => ~TokenExpired
         /\ ~ok => TokenExpired \/ fault
         /\ PingReturns(ok)
    /\ call' = [call EXCEPT ![Probe] = Idle]
    /\ UNCHANGED <<row, fault, proc, age, healthy, loop, sinceValid>>

\* The supervisor starts the process again, with the same secret or after the
\* operator put the current one into its configuration.
Restart ==
    /\ proc = "down"
    /\ Starting
    /\ slot' \in {slot, "current"}
    /\ prevLeft' = IF slot' = "previous" THEN prevLeft ELSE 0
    /\ UNCHANGED <<status, fault>>
    /\ TrackValidity

-----------------------------------------------------------------------------
FaultChanges ==
    /\ fault' = ~fault
    /\ UNCHANGED <<row, proc, age, flags, loop, probe, call, sinceValid>>

\* Mutant: the context of a request carries no deadline.
OverdueOnlyInLoop(c) ==
    call[c].pc # "idle" /\ ~(InFlight(c) /\ (c # Loop \/ call[c].age < Timeout))

\* A call ends within its timeout and code between two calls takes no time.
Overdue(c) == call[c].pc # "idle" /\ ~(InFlight(c) /\ call[c].age < Timeout)

\* Time passes when nothing is overdue and no timer has fired.
Tick ==
    /\ \A c \in Caller : ~Overdue(c)
    /\ proc = "running" /\ call[Loop].pc = "idle" => wait > 0
    /\ age' = Least(age + 1, TTL)
    /\ prevLeft' = IF prevLeft = 0 THEN 0 ELSE prevLeft - 1
    /\ wait' = IF wait = 0 THEN 0 ELSE wait - 1
    /\ call' = [c \in Caller |->
                  IF InFlight(c)
                    THEN [call[c] EXCEPT
                            !.age = Least(@ + 1, Timeout),
                            !.tok = IF call[c].pc = "answer" /\ call[c].res = "ok"
                                      THEN Least(@ + 1, TTL) ELSE 0]
                    ELSE call[c]]
    /\ sinceValid' = IF Accepts THEN 0 ELSE Least(sinceValid + 1, Horizon)
    /\ UNCHANGED <<status, slot, fault, proc, flags, backoff, probe>>

Exchange(c) ==
    \/ AuthenticateBootstrapProxy(c)
    \/ IssueProxyRuntimeToken(c)
    \/ ReceiveAnswer(c)
    \/ SetControlPlaneReachable(c)

Next ==
    \/ \E s \in Status : SetProxyStatus(s)
    \/ RotateProxySecret
    \/ \E c \in Caller : Exchange(c)
    \/ \E c \in Caller : ExchangeTimesOut(c)
    \/ LoopContinues
    \/ RefreshLoopWakes
    \/ \E c \in Request : EnsureRuntimeToken(c)
    \/ \E c \in Request : RefreshReturns(c)
    \/ \E c \in Request : ClientLeaves(c)
    \/ ProbeLooks \/ SendRPC
    \/ Restart
    \/ FaultChanges
    \/ Tick

Spec == Init /\ [][Next]_vars

\* Time does not stop however often the probe pings, the control plane
\* answers, the scheduler runs every goroutine, the probe pings again and the
\* supervisor restarts the process.  Nothing is assumed of other requests, of
\* the administrator or of faults.
FairSpec ==
    /\ Spec
    /\ SF_vars(Tick)
    /\ \A c \in Caller : WF_vars(Exchange(c))
    /\ \A c \in Request : WF_vars(RefreshReturns(c))
    /\ WF_vars(ProbeLooks) /\ WF_vars(SendRPC)
    /\ WF_vars(LoopContinues) /\ WF_vars(RefreshLoopWakes)
    /\ SF_vars(EnsureRuntimeToken(Probe))
    /\ WF_vars(Restart)

-----------------------------------------------------------------------------
\* Disabling, revoking or rotating away a proxy's secret takes effect without
\* any check of the table on the RPC path: TTL plus one exchange after the row
\* last accepted the proxy, it holds no token the interceptor would accept,
\* although an exchange that authenticated before the change may still be
\* answered after it (token-exchange-service.ts does not read the row again).
RevocationTakesEffect == sinceValid = Horizon => TokenExpired

\* Goroutines exchange the token at the same time and the last answer to
\* arrive is stored, even when it was minted before the one it replaces
\* (client.go:257): the stored token never loses more life than one exchange
\* may take.
LateAnswerCostsOneExchange ==
    [][proc = "running" /\ proc' = "running" => age' <= age + Timeout]_vars

\* /healthz does not answer 200 while fresh requests fail closed: when both
\* flags are set the stored token is valid, although every exchange and the
\* probe write the flags separately and the last writer wins.
HealthzTruthful == HealthzOk => ~TokenExpired

\* Once faults end, the row accepts the proxy's secret for good and no client
\* leaves while its request exchanges the token, /healthz settles on 200: no lost
\* update of a flag, no skipped write of the probe and no back-off lasts for ever.
HealthzRecovers ==
    /\ <>[](~fault /\ Accepts)
    /\ <>[][\A c \in Request : ~ClientLeaves(c)]_vars
    => <>[]HealthzOk
=============================================================================
