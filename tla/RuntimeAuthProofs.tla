-------------------------- MODULE RuntimeAuthProofs --------------------------
(***************************************************************************)
(* Type correctness of RuntimeAuth, the bound on the life of a token after *)
(* its credentials were withdrawn, the cost of a late answer and the truth *)
(* of /healthz, for any goroutines and any durations that satisfy          *)
(* RuntimeAuthAssumption.                                                  *)
(***************************************************************************)
EXTENDS RuntimeAuth, TLAPS

\* A call that has passed the authentication, or carries a token.
Vouched(k) == k.pc = "authed" \/ (k.pc = "answer" /\ k.res = "ok")

\* While the row accepts the proxy no time has passed since it did.
AcceptedNow == Accepts => sinceValid = 0

\* A call was authenticated after it began, and minted its token after that.
CallsAreYoung ==
    \A c \in Caller :
        /\ Vouched(call[c]) => sinceValid <= call[c].age
        /\ call[c].tok <= call[c].age

\* The stored token was minted at most one exchange after the row accepted it.
TokenIsYoung == sinceValid <= age + Timeout

\* The inductive invariant.
IInv == TypeOK /\ AcceptedNow /\ CallsAreYoung /\ TokenIsYoung

\* RuntimeAuthAssumption, one constant at a time.
LEMMA Durations ==
    /\ TTL \in Nat /\ RefreshAge \in Nat /\ Timeout \in Nat /\ MinWait \in Nat
    /\ MaxBackoff \in Nat /\ Grace \in Nat
    /\ TTL > 0 /\ RefreshAge > 0 /\ Timeout > 0 /\ MinWait > 0
    /\ MinWait <= MaxBackoff /\ MaxBackoff <= RefreshAge
    /\ Timeout <= TTL /\ RefreshAge <= TTL
  BY RuntimeAuthAssumption

\* The fields of a call that begins.
LEMMA BeginIsYoung ==
  ASSUME NEW pc \in {"idle", "sent", "rpc"}, NEW must \in BOOLEAN
  PROVE  LET k == Begin(pc, must)
         IN  k \in CallState /\ k.tok <= k.age /\ ~Vouched(k)
  BY Durations DEF Begin, CallState, Vouched

\* The calls of a process that starts.
LEMMA FirstCalls ==
  ASSUME NEW calls, calls = [c \in Caller |-> IF c = Loop THEN Begin("sent", FALSE)
                                                        ELSE Idle]
  PROVE  /\ calls \in [Caller -> CallState]
         /\ \A c \in Caller : calls[c].tok <= calls[c].age /\ ~Vouched(calls[c])
  <1>1. \A c \in Caller : calls[c] \in {Begin("idle", FALSE), Begin("sent", FALSE)}
    BY DEF Idle
  <1>2. ASSUME NEW k \in {Begin("idle", FALSE), Begin("sent", FALSE)}
        PROVE  k \in CallState /\ k.tok <= k.age /\ ~Vouched(k)
    BY BeginIsYoung
  <1> QED BY <1>1, <1>2, Zenon

\* The process starts without a token.
LEMMA InitIInv == Init => IInv
  <1> SUFFICES ASSUME Init PROVE IInv
    OBVIOUS
  <1>1. /\ call \in [Caller -> CallState]
        /\ \A c \in Caller : call[c].tok <= call[c].age /\ ~Vouched(call[c])
    BY FirstCalls, Zenon DEF Init
  <1>2. CallsAreYoung
    BY <1>1 DEF CallsAreYoung
  <1>3. fault \in BOOLEAN /\ reachable \in BOOLEAN /\ healthy \in BOOLEAN
    BY Zenon DEF Init
  <1>4. /\ status \in Status
        /\ slot \in {"current", "previous", "none"}
        /\ prevLeft \in 0..Grace /\ proc \in {"starting", "running", "down"}
        /\ age \in 0..TTL /\ wait \in 0..RefreshAge
        /\ backoff \in MinWait..MaxBackoff /\ sinceValid \in 0..Horizon
        /\ probe \in {"top", "heartbeat", "retry"}
    BY Durations DEF Init, Horizon, Status
  <1>5. TypeOK
    BY <1>1, <1>3, <1>4, Zenon DEF TypeOK
  <1> QED BY <1>2, <1>5, Durations DEF Init, IInv, AcceptedNow, TokenIsYoung

\* The administrator changes the row and nothing else: sinceValid is reset
\* when the row accepts the secret again and otherwise only kept.
LEMMA RowSteps ==
  ASSUME IInv,
         (\E s \in Status : SetProxyStatus(s))
           \/ RotateProxySecret
  PROVE  IInv'
  BY Durations
  DEF IInv, TypeOK, AcceptedNow, CallsAreYoung, TokenIsYoung, Vouched, Horizon,
      CallState, SetProxyStatus, RotateProxySecret, TrackValidity, Accepts,
      Caller, flags, loop

\* A step that changes one call, and perhaps the flags and the loop's timer.
LEMMA OneCallChanges ==
  ASSUME IInv, NEW c \in Caller, NEW k \in CallState,
         call' = [call EXCEPT ![c] = k],
         Vouched(k) => sinceValid <= k.age, k.tok <= k.age,
         UNCHANGED <<row, fault, age, sinceValid>>,
         proc' \in {"starting", "running", "down"},
         reachable' \in BOOLEAN, healthy' \in BOOLEAN,
         wait' \in 0..RefreshAge, backoff' \in MinWait..MaxBackoff,
         probe' \in {"top", "heartbeat", "retry"}
  PROVE  IInv'
  <1>1. call' \in [Caller -> CallState]
    BY DEF IInv, TypeOK
  <1>2. TypeOK'
    BY <1>1 DEF IInv, TypeOK, row, Horizon
  <1>3. \A d \in Caller : call'[d] = IF d = c THEN k ELSE call[d]
    BY DEF IInv, TypeOK
  <1>4. CallsAreYoung'
    BY <1>3 DEF IInv, CallsAreYoung, Vouched
  <1> QED BY <1>2, <1>4 DEF IInv, AcceptedNow, TokenIsYoung, Accepts, row

\* A step that changes one call and nothing else.
LEMMA OnlyOneCallChanges ==
  ASSUME IInv, NEW c \in Caller, NEW k \in CallState,
         call' = [call EXCEPT ![c] = k],
         Vouched(k) => sinceValid <= k.age, k.tok <= k.age,
         UNCHANGED <<row, fault, proc, age, flags, loop, probe, sinceValid>>
  PROVE  IInv'
  BY OneCallChanges DEF IInv, TypeOK, flags, loop

\* What the type invariant says of the process, the flags and the timer.
LEMMA ProcessTyped ==
  ASSUME IInv
  PROVE  /\ proc \in {"starting", "running", "down"}
         /\ reachable \in BOOLEAN /\ healthy \in BOOLEAN
         /\ wait \in 0..RefreshAge /\ backoff \in MinWait..MaxBackoff
         /\ probe \in {"top", "heartbeat", "retry"}
  BY DEF IInv, TypeOK

\* The fields of a call.
LEMMA Fields ==
  ASSUME IInv, NEW c \in Caller
  PROVE  /\ call[c] \in CallState
         /\ call[c].age \in 0..Timeout /\ call[c].tok \in 0..TTL
         /\ call[c].must \in BOOLEAN
         /\ call[c].res \in {"none", "ok", "transport", "transient", "permanent"}
         /\ call[c].tok <= call[c].age
         /\ Vouched(call[c]) => sinceValid <= call[c].age
  BY DEF IInv, TypeOK, CallState, CallsAreYoung

\* The fields of a call that is over.
LEMMA OutcomeIsYoung ==
  ASSUME NEW k \in CallState,
         NEW res \in {"none", "ok", "transport", "transient", "permanent"}
  PROVE  LET o == Outcome(k, res)
         IN  o \in CallState /\ o.tok <= o.age /\ ~Vouched(o)
  BY Durations DEF Outcome, CallState, Vouched

\* The answer to a call: the result alone is recorded.
LEMMA AnswerStep ==
  ASSUME IInv, NEW c \in Caller, NEW r \in {"transient", "permanent"}, Answer(c, r),
         UNCHANGED <<row, fault, proc, age, flags, loop, probe, sinceValid>>
  PROVE  IInv'
  <1> DEFINE k == [call[c] EXCEPT !.pc = "answer", !.res = r]
  <1>1. call' = [call EXCEPT ![c] = k]
    BY Zenon DEF Answer, IInv, TypeOK
  <1>2. k \in CallState /\ k.tok = call[c].tok /\ k.age = call[c].age /\ ~Vouched(k)
    BY Fields DEF CallState, Vouched
  <1> HIDE DEF k
  <1> QED BY <1>1, <1>2, Fields, OnlyOneCallChanges

\* The control plane authenticates a call only while the row accepts it.
LEMMA AuthenticateStep ==
  ASSUME IInv, NEW c \in Caller, AuthenticateBootstrapProxy(c)
  PROVE  IInv'
  <1>1. CASE Accepts /\ call' = [call EXCEPT ![c].pc = "authed"]
    <2> DEFINE k == [call[c] EXCEPT !.pc = "authed"]
    <2>1. call' = [call EXCEPT ![c] = k]
      BY <1>1, Zenon DEF IInv, TypeOK
    <2>2. k \in CallState /\ k.tok = call[c].tok /\ k.age = call[c].age
      BY Fields DEF CallState
    <2>3. sinceValid = 0
      BY <1>1 DEF IInv, AcceptedNow
    <2> HIDE DEF k
    <2>4. sinceValid <= k.age /\ k.tok <= k.age
      BY <2>2, <2>3, Fields
    <2> QED BY <2>1, <2>2, <2>4, OnlyOneCallChanges DEF AuthenticateBootstrapProxy
  <1> QED BY <1>1, AnswerStep DEF AuthenticateBootstrapProxy

\* The token is minted for a call that was authenticated while it lasted.
LEMMA IssueStep ==
  ASSUME IInv, NEW c \in Caller, IssueProxyRuntimeToken(c)
  PROVE  IInv'
  <1>1. CASE call' = [call EXCEPT ![c].pc = "answer", ![c].res = "ok", ![c].tok = 0]
    <2> DEFINE j == [call[c] EXCEPT !.pc = "answer", !.res = "ok"]
               k == [j EXCEPT !.tok = 0]
    <2>1. call' = [call EXCEPT ![c] = k]
      BY <1>1, Zenon DEF IInv, TypeOK
    <2>2. j \in CallState /\ j.age = call[c].age
      BY Fields DEF CallState
    <2> HIDE DEF j
    <2>3. k \in CallState /\ k.tok = 0 /\ k.age = j.age
      BY <2>2, Durations DEF CallState
    <2> HIDE DEF k
    <2>4. sinceValid <= k.age /\ k.tok <= k.age
      BY <2>2, <2>3, Fields DEF IssueProxyRuntimeToken, Vouched
    <2> QED BY <2>1, <2>3, <2>4, OnlyOneCallChanges DEF IssueProxyRuntimeToken
  <1> QED BY <1>1, AnswerStep DEF IssueProxyRuntimeToken

\* The stored token is one whose call was authenticated within the timeout.
LEMMA ReceiveStep ==
  ASSUME IInv, NEW c \in Caller, ReceiveAnswer(c)
  PROVE  IInv'
  <1> DEFINE k == Outcome(call[c], call[c].res)
  <1>1. call' = [call EXCEPT ![c] = k]
    BY DEF ReceiveAnswer
  <1>2. k \in CallState /\ k.tok <= k.age /\ ~Vouched(k)
    BY Fields, OutcomeIsYoung
  <1> HIDE DEF k
  <1>3. call' \in [Caller -> CallState]
    BY <1>1, <1>2 DEF IInv, TypeOK
  <1>4. age' \in 0..TTL
    BY Fields DEF IInv, TypeOK, ReceiveAnswer
  <1>5. TypeOK'
    BY <1>3, <1>4 DEF IInv, TypeOK, ReceiveAnswer, row, flags, loop, Horizon
  <1>6. TokenIsYoung'
    BY Fields, Durations
    DEF IInv, TypeOK, TokenIsYoung, ReceiveAnswer, Vouched, Horizon
  <1>7. \A d \in Caller : call'[d] = IF d = c THEN k ELSE call[d]
    BY <1>1 DEF IInv, TypeOK
  <1>8. CallsAreYoung'
    BY <1>2, <1>7 DEF IInv, CallsAreYoung, Vouched, ReceiveAnswer
  <1> QED BY <1>5, <1>6, <1>8 DEF IInv, AcceptedNow, Accepts, ReceiveAnswer, row

\* What a ping that returns writes.
LEMMA PingTyped ==
  ASSUME IInv, NEW ok \in BOOLEAN, PingReturns(ok)
  PROVE  reachable' \in BOOLEAN /\ probe' \in {"top", "heartbeat", "retry"}
  <1>1. reachable' = ok \/ reachable' = reachable
    BY Zenon DEF PingReturns
  <1>2. reachable' \in BOOLEAN
    BY <1>1, ProcessTyped, Zenon
  <1> QED BY <1>2 DEF PingReturns

\* The other steps of a call leave the stored token and the row alone.
LEMMA CallSteps ==
  ASSUME IInv, NEW c \in Caller,
         \/ GiveUp(c) \/ SetControlPlaneReachable(c)
         \/ EnsureRuntimeToken(c) \/ RefreshReturns(c)
  PROVE  IInv'
  <1>1. CASE GiveUp(c)
    <2> DEFINE k == Outcome(call[c], "transport")
    <2>1. k \in CallState /\ k.tok <= k.age /\ ~Vouched(k)
      BY Fields, OutcomeIsYoung
    <2>2. call' = [call EXCEPT ![c] = k]
      BY <1>1 DEF GiveUp
    <2> HIDE DEF k
    <2> QED BY <1>1, <2>1, <2>2, OnlyOneCallChanges DEF GiveUp
  <1>2. CASE SetControlPlaneReachable(c)
    <2> DEFINE k == [call[c] EXCEPT !.pc = "flag2"]
    <2>1. k \in CallState /\ k.tok = call[c].tok /\ k.age = call[c].age /\ ~Vouched(k)
      BY Fields DEF CallState, Vouched
    <2>2. call' = [call EXCEPT ![c] = k]
      BY <1>2, Zenon DEF SetControlPlaneReachable, IInv, TypeOK
    <2>3. reachable' \in BOOLEAN
      BY <1>2 DEF SetControlPlaneReachable
    <2> HIDE DEF k
    <2> QED BY <1>2, <2>1, <2>2, <2>3, Fields, ProcessTyped, OneCallChanges
        DEF SetControlPlaneReachable, loop
  <1>3. CASE EnsureRuntimeToken(c)
    <2> DEFINE pc == IF age >= RefreshAge THEN "sent" ELSE "rpc"
               must == c = Probe /\ TokenExpired
               k  == Begin(pc, must)
    <2>1. pc \in {"idle", "sent", "rpc"} /\ must \in BOOLEAN
      BY DEF TokenExpired
    <2>2. call' = [call EXCEPT ![c] = k]
      BY <1>3 DEF EnsureRuntimeToken
    <2> HIDE DEF pc, must
    <2>3. k \in CallState /\ k.tok <= k.age /\ ~Vouched(k)
      BY <2>1, BeginIsYoung
    <2> HIDE DEF k
    <2> QED BY <1>3, <2>2, <2>3, OnlyOneCallChanges DEF EnsureRuntimeToken
  <1>4. CASE RefreshReturns(c)
    <2> DEFINE fails == call[c].res = "permanent" \/ (call[c].must /\ call[c].res # "ok")
               k == IF fails \/ c # Probe THEN Idle ELSE Begin("rpc", FALSE)
    <2>1. k \in CallState /\ k.tok <= k.age /\ ~Vouched(k)
      BY BeginIsYoung, Zenon DEF Idle
    <2>2. call' = [call EXCEPT ![c] = k]
      BY <1>4, Zenon DEF RefreshReturns
    <2>3. healthy' \in BOOLEAN
      BY <1>4 DEF RefreshReturns, AuthRefreshHealthy
    <2>4. PingReturns(FALSE) \/ UNCHANGED <<reachable, probe>>
      BY <1>4, Zenon DEF RefreshReturns
    <2>5. reachable' \in BOOLEAN /\ probe' \in {"top", "heartbeat", "retry"}
      BY <2>4, PingTyped, ProcessTyped
    <2> HIDE DEF k
    <2> QED BY <1>4, <2>1, <2>2, <2>3, <2>5, ProcessTyped, OneCallChanges
        DEF RefreshReturns, loop
  <1> QED BY <1>1, <1>2, <1>3, <1>4

\* The steps of the probe.
LEMMA ProbeSteps ==
  ASSUME IInv, ProbeLooks \/ SendRPC
  PROVE  IInv'
  <1>1. CASE ProbeLooks
    <2>1. probe' \in {"top", "heartbeat", "retry"}
      BY <1>1 DEF ProbeLooks
    <2>2. TypeOK'
      BY <1>1, <2>1 DEF ProbeLooks, IInv, TypeOK, row, flags, loop
    <2> QED BY <1>1, <2>2
        DEF ProbeLooks, IInv, AcceptedNow, CallsAreYoung, TokenIsYoung, Vouched,
            Accepts, row
  <1>2. CASE SendRPC
    <2>1. Idle \in CallState /\ Idle.tok <= Idle.age /\ ~Vouched(Idle)
      BY BeginIsYoung DEF Idle
    <2>2. PICK ok \in BOOLEAN : PingReturns(ok)
      BY <1>2 DEF SendRPC
    <2>3. reachable' \in BOOLEAN /\ probe' \in {"top", "heartbeat", "retry"}
      BY <2>2, PingTyped
    <2>4. Probe \in Caller
      BY RuntimeAuthAssumption DEF Caller
    <2> QED BY <1>2, <2>1, <2>3, <2>4, ProcessTyped, OneCallChanges DEF SendRPC, loop
  <1> QED BY <1>1, <1>2

\* The refresh loop and the process: a process that ends or starts holds no
\* token, which is as good as an expired one.
LEMMA LoopSteps ==
  ASSUME IInv, LoopContinues \/ RefreshLoopWakes \/ Restart
  PROVE  IInv'
  <1>1. Idle \in CallState /\ Idle.tok <= Idle.age /\ ~Vouched(Idle)
    BY BeginIsYoung DEF Idle
  <1>2. Loop \in Caller
    BY DEF Caller
  <1>3. CASE LoopContinues
    <2>1. CASE Exit /\ UNCHANGED <<row, fault, sinceValid>>
      <3>1. call' \in [Caller -> CallState] /\ CallsAreYoung'
        BY <1>1, <2>1 DEF Exit, CallsAreYoung
      <3>2. reachable' \in BOOLEAN /\ healthy' \in BOOLEAN
        BY <2>1, Zenon DEF Exit
      <3>3. TypeOK'
        BY <2>1, <3>1, <3>2, Durations DEF Exit, IInv, TypeOK, row, Horizon
      <3> QED BY <2>1, <3>1, <3>3, Durations
          DEF Exit, IInv, TypeOK, AcceptedNow, TokenIsYoung, Accepts, row, Horizon
    <2> DEFINE res == call[Loop].res
               b   == IF res = "ok" \/ proc = "starting" THEN MinWait
                      ELSE IF TokenExpired THEN Least(2 * backoff, MaxBackoff)
                      ELSE backoff
    <2>2. CASE /\ proc' = "running"
               /\ healthy' = AuthRefreshHealthy(res)
               /\ backoff' = b
               /\ wait' = NextWait(b)
               /\ call' = [call EXCEPT ![Loop] = Idle]
               /\ UNCHANGED <<age, reachable, probe>>
               /\ UNCHANGED <<row, fault, sinceValid>>
      <3>1. b \in MinWait..MaxBackoff
        BY Durations DEF Least, IInv, TypeOK
      <3> HIDE DEF b
      <3>2. NextWait(b) \in 0..RefreshAge
        BY <3>1, Durations DEF NextWait, TokenExpired, Most, IInv, TypeOK
      <3>3. healthy' \in BOOLEAN
        BY <2>2 DEF AuthRefreshHealthy
      <3> QED BY <1>1, <1>2, <2>2, <3>1, <3>2, <3>3, ProcessTyped, OneCallChanges
    <2> QED BY <1>3, <2>1, <2>2 DEF LoopContinues
  <1>4. CASE RefreshLoopWakes
    <2> DEFINE k == Begin("sent", FALSE)
    <2>1. k \in CallState /\ k.tok <= k.age /\ ~Vouched(k)
      BY BeginIsYoung
    <2>2. call' = [call EXCEPT ![Loop] = k]
      BY <1>4 DEF RefreshLoopWakes
    <2> HIDE DEF k
    <2> QED BY <1>2, <1>4, <2>1, <2>2, OnlyOneCallChanges DEF RefreshLoopWakes
  <1>5. CASE Restart
    <2>1. /\ call' \in [Caller -> CallState]
          /\ \A c \in Caller :
               call'[c].tok <= call'[c].age /\ ~Vouched(call'[c])
      BY <1>5, FirstCalls, Zenon DEF Restart, Starting
    <2>2. CallsAreYoung'
      BY <2>1 DEF CallsAreYoung, Vouched
    <2>3. reachable' \in BOOLEAN /\ healthy' \in BOOLEAN
      BY <1>5, Zenon DEF Restart, Starting
    <2>4. sinceValid' \in 0..Horizon /\ (Accepts' => sinceValid' = 0)
      BY <1>5, Durations DEF Restart, TrackValidity, IInv, TypeOK, Horizon
    <2>5. /\ age' = TTL /\ wait' = 0 /\ backoff' = MinWait /\ proc' = "starting"
          /\ slot' \in {slot, "current"} /\ prevLeft' \in {prevLeft, 0}
          /\ probe' = "top" /\ UNCHANGED <<status, fault>>
      BY <1>5, Zenon DEF Restart, Starting
    <2>6. TypeOK'
      BY <2>1, <2>3, <2>4, <2>5, Durations DEF IInv, TypeOK
    <2>7. TokenIsYoung'
      BY <2>4, <2>5, Durations DEF TokenIsYoung, Horizon
    <2> QED BY <2>2, <2>4, <2>6, <2>7 DEF IInv, AcceptedNow
  <1> QED BY <1>3, <1>4, <1>5

\* A call over which one unit of time passes.
LEMMA CallAges ==
  ASSUME IInv, Tick, NEW c \in Caller
  PROVE  /\ call'[c] \in CallState
         /\ call'[c].tok <= call'[c].age
         /\ Vouched(call'[c]) => Vouched(call[c]) /\ call'[c].age = call[c].age + 1
  <1>1. CASE ~InFlight(c)
    <2>1. call'[c] = call[c]
      BY <1>1 DEF Tick
    <2> QED BY <1>1, <2>1, Fields DEF InFlight, Vouched
  <1>2. CASE InFlight(c)
    <2>1. ~Overdue(c)
      BY DEF Tick
    <2>2. call[c].age < Timeout
      BY <1>2, <2>1 DEF Overdue, InFlight
    <2> DEFINE a == Least(call[c].age + 1, Timeout)
               t == IF call[c].pc = "answer" /\ call[c].res = "ok"
                      THEN Least(call[c].tok + 1, TTL) ELSE 0
    <2>3. a = call[c].age + 1 /\ a \in 0..Timeout
      BY <2>2, Fields, Durations DEF Least
    <2>4. t \in 0..TTL /\ t <= a
      BY <2>3, Fields, Durations DEF Least
    <2>5. call'[c] = [call[c] EXCEPT !.age = a, !.tok = t]
      BY <1>2, Zenon DEF Tick
    <2> HIDE DEF a, t
    <2> QED BY <2>3, <2>4, <2>5, Fields DEF CallState, Vouched
  <1> QED BY <1>1, <1>2

\* Time passes for the row, the calls and the token alike; a call in flight
\* has time left, so its age is not cut off.
LEMMA TickStep ==
  ASSUME IInv, Tick
  PROVE  IInv'
  <1>1. call' \in [Caller -> CallState]
    <2>1. call' = [c \in Caller |-> call'[c]]
      BY Zenon DEF Tick
    <2> QED BY <2>1, CallAges
  <1>2. /\ age' = Least(age + 1, TTL)
        /\ prevLeft' = IF prevLeft = 0 THEN 0 ELSE prevLeft - 1
        /\ wait' = IF wait = 0 THEN 0 ELSE wait - 1
        /\ sinceValid' = IF Accepts THEN 0 ELSE Least(sinceValid + 1, Horizon)
        /\ UNCHANGED <<status, slot, fault, proc, flags, backoff, probe>>
    BY Zenon DEF Tick
  <1>3. /\ age \in 0..TTL /\ prevLeft \in 0..Grace /\ wait \in 0..RefreshAge
        /\ sinceValid \in 0..Horizon
    BY DEF IInv, TypeOK
  <1>4. /\ age' \in 0..TTL /\ prevLeft' \in 0..Grace /\ wait' \in 0..RefreshAge
        /\ age' = age + 1 \/ age' = TTL
        /\ sinceValid' \in 0..Horizon /\ sinceValid' <= sinceValid + 1
    BY <1>2, <1>3, Durations DEF Least, Horizon
  <1>5. TypeOK'
    BY <1>1, <1>2, <1>4 DEF IInv, TypeOK, flags
  <1>6. AcceptedNow'
    BY <1>2, <1>3, <1>4, Durations DEF IInv, AcceptedNow, Accepts
  <1>7. CallsAreYoung'
    <2> SUFFICES ASSUME NEW c \in Caller
                 PROVE  /\ Vouched(call[c])' => sinceValid' <= call'[c].age
                        /\ call'[c].tok <= call'[c].age
      BY DEF CallsAreYoung
    <2>1. call[c].age \in Int /\ sinceValid \in Int /\ sinceValid' \in Int
      BY <1>3, <1>4, Fields, Durations DEF Horizon
    <2> QED BY <1>4, <2>1, CallAges, Fields DEF Vouched
  <1>8. TokenIsYoung'
    <2>1. sinceValid <= age + Timeout
      BY DEF IInv, TokenIsYoung
    <2>2. sinceValid' <= TTL + Timeout
      BY <1>4, Durations DEF Horizon
    <2>3. sinceValid \in Int /\ sinceValid' \in Int
      BY <1>3, <1>4, Durations DEF Horizon
    <2>4. sinceValid' <= age' + Timeout
      <3>1. CASE age' = TTL
        BY <3>1, <2>2
      <3>2. CASE age' = age + 1
        BY <1>3, <1>4, <2>1, <2>3, <3>2, Durations
      <3> QED BY <1>4, <3>1, <3>2
    <2> QED BY <2>4 DEF TokenIsYoung
  <1> QED BY <1>5, <1>6, <1>7, <1>8 DEF IInv

\* The invariant is preserved by every step.
LEMMA NextIInv == IInv /\ [Next]_vars => IInv'
  <1> SUFFICES ASSUME IInv, [Next]_vars PROVE IInv'
    OBVIOUS
  <1>1. CASE Next
    <2>1. CASE FaultChanges
      BY <2>1 DEF FaultChanges, IInv, TypeOK, AcceptedNow, CallsAreYoung,
                  TokenIsYoung, Vouched, Accepts, row, flags, loop
    <2>2. ASSUME NEW c \in Caller, Exchange(c) PROVE IInv'
      BY <2>2, AuthenticateStep, IssueStep, ReceiveStep, CallSteps DEF Exchange
    <2>3. ASSUME NEW c \in Caller, ExchangeTimesOut(c) \/ ClientLeaves(c) PROVE IInv'
      BY <2>3, CallSteps DEF ExchangeTimesOut, ClientLeaves
    <2> QED BY <1>1, <2>1, <2>2, <2>3, RowSteps, CallSteps, ProbeSteps, LoopSteps, TickStep
        DEF Next, Caller
  <1>2. CASE UNCHANGED vars
    BY <1>2 DEF vars, IInv, TypeOK, AcceptedNow, CallsAreYoung, TokenIsYoung,
                Vouched, Accepts, row, flags, loop
  <1> QED BY <1>1, <1>2

\* The invariant holds in every reachable state.
LEMMA Invariance == Spec => []IInv
  BY InitIInv, NextIInv, PTL DEF Spec

\* Every state has its type, for every assignment of durations.
THEOREM TypeCorrect == Spec => []TypeOK
  <1>1. IInv => TypeOK
    BY DEF IInv
  <1> QED BY <1>1, Invariance, PTL

\* TTL plus one exchange after the row last accepted the proxy's secret, the
\* proxy holds no valid token, whatever goroutines were exchanging it.
THEOREM RevocationIsEffective == Spec => []RevocationTakesEffect
  <1>1. IInv => RevocationTakesEffect
    BY Durations
    DEF IInv, TypeOK, TokenIsYoung, RevocationTakesEffect, TokenExpired, Horizon
  <1> QED BY <1>1, Invariance, PTL

\* Storing an answer that arrives after a later one costs at most the time
\* one exchange may take.
THEOREM LateAnswerIsCheap == Spec => LateAnswerCostsOneExchange
  <1> DEFINE Cheap == proc = "running" /\ proc' = "running" => age' <= age + Timeout
  <1>1. ASSUME IInv, [Next]_vars PROVE [Cheap]_vars
    <2> USE Durations
    <2>0. age \in 0..TTL
      BY <1>1 DEF IInv, TypeOK
    <2>1. ASSUME NEW c \in Caller, ReceiveAnswer(c) PROVE Cheap
      BY <1>1, <2>0, <2>1, Fields DEF ReceiveAnswer
    <2>2. CASE Tick
      <3>1. age' = Least(age + 1, TTL)
        BY <2>2 DEF Tick
      <3> QED BY <2>0, <3>1 DEF Least
    <2>3. CASE LoopContinues
      BY <2>0, <2>3 DEF LoopContinues, Exit
    <2>4. CASE Restart
      BY <2>4 DEF Restart, Starting
    <2>5. ASSUME NEW c \in Caller,
                 \/ AuthenticateBootstrapProxy(c) \/ IssueProxyRuntimeToken(c)
                 \/ SetControlPlaneReachable(c) \/ ExchangeTimesOut(c) \/ ClientLeaves(c)
                 \/ EnsureRuntimeToken(c) \/ RefreshReturns(c)
          PROVE Cheap
      <3>1. age' = age
        BY <2>5, Zenon
        DEF AuthenticateBootstrapProxy, IssueProxyRuntimeToken, ExchangeTimesOut,
            ClientLeaves, GiveUp, SetControlPlaneReachable, EnsureRuntimeToken,
            RefreshReturns
      <3> QED BY <2>0, <3>1
    <2>6. CASE \/ \E s \in Status : SetProxyStatus(s)
               \/ RotateProxySecret \/ RefreshLoopWakes \/ FaultChanges
               \/ ProbeLooks \/ SendRPC
      <3>1. age' = age
        BY <2>6, Zenon
        DEF SetProxyStatus, RotateProxySecret, RefreshLoopWakes, FaultChanges,
            ProbeLooks, SendRPC
      <3> QED BY <2>0, <3>1
    <2>7. CASE UNCHANGED vars
      BY <2>7
    <2> HIDE DEF Cheap
    <2> QED BY <1>1, <2>1, <2>2, <2>3, <2>4, <2>5, <2>6, <2>7
        DEF Next, Exchange, Caller
  <1> QED BY <1>1, Invariance, PTL DEF Spec, LateAnswerCostsOneExchange

-----------------------------------------------------------------------------
(***************************************************************************)
(* /healthz.  A flag is set within the instant of the answer it reports,   *)
(* so the token is fresh then; and while the flag stays set, the refresh   *)
(* loop wakes, and its exchange ends, before that token expires.           *)
(***************************************************************************)

\* The age at which the loop must be sending: its exchange may take Timeout.
Limit == TTL - Timeout - 1

\* A goroutine that has stored a token and not yet set both flags.
Storing(k) == k.pc \in {"flag1", "flag2"} /\ k.res = "ok"

FlagsAreFresh == \A c \in Caller : Storing(call[c]) => age <= Timeout

\* The loop sleeps until Limit at most, or has been sending since then.
LoopInTime(k) ==
    /\ k.pc = "idle" => age + wait <= Limit
    /\ k.pc \in {"sent", "authed", "answer"} => age <= Limit + k.age

HealthyInTime ==
    proc = "running" /\ healthy => LoopInTime(call[Loop]) /\ age < TTL

HealthInv == FlagsAreFresh /\ HealthyInTime

\* Limit leaves room for a late answer and a full wait.
LEMMA Limits ==
    /\ Limit \in Int /\ Limit + Timeout < TTL
    /\ RefreshAge + Timeout <= Limit /\ Timeout + MinWait <= Limit
    /\ Timeout <= Limit /\ Timeout < TTL
  BY RuntimeAuthAssumption, Durations DEF Limit

\* The token and the timer are numbers.
LEMMA Timers ==
  ASSUME IInv
  PROVE  /\ age \in Nat /\ age <= TTL /\ wait \in Nat /\ wait <= RefreshAge
         /\ Loop \in Caller
         /\ \A c \in Caller : call[c].age \in Nat /\ call[c].age <= Timeout
  <1>1. age \in 0..TTL /\ wait \in 0..RefreshAge
    BY DEF IInv, TypeOK
  <1>2. \A c \in Caller : call[c].age \in 0..Timeout
    BY Fields
  <1> QED BY <1>1, <1>2, Durations DEF Caller

\* A step that leaves the token, the process, the flag and the timer alone.
LEMMA CallKeepsHealth ==
  ASSUME IInv, HealthInv, NEW c \in Caller, NEW k,
         call' = [call EXCEPT ![c] = k], UNCHANGED <<proc, age, healthy, wait>>,
         Storing(k) => age <= Timeout,
         c = Loop /\ proc = "running" /\ healthy => LoopInTime(k)
  PROVE  HealthInv'
  <1>1. proc' = proc /\ age' = age /\ healthy' = healthy /\ wait' = wait
    OBVIOUS
  <1>2. \A d \in Caller : call'[d] = IF d = c THEN k ELSE call[d]
    BY DEF IInv, TypeOK
  <1>3. FlagsAreFresh'
    BY <1>1, <1>2 DEF HealthInv, FlagsAreFresh, Storing
  <1>4. HealthyInTime'
    BY <1>1, <1>2, Timers DEF HealthInv, HealthyInTime, LoopInTime
  <1> QED BY <1>3, <1>4 DEF HealthInv

\* An answer that brings no token.
LEMMA AnswerKeepsHealth ==
  ASSUME IInv, HealthInv, NEW c \in Caller, NEW r \in {"transient", "permanent"}, Answer(c, r),
         call[c].pc \in {"sent", "authed"}, UNCHANGED <<proc, age, healthy, wait>>
  PROVE  HealthInv'
  <1> DEFINE k == [call[c] EXCEPT !.pc = "answer", !.res = r]
  <1>1. call' = [call EXCEPT ![c] = k]
    BY Zenon DEF Answer, IInv, TypeOK
  <1>2. k.pc = "answer" /\ k.age = call[c].age
    BY Fields DEF CallState
  <1> HIDE DEF k
  <1>3. Storing(k) => age <= Timeout
    BY <1>2 DEF Storing
  <1>4. c = Loop /\ proc = "running" /\ healthy => LoopInTime(k)
    BY <1>2 DEF HealthInv, HealthyInTime, LoopInTime
  <1> QED BY <1>1, <1>3, <1>4, CallKeepsHealth

\* The steps of the control plane.
LEMMA ServerKeepsHealth ==
  ASSUME IInv, HealthInv, NEW c \in Caller,
         AuthenticateBootstrapProxy(c) \/ IssueProxyRuntimeToken(c)
  PROVE  HealthInv'
  <1>0. UNCHANGED <<proc, age, healthy, wait>> /\ call[c].pc \in {"sent", "authed"}
    BY DEF AuthenticateBootstrapProxy, IssueProxyRuntimeToken, flags, loop
  <1>1. ASSUME NEW k, call' = [call EXCEPT ![c] = k], k.pc \in {"authed", "answer"},
               k.age = call[c].age
        PROVE  HealthInv'
    <2>1. Storing(k) => age <= Timeout
      BY <1>1 DEF Storing
    <2>2. c = Loop /\ proc = "running" /\ healthy => LoopInTime(k)
      BY <1>0, <1>1 DEF HealthInv, HealthyInTime, LoopInTime
    <2> QED BY <1>0, <1>1, <2>1, <2>2, CallKeepsHealth
  <1>2. CASE call' = [call EXCEPT ![c].pc = "authed"]
    <2> DEFINE k == [call[c] EXCEPT !.pc = "authed"]
    <2>1. call' = [call EXCEPT ![c] = k]
      BY <1>2, Zenon DEF IInv, TypeOK
    <2>2. k.pc = "authed" /\ k.age = call[c].age
      BY Fields DEF CallState
    <2> HIDE DEF k
    <2> QED BY <1>1, <2>1, <2>2
  <1>3. CASE call' = [call EXCEPT ![c].pc = "answer", ![c].res = "ok", ![c].tok = 0]
    <2> DEFINE j == [call[c] EXCEPT !.pc = "answer", !.res = "ok"]
               k == [j EXCEPT !.tok = 0]
    <2>1. call' = [call EXCEPT ![c] = k]
      BY <1>3, Zenon DEF IInv, TypeOK
    <2>2. j \in CallState /\ j.age = call[c].age /\ j.pc = "answer"
      BY Fields DEF CallState
    <2> HIDE DEF j
    <2>3. k.pc = "answer" /\ k.age = j.age
      BY <2>2 DEF CallState
    <2> HIDE DEF k
    <2> QED BY <1>1, <2>1, <2>2, <2>3
  <1>4. ASSUME NEW r \in {"transient", "permanent"}, Answer(c, r) PROVE HealthInv'
    BY <1>0, <1>4, AnswerKeepsHealth
  <1> QED BY <1>2, <1>3, <1>4 DEF AuthenticateBootstrapProxy, IssueProxyRuntimeToken

\* The fields of a call that is over.
LEMMA OutcomeFields ==
  ASSUME NEW k, NEW res
  PROVE  Outcome(k, res).pc = "flag1" /\ Outcome(k, res).res = res
  BY DEF Outcome

\* A token that is stored is at most one exchange old; one that is not stored
\* leaves the loop within its limit.
LEMMA ReceiveKeepsHealth ==
  ASSUME IInv, HealthInv, NEW c \in Caller, ReceiveAnswer(c) \/ GiveUp(c)
  PROVE  HealthInv'
  <1>1. CASE age' = age /\ call' = [call EXCEPT ![c] = Outcome(@, "transport")]
    <2> DEFINE k == Outcome(call[c], "transport")
    <2>1. call' = [call EXCEPT ![c] = k]
      BY <1>1
    <2>2. k.pc = "flag1" /\ k.res = "transport"
      BY OutcomeFields
    <2> HIDE DEF k
    <2>3. (Storing(k) => age <= Timeout) /\ LoopInTime(k)
      BY <2>2 DEF Storing, LoopInTime
    <2>4. UNCHANGED <<proc, age, healthy, wait>>
      BY <1>1 DEF ReceiveAnswer, GiveUp, flags, loop
    <2> QED BY <2>1, <2>3, <2>4, CallKeepsHealth
  <1>2. CASE ReceiveAnswer(c)
    <2> DEFINE k == Outcome(call[c], call[c].res)
    <2>1. call' = [call EXCEPT ![c] = k]
      BY <1>2 DEF ReceiveAnswer
    <2>2. k.pc = "flag1" /\ k.res = call[c].res
      BY OutcomeFields
    <2> HIDE DEF k
    <2>3. proc' = proc /\ healthy' = healthy /\ wait' = wait
      BY <1>2 DEF ReceiveAnswer, flags, loop
    <2>4. CASE call[c].res # "ok"
      <3>1. UNCHANGED <<proc, age, healthy, wait>>
        BY <1>2, <2>3, <2>4 DEF ReceiveAnswer
      <3>2. (Storing(k) => age <= Timeout) /\ LoopInTime(k)
        BY <2>2, <2>4 DEF Storing, LoopInTime
      <3> QED BY <2>1, <3>1, <3>2, CallKeepsHealth
    <2>5. CASE call[c].res = "ok"
      <3>1. age' \in Nat /\ age' <= Timeout
        <4>1. age' = call[c].tok
          BY <1>2, <2>5 DEF ReceiveAnswer
        <4>2. call[c].tok \in 0..TTL /\ call[c].tok <= call[c].age /\ call[c].age \in 0..Timeout
          BY Fields
        <4> QED BY <4>1, <4>2, Durations
      <3>2. FlagsAreFresh'
        BY <3>1 DEF FlagsAreFresh
      <3>3. \A d \in Caller : call'[d] = IF d = c THEN k ELSE call[d]
        BY <2>1 DEF IInv, TypeOK
      <3>4. call'[Loop].pc # "flag1" => call'[Loop] = call[Loop]
        BY <2>2, <3>3, Timers
      <3>5. HealthyInTime'
        <4>1. age' + wait <= Limit /\ age' < TTL
          BY <3>1, Timers, Limits, Durations
        <4>2. call'[Loop] = call[Loop] => age' <= Limit + call'[Loop].age
          BY <3>1, Timers, Limits, Durations
        <4> QED BY <2>3, <3>4, <4>1, <4>2 DEF HealthyInTime, LoopInTime
      <3> QED BY <3>2, <3>5 DEF HealthInv
    <2> QED BY <2>4, <2>5
  <1> QED BY <1>1, <1>2 DEF GiveUp

\* The steps of a request that do not set the health flag.
LEMMA RequestKeepsHealth ==
  ASSUME IInv, HealthInv
  PROVE  /\ \A c \in Caller : SetControlPlaneReachable(c) => HealthInv'
         /\ \A c \in Request : EnsureRuntimeToken(c) => HealthInv'
         /\ SendRPC => HealthInv'
  <1>1. ASSUME NEW c \in Caller, SetControlPlaneReachable(c) PROVE HealthInv'
    <2> DEFINE k == [call[c] EXCEPT !.pc = "flag2"]
    <2>1. k.pc = "flag2" /\ k.res = call[c].res /\ call[c].pc = "flag1"
      BY <1>1, Fields DEF CallState, SetControlPlaneReachable
    <2>2. call' = [call EXCEPT ![c] = k]
      BY <1>1, Zenon DEF SetControlPlaneReachable, IInv, TypeOK
    <2>3. UNCHANGED <<proc, age, healthy, wait>>
      BY <1>1 DEF SetControlPlaneReachable, loop
    <2> HIDE DEF k
    <2>4. (Storing(k) => age <= Timeout) /\ LoopInTime(k)
      BY <2>1 DEF Storing, LoopInTime, HealthInv, FlagsAreFresh
    <2> QED BY <2>2, <2>3, <2>4, CallKeepsHealth
  <1>2. ASSUME NEW c \in Request, NEW k, call' = [call EXCEPT ![c] = k],
               k.pc \in {"idle", "sent", "rpc"}, UNCHANGED <<proc, age, healthy, wait>>
        PROVE  HealthInv'
    <2>1. c # Loop /\ c \in Caller
      BY RuntimeAuthAssumption DEF Caller
    <2>2. Storing(k) => age <= Timeout
      BY <1>2 DEF Storing
    <2> QED BY <1>2, <2>1, <2>2, CallKeepsHealth
  <1>3. ASSUME NEW c \in Request, EnsureRuntimeToken(c) PROVE HealthInv'
    <2> DEFINE pc == IF age >= RefreshAge THEN "sent" ELSE "rpc"
               k  == Begin(pc, c = Probe /\ TokenExpired)
    <2>1. call' = [call EXCEPT ![c] = k]
      BY <1>3 DEF EnsureRuntimeToken
    <2>2. k.pc \in {"idle", "sent", "rpc"}
      BY DEF Begin
    <2> HIDE DEF k
    <2>3. UNCHANGED <<proc, age, healthy, wait>>
      BY <1>3 DEF EnsureRuntimeToken, flags, loop
    <2> QED BY <1>2, <2>1, <2>2, <2>3
  <1>4. ASSUME SendRPC PROVE HealthInv'
    <2>1. call' = [call EXCEPT ![Probe] = Idle] /\ UNCHANGED <<proc, age, healthy, wait>>
      BY <1>4 DEF SendRPC, loop
    <2>2. Idle.pc = "idle"
      BY DEF Idle, Begin
    <2> QED BY <1>2, <2>1, <2>2, RuntimeAuthAssumption
  <1> QED BY <1>1, <1>3, <1>4

\* A request sets the flag while the token is fresh, and the loop's wait, however
\* long it is, ends before such a token expires.
LEMMA RefreshKeepsHealth ==
  ASSUME IInv, HealthInv, NEW c \in Request, RefreshReturns(c)
  PROVE  HealthInv'
  <1>1. c # Loop /\ c \in Caller
    BY RuntimeAuthAssumption DEF Caller
  <1>2. /\ call[c].pc = "flag2" /\ age' = age /\ proc' = proc /\ wait' = wait
        /\ healthy' <=> call[c].res = "ok"
    BY Zenon DEF RefreshReturns, AuthRefreshHealthy, loop
  <1> DEFINE fails == call[c].res = "permanent" \/ (call[c].must /\ call[c].res # "ok")
             k == IF fails \/ c # Probe THEN Idle ELSE Begin("rpc", FALSE)
  <1>3. call' = [call EXCEPT ![c] = k]
    BY Zenon DEF RefreshReturns
  <1>4. k.pc \in {"idle", "rpc"}
    BY DEF Idle, Begin
  <1> HIDE DEF k
  <1>5. \A d \in Caller : call'[d] = IF d = c THEN k ELSE call[d]
    BY <1>3 DEF IInv, TypeOK
  <1>6. FlagsAreFresh'
    BY <1>2, <1>4, <1>5 DEF HealthInv, FlagsAreFresh, Storing
  <1>7. HealthyInTime'
    <2> SUFFICES ASSUME call[c].res = "ok"
                 PROVE  LoopInTime(call[Loop])' /\ age' < TTL
      BY <1>2 DEF HealthyInTime
    <2>1. age <= Timeout
      BY <1>1, <1>2 DEF HealthInv, FlagsAreFresh, Storing
    <2>2. age + wait <= Limit /\ age <= Limit + call[Loop].age /\ age < TTL
      BY <2>1, Timers, Limits, Durations
    <2>3. call'[Loop] = call[Loop]
      BY <1>1, <1>5, Timers
    <2> QED BY <1>2, <2>2, <2>3 DEF LoopInTime
  <1> QED BY <1>6, <1>7 DEF HealthInv

\* The loop waits for the age at which the token it has just stored is due.
LEMMA LoopKeepsHealth ==
  ASSUME IInv, HealthInv, LoopContinues
  PROVE  HealthInv'
  <1>1. CASE Exit
    <2>1. proc' = "down" /\ \A c \in Caller : call'[c].pc = "idle"
      BY <1>1 DEF Exit, Idle, Begin
    <2> QED BY <2>1 DEF HealthInv, FlagsAreFresh, HealthyInTime, Storing
  <1> DEFINE res == call[Loop].res
             b   == IF res = "ok" \/ proc = "starting" THEN MinWait
                    ELSE IF TokenExpired THEN Least(2 * backoff, MaxBackoff)
                    ELSE backoff
  <1>2. CASE /\ proc' = "running"
             /\ healthy' = AuthRefreshHealthy(res)
             /\ wait' = NextWait(b)
             /\ call' = [call EXCEPT ![Loop] = Idle]
             /\ age' = age
    <2>1. \A d \in Caller : call'[d] = IF d = Loop THEN Idle ELSE call[d]
      BY <1>2 DEF IInv, TypeOK
    <2>2. Idle.pc = "idle"
      BY DEF Idle, Begin
    <2>3. FlagsAreFresh'
      BY <1>2, <2>1, <2>2 DEF HealthInv, FlagsAreFresh, Storing
    <2>4. HealthyInTime'
      <3>1. healthy' <=> res = "ok"
        BY <1>2, Zenon DEF AuthRefreshHealthy
      <3> SUFFICES ASSUME res = "ok" PROVE LoopInTime(call[Loop])' /\ age' < TTL
        BY <3>1 DEF HealthyInTime
      <3>2. age <= Timeout
        BY Timers DEF LoopContinues, HealthInv, FlagsAreFresh, Storing
      <3>3. wait' = Most(MinWait, RefreshAge - age)
        BY <1>2, <3>2, Timers, Limits, Durations DEF NextWait, TokenExpired
      <3>4. age + wait' <= Limit /\ age < TTL
        BY <3>2, <3>3, Timers, Limits, Durations DEF Most
      <3>5. call'[Loop].pc = "idle"
        BY <2>1, <2>2, Timers
      <3> QED BY <1>2, <3>4, <3>5 DEF LoopInTime
    <2> QED BY <2>3, <2>4 DEF HealthInv
  <1> QED BY <1>1, <1>2 DEF LoopContinues

\* The loop wakes within its limit.
LEMMA WakeKeepsHealth ==
  ASSUME IInv, HealthInv, RefreshLoopWakes
  PROVE  HealthInv'
  <1> DEFINE k == Begin("sent", FALSE)
  <1>1. k.pc = "sent" /\ k.age = 0
    BY DEF Begin
  <1>2. call' = [call EXCEPT ![Loop] = k] /\ UNCHANGED <<proc, age, healthy, wait>>
    BY DEF RefreshLoopWakes, flags, loop
  <1> HIDE DEF k
  <1>3. Storing(k) => age <= Timeout
    BY <1>1 DEF Storing
  <1>4. proc = "running" /\ healthy => LoopInTime(k)
    <2> SUFFICES ASSUME proc = "running", healthy PROVE LoopInTime(k)
      OBVIOUS
    <2>1. age + wait <= Limit /\ wait = 0
      BY DEF HealthInv, HealthyInTime, LoopInTime, RefreshLoopWakes
    <2>2. age <= Limit + 0
      BY <2>1, Timers, Limits
    <2> QED BY <1>1, <2>2 DEF LoopInTime
  <1> QED BY <1>2, <1>3, <1>4, Timers, CallKeepsHealth

\* Time passes: the wait shrinks as the token ages, and a call has time left.
LEMMA TickKeepsHealth ==
  ASSUME IInv, HealthInv, Tick
  PROVE  HealthInv'
  <1>1. \A c \in Caller : ~Overdue(c)
    BY DEF Tick
  <1>2. \A c \in Caller : ~Storing(call[c])
    BY <1>1 DEF Overdue, InFlight, Storing
  <1>3. ASSUME NEW c \in Caller
        PROVE  /\ call'[c].pc = call[c].pc /\ call'[c].res = call[c].res
               /\ InFlight(c) => call'[c].age = call[c].age + 1 /\ call[c].age < Timeout
    <2>1. CASE ~InFlight(c)
      <3>1. call'[c] = call[c]
        BY <2>1 DEF Tick
      <3> QED BY <2>1, <3>1
    <2>2. CASE InFlight(c)
      <3>1. call[c].age < Timeout
        BY <1>1, <2>2 DEF Overdue, InFlight
      <3> DEFINE a == Least(call[c].age + 1, Timeout)
                 t == IF call[c].pc = "answer" /\ call[c].res = "ok"
                        THEN Least(call[c].tok + 1, TTL) ELSE 0
      <3>2. a = call[c].age + 1
        BY <3>1, Fields, Durations DEF Least
      <3>3. call'[c] = [call[c] EXCEPT !.age = a, !.tok = t]
        BY <2>2, Zenon DEF Tick
      <3> HIDE DEF a, t
      <3> QED BY <3>1, <3>2, <3>3, Fields DEF CallState
    <2> QED BY <2>1, <2>2
  <1>4. FlagsAreFresh'
    BY <1>2, <1>3 DEF FlagsAreFresh, Storing
  <1>5. HealthyInTime'
    <2>1. proc' = proc /\ healthy' = healthy /\ age' = Least(age + 1, TTL)
      BY Zenon DEF Tick, flags
    <2>2. wait' = IF wait = 0 THEN 0 ELSE wait - 1
      BY Zenon DEF Tick
    <2> SUFFICES ASSUME proc = "running", healthy PROVE LoopInTime(call[Loop])' /\ age' < TTL
      BY <2>1 DEF HealthyInTime
    <2>3. LoopInTime(call[Loop]) /\ age < TTL
      BY DEF HealthInv, HealthyInTime
    <2>4. age' = age + 1
      BY <2>1, <2>3, Timers, Durations DEF Least
    <2>5. call'[Loop].pc = call[Loop].pc
      BY <1>3, Timers
    <2>6. CASE call[Loop].pc = "idle"
      <3>0. wait > 0
        BY <2>6, Zenon DEF Tick
      <3>1. wait > 0 /\ wait' = wait - 1
        BY <2>2, <3>0, Timers
      <3>2. age + wait <= Limit
        BY <2>3, <2>6 DEF LoopInTime
      <3>3. age' + wait' <= Limit /\ age' < TTL
        BY <2>4, <3>1, <3>2, Timers, Limits, Durations
      <3> QED BY <2>5, <2>6, <3>3 DEF LoopInTime
    <2>7. CASE call[Loop].pc # "idle"
      <3>1. InFlight(Loop)
        BY <1>1, <2>7, Timers DEF Overdue
      <3>2. call'[Loop].age = call[Loop].age + 1 /\ call[Loop].age < Timeout
        BY <1>3, <3>1, Timers
      <3>3. age <= Limit + call[Loop].age
        BY <2>3, <3>1 DEF LoopInTime, InFlight
      <3>4. age' <= Limit + call'[Loop].age /\ age' < TTL
        BY <2>4, <3>2, <3>3, Timers, Limits, Durations
      <3> QED BY <2>5, <2>7, <3>4 DEF LoopInTime
    <2> QED BY <2>6, <2>7
  <1> QED BY <1>4, <1>5 DEF HealthInv

\* A process that starts sets no flag before its first exchange.
LEMMA StartHealth ==
  /\ Init => HealthInv
  /\ Restart => HealthInv'
  <1>1. Begin("sent", FALSE).pc = "sent" /\ Idle.pc = "idle"
    BY DEF Begin, Idle
  <1>2. ASSUME Init PROVE HealthInv
    <2>1. proc = "starting" /\ \A c \in Caller : call[c].pc \in {"sent", "idle"}
      BY <1>1, <1>2 DEF Init
    <2> QED BY <2>1 DEF HealthInv, FlagsAreFresh, HealthyInTime, Storing
  <1>3. ASSUME Restart PROVE HealthInv'
    <2>1. proc' = "starting" /\ \A c \in Caller : call'[c].pc \in {"sent", "idle"}
      BY <1>1, <1>3 DEF Restart, Starting
    <2> QED BY <2>1 DEF HealthInv, FlagsAreFresh, HealthyInTime, Storing
  <1> QED BY <1>2, <1>3

\* Every step keeps the loop in time.
LEMMA NextHealth == IInv /\ HealthInv /\ [Next]_vars => HealthInv'
  <1> SUFFICES ASSUME IInv, HealthInv, [Next]_vars PROVE HealthInv'
    OBVIOUS
  <1>1. ASSUME UNCHANGED <<proc, age, healthy, wait, call>> PROVE HealthInv'
    BY <1>1 DEF HealthInv, FlagsAreFresh, HealthyInTime, LoopInTime, Storing
  <1>2. CASE \/ \E s \in Status : SetProxyStatus(s)
             \/ RotateProxySecret \/ FaultChanges \/ ProbeLooks \/ UNCHANGED vars
    BY <1>1, <1>2, Zenon
    DEF SetProxyStatus, RotateProxySecret, FaultChanges, ProbeLooks, vars, flags, loop
  <1>3. ASSUME NEW c \in Caller, Exchange(c) \/ GiveUp(c) PROVE HealthInv'
    BY <1>3, ServerKeepsHealth, ReceiveKeepsHealth, RequestKeepsHealth DEF Exchange
  <1>4. ASSUME NEW c \in Request, EnsureRuntimeToken(c) \/ RefreshReturns(c) PROVE HealthInv'
    BY <1>4, RequestKeepsHealth, RefreshKeepsHealth
  <1>5. CASE SendRPC \/ LoopContinues \/ RefreshLoopWakes \/ Restart \/ Tick
    BY <1>5, RequestKeepsHealth, LoopKeepsHealth, WakeKeepsHealth, StartHealth, TickKeepsHealth
  <1> QED BY <1>2, <1>3, <1>4, <1>5 DEF Next, Caller, ExchangeTimesOut, ClientLeaves

\* /healthz answers 200 only while the proxy holds a token the control plane
\* accepts, however the goroutines' writes of the two flags interleave: for all
\* durations that leave the loop two exchanges and minWait before expiry.
THEOREM HealthzIsTruthful == Spec => []HealthzTruthful
  <1>1. IInv /\ HealthInv => HealthzTruthful
    BY Timers, Durations
    DEF HealthInv, HealthyInTime, HealthzTruthful, HealthzOk, TokenExpired
  <1> QED BY <1>1, InitIInv, NextIInv, StartHealth, NextHealth, PTL DEF Spec
=============================================================================
