--------------------------- MODULE ProxyPipeline ---------------------------
(***************************************************************************)
(* The request pipeline of the proxy: handlePolicyRequest and              *)
(* servePolicyResult (services/proxy/internal/handler/pipeline.go) with    *)
(* the decision cache they share (internal/cache, internal/proxycache).    *)
(*                                                                         *)
(* Each handler goroutine serves one request after the other.  It looks    *)
(* the token up in the cache, then the token and the target, and asks the  *)
(* control plane on a miss; the answer is stamped, cached and served, and  *)
(* the decision is appended to the write-ahead log, before the response or *)
(* after it.  The steps of a handler are the ones between which another    *)
(* handler, the sweeper, the control plane, the clock or a crash can act.  *)
(*                                                                         *)
(* Of the control plane (services/api/src/connect/check-service.ts) the    *)
(* module has what Check reads, one query after the other: which tokens    *)
(* are valid, which ecosystems the tenant is entitled to and what the      *)
(* policies say of each artifact.  All of them change at any time.         *)
(***************************************************************************)
EXTENDS Integers, FiniteSets

CONSTANTS
    Handler,        \* goroutines that serve requests
    Token,          \* project tokens
    Artifact,       \* package versions: targets that are downloaded
    Index,          \* package metadata pages: targets with an empty version
    NoTarget,       \* the empty target of the key that blocks a whole token
    Absent,         \* no entry in the cache
    AllowTTL,       \* tenant_entitlements.cache_ttl_seconds
    TokenBlockTTL,  \* config.CacheTTLSeconds
    CheckTimeout,   \* the http.Client timeout of a Check
    MaxEntries,     \* proxycache.DefaultMaxEntries
    MaxTime         \* bound on the clock

Target == Artifact \cup Index
Key == Token \X (Target \cup {NoTarget})

Verdict == {"allow", "block"}                           \* what the policies can say
Decision == Verdict \cup {"invalid", "notPermitted"}    \* what a Check can answer
Entry == [decision : Decision, ttl : Nat, at : Nat, set : Nat]

ASSUME PipelineAssumption ==
    /\ Artifact \cap Index = {} /\ NoTarget \notin Target
    /\ Absent \notin Entry
    /\ AllowTTL \in Nat /\ TokenBlockTTL \in Nat \ {0} /\ CheckTimeout \in Nat
    /\ MaxEntries \in Nat \ {0} /\ MaxTime \in Nat
    /\ Token # {} /\ Target # {} /\ IsFiniteSet(Token) /\ IsFiniteSet(Target)

VARIABLES
    now,            \* the clock
    valid,          \* tokens the control plane accepts
    entitled,       \* targets of an ecosystem the tenant's plan permits
    policy,         \* what the tenant's policies say of each artifact
    validUntil,     \* history: when each revoked token was revoked
    entitledUntil,  \* history: when each target was last entitled
    permittedUntil, \* history: when each artifact was last allowed (-1: never)
    cache,          \* DecisionCache
    pc,             \* where each handler is
    req,            \* the token and the target of its request
    since,          \* when its Check began
    answer,         \* what the control plane answers to the Check
    pick,           \* the decision the handler acts on, its stamp until it is
                    \* cached, and whether it came from the cache
    reply,          \* what the client got
    event,          \* what the handler appended to the write-ahead log
    barred,         \* history: tokens with a block entry that this process has
                    \* written and not evicted
    floor,          \* history: when the block entry of a token last evicted was set
    warned          \* history: was the token barred when the request looked it up?

cpVars      == <<valid, entitled, policy, validUntil, entitledUntil, permittedUntil>>
cacheVars   == <<cache, barred, floor>>
requestVars == <<pc, req, since, answer, pick, reply, event, warned>>
vars == <<now, cpVars, cacheVars, requestVars>>

-----------------------------------------------------------------------------
(***************************************************************************)
(* The cache.                                                              *)
(***************************************************************************)
BlockKey(t) == <<t, NoTarget>>
TokenBlockKey(r) == BlockKey(req[r].token)
RequestKey(r) == <<req[r].token, req[r].target>>

\* isExpiredEntry, negated.
Fresh(e) == now - e.at <= e.ttl

\* Get: a fresh entry is present.
Hit(k) == cache[k] # Absent /\ Fresh(cache[k])

Present(c) == {k \in Key : c[k] # Absent}

\* The store c cut down to the keys K.
Keep(c, K) == [k \in Key |-> IF k \in K THEN c[k] ELSE Absent]

\* Mutant of EnforceMaxEntries: entries go in the order of the map, whatever their age.
EnforceAnyOrder(c, K) ==
    LET P == Present(c)
        F == {k \in P : Fresh(c[k])}
    IN  IF Cardinality(P) <= MaxEntries
        THEN K = P
        ELSE K \subseteq F /\ Cardinality(K) = IF Cardinality(F) <= MaxEntries
                                             THEN Cardinality(F) ELSE MaxEntries

\* EnforceMaxEntries may leave the keys K of the store c: all of them when they
\* are not too many; else the expired ones go, and then the oldest until the
\* rest fits.
EnforceMaxEntries(c, K) ==
    LET P == Present(c)
        F == {k \in P : Fresh(c[k])}
        room == IF Cardinality(F) <= MaxEntries THEN Cardinality(F) ELSE MaxEntries
    IN  IF Cardinality(P) <= MaxEntries
        THEN K = P
        ELSE /\ K \subseteq F /\ Cardinality(K) = room
             /\ \A j \in F \ K, k \in K : c[j].set <= c[k].set

\* Set; the clock is read and the lock taken in one step.  The history keeps
\* which block entries the step writes and which it evicts before their time.
Set(k, e) ==
    LET c == [cache EXCEPT ![k] = e]
        evicted == {t \in Token : /\ c[BlockKey(t)] # Absent /\ Fresh(c[BlockKey(t)])
                                  /\ cache'[BlockKey(t)] = Absent}
    IN  /\ \E K \in SUBSET Key : EnforceMaxEntries(c, K) /\ cache' = Keep(c, K)
        /\ barred' = (barred \cup {t \in Token : k = BlockKey(t)}) \ evicted
        /\ floor' = [t \in Token |-> IF t \in evicted THEN c[BlockKey(t)].set ELSE floor[t]]

\* sweepExpired, on its ticker.
Sweep ==
    /\ \E k \in Key : cache[k] # Absent /\ ~Fresh(cache[k])
    /\ cache' = Keep(cache, {k \in Key : Hit(k)})
    /\ UNCHANGED <<now, cpVars, barred, floor, requestVars>>

-----------------------------------------------------------------------------
(***************************************************************************)
(* The control plane and the clock.                                        *)
(***************************************************************************)

ChangePolicy(a) ==
    /\ \E d \in Verdict \ {policy[a]} : policy' = [policy EXCEPT ![a] = d]
    /\ permittedUntil' =
          IF policy[a] = "allow" THEN [permittedUntil EXCEPT ![a] = now] ELSE permittedUntil
    /\ UNCHANGED <<now, valid, entitled, validUntil, entitledUntil, cacheVars, requestVars>>

\* The tenant's plan loses an ecosystem, or gains it.
ChangeEntitlement(g) ==
    /\ \/ /\ g \in entitled
          /\ entitled' = entitled \ {g}
          /\ entitledUntil' = [entitledUntil EXCEPT ![g] = now]
       \/ /\ g \notin entitled
          /\ entitled' = entitled \cup {g}
          /\ UNCHANGED entitledUntil
    /\ UNCHANGED <<now, valid, policy, validUntil, permittedUntil, cacheVars, requestVars>>

\* A token is revoked or expires; neither is ever undone.
RevokeToken(t) ==
    /\ t \in valid
    /\ valid' = valid \ {t}
    /\ validUntil' = [validUntil EXCEPT ![t] = now]
    /\ UNCHANGED <<now, entitled, policy, entitledUntil, permittedUntil, cacheVars,
                   requestVars>>

InCheck == {"check", "context", "policy", "answered"}

\* The HTTP client gives a Check up after CheckTimeout.
Tick ==
    /\ now < MaxTime
    /\ \A r \in Handler : pc[r] \in InCheck => now - since[r] < CheckTimeout
    /\ now' = now + 1
    /\ UNCHANGED <<cpVars, cacheVars, requestVars>>

-----------------------------------------------------------------------------
(***************************************************************************)
(* A request.                                                              *)
(***************************************************************************)
NoPick  == [decision |-> "none", at |-> 0, cached |-> FALSE]
NoEvent == [decision |-> "none", type |-> "none"]

\* ServeHTTP hands a request with a token and a target to the pipeline.
Arrive(r, t, g) ==
    /\ pc[r] = "idle"
    /\ req' = [req EXCEPT ![r] = [token |-> t, target |-> g]]
    /\ pc' = [pc EXCEPT ![r] = "tokenLookup"]
    /\ pick' = [pick EXCEPT ![r] = NoPick]
    /\ reply' = [reply EXCEPT ![r] = "none"]
    /\ event' = [event EXCEPT ![r] = NoEvent]
    /\ warned' = [warned EXCEPT ![r] = FALSE]
    /\ UNCHANGED <<now, cpVars, cacheVars, since, answer>>

\* The handler is done: the client got its response.
Finish(r, response) ==
    /\ reply' = [reply EXCEPT ![r] = response]
    /\ pc' = [pc EXCEPT ![r] = "idle"]

\* serveCachedInvalidTokenBlock answers 403 and appends nothing.
TokenLookup(r) ==
    /\ pc[r] = "tokenLookup"
    /\ IF Hit(TokenBlockKey(r)) THEN Finish(r, "tokenForbidden")
                                ELSE pc' = [pc EXCEPT ![r] = "lookup"] /\ UNCHANGED reply
    /\ warned' = [warned EXCEPT ![r] = req[r].token \in barred]
    /\ UNCHANGED <<now, cpVars, cacheVars, req, since, answer, pick, event>>

Lookup(r) ==
    /\ pc[r] = "lookup"
    /\ LET k == RequestKey(r)
       IN  IF Hit(k)
           THEN /\ pick' = [pick EXCEPT ![r] = [decision |-> cache[k].decision,
                                                at |-> 0, cached |-> TRUE]]
                /\ pc' = [pc EXCEPT ![r] = "audit"]
                /\ UNCHANGED since
           ELSE /\ since' = [since EXCEPT ![r] = now]
                /\ pc' = [pc EXCEPT ![r] = "check"]
                /\ UNCHANGED pick
    /\ UNCHANGED <<now, cpVars, cacheVars, req, answer, reply, event, warned>>

\* handleCheck reads the token (loadCheckContext) ...
CheckToken(r) ==
    /\ pc[r] = "check"
    /\ IF req[r].token \in valid
       THEN pc' = [pc EXCEPT ![r] = "context"] /\ UNCHANGED answer
       ELSE /\ answer' = [answer EXCEPT ![r] = "invalid"]
            /\ pc' = [pc EXCEPT ![r] = "answered"]
    /\ UNCHANGED <<now, cpVars, cacheVars, req, since, pick, reply, event, warned>>

\* ... then the entitlements: without the ecosystem the answer is a block, and
\* an index has no version to evaluate ...
CheckEntitlement(r) ==
    /\ pc[r] = "context"
    /\ IF req[r].target \in entitled /\ req[r].target \in Artifact
       THEN pc' = [pc EXCEPT ![r] = "policy"] /\ UNCHANGED answer
       ELSE /\ answer' = [answer EXCEPT ![r] =
                            IF req[r].target \in entitled THEN "allow" ELSE "notPermitted"]
            /\ pc' = [pc EXCEPT ![r] = "answered"]
    /\ UNCHANGED <<now, cpVars, cacheVars, req, since, pick, reply, event, warned>>

\* ... and last the policies.
CheckPolicy(r) ==
    /\ pc[r] = "policy"
    /\ answer' = [answer EXCEPT ![r] = policy[req[r].target]]
    /\ pc' = [pc EXCEPT ![r] = "answered"]
    /\ UNCHANGED <<now, cpVars, cacheVars, req, since, pick, reply, event, warned>>

\* The answer arrives and becomes an entry stamped with the time.
CheckReturns(r) ==
    /\ pc[r] = "answered"
    /\ pick' = [pick EXCEPT ![r] = [decision |-> answer[r], at |-> now, cached |-> FALSE]]
    /\ pc' = [pc EXCEPT ![r] = IF answer[r] = "invalid" THEN "setToken" ELSE "set"]
    /\ since' = [since EXCEPT ![r] = 0]
    /\ answer' = [answer EXCEPT ![r] = "none"]
    /\ UNCHANGED <<now, cpVars, cacheVars, req, reply, event, warned>>

\* Mutant of CheckFails: the HTTP client has no timeout.
CheckFailsAnswered(r) ==
    /\ pc[r] = "answered"
    /\ pc' = [pc EXCEPT ![r] = "unavailable"]
    /\ since' = [since EXCEPT ![r] = 0]
    /\ answer' = [answer EXCEPT ![r] = "none"]
    /\ UNCHANGED <<now, cpVars, cacheVars, req, pick, reply, event, warned>>

\* An error, a timeout, a lost answer or a client that went away.
CheckFails(r) ==
    /\ pc[r] \in InCheck
    /\ pc' = [pc EXCEPT ![r] = "unavailable"]
    /\ since' = [since EXCEPT ![r] = 0]
    /\ answer' = [answer EXCEPT ![r] = "none"]
    /\ UNCHANGED <<now, cpVars, cacheVars, req, pick, reply, event, warned>>

\* Mutant of TTL: -1 stands for "do not cache".
TTLMinusOne(d) == IF d \in {"allow", "notPermitted"} THEN AllowTTL ELSE -1

\* cacheTtlSeconds of an answer: violations, missing policies and invalid
\* tokens are not to be cached.
TTL(d) == IF d \in {"allow", "notPermitted"} THEN AllowTTL ELSE 0

\* Mutant of SetToken: the block entry keeps the TTL of the answer.
SetTokenOwnTTL(r) ==
    /\ pc[r] = "setToken"
    /\ Set(TokenBlockKey(r), [decision |-> "invalid", ttl |-> TTL("invalid"),
                              at |-> pick[r].at, set |-> now])
    /\ pc' = [pc EXCEPT ![r] = "set"]
    /\ UNCHANGED <<now, cpVars, req, since, answer, pick, reply, event, warned>>

\* The entry that blocks the token, under the key without a target; a TTL of
\* zero is replaced by the configured one.
SetToken(r) ==
    /\ pc[r] = "setToken"
    /\ Set(TokenBlockKey(r), [decision |-> "invalid", ttl |-> TokenBlockTTL,
                              at |-> pick[r].at, set |-> now])
    /\ pc' = [pc EXCEPT ![r] = "set"]
    /\ UNCHANGED <<now, cpVars, req, since, answer, pick, reply, event, warned>>

\* Mutant of SetDecision: CachedAt is the time of the Set, not of the answer.
SetDecisionStampsLate(r) ==
    /\ pc[r] = "set"
    /\ LET d == pick[r].decision
       IN  /\ Set(RequestKey(r), [decision |-> d, ttl |-> TTL(d), at |-> now, set |-> now])
           /\ pc' = [pc EXCEPT ![r] = IF d = "allow" THEN "serve" ELSE "audit"]
    /\ pick' = [pick EXCEPT ![r].at = 0]
    /\ UNCHANGED <<now, cpVars, req, since, answer, reply, event, warned>>

\* The entry under the request's own key.
SetDecision(r) ==
    /\ pc[r] = "set"
    /\ LET d == pick[r].decision
       IN  /\ Set(RequestKey(r), [decision |-> d, ttl |-> TTL(d), at |-> pick[r].at, set |-> now])
           /\ pc' = [pc EXCEPT ![r] = IF d = "allow" THEN "serve" ELSE "audit"]
    /\ pick' = [pick EXCEPT ![r].at = 0]
    /\ UNCHANGED <<now, cpVars, req, since, answer, reply, event, warned>>

-----------------------------------------------------------------------------
(***************************************************************************)
(* servePolicyResult and handleControlPlaneUnavailable.                    *)
(***************************************************************************)
EventType(r) == IF req[r].target \in Artifact THEN "artifact" ELSE "metadata"

\* makeWALEvent for the entry the handler acts on.
PolicyEvent(r, type) ==
    [decision |-> IF pick[r].decision = "allow" THEN "allow" ELSE "block", type |-> type]

\* Mutant of Audit: a failed append is only logged.
AuditFailsOpen(r) ==
    /\ pc[r] = "audit"
    /\ event' \in {event, [event EXCEPT ![r] = PolicyEvent(r, EventType(r))]}
    /\ IF pick[r].decision = "allow"
       THEN pc' = [pc EXCEPT ![r] = "serve"] /\ UNCHANGED reply
       ELSE Finish(r, "forbidden")
    /\ UNCHANGED <<now, cpVars, cacheVars, req, since, answer, pick, warned>>

\* A block, and an allow from the cache, is appended before it is acted on; a
\* failed append is answered with 503.
Audit(r) ==
    /\ pc[r] = "audit"
    /\ \/ /\ event' = [event EXCEPT ![r] = PolicyEvent(r, EventType(r))]
          /\ IF pick[r].decision = "allow"
             THEN pc' = [pc EXCEPT ![r] = "serve"] /\ UNCHANGED reply
             ELSE Finish(r, "forbidden")
       \/ Finish(r, "auditUnavailable") /\ UNCHANGED event
    /\ UNCHANGED <<now, cpVars, cacheVars, req, since, answer, pick, warned>>

\* onAllow: the artifact or the index reaches the client, or the upstream fails.
\* Only OnServeAllowed reports the failure of an artifact.
Serve(r) ==
    /\ pc[r] = "serve"
    /\ \E response \in {"delivered", "upstreamError"} :
          IF pick[r].cached
          THEN Finish(r, response)
          ELSE /\ reply' = [reply EXCEPT ![r] = response]
               /\ pc' = [pc EXCEPT ![r] = "record"]
    /\ UNCHANGED <<now, cpVars, cacheVars, req, since, answer, pick, event, warned>>

\* The event of an allow the control plane has just given; a failed append is
\* only logged.
RecordAllow(r) ==
    /\ pc[r] = "record"
    /\ LET type == IF reply[r] = "upstreamError" /\ req[r].target \in Artifact
                   THEN "upstream_error" ELSE EventType(r)
       IN  event' \in {event, [event EXCEPT ![r] = PolicyEvent(r, type)]}
    /\ pc' = [pc EXCEPT ![r] = "idle"]
    /\ UNCHANGED <<now, cpVars, cacheVars, req, since, answer, pick, reply, warned>>

\* Fail closed: a block event, whose append may fail, and 503.
ControlPlaneUnavailable(r) ==
    /\ pc[r] = "unavailable"
    /\ event' \in {event, [event EXCEPT ![r] = [decision |-> "block", type |-> EventType(r)]]}
    /\ Finish(r, "unavailable")
    /\ UNCHANGED <<now, cpVars, cacheVars, req, since, answer, pick, warned>>

-----------------------------------------------------------------------------
NoRequest == [token |-> CHOOSE t \in Token : TRUE, target |-> CHOOSE g \in Target : TRUE]

\* The process dies and starts again: caches and requests are gone.
Crash ==
    /\ \E r \in Handler : pc[r] # "idle"
    /\ cache' = [k \in Key |-> Absent]
    /\ barred' = {} /\ floor' = [t \in Token |-> 0]
    /\ pc' = [r \in Handler |-> "idle"]
    /\ req' = [r \in Handler |-> NoRequest]
    /\ since' = [r \in Handler |-> 0]
    /\ answer' = [r \in Handler |-> "none"]
    /\ pick' = [r \in Handler |-> NoPick]
    /\ reply' = [r \in Handler |-> "none"]
    /\ event' = [r \in Handler |-> NoEvent]
    /\ warned' = [r \in Handler |-> FALSE]
    /\ UNCHANGED <<now, cpVars>>

Init ==
    /\ now = 0
    /\ valid = Token /\ validUntil = [t \in Token |-> -1]
    /\ entitled = Target /\ entitledUntil = [g \in Target |-> -1]
    /\ policy \in [Artifact -> Verdict] /\ permittedUntil = [a \in Artifact |-> -1]
    /\ cache = [k \in Key |-> Absent]
    /\ barred = {} /\ floor = [t \in Token |-> 0]
    /\ pc = [r \in Handler |-> "idle"]
    /\ req = [r \in Handler |-> NoRequest]
    /\ since = [r \in Handler |-> 0]
    /\ answer = [r \in Handler |-> "none"]
    /\ pick = [r \in Handler |-> NoPick]
    /\ reply = [r \in Handler |-> "none"]
    /\ event = [r \in Handler |-> NoEvent]
    /\ warned = [r \in Handler |-> FALSE]

\* The steps of the handler once a request has arrived.
Step(r) ==
    \/ TokenLookup(r) \/ Lookup(r) \/ CheckReturns(r) \/ CheckFails(r)
    \/ SetToken(r) \/ SetDecision(r)
    \/ Audit(r) \/ Serve(r) \/ RecordAllow(r) \/ ControlPlaneUnavailable(r)

Environment ==
    \/ \E t \in Token : RevokeToken(t)
    \/ \E g \in Target : ChangeEntitlement(g)
    \/ \E a \in Artifact : ChangePolicy(a)
    \/ Tick \/ Sweep \/ Crash

Next ==
    \/ \E r \in Handler : \/ \E t \in Token, g \in Target : Arrive(r, t, g)
                          \/ Step(r) \/ CheckToken(r) \/ CheckEntitlement(r) \/ CheckPolicy(r)
    \/ Environment

Spec == Init /\ [][Next]_vars

\* A handler never blocks for ever: the cache's lock is held for one step at a
\* time, and a Check that is not answered fails.
FairSpec == Spec /\ \A r \in Handler : WF_vars(Step(r))

-----------------------------------------------------------------------------
PC == InCheck \cup {"idle", "tokenLookup", "lookup", "setToken", "set", "audit",
                    "serve", "record", "unavailable"}
Reply == {"none", "tokenForbidden", "forbidden", "auditUnavailable", "delivered",
          "upstreamError", "unavailable"}
Event == [decision : {"none", "allow", "block"},
          type : {"none", "artifact", "metadata", "upstream_error"}]

TypeOK ==
    /\ now \in Nat
    /\ valid \subseteq Token /\ validUntil \in [Token -> Int]
    /\ entitled \subseteq Target /\ entitledUntil \in [Target -> Int]
    /\ policy \in [Artifact -> Verdict] /\ permittedUntil \in [Artifact -> Int]
    /\ cache \in [Key -> Entry \cup {Absent}]
    /\ barred \subseteq Token /\ floor \in [Token -> Nat]
    /\ pc \in [Handler -> PC]
    /\ req \in [Handler -> [token : Token, target : Target]]
    /\ since \in [Handler -> Nat]
    /\ answer \in [Handler -> Decision \cup {"none"}]
    /\ pick \in [Handler -> [decision : Decision \cup {"none"}, at : Nat, cached : BOOLEAN]]
    /\ reply \in [Handler -> Reply] /\ event \in [Handler -> Event]
    /\ warned \in [Handler -> BOOLEAN]

\* When the control plane last accepted token t, target g and artifact a.
LastValid(t) == IF t \in valid THEN now ELSE validUntil[t]
LastEntitled(g) == IF g \in entitled THEN now ELSE entitledUntil[g]
LastPermitted(a) == IF policy[a] = "allow" THEN now ELSE permittedUntil[a]

(***************************************************************************)
(* "Every request is evaluated by the control plane before a download is   *)
(* allowed" (README.md): when a handler decides to allow, the control      *)
(* plane accepted the token, its plan the target and its policies the      *)
(* artifact at most CheckTimeout ago, or AllowTTL + CheckTimeout ago when  *)
(* the cache decides, however answers to concurrent Checks overtake each   *)
(* other on their way into the cache.                                      *)
(***************************************************************************)
AllowIsRecent ==
    [][\A r \in Handler :
          pick'[r].decision = "allow" /\ pick[r].decision # "allow" =>
             LET age == CheckTimeout + IF pick'[r].cached THEN AllowTTL ELSE 0
                 g   == req[r].target
             IN  /\ now - LastValid(req[r].token) <= age
                 /\ now - LastEntitled(g) <= age
                 /\ g \in Artifact => /\ policy[g] = "allow" \/ permittedUntil[g] >= 0
                                      /\ now - LastPermitted(g) <= age]_vars

(***************************************************************************)
(* Once the proxy has cached that a token is invalid, a request is allowed *)
(* with that token only from the cache and only between TokenBlockTTL and  *)
(* AllowTTL + CheckTimeout after the revocation, however slow the Checks   *)
(* are that still add allows: never while the block entry is due to hide   *)
(* them.  With the defaults (300 s, 300 s, 10 s) that is a window of ten   *)
(* seconds; with TokenBlockTTL >= AllowTTL + CheckTimeout there is none.   *)
(* Eviction of the block entry ends the promise, see EvictionOrder.        *)
(***************************************************************************)
ReadmissionWindow ==
    [][\A r \in Handler :
          warned[r] /\ pick'[r].decision = "allow" /\ pick[r].decision # "allow" =>
             LET revoked == validUntil[req[r].token]
             IN  /\ pick'[r].cached
                 /\ now > revoked + TokenBlockTTL
                 /\ now <= revoked + AllowTTL + CheckTimeout]_vars

(***************************************************************************)
(* A full cache never evicts the entry that blocks a token before an allow *)
(* of that token that was cached earlier: what eviction can readmit is     *)
(* only an allow that a Check in flight adds after the block.              *)
(***************************************************************************)
EvictionOrder ==
    \A t \in Token, g \in Target :
        LET e == cache[<<t, g>>]
        IN  e # Absent /\ e.decision = "allow" => e.set >= floor[t]

Served(r) == reply[r] \in {"delivered", "upstreamError"}

(***************************************************************************)
(* The log and the responses agree: a policy block and an allow from the   *)
(* cache are in the log before the client learns of them, a request        *)
(* refused for want of the log is neither recorded nor served, and nothing *)
(* recorded as blocked is ever served.                                     *)
(***************************************************************************)
AuditTrail ==
    \A r \in Handler :
        /\ reply[r] = "forbidden" => event[r].decision = "block"
        /\ Served(r) /\ pick[r].cached => event[r].decision = "allow"
        /\ reply[r] = "auditUnavailable" => event[r] = NoEvent
        /\ event[r].decision = "block" => ~Served(r)
        /\ event[r].type = "upstream_error" => reply[r] = "upstreamError"

(***************************************************************************)
(* Every request is answered, unless the process dies.                     *)
(***************************************************************************)
EveryRequestAnswered ==
    \A r \in Handler : pc[r] # "idle" ~> pc[r] = "idle"

(***************************************************************************)
(* engine.go: "BLOCK and control-plane-unavailable events are written      *)
(* before the HTTP response (original audit guarantee)."                   *)
(***************************************************************************)
BlocksAreAudited ==
    \A r \in Handler :
        reply[r] \in {"forbidden", "tokenForbidden"} => event[r].decision = "block"

(***************************************************************************)
(* engine.go: "If upstream delivery fails (outcome.Failed), the event is   *)
(* still written with source="upstream_error"".                            *)
(***************************************************************************)
UpstreamErrorsAreRecorded ==
    \A r \in Handler :
        /\ pc[r] = "idle" /\ reply[r] = "upstreamError" /\ req[r].target \in Artifact
        /\ event[r] # NoEvent
        => event[r].type = "upstream_error"
=============================================================================
