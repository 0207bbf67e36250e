------------------------ MODULE ProxyPipelineProofs ------------------------
(***************************************************************************)
(* Proofs about ProxyPipeline, for any number of handlers, tokens and      *)
(* targets, any timeouts and a cache of any size: type correctness, the    *)
(* bound on the age of an allow, the window in which a revoked token may   *)
(* be readmitted, the order of eviction and the audit trail.               *)
(***************************************************************************)
EXTENDS ProxyPipeline, TLAPS

-----------------------------------------------------------------------------
(***************************************************************************)
(* The cache.                                                              *)
(***************************************************************************)

\* What a Set may leave under a key: nothing, or what the store held there.
LEMMA SetLeaves ==
    ASSUME NEW k \in Key, NEW e, Set(k, e), NEW j \in Key, cache \in [Key -> Entry \cup {Absent}]
    PROVE  cache'[j] \in {Absent, IF j = k THEN e ELSE cache[j]}
  BY DEF Set, Keep

\* A Set keeps the cache and its history within their types.
LEMMA SetType ==
    ASSUME NEW k \in Key, NEW e \in Entry, Set(k, e), TypeOK
    PROVE  /\ cache' \in [Key -> Entry \cup {Absent}]
           /\ barred' \subseteq Token /\ floor' \in [Token -> Nat]
  <1>1. PICK c : c = [cache EXCEPT ![k] = e]
    OBVIOUS
  <1>2. c \in [Key -> Entry \cup {Absent}]
    BY <1>1 DEF TypeOK
  <1>3. PICK K \in SUBSET Key : cache' = Keep(c, K)
    BY <1>1 DEF Set
  <1>4. cache' \in [Key -> Entry \cup {Absent}]
    BY <1>2, <1>3 DEF Keep
  <1>5. barred' \subseteq Token
    BY DEF Set, TypeOK
  <1>6. \A t \in Token : BlockKey(t) \in Key
    BY DEF BlockKey, Key
  <1>7. \A t \in Token : c[BlockKey(t)] # Absent => c[BlockKey(t)].set \in Nat
    BY <1>2, <1>6 DEF Entry
  <1>8. floor' = [t \in Token |->
                    IF /\ c[BlockKey(t)] # Absent /\ Fresh(c[BlockKey(t)])
                       /\ cache'[BlockKey(t)] = Absent
                    THEN c[BlockKey(t)].set ELSE floor[t]]
    BY <1>1 DEF Set
  <1>9. floor' \in [Token -> Nat]
    BY <1>7, <1>8 DEF TypeOK
  <1> QED
    BY <1>4, <1>5, <1>9

-----------------------------------------------------------------------------
(***************************************************************************)
(* Types.                                                                  *)
(***************************************************************************)
LEMMA InitTypeOK == Init => TypeOK
  <1> SUFFICES ASSUME Init PROVE TypeOK
    OBVIOUS
  <1>1. NoRequest \in [token : Token, target : Target]
    BY PipelineAssumption DEF NoRequest
  <1> QED
    BY <1>1 DEF Init, TypeOK, NoPick, NoEvent, PC, Reply, Event

\* The handler has an answer where it is about to use one, and the policies are
\* only asked about artifacts.
Decided ==
    \A r \in Handler :
        /\ pc[r] = "policy" => req[r].target \in Artifact
        /\ pc[r] = "answered" => answer[r] \in Decision
        /\ pc[r] = "setToken" => pick[r].decision = "invalid"
        /\ pc[r] \in {"set", "audit", "serve", "record"} => pick[r].decision \in Decision

\* Every step keeps the types.
LEMMA NextTypeOK == TypeOK /\ Decided /\ [Next]_vars => TypeOK'
  <1> SUFFICES ASSUME TypeOK, Decided, [Next]_vars PROVE TypeOK'
    OBVIOUS
  <1> USE PipelineAssumption DEF cpVars, cacheVars, requestVars
  <1>1. ASSUME NEW r \in Handler, NEW t \in Token, NEW g \in Target, Arrive(r, t, g)
        PROVE  TypeOK'
    BY <1>1 DEF Arrive, TypeOK, NoPick, NoEvent, PC, Reply, Event
  <1>2. ASSUME NEW r \in Handler, TokenLookup(r) PROVE TypeOK'
    <2>1. warned' = [warned EXCEPT ![r] = req[r].token \in barred] /\ warned \in [Handler -> BOOLEAN]
      BY <1>2 DEF TokenLookup, TypeOK
    <2>2. (req[r].token \in barred) \in BOOLEAN
      OBVIOUS
    <2>3. warned' \in [Handler -> BOOLEAN]
      BY <2>1, <2>2, Zenon
    <2>4. pc' \in [Handler -> PC] /\ reply' \in [Handler -> Reply]
      BY <1>2 DEF TokenLookup, Finish, TypeOK, PC, Reply
    <2> QED
      BY <1>2, <2>3, <2>4 DEF TokenLookup, TypeOK
  <1>3. ASSUME NEW r \in Handler, Lookup(r) PROVE TypeOK'
    <2> DEFINE k == RequestKey(r)
    <2>1. k \in Key
      BY DEF TypeOK, RequestKey, Key
    <2>2. cache[k] # Absent => cache[k].decision \in Decision
      BY <2>1 DEF TypeOK, Entry
    <2>3. CASE Hit(k)
      <3>1. /\ pick' = [pick EXCEPT ![r] = [decision |-> cache[k].decision, at |-> 0,
                                            cached |-> TRUE]]
            /\ pc' = [pc EXCEPT ![r] = "audit"]
            /\ UNCHANGED <<now, cpVars, cacheVars, req, since, answer, reply, event, warned>>
        BY <1>3, <2>3 DEF Lookup
      <3>2. cache[k].decision \in Decision
        BY <2>2, <2>3 DEF Hit
      <3> QED
        BY <3>1, <3>2 DEF TypeOK, PC
    <2>4. CASE ~Hit(k)
      <3>1. /\ since' = [since EXCEPT ![r] = now]
            /\ pc' = [pc EXCEPT ![r] = "check"]
            /\ UNCHANGED <<now, cpVars, cacheVars, req, answer, pick, reply, event, warned>>
        BY <1>3, <2>4 DEF Lookup
      <3> QED
        BY <3>1 DEF TypeOK, PC, InCheck
    <2> QED
      BY <2>3, <2>4
  <1>4. ASSUME NEW r \in Handler, CheckToken(r) PROVE TypeOK'
    BY <1>4 DEF CheckToken, TypeOK, PC, InCheck, Decision
  <1>5. ASSUME NEW r \in Handler, CheckPolicy(r) PROVE TypeOK'
    <2>1. policy[req[r].target] \in Decision
      BY <1>5 DEF CheckPolicy, TypeOK, Decided, Decision
    <2> QED
      BY <1>5, <2>1 DEF CheckPolicy, TypeOK, PC, InCheck
  <1>21. ASSUME NEW r \in Handler, CheckEntitlement(r) PROVE TypeOK'
    <2>1. answer' \in [Handler -> Decision \cup {"none"}]
      BY <1>21 DEF CheckEntitlement, TypeOK, Decision, Verdict
    <2>3. pc' \in {[pc EXCEPT ![r] = "policy"], [pc EXCEPT ![r] = "answered"]}
      BY <1>21 DEF CheckEntitlement
    <2>2. pc' \in [Handler -> PC]
      BY <2>3 DEF TypeOK, PC, InCheck
    <2> QED
      BY <1>21, <2>1, <2>2 DEF CheckEntitlement, TypeOK
  <1>6. ASSUME NEW r \in Handler, CheckReturns(r) PROVE TypeOK'
    BY <1>6 DEF CheckReturns, TypeOK, PC
  <1>7. ASSUME NEW r \in Handler, CheckFails(r) PROVE TypeOK'
    BY <1>7 DEF CheckFails, TypeOK, PC
  <1>8. ASSUME NEW r \in Handler, SetToken(r) PROVE TypeOK'
    <2>1. TokenBlockKey(r) \in Key
      BY DEF TypeOK, TokenBlockKey, BlockKey, Key
    <2>2. [decision |-> "invalid", ttl |-> TokenBlockTTL, at |-> pick[r].at, set |-> now]
             \in Entry
      BY DEF TypeOK, Entry, Decision
    <2>3. /\ cache' \in [Key -> Entry \cup {Absent}]
          /\ barred' \subseteq Token /\ floor' \in [Token -> Nat]
      BY <1>8, <2>1, <2>2, SetType DEF SetToken
    <2> QED
      BY <1>8, <2>3 DEF SetToken, TypeOK, PC
  <1>9. ASSUME NEW r \in Handler, SetDecision(r) PROVE TypeOK'
    <2>1. RequestKey(r) \in Key
      BY DEF TypeOK, RequestKey, Key
    <2>2. [decision |-> pick[r].decision, ttl |-> TTL(pick[r].decision), at |-> pick[r].at,
           set |-> now] \in Entry
      BY <1>9 DEF SetDecision, Decided, TypeOK, Entry, TTL
    <2>3. /\ cache' \in [Key -> Entry \cup {Absent}]
          /\ barred' \subseteq Token /\ floor' \in [Token -> Nat]
      BY <1>9, <2>1, <2>2, SetType DEF SetDecision
    <2> QED
      BY <1>9, <2>3 DEF SetDecision, TypeOK, PC
  <1>10. ASSUME NEW r \in Handler, Audit(r) PROVE TypeOK'
    <2>1. PolicyEvent(r, EventType(r)) \in Event
      BY DEF PolicyEvent, EventType, Event
    <2>2. /\ event' \in {event, [event EXCEPT ![r] = PolicyEvent(r, EventType(r))]}
          /\ pc' \in {[pc EXCEPT ![r] = "serve"], [pc EXCEPT ![r] = "idle"]}
          /\ reply' \in {reply, [reply EXCEPT ![r] = "forbidden"],
                        [reply EXCEPT ![r] = "auditUnavailable"]}
          /\ UNCHANGED <<now, cpVars, cacheVars, req, since, answer, pick, warned>>
      BY <1>10 DEF Audit, Finish
    <2>3. event' \in [Handler -> Event]
      BY <2>1, <2>2 DEF TypeOK
    <2>4. pc' \in [Handler -> PC]
      BY <2>2 DEF TypeOK, PC
    <2>5. reply' \in [Handler -> Reply]
      BY <2>2 DEF TypeOK, Reply
    <2> QED
      BY <2>2, <2>3, <2>4, <2>5 DEF TypeOK
  <1>11. ASSUME NEW r \in Handler, Serve(r) PROVE TypeOK'
    BY <1>11 DEF Serve, Finish, TypeOK, PC, Reply
  <1>12. ASSUME NEW r \in Handler, RecordAllow(r) PROVE TypeOK'
    <2>1. \A type \in {"artifact", "metadata", "upstream_error"} : PolicyEvent(r, type) \in Event
      BY DEF PolicyEvent, Event
    <2>2. EventType(r) \in {"artifact", "metadata"}
      BY DEF EventType
    <2>3. event' \in [Handler -> Event]
      BY <1>12, <2>1, <2>2 DEF RecordAllow, TypeOK
    <2> QED
      BY <1>12, <2>3 DEF RecordAllow, TypeOK, PC
  <1>13. ASSUME NEW r \in Handler, ControlPlaneUnavailable(r) PROVE TypeOK'
    <2>1. [decision |-> "block", type |-> EventType(r)] \in Event
      BY DEF EventType, Event
    <2>2. event' \in [Handler -> Event]
      BY <1>13, <2>1 DEF ControlPlaneUnavailable, TypeOK
    <2> QED
      BY <1>13, <2>2 DEF ControlPlaneUnavailable, Finish, TypeOK, PC, Reply
  <1>14. ASSUME NEW t \in Token, RevokeToken(t) PROVE TypeOK'
    BY <1>14 DEF RevokeToken, TypeOK
  <1>15. ASSUME NEW a \in Artifact, ChangePolicy(a) PROVE TypeOK'
    BY <1>15 DEF ChangePolicy, TypeOK
  <1>20. ASSUME NEW g \in Target, ChangeEntitlement(g) PROVE TypeOK'
    BY <1>20 DEF ChangeEntitlement, TypeOK
  <1>16. ASSUME Tick PROVE TypeOK'
    BY <1>16 DEF Tick, TypeOK
  <1>17. ASSUME Sweep PROVE TypeOK'
    BY <1>17 DEF Sweep, Keep, TypeOK
  <1>18. ASSUME Crash PROVE TypeOK'
    <2>1. NoRequest \in [token : Token, target : Target]
      BY DEF NoRequest
    <2> QED
      BY <1>18, <2>1 DEF Crash, TypeOK, NoPick, NoEvent, PC, Reply, Event
  <1>19. CASE UNCHANGED vars
    BY <1>19 DEF vars, TypeOK
  <1> QED
    BY <1>1, <1>2, <1>3, <1>4, <1>5, <1>6, <1>7, <1>8, <1>9, <1>10, <1>11, <1>12, <1>13,
       <1>14, <1>15, <1>16, <1>17, <1>18, <1>19, <1>20, <1>21 DEF Next, Step, Environment

-----------------------------------------------------------------------------
(***************************************************************************)
(* The age of an allow.  An answer is at most CheckTimeout older than its  *)
(* stamp, wherever it is kept: in the RPC, in the handler, in the cache.   *)
(***************************************************************************)
ValidSince(t, s) == LastValid(t) >= s

EntitledSince(g, s) == LastEntitled(g) >= s

PermittedSince(g, s) ==
    g \in Artifact => /\ policy[g] = "allow" \/ permittedUntil[g] >= 0
                      /\ LastPermitted(g) >= s

\* The clock is ahead of what happened, and no Check outlives its timeout.
Clock ==
    /\ \A t \in Token : validUntil[t] <= now
    /\ \A g \in Target : entitledUntil[g] <= now
    /\ \A a \in Artifact : permittedUntil[a] <= now
    /\ \A r \in Handler :
          pc[r] \in InCheck => since[r] <= now /\ now - since[r] <= CheckTimeout

CheckOK ==
    \A r \in Handler :
        /\ pc[r] \in {"context", "policy"} => ValidSince(req[r].token, since[r])
        /\ pc[r] = "policy" => EntitledSince(req[r].target, since[r])
        /\ pc[r] = "answered" /\ answer[r] = "allow" =>
              /\ ValidSince(req[r].token, since[r])
              /\ EntitledSince(req[r].target, since[r])
              /\ PermittedSince(req[r].target, since[r])

PickOK ==
    \A r \in Handler :
        pc[r] = "set" /\ pick[r].decision = "allow" =>
           /\ ValidSince(req[r].token, pick[r].at - CheckTimeout)
           /\ EntitledSince(req[r].target, pick[r].at - CheckTimeout)
           /\ PermittedSince(req[r].target, pick[r].at - CheckTimeout)

CacheOK ==
    \A t \in Token, g \in Target \cup {NoTarget} :
        cache[<<t, g>>] # Absent /\ cache[<<t, g>>].decision = "allow" =>
           /\ g \in Target
           /\ cache[<<t, g>>].ttl = AllowTTL
           /\ ValidSince(t, cache[<<t, g>>].at - CheckTimeout)
           /\ EntitledSince(g, cache[<<t, g>>].at - CheckTimeout)
           /\ PermittedSince(g, cache[<<t, g>>].at - CheckTimeout)

RecentInv == TypeOK /\ Decided /\ Clock /\ CheckOK /\ PickOK /\ CacheOK

\* What the two outcomes of Lookup do.
LookupHit(r) ==
    /\ Hit(RequestKey(r))
    /\ pick' = [pick EXCEPT ![r] = [decision |-> cache[RequestKey(r)].decision, at |-> 0,
                                    cached |-> TRUE]]
    /\ pc' = [pc EXCEPT ![r] = "audit"]
    /\ UNCHANGED <<now, cpVars, cacheVars, req, since, answer, reply, event, warned>>

LookupMiss(r) ==
    /\ since' = [since EXCEPT ![r] = now]
    /\ pc' = [pc EXCEPT ![r] = "check"]
    /\ UNCHANGED <<now, cpVars, cacheVars, req, answer, pick, reply, event, warned>>

\* A Lookup hits or misses.
LEMMA LookupCases ==
    ASSUME NEW r \in Handler, Lookup(r)
    PROVE  LookupHit(r) \/ LookupMiss(r)
  BY DEF Lookup, LookupHit, LookupMiss

\* Where a Lookup leads.
LEMMA LookupGoes ==
    ASSUME TypeOK, NEW r \in Handler, Lookup(r)
    PROVE  pc'[r] \in {"audit", "check"}
  BY LookupCases DEF LookupHit, LookupMiss, TypeOK

\* The invariant of the ages holds at the start.
LEMMA InitRecentInv == Init => RecentInv
  <1> SUFFICES ASSUME Init PROVE RecentInv
    OBVIOUS
  <1>1. TypeOK
    BY InitTypeOK
  <1>2. Decided /\ CheckOK /\ PickOK
    BY DEF Init, Decided, CheckOK, PickOK
  <1>3. Clock
    BY DEF Init, Clock, InCheck
  <1>4. CacheOK
    BY DEF Init, CacheOK, Key
  <1> QED
    BY <1>1, <1>2, <1>3, <1>4 DEF RecentInv

\* Every step keeps Decided.
LEMMA NextDecided == TypeOK /\ Decided /\ [Next]_vars => Decided'
  <1> SUFFICES ASSUME TypeOK, Decided, [Next]_vars PROVE Decided'
    OBVIOUS
  <1> USE DEF cpVars, cacheVars, requestVars
  <1>1. ASSUME NEW r \in Handler, NEW t \in Token, NEW g \in Target, Arrive(r, t, g)
        PROVE  Decided'
    BY <1>1 DEF Arrive, TypeOK, Decided
  <1>2. ASSUME NEW r \in Handler, TokenLookup(r) PROVE Decided'
    BY <1>2 DEF TokenLookup, Finish, TypeOK, Decided
  <1>3. ASSUME NEW r \in Handler, Lookup(r) PROVE Decided'
    <2>1. LookupHit(r) => cache[RequestKey(r)].decision \in Decision
      BY DEF LookupHit, Hit, TypeOK, RequestKey, Key, Entry
    <2>2. CASE LookupHit(r)
      BY <2>1, <2>2 DEF LookupHit, TypeOK, Decided
    <2>3. CASE LookupMiss(r)
      BY <2>3 DEF LookupMiss, TypeOK, Decided
    <2> QED
      BY <1>3, <2>2, <2>3, LookupCases
  <1>4. ASSUME NEW r \in Handler, CheckToken(r) PROVE Decided'
    BY <1>4 DEF CheckToken, TypeOK, Decided, Decision
  <1>5. ASSUME NEW r \in Handler, CheckEntitlement(r) \/ CheckPolicy(r) PROVE Decided'
    BY <1>5 DEF CheckEntitlement, CheckPolicy, TypeOK, Decided, Decision, Verdict
  <1>6. ASSUME NEW r \in Handler, CheckReturns(r) PROVE Decided'
    BY <1>6 DEF CheckReturns, TypeOK, Decided
  <1>7. ASSUME NEW r \in Handler, CheckFails(r) PROVE Decided'
    BY <1>7 DEF CheckFails, TypeOK, Decided
  <1>8. ASSUME NEW r \in Handler, SetToken(r) PROVE Decided'
    BY <1>8 DEF SetToken, TypeOK, Decided, Decision
  <1>9. ASSUME NEW r \in Handler, SetDecision(r) PROVE Decided'
    BY <1>9 DEF SetDecision, TypeOK, Decided
  <1>10. ASSUME NEW r \in Handler, Audit(r) PROVE Decided'
    BY <1>10 DEF Audit, Finish, TypeOK, Decided
  <1>11. ASSUME NEW r \in Handler, Serve(r) PROVE Decided'
    BY <1>11 DEF Serve, Finish, TypeOK, Decided
  <1>12. ASSUME NEW r \in Handler, RecordAllow(r) PROVE Decided'
    BY <1>12 DEF RecordAllow, TypeOK, Decided
  <1>13. ASSUME NEW r \in Handler, ControlPlaneUnavailable(r) PROVE Decided'
    BY <1>13 DEF ControlPlaneUnavailable, Finish, TypeOK, Decided
  <1>14. CASE UNCHANGED requestVars
    BY <1>14 DEF Decided
  <1>15. CASE Crash
    BY <1>15 DEF Crash, Decided
  <1> QED
    BY <1>1, <1>2, <1>3, <1>4, <1>5, <1>6, <1>7, <1>8, <1>9, <1>10, <1>11, <1>12, <1>13,
       <1>14, <1>15
       DEF Next, Step, Environment, RevokeToken, ChangeEntitlement,
           ChangePolicy, Tick, Sweep, vars

\* Neither the clock nor the control plane ever takes an allow back.
LEMMA Grows ==
    ASSUME TypeOK, Clock, [Next]_vars
    PROVE  /\ \A t \in Token : LastValid(t)' >= LastValid(t)
           /\ \A t \in Token : validUntil'[t] <= now'
           /\ \A g \in Target : LastEntitled(g)' >= LastEntitled(g)
           /\ \A g \in Target : entitledUntil'[g] <= now'
           /\ \A a \in Artifact : LastPermitted(a)' >= LastPermitted(a)
           /\ \A a \in Artifact : permittedUntil'[a] <= now'
           /\ \A a \in Artifact : policy[a] = "allow" \/ permittedUntil[a] >= 0
                                    => policy'[a] = "allow" \/ permittedUntil'[a] >= 0
  <1>1. CASE Tick
    BY <1>1 DEF Tick, cpVars, TypeOK, Clock, LastValid, LastEntitled, LastPermitted
  <1>2. ASSUME NEW t \in Token, RevokeToken(t)
        PROVE  /\ \A u \in Token : LastValid(u)' >= LastValid(u) /\ validUntil'[u] <= now'
               /\ UNCHANGED <<now, entitled, entitledUntil, policy, permittedUntil>>
    BY <1>2 DEF RevokeToken, TypeOK, Clock, LastValid
  <1>3. ASSUME NEW a \in Artifact, ChangePolicy(a)
        PROVE  /\ \A h \in Artifact :
                     /\ LastPermitted(h)' >= LastPermitted(h) /\ permittedUntil'[h] <= now'
                     /\ policy[h] = "allow" \/ permittedUntil[h] >= 0
                           => policy'[h] = "allow" \/ permittedUntil'[h] >= 0
               /\ UNCHANGED <<now, valid, validUntil, entitled, entitledUntil>>
    BY <1>3 DEF ChangePolicy, TypeOK, Clock, LastPermitted
  <1>4. CASE UNCHANGED <<now, cpVars>>
    BY <1>4 DEF cpVars, TypeOK, Clock, LastValid, LastEntitled, LastPermitted
  <1>5. ASSUME NEW g \in Target, ChangeEntitlement(g)
        PROVE  /\ \A h \in Target :
                     LastEntitled(h)' >= LastEntitled(h) /\ entitledUntil'[h] <= now'
               /\ UNCHANGED <<now, valid, validUntil, policy, permittedUntil>>
    BY <1>5 DEF ChangeEntitlement, TypeOK, Clock, LastEntitled
  <1>6. CASE \E t \in Token : RevokeToken(t)
    BY <1>2, <1>6 DEF TypeOK, Clock, LastEntitled, LastPermitted
  <1>7. CASE \E a \in Artifact : ChangePolicy(a)
    BY <1>3, <1>7 DEF TypeOK, Clock, LastValid, LastEntitled
  <1>8. CASE \E g \in Target : ChangeEntitlement(g)
    BY <1>5, <1>8 DEF TypeOK, Clock, LastValid, LastPermitted
  <1>9. \/ Tick \/ UNCHANGED <<now, cpVars>>
        \/ \E t \in Token : RevokeToken(t)
        \/ \E g \in Target : ChangeEntitlement(g)
        \/ \E a \in Artifact : ChangePolicy(a)
    BY DEF Next, Step, Environment, vars, Arrive, TokenLookup, Lookup, CheckToken,
           CheckEntitlement, CheckPolicy, CheckReturns, CheckFails, SetToken, SetDecision,
           Audit, Serve, RecordAllow, ControlPlaneUnavailable, Sweep, Crash
  <1> QED
    BY <1>1, <1>4, <1>6, <1>7, <1>8, <1>9

\* Handler q is where it was, with the same request.
Same(q) ==
    /\ pc'[q] = pc[q] /\ req'[q] = req[q] /\ since'[q] = since[q] /\ answer'[q] = answer[q]
    /\ pick'[q] = pick[q] /\ reply'[q] = reply[q] /\ event'[q] = event[q]
    /\ warned'[q] = warned[q]

Act(q) ==
    \/ \E t \in Token, g \in Target : Arrive(q, t, g)
    \/ Step(q) \/ CheckToken(q) \/ CheckEntitlement(q) \/ CheckPolicy(q)

\* A handler moves by an action of its own, or with the whole process.
LEMMA Frame ==
    ASSUME TypeOK, [Next]_vars, NEW q \in Handler
    PROVE  Same(q) \/ Act(q) \/ Crash
  <1> USE DEF requestVars
  <1>1. ASSUME NEW r \in Handler \ {q}, NEW t \in Token, NEW g \in Target, Arrive(r, t, g)
        PROVE  Same(q)
    BY <1>1 DEF Arrive, TypeOK, Same
  <1>2. ASSUME NEW r \in Handler \ {q}, TokenLookup(r) PROVE Same(q)
    BY <1>2 DEF TokenLookup, Finish, TypeOK, Same
  <1>3. ASSUME NEW r \in Handler \ {q}, Lookup(r) PROVE Same(q)
    BY <1>3 DEF Lookup, TypeOK, Same
  <1>4. ASSUME NEW r \in Handler \ {q}, CheckToken(r) PROVE Same(q)
    BY <1>4 DEF CheckToken, TypeOK, Same
  <1>5. ASSUME NEW r \in Handler \ {q}, CheckEntitlement(r) \/ CheckPolicy(r) PROVE Same(q)
    BY <1>5 DEF CheckEntitlement, CheckPolicy, TypeOK, Same
  <1>6. ASSUME NEW r \in Handler \ {q}, CheckReturns(r) PROVE Same(q)
    BY <1>6 DEF CheckReturns, TypeOK, Same
  <1>7. ASSUME NEW r \in Handler \ {q}, CheckFails(r) PROVE Same(q)
    BY <1>7 DEF CheckFails, TypeOK, Same
  <1>8. ASSUME NEW r \in Handler \ {q}, SetToken(r) PROVE Same(q)
    BY <1>8 DEF SetToken, TypeOK, Same
  <1>9. ASSUME NEW r \in Handler \ {q}, SetDecision(r) PROVE Same(q)
    BY <1>9 DEF SetDecision, TypeOK, Same
  <1>10. ASSUME NEW r \in Handler \ {q}, Audit(r) PROVE Same(q)
    BY <1>10 DEF Audit, Finish, TypeOK, Same
  <1>11. ASSUME NEW r \in Handler \ {q}, Serve(r) PROVE Same(q)
    BY <1>11 DEF Serve, Finish, TypeOK, Same
  <1>12. ASSUME NEW r \in Handler \ {q}, RecordAllow(r) PROVE Same(q)
    BY <1>12 DEF RecordAllow, TypeOK, Same
  <1>13. ASSUME NEW r \in Handler \ {q}, ControlPlaneUnavailable(r) PROVE Same(q)
    BY <1>13 DEF ControlPlaneUnavailable, Finish, TypeOK, Same
  <1>14. CASE UNCHANGED requestVars
    BY <1>14 DEF Same
  <1> QED
    BY <1>1, <1>2, <1>3, <1>4, <1>5, <1>6, <1>7, <1>8, <1>9, <1>10, <1>11, <1>12, <1>13, <1>14
       DEF Act, Next, Step, Environment, vars, RevokeToken, ChangeEntitlement,
           ChangePolicy, Tick, Sweep

\* Only Tick moves the clock.
LEMMA NowStep ==
    ASSUME [Next]_vars
    PROVE  now' = now \/ Tick
  BY DEF Next, Step, Environment, vars, Arrive, TokenLookup, Lookup, CheckToken,
         CheckEntitlement, CheckPolicy,
         CheckReturns, CheckFails, SetToken, SetDecision, Audit, Serve, RecordAllow,
         ControlPlaneUnavailable, RevokeToken, ChangeEntitlement, ChangePolicy, Sweep, Crash

\* Which steps change the cache.
LEMMA CacheStep ==
    ASSUME [Next]_vars
    PROVE  \/ UNCHANGED <<cache, barred, floor>>
           \/ \E r \in Handler : SetToken(r) \/ SetDecision(r)
           \/ Sweep \/ Crash
  BY DEF Next, Step, Environment, vars, cacheVars, Arrive, TokenLookup, Lookup, CheckToken,
         CheckEntitlement, CheckPolicy, CheckReturns, CheckFails, Audit, Serve, RecordAllow,
         ControlPlaneUnavailable, RevokeToken, ChangeEntitlement, ChangePolicy, Tick

\* Every step keeps Clock.
LEMMA NextClock == TypeOK /\ Clock /\ [Next]_vars => Clock'
  <1> SUFFICES ASSUME TypeOK, Clock, [Next]_vars PROVE Clock'
    OBVIOUS
  <1> USE PipelineAssumption
  <1>1. /\ \A t \in Token : validUntil'[t] <= now'
        /\ \A g \in Target : entitledUntil'[g] <= now'
        /\ \A a \in Artifact : permittedUntil'[a] <= now'
    BY Grows
  <1>2. ASSUME NEW q \in Handler, pc'[q] \in InCheck
        PROVE  since'[q] <= now' /\ now' - since'[q] <= CheckTimeout
    <2>1. CASE Same(q)
      BY <1>2, <2>1, NowStep DEF Same, Tick, TypeOK, Clock
    <2>2. CASE Lookup(q)
      <3>1. LookupMiss(q)
        BY <1>2, <2>2, LookupCases DEF LookupHit, InCheck, TypeOK
      <3> QED
        BY <3>1 DEF LookupMiss, TypeOK
    <2>3. CASE CheckToken(q) \/ CheckEntitlement(q) \/ CheckPolicy(q)
      BY <2>3 DEF CheckToken, CheckEntitlement, CheckPolicy, TypeOK, Clock, InCheck
    <2>4. CASE Crash
      BY <1>2, <2>4 DEF Crash, InCheck
    <2>5. CASE \E t \in Token, g \in Target : Arrive(q, t, g)
      BY <1>2, <2>5 DEF Arrive, InCheck, TypeOK
    <2>6. CASE Step(q) /\ ~Lookup(q)
      BY <1>2, <2>6
         DEF Step, TokenLookup, CheckReturns, CheckFails, SetToken, SetDecision, Audit, Serve,
             RecordAllow, ControlPlaneUnavailable, Finish, InCheck, TypeOK
    <2> QED
      BY <2>1, <2>2, <2>3, <2>4, <2>5, <2>6, Frame DEF Act
  <1> QED
    BY <1>1, <1>2 DEF Clock

\* What was accepted since s stays accepted since s.
LEMMA Keeps ==
    ASSUME TypeOK, TypeOK', Clock, [Next]_vars, NEW s \in Int
    PROVE  /\ \A t \in Token : ValidSince(t, s) => ValidSince(t, s)'
           /\ \A g \in Target : EntitledSince(g, s) => EntitledSince(g, s)'
           /\ \A g \in Target : PermittedSince(g, s) => PermittedSince(g, s)'
  <1>1. \A t \in Token : LastValid(t) \in Int /\ LastValid(t)' \in Int
    BY DEF TypeOK, LastValid
  <1>2. \A g \in Target : LastEntitled(g) \in Int /\ LastEntitled(g)' \in Int
    BY DEF TypeOK, LastEntitled
  <1>3. \A a \in Artifact : LastPermitted(a) \in Int /\ LastPermitted(a)' \in Int
    BY DEF TypeOK, LastPermitted
  <1> QED
    BY <1>1, <1>2, <1>3, Grows DEF ValidSince, EntitledSince, PermittedSince

\* Every step keeps CheckOK.
LEMMA NextCheckOK ==
    TypeOK /\ TypeOK' /\ Decided /\ Clock /\ CheckOK /\ [Next]_vars => CheckOK'
  <1> SUFFICES ASSUME TypeOK, TypeOK', Decided, Clock, CheckOK, [Next]_vars,
                      NEW q \in Handler, pc'[q] \in {"context", "policy", "answered"}
               PROVE  /\ pc'[q] \in {"context", "policy"} => ValidSince(req[q].token, since[q])'
                      /\ pc'[q] = "policy" => EntitledSince(req[q].target, since[q])'
                      /\ pc'[q] = "answered" /\ answer'[q] = "allow" =>
                            /\ ValidSince(req[q].token, since[q])'
                            /\ EntitledSince(req[q].target, since[q])'
                            /\ PermittedSince(req[q].target, since[q])'
    BY DEF CheckOK
  <1> USE DEF ValidSince, EntitledSince, PermittedSince
  <1>1. CASE Same(q)
    <2>1. PICK t \in Token, g \in Target, s \in Nat :
             /\ t = req[q].token /\ g = req[q].target /\ s = since[q]
             /\ t = req'[q].token /\ g = req'[q].target /\ s = since'[q]
      BY <1>1 DEF Same, TypeOK
    <2>2. /\ pc[q] \in {"context", "policy"} => ValidSince(t, s)
          /\ pc[q] = "policy" => EntitledSince(g, s)
          /\ pc[q] = "answered" /\ answer[q] = "allow" =>
                ValidSince(t, s) /\ EntitledSince(g, s) /\ PermittedSince(g, s)
      BY <2>1 DEF CheckOK
    <2>3. /\ ValidSince(t, s) => ValidSince(t, s)'
          /\ EntitledSince(g, s) => EntitledSince(g, s)'
          /\ PermittedSince(g, s) => PermittedSince(g, s)'
      BY Keeps
    <2> QED
      BY <1>1, <2>1, <2>2, <2>3 DEF Same
  <1>2. CASE CheckToken(q)
    BY <1>2 DEF CheckToken, cpVars, TypeOK, Clock, InCheck, LastValid
  <1>3. CASE CheckEntitlement(q)
    BY <1>3 DEF CheckEntitlement, cpVars, TypeOK, Clock, CheckOK, InCheck, LastValid,
                LastEntitled
  <1>7. CASE CheckPolicy(q)
    BY <1>7 DEF CheckPolicy, cpVars, TypeOK, Decided, Clock, CheckOK, InCheck, LastValid,
                LastEntitled, LastPermitted
  <1>4. CASE Crash
    BY <1>4 DEF Crash
  <1>5. CASE \E t \in Token, g \in Target : Arrive(q, t, g)
    BY <1>5 DEF Arrive, TypeOK
  <1>6. CASE Step(q)
    <2>1. ~Lookup(q)
      BY LookupGoes
    <2> QED
      BY <1>6, <2>1
         DEF Step, TokenLookup, CheckReturns, CheckFails, SetToken, SetDecision, Audit, Serve,
             RecordAllow, ControlPlaneUnavailable, Finish, TypeOK
  <1> QED
    BY <1>1, <1>2, <1>3, <1>4, <1>5, <1>6, <1>7, Frame DEF Act

\* Every step keeps PickOK.
LEMMA NextPickOK ==
    TypeOK /\ TypeOK' /\ Decided /\ Clock /\ CheckOK /\ PickOK /\ [Next]_vars => PickOK'
  <1> SUFFICES ASSUME TypeOK, TypeOK', Decided, Clock, CheckOK, PickOK, [Next]_vars,
                      NEW q \in Handler, pc'[q] = "set", pick'[q].decision = "allow"
               PROVE  /\ ValidSince(req[q].token, pick[q].at - CheckTimeout)'
                      /\ EntitledSince(req[q].target, pick[q].at - CheckTimeout)'
                      /\ PermittedSince(req[q].target, pick[q].at - CheckTimeout)'
    BY DEF PickOK
  <1> USE PipelineAssumption DEF ValidSince, EntitledSince, PermittedSince
  <1>1. CASE Same(q)
    <2>0. pick[q].at \in Nat /\ req[q].token \in Token /\ req[q].target \in Target
      BY DEF TypeOK
    <2>1. PICK t \in Token, g \in Target, s \in Int :
             /\ t = req[q].token /\ g = req[q].target /\ s = pick[q].at - CheckTimeout
             /\ t = req'[q].token /\ g = req'[q].target /\ s = pick'[q].at - CheckTimeout
      BY <1>1, <2>0 DEF Same
    <2>2. ValidSince(t, s) /\ EntitledSince(g, s) /\ PermittedSince(g, s)
      BY <1>1, <2>1 DEF PickOK, Same
    <2>3. ValidSince(t, s)' /\ EntitledSince(g, s)' /\ PermittedSince(g, s)'
      BY <2>2, Keeps
    <2> QED
      BY <2>1, <2>3
  <1>2. CASE CheckReturns(q)
    <2>1. /\ answer[q] = "allow" /\ pick'[q].at = now /\ pc[q] = "answered"
          /\ UNCHANGED <<now, cpVars, req>>
      BY <1>2 DEF CheckReturns, cpVars, TypeOK
    <2>2. since[q] >= now - CheckTimeout /\ since[q] \in Int /\ now \in Int
      BY <2>1 DEF Clock, TypeOK, InCheck
    <2> QED
      BY <2>1, <2>2 DEF CheckOK, LastValid, LastEntitled, LastPermitted, TypeOK, cpVars
  <1>3. CASE SetToken(q)
    BY <1>3 DEF SetToken, Decided, TypeOK
  <1>4. CASE Crash
    BY <1>4 DEF Crash
  <1>5. CASE \E t \in Token, g \in Target : Arrive(q, t, g)
    BY <1>5 DEF Arrive, TypeOK
  <1>6. CASE CheckToken(q) \/ CheckEntitlement(q) \/ CheckPolicy(q)
    BY <1>6 DEF CheckToken, CheckEntitlement, CheckPolicy, TypeOK
  <1>7. CASE Step(q) /\ ~CheckReturns(q) /\ ~SetToken(q)
    <2>1. ~Lookup(q)
      BY LookupGoes
    <2> QED
      BY <1>7, <2>1
         DEF Step, TokenLookup, CheckFails, SetDecision, Audit, Serve,
             RecordAllow, ControlPlaneUnavailable, Finish, TypeOK
  <1> QED
    BY <1>1, <1>2, <1>3, <1>4, <1>5, <1>6, <1>7, Frame DEF Act

\* Every step keeps CacheOK.
LEMMA NextCacheOK ==
    TypeOK /\ TypeOK' /\ Clock /\ PickOK /\ CacheOK /\ [Next]_vars => CacheOK'
  <1> SUFFICES ASSUME TypeOK, TypeOK', Clock, PickOK, CacheOK, [Next]_vars,
                      NEW t \in Token, NEW g \in Target \cup {NoTarget},
                      cache'[<<t, g>>] # Absent, cache'[<<t, g>>].decision = "allow"
               PROVE  /\ g \in Target
                      /\ cache'[<<t, g>>].ttl = AllowTTL
                      /\ ValidSince(t, cache[<<t, g>>].at - CheckTimeout)'
                      /\ EntitledSince(g, cache[<<t, g>>].at - CheckTimeout)'
                      /\ PermittedSince(g, cache[<<t, g>>].at - CheckTimeout)'
    BY DEF CacheOK
  <1> USE PipelineAssumption
  <1> DEFINE k == <<t, g>>
  <1>1. k \in Key
    BY DEF Key
  <1>2. ASSUME cache'[k] = cache[k]
        PROVE  /\ g \in Target
               /\ cache'[<<t, g>>].ttl = AllowTTL
               /\ ValidSince(t, cache[<<t, g>>].at - CheckTimeout)'
               /\ EntitledSince(g, cache[<<t, g>>].at - CheckTimeout)'
               /\ PermittedSince(g, cache[<<t, g>>].at - CheckTimeout)'
    <2>1. PICK s \in Int : s = cache[k].at - CheckTimeout /\ s = cache'[k].at - CheckTimeout
      BY <1>1, <1>2 DEF TypeOK, Entry
    <2>2. /\ g \in Target /\ cache[k].ttl = AllowTTL
          /\ ValidSince(t, s) /\ EntitledSince(g, s) /\ PermittedSince(g, s)
      BY <1>2, <2>1 DEF CacheOK
    <2>3. ValidSince(t, s)' /\ EntitledSince(g, s)' /\ PermittedSince(g, s)'
      BY <2>2, Keeps
    <2> QED
      BY <1>2, <2>1, <2>2, <2>3 DEF ValidSince, EntitledSince, PermittedSince
  <1>3. ASSUME NEW r \in Handler, SetToken(r) PROVE cache'[k] = cache[k]
    <2>1. TokenBlockKey(r) \in Key
      BY DEF TokenBlockKey, BlockKey, Key, TypeOK
    <2> DEFINE e == [decision |-> "invalid", ttl |-> TokenBlockTTL, at |-> pick[r].at,
                     set |-> now]
    <2>2. cache'[k] \in {Absent, IF k = TokenBlockKey(r) THEN e ELSE cache[k]}
      BY <1>1, <1>3, <2>1, SetLeaves DEF SetToken, TypeOK
    <2>3. cache'[k] # e
      OBVIOUS
    <2> QED
      BY <2>2, <2>3
  <1>4. ASSUME NEW r \in Handler, SetDecision(r), cache'[k] # cache[k]
        PROVE  /\ g \in Target
               /\ cache'[<<t, g>>].ttl = AllowTTL
               /\ ValidSince(t, cache[<<t, g>>].at - CheckTimeout)'
               /\ EntitledSince(g, cache[<<t, g>>].at - CheckTimeout)'
               /\ PermittedSince(g, cache[<<t, g>>].at - CheckTimeout)'
    <2> DEFINE d == pick[r].decision
               e == [decision |-> d, ttl |-> TTL(d), at |-> pick[r].at, set |-> now]
    <2>1. RequestKey(r) \in Key
      BY DEF RequestKey, Key, TypeOK
    <2>9. Set(RequestKey(r), e) /\ cache \in [Key -> Entry \cup {Absent}]
      BY <1>4 DEF SetDecision, TypeOK
    <2>10. cache'[k] \in {Absent, IF k = RequestKey(r) THEN e ELSE cache[k]}
      BY <1>1, <2>1, <2>9, SetLeaves
    <2>2. cache'[k] = e /\ k = RequestKey(r)
      BY <1>4, <2>10
    <2>3. t = req[r].token /\ g = req[r].target
      BY <2>2 DEF RequestKey
    <2>4. d = "allow" /\ cache'[k].ttl = AllowTTL /\ cache'[k].at = pick[r].at
      BY <2>2 DEF TTL
    <2>5. g \in Target /\ pc[r] = "set"
      BY <1>4, <2>3 DEF SetDecision, TypeOK
    <2>6. PICK s \in Int : s = pick[r].at - CheckTimeout /\ s = cache'[k].at - CheckTimeout
      BY <2>4 DEF TypeOK
    <2>7. ValidSince(t, s) /\ EntitledSince(g, s) /\ PermittedSince(g, s)
      BY <2>3, <2>4, <2>5, <2>6 DEF PickOK
    <2>8. ValidSince(t, s)' /\ EntitledSince(g, s)' /\ PermittedSince(g, s)'
      BY <2>5, <2>7, Keeps
    <2> QED
      BY <2>4, <2>5, <2>6, <2>8 DEF ValidSince, EntitledSince, PermittedSince
  <1>5. CASE Sweep
    BY <1>1, <1>2, <1>5 DEF Sweep, Keep
  <1>6. CASE Crash
    BY <1>1, <1>6 DEF Crash
  <1>7. CASE UNCHANGED <<cache, barred, floor>>
    BY <1>2, <1>7
  <1> QED
    BY <1>2, <1>3, <1>4, <1>5, <1>6, <1>7, CacheStep

\* Every step keeps the invariant of the ages.
LEMMA NextRecentInv == RecentInv /\ [Next]_vars => RecentInv'
  <1> SUFFICES ASSUME RecentInv, [Next]_vars PROVE RecentInv'
    OBVIOUS
  <1>1. TypeOK'
    BY NextTypeOK DEF RecentInv
  <1> QED
    BY <1>1, NextDecided, NextClock, NextCheckOK, NextPickOK, NextCacheOK DEF RecentInv

(***************************************************************************)
(* Every handler, the cache and the control plane keep their types: no     *)
(* entry without a decision or with a negative TTL enters the cache.       *)
(***************************************************************************)
THEOREM TypeCorrect == Spec => []TypeOK
  <1>1. RecentInv => TypeOK
    BY DEF RecentInv
  <1> QED
    BY <1>1, InitRecentInv, NextRecentInv, PTL DEF Spec

\* A step that decides to allow rests on recent facts.
LEMMA StepIsRecent ==
    ASSUME RecentInv, [Next]_vars, NEW q \in Handler,
           pick'[q].decision = "allow", pick[q].decision # "allow"
    PROVE  LET age == CheckTimeout + IF pick'[q].cached THEN AllowTTL ELSE 0
               h   == req[q].target
           IN  /\ now - LastValid(req[q].token) <= age
               /\ now - LastEntitled(h) <= age
               /\ h \in Artifact => /\ policy[h] = "allow" \/ permittedUntil[h] >= 0
                                    /\ now - LastPermitted(h) <= age
  <1> USE PipelineAssumption DEF RecentInv
  <1>1. PICK t \in Token, g \in Target : t = req[q].token /\ g = req[q].target
    BY DEF TypeOK
  <1>2. /\ LastValid(t) \in Int /\ LastEntitled(g) \in Int /\ now \in Int
        /\ g \in Artifact => LastPermitted(g) \in Int
    BY DEF TypeOK, LastValid, LastEntitled, LastPermitted
  <1>3. CASE Lookup(q)
    <2> DEFINE e == cache[<<t, g>>]
    <2>1. LookupHit(q)
      BY <1>3, LookupCases DEF LookupMiss
    <2>2. e # Absent /\ e.decision = "allow" /\ Fresh(e) /\ <<t, g>> \in Key
      BY <1>1, <2>1 DEF LookupHit, Hit, RequestKey, TypeOK, Key
    <2>3. e.at \in Nat /\ now - e.at <= AllowTTL
      BY <2>2 DEF CacheOK, Fresh, TypeOK, Entry
    <2>4. /\ LastValid(t) >= e.at - CheckTimeout /\ LastEntitled(g) >= e.at - CheckTimeout
          /\ g \in Artifact => /\ LastPermitted(g) >= e.at - CheckTimeout
                               /\ policy[g] = "allow" \/ permittedUntil[g] >= 0
      BY <2>2 DEF CacheOK, ValidSince, EntitledSince, PermittedSince
    <2>5. pick'[q].cached
      BY <2>1 DEF LookupHit, TypeOK
    <2> QED
      BY <1>1, <1>2, <2>3, <2>4, <2>5
  <1>4. CASE CheckReturns(q)
    <2>1. answer[q] = "allow" /\ pc[q] = "answered" /\ since[q] \in Int
      BY <1>4 DEF CheckReturns, TypeOK
    <2>2. pick'[q].cached = FALSE
      BY <1>4 DEF CheckReturns, TypeOK
    <2>3. now - since[q] <= CheckTimeout
      BY <2>1 DEF Clock, InCheck
    <2>4. /\ LastValid(t) >= since[q] /\ LastEntitled(g) >= since[q]
          /\ g \in Artifact => /\ LastPermitted(g) >= since[q]
                               /\ policy[g] = "allow" \/ permittedUntil[g] >= 0
      BY <1>1, <2>1 DEF CheckOK, ValidSince, EntitledSince, PermittedSince
    <2> QED
      BY <1>1, <1>2, <2>1, <2>2, <2>3, <2>4
  <1>5. ~Same(q)
    BY DEF Same
  <1>6. ~Crash
    BY DEF Crash, NoPick
  <1>7. Lookup(q) \/ CheckReturns(q)
    <2>1. Act(q)
      BY <1>5, <1>6, Frame
    <2> QED
      BY <2>1
         DEF Act, Step, Arrive, CheckToken, CheckEntitlement, CheckPolicy, TokenLookup,
             CheckFails, SetToken,
             SetDecision, Audit, Serve, RecordAllow, ControlPlaneUnavailable, TypeOK, NoPick
  <1> QED
    BY <1>3, <1>4, <1>7

(***************************************************************************)
(* No handler ever allows a request on a decision older than the cache's   *)
(* TTL and one Check's timeout: neither Checks that overtake each other    *)
(* nor the eviction of entries nor a crash lets an older one through.      *)
(***************************************************************************)
THEOREM AllowsAreRecent == Spec => AllowIsRecent
  <1> DEFINE Recent ==
        \A r \in Handler :
           pick'[r].decision = "allow" /\ pick[r].decision # "allow" =>
              LET age == CheckTimeout + IF pick'[r].cached THEN AllowTTL ELSE 0
                  g   == req[r].target
              IN  /\ now - LastValid(req[r].token) <= age
                  /\ now - LastEntitled(g) <= age
                  /\ g \in Artifact => /\ policy[g] = "allow" \/ permittedUntil[g] >= 0
                                       /\ now - LastPermitted(g) <= age
  <1>1. RecentInv /\ [Next]_vars => [Recent]_vars
    BY StepIsRecent
  <1>2. AllowIsRecent <=> [][Recent]_vars
    BY DEF AllowIsRecent
  <1> QED
    BY <1>1, <1>2, InitRecentInv, NextRecentInv, PTL DEF Spec

-----------------------------------------------------------------------------
(***************************************************************************)
(* Revocation.  The block entry of a token is stamped after the token was  *)
(* revoked and, unless it is evicted, hides every allow for TokenBlockTTL  *)
(* from then on; an allow is stamped at most CheckTimeout after.           *)
(***************************************************************************)

\* The block entry of a barred token is there until it has expired.
BarredOK ==
    \A t \in barred :
        /\ t \notin valid
        /\ now <= validUntil[t] + TokenBlockTTL => cache[BlockKey(t)] # Absent

BlockEntryOK ==
    \A t \in Token :
        cache[BlockKey(t)] # Absent =>
           /\ t \notin valid
           /\ cache[BlockKey(t)].ttl = TokenBlockTTL
           /\ cache[BlockKey(t)].at >= validUntil[t]

InvalidOK ==
    \A r \in Handler :
        /\ pc[r] = "answered" /\ answer[r] = "invalid" => req[r].token \notin valid
        /\ pc[r] = "setToken" =>
              /\ req[r].token \notin valid
              /\ pick[r].at >= validUntil[req[r].token]

WarnedOK ==
    \A r \in Handler :
        warned[r] =>
           /\ req[r].token \notin valid
           /\ pc[r] = "lookup" => now > validUntil[req[r].token] + TokenBlockTTL
           /\ pc[r] \notin {"context", "policy"}
           /\ pc[r] = "answered" => answer[r] # "allow"

RevokedInv == BarredOK /\ BlockEntryOK /\ InvalidOK /\ WarnedOK

\* Once revoked, a token stays so, and the time of it stays.
LEMMA StaysRevoked ==
    ASSUME TypeOK, [Next]_vars, NEW t \in Token, t \notin valid
    PROVE  t \notin valid' /\ validUntil'[t] = validUntil[t]
  <1>1. ASSUME NEW u \in Token, RevokeToken(u)
        PROVE  t \notin valid' /\ validUntil'[t] = validUntil[t]
    BY <1>1 DEF RevokeToken, TypeOK
  <1>2. UNCHANGED <<valid, validUntil>> \/ \E u \in Token : RevokeToken(u)
    BY DEF Next, Step, Environment, vars, cpVars, Arrive, TokenLookup, Lookup, CheckToken,
           CheckEntitlement, CheckPolicy, CheckReturns, CheckFails, SetToken, SetDecision, Audit, Serve,
           RecordAllow, ControlPlaneUnavailable, ChangeEntitlement, ChangePolicy, Tick, Sweep, Crash
  <1> QED
    BY <1>1, <1>2

\* Every step keeps InvalidOK.
LEMMA NextInvalidOK ==
    TypeOK /\ TypeOK' /\ Decided /\ Clock /\ InvalidOK /\ [Next]_vars => InvalidOK'
  <1> SUFFICES ASSUME TypeOK, TypeOK', Decided, Clock, InvalidOK, [Next]_vars, NEW q \in Handler
               PROVE  /\ pc'[q] = "answered" /\ answer'[q] = "invalid" => req'[q].token \notin valid'
                      /\ pc'[q] = "setToken" =>
                            /\ req'[q].token \notin valid'
                            /\ pick'[q].at >= validUntil'[req'[q].token]
    BY DEF InvalidOK
  <1> USE DEF cpVars
  <1>1. CASE Same(q)
    <2>1. PICK t \in Token : t = req[q].token /\ t = req'[q].token
      BY <1>1 DEF Same, TypeOK
    <2> QED
      BY <1>1, <2>1, StaysRevoked DEF Same, InvalidOK
  <1>2. CASE CheckToken(q)
    BY <1>2 DEF CheckToken, TypeOK
  <1>3. CASE CheckEntitlement(q)
    BY <1>3 DEF CheckEntitlement, TypeOK
  <1>9. CASE CheckPolicy(q)
    BY <1>9 DEF CheckPolicy, TypeOK, Decided, Verdict
  <1>4. CASE CheckReturns(q)
    BY <1>4 DEF CheckReturns, TypeOK, InvalidOK, Clock
  <1>5. CASE Crash
    BY <1>5 DEF Crash
  <1>6. CASE \E t \in Token, g \in Target : Arrive(q, t, g)
    BY <1>6 DEF Arrive, TypeOK
  <1>7. CASE Lookup(q)
    <2>1. pc'[q] \in {"audit", "check"}
      BY <1>7, LookupCases DEF LookupHit, LookupMiss, TypeOK
    <2> QED
      BY <2>1
  <1>8. CASE Step(q) /\ ~Lookup(q) /\ ~CheckReturns(q)
    BY <1>8
       DEF Step, TokenLookup, CheckFails, SetToken, SetDecision, Audit, Serve, RecordAllow,
           ControlPlaneUnavailable, Finish, TypeOK
  <1> QED
    BY <1>1, <1>2, <1>3, <1>4, <1>5, <1>6, <1>7, <1>8, <1>9, Frame DEF Act

\* What a Set does to the block entry of token t: x is what the store held
\* before the bound was enforced.
LEMMA SetBlock ==
    ASSUME TypeOK, NEW k \in Key, NEW e \in Entry, Set(k, e), NEW t \in Token,
           NEW x, x = IF BlockKey(t) = k THEN e ELSE cache[BlockKey(t)]
    PROVE  /\ cache'[BlockKey(t)] \in {Absent, x}
           /\ t \in barred' => /\ t \in barred \/ k = BlockKey(t)
                               /\ x = Absent \/ ~Fresh(x) \/ cache'[BlockKey(t)] # Absent
  <1>1. BlockKey(t) \in Key
    BY DEF BlockKey, Key
  <1>2. cache \in [Key -> Entry \cup {Absent}]
    BY DEF TypeOK
  <1>3. [cache EXCEPT ![k] = e][BlockKey(t)] = x
    BY <1>1, <1>2
  <1>4. cache'[BlockKey(t)] \in {Absent, x}
    BY <1>1, <1>2, SetLeaves
  <1>5. ASSUME t \in barred'
        PROVE  /\ t \in barred \/ k = BlockKey(t)
               /\ x = Absent \/ ~Fresh(x) \/ cache'[BlockKey(t)] # Absent
    BY <1>3, <1>5 DEF Set
  <1> QED
    BY <1>4, <1>5

\* What happens to the block entry of token t: x is what the store held before
\* expired or surplus entries were dropped from it.
BlockStep(t, x) ==
    /\ cache'[BlockKey(t)] \in {Absent, x}
    /\ t \in barred' => x = Absent \/ ~Fresh(x) \/ cache'[BlockKey(t)] # Absent

\* A step leaves the block entry of t alone, drops it or writes it, or crashes.
LEMMA BlockEntrySteps ==
    ASSUME TypeOK, Decided, [Next]_vars, NEW t \in Token
    PROVE  \/ BlockStep(t, cache[BlockKey(t)]) /\ (t \in barred' => t \in barred)
           \/ \E r \in Handler :
                 /\ pc[r] = "setToken" /\ req[r].token = t
                 /\ BlockStep(t, [decision |-> "invalid", ttl |-> TokenBlockTTL,
                                  at |-> pick[r].at, set |-> now])
                 /\ UNCHANGED <<now, valid, validUntil>>
           \/ Crash
  <1> USE PipelineAssumption
  <1>1. BlockKey(t) \in Key
    BY DEF BlockKey, Key
  <1>2. ASSUME NEW r \in Handler, SetToken(r)
        PROVE  \/ BlockStep(t, cache[BlockKey(t)]) /\ (t \in barred' => t \in barred)
               \/ /\ pc[r] = "setToken" /\ req[r].token = t
                  /\ BlockStep(t, [decision |-> "invalid", ttl |-> TokenBlockTTL,
                                   at |-> pick[r].at, set |-> now])
                  /\ UNCHANGED <<now, valid, validUntil>>
    <2>1. PICK e : e = [decision |-> "invalid", ttl |-> TokenBlockTTL, at |-> pick[r].at,
                        set |-> now]
      OBVIOUS
    <2>2. e \in Entry /\ TokenBlockKey(r) \in Key
      BY <2>1 DEF TypeOK, Entry, Decision, TokenBlockKey, BlockKey, Key
    <2>3. Set(TokenBlockKey(r), e)
      BY <1>2, <2>1 DEF SetToken
    <2>4. CASE req[r].token = t
      <3>1. TokenBlockKey(r) = BlockKey(t)
        BY <2>4 DEF TokenBlockKey
      <3>2. BlockStep(t, e)
        BY <2>2, <2>3, <3>1, SetBlock DEF BlockStep
      <3> QED
        BY <1>2, <2>1, <2>4, <3>2 DEF SetToken, cpVars
    <2>5. CASE req[r].token # t
      <3>1. TokenBlockKey(r) # BlockKey(t)
        BY <2>5 DEF TokenBlockKey, BlockKey
      <3> QED
        BY <2>2, <2>3, <3>1, SetBlock DEF BlockStep
    <2> QED
      BY <2>4, <2>5
  <1>3. ASSUME NEW r \in Handler, SetDecision(r)
        PROVE  BlockStep(t, cache[BlockKey(t)]) /\ (t \in barred' => t \in barred)
    <2>1. RequestKey(r) \in Key /\ RequestKey(r) # BlockKey(t)
      BY DEF RequestKey, BlockKey, Key, TypeOK
    <2>2. PICK e : e = [decision |-> pick[r].decision, ttl |-> TTL(pick[r].decision),
                        at |-> pick[r].at, set |-> now]
      OBVIOUS
    <2>3. e \in Entry
      BY <1>3, <2>2 DEF SetDecision, Decided, TypeOK, Entry, TTL
    <2>4. Set(RequestKey(r), e)
      BY <1>3, <2>2 DEF SetDecision
    <2> QED
      BY <2>1, <2>3, <2>4, SetBlock DEF BlockStep
  <1>4. CASE Sweep
    <2>1. /\ cache'[BlockKey(t)] = IF Hit(BlockKey(t)) THEN cache[BlockKey(t)] ELSE Absent
          /\ barred' = barred
      BY <1>1, <1>4 DEF Sweep, Keep
    <2> QED
      BY <2>1 DEF BlockStep, Hit
  <1>5. CASE UNCHANGED <<cache, barred, floor>>
    BY <1>5 DEF BlockStep
  <1> QED
    BY <1>2, <1>3, <1>4, <1>5, CacheStep

\* Every step keeps BarredOK and BlockEntryOK.
LEMMA NextBlocks ==
    ASSUME TypeOK, TypeOK', Decided, Clock, RevokedInv, [Next]_vars
    PROVE  BarredOK' /\ BlockEntryOK'
  <1> SUFFICES ASSUME NEW t \in Token
               PROVE  /\ t \in barred' =>
                            /\ t \notin valid'
                            /\ now' <= validUntil'[t] + TokenBlockTTL
                                  => cache'[BlockKey(t)] # Absent
                      /\ cache'[BlockKey(t)] # Absent =>
                            /\ t \notin valid'
                            /\ cache'[BlockKey(t)].ttl = TokenBlockTTL
                            /\ cache'[BlockKey(t)].at >= validUntil'[t]
    BY DEF BarredOK, BlockEntryOK, BlockKey, TypeOK
  <1> USE PipelineAssumption DEF RevokedInv
  <1>0. /\ now \in Nat /\ now' \in Nat /\ now' >= now
        /\ validUntil[t] \in Int /\ validUntil'[t] \in Int
    BY NowStep DEF TypeOK, Tick
  <1>1. BlockKey(t) \in Key
    BY DEF BlockKey, Key
  <1>2. CASE BlockStep(t, cache[BlockKey(t)]) /\ (t \in barred' => t \in barred)
    <2>1. cache[BlockKey(t)] # Absent =>
             /\ cache[BlockKey(t)].at \in Nat
             /\ t \notin valid
             /\ cache[BlockKey(t)].ttl = TokenBlockTTL
             /\ cache[BlockKey(t)].at >= validUntil[t]
      BY <1>1 DEF TypeOK, Entry, BlockEntryOK
    <2>2. cache[BlockKey(t)] # Absent /\ ~Fresh(cache[BlockKey(t)]) =>
             now > validUntil[t] + TokenBlockTTL
      BY <1>0, <2>1 DEF Fresh
    <2>3. t \in barred' => /\ t \notin valid
                           /\ now <= validUntil[t] + TokenBlockTTL
                                 => cache'[BlockKey(t)] # Absent
      BY <1>0, <1>2, <2>2 DEF BlockStep, BarredOK
    <2>4. t \notin valid => t \notin valid' /\ validUntil'[t] = validUntil[t]
      BY StaysRevoked
    <2> QED
      BY <1>0, <1>2, <2>1, <2>3, <2>4 DEF BlockStep
  <1>3. ASSUME NEW r \in Handler, pc[r] = "setToken", req[r].token = t,
               BlockStep(t, [decision |-> "invalid", ttl |-> TokenBlockTTL,
                             at |-> pick[r].at, set |-> now]),
               UNCHANGED <<now, valid, validUntil>>
        PROVE  /\ t \in barred' =>
                     /\ t \notin valid'
                     /\ now' <= validUntil'[t] + TokenBlockTTL => cache'[BlockKey(t)] # Absent
               /\ cache'[BlockKey(t)] # Absent =>
                     /\ t \notin valid'
                     /\ cache'[BlockKey(t)].ttl = TokenBlockTTL
                     /\ cache'[BlockKey(t)].at >= validUntil'[t]
    <2>1. PICK x : x = [decision |-> "invalid", ttl |-> TokenBlockTTL, at |-> pick[r].at,
                        set |-> now]
      OBVIOUS
    <2>2. x \in Entry /\ x.ttl = TokenBlockTTL /\ x.at = pick[r].at /\ pick[r].at \in Nat
      BY <2>1 DEF Entry, TypeOK, Decision
    <2>3. t \notin valid /\ x.at >= validUntil[t]
      BY <1>3, <2>2 DEF InvalidOK
    <2>4. ~Fresh(x) => now > validUntil[t] + TokenBlockTTL
      BY <1>0, <2>2, <2>3 DEF Fresh
    <2>5. BlockStep(t, x)
      BY <1>3, <2>1
    <2> QED
      BY <1>0, <1>3, <2>2, <2>3, <2>4, <2>5 DEF BlockStep
  <1>5. CASE Crash
    BY <1>1, <1>5 DEF Crash
  <1> QED
    BY <1>2, <1>3, <1>5, BlockEntrySteps

\* Every step keeps WarnedOK.
LEMMA NextWarnedOK ==
    ASSUME RecentInv, RevokedInv, TypeOK', [Next]_vars
    PROVE  WarnedOK'
  <1> SUFFICES ASSUME NEW q \in Handler, warned'[q]
               PROVE  /\ req'[q].token \notin valid'
                      /\ pc'[q] = "lookup" => now' > validUntil'[req'[q].token] + TokenBlockTTL
                      /\ pc'[q] \notin {"context", "policy"}
                      /\ pc'[q] = "answered" => answer'[q] # "allow"
    BY DEF WarnedOK
  <1> USE PipelineAssumption DEF RecentInv, RevokedInv
  <1>1. /\ req[q].token \in Token /\ req[q].target \in Target /\ BlockKey(req[q].token) \in Key
    BY DEF TypeOK, BlockKey, Key
  <1>2. /\ now \in Nat /\ now' \in Nat /\ now' >= now
        /\ \A t \in Token : validUntil[t] \in Int
    BY NowStep DEF TypeOK, Tick
  <1>4. ~Crash
    <2> SUFFICES ASSUME Crash PROVE FALSE
      OBVIOUS
    <2>1. warned'[q] = FALSE
      BY DEF Crash
    <2> QED
      BY <2>1
  <1>5. CASE Same(q)
    <2>1. warned[q] /\ req[q].token \notin valid
      BY <1>5 DEF Same, WarnedOK
    <2>2. /\ req[q].token \notin valid'
          /\ validUntil'[req[q].token] = validUntil[req[q].token]
      BY <1>1, <2>1, StaysRevoked
    <2> QED
      BY <1>1, <1>2, <1>5, <2>1, <2>2 DEF Same, WarnedOK
  <1>6. ASSUME NEW t \in Token, NEW g \in Target, Arrive(q, t, g) PROVE FALSE
    <2>1. warned' = [warned EXCEPT ![q] = FALSE] /\ warned \in [Handler -> BOOLEAN]
      BY <1>6 DEF Arrive, TypeOK
    <2>2. warned'[q] = FALSE
      BY <2>1, Zenon
    <2> QED
      BY <2>2
  <1>8. CASE TokenLookup(q)
    <2>1. req[q].token \in barred
      <3>1. /\ warned' = [warned EXCEPT ![q] = req[q].token \in barred]
            /\ warned \in [Handler -> BOOLEAN]
        BY <1>8 DEF TokenLookup, TypeOK
      <3>2. warned'[q] = (req[q].token \in barred)
        BY <3>1, Zenon
      <3> QED
        BY <3>2
    <2>2. req[q].token \notin valid /\ UNCHANGED <<now, valid, validUntil, req>>
      BY <1>8, <2>1 DEF BarredOK, TokenLookup, cpVars
    <2>3. CASE Hit(TokenBlockKey(q))
      <3>1. pc'[q] = "idle"
        BY <1>8, <2>3 DEF TokenLookup, Finish, TypeOK
      <3> QED
        BY <2>2, <3>1
    <2>4. CASE ~Hit(TokenBlockKey(q))
      <3>1. pc'[q] = "lookup"
        BY <1>8, <2>4 DEF TokenLookup, TypeOK
      <3>2. cache[BlockKey(req[q].token)] # Absent =>
               cache[BlockKey(req[q].token)].at \in Nat
        BY <1>1 DEF TypeOK, Entry
      <3>3. now > validUntil[req[q].token] + TokenBlockTTL
        BY <1>1, <1>2, <2>1, <2>4, <3>2 DEF BarredOK, BlockEntryOK, Hit, Fresh, TokenBlockKey
      <3> QED
        BY <2>2, <3>1, <3>3
    <2> QED
      BY <2>3, <2>4
  <1>7. ASSUME Step(q) \/ CheckToken(q) \/ CheckEntitlement(q) \/ CheckPolicy(q), ~TokenLookup(q)
        PROVE  /\ warned[q] /\ UNCHANGED <<now, cpVars, req>>
               /\ req[q].token \notin valid /\ req'[q].token \notin valid'
    <2>1. UNCHANGED <<warned, req, now, cpVars>>
      BY <1>7
         DEF Step, CheckToken, CheckEntitlement, CheckPolicy, Lookup,
             CheckReturns, CheckFails,
             SetToken, SetDecision, Audit, Serve, RecordAllow, ControlPlaneUnavailable
    <2>2. warned[q] /\ req[q].token \notin valid
      BY <2>1 DEF WarnedOK
    <2> QED
      BY <2>1, <2>2 DEF cpVars
  <1>9. CASE Lookup(q)
    <2>1. pc'[q] \in {"audit", "check"}
      BY <1>9, LookupGoes
    <2>2. ~TokenLookup(q)
      BY <1>9 DEF Lookup, TokenLookup
    <2> QED
      BY <1>7, <1>9, <2>1, <2>2 DEF Step
  <1>10. CASE CheckToken(q)
    <2>1. ~TokenLookup(q)
      BY <1>10 DEF CheckToken, TokenLookup
    <2> QED
      BY <1>7, <1>10, <2>1 DEF CheckToken, TypeOK
  <1>11. CASE CheckEntitlement(q) \/ CheckPolicy(q)
    <2>1. ~TokenLookup(q) /\ pc[q] \in {"context", "policy"}
      BY <1>11 DEF CheckEntitlement, CheckPolicy, TokenLookup
    <2> QED
      BY <1>7, <1>11, <2>1 DEF WarnedOK
  <1>13. CASE Step(q) /\ ~TokenLookup(q) /\ ~Lookup(q)
    <2>2. pc'[q] \notin {"lookup", "context", "policy", "answered"}
      BY <1>13
         DEF Step, CheckReturns, CheckFails, SetToken, SetDecision, Audit, Serve, RecordAllow,
             ControlPlaneUnavailable, Finish, TypeOK
    <2> QED
      BY <1>7, <1>13, <2>2
  <1> QED
    BY <1>4, <1>5, <1>6, <1>8, <1>9, <1>10, <1>11, <1>13, Frame DEF Act

\* The invariant of revocation holds at the start.
LEMMA InitRevokedInv == Init => RevokedInv
  <1> SUFFICES ASSUME Init PROVE RevokedInv
    OBVIOUS
  <1>1. BarredOK
    BY DEF Init, BarredOK
  <1>2. BlockEntryOK
    BY DEF Init, BlockEntryOK, BlockKey, Key
  <1>3. InvalidOK
    BY DEF Init, InvalidOK
  <1>4. WarnedOK
    <2>1. \A r \in Handler : ~warned[r]
      BY DEF Init
    <2> QED
      BY <2>1 DEF WarnedOK
  <1> QED
    BY <1>1, <1>2, <1>3, <1>4 DEF RevokedInv

\* Every step keeps both invariants.
LEMMA NextRevokedInv == RecentInv /\ RevokedInv /\ [Next]_vars => (RecentInv /\ RevokedInv)'
  <1> SUFFICES ASSUME RecentInv, RevokedInv, [Next]_vars PROVE RecentInv' /\ RevokedInv'
    OBVIOUS
  <1>1. RecentInv' /\ TypeOK'
    BY NextRecentInv DEF RecentInv
  <1>2. BarredOK' /\ BlockEntryOK'
    BY <1>1, NextBlocks DEF RecentInv
  <1>3. InvalidOK'
    BY <1>1, NextInvalidOK DEF RecentInv, RevokedInv
  <1>4. WarnedOK'
    BY <1>1, NextWarnedOK
  <1> QED
    BY <1>1, <1>2, <1>3, <1>4 DEF RevokedInv

\* A step that allows a request with a barred token is within the window.
LEMMA StepInWindow ==
    ASSUME RecentInv, RevokedInv, [Next]_vars, NEW q \in Handler, warned[q],
           pick'[q].decision = "allow", pick[q].decision # "allow"
    PROVE  LET revoked == validUntil[req[q].token]
           IN  /\ pick'[q].cached
               /\ now > revoked + TokenBlockTTL
               /\ now <= revoked + AllowTTL + CheckTimeout
  <1> USE PipelineAssumption DEF RecentInv, RevokedInv
  <1>1. PICK t \in Token : t = req[q].token
    BY DEF TypeOK
  <1>2. now \in Int /\ validUntil[t] \in Int /\ t \notin valid
    BY <1>1 DEF TypeOK, WarnedOK
  <1>3. LastValid(t) = validUntil[t]
    BY <1>2 DEF LastValid
  <1>4. now - LastValid(req[q].token) <= CheckTimeout + IF pick'[q].cached THEN AllowTTL ELSE 0
    BY StepIsRecent
  <1>5. Lookup(q)
    <2>1. ~Same(q)
      BY DEF Same
    <2>4. ~Crash
      BY DEF Crash, NoPick
    <2>5. Act(q)
      BY <2>1, <2>4, Frame
    <2>2. Lookup(q) \/ CheckReturns(q)
      BY <2>5
         DEF Act, Step, Arrive, CheckToken, CheckEntitlement, CheckPolicy, TokenLookup,
             CheckFails, SetToken,
             SetDecision, Audit, Serve, RecordAllow, ControlPlaneUnavailable, TypeOK, NoPick
    <2>3. ~CheckReturns(q)
      BY DEF CheckReturns, WarnedOK, TypeOK
    <2> QED
      BY <2>2, <2>3
  <1>6. LookupHit(q) /\ pc[q] = "lookup"
    BY <1>5, LookupCases DEF LookupMiss, Lookup
  <1>7. pick'[q].cached
    BY <1>6 DEF LookupHit, TypeOK
  <1>8. now > validUntil[t] + TokenBlockTTL
    BY <1>1, <1>6 DEF WarnedOK
  <1>9. now - validUntil[t] <= CheckTimeout + AllowTTL
    BY <1>1, <1>3, <1>4, <1>7
  <1> QED
    BY <1>1, <1>2, <1>7, <1>8, <1>9

(***************************************************************************)
(* Whatever the TTLs, the timeout and the size of the cache: a token that  *)
(* the proxy has found invalid, and whose block entry it has not evicted,  *)
(* is allowed again only from the cache and only within the window that    *)
(* the three durations leave open, which is empty when TokenBlockTTL is at *)
(* least AllowTTL + CheckTimeout.                                          *)
(***************************************************************************)
THEOREM ReadmissionIsBounded == Spec => ReadmissionWindow
  <1> DEFINE Windowed ==
        \A r \in Handler :
           warned[r] /\ pick'[r].decision = "allow" /\ pick[r].decision # "allow" =>
              LET revoked == validUntil[req[r].token]
              IN  /\ pick'[r].cached
                  /\ now > revoked + TokenBlockTTL
                  /\ now <= revoked + AllowTTL + CheckTimeout
  <1>1. Init => RecentInv /\ RevokedInv
    BY InitRecentInv, InitRevokedInv
  <1>2. RecentInv /\ RevokedInv /\ [Next]_vars => [Windowed]_vars
    BY StepInWindow
  <1>3. ReadmissionWindow <=> [][Windowed]_vars
    BY DEF ReadmissionWindow
  <1> QED
    BY <1>1, <1>2, <1>3, NextRevokedInv, PTL DEF Spec

-----------------------------------------------------------------------------
(***************************************************************************)
(* Eviction.  A Set that evicts a fresh entry leaves none that was set     *)
(* before it, and what is set later is younger still.                      *)
(***************************************************************************)
FloorOK ==
    /\ \A t \in Token : floor[t] <= now
    /\ \A k \in Key : cache[k] # Absent =>
          cache[k].set <= now /\ \A t \in Token : floor[t] <= cache[k].set

\* The order in which a Set evicts.
LEMMA SetEvictsOldest ==
    ASSUME NEW k, NEW e, Set(k, e), NEW c, c = [cache EXCEPT ![k] = e],
           NEW j \in Key, c[j] # Absent, Fresh(c[j]), cache'[j] = Absent,
           NEW i \in Key, cache'[i] # Absent
    PROVE  cache'[i] = c[i] /\ c[j].set <= c[i].set
  <1>1. PICK K \in SUBSET Key : EnforceMaxEntries(c, K) /\ cache' = Keep(c, K)
    BY DEF Set
  <1>2. j \notin K /\ i \in K /\ cache'[i] = c[i]
    BY <1>1 DEF Keep
  <1>3. K # Present(c)
    BY <1>2 DEF Present
  <1> QED
    BY <1>1, <1>2, <1>3 DEF EnforceMaxEntries, Present

\* A Set with the time of now keeps the floors.
LEMMA SetKeepsFloor ==
    ASSUME TypeOK, FloorOK, NEW k \in Key, NEW e \in Entry, e.set = now, Set(k, e), now' = now
    PROVE  FloorOK'
  <1>1. PICK c : c = [cache EXCEPT ![k] = e]
    OBVIOUS
  <1>2. c \in [Key -> Entry \cup {Absent}] /\ cache \in [Key -> Entry \cup {Absent}]
    BY <1>1 DEF TypeOK
  <1>3. now \in Nat /\ \A t \in Token : floor[t] \in Nat
    BY DEF TypeOK
  <1>4. ASSUME NEW i \in Key, c[i] # Absent
        PROVE  c[i].set \in Nat /\ c[i].set <= now /\ \A t \in Token : floor[t] <= c[i].set
    <2>1. CASE i = k
      <3>1. c[i].set = now
        BY <1>1, <1>2, <2>1
      <3> QED
        BY <1>3, <3>1 DEF FloorOK
    <2>2. CASE i # k
      <3>1. c[i] = cache[i]
        BY <1>1, <1>2, <2>2
      <3>2. c[i].set \in Nat
        BY <1>2, <1>4 DEF Entry
      <3> QED
        BY <1>4, <3>1, <3>2 DEF FloorOK
    <2> QED
      BY <2>1, <2>2
  <1>5. ASSUME NEW i \in Key, cache'[i] # Absent PROVE cache'[i] = c[i] /\ c[i] # Absent
    <2>1. cache'[i] \in {Absent, IF i = k THEN e ELSE cache[i]}
      BY <1>2, SetLeaves
    <2> QED
      BY <1>1, <1>2, <1>5, <2>1
  <1>6. ASSUME NEW t \in Token
        PROVE  /\ floor'[t] <= now
               /\ \A i \in Key : cache'[i] # Absent => floor'[t] <= cache'[i].set
    <2>1. BlockKey(t) \in Key
      BY DEF BlockKey, Key
    <2>2. PICK b : b = c[BlockKey(t)]
      OBVIOUS
    <2>3. floor'[t] = IF b # Absent /\ Fresh(b) /\ cache'[BlockKey(t)] = Absent
                      THEN b.set ELSE floor[t]
      BY <1>1, <2>2 DEF Set
    <2>4. CASE b # Absent /\ Fresh(b) /\ cache'[BlockKey(t)] = Absent
      <3>1. floor'[t] = b.set /\ b.set <= now
        BY <1>4, <2>1, <2>2, <2>3, <2>4
      <3>2. ASSUME NEW i \in Key, cache'[i] # Absent PROVE b.set <= cache'[i].set
        BY <1>1, <2>1, <2>2, <2>4, <3>2, SetEvictsOldest
      <3> QED
        BY <3>1, <3>2
    <2>5. CASE ~(b # Absent /\ Fresh(b) /\ cache'[BlockKey(t)] = Absent)
      <3>1. floor'[t] = floor[t]
        BY <2>3, <2>5
      <3>2. ASSUME NEW i \in Key, cache'[i] # Absent PROVE floor[t] <= cache'[i].set
        BY <1>4, <1>5, <3>2
      <3> QED
        BY <3>1, <3>2 DEF FloorOK
    <2> QED
      BY <2>4, <2>5
  <1> QED
    BY <1>4, <1>5, <1>6 DEF FloorOK

\* Every step keeps the floors.
LEMMA NextFloorOK == TypeOK /\ TypeOK' /\ Decided /\ FloorOK /\ [Next]_vars => FloorOK'
  <1> SUFFICES ASSUME TypeOK, TypeOK', Decided, FloorOK, [Next]_vars PROVE FloorOK'
    OBVIOUS
  <1>1. now \in Nat /\ now' \in Nat /\ now' >= now
    BY NowStep DEF TypeOK, Tick
  <1>2. /\ \A k \in Key : cache[k] # Absent => cache[k].set \in Nat
        /\ \A t \in Token : floor[t] \in Nat
    BY DEF TypeOK, Entry
  <1>3. CASE UNCHANGED <<cache, barred, floor>>
    BY <1>1, <1>2, <1>3 DEF FloorOK
  <1>4. ASSUME NEW r \in Handler, SetToken(r) PROVE FloorOK'
    <2>1. PICK e : e = [decision |-> "invalid", ttl |-> TokenBlockTTL, at |-> pick[r].at,
                        set |-> now]
      OBVIOUS
    <2>2. e \in Entry /\ e.set = now /\ TokenBlockKey(r) \in Key
      BY <2>1, PipelineAssumption DEF TypeOK, Entry, Decision, TokenBlockKey, BlockKey, Key
    <2> QED
      BY <1>4, <2>1, <2>2, SetKeepsFloor DEF SetToken
  <1>5. ASSUME NEW r \in Handler, SetDecision(r) PROVE FloorOK'
    <2>1. PICK e : e = [decision |-> pick[r].decision, ttl |-> TTL(pick[r].decision),
                        at |-> pick[r].at, set |-> now]
      OBVIOUS
    <2>2. e \in Entry /\ e.set = now /\ RequestKey(r) \in Key
      BY <1>5, <2>1, PipelineAssumption
         DEF SetDecision, Decided, TypeOK, Entry, TTL, RequestKey, Key
    <2> QED
      BY <1>5, <2>1, <2>2, SetKeepsFloor DEF SetDecision
  <1>6. CASE Sweep
    <2>1. /\ \A k \in Key : cache'[k] \in {Absent, cache[k]}
          /\ UNCHANGED <<now, floor>>
      BY <1>6 DEF Sweep, Keep
    <2> QED
      BY <2>1 DEF FloorOK
  <1>7. CASE Crash
    BY <1>1, <1>7 DEF Crash, FloorOK
  <1> QED
    BY <1>3, <1>4, <1>5, <1>6, <1>7, CacheStep

(***************************************************************************)
(* For a cache of any size and any traffic, the entry that blocks a token  *)
(* is never evicted before an allow of that token that was cached earlier. *)
(***************************************************************************)
THEOREM BlocksOutliveOlderAllows == Spec => []EvictionOrder
  <1>1. Init => RecentInv /\ FloorOK
    <2> SUFFICES ASSUME Init PROVE RecentInv /\ FloorOK
      OBVIOUS
    <2>1. FloorOK
      BY DEF Init, FloorOK
    <2> QED
      BY <2>1, InitRecentInv
  <1>2. RecentInv /\ FloorOK /\ [Next]_vars => (RecentInv /\ FloorOK)'
    BY NextRecentInv, NextFloorOK DEF RecentInv
  <1>3. RecentInv /\ FloorOK => EvictionOrder
    <2> SUFFICES ASSUME RecentInv, FloorOK, NEW t \in Token, NEW g \in Target,
                        cache[<<t, g>>] # Absent
                 PROVE  cache[<<t, g>>].set >= floor[t]
      BY DEF EvictionOrder
    <2>1. <<t, g>> \in Key
      BY DEF Key
    <2>2. cache[<<t, g>>].set \in Nat /\ floor[t] \in Nat
      BY <2>1 DEF RecentInv, TypeOK, Entry
    <2> QED
      BY <2>1, <2>2 DEF FloorOK
  <1> QED
    BY <1>1, <1>2, <1>3, PTL DEF Spec

-----------------------------------------------------------------------------
(***************************************************************************)
(* The audit trail.                                                        *)
(***************************************************************************)
Unanswered == InCheck \cup {"tokenLookup", "lookup", "setToken", "set", "audit", "unavailable"}

TrailOK ==
    \A r \in Handler :
        /\ pc[r] \in Unanswered => reply[r] = "none" /\ event[r] = NoEvent
        /\ pc[r] \in {"setToken", "set"} => ~pick[r].cached
        /\ pc[r] = "serve" =>
              /\ reply[r] = "none" /\ pick[r].decision = "allow"
              /\ event[r].type # "upstream_error" /\ event[r].decision # "block"
              /\ pick[r].cached => event[r].decision = "allow"
        /\ pc[r] = "record" =>
              /\ Served(r) /\ pick[r].decision = "allow"
              /\ ~pick[r].cached

AuditInv == TypeOK /\ Decided /\ TrailOK /\ AuditTrail

\* Every step keeps the audit trail.
LEMMA NextAuditInv == AuditInv /\ [Next]_vars => TrailOK' /\ AuditTrail'
  <1> SUFFICES ASSUME AuditInv, [Next]_vars, NEW q \in Handler
               PROVE  /\ pc'[q] \in Unanswered => reply'[q] = "none" /\ event'[q] = NoEvent
                      /\ pc'[q] \in {"setToken", "set"} => ~pick'[q].cached
                      /\ pc'[q] = "serve" =>
                            /\ reply'[q] = "none" /\ pick'[q].decision = "allow"
                            /\ event'[q].type # "upstream_error" /\ event'[q].decision # "block"
                            /\ pick'[q].cached => event'[q].decision = "allow"
                      /\ pc'[q] = "record" =>
                            /\ Served(q)' /\ pick'[q].decision = "allow"
                            /\ ~pick'[q].cached
                      /\ reply'[q] = "forbidden" => event'[q].decision = "block"
                      /\ Served(q)' /\ pick'[q].cached => event'[q].decision = "allow"
                      /\ reply'[q] = "auditUnavailable" => event'[q] = NoEvent
                      /\ event'[q].decision = "block" => ~Served(q)'
                      /\ event'[q].type = "upstream_error" => reply'[q] = "upstreamError"
    BY DEF TrailOK, AuditTrail
  <1> USE DEF AuditInv, NoEvent, Served
  <1>1. CASE Same(q)
    BY <1>1 DEF Same, TrailOK, AuditTrail
  <1>2. CASE Crash
    BY <1>2 DEF Crash, Unanswered, InCheck
  <1>3. CASE \E t \in Token, g \in Target : Arrive(q, t, g)
    BY <1>3 DEF Arrive, TypeOK
  <1>4. CASE TokenLookup(q)
    BY <1>4 DEF TokenLookup, Finish, TypeOK, TrailOK, Unanswered, InCheck
  <1>5. CASE Lookup(q)
    BY <1>5, LookupCases DEF Lookup, LookupHit, LookupMiss, TypeOK, TrailOK, Unanswered, InCheck
  <1>6. CASE CheckToken(q) \/ CheckEntitlement(q) \/ CheckPolicy(q)
    BY <1>6 DEF CheckToken, CheckEntitlement, CheckPolicy, TypeOK, TrailOK, Unanswered, InCheck
  <1>7. CASE CheckReturns(q) \/ CheckFails(q)
    BY <1>7 DEF CheckReturns, CheckFails, TypeOK, TrailOK, Unanswered, InCheck
  <1>8. CASE SetToken(q)
    BY <1>8 DEF SetToken, TypeOK, TrailOK, Unanswered, InCheck
  <1>9. CASE SetDecision(q)
    BY <1>9 DEF SetDecision, TypeOK, TrailOK, Unanswered, InCheck
  <1>10. CASE Audit(q)
    BY <1>10 DEF Audit, Finish, PolicyEvent, EventType, TypeOK, TrailOK, Unanswered, InCheck
  <1>11. CASE Serve(q)
    BY <1>11 DEF Serve, Finish, TypeOK, TrailOK, Unanswered, InCheck
  <1>12. CASE RecordAllow(q)
    BY <1>12 DEF RecordAllow, PolicyEvent, EventType, TypeOK, TrailOK, AuditTrail, Unanswered, InCheck
  <1>13. CASE ControlPlaneUnavailable(q)
    BY <1>13 DEF ControlPlaneUnavailable, Finish, EventType, TypeOK, TrailOK, Unanswered, InCheck
  <1> QED
    BY <1>1, <1>2, <1>3, <1>4, <1>5, <1>6, <1>7, <1>8, <1>9, <1>10, <1>11, <1>12, <1>13, Frame
       DEF Act, Step

(***************************************************************************)
(* Whatever the log, the upstream and the control plane do, the responses  *)
(* and the events of every request agree as AuditTrail says.               *)
(***************************************************************************)
THEOREM ResponsesAreAudited == Spec => []AuditTrail
  <1>1. Init => AuditInv
    <2> SUFFICES ASSUME Init PROVE AuditInv
      OBVIOUS
    <2>1. TypeOK /\ Decided
      BY InitRecentInv DEF RecentInv
    <2>2. TrailOK /\ AuditTrail
      BY DEF Init, TrailOK, AuditTrail, Served, NoEvent, Unanswered, InCheck
    <2> QED
      BY <2>1, <2>2 DEF AuditInv
  <1>2. AuditInv /\ [Next]_vars => AuditInv'
    BY NextTypeOK, NextDecided, NextAuditInv DEF AuditInv
  <1>3. AuditInv => AuditTrail
    BY DEF AuditInv
  <1> QED
    BY <1>1, <1>2, <1>3, PTL DEF Spec

=============================================================================
