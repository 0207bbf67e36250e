-------------------------- MODULE PolicyStoreProofs --------------------------
(***************************************************************************)
(* For any rules, any writers and any bounds: PolicyStore stays within its *)
(* types, no acknowledged edit of a rule is lost, and a Check that loads   *)
(* the policy between edits sees one version of it, with the rules that    *)
(* version binds, but for the cases EvaluationComplete names.              *)
(***************************************************************************)
EXTENDS PolicyStore, TLAPS

PolicyRow == [from : Time, to : Time, rules : Bindings, status : Status]
RuleRow   == [from : Time, to : Time]
EditState == [pc : {"idle", "read", "tx"}, ver : 1..MaxVersion, now : Time]
EvalState == [pc : {"idle", "start", "policies", "done"}, at : Time,
              found : SUBSET (1..MaxVersion), rules : SUBSET Rule,
              gone : BOOLEAN, back : SUBSET (1..MaxVersion), closed : SUBSET Rule]

-----------------------------------------------------------------------------
(***************************************************************************)
(* The inductive invariant.                                                *)
(***************************************************************************)

\* Every edit that makes a version of a rule makes one of the policy.
RuleVersionsBounded == \A k \in Rule : Len(row[k]) <= Len(pol)

\* A bound row exists, and began with the version that binds it, or one
\* millisecond later, or before.
BoundRowsExist ==
    \A v \in DOMAIN pol, k \in Rule :
        pol[v].rules[k] # 0 =>
            /\ pol[v].rules[k] <= Len(row[k])
            /\ row[k][pol[v].rules[k]].from <= pol[v].from + 1

\* No version begins in the future, and a superseded one has ended.
VersionsAreOld ==
    \A v \in DOMAIN pol : /\ pol[v].from <= clock
                          /\ v # Len(pol) => pol[v].to <= clock

EvalIsOld == eval.pc # "idle" => eval.at <= clock

\* The versions that the Check has found, or that were put back, exist.
EvalExists == eval.found \subseteq DOMAIN pol /\ eval.back \subseteq DOMAIN pol

\* Version v is in force at the time of the Check, and was not put back.
Seen(v) == v \notin eval.back /\ InWindow(pol[v], eval.at)

\* Later versions begin after the Check, and no rule of v has ended before it.
InForceAlone(v) ==
    /\ \A u \in DOMAIN pol : u > v => pol[u].from > eval.at
    /\ \A k \in Rule : pol[v].rules[k] # 0 => row[k][pol[v].rules[k]].to > eval.at

\* Before the first query.
StartSound ==
    eval.pc = "start" =>
        /\ \A v \in DOMAIN pol : Seen(v) => InForceAlone(v)
        /\ ~eval.gone => \E v \in DOMAIN pol : Seen(v) /\ pol[v].status = "active"

\* A rule that version v binds will be found by the second query, or may not be.
Found(v, k) ==
    \/ InWindow(row[k][pol[v].rules[k]], eval.at)
    \/ k \in eval.closed
    \/ pol[v].from = eval.at /\ row[k][pol[v].rules[k]].from > eval.at

\* Between the two queries.
LoadSound ==
    eval.pc = "policies" =>
        /\ eval.found \ eval.back = {} => eval.gone
        /\ \A u, v \in eval.found \ eval.back : u = v
        /\ \A v \in eval.found \ eval.back, k \in Rule :
             pol[v].rules[k] # 0 => Found(v, k)

StoreInv == /\ RuleVersionsBounded /\ AcknowledgedEditsInForce
            /\ BoundRowsExist /\ VersionsAreOld

EvalInv == EvalIsOld /\ EvalExists /\ StartSound /\ LoadSound /\ EvaluationComplete

IInv == TypeOK /\ StoreInv /\ EvalInv

-----------------------------------------------------------------------------
(***************************************************************************)
(* Types.                                                                  *)
(***************************************************************************)

\* The bounds of the clock and of the versions.
LEMMA Bounds ==
    /\ MaxVersion \in Nat /\ MaxVersion >= 1 /\ MaxTime \in Nat
    /\ Infinity \in Nat /\ Infinity = MaxTime + 2
    /\ Infinity \in Time /\ 0 \in Time
  BY PolicyStoreAssumption DEF Infinity, Time

\* A time is a natural number.
LEMMA Times ==
    /\ \A t \in Time : t \in Nat /\ t <= Infinity
    /\ \A t \in Nat : t <= Infinity => t \in Time
  BY Bounds DEF Time

\* The parts of the type invariant.
LEMMA Types ==
  ASSUME TypeOK
  PROVE  /\ clock \in Nat /\ clock <= MaxTime
         /\ pol \in Seq(PolicyRow) /\ Len(pol) \in Nat /\ Len(pol) >= 1
         /\ Len(pol) <= MaxVersion /\ DOMAIN pol = 1..Len(pol)
         /\ Len(pol) \in DOMAIN pol
         /\ row \in [Rule -> Seq(RuleRow)]
         /\ edit \in [Writer -> EditState]
         /\ eval \in EvalState
         /\ acked \in Bindings
  <1>1. pol \in Seq(PolicyRow) /\ Len(pol) \in 1..MaxVersion
    BY DEF TypeOK, PolicyRow
  <1>2. /\ Len(pol) \in Nat /\ Len(pol) >= 1 /\ Len(pol) <= MaxVersion
        /\ DOMAIN pol = 1..Len(pol) /\ Len(pol) \in DOMAIN pol
    BY <1>1, Bounds
  <1>3. clock \in Nat /\ clock <= MaxTime
    BY Bounds DEF TypeOK
  <1> QED BY <1>1, <1>2, <1>3 DEF TypeOK, RuleRow, EditState, EvalState

\* A version of the policy.
LEMMA PolicyRowTypes ==
  ASSUME TypeOK, NEW v \in DOMAIN pol
  PROVE  /\ pol[v] \in PolicyRow
         /\ pol[v].from \in Nat /\ pol[v].to \in Nat /\ pol[v].to <= Infinity
         /\ pol[v].from < pol[v].to /\ pol[v].from \in Time /\ pol[v].to \in Time
         /\ pol[v].rules \in Bindings /\ pol[v].status \in Status
         /\ \A k \in Rule : pol[v].rules[k] \in 0..MaxVersion
  <1>1. pol[v] \in PolicyRow
    BY Types
  <1>2. /\ pol[v].from \in Time /\ pol[v].to \in Time
        /\ pol[v].rules \in Bindings /\ pol[v].status \in Status
    BY <1>1 DEF PolicyRow
  <1>3. pol[v].from < pol[v].to
    BY DEF TypeOK
  <1>4. \A k \in Rule : pol[v].rules[k] \in 0..MaxVersion
    BY <1>2 DEF Bindings
  <1> QED BY <1>1, <1>2, <1>3, <1>4, Times

\* A version of a rule.
LEMMA RuleRowTypes ==
  ASSUME TypeOK, NEW k \in Rule
  PROVE  /\ row[k] \in Seq(RuleRow) /\ Len(row[k]) \in Nat
         /\ DOMAIN row[k] = 1..Len(row[k])
         /\ \A r \in DOMAIN row[k] :
              /\ row[k][r] \in RuleRow
              /\ row[k][r].from \in Nat /\ row[k][r].to \in Nat
              /\ row[k][r].from \in Time /\ row[k][r].to \in Time
              /\ row[k][r].from < row[k][r].to
  <1>1. row[k] \in Seq(RuleRow)
    BY Types
  <1>2. ASSUME NEW r \in DOMAIN row[k]
        PROVE  /\ row[k][r] \in RuleRow
               /\ row[k][r].from \in Nat /\ row[k][r].to \in Nat
               /\ row[k][r].from \in Time /\ row[k][r].to \in Time
               /\ row[k][r].from < row[k][r].to
    <2>1. row[k][r] \in RuleRow
      BY <1>1
    <2>2. row[k][r].from \in Time /\ row[k][r].to \in Time
      BY <2>1 DEF RuleRow
    <2>3. row[k][r].from < row[k][r].to
      BY DEF TypeOK
    <2> QED BY <2>1, <2>2, <2>3, Times
  <1> QED BY <1>1, <1>2

\* The Check.
LEMMA EvalTypes ==
  ASSUME TypeOK
  PROVE  /\ eval.pc \in {"idle", "start", "policies", "done"}
         /\ eval.at \in Nat /\ eval.at \in Time
         /\ eval.found \in SUBSET (1..MaxVersion) /\ eval.rules \in SUBSET Rule
         /\ eval.gone \in BOOLEAN /\ eval.closed \in SUBSET Rule
         /\ eval.back \in SUBSET (1..MaxVersion)
  <1>1. eval \in EvalState
    BY Types
  <1>2. /\ eval.pc \in {"idle", "start", "policies", "done"} /\ eval.at \in Time
        /\ eval.found \in SUBSET (1..MaxVersion) /\ eval.rules \in SUBSET Rule
        /\ eval.gone \in BOOLEAN /\ eval.closed \in SUBSET Rule
        /\ eval.back \in SUBSET (1..MaxVersion)
    BY <1>1 DEF EvalState
  <1> QED BY <1>2, Times

\* The tables of a policy in which no row is malformed.
PolicyTyped(p) == /\ p \in Seq(PolicyRow) /\ Len(p) \in 1..MaxVersion
                  /\ \A v \in DOMAIN p : p[v].from < p[v].to

RulesTyped(t) == /\ t \in [Rule -> Seq(RuleRow)]
                 /\ \A k \in Rule : \A r \in DOMAIN t[k] : t[k][r].from < t[k][r].to

\* The type invariant by tables.
LEMMA TypeByTable ==
    TypeOK <=> /\ clock \in 0..MaxTime /\ PolicyTyped(pol) /\ RulesTyped(row)
               /\ edit \in [Writer -> EditState] /\ eval \in EvalState
               /\ acked \in Bindings
  BY DEF TypeOK, PolicyTyped, RulesTyped, PolicyRow, RuleRow, EditState, EvalState

\* What Committed makes of the Check.
LEMMA CommittedEval ==
  ASSUME TypeOK, NEW now \in Nat, NEW keys \in SUBSET Rule, NEW gone \in BOOLEAN,
         NEW back \in SUBSET (1..MaxVersion), Committed(now, keys, gone, back)
  PROVE  /\ eval' \in EvalState
         /\ eval'.pc = eval.pc /\ eval'.at = eval.at /\ eval'.found = eval.found
         /\ eval'.rules = eval.rules
         /\ eval'.closed = IF eval.pc = "policies" /\ now <= eval.at
                             THEN eval.closed \cup keys ELSE eval.closed
         /\ eval'.back = IF eval.pc = "start" /\ now > eval.at
                           THEN eval.back \cup back ELSE eval.back
         /\ eval'.gone <=> eval.gone \/ (eval.pc = "start" /\ now <= eval.at /\ gone)
  <1> DEFINE g == eval.gone \/ (eval.pc = "start" /\ now <= eval.at /\ gone)
             b == IF eval.pc = "start" /\ now > eval.at THEN eval.back \cup back ELSE eval.back
             c == IF eval.pc = "policies" /\ now <= eval.at THEN eval.closed \cup keys
                                                           ELSE eval.closed
             d == [eval EXCEPT !.gone = g]
             e == [d EXCEPT !.back = b]
             f == [e EXCEPT !.closed = c]
  <1>1. eval' = f
    BY Zenon DEF Committed
  <1>2. c \in SUBSET Rule /\ b \in SUBSET (1..MaxVersion)
    BY EvalTypes
  <1>3. g \in BOOLEAN
    BY EvalTypes
  <1>4. eval \in EvalState
    BY Types
  <1>5. /\ b = IF eval.pc = "start" /\ now > eval.at THEN eval.back \cup back ELSE eval.back
        /\ c = IF eval.pc = "policies" /\ now <= eval.at THEN eval.closed \cup keys
                                                         ELSE eval.closed
    OBVIOUS
  <1>6. g <=> eval.gone \/ (eval.pc = "start" /\ now <= eval.at /\ gone)
    OBVIOUS
  <1> HIDE DEF b, c, g
  <1>7. /\ d \in EvalState /\ d.pc = eval.pc /\ d.at = eval.at /\ d.found = eval.found
        /\ d.rules = eval.rules /\ d.gone = g
    BY <1>3, <1>4 DEF EvalState
  <1> HIDE DEF d
  <1>8. /\ e \in EvalState /\ e.pc = d.pc /\ e.at = d.at /\ e.found = d.found
        /\ e.rules = d.rules /\ e.gone = d.gone /\ e.back = b
    BY <1>2, <1>7 DEF EvalState
  <1> HIDE DEF e
  <1>9. /\ f \in EvalState /\ f.pc = e.pc /\ f.at = e.at /\ f.found = e.found
        /\ f.rules = e.rules /\ f.gone = e.gone /\ f.back = e.back /\ f.closed = c
    BY <1>2, <1>8 DEF EvalState
  <1> HIDE DEF f
  <1> QED BY <1>1, <1>5, <1>6, <1>7, <1>8, <1>9

\* A writer that is done.
LEMMA FinishTyped ==
  ASSUME TypeOK, NEW w \in Writer, Finish(w)
  PROVE  edit' \in [Writer -> EditState]
  <1>1. NoEdit \in EditState
    BY Bounds DEF NoEdit, EditState
  <1> QED BY <1>1, Types DEF Finish

\* The policy after createNextPolicyVersion.
LEMMA VersionCreated ==
  ASSUME TypeOK, NEW v, NEW now \in 0..clock, NEW rules \in Bindings,
         NEW status \in Status, CreateNextPolicyVersion(v, now, rules, status)
  PROVE  /\ v = Len(pol) /\ PolicyTyped(pol')
         /\ Len(pol') = Len(pol) + 1 /\ DOMAIN pol' = 1..(Len(pol) + 1)
         /\ \A u \in DOMAIN pol :
              /\ u \in DOMAIN pol'
              /\ pol'[u].from = pol[u].from /\ pol'[u].rules = pol[u].rules
              /\ pol'[u].status = pol[u].status
              /\ pol'[u].to = IF u = Len(pol) THEN now ELSE pol[u].to
         /\ pol'[Len(pol')].from = now /\ pol'[Len(pol')].to = Infinity
         /\ pol'[Len(pol')].rules = rules /\ pol'[Len(pol')].status = status
         /\ pol[Len(pol)].from < now
  <1> DEFINE p == [pol EXCEPT ![v].to = now]
             n == [from |-> now, to |-> Infinity, rules |-> rules, status |-> status]
  <1>1. /\ v = Len(pol) /\ Len(pol) < MaxVersion /\ pol' = Append(p, n)
        /\ pol[v].from < now
    BY DEF CreateNextPolicyVersion, PolicyVersionUnique, MayClose
  <1>2. now \in Nat /\ now <= MaxTime /\ now \in Time /\ now < Infinity
    BY Types, Bounds, Times
  <1>3. n \in PolicyRow /\ n.from = now /\ n.to = Infinity /\ n.rules = rules
        /\ n.status = status
    BY <1>2, Bounds DEF PolicyRow
  <1>4. v \in DOMAIN pol
    BY <1>1, Types
  <1>5. [pol[v] EXCEPT !.to = now] \in PolicyRow
    BY <1>2, <1>4, PolicyRowTypes DEF PolicyRow
  <1>6. /\ p \in Seq(PolicyRow) /\ Len(p) = Len(pol) /\ DOMAIN p = DOMAIN pol
        /\ \A u \in DOMAIN pol : p[u] = IF u = v THEN [pol[v] EXCEPT !.to = now] ELSE pol[u]
    BY <1>4, <1>5, Types
  <1>7. \A u \in DOMAIN pol : /\ p[u].from = pol[u].from /\ p[u].rules = pol[u].rules
                              /\ p[u].status = pol[u].status
                              /\ p[u].to = IF u = v THEN now ELSE pol[u].to
    BY <1>6, PolicyRowTypes DEF PolicyRow
  <1> HIDE DEF p, n
  <1>8. /\ pol' \in Seq(PolicyRow) /\ Len(pol') = Len(pol) + 1
        /\ DOMAIN pol' = 1..(Len(pol) + 1)
        /\ pol'[Len(pol) + 1] = n
        /\ \A u \in 1..Len(pol) : pol'[u] = p[u]
    BY <1>1, <1>3, <1>6, Types
  <1>9. \A u \in DOMAIN pol' : pol'[u].from < pol'[u].to
    <2> SUFFICES ASSUME NEW u \in DOMAIN pol' PROVE pol'[u].from < pol'[u].to
      OBVIOUS
    <2>1. CASE u = Len(pol) + 1
      BY <1>2, <1>3, <1>8, <2>1
    <2>2. CASE u \in DOMAIN pol
      BY <1>1, <1>7, <1>8, <2>2, Types, PolicyRowTypes
    <2> QED BY <1>8, <2>1, <2>2, Types
  <1>10. Len(pol') \in 1..MaxVersion
    BY <1>1, <1>8, Types, Bounds
  <1> QED BY <1>1, <1>3, <1>7, <1>8, <1>9, <1>10, Types DEF PolicyTyped

-----------------------------------------------------------------------------
(***************************************************************************)
(* What every edit leaves of the tables, and what that means to a Check.   *)
(***************************************************************************)

\* Versions of the policy stay, and only their ends change.
PolicyKept ==
    \A u \in DOMAIN pol : /\ u \in DOMAIN pol'
                          /\ pol'[u].from = pol[u].from
                          /\ pol'[u].rules = pol[u].rules
                          /\ pol'[u].status = pol[u].status

\* Versions of rules stay, and only those of keys may end, now.
RowsKept(now, keys) ==
    \A k \in Rule : \A r \in DOMAIN row[k] :
        /\ r \in DOMAIN row'[k]
        /\ row'[k][r].from = row[k][r].from
        /\ row'[k][r].to = row[k][r].to \/ (k \in keys /\ row'[k][r].to = now)

\* A bound version of a rule is in the table.
LEMMA BoundRow ==
  ASSUME TypeOK, BoundRowsExist, NEW v \in DOMAIN pol, NEW k \in Rule, pol[v].rules[k] # 0
  PROVE  /\ pol[v].rules[k] \in DOMAIN row[k]
         /\ row[k][pol[v].rules[k]].from <= pol[v].from + 1
  BY PolicyRowTypes, RuleRowTypes, Bounds DEF BoundRowsExist

\* An edit keeps what a Check that has made its first query relies on.
LEMMA EditKeepsLoads ==
  ASSUME IInv, NEW now \in Nat, NEW keys \in SUBSET Rule, NEW gone \in BOOLEAN,
         NEW back \in SUBSET DOMAIN pol, back \in SUBSET (1..MaxVersion),
         PolicyKept, RowsKept(now, keys), Committed(now, keys, gone, back), clock' = clock
  PROVE  EvalIsOld' /\ EvalExists' /\ LoadSound' /\ EvaluationComplete'
  <1>0. TypeOK /\ StoreInv /\ EvalInv
    BY DEF IInv
  <1>2. /\ eval'.pc = eval.pc /\ eval'.at = eval.at /\ eval'.found = eval.found
        /\ eval'.rules = eval.rules
        /\ eval'.back \subseteq eval.back \cup back
        /\ eval.pc # "start" => eval'.back = eval.back /\ (eval'.gone <=> eval.gone)
        /\ eval.closed \subseteq eval'.closed
    BY <1>0, CommittedEval
  <1>1. EvalIsOld'
    BY <1>0, <1>2 DEF EvalInv, EvalIsOld
  <1>3. EvalExists'
    BY <1>0, <1>2 DEF EvalInv, EvalExists, PolicyKept
  <1>4. ASSUME NEW v \in eval.found
        PROVE  /\ v \in DOMAIN pol /\ pol'[v].from = pol[v].from
               /\ pol'[v].rules = pol[v].rules
    BY <1>0 DEF EvalInv, EvalExists, PolicyKept
  <1>5. ASSUME NEW v \in eval.found, NEW k \in Rule, pol[v].rules[k] # 0
        PROVE  LET i == pol[v].rules[k]
               IN  /\ i \in DOMAIN row[k] /\ row'[k][i].from = row[k][i].from
                   /\ row'[k][i].to = row[k][i].to \/ (k \in keys /\ row'[k][i].to = now)
    BY <1>0, <1>4, <1>5, BoundRow DEF StoreInv, RowsKept
  <1>6. LoadSound'
    <2> SUFFICES ASSUME eval.pc = "policies" PROVE LoadSound'
      BY <1>2 DEF LoadSound
    <2>1. /\ eval.found \ eval.back = {} => eval.gone
          /\ \A u, v \in eval.found \ eval.back : u = v
      BY <1>0 DEF EvalInv, LoadSound
    <2>2. ASSUME NEW v \in eval.found \ eval.back, NEW k \in Rule, pol[v].rules[k] # 0
          PROVE  Found(v, k)'
      <3> DEFINE i == pol[v].rules[k]
      <3>1. Found(v, k)
        BY <1>0, <2>2 DEF EvalInv, LoadSound
      <3>2. /\ i \in DOMAIN row[k] /\ row'[k][i].from = row[k][i].from
            /\ row'[k][i].to = row[k][i].to \/ (k \in keys /\ row'[k][i].to = now)
        BY <1>5, <2>2
      <3>3. pol'[v].rules[k] = i /\ pol'[v].from = pol[v].from
        BY <1>4, <2>2
      <3> HIDE DEF i
      <3>4. eval.at \in Nat
        BY <1>0, EvalTypes
      <3>5. CASE row'[k][i].to = row[k][i].to
        BY <1>2, <3>1, <3>2, <3>3, <3>5 DEF Found, InWindow, i
      <3>6. CASE k \in keys /\ row'[k][i].to = now /\ now > eval.at
        <4>1. InWindow(row[k][i], eval.at) => InWindow(row'[k][i], eval.at)
          BY <3>2, <3>6 DEF InWindow
        <4> QED BY <1>2, <3>1, <3>2, <3>3, <4>1 DEF Found, i
      <3>7. CASE k \in keys /\ now <= eval.at
        <4>1. k \in eval'.closed
          BY <1>0, <3>7, CommittedEval
        <4> QED BY <4>1 DEF Found
      <3> QED BY <3>2, <3>4, <3>5, <3>6, <3>7
    <2>3. \A v \in eval'.found \ eval'.back : v \in eval.found \ eval.back
                                              /\ pol'[v].rules = pol[v].rules
      BY <1>2, <1>4
    <2> QED BY <1>2, <2>1, <2>2, <2>3 DEF LoadSound
  <1>7. EvaluationComplete'
    <2> SUFFICES ASSUME eval.pc = "done" PROVE EvaluationComplete'
      BY <1>2 DEF EvaluationComplete
    <2>1. /\ eval.found \ eval.back = {} => eval.gone
          /\ \A u, v \in eval.found \ eval.back : u = v
          /\ \A v \in eval.found \ eval.back, k \in Rule :
               pol[v].rules[k] # 0 =>
                  \/ k \in eval.rules \cup eval.closed
                  \/ pol[v].from = eval.at /\ row[k][pol[v].rules[k]].from > eval.at
      BY <1>0 DEF EvalInv, EvaluationComplete
    <2> QED BY <1>2, <1>4, <1>5, <2>1 DEF EvaluationComplete
  <1> QED BY <1>1, <1>3, <1>6, <1>7

\* A new version keeps what a Check relies on that has not made its first query:
\* made after the time of the Check it is not in force yet, and what it replaces
\* still is; otherwise it takes the place of the version in force.
LEMMA EditKeepsStart ==
  ASSUME IInv, NEW v, NEW now \in 0..clock, NEW rules \in Bindings, NEW status \in Status,
         NEW keys \in SUBSET Rule, NEW gone \in BOOLEAN,
         CreateNextPolicyVersion(v, now, rules, status),
         RowsKept(now, keys), Committed(now, keys, gone, {}),
         gone \/ status = "active" \/ status = pol[Len(pol)].status,
         AcknowledgedEditsInForce'
  PROVE  StartSound'
  <1>0. TypeOK /\ StoreInv /\ EvalInv
    BY DEF IInv
  <1> DEFINE L == Len(pol)
             n == Len(pol')
             at == eval.at
  <1>1. now \in Nat /\ {} \in SUBSET (1..MaxVersion)
    BY <1>0, Types
  <1>2. /\ eval'.pc = eval.pc /\ eval'.at = at /\ eval'.back = eval.back
        /\ eval'.gone <=> eval.gone \/ (eval.pc = "start" /\ now <= at /\ gone)
    <2>1. /\ eval'.pc = eval.pc /\ eval'.at = eval.at
          /\ eval'.gone <=> eval.gone \/ (eval.pc = "start" /\ now <= eval.at /\ gone)
      BY <1>0, <1>1, CommittedEval
    <2>2. eval'.back = IF eval.pc = "start" /\ now > eval.at THEN eval.back \cup {} ELSE eval.back
      BY <1>0, <1>1, CommittedEval
    <2> QED BY <2>1, <2>2
  <1> SUFFICES ASSUME eval.pc = "start" PROVE StartSound'
    BY <1>2 DEF StartSound
  <1>3. at \in Nat /\ at < Infinity
    <2>1. at \in Nat /\ at <= clock
      BY <1>0, EvalTypes DEF EvalInv, EvalIsOld
    <2> HIDE DEF at
    <2> QED BY <1>0, <2>1, Types, Bounds
  <1>4. /\ n = L + 1 /\ DOMAIN pol' = 1..(L + 1) /\ L \in DOMAIN pol /\ DOMAIN pol = 1..L
        /\ L \in Nat
        /\ pol'[n].from = now /\ pol'[n].to = Infinity /\ pol'[n].status = status
        /\ pol'[n].rules = rules /\ pol[L].from < now
        /\ \A u \in DOMAIN pol :
             /\ u \in DOMAIN pol' /\ pol'[u].from = pol[u].from
             /\ pol'[u].rules = pol[u].rules /\ pol'[u].status = pol[u].status
             /\ pol'[u].to = IF u = L THEN now ELSE pol[u].to
    BY <1>0, VersionCreated, Types
  <1>5. \A u \in DOMAIN pol : pol[u].from \in Nat /\ pol[u].to \in Nat
    BY <1>0, PolicyRowTypes
  <1>6. eval.back \subseteq DOMAIN pol
    BY <1>0 DEF EvalInv, EvalExists
  <1>7. /\ \A u \in DOMAIN pol : Seen(u) => InForceAlone(u)
        /\ ~eval.gone => \E u \in DOMAIN pol : Seen(u) /\ pol[u].status = "active"
    BY <1>0 DEF EvalInv, StartSound
  <1>8. ASSUME NEW u \in DOMAIN pol, NEW k \in Rule, pol[u].rules[k] # 0,
               now > at, row[k][pol[u].rules[k]].to > at
        PROVE  row'[k][pol[u].rules[k]].to > at
    <2>1. pol[u].rules[k] \in DOMAIN row[k]
      BY <1>0, <1>8, BoundRow DEF StoreInv
    <2> QED BY <1>8, <2>1 DEF RowsKept
  <1>9. ASSUME NEW u \in DOMAIN pol', Seen(u)' PROVE InForceAlone(u)'
    <2>1. u \notin eval.back /\ pol'[u].from <= at /\ at < pol'[u].to
      BY <1>2, <1>9 DEF Seen, InWindow
    <2>2. CASE u = n
      <3>1. \A k \in Rule : rules[k] # 0 => row'[k][rules[k]].to = Infinity
        BY <1>4 DEF AcknowledgedEditsInForce
      <3>2. \A w \in DOMAIN pol' : ~(w > u)
        BY <1>4, <2>2
      <3> QED BY <1>2, <1>3, <1>4, <2>2, <3>1, <3>2 DEF InForceAlone
    <2>3. CASE u = L
      <3>1. now > at
        BY <1>4, <2>1, <2>3
      <3>2. \A w \in DOMAIN pol' : w > u => w = n
        BY <1>4, <2>3
      <3>3. \A k \in Rule : pol[L].rules[k] # 0 => row[k][pol[L].rules[k]].to > at
        BY <1>0, <1>3 DEF StoreInv, AcknowledgedEditsInForce
      <3>4. \A k \in Rule : pol[L].rules[k] # 0 => row'[k][pol[L].rules[k]].to > at
        BY <1>4, <1>8, <3>1, <3>3
      <3> QED BY <1>2, <1>4, <2>3, <3>1, <3>2, <3>4 DEF InForceAlone
    <2>4. CASE u \in DOMAIN pol /\ u # L
      <3>1. InForceAlone(u)
        BY <1>4, <1>7, <2>1, <2>4 DEF Seen, InWindow
      <3>2. pol[L].from > at
        <4>1. L > u
          BY <1>4, <2>4
        <4> QED BY <1>4, <3>1, <4>1 DEF InForceAlone
      <3>3. now > at
        BY <1>1, <1>3, <1>4, <1>5, <3>2
      <3>4. \A w \in DOMAIN pol' : w > u => pol'[w].from > at
        <4> SUFFICES ASSUME NEW w \in DOMAIN pol', w > u PROVE pol'[w].from > at
          OBVIOUS
        <4>1. w = n \/ w \in DOMAIN pol
          BY <1>4
        <4>2. CASE w = n
          BY <1>4, <3>3, <4>2
        <4>3. CASE w \in DOMAIN pol
          <5>1. pol[w].from > at
            BY <3>1, <4>3 DEF InForceAlone
          <5> QED BY <1>4, <4>3, <5>1
        <4> QED BY <4>1, <4>2, <4>3
      <3>5. \A k \in Rule : pol[u].rules[k] # 0 => row'[k][pol[u].rules[k]].to > at
        BY <1>8, <2>4, <3>1, <3>3 DEF InForceAlone
      <3> QED BY <1>2, <1>4, <2>4, <3>4, <3>5 DEF InForceAlone
    <2> QED BY <1>4, <2>2, <2>3, <2>4
  <1>10. ASSUME ~eval'.gone PROVE \E u \in DOMAIN pol' : Seen(u)' /\ pol'[u].status = "active"
    <2>1. PICK o \in DOMAIN pol : Seen(o) /\ pol[o].status = "active"
      BY <1>2, <1>7, <1>10
    <2>2. o \notin eval.back /\ pol[o].from <= at /\ at < pol[o].to
      BY <2>1 DEF Seen, InWindow
    <2>3. CASE o # L \/ now > at
      <3>1. pol'[o].from <= at /\ at < pol'[o].to /\ o \in DOMAIN pol' /\ pol'[o].status = "active"
        BY <1>4, <2>1, <2>2, <2>3
      <3>2. Seen(o)'
        BY <1>2, <2>2, <3>1 DEF Seen, InWindow
      <3> QED BY <3>1, <3>2
    <2>4. CASE o = L /\ now <= at
      <3>1. status = "active"
        BY <1>2, <1>10, <2>1, <2>4
      <3>2. n \notin eval.back /\ n \in DOMAIN pol'
        BY <1>4, <1>6
      <3>3. PICK m \in DOMAIN pol' : m = n
        BY <3>2
      <3>4. pol'[m].from <= at /\ at < pol'[m].to /\ pol'[m].status = "active"
        BY <1>3, <1>4, <2>4, <3>1, <3>3
      <3>5. Seen(m)'
        BY <1>2, <3>2, <3>3, <3>4 DEF Seen, InWindow
      <3> QED BY <3>4, <3>5
    <2> QED BY <1>1, <1>3, <2>3, <2>4
  <1> QED BY <1>9, <1>10 DEF StartSound

\* A new version of the policy keeps the invariant when the rows it binds are
\* there, and when the Check is told of a status that is not active.
LEMMA EditKeepsIInv ==
  ASSUME IInv, NEW w \in Writer, NEW v, NEW now \in 0..clock, NEW rules \in Bindings,
         NEW status \in Status, NEW keys \in SUBSET Rule, NEW gone \in BOOLEAN,
         CreateNextPolicyVersion(v, now, rules, status),
         RulesTyped(row'), RowsKept(now, keys), Committed(now, keys, gone, {}), Finish(w),
         clock' = clock, acked' \in Bindings,
         gone \/ status = "active" \/ status = pol[Len(pol)].status,
         AcknowledgedEditsInForce', RuleVersionsBounded',
         \A k \in Rule : rules[k] # 0 => /\ rules[k] <= Len(row'[k])
                                         /\ row'[k][rules[k]].from <= now + 1
  PROVE  IInv'
  <1>0. TypeOK /\ StoreInv
    BY DEF IInv
  <1> DEFINE L == Len(pol)
  <1>1. /\ PolicyTyped(pol') /\ Len(pol') = L + 1 /\ DOMAIN pol' = 1..(L + 1)
        /\ DOMAIN pol = 1..L /\ L \in Nat
        /\ pol'[L + 1].from = now /\ pol'[L + 1].rules = rules
        /\ \A u \in DOMAIN pol :
             /\ u \in DOMAIN pol' /\ pol'[u].from = pol[u].from
             /\ pol'[u].rules = pol[u].rules /\ pol'[u].status = pol[u].status
             /\ pol'[u].to = IF u = L THEN now ELSE pol[u].to
    BY <1>0, VersionCreated, Types
  <1>e. now \in Nat /\ {} \in SUBSET DOMAIN pol /\ {} \in SUBSET (1..MaxVersion)
    BY <1>0, Types
  <1>2. TypeOK'
    <2>1. eval' \in EvalState
      BY <1>0, <1>e, CommittedEval
    <2>2. edit' \in [Writer -> EditState]
      BY <1>0, FinishTyped
    <2>3. (clock \in 0..MaxTime)'
      BY <1>0 DEF TypeOK
    <2> QED BY <1>1, <2>1, <2>2, <2>3, TypeByTable DEF PolicyTyped, RulesTyped,
              TypeOK, PolicyRow, RuleRow, EditState, EvalState
  <1> HIDE DEF L
  <1>3. BoundRowsExist'
    <2> SUFFICES ASSUME NEW u \in DOMAIN pol', NEW k \in Rule, pol'[u].rules[k] # 0
                 PROVE  /\ pol'[u].rules[k] <= Len(row'[k])
                        /\ row'[k][pol'[u].rules[k]].from <= pol'[u].from + 1
      BY DEF BoundRowsExist
    <2>1. CASE u = L + 1
      BY <1>1, <2>1
    <2>2. CASE u \in DOMAIN pol
      <3>1. pol'[u].rules = pol[u].rules /\ pol'[u].from = pol[u].from
        BY <1>1, <2>2
      <3> DEFINE r == pol[u].rules[k]
      <3>2. r \in DOMAIN row[k] /\ row[k][r].from <= pol[u].from + 1
        BY <1>0, <2>2, <3>1, BoundRow DEF StoreInv
      <3>3. r \in DOMAIN row'[k] /\ row'[k][r].from = row[k][r].from
        BY <3>2 DEF RowsKept
      <3>4. DOMAIN row'[k] = 1..Len(row'[k]) /\ Len(row'[k]) \in Nat
        BY DEF RulesTyped
      <3> HIDE DEF r
      <3>5. r <= Len(row'[k])
        BY <3>3, <3>4
      <3> QED BY <3>1, <3>2, <3>3, <3>5 DEF r
    <2> QED BY <1>1, <2>1, <2>2
  <1>4. VersionsAreOld'
    <2> SUFFICES ASSUME NEW u \in DOMAIN pol'
                 PROVE  pol'[u].from <= clock /\ (u # Len(pol') => pol'[u].to <= clock)
      BY DEF VersionsAreOld
    <2>0. clock \in Nat
      BY <1>0, Types
    <2>1. CASE u = L + 1
      BY <1>1, <2>0, <2>1
    <2>2. CASE u \in DOMAIN pol
      <3>1. pol[u].from <= clock /\ (u # L => pol[u].to <= clock)
        BY <1>0, <2>2 DEF StoreInv, VersionsAreOld, L
      <3> QED BY <1>1, <2>0, <2>2, <3>1
    <2> QED BY <1>1, <2>1, <2>2
  <1>5. PolicyKept
    BY <1>1 DEF PolicyKept
  <1>6. EvalIsOld' /\ EvalExists' /\ LoadSound' /\ EvaluationComplete'
    BY <1>5, <1>e, EditKeepsLoads
  <1>7. StartSound'
    BY EditKeepsStart
  <1> QED BY <1>2, <1>3, <1>4, <1>6, <1>7 DEF IInv, StoreInv, EvalInv

\* Version r of rule k is the latest and in force from now on, or r is 0, and
\* the other rules stay.
NowBound(now, k, r) ==
    /\ \A j \in Rule \ {k} : row'[j] = row[j]
    /\ Len(row'[k]) <= Len(row[k]) + 1
    /\ r # 0 => /\ r = Len(row'[k])
                /\ row'[k][r].to = Infinity /\ row'[k][r].from <= now + 1

\* The end common to the edits of rules keeps the invariant.
LEMMA RebindIInv ==
  ASSUME IInv, NEW w \in Writer, NEW v \in DOMAIN pol, NEW now \in 0..clock, NEW k \in Rule,
         NEW r \in Nat, NEW keys \in SUBSET Rule, Rebind(w, v, now, k, r, keys),
         RulesTyped(row'), RowsKept(now, keys), NowBound(now, k, r)
  PROVE  IInv'
  <1>0. TypeOK /\ StoreInv
    BY DEF IInv
  <1> DEFINE rules == [pol[v].rules EXCEPT ![k] = r]
  <1>1. /\ CreateNextPolicyVersion(v, now, rules, pol[v].status)
        /\ acked' = [acked EXCEPT ![k] = r] /\ Committed(now, keys, FALSE, {}) /\ Finish(w)
        /\ clock' = clock
    BY DEF Rebind
  <1>2. v = Len(pol) /\ Len(pol) < MaxVersion
    BY <1>1 DEF CreateNextPolicyVersion, PolicyVersionUnique
  <1>3. pol[v].rules = acked /\ acked \in Bindings
    BY <1>0, <1>2, Types DEF StoreInv, AcknowledgedEditsInForce
  <1>4. Len(row'[k]) \in Nat /\ \A j \in Rule : Len(row[j]) \in Nat /\ Len(row[j]) <= Len(pol)
    BY <1>0, RuleRowTypes DEF StoreInv, RuleVersionsBounded, RulesTyped
  <1>5. r \in 0..MaxVersion
    BY <1>0, <1>2, <1>4, Bounds, Types DEF NowBound
  <1>6. rules \in Bindings /\ acked' = rules
    BY <1>1, <1>3, <1>5 DEF Bindings
  <1>7. pol[v].status \in Status
    BY <1>0, PolicyRowTypes
  <1>8. rules[k] = r /\ \A j \in Rule \ {k} : rules[j] = acked[j]
    BY <1>3 DEF Bindings
  <1> HIDE DEF rules
  <1>9. Len(pol') = Len(pol) + 1 /\ pol'[Len(pol')].rules = rules
    BY <1>0, <1>1, <1>6, <1>7, VersionCreated
  <1>10. AcknowledgedEditsInForce'
    <2>1. ASSUME NEW j \in Rule, rules[j] # 0
          PROVE  rules[j] = Len(row'[j]) /\ row'[j][rules[j]].to = Infinity
      <3>1. CASE j = k
        BY <1>8, <2>1, <3>1 DEF NowBound
      <3>2. CASE j # k
        BY <1>0, <1>8, <2>1, <3>2 DEF NowBound, StoreInv, AcknowledgedEditsInForce
      <3> QED BY <3>1, <3>2
    <2> QED BY <1>6, <1>9, <2>1 DEF AcknowledgedEditsInForce
  <1>11. RuleVersionsBounded'
    <2> SUFFICES ASSUME NEW j \in Rule PROVE Len(row'[j]) <= Len(pol) + 1
      BY <1>9 DEF RuleVersionsBounded
    <2>1. CASE j = k
      BY <1>0, <1>4, <2>1, Types DEF NowBound
    <2>2. CASE j # k
      BY <1>0, <1>4, <2>2, Types DEF NowBound
    <2> QED BY <2>1, <2>2
  <1>12. ASSUME NEW j \in Rule, rules[j] # 0
         PROVE  rules[j] <= Len(row'[j]) /\ row'[j][rules[j]].from <= now + 1
    <2>1. CASE j = k
      BY <1>4, <1>8, <2>1, <1>12 DEF NowBound
    <2>2. CASE j # k
      <3>1. rules[j] = acked[j] /\ pol[v].rules[j] = acked[j] /\ row'[j] = row[j]
        BY <1>3, <1>8, <2>2 DEF NowBound
      <3>2. /\ acked[j] \in DOMAIN row[j]
            /\ row[j][acked[j]].from <= pol[v].from + 1
        BY <1>0, <1>12, <3>1, BoundRow DEF StoreInv
      <3>3. row[j][acked[j]].from \in Nat /\ acked[j] <= Len(row[j])
        BY <1>0, <3>2, RuleRowTypes
      <3>4. pol[v].from \in Nat /\ pol[v].from < now
        BY <1>0, <1>1, PolicyRowTypes DEF CreateNextPolicyVersion, MayClose
      <3>5. now \in Nat
        BY <1>0, Types
      <3> QED BY <3>1, <3>2, <3>3, <3>4, <3>5
    <2> QED BY <2>1, <2>2
  <1>13. pol[v].status = pol[Len(pol)].status
    BY <1>2
  <1>14. FALSE \in BOOLEAN
    OBVIOUS
  <1> QED BY <1>1, <1>6, <1>7, <1>10, <1>11, <1>12, <1>13, <1>14, EditKeepsIInv

-----------------------------------------------------------------------------
(***************************************************************************)
(* The edits, one by one.                                                  *)
(***************************************************************************)

\* The time of an edit.
LEMMA EditTime ==
  ASSUME TypeOK, NEW now \in 0..clock
  PROVE  now \in Nat /\ now <= clock /\ now \in Time /\ now + 1 \in Time /\ now + 1 < Infinity
  BY Types, Bounds, Times

\* The versions s of rule k are those in the table, but some may end now.
Ended(s, k, now) ==
    /\ s \in Seq(RuleRow) /\ Len(s) = Len(row[k]) /\ DOMAIN s = DOMAIN row[k]
    /\ \A i \in DOMAIN row[k] :
         /\ s[i].from = row[k][i].from /\ s[i].from < s[i].to
         /\ s[i].to = row[k][i].to \/ s[i].to = now

\* A version of a rule that ends when it is edited.
LEMMA RowClosed ==
  ASSUME TypeOK, NEW now \in 0..clock, NEW k \in Rule, NEW r \in DOMAIN row[k],
         MayClose(row[k][r], now), NEW s, s = [row[k] EXCEPT ![r].to = now]
  PROVE  Ended(s, k, now)
  <1>1. [row[k][r] EXCEPT !.to = now] \in RuleRow
    BY EditTime, RuleRowTypes DEF RuleRow
  <1>2. /\ s \in Seq(RuleRow) /\ Len(s) = Len(row[k]) /\ DOMAIN s = DOMAIN row[k]
        /\ \A i \in DOMAIN row[k] : s[i] = IF i = r THEN [row[k][r] EXCEPT !.to = now]
                                                    ELSE row[k][i]
    BY <1>1, RuleRowTypes
  <1>3. \A i \in DOMAIN row[k] : s[i].from = row[k][i].from
                                 /\ s[i].to = IF i = r THEN now ELSE row[k][i].to
    BY <1>2, RuleRowTypes DEF RuleRow
  <1> QED BY <1>2, <1>3, RuleRowTypes DEF MayClose, Ended

\* The table of rules when only the rows of k change.
LEMMA OneRule ==
  ASSUME TypeOK, NEW k \in Rule, NEW s \in Seq(RuleRow), row' = [row EXCEPT ![k] = s],
         \A i \in DOMAIN s : s[i].from < s[i].to
  PROVE  /\ row'[k] = s /\ \A j \in Rule \ {k} : row'[j] = row[j]
         /\ RulesTyped(row')
  <1>1. row'[k] = s /\ \A j \in Rule \ {k} : row'[j] = row[j]
    BY Types
  <1>2. row' \in [Rule -> Seq(RuleRow)]
    BY Types
  <1>3. ASSUME NEW j \in Rule, NEW i \in DOMAIN row'[j] PROVE row'[j][i].from < row'[j][i].to
    BY <1>1, RuleRowTypes
  <1> QED BY <1>1, <1>2, <1>3 DEF RulesTyped

\* An edit that leaves the bindings alone.
LEMMA SameBindings ==
  ASSUME IInv, NEW w \in Writer, NEW v \in DOMAIN pol, NEW now \in 0..clock,
         NEW status \in Status, NEW gone \in BOOLEAN,
         CreateNextPolicyVersion(v, now, pol[v].rules, status), Committed(now, {}, gone, {}), Finish(w),
         UNCHANGED <<clock, row, acked>>,
         gone \/ status = "active" \/ status = pol[Len(pol)].status
  PROVE  IInv'
  <1>0. TypeOK /\ StoreInv
    BY DEF IInv
  <1> DEFINE rules == pol[v].rules
  <1>1. v = Len(pol) /\ rules \in Bindings /\ rules = acked
    BY <1>0, PolicyRowTypes DEF CreateNextPolicyVersion, PolicyVersionUnique, StoreInv,
          AcknowledgedEditsInForce
  <1>2. Len(pol') = Len(pol) + 1 /\ pol'[Len(pol')].rules = rules
    BY <1>0, <1>1, VersionCreated
  <1>3. row' = row /\ acked' = acked /\ clock' = clock
    OBVIOUS
  <1>4. RulesTyped(row')
    BY <1>0, <1>3, TypeByTable
  <1>5. RowsKept(now, {})
    BY <1>3 DEF RowsKept
  <1>6. acked' \in Bindings
    BY <1>1
  <1>7. AcknowledgedEditsInForce'
    BY <1>0, <1>1, <1>2, <1>3 DEF StoreInv, AcknowledgedEditsInForce
  <1>8. RuleVersionsBounded'
    BY <1>0, <1>2, <1>3, Types, RuleRowTypes DEF StoreInv, RuleVersionsBounded
  <1>9. ASSUME NEW k \in Rule, rules[k] # 0
        PROVE  rules[k] <= Len(row'[k]) /\ row'[k][rules[k]].from <= now + 1
    <2>1. rules[k] \in DOMAIN row[k] /\ row[k][rules[k]].from <= pol[v].from + 1
      BY <1>0, <1>9, BoundRow DEF StoreInv
    <2>2. pol[v].from \in Nat /\ pol[v].from < now
      BY <1>0, PolicyRowTypes DEF CreateNextPolicyVersion, MayClose
    <2>3. row[k][rules[k]].from \in Nat /\ rules[k] <= Len(row[k])
      BY <1>0, <2>1, RuleRowTypes
    <2> HIDE DEF rules
    <2> QED BY <1>0, <1>3, <2>1, <2>2, <2>3, EditTime
  <1>10. CreateNextPolicyVersion(v, now, rules, status)
    OBVIOUS
  <1> HIDE DEF rules
  <1>11. {} \in SUBSET Rule
    OBVIOUS
  <1> QED BY <1>1, <1>3, <1>4, <1>5, <1>6, <1>7, <1>8, <1>9, <1>10, <1>11, EditKeepsIInv

\* PATCH of the policy.
LEMMA PatchPolicyStep ==
  ASSUME IInv, NEW w \in Writer, NEW v \in DOMAIN pol, NEW now \in 0..clock,
         NEW status \in Status, PatchPolicy(w, v, now, status)
  PROVE  IInv'
  <1> DEFINE gone == status # "active"
  <1>1. gone \in BOOLEAN /\ (gone \/ status = "active")
    OBVIOUS
  <1>2. /\ CreateNextPolicyVersion(v, now, pol[v].rules, status) /\ Committed(now, {}, gone, {})
        /\ Finish(w) /\ UNCHANGED <<clock, row, acked>>
    BY DEF PatchPolicy
  <1> HIDE DEF gone
  <1> QED BY <1>1, <1>2, SameBindings

\* Reordering its rules.
LEMMA ReorderRulesStep ==
  ASSUME IInv, NEW w \in Writer, NEW v \in DOMAIN pol, NEW now \in 0..clock,
         ReorderRules(w, v, now)
  PROVE  IInv'
  <1>1. pol[v].status \in Status
    BY PolicyRowTypes DEF IInv
  <1>2. /\ CreateNextPolicyVersion(v, now, pol[v].rules, pol[v].status)
        /\ Committed(now, {}, FALSE, {}) /\ Finish(w) /\ UNCHANGED <<clock, row, acked>>
    BY DEF ReorderRules
  <1>3. pol[v].status = pol[Len(pol)].status
    BY <1>2 DEF CreateNextPolicyVersion, PolicyVersionUnique
  <1>4. FALSE \in BOOLEAN
    OBVIOUS
  <1> QED BY <1>1, <1>2, <1>3, <1>4, SameBindings

\* Posting a rule.
LEMMA PostRuleStep ==
  ASSUME IInv, NEW w \in Writer, NEW v \in DOMAIN pol, NEW now \in 0..clock, NEW k \in Rule,
         PostRule(w, v, now, k)
  PROVE  IInv'
  <1>0. TypeOK
    BY DEF IInv
  <1>1. PICK from \in {now, now + 1} :
          row' = [row EXCEPT ![k] = <<[from |-> from, to |-> Infinity]>>]
    BY DEF PostRule
  <1>2. row[k] = <<>> /\ Rebind(w, v, now, k, 1, {})
    BY DEF PostRule
  <1> DEFINE s == <<[from |-> from, to |-> Infinity]>>
  <1>3. /\ from \in Time /\ from \in Nat /\ from < Infinity /\ from <= now + 1
        /\ now \in Nat
    BY <1>0, EditTime, Bounds
  <1>4. /\ s \in Seq(RuleRow) /\ Len(s) = 1 /\ DOMAIN s = {1}
        /\ s[1].from = from /\ s[1].to = Infinity
    BY <1>3, Bounds DEF RuleRow
  <1>5. row' = [row EXCEPT ![k] = s]
    BY <1>1
  <1> HIDE DEF s
  <1>6. \A i \in DOMAIN s : s[i].from < s[i].to
    BY <1>3, <1>4
  <1>7. row'[k] = s /\ (\A j \in Rule \ {k} : row'[j] = row[j]) /\ RulesTyped(row')
    BY <1>0, <1>4, <1>5, <1>6, OneRule
  <1>8. RowsKept(now, {})
    <2>1. DOMAIN row[k] = {}
      BY <1>2
    <2> QED BY <1>7, <2>1 DEF RowsKept
  <1>9. NowBound(now, k, 1)
    <2>1. Len(row[k]) = 0
      BY <1>2
    <2>2. /\ Len(row'[k]) = 1 /\ row'[k][1].from = from
          /\ row'[k][1].to = Infinity
      BY <1>4, <1>7
    <2>3. \A j \in Rule \ {k} : row'[j] = row[j]
      BY <1>7
    <2> QED BY <1>3, <2>1, <2>2, <2>3 DEF NowBound
  <1>10. 1 \in Nat /\ {} \in SUBSET Rule
    OBVIOUS
  <1> QED BY <1>2, <1>7, <1>8, <1>9, <1>10, RebindIInv

\* Changing a rule.
LEMMA PatchRuleStep ==
  ASSUME IInv, NEW w \in Writer, NEW v \in DOMAIN pol, NEW now \in 0..clock, NEW k \in Rule,
         PatchRule(w, v, now, k)
  PROVE  IInv'
  <1>0. TypeOK /\ BoundRowsExist
    BY DEF IInv, StoreInv
  <1> DEFINE r == pol[v].rules[k]
             c == [row[k] EXCEPT ![r].to = now]
             n == [from |-> now, to |-> Infinity]
             s == Append(c, n)
  <1>1. /\ r # 0 /\ r = Len(row[k]) /\ MayClose(row[k][r], now)
        /\ row' = [row EXCEPT ![k] = s]
        /\ Rebind(w, v, now, k, r + 1, {k})
    BY DEF PatchRule
  <1>2. r \in DOMAIN row[k] /\ r \in Nat
    BY <1>0, <1>1, BoundRow, RuleRowTypes
  <1> HIDE DEF r
  <1>3. now \in Time /\ now \in Nat /\ now < Infinity
    BY <1>0, EditTime, Bounds
  <1>4. n \in RuleRow /\ n.from = now /\ n.to = Infinity
    BY <1>3, Bounds DEF RuleRow
  <1> HIDE DEF n
  <1>c. c = [row[k] EXCEPT ![r].to = now]
    OBVIOUS
  <1> HIDE DEF c
  <1>5. /\ c \in Seq(RuleRow) /\ Len(c) = Len(row[k]) /\ DOMAIN c = DOMAIN row[k]
        /\ \A i \in DOMAIN row[k] :
             /\ c[i].from = row[k][i].from /\ c[i].from < c[i].to
             /\ c[i].to = row[k][i].to \/ c[i].to = now
    <2>1. MayClose(row[k][r], now)
      BY <1>1
    <2>2. Ended(c, k, now)
      BY <1>0, <1>2, <1>c, <2>1, RowClosed
    <2> QED BY <2>2 DEF Ended
  <1>6. DOMAIN row[k] = 1..r
    BY <1>0, <1>1, RuleRowTypes
  <1>7. /\ s \in Seq(RuleRow) /\ Len(s) = r + 1 /\ DOMAIN s = 1..(r + 1)
        /\ s[r + 1] = n /\ \A i \in 1..r : s[i] = c[i]
    <2>1. Len(c) = r /\ c \in Seq(RuleRow)
      BY <1>1, <1>5
    <2> QED BY <1>2, <1>4, <2>1
  <1> HIDE DEF s
  <1>8. ASSUME NEW i \in DOMAIN s PROVE s[i].from < s[i].to
    <2>1. CASE i = r + 1
      BY <1>3, <1>4, <1>7, <2>1
    <2>2. CASE i \in 1..r
      BY <1>5, <1>6, <1>7, <2>2
    <2> QED BY <1>2, <1>7, <2>1, <2>2
  <1>9. row'[k] = s /\ (\A j \in Rule \ {k} : row'[j] = row[j]) /\ RulesTyped(row')
    BY <1>0, <1>1, <1>7, <1>8, OneRule
  <1>10. RowsKept(now, {k})
    <2> SUFFICES ASSUME NEW j \in Rule, NEW i \in DOMAIN row[j]
                 PROVE  /\ i \in DOMAIN row'[j] /\ row'[j][i].from = row[j][i].from
                        /\ \/ row'[j][i].to = row[j][i].to
                           \/ j \in {k} /\ row'[j][i].to = now
      BY DEF RowsKept
    <2>1. CASE j = k
      <3>1. i \in 1..r /\ i \in DOMAIN s /\ s[i] = c[i]
        BY <1>2, <1>6, <1>7, <2>1
      <3> QED BY <1>5, <1>9, <2>1, <3>1
    <2>2. CASE j # k
      BY <1>9, <2>2
    <2> QED BY <2>1, <2>2
  <1>11. NowBound(now, k, r + 1)
    BY <1>1, <1>2, <1>3, <1>4, <1>7, <1>9 DEF NowBound
  <1>12. r + 1 \in Nat /\ {k} \in SUBSET Rule
    BY <1>2
  <1> QED BY <1>1, <1>9, <1>10, <1>11, <1>12, RebindIInv

\* Removing a rule.
LEMMA DeleteRuleStep ==
  ASSUME IInv, NEW w \in Writer, NEW v \in DOMAIN pol, NEW now \in 0..clock, NEW k \in Rule,
         DeleteRule(w, v, now, k)
  PROVE  IInv'
  <1>0. TypeOK /\ BoundRowsExist
    BY DEF IInv, StoreInv
  <1> DEFINE r == pol[v].rules[k]
             s == [row[k] EXCEPT ![r].to = now]
  <1>1. /\ r # 0 /\ MayClose(row[k][r], now) /\ row' = [row EXCEPT ![k] = s]
        /\ Rebind(w, v, now, k, 0, {k})
    BY DEF DeleteRule
  <1>2. r \in DOMAIN row[k]
    BY <1>0, <1>1, BoundRow
  <1>s. s = [row[k] EXCEPT ![r].to = now]
    OBVIOUS
  <1> HIDE DEF r, s
  <1>3. /\ s \in Seq(RuleRow) /\ Len(s) = Len(row[k]) /\ DOMAIN s = DOMAIN row[k]
        /\ \A i \in DOMAIN row[k] :
             /\ s[i].from = row[k][i].from /\ s[i].from < s[i].to
             /\ s[i].to = row[k][i].to \/ s[i].to = now
    <2>1. MayClose(row[k][r], now)
      BY <1>1
    <2>2. Ended(s, k, now)
      BY <1>0, <1>2, <1>s, <2>1, RowClosed
    <2> QED BY <2>2 DEF Ended
  <1>4. row'[k] = s /\ (\A j \in Rule \ {k} : row'[j] = row[j]) /\ RulesTyped(row')
    BY <1>0, <1>1, <1>3, OneRule
  <1>5. RowsKept(now, {k})
    BY <1>3, <1>4 DEF RowsKept
  <1>6. NowBound(now, k, 0)
    BY <1>0, <1>3, <1>4, RuleRowTypes DEF NowBound
  <1>7. 0 \in Nat /\ {k} \in SUBSET Rule
    OBVIOUS
  <1> QED BY <1>1, <1>4, <1>5, <1>6, <1>7, RebindIInv

\* Deleting a version: the Check is told when the one in force ends before it, and
\* when one that had ended comes back.
LEMMA DeletePolicyStep ==
  ASSUME IInv, NEW w \in Writer, NEW v \in DOMAIN pol, NEW now \in 0..clock,
         DeletePolicy(w, v, now)
  PROVE  IInv'
  <1>0. TypeOK /\ StoreInv
    BY DEF IInv
  <1> DEFINE at == eval.at
             gone == InWindow(pol[v], at)
             back == {u \in {v} : pol[u].to <= at}
  <1>1. /\ MayClose(pol[v], now) /\ pol' = [pol EXCEPT ![v].to = now]
        /\ Committed(now, {}, gone, back) /\ Finish(w)
        /\ clock' = clock /\ row' = row /\ acked' = acked
    BY DEF DeletePolicy
  <1>2. now \in Time /\ now \in Nat /\ now <= clock
    BY <1>0, EditTime
  <1>3. [pol[v] EXCEPT !.to = now] \in PolicyRow
    BY <1>0, <1>2, PolicyRowTypes DEF PolicyRow
  <1>4. /\ pol' \in Seq(PolicyRow) /\ Len(pol') = Len(pol) /\ DOMAIN pol' = DOMAIN pol
        /\ \A u \in DOMAIN pol : pol'[u] = IF u = v THEN [pol[v] EXCEPT !.to = now] ELSE pol[u]
    BY <1>0, <1>1, <1>3, Types
  <1>5. \A u \in DOMAIN pol : /\ pol'[u].from = pol[u].from /\ pol'[u].rules = pol[u].rules
                              /\ pol'[u].status = pol[u].status
                              /\ pol'[u].to = IF u = v THEN now ELSE pol[u].to
    BY <1>0, <1>4, PolicyRowTypes DEF PolicyRow
  <1>6. \A u \in DOMAIN pol' : pol'[u].from < pol'[u].to
    BY <1>0, <1>1, <1>4, <1>5, PolicyRowTypes DEF MayClose
  <1>7. /\ {} \in SUBSET Rule /\ gone \in BOOLEAN
        /\ back \in SUBSET DOMAIN pol /\ back \in SUBSET (1..MaxVersion)
    <2>1. gone \in BOOLEAN
      BY Zenon DEF InWindow
    <2>2. DOMAIN pol \subseteq 1..MaxVersion
      BY <1>0, Types, Bounds
    <2>3. back \subseteq DOMAIN pol
      OBVIOUS
    <2> HIDE DEF gone, back
    <2> QED BY <2>1, <2>2, <2>3
  <1>g. (gone <=> pol[v].from <= at /\ at < pol[v].to) /\ (v \in back <=> pol[v].to <= at)
    BY DEF InWindow
  <1>b. \A u \in DOMAIN pol : u \in back => u = v
    OBVIOUS
  <1> HIDE DEF gone, back
  <1>8. TypeOK'
    <2>1. eval' \in EvalState
      BY <1>0, <1>1, <1>2, <1>7, CommittedEval
    <2>2. edit' \in [Writer -> EditState]
      BY <1>0, <1>1, FinishTyped
    <2>3. (clock \in 0..MaxTime /\ acked \in Bindings)' /\ RulesTyped(row')
      BY <1>0, <1>1, TypeByTable
    <2>4. Len(pol') \in 1..MaxVersion
      BY <1>0, <1>4 DEF TypeOK
    <2> QED BY <1>4, <1>6, <2>1, <2>2, <2>3, <2>4 DEF RulesTyped,
              TypeOK, PolicyRow, RuleRow, EditState, EvalState
  <1>9. StoreInv'
    <2>1. RuleVersionsBounded'
      BY <1>0, <1>1, <1>4 DEF StoreInv, RuleVersionsBounded
    <2>2. AcknowledgedEditsInForce'
      BY <1>0, <1>1, <1>4, <1>5, Types DEF StoreInv, AcknowledgedEditsInForce
    <2>3. BoundRowsExist'
      BY <1>0, <1>1, <1>4, <1>5 DEF StoreInv, BoundRowsExist
    <2>4. VersionsAreOld'
      BY <1>0, <1>1, <1>2, <1>4, <1>5 DEF StoreInv, VersionsAreOld
    <2> QED BY <2>1, <2>2, <2>3, <2>4 DEF StoreInv
  <1>10. PolicyKept
    BY <1>4, <1>5 DEF PolicyKept
  <1>11. RowsKept(now, {})
    BY <1>1 DEF RowsKept
  <1>12. EvalIsOld' /\ EvalExists' /\ LoadSound' /\ EvaluationComplete'
    BY <1>1, <1>2, <1>7, <1>10, <1>11, EditKeepsLoads
  <1>13. StartSound'
    <2>1. /\ eval'.pc = eval.pc /\ eval'.at = at
          /\ eval'.back = IF eval.pc = "start" /\ now > at THEN eval.back \cup back ELSE eval.back
          /\ eval'.gone <=> eval.gone \/ (eval.pc = "start" /\ now <= at /\ gone)
      <3>1. /\ eval'.pc = eval.pc /\ eval'.at = eval.at
            /\ eval'.back = IF eval.pc = "start" /\ now > eval.at THEN eval.back \cup back
                                                                ELSE eval.back
            /\ eval'.gone <=> eval.gone \/ (eval.pc = "start" /\ now <= eval.at /\ gone)
        BY <1>0, <1>1, <1>2, <1>7, CommittedEval
      <3> QED BY <3>1
    <2> SUFFICES ASSUME eval.pc = "start" PROVE StartSound'
      BY <2>1 DEF StartSound
    <2>2. /\ \A u \in DOMAIN pol : Seen(u) => InForceAlone(u)
          /\ ~eval.gone => \E u \in DOMAIN pol : Seen(u) /\ pol[u].status = "active"
      BY DEF IInv, EvalInv, StartSound
    <2>3. at \in Nat /\ \A u \in DOMAIN pol : pol[u].from \in Nat /\ pol[u].to \in Nat
      BY <1>0, EvalTypes, PolicyRowTypes
    <2>4. ASSUME NEW u \in DOMAIN pol PROVE InForceAlone(u) => InForceAlone(u)'
      BY <1>1, <1>4, <1>5, <2>1, <2>4 DEF InForceAlone
    <2>5. ASSUME NEW u \in DOMAIN pol, Seen(u)' PROVE Seen(u)
      <3>1. u \notin eval'.back /\ pol'[u].from <= at /\ at < pol'[u].to
        BY <2>1, <2>5 DEF Seen, InWindow
      <3>2. u \notin eval.back /\ pol[u].from <= at
        BY <1>5, <2>1, <3>1
      <3>3. CASE u # v
        BY <1>5, <3>1, <3>2, <3>3 DEF Seen, InWindow
      <3>4. CASE u = v
        <4>1. now > at
          BY <1>5, <3>1, <3>4
        <4>2. at < pol[v].to
          BY <1>g, <2>1, <2>3, <3>1, <3>4, <4>1
        <4> QED BY <3>2, <3>4, <4>2 DEF Seen, InWindow
      <3> QED BY <3>3, <3>4
    <2>6. ASSUME ~eval'.gone, NEW o \in DOMAIN pol, Seen(o) PROVE Seen(o)'
      <3>1. o \notin eval.back /\ pol[o].from <= at /\ at < pol[o].to
        BY <2>6 DEF Seen, InWindow
      <3>2. CASE o # v
        <4>1. o \notin eval'.back
          BY <1>b, <2>1, <3>1, <3>2
        <4> QED BY <1>5, <2>1, <3>1, <3>2, <4>1 DEF Seen, InWindow
      <3>3. CASE o = v
        <4>1. now > at
          BY <1>2, <1>g, <2>1, <2>3, <2>6, <3>1, <3>3
        <4>2. o \notin eval'.back
          BY <1>g, <2>1, <2>3, <3>1, <3>3
        <4> QED BY <1>5, <2>1, <3>1, <3>3, <4>1, <4>2 DEF Seen, InWindow
      <3> QED BY <3>2, <3>3
    <2>7. ~eval'.gone => \E u \in DOMAIN pol' : Seen(u)' /\ pol'[u].status = "active"
      BY <1>4, <1>5, <2>1, <2>2, <2>6
    <2>8. \A u \in DOMAIN pol' : Seen(u)' => InForceAlone(u)'
      BY <1>4, <2>2, <2>4, <2>5
    <2> QED BY <2>7, <2>8 DEF StartSound
  <1> QED BY <1>8, <1>9, <1>12, <1>13 DEF IInv, EvalInv

-----------------------------------------------------------------------------
(***************************************************************************)
(* The other steps of a writer, and the clock.                             *)
(***************************************************************************)

\* A step of a writer that writes nothing.
LEMMA WriterStep ==
  ASSUME IInv, UNCHANGED <<clock, pol, row, eval, acked>>, edit' \in [Writer -> EditState]
  PROVE  IInv'
  <1>1. clock' = clock /\ pol' = pol /\ row' = row /\ eval' = eval /\ acked' = acked
    OBVIOUS
  <1>2. TypeOK'
    BY <1>1 DEF IInv, TypeOK, EditState
  <1>3. StoreInv'
    BY <1>1 DEF IInv, StoreInv, RuleVersionsBounded, AcknowledgedEditsInForce, BoundRowsExist,
          VersionsAreOld
  <1>4. EvalInv'
    BY <1>1 DEF IInv, EvalInv, EvalIsOld, StartSound, LoadSound, EvaluationComplete,
          EvalExists, Seen, InForceAlone, Found
  <1> QED BY <1>2, <1>3, <1>4 DEF IInv

\* Reading a version of the policy.
LEMMA ReadVersionStep ==
  ASSUME IInv, NEW w \in Writer, NEW v \in DOMAIN pol, ReadVersion(w, v)
  PROVE  IInv'
  <1>1. v \in 1..MaxVersion
    BY Types, Bounds DEF IInv
  <1> DEFINE d == [NoEdit EXCEPT !.pc = "read"]
             e == [d EXCEPT !.ver = v]
  <1>2. d \in EditState
    BY Bounds DEF NoEdit, EditState
  <1>3. edit' = [edit EXCEPT ![w] = e]
    BY Zenon DEF ReadVersion
  <1> HIDE DEF d
  <1>4. e \in EditState
    BY <1>1, <1>2 DEF EditState
  <1> HIDE DEF e
  <1>5. edit' \in [Writer -> EditState]
    BY <1>4, <1>3, Types DEF IInv
  <1> QED BY <1>5, WriterStep DEF ReadVersion

\* The begin of a transaction.
LEMMA BeginTransactionStep ==
  ASSUME IInv, NEW w \in Writer, BeginTransaction(w)
  PROVE  IInv'
  <1>0. TypeOK
    BY DEF IInv
  <1>1. clock \in Time
    BY <1>0, Types, Bounds, Times
  <1> DEFINE e == [edit[w] EXCEPT !.pc = "tx"]
             f == [e EXCEPT !.now = clock]
  <1>2. edit[w] \in EditState
    BY <1>0, Types
  <1>3. e \in EditState
    BY <1>2 DEF EditState
  <1>4. edit' = [edit EXCEPT ![w] = f]
    BY <1>0, Types, Zenon DEF BeginTransaction
  <1> HIDE DEF e
  <1>5. f \in EditState
    BY <1>1, <1>3 DEF EditState
  <1> HIDE DEF f
  <1>6. edit' \in [Writer -> EditState]
    BY <1>0, <1>4, <1>5, Types
  <1> QED BY <1>6, WriterStep DEF BeginTransaction

\* A transaction that fails.
LEMMA RollBackStep ==
  ASSUME IInv, NEW w \in Writer, RollBack(w)
  PROVE  IInv'
  <1>1. edit' \in [Writer -> EditState]
    BY FinishTyped DEF IInv, RollBack
  <1> QED BY <1>1, WriterStep DEF RollBack

\* Time passes.
LEMMA TickStep ==
  ASSUME IInv, Tick
  PROVE  IInv'
  <1>1. /\ clock' = clock + 1 /\ clock < MaxTime
        /\ pol' = pol /\ row' = row /\ eval' = eval /\ acked' = acked /\ edit' = edit
    BY DEF Tick
  <1>2. TypeOK /\ clock \in Nat
    BY Types DEF IInv
  <1>3. TypeOK'
    <2>1. clock' \in 0..MaxTime
      BY <1>1, <1>2, Bounds
    <2> QED BY <1>1, <1>2, <2>1 DEF TypeOK
  <1>4. StoreInv'
    <2>1. VersionsAreOld'
      <3> SUFFICES ASSUME NEW v \in DOMAIN pol
                   PROVE  /\ pol[v].from <= clock + 1
                          /\ v # Len(pol) => pol[v].to <= clock + 1
        BY <1>1 DEF VersionsAreOld
      <3>1. pol[v].from <= clock /\ (v # Len(pol) => pol[v].to <= clock)
        BY DEF IInv, StoreInv, VersionsAreOld
      <3>2. pol[v].from \in Nat /\ pol[v].to \in Nat
        BY <1>2, PolicyRowTypes
      <3> QED BY <1>2, <3>1, <3>2
    <2> QED BY <1>1, <2>1 DEF IInv, StoreInv, RuleVersionsBounded, AcknowledgedEditsInForce,
              BoundRowsExist
  <1>5. EvalInv'
    <2>1. EvalIsOld'
      BY <1>1, <1>2, EvalTypes DEF IInv, EvalInv, EvalIsOld
    <2> QED BY <1>1, <2>1 DEF IInv, EvalInv, StartSound, LoadSound, EvaluationComplete,
              EvalExists, Seen, InForceAlone, Found
  <1> QED BY <1>3, <1>4, <1>5 DEF IInv

-----------------------------------------------------------------------------
(***************************************************************************)
(* The steps of a Check.                                                   *)
(***************************************************************************)

\* A step of the Check writes no table.
LEMMA CheckKeepsStore ==
  ASSUME IInv, UNCHANGED <<clock, pol, row, edit, acked>>, eval' \in EvalState
  PROVE  TypeOK' /\ StoreInv'
  <1>1. clock' = clock /\ pol' = pol /\ row' = row /\ edit' = edit /\ acked' = acked
    OBVIOUS
  <1>2. TypeOK'
    BY <1>1 DEF IInv, TypeOK, EvalState
  <1>3. StoreInv'
    BY <1>1 DEF IInv, StoreInv, RuleVersionsBounded, AcknowledgedEditsInForce, BoundRowsExist,
          VersionsAreOld
  <1> QED BY <1>2, <1>3

\* The Check fixes its time: the latest version alone is in force.
LEMMA StartEvaluationStep ==
  ASSUME IInv, StartEvaluation
  PROVE  IInv'
  <1>0. TypeOK /\ StoreInv
    BY DEF IInv
  <1> DEFINE L == Len(pol)
             g == pol[L].to # Infinity \/ pol[L].status # "active"
             e == [pc |-> "start", at |-> clock, found |-> {}, rules |-> {}, gone |-> g,
                   back |-> {}, closed |-> {}]
  <1>1. eval' = e
    BY DEF StartEvaluation, NoEval
  <1>2. clock' = clock /\ pol' = pol /\ row' = row /\ edit' = edit /\ acked' = acked
    BY DEF StartEvaluation
  <1>3. clock \in Nat /\ clock < Infinity /\ clock \in Time
    BY <1>0, Types, Bounds, Times
  <1>4. g \in BOOLEAN
    OBVIOUS
  <1>5. g <=> (pol[L].to # Infinity \/ pol[L].status # "active")
    OBVIOUS
  <1> HIDE DEF g
  <1>6. e \in EvalState /\ e.pc = "start" /\ e.at = clock /\ e.gone = g
        /\ e.back = {} /\ e.found = {}
    BY <1>3, <1>4 DEF EvalState
  <1> HIDE DEF e
  <1>7. TypeOK' /\ StoreInv'
    BY <1>1, <1>2, <1>6, CheckKeepsStore
  <1>8. /\ L \in DOMAIN pol /\ DOMAIN pol = 1..L
        /\ \A u \in DOMAIN pol : /\ pol[u].from \in Nat /\ pol[u].to \in Nat
                                  /\ pol[u].from <= clock /\ (u # L => pol[u].to <= clock)
        /\ \A k \in Rule : pol[L].rules[k] # 0 => row[k][pol[L].rules[k]].to = Infinity
    BY <1>0, Types, PolicyRowTypes DEF StoreInv, VersionsAreOld, AcknowledgedEditsInForce
  <1>l. L \in Nat
    BY <1>0, Types
  <1>m. PICK m \in DOMAIN pol : m = L
    BY <1>8
  <1> HIDE DEF L
  <1>9. StartSound'
    <2>1. eval'.at = clock /\ eval'.back = {} /\ (eval'.gone <=> g)
      BY <1>1, <1>6
    <2>2. ASSUME NEW u \in DOMAIN pol, Seen(u)' PROVE u = L
      BY <1>2, <1>3, <1>8, <2>1, <2>2 DEF Seen, InWindow
    <2>3. InForceAlone(m)'
      <3>1. \A u \in DOMAIN pol : ~(u > m)
        BY <1>8, <1>l, <1>m
      <3>2. \A k \in Rule : pol[m].rules[k] # 0 => row[k][pol[m].rules[k]].to > clock
        BY <1>3, <1>8, <1>m, Bounds
      <3> QED BY <1>2, <2>1, <3>1, <3>2 DEF InForceAlone
    <2>4. ASSUME ~g PROVE Seen(m)' /\ pol'[m].status = "active"
      <3>1. pol[m].from <= clock /\ clock < pol[m].to /\ pol[m].status = "active"
        BY <1>3, <1>5, <1>8, <1>m, <2>4
      <3> QED BY <1>2, <2>1, <3>1 DEF Seen, InWindow
    <2> QED BY <1>2, <1>m, <2>1, <2>2, <2>3, <2>4 DEF StartSound
  <1>10. EvalIsOld' /\ EvalExists' /\ LoadSound' /\ EvaluationComplete'
    BY <1>1, <1>2, <1>3, <1>6 DEF EvalIsOld, EvalExists, LoadSound, EvaluationComplete
  <1> QED BY <1>7, <1>9, <1>10 DEF IInv, EvalInv

\* The first query finds the version in force.
LEMMA LoadPoliciesStep ==
  ASSUME IInv, LoadPolicies
  PROVE  IInv'
  <1>0. TypeOK /\ StoreInv /\ EvalInv
    BY DEF IInv
  <1> DEFINE f == {v \in DOMAIN pol : pol[v].status = "active" /\ InWindow(pol[v], eval.at)}
             e == [eval EXCEPT !.pc = "policies"]
             d == [e EXCEPT !.found = f]
  <1>1. eval.pc = "start" /\ eval' = d
    BY Zenon DEF LoadPolicies
  <1>2. clock' = clock /\ pol' = pol /\ row' = row /\ edit' = edit /\ acked' = acked
    BY DEF LoadPolicies
  <1>3. f \in SUBSET (1..MaxVersion)
    BY <1>0, Types, Bounds
  <1>4. /\ e \in EvalState /\ e.pc = "policies" /\ e.at = eval.at /\ e.gone = eval.gone
        /\ e.back = eval.back
    BY <1>0, Types DEF EvalState
  <1> HIDE DEF e
  <1>f. f = {v \in DOMAIN pol : pol[v].status = "active" /\ InWindow(pol[v], eval.at)}
    OBVIOUS
  <1> HIDE DEF f
  <1>5. /\ d \in EvalState /\ d.pc = "policies" /\ d.at = eval.at /\ d.gone = eval.gone
        /\ d.found = f /\ d.back = eval.back
    BY <1>3, <1>4 DEF EvalState
  <1> HIDE DEF d
  <1>6. TypeOK' /\ StoreInv'
    BY <1>1, <1>2, <1>5, CheckKeepsStore
  <1>7. LoadSound'
    <2>1. \A v \in f \ eval.back : v \in DOMAIN pol /\ Seen(v) /\ InForceAlone(v)
      BY <1>0, <1>1, <1>f DEF EvalInv, StartSound, Seen
    <2>2. \A v \in DOMAIN pol : Seen(v) /\ pol[v].status = "active" => v \in f \ eval.back
      BY <1>f DEF Seen
    <2>3. f \ eval.back = {} => eval.gone
      BY <1>0, <1>1, <2>2 DEF EvalInv, StartSound
    <2>4. ASSUME NEW u \in f \ eval.back, NEW v \in f \ eval.back PROVE u = v
      <3>1. u \in Nat /\ v \in Nat /\ eval.at \in Nat
        BY <1>0, <2>1, Types, EvalTypes
      <3>2. pol[u].from <= eval.at /\ pol[v].from <= eval.at
        BY <2>1 DEF Seen, InWindow
      <3>3. pol[u].from \in Nat /\ pol[v].from \in Nat
        BY <1>0, <2>1, PolicyRowTypes
      <3>4. ~(u > v) /\ ~(v > u)
        BY <2>1, <3>1, <3>2, <3>3 DEF InForceAlone
      <3> QED BY <3>1, <3>4
    <2>5. ASSUME NEW v \in f \ eval.back, NEW k \in Rule, pol[v].rules[k] # 0
          PROVE  Found(v, k)'
      <3> DEFINE r == pol[v].rules[k]
      <3>0. v \in DOMAIN pol
        BY <2>1
      <3>1. r \in DOMAIN row[k] /\ row[k][r].from <= pol[v].from + 1
        BY <1>0, <2>5, <3>0, BoundRow DEF StoreInv
      <3>2. row[k][r].from \in Nat /\ row[k][r].to \in Nat
        BY <1>0, <3>1, RuleRowTypes
      <3>3. pol[v].from \in Nat /\ pol[v].from <= eval.at /\ eval.at \in Nat
        BY <1>0, <2>1, <3>0, PolicyRowTypes, EvalTypes DEF Seen, InWindow
      <3>4. row[k][r].to > eval.at
        BY <2>1, <2>5 DEF InForceAlone
      <3>5. \/ row[k][r].from <= eval.at /\ eval.at < row[k][r].to
            \/ pol[v].from = eval.at /\ row[k][r].from > eval.at
        BY <3>1, <3>2, <3>3, <3>4
      <3>6. InWindow(row[k][r], eval.at) \/ (pol[v].from = eval.at /\ row[k][r].from > eval.at)
        BY <3>5 DEF InWindow
      <3>7. eval'.at = eval.at
        BY <1>1, <1>5
      <3> QED BY <1>2, <3>6, <3>7 DEF Found
    <2>6. eval'.found \ eval'.back = f \ eval.back /\ (eval'.gone <=> eval.gone)
      BY <1>1, <1>5
    <2> QED BY <1>2, <2>3, <2>4, <2>5, <2>6 DEF LoadSound
  <1>8. EvalIsOld' /\ EvalExists' /\ StartSound' /\ EvaluationComplete'
    BY <1>0, <1>1, <1>2, <1>5, <1>f
    DEF EvalInv, EvalIsOld, EvalExists, StartSound, EvaluationComplete
  <1> QED BY <1>6, <1>7, <1>8 DEF IInv, EvalInv

\* The second query finds the rules that are still in force.
LEMMA LoadRulesStep ==
  ASSUME IInv, LoadRules
  PROVE  IInv'
  <1>0. TypeOK /\ StoreInv /\ EvalInv
    BY DEF IInv
  <1> DEFINE f == {k \in Rule : \E v \in eval.found : RuleInForce(v, k)}
             e == [eval EXCEPT !.pc = "done"]
             d == [e EXCEPT !.rules = f]
  <1>1. eval.pc = "policies" /\ eval' = d
    BY Zenon DEF LoadRules
  <1>2. clock' = clock /\ pol' = pol /\ row' = row /\ edit' = edit /\ acked' = acked
    BY DEF LoadRules
  <1>3. f \in SUBSET Rule
    OBVIOUS
  <1>4. /\ e \in EvalState /\ e.pc = "done" /\ e.at = eval.at /\ e.gone = eval.gone
        /\ e.found = eval.found /\ e.closed = eval.closed /\ e.back = eval.back
    BY <1>0, Types DEF EvalState
  <1> HIDE DEF e
  <1>f. \A k \in Rule, v \in eval.found : RuleInForce(v, k) => k \in f
    OBVIOUS
  <1> HIDE DEF f
  <1>5. /\ d \in EvalState /\ d.pc = "done" /\ d.at = eval.at /\ d.gone = eval.gone
        /\ d.found = eval.found /\ d.closed = eval.closed /\ d.rules = f
        /\ d.back = eval.back
    BY <1>3, <1>4 DEF EvalState
  <1> HIDE DEF d
  <1>6. TypeOK' /\ StoreInv'
    BY <1>1, <1>2, <1>5, CheckKeepsStore
  <1>7. EvaluationComplete'
    <2>1. /\ eval.found \ eval.back = {} => eval.gone
          /\ \A u, v \in eval.found \ eval.back : u = v
          /\ \A v \in eval.found \ eval.back, k \in Rule :
               pol[v].rules[k] # 0 => Found(v, k)
      BY <1>0, <1>1 DEF EvalInv, LoadSound
    <2>2. ASSUME NEW v \in eval.found \ eval.back, NEW k \in Rule, pol[v].rules[k] # 0
          PROVE  \/ k \in f \cup eval.closed
                 \/ pol[v].from = eval.at /\ row[k][pol[v].rules[k]].from > eval.at
      <3>1. InWindow(row[k][pol[v].rules[k]], eval.at) => k \in f
        BY <1>f, <2>2 DEF RuleInForce
      <3> QED BY <2>1, <2>2, <3>1 DEF Found
    <2>3. /\ eval'.found \ eval'.back = eval.found \ eval.back /\ eval'.at = eval.at
          /\ eval'.rules \cup eval'.closed = f \cup eval.closed
          /\ (eval'.gone <=> eval.gone)
      BY <1>1, <1>5
    <2> QED BY <1>2, <2>1, <2>2, <2>3 DEF EvaluationComplete
  <1>8. EvalIsOld' /\ EvalExists' /\ StartSound' /\ LoadSound'
    BY <1>0, <1>1, <1>2, <1>5 DEF EvalInv, EvalIsOld, EvalExists, StartSound, LoadSound
  <1> QED BY <1>6, <1>7, <1>8 DEF IInv, EvalInv

\* A Check that has loaded the policy, or has not begun.
LEMMA NoEvalSound ==
  ASSUME eval' = NoEval
  PROVE  eval' \in EvalState /\ EvalInv'
  <1>1. /\ eval' \in EvalState /\ eval'.pc = "idle"
        /\ eval'.found = {} /\ eval'.back = {}
    BY Bounds DEF NoEval, EvalState
  <1> QED BY <1>1 DEF EvalInv, EvalIsOld, EvalExists, StartSound, LoadSound, EvaluationComplete

\* The end of a Check.
LEMMA FinishEvaluationStep ==
  ASSUME IInv, FinishEvaluation
  PROVE  IInv'
  BY NoEvalSound, CheckKeepsStore DEF IInv, FinishEvaluation

-----------------------------------------------------------------------------
(***************************************************************************)
(* The theorems.                                                           *)
(***************************************************************************)

\* The invariant holds at first.
LEMMA InitIInv == Init => IInv
  <1> SUFFICES ASSUME Init PROVE IInv
    OBVIOUS
  <1> DEFINE p == [from |-> 0, to |-> Infinity, rules |-> acked, status |-> "active"]
             q == [from |-> 0, to |-> Infinity]
  <1>1. /\ clock = 0 /\ pol = <<p>> /\ eval = NoEval
        /\ row = [k \in Rule |-> IF acked[k] = 0 THEN <<>> ELSE <<q>>]
    BY DEF Init
  <1>2. acked \in Bindings /\ \A k \in Rule : acked[k] \in {0, 1}
    BY Bounds DEF Init, Bindings
  <1>3. p \in PolicyRow /\ p.from = 0 /\ p.to = Infinity /\ p.rules = acked
    BY <1>2, Bounds DEF PolicyRow, Status
  <1>4. q \in RuleRow /\ q.from = 0 /\ q.to = Infinity
    BY Bounds DEF RuleRow
  <1> HIDE DEF p, q
  <1>5. pol \in Seq(PolicyRow) /\ Len(pol) = 1 /\ DOMAIN pol = {1} /\ pol[1] = p
    BY <1>1, <1>3
  <1>6. PolicyTyped(pol)
    BY <1>3, <1>5, Bounds DEF PolicyTyped
  <1>7. ASSUME NEW k \in Rule
        PROVE  /\ row[k] \in Seq(RuleRow)
               /\ acked[k] = 0 => Len(row[k]) = 0 /\ DOMAIN row[k] = {}
               /\ acked[k] # 0 => Len(row[k]) = 1 /\ DOMAIN row[k] = {1} /\ row[k][1] = q
    <2>1. row[k] = IF acked[k] = 0 THEN <<>> ELSE <<q>>
      BY <1>1
    <2>2. /\ <<>> \in Seq(RuleRow) /\ Len(<<>>) = 0 /\ DOMAIN <<>> = {}
          /\ <<q>> \in Seq(RuleRow) /\ Len(<<q>>) = 1 /\ DOMAIN <<q>> = {1} /\ <<q>>[1] = q
      BY <1>4
    <2> QED BY <2>1, <2>2
  <1>8. RulesTyped(row)
    <2>1. row \in [Rule -> Seq(RuleRow)]
      BY <1>1, <1>7
    <2>2. ASSUME NEW k \in Rule, NEW r \in DOMAIN row[k] PROVE row[k][r].from < row[k][r].to
      BY <1>4, <1>7, Bounds
    <2> QED BY <2>1, <2>2 DEF RulesTyped
  <1>9. edit \in [Writer -> EditState]
    BY Bounds DEF Init, NoEdit, EditState
  <1>10. eval \in EvalState /\ EvalInv
    <2>1. /\ eval \in EvalState /\ eval.pc = "idle"
          /\ eval.found = {} /\ eval.back = {}
      BY <1>1, Bounds DEF NoEval, EvalState
    <2> QED BY <2>1 DEF EvalInv, EvalIsOld, EvalExists, StartSound, LoadSound,
              EvaluationComplete
  <1>11. TypeOK
    <2>1. clock \in 0..MaxTime
      BY <1>1, Bounds
    <2> QED BY <1>2, <1>6, <1>8, <1>9, <1>10, <2>1, TypeByTable
  <1>12. RuleVersionsBounded
    <2>1. ASSUME NEW k \in Rule PROVE Len(row[k]) <= 1
      <3>1. CASE acked[k] = 0
        BY <1>7, <3>1
      <3>2. CASE acked[k] # 0
        <4>1. Len(row[k]) = 1
          BY <1>7, <3>2, Zenon
        <4> QED BY <4>1
      <3> QED BY <3>1, <3>2
    <2>2. Len(pol) = 1
      BY <1>5
    <2> QED BY <2>1, <2>2 DEF RuleVersionsBounded
  <1>13. AcknowledgedEditsInForce
    BY <1>2, <1>3, <1>4, <1>5, <1>7 DEF AcknowledgedEditsInForce
  <1>14. BoundRowsExist
    <2> SUFFICES ASSUME NEW k \in Rule, acked[k] # 0
                 PROVE  acked[k] <= Len(row[k]) /\ row[k][acked[k]].from <= 1
      BY <1>3, <1>5 DEF BoundRowsExist
    <2> QED BY <1>2, <1>4, <1>7
  <1>15. VersionsAreOld
    BY <1>1, <1>3, <1>5 DEF VersionsAreOld
  <1> QED BY <1>10, <1>11, <1>12, <1>13, <1>14, <1>15 DEF IInv, StoreInv

\* Every edit keeps the invariant.
LEMMA EditStep ==
  ASSUME IInv, NEW w \in Writer, NEW v \in DOMAIN pol, NEW now \in 0..clock, Edit(w, v, now)
  PROVE  IInv'
  <1>1. CASE \E s \in Status : PatchPolicy(w, v, now, s)
    BY <1>1, PatchPolicyStep
  <1>2. CASE ReorderRules(w, v, now)
    BY <1>2, ReorderRulesStep
  <1>3. CASE DeletePolicy(w, v, now)
    BY <1>3, DeletePolicyStep
  <1>4. ASSUME NEW k \in Rule, PostRule(w, v, now, k) PROVE IInv'
    BY <1>4, PostRuleStep
  <1>5. ASSUME NEW k \in Rule, PatchRule(w, v, now, k) PROVE IInv'
    BY <1>5, PatchRuleStep
  <1>6. ASSUME NEW k \in Rule, DeleteRule(w, v, now, k) PROVE IInv'
    BY <1>6, DeleteRuleStep
  <1> QED BY <1>1, <1>2, <1>3, <1>4, <1>5, <1>6 DEF Edit

\* Every step keeps the invariant.
LEMMA NextIInv == IInv /\ [Next]_vars => IInv'
  <1> SUFFICES ASSUME IInv, [Next]_vars PROVE IInv'
    OBVIOUS
  <1>1. ASSUME NEW w \in Writer, NEW v \in DOMAIN pol, ReadVersion(w, v) PROVE IInv'
    BY <1>1, ReadVersionStep
  <1>2. ASSUME NEW w \in Writer, NEW v \in DOMAIN pol, NEW now \in 0..clock, Edit(w, v, now)
        PROVE  IInv'
    BY <1>2, EditStep
  <1>3. ASSUME NEW w \in Writer, BeginTransaction(w) \/ RollBack(w) PROVE IInv'
    BY <1>3, BeginTransactionStep, RollBackStep
  <1>4. ASSUME StartEvaluation \/ LoadPolicies \/ LoadRules \/ FinishEvaluation PROVE IInv'
    BY <1>4, StartEvaluationStep, LoadPoliciesStep, LoadRulesStep, FinishEvaluationStep
  <1>5. CASE Tick
    BY <1>5, TickStep
  <1>6. CASE UNCHANGED vars
    <2>1. edit' \in [Writer -> EditState]
      BY <1>6, Types DEF IInv, vars
    <2> QED BY <1>6, <2>1, WriterStep DEF vars
  <1> QED BY <1>1, <1>2, <1>3, <1>4, <1>5, <1>6 DEF Next

\* Every behaviour keeps the invariant.
THEOREM Invariance == Spec => []IInv
  BY InitIInv, NextIInv, PTL DEF Spec

\* The tables stay within their types and their checks: no row ends before it
\* begins, whatever the writers read before their transactions.
THEOREM TypeCorrect == Spec => []TypeOK
  <1>1. IInv => TypeOK
    BY DEF IInv
  <1> QED BY <1>1, Invariance, PTL

\* However the routes of policies and rules interleave, the latest version of
\* the policy binds what the acknowledged edits amount to, in rows in force.
THEOREM EditsInForce == Spec => []AcknowledgedEditsInForce
  <1>1. IInv => AcknowledgedEditsInForce
    BY DEF IInv, StoreInv
  <1> QED BY <1>1, Invariance, PTL

\* However edits fall before and between the queries of loadEffectivePolicy, it
\* returns one version of the policy with all its rules, but for the four exceptions
\* that EvaluationComplete names: a policy that is gone, an ended version that a DELETE
\* put back, a rule closed between the queries, a rule posted in that millisecond.
THEOREM EvaluationIsComplete == Spec => []EvaluationComplete
  <1>1. IInv => EvaluationComplete
    BY DEF IInv, EvalInv
  <1> QED BY <1>1, Invariance, PTL
=============================================================================
