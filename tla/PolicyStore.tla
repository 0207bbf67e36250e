---------------------------- MODULE PolicyStore ----------------------------
(***************************************************************************)
(* Policies and rules as effective-dated versions: the routes that edit    *)
(* them (policies/detail-routes.ts, policies/versioning.ts,                *)
(* rules/policy-routes.ts, rules/detail-routes.ts), each of which reads    *)
(* its row, takes the time and runs one transaction, and the two queries   *)
(* with which a Check loads them (loadEffectivePolicy).  No lock orders    *)
(* them: the unique indexes and the valid_window checks of policies and    *)
(* rules reject an edit of a superseded version, and the Check fixes       *)
(* effectiveAt before it reads.  The clock counts the milliseconds of a    *)
(* JavaScript Date.                                                        *)
(*                                                                         *)
(* One policy, its rules by rule_key.  Version n of the policy, or of a    *)
(* rule, is the n-th element of a sequence.  What an edit writes into a    *)
(* row beyond its bindings and its status is left out.                     *)
(***************************************************************************)
EXTENDS Integers, Sequences

CONSTANTS
    Rule,          \* rule keys
    Writer,        \* requests that edit the policy
    MaxVersion,    \* bound: versions of the policy
    MaxTime        \* bound: the clock

ASSUME PolicyStoreAssumption ==
    MaxVersion \in Nat \ {0} /\ MaxTime \in Nat

VARIABLES
    clock,
    pol,      \* policies and policy_rule_bindings: the versions of the policy
    row,      \* rules: the versions of each rule
    edit,     \* the edit each writer is in
    eval,     \* a Check in loadEffectivePolicy
    acked     \* history: the rule versions the acknowledged edits amount to

vars == <<clock, pol, row, edit, eval, acked>>

\* VALID_TO_INFINITY, later than any time a row can begin at.
Infinity == MaxTime + 2
Time     == 0..Infinity

Status == {"active", "draft", "archived"}

\* A rule_key is bound to a version of the rule, or to 0 when it is not bound.
Bindings == [Rule -> 0..MaxVersion]

NoEdit == [pc |-> "idle", ver |-> 1, now |-> 0]

\* The last three fields are history: see Committed.
NoEval == [pc |-> "idle", at |-> 0, found |-> {}, rules |-> {}, gone |-> FALSE,
           back |-> {}, closed |-> {}]

\* The one type invariant of this module.
TypeOK ==
    /\ clock \in 0..MaxTime
    /\ pol \in Seq([from : Time, to : Time, rules : Bindings, status : Status])
    /\ Len(pol) \in 1..MaxVersion
    /\ \A v \in DOMAIN pol : pol[v].from < pol[v].to
    /\ row \in [Rule -> Seq([from : Time, to : Time])]
    /\ \A k \in Rule : \A r \in DOMAIN row[k] : row[k][r].from < row[k][r].to
    /\ edit \in [Writer -> [pc : {"idle", "read", "tx"}, ver : 1..MaxVersion, now : Time]]
    /\ eval \in [pc : {"idle", "start", "policies", "done"}, at : Time,
                 found : SUBSET (1..MaxVersion), rules : SUBSET Rule,
                 gone : BOOLEAN, back : SUBSET (1..MaxVersion), closed : SUBSET Rule]
    /\ acked \in Bindings

\* A policy as ensureStarterPolicy provisions it, with some of the rules.
Init ==
    /\ clock = 0
    /\ acked \in [Rule -> {0, 1}]
    /\ pol = <<[from |-> 0, to |-> Infinity, rules |-> acked, status |-> "active"]>>
    /\ row = [k \in Rule |-> IF acked[k] = 0 THEN <<>>
                                             ELSE <<[from |-> 0, to |-> Infinity]>>]
    /\ edit = [w \in Writer |-> NoEdit]
    /\ eval = NoEval

-----------------------------------------------------------------------------
(* Edits.                                                                   *)

\* loadPolicyForTenant: the client names any version, superseded or not.
\* getRuleForTenant: it names any version of a rule, and the left join takes one
\* of the policy versions that bind it, in no order.  The columns that are read
\* never change, so what they say is looked up when the edit is made.
ReadVersion(w, v) ==
    /\ edit[w].pc = "idle"
    /\ edit' = [edit EXCEPT ![w] = [NoEdit EXCEPT !.pc = "read", !.ver = v]]
    /\ UNCHANGED <<clock, pol, row, eval, acked>>

\* The transaction begins: now = new Date().
BeginTransaction(w) ==
    /\ edit[w].pc = "read"
    /\ edit' = [edit EXCEPT ![w].pc = "tx", ![w].now = clock]
    /\ UNCHANGED <<clock, pol, row, eval, acked>>

\* Mutant: a row may end when it begins.
ClosesEmpty(r, now) == r.from <= now

\* policies_valid_window and rules_valid_window, when effective_to is set.
MayClose(r, now) == r.from < now

\* Mutant: the version of the policy is not unique.
NoVersionIndex(v) == Len(pol) < MaxVersion

\* policies_policy_key_version_idx and policies_current_policy_key_idx: no
\* version follows v.
PolicyVersionUnique(v) == v = Len(pol) /\ Len(pol) < MaxVersion

\* createNextPolicyVersion.
CreateNextPolicyVersion(v, now, rules, status) ==
    /\ PolicyVersionUnique(v)
    /\ MayClose(pol[v], now)
    /\ pol' = Append([pol EXCEPT ![v].to = now],
                     [from |-> now, to |-> Infinity, rules |-> rules, status |-> status])

InWindow(r, t) == r.from <= t /\ t < r.to

\* History: what a transaction stamped now means to a Check in progress when it
\* commits.  Before the first query it may have ended the policy at a time not
\* after the Check (gone) or moved the end of versions that had ended before the
\* Check to after it (back); between the two queries, and stamped not after the
\* Check, it may have closed rows of the rules keys.
Committed(now, keys, gone, back) ==
    LET before == eval.pc = "start"
    IN  eval' = [eval EXCEPT
                   !.gone = @ \/ (before /\ now <= eval.at /\ gone),
                   !.back = IF before /\ now > eval.at THEN @ \cup back ELSE @,
                   !.closed = IF eval.pc = "policies" /\ now <= eval.at
                                THEN @ \cup keys ELSE @]

Finish(w) == edit' = [edit EXCEPT ![w] = NoEdit]

\* The transaction of an edit of version v at time now that succeeds.
Commits(w, v, now) == edit[w] = [pc |-> "tx", ver |-> v, now |-> now]

\* PATCH /v1/policies/:id.
PatchPolicy(w, v, now, status) ==
    /\ Commits(w, v, now)
    /\ pol[v].status # "archived"
    /\ CreateNextPolicyVersion(v, now, pol[v].rules, status)
    /\ Committed(now, {}, status # "active", {})
    /\ Finish(w)
    /\ UNCHANGED <<clock, row, acked>>

\* PATCH /v1/policies/:id/rules/order.
ReorderRules(w, v, now) ==
    /\ Commits(w, v, now)
    /\ CreateNextPolicyVersion(v, now, pol[v].rules, pol[v].status)
    /\ Committed(now, {}, FALSE, {})
    /\ Finish(w)
    /\ UNCHANGED <<clock, row, acked>>

\* DELETE /v1/policies/:id closes the named version, current or not.
DeletePolicy(w, v, now) ==
    /\ Commits(w, v, now)
    /\ MayClose(pol[v], now)
    /\ pol' = [pol EXCEPT ![v].to = now]
    /\ Committed(now, {}, InWindow(pol[v], eval.at), {u \in {v} : pol[u].to <= eval.at})
    /\ Finish(w)
    /\ UNCHANGED <<clock, row, acked>>

\* Version v is replaced by one that binds version r of rule k; keys are the
\* rules of which a row is closed.
Rebind(w, v, now, k, r, keys) ==
    /\ CreateNextPolicyVersion(v, now, [pol[v].rules EXCEPT ![k] = r], pol[v].status)
    /\ acked' = [acked EXCEPT ![k] = r]
    /\ Committed(now, keys, FALSE, {})
    /\ Finish(w)
    /\ UNCHANGED clock

\* POST /v1/policies/:id/rules.  effective_from of the rule is the default of
\* its column: the database's clock at the begin of the transaction, in
\* microseconds, so that it may follow now within the millisecond.
PostRule(w, v, now, k) ==
    /\ Commits(w, v, now)
    /\ pol[v].status # "archived"
    /\ row[k] = <<>>
    /\ \E from \in {now, now + 1} :
         row' = [row EXCEPT ![k] = <<[from |-> from, to |-> Infinity]>>]
    /\ Rebind(w, v, now, k, 1, {})

\* PATCH /v1/rules/:id; rules_rule_key_version_idx.
PatchRule(w, v, now, k) ==
    LET r == pol[v].rules[k] IN
    /\ Commits(w, v, now)
    /\ pol[v].status # "archived"
    /\ r # 0 /\ r = Len(row[k])
    /\ MayClose(row[k][r], now)
    /\ row' = [row EXCEPT ![k] = Append([@ EXCEPT ![r].to = now],
                                        [from |-> now, to |-> Infinity])]
    /\ Rebind(w, v, now, k, r + 1, {k})

\* DELETE /v1/rules/:id.
DeleteRule(w, v, now, k) ==
    LET r == pol[v].rules[k] IN
    /\ Commits(w, v, now)
    /\ r # 0
    /\ MayClose(row[k][r], now)
    /\ row' = [row EXCEPT ![k][r].to = now]
    /\ Rebind(w, v, now, k, 0, {k})

\* The transaction is rolled back: a unique index (of the version, or of the
\* order_index of a binding) or a check is violated, or the database fails.
RollBack(w) ==
    /\ edit[w].pc = "tx"
    /\ Finish(w)
    /\ UNCHANGED <<clock, pol, row, eval, acked>>

-----------------------------------------------------------------------------
(* loadEffectivePolicy.                                                     *)

StartEvaluation ==
    /\ eval.pc = "idle"
    /\ eval' = [NoEval EXCEPT !.pc = "start", !.at = clock,
                             !.gone = pol[Len(pol)].to # Infinity
                                      \/ pol[Len(pol)].status # "active"]
    /\ UNCHANGED <<clock, pol, row, edit, acked>>

\* The first query, one statement: the versions of the policy in force.
LoadPolicies ==
    /\ eval.pc = "start"
    /\ eval' = [eval EXCEPT !.pc = "policies",
                            !.found = {v \in DOMAIN pol : /\ pol[v].status = "active"
                                                          /\ InWindow(pol[v], eval.at)}]
    /\ UNCHANGED <<clock, pol, row, edit, acked>>

\* Mutant: the rules are read as of the second query.
RuleInForceNow(v, k) ==
    pol[v].rules[k] # 0 /\ row[k][pol[v].rules[k]].to = Infinity

RuleInForce(v, k) ==
    pol[v].rules[k] # 0 /\ InWindow(row[k][pol[v].rules[k]], eval.at)

\* The second query: their bindings, joined with the rules in force.
LoadRules ==
    /\ eval.pc = "policies"
    /\ eval' = [eval EXCEPT !.pc = "done",
                            !.rules = {k \in Rule : \E v \in eval.found : RuleInForce(v, k)}]
    /\ UNCHANGED <<clock, pol, row, edit, acked>>

FinishEvaluation ==
    /\ eval.pc = "done"
    /\ eval' = NoEval
    /\ UNCHANGED <<clock, pol, row, edit, acked>>

Tick ==
    /\ clock < MaxTime
    /\ clock' = clock + 1
    /\ UNCHANGED <<pol, row, edit, eval, acked>>

Edit(w, v, now) ==
    \/ \E s \in Status : PatchPolicy(w, v, now, s)
    \/ ReorderRules(w, v, now)
    \/ DeletePolicy(w, v, now)
    \/ \E k \in Rule : \/ PostRule(w, v, now, k)
                       \/ PatchRule(w, v, now, k)
                       \/ DeleteRule(w, v, now, k)

Next ==
    \/ \E w \in Writer, v \in DOMAIN pol :
         ReadVersion(w, v) \/ \E now \in 0..clock : Edit(w, v, now)
    \/ \E w \in Writer : BeginTransaction(w) \/ RollBack(w)
    \/ StartEvaluation \/ LoadPolicies \/ LoadRules \/ FinishEvaluation
    \/ Tick

Spec == Init /\ [][Next]_vars

-----------------------------------------------------------------------------
\* No acknowledged edit of a rule is lost and none is undone: the latest
\* version of the policy binds, for every rule key, the version that the
\* acknowledged edits amount to, and that row of the rules table is still in
\* force (a bound row that is closed would be skipped by every Check).  Edits
\* read their rows before their transactions, so only the unique indexes
\* stand between two edits of one version.
AcknowledgedEditsInForce ==
    /\ pol[Len(pol)].rules = acked
    /\ \A k \in Rule : acked[k] # 0 => /\ acked[k] = Len(row[k])
                                       /\ row[k][acked[k]].to = Infinity

\* A Check that loads the policy while edits commit sees one version of it and all
\* the rules that version binds.  It sees none only if the policy was inactive, or
\* was ended or deactivated by an edit stamped not after the Check (gone).  It sees a
\* second one only if a DELETE, stamped after the Check, of a version that had ended
\* before it commits ahead of the first query: the DELETE moves that end to after
\* the Check, which then finds the old version too (back).  It misses a rule only if
\* an edit stamped not after the Check closes the rule's row between the two queries,
\* in which case the rule is evaluated in neither form (closed), or if the rule was
\* posted with that version in the millisecond of the Check.
EvaluationComplete ==
    eval.pc = "done" =>
        LET seen == eval.found \ eval.back
        IN  /\ seen = {} => eval.gone
            /\ \A u, v \in seen : u = v
            /\ \A v \in seen, k \in Rule :
                 pol[v].rules[k] # 0 =>
                    \/ k \in eval.rules \cup eval.closed
                    \/ pol[v].from = eval.at /\ row[k][pol[v].rules[k]].from > eval.at
=============================================================================
