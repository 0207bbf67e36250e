------------------------- MODULE ViolationRecording -------------------------
(***************************************************************************)
(* Violations and suppressions: a Check that matched a rule is answered    *)
(* first and recorded afterwards, in one READ COMMITTED transaction that   *)
(* reads the suppressions, looks for the active violation and updates or   *)
(* inserts it (recordPolicyEvaluationWithViolations of check-service.ts);  *)
(* users set the status of violations and add and remove suppressions      *)
(* (violations/project-shared.ts, violation-suppressions/write-routes.ts). *)
(* Nothing but a partial unique index stands between them.                 *)
(*                                                                         *)
(* One violation: one rule of one policy, matched by one artifact of one   *)
(* project.  Its rows are numbered in the order of their insertion; sup    *)
(* counts the suppressions that match it and have not expired.             *)
(***************************************************************************)
EXTENDS Integers, Sequences

CONSTANTS
    Recorder,   \* recordings in progress at a time
    MaxRows,    \* bound: rows of the violation
    MaxSup      \* bound: suppressions that match it

ASSUME RecordingAssumption == MaxRows \in Nat \ {0} /\ MaxSup \in Nat \ {0}

VARIABLES
    rows,     \* violations: the status of each row
    sup,      \* violation_suppressions that match
    rec,      \* the transaction of each recorder
    user,     \* a status update between its two statements
    quiet     \* users have stopped and nothing fails any more

vars == <<rows, sup, rec, user, quiet>>

Status == {"open", "suppressed", "resolved"}

\* status IN ('open', 'suppressed')
Active(r) == rows[r] # "resolved"

Idle == [pc |-> "idle", suppressed |-> FALSE, row |-> 0]

\* The one type invariant of this module, with the index
\* violations_active_package_idx: at most one row is active.
TypeOK ==
    /\ rows \in Seq(Status) /\ Len(rows) <= MaxRows
    /\ \A r, q \in DOMAIN rows : Active(r) /\ Active(q) => r = q
    /\ sup \in 0..MaxSup
    /\ rec \in [Recorder -> [pc : {"idle", "lookup", "write", "orphan"},
                             suppressed : BOOLEAN, row : 0..MaxRows]]
    /\ user \in {"idle", "insert"}
    /\ quiet \in BOOLEAN

Init ==
    /\ rows = <<>>
    /\ sup = 0
    /\ rec = [c \in Recorder |-> Idle]
    /\ user = "idle"
    /\ quiet = FALSE

-----------------------------------------------------------------------------
(* recordPolicyEvaluationWithViolations.                                    *)

\* A Check matched the rule; the transaction reads the suppressions.
LoadSuppressions(c) ==
    /\ rec[c].pc = "idle"
    /\ rec' = [rec EXCEPT ![c] = [pc |-> "lookup", suppressed |-> sup > 0, row |-> 0]]
    /\ UNCHANGED <<rows, sup, user, quiet>>

\* SELECT of the active violation, without a lock.
FindActiveViolation(c) ==
    /\ rec[c].pc = "lookup"
    /\ \/ \E r \in DOMAIN rows :
            /\ Active(r)
            /\ rec' = [rec EXCEPT ![c].pc = "write", ![c].row = r]
       \/ /\ \A r \in DOMAIN rows : ~Active(r)
          /\ rec' = [rec EXCEPT ![c].pc = "write"]
    /\ UNCHANGED <<rows, sup, user, quiet>>

\* Mutant: there is no unique index.
NoActiveIndex(r) == Len(rows) < MaxRows \/ r # 0

\* violations_active_package_idx lets row r (0: a new one) become active.
MayBecomeActive(r) == \A q \in DOMAIN rows : Active(q) => q = r

\* Mutant: the status of a violation that exists is left alone.
StatusKept(c) == IF rec[c].row # 0 THEN rows[rec[c].row]
                 ELSE IF rec[c].suppressed THEN "suppressed" ELSE "open"

\* The status that is written: the one of the suppressions read before.
StatusWritten(c) == IF rec[c].suppressed THEN "suppressed" ELSE "open"

\* UPDATE by id, whatever the status of the row is by now, or INSERT; with the
\* evaluation and the occurrence this commits.
Record(c) ==
    LET r == rec[c].row IN
    /\ rec[c].pc = "write"
    /\ MayBecomeActive(r)
    /\ rows' = IF r # 0 THEN [rows EXCEPT ![r] = StatusWritten(c)]
                        ELSE Append(rows, StatusWritten(c))
    /\ rec' = [rec EXCEPT ![c] = Idle]
    /\ UNCHANGED <<sup, user, quiet>>

\* The index rejects the write, or the foreign key of the occurrence rejects a
\* suppression deleted since it was read: the whole transaction is rolled
\* back, the evaluation is logged as failed and not retried.
RecordConflicts(c) ==
    /\ \/ rec[c].pc = "write" /\ ~MayBecomeActive(rec[c].row)
       \/ rec[c].pc = "orphan"
    /\ rec' = [rec EXCEPT ![c] = Idle]
    /\ UNCHANGED <<rows, sup, user, quiet>>

RecordFails(c) ==
    /\ ~quiet /\ rec[c].pc # "idle"
    /\ rec' = [rec EXCEPT ![c] = Idle]
    /\ UNCHANGED <<rows, sup, user, quiet>>

-----------------------------------------------------------------------------
(* Users.                                                                   *)

\* applyViolationStatusUpdate and applyBulkViolationStatusUpdate: an UPDATE by
\* id; for "suppressed" an INSERT of the suppression follows.  Bound: one request at a
\* time is between the two statements.
SetStatus(r, status) ==
    /\ ~quiet
    /\ status = "suppressed" => user = "idle"
    /\ status # "resolved" => MayBecomeActive(r)
    /\ status = "resolved" => Len(rows) < MaxRows
    /\ rows' = [rows EXCEPT ![r] = status]
    /\ user' = IF status = "suppressed" THEN "insert" ELSE user
    /\ UNCHANGED <<sup, rec, quiet>>

InsertSuppression ==
    /\ user = "insert"
    /\ sup < MaxSup
    /\ sup' = sup + 1
    /\ user' = "idle"
    /\ UNCHANGED <<rows, rec, quiet>>

\* The request ends between the two statements.
InsertFails ==
    /\ user = "insert"
    /\ user' = "idle"
    /\ UNCHANGED <<rows, sup, rec, quiet>>

\* POST and DELETE /v1/violation-suppressions, and expires_at that passes.
PostSuppression ==
    /\ ~quiet /\ sup < MaxSup
    /\ sup' = sup + 1
    /\ UNCHANGED <<rows, rec, user, quiet>>

DeleteSuppression ==
    /\ ~quiet /\ sup > 0
    /\ sup' = sup - 1
    /\ \E orphans \in SUBSET {c \in Recorder : rec[c].suppressed} :
         rec' = [c \in Recorder |-> IF c \in orphans THEN [rec[c] EXCEPT !.pc = "orphan"]
                                                      ELSE rec[c]]
    /\ UNCHANGED <<rows, user, quiet>>

SuppressionExpires ==
    /\ ~quiet /\ sup > 0
    /\ sup' = sup - 1
    /\ UNCHANGED <<rows, rec, user, quiet>>

BecomeQuiet ==
    /\ ~quiet
    /\ quiet' = TRUE
    /\ UNCHANGED <<rows, sup, rec, user>>

-----------------------------------------------------------------------------
Recording(c) ==
    LoadSuppressions(c) \/ FindActiveViolation(c) \/ Record(c) \/ RecordConflicts(c)

UserStep ==
    \/ \E r \in DOMAIN rows, status \in Status : SetStatus(r, status)
    \/ InsertSuppression \/ InsertFails
    \/ PostSuppression \/ DeleteSuppression \/ SuppressionExpires

Next ==
    \/ \E c \in Recorder : Recording(c) \/ RecordFails(c)
    \/ UserStep
    \/ BecomeQuiet

Spec == Init /\ [][Next]_vars

\* The artifact keeps being requested and Node runs every continuation.
FairSpec ==
    /\ Spec
    /\ \A c \in Recorder : WF_vars(Recording(c))
    /\ WF_vars(InsertSuppression \/ InsertFails)

-----------------------------------------------------------------------------
Shown(status) == \E r \in DOMAIN rows : rows[r] = status

\* The status the suppressions call for is the one the violation shows.
Settled ==
    /\ user = "idle"
    /\ Shown(IF sup > 0 THEN "suppressed" ELSE "open")
    /\ ~Shown(IF sup > 0 THEN "open" ELSE "suppressed")

\* While users change statuses and suppressions, recordings write statuses
\* from suppressions they read before, reopen rows that were resolved in
\* between, and lose conflicts on the index or a foreign key; a suppressing user
\* may get only the first of two statements done, or the second one after the
\* status was changed again.  Once users stop and nothing fails, and
\* the artifact is still requested, the violation settles on an active row
\* with the status its suppressions call for: no stale write and no conflict
\* lasts.
StatusSettles == <>quiet => <>[]Settled
=============================================================================
