----------------------- MODULE ViolationRecordingProofs -----------------------
(***************************************************************************)
(* Type correctness of ViolationRecording with the uniqueness of the       *)
(* active violation, and the stability of a settled one, for any recorders *)
(* and any bounds.                                                         *)
(***************************************************************************)
EXTENDS ViolationRecording, TLAPS

\* A recording updates a row that exists, or inserts one.
RowsExist == \A c \in Recorder : rec[c].row \in 0..Len(rows)

\* The last row of the bound is active: an insert always has room.
RoomForInsert == Len(rows) = MaxRows => \E r \in DOMAIN rows : Active(r)

\* The inductive invariant.
IInv == TypeOK /\ RowsExist /\ RoomForInsert

\* The transaction of a recorder.
RecState == [pc : {"idle", "lookup", "write", "orphan"},
             suppressed : BOOLEAN, row : 0..MaxRows]

\* A transaction that is over.
LEMMA IdleTyped == Idle \in RecState /\ Idle.row = 0
  BY RecordingAssumption DEF Idle, RecState

\* The empty table satisfies the invariant.
LEMMA InitIInv == Init => IInv
  <1> SUFFICES ASSUME Init PROVE IInv
    OBVIOUS
  <1>1. rec \in [Recorder -> RecState] /\ \A c \in Recorder : rec[c].row = 0
    BY IdleTyped DEF Init
  <1>2. rows = <<>> /\ Len(rows) = 0 /\ DOMAIN rows = {} /\ rows \in Seq(Status)
    BY DEF Init
  <1>3. quiet \in BOOLEAN
    BY Zenon DEF Init
  <1> QED BY <1>1, <1>2, <1>3, RecordingAssumption
      DEF Init, IInv, TypeOK, RecState, RowsExist, RoomForInsert

\* A recording reads, or ends without a write: its transaction alone changes.
LEMMA RecorderOnly ==
  ASSUME IInv, NEW c \in Recorder, NEW k \in RecState, k.row \in 0..Len(rows),
         rec' = [rec EXCEPT ![c] = k], UNCHANGED <<rows, sup, user, quiet>>
  PROVE  IInv'
  <1>1. rec' \in [Recorder -> RecState]
    BY DEF IInv, TypeOK, RecState
  <1>2. \A d \in Recorder : rec'[d] = IF d = c THEN k ELSE rec[d]
    BY DEF IInv, TypeOK
  <1>3. RowsExist'
    BY <1>2 DEF IInv, RowsExist
  <1> QED BY <1>1, <1>3 DEF IInv, TypeOK, RecState, RoomForInsert, Active

\* The table after status s is written to row r, or inserted when r is 0.
Written(r, s) == rows' = IF r # 0 THEN [rows EXCEPT ![r] = s] ELSE Append(rows, s)

\* A status is written to one row, or a row with that status is inserted,
\* and the index admits it.
LEMMA WriteStatus ==
  ASSUME IInv, NEW r \in 0..Len(rows), NEW s \in Status,
         s # "resolved" => MayBecomeActive(r),
         s = "resolved" => r # 0 /\ Len(rows) < MaxRows,
         Written(r, s)
  PROVE  /\ rows' \in Seq(Status) /\ Len(rows') <= MaxRows /\ Len(rows) <= Len(rows')
         /\ \A p, q \in DOMAIN rows' : Active(p)' /\ Active(q)' => p = q
         /\ RoomForInsert'
  <1>3. MaxRows \in Nat /\ MaxRows # 0
    BY RecordingAssumption
  <1>0. /\ rows \in Seq(Status) /\ Len(rows) \in Nat /\ DOMAIN rows = 1..Len(rows)
        /\ Len(rows) <= MaxRows
    BY DEF IInv, TypeOK
  <1>4. Len(rows) \in Nat /\ Len(rows) <= MaxRows
    BY <1>0
  <1>1. CASE r # 0
    <2>1. /\ rows' \in Seq(Status) /\ Len(rows') = Len(rows)
          /\ \A q \in 1..Len(rows) : rows'[q] = IF q = r THEN s ELSE rows[q]
      BY <1>0, <1>1 DEF Written
    <2>2. CASE s = "resolved"
      <3>1. \A q \in 1..Len(rows) : rows'[q] # "resolved" => rows[q] # "resolved"
        BY <2>1, <2>2
      <3>2. \A p, q \in 1..Len(rows) : rows[p] # "resolved" /\ rows[q] # "resolved" => p = q
        BY <1>0 DEF IInv, TypeOK, Active
      <3>3. DOMAIN rows' = 1..Len(rows)
        BY <2>1
      <3>4. \A p, q \in DOMAIN rows' : Active(p)' /\ Active(q)' => p = q
        BY <3>1, <3>2, <3>3 DEF Active
      <3>5. Len(rows') # MaxRows /\ Len(rows') <= MaxRows /\ Len(rows) <= Len(rows')
        <4>1. Len(rows) < MaxRows
          BY <2>2
        <4>2. Len(rows') = Len(rows)
          BY <2>1
        <4> QED BY <1>3, <1>4, <4>1, <4>2
      <3>6. RoomForInsert'
        BY <3>5 DEF RoomForInsert
      <3> QED BY <2>1, <3>4, <3>5, <3>6
    <2>3. CASE s # "resolved"
      <3>1. \A q \in 1..Len(rows) : rows'[q] # "resolved" => q = r
        BY <1>0, <2>1, <2>3 DEF MayBecomeActive, Active
      <3>2. r \in DOMAIN rows' /\ rows'[r] # "resolved"
        BY <1>0, <1>1, <2>1, <2>3
      <3>3. DOMAIN rows' = 1..Len(rows)
        BY <2>1
      <3>4. \A p, q \in DOMAIN rows' : Active(p)' /\ Active(q)' => p = q
        BY <3>1, <3>3 DEF Active
      <3>5. RoomForInsert'
        BY <3>2 DEF Active, RoomForInsert
      <3>6. Len(rows') <= MaxRows /\ Len(rows) <= Len(rows')
        BY <1>0, <1>3, <2>1
      <3> QED BY <2>1, <3>4, <3>5, <3>6
    <2> QED BY <2>2, <2>3
  <1>2. CASE r = 0
    <2>1. \A q \in 1..Len(rows) : rows[q] = "resolved"
      <3>1. MayBecomeActive(0)
        BY <1>2
      <3>2. \A q \in 1..Len(rows) : q # 0
        BY <1>0
      <3> QED BY <1>0, <3>1, <3>2 DEF MayBecomeActive, Active
    <2>2. Len(rows) < MaxRows
      <3>1. Len(rows) # MaxRows
        BY <1>0, <2>1 DEF IInv, RoomForInsert, Active
      <3> QED BY <1>3, <1>4, <3>1
    <2>3. /\ rows' \in Seq(Status) /\ Len(rows') = Len(rows) + 1
          /\ \A q \in 1..Len(rows) : rows'[q] = rows[q]
          /\ rows'[Len(rows) + 1] = s
      <3>1. rows' = Append(rows, s)
        BY <1>2 DEF Written
      <3>2. rows' \in Seq(Status) /\ Len(rows') = Len(rows) + 1
        BY <1>0, <3>1
      <3>3. rows'[Len(rows) + 1] = s
        BY <1>0, <3>1
      <3>4. ASSUME NEW q \in 1..Len(rows) PROVE rows'[q] = rows[q]
        BY <1>0, <3>1
      <3> QED BY <3>2, <3>3, <3>4
    <2>4. ASSUME NEW q \in 1..Len(rows'), rows'[q] # "resolved" PROVE q = Len(rows')
      <3>1. q \in 1..Len(rows) \/ q = Len(rows')
        BY <1>0, <2>3
      <3> QED BY <2>1, <2>3, <2>4, <3>1
    <2>5. DOMAIN rows' = 1..Len(rows') /\ Len(rows') \in DOMAIN rows'
      BY <1>0, <2>3
    <2>6. \A p, q \in DOMAIN rows' : Active(p)' /\ Active(q)' => p = q
      BY <2>4, <2>5 DEF Active
    <2>7. rows'[Len(rows')] # "resolved"
      BY <1>2, <2>3
    <2>8. RoomForInsert'
      BY <2>5, <2>7 DEF Active, RoomForInsert
    <2>9. Len(rows') <= MaxRows /\ Len(rows) <= Len(rows')
      BY <1>0, <1>3, <2>2, <2>3
    <2> QED BY <2>3, <2>6, <2>8, <2>9
  <1> QED BY <1>1, <1>2

\* The steps of a recording.
LEMMA RecorderStep ==
  ASSUME IInv, NEW c \in Recorder, Recording(c) \/ RecordFails(c)
  PROVE  IInv'
  <1>0. /\ rec \in [Recorder -> RecState] /\ rec[c] \in RecState
        /\ rec[c].row \in 0..Len(rows) /\ Len(rows) \in Nat /\ Len(rows) <= MaxRows
        /\ DOMAIN rows = 1..Len(rows)
    BY DEF IInv, TypeOK, RecState, RowsExist
  <1>1. CASE LoadSuppressions(c)
    <2> DEFINE k == [pc |-> "lookup", suppressed |-> sup > 0, row |-> 0]
    <2>1. k \in RecState /\ k.row \in 0..Len(rows)
      BY <1>0, RecordingAssumption DEF RecState
    <2>2. rec' = [rec EXCEPT ![c] = k]
      BY <1>1 DEF LoadSuppressions
    <2> HIDE DEF k
    <2> QED BY <1>1, <2>1, <2>2, RecorderOnly DEF LoadSuppressions
  <1>2. CASE FindActiveViolation(c)
    <2>1. ASSUME NEW r \in DOMAIN rows,
                 rec' = [rec EXCEPT ![c].pc = "write", ![c].row = r]
          PROVE  IInv'
      <3> DEFINE j == [rec[c] EXCEPT !.pc = "write"]
                 k == [j EXCEPT !.row = r]
      <3>1. rec' = [rec EXCEPT ![c] = k]
        BY <2>1, <1>0, Zenon
      <3>2. j \in RecState
        BY <1>0 DEF RecState
      <3> HIDE DEF j
      <3>3. k \in RecState /\ k.row = r
        BY <1>0, <2>1, <3>2 DEF RecState
      <3> HIDE DEF k
      <3>4. k.row \in 0..Len(rows)
        BY <1>0, <3>3
      <3> QED BY <1>2, <3>1, <3>3, <3>4, RecorderOnly DEF FindActiveViolation
    <2>2. CASE rec' = [rec EXCEPT ![c].pc = "write"]
      <3> DEFINE k == [rec[c] EXCEPT !.pc = "write"]
      <3>1. rec' = [rec EXCEPT ![c] = k]
        BY <2>2, <1>0, Zenon
      <3>2. k \in RecState /\ k.row = rec[c].row
        BY <1>0 DEF RecState
      <3> HIDE DEF k
      <3> QED BY <1>0, <1>2, <3>1, <3>2, RecorderOnly DEF FindActiveViolation
    <2> QED BY <1>2, <2>1, <2>2 DEF FindActiveViolation
  <1>3. CASE Record(c)
    <2>1. StatusWritten(c) \in Status /\ StatusWritten(c) # "resolved"
      BY DEF StatusWritten, Status
    <2>2. /\ rows' \in Seq(Status) /\ Len(rows') <= MaxRows /\ Len(rows) <= Len(rows')
          /\ \A p, q \in DOMAIN rows' : Active(p)' /\ Active(q)' => p = q
          /\ RoomForInsert'
      BY <1>0, <1>3, <2>1, WriteStatus DEF Record, Written
    <2>3. rec' = [rec EXCEPT ![c] = Idle]
      BY <1>3 DEF Record
    <2>4. rec' \in [Recorder -> RecState]
      BY <1>0, <2>3, IdleTyped
    <2>5. \A d \in Recorder : rec'[d] = IF d = c THEN Idle ELSE rec[d]
      BY <1>0, <2>3
    <2>6. RowsExist'
      BY <1>0, <2>2, <2>5, IdleTyped DEF IInv, RowsExist
    <2> QED BY <1>3, <2>2, <2>4, <2>6 DEF IInv, TypeOK, RecState, Record
  <1>4. CASE RecordConflicts(c) \/ RecordFails(c)
    BY <1>0, <1>4, IdleTyped, RecorderOnly DEF RecordConflicts, RecordFails
  <1> QED BY <1>1, <1>2, <1>3, <1>4 DEF Recording

\* The steps of users.
LEMMA UserSteps ==
  ASSUME IInv, UserStep \/ BecomeQuiet
  PROVE  IInv'
  <1>1. ASSUME NEW r \in DOMAIN rows, NEW s \in Status, SetStatus(r, s) PROVE IInv'
    <2>1. r \in 0..Len(rows) /\ r # 0 /\ Len(rows) \in Nat
      BY DEF IInv, TypeOK
    <2>2. /\ rows' \in Seq(Status) /\ Len(rows') <= MaxRows /\ Len(rows) <= Len(rows')
          /\ \A p, q \in DOMAIN rows' : Active(p)' /\ Active(q)' => p = q
          /\ RoomForInsert'
      BY <1>1, <2>1, WriteStatus DEF SetStatus, Written
    <2>3. rec' = rec /\ sup' = sup /\ quiet' = quiet /\ user' \in {"idle", "insert"}
      BY <1>1 DEF SetStatus, IInv, TypeOK
    <2>4. RowsExist'
      BY <2>1, <2>2, <2>3 DEF IInv, RowsExist
    <2> QED BY <2>2, <2>3, <2>4 DEF IInv, TypeOK
  <1>2. CASE InsertSuppression \/ InsertFails \/ PostSuppression \/ SuppressionExpires
    BY <1>2, RecordingAssumption
    DEF InsertSuppression, InsertFails, PostSuppression, SuppressionExpires,
        IInv, TypeOK, RowsExist, RoomForInsert, Active
  <1>3. CASE DeleteSuppression
    <2>0. \A c \in Recorder : rec[c] \in RecState
      BY DEF IInv, TypeOK, RecState
    <2>1. PICK orphans \in SUBSET {c \in Recorder : rec[c].suppressed} :
            rec' = [c \in Recorder |-> IF c \in orphans
                                         THEN [rec[c] EXCEPT !.pc = "orphan"]
                                         ELSE rec[c]]
      BY <1>3 DEF DeleteSuppression
    <2>2. ASSUME NEW c \in Recorder
          PROVE  [rec[c] EXCEPT !.pc = "orphan"] \in RecState
                 /\ [rec[c] EXCEPT !.pc = "orphan"].row = rec[c].row
      BY <2>0 DEF RecState
    <2>3. \A c \in Recorder : rec'[c] \in RecState /\ rec'[c].row = rec[c].row
      BY <2>0, <2>1, <2>2
    <2>4. rec' \in [Recorder -> RecState]
      BY <2>1, <2>3
    <2>5. sup' \in 0..MaxSup /\ UNCHANGED <<rows, user, quiet>>
      BY <1>3, RecordingAssumption DEF DeleteSuppression, IInv, TypeOK
    <2>6. RowsExist'
      BY <2>3, <2>5 DEF IInv, RowsExist
    <2> QED BY <2>4, <2>5, <2>6 DEF IInv, TypeOK, RecState, RoomForInsert, Active
  <1>4. CASE BecomeQuiet
    BY <1>4 DEF BecomeQuiet, IInv, TypeOK, RowsExist, RoomForInsert, Active
  <1> QED BY <1>1, <1>2, <1>3, <1>4 DEF UserStep

\* The invariant is preserved by every step.
LEMMA NextIInv == IInv /\ [Next]_vars => IInv'
  <1> SUFFICES ASSUME IInv, [Next]_vars PROVE IInv'
    OBVIOUS
  <1>1. CASE UNCHANGED vars
    BY <1>1 DEF vars, IInv, TypeOK, RowsExist, RoomForInsert, Active
  <1> QED BY <1>1, RecorderStep, UserSteps DEF Next

\* Every state has its type, and at most one row of the violation is active:
\* recordings and users that read it without a lock never leave two.
THEOREM TypeCorrect == Spec => []TypeOK
  <1>1. IInv => TypeOK
    BY DEF IInv
  <1> QED BY <1>1, InitIInv, NextIInv, PTL DEF Spec

-----------------------------------------------------------------------------
(***************************************************************************)
(* The violation stays settled.                                            *)
(***************************************************************************)

\* The status the suppressions call for.
Wanted == IF sup > 0 THEN "suppressed" ELSE "open"

\* A recording that is going to write read the suppressions there are.
InSync(c) == rec[c].pc \in {"lookup", "write"} => StatusWritten(c) = Wanted

\* Users have stopped, and no recording carries a status that is out of date.
Calm == quiet /\ Settled /\ \A c \in Recorder : InSync(c)

\* A step that leaves the table alone and touches one transaction only.
LEMMA CalmRecorder ==
  ASSUME IInv, Calm, NEW c \in Recorder, UNCHANGED <<rows, sup, user, quiet>>,
         \A d \in Recorder \ {c} : rec'[d] = rec[d], InSync(c)'
  PROVE  Calm'
  <1>1. Settled' /\ quiet'
    BY DEF Calm, Settled, Shown
  <1>2. ASSUME NEW d \in Recorder PROVE InSync(d)'
    <2>1. CASE d = c
      BY <2>1
    <2>2. CASE d # c
      BY <2>2 DEF Calm, InSync, StatusWritten, Wanted
    <2> QED BY <2>1, <2>2
  <1> QED BY <1>1, <1>2 DEF Calm

\* A recording writes the status that is there already.
LEMMA CalmRecord ==
  ASSUME IInv, Calm, NEW c \in Recorder, Record(c)
  PROVE  rows' = rows
  <1>1. rows \in Seq(Status) /\ rec[c].row \in 0..Len(rows) /\ Len(rows) \in Nat
    BY DEF IInv, TypeOK, RowsExist
  <1>2. StatusWritten(c) = Wanted
    BY DEF Calm, InSync, Record
  <1>3. PICK q \in DOMAIN rows : rows[q] = Wanted
    BY DEF Calm, Settled, Shown, Wanted
  <1>4. Active(q)
    BY <1>3 DEF Active, Wanted
  <1>5. rec[c].row = q /\ q # 0
    BY <1>1, <1>4 DEF Record, MayBecomeActive
  <1>6. rows' = [rows EXCEPT ![q] = rows[q]]
    BY <1>2, <1>3, <1>5 DEF Record
  <1> QED BY <1>1, <1>6

\* No step ends the calm.
LEMMA CalmStays == IInv /\ Calm /\ [Next]_vars => Calm'
  <1> SUFFICES ASSUME IInv, Calm, [Next]_vars PROVE Calm'
    OBVIOUS
  <1>1. quiet /\ user = "idle" /\ rec \in [Recorder -> RecState]
    BY DEF Calm, Settled, IInv, TypeOK, RecState
  <1>2. CASE UNCHANGED vars
    BY <1>2 DEF vars, Calm, Settled, Shown, InSync, StatusWritten, Wanted
  <1>3. ASSUME NEW c \in Recorder, LoadSuppressions(c) PROVE Calm'
    <2>1. /\ rec'[c].suppressed = (sup > 0) /\ UNCHANGED <<rows, sup, user, quiet>>
          /\ \A d \in Recorder \ {c} : rec'[d] = rec[d]
      BY <1>1, <1>3 DEF LoadSuppressions
    <2>2. InSync(c)'
      BY <2>1 DEF InSync, StatusWritten, Wanted
    <2> QED BY <2>1, <2>2, CalmRecorder
  <1>4. ASSUME NEW c \in Recorder, FindActiveViolation(c) PROVE Calm'
    <2>1. UNCHANGED <<rows, sup, user, quiet>> /\ rec[c].pc = "lookup"
      BY <1>4 DEF FindActiveViolation
    <2>2. /\ rec'[c].suppressed = rec[c].suppressed
          /\ \A d \in Recorder \ {c} : rec'[d] = rec[d]
      BY <1>1, <1>4 DEF FindActiveViolation, RecState
    <2>3. InSync(c)'
      BY <2>1, <2>2 DEF Calm, InSync, StatusWritten, Wanted
    <2> QED BY <2>1, <2>2, <2>3, CalmRecorder
  <1>5. ASSUME NEW c \in Recorder, rec' = [rec EXCEPT ![c] = Idle],
               UNCHANGED <<rows, sup, user, quiet>>
        PROVE  Calm'
    <2>1. rec'[c].pc = "idle" /\ \A d \in Recorder \ {c} : rec'[d] = rec[d]
      BY <1>1, <1>5 DEF Idle
    <2>2. InSync(c)'
      BY <2>1 DEF InSync
    <2> QED BY <1>5, <2>1, <2>2, CalmRecorder
  <1>6. ASSUME NEW c \in Recorder, Record(c) PROVE Calm'
    BY <1>5, <1>6, CalmRecord DEF Record
  <1>7. ASSUME NEW c \in Recorder, RecordConflicts(c) \/ RecordFails(c) PROVE Calm'
    BY <1>5, <1>7 DEF RecordConflicts, RecordFails
  <1>8. ~UserStep /\ ~BecomeQuiet
    BY <1>1 DEF UserStep, SetStatus, InsertSuppression, InsertFails, PostSuppression,
       DeleteSuppression, SuppressionExpires, BecomeQuiet
  <1> QED BY <1>2, <1>3, <1>4, <1>6, <1>7, <1>8 DEF Next, Recording

\* The safety half of StatusSettles: once users have stopped, the violation
\* shows the status its suppressions call for and no recording read other
\* suppressions, the recordings that follow, which write without a lock and
\* may find or miss the row, never change that status again.
THEOREM SettledForGood == Spec => [](Calm => []Settled)
  <1>1. Calm => Settled
    BY DEF Calm
  <1> QED BY <1>1, InitIInv, NextIInv, CalmStays, PTL DEF Spec
=============================================================================
