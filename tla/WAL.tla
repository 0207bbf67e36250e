-------------------------------- MODULE WAL --------------------------------
(***************************************************************************)
(* The proxy's write-ahead log and the goroutine that empties it into the  *)
(* control plane (services/proxy/internal/wal/wal.go and                   *)
(* internal/runtime/usage_stream.go).                                      *)
(*                                                                         *)
(* Request handlers append records to one NDJSON file; advisory records    *)
(* take a bounded queue with a single writer.  The usage-stream goroutine  *)
(* reads a batch from the checkpoint on, sends it, advances the checkpoint *)
(* and compacts the file.  Appends run concurrently with every phase of    *)
(* that cycle except the ones that hold the log's mutex; the process may   *)
(* crash between any two steps.                                            *)
(*                                                                         *)
(* The unit of an offset is one write: `file' is the sequence of writes    *)
(* the file holds, a whole line (a record) or the fragment a failed write  *)
(* leaves behind, and a byte offset is the number of writes before it.     *)
(***************************************************************************)
EXTENDS Integers, Sequences, FiniteSets

CONSTANTS
    Usage,                  \* usage_event records
    Metadata,               \* package metadata records, of a type the client sends
    Unknown,                \* records of a type the client does not know
    Fragment,               \* what a failed write leaves: bytes without a newline
    FlushMaxEvents,         \* config.FlushMaxEvents
    AdvisoryQueueSize,      \* advisoryRecordQueueSize
    MaxCrashes,             \* bound on the crashes of a behaviour
    TornWrites,             \* can a failed write leave a fragment?
    CrashOnStaleCheckpoint  \* can a crash follow a rename whose checkpoint is unwritten?

Record == Usage \cup Metadata \cup Unknown

ASSUME WALAssumption ==
    /\ Usage \cap Metadata = {} /\ Usage \cap Unknown = {} /\ Metadata \cap Unknown = {}
    /\ Fragment \notin Record
    /\ FlushMaxEvents \in Nat \ {0}
    /\ AdvisoryQueueSize \in Nat
    /\ MaxCrashes \in Nat
    /\ TornWrites \in BOOLEAN
    /\ CrashOnStaleCheckpoint \in BOOLEAN

VARIABLES
    file,       \* the writes in the file at walPath
    offset,     \* WAL.checkpointOffset
    disk,       \* the offset in the checkpoint file
    queue,      \* WAL.advisoryQueue
    pc,         \* where the usage-stream goroutine is ("down": no process)
    batch,      \* the records of the current iteration of the flush loop
    sent,       \* deliveredCount, which is also the loop index i
    segment,    \* how many records the RPC under way carries
    more,       \* does the flush loop iterate once more?
    rewrite,    \* Compact's snapshot and the contents of its temporary file
    reachable,  \* RuntimeState.controlPlaneReachable
    abandoned,  \* requests given up by the proxy that the server may still run
    stored,     \* the records of the RPCs the control plane has run to their end
    fresh,      \* history: records no caller has offered to the log yet
    accepted,   \* history: records whose AppendRecord returned nil, in order
    swallowed,  \* history: accepted records written behind a fragment
    stale,      \* history: disk was computed for a file that was renamed over
    crashes     \* history: crashes so far

flushVars == <<pc, batch, sent, segment, more, rewrite>>
fileVars  == <<file, offset, disk, stale>>
inputVars == <<queue, fresh, accepted, swallowed>>
cpVars    == <<reachable, abandoned, stored>>
vars == <<fileVars, flushVars, inputVars, cpVars, crashes>>

-----------------------------------------------------------------------------
(***************************************************************************)
(* Lines of the file.  The scanner cuts at newlines, and only a whole      *)
(* write ends in one: a fragment and the write after it are one line, and  *)
(* that line does not decode.                                              *)
(***************************************************************************)

\* How many elements of K are at most i.
Rank(K, i) == Cardinality({j \in K : j <= i})

\* The elements of sequence s at the positions K, in order.
Pick(s, K) ==
    [k \in 1..Cardinality(K) |-> s[CHOOSE i \in K : Rank(K, i) = k]]

\* The writes that end a line of f after offset c.
LineEnds(f, c) == {i \in c + 1 .. Len(f) : f[i] # Fragment \/ i = Len(f)}

\* The writes after offset c that are a line of their own, so that
\* decodeRecordLine accepts them, when the scan starts at c.
Decodable(f, c) ==
    {i \in c + 1 .. Len(f) : /\ f[i] # Fragment
                             /\ i = c + 1 \/ f[i - 1] # Fragment}

\* readRecordsFromPathOffset: the first `limit' records after offset c.
Undelivered(f, c, limit) ==
    LET D == Decodable(f, c)
    IN  Pick(f, {i \in D : Rank(D, i) <= limit})

\* Mutant of ScansTo: the scan runs one line too far.
ScansOneMore(f, c, n, o) ==
    LET L == LineEnds(f, c)
    IN  /\ o \in {c} \cup L
        /\ Rank(L, o) = IF n + 1 <= Cardinality(L) THEN n + 1 ELSE Cardinality(L)

\* The offset reached from c by scanning n lines, as MarkDelivered does.
ScansTo(f, c, n, o) ==
    LET L == LineEnds(f, c)
    IN  /\ o \in {c} \cup L
        /\ Rank(L, o) = IF n <= Cardinality(L) THEN n ELSE Cardinality(L)

-----------------------------------------------------------------------------
Up == pc # "down"

\* Compact holds the mutex from the rename to the checkpoint write; every
\* other critical section is a single step.
Unlocked == Up /\ pc # "renamed"

NoRewrite == [file |-> <<>>, offset |-> 0, out |-> <<>>, newOffset |-> 0]

Init ==
    /\ file = <<>> /\ offset = 0 /\ disk = 0 /\ stale = FALSE
    /\ queue = <<>>
    /\ pc = "idle" /\ batch = <<>> /\ sent = 0 /\ segment = 0 /\ more = FALSE
    /\ rewrite = NoRewrite
    /\ reachable = FALSE /\ abandoned = {} /\ stored = {}
    /\ fresh = Record /\ accepted = <<>> /\ swallowed = {}
    /\ crashes = 0

-----------------------------------------------------------------------------
(***************************************************************************)
(* Writers.                                                                *)
(***************************************************************************)

EndsInFragment == file # <<>> /\ file[Len(file)] = Fragment

\* AppendRecord when the write goes through.
AppendSucceeds(r) ==
    /\ Unlocked
    /\ file' = Append(file, r)
    /\ accepted' = Append(accepted, r)
    /\ swallowed' = IF EndsInFragment THEN swallowed \cup {r} ELSE swallowed
    /\ UNCHANGED <<offset, disk, stale>>

\* AppendRecord when the write fails: nothing, or a fragment, reaches the file.
AppendFails ==
    /\ Unlocked
    /\ \/ UNCHANGED file
       \/ TornWrites /\ file' = Append(file, Fragment)
    /\ UNCHANGED <<offset, disk, stale, accepted, swallowed>>

AppendRecord(r) == AppendSucceeds(r) \/ AppendFails

\* A handler appends the usage event of a request.
HandlerAppend(r) ==
    /\ r \in fresh \cap Usage
    /\ AppendRecord(r)
    /\ fresh' = fresh \ {r}
    /\ UNCHANGED <<queue, flushVars, cpVars, crashes>>

\* Mutant of EnqueueAdvisoryRecord: the queue has no bound.
EnqueueUnbounded(r) ==
    /\ Up
    /\ r \in fresh \ Usage
    /\ queue' = Append(queue, r)
    /\ fresh' = fresh \ {r}
    /\ UNCHANGED <<accepted, swallowed, fileVars, flushVars, cpVars, crashes>>

\* EnqueueAdvisoryRecord: a full queue drops the record.
EnqueueAdvisoryRecord(r) ==
    /\ Up
    /\ r \in fresh \ Usage
    /\ queue' = IF Len(queue) < AdvisoryQueueSize THEN Append(queue, r) ELSE queue
    /\ fresh' = fresh \ {r}
    /\ UNCHANGED <<accepted, swallowed, fileVars, flushVars, cpVars, crashes>>

\* runAdvisoryRecordWriter: a failed append is logged and the record is gone.
WriteAdvisoryRecord ==
    /\ queue # <<>>
    /\ AppendRecord(Head(queue))
    /\ queue' = Tail(queue)
    /\ UNCHANGED <<fresh, flushVars, cpVars, crashes>>

-----------------------------------------------------------------------------
(***************************************************************************)
(* The flush loop of runUsageStreamManager.                                *)
(***************************************************************************)

\* The ticker or the notify channel fires and the control plane looks reachable.
FlushStart ==
    /\ pc = "idle" /\ reachable
    /\ pc' = "read"
    /\ UNCHANGED <<batch, sent, segment, more, rewrite, fileVars, inputVars, cpVars, crashes>>

\* UndeliveredRecordsLimit; an empty batch ends the flush, and so does a read error.
ReadBatch ==
    /\ pc = "read"
    /\ LET records == Undelivered(file, offset, FlushMaxEvents)
       IN  /\ batch' = records
           /\ pc' = IF records = <<>> THEN "idle" ELSE "send"
    /\ sent' = 0 /\ more' = FALSE
    /\ UNCHANGED <<segment, rewrite, fileVars, inputVars, cpVars, crashes>>

ReadFails ==
    /\ pc = "read"
    /\ pc' = "idle" /\ more' = FALSE
    /\ UNCHANGED <<batch, sent, segment, rewrite, fileVars, inputVars, cpVars, crashes>>

\* Records i+1 .. i+n of b travel in one RPC: all the usage events up to the
\* next record of another type on a RecordUsage stream, any other record alone.
IsSegment(b, i, n) ==
    /\ i + n <= Len(b)
    /\ IF b[i + 1] \in Usage
       THEN /\ \A k \in i + 1 .. i + n : b[k] \in Usage
            /\ i + n < Len(b) => b[i + n + 1] \notin Usage
       ELSE n = 1

\* The RPC for the next records of the batch leaves the proxy.
Send ==
    /\ pc = "send" /\ sent < Len(batch) /\ batch[sent + 1] \notin Unknown
    /\ \E n \in 1 .. Len(batch) - sent : IsSegment(batch, sent, n) /\ segment' = n
    /\ pc' = "wait"
    /\ UNCHANGED <<batch, sent, more, rewrite, fileVars, inputVars, cpVars, crashes>>

\* IsUnsupportedWALRecordType: skipped, but counted as delivered.
SkipUnknown ==
    /\ pc = "send" /\ sent < Len(batch) /\ batch[sent + 1] \in Unknown
    /\ sent' = sent + 1
    /\ UNCHANGED <<pc, batch, segment, more, rewrite, fileVars, inputVars, cpVars, crashes>>

InFlight == {batch[k] : k \in sent + 1 .. sent + segment}

\* The control plane runs the RPC the proxy is waiting for.
Store ==
    /\ pc = "wait"
    /\ stored' = stored \cup InFlight
    /\ pc' = "answered"
    /\ UNCHANGED <<batch, sent, segment, more, rewrite, reachable, abandoned,
                   fileVars, inputVars, crashes>>

\* The answer acknowledges n of the records; the proxy goes on behind them.
\* A metadata RPC has no count: its answer acknowledges its one record.
Ack(n) ==
    /\ pc = "answered"
    /\ n \in 0 .. segment
    /\ batch[sent + 1] \in Usage \/ n = segment
    /\ sent' = sent + n
    /\ segment' = 0
    /\ pc' = "send"
    /\ UNCHANGED <<batch, more, rewrite, fileVars, inputVars, cpVars, crashes>>

\* Mutant of SendFails: the flush skips the failed records and goes on.
SendFailsSkips ==
    /\ pc \in {"wait", "answered"}
    /\ abandoned' = IF pc = "wait" THEN abandoned \cup {InFlight} ELSE abandoned
    /\ pc' = "send"
    /\ sent' = sent + segment
    /\ segment' = 0
    /\ UNCHANGED <<batch, more, rewrite, reachable, stored, fileVars, inputVars, crashes>>

\* The RPC fails: an error, a timeout or a lost answer.  The server may still
\* run a request it has not run.  The flush marks what came before and ends.
SendFails ==
    /\ pc \in {"wait", "answered"}
    /\ abandoned' = IF pc = "wait" THEN abandoned \cup {InFlight} ELSE abandoned
    /\ pc' = "mark"
    /\ more' = FALSE
    /\ segment' = 0
    /\ UNCHANGED <<batch, sent, rewrite, reachable, stored, fileVars, inputVars, crashes>>

\* The control plane runs a request the proxy gave up, or never does.
StoreLate(s) ==
    /\ s \in abandoned
    /\ abandoned' = abandoned \ {s}
    /\ stored' \in {stored, stored \cup s}
    /\ UNCHANGED <<reachable, fileVars, flushVars, inputVars, crashes>>

\* All records are handled; a full batch makes the loop iterate again.  The
\* shutdown context may have ended meanwhile.
BatchDone ==
    /\ pc = "send" /\ sent = Len(batch)
    /\ pc' = "mark"
    /\ more' \in {FALSE, Len(batch) = FlushMaxEvents}
    /\ UNCHANGED <<batch, sent, segment, rewrite, fileVars, inputVars, cpVars, crashes>>

AfterMark == IF more THEN "read" ELSE "idle"

\* markDeliveredRecords with a count of zero, or with a scan that fails.
MarkNothing ==
    /\ pc = "mark"
    /\ pc' = AfterMark
    /\ batch' = <<>> /\ sent' = 0
    /\ UNCHANGED <<segment, more, rewrite, fileVars, inputVars, cpVars, crashes>>

\* MarkDelivered.  The offset in memory moves even when the checkpoint file
\* cannot be written; the flush goes on to Compact only when it can.
MarkDelivered ==
    /\ pc = "mark" /\ sent > 0
    /\ \E o \in {offset} \cup LineEnds(file, offset) :
          /\ ScansTo(file, offset, sent, o)
          /\ offset' = o
          /\ \/ disk' = o /\ stale' = FALSE /\ pc' = "snapshot"
             \/ UNCHANGED <<disk, stale>> /\ pc' = AfterMark
    /\ batch' = <<>> /\ sent' = 0
    /\ UNCHANGED <<file, segment, more, rewrite, inputVars, cpVars, crashes>>

-----------------------------------------------------------------------------
(***************************************************************************)
(* Compact.                                                                *)
(***************************************************************************)

\* Mutant of Retained: the first undelivered line counts as delivered.
RetainedOffByOne(f, c, young) == {i \in Decodable(f, 0) : i > c + 1 \/ i \in young}

\* The lines Compact writes: every undelivered one that decodes, and the
\* delivered ones the retention period still covers.
Retained(f, c, young) == {i \in Decodable(f, 0) : i > c \/ i \in young}

\* Without the mutex: snapshot the offset and the size, write the temporary
\* file.  Which delivered lines are young depends on the clock.
CompactSnapshot ==
    /\ pc = "snapshot"
    /\ \E young \in SUBSET (1 .. offset) :
          LET K == Retained(file, offset, young)
          IN  rewrite' = [file |-> file, offset |-> offset, out |-> Pick(file, K),
                          newOffset |-> Rank(K, offset)]
    /\ pc' = "commit"
    /\ UNCHANGED <<batch, sent, segment, more, fileVars, inputVars, cpVars, crashes>>

\* Mutant of CompactRename: appends since the snapshot are not looked for.
CompactRenameUnchecked ==
    /\ pc = "commit"
    /\ file' = rewrite.out
    /\ offset' = rewrite.newOffset
    /\ stale' = TRUE
    /\ pc' = "renamed"
    /\ UNCHANGED <<disk, batch, sent, segment, more, rewrite, inputVars, cpVars, crashes>>

\* With the mutex: nothing was appended or marked since, so rename and reopen.
CompactRename ==
    /\ pc = "commit"
    /\ offset = rewrite.offset /\ file = rewrite.file
    /\ file' = rewrite.out
    /\ offset' = rewrite.newOffset
    /\ stale' = TRUE
    /\ pc' = "renamed"
    /\ UNCHANGED <<disk, batch, sent, segment, more, rewrite, inputVars, cpVars, crashes>>

\* The log changed since the snapshot, or the temporary file could not be
\* written: Compact leaves everything as it was.
CompactSkips ==
    /\ pc \in {"snapshot", "commit"}
    /\ rewrite' = NoRewrite
    /\ pc' = AfterMark
    /\ UNCHANGED <<batch, sent, segment, more, fileVars, inputVars, cpVars, crashes>>

\* Still with the mutex: writeCheckpoint, which may fail.
CompactCheckpoint ==
    /\ pc = "renamed"
    /\ \/ disk' = offset /\ stale' = FALSE
       \/ UNCHANGED <<disk, stale>>
    /\ rewrite' = NoRewrite
    /\ pc' = AfterMark
    /\ UNCHANGED <<file, offset, batch, sent, segment, more, inputVars, cpVars, crashes>>

-----------------------------------------------------------------------------
(***************************************************************************)
(* The process and its view of the control plane.                          *)
(***************************************************************************)

\* probeControlPlaneHealth and the token exchange set the flag.
ProbeControlPlane ==
    /\ Up
    /\ reachable' = ~reachable
    /\ UNCHANGED <<abandoned, stored, fileVars, flushVars, inputVars, crashes>>

\* The process dies: files survive, memory does not, a request that left the
\* proxy may still be run.
Crash ==
    /\ Up
    /\ crashes < MaxCrashes
    /\ stale => CrashOnStaleCheckpoint
    /\ crashes' = crashes + 1
    /\ pc' = "down"
    /\ abandoned' = IF pc = "wait" THEN abandoned \cup {InFlight} ELSE abandoned
    /\ queue' = <<>>
    /\ batch' = <<>> /\ sent' = 0 /\ segment' = 0 /\ more' = FALSE
    /\ rewrite' = NoRewrite
    /\ offset' = 0
    /\ reachable' = FALSE
    /\ UNCHANGED <<file, disk, stale, stored, fresh, accepted, swallowed>>

\* Mutant of Restart: delivery resumes at the end of the file.
RestartAtEnd ==
    /\ pc = "down"
    /\ pc' = "idle"
    /\ offset' = Len(file)
    /\ UNCHANGED <<file, disk, stale, batch, sent, segment, more, rewrite,
                   inputVars, cpVars, crashes>>

\* New: the file is opened as it is and the offset comes from the checkpoint, or is
\* 0 when the checkpoint cannot be read.
Restart ==
    /\ pc = "down"
    /\ pc' = "idle"
    /\ offset' \in {disk, 0}
    /\ UNCHANGED <<file, disk, stale, batch, sent, segment, more, rewrite,
                   inputVars, cpVars, crashes>>

-----------------------------------------------------------------------------
Writers ==
    \/ \E r \in Record : HandlerAppend(r) \/ EnqueueAdvisoryRecord(r)
    \/ WriteAdvisoryRecord

Flush ==
    \/ FlushStart \/ ReadBatch \/ ReadFails \/ Send \/ SkipUnknown
    \/ (\E n \in 0 .. segment : Ack(n)) \/ SendFails
    \/ BatchDone \/ MarkNothing \/ MarkDelivered
    \/ CompactSnapshot \/ CompactRename \/ CompactSkips \/ CompactCheckpoint

Environment ==
    \/ Store \/ (\E s \in abandoned : StoreLate(s))
    \/ ProbeControlPlane \/ Crash \/ Restart

Next == Writers \/ Flush \/ Environment

Spec == Init /\ [][Next]_vars

(***************************************************************************)
(* Fairness.  The ticker keeps firing and the goroutine never blocks for   *)
(* ever (every RPC has a deadline), so its own steps are weakly fair; a    *)
(* read or a scan of the file is assumed not to fail every time.  The      *)
(* control plane is assumed to be found reachable again and again, and to  *)
(* run and fully acknowledge requests if it is asked again and again:      *)
(* without that nothing can be delivered.  A crashed proxy is restarted by *)
(* its supervisor.                                                         *)
(***************************************************************************)
AckAll == segment > 0 /\ Ack(segment)

Fairness ==
    /\ SF_vars(FlushStart) /\ SF_vars(ReadBatch)
    /\ WF_vars(Send) /\ WF_vars(SkipUnknown) /\ WF_vars(BatchDone)
    /\ WF_vars(sent = 0 /\ MarkNothing) /\ SF_vars(MarkDelivered)
    /\ WF_vars(CompactSnapshot \/ CompactRename \/ CompactSkips)
    /\ WF_vars(CompactCheckpoint)
    /\ SF_vars(Store) /\ SF_vars(AckAll)
    /\ WF_vars(~reachable /\ ProbeControlPlane)
    /\ WF_vars(Restart)

FairSpec == Spec /\ Fairness

-----------------------------------------------------------------------------
PC == {"down", "idle", "read", "send", "wait", "answered", "mark", "snapshot",
       "commit", "renamed"}

Write == Record \cup {Fragment}

TypeOK ==
    /\ file \in Seq(Write)
    /\ offset \in Nat /\ disk \in Nat
    /\ stale \in BOOLEAN
    /\ queue \in Seq(Record \ Usage) /\ Len(queue) <= AdvisoryQueueSize
    /\ pc \in PC
    /\ batch \in Seq(Record) /\ Len(batch) <= FlushMaxEvents
    /\ sent \in 0 .. Len(batch) /\ segment \in 0 .. Len(batch) - sent
    /\ more \in BOOLEAN
    /\ rewrite \in [file : Seq(Write), offset : Nat, out : Seq(Record), newOffset : Nat]
    /\ reachable \in BOOLEAN
    /\ abandoned \subseteq SUBSET Record /\ stored \subseteq Record
    /\ fresh \subseteq Record
    /\ accepted \in Seq(Record) /\ swallowed \subseteq Record
    /\ crashes \in 0 .. MaxCrashes

\* Where delivery resumes: at the offset in memory or, without a process, at
\* the one a restart will read.
Resume == IF Up THEN offset ELSE disk

\* The records still to be sent, in file order.
Pending == Pick(file, Decodable(file, Resume))

Promised == {accepted[k] : k \in DOMAIN accepted} \ Unknown

IsPending(r) == \E i \in Decodable(file, Resume) : file[i] = r

Lost == {r \in Promised \ stored : ~IsPending(r)}

(***************************************************************************)
(* The package comment of wal.go promises "durable, at-least-once          *)
(* delivery ... across crashes": a record whose AppendRecord returned nil  *)
(* is stored by the control plane, or the file still holds it behind the   *)
(* checkpoint.                                                             *)
(***************************************************************************)
AtLeastOnce == Lost = {}

(***************************************************************************)
(* What holds when writes can be torn: only the records written behind a   *)
(* fragment are lost.  The raw lines MarkDelivered counts and the lines    *)
(* Compact drops never take a record with them that was not delivered.     *)
(***************************************************************************)
NoOtherLoss == Lost \subseteq swallowed

(***************************************************************************)
(* "replays typed WAL records to the control plane in WAL order"           *)
(* (usage_stream.go): when a record is stored, so is every record accepted *)
(* before it, through retries, late requests, compactions and crashes.     *)
(***************************************************************************)
StoredInOrder ==
    \A j, k \in DOMAIN accepted :
        /\ j < k /\ accepted[k] \in stored
        /\ accepted[j] \notin Unknown \cup swallowed
        => accepted[j] \in stored

(***************************************************************************)
(* Renaming the compacted file over the log changes neither the records to *)
(* be sent nor their order, whatever was appended while it was written.    *)
(***************************************************************************)
CompactionKeepsPending ==
    [][pc = "commit" /\ pc' = "renamed" => Pending' = Pending]_vars

(***************************************************************************)
(* Every accepted record is eventually stored, whatever fails on the way.  *)
(***************************************************************************)
EventuallyStored ==
    \A r \in Usage \cup Metadata :
        (r \in Promised \ swallowed) ~> (r \in stored)

(***************************************************************************)
(* The log implements OutboundLog: `promised' is what was accepted intact, *)
(* in order, and the control plane holds a prefix of it at all times.      *)
(***************************************************************************)
Intact(r) == r \notin Unknown /\ r \notin swallowed

IntactAt == {k \in DOMAIN accepted : Intact(accepted[k])}

Outbound ==
    INSTANCE OutboundLog WITH Message  <- Usage \cup Metadata,
                              promised <- Pick(accepted, IntactAt),
                              received <- stored

ImplementsOutboundLog == Outbound!FairSpec
=============================================================================
