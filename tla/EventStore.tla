----------------------------- MODULE EventStore -----------------------------
(***************************************************************************)
(* The hub's history (src/event-store.js): a list of records in memory and *)
(* a JSON-lines file, both changed by jobs that run one after the other on *)
(* a promise chain.  A write can fail halfway, the process can die at any  *)
(* await, and the file is read back when the hub starts again.             *)
(*                                                                         *)
(* Memory and file are sets of records: the list the code keeps is the set *)
(* in the order of the sequence numbers.  The JSON text of a record is the *)
(* record itself; what matters of it is whether its line was written       *)
(* wholly, without its newline, or in part.                                *)
(***************************************************************************)
EXTENDS Naturals, Sequences, FiniteSets, FiniteSetsExt

CONSTANTS
    Identities,      \* the pairs sourceDeviceId:clientEventId senders use
    NoIdentity,      \* an event sent without a clientEventId
    Signatures,      \* content type, hash and targets of an event
    Size,            \* bytes of the stored line of an event, by signature
    MaxEntries,      \* maxHistoryEntries
    MaxBytes,        \* maxHistoryBytes
    MaxAge,          \* maxHistoryAgeMs, in ticks of the clock
    ReceiptAge,      \* 600 000 ms, in ticks of the clock
    MaxReceipts,     \* 4096
    MaxQueued,       \* maxQueuedEntries
    MaxClock,        \* bound: ticks of the clock
    MaxJobs,         \* bound: jobs enqueued since the first start
    MaxFaults,       \* bound: disk operations that fail
    MaxCrashes       \* bound: times the process dies

ASSUME StoreAssumption ==
    /\ NoIdentity \notin Identities
    /\ Size \in [Signatures -> Nat]
    /\ {MaxEntries, MaxBytes, MaxAge, ReceiptAge, MaxQueued} \subseteq Nat
    /\ MaxReceipts \in Nat \ {0}
    /\ {MaxClock, MaxJobs, MaxFaults, MaxCrashes} \subseteq Nat

Events == [identity : Identities \cup {NoIdentity}, signature : Signatures]

Records == [id        : Nat,         \* randomUUID: no two records share it
            sequence  : Nat \ {0},
            createdAt : Nat,
            identity  : Identities \cup {NoIdentity},
            signature : Signatures]

Receipts == [identity : Identities, signature : Signatures, at : Nat, sequence : Nat \ {0}]

Jobs == [op : {"append"}, event : Events] \cup [op : {"clear", "maintain"}]

Files == [lines : SUBSET Records, tail : SUBSET Records, torn : BOOLEAN, broken : BOOLEAN]

VARIABLES
    up,               \* the process runs and ready() has finished
    events,           \* this.events
    nextSequence,     \* this.nextSequenceNumber
    receipts,         \* this.receipts; a Map iterates in the order of insertion,
                      \* which is the order of the receipts' sequence numbers
    dirty,            \* this.dirty
    maintenanceError, \* this.maintenanceError is set
    fileBytes,        \* this.fileBytes
    queue,            \* the jobs on this.appendQueue, the running one first
    writing,          \* the record whose appendFile is in flight: none or one
    file,             \* the file: its whole lines, the whole record that ends it
                      \* without a newline (none or one), whether it ends in a
                      \* part of a line, whether a line inside it cannot be parsed
    clock,            \* this.now()
    built,            \* records built: the source of fresh ids
    jobs, faults, crashes,          \* counters of the bounds
    acked,            \* history: records append() resolved with
    gone              \* history: records once in this.events and dropped from it

memory == <<events, nextSequence, receipts, dirty, maintenanceError, fileBytes>>
counters == <<built, jobs, faults, crashes>>
ghosts == <<acked, gone>>
vars == <<up, memory, queue, writing, file, clock, counters, ghosts>>

-----------------------------------------------------------------------------
(* Helpers.                                                                *)

BytesOf(r) == Size[r.signature]

Bytes(S) == MapThenSumSet(BytesOf, S)

From(S, n) == {r \in S : r.sequence >= n}

Fits(S) == Cardinality(S) <= MaxEntries /\ Bytes(S) <= MaxBytes

\* What the age limit leaves of S.
Unexpired(S) == {r \in S : clock - r.createdAt <= MaxAge}

\* What pruneMemory leaves of S: of the records young enough, the longest run
\* of newest ones within the limits.
Pruned(S) ==
    LET live == Unexpired(S)
    IN  UNION {T \in {From(live, r.sequence) : r \in live} : Fits(T)}

LiveReceipts == {t \in receipts : clock - t.at <= ReceiptAge}

\* The receipts after a new one, without the oldest beyond the cap.
WithReceipt(S, t) ==
    IF Cardinality(S) < MaxReceipts THEN S \cup {t}
    ELSE (S \cup {t}) \ {s \in S : \A u \in S : s.sequence <= u.sequence}

\* Mutant: records loaded from the file are not looked at.
PreviousReceiptsOnly(event) == {p \in LiveReceipts : p.identity = event.identity}

\* Receipts and records that carry the identity of an event.
Previous(event) ==
    {p \in LiveReceipts \cup events :
        event.identity # NoIdentity /\ p.identity = event.identity}

CleanFile(S) == [lines |-> S, tail |-> {}, torn |-> FALSE, broken |-> FALSE]

\* The file after some prefix of a record's line was added to it.  Anything but
\* nothing, added after an unfinished line, makes one unparsable line of both.
Glued == file.torn \/ file.tail # {}

\* Mutant: the write is not awaited, and is lost.
WithLineUnwritten(r) == file

WithLine(r) ==
    IF Glued THEN [lines |-> file.lines, tail |-> {}, torn |-> FALSE, broken |-> TRUE]
    ELSE [file EXCEPT !.lines = @ \cup {r}]

WithPart == [file EXCEPT !.tail = {}, !.torn = TRUE]

WithUnended(r) ==
    IF Glued THEN WithPart ELSE [file EXCEPT !.tail = {r}]

Prefixes(r) == {file, WithPart, WithUnended(r), WithLine(r)}

\* What a parse of the file finds.
Parsed == file.lines \cup file.tail

\* Mutant: the number of the newest record is used again.
NextAfterOffByOne(S) == Max({0} \cup {r.sequence : r \in S})

NextAfter(S) == Max({0} \cup {r.sequence : r \in S}) + 1

Finish == queue' = Tail(queue)

-----------------------------------------------------------------------------
(* Compaction: a temporary file is written and renamed over the history.   *)

Compact(S) ==
    /\ file' = CleanFile(S)
    /\ fileBytes' = Bytes(S)
    /\ dirty' = FALSE
    /\ maintenanceError' = FALSE
    /\ UNCHANGED faults

DiskFails == faults < MaxFaults /\ faults' = faults + 1

\* A compaction that fails in tryCompact; bytes is the file's size so far.
CompactFails(bytes) ==
    /\ DiskFails
    /\ maintenanceError' = TRUE
    /\ dirty' = TRUE
    /\ fileBytes' = bytes

-----------------------------------------------------------------------------
Forget ==
    /\ events' = {}
    /\ receipts' = {}
    /\ nextSequence' = 1
    /\ dirty' = FALSE
    /\ maintenanceError' = FALSE
    /\ fileBytes' = 0

Init ==
    /\ up = FALSE
    /\ events = {} /\ receipts = {} /\ nextSequence = 1
    /\ dirty = FALSE /\ maintenanceError = FALSE /\ fileBytes = 0
    /\ queue = <<>> /\ writing = {}
    /\ file = CleanFile({})
    /\ clock = 0
    /\ built = 0 /\ jobs = 0 /\ faults = 0 /\ crashes = 0
    /\ acked = {} /\ gone = {}

(* ready(): the file is read, pruned line by line, and rewritten when it is *)
(* not exactly what memory holds.                                           *)

MustRewrite(loaded) ==
    \/ file.broken \/ file.torn \/ file.tail # {}
    \/ loaded # Parsed
    \/ Bytes(Parsed) > MaxBytes

Ready ==
    /\ ~up /\ up' = TRUE
    /\ events' = Pruned(Parsed)
    /\ nextSequence' = NextAfter(Parsed)
    /\ IF MustRewrite(events') THEN Compact(events')
       ELSE /\ fileBytes' = Bytes(Parsed)
            /\ UNCHANGED <<file, dirty, maintenanceError, faults>>
    /\ gone' = gone \cup (Parsed \ events')
    /\ UNCHANGED <<receipts, queue, writing, clock, built, jobs, crashes, acked>>

\* The rewriting fails, ready() throws and the process exits.
ReadyFails ==
    /\ ~up
    /\ MustRewrite(Pruned(Parsed))
    /\ DiskFails
    /\ UNCHANGED <<up, memory, queue, writing, file, clock, built, jobs, crashes, ghosts>>

\* The process dies, between two awaits or while a line is being written.
Crash ==
    /\ up /\ up' = FALSE
    /\ crashes < MaxCrashes /\ crashes' = crashes + 1
    /\ Forget
    /\ queue' = <<>> /\ writing' = {}
    /\ file' \in IF writing = {} THEN {file} ELSE UNION {Prefixes(r) : r \in writing}
    /\ UNCHANGED <<clock, built, jobs, faults, ghosts>>

Tick ==
    /\ clock < MaxClock /\ clock' = clock + 1
    /\ UNCHANGED <<up, memory, queue, writing, file, counters, ghosts>>

-----------------------------------------------------------------------------
(* Callers.                                                                 *)

Enqueue(job) ==
    /\ up
    /\ queue' = Append(queue, job)
    /\ UNCHANGED <<up, memory, writing, file, clock, built, faults, crashes, ghosts>>

QueuedEntries == Cardinality({i \in DOMAIN queue : queue[i].op = "append"})

RequestAppend(event) ==
    /\ QueuedEntries < MaxQueued
    /\ jobs < MaxJobs /\ jobs' = jobs + 1
    /\ Enqueue([op |-> "append", event |-> event])

RequestClear ==
    /\ jobs < MaxJobs /\ jobs' = jobs + 1
    /\ Enqueue([op |-> "clear"])

\* The hub's timer.  Bound: one maintenance on the queue at a time.
RequestMaintain ==
    /\ \A i \in DOMAIN queue : queue[i].op # "maintain"
    /\ Enqueue([op |-> "maintain"])
    /\ UNCHANGED jobs

-----------------------------------------------------------------------------
(* The job at the head of the chain.                                        *)

Running(op) == up /\ queue # <<>> /\ Head(queue).op = op

\* The record appendNow builds for an event.
Stored(event) ==
    [id |-> built + 1, sequence |-> nextSequence, createdAt |-> clock,
     identity |-> event.identity, signature |-> event.signature]

\* appendNow up to its first await of the disk.
StartAppend(event) ==
    /\ Running("append") /\ writing = {}
    /\ event = Head(queue).event
    /\ receipts' = LiveReceipts
    /\ UNCHANGED <<up, events, nextSequence, clock, jobs, crashes, ghosts>>

\* Submitted before: answered as a duplicate when the signature is the same,
\* refused otherwise.  Neither changes the history.
AnswerKnown ==
    \E event \in Events :
        /\ StartAppend(event)
        /\ Previous(event) # {}
        /\ Finish
        /\ UNCHANGED <<dirty, maintenanceError, fileBytes, writing, file, built, faults>>

\* The storage failed earlier and still does.
RefuseUnhealthy ==
    \E event \in Events :
        /\ StartAppend(event)
        /\ Previous(event) = {}
        /\ maintenanceError
        /\ DiskFails
        /\ Finish
        /\ UNCHANGED <<dirty, maintenanceError, fileBytes, writing, file, built>>

\* Mutant: the error is forgotten without the file being rewritten.
RecoverWithoutRewrite ==
    maintenanceError' = FALSE /\ UNCHANGED <<file, fileBytes, dirty, faults>>

\* What a failed write left behind is rewritten before anything is added.
Recover ==
    IF maintenanceError THEN Compact(events)
    ELSE UNCHANGED <<file, fileBytes, dirty, maintenanceError, faults>>

RefuseOversize ==
    \E event \in Events :
        /\ StartAppend(event)
        /\ Previous(event) = {}
        /\ Recover
        /\ Size[event.signature] > MaxBytes
        /\ Finish
        /\ UNCHANGED <<writing, built>>

\* Mutant: memory shows the record before its line is written.
BeginWriteEager ==
    \E event \in Events :
        /\ Running("append") /\ writing = {}
        /\ event = Head(queue).event
        /\ Previous(event) = {} /\ ~maintenanceError
        /\ Size[event.signature] <= MaxBytes
        /\ built' = built + 1
        /\ writing' = {Stored(event)}
        /\ events' = events \cup writing'
        /\ UNCHANGED <<up, nextSequence, receipts, dirty, maintenanceError, fileBytes, queue,
                       file, clock, jobs, faults, crashes, ghosts>>

BeginWrite ==
    \E event \in Events :
        /\ StartAppend(event)
        /\ Previous(event) = {}
        /\ Recover
        /\ Size[event.signature] <= MaxBytes
        /\ built' = built + 1
        /\ writing' = {Stored(event)}
        /\ UNCHANGED queue

\* appendFile resolves: the record is committed, memory is pruned, and the file
\* is compacted when it holds too much that memory dropped.
CommitWrite(r) ==
    LET grown  == fileBytes + BytesOf(r)
        kept   == Pruned(events \cup {r})
        stale  == dirty \/ kept # events \cup {r}
        excess == grown > MaxBytes \/ 4 * Bytes(kept) <= 3 * grown
    IN  /\ nextSequence' = nextSequence + 1
        /\ receipts' = IF r.identity = NoIdentity THEN receipts
                       ELSE WithReceipt(receipts, [identity |-> r.identity, signature |-> r.signature,
                                                   at |-> r.createdAt, sequence |-> r.sequence])
        /\ events' = kept
        /\ IF stale /\ excess
           THEN \/ Compact(kept)
                \/ CompactFails(grown) /\ file' = WithLine(r)
           ELSE /\ file' = WithLine(r)
                /\ fileBytes' = grown
                /\ dirty' = stale
                /\ UNCHANGED <<maintenanceError, faults>>
        /\ acked' = acked \cup {r}
        /\ gone' = gone \cup ((events \cup {r}) \ kept)

EndWrite ==
    \E r \in writing :
        /\ up /\ writing' = {} /\ Finish
        /\ CommitWrite(r)
        /\ UNCHANGED <<up, clock, built, jobs, crashes>>

\* Mutant: only one of the two marks of a failed write is set.
MarkFailedNotDirty == maintenanceError' = TRUE /\ UNCHANGED dirty

MarkFailed == dirty' = TRUE /\ maintenanceError' = TRUE

\* appendFile rejects, after writing any prefix of the line.
FailWrite ==
    \E r \in writing :
        /\ up /\ writing' = {} /\ Finish
        /\ DiskFails
        /\ file' \in Prefixes(r)
        /\ MarkFailed
        /\ UNCHANGED <<up, events, nextSequence, receipts, fileBytes, clock, built, jobs, crashes, ghosts>>

\* Mutant: the file is left for a later compaction.
ClearNowMemoryOnly ==
    /\ Running("clear") /\ Finish
    /\ events' = {}
    /\ gone' = gone \cup events
    /\ dirty' = TRUE
    /\ UNCHANGED <<up, nextSequence, receipts, maintenanceError, fileBytes, writing, file,
                   clock, counters, acked>>

ClearNow ==
    /\ Running("clear") /\ Finish
    /\ Compact({})
    /\ events' = {}
    /\ gone' = gone \cup events
    /\ UNCHANGED <<up, nextSequence, receipts, writing, clock, built, jobs, crashes, acked>>

ClearFails ==
    /\ Running("clear") /\ Finish
    /\ DiskFails
    /\ UNCHANGED <<up, memory, writing, file, clock, built, jobs, crashes, ghosts>>

Maintain ==
    /\ Running("maintain") /\ Finish
    /\ events' = Pruned(events)
    /\ gone' = gone \cup (events \ events')
    /\ IF dirty \/ events' # events
       THEN \/ Compact(events')
            \/ CompactFails(fileBytes) /\ UNCHANGED file
       ELSE UNCHANGED <<file, fileBytes, dirty, maintenanceError, faults>>
    /\ UNCHANGED <<up, nextSequence, receipts, writing, clock, built, jobs, crashes, acked>>

-----------------------------------------------------------------------------
Job ==
    \/ AnswerKnown \/ RefuseUnhealthy \/ RefuseOversize \/ BeginWrite
    \/ EndWrite \/ FailWrite
    \/ ClearNow \/ ClearFails \/ Maintain

Next ==
    \/ Ready \/ ReadyFails \/ Crash \/ Tick
    \/ \E event \in Events : RequestAppend(event)
    \/ RequestClear \/ RequestMaintain
    \/ Job

Spec == Init /\ [][Next]_vars

\* The event loop runs the jobs, the timer asks for maintenance, and a process
\* that exits is started again.
Fairness == WF_vars(Job) /\ WF_vars(RequestMaintain) /\ WF_vars(Ready)

FairSpec == Spec /\ Fairness

-----------------------------------------------------------------------------
(* Properties.                                                              *)

\* The variables have the types the code gives them (fileBytes, a running sum,
\* is only compared).
TypeOK ==
    /\ up \in BOOLEAN /\ dirty \in BOOLEAN /\ maintenanceError \in BOOLEAN
    /\ events \in SUBSET Records
    /\ nextSequence \in Nat \ {0}
    /\ receipts \in SUBSET Receipts
    /\ queue \in Seq(Jobs)
    /\ writing \in SUBSET Records
    /\ file \in Files
    /\ clock \in Nat /\ built \in Nat /\ jobs \in Nat /\ faults \in Nat /\ crashes \in Nat
    /\ acked \in SUBSET Records /\ gone \in SUBSET Records

\* Everything a reader is shown is on the disk: no crash can take it back.
Durable == up => events \subseteq file.lines

\* A record append() resolved with stays in the history, through crashes, until
\* age, a limit or a clear removes it.
AckedSurvives == acked \ gone \subseteq IF up THEN events ELSE Parsed

\* A record that aged out, was pushed out or was cleared never comes back, not
\* from the lines of it the file still holds when the hub is started again.
NoResurrection == up => events \cap gone = {}

\* The hub never glues a line to the rest of a failed one: whatever failed or
\* died, the only damage in the file is at its end.
NeverGlued == ~file.broken

\* Once a failed write was followed by another record, nothing of it is left:
\* a file the hub trusts ends with a newline and holds only records that were
\* committed, one for each sequence number below the next.
TrustedFile ==
    up /\ ~maintenanceError /\ writing = {} =>
        /\ ~Glued
        /\ \A r \in file.lines : r.sequence < nextSequence
        /\ \A r, s \in file.lines : r.sequence = s.sequence => r = s

\* A failed write does no lasting damage, whether the hub goes on or dies of it.
FileSound == NeverGlued /\ TrustedFile

\* The inductive invariant behind the three properties above.  Sequence numbers
\* are below the number of records built, which bounds what ready() may find.
Committed(S) == \A r \in S : r.sequence < nextSequence

IInv ==
    /\ ~file.broken
    /\ \A r, s \in Parsed : r.sequence = s.sequence => r = s
    /\ \A r \in Parsed : r.sequence <= built
    /\ nextSequence <= built + 1
    /\ ~up => ~dirty /\ ~maintenanceError
    /\ up => /\ events \subseteq file.lines
             /\ Committed(events)
             /\ maintenanceError => dirty
             /\ ~maintenanceError => ~Glued /\ Committed(file.lines)
    /\ AckedSurvives
    /\ writing # {} =>
          /\ Running("append") /\ ~maintenanceError
          /\ nextSequence <= built
          /\ \E r \in writing : writing = {r} /\ r.sequence = nextSequence

\* For its readers the store is a window onto a log: however a submission was
\* retried, before or after a crash, it is shown once; records enter in the order
\* of their sequence numbers; only the oldest ones leave.
ReaderView == IF up THEN events ELSE Pruned(Parsed)
Log == INSTANCE HistoryLog WITH history <- ReaderView
RefinesLog == Log!Spec

\* Every job is settled, whatever became of the ones before it, unless the
\* process dies.
JobsSettle == queue # <<>> ~> (queue = <<>> \/ ~up)

\* Storage that works again is used again: a failed store does not stay refused
\* once the faults are over.
StorageRecovers == maintenanceError ~> ~maintenanceError

\* The store comes to no standstill (withLock, maintain).
StoreGoesOn == JobsSettle /\ StorageRecovers
=============================================================================
