--------------------------- MODULE FileRegistryV2 ---------------------------
(***************************************************************************)
(* pkg/registry/file_registry_v2.go: the registry that logs every change   *)
(* before it makes it, compacts the log into a snapshot file, and reads    *)
(* both back after a crash.  One service.  The memory registry inside is   *)
(* MemoryRegistry; here each of its operations is one step on the records. *)
(*                                                                         *)
(* The log is the file's records, of which the last may be torn, and those *)
(* still in the writer's buffer.  Snapshot marks do nothing on replay and  *)
(* are left out.                                                           *)
(***************************************************************************)
EXTENDS Integers, SequencesExt

CONSTANTS Id,
          Caller,
          Sweeper,       \* the controller's sweep loop
          None,          \* no record, no lock holder
          TTL,           \* lease durations
          CompactRecords,\* the log length that triggers a compaction
          MaxTime, MaxOps, MaxCrashes   \* bounds

VARIABLES clock, ops, crashes,
          syncMode,      \* "always" or "batch", for good
          memory,        \* the records: [epoch, expires]
          snapshotFile,
          wal,           \* the records in the log file
          buffer,        \* and those not flushed to it
          fatal,         \* the writer's sticky error
          writes,        \* who holds the lock over writes
          pc, record,    \* where each process is, the record it appends
          expired,       \* ids the sweeper still has to log
          up,            \* is the controller running?
          before,        \* history: the records when it stopped,
          graceful,      \* whether it was closed,
          doubts         \* and ids whose log does not tell their record, with why

disk == <<snapshotFile, wal, buffer, fatal>>
history == <<before, graceful, doubts>>
settled == <<clock, ops, crashes, syncMode>>
vars == <<settled, memory, disk, writes, pc, record, expired, up, history>>

Process == Caller \cup {Sweeper}
Torn == [op |-> "torn"]
Doubt == {"unanswered", "refused", "omitted"}
NoRecords == [i \in Id |-> None]
Records == [Id -> [epoch : 1..MaxOps, expires : Nat] \cup {None}]

TypeOK ==
  /\ clock \in 0..MaxTime
  /\ memory \in Records
  /\ snapshotFile \in Records
  /\ \A k \in 1..Len(wal) - 1 : wal[k] # Torn
  /\ syncMode = "always" => Len(buffer) <= 1
  /\ writes \in Process \cup {None}
  /\ \A p \in Process : pc[p] \in {"append", "flush", "apply", "truncate"} => writes = p
  /\ doubts \subseteq Id \X Doubt

Init ==
  /\ clock = 0 /\ ops = 0 /\ crashes = 0
  /\ syncMode \in {"always", "batch"}
  /\ memory = NoRecords
  /\ snapshotFile = NoRecords
  /\ wal = <<>> /\ buffer = <<>>
  /\ fatal = FALSE
  /\ writes = None
  /\ pc = [p \in Process |-> "idle"]
  /\ record = [p \in Process |-> None]
  /\ expired = {}
  /\ up = TRUE
  /\ before = NoRecords
  /\ graceful = FALSE
  /\ doubts = {}

Goto(p, label) == pc' = [pc EXCEPT ![p] = label]
Live(rec) == rec # None /\ rec.expires > clock
LiveRecords(m) == [i \in Id |-> IF Live(m[i]) THEN m[i] ELSE None]

\* After an operation the log may be long enough to compact.
Finish(p, size) ==
  /\ Goto(p, IF size >= CompactRecords THEN "compact" ELSE "idle")
  /\ record' = [record EXCEPT ![p] = None]
  /\ writes' = None

----------------------------------------------------------------------------
\* Register and the heartbeats read the time and make the record before they
\* wait for the lock.  A heartbeat may name the epoch it is for, or none (0).
Begin(c, r) ==
  /\ up /\ pc[c] = "idle" /\ ops < MaxOps
  /\ Goto(c, "lock")
  /\ record' = [record EXCEPT ![c] = r]
  /\ ops' = ops + 1
  /\ UNCHANGED <<clock, crashes, syncMode, memory, disk, writes, expired, up, history>>

Register(c) ==
  \E i \in Id, ttl \in TTL :
    Begin(c, [op |-> "register", id |-> i, at |-> clock, ttl |-> ttl, epoch |-> ops + 1])

Heartbeat(c) ==
  \E i \in Id, ttl \in TTL :
    \E e \in {0} \cup (IF memory[i] = None THEN {} ELSE {memory[i].epoch}) :
      Begin(c, [op |-> "heartbeat", id |-> i, at |-> clock, ttl |-> ttl, epoch |-> e])

\* The fence, checked before the append and again after it.
Accepts(r) ==
  memory[r.id] # None /\ (r.epoch = 0 \/ memory[r.id].epoch = r.epoch)

LockWrites(c) ==
  /\ up /\ pc[c] = "lock" /\ writes = None
  /\ IF record[c].op = "heartbeat" /\ ~Accepts(record[c])
     THEN Goto(c, "idle") /\ UNCHANGED writes
     ELSE Goto(c, "append") /\ writes' = c
  /\ record' = IF pc'[c] = "idle" THEN [record EXCEPT ![c] = None] ELSE record
  /\ UNCHANGED <<settled, memory, disk, expired, up, history>>

\* In batch mode the writer answers as soon as the record is in its buffer.
Acknowledged == syncMode = "batch"

AppendRecord(c) ==
  /\ up /\ pc[c] = "append"
  /\ \/ /\ fatal
        /\ Goto(c, "idle") /\ writes' = None
        /\ record' = [record EXCEPT ![c] = None]
        /\ UNCHANGED buffer
     \/ /\ ~fatal
        /\ buffer' = Append(buffer, record[c])
        /\ Goto(c, IF Acknowledged THEN "apply" ELSE "flush")
        /\ UNCHANGED <<writes, record>>
  /\ UNCHANGED <<settled, memory, snapshotFile, wal, fatal, expired, up, history>>

\* In always mode it answers when the record is on disk,
Flush(c) ==
  /\ up /\ pc[c] = "flush"
  /\ wal' = wal \o buffer
  /\ buffer' = <<>>
  /\ Goto(c, "apply")
  /\ UNCHANGED <<settled, memory, snapshotFile, fatal, writes, record, expired, up, history>>

\* or with an error, after which it accepts nothing more and what reached the
\* disk is anyone's guess.
FlushFails(c) ==
  /\ up /\ pc[c] = "flush"
  /\ wal' \in { wal, Append(wal, Torn), wal \o buffer }
  /\ buffer' = <<>>
  /\ fatal' = TRUE
  /\ doubts' = doubts \cup {<<record[c].id, "unanswered">>}
  /\ Goto(c, "idle") /\ writes' = None
  /\ record' = [record EXCEPT ![c] = None]
  /\ UNCHANGED <<settled, memory, snapshotFile, expired, up, before, graceful>>

\* The change itself.  A heartbeat whose record a reader purged meanwhile is
\* refused, though it is in the log.
Apply(c) ==
  LET r == record[c]
      epoch == IF r.op = "register" THEN r.epoch ELSE memory[r.id].epoch
  IN  /\ up /\ pc[c] = "apply"
      /\ \/ /\ r.op = "register" \/ Accepts(r)
            /\ memory' = [memory EXCEPT ![r.id] = [epoch |-> epoch, expires |-> r.at + r.ttl]]
            /\ doubts' = IF r.op = "register" THEN doubts \ ({r.id} \X Doubt) ELSE doubts
            /\ Finish(c, Len(wal) + Len(buffer))
         \/ /\ r.op = "heartbeat" /\ ~Accepts(r)
            /\ doubts' = doubts \cup {<<r.id, "refused">>}
            /\ Finish(c, 0)
            /\ UNCHANGED memory
      /\ UNCHANGED <<settled, disk, expired, up, before, graceful>>

\* Compact: write the live records to a new file and rename it over the old one,
CompactSnapshot(p) ==
  /\ up /\ pc[p] = "compact" /\ writes \in {None, p}
  /\ snapshotFile' = LiveRecords(memory)
  /\ writes' = p
  /\ Goto(p, "truncate")
  /\ UNCHANGED <<settled, memory, wal, buffer, fatal, record, expired, up, history>>

\* which may fail and leaves the old one,
CompactFails(p) ==
  /\ up /\ pc[p] = "compact" /\ writes \in {None, p}
  /\ Finish(p, 0)
  /\ UNCHANGED <<settled, memory, disk, expired, up, history>>

\* then have the writer flush and empty the log, or fail for good before or after
\* it did.  Records the snapshot left out as expired are gone from the disk with
\* the log, those still in memory included.
Truncate(p) ==
  /\ up /\ pc[p] = "truncate"
  /\ \/ /\ ~fatal
        /\ wal' = <<>> /\ buffer' = <<>> /\ fatal' \in BOOLEAN
        /\ doubts' = { i \in Id : memory[i] # None /\ snapshotFile[i] = None } \X {"omitted"}
     \/ /\ ~fatal
        /\ wal' \in { wal, Append(wal, Torn), wal \o buffer } /\ buffer' = <<>> /\ fatal' = TRUE
        /\ UNCHANGED doubts
     \/ /\ fatal
        /\ UNCHANGED <<wal, buffer, fatal, doubts>>
  /\ Finish(p, 0)
  /\ UNCHANGED <<settled, memory, snapshotFile, expired, up, before, graceful>>

\* The sweep removes the expired records under the lock and logs each.
Sweep ==
  LET S == { i \in Id : memory[i] # None /\ ~Live(memory[i]) }
  IN  /\ up /\ pc[Sweeper] = "idle" /\ writes = None /\ S # {}
      /\ memory' = LiveRecords(memory)
      /\ expired' = S
      /\ writes' = Sweeper
      /\ Goto(Sweeper, "log")
      /\ UNCHANGED <<settled, disk, record, up, history>>

LogExpired(i) ==
  LET log == Append(buffer, [op |-> "delete", id |-> i, at |-> clock])
  IN  /\ up /\ pc[Sweeper] = "log" /\ i \in expired
      /\ expired' = expired \ {i}
      /\ wal' = IF fatal \/ Acknowledged THEN wal ELSE wal \o log
      /\ buffer' = IF fatal \/ ~Acknowledged THEN buffer ELSE log
      /\ IF expired' = {} THEN Finish(Sweeper, Len(wal') + Len(buffer'))
                         ELSE UNCHANGED <<pc, record, writes>>
      /\ UNCHANGED <<settled, memory, snapshotFile, fatal, up, history>>

\* Readers purge expired records without the lock and without a log entry.
List ==
  /\ up
  /\ memory' = LiveRecords(memory)
  /\ UNCHANGED <<settled, disk, writes, pc, record, expired, up, history>>

\* The writer's ticker.
TickerFlush ==
  /\ up /\ syncMode = "batch" /\ ~fatal /\ buffer # <<>>
  /\ \/ wal' = wal \o buffer /\ UNCHANGED fatal
     \/ fatal' = TRUE /\ wal' \in { wal, Append(wal, Torn), wal \o buffer }
  /\ buffer' = <<>>
  /\ UNCHANGED <<settled, memory, snapshotFile, writes, pc, record, expired, up, history>>

----------------------------------------------------------------------------
\* Everything in the process is gone; operations in the log that nobody was
\* answered may or may not come back.
Stop(written) ==
  /\ up /\ crashes < MaxCrashes
  /\ up' = FALSE
  /\ crashes' = crashes + 1
  /\ before' = memory
  /\ memory' = NoRecords
  /\ wal' = written
  /\ buffer' = <<>>
  /\ doubts' = doubts \cup { <<record[p].id, "unanswered">> : p \in { q \in Process : pc[q] \in {"flush", "apply"} } }
  /\ writes' = None
  /\ pc' = [p \in Process |-> "idle"]
  /\ record' = [p \in Process |-> None]
  /\ expired' = {}
  /\ UNCHANGED <<clock, ops, syncMode, snapshotFile, fatal>>

\* A crash may cut the write of the buffer short, in the middle of a record too.
Crash ==
  /\ graceful' = FALSE
  /\ \E done \in Prefixes(buffer) :
       \E tail \in {<<>>} \cup (IF done = buffer THEN {} ELSE {<<Torn>>}) :
         Stop(wal \o done \o tail)

ClosedLog == IF fatal THEN wal ELSE wal \o buffer

\* Close waits for those who wait for the writer, and flushes.
Close ==
  /\ \A p \in Process : pc[p] \notin {"append", "flush"}
  /\ graceful' = ~fatal
  /\ Stop(ClosedLog)

applyWALRecord(m, r) ==
  CASE r.op = "register" -> [m EXCEPT ![r.id] = [epoch |-> r.epoch, expires |-> r.at + r.ttl]]
    [] r.op = "heartbeat" -> IF m[r.id] = None THEN m ELSE [m EXCEPT ![r.id].expires = r.at + r.ttl]
    [] r.op = "delete" -> [m EXCEPT ![r.id] = None]

\* Mutant of Replayed: the log alone.
ReplayedLog(log) == FoldLeft(applyWALRecord, NoRecords, log)

Replayed(log) == FoldLeft(applyWALRecord, snapshotFile, log)

\* The log up to a torn record,
Valid(log) ==
  LET k == SelectInSeq(log, LAMBDA r : r = Torn)
  IN  IF k = 0 THEN log ELSE SubSeq(log, 1, k - 1)

\* to which the file is truncated.
Truncated(log) == Valid(log)

\* NewFileRegistryV2; a long log is compacted before the first request.
Recover ==
  /\ ~up
  /\ up' = TRUE
  /\ memory' = LiveRecords(Replayed(Valid(wal)))
  /\ wal' = Truncated(wal)
  /\ fatal' = FALSE
  /\ writes' = IF Len(wal') >= CompactRecords THEN Sweeper ELSE None
  /\ pc' = [pc EXCEPT ![Sweeper] = IF Len(wal') >= CompactRecords THEN "compact" ELSE "idle"]
  /\ before' = NoRecords
  /\ graceful' = FALSE
  /\ doubts' = {}
  /\ UNCHANGED <<settled, snapshotFile, buffer, record, expired>>

Advance ==
  /\ clock < MaxTime
  /\ clock' = clock + 1
  /\ UNCHANGED <<ops, crashes, syncMode, memory, disk, writes, pc, record, expired, up, history>>

Next ==
  \/ Sweep \/ List \/ TickerFlush \/ Crash \/ Close \/ Recover \/ Advance
  \/ \E i \in Id : LogExpired(i)
  \/ \E p \in Process : CompactSnapshot(p) \/ CompactFails(p) \/ Truncate(p)
  \/ \E c \in Caller :
       \/ Register(c)
       \/ Heartbeat(c)
       \/ LockWrites(c)
       \/ AppendRecord(c)
       \/ Flush(c)
       \/ FlushFails(c)
       \/ Apply(c)

Spec == Init /\ [][Next]_vars

----------------------------------------------------------------------------
Recovers == ~up /\ up'

\* What a restart finds is what the registry held, less what expired: for every
\* id whose operations were all answered, if answers wait for the disk or the
\* registry was closed; but for heartbeats refused after they were logged, and
\* for records a compaction left out as expired that a heartbeat then revived.
RecoversExactly ==
  [][(Recovers /\ (syncMode = "always" \/ graceful)) =>
         \A i \in Id : ({i} \X Doubt) \cap doubts = {} => memory'[i] = LiveRecords(before)[i]]_vars
=============================================================================
