--------------------------- MODULE MemoryRegistry ---------------------------
(***************************************************************************)
(* pkg/registry/registry.go: the in-memory lease registry.                 *)
(*                                                                         *)
(* Writers run Register and Heartbeat, readers run Snapshot and List, one  *)
(* background goroutine runs SweepExpired.  Each label below is a stretch  *)
(* of code that is atomic because it runs under serviceState.mu or         *)
(* expiryMu, or is a single atomic load.  What happens between two labels  *)
(* interleaves with every other goroutine.                                 *)
(*                                                                         *)
(* The random epoch and owner token drawn together by a registration are   *)
(* one value, the registration's generation number: both are unique.       *)
(* An instance carries expiresAt in place of LastSeen (LastSeen + ttl).    *)
(***************************************************************************)
EXTENDS Naturals, FiniteSets

CONSTANTS Service, ID,       \* service names, instance IDs
          Writer, Reader,    \* concurrent callers
          TTL,               \* lease durations callers ask for
          MaxTime,           \* bound: the clock stops there
          MaxGeneration,     \* bound: registrations and heartbeats attempted
          NoRecord           \* stands for a missing map entry

ASSUME RegistryAssumption ==
  /\ TTL \subseteq Nat \ {0}
  /\ MaxTime \in Nat
  /\ MaxGeneration \in Nat

VARIABLES clock,        \* what r.now() returns
          generation,   \* r.generation
          services,     \* keys of r.services
          records,      \* state.records of every service
          snapshot,     \* the published state.snapshot of every service
          heap,         \* r.expiries
          writer,       \* local state of each Register or Heartbeat call
          reader,       \* local state of each Snapshot call
          sweeper,      \* local state of the SweepExpired goroutine
          cancelled     \* the sweeper's context is done (shutdown)

vars == <<clock, generation, services, records, snapshot, heap,
          writer, reader, sweeper, cancelled>>

----------------------------------------------------------------------------
Key == Service \X ID

Record == [epoch : Nat, expiresAt : Nat, generation : Nat]
Entry == [service : Service, id : ID, expiresAt : Nat, generation : Nat]
Instance == [id : ID, epoch : Nat, expiresAt : Nat]

ASSUME NoRecordAssumption ==
  NoRecord \notin Record \cup [epoch : Nat, deadline : Nat]

\* nextExpiresAt = 0 is the zero time of the code.
Snapshot == [version : Nat, instances : SUBSET Instance, nextExpiresAt : Nat]

\* Fence 0 is a heartbeat that requires no epoch.
WriterState ==
  [pc : {"idle"}]
  \cup [pc : {"lock"}, op : {"register", "heartbeat"}, fence : Nat, now : Nat, entry : Entry]
  \cup [pc : {"push"}, entry : Entry]

ReaderState ==
  [pc : {"idle"}]
  \cup [pc : {"load", "sweep", "reload"}, service : Service, now : Nat]
  \cup [pc : {"done"}, now : Nat, result : SUBSET Instance]

SweeperState ==
  [pc : {"idle"}]
  \cup [pc : {"pop", "rebuild"}, now : Nat, dirty : SUBSET Service]
  \cup [pc : {"check"}, now : Nat, dirty : SUBSET Service, entry : Entry]

Idle == [pc |-> "idle"]

TypeOK ==
  /\ clock \in Nat
  /\ generation \in Nat
  /\ services \subseteq Service
  /\ records \in [Key -> Record \cup {NoRecord}]
  /\ snapshot \in [Service -> Snapshot]
  /\ heap \subseteq Entry
  /\ writer \in [Writer -> WriterState]
  /\ reader \in [Reader -> ReaderState]
  /\ sweeper \in SweeperState
  /\ cancelled \in BOOLEAN

Init ==
  /\ clock = 1
  /\ generation = 0
  /\ services = {}
  /\ records = [k \in Key |-> NoRecord]
  /\ snapshot = [s \in Service |-> [version |-> 0, instances |-> {}, nextExpiresAt |-> 0]]
  /\ heap = {}
  /\ writer = [w \in Writer |-> Idle]
  /\ reader = [r \in Reader |-> Idle]
  /\ sweeper = Idle
  /\ cancelled = FALSE

----------------------------------------------------------------------------
(* rebuildSnapshotLocked and its parts, over a given map of records.       *)

\* The instances a snapshot of service s built at time now contains.
LiveInstances(recs, s, now) ==
  { [id |-> i, epoch |-> recs[<<s, i>>].epoch, expiresAt |-> recs[<<s, i>>].expiresAt] :
      i \in { j \in ID : recs[<<s, j>>] # NoRecord /\ recs[<<s, j>>].expiresAt > now } }

EarliestExpiry(instances) ==
  IF instances = {} THEN 0
  ELSE CHOOSE t \in { i.expiresAt : i \in instances } : \A i \in instances : t <= i.expiresAt

Rebuilt(recs, s, now) ==
  [snapshot EXCEPT ![s] =
     [version       |-> snapshot[s].version + 1,
      instances     |-> LiveInstances(recs, s, now),
      nextExpiresAt |-> EarliestExpiry(LiveInstances(recs, s, now))]]

SnapshotNeedsExpiry(snap, now) == snap.nextExpiresAt # 0 /\ snap.nextExpiresAt <= now

----------------------------------------------------------------------------
(* Register and Heartbeat.  Calls refused for a cancelled context or an    *)
(* invalid argument return before touching anything.                       *)

\* registerAt up to the lock: the time and the generation are taken here.
RegisterBegin(w, s, i, ttl) ==
  /\ writer[w].pc = "idle"
  /\ generation < MaxGeneration
  /\ generation' = generation + 1
  /\ services' = services \cup {s}
  /\ writer' = [writer EXCEPT ![w] =
       [pc |-> "lock", op |-> "register", fence |-> 0, now |-> clock,
        entry |-> [service |-> s, id |-> i, expiresAt |-> clock + ttl, generation |-> generation + 1]]]
  /\ UNCHANGED <<clock, records, snapshot, heap, reader, sweeper, cancelled>>

\* heartbeatAtWithOwner up to the lock, with the epoch the caller holds.
HeartbeatBegin(w, s, i, ttl, fence) ==
  /\ writer[w].pc = "idle"
  /\ s \in services
  /\ generation < MaxGeneration
  /\ generation' = generation + 1
  /\ writer' = [writer EXCEPT ![w] =
       [pc |-> "lock", op |-> "heartbeat", fence |-> fence, now |-> clock,
        entry |-> [service |-> s, id |-> i, expiresAt |-> clock + ttl, generation |-> generation + 1]]]
  /\ UNCHANGED <<clock, services, records, snapshot, heap, reader, sweeper, cancelled>>

\* Mutant of StoreAndPublish: the snapshot is rebuilt before the record is stored.
PublishThenStore(w, rec) ==
  LET e == writer[w].entry
  IN /\ records' = [records EXCEPT ![<<e.service, e.id>>] = rec]
     /\ snapshot' = Rebuilt(records, e.service, writer[w].now)
     /\ writer' = [writer EXCEPT ![w] = [pc |-> "push", entry |-> e]]
     /\ UNCHANGED <<clock, generation, services, heap, reader, sweeper, cancelled>>

\* Store rec under the lock of its service, publish, and leave with the
\* heap entry still to be pushed.
StoreAndPublish(w, rec) ==
  LET e == writer[w].entry
      recs == [records EXCEPT ![<<e.service, e.id>>] = rec]
  IN /\ records' = recs
     /\ snapshot' = Rebuilt(recs, e.service, writer[w].now)
     /\ writer' = [writer EXCEPT ![w] = [pc |-> "push", entry |-> e]]
     /\ UNCHANGED <<clock, generation, services, heap, reader, sweeper, cancelled>>

RegisterLocked(w) ==
  /\ writer[w].pc = "lock"
  /\ writer[w].op = "register"
  /\ LET e == writer[w].entry
     IN StoreAndPublish(w, [epoch |-> e.generation, expiresAt |-> e.expiresAt,
                            generation |-> e.generation])

HeartbeatAccepted(w) ==
  LET rec == records[<<writer[w].entry.service, writer[w].entry.id>>]
  IN rec # NoRecord /\ writer[w].fence \in {0, rec.epoch}

HeartbeatLocked(w) ==
  /\ writer[w].pc = "lock"
  /\ writer[w].op = "heartbeat"
  /\ HeartbeatAccepted(w)
  /\ LET e == writer[w].entry
     IN StoreAndPublish(w, [epoch |-> records[<<e.service, e.id>>].epoch,
                            expiresAt |-> e.expiresAt, generation |-> e.generation])

\* ErrInstanceNotFound or ErrRegistrationEpochMismatch.
HeartbeatRejected(w) ==
  /\ writer[w].pc = "lock"
  /\ writer[w].op = "heartbeat"
  /\ ~HeartbeatAccepted(w)
  /\ writer' = [writer EXCEPT ![w] = Idle]
  /\ UNCHANGED <<clock, generation, services, records, snapshot, heap, reader, sweeper, cancelled>>

\* pushExpiry runs after the service lock is released.
PushExpiry(w) ==
  /\ writer[w].pc = "push"
  /\ heap' = heap \cup {writer[w].entry}
  /\ writer' = [writer EXCEPT ![w] = Idle]
  /\ UNCHANGED <<clock, generation, services, records, snapshot, reader, sweeper, cancelled>>

----------------------------------------------------------------------------
(* Snapshot: read the time, load the published snapshot, purge the service *)
(* and load again when the snapshot holds an overdue lease.                *)

SnapshotBegin(r, s) ==
  /\ reader[r].pc = "idle"
  /\ s \in services
  /\ reader' = [reader EXCEPT ![r] = [pc |-> "load", service |-> s, now |-> clock]]
  /\ UNCHANGED <<clock, generation, services, records, snapshot, heap, writer, sweeper, cancelled>>

SnapshotLoad(r) ==
  /\ reader[r].pc = "load"
  /\ reader' = [reader EXCEPT ![r] =
       IF SnapshotNeedsExpiry(snapshot[reader[r].service], reader[r].now)
       THEN [pc |-> "sweep", service |-> reader[r].service, now |-> reader[r].now]
       ELSE [pc |-> "done", now |-> reader[r].now, result |-> snapshot[reader[r].service].instances]]
  /\ UNCHANGED <<clock, generation, services, records, snapshot, heap, writer, sweeper, cancelled>>

\* The overdue records sweepExpiredForService deletes.
Overdue(s, now) ==
  { k \in {s} \X ID : records[k] # NoRecord /\ records[k].expiresAt <= now }

\* Mutant of SweepExpiredForService: the purged service is not republished.
PurgeWithoutRebuild(r) ==
  /\ reader[r].pc = "sweep"
  /\ LET s == reader[r].service
         gone == Overdue(s, reader[r].now)
     IN /\ records' = [k \in Key |-> IF k \in gone THEN NoRecord ELSE records[k]]
        /\ reader' = [reader EXCEPT ![r] = [pc |-> "reload", service |-> s, now |-> reader[r].now]]
  /\ UNCHANGED <<clock, generation, services, snapshot, heap, writer, sweeper, cancelled>>

SweepExpiredForService(r) ==
  /\ reader[r].pc = "sweep"
  /\ LET s == reader[r].service
         gone == Overdue(s, reader[r].now)
         recs == [k \in Key |-> IF k \in gone THEN NoRecord ELSE records[k]]
     IN /\ records' = recs
        /\ snapshot' = IF gone = {} THEN snapshot ELSE Rebuilt(recs, s, reader[r].now)
        /\ reader' = [reader EXCEPT ![r] = [pc |-> "reload", service |-> s, now |-> reader[r].now]]
  /\ UNCHANGED <<clock, generation, services, heap, writer, sweeper, cancelled>>

SnapshotReload(r) ==
  /\ reader[r].pc = "reload"
  /\ reader' = [reader EXCEPT ![r] =
       [pc |-> "done", now |-> reader[r].now, result |-> snapshot[reader[r].service].instances]]
  /\ UNCHANGED <<clock, generation, services, records, snapshot, heap, writer, sweeper, cancelled>>

SnapshotReturn(r) ==
  /\ reader[r].pc = "done"
  /\ reader' = [reader EXCEPT ![r] = Idle]
  /\ UNCHANGED <<clock, generation, services, records, snapshot, heap, writer, sweeper, cancelled>>

----------------------------------------------------------------------------
(* sweepExpiredRecords: pop due entries one by one, delete the records     *)
(* they still describe, and rebuild the touched services at the end.       *)

SweepBegin ==
  /\ sweeper.pc = "idle"
  /\ ~cancelled
  /\ sweeper' = [pc |-> "pop", now |-> clock, dirty |-> {}]
  /\ UNCHANGED <<clock, generation, services, records, snapshot, heap, writer, reader, cancelled>>

\* Mutant of Due: an entry is due only after its deadline.
DueAfter(now) ==
  { e \in heap : e.expiresAt < now /\ \A f \in heap : e.expiresAt <= f.expiresAt }

\* The top of the heap, when it is due.
Due(now) ==
  { e \in heap : e.expiresAt <= now /\ \A f \in heap : e.expiresAt <= f.expiresAt }

AfterPops(now, dirty) ==
  IF dirty = {} THEN Idle ELSE [pc |-> "rebuild", now |-> now, dirty |-> dirty]

PopExpired ==
  /\ sweeper.pc = "pop"
  /\ \/ \E e \in Due(sweeper.now) :
          /\ heap' = heap \ {e}
          /\ sweeper' = [pc |-> "check", now |-> sweeper.now, dirty |-> sweeper.dirty, entry |-> e]
     \/ /\ Due(sweeper.now) = {}
        /\ sweeper' = AfterPops(sweeper.now, sweeper.dirty)
        /\ UNCHANGED heap
  /\ UNCHANGED <<clock, generation, services, records, snapshot, writer, reader, cancelled>>

\* Mutants of Expires: an off-by-one deadline, and no check at all.
ExpiresLate(e, now) ==
  LET rec == records[<<e.service, e.id>>]
  IN rec # NoRecord /\ rec.generation = e.generation /\ rec.expiresAt < now

ExpiresUnchecked(e, now) == records[<<e.service, e.id>>] # NoRecord

\* Only the record the entry was pushed for is deleted.
Expires(e, now) ==
  LET rec == records[<<e.service, e.id>>]
  IN rec # NoRecord /\ rec.generation = e.generation /\ rec.expiresAt <= now

SweepCheck ==
  /\ sweeper.pc = "check"
  /\ LET e == sweeper.entry
         now == sweeper.now
     IN \/ /\ ~cancelled
           /\ Expires(e, now)
           /\ records' = [records EXCEPT ![<<e.service, e.id>>] = NoRecord]
           /\ sweeper' = [pc |-> "pop", now |-> now, dirty |-> sweeper.dirty \cup {e.service}]
        \/ /\ ~cancelled
           /\ ~Expires(e, now)
           /\ sweeper' = [pc |-> "pop", now |-> now, dirty |-> sweeper.dirty]
           /\ UNCHANGED records
        \/ /\ cancelled
           /\ sweeper' = AfterPops(now, sweeper.dirty)
           /\ UNCHANGED records
  /\ UNCHANGED <<clock, generation, services, snapshot, heap, writer, reader, cancelled>>

SweepRebuild ==
  /\ sweeper.pc = "rebuild"
  /\ \E s \in sweeper.dirty :
       /\ snapshot' = Rebuilt(records, s, sweeper.now)
       /\ sweeper' = AfterPops(sweeper.now, sweeper.dirty \ {s})
  /\ UNCHANGED <<clock, generation, services, records, heap, writer, reader, cancelled>>

----------------------------------------------------------------------------
Tick ==
  /\ clock < MaxTime
  /\ clock' = clock + 1
  /\ UNCHANGED <<generation, services, records, snapshot, heap, writer, reader, sweeper, cancelled>>

Cancel ==
  /\ ~cancelled
  /\ cancelled' = TRUE
  /\ UNCHANGED <<clock, generation, services, records, snapshot, heap, writer, reader, sweeper>>

\* The epochs callers can present: every generation drawn so far, and 0.
Fence == 0..generation

WriterStep(w) ==
  \/ RegisterLocked(w)
  \/ HeartbeatLocked(w)
  \/ HeartbeatRejected(w)
  \/ PushExpiry(w)

WriterCall(w) ==
  \E s \in Service, i \in ID, ttl \in TTL :
    \/ RegisterBegin(w, s, i, ttl)
    \/ \E f \in Fence : HeartbeatBegin(w, s, i, ttl, f)

ReaderStep(r) ==
  \/ SnapshotLoad(r)
  \/ SweepExpiredForService(r)
  \/ SnapshotReload(r)
  \/ SnapshotReturn(r)

SweepStep ==
  \/ PopExpired
  \/ SweepCheck
  \/ SweepRebuild

Next ==
  \/ Tick
  \/ Cancel
  \/ \E w \in Writer : WriterCall(w) \/ WriterStep(w)
  \/ \E r \in Reader : (\E s \in Service : SnapshotBegin(r, s)) \/ ReaderStep(r)
  \/ SweepBegin
  \/ SweepStep

Spec == Init /\ [][Next]_vars

\* Every goroutine that has started a call runs on, and the sweep ticker
\* keeps firing.  Callers need not call and time need not pass.
Fairness ==
  /\ \A w \in Writer : WF_vars(WriterStep(w))
  /\ \A r \in Reader : WF_vars(ReaderStep(r))
  /\ WF_vars(SweepBegin)
  /\ WF_vars(SweepStep)

FairSpec == Spec /\ Fairness

----------------------------------------------------------------------------
\* The heap entry that describes the record stored under k.
EntryFor(k) ==
  [service |-> k[1], id |-> k[2], expiresAt |-> records[k].expiresAt,
   generation |-> records[k].generation]

InSweepersHand(e) == sweeper.pc = "check" /\ sweeper.entry = e

\* No lease leaks.  Register and Heartbeat push the heap entry only after
\* they unlock the service, and SweepExpired pops an entry before it locks
\* the service; still every stored record has its entry in the heap, in the
\* hands of the writer that will push it, or in the hands of the sweeper
\* that is about to judge it.  (A sweep cut short by shutdown drops one.)
NoLeaseLeaks ==
  ~cancelled =>
    \A k \in Key : records[k] # NoRecord =>
      \/ EntryFor(k) \in heap
      \/ \E w \in Writer : writer[w].pc = "push" /\ writer[w].entry = EntryFor(k)
      \/ InSweepersHand(EntryFor(k))

InstanceOf(k) ==
  [id |-> k[2], epoch |-> records[k].epoch, expiresAt |-> records[k].expiresAt]

\* Discovery never hides a live lease: whatever writers, readers and the
\* sweeper published last, with clocks read before they queued for the
\* lock, a record that has not expired is in its service's snapshot.
LiveLeaseVisible ==
  \A k \in Key :
    records[k] # NoRecord /\ records[k].expiresAt > clock
      => InstanceOf(k) \in snapshot[k[1]].instances

\* A published instance without a matching record exists only while
\* SweepExpired is between its deletions and its rebuild of that service.
GhostsOnlyMidSweep ==
  \A s \in Service :
    (sweeper.pc # "idle" /\ s \in sweeper.dirty)
    \/ \A inst \in snapshot[s].instances :
         records[<<s, inst.id>>] # NoRecord /\ inst = InstanceOf(<<s, inst.id>>)

\* Epochs that no registration in flight can still install.
SpentEpochs ==
  (1..generation) \
    { writer[w].entry.generation :
        w \in { v \in Writer : writer[v].pc = "lock" /\ writer[v].op = "register" } }

HeldLease ==
  [k \in Key |-> IF records[k] = NoRecord THEN NoRecord
                 ELSE [epoch |-> records[k].epoch, deadline |-> records[k].expiresAt]]

Leases == INSTANCE FencedLeases
  WITH NoLease <- NoRecord, now <- clock, lease <- HeldLease, spent <- SpentEpochs

\* The registry keeps the promise of FencedLeases: an epoch is installed at
\* most once, a heartbeat never changes the epoch, and neither the sweeper
\* nor a reader ever removes a lease before its current deadline, however
\* stale the heap entry that led to it.
LeasePromise == Leases!LeaseSpec

\* An instance that is overdue eventually leaves the published snapshot, or
\* is published again with a later deadline: again and again it is not there.
OverdueInstanceUnpublished ==
  \A s \in Service, i \in ID :
    []<>(cancelled \/ \A inst \in snapshot[s].instances : inst.id = i => inst.expiresAt > clock)

=============================================================================
