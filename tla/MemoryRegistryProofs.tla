------------------------ MODULE MemoryRegistryProofs ------------------------
(***************************************************************************)
(* Safety of MemoryRegistry for any services, instance IDs, writers,       *)
(* readers, lease durations and bounds.                                    *)
(***************************************************************************)
EXTENDS MemoryRegistry, TLAPS, WellFoundedInduction

----------------------------------------------------------------------------
(* Facts about the operators that build a snapshot.                        *)

\* A non-empty set of instants has an earliest one.
LEMMA LeastNat ==
  ASSUME NEW S \in SUBSET Nat, S # {}
  PROVE  \E t \in S : \A u \in S : t <= u
<1> DEFINE R == {ss \in Nat \X Nat : ss[1] < ss[2]}
<1>1. IsWellFoundedOn(R, Nat)
  BY NatLessThanWellFounded DEF OpToRel
<1>2. \E x \in S : \A y \in S : ~ (<<y, x>> \in R)
  <2> HIDE DEF R
  <2> QED BY ZenonT(30), <1>1, WFMin
<1>3. PICK x \in S : \A y \in S : ~ (<<y, x>> \in R)
  BY <1>2
<1>4. \A y \in S : ~ (y < x)
  BY ZenonT(30), <1>3
<1> QED BY <1>4

\* rebuildSnapshotLocked's nextExpiresAt is an instant.
LEMMA EarliestExpiryType ==
  ASSUME NEW I \in SUBSET Instance
  PROVE  EarliestExpiry(I) \in Nat
<1>1. CASE I = {}
  BY <1>1 DEF EarliestExpiry
<1>2. CASE I # {}
  <2> DEFINE T == { i.expiresAt : i \in I }
  <2>1. T \in SUBSET Nat /\ T # {}
    BY <1>2 DEF Instance
  <2>2. \E t \in T : \A u \in T : t <= u
    BY ZenonT(30), <2>1, LeastNat
  <2>3. \E t \in T : \A i \in I : t <= i.expiresAt
    BY <2>2
  <2>4. EarliestExpiry(I) = CHOOSE t \in T : \A i \in I : t <= i.expiresAt
    BY <1>2 DEF EarliestExpiry
  <2> QED BY <2>1, <2>3, <2>4
<1> QED BY <1>1, <1>2

LEMMA LiveInstancesType ==
  ASSUME NEW recs \in [Key -> Record \cup {NoRecord}], NEW s \in Service, NEW n \in Nat
  PROVE  LiveInstances(recs, s, n) \in SUBSET Instance
<1> DEFINE J == { j \in ID : recs[<<s, j>>] # NoRecord /\ recs[<<s, j>>].expiresAt > n }
<1>1. \A i \in J : recs[<<s, i>>] \in Record
  BY DEF Key
<1>2. \A i \in J : [id |-> i, epoch |-> recs[<<s, i>>].epoch,
                    expiresAt |-> recs[<<s, i>>].expiresAt] \in Instance
  BY <1>1 DEF Instance, Record
<1> QED BY ZenonT(30), <1>2 DEF LiveInstances

LEMMA RebuiltType ==
  ASSUME snapshot \in [Service -> Snapshot],
         NEW recs \in [Key -> Record \cup {NoRecord}], NEW s \in Service, NEW n \in Nat
  PROVE  Rebuilt(recs, s, n) \in [Service -> Snapshot]
<1>1. LiveInstances(recs, s, n) \in SUBSET Instance
  BY LiveInstancesType
<1>2. EarliestExpiry(LiveInstances(recs, s, n)) \in Nat
  BY <1>1, EarliestExpiryType
<1> QED BY <1>1, <1>2 DEF Rebuilt, Snapshot

----------------------------------------------------------------------------
(* Types.                                                                  *)

LEMMA StoreAndPublishType ==
  ASSUME TypeOK, NEW w \in Writer, writer[w].pc = "lock", NEW rec \in Record,
         StoreAndPublish(w, rec)
  PROVE  TypeOK'
<1> DEFINE e == writer[w].entry
           recs == [records EXCEPT ![<<e.service, e.id>>] = rec]
<1>1. e \in Entry /\ writer[w].now \in Nat
  BY DEF TypeOK, WriterState
<1>2. recs \in [Key -> Record \cup {NoRecord}] /\ records' = recs
  BY ZenonT(30) DEF TypeOK, StoreAndPublish
<1>3. snapshot' \in [Service -> Snapshot]
  <2>1. snapshot' = Rebuilt(recs, e.service, writer[w].now)
    BY DEF StoreAndPublish
  <2>2. e.service \in Service
    BY <1>1 DEF Entry
  <2> HIDE DEF recs, e
  <2> QED BY ZenonT(30), <1>1, <1>2, <2>1, <2>2, RebuiltType DEF TypeOK
<1>4. writer' \in [Writer -> WriterState]
  BY <1>1 DEF TypeOK, WriterState, StoreAndPublish
<1> QED BY ZenonT(30), <1>2, <1>3, <1>4 DEF TypeOK, StoreAndPublish

LEMMA TypeStep == TypeOK /\ [Next]_vars => TypeOK'
<1> SUFFICES ASSUME TypeOK, [Next]_vars PROVE TypeOK'
  OBVIOUS
<1> USE RegistryAssumption
<1>1. CASE UNCHANGED vars
  BY <1>1 DEF TypeOK, vars
<1>2. CASE Tick
  BY <1>2 DEF TypeOK, Tick
<1>3. CASE Cancel
  BY <1>3 DEF TypeOK, Cancel
<1>4. ASSUME NEW w \in Writer, WriterCall(w) PROVE TypeOK'
  <2>1. PICK s \in Service, i \in ID, ttl \in TTL :
          \/ RegisterBegin(w, s, i, ttl)
          \/ \E f \in Fence : HeartbeatBegin(w, s, i, ttl, f)
    BY <1>4 DEF WriterCall
  <2>2. clock + ttl \in Nat
    BY DEF TypeOK
  <2>3. CASE RegisterBegin(w, s, i, ttl)
    BY <2>2, <2>3 DEF TypeOK, RegisterBegin, WriterState, Entry
  <2>4. ASSUME NEW f \in Fence, HeartbeatBegin(w, s, i, ttl, f) PROVE TypeOK'
    BY <2>2, <2>4 DEF TypeOK, HeartbeatBegin, WriterState, Entry, Fence
  <2> QED BY <2>1, <2>3, <2>4
<1>5. ASSUME NEW w \in Writer, WriterStep(w) PROVE TypeOK'
  <2>1. CASE RegisterLocked(w)
    <3> DEFINE e == writer[w].entry
               rec == [epoch |-> e.generation, expiresAt |-> e.expiresAt, generation |-> e.generation]
    <3>1. writer[w].pc = "lock" /\ StoreAndPublish(w, rec)
      BY <2>1 DEF RegisterLocked
    <3>2. rec \in Record
      BY <3>1 DEF TypeOK, WriterState, Entry, Record
    <3> QED BY <3>1, <3>2, StoreAndPublishType
  <2>2. CASE HeartbeatLocked(w)
    <3> DEFINE e == writer[w].entry
               rec == [epoch |-> records[<<e.service, e.id>>].epoch,
                       expiresAt |-> e.expiresAt, generation |-> e.generation]
    <3>1. writer[w].pc = "lock" /\ StoreAndPublish(w, rec) /\ HeartbeatAccepted(w)
      BY <2>2 DEF HeartbeatLocked
    <3>2. e \in Entry
      BY <3>1 DEF TypeOK, WriterState
    <3>3. records[<<e.service, e.id>>] \in Record
      BY <3>1, <3>2 DEF HeartbeatAccepted, TypeOK, Entry, Key
    <3>4. rec \in Record
      BY <3>2, <3>3 DEF Entry, Record
    <3> QED BY <3>1, <3>4, StoreAndPublishType
  <2>3. CASE HeartbeatRejected(w)
    BY <2>3 DEF TypeOK, HeartbeatRejected, WriterState, Idle
  <2>4. CASE PushExpiry(w)
    BY <2>4 DEF TypeOK, PushExpiry, WriterState, Idle
  <2> QED BY <1>5, <2>1, <2>2, <2>3, <2>4 DEF WriterStep
<1>6. ASSUME NEW r \in Reader, NEW s \in Service, SnapshotBegin(r, s) PROVE TypeOK'
  BY <1>6 DEF TypeOK, SnapshotBegin, ReaderState
<1>7. ASSUME NEW r \in Reader, ReaderStep(r) PROVE TypeOK'
  <2>1. CASE SnapshotLoad(r)
    BY <2>1 DEF TypeOK, SnapshotLoad, ReaderState, Snapshot
  <2>2. CASE SweepExpiredForService(r)
    <3> DEFINE s == reader[r].service
               n == reader[r].now
               gone == Overdue(s, n)
               recs == [k \in Key |-> IF k \in gone THEN NoRecord ELSE records[k]]
    <3>1. s \in Service /\ n \in Nat
      BY <2>2 DEF TypeOK, ReaderState, SweepExpiredForService
    <3>2. recs \in [Key -> Record \cup {NoRecord}]
      BY DEF TypeOK
    <3>3. records' = recs /\ snapshot' \in {snapshot, Rebuilt(recs, s, n)}
      BY <2>2 DEF SweepExpiredForService
    <3>4. snapshot' \in [Service -> Snapshot]
      <4> HIDE DEF recs, s, n
      <4> QED BY <3>1, <3>2, <3>3, RebuiltType DEF TypeOK
    <3>5. reader' \in [Reader -> ReaderState]
      BY <2>2, <3>1 DEF TypeOK, ReaderState, SweepExpiredForService
    <3> QED BY <2>2, <3>2, <3>3, <3>4, <3>5 DEF TypeOK, SweepExpiredForService
  <2>3. CASE SnapshotReload(r)
    BY <2>3 DEF TypeOK, SnapshotReload, ReaderState, Snapshot
  <2>4. CASE SnapshotReturn(r)
    BY <2>4 DEF TypeOK, SnapshotReturn, ReaderState, Idle
  <2> QED BY <1>7, <2>1, <2>2, <2>3, <2>4 DEF ReaderStep
<1>8. CASE SweepBegin
  BY <1>8 DEF TypeOK, SweepBegin, SweeperState
<1>9. CASE SweepStep
  <2>1. CASE PopExpired
    BY <2>1 DEF TypeOK, PopExpired, Due, AfterPops, SweeperState, Idle
  <2>2. CASE SweepCheck
    <3>1. /\ sweeper.now \in Nat
          /\ sweeper.dirty \in SUBSET Service
          /\ sweeper.entry.service \in Service
          /\ sweeper.entry.id \in ID
      BY <2>2 DEF TypeOK, SweepCheck, SweeperState, Entry
    <3>2. records' \in [Key -> Record \cup {NoRecord}]
      BY <2>2, <3>1 DEF TypeOK, SweepCheck, Key
    <3>3. sweeper' \in SweeperState
      BY <2>2, <3>1 DEF SweepCheck, AfterPops, SweeperState, Idle
    <3> QED BY <2>2, <3>2, <3>3 DEF TypeOK, SweepCheck
  <2>3. CASE SweepRebuild
    <3>1. PICK s \in sweeper.dirty :
            /\ snapshot' = Rebuilt(records, s, sweeper.now)
            /\ sweeper' = AfterPops(sweeper.now, sweeper.dirty \ {s})
      BY <2>3 DEF SweepRebuild
    <3>2. sweeper.dirty \subseteq Service /\ sweeper.now \in Nat
      BY <2>3 DEF SweepRebuild, TypeOK, SweeperState
    <3>3. snapshot' \in [Service -> Snapshot]
      BY <3>1, <3>2, RebuiltType DEF TypeOK
    <3>4. sweeper' \in SweeperState
      BY <3>1, <3>2 DEF AfterPops, SweeperState, Idle
    <3> QED BY <2>3, <3>3, <3>4 DEF TypeOK, SweepRebuild
  <2> QED BY <1>9, <2>1, <2>2, <2>3 DEF SweepStep
<1> QED BY <1>1, <1>2, <1>3, <1>4, <1>5, <1>6, <1>7, <1>8, <1>9 DEF Next

\* Every variable keeps its type, whatever the callers do.
THEOREM TypeCorrect == Spec => []TypeOK
<1>1. ASSUME Init PROVE TypeOK
  <2>1. Idle \in WriterState /\ Idle \in ReaderState /\ Idle \in SweeperState
    BY DEF WriterState, ReaderState, SweeperState, Idle
  <2>2. snapshot \in [Service -> Snapshot]
    BY <1>1 DEF Init, Snapshot
  <2> QED BY ZenonT(30), <1>1, <2>1, <2>2 DEF Init, TypeOK
<1> QED BY <1>1, TypeStep, PTL DEF Spec

----------------------------------------------------------------------------
(* No lease leaks.  NoLeaseLeaks is inductive once it is known that the    *)
(* entry in the sweeper's hand was due when it was popped: the record it   *)
(* describes, having the same deadline, is then deleted with it.           *)

PoppedEntryDue == sweeper.pc = "check" => sweeper.entry.expiresAt <= sweeper.now

LEMMA LeakStep ==
  TypeOK /\ PoppedEntryDue /\ NoLeaseLeaks /\ [Next]_vars => PoppedEntryDue' /\ NoLeaseLeaks'
<1> SUFFICES ASSUME TypeOK, PoppedEntryDue, NoLeaseLeaks, [Next]_vars
             PROVE  PoppedEntryDue' /\ NoLeaseLeaks'
  OBVIOUS
<1> DEFINE Covered(k) ==
      \/ EntryFor(k) \in heap
      \/ \E w \in Writer : writer[w].pc = "push" /\ writer[w].entry = EntryFor(k)
      \/ InSweepersHand(EntryFor(k))
           AllCovered == ~cancelled => \A k \in Key : records[k] # NoRecord => Covered(k)
<1>0. AllCovered
  BY DEF NoLeaseLeaks
<1> SUFFICES PoppedEntryDue' /\ AllCovered'
  BY DEF NoLeaseLeaks
<1>1. CASE UNCHANGED vars
  BY <1>0, <1>1 DEF vars, PoppedEntryDue, EntryFor, InSweepersHand
<1>2. CASE Tick
  BY <1>0, <1>2 DEF Tick, PoppedEntryDue, EntryFor, InSweepersHand
<1>3. CASE Cancel
  BY <1>3 DEF Cancel, PoppedEntryDue
<1>4. ASSUME NEW w \in Writer, WriterCall(w)
      PROVE  PoppedEntryDue' /\ AllCovered'
  <2>1. /\ UNCHANGED <<records, heap, sweeper, cancelled>>
        /\ writer[w].pc = "idle"
        /\ \A v \in Writer \ {w} : writer'[v] = writer[v]
    BY <1>4 DEF WriterCall, RegisterBegin, HeartbeatBegin, TypeOK
  <2> QED BY <1>0, <2>1 DEF PoppedEntryDue, EntryFor, InSweepersHand
<1>5. ASSUME NEW w \in Writer, WriterStep(w)
      PROVE  PoppedEntryDue' /\ AllCovered'
  <2>1. CASE RegisterLocked(w) \/ HeartbeatLocked(w)
    <3> DEFINE e == writer[w].entry
    <3>1. PICK rec : /\ StoreAndPublish(w, rec)
                     /\ rec.expiresAt = e.expiresAt /\ rec.generation = e.generation
      BY <2>1 DEF RegisterLocked, HeartbeatLocked
    <3>2. writer[w].pc = "lock" /\ e \in Entry
      BY <2>1 DEF RegisterLocked, HeartbeatLocked, TypeOK, WriterState
    <3>3. /\ records' = [records EXCEPT ![<<e.service, e.id>>] = rec]
          /\ writer' = [writer EXCEPT ![w] = [pc |-> "push", entry |-> e]]
          /\ UNCHANGED <<heap, sweeper, cancelled>>
      BY <3>1 DEF StoreAndPublish
    <3>4. PoppedEntryDue'
      BY <3>3 DEF PoppedEntryDue
    <3>5. ASSUME ~cancelled', NEW k \in Key, records'[k] # NoRecord PROVE Covered(k)'
      <4>1. CASE k = <<e.service, e.id>>
        <5>1. records'[k] = rec
          BY <3>3, <4>1 DEF TypeOK
        <5>2. EntryFor(k)' = e
          BY <3>1, <3>2, <4>1, <5>1 DEF EntryFor, Entry
        <5>3. writer'[w].pc = "push" /\ writer'[w].entry = e
          BY <3>3 DEF TypeOK
        <5> QED BY <5>2, <5>3
      <4>2. CASE k # <<e.service, e.id>>
        <5>1. records'[k] = records[k] /\ EntryFor(k)' = EntryFor(k)
          BY <3>3, <4>2 DEF TypeOK, EntryFor
        <5>2. Covered(k)
          BY <1>0, <3>3, <3>5, <5>1
        <5>3. \A v \in Writer : writer[v].pc = "push" => writer'[v] = writer[v]
          BY <3>2, <3>3 DEF TypeOK
        <5> QED BY <3>3, <5>1, <5>2, <5>3 DEF InSweepersHand
      <4> QED BY <4>1, <4>2
    <3> QED BY <3>4, <3>5
  <2>2. CASE HeartbeatRejected(w)
    <3>1. /\ UNCHANGED <<records, heap, sweeper, cancelled>>
          /\ writer[w].pc = "lock"
          /\ \A v \in Writer \ {w} : writer'[v] = writer[v]
      BY <2>2 DEF HeartbeatRejected, TypeOK
    <3> QED BY <1>0, <3>1 DEF PoppedEntryDue, EntryFor, InSweepersHand
  <2>3. CASE PushExpiry(w)
    <3>1. /\ UNCHANGED <<records, sweeper, cancelled>>
          /\ heap' = heap \cup {writer[w].entry}
          /\ \A v \in Writer \ {w} : writer'[v] = writer[v]
      BY <2>3 DEF PushExpiry, TypeOK
    <3> QED BY <1>0, <3>1 DEF PoppedEntryDue, EntryFor, InSweepersHand
  <2> QED BY <1>5, <2>1, <2>2, <2>3 DEF WriterStep
<1>6. ASSUME NEW r \in Reader, NEW s \in Service, SnapshotBegin(r, s)
      PROVE  PoppedEntryDue' /\ AllCovered'
  BY <1>0, <1>6 DEF SnapshotBegin, PoppedEntryDue, EntryFor, InSweepersHand
<1>7. ASSUME NEW r \in Reader, ReaderStep(r)
      PROVE  PoppedEntryDue' /\ AllCovered'
  <2>1. /\ UNCHANGED <<heap, writer, sweeper, cancelled>>
        /\ \A k \in Key : records'[k] \in {records[k], NoRecord}
    BY <1>7 DEF ReaderStep, SnapshotLoad, SweepExpiredForService, SnapshotReload, SnapshotReturn
  <2> QED BY <1>0, <2>1 DEF PoppedEntryDue, EntryFor, InSweepersHand
<1>8. CASE SweepBegin
  BY <1>0, <1>8 DEF SweepBegin, PoppedEntryDue, EntryFor, InSweepersHand
<1>9. CASE PopExpired
  <2>1. CASE Due(sweeper.now) = {} /\ UNCHANGED heap /\ sweeper' = AfterPops(sweeper.now, sweeper.dirty)
    BY <1>0, <1>9, <2>1 DEF PopExpired, AfterPops, Idle, PoppedEntryDue, EntryFor, InSweepersHand
  <2>2. ASSUME NEW e \in Due(sweeper.now), heap' = heap \ {e},
               sweeper' = [pc |-> "check", now |-> sweeper.now, dirty |-> sweeper.dirty, entry |-> e]
        PROVE  PoppedEntryDue' /\ AllCovered'
    BY <1>0, <1>9, <2>2 DEF PopExpired, Due, PoppedEntryDue, EntryFor, InSweepersHand
  <2> QED BY <1>9, <2>1, <2>2 DEF PopExpired
<1>10. CASE SweepCheck
  <2> DEFINE e == sweeper.entry
  <2>1. PoppedEntryDue'
    BY <1>10 DEF SweepCheck, AfterPops, Idle, PoppedEntryDue
  <2>2. ASSUME ~cancelled', NEW k \in Key, records'[k] # NoRecord PROVE Covered(k)'
    <3>1. /\ UNCHANGED <<heap, writer, cancelled>>
          /\ sweeper.pc = "check" /\ ~cancelled
      BY <1>10, <2>2 DEF SweepCheck
    <3>2. e \in Entry /\ e.expiresAt <= sweeper.now
      BY <3>1 DEF TypeOK, SweeperState, PoppedEntryDue
    <3>3. records'[k] = records[k]
      BY <1>10, <2>2, <3>1 DEF SweepCheck, TypeOK
    <3>4. EntryFor(k) # e
      <4> SUFFICES ASSUME EntryFor(k) = e PROVE FALSE
        OBVIOUS
      <4>1. e.service = k[1] /\ e.id = k[2] /\ e.expiresAt = records[k].expiresAt
            /\ e.generation = records[k].generation
        BY DEF EntryFor
      <4>2. k = <<e.service, e.id>>
        BY <4>1 DEF Key
      <4>3. Expires(e, sweeper.now)
        BY <2>2, <3>2, <3>3, <4>1, <4>2 DEF Expires
      <4>4. records' = [records EXCEPT ![<<e.service, e.id>>] = NoRecord]
        BY <1>10, <3>1, <4>3 DEF SweepCheck
      <4> QED BY <2>2, <4>2, <4>4 DEF TypeOK
    <3>5. Covered(k)
      BY <1>0, <2>2, <3>1, <3>3
    <3>6. EntryFor(k) \in heap \/ \E w \in Writer : writer[w].pc = "push" /\ writer[w].entry = EntryFor(k)
      BY <3>4, <3>5 DEF InSweepersHand
    <3> QED BY <3>1, <3>3, <3>6 DEF EntryFor
  <2> QED BY <2>1, <2>2
<1>11. CASE SweepRebuild
  BY <1>0, <1>11 DEF SweepRebuild, AfterPops, Idle, PoppedEntryDue, EntryFor, InSweepersHand
<1> QED BY <1>1, <1>2, <1>3, <1>4, <1>5, <1>6, <1>7, <1>8, <1>9, <1>10, <1>11 DEF Next, SweepStep

\* Every stored lease stays covered by exactly the heap entry that will
\* expire it, although writers push after unlocking and the sweeper pops
\* before locking.
THEOREM LeasesNeverLeak == Spec => []NoLeaseLeaks
<1>1. Init => PoppedEntryDue /\ NoLeaseLeaks
  BY DEF Init, PoppedEntryDue, NoLeaseLeaks, Idle
<1> QED BY <1>1, LeakStep, TypeCorrect, PTL DEF Spec

----------------------------------------------------------------------------
(* What is published.  Every publication uses a time read at or before the *)
(* moment it happens (ClockOrder), so it can only show too much, never too *)
(* little; and it shows exactly the records it was built from.             *)

ClockOrder ==
  /\ \A w \in Writer : writer[w].pc = "lock" => writer[w].now <= clock
  /\ \A r \in Reader : reader[r].pc \in {"load", "sweep", "reload"} => reader[r].now <= clock
  /\ sweeper.pc # "idle" => sweeper.now <= clock

Published == ClockOrder /\ LiveLeaseVisible /\ GhostsOnlyMidSweep

\* The instance a record is published as.
Shown(recs, k) == [id |-> k[2], epoch |-> recs[k].epoch, expiresAt |-> recs[k].expiresAt]

LEMMA RebuiltContents ==
  ASSUME TypeOK, NEW recs \in [Key -> Record \cup {NoRecord}], NEW s \in Service, NEW n \in Nat
  PROVE  /\ \A t \in Service \ {s} : Rebuilt(recs, s, n)[t] = snapshot[t]
         /\ \A i \in ID : recs[<<s, i>>] # NoRecord /\ recs[<<s, i>>].expiresAt > n
              => Shown(recs, <<s, i>>) \in Rebuilt(recs, s, n)[s].instances
         /\ \A inst \in Rebuilt(recs, s, n)[s].instances :
              /\ inst.id \in ID
              /\ recs[<<s, inst.id>>] # NoRecord
              /\ inst = Shown(recs, <<s, inst.id>>)
<1>1. Rebuilt(recs, s, n)[s].instances = LiveInstances(recs, s, n)
  BY DEF Rebuilt, TypeOK
<1>2. \A t \in Service \ {s} : Rebuilt(recs, s, n)[t] = snapshot[t]
  BY DEF Rebuilt, TypeOK
<1>3. \A i \in ID : recs[<<s, i>>] # NoRecord /\ recs[<<s, i>>].expiresAt > n
        => Shown(recs, <<s, i>>) \in LiveInstances(recs, s, n)
  BY DEF LiveInstances, Shown
<1>4. ASSUME NEW inst \in LiveInstances(recs, s, n)
      PROVE  inst.id \in ID /\ recs[<<s, inst.id>>] # NoRecord /\ inst = Shown(recs, <<s, inst.id>>)
  <2>1. PICK i \in ID :
          /\ recs[<<s, i>>] # NoRecord
          /\ inst = [id |-> i, epoch |-> recs[<<s, i>>].epoch, expiresAt |-> recs[<<s, i>>].expiresAt]
    BY <1>4 DEF LiveInstances
  <2>2. inst.id = i
    BY <2>1
  <2> QED BY <2>1, <2>2 DEF Shown
<1> QED BY <1>1, <1>2, <1>3, <1>4

\* A step that stores recs and publishes service s keeps both properties.
LEMMA PublicationKeeps ==
  ASSUME TypeOK, LiveLeaseVisible, GhostsOnlyMidSweep,
         NEW recs \in [Key -> Record \cup {NoRecord}], NEW s \in Service, NEW n \in Nat,
         n <= clock, clock' = clock,
         records' = recs,
         \A k \in Key : k[1] # s => recs[k] = records[k],
         snapshot' = Rebuilt(recs, s, n),
         \A t \in Service \ {s} : sweeper.pc # "idle" /\ t \in sweeper.dirty
                                   => sweeper'.pc # "idle" /\ t \in sweeper'.dirty
  PROVE  LiveLeaseVisible' /\ GhostsOnlyMidSweep'
<1>0. \A i \in ID, t \in Service : <<t, i>> \in Key
  BY DEF Key
<1>1. LiveLeaseVisible'
  <2> SUFFICES ASSUME NEW k \in Key, records'[k] # NoRecord, records'[k].expiresAt > clock'
               PROVE  InstanceOf(k)' \in snapshot'[k[1]].instances
    BY DEF LiveLeaseVisible
  <2>1. k[1] \in Service /\ k[2] \in ID /\ k = <<k[1], k[2]>>
    BY DEF Key
  <2>2. InstanceOf(k)' = Shown(recs, k)
    BY DEF InstanceOf, Shown
  <2>3. CASE k[1] = s
    <3>1. recs[k].expiresAt > n
      <4>1. recs[k] \in Record
        OBVIOUS
      <4>2. recs[k].expiresAt \in Nat
        BY <4>1 DEF Record
      <4> QED BY <4>2 DEF TypeOK
    <3> QED BY <2>1, <2>2, <2>3, <3>1, RebuiltContents
  <2>4. CASE k[1] # s
    <3>1. recs[k] = records[k] /\ snapshot'[k[1]] = snapshot[k[1]]
      BY <2>1, <2>4, RebuiltContents
    <3>2. InstanceOf(k) \in snapshot[k[1]].instances
      BY <3>1 DEF LiveLeaseVisible
    <3> QED BY <3>1, <3>2 DEF InstanceOf
  <2> QED BY <2>3, <2>4
<1>2. GhostsOnlyMidSweep'
  <2> SUFFICES ASSUME NEW t \in Service, ~(sweeper'.pc # "idle" /\ t \in sweeper'.dirty),
                      NEW inst \in snapshot'[t].instances
               PROVE  records'[<<t, inst.id>>] # NoRecord /\ inst = InstanceOf(<<t, inst.id>>)'
    BY DEF GhostsOnlyMidSweep
  <2>1. CASE t = s
    <3>1. inst.id \in ID /\ recs[<<s, inst.id>>] # NoRecord /\ inst = Shown(recs, <<s, inst.id>>)
      BY <2>1, RebuiltContents
    <3> QED BY <2>1, <3>1 DEF InstanceOf, Shown
  <2>2. CASE t # s
    <3>1. snapshot'[t] = snapshot[t]
      BY <2>2, RebuiltContents
    <3>2. records[<<t, inst.id>>] # NoRecord /\ inst = InstanceOf(<<t, inst.id>>)
      BY <2>2, <3>1 DEF GhostsOnlyMidSweep
    <3>3. inst.id \in ID
      BY <3>1 DEF TypeOK, Snapshot, Instance
    <3>4. recs[<<t, inst.id>>] = records[<<t, inst.id>>]
      BY <1>0, <2>2, <3>3
    <3> QED BY <3>2, <3>4 DEF InstanceOf
  <2> QED BY <2>1, <2>2
<1> QED BY <1>1, <1>2

LEMMA PublishedStep == TypeOK /\ TypeOK' /\ Published /\ [Next]_vars => Published'
<1> SUFFICES ASSUME TypeOK, TypeOK', ClockOrder, LiveLeaseVisible, GhostsOnlyMidSweep, [Next]_vars
             PROVE  ClockOrder' /\ LiveLeaseVisible' /\ GhostsOnlyMidSweep'
  BY DEF Published
<1>1. CASE UNCHANGED vars
  BY <1>1 DEF vars, ClockOrder, LiveLeaseVisible, GhostsOnlyMidSweep, InstanceOf
<1>2. CASE Tick
  <2>1. clock' >= clock /\ UNCHANGED <<records, snapshot, writer, reader, sweeper>>
    BY <1>2 DEF Tick, TypeOK
  <2>2. ClockOrder'
    BY <2>1 DEF ClockOrder, TypeOK, WriterState, ReaderState, SweeperState
  <2>3. \A k \in Key : records[k] # NoRecord => records[k].expiresAt \in Nat
    BY SMTT(30) DEF TypeOK, Record
  <2>4. LiveLeaseVisible'
    BY <2>1, <2>3 DEF LiveLeaseVisible, InstanceOf, TypeOK
  <2> QED BY <2>1, <2>2, <2>4 DEF GhostsOnlyMidSweep, InstanceOf
<1>3. CASE Cancel
  BY SMTT(30), <1>3 DEF Cancel, ClockOrder, LiveLeaseVisible, GhostsOnlyMidSweep, InstanceOf
<1>4. ASSUME NEW w \in Writer, WriterCall(w)
      PROVE  ClockOrder' /\ LiveLeaseVisible' /\ GhostsOnlyMidSweep'
  <2>1. /\ UNCHANGED <<clock, records, snapshot, reader, sweeper>>
        /\ writer'[w].now = clock
        /\ \A v \in Writer \ {w} : writer'[v] = writer[v]
    BY <1>4 DEF WriterCall, RegisterBegin, HeartbeatBegin, TypeOK
  <2>2. ClockOrder'
    BY <2>1 DEF ClockOrder, TypeOK
  <2> QED BY <2>1, <2>2 DEF LiveLeaseVisible, GhostsOnlyMidSweep, InstanceOf
<1>5. ASSUME NEW w \in Writer, WriterStep(w)
      PROVE  ClockOrder' /\ LiveLeaseVisible' /\ GhostsOnlyMidSweep'
  <2>1. ClockOrder'
    <3>1. /\ UNCHANGED <<clock, reader, sweeper>>
          /\ writer'[w].pc # "lock"
          /\ \A v \in Writer \ {w} : writer'[v] = writer[v]
      BY SMTT(30), <1>5 DEF WriterStep, RegisterLocked, HeartbeatLocked, HeartbeatRejected, PushExpiry,
                  StoreAndPublish, Idle, TypeOK
    <3> QED BY SMTT(30), <3>1 DEF ClockOrder
  <2>2. CASE RegisterLocked(w) \/ HeartbeatLocked(w)
    <3> DEFINE e == writer[w].entry
    <3>1. PICK rec : StoreAndPublish(w, rec)
      BY SMTT(30), <2>2 DEF RegisterLocked, HeartbeatLocked
    <3> DEFINE recs == [records EXCEPT ![<<e.service, e.id>>] = rec]
    <3>2. writer[w].pc = "lock" /\ e \in Entry /\ writer[w].now \in Nat
      BY <2>2 DEF RegisterLocked, HeartbeatLocked, TypeOK, WriterState
    <3>3. /\ records' = recs
          /\ snapshot' = Rebuilt(recs, e.service, writer[w].now)
          /\ UNCHANGED <<clock, sweeper>>
      BY <3>1 DEF StoreAndPublish
    <3>4. recs \in [Key -> Record \cup {NoRecord}]
      BY <3>3 DEF TypeOK
    <3>5. \A k \in Key : k[1] # e.service => recs[k] = records[k]
      BY DEF TypeOK
    <3>6. writer[w].now <= clock /\ e.service \in Service
      BY SMTT(30), <3>2 DEF ClockOrder, Entry
    <3> HIDE DEF recs, e
    <3> QED BY <2>1, <3>2, <3>3, <3>4, <3>5, <3>6, PublicationKeeps
  <2>3. CASE HeartbeatRejected(w) \/ PushExpiry(w)
    <3>1. UNCHANGED <<clock, records, snapshot, sweeper>>
      BY <2>3 DEF HeartbeatRejected, PushExpiry
    <3> QED BY <2>1, <3>1 DEF LiveLeaseVisible, GhostsOnlyMidSweep, InstanceOf
  <2> QED BY <1>5, <2>2, <2>3 DEF WriterStep
<1>6. ASSUME NEW r \in Reader, NEW s \in Service, SnapshotBegin(r, s)
      PROVE  ClockOrder' /\ LiveLeaseVisible' /\ GhostsOnlyMidSweep'
  <2>1. /\ UNCHANGED <<clock, records, snapshot, writer, sweeper>>
        /\ reader'[r].now = clock
        /\ \A q \in Reader \ {r} : reader'[q] = reader[q]
    BY <1>6 DEF SnapshotBegin, TypeOK
  <2>2. ClockOrder'
    BY <2>1 DEF ClockOrder, TypeOK
  <2> QED BY SMTT(30), <2>1, <2>2 DEF LiveLeaseVisible, GhostsOnlyMidSweep, InstanceOf
<1>7. ASSUME NEW r \in Reader, ReaderStep(r)
      PROVE  ClockOrder' /\ LiveLeaseVisible' /\ GhostsOnlyMidSweep'
  <2>1. ClockOrder'
    <3>1. /\ UNCHANGED <<clock, writer, sweeper>>
          /\ reader'[r].pc \in {"sweep", "reload"} => reader[r].pc \in {"load", "sweep"} /\ reader'[r].now = reader[r].now
          /\ reader'[r].pc # "load"
          /\ \A q \in Reader \ {r} : reader'[q] = reader[q]
      BY <1>7 DEF ReaderStep, SnapshotLoad, SweepExpiredForService, SnapshotReload, SnapshotReturn,
                  Idle, TypeOK
    <3> QED BY <3>1 DEF ClockOrder
  <2>2. CASE SweepExpiredForService(r)
    <3> DEFINE s == reader[r].service
               n == reader[r].now
               recs == [k \in Key |-> IF k \in Overdue(s, n) THEN NoRecord ELSE records[k]]
    <3>1. s \in Service /\ n \in Nat /\ n <= clock
      BY ZenonT(30), <2>2 DEF TypeOK, ReaderState, SweepExpiredForService, ClockOrder
    <3>2. /\ records' = recs
          /\ snapshot' = IF Overdue(s, n) = {} THEN snapshot ELSE Rebuilt(recs, s, n)
          /\ UNCHANGED <<clock, sweeper>>
      BY SMTT(30), <2>2 DEF SweepExpiredForService
    <3>3. CASE Overdue(s, n) = {}
      <4>1. records' = records
        BY <3>2, <3>3 DEF TypeOK
      <4>2. UNCHANGED <<clock, records, snapshot, sweeper>>
        BY <3>2, <3>3, <4>1
      <4> HIDE DEF recs, s, n
      <4> QED BY <2>1, <4>2 DEF LiveLeaseVisible, GhostsOnlyMidSweep, InstanceOf
    <3>4. CASE Overdue(s, n) # {}
      <4>1. recs \in [Key -> Record \cup {NoRecord}]
        BY <3>2 DEF TypeOK
      <4>2. \A k \in Key : k[1] # s => recs[k] = records[k]
        BY DEF Overdue
      <4> HIDE DEF recs, s, n
      <4> QED BY <2>1, <3>1, <3>2, <3>4, <4>1, <4>2, PublicationKeeps
    <3> QED BY SMTT(30), <3>3, <3>4
  <2>3. CASE SnapshotLoad(r) \/ SnapshotReload(r) \/ SnapshotReturn(r)
    <3>1. UNCHANGED <<clock, records, snapshot, sweeper>>
      BY <2>3 DEF SnapshotLoad, SnapshotReload, SnapshotReturn
    <3> QED BY <2>1, <3>1 DEF LiveLeaseVisible, GhostsOnlyMidSweep, InstanceOf
  <2> QED BY <1>7, <2>2, <2>3 DEF ReaderStep
<1>8. CASE SweepBegin
  <2>1. UNCHANGED <<clock, records, snapshot, writer, reader>> /\ sweeper.pc = "idle" /\ sweeper'.now = clock
    BY <1>8 DEF SweepBegin
  <2>2. ClockOrder'
    BY SMTT(30), <2>1 DEF ClockOrder, TypeOK
  <2> QED BY ZenonT(30), <2>1, <2>2 DEF LiveLeaseVisible, GhostsOnlyMidSweep, InstanceOf
<1>9. CASE PopExpired
  <2>1. /\ UNCHANGED <<clock, records, snapshot, writer, reader>>
        /\ sweeper.pc # "idle"
        /\ sweeper'.pc = "idle" => sweeper.dirty = {}
        /\ sweeper'.pc # "idle" => sweeper'.now = sweeper.now /\ sweeper'.dirty = sweeper.dirty
    BY <1>9 DEF PopExpired, AfterPops, Idle
  <2> QED BY <2>1 DEF ClockOrder, LiveLeaseVisible, GhostsOnlyMidSweep, InstanceOf
<1>10. CASE SweepCheck
  <2> DEFINE e == sweeper.entry
  <2>1. /\ UNCHANGED <<clock, snapshot, writer, reader>>
        /\ sweeper.pc = "check"
    BY <1>10 DEF SweepCheck
  <2>2. /\ sweeper'.pc = "idle" => sweeper.dirty = {} /\ UNCHANGED records
        /\ sweeper'.pc # "idle" => sweeper'.now = sweeper.now /\ sweeper.dirty \subseteq sweeper'.dirty
    BY <1>10 DEF SweepCheck, AfterPops, Idle
  <2>3. \/ UNCHANGED records
        \/ /\ records' = [records EXCEPT ![<<e.service, e.id>>] = NoRecord]
           /\ sweeper'.pc # "idle" /\ e.service \in sweeper'.dirty
    BY <1>10 DEF SweepCheck
  <2>4. ClockOrder'
    BY <2>1, <2>2 DEF ClockOrder
  <2>5. \A k \in Key : records'[k] \in {records[k], NoRecord}
    BY SMTT(30), <2>3 DEF TypeOK
  <2>6. LiveLeaseVisible'
    BY <2>1, <2>5 DEF LiveLeaseVisible, InstanceOf
  <2>7. GhostsOnlyMidSweep'
    <3> SUFFICES ASSUME NEW t \in Service, ~(sweeper'.pc # "idle" /\ t \in sweeper'.dirty),
                        NEW inst \in snapshot'[t].instances
                 PROVE  records'[<<t, inst.id>>] # NoRecord /\ inst = InstanceOf(<<t, inst.id>>)'
      BY DEF GhostsOnlyMidSweep
    <3>1. ~(sweeper.pc # "idle" /\ t \in sweeper.dirty)
      BY <2>2
    <3>2. records[<<t, inst.id>>] # NoRecord /\ inst = InstanceOf(<<t, inst.id>>)
      BY <2>1, <3>1 DEF GhostsOnlyMidSweep
    <3>3. <<t, inst.id>> \in Key
      BY <2>1 DEF TypeOK, Snapshot, Instance, Key
    <3>4. records'[<<t, inst.id>>] = records[<<t, inst.id>>]
      BY <2>3, <3>3 DEF TypeOK
    <3> QED BY <3>2, <3>4 DEF InstanceOf
  <2> QED BY <2>4, <2>6, <2>7
<1>11. CASE SweepRebuild
  <2>1. PICK s \in sweeper.dirty :
          /\ snapshot' = Rebuilt(records, s, sweeper.now)
          /\ sweeper' = AfterPops(sweeper.now, sweeper.dirty \ {s})
    BY <1>11 DEF SweepRebuild
  <2>2. /\ UNCHANGED <<clock, records, writer, reader>>
        /\ sweeper.pc = "rebuild" /\ sweeper.now \in Nat /\ s \in Service
    BY <1>11, <2>1 DEF SweepRebuild, TypeOK, SweeperState
  <2>3. sweeper.now <= clock
    BY <2>2 DEF ClockOrder
  <2>4. \A t \in Service \ {s} : t \in sweeper.dirty => sweeper'.pc # "idle" /\ t \in sweeper'.dirty
    BY <2>1 DEF AfterPops
  <2>5. ClockOrder'
    BY <2>1, <2>2, <2>3 DEF ClockOrder, AfterPops, Idle
  <2>6. records \in [Key -> Record \cup {NoRecord}]
    BY DEF TypeOK
  <2> QED BY <2>1, <2>2, <2>3, <2>4, <2>5, <2>6, PublicationKeeps
<1> QED BY <1>1, <1>2, <1>3, <1>4, <1>5, <1>6, <1>7, <1>8, <1>9, <1>10, <1>11 DEF Next, SweepStep

LEMMA PublishedInvariant == Spec => []Published
<1>1. Init => Published
  BY DEF Init, Published, ClockOrder, LiveLeaseVisible, GhostsOnlyMidSweep, Idle
<1> QED BY <1>1, PublishedStep, TypeCorrect, PTL DEF Spec

\* A live lease is always in the published snapshot of its service.
THEOREM LiveLeasesVisible == Spec => []LiveLeaseVisible
BY PublishedInvariant, PTL DEF Published

\* Outside a sweep, a published snapshot shows only stored records.
THEOREM NoGhosts == Spec => []GhostsOnlyMidSweep
BY PublishedInvariant, PTL DEF Published

----------------------------------------------------------------------------
(* The registry implements FencedLeases.                                   *)

PendingRegister(w) == writer[w].pc = "lock" /\ writer[w].op = "register"

\* Registrations in flight hold distinct generations, all of them drawn.
DistinctEpochs ==
  /\ \A w \in Writer : PendingRegister(w) => writer[w].entry.generation \in 1..generation
  /\ \A w, v \in Writer : PendingRegister(w) /\ PendingRegister(v) /\ w # v
        => writer[w].entry.generation # writer[v].entry.generation

\* A step of one writer that leaves it with no registration in flight.
LEMMA OthersKeepEpochs ==
  ASSUME DistinctEpochs, NEW w \in Writer, ~PendingRegister(w)',
         \A v \in Writer \ {w} : writer'[v] = writer[v],
         generation \in Nat, generation' \in Nat, generation' >= generation
  PROVE  DistinctEpochs'
<1>1. \A v \in Writer : PendingRegister(v)' => v # w
  OBVIOUS
<1>2. \A v \in Writer : PendingRegister(v)' => PendingRegister(v) /\ writer'[v] = writer[v]
  BY <1>1 DEF PendingRegister
<1>3. ASSUME NEW v \in Writer, PendingRegister(v)'
      PROVE  writer'[v].entry.generation \in 1..generation'
  <2>1. writer[v].entry.generation \in 1..generation /\ writer'[v] = writer[v]
    BY <1>2, <1>3 DEF DistinctEpochs
  <2>2. 1..generation \subseteq 1..generation'
    OBVIOUS
  <2> QED BY <2>1, <2>2
<1>4. ASSUME NEW u \in Writer, NEW v \in Writer, PendingRegister(u)', PendingRegister(v)', u # v
      PROVE  writer'[u].entry.generation # writer'[v].entry.generation
  BY <1>2, <1>4 DEF DistinctEpochs
<1> QED BY <1>3, <1>4 DEF DistinctEpochs

LEMMA DistinctStep == TypeOK /\ DistinctEpochs /\ [Next]_vars => DistinctEpochs'
<1> SUFFICES ASSUME TypeOK, DistinctEpochs, [Next]_vars PROVE DistinctEpochs'
  OBVIOUS
<1>1. CASE UNCHANGED <<writer, generation>>
  BY <1>1 DEF DistinctEpochs, PendingRegister
<1>2. ASSUME NEW w \in Writer, NEW s \in Service, NEW i \in ID, NEW ttl \in TTL,
             RegisterBegin(w, s, i, ttl)
      PROVE  DistinctEpochs'
  <2>1. /\ generation' = generation + 1
        /\ writer'[w].entry.generation = generation + 1
        /\ \A v \in Writer \ {w} : writer'[v] = writer[v]
    BY <1>2 DEF RegisterBegin, TypeOK
  <2> QED BY <2>1 DEF DistinctEpochs, PendingRegister, TypeOK
<1>3. ASSUME NEW w \in Writer, NEW s \in Service, NEW i \in ID, NEW ttl \in TTL, NEW f \in Fence,
             HeartbeatBegin(w, s, i, ttl, f)
      PROVE  DistinctEpochs'
  <2>1. /\ generation' = generation + 1
        /\ writer'[w].op = "heartbeat"
        /\ \A v \in Writer \ {w} : writer'[v] = writer[v]
    BY <1>3 DEF HeartbeatBegin, TypeOK
  <2>2. ~PendingRegister(w)'
    BY <2>1 DEF PendingRegister
  <2>3. generation \in Nat /\ generation' \in Nat /\ generation' >= generation
    BY <2>1 DEF TypeOK
  <2> QED BY <2>1, <2>2, <2>3, OthersKeepEpochs
<1>4. ASSUME NEW w \in Writer, WriterStep(w) PROVE DistinctEpochs'
  <2>1. /\ generation' = generation
        /\ writer'[w].pc # "lock"
        /\ \A v \in Writer \ {w} : writer'[v] = writer[v]
    BY SMTT(30), <1>4 DEF WriterStep, RegisterLocked, HeartbeatLocked, HeartbeatRejected, PushExpiry,
                StoreAndPublish, Idle, TypeOK
  <2>2. ~PendingRegister(w)'
    BY <2>1 DEF PendingRegister
  <2>3. generation \in Nat /\ generation' \in Nat /\ generation' >= generation
    BY <2>1 DEF TypeOK
  <2> QED BY SMTT(30), <2>1, <2>2, <2>3, OthersKeepEpochs
<1>5. ASSUME NEW r \in Reader, ReaderStep(r) PROVE UNCHANGED <<writer, generation>>
  BY <1>5 DEF ReaderStep, SnapshotLoad, SweepExpiredForService, SnapshotReload, SnapshotReturn
<1>6. ASSUME NEW r \in Reader, NEW s \in Service, SnapshotBegin(r, s)
      PROVE  UNCHANGED <<writer, generation>>
  BY <1>6 DEF SnapshotBegin
<1>7. ASSUME Tick \/ Cancel \/ SweepBegin \/ SweepStep \/ UNCHANGED vars
      PROVE  UNCHANGED <<writer, generation>>
  BY <1>7 DEF Tick, Cancel, SweepBegin, SweepStep, PopExpired, SweepCheck, SweepRebuild, vars
<1> QED BY <1>1, <1>2, <1>3, <1>4, <1>5, <1>6, <1>7 DEF Next, WriterCall

\* What the abstract variables are.
LEMMA HeldLeaseType ==
  ASSUME TypeOK
  PROVE  /\ HeldLease \in [Key -> Leases!Lease \cup {NoRecord}]
         /\ \A k \in Key : HeldLease[k] # NoRecord <=> records[k] # NoRecord
         /\ \A k \in Key : records[k] # NoRecord
              => HeldLease[k] = [epoch |-> records[k].epoch, deadline |-> records[k].expiresAt]
<1>1. ASSUME NEW k \in Key, records[k] # NoRecord
      PROVE  [epoch |-> records[k].epoch, deadline |-> records[k].expiresAt] \in Leases!Lease
  BY <1>1 DEF TypeOK, Record, Leases!Lease
<1> QED BY <1>1, NoRecordAssumption DEF HeldLease, Leases!Lease

\* A deletion of records whose deadline has passed is an abstract Expire.
LEMMA DeletionExpires ==
  ASSUME TypeOK, NEW K \in SUBSET Key,
         \A k \in K : records[k] # NoRecord /\ records[k].expiresAt <= clock,
         records' = [k \in Key |-> IF k \in K THEN NoRecord ELSE records[k]],
         UNCHANGED <<clock, generation, writer>>
  PROVE  Leases!Expire
<1>1. HeldLease' = [k \in Key |-> IF k \in K THEN NoRecord ELSE HeldLease[k]]
  BY DEF HeldLease
<1>2. K \in SUBSET {k \in Key : HeldLease[k] # NoRecord /\ HeldLease[k].deadline <= clock}
  BY HeldLeaseType
<1>3. UNCHANGED <<clock, SpentEpochs>>
  BY DEF SpentEpochs
<1> QED BY <1>1, <1>2, <1>3 DEF Leases!Expire

\* The mapped variables change only with what they are made from.
LEMMA SameLeases == UNCHANGED records => UNCHANGED HeldLease
BY DEF HeldLease

LEMMA SameEpochs == UNCHANGED <<generation, writer>> => UNCHANGED SpentEpochs
BY DEF SpentEpochs

\* Spent are the epochs drawn but for those of registrations in flight.
LEMMA SpentMember ==
  /\ \A n : n \in SpentEpochs <=>
       n \in 1..generation /\ \A v \in Writer : PendingRegister(v) => writer[v].entry.generation # n
  /\ \A n : n \in SpentEpochs' <=>
       n \in 1..generation' /\ \A v \in Writer : PendingRegister(v)' => writer'[v].entry.generation # n
<1>1. \A n : n \in SpentEpochs <=>
        n \in 1..generation /\ \A v \in Writer : PendingRegister(v) => writer[v].entry.generation # n
  BY ZenonT(30) DEF SpentEpochs, PendingRegister
<1>2. \A n : n \in SpentEpochs' <=>
        n \in 1..generation' /\ \A v \in Writer : PendingRegister(v)' => writer'[v].entry.generation # n
  BY ZenonT(30) DEF SpentEpochs, PendingRegister
<1> QED BY <1>1, <1>2

LEMMA LeaseStep ==
  TypeOK /\ TypeOK' /\ ClockOrder /\ DistinctEpochs /\ [Next]_vars
    => [Leases!LeaseNext]_(Leases!leaseVars)
<1> SUFFICES ASSUME TypeOK, TypeOK', ClockOrder, DistinctEpochs, [Next]_vars
             PROVE  Leases!LeaseNext \/ UNCHANGED <<clock, HeldLease, SpentEpochs>>
  BY DEF Leases!leaseVars
<1>1. CASE UNCHANGED <<clock, generation, records, writer>>
  BY <1>1, SameLeases, SameEpochs
<1>2. CASE Tick
  <2>1. clock' \in Nat /\ clock' > clock
    BY <1>2 DEF Tick, TypeOK
  <2>2. UNCHANGED <<HeldLease, SpentEpochs>>
    BY <1>2, SameLeases, SameEpochs DEF Tick
  <2> QED BY <2>1, <2>2 DEF Leases!Elapse, Leases!LeaseNext
<1>3. ASSUME NEW w \in Writer, NEW s \in Service, NEW i \in ID, NEW ttl \in TTL,
             RegisterBegin(w, s, i, ttl)
      PROVE  UNCHANGED <<clock, HeldLease, SpentEpochs>>
  <2>1. /\ UNCHANGED <<clock, records>>
        /\ generation' = generation + 1
        /\ PendingRegister(w)' /\ ~PendingRegister(w)
        /\ writer'[w].entry.generation = generation + 1
        /\ \A v \in Writer \ {w} : writer'[v] = writer[v]
    BY <1>3 DEF RegisterBegin, TypeOK, PendingRegister
  <2>2. \A v \in Writer \ {w} : PendingRegister(v)' <=> PendingRegister(v)
    BY <2>1 DEF PendingRegister
  <2>3. \A n : n \in 1..generation' <=> n \in 1..generation \/ n = generation + 1
    BY <2>1 DEF TypeOK
  <2>4. generation + 1 \notin 1..generation
    BY DEF TypeOK
  <2>5. ASSUME NEW n PROVE n \in SpentEpochs' <=> n \in SpentEpochs
    <3>1. CASE n = generation + 1
      <4>1. n \notin SpentEpochs
        BY <3>1, <2>4, SpentMember
      <4>2. n \notin SpentEpochs'
        BY <3>1, <2>1, SpentMember
      <4> QED BY <4>1, <4>2
    <3>2. CASE n # generation + 1
      <4>1. n \in 1..generation' <=> n \in 1..generation
        BY <3>2, <2>3
      <4>2. writer'[w].entry.generation # n /\ ~PendingRegister(w)
        BY <3>2, <2>1
      <4>3. ASSUME NEW v \in Writer
            PROVE  (PendingRegister(v)' => writer'[v].entry.generation # n)
                     <=> (PendingRegister(v) => writer[v].entry.generation # n)
        <5>1. CASE v = w
          BY <5>1, <4>2
        <5>2. CASE v # w
          BY <5>2, <2>1, <2>2
        <5> QED BY <5>1, <5>2
      <4> QED BY <4>1, <4>3, SpentMember
    <3> QED BY <3>1, <3>2
  <2>6. SpentEpochs' = SpentEpochs
    BY <2>5, Zenon
  <2> QED BY SMTT(30), <2>1, <2>6, SameLeases
<1>4. ASSUME NEW w \in Writer, NEW s \in Service, NEW i \in ID, NEW ttl \in TTL, NEW f \in Fence,
             HeartbeatBegin(w, s, i, ttl, f)
      PROVE  Leases!Burn
  <2>1. /\ UNCHANGED <<clock, records>>
        /\ generation' = generation + 1
        /\ ~PendingRegister(w)'
        /\ \A v \in Writer \ {w} : writer'[v] = writer[v]
    BY ZenonT(30), <1>4 DEF HeartbeatBegin, TypeOK, PendingRegister
  <2>2. SpentEpochs \subseteq SpentEpochs'
    <3>1. \A v \in Writer \ {w} : PendingRegister(v)' <=> PendingRegister(v)
      BY <2>1 DEF PendingRegister
    <3>2. \A n \in 1..generation : n \in 1..generation'
      BY <2>1 DEF TypeOK
    <3>3. ASSUME NEW n \in SpentEpochs PROVE n \in SpentEpochs'
      BY <2>1, <3>1, <3>2, SpentMember, ZenonT(30)
    <3> QED BY <3>3
  <2>3. UNCHANGED <<clock, HeldLease>>
    BY <2>1, SameLeases
  <2> QED BY SMTT(30), <2>2, <2>3 DEF Leases!Burn
<1>5. ASSUME NEW w \in Writer, RegisterLocked(w)
      PROVE  \E k \in Key : Leases!Grant(k)
  <2> DEFINE e == writer[w].entry
             k == <<e.service, e.id>>
             rec == [epoch |-> e.generation, expiresAt |-> e.expiresAt, generation |-> e.generation]
  <2>1. e \in Entry /\ PendingRegister(w)
    BY SMTT(30), <1>5 DEF RegisterLocked, PendingRegister, TypeOK, WriterState
  <2>2. /\ records' = [records EXCEPT ![k] = rec]
        /\ UNCHANGED <<clock, generation>>
        /\ writer'[w].pc = "push"
        /\ \A v \in Writer \ {w} : writer'[v] = writer[v]
    BY ZenonT(30), <1>5 DEF RegisterLocked, StoreAndPublish, TypeOK
  <2>3. k \in Key /\ rec \in Record
    BY SMTT(30), <2>1 DEF Entry, Key, Record
  <2>4. rec # NoRecord
    BY SMTT(30), <2>3, NoRecordAssumption
  <2>5. HeldLease' = [HeldLease EXCEPT ![k] = [epoch |-> e.generation, deadline |-> e.expiresAt]]
    BY ZenonT(30), <2>2, <2>3, <2>4 DEF HeldLease, TypeOK
  <2>6. HeldLease'[k] = [epoch |-> e.generation, deadline |-> e.expiresAt]
    BY ZenonT(30), <2>3, <2>5 DEF HeldLease
  <2>7. HeldLease'[k] \in Leases!Lease
    BY <2>1, <2>6 DEF Leases!Lease, Entry
  <2>8. e.generation \notin SpentEpochs
    BY <2>1 DEF SpentEpochs, PendingRegister
  <2>9. SpentEpochs' = SpentEpochs \cup {e.generation}
    <3>1. e.generation \in 1..generation
      BY <2>1 DEF DistinctEpochs
    <3>2. \A v \in Writer : PendingRegister(v)' <=> PendingRegister(v) /\ v # w
      BY <2>2 DEF PendingRegister
    <3>3. \A v \in Writer : PendingRegister(v) /\ v # w => writer[v].entry.generation # e.generation
      BY <2>1 DEF DistinctEpochs
    <3> QED BY <2>1, <2>2, <3>1, <3>2, <3>3 DEF SpentEpochs, PendingRegister
  <2>10. HeldLease'[k].epoch = e.generation
    BY <2>6
  <2>11. HeldLease' = [HeldLease EXCEPT ![k] = HeldLease'[k]]
    BY ZenonT(30), <2>5, <2>6
  <2> HIDE DEF k, e
  <2>12. Leases!Grant(k)
    BY <2>2, <2>7, <2>8, <2>9, <2>10, <2>11 DEF Leases!Grant
  <2> QED BY SMTT(30), <2>3, <2>12
<1>6. ASSUME NEW w \in Writer, HeartbeatLocked(w)
      PROVE  \E k \in Key : Leases!Renew(k)
  <2> DEFINE e == writer[w].entry
             k == <<e.service, e.id>>
             rec == [epoch |-> records[k].epoch, expiresAt |-> e.expiresAt, generation |-> e.generation]
  <2>1. e \in Entry /\ ~PendingRegister(w)
    BY <1>6 DEF HeartbeatLocked, PendingRegister, TypeOK, WriterState
  <2>2. /\ records' = [records EXCEPT ![k] = rec]
        /\ UNCHANGED <<clock, generation>>
        /\ writer'[w].pc = "push"
        /\ \A v \in Writer \ {w} : writer'[v] = writer[v]
    BY ZenonT(30), <1>6 DEF HeartbeatLocked, StoreAndPublish, TypeOK
  <2>3. k \in Key /\ records[k] # NoRecord
    <3>1. HeartbeatAccepted(w)
      BY ONLY <1>6 DEF HeartbeatLocked
    <3>2. records[k] # NoRecord
      BY ONLY <3>1 DEF HeartbeatAccepted
    <3>3. k \in Key
      BY ONLY <2>1 DEF Entry, Key
    <3> QED BY ONLY <3>2, <3>3
  <2>4. records[k] \in Record /\ rec \in Record
    BY ZenonT(30), <2>1, <2>3 DEF TypeOK, Entry, Record
  <2>5. rec # NoRecord
    BY ZenonT(30), <2>4, NoRecordAssumption
  <2>6. HeldLease' = [HeldLease EXCEPT ![k] = [epoch |-> records[k].epoch, deadline |-> e.expiresAt]]
    BY ZenonT(30), <2>2, <2>3, <2>5 DEF HeldLease, TypeOK
  <2>7. HeldLease'[k] = [epoch |-> records[k].epoch, deadline |-> e.expiresAt]
    BY ZenonT(30), <2>3, <2>6 DEF HeldLease
  <2>8. HeldLease'[k] \in Leases!Lease
    BY <2>1, <2>4, <2>7 DEF Leases!Lease, Entry, Record
  <2>9. HeldLease[k] # NoRecord /\ HeldLease[k].epoch = records[k].epoch
    BY <2>3, HeldLeaseType
  <2>10. SpentEpochs' = SpentEpochs
    <3>1. \A v \in Writer : PendingRegister(v)' <=> PendingRegister(v)
      BY SMTT(30), <2>1, <2>2 DEF PendingRegister
    <3> QED BY <2>1, <2>2, <3>1 DEF SpentEpochs, PendingRegister
  <2>11. HeldLease'[k].epoch = HeldLease[k].epoch
    BY <2>7, <2>9
  <2>12. HeldLease' = [HeldLease EXCEPT ![k] = HeldLease'[k]]
    BY ZenonT(30), <2>6, <2>7
  <2> HIDE DEF k, e
  <2>13. Leases!Renew(k)
    BY <2>2, <2>8, <2>9, <2>10, <2>11, <2>12 DEF Leases!Renew
  <2> QED BY SMTT(30), <2>3, <2>13
<1>7. ASSUME NEW w \in Writer, HeartbeatRejected(w) \/ PushExpiry(w)
      PROVE  UNCHANGED <<clock, HeldLease, SpentEpochs>>
  <2>1. /\ UNCHANGED <<clock, generation, records>>
        /\ ~PendingRegister(w) /\ ~PendingRegister(w)'
        /\ \A v \in Writer \ {w} : writer'[v] = writer[v]
    BY <1>7 DEF HeartbeatRejected, PushExpiry, PendingRegister, Idle, TypeOK
  <2>2. \A v \in Writer : PendingRegister(v)' <=> PendingRegister(v)
    BY <2>1 DEF PendingRegister
  <2> QED BY <2>1, <2>2 DEF HeldLease, SpentEpochs, PendingRegister
<1>8. ASSUME NEW r \in Reader, ReaderStep(r)
      PROVE  Leases!LeaseNext \/ UNCHANGED <<clock, generation, records, writer>>
  <2>1. CASE SweepExpiredForService(r)
    <3> DEFINE s == reader[r].service
               n == reader[r].now
               K == Overdue(s, n)
    <3>1. s \in Service /\ n \in Nat /\ n <= clock
      BY ZenonT(30), <2>1 DEF TypeOK, ReaderState, SweepExpiredForService, ClockOrder
    <3>2. records' = [k \in Key |-> IF k \in K THEN NoRecord ELSE records[k]]
          /\ UNCHANGED <<clock, generation, writer>>
      BY <2>1 DEF SweepExpiredForService
    <3>3. K \in SUBSET Key
      BY <3>1 DEF Overdue, Key
    <3>4. \A k \in K : records[k] # NoRecord /\ records[k].expiresAt <= clock
      <4>1. \A k \in K : records[k] # NoRecord /\ records[k].expiresAt <= n
        BY DEF Overdue
      <4>2. \A k \in K : records[k].expiresAt \in Nat
        BY <3>3, <4>1 DEF TypeOK, Record
      <4> QED BY <3>1, <4>1, <4>2 DEF TypeOK
    <3> HIDE DEF K
    <3> QED BY SMTT(30), <3>2, <3>3, <3>4, DeletionExpires DEF Leases!LeaseNext
  <2>2. CASE SnapshotLoad(r) \/ SnapshotReload(r) \/ SnapshotReturn(r)
    BY SMTT(30), <2>2 DEF SnapshotLoad, SnapshotReload, SnapshotReturn
  <2> QED BY <1>8, <2>1, <2>2 DEF ReaderStep
<1>9. CASE SweepCheck
  <2> DEFINE e == sweeper.entry
             k == <<e.service, e.id>>
  <2>1. e \in Entry /\ sweeper.now \in Nat /\ sweeper.now <= clock
    BY ZenonT(30), <1>9 DEF SweepCheck, TypeOK, SweeperState, ClockOrder
  <2>2. UNCHANGED <<clock, generation, writer>>
    BY <1>9 DEF SweepCheck
  <2>3. CASE UNCHANGED records
    BY <1>1, <2>2, <2>3
  <2>4. CASE Expires(e, sweeper.now) /\ records' = [records EXCEPT ![k] = NoRecord]
    <3>1. k \in Key
      BY <2>1 DEF Entry, Key
    <3>2. records[k] # NoRecord /\ records[k].expiresAt <= clock
      <4>1. records[k] # NoRecord /\ records[k].expiresAt <= sweeper.now
        BY <2>4 DEF Expires
      <4>2. records[k].expiresAt \in Nat
        BY <3>1, <4>1 DEF TypeOK, Record
      <4> QED BY <2>1, <4>1, <4>2 DEF TypeOK
    <3> DEFINE K == {k}
    <3>3. records' = [j \in Key |-> IF j \in K THEN NoRecord ELSE records[j]]
      BY ZenonT(30), <2>4, <3>1 DEF TypeOK
    <3>4. K \in SUBSET Key /\ \A j \in K : records[j] # NoRecord /\ records[j].expiresAt <= clock
      BY <3>1, <3>2
    <3> HIDE DEF K
    <3> QED BY <2>2, <3>3, <3>4, DeletionExpires DEF Leases!LeaseNext
  <2>5. UNCHANGED records \/ (Expires(e, sweeper.now) /\ records' = [records EXCEPT ![k] = NoRecord])
    BY ZenonT(30), <1>9 DEF SweepCheck
  <2> QED BY <2>3, <2>4, <2>5, Zenon
<1>10. ASSUME NEW r \in Reader, NEW s \in Service, SnapshotBegin(r, s)
       PROVE  UNCHANGED <<clock, generation, records, writer>>
  BY <1>10 DEF SnapshotBegin
<1>11. ASSUME Cancel \/ SweepBegin \/ PopExpired \/ SweepRebuild \/ UNCHANGED vars
       PROVE  UNCHANGED <<clock, generation, records, writer>>
  BY <1>11 DEF Cancel, SweepBegin, PopExpired, SweepRebuild, vars
<1> QED BY <1>1, <1>2, <1>3, <1>4, <1>5, <1>6, <1>7, <1>8, <1>9, <1>10, <1>11
        DEF Next, WriterCall, WriterStep, SweepStep, Leases!LeaseNext

\* The in-memory registry implements the fenced-lease specification.
THEOREM RegistryKeepsLeasePromise == Spec => LeasePromise
<1>1. Init => Leases!LeaseInit /\ DistinctEpochs
  BY DEF Init, Leases!LeaseInit, HeldLease, SpentEpochs, DistinctEpochs, PendingRegister, Idle
<1>2. Spec => []DistinctEpochs
  BY <1>1, DistinctStep, TypeCorrect, PTL DEF Spec
<1>3. Spec => []ClockOrder
  BY PublishedInvariant, PTL DEF Published
<1> QED BY <1>1, <1>2, <1>3, TypeCorrect, LeaseStep, PTL DEF Spec, LeasePromise, Leases!LeaseSpec
=============================================================================
