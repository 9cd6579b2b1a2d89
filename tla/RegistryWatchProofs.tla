------------------------ MODULE RegistryWatchProofs ------------------------
(***************************************************************************)
(* Proofs about RegistryWatch.tla, for any number of versions published,   *)
(* whether or not the source has lease deadlines.                          *)
(***************************************************************************)
EXTENDS RegistryWatcher, TLAPS

\* What a watcher has captured it has handed over, or is about to.
Watched ==
  /\ Watch!TypeOK
  /\ watcher.notify <= notify
  /\ watcher.pc \in {"top", "sweep", "capture", "wait"} => Watch!HandedOver = watcher.lastVersion
  /\ watcher.pc \in {"send", "drain", "resend"} => watcher.snapshot = watcher.lastVersion
  /\ watcher.pc = "wait" /\ watcher.notify = notify => watcher.lastVersion >= version

\* The watcher, moved on with nothing else of it changed.
LEMMA WatcherGoto ==
  ASSUME Watch!TypeOK, NEW pc \in Watch!PC, Watch!Goto(pc)
  PROVE  /\ watcher' \in [pc : Watch!PC, snapshot : Nat, notify : Nat, lastVersion : Nat]
         /\ watcher'.pc = pc
         /\ watcher'.snapshot = watcher.snapshot
         /\ watcher'.notify = watcher.notify
         /\ watcher'.lastVersion = watcher.lastVersion
  BY DEF Watch!TypeOK, Watch!Goto

\* Watched holds when a watch begins.
LEMMA WatchedInit ==
  ASSUME Watch!Init
  PROVE  Watched
<1>1. PICK from \in 0..version :
        /\ watcher = [pc |-> "top", snapshot |-> 0, notify |-> 0, lastVersion |-> from]
        /\ received = from
  BY DEF Watch!Init
<1>2. version \in Nat /\ notify = version /\ from \in Nat
  BY <1>1, VersionAssumption DEF Watch!Init
<1>3. updates = <<>> /\ updates \in Seq(Nat) /\ Len(updates) <= 1
  BY DEF Watch!Init
<1>4. watcher \in [pc : Watch!PC, snapshot : Nat, notify : Nat, lastVersion : Nat]
  BY <1>1, <1>2 DEF Watch!PC
<1>5. overdue \in BOOLEAN /\ stored \in BOOLEAN /\ done \in BOOLEAN
  BY DEF Watch!Init
<1>6. Watch!TypeOK
  BY <1>1, <1>2, <1>3, <1>4, <1>5 DEF Watch!TypeOK
<1> QED BY <1>1, <1>2, <1>3, <1>6 DEF Watched, Watch!HandedOver

\* A step of the watcher goroutine keeps it.
LEMMA WatcherKeeps ==
  ASSUME Watched, Watch!WatcherStep
  PROVE  Watched'
<1> USE DEF Watch!PC
<1>1. Watch!TypeOK /\ watcher.pc \in Watch!PC /\ version \in Nat /\ notify \in Nat
  BY DEF Watched, Watch!TypeOK
<1>2. CASE Watch!LoopTop
  <2>1. PICK pc \in {"closed", "sweep", "capture"} : Watch!Goto(pc)
    BY <1>2 DEF Watch!LoopTop
  <2>2. UNCHANGED <<version, notify, overdue, stored, updates, received, done>> /\ watcher.pc = "top"
    BY <1>2 DEF Watch!LoopTop
  <2> QED BY <1>1, <2>1, <2>2, WatcherGoto DEF Watched, Watch!TypeOK, Watch!HandedOver
<1>3. CASE Watch!SweepService
  <2>1. Watch!Goto("capture") /\ watcher.pc = "sweep" /\ UNCHANGED <<updates, received, done>>
    BY <1>3 DEF Watch!SweepService
  <2>2. version' \in Nat /\ notify' \in Nat /\ notify <= notify' /\ overdue' \in BOOLEAN /\ stored' \in BOOLEAN
    <3>1. \/ version' = version + 1 /\ notify' = notify + 1 /\ overdue' = FALSE /\ stored' = FALSE
          \/ UNCHANGED <<version, notify, overdue, stored>>
      BY <1>3 DEF Watch!SweepService, Watch!Republish
    <3>2. version' \in Nat /\ notify' \in Nat /\ notify <= notify'
      BY <1>1, <3>1
    <3>3. overdue' \in BOOLEAN /\ stored' \in BOOLEAN
      BY <1>1, <3>1 DEF Watch!TypeOK
    <3> QED BY <3>2, <3>3
  <2> QED BY <1>1, <2>1, <2>2, WatcherGoto DEF Watched, Watch!TypeOK, Watch!HandedOver
<1>4. CASE Watch!Capture
  <2>1. /\ UNCHANGED <<version, notify, overdue, stored, updates, received, done>> /\ watcher.pc = "capture"
        /\ \/ /\ version > watcher.lastVersion
              /\ watcher' = [pc |-> "send", snapshot |-> version, notify |-> notify, lastVersion |-> version]
           \/ /\ ~(version > watcher.lastVersion)
              /\ watcher' = [pc |-> "wait", snapshot |-> version, notify |-> notify,
                             lastVersion |-> watcher.lastVersion]
    BY <1>4 DEF Watch!Capture
  <2>2. watcher.lastVersion \in Nat
    BY <1>1 DEF Watch!TypeOK
  <2> QED BY <1>1, <2>1, <2>2 DEF Watched, Watch!TypeOK, Watch!HandedOver
<1>5. CASE Watch!TrySend \/ Watch!Resend
  <2>1. UNCHANGED <<version, notify, overdue, stored, received, done>> /\ watcher.pc \in {"send", "resend"}
    BY <1>5 DEF Watch!TrySend, Watch!Resend
  <2>2. CASE updates' = <<watcher.snapshot>> /\ Watch!Goto("top")
    <3>1. watcher.snapshot \in Nat
      BY <1>1 DEF Watch!TypeOK
    <3>2. updates' \in Seq(Nat) /\ Len(updates') <= 1 /\ updates' # <<>> /\ Head(updates') = watcher.snapshot
      BY <2>2, <3>1
    <3> QED BY <1>1, <2>1, <2>2, <3>2, WatcherGoto DEF Watched, Watch!TypeOK, Watch!HandedOver
  <2>3. CASE UNCHANGED updates /\ (Watch!Goto("closed") \/ Watch!Goto("drain"))
    BY <1>1, <2>1, <2>3, WatcherGoto DEF Watched, Watch!TypeOK, Watch!HandedOver
  <2> QED BY <1>5, <2>2, <2>3 DEF Watch!TrySend, Watch!Resend
<1>6. CASE Watch!Drain
  <2>1. /\ UNCHANGED <<version, notify, overdue, stored, received, done>> /\ watcher.pc = "drain"
        /\ \/ updates' = <<>> /\ Watch!Goto("resend")
           \/ UNCHANGED updates /\ Watch!Goto("closed")
    BY <1>6 DEF Watch!Drain
  <2>2. updates' \in Seq(Nat) /\ Len(updates') <= 1
    <3>1. CASE updates' = <<>>
      BY <3>1
    <3>2. CASE updates' = updates
      BY <1>1, <3>2 DEF Watch!TypeOK
    <3> QED BY <2>1, <3>1, <3>2
  <2> QED BY <1>1, <2>1, <2>2, WatcherGoto DEF Watched, Watch!TypeOK
<1>7. CASE Watch!Wait
  <2>1. /\ UNCHANGED <<version, notify, overdue, stored, updates, received, done>> /\ watcher.pc = "wait"
        /\ Watch!Goto("top") \/ Watch!Goto("closed")
    BY <1>7 DEF Watch!Wait
  <2> QED BY <1>1, <2>1, WatcherGoto DEF Watched, Watch!TypeOK, Watch!HandedOver
<1> QED BY <1>2, <1>3, <1>4, <1>5, <1>6, <1>7 DEF Watch!WatcherStep

\* So does every other step.
LEMMA WatchedStep ==
  ASSUME Watched, [Watch!Next]_(Watch!vars)
  PROVE  Watched'
<1>1. /\ Watch!TypeOK /\ version \in Nat /\ notify \in Nat
      /\ watcher.notify \in Nat /\ watcher.lastVersion \in Nat /\ watcher.notify <= notify
  BY DEF Watched, Watch!TypeOK
<1>2. CASE Watch!Publish
  <2>1. /\ UNCHANGED <<watcher, updates, received, done>>
        /\ version' = version + 1 /\ notify' = notify + 1 /\ overdue' = FALSE /\ stored' = FALSE
    BY <1>2 DEF Watch!Publish, Watch!Republish
  <2>2. watcher.notify # notify' /\ watcher.notify <= notify' /\ notify' \in Nat /\ version' \in Nat
    BY <1>1, <2>1
  <2> QED BY <1>1, <2>1, <2>2 DEF Watched, Watch!TypeOK, Watch!HandedOver
<1>3. CASE Watch!DeadlinePasses \/ Watch!DeletedElsewhere \/ Watch!Cancel
  <2>1. /\ UNCHANGED <<version, notify, watcher, updates, received>>
        /\ overdue' \in BOOLEAN /\ stored' \in BOOLEAN /\ done' \in BOOLEAN
    BY <1>1, <1>3 DEF Watch!DeadlinePasses, Watch!DeletedElsewhere, Watch!Cancel, Watch!TypeOK
  <2> QED BY <1>1, <2>1 DEF Watched, Watch!TypeOK, Watch!HandedOver
<1>4. CASE Watch!Receive
  <2>1. /\ updates # <<>> /\ received' = Head(updates) /\ updates' = <<>>
        /\ UNCHANGED <<version, notify, overdue, stored, watcher, done>>
    BY <1>4 DEF Watch!Receive
  <2>2. Head(updates) \in Nat /\ updates' \in Seq(Nat) /\ Len(updates') <= 1
    BY <1>1, <2>1 DEF Watch!TypeOK
  <2> QED BY <1>1, <2>1, <2>2 DEF Watched, Watch!TypeOK, Watch!HandedOver
<1>5. CASE UNCHANGED Watch!vars
  BY <1>5 DEF Watch!vars, Watched, Watch!TypeOK, Watch!HandedOver
<1> QED BY <1>2, <1>3, <1>4, <1>5, WatcherKeeps DEF Watch!Next

\* No wake-up is lost, whatever the number of versions published.
THEOREM WakeUpsKept == Watch!Spec => []NoLostWakeup
<1>1. Watch!Init => Watched
  BY WatchedInit
<1>2. Watched /\ [Watch!Next]_(Watch!vars) => Watched'
  BY WatchedStep
<1>3. Watched => NoLostWakeup
  BY DEF Watched, NoLostWakeup, Watch!NoLostWakeup
<1> QED BY <1>1, <1>2, <1>3, PTL DEF Watch!Spec
=============================================================================
