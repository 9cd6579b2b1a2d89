---------------------------- MODULE RegistryWatch ----------------------------
(***************************************************************************)
(* pkg/registry/registry.go, Watch, watch and sendLatestSnapshot: one      *)
(* watcher goroutine of one service, the one-slot channel it coalesces     *)
(* updates into, and the consumer at its other end.                        *)
(* pkg/fault/manager.go, WatchHealth and sendLatestVersion, is the same    *)
(* loop without the expiry timer (CanExpire = FALSE).                      *)
(*                                                                         *)
(* Snapshots are identified by their version.  Notify channels are         *)
(* numbered; channel n is closed exactly when a later one has replaced it. *)
(***************************************************************************)
EXTENDS Naturals, Sequences

CONSTANTS MaxVersion,   \* bound: snapshots published
          CanExpire     \* the source has lease deadlines

VARIABLES version,    \* Version of the published snapshot
          notify,     \* number of the current notify channel
          overdue,    \* the published snapshot's nextExpiresAt has passed
          stored,     \* an overdue record is still stored
          watcher,    \* the goroutine: pc, captured snapshot and channel, lastVersion
          updates,    \* the channel of capacity one
          received,   \* the version the consumer took last
          done        \* the watch context is done

vars == <<version, notify, overdue, stored, watcher, updates, received, done>>

PC == {"top", "sweep", "capture", "send", "drain", "resend", "wait", "closed"}

TypeOK ==
  /\ version \in Nat
  /\ notify \in Nat
  /\ overdue \in BOOLEAN
  /\ stored \in BOOLEAN
  /\ watcher \in [pc : PC, snapshot : Nat, notify : Nat, lastVersion : Nat]
  /\ updates \in Seq(Nat) /\ Len(updates) <= 1
  /\ received \in Nat
  /\ done \in BOOLEAN

\* The consumer starts from the version it passes as afterVersion.
Init ==
  /\ version \in 0..MaxVersion
  /\ notify = version
  /\ overdue = FALSE
  /\ stored = FALSE
  /\ \E after \in 0..version :
       /\ watcher = [pc |-> "top", snapshot |-> 0, notify |-> 0, lastVersion |-> after]
       /\ received = after
  /\ updates = <<>>
  /\ done = FALSE

----------------------------------------------------------------------------
\* rebuildSnapshotLocked: a new version, and the waiters of the old notify
\* channel are released.
Republish ==
  /\ version' = version + 1
  /\ notify' = notify + 1
  /\ overdue' = FALSE

\* A writer, or the sweeper finishing its rebuild, publishes.
Publish ==
  /\ version < MaxVersion
  /\ Republish
  /\ stored' = FALSE
  /\ UNCHANGED <<watcher, updates, received, done>>

\* The earliest deadline in the published snapshot passes.
DeadlinePasses ==
  /\ CanExpire
  /\ version \in 1..(MaxVersion - 1)
  /\ ~overdue
  /\ overdue' = TRUE
  /\ stored' = TRUE
  /\ UNCHANGED <<version, notify, watcher, updates, received, done>>

\* The sweeper or a reader deletes the overdue record; its rebuild (the
\* sweeper's comes later) is a Publish.
DeletedElsewhere ==
  /\ stored
  /\ stored' = FALSE
  /\ UNCHANGED <<version, notify, overdue, watcher, updates, received, done>>

Cancel ==
  /\ ~done
  /\ done' = TRUE
  /\ UNCHANGED <<version, notify, overdue, stored, watcher, updates, received>>

----------------------------------------------------------------------------
Goto(pc) == watcher' = [watcher EXCEPT !.pc = pc]

\* ctx.Err, then the time and a first look at the published snapshot.
LoopTop ==
  /\ watcher.pc = "top"
  /\ Goto(IF done THEN "closed" ELSE IF overdue THEN "sweep" ELSE "capture")
  /\ UNCHANGED <<version, notify, overdue, stored, updates, received, done>>

\* sweepExpiredForService: it republishes only if it deleted something.
SweepService ==
  /\ watcher.pc = "sweep"
  /\ Goto("capture")
  /\ IF stored
     THEN Republish /\ stored' = FALSE
     ELSE UNCHANGED <<version, notify, overdue, stored>>
  /\ UNCHANGED <<updates, received, done>>

\* Mutant of Capture: the notify channel is taken in a later critical
\* section than the snapshot was (here: the snapshot seen at the loop top).
CaptureStale ==
  /\ watcher.pc = "capture"
  /\ \E v \in {watcher.snapshot, version} :
       watcher' = IF v > watcher.lastVersion
                  THEN [pc |-> "send", snapshot |-> v, notify |-> notify, lastVersion |-> v]
                  ELSE [pc |-> "wait", snapshot |-> v, notify |-> notify,
                        lastVersion |-> watcher.lastVersion]
  /\ UNCHANGED <<version, notify, overdue, stored, updates, received, done>>

\* The snapshot and the notify channel are read in one critical section.
Capture ==
  /\ watcher.pc = "capture"
  /\ watcher' = IF version > watcher.lastVersion
                THEN [pc |-> "send", snapshot |-> version, notify |-> notify,
                      lastVersion |-> version]
                ELSE [pc |-> "wait", snapshot |-> version, notify |-> notify,
                      lastVersion |-> watcher.lastVersion]
  /\ UNCHANGED <<version, notify, overdue, stored, updates, received, done>>

\* The first two selects of sendLatestSnapshot.
TrySend ==
  /\ watcher.pc = "send"
  /\ \/ updates = <<>> /\ updates' = <<watcher.snapshot>> /\ Goto("top")
     \/ done /\ Goto("closed") /\ UNCHANGED updates
     \/ updates # <<>> /\ ~done /\ Goto("drain") /\ UNCHANGED updates
  /\ UNCHANGED <<version, notify, overdue, stored, received, done>>

\* case <-updates: take the pending update back.
Drain ==
  /\ watcher.pc = "drain"
  /\ \/ updates # <<>> /\ updates' = <<>> /\ Goto("resend")
     \/ done /\ Goto("closed") /\ UNCHANGED updates
  /\ UNCHANGED <<version, notify, overdue, stored, received, done>>

Resend ==
  /\ watcher.pc = "resend"
  /\ \/ updates = <<>> /\ updates' = <<watcher.snapshot>> /\ Goto("top")
     \/ done /\ Goto("closed") /\ UNCHANGED updates
  /\ UNCHANGED <<version, notify, overdue, stored, received, done>>

\* Mutant of Wait: the select has no case for the notify channel.
WaitForTimer ==
  /\ watcher.pc = "wait"
  /\ \/ overdue /\ Goto("top")
     \/ done /\ Goto("closed")
  /\ UNCHANGED <<version, notify, overdue, stored, updates, received, done>>

\* The select over ctx.Done, the captured notify channel and the timer.
Wait ==
  /\ watcher.pc = "wait"
  /\ \/ notify # watcher.notify /\ Goto("top")
     \/ overdue /\ Goto("top")
     \/ done /\ Goto("closed")
  /\ UNCHANGED <<version, notify, overdue, stored, updates, received, done>>

\* The consumer takes the pending update.
Receive ==
  /\ updates # <<>>
  /\ received' = Head(updates)
  /\ updates' = <<>>
  /\ UNCHANGED <<version, notify, overdue, stored, watcher, done>>

WatcherStep ==
  LoopTop \/ SweepService \/ Capture \/ TrySend \/ Drain \/ Resend \/ Wait

Next ==
  \/ Publish
  \/ DeadlinePasses
  \/ DeletedElsewhere
  \/ Cancel
  \/ WatcherStep
  \/ Receive

Spec == Init /\ [][Next]_vars

\* The goroutine runs on and the consumer keeps receiving; a record deleted
\* by another goroutine is republished by it (rebuild follows deletion).
Fairness ==
  /\ WF_vars(WatcherStep)
  /\ WF_vars(Receive)
  /\ WF_vars(Publish /\ overdue /\ ~stored)

FairSpec == Spec /\ Fairness

----------------------------------------------------------------------------
\* The versions on their way to the consumer, or already there.
HandedOver == IF updates # <<>> THEN Head(updates) ELSE received

\* No wake-up is lost: a watcher that sleeps on an open notify channel has
\* seen the version that is published now, and has handed it over if it was
\* newer than what the consumer started from.
NoLostWakeup ==
  watcher.pc = "wait" /\ watcher.notify = notify
    => watcher.lastVersion >= version /\ HandedOver = watcher.lastVersion

\* The channel is drained by its own sender: if the consumer empties it
\* first, the sender waits for an update nobody can send.
SenderStuck == watcher.pc = "drain" /\ updates = <<>>

\* "Watch streams backing-source changes to callers until the source or
\* context closes": a published version, or a newer one, reaches a consumer
\* that keeps receiving.
ConsumerCatchesUp ==
  \A v \in 1..MaxVersion : (version >= v) ~> (received >= v \/ done)

\* The same promise for the last version published, kept in every behaviour in
\* which the sender never blocks on the channel it drains.
CatchesUpUnlessStuck == <>[](received >= version \/ done \/ SenderStuck)
=============================================================================
