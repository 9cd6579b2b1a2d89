------------------------- MODULE HealthReplication -------------------------
(***************************************************************************)
(* Health state shared by several controllers through etcd:                *)
(* pkg/fault/health_store.go, MergeSnapshot of pkg/fault/manager.go, and   *)
(* the restore, watch and prune loops of cmd/controller/main.go.           *)
(*                                                                         *)
(* One endpoint; the store treats each under a key of its own.  What the   *)
(* state machine computed is a number n, in the order of computation, with *)
(* the time it is stamped with.  The clock is fine: no two readings are    *)
(* equal, and the clocks of the controllers agree.                         *)
(*                                                                         *)
(* An etcd revision is only ever compared with the present one, so it is   *)
(* kept as "now" or "old", and every write ages the ones held anywhere.    *)
(***************************************************************************)
EXTENDS Naturals

CONSTANTS Controller,
          Goroutine,      \* goroutines of a controller that save: reports, the ticker
          Deployment,     \* the deployments to consider, see setup
          NoHealth,       \* stands for a missing entry
          MaxTime,        \* bound: the clock stops there
          MaxFaults       \* bound: requests and watches that fail, and crashes

ASSUME DeploymentAssumption ==
  Deployment \subseteq [controllers : SUBSET Controller, goroutines : SUBSET Goroutine,
                        maxAge : Nat, adverse : BOOLEAN]
ASSUME BoundAssumption == MaxTime \in Nat /\ MaxFaults \in Nat

VARIABLES setup,          \* the deployment: its controllers, their goroutines, the age
                          \* up to which health is restored (0: any), and whether
                          \* requests fail, processes crash and the lease expires
          clock,
          active,         \* the registry lists the endpoint
          computed,       \* number of health states computed
          store,          \* etcd: NoHealth, or the health
          local,          \* HealthManager of each controller
          backdated,      \* history: controllers whose health replaced one stamped later
          saver,          \* local state of each report or tick
          seen,           \* revision up to which the watch has delivered
          slot,           \* the one-slot event channel: a revision, or "none"
          sender,         \* revision the watch goroutine waits to re-send, or "none"
          after,          \* afterRevision of watchHealthSnapshots
          restorer,       \* local state of restoreHealthSnapshot
          faults

watchVars == <<seen, slot, sender, after>>
held == <<local, backdated>>
vars == <<setup, clock, active, computed, store, held, saver, watchVars, restorer, faults>>

Revision == {"now", "old"}
Later(r, s) == IF "now" \in {r, s} THEN "now" ELSE "old"
Aged(r) == IF r = "now" THEN "old" ELSE r

\* A time that was read from the clock differs from the same time decoded from
\* JSON for Go's ==, which compares the monotonic reading as well.
Health == [n : Nat, at : Nat, decoded : BOOLEAN]
Decoded(h) == [h EXCEPT !.decoded = TRUE]
ASSUME NoHealthAssumption == NoHealth \notin Health

Entry == Health \cup {NoHealth}
Idle == [pc |-> "idle"]
Saver ==
  {Idle} \cup [pc : {"apply"}, at : Nat] \cup [pc : {"get"}, health : Health]
    \cup [pc : {"put"}, health : Health, expected : Revision]
Restorer == {Idle} \cup [pc : {"load"}] \cup [pc : {"merge"}, revision : Revision, health : Entry]

TypeOK ==
  /\ setup \in Deployment
  /\ clock \in 0..MaxTime
  /\ active \in BOOLEAN
  /\ computed \in Nat
  /\ store \in Entry
  /\ store # NoHealth => store.decoded
  /\ local \in [Controller -> Entry] /\ backdated \subseteq Controller
  /\ saver \in [Controller -> [Goroutine -> Saver]]
  /\ seen \in [Controller -> Revision] /\ after \in [Controller -> Revision]
  /\ slot \in [Controller -> Revision \cup {"none"}] /\ sender \in [Controller -> Revision \cup {"none"}]
  /\ restorer \in [Controller -> Restorer]
  /\ faults \in Nat

Init ==
  /\ setup \in Deployment
  /\ clock = 0
  /\ active = TRUE
  /\ computed = 0
  /\ store = NoHealth
  /\ local = [c \in Controller |-> NoHealth] /\ backdated = {}
  /\ saver = [c \in Controller |-> [g \in Goroutine |-> Idle]]
  /\ seen = [c \in Controller |-> "now"]
  /\ slot = [c \in Controller |-> "none"]
  /\ sender = [c \in Controller |-> "none"]
  /\ after = [c \in Controller |-> "now"]
  /\ restorer = [c \in Controller |-> Idle]
  /\ faults = 0

SetSaver(c, g, s) == saver' = [saver EXCEPT ![c][g] = s]

----------------------------------------------------------------------------
(* A report or a tick computes health, then saves what it computed.        *)

\* The clock is read before the lock is waited for,
ReadNow(c, g) ==
  /\ saver[c][g].pc = "idle"
  /\ active
  /\ clock < MaxTime
  /\ clock' = clock + 1
  /\ SetSaver(c, g, [pc |-> "apply", at |-> clock + 1])
  /\ UNCHANGED <<active, computed, store, held, watchVars, restorer, faults>>

\* and what is computed then replaces what a report, a tick or a merge has put
\* there meanwhile, stamped later.
Apply(c, g) ==
  /\ saver[c][g].pc = "apply"
  /\ LET h == [n |-> computed + 1, at |-> saver[c][g].at, decoded |-> FALSE]
     IN /\ local' = [local EXCEPT ![c] = h]
        /\ backdated' = IF local[c] # NoHealth /\ local[c].at > h.at THEN backdated \cup {c} ELSE backdated \ {c}
        /\ SetSaver(c, g, [pc |-> "get", health |-> h])
  /\ computed' = computed + 1
  /\ UNCHANGED <<clock, active, store, watchVars, restorer, faults>>

\* The ticker saves every endpoint, changed or not.  (Saving what the store
\* holds already ends at the read and is left out.)
SaveAgain(c, g) ==
  /\ saver[c][g].pc = "idle"
  /\ local[c] \notin {NoHealth, store}
  /\ SetSaver(c, g, [pc |-> "get", health |-> local[c]])
  /\ UNCHANGED <<clock, active, computed, store, held, watchVars, restorer, faults>>

\* The stored entry wins when it is newer, and is left alone when identical.
Superseded(existing, h) == existing.at > h.at \/ existing = h

SaveGet(c, g) ==
  /\ saver[c][g].pc = "get"
  /\ LET h == saver[c][g].health
     IN IF store # NoHealth /\ Superseded(store, h)
        THEN SetSaver(c, g, Idle)
        ELSE SetSaver(c, g, [pc |-> "put", health |-> h, expected |-> "now"])
  /\ UNCHANGED <<clock, active, computed, store, held, watchVars, restorer, faults>>

\* Mutant of Compared: the transaction has no condition.
NotCompared(s) == TRUE

\* The condition of the transaction: the key's ModRevision is the expected one.
Compared(s) == s.expected = "now"

\* What the store holds once the entry went through JSON.
Encoded(h) == Decoded(h)

\* The revisions of events matter where a watch can break: only then does the
\* loop use them.
AgedEvent(r) == IF setup.adverse THEN Aged(r) ELSE r

\* A write makes every revision that somebody holds an old one.
AgeRevisions(c, g) ==
  /\ saver' = [d \in Controller |-> [f \in Goroutine |->
       IF d = c /\ f = g THEN Idle
       ELSE IF saver[d][f].pc = "put" THEN [saver[d][f] EXCEPT !.expected = "old"]
       ELSE saver[d][f]]]
  /\ seen' = [d \in Controller |-> Aged(seen[d])]
  /\ slot' = [d \in Controller |-> AgedEvent(slot[d])]
  /\ sender' = [d \in Controller |-> AgedEvent(sender[d])]
  /\ after' = [d \in Controller |-> AgedEvent(after[d])]
  /\ restorer' = [d \in Controller |->
       IF restorer[d].pc = "merge" THEN [restorer[d] EXCEPT !.revision = AgedEvent(@)] ELSE restorer[d]]

\* A lost race goes back to the read.
PutIfModRevision(c, g) ==
  /\ saver[c][g].pc = "put"
  /\ \/ /\ Compared(saver[c][g])
        /\ store' = Encoded(saver[c][g].health)
        /\ AgeRevisions(c, g)
     \/ /\ ~Compared(saver[c][g])
        /\ SetSaver(c, g, [pc |-> "get", health |-> saver[c][g].health])
        /\ UNCHANGED <<store, watchVars, restorer>>
  /\ UNCHANGED <<clock, active, computed, held, faults>>

\* An etcd error ends the save; it is logged.
SaveFails(c, g) ==
  /\ saver[c][g].pc \in {"get", "put"}
  /\ setup.adverse /\ faults < MaxFaults
  /\ faults' = faults + 1
  /\ SetSaver(c, g, Idle)
  /\ UNCHANGED <<clock, active, computed, store, held, watchVars, restorer>>

----------------------------------------------------------------------------
(* The etcd watch and its one-slot channel.                                *)

Deliver(c) ==
  /\ sender[c] = "none"
  /\ seen[c] = "old"
  /\ seen' = [seen EXCEPT ![c] = "now"]
  /\ IF slot[c] = "none" THEN slot' = [slot EXCEPT ![c] = "now"] /\ UNCHANGED sender
     ELSE sender' = [sender EXCEPT ![c] = "now"] /\ UNCHANGED slot
  /\ UNCHANGED <<clock, active, computed, store, held, saver, after, restorer, faults>>

\* The full channel is drained and filled again.  The drain blocks when the
\* consumer has emptied the channel meanwhile.
DrainAndSend(c) ==
  /\ sender[c] # "none"
  /\ slot[c] # "none"
  /\ slot' = [slot EXCEPT ![c] = sender[c]]
  /\ sender' = [sender EXCEPT ![c] = "none"]
  /\ UNCHANGED <<clock, active, computed, store, held, saver, seen, after, restorer, faults>>

\* The watch fails with an event that carries the store's revision, or none;
\* the loop watches again from the largest revision it was told.
WatchBreaks(c) ==
  /\ setup.adverse /\ faults < MaxFaults
  /\ faults' = faults + 1
  /\ sender[c] = "none"
  /\ slot[c] = "none"
  /\ restorer[c].pc = "idle"
  /\ \E r \in Revision :
       /\ after' = [after EXCEPT ![c] = Later(@, r)]
       /\ seen' = [seen EXCEPT ![c] = Later(after[c], r)]
  /\ UNCHANGED <<clock, active, computed, store, held, saver, slot, sender, restorer>>

----------------------------------------------------------------------------
(* watchHealthSnapshots and restoreHealthSnapshot.                         *)

Consume(c) ==
  /\ restorer[c].pc = "idle"
  /\ slot[c] # "none"
  /\ slot' = [slot EXCEPT ![c] = "none"]
  /\ after' = [after EXCEPT ![c] = Later(@, slot[c])]
  /\ restorer' = [restorer EXCEPT ![c] = [pc |-> "load"]]
  /\ UNCHANGED <<clock, active, computed, store, held, saver, seen, sender, faults>>

Fresh(h) == setup.maxAge = 0 \/ clock <= h.at + setup.maxAge

\* What the two filters leave of the stored entry.
Restored == IF store # NoHealth /\ Fresh(store) /\ active THEN store ELSE NoHealth

Load(c) ==
  /\ restorer[c].pc = "load"
  /\ restorer' = [restorer EXCEPT ![c] = [pc |-> "merge", revision |-> "now", health |-> Restored]]
  /\ UNCHANGED <<clock, active, computed, store, held, saver, watchVars, faults>>


\* A health that is the same but for its stamp has its stamp moved, if it is the
\* later one, which makes it the incoming; and stays as it is, monotonic reading
\* included, if the stamp is the same too.
Merged(current, incoming) ==
  IF \/ incoming = NoHealth
     \/ current # NoHealth /\ (current.at > incoming.at \/ Decoded(current) = incoming)
  THEN current ELSE incoming

MergeSnapshot(c) ==
  /\ restorer[c].pc = "merge"
  /\ local' = [local EXCEPT ![c] = Merged(@, restorer[c].health)]
  /\ backdated' = IF local'[c] # NoHealth /\ Decoded(local'[c]) = restorer[c].health
                  THEN backdated \ {c} ELSE backdated
  /\ after' = [after EXCEPT ![c] = Later(@, restorer[c].revision)]
  /\ restorer' = [restorer EXCEPT ![c] = Idle]
  /\ UNCHANGED <<clock, active, computed, store, saver, seen, slot, sender, faults>>

\* The reload failed; the loop waits for the next event.
RestoreFails(c) ==
  /\ restorer[c].pc = "load"
  /\ setup.adverse /\ faults < MaxFaults
  /\ faults' = faults + 1
  /\ restorer' = [restorer EXCEPT ![c] = Idle]
  /\ UNCHANGED <<clock, active, computed, store, held, saver, watchVars>>

----------------------------------------------------------------------------
\* The lease is gone.  A later registration is another epoch, that is,
\* another endpoint.
LeaseExpires ==
  /\ setup.adverse
  /\ active
  /\ active' = FALSE
  /\ UNCHANGED <<clock, computed, store, held, saver, watchVars, restorer, faults>>

\* Mutant of Missing: health that was restored is taken to be listed.
MissingUnlessRestored(h) == ~active /\ h # NoHealth /\ ~h.decoded

\* The registry does not list the endpoint of a health.
Missing(h) == ~active /\ h # NoHealth

Prune(c) ==
  /\ Missing(local[c])
  /\ local' = [local EXCEPT ![c] = NoHealth] /\ backdated' = backdated \ {c}
  /\ UNCHANGED <<clock, active, computed, store, saver, watchVars, restorer, faults>>

\* The process starts again: it restores before it watches and serves.
Restart(c) ==
  /\ setup.adverse /\ faults < MaxFaults
  /\ faults' = faults + 1
  /\ local' = [local EXCEPT ![c] = Restored] /\ backdated' = backdated \ {c}
  /\ saver' = [saver EXCEPT ![c] = [g \in Goroutine |-> Idle]]
  /\ seen' = [seen EXCEPT ![c] = "now"]
  /\ slot' = [slot EXCEPT ![c] = "none"]
  /\ sender' = [sender EXCEPT ![c] = "none"]
  /\ after' = [after EXCEPT ![c] = "now"]
  /\ restorer' = [restorer EXCEPT ![c] = Idle]
  /\ UNCHANGED <<clock, active, computed, store>>

\* Time that only passes matters to the age limit alone.
Advance ==
  /\ setup.maxAge > 0
  /\ clock < MaxTime
  /\ clock' = clock + 1
  /\ UNCHANGED <<active, computed, store, held, saver, watchVars, restorer, faults>>

SaveStep(c, g) == Apply(c, g) \/ SaveGet(c, g) \/ PutIfModRevision(c, g)
WatchStep(c) == Deliver(c) \/ DrainAndSend(c)
RestoreStep(c) == Consume(c) \/ Load(c) \/ MergeSnapshot(c)

Next ==
  /\ \/ Advance
     \/ LeaseExpires
     \/ \E c \in setup.controllers :
          \/ \E g \in setup.goroutines :
               ReadNow(c, g) \/ SaveAgain(c, g) \/ SaveStep(c, g) \/ SaveFails(c, g)
          \/ WatchStep(c) \/ WatchBreaks(c)
          \/ RestoreStep(c) \/ RestoreFails(c)
          \/ Prune(c)
          \/ Restart(c)
  /\ UNCHANGED setup

Spec == Init /\ [][Next]_vars

Deployed(c) == c \in setup.controllers /\ UNCHANGED setup

\* The goroutines of a controller keep running; etcd serves requests and
\* delivers watch events.  A save that lost a race tries again at once and wins
\* one in the end: the others come back with the next report or tick only.
FairSpec ==
  /\ Spec
  /\ \A c \in Controller :
       /\ \A g \in Goroutine :
            /\ WF_vars(Deployed(c) /\ g \in setup.goroutines /\ (SaveStep(c, g) \/ SaveAgain(c, g)))
            /\ SF_vars(Deployed(c) /\ g \in setup.goroutines /\ PutIfModRevision(c, g) /\ Compared(saver[c][g]))
       /\ WF_vars(Deployed(c) /\ WatchStep(c))
       /\ WF_vars(Deployed(c) /\ RestoreStep(c))
       /\ WF_vars(Deployed(c) /\ Prune(c))

----------------------------------------------------------------------------
\* Newest wins: the store never replaces a health by one stamped earlier,
\* whichever saves, lost races, retries and restarts interleave (Save reads,
\* decides and then writes).
NewestWins ==
  [][store # NoHealth => store' # NoHealth /\ store'.at >= store.at]_vars

\* What a controller holds of a registered endpoint is what the store holds.
InStep(c) ==
  \/ ~active
  \/ store = NoHealth /\ local[c] = NoHealth
  \/ store # NoHealth /\ local[c] # NoHealth /\ Decoded(local[c]) = store

Stuck(c) == sender[c] # "none" /\ slot[c] = "none"


\* Health of an endpoint that is not registered any more is forgotten for
\* good, also when a restore raced the expiry.
InactiveForgotten == \A c \in Controller : <>[](active \/ local[c] = NoHealth)
=============================================================================
