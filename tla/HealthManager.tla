--------------------------- MODULE HealthManager ---------------------------
(***************************************************************************)
(* pkg/fault/manager.go with the controller code that drives it: telemetry *)
(* reports (controller/telemetry_service.go), the health ticker and the    *)
(* pruner (cmd/controller/main.go), hot-applied policies                   *)
(* (controller/policy_hot_apply.go), and the health that other controllers *)
(* share through etcd (HealthReplication).                                 *)
(*                                                                         *)
(* The manager's lock makes Update, Tick, PruneMissing, MergeSnapshot and  *)
(* the replacement of configurations atomic, but each caller reads the     *)
(* clock or the registry before it asks for the lock, and may find it      *)
(* changed.                                                                *)
(* An address changes only with a registration, so the registration epoch  *)
(* stands for both parts of an endpoint's identity.  Epochs are numbered   *)
(* in the order the registry grants them.  A report is about one endpoint, *)
(* with one row per method; Update treats endpoints separately.            *)
(***************************************************************************)
EXTENDS StateMachine, Sequences

CONSTANTS Service, ID,     \* service names, instance IDs
          Reporter,        \* concurrent ReportEndpointStats calls
          Base,            \* the controller's state machine configuration
          Overrides,       \* the per-service configurations policies ask for
          Score, Rate,     \* slow scores and success rates a report can carry
          Shared,          \* health that other controllers computed, with their thresholds
          TickPeriod,      \* the interval of the health ticker
          MaxRows,         \* bound: methods per report
          MaxTime,         \* bound: the clock stops there
          MaxEpoch,        \* bound: registrations
          MaxInputs,       \* bound: reports and merges
          MaxReconfigs,    \* bound: policy changes
          NoHealth         \* stands for a missing map entry

ASSUME ConfigAssumption == Effective(Base) /\ Overrides \subseteq Config
ASSUME SampleAssumption == Score \subseteq Nat /\ Rate \subseteq Nat
\* A transition records the time of an ejection and clears the counts, and no
\* windows are counted while the endpoint is EJECTED or PROBING.
Settled(h) ==
  /\ h.state = "EJECTED" => h.ejectedAt > 0
  /\ h.state \in {"EJECTED", "PROBING"} => h.slow = 0 /\ h.eject = 0

ASSUME SharedAssumption == Shared \subseteq EndpointHealth /\ \A h \in Shared : Settled(h)
ASSUME TimeAssumption == MaxTime \in Nat \ {0} /\ TickPeriod \in Nat
ASSUME BoundAssumption == MaxRows \in Nat /\ MaxEpoch \in Nat
ASSUME NoHealthAssumption == NoHealth \notin EndpointHealth

VARIABLES clock,        \* what m.now() returns
          epochs,       \* registrations granted so far
          registered,   \* the epoch the registry lists for an instance, or 0
          health,       \* m.health
          override,     \* m.serviceStateMachines
          revision,     \* m.revision
          version,      \* m.serviceRevisions
          reporter,     \* local state of each report
          ticker,       \* local state of the tickHealth goroutine
          pruner,       \* local state of the sweepExpired goroutine
          inputs, reconfigs,   \* how many there were
          blamed,       \* history: the owners some report gave a positive score,
          adopted       \* and the keys whose health was merged and not judged since

registryVars == <<epochs, registered>>
managerVars == <<health, revision, version>>
history == <<blamed, adopted>>
vars == <<clock, registryVars, managerVars, override, reporter, ticker, pruner,
          inputs, reconfigs, history>>

Key == Service \X ID

Rows == UNION { [1..n -> Rate] : n \in 1..MaxRows }

Idle == [pc |-> "idle"]
Resolved ==
  [pc : {"resolved"}, key : Key, epoch : 1..MaxEpoch, rates : Rows, score : Score, since : 1..MaxTime]
Noted == [pc : {"list"}, services : SUBSET Service]
Listed == [pc : {"lock"}, retain : SUBSET (Key \X Nat)]

TypeOK ==
  /\ clock \in 1..MaxTime
  /\ epochs \in 0..MaxEpoch
  /\ registered \in [Key -> 0..MaxEpoch]
  /\ health \in [Key -> EndpointHealth \cup {NoHealth}]
  /\ override \in [Service -> Overrides]
  /\ revision \in Nat
  /\ version \in [Service -> 0..revision]
  /\ reporter \in [Reporter -> {Idle} \cup Resolved]
  /\ ticker \in 1..MaxTime
  /\ pruner \in {Idle} \cup Noted \cup Listed

Init ==
  /\ clock = 1
  /\ epochs = 0
  /\ registered = [k \in Key |-> 0]
  /\ health = [k \in Key |-> NoHealth]
  /\ override \in [Service -> Overrides]
  /\ revision = 0
  /\ version = [s \in Service |-> 0]
  /\ reporter = [c \in Reporter |-> Idle]
  /\ ticker = 1
  /\ pruner = Idle
  /\ inputs = 0
  /\ reconfigs = 0
  /\ blamed = {}
  /\ adopted = {}

----------------------------------------------------------------------------
(* What the manager does under its lock.                                   *)

StateMachineConfig(s) == ResolveConfig(Base, override[s])

\* Install a new health map, and give the services that changed a new revision.
Bump(newHealth, changed) ==
  /\ health' = newHealth
  /\ revision' = IF changed = {} THEN revision ELSE revision + 1
  /\ version' = [s \in Service |-> IF s \in changed THEN revision + 1 ELSE version[s]]

\* updatedAt moves only when something else did.
Stamped(before, after, now) ==
  IF before # NoHealth /\ after = before THEN before ELSE [after EXCEPT !.updatedAt = now]

\* Mutant of OwnHealth: a new owner takes over the old one's state.
InheritedHealth(h, epoch) == IF h = NoHealth THEN NewEndpointHealth(epoch) ELSE [h EXCEPT !.epoch = epoch]

\* Another epoch is another owner, and starts afresh.
OwnHealth(h, epoch) == IF h = NoHealth \/ h.epoch # epoch THEN NewEndpointHealth(epoch) ELSE h

\* One sample of an Update: acc holds the endpoint and whether it changed.
Sampled(cfg, report, now, acc, rate) ==
  LET after == Apply(cfg, OwnHealth(acc.health, report.epoch), now, report.score, rate)
  IN [health  |-> Stamped(acc.health, after, now),
      changed |-> acc.changed \/ acc.health = NoHealth \/ after # acc.health]

Updated(report, now) ==
  LET after[n \in 0..Len(report.rates)] ==
        IF n = 0 THEN [health |-> health[report.key], changed |-> FALSE]
        ELSE Sampled(StateMachineConfig(report.key[1]), report, now, after[n - 1], report.rates[n])
  IN after[Len(report.rates)]

\* The endpoint after a tick: its last score is applied once more.
Ticked(k, now) ==
  IF health[k] = NoHealth THEN NoHealth
  ELSE Stamped(health[k], Apply(StateMachineConfig(k[1]), health[k], now, health[k].score, 1), now)

\* Mutant of ChangedServices: a tick or a prune announces nothing.
NoServices(newHealth) == {}

ChangedServices(newHealth) == { k[1] : k \in { j \in Key : newHealth[j] # health[j] } }

----------------------------------------------------------------------------
(* The registry, as far as the manager's callers see it.                   *)

Register(k) ==
  /\ epochs < MaxEpoch
  /\ epochs' = epochs + 1
  /\ registered' = [registered EXCEPT ![k] = epochs + 1]
  /\ UNCHANGED <<clock, managerVars, override, reporter, ticker, pruner, inputs, reconfigs, history>>

LeaseExpires(k) ==
  /\ registered[k] # 0
  /\ registered' = [registered EXCEPT ![k] = 0]
  /\ UNCHANGED <<clock, epochs, managerVars, override, reporter, ticker, pruner, inputs, reconfigs, history>>

----------------------------------------------------------------------------
(* ReportEndpointStats: resolve the sample against the registry, then      *)
(* update.  A sample that names another epoch than the registered one is   *)
(* dropped.  Update may have waited for the lock since it read the clock.  *)

ReportResolve(c, k, rates, score) ==
  /\ reporter[c].pc = "idle"
  /\ inputs < MaxInputs
  /\ registered[k] # 0
  /\ inputs' = inputs + 1
  /\ reporter' = [reporter EXCEPT ![c] =
       [pc |-> "resolved", key |-> k, epoch |-> registered[k], rates |-> rates, score |-> score,
        since |-> clock]]
  /\ UNCHANGED <<clock, registryVars, managerVars, override, ticker, pruner, reconfigs, history>>

Update(c) ==
  /\ reporter[c].pc = "resolved"
  /\ \E now \in reporter[c].since..clock :
       LET r == reporter[c]
           u == Updated(r, now)
       IN Bump([health EXCEPT ![r.key] = u.health], IF u.changed THEN {r.key[1]} ELSE {})
  /\ blamed' = IF reporter[c].score > 0 THEN blamed \cup {<<reporter[c].key, reporter[c].epoch>>}
               ELSE blamed
  /\ adopted' = adopted \ {reporter[c].key}
  /\ reporter' = [reporter EXCEPT ![c] = Idle]
  /\ UNCHANGED <<clock, registryVars, override, ticker, pruner, inputs, reconfigs>>

----------------------------------------------------------------------------
(* tickHealth fires when TickPeriod has passed since it last fired.        *)

TickHealth ==
  /\ \E now \in (ticker + TickPeriod)..clock :
       LET newHealth == [k \in Key |-> Ticked(k, now)]
       IN /\ Bump(newHealth, ChangedServices(newHealth))
          /\ ticker' = now
  /\ adopted' = {}
  /\ UNCHANGED <<clock, registryVars, override, reporter, pruner, inputs, reconfigs, blamed>>

----------------------------------------------------------------------------
(* pruneHealthMissingFromRegistry: note the services with health, list     *)
(* them, prune.  Registered instances of services not noted are missing    *)
(* from the list.                                                          *)

PruneSnapshot ==
  /\ pruner.pc = "idle"
  /\ \E k \in Key : health[k] # NoHealth
  /\ pruner' = [pc |-> "list", services |-> { k[1] : k \in { j \in Key : health[j] # NoHealth } }]
  /\ UNCHANGED <<clock, registryVars, managerVars, override, reporter, ticker, inputs, reconfigs, history>>

PruneList ==
  /\ pruner.pc = "list"
  /\ pruner' = [pc |-> "lock",
                retain |-> { <<k, registered[k]>> : k \in { j \in Key : j[1] \in pruner.services } }]
  /\ UNCHANGED <<clock, registryVars, managerVars, override, reporter, ticker, inputs, reconfigs, history>>

PruneMissing ==
  /\ pruner.pc = "lock"
  /\ LET newHealth == [k \in Key |-> IF health[k] # NoHealth /\ <<k, health[k].epoch>> \in pruner.retain
                                     THEN health[k] ELSE NoHealth]
     IN Bump(newHealth, ChangedServices(newHealth))
  /\ pruner' = Idle
  /\ UNCHANGED <<clock, registryVars, override, reporter, ticker, inputs, reconfigs, history>>

----------------------------------------------------------------------------
(* MergeSnapshot, of what is restored at the start and whenever the store  *)
(* changes: entries of registrations that were listed when it was loaded,  *)
(* stamped when they were computed, or now if they carry no time.  What is *)
(* newer here stays; what differs in its stamp only is stamped anew and    *)
(* not announced.  The reports behind an entry went to another controller. *)

Stored(h, epoch, at) == [h EXCEPT !.epoch = epoch, !.updatedAt = at]
Loaded == { Stored(h, epoch, at) : h \in Shared, epoch \in 1..epochs, at \in 1..clock }

Older(k, h) == health[k] = NoHealth \/ health[k].updatedAt <= h.updatedAt
EqualIgnoringUpdatedAt(k, h) == health[k] # NoHealth /\ h = [health[k] EXCEPT !.updatedAt = h.updatedAt]

Merge(snapshot) ==
  LET merged == { k \in DOMAIN snapshot : Older(k, snapshot[k]) }
      new    == { k \in merged : ~EqualIgnoringUpdatedAt(k, snapshot[k]) }
  IN  /\ Bump([k \in Key |-> IF k \in merged THEN snapshot[k] ELSE health[k]], { k[1] : k \in new })
      /\ blamed' = blamed \cup
           { <<k, snapshot[k].epoch>> : k \in { j \in new : snapshot[j].score > 0 \/ snapshot[j].state # "HEALTHY" } }
      /\ adopted' = adopted \cup new

MergeSnapshot ==
  /\ inputs < MaxInputs
  /\ inputs' = inputs + 1
  /\ \E listed \in SUBSET Key : \E snapshot \in [listed -> Loaded] : Merge(snapshot)
  /\ UNCHANGED <<clock, registryVars, override, reporter, ticker, pruner, reconfigs>>

----------------------------------------------------------------------------
(* Policies.  A changed configuration starts the counts of its service     *)
(* again, and gives the service a new revision.                            *)

\* Mutant of CountersReset: counts gathered under the old thresholds stay.
CountersKept(h, now) == h

CountersReset(h, now) ==
  IF h = NoHealth \/ (h.slow = 0 /\ h.eject = 0) THEN h
  ELSE [h EXCEPT !.slow = 0, !.eject = 0, !.updatedAt = now]

ApplyPolicies(newOverride) ==
  /\ reconfigs < MaxReconfigs
  /\ reconfigs' = reconfigs + 1
  /\ override' = newOverride
  /\ LET changed == { s \in Service : ResolveConfig(Base, newOverride[s]) # StateMachineConfig(s) }
     IN /\ Bump([k \in Key |-> IF k[1] \in changed THEN CountersReset(health[k], clock) ELSE health[k]],
                changed)
        /\ adopted' = { k \in adopted : k[1] \notin changed }
  /\ UNCHANGED <<clock, registryVars, reporter, ticker, pruner, inputs, blamed>>

ReplaceServiceStateMachineConfigs == \E o \in [Service -> Overrides] : ApplyPolicies(o)

SetServiceStateMachineConfig ==
  \E s \in Service, o \in Overrides : ApplyPolicies([override EXCEPT ![s] = o])

----------------------------------------------------------------------------
Advance ==
  /\ clock < MaxTime
  /\ clock' = clock + 1
  /\ UNCHANGED <<registryVars, managerVars, override, reporter, ticker, pruner, inputs, reconfigs, history>>

Next ==
  \/ Advance
  \/ \E k \in Key : Register(k) \/ LeaseExpires(k)
  \/ \E c \in Reporter :
       \/ \E k \in Key, rates \in Rows, score \in Score : ReportResolve(c, k, rates, score)
       \/ Update(c)
  \/ TickHealth
  \/ PruneSnapshot
  \/ PruneList
  \/ PruneMissing
  \/ MergeSnapshot
  \/ ReplaceServiceStateMachineConfigs
  \/ SetServiceStateMachineConfig

Spec == Init /\ [][Next]_vars

----------------------------------------------------------------------------
\* Blame is never inherited: an endpoint is DEGRADED, EJECTED or PROBING only
\* if a report about this very registration, to this controller or to the one
\* whose health was merged, carried a positive score, whatever the order of
\* reports, re-registrations, ticks and merges.
NoInheritedBlame ==
  \A k \in Key : health[k] # NoHealth /\ health[k].state # "HEALTHY"
    => <<k, health[k].epoch>> \in blamed

\* No endpoint is owed a transition: under the configuration in force now,
\* counts that reach the window threshold have already moved the endpoint,
\* except for what MergeSnapshot took over from a controller with other
\* thresholds: that may stand until the next report or tick judges it.
NoTransitionOwed ==
  \A k \in Key \ adopted : health[k] # NoHealth =>
    LET windows == StateMachineConfig(k[1]).windows
    IN /\ health[k].state = "HEALTHY" => health[k].slow < windows
       /\ health[k].eject < windows

\* What discovery overlays on the instances of a service.
View(s) ==
  { <<k, health[k].epoch, health[k].state>> : k \in { j \in Key : j[1] = s /\ health[j] # NoHealth } }

\* Watchers compare versions only: a view that changes gets a larger version,
\* and a version never goes back.
VersionAnnouncesView ==
  [][\A s \in Service :
       /\ version'[s] >= version[s]
       /\ View(s)' # View(s) => version'[s] > version[s]]_vars

\* No ejection outlives the first tick to fire after its duration, under the
\* configuration in force at that tick.
EjectionsEnd ==
  [][TickHealth => \A k \in Key :
       health'[k] # NoHealth /\ health'[k].state = "EJECTED"
         => ticker' - health'[k].ejectedAt < StateMachineConfig(k[1]).duration]_vars
=============================================================================
