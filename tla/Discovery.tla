------------------------------ MODULE Discovery ------------------------------
(***************************************************************************)
(* How a change of the registry or of an endpoint's health reaches the     *)
(* gRPC client of one service: WatchInstances and ListInstances of         *)
(* pkg/controller/registry_service.go, and the resolver of                 *)
(* sdk/go/aegisgrpc/resolver.go with its stream, its polling fallback and  *)
(* ResolveNow.                                                             *)
(*                                                                         *)
(* The registry is the service's instances, each with the revision that    *)
(* wrote it last; the health of a service is its version.  The memory and  *)
(* the file registries count changes; LeaseStoreRegistry, which etcd backs,*)
(* derives a version from the keys it finds.                               *)
(*                                                                         *)
(* Counted versions, the health's among them, are those of one process: a  *)
(* controller that restarts, or the one a client fails over to, has counts *)
(* of its own, which may give another list a version the client has seen.  *)
(*                                                                         *)
(* The goroutines behind the two watch channels are those of RegistryWatch *)
(* and of LeaseStoreRegistry.watch, here one step each, in the behaviours  *)
(* in which they do not block on the channel they drain.                   *)
(* combineInstancesVersion is taken to be injective (63-bit FNV).          *)
(***************************************************************************)
EXTENDS Integers, Sequences, FiniteSetsExt

CONSTANTS Instance,
          Ejecting,                   \* health versions with every instance ejected
          maxWatchFailuresBeforePoll,
          pollTicksBeforeWatchRetry,
          Setup                       \* where to begin, and what happens at most:
                                      \* [etcd, legacy, keys, revision, left], where left is
                                      \* [changes of the registry, health, breaks, resolves,
                                      \* restarts]

ASSUME RetryAssumption ==
  maxWatchFailuresBeforePoll \in Nat \ {0} /\ pollTicksBeforeWatchRetry \in Nat

Event == {"changes", "health", "breaks", "resolves", "restarts"}

ASSUME SetupAssumption ==
  \A setup \in Setup :
    /\ setup.etcd \in BOOLEAN /\ setup.legacy \in BOOLEAN
    /\ setup.revision \in Nat /\ setup.keys \in [Instance -> 0..setup.revision]
    /\ setup.left \in [Event -> Nat]

VARIABLES etcd,       \* the registry is LeaseStoreRegistry
          keys,       \* the revision that wrote each instance, 0 if there is none
          version,    \* the revision of the registry and the version of the health
          process,    \* which controller process counts them
          watch,      \* the channels WatchInstances reads
          stream,     \* the WatchInstances handler
          wire,       \* responses on their way to the resolver
          view,       \* the instancesView each caller is computing
          resolver,   \* the resolver's watch goroutine
          lastVersion,\* and what it shares with ResolveNow: the last version,
          addresses,  \* the view whose addresses gRPC has,
          newest,     \* history: the newest view whose addresses it had,
          remembered, \* and the process that counted lastVersion,
          legacy,     \* whether the controller lacks WatchInstances
          left        \* what may still happen: changes, failures, calls by gRPC

applied == <<lastVersion, addresses, newest, remembered>>
sources == <<etcd, keys, version, process>>
vars == <<sources, watch, stream, wire, view, resolver, applied, legacy, left>>

Source == {"registry", "health"}
\* Who computes a view: the stream's handler, and ListInstances for the
\* resolver's goroutine and for ResolveNow.
Reader == {"stream", "resolver", "now"}
None == <<-1, -1>>
NoKeys == [i \in Instance |-> 0]

\* A view: the registry's instances, its version and the health's that it is
\* stamped with, and the health it was overlaid with.  process and revision
\* are history.
Stamp(v) == <<v.registry, v.health>>
Content(v) == [process |-> v.process, revision |-> v.revision, keys |-> v.keys, overlay |-> v.overlay]
IdleView ==
  [pc |-> "idle", process |-> 0, revision |-> 0, keys |-> NoKeys, registry |-> 0, health |-> 0, overlay |-> 0]
Starting == [IdleView EXCEPT !.pc = "snapshot"]
NoContent == [process |-> -1, revision |-> -1, keys |-> NoKeys, overlay |-> -1]

NoWatch == [status |-> "nil", announced |-> 0, slot |-> FALSE]
NoStream == [pc |-> "none", reason |-> "start", lastSent |-> None, ticker |-> FALSE]

View ==
  [pc : {"idle", "snapshot", "version", "overlay", "ready"}, process : Nat, revision : Nat, keys : [Instance -> Nat],
   registry : Nat, health : Nat, overlay : Nat]
Contents == [process : Int, revision : Int, keys : [Instance -> Nat], overlay : Int]
Stamps == Int \X Int

TypeOK ==
  /\ etcd \in BOOLEAN /\ legacy \in BOOLEAN
  /\ process \in Nat /\ remembered \in Int
  /\ version \in [Source -> Nat]
  /\ keys \in [Instance -> 0..version["registry"]]
  /\ watch \in [Source -> [status : {"nil", "open", "closed"}, announced : Nat, slot : BOOLEAN]]
  /\ \A s \in Source : watch[s].announced <= version[s]
  /\ stream \in [pc : {"none", "view", "select"}, reason : {"start", "update", "tick"},
                 lastSent : Stamps, ticker : BOOLEAN]
  /\ wire \in Seq(View)
  /\ view \in [Reader -> View]
  /\ resolver \in [pc : {"resolve", "open", "recv", "closed"},
                   failures : 0..maxWatchFailuresBeforePoll, polls : 0..pollTicksBeforeWatchRetry + 1]
  /\ lastVersion \in Stamps /\ addresses \in Contents /\ newest \in Contents
  /\ left \in [Event -> Nat]

\* Build resolves once before it starts the goroutine.
Init ==
  /\ \E setup \in Setup :
       /\ etcd = setup.etcd /\ legacy = setup.legacy
       /\ keys = setup.keys /\ version = [registry |-> setup.revision, health |-> 0]
       /\ left = setup.left
  /\ process = 0 /\ remembered = -1
  /\ watch = [s \in Source |-> NoWatch]
  /\ stream = NoStream
  /\ wire = <<>>
  /\ view = [r \in Reader |-> IF r = "resolver" THEN Starting ELSE IdleView]
  /\ resolver = [pc |-> "resolve", failures |-> 0, polls |-> 0]
  /\ lastVersion = None
  /\ addresses = NoContent
  /\ newest = NoContent

Spend(what) == left[what] > 0 /\ left' = [left EXCEPT ![what] = @ - 1]

\* Register, Heartbeat, and the end of a lease.
RegistryChanges ==
  /\ Spend("changes")
  /\ version' = [version EXCEPT !["registry"] = @ + 1]
  /\ \E i \in Instance :
       \/ keys' = [keys EXCEPT ![i] = version'["registry"]]
       \/ keys[i] # 0 /\ keys' = [keys EXCEPT ![i] = 0]
  /\ UNCHANGED <<etcd, process, watch, stream, wire, view, resolver, applied, legacy>>

HealthChanges ==
  /\ Spend("health")
  /\ version' = [version EXCEPT !["health"] = @ + 1]
  /\ UNCHANGED <<etcd, process, keys, watch, stream, wire, view, resolver, applied, legacy>>

Break == Spend("breaks")

----------------------------------------------------------------------------
(* instancesView: the snapshot, then the health version, then the health   *)
(* of each instance.                                                       *)

\* Mutant of serviceVersion: the smallest revision of a key.
OldestVersion(revisions) == IF revisions = {} THEN version["registry"] ELSE Min(revisions)

serviceVersion(revisions) == IF revisions = {} THEN version["registry"] ELSE Max(revisions)

\* Snapshot, of LeaseStoreRegistry and of the others.
SnapshotVersion ==
  IF etcd THEN serviceVersion({ keys[i] : i \in Instance } \ {0}) ELSE version["registry"]

registrySnapshot(r) ==
  /\ view[r].pc = "snapshot"
  /\ view' = [view EXCEPT ![r].pc = "version", ![r].registry = SnapshotVersion,
                          ![r].process = process, ![r].revision = version["registry"],
                          ![r].keys = keys]
  /\ UNCHANGED <<sources, watch, stream, wire, resolver, applied, legacy, left>>

healthVersion(r) ==
  /\ view[r].pc = "version"
  /\ view' = [view EXCEPT ![r].pc = "overlay", ![r].health = version["health"]]
  /\ UNCHANGED <<sources, watch, stream, wire, resolver, applied, legacy, left>>

Overlaid(v) == [v EXCEPT !.pc = "ready", !.overlay = version["health"]]

overlayHealth(r) ==
  /\ view[r].pc = "overlay"
  /\ view' = [view EXCEPT ![r] = Overlaid(view[r])]
  /\ UNCHANGED <<sources, watch, stream, wire, resolver, applied, legacy, left>>

ViewStep(r) == registrySnapshot(r) \/ healthVersion(r) \/ overlayHealth(r)

----------------------------------------------------------------------------
(* The watch goroutines and the WatchInstances handler.                    *)

\* A goroutine announces a version newer than the last it announced; etcd's
\* announces the revision of every change, that of a deletion too.
Announce(s) ==
  /\ watch[s].status = "open" /\ version[s] > watch[s].announced
  /\ watch' = [watch EXCEPT ![s].announced = version[s], ![s].slot = TRUE]
  /\ UNCHANGED <<sources, stream, wire, view, resolver, applied, legacy, left>>

\* The etcd registry's watch closes its channel on an error; the health
\* manager's lasts as long as the stream.
WatchCloses ==
  /\ Break
  /\ watch["registry"].status = "open"
  /\ watch' = [watch EXCEPT !["registry"].status = "closed"]
  /\ UNCHANGED <<sources, stream, wire, view, resolver, applied, legacy>>

WatchFrom(after) == [status |-> "open", announced |-> after, slot |-> FALSE]

\* Mutant of WatchesFrom: the watches start from what is published by now.
WatchesFromNow(v) == [registry |-> WatchFrom(version["registry"]), health |-> WatchFrom(version["health"])]

\* The watches start from the versions the client was sent.
WatchesFrom(v) == [registry |-> WatchFrom(v.registry), health |-> WatchFrom(v.health)]

\* The missing watches are started, or the registry's cannot be.
Restarted(v) ==
  { [s \in Source |-> IF watch[s].status = "nil" /\ s \in tried THEN WatchesFrom(v)[s] ELSE watch[s]] :
      tried \in {Source} \cup (IF left.breaks > 0 THEN {{"health"}} ELSE {}) }

\* sendInstancesIfChanged, and what WatchInstances does after it.
sendInstancesIfChanged ==
  LET v == view["stream"]
      after == IF stream.reason = "update" THEN {watch} ELSE Restarted(v)
  IN  /\ v.pc = "ready"
      /\ wire' = IF Stamp(v) = stream.lastSent THEN wire ELSE Append(wire, v)
      /\ view' = [view EXCEPT !["stream"] = IdleView]
      /\ watch' \in after
      /\ IF watch'["registry"].status = "nil" /\ stream.reason # "update" THEN Break ELSE UNCHANGED left
      /\ stream' = [stream EXCEPT !.pc = "select", !.lastSent = Stamp(v),
                                  !.ticker = @ \/ \E s \in Source : watch'[s].status = "nil"]
      /\ UNCHANGED <<sources, resolver, applied, legacy>>

ViewFor(reason) ==
  /\ stream' = [stream EXCEPT !.pc = "view", !.reason = reason]
  /\ view' = [view EXCEPT !["stream"] = Starting]
  /\ UNCHANGED <<sources, wire, resolver, applied, legacy, left>>

Update(s) ==
  /\ stream.pc = "select" /\ watch[s].slot
  /\ watch' = [watch EXCEPT ![s].slot = FALSE]
  /\ ViewFor("update")

Tick ==
  /\ stream.pc = "select" /\ stream.ticker
  /\ ViewFor("tick")
  /\ UNCHANGED watch

\* Mutant of Ticking: the fallback ticker is not started.
NotTicking == stream.ticker

Ticking == TRUE

WatchClosed ==
  /\ stream.pc = "select"
  /\ watch["registry"].status = "closed" /\ ~watch["registry"].slot
  /\ watch' = [watch EXCEPT !["registry"] = NoWatch]
  /\ stream' = [stream EXCEPT !.ticker = Ticking]
  /\ UNCHANGED <<sources, wire, view, resolver, applied, legacy, left>>

HandlerStep == ViewStep("stream") \/ sendInstancesIfChanged \/ Tick \/ WatchClosed \/ \E s \in Source : Update(s)

----------------------------------------------------------------------------
(* The resolver.                                                           *)

NotOlder(a, b) ==
  a.process > b.process \/ (a.process = b.process /\ a.revision >= b.revision /\ a.overlay >= b.overlay)

Routable(content) == IF content.overlay \in Ejecting THEN NoKeys ELSE content.keys

\* The balancer takes an empty list but answers with an error, after which
\* the version is not remembered.
applyInstancesResponse(v) ==
  IF Stamp(v) = lastVersion
  THEN UNCHANGED applied
  ELSE /\ addresses' = Content(v)
       /\ IF Routable(v) = NoKeys
          THEN UNCHANGED <<lastVersion, remembered>>
          ELSE lastVersion' = Stamp(v) /\ remembered' = v.process
       /\ newest' = IF NotOlder(Content(v), newest) THEN Content(v) ELSE newest

resetWatchRetry(r) == [r EXCEPT !.failures = 0, !.polls = 0]

\* After a resolve: poll on, go back to the stream, fall back to polling, or
\* back off and open the stream again.  Without WatchInstances, poll for good.
AfterResolve(r) ==
  CASE r.polls > 1 -> [r EXCEPT !.polls = @ - 1]
    [] r.polls = 1 /\ ~legacy -> [resetWatchRetry(r) EXCEPT !.pc = "open"]
    [] r.polls = 0 /\ r.failures >= maxWatchFailuresBeforePoll ->
         [r EXCEPT !.polls = pollTicksBeforeWatchRetry + 1]
    [] r.polls = 0 /\ r.failures < maxWatchFailuresBeforePoll -> [r EXCEPT !.pc = "open"]
    [] OTHER -> r

Resolving(r) == [view EXCEPT !["resolver"] = IF r.pc = "resolve" THEN Starting ELSE IdleView]

\* resolve, of the goroutine,
Resolved ==
  /\ view["resolver"].pc = "ready"
  /\ applyInstancesResponse(view["resolver"])
  /\ resolver' = AfterResolve(resolver)
  /\ view' = Resolving(resolver')
  /\ UNCHANGED <<sources, watch, stream, wire, legacy, left>>

ResolveFails ==
  /\ Break
  /\ view["resolver"].pc # "idle"
  /\ resolver' = AfterResolve(resolver)
  /\ view' = Resolving(resolver')
  /\ UNCHANGED <<sources, watch, stream, wire, applied, legacy>>

\* and of gRPC, at any time.
ResolveNow ==
  /\ Spend("resolves")
  /\ view["now"].pc = "idle" /\ resolver.pc # "closed"
  /\ view' = [view EXCEPT !["now"] = Starting]
  /\ UNCHANGED <<sources, watch, stream, wire, resolver, applied, legacy>>

ResolvedNow ==
  /\ view["now"].pc = "ready"
  /\ applyInstancesResponse(view["now"])
  /\ view' = [view EXCEPT !["now"] = IdleView]
  /\ UNCHANGED <<sources, watch, stream, wire, resolver, legacy, left>>

\* watchStream: the stream opens and the retries are reset.
OpenStream ==
  /\ resolver.pc = "open" /\ ~legacy
  /\ resolver' = [resetWatchRetry(resolver) EXCEPT !.pc = "recv"]
  /\ stream' = [NoStream EXCEPT !.pc = "view", !.lastSent = lastVersion]
  /\ view' = [view EXCEPT !["stream"] = Starting]
  /\ UNCHANGED <<sources, watch, wire, applied, legacy, left>>

Unimplemented ==
  /\ resolver.pc = "open" /\ legacy
  /\ resolver' = [resolver EXCEPT !.pc = "resolve", !.polls = 1]
  /\ view' = Resolving(resolver')
  /\ UNCHANGED <<sources, watch, stream, wire, applied, legacy, left>>

Recv ==
  /\ resolver.pc = "recv" /\ wire # <<>>
  /\ applyInstancesResponse(Head(wire))
  /\ wire' = Tail(wire)
  /\ UNCHANGED <<sources, watch, stream, view, resolver, legacy, left>>

\* The watches end with the stream's context.
Cancelled == [s \in Source |-> NoWatch]

\* The stream cannot be opened, or ends: the network fails, or the handler's
\* instancesView does.
StreamFails ==
  /\ Break
  /\ resolver.pc \in {"open", "recv"} /\ ~legacy
  /\ resolver' = [resolver EXCEPT !.pc = "resolve", !.failures = @ + 1]
  /\ stream' = NoStream
  /\ watch' = Cancelled
  /\ wire' = <<>>
  /\ view' = [view EXCEPT !["resolver"] = Starting, !["stream"] = IdleView]
  /\ UNCHANGED <<sources, applied, legacy>>

\* What a new process finds: etcd's keys as they are; or what a file brought
\* back, record by record, and the log on top of it, or nothing, counted anew.
Registered == { i \in Instance : keys[i] # 0 }
Recount(kept) ==
  [i \in Instance |-> IF i \in kept THEN Cardinality({ j \in kept : keys[j] <= keys[i] }) ELSE 0]

Found ==
  IF etcd THEN {[keys |-> keys, revision |-> version["registry"]]}
  ELSE UNION { { [keys |-> Recount(kept), revision |-> n] : n \in Cardinality(kept)..version["registry"] } :
                 kept \in {{}, Registered} }

\* Its calls fail, but for those whose answer is on its way.
Disconnected(r) ==
  CASE r.pc \in {"open", "recv"} /\ ~legacy -> [r EXCEPT !.pc = "resolve", !.failures = @ + 1]
    [] r.pc = "resolve" /\ view["resolver"].pc # "ready" -> AfterResolve(r)
    [] OTHER -> r

\* The controller restarts, or the client fails over to another one, whose
\* health manager has its own count: 0, or what it merged and judged so far.
ControllerChanges ==
  /\ Spend("restarts")
  /\ resolver.pc # "closed"
  /\ process' = process + 1
  /\ \E found \in Found, count \in 0..version["health"] + 1 :
       keys' = found.keys /\ version' = [registry |-> found.revision, health |-> count]
  /\ resolver' = Disconnected(resolver)
  /\ stream' = NoStream
  /\ watch' = Cancelled
  /\ wire' = <<>>
  /\ view' = [r \in Reader |->
                CASE view[r].pc = "ready" /\ r # "stream" -> view[r]
                  [] r = "resolver" /\ resolver'.pc = "resolve" -> Starting
                  [] OTHER -> IdleView]
  /\ UNCHANGED <<etcd, applied, legacy>>

\* Close cancels the context of the goroutine and of every call.
Close ==
  /\ resolver.pc # "closed"
  /\ resolver' = [resolver EXCEPT !.pc = "closed"]
  /\ stream' = NoStream
  /\ watch' = Cancelled
  /\ wire' = <<>>
  /\ view' = [r \in Reader |-> IdleView]
  /\ UNCHANGED <<sources, applied, legacy, left>>

ResolverStep == ViewStep("resolver") \/ Resolved \/ OpenStream \/ Unimplemented \/ Recv

Next ==
  \/ RegistryChanges \/ HealthChanges
  \/ \E s \in Source : Announce(s)
  \/ HandlerStep \/ WatchCloses
  \/ ResolverStep \/ ResolveFails \/ StreamFails \/ ControllerChanges
  \/ ResolveNow \/ ViewStep("now") \/ ResolvedNow
  \/ Close

Spec == Init /\ [][Next]_vars

\* The goroutines and handlers run on and timers fire.
FairSpec ==
  /\ Spec
  /\ \A s \in Source : WF_vars(Announce(s)) /\ WF_vars(Update(s))
  /\ WF_vars(ViewStep("stream") \/ sendInstancesIfChanged)
  /\ WF_vars(Tick) /\ WF_vars(WatchClosed)
  /\ WF_vars(ResolverStep)
  /\ WF_vars(ViewStep("now") \/ ResolvedNow)

----------------------------------------------------------------------------
Current == <<SnapshotVersion, version["health"]>>

\* The handler rests only when the client has been sent everything: if both
\* watches are up, have announced what there is and have nothing pending, the
\* last view sent carries the current snapshot's version and health.
NothingMissed ==
  (/\ stream.pc = "select"
   /\ \A s \in Source : watch[s].status = "open" /\ ~watch[s].slot /\ watch[s].announced >= version[s])
  => stream.lastSent = Current

\* gRPC had the addresses of a newer view.
Overtaken == ~NotOlder(addresses, newest)

\* Versions are compared for equality: neither ListInstances nor the stream has
\* anything for the client.
Hidden ==
  \/ lastVersion = Current
  \/ stream.pc # "none" /\ stream.lastSent = Current /\ wire = <<>>

\* The version the client remembers is another process's count.
Recounted == remembered # process

\* Versions that are equal hide deletions only: a client for whom there is
\* nothing new knows every instance that is registered, as it was last written.
\* With etcd, it may not know that another one is gone, until one that is left
\* sends a heartbeat.  The registries that count versions make this promise for
\* one process: after a restart a count that the client remembers from before
\* may hide anything.
OnlyDeletionsHidden ==
  Hidden /\ ~Overtaken /\ (Recounted => etcd) =>
    /\ \A i \in Instance : keys[i] \in {0, addresses.keys[i]}
    /\ ~etcd => keys = addresses.keys

\* Discovery converges: when the sources stop changing, gRPC ends with the
\* addresses of the current snapshot and health, whatever streams, watches
\* and calls failed and however often the controller was replaced, but for what
\* equal versions hide: with etcd deletions (OnlyDeletionsHidden); and with a
\* new process everything, for good, if it counts to the very version of another
\* process that the client remembers.  It also may not if a ListInstances that
\* the stream had overtaken was applied last.
AddressesCatchUp ==
  <>[](\/ resolver.pc = "closed" \/ Overtaken
       \/ Hidden /\ Recounted
       \/ /\ addresses.process = process /\ addresses.overlay = version["health"]
          /\ Hidden \/ Routable(addresses) = Routable([keys |-> keys, overlay |-> version["health"]]))
=============================================================================
