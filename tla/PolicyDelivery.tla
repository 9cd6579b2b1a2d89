--------------------------- MODULE PolicyDelivery ---------------------------
(***************************************************************************)
(* A policy on its way from the operator to the calls it governs: the      *)
(* source and the controller's cache (PolicyStore), WatchPolicy of         *)
(* pkg/controller/policy_service.go, the watcher of the Go SDK (policy.go) *)
(* and its calls (DynamicRetry); and to the health manager, through        *)
(* RunPolicyHotApplyLoop of pkg/controller/policy_hot_apply.go.            *)
(***************************************************************************)
EXTENDS PolicyStore, DynamicRetry

CONSTANTS Setup          \* what to consider: see setup

ASSUME SnapshotAssumption ==
  Deleted # Bad /\ Bad \notin Snapshot /\ \A s \in Snapshot : IsSettings(s)
ASSUME SetupAssumption ==
  Setup \subseteq [backend : {"file", "etcd"}, dial : Retry, calls : SUBSET Call, changes : Nat, breaks : Nat]
ASSUME ReloaderAssumption == {"stream", "hot"} \subseteq Reloader

VARIABLES setup,         \* [backend, dial: the dial options, calls: who calls,
                         \*  changes, breaks: bounds]
          stream,        \* the handler of WatchPolicy: [pc, last], last being lastRevision
          wire,          \* snapshots sent and not received
          applied,       \* the policy whose outlier settings the health manager has
          breaks         \* failures so far

vars == <<store, retryVars, setup, stream, wire, applied, breaks>>

deletedPolicyRevision == -1
Down == [pc |-> "down", last |-> 0]

\* A snapshot with nothing but the service's name.
Tombstone == [retry |-> [enabled |-> FALSE, max |-> 0], methods |-> <<>>]

SentRevision == Revisions \cup {deletedPolicyRevision}

TypeOK ==
  /\ setup \in Setup
  /\ StoreTypeOK
  /\ RetryTypeOK
  /\ policy = NoPolicy \/ policy.rev \in SentRevision
  /\ stream \in [pc : {"down", "wait", "reload"}, last : SentRevision \cup {0}]
  /\ wire \in Seq([snapshot : Snapshot \cup {Tombstone}, rev : SentRevision])
  /\ applied \in Content \ {Bad}
  /\ breaks \in Nat

\* Dialling asks for the policy once and goes on without it if that fails; the
\* controller applies what it loaded before it serves.
Init ==
  /\ setup \in Setup
  /\ backend = setup.backend
  /\ StoreInit
  /\ \E fetched \in {NoPolicy} \cup
                    (IF cache.content = Deleted THEN {} ELSE {Compiled(cache.content, cache.rev)}) :
       RetryInit(setup.dial, fetched)
  /\ stream = Down
  /\ wire = <<>>
  /\ applied = cache.content
  /\ breaks = 0

Break == breaks < setup.breaks /\ breaks' = breaks + 1

----------------------------------------------------------------------------
(* WatchPolicy.                                                            *)

\* Mutant of Unsent: a policy that is gone is nothing to send.
UnsentPolicy ==
  IF cache.content # Deleted /\ cache.rev # stream.last
  THEN <<[snapshot |-> cache.content, rev |-> cache.rev]>> ELSE <<>>

\* What sendIfChanged sends: it compares revisions for equality only.
Unsent ==
  LET rev == IF cache.content = Deleted THEN deletedPolicyRevision ELSE cache.rev
      snapshot == IF cache.content = Deleted THEN Tombstone ELSE cache.content
  IN  IF rev = stream.last THEN <<>> ELSE <<[snapshot |-> snapshot, rev |-> rev]>>

sendIfChanged ==
  /\ wire' = wire \o Unsent
  /\ stream' = [pc |-> "wait", last |-> IF Unsent = <<>> THEN stream.last ELSE Unsent[1].rev]

\* The SDK opens a stream, now or after its backoff, once it has read all that
\* the last one held; without a policy it is told NotFound.
watchPolicyOnce ==
  /\ stream.pc = "down" /\ wire = <<>>
  /\ cache.content # Deleted
  /\ sendIfChanged
  /\ UNCHANGED <<store, retryVars, setup, applied, breaks>>

\* The ticker fires: a file is reloaded first, and an error ends the stream.
StreamReload ==
  /\ backend = "file" /\ stream.pc = "wait"
  /\ ReloadIfChanged("stream")
  /\ stream' = [stream EXCEPT !.pc = "reload"]
  /\ UNCHANGED <<retryVars, setup, wire, applied, breaks>>

StreamTick ==
  /\ \/ backend = "etcd" /\ stream.pc = "wait" /\ sendIfChanged /\ UNCHANGED store
     \/ /\ stream.pc = "reload" /\ reload["stream"].pc = "done"
        /\ sendIfChanged
        /\ ReloadReturns("stream")
     \/ /\ stream.pc = "reload" /\ reload["stream"].pc = "failed"
        /\ stream' = Down /\ UNCHANGED wire
        /\ ReloadReturns("stream")
  /\ UNCHANGED <<retryVars, setup, applied, breaks>>

\* The network fails, or the controller's other end goes away between ticks.
StreamFails ==
  /\ stream.pc = "wait"
  /\ Break
  /\ stream' = Down
  /\ wire' = <<>>
  /\ UNCHANGED <<store, retryVars, setup, applied>>

Recv ==
  /\ wire # <<>>
  /\ Update(wire[1].snapshot, wire[1].rev)
  /\ wire' = Tail(wire)
  /\ UNCHANGED <<store, setup, stream, applied, breaks>>

----------------------------------------------------------------------------
(* RunPolicyHotApplyLoop.                                                  *)

HotReload ==
  /\ backend = "file"
  /\ ReloadIfChanged("hot")
  /\ UNCHANGED <<retryVars, setup, stream, wire, applied, breaks>>

\* Mutant of ApplyOutlierDetectionPolicies: services without a policy are left.
ApplyPresent == applied' = IF cache.content = Deleted THEN applied ELSE cache.content

ApplyOutlierDetectionPolicies == applied' = cache.content

\* Policies are applied unless the reload failed.
HotApply ==
  /\ \/ backend = "etcd" /\ ApplyOutlierDetectionPolicies /\ UNCHANGED store
     \/ reload["hot"].pc = "done" /\ ApplyOutlierDetectionPolicies /\ ReloadReturns("hot")
     \/ reload["hot"].pc = "failed" /\ ReloadReturns("hot") /\ UNCHANGED applied
  /\ UNCHANGED <<retryVars, setup, stream, wire, breaks>>

----------------------------------------------------------------------------
rest == <<retryVars, setup, stream, wire, applied>>

StoreStep ==
  \/ /\ \/ \E r \in Reloader : ReloadStep(r)
        \/ \E rev \in after + 1..Len(written) : applyWatchEvent(rev)
        \/ resyncAfterBackoff
     /\ UNCHANGED <<rest, breaks>>

StoreFails == (WatchEnds \/ ResyncFails) /\ Break /\ UNCHANGED rest

Write ==
  /\ Len(written) <= setup.changes
  /\ \E c \in Content : Change(c)
  /\ UNCHANGED <<rest, breaks>>

Calls ==
  /\ \/ setup.calls # {} /\ NewWindow
     \/ \E c \in setup.calls : CallStep(c)
  /\ UNCHANGED <<store, setup, stream, wire, applied, breaks>>

Next ==
  \/ Write
  \/ StoreStep \/ StoreFails
  \/ watchPolicyOnce \/ StreamReload \/ StreamTick \/ StreamFails \/ Recv
  \/ HotReload \/ HotApply
  \/ Calls

Spec == Init /\ [][Next]_vars

\* Tickers fire, the goroutines that were started run on, etcd answers, and the
\* SDK dials again.  The operator need not change anything, nor anyone call.
FairSpec ==
  /\ Spec
  /\ \A r \in Reloader : WF_vars(ReloadStep(r) /\ UNCHANGED <<rest, breaks>>)
  /\ WF_vars(StoreStep)
  /\ WF_vars(watchPolicyOnce) /\ WF_vars(StreamReload) /\ WF_vars(StreamTick) /\ WF_vars(Recv)
  /\ WF_vars(HotReload) /\ WF_vars(HotApply)

----------------------------------------------------------------------------
\* The settings the SDK's calls go by, and those a policy, or none, makes of the
\* defaults of the policy source.
InForce == [m \in Method |-> Effective(defaults, policy, m)]
Meant(content) ==
  [m \in Method |-> Effective(defaults, IF content = Deleted THEN NoPolicy ELSE Compiled(content, 0), m)]

\* A policy was deleted while no stream was open: the next one is refused, and
\* nothing tells the SDK.
MissedTombstone == stream.pc = "down" /\ cache.content = Deleted /\ InForce # Meant(Deleted)

\* Policies arrive: when the operator rests, the calls of every method go by the
\* settings of what the operator wrote last, or of the last the controller could
\* read, whatever streams and watches failed.  What that policy leaves unset, all
\* of it after a deletion, comes from the defaults, and those are the dial
\* options with the settings of the policy that dialling fetched put into them:
\* what they enabled, disabled or limited stays when that policy is replaced or
\* deleted.  Exceptions are a deletion that found no stream open, and a
\* last change that the store lost: a file replaced between Reload's read and
\* its Stat, a put undone by a delete before it in one response, an event
\* passed over after a failed resync.
PolicyArrives ==
  <>[](\/ {cache.rev, Len(written)} \cap spoilt # {}
       \/ MissedTombstone
       \/ InForce = Meant(cache.content) /\ Latest \in {cache.content, Bad})

\* The health manager ends with the settings of the cached policy, if the
\* source can be read.
HotApplied == <>[](applied = cache.content \/ Latest = Bad)
=============================================================================
