--------------------------- MODULE AdaptivePicker ---------------------------
(***************************************************************************)
(* The SDK's balancer over the limiters of CircuitBreaker: pickers that     *)
(* gRPC builds anew whenever the ready endpoints change, calls picked from  *)
(* one picker and finished after it was replaced, the limiter pool that     *)
(* outlives pickers, and the in-flight pressure the endpoints' cost is      *)
(* computed from.                                                           *)
(*                                                                         *)
(* Which of two endpoints is cheaper depends on latencies and slow scores,  *)
(* so any candidate can be picked (DEGRADED differs from HEALTHY in cost    *)
(* only); whether a call probes is chance.  gRPC serialises Build and calls *)
(* Done once per pick.                                                      *)
(*                                                                         *)
(* The same limiters also serve pkg/circuitbreaker's Breaker, whose calls   *)
(* look their limiter up themselves; `pooled' tells which of the two it is. *)
(***************************************************************************)
EXTENDS CircuitBreaker

CONSTANT Picking         \* the calls that are made through the balancer

ASSUME PickingAssumption == Picking \subseteq Call

VARIABLES pooled,        \* the limiters are the SDK's pool
          picker,        \* items of the current picker: status by endpoint
          pressure,      \* adaptiveEndpointStats.inflight of each endpoint
          stage          \* how far the pick of each call is counted there

\* What the balancer knows of an endpoint: not ready, or the status it has.
Status == {"CONNECTING", "EJECTED", "HEALTHY", "PROBING"}
Routable == {"HEALTHY", "PROBING"}
NoItem == "none"

pickVars == <<pooled, picker, pressure, stage>>
pickerVars == <<vars, pickVars>>

PickerTypeOK ==
  /\ pooled \in BOOLEAN
  /\ picker \in [Endpoint -> Routable \cup {NoItem}]
  /\ pressure \in [Endpoint -> Nat]
  /\ stage \in [Call -> {"picked", "sent", "done"}]

PickerInit ==
  /\ Init
  /\ pooled \in BOOLEAN
  /\ picker = [e \in Endpoint |-> NoItem]
  /\ pressure = [e \in Endpoint |-> 0]
  /\ stage = [c \in Call |-> "picked"]

At(c, s) == stage' = [stage EXCEPT ![c] = s]

newAdaptivePickerItem(status) == IF status \in Routable THEN status ELSE NoItem

\* A picker for the endpoints that are ready and routable.  Their limiters come
\* from the pool.
Build(ready) ==
  /\ picker' = [e \in Endpoint |-> newAdaptivePickerItem(ready[e])]
  /\ \E c \in Picking : NewLimiters(c, { e \in Endpoint : ready[e] \in Routable })
  /\ UNCHANGED <<pooled, pressure, stage>>

With(status) == { e \in Endpoint : picker[e] = status }

\* Probing endpoints get the calls that chance gives them, or all when there
\* are no others.
pickCandidates == { C \in { With("HEALTHY"), With("PROBING") } : C # {} }

\* Without an item the call waits for the next picker.
Pick(c) ==
  /\ \E C \in pickCandidates : \E e \in C : Begin(c, e)
  /\ At(c, "picked")
  /\ UNCHANGED <<pooled, picker, pressure>>

\* TryAcquire, or the Release that ends the call.
CallLimiter(c) ==
  /\ LoadInflight(c) \/ CheckMax(c) \/ CompareAndSwap(c) \/ Recheck(c) \/ ReleaseLoad(c) \/ ReleaseSwap(c)
  /\ UNCHANGED pickVars

IncrementInflight(c) ==
  /\ pc[c] = "held"
  /\ stage[c] = "picked"
  /\ At(c, "sent")
  /\ pressure' = [pressure EXCEPT ![endpoint[c]] = @ + 1]
  /\ UNCHANGED <<vars, pooled, picker>>

\* Never below zero.
Decremented(n) == IF n <= 0 THEN n ELSE n - 1

\* Mutant of finish: the slot is given back first, the pressure later.
ReleaseFirst(c) ==
  /\ \/ /\ stage[c] = "sent" /\ Release(c)
        /\ At(c, "done")
        /\ UNCHANGED pressure
     \/ /\ pc[c] = "idle" /\ stage[c] = "done"
        /\ At(c, "picked")
        /\ pressure' = [pressure EXCEPT ![endpoint[c]] = Decremented(@)]
        /\ UNCHANGED vars
  /\ UNCHANGED <<pooled, picker>>

\* The Done callback: the pressure first, then the limiter.
finish(c) ==
  /\ pc[c] = "held"
  /\ \/ /\ stage[c] = "sent"
        /\ At(c, "done")
        /\ pressure' = [pressure EXCEPT ![endpoint[c]] = Decremented(@)]
        /\ UNCHANGED vars
     \/ /\ stage[c] = "done"
        /\ Release(c)
        /\ UNCHANGED <<pressure, stage>>
  /\ UNCHANGED <<pooled, picker>>

\* A policy update reaches the limiters of all endpoints.
SetMaxInflightPerEndpoint(m) == SetMax(m) /\ UNCHANGED pickVars

PickerNext ==
  \/ \E ready \in [Endpoint -> Status] : Build(ready)
  \/ \E m \in Limit : SetMaxInflightPerEndpoint(m)
  \/ \E c \in Picking : Pick(c) \/ CallLimiter(c) \/ IncrementInflight(c) \/ finish(c)

\* Calls through Breaker.
BreakerNext ==
  /\ \/ \E m \in Limit : SetMax(m)
     \/ \E c \in Call :
          \/ \E e \in Endpoint : Begin(c, e)
          \/ LoadOrStore(c) \/ LoadInflight(c) \/ CheckMax(c) \/ CompareAndSwap(c) \/ Recheck(c)
          \/ Release(c) \/ ReleaseLoad(c) \/ ReleaseSwap(c)
  /\ UNCHANGED pickVars

PickerStep == (pooled /\ PickerNext) \/ (~pooled /\ BreakerNext)

PickerSpec == PickerInit /\ [][PickerStep]_pickerVars

----------------------------------------------------------------------------
Sent(e) == { c \in Call : endpoint[c] = e /\ pc[c] = "held" /\ stage[c] = "sent" }

\* The pressure on an endpoint is the number of calls sent to it and not
\* finished, and every one of them holds a slot: also while pickers are replaced
\* under calls, endpoints leave and come back and the limit moves.
PressureHeld ==
  \A e \in Endpoint :
    /\ pressure[e] = Cardinality(Sent(e))
    /\ limiters[e] = NoLimiter => pressure[e] = 0
    /\ limiters[e] # NoLimiter => pressure[e] <= inflight[e][limiters[e]]
=============================================================================
