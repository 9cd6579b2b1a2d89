--------------------------- MODULE CircuitBreaker ---------------------------
(***************************************************************************)
(* pkg/circuitbreaker/breaker.go: in-flight limits per endpoint, counted   *)
(* with atomics.  Every action is one atomic operation, or a read of one   *)
(* and what the code decides from it.                                      *)
(*                                                                         *)
(* A limiter is named by its endpoint and by the call that made it.  The   *)
(* release callback of Acquire does nothing the second time, so a call     *)
(* releases once; TryAcquire and Release by endpoint are used in pairs.    *)
(***************************************************************************)
EXTENDS Integers, FiniteSets

CONSTANTS Endpoint,
          Call,          \* concurrent calls
          Limit,         \* values the limit is set to, zero or less included
          DefaultMax,    \* stands for the default of 128
          NoLimiter

ASSUME CallAssumption == IsFiniteSet(Call)
ASSUME LimitAssumption == Limit \subseteq Int /\ DefaultMax \in Nat \ {0}
ASSUME NoLimiterAssumption == NoLimiter \notin Call

VARIABLES max,           \* the shared MaxInflight
          limiters,      \* the sync.Map: who made the endpoint's limiter
          inflight,      \* the counter of each limiter
          pc,            \* where each call is,
          endpoint,      \* the endpoint it is for,
          limiter,       \* the limiter it found
          current,       \* and the count it read
          allowed        \* history: the largest limit in force since the call began

shared == <<max, limiters, inflight>>
vars == <<shared, pc, endpoint, limiter, current, allowed>>

\* Calls past their increment are counted.
Counted == {"recheck", "held", "release", "swap"}
PC == {"idle", "create", "load", "check", "cas"} \cup Counted

TypeOK ==
  /\ max \in Nat \ {0}
  /\ limiters \in [Endpoint -> Call \cup {NoLimiter}]
  /\ inflight \in [Endpoint -> [Call -> Nat]]
  /\ pc \in [Call -> PC]
  /\ endpoint \in [Call -> Endpoint]
  /\ limiter \in [Call -> Call \cup {NoLimiter}]
  /\ current \in [Call -> Nat]
  /\ allowed \in [Call -> Nat]

normalizeMaxInflight(m) == IF m <= 0 THEN DefaultMax ELSE m

Init ==
  /\ \E m \in Limit : max = normalizeMaxInflight(m)
  /\ limiters = [e \in Endpoint |-> NoLimiter]
  /\ inflight = [e \in Endpoint |-> [c \in Call |-> 0]]
  /\ pc = [c \in Call |-> "idle"]
  /\ \E e \in Endpoint : endpoint = [c \in Call |-> e]
  /\ limiter = [c \in Call |-> NoLimiter]
  /\ current = [c \in Call |-> 0]
  /\ allowed = [c \in Call |-> 0]

Goto(c, label) == pc' = [pc EXCEPT ![c] = label]

Inflight(c) == inflight[endpoint[c]][limiter[c]]
SetInflight(c, n) == inflight' = [inflight EXCEPT ![endpoint[c]][limiter[c]] = n]

----------------------------------------------------------------------------
\* Look the endpoint's limiter up.
Begin(c, e) ==
  /\ pc[c] = "idle"
  /\ Goto(c, IF limiters[e] = NoLimiter THEN "create" ELSE "load")
  /\ endpoint' = [endpoint EXCEPT ![c] = e]
  /\ limiter' = [limiter EXCEPT ![c] = limiters[e]]
  /\ allowed' = [allowed EXCEPT ![c] = max]
  /\ UNCHANGED <<shared, current>>

\* Mutant of Winner: a late store replaces the limiter others count on.
Latest(c) == c

\* The first to store its limiter wins, the others take that one.
Winner(c) == IF limiters[endpoint[c]] = NoLimiter THEN c ELSE limiters[endpoint[c]]

LoadOrStore(c) ==
  /\ pc[c] = "create"
  /\ Goto(c, "load")
  /\ limiters' = [limiters EXCEPT ![endpoint[c]] = Winner(c)]
  /\ limiter' = [limiter EXCEPT ![c] = Winner(c)]
  /\ UNCHANGED <<max, inflight, endpoint, current, allowed>>

\* The SDK's pool looks the limiters of several endpoints up at once.
NewLimiters(c, S) ==
  /\ limiters' = [e \in Endpoint |-> IF e \in S /\ limiters[e] = NoLimiter THEN c ELSE limiters[e]]
  /\ UNCHANGED <<max, inflight, pc, endpoint, limiter, current, allowed>>

LoadInflight(c) ==
  /\ pc[c] = "load"
  /\ Goto(c, "check")
  /\ current' = [current EXCEPT ![c] = Inflight(c)]
  /\ UNCHANGED <<shared, endpoint, limiter, allowed>>

\* Mutant of Full: one call too many fits.
FullAbove(n) == n > max

Full(n) == n >= max

CheckMax(c) ==
  /\ pc[c] = "check"
  /\ Goto(c, IF Full(current[c]) THEN "idle" ELSE "cas")
  /\ UNCHANGED <<shared, endpoint, limiter, current, allowed>>

\* A counter that moved sends the call back to the read.
CompareAndSwap(c) ==
  /\ pc[c] = "cas"
  /\ \/ /\ Inflight(c) = current[c]
        /\ SetInflight(c, current[c] + 1)
        /\ Goto(c, "recheck")
     \/ /\ Inflight(c) # current[c]
        /\ Goto(c, "load")
        /\ UNCHANGED inflight
  /\ UNCHANGED <<max, limiters, endpoint, limiter, current, allowed>>

\* The limit may have been lowered meanwhile.
Recheck(c) ==
  /\ pc[c] = "recheck"
  /\ Goto(c, IF current[c] + 1 <= max THEN "held" ELSE "release")
  /\ UNCHANGED <<shared, endpoint, limiter, current, allowed>>

Release(c) ==
  /\ pc[c] = "held"
  /\ Goto(c, "release")
  /\ UNCHANGED <<shared, endpoint, limiter, current, allowed>>

ReleaseLoad(c) ==
  /\ pc[c] = "release"
  /\ Goto(c, IF Inflight(c) <= 0 THEN "idle" ELSE "swap")
  /\ current' = [current EXCEPT ![c] = Inflight(c)]
  /\ UNCHANGED <<shared, endpoint, limiter, allowed>>

ReleaseSwap(c) ==
  /\ pc[c] = "swap"
  /\ \/ /\ Inflight(c) = current[c]
        /\ SetInflight(c, current[c] - 1)
        /\ Goto(c, "idle")
     \/ /\ Inflight(c) # current[c]
        /\ Goto(c, "release")
        /\ UNCHANGED inflight
  /\ UNCHANGED <<max, limiters, endpoint, limiter, current, allowed>>

\* A policy update sets the limit of all endpoints.
SetMax(m) ==
  /\ max' = normalizeMaxInflight(m)
  /\ allowed' = [c \in Call |-> IF max' > allowed[c] THEN max' ELSE allowed[c]]
  /\ UNCHANGED <<limiters, inflight, pc, endpoint, limiter, current>>

Next ==
  \/ \E m \in Limit : SetMax(m)
  \/ \E c \in Call :
       \/ \E S \in SUBSET Endpoint : NewLimiters(c, S)
       \/ \E e \in Endpoint : Begin(c, e)
       \/ LoadOrStore(c)
       \/ LoadInflight(c)
       \/ CheckMax(c)
       \/ CompareAndSwap(c)
       \/ Recheck(c)
       \/ Release(c)
       \/ ReleaseLoad(c)
       \/ ReleaseSwap(c)

Spec == Init /\ [][Next]_vars

----------------------------------------------------------------------------
Counting(e) == { c \in Call : endpoint[c] = e /\ pc[c] \in Counted }

\* No slot is lost or used twice: the counter of the endpoint's one limiter is
\* the number of calls that hold a slot or are about to give it back, whichever
\* swaps fail and however the limiter came to be made.
CountsHolders ==
  \A e \in Endpoint :
    limiters[e] # NoLimiter => inflight[e][limiters[e]] = Cardinality(Counting(e))

\* TryAcquire never takes a slot above every limit that was in force since the
\* call began.
AdmittedWithinMax ==
  [][\A c \in Call :
       (pc[c] = "cas" /\ pc'[c] = "recheck")
         => Cardinality(Counting(endpoint[c])') <= allowed[c]]_vars
=============================================================================
