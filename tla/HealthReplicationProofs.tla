---------------------- MODULE HealthReplicationProofs ----------------------
(***************************************************************************)
(* Proofs about HealthReplication.tla, for any controllers, goroutines and *)
(* deployments.                                                            *)
(***************************************************************************)
EXTENDS HealthReplication, TLAPS

----------------------------------------------------------------------------
\* A save about to write what it compared with the present revision holds no
\* older health than the store.
WritesNewer ==
  \A c \in Controller, g \in Goroutine :
    saver[c][g].pc = "put" /\ saver[c][g].expected = "now" /\ store # NoHealth
      => store.at <= saver[c][g].health.at

IInv == TypeOK /\ WritesNewer

\* The states of a save, told apart by pc.
LEMMA SaverStates ==
  ASSUME TypeOK, NEW c \in Controller, NEW g \in Goroutine
  PROVE  /\ saver[c][g] \in Saver
         /\ saver[c][g].pc = "apply" => saver[c][g].at \in Nat
         /\ saver[c][g].pc \in {"get", "put"} => saver[c][g].health \in Health
         /\ saver[c][g].pc = "put" => saver[c][g] \in [pc : {"put"}, health : Health, expected : Revision]
  BY DEF TypeOK, Saver, Idle

\* One save moves to a state other than a write.
LEMMA SaverMoves ==
  ASSUME IInv, NEW c \in Controller, NEW g \in Goroutine, NEW s \in Saver, SetSaver(c, g, s),
         s.pc = "put" /\ s.expected = "now" /\ store # NoHealth => store.at <= s.health.at,
         UNCHANGED store
  PROVE  saver' \in [Controller -> [Goroutine -> Saver]] /\ WritesNewer'
<1>1. saver \in [Controller -> [Goroutine -> Saver]]
  BY DEF IInv, TypeOK
<1>2. saver' = [saver EXCEPT ![c][g] = s]
  BY DEF SetSaver
<1>3. saver' \in [Controller -> [Goroutine -> Saver]]
  BY <1>1, <1>2
<1>4. ASSUME NEW d \in Controller, NEW f \in Goroutine
      PROVE  saver'[d][f] = IF d = c /\ f = g THEN s ELSE saver[d][f]
  BY <1>1, <1>2
<1> QED BY <1>3, <1>4 DEF IInv, WritesNewer

\* What an action that writes nothing to the store and moves one save leaves
\* to prove: the types of what it did move.
LEMMA SaverStep ==
  ASSUME IInv, UNCHANGED setup, NEW c \in Controller, NEW g \in Goroutine,
         ReadNow(c, g) \/ Apply(c, g) \/ SaveAgain(c, g) \/ SaveGet(c, g) \/ SaveFails(c, g)
  PROVE  IInv' /\ UNCHANGED store
<1> USE BoundAssumption, NoHealthAssumption
<1>t. TypeOK
  BY DEF IInv
<1>s. /\ saver[c][g].pc = "apply" => saver[c][g].at \in Nat
      /\ saver[c][g].pc \in {"get", "put"} => saver[c][g].health \in Health
  BY <1>t, SaverStates
<1>1. CASE ReadNow(c, g)
  <2> DEFINE s == [pc |-> "apply", at |-> clock + 1]
  <2>1. clock \in Nat /\ clock + 1 \in 0..MaxTime
    BY <1>1, <1>t DEF ReadNow, TypeOK
  <2>2. s \in Saver /\ s.pc = "apply"
    BY <2>1 DEF Saver
  <2>3. SetSaver(c, g, s) /\ UNCHANGED store
    BY <1>1 DEF ReadNow
  <2>4. saver' \in [Controller -> [Goroutine -> Saver]] /\ WritesNewer'
    <3> HIDE DEF s
    <3> QED BY <2>2, <2>3, SaverMoves
  <2> QED BY <1>1, <1>t, <2>1, <2>3, <2>4 DEF ReadNow, IInv, TypeOK, watchVars, held
<1>2. CASE Apply(c, g)
  <2> DEFINE h == [n |-> computed + 1, at |-> saver[c][g].at, decoded |-> FALSE]
             s == [pc |-> "get", health |-> h]
  <2>1. h \in Health
    BY <1>2, <1>s, <1>t DEF Apply, TypeOK, Health
  <2>2. s \in Saver /\ s.pc = "get"
    <3> HIDE DEF h
    <3> QED BY <2>1 DEF Saver
  <2>3. /\ SetSaver(c, g, s) /\ UNCHANGED store
        /\ local' = [local EXCEPT ![c] = h] /\ computed' = computed + 1
        /\ backdated' \in {backdated \cup {c}, backdated \ {c}}
        /\ UNCHANGED <<clock, active, watchVars, restorer, faults>>
    BY <1>2 DEF Apply
  <2> HIDE DEF h, s
  <2>4. saver' \in [Controller -> [Goroutine -> Saver]] /\ WritesNewer'
    BY <2>2, <2>3, SaverMoves
  <2>5. local' \in [Controller -> Entry] /\ backdated' \subseteq Controller
    BY <1>t, <2>1, <2>3 DEF TypeOK, Entry
  <2>6. computed' \in Nat
    BY <1>t, <2>3 DEF TypeOK
  <2> QED BY <1>t, <2>3, <2>4, <2>5, <2>6 DEF IInv, TypeOK, watchVars, held
<1>3. CASE SaveAgain(c, g)
  <2> DEFINE s == [pc |-> "get", health |-> local[c]]
  <2>1. local[c] \in Health
    BY <1>3, <1>t DEF SaveAgain, TypeOK, Entry
  <2>2. s \in Saver /\ s.pc = "get"
    BY <2>1 DEF Saver
  <2>3. /\ SetSaver(c, g, s)
        /\ UNCHANGED <<clock, active, computed, store, held, watchVars, restorer, faults>>
    BY <1>3 DEF SaveAgain
  <2> HIDE DEF s
  <2>4. saver' \in [Controller -> [Goroutine -> Saver]] /\ WritesNewer'
    BY <2>2, <2>3, SaverMoves
  <2> QED BY <1>t, <2>3, <2>4 DEF IInv, TypeOK, watchVars, held
<1>4. CASE SaveGet(c, g)
  <2> DEFINE s == IF store # NoHealth /\ Superseded(store, saver[c][g].health) THEN Idle
                  ELSE [pc |-> "put", health |-> saver[c][g].health, expected |-> "now"]
  <2>1. saver[c][g].health \in Health
    BY <1>4, <1>s DEF SaveGet
  <2>2. s \in Saver
    BY <2>1 DEF Saver, Revision
  <2>3. s.pc = "put" /\ s.expected = "now" /\ store # NoHealth => store.at <= s.health.at
    <3>1. SUFFICES ASSUME store # NoHealth, ~Superseded(store, saver[c][g].health)
                   PROVE  store.at <= saver[c][g].health.at
      BY DEF Idle
    <3>2. store.at \in Nat /\ saver[c][g].health.at \in Nat
      BY <2>1, <3>1, <1>t DEF TypeOK, Entry, Health
    <3> QED BY <3>1, <3>2 DEF Superseded
  <2>4. /\ SetSaver(c, g, s)
        /\ UNCHANGED <<clock, active, computed, store, held, watchVars, restorer, faults>>
    BY <1>4 DEF SaveGet
  <2> HIDE DEF s
  <2>5. saver' \in [Controller -> [Goroutine -> Saver]] /\ WritesNewer'
    BY <2>2, <2>3, <2>4, SaverMoves
  <2> QED BY <1>t, <2>4, <2>5 DEF IInv, TypeOK, watchVars, held
<1>5. CASE SaveFails(c, g)
  <2>1. Idle \in Saver /\ Idle.pc = "idle"
    BY DEF Saver, Idle
  <2>2. SetSaver(c, g, Idle) /\ UNCHANGED store
    BY <1>5 DEF SaveFails
  <2>3. saver' \in [Controller -> [Goroutine -> Saver]] /\ WritesNewer'
    BY <2>1, <2>2, SaverMoves
  <2> QED BY <1>5, <1>t, <2>2, <2>3 DEF SaveFails, IInv, TypeOK, watchVars, held
<1> QED BY <1>1, <1>2, <1>3, <1>4, <1>5

\* A write of a health that was compared with the present revision: the store
\* only moves forward, and every other save must compare again.
LEMMA PutStep ==
  ASSUME IInv, UNCHANGED setup, NEW c \in Controller, NEW g \in Goroutine, PutIfModRevision(c, g)
  PROVE  IInv' /\ (store # NoHealth => store' # NoHealth /\ store'.at >= store.at)
<1> USE NoHealthAssumption
<1>t. TypeOK
  BY DEF IInv
<1>s. saver[c][g].health \in Health
  BY <1>t, SaverStates DEF PutIfModRevision
<1>1. CASE /\ ~Compared(saver[c][g])
           /\ SetSaver(c, g, [pc |-> "get", health |-> saver[c][g].health])
           /\ UNCHANGED <<store, watchVars, restorer>>
  <2> DEFINE s == [pc |-> "get", health |-> saver[c][g].health]
  <2>1. s \in Saver /\ s.pc = "get"
    BY <1>s DEF Saver
  <2>2. SetSaver(c, g, s) /\ UNCHANGED <<clock, active, computed, store, held, watchVars, restorer, faults>>
    BY <1>1 DEF PutIfModRevision
  <2> HIDE DEF s
  <2>3. saver' \in [Controller -> [Goroutine -> Saver]] /\ WritesNewer'
    BY <2>1, <2>2, SaverMoves
  <2>4. store # NoHealth => store.at \in Nat
    BY <1>t DEF TypeOK, Entry, Health
  <2> QED BY <1>t, <2>2, <2>3, <2>4 DEF IInv, TypeOK, watchVars, held
<1>2. CASE /\ Compared(saver[c][g])
           /\ store' = Encoded(saver[c][g].health)
           /\ AgeRevisions(c, g)
  <2>1. store' \in Health /\ store'.decoded /\ store'.at = saver[c][g].health.at
    BY <1>2, <1>s DEF Encoded, Decoded, Health
  <2>2. ASSUME NEW d \in Controller, NEW f \in Goroutine
        PROVE  saver'[d][f] \in Saver /\ ~(saver'[d][f].pc = "put" /\ saver'[d][f].expected = "now")
    <3>1. saver'[d][f] = IF d = c /\ f = g THEN Idle
                         ELSE IF saver[d][f].pc = "put" THEN [saver[d][f] EXCEPT !.expected = "old"]
                         ELSE saver[d][f]
      BY <1>2 DEF AgeRevisions
    <3>2. CASE d = c /\ f = g
      <4>1. saver'[d][f] = Idle
        BY <3>1, <3>2
      <4> QED BY <4>1 DEF Idle, Saver
    <3>3. CASE ~(d = c /\ f = g) /\ saver[d][f].pc = "put"
      <4>1. saver'[d][f] = [saver[d][f] EXCEPT !.expected = "old"]
        BY <3>1, <3>3
      <4>2. saver[d][f] \in [pc : {"put"}, health : Health, expected : Revision]
        BY <3>3, <1>t, SaverStates
      <4>3. saver'[d][f] \in [pc : {"put"}, health : Health, expected : Revision] /\ saver'[d][f].expected = "old"
        BY <4>1, <4>2 DEF Revision
      <4> QED BY <4>3 DEF Saver
    <3>4. CASE ~(d = c /\ f = g) /\ saver[d][f].pc # "put"
      BY <3>1, <3>4, <1>t, SaverStates
    <3> QED BY <3>2, <3>3, <3>4
  <2>3. saver' \in [Controller -> [Goroutine -> Saver]]
    <3>1. saver' = [d \in Controller |-> [f \in Goroutine |-> saver'[d][f]]]
      BY <1>2 DEF AgeRevisions
    <3> QED BY <2>2, <3>1
  <2>4. WritesNewer'
    BY <2>2 DEF WritesNewer
  <2>5. /\ seen' \in [Controller -> Revision] /\ after' \in [Controller -> Revision]
        /\ slot' \in [Controller -> Revision \cup {"none"}] /\ sender' \in [Controller -> Revision \cup {"none"}]
    BY <1>2, <1>t DEF AgeRevisions, AgedEvent, Aged, Revision, TypeOK
  <2>6. restorer' \in [Controller -> Restorer]
    <3>1. ASSUME NEW d \in Controller PROVE restorer'[d] \in Restorer
      <4>1. restorer[d] \in Restorer
        BY <1>t DEF TypeOK
      <4>2. CASE restorer[d].pc = "merge"
        <5>1. restorer[d] \in [pc : {"merge"}, revision : Revision, health : Entry]
          BY <4>1, <4>2 DEF Restorer, Idle
        <5>2. AgedEvent(restorer[d].revision) \in Revision
          BY <5>1 DEF AgedEvent, Aged, Revision
        <5>3. restorer'[d] = [restorer[d] EXCEPT !.revision = AgedEvent(restorer[d].revision)]
          BY <1>2, <4>2 DEF AgeRevisions
        <5> QED BY <5>1, <5>2, <5>3 DEF Restorer
      <4>3. CASE restorer[d].pc # "merge"
        BY <1>2, <4>1, <4>3 DEF AgeRevisions
      <4> QED BY <4>2, <4>3
    <3>2. restorer' = [d \in Controller |-> restorer'[d]]
      BY <1>2 DEF AgeRevisions
    <3> QED BY <3>1, <3>2
  <2>7. store # NoHealth => store.at <= saver[c][g].health.at
    BY <1>2 DEF IInv, WritesNewer, PutIfModRevision, Compared
  <2>8. store # NoHealth => store' # NoHealth /\ store'.at >= store.at
    BY <2>1, <2>7, <1>t, <1>s DEF TypeOK, Entry, Health
  <2>9. UNCHANGED <<clock, active, computed, held, faults>>
    BY DEF PutIfModRevision
  <2>10. store' \in Entry
    BY <2>1 DEF Entry
  <2>11. TypeOK'
    BY <1>t, <2>1, <2>3, <2>5, <2>6, <2>9, <2>10 DEF TypeOK, held
  <2> QED BY <2>4, <2>8, <2>11 DEF IInv
<1> QED BY <1>1, <1>2 DEF PutIfModRevision

\* The watch, the restore and the prune of a controller.
LEMMA ControllerStep ==
  ASSUME IInv, UNCHANGED setup, NEW c \in Controller,
         \/ WatchStep(c) \/ WatchBreaks(c) \/ RestoreStep(c) \/ RestoreFails(c) \/ Prune(c)
  PROVE  IInv' /\ UNCHANGED store
<1>t. TypeOK /\ WritesNewer
  BY DEF IInv
<1>u. UNCHANGED <<clock, active, computed, store, saver>> => UNCHANGED store /\ WritesNewer'
  BY <1>t DEF WritesNewer
<1>1. CASE Deliver(c)
  BY <1>1, <1>t, <1>u DEF Deliver, IInv, TypeOK, Revision, held
<1>2. CASE DrainAndSend(c)
  BY <1>2, <1>t, <1>u DEF DrainAndSend, IInv, TypeOK, held
<1>3. CASE WatchBreaks(c)
  BY <1>3, <1>t, <1>u DEF WatchBreaks, IInv, TypeOK, Later, Revision, held
<1>4. CASE Consume(c)
  <2>1. [pc |-> "load"] \in Restorer
    BY DEF Restorer
  <2> QED BY <1>4, <1>t, <1>u, <2>1 DEF Consume, IInv, TypeOK, Later, Revision, held
<1>5. CASE Load(c)
  <2>1. [pc |-> "merge", revision |-> "now", health |-> Restored] \in Restorer
    BY <1>t DEF Restorer, Restored, Entry, TypeOK, Revision
  <2> QED BY <1>5, <1>t, <1>u, <2>1 DEF Load, IInv, TypeOK, watchVars, held
<1>6. CASE MergeSnapshot(c)
  <2>1. restorer[c].health \in Entry
    BY <1>6, <1>t DEF MergeSnapshot, TypeOK, Restorer, Idle
  <2>2. Merged(local[c], restorer[c].health) \in Entry /\ Idle \in Restorer
    BY <2>1, <1>t DEF Merged, TypeOK, Restorer
  <2>3. /\ local' \in [Controller -> Entry] /\ restorer' \in [Controller -> Restorer]
        /\ after' \in [Controller -> Revision] /\ backdated' \subseteq Controller
    <3>1. restorer[c].revision \in Revision
      BY <1>6, <1>t DEF MergeSnapshot, TypeOK, Restorer, Idle
    <3> QED BY <1>6, <1>t, <2>2, <3>1 DEF MergeSnapshot, TypeOK, Later, Revision
  <2> QED BY <1>6, <1>t, <1>u, <2>3 DEF MergeSnapshot, IInv, TypeOK
<1>7. CASE RestoreFails(c)
  <2>1. Idle \in Restorer
    BY DEF Restorer
  <2> QED BY <1>7, <1>t, <1>u, <2>1 DEF RestoreFails, IInv, TypeOK, watchVars, held
<1>8. CASE Prune(c)
  BY <1>8, <1>t, <1>u DEF Prune, IInv, TypeOK, watchVars, held, Entry
<1> QED BY <1>1, <1>2, <1>3, <1>4, <1>5, <1>6, <1>7, <1>8 DEF WatchStep, RestoreStep

\* A crash forgets the saves of the controller; time and the lease touch none.
LEMMA OtherStep ==
  ASSUME IInv, UNCHANGED setup, Advance \/ LeaseExpires \/ \E c \in Controller : Restart(c)
  PROVE  IInv' /\ UNCHANGED store
<1> USE BoundAssumption
<1>t. TypeOK /\ WritesNewer
  BY DEF IInv
<1>1. CASE Advance
  BY <1>1, <1>t DEF Advance, IInv, TypeOK, WritesNewer, watchVars, held
<1>2. CASE LeaseExpires
  BY <1>2, <1>t DEF LeaseExpires, IInv, TypeOK, WritesNewer, watchVars, held
<1>3. ASSUME NEW c \in Controller, Restart(c)
      PROVE  IInv' /\ UNCHANGED store
  <2>1. Idle \in Saver /\ Idle \in Restorer /\ Idle.pc # "put"
    BY DEF Saver, Restorer, Idle
  <2>2. ASSUME NEW d \in Controller, NEW f \in Goroutine
        PROVE  saver'[d][f] = IF d = c THEN Idle ELSE saver[d][f]
    BY <1>3, <1>t DEF Restart, TypeOK
  <2>3. saver' \in [Controller -> [Goroutine -> Saver]]
    BY <1>3, <1>t, <2>1 DEF Restart, TypeOK
  <2>4. UNCHANGED store
    BY <1>3 DEF Restart
  <2>5. WritesNewer'
    BY <1>t, <2>1, <2>2, <2>4 DEF WritesNewer
  <2>6. local' \in [Controller -> Entry] /\ backdated' \subseteq Controller
    <3>1. Restored \in Entry
      BY <1>t DEF Restored, Entry, TypeOK
    <3> QED BY <1>3, <1>t, <3>1 DEF Restart, TypeOK
  <2>7. restorer' \in [Controller -> Restorer]
    BY <1>3, <1>t, <2>1 DEF Restart, TypeOK
  <2>8. /\ seen' \in [Controller -> Revision] /\ after' \in [Controller -> Revision]
        /\ slot' \in [Controller -> Revision \cup {"none"}] /\ sender' \in [Controller -> Revision \cup {"none"}]
    BY <1>3, <1>t DEF Restart, TypeOK, Revision
  <2>9. UNCHANGED <<clock, active, computed, store>> /\ faults' \in Nat
    BY <1>3, <1>t DEF Restart, TypeOK
  <2>10. TypeOK'
    BY <1>t, <2>3, <2>6, <2>7, <2>8, <2>9 DEF TypeOK
  <2> QED BY <2>4, <2>5, <2>10 DEF IInv
<1> QED BY <1>1, <1>2, <1>3

LEMMA InvInit == Init => IInv
<1> SUFFICES ASSUME Init PROVE IInv
  OBVIOUS
<1>1. Idle \in Saver /\ Idle \in Restorer /\ Idle.pc # "put"
  BY DEF Saver, Restorer, Idle
<1>2. /\ saver \in [Controller -> [Goroutine -> Saver]] /\ restorer \in [Controller -> Restorer]
      /\ WritesNewer
  BY <1>1 DEF Init, WritesNewer
<1> QED BY <1>2, BoundAssumption DEF Init, IInv, TypeOK, Entry, Revision

LEMMA InvStep ==
  ASSUME IInv, [Next]_vars
  PROVE  IInv' /\ (store # NoHealth => store' # NoHealth /\ store'.at >= store.at)
<1> DEFINE Forward == store # NoHealth => store' # NoHealth /\ store'.at >= store.at
<1>1. UNCHANGED store => Forward
  BY DEF IInv, TypeOK, Entry, Health
<1> SUFFICES IInv' /\ Forward
  OBVIOUS
<1>2. CASE UNCHANGED vars
  BY <1>1, <1>2 DEF IInv, TypeOK, WritesNewer, vars, watchVars, held
<1>3. CASE Next
  <2>1. UNCHANGED setup /\ setup.controllers \subseteq Controller /\ setup.goroutines \subseteq Goroutine
    BY <1>3, DeploymentAssumption DEF Next, IInv, TypeOK
  <2>2. CASE Advance \/ LeaseExpires
    BY <2>1, <2>2, <1>1, OtherStep
  <2>3. ASSUME NEW c \in setup.controllers, NEW g \in setup.goroutines,
               ReadNow(c, g) \/ SaveAgain(c, g) \/ SaveStep(c, g) \/ SaveFails(c, g)
        PROVE  IInv' /\ Forward
    <3>1. CASE PutIfModRevision(c, g)
      BY <2>1, <3>1, PutStep
    <3>2. CASE ReadNow(c, g) \/ Apply(c, g) \/ SaveAgain(c, g) \/ SaveGet(c, g) \/ SaveFails(c, g)
      BY <2>1, <3>2, <1>1, SaverStep
    <3> QED BY <2>3, <3>1, <3>2 DEF SaveStep
  <2>4. ASSUME NEW c \in setup.controllers,
               \/ WatchStep(c) \/ WatchBreaks(c) \/ RestoreStep(c) \/ RestoreFails(c) \/ Prune(c)
        PROVE  IInv' /\ Forward
    BY <2>1, <2>4, <1>1, ControllerStep
  <2>5. ASSUME NEW c \in setup.controllers, Restart(c)
        PROVE  IInv' /\ Forward
    BY <2>1, <2>5, <1>1, OtherStep
  <2> HIDE DEF Forward
  <2> QED BY <1>3, <2>2, <2>3, <2>4, <2>5 DEF Next
<1> QED BY <1>2, <1>3

\* Type correctness of the replicated health: in particular, what is stored is
\* always what JSON decodes to, and a save, a watch or a restore is only ever
\* in a state the code has.
THEOREM TypeCorrect == Spec => []TypeOK
<1>1. IInv /\ [Next]_vars => IInv'
  BY InvStep
<1>2. IInv => TypeOK
  BY DEF IInv
<1> QED BY <1>1, <1>2, InvInit, PTL DEF Spec

\* Newest wins in the shared store: over any number of controllers and saves
\* that interleave, lose races, retry, fail or crash, what etcd holds of an
\* endpoint is never replaced by a health stamped earlier (the compare of
\* PutIfModRevision with the revision Save read is what makes it so).
THEOREM StoreMovesForward == Spec => NewestWins
<1>1. IInv /\ [Next]_vars => IInv'
  BY InvStep
<1>2. IInv /\ [Next]_vars
        => [store # NoHealth => store' # NoHealth /\ store'.at >= store.at]_vars
  BY InvStep
<1> QED BY <1>1, <1>2, InvInit, PTL DEF Spec, NewestWins
=============================================================================
