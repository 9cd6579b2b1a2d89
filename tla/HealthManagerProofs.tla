------------------------ MODULE HealthManagerProofs ------------------------
(***************************************************************************)
(* Proofs about HealthManager.tla.                                         *)
(***************************************************************************)
EXTENDS HealthManager, TLAPS, WellFoundedInduction, NaturalsInduction

USE SMTT(30), ZenonT(30)

----------------------------------------------------------------------------
(* The state machine.                                                      *)

\* A base configuration is positive field by field.
LEMMA EffectiveFields ==
  ASSUME NEW cfg, Effective(cfg)
  PROVE  /\ cfg \in Config
         /\ cfg.degraded > 0 /\ cfg.eject > 0 /\ cfg.windows > 0 /\ cfg.duration > 0
         /\ cfg.recovery > 0 /\ cfg.probe > 0
<1>1. cfg \in Config
  BY DEF Effective
<1>2. DOMAIN cfg = {"degraded", "eject", "windows", "duration", "recovery", "probe"}
  BY <1>1 DEF Config
<1> QED BY <1>1, <1>2 DEF Effective

\* An override of a positive configuration is positive.
LEMMA Resolves ==
  ASSUME NEW base, Effective(base), NEW o \in Config
  PROVE  Effective(ResolveConfig(base, o))
<1> DEFINE D == {"degraded", "eject", "windows", "duration", "recovery", "probe"}
           r == ResolveConfig(base, o)
<1>1. base \in Config /\ DOMAIN base = D /\ DOMAIN o = D
  BY DEF Effective, Config
<1>2. r = [f \in D |-> IF o[f] > 0 THEN o[f] ELSE base[f]]
  BY <1>1 DEF ResolveConfig
<1>3. \A f \in D : o[f] \in Nat /\ base[f] \in Nat /\ base[f] > 0
  BY <1>1 DEF Config, Effective
<1>4. DOMAIN r = D /\ \A f \in D : r[f] \in Nat /\ r[f] > 0
  BY <1>2, <1>3
<1>5. r \in Config
  BY <1>2, <1>3 DEF Config
<1> QED BY <1>4, <1>5 DEF Effective

\* What the counts and the ejection time of an endpoint satisfy once it was
\* judged under cfg.  Settled is what another controller's judgement ensures.
Sound(cfg, h) ==
  /\ h.state = "HEALTHY" => h.slow < cfg.windows
  /\ h.eject < cfg.windows
  /\ Settled(h)

\* A transition clears the counts and stamps an ejection.
LEMMA TransitionTo ==
  ASSUME NEW h \in EndpointHealth, NEW next \in EndpointState, NEW now \in Nat
  PROVE  /\ Transition(h, next, now) \in EndpointHealth
         /\ Transition(h, next, now).state = next
         /\ Transition(h, next, now).epoch = h.epoch
         /\ Transition(h, next, now).score = h.score
         /\ h.state = next => Transition(h, next, now) = h
         /\ h.state # next => Transition(h, next, now).slow = 0 /\ Transition(h, next, now).eject = 0
         /\ h.state # next /\ next = "EJECTED" => Transition(h, next, now).ejectedAt = now
<1> DEFINE at == CASE next = "EJECTED" -> now [] next = "HEALTHY" -> 0 [] OTHER -> h.ejectedAt
<1>1. at \in Nat /\ (next = "EJECTED" => at = now)
  BY DEF EndpointHealth, EndpointState
<1>2. CASE h.state = next
  BY <1>2 DEF Transition
<1>3. CASE h.state # next
  <2>1. Transition(h, next, now) = [h EXCEPT !.state = next, !.slow = 0, !.eject = 0, !.ejectedAt = at]
    BY <1>3 DEF Transition
  <2> HIDE DEF at
  <2> DEFINE a == [h EXCEPT !.state = next]
             b == [a EXCEPT !.slow = 0]
             d == [b EXCEPT !.eject = 0]
             e == [d EXCEPT !.ejectedAt = at]
  <2>2. e = Transition(h, next, now)
    BY <2>1
  <2>3. a \in EndpointHealth /\ a.state = next /\ a.epoch = h.epoch /\ a.score = h.score
    BY DEF EndpointHealth
  <2> HIDE DEF a
  <2>4. b \in EndpointHealth /\ b.state = next /\ b.epoch = h.epoch /\ b.score = h.score /\ b.slow = 0
    BY <2>3 DEF EndpointHealth
  <2> HIDE DEF b
  <2>5. /\ d \in EndpointHealth /\ d.state = next /\ d.epoch = h.epoch /\ d.score = h.score /\ d.slow = 0
        /\ d.eject = 0
    BY <2>4 DEF EndpointHealth
  <2> HIDE DEF d
  <2>6. /\ e \in EndpointHealth /\ e.state = next /\ e.epoch = h.epoch /\ e.score = h.score /\ e.slow = 0
        /\ e.eject = 0 /\ e.ejectedAt = at
    BY <1>1, <2>5 DEF EndpointHealth
  <2> HIDE DEF e
  <2> QED BY <1>1, <1>3, <2>2, <2>6
<1> QED BY <1>2, <1>3

\* The result r of applying a score to h: the owner stays, the score is
\* recorded, the counts are below the threshold.  Only a positive score takes
\* an endpoint out of HEALTHY, and one left EJECTED is within its duration.
Outcome(cfg, h, now, score, r) ==
  /\ r \in EndpointHealth
  /\ r.epoch = h.epoch /\ r.score = score
  /\ Sound(cfg, r)
  /\ r.state # "HEALTHY" => h.state # "HEALTHY" \/ score > 0
  /\ r.state = "EJECTED" => now - r.ejectedAt < cfg.duration

\* Apply has such an outcome.
LEMMA Applied ==
  ASSUME NEW cfg, Effective(cfg), NEW h0 \in EndpointHealth, Settled(h0),
         NEW now \in Nat \ {0}, NEW score \in Nat, NEW rate \in Nat
  PROVE  Outcome(cfg, h0, now, score, Apply(cfg, h0, now, score, rate))
<1> USE DEF Outcome
<1> DEFINE h == [h0 EXCEPT !.score = score]
           r == Apply(cfg, h0, now, score, rate)
           Goal == Outcome(cfg, h0, now, score, r)
<1> SUFFICES Goal
  OBVIOUS
<1>1. /\ cfg \in Config
      /\ cfg.degraded > 0 /\ cfg.eject > 0 /\ cfg.windows > 0 /\ cfg.duration > 0
  BY EffectiveFields
<1>2. /\ cfg.degraded \in Nat /\ cfg.eject \in Nat /\ cfg.windows \in Nat /\ cfg.duration \in Nat
      /\ cfg.recovery \in Nat /\ cfg.probe \in Nat
  BY <1>1 DEF Config
<1>3. /\ h \in EndpointHealth /\ h.score = score /\ h.epoch = h0.epoch /\ h.state = h0.state
      /\ h.slow = h0.slow /\ h.eject = h0.eject /\ h.ejectedAt = h0.ejectedAt
  BY DEF EndpointHealth
<1>4. Settled(h)
  BY <1>3 DEF Settled
<1>5. r = CASE h.state = "EJECTED" -> ApplyEjected(cfg, h, now)
            [] h.state = "PROBING" -> ApplyProbing(cfg, h, now, rate)
            [] OTHER -> ApplyRouted(cfg, h, now)
  BY DEF Apply
<1> HIDE DEF h, r
<1>6. /\ h.slow \in Nat /\ h.eject \in Nat /\ h.ejectedAt \in Nat
      /\ h.state \in {"HEALTHY", "DEGRADED", "EJECTED", "PROBING"}
  BY <1>3 DEF EndpointHealth, EndpointState
<1>7. CASE h.state = "EJECTED"
  <2>1. r = ApplyEjected(cfg, h, now)
    BY <1>5, <1>7
  <2>2. CASE now - h.ejectedAt >= cfg.duration
    <3>1. h.ejectedAt # 0
      BY <1>4, <1>6, <1>7 DEF Sound, Settled
    <3>2. r = Transition(h, "PROBING", now)
      BY <2>1, <2>2, <3>1 DEF ApplyEjected
    <3>3. /\ r \in EndpointHealth /\ r.state = "PROBING" /\ r.epoch = h.epoch /\ r.score = h.score
          /\ r.slow = 0 /\ r.eject = 0
      <4>1. "PROBING" \in EndpointState /\ h.state # "PROBING" /\ now \in Nat
        BY <1>7 DEF EndpointState
      <4> QED BY <1>3, <3>2, <4>1, TransitionTo
    <3> QED BY <1>1, <1>2, <1>3, <1>6, <1>7, <3>3 DEF Sound, Settled
  <2>3. CASE ~(now - h.ejectedAt >= cfg.duration)
    <3>1. r = h
      BY <2>1, <2>3 DEF ApplyEjected
    <3> QED BY <1>1, <1>2, <1>3, <1>4, <1>6, <1>7, <2>3, <3>1 DEF Sound, Settled
  <2> QED BY <2>2, <2>3
<1>8. CASE h.state = "PROBING"
  <2>1. r = ApplyProbing(cfg, h, now, rate)
    BY <1>5, <1>8
  <2>2. \/ r = Transition(h, "EJECTED", now)
        \/ r = Transition(h, "HEALTHY", now)
        \/ r = h
    BY <2>1 DEF ApplyProbing
  <2>3. CASE r = Transition(h, "EJECTED", now)
    <3>1. /\ r \in EndpointHealth /\ r.state = "EJECTED" /\ r.epoch = h.epoch /\ r.score = score
          /\ r.slow = 0 /\ r.eject = 0 /\ r.ejectedAt = now
      <4>1. "EJECTED" \in EndpointState /\ h.state # "EJECTED" /\ now \in Nat
        BY <1>8 DEF EndpointState
      <4> QED BY <1>3, <2>3, <4>1, TransitionTo
    <3> QED BY <1>1, <1>2, <1>3, <1>8, <3>1 DEF Sound, Settled
  <2>4. CASE r = Transition(h, "HEALTHY", now)
    <3>1. /\ r \in EndpointHealth /\ r.state = "HEALTHY" /\ r.epoch = h.epoch /\ r.score = score
          /\ r.slow = 0 /\ r.eject = 0
      <4>1. "HEALTHY" \in EndpointState /\ h.state # "HEALTHY" /\ now \in Nat
        BY <1>8 DEF EndpointState
      <4> QED BY <1>3, <2>4, <4>1, TransitionTo
    <3> QED BY <1>1, <1>2, <1>3, <3>1 DEF Sound, Settled
  <2>5. CASE r = h
    BY <1>1, <1>2, <1>3, <1>4, <1>6, <1>8, <2>5 DEF Sound, Settled
  <2> QED BY <2>2, <2>3, <2>4, <2>5
<1>9. CASE h.state \in {"HEALTHY", "DEGRADED"}
  <2> DEFINE k == CountWindow(cfg, h, score)
  <2>1. /\ k \in EndpointHealth /\ k.score = score /\ k.epoch = h.epoch /\ k.state = h.state
        /\ k.slow \in Nat /\ k.eject \in Nat
        /\ k.slow > 0 \/ k.eject > 0 => score > 0
    <3> DEFINE x == IF score >= cfg.eject THEN h.eject + 1 ELSE 0
               y == IF score >= cfg.eject \/ score >= cfg.degraded THEN h.slow + 1 ELSE 0
               a == [h EXCEPT !.eject = x]
               b == [a EXCEPT !.slow = y]
    <3>1. x \in Nat /\ y \in Nat /\ (x > 0 \/ y > 0 => score > 0)
      BY <1>1, <1>2, <1>6
    <3>2. k = b
      BY DEF CountWindow
    <3> HIDE DEF x, y, k
    <3>3. a \in EndpointHealth /\ a.score = score /\ a.epoch = h.epoch /\ a.state = h.state /\ a.eject = x
      BY <1>3, <3>1 DEF EndpointHealth
    <3> HIDE DEF a
    <3>4. /\ b \in EndpointHealth /\ b.score = score /\ b.epoch = h.epoch /\ b.state = h.state /\ b.eject = x
          /\ b.slow = y
      BY <3>1, <3>3 DEF EndpointHealth
    <3> QED BY <3>1, <3>2, <3>4
  <2>2. r = IF k.eject >= cfg.windows THEN Transition(k, "EJECTED", now)
            ELSE IF k.slow >= cfg.windows THEN Transition(k, "DEGRADED", now)
            ELSE IF h.state = "DEGRADED" /\ score <= cfg.recovery THEN Transition(k, "HEALTHY", now)
            ELSE k
    BY <1>3, <1>5, <1>9 DEF ApplyRouted
  <2> HIDE DEF k
  <2>3. CASE k.eject >= cfg.windows
    <3>1. r = Transition(k, "EJECTED", now)
      BY <2>2, <2>3
    <3>2. /\ r \in EndpointHealth /\ r.state = "EJECTED" /\ r.epoch = h.epoch /\ r.score = score
          /\ r.slow = 0 /\ r.eject = 0 /\ r.ejectedAt = now
      <4>1. "EJECTED" \in EndpointState /\ k.state # "EJECTED" /\ now \in Nat
        BY <1>9, <2>1 DEF EndpointState
      <4> QED BY <2>1, <3>1, <4>1, TransitionTo
    <3> QED BY <1>1, <1>2, <1>3, <2>1, <2>3, <3>2 DEF Sound, Settled
  <2>4. CASE ~(k.eject >= cfg.windows) /\ k.slow >= cfg.windows
    <3>1. r = Transition(k, "DEGRADED", now)
      BY <2>2, <2>4
    <3>2. /\ r \in EndpointHealth /\ r.state = "DEGRADED" /\ r.epoch = h.epoch /\ r.score = score
          /\ r.eject = 0 \/ r = k
      <4>1. "DEGRADED" \in EndpointState /\ now \in Nat
        BY <1>9 DEF EndpointState
      <4> QED BY <2>1, <3>1, <4>1, TransitionTo
    <3> QED BY <1>1, <1>2, <1>3, <2>1, <2>4, <3>2 DEF Sound, Settled
  <2>5. CASE ~(k.eject >= cfg.windows) /\ ~(k.slow >= cfg.windows)
    <3>1. r = Transition(k, "HEALTHY", now) \/ r = k
      BY <2>2, <2>5
    <3>2. CASE r = Transition(k, "HEALTHY", now)
      <4>1. /\ r \in EndpointHealth /\ r.state = "HEALTHY" /\ r.epoch = h.epoch /\ r.score = score
            /\ (r.slow = 0 /\ r.eject = 0) \/ r = k
        <5>1. "HEALTHY" \in EndpointState /\ now \in Nat
          BY DEF EndpointState
        <5> QED BY <2>1, <3>2, <5>1, TransitionTo
      <4> QED BY <1>1, <1>2, <1>3, <2>1, <2>5, <4>1 DEF Sound, Settled
    <3>3. CASE r = k
      BY <1>1, <1>2, <1>3, <1>6, <1>9, <2>1, <2>5, <3>3 DEF Sound, Settled
    <3> QED BY <3>1, <3>2, <3>3
  <2> QED BY <2>3, <2>4, <2>5
<1> QED BY <1>6, <1>7, <1>8, <1>9

----------------------------------------------------------------------------
(* Update's loop over the rows of a report.                                *)

\* A set of naturals that is not empty has a least element.
LEMMA LeastNat ==
  ASSUME NEW S \in SUBSET Nat, S # {}
  PROVE  \E n \in S : \A m \in S : n <= m
<1> DEFINE R == {ss \in Nat \X Nat : ss[1] < ss[2]}
<1>1. IsWellFoundedOn(R, Nat)
  BY NatLessThanWellFounded DEF OpToRel
<1>2. \E n \in S : \A m \in S : ~ (<<m, n>> \in R)
  <2> HIDE DEF R
  <2> QED BY ZenonT(30), <1>1, WFMin
<1>3. PICK n \in S : \A m \in S : ~ (<<m, n>> \in R)
  BY <1>2
<1>4. \A m \in S : ~ (m < n)
  BY ZenonT(30), <1>3
<1> QED BY <1>4

\* f holds the results of the first m rows, from a on.
RowStates(cfg, report, now, a, m, f) ==
  f = [n \in 0..m |-> IF n = 0 THEN a ELSE Sampled(cfg, report, now, f[n - 1], report.rates[n])]

\* The recursion over rows defines a function.
LEMMA RowsDefine ==
  ASSUME NEW cfg, NEW report, NEW now, NEW a, NEW N \in Nat
  PROVE  \E f : RowStates(cfg, report, now, a, N, f)
<1> USE DEF RowStates
<1> DEFINE P(m) == \E f : RowStates(cfg, report, now, a, m, f)
           Bad == { m \in Nat : ~P(m) }
<1> SUFFICES ASSUME Bad # {} PROVE FALSE
  OBVIOUS
<1>1. PICK m \in Bad : \A j \in Bad : m <= j
  BY LeastNat
<1>2. m # 0
  <2> DEFINE f == [n \in 0..0 |-> a]
  <2>1. f = [n \in 0..0 |-> IF n = 0 THEN a ELSE Sampled(cfg, report, now, f[n - 1], report.rates[n])]
    OBVIOUS
  <2>2. P(0)
    BY <2>1
  <2> QED BY <2>2
<1>3. m \in Nat /\ m - 1 \in Nat
  BY <1>1, <1>2
<1>4. P(m - 1)
  <2>1. m - 1 \notin Bad
    <3> HIDE DEF Bad
    <3> QED BY <1>1, <1>3
  <2> QED BY <1>3, <2>1
<1>5. PICK f : f = [n \in 0..(m - 1) |->
                     IF n = 0 THEN a ELSE Sampled(cfg, report, now, f[n - 1], report.rates[n])]
  BY <1>4
<1> DEFINE g == [n \in 0..m |-> IF n = m THEN Sampled(cfg, report, now, f[m - 1], report.rates[m]) ELSE f[n]]
<1>6. \A n \in 0..m :
        g[n] = IF n = 0 THEN a ELSE Sampled(cfg, report, now, g[n - 1], report.rates[n])
  <2> SUFFICES ASSUME NEW n \in 0..m
               PROVE  g[n] = IF n = 0 THEN a ELSE Sampled(cfg, report, now, g[n - 1], report.rates[n])
    OBVIOUS
  <2>1. n # 0 => g[n - 1] = f[n - 1]
    BY <1>3
  <2>2. CASE n = m
    BY <1>2, <2>1, <2>2
  <2>3. CASE n # m
    <3>1. n \in 0..(m - 1)
      BY <1>3, <2>3
    <3>2. g[n] = f[n]
      BY <2>3
    <3>3. f[n] = IF n = 0 THEN a ELSE Sampled(cfg, report, now, f[n - 1], report.rates[n])
      BY <1>5, <3>1
    <3> QED BY <2>1, <3>2, <3>3
  <2> QED BY <2>2, <2>3
<1>7. g = [n \in 0..m |-> IF n = 0 THEN a ELSE Sampled(cfg, report, now, g[n - 1], report.rates[n])]
  BY <1>6
<1>8. P(m)
  BY <1>7
<1> QED BY <1>1, <1>8

\* Update goes through one state of the endpoint per row.
LEMMA UpdatedByRows ==
  ASSUME NEW r \in Resolved, NEW now
  PROVE  \E f :
           /\ f[0] = [health |-> health[r.key], changed |-> FALSE]
           /\ \A n \in 1..Len(r.rates) :
                f[n] = Sampled(StateMachineConfig(r.key[1]), r, now, f[n - 1], r.rates[n])
           /\ Updated(r, now) = f[Len(r.rates)]
<1> DEFINE N == Len(r.rates)
           a == [health |-> health[r.key], changed |-> FALSE]
           cfg == StateMachineConfig(r.key[1])
           F(f) == f = [n \in 0..N |-> IF n = 0 THEN a ELSE Sampled(cfg, r, now, f[n - 1], r.rates[n])]
           f0 == CHOOSE f : F(f)
<1>1. N \in Nat
  BY BoundAssumption DEF Resolved, Rows
<1>2. \E f : F(f)
  <2> HIDE DEF N, a, cfg
  <2>1. \E f : RowStates(cfg, r, now, a, N, f)
    BY <1>1, RowsDefine
  <2> QED BY <2>1 DEF RowStates
<1>3. F(f0)
  BY <1>2
<1>4. Updated(r, now) = f0[N]
  BY DEF Updated
<1> HIDE DEF f0, a, cfg, N
<1>5. f0[0] = a
  BY <1>1, <1>3
<1>6. ASSUME NEW n \in 1..N PROVE f0[n] = Sampled(cfg, r, now, f0[n - 1], r.rates[n])
  BY <1>1, <1>3
<1> QED BY <1>4, <1>5, <1>6 DEF a, cfg, N

----------------------------------------------------------------------------
(* What a sample and a tick keep of an endpoint.                           *)

\* Whoever was given a positive score, or left HEALTHY, is in b.
Earned(k, h, b) == h.score > 0 \/ h.state # "HEALTHY" => <<k, h.epoch>> \in b

\* The entry of an endpoint that was merged: none, or one that is earned.
EntryFits(k, h, b) == h # NoHealth => h \in EndpointHealth /\ Settled(h) /\ Earned(k, h, b)

\* The entry of an endpoint that was judged here: sound besides.
EntryOK(cfg, k, h, b) == h # NoHealth => h \in EndpointHealth /\ Sound(cfg, h) /\ Earned(k, h, b)

\* The stamp is all that Stamped changes.
LEMMA StampedKeeps ==
  ASSUME NEW before, NEW after \in EndpointHealth, NEW now \in Nat
  PROVE  /\ Stamped(before, after, now) \in EndpointHealth
         /\ Stamped(before, after, now).state = after.state
         /\ Stamped(before, after, now).epoch = after.epoch
         /\ Stamped(before, after, now).score = after.score
         /\ Stamped(before, after, now).slow = after.slow
         /\ Stamped(before, after, now).eject = after.eject
         /\ Stamped(before, after, now).ejectedAt = after.ejectedAt
<1> DEFINE s == [after EXCEPT !.updatedAt = now]
<1>1. /\ s \in EndpointHealth /\ s.state = after.state /\ s.epoch = after.epoch /\ s.score = after.score
      /\ s.slow = after.slow /\ s.eject = after.eject /\ s.ejectedAt = after.ejectedAt
  BY DEF EndpointHealth
<1>2. Stamped(before, after, now) = s \/ Stamped(before, after, now) = after
  BY DEF Stamped
<1> HIDE DEF s
<1> QED BY <1>1, <1>2

\* The entry a sample is applied to belongs to its epoch.
LEMMA OwnEntry ==
  ASSUME NEW k, NEW b, NEW h, EntryFits(k, h, b), NEW epoch \in Nat
  PROVE  /\ OwnHealth(h, epoch) \in EndpointHealth
         /\ OwnHealth(h, epoch).epoch = epoch
         /\ Settled(OwnHealth(h, epoch))
         /\ OwnHealth(h, epoch).state # "HEALTHY" => <<k, epoch>> \in b
<1> DEFINE new == NewEndpointHealth(epoch)
<1>1. /\ new \in EndpointHealth /\ new.epoch = epoch /\ new.state = "HEALTHY"
      /\ new.slow = 0 /\ new.eject = 0
  BY DEF NewEndpointHealth, EndpointHealth, EndpointState
<1>2. CASE h = NoHealth \/ h.epoch # epoch
  <2>1. OwnHealth(h, epoch) = new
    BY <1>2 DEF OwnHealth
  <2> HIDE DEF new
  <2> QED BY <1>1, <2>1 DEF Settled
<1>3. CASE ~(h = NoHealth \/ h.epoch # epoch)
  <2>1. OwnHealth(h, epoch) = h
    BY <1>3 DEF OwnHealth
  <2> QED BY <1>3, <2>1 DEF EntryFits, Earned
<1> QED BY <1>2, <1>3

\* A sample leaves a good entry, and says so when it changed it.
LEMMA SampledKeeps ==
  ASSUME NEW cfg, Effective(cfg), NEW k, NEW b, NEW acc, EntryFits(k, acc.health, b),
         NEW report, report.epoch \in Nat, report.score \in Nat,
         report.score > 0 => <<k, report.epoch>> \in b,
         NEW now \in Nat \ {0}, NEW rate \in Nat
  PROVE  /\ EntryOK(cfg, k, Sampled(cfg, report, now, acc, rate).health, b)
         /\ ~Sampled(cfg, report, now, acc, rate).changed
              => ~acc.changed /\ Sampled(cfg, report, now, acc, rate).health = acc.health
<1> DEFINE own == OwnHealth(acc.health, report.epoch)
           after == Apply(cfg, own, now, report.score, rate)
           s == Sampled(cfg, report, now, acc, rate)
<1>1. /\ own \in EndpointHealth /\ own.epoch = report.epoch /\ Settled(own)
      /\ own.state # "HEALTHY" => <<k, report.epoch>> \in b
  BY OwnEntry
<1>2. /\ s.health = Stamped(acc.health, after, now)
      /\ s.changed = (acc.changed \/ acc.health = NoHealth \/ after # acc.health)
  BY DEF Sampled
<1> HIDE DEF own
<1>3. /\ after \in EndpointHealth
      /\ after.epoch = own.epoch /\ after.score = report.score
      /\ Sound(cfg, after)
      /\ after.state # "HEALTHY" => own.state # "HEALTHY" \/ report.score > 0
  <2>1. Outcome(cfg, own, now, report.score, after)
    BY <1>1, Applied
  <2> QED BY <2>1 DEF Outcome
<1> HIDE DEF after, s
<1>4. EntryOK(cfg, k, s.health, b)
  <2>1. /\ s.health \in EndpointHealth /\ s.health.epoch = report.epoch /\ s.health.score = report.score
        /\ s.health.state = after.state /\ s.health.slow = after.slow /\ s.health.eject = after.eject
        /\ s.health.ejectedAt = after.ejectedAt
    BY <1>1, <1>2, <1>3, StampedKeeps
  <2>2. Sound(cfg, s.health)
    BY <1>3, <2>1 DEF Sound, Settled
  <2>3. Earned(k, s.health, b)
    BY <1>1, <1>3, <2>1 DEF Earned
  <2> QED BY <2>1, <2>2, <2>3 DEF EntryOK
<1>5. ~s.changed => ~acc.changed /\ s.health = acc.health
  BY <1>2 DEF Stamped
<1> QED BY <1>4, <1>5 DEF s

\* The configuration in force for a service has no zero field.
LEMMA ConfigInForce ==
  ASSUME TypeOK, NEW s \in Service
  PROVE  Effective(StateMachineConfig(s))
<1>1. override[s] \in Config
  BY ConfigAssumption DEF TypeOK
<1> QED BY <1>1, ConfigAssumption, Resolves DEF StateMachineConfig

\* Update leaves a good entry, and says so when it changed it.
LEMMA UpdatedKeeps ==
  ASSUME TypeOK, NEW r \in Resolved, NEW now \in Nat \ {0}, NEW b,
         EntryFits(r.key, health[r.key], b),
         r.score > 0 => <<r.key, r.epoch>> \in b
  PROVE  /\ EntryOK(StateMachineConfig(r.key[1]), r.key, Updated(r, now).health, b)
         /\ ~Updated(r, now).changed => Updated(r, now).health = health[r.key]
<1> DEFINE cfg == StateMachineConfig(r.key[1])
           N == Len(r.rates)
           Good(n, a) == /\ EntryFits(r.key, a.health, b)
                         /\ n > 0 => EntryOK(cfg, r.key, a.health, b)
                         /\ ~a.changed => a.health = health[r.key]
<1>1. /\ r.key \in Key /\ r.key[1] \in Service /\ r.epoch \in Nat /\ r.score \in Nat
      /\ N \in Nat \ {0} /\ \A n \in 1..N : r.rates[n] \in Nat
  <2>1. /\ r.key \in Key /\ r.epoch \in 1..MaxEpoch /\ r.rates \in Rows /\ r.score \in Score
    BY DEF Resolved
  <2>2. PICK n \in 1..MaxRows : r.rates \in [1..n -> Rate]
    BY <2>1 DEF Rows
  <2>3. n \in Nat \ {0} /\ N = n
    BY <2>2, BoundAssumption
  <2>4. \A i \in 1..N : r.rates[i] \in Nat
    BY <2>2, <2>3, SampleAssumption
  <2>5. r.key[1] \in Service
    BY <2>1 DEF Key
  <2>6. r.epoch \in Nat
    BY <2>1, BoundAssumption
  <2>7. r.score \in Nat
    BY <2>1, SampleAssumption
  <2> HIDE DEF N
  <2> QED BY <2>1, <2>3, <2>4, <2>5, <2>6, <2>7
<1>2. Effective(cfg)
  BY <1>1, ConfigInForce
<1>3. PICK f : /\ f[0] = [health |-> health[r.key], changed |-> FALSE]
               /\ \A n \in 1..N : f[n] = Sampled(cfg, r, now, f[n - 1], r.rates[n])
               /\ Updated(r, now) = f[N]
  BY UpdatedByRows
<1> HIDE DEF cfg, N
<1> DEFINE Bad == { n \in 0..N : ~Good(n, f[n]) }
<1>4. Bad = {}
  <2> SUFFICES ASSUME Bad # {} PROVE FALSE
    OBVIOUS
  <2>1. PICK n \in Bad : \A j \in Bad : n <= j
    <3>1. Bad \in SUBSET Nat
      BY <1>1
    <3> HIDE DEF Bad
    <3> QED BY <3>1, LeastNat
  <2>2. Good(0, f[0])
    BY <1>3 DEF cfg
  <2>3. n # 0
    BY <2>1, <2>2
  <2>4. n \in 1..N /\ n - 1 \in 0..N
    BY <1>1, <2>1, <2>3
  <2>5. Good(n - 1, f[n - 1])
    <3>1. n - 1 \notin Bad
      <4> HIDE DEF Bad
      <4> QED BY <1>1, <2>1, <2>4
    <3> QED BY <2>4, <3>1
  <2>6. f[n] = Sampled(cfg, r, now, f[n - 1], r.rates[n]) /\ r.rates[n] \in Nat
    BY <1>1, <1>3, <2>4
  <2>7. Good(n, f[n])
    <3> DEFINE a == f[n - 1]
               rate == r.rates[n]
    <3>1. EntryFits(r.key, a.health, b) /\ (~a.changed => a.health = health[r.key])
      BY <2>5
    <3>2. f[n] = Sampled(cfg, r, now, a, rate) /\ rate \in Nat
      BY <2>6
    <3> HIDE DEF a, rate
    <3>3. /\ EntryOK(cfg, r.key, Sampled(cfg, r, now, a, rate).health, b)
          /\ ~Sampled(cfg, r, now, a, rate).changed => ~a.changed /\ Sampled(cfg, r, now, a, rate).health = a.health
      BY <1>1, <1>2, <3>1, <3>2, SampledKeeps
    <3> QED BY <3>1, <3>2, <3>3 DEF EntryOK, EntryFits, Sound
  <2> QED BY <2>1, <2>7
<1>5. Good(N, f[N])
  BY <1>1, <1>4
<1>6. N > 0
  BY <1>1
<1> QED BY <1>3, <1>5, <1>6 DEF cfg

\* So does a tick, which leaves no ejection past its duration.
LEMMA TickedKeeps ==
  ASSUME TypeOK, NEW k \in Key, NEW now \in Nat \ {0}, NEW b,
         EntryFits(k, health[k], b)
  PROVE  /\ EntryOK(StateMachineConfig(k[1]), k, Ticked(k, now), b)
         /\ Ticked(k, now) # NoHealth /\ Ticked(k, now).state = "EJECTED"
              => now - Ticked(k, now).ejectedAt < StateMachineConfig(k[1]).duration
<1> DEFINE cfg == StateMachineConfig(k[1])
           after == Apply(cfg, health[k], now, health[k].score, 1)
           t == Ticked(k, now)
<1>1. CASE health[k] = NoHealth
  BY <1>1 DEF Ticked, EntryOK
<1>2. CASE health[k] # NoHealth
  <2>1. k[1] \in Service
    BY DEF Key
  <2>2. Effective(cfg)
    BY <2>1, ConfigInForce
  <2>3. t = Stamped(health[k], after, now)
    BY <1>2 DEF Ticked
  <2> HIDE DEF t, cfg
  <2>4. /\ health[k] \in EndpointHealth /\ health[k].score \in Nat
        /\ Settled(health[k]) /\ Earned(k, health[k], b)
    BY <1>2 DEF EntryFits, EndpointHealth
  <2>5. Outcome(cfg, health[k], now, health[k].score, after)
    BY <2>2, <2>4, Applied
  <2> HIDE DEF after
  <2>6. /\ t \in EndpointHealth /\ t.epoch = after.epoch /\ t.score = after.score
        /\ t.state = after.state /\ t.slow = after.slow /\ t.eject = after.eject
        /\ t.ejectedAt = after.ejectedAt
    BY <2>3, <2>5, StampedKeeps DEF Outcome
  <2>7. Sound(cfg, t)
    BY <2>5, <2>6 DEF Outcome, Sound, Settled
  <2>8. Earned(k, t, b)
    BY <2>4, <2>5, <2>6 DEF Outcome, Earned
  <2>9. t.state = "EJECTED" => now - t.ejectedAt < cfg.duration
    BY <2>5, <2>6 DEF Outcome
  <2> QED BY <2>6, <2>7, <2>8, <2>9 DEF EntryOK, t, cfg
<1> QED BY <1>1, <1>2

----------------------------------------------------------------------------
(* The inductive invariant, action by action.                              *)

Entries == EndpointHealth \cup {NoHealth}

\* Every entry is earned, and unless it was merged and not judged since, sound
\* under the configuration in force.
IInv ==
  /\ TypeOK
  /\ \A k \in Key : EntryFits(k, health[k], blamed)
  /\ \A k \in Key \ adopted : EntryOK(StateMachineConfig(k[1]), k, health[k], blamed)

\* What a watcher sees of two entries is the same.
Alike(h, j) == h = j \/ (h # NoHealth /\ j # NoHealth /\ h.epoch = j.epoch /\ h.state = j.state)

\* A service whose view changed has a larger version than before.
Announced ==
  \A s \in Service :
    /\ version'[s] >= version[s]
    /\ (\E k \in Key : k[1] = s /\ ~Alike(health[k], health'[k])) => version'[s] > version[s]

\* Bump gives the changed services a larger version.
LEMMA Bumped ==
  ASSUME TypeOK, NEW newHealth \in [Key -> Entries], NEW changed \in SUBSET Service,
         Bump(newHealth, changed)
  PROVE  /\ health' = newHealth /\ health' \in [Key -> Entries]
         /\ revision' \in Nat
         /\ version' \in [Service -> 0..revision']
         /\ \A s \in Service : version'[s] >= version[s] /\ (s \in changed => version'[s] > version[s])
<1>1. revision \in Nat /\ \A s \in Service : version[s] \in 0..revision
  BY DEF TypeOK
<1>2. revision' = IF changed = {} THEN revision ELSE revision + 1
  BY DEF Bump
<1>3. version' = [s \in Service |-> IF s \in changed THEN revision + 1 ELSE version[s]]
  BY DEF Bump
<1>4. health' = newHealth
  BY DEF Bump
<1>5. revision' \in Nat /\ revision' >= revision
  BY <1>1, <1>2
<1>6. ASSUME NEW s \in Service
      PROVE  version'[s] \in 0..revision' /\ version'[s] >= version[s] /\ (s \in changed => version'[s] > version[s])
  <2>1. CASE s \in changed
    BY <1>1, <1>2, <1>3, <2>1
  <2>2. CASE s \notin changed
    BY <1>1, <1>3, <1>5, <2>2
  <2> QED BY <2>1, <2>2
<1> QED BY <1>3, <1>4, <1>5, <1>6

\* Services whose entries changed are among ChangedServices.
LEMMA ChangedAnnounced ==
  ASSUME TypeOK, NEW newHealth \in [Key -> Entries], Bump(newHealth, ChangedServices(newHealth))
  PROVE  /\ health' = newHealth /\ health' \in [Key -> Entries]
         /\ revision' \in Nat
         /\ version' \in [Service -> 0..revision']
         /\ Announced
<1>1. ChangedServices(newHealth) \in SUBSET Service
  BY DEF ChangedServices, Key
<1>2. \A k \in Key : newHealth[k] # health[k] => k[1] \in ChangedServices(newHealth)
  BY DEF ChangedServices
<1>3. \A k \in Key : k[1] \in Service
  BY DEF Key
<1>4. /\ health' = newHealth /\ health' \in [Key -> Entries]
      /\ revision' \in Nat
      /\ version' \in [Service -> 0..revision']
      /\ \A s \in Service :
           version'[s] >= version[s] /\ (s \in ChangedServices(newHealth) => version'[s] > version[s])
  BY <1>1, Bumped
<1> QED BY <1>2, <1>4 DEF Announced, Alike

\* The invariant in the next state, entry by entry.
LEMMA EntriesKept ==
  ASSUME TypeOK', \A k \in Key : StateMachineConfig(k[1])' = StateMachineConfig(k[1]),
         \A k \in Key :
           /\ EntryFits(k, health'[k], blamed')
           /\ k \notin adopted' => EntryOK(StateMachineConfig(k[1]), k, health'[k], blamed')
  PROVE  IInv'
<1>1. \A k \in Key : EntryFits(k, health[k], blamed)'
  BY DEF EntryFits, Settled, Earned
<1>2. ASSUME NEW k \in Key, k \notin adopted'
      PROVE  EntryOK(StateMachineConfig(k[1]), k, health[k], blamed)'
  BY <1>2 DEF EntryOK, Sound, Settled, Earned
<1> QED BY <1>1, <1>2 DEF IInv

\* Update: a report about one endpoint.
LEMMA UpdateStep ==
  ASSUME IInv, NEW c \in Reporter, Update(c)
  PROVE  IInv' /\ Announced
<1> DEFINE r == reporter[c]
<1>1. TypeOK
  BY DEF IInv
<1>2. r \in Resolved
  BY <1>1 DEF Update, TypeOK, Idle
<1>3. /\ r.key \in Key /\ r.key[1] \in Service /\ r.since \in Nat \ {0}
  BY <1>2, TimeAssumption DEF Resolved, Key
<1>4. PICK now \in r.since..clock :
        Bump([health EXCEPT ![r.key] = Updated(r, now).health], IF Updated(r, now).changed THEN {r.key[1]} ELSE {})
  BY DEF Update
<1>5. now \in Nat \ {0}
  BY <1>1, <1>3, <1>4 DEF TypeOK
<1>6. /\ blamed \subseteq blamed'
      /\ r.score > 0 => <<r.key, r.epoch>> \in blamed'
  BY DEF Update
<1>7. /\ UNCHANGED <<clock, epochs, registered, override, ticker, pruner, inputs, reconfigs>>
      /\ reporter' = [reporter EXCEPT ![c] = Idle]
      /\ adopted' = adopted \ {r.key}
  BY DEF Update, registryVars
<1> HIDE DEF r
<1>8. /\ \A k \in Key : EntryFits(k, health[k], blamed')
      /\ \A k \in Key \ adopted : EntryOK(StateMachineConfig(k[1]), k, health[k], blamed')
  BY <1>6 DEF IInv, EntryOK, EntryFits, Earned
<1> DEFINE u == Updated(r, now)
<1>9. /\ EntryOK(StateMachineConfig(r.key[1]), r.key, u.health, blamed')
      /\ ~u.changed => u.health = health[r.key]
  BY <1>1, <1>2, <1>3, <1>5, <1>6, <1>8, UpdatedKeeps
<1> DEFINE newHealth == [health EXCEPT ![r.key] = u.health]
           changed == IF u.changed THEN {r.key[1]} ELSE {}
<1> HIDE DEF u
<1>10. u.health \in Entries
  BY <1>9 DEF EntryOK, Entries
<1>11. health \in [Key -> Entries]
  BY <1>1 DEF TypeOK, Entries
<1>12. /\ newHealth \in [Key -> Entries]
       /\ newHealth[r.key] = u.health
       /\ \A k \in Key : k # r.key => newHealth[k] = health[k]
  BY <1>3, <1>10, <1>11
<1>13. changed \in SUBSET Service
  BY <1>3
<1>14. Bump(newHealth, changed)
  BY <1>4 DEF u
<1>15. u.changed => r.key[1] \in changed
  OBVIOUS
<1> HIDE DEF newHealth, changed
<1>16. /\ health' = newHealth /\ health' \in [Key -> Entries]
       /\ revision' \in Nat
       /\ version' \in [Service -> 0..revision']
       /\ \A s \in Service : version'[s] >= version[s] /\ (s \in changed => version'[s] > version[s])
  BY <1>1, <1>12, <1>13, <1>14, Bumped
<1>17. Announced
  <2>1. \A k \in Key : health'[k] # health[k] => k[1] \in changed
    BY <1>9, <1>12, <1>15, <1>16
  <2> QED BY <1>16, <2>1 DEF Announced, Alike
<1>18. TypeOK'
  <2>1. reporter' \in [Reporter -> {Idle} \cup Resolved]
    BY <1>1, <1>7 DEF TypeOK
  <2> QED BY <1>1, <1>7, <1>16, <2>1 DEF TypeOK, Entries
<1>19. ASSUME NEW k \in Key
       PROVE  /\ EntryFits(k, health'[k], blamed')
              /\ k \notin adopted' => EntryOK(StateMachineConfig(k[1]), k, health'[k], blamed')
  <2>1. CASE k = r.key
    BY <1>9, <1>12, <1>16, <2>1 DEF EntryOK, EntryFits, Sound
  <2>2. CASE k # r.key
    BY <1>7, <1>8, <1>12, <1>16, <2>2
  <2> QED BY <2>1, <2>2
<1>20. \A k \in Key : StateMachineConfig(k[1])' = StateMachineConfig(k[1])
  BY <1>7 DEF StateMachineConfig
<1> QED BY <1>17, <1>18, <1>19, <1>20, EntriesKept

\* A tick of the health ticker.
LEMMA TickStep ==
  ASSUME IInv, TickHealth
  PROVE  /\ IInv' /\ Announced
         /\ \A k \in Key : health'[k] # NoHealth /\ health'[k].state = "EJECTED"
              => ticker' - health'[k].ejectedAt < StateMachineConfig(k[1]).duration
<1>1. TypeOK
  BY DEF IInv
<1>2. PICK now \in (ticker + TickPeriod)..clock :
        /\ Bump([k \in Key |-> Ticked(k, now)], ChangedServices([k \in Key |-> Ticked(k, now)]))
        /\ ticker' = now
  BY DEF TickHealth
<1>3. now \in Nat \ {0} /\ now \in 1..MaxTime
  BY <1>1, <1>2, TimeAssumption DEF TypeOK
<1>4. UNCHANGED <<clock, epochs, registered, override, reporter, pruner, inputs, reconfigs, blamed>>
  BY DEF TickHealth, registryVars
<1>5. ASSUME NEW k \in Key
      PROVE  /\ EntryOK(StateMachineConfig(k[1]), k, Ticked(k, now), blamed)
             /\ Ticked(k, now) # NoHealth /\ Ticked(k, now).state = "EJECTED"
                  => now - Ticked(k, now).ejectedAt < StateMachineConfig(k[1]).duration
  BY <1>1, <1>3, TickedKeeps DEF IInv
<1> DEFINE newHealth == [k \in Key |-> Ticked(k, now)]
<1>6. newHealth \in [Key -> Entries]
  BY <1>5 DEF EntryOK, Entries
<1>7. \A k \in Key : newHealth[k] = Ticked(k, now)
  OBVIOUS
<1>8. Bump(newHealth, ChangedServices(newHealth))
  BY <1>2
<1> HIDE DEF newHealth
<1>9. /\ health' = newHealth /\ health' \in [Key -> Entries]
      /\ revision' \in Nat
      /\ version' \in [Service -> 0..revision']
      /\ Announced
  BY <1>1, <1>6, <1>8, ChangedAnnounced
<1>10. TypeOK'
  BY <1>1, <1>2, <1>3, <1>4, <1>9 DEF TypeOK, Entries
<1>11. ASSUME NEW k \in Key
       PROVE  /\ EntryFits(k, health'[k], blamed')
              /\ k \notin adopted' => EntryOK(StateMachineConfig(k[1]), k, health'[k], blamed')
  BY <1>4, <1>5, <1>7, <1>9 DEF EntryOK, EntryFits, Sound
<1>12. \A k \in Key : health'[k] # NoHealth /\ health'[k].state = "EJECTED"
          => ticker' - health'[k].ejectedAt < StateMachineConfig(k[1]).duration
  BY <1>2, <1>5, <1>7, <1>9
<1>13. \A k \in Key : StateMachineConfig(k[1])' = StateMachineConfig(k[1])
  BY <1>4 DEF StateMachineConfig
<1> QED BY <1>9, <1>10, <1>11, <1>12, <1>13, EntriesKept

\* A prune drops entries and changes none.
LEMMA PruneStep ==
  ASSUME IInv, PruneMissing
  PROVE  IInv' /\ Announced
<1>1. TypeOK
  BY DEF IInv
<1> DEFINE newHealth == [k \in Key |-> IF health[k] # NoHealth /\ <<k, health[k].epoch>> \in pruner.retain
                                     THEN health[k] ELSE NoHealth]
<1>2. /\ Bump(newHealth, ChangedServices(newHealth))
      /\ pruner' = Idle
      /\ UNCHANGED <<clock, epochs, registered, override, reporter, ticker, inputs, reconfigs, blamed, adopted>>
  BY DEF PruneMissing, registryVars, history
<1>3. \A k \in Key : newHealth[k] = health[k] \/ newHealth[k] = NoHealth
  OBVIOUS
<1>4. newHealth \in [Key -> Entries]
  BY <1>1 DEF TypeOK, Entries
<1> HIDE DEF newHealth
<1>5. /\ health' = newHealth /\ health' \in [Key -> Entries]
      /\ revision' \in Nat
      /\ version' \in [Service -> 0..revision']
      /\ Announced
  BY <1>1, <1>2, <1>4, ChangedAnnounced
<1>6. TypeOK'
  BY <1>1, <1>2, <1>5 DEF TypeOK, Entries
<1>7. ASSUME NEW k \in Key
      PROVE  /\ EntryFits(k, health'[k], blamed')
             /\ k \notin adopted' => EntryOK(StateMachineConfig(k[1]), k, health'[k], blamed')
  BY <1>2, <1>3, <1>5 DEF IInv, EntryOK, EntryFits
<1>8. \A k \in Key : StateMachineConfig(k[1])' = StateMachineConfig(k[1])
  BY <1>2 DEF StateMachineConfig
<1> QED BY <1>5, <1>6, <1>7, <1>8, EntriesKept

\* A policy that changes the configuration of a service starts its counts again.
LEMMA PolicyStep ==
  ASSUME IInv, NEW o \in [Service -> Overrides], ApplyPolicies(o)
  PROVE  IInv' /\ Announced
<1>1. TypeOK
  BY DEF IInv
<1> DEFINE changed == { s \in Service : ResolveConfig(Base, o[s]) # StateMachineConfig(s) }
           newHealth == [k \in Key |-> IF k[1] \in changed THEN CountersReset(health[k], clock) ELSE health[k]]
<1>2. /\ override' = o
      /\ Bump(newHealth, changed)
      /\ adopted' = { k \in adopted : k[1] \notin changed }
      /\ UNCHANGED <<clock, epochs, registered, reporter, ticker, pruner, inputs, blamed>>
  BY DEF ApplyPolicies, registryVars
<1>3. ASSUME NEW k \in Key
      PROVE  /\ newHealth[k] \in Entries
             /\ EntryFits(k, newHealth[k], blamed)
             /\ k \notin adopted' => EntryOK(ResolveConfig(Base, o[k[1]]), k, newHealth[k], blamed)
             /\ newHealth[k] # health[k] => k[1] \in changed
  <2>1. k[1] \in Service
    BY DEF Key
  <2>2. CASE k[1] \notin changed
    <3>1. newHealth[k] = health[k] /\ ResolveConfig(Base, o[k[1]]) = StateMachineConfig(k[1])
      BY <2>1, <2>2
    <3>2. k \notin adopted' => k \notin adopted
      BY <1>2, <2>2
    <3> QED BY <1>1, <3>1, <3>2 DEF IInv, TypeOK, Entries
  <2>3. CASE k[1] \in changed /\ health[k] = NoHealth
    BY <2>3 DEF CountersReset, EntryOK, EntryFits, Entries
  <2>4. CASE k[1] \in changed /\ health[k] # NoHealth
    <3> DEFINE cfg == ResolveConfig(Base, o[k[1]])
    <3>1. Effective(cfg)
      BY <2>1, ConfigAssumption, Resolves
    <3>2. cfg.windows > 0
      BY <3>1, EffectiveFields
    <3> HIDE DEF cfg
    <3>3. /\ health[k] \in EndpointHealth /\ Earned(k, health[k], blamed)
          /\ Settled(health[k])
      BY <2>4 DEF IInv, EntryFits
    <3>4. newHealth[k] = CountersReset(health[k], clock) /\ clock \in Nat
      BY <1>1, <2>4 DEF TypeOK
    <3> HIDE DEF newHealth
    <3>5. CASE health[k].slow = 0 /\ health[k].eject = 0
      <4>1. newHealth[k] = health[k]
        BY <3>4, <3>5 DEF CountersReset
      <4> QED BY <2>4, <3>2, <3>3, <3>5, <4>1 DEF EntryOK, EntryFits, Sound, Entries, cfg
    <3>6. CASE ~(health[k].slow = 0 /\ health[k].eject = 0)
      <4> DEFINE a == [health[k] EXCEPT !.slow = 0]
                 b == [a EXCEPT !.eject = 0]
                 d == [b EXCEPT !.updatedAt = clock]
      <4>1. newHealth[k] = d
        BY <2>4, <3>4, <3>6 DEF CountersReset
      <4>2. /\ a \in EndpointHealth /\ a.slow = 0 /\ a.epoch = health[k].epoch /\ a.score = health[k].score
            /\ a.state = health[k].state /\ a.ejectedAt = health[k].ejectedAt
        BY <3>3 DEF EndpointHealth
      <4> HIDE DEF a
      <4>3. /\ b \in EndpointHealth /\ b.slow = 0 /\ b.epoch = health[k].epoch /\ b.score = health[k].score
            /\ b.state = health[k].state /\ b.ejectedAt = health[k].ejectedAt /\ b.eject = 0
        BY <4>2 DEF EndpointHealth
      <4> HIDE DEF b
      <4>4. /\ d \in EndpointHealth /\ d.slow = 0 /\ d.epoch = health[k].epoch /\ d.score = health[k].score
            /\ d.state = health[k].state /\ d.ejectedAt = health[k].ejectedAt /\ d.eject = 0
        BY <3>4, <4>3 DEF EndpointHealth
      <4> HIDE DEF d
      <4>5. Sound(cfg, d)
        BY <3>2, <3>3, <4>4 DEF Sound, Settled
      <4>6. Earned(k, d, blamed)
        BY <3>3, <4>4 DEF Earned
      <4> QED BY <2>4, <4>1, <4>4, <4>5, <4>6 DEF EntryOK, EntryFits, Sound, Entries, cfg
    <3> QED BY <3>5, <3>6
  <2> QED BY <2>2, <2>3, <2>4
<1>4. newHealth \in [Key -> Entries] /\ changed \in SUBSET Service
  BY <1>3
<1> HIDE DEF newHealth, changed
<1>5. /\ health' = newHealth /\ health' \in [Key -> Entries]
      /\ revision' \in Nat
      /\ version' \in [Service -> 0..revision']
      /\ \A s \in Service : version'[s] >= version[s] /\ (s \in changed => version'[s] > version[s])
  BY <1>1, <1>2, <1>4, Bumped
<1>6. Announced
  BY <1>3, <1>5 DEF Announced, Alike
<1>7. TypeOK'
  BY <1>1, <1>2, <1>5 DEF TypeOK, Entries
<1>8. \A k \in Key : EntryFits(k, health[k], blamed)'
  BY <1>2, <1>3, <1>5 DEF EntryFits, Settled, Earned
<1>9. ASSUME NEW k \in Key, k \notin adopted'
      PROVE  EntryOK(StateMachineConfig(k[1]), k, health[k], blamed)'
  <2>1. StateMachineConfig(k[1])' = ResolveConfig(Base, o[k[1]])
    BY <1>2 DEF StateMachineConfig
  <2> QED BY <1>2, <1>3, <1>5, <1>9, <2>1 DEF EntryOK, Sound, Settled, Earned
<1> QED BY <1>6, <1>7, <1>8, <1>9 DEF IInv

\* A merge takes over entries that are earned, and announces the new ones.
LEMMA MergeStep ==
  ASSUME IInv, MergeSnapshot
  PROVE  IInv' /\ Announced
<1>1. TypeOK
  BY DEF IInv
<1>0. PICK listed \in SUBSET Key : \E snapshot \in [listed -> Loaded] : Merge(snapshot)
  BY DEF MergeSnapshot
<1>2. PICK snapshot \in [listed -> Loaded] : Merge(snapshot)
  BY <1>0
<1>3. UNCHANGED <<clock, epochs, registered, override, reporter, ticker, pruner, reconfigs>>
  BY DEF MergeSnapshot, registryVars
<1>4. ASSUME NEW k \in listed
      PROVE  snapshot[k] \in EndpointHealth /\ Settled(snapshot[k])
  <2>1. PICK h \in Shared, epoch \in 1..epochs, at \in 1..clock :
          snapshot[k] = Stored(h, epoch, at)
    <3>1. snapshot[k] \in Loaded
      BY <1>2
    <3> QED BY <3>1 DEF Loaded
  <2>2. h \in EndpointHealth /\ Settled(h) /\ epoch \in Nat /\ at \in Nat
    BY <1>1, SharedAssumption DEF TypeOK
  <2> DEFINE a == [h EXCEPT !.epoch = epoch]
             b == [a EXCEPT !.updatedAt = at]
  <2>3. /\ a \in EndpointHealth /\ a.state = h.state /\ a.slow = h.slow /\ a.eject = h.eject
        /\ a.ejectedAt = h.ejectedAt
    BY <2>2 DEF EndpointHealth
  <2>4. snapshot[k] = b
    BY <2>1 DEF Stored
  <2> HIDE DEF a
  <2>5. /\ b \in EndpointHealth /\ b.state = h.state /\ b.slow = h.slow /\ b.eject = h.eject
        /\ b.ejectedAt = h.ejectedAt
    BY <2>2, <2>3 DEF EndpointHealth
  <2> HIDE DEF b
  <2> QED BY <2>2, <2>4, <2>5 DEF Settled
<1> DEFINE merged == { k \in DOMAIN snapshot : Older(k, snapshot[k]) }
           new == { k \in merged : ~EqualIgnoringUpdatedAt(k, snapshot[k]) }
           newHealth == [k \in Key |-> IF k \in merged THEN snapshot[k] ELSE health[k]]
           changed == { k[1] : k \in new }
<1>5. /\ Bump(newHealth, changed)
      /\ blamed' = blamed \cup
           { <<k, snapshot[k].epoch>> : k \in { j \in new : snapshot[j].score > 0 \/ snapshot[j].state # "HEALTHY" } }
      /\ adopted' = adopted \cup new
  BY <1>2 DEF Merge
<1>6. merged \subseteq listed /\ new \subseteq merged /\ listed \subseteq Key
  BY <1>2
<1>7. changed \in SUBSET Service /\ \A k \in new : k[1] \in changed
  BY <1>6 DEF Key
<1>8. blamed \subseteq blamed' /\ \A k \in new : Earned(k, snapshot[k], blamed')
  BY <1>5 DEF Earned
<1>9. ASSUME NEW k \in merged, k \notin new
      PROVE  /\ health[k] # NoHealth /\ health[k] \in EndpointHealth
             /\ snapshot[k].state = health[k].state /\ snapshot[k].epoch = health[k].epoch
             /\ snapshot[k].score = health[k].score /\ snapshot[k].slow = health[k].slow
             /\ snapshot[k].eject = health[k].eject /\ snapshot[k].ejectedAt = health[k].ejectedAt
  <2>1. health[k] # NoHealth /\ snapshot[k] = [health[k] EXCEPT !.updatedAt = snapshot[k].updatedAt]
    BY <1>9 DEF EqualIgnoringUpdatedAt
  <2>2. health[k] \in EndpointHealth
    BY <1>1, <1>6, <1>9, <2>1 DEF TypeOK
  <2> QED BY <2>1, <2>2 DEF EndpointHealth
<1>10. \A k \in Key : newHealth[k] = IF k \in merged THEN snapshot[k] ELSE health[k]
  OBVIOUS
<1>11. newHealth \in [Key -> Entries]
  BY <1>1, <1>4, <1>6 DEF TypeOK, Entries
<1> HIDE DEF merged, new, newHealth, changed
<1>12. /\ health' = newHealth /\ health' \in [Key -> Entries]
       /\ revision' \in Nat
       /\ version' \in [Service -> 0..revision']
       /\ \A s \in Service : version'[s] >= version[s] /\ (s \in changed => version'[s] > version[s])
  BY <1>1, <1>5, <1>7, <1>11, Bumped
<1>13. ASSUME NEW k \in Key
       PROVE  /\ EntryFits(k, health'[k], blamed')
              /\ k \notin adopted' => EntryOK(StateMachineConfig(k[1]), k, health'[k], blamed')
              /\ ~Alike(health[k], health'[k]) => k[1] \in changed
  <2>1. CASE k \notin merged
    <3>1. health'[k] = health[k] /\ (k \notin adopted' => k \notin adopted)
      BY <1>5, <1>10, <1>12, <2>1
    <3> QED BY <1>8, <3>1 DEF IInv, EntryFits, EntryOK, Earned, Alike
  <2>2. CASE k \in new
    <3>1. health'[k] = snapshot[k] /\ k \in adopted' /\ k[1] \in changed
      BY <1>5, <1>6, <1>7, <1>10, <1>12, <2>2
    <3> QED BY <1>4, <1>6, <1>8, <2>2, <3>1 DEF EntryFits
  <2>3. CASE k \in merged /\ k \notin new
    <3>1. health'[k] = snapshot[k] /\ (k \notin adopted' => k \notin adopted)
      BY <1>5, <1>10, <1>12, <2>3
    <3>2. snapshot[k] \in EndpointHealth /\ Settled(snapshot[k])
      BY <1>4, <1>6, <2>3
    <3>3. Earned(k, snapshot[k], blamed')
      BY <1>8, <1>9, <2>3 DEF IInv, EntryFits, Earned
    <3>4. k \notin adopted => Sound(StateMachineConfig(k[1]), snapshot[k])
      BY <1>9, <2>3, <3>2 DEF IInv, EntryOK, Sound
    <3>5. snapshot[k] # NoHealth
      BY <3>2, NoHealthAssumption
    <3>6. Alike(health[k], health'[k])
      BY <1>9, <2>3, <3>1, <3>5 DEF Alike
    <3> QED BY <3>1, <3>2, <3>3, <3>4, <3>6 DEF EntryFits, EntryOK
  <2> QED BY <2>1, <2>2, <2>3
<1>14. Announced
  BY <1>12, <1>13 DEF Announced
<1>15. TypeOK'
  BY <1>1, <1>3, <1>12 DEF TypeOK, Entries
<1>16. \A k \in Key : StateMachineConfig(k[1])' = StateMachineConfig(k[1])
  BY <1>3 DEF StateMachineConfig
<1> QED BY <1>13, <1>14, <1>15, <1>16, EntriesKept

\* Steps that leave the health map, the configurations and the blame alone.
LEMMA QuietStep ==
  ASSUME IInv, TypeOK', UNCHANGED <<health, revision, version, override, blamed, adopted>>
  PROVE  IInv' /\ Announced
<1>1. \A k \in Key : StateMachineConfig(k[1])' = StateMachineConfig(k[1])
  BY DEF StateMachineConfig
<1>3. ASSUME NEW k \in Key
      PROVE  /\ EntryFits(k, health'[k], blamed')
             /\ k \notin adopted' => EntryOK(StateMachineConfig(k[1]), k, health'[k], blamed')
  BY DEF IInv
<1>4. IInv'
  BY <1>1, <1>3, EntriesKept
<1>2. Announced
  <2>1. \A s \in Service : version[s] \in Int
    BY DEF IInv, TypeOK
  <2>2. \A s \in Service : version'[s] >= version[s]
    BY <2>1
  <2> QED BY Zenon, <2>2 DEF Announced, Alike
<1> QED BY <1>2, <1>4

\* The invariant holds initially.
LEMMA InvInit == Init => IInv
<1> SUFFICES ASSUME Init PROVE IInv
  OBVIOUS
<1>1. TypeOK
  BY TimeAssumption, BoundAssumption DEF Init, TypeOK
<1> QED BY <1>1 DEF Init, IInv, EntryOK, EntryFits

\* Every step keeps it, and announces what it changed.
LEMMA InvStep ==
  ASSUME IInv, [Next]_vars
  PROVE  IInv' /\ Announced
<1> USE DEF registryVars, managerVars, history
<1>1. TypeOK
  BY DEF IInv
<1>2. CASE Advance
  <2>1. TypeOK'
    BY <1>1, <1>2, TimeAssumption DEF Advance, TypeOK
  <2> QED BY <1>2, <2>1, QuietStep DEF Advance
<1>3. ASSUME NEW k \in Key, Register(k) \/ LeaseExpires(k) PROVE IInv' /\ Announced
  <2>1. epochs' \in 0..MaxEpoch /\ registered' \in [Key -> 0..MaxEpoch]
    BY <1>1, <1>3, BoundAssumption DEF Register, LeaseExpires, TypeOK
  <2>2. TypeOK'
    BY <1>1, <1>3, <2>1 DEF Register, LeaseExpires, TypeOK
  <2> QED BY <1>3, <2>2, QuietStep DEF Register, LeaseExpires
<1>4. ASSUME NEW c \in Reporter, NEW k \in Key, NEW rates \in Rows, NEW score \in Score,
             ReportResolve(c, k, rates, score)
      PROVE  IInv' /\ Announced
  <2> DEFINE r == [pc |-> "resolved", key |-> k, epoch |-> registered[k], rates |-> rates, score |-> score,
                   since |-> clock]
  <2>1. registered[k] \in 1..MaxEpoch /\ clock \in 1..MaxTime
    BY <1>1, <1>4, BoundAssumption DEF ReportResolve, TypeOK
  <2>2. r \in Resolved
    BY <2>1 DEF Resolved
  <2>3. reporter' = [reporter EXCEPT ![c] = r]
    BY <1>4 DEF ReportResolve
  <2> HIDE DEF r
  <2>4. reporter' \in [Reporter -> {Idle} \cup Resolved]
    BY <1>1, <2>2, <2>3 DEF TypeOK
  <2>5. TypeOK'
    BY <1>1, <1>4, <2>4 DEF ReportResolve, TypeOK
  <2> QED BY <1>4, <2>5, QuietStep DEF ReportResolve
<1>5. CASE PruneSnapshot
  <2>1. pruner' \in Noted
    BY <1>5 DEF PruneSnapshot, Noted, Key
  <2>2. TypeOK'
    BY <1>1, <1>5, <2>1 DEF PruneSnapshot, TypeOK
  <2> QED BY <1>5, <2>2, QuietStep DEF PruneSnapshot
<1>6. CASE PruneList
  <2>1. \A k \in Key : registered[k] \in Nat
    BY <1>1, BoundAssumption DEF TypeOK
  <2> DEFINE retain == { <<k, registered[k]>> : k \in { j \in Key : j[1] \in pruner.services } }
  <2>2. pruner' \in Listed
    <3>1. retain \in SUBSET (Key \X Nat)
      BY <2>1
    <3>2. pruner' = [pc |-> "lock", retain |-> retain]
      BY <1>6 DEF PruneList
    <3> HIDE DEF retain
    <3> QED BY <3>1, <3>2 DEF Listed
  <2>3. TypeOK'
    BY <1>1, <1>6, <2>2 DEF PruneList, TypeOK
  <2> QED BY <1>6, <2>3, QuietStep DEF PruneList
<1>7. CASE ReplaceServiceStateMachineConfigs
  BY <1>7, PolicyStep DEF ReplaceServiceStateMachineConfigs
<1>8. CASE SetServiceStateMachineConfig
  <2>1. PICK s \in Service, o \in Overrides : ApplyPolicies([override EXCEPT ![s] = o])
    BY <1>8 DEF SetServiceStateMachineConfig
  <2>2. [override EXCEPT ![s] = o] \in [Service -> Overrides]
    BY <1>1 DEF TypeOK
  <2> QED BY <2>1, <2>2, PolicyStep
<1>9. CASE UNCHANGED vars
  <2>1. TypeOK'
    BY <1>1, <1>9 DEF vars, TypeOK
  <2> QED BY <1>9, <2>1, QuietStep DEF vars
<1> QED BY <1>2, <1>3, <1>4, <1>5, <1>6, <1>7, <1>8, <1>9, UpdateStep, TickStep, PruneStep,
       MergeStep DEF Next

----------------------------------------------------------------------------
\* The manager's state keeps its type, with every clock reading, epoch and
\* configuration that a caller read before it waited for the lock.
THEOREM TypeCorrect == Spec => []TypeOK
<1>1. IInv => TypeOK
  BY DEF IInv
<1>2. IInv /\ [Next]_vars => IInv'
  BY InvStep
<1> QED BY <1>1, <1>2, InvInit, PTL DEF Spec

\* Blame is never inherited, for any number of services, instances, reports,
\* merges and registrations (Update, Tick, PruneMissing, MergeSnapshot of
\* pkg/fault/manager.go).
THEOREM BlameIsEarned == Spec => []NoInheritedBlame
<1>1. IInv => NoInheritedBlame
  BY DEF IInv, EntryFits, Earned, NoInheritedBlame
<1>2. IInv /\ [Next]_vars => IInv'
  BY InvStep
<1> QED BY <1>1, <1>2, InvInit, PTL DEF Spec

\* No endpoint is owed a transition once it was judged here, for every base
\* configuration without a zero field, every set of overrides, and whatever
\* other controllers with other thresholds share (Update, Tick, MergeSnapshot
\* and the replacement of configurations of pkg/fault/manager.go).
THEOREM TransitionsTaken == Spec => []NoTransitionOwed
<1>1. IInv => NoTransitionOwed
  BY DEF IInv, EntryOK, Sound, Settled, NoTransitionOwed
<1>2. IInv /\ [Next]_vars => IInv'
  BY InvStep
<1> QED BY <1>1, <1>2, InvInit, PTL DEF Spec

\* A view that changes gets a larger version, and no version goes back.
THEOREM ViewsAnnounced == Spec => VersionAnnouncesView
<1>1. IInv /\ [Next]_vars => IInv'
  BY InvStep
<1>2. ASSUME IInv, [Next]_vars
      PROVE  [\A s \in Service :
                /\ version'[s] >= version[s]
                /\ View(s)' # View(s) => version'[s] > version[s]]_vars
  <2>1. Announced
    BY <1>2, InvStep
  <2>2. ASSUME NEW s \in Service, \A k \in Key : k[1] = s => Alike(health[k], health'[k])
        PROVE  View(s)' = View(s)
    <3>1. \A k \in Key : k[1] = s => (health'[k] # NoHealth <=> health[k] # NoHealth)
      BY <2>2 DEF Alike
    <3>2. \A k \in Key : k[1] = s /\ health[k] # NoHealth
                         => health'[k].epoch = health[k].epoch /\ health'[k].state = health[k].state
      BY <2>2 DEF Alike
    <3> QED BY <3>1, <3>2 DEF View
  <2> QED BY <2>1, <2>2 DEF Announced, Alike
<1> QED BY <1>1, <1>2, InvInit, PTL DEF Spec, VersionAnnouncesView

\* No ejection outlives the first tick after its duration.
THEOREM TicksEndEjections == Spec => EjectionsEnd
<1>1. IInv /\ [Next]_vars => IInv'
  BY InvStep
<1>2. ASSUME IInv, [Next]_vars
      PROVE  [TickHealth => \A k \in Key :
                health'[k] # NoHealth /\ health'[k].state = "EJECTED"
                  => ticker' - health'[k].ejectedAt < StateMachineConfig(k[1]).duration]_vars
  BY <1>2, TickStep
<1> QED BY <1>1, <1>2, InvInit, PTL DEF Spec, EjectionsEnd
=============================================================================
