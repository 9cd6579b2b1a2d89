---------------------------- MODULE StateMachine ----------------------------
(***************************************************************************)
(* pkg/fault/state_machine.go: how one window of telemetry moves an        *)
(* endpoint between HEALTHY, DEGRADED, EJECTED and PROBING.                *)
(*                                                                         *)
(* Scores, rates and thresholds are compared and never computed with, so   *)
(* small integers stand for the floats.  Time 0 is the zero time.Time.     *)
(***************************************************************************)
EXTENDS Integers

Config == [degraded : Nat, eject : Nat, windows : Nat, duration : Nat, recovery : Nat, probe : Nat]

\* A configuration defaultStateMachineConfig can return: nothing is zero.
Effective(cfg) ==
  /\ cfg \in Config
  /\ \A f \in DOMAIN cfg : cfg[f] > 0

EndpointState == {"HEALTHY", "DEGRADED", "EJECTED", "PROBING"}

EndpointHealth ==
  [epoch : Nat, state : EndpointState, score : Nat, slow : Nat, eject : Nat,
   ejectedAt : Nat, updatedAt : Nat]

NewEndpointHealth(epoch) ==
  [epoch |-> epoch, state |-> "HEALTHY", score |-> 0, slow |-> 0, eject |-> 0,
   ejectedAt |-> 0, updatedAt |-> 0]

\* A zero field of an override inherits the base configuration.
ResolveConfig(base, override) ==
  [f \in DOMAIN base |-> IF override[f] > 0 THEN override[f] ELSE base[f]]

\* Mutant of Transition: the time of the ejection is not recorded.
TransitionUntimed(h, next, now) ==
  IF h.state = next THEN h
  ELSE [h EXCEPT !.state = next, !.slow = 0, !.eject = 0,
                 !.ejectedAt = IF next = "HEALTHY" THEN 0 ELSE @]

\* PROBING keeps the time of the ejection that led to it.
Transition(h, next, now) ==
  IF h.state = next THEN h
  ELSE [h EXCEPT !.state = next, !.slow = 0, !.eject = 0,
                 !.ejectedAt = CASE next = "EJECTED" -> now
                                 [] next = "HEALTHY" -> 0
                                 [] OTHER -> @]

CountWindow(cfg, h, score) ==
  [h EXCEPT !.eject = IF score >= cfg.eject THEN @ + 1 ELSE 0,
            !.slow  = IF score >= cfg.eject \/ score >= cfg.degraded THEN @ + 1 ELSE 0]

ApplyEjected(cfg, h, now) ==
  IF h.ejectedAt # 0 /\ now - h.ejectedAt >= cfg.duration
  THEN Transition(h, "PROBING", now) ELSE h

ApplyProbing(cfg, h, now, rate) ==
  IF rate < cfg.probe \/ h.score >= cfg.degraded THEN Transition(h, "EJECTED", now)
  ELSE IF h.score <= cfg.recovery THEN Transition(h, "HEALTHY", now) ELSE h

ApplyRouted(cfg, h, now) ==
  LET counted == CountWindow(cfg, h, h.score)
  IN IF counted.eject >= cfg.windows THEN Transition(counted, "EJECTED", now)
     ELSE IF counted.slow >= cfg.windows THEN Transition(counted, "DEGRADED", now)
     ELSE IF h.state = "DEGRADED" /\ h.score <= cfg.recovery THEN Transition(counted, "HEALTHY", now)
     ELSE counted

Apply(cfg, health, now, score, rate) ==
  LET h == [health EXCEPT !.score = score]
  IN CASE h.state = "EJECTED" -> ApplyEjected(cfg, h, now)
       [] h.state = "PROBING" -> ApplyProbing(cfg, h, now, rate)
       [] OTHER -> ApplyRouted(cfg, h, now)
=============================================================================
