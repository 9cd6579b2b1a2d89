-------------------------- MODULE MCHealthManager --------------------------
EXTENDS HealthManager, TLC

MCBase == [degraded |-> 2, eject |-> 3, windows |-> 2, duration |-> 1, recovery |-> 1, probe |-> 1]
Inherit == [degraded |-> 0, eject |-> 0, windows |-> 0, duration |-> 0, recovery |-> 0, probe |-> 0]
Strict == [Inherit EXCEPT !.windows = 1]
MCOverrides == {Inherit, Strict}
\* A controller with more windows has counted to 2, or has ejected the endpoint.
Slow == [NewEndpointHealth(1) EXCEPT !.score = 2, !.slow = 2]
Ejected == [NewEndpointHealth(1) EXCEPT !.state = "EJECTED", !.score = 3, !.ejectedAt = 1]
MCShared == {Slow, Ejected}
Reporters == Permutations(Reporter)
=============================================================================
