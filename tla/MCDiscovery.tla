---------------------------- MODULE MCDiscovery ----------------------------
EXTENDS Discovery, TLC

CONSTANTS i1, i2

Begin(e, l, both, changes, health, breaks, resolves, restarts) ==
  [etcd |-> e, legacy |-> l,
   keys |-> IF both THEN i1 :> 1 @@ i2 :> 2 ELSE i1 :> 0 @@ i2 :> 0, revision |-> IF both THEN 2 ELSE 0,
   left |-> [changes |-> changes, health |-> health, breaks |-> breaks, resolves |-> resolves,
            restarts |-> restarts]]

\* Failures until the resolver polls, while instances and health change; calls
\* that race the stream; etcd's keys written and deleted; and a controller that is
\* replaced.
MCSetup ==
  { Begin(FALSE, FALSE, FALSE, 1, 1, 3, 0, 0),
    Begin(FALSE, FALSE, TRUE,  1, 1, 1, 1, 0),
    Begin(FALSE, TRUE,  FALSE, 1, 1, 1, 1, 0),
    Begin(TRUE,  FALSE, FALSE, 1, 1, 2, 0, 0),
    Begin(TRUE,  FALSE, TRUE,  3, 0, 0, 1, 0),
    Begin(TRUE,  FALSE, TRUE,  2, 0, 1, 0, 0),
    Begin(FALSE, FALSE, TRUE,  1, 1, 0, 0, 1),
    Begin(FALSE, FALSE, FALSE, 2, 0, 0, 1, 1),
    Begin(TRUE,  FALSE, TRUE,  1, 1, 0, 0, 1) }
=============================================================================
