------------------------ MODULE MCHealthReplication ------------------------
(* HealthReplication for TLC: two controllers of one goroutine each, and    *)
(* one of two, that nothing fails for; and one of two with failures.        *)
EXTENDS HealthReplication

CONSTANTS c1, c2, g1, g2

Pair   == [controllers |-> {c1, c2}, goroutines |-> {g1}, maxAge |-> 0, adverse |-> FALSE]
Single == [controllers |-> {c1}, goroutines |-> {g1, g2}, maxAge |-> 1, adverse |-> TRUE]
Alone  == [controllers |-> {c1}, goroutines |-> {g1, g2}, maxAge |-> 0, adverse |-> FALSE]
MCDeployment == {Pair, Alone, Single}
=============================================================================
