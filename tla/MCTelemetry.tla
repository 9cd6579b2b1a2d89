---------------------------- MODULE MCTelemetry ----------------------------
(* Telemetry for TLC: two RPCs with the recorder alone, three with the trace*)
(* writer alone, and one with both.                                         *)
EXTENDS Telemetry

CONSTANTS r1, r2, r3

MCDialOptions ==
  { [recorder |-> TRUE,  tracer |-> FALSE, calls |-> {r1, r2}],
    [recorder |-> FALSE, tracer |-> TRUE,  calls |-> {r1, r2, r3}],
    [recorder |-> TRUE,  tracer |-> TRUE,  calls |-> {r1}] }
=============================================================================
