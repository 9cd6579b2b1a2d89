------------------------------- MODULE MCAgent -------------------------------
(* The agent for TLC: two threads, one map entry, an IPv4 and an IPv6 peer. *)
EXTENDS Agent

MCEndpoint == { [addr |-> 1, port |-> 1], [addr |-> 0, port |-> 1] }
\* Connects that overlap, and events that are reported.
MCLoad ==
  { [time |-> 0, connects |-> 2, retransmits |-> 0, missed |-> 1, ticker |-> FALSE],
    [time |-> 1, connects |-> 1, retransmits |-> 1, missed |-> 0, ticker |-> TRUE],
    [time |-> 0, connects |-> 0, retransmits |-> 3, missed |-> 0, ticker |-> TRUE] }
=============================================================================
