--------------------------- MODULE MCRegistration ---------------------------
(* Registration for TLC: two processes claim one instance ID.              *)
EXTENDS Registration

MCLease == 1..4
MCEpoch == 1..4
=============================================================================
