------------------------------ MODULE Recorder ------------------------------
(***************************************************************************)
(* The SDK's telemetry: pkg/telemetry/recorder.go, whose counters are      *)
(* atomics that the RPCs raise while the reporter of                       *)
(* sdk/go/aegisgrpc/reporter.go reads and resets them, and whose latency   *)
(* histogram is guarded by the row's mutex.                                *)
(*                                                                         *)
(* One row: rows share nothing but the map they are found in.  A latency is*)
(* kept as one more entry of the histogram.                                *)
(***************************************************************************)
EXTENDS Naturals

CONSTANT Call   \* RPCs, each observed once

VARIABLES row,        \* the counters and the number of latencies recorded
          obs,        \* the observation each RPC is making
          snap,       \* the snapshot the reporter is taking, or has in hand
          counted,    \* history: what was added to each counter,
          raced,      \*   of this, what was added inside a snapshot,
          reported,   \*   and what was sent, whether or not it arrived
          stopped     \* the connection is closed

recorderVars == <<row, obs, snap, counted, raced, reported, stopped>>

Counter == {"request", "error", "timeout"}
Field == Counter \cup {"latency"}
None == [f \in Field |-> 0]
Status == {"OK", "UNAVAILABLE", "DEADLINE_EXCEEDED"}

RecorderInit ==
  /\ row = [fields |-> None, inflight |-> 0]
  /\ obs = [c \in Call |-> [pc |-> "idle", status |-> "OK"]]
  /\ snap = [pc |-> "idle", fields |-> None]
  /\ counted = None /\ raced = None /\ reported = None
  /\ stopped = FALSE

\* The row's mutex is taken.
Locked == snap.pc \notin {"idle", "send"}

\* The counter, or the histogram, has been read and is not reset yet.
Read(f) == CASE f = "request" -> snap.pc \in {"error", "timeout", "reset request"}
             [] f = "error"   -> snap.pc \in {"timeout", "reset request", "reset error"}
             [] f = "timeout" -> snap.pc \in {"reset request", "reset error", "reset timeout"}
             [] f = "latency" -> snap.pc \in {"reset request", "reset error", "reset timeout"}

Add(f) ==
  /\ row' = [row EXCEPT !.fields[f] = @ + 1]
  /\ counted' = [counted EXCEPT ![f] = @ + 1]
  /\ raced' = [raced EXCEPT ![f] = IF Read(f) THEN @ + 1 ELSE @]

ObsAt(c, pc) == obs[c].pc = pc
ObsGoto(c, pc) == obs' = [obs EXCEPT ![c].pc = pc]

----------------------------------------------------------------------------
(* An RPC.                                                                 *)

\* Start: the row is found or made, and one more call is in flight.
Start(c) ==
  /\ ObsAt(c, "idle")
  /\ row' = [row EXCEPT !.inflight = @ + 1]
  /\ ObsGoto(c, "inflight")
  /\ UNCHANGED <<snap, counted, raced, reported, stopped>>

\* The function Start returned ends it, once.
Finish(c, s) ==
  /\ ObsAt(c, "inflight")
  /\ row' = [row EXCEPT !.inflight = IF @ > 0 THEN @ - 1 ELSE 0]
  /\ obs' = [obs EXCEPT ![c] = [pc |-> "request", status |-> s]]
  /\ UNCHANGED <<snap, counted, raced, reported, stopped>>

\* Observe: an RPC that ended is recorded without being counted in flight.
Observe(c, s) ==
  /\ ObsAt(c, "idle")
  /\ obs' = [obs EXCEPT ![c] = [pc |-> "request", status |-> s]]
  /\ UNCHANGED <<row, snap, counted, raced, reported, stopped>>

\* recordObservation: three counters, each on its own,
AfterRequest(s) == IF s # "OK" THEN "error" ELSE "latency"
AfterError(s) == IF s = "DEADLINE_EXCEEDED" THEN "timeout" ELSE "latency"

AddRequest(c) ==
  /\ ObsAt(c, "request") /\ Add("request")
  /\ ObsGoto(c, AfterRequest(obs[c].status))
  /\ UNCHANGED <<snap, reported, stopped>>

AddError(c) ==
  /\ ObsAt(c, "error") /\ Add("error")
  /\ ObsGoto(c, AfterError(obs[c].status))
  /\ UNCHANGED <<snap, reported, stopped>>

AddTimeout(c) ==
  /\ ObsAt(c, "timeout") /\ Add("timeout")
  /\ ObsGoto(c, "latency")
  /\ UNCHANGED <<snap, reported, stopped>>

\* and the histogram under the mutex.
RecordLatency(c) ==
  /\ ObsAt(c, "latency") /\ ~Locked /\ Add("latency")
  /\ ObsGoto(c, "done")
  /\ UNCHANGED <<snap, reported, stopped>>

----------------------------------------------------------------------------
(* The reporter: ReportOnce, with SnapshotAndReset.                        *)

SnapGoto(pc) == snap' = [snap EXCEPT !.pc = pc]

\* Mutant of Empty: a row with calls in flight is left for later.
EmptyOrBusy == row.fields["request"] = 0 \/ row.inflight > 0

\* A row that nothing happened to is skipped.
Empty == row.fields["request"] = 0 /\ row.inflight = 0

SnapshotRow ==
  /\ snap.pc = "idle" /\ ~stopped /\ ~Empty
  /\ snap' = [pc |-> "error", fields |-> [None EXCEPT !["request"] = row.fields["request"]]]
  /\ UNCHANGED <<row, obs, counted, raced, reported, stopped>>

SnapshotErrors ==
  /\ snap.pc = "error"
  /\ snap' = [snap EXCEPT !.pc = "timeout", !.fields["error"] = row.fields["error"]]
  /\ UNCHANGED <<row, obs, counted, raced, reported, stopped>>

\* The last counter, the histogram's quantile.
SnapshotTimeouts ==
  /\ snap.pc = "timeout"
  /\ snap' = [snap EXCEPT !.pc = "reset request", !.fields["timeout"] = row.fields["timeout"],
                          !.fields["latency"] = row.fields["latency"]]
  /\ UNCHANGED <<row, obs, counted, raced, reported, stopped>>

\* Mutant of ResetRequests: the counter is not reset.
KeepRequests ==
  /\ snap.pc = "reset request" /\ SnapGoto("reset error")
  /\ UNCHANGED <<row, obs, counted, raced, reported, stopped>>

ResetRequests ==
  /\ snap.pc = "reset request" /\ SnapGoto("reset error")
  /\ row' = [row EXCEPT !.fields["request"] = 0]
  /\ UNCHANGED <<obs, counted, raced, reported, stopped>>

ResetErrors ==
  /\ snap.pc = "reset error" /\ SnapGoto("reset timeout")
  /\ row' = [row EXCEPT !.fields["error"] = 0]
  /\ UNCHANGED <<obs, counted, raced, reported, stopped>>

\* The histograms are swapped and both cleared; the mutex is released.
ResetTimeouts ==
  /\ snap.pc = "reset timeout" /\ SnapGoto("send")
  /\ row' = [row EXCEPT !.fields["timeout"] = 0, !.fields["latency"] = 0]
  /\ UNCHANGED <<obs, counted, raced, reported, stopped>>

\* The report is sent once; the window is gone whatever becomes of it.
ReportOnce ==
  /\ snap.pc = "send"
  /\ reported' = [f \in Field |-> reported[f] + snap.fields[f]]
  /\ snap' = [pc |-> "idle", fields |-> None]
  /\ UNCHANGED <<row, obs, counted, raced, stopped>>

\* The connection is closed, and the reporter ends with it.
StopReporter ==
  /\ ~stopped /\ stopped' = TRUE
  /\ UNCHANGED <<row, obs, snap, counted, raced, reported>>

CallObserves(c) == AddRequest(c) \/ AddError(c) \/ AddTimeout(c) \/ RecordLatency(c)
Reports ==
  \/ SnapshotRow \/ SnapshotErrors \/ SnapshotTimeouts
  \/ ResetRequests \/ ResetErrors \/ ResetTimeouts
  \/ ReportOnce
=============================================================================
