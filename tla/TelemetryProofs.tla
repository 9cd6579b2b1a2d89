-------------------------- MODULE TelemetryProofs --------------------------
(***************************************************************************)
(* Proofs about Telemetry.tla, for any RPCs, dial options and AsyncConfig. *)
(***************************************************************************)
EXTENDS Telemetry, TLAPS

----------------------------------------------------------------------------
(* The recorder.                                                           *)

\* A counter that has not been read yet is not in the snapshot.
Ahead(f) ==
  \/ snap.pc = "idle"
  \/ snap.pc = "error" /\ f # "request"
  \/ snap.pc = "timeout" /\ f \in {"timeout", "latency"}

\* While a counter has been read and is not reset, what the reset will forget
\* is what was added since, and all of it raced.
FieldKept(f) ==
  /\ Ahead(f) => snap.fields[f] = 0
  /\ raced[f] <= counted[f]
  /\ Kept(f) <= counted[f]
  /\ counted[f] <= reported[f] + snap.fields[f] + raced[f] + IF Read(f) THEN 0 ELSE row.fields[f]
  /\ Read(f) => snap.fields[f] <= row.fields[f]

\* The histogram is only touched under the mutex that the snapshot holds.
LatencyKept == raced["latency"] = 0

RecorderInv == RecorderTypeOK /\ LatencyKept /\ \A f \in Field : FieldKept(f)

\* What Add does to each field.
LEMMA AddsOne ==
  ASSUME RecorderTypeOK, NEW g \in Field, Add(g)
  PROVE  /\ row' \in [fields : [Field -> Nat], inflight : Nat]
         /\ counted' \in [Field -> Nat] /\ raced' \in [Field -> Nat]
         /\ \A f \in Field :
              /\ row'.fields[f] = IF f = g THEN row.fields[f] + 1 ELSE row.fields[f]
              /\ counted'[f] = IF f = g THEN counted[f] + 1 ELSE counted[f]
              /\ raced'[f] = IF f = g /\ Read(f) THEN raced[f] + 1 ELSE raced[f]
<1> DEFINE new == [row.fields EXCEPT ![g] = @ + 1]
<1>1. row.fields \in [Field -> Nat] /\ row.inflight \in Nat
  BY DEF RecorderTypeOK
<1>2. new \in [Field -> Nat] /\ \A f \in Field : new[f] = IF f = g THEN row.fields[f] + 1 ELSE row.fields[f]
  BY <1>1
<1>3. row' = [row EXCEPT !.fields = new]
  BY DEF Add
<1>4. row' \in [fields : [Field -> Nat], inflight : Nat] /\ row'.fields = new
  <2> HIDE DEF new
  <2> QED BY <1>2, <1>3 DEF RecorderTypeOK
<1>5. counted' \in [Field -> Nat] /\ \A f \in Field : counted'[f] = IF f = g THEN counted[f] + 1 ELSE counted[f]
  <2>1. counted \in [Field -> Nat] /\ counted' = [counted EXCEPT ![g] = @ + 1]
    BY DEF Add, RecorderTypeOK
  <2> QED BY <2>1
<1>6. /\ raced' \in [Field -> Nat]
      /\ \A f \in Field : raced'[f] = IF f = g /\ Read(f) THEN raced[f] + 1 ELSE raced[f]
  <2>1. raced \in [Field -> Nat] /\ raced' = [raced EXCEPT ![g] = IF Read(g) THEN @ + 1 ELSE @]
    BY DEF Add, RecorderTypeOK
  <2>2. CASE Read(g)
    BY <2>1, <2>2
  <2>3. CASE ~Read(g)
    BY <2>1, <2>3
  <2> QED BY <2>2, <2>3
<1> HIDE DEF new
<1> QED BY <1>2, <1>4, <1>5, <1>6

\* What an RPC adds is in the row, and raced if it was added too late to be
\* read and too early to survive the reset.
LEMMA AddKeeps ==
  ASSUME RecorderInv, NEW g \in Field, Add(g), g = "latency" => ~Locked,
         UNCHANGED <<snap, reported, stopped>>,
         obs' \in [Call -> [pc : {"idle", "inflight", "request", "error", "timeout", "latency", "done"},
                            status : Status]]
  PROVE  RecorderInv'
<1>1. RecorderTypeOK
  BY DEF RecorderInv
<1>2. /\ row' \in [fields : [Field -> Nat], inflight : Nat]
      /\ counted' \in [Field -> Nat] /\ raced' \in [Field -> Nat]
      /\ \A f \in Field :
           /\ row'.fields[f] = IF f = g THEN row.fields[f] + 1 ELSE row.fields[f]
           /\ counted'[f] = IF f = g THEN counted[f] + 1 ELSE counted[f]
           /\ raced'[f] = IF f = g /\ Read(f) THEN raced[f] + 1 ELSE raced[f]
  BY <1>1, AddsOne
<1>3. RecorderTypeOK'
  BY <1>1, <1>2 DEF RecorderTypeOK
<1>4. ASSUME NEW f \in Field PROVE FieldKept(f)'
  <2>1. Read(f)' = Read(f) /\ Ahead(f)' = Ahead(f)
    BY DEF Read, Ahead
  <2>2. /\ row.fields[f] \in Nat /\ counted[f] \in Nat /\ raced[f] \in Nat
        /\ reported[f] \in Nat /\ snap.fields[f] \in Nat
    BY <1>1 DEF RecorderTypeOK
  <2>3. FieldKept(f)
    BY DEF RecorderInv
  <2> QED BY <1>2, <2>1, <2>2, <2>3 DEF FieldKept, Kept
<1>5. LatencyKept'
  <2>1. "latency" \in Field
    BY DEF Field
  <2>2. g = "latency" => ~Read("latency")
    BY DEF Locked, Read
  <2> QED BY <1>2, <2>1, <2>2 DEF RecorderInv, LatencyKept
<1> QED BY <1>3, <1>4, <1>5 DEF RecorderInv

ObsType == [Call -> [pc : {"idle", "inflight", "request", "error", "timeout", "latency", "done"},
                     status : Status]]

\* The steps of an RPC.
LEMMA CallStep ==
  ASSUME RecorderInv, NEW c \in Call,
         \/ CallObserves(c)
         \/ Start(c)
         \/ \E s \in Status : Observe(c, s) \/ Finish(c, s)
  PROVE  RecorderInv'
<1>1. RecorderTypeOK /\ obs \in ObsType /\ obs[c].status \in Status
  BY DEF RecorderInv, RecorderTypeOK, ObsType
<1>2. ASSUME NEW pc \in {"idle", "inflight", "request", "error", "timeout", "latency", "done"}, ObsGoto(c, pc)
      PROVE  obs' \in ObsType
  BY <1>1, <1>2 DEF ObsGoto, ObsType
<1>3. ASSUME NEW s \in Status, obs' = [obs EXCEPT ![c] = [pc |-> "request", status |-> s]]
      PROVE  obs' \in ObsType
  BY <1>1, <1>3 DEF ObsType
<1>4. CASE AddRequest(c)
  <2>1. obs' \in ObsType
    BY <1>4, <1>2 DEF AddRequest, AfterRequest
  <2>2. Add("request") /\ UNCHANGED <<snap, reported, stopped>> /\ "request" \in Field
    BY <1>4 DEF AddRequest, Field, Counter
  <2> QED BY <2>1, <2>2, AddKeeps DEF ObsType
<1>5. CASE AddError(c)
  <2>1. obs' \in ObsType
    BY <1>5, <1>2 DEF AddError, AfterError
  <2>2. Add("error") /\ UNCHANGED <<snap, reported, stopped>> /\ "error" \in Field
    BY <1>5 DEF AddError, Field, Counter
  <2> QED BY <2>1, <2>2, AddKeeps DEF ObsType
<1>6. CASE AddTimeout(c)
  <2>1. obs' \in ObsType
    BY <1>6, <1>2 DEF AddTimeout
  <2>2. Add("timeout") /\ UNCHANGED <<snap, reported, stopped>> /\ "timeout" \in Field
    BY <1>6 DEF AddTimeout, Field, Counter
  <2> QED BY <2>1, <2>2, AddKeeps DEF ObsType
<1>7. CASE RecordLatency(c)
  <2>1. obs' \in ObsType
    BY <1>7, <1>2 DEF RecordLatency
  <2>2. Add("latency") /\ ~Locked /\ UNCHANGED <<snap, reported, stopped>> /\ "latency" \in Field
    BY <1>7 DEF RecordLatency, Field
  <2> QED BY <2>1, <2>2, AddKeeps DEF ObsType
<1>8. ASSUME obs' \in ObsType, UNCHANGED <<snap, counted, raced, reported, stopped>>,
             row' \in [fields : [Field -> Nat], inflight : Nat], row'.fields = row.fields
      PROVE  RecorderInv'
  <2>1. RecorderTypeOK'
    BY <1>1, <1>8 DEF RecorderTypeOK, ObsType
  <2>2. ASSUME NEW f \in Field PROVE FieldKept(f)'
    <3>1. Read(f)' = Read(f) /\ Ahead(f)' = Ahead(f)
      BY <1>8 DEF Read, Ahead
    <3> QED BY <1>8, <3>1 DEF RecorderInv, FieldKept, Kept
  <2> QED BY <1>8, <2>1, <2>2 DEF RecorderInv, LatencyKept
<1>9. row \in [fields : [Field -> Nat], inflight : Nat]
  BY <1>1 DEF RecorderTypeOK
<1>10. CASE Start(c)
  <2>1. obs' \in ObsType
    BY <1>10, <1>2 DEF Start
  <2>2. row' \in [fields : [Field -> Nat], inflight : Nat] /\ row'.fields = row.fields
    BY <1>9, <1>10 DEF Start
  <2> QED BY <1>8, <1>10, <2>1, <2>2 DEF Start
<1>11. ASSUME NEW s \in Status, Observe(c, s) PROVE RecorderInv'
  BY <1>3, <1>8, <1>9, <1>11 DEF Observe
<1>12. ASSUME NEW s \in Status, Finish(c, s) PROVE RecorderInv'
  <2>1. obs' \in ObsType
    BY <1>12, <1>3 DEF Finish
  <2>2. row' \in [fields : [Field -> Nat], inflight : Nat] /\ row'.fields = row.fields
    BY <1>9, <1>12 DEF Finish
  <2> QED BY <1>8, <1>12, <2>1, <2>2 DEF Finish
<1> QED BY <1>4, <1>5, <1>6, <1>7, <1>10, <1>11, <1>12 DEF CallObserves

\* The row after some of its counters are set to zero.
LEMMA Cleared ==
  ASSUME RecorderTypeOK, NEW g \in Field
  PROVE  /\ [row EXCEPT !.fields[g] = 0] \in [fields : [Field -> Nat], inflight : Nat]
         /\ \A f \in Field : [row EXCEPT !.fields[g] = 0].fields[f] = IF f = g THEN 0 ELSE row.fields[f]
<1> DEFINE new == [row.fields EXCEPT ![g] = 0]
<1>1. row \in [fields : [Field -> Nat], inflight : Nat]
  BY DEF RecorderTypeOK
<1>2. new \in [Field -> Nat] /\ \A f \in Field : new[f] = IF f = g THEN 0 ELSE row.fields[f]
  BY <1>1
<1>3. [row EXCEPT !.fields[g] = 0] = [row EXCEPT !.fields = new]
  BY <1>1
<1> HIDE DEF new
<1> QED BY <1>1, <1>2, <1>3

\* The steps of the reporter: each reads or resets one counter, or two.
LEMMA ReporterStep ==
  ASSUME RecorderInv, Reports
  PROVE  RecorderInv'
<1>1. RecorderTypeOK
  BY DEF RecorderInv
<1>n. \A f \in Field : /\ row.fields[f] \in Nat /\ counted[f] \in Nat /\ raced[f] \in Nat
                        /\ reported[f] \in Nat /\ snap.fields[f] \in Nat
  BY <1>1 DEF RecorderTypeOK
<1>f. Field = {"request", "error", "timeout", "latency"}
  BY DEF Field, Counter
<1>r. /\ Read("request") <=> snap.pc \in {"error", "timeout", "reset request"}
      /\ Read("error") <=> snap.pc \in {"timeout", "reset request", "reset error"}
      /\ Read("timeout") <=> snap.pc \in {"reset request", "reset error", "reset timeout"}
      /\ Read("latency") <=> snap.pc \in {"reset request", "reset error", "reset timeout"}
      /\ Read("request")' <=> snap'.pc \in {"error", "timeout", "reset request"}
      /\ Read("error")' <=> snap'.pc \in {"timeout", "reset request", "reset error"}
      /\ Read("timeout")' <=> snap'.pc \in {"reset request", "reset error", "reset timeout"}
      /\ Read("latency")' <=> snap'.pc \in {"reset request", "reset error", "reset timeout"}
  BY DEF Read
<1>l. UNCHANGED raced => LatencyKept'
  BY DEF RecorderInv, LatencyKept
<1>2. CASE SnapshotRow
  <2> DEFINE new == [None EXCEPT !["request"] = row.fields["request"]]
  <2>1. new \in [Field -> Nat] /\ \A f \in Field : new[f] = IF f = "request" THEN row.fields[f] ELSE 0
    BY <1>n, <1>f DEF None
  <2>2. /\ snap.pc = "idle" /\ snap' = [pc |-> "error", fields |-> new]
        /\ UNCHANGED <<row, obs, counted, raced, reported, stopped>>
    BY <1>2 DEF SnapshotRow
  <2> HIDE DEF new
  <2>3. RecorderTypeOK'
    BY <1>1, <2>1, <2>2 DEF RecorderTypeOK
  <2>4. ASSUME NEW f \in Field PROVE FieldKept(f)'
    <3>1. FieldKept(f)
      BY DEF RecorderInv
    <3>2. Ahead(f) /\ (Ahead(f)' <=> f # "request")
      BY <2>2 DEF Ahead
    <3>3. ~Read(f) /\ (Read(f)' <=> f = "request")
      BY <1>r, <1>f, <2>2
    <3>4. CASE f = "request"
      BY <1>n, <2>1, <2>2, <3>1, <3>2, <3>3, <3>4 DEF FieldKept, Kept
    <3>5. CASE f # "request"
      BY <1>n, <2>1, <2>2, <3>1, <3>2, <3>3, <3>5 DEF FieldKept, Kept
    <3> QED BY <3>4, <3>5
  <2> QED BY <1>l, <2>2, <2>3, <2>4 DEF RecorderInv
<1>3. CASE SnapshotErrors
  <2> DEFINE new == [snap.fields EXCEPT !["error"] = row.fields["error"]]
  <2>1. new \in [Field -> Nat] /\ \A f \in Field : new[f] = IF f = "error" THEN row.fields[f] ELSE snap.fields[f]
    BY <1>1, <1>n, <1>f DEF RecorderTypeOK
  <2>2. /\ snap.pc = "error" /\ snap' = [pc |-> "timeout", fields |-> new]
        /\ UNCHANGED <<row, obs, counted, raced, reported, stopped>>
    BY <1>1, <1>3 DEF SnapshotErrors, RecorderTypeOK
  <2> HIDE DEF new
  <2>3. RecorderTypeOK'
    BY <1>1, <2>1, <2>2 DEF RecorderTypeOK
  <2>4. ASSUME NEW f \in Field PROVE FieldKept(f)'
    <3>1. FieldKept(f)
      BY DEF RecorderInv
    <3>2. (Ahead(f) <=> f # "request") /\ (Ahead(f)' <=> f \in {"timeout", "latency"})
      BY <2>2, <1>f DEF Ahead
    <3>3. (Read(f) <=> f = "request") /\ (Read(f)' <=> f \in {"request", "error"})
      BY <1>r, <1>f, <2>2
    <3>4. CASE f = "error"
      BY <1>n, <2>1, <2>2, <3>1, <3>2, <3>3, <3>4 DEF FieldKept, Kept
    <3>5. CASE f # "error"
      BY <1>f, <1>n, <2>1, <2>2, <3>1, <3>2, <3>3, <3>5 DEF FieldKept, Kept
    <3> QED BY <3>4, <3>5
  <2> QED BY <1>l, <2>2, <2>3, <2>4 DEF RecorderInv
<1>4. CASE SnapshotTimeouts
  <2> DEFINE new == [[snap.fields EXCEPT !["timeout"] = row.fields["timeout"]]
                       EXCEPT !["latency"] = row.fields["latency"]]
  <2>1. /\ new \in [Field -> Nat]
        /\ \A f \in Field : new[f] = IF f \in {"timeout", "latency"} THEN row.fields[f] ELSE snap.fields[f]
    BY <1>1, <1>n, <1>f DEF RecorderTypeOK
  <2>2. /\ snap.pc = "timeout" /\ snap' = [pc |-> "reset request", fields |-> new]
        /\ UNCHANGED <<row, obs, counted, raced, reported, stopped>>
    BY <1>1, <1>4 DEF SnapshotTimeouts, RecorderTypeOK
  <2> HIDE DEF new
  <2>3. RecorderTypeOK'
    BY <1>1, <2>1, <2>2 DEF RecorderTypeOK
  <2>4. ASSUME NEW f \in Field PROVE FieldKept(f)'
    <3>1. FieldKept(f)
      BY DEF RecorderInv
    <3>2. (Ahead(f) <=> f \in {"timeout", "latency"}) /\ ~Ahead(f)'
      BY <2>2, <1>f DEF Ahead
    <3>3. (Read(f) <=> f \in {"request", "error"}) /\ Read(f)'
      BY <1>r, <1>f, <2>2
    <3>4. CASE f \in {"timeout", "latency"}
      <4>1. ~Read(f) /\ Ahead(f) /\ new[f] = row.fields[f]
        BY <2>1, <3>2, <3>3, <3>4
      <4>2. /\ snap.fields[f] = 0 /\ raced[f] <= counted[f]
            /\ reported[f] + row.fields[f] <= counted[f]
            /\ counted[f] <= reported[f] + raced[f] + row.fields[f]
        BY <1>n, <3>1, <4>1 DEF FieldKept, Kept
      <4>3. /\ snap'.fields[f] = row.fields[f] /\ row'.fields[f] = row.fields[f]
            /\ counted'[f] = counted[f] /\ raced'[f] = raced[f] /\ reported'[f] = reported[f]
        BY <2>2, <4>1
      <4> QED BY <1>n, <3>2, <3>3, <4>2, <4>3 DEF FieldKept, Kept
    <3>5. CASE f \notin {"timeout", "latency"}
      <4>1. Read(f) /\ ~Ahead(f) /\ new[f] = snap.fields[f]
        BY <1>f, <2>1, <3>2, <3>3, <3>5
      <4> QED BY <1>n, <2>2, <3>1, <3>2, <3>3, <4>1 DEF FieldKept, Kept
    <3> QED BY <3>4, <3>5
  <2> QED BY <1>l, <2>2, <2>3, <2>4 DEF RecorderInv
<1>5. ASSUME NEW g \in Field, row' = [row EXCEPT !.fields[g] = 0],
             snap' \in [pc : {"reset error", "reset timeout"}, fields : [Field -> Nat]],
             snap'.fields = snap.fields,
             \A f \in Field : (Read(f) <=> Read(f)' \/ f = g) /\ ~(Read(f)' /\ f = g),
             UNCHANGED <<obs, counted, raced, reported, stopped>>
      PROVE  RecorderInv'
  <2>1. /\ row' \in [fields : [Field -> Nat], inflight : Nat]
        /\ \A f \in Field : row'.fields[f] = IF f = g THEN 0 ELSE row.fields[f]
    BY <1>1, <1>5, Cleared
  <2>2. RecorderTypeOK'
    BY <1>1, <1>5, <2>1 DEF RecorderTypeOK
  <2>3. ASSUME NEW f \in Field PROVE FieldKept(f)'
    <3>1. FieldKept(f) /\ ~Ahead(f)'
      BY <1>5 DEF RecorderInv, Ahead
    <3>2. snap'.fields[f] = snap.fields[f]
      BY <1>5
    <3>3. CASE f = g
      <4>1. Read(f) /\ ~Read(f)' /\ row'.fields[f] = 0
        BY <1>5, <2>1, <3>3
      <4>2. /\ snap.fields[f] <= row.fields[f] /\ raced[f] <= counted[f]
            /\ reported[f] + row.fields[f] <= counted[f]
            /\ counted[f] <= reported[f] + snap.fields[f] + raced[f]
        BY <1>n, <3>1, <4>1 DEF FieldKept, Kept
      <4>3. counted'[f] = counted[f] /\ raced'[f] = raced[f] /\ reported'[f] = reported[f]
        BY <1>5
      <4> QED BY <1>n, <3>1, <3>2, <4>1, <4>2, <4>3 DEF FieldKept, Kept
    <3>4. CASE f # g
      <4>1. (Read(f)' <=> Read(f)) /\ row'.fields[f] = row.fields[f]
        BY <1>5, <2>1, <3>4
      <4>2. counted'[f] = counted[f] /\ raced'[f] = raced[f] /\ reported'[f] = reported[f]
        BY <1>5
      <4> QED BY <1>n, <3>1, <3>2, <4>1, <4>2 DEF FieldKept, Kept
    <3> QED BY <3>3, <3>4
  <2> QED BY <1>l, <1>5, <2>2, <2>3 DEF RecorderInv
<1>6. CASE ResetRequests \/ ResetErrors
  <2>1. CASE ResetRequests
    <3>1. snap.pc = "reset request" /\ snap' = [pc |-> "reset error", fields |-> snap.fields]
      BY <1>1, <2>1 DEF ResetRequests, SnapGoto, RecorderTypeOK
    <3>2. \A f \in Field : (Read(f) <=> Read(f)' \/ f = "request") /\ ~(Read(f)' /\ f = "request")
      BY <1>f, <1>r, <3>1
    <3>3. /\ snap' \in [pc : {"reset error", "reset timeout"}, fields : [Field -> Nat]]
          /\ snap'.fields = snap.fields
      BY <1>1, <3>1 DEF RecorderTypeOK
    <3> QED BY <1>5, <1>f, <2>1, <3>2, <3>3 DEF ResetRequests
  <2>2. CASE ResetErrors
    <3>1. snap.pc = "reset error" /\ snap' = [pc |-> "reset timeout", fields |-> snap.fields]
      BY <1>1, <2>2 DEF ResetErrors, SnapGoto, RecorderTypeOK
    <3>2. \A f \in Field : (Read(f) <=> Read(f)' \/ f = "error") /\ ~(Read(f)' /\ f = "error")
      BY <1>f, <1>r, <3>1
    <3>3. /\ snap' \in [pc : {"reset error", "reset timeout"}, fields : [Field -> Nat]]
          /\ snap'.fields = snap.fields
      BY <1>1, <3>1 DEF RecorderTypeOK
    <3> QED BY <1>5, <1>f, <2>2, <3>2, <3>3 DEF ResetErrors
  <2> QED BY <1>6, <2>1, <2>2
<1>7. CASE ResetTimeouts
  <2> DEFINE new == [[row.fields EXCEPT !["timeout"] = 0] EXCEPT !["latency"] = 0]
  <2>1. /\ new \in [Field -> Nat]
        /\ \A f \in Field : new[f] = IF f \in {"timeout", "latency"} THEN 0 ELSE row.fields[f]
    BY <1>1, <1>f DEF RecorderTypeOK
  <2>2. /\ row' = [fields |-> new, inflight |-> row.inflight]
        /\ UNCHANGED <<obs, counted, raced, reported, stopped>>
    BY <1>1, <1>7 DEF ResetTimeouts, RecorderTypeOK
  <2>3. snap.pc = "reset timeout" /\ snap' = [pc |-> "send", fields |-> snap.fields]
    BY <1>1, <1>7 DEF ResetTimeouts, SnapGoto, RecorderTypeOK
  <2> HIDE DEF new
  <2>4. RecorderTypeOK'
    BY <1>1, <2>1, <2>2, <2>3 DEF RecorderTypeOK
  <2>5. ASSUME NEW f \in Field PROVE FieldKept(f)'
    <3>1. FieldKept(f) /\ ~Ahead(f)'
      BY <2>3 DEF RecorderInv, Ahead
    <3>2. (Read(f) <=> f \in {"timeout", "latency"}) /\ ~Read(f)'
      BY <1>r, <1>f, <2>3
    <3>3. CASE f \in {"timeout", "latency"}
      <4>1. Read(f) /\ row'.fields[f] = 0
        BY <2>1, <2>2, <3>2, <3>3
      <4>2. /\ snap.fields[f] <= row.fields[f] /\ raced[f] <= counted[f]
            /\ reported[f] + row.fields[f] <= counted[f]
            /\ counted[f] <= reported[f] + snap.fields[f] + raced[f]
        BY <1>n, <3>1, <4>1 DEF FieldKept, Kept
      <4>3. /\ snap'.fields[f] = snap.fields[f]
            /\ counted'[f] = counted[f] /\ raced'[f] = raced[f] /\ reported'[f] = reported[f]
        BY <2>2, <2>3
      <4> QED BY <1>n, <3>1, <3>2, <4>1, <4>2, <4>3 DEF FieldKept, Kept
    <3>4. CASE f \notin {"timeout", "latency"}
      <4>1. ~Read(f) /\ row'.fields[f] = row.fields[f]
        BY <2>1, <2>2, <3>2, <3>4
      <4> QED BY <1>n, <2>2, <2>3, <3>1, <3>2, <4>1 DEF FieldKept, Kept
    <3> QED BY <3>3, <3>4
  <2> QED BY <1>l, <2>2, <2>4, <2>5 DEF RecorderInv
<1>8. CASE ReportOnce
  <2>1. /\ snap.pc = "send" /\ snap' = [pc |-> "idle", fields |-> None]
        /\ reported' = [f \in Field |-> reported[f] + snap.fields[f]]
        /\ UNCHANGED <<row, obs, counted, raced, stopped>>
    BY <1>8 DEF ReportOnce
  <2>2. None \in [Field -> Nat] /\ \A f \in Field : None[f] = 0
    BY DEF None
  <2>3. reported' \in [Field -> Nat] /\ \A f \in Field : reported'[f] = reported[f] + snap.fields[f]
    BY <2>1, <1>n
  <2>4. RecorderTypeOK'
    BY <1>1, <2>1, <2>2, <2>3 DEF RecorderTypeOK
  <2>5. ASSUME NEW f \in Field PROVE FieldKept(f)'
    <3>1. FieldKept(f) /\ ~Read(f) /\ ~Read(f)'
      BY <2>1, <1>f, <1>r DEF RecorderInv
    <3> QED BY <1>n, <2>1, <2>2, <2>3, <3>1 DEF FieldKept, Kept
  <2> QED BY <1>l, <2>1, <2>4, <2>5 DEF RecorderInv
<1> QED BY <1>2, <1>3, <1>4, <1>6, <1>7, <1>8 DEF Reports

\* The recorder begins with nothing.
LEMMA RecorderInvInit == RecorderInit => RecorderInv
<1> SUFFICES ASSUME RecorderInit PROVE RecorderInv
  OBVIOUS
<1>1. None \in [Field -> Nat] /\ (\A f \in Field : None[f] = 0) /\ "latency" \in Field
  BY DEF None, Field
<1>2. RecorderTypeOK
  BY <1>1 DEF RecorderInit, RecorderTypeOK, Status
<1>3. ASSUME NEW f \in Field PROVE FieldKept(f)
  BY <1>1 DEF RecorderInit, FieldKept, Kept
<1> QED BY <1>1, <1>2, <1>3 DEF RecorderInit, RecorderInv, LatencyKept

\* What is kept of each field follows.
LEMMA RecorderKeeps == RecorderInv => CountsKept
<1> SUFFICES ASSUME RecorderInv PROVE CountsKept
  OBVIOUS
<1>n. \A f \in Field : /\ row.fields[f] \in Nat /\ counted[f] \in Nat /\ raced[f] \in Nat
                        /\ reported[f] \in Nat /\ snap.fields[f] \in Nat
  BY DEF RecorderInv, RecorderTypeOK
<1>1. ASSUME NEW f \in Field
      PROVE  counted[f] <= Kept(f) + raced[f] /\ Kept(f) <= counted[f] /\ Kept(f) \in Nat
  <2>1. FieldKept(f)
    BY DEF RecorderInv
  <2> QED BY <1>n, <2>1 DEF FieldKept, Kept
<1>2. "latency" \in Field /\ Counter \subseteq Field
  BY DEF Field
<1>3. \A f \in Counter : counted[f] - raced[f] <= Kept(f) /\ Kept(f) <= counted[f]
  BY <1>n, <1>1, <1>2
<1>4. Kept("latency") = counted["latency"]
  BY <1>n, <1>1, <1>2 DEF RecorderInv, LatencyKept
<1> QED BY <1>3, <1>4 DEF CountsKept

----------------------------------------------------------------------------
(* The trace writer.                                                       *)

\* A record that was queued is somewhere, as long as the file has not failed.
Somewhere(c) == c \in Range(queue) \/ c \in Range(buffer) \/ c \in Range(file)

WriterInv ==
  /\ WriterTypeOK
  /\ ~closeErr => \A c \in Record : wr[c] = "queued" => Somewhere(c)
  /\ \A c \in before : wr[c] = "queued"
  /\ runner # "loop" => closer \in {"stopping", "returned"}
  /\ closer = "returned" => runner = "ended"
  /\ runner = "ended" /\ ~closeErr => before \subseteq Range(file)

\* What a sequence holds after an element is appended, a head is taken, or
\* another is put behind it.
LEMMA Holds ==
  ASSUME NEW S, NEW s \in Seq(S), NEW t \in Seq(S), NEW e \in S
  PROVE  /\ \A x : x \in Range(Append(s, e)) <=> x \in Range(s) \/ x = e
         /\ \A x : x \in Range(s \o t) <=> x \in Range(s) \/ x \in Range(t)
         /\ s # <<>> => \A x : x \in Range(s) <=> x = Head(s) \/ x \in Range(Tail(s))
         /\ \A x : x \notin Range(<<>>)
<1>1. \A x : x \in Range(Append(s, e)) <=> x \in Range(s) \/ x = e
  <2> TAKE x
  <2>1. ASSUME x \in Range(s) PROVE x \in Range(Append(s, e))
    <3>1. PICK i \in 1..Len(s) : s[i] = x
      BY <2>1 DEF Range
    <3>2. i \in DOMAIN Append(s, e) /\ Append(s, e)[i] = x
      BY <3>1
    <3> QED BY <3>2 DEF Range
  <2>2. e \in Range(Append(s, e))
    <3>1. Len(s) + 1 \in DOMAIN Append(s, e) /\ Append(s, e)[Len(s) + 1] = e
      OBVIOUS
    <3> QED BY <3>1 DEF Range
  <2>3. ASSUME x \in Range(Append(s, e)) PROVE x \in Range(s) \/ x = e
    <3>1. PICK i \in 1..Len(s) + 1 : Append(s, e)[i] = x
      BY <2>3 DEF Range
    <3>2. CASE i = Len(s) + 1
      BY <3>1, <3>2
    <3>3. CASE i # Len(s) + 1
      <4>1. i \in DOMAIN s /\ s[i] = x
        BY <3>1, <3>3
      <4> QED BY <4>1 DEF Range
    <3> QED BY <3>2, <3>3
  <2> QED BY <2>1, <2>2, <2>3
<1>2. \A x : x \in Range(s \o t) <=> x \in Range(s) \/ x \in Range(t)
  <2> TAKE x
  <2>1. ASSUME x \in Range(s) PROVE x \in Range(s \o t)
    <3>1. PICK i \in 1..Len(s) : s[i] = x
      BY <2>1 DEF Range
    <3>2. i \in DOMAIN (s \o t) /\ (s \o t)[i] = x
      BY <3>1
    <3> QED BY <3>2 DEF Range
  <2>2. ASSUME x \in Range(t) PROVE x \in Range(s \o t)
    <3>1. PICK i \in 1..Len(t) : t[i] = x
      BY <2>2 DEF Range
    <3>2. Len(s) + i \in DOMAIN (s \o t) /\ (s \o t)[Len(s) + i] = x
      BY <3>1
    <3> QED BY <3>2 DEF Range
  <2>3. ASSUME x \in Range(s \o t) PROVE x \in Range(s) \/ x \in Range(t)
    <3>1. PICK i \in 1..Len(s) + Len(t) : (s \o t)[i] = x
      BY <2>3 DEF Range
    <3>2. CASE i <= Len(s)
      <4>1. i \in DOMAIN s /\ s[i] = x
        BY <3>1, <3>2
      <4> QED BY <4>1 DEF Range
    <3>3. CASE i > Len(s)
      <4>1. i - Len(s) \in DOMAIN t /\ t[i - Len(s)] = x
        BY <3>1, <3>3
      <4> QED BY <4>1 DEF Range
    <3> QED BY <3>1, <3>2, <3>3
  <2> QED BY <2>1, <2>2, <2>3
<1>3. ASSUME s # <<>> PROVE \A x : x \in Range(s) <=> x = Head(s) \/ x \in Range(Tail(s))
  <2> TAKE x
  <2>1. 1 \in DOMAIN s /\ s[1] = Head(s) /\ Head(s) \in Range(s)
    BY <1>3 DEF Range
  <2>2. ASSUME x \in Range(Tail(s)) PROVE x \in Range(s)
    <3>1. PICK i \in 1..Len(s) - 1 : Tail(s)[i] = x
      BY <1>3, <2>2 DEF Range
    <3>2. i + 1 \in DOMAIN s /\ s[i + 1] = x
      BY <1>3, <3>1
    <3> QED BY <3>2 DEF Range
  <2>3. ASSUME x \in Range(s) PROVE x = Head(s) \/ x \in Range(Tail(s))
    <3>1. PICK i \in 1..Len(s) : s[i] = x
      BY <2>3 DEF Range
    <3>2. CASE i = 1
      BY <2>1, <3>1, <3>2
    <3>3. CASE i # 1
      <4>1. i - 1 \in DOMAIN Tail(s) /\ Tail(s)[i - 1] = x
        BY <1>3, <3>1, <3>3
      <4> QED BY <4>1 DEF Range
    <3> QED BY <3>2, <3>3
  <2> QED BY <2>1, <2>2, <2>3
<1>4. \A x : x \notin Range(<<>>)
  BY DEF Range
<1> QED BY <1>1, <1>2, <1>3, <1>4

\* A flush empties the buffer into the file, or the file has failed.
LEMMA FlushKeeps ==
  ASSUME WriterTypeOK, NEW records \in Seq(Record), Flushed(records) \/ FlushedNotClosed(records)
  PROVE  /\ buffer' = <<>>
         /\ file' \in Seq(Record)
         /\ closeErr' \in BOOLEAN
         /\ ~closeErr' => ~closeErr /\ file' = file \o records
<1>1. file \in Seq(Record) /\ file \o records \in Seq(Record) /\ closeErr \in BOOLEAN
  BY DEF WriterTypeOK
<1>2. buffer' = <<>> /\ (file' = file \/ file' = file \o records) /\ (closeErr' = closeErr \/ closeErr' = TRUE)
  BY DEF Flushed, FlushedNotClosed
<1>3. ~closeErr' => ~closeErr /\ file' = file \o records
  BY DEF Flushed, FlushedNotClosed
<1> QED BY <1>1, <1>2, <1>3

\* A Write: nobody but its own RPC changes how it ended.
LEMMA WriteStep ==
  ASSUME WriterInv, NEW c \in Record, WriteBegin(c) \/ RecordWritten(c)
  PROVE  WriterInv'
<1> USE ConfigAssumption
<1>t. WriterTypeOK
  BY DEF WriterInv
<1>1. CASE WriteBegin(c)
  <2>1. /\ wr[c] = "idle" /\ wr' = [wr EXCEPT ![c] = wr'[c]] /\ wr'[c] \in {"send", "refused"}
        /\ UNCHANGED <<overflow, queue, samples, closer, runner, buffer, file, closeErr, before>>
    BY <1>1, <1>t DEF WriteBegin, WriterTypeOK
  <2>2. wr' \in [Record -> {"idle", "send", "resend"} \cup Outcome]
    BY <1>t, <2>1 DEF WriterTypeOK, Outcome
  <2>3. \A d \in Record : wr'[d] = "queued" <=> wr[d] = "queued"
    BY <1>t, <2>1 DEF WriterTypeOK
  <2>4. WriterTypeOK'
    BY <1>t, <2>1, <2>2 DEF WriterTypeOK
  <2> QED BY <1>t, <2>1, <2>3, <2>4 DEF WriterInv, Somewhere, WriterTypeOK
<1>2. CASE Enqueue(c)
  <2>1. /\ wr' = [wr EXCEPT ![c] = "queued"] /\ queue' = Append(queue, c) /\ ~(Len(queue) >= QueueSize)
        /\ UNCHANGED <<overflow, samples, closer, runner, buffer, file, closeErr, before>>
    BY <1>2 DEF Enqueue, Full
  <2>2. queue' \in Seq(Record) /\ Len(queue') <= QueueSize
    BY <1>t, <2>1 DEF WriterTypeOK
  <2>3. wr' \in [Record -> {"idle", "send", "resend"} \cup Outcome]
    BY <1>t, <2>1 DEF WriterTypeOK, Outcome
  <2>4. \A x : x \in Range(queue') <=> x \in Range(queue) \/ x = c
    BY <1>t, <2>1, Holds DEF WriterTypeOK
  <2>5. \A d \in Record : wr'[d] = "queued" <=> wr[d] = "queued" \/ d = c
    BY <1>t, <2>1 DEF WriterTypeOK
  <2>6. WriterTypeOK'
    BY <1>t, <2>1, <2>2, <2>3 DEF WriterTypeOK
  <2>7. before \subseteq Record
    BY <1>t DEF WriterTypeOK
  <2> QED BY <2>1, <2>4, <2>5, <2>6, <2>7 DEF WriterInv, Somewhere
<1>3. CASE Overflow(c)
  <2>1. /\ wr[c] \in {"send", "resend"} /\ wr' = [wr EXCEPT ![c] = wr'[c]]
        /\ wr'[c] \in {"resend", "dropped"}
        /\ UNCHANGED <<overflow, queue, closer, runner, buffer, file, closeErr, before>>
    BY <1>3, <1>t DEF Overflow, WriterTypeOK
  <2>2. samples' \in 0..SampleEvery - 1
    <3>1. samples' = samples \/ samples' = (samples + 1) % SampleEvery
      BY <1>3 DEF Overflow
    <3>2. samples \in 0..SampleEvery - 1 /\ SampleEvery \in Nat /\ SampleEvery > 0
      BY <1>t DEF WriterTypeOK
    <3> QED BY <3>1, <3>2
  <2>3. wr' \in [Record -> {"idle", "send", "resend"} \cup Outcome]
    BY <1>t, <2>1 DEF WriterTypeOK, Outcome
  <2>4. \A d \in Record : wr'[d] = "queued" <=> wr[d] = "queued"
    BY <1>t, <2>1 DEF WriterTypeOK
  <2>5. WriterTypeOK'
    BY <1>t, <2>1, <2>2, <2>3 DEF WriterTypeOK
  <2> QED BY <1>t, <2>1, <2>4, <2>5 DEF WriterInv, Somewhere, WriterTypeOK
<1> QED BY <1>1, <1>2, <1>3 DEF RecordWritten

\* Close, which finds the goroutine in its loop.
LEMMA CloseStep ==
  ASSUME WriterInv, Close
  PROVE  WriterInv'
<1>t. WriterTypeOK /\ UNCHANGED <<overflow, queue, wr, samples, runner, buffer, file, closeErr>>
  BY DEF WriterInv, Close
<1>1. CASE closer = "open" /\ closer' = "closed" /\ before' = { c \in Record : wr[c] = "queued" }
  <2>1. WriterTypeOK' /\ runner = "loop"
    BY <1>t, <1>1 DEF WriterTypeOK, WriterInv
  <2> QED BY <1>t, <1>1, <2>1 DEF WriterInv, Somewhere
<1>2. CASE closer = "closed" /\ closer' = "stopping" /\ UNCHANGED before
  BY <1>t, <1>2 DEF WriterInv, Somewhere, WriterTypeOK
<1>3. CASE closer = "stopping" /\ runner = "ended" /\ closer' = "returned" /\ UNCHANGED before
  BY <1>t, <1>3 DEF WriterInv, Somewhere, WriterTypeOK
<1> QED BY <1>1, <1>2, <1>3 DEF Close

\* The goroutine.
LEMMA RunnerStep ==
  ASSUME WriterInv, RunsWriter
  PROVE  WriterInv'
<1> USE ConfigAssumption
<1>t. /\ WriterTypeOK /\ buffer \in Seq(Record) /\ file \in Seq(Record) /\ queue \in Seq(Record)
      /\ FlushRecords \in Nat /\ 0 < FlushRecords
  BY DEF WriterInv, WriterTypeOK
<1>e. \A x : x \notin Range(<<>>)
  BY DEF Range
<1>1. CASE writeRecord
  <2> DEFINE records == Append(buffer, Head(queue))
  <2>1. /\ runner \in {"loop", "drain"} /\ queue # <<>> /\ queue' = Tail(queue)
        /\ UNCHANGED <<overflow, wr, samples, closer, runner, before>>
    BY <1>1 DEF writeRecord
  <2>2. Head(queue) \in Record /\ queue' \in Seq(Record) /\ Len(queue') <= QueueSize
    BY <1>t, <2>1 DEF WriterTypeOK
  <2>3. records \in Seq(Record)
    BY <1>t, <2>2
  <2>4. \A x : x \in Range(queue) <=> x = Head(queue) \/ x \in Range(queue')
    BY <1>t, <2>1, <2>2, Holds
  <2>5. \A x : x \in Range(records) <=> x \in Range(buffer) \/ x = Head(queue)
    BY <1>t, <2>2, Holds
  <2>6. \/ Len(records) >= FlushRecords /\ Flushed(records)
        \/ Len(records) < FlushRecords /\ buffer' = records /\ UNCHANGED <<file, closeErr>>
    BY <1>1, <1>t, <2>3 DEF writeRecord
  <2> HIDE DEF records
  <2>7. CASE Flushed(records)
    <3>1. /\ buffer' = <<>> /\ file' \in Seq(Record) /\ closeErr' \in BOOLEAN
          /\ ~closeErr' => ~closeErr /\ file' = file \o records
      BY <1>t, <2>3, <2>7, FlushKeeps
    <3>2. WriterTypeOK'
      BY <1>t, <2>1, <2>2, <3>1 DEF WriterTypeOK
    <3>3. ~closeErr' => \A x : x \in Range(file') <=> x \in Range(file) \/ x \in Range(records)
      <4>1. \A x : x \in Range(file \o records) <=> x \in Range(file) \/ x \in Range(records)
        BY <1>t, <2>2, <2>3, Holds
      <4> QED BY <3>1, <4>1
    <3>4. ~closeErr' => \A c \in Record : wr'[c] = "queued" => Somewhere(c)'
      BY <2>1, <2>4, <2>5, <3>1, <3>3 DEF WriterInv, Somewhere
    <3> QED BY <2>1, <3>1, <3>2, <3>4 DEF WriterInv
  <2>8. CASE Len(records) < FlushRecords /\ buffer' = records /\ UNCHANGED <<file, closeErr>>
    <3>1. WriterTypeOK'
      BY <1>t, <2>1, <2>2, <2>3, <2>8 DEF WriterTypeOK
    <3>2. ~closeErr' => \A c \in Record : wr'[c] = "queued" => Somewhere(c)'
      BY <2>1, <2>4, <2>5, <2>8 DEF WriterInv, Somewhere
    <3> QED BY <2>1, <2>8, <3>1, <3>2 DEF WriterInv
  <2> QED BY <2>6, <2>7, <2>8
<1>2. CASE flushTick \/ EndLoop
  <2>1. /\ \/ runner = "loop" /\ runner' = "loop" /\ UNCHANGED closer
           \/ runner = "drain" /\ queue = <<>> /\ runner' = "ended" /\ UNCHANGED closer
        /\ UNCHANGED <<overflow, queue, wr, samples, closer, before>>
        /\ Flushed(buffer) \/ FlushedNotClosed(buffer)
    BY <1>2 DEF flushTick, EndLoop
  <2>2. /\ buffer' = <<>> /\ file' \in Seq(Record) /\ closeErr' \in BOOLEAN
        /\ ~closeErr' => ~closeErr /\ file' = file \o buffer
    BY <1>t, <2>1, FlushKeeps
  <2>3. WriterTypeOK'
    BY <1>t, <2>1, <2>2 DEF WriterTypeOK
  <2>4. ASSUME ~closeErr' PROVE \A x : x \in Range(file') <=> x \in Range(file) \/ x \in Range(buffer)
    <3>1. file' = file \o buffer
      BY <2>2, <2>4
    <3>2. CASE Record = {}
      <4>1. Range(file) = {} /\ Range(buffer) = {} /\ Range(file \o buffer) = {}
        BY <1>t, <3>2 DEF Range
      <4> QED BY <3>1, <4>1
    <3>3. ASSUME NEW r \in Record PROVE \A x : x \in Range(file') <=> x \in Range(file) \/ x \in Range(buffer)
      BY <1>t, <3>1, Holds
    <3> QED BY <3>2, <3>3
  <2>5. ~closeErr' => \A c \in Record : wr'[c] = "queued" => Somewhere(c)'
    BY <2>1, <2>2, <2>4 DEF WriterInv, Somewhere
  <2>6. runner' = "ended" /\ ~closeErr' => before' \subseteq Range(file')
    <3>1. SUFFICES ASSUME runner' = "ended", ~closeErr', NEW c \in before PROVE c \in Range(file')
      BY <2>1
    <3>2. c \in Record /\ wr[c] = "queued" /\ queue = <<>> /\ ~closeErr
      BY <1>t, <2>1, <2>2, <3>1 DEF WriterInv, WriterTypeOK
    <3>3. Somewhere(c)
      BY <3>2 DEF WriterInv
    <3> QED BY <1>e, <2>4, <3>1, <3>2, <3>3 DEF Somewhere
  <2>7. (runner' # "loop" => closer' \in {"stopping", "returned"}) /\ (closer' = "returned" => runner' = "ended")
    BY <2>1 DEF WriterInv
  <2>8. \A c \in before' : wr'[c] = "queued"
    BY <2>1 DEF WriterInv
  <2> QED BY <2>3, <2>5, <2>6, <2>7, <2>8 DEF WriterInv
<1>3. CASE StopLoop
  <2>1. /\ runner = "loop" /\ closer = "stopping" /\ runner' = "drain"
        /\ UNCHANGED <<overflow, queue, wr, samples, closer, buffer, file, closeErr, before>>
    BY <1>3 DEF StopLoop
  <2>2. WriterTypeOK'
    BY <1>t, <2>1 DEF WriterTypeOK
  <2> QED BY <2>1, <2>2 DEF WriterInv, Somewhere
<1> QED BY <1>1, <1>2, <1>3 DEF RunsWriter

----------------------------------------------------------------------------
(* Both together.                                                          *)

IInv == options \in DialOptions /\ RecorderInv /\ WriterInv

LEMMA InvInit == Init => IInv
<1> SUFFICES ASSUME Init PROVE IInv
  OBVIOUS
<1>1. RecorderInv
  BY RecorderInvInit DEF Init
<1>2. WriterTypeOK
  <2>1. <<>> \in Seq(Record) /\ Len(<<>>) = 0 /\ 0 \in 0..SampleEvery - 1 /\ 0 <= QueueSize /\ 0 < FlushRecords
    BY ConfigAssumption
  <2> QED BY <2>1 DEF Init, WriterInit, WriterTypeOK, Outcome
<1>3. WriterInv
  BY <1>2 DEF Init, WriterInit, WriterInv
<1> QED BY <1>1, <1>3 DEF Init, IInv

LEMMA InvStep == IInv /\ [Next]_vars => IInv'
<1> SUFFICES ASSUME IInv, [Next]_vars PROVE IInv'
  OBVIOUS
<1>1. UNCHANGED writerVars => WriterInv'
  BY DEF IInv, WriterInv, WriterTypeOK, Somewhere, writerVars
<1>2. UNCHANGED recorderVars => RecorderInv'
  <2>1. UNCHANGED recorderVars => \A f \in Field : (Read(f)' <=> Read(f)) /\ (Ahead(f)' <=> Ahead(f))
    BY DEF recorderVars, Read, Ahead
  <2> QED BY <2>1 DEF IInv, RecorderInv, RecorderTypeOK, LatencyKept, FieldKept, Kept, recorderVars
<1>3. CASE UNCHANGED vars
  BY <1>1, <1>2, <1>3 DEF vars, IInv
<1>4. ASSUME NEW c \in Call, (\E s \in Status : Invoked(c, s)) \/ Measured(c) \/ Observing(c)
      PROVE  IInv'
  BY <1>1, <1>4, CallStep DEF IInv, Invoked, Measured, Observing
<1>5. ASSUME NEW c \in Call, Traced(c) \/ Tracing(c)
      PROVE  IInv'
  BY <1>2, <1>5, WriteStep, OneRecordPerCall DEF IInv, Traced, Tracing
<1>6. CASE Reporting
  BY <1>1, <1>6, ReporterStep DEF IInv, Reporting
<1>7. CASE ConnClosed
  <2>1. UNCHANGED <<row, obs, snap, counted, raced, reported>> /\ stopped' = TRUE
    BY <1>7 DEF ConnClosed, StopReporter
  <2>2. \A f \in Field : (Read(f)' <=> Read(f)) /\ (Ahead(f)' <=> Ahead(f))
    BY <2>1 DEF Read, Ahead
  <2>3. RecorderInv'
    BY <2>1, <2>2 DEF IInv, RecorderInv, RecorderTypeOK, LatencyKept, FieldKept, Kept
  <2> QED BY <1>1, <1>7, <2>3 DEF IInv, ConnClosed
<1>8. CASE Closing
  BY <1>2, <1>8, CloseStep DEF IInv, Closing
<1>9. CASE Writing
  BY <1>2, <1>9, RunnerStep DEF IInv, Writing
<1>10. options.calls \subseteq Call
  BY OptionsAssumption DEF IInv
<1> QED BY <1>3, <1>4, <1>5, <1>6, <1>7, <1>8, <1>9, <1>10 DEF Next

\* Type correctness: in particular, the queue and the buffer stay within the
\* limits of AsyncConfig.
THEOREM TypeCorrect == Spec => []TypeOK
<1>1. IInv => TypeOK
  BY DEF IInv, RecorderInv, WriterInv, TypeOK
<1> QED BY <1>1, InvInit, InvStep, PTL DEF Spec

\* However the RPCs that end interleave with SnapshotAndReset, no counter is
\* reported twice, none misses more than was added between its Load and its
\* Store, and every latency is in exactly one window.
THEOREM WindowsPartition == Spec => []CountsKept
<1>1. IInv => CountsKept
  BY RecorderKeeps DEF IInv
<1> QED BY <1>1, InvInit, InvStep, PTL DEF Spec

\* A Close that returned without an error has put every record that a Write had
\* queued before it into the file, for any queue size, any flush threshold and
\* every overflow policy, whichever Writes raced it.
THEOREM CloseLosesNothing == Spec => []ClosedWithAll
<1>1. IInv => ClosedWithAll
  BY DEF IInv, WriterInv, ClosedWithAll
<1> QED BY <1>1, InvInit, InvStep, PTL DEF Spec
=============================================================================
