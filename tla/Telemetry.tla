----------------------------- MODULE Telemetry -----------------------------
(***************************************************************************)
(* What the SDK keeps of every RPC: the telemetry interceptor              *)
(* (sdk/go/aegisgrpc/interceptor.go) observes an RPC that ended, for the   *)
(* recorder and its reporter, and then writes a trace record of it.        *)
(***************************************************************************)
EXTENDS Recorder, AsyncJSONLWriter

CONSTANT DialOptions   \* which of the two are on, and the RPCs made: [recorder, tracer, calls]

\* A record is named after its RPC.
ASSUME OneRecordPerCall == Record = Call
ASSUME OptionsAssumption ==
  DialOptions \subseteq [recorder : BOOLEAN, tracer : BOOLEAN, calls : SUBSET Call]

VARIABLE options

vars == <<recorderVars, writerVars, options>>

RecorderTypeOK ==
  /\ row \in [fields : [Field -> Nat], inflight : Nat]
  /\ obs \in [Call -> [pc : {"idle", "inflight", "request", "error", "timeout", "latency", "done"},
                        status : Status]]
  /\ snap \in [pc : {"idle", "error", "timeout", "reset request", "reset error", "reset timeout", "send"},
               fields : [Field -> Nat]]
  /\ counted \in [Field -> Nat] /\ raced \in [Field -> Nat] /\ reported \in [Field -> Nat]
  /\ stopped \in BOOLEAN

WriterTypeOK ==
  /\ overflow \in {"drop", "block", "sample"}
  /\ queue \in Seq(Record) /\ Len(queue) <= QueueSize
  /\ buffer \in Seq(Record) /\ Len(buffer) < FlushRecords
  /\ file \in Seq(Record)
  /\ wr \in [Record -> {"idle", "send", "resend"} \cup Outcome]
  /\ samples \in 0..SampleEvery - 1
  /\ closer \in {"open", "closed", "stopping", "returned"}
  /\ runner \in {"loop", "drain", "ended"}
  /\ closeErr \in BOOLEAN
  /\ before \subseteq Record

TypeOK == options \in DialOptions /\ RecorderTypeOK /\ WriterTypeOK

Init ==
  /\ RecorderInit /\ WriterInit
  /\ options \in DialOptions
  /\ ~options.tracer => overflow = "drop"   \* no writer

\* The invoker has returned: the RPC is observed,
Invoked(c, s) == options.recorder /\ Observe(c, s) /\ UNCHANGED <<writerVars, options>>

\* (or an application measures it with Start,)
Measured(c) ==
  /\ options.recorder
  /\ Start(c) \/ \E s \in Status : Finish(c, s)
  /\ UNCHANGED <<writerVars, options>>

Observing(c) == CallObserves(c) /\ UNCHANGED <<writerVars, options>>

\* and then its trace record is written.
Traced(c) ==
  /\ options.tracer
  /\ options.recorder => ObsAt(c, "done")
  /\ WriteBegin(c)
  /\ UNCHANGED <<recorderVars, options>>

Tracing(c) == RecordWritten(c) /\ UNCHANGED <<recorderVars, options>>

Reporting == Reports /\ UNCHANGED <<writerVars, options>>
ConnClosed == options.recorder /\ StopReporter /\ UNCHANGED <<writerVars, options>>
Closing == options.tracer /\ Close /\ UNCHANGED <<recorderVars, options>>
Writing == RunsWriter /\ UNCHANGED <<recorderVars, options>>

Next ==
  \/ \E c \in options.calls :
       \/ \E s \in Status : Invoked(c, s)
       \/ Measured(c) \/ Observing(c) \/ Traced(c) \/ Tracing(c)
  \/ Reporting \/ ConnClosed
  \/ Closing \/ Writing

Spec == Init /\ [][Next]_vars

\* Goroutines that have something to do go on; whether an RPC ends and whether
\* anything is closed is the application's.
FairSpec ==
  /\ Spec
  /\ \A c \in Call : WF_vars(Observing(c)) /\ WF_vars(Tracing(c))
  /\ WF_vars(Reporting) /\ WF_vars(Writing)
  /\ WF_vars(closer # "open" /\ Closing)

----------------------------------------------------------------------------
Kept(f) == reported[f] + row.fields[f] + IF Read(f) THEN 0 ELSE snap.fields[f]

\* The windows that SnapshotAndReset cuts never count an RPC twice.  Counters
\* miss at most what was added between their Load and their Store, the price of
\* counting without the mutex; the histograms, swapped while RPCs end, miss
\* nothing: every latency recorded is in exactly one window.
CountsKept ==
  /\ \A f \in Counter : counted[f] - raced[f] <= Kept(f) /\ Kept(f) <= counted[f]
  /\ Kept("latency") = counted["latency"]

\* The row has no request to report and no call in flight.
Passed == row.fields["request"] = 0 /\ row.inflight = 0 /\ ~Locked

\* What was counted leaves the recorder with a later report while the
\* connection is open, also while other calls of the row do not end: requests
\* always; an error, a timeout or a latency unless a report has taken the
\* request it belongs to before it was added, whereupon it waits for the row's
\* next request, for SnapshotAndReset passes over a row without any.
CountsReported == \A f \in Field : (row.fields[f] > 0) ~> (row.fields[f] = 0 \/ stopped \/ Passed)

\* Close drains and flushes: when it has returned without an error, every
\* record whose Write had returned when Close was called is in the file.
ClosedWithAll == closer = "returned" /\ ~closeErr => before \subseteq Range(file)

\* Tracing holds nobody up: Close returns, whichever Writes race it, and a
\* Write returns, but for the policy that is documented to block, whose Write
\* never returns if the goroutine ended between its check and its send.
CallsReturn ==
  /\ (closer # "open") ~> (closer = "returned")
  /\ \A c \in Call :
       (wr[c] \in {"send", "resend"}) ~> (wr[c] \in Outcome \/ (overflow = "block" /\ runner = "ended"))
=============================================================================
