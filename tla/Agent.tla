-------------------------------- MODULE Agent --------------------------------
(***************************************************************************)
(* The eBPF agent in user space: the collector that attaches the probes of *)
(* TCPMetrics and reads their events (agent/ebpf/collector_linux.go,       *)
(* event.go), the aggregator, the reporter's goroutine, and the main       *)
(* goroutine, which sends a last report on a signal and stops the rest     *)
(* (aggregator.go, reporter.go, cmd/agent/main.go).                        *)
(*                                                                         *)
(* Window times and summed latencies are left out: the controller reads    *)
(* neither.                                                                *)
(***************************************************************************)
EXTENDS TCPMetrics

CONSTANTS eventBufferSize   \* capacity of the events channel

VARIABLES links,      \* how many programs are attached
          reader,     \* the ring buffer reader: "nil", "open" or "closed"
          loop,       \* readLoop
          events,     \* the channel of decoded events
          rows,       \* the aggregator's rows
          proc,       \* the reporter's goroutine and the main one
          ctxDone,    \* a signal has arrived
          delivered,  \* history: signals in reports the controller took,
          lost        \* and those dropped on the way

agentVars == <<links, reader, loop, events, rows, proc, ctxDone, delivered, lost>>
vars == <<kernelVars, agentVars>>

Proc == {"run", "main"}

packEndpoint(addr, port) == IF addr = 0 \/ port = 0 THEN 0 ELSE addr * ByteValues ^ 2 + port
Key(e) == packEndpoint(e.addr, e.port)
Keys == { Key(e) : e \in Endpoint }
NoRows == [k \in Keys |-> None]
At(pc) == [pc |-> pc, event |-> None, samples |-> NoRows]

AgentInit ==
  /\ links = 0
  /\ reader = "nil"
  /\ loop = [pc |-> "off", event |-> None]
  /\ events = <<>>
  /\ rows = NoRows
  /\ proc = [p \in Proc |-> At(IF p = "main" THEN "attach" ELSE "off")]
  /\ ctxDone = FALSE
  /\ delivered = [k \in Keys |-> NoSignals]
  /\ lost = [k \in Keys |-> NoSignals]

Init == KernelInit /\ AgentInit

TypeOK ==
  /\ attached \subseteq {"aegis_tcp_retransmit", "aegis_tcp_v4_connect", "aegis_tcp_v4_connect_ret"}
  /\ Cardinality(attached) = links
  /\ Len(ring) <= RingSize /\ Len(events) <= eventBufferSize
  /\ reader \in {"nil", "open", "closed"}
  /\ loop.pc \in {"off", "read", "send", "done"}
  /\ proc["run"].pc \in {"off", "select", "observe", "drain", "drained", "snapshot", "send", "done"}
  /\ proc["main"].pc \in {"attach", "serve", "drain", "drained", "snapshot", "send", "stop", "close", "wait", "exited"}

Goto(p, pc) == proc' = [proc EXCEPT ![p] = At(pc)]

----------------------------------------------------------------------------
(* Start: the programs in the order of the plan, then the reader.          *)

attachPlan == <<"aegis_tcp_retransmit", "aegis_tcp_v4_connect", "aegis_tcp_v4_connect_ret">>

Attach ==
  /\ proc["main"].pc = "attach" /\ links < Len(attachPlan)
  /\ attached' = attached \cup {attachPlan[links + 1]}
  /\ links' = links + 1
  /\ UNCHANGED <<ktime, starts, ring, connecting, program, left, emitted, unprobed>>
  /\ UNCHANGED <<reader, loop, events, rows, proc, ctxDone, delivered, lost>>

Started ==
  /\ proc["main"].pc = "attach" /\ links = Len(attachPlan)
  /\ reader' = "open"
  /\ loop' = [loop EXCEPT !.pc = "read"]
  /\ proc' = [run |-> At("select"), main |-> At("serve")]
  /\ UNCHANGED <<kernelVars, links, events, rows, ctxDone, delivered, lost>>

\* A program cannot be attached or the reader not be opened.
StartFails ==
  /\ proc["main"].pc = "attach"
  /\ Goto("main", "close")
  /\ UNCHANGED <<kernelVars, links, reader, loop, events, rows, ctxDone, delivered, lost>>

----------------------------------------------------------------------------
(* event.go: where DecodeRawTCPEvent looks for the members it reads.       *)

rawTCPEventSize == 60

Off == [type |-> 12, dport |-> 20, ret |-> 24, daddr_v4 |-> 32, connect_latency_ns |-> 36]

\* binary.LittleEndian of n bytes.
LittleEndian(sample, offset, n) ==
  LET value[i \in 0..n] ==
        IF i = 0 THEN 0 ELSE value[i - 1] + ByteAt(sample, offset + i - 1) * ByteValues ^ (i - 1)
  IN  value[n]

DecodeRawTCPEvent(sample) ==
  LET type == LittleEndian(sample, Off.type, 4)
      ret  == LittleEndian(sample, Off.ret, 4)
  IN  [RemoteKey |-> packEndpoint(LittleEndian(sample, Off.daddr_v4, 4), LittleEndian(sample, Off.dport, 2)),
       Retransmits |-> IF type = AEGIS_EVENT_RETRANSMIT THEN 1 ELSE 0,
       ConnectErrors |-> IF type = AEGIS_EVENT_CONNECT /\ ret # 0 THEN 1 ELSE 0,
       ConnectLatency |-> LittleEndian(sample, Off.connect_latency_ns, 8)]

SignalsOf(event) == [retransmits |-> event.Retransmits, connectErrors |-> event.ConnectErrors]

\* readLoop waits for the oldest record to be submitted, decodes it,
Read ==
  /\ loop.pc = "read" /\ reader = "open"
  /\ ring # <<>> /\ Head(ring).event # None
  /\ ring' = Tail(ring)
  /\ loop' = IF SizeofEvent < rawTCPEventSize THEN loop
             ELSE [pc |-> "send", event |-> DecodeRawTCPEvent(Head(ring).event)]
  /\ UNCHANGED <<ktime, attached, starts, connecting, program, left, emitted, unprobed>>
  /\ UNCHANGED <<links, reader, events, rows, proc, ctxDone, delivered, lost>>

Add(tally, key, signals) ==
  IF key \in DOMAIN tally THEN [tally EXCEPT ![key] = Plus(@, signals)] ELSE tally

\* and drops it if the channel is full.
ReadSend ==
  /\ loop.pc = "send"
  /\ loop' = [pc |-> "read", event |-> None]
  /\ IF Len(events) < eventBufferSize
     THEN events' = Append(events, loop.event) /\ UNCHANGED lost
     ELSE lost' = Add(lost, loop.event.RemoteKey, SignalsOf(loop.event)) /\ UNCHANGED events
  /\ UNCHANGED <<kernelVars, links, reader, rows, proc, ctxDone, delivered>>

ReadClosed ==
  /\ loop.pc = "read" /\ reader = "closed"
  /\ loop' = [loop EXCEPT !.pc = "done"]
  /\ UNCHANGED <<kernelVars, links, reader, events, rows, proc, ctxDone, delivered, lost>>

----------------------------------------------------------------------------
(* The aggregator and the reporter.                                        *)

\* Mutant of Observe: a row starts over with every event.
ObserveAnew(event) ==
  IF event.RemoteKey = 0 THEN rows ELSE [rows EXCEPT ![event.RemoteKey] = SignalsOf(event)]

\* An event without an IPv4 endpoint is ignored; an endpoint that is not in the
\* endpoint map has a row all the same.
Observe(event) ==
  IF event.RemoteKey = 0 THEN rows
  ELSE [rows EXCEPT ![event.RemoteKey] = Plus(IF @ = None THEN NoSignals ELSE @, SignalsOf(event))]

\* run and drainEvents take an event from the channel and fold it in.
Take(p, from, to) ==
  /\ proc[p].pc = from /\ events # <<>>
  /\ events' = Tail(events)
  /\ proc' = [proc EXCEPT ![p] = [At(to) EXCEPT !.event = Head(events)]]
  /\ UNCHANGED <<kernelVars, links, reader, loop, rows, ctxDone, delivered, lost>>

ObserveTaken(p) ==
  /\ proc[p].pc \in {"observe", "drained"}
  /\ rows' = Observe(proc[p].event)
  /\ Goto(p, IF proc[p].pc = "observe" THEN "select" ELSE "drain")
  /\ UNCHANGED <<kernelVars, links, reader, loop, events, ctxDone, delivered, lost>>

\* The ticker starts ReportOnce,
Tick ==
  /\ proc["run"].pc = "select" /\ left.ticker
  /\ Goto("run", "drain")
  /\ UNCHANGED <<kernelVars, links, reader, loop, events, rows, ctxDone, delivered, lost>>

RunEnds ==
  /\ proc["run"].pc = "select" /\ ctxDone
  /\ Goto("run", "done")
  /\ UNCHANGED <<kernelVars, links, reader, loop, events, rows, ctxDone, delivered, lost>>

\* which drains the channel until it finds it empty,
Drained(p) ==
  /\ proc[p].pc = "drain" /\ events = <<>>
  /\ Goto(p, "snapshot")
  /\ UNCHANGED <<kernelVars, links, reader, loop, events, rows, ctxDone, delivered, lost>>

AfterReport(p) == IF p = "run" THEN "select" ELSE "stop"

\* takes the rows, and sends them if there are any,
SnapshotAndReset(p) ==
  /\ proc[p].pc = "snapshot"
  /\ rows' = NoRows
  /\ proc' = [proc EXCEPT ![p] = IF rows = NoRows THEN At(AfterReport(p)) ELSE [At("send") EXCEPT !.samples = rows]]
  /\ UNCHANGED <<kernelVars, links, reader, loop, events, ctxDone, delivered, lost>>

AddRows(tally, samples) == [k \in Keys |-> IF samples[k] = None THEN tally[k] ELSE Plus(tally[k], samples[k])]

\* once: what a failed report held is not sent again.
ReportEndpointStats(p) ==
  /\ proc[p].pc = "send"
  /\ \/ delivered' = AddRows(delivered, proc[p].samples) /\ UNCHANGED lost
     \/ lost' = AddRows(lost, proc[p].samples) /\ UNCHANGED delivered
  /\ Goto(p, AfterReport(p))
  /\ UNCHANGED <<kernelVars, links, reader, loop, events, rows, ctxDone>>

ReportOnce(p) ==
  \/ Take(p, "drain", "drained") \/ ObserveTaken(p) \/ Drained(p)
  \/ SnapshotAndReset(p) \/ ReportEndpointStats(p)

----------------------------------------------------------------------------
(* The main goroutine.  The signal ends the reporter's goroutine too, which*)
(* the last report does not wait for.                                      *)

Signal ==
  /\ proc["main"].pc = "serve"
  /\ ctxDone' = TRUE
  /\ Goto("main", "drain")
  /\ UNCHANGED <<kernelVars, links, reader, loop, events, rows, delivered, lost>>

\* Stop waits for that goroutine and closes the collector:
Stop ==
  /\ proc["main"].pc = "stop" /\ proc["run"].pc = "done"
  /\ Goto("main", "close")
  /\ UNCHANGED <<kernelVars, links, reader, loop, events, rows, ctxDone, delivered, lost>>

\* Mutant of CloseReader: the reader is forgotten, not closed.
ForgetReader == "nil"

CloseReader == "closed"

\* the reader, the links, last one first,
closeLocked ==
  /\ proc["main"].pc = "close"
  /\ IF reader = "open"
     THEN reader' = CloseReader /\ UNCHANGED <<attached, links, proc>>
     ELSE /\ UNCHANGED reader
          /\ \/ links > 0 /\ attached' = attached \ {attachPlan[links]} /\ links' = links - 1 /\ UNCHANGED proc
             \/ links = 0 /\ Goto("main", "wait") /\ UNCHANGED <<attached, links>>
  /\ UNCHANGED <<ktime, starts, ring, connecting, program, left, emitted, unprobed>>
  /\ UNCHANGED <<loop, events, rows, ctxDone, delivered, lost>>

\* and waits for readLoop.
Exit ==
  /\ proc["main"].pc = "wait" /\ loop.pc \in {"off", "done"}
  /\ Goto("main", "exited")
  /\ UNCHANGED <<kernelVars, links, reader, loop, events, rows, ctxDone, delivered, lost>>

ReadLoop == Read \/ ReadSend \/ ReadClosed
Run == Take("run", "select", "observe") \/ Tick \/ RunEnds \/ ReportOnce("run")
Main == Attach \/ Started \/ ReportOnce("main") \/ Stop \/ closeLocked \/ Exit

Next ==
  \/ Kernel /\ UNCHANGED agentVars
  \/ ReadLoop \/ Run \/ Main
  \/ StartFails \/ Signal

Spec == Init /\ [][Next]_vars

\* Programs in the kernel and goroutines that can go on do.  A select with
\* several ready cases takes each of them again and again.
FairSpec ==
  /\ Spec
  /\ WF_vars(ProgramStep /\ UNCHANGED agentVars)
  /\ WF_vars(ReadLoop) /\ WF_vars(Run) /\ WF_vars(Main)
  /\ SF_vars(Tick) /\ SF_vars(RunEnds)

----------------------------------------------------------------------------
Sum(S, f(_)) ==
  LET sum[T \in SUBSET S] == IF T = {} THEN NoSignals ELSE LET x == CHOOSE x \in T : TRUE IN Plus(f(x), sum[T \ {x}])
  IN  sum[S]

\* The signals about an endpoint on their way: undecoded, decoded, folded in,
\* being sent.
Raw(e, k) == IF ring[k].event # None /\ About(ring[k].event, e) THEN Signals(ring[k].event) ELSE NoSignals
Decoded(e, event) == IF event # None /\ event.RemoteKey = Key(e) THEN SignalsOf(event) ELSE NoSignals
Row(e, r) == IF r[Key(e)] = None THEN NoSignals ELSE r[Key(e)]
Held(e, p) == Plus(Decoded(e, proc[p].event), Row(e, proc[p].samples))
OnTheWay(e) ==
  Plus(Plus(Sum(DOMAIN ring, LAMBDA k : Raw(e, k)), Sum(DOMAIN events, LAMBDA k : Decoded(e, events[k]))),
       Plus(Plus(Decoded(e, loop.event), Row(e, rows)), Sum(Proc, LAMBDA p : Held(e, p))))

\* No signal is counted twice, attributed to another endpoint, or lost but
\* where the code gives it up (a full channel, a failed report): whatever the
\* probes submitted about an endpoint is on its way, was delivered, or was
\* dropped in one of these places, though two goroutines drain one channel and
\* snapshot the same rows once a signal has arrived.
SignalsKept ==
  \A e \in Endpoint :
    Key(e) # 0 => emitted[e] = Plus(OnTheWay(e), Plus(delivered[Key(e)], lost[Key(e)]))

\* The agent keeps up and shuts down: what was folded in leaves with a report
\* before or with the signal, and after a signal or a failed start, Stop
\* returns, whichever goroutine is reading, reporting or in the kernel.
AgentStops ==
  /\ (rows # NoRows) ~> (rows = NoRows \/ ctxDone \/ ~left.ticker)
  /\ (proc["main"].pc \in {"drain", "close"}) ~> (proc["main"].pc = "exited")

\* TestDecodeRawTCPConnectErrorEvent: "expected 25ms connect latency", the
\* latency that the event was written with.
LatencyDecoded ==
  \A k \in DOMAIN ring :
    ring[k].event # None => DecodeRawTCPEvent(ring[k].event).ConnectLatency = ring[k].event.connect_latency_ns
=============================================================================
