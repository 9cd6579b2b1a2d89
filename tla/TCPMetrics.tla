----------------------------- MODULE TCPMetrics -----------------------------
(***************************************************************************)
(* agent/ebpf/bpf/tcp_metrics.bpf.c: the three kernel probes, the map of   *)
(* connects in progress and the ring buffer, with the kernel that calls    *)
(* them.  A thread runs tcp_v4_connect, retransmissions happen in softirq. *)
(*                                                                         *)
(* A byte has ByteValues values (256 in the kernel), so that words fit     *)
(* TLC's integers.  Process names and local addresses are left zero.       *)
(***************************************************************************)
EXTENDS Integers, Sequences, FiniteSets

CONSTANTS Thread,      \* pid_tgid values
          Softirq,     \* the context of a retransmission
          None,
          Endpoint,    \* remote [addr, port]; an IPv6 peer has addr 0 here
          ByteValues,
          MaxStarts,   \* entries of connect_starts
          RingSize,    \* records the ring buffer has room for
          Load         \* bounds: [time, connects, retransmits, missed, ticker], where
                       \* missed are return probes the kernel skips (maxactive)

VARIABLES ktime,
          attached,    \* programs attached to their kernel function
          starts,      \* connect_starts
          ring,        \* the events ring buffer; a reserved record has no event yet
          connecting,  \* the connect each thread is in
          program,     \* the BPF program each context is running
          left,        \* what is left of the load
          emitted,     \* history: signals submitted, by remote endpoint,
          unprobed     \* and threads whose last connect returned unseen

kernelVars == <<ktime, attached, starts, ring, connecting, program,
                left, emitted, unprobed>>

Context == Thread \cup {Softirq}

\* struct tcp_event: its members, their sizes and alignments,
tcp_event ==
  << [name |-> "timestamp_ns", size |-> 8, align |-> 8], [name |-> "pid", size |-> 4, align |-> 4],
     [name |-> "type", size |-> 4, align |-> 4], [name |-> "family", size |-> 2, align |-> 2],
     [name |-> "sport", size |-> 2, align |-> 2], [name |-> "dport", size |-> 2, align |-> 2],
     [name |-> "pad", size |-> 2, align |-> 2], [name |-> "ret", size |-> 4, align |-> 4],
     [name |-> "saddr_v4", size |-> 4, align |-> 4], [name |-> "daddr_v4", size |-> 4, align |-> 4],
     [name |-> "connect_latency_ns", size |-> 8, align |-> 8], [name |-> "comm", size |-> 16, align |-> 1] >>

AlignUp(n, a) == ((n + a - 1) \div a) * a

\* and where the compiler puts them: each at the next multiple of its alignment.
Offset ==
  LET at[k \in DOMAIN tcp_event] ==
        IF k = 1 THEN 0 ELSE AlignUp(at[k - 1] + tcp_event[k - 1].size, tcp_event[k].align)
  IN  at

SizeofEvent == AlignUp(Offset[Len(tcp_event)] + tcp_event[Len(tcp_event)].size, 8)

\* The members that have a byte at an offset: one, or none in the padding.
MemberAt ==
  [o \in 0..SizeofEvent - 1 |-> { k \in DOMAIN tcp_event : Offset[k] <= o /\ o < Offset[k] + tcp_event[k].size }]

\* The byte at an offset of an event; what memset left is zero.
ByteAt(event, o) ==
  IF MemberAt[o] = {} THEN 0
  ELSE LET k == CHOOSE k \in MemberAt[o] : TRUE
       IN  (event[tcp_event[k].name] \div ByteValues ^ (o - Offset[k])) % ByteValues

ZeroEvent == [name \in { tcp_event[k].name : k \in DOMAIN tcp_event } |-> 0]

AEGIS_EVENT_RETRANSMIT == 1
AEGIS_EVENT_CONNECT == 2

\* Ports are in network byte order in the kernel's structures.
bpf_ntohs(port) == (port % ByteValues) * ByteValues + port \div ByteValues

\* The members of sock_common that are read, of a connected socket and of one
\* that is about to connect, and sockaddr_in.
Sock(e) == [skc_daddr |-> e.addr, skc_dport |-> bpf_ntohs(e.port)]
NewSock == [skc_daddr |-> 0, skc_dport |-> 0]
SockAddr(e) == [s_addr |-> e.addr, sin_port |-> bpf_ntohs(e.port)]

Idle == [pc |-> "idle", now |-> 0, ret |-> 0]
NoSignals == [retransmits |-> 0, connectErrors |-> 0]

KernelInit ==
  /\ ktime = 0
  /\ attached = {}
  /\ starts = [t \in Thread |-> None]
  /\ ring = <<>>
  /\ connecting = [t \in Thread |-> None]
  /\ program = [c \in Context |-> Idle]
  /\ left \in Load
  /\ emitted = [e \in Endpoint |-> NoSignals]
  /\ unprobed = {}

Advance ==
  /\ left.time > 0
  /\ left' = [left EXCEPT !.time = @ - 1]
  /\ ktime' = ktime + 1
  /\ UNCHANGED <<attached, starts, ring, connecting, program, emitted, unprobed>>

----------------------------------------------------------------------------
(* The ring buffer: records are consumed in the order of their reservation.*)

RingFull == Len(ring) >= RingSize

bpf_ringbuf_reserve(c) == Append(ring, [by |-> c, event |-> None])

bpf_ringbuf_submit(c, event) ==
  [k \in DOMAIN ring |-> IF ring[k].by = c THEN [by |-> None, event |-> event] ELSE ring[k]]

\* What a submitted event tells of a remote endpoint.
Signals(event) ==
  [retransmits |-> IF event.type = AEGIS_EVENT_RETRANSMIT THEN 1 ELSE 0,
   connectErrors |-> IF event.type = AEGIS_EVENT_CONNECT /\ event.ret # 0 THEN 1 ELSE 0]

Plus(a, b) == [retransmits |-> a.retransmits + b.retransmits, connectErrors |-> a.connectErrors + b.connectErrors]

About(event, e) == event.daddr_v4 = e.addr /\ event.dport = e.port

Emit(c, event) ==
  /\ ring' = bpf_ringbuf_submit(c, event)
  /\ emitted' = [e \in Endpoint |-> IF About(event, e) THEN Plus(emitted[e], Signals(event)) ELSE emitted[e]]

----------------------------------------------------------------------------
(* aegis_tcp_retransmit, from the reservation to the submission.           *)

fill_tuple(event, sk) ==
  [event EXCEPT !.daddr_v4 = sk.skc_daddr, !.dport = bpf_ntohs(sk.skc_dport)]

aegis_tcp_retransmit ==
  /\ "aegis_tcp_retransmit" \in attached
  /\ left.retransmits > 0
  /\ program[Softirq] = Idle
  /\ left' = [left EXCEPT !.retransmits = @ - 1]
  /\ IF RingFull
     THEN UNCHANGED <<ring, program>>
     ELSE /\ ring' = bpf_ringbuf_reserve(Softirq)
          /\ program' = [program EXCEPT ![Softirq].pc = "submit"]
  /\ UNCHANGED <<ktime, attached, starts, connecting, emitted, unprobed>>

RetransmitSubmit ==
  /\ program[Softirq].pc = "submit"
  /\ \E e \in Endpoint :
       Emit(Softirq, fill_tuple([ZeroEvent EXCEPT !.timestamp_ns = ktime, !.type = AEGIS_EVENT_RETRANSMIT], Sock(e)))
  /\ program' = [program EXCEPT ![Softirq] = Idle]
  /\ UNCHANGED <<ktime, attached, starts, connecting, left, unprobed>>

----------------------------------------------------------------------------
(* tcp_v4_connect, with aegis_tcp_v4_connect where it begins               *)

fill_start_tuple(sk, addr) ==
  [timestamp_ns |-> ktime, daddr_v4 |-> addr.s_addr, dport |-> bpf_ntohs(addr.sin_port)]

\* Mutant of aegis_tcp_v4_connect: an entry that is there is kept (BPF_NOEXIST).
StartKept(t, sk, addr) ==
  IF starts[t] = None /\ Cardinality({ u \in Thread : starts[u] # None }) < MaxStarts
  THEN [starts EXCEPT ![t] = fill_start_tuple(sk, addr)]
  ELSE starts

\* The result of the update is not looked at: a full map takes no new thread.
aegis_tcp_v4_connect(t, sk, addr) ==
  IF starts[t] # None \/ Cardinality({ u \in Thread : starts[u] # None }) < MaxStarts
  THEN [starts EXCEPT ![t] = fill_start_tuple(sk, addr)]
  ELSE starts

\* The return probe is armed on entry, if it is attached and the kernel has an
\* instance left for it.
tcp_v4_connect(t, e) ==
  LET ret == "aegis_tcp_v4_connect_ret" \in attached
  IN  /\ connecting[t] = None
      /\ left.connects > 0
      /\ \E armed \in BOOLEAN :
           /\ armed => ret
           /\ ret /\ ~armed => left.missed > 0
           /\ left' = [left EXCEPT !.connects = @ - 1, !.missed = IF ret /\ ~armed THEN @ - 1 ELSE @]
           /\ connecting' = [connecting EXCEPT ![t] = [to |-> e, since |-> ktime, armed |-> armed]]
      /\ starts' = IF "aegis_tcp_v4_connect" \in attached
                   THEN aegis_tcp_v4_connect(t, NewSock, SockAddr(e)) ELSE starts
      /\ UNCHANGED <<ktime, attached, ring, program, emitted, unprobed>>

(* and aegis_tcp_v4_connect_ret where it returns.                          *)
ConnectReturns(t, ret) ==
  /\ connecting[t] # None /\ program[t] = Idle
  /\ IF connecting[t].armed /\ "aegis_tcp_v4_connect_ret" \in attached
     THEN /\ program' = [program EXCEPT ![t] = [pc |-> "lookup", now |-> ktime, ret |-> ret]]
          /\ UNCHANGED <<connecting, unprobed>>
     ELSE /\ connecting' = [connecting EXCEPT ![t] = None]
          /\ unprobed' = unprobed \cup {t}
          /\ UNCHANGED program
  /\ UNCHANGED <<ktime, attached, starts, ring, left, emitted>>

Returned(t) ==
  /\ program' = [program EXCEPT ![t] = Idle]
  /\ connecting' = [connecting EXCEPT ![t] = None]
  /\ unprobed' = unprobed \ {t}

aegis_tcp_v4_connect_ret(t) ==
  /\ program[t].pc = "lookup"
  /\ \/ /\ starts[t] = None
        /\ Returned(t)
        /\ UNCHANGED <<starts, ring>>
     \/ /\ starts[t] # None /\ RingFull
        /\ starts' = [starts EXCEPT ![t] = None]
        /\ Returned(t)
        /\ UNCHANGED ring
     \/ /\ starts[t] # None /\ ~RingFull
        /\ ring' = bpf_ringbuf_reserve(t)
        /\ program' = [program EXCEPT ![t].pc = "submit"]
        /\ UNCHANGED <<starts, connecting, unprobed>>
  /\ UNCHANGED <<ktime, attached, left, emitted>>

ConnectEvent(t) ==
  [ZeroEvent EXCEPT !.timestamp_ns = program[t].now, !.type = AEGIS_EVENT_CONNECT,
                    !.dport = starts[t].dport, !.ret = program[t].ret, !.daddr_v4 = starts[t].daddr_v4,
                    !.connect_latency_ns = program[t].now - starts[t].timestamp_ns]

ConnectSubmit(t) ==
  /\ program[t].pc = "submit"
  /\ Emit(t, ConnectEvent(t))
  /\ starts' = [starts EXCEPT ![t] = None]
  /\ Returned(t)
  /\ UNCHANGED <<ktime, attached, left>>

\* What runs in the kernel to its end,
ProgramStep ==
  \/ RetransmitSubmit
  \/ \E t \in Thread : aegis_tcp_v4_connect_ret(t) \/ ConnectSubmit(t)

\* and what sets it off.
Kernel ==
  \/ Advance
  \/ aegis_tcp_retransmit
  \/ \E t \in Thread :
       \/ \E e \in Endpoint : tcp_v4_connect(t, e)
       \/ \E ret \in {0, 1} : ConnectReturns(t, ret)
  \/ ProgramStep

----------------------------------------------------------------------------
\* aegis_tcp_v4_connect_ret pairs an event with the connect it is about: the
\* start it is made of, looked up by thread, is the one of the connect that
\* returns, though starts are leaked by skipped return probes, refused by a
\* full map, and stored before the return probe is attached.  And it "always
\* clears the matching start record": a thread that is in no connect has no
\* start but one whose return was not probed.
ConnectsPaired ==
  \A t \in Thread :
    /\ program[t].pc # "idle" /\ starts[t] # None =>
         /\ About(ConnectEvent(t), connecting[t].to)
         /\ ConnectEvent(t).connect_latency_ns = program[t].now - connecting[t].since
    /\ connecting[t] = None /\ starts[t] # None => t \in unprobed
=============================================================================
