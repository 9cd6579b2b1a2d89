-------------------------- MODULE AsyncJSONLWriter --------------------------
(***************************************************************************)
(* The trace writer, pkg/trace/async.go: Write puts a record on a bounded  *)
(* queue under one of three overflow policies, one goroutine encodes the   *)
(* records into a buffer that it flushes, Close stops it.  A record is the *)
(* RPC that wrote it.                                                      *)
(***************************************************************************)
EXTENDS Naturals, Sequences, Functions

CONSTANTS Record,
          QueueSize, FlushRecords, SampleEvery   \* AsyncConfig

\* Settings that are not positive are replaced by the defaults.
ASSUME ConfigAssumption == {QueueSize, FlushRecords, SampleEvery} \subseteq Nat \ {0}

VARIABLES overflow,     \* the overflow policy
          queue,
          wr,           \* the Write of each RPC
          samples,      \* sampleCounter
          closer,       \* Close: "open", "closed", "stopping" or "returned"
          runner,       \* the goroutine: "loop", "drain" or "ended"
          buffer,       \* records not flushed yet
          file,         \* records on disk
          closeErr,
          before        \* history: records queued when Close was called

writerVars == <<overflow, queue, wr, samples, closer, runner, buffer, file, closeErr, before>>

Outcome == {"queued", "dropped", "refused"}

WriterInit ==
  /\ overflow \in {"drop", "block", "sample"}
  /\ queue = <<>>
  /\ wr = [c \in Record |-> "idle"]
  /\ samples = 0
  /\ closer = "open"
  /\ runner = "loop"
  /\ buffer = <<>> /\ file = <<>>
  /\ closeErr = FALSE
  /\ before = {}

Full == Len(queue) >= QueueSize

\* Write checks the flag first,
WriteBegin(c) ==
  /\ wr[c] = "idle"
  /\ wr' = [wr EXCEPT ![c] = IF closer = "open" THEN "send" ELSE "refused"]
  /\ UNCHANGED <<overflow, queue, samples, closer, runner, buffer, file, closeErr, before>>

\* and sends later, when the queue has room,
Enqueue(c) ==
  /\ wr[c] \in {"send", "resend"} /\ ~Full
  /\ queue' = Append(queue, c)
  /\ wr' = [wr EXCEPT ![c] = "queued"]
  /\ UNCHANGED <<overflow, samples, closer, runner, buffer, file, closeErr, before>>

\* or deals with a full one.  A blocking policy has no such step.
Overflow(c) ==
  /\ wr[c] \in {"send", "resend"} /\ Full /\ overflow # "block"
  /\ IF overflow = "sample" /\ wr[c] = "send"
     THEN /\ samples' = (samples + 1) % SampleEvery
          /\ wr' = [wr EXCEPT ![c] = IF samples' = 0 THEN "resend" ELSE "dropped"]
     ELSE /\ wr' = [wr EXCEPT ![c] = "dropped"]
          /\ UNCHANGED samples
  /\ UNCHANGED <<overflow, queue, closer, runner, buffer, file, closeErr, before>>

----------------------------------------------------------------------------
\* Mutant of Close: it waits for the goroutine before it stops it.
CloseWaits ==
  \/ /\ closer = "open" /\ closer' = "closed"
     /\ before' = { c \in Record : wr[c] = "queued" }
     /\ UNCHANGED <<overflow, queue, wr, samples, runner, buffer, file, closeErr>>
  \/ /\ closer = "closed" /\ runner = "ended" /\ closer' = "returned"
     /\ UNCHANGED <<overflow, queue, wr, samples, runner, buffer, file, closeErr, before>>

\* Close sets the flag, closes the stop channel and waits for the goroutine.
Close ==
  \/ /\ closer = "open" /\ closer' = "closed"
     /\ before' = { c \in Record : wr[c] = "queued" }
     /\ UNCHANGED <<overflow, queue, wr, samples, runner, buffer, file, closeErr>>
  \/ /\ closer = "closed" /\ closer' = "stopping"
     /\ UNCHANGED <<overflow, queue, wr, samples, runner, buffer, file, closeErr, before>>
  \/ /\ closer = "stopping" /\ runner = "ended" /\ closer' = "returned"
     /\ UNCHANGED <<overflow, queue, wr, samples, runner, buffer, file, closeErr, before>>

----------------------------------------------------------------------------
(* The goroutine.                                                          *)

\* The records go to the file; after an error of the file they are lost.
Flushed(records) ==
  /\ buffer' = <<>>
  /\ \/ ~closeErr /\ file' = file \o records /\ UNCHANGED closeErr
     \/ (closeErr \/ records # <<>>) /\ closeErr' = TRUE /\ UNCHANGED file

\* A record is taken from the queue, while the loop runs or drains it.
writeRecord ==
  /\ runner \in {"loop", "drain"} /\ queue # <<>>
  /\ queue' = Tail(queue)
  /\ LET records == Append(buffer, Head(queue))
     IN  IF Len(records) >= FlushRecords THEN Flushed(records)
         ELSE buffer' = records /\ UNCHANGED <<file, closeErr>>
  /\ UNCHANGED <<overflow, wr, samples, closer, runner, before>>

flushTick ==
  /\ runner = "loop" /\ buffer # <<>>
  /\ Flushed(buffer)
  /\ UNCHANGED <<overflow, queue, wr, samples, closer, runner, before>>

\* Mutant of StopLoop: the loop ends at once.
StopAtOnce ==
  /\ runner = "loop" /\ closer = "stopping"
  /\ runner' = "ended"
  /\ Flushed(buffer)
  /\ UNCHANGED <<overflow, queue, wr, samples, closer, before>>

\* The stop channel wins the select, whatever is queued.
StopLoop ==
  /\ runner = "loop" /\ closer = "stopping"
  /\ runner' = "drain"
  /\ UNCHANGED <<overflow, queue, wr, samples, closer, buffer, file, closeErr, before>>

\* The file takes what was flushed and then fails to close.
FlushedNotClosed(records) ==
  /\ ~closeErr /\ closeErr' = TRUE
  /\ buffer' = <<>> /\ file' = file \o records

\* The queue is empty: flush, close the file, end.
EndLoop ==
  /\ runner = "drain" /\ queue = <<>>
  /\ runner' = "ended"
  /\ Flushed(buffer) \/ FlushedNotClosed(buffer)
  /\ UNCHANGED <<overflow, queue, wr, samples, closer, before>>

RecordWritten(c) == Enqueue(c) \/ Overflow(c)
RunsWriter == writeRecord \/ flushTick \/ StopLoop \/ EndLoop
=============================================================================
