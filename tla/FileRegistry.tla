---------------------------- MODULE FileRegistry ----------------------------
(***************************************************************************)
(* pkg/registry/file_registry.go: the registry that, after every change it *)
(* makes in memory, writes all of it to a temporary file and renames that  *)
(* over the backing file, without a lock around the two.  One service; the *)
(* memory registry inside is MemoryRegistry, each operation one step here. *)
(*                                                                         *)
(* A writer goes on writing to the file it opened when that is renamed or  *)
(* replaced.  The process may crash, the machine does not.                 *)
(***************************************************************************)
EXTENDS Integers

CONSTANTS Id,
          Caller,
          Sweeper,       \* the controller's sweep loop
          None,
          TTL,           \* lease durations
          MaxTime, MaxOps, MaxCrashes   \* bounds

VARIABLES clock, ops, crashes,
          memory,        \* the records: [epoch, expires]
          pc,            \* where each process is in its operation
          changing,      \* the id of that operation
          snapshot,      \* and what it is to write,
          fd,            \* to the file that now has which name,
          path, tmp,     \* and what is in the files of the two names
          up,            \* is the controller running?
          before,        \* history: the records when it crashed,
          alone,         \* whether a process has persisted with no other at it,
          overlapped,    \* whether what is at path is not of such a persist,
          doubts         \* and ids changed without an answer, or with an error

files == <<fd, path, tmp>>
history == <<before, alone, overlapped, doubts>>
settled == <<clock, ops, crashes>>
vars == <<settled, memory, pc, changing, snapshot, files, up, history>>

Process == Caller \cup {Sweeper}
NoRecords == [i \in Id |-> None]
Records == [Id -> [epoch : 1..MaxOps, expires : Nat] \cup {None}]
JSON(m) == [kind |-> "json", records |-> m]
Missing == [kind |-> "missing", records |-> NoRecords]
Empty == [kind |-> "empty", records |-> NoRecords]
Garbage == [kind |-> "garbage", records |-> NoRecords]

TypeOK ==
  /\ clock \in 0..MaxTime
  /\ memory \in Records
  /\ pc \in [Process -> {"idle", "persist", "open", "write", "rename"}]
  /\ \A p \in Process : pc[p] = "write" => fd[p] \in {"tmp", "path", "none"}
  /\ doubts \subseteq Id

Init ==
  /\ clock = 0 /\ ops = 0 /\ crashes = 0
  /\ memory = NoRecords
  /\ pc = [p \in Process |-> "idle"]
  /\ changing = [p \in Process |-> None]
  /\ snapshot = [p \in Process |-> NoRecords]
  /\ fd = [p \in Process |-> None]
  /\ path = Missing /\ tmp = Missing
  /\ up = TRUE
  /\ before = NoRecords
  /\ alone = [p \in Process |-> FALSE]
  /\ overlapped = FALSE
  /\ doubts = {}

Live(rec) == rec # None /\ rec.expires > clock
LiveRecords(m) == [i \in Id |-> IF Live(m[i]) THEN m[i] ELSE None]
Goto(p, label) == pc' = [pc EXCEPT ![p] = label]

----------------------------------------------------------------------------
(* The operations: the memory registry's, then persist.                    *)

Change(c, i, rec) ==
  /\ up /\ pc[c] = "idle" /\ ops < MaxOps
  /\ memory' = [memory EXCEPT ![i] = rec]
  /\ ops' = ops + 1
  /\ Goto(c, "persist")
  /\ changing' = [changing EXCEPT ![c] = i]
  /\ UNCHANGED <<clock, crashes, snapshot, files, up, history>>

Register(c) ==
  \E i \in Id, ttl \in TTL : Change(c, i, [epoch |-> ops + 1, expires |-> clock + ttl])

\* A heartbeat for an id that is not there, or for another epoch, is refused
\* by the memory registry and changes nothing.
Heartbeat(c) ==
  \E i \in Id, ttl \in TTL : memory[i] # None /\ Change(c, i, [memory[i] EXCEPT !.expires = clock + ttl])

SweepExpired ==
  /\ up /\ pc[Sweeper] = "idle"
  /\ LiveRecords(memory) # memory
  /\ memory' = LiveRecords(memory)
  /\ Goto(Sweeper, "persist")
  /\ UNCHANGED <<settled, changing, snapshot, files, up, history>>

\* Readers purge expired records and persist nothing.
List ==
  /\ up
  /\ memory' = LiveRecords(memory)
  /\ UNCHANGED <<settled, pc, changing, snapshot, files, up, history>>

----------------------------------------------------------------------------
(* persist                                                                 *)

Persisting == { p \in Process : pc[p] \in {"open", "write", "rename"} }

persist(p) ==
  /\ up /\ pc[p] = "persist"
  /\ snapshot' = [snapshot EXCEPT ![p] = LiveRecords(memory)]
  /\ alone' = [q \in Process |-> IF q = p THEN Persisting = {} ELSE alone[q] /\ q \notin Persisting]
  /\ overlapped' = (overlapped \/ Persisting # {})
  /\ Goto(p, "open")
  /\ UNCHANGED <<settled, memory, changing, files, up, before, doubts>>

\* Mutant of Open: the backing file itself is emptied and written.
OpenInPlace(p) ==
  /\ up /\ pc[p] = "open"
  /\ path' = Empty
  /\ fd' = [fd EXCEPT ![p] = "path"]
  /\ Goto(p, "write")
  /\ UNCHANGED <<settled, memory, changing, snapshot, tmp, up, history>>

\* os.WriteFile creates the temporary file or empties the one that is there,
Open(p) ==
  /\ up /\ pc[p] = "open"
  /\ tmp' = Empty
  /\ fd' = [fd EXCEPT ![p] = "tmp"]
  /\ Goto(p, "write")
  /\ UNCHANGED <<settled, memory, changing, snapshot, path, up, history>>

\* and writes from its start: over what another wrote meanwhile, of which a
\* tail remains if it was longer.
Written(old, new) == IF old = Empty \/ old = new THEN {new} ELSE {new, Garbage}

Write(p) ==
  /\ up /\ pc[p] = "write"
  /\ tmp' \in IF fd[p] = "tmp" THEN Written(tmp, JSON(snapshot[p])) ELSE {tmp}
  /\ path' \in IF fd[p] = "path" THEN Written(path, JSON(snapshot[p])) ELSE {path}
  /\ fd' = [fd EXCEPT ![p] = None]
  /\ Goto(p, "rename")
  /\ UNCHANGED <<settled, memory, changing, snapshot, up, history>>

\* The end of an operation: answered, or with an error that SweepExpired ignores.
Return(p, err) ==
  /\ Goto(p, "idle")
  /\ changing' = [changing EXCEPT ![p] = None]
  /\ snapshot' = [snapshot EXCEPT ![p] = NoRecords]
  /\ alone' = [alone EXCEPT ![p] = FALSE]
  /\ doubts' = IF err THEN doubts \cup ({changing[p]} \cap Id) ELSE IF alone[p] THEN {} ELSE doubts
  /\ overlapped' = IF ~err /\ alone[p] THEN FALSE ELSE overlapped

WriteFails(p) ==
  /\ up /\ pc[p] = "write"
  /\ tmp' \in IF fd[p] = "tmp" THEN {tmp, Garbage} ELSE {tmp}
  /\ path' \in IF fd[p] = "path" THEN {path, Garbage} ELSE {path}
  /\ fd' = [fd EXCEPT ![p] = None]
  /\ Return(p, TRUE)
  /\ UNCHANGED <<settled, memory, up, before>>

\* What is at the temporary name by now takes the place of the backing file;
\* if another renamed it there is nothing to rename.
Rename(p) ==
  /\ up /\ pc[p] = "rename"
  /\ IF tmp = Missing
     THEN UNCHANGED <<path, fd>>
     ELSE /\ path' = tmp
          /\ fd' = [q \in Process |-> CASE fd[q] = "tmp" -> "path" [] fd[q] = "path" -> "none" [] OTHER -> fd[q]]
  /\ tmp' = Missing
  /\ Return(p, tmp = Missing)
  /\ UNCHANGED <<settled, memory, up, before>>

----------------------------------------------------------------------------
Crash ==
  /\ up /\ crashes < MaxCrashes
  /\ up' = FALSE
  /\ crashes' = crashes + 1
  /\ before' = memory
  /\ memory' = NoRecords
  /\ doubts' = doubts \cup ({ changing[p] : p \in Process } \cap Id)
  /\ pc' = [p \in Process |-> "idle"]
  /\ changing' = [p \in Process |-> None]
  /\ snapshot' = [p \in Process |-> NoRecords]
  /\ fd' = [p \in Process |-> None]
  /\ alone' = [p \in Process |-> FALSE]
  /\ UNCHANGED <<clock, ops, path, tmp, overlapped>>

\* load: a missing or an empty file is an empty registry;
load ==
  /\ ~up
  /\ path # Garbage
  /\ up' = TRUE
  /\ memory' = LiveRecords(path.records)
  /\ before' = NoRecords
  /\ doubts' = {}
  /\ UNCHANGED <<settled, pc, changing, snapshot, files, alone, overlapped>>

\* one that does not parse keeps the controller from starting.
LoadFails ==
  /\ ~up
  /\ path = Garbage
  /\ UNCHANGED vars

Advance ==
  /\ clock < MaxTime
  /\ clock' = clock + 1
  /\ UNCHANGED <<ops, crashes, memory, pc, changing, snapshot, files, up, history>>

Next ==
  \/ SweepExpired \/ List \/ Crash \/ load \/ LoadFails \/ Advance
  \/ \E c \in Caller : Register(c) \/ Heartbeat(c)
  \/ \E p \in Process : persist(p) \/ Open(p) \/ Write(p) \/ WriteFails(p) \/ Rename(p)

Spec == Init /\ [][Next]_vars

----------------------------------------------------------------------------
\* A crash leaves a file that loads, and load finds the records.
CrashLoses == up /\ ~up' /\ path' = Garbage
LoadDiffers == ~up /\ up' /\ \E i \in Id \ doubts : memory'[i] # LiveRecords(before)[i]

\* One persist at a time, the file is as good as its rename is atomic: if what
\* is at path was put there by a persist that no other overlapped and none has
\* begun beside another since, a crash at any point leaves a file that loads,
\* with the record the registry held of every id whose operations were answered
\* without an error, less what has expired.
JSONRecovers == [][~overlapped => ~CrashLoses /\ ~LoadDiffers]_vars
=============================================================================
