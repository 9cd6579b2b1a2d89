-------------------------- MODULE MCFileRegistries --------------------------
(* The two file backends for TLC: a controller has one or the other, with  *)
(* the same callers and sweep loop.                                        *)
EXTENDS FileRegistryV2, TLC

VARIABLES backend,
          changing, snapshot, fd, path, tmp, alone, overlapped   \* of FileRegistry

File == INSTANCE FileRegistry

fileOnly == <<changing, snapshot, fd, path, tmp, alone, overlapped>>
walOnly == <<syncMode, snapshotFile, wal, buffer, fatal, writes, record, expired, graceful>>

\* buildRegistry.  What belongs to the other backend is not there.
BackendsInit ==
  \/ /\ backend = "file-v2"
     /\ Init
     /\ changing = None /\ snapshot = None /\ fd = None /\ path = None /\ tmp = None
     /\ alone = None /\ overlapped = None
  \/ /\ backend = "file"
     /\ File!Init
     /\ snapshotFile = None /\ wal = None /\ buffer = None /\ fatal = None
     /\ writes = None /\ record = None /\ expired = None
     /\ syncMode = "batch" /\ graceful = FALSE

BackendsNext ==
  \/ backend = "file-v2" /\ Next /\ UNCHANGED <<backend, fileOnly>>
  \/ backend = "file" /\ File!Next /\ UNCHANGED <<backend, walOnly>>

BackendsSpec == BackendsInit /\ [][BackendsNext]_<<vars, backend, fileOnly>>

\* FileRegistry's recovery: a persist that no other overlaps leaves, whenever
\* the process crashes, a file that load turns into what was in memory.
JSONRecovers == [][backend = "file" /\ ~overlapped => ~File!CrashLoses /\ ~File!LoadDiffers]_<<vars, fileOnly>>

Symmetry == Permutations(Id) \cup Permutations(Caller)
=============================================================================
