--------------------------- MODULE RegistryWatcher ---------------------------
(***************************************************************************)
(* One watcher of a registry (RegistryWatch), with names of its own beside *)
(* those of the registry it watches.                                       *)
(***************************************************************************)
EXTENDS Naturals, Sequences

CONSTANTS MaxVersion, CanExpire                                               \* of RegistryWatch

ASSUME VersionAssumption == MaxVersion \in Nat

VARIABLES version, notify, overdue, stored, watcher, updates, received, done  \* of RegistryWatch

Watch == INSTANCE RegistryWatch

watchVars == <<version, notify, overdue, stored, watcher, updates, received, done>>

\* watch never sleeps on a notify channel that was closed before it was read,
\* nor with an update it has not handed over.
NoLostWakeup == Watch!NoLostWakeup

\* A consumer that keeps receiving ends with the last version, unless
\* sendLatestSnapshot blocks on the channel it drains.
CatchesUpUnlessStuck == Watch!CatchesUpUnlessStuck
=============================================================================
