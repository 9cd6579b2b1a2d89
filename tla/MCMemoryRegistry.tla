-------------------------- MODULE MCMemoryRegistry --------------------------
(* The registry for TLC, and one of its watchers, whose source publishes   *)
(* what the registry does: one or the other is looked at.                  *)
EXTENDS MemoryRegistry, RegistryWatcher

VARIABLE watching   \* which one

\* A watch that is closed, on a source that is at rest.
NoWatch ==
  /\ version = MaxVersion /\ notify = MaxVersion /\ received = MaxVersion
  /\ overdue = FALSE /\ stored = FALSE /\ done = TRUE
  /\ watcher = [pc |-> "closed", snapshot |-> 0, notify |-> 0, lastVersion |-> 0]
  /\ updates = <<>>

MCInit ==
  /\ watching \in BOOLEAN
  /\ Init
  /\ IF watching THEN Watch!Init ELSE NoWatch

MCNext ==
  \/ ~watching /\ Next /\ UNCHANGED <<watching, watchVars>>
  \/ watching /\ Watch!Next /\ UNCHANGED <<watching, vars>>
  \/ watching /\ (SweepBegin \/ SweepStep) /\ UNCHANGED <<watching, watchVars>>   \* with nothing to sweep

MCSpec ==
  /\ MCInit /\ [][MCNext]_<<vars, watching, watchVars>>
  /\ Fairness /\ Watch!Fairness
=============================================================================
