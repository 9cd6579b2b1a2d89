------------------------------ MODULE MCClient ------------------------------
(* What a client checks before it sends, for TLC: the balancer's picks and  *)
(* the inflight limits, or the retry budget.  The two share nothing, and    *)
(* one is looked at at a time.                                              *)
EXTENDS AdaptivePicker, RetryBudget, TLC

VARIABLE guard

ClientInit ==
  /\ guard \in {"limiter", "budget"}
  /\ PickerInit /\ BudgetInit
  /\ guard = "budget" => ~pooled /\ max = DefaultMax   \* one of the limiters' initial states

ClientNext ==
  \/ guard = "limiter" /\ PickerStep /\ UNCHANGED <<guard, budgetVars>>
  \/ guard = "budget" /\ BudgetNext /\ UNCHANGED <<guard, pickerVars>>

ClientSpec == ClientInit /\ [][ClientNext]_<<guard, pickerVars, budgetVars>>

Symmetry == Permutations(Picking) \cup Permutations(Endpoint)
=============================================================================
