---------------------------- MODULE DynamicRetry ----------------------------
(***************************************************************************)
(* The retry interceptor of the Go SDK (sdk/go/aegisgrpc/retry.go) and the *)
(* policy it follows (policy.go, dial_options.go): unary calls load the    *)
(* latest compiled policy, share a budget with the calls of their method,  *)
(* and retry while both allow it.  Budgets are taken by what RetryBudget   *)
(* shows of them: a retry is admitted within the allowance or refused.     *)
(***************************************************************************)
EXTENDS Integers, Sequences

CONSTANTS Method,
          Call,          \* concurrent unary calls
          NoPolicy,
          MinBudget,     \* every budget's floor; the ratio adds nothing here
          MaxCalls       \* bound on the calls made, hence on the budgets

ASSUME MethodAssumption == Method # {}
ASSUME BudgetAssumption == MinBudget \in Nat /\ MaxCalls \in Nat

VARIABLES dialled,       \* the dial options: [mode, max]
          policy,        \* the compiled policy, [rev, retry, methods]
          defaults,      \* the retry settings the source starts from
          budgets,       \* the method's current budget, 0 for none
          made,          \* history: method and revision of every budget made
          extra,         \* retries admitted by each budget in its window
          calls,         \* calls made
          pc, method, loaded, retry, budget, attempt   \* each call's locals

shared == <<dialled, policy, defaults, budgets, made, extra, calls>>
locals == <<pc, method, loaded, retry, budget, attempt>>
retryVars == <<shared, locals>>

Budgets == 1..MaxCalls
Retry == [mode : {"off", "without", "budget"}, max : Nat]


\* Settings that may be unset, of a service and of its methods.
Patch == [enabled : BOOLEAN, max : Int]
IsSettings(s) ==
  /\ s.retry \in Patch
  /\ DOMAIN s.methods \subseteq Method
  /\ \A m \in DOMAIN s.methods : s.methods[m] \in [idempotent : BOOLEAN, retry : Patch]
IsPolicy(p) == p = NoPolicy \/ (p.rev \in Int /\ IsSettings(p))

RetryTypeOK ==
  /\ dialled \in Retry /\ defaults \in Retry
  /\ IsPolicy(policy)
  /\ made \in Seq([method : Method, rev : Int])
  /\ budgets \in [Method -> 0..Len(made)]
  /\ extra \in [Budgets -> 0..MinBudget]
  /\ calls \in 0..MaxCalls
  /\ pc \in [Call -> {"idle", "loaded", "start", "attempt"}]
  /\ method \in [Call -> Method]
  /\ loaded = [c \in Call |-> loaded[c]] /\ \A c \in Call : IsPolicy(loaded[c])
  /\ retry \in [Call -> Retry]
  /\ budget \in [Call -> 0..Len(made)]
  /\ attempt \in [Call -> Nat]

----------------------------------------------------------------------------
\* A patch of settings counts if any field of it is set.
policyRetryHasAnyField(patch) == patch.enabled \/ patch.max # 0

applyCompiledRetryPatch(r, patch) ==
  IF ~policyRetryHasAnyField(patch) THEN r
  ELSE IF ~patch.enabled THEN [mode |-> "off", max |-> 1]
  ELSE [mode |-> "budget", max |-> IF patch.max > 0 THEN patch.max ELSE r.max]

applyCompiledMethod(r, m) ==
  IF policyRetryHasAnyField(m.retry) THEN applyCompiledRetryPatch(r, m.retry)
  ELSE IF ~m.idempotent THEN [mode |-> "off", max |-> 1]
  ELSE r

\* The settings of a method: the defaults, the service's patch, the method's.
Effective(r, p, m) ==
  IF p = NoPolicy THEN r
  ELSE LET service == applyCompiledRetryPatch(r, p.retry)
       IN  IF m \in DOMAIN p.methods THEN applyCompiledMethod(service, p.methods[m]) ELSE service

Compiled(s, rev) == [rev |-> rev, retry |-> s.retry, methods |-> s.methods]

compileRetryFromDialOptions(o) == IF o.mode = "off" THEN [o EXCEPT !.max = 1] ELSE o

\* Dialling fetches the policy; one that arrives also goes into the dial options.
RetryInit(options, fetched) ==
  /\ dialled = options
  /\ policy = fetched
  /\ defaults = compileRetryFromDialOptions(
       IF fetched = NoPolicy THEN dialled ELSE applyCompiledRetryPatch(dialled, fetched.retry))
  /\ budgets = [m \in Method |-> 0]
  /\ made = <<>>
  /\ extra = [b \in Budgets |-> 0]
  /\ calls = 0
  /\ pc = [c \in Call |-> "idle"]
  /\ method = [c \in Call |-> CHOOSE m \in Method : TRUE]
  /\ loaded = [c \in Call |-> NoPolicy]
  /\ retry = [c \in Call |-> defaults]
  /\ budget = [c \in Call |-> 0]
  /\ attempt = [c \in Call |-> 0]

\* The policy manager compiles and stores whatever it is given.  (It also sets
\* the limit of the endpoints' limiters: SetMax of CircuitBreaker.)
Update(s, rev) ==
  /\ policy' = Compiled(s, rev)
  /\ UNCHANGED <<dialled, defaults, budgets, made, extra, calls, locals>>

Goto(c, label) == pc' = [pc EXCEPT ![c] = label]

\* The call is over and its locals are gone.
Return(c) ==
  /\ Goto(c, "idle")
  /\ loaded' = [loaded EXCEPT ![c] = NoPolicy]
  /\ retry' = [retry EXCEPT ![c] = defaults]
  /\ budget' = [budget EXCEPT ![c] = 0]
  /\ attempt' = [attempt EXCEPT ![c] = 0]
  /\ method' = [method EXCEPT ![c] = CHOOSE m \in Method : TRUE]

\* PolicyForMethod loads the policy without a lock,
LoadPolicy(c, m) ==
  /\ pc[c] = "idle" /\ calls < MaxCalls
  /\ Goto(c, "loaded")
  /\ method' = [method EXCEPT ![c] = m]
  /\ loaded' = [loaded EXCEPT ![c] = policy]
  /\ calls' = calls + 1
  /\ UNCHANGED <<dialled, policy, defaults, budgets, made, extra, retry, budget, attempt>>

Revision(p) == IF p = NoPolicy THEN 0 ELSE p.rev

\* Mutant of Reusable: a budget outlives its policy revision.
ReusableForever(m, rev) == budgets[m] # 0

Reusable(m, rev) == budgets[m] # 0 /\ made[budgets[m]].rev = rev

\* then finds the method's budget, or makes one, under the source's lock.
BudgetForMethod(c) ==
  LET m == method[c]
      r == Effective(defaults, loaded[c], m)
      rev == Revision(loaded[c])
      b == Len(made) + 1
  IN  /\ pc[c] = "loaded"
      /\ retry' = [retry EXCEPT ![c] = r]
      /\ Goto(c, "start")
      /\ \/ /\ r.mode # "budget"
            /\ UNCHANGED <<budgets, made, budget>>
         \/ /\ r.mode = "budget" /\ Reusable(m, rev)
            /\ budget' = [budget EXCEPT ![c] = budgets[m]]
            /\ UNCHANGED <<budgets, made>>
         \/ /\ r.mode = "budget" /\ ~Reusable(m, rev)
            /\ made' = Append(made, [method |-> m, rev |-> rev])
            /\ budgets' = [budgets EXCEPT ![m] = b]
            /\ budget' = [budget EXCEPT ![c] = b]
      /\ UNCHANGED <<dialled, policy, defaults, extra, calls, method, loaded, attempt>>

\* The first attempt, counted as an original request.
Start(c) ==
  /\ pc[c] = "start"
  /\ Goto(c, "attempt")
  /\ attempt' = [attempt EXCEPT ![c] = 1]
  /\ retry' = [retry EXCEPT ![c].max = IF @ <= 0 THEN 1 ELSE @]
  /\ UNCHANGED <<shared, method, loaded, budget>>

\* The call ends with a success, with a failure that is not retryable or was the
\* last attempt's, or when the budget refuses, which it may do with room left;
Stop(c) ==
  /\ pc[c] = "attempt"
  /\ Return(c)
  /\ UNCHANGED shared

\* otherwise there is another attempt, admitted by the budget if there is one.
FailAndRetry(c) ==
  /\ pc[c] = "attempt" /\ attempt[c] # retry[c].max
  /\ budget[c] # 0 => extra[budget[c]] < MinBudget
  /\ extra' = IF budget[c] = 0 THEN extra ELSE [extra EXCEPT ![budget[c]] = @ + 1]
  /\ attempt' = [attempt EXCEPT ![c] = @ + 1]
  /\ UNCHANGED <<dialled, policy, defaults, budgets, made, calls, pc, method, loaded, retry, budget>>

\* All budgets' windows end.
NewWindow ==
  /\ extra' = [b \in Budgets |-> 0]
  /\ UNCHANGED <<dialled, policy, defaults, budgets, made, calls, locals>>

CallStep(c) ==
  \/ \E m \in Method : LoadPolicy(c, m)
  \/ BudgetForMethod(c)
  \/ Start(c)
  \/ Stop(c)
  \/ FailAndRetry(c)

----------------------------------------------------------------------------
\* A call is charged to a budget of its own method, made for the policy revision
\* it goes by, whatever updates and other calls replace the method's budget.
ChargedUnderOwnPolicy ==
  \A c \in Call :
    budget[c] # 0 => made[budget[c]] = [method |-> method[c], rev |-> Revision(loaded[c])]
=============================================================================
