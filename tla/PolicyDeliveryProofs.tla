------------------------ MODULE PolicyDeliveryProofs ------------------------
(***************************************************************************)
(* Proofs about PolicyDelivery.tla, for any snapshots, methods, calls,     *)
(* reloaders and bounds.                                                   *)
(***************************************************************************)
EXTENDS PolicyDelivery, TLAPS

----------------------------------------------------------------------------
(* The calls and their budgets.                                            *)

\* What makes a budget the right one: the method's is of the method, and a call
\* holds none before it has found or made its own.
RetryInv ==
  /\ RetryTypeOK
  /\ \A m \in Method : budgets[m] # 0 => made[budgets[m]].method = m
  /\ \A c \in Call : pc[c] \in {"idle", "loaded"} => budget[c] = 0
  /\ ChargedUnderOwnPolicy

\* Settings stay settings under the patches of a service and of a method.
LEMMA Patched ==
  ASSUME NEW r \in Retry, NEW patch \in Patch
  PROVE  applyCompiledRetryPatch(r, patch) \in Retry
<1>1. r.max \in Nat /\ patch.max \in Int
  BY DEF Retry, Patch
<1>2. (IF patch.max > 0 THEN patch.max ELSE r.max) \in Nat
  BY <1>1
<1> QED BY <1>2 DEF applyCompiledRetryPatch, Retry

LEMMA EffectiveType ==
  ASSUME NEW r \in Retry, NEW p, IsPolicy(p), NEW m \in Method
  PROVE  Effective(r, p, m) \in Retry
<1>1. CASE p = NoPolicy
  BY <1>1 DEF Effective
<1>2. CASE p # NoPolicy
  <2> DEFINE service == applyCompiledRetryPatch(r, p.retry)
  <2>1. IsSettings(p)
    BY <1>2 DEF IsPolicy
  <2>2. service \in Retry
    BY <2>1, Patched DEF IsSettings
  <2>3. ASSUME m \in DOMAIN p.methods PROVE applyCompiledMethod(service, p.methods[m]) \in Retry
    <3> HIDE DEF service
    <3>1. p.methods[m].retry \in Patch
      BY <2>1, <2>3 DEF IsSettings
    <3>2. applyCompiledRetryPatch(service, p.methods[m].retry) \in Retry
      BY <2>2, <3>1, Patched
    <3>3. [mode |-> "off", max |-> 1] \in Retry
      BY DEF Retry
    <3> QED BY <2>2, <3>2, <3>3 DEF applyCompiledMethod
  <2>4. Effective(r, p, m) = IF m \in DOMAIN p.methods THEN applyCompiledMethod(service, p.methods[m]) ELSE service
    BY <1>2 DEF Effective
  <2> HIDE DEF service
  <2> QED BY <2>2, <2>3, <2>4
<1> QED BY <1>1, <1>2

LEMMA RevisionType ==
  ASSUME NEW p, IsPolicy(p)
  PROVE  Revision(p) \in Int
  BY DEF Revision, IsPolicy

\* Dialling.
LEMMA RetryBegins ==
  ASSUME NEW o \in Retry, NEW fetched, IsPolicy(fetched), RetryInit(o, fetched)
  PROVE  RetryInv
<1> USE MethodAssumption, BudgetAssumption
<1>1. dialled \in Retry /\ IsPolicy(policy)
  BY DEF RetryInit
<1>2. defaults \in Retry
  <2> DEFINE from == IF fetched = NoPolicy THEN dialled ELSE applyCompiledRetryPatch(dialled, fetched.retry)
  <2>1. from \in Retry
    <3>1. CASE fetched = NoPolicy
      BY <1>1, <3>1
    <3>2. CASE fetched # NoPolicy
      <4>1. fetched.retry \in Patch
        BY <3>2 DEF IsPolicy, IsSettings
      <4> QED BY <1>1, <3>2, <4>1, Patched
    <3> QED BY <3>1, <3>2
  <2>2. defaults = compileRetryFromDialOptions(from)
    BY DEF RetryInit
  <2> HIDE DEF from
  <2> QED BY <2>1, <2>2 DEF compileRetryFromDialOptions, Retry
<1>3. \A c \in Call : method[c] \in Method
  BY DEF RetryInit
<1>4. made = <<>> /\ made \in Seq([method : Method, rev : Int]) /\ Len(made) = 0
  BY DEF RetryInit
<1>5. RetryTypeOK
  <2>1. method \in [Call -> Method]
    BY <1>3 DEF RetryInit
  <2>2. budgets \in [Method -> 0..Len(made)] /\ budget \in [Call -> 0..Len(made)]
    BY <1>4 DEF RetryInit
  <2>3. extra \in [Budgets -> 0..MinBudget] /\ calls \in 0..MaxCalls /\ attempt \in [Call -> Nat]
    BY DEF RetryInit
  <2>4. pc \in [Call -> {"idle", "loaded", "start", "attempt"}] /\ retry \in [Call -> Retry]
    BY <1>2 DEF RetryInit
  <2>5. loaded = [c \in Call |-> loaded[c]] /\ \A c \in Call : IsPolicy(loaded[c])
    BY DEF RetryInit, IsPolicy
  <2> QED BY <1>1, <1>2, <1>4, <2>1, <2>2, <2>3, <2>4, <2>5 DEF RetryTypeOK
<1>6. (\A m \in Method : budgets[m] = 0) /\ (\A c \in Call : budget[c] = 0)
  BY DEF RetryInit
<1> QED BY <1>5, <1>6 DEF RetryInv, ChargedUnderOwnPolicy

\* A policy that arrives is for the calls that have not loaded theirs.
LEMMA UpdateStep ==
  ASSUME RetryInv, NEW s, IsSettings(s), NEW rev \in Int, Update(s, rev)
  PROVE  RetryInv'
<1>1. IsPolicy(policy')
  BY DEF Update, Compiled, IsPolicy, IsSettings
<1>2. UNCHANGED <<dialled, defaults, budgets, made, extra, calls, pc, method, loaded, retry, budget, attempt>>
  BY DEF Update, locals
<1>3. RetryTypeOK'
  BY <1>1, <1>2 DEF RetryInv, RetryTypeOK, IsPolicy, IsSettings
<1> QED BY <1>2, <1>3 DEF RetryInv, ChargedUnderOwnPolicy, Revision

\* The budget a call finds or makes is of its method and its revision; those
\* made before keep theirs.
LEMMA BudgetStep ==
  ASSUME RetryInv, NEW c \in Call, BudgetForMethod(c)
  PROVE  RetryInv'
<1> DEFINE m == method[c]
           rev == Revision(loaded[c])
           r == Effective(defaults, loaded[c], m)
           new == [method |-> m, rev |-> rev]
<1>t. RetryTypeOK /\ m \in Method /\ IsPolicy(loaded[c]) /\ defaults \in Retry
  BY DEF RetryInv, RetryTypeOK
<1>1. r \in Retry /\ rev \in Int
  BY <1>t, EffectiveType, RevisionType
<1>2. new \in [method : Method, rev : Int]
  BY <1>t, <1>1
<1>3. /\ pc[c] = "loaded" /\ pc' = [pc EXCEPT ![c] = "start"] /\ retry' = [retry EXCEPT ![c] = r]
      /\ UNCHANGED <<dialled, policy, defaults, extra, calls, method, loaded, attempt>>
      /\ \/ UNCHANGED <<budgets, made, budget>>
         \/ /\ Reusable(m, rev)
            /\ budget' = [budget EXCEPT ![c] = budgets[m]]
            /\ UNCHANGED <<budgets, made>>
         \/ /\ made' = Append(made, new)
            /\ budgets' = [budgets EXCEPT ![m] = Len(made) + 1]
            /\ budget' = [budget EXCEPT ![c] = Len(made) + 1]
  BY DEF BudgetForMethod, Goto
<1> HIDE DEF r, new
<1>4. /\ pc' \in [Call -> {"idle", "loaded", "start", "attempt"}] /\ retry' \in [Call -> Retry]
      /\ \A d \in Call : pc'[d] = IF d = c THEN "start" ELSE pc[d]
  BY <1>t, <1>1, <1>3 DEF RetryTypeOK
<1>5. \A d \in Call : IsPolicy(loaded'[d]) /\ Revision(loaded[d])' = Revision(loaded[d])
  BY <1>t, <1>3 DEF RetryTypeOK, IsPolicy, IsSettings, Revision
<1>6. IsPolicy(policy')
  BY <1>t, <1>3 DEF RetryTypeOK, IsPolicy, IsSettings
<1>7. ASSUME made' \in Seq([method : Method, rev : Int]),
             budgets' \in [Method -> 0..Len(made')], budget' \in [Call -> 0..Len(made')]
      PROVE  RetryTypeOK'
  BY <1>t, <1>3, <1>4, <1>5, <1>6, <1>7 DEF RetryTypeOK
<1>8. \A d \in Call : budget[d] # 0 =>
        budget[d] \in 1..Len(made) /\ made[budget[d]] = [method |-> method[d], rev |-> Revision(loaded[d])]
  BY <1>t DEF RetryTypeOK, RetryInv, ChargedUnderOwnPolicy
<1>9. CASE UNCHANGED <<budgets, made, budget>>
  <2>1. RetryTypeOK'
    BY <1>t, <1>7, <1>9 DEF RetryTypeOK
  <2> QED BY <1>3, <1>4, <1>5, <1>8, <1>9, <2>1 DEF RetryInv, ChargedUnderOwnPolicy
<1>10. CASE /\ Reusable(m, rev)
            /\ budget' = [budget EXCEPT ![c] = budgets[m]]
            /\ UNCHANGED <<budgets, made>>
  <2>1. budgets[m] \in 1..Len(made) /\ made[budgets[m]] \in [method : Method, rev : Int]
    <3>1. /\ budgets[m] \in 0..Len(made) /\ budgets[m] # 0
          /\ made \in Seq([method : Method, rev : Int]) /\ Len(made) \in Nat
      BY <1>t, <1>10 DEF RetryTypeOK, Reusable
    <3>2. budgets[m] \in 1..Len(made)
      BY <3>1
    <3> DEFINE S == [method : Method, rev : Int]
    <3>3. made \in Seq(S)
      BY <3>1
    <3>4. made[budgets[m]] \in S
      <4> HIDE DEF S
      <4> QED BY <3>2, <3>3
    <3> QED BY <3>2, <3>4
  <2>2. made[budgets[m]].method = m /\ made[budgets[m]].rev = rev
    BY <1>t, <1>10 DEF RetryInv, Reusable
  <2>3. made[budgets[m]] = [method |-> m, rev |-> rev]
    BY <2>1, <2>2
  <2>4. RetryTypeOK'
    BY <1>t, <1>7, <1>10, <2>1 DEF RetryTypeOK
  <2>5. \A d \in Call : budget'[d] = IF d = c THEN budgets[m] ELSE budget[d]
    BY <1>t, <1>10 DEF RetryTypeOK
  <2> QED BY <1>3, <1>4, <1>5, <1>8, <1>10, <2>3, <2>4, <2>5 DEF RetryInv, ChargedUnderOwnPolicy
<1>11. CASE /\ made' = Append(made, new)
            /\ budgets' = [budgets EXCEPT ![m] = Len(made) + 1]
            /\ budget' = [budget EXCEPT ![c] = Len(made) + 1]
  <2>1. /\ made' \in Seq([method : Method, rev : Int]) /\ Len(made') = Len(made) + 1
        /\ made'[Len(made) + 1] = new /\ \A i \in 1..Len(made) : made'[i] = made[i]
    BY <1>t, <1>2, <1>11 DEF RetryTypeOK
  <2>2. /\ budgets \in [Method -> 0..Len(made)] /\ budget \in [Call -> 0..Len(made)] /\ Len(made) \in Nat
        /\ \A k \in 0..Len(made) : k \in 0..Len(made')
        /\ Len(made) + 1 \in 0..Len(made')
    BY <1>t, <2>1 DEF RetryTypeOK
  <2>3. budgets' \in [Method -> 0..Len(made')] /\ budget' \in [Call -> 0..Len(made')]
    BY <1>t, <1>11, <2>2
  <2>4. RetryTypeOK'
    BY <1>7, <2>1, <2>3
  <2>5. /\ \A d \in Call : budget'[d] = IF d = c THEN Len(made) + 1 ELSE budget[d]
        /\ \A n \in Method : budgets'[n] = IF n = m THEN Len(made) + 1 ELSE budgets[n]
    BY <1>t, <1>11, <2>2
  <2>6. new = [method |-> m, rev |-> rev]
    BY DEF new
  <2>7. \A n \in Method : budgets'[n] # 0 => made'[budgets'[n]].method = n
    <3> TAKE n \in Method
    <3>1. CASE n = m
      BY <2>1, <2>5, <2>6, <3>1
    <3>2. CASE n # m
      <4>1. budgets'[n] = budgets[n] /\ (budgets[n] # 0 => budgets[n] \in 1..Len(made))
        BY <2>2, <2>5, <3>2
      <4> QED BY <2>1, <4>1 DEF RetryInv
    <3> QED BY <3>1, <3>2
  <2>8. \A d \in Call :
          budget'[d] # 0 => made'[budget'[d]] = [method |-> method'[d], rev |-> Revision(loaded[d])']
    <3> TAKE d \in Call
    <3>1. CASE d = c
      BY <1>3, <1>5, <2>1, <2>5, <2>6, <3>1
    <3>2. CASE d # c
      <4>1. budget'[d] = budget[d] /\ method'[d] = method[d]
        BY <1>3, <2>5, <3>2
      <4>2. budget[d] # 0 => made'[budget[d]] = made[budget[d]]
        BY <1>8, <2>1
      <4> QED BY <1>5, <1>8, <4>1, <4>2
    <3> QED BY <3>1, <3>2
  <2>9. \A d \in Call : pc'[d] \in {"idle", "loaded"} => budget'[d] = 0
    BY <1>4, <2>5 DEF RetryInv
  <2>10. ChargedUnderOwnPolicy'
    BY <2>8 DEF ChargedUnderOwnPolicy
  <2> QED BY <2>4, <2>7, <2>9, <2>10 DEF RetryInv
<1> QED BY <1>3, <1>9, <1>10, <1>11

\* The other steps of a call, and the end of a window.
LEMMA CallsStep ==
  ASSUME RetryInv, NewWindow \/ \E c \in Call : CallStep(c)
  PROVE  RetryInv'
<1> USE MethodAssumption, BudgetAssumption
<1>t. RetryTypeOK
  BY DEF RetryInv
<1>p. UNCHANGED policy => IsPolicy(policy')
  BY <1>t DEF RetryTypeOK, IsPolicy, IsSettings
<1>l. UNCHANGED loaded =>
        /\ loaded' = [c \in Call |-> loaded'[c]]
        /\ \A c \in Call : IsPolicy(loaded'[c]) /\ Revision(loaded[c])' = Revision(loaded[c])
  BY <1>t DEF RetryTypeOK, IsPolicy, IsSettings, Revision
<1>1. CASE NewWindow
  <2>1. /\ UNCHANGED <<dialled, policy, defaults, budgets, made, calls, pc, method, loaded, retry, budget, attempt>>
        /\ extra' \in [Budgets -> 0..MinBudget]
    BY <1>1 DEF NewWindow, locals
  <2>2. RetryTypeOK'
    BY <1>t, <1>p, <1>l, <2>1 DEF RetryTypeOK
  <2> QED BY <1>l, <2>1, <2>2 DEF RetryInv, ChargedUnderOwnPolicy
<1>2. ASSUME NEW c \in Call, NEW m \in Method, LoadPolicy(c, m) PROVE RetryInv'
  <2>1. /\ pc[c] = "idle" /\ pc' = [pc EXCEPT ![c] = "loaded"] /\ method' = [method EXCEPT ![c] = m]
        /\ loaded' = [loaded EXCEPT ![c] = policy] /\ calls < MaxCalls /\ calls' = calls + 1
        /\ UNCHANGED <<dialled, policy, defaults, budgets, made, extra, retry, budget, attempt>>
    BY <1>2 DEF LoadPolicy, Goto
  <2>2. calls' \in 0..MaxCalls
    BY <1>t, <2>1 DEF RetryTypeOK
  <2>3. /\ pc' \in [Call -> {"idle", "loaded", "start", "attempt"}] /\ method' \in [Call -> Method]
        /\ \A d \in Call : d # c => pc'[d] = pc[d] /\ method'[d] = method[d]
    BY <1>t, <2>1 DEF RetryTypeOK
  <2>4. /\ loaded' = [d \in Call |-> loaded'[d]]
        /\ \A d \in Call : loaded'[d] = IF d = c THEN policy ELSE loaded[d]
    BY <1>t, <2>1 DEF RetryTypeOK
  <2>5. \A d \in Call : IsPolicy(loaded'[d])
    <3> TAKE d \in Call
    <3>1. IsPolicy(policy) /\ IsPolicy(loaded[d])
      BY <1>t DEF RetryTypeOK
    <3>2. loaded'[d] = policy \/ loaded'[d] = loaded[d]
      BY <2>4
    <3> QED BY <3>1, <3>2 DEF IsPolicy, IsSettings
  <2>6. RetryTypeOK'
    BY <1>t, <1>p, <2>1, <2>2, <2>3, <2>4, <2>5 DEF RetryTypeOK
  <2>7. budget[c] = 0
    BY <2>1 DEF RetryInv
  <2>8. \A d \in Call : d # c => Revision(loaded[d])' = Revision(loaded[d])
    BY <2>4 DEF Revision
  <2> QED BY <2>1, <2>3, <2>6, <2>7, <2>8 DEF RetryInv, ChargedUnderOwnPolicy
<1>3. ASSUME NEW c \in Call, Start(c) PROVE RetryInv'
  <2>1. /\ pc[c] = "start" /\ pc' = [pc EXCEPT ![c] = "attempt"] /\ attempt' = [attempt EXCEPT ![c] = 1]
        /\ retry' = [retry EXCEPT ![c].max = IF @ <= 0 THEN 1 ELSE @]
        /\ UNCHANGED <<dialled, policy, defaults, budgets, made, extra, calls, method, loaded, budget>>
    BY <1>3 DEF Start, Goto, shared
  <2>2. retry' \in [Call -> Retry]
    <3>1. retry[c] \in Retry /\ retry \in [Call -> Retry]
      BY <1>t DEF RetryTypeOK
    <3>2. [retry[c] EXCEPT !.max = IF @ <= 0 THEN 1 ELSE @] \in Retry
      BY <3>1 DEF Retry
    <3> QED BY <2>1, <3>1, <3>2
  <2>3. /\ pc' \in [Call -> {"idle", "loaded", "start", "attempt"}] /\ attempt' \in [Call -> Nat]
        /\ \A d \in Call : pc'[d] \in {"idle", "loaded"} => pc[d] \in {"idle", "loaded"}
    BY <1>t, <2>1 DEF RetryTypeOK
  <2>4. RetryTypeOK'
    BY <1>t, <1>p, <1>l, <2>1, <2>2, <2>3 DEF RetryTypeOK
  <2> QED BY <1>l, <2>1, <2>3, <2>4 DEF RetryInv, ChargedUnderOwnPolicy
<1>4. ASSUME NEW c \in Call, Stop(c) PROVE RetryInv'
  <2>1. /\ pc' = [pc EXCEPT ![c] = "idle"] /\ loaded' = [loaded EXCEPT ![c] = NoPolicy]
        /\ retry' = [retry EXCEPT ![c] = defaults] /\ budget' = [budget EXCEPT ![c] = 0]
        /\ attempt' = [attempt EXCEPT ![c] = 0]
        /\ method' = [method EXCEPT ![c] = CHOOSE m \in Method : TRUE]
        /\ UNCHANGED <<dialled, policy, defaults, budgets, made, extra, calls>>
    BY <1>4 DEF Stop, Return, Goto, shared
  <2>2. (CHOOSE m \in Method : TRUE) \in Method
    OBVIOUS
  <2>3. /\ pc' \in [Call -> {"idle", "loaded", "start", "attempt"}] /\ method' \in [Call -> Method]
        /\ retry' \in [Call -> Retry] /\ attempt' \in [Call -> Nat]
        /\ budget' \in [Call -> 0..Len(made')] /\ budget'[c] = 0
        /\ \A d \in Call : d # c => pc'[d] = pc[d] /\ method'[d] = method[d] /\ budget'[d] = budget[d]
    BY <1>t, <2>1, <2>2 DEF RetryTypeOK
  <2>4. /\ loaded' = [d \in Call |-> loaded'[d]]
        /\ \A d \in Call : loaded'[d] = IF d = c THEN NoPolicy ELSE loaded[d]
    BY <1>t, <2>1 DEF RetryTypeOK
  <2>5. \A d \in Call : IsPolicy(loaded'[d])
    <3> TAKE d \in Call
    <3>1. IsPolicy(loaded[d]) /\ (loaded'[d] = NoPolicy \/ loaded'[d] = loaded[d])
      BY <1>t, <2>4 DEF RetryTypeOK
    <3> QED BY <3>1 DEF IsPolicy, IsSettings
  <2>6. RetryTypeOK'
    BY <1>t, <1>p, <2>1, <2>3, <2>4, <2>5 DEF RetryTypeOK
  <2>7. \A d \in Call : d # c => Revision(loaded[d])' = Revision(loaded[d])
    BY <2>4 DEF Revision
  <2> QED BY <2>1, <2>3, <2>6, <2>7 DEF RetryInv, ChargedUnderOwnPolicy
<1>5. ASSUME NEW c \in Call, FailAndRetry(c) PROVE RetryInv'
  <2>1. /\ budget[c] # 0 => extra[budget[c]] < MinBudget
        /\ extra' = IF budget[c] = 0 THEN extra ELSE [extra EXCEPT ![budget[c]] = @ + 1]
        /\ attempt' = [attempt EXCEPT ![c] = @ + 1]
        /\ UNCHANGED <<dialled, policy, defaults, budgets, made, calls, pc, method, loaded, retry, budget>>
    BY <1>5 DEF FailAndRetry
  <2>2. extra' \in [Budgets -> 0..MinBudget]
    <3>1. extra \in [Budgets -> 0..MinBudget]
      BY <1>t DEF RetryTypeOK
    <3>2. CASE budget[c] = 0
      BY <2>1, <3>1, <3>2
    <3>3. CASE budget[c] # 0 /\ budget[c] \in Budgets
      <4>1. extra[budget[c]] + 1 \in 0..MinBudget
        BY <2>1, <3>1, <3>3
      <4> QED BY <2>1, <3>1, <3>3, <4>1
    <3>4. CASE budget[c] # 0 /\ budget[c] \notin Budgets
      BY <2>1, <3>1, <3>4
    <3> QED BY <3>2, <3>3, <3>4
  <2>3. attempt' \in [Call -> Nat]
    BY <1>t, <2>1 DEF RetryTypeOK
  <2>4. RetryTypeOK'
    BY <1>t, <1>p, <1>l, <2>1, <2>2, <2>3 DEF RetryTypeOK
  <2> QED BY <1>l, <2>1, <2>4 DEF RetryInv, ChargedUnderOwnPolicy
<1> QED BY <1>1, <1>2, <1>3, <1>4, <1>5, BudgetStep DEF CallStep

----------------------------------------------------------------------------
(* The source and the cache.                                               *)

\* The source only grows, so a revision stays one.
LEMMA RevisionsGrow ==
  ASSUME written \in Seq(Content), NEW c \in Content, Change(c)
  PROVE  /\ written' \in Seq(Content)
         /\ Revisions \subseteq Revisions'
  BY DEF Change, Revisions

LEMMA StoreBegins ==
  ASSUME StoreInit, backend \in {"file", "etcd"}
  PROVE  StoreTypeOK
<1>1. PICK c \in Content \ {Bad} : written = <<c>> /\ cache = [content |-> c, rev |-> 1]
  BY DEF StoreInit
<1>2. written \in Seq(Content) /\ Revisions = {1}
  BY <1>1 DEF Revisions
<1>3. cache \in [content : Content \ {Bad}, rev : Revisions] /\ cache.rev = 1
  BY <1>1, <1>2
<1>4. reload \in [Reloader -> [pc : {"idle", "read", "stat", "install", "done", "failed"},
                               content : Content, rev : Revisions \cup {0}]]
  BY DEF StoreInit, Idle, Content
<1>5. \A r \in Reloader : reload[r].pc = "idle"
  BY DEF StoreInit, Idle
<1> QED BY <1>2, <1>3, <1>4, <1>5 DEF StoreInit, StoreTypeOK

\* One reload moves on.
LEMMA ReloadMoves ==
  ASSUME StoreTypeOK, NEW r \in Reloader,
         NEW new \in [pc : {"idle", "read", "stat", "install", "done", "failed"},
                      content : Content, rev : Revisions \cup {0}],
         new.pc = "install" => new.content # Bad /\ new.rev # 0,
         reload' = [reload EXCEPT ![r] = new], backend = "file" \/ new.pc = "idle",
         UNCHANGED <<backend, written, cache, after, watching, spoilt>>
  PROVE  StoreTypeOK'
<1>1. Revisions' = Revisions
  BY DEF Revisions
<1>2. /\ reload' \in [Reloader -> [pc : {"idle", "read", "stat", "install", "done", "failed"},
                                   content : Content, rev : Revisions \cup {0}]]
      /\ \A q \in Reloader : reload'[q] = IF q = r THEN new ELSE reload[q]
  BY DEF StoreTypeOK
<1>3. \A q \in Reloader : reload'[q].pc = "install" => reload'[q].content # Bad /\ reload'[q].rev # 0
  BY <1>2 DEF StoreTypeOK
<1>4. backend = "etcd" => \A q \in Reloader : reload'[q].pc = "idle"
  BY <1>2 DEF StoreTypeOK
<1> QED BY <1>1, <1>2, <1>3, <1>4 DEF StoreTypeOK

\* The file: what is installed could be read, and has a revision of the source.
LEMMA ReloadSteps ==
  ASSUME StoreTypeOK, NEW r \in Reloader,
         (backend = "file" /\ ReloadIfChanged(r)) \/ ReloadStep(r) \/ ReloadReturns(r)
  PROVE  StoreTypeOK' /\ UNCHANGED written /\ backend' = backend
<1> DEFINE old == reload[r]
           PC == {"idle", "read", "stat", "install", "done", "failed"}
<1>1. old \in [pc : PC, content : Content, rev : Revisions \cup {0}]
  BY DEF StoreTypeOK
<1>2. Len(written) \in Revisions /\ Latest \in Content
  BY DEF StoreTypeOK, Revisions, Latest
<1> HIDE DEF PC
<1>f. ReadFile(r) \/ Stat(r) \/ Install(r) => backend = "file"
  BY DEF StoreTypeOK, ReadFile, Stat, Install
<1>p. PC = {"idle", "read", "stat", "install", "done", "failed"}
  BY DEF PC
<1>3. CASE backend = "file" /\ ReloadIfChanged(r)
  <2> DEFINE new == [old EXCEPT !.pc = IF Changed THEN "read" ELSE "done"]
  <2>1. new \in [pc : PC, content : Content, rev : Revisions \cup {0}] /\ new.pc # "install"
    BY <1>1, <1>p
  <2>2. reload' = [reload EXCEPT ![r] = new] /\ UNCHANGED <<backend, written, cache, after, watching, spoilt>>
    BY <1>3 DEF ReloadIfChanged
  <2> HIDE DEF new, old
  <2> QED BY <1>3, <1>p, <2>1, <2>2, ReloadMoves
<1>4. CASE ReadFile(r)
  <2> DEFINE a == [old EXCEPT !.pc = "stat"]
             new == [a EXCEPT !.content = Latest]
  <2>1. a \in [pc : PC, content : Content, rev : Revisions \cup {0}] /\ a.pc = "stat"
    BY <1>1, <1>p
  <2>2. new \in [pc : PC, content : Content, rev : Revisions \cup {0}] /\ new.pc # "install"
    <3> HIDE DEF a
    <3> QED BY <1>2, <2>1
  <2>3. reload' = [reload EXCEPT ![r] = new] /\ UNCHANGED <<backend, written, cache, after, watching, spoilt>>
    BY <1>1, <1>4 DEF ReadFile, StoreTypeOK
  <2> HIDE DEF new, old
  <2> QED BY <1>4, <1>f, <1>p, <2>2, <2>3, ReloadMoves
<1>5. CASE Stat(r)
  <2> DEFINE a == [old EXCEPT !.pc = IF old.content = Bad THEN "failed" ELSE "install"]
             new == [a EXCEPT !.rev = Len(written)]
  <2>1. /\ a \in [pc : PC, content : Content, rev : Revisions \cup {0}]
        /\ a.pc = "install" => a.content # Bad
    BY <1>1, <1>p
  <2>2. /\ new \in [pc : PC, content : Content, rev : Revisions \cup {0}]
        /\ new.pc = "install" => new.content # Bad /\ new.rev # 0
    <3>1. 0 \notin Revisions
      BY DEF Revisions
    <3> HIDE DEF a
    <3> QED BY <1>2, <2>1, <3>1
  <2>3. reload' = [reload EXCEPT ![r] = new] /\ UNCHANGED <<backend, written, cache, after, watching, spoilt>>
    BY <1>1, <1>5 DEF Stat, StoreTypeOK
  <2> HIDE DEF new, old
  <2> QED BY <1>5, <1>f, <1>p, <2>2, <2>3, ReloadMoves
<1>6. CASE Install(r)
  <2> DEFINE new == [content |-> reload[r].content, rev |-> reload[r].rev]
  <2>1. /\ old.pc = "install" /\ cache' = new /\ UNCHANGED <<backend, written, after, watching>>
        /\ spoilt' = spoilt \cup (IF new.content = written[new.rev] THEN {} ELSE {new.rev})
        /\ reload' = [reload EXCEPT ![r].pc = "done"]
    BY <1>6 DEF Install
  <2>2. new.rev \in Revisions /\ new.content \in Content \ {Bad}
    BY <1>1, <2>1 DEF StoreTypeOK
  <2>3. cache' \in [content : Content \ {Bad}, rev : Revisions] /\ spoilt' \subseteq Revisions
    BY <2>1, <2>2 DEF StoreTypeOK
  <2>4. /\ reload' \in [Reloader -> [pc : PC, content : Content, rev : Revisions \cup {0}]]
        /\ \A q \in Reloader : reload'[q].pc = "install" => reload'[q] = reload[q]
    BY <1>1, <1>p, <2>1 DEF StoreTypeOK
  <2>5. Revisions' = Revisions
    BY <2>1 DEF Revisions
  <2> HIDE DEF new, old
  <2> QED BY <1>6, <1>f, <1>p, <2>1, <2>3, <2>4, <2>5 DEF StoreTypeOK
<1>7. CASE ReloadReturns(r)
  <2>1. Idle \in [pc : PC, content : Content, rev : Revisions \cup {0}] /\ Idle.pc = "idle"
    BY <1>p DEF Idle, Content
  <2>2. reload' = [reload EXCEPT ![r] = Idle] /\ UNCHANGED <<backend, written, cache, after, watching, spoilt>>
    BY <1>7 DEF ReloadReturns
  <2> HIDE DEF old
  <2> QED BY <1>p, <2>1, <2>2, ReloadMoves
<1> QED BY <1>3, <1>4, <1>5, <1>6, <1>7 DEF ReloadStep, ReloadIfChanged, ReadFile, Stat, Install, ReloadReturns

\* etcd: a response or a list leaves a decoded policy, no newer than where the
\* watch stands.
LEMMA EtcdSteps ==
  ASSUME StoreTypeOK,
         \/ \E rev \in after + 1..Len(written) : applyWatchEvent(rev)
         \/ resyncAfterBackoff \/ WatchEnds \/ ResyncFails
  PROVE  StoreTypeOK' /\ UNCHANGED written /\ backend' = backend
<1>t. /\ written \in Seq(Content) /\ Len(written) \in Nat /\ after \in 1..Len(written)
      /\ cache.rev \in 1..Len(written) /\ cache.content \in Content \ {Bad} /\ spoilt \subseteq Revisions
      /\ Len(written) \in Revisions /\ Latest \in Content /\ Latest = written[Len(written)]
  BY DEF StoreTypeOK, Revisions, Latest
<1>1. ASSUME UNCHANGED <<backend, written, reload>>, backend = "etcd",
             cache' \in [content : Content \ {Bad}, rev : Revisions], after' \in Revisions,
             cache'.rev <= after', watching' \in BOOLEAN, spoilt' \subseteq Revisions
      PROVE  StoreTypeOK' /\ UNCHANGED written /\ backend' = backend
  <2>1. Revisions' = Revisions
    BY <1>1 DEF Revisions
  <2> QED BY <1>1, <2>1 DEF StoreTypeOK
<1>c. cache \in [content : Content \ {Bad}, rev : Revisions] /\ after \in Revisions
  BY DEF StoreTypeOK
<1>2. ASSUME NEW rev \in after + 1..Len(written), applyWatchEvent(rev)
      PROVE  StoreTypeOK' /\ UNCHANGED written /\ backend' = backend
  <2>1. /\ rev \in Revisions /\ after < rev /\ rev \in Nat /\ rev \in after + 1..rev
        /\ written[rev] \in Content
    BY <1>t DEF Revisions
  <2>2. backend = "etcd" /\ after' = rev /\ cache.rev <= after /\ UNCHANGED <<backend, written, reload>>
    BY <1>2 DEF applyWatchEvent, StoreTypeOK
  <2>3. CASE ~Decodable(Response(rev)) /\ watching' = FALSE /\ UNCHANGED <<cache, spoilt>>
    <3>1. cache'.rev <= after'
      BY <1>t, <2>1, <2>2, <2>3
    <3> QED BY <1>1, <1>t, <1>c, <2>1, <2>2, <2>3, <3>1
  <2>4. CASE /\ Decodable(Response(rev)) /\ cache' = Applied(Response(rev), rev)
             /\ spoilt' = spoilt \cup (IF cache'.content = written[rev] THEN {} ELSE {rev})
             /\ UNCHANGED watching
    <3>1. written[rev] # Bad
      BY <2>1, <2>4 DEF Decodable, Response
    <3>2. ~(rev < cache.rev)
      BY <1>t, <2>1, <2>2
    <3>3. cache' = [content |-> IF Deleted \in Response(rev) THEN Deleted ELSE written[rev], rev |-> rev]
      BY <2>4, <3>2 DEF Applied
    <3>4. cache' \in [content : Content \ {Bad}, rev : Revisions] /\ cache'.rev = rev
      BY <2>1, <3>1, <3>3, SnapshotAssumption DEF Content
    <3>5. spoilt' \subseteq Revisions /\ watching' \in BOOLEAN
      BY <1>t, <2>1, <2>4 DEF StoreTypeOK
    <3>6. cache'.rev <= after'
      BY <2>1, <2>2, <3>4
    <3> QED BY <1>1, <2>1, <2>2, <3>4, <3>5, <3>6
  <2> QED BY <1>2, <2>3, <2>4 DEF applyWatchEvent
<1>3. CASE resyncAfterBackoff
  <2>1. backend = "etcd" /\ watching' = TRUE /\ UNCHANGED <<backend, written, reload>> /\ cache.rev <= after
    BY <1>3 DEF resyncAfterBackoff, StoreTypeOK
  <2>2. CASE UNCHANGED <<cache, after, spoilt>>
    BY <1>1, <1>t, <1>c, <2>1, <2>2
  <2>3. CASE Decodable({Latest}) /\ cache' = Listed /\ after' = Listed.rev /\ spoilt' = {}
    <3>1. cache' \in [content : Content \ {Bad}, rev : Revisions] /\ cache'.rev = Len(written) /\ after' = Len(written)
      BY <1>t, <2>3 DEF Listed, Decodable
    <3> QED BY <1>1, <1>t, <2>1, <2>3, <3>1
  <2> QED BY <1>3, <2>2, <2>3 DEF resyncAfterBackoff
<1>4. CASE WatchEnds
  <2>1. /\ backend = "etcd" /\ watching' = FALSE /\ cache.rev <= after
        /\ UNCHANGED <<backend, written, cache, reload, after, spoilt>>
    BY <1>4 DEF WatchEnds, StoreTypeOK
  <2> QED BY <1>1, <1>t, <1>c, <2>1
<1>5. CASE ResyncFails
  <2>1. /\ backend = "etcd" /\ watching' = TRUE /\ cache.rev <= after
        /\ UNCHANGED <<backend, written, cache, reload, after>>
        /\ spoilt' \subseteq spoilt \cup {after}
    BY <1>5 DEF ResyncFails, StoreTypeOK
  <2> QED BY <1>1, <1>t, <1>c, <2>1
<1> QED BY <1>2, <1>3, <1>4, <1>5

\* The operator.
LEMMA ChangeStep ==
  ASSUME StoreTypeOK, NEW c \in Content, Change(c)
  PROVE  StoreTypeOK' /\ Revisions \subseteq Revisions' /\ backend' = backend
<1>1. written' \in Seq(Content) /\ Revisions \subseteq Revisions'
  BY RevisionsGrow DEF StoreTypeOK
<1>2. UNCHANGED <<backend, cache, reload, after, watching, spoilt>>
  BY DEF Change
<1>3. cache' \in [content : Content \ {Bad}, rev : Revisions']
  BY <1>1, <1>2 DEF StoreTypeOK
<1>4. reload' \in [Reloader -> [pc : {"idle", "read", "stat", "install", "done", "failed"},
                               content : Content, rev : Revisions' \cup {0}]]
  <2>1. \A r \in Reloader : reload[r] \in [pc : {"idle", "read", "stat", "install", "done", "failed"},
                                            content : Content, rev : Revisions' \cup {0}]
    BY <1>1 DEF StoreTypeOK
  <2> QED BY <1>2, <2>1 DEF StoreTypeOK
<1> QED BY <1>1, <1>2, <1>3, <1>4 DEF StoreTypeOK

----------------------------------------------------------------------------
(* All together.                                                           *)

\* What travels between the store and the calls.
Carried ==
  /\ setup \in Setup
  /\ policy = NoPolicy \/ policy.rev \in SentRevision
  /\ stream \in [pc : {"down", "wait", "reload"}, last : SentRevision \cup {0}]
  /\ wire \in Seq([snapshot : Snapshot \cup {Tombstone}, rev : SentRevision])
  /\ applied \in Content \ {Bad}
  /\ breaks \in Nat

IInv == StoreTypeOK /\ RetryInv /\ Carried

\* Nothing of it is lost when the source grows.
LEMMA CarriedOn ==
  ASSUME Carried, Revisions \subseteq Revisions',
         UNCHANGED <<policy, setup, stream, wire, applied>>, breaks' \in Nat
  PROVE  Carried'
<1>1. SentRevision \subseteq SentRevision'
  BY DEF SentRevision, deletedPolicyRevision
<1>2. stream' \in [pc : {"down", "wait", "reload"}, last : SentRevision' \cup {0}]
  BY <1>1 DEF Carried
<1>3. wire' \in Seq([snapshot : Snapshot \cup {Tombstone}, rev : SentRevision'])
  <2> DEFINE S == [snapshot : Snapshot \cup {Tombstone}, rev : SentRevision]
             T == [snapshot : Snapshot \cup {Tombstone}, rev : SentRevision']
  <2>1. \A x \in S : x \in T
    BY <1>1
  <2>2. wire \in Seq(S)
    BY DEF Carried
  <2>3. wire \in Seq(T)
    <3> HIDE DEF S, T
    <3> QED BY <2>1, <2>2
  <2> QED BY <2>3
<1> QED BY <1>1, <1>2, <1>3 DEF Carried

\* What sendIfChanged sends, and remembers.
LEMMA Sends ==
  ASSUME StoreTypeOK, Carried, sendIfChanged
  PROVE  /\ wire' \in Seq([snapshot : Snapshot \cup {Tombstone}, rev : SentRevision])
         /\ stream' \in [pc : {"down", "wait", "reload"}, last : SentRevision \cup {0}]
<1> DEFINE rev == IF cache.content = Deleted THEN deletedPolicyRevision ELSE cache.rev
           snapshot == IF cache.content = Deleted THEN Tombstone ELSE cache.content
           item == [snapshot |-> snapshot, rev |-> rev]
           S == [snapshot : Snapshot \cup {Tombstone}, rev : SentRevision]
<1>1. rev \in SentRevision /\ snapshot \in Snapshot \cup {Tombstone}
  BY DEF StoreTypeOK, SentRevision, Content
<1>2. item \in S /\ item.rev = rev
  <2> HIDE DEF rev, snapshot
  <2> QED BY <1>1
<1>3. Unsent = (IF rev = stream.last THEN <<>> ELSE <<item>>)
  BY DEF Unsent
<1>4. wire \in Seq(S) /\ stream.last \in SentRevision \cup {0}
  BY DEF Carried
<1>5. wire' = wire \o Unsent /\ stream' = [pc |-> "wait", last |-> IF Unsent = <<>> THEN stream.last ELSE Unsent[1].rev]
  BY DEF sendIfChanged
<1> HIDE DEF rev, item, S
<1>6. CASE rev = stream.last
  <2>1. Unsent = <<>>
    BY <1>3, <1>6
  <2>2. wire' \in Seq(S)
    BY <1>4, <1>5, <2>1
  <2> QED BY <1>4, <1>5, <2>1, <2>2 DEF S
<1>7. CASE rev # stream.last
  <2>1. Unsent = <<item>> /\ Unsent # <<>> /\ Unsent[1] = item
    BY <1>3, <1>7
  <2>2. wire' \in Seq(S)
    BY <1>2, <1>4, <1>5, <2>1
  <2>3. stream' = [pc |-> "wait", last |-> rev]
    BY <1>2, <1>5, <2>1
  <2> QED BY <1>1, <2>2, <2>3 DEF S
<1> QED BY <1>6, <1>7

\* Nothing of the calls changes.
LEMMA CallsStay == RetryInv /\ UNCHANGED retryVars => RetryInv'
<1> SUFFICES ASSUME RetryInv, UNCHANGED retryVars PROVE RetryInv'
  OBVIOUS
<1>1. UNCHANGED <<dialled, policy, defaults, budgets, made, extra, calls, pc, method, loaded, retry, budget, attempt>>
  BY DEF retryVars, shared, locals
<1>2. RetryTypeOK'
  BY <1>1 DEF RetryInv, RetryTypeOK, IsPolicy, IsSettings
<1> QED BY <1>1, <1>2 DEF RetryInv, ChargedUnderOwnPolicy, Revision

LEMMA InvInit == Init => IInv
<1> SUFFICES ASSUME Init PROVE IInv
  OBVIOUS
<1>1. setup \in Setup /\ backend \in {"file", "etcd"} /\ setup.dial \in Retry
  BY SetupAssumption DEF Init
<1>2. StoreTypeOK /\ cache.content \in Content \ {Bad} /\ cache.rev \in Revisions
  BY <1>1, StoreBegins DEF Init, StoreTypeOK
<1>3. PICK fetched \in {NoPolicy} \cup
                      (IF cache.content = Deleted THEN {} ELSE {Compiled(cache.content, cache.rev)}) :
        RetryInit(setup.dial, fetched)
  BY DEF Init
<1>4. fetched = NoPolicy \/ (fetched.rev \in Revisions /\ IsSettings(fetched))
  <2>1. CASE fetched # NoPolicy
    <3>1. fetched = Compiled(cache.content, cache.rev) /\ cache.content # Deleted
      BY <1>3, <2>1
    <3>2. IsSettings(cache.content)
      BY <1>2, <3>1, SnapshotAssumption DEF Content
    <3> QED BY <1>2, <3>1, <3>2 DEF Compiled, IsSettings
  <2> QED BY <2>1
<1>5. IsPolicy(fetched)
  <2>1. \A n \in Revisions : n \in Int
    BY <1>2 DEF StoreTypeOK, Revisions
  <2> QED BY <1>4, <2>1 DEF IsPolicy
<1>6. RetryInv /\ policy = fetched
  BY <1>1, <1>3, <1>5, RetryBegins DEF RetryInit
<1>7. Carried
  <2>1. stream \in [pc : {"down", "wait", "reload"}, last : SentRevision \cup {0}]
    BY DEF Init, Down
  <2>2. wire \in Seq([snapshot : Snapshot \cup {Tombstone}, rev : SentRevision])
    BY DEF Init
  <2> QED BY <1>1, <1>2, <1>4, <1>6, <2>1, <2>2 DEF Init, Carried, SentRevision
<1> QED BY <1>2, <1>6, <1>7 DEF IInv

\* WatchPolicy and the SDK's end of it.
LEMMA StreamStep ==
  ASSUME IInv, watchPolicyOnce \/ StreamReload \/ StreamTick \/ StreamFails \/ Recv
  PROVE  IInv'
<1> DEFINE W == Seq([snapshot : Snapshot \cup {Tombstone}, rev : SentRevision])
           L == [pc : {"down", "wait", "reload"}, last : SentRevision \cup {0}]
<1>t. StoreTypeOK /\ RetryInv /\ Carried /\ wire \in W /\ stream \in L
  BY DEF IInv, Carried
<1>w. <<>> \in W /\ Down \in L
  BY DEF Down
<1>1. ASSUME StoreTypeOK', UNCHANGED written, UNCHANGED <<policy, setup, applied>>, breaks' \in Nat,
             wire' \in W, stream' \in L
      PROVE  Carried'
  <2>1. SentRevision' = SentRevision
    BY <1>1 DEF SentRevision, Revisions, deletedPolicyRevision
  <2> QED BY <1>t, <1>1, <2>1 DEF Carried
<1>2. UNCHANGED store => StoreTypeOK' /\ UNCHANGED written
  <2>1. UNCHANGED store => Revisions' = Revisions
    BY DEF store, Revisions
  <2> QED BY <1>t, <2>1 DEF StoreTypeOK, store
<1>3. UNCHANGED retryVars => UNCHANGED policy
  BY DEF retryVars, shared
<1>s. sendIfChanged => wire' \in W /\ stream' \in L
  BY <1>t, Sends
<1>b. breaks \in Nat
  BY <1>t DEF Carried
<1> HIDE DEF W, L
<1>4. CASE watchPolicyOnce
  <2>1. sendIfChanged /\ UNCHANGED <<store, retryVars, setup, applied, breaks>>
    BY <1>4 DEF watchPolicyOnce
  <2> QED BY <1>t, <1>1, <1>2, <1>3, <1>s, <1>b, <2>1, CallsStay DEF IInv
<1>5. CASE StreamReload
  <2>1. /\ backend = "file" /\ ReloadIfChanged("stream") /\ stream' = [stream EXCEPT !.pc = "reload"]
        /\ UNCHANGED <<retryVars, setup, wire, applied, breaks>>
    BY <1>5 DEF StreamReload
  <2>2. StoreTypeOK' /\ UNCHANGED written
    BY <1>t, <2>1, ReloadSteps, ReloaderAssumption
  <2>3. stream' \in L
    BY <1>t, <2>1 DEF L
  <2> QED BY <1>t, <1>1, <1>3, <1>b, <2>1, <2>2, <2>3, CallsStay DEF IInv
<1>6. CASE StreamTick
  <2>1. UNCHANGED <<retryVars, setup, applied, breaks>>
    BY <1>6 DEF StreamTick
  <2>2. StoreTypeOK' /\ UNCHANGED written
    BY <1>t, <1>2, <1>6, ReloadSteps, ReloaderAssumption DEF StreamTick
  <2>3. wire' \in W /\ stream' \in L
    BY <1>t, <1>w, <1>s, <1>6 DEF StreamTick
  <2> QED BY <1>t, <1>1, <1>3, <1>b, <2>1, <2>2, <2>3, CallsStay DEF IInv
<1>7. CASE StreamFails
  <2>1. /\ breaks' = breaks + 1 /\ stream' = Down /\ wire' = <<>>
        /\ UNCHANGED <<store, retryVars, setup, applied>>
    BY <1>7 DEF StreamFails, Break
  <2>2. breaks' \in Nat
    BY <1>b, <2>1
  <2> QED BY <1>t, <1>w, <1>1, <1>2, <1>3, <2>1, <2>2, CallsStay DEF IInv
<1>8. CASE Recv
  <2> DEFINE S == [snapshot : Snapshot \cup {Tombstone}, rev : SentRevision]
  <2>1. /\ wire # <<>> /\ Update(wire[1].snapshot, wire[1].rev) /\ wire' = Tail(wire)
        /\ UNCHANGED <<store, setup, stream, applied, breaks>>
    BY <1>8 DEF Recv
  <2>2. wire[1] \in S /\ wire' \in Seq(S)
    <3>1. wire \in Seq(S)
      BY <1>t DEF W
    <3> HIDE DEF S
    <3> QED BY <2>1, <3>1
  <2>3. wire[1].snapshot \in Snapshot \cup {Tombstone} /\ wire[1].rev \in SentRevision
    BY <2>2
  <2>4. IsSettings(wire[1].snapshot)
    <3>1. IsSettings(Tombstone)
      BY DEF Tombstone, IsSettings, Patch
    <3> QED BY <2>3, <3>1, SnapshotAssumption
  <2>5. wire[1].rev \in Int
    BY <1>t, <2>3 DEF SentRevision, deletedPolicyRevision, StoreTypeOK, Revisions
  <2>6. RetryInv'
    BY <1>t, <2>1, <2>4, <2>5, UpdateStep
  <2>7. policy'.rev \in SentRevision'
    <3>1. SentRevision' = SentRevision
      BY <2>1 DEF SentRevision, Revisions, deletedPolicyRevision, store
    <3> QED BY <2>1, <2>3, <3>1 DEF Update, Compiled
  <2>8. Carried'
    <3>1. SentRevision' = SentRevision
      BY <2>1 DEF SentRevision, Revisions, deletedPolicyRevision, store
    <3> QED BY <1>t, <2>1, <2>2, <2>7, <3>1 DEF Carried
  <2> QED BY <1>2, <2>1, <2>6, <2>8 DEF IInv
<1> QED BY <1>4, <1>5, <1>6, <1>7, <1>8

LEMMA InvStep == IInv /\ [Next]_vars => IInv'
<1> SUFFICES ASSUME IInv, [Next]_vars PROVE IInv'
  OBVIOUS
<1>t. StoreTypeOK /\ RetryInv /\ Carried /\ breaks \in Nat
  BY DEF IInv, Carried
<1>1. UNCHANGED store => StoreTypeOK' /\ Revisions \subseteq Revisions'
  <2>1. UNCHANGED store => Revisions' = Revisions
    BY DEF store, Revisions
  <2> QED BY <1>t, <2>1 DEF StoreTypeOK, store
<1>w. UNCHANGED written => Revisions \subseteq Revisions'
  BY DEF Revisions
<1>2. UNCHANGED retryVars => UNCHANGED policy
  BY DEF retryVars, shared
<1>3. ASSUME StoreTypeOK', Revisions \subseteq Revisions', UNCHANGED <<retryVars, setup, stream, wire, applied>>,
             breaks' \in Nat
      PROVE  IInv'
  BY <1>t, <1>2, <1>3, CallsStay, CarriedOn DEF IInv
<1>4. CASE UNCHANGED vars
  BY <1>t, <1>1, <1>3, <1>4 DEF vars
<1>5. CASE Write
  <2>1. PICK c \in Content : Change(c)
    BY <1>5 DEF Write
  <2>2. StoreTypeOK' /\ Revisions \subseteq Revisions'
    BY <1>t, <2>1, ChangeStep
  <2> QED BY <1>t, <1>3, <1>5, <2>2 DEF Write, rest
<1>6. CASE StoreStep
  <2>1. StoreTypeOK' /\ UNCHANGED written
    BY <1>t, <1>6, ReloadSteps, EtcdSteps DEF StoreStep
  <2> QED BY <1>t, <1>w, <1>3, <1>6, <2>1 DEF StoreStep, rest
<1>7. CASE StoreFails
  <2>1. StoreTypeOK' /\ UNCHANGED written
    BY <1>t, <1>7, EtcdSteps DEF StoreFails
  <2>2. breaks' \in Nat
    BY <1>t, <1>7 DEF StoreFails, Break
  <2> QED BY <1>w, <1>3, <1>7, <2>1, <2>2 DEF StoreFails, rest
<1>8. CASE HotReload
  <2>1. StoreTypeOK' /\ UNCHANGED written
    BY <1>t, <1>8, ReloadSteps, ReloaderAssumption DEF HotReload
  <2> QED BY <1>t, <1>w, <1>3, <1>8, <2>1 DEF HotReload
<1>9. CASE HotApply
  <2>1. UNCHANGED <<retryVars, setup, stream, wire, breaks>> /\ (applied' = applied \/ applied' = cache.content)
    BY <1>9 DEF HotApply, ApplyOutlierDetectionPolicies
  <2>2. StoreTypeOK' /\ UNCHANGED written
    BY <1>t, <1>1, <1>9, ReloadSteps, ReloaderAssumption DEF HotApply, store
  <2>3. applied' \in Content \ {Bad}
    BY <1>t, <2>1 DEF Carried, StoreTypeOK
  <2>4. SentRevision' = SentRevision
    BY <2>2 DEF SentRevision, Revisions, deletedPolicyRevision
  <2>5. Carried'
    BY <1>t, <1>2, <2>1, <2>3, <2>4 DEF Carried
  <2> QED BY <1>t, <2>1, <2>2, <2>5, CallsStay DEF IInv
<1>10. CASE Calls
  <2>1. setup.calls \subseteq Call
    BY <1>t, SetupAssumption DEF Carried
  <2>2. UNCHANGED <<store, setup, stream, wire, applied, breaks>> /\ UNCHANGED policy
    BY <1>10 DEF Calls, NewWindow, CallStep, LoadPolicy, BudgetForMethod, Start, Stop, FailAndRetry, shared
  <2>3. RetryInv'
    BY <1>t, <1>10, <2>1, CallsStep DEF Calls
  <2>4. Carried'
    BY <1>t, <1>1, <2>2, CarriedOn
  <2> QED BY <1>1, <2>2, <2>3, <2>4 DEF IInv
<1> QED BY <1>4, <1>5, <1>6, <1>7, <1>8, <1>9, <1>10, StreamStep DEF Next

\* Type correctness of the whole way of a policy.  In particular, the cache and
\* the health manager never hold what could not be decoded, what is installed
\* or sent has a revision the source has had, and the etcd cache is never ahead
\* of its watch.
THEOREM TypeCorrect == Spec => []TypeOK
<1>1. IInv => TypeOK
  BY DEF IInv, Carried, RetryInv, TypeOK
<1> QED BY <1>1, InvInit, InvStep, PTL DEF Spec

\* Whatever policies arrive while calls are under way, and whichever calls
\* replace the budget of their method, a call is charged to a budget of its own
\* method that was made for the policy revision it loaded.
THEOREM ChargesOwnBudget == Spec => []ChargedUnderOwnPolicy
<1>1. IInv => ChargedUnderOwnPolicy
  BY DEF IInv, RetryInv
<1> QED BY <1>1, InvInit, InvStep, PTL DEF Spec
=============================================================================
