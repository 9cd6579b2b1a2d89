----------------------------- MODULE RetryBudget -----------------------------
(***************************************************************************)
(* pkg/retry/budget.go: retries allowed per time window, in proportion to  *)
(* the first attempts.  Callers count with atomics under a read lock; the  *)
(* write lock is taken only to start a window, so that critical section is *)
(* one step, which no caller inside the read lock can see half done.       *)
(***************************************************************************)
EXTENDS Integers, FiniteSets

CONSTANTS Caller,
          BudgetRatio,   \* in thousandths
          MinBudget,
          Window,
          MaxTime,       \* bound on the clock
          MaxOriginal,   \* bounds on the first attempts
          MaxRecorded    \* and on the unasked retries of a window

ASSUME CallerAssumption == IsFiniteSet(Caller)
ASSUME ConfigAssumption ==
  BudgetRatio \in Nat /\ MinBudget \in Nat /\ Window \in Nat \ {0}
ASSUME BoundAssumption == MaxTime \in Nat /\ MaxOriginal \in Nat /\ MaxRecorded \in Nat

VARIABLES clock,
          windowStart,
          original,      \* originalRequests
          retries,       \* retryRequests
          at,            \* where each caller is,
          op,            \* the method it called,
          now,           \* the time it read on entry
          allowance,     \* and the allowance it read
          granted,       \* history: retries granted in this window,
          recorded       \* and retries recorded without asking

counters == <<original, retries, granted, recorded>>
budgetVars == <<clock, windowStart, counters, at, op, now, allowance>>

Op == {"RecordOriginal", "RecordRetry", "TryAcquireRetry", "AllowRetry"}
Reading == {"in", "add", "rollback"}   \* holding the read lock

BudgetTypeOK ==
  /\ clock \in Nat
  /\ windowStart \in Nat
  /\ original \in Nat
  /\ retries \in Nat
  /\ at \in [Caller -> {"idle", "rlock", "lock", "relock"} \cup Reading]
  /\ op \in [Caller -> Op]
  /\ now \in [Caller -> Nat]
  /\ allowance \in [Caller -> Nat]
  /\ granted \in Nat
  /\ recorded \in Nat

BudgetInit ==
  /\ clock = 0
  /\ windowStart = 0
  /\ original = 0
  /\ retries = 0
  /\ at = [c \in Caller |-> "idle"]
  /\ op = [c \in Caller |-> "AllowRetry"]
  /\ now = [c \in Caller |-> 0]
  /\ allowance = [c \in Caller |-> 0]
  /\ granted = 0
  /\ recorded = 0

GoTo(c, label) == at' = [at EXCEPT ![c] = label]

\* The method returns and its locals are gone.
Return(c) ==
  /\ GoTo(c, "idle")
  /\ op' = [op EXCEPT ![c] = "AllowRetry"]
  /\ now' = [now EXCEPT ![c] = 0]
  /\ allowance' = [allowance EXCEPT ![c] = 0]

Calling(o) == { c \in Caller : at[c] # "idle" /\ op[c] = o }

Bounded(o) ==
  /\ o = "RecordOriginal" => original + Cardinality(Calling(o)) < MaxOriginal
  /\ o = "RecordRetry" => recorded + Cardinality(Calling(o)) < MaxRecorded

allowedRetriesFor(n) ==
  LET ratioBudget == (n * BudgetRatio) \div 1000
  IN  IF ratioBudget < MinBudget THEN MinBudget ELSE ratioBudget

----------------------------------------------------------------------------
\* Every method starts with lockCurrentWindow, which reads the time first.
Enter(c, o) ==
  /\ at[c] = "idle" /\ Bounded(o)
  /\ GoTo(c, "rlock")
  /\ op' = [op EXCEPT ![c] = o]
  /\ now' = [now EXCEPT ![c] = clock]
  /\ UNCHANGED <<clock, windowStart, counters, allowance>>

\* Mutant of Expired: the window is kept for the instant it ends.
ExpiredAfter(t) == t - windowStart > Window

Expired(t) == t - windowStart >= Window

RLock(c) ==
  /\ at[c] = "rlock"
  /\ GoTo(c, IF Expired(now[c]) THEN "lock" ELSE "in")
  /\ UNCHANGED <<clock, windowStart, counters, op, now, allowance>>

\* Mutant of Rollover: no second look at the time.
RolloverAlways == TRUE

\* The second time check, after the wait for the write lock.
Rollover == Expired(clock)

StartWindow ==
  /\ windowStart' = clock
  /\ original' = 0
  /\ retries' = 0
  /\ granted' = 0
  /\ recorded' = 0

Lock(c) ==
  /\ at[c] = "lock"
  /\ \A d \in Caller : at[d] \notin Reading
  /\ \/ Rollover /\ StartWindow
     \/ ~Rollover /\ UNCHANGED <<windowStart, counters>>
  /\ GoTo(c, "relock")
  /\ UNCHANGED <<clock, op, now, allowance>>

\* The read lock again, without another look at the window.
RelockShared(c) ==
  /\ at[c] = "relock"
  /\ GoTo(c, "in")
  /\ UNCHANGED <<clock, windowStart, counters, op, now, allowance>>

RecordOriginal(c) ==
  /\ at[c] = "in" /\ op[c] = "RecordOriginal"
  /\ original' = original + 1
  /\ Return(c)
  /\ UNCHANGED <<clock, windowStart, retries, granted, recorded>>

RecordRetry(c) ==
  /\ at[c] = "in" /\ op[c] = "RecordRetry"
  /\ retries' = retries + 1
  /\ recorded' = recorded + 1
  /\ Return(c)
  /\ UNCHANGED <<clock, windowStart, original, granted>>

\* AllowRetry and Snapshot read the counters and leave.
AllowRetry(c) ==
  /\ at[c] = "in" /\ op[c] = "AllowRetry"
  /\ Return(c)
  /\ UNCHANGED <<clock, windowStart, counters>>

\* TryAcquireRetry reads the allowance once,
ReadAllowed(c) ==
  /\ at[c] = "in" /\ op[c] = "TryAcquireRetry"
  /\ \/ allowedRetriesFor(original) <= 0 /\ Return(c)
     \/ /\ allowedRetriesFor(original) > 0
        /\ allowance' = [allowance EXCEPT ![c] = allowedRetriesFor(original)]
        /\ GoTo(c, "add")
        /\ UNCHANGED <<op, now>>
  /\ UNCHANGED <<clock, windowStart, counters>>

\* Mutant of Fits: the comparison is made before the increment.
FitsBefore(c) == retries <= allowance[c]

Fits(c) == retries + 1 <= allowance[c]

\* counts itself in,
AddRetry(c) ==
  /\ at[c] = "add"
  /\ retries' = retries + 1
  /\ \/ Fits(c) /\ granted' = granted + 1 /\ Return(c)
     \/ ~Fits(c) /\ GoTo(c, "rollback") /\ UNCHANGED <<granted, op, now, allowance>>
  /\ UNCHANGED <<clock, windowStart, original, recorded>>

\* Mutant of Returned: the failed admission stays counted.
ReturnedNever == retries

Returned == retries - 1

\* and out again if there was no room.
Rollback(c) ==
  /\ at[c] = "rollback"
  /\ retries' = Returned
  /\ Return(c)
  /\ UNCHANGED <<clock, windowStart, original, granted, recorded>>

Advance ==
  /\ clock < MaxTime
  /\ clock' = clock + 1
  /\ UNCHANGED <<windowStart, counters, at, op, now, allowance>>

BudgetNext ==
  \/ Advance
  \/ \E c \in Caller :
       \/ \E o \in Op : Enter(c, o)
       \/ RLock(c)
       \/ Lock(c)
       \/ RelockShared(c)
       \/ RecordOriginal(c)
       \/ RecordRetry(c)
       \/ AllowRetry(c)
       \/ ReadAllowed(c)
       \/ AddRetry(c)
       \/ Rollback(c)

BudgetSpec == BudgetInit /\ [][BudgetNext]_budgetVars

----------------------------------------------------------------------------
\* The cap of the retry budget: TryAcquireRetry never lets more retries through
\* in a window than the larger of MinBudget and the ratio of that window's
\* first attempts.
GrantedWithinBudget == granted <= allowedRetriesFor(original)

RollingBack == { c \in Caller : at[c] = "rollback" }

\* TryAcquireRetry's optimistic increments leave nothing behind: outside the
\* callers about to roll back, the counter is the retries let through.
RetriesAccounted == retries = granted + recorded + Cardinality(RollingBack)

\* lockCurrentWindow never leaves a caller in a window that was over before the
\* call began, although the window is not looked at again after the upgrade.
CountedInCurrentWindow == \A c \in Caller : at[c] \in Reading => now[c] - windowStart < Window

\* The second time check of lockCurrentWindow: however many callers find the
\* window over, it starts anew once, and lasts at least Window.
WindowsLast == [][windowStart' # windowStart => windowStart' - windowStart >= Window]_budgetVars
=============================================================================
