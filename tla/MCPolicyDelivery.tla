-------------------------- MODULE MCPolicyDelivery --------------------------
EXTENDS PolicyDelivery, TLC

CONSTANTS m1, m2

Unset == [enabled |-> FALSE, max |-> 0]
On == [enabled |-> TRUE, max |-> 3]
OnAsDialled == [enabled |-> TRUE, max |-> -1]
Off == [enabled |-> FALSE, max |-> 1]

\* Retries on, with one method read-only and one not; and retries off but for
\* one method.
MCSnapshot ==
  { [retry |-> On, methods |-> m1 :> [idempotent |-> TRUE, retry |-> Unset] @@
                               m2 :> [idempotent |-> FALSE, retry |-> Unset]],
    [retry |-> Off, methods |-> m2 :> [idempotent |-> FALSE, retry |-> OnAsDialled]] }

WithBudget == [mode |-> "budget", max |-> 2]
WithoutBudget == [mode |-> "without", max |-> 3]

\* Either backend with failures and nobody calling; and calls during a change.
MCSetup ==
  { [backend |-> "file", dial |-> WithBudget, calls |-> {}, changes |-> 2, breaks |-> 0],
    [backend |-> "etcd", dial |-> WithBudget, calls |-> {}, changes |-> 2, breaks |-> 2] } \cup
  { [backend |-> "etcd", dial |-> d, calls |-> Call, changes |-> 1, breaks |-> 0] :
      d \in {WithBudget, WithoutBudget} }
=============================================================================
