---------------------------- MODULE FencedLeases ----------------------------
(***************************************************************************)
(* What a lease registry promises its clients, whatever the backend: a     *)
(* lease is granted with an ownership epoch nobody held before, is renewed *)
(* only under the epoch it was granted with, and is dropped only once its  *)
(* deadline has passed.                                                    *)
(***************************************************************************)
EXTENDS Naturals

CONSTANTS Key,      \* what can be leased (a service name and an instance ID)
          NoLease   \* stands for "not registered"

VARIABLES now,      \* the wall clock
          lease,    \* lease[k] is the current lease on k, or NoLease
          spent     \* epochs that can never be granted again

leaseVars == <<now, lease, spent>>

Lease == [epoch : Nat, deadline : Nat]

LeaseTypeOK ==
  /\ now \in Nat
  /\ lease \in [Key -> Lease \cup {NoLease}]
  /\ spent \subseteq Nat

LeaseInit ==
  /\ now \in Nat
  /\ lease = [k \in Key |-> NoLease]
  /\ spent = {}

Elapse ==
  /\ now' \in Nat
  /\ now' > now
  /\ UNCHANGED <<lease, spent>>

\* Epochs are drawn and thrown away without ever being granted.
Burn ==
  /\ spent \subseteq spent'
  /\ UNCHANGED <<now, lease>>

\* A registration takes k over, whoever held it, under a fresh epoch.
Grant(k) ==
  /\ lease'[k] \in Lease
  /\ lease'[k].epoch \notin spent
  /\ lease' = [lease EXCEPT ![k] = lease'[k]]
  /\ spent' = spent \cup {lease'[k].epoch}
  /\ UNCHANGED now

Renew(k) ==
  /\ lease[k] # NoLease
  /\ lease'[k] \in Lease
  /\ lease'[k].epoch = lease[k].epoch
  /\ lease' = [lease EXCEPT ![k] = lease'[k]]
  /\ UNCHANGED <<now, spent>>

\* Any number of overdue leases goes at once.
Expire ==
  \E K \in SUBSET {k \in Key : lease[k] # NoLease /\ lease[k].deadline <= now} :
    /\ lease' = [k \in Key |-> IF k \in K THEN NoLease ELSE lease[k]]
    /\ UNCHANGED <<now, spent>>

LeaseNext ==
  \/ Elapse
  \/ Burn
  \/ Expire
  \/ \E k \in Key : Grant(k) \/ Renew(k)

LeaseSpec == LeaseInit /\ [][LeaseNext]_leaseVars
=============================================================================
