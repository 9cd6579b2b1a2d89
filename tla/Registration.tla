---------------------------- MODULE Registration ----------------------------
(***************************************************************************)
(* How a service instance keeps its lease in etcd, end to end: the         *)
(* registration loop of demo/shop/runtime/registration.go, RegisterInstance*)
(* and Heartbeat of pkg/controller/registry_service.go, the operations of  *)
(* pkg/registry/lease_store_registry.go and the etcd calls they make       *)
(* (pkg/registry/etcd_registry.go).  etcd itself is external.              *)
(*                                                                         *)
(* One instance ID, claimed by every process in Client (a replacement      *)
(* starts before its predecessor is gone).  Every put attaches the key to a*)
(* lease of its own, so the lease also identifies the key's mod revision.  *)
(* An owner token is drawn together with its epoch: one number for both.   *)
(* Numbers are used again once nothing refers to them.                     *)
(***************************************************************************)
EXTENDS Naturals, FiniteSets

CONSTANTS Client,
          Lease, Epoch,    \* numbers to draw from
          NoKey,
          MaxFaults        \* bound: requests that fail and heartbeats that are late

ASSUME Numbers == Lease \cup Epoch \subseteq Nat \ {0}
ASSUME NoKeyAssumption == NoKey \notin [epoch : Epoch, lease : Lease]

VARIABLES key,      \* the instance's key: its epoch and its lease, or NoKey
          leases,   \* the leases that etcd holds
          call,     \* the request each client is waiting for
          client,   \* its registration loop: status, epoch and owner token
          orphans,  \* history: leases left to their TTL
          faults

vars == <<key, leases, call, client, orphans, faults>>

Idle == [op |-> "none", pc |-> "idle", epoch |-> 0, lease |-> 0, read |-> 0, target |-> 0, result |-> "ok"]
Call(op, pc) == [Idle EXCEPT !.op = op, !.pc = pc]
Number == Lease \cup Epoch \cup {0}

Request ==
  [op : {"none", "register", "heartbeat"}, pc : {"idle", "get", "grant", "put", "revoke", "list"},
   epoch : Number, lease : Number, read : Number, target : Number, result : {"ok", "notfound", "error"}]
Loop ==
  [status : {"off", "starting", "running", "failed", "stopped"}, epoch : Epoch \cup {0}, token : Epoch \cup {0}]

TypeOK ==
  /\ key \in [epoch : Epoch, lease : Lease] \cup {NoKey}
  /\ leases \subseteq Lease /\ orphans \subseteq leases
  /\ call \in [Client -> Request]
  /\ client \in [Client -> Loop]
  /\ \A c \in Client : client[c].status \notin {"starting", "running"} => call[c] = Idle

Init ==
  /\ key = NoKey
  /\ leases = {}
  /\ call = [c \in Client |-> Idle]
  /\ client = [c \in Client |-> [status |-> "off", epoch |-> 0, token |-> 0]]
  /\ orphans = {}
  /\ faults = 0

Attached(l) == key # NoKey /\ key.lease = l

\* Numbers nothing refers to.
FreeLeases ==
  { l \in Lease \ leases :
      ~Attached(l) /\ \A c \in Client : l \notin {call[c].lease, call[c].read, call[c].target} }
FreeEpochs ==
  { e \in Epoch :
      /\ key # NoKey => key.epoch # e
      /\ \A c \in Client : e \notin {call[c].epoch, client[c].epoch, client[c].token} }
Least(S) == CHOOSE n \in S : \A m \in S : n <= m

Fault ==
  /\ faults < MaxFaults
  /\ faults' = faults + 1

\* Attached to a lease that goes, the key goes with it.
Without(l) == IF Attached(l) THEN NoKey ELSE key

----------------------------------------------------------------------------
(* The registration loop.                                                  *)

StartRegistration(c) ==
  /\ client[c].status = "off"
  /\ client' = [client EXCEPT ![c].status = "starting"]
  /\ call' = [call EXCEPT ![c] = Call("register", "grant")]
  /\ UNCHANGED <<key, leases, orphans, faults>>

\* The ticker of heartbeatLoop.
heartbeatOnce(c) ==
  /\ client[c].status = "running" /\ call[c] = Idle
  /\ call' = [call EXCEPT ![c] = Call("heartbeat", "get")]
  /\ UNCHANGED <<key, leases, client, orphans, faults>>

\* The context ends.
Stop(c) ==
  /\ client[c].status = "running" /\ call[c] = Idle
  /\ client' = [client EXCEPT ![c] = [status |-> "stopped", epoch |-> 0, token |-> 0]]
  /\ UNCHANGED <<key, leases, call, orphans, faults>>

\* The request ends with an error: a start is given up, the loop goes on with
\* the epoch and the token it has.
Errs(c) ==
  /\ call' = [call EXCEPT ![c] = Idle]
  /\ client' = [client EXCEPT ![c].status = IF @ = "starting" THEN "failed" ELSE @]

\* Mutant of NotFound: the loop treats it like any error.
Logged(c) == Errs(c)

\* A heartbeat answered NotFound registers anew; a registration whose lease is
\* gone before it is listed is an error.
NotFound(c) ==
  IF call[c].op = "heartbeat"
  THEN call' = [call EXCEPT ![c] = Call("register", "grant")] /\ UNCHANGED client
  ELSE Errs(c)

----------------------------------------------------------------------------
(* LeaseStoreRegistry over etcd.                                           *)

Fenced(c) == key.epoch # client[c].epoch \/ key.epoch # client[c].token

\* heartbeat: read the key and check the fence,
Get(c) ==
  /\ call[c].pc = "get"
  /\ \/ key = NoKey /\ NotFound(c)
     \/ key # NoKey /\ Fenced(c) /\ Errs(c)
     \/ /\ key # NoKey /\ ~Fenced(c)
        /\ call' = [call EXCEPT ![c] = [@ EXCEPT !.pc = "grant", !.epoch = key.epoch, !.read = key.lease]]
        /\ UNCHANGED client
  /\ UNCHANGED <<key, leases, orphans, faults>>

GetFails(c) ==
  /\ Fault /\ call[c].pc = "get" /\ Errs(c)
  /\ UNCHANGED <<key, leases, orphans>>

\* Put and Update: grant a lease,
Grant(c) ==
  /\ call[c].pc = "grant" /\ FreeLeases # {} /\ FreeEpochs # {}
  /\ leases' = leases \cup {Least(FreeLeases)}
  /\ call' = [call EXCEPT ![c] = [@ EXCEPT !.pc = "put", !.lease = Least(FreeLeases),
                                  !.epoch = IF call[c].op = "register" THEN Least(FreeEpochs) ELSE call[c].epoch]]
  /\ UNCHANGED <<key, client, orphans, faults>>

\* (a lost answer leaves the lease behind)
GrantFails(c) ==
  /\ Fault /\ call[c].pc = "grant" /\ Errs(c)
  /\ \/ UNCHANGED <<leases, orphans>>
     \/ /\ FreeLeases # {}
        /\ leases' = leases \cup {Least(FreeLeases)} /\ orphans' = orphans \cup {Least(FreeLeases)}
  /\ UNCHANGED key

\* Mutant of Matches: Update without its comparison.
MatchesAny(c) == TRUE

\* A registration overwrites; a heartbeat compares mod revisions.
Matches(c) == call[c].op = "register" \/ (key # NoKey /\ key.lease = call[c].read)

Written(c) == [epoch |-> call[c].epoch, lease |-> call[c].lease]
Revoking(c, l, result) ==
  [call EXCEPT ![c] = [Call(call[c].op, "revoke") EXCEPT !.lease = call[c].lease, !.target = l, !.result = result]]
Listing(c) == [Call(call[c].op, "list") EXCEPT !.lease = call[c].lease]

\* Mutant of Put: it revokes the lease it has just granted.
PutAndRevokeOwn(c) ==
  /\ call[c].pc = "put" /\ call[c].lease \in leases /\ Matches(c)
  /\ key' = Written(c)
  /\ call' = Revoking(c, call[c].lease, "ok")
  /\ UNCHANGED <<leases, client, orphans, faults>>

\* write the key under the new lease, and revoke the lease it had before,
Put(c) ==
  /\ call[c].pc = "put" /\ call[c].lease \in leases /\ Matches(c)
  /\ key' = Written(c)
  /\ call' = IF key = NoKey THEN [call EXCEPT ![c] = Listing(c)] ELSE Revoking(c, key.lease, "ok")
  /\ UNCHANGED <<leases, client, orphans, faults>>

\* Mutant of PutRefused: the lease granted for the update is not revoked.
PutAbandoned(c) ==
  /\ call[c].pc = "put" /\ ~Matches(c)
  /\ NotFound(c)
  /\ UNCHANGED <<key, leases, orphans, faults>>

\* or give the lease back: the key has changed since it was read,
PutRefused(c) ==
  /\ call[c].pc = "put" /\ ~Matches(c)
  /\ call' = Revoking(c, call[c].lease, "notfound")
  /\ UNCHANGED <<key, leases, client, orphans, faults>>

\* or the write failed: the lease has expired, or the request was lost, or
\* only its answer was.
PutFails(c) ==
  /\ call[c].pc = "put"
  /\ call' = Revoking(c, call[c].lease, "error")
  /\ \/ call[c].lease \notin leases /\ Matches(c) /\ UNCHANGED <<key, orphans, faults>>
     \/ Fault /\ UNCHANGED <<key, orphans>>
     \/ /\ Fault /\ call[c].lease \in leases /\ Matches(c)
        /\ key' = Written(c)
        /\ orphans' = IF key = NoKey THEN orphans ELSE orphans \cup ({key.lease} \cap leases)
  /\ UNCHANGED <<leases, client>>

\* What follows the revocation, whether or not it succeeded.
AfterRevoke(c) ==
  CASE call[c].result = "ok"       -> call' = [call EXCEPT ![c] = Listing(c)] /\ UNCHANGED client
    [] call[c].result = "notfound" -> NotFound(c)
    [] call[c].result = "error"    -> Errs(c)

revokeLease(c) ==
  /\ call[c].pc = "revoke"
  /\ leases' = leases \ {call[c].target} /\ orphans' = orphans \ {call[c].target}
  /\ key' = Without(call[c].target)
  /\ AfterRevoke(c)
  /\ UNCHANGED faults

RevokeFails(c) ==
  /\ Fault /\ call[c].pc = "revoke"
  /\ orphans' = orphans \cup ({call[c].target} \cap leases)
  /\ AfterRevoke(c)
  /\ UNCHANGED <<key, leases>>

----------------------------------------------------------------------------
(* RegistryService: both handlers answer with what List shows afterwards.  *)

\* RegisterInstance returns the epoch and the token of the instance it lists;
\* Heartbeat returns the epoch only, and the loop keeps its token.
Answered(c) ==
  [client EXCEPT ![c] = [status |-> "running", epoch |-> key.epoch,
                         token  |-> IF call[c].op = "register" THEN key.epoch ELSE @.token]]

List(c) ==
  /\ call[c].pc = "list"
  /\ \/ key = NoKey /\ NotFound(c)
     \/ key # NoKey /\ client' = Answered(c) /\ call' = [call EXCEPT ![c] = Idle]
  /\ UNCHANGED <<key, leases, orphans, faults>>

\* The listing fails, or the answer does not reach the client.
ListFails(c) ==
  /\ Fault /\ call[c].pc = "list" /\ Errs(c)
  /\ UNCHANGED <<key, leases, orphans>>

----------------------------------------------------------------------------
\* A running client can renew the key.
Holds(c) == key # NoKey /\ client[c].status = "running" /\ ~Fenced(c)
Held == \E c \in Client : Holds(c)

\* Somebody means to renew it, or is about to be answered.
Wanted(l) ==
  \/ Attached(l) /\ Held
  \/ l \notin orphans /\ \E c \in Client : call[c].pc \in {"put", "revoke", "list"} /\ l \in {call[c].lease, call[c].target}

Gone(l) ==
  /\ leases' = leases \ {l} /\ orphans' = orphans \ {l}
  /\ key' = Without(l)
  /\ UNCHANGED <<call, client>>

\* etcd: a lease expires that nobody keeps alive,
Expire(l) ==
  /\ l \in leases
  /\ ~Wanted(l)
  /\ Gone(l)
  /\ UNCHANGED faults

\* or that its owner, or the request it was granted for, is late for.
ExpireEarly(l) ==
  /\ Fault /\ l \in leases
  /\ Wanted(l)
  /\ Gone(l)

Step(c) ==
  \/ Get(c) \/ Grant(c) \/ Put(c) \/ PutRefused(c) \/ PutFails(c) \/ revokeLease(c) \/ List(c)

Next ==
  \/ \E c \in Client : \/ StartRegistration(c) \/ heartbeatOnce(c) \/ Stop(c) \/ Step(c)
                       \/ GetFails(c) \/ GrantFails(c) \/ RevokeFails(c) \/ ListFails(c)
  \/ \E l \in Lease : Expire(l) \/ ExpireEarly(l)

Spec == Init /\ [][Next]_vars

\* A request is answered (every etcd call has a timeout), the ticker fires
\* while the loop runs, and etcd expires a lease nobody renews.
FairSpec ==
  /\ Spec
  /\ \A c \in Client : WF_vars(Step(c)) /\ WF_vars(heartbeatOnce(c))
  /\ \A l \in Lease : WF_vars(Expire(l))

----------------------------------------------------------------------------
(* Properties.                                                             *)

\* The lease that a write replaced, or that was granted for a write etcd
\* refused, no longer carries the key when it is revoked: cleaning up after it,
\* Put and Update never take the instance off the registry.  Not so the lease of
\* a Put whose answer was lost: the write may have been made, and the revoke
\* then takes the key with it.
CleanupKeepsKey ==
  \A c \in Client : call[c].pc = "revoke" /\ call[c].result # "error" => ~Attached(call[c].target)

\* Every lease that etcd holds carries the key, or is in the hands of a request
\* that will revoke it, or was left to its TTL by a request or an answer that
\* was lost: Put and Update leak none themselves.
NoLeaseLost ==
  \A l \in leases :
    \/ Attached(l)
    \/ l \in orphans
    \/ \E c \in Client : \/ call[c].pc = "put" /\ call[c].lease = l
                         \/ call[c].pc = "revoke" /\ call[c].target = l

\* A client whose registration was superseded or has expired gets the lease
\* back by registering and in no other way: neither an answer to a heartbeat
\* nor a write that another registration came before gives it a matching epoch
\* and token, or puts its registration back.
OwnedByRegistering ==
  [][\A c \in Client : ~Holds(c) /\ Holds(c)' => call[c].op = "register"]_vars

\* The instance does not stay unregistered while a registration loop runs,
\* whatever was lost or expired and whoever else claimed the ID: time and
\* again a running client holds the lease.
RegistrationRecovers ==
  []<>(Held \/ \A c \in Client : client[c].status # "running")

=============================================================================
