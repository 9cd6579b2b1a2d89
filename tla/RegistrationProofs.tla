------------------------- MODULE RegistrationProofs -------------------------
(***************************************************************************)
(* Safety of Registration for any number of clients that claim the ID, any *)
(* numbers to draw leases and epochs from, and any number of faults.       *)
(***************************************************************************)
EXTENDS Registration, TLAPS, WellFoundedInduction

\* What a request knows at each of its steps, and which loops make it.
CallShape ==
  \A c \in Client :
    /\ call[c].op = "none" <=> call[c].pc = "idle"
    /\ call[c].pc = "get" => call[c].op = "heartbeat"
    /\ call[c].op = "heartbeat" => client[c].status = "running"
    /\ call[c].op = "heartbeat" /\ call[c].pc = "grant" => call[c].epoch \in Epoch
    /\ call[c].pc = "put" => call[c].epoch \in Epoch /\ call[c].lease \in Lease

Putting(c) == call[c].pc = "put"
Registering(c) == Putting(c) /\ call[c].op = "register"
Renewing(c) == call[c].op = "heartbeat" /\ call[c].pc \in {"grant", "put"}

\* A lease granted for a write is this request's alone until it is written.
OwnLease ==
  \A c \in Client : Putting(c) =>
    /\ ~Attached(call[c].lease)
    /\ \A d \in Client :
         /\ d # c /\ Putting(d) => call[d].lease # call[c].lease
         /\ call[d].pc = "revoke" => call[d].target # call[c].lease
         /\ Renewing(d) => call[d].read # call[c].lease

\* So is the epoch drawn for a registration.
OwnEpoch ==
  \A c \in Client : Registering(c) =>
    /\ key # NoKey => key.epoch # call[c].epoch
    /\ \A d \in Client :
         /\ d # c /\ (Registering(d) \/ Renewing(d)) => call[d].epoch # call[c].epoch
         /\ client[d].token # call[c].epoch

\* The lease a heartbeat read identifies what it read.
ReadStands ==
  \A c \in Client : Renewing(c) /\ Attached(call[c].read) => key.epoch = call[c].epoch

\* A loop whose token matches the key has the key's epoch too.
TokenTells ==
  \A c \in Client : client[c].status = "running" /\ key # NoKey /\ key.epoch = client[c].token
    => client[c].epoch = client[c].token

\* What every step keeps, but for NoLeaseLost, and with it.
Kept == TypeOK /\ CallShape /\ OwnLease /\ OwnEpoch /\ ReadStands /\ TokenTells /\ CleanupKeepsKey
IInv == Kept /\ NoLeaseLost
----------------------------------------------------------------------------
\* A set of numbers that is not empty has a least one.
LEMMA LeastIn ==
  ASSUME NEW S \in SUBSET Nat, S # {}
  PROVE  Least(S) \in S
<1> DEFINE R == {ss \in Nat \X Nat : ss[1] < ss[2]}
<1>1. IsWellFoundedOn(R, Nat)
  BY NatLessThanWellFounded DEF OpToRel
<1>2. \E n \in S : \A m \in S : ~ (<<m, n>> \in R)
  <2> HIDE DEF R
  <2> QED BY ZenonT(30), <1>1, WFMin
<1>3. PICK n \in S : \A m \in S : ~ (<<m, n>> \in R)
  BY <1>2
<1>4. \A m \in S : ~ (m < n)
  BY ZenonT(30), <1>3
<1>5. \A m \in S : n <= m
  BY <1>4
<1> QED BY <1>5 DEF Least

\* The numbers drawn are numbers, and free.
LEMMA Drawn ==
  /\ FreeLeases # {} => Least(FreeLeases) \in FreeLeases
  /\ FreeEpochs # {} => Least(FreeEpochs) \in FreeEpochs
<1>1. FreeLeases \in SUBSET Nat /\ FreeEpochs \in SUBSET Nat
  BY Numbers DEF FreeLeases, FreeEpochs
<1> QED BY <1>1, LeastIn

\* One request moves on.
LEMMA CallTo ==
  ASSUME TypeOK, NEW c \in Client, NEW r \in Request, call' = [call EXCEPT ![c] = r]
  PROVE  /\ call' \in [Client -> Request] /\ call'[c] = r
         /\ \A d \in Client : d # c => call'[d] = call[d]
BY DEF TypeOK

\* The same of a loop.
LEMMA ClientTo ==
  ASSUME TypeOK, NEW c \in Client, NEW s \in Loop, client' = [client EXCEPT ![c] = s]
  PROVE  /\ client' \in [Client -> Loop] /\ client'[c] = s
         /\ \A d \in Client : d # c => client'[d] = client[d]
BY DEF TypeOK

\* A step of a client that leaves it with no lease of its own and with no epoch
\* but the key's, and writes nothing.
Quiet(c) ==
  /\ call' \in [Client -> Request] /\ client' \in [Client -> Loop]
  /\ \A d \in Client : d # c => call'[d] = call[d] /\ client'[d] = client[d]
  /\ call'[c].pc \notin {"put", "revoke"}
  /\ call'[c].op = "none" <=> call'[c].pc = "idle"
  /\ call'[c].pc = "get" => call'[c].op = "heartbeat"
  /\ call'[c].op = "heartbeat" => call'[c].pc # "grant" /\ client'[c].status = "running"
  /\ client'[c].status \notin {"starting", "running"} => call'[c] = Idle
  /\ key' \in {key, NoKey}
  /\ client'[c].token \in {client[c].token, 0} \/ (key # NoKey /\ client'[c].token = key.epoch)
  /\ client'[c].status = "running" /\ key # NoKey /\ key.epoch = client'[c].token
       => client'[c].epoch = client'[c].token

\* It disturbs nothing.
LEMMA QuietKeeps ==
  ASSUME Kept, NEW c \in Client, Quiet(c), leases' \subseteq Lease, orphans' \subseteq leases'
  PROVE  Kept'
<1> USE DEF Kept, Quiet
<1>1. TypeOK'
  BY DEF TypeOK
<1>2. CallShape'
  BY DEF CallShape
<1>3. OwnLease'
  BY DEF OwnLease, Putting, Renewing, Attached
<1>4. OwnEpoch'
  BY Numbers DEF OwnEpoch, Putting, Registering, Renewing, CallShape
<1>5. ReadStands'
  BY DEF ReadStands, Renewing, Attached
<1>6. TokenTells'
  BY DEF TokenTells
<1>7. CleanupKeepsKey'
  BY DEF CleanupKeepsKey, Attached
<1> QED BY <1>1, <1>2, <1>3, <1>4, <1>5, <1>6, <1>7

\* A request that fails is such a step,
LEMMA ErrsQuiet ==
  ASSUME Kept, NEW c \in Client, call[c] # Idle, Errs(c), key' \in {key, NoKey}
  PROVE  Quiet(c) /\ call'[c] = Idle
<1> DEFINE s == [client[c] EXCEPT !.status = IF @ = "starting" THEN "failed" ELSE @]
<1>1. Idle \in Request /\ Idle.pc = "idle" /\ Idle.op = "none"
  BY DEF Idle, Request, Number
<1>2. s \in Loop /\ s.epoch = client[c].epoch /\ s.token = client[c].token /\ (s.status = "running" => client[c].status = "running")
  BY DEF Kept, TypeOK, Loop
<1>3. call' \in [Client -> Request] /\ call'[c] = Idle /\ \A d \in Client : d # c => call'[d] = call[d]
  BY <1>1, CallTo DEF Errs, Kept
<1>4. client' \in [Client -> Loop] /\ client'[c] = s /\ \A d \in Client : d # c => client'[d] = client[d]
  BY <1>2, ClientTo DEF Errs, Kept
<1> HIDE DEF s
<1> QED BY <1>1, <1>2, <1>3, <1>4 DEF Quiet, Kept, TokenTells

\* and so is one that finds no key.
LEMMA NotFoundQuiet ==
  ASSUME Kept, NEW c \in Client, call[c] # Idle, NotFound(c), key' \in {key, NoKey}
  PROVE  Quiet(c)
<1>1. CASE call[c].op = "heartbeat"
  <2> DEFINE r == Call("register", "grant")
  <2>1. r \in Request /\ r.pc = "grant" /\ r.op = "register"
    BY DEF Idle, Call, Request, Number
  <2> HIDE DEF r
  <2>2. call' = [call EXCEPT ![c] = r] /\ client' = client
    BY <1>1 DEF NotFound, r
  <2>3. call' \in [Client -> Request] /\ call'[c] = r /\ \A d \in Client : d # c => call'[d] = call[d]
    BY <2>1, <2>2, CallTo DEF Kept
  <2>4. client[c].status = "running"
    BY <1>1 DEF Kept, CallShape
  <2> QED BY <2>1, <2>2, <2>3, <2>4 DEF Quiet, Kept, TypeOK, TokenTells
<1>2. CASE call[c].op # "heartbeat"
  BY <1>2, ErrsQuiet DEF NotFound
<1> QED BY <1>1, <1>2

\* After a write, a request lists what there is.
LEMMA ListingQuiet ==
  ASSUME Kept, NEW c \in Client, call[c].op # "none", call' = [call EXCEPT ![c] = Listing(c)], client' = client, key' \in {key, NoKey}
  PROVE  Quiet(c)
<1> DEFINE r == Listing(c)
<1>1. r \in Request /\ r.pc = "list" /\ r.op = call[c].op
  BY DEF Idle, Call, Request, Number, Listing, Kept, TypeOK
<1>2. call' = [call EXCEPT ![c] = r]
  OBVIOUS
<1> HIDE DEF r
<1>3. call' \in [Client -> Request] /\ call'[c] = r /\ \A d \in Client : d # c => call'[d] = call[d]
  BY <1>1, <1>2, CallTo DEF Kept
<1>4. call[c].op = "heartbeat" => client[c].status = "running"
  BY DEF Kept, CallShape
<1>5. client[c].status \in {"starting", "running"}
  BY DEF Kept, TypeOK, Idle
<1> QED BY <1>1, <1>3, <1>4, <1>5 DEF Quiet, Kept, TypeOK, TokenTells
----------------------------------------------------------------------------
\* A heartbeat passes the fence: what it has read is the key.
LEMMA GetKeeps ==
  ASSUME Kept, NEW c \in Client, call[c].pc = "get", key # NoKey,
         call' = [call EXCEPT ![c] = [@ EXCEPT !.pc = "grant", !.epoch = key.epoch, !.read = key.lease]],
         UNCHANGED <<key, leases, client, orphans>>
  PROVE  Kept'
<1> DEFINE r == [call[c] EXCEPT !.pc = "grant", !.epoch = key.epoch, !.read = key.lease]
<1>1. key.epoch \in Epoch /\ key.lease \in Lease
  BY DEF Kept, TypeOK
<1>2. call[c] \in Request /\ call[c].op = "heartbeat" /\ client[c].status = "running"
  BY DEF Kept, TypeOK, CallShape
<1>3. r \in Request /\ r.pc = "grant" /\ r.op = "heartbeat" /\ r.epoch = key.epoch /\ r.read = key.lease
  BY <1>1, <1>2 DEF Request, Number
<1>4. call' = [call EXCEPT ![c] = r]
  OBVIOUS
<1> HIDE DEF r
<1>5. call' \in [Client -> Request] /\ call'[c] = r /\ \A d \in Client : d # c => call'[d] = call[d]
  BY <1>3, <1>4, CallTo DEF Kept
<1> USE <1>1, <1>2, <1>3, <1>5 DEF Kept
<1>6. TypeOK' /\ CallShape'
  BY DEF TypeOK, CallShape
<1>7. OwnLease'
  BY DEF OwnLease, Putting, Renewing, Attached
<1>8. OwnEpoch'
  BY DEF OwnEpoch, Putting, Registering, Renewing
<1>9. ReadStands'
  BY DEF ReadStands, Renewing, Attached
<1>10. TokenTells' /\ CleanupKeepsKey'
  BY DEF TokenTells, CleanupKeepsKey, Attached
<1> QED BY <1>6, <1>7, <1>8, <1>9, <1>10

\* A lease, and for a registration an epoch, that nothing refers to.
LEMMA GrantKeeps ==
  ASSUME Kept, NEW c \in Client, Grant(c)
  PROVE  Kept'
<1> DEFINE l == Least(FreeLeases)
           e == IF call[c].op = "register" THEN Least(FreeEpochs) ELSE call[c].epoch
           r == [call[c] EXCEPT !.pc = "put", !.lease = l, !.epoch = e]
<1>1. l \in FreeLeases /\ Least(FreeEpochs) \in FreeEpochs
  BY Drawn DEF Grant
<1>2. /\ l \in Lease /\ ~Attached(l)
      /\ \A d \in Client : call[d].lease # l /\ call[d].read # l /\ call[d].target # l
  BY <1>1 DEF FreeLeases
<1>3. call[c] \in Request /\ call[c].op \in {"register", "heartbeat"} /\ client[c].status \in {"starting", "running"}
  BY DEF Grant, Kept, TypeOK, CallShape, Request, Idle
<1>4. call[c].op = "register" =>
        /\ e \in Epoch /\ (key # NoKey => key.epoch # e)
        /\ \A d \in Client : call[d].epoch # e /\ client[d].token # e
  BY <1>1 DEF FreeEpochs
<1>5. call[c].op = "heartbeat" => e = call[c].epoch /\ e \in Epoch
  BY DEF Grant, Kept, CallShape
<1>6. e \in Epoch
  BY <1>3, <1>4, <1>5
<1>7. call' = [call EXCEPT ![c] = r] /\ leases' = leases \cup {l} /\ UNCHANGED <<key, client, orphans>> /\ call[c].pc = "grant"
  BY ZenonT(30) DEF Grant
<1> HIDE DEF e, l
<1>8. r \in Request /\ r.pc = "put" /\ r.op = call[c].op /\ r.lease = l /\ r.epoch = e /\ r.read = call[c].read
  BY <1>2, <1>3, <1>6 DEF Request, Number
<1> HIDE DEF r
<1>9. call' \in [Client -> Request] /\ call'[c] = r /\ \A d \in Client : d # c => call'[d] = call[d]
  BY <1>7, <1>8, CallTo DEF Kept
<1> USE <1>2, <1>3, <1>4, <1>5, <1>6, <1>7, <1>8, <1>9 DEF Kept
<1>10. TypeOK' /\ CallShape'
  BY DEF TypeOK, CallShape
<1>11. OwnLease'
  BY DEF OwnLease, Putting, Renewing, Attached
<1>12. OwnEpoch'
  BY DEF OwnEpoch, Putting, Registering, Renewing
<1>13. ReadStands'
  BY DEF ReadStands, Renewing, Attached
<1>14. TokenTells' /\ CleanupKeepsKey'
  BY DEF TokenTells, CleanupKeepsKey, Attached
<1> QED BY <1>10, <1>11, <1>12, <1>13, <1>14

\* The end of a write, whether or not it reached the key.  A lease it leaves is
\* the one the key had, or the one that was granted for it.
LEMMA WriteKeeps ==
  ASSUME Kept, NEW c \in Client, Putting(c),
         NEW r \in Request, call' = [call EXCEPT ![c] = r],
         r.pc \in {"revoke", "list"}, r.op = call[c].op,
         r.pc = "revoke" =>
           \/ r.target = call[c].lease /\ (r.result = "error" \/ key' = key)
           \/ key # NoKey /\ r.target = key.lease /\ key' = Written(c),
         key' = key \/ (key' = Written(c) /\ Matches(c)),
         client' = client, leases' = leases, orphans' \subseteq leases
  PROVE  Kept'
<1>1. call' \in [Client -> Request] /\ call'[c] = r /\ \A d \in Client : d # c => call'[d] = call[d]
  BY CallTo DEF Kept
<1>2. /\ call[c] \in Request /\ call[c].op \in {"register", "heartbeat"} /\ call[c].pc = "put"
      /\ call[c].epoch \in Epoch /\ call[c].lease \in Lease
      /\ client[c].status \in {"starting", "running"}
      /\ call[c].op = "heartbeat" => client[c].status = "running"
  BY DEF Kept, TypeOK, CallShape, Request, Idle, Putting
<1>3. /\ Written(c) \in [epoch : Epoch, lease : Lease] /\ Written(c) # NoKey
      /\ Written(c).epoch = call[c].epoch /\ Written(c).lease = call[c].lease
  BY <1>2, NoKeyAssumption DEF Written
\* A heartbeat leaves the epoch as it is, a registration writes its own.
<1>4. key' = Written(c) /\ call[c].op = "heartbeat" => key # NoKey /\ key.epoch = call[c].epoch
  BY <1>2, <1>3 DEF Kept, ReadStands, Renewing, Attached, Matches, OwnLease, Putting
<1> HIDE DEF Putting
<1> USE <1>1, <1>2, <1>3, <1>4 DEF Kept
<1>5. TypeOK' /\ CallShape'
  BY DEF TypeOK, CallShape
<1>6. OwnLease'
  BY DEF OwnLease, Putting, Renewing, Attached
<1>7. OwnEpoch'
  BY DEF OwnEpoch, Putting, Registering, Renewing
<1>8. ReadStands'
  BY DEF ReadStands, Renewing, Attached, OwnLease, Putting
<1>9. TokenTells'
  BY DEF TokenTells, OwnEpoch, Registering, Putting
<1>10. CleanupKeepsKey'
  BY DEF CleanupKeepsKey, Attached, OwnLease, Putting
<1> QED BY <1>5, <1>6, <1>7, <1>8, <1>9, <1>10

\* The request, once it is to revoke a lease.
Revoke(c, l, result) ==
  [Call(call[c].op, "revoke") EXCEPT !.lease = call[c].lease, !.target = l, !.result = result]

\* It is a request that keeps its operation.
LEMMA RevokeType ==
  ASSUME TypeOK, NEW c \in Client, NEW l \in Number, NEW result \in {"ok", "notfound", "error"}
  PROVE  LET r == Revoke(c, l, result)
         IN  r \in Request /\ r.pc = "revoke" /\ r.op = call[c].op /\ r.target = l /\ r.result = result
<1>1. call[c] \in Request
  BY DEF TypeOK
<1> DEFINE r0 == Call(call[c].op, "revoke")
<1>2. r0 \in Request /\ r0.op = call[c].op /\ r0.pc = "revoke"
  BY <1>1 DEF Call, Idle, Request, Number
<1> HIDE DEF r0
<1> DEFINE r1 == [r0 EXCEPT !.lease = call[c].lease]
<1>3. r1 \in Request /\ r1.op = call[c].op /\ r1.pc = "revoke"
  BY <1>1, <1>2 DEF Request
<1> HIDE DEF r1
<1> DEFINE r2 == [r1 EXCEPT !.target = l]
<1>4. r2 \in Request /\ r2.op = call[c].op /\ r2.pc = "revoke" /\ r2.target = l
  BY <1>3 DEF Request
<1> HIDE DEF r2
<1> DEFINE r3 == [r2 EXCEPT !.result = result]
<1>5. r3 \in Request /\ r3.op = call[c].op /\ r3.pc = "revoke" /\ r3.target = l /\ r3.result = result
  BY <1>4 DEF Request
<1>6. Revoke(c, l, result) = r3
  BY DEF Revoke, r0, r1, r2
<1> QED BY <1>5, <1>6

\* Put, and Update's three ends, are such writes.
LEMMA PutKeeps ==
  ASSUME Kept, NEW c \in Client, Put(c) \/ PutRefused(c) \/ PutFails(c)
  PROVE  Kept'
<1>0. TypeOK
  BY DEF Kept
<1>1. Putting(c) /\ call[c] \in Request /\ call[c].lease \in Number
  BY DEF Put, PutRefused, PutFails, Putting, Kept, TypeOK, Request
<1>2. CASE Put(c) /\ key = NoKey
  <2> DEFINE r == Listing(c)
  <2>1. r \in Request /\ r.pc = "list" /\ r.op = call[c].op
    BY <1>1 DEF Listing, Call, Idle, Request, Number
  <2>2. call' = [call EXCEPT ![c] = r] /\ key' = Written(c) /\ Matches(c) /\ client' = client /\ leases' = leases /\ orphans' = orphans
    BY <1>2 DEF Put
  <2> HIDE DEF r
  <2> QED BY <1>1, <2>1, <2>2, WriteKeeps DEF Kept, TypeOK
<1>3. CASE Put(c) /\ key # NoKey
  <2>1. key.lease \in Number
    BY <1>3 DEF Kept, TypeOK, Number
  <2> DEFINE r == Revoke(c, key.lease, "ok")
  <2>2. r \in Request /\ r.pc = "revoke" /\ r.op = call[c].op /\ r.target = key.lease /\ r.result = "ok"
    BY <1>0, <2>1, RevokeType
  <2>3. call' = [call EXCEPT ![c] = r] /\ key' = Written(c) /\ Matches(c) /\ client' = client /\ leases' = leases /\ orphans' = orphans
    BY <1>3 DEF Put, Revoking, Revoke
  <2> HIDE DEF r
  <2> QED BY <1>1, <1>3, <2>2, <2>3, WriteKeeps DEF Kept, TypeOK
<1>4. CASE PutRefused(c)
  <2> DEFINE r == Revoke(c, call[c].lease, "notfound")
  <2>1. r \in Request /\ r.pc = "revoke" /\ r.op = call[c].op /\ r.target = call[c].lease /\ r.result = "notfound"
    BY <1>0, <1>1, RevokeType
  <2>2. call' = [call EXCEPT ![c] = r] /\ key' = key /\ client' = client /\ leases' = leases /\ orphans' = orphans
    BY <1>4 DEF PutRefused, Revoking, Revoke
  <2> HIDE DEF r
  <2> QED BY <1>1, <2>1, <2>2, WriteKeeps DEF Kept, TypeOK
<1>5. CASE PutFails(c)
  <2> DEFINE r == Revoke(c, call[c].lease, "error")
  <2>1. r \in Request /\ r.pc = "revoke" /\ r.op = call[c].op /\ r.target = call[c].lease /\ r.result = "error"
    BY <1>0, <1>1, RevokeType
  <2>2. /\ call' = [call EXCEPT ![c] = r] /\ client' = client /\ leases' = leases
        /\ key' = key \/ (key' = Written(c) /\ Matches(c))
    BY <1>5 DEF PutFails, Revoking, Revoke
  <2> HIDE DEF r
  <2>3. orphans' \subseteq leases
    BY <1>5 DEF PutFails, Kept, TypeOK
  <2> QED BY <1>1, <2>1, <2>2, <2>3, WriteKeeps
<1> QED BY <1>2, <1>3, <1>4, <1>5

\* The steps that begin a request, and the answer to one.
LEMMA LoopQuiet ==
  ASSUME Kept, NEW c \in Client,
         StartRegistration(c) \/ heartbeatOnce(c) \/ Stop(c) \/ (List(c) /\ key # NoKey)
  PROVE  Quiet(c)
<1>0. TypeOK /\ call[c] \in Request /\ client[c] \in Loop /\ Idle \in Request /\ Idle.pc = "idle" /\ Idle.op = "none"
  BY DEF Kept, TypeOK, Idle, Request, Number
<1>1. CASE StartRegistration(c)
  <2> DEFINE r == Call("register", "grant")
             s == [client[c] EXCEPT !.status = "starting"]
  <2>1. r \in Request /\ r.pc = "grant" /\ r.op = "register"
    BY DEF Idle, Call, Request, Number
  <2>2. s \in Loop /\ s.status = "starting" /\ s.token = client[c].token
    BY <1>0 DEF Loop
  <2>3. call' = [call EXCEPT ![c] = r] /\ client' = [client EXCEPT ![c] = s] /\ key' = key
    BY <1>1 DEF StartRegistration
  <2> HIDE DEF r, s
  <2> QED BY <1>0, <2>1, <2>2, <2>3, CallTo, ClientTo DEF Quiet
<1>2. CASE heartbeatOnce(c)
  <2> DEFINE r == Call("heartbeat", "get")
  <2>1. r \in Request /\ r.pc = "get" /\ r.op = "heartbeat"
    BY DEF Idle, Call, Request, Number
  <2>2. call' = [call EXCEPT ![c] = r] /\ client' = client /\ key' = key /\ client[c].status = "running"
    BY <1>2 DEF heartbeatOnce
  <2> HIDE DEF r
  <2>3. client' \in [Client -> Loop]
    BY <1>0, <2>2 DEF TypeOK
  <2> QED BY <1>0, <2>1, <2>2, <2>3, CallTo DEF Quiet, Kept, TokenTells
<1>3. CASE Stop(c)
  <2> DEFINE s == [status |-> "stopped", epoch |-> 0, token |-> 0]
  <2>1. s \in Loop /\ s.status = "stopped" /\ s.token = 0
    BY DEF Loop
  <2>2. call' = call /\ call[c] = Idle /\ client' = [client EXCEPT ![c] = s] /\ key' = key
    BY <1>3 DEF Stop
  <2> HIDE DEF s
  <2>3. call' \in [Client -> Request]
    BY <1>0, <2>2 DEF TypeOK
  <2> QED BY <1>0, <2>1, <2>2, <2>3, ClientTo DEF Quiet
<1>4. CASE List(c) /\ key # NoKey
  <2> DEFINE s == [status |-> "running", epoch |-> key.epoch,
                   token |-> IF call[c].op = "register" THEN key.epoch ELSE client[c].token]
  <2>1. key.epoch \in Epoch
    BY <1>0, <1>4 DEF TypeOK
  <2>2. /\ s \in Loop /\ s.status = "running" /\ s.epoch = key.epoch
        /\ s.token = key.epoch \/ s.token = client[c].token
    BY <1>0, <2>1 DEF Loop
  <2>3. call' = [call EXCEPT ![c] = Idle] /\ client' = [client EXCEPT ![c] = s] /\ key' = key
    BY <1>4 DEF List, Answered
  <2> HIDE DEF s
  <2> QED BY <1>0, <1>4, <2>2, <2>3, CallTo, ClientTo DEF Quiet
<1> QED BY <1>1, <1>2, <1>3, <1>4

\* Such a step loses no lease, unless it is one that has a lease to revoke.
LEMMA QuietLosesNone ==
  ASSUME IInv, NEW c \in Client, Quiet(c), key' = key, orphans \subseteq orphans',
         call[c].pc \in {"put", "revoke"} => call[c].pc = "revoke" /\ (call[c].target \in leases => call[c].target \in orphans'),
         \A l \in leases' : l \in leases \/ l \in orphans'
  PROVE  NoLeaseLost'
BY DEF IInv, NoLeaseLost, Quiet, Attached

\* The invariant is inductive.
LEMMA InvStep == IInv /\ [Next]_vars => IInv'
<1> SUFFICES ASSUME IInv, [Next]_vars PROVE IInv'
  OBVIOUS
<1>0. Kept /\ TypeOK
  BY DEF IInv, Kept
<1>1. ASSUME NEW c \in Client, StartRegistration(c) \/ heartbeatOnce(c) \/ Stop(c) PROVE IInv'
  <2>1. Quiet(c)
    BY <1>0, <1>1, LoopQuiet
  <2>2. UNCHANGED <<key, leases, orphans>> /\ call[c].pc = "idle"
    BY <1>0, <1>1 DEF StartRegistration, heartbeatOnce, Stop, TypeOK, Idle
  <2>3. Kept'
    BY <1>0, <2>1, <2>2, QuietKeeps DEF TypeOK
  <2> QED BY <2>1, <2>2, <2>3, QuietLosesNone DEF IInv
<1>2. ASSUME NEW c \in Client, Get(c) \/ GetFails(c) PROVE IInv'
  <2>1. UNCHANGED <<key, leases, orphans>> /\ call[c].pc = "get" /\ call[c] # Idle
    BY <1>2 DEF Get, GetFails, Idle
  <2>2. CASE NotFound(c) \/ Errs(c)
    <3>1. Quiet(c)
      BY <1>0, <2>1, <2>2, NotFoundQuiet, ErrsQuiet
    <3>2. Kept'
      BY <1>0, <2>1, <3>1, QuietKeeps DEF TypeOK
    <3> QED BY <2>1, <3>1, <3>2, QuietLosesNone DEF IInv
  <2>3. CASE ~(NotFound(c) \/ Errs(c))
    <3>1. /\ key # NoKey /\ client' = client
          /\ call' = [call EXCEPT ![c] = [@ EXCEPT !.pc = "grant", !.epoch = key.epoch, !.read = key.lease]]
      BY <1>2, <2>3 DEF Get, GetFails
    <3>2. Kept'
      BY <1>0, <2>1, <3>1, GetKeeps
    <3>3. \A d \in Client : call[d].pc \in {"put", "revoke"} => call'[d] = call[d]
      BY <1>0, <2>1, <3>1 DEF TypeOK
    <3>4. NoLeaseLost'
      BY <2>1, <3>3 DEF IInv, NoLeaseLost, Attached
    <3> QED BY <3>2, <3>4 DEF IInv
  <2> QED BY <2>2, <2>3
<1>3. ASSUME NEW c \in Client, Grant(c) PROVE IInv'
  <2>1. Kept'
    BY <1>0, <1>3, GrantKeeps
  <2>2. /\ leases' = leases \cup {call'[c].lease} /\ call'[c].pc = "put" /\ UNCHANGED <<key, orphans>>
        /\ \A d \in Client : call[d].pc \in {"put", "revoke"} => call'[d] = call[d]
    BY <1>0, <1>3 DEF Grant, TypeOK, Request
  <2>3. NoLeaseLost'
    BY <2>2 DEF IInv, NoLeaseLost, Attached
  <2> QED BY <2>1, <2>3 DEF IInv
<1>4. ASSUME NEW c \in Client, GrantFails(c) PROVE IInv'
  <2>1. key' = key /\ call[c].pc = "grant" /\ call[c] # Idle /\ Errs(c)
    BY <1>4 DEF GrantFails, Idle
  <2>2. /\ leases' \subseteq Lease /\ orphans' \subseteq leases' /\ orphans \subseteq orphans'
        /\ \A l \in leases' : l \in leases \/ l \in orphans'
    <3>1. FreeLeases # {} => Least(FreeLeases) \in Lease
      BY Drawn DEF FreeLeases
    <3> QED BY <1>0, <1>4, <3>1 DEF GrantFails, TypeOK
  <2>3. Quiet(c)
    BY <1>0, <2>1, ErrsQuiet
  <2>4. Kept'
    BY <1>0, <2>2, <2>3, QuietKeeps
  <2> QED BY <2>1, <2>2, <2>3, <2>4, QuietLosesNone DEF IInv
<1>5. ASSUME NEW c \in Client, Put(c) \/ PutRefused(c) \/ PutFails(c) PROVE IInv'
  <2>1. Kept'
    BY <1>0, <1>5, PutKeeps
  <2>2. /\ call[c].pc = "put" /\ leases' = leases /\ orphans \subseteq orphans'
        /\ \A d \in Client : d # c => call'[d] = call[d]
    BY <1>0, <1>5 DEF Put, PutRefused, PutFails, Revoking, TypeOK
  <2>3. /\ Written(c) # NoKey /\ Written(c).lease = call[c].lease
        /\ call[c] \in Request /\ call[c].lease \in Number
        /\ key # NoKey => key.lease \in Number
    BY <1>0, <2>2, NoKeyAssumption DEF Written, Kept, TypeOK, CallShape, Request, Number
  <2>4. CASE Put(c)
    <3>1. key' = Written(c)
      BY <2>4 DEF Put
    <3>2. key # NoKey => call'[c].pc = "revoke" /\ call'[c].target = key.lease
      <4> SUFFICES ASSUME key # NoKey PROVE call'[c] = Revoke(c, key.lease, "ok")
        BY <1>0, <2>3, RevokeType
      <4> QED BY <1>0, <2>4 DEF Put, Revoking, Revoke, TypeOK
    <3>3. NoLeaseLost'
      BY <2>2, <2>3, <3>1, <3>2 DEF IInv, NoLeaseLost, Attached
    <3> QED BY <2>1, <3>3 DEF IInv
  <2>5. CASE PutRefused(c) \/ PutFails(c)
    <3>1. PICK result \in {"notfound", "error"} : call'[c] = Revoke(c, call[c].lease, result)
      BY <1>0, <2>5 DEF PutRefused, PutFails, Revoking, Revoke, TypeOK
    <3>2. call'[c].pc = "revoke" /\ call'[c].target = call[c].lease
      BY <1>0, <2>3, <3>1, RevokeType
    <3>3. key' = key \/ (key # NoKey => {key.lease} \cap leases \subseteq orphans')
      BY <2>5 DEF PutRefused, PutFails
    <3>4. NoLeaseLost'
      BY <2>2, <3>2, <3>3 DEF IInv, NoLeaseLost, Attached
    <3> QED BY <2>1, <3>4 DEF IInv
  <2> QED BY <1>5, <2>4, <2>5
<1>6. ASSUME NEW c \in Client, revokeLease(c) \/ RevokeFails(c) PROVE IInv'
  <2>1. call[c].pc = "revoke" /\ call[c] # Idle /\ call[c].op # "none" /\ AfterRevoke(c) /\ key' \in {key, NoKey}
    BY <1>0, <1>6 DEF revokeLease, RevokeFails, Without, Idle, Kept, CallShape
  <2>2. Quiet(c)
    <3>1. call[c].result \in {"ok", "notfound", "error"}
      BY <1>0 DEF TypeOK, Request
    <3> QED BY <1>0, <2>1, <3>1, NotFoundQuiet, ErrsQuiet, ListingQuiet DEF AfterRevoke
  <2>3. leases' \subseteq Lease /\ orphans' \subseteq leases'
    BY <1>0, <1>6 DEF revokeLease, RevokeFails, TypeOK
  <2>4. Kept'
    BY <1>0, <2>2, <2>3, QuietKeeps
  <2>5. CASE RevokeFails(c)
    <3>1. key' = key /\ leases' = leases /\ orphans' = orphans \cup ({call[c].target} \cap leases)
      BY <2>5 DEF RevokeFails
    <3> QED BY <2>1, <2>2, <2>4, <3>1, QuietLosesNone DEF IInv
  <2>6. CASE revokeLease(c)
    <3>1. leases' = leases \ {call[c].target} /\ orphans' = orphans \ {call[c].target} /\ key' = Without(call[c].target)
      BY <2>6 DEF revokeLease
    <3>2. NoLeaseLost'
      BY <2>1, <2>2, <3>1 DEF IInv, NoLeaseLost, Quiet, Attached, Without
    <3> QED BY <2>4, <3>2 DEF IInv
  <2> QED BY <1>6, <2>5, <2>6
<1>7. ASSUME NEW c \in Client, List(c) \/ ListFails(c) PROVE IInv'
  <2>1. UNCHANGED <<key, leases, orphans>> /\ call[c].pc = "list" /\ call[c] # Idle
    BY <1>7 DEF List, ListFails, Idle
  <2>2. Quiet(c)
    BY <1>0, <1>7, <2>1, NotFoundQuiet, ErrsQuiet, LoopQuiet DEF List, ListFails
  <2>3. Kept'
    BY <1>0, <2>1, <2>2, QuietKeeps DEF TypeOK
  <2> QED BY <2>1, <2>2, <2>3, QuietLosesNone DEF IInv
<1>8. ASSUME NEW l \in Lease, Expire(l) \/ ExpireEarly(l) PROVE IInv'
  <2>1. /\ leases' = leases \ {l} /\ orphans' = orphans \ {l} /\ key' = Without(l) /\ UNCHANGED <<call, client>>
    BY <1>8 DEF Expire, ExpireEarly, Gone
  <2>2. key' \in {key, NoKey}
    BY <2>1 DEF Without
  <2>3. TypeOK' /\ CallShape'
    BY <1>0, <2>1, <2>2 DEF Kept, TypeOK, CallShape
  <2>4. OwnLease' /\ CleanupKeepsKey'
    BY <1>0, <2>1, <2>2 DEF Kept, OwnLease, CleanupKeepsKey, Putting, Renewing, Attached
  <2>5. OwnEpoch' /\ ReadStands' /\ TokenTells'
    BY <1>0, <2>1, <2>2 DEF Kept, OwnEpoch, ReadStands, TokenTells, Registering, Putting, Renewing, Attached
  <2>6. NoLeaseLost'
    BY <2>1 DEF IInv, NoLeaseLost, Attached, Without
  <2> QED BY <2>3, <2>4, <2>5, <2>6 DEF IInv, Kept
<1>9. CASE UNCHANGED vars
  <2>1. UNCHANGED <<key, leases, call, client, orphans>>
    BY <1>9 DEF vars
  <2>2. TypeOK' /\ CallShape'
    BY <1>0, <2>1 DEF Kept, TypeOK, CallShape
  <2>3. OwnLease' /\ CleanupKeepsKey'
    BY <1>0, <2>1 DEF Kept, OwnLease, CleanupKeepsKey, Putting, Renewing, Attached
  <2>4. OwnEpoch' /\ ReadStands' /\ TokenTells'
    BY <1>0, <2>1 DEF Kept, OwnEpoch, ReadStands, TokenTells, Registering, Putting, Renewing, Attached
  <2>5. NoLeaseLost'
    BY <2>1 DEF IInv, NoLeaseLost, Attached
  <2> QED BY <2>2, <2>3, <2>4, <2>5 DEF IInv, Kept
<1> QED BY <1>1, <1>2, <1>3, <1>4, <1>5, <1>6, <1>7, <1>8, <1>9 DEF Next, Step

\* Nothing is registered and nobody has asked for anything.
LEMMA InvInit == Init => IInv
<1> SUFFICES ASSUME Init PROVE IInv
  OBVIOUS
<1>1. Idle \in Request /\ Idle.pc = "idle" /\ Idle.op = "none"
  BY DEF Idle, Request, Number
<1>2. [status |-> "off", epoch |-> 0, token |-> 0] \in Loop
  BY DEF Loop
<1> QED BY <1>1, <1>2 DEF Init, IInv, Kept, TypeOK, CallShape, OwnLease, OwnEpoch, ReadStands, TokenTells, CleanupKeepsKey,
                          NoLeaseLost, Putting, Registering, Renewing, Attached

\* Requests, loops, leases and the key have their types in every state: a
\* stopped or failed loop has no request, an orphan is a lease that etcd holds.
THEOREM TypeCorrect == Spec => []TypeOK
<1>1. IInv => TypeOK
  BY DEF IInv, Kept
<1> QED BY <1>1, InvInit, InvStep, PTL DEF Spec

\* CleanupKeepsKey for every number of clients and faults: the lease that Put or
\* Update revokes once it has written, or was refused, never carries the key.
THEOREM CleanupSafe == Spec => []CleanupKeepsKey
<1>1. IInv => CleanupKeepsKey
  BY DEF IInv, Kept
<1> QED BY <1>1, InvInit, InvStep, PTL DEF Spec

\* NoLeaseLost for every number of clients and faults: put, revokeLease and their
\* error paths leave no lease behind but those that a lost request or answer left.
THEOREM LeasesAccounted == Spec => []NoLeaseLost
<1>1. IInv => NoLeaseLost
  BY DEF IInv
<1> QED BY <1>1, InvInit, InvStep, PTL DEF Spec

\* A write that reaches the key leaves its epoch as it is, or is a registration.
LEMMA WrittenEpoch ==
  ASSUME Kept, NEW d \in Client, Putting(d), Matches(d)
  PROVE  \/ key # NoKey /\ key.epoch = call[d].epoch
         \/ \A c \in Client : client[c].token # call[d].epoch
<1>1. call[d].op \in {"register", "heartbeat"}
  BY DEF Kept, TypeOK, CallShape, Request, Putting
<1> QED BY <1>1 DEF Kept, Putting, Registering, Renewing, Matches, Attached, ReadStands, OwnEpoch

\* Only a client that is registering comes to hold the lease.
LEMMA HoldsStep ==
  ASSUME Kept, [Next]_vars, NEW c \in Client, ~Holds(c), Holds(c)'
  PROVE  call[c].op = "register"
<1>0. TypeOK /\ CallShape /\ TokenTells
  BY DEF Kept
<1>1. /\ key' # NoKey /\ client'[c].status = "running"
      /\ key'.epoch = client'[c].epoch /\ key'.epoch = client'[c].token
  BY DEF Holds, Fenced
<1>2. key' \in {key, NoKey} /\ client'[c] = client[c] => FALSE
  BY <1>1 DEF Holds, Fenced
<1>3. ASSUME NEW d \in Client, StartRegistration(d) \/ Stop(d) PROVE FALSE
  <2>1. key' = key /\ (d # c => client'[c] = client[c]) /\ (d = c => client'[c].status # "running")
    BY <1>0, <1>3 DEF StartRegistration, Stop, TypeOK, Loop
  <2> QED BY <1>1, <1>2, <2>1
<1>4. ASSUME NEW d \in Client, Errs(d), key' \in {key, NoKey} PROVE FALSE
  <2>1. d # c => client'[c] = client[c]
    BY <1>0, <1>4 DEF Errs, TypeOK
  <2>2. d = c => /\ client'[c].epoch = client[c].epoch /\ client'[c].token = client[c].token
                 /\ client'[c].status = "running" => client[c].status = "running"
    BY <1>0, <1>4 DEF Errs, TypeOK, Loop
  <2> QED BY <1>1, <1>2, <1>4, <2>1, <2>2 DEF Holds, Fenced
<1>5. ASSUME NEW d \in Client, NotFound(d), key' \in {key, NoKey} PROVE FALSE
  BY <1>2, <1>4, <1>5 DEF NotFound
<1>6. ASSUME NEW d \in Client, AfterRevoke(d), key' \in {key, NoKey} PROVE FALSE
  <2>1. call[d].result \in {"ok", "notfound", "error"}
    BY <1>0 DEF TypeOK, Request
  <2> QED BY <1>2, <1>4, <1>5, <1>6, <2>1 DEF AfterRevoke
<1>7. ASSUME NEW d \in Client, Get(d) \/ GetFails(d) \/ Grant(d) \/ GrantFails(d) \/ heartbeatOnce(d) PROVE FALSE
  BY <1>2, <1>4, <1>5, <1>7 DEF Get, GetFails, Grant, GrantFails, heartbeatOnce
<1>8. ASSUME NEW d \in Client, revokeLease(d) \/ RevokeFails(d) \/ ListFails(d) PROVE FALSE
  BY <1>4, <1>6, <1>8 DEF revokeLease, RevokeFails, ListFails, Without
<1>9. ASSUME NEW d \in Client, Put(d) \/ PutRefused(d) \/ PutFails(d) PROVE FALSE
  <2>1. client' = client /\ Putting(d) /\ (key' = key \/ (key' = Written(d) /\ Matches(d)))
    BY <1>9 DEF Put, PutRefused, PutFails, Putting
  <2>2. Written(d).epoch = call[d].epoch
    BY DEF Written
  <2>3. key' = Written(d) /\ Matches(d) => FALSE
    BY <1>1, <2>1, <2>2, WrittenEpoch DEF Holds, Fenced
  <2> QED BY <1>2, <2>1, <2>3
<1>10. ASSUME NEW d \in Client, List(d) PROVE call[c].op = "register"
  <2>1. CASE NotFound(d)
    BY <1>5, <1>10, <2>1 DEF List
  <2>2. CASE client' = Answered(d) /\ d # c
    BY <1>0, <1>2, <1>10, <2>2 DEF List, Answered, TypeOK
  <2>3. CASE client' = Answered(d) /\ d = c
    <3>1. key' = key /\ call[c].op \in {"register", "heartbeat"}
      BY <1>0, <1>10, <2>3 DEF List, CallShape, TypeOK, Request
    <3>2. call[c].op = "heartbeat" => client'[c].token = client[c].token /\ client[c].status = "running"
      BY <1>0, <2>3 DEF Answered, TypeOK, CallShape
    <3>3. call[c].op = "heartbeat" => FALSE
      BY <1>0, <1>1, <3>1, <3>2 DEF TokenTells, Holds, Fenced
    <3> QED BY <3>1, <3>3
  <2> QED BY <1>10, <2>1, <2>2, <2>3 DEF List
<1>11. ASSUME NEW l \in Lease, Expire(l) \/ ExpireEarly(l) PROVE FALSE
  BY <1>2, <1>11 DEF Expire, ExpireEarly, Gone, Without
<1>12. CASE UNCHANGED vars
  BY <1>2, <1>12 DEF vars
<1> QED BY <1>3, <1>7, <1>8, <1>9, <1>10, <1>11, <1>12 DEF Next, Step

\* OwnedByRegistering for every number of clients and faults: the answer to a
\* heartbeat, or a late write, never makes a fenced client the owner again.
THEOREM OwnershipByRegistering == Spec => OwnedByRegistering
<1>1. IInv /\ [Next]_vars => [\A c \in Client : ~Holds(c) /\ Holds(c)' => call[c].op = "register"]_vars
  BY HoldsStep DEF IInv
<1> QED BY <1>1, InvInit, InvStep, PTL DEF Spec, OwnedByRegistering
=============================================================================
