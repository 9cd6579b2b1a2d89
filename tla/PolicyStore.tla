---------------------------- MODULE PolicyStore ----------------------------
(***************************************************************************)
(* Where the controller's policies come from: pkg/policy/store.go, a YAML  *)
(* file that whoever serves policies reloads, and pkg/policy/etcd_store.go,*)
(* a cache that one goroutine keeps up to date by a list and a watch.      *)
(*                                                                         *)
(* One service.  The n-th change of the source has n for its modification  *)
(* time or ModRevision: the file's clock is fine enough to tell changes    *)
(* apart.  A watch response carries every change since the last one, or    *)
(* only the first few of them, and its header the revision of the last.    *)
(***************************************************************************)
EXTENDS Integers, Sequences

CONSTANTS Snapshot,      \* policies of the service,
          Deleted,       \* that it has none,
          Bad,           \* a file or value that cannot be read or decoded
          Reloader       \* who calls ReloadIfChanged

VARIABLES backend,       \* "file" or "etcd", for good
          written,       \* the source: everything ever written to it
          cache,         \* policies, with modTime or revision
          reload,        \* local state of each ReloadIfChanged
          after,         \* afterRevision of watchLoop,
          watching,      \* and whether its watch is open
          spoilt         \* history: the changes that were misread, undone or skipped

store == <<backend, written, cache, reload, after, watching, spoilt>>

Content == Snapshot \cup {Deleted, Bad}
Latest == written[Len(written)]
Idle == [pc |-> "idle", content |-> Deleted, rev |-> 0]

Revisions == 1..Len(written)

StoreTypeOK ==
  /\ backend \in {"file", "etcd"}
  /\ written \in Seq(Content)
  /\ cache \in [content : Content \ {Bad}, rev : Revisions]
  /\ reload \in [Reloader -> [pc : {"idle", "read", "stat", "install", "done", "failed"},
                              content : Content, rev : Revisions \cup {0}]]
  /\ \A r \in Reloader : reload[r].pc = "install" => reload[r].content # Bad /\ reload[r].rev # 0
  /\ after \in Revisions
  /\ backend = "etcd" => cache.rev <= after /\ \A r \in Reloader : reload[r].pc = "idle"
  /\ watching \in BOOLEAN
  /\ spoilt \subseteq Revisions

\* NewFileStore and NewEtcdStore load once, and fail if that fails.
StoreInit ==
  /\ \E c \in Content \ {Bad} : written = <<c>> /\ cache = [content |-> c, rev |-> 1]
  /\ reload = [r \in Reloader |-> Idle]
  /\ after = 1
  /\ watching = TRUE
  /\ spoilt = {}

\* The operator replaces the file, or puts or deletes the key.
Change(c) ==
  /\ c = Deleted => Latest # Deleted
  /\ written' = Append(written, c)
  /\ UNCHANGED <<backend, cache, reload, after, watching, spoilt>>

----------------------------------------------------------------------------
(* The file.                                                               *)

Changed == cache.rev # Len(written)

ReloadIfChanged(r) ==
  /\ reload[r].pc = "idle"
  /\ reload' = [reload EXCEPT ![r].pc = IF Changed THEN "read" ELSE "done"]
  /\ UNCHANGED <<backend, written, cache, after, watching, spoilt>>

\* Reload reads the file,
ReadFile(r) ==
  /\ reload[r].pc = "read"
  /\ reload' = [reload EXCEPT ![r].pc = "stat", ![r].content = Latest]
  /\ UNCHANGED <<backend, written, cache, after, watching, spoilt>>

\* then asks for its time, which stamps what was read,
Stat(r) ==
  /\ reload[r].pc = "stat"
  /\ reload' = [reload EXCEPT ![r].pc = IF reload[r].content = Bad THEN "failed" ELSE "install",
                              ![r].rev = Len(written)]
  /\ UNCHANGED <<backend, written, cache, after, watching, spoilt>>

\* and replaces the policies under the lock.
Install(r) ==
  LET new == [content |-> reload[r].content, rev |-> reload[r].rev]
  IN  /\ reload[r].pc = "install"
      /\ cache' = new
      /\ spoilt' = spoilt \cup IF new.content = written[new.rev] THEN {} ELSE {new.rev}
      /\ reload' = [reload EXCEPT ![r].pc = "done"]
      /\ UNCHANGED <<backend, written, after, watching>>

ReloadStep(r) == ReadFile(r) \/ Stat(r) \/ Install(r)

ReloadReturns(r) ==
  /\ reload' = [reload EXCEPT ![r] = Idle]
  /\ UNCHANGED <<backend, written, cache, after, watching, spoilt>>

----------------------------------------------------------------------------
(* etcd.                                                                   *)

\* What a watch response carries: each change as a put or as a delete.
Response(rev) == { written[n] : n \in after + 1..rev }

\* What a list returns.
Listed == [content |-> Latest, rev |-> Len(written)]

Decodable(contents) == Bad \notin contents

\* A response's puts are applied, then its deletes, whatever their order was.
Applied(events, rev) ==
  IF rev < cache.rev THEN cache
  ELSE [content |-> IF Deleted \in events THEN Deleted ELSE written[rev], rev |-> rev]

applyWatchEvent(rev) ==
  LET events == Response(rev)
  IN  /\ backend = "etcd" /\ watching
      /\ after' = rev
      /\ \/ ~Decodable(events) /\ watching' = FALSE /\ UNCHANGED <<cache, spoilt>>
         \/ /\ Decodable(events)
            /\ cache' = Applied(events, rev)
            /\ spoilt' = spoilt \cup IF cache'.content = written[rev] THEN {} ELSE {rev}
            /\ UNCHANGED watching
      /\ UNCHANGED <<backend, written, reload>>

\* The watch fails or its channel is closed.
WatchEnds ==
  /\ backend = "etcd" /\ watching
  /\ watching' = FALSE
  /\ UNCHANGED <<backend, written, cache, reload, after, spoilt>>

\* After the backoff everything is listed, and watched from there.  A value that
\* cannot be decoded fails the list; the watch goes on from where it was.
resyncAfterBackoff ==
  /\ backend = "etcd" /\ ~watching
  /\ watching' = TRUE
  /\ \/ ~Decodable({Latest}) /\ UNCHANGED <<cache, after, spoilt>>
     \/ /\ Decodable({Latest})
        /\ cache' = Listed
        /\ after' = Listed.rev
        /\ spoilt' = {}
  /\ UNCHANGED <<backend, written, reload>>

\* The list fails, and what the ended watch had failed to apply is passed over.
ResyncFails ==
  /\ backend = "etcd" /\ ~watching
  /\ watching' = TRUE
  /\ spoilt' = spoilt \cup IF after = cache.rev THEN {} ELSE {after}
  /\ UNCHANGED <<backend, written, cache, reload, after>>
=============================================================================
