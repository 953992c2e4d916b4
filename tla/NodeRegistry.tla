---------------------------- MODULE NodeRegistry ----------------------------
(***************************************************************************)
(* How node infos are published and deleted: addNode, deleteNode and       *)
(* deleteAllNodes of NetworkMapServiceProcessor over the nodeInfo storage. *)
(*                                                                         *)
(* A publication reads the whole registry, refuses a name that has already *)
(* been registered with another key, and then stores the node info; none   *)
(* of this goes through the executor, so that publications, deletions and  *)
(* the storage calls they consist of interleave freely.  The storage is    *)
(* the file system or MongoDB, as the instance was configured.             *)
(*                                                                         *)
(* A node info is abstracted to one legal name and its owning key, and is  *)
(* its own hash.  Addresses and serial number, certificates and signature  *)
(* play no part in the decision.                                           *)
(***************************************************************************)
EXTENDS Naturals, FiniteSets

CONSTANTS
  Names, Keys,         \* legal names and owning keys
  Publications,        \* calls of addNode
  Deletions,           \* calls of deleteNode and deleteAllNodes
  StorageTypes,        \* the storages it may be deployed with: "FILE", "MONGO"
  AllowNodeKeyChange,  \* the option allow-node-key-change
  MaxCrashes           \* bound: crashes of the service

ASSUME RegistryAssumption ==
  /\ StorageTypes \subseteq {"FILE", "MONGO"} /\ StorageTypes # {}
  /\ AllowNodeKeyChange \in BOOLEAN
  /\ MaxCrashes \in Nat
  /\ Names # {} /\ Keys # {}

VARIABLES
  storageType,  \* the option storage-type
  added,    \* per node info, the revisions ever stored
  removed,  \* per node info, the revisions deleted, oldest first
  torn,     \* files truncated and not written yet
  pc,       \* progress of each publication
  info,     \* the node info each publication carries
  seen,     \* the keys each publication has listed
  toRead,   \* those of them it has not read yet
  before,   \* the revisions that had been deleted when it listed the keys, then
            \* when it opened its file
  apc,      \* progress of each deletion
  targets,  \* what each deletion has still to delete
  found,    \* the revision each deletion of a single node is about to delete
  gone,     \* node infos deleted with success and not stored again since
  crashes

storage == <<storageType, added, removed, torn>>
publicationVars == <<pc, info, seen, toRead, before>>
deletionVars == <<apc, targets, found>>
vars == <<storageType, added, removed, torn, pc, info, seen, toRead, before, apc, targets, found, gone, crashes>>

Info == [name : Names, key : Keys]

Listed == {i \in Info : added[i] > removed[i]}
Readable == Listed \ torn

Publishing == {p \in Publications : pc[p] \in {"listing", "reading", "accepted", "writing"}}
Deleting == {"finding", "removing", "listing", "clearing"}

Init ==
  /\ storageType \in StorageTypes
  /\ added = [i \in Info |-> 0] /\ removed = [i \in Info |-> 0] /\ torn = {}
  /\ pc = [p \in Publications |-> "idle"]
  /\ info \in [Publications -> Info]
  /\ seen = [p \in Publications |-> {}] /\ toRead = [p \in Publications |-> {}]
  /\ before = [p \in Publications |-> removed]
  /\ apc = [a \in Deletions |-> "idle"]
  /\ targets = [a \in Deletions |-> {}]
  /\ found = [a \in Deletions |-> 0]
  /\ gone = {} /\ crashes = 0

-----------------------------------------------------------------------------
(* addNode.                                                                *)

Go(p, label) == pc' = [pc EXCEPT ![p] = label]

Publish(p) ==
  /\ pc[p] = "idle"
  /\ Go(p, "listing")
  /\ UNCHANGED <<storage, info, seen, toRead, before, deletionVars, gone, crashes>>

\* Mutant: the list still shows what has been deleted.
ListDeletedKeys(p) ==
  /\ pc[p] = "listing"
  /\ seen' = [seen EXCEPT ![p] = {i \in Info : added[i] > 0}]
  /\ toRead' = [toRead EXCEPT ![p] = {i \in Info : added[i] > 0}]
  /\ before' = [before EXCEPT ![p] = removed]
  /\ Go(p, "reading")
  /\ UNCHANGED <<storage, info, deletionVars, gone, crashes>>

\* getAll lists the keys first ...
ListKeys(p) ==
  /\ pc[p] = "listing"
  /\ seen' = [seen EXCEPT ![p] = Listed]
  /\ toRead' = [toRead EXCEPT ![p] = Listed]
  /\ before' = [before EXCEPT ![p] = removed]
  /\ Go(p, "reading")
  /\ UNCHANGED <<storage, info, deletionVars, gone, crashes>>

\* ... then reads them all at once; the first that cannot be read fails the call.
ReadNode(p, i) ==
  /\ pc[p] = "reading" /\ i \in toRead[p]
  /\ toRead' = [toRead EXCEPT ![p] = @ \ {i}]
  /\ Go(p, IF i \in Readable THEN "reading" ELSE "failed")
  /\ UNCHANGED <<storage, info, seen, before, deletionVars, gone, crashes>>

\* Mutant: only node infos that carry the same key are looked at.
NamesakesByKey(p) == {i \in seen[p] : i.name = info[p].name /\ i.key = info[p].key}

Namesakes(p) == {i \in seen[p] : i.name = info[p].name}

\* One key is remembered per name: that of any of the namesakes.
Accept(p) ==
  /\ pc[p] = "reading" /\ toRead[p] = {}
  /\ \/ AllowNodeKeyChange
     \/ Namesakes(p) = {}
     \/ \E i \in Namesakes(p) : i.key = info[p].key
  /\ Go(p, "accepted")
  /\ UNCHANGED <<storage, info, seen, toRead, before, deletionVars, gone, crashes>>

Reject(p) ==
  /\ pc[p] = "reading" /\ toRead[p] = {} /\ ~AllowNodeKeyChange
  /\ \E i \in Namesakes(p) : i.key # info[p].key
  /\ Go(p, "rejected")
  /\ UNCHANGED <<storage, info, seen, toRead, before, deletionVars, gone, crashes>>

\* Mutant: a file is created beside the one there is.
OpenAnotherFile(p) ==
  /\ pc[p] = "accepted" /\ storageType = "FILE"
  /\ added' = [added EXCEPT ![info[p]] = @ + 1]
  /\ torn' = torn \cup {info[p]}
  /\ before' = [before EXCEPT ![p] = removed]
  /\ gone' = gone \ {info[p]}
  /\ Go(p, "writing")
  /\ UNCHANGED <<storageType, removed, info, seen, toRead, deletionVars, crashes>>

\* put creates or truncates a file, and writes it in a second step, which has no
\* effect if that file has been deleted meanwhile ...
OpenFile(p) ==
  /\ pc[p] = "accepted" /\ storageType = "FILE"
  /\ added' = [added EXCEPT ![info[p]] = removed[info[p]] + 1]
  /\ torn' = torn \cup {info[p]}
  /\ before' = [before EXCEPT ![p] = removed]
  /\ gone' = gone \ {info[p]}
  /\ Go(p, "writing")
  /\ UNCHANGED <<storageType, removed, info, seen, toRead, deletionVars, crashes>>

\* Mutant: the file is created and nothing is written to it.
WriteNothing(p) ==
  /\ pc[p] = "writing"
  /\ Go(p, "done")
  /\ UNCHANGED <<storage, info, seen, toRead, before, deletionVars, gone, crashes>>

WriteFile(p) ==
  /\ pc[p] = "writing"
  /\ torn' = IF before[p][info[p]] = removed[info[p]] THEN torn \ {info[p]} ELSE torn
  /\ Go(p, "done")
  /\ UNCHANGED <<storageType, added, removed, info, seen, toRead, before, deletionVars, gone, crashes>>

\* ... while the bucket of the Mongo storage gains a revision.
AddRevision(p) ==
  /\ pc[p] = "accepted" /\ storageType = "MONGO"
  /\ added' = [added EXCEPT ![info[p]] = @ + 1]
  /\ gone' = gone \ {info[p]}
  /\ Go(p, "done")
  /\ UNCHANGED <<storageType, removed, torn, info, seen, toRead, before, deletionVars, crashes>>

-----------------------------------------------------------------------------
(* deleteNode and deleteAllNodes.                                          *)

Becomes(a, label) == apc' = [apc EXCEPT ![a] = label]

DeleteNode(a, i) ==
  /\ apc[a] = "idle"
  /\ targets' = [targets EXCEPT ![a] = {i}]
  /\ Becomes(a, IF storageType = "FILE" THEN "removing" ELSE "finding")
  /\ UNCHANGED <<storage, publicationVars, found, gone, crashes>>

\* The Mongo storage looks up the oldest revision, and is content without one.
FindRevision(a, i) ==
  /\ apc[a] = "finding" /\ i \in targets[a]
  /\ found' = [found EXCEPT ![a] = removed[i]]
  /\ Becomes(a, IF i \in Listed THEN "removing" ELSE "done")
  /\ gone' = IF i \in Listed THEN gone ELSE gone \cup {i}
  /\ UNCHANGED <<storage, publicationVars, targets, crashes>>

Missing(a, i) == i \notin Listed \/ (storageType = "MONGO" /\ found[a] # removed[i])

\* Mutant: the answer is given before the file is deleted.
RemoveNodeLater(a, i) ==
  /\ apc[a] = "removing" /\ i \in targets[a]
  /\ targets' = [targets EXCEPT ![a] = {}]
  /\ gone' = gone \cup {i}
  /\ Becomes(a, "done")
  /\ UNCHANGED <<storage, publicationVars, found, crashes>>

\* Deleting what is no longer there is an error.
RemoveNode(a, i) ==
  /\ apc[a] = "removing" /\ i \in targets[a]
  /\ targets' = [targets EXCEPT ![a] = {}]
  /\ IF Missing(a, i)
     THEN Becomes(a, "failed") /\ UNCHANGED <<storage, gone>>
     ELSE /\ removed' = [removed EXCEPT ![i] = @ + 1]
          /\ torn' = torn \ {i}
          /\ gone' = gone \cup {i}
          /\ Becomes(a, "done")
          /\ UNCHANGED <<storageType, added>>
  /\ UNCHANGED <<publicationVars, found, crashes>>

\* The file storage lists the directory and deletes the files one by one ...
DeleteAllNodes(a) ==
  /\ apc[a] = "idle"
  /\ Becomes(a, "listing")
  /\ UNCHANGED <<storage, publicationVars, targets, found, gone, crashes>>

ListFiles(a) ==
  /\ apc[a] = "listing" /\ storageType = "FILE"
  /\ targets' = [targets EXCEPT ![a] = Listed]
  /\ Becomes(a, IF Listed = {} THEN "done" ELSE "clearing")
  /\ UNCHANGED <<storage, publicationVars, found, gone, crashes>>

\* ... and the deletions that were started go on after one of them has failed.
ClearFile(a, i) ==
  /\ apc[a] \in {"clearing", "failed"} /\ storageType = "FILE" /\ i \in targets[a]
  /\ targets' = [targets EXCEPT ![a] = @ \ {i}]
  /\ IF i \in Listed
     THEN /\ removed' = [removed EXCEPT ![i] = @ + 1]
          /\ torn' = torn \ {i}
          /\ gone' = gone \cup {i}
          /\ Becomes(a, IF apc[a] = "clearing" /\ targets[a] = {i} THEN "done" ELSE apc[a])
     ELSE Becomes(a, "failed") /\ UNCHANGED <<removed, torn, gone>>
  /\ UNCHANGED <<storageType, added, publicationVars, found, crashes>>

DropBucket(a) ==
  /\ apc[a] = "listing" /\ storageType = "MONGO"
  /\ removed' = added
  /\ gone' = gone \cup Listed
  /\ Becomes(a, "done")
  /\ UNCHANGED <<storageType, added, torn, publicationVars, targets, found, crashes>>

-----------------------------------------------------------------------------
\* What was in progress is lost; a file that was being written stays truncated.
Crash ==
  /\ crashes < MaxCrashes
  /\ crashes' = crashes + 1
  /\ pc' = [p \in Publications |-> IF p \in Publishing THEN "lost" ELSE pc[p]]
  /\ apc' = [a \in Deletions |-> IF apc[a] \in Deleting THEN "lost" ELSE apc[a]]
  /\ targets' = [a \in Deletions |-> {}]
  /\ UNCHANGED <<storage, info, seen, toRead, before, found, gone>>

PublicationStep(p) ==
  \/ ListKeys(p) \/ Accept(p) \/ Reject(p)
  \/ OpenFile(p) \/ WriteFile(p) \/ AddRevision(p)
  \/ \E i \in Info : ReadNode(p, i)

DeletionStep(a) ==
  \/ ListFiles(a) \/ DropBucket(a)
  \/ \E i \in Info : FindRevision(a, i) \/ RemoveNode(a, i) \/ ClearFile(a, i)

Next ==
  \/ Crash
  \/ \E p \in Publications : Publish(p) \/ PublicationStep(p)
  \/ \E a \in Deletions : DeleteAllNodes(a) \/ DeletionStep(a) \/ \E i \in Info : DeleteNode(a, i)

Spec == Init /\ [][Next]_vars

-----------------------------------------------------------------------------
(* Properties.                                                             *)

\* Every variable has its type; a directory holds one file per key, and only
\* files can be torn.
TypeOK ==
  /\ storageType \in {"FILE", "MONGO"}
  /\ added \in [Info -> Nat] /\ removed \in [Info -> Nat] /\ torn \in SUBSET Info
  /\ pc \in [Publications -> {"idle", "listing", "reading", "accepted", "writing",
                             "done", "rejected", "failed", "lost"}]
  /\ info \in [Publications -> Info]
  /\ seen \in [Publications -> SUBSET Info] /\ toRead \in [Publications -> SUBSET Info]
  /\ before \in [Publications -> [Info -> Nat]]
  /\ apc \in [Deletions -> Deleting \cup {"idle", "done", "failed", "lost"}]
  /\ targets \in [Deletions -> SUBSET Info] /\ found \in [Deletions -> Nat]
  /\ gone \in SUBSET Info /\ crashes \in Nat
  /\ \A i \in Info : removed[i] <= added[i]
  /\ storageType = "FILE" => \A i \in Info : added[i] <= removed[i] + 1
  /\ storageType = "MONGO" => torn = {}

\* Two node infos that agree on their name agree on its key.
Agree(i, j) == i.name = j.name => i.key = j.key

\* Unless key changes are allowed, the registry never holds one legal name with
\* two keys (addNode's check, made on a list that may be out of date).
UniqueKey == ~AllowNodeKeyChange => \A i, j \in Listed : Agree(i, j)

\* A node info that a call has deleted is not in the network map until it is
\* published again.
DeletionSticks == gone \cap Listed = {}

\* The file storage keeps that promise: one file per key, so that deleting a node
\* which was published several times leaves nothing of it behind.
DeletionSticksInFiles == storageType = "FILE" => DeletionSticks

\* The step of a publication that fails (other than by refusing a name): a node it
\* has listed was deleted before it got to read it or, in the file storage, that
\* file is still being written, or was when the service crashed.
Explained ==
  \A p \in Publications :
    pc[p] # "failed" /\ pc'[p] = "failed" =>
      \E i \in seen[p] :
        \/ removed[i] > before[p][i]
        \/ storageType = "FILE" /\ \E q \in Publications : info[q] = i /\ pc[q] \in {"writing", "lost"}

\* No publication fails for another reason (getAll lists the keys, then reads them).
NoSpuriousFailure == [][Explained]_vars

\* Whatever the map lists can be downloaded, but for a file a publication has
\* opened and not written yet, or had when the service crashed: deleting, listing
\* and publishing it again meanwhile leave no other torn file behind.
ListedReadable ==
  \A i \in Listed \ Readable :
    \E p \in Publications :
      info[p] = i /\ pc[p] \in {"writing", "lost"} /\ before[p][i] = removed[i]

\* What makes UniqueKey inductive: no other key is registered for the name of a
\* publication that has been accepted, and one that is reading has seen whoever
\* disagrees with it.
Exclusive ==
  ~AllowNodeKeyChange =>
    /\ \A i, j \in Listed : Agree(i, j)
    /\ \A p \in Publications :
         /\ pc[p] = "reading" =>
              /\ \A i \in Listed \ seen[p] : Agree(i, info[p])
              /\ \A i, j \in seen[p] : Agree(i, j)
         /\ pc[p] \in {"accepted", "writing"} => \A i \in Listed : Agree(i, info[p])
=============================================================================
