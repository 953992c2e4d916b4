----------------------------- MODULE Migration -----------------------------
(***************************************************************************)
(* MongoServiceStorages.setupStorage: before a service with the Mongo      *)
(* storage starts, each of its stores moves what it finds in the files of  *)
(* a service with the file storage: it reads them all, puts them all,      *)
(* lists the files again and deletes those.                                *)
(*                                                                         *)
(* The operations of each of these four phases are started together; all() *)
(* goes on when the last one has succeeded and fails when the first one    *)
(* fails, while the others, and the other stores, carry on.  A set-up that *)
(* has failed leaves a process that does nothing until it is started       *)
(* again.                                                                  *)
(*                                                                         *)
(* Two instances may share the files.  Nothing but a migration writes to   *)
(* either place before the set-up has ended, and what a running service    *)
(* does with its documents is left out.                                    *)
(***************************************************************************)
EXTENDS Naturals, FiniteSets

CONSTANTS
  Instances, \* services that are started
  Stores,    \* their stores
  Upserting, \* those that replace what they have of a key: the text storage
  Docs,      \* the keys of all stores
  StoreOf,   \* the store of each
  MaxFaults, \* bound: crashes and failed operations
  MaxStarts  \* bound: set-ups begun

ASSUME MigrationAssumption ==
  /\ StoreOf \in [Docs -> Stores] /\ Upserting \subseteq Stores
  /\ IsFiniteSet(Instances) /\ MaxFaults \in Nat /\ MaxStarts \in Nat

VARIABLES
  files,     \* documents with a file
  torn,      \* files that cannot be deserialized
  revisions, \* how often Mongo holds each document
  stage,     \* phase of each migration
  listed,    \* the keys of its getAll
  todo,      \* keys whose operation of this phase has not been answered
  failed,    \* migrations whose all() has failed
  starts,    \* history: number of set-ups begun
  faults     \* crashes and failed operations so far

vars == <<files, torn, revisions, stage, listed, todo, failed, starts, faults>>

\* The migration of one store by one instance.
Jobs == Instances \X Stores

Of(j) == {d \in Docs : StoreOf[d] = j[2]}

Init ==
  /\ files \in SUBSET Docs /\ torn \in SUBSET files
  /\ revisions = [d \in Docs |-> IF d \in files THEN 0 ELSE 1]
  /\ stage = [j \in Jobs |-> "list"]
  /\ listed = [j \in Jobs |-> {}] /\ todo = [j \in Jobs |-> {}]
  /\ failed = {} /\ starts = Cardinality(Instances) /\ faults = 0

\* Mutant: all() goes on with the first result.
DoneFirst(j, d, next, batch) ==
  IF j \notin failed
  THEN stage' = [stage EXCEPT ![j] = next] /\ todo' = [todo EXCEPT ![j] = batch]
  ELSE UNCHANGED stage /\ todo' = [todo EXCEPT ![j] = @ \ {d}]

\* Mutant: the counter of outstanding results never reaches zero.
DoneNever(j, d, next, batch) ==
  UNCHANGED stage /\ todo' = [todo EXCEPT ![j] = @ \ {d}]

\* d has been dealt with; if it is the last one all() goes on, unless it has
\* failed before.
Done(j, d, next, batch) ==
  IF todo[j] = {d} /\ j \notin failed
  THEN stage' = [stage EXCEPT ![j] = next] /\ todo' = [todo EXCEPT ![j] = batch]
  ELSE UNCHANGED stage /\ todo' = [todo EXCEPT ![j] = @ \ {d}]

Fails(j, d) ==
  /\ failed' = failed \cup {j}
  /\ todo' = [todo EXCEPT ![j] = @ \ {d}]
  /\ UNCHANGED stage

\* Mutant: the text storage inserts, too.
StoredAnew(d) == [revisions EXCEPT ![d] = @ + 1]

\* The Mongo files get another revision; the text storage replaces.
Stored(d) ==
  [revisions EXCEPT ![d] = IF StoreOf[d] \in Upserting THEN 1 ELSE @ + 1]

Fault == faults < MaxFaults /\ faults' = faults + 1

-----------------------------------------------------------------------------
(* The phases of a migration.                                              *)

\* getKeys of getAll; without files there is nothing to do.
List(j) ==
  /\ stage[j] = "list" /\ j \notin failed
  /\ listed' = [listed EXCEPT ![j] = files \cap Of(j)]
  /\ todo' = [todo EXCEPT ![j] = files \cap Of(j)]
  /\ stage' = [stage EXCEPT ![j] = IF files \cap Of(j) = {} THEN "done" ELSE "read"]
  /\ UNCHANGED <<files, torn, revisions, failed, starts, faults>>

\* The directory cannot be read, by getAll or by clear.
ListFails(j) ==
  /\ stage[j] \in {"list", "relist"} /\ j \notin failed
  /\ failed' = failed \cup {j} /\ Fault
  /\ UNCHANGED <<files, torn, revisions, stage, listed, todo, starts>>

\* What is read after a failure is dropped.
Read(j, d) ==
  /\ stage[j] = "read" /\ j \notin failed /\ d \in todo[j] /\ d \in files \ torn
  /\ Done(j, d, "put", listed[j])
  /\ UNCHANGED <<files, torn, revisions, listed, failed, starts, faults>>

\* The file has gone since, or it is torn.
ReadFails(j, d) ==
  /\ stage[j] = "read" /\ j \notin failed /\ d \in todo[j]
  /\ \/ d \notin files \ torn /\ UNCHANGED faults
     \/ d \in files /\ Fault
  /\ Fails(j, d)
  /\ UNCHANGED <<files, torn, revisions, listed, starts>>

\* Mutant: an upload that breaks is tried again, though it may have arrived.
PutAgain(j, d) ==
  /\ stage[j] = "put" /\ d \in todo[j]
  /\ revisions' = Stored(d)
  /\ UNCHANGED <<stage, todo>> \/ Done(j, d, "relist", {})
  /\ UNCHANGED <<files, torn, listed, failed, starts, faults>>

Put(j, d) ==
  /\ stage[j] = "put" /\ d \in todo[j]
  /\ revisions' = Stored(d)
  /\ Done(j, d, "relist", {})
  /\ UNCHANGED <<files, torn, listed, failed, starts, faults>>

PutFails(j, d) ==
  /\ stage[j] = "put" /\ d \in todo[j]
  /\ revisions' \in {revisions, Stored(d)}
  /\ Fails(j, d) /\ Fault
  /\ UNCHANGED <<files, torn, listed, starts>>

\* getKeys of clear.
Relist(j) ==
  /\ stage[j] = "relist" /\ j \notin failed
  /\ todo' = [todo EXCEPT ![j] = files \cap Of(j)]
  /\ stage' = [stage EXCEPT ![j] = IF files \cap Of(j) = {} THEN "done" ELSE "delete"]
  /\ UNCHANGED <<files, torn, revisions, listed, failed, starts, faults>>

Delete(j, d) ==
  /\ stage[j] = "delete" /\ d \in todo[j] /\ d \in files
  /\ files' = files \ {d} /\ torn' = torn \ {d}
  /\ Done(j, d, "done", {})
  /\ UNCHANGED <<revisions, listed, failed, starts, faults>>

\* Another instance has deleted the file, or the call fails, late or early.
DeleteFails(j, d) ==
  /\ stage[j] = "delete" /\ d \in todo[j]
  /\ \/ d \notin files /\ UNCHANGED <<files, torn, faults>>
     \/ d \in files /\ Fault
        /\ files' \in {files, files \ {d}} /\ torn' = torn \cap files'
  /\ Fails(j, d)
  /\ UNCHANGED <<revisions, listed, starts>>

-----------------------------------------------------------------------------
(* The process.                                                            *)

Failed(i) == \E s \in Stores : <<i, s>> \in failed
Ready(i) == \A s \in Stores : stage[<<i, s>>] = "done"

Begin(i) ==
  /\ stage' = [j \in Jobs |-> IF j[1] = i THEN "list" ELSE stage[j]]
  /\ listed' = [j \in Jobs |-> IF j[1] = i THEN {} ELSE listed[j]]
  /\ todo' = [j \in Jobs |-> IF j[1] = i THEN {} ELSE todo[j]]
  /\ failed' = {j \in failed : j[1] # i}
  /\ starts < MaxStarts /\ starts' = starts + 1
  /\ UNCHANGED <<files, torn, revisions>>

\* What was under way has been done or not.
Crash(i) == Begin(i) /\ Fault

Restart(i) == Failed(i) /\ Begin(i) /\ UNCHANGED faults

JobStep(j) ==
  \/ List(j) \/ Relist(j) \/ ListFails(j)
  \/ \E d \in Docs : Read(j, d) \/ ReadFails(j, d) \/ Put(j, d) \/ PutFails(j, d)
                     \/ Delete(j, d) \/ DeleteFails(j, d)

Next ==
  \/ \E j \in Jobs : JobStep(j)
  \/ \E i \in Instances : Crash(i) \/ Restart(i)

\* Every call is answered, in time or with a failure.
Fairness == \A j \in Jobs : WF_vars(JobStep(j))

Spec == Init /\ [][Next]_vars /\ Fairness

-----------------------------------------------------------------------------
(* Properties.                                                             *)

\* Every variable has its type, and a key has one document in the text storage.
TypeOK ==
  /\ files \subseteq Docs /\ torn \subseteq files
  /\ revisions \in [Docs -> Nat]
  /\ \A d \in Docs : StoreOf[d] \in Upserting => revisions[d] <= 1
  /\ stage \in [Jobs -> {"list", "read", "put", "relist", "delete", "done"}]
  /\ listed \in [Jobs -> SUBSET Docs] /\ todo \in [Jobs -> SUBSET Docs]
  /\ failed \subseteq Jobs /\ starts \in Nat /\ faults \in Nat

\* Every document can be found in its file or in Mongo, while several instances
\* migrate the same files, are interrupted anywhere and start again, and calls
\* fail with or without having had an effect.
NothingLost == \A d \in Docs : d \in files \/ revisions[d] > 0

\* A service only starts to work with the Mongo storage when that holds all
\* documents and no file is left that a later start would bring back.
ReadyComplete ==
  \A i \in Instances : Ready(i) => files = {} /\ \A d \in Docs : revisions[d] > 0

\* A document is stored at most once by each start of a service: repetitions
\* come from interrupted starts and from other instances only.
RevisionPerStart == \A d \in Docs : revisions[d] <= starts

\* Documents are moved as DocumentMove says.
Moved == INSTANCE DocumentMove WITH stored <- {d \in Docs : revisions[d] > 0}
MovesDocuments == Moved!MoveSpec

\* A set-up ends, well or badly: no all() waits for results that do not come, even
\* if a store is migrated while another instance takes its files away.
SetupEnds == \A i \in Instances : []<>(Ready(i) \/ Failed(i))
=============================================================================
