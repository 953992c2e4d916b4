-------------------------- MODULE Migration_proofs --------------------------
(***************************************************************************)
(* Proofs about Migration, for any instances, stores and documents, any    *)
(* bounds on faults and starts, and any files that cannot be read.         *)
(***************************************************************************)
EXTENDS Migration, FiniteSetTheorems, TLAPS

USE MigrationAssumption

\* What a migration knows of its documents in each phase: the keys it listed
\* include all that still have a file; those not outstanding have been put;
\* what it lists to delete has been put, by itself; and when it has ended, no
\* file of the store is left.
JobOK(j) ==
  /\ todo[j] \subseteq Of(j) /\ listed[j] \subseteq Of(j)
  /\ stage[j] = "read" => files \cap Of(j) \subseteq listed[j]
  /\ stage[j] = "put" /\ j \notin failed =>
       \A d \in files \cap Of(j) : revisions[d] > 0 \/ d \in todo[j]
  /\ stage[j] \in {"relist", "delete"} => \A d \in files \cap Of(j) : revisions[d] > 0
  /\ stage[j] = "delete" /\ j \notin failed => files \cap Of(j) \subseteq todo[j]
  /\ stage[j] = "done" => files \cap Of(j) = {}

IInv == TypeOK /\ NothingLost /\ \A j \in Jobs : JobOK(j)

-----------------------------------------------------------------------------
(* Lemmas.                                                                 *)

\* The initial states satisfy the invariant.
LEMMA InitInvariant == Init => IInv
<1> SUFFICES ASSUME Init
             PROVE  IInv
  OBVIOUS
<1>1. Cardinality(Instances) \in Nat
  BY FS_CardinalityType
<1>2. TypeOK
  BY <1>1 DEF Init, TypeOK, Jobs
<1>3. NothingLost
  BY DEF Init, NothingLost
<1>4. \A j \in Jobs : JobOK(j)
  BY DEF Init, JobOK
<1>5. QED
  BY <1>2, <1>3, <1>4 DEF IInv

\* Another put of a document never makes one disappear.
LEMMA StoredMore ==
  ASSUME TypeOK, NEW d \in Docs
  PROVE  /\ Stored(d) \in [Docs -> Nat]
         /\ \A e \in Docs : StoreOf[e] \in Upserting => Stored(d)[e] <= 1
         /\ \A e \in Docs : revisions[e] > 0 => Stored(d)[e] > 0
         /\ Stored(d)[d] > 0
         /\ \A e \in Docs : Stored(d)[e] > 0 => revisions[e] > 0 \/ e = d
  BY DEF TypeOK, Stored

\* What a step of others does, removing files and adding documents to Mongo,
\* leaves a migration's knowledge true.
LEMMA Untouched ==
  ASSUME NEW k \in Jobs, JobOK(k),
         TypeOK, files' \subseteq files,
         \A d \in Docs : revisions[d] > 0 => revisions'[d] > 0,
         stage'[k] = stage[k], listed'[k] = listed[k], todo'[k] = todo[k],
         k \in failed' <=> k \in failed
  PROVE  JobOK(k)'
<1>1. Of(k)' = Of(k)
  BY DEF Of
<1>2. files' \cap Of(k) \subseteq files \cap Of(k) /\ Of(k) \subseteq Docs
  BY DEF Of
<1>3. QED
  BY <1>1, <1>2 DEF JobOK

\* A step that stores documents or stores nothing, and keeps the files, loses
\* none.
LEMMA KeptFiles ==
  ASSUME NothingLost, files' = files,
         \A d \in Docs : revisions[d] > 0 => revisions'[d] > 0
  PROVE  NothingLost'
  BY DEF NothingLost

\* A file may go when Mongo has its document.
LEMMA LostFile ==
  ASSUME NothingLost, NEW d \in Docs, revisions[d] > 0,
         files' \in {files, files \ {d}}, revisions' = revisions
  PROVE  NothingLost'
  BY DEF NothingLost

\* A document whose deletion is outstanding is in Mongo.
LEMMA DeletedStored ==
  ASSUME IInv, NEW j \in Jobs, NEW d \in todo[j], stage[j] = "delete", d \in files
  PROVE  d \in Docs /\ revisions[d] > 0
  BY DEF IInv, JobOK, Of

-----------------------------------------------------------------------------
(* The steps of a migration.                                               *)

\* Listing the keys to read.
LEMMA ListInvariant ==
  ASSUME IInv, NEW j \in Jobs, List(j)
  PROVE  IInv'
<1> USE DEF IInv
<1>1. TypeOK'
  BY DEF List, TypeOK, Of
<1>2. NothingLost'
  BY KeptFiles DEF List
<1>3. JobOK(j)'
  BY DEF List, JobOK, TypeOK, Of
<1>4. ASSUME NEW k \in Jobs, k # j
      PROVE  JobOK(k)'
  BY <1>4, Untouched DEF List, TypeOK
<1>5. QED
  BY <1>1, <1>2, <1>3, <1>4

\* Reading one of them.
LEMMA ReadInvariant ==
  ASSUME IInv, NEW j \in Jobs, NEW d \in Docs, Read(j, d) \/ ReadFails(j, d)
  PROVE  IInv'
<1> USE DEF IInv
<1>1. TypeOK'
  BY DEF Read, ReadFails, Done, Fails, Fault, TypeOK
<1>2. NothingLost'
  BY KeptFiles DEF Read, ReadFails
<1>3. JobOK(j)'
  BY DEF Read, ReadFails, Done, Fails, JobOK, TypeOK, Of
<1>4. ASSUME NEW k \in Jobs, k # j
      PROVE  JobOK(k)'
  BY <1>4, Untouched DEF Read, ReadFails, Done, Fails, TypeOK
<1>5. QED
  BY <1>1, <1>2, <1>3, <1>4

\* Putting one of them.
LEMMA PutInvariant ==
  ASSUME IInv, NEW j \in Jobs, NEW d \in Docs, Put(j, d) \/ PutFails(j, d)
  PROVE  IInv'
<1> USE DEF IInv
<1>1. revisions' \in {revisions, Stored(d)} /\ UNCHANGED <<files, torn, listed, starts>>
  BY DEF Put, PutFails
<1>2. /\ \A e \in Docs : revisions[e] > 0 => revisions'[e] > 0
      /\ revisions' \in [Docs -> Nat]
      /\ \A e \in Docs : StoreOf[e] \in Upserting => revisions'[e] <= 1
  BY <1>1, StoredMore DEF TypeOK
<1>3. TypeOK'
  <2>1. /\ stage' \in [Jobs -> {"list", "read", "put", "relist", "delete", "done"}]
        /\ todo' \in [Jobs -> SUBSET Docs] /\ failed' \subseteq Jobs /\ faults' \in Nat
    BY DEF Put, PutFails, Done, Fails, Fault, TypeOK
  <2>2. QED
    BY <1>1, <1>2, <2>1 DEF TypeOK
<1>4. NothingLost'
  BY <1>1, <1>2, KeptFiles
<1>5. JobOK(j)'
  <2>1. CASE Put(j, d)
    <3>1. revisions'[d] > 0
      BY <2>1, StoredMore DEF Put
    <3>2. QED
      BY <1>1, <1>2, <2>1, <3>1 DEF Put, Done, JobOK, TypeOK, Of
  <2>2. CASE PutFails(j, d)
    BY <1>1, <1>2, <2>2 DEF PutFails, Fails, JobOK, TypeOK, Of
  <2>3. QED
    BY <2>1, <2>2
<1>6. ASSUME NEW k \in Jobs, k # j
      PROVE  JobOK(k)'
  BY <1>1, <1>2, <1>6, Untouched DEF Put, PutFails, Done, Fails, TypeOK
<1>7. QED
  BY <1>3, <1>4, <1>5, <1>6

\* Listing the keys to delete.
LEMMA RelistInvariant ==
  ASSUME IInv, NEW j \in Jobs, Relist(j)
  PROVE  IInv'
<1> USE DEF IInv
<1>1. TypeOK'
  BY DEF Relist, TypeOK, Of
<1>2. NothingLost'
  BY KeptFiles DEF Relist
<1>3. JobOK(j)'
  BY DEF Relist, JobOK, TypeOK, Of
<1>4. ASSUME NEW k \in Jobs, k # j
      PROVE  JobOK(k)'
  BY <1>4, Untouched DEF Relist, TypeOK
<1>5. QED
  BY <1>1, <1>2, <1>3, <1>4

\* Deleting one of them.
LEMMA DeleteInvariant ==
  ASSUME IInv, NEW j \in Jobs, NEW d \in Docs, Delete(j, d) \/ DeleteFails(j, d)
  PROVE  IInv'
<1> USE DEF IInv
<1>1. /\ files' \in {files, files \ {d}} /\ torn' = torn \cap files'
      /\ d \in todo[j] /\ stage[j] = "delete"
      /\ UNCHANGED <<revisions, listed, starts>>
  BY DEF Delete, DeleteFails, TypeOK
<1>2. TypeOK'
  BY <1>1 DEF Delete, DeleteFails, Done, Fails, Fault, TypeOK
<1>3. NothingLost'
  BY <1>1, DeletedStored, LostFile, KeptFiles
<1>4. JobOK(j)'
  <2>1. CASE Delete(j, d)
    BY <1>1, <2>1 DEF Delete, Done, JobOK, TypeOK, Of
  <2>2. CASE DeleteFails(j, d)
    BY <1>1, <2>2 DEF DeleteFails, Fails, JobOK, TypeOK, Of
  <2>3. QED
    BY <2>1, <2>2
<1>5. ASSUME NEW k \in Jobs, k # j
      PROVE  JobOK(k)'
  BY <1>1, <1>5, Untouched DEF Delete, DeleteFails, Done, Fails, TypeOK
<1>6. QED
  BY <1>2, <1>3, <1>4, <1>5

\* A directory that cannot be read.
LEMMA ListFailsInvariant ==
  ASSUME IInv, NEW j \in Jobs, ListFails(j)
  PROVE  IInv'
<1> USE DEF IInv
<1>1. TypeOK'
  BY DEF ListFails, Fault, TypeOK
<1>2. NothingLost'
  BY KeptFiles DEF ListFails
<1>3. JobOK(j)'
  BY DEF ListFails, JobOK, Of
<1>4. ASSUME NEW k \in Jobs, k # j
      PROVE  JobOK(k)'
  BY <1>4, Untouched DEF ListFails, TypeOK
<1>5. QED
  BY <1>1, <1>2, <1>3, <1>4

\* Starting again.
LEMMA BeginInvariant ==
  ASSUME IInv, NEW i \in Instances, Crash(i) \/ Restart(i)
  PROVE  IInv'
<1> USE DEF IInv
<1>1. Begin(i) /\ faults' \in Nat
  BY DEF Crash, Restart, Fault, TypeOK
<1>2. TypeOK'
  BY <1>1 DEF Begin, TypeOK
<1>3. NothingLost'
  BY <1>1, KeptFiles DEF Begin
<1>4. ASSUME NEW k \in Jobs
      PROVE  JobOK(k)'
  <2>1. CASE k[1] = i
    BY <1>1, <2>1 DEF Begin, JobOK
  <2>2. CASE k[1] # i
    BY <1>1, <2>2, Untouched DEF Begin
  <2>3. QED
    BY <2>1, <2>2
<1>5. QED
  BY <1>2, <1>3, <1>4

\* Every step keeps the invariant.
LEMMA NextInvariant == IInv /\ [Next]_vars => IInv'
<1> SUFFICES ASSUME IInv, [Next]_vars
             PROVE  IInv'
  OBVIOUS
<1>1. CASE UNCHANGED vars
  BY <1>1 DEF vars, IInv, TypeOK, NothingLost, JobOK, Of
<1>2. ASSUME NEW j \in Jobs, JobStep(j)
      PROVE  IInv'
  BY <1>2, ListInvariant, ReadInvariant, PutInvariant, RelistInvariant,
     DeleteInvariant, ListFailsInvariant DEF JobStep
<1>3. ASSUME NEW i \in Instances, Crash(i) \/ Restart(i)
      PROVE  IInv'
  BY <1>3, BeginInvariant
<1>4. QED
  BY <1>1, <1>2, <1>3 DEF Next

\* The invariant holds in every reachable state.
LEMMA Invariant == Spec => []IInv
<1>1. QED
  BY InitInvariant, NextInvariant, PTL DEF Spec

-----------------------------------------------------------------------------
(* Theorems.                                                               *)

\* Every reachable state is well typed; the text storage holds no key twice.
THEOREM MigrationTypeCorrect == Spec => []TypeOK
<1>1. IInv => TypeOK
  BY DEF IInv
<1>2. QED
  BY <1>1, Invariant, PTL

\* Whatever fails or starts again, every document is in its file or in Mongo.
THEOREM MigrationLosesNothing == Spec => []NothingLost
<1>1. IInv => NothingLost
  BY DEF IInv
<1>2. QED
  BY <1>1, Invariant, PTL

\* A set-up that has ended well leaves all documents in Mongo and no file.
THEOREM ReadyIsComplete == Spec => []ReadyComplete
<1>1. IInv => ReadyComplete
  <2> SUFFICES ASSUME IInv, NEW i \in Instances, Ready(i)
               PROVE  files = {} /\ \A d \in Docs : revisions[d] > 0
    BY DEF ReadyComplete
  <2>1. ASSUME NEW d \in Docs
        PROVE  d \notin files
    <3> DEFINE j == <<i, StoreOf[d]>>
    <3>1. j \in Jobs /\ d \in Of(j)
      BY DEF Jobs, Of
    <3>2. stage[j] = "done"
      BY DEF Ready
    <3>3. QED
      BY <3>1, <3>2 DEF IInv, JobOK
  <2>2. QED
    BY <2>1 DEF IInv, NothingLost, TypeOK
<1>2. QED
  BY <1>1, Invariant, PTL

\* The migration implements DocumentMove: a document is copied before its file
\* goes, and nothing else happens to either.
THEOREM MigrationMoves == Spec => MovesDocuments
<1> DEFINE stored == {d \in Docs : revisions[d] > 0}
<1>1. Init => Moved!MoveInit
  BY DEF Init, Moved!MoveInit
<1>2. ASSUME IInv, [Next]_vars
      PROVE  [\E d \in Docs : Moved!Copy(d) \/ Moved!Remove(d)]_Moved!moveVars
  <2> USE DEF Moved!moveVars
  <2>1. CASE UNCHANGED <<files, revisions>>
    BY <2>1
  <2>2. ASSUME NEW j \in Jobs, NEW d \in Docs, Put(j, d) \/ PutFails(j, d)
        PROVE  [\E e \in Docs : Moved!Copy(e) \/ Moved!Remove(e)]_Moved!moveVars
    <3>1. UNCHANGED files /\ revisions' \in {revisions, Stored(d)}
      BY <2>2 DEF Put, PutFails
    <3>2. CASE revisions[d] > 0
      <4>1. stored' = stored
        BY <1>2, <3>1, <3>2, StoredMore DEF IInv
      <4>2. QED
        BY <3>1, <4>1
    <3>3. CASE ~(revisions[d] > 0) /\ revisions' = Stored(d)
      <4>1. d \in files
        BY <1>2, <3>3 DEF IInv, NothingLost
      <4>2. stored' = stored \cup {d}
        BY <1>2, <3>3, StoredMore DEF IInv
      <4>3. Moved!Copy(d)
        BY <3>1, <4>1, <4>2 DEF Moved!Copy
      <4>4. QED
        BY <4>3
    <3>4. QED
      BY <2>1, <3>1, <3>2, <3>3
  <2>3. ASSUME NEW j \in Jobs, NEW d \in Docs, Delete(j, d) \/ DeleteFails(j, d)
        PROVE  [\E e \in Docs : Moved!Copy(e) \/ Moved!Remove(e)]_Moved!moveVars
    <3>1. UNCHANGED revisions /\ files' \in {files, files \ {d}} /\ d \in todo[j] /\ stage[j] = "delete"
      BY <2>3 DEF Delete, DeleteFails
    <3>2. CASE files' = files \ {d} /\ d \in files
      <4>1. d \in stored
        BY <1>2, <3>1, <3>2, DeletedStored
      <4>2. Moved!Remove(d)
        BY <3>1, <3>2, <4>1 DEF Moved!Remove
      <4>3. QED
        BY <4>2
    <3>3. CASE files' = files
      BY <2>1, <3>1, <3>3
    <3>4. QED
      BY <3>1, <3>2, <3>3
  <2>4. ASSUME NEW j \in Jobs, JobStep(j)
        PROVE  [\E e \in Docs : Moved!Copy(e) \/ Moved!Remove(e)]_Moved!moveVars
    BY <2>1, <2>2, <2>3, <2>4 DEF JobStep, List, ListFails, Relist, Read, ReadFails
  <2>5. CASE UNCHANGED vars \/ \E i \in Instances : Crash(i) \/ Restart(i)
    <3>1. UNCHANGED <<files, revisions>>
      BY <2>5 DEF vars, Crash, Restart, Begin
    <3>2. QED
      BY <2>1, <3>1
  <2>6. QED
    BY <1>2, <2>4, <2>5 DEF Next
<1>3. QED
  BY <1>1, <1>2, Invariant, PTL DEF Spec, MovesDocuments, Moved!MoveSpec

-----------------------------------------------------------------------------
(* How often a document is stored.                                         *)

\* Instance i may still put d in the set-up it is in: it will find the file, it
\* has listed it, or its put is outstanding.
MayPut(i, d) ==
  LET j == <<i, StoreOf[d]>>
  IN \/ stage[j] = "list" /\ d \in files
     \/ stage[j] = "read" /\ d \in listed[j]
     \/ stage[j] = "put" /\ d \in todo[j]

Putters(d) == {i \in Instances : MayPut(i, d)}

\* Each set-up is good for one put: those that have been made and those to come
\* are no more than the set-ups begun.
Accounted == \A d \in Docs : revisions[d] + Cardinality(Putters(d)) <= starts

\* The instances that may put a document can be counted.
LEMMA PuttersFinite ==
  ASSUME NEW d \in Docs
  PROVE  /\ IsFiniteSet(Putters(d)) /\ Cardinality(Putters(d)) \in Nat
         /\ IsFiniteSet(Putters(d)') /\ Cardinality(Putters(d)') \in Nat
<1>1. Putters(d) \subseteq Instances /\ Putters(d)' \subseteq Instances
  BY DEF Putters
<1>2. IsFiniteSet(Putters(d)) /\ IsFiniteSet(Putters(d)')
  BY <1>1, FS_Subset
<1> QED
  BY <1>2, FS_CardinalityType

\* A step that stores nothing and lets nobody in.
LEMMA NoPut ==
  ASSUME TypeOK, Accounted, NEW d \in Docs,
         revisions'[d] = revisions[d], starts' = starts,
         \A i \in Instances : MayPut(i, d)' => MayPut(i, d)
  PROVE  revisions'[d] + Cardinality(Putters(d)') <= starts'
<1>1. Putters(d)' \subseteq Putters(d)
  BY DEF Putters
<1>2. Cardinality(Putters(d)') <= Cardinality(Putters(d))
  BY <1>1, PuttersFinite, FS_Subset
<1>3. revisions[d] \in Nat /\ starts \in Nat /\ revisions[d] + Cardinality(Putters(d)) <= starts
  BY DEF TypeOK, Accounted
<1> QED
  BY <1>2, <1>3, PuttersFinite

\* A put uses up the turn of the instance that makes it.
LEMMA OnePut ==
  ASSUME TypeOK, Accounted, NEW d \in Docs, NEW i \in Instances,
         revisions'[d] \in {revisions[d], revisions[d] + 1, 1}, starts' = starts,
         MayPut(i, d), ~MayPut(i, d)',
         \A k \in Instances : MayPut(k, d)' => MayPut(k, d)
  PROVE  revisions'[d] + Cardinality(Putters(d)') <= starts'
<1>1. Putters(d)' \subseteq Putters(d) \ {i} /\ i \in Putters(d)
  BY DEF Putters
<1>2. Cardinality(Putters(d) \ {i}) = Cardinality(Putters(d)) - 1 /\ IsFiniteSet(Putters(d) \ {i})
  BY <1>1, PuttersFinite, FS_RemoveElement
<1>3. Cardinality(Putters(d)') <= Cardinality(Putters(d)) - 1
  BY <1>1, <1>2, FS_Subset
<1>4. revisions[d] \in Nat /\ starts \in Nat /\ revisions[d] + Cardinality(Putters(d)) <= starts
  BY DEF TypeOK, Accounted
<1>5. revisions'[d] \in Nat /\ revisions'[d] <= revisions[d] + 1
  BY <1>4
<1> QED
  BY <1>3, <1>4, <1>5, PuttersFinite

\* A set-up that begins lets one instance in.
LEMMA OneStart ==
  ASSUME TypeOK, Accounted, NEW d \in Docs, NEW i \in Instances,
         revisions' = revisions, starts' = starts + 1,
         \A k \in Instances : k # i /\ MayPut(k, d)' => MayPut(k, d)
  PROVE  revisions'[d] + Cardinality(Putters(d)') <= starts'
<1>1. Putters(d)' \subseteq Putters(d) \cup {i}
  BY DEF Putters
<1>2. /\ IsFiniteSet(Putters(d) \cup {i})
      /\ Cardinality(Putters(d) \cup {i}) \in {Cardinality(Putters(d)), Cardinality(Putters(d)) + 1}
  BY PuttersFinite, FS_AddElement
<1>3. Cardinality(Putters(d)') <= Cardinality(Putters(d)) + 1
  <2>1. Cardinality(Putters(d)') <= Cardinality(Putters(d) \cup {i})
    BY <1>1, <1>2, FS_Subset
  <2> QED
    BY <1>2, <2>1, PuttersFinite
<1>4. revisions[d] \in Nat /\ starts \in Nat /\ revisions[d] + Cardinality(Putters(d)) <= starts
  BY DEF TypeOK, Accounted
<1> QED
  BY <1>3, <1>4, PuttersFinite

\* At first every instance may put what has a file, and nothing else has to be.
LEMMA InitAccounted == Instances # {} /\ Init => Accounted
<1> SUFFICES ASSUME Instances # {}, Init, NEW d \in Docs
             PROVE  revisions[d] + Cardinality(Putters(d)) <= starts
  BY DEF Accounted
<1>1. Cardinality(Instances) \in Nat /\ Cardinality(Instances) # 0 /\ starts = Cardinality(Instances)
  BY FS_CardinalityType, FS_EmptySet DEF Init
<1>2. CASE d \in files
  <2>1. revisions[d] = 0 /\ Putters(d) \subseteq Instances
    BY <1>2 DEF Init, Putters
  <2>2. Cardinality(Putters(d)) <= Cardinality(Instances)
    BY <2>1, FS_Subset
  <2> QED
    BY <1>1, <2>1, <2>2, PuttersFinite
<1>3. CASE d \notin files
  <2>1. revisions[d] = 1 /\ Putters(d) = {}
    BY <1>3 DEF Init, Putters, MayPut, Jobs
  <2>2. Cardinality(Putters(d)) = 0
    BY <2>1, FS_EmptySet
  <2> QED
    BY <1>1, <2>1, <2>2
<1> QED
  BY <1>2, <1>3

\* A migration that does not put, and others that have lost a file, let nobody in.
LEMMA StepAccounted ==
  ASSUME IInv, Accounted, NEW j \in Jobs, JobStep(j), UNCHANGED <<revisions, starts>>,
         files' \subseteq files,
         \A k \in Jobs : k # j => stage'[k] = stage[k] /\ listed'[k] = listed[k] /\ todo'[k] = todo[k],
         \A d \in Of(j) :
           \/ stage'[j] \in {"relist", "delete", "done"}
           \/ stage'[j] = "list" /\ stage[j] = "list"
           \/ stage'[j] = "read" /\ stage[j] = "list" /\ (d \in listed'[j] => d \in files)
           \/ stage'[j] = "read" /\ stage[j] = "read" /\ listed'[j] = listed[j]
           \/ stage'[j] = "put" /\ stage[j] = "read" /\ todo'[j] = listed[j]
           \/ stage'[j] = "put" /\ stage[j] = "put" /\ todo'[j] \subseteq todo[j]
  PROVE  Accounted'
<1> SUFFICES ASSUME NEW d \in Docs
             PROVE  revisions'[d] + Cardinality(Putters(d)') <= starts'
  BY DEF Accounted
<1>1. ASSUME NEW i \in Instances, MayPut(i, d)'
      PROVE  MayPut(i, d)
  <2> DEFINE k == <<i, StoreOf[d]>>
  <2>1. k \in Jobs /\ d \in Of(k)
    BY DEF Jobs, Of
  <2>2. CASE k # j
    BY <1>1, <2>1, <2>2 DEF MayPut
  <2>3. CASE k = j
    BY <1>1, <2>1, <2>3 DEF MayPut
  <2> QED
    BY <2>2, <2>3
<1> QED
  BY <1>1, NoPut DEF IInv

\* A put is accounted for by the instance that makes it.
LEMMA PutAccounted ==
  ASSUME IInv, Accounted, NEW j \in Jobs, NEW e \in Docs, Put(j, e) \/ PutFails(j, e)
  PROVE  Accounted'
<1> SUFFICES ASSUME NEW d \in Docs
             PROVE  revisions'[d] + Cardinality(Putters(d)') <= starts'
  BY DEF Accounted
<1>1. /\ stage[j] = "put" /\ e \in todo[j] /\ UNCHANGED <<files, listed, starts>>
      /\ revisions' \in {revisions, Stored(e)}
  BY DEF Put, PutFails
<1>2. /\ \A k \in Jobs : k # j => stage'[k] = stage[k] /\ todo'[k] = todo[k]
      /\ \/ stage'[j] = "put" /\ todo'[j] = todo[j] \ {e}
         \/ stage'[j] = "relist"
  BY DEF Put, PutFails, Done, Fails, IInv, TypeOK
<1>3. PICK i \in Instances : j = <<i, StoreOf[e]>>
  BY <1>1 DEF Jobs, IInv, JobOK, Of
<1>4. ASSUME NEW n \in Instances, MayPut(n, d)'
      PROVE  MayPut(n, d) /\ ~(n = i /\ d = e)
  <2> DEFINE k == <<n, StoreOf[d]>>
  <2>1. k \in Jobs
    BY DEF Jobs
  <2>2. CASE k # j
    BY <1>1, <1>2, <1>3, <1>4, <2>1, <2>2 DEF MayPut
  <2>3. CASE k = j
    BY <1>1, <1>2, <1>4, <2>1, <2>3 DEF MayPut
  <2> QED
    BY <2>2, <2>3
<1>5. CASE d = e
  <2>1. MayPut(i, d)
    BY <1>1, <1>3, <1>5 DEF MayPut
  <2>2. revisions'[d] \in {revisions[d], revisions[d] + 1, 1}
    BY <1>1, <1>5 DEF Stored, IInv, TypeOK
  <2> QED
    BY <1>1, <1>4, <1>5, <2>1, <2>2, OnePut DEF IInv
<1>6. CASE d # e
  <2>1. revisions'[d] = revisions[d]
    BY <1>1, <1>6 DEF Stored, IInv, TypeOK
  <2> QED
    BY <1>1, <1>4, <2>1, NoPut DEF IInv
<1> QED
  BY <1>5, <1>6

\* Every step keeps the account.
LEMMA NextAccounted == IInv /\ Accounted /\ [Next]_vars => Accounted'
<1> SUFFICES ASSUME IInv, Accounted, [Next]_vars
             PROVE  Accounted'
  OBVIOUS
<1> USE DEF IInv
<1>1. CASE UNCHANGED vars
  BY <1>1 DEF vars, Accounted, Putters, MayPut
<1>2. ASSUME NEW j \in Jobs, JobStep(j)
      PROVE  Accounted'
  <2>1. CASE List(j)
    BY <1>2, <2>1, StepAccounted DEF List, TypeOK, Of
  <2>2. CASE Relist(j)
    BY <1>2, <2>2, StepAccounted DEF Relist, TypeOK
  <2>3. CASE ListFails(j)
    BY <1>2, <2>3, StepAccounted DEF ListFails
  <2>4. ASSUME NEW d \in Docs, Read(j, d) \/ ReadFails(j, d)
        PROVE  Accounted'
    BY <1>2, <2>4, StepAccounted DEF Read, ReadFails, Done, Fails, TypeOK
  <2>5. ASSUME NEW d \in Docs, Delete(j, d) \/ DeleteFails(j, d)
        PROVE  Accounted'
    BY <1>2, <2>5, StepAccounted DEF Delete, DeleteFails, Done, Fails, TypeOK
  <2> QED
    BY <1>2, <2>1, <2>2, <2>3, <2>4, <2>5, PutAccounted DEF JobStep
<1>3. ASSUME NEW i \in Instances, Crash(i) \/ Restart(i)
      PROVE  Accounted'
  <2>1. Begin(i)
    BY <1>3 DEF Crash, Restart
  <2>2. ASSUME NEW d \in Docs, NEW k \in Instances, k # i, MayPut(k, d)'
        PROVE  MayPut(k, d)
    <3>1. <<k, StoreOf[d]>> \in Jobs /\ <<k, StoreOf[d]>>[1] # i
      BY <2>2 DEF Jobs
    <3> QED
      BY <2>1, <2>2, <3>1 DEF Begin, MayPut
  <2> QED
    BY <2>1, <2>2, OneStart DEF Begin, Accounted
<1> QED
  BY <1>1, <1>2, <1>3 DEF Next

\* Interrupted starts and other instances are the only reason for a document to be
\* stored again: each start of a service adds one revision at most, however calls
\* fail and whatever they have done when they fail.
THEOREM OneRevisionPerStart == Instances # {} => (Spec => []RevisionPerStart)
<1> SUFFICES ASSUME Instances # {}
             PROVE  Spec => []RevisionPerStart
  OBVIOUS
<1>1. Init => Accounted
  BY InitAccounted
<1>2. IInv /\ Accounted => RevisionPerStart
  <2> SUFFICES ASSUME IInv, Accounted, NEW d \in Docs
               PROVE  revisions[d] <= starts
    BY DEF RevisionPerStart
  <2>1. revisions[d] \in Nat /\ starts \in Nat /\ revisions[d] + Cardinality(Putters(d)) <= starts
    BY DEF IInv, TypeOK, Accounted
  <2> QED
    BY <2>1, PuttersFinite
<1> QED
  BY <1>1, <1>2, NextAccounted, Invariant, PTL DEF Spec
=============================================================================
