------------------------- MODULE NodeRegistry_proofs -------------------------
(***************************************************************************)
(* Proofs about NodeRegistry, for all sets of names, keys, publications    *)
(* and deletions, with crashes.                                            *)
(***************************************************************************)
EXTENDS MCNodeRegistry, TLAPS

USE RegistryAssumption

-----------------------------------------------------------------------------
(* Type correctness.                                                       *)

\* The storage starts empty and well typed.
LEMMA InitType == Init => TypeOK
  BY DEF Init, TypeOK, Deleting

\* Every step keeps the types.
LEMMA NextType == TypeOK /\ [Next]_vars => TypeOK'
<1> SUFFICES ASSUME TypeOK, [Next]_vars
             PROVE  TypeOK'
  OBVIOUS
<1> USE DEF TypeOK, storage, publicationVars, deletionVars, Deleting, Listed
<1>1. CASE Crash
  BY <1>1 DEF Crash
<1>2. ASSUME NEW p \in Publications, Publish(p)
      PROVE  TypeOK'
  BY <1>2 DEF Publish, Go
<1>3. ASSUME NEW p \in Publications, ListKeys(p)
      PROVE  TypeOK'
  BY <1>3 DEF ListKeys, Go
<1>4. ASSUME NEW p \in Publications, Accept(p)
      PROVE  TypeOK'
  BY <1>4 DEF Accept, Go
<1>5. ASSUME NEW p \in Publications, Reject(p)
      PROVE  TypeOK'
  BY <1>5 DEF Reject, Go
<1>6. ASSUME NEW p \in Publications, OpenFile(p)
      PROVE  TypeOK'
  BY <1>6 DEF OpenFile, Go
<1>7. ASSUME NEW p \in Publications, WriteFile(p)
      PROVE  TypeOK'
  BY <1>7 DEF WriteFile, Go
<1>8. ASSUME NEW p \in Publications, AddRevision(p)
      PROVE  TypeOK'
  BY <1>8 DEF AddRevision, Go
<1>9. ASSUME NEW p \in Publications, NEW i \in Info, ReadNode(p, i)
      PROVE  TypeOK'
  BY <1>9 DEF ReadNode, Go
<1>10. ASSUME NEW a \in Deletions, DeleteAllNodes(a)
      PROVE  TypeOK'
  BY <1>10 DEF DeleteAllNodes, Becomes
<1>11. ASSUME NEW a \in Deletions, ListFiles(a)
      PROVE  TypeOK'
  BY <1>11 DEF ListFiles, Becomes
<1>12. ASSUME NEW a \in Deletions, DropBucket(a)
      PROVE  TypeOK'
  BY <1>12 DEF DropBucket, Becomes
<1>13. ASSUME NEW a \in Deletions, NEW i \in Info, DeleteNode(a, i)
      PROVE  TypeOK'
  BY <1>13 DEF DeleteNode, Becomes
<1>14. ASSUME NEW a \in Deletions, NEW i \in Info, FindRevision(a, i)
      PROVE  TypeOK'
  BY <1>14 DEF FindRevision, Becomes
<1>15. ASSUME NEW a \in Deletions, NEW i \in Info, RemoveNode(a, i)
      PROVE  TypeOK'
  <2>1. CASE Missing(a, i)
    BY <1>15, <2>1 DEF RemoveNode, Becomes
  <2>2. CASE ~Missing(a, i)
    <3>1. removed[i] < added[i]
      BY <2>2 DEF Missing
    <3>2. removed' = [removed EXCEPT ![i] = @ + 1] /\ torn' = torn \ {i} /\ gone' = gone \cup {i}
      BY <1>15, <2>2 DEF RemoveNode
    <3>3. apc' = [apc EXCEPT ![a] = "done"]
      BY <1>15, <2>2 DEF RemoveNode, Becomes
    <3>4. /\ UNCHANGED <<storageType, added, pc, info, seen, toRead, before, found, crashes>>
          /\ targets' = [targets EXCEPT ![a] = {}]
      BY <1>15, <2>2 DEF RemoveNode
    <3>5. QED
      BY <3>1, <3>2, <3>3, <3>4
  <2>3. QED
    BY <2>1, <2>2
<1>16. ASSUME NEW a \in Deletions, NEW i \in Info, ClearFile(a, i)
      PROVE  TypeOK'
  <2>1. CASE i \notin Listed
    BY <1>16, <2>1 DEF ClearFile, Becomes
  <2>2. CASE i \in Listed
    <3>1. removed[i] < added[i]
      BY <2>2
    <3>2. removed' = [removed EXCEPT ![i] = @ + 1] /\ torn' = torn \ {i} /\ gone' = gone \cup {i}
      BY <1>16, <2>2 DEF ClearFile
    <3>3. apc' = [apc EXCEPT ![a] = IF apc[a] = "clearing" /\ targets[a] = {i} THEN "done" ELSE apc[a]]
      BY <1>16, <2>2 DEF ClearFile, Becomes
    <3>4. /\ UNCHANGED <<storageType, added, pc, info, seen, toRead, before, found, crashes>>
          /\ targets' = [targets EXCEPT ![a] = @ \ {i}]
      BY <1>16, <2>2 DEF ClearFile
    <3>5. QED
      BY <3>1, <3>2, <3>3, <3>4
  <2>3. QED
    BY <2>1, <2>2
<1>17. CASE UNCHANGED vars
  BY <1>17 DEF vars
<1>18. QED
  BY <1>1, <1>2, <1>3, <1>4, <1>5, <1>6, <1>7, <1>8, <1>9, <1>10, <1>11, <1>12, <1>13, <1>14,
     <1>15, <1>16, <1>17 DEF Next, PublicationStep, DeletionStep

\* Every reachable state is well typed: no revision is deleted twice, and the
\* file storage holds one file per key.
THEOREM RegistryTypeCorrect == Spec => []TypeOK
  BY InitType, NextType, PTL DEF Spec

-----------------------------------------------------------------------------
(* A deleted node info stays deleted.                                      *)

\* The storage of an instance does not change.
LEMMA NextStorage == [Next]_vars => storageType' = storageType
  BY DEF Next, vars, storage, Crash, PublicationStep, Publish, ListKeys, Accept, Reject, OpenFile,
     WriteFile, AddRevision, ReadNode, DeletionStep, DeleteAllNodes, ListFiles, DropBucket,
     DeleteNode, FindRevision, RemoveNode, ClearFile

\* Every step over the file storage keeps what has been deleted out of the listing.
LEMMA NextSticks ==
  ASSUME TypeOK, storageType = "FILE", DeletionSticks, [Next]_vars
  PROVE  DeletionSticks'
<1> USE DEF TypeOK, DeletionSticks, storage, publicationVars, deletionVars, Listed
<1>1. CASE Crash
  BY <1>1 DEF Crash
<1>2. ASSUME NEW p \in Publications, Publish(p)
      PROVE  DeletionSticks'
  BY <1>2 DEF Publish, Go
<1>3. ASSUME NEW p \in Publications, ListKeys(p)
      PROVE  DeletionSticks'
  BY <1>3 DEF ListKeys, Go
<1>4. ASSUME NEW p \in Publications, Accept(p)
      PROVE  DeletionSticks'
  BY <1>4 DEF Accept, Go
<1>5. ASSUME NEW p \in Publications, Reject(p)
      PROVE  DeletionSticks'
  BY <1>5 DEF Reject, Go
<1>6. ASSUME NEW p \in Publications, OpenFile(p)
      PROVE  DeletionSticks'
  BY <1>6 DEF OpenFile, Go
<1>7. ASSUME NEW p \in Publications, WriteFile(p)
      PROVE  DeletionSticks'
  BY <1>7 DEF WriteFile, Go
<1>8. ASSUME NEW p \in Publications, AddRevision(p)
      PROVE  DeletionSticks'
  BY <1>8 DEF AddRevision, Go
<1>9. ASSUME NEW p \in Publications, NEW i \in Info, ReadNode(p, i)
      PROVE  DeletionSticks'
  BY <1>9 DEF ReadNode, Go
<1>10. ASSUME NEW a \in Deletions, DeleteAllNodes(a)
      PROVE  DeletionSticks'
  BY <1>10 DEF DeleteAllNodes, Becomes
<1>11. ASSUME NEW a \in Deletions, ListFiles(a)
      PROVE  DeletionSticks'
  BY <1>11 DEF ListFiles, Becomes
<1>12. ASSUME NEW a \in Deletions, DropBucket(a)
      PROVE  DeletionSticks'
  BY <1>12 DEF DropBucket, Becomes
<1>13. ASSUME NEW a \in Deletions, NEW i \in Info, DeleteNode(a, i)
      PROVE  DeletionSticks'
  BY <1>13 DEF DeleteNode, Becomes
<1>14. ASSUME NEW a \in Deletions, NEW i \in Info, FindRevision(a, i)
      PROVE  DeletionSticks'
  BY <1>14 DEF FindRevision, Becomes
<1>15. ASSUME NEW a \in Deletions, NEW i \in Info, RemoveNode(a, i)
      PROVE  DeletionSticks'
  BY <1>15 DEF RemoveNode, Becomes
<1>16. ASSUME NEW a \in Deletions, NEW i \in Info, ClearFile(a, i)
      PROVE  DeletionSticks'
  BY <1>16 DEF ClearFile, Becomes
<1>17. CASE UNCHANGED vars
  BY <1>17 DEF vars
<1>18. QED
  BY <1>1, <1>2, <1>3, <1>4, <1>5, <1>6, <1>7, <1>8, <1>9, <1>10, <1>11, <1>12, <1>13, <1>14,
     <1>15, <1>16, <1>17 DEF Next, PublicationStep, DeletionStep

\* With the file storage, what a call has deleted is not in the network map until
\* it is published again, however calls interleave and crash.
THEOREM FileDeletionSticks == Spec => []DeletionSticksInFiles
<1>1. Init => DeletionSticksInFiles
  BY DEF Init, DeletionSticksInFiles, DeletionSticks
<1>2. TypeOK /\ DeletionSticksInFiles /\ [Next]_vars => DeletionSticksInFiles'
  BY NextSticks, NextStorage DEF DeletionSticksInFiles
<1>3. QED
  BY <1>1, <1>2, RegistryTypeCorrect, PTL DEF Spec

-----------------------------------------------------------------------------
(* One key per name, when nobody is impolite.                              *)

\* A polite publication is a publication.
LEMMA PoliteIsNext == PoliteNext => Next
  BY DEF PoliteNext, Next

\* Publications in progress agree on the key of a name.
Courteous == \A p, q \in Publishing : Agree(info[p], info[q])

\* A step that lets no publication in.
LEMMA FewerPublishing ==
  ASSUME Courteous, Publishing' \subseteq Publishing, info' = info
  PROVE  Courteous'
  BY DEF Courteous

\* Polite publications keep it so.
LEMMA NextCourteous == TypeOK /\ Courteous /\ [PoliteNext]_vars => Courteous'
<1> SUFFICES ASSUME TypeOK, Courteous, [PoliteNext]_vars
             PROVE  Courteous'
  OBVIOUS
<1>1. ASSUME NEW p \in Publications, Polite(p), Publish(p)
      PROVE  Courteous'
  <2>1. Publishing' \subseteq Publishing \cup {p} /\ info' = info
    BY <1>1 DEF Publish, Go, Publishing, TypeOK
  <2>2. \A q \in Publishing : Agree(info[q], info[p]) /\ Agree(info[p], info[q])
    BY <1>1 DEF Polite, Agree
  <2> QED
    BY <2>1, <2>2 DEF Courteous, Agree
<1>2. ASSUME NEW p \in Publications, PublicationStep(p)
      PROVE  Courteous'
  <2>1. Publishing' \subseteq Publishing /\ info' = info
    BY <1>2 DEF PublicationStep, ListKeys, Accept, Reject, OpenFile, WriteFile, AddRevision,
       ReadNode, Go, Publishing, TypeOK
  <2> QED
    BY <2>1, FewerPublishing
<1>3. ASSUME NEW a \in Deletions,
             DeleteAllNodes(a) \/ DeletionStep(a) \/ \E i \in Info : DeleteNode(a, i)
      PROVE  Courteous'
  <2>1. UNCHANGED publicationVars
    BY <1>3 DEF DeleteAllNodes, DeletionStep, DeleteNode, ListFiles, DropBucket, FindRevision,
      RemoveNode, ClearFile
  <2> QED
    BY <2>1, FewerPublishing DEF publicationVars, Publishing
<1>4. CASE Crash \/ UNCHANGED vars
  <2>1. Publishing' \subseteq Publishing /\ info' = info
    BY <1>4 DEF Crash, vars, Publishing, TypeOK
  <2> QED
    BY <2>1, FewerPublishing
<1> QED
  BY <1>1, <1>2, <1>3, <1>4 DEF PoliteNext

\* A step that only deletes leaves UniqueKey's strengthening as it is.
LEMMA FewerListed ==
  ASSUME Exclusive, Listed' \subseteq Listed, UNCHANGED <<pc, seen, info>>
  PROVE  Exclusive'
  BY DEF Exclusive, Agree

\* Every step keeps the other keys of a name out of the registry.
LEMMA NextExclusive ==
  ASSUME ~AllowNodeKeyChange
  PROVE  TypeOK /\ Courteous /\ Exclusive /\ [Next]_vars => Exclusive'
<1> SUFFICES ASSUME TypeOK, Courteous, Exclusive, [Next]_vars
             PROVE  Exclusive'
  OBVIOUS
<1> USE DEF TypeOK, Courteous, Publishing, Exclusive, Agree, Listed, Info, storage, publicationVars, deletionVars
<1>1. CASE Crash
  BY <1>1 DEF Crash
<1>2. ASSUME NEW p \in Publications, Publish(p)
      PROVE  Exclusive'
  BY <1>2 DEF Publish, Go
<1>3. ASSUME NEW p \in Publications, ListKeys(p)
      PROVE  Exclusive'
  BY <1>3 DEF ListKeys, Go
<1>4. ASSUME NEW p \in Publications, Accept(p)
      PROVE  Exclusive'
  BY <1>4 DEF Accept, Go, Namesakes
<1>5. ASSUME NEW p \in Publications, Reject(p)
      PROVE  Exclusive'
  BY <1>5 DEF Reject, Go
<1>6. ASSUME NEW p \in Publications, OpenFile(p)
      PROVE  Exclusive'
  BY <1>6 DEF OpenFile, Go
<1>7. ASSUME NEW p \in Publications, WriteFile(p)
      PROVE  Exclusive'
  BY <1>7 DEF WriteFile, Go
<1>8. ASSUME NEW p \in Publications, AddRevision(p)
      PROVE  Exclusive'
  BY <1>8 DEF AddRevision, Go
<1>9. ASSUME NEW p \in Publications, NEW i \in Info, ReadNode(p, i)
      PROVE  Exclusive'
  BY <1>9 DEF ReadNode, Go
<1>10. ASSUME NEW a \in Deletions, DeleteAllNodes(a)
      PROVE  Exclusive'
  BY <1>10 DEF DeleteAllNodes, Becomes
<1>11. ASSUME NEW a \in Deletions, ListFiles(a)
      PROVE  Exclusive'
  BY <1>11 DEF ListFiles, Becomes
<1>12. ASSUME NEW a \in Deletions, DropBucket(a)
      PROVE  Exclusive'
  <2>1. Listed' \subseteq Listed
    <3> HIDE DEF Info, Courteous, Exclusive, Publishing
    <3>1. removed' = added /\ added' = added
      BY <1>12 DEF DropBucket
    <3>2. ASSUME NEW i \in Info
          PROVE  ~(added'[i] > removed'[i])
      BY <3>1
    <3>3. QED
      BY <3>2
  <2>2. UNCHANGED <<pc, seen, info>>
    BY <1>12 DEF DropBucket
  <2>3. QED
    BY <2>1, <2>2, FewerListed
<1>13. ASSUME NEW a \in Deletions, NEW i \in Info, DeleteNode(a, i)
      PROVE  Exclusive'
  BY <1>13 DEF DeleteNode, Becomes
<1>14. ASSUME NEW a \in Deletions, NEW i \in Info, FindRevision(a, i)
      PROVE  Exclusive'
  BY <1>14 DEF FindRevision, Becomes
<1>15. ASSUME NEW a \in Deletions, NEW i \in Info, RemoveNode(a, i)
      PROVE  Exclusive'
  <2>1. Listed' \subseteq Listed
    BY <1>15 DEF RemoveNode, Missing
  <2>2. UNCHANGED <<pc, seen, info>>
    BY <1>15 DEF RemoveNode
  <2>3. QED
    BY <2>1, <2>2, FewerListed
<1>16. ASSUME NEW a \in Deletions, NEW i \in Info, ClearFile(a, i)
      PROVE  Exclusive'
  <2>1. Listed' \subseteq Listed
    BY <1>16 DEF ClearFile
  <2>2. UNCHANGED <<pc, seen, info>>
    BY <1>16 DEF ClearFile
  <2>3. QED
    BY <2>1, <2>2, FewerListed
<1>17. CASE UNCHANGED vars
  BY <1>17 DEF vars
<1>18. QED
  BY <1>1, <1>2, <1>3, <1>4, <1>5, <1>6, <1>7, <1>8, <1>9, <1>10, <1>11, <1>12, <1>13, <1>14,
     <1>15, <1>16, <1>17 DEF Next, PublicationStep, DeletionStep

\* While nobody publishes a name that is being published with another key, and key
\* changes are not allowed, the list a publication has read misses no node that
\* stands in its way, although nodes are published and deleted and calls are lost in
\* a crash meanwhile.
THEOREM PoliteExclusive == ~AllowNodeKeyChange => (PoliteSpec => []Exclusive)
<1> SUFFICES ASSUME ~AllowNodeKeyChange
             PROVE  PoliteSpec => []Exclusive
  OBVIOUS
<1>1. Init => TypeOK /\ Courteous /\ Exclusive
  BY InitType DEF Init, Courteous, Publishing, Exclusive, Listed
<1>2. TypeOK /\ Courteous /\ Exclusive /\ [PoliteNext]_vars => (TypeOK /\ Courteous /\ Exclusive)'
  BY PoliteIsNext, NextType, NextCourteous, NextExclusive
<1>3. QED
  BY <1>1, <1>2, PTL DEF PoliteSpec

\* So no legal name is ever registered with two keys.
THEOREM PoliteUniqueKey == ~AllowNodeKeyChange => (PoliteSpec => []UniqueKey)
<1> SUFFICES ASSUME ~AllowNodeKeyChange
             PROVE  PoliteSpec => []UniqueKey
  OBVIOUS
<1>1. Exclusive => UniqueKey
  BY DEF Exclusive, UniqueKey
<1>2. QED
  BY <1>1, PoliteExclusive, PTL

-----------------------------------------------------------------------------
(* What is listed can be read.                                             *)

\* A torn file is that of a publication that has opened it, and it has not been
\* deleted since.
TornIsOpen ==
  \A i \in torn : \E p \in Publications :
    info[p] = i /\ pc[p] \in {"writing", "lost"} /\ before[p][i] = removed[i]

\* A step that tears no file, leaves publications that write alone, and deletes
\* only whole files.
LEMMA TornLess ==
  ASSUME TornIsOpen, torn' \subseteq torn, info' = info,
         \A i \in torn' : removed'[i] = removed[i],
         \A p \in Publications : pc[p] \in {"writing", "lost"} =>
           pc'[p] \in {"writing", "lost"} /\ before'[p] = before[p]
  PROVE  TornIsOpen'
  BY DEF TornIsOpen

\* Every step keeps it.
LEMMA NextTorn == TypeOK /\ TornIsOpen /\ [Next]_vars => TornIsOpen'
<1> SUFFICES ASSUME TypeOK, TornIsOpen, [Next]_vars
             PROVE  TornIsOpen'
  OBVIOUS
<1> USE DEF storage, publicationVars, deletionVars
<1>1. CASE Crash \/ UNCHANGED vars
  <2>1. UNCHANGED <<torn, info, removed, before>>
    BY <1>1 DEF Crash, vars
  <2>2. \A p \in Publications : pc[p] \in {"writing", "lost"} => pc'[p] \in {"writing", "lost"}
    BY <1>1 DEF Crash, vars, Publishing
  <2> QED
    BY <2>1, <2>2, TornLess
<1>2. ASSUME NEW p \in Publications,
             Publish(p) \/ ListKeys(p) \/ Accept(p) \/ Reject(p) \/ AddRevision(p)
               \/ \E i \in Info : ReadNode(p, i)
      PROVE  TornIsOpen'
  <2>1. torn' = torn /\ info' = info /\ removed' = removed
    BY <1>2 DEF Publish, ListKeys, Accept, Reject, AddRevision, ReadNode
  <2>2. \A q \in Publications : pc[q] \in {"writing", "lost"} => pc'[q] = pc[q] /\ before'[q] = before[q]
    BY <1>2 DEF TypeOK, Publish, ListKeys, Accept, Reject, AddRevision, ReadNode, Go
  <2> QED
    BY <2>1, <2>2, TornLess
<1>3. ASSUME NEW p \in Publications, OpenFile(p)
      PROVE  TornIsOpen'
  <2>1. /\ torn' = torn \cup {info[p]} /\ info' = info /\ removed' = removed
        /\ pc[p] = "accepted" /\ pc' = [pc EXCEPT ![p] = "writing"]
        /\ before' = [before EXCEPT ![p] = removed]
    BY <1>3 DEF OpenFile, Go
  <2>2. pc'[p] = "writing" /\ before'[p] = removed
    BY <2>1 DEF TypeOK
  <2>3. \A q \in Publications : pc[q] \in {"writing", "lost"} => pc'[q] = pc[q] /\ before'[q] = before[q]
    BY <2>1 DEF TypeOK
  <2> QED
    BY <2>1, <2>2, <2>3 DEF TornIsOpen
<1>4. ASSUME NEW p \in Publications, WriteFile(p)
      PROVE  TornIsOpen'
  <2>1. /\ torn' = IF before[p][info[p]] = removed[info[p]] THEN torn \ {info[p]} ELSE torn
        /\ UNCHANGED <<info, removed, before>>
        /\ pc' = [pc EXCEPT ![p] = "done"]
    BY <1>4 DEF WriteFile, Go
  <2>2. ASSUME NEW i \in torn'
        PROVE  \E q \in Publications :
                 info[q] = i /\ pc'[q] \in {"writing", "lost"} /\ before[q][i] = removed[i]
    <3>1. i \in torn
      BY <2>1, <2>2
    <3>2. PICK q \in Publications : info[q] = i /\ pc[q] \in {"writing", "lost"} /\ before[q][i] = removed[i]
      BY <3>1 DEF TornIsOpen
    <3>3. q # p
      BY <2>1, <2>2, <3>2
    <3> QED
      BY <2>1, <3>2, <3>3 DEF TypeOK
  <2> QED
    BY <2>1, <2>2 DEF TornIsOpen
<1>5. ASSUME UNCHANGED publicationVars, torn' \subseteq torn, \A i \in torn' : removed'[i] = removed[i]
      PROVE  TornIsOpen'
  BY <1>5, TornLess
<1>6. ASSUME NEW a \in Deletions,
             DeleteAllNodes(a) \/ ListFiles(a)
               \/ \E i \in Info : DeleteNode(a, i) \/ FindRevision(a, i)
      PROVE  TornIsOpen'
  BY <1>5, <1>6 DEF DeleteAllNodes, ListFiles, DeleteNode, FindRevision
<1>7. ASSUME NEW a \in Deletions, DropBucket(a)
      PROVE  TornIsOpen'
  <2>1. torn = {} /\ torn' = torn /\ UNCHANGED publicationVars
    BY <1>7 DEF DropBucket, TypeOK
  <2> QED
    BY <1>5, <2>1
<1>8. ASSUME NEW a \in Deletions, NEW i \in Info, RemoveNode(a, i) \/ ClearFile(a, i)
      PROVE  TornIsOpen'
  <2>1. /\ UNCHANGED publicationVars
        /\ \/ torn' = torn /\ removed' = removed
           \/ torn' = torn \ {i} /\ removed' = [removed EXCEPT ![i] = @ + 1]
    BY <1>8 DEF RemoveNode, ClearFile
  <2> QED
    BY <1>5, <2>1 DEF TypeOK
<1> QED
  BY <1>1, <1>2, <1>3, <1>4, <1>6, <1>7, <1>8 DEF Next, PublicationStep, DeletionStep

\* Every torn file is being written, or was when the service crashed.
LEMMA TornInvariant == Spec => []TornIsOpen
<1>1. Init => TornIsOpen
  BY DEF Init, TornIsOpen
<1> QED
  BY <1>1, NextTorn, RegistryTypeCorrect, PTL DEF Spec

\* So every node of the map can be downloaded, with either storage, unless its file
\* is being written, or was when the service crashed.
THEOREM ListedAlwaysReadable == Spec => []ListedReadable
<1>1. TornIsOpen => ListedReadable
  BY DEF TornIsOpen, ListedReadable, Readable
<1> QED
  BY <1>1, TornInvariant, PTL

-----------------------------------------------------------------------------
(* Publications do not disturb one another.                                *)

\* Whatever a publication has still to read is among what it has listed, and was
\* stored when it was listed.
ReadsListed ==
  \A p \in Publications : pc[p] = "reading" =>
    \A i \in toRead[p] : i \in seen[p] /\ added[i] > before[p][i]

\* A step that takes no revision back and leaves publications that read alone.
LEMMA RevisionsStay ==
  ASSUME TypeOK, TypeOK', ReadsListed,
         \A i \in Info : added'[i] >= added[i],
         \A p \in Publications : pc'[p] = "reading" =>
           pc[p] = "reading" /\ toRead'[p] \subseteq toRead[p] /\ seen'[p] = seen[p] /\ before'[p] = before[p]
  PROVE  ReadsListed'
<1> SUFFICES ASSUME NEW p \in Publications, pc'[p] = "reading", NEW i \in toRead'[p]
             PROVE  i \in seen'[p] /\ added'[i] > before'[p][i]
  BY DEF ReadsListed
<1>1. i \in Info /\ i \in seen[p] /\ added[i] > before[p][i]
  BY DEF ReadsListed, TypeOK
<1>2. added[i] \in Nat /\ added'[i] \in Nat /\ before[p][i] \in Nat
  BY <1>1 DEF TypeOK
<1> QED
  BY <1>1, <1>2

\* Every step keeps it.
LEMMA NextReads == TypeOK /\ TypeOK' /\ ReadsListed /\ [Next]_vars => ReadsListed'
<1> SUFFICES ASSUME TypeOK, TypeOK', ReadsListed, [Next]_vars
             PROVE  ReadsListed'
  OBVIOUS
<1> USE DEF storage, publicationVars, deletionVars
<1>1. \A i \in Info : added[i] \in Nat /\ removed[i] \in Nat /\ removed[i] <= added[i]
  BY DEF TypeOK
<1>2. CASE UNCHANGED vars \/ Crash
  <2>1. UNCHANGED <<added, toRead, seen, before>>
    BY <1>2 DEF vars, Crash
  <2>2. \A p \in Publications : pc'[p] = "reading" => pc[p] = "reading"
    BY <1>2 DEF vars, Crash
  <2> QED
    BY <1>1, <2>1, <2>2, RevisionsStay
<1>3. ASSUME NEW p \in Publications,
             Publish(p) \/ Accept(p) \/ Reject(p) \/ WriteFile(p) \/ AddRevision(p)
      PROVE  ReadsListed'
  <2>1. UNCHANGED <<toRead, seen, before>>
    BY <1>3 DEF Publish, Accept, Reject, WriteFile, AddRevision
  <2>2. added' = added \/ added' = [added EXCEPT ![info[p]] = @ + 1]
    BY <1>3 DEF Publish, Accept, Reject, WriteFile, AddRevision
  <2>3. ASSUME NEW i \in Info
        PROVE  added'[i] >= added[i]
    <3>1. added[i] \in Nat /\ added'[i] \in {added[i], added[i] + 1}
      BY <2>2 DEF TypeOK
    <3> QED
      BY <3>1
  <2>4. \A q \in Publications : pc'[q] = "reading" => pc[q] = "reading"
    BY <1>3 DEF Publish, Accept, Reject, WriteFile, AddRevision, Go, TypeOK
  <2> QED
    BY <2>1, <2>3, <2>4, RevisionsStay
<1>4. ASSUME NEW p \in Publications, ListKeys(p)
      PROVE  ReadsListed'
  BY <1>1, <1>4 DEF ListKeys, Go, Listed, ReadsListed, TypeOK
<1>5. ASSUME NEW p \in Publications, NEW i \in Info, ReadNode(p, i)
      PROVE  ReadsListed'
  <2>1. /\ UNCHANGED <<added, seen, before>>
        /\ \A q \in Publications : toRead'[q] \subseteq toRead[q]
        /\ \A q \in Publications : pc'[q] = "reading" => pc[q] = "reading"
    BY <1>5 DEF ReadNode, Go, TypeOK
  <2> QED
    BY <1>1, <2>1, RevisionsStay
<1>6. ASSUME NEW p \in Publications, OpenFile(p)
      PROVE  ReadsListed'
  <2>1. \A i \in Info : added'[i] >= added[i]
    <3>1. storageType = "FILE" /\ added' = [added EXCEPT ![info[p]] = removed[info[p]] + 1]
      BY <1>6 DEF OpenFile
    <3> QED
      BY <1>1, <3>1 DEF TypeOK
  <2>2. /\ UNCHANGED <<toRead, seen>>
        /\ \A q \in Publications : pc'[q] = "reading" => pc[q] = "reading" /\ before'[q] = before[q]
    BY <1>6 DEF OpenFile, Go, TypeOK
  <2> QED
    BY <2>1, <2>2, RevisionsStay
<1>7. ASSUME NEW a \in Deletions,
             DeleteAllNodes(a) \/ DeletionStep(a) \/ \E i \in Info : DeleteNode(a, i)
      PROVE  ReadsListed'
  <2>1. UNCHANGED <<added, publicationVars>>
    BY <1>7 DEF DeleteAllNodes, DeletionStep, DeleteNode, ListFiles, DropBucket, FindRevision,
      RemoveNode, ClearFile
  <2> QED
    BY <1>1, <2>1, RevisionsStay
<1> QED
  BY <1>2, <1>3, <1>4, <1>5, <1>6, <1>7 DEF Next, PublicationStep

\* Only reading a node fails a publication, and only one that has been deleted since
\* it was listed, or whose file is torn.
LEMMA NextExplained ==
  TypeOK /\ TornIsOpen /\ ReadsListed /\ [Next]_vars => [Explained]_vars
<1> SUFFICES ASSUME TypeOK, TornIsOpen, ReadsListed, [Next]_vars,
                    NEW p \in Publications, pc[p] # "failed", pc'[p] = "failed"
             PROVE  \E i \in seen[p] :
                      \/ removed[i] > before[p][i]
                      \/ /\ storageType = "FILE"
                         /\ \E q \in Publications : info[q] = i /\ pc[q] \in {"writing", "lost"}
  BY DEF Explained
<1>1. \A a \in Deletions :
        DeleteAllNodes(a) \/ DeletionStep(a) \/ (\E i \in Info : DeleteNode(a, i)) => pc' = pc
  BY DEF DeleteAllNodes, DeletionStep, DeleteNode, ListFiles, DropBucket, FindRevision, RemoveNode,
     ClearFile, publicationVars
<1>2. PICK i \in Info : ReadNode(p, i)
  <2>1. \A q \in Publications :
          Publish(q) \/ ListKeys(q) \/ Accept(q) \/ Reject(q) \/ OpenFile(q) \/ WriteFile(q) \/ AddRevision(q)
          => pc'[p] # "failed"
    BY DEF Publish, ListKeys, Accept, Reject, OpenFile, WriteFile, AddRevision, Go, TypeOK
  <2>2. ~Crash /\ ~UNCHANGED vars
    BY DEF Crash, vars
  <2>3. \A q \in Publications, i \in Info : ReadNode(q, i) => q = p
    BY DEF ReadNode, Go, TypeOK
  <2> QED
    BY <1>1, <2>1, <2>2, <2>3 DEF Next, PublicationStep
<1>3. pc[p] = "reading" /\ i \in toRead[p] /\ i \notin Readable
  BY <1>2 DEF ReadNode, Go, TypeOK
<1>4. i \in seen[p] /\ added[i] > before[p][i]
  BY <1>3 DEF ReadsListed
<1>5. CASE i \notin Listed
  BY <1>4, <1>5 DEF Listed, TypeOK
<1>6. CASE i \in torn
  <2>1. storageType = "FILE"
    BY <1>6 DEF TypeOK
  <2> QED
    BY <1>4, <1>6, <2>1 DEF TornIsOpen
<1> QED
  BY <1>3, <1>5, <1>6 DEF Readable

\* A publication that fails does so because a node it had listed was deleted before
\* it was read or, with files, because it was being written.
THEOREM FailuresAreExplained == Spec => NoSpuriousFailure
<1>1. Init => ReadsListed
  BY DEF Init, ReadsListed
<1>2. TypeOK /\ TypeOK' /\ ReadsListed /\ [Next]_vars => ReadsListed'
  BY NextReads
<1> QED
  BY <1>1, <1>2, NextExplained, TornInvariant, RegistryTypeCorrect, PTL DEF Spec, NoSpuriousFailure
=============================================================================
