----------------------- MODULE ParameterUpdates_proofs -----------------------
(***************************************************************************)
(* Proofs about ParameterUpdates, for every set of requests and readers,   *)
(* both storage types and every delay, with crashes and storage faults.    *)
(***************************************************************************)
EXTENDS ParameterUpdates, TLAPS

USE StorageAssumption, BoundsAssumption, AbsentAssumption

\* A lineage is not empty after a request has been appended to it, and ends with
\* that request (Store).
LEMMA AppendLineage ==
  ASSUME NEW p \in Params, NEW r \in Requests
  PROVE  /\ Append(p, r) \in Params
         /\ Append(p, r) # Template
         /\ Last(Append(p, r)) = r
  BY DEF Params, Template, Last

\* What a read of the schedule yields has the type of the revisions it holds.
LEMMA LastOfNext ==
  ASSUME NEW s \in Seq(Update \cup {Torn}), s # <<>>
  PROVE  Len(s) \in DOMAIN s /\ Last(s) = s[Len(s)] /\ Last(s) \in Update \cup {Torn}
  BY DEF Last

\* The schedule keeps its type when a revision is written (Schedule).
LEMMA PutType ==
  ASSUME next \in Seq(Update \cup {Torn}), NEW u \in Update
  PROVE  /\ Put(u) \in Seq(Update \cup {Torn})
         /\ \A i \in DOMAIN Put(u) : Put(u)[i] = u \/ \E j \in DOMAIN next : Put(u)[i] = next[j]
         /\ StorageType = "FILE" => Len(Put(u)) <= 1
<1>1. CASE StorageType = "MONGO"
  <2>1. Put(u) = Append(next, u)
    BY <1>1 DEF Put
  <2>2. Append(next, u) \in Seq(Update \cup {Torn})
    OBVIOUS
  <2>3. ASSUME NEW i \in DOMAIN Append(next, u)
        PROVE  Append(next, u)[i] = u \/ \E j \in DOMAIN next : Append(next, u)[i] = next[j]
    <3>1. i \in 1 .. Len(next) + 1
      BY <2>3
    <3>2. CASE i = Len(next) + 1
      BY <3>2
    <3>3. CASE i \in DOMAIN next
      BY <3>3
    <3>4. QED
      BY <3>1, <3>2, <3>3
  <2>4. QED
    BY <1>1, <2>1, <2>2, <2>3
<1>2. CASE StorageType = "FILE"
  <2>1. Put(u) = <<>> \/ Put(u) = <<u>>
    BY <1>2 DEF Put
  <2>2. <<>> \in Seq(Update \cup {Torn}) /\ Len(<<>>) = 0 /\ DOMAIN <<>> = {}
    OBVIOUS
  <2>3. <<u>> \in Seq(Update \cup {Torn}) /\ Len(<<u>>) = 1 /\ DOMAIN <<u>> = {1} /\ <<u>>[1] = u
    OBVIOUS
  <2>4. CASE Put(u) = <<>>
    BY <2>2, <2>4
  <2>5. CASE Put(u) = <<u>>
    BY <2>3, <2>5
  <2>6. QED
    BY <2>1, <2>4, <2>5
<1>3. QED
  BY <1>1, <1>2

\* Deleting the oldest revision leaves the others (MapClearNext).
LEMMA TailOfNext ==
  ASSUME NEW s \in Seq(Update \cup {Torn}), s # <<>>
  PROVE  /\ Tail(s) \in Seq(Update \cup {Torn})
         /\ Len(Tail(s)) = Len(s) - 1
         /\ \A i \in DOMAIN Tail(s) : \E j \in DOMAIN s : Tail(s)[i] = s[j]
         /\ Head(s) \in Update \cup {Torn}
  OBVIOUS

-----------------------------------------------------------------------------
(* Type correctness.                                                       *)

\* Parameter sets, schedules and the values that stand for none are told apart.
LEMMA Sorts ==
  /\ Template \in Params
  /\ Absent \notin Params /\ Torn \notin Params /\ Absent # Torn
  /\ Torn \notin Update /\ None \notin Update
  /\ \A u \in Update : u.hash \in Params /\ u.deadline \in Nat
  /\ \A p \in Params, d \in Nat : [hash |-> p, deadline |-> d] \in Update
  BY DEF Template, Params, Update

\* The initial state has its types.
LEMMA InitType == Init => TypeOK
  BY Sorts DEF Init, TypeOK, Params, Template, Update, Running, Reading

\* Every step keeps the types.
LEMMA NextType == TypeOK /\ [Next]_vars => TypeOK'
<1> SUFFICES ASSUME TypeOK, [Next]_vars
             PROVE  TypeOK'
  OBVIOUS
<1> USE Sorts DEF TypeOK, persistent, requestVars, readerVars, Running, Reading
<1>1. CASE Tick
  BY <1>1 DEF Tick, Opened
<1>2. CASE Start
  BY <1>2 DEF Start, Opened
<1>3. CASE BootRead
  BY <1>3 DEF BootRead
<1>4. CASE BootStore \/ BootOpen
  BY <1>4 DEF BootStore, BootOpen, Opened
<1>5. CASE BootSwitch
  BY <1>5 DEF BootSwitch, Opened
<1>6. CASE Crash
  BY <1>6 DEF Crash, Opened
<1>7. CASE BootFault
  BY <1>7 DEF BootFault, Opened
<1>8. ASSUME NEW r \in Requests, Call(r)
      PROVE  TypeOK'
  BY <1>8, AppendLineage DEF Call, Go, Opened
<1>9. ASSUME NEW r \in Requests, ProbeNext(r)
      PROVE  TypeOK'
  BY <1>9, AppendLineage DEF ProbeNext, Go, Opened
<1>10. ASSUME NEW r \in Requests, FetchNext(r)
      PROVE  TypeOK'
  <2>1. CASE next # <<>> /\ Last(next) # Torn
    <3>1. Last(next).hash \in Params
      BY <2>1, LastOfNext
    <3>2. QED
      BY <1>10, <2>1, <3>1 DEF FetchNext, Go
  <2>2. CASE ~(next # <<>> /\ Last(next) # Torn)
    BY <1>10, <2>2 DEF FetchNext, Go
  <2>3. QED
    BY <2>1, <2>2
<1>11. ASSUME NEW r \in Requests, ReadCurrent(r)
      PROVE  TypeOK'
  <2>1. CASE current \in stored
    <3>1. current \in Params
      BY <2>1
    <3>2. /\ params' = [params EXCEPT ![r] = current]
          /\ pc' = [pc EXCEPT ![r] = "storing"]
      BY <1>11, <2>1 DEF ReadCurrent, Go
    <3>3. UNCHANGED <<now, stored, current, next, boot, activation, rpc, waiting, update, hash, found, crashes>>
      BY <1>11 DEF ReadCurrent
    <3>4. QED
      BY <3>1, <3>2, <3>3
  <2>2. CASE current \notin stored
    BY <1>11, <2>2 DEF ReadCurrent, Go
  <2>3. QED
    BY <2>1, <2>2
<1>12. ASSUME NEW r \in Requests, Store(r)
      PROVE  TypeOK'
  <2>1. Append(params[r], r) \in Params
    BY AppendLineage
  <2>2. /\ params' = [params EXCEPT ![r] = Append(params[r], r)]
        /\ stored' = stored \cup {Append(params[r], r)}
        /\ pc' = [pc EXCEPT ![r] = "stored"]
        /\ UNCHANGED <<now, current, next, boot, activation, rpc, waiting, update, hash, found, crashes>>
    BY <1>12 DEF Store, Go
  <2>3. QED
    BY <2>1, <2>2
<1>13. ASSUME NEW r \in Requests, OpenCurrent(r)
      PROVE  TypeOK'
  BY <1>13, AppendLineage DEF OpenCurrent, Go, Opened
<1>14. ASSUME NEW r \in Requests, Switch(r)
      PROVE  TypeOK'
  BY <1>14, AppendLineage DEF Switch, Go, Opened
<1>15. ASSUME NEW r \in Requests, OpenNext(r)
      PROVE  TypeOK'
  <2>1. CASE StorageType = "FILE"
    <3>1. <<Torn>> \in Seq(Update \cup {Torn}) /\ Len(<<Torn>>) = 1
      OBVIOUS
    <3>2. QED
      BY <1>15, <2>1, <3>1 DEF OpenNext, Go, Opened
  <2>2. CASE StorageType = "MONGO"
    BY <1>15, <2>2 DEF OpenNext, Go, Opened
  <2>3. QED
    BY <2>1, <2>2
<1>16. ASSUME NEW r \in Requests, Schedule(r)
      PROVE  TypeOK'
  <2> DEFINE u == [hash |-> params[r], deadline |-> activation[r]]
  <2>1. u \in Update
    OBVIOUS
  <2>2. next' = Put(u)
    BY <1>16 DEF Schedule
  <2> HIDE DEF u
  <2>3. /\ next' \in Seq(Update \cup {Torn})
        /\ StorageType = "FILE" => Len(next') <= 1
        /\ StorageType = "MONGO" => \A i \in DOMAIN next' : next'[i] # Torn
    <3>1. u # Torn
      BY <2>1
    <3>2. QED
      BY <2>1, <2>2, <3>1, PutType
  <2>4. QED
    BY <1>16, <2>3 DEF Schedule, Go
<1>17. ASSUME NEW r \in Requests, RequestFault(r)
      PROVE  TypeOK'
  BY <1>17, AppendLineage DEF RequestFault, Go, Opened
<1>18. ASSUME NEW m \in Readers, MapStart(m)
      PROVE  TypeOK'
  BY <1>18 DEF MapStart, Becomes, Opened, Due
<1>19. ASSUME NEW m \in Readers, MapProbeNext(m)
      PROVE  TypeOK'
  BY <1>19 DEF MapProbeNext, Becomes, Opened, Due
<1>20. ASSUME NEW m \in Readers, MapFetchNext(m)
      PROVE  TypeOK'
  <2>1. CASE next # <<>> /\ Last(next) # Torn
    <3>1. Last(next) \in Update
      BY <2>1, LastOfNext
    <3>2. update' \in [Readers -> Update \cup {None}] /\ rpc' = rpc
      <4>1. update' = [update EXCEPT ![m] = Last(next)] /\ rpc' = rpc
        BY <1>20, <2>1 DEF MapFetchNext
      <4>2. QED
        BY <3>1, <4>1
    <3>3. waiting' \in [Readers -> SUBSET {"probe", "fetch", "hash"}]
      BY <1>20 DEF MapFetchNext
    <3>4. \A n \in Readers : rpc'[n] = "writing" => update'[n] \in Update
      BY <1>20, <2>1, <3>1 DEF MapFetchNext
    <3>5. QED
      BY <1>20, <3>2, <3>3, <3>4 DEF MapFetchNext
  <2>2. CASE ~(next # <<>> /\ Last(next) # Torn)
    BY <1>20, <2>2 DEF MapFetchNext, Becomes
  <2>3. QED
    BY <2>1, <2>2
<1>21. ASSUME NEW m \in Readers, MapReadHash(m)
      PROVE  TypeOK'
  <2>1. waiting' \in [Readers -> SUBSET {"probe", "fetch", "hash"}]
    BY <1>21 DEF MapReadHash
  <2>2. CASE current \notin {Absent, Torn}
    <3>1. hash' = [hash EXCEPT ![m] = current] /\ rpc' = rpc
      BY <1>21, <2>2 DEF MapReadHash
    <3>2. current \in Params
      BY <2>2
    <3>3. hash' \in [Readers -> Params]
      BY <3>1, <3>2
    <3>4. QED
      BY <1>21, <2>1, <3>1, <3>3 DEF MapReadHash
  <2>3. CASE current \in {Absent, Torn}
    <3>1. rpc' = [rpc EXCEPT ![m] = "failed"] /\ hash' = hash
      BY <1>21, <2>3 DEF MapReadHash, Becomes
    <3>2. QED
      BY <1>21, <2>1, <3>1 DEF MapReadHash
  <2>4. QED
    BY <2>2, <2>3
<1>22. ASSUME NEW m \in Readers, MapAnswer(m)
      PROVE  TypeOK'
  BY <1>22 DEF MapAnswer, Becomes, Opened, Due
<1>23. ASSUME NEW m \in Readers, MapOpenCurrent(m)
      PROVE  TypeOK'
  BY <1>23 DEF MapOpenCurrent, Becomes, Opened, Due
<1>24. ASSUME NEW m \in Readers, MapSwitch(m)
      PROVE  TypeOK'
  BY <1>24 DEF MapSwitch, Becomes, Opened, Due
<1>25. ASSUME NEW m \in Readers, MapFindNext(m)
      PROVE  TypeOK'
  <2>1. CASE next = <<>>
    BY <1>25, <2>1 DEF MapFindNext, Becomes
  <2>2. CASE next # <<>>
    <3>1. Head(next) \in Update \cup {Torn}
      BY <2>2, TailOfNext
    <3>2. found' \in [Readers -> Update \cup {None, Torn}]
      BY <1>25, <2>2, <3>1 DEF MapFindNext
    <3>3. QED
      BY <1>25, <2>2, <3>2 DEF MapFindNext, Becomes
  <2>3. QED
    BY <2>1, <2>2
<1>26. ASSUME NEW m \in Readers, MapClearNext(m)
      PROVE  TypeOK'
  <2>1. CASE next' = next
    BY <1>26, <2>1 DEF MapClearNext, Becomes
  <2>2. CASE next # <<>> /\ next' = Tail(next)
    <3>1. /\ next' \in Seq(Update \cup {Torn})
          /\ StorageType = "FILE" => Len(next') <= 1
          /\ StorageType = "MONGO" => \A i \in DOMAIN next' : next'[i] # Torn
      BY <2>2, TailOfNext
    <3>2. QED
      BY <1>26, <2>2, <3>1 DEF MapClearNext, Becomes
  <2>3. QED
    BY <1>26, <2>1, <2>2 DEF MapClearNext
<1>27. ASSUME NEW m \in Readers, MapFault(m)
      PROVE  TypeOK'
  BY <1>27 DEF MapFault, Becomes, Opened, Due
<1>28. CASE UNCHANGED vars
  BY <1>28 DEF vars
<1>29. QED
  BY <1>1, <1>2, <1>3, <1>4, <1>5, <1>6, <1>7, <1>8, <1>9, <1>10, <1>11, <1>12, <1>13, <1>14,
     <1>15, <1>16, <1>17, <1>18, <1>19, <1>20, <1>21, <1>22, <1>23, <1>24, <1>25, <1>26, <1>27,
     <1>28 DEF Next, BootStep, RequestStep, MapStep

\* Every reachable state is well typed: in particular the file storage never
\* keeps two revisions of the schedule, and nothing is torn in the Mongo storage.
THEOREM TypeCorrect == Spec => []TypeOK
  BY InitType, NextType, PTL DEF Spec

-----------------------------------------------------------------------------
(* Parameter sets are stored before their hashes are written anywhere.     *)

\* Every step keeps StoredFirst.
LEMMA NextStoredFirst == TypeOK /\ StoredFirst /\ [Next]_vars => StoredFirst'
<1> SUFFICES ASSUME TypeOK, StoredFirst, [Next]_vars
             PROVE  StoredFirst'
  OBVIOUS
<1> USE Sorts DEF TypeOK, StoredFirst, HasStored, persistent, requestVars, readerVars, Running, Reading
<1>1. CASE Tick
  BY <1>1 DEF Tick, Opened
<1>2. CASE Start
  BY <1>2 DEF Start, Opened
<1>3. CASE BootRead
  BY <1>3 DEF BootRead, Opened
<1>4. CASE BootStore \/ BootOpen
  BY <1>4 DEF BootStore, BootOpen, Opened
<1>5. CASE BootSwitch
  BY <1>5 DEF BootSwitch, Opened
<1>6. CASE Crash
  BY <1>6 DEF Crash, Opened
<1>7. CASE BootFault
  BY <1>7 DEF BootFault, Opened
<1>8. ASSUME NEW r \in Requests, Call(r)
      PROVE  StoredFirst'
  BY <1>8 DEF Call, Go, Opened
<1>9. ASSUME NEW r \in Requests, ProbeNext(r)
      PROVE  StoredFirst'
  BY <1>9 DEF ProbeNext, Go, Opened
<1>10. ASSUME NEW r \in Requests, FetchNext(r)
      PROVE  StoredFirst'
  <2>1. \A q \in Requests : pc'[q] \in HasStored => pc[q] \in HasStored /\ params'[q] = params[q]
    <3>1. CASE next # <<>> /\ Last(next) # Torn
      BY <1>10, <3>1 DEF FetchNext, Go
    <3>2. CASE ~(next # <<>> /\ Last(next) # Torn)
      BY <1>10, <3>2 DEF FetchNext, Go
    <3>3. QED
      BY <3>1, <3>2
  <2>2. QED
    BY <1>10, <2>1 DEF FetchNext
<1>11. ASSUME NEW r \in Requests, ReadCurrent(r)
      PROVE  StoredFirst'
  <2>1. \A q \in Requests : pc'[q] \in HasStored => pc[q] \in HasStored /\ params'[q] = params[q]
    <3>1. CASE current \in stored
      BY <1>11, <3>1 DEF ReadCurrent, Go
    <3>2. CASE current \notin stored
      BY <1>11, <3>2 DEF ReadCurrent, Go
    <3>3. QED
      BY <3>1, <3>2
  <2>2. QED
    BY <1>11, <2>1 DEF ReadCurrent
<1>12. ASSUME NEW r \in Requests, Store(r)
      PROVE  StoredFirst'
  BY <1>12 DEF Store, Go, Opened
<1>13. ASSUME NEW r \in Requests, OpenCurrent(r)
      PROVE  StoredFirst'
  BY <1>13 DEF OpenCurrent, Go, Opened
<1>14. ASSUME NEW r \in Requests, Switch(r)
      PROVE  StoredFirst'
  BY <1>14 DEF Switch, Go, Opened
<1>15. ASSUME NEW r \in Requests, OpenNext(r)
      PROVE  StoredFirst'
  <2>1. \A i \in DOMAIN next' : next'[i] = Torn \/ \E j \in DOMAIN next : next'[i] = next[j]
    BY <1>15 DEF OpenNext, Opened
  <2>2. QED
    BY <1>15, <2>1 DEF OpenNext, Go
<1>16. ASSUME NEW r \in Requests, Schedule(r)
      PROVE  StoredFirst'
  <2> DEFINE u == [hash |-> params[r], deadline |-> activation[r]]
  <2>1. u \in Update /\ u.hash = params[r] /\ u.deadline = activation[r]
    BY Sorts
  <2>2. next' = Put(u)
    BY <1>16 DEF Schedule
  <2> HIDE DEF u
  <2>3. \A i \in DOMAIN next' : next'[i] = u \/ \E j \in DOMAIN next : next'[i] = next[j]
    BY <2>1, <2>2, PutType
  <2>4. QED
    BY <1>16, <2>1, <2>3 DEF Schedule, Go
<1>17. ASSUME NEW r \in Requests, RequestFault(r)
      PROVE  StoredFirst'
  BY <1>17 DEF RequestFault, Go, Opened
<1>18. ASSUME NEW m \in Readers, MapStart(m)
      PROVE  StoredFirst'
  BY <1>18 DEF MapStart, Becomes, Opened
<1>19. ASSUME NEW m \in Readers, MapProbeNext(m)
      PROVE  StoredFirst'
  BY <1>19 DEF MapProbeNext, Becomes, Opened
<1>20. ASSUME NEW m \in Readers, MapFetchNext(m)
      PROVE  StoredFirst'
  <2>1. CASE next # <<>> /\ Last(next) # Torn
    <3>1. Len(next) \in DOMAIN next /\ Last(next) = next[Len(next)]
      BY <2>1, LastOfNext
    <3>2. QED
      BY <1>20, <2>1, <3>1 DEF MapFetchNext
  <2>2. CASE ~(next # <<>> /\ Last(next) # Torn)
    BY <1>20, <2>2 DEF MapFetchNext, Becomes
  <2>3. QED
    BY <2>1, <2>2
<1>21. ASSUME NEW m \in Readers, MapReadHash(m)
      PROVE  StoredFirst'
  BY <1>21 DEF MapReadHash, Becomes, Opened
<1>22. ASSUME NEW m \in Readers, MapAnswer(m)
      PROVE  StoredFirst'
  BY <1>22 DEF MapAnswer, Becomes, Opened
<1>23. ASSUME NEW m \in Readers, MapOpenCurrent(m)
      PROVE  StoredFirst'
  BY <1>23 DEF MapOpenCurrent, Becomes, Opened
<1>24. ASSUME NEW m \in Readers, MapSwitch(m)
      PROVE  StoredFirst'
  BY <1>24 DEF MapSwitch, Becomes, Opened
<1>25. ASSUME NEW m \in Readers, MapFindNext(m)
      PROVE  StoredFirst'
  BY <1>25 DEF MapFindNext, Becomes, Opened
<1>26. ASSUME NEW m \in Readers, MapClearNext(m)
      PROVE  StoredFirst'
  <2>1. \A i \in DOMAIN next' : \E j \in DOMAIN next : next'[i] = next[j]
    <3>1. CASE next' = next
      BY <3>1
    <3>2. CASE next # <<>> /\ next' = Tail(next)
      BY <3>2, TailOfNext
    <3>3. QED
      BY <1>26, <3>1, <3>2 DEF MapClearNext
  <2>2. QED
    BY <1>26, <2>1 DEF MapClearNext, Becomes
<1>27. ASSUME NEW m \in Readers, MapFault(m)
      PROVE  StoredFirst'
  BY <1>27 DEF MapFault, Becomes, Opened
<1>28. CASE UNCHANGED vars
  BY <1>28 DEF vars
<1>29. QED
  BY <1>1, <1>2, <1>3, <1>4, <1>5, <1>6, <1>7, <1>8, <1>9, <1>10, <1>11, <1>12, <1>13, <1>14,
     <1>15, <1>16, <1>17, <1>18, <1>19, <1>20, <1>21, <1>22, <1>23, <1>24, <1>25, <1>26, <1>27,
     <1>28 DEF Next, BootStep, RequestStep, MapStep

\* Whoever holds a hash in memory, to write it to a register or to answer it,
\* holds that of a set already stored; so no crash leaves a register with the
\* hash of a set that never was.
THEOREM StoredFirstInvariant == Spec => []StoredFirst
<1>1. Init => StoredFirst
  BY Sorts DEF Init, StoredFirst, HasStored
<1>2. QED
  BY <1>1, NextStoredFirst, TypeCorrect, PTL DEF Spec

\* A node that fetches a hash found in a register or in a map it was given is
\* always answered (getNetworkParameter), across crashes and storage faults.
THEOREM AlwaysDownloadable == Spec => []Downloadable
<1>1. TypeOK /\ StoredFirst => Downloadable
  BY DEF TypeOK, StoredFirst, Downloadable
<1>2. QED
  BY <1>1, StoredFirstInvariant, TypeCorrect, PTL

-----------------------------------------------------------------------------
(* Nothing comes into force before its activation instant.                 *)

\* A parameter set other than the template was made by a request.
LEMMA LastIsRequest ==
  ASSUME NEW p \in Params, p # Template
  PROVE  Last(p) \in Requests
  BY DEF Params, Template, Last

\* A step that calls nothing keeps schedules honest.
LEMMA HonestKept ==
  ASSUME TypeOK, activation' = activation,
         \A q \in Requests : pc'[q] = "idle" => pc[q] = "idle",
         NEW u \in Update, Honest(u)
  PROVE  Honest(u)'
  BY Sorts, LastIsRequest DEF Honest

\* Every step keeps Punctual.
LEMMA NextPunctual == TypeOK /\ Punctual /\ [Next]_vars => Punctual'
<1> SUFFICES ASSUME TypeOK, Punctual, [Next]_vars
             PROVE  Punctual'
  OBVIOUS
<1> USE Sorts DEF TypeOK, Punctual, Honest, HasStored, persistent, requestVars, readerVars, Running, Reading
<1>1. CASE Tick
  BY <1>1 DEF Tick, Opened
<1>2. CASE Start
  BY <1>2 DEF Start, Opened
<1>3. CASE BootRead
  BY <1>3 DEF BootRead, Opened
<1>4. CASE BootStore \/ BootOpen
  BY <1>4 DEF BootStore, BootOpen, Opened
<1>5. CASE BootSwitch
  BY <1>5 DEF BootSwitch, Opened
<1>6. CASE Crash
  <2>1. \A q \in Requests : /\ pc'[q] \in HasStored => pc[q] \in HasStored /\ params'[q] = params[q]
                            /\ pc'[q] = "switching" => pc[q] = "switching"
                            /\ pc'[q] = "idle" => pc[q] = "idle"
    BY <1>6 DEF Crash
  <2>2. \A u \in Update : Honest(u) => Honest(u)'
    BY <1>6, <2>1, HonestKept DEF Crash
  <2>3. QED
    BY <1>6, <2>1, <2>2 DEF Crash
<1>7. CASE BootFault
  BY <1>7 DEF BootFault, Opened
<1>8. ASSUME NEW r \in Requests, Call(r)
      PROVE  Punctual'
  BY <1>8 DEF Call, Go, Opened
<1>9. ASSUME NEW r \in Requests, ProbeNext(r)
      PROVE  Punctual'
  BY <1>9 DEF ProbeNext, Go, Opened
<1>10. ASSUME NEW r \in Requests, FetchNext(r)
      PROVE  Punctual'
  <2>1. \A q \in Requests : /\ pc'[q] \in HasStored => pc[q] \in HasStored /\ params'[q] = params[q]
                            /\ pc'[q] = "switching" => pc[q] = "switching"
                            /\ pc'[q] = "idle" => pc[q] = "idle"
    <3>1. CASE next # <<>> /\ Last(next) # Torn
      BY <1>10, <3>1 DEF FetchNext, Go
    <3>2. CASE ~(next # <<>> /\ Last(next) # Torn)
      BY <1>10, <3>2 DEF FetchNext, Go
    <3>3. QED
      BY <3>1, <3>2
  <2>2. \A u \in Update : Honest(u) => Honest(u)'
    BY <1>10, <2>1, HonestKept DEF FetchNext
  <2>3. QED
    BY <1>10, <2>1, <2>2 DEF FetchNext
<1>11. ASSUME NEW r \in Requests, ReadCurrent(r)
      PROVE  Punctual'
  <2>1. \A q \in Requests : /\ pc'[q] \in HasStored => pc[q] \in HasStored /\ params'[q] = params[q]
                            /\ pc'[q] = "switching" => pc[q] = "switching"
                            /\ pc'[q] = "idle" => pc[q] = "idle"
    BY <1>11 DEF ReadCurrent, Go
  <2>2. \A u \in Update : Honest(u) => Honest(u)'
    BY <1>11, <2>1, HonestKept DEF ReadCurrent
  <2>3. QED
    BY <1>11, <2>1, <2>2 DEF ReadCurrent
<1>12. ASSUME NEW r \in Requests, Store(r)
      PROVE  Punctual'
  <2>1. \A q \in Requests : pc'[q] = "idle" => pc[q] = "idle"
    BY <1>12 DEF Store, Go
  <2>2. \A u \in Update : Honest(u) => Honest(u)'
    BY <1>12, <2>1, HonestKept DEF Store
  <2>3. \A q \in Requests : /\ pc'[q] \in HasStored => params'[q] # Template /\ Last(params'[q]) = q
                            /\ pc'[q] = "switching" => pc[q] = "switching"
    BY <1>12, AppendLineage DEF Store, Go
  <2>4. QED
    BY <1>12, <2>2, <2>3 DEF Store
<1>13. ASSUME NEW r \in Requests, OpenCurrent(r)
      PROVE  Punctual'
  BY <1>13 DEF OpenCurrent, Go, Opened
<1>14. ASSUME NEW r \in Requests, Switch(r)
      PROVE  Punctual'
  BY <1>14 DEF Switch, Go, Opened
<1>15. ASSUME NEW r \in Requests, OpenNext(r)
      PROVE  Punctual'
  <2>1. \A i \in DOMAIN next' : next'[i] = Torn \/ \E j \in DOMAIN next : next'[i] = next[j]
    BY <1>15 DEF OpenNext, Opened
  <2>2. \A q \in Requests : pc'[q] = "idle" => pc[q] = "idle"
    BY <1>15 DEF OpenNext, Go
  <2>3. \A u \in Update : Honest(u) => Honest(u)'
    BY <1>15, <2>2, HonestKept DEF OpenNext
  <2>4. \A i \in DOMAIN next' : next'[i] # Torn => Honest(next[i])'
    BY <2>1, <2>3
  <2>5. QED
    BY <1>15, <2>3, <2>4 DEF OpenNext, Go
<1>16. ASSUME NEW r \in Requests, Schedule(r)
      PROVE  Punctual'
  <2> DEFINE u == [hash |-> params[r], deadline |-> activation[r]]
  <2>1. u \in Update /\ u.hash = params[r] /\ u.deadline = activation[r]
    BY Sorts
  <2>2. next' = Put(u)
    BY <1>16 DEF Schedule
  <2>3. Honest(u)
    BY <1>16, <2>1 DEF Schedule
  <2> HIDE DEF u
  <2>4. \A i \in DOMAIN next' : next'[i] = u \/ \E j \in DOMAIN next : next'[i] = next[j]
    BY <2>1, <2>2, PutType
  <2>5. \A q \in Requests : pc'[q] = "idle" => pc[q] = "idle"
    BY <1>16 DEF Schedule, Go
  <2>6. \A v \in Update : Honest(v) => Honest(v)'
    BY <1>16, <2>5, HonestKept DEF Schedule
  <2>7. \A i \in DOMAIN next' : next'[i] # Torn => Honest(next[i])'
    <3> SUFFICES ASSUME NEW i \in DOMAIN next', next'[i] # Torn
                 PROVE  Honest(next[i])'
      OBVIOUS
    <3> HIDE DEF Honest
    <3>1. CASE next'[i] = u
      BY <2>1, <2>3, <2>6, <3>1 DEF Honest
    <3>2. ASSUME NEW j \in DOMAIN next, next'[i] = next[j]
          PROVE  Honest(next[i])'
      <4>1. next[j] \in Update /\ Honest(next[j])
        BY <3>2
      <4>2. QED
        BY <3>2, <4>1, <2>6 DEF Honest
    <3>3. QED
      BY <2>4, <3>1, <3>2
  <2>8. QED
    BY <1>16, <2>6, <2>7 DEF Schedule, Go
<1>17. ASSUME NEW r \in Requests, RequestFault(r)
      PROVE  Punctual'
  BY <1>17 DEF RequestFault, Go, Opened
<1>18. ASSUME NEW m \in Readers, MapStart(m)
      PROVE  Punctual'
  BY <1>18 DEF MapStart, Becomes, Opened
<1>19. ASSUME NEW m \in Readers, MapProbeNext(m)
      PROVE  Punctual'
  BY <1>19 DEF MapProbeNext, Becomes, Opened
<1>20. ASSUME NEW m \in Readers, MapFetchNext(m)
      PROVE  Punctual'
  <2>1. CASE next # <<>> /\ Last(next) # Torn
    <3>1. Len(next) \in DOMAIN next /\ Last(next) = next[Len(next)]
      BY <2>1, LastOfNext
    <3>2. Honest(Last(next))
      BY <2>1, <3>1
    <3>3. update' = [update EXCEPT ![m] = Last(next)] /\ rpc[m] = "reading"
      BY <1>20, <2>1 DEF MapFetchNext
    <3>4. UNCHANGED <<now, next, pc, activation, params, rpc>>
      BY <1>20, <2>1 DEF MapFetchNext
    <3>5. QED
      BY <3>2, <3>3, <3>4
  <2>2. CASE ~(next # <<>> /\ Last(next) # Torn)
    BY <1>20, <2>2 DEF MapFetchNext, Becomes
  <2>3. QED
    BY <2>1, <2>2
<1>21. ASSUME NEW m \in Readers, MapReadHash(m)
      PROVE  Punctual'
  BY <1>21 DEF MapReadHash, Becomes, Opened
<1>22. ASSUME NEW m \in Readers, MapAnswer(m)
      PROVE  Punctual'
  BY <1>22 DEF MapAnswer, Becomes, Opened
<1>23. ASSUME NEW m \in Readers, MapOpenCurrent(m)
      PROVE  Punctual'
  BY <1>23 DEF MapOpenCurrent, Becomes, Opened, Due
<1>24. ASSUME NEW m \in Readers, MapSwitch(m)
      PROVE  Punctual'
  BY <1>24 DEF MapSwitch, Becomes, Opened
<1>25. ASSUME NEW m \in Readers, MapFindNext(m)
      PROVE  Punctual'
  BY <1>25 DEF MapFindNext, Becomes, Opened
<1>26. ASSUME NEW m \in Readers, MapClearNext(m)
      PROVE  Punctual'
  <2>1. \A i \in DOMAIN next' : \E j \in DOMAIN next : next'[i] = next[j]
    <3>1. CASE next' = next
      BY <3>1
    <3>2. CASE next # <<>> /\ next' = Tail(next)
      BY <3>2, TailOfNext
    <3>3. QED
      BY <1>26, <3>1, <3>2 DEF MapClearNext
  <2>2. QED
    BY <1>26, <2>1 DEF MapClearNext, Becomes
<1>27. ASSUME NEW m \in Readers, MapFault(m)
      PROVE  Punctual'
  BY <1>27 DEF MapFault, Becomes, Opened
<1>28. CASE UNCHANGED vars
  BY <1>28 DEF vars
<1>29. QED
  BY <1>1, <1>2, <1>3, <1>4, <1>5, <1>6, <1>7, <1>8, <1>9, <1>10, <1>11, <1>12, <1>13, <1>14,
     <1>15, <1>16, <1>17, <1>18, <1>19, <1>20, <1>21, <1>22, <1>23, <1>24, <1>25, <1>26, <1>27,
     <1>28 DEF Next, BootStep, RequestStep, MapStep

\* The instant a change was announced for travels with it, from the request to the
\* schedule, to every copy of it a map read holds and to the write of CURRENT.
THEOREM PunctualInvariant == Spec => []Punctual
<1>1. Init => Punctual
  BY Sorts DEF Init, Punctual, HasStored
<1>2. QED
  BY <1>1, NextPunctual, TypeCorrect, PTL DEF Spec

\* No step switches CURRENT to a change before the instant that change was
\* announced for, however requests and map reads interleave.
THEOREM FlagDayHolds == Spec => FlagDay
<1> DEFINE Step == \A r \in Requests :
              current' # current /\ current' \in Params /\ current' # Template /\ Last(current') = r
                => now >= activation[r]
<1>1. TypeOK /\ Punctual /\ [Next]_vars => [Step]_vars
  <2> SUFFICES ASSUME TypeOK, Punctual, Next,
                      NEW r \in Requests, current' # current, current' \in Params,
                      current' # Template, Last(current') = r
               PROVE  now >= activation[r]
    OBVIOUS
  <2>1. \/ \E q \in Requests : Switch(q)
        \/ \E m \in Readers : MapSwitch(m)
    BY Sorts DEF Next, Tick, Start, BootStep, BootRead, BootStore, BootOpen, BootSwitch, Crash, BootFault,
      Call, RequestStep, ProbeNext, FetchNext, ReadCurrent, Store, OpenCurrent, OpenNext, Schedule,
      RequestFault, MapStart, MapStep, MapProbeNext, MapFetchNext, MapReadHash, MapAnswer,
      MapOpenCurrent, MapFindNext, MapClearNext, MapFault, persistent, Opened
  <2>2. ASSUME NEW q \in Requests, Switch(q)
        PROVE  now >= activation[r]
    BY <2>2 DEF Switch, Punctual, HasStored, TypeOK
  <2>3. ASSUME NEW m \in Readers, MapSwitch(m)
        PROVE  now >= activation[r]
    <3>1. update[m] \in Update /\ update[m].deadline <= now
      BY <2>3 DEF MapSwitch, Punctual, TypeOK
    <3>2. Honest(update[m])
      BY <3>1, Sorts DEF Punctual
    <3>3. Last(update[m].hash) = r
      BY <2>3 DEF MapSwitch
    <3>4. QED
      BY <3>1, <3>2, <3>3, Sorts DEF Honest, TypeOK
  <2>4. QED
    BY <2>1, <2>2, <2>3
<1>2. QED
  BY <1>1, PunctualInvariant, TypeCorrect, PTL DEF Spec, FlagDay
=============================================================================
