---------------------- MODULE ConcurrentUpdates_proofs ----------------------
(***************************************************************************)
(* Proofs about the update path where several clients act at once: each    *)
(* theorem assumes only what its promise needs.  Start-up keeps off what   *)
(* has been written (the Mongo storage, without faults); maps are coherent *)
(* (always); requests keep their turn (one at a time); what comes into     *)
(* force has been announced (the Mongo storage, one map read at a time,    *)
(* requests that end in time).                                             *)
(***************************************************************************)
EXTENDS MCParameterUpdates, ParameterUpdates_proofs, FiniteSetTheorems

USE StorageAssumption, BoundsAssumption, AbsentAssumption

\* The discipline only removes behaviours: what holds of Spec holds under it.
LEMMA TimelyIsSpec == TimelySpec => Spec
<1>1. TimelyNext => Next
  BY DEF TimelyNext, Next
<1> QED
  BY <1>1, PTL DEF TimelySpec, Spec

-----------------------------------------------------------------------------
(* Start-up and the template: the Mongo storage without faults, with any   *)
(* number of requests and map reads.                                       *)

Faultless == StorageType = "MONGO" /\ ~StorageFaults

\* Until the template has been written there is nothing to build on: no request
\* gets beyond looking for its base, and no map read finds an update.
Founding ==
  /\ boot \in {"storing", "stored", "switching"} => current = Absent
  /\ current = Absent =>
       /\ next = <<>> /\ stored \subseteq {Template}
       /\ \A r \in Requests : pc[r] \in {"idle", "probing", "fetching", "basing", "failed", "lost"}
       /\ \A m \in Readers : rpc[m] \in {"reading", "writing"} => update[m] = None

\* Every step keeps it: CURRENT is written only by what has found a base.
LEMMA NextFounding == Faultless /\ TypeOK /\ StoredFirst /\ Founding /\ [Next]_vars => Founding'
<1> SUFFICES ASSUME Faultless, TypeOK, StoredFirst, Founding, [Next]_vars
             PROVE  Founding'
  OBVIOUS
<1> USE Sorts DEF TypeOK, Founding, Faultless, persistent, requestVars, readerVars, Running, Reading,
     Opened, Go, Becomes
<1>1. CASE Tick \/ Start
  BY <1>1 DEF Tick, Start
<1>2. CASE BootRead
  BY <1>2 DEF BootRead, StoredFirst
<1>3. CASE BootStore \/ BootOpen \/ BootSwitch
  BY <1>3 DEF BootStore, BootOpen, BootSwitch
<1>4. CASE Crash
  BY <1>4 DEF Crash
<1>5. ASSUME NEW r \in Requests, Call(r) \/ ProbeNext(r)
      PROVE  Founding'
  BY <1>5 DEF Call, ProbeNext
<1>6. ASSUME NEW r \in Requests, FetchNext(r)
      PROVE  Founding'
  <2>1. CASE next # <<>> /\ Last(next) # Torn
    <3>1. current # Absent /\ current' = current /\ boot' = boot
      BY <1>6, <2>1 DEF FetchNext
    <3> QED
      BY <3>1
  <2>2. CASE ~(next # <<>> /\ Last(next) # Torn)
    <3>1. pc' = [pc EXCEPT ![r] = "failed"] /\ UNCHANGED <<stored, current, next, boot, rpc, update>>
      BY <1>6, <2>2 DEF FetchNext
    <3> QED
      BY <3>1
  <2> QED
    BY <2>1, <2>2
<1>7. ASSUME NEW r \in Requests, ReadCurrent(r)
      PROVE  Founding'
  BY <1>7 DEF ReadCurrent
<1>8. ASSUME NEW r \in Requests, Store(r) \/ OpenCurrent(r) \/ Switch(r) \/ OpenNext(r) \/ Schedule(r)
      PROVE  Founding'
  <2>1. /\ pc[r] \in {"storing", "stored", "switching", "scheduling"}
        /\ boot' = boot /\ current' \in {current, params[r]}
    BY <1>8 DEF Store, OpenCurrent, Switch, OpenNext, Schedule
  <2>2. current # Absent
    <3>1. pc[r] \notin {"idle", "probing", "fetching", "basing", "failed", "lost"}
      BY <2>1
    <3> QED
      BY <3>1
  <2>3. params[r] # Absent
    <3>1. params[r] \in Params
      OBVIOUS
    <3> QED
      BY <3>1
  <2> QED
    BY <2>1, <2>2, <2>3
<1>9. ASSUME NEW m \in Readers, MapStart(m) \/ MapProbeNext(m) \/ MapReadHash(m)
      PROVE  Founding'
  BY <1>9 DEF MapStart, MapProbeNext, MapReadHash
<1>10. ASSUME NEW m \in Readers, MapFetchNext(m)
       PROVE  Founding'
  BY <1>10 DEF MapFetchNext
<1>11. ASSUME NEW m \in Readers, MapAnswer(m) \/ MapOpenCurrent(m) \/ MapFindNext(m)
       PROVE  Founding'
  BY <1>11 DEF MapAnswer, MapOpenCurrent, MapFindNext
<1>12. ASSUME NEW m \in Readers, MapSwitch(m)
       PROVE  Founding'
  <2>1. current # Absent /\ current' # Absent /\ boot' = boot
    BY <1>12 DEF MapSwitch
  <2> QED
    BY <2>1
<1>13. ASSUME NEW m \in Readers, MapClearNext(m)
       PROVE  Founding'
  BY <1>13 DEF MapClearNext
<1>14. CASE UNCHANGED vars
  BY <1>14 DEF vars
<1>15. /\ ~BootFault
       /\ \A r \in Requests : ~RequestFault(r)
       /\ \A m \in Readers : ~MapFault(m)
  BY DEF BootFault, RequestFault, MapFault
<1> HIDE DEF Founding, TypeOK, Faultless
<1> QED
  BY <1>1, <1>2, <1>3, <1>4, <1>5, <1>6, <1>7, <1>8, <1>9, <1>10, <1>11, <1>12, <1>13, <1>14, <1>15
    DEF Next, BootStep, RequestStep, MapStep

\* As long as nothing is in force, nothing has been built on it.
THEOREM FoundingInvariant ==
  ASSUME Faultless
  PROVE  Spec => []Founding
<1>1. Init => Founding
  BY DEF Init, Founding
<1> QED
  BY <1>1, NextFounding, TypeCorrect, StoredFirstInvariant, PTL DEF Spec

\* Start-up never replaces parameters by the template: it finds none to read only
\* while no request has stored any, whatever was lost in a crash and however many
\* requests and map reads come while it runs (createNetworkParameters).
THEOREM TemplateAtFirst ==
  ASSUME Faultless
  PROVE  Spec => TemplateOnlyAtFirst
<1>1. TypeOK /\ StoredFirst /\ Founding /\ [Next]_vars
        => [boot = "reading" /\ boot' = "storing" => stored \subseteq {Template}]_vars
  <2> SUFFICES ASSUME TypeOK, StoredFirst, Founding, [Next]_vars, boot = "reading", boot' = "storing"
               PROVE  stored \subseteq {Template}
    OBVIOUS
  <2>1. BootRead
    BY DEF Next, vars, Faultless, Tick, Start, BootStep, BootStore, BootOpen, BootSwitch, Crash, BootFault,
      Call, RequestStep, ProbeNext, FetchNext, ReadCurrent, Store, OpenCurrent, Switch, OpenNext, Schedule,
      RequestFault, MapStart, MapStep, MapProbeNext, MapFetchNext, MapReadHash, MapAnswer,
      MapOpenCurrent, MapSwitch, MapFindNext, MapClearNext, MapFault
  <2>2. current \notin stored
    BY <2>1 DEF BootRead
  <2>3. current = Absent
    BY <2>2 DEF StoredFirst, TypeOK, Faultless
  <2> QED
    BY <2>3 DEF Founding
<1> QED
  BY <1>1, FoundingInvariant, TypeCorrect, StoredFirstInvariant, PTL DEF Spec, TemplateOnlyAtFirst

-----------------------------------------------------------------------------
(* Maps, with any storage and faults, and any requests and map reads at    *)
(* once; then requests one after the other.                                *)

\* One request is in progress at a time.
Alone == \A q, r \in InFlight : q = r

\* What is stored, or about to be, was made by requests that have been called.
Called ==
  /\ \A r \in Requests : pc[r] = "storing" => params[r] \in stored
  /\ \A p \in stored : \A i \in DOMAIN p : pc[p[i]] # "idle"

\* Activation instants follow the order of the calls.
InOrder ==
  /\ \A r \in Requests :
       /\ activation[r] <= now + Delay
       /\ pc[r] \in Running => \A q \in Requests : pc[q] # "idle" => activation[q] <= activation[r]
  /\ InTurn

\* An update carries the instant of its last change, and the last change of
\* parameters that are or were in force has come due.
Exact(u) == u \in Update => u.deadline = activation[Last(u.hash)]
Elapsed(p) == p \in Params /\ p # Template => pc[Last(p)] # "idle" /\ activation[Last(p)] <= now

InTime ==
  /\ \A i \in DOMAIN next : Exact(next[i])
  /\ Elapsed(current)
  /\ \A m \in Readers :
       /\ Exact(update[m]) /\ Elapsed(hash[m])
       /\ rpc[m] \in {"finding", "clearing"} => update[m] = None

\* A request is called only when no other is in progress.
LEMMA NoneBefore ==
  ASSUME MaxInFlight <= 1, Cardinality(InFlight) < MaxInFlight
  PROVE  InFlight = {}
<1>1. InFlight \subseteq Requests
  BY DEF InFlight
<1>2. IsFiniteSet(InFlight)
  BY <1>1, FS_Subset
<1>3. Cardinality(InFlight) = 0
  BY <1>2, FS_CardinalityType
<1> QED
  BY <1>2, <1>3, FS_EmptySet

\* A step other than a call puts no request in progress.
LEMMA FlightShrinks ==
  ASSUME TypeOK, [Next]_vars, \A r \in Requests : ~Call(r)
  PROVE  /\ now' \in Nat /\ now <= now' /\ activation' = activation
         /\ \A q \in Requests : /\ pc'[q] = "idle" <=> pc[q] = "idle"
                                /\ pc'[q] \in Running => pc[q] \in Running
<1> USE DEF TypeOK, requestVars, Running, Go
<1>1. CASE Tick \/ Start \/ BootStep \/ BootFault \/ UNCHANGED vars
  BY <1>1 DEF Tick, Start, BootStep, BootRead, BootStore, BootOpen, BootSwitch, BootFault, vars
<1>2. CASE Crash
  BY <1>2 DEF Crash
<1>3. ASSUME NEW r \in Requests, RequestStep(r) \/ RequestFault(r)
      PROVE  /\ now' = now /\ activation' = activation
             /\ \A q \in Requests : /\ pc'[q] = "idle" <=> pc[q] = "idle"
                                    /\ pc'[q] \in Running => pc[q] \in Running
  BY <1>3 DEF RequestStep, ProbeNext, FetchNext, ReadCurrent, Store, OpenCurrent, Switch,
     OpenNext, Schedule,
    RequestFault
<1>4. ASSUME NEW m \in Readers, MapStart(m) \/ MapStep(m) \/ MapFault(m)
      PROVE  now' = now /\ activation' = activation /\ pc' = pc
  BY <1>4 DEF MapStart, MapStep, MapProbeNext, MapFetchNext, MapReadHash, MapAnswer,
    MapOpenCurrent, MapSwitch, MapFindNext, MapClearNext, MapFault
<1> HIDE DEF Running, Go
<1> QED
  BY <1>1, <1>2, <1>3, <1>4 DEF Next

\* A call begins with no other request in progress, and with the latest instant.
LEMMA CallIsLatest ==
  ASSUME MaxInFlight <= 1, TypeOK, NEW r \in Requests, Call(r)
  PROVE  /\ pc[r] = "idle" /\ pc'[r] = "probing" /\ activation'[r] = now + Delay
         /\ \A q \in Requests : q # r => /\ pc'[q] = pc[q] /\ pc[q] \notin Running
                                         /\ activation'[q] = activation[q]
         /\ UNCHANGED <<now, stored, current, next, params, rpc, update, hash>>
<1>1. InFlight = {}
  BY NoneBefore DEF Call
<1> QED
  BY <1>1 DEF Call, Go, TypeOK, InFlight, persistent, readerVars

\* Every step keeps requests apart.
LEMMA NextAlone == MaxInFlight <= 1 /\ TypeOK /\ Alone /\ [Next]_vars => Alone'
<1> SUFFICES ASSUME MaxInFlight <= 1, TypeOK, Alone, [Next]_vars
             PROVE  Alone'
  OBVIOUS
<1>1. ASSUME NEW r \in Requests, Call(r)
      PROVE  Alone'
  BY <1>1, CallIsLatest DEF Alone, InFlight
<1>2. CASE \A r \in Requests : ~Call(r)
  BY <1>2, FlightShrinks DEF Alone, InFlight
<1> QED
  BY <1>1, <1>2

\* The storage gains the template and what a request makes, and nothing else.
LEMMA StoredGrows ==
  ASSUME [Next]_vars, NEW p \in stored', p \notin stored
  PROVE  p = Template \/ \E r \in Requests : pc[r] = "storing" /\ p = Append(params[r], r)
  BY DEF Next, vars, persistent, Tick, Start, BootStep, BootRead, BootStore, BootOpen, BootSwitch, Crash,
     BootFault,
    Call, RequestStep, ProbeNext, FetchNext, ReadCurrent, Store, OpenCurrent, Switch, OpenNext, Schedule,
    RequestFault, MapStart, MapStep, MapProbeNext, MapFetchNext, MapReadHash, MapAnswer,
    MapOpenCurrent, MapSwitch, MapFindNext, MapClearNext, MapFault

\* The base of a request is a set that has been stored.
LEMMA BasesAreStored ==
  ASSUME TypeOK, StoredFirst, [Next]_vars, \A r \in Requests : ~Call(r),
         \A r \in Requests : pc[r] = "storing" => params[r] \in stored
  PROVE  \A r \in Requests : pc'[r] = "storing" => params'[r] \in stored'
<1> USE DEF TypeOK, persistent, requestVars, Go
<1>1. CASE Tick \/ Start \/ BootStep \/ BootFault \/ Crash \/ UNCHANGED vars
  BY <1>1 DEF Tick, Start, BootStep, BootRead, BootStore, BootOpen, BootSwitch, BootFault, Crash, vars
<1>2. ASSUME NEW r \in Requests, FetchNext(r)
      PROVE  \A q \in Requests : pc'[q] = "storing" => params'[q] \in stored'
  <2>1. next # <<>> => Len(next) \in DOMAIN next /\ Last(next) = next[Len(next)]
    BY LastOfNext
  <2>2. CASE next # <<>> /\ Last(next) # Torn
    <3>1. Last(next).hash \in stored
      BY <2>1, <2>2 DEF StoredFirst
    <3>2. /\ params' = [params EXCEPT ![r] = Last(next).hash]
          /\ pc' = [pc EXCEPT ![r] = "storing"] /\ stored' = stored
      BY <1>2, <2>2 DEF FetchNext
    <3> QED
      BY <3>1, <3>2
  <2>3. CASE ~(next # <<>> /\ Last(next) # Torn)
    BY <1>2, <2>3 DEF FetchNext
  <2> QED
    BY <2>2, <2>3
<1>3. ASSUME NEW r \in Requests, ReadCurrent(r)
      PROVE  \A q \in Requests : pc'[q] = "storing" => params'[q] \in stored'
  BY <1>3 DEF ReadCurrent
<1>4. ASSUME NEW r \in Requests, ProbeNext(r) \/ Store(r) \/ OpenCurrent(r) \/ Switch(r) \/ OpenNext(r)
                                 \/ Schedule(r) \/ RequestFault(r)
      PROVE  \A q \in Requests : pc'[q] = "storing" => params'[q] \in stored'
  BY <1>4 DEF ProbeNext, Store, OpenCurrent, Switch, OpenNext, Schedule, RequestFault
<1>5. ASSUME NEW m \in Readers, MapStart(m) \/ MapStep(m) \/ MapFault(m)
      PROVE  UNCHANGED <<pc, params, stored>>
  BY <1>5 DEF MapStart, MapStep, MapProbeNext, MapFetchNext, MapReadHash, MapAnswer,
    MapOpenCurrent, MapSwitch, MapFindNext, MapClearNext, MapFault
<1> HIDE DEF TypeOK, Go
<1> QED
  BY <1>1, <1>2, <1>3, <1>4, <1>5 DEF Next, RequestStep

\* A request that has been called keeps its instant, and the clock does not go back.
LEMMA CalledKept ==
  ASSUME TypeOK, [Next]_vars, NEW q \in Requests, pc[q] # "idle"
  PROVE  pc'[q] # "idle" /\ activation'[q] = activation[q] /\ now' \in Nat /\ now <= now'
<1>1. ASSUME NEW r \in Requests, Call(r)
      PROVE  pc'[q] # "idle" /\ activation'[q] = activation[q] /\ now' = now
  BY <1>1 DEF Call, Go, TypeOK
<1>2. CASE \A r \in Requests : ~Call(r)
  BY <1>2, FlightShrinks
<1> QED
  BY <1>1, <1>2 DEF TypeOK

\* Every step keeps it: a request only appends itself to a base that is stored.
LEMMA NextCalled == TypeOK /\ StoredFirst /\ Called /\ [Next]_vars => Called'
<1> SUFFICES ASSUME TypeOK, StoredFirst, Called, [Next]_vars
             PROVE  Called'
  OBVIOUS
<1>0. \A p \in stored : p \in Params /\ \A i \in DOMAIN p : p[i] \in Requests
  BY DEF TypeOK, Params
<1>1. ASSUME NEW r \in Requests, Call(r)
      PROVE  Called'
  <2>1. pc' = [pc EXCEPT ![r] = "probing"] /\ UNCHANGED <<stored, params>>
    BY <1>1 DEF Call, Go, persistent
  <2> QED
    BY <1>0, <2>1 DEF Called, TypeOK
<1>2. CASE \A r \in Requests : ~Call(r)
  <2>1. \A q \in Requests : pc'[q] = "idle" <=> pc[q] = "idle"
    BY <1>2, FlightShrinks
  <2>2. \A r \in Requests : pc'[r] = "storing" => params'[r] \in stored'
    BY <1>2, BasesAreStored DEF Called
  <2>3. ASSUME NEW p \in stored', NEW i \in DOMAIN p
        PROVE  pc[p[i]] # "idle" /\ p[i] \in Requests
    <3>1. CASE p \in stored
      BY <1>0, <3>1 DEF Called
    <3>2. CASE p = Template
      BY <3>2 DEF Template
    <3>3. ASSUME NEW r \in Requests, pc[r] = "storing", p = Append(params[r], r)
          PROVE  pc[p[i]] # "idle" /\ p[i] \in Requests
      <4>1. params[r] \in stored /\ params[r] \in Params
        BY <3>3 DEF Called, TypeOK
      <4>2. p[i] = r \/ \E j \in DOMAIN params[r] : p[i] = params[r][j]
        BY <3>3, <4>1 DEF Params
      <4> QED
        BY <1>0, <3>3, <4>1, <4>2 DEF Called
    <3> QED
      BY <3>1, <3>2, <3>3, StoredGrows
  <2> QED
    BY <2>1, <2>2, <2>3 DEF Called
<1> QED
  BY <1>1, <1>2

\* What is not in turn never gets into turn again: the instants of requests that
\* have been called do not change, and nothing stored is taken away.
LEMMA TurnWasKept ==
  ASSUME TypeOK, Called, [Next]_vars, InTurn'
  PROVE  InTurn
<1>1. stored \subseteq stored'
  BY DEF Next, vars, persistent, Tick, Start, BootStep, BootRead, BootStore, BootOpen, BootSwitch,
     Crash, BootFault,
    Call, RequestStep, ProbeNext, FetchNext, ReadCurrent, Store, OpenCurrent, Switch, OpenNext, Schedule,
    RequestFault, MapStart, MapStep, MapProbeNext, MapFetchNext, MapReadHash, MapAnswer,
    MapOpenCurrent, MapSwitch, MapFindNext, MapClearNext, MapFault
<1>2. ASSUME NEW q \in Requests, pc[q] # "idle"
      PROVE  activation'[q] = activation[q]
  BY <1>2, CalledKept
<1>3. ASSUME NEW p \in stored, NEW i \in DOMAIN p
      PROVE  activation[p[i]] <= activation[Last(p)]
  <2>1. /\ p \in stored' /\ p[i] \in Requests /\ pc[p[i]] # "idle"
        /\ Len(p) \in DOMAIN p /\ Last(p) = p[Len(p)] /\ Last(p) \in Requests
    BY <1>1, <1>3 DEF TypeOK, Params, Called, Last
  <2>2. pc[Last(p)] # "idle"
    BY <2>1 DEF Called
  <2>3. activation'[p[i]] <= activation'[Last(p)]
    BY <2>1 DEF InTurn
  <2> QED
    BY <1>2, <2>1, <2>2, <2>3
<1> QED
  BY <1>3 DEF InTurn

\* With one request at a time every step keeps the order of the instants.
LEMMA NextInOrder ==
  MaxInFlight <= 1 /\ TypeOK /\ Alone /\ Called /\ InOrder /\ [Next]_vars => InOrder'
<1> SUFFICES ASSUME MaxInFlight <= 1, TypeOK, Alone, Called, InOrder, [Next]_vars
             PROVE  InOrder'
  OBVIOUS
<1>0. /\ now \in Nat /\ Delay \in Nat
      /\ \A r \in Requests : activation[r] \in Nat
      /\ \A p \in stored : p \in Params /\ \A i \in DOMAIN p : p[i] \in Requests
      /\ \A p \in stored : p # Template => Last(p) \in Requests /\ Len(p) \in DOMAIN p /\ Last(p) = p[Len(p)]
  BY DEF TypeOK, Params, Template, Last
<1>1. ASSUME NEW r \in Requests, Call(r)
      PROVE  InOrder'
  <2>1. \A p \in stored : \A i \in DOMAIN p : p[i] # r /\ Last(p) # r /\ Last(p) \in Requests
    <3> SUFFICES ASSUME NEW p \in stored, NEW i \in DOMAIN p
                 PROVE  p[i] # r /\ Last(p) # r /\ Last(p) \in Requests
      OBVIOUS
    <3>1. p # Template
      BY DEF Template
    <3> QED
      BY <1>0, <1>1, <3>1, CallIsLatest DEF Called
  <2> QED
    BY <1>0, <1>1, <2>1, CallIsLatest DEF InOrder, InTurn, Running
<1>2. CASE \A r \in Requests : ~Call(r)
  <2>1. /\ now' \in Nat /\ now <= now' /\ activation' = activation
        /\ \A q \in Requests : /\ pc'[q] = "idle" <=> pc[q] = "idle"
                               /\ pc'[q] \in Running => pc[q] \in Running
    BY <1>2, FlightShrinks
  <2>2. ASSUME NEW p \in stored', NEW i \in DOMAIN p
        PROVE  activation[p[i]] <= activation[Last(p)]
    <3>1. CASE p \in stored
      BY <3>1 DEF InOrder, InTurn
    <3>2. CASE p = Template
      BY <3>2 DEF Template
    <3>3. ASSUME NEW r \in Requests, pc[r] = "storing", p = Append(params[r], r)
          PROVE  activation[p[i]] <= activation[Last(p)]
      <4>1. /\ params[r] \in stored /\ params[r] \in Params
            /\ pc[r] \in Running /\ pc[r] # "idle"
        BY <3>3 DEF Called, TypeOK, Running
      <4>2. Last(p) = r
        BY <3>3, <4>1, AppendLineage
      <4>3. p[i] = r \/ \E j \in DOMAIN params[r] : p[i] = params[r][j]
        BY <3>3, <4>1 DEF Params
      <4>4. p[i] \in Requests /\ pc[p[i]] # "idle"
        BY <1>0, <4>1, <4>3 DEF Called
      <4> QED
        BY <4>1, <4>2, <4>4 DEF InOrder
    <3> QED
      BY <3>1, <3>2, <3>3, StoredGrows
  <2> QED
    BY <1>0, <2>1, <2>2 DEF InOrder, InTurn
<1> QED
  BY <1>1, <1>2

\* An update keeps the instant of its last change, and what has come due stays so.
LEMMA InstantsKept ==
  ASSUME TypeOK, [Next]_vars
  PROVE  /\ \A u \in Update : Honest(u) /\ Exact(u) => Exact(u)'
         /\ \A p \in Params : Elapsed(p) => Elapsed(p)'
<1>1. ASSUME NEW p \in Params, p # Template
      PROVE  Last(p) \in Requests
  BY <1>1 DEF Params, Template, Last
<1>2. \A q \in Requests : activation[q] \in Nat /\ now \in Nat
  BY DEF TypeOK
<1>3. ASSUME NEW u \in Update, Honest(u), Exact(u)
      PROVE  u.deadline = activation'[Last(u.hash)]
  BY <1>1, <1>3, CalledKept, Sorts DEF Honest, Exact
<1>4. ASSUME NEW p \in Params, p # Template, Elapsed(p)
      PROVE  pc'[Last(p)] # "idle" /\ activation'[Last(p)] <= now'
  BY <1>1, <1>2, <1>4, CalledKept DEF Elapsed
<1> QED
  BY <1>3, <1>4 DEF Exact, Elapsed

\* A revision of the schedule was there before, or is being written by a request.
LEMMA NextSources ==
  ASSUME TypeOK, [Next]_vars, NEW i \in DOMAIN next', next'[i] # Torn
  PROVE  \/ \E j \in DOMAIN next : next'[i] = next[j]
         \/ \E r \in Requests : pc[r] = "scheduling"
              /\ next'[i] = [hash |-> params[r], deadline |-> activation[r]]
<1>1. ASSUME NEW r \in Requests, OpenNext(r)
      PROVE  \E j \in DOMAIN next : next'[i] = next[j]
  <2>1. DOMAIN <<Torn>> = {1} /\ <<Torn>>[1] = Torn
    OBVIOUS
  <2> QED
    BY <1>1, <2>1 DEF OpenNext, Opened
<1>2. ASSUME NEW r \in Requests, Schedule(r)
      PROVE  \/ next'[i] = [hash |-> params[r], deadline |-> activation[r]]
             \/ \E j \in DOMAIN next : next'[i] = next[j]
  <2> DEFINE u == [hash |-> params[r], deadline |-> activation[r]]
  <2>1. u \in Update /\ next' = Put(u)
    BY <1>2, Sorts DEF Schedule, TypeOK
  <2> HIDE DEF u
  <2>2. next'[i] = u \/ \E j \in DOMAIN next : next'[i] = next[j]
    BY <2>1, PutType DEF TypeOK
  <2> QED
    BY <2>2 DEF u
<1>3. ASSUME NEW m \in Readers, MapClearNext(m)
      PROVE  \E j \in DOMAIN next : next'[i] = next[j]
  <2>1. CASE next' = next
    BY <2>1
  <2>2. CASE next # <<>> /\ next' = Tail(next)
    BY <2>2, TailOfNext DEF TypeOK
  <2> QED
    BY <1>3, <2>1, <2>2 DEF MapClearNext
<1>4. CASE next' = next
  BY <1>4
<1>5. \/ next' = next
      \/ \E r \in Requests : OpenNext(r) \/ Schedule(r)
      \/ \E m \in Readers : MapClearNext(m)
  BY DEF Next, vars, persistent, Tick, Start, BootStep, BootRead, BootStore, BootOpen, BootSwitch, Crash,
     BootFault,
    Call, RequestStep, ProbeNext, FetchNext, ReadCurrent, Store, OpenCurrent, Switch,
    RequestFault, MapStart, MapStep, MapProbeNext, MapFetchNext, MapReadHash, MapAnswer,
    MapOpenCurrent, MapSwitch, MapFindNext, MapFault
<1> QED
  BY <1>1, <1>2, <1>3, <1>4, <1>5 DEF Schedule

\* CURRENT was what it is, is written by start-up, a request or a map read, or is
\* being written to a file.
LEMMA CurrentSources ==
  ASSUME [Next]_vars
  PROVE  \/ current' \in {current, Template, Torn}
         \/ \E r \in Requests : pc[r] = "switching" /\ current' = params[r]
         \/ \E m \in Readers : rpc[m] = "writing" /\ current' = update[m].hash
  BY DEF Next, vars, persistent, Tick, Start, BootStep, BootRead, BootStore, BootOpen, BootSwitch, Crash,
     BootFault,
    Call, RequestStep, ProbeNext, FetchNext, ReadCurrent, Store, OpenCurrent, Switch, OpenNext, Schedule,
    RequestFault, MapStart, MapStep, MapProbeNext, MapFetchNext, MapReadHash, MapAnswer,
    MapOpenCurrent, MapSwitch, MapFindNext, MapClearNext, MapFault, Opened

\* What a map read holds is what it held, or comes from a register, or is the
\* update it has just applied.
LEMMA ReaderSources ==
  ASSUME TypeOK, [Next]_vars, NEW m \in Readers
  PROVE  /\ update'[m] \in {update[m], None} \/ \E j \in DOMAIN next : update'[m] = next[j]
         /\ \/ hash'[m] \in {hash[m], Template, current}
            \/ rpc[m] = "writing" /\ hash'[m] = update[m].hash
         /\ rpc'[m] \in {"finding", "clearing"} =>
              update'[m] = None \/ (rpc[m] \in {"finding", "clearing"} /\ update'[m] = update[m])
<1> USE DEF TypeOK, readerVars, Becomes
<1>1. CASE UNCHANGED readerVars
  BY <1>1
<1>2. CASE Crash
  BY <1>2 DEF Crash
<1>3. ASSUME NEW n \in Readers, MapFetchNext(n)
      PROVE  /\ update'[m] = update[m] \/ \E j \in DOMAIN next : update'[m] = next[j]
             /\ hash' = hash
             /\ rpc'[m] \in {"finding", "clearing"} => rpc'[m] = rpc[m] /\ update'[m] = update[m]
  <2>1. next # <<>> => Len(next) \in DOMAIN next /\ Last(next) = next[Len(next)]
    BY LastOfNext
  <2>2. CASE next # <<>> /\ Last(next) # Torn
    <3>1. /\ update' = [update EXCEPT ![n] = Last(next)] /\ rpc' = rpc /\ hash' = hash
          /\ rpc[n] = "reading"
      BY <1>3, <2>2 DEF MapFetchNext
    <3> QED
      BY <2>1, <2>2, <3>1
  <2>3. CASE ~(next # <<>> /\ Last(next) # Torn)
    <3>1. /\ rpc' = [rpc EXCEPT ![n] = IF StorageType = "FILE" THEN "reading" ELSE "failed"]
          /\ update' = update /\ hash' = hash
      BY <1>3, <2>3 DEF MapFetchNext
    <3> QED
      BY <3>1
  <2> QED
    BY <2>2, <2>3
<1>4. ASSUME NEW n \in Readers, MapSwitch(n)
      PROVE  /\ update'[m] \in {update[m], None}
             /\ hash'[m] = hash[m] \/ (rpc[m] = "writing" /\ hash'[m] = update[m].hash)
             /\ rpc'[m] \in {"finding", "clearing"} =>
                  update'[m] = None \/ (rpc'[m] = rpc[m] /\ update'[m] = update[m])
  BY <1>4 DEF MapSwitch
<1>5. ASSUME NEW n \in Readers, MapStart(n) \/ MapReadHash(n)
      PROVE  /\ update'[m] \in {update[m], None} /\ hash'[m] \in {hash[m], Template, current}
             /\ rpc'[m] \in {"finding", "clearing"} => rpc'[m] = rpc[m] /\ update'[m] = update[m]
  BY <1>5 DEF MapStart, MapReadHash
<1>6. ASSUME NEW n \in Readers, MapProbeNext(n) \/ MapAnswer(n) \/ MapOpenCurrent(n)
                                \/ MapFindNext(n) \/ MapClearNext(n) \/ MapFault(n)
      PROVE  /\ update' = update /\ hash' = hash
             /\ rpc'[m] \in {"finding", "clearing"} => rpc[m] \in {"finding", "clearing"}
  BY <1>6 DEF MapProbeNext, MapAnswer, MapOpenCurrent, MapFindNext, MapClearNext, MapFault
<1>7. \/ UNCHANGED readerVars \/ Crash
      \/ \E n \in Readers : MapStart(n) \/ MapStep(n) \/ MapFault(n)
  BY DEF Next, vars, Tick, Start, BootStep, BootRead, BootStore, BootOpen, BootSwitch, BootFault,
    Call, RequestStep, ProbeNext, FetchNext, ReadCurrent, Store, OpenCurrent, Switch, OpenNext, Schedule,
    RequestFault
<1> HIDE DEF TypeOK, readerVars, Becomes
<1> QED
  BY <1>1, <1>2, <1>3, <1>4, <1>5, <1>6, <1>7 DEF MapStep

\* Every step keeps the instants of what is scheduled, held or in force.
LEMMA NextInTime == TypeOK /\ Punctual /\ InTime /\ [Next]_vars => InTime'
<1> SUFFICES ASSUME TypeOK, Punctual, InTime, [Next]_vars
             PROVE  InTime'
  OBVIOUS
<1>1. \A i \in DOMAIN next : next[i] # Torn => next[i] \in Update /\ Honest(next[i]) /\ Exact(next[i])
  BY DEF TypeOK, Punctual, InTime
<1>2. ASSUME NEW m \in Readers, rpc[m] = "writing"
      PROVE  update[m].hash \in Params /\ Elapsed(update[m].hash)
  <2>1. update[m] \in Update /\ update[m].deadline <= now /\ Honest(update[m]) /\ Exact(update[m])
    BY <1>2, Sorts DEF TypeOK, Punctual, InTime
  <2> QED
    BY <2>1, Sorts DEF Honest, Exact, Elapsed
<1>3. Elapsed(Template) /\ Exact(None) /\ Exact(Torn)
  BY Sorts DEF Elapsed, Exact
<1>4. ASSUME NEW i \in DOMAIN next'
      PROVE  Exact(next[i])'
  <2>1. CASE next'[i] = Torn
    BY <2>1, Sorts DEF Exact
  <2>2. ASSUME NEW j \in DOMAIN next, next'[i] = next[j], next'[i] # Torn
        PROVE  Exact(next[i])'
    <3>1. next[j] \in Update /\ Honest(next[j]) /\ Exact(next[j])
      BY <1>1, <2>2
    <3>2. next[j].deadline = activation'[Last(next[j].hash)]
      BY <3>1, InstantsKept DEF Exact
    <3> QED
      BY <2>2, <3>2 DEF Exact
  <2>3. ASSUME NEW r \in Requests, pc[r] = "scheduling",
               next'[i] = [hash |-> params[r], deadline |-> activation[r]]
        PROVE  Exact(next[i])'
    <3>1. Last(params[r]) = r /\ activation'[r] = activation[r]
      BY <2>3, CalledKept DEF Punctual, HasStored
    <3> QED
      BY <2>3, <3>1 DEF Exact
  <2> QED
    BY <2>1, <2>2, <2>3, NextSources
<1>5. Elapsed(current)'
  <2>1. ASSUME NEW r \in Requests, pc[r] = "switching"
        PROVE  params[r] \in Params /\ Elapsed(params[r])
    BY <2>1 DEF TypeOK, Punctual, HasStored, Elapsed
  <2>2. current' \notin Params \/ (current' \in Params /\ Elapsed(current'))
    BY <1>2, <1>3, <2>1, CurrentSources, Sorts DEF InTime
  <2>3. current' \in Params /\ current' # Template
          => pc'[Last(current')] # "idle" /\ activation'[Last(current')] <= now'
    BY <2>2, InstantsKept DEF Elapsed
  <2> QED
    BY <2>3 DEF Elapsed
<1>6. ASSUME NEW m \in Readers
      PROVE  /\ Exact(update[m])' /\ Elapsed(hash[m])'
             /\ rpc'[m] \in {"finding", "clearing"} => update'[m] = None
  <2>1. rpc'[m] \in {"finding", "clearing"} => update'[m] = None
    BY ReaderSources DEF InTime
  <2>2. update'[m] \in Update => Honest(update'[m]) /\ Exact(update'[m])
    BY <1>1, ReaderSources, Sorts DEF InTime, Punctual
  <2>3. update'[m] \in Update => update'[m].deadline = activation'[Last(update'[m].hash)]
    BY <2>2, InstantsKept DEF Exact
  <2>4. hash'[m] \in Params => Elapsed(hash'[m])
    BY <1>2, <1>3, ReaderSources DEF InTime
  <2>5. hash'[m] \in Params /\ hash'[m] # Template
          => pc'[Last(hash'[m])] # "idle" /\ activation'[Last(hash'[m])] <= now'
    BY <2>4, InstantsKept DEF Elapsed
  <2> QED
    BY <2>1, <2>3, <2>5 DEF Exact, Elapsed
<1> QED
  BY <1>4, <1>5, <1>6 DEF InTime

\* Whatever is in a register, or in the hands of a map read, keeps the instant of
\* the request that made it, and what is in force has come due, however many requests
\* and map reads interleave and whatever fails.
THEOREM InTimeInvariant == Spec => [](Called /\ InTime)
<1>1. Init => Called
  BY DEF Init, Called
<1>2. Init => InTime
  BY Sorts DEF Init, InTime, Exact, Elapsed
<1> QED
  BY <1>1, <1>2, NextCalled, NextInTime, TypeCorrect, StoredFirstInvariant, PunctualInvariant,
     PTL DEF Spec

\* With one request at a time, no request overtakes another it builds on.
THEOREM InOrderInvariant ==
  ASSUME MaxInFlight <= 1
  PROVE  Spec => [](Alone /\ InOrder)
<1>1. Init => Alone /\ InOrder
  BY DEF Init, Alone, InOrder, InTurn, InFlight, Running
<1> QED
  BY <1>1, NextAlone, NextInOrder, InTimeInvariant, TypeCorrect, PTL DEF Spec

\* Where the last request of a prefix is in the whole.
LEMMA LastOfPrefix ==
  ASSUME NEW p \in Params, NEW q \in Params, p # Template, IsPrefix(p, q)
  PROVE  /\ Len(p) \in DOMAIN q /\ Last(p) = q[Len(p)] /\ q[Len(p)] \in Requests
         /\ q # Template /\ Last(q) \in Requests
<1>1. Len(p) \in Nat /\ Len(q) \in Nat /\ Len(p) # 0 /\ DOMAIN q = 1 .. Len(q)
  BY DEF Params, Template
<1>2. Len(p) <= Len(q) /\ p = SubSeq(q, 1, Len(p))
  BY DEF IsPrefix, Params
<1>3. Len(p) \in 1 .. Len(p) /\ Len(p) \in DOMAIN q
  BY <1>1, <1>2
<1>4. SubSeq(q, 1, Len(p))[Len(p)] = q[Len(p)]
  BY <1>1, <1>2, <1>3 DEF Params
<1>5. q[Len(p)] \in Requests /\ Len(q) \in DOMAIN q /\ q[Len(q)] \in Requests
  BY <1>1, <1>2, <1>3 DEF Params
<1>6. q # Template
  BY <1>1, <1>2 DEF Template
<1> QED
  BY <1>2, <1>3, <1>4, <1>5, <1>6 DEF Last

\* A map read is answered when it has nothing to apply, or after it has applied
\* and deleted an update, and stays as it is until it is asked again.
LEMMA Answered ==
  ASSUME TypeOK, [Next]_vars, NEW m \in Readers, rpc'[m] = "answered", ~MapAnswer(m)
  PROVE  \/ rpc[m] = "answered" /\ update'[m] = update[m] /\ hash'[m] = hash[m]
         \/ rpc[m] \in {"finding", "clearing"} /\ update'[m] = update[m]
<1> USE DEF TypeOK, readerVars, Becomes
<1>1. CASE UNCHANGED readerVars
  BY <1>1
<1>2. ASSUME Crash
      PROVE  FALSE
  BY <1>2 DEF Crash
<1>3. ASSUME NEW n \in Readers, MapStart(n) \/ MapProbeNext(n) \/ MapReadHash(n) \/ MapOpenCurrent(n)
      PROVE  rpc[m] = "answered" /\ update'[m] = update[m] /\ hash'[m] = hash[m]
  BY <1>3 DEF MapStart, MapProbeNext, MapReadHash, MapOpenCurrent
<1>4. ASSUME NEW n \in Readers, MapAnswer(n) \/ MapSwitch(n) \/ MapFault(n)
      PROVE  rpc[m] = "answered" /\ update'[m] = update[m] /\ hash'[m] = hash[m]
  BY <1>4 DEF MapAnswer, MapSwitch, MapFault
<1>5. ASSUME NEW n \in Readers, MapFetchNext(n)
      PROVE  rpc[m] = "answered" /\ update'[m] = update[m] /\ hash'[m] = hash[m]
  BY <1>5 DEF MapFetchNext
<1>6. ASSUME NEW n \in Readers, MapFindNext(n) \/ MapClearNext(n)
      PROVE  /\ update' = update /\ hash' = hash
             /\ rpc[m] \in {"answered", "finding", "clearing"}
  BY <1>6 DEF MapFindNext, MapClearNext
<1>7. \/ UNCHANGED readerVars \/ Crash
      \/ \E n \in Readers : MapStart(n) \/ MapStep(n) \/ MapFault(n)
  BY DEF Next, vars, Tick, Start, BootStep, BootRead, BootStore, BootOpen, BootSwitch, BootFault,
    Call, RequestStep, ProbeNext, FetchNext, ReadCurrent, Store, OpenCurrent, Switch, OpenNext, Schedule,
    RequestFault
<1> HIDE DEF TypeOK, readerVars, Becomes
<1> QED
  BY <1>1, <1>2, <1>3, <1>4, <1>5, <1>6, <1>7 DEF MapStep

\* No map announces what its current parameters include, although the two
\* registers are read apart, other map reads switch and delete between, and requests
\* overlap: what is in force has come due, so what it was built on has as well (as
\* long as requests keep their turn), and a map read does not announce an update that
\* is due.
THEOREM MapsAreCoherent == Spec => []MapCoherent
<1>1. Init => MapCoherent
  BY DEF Init, MapCoherent
<1>2. TypeOK /\ StoredFirst /\ Punctual /\ Called /\ InTime /\ MapCoherent /\ [Next]_vars => MapCoherent'
  <2> SUFFICES ASSUME TypeOK, StoredFirst, Punctual, Called, InTime, MapCoherent, [Next]_vars, InTurn',
                      NEW m \in Readers, rpc'[m] = "answered", update'[m] # None
               PROVE  ~IsPrefix(update'[m].hash, hash'[m])
    BY DEF MapCoherent
  <2>0. InTurn
    BY TurnWasKept
  <2>1. CASE MapAnswer(m)
    <3> SUFFICES ASSUME IsPrefix(update[m].hash, hash[m]) PROVE FALSE
      BY <2>1 DEF MapAnswer
    <3> DEFINE p == hash[m]
               u == update[m]
    <3>1. rpc[m] = "reading" /\ waiting[m] = {} /\ ~Due(u) /\ u # None
      BY <2>1 DEF MapAnswer
    <3>2. /\ u \in Update /\ Honest(u) /\ u.deadline = activation[Last(u.hash)]
          /\ u.hash \in Params /\ u.hash # Template /\ p \in Params /\ p \in stored
      BY <3>1, Sorts DEF TypeOK, Punctual, InTime, Exact, Honest, StoredFirst
    <3>3. ~(now >= u.deadline)
      BY <3>1 DEF Due
    <3> HIDE DEF p, u
    <3>4. /\ Len(u.hash) \in DOMAIN p /\ Last(u.hash) = p[Len(u.hash)]
          /\ p # Template /\ Last(p) \in Requests /\ p[Len(u.hash)] \in Requests
      BY <3>2, LastOfPrefix DEF p, u
    <3>5. activation[p[Len(u.hash)]] <= activation[Last(p)]
      BY <2>0, <3>2, <3>4 DEF InTurn
    <3>6. activation[Last(p)] <= now
      BY <3>2, <3>4 DEF InTime, Elapsed, p
    <3> QED
      BY <3>2, <3>3, <3>4, <3>5, <3>6 DEF TypeOK
  <2>2. CASE ~MapAnswer(m)
    <3>1. \/ rpc[m] = "answered" /\ update'[m] = update[m] /\ hash'[m] = hash[m]
          \/ rpc[m] \in {"finding", "clearing"} /\ update'[m] = update[m]
      BY <2>2, Answered
    <3> QED
      BY <2>0, <3>1 DEF MapCoherent, InTime
  <2> QED
    BY <2>1, <2>2
<1> QED
  BY <1>1, <1>2, InTimeInvariant, TypeCorrect, StoredFirstInvariant, PunctualInvariant,
     PTL DEF Spec

\* With one request at a time the condition of MapCoherent is always met: no map is
\* ever incoherent.
THEOREM RequestsKeepTurn ==
  ASSUME MaxInFlight <= 1
  PROVE  Spec => []InTurn
<1>1. InOrder => InTurn
  BY DEF InOrder
<1> QED
  BY <1>1, InOrderInvariant, PTL

-----------------------------------------------------------------------------
(* One map read at a time, with the Mongo storage and requests that end in *)
(* time; any number of requests, and storage calls that fail.              *)

Polled == StorageType = "MONGO" /\ Delay > 0 /\ \A m, n \in Readers : m = n

\* Requests leave CURRENT alone, and nobody deletes the revision a map read is
\* about to apply.
Announcing ==
  /\ \A r \in Requests : pc[r] \in Running => now < activation[r]
  /\ \A m \in Readers : rpc[m] \in {"reading", "writing"} /\ update[m] # None
       => \E i \in DOMAIN next : update[m] = next[i]

\* Every step keeps it: the schedule loses a revision only to the one map read.
LEMMA NextAnnouncing == Polled /\ TypeOK /\ Announcing /\ [TimelyNext]_vars => Announcing'
<1> SUFFICES ASSUME Polled, TypeOK, Announcing, [TimelyNext]_vars
             PROVE  Announcing'
  OBVIOUS
<1> USE DEF TypeOK, Announcing, Polled, persistent, requestVars, readerVars, Running, Reading,
     Opened, Go, Becomes
<1>1. CASE Tick /\ Timely
  BY <1>1 DEF Tick, Timely, InFlight
<1>2. CASE Start \/ BootRead \/ BootStore \/ BootOpen \/ BootSwitch \/ BootFault \/ Crash
  BY <1>2 DEF Start, BootRead, BootStore, BootOpen, BootSwitch, BootFault, Crash
<1>3. ASSUME NEW r \in Requests, Call(r)
      PROVE  Announcing'
  BY <1>3 DEF Call
<1>4. ASSUME NEW r \in Requests, ProbeNext(r) \/ FetchNext(r) \/ ReadCurrent(r) \/ Store(r) \/ OpenCurrent(r)
                                 \/ Switch(r) \/ OpenNext(r) \/ RequestFault(r)
      PROVE  Announcing'
  BY <1>4 DEF ProbeNext, FetchNext, ReadCurrent, Store, OpenCurrent, Switch, OpenNext, RequestFault
<1>5. ASSUME NEW r \in Requests, Schedule(r)
      PROVE  Announcing'
  <2> DEFINE u == [hash |-> params[r], deadline |-> activation[r]]
  <2>1. u \in Update /\ next' = Append(next, u)
    BY <1>5, Sorts DEF Schedule, Put
  <2> HIDE DEF u
  <2>2. \A i \in DOMAIN next : i \in DOMAIN next' /\ next'[i] = next[i]
    BY <2>1
  <2> QED
    BY <1>5, <2>2 DEF Schedule
<1>6. ASSUME NEW m \in Readers, MapFetchNext(m)
      PROVE  Announcing'
  <2>1. next # <<>> => Len(next) \in DOMAIN next /\ Last(next) = next[Len(next)]
    BY LastOfNext
  <2> QED
    BY <1>6, <2>1 DEF MapFetchNext
<1>7. ASSUME NEW m \in Readers, MapStart(m) \/ MapProbeNext(m) \/ MapReadHash(m) \/ MapAnswer(m)
                                \/ MapOpenCurrent(m) \/ MapSwitch(m) \/ MapFindNext(m) \/ MapFault(m)
      PROVE  Announcing'
  BY <1>7 DEF MapStart, MapProbeNext, MapReadHash, MapAnswer, MapOpenCurrent, MapSwitch,
     MapFindNext, MapFault
<1>8. ASSUME NEW m \in Readers, MapClearNext(m)
      PROVE  Announcing'
  BY <1>8 DEF MapClearNext
<1>9. CASE UNCHANGED vars
  BY <1>9 DEF vars
<1> HIDE DEF Announcing, TypeOK, Polled
<1> QED
  BY <1>1, <1>2, <1>3, <1>4, <1>5, <1>6, <1>7, <1>8, <1>9 DEF TimelyNext, BootStep,
     RequestStep, MapStep

\* What CURRENT becomes has been announced: it stands in the schedule when it
\* comes into force, however many requests are in flight and whatever fails.
THEOREM AnnouncedFirst ==
  ASSUME Polled
  PROVE  TimelySpec => TwoPhases
<1> DEFINE Announced ==
      current' # current /\ current' \in Params /\ current' # Template
        => \E i \in DOMAIN next : next[i] # Torn /\ next[i].hash = current'
<1>1. Init => Announcing
  BY DEF Init, Announcing, Running
<1>2. TypeOK /\ Punctual /\ Announcing /\ [TimelyNext]_vars => [Announced]_vars
  <2> SUFFICES ASSUME TypeOK, Punctual, Announcing, [TimelyNext]_vars, current' # current, current' # Template
               PROVE  \E i \in DOMAIN next : next[i] # Torn /\ next[i].hash = current'
    OBVIOUS
  <2>1. \A r \in Requests : ~Switch(r)
    <3> SUFFICES ASSUME NEW r \in Requests, Switch(r) PROVE FALSE
      OBVIOUS
    <3>1. pc[r] = "switching" /\ activation[r] \in Nat /\ now \in Nat
      BY DEF Switch, TypeOK
    <3>2. activation[r] <= now /\ now < activation[r]
      BY <3>1 DEF Punctual, Announcing, Running
    <3> QED
      BY <3>1, <3>2
  <2>2. PICK m \in Readers : MapSwitch(m)
    BY <2>1 DEF TimelyNext, vars, Polled, Tick, Start, BootStep, BootRead, BootStore, BootOpen,
       BootSwitch, Crash, BootFault,
      Call, RequestStep, ProbeNext, FetchNext, ReadCurrent, Store, OpenCurrent, OpenNext, Schedule,
      RequestFault, MapStart, MapStep, MapProbeNext, MapFetchNext, MapReadHash, MapAnswer,
      MapOpenCurrent, MapFindNext, MapClearNext, MapFault, persistent, Opened
  <2>3. rpc[m] = "writing" /\ update[m] \in Update /\ current' = update[m].hash
    BY <2>2 DEF MapSwitch, TypeOK
  <2>4. PICK i \in DOMAIN next : update[m] = next[i]
    BY <2>3, Sorts DEF Announcing
  <2> QED
    BY <2>3, <2>4, Sorts
<1> QED
  BY <1>1, <1>2, NextAnnouncing, TimelyIsSpec, TypeCorrect, PunctualInvariant, PTL
     DEF TimelySpec, TwoPhases
=============================================================================
