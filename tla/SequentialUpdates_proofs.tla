---------------------- MODULE SequentialUpdates_proofs ----------------------
(***************************************************************************)
(* Proofs about the update path in the disciplined environment of          *)
(* MCParameterUpdates, with one request and one map read at a time: no     *)
(* acknowledged change is lost, CURRENT goes forward, and the registers    *)
(* implement ParameterLedger.  They hold for any number of requests, of    *)
(* instants and of crashes, and for every positive delay.                  *)
(***************************************************************************)
EXTENDS ConcurrentUpdates_proofs

USE StorageAssumption, BoundsAssumption, AbsentAssumption

\* The conditions: the Mongo storage, none of whose calls fails; one request and
\* one map read at a time; a delay between a request and its flag day.  Without
\* any one of them TLC finds a behaviour that the ledger does not have.
Sequential ==
  /\ StorageType = "MONGO" /\ ~StorageFaults
  /\ MaxInFlight <= 1 /\ Delay > 0
  /\ \A m, n \in Readers : m = n

-----------------------------------------------------------------------------
(* Lineages ordered by IsPrefix.                                           *)

\* A prefix agrees with the longer lineage wherever it is defined.
LEMMA PrefixPointwise ==
  ASSUME NEW p \in Params, NEW q \in Params
  PROVE  IsPrefix(p, q) <=> Len(p) <= Len(q) /\ \A i \in 1 .. Len(p) : p[i] = q[i]
<1> USE DEF Params
<1>1. SubSeq(p, 1, Len(p)) = p
  OBVIOUS
<1>2. ASSUME Len(p) <= Len(q)
      PROVE  /\ SubSeq(q, 1, Len(p)) \in Seq(Requests)
             /\ Len(SubSeq(q, 1, Len(p))) = Len(p)
             /\ \A i \in 1 .. Len(p) : SubSeq(q, 1, Len(p))[i] = q[i]
  BY <1>2
<1>3. ASSUME Len(p) <= Len(q), \A i \in 1 .. Len(p) : p[i] = q[i]
      PROVE  p = SubSeq(q, 1, Len(p))
  BY <1>2, <1>3
<1> QED
  BY <1>1, <1>2, <1>3 DEF IsPrefix

\* The template is a prefix of every lineage, a lineage of itself.
LEMMA PrefixLeast ==
  ASSUME NEW p \in Params
  PROVE  IsPrefix(Template, p) /\ IsPrefix(p, p)
<1>1. Len(Template) = 0 /\ Len(p) \in Nat
  BY DEF Params, Template
<1> QED
  BY <1>1, PrefixPointwise, Sorts

\* Being a prefix is transitive.
LEMMA PrefixTransitive ==
  ASSUME NEW p \in Params, NEW q \in Params, NEW s \in Params,
         IsPrefix(p, q), IsPrefix(q, s)
  PROVE  IsPrefix(p, s)
<1>1. Len(p) \in Nat /\ Len(q) \in Nat /\ Len(s) \in Nat
  BY DEF Params
<1> QED
  BY <1>1, PrefixPointwise

\* A lineage is a prefix of one made from it.
LEMMA PrefixAppend ==
  ASSUME NEW p \in Params, NEW r \in Requests
  PROVE  IsPrefix(p, Append(p, r)) /\ Len(Append(p, r)) = Len(p) + 1
<1>1. /\ Len(p) \in Nat /\ Len(Append(p, r)) = Len(p) + 1
      /\ \A i \in 1 .. Len(p) : p[i] = Append(p, r)[i]
  BY DEF Params
<1> DEFINE q == Append(p, r)
<1>2. q \in Params
  BY AppendLineage
<1>3. Len(p) \in Nat /\ Len(q) = Len(p) + 1 /\ \A i \in 1 .. Len(p) : p[i] = q[i]
  BY <1>1
<1> HIDE DEF q
<1>4. IsPrefix(p, q)
  BY <1>2, <1>3, PrefixPointwise
<1> QED
  BY <1>3, <1>4 DEF q

\* A prefix is no longer than the whole, is the whole if it is as long, and is
\* the beginning of the whole in any case.
LEMMA PrefixLength ==
  ASSUME NEW p \in Params, NEW q \in Params, IsPrefix(p, q)
  PROVE  /\ Len(p) \in Nat /\ Len(q) \in Nat /\ Len(p) <= Len(q)
         /\ p = SubSeq(q, 1, Len(p))
         /\ Len(p) = Len(q) => p = q
  BY DEF IsPrefix, Params

\* A change stays in every lineage made from one that has it.
LEMMA KeptByAppend ==
  ASSUME NEW p \in Params, NEW r \in Requests
  PROVE  r \in ToSet(Append(p, r)) /\ ToSet(p) \subseteq ToSet(Append(p, r))
<1>1. /\ DOMAIN Append(p, r) = 1 .. Len(p) + 1
      /\ Append(p, r)[Len(p) + 1] = r
      /\ \A i \in DOMAIN p : i \in DOMAIN Append(p, r) /\ Append(p, r)[i] = p[i]
  BY DEF Params
<1>2. Len(p) + 1 \in DOMAIN Append(p, r)
  BY <1>1 DEF Params
<1> QED
  BY <1>1, <1>2 DEF ToSet

-----------------------------------------------------------------------------
(* The inductive invariant.                                                *)

\* The flag day of the request in progress lies ahead, and is not before any that
\* is scheduled already.
Ahead ==
  /\ \A r \in Requests :
       /\ activation[r] <= now + Delay
       /\ pc[r] \in Running =>
            now < activation[r] /\ \A i \in DOMAIN next : next[i].deadline <= activation[r]
  /\ \A i \in DOMAIN next : next[i].deadline <= now + Delay

\* The revisions of the schedule extend one another in the order of their flag
\* days, the last one extends CURRENT, and those not due are longer than it.
Chain ==
  /\ \A i, j \in DOMAIN next : i < j =>
       /\ IsPrefix(next[i].hash, next[j].hash)
       /\ Len(next[i].hash) < Len(next[j].hash)
       /\ next[i].deadline <= next[j].deadline
  /\ next # <<>> => current \in Params /\ IsPrefix(current, Last(next).hash)
  /\ \A i \in DOMAIN next : next[i].deadline > now => Len(current) < Len(next[i].hash)

\* A request works on the effective parameters, however long ago it read them.
Base ==
  \A r \in Requests :
    /\ pc[r] = "basing" => next = <<>>
    /\ pc[r] = "storing" => params[r] = Effective
    /\ pc[r] \in {"stored", "scheduling"} => params[r] = Append(Effective, r)

\* An acknowledged change is never overwritten, not even for a moment.
Kept == \A r \in Requests : pc[r] = "done" => Effective \in Params /\ r \in ToSet(Effective)

\* A map read applies a revision that is still scheduled and extends CURRENT, and
\* deletes the schedule only once CURRENT is one of its revisions.
Behind ==
  \A m \in Readers :
    /\ rpc[m] \in {"reading", "writing"} /\ update[m] # None =>
         /\ \E i \in DOMAIN next : update[m] = next[i]
         /\ IsPrefix(current, update[m].hash)
    /\ rpc[m] = "reading" => "hash" \in waiting[m] \/ hash[m] = current
    /\ rpc[m] \in {"finding", "clearing"} =>
         update[m] = None /\ \E i \in DOMAIN next : next[i].hash = current

SequentialInv == Ahead /\ Chain /\ Base /\ Kept /\ Behind

\* Every fact the steps below start from.
Known == TypeOK /\ StoredFirst /\ Punctual /\ Founding /\ Alone /\ SequentialInv

-----------------------------------------------------------------------------
(* The invariant holds initially and every step keeps it.                  *)

\* The network starts without parameters and with no request.
LEMMA InitSequential == Init => SequentialInv
<1> SUFFICES ASSUME Init PROVE SequentialInv
  OBVIOUS
<1>1. /\ next = <<>> /\ DOMAIN next = {} /\ current = Absent /\ stored = {} /\ now = 0
      /\ \A r \in Requests : pc[r] = "idle" /\ activation[r] = 0
      /\ \A m \in Readers : rpc[m] = "idle"
  BY DEF Init
<1>2. Base /\ Kept /\ Behind
  BY <1>1 DEF Base, Kept, Behind
<1>3. Ahead /\ Chain
  BY <1>1 DEF Ahead, Chain, Running
<1> QED
  BY <1>2, <1>3 DEF SequentialInv

\* No request writes CURRENT itself: its flag day lies ahead.
LEMMA NoSwitch ==
  ASSUME Known, NEW r \in Requests
  PROVE  pc[r] # "switching" /\ ~OpenCurrent(r) /\ ~Switch(r)
<1>1. activation[r] \in Nat /\ now \in Nat
  BY DEF Known, TypeOK
<1>2. pc[r] \in Running => now < activation[r]
  BY DEF Known, SequentialInv, Ahead
<1>3. pc[r] = "switching" => activation[r] <= now
  BY DEF Known, Punctual
<1>4. pc[r] # "switching"
  BY <1>1, <1>2, <1>3 DEF Running
<1>5. ~OpenCurrent(r)
  BY <1>1, <1>2 DEF OpenCurrent, Running
<1> QED
  BY <1>4, <1>5 DEF Switch

\* With the Mongo storage every revision of the schedule is complete, and the last
\* one is the effective one.
LEMMA Revisions ==
  ASSUME Sequential, TypeOK
  PROVE  /\ \A i \in DOMAIN next : next[i] \in Update /\ next[i].hash \in Params /\ next[i].deadline \in Nat
         /\ DOMAIN next = 1 .. Len(next) /\ Len(next) \in Nat
         /\ next = <<>> => Effective = current
         /\ next # <<>> => /\ Len(next) \in DOMAIN next
                           /\ Last(next) = next[Len(next)]
                           /\ Last(next) \in Update
                           /\ Effective = Last(next).hash
<1>1. /\ next \in Seq(Update \cup {Torn})
      /\ \A i \in DOMAIN next : next[i] # Torn
  BY DEF TypeOK, Sequential
<1>2. \A i \in DOMAIN next : next[i] \in Update
  BY <1>1
<1>3. \A i \in DOMAIN next : next[i].hash \in Params /\ next[i].deadline \in Nat
  BY <1>2, Sorts
<1>4. DOMAIN next = 1 .. Len(next) /\ Len(next) \in Nat
  BY <1>1
<1>5. ASSUME next # <<>>
      PROVE  Len(next) \in DOMAIN next /\ Last(next) = next[Len(next)]
  BY <1>1, <1>5, LastOfNext
<1>6. next # <<>> => Effective = Last(next).hash /\ Last(next) \in Update
  BY <1>2, <1>5, Sorts DEF Effective
<1> QED
  BY <1>2, <1>3, <1>4, <1>5, <1>6 DEF Effective

\* Everything scheduled, and CURRENT, is a prefix of the effective parameters.
LEMMA BelowEffective ==
  ASSUME Sequential, Known, current # Absent
  PROVE  /\ current \in Params /\ Effective \in Params
         /\ IsPrefix(current, Effective)
         /\ \A i \in DOMAIN next : IsPrefix(next[i].hash, Effective)
<1>1. current \in Params
  BY DEF Known, TypeOK, Sequential
<1>2. CASE next = <<>>
  BY <1>1, <1>2, Revisions, PrefixLeast DEF Known
<1>3. CASE next # <<>>
  <2> DEFINE l == Len(next)
  <2>1. Effective = next[l].hash /\ l \in DOMAIN next /\ Effective \in Params
    BY <1>3, Revisions DEF Known
  <2>2. IsPrefix(current, Effective)
    BY <1>3, Revisions DEF Known, SequentialInv, Chain
  <2>3. ASSUME NEW i \in DOMAIN next
        PROVE  IsPrefix(next[i].hash, Effective)
    <3>1. i < l \/ i = l
      BY Revisions DEF Known
    <3>2. CASE i < l
      BY <2>1, <3>2 DEF Known, SequentialInv, Chain
    <3>3. CASE i = l
      BY <2>1, <3>3, PrefixLeast
    <3> QED
      BY <3>1, <3>2, <3>3
  <2> QED
    BY <1>1, <2>1, <2>2, <2>3
<1> QED
  BY <1>2, <1>3

\* The clock may pass a flag day, but not that of the request in progress.
LEMMA TickKeeps == Sequential /\ Known /\ Tick /\ Timely => SequentialInv'
<1> SUFFICES ASSUME Sequential, Known, Tick, Timely
             PROVE  SequentialInv'
  OBVIOUS
<1>1. now' = now + 1 /\ UNCHANGED <<persistent, boot, requestVars, readerVars>>
  BY DEF Tick
<1>2. now \in Nat /\ Delay \in Nat /\ \A r \in Requests : activation[r] \in Nat
  BY DEF Known, TypeOK
<1> USE DEF persistent, requestVars, readerVars
<1>3. Base' /\ Kept' /\ Behind'
  BY <1>1 DEF Known, SequentialInv, Base, Kept, Behind, Effective
<1>4. Ahead'
  <2>1. \A r \in Requests : pc[r] \in Running => now' < activation[r]
    BY <1>1, <1>2 DEF Timely, InFlight
  <2> QED
    BY <1>1, <1>2, <2>1, Revisions DEF Known, SequentialInv, Ahead
<1>5. Chain'
  BY <1>1, <1>2, Revisions DEF Known, SequentialInv, Chain
<1> QED
  BY <1>3, <1>4, <1>5 DEF SequentialInv

\* A request that begins is alone, and its flag day is the latest.
LEMMA CallKeeps ==
  ASSUME Sequential, Known, NEW r \in Requests, Call(r)
  PROVE  SequentialInv'
<1>1. /\ pc' = [pc EXCEPT ![r] = "probing"]
      /\ activation' = [activation EXCEPT ![r] = now + Delay]
      /\ UNCHANGED <<now, persistent, boot, params, readerVars>>
  BY DEF Call, Go
<1>2. InFlight = {}
  BY NoneBefore DEF Call, Sequential
<1>3. /\ pc \in [Requests -> Running \cup {"idle", "done", "failed", "lost"}]
      /\ activation \in [Requests -> Nat] /\ now \in Nat /\ Delay \in Nat /\ Delay > 0
  BY DEF Known, TypeOK, Sequential
<1>4. \A q \in Requests : q # r => pc[q] \notin Running /\ pc'[q] = pc[q] /\ activation'[q] = activation[q]
  BY <1>1, <1>2, <1>3 DEF InFlight
<1>5. pc'[r] = "probing" /\ activation'[r] = now + Delay
  BY <1>1, <1>3
<1> USE DEF persistent, readerVars
<1>6. Base' /\ Kept' /\ Chain' /\ Behind'
  BY <1>1, <1>4, <1>5 DEF Known, SequentialInv, Base, Kept, Chain, Behind, Effective
<1>7. Ahead'
  BY <1>1, <1>3, <1>4, <1>5, Revisions DEF Known, SequentialInv, Ahead
<1> QED
  BY <1>6, <1>7 DEF SequentialInv

\* The template is written while nothing has been built on anything else.
LEMMA BootSwitchKeeps == Sequential /\ Known /\ BootSwitch => SequentialInv'
<1> SUFFICES ASSUME Sequential, Known, BootSwitch
             PROVE  SequentialInv'
  OBVIOUS
<1>1. /\ current = Absent /\ next = <<>> /\ DOMAIN next = {}
      /\ \A r \in Requests : pc[r] \in {"idle", "probing", "fetching", "basing", "failed", "lost"}
  BY DEF Known, Founding, BootSwitch
<1>2. /\ current' = Template /\ boot' = "done"
      /\ UNCHANGED <<now, stored, next, pc, activation, params, rpc, waiting, update, hash>>
  BY DEF BootSwitch, requestVars, readerVars
<1>3. Ahead' /\ Base' /\ Kept'
  BY <1>1, <1>2, Sorts DEF Known, SequentialInv, Ahead, Base, Kept
<1>4. Chain'
  BY <1>1, <1>2 DEF Chain
<1>5. Behind'
  BY <1>1, <1>2, Sorts DEF Known, SequentialInv, Behind, TypeOK
<1> QED
  BY <1>3, <1>4, <1>5 DEF SequentialInv

\* A request that moves on without touching a register.
LEMMA RequestMoves ==
  ASSUME Sequential, Known, NEW r \in Requests, pc[r] \in Running,
         NEW label, pc' = [pc EXCEPT ![r] = label],
         label \in {"storing", "stored", "basing", "failed"},
         UNCHANGED <<now, current, next, boot, activation, readerVars>>,
         current = Absent => stored' = stored /\ label \in {"basing", "failed"},
         label = "basing" => next = <<>>,
         \A q \in Requests : q # r => params'[q] = params[q],
         label = "storing" => params'[r] = Effective,
         label = "stored" => params'[r] = Append(Effective, r)
  PROVE  SequentialInv'
<1>1. \A q \in Requests : q # r => pc'[q] = pc[q] /\ pc[q] \notin Running
  BY DEF Known, TypeOK, Alone, InFlight
<1>2. pc'[r] = label
  BY DEF Known, TypeOK
<1>3. Ahead'
  BY <1>1, <1>2 DEF Known, SequentialInv, Ahead
<1>4. Chain' /\ Behind'
  BY DEF Known, SequentialInv, Chain, Behind, readerVars
<1>5. Effective' = Effective
  BY DEF Effective
<1>6. Base' /\ Kept'
  BY <1>1, <1>2, <1>5 DEF Known, SequentialInv, Base, Kept, Running
<1> QED
  BY <1>3, <1>4, <1>6 DEF SequentialInv

\* The base is the last revision of the schedule, or the request fails.
LEMMA FetchNextKeeps ==
  ASSUME Sequential, Known, NEW r \in Requests, FetchNext(r)
  PROVE  SequentialInv'
<1> USE DEF FetchNext, Go, persistent, Running
<1>1. CASE next # <<>> /\ Last(next) # Torn
  <2>1. current # Absent
    BY <1>1 DEF Known, Founding
  <2>2. params' = [params EXCEPT ![r] = Effective]
    BY <1>1 DEF Effective
  <2>3. params'[r] = Effective /\ \A q \in Requests : q # r => params'[q] = params[q]
    BY <2>2 DEF Known, TypeOK
  <2> QED
    BY <1>1, <2>1, <2>3, RequestMoves
<1>2. CASE ~(next # <<>> /\ Last(next) # Torn)
  BY <1>2, RequestMoves DEF Sequential
<1> QED
  BY <1>1, <1>2

\* The base is CURRENT, and nothing has been scheduled since the probe.
LEMMA ReadCurrentKeeps ==
  ASSUME Sequential, Known, NEW r \in Requests, ReadCurrent(r)
  PROVE  SequentialInv'
<1> USE DEF ReadCurrent, Go, persistent, Running
<1>1. CASE current \in stored
  <2>1. current # Absent
    BY <1>1, Sorts DEF Known, TypeOK
  <2>2. Effective = current
    BY Revisions DEF Known, SequentialInv, Base
  <2>3. params'[r] = Effective /\ \A q \in Requests : q # r => params'[q] = params[q]
    BY <1>1, <2>2 DEF Known, TypeOK
  <2> QED
    BY <1>1, <2>1, <2>3, RequestMoves
<1>2. CASE current \notin stored
  BY <1>2, RequestMoves
<1> QED
  BY <1>1, <1>2

\* The new parameters are made from the effective ones.
LEMMA StoreKeeps ==
  ASSUME Sequential, Known, NEW r \in Requests, Store(r)
  PROVE  SequentialInv'
<1> USE DEF Store, Go, Running
<1>1. current # Absent
  BY DEF Known, Founding
<1>2. params[r] = Effective
  BY DEF Known, SequentialInv, Base
<1>3. params'[r] = Append(Effective, r) /\ \A q \in Requests : q # r => params'[q] = params[q]
  BY <1>2 DEF Known, TypeOK
<1> QED
  BY <1>1, <1>3, RequestMoves

\* A map read takes the last revision, which extends CURRENT.
LEMMA MapFetchNextKeeps ==
  ASSUME Sequential, Known, NEW m \in Readers, MapFetchNext(m)
  PROVE  SequentialInv'
<1>1. UNCHANGED <<now, stored, current, next, boot, pc, activation, params, hash>>
  BY DEF MapFetchNext, persistent, requestVars
<1>2. rpc[m] = "reading" /\ waiting' = [waiting EXCEPT ![m] = @ \ {"fetch"}]
  BY DEF MapFetchNext
<1>3. Ahead' /\ Chain' /\ Base' /\ Kept'
  BY <1>1 DEF Known, SequentialInv, Ahead, Chain, Base, Kept, Effective
<1>4. \A n \in Readers : n = m /\ ("hash" \in waiting[n] => "hash" \in waiting'[n])
  BY <1>2 DEF Sequential, Known, TypeOK
<1>5. CASE next # <<>> /\ Last(next) # Torn
  <2>1. update'[m] = Last(next) /\ rpc' = rpc
    BY <1>5 DEF MapFetchNext, Known, TypeOK
  <2>2. \E i \in DOMAIN next : update'[m] = next[i]
    BY <1>5, <2>1, Revisions DEF Known
  <2>3. IsPrefix(current, update'[m].hash)
    BY <1>5, <2>1 DEF Known, SequentialInv, Chain
  <2>4. Behind'
    BY <1>1, <1>2, <1>4, <2>1, <2>2, <2>3 DEF Known, SequentialInv, Behind
  <2> QED
    BY <1>3, <2>4 DEF SequentialInv
<1>6. CASE ~(next # <<>> /\ Last(next) # Torn)
  <2>1. rpc'[m] = "failed"
    BY <1>6 DEF MapFetchNext, Becomes, Known, TypeOK, Sequential
  <2>2. Behind'
    BY <1>4, <2>1 DEF Behind
  <2> QED
    BY <1>3, <2>2 DEF SequentialInv
<1> QED
  BY <1>5, <1>6

\* Where the revisions of the schedule are after one has been added.
LEMMA AppendRevision ==
  ASSUME NEW s \in Seq(Update \cup {Torn}), NEW u \in Update
  PROVE  /\ DOMAIN Append(s, u) = 1 .. Len(s) + 1 /\ Len(Append(s, u)) = Len(s) + 1
         /\ Append(s, u) # <<>> /\ Append(s, u)[Len(s) + 1] = u
         /\ \A i \in DOMAIN s : Append(s, u)[i] = s[i]
  OBVIOUS

\* Where they are after the oldest has been deleted.
LEMMA TailRevision ==
  ASSUME NEW s \in Seq(Update \cup {Torn}), s # <<>>
  PROVE  /\ DOMAIN Tail(s) = 1 .. Len(s) - 1 /\ Len(Tail(s)) = Len(s) - 1
         /\ \A i \in 1 .. Len(s) - 1 : Tail(s)[i] = s[i + 1]
         /\ Len(s) > 1 => Tail(s) # <<>>
         /\ Len(s) = 1 => Tail(s) = <<>>
<1> DEFINE t == Tail(s)
<1>1. /\ t \in Seq(Update \cup {Torn}) /\ Len(t) = Len(s) - 1
      /\ \A i \in 1 .. Len(s) - 1 : t[i] = s[i + 1]
  OBVIOUS
<1> HIDE DEF t
<1>2. Len(s) > 1 => t # <<>>
  BY <1>1
<1>3. Len(s) = 1 => t = <<>>
  BY <1>1
<1>4. DOMAIN t = 1 .. Len(s) - 1
  BY <1>1
<1> QED
  BY <1>1, <1>2, <1>3, <1>4 DEF t

\* The write of NEXT appends the request to the effective parameters.
LEMMA ScheduleKeeps ==
  ASSUME Sequential, Known, NEW r \in Requests, Schedule(r)
  PROVE  SequentialInv' /\ current # Absent /\ Effective' = Append(Effective, r)
<1> DEFINE l == Len(next)
<1> DEFINE u == [hash |-> params[r], deadline |-> activation[r]]
<1>1. pc[r] = "scheduling" /\ pc[r] \in Running
  BY DEF Schedule, Running
<1>2. /\ pc' = [pc EXCEPT ![r] = "done"]
      /\ UNCHANGED <<now, stored, current, boot, activation, params, readerVars>>
  BY DEF Schedule, Go
<1>3. \A q \in Requests : q # r => pc'[q] = pc[q] /\ pc[q] \notin Running
  BY <1>1, <1>2 DEF Known, TypeOK, Alone, InFlight
<1>4. pc'[r] = "done"
  BY <1>2 DEF Known, TypeOK
<1>5. current # Absent
  BY <1>1 DEF Known, Founding
<1>6. params[r] = Append(Effective, r) /\ params[r] \in Params
  BY <1>1 DEF Known, TypeOK, SequentialInv, Base
<1>7. u \in Update /\ u.hash = Append(Effective, r) /\ u.deadline = activation[r]
  BY <1>6 DEF Known, TypeOK, Update
<1>8. next' = Append(next, u)
  BY DEF Schedule, Put, Sequential
<1> HIDE DEF u
<1>9. /\ l \in Nat /\ DOMAIN next = 1 .. l /\ DOMAIN next' = 1 .. l + 1
      /\ Len(next') = l + 1 /\ next' # <<>>
      /\ \A i \in DOMAIN next : next'[i] = next[i]
      /\ next'[l + 1] = u
  BY <1>7, <1>8, AppendRevision, Revisions DEF Known, TypeOK
<1>10. Last(next') = u
  BY <1>9 DEF Last
<1> HIDE DEF l
<1>11. Effective' = Append(Effective, r)
  BY <1>7, <1>9, <1>10, Sorts DEF Effective
<1>12. /\ current \in Params /\ Effective \in Params
       /\ IsPrefix(current, Effective)
       /\ \A i \in DOMAIN next : IsPrefix(next[i].hash, Effective)
  BY <1>5, BelowEffective
<1>13. IsPrefix(Effective, u.hash) /\ Len(u.hash) = Len(Effective) + 1 /\ u.hash \in Params
  BY <1>7, <1>12, PrefixAppend, AppendLineage
<1>14. ASSUME NEW p \in Params, IsPrefix(p, Effective)
       PROVE  IsPrefix(p, u.hash) /\ Len(p) < Len(u.hash)
  <2>1. IsPrefix(p, u.hash)
    BY <1>12, <1>13, <1>14, PrefixTransitive
  <2>2. Len(p) \in Nat /\ Len(Effective) \in Nat /\ Len(p) <= Len(Effective)
    BY <1>12, <1>14, PrefixLength
  <2> QED
    BY <1>13, <2>1, <2>2
<1>15. Ahead'
  <2>1. \A i \in DOMAIN next' : next'[i].deadline <= now + Delay
    BY <1>7, <1>9 DEF Known, SequentialInv, Ahead
  <2> QED
    BY <1>2, <1>3, <1>4, <2>1 DEF Known, SequentialInv, Ahead, Running
<1>16. Chain'
  <2>1. ASSUME NEW i \in DOMAIN next', NEW j \in DOMAIN next', i < j
        PROVE  /\ IsPrefix(next'[i].hash, next'[j].hash)
               /\ Len(next'[i].hash) < Len(next'[j].hash)
               /\ next'[i].deadline <= next'[j].deadline
    <3>1. i \in DOMAIN next
      BY <1>9, <2>1
    <3>2. CASE j \in DOMAIN next
      BY <1>9, <2>1, <3>1, <3>2 DEF Known, SequentialInv, Chain
    <3>3. CASE j = l + 1
      <4>1. next[i].hash \in Params /\ IsPrefix(next[i].hash, Effective)
        BY <1>12, <3>1, Revisions DEF Known
      <4>2. IsPrefix(next[i].hash, u.hash) /\ Len(next[i].hash) < Len(u.hash)
        BY <1>14, <4>1
      <4>3. next[i].deadline <= u.deadline
        BY <1>1, <1>7, <3>1 DEF Known, SequentialInv, Ahead
      <4> QED
        BY <1>9, <3>1, <3>3, <4>2, <4>3
    <3> QED
      BY <1>9, <3>2, <3>3
  <2>2. current \in Params /\ IsPrefix(current, Last(next').hash)
    BY <1>10, <1>12, <1>14
  <2>3. ASSUME NEW i \in DOMAIN next', next'[i].deadline > now
        PROVE  Len(current) < Len(next'[i].hash)
    <3>1. CASE i \in DOMAIN next
      BY <1>9, <2>3, <3>1 DEF Known, SequentialInv, Chain
    <3>2. CASE i = l + 1
      BY <1>9, <1>12, <1>14, <3>2
    <3> QED
      BY <1>9, <3>1, <3>2
  <2> QED
    BY <1>2, <2>1, <2>2, <2>3 DEF Chain
<1>17. Base'
  BY <1>3, <1>4 DEF Base, Running
<1>18. Kept'
  BY <1>3, <1>4, <1>7, <1>11, <1>12, <1>13, KeptByAppend DEF Known, SequentialInv, Kept
<1>19. Behind'
  BY <1>2, <1>9 DEF Known, SequentialInv, Behind, readerVars
<1> QED
  BY <1>5, <1>11, <1>15, <1>16, <1>17, <1>18, <1>19 DEF SequentialInv

\* The write of CURRENT moves it up to a revision that is still scheduled.
LEMMA MapSwitchKeeps ==
  ASSUME Sequential, Known, NEW m \in Readers, MapSwitch(m)
  PROVE  /\ SequentialInv' /\ Effective' = Effective /\ current # Absent
         /\ current' \in Params /\ IsPrefix(current, current') /\ IsPrefix(current', Effective)
         /\ \E i \in DOMAIN next : next[i].hash = current'
<1>1. /\ rpc[m] = "writing" /\ current' = update[m].hash
      /\ rpc' = [rpc EXCEPT ![m] = "finding"]
      /\ UNCHANGED <<now, stored, next, boot, pc, activation, params>>
  BY DEF MapSwitch, Becomes, requestVars, Sequential
<1>2. update[m] \in Update /\ update[m] # None
  BY <1>1, Sorts DEF Known, TypeOK
<1>3. update[m].deadline <= now
  BY <1>1 DEF Known, Punctual
<1>4. IsPrefix(current, update[m].hash) /\ \E i \in DOMAIN next : update[m] = next[i]
  BY <1>1, <1>2 DEF Known, SequentialInv, Behind
<1>5. PICK k \in DOMAIN next : update[m] = next[k]
  BY <1>4
<1>6. current' = next[k].hash /\ next # <<>>
  BY <1>1, <1>5
<1>7. current # Absent /\ current' # Absent
  BY <1>1, <1>2, <1>6, Sorts DEF Known, Founding
<1>8. /\ current' \in Params /\ Effective \in Params
      /\ IsPrefix(current, current') /\ IsPrefix(current', Effective)
  BY <1>1, <1>4, <1>6, <1>7, BelowEffective, Revisions DEF Known
<1>9. Effective' = Effective
  BY <1>1, <1>6, Revisions, Sorts DEF Known, Effective
<1>10. Ahead'
  BY <1>1 DEF Known, SequentialInv, Ahead
<1>11. Base' /\ Kept'
  BY <1>1, <1>9 DEF Known, SequentialInv, Base, Kept
<1>12. Chain'
  <2>1. IsPrefix(current', Last(next').hash)
    BY <1>1, <1>6, <1>8, Revisions DEF Known
  <2>2. ASSUME NEW i \in DOMAIN next, next[i].deadline > now
        PROVE  Len(current') < Len(next[i].hash)
    <3>1. next[k].deadline \in Nat /\ next[i].deadline \in Nat /\ now \in Nat
      BY Revisions DEF Known, TypeOK
    <3>2. next[k].deadline < next[i].deadline
      BY <1>3, <1>5, <2>2, <3>1
    <3>3. k < i
      <4>1. i < k => next[i].deadline <= next[k].deadline
        BY DEF Known, SequentialInv, Chain
      <4> QED
        BY <3>1, <3>2, <4>1, Revisions DEF Known
    <3> QED
      BY <1>6, <3>3 DEF Known, SequentialInv, Chain
  <2> QED
    BY <1>1, <1>8, <2>1, <2>2 DEF Known, SequentialInv, Chain
<1>13. Behind'
  <2>1. rpc'[m] = "finding" /\ update'[m] = None
    BY <1>1 DEF MapSwitch, Known, TypeOK
  <2>2. \A n \in Readers : n = m
    BY DEF Sequential
  <2> QED
    BY <1>1, <1>6, <2>1, <2>2 DEF Behind
<1> QED
  BY <1>6, <1>7, <1>8, <1>9, <1>10, <1>11, <1>12, <1>13 DEF SequentialInv

\* The oldest revision is deleted once CURRENT has reached one of them: what is
\* effective stays so, even when the schedule becomes empty.
LEMMA MapClearNextKeeps ==
  ASSUME Sequential, Known, NEW m \in Readers, MapClearNext(m)
  PROVE  SequentialInv' /\ Effective' = Effective
<1>1. /\ rpc[m] = "clearing" /\ rpc'[m] \in {"failed", "answered"}
      /\ UNCHANGED <<now, stored, current, boot, pc, activation, params, update, hash, waiting>>
  BY DEF MapClearNext, Becomes, requestVars, Known, TypeOK
<1>2. PICK k \in DOMAIN next : next[k].hash = current
  BY <1>1 DEF Known, SequentialInv, Behind
<1>3. Behind'
  BY <1>1 DEF Behind, Sequential
<1>4. CASE next' = next
  <2>1. Ahead' /\ Chain' /\ Base' /\ Kept' /\ Effective' = Effective
    BY <1>1, <1>4 DEF Known, SequentialInv, Ahead, Chain, Base, Kept, Effective
  <2> QED
    BY <1>3, <2>1 DEF SequentialInv
<1>5. CASE next # <<>> /\ next' = Tail(next)
  <2> DEFINE l == Len(next)
  <2>1. l \in Nat /\ l > 0 /\ DOMAIN next = 1 .. l /\ k \in 1 .. l
    BY <1>5, Revisions DEF Known
  <2>2. /\ DOMAIN next' = 1 .. l - 1 /\ Len(next') = l - 1
        /\ \A i \in 1 .. l - 1 : next'[i] = next[i + 1]
        /\ l > 1 => next' # <<>>
        /\ l = 1 => next' = <<>>
    BY <1>5, TailRevision DEF Known, TypeOK
  <2>3. current # Absent
    BY <1>5 DEF Known, Founding
  <2>4. /\ Last(next) = next[l] /\ Last(next) # Torn /\ Effective = next[l].hash
    BY <1>5, Revisions, Sorts DEF Known
  <2>5. l > 1 => Last(next') = Last(next)
    BY <2>1, <2>2, <2>4 DEF Last
  <2> HIDE DEF l
  <2>6. Effective' = Effective
    <3>1. CASE l = 1
      BY <1>1, <1>2, <2>1, <2>2, <2>4, <3>1 DEF Effective
    <3>2. CASE l > 1
      BY <1>5, <2>2, <2>4, <2>5, <3>2 DEF Effective
    <3> QED
      BY <2>1, <3>1, <3>2
  <2>7. \A i \in DOMAIN next' : i + 1 \in DOMAIN next /\ next'[i] = next[i + 1]
    BY <2>1, <2>2
  <2>8. Kept'
    BY <1>1, <2>6 DEF Known, SequentialInv, Kept
  <2>9. Ahead'
    BY <1>1, <2>7 DEF Known, SequentialInv, Ahead
  <2>10. Base'
    <3>1. \A r \in Requests : pc[r] # "basing"
      BY <1>5 DEF Known, SequentialInv, Base
    <3> QED
      BY <1>1, <2>6, <3>1 DEF Known, SequentialInv, Base
  <2>11. Chain'
    <3>1. ASSUME NEW i \in DOMAIN next', NEW j \in DOMAIN next', i < j
          PROVE  /\ IsPrefix(next'[i].hash, next'[j].hash)
                 /\ Len(next'[i].hash) < Len(next'[j].hash)
                 /\ next'[i].deadline <= next'[j].deadline
      <4>1. i + 1 < j + 1
        BY <2>1, <2>2, <3>1
      <4> QED
        BY <2>7, <4>1 DEF Known, SequentialInv, Chain
    <3>2. next' # <<>> => current \in Params /\ IsPrefix(current, Last(next').hash)
      BY <1>5, <2>1, <2>2, <2>5 DEF Known, SequentialInv, Chain
    <3>3. \A i \in DOMAIN next' : next'[i].deadline > now => Len(current) < Len(next'[i].hash)
      BY <2>7 DEF Known, SequentialInv, Chain
    <3> QED
      BY <1>1, <3>1, <3>2, <3>3 DEF Chain
  <2> QED
    BY <1>3, <2>6, <2>8, <2>9, <2>10, <2>11 DEF SequentialInv
<1> QED
  BY <1>4, <1>5 DEF MapClearNext

\* Every step keeps the invariant.
LEMMA NextSequential == Sequential /\ Known /\ [TimelyNext]_vars => SequentialInv'
<1> SUFFICES ASSUME Sequential, Known, [TimelyNext]_vars
             PROVE  SequentialInv'
  OBVIOUS
<1>1. CASE BootSwitch
  BY <1>1, BootSwitchKeeps
<1>2. CASE Tick /\ Timely
  BY <1>2, TickKeeps
<1>3. ASSUME NEW r \in Requests, FetchNext(r) \/ ReadCurrent(r) \/ Store(r) \/ Schedule(r) \/ Call(r)
      PROVE  SequentialInv'
  BY <1>3, FetchNextKeeps, ReadCurrentKeeps, StoreKeeps, ScheduleKeeps, CallKeeps
<1>4. ASSUME NEW m \in Readers, MapFetchNext(m) \/ MapSwitch(m) \/ MapClearNext(m)
      PROVE  SequentialInv'
  BY <1>4, MapFetchNextKeeps, MapSwitchKeeps, MapClearNextKeeps
<1> USE DEF Known, SequentialInv, Ahead, Chain, Base, Kept, Behind, Running,
     Effective, Sequential, persistent, requestVars, readerVars, Becomes, Go, TypeOK, Reading, Opened
<1>5. CASE Start
  BY <1>5 DEF Start
<1>6. CASE BootRead
  BY <1>6 DEF BootRead
<1>7. CASE BootStore
  BY <1>7 DEF BootStore
<1>8. CASE Crash
  BY <1>8 DEF Crash
<1>9. ASSUME NEW r \in Requests, ProbeNext(r)
      PROVE  SequentialInv'
  BY <1>9 DEF ProbeNext
<1>10. ASSUME NEW r \in Requests, OpenNext(r)
      PROVE  SequentialInv'
  BY <1>10 DEF OpenNext
<1>11. ASSUME NEW m \in Readers, MapStart(m)
      PROVE  SequentialInv'
  BY <1>11 DEF MapStart
<1>12. ASSUME NEW m \in Readers, MapProbeNext(m)
      PROVE  SequentialInv'
  BY <1>12 DEF MapProbeNext
<1>13. ASSUME NEW m \in Readers, MapReadHash(m)
      PROVE  SequentialInv'
  BY <1>13 DEF MapReadHash
<1>14. ASSUME NEW m \in Readers, MapAnswer(m)
      PROVE  SequentialInv'
  BY <1>14 DEF MapAnswer
<1>15. ASSUME NEW m \in Readers, MapOpenCurrent(m)
      PROVE  SequentialInv'
  BY <1>15 DEF MapOpenCurrent
<1>16. ASSUME NEW m \in Readers, MapFindNext(m)
      PROVE  SequentialInv'
  BY <1>16 DEF MapFindNext
<1>17. CASE UNCHANGED vars
  BY <1>17 DEF vars
<1>18. CASE BootOpen
  <2>1. UNCHANGED <<now, persistent, requestVars, readerVars, crashes>>
    BY <1>18 DEF BootOpen
  <2> QED
    BY <2>1
<1>19. /\ \A r \in Requests : ~OpenCurrent(r) /\ ~Switch(r) /\ ~RequestFault(r)
       /\ \A m \in Readers : ~MapFault(m)
       /\ ~BootFault
  BY NoSwitch DEF RequestFault, MapFault, BootFault
<1> HIDE DEF Known, SequentialInv, Sequential, TypeOK
<1> QED
  BY <1>1, <1>2, <1>3, <1>4, <1>5, <1>6, <1>7, <1>8, <1>9, <1>10, <1>11, <1>12, <1>13, <1>14, <1>15,
    <1>16, <1>17, <1>18, <1>19 DEF TimelyNext, BootStep, RequestStep, MapStep

-----------------------------------------------------------------------------
(* What follows.                                                           *)

\* In every reachable state the schedule is a chain above CURRENT that requests and
\* map reads only move along.
THEOREM SequentialInvariant ==
  ASSUME Sequential
  PROVE  TimelySpec => []Known
<1>1. Init => SequentialInv
  BY InitSequential
<1>2. /\ TypeOK /\ StoredFirst /\ Punctual /\ Founding /\ Alone /\ SequentialInv
      /\ [TimelyNext]_vars
      => SequentialInv'
  BY NextSequential DEF Known
<1>3. TypeOK /\ StoredFirst /\ Punctual /\ Founding /\ Alone /\ SequentialInv => Known
  BY DEF Known
<1>4. Spec => []Founding
  BY FoundingInvariant DEF Sequential, Faultless
<1>5. Spec => []Alone
  <2>1. Spec => [](Alone /\ InOrder)
    BY InOrderInvariant DEF Sequential
  <2> QED
    BY <2>1, PTL
<1> QED
  BY <1>1, <1>2, <1>3, <1>4, <1>5, TimelyIsSpec, TypeCorrect, StoredFirstInvariant,
     PunctualInvariant,
    PTL DEF TimelySpec

\* When nothing is in progress no acknowledged change has been overwritten; nor,
\* as Kept says, while something is.
THEOREM NothingIsLost ==
  ASSUME Sequential
  PROVE  TimelySpec => []NoLostUpdate
<1>1. Known => NoLostUpdate
  BY DEF Known, SequentialInv, Kept, NoLostUpdate
<1> QED
  BY <1>1, SequentialInvariant, PTL

\* CURRENT is written by start-up and by map reads only.
LEMMA CurrentMoves ==
  ASSUME Sequential, Known, [TimelyNext]_vars, current' # current
  PROVE  BootSwitch \/ \E m \in Readers : MapSwitch(m)
<1>1. \A r \in Requests : ~Switch(r)
  BY NoSwitch
<1> QED
  BY <1>1 DEF TimelyNext, vars, Sequential, Tick, Start, BootStep, BootRead, BootStore, BootOpen, Crash,
     BootFault,
    Call, RequestStep, ProbeNext, FetchNext, ReadCurrent, Store, OpenCurrent, OpenNext, Schedule,
    RequestFault, MapStart, MapStep, MapProbeNext, MapFetchNext, MapReadHash, MapAnswer,
    MapOpenCurrent, MapFindNext, MapClearNext, MapFault, persistent, Opened

\* Once there are parameters in force, a step keeps them or extends them.
LEMMA CurrentExtended ==
  ASSUME Sequential, Known, [TimelyNext]_vars, current \in Params
  PROVE  current' \in Params /\ IsPrefix(current, current')
<1>1. CASE current' = current
  BY <1>1, PrefixLeast
<1>2. CASE current' # current
  <2>1. ~BootSwitch
    BY Sorts DEF BootSwitch, Known, Founding
  <2>2. PICK m \in Readers : MapSwitch(m)
    BY <1>2, <2>1, CurrentMoves
  <2> QED
    BY <2>2, MapSwitchKeeps
<1> QED
  BY <1>1, <1>2

\* CURRENT only moves to what extends it, so a node that has followed it never has
\* to go back.
THEOREM CurrentGoesForward ==
  ASSUME Sequential
  PROVE  TimelySpec => ForwardOnly
<1>1. Known /\ [TimelyNext]_vars => [{current, current'} \subseteq Params => IsPrefix(current, current')]_vars
  BY CurrentExtended
<1> QED
  BY <1>1, SequentialInvariant, PTL DEF TimelySpec, ForwardOnly

-----------------------------------------------------------------------------
(* The refinement of the ledger.                                           *)

\* A step that leaves both registers leaves what is accepted.
LEMMA EffectiveKept ==
  ASSUME UNCHANGED <<current, next>>
  PROVE  Effective' = Effective
  BY DEF Effective

\* A request becomes done in Schedule only.
LEMMA DoneBySchedule ==
  ASSUME Sequential, Known, [TimelyNext]_vars, \A r \in Requests : ~Schedule(r)
  PROVE  {r \in Requests : pc'[r] = "done"} = {r \in Requests : pc[r] = "done"}
<1>1. \A r \in Requests : ~Switch(r)
  BY NoSwitch
<1>2. pc \in [Requests -> Running \cup {"idle", "done", "failed", "lost"}]
  BY DEF Known, TypeOK
<1>3. \A r \in Requests : pc'[r] = "done" <=> pc[r] = "done"
  BY <1>1, <1>2 DEF TimelyNext, vars, Tick, Start, BootStep, BootRead, BootStore, BootOpen, BootSwitch,
     Crash, BootFault,
    Call, RequestStep, ProbeNext, FetchNext, ReadCurrent, Store, OpenCurrent, OpenNext,
    RequestFault, MapStart, MapStep, MapProbeNext, MapFetchNext, MapReadHash, MapAnswer,
    MapOpenCurrent, MapSwitch, MapFindNext, MapClearNext, MapFault, requestVars, Go, Running
<1> QED
  BY <1>3

\* The schedule is written by Schedule and MapClearNext only.
LEMMA NextMoves ==
  ASSUME Sequential, Known, [TimelyNext]_vars, next' # next
  PROVE  (\E r \in Requests : Schedule(r)) \/ \E m \in Readers : MapClearNext(m)
  BY DEF TimelyNext, vars, Sequential, Tick, Start, BootStep, BootRead, BootStore, BootOpen, BootSwitch,
     Crash, BootFault,
    Call, RequestStep, ProbeNext, FetchNext, ReadCurrent, Store, OpenCurrent, Switch, OpenNext,
    RequestFault, MapStart, MapStep, MapProbeNext, MapFetchNext, MapReadHash, MapAnswer,
    MapOpenCurrent, MapSwitch, MapFindNext, MapFault, persistent, Opened

\* The update path implements ParameterLedger: the template founds the ledger,
\* the write of NEXT accepts a change and acknowledges it, a map read that writes
\* CURRENT enacts what was accepted up to it, and nothing else shows.
THEOREM LedgerImplemented ==
  ASSUME Sequential
  PROVE  TimelySpec => Implements
<1> DEFINE done == {r \in Requests : pc[r] = "done"}
<1>1. Init => Ledger!LedgerInit
  BY DEF Init, Ledger!LedgerInit, Effective
<1>2. Known /\ [TimelyNext]_vars => [Ledger!LedgerNext]_Ledger!ledgerVars
  <2> SUFFICES ASSUME Known, [TimelyNext]_vars
               PROVE  Ledger!LedgerNext \/ UNCHANGED <<Effective, current, done>>
    BY DEF Ledger!ledgerVars
  <2>1. CASE BootSwitch
    <3>1. current = Absent /\ next = <<>> /\ next' = next /\ current' = <<>> /\ pc' = pc
      BY <2>1 DEF BootSwitch, Known, Founding, requestVars, Template
    <3>2. Effective = Absent /\ Effective' = <<>> /\ done' = done
      BY <3>1 DEF Effective
    <3>3. Ledger!Found
      BY <3>1, <3>2 DEF Ledger!Found
    <3> QED
      BY <3>3 DEF Ledger!LedgerNext
  <2>2. ASSUME NEW r \in Requests, Schedule(r)
        PROVE  Ledger!LedgerNext
    <3>1. current' = current /\ current # Absent /\ Effective' = Append(Effective, r)
      BY <2>2, ScheduleKeeps DEF Schedule
    <3>2. Effective # Absent
      BY <3>1, BelowEffective, Sorts
    <3>3. r \notin done /\ done' = done \cup {r}
      BY <2>2 DEF Schedule, Go, Known, TypeOK
    <3>4. Ledger!Accept(r)
      BY <3>1, <3>2, <3>3 DEF Ledger!Accept
    <3> QED
      BY <3>4 DEF Ledger!LedgerNext
  <2>3. ASSUME NEW m \in Readers, MapSwitch(m)
        PROVE  Ledger!LedgerNext \/ UNCHANGED <<Effective, current, done>>
    <3>1. /\ Effective' = Effective /\ current # Absent /\ current' \in Params
          /\ IsPrefix(current, current') /\ IsPrefix(current', Effective)
      BY <2>3, MapSwitchKeeps
    <3>2. done' = done
      BY <2>3 DEF MapSwitch, requestVars
    <3>3. current \in Params /\ Effective \in Params
      BY <3>1, BelowEffective
    <3>4. /\ Len(current) \in Nat /\ Len(current') \in Nat /\ Len(Effective) \in Nat
          /\ Len(current) <= Len(current') /\ Len(current') <= Len(Effective)
          /\ current' = SubSeq(Effective, 1, Len(current'))
          /\ Len(current) = Len(current') => current = current'
      BY <3>1, <3>3, PrefixLength
    <3>5. CASE Len(current) = Len(current')
      BY <3>1, <3>2, <3>4, <3>5
    <3>6. CASE Len(current) < Len(current')
      <4>1. Len(current') \in Len(current) + 1 .. Len(Effective)
        BY <3>4, <3>6
      <4>2. Ledger!Enact
        BY <3>1, <3>2, <3>3, <3>4, <4>1, Sorts DEF Ledger!Enact
      <4> QED
        BY <4>2 DEF Ledger!LedgerNext
    <3> QED
      BY <3>4, <3>5, <3>6
  <2>4. CASE /\ ~BootSwitch /\ \A r \in Requests : ~Schedule(r)
             /\ \A m \in Readers : ~MapSwitch(m)
    <3>1. current' = current /\ done' = done
      BY <2>4, CurrentMoves, DoneBySchedule
    <3>2. Effective' = Effective
      BY <2>4, <3>1, NextMoves, EffectiveKept, MapClearNextKeeps
    <3> QED
      BY <3>1, <3>2
  <2> QED
    BY <2>1, <2>2, <2>3, <2>4
<1> QED
  BY <1>1, <1>2, SequentialInvariant, PTL DEF TimelySpec, Implements, Ledger!LedgerSpec
=============================================================================
