-------------------------- MODULE ParameterUpdates --------------------------
(***************************************************************************)
(* How the network parameters change: the update path of                   *)
(* NetworkMapServiceProcessor (updateNetworkParameters, createNetworkMap,  *)
(* createNetworkParameters) over the registers of ServiceStorages.         *)
(*                                                                         *)
(* Two registers hold the state of the network: "current-parameters", the  *)
(* hash in force, and "next-params-update", the scheduled update.  Every   *)
(* admin request reads them, stores a new parameter set and writes one of  *)
(* them; every read of the network map may switch CURRENT to a scheduled   *)
(* update that has come due and delete NEXT.  Each storage call is an      *)
(* asynchronous step, and the steps of all requests and reads interleave:  *)
(* the executor's only worker is released as soon as a chain of futures    *)
(* has been built, long before its storage calls complete.                 *)
(*                                                                         *)
(* A parameter set is abstracted to its lineage, the sequence of requests  *)
(* applied to the template to obtain it.  The lineage is also its hash:    *)
(* each change sets modifiedTime, so no two requests produce equal sets.   *)
(***************************************************************************)
EXTENDS Naturals, FiniteSets, SequencesExt

CONSTANTS
  Requests,       \* the update requests administrators send
  Readers,        \* the concurrent readers of the network map
  StorageType,    \* "FILE" or "MONGO", as in the enumeration of ServiceStorages
  Delay,          \* paramUpdateDelay
  MaxInFlight,    \* bound: requests in progress at once
  MaxTime,        \* bound: the last instant of the clock
  MaxCrashes,     \* bound: crashes of the service
  StorageFaults,  \* whether a storage call may fail for a reason of its own
  Absent,         \* the register holds no file or document
  Torn,           \* the file has been truncated and not written yet
  None            \* no scheduled update (null)

ASSUME StorageAssumption ==
  /\ StorageType \in {"FILE", "MONGO"}
  /\ StorageFaults \in BOOLEAN
ASSUME BoundsAssumption ==
  /\ Delay \in Nat /\ MaxInFlight \in Nat /\ MaxTime \in Nat /\ MaxCrashes \in Nat
  /\ IsFiniteSet(Requests)
ASSUME AbsentAssumption ==
  /\ Absent \notin Seq(Requests) /\ Torn \notin Seq(Requests) /\ Absent # Torn
  /\ Torn \notin [hash : Seq(Requests), deadline : Nat]
  /\ None \notin [hash : Seq(Requests), deadline : Nat]

VARIABLES
  now,         \* the clock
  stored,      \* keys of the networkParameters storage
  current,     \* register current-parameters
  next,        \* register next-params-update: its revisions, oldest first
  boot,        \* progress of the start-up code
  pc,          \* progress of each request
  activation,  \* the instant from which each request's change may apply
  params,      \* the parameter set each request has read, then made
  rpc,         \* progress of each map read
  waiting,     \* storage reads a map read still waits for
  update,      \* scheduled update each map read has read
  hash,        \* current hash each map read has read
  found,       \* the revision each map read is about to delete
  crashes      \* crashes so far

persistent == <<stored, current, next>>
requestVars == <<pc, activation, params>>
readerVars == <<rpc, waiting, update, hash, found>>
vars == <<now, stored, current, next, boot, pc, activation, params,
          rpc, waiting, update, hash, found, crashes>>

-----------------------------------------------------------------------------
(* Parameter sets, scheduled updates and the two kinds of storage.         *)

Params == Seq(Requests)
Template == <<>>
Update == [hash : Params, deadline : Nat]

Running == {"probing", "fetching", "basing", "storing", "stored", "switching", "scheduling"}
InFlight == {r \in Requests : pc[r] \in Running}
Reading == {"reading", "writing", "finding", "clearing"}

\* Mutant: a value in the Mongo storage can be seen before it is complete.
OpenedAlways(old, torn) == torn

\* A file is truncated before its new content is written.
Opened(old, torn) == IF StorageType = "FILE" THEN torn ELSE old

\* Mutant: a file keeps its old revisions.
PutAppends(u) == Append(next, u)

\* A file replaces what it held, unless it was deleted while it was open; the
\* bucket of the Mongo storage gains a revision.
Put(u) ==
  IF StorageType = "MONGO" THEN Append(next, u)
  ELSE IF next = <<>> THEN <<>> ELSE <<u>>

Init ==
  /\ now = 0 /\ stored = {} /\ current = Absent /\ next = <<>>
  /\ boot = "down" /\ crashes = 0
  /\ pc = [r \in Requests |-> "idle"]
  /\ activation = [r \in Requests |-> 0]
  /\ params = [r \in Requests |-> Template]
  /\ rpc = [m \in Readers |-> "idle"]
  /\ waiting = [m \in Readers |-> {}]
  /\ update = [m \in Readers |-> None]
  /\ hash = [m \in Readers |-> Template]
  /\ found = [m \in Readers |-> None]

Tick ==
  /\ now < MaxTime
  /\ now' = now + 1
  /\ UNCHANGED <<persistent, boot, requestVars, readerVars, crashes>>

-----------------------------------------------------------------------------
(* Start-up.  The HTTP server does not wait for it: requests and reads     *)
(* arrive as soon as the service is no longer down.                        *)

Start ==
  /\ boot = "down"
  /\ boot' = "reading"
  /\ UNCHANGED <<now, persistent, requestVars, readerVars, crashes>>

\* Mutant: start-up never looks for existing parameters.
BootReadSkipped ==
  /\ boot = "reading"
  /\ boot' = "storing"
  /\ UNCHANGED <<now, persistent, requestVars, readerVars, crashes>>

\* Any failure to read the current parameters leads to the template.
BootRead ==
  /\ boot = "reading"
  /\ boot' = IF current \in stored THEN "done" ELSE "storing"
  /\ UNCHANGED <<now, persistent, requestVars, readerVars, crashes>>

BootStore ==
  /\ boot = "storing"
  /\ stored' = stored \cup {Template}
  /\ boot' = "stored"
  /\ UNCHANGED <<now, current, next, requestVars, readerVars, crashes>>

BootOpen ==
  /\ boot = "stored"
  /\ current' = Opened(current, Torn)
  /\ boot' = "switching"
  /\ UNCHANGED <<now, stored, next, requestVars, readerVars, crashes>>

BootSwitch ==
  /\ boot = "switching"
  /\ current' = Template
  /\ boot' = "done"
  /\ UNCHANGED <<now, stored, next, requestVars, readerVars, crashes>>

-----------------------------------------------------------------------------
(* An admin request that changes the parameters.                           *)

Go(r, label) == pc' = [pc EXCEPT ![r] = label]

Call(r) ==
  /\ boot # "down" /\ pc[r] = "idle"
  /\ Cardinality(InFlight) < MaxInFlight
  /\ now + Delay <= MaxTime
  /\ activation' = [activation EXCEPT ![r] = now + Delay]
  /\ Go(r, "probing")
  /\ UNCHANGED <<now, persistent, boot, params, readerVars, crashes>>

\* Mutant: the scheduled update is not looked at.
ProbeNextSkipped(r) ==
  /\ pc[r] = "probing"
  /\ Go(r, "basing")
  /\ UNCHANGED <<now, persistent, boot, activation, params, readerVars, crashes>>

ProbeNext(r) ==
  /\ pc[r] = "probing"
  /\ Go(r, IF next = <<>> THEN "basing" ELSE "fetching")
  /\ UNCHANGED <<now, persistent, boot, activation, params, readerVars, crashes>>

\* A scheduled update is the base.  Where it has gone or cannot be read the
\* file storage answers null, the Mongo storage fails.
FetchNext(r) ==
  /\ pc[r] = "fetching"
  /\ IF next # <<>> /\ Last(next) # Torn
     THEN /\ params' = [params EXCEPT ![r] = Last(next).hash]
          /\ Go(r, "storing")
     ELSE /\ Go(r, IF StorageType = "FILE" THEN "basing" ELSE "failed")
          /\ UNCHANGED params
  /\ UNCHANGED <<now, persistent, boot, activation, readerVars, crashes>>

\* Mutant: the base is the template the service was started with.
ReadCurrentTemplate(r) ==
  /\ pc[r] = "basing"
  /\ params' = [params EXCEPT ![r] = Template]
  /\ Go(r, "storing")
  /\ UNCHANGED <<now, persistent, boot, activation, readerVars, crashes>>

\* With no scheduled update the base is the current parameter set.
ReadCurrent(r) ==
  /\ pc[r] = "basing"
  /\ IF current \in stored
     THEN /\ params' = [params EXCEPT ![r] = current]
          /\ Go(r, "storing")
     ELSE Go(r, "failed") /\ UNCHANGED params
  /\ UNCHANGED <<now, persistent, boot, activation, readerVars, crashes>>

\* Mutant: the new parameter set is signed but not stored.
StoreForgotten(r) ==
  /\ pc[r] = "storing"
  /\ params' = [params EXCEPT ![r] = Append(@, r)]
  /\ Go(r, "stored")
  /\ UNCHANGED <<now, persistent, boot, activation, readerVars, crashes>>

\* changeFunction is applied to the base, the result is signed and stored.
Store(r) ==
  /\ pc[r] = "storing"
  /\ params' = [params EXCEPT ![r] = Append(@, r)]
  /\ stored' = stored \cup {Append(params[r], r)}
  /\ Go(r, "stored")
  /\ UNCHANGED <<now, current, next, boot, activation, readerVars, crashes>>

\* Mutant: CURRENT is written without regard to the activation instant.
OpenCurrentEarly(r) ==
  /\ pc[r] = "stored"
  /\ current' = Opened(current, Torn)
  /\ Go(r, "switching")
  /\ UNCHANGED <<now, stored, next, boot, activation, params, readerVars, crashes>>

\* The activation instant has passed: CURRENT is written at once.
OpenCurrent(r) ==
  /\ pc[r] = "stored" /\ activation[r] <= now
  /\ current' = Opened(current, Torn)
  /\ Go(r, "switching")
  /\ UNCHANGED <<now, stored, next, boot, activation, params, readerVars, crashes>>

Switch(r) ==
  /\ pc[r] = "switching"
  /\ current' = params[r]
  /\ Go(r, "done")
  /\ UNCHANGED <<now, stored, next, boot, activation, params, readerVars, crashes>>

\* Otherwise the update is scheduled.
OpenNext(r) ==
  /\ pc[r] = "stored" /\ activation[r] > now
  /\ next' = Opened(next, <<Torn>>)
  /\ Go(r, "scheduling")
  /\ UNCHANGED <<now, stored, current, boot, activation, params, readerVars, crashes>>

Schedule(r) ==
  /\ pc[r] = "scheduling"
  /\ next' = Put([hash |-> params[r], deadline |-> activation[r]])
  /\ Go(r, "done")
  /\ UNCHANGED <<now, stored, current, boot, activation, params, readerVars, crashes>>

-----------------------------------------------------------------------------
(* A read of the network map (createNetworkMap).                           *)

Becomes(m, label) == rpc' = [rpc EXCEPT ![m] = label]

MapStart(m) ==
  /\ boot # "down" /\ rpc[m] \notin Reading
  /\ Becomes(m, "reading")
  /\ waiting' = [waiting EXCEPT ![m] = {"probe", "hash"}]
  /\ update' = [update EXCEPT ![m] = None]
  /\ hash' = [hash EXCEPT ![m] = Template]
  /\ found' = [found EXCEPT ![m] = None]
  /\ UNCHANGED <<now, persistent, boot, requestVars, crashes>>

MapProbeNext(m) ==
  /\ rpc[m] = "reading" /\ "probe" \in waiting[m]
  /\ waiting' = [waiting EXCEPT ![m] = (@ \ {"probe"}) \cup (IF next = <<>> THEN {} ELSE {"fetch"})]
  /\ UNCHANGED <<now, persistent, boot, requestVars, rpc, update, hash, found, crashes>>

MapFetchNext(m) ==
  /\ rpc[m] = "reading" /\ "fetch" \in waiting[m]
  /\ waiting' = [waiting EXCEPT ![m] = @ \ {"fetch"}]
  /\ IF next # <<>> /\ Last(next) # Torn
     THEN update' = [update EXCEPT ![m] = Last(next)] /\ UNCHANGED rpc
     ELSE /\ Becomes(m, IF StorageType = "FILE" THEN "reading" ELSE "failed")
          /\ UNCHANGED update
  /\ UNCHANGED <<now, persistent, boot, requestVars, hash, found, crashes>>

MapReadHash(m) ==
  /\ rpc[m] = "reading" /\ "hash" \in waiting[m]
  /\ waiting' = [waiting EXCEPT ![m] = @ \ {"hash"}]
  /\ IF current \notin {Absent, Torn}
     THEN hash' = [hash EXCEPT ![m] = current] /\ UNCHANGED rpc
     ELSE Becomes(m, "failed") /\ UNCHANGED hash
  /\ UNCHANGED <<now, persistent, boot, requestVars, update, found, crashes>>

\* Mutant: an update is due as soon as it is scheduled.
DueAtOnce(u) == u # None

Due(u) == u # None /\ now >= u.deadline

\* Mutant: an update is announced without another look at its deadline.
MapAnswerAnyway(m) ==
  /\ rpc[m] = "reading" /\ waiting[m] = {}
  /\ Becomes(m, "answered")
  /\ UNCHANGED <<now, persistent, boot, requestVars, waiting, update, hash, found, crashes>>

MapAnswer(m) ==
  /\ rpc[m] = "reading" /\ waiting[m] = {} /\ ~Due(update[m])
  /\ Becomes(m, "answered")
  /\ UNCHANGED <<now, persistent, boot, requestVars, waiting, update, hash, found, crashes>>

\* The update read is due: it becomes the current one ...
MapOpenCurrent(m) ==
  /\ rpc[m] = "reading" /\ waiting[m] = {} /\ Due(update[m])
  /\ current' = Opened(current, Torn)
  /\ Becomes(m, "writing")
  /\ UNCHANGED <<now, stored, next, boot, requestVars, waiting, update, hash, found, crashes>>

MapSwitch(m) ==
  /\ rpc[m] = "writing"
  /\ current' = update[m].hash
  /\ hash' = [hash EXCEPT ![m] = update[m].hash]
  /\ update' = [update EXCEPT ![m] = None]
  /\ Becomes(m, IF StorageType = "FILE" THEN "clearing" ELSE "finding")
  /\ UNCHANGED <<now, stored, next, boot, requestVars, waiting, found, crashes>>

\* ... and the schedule is deleted, whatever it holds by now.  The Mongo
\* storage looks for the oldest revision first, and is content if there is none.
MapFindNext(m) ==
  /\ rpc[m] = "finding"
  /\ IF next = <<>>
     THEN Becomes(m, "answered") /\ UNCHANGED found
     ELSE Becomes(m, "clearing") /\ found' = [found EXCEPT ![m] = Head(next)]
  /\ UNCHANGED <<now, persistent, boot, requestVars, waiting, update, hash, crashes>>

\* Mutant: the schedule is not deleted.
MapClearNothing(m) ==
  /\ rpc[m] = "clearing"
  /\ Becomes(m, "answered")
  /\ UNCHANGED <<now, persistent, boot, requestVars, waiting, update, hash, found, crashes>>

\* Deleting what is no longer there is an error in both storages.
MapClearNext(m) ==
  /\ rpc[m] = "clearing"
  /\ IF next = <<>> \/ (StorageType = "MONGO" /\ Head(next) # found[m])
     THEN Becomes(m, "failed") /\ UNCHANGED next
     ELSE Becomes(m, "answered") /\ next' = Tail(next)
  /\ UNCHANGED <<now, stored, current, boot, requestVars, waiting, update, hash, found, crashes>>

-----------------------------------------------------------------------------
(* Failures.                                                               *)

\* Everything in memory is lost, the registers keep what they hold, a file that
\* was being written stays truncated.
Crash ==
  /\ boot # "down" /\ crashes < MaxCrashes
  /\ crashes' = crashes + 1
  /\ boot' = "down"
  /\ pc' = [r \in Requests |-> IF pc[r] \in Running THEN "lost" ELSE pc[r]]
  /\ rpc' = [m \in Readers |-> "idle"]
  /\ UNCHANGED <<now, persistent, activation, params, waiting, update, hash, found>>

RequestFault(r) ==
  /\ StorageFaults /\ pc[r] \in Running
  /\ Go(r, "failed")
  /\ UNCHANGED <<now, persistent, boot, activation, params, readerVars, crashes>>

MapFault(m) ==
  /\ StorageFaults /\ rpc[m] \in Reading
  /\ Becomes(m, "failed")
  /\ UNCHANGED <<now, persistent, boot, requestVars, waiting, update, hash, found, crashes>>

\* A failed read is taken for missing parameters; the failure of a write is
\* ignored by start-up.
BootFault ==
  /\ StorageFaults /\ boot \in {"reading", "storing", "stored", "switching"}
  /\ boot' = IF boot = "reading" THEN "storing" ELSE "failed"
  /\ UNCHANGED <<now, persistent, requestVars, readerVars, crashes>>

-----------------------------------------------------------------------------
BootStep == BootRead \/ BootStore \/ BootOpen \/ BootSwitch

RequestStep(r) ==
  \/ ProbeNext(r) \/ FetchNext(r) \/ ReadCurrent(r) \/ Store(r)
  \/ OpenCurrent(r) \/ Switch(r) \/ OpenNext(r) \/ Schedule(r)

MapStep(m) ==
  \/ MapProbeNext(m) \/ MapFetchNext(m) \/ MapReadHash(m) \/ MapAnswer(m)
  \/ MapOpenCurrent(m) \/ MapSwitch(m) \/ MapFindNext(m) \/ MapClearNext(m)

Next ==
  \/ Tick \/ Start \/ BootStep \/ Crash \/ BootFault
  \/ \E r \in Requests : Call(r) \/ RequestStep(r) \/ RequestFault(r)
  \/ \E m \in Readers : MapStart(m) \/ MapStep(m) \/ MapFault(m)

Spec == Init /\ [][Next]_vars

\* Storage calls complete, time passes and nodes keep polling the network map.
Fairness ==
  /\ WF_vars(Tick) /\ WF_vars(Start) /\ WF_vars(BootStep)
  /\ \A r \in Requests : WF_vars(RequestStep(r))
  /\ \A m \in Readers : WF_vars(MapStart(m)) /\ WF_vars(MapStep(m))

-----------------------------------------------------------------------------
(* Properties.                                                             *)

\* Every variable has its type; the file storage keeps at most one revision of
\* the schedule, and only a file can be torn.
TypeOK ==
  /\ now \in Nat /\ crashes \in Nat
  /\ stored \in SUBSET Params
  /\ current \in Params \cup {Absent, Torn}
  /\ next \in Seq(Update \cup {Torn})
  /\ boot \in {"down", "reading", "storing", "stored", "switching", "done", "failed"}
  /\ pc \in [Requests -> Running \cup {"idle", "done", "failed", "lost"}]
  /\ activation \in [Requests -> Nat]
  /\ params \in [Requests -> Params]
  /\ rpc \in [Readers -> Reading \cup {"idle", "answered", "failed"}]
  /\ waiting \in [Readers -> SUBSET {"probe", "fetch", "hash"}]
  /\ update \in [Readers -> Update \cup {None}]
  /\ hash \in [Readers -> Params]
  /\ found \in [Readers -> Update \cup {None, Torn}]
  /\ \A m \in Readers : rpc[m] = "writing" => update[m] \in Update
  /\ StorageType = "FILE" => Len(next) <= 1
  /\ StorageType = "MONGO" => current # Torn /\ \A i \in DOMAIN next : next[i] # Torn

\* A parameter set is downloadable before its hash is written anywhere: the
\* registers, and every map that has been answered, name stored sets only, so a
\* node never meets a 404 on a hash it was given (getNetworkParameter).
Downloadable ==
  /\ current \in stored \cup {Absent, Torn}
  /\ \A i \in DOMAIN next : next[i] = Torn \/ next[i].hash \in stored
  /\ \A m \in Readers : rpc[m] = "answered" =>
       /\ hash[m] \in stored
       /\ update[m] = None \/ update[m].hash \in stored

\* CURRENT is switched to a request's parameters at or after the activation
\* instant of that request, whoever switches it: the request itself, a map read,
\* or a map read that decided long ago on a schedule that has changed since.
FlagDay ==
  [][\A r \in Requests :
       current' # current /\ current' \in Params /\ current' # Template /\ Last(current') = r
         => now >= activation[r]]_vars

\* No request has overtaken another that it builds on: along each parameter set
\* the activation instants grow.
InTurn == \A p \in stored : \A i \in DOMAIN p : activation[p[i]] <= activation[Last(p)]

\* No answered map announces as an update what its current parameters already
\* include, although createNetworkMap reads the two registers separately and another
\* map read may switch one and delete the other in between, or while requests
\* overlap, as long as these have kept their turn.
MapCoherent ==
  InTurn => \A m \in Readers : rpc[m] = "answered" /\ update[m] # None
              => ~IsPrefix(update[m].hash, hash[m])

\* Start-up falls back on the template only while no request has ever stored a
\* parameter set ("could not find network parameters").
TemplateOnlyAtFirst ==
  [][boot = "reading" /\ boot' = "storing" => stored \subseteq {Template}]_vars

\* The parameter set in force once the schedule, if any, has been applied.
Effective == IF next # <<>> /\ Last(next) # Torn THEN Last(next).hash ELSE current

Quiet ==
  /\ InFlight = {} /\ boot = "done"
  /\ \A m \in Readers : rpc[m] \notin Reading

\* When nothing is in progress, every change that was acknowledged is in the
\* parameters in force or in those scheduled: none has been overwritten.
NoLostUpdate ==
  Quiet => \A r \in Requests : pc[r] = "done" => Effective \in Params /\ r \in ToSet(Effective)

\* CURRENT never goes back: its next value extends the lineage it had.
ForwardOnly ==
  [][{current, current'} \subseteq Params => IsPrefix(current, current')]_vars

\* The update of the parameters "is done in two phases": what a request's change
\* is switched on has been advertised, so every new CURRENT stands in NEXT.
TwoPhases ==
  [][current' # current /\ current' \in Params /\ current' # Template
       => \E i \in DOMAIN next : next[i] # Torn /\ next[i].hash = current']_vars

\* A schedule does not stay for ever: polling switches CURRENT and
\* deletes it.
ScheduleDrains == (next # <<>>) ~> (next = <<>>)

\* An acknowledged change comes into force and stays so.
EventuallyInForce ==
  \A r \in Requests :
    pc[r] = "done" ~> [](current \in Params /\ r \in ToSet(current))

-----------------------------------------------------------------------------
(* The inductive invariants behind Downloadable and FlagDay.               *)

HasStored == {"stored", "switching", "scheduling"}

\* Every hash in a register or on its way into one, or into an answer, is that of
\* a parameter set already stored.
StoredFirst ==
  /\ current \in stored \cup {Absent, Torn}
  /\ \A i \in DOMAIN next : next[i] # Torn => next[i].hash \in stored
  /\ boot \in {"stored", "switching"} => Template \in stored
  /\ \A r \in Requests : pc[r] \in HasStored => params[r] \in stored
  /\ \A m \in Readers :
       /\ update[m] # None => update[m].hash \in stored
       /\ rpc[m] = "reading" => "hash" \in waiting[m] \/ hash[m] \in stored
       /\ rpc[m] \in {"finding", "clearing", "answered"} => hash[m] \in stored

\* u was made by a request that has been called, and is not due before that
\* request's activation instant.
Honest(u) ==
  /\ u.hash # Template
  /\ pc[Last(u.hash)] # "idle"
  /\ u.deadline >= activation[Last(u.hash)]

\* Every schedule, stored or read, keeps the instant of the request that made it,
\* and whoever is about to write CURRENT has seen that instant pass.
Punctual ==
  /\ \A i \in DOMAIN next : next[i] # Torn => Honest(next[i])
  /\ \A m \in Readers :
       /\ update[m] # None => Honest(update[m])
       /\ rpc[m] = "writing" => update[m].deadline <= now
  /\ \A r \in Requests :
       /\ pc[r] \in HasStored => params[r] # Template /\ Last(params[r]) = r
       /\ pc[r] = "switching" => activation[r] <= now
=============================================================================
