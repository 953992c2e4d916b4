# The network map service in TLA+

A verification project for the Cordite network map service (Kotlin, Vert.x): modules that model its protocol-bearing
parts, instances of them for TLC, and theorems that TLAPS proves for every value of the constants.

Paths below are relative to the repository; `service/`, `storage/` and `utils/` stand for the directories of that name
under `src/src/main/kotlin/io/cordite/networkmap/`.

## The system

The service answers the HTTP requests of Corda nodes and of administrators. All its durable state is in a key-value
storage with two implementations, files and MongoDB (GridFS buckets, and one collection for short texts). Everything
else is a chain of asynchronous futures on the event loop: each storage call is a step, and between two steps of one
request any step of any other may happen.

| component | state | operations | what makes it hard | correct when |
|---|---|---|---|---|
| network parameter updates (`service/NetworkMapServiceProcessor.kt`, `ServiceStorages.kt`) | the parameter sets by hash; the registers `current-parameters` and `next-params-update` | an admin request reads a base, stores a new set, then writes one register; a map read may switch CURRENT and delete NEXT; start-up creates the first set | read-modify-write over several calls, by writers and by *readers*; crashes between calls; torn files; a flag day that passes while a request runs | hashes are downloadable before they are announced; nothing comes into force early; no acknowledged change is lost |
| node registry (same file) | node infos by hash | publish, delete one, delete all, list | check-then-put without a lock; a directory that changes while it is read; revisions of a GridFS file | one key per name; a deleted node is gone; a listed node can be downloaded |
| certificate manager and doorman (`service/CertificateManager.kt`) | three certificates, in the storage and in memory; responses to signing requests, in memory only | start-up finds or makes the certificates; CSR post, sign, poll | failure is taken for absence; a new root must invalidate what the old one signed; several instances | one chain; nodes let in once stay in |
| parameter acknowledgements (`service/NetworkMapService.kt`) | the last accepted hash per node key | acknowledge, query | compared with CURRENT, which moves | the answer is about what the node accepted |
| file and Mongo storages (`storage/`) | values by key | put, get, getOrNull, delete, clear, getKeys, getAll, getPage | truncate-then-write; several revisions of one key | a map from keys to values |
| migration to Mongo (`storage/mongo/`) | both storages | each store reads all files, puts them all, lists again and deletes | interrupted and started again; two instances; operations that go on after a failure | nothing missing, and a service starts with everything |
| web site (`src/website/app/`) | in the browser: signed in or not, the open dialog, the selected node, requests in flight, the rows of the table; the access token in `sessionStorage` | sign in, sign out, delete a node; load, look up places, sort, change the page | answers arrive when another dialog is open; requests fail or overlap; a token expires; the page is reloaded | the dialog is about the node that was clicked; only a signed-in user sees it; signing out lasts; the table shows all or nothing |
| future combinators (`utils/Vertx.kt`) | a countdown, a result | `all`, and `retry`, which nothing uses | late and repeated failures | one result |
| change sets and whitelist (`changeset/`, `serialisation/`) | none: pure functions | add, remove, replace | the epoch; two roles of one notary | order of application |
| paging and views | none | pages of nodes and of parameters | floor of a quotient | every entry on one page |
| parameter inputs watcher (`storage/file/NetworkParameterInputsStorage.kt`) | a digest | poll | a change that undoes itself between two polls | a change is seen |
| authentication, options, certman, TLS, embedded Mongo, adapters | none that the protocols depend on | | | |

How they interact: the processor calls the storages only through `ServiceStorages`; the certificate manager must be up
before the processor, which signs with its network map certificate; `publish` first asks the certificate manager to
validate the node's chain; change sets are the functions an admin request applies; the service starts by setting up its
storage, which with Mongo means the migration of what it finds in files, and only then starts the certificate manager
and the processor; the web site reads the nodes and notaries and deletes nodes over the administrators' API. PROJECT.json lists every component
with its status, and every hazard with the line where it bites.

One observation shapes the model. The processor runs updates on a worker pool of one thread "to ensure consistency",
but a task on that pool only *builds* a chain of futures and ends; the storage calls of the chain complete later on
other threads. So the queue orders nothing that can be observed, and the models have no queue: requests interleave
at every storage call.

## Modules

| module | models | EXTENDS / INSTANCE |
|---|---|---|
| `ParameterUpdates` | parameter updates: admin requests, map reads, start-up, crash, storage faults | |
| `ParameterLedger` | what the service promises about them, without registers or schedules | |
| `MCParameterUpdates` | instances, the disciplined environment, the refinement of the ledger | `ParameterUpdates`, `ParameterLedger` |
| `ParameterUpdates_proofs` | proofs about `ParameterUpdates` in every environment | `ParameterUpdates` |
| `ConcurrentUpdates_proofs` | what holds with several requests, or several map reads, at a time | `MCParameterUpdates`, `ParameterUpdates_proofs` |
| `SequentialUpdates_proofs` | what holds with one of each, and the refinement of the ledger | `ConcurrentUpdates_proofs` |
| `ParameterAcks` | nodes' acknowledgements of parameters, beside the updates | `ParameterUpdates` |
| `MCParameterAcks`, `ParameterAcks_proofs` | instances, proofs | `ParameterAcks`, `MCParameterUpdates`, `SequentialUpdates_proofs` |
| `NodeRegistry` | publication and deletion of node infos, crash | |
| `MCNodeRegistry`, `NodeRegistry_proofs` | instances, the environment in which a name is safe; proofs | `NodeRegistry` |
| `Certificates` | start-up of the certificates and the doorman, crash, storage faults, several instances | |
| `MCCertificates`, `Certificates_proofs` | instances, the environment in which a root is safe; proofs | `Certificates` |
| `Migration` | set-up of the Mongo storage from files, crash, failed calls, several instances | `DocumentMove` |
| `DocumentMove` | what a migration promises: copy first, then remove | |
| `MCMigration`, `Migration_proofs` | an instance, proofs | `Migration` |
| `NodeTable` | the web site's table of nodes: load, geocoding, sorting, pages | |
| `AdminConsole` | the web site's sessions and dialogs, beside the table | `NodeTable` |
| `MCAdminConsole`, `AdminConsole_proofs` | an instance, proofs | `AdminConsole` |

### ParameterUpdates

*Data.* A parameter set is its **lineage**, the sequence of requests applied to the template (`Template == <<>>`), and
is its own hash: each change sets `modifiedTime`, so different requests give different sets, and what properties ask
of a set is only which changes it includes. The template a restart would create anew is taken for the same one.

*State.* `stored` is the key set of the networkParameters storage. `current` is the text register, with `Absent` and
`Torn` for no file and a truncated file. `next` is the list of revisions of the schedule: the file storage keeps at
most one, a GridFS bucket gains one with every `put`, returns the newest and deletes the oldest. `boot`, `pc` and `rpc`
are the program counters of start-up, of each admin request and of each map read; `params`, `update`, `hash`, `found`
are what each of them has read and keeps while others go on. `activation` is the instant a request computed first of
all.

*Actions.* One per storage call, in the order of the futures:

| code | actions |
|---|---|
| `updateNetworkParameters` | `Call`, `ProbeNext`, `FetchNext`, `ReadCurrent`, `Store`, then `OpenCurrent`, `Switch` or `OpenNext`, `Schedule` |
| `createNetworkMap` | `MapStart`, `MapProbeNext`, `MapFetchNext`, `MapReadHash` in any order the reads complete, then `MapAnswer`, or `MapOpenCurrent`, `MapSwitch`, `MapFindNext`, `MapClearNext` |
| `createNetworkParameters` | `BootRead`, `BootStore`, `BootOpen`, `BootSwitch` |
| the process, the storage | `Crash`, `RequestFault`, `MapFault`, `BootFault`; `Tick` for the clock |

`Open...` followed by a write is the truncation of a file and its write; with Mongo the first of the two changes
nothing. A parameter set's own file is written in one step, because no register names it before it is complete. A read
of a register and of the set it names is one step, because sets are never changed or deleted. Two writers of the same
file end with the content of the later. A file deleted while it is open stays deleted (`Put`).

### ParameterAcks

`ParameterUpdates` with one more client. A node's request is `AckCall`, with any hash it can have downloaded, `AckCheck`
(the read of CURRENT and the comparison), then `AckOpen` and `AckSave` on the record of that node. `AckFault` is a
storage call that fails; the handler logs a failure to record and answers nothing, so such a request is `unanswered`. `Others` puts a step of
the update path beside it: a crash loses the requests in progress, any other step leaves them alone.

### NodeRegistry

A node info is one legal name and its key, and is its own hash. Per node info there are two counters, the revisions
added and removed, which stand for a GridFS file and, bounded by one, for a file of a directory; `torn` holds the files
that have been created and not yet written. The storage is chosen in `Init`. `getAll` is `ListKeys` followed by a `ReadNode` for each key, in any order;
the check of addNode is `Accept` and `Reject` (the code builds a map from the list, so with namesakes of several keys
either of them may be the one remembered, and both actions may be enabled); the deletion is `FindRevision` and
`RemoveNode`, or `ListFiles` and a `ClearFile` for each, or `DropBucket`. `before` is what had been deleted when a publication opened its
file: if the file has been deleted since, `WriteFile` writes to one that no longer has a name, and leaves a new file of
that name as it is. For the properties it also remembers what had been deleted when the publication listed the keys.
`gone` is a history variable: the node infos a call has deleted with success and nobody has stored since.

### Certificates

A certificate is its serial number and its issuer's. For each instance, `slot` is the certificate start-up is at, `pc`
what it does with it, `cert` what it holds in memory. The three `ensure...` functions have one shape and share actions:
`Get` or `Missing`, `Open`, `Write`; a root is followed by `FindOld` and `ClearOld` for the other two. The doorman is
`PostCSR`, `Sign` (or `Refuse`, an exception that leaves the empty response), `Retrieve`. The initial storage is empty,
or one whose root the operator has removed, the case for which the deletions are written. The storage is chosen in
`Init`, so that one run covers both.

### Migration

A job `<<instance, store>>` is one call of `migrate`; `stage` is the phase it is in. `List` and the `Read`s are
`src.getAll()`, a `Put` per document follows, `Relist` and the `Delete`s are `src.clear()`. The operations of a phase run
side by side: `todo` holds those not answered, `Done` is the success branch of `all()` (the last success goes on) and
`Fails` its failure branch. A failed job does not stop the operations it has started, nor the other stores. A failed
call may or may not have had its effect. `setupStorage` has succeeded when all jobs of an instance are done (`Ready`)
and failed when one has (`Failed`); a failed set-up only logs an error, and the process is started again by its
operator (`Restart`). `Crash` may come anywhere. `revisions` counts how often Mongo holds a document: a GridFS bucket
gains a revision with each put, the text storage replaces. `torn` are files that cannot be read, left by the file
service (`Init`). `Moved` maps this to `DocumentMove`: a document is in Mongo when it has a revision.

### NodeTable and AdminConsole

JavaScript runs each handler to its end, so an action is one click or one answer. `NodeTable` is the component `Default`:
`GetNotaries`, `GetNodes`, `GetBuildProperties` and a `Lookup` per place are the awaits of `getData`, `GetDataFails` an
exception at any of them, and `Show` the rest of the function, with `SortNodes` as it is called there. The lookups go through
the list by its index, whatever it repeats: `lookups` counts them beside the map `places` they fill. The service may answer with any nodes in
any order. A row has its party's place, and the key it is compared with the notaries by. `sortNodes` never sorts: its
`getProperty` calls `hasOwnProperty` with the object as the name, so all columns compare as equal, and a second click on
a column reverses the rows. `SortNodes` does what the code does.

`AdminConsole` adds the component `App`: `token` is the entry of `sessionStorage`; `admin`, `modal`, `style`,
`selectedNode` are its state; `login` and `delete` are the requests in flight. `toggleModal` is `ShowDialog`, which
toggles `style` whatever it was. A dialog takes the mouse only while `style` is on (`pointer-events` in
`modal-component.styl`), and then it covers the page: `OnPage` and `OnDialog` say what can be clicked. `LoginAnswer`,
`LoginFails`, `DeleteAnswer` and `DeleteFails` come at any time. `blank` is a rendering that threw: the delete dialog
reads the fields of a selected node, which a late answer has set to null, and React then removes the page.
`asked`, `leftover`, `doubled` and `offline` are history variables, for the properties only.

## Environments

`Spec` of each module lets everything happen. Some promises hold only in a gentler environment, stated in
the MC module, so that the assumption is explicit:

- `Timely` (`MCParameterUpdates`): the parameter update delay is longer than a request takes, so that no request is in
  progress when its own activation instant comes. The default delay is ten seconds.
- `MaxInFlight = 1` with one reader: one administrator and one polling node at a time, the "single node network map
  service" of the comment at `NetworkMapServiceProcessor.kt:492`. Several requests in flight stand both for several
  clients of one instance and for instances that share the storage.
- `Polite` (`MCNodeRegistry`): nobody publishes a name while somebody else is publishing it with another key. All other
  publications and all deletions overlap freely.
- `Careful` (`MCCertificates`): no crash between storing a new root and the deletions that follow, and no failing call
  while the root is being replaced.
- `AdminConsole`: the user has a mouse, and a keyboard to fill in the login form; a token that has just been issued
  passes `checkAuth`; the table is loaded once per page, as `getData` is called by `componentDidMount` only.
- `Migration`: nothing but the migrations writes to either place until the set-ups have ended.

The violation runs show why: `params_two_admins` has two administrators, `nodes_race` two publications of one name, `certs_cluster`
two instances. What else the gentler environments leave out is in the models, under `Spec`, and TLC finds it:
`params_sequential.cfg` with `StorageType = "FILE"`, `MaxCrashes = 0` and `NoLostUpdate` alone violates it, since a single map
read that applies a due update deletes a schedule written after it was read (`NetworkMapServiceProcessor.kt:546`); with two
map reads `ForwardOnly` fails, since the slower one writes the older update it holds; and `certs.cfg` with `Spec` violates
`ChainOK`, by a crash in the window that `Careful` excludes. The properties of the console except three cases of its code by
name: `blank` (a rendering that threw), `offline` (a login that failed without an answer and counts as a success) and `doubled`
(logins that overlap, one of which signs in after the user has signed out). With the file storage `TemplateOnlyAtFirst` does not
hold, since a crash between the truncation of `current-parameters` and its write leaves a register that cannot be
read, and start-up then falls back on the template; hence the Mongo storage in `params_sequential`.

## Runs

| run | environment and bounds | shows |
|---|---|---|
| `params_file` | file storage; 2 overlapping requests, 2 map reads, 2 instants, 1 crash, any call may fail | `Downloadable`, `FlagDay` and the two inductive invariants behind them, `StoredFirst` and `Punctual`; `MapCoherent` |
| `params_sequential` | Mongo; `Timely`, 3 requests one at a time, 1 reader, 2 instants, 1 crash, fairness | `Implements` (the ledger), `NoLostUpdate`, `ForwardOnly`, `TwoPhases`, `TemplateOnlyAtFirst`, and the liveness properties `EventuallyInForce` and `ScheduleDrains` |
| `acks` | Mongo; `Timely`, 2 requests one at a time, 1 reader, 1 acknowledging node, 1 crash, acknowledgements' calls may fail | `AcceptedInForce`, `AcceptedForward`, `OkIsRecorded` |
| `nodes` | both storages; `Polite`, 3 overlapping publications, 2 deletions, 2 names, 2 keys, 1 crash | `UniqueKey`, `Exclusive`, `DeletionSticksInFiles`, `ListedReadable`, `NoSpuriousFailure` |
| `certs` | both storages; `Careful`, 1 instance, 3 signing requests, 2 crashes, 1 failing call | `ChainOK`, `IssuedValid`, `UsedIsStored` |
| `migration` | 2 instances, the text store with 1 key and a GridFS store with 2, any of them in files, any file torn; 1 crash or failed call, 3 starts in all; fairness | `NothingLost`, `ReadyComplete`, `RevisionPerStart`, `MovesDocuments` (the refinement), `SetupEnds` |
| `console` | 2 nodes, 3 parties at 2 places, 1 notary, 2 columns; 2 logins, 1 deletion and 1 Braid request in flight; any token at first; deadlock is checked | `AllOrNothing`, `PlacesKnown`, `AsksAboutClicked`, `DeleteOnlyByAdmin`, `AdminHasToken`, `SignedOutStays` |
| `params_two_admins` | Mongo; `Timely`, 2 overlapping requests, no reader | `NoLostUpdate` violated |
| `acks_future` | Mongo; `Timely`, 1 request, 1 reader, 1 acknowledging node | `FutureIsAccepted` violated |
| `nodes_race` | Mongo; 2 overlapping publications | `UniqueKey` violated |
| `nodes_undeleted` | Mongo; one node published twice, then deleted | `DeletionSticks` violated |
| `certs_cluster` | Mongo; 2 instances that start together | `IssuedValid` violated |

Why the bounds are enough. The hazards of the parameter registers involve two writers at most, an admin request and a
map read or two of one kind, and one schedule that replaces another; two requests, two reads and a crash contain them
all, and the third request of `params_sequential` lets a schedule be extended and one flag day follow another. With a
delay of one instant, two instants let a schedule come due, and another be written after that and come due as well.
`MapCoherent` is about one map read that switches CURRENT and deletes the schedule between the two reads of another, hence
two reads. It is stated while requests keep their turn (`InTurn`: the activation instants of the changes in every stored set
come in the order of the changes), which they do when they come one at a time (`RequestsKeepTurn`); of two that overlap, the one
that was called first may build on the other, and a map may then announce what is in force.
An acknowledgement concerns one node's record only, so one node is enough. `AcceptedInForce` says that what is recorded has
been in force; that a node cannot accept what is announced for a later flag day, as the operation is documented to be
for, is what `acks_future` shows.
The check of addNode compares a name with its namesakes: two names and two keys give every outcome, three publications
a republished node beside two competing ones, all of them overlapping, and two deletions a file that is gone when the second comes for it. For the certificates, the second crash hits the recovery from the first.
The phases of a migration treat their documents alike: two keys of one store give a batch that is half done, a store
that replaces beside one that adds gives both kinds, two instances take each other's files away in every phase, and
the third start lets one of them begin again after a crash or a failure. In the console, hazards need an answer that is
late, one dialog it belongs to and another that is open by then: one deletion and two nodes for the one, two logins
for the other (which of the two is which makes no difference, hence the symmetry). Two parties at one place and one at
another tell a list without repetitions from the list itself.
`CHECK_DEADLOCK FALSE`, in all runs but `console`: the service stops when all its clients have been served, and a
migration when it has ended.

Fairness (`params_sequential`): storage calls of requests, map reads and start-up complete (weak fairness of `RequestStep`,
`MapStep`, `BootStep`), since the drivers answer or time out; time passes; the process is restarted after a crash; and
nodes poll the map for ever (`MapStart`), as Corda nodes do. Nothing is fair about `Call`, `Crash` or a fault. A
schedule that has come due is only ever applied by a poll, so the last assumption is what the liveness properties rest on.

Fairness (`migration`): weak fairness of each job, as every storage call is answered, in time or with a failure. Nothing is
fair about a restart: `SetupEnds` says that a set-up succeeds or fails, not that it succeeds; a torn file makes every
start fail.

What violation runs say of the code, in the order of PROJECT.json's findings: overlapping updates lose one;
scheduled parameters cannot be acknowledged; overlapping publications evade the check of the key; two
instances that start together do not trust each other's nodes; and one delete does not delete a node that has
published twice.

## Proofs

`ParameterUpdates_proofs`, for any number of requests and map reads, either storage, any delay and bounds, with crashes
and faults:

- `TypeCorrect`: `Spec => []TypeOK`.
- `AlwaysDownloadable`: `Spec => []Downloadable`. `Downloadable` speaks of registers and answers only and is not
  inductive: a hash reaches a register from a request or a map read that holds it in memory. `StoredFirst` adds that
  these hold stored hashes as well, from the moment they read or make them; it is preserved because `stored` only grows.
- `FlagDayHolds`: `Spec => FlagDay`. The inductive invariant `Punctual` follows the activation instant from the request
  into the schedule, from the schedule into every map read that holds a copy, and into the moment of the write: a
  copy's deadline is at least the instant of the request that made the set, and who is about to write CURRENT has seen
  that instant pass. It holds although copies go stale and schedules are overwritten, because instants travel with
  their sets. A small lemma about `Append` and `Last` gives that the maker of a set is the last of its lineage.

`ConcurrentUpdates_proofs`, three properties that need less than the environment of `params_sequential`. Each theorem states
what it does need; TLC finds a counterexample as soon as one of the conditions is dropped.

| theorem | needs | does not need |
|---|---|---|
| `TemplateAtFirst`: `Spec => TemplateOnlyAtFirst` | Mongo, no failing call | any bound on requests, reads or crashes; `Timely` |
| `MapsAreCoherent`: `Spec => []MapCoherent` | nothing; `MapCoherent` is about requests that have kept their turn (`InTurn`) | any bound on requests or map reads, Mongo, calls that succeed, `Timely` |
| `RequestsKeepTurn`: `Spec => []InTurn` | one request at a time | one map read at a time, Mongo, calls that succeed, `Timely` |
| `AnnouncedFirst`: `TimelySpec => TwoPhases` | Mongo, `Delay > 0`, one map read at a time, `Timely` | one request at a time, calls that succeed |

- `Founding` is the inductive invariant of the first: while CURRENT is empty nothing has been stored but the template,
  and no request has read a base. A crash keeps it, and so does start-up itself; a failing call does not, since it is
  taken for absence.
- The second rests on the order of instants, which no single variable shows. `InTime` says that an update carries the instant of
  its last change (`Exact`), and that the last change of CURRENT, and of what each map read has as current, has come due
  (`Elapsed`): by `InTurn`, so has all it is built on. A map read does not announce an update that is due, so what it announces is
  not in what it has as current. `Called` and `TurnWasKept` say that a step can break the turn but not mend it.
  `InOrder`, for one request at a time: a request that is called later has the later instant, also compared with every set
  that is stored. Two requests at a time break the order, and beside two map reads TLC then finds a map that
  announces what it has as current.
- `Announcing`, for the last: the copy a map read is about to write into CURRENT still stands in the schedule. With two
  map reads the other one deletes it first; with files a request may truncate it;
  without `Timely` or a delay a request writes CURRENT itself.

`SequentialUpdates_proofs`, in the environment `Sequential` (Mongo, no failing call, `Timely`, `Delay > 0`, one request and one map
read at a time), for any number of requests, instants and crashes:

- `NothingIsLost`: `TimelySpec => []NoLostUpdate`; `CurrentGoesForward`: `TimelySpec => ForwardOnly`.
- `LedgerImplemented`: `TimelySpec => Implements`, the refinement of `ParameterLedger`. `BootSwitch` maps to `Found`; `Schedule`, the
  write of NEXT, to `Accept`; `MapSwitch` to `Enact`, or to nothing when CURRENT is that set already; every other step
  leaves the ledger as it is. A request never writes CURRENT here: its delay is positive and `Timely` keeps its
  instant ahead until it is done. (With `Delay = 0` it does, and `Implements` and `TwoPhases` are false.)
- All three come from `SequentialInv`, which is much more than any of them. `Ahead`: the flag day of the request in progress is still to come,
  and not before any that is scheduled. `Chain`: the revisions of the schedule extend one another in the order of their flag
  days, the last one extends CURRENT, and those not due are longer than it. `Base`: a request works on the effective
  parameters (the last revision, or CURRENT), however long ago it has read them. `Kept`: the effective parameters include every
  acknowledged change at any moment. `Behind`: a map read applies a revision that is still scheduled and extends CURRENT, and
  deletes revisions only once CURRENT is one of them. The proof has one case per action, and needs the order of
  lineages (`PrefixTransitive`, `PrefixLeast` and others, lemmas about `IsPrefix` proved pointwise).

`ParameterAcks_proofs`, for any nodes besides:

- `AcksLeaveUpdates`: `AcksSpec => Spec`. Each step of an acknowledgement leaves the variables of `ParameterUpdates` as they
  are, so all theorems above hold beside acknowledgements.
- `AcksTypeCorrect`: `AcksSpec => []AcksTypeOK`, from the former and `TypeCorrect`.
- `OkStands`: `AcksSpec => []OkIsRecorded`, inductive as it stands given the types.
- `AcceptedWasInForce`: `TimelyAcksSpec => []AcceptedInForce`, and `AcceptedGoesForward`: `TimelyAcksSpec => AcceptedForward`, in the environment
  `Sequential`. An acknowledgement compares with CURRENT and writes later, when CURRENT may have moved. The inductive
  invariant adds that whatever has passed the comparison, and is not yet recorded, is a
  prefix of CURRENT and extends what is recorded; it stays one because CURRENT goes forward only (`CurrentGoesForward`).

`NodeRegistry_proofs`, for any names, keys, publications and deletions, with crashes:

- `RegistryTypeCorrect`: `Spec => []TypeOK`; part of it is that no revision is removed twice and that a directory holds one
  file per key.
- `FileDeletionSticks`: `Spec => []DeletionSticksInFiles`. (With Mongo, `nodes_undeleted` refutes `DeletionSticks`.)
- `PoliteUniqueKey` and `PoliteExclusive`: without key changes, `PoliteSpec => []UniqueKey` and `[]Exclusive`. The check of addNode
  is about a list that may be out of date; `Exclusive` says in what respect it may not be: what is registered and not listed
  agrees with the node that is being published, since it was published meanwhile and politely (`Courteous`: publications
  in progress agree on the key of a name). (`nodes_race` refutes `UniqueKey` without politeness.)
- `ListedAlwaysReadable`: `Spec => []ListedReadable`, for both storages, overlapping publications and deletions. `TornIsOpen` is
  inductive: a torn file has not been deleted since a publication opened it that is still writing, or was when the
  service crashed.
- `FailuresAreExplained`: `Spec => NoSpuriousFailure`, from `TornIsOpen` and `ReadsListed`: what a publication has still to read
  it has listed, and had been stored more often then than deleted. So if it cannot be read it is torn, or has been
  deleted since.

`StoredFirst` and `Punctual`, the inductive invariants behind the first theorems, are themselves theorems
(`StoredFirstInvariant`, `PunctualInvariant`): TLC checks them as well.

`Certificates_proofs`:

- `CertificatesTypeCorrect`: `Spec => []TypeOK`, for any instances, crashes and faults.
- `AloneUsesStored`, `AloneHasChain`, `AloneValidatesIssued`: `CarefulSpec => []...` for `UsedIsStored`, `ChainOK`,
  `IssuedValid`, for one instance (`Instances = {i}`) and any storage, requests, crashes and faults that `Careful` allows.
  The inductive invariant has two parts. `Typed`: at each point of start-up the instance holds the certificates it has been
  through, and, once loaded, each is what the storage would answer. `Fits`: whatever the storage still holds of the other two
  was signed by the root that is stored, unless the instance is at this moment replacing the root (and remembers in
  `pc` how far the clearing has come); what it holds in memory fits together; and each issued chain ends in the
  stored root. `Careful` is needed exactly in the window of that exception: a crash there leaves a root beside what
  the old one signed, which the restart does not notice. With two instances `IssuedValid` is false (`certs_cluster`).

`Migration_proofs`, for any instances, stores, documents, bounds and torn files:

- `MigrationTypeCorrect`, `MigrationLosesNothing`, `ReadyIsComplete`: `Spec => []...` for `TypeOK`, `NothingLost`, `ReadyComplete`.
  The inductive invariant `IInv` says what a job knows in each phase, although others remove files and put
  documents meanwhile: what it listed includes all that still has a file; what is not outstanding among its puts is
  in Mongo; when it deletes, every file of its store that is left is in Mongo already. Other jobs only remove files and
  add revisions, which keeps all that true (lemma `Untouched`).
- `MigrationMoves`: `Spec => MovesDocuments`, the refinement of `DocumentMove`.
- `OneRevisionPerStart`: `Spec => []RevisionPerStart`, if there is an instance at all. `Accounted` counts: the revisions of a document
  and the instances that may still put it (`Putters`: it is listed, or will be, and the put is outstanding) are together no more than the
  starts. A start adds one to both sides; a put moves one from the instances to the revisions; nothing else adds any.

`AdminConsole_proofs`, for any nodes, parties, columns, logins and deletions in flight:

- `ConsoleTypeCorrect`, `AlwaysAsksAboutClicked`, `OnlyAdminDeletes`, `AdminAlwaysHasToken`, `SigningOutIsFinal`: from the
  inductive invariant `ConsoleInv`, which ties the open dialog to the token. While no login has been
  sent in another's flight (`doubled`, the case the last property excepts), at most one is in flight, and only of a user without a token;
  the sign-in dialog is open only without a token and the sign-out dialog only with one; so signing out leaves
  no login in flight.
- `RowsHavePlaces`: `ConsoleSpec => []PlacesKnown`. The inductive invariant `Answers` says that the places known are those of the first
  `lookups` entries of the list; `LocationsOfRows` that `getLocations` lists the place of every row, each once.
- `ShowsAllOrNothing`: `ConsoleSpec => []AllOrNothing`, if the parties of one node have different keys (`DistinctKeys`; TLC finds that a
  party listed twice is shown twice). `ParsedRows` says that `parseNodes` makes one row of each party and no other, `CompleteRows`
  that the rest of `getData` keeps that, and `SortKeeps` that sorting does, however often.

  The last two are about what loops compute, for every input. The library states induction for operators, which none of the
  installed provers can instantiate; so the proofs take a least counterexample (`Least`, from `WFMin` of
  `WellFoundedInduction`) and go up to a given length (`Climb`), with the property as a *set* of numbers. That there is an
  ascending list of every finite set of numbers (`Sortable`), and a function that joins a sequence of sequences
  (`Joinable`), is proved that way as well, since both are defined by CHOOSE.

The assumptions are those declared in the modules (types of the constants, finiteness of the sets of calls, of instances
and of nodes, distinctness of the special values).

Before each proof TLC has checked the inductive invariant itself, on the instances of the runs and on ones with fewer conditions
(`Founding`, `InOrder` and `InTime` with files, faults and three requests, `InTime` again with Mongo and two map reads, `Announcing`
with overlapping requests, `Courteous`, `TornIsOpen` and `ReadsListed` on `nodes`, `Answers` and the rows of the table on `console`).

Only model-checked: the liveness properties `EventuallyInForce`, `ScheduleDrains` and `SetupEnds`, as fairness and ENABLED are out of the
prover's reach. The safety properties that violation runs refute hold in no environment with two actors; what replaces
them there is proved above. With `Delay = 0`, TLC finds that `NoLostUpdate` and `ForwardOnly` hold in the otherwise sequential
environment; the theorems leave that case out, because there a request writes CURRENT itself and the ledger is not implemented.

## Not modelled

Change sets are a single appended request, so an epoch that moves back and the role of a removed notary are not seen: they
are pure functions, without a step that another could come between. Paging and the read-only views change no state.
The HTTP layer, cache headers, signatures and serialisation are data, as is authentication; certman and key store downloads
are stateless; dev mode, the import of a root certificate file and the embedded Mongo process are left out. The inputs
watcher, `StagedParameterUpdateStorage` and `retry` are used by nothing. `Migration` counts copies without their values and stops
when a service is up: that a second instance, still migrating, puts an old value over what the first has written
since is listed as a hazard and not modelled.

Of the web site, the map, the metrics and the pages that only draw what they are given. Its built bundles,
`public/vendor.js` and `public/app.js`, are generated: third-party libraries and the web site once more. They hold 97% of the
JavaScript lines of the repository, so the share of JavaScript that can be mapped to definitions is small although nearly all
of the web site's own logic is modelled; the service itself is Kotlin.

## Plan

In the order of what the service depends on:

1. `ParameterUpdates`, `ParameterLedger`, their runs and proofs. *Done.*
2. `NodeRegistry`, its runs and proofs. *Done.*
3. `Certificates`, its runs, and proofs for one careful instance. *Done.*
4. `ParameterAcks`, composed with `ParameterUpdates`. *Done*, with its proofs.
5. `Migration`, which implements `DocumentMove`, interrupted and repeated, with `all()` inside. *Done*, with its proofs. *Left*:
   its composition with a service that is already up.
6. `NodeTable` and `AdminConsole`, the web site. *Done*, with their proofs.
7. `NoLostUpdate`, `ForwardOnly` and the refinement of the ledger, under `Timely` with one request and one map read. *Done*. *Left*: the
   first two with `Delay = 0`; the certificates of several instances that start one after the other.
8. Left out for good: see *Not modelled*.
