# A TLA+ model of cf-networking-release

cf-networking-release gives Cloud Foundry apps a container network, policies
that say which app may talk to which, and names by which apps find each other.
This directory holds TLA+ models of the Go programs under `src/src` that decide
these things, TLC configurations that check them on small instances, and TLAPS
proofs for every value of the constants.

`PROJECT.json` lists the runs, the mutants (small bugs put back into a
definition, which the property must then catch), the source lines of each
definition, the findings and the hazards.

## 1. The system

| Part | State | Operations | Interacts with |
|---|---|---|---|
| policy store (`policy-server/store`) | tables `groups` (a row per tag; its guid or NULL), `destinations`, `policies` | `Create`, `Delete`, `CreateTag` (transactions); `All`, `ByGuids`, `Tags` | one SQL database shared by all policy-server and policy-server-internal instances |
| life of the servers (`cmd/policy-server`, `cmd/policy-server-internal`, `store.New`, `store/migrations`, `db`) | schema version, migration lock, number of group rows; members, connection pools | connect with retries, migrate, populate, start and stop the members, close the pools | the same database, several processes at once |
| policy API (`policy-server/handlers`) | none of its own; requests in progress | create, delete, index, cleanup, and their guards | store, UAA, Cloud Controller |
| policy cleaner (`policy-server/cleaner`, `lib/poller`) | one run: snapshot, chunks left | `DeleteStalePolicies` from a poller and from `POST /policies/cleanup` | store, Cloud Controller |
| internal policy API (`policy-server-internal`) | none | policies and tags by guid | store |
| address table (`service-discovery-controller/addresstable`) | hostname -> entries (ip, update time), pause flag, last resume, warm flag | `Add`, `Remove`, `Lookup`, `PausePruning`, `ResumePruning`, `SetWarm`, `Shutdown`, pruning goroutine | driven by NATS callbacks, read by HTTP handlers |
| NATS subscriber (`mbus`), HTTP server (`routes`) | connection, subscriptions, queued messages and handlers | register and unregister messages, reconnect and disconnect handlers, warming, start and end of the process | address table, NATS, route emitters |
| bosh-dns-adapter | one query | DNS-over-HTTP request, client with retries | service-discovery-controller |
| garden-external-networker, per container | state file (port pool), file lock, bind mounts, CNI networks | `up`, `down` | Garden, CNI plugins, kernel |
| garden-external-networker, as a daemon (`ipc`, `proxy`) | socket, connections, received descriptors, the CNI config kept in memory | accept, decode, up or down, redirect, answer; signals | Garden, iptables lock |
| iptables lock (`lib/rules`) | lock file; chains of the network namespaces | lock, command, unlock | other processes on the cell |
| mappers and validators (`policy-server/api`), policy clients (`lib/policy_client`) | none; a call in several requests | two versions of a policy, chunks of a list | policy API |
| route_populator | publisher goroutines, quit and error channels | start, publish, heartbeat, stop, wait | NATS |
| cf-pusher | what earlier runs left on the platform | a run: org, quota, security group, push, check | cf command |
| config, metrics, stateless handlers, example apps | none | | |

What is hard in it, and what makes each part correct:

* **Store.** Tags are few and recycled, rows are shared by policies and given
  back with the last one, calls take lists and fail half way, and nothing in the
  Go code serialises transactions of several processes. Correct means: a guid
  has one tag; every policy can be read; nothing leaks; a call is all or nothing.
* **Life of the servers.** Several processes race on a fresh database, lose it,
  die holding a lock, and are stopped in the middle of a cycle. Correct means:
  nobody serves before schema and tags are there; everyone comes up; no pool is
  closed under somebody who uses it.
* **API and cleaner.** A guard reads remote state in several calls and acts
  later; the cleaner works from a snapshot, in chunks. Correct means: developers
  stay inside their spaces and their quota; only policies of deleted apps are
  cleaned, and all of them in the end.
* **API versions and clients.** Two versions show one store, and a call is several
  requests of which one may fail or lose its answer. Correct means: the versions
  agree; what is listed can be deleted; a call without an error is done.
* **Address table.** A pruning cycle takes the lock three times and time passes
  in between. Correct means: an ip is listed once; only stale entries are pruned;
  stale ones do go.
* **Service discovery.** Connections flap, messages are lost, processes restart
  with an empty table. Correct means: pruning is paused exactly while nobody can
  register; an instance that runs is not pruned; no answer leaves it out.
* **Networker.** Processes share a file, and calls fail or are killed anywhere.
  Correct means: no host port is forwarded to two containers; down leaves
  nothing behind; nobody waits for ever for the file lock.
* **Networker daemon and iptables.** One loop serves all connections, with a config
  that outlives a request, and shares a lock with other processes. Correct
  means: a container gets its own config; no process undoes the rules of another;
  every connection ends; a stopped daemon comes back.
* **Route populator.** Goroutines stop each other without synchronisation. Correct
  means: every route is published; a stopped runner ends and reports errors.
* **cf-pusher.** Every run starts from what a failed one left. Correct means: runs
  end, success means what it says, and runs converge.

The hazards in `PROJECT.json` name the line where each of these bites.

## 2. Modules

| Module | Models | Kind |
|---|---|---|
| `StoreTables` | the tables and every SQL statement of `group.go`, `destination.go`, `policy.go`, the queries of `store.go` | operators on a record of tables |
| `PolicySpec` | what the store promises: a set of policies, an injective tag assignment, atomic calls | abstract specification |
| `PolicyStore` | `store.go`, serial transactions, one policy of the list per step | state machine, refines `PolicySpec` |
| `StoreTx` | `store.go`, overlapping transactions, one SQL statement per step | state machine |
| `StoreStartup` | both `main`s, `connection_pool.go`, `store.New`, migrations, `populateTables`, outages and restarts | state machine |
| `PolicyServer` | handlers, guards, cleaner, poller over the abstract store | state machine |
| `PolicyAPI` | mappers, validators, the create, delete and index handlers of both versions, the external policy client and its chunker | state machine and pure functions |
| `AddressTable` | `address_table.go` | state machine |
| `ServiceDiscovery` | `subscriber.go`, `routes/server.go`, both `main.go`s, `service_discovery_client.go` | composition, extends `AddressTable` |
| `GardenNetworker` | `manager.go`, `port_allocator`, `file_serializer.go`, `cni_controller.go`, the mounter | state machine |
| `LockedIPTables` | `locked_iptables.go` | state machine, extended by the next |
| `NetworkerDaemon` | `ipc.go`, `proxy_redirect.go`, `mux` and `main.go` of the networker, the config of `cni_controller.go` | composition over `LockedIPTables` |
| `RoutePopulator` | `runner.go`, `publisher.go`, `main.go` | state machine |
| `CfPusher` | `cmd/cf-pusher/main.go`, `cf_command`, `cf_cli_adapter` | state machine |
| `PolicyStoreProofs`, `StoreTxProofs`, `StoreStartupProofs`, `PolicyServerProofs`, `ServiceDiscoveryProofs`, `GardenNetworkerProofs`, `NetworkerDaemonProofs`, `CfPusherProofs` | theorems about the module of that name; `PolicyServerProofs` also about `PolicyAPI`, `ServiceDiscoveryProofs` about `AddressTable`, `NetworkerDaemonProofs` about `LockedIPTables` | TLAPS |
| `MC*` | constants for TLC; `MCPolicyAPI` puts `PolicyServer` and `PolicyAPI` into one instance | |

`PolicyStore` and `StoreTx` share `StoreTables`, so both say the same of each
statement. `PolicyServer` uses the store only through what `PolicySpec` promises
(a set of policies with atomic `Create` and `Delete`); the run `policy_store`
shows that the serial store keeps that promise, and `store_tx_all` shows where
overlapping transactions do not. `PolicyAPI` uses the same promise from the
other side. `ServiceDiscovery` uses the actions of `AddressTable` as they are, so
what is proved of the table holds inside it. The specification of the table by
itself is `TableSpec`, that of the API is `APISpec`.

### How state and actions correspond to the code

**StoreTables, PolicyStore.** `groups` is a function from tags to guids or NULL.
A `destinations` row is its unique key (group and service); the surrogate id is
left out because it is in bijection with the key. A service stands for port,
port range and protocol, which the store compares and never computes with.
`tables` is the committed state and `work` the transaction's. `CreateNext` and
`DeleteNext` are one turn of the loops in `Create` and `Delete`; a turn that
cannot find a row for a group is not enabled and only `Rollback` is left, which
may happen at any other point too. `reserved` is a history variable: a guid that
`CreateTag` named may keep a tag without a policy. (No route leads to
`TagsCreate` at this commit, but the store offers the call.)

**StoreTx.** Each session is a connection inside `Create` or `Delete`; `pc` names
its next statement, and `driver` the database, both of which are supported. On
Postgres a statement sees the committed tables plus the session's own writes (READ
COMMITTED, which is what `Beginx()` gives), `FOR UPDATE` locks in `firstBlankRow` and
in the destination's `GetID`, and foreign keys take key-share locks. On MySQL a
plain SELECT reads the snapshot of the transaction's first one (REPEATABLE READ),
`GetID` takes a shared lock, which two sessions hold at once, and there are no
foreign keys, because MySQL ignores `REFERENCES` behind a column. Both lock the rows
of UPDATE and wait for an uncommitted unique key. `Blockers` says who a
statement waits for; a session in a cycle is rolled back. Two simplifications:
after waiting for a blank row the model evaluates the query afresh (Postgres
re-checks the row it waited for and may return none, which is a failed call and
covered by `RollbackDbError`); and MySQL's gap locks are left out, which can only
make a transaction wait or fall victim to a deadlock; the model has both.

**StoreStartup.** One process per instance of either server; `Pools` and `Members`
say how many pools its `main` opens and how many members its group has, and
`StoreUsers` which of them use the store. `ifrit`'s ordered group starts a member
when the one before is ready and stops them in reverse order; a member returns
when it has finished what it does. The lock that `ExecMaxWithLock` takes lives in a
library that is not in the tree; that the database drops it with the connection is
an assumption about it. Rows are counted, not listed: `populateTables` only looks
at the count.

**PolicyServer.** Each request is a thread; each remote call and each store call
is a step, and `DeleteApp` and `RemoveRole` (Cloud Controller, external) may come
between any two. Chunks of guids come out of a Go map, so any chunk may be next.
Two facts of the code are kept: an app that Cloud Controller does not list adds
no space to check, and `QuotaGuard` looks at every app of the list and counts
policies that exist already as new ones. `unlimited` and `raced` are history variables
for the quota: it does not bind admins, and two requests for one app that are
between its check and their write at once can get past it.

**PolicyAPI.** A policy of v0 has one port and one of v1 a range; the operators
`AsStoreV0`, `AsStoreV1`, `MapV1` and the like are the mappers in both directions
and `ValidV0`, `ValidV1` the validators. A client's call is the list that is left
to send; each request is a step which works, is rejected, fails before or fails
after its effect. `touched` is a history variable: what others changed since the
call began.

**AddressTable.** The code compares ages with a threshold, so the model keeps
ages, capped past the threshold, instead of times. Entries are a set: no method
depends on their order. `keys` is the domain of the Go map, which differs from
the hostnames with entries because pruning leaves empty lists.

**ServiceDiscovery.** `stage` is the line of `RunOnce` that comes next, and later the
place in the way out of `main`. NATS (external) runs the handlers of the
connection one after the other from a queue and each subscription in a goroutine
of its own, and loses what is sent while the connection is down. The route
emitters (external) register each instance when it starts and once per interval,
when they have been told it. A DNS query is `dns`: its early answers, up to four
requests to a controller that is not warm, and the reply. Time is counted in
ticks. `Prompt` is the assumption on it: handlers, messages and pruning cycles
take less than a tick, which stands for tens of seconds, and an emitter that
knows the interval keeps it. The warming lasts one interval, as the job's template
has it. `liveFor`, `readyFor` and `calm` are history variables.

**GardenNetworker.** The state file is its JSON form, a set of ports per handle;
`MarshalJSON` and `UnmarshalJSON` convert. An empty file decodes to an empty pool
(`io.EOF` is not an error), so `Truncate` simply empties it; a write that is cut
short leaves it empty or `corrupt`. Decode and acquire are one step because the
process holds the lock. Garden, the kernel and CNI are external: Garden has one
call per container at a time, calls `down` after a failed `up` and again after a
failed `down`; a killed process loses its lock; a failing CNI call may have had
its effect or not. Nested mounts of one path are not told apart. A port mapping says
whether the allocator gave the port or the caller specified it. `lost` is a history
variable: the ports in use whose record a write that was cut short has lost.

**LockedIPTables, NetworkerDaemon.** A chain stands for the table of its namespace.
A command reads it and replaces it in two steps, `iptables-restore` once for all
its rules, so what is not under the lock shows. When a caller ends its lock goes, but
a command it had running may live on (`orphans`) and write what it has read;
`overtaken` is a history variable, the calls in whose table that happened. `Agents`
are other processes of the cell (the vxlan policy agent and the like, external) which call any operation.
The daemon is one loop; `pc` is its place in `handleOne`. `plugins` is the config
that `injectConf` changes in place. An up of the manager is one step here that
works or fails; its inside is `GardenNetworker`.

**RoutePopulator.** `Stop` reads the flag in one step and writes it in another, since
it holds no lock; the second close of the channel is the panic it is in Go.
`PartitionRange` is the function of the code. The number of routes is picked from
`RouteCounts`; the threshold of 1000 below which one goroutine does all is a
constant. `raced` is a history variable: two Stops have both found the flag clear.

**CfPusher.** `Script` lists the commands of each stage of `main`; a command works,
is refused by the platform, fails, or times out after its effect. `Push` and
`CheckApps` start a goroutine per app while the semaphore has room. Runs repeat
on what is left. The commands that the adapter runs without a timeout may also
never return (`Hangs`, `WorkerHangs`), and the org may hold apps that the
configuration does not name (`others`). `down` and `skipped` are history variables.

## 3. Runs

| Run | Instance | Shows | Distinct states |
|---|---|---|---|
| `policy_store` | 3 guids, 2 tags, 1 service, lists of 1-2 policies, symmetry on guids | the store's invariants, and `AtomicStore` (it implements `PolicySpec`) | 53k |
| `store_tx` | Postgres and MySQL, 2 sessions, 2 guids, 2 tags, 3 calls, lists of 0-2 policies | what survives overlap: one tag per guid, on Postgres consistent destinations; every call returns | 81k |
| `store_startup` | 2 policy servers and 1 internal, 3 migrations, 1 outage, 2 failures or signals | `UpMeansUsable`, `PoolOutlivesMembers`, `AllComeUp` | 295k |
| `policy_server` | 3 apps, 2 spaces, 2 requests and the poller, chunks of 2, 1 failed run; 2 clients over both versions, 2 apps, chunks of 2 | `CleanerDeletesOnlyStale`, `ChangesStayInOwnSpaces`, `IndexStaysInOwnSpaces`, `QuotaHolds`, `StaleEventuallyDeleted`; `ViewsAgree`, `SuccessMeansDone`, `ListedIsAccepted` | 369k |
| `address_table` | 2 hostnames in 3 spellings, 2 ips, threshold 1, delay 2 | `IpOnce`, `PruneTakesOnlyStale`, `StaleEntryGoes` | 40k |
| `service_discovery` | 1 instance, interval 1, threshold 2, warming 1, 2 waiting handlers | `PauseFollowsConnection`, `LiveNotPruned`, `AnswersComplete` | 1.53M |
| `garden_networker` | 2 containers, 2 processes, 2 ports, of which one may be asked for, 2 failures of which 1 in the write | `NoSharedPort`, `PortsAllocated`, `DownCleansUp`, `EveryCallReturns` | 245k |
| `networker_daemon` | 2 connections, 2 other processes, 1 fault, 1 stop, 2 descriptors | `AddGetsOwnConfig`, `CallsAreAtomic`, `AnsweredMeansDone`, `EveryConnectionEnds`, `ListensAgain` | 396k |
| `route_populator` | 1 or 3 publishers, 4, 5, 7 or 8 routes, 2 errors, a signal | `StopEnds`, `AllRoutesPublished` | 28k |
| `cf_pusher` | 3 apps, 2 goroutines, 1 retry, 3 faults | `SuccessMeansReady`, `RunEnds`, `RerunsConverge` | 38k |

The runs of `PolicyStore` and `AddressTable` check the type invariant by name; in the
others one of the invariants has it as a conjunct (`RoutePopulator`, with temporal
properties only, has none).

The run `policy_server` has two parts that share no variable, the handlers with the
cleaner and the API with its clients; either moves while the other is as it began, so
its behaviours are those of both parts.

Two runs end in a counterexample, each against what a test or a document of the
repository says of the code:

| Run | Violates | What happens |
|---|---|---|
| `store_tx_all` | `AllSucceeds` | `Create` finds the row of a group without locking it, a `Delete` of the group's last policy frees the row, both commit: the policy refers to a NULL guid and `All` fails from then on (`store_test.go:92`, "remains consistent") |
| `policy_server_quota` | `QuotaIsALimit` | `QuotaGuard` looks at two creates before either writes (`configuration.md:18`, "only a limited number of policies") |

The passing runs check what holds beside these: one tag per guid on either database,
and the limit exactly, for creates that do not overlap.

### Where the code does less than its tests or docs say

Besides those two, these are the places where a property had to say less than a
test or document does, or than one would wish.

* On MySQL a `Create` and a `Delete` hold `GetID`'s shared lock on one destination
  together; the `Delete` counts in its snapshot, finds no policy and removes the row
  under the new one (`store_test.go:92`, "remains consistent"; `configuration.md:26`
  names MySQL as supported). `DestinationsConsistent` speaks of the rows on Postgres
  only.
* `populateTables` counts and inserts in two statements outside any transaction, so
  processes that start together insert the rows twice (`store_test.go:199`, "does
  not exceed 2^(tag_length * 8) rows"). `UpMeansUsable` bounds the rows by one filling
  per process.
* A specified host port never reaches `InRange` (`manager.go:86`;
  `port_allocator_test.go:85`, "cannot specify port from allocation range").
  `NoSharedPort` and `PortsAllocated` speak of the ports that the allocator gave; the
  run has specified ports inside the range.
* With a remainder of the size of a part or more (8 routes on 3 CPUs, 1000 on 48)
  `route_populator` makes more parts than goroutines, and the last routes are never
  published (`runner_test.go:54` expects every route). `AllRoutesPublished` says that
  those, and only those, are never published.
* Two publishers that fail, or a failure and a signal, may both find `stopped` clear
  and close the quit channel: a panic instead of the error (`runner_test.go:76`).
  `StopEnds` excepts two Stops at once (`raced`).
* A pruning cycle that passed its check before `PausePruning` prunes after it
  (`address_table_test.go:180`, "does not prune stale routes"); `LiveNotPruned` shows
  that it does not take a running instance even so.
* A networker killed between `Truncate(0)` and the write leaves an empty pool, so
  ports in use are handed out again: `NoSharedPort` and `PortsAllocated` except
  the ports that were in use just then (`lost`), until their container goes.
* The start message goes out before the subscription to registrations, and warming
  is as long as the interval: an emitter that answers too early registers again just
  when the table gets warm. `AnswersComplete` excepts the first interval after
  warming, and only an instance whose registration is due or waiting.
* `iptables-restore` survives a daemon that ends (`ipc.go:182`), without the lock:
  `CallsAreAtomic` excepts what it writes and the calls that it overtook.
* The clients of `PolicyAPI` may send back an empty list, which the v1 validator
  refuses (`validator.go:16`); `ListedIsAccepted` excepts it.
* Two overlapping `Delete`s of a group's last two policies each count the other's,
  and the tag is not given back before it is used again.
* The daemon adds a container that has no properties with the metadata of an earlier
  one, because `injectConf` leaves in place what it does not replace
  (`docs/3rd-party.md:169`). `AddGetsOwnConfig` is about containers that have some.
* The error of `GetNS` in `proxy_redirect.go` is not looked at; a namespace that is
  gone ends the daemon, and a panic leaves the socket file behind. `ListensAgain` is
  about signals.
* Nothing closes the descriptors that the daemon receives, and it has no timeout:
  `EveryConnectionEnds` holds while descriptors are left, for clients that send or
  hang up.
* `natsClient` is assigned after the handlers exist; a reconnect in between ends the
  controller (`subscriber.go:164`). It is the action `ReconnectHandlerPanics`.
* v0 has no upper bound on ports (`api_v0/validator.go`; `docs/API_v0.md:120`), so
  `ValidV0` has none, and v1 lists a policy with a port above 65535 that its own
  validator then refuses to delete. `ListedIsAccepted` leaves these deletes out; v0
  can delete the policy, and the run has one.
* cf-pusher does not repair an org without its space, a security group that is not
  bound, an app with more instances than desired, or an org with apps that the
  configuration does not name; `Push`, `AppGuid`, `OrgGuid`, `AppCount`, `CheckApp` and
  `SecurityGroup` have no timeout. `RunEnds`, `RerunsConverge` and
  `SuccessMeansReady` except these.
* `GetUserSpaces` reads one page of Cloud Controller's answer; the models have no pages.

**Why the bounds are enough.** The store's rules involve one group row, one
destination and the policies that use them; three guids on two tags is the least
that makes tags run out, be freed and pass to another guid inside one list, and
a list of two is the least that shares rows within a call. Three calls on two
sessions fill the tables and then race on them. Three apps with chunks of two (or
one) make a cleaner run span chunks. Two ips and two hostnames make a fresh entry
sit beside a stale one. Two containers on two ports, one of which may ask for
both, exhaust the pool while a container is being taken down. Two policy servers
and an internal one differ in members and pools and race on the lock and on the
count; the cleanup endpoint's run is the poller's operation, and one cleaner
beside two requests is what liveness can be checked with. One instance is enough for
service discovery because hostnames and ips do not interact there beyond what
`address_table` covers, while the connection, the handlers, the messages and the
clock do; threshold and interval are the least that are apart, and the
warming equals the interval as it does in the template. Two
connections let a config go from one to the next, and two other processes compete
with the daemon for the lock and with each other. Seven routes on three
publishers leave a remainder, five and eight one of the size of a part, and four
go to a single publisher. `MaxCalls`,
`MaxRequests`, `MaxErrors`, `MaxFailures`, `MaxOutages`, `MaxFaults`, `MaxStops`,
`MaxQueue`, `MaxCallbacks`, `MaxChain` and `MaxTorn` cap counters and queues only;
who sends to a full queue waits, and messages are lost by outages, not by the bound.

**Fairness.** `StoreTx`: a call that has begun goes on, because its goroutine is
scheduled and the database answers or fails each statement. `StoreStartup`: the
platform restarts what exits, the database comes back, an operation on it ends.
`PolicyServer`: only the poller's cleaner is fair, which is called again after
every run, failed or not (`Poller.Run` logs and loops); requests and their handlers,
failures and Cloud Controller's changes are not. `AddressTable`: the clock and the ticker
go on. `GardenNetworker`: strong fairness of a process's steps, because a process
that waits for a file lock which is free again and again gets it some time;
`NetworkerDaemon` likewise for the daemon, while another process that has the lock
goes on and gives it back; monit starts the daemon again; nothing is assumed of
a command whose caller has ended. `RoutePopulator`:
goroutines run and timers fire; `select` sees the closed channel some time, for
its timer starts anew each turn. `CfPusher`: a command with a timeout ends, because
the adapter kills it after two minutes; one without ends or hangs, which is an
action of its own and an exception of the properties; and the operator tries again.
No run assumes that failures stop other than through their bounds.

Deadlock is checked except in the runs of `NetworkerDaemon`, `RoutePopulator` and `CfPusher`,
which do end: when all clients are served and the daemon is down for good after
a panic, when `main` has returned, and when a run has succeeded. `Done` in `StoreTx`
is the intended end there.

## 4. Proofs

TLAPS checks these for every value of the constants, under the `ASSUME`s of the
modules. These say what the constants are, that the values that stand for
nothing (`NULL`, `NONE`, `NoProcess`, `Absent`, `NoCaller`, `NoName`) are none of the others,
and that there are finitely many request threads, processes and policies in a
request. `ServiceDiscovery` also assumes (`TimingAssumption`) what the
job's template sees to: the registration interval is the resume delay, is not zero,
is shorter than the stale threshold, and is the warming duration. Two theorems need
more, which is a hypothesis of the theorem because nothing in the code ensures it:

* `AgentsStayOutside`: no other process of the cell writes to the tables of a
  container's own namespace;
* `OwnAddresses`: two instances with the same ip share no hostname, because an
  unregister message names only ip and hostname and takes away the other's entry too.

Each inductive invariant was checked by TLC on the instance of the component's run
before it was proved.

**`PolicyStoreProofs`.** `StoreInv` proves the inductive invariant `Inv`:
`TypeOK`, and both `tables` and, inside a transaction, `work` are well formed,
which is four facts: guids are unique, references resolve, destinations are used,
tags are used. None is inductive alone: freeing a row keeps references intact
only because the counts look at both tables; that a freed or kept row is right
needs that every destination has a policy; and `Commit` needs the same facts of
`work` that `Begin` found in `tables`. The argument follows the code: a lemma for
`GroupTable.Create`, one for the two inserts, one for a turn of `Create`, then the
same for deletion with an intermediate state in which only the two groups of the
deleted policy may be unused. `StoreTypeCorrect`, `StoreGuidHasOneTag`,
`StorePoliciesResolve` and `StoreNothingLeaks` follow.

`StoreKeepsPromise` proves the refinement `AtomicStore`. It needs `CallInv`, which
says how far a call has got: during a `Create`, `work` shows the committed policies
and the ones that are done, guids keep their tags and the new owners are those
that the done policies name; during a `Delete`, the done policies are gone, tags
have only been given back by guids that they name, and a guid of a committed policy
keeps its tag only while it has a policy left. A turn of either loop is then a
stuttering step, `Commit` is `Create` or `Delete` of `PolicySpec` for the whole list
(`TagMap(work)` is the witness for the tags, the owners that are gone the one for
the tags given back), and `Rollback` is `Refuse`.

**`StoreTxProofs`.** `OneTagPerGuid` and `DestinationsStayConsistent`, for any number
of sessions; the first says the same of either database, the second speaks of the
rows on Postgres and of the types on both. The invariant says what the locks
protect. `Groups`: a row that a
transaction has given a guid, or is about to, is locked by it and by nobody else,
and its guid is in no other row that it sees nor touched by anyone else.
`Destinations`, on Postgres: policies rows are added and deleted under the lock of their
destination, no two sessions lock or insert the same one, and what a session has
written so far leaves, once committed, each destination with a policy, except for the
one it is just working on. The committed tables alone say nothing about what a
commit will do, hence the statements about uncommitted writes.

**`StoreStartupProofs`.** `UsableWhenUp`: past the migrations the schema is complete
and past `populateTables` there are rows (`Ready`), for nothing takes them back.
The bound on the rows is inductive only with the processes counted that have seen
an empty table and are still to fill it (`Filled`). `PoolClosedLast`: by `Life`, what
a process has at each point of its life.

**`PolicyServerProofs`.** `CleanerSafe`: an app that is gone does not come back, so
what was stale when Cloud Controller answered stays so. `GuardSafe` and `FilterSafe`:
`Guarded` says what the guard has established so far and which spaces are left
to ask for, under apps and roles that may go at any time. `QuotaBounded`: `Quota`
says of an app that no two requests had between check and write at once that
the one request there, if any, still fits under the limit, since what others did
meanwhile could only take policies away.

About `PolicyAPI` it proves `VersionsShowTheSame`, `SuccessIsComplete` and
`ListedCanBeDeleted`, for lists of any length and any chunk size. The invariant
`APIInv` says that the store is finite and holds only what a validator let through
(`Entry`), and of each running call that the part of its goal which is not reached is
left in its requests or was changed by others (`OnTheWay`), and that the requests
of a delete are valid (`Acceptable`). The lemmas are about the pure functions:
the chunks of a list cover it and nothing else, which is arithmetic on `Chunk`; a
list made from a finite set enumerates it; a mapper and its inverse undo each other
on entries, so the lists of both versions and of the internal API show the same;
what a version lists passes its own validator. A request then takes from the
remaining ones exactly what it adds to or removes from the store, so an empty
rest is the goal reached.

**`ServiceDiscoveryProofs`.** Of the table, `TableInvariant`: the type (including that
only keys of the map have entries) and `IpOnce`, which is inductive because
`Registered` updates the entry it finds. `TablePruneTakesOnlyStale`: from the type and
the second look at staleness under the write lock.

`PausedWhileDisconnected`: the waiting handlers end with
the one for the state that the connection is in; when none waits, the last one has
left the flag so; before the first connection there are none.

`LiveInstancesStay` proves `LiveNotPruned`. The property is not inductive: an entry
is young because a registration came, and that came because the emitter was told the
interval while the connection held. `PruneInv` keeps the account: while the
connection holds, the entries of a running instance are no older than its last
registration, or something is on its way that will renew them (`RenewedInTime`); a
controller that is starting has an empty table (`Empty`); and from a tick after
pruning was resumed, and in a cycle that passed its check before a pause, no entry
of an instance that has run for a tick is past the threshold (`SafeToPrune`). The
resume delay is what makes up for the registrations that an outage lost.

`AnswersAreComplete` proves `AnswersComplete` with `AnswerInv`: each running instance is
in the table, or it or the warming is so recent that its next registration comes in
time (`AllKnown`); a waiting unregister message is not about an instance that runs,
unless it has just started again (`Gone`); the table is warm only after the whole
warming (`WarmLast`).

**`GardenNetworkerProofs`.** `NetworkerDownCleansUp`: what a down has done is known by
where it is (`DownDone`), and no process that is about to write the state file
brings back a container that is gone (`Gone`), also after torn writes.
`NetworkerNoSharedPort` and `NetworkerPortsAllocated`: the file, or while it is
being written the pool in memory of the process that has it locked, knows each port
that the allocator gave and that is forwarded or about to be (`Ports`), those excepted
whose record was lost; a port has one container in the file. Specified ports are
never in it, so they need no assumption.

**`NetworkerDaemonProofs`.** `IPTablesCallsAtomic`: who runs a command holds the lock,
and what it has read is what the table still holds, unless an orphaned command has
overtaken it; what an orphan writes is its own operation on some earlier table (`OrphansApart` keeps
it apart from the namespaces of running ups). `DaemonAddsOwnConfig`: from the point
where `injectConf` has run, the config is that of the request being served.
`AnswerMeansRedirected`: the table of a container is empty until its up, the rules
applied so far are known by where the call is, and only the daemon changes it.

**`CfPusherProofs`.** `SuccessIsEarned` proves `SuccessMeansReady`, with any number of
apps, goroutines, retries and faults. `PusherInv`: goroutines run only in the two
stages that start them, within the semaphore (`Shape`); from the third command of
`InstallASG` on the group has the expected rules (`GroupInv`); and as long as a check
has met no error, each app is still on its list, in a goroutine's hands, as desired,
or has crashed since (`CheckInv`), so a check that ends without one has seen them all. Without the goroutines the last
would not be inductive: the list is empty before the last look has been taken.

Only model-checked:

* liveness (`EveryCallReturns`, `AllComeUp`, `StaleEventuallyDeleted`, `StaleEntryGoes`,
  `EveryConnectionEnds`, `ListensAgain`, `StopEnds`, `AllRoutesPublished`, `RunEnds`,
  `RerunsConverge`): outside TLAPS's reach, as is ENABLED;
* `RoutePopulator`, whose properties are all liveness. What `PartitionRange` computes
  is checked through `AllRoutesPublished`.

Every invariant and every action property of a passing run, and the refinement, is
stated by a theorem.

## 5. Not modelled

* The generated fakes (counterfeiter, 14,131 of the 24,830 lines of Go outside
  tests and vendored code), fixtures, test and integration helpers and the fake CNI
  plugin: they are test code. The map covers 4,958 lines, a fifth of all lines and
  close to half of the lines written by hand; the rest of those is the following.
* The example apps: no part of the release runs them.
* Configuration loading, construction of loggers, TLS and servers in the `main`s, and
  stateless handlers (health, uptime, whoami, CORS): nothing that changes state.
* `lib/rules/rules.go`: the text of rules, data to the models.
* Metrics: counters that nothing reads.
* HTTP, JSON and SQL text, the DNS answer's text, the cf manifests: data.
* MySQL's gap locks (above), and paging of Cloud Controller's answers.

## 6. Plan

The modules and theorems planned are there. What is left open: what overlapping
transactions keep of `PolicySpec`'s promise. Between the runs `store_tx` and
`store_tx_all` lies the question which of its clauses `StoreTx` refines when no
`Delete` overlaps a `Create` that names the same guid.
