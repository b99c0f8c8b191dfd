# A verification project for FreeLink

FreeLink is a desktop proxy client: a Qt program (the *GUI*, C++, `src/src` and
`src/include`) that keeps profiles and subscriptions in SQLite, and a second
process (the *core*, Go, `src/core/server`) that runs sing-box and Xray. The two
talk over a local socket. This directory holds TLA+ models of the parts of both
processes that are hard to test: the concurrent ones, and the long sequential
translations between a profile's forms and the cores' configuration. TLC
configurations check them on small instances, and TLAPS proofs establish the
results that matter most for every instance.

`PROJECT.json` says, for each definition of a model, which lines of the source it
stands for, and for each property, which plausible slip of the code it would catch.

1. [The system](#1-the-system)
2. [Modules and how they correspond to the code](#2-modules-and-how-they-correspond-to-the-code)
3. [Runs and bounds](#3-runs-and-bounds)
4. [Fairness](#4-fairness)
5. [Proofs](#5-proofs)
6. [What the code does not keep](#6-what-the-code-does-not-keep)
7. [Not modelled](#7-not-modelled)
8. [Plan](#8-plan)

---

## 1. The system

```
   user          subscriptions (http)                    the network
    |                  |                                      |
+---v------------------v------------ GUI process -+   +-------v------ core process ---+
| UI thread   DS_cores   starter/stopper threads  |   |  Start/Stop   boxes, Xray     |
| looper      lister     test workers   updaters  |   |  tests        extra process   |
|     \          \           |              |     |   |      ^        clash tracker   |
|      +----------+- LocalSocketChannel ----|-----|<->|- dispatcher (goroutine each)  |
|                    (I/O thread)           v     |   +-------------------------------+
|                                        SQLite   |
+-------------------------------------------------+
```

### Components

For each: its state, its operations, whom it talks to, what is hard about it, and
what makes it correct. The names in bold are those of `PROJECT.json`.

**IPC channel** (`api/RPC.cpp`, `core/server/dispatch.go`). State: the map of
pending calls, the request counter, the read buffer, the socket, the queue of
lambdas for the I/O thread; in the core one goroutine per request and `writeMu`.
Operations: `Call`, `onReadyRead`/`processBuffer`, `onDisconnected`, `Reconnect`,
`wakeAllWithError`; `dispatch`, `writeResponse`. Every other component that needs
the core goes through it, on whatever thread it runs. Hard: three GUI threads per
call, a condition variable with a time-out and a grace period, the core dying in
the middle of a frame, a reconnect that starts on one thread and ends on another.
Correct: a call gets its own response or an error, exactly once, and it returns;
frames stay whole; no slot leaks.

**Core server: Start and Stop** (`core/server/server.go`, `internal/process`). State:
`boxInstance`, `xrayInstance`, `extraProcess`, `needUnsetDNS`, the temp config of the
extra process. Operations: `Start` with seven ways to fail, `Stop`, the goroutine that
waits for the extra process. Called by the profile life cycle; tells the GUI by a line
on stdout when an extra process exits. Hard: each failure has to undo what was started
before it; stop, exit and failed launch race for the same files; the globals have no
lock. Correct: with no instance nothing runs; the config goes; no false alarm.

**Profile life cycle of the GUI** (`ui/mainwindow_rpc.cpp`, `sys/Process.cpp`,
`ui/mainwindow.cpp`). State: `running`, `started_id`, `core_running`, the spinner states,
the system proxy, `mu_starting`, `mu_stopping`, `mu_exit`, the core process and its
restart bookkeeping. Operations: `profile_start`, `profile_stop`, `CoreProcess` (exit
handler, `Restart`, `Kill`), the new-connection handler, Restart Core, `prepare_exit`.
Hard: four kinds of thread, mutexes locked on one thread and released on another,
nested event loops in which anything else may be handled. Correct: starts and stops
do not overlap and resolve; what the GUI shows is what the core runs; a crash loses
nothing the user asked for.

**Per-app accounting of connections** (`stats/connectionLister`, `QueryConnections`).
State: counters of the last poll, closed connections accounted for. Operation: a poll
every second, diffed against the last one. Hard: the core's answer is two reads taken
one after the other; its ring of closed connections is bounded; a failed poll looks
like an empty one. Correct: no byte twice, no tail lost.

**Traffic history** (`stats/traffic/TrafficStatsManager`, `TrafficStatsRepo`). State: the
accumulator of the current minute, minute and hour tables per configuration and per
app. Operations: `AddConfigDelta`, `AddAppDelta`, `Flush`, the hourly rollup and the
pruning. Fed by the looper, the lister and the speed tests on threads of their own.
Hard: the time is read before the lock, rows are written after it, the rollup is a
transaction of several statements. Correct: each byte is in its minute once, and the
two tiers together are one history.

**Profiles and groups, subscription updates** (`ProfilesRepo`, `GroupsRepo`, `Group`,
`GroupUpdater`). State: a row per profile, the list of ids of each group in memory and
in the database, the id counter. Operations: adding, deleting and running profiles,
deleting a group, updating a subscription. Hard: rows and list are written one after
the other, and updates, which take as long as the network does, run on threads of
their own beside the user and beside other updates. Correct: what is listed has a row
and what has a row is listed; the list mirrors the subscription; known profiles keep
their identity.

**Batch tests (URL, speed, IP, country)** (`mainwindow_rpc.cpp:49-690`,
`core/server/test_utils`). State: `speedtestRunning`, used both as "a test runs" and as
the join of its workers, the stop flag, a counter on the starter's stack, the core's
reporters and its cancellable context. Operations: starting a test, its slices, a worker
and a poller per call, stopping, auto clear, crediting of bytes. Hard: the hand-over of
that mutex between workers, starter and user; results polled from reporters all batches
share, under tags every batch reuses. Correct: tests take turns, a result goes to its own
profile, a test ends.

**Route profiles and rules** (`RoutesRepo`, `RouteProfile`, `RouteRule`, `RouteUpdater`,
`dialog_manage_routes`). State: rows of profiles and rules, a map of weak pointers to the
live objects, the dialog's copy of the list, the id of the current profile. Operations:
adding, editing, accepting, sharing, deep links, choosing, fetching remote profiles on
three kinds of threads. Hard: objects are held across the network and saved afterwards;
one rule has four forms (row, core, share, editor lines). Correct: no form loses a rule,
the store holds what the user accepted, memory and rows agree, the current profile exists.

**Configuration generator** (`configs/generate.cpp`). No state; reads profiles, groups,
routing profiles and settings when a profile is started or tested. Operations:
`BuildSingBoxConfig`, `BuildTestConfig`. Hard: tags composed in four places join two cores
by SOCKS bridges; a chain is stored from its end; the same hop may be used twice.
Correct: nothing is named that is not defined, traffic passes the hops in order and is
credited to them, a test takes the way a start takes.

**Outbounds, transports and subscription formats** (`configs/outbounds`, `configs/common`,
`configs/sub`). No state; some twenty classes, each with readers and writers for links,
JSON, Clash files and the core. Hard: the forms are written by hand, field by field.
Correct: a profile that was saved, shared or recognised by an update is the same profile.

**Traffic looper** (`stats/traffic/TrafficLooper.cpp`). Drains the core's counters every
second into the profiles of the running chain and the history, persists them every ten.
*Not modelled by itself*; it is one of the crediting threads of the traffic history.

**Backup and restore** (`database/Database.cpp:242-288`). Copies chosen tables from a backup
in one transaction with foreign keys off, keeps the higher of two id counters. *Not modelled.*

**Settings**, **Periodic jobs**: a table of values, and a timer that records a job's run
before it runs it. *Not modelled.*

**Core: dialling, DNS and tunnel helpers**, **Parent check and peer check**, **Windows and
widgets**, **Update dialog**, **System integration**, **Third-party code, icons, themes,
translations**: libraries, calls of the operating system, forms and data. *Not modelled.*

### Who calls whom

- *Messages*: every GUI thread calls the core through the IPC channel; nothing else
  crosses the process boundary except the core's stdout, which `CoreProcess` reads for
  the extra process's exit.
- *Shared state in the GUI*: `running`, `started_id` and `core_running` are written by the
  UI thread and read by all; the database connection is one, under a mutex per statement.
- *Callbacks*: threads post closures to the UI thread and to DS_cores, and some wait for
  them; those two threads wait in nested event loops, in which they handle more closures.
- *Chain of forms*: editor, link, Clash file or JSON → profile → row → configuration of the
  core; the routing profiles and the batch tests hang on the same generator.
- *Chain of crediting*: core counters → lister, looper, speed tests → accumulator → minute
  tier → hour tier → chart.

---

## 2. Modules and how they correspond to the code

| module | models | state follows |
|---|---|---|
| `RpcPromise` | what the IPC channel promises its callers | – (abstract) |
| `RpcChannel` | the channel, both ends, with reconnects and deaths of the core | `LocalSocketChannel`, `dispatch.go` |
| `CoreServer` | Start and Stop of the core | the globals of `server.go`, `process.Process` |
| `ProfileLifecycle` | start, stop, restart and exit in the GUI | `MainWindow`, `CoreProcess` |
| `ConnAccounting` | per-app diffing of polls | `ConnectionLister`, the clash tracker |
| `UsageLedger` | what the traffic history promises its readers | – (abstract) |
| `TrafficSeries` | accumulators, writes, rollup, pruning | `TrafficStatsManager`, `TrafficStatsRepo` |
| `GroupStore` | rows and list of a group under updates and the user | `ProfilesRepo`, `GroupsRepo`, `Group`, `GroupUpdater` |
| `BatchTests` | tests of many profiles, both ends | `MainWindow`, `test_utils`, `server.go` |
| `Documents` | JSON objects, queries and mappings as functions, with the helpers of `configs/common/utils` | – (data) |
| `CommonCodecs`, `StreamOutbounds`, `PacketOutbounds`, `XrayCodecs` | every class of profile: how it is read, written and built | – (data) |
| `Subscriptions` | which class a text becomes | – (data) |
| `Sharing` | a profile on its way through its forms | the editor, `ProfilesRepo`, links |
| `ConfigGenerator` | what the cores are given | `generate.cpp` |
| `RouteRules` | a routing rule and its forms | – (data) |
| `RouteStore` | routing profiles, dialog, links, fetching threads | `RoutesRepo`, `dialog_manage_routes`, `RouteUpdater` |
| `MC…` | small instances of each | – |
| `…_proofs` | theorems | – |

How they compose. `RpcChannel` shows that a call is one request and one answer or an error;
the other modules therefore take a call as one step (or, where the core's work interleaves
with the caller's, as a begin and an end). `CoreServer` is the receiving end of the Start
and Stop calls whose sending end is `ProfileLifecycle`. The credits that `ConnAccounting`
counts are the `Add` steps of `TrafficSeries`; `RpcChannel` implements `RpcPromise` and
`TrafficSeries` implements `UsageLedger`, by `INSTANCE` with a refinement mapping. `Documents` is
the base of the four codec modules, these of `Subscriptions`, and all of them of `Sharing`, whose keys
(`ProfileFilter_ent_key`) are what `GroupStore` takes as given. `RouteStore` extends `RouteRules`.
`ConfigGenerator` takes what an outbound consists of from none of them: it is about tags, hops and rules.

Definitions introduced by a comment `Slip:` are not part of a model: each is a definition
of the model with one plausible mistake in it, used to see that a property notices.

### RpcPromise and RpcChannel

`RpcPromise` has for each request an outcome and whether the core served it: a call is
opened once, ends at most once and succeeds only if it was served (the core may run a call's
effect without the caller learning of it: `Serve` after `Fail` is allowed, as it is in the
program). That a request is not executed a second time, which would be a stutter there, is
`ServesOnce`, the second half of `KeepsPromise` of `RpcChannel`.

`RpcChannel`: a caller goes through `Begin` (the check of `core_running`), `Register` (a slot
in the map), `PostWrite`, waiting, and `Return`; `Expire` is the
time-out, after which the caller takes its slot back (`ReclaimSlot`) or finds that the reader has
claimed it (`ClaimedByReader`), which leads to the grace period and perhaps to `GraceExpire`. The I/O thread runs its lambdas in order (`RunWrite`,
`RunSwap`) and reads: `OnReadyRead` appends to `readBuf`, `TakeFrame` claims the slot under
the lock, `CompleteCall` wakes the caller; `OnDisconnected` fails everything. The UI thread's
`newConnection` is `Reconnect` (`wakeAllWithError`), `PostSwap`, `PublishCoreRunning`. The core:
`Dispatch` starts a goroutine, `Execute` runs the handler, `WriteHeader` and `WriteData` are
the two writes under `writeMu`. `StartCore`, `CoreDies` and `NoticeExit` are its life.

A response is two pieces on the wire and arrives in any split; its payload is the id of
the request that was executed, so a mix-up is visible. Serialisation is left out.

### CoreServer

One action per stage of the handler: `CheckStarted`, `SkipExtra`/`RefuseExtra`/`NewExtra`,
`RunExtra`, `SkipXray`/`NewXray`/`RunXray`, `NewBox`, `UndoHelpers`, `SetDNS`, `FailStart` for
Start with its deferred function; `StopNothing`, `BeginClose`, `CloseBox`, `FinishStop` for Stop.
A stage that can fail is a disjunction with both outcomes. `ChildExits`, `WaitReturns` and
`WaiterCleans` are the extra process and its waiter goroutine. Boxes, Xray instances and
extra processes are numbered objects, so that the code can forget one that still lives.

### ProfileLifecycle

Four threads: `UiThread` (closures posted to it, the part of `profile_start` that runs on it,
`NewConnection`, the continuation of `prepare_exit`), `StarterThread` (at most one, under
`mu_starting`), `StopperThread` (at most one, under `mu_stopping`) and `DsCores`, whose nested event
loops are a stack of frames. `User` and `Environment` are clicks, exits of the core and
exits of an extra process. Each `pc` value is a place where another thread may run; each
step between two is the code between two such places, with every assignment it makes. Both
ends of the core are one variable, `box`: the profile it runs. A failed Start or Stop call
may or may not have had its effect.

Assumed: the system proxy mode is on (the case with more to undo); no TUN.

### ConnAccounting

`Open`, `Transfer`, `Close` and `StopBox` are the connections and the core's tracker (`Remember` is
its ring); `ReadActive` is the first read of `QueryConnections`, `Account` the second together with
the GUI's `update`, `PollFails` a call that failed, `Ignore` the setting that turns the statistics
off. Between `ReadActive` and `Account` connections go on.

### UsageLedger and TrafficSeries

`UsageLedger`: usage per hour and name grows by `Record` and disappears only with `Forget` of hours
past the retention, several of which one pass may forget. `TrafficSeries`: `TakeTime` is the read of the clock before the lock, `Add` and
`Flush` what happens under it (draining the accumulator if the minute differs), `WriteConfig` and
`WriteApp` the two batches written after it, each of which may fail; `Refresh` drops a past minute's
live rates. The maintenance pass is `BeginRollup`, four statements, `Commit` or `Rollback`, `PruneHour`.
`ProcessEnds` ends the program between any two of those. Time is counted in minutes, an hour
is `HourLen` of them.

### GroupStore

A statement is a step. `Update(u)` of an updater: `BeginUpdate`, `FetchFails`/`Fetched`, `ReadOld`,
`ClearOld` (the setting sub_clear), `Parse` into any of the sequences of keys in `Remotes`, `InsertRows` and
`AppendNew` (`AddProfileBatch`), `Look`, `Apply` (the new list and `Save`), `Clean` and `DeleteRows`
(`BatchDeleteProfiles`). `User`: `AddProfile`/`AppendAdded`, `DeleteProfile`/`DeleteRow`, `DeleteGroup`,
`StartProfile`, `ClearTestResults`, whose thread of `SaveBatch` comes later (`SaveRows`). `ProcessEnds` restarts the program with what is in the database. A profile's content
is a key, the thing `ProfileFilter` compares. `odd` records the interleavings the code does not
survive, so that the properties can name the ones they except.

### BatchTests

`StartTest` takes the mutex or is refused; the starter's thread goes through `Begin`, `Slice`, `Join`,
`Finish` (a latency test) or `NextSpeed` (a speed test, one profile after the other). A job is keyed by
test, slice and profile (or `None` for the one latency call of a slice) and has a caller (`RunTest`,
`Answer` or `CallFails`, `ApplyLatency`/`ApplySpeed`, `Count`, `Unlock`), a poller (`Check`, `QueryURLTest` or
`QueryCurrentSpeedTests`, `ApplyProgress`, `CreditProgress`) and the core's goroutines (`Serve`, `Probe`, `Store`,
`Tick`, `SpeedEnds`). The reporter is the latest result per tag, one for all batches. `CancelTests` and
`RenewTests` are the two steps in which the core replaces its context. `odd` and `crashed` record what the
code does not survive.

### Documents, the codecs and Subscriptions

A document is a partial function from keys to texts or documents. A class's fields are tables of pairs
"field of the object – key of the form", which `Read` and `Write` apply; what a reader or writer does beyond
that (defaults, conditions, derived values) is written out. Names follow the source: `trojan.cpp`'s
`ParseFromLink` is `Trojan_ParseFromLink`. Escaping, number formats and the order of keys are left out; an
absent key stands for an empty, zero or false field, as it does in the writers. `Subscriptions` is the
recognition in `GroupUpdater.cpp` (`update`, `updateClash`, `updateSingBox`, `updateXray`, `updateSIP008`), with
what the typed Clash structures refuse, and `ParseFromJson`, which makes the class of a row.

### Sharing

State: the profile in memory, its row, the settings, and what has been copied and received. `Edit` and
`Import` enter a profile, `Start` builds it, `Restart` reads the row again, `Copy` writes a link (or JSON where
the class has no link) and `Receive` reads it on another device.

### ConfigGenerator

`Start(id)` and `Test(batch)` set the configuration the generator returns; `SetFront`, `SetLanding` and
`Delete` change the groups and profiles while nothing runs (an edit counts at the next start). The functions keep their names: `buildOutboundChain`
with its two halves `buildSingboxChain` and `buildXrayChain`, `buildDNSSection`, `buildInboundSection`,
`buildRouteSection`, `buildXrayConfig`, `BuildTestConfig`. An outbound is its tag, hop, port and
detour; a bridge is a port. A tag is the list of the words and numbers its text is put together from, so that different
tags are different texts (`config-1`, `proxy-1-0`, `bridge-route-2`). `Walk` is the reader's side: it follows a connection from an inbound through
rules, detours and bridges the way the cores would, for `WalkLimit` outbounds.

### RouteRules and RouteStore

`RouteRules` has a rule's JSON for the core (`get_rule_json`), for the view and for sharing, its row as the 34
columns the INSERT, the SELECT and the reader number by hand (`Columns`, `RowOfRule`, `routeRuleFromJson`), and
the lines of the simple editor (`GetSimpleRules`, `UpdateSimpleRules`). A box of the editor is, for
each attribute its lines may name, the values in their order. A rule to a profile that is gone has no JSON (`Missing`). `IsRule`,
`IsProfile` and `IsDocument` say what the code's readers and constructors give: an attribute that is set says something.

`RouteStore`: `heap` holds the live objects and `identity` the map of weak pointers, from which an object that nobody
holds vanishes. `Stores`, `Served`, `Links`, `RemoteLinks` and `Lines` (what the user may write into a box) are its
inputs. `OpenDialog`, the edits, `Accept` and `Cancel` are the dialog; `handle_import_route` and `handle_add_remote_routes` the deep
links; `Ask`, `Answer`, `NoAnswer` and `SaveFetched` a thread that fetches. `raced` names the profiles for which
somebody held an old view when another saved.

---

## 3. Runs and bounds

Runs that pass:

| run | instance | states | what it shows |
|---|---|---|---|
| `MCRpcChannel` | 2 callers, 2 requests, 2 cores | 390 thousand | each call its own answer or an error, no lost wake-up, no leaked slot, nothing executed twice; implements `RpcPromise`; every call returns |
| `MCCoreServer` | 1 handler, 1 object of a kind, macOS | 14 thousand | what Stop and each failure of Start release |
| `MCProfileLifecycle` | 2 profiles, 2 clicks, 1 core failure, 2 exit requests, a remembered start | 4.1 million | starts wait for stops; shown = running; a crash keeps the profile; the proxy follows it |
| `MCProfileLifecycleLive` | 1 profile, 1 click, 1 failure, a remembered start | 30 thousand | starts and stops resolve; a core that exited is restarted |
| `MCConnAccounting` | 3 connections, ring of 2, 2 bytes each, 1 failing poll, 1 stop | 2.9 million | nothing twice, no tail lost |
| `MCTrafficSeries` | 2 crediting threads and the UI's flush, 3 minutes, hours of 2 minutes, 2 credits, 1 failure or end | 625 thousand | each byte in its minute; the tiers add up; implements `UsageLedger` |
| `MCGroupStore` | 2 updaters, 2 keys, 3 profiles, 4 subscriptions, 2 acts of the user, 1 pending save, 1 end of the process | 4.8 million | rows, list and stored list agree; the list mirrors the subscription |
| `MCSharing` | every class, every field, pairs of chosen fields; 2 settings | 23 thousand | a profile survives restart, link and update; TLS that is asked for is built |
| `MCConfigGenerator` | 17 profiles of every kind, 9 routing profiles, 5 settings, 5 batches, 1 deletion | 61 thousand | the configuration is closed, the path is the chain, Xray stays outside the TUN, credit and tests |
| `MCRouteStore` | 141 stores of one profile of rules, 1 store of a plain and a remote profile | 143 thousand | no form loses a rule; store, memory and user agree; the current profile exists |
| `MCBatchTests` | 2 profiles, 6 plans of one or two tests with a stop, deletion or failing call, or with polls | 591 thousand | tests take turns and end; bytes are credited; auto clear deletes only the dead |

One run finds a violation: `MCProfileLifecycleExit` (section 6).

Why the bounds are enough:

- `MCRpcChannel`. Two callers and two requests are what it takes to mix up responses or
  interleave frames; two cores are one reconnect, with everything in flight from the
  first. What a third would add is a second reconnect, whose start is the same state again.
  `FirstCallIsC1` is a symmetry reduction by hand (TLC's is unsound with liveness): the
  callers are interchangeable, so the first call is taken to be `c1`'s. The proofs remove
  the bounds for everything but `CallReturns`.
- `MCCoreServer`. One object of each kind: a second Start can happen only after what the first
  made is gone or was abandoned, and then it fails at the bound as any Start may. macOS is the
  platform on which Start has one stage more (the system's DNS). Two handlers at once are not run:
  the GUI sends one call at a time, and although a timed-out call overlaps the next one (two
  overlapping Starts orphan a temp config), no doc or comment says what should hold. The proofs
  hold for any number of objects, with one call at a time.
- `MCProfileLifecycle`. Two profiles and two clicks give start over start, stop over start and Restart
  Core over both, beside the remembered start of the program's launch; one exit of the core
  can fall between any two steps. The second exit request is the one the code expects and mishandles.
  Profiles are symmetric (no liveness in this run).
- `MCProfileLifecycleLive` has one profile because what a thread waits for does not depend on which it is.
- `MCConnAccounting`. Three connections overflow a ring of two; two bytes let a connection be
  seen half-way; connections are symmetric.
- `MCTrafficSeries`. Two threads may come late with an old minute while the third flushes; three minutes
  are an hour of two and the next one. `Retention` 1 is shorter than an hour, the hard case:
  pruning meets an hour whose minutes are not all rolled up.
- `MCGroupStore`. Two overlapping updates, or one and the user; subscriptions that are empty, have
  what the group has, have it twice, or add to it. Three ids are enough for an update of two and one
  profile added meanwhile; an insertion that would need a fourth does not happen. One `SaveBatch` is
  pending at a time.

- `MCSharing`. The state is one profile on its way; the variety is in the inputs: each field of each class alone,
  the pairs in which one field decides about another (TLS with uTLS and Reality, transport with headers and early data,
  multiplex with brutal, both auth types of Hysteria), links and nodes in each dialect the readers distinguish.
- `MCConfigGenerator`. A chain for each order of the two cores, one with one change of core too many, an empty one,
  chains that end in a program; every kind of profile as front and as landing proxy. Edits are made while nothing
  runs, and one group holds all profiles. `WalkLimit` is 12: with less than the longest way
`PathIsChain`, which asks each way to end, would fail.
- `MCRouteStore`. Each attribute, action, outbound and simple type occurs in a store that may not be edited (budget 0:
  conversion is all there is to see); a plain and a remote profile with two edits, links or fetches in any order
  are what it takes for two actors to hold old views of one profile. Ids reach 3. The server of `u2` never answers.
- `MCBatchTests`. Two profiles in one slice or in two slices: a second slice is what the join is for, a second test
  what the mutex is for. Each plan leaves out what another has (polls, events or the second test), because all at once
  is out of reach.

Deadlock is checked in `MCConfigGenerator` and `MCRouteStore`, where the user can always go on. In the other runs
(`CHECK_DEADLOCK FALSE`) counters are bounded and an idle system has nothing to do; waiting for each other for ever
is what the liveness properties exclude.

---

## 4. Fairness

- `RpcChannel`: weak fairness for each caller's steps together with its timer (`QWaitCondition::wait` has a
  time-out), for the I/O thread and for the UI thread. The core is obliged to nothing: it may
  be silent, die, or never come back, and `CallReturns` holds all the same.
- `CoreServer`: weak fairness for the goroutines and the waiters. A child need not exit.
- `ProfileLifecycle` (`FairSpec`): weak fairness for the starter, the stopper and DS_cores. Strong fairness
  for what waits in the event loop of the UI thread (`RunPosted`, `NewConnection`, `ExitStopped`): Qt serves
  posted events in order and socket events in between, in nested loops too, so an event that is
  enabled again and again is served; the loop being busy in between makes weak fairness too weak. User,
  failures and exits are never forced.
- `BatchTests` (`FairSpec`): one weak fairness of `Progress`, that some thread, goroutine or posted closure goes on
  while one can. Probes and downloads have time-outs of their own, so their ends are steps that come. It is weaker
  than fairness per thread and suffices, because a test's steps are finitely many. Users and failures are not forced.
- The other modules have safety properties only.

---

## 5. Proofs

TLAPS proves the following for all values of the constants. Each module of proofs has an inductive invariant,
written as a conjunction of named parts, and one lemma per action or group of actions; the invariants were
checked with TLC before they were proved.

**`RpcChannel_proofs`** (assumption: `ChannelAssumption`, two naturals).

- `TypeCorrect`: `Spec => []TypeOK`. `TypeOK` alone is not inductive, because a step indexes by request ids
  that must have been handed out; `TypeInv` adds `Bound`, that a caller inside `Call` has an id, the UI thread
  inside its handler a socket, and a process that exists a number.
- `NoLostWakeup` (`WaitingIsReachable`), `NoLeakedSlot` (`PendingIsOwned`), `GraceIsJustified` (`GraceHasResponse`): from
  one inductive invariant `SlotInv`. Its parts: ids in use by two callers differ (`IdsAreOwn`), a registered call
  that is not done is in the map or in the reader's hands (`SlotIsTracked`), a call in its grace period left the map
  (`GraceHasNoSlot`), what is in the map has an owner that is before its end (`SlotHasOwner`), and the frame
  the reader took belonged to a registered call (`TakenIsRegistered`). The argument is about who holds a
  slot: map, reader or nobody, and about the one lock under which it changes hands; none of the three
  properties is inductive without the owner's uniqueness.

The second half of the module is about the byte stream. What the core wrote and the reader has not parsed is one
sequence, `Stream`; a step keeps it, cuts it, advances it by a frame or appends one piece, and four lemmas say what
each does to the invariant `StreamInv`:

- `RequestsAreAsked`: what is queued, sent or running belongs to a call that was made.
- `AnswersAreServed`: every piece of a response, wherever it is, comes from an execution of its request.
- `SwapsAscend`: no swap in the queue leads back to the socket in use or to an older one. From it follows
  `OnlyLiveWrites`: only the core at the other end of the socket in use has work. Without it an
  old core could write into the stream of a new one.
- `FrameInProgress`: while that core lives, the stream ends inside a frame exactly while a goroutine holds
  `writeMu`, and inside the frame of that goroutine; so headers are written at even lengths.

From it: `ResponsesAreOwn` (`OwnResponse`, which includes `FramesAreWhole`), and `ImplementsPromise`, the step
simulation of `RpcPromise`: `Begin` is `Open`, the first `Execute` of a request is `Serve`, `Return`, `ReclaimSlot` and `GraceExpire` are
`Succeed` or `Fail`, and all other steps are invisible to the callers.

Its last section proves `RequestsServedOnce` (`ServesOnce`): a request is in at most one place, the lambda
that writes it, the connection or its goroutine, and there once; before it is in any of them only its caller knows it. With `ImplementsPromise` that is
`ChannelKeepsPromise` (`KeepsPromise`).

**`CoreServer_proofs`** (assumption: `ServerAssumption`; for the last two `OneCall`, that there is one handler, which is
what the GUI's mutexes are meant to give: section 3).

- `TypeCorrect`, for any number of handlers.
- `ConfigIsBounded` (`ConfigIsBound`). The invariant follows the waiter: a child that runs has a waiter that waits,
  a waiter that woke has an exited child, and a config without a child is that of the launch in progress.
- `StopReleasesAll` (`NothingLeftRunning`). What lives is what a global or a local of the handler names (`LiveIsNamed`), and
  for each stage of Start and Stop `StageInv` says which of them may be set.

**`ProfileLifecycle_proofs`** (assumption: `LifecycleAssumption`). All four invariants of `MCProfileLifecycle`, with `TypeCorrect`.

- `StartNeverMeetsStop` (`StartWaitsForStop`). `mu_stopping` says which thread is where: it is the stopper's exactly while that
  is busy, the UI thread's only while it probes, the starter's only from its join to the change of the profile.
- `ShownIsRun` (`CoreRunsShown`). From its call on the stopper has a running profile; from its join on the starter has none. At
  most one closure that ends a start or a stop is posted. The Restart Core frame stays blocked until the
  core is killed, so a box that runs without being shown has such a frame above it.
- `ProfileSurvivesCrash` (`CrashKeepsProfile`): `started_id` is the running entity's id, and only a stop by hand clears it.
- `ProxyFollowsProfile` (`ProxyNeedsProfile`): the stopper lifts the proxy before it clears `running`.

None of the four is inductive alone; the invariants of the threads' positions carry them.

**`CoreServer_proofs`**, second half: `ConnAccounting` (assumption: `AccountingAssumption`). The tracker whose answers it is about
is a part of the core's server.

- `NothingTwice` (`CountedOnce`), for any number of connections, any ring and any number of failures. The idea of
  the invariant is in `DiffedAgainstCredit`: a connection still to be diffed was credited exactly up to
  the counter it will be diffed against. It needs `RingIsClosed` (what is in the ring has stopped
  counting), `AnswerIsCurrent` (the answer being read is not older than the last), `UnseenIsZero` and
  `NewIsNotActive`.
- `TailsAreCounted` (`TailIsCounted`): the counter a connection is diffed against was credited before (`SeenIsCredited`),
  so once a poll found a closed connection in the ring, all it ever transferred is credited; no connection is excepted.

**`TrafficSeries_proofs`** (assumption: `SeriesAssumption`). The sums of the model are folds over finite sets; what they
add up to is proved by induction over a number of steps, with `<` on the naturals well-founded (`NatInd`,
`SubsetInduction`): the sum of nothing, of one more, of two functions, of a function changed at one place.

- `TypeCorrect`.
- `BytesStayInTheirMinute` (`EveryByteInItsMinute`). What was asked to be added for a minute is, byte by byte, in the rows of
  the minute, in the accumulator, in what a thread has in its hands (`Owed`), or was lost with the end of the process. One lemma
  for each kind of step says between which of these places it moves bytes.
- `NothingIsCountedTwice` (`TiersAddUp`). Its invariant adds that a pass works on the tables as they are outside of the
  transaction (`WorkIsDb`): a statement of `rollup` moves what it takes from the minutes to their hour, for one of the two kinds
  of name, and a statement of `prune` takes away hours that are past.
- `ImplementsLedger` (`RefinesLedger`): an accumulator written out is a `Record` of the ledger, a prune is `Forget`, everything else
  leaves what readers are shown alone. The proof corrected the ledger: it used to forget one hour at a time, and a pass that
  was late removes several in one statement.

**`BatchTests_proofs`** (assumption: `BatchAssumption`).

- `TestsAlternate` (`TestsTakeTurns`). `speedtestRunning` belongs to the one test that is at work, and passes to the last worker of
  its slice and back to the test at the join (`Mutex`); while it is with the workers, the counter the join
  waits for and the workers still busy add up to the size of the slice (`Counted`). Two tests at once need two holders.
- `ClearsByOwnProbe` (`ClearsOnlyDead`), an action property: auto clear deletes only what its own probe found dead. Its
  invariant relates a profile's latency to the probes that cover it: unless one is on its way, the latency is what the
  last probe said (`OwnLatency`); results find their profile by tag, and a job with a full entity has none (`FullHasNoTags`).

- `BytesAddUp` (`BytesAreCredited`). The invariant (`SpeedInv`) gives every call of a speed test its run: the pair of the call and its profile.
  For the one run that moves bytes, what the baseline has of it is at most what a poll has read, that at most what the
  core stores, and that at most what was moved (`Ascend`); and what its profile is credited with, plus what the call has moved, is
  what the profile's tests moved plus the baseline (`Balance`). That only one call moves bytes is `Mutex` again, together with a
  slice of a speed test being one profile (`SpeedSlices`, `SpeedCalls`). An attempt to prove the property without its
  first exception failed for a good reason: after two unlocks (`odd.twice`) two speed tests run at once, each resets or
  uses the baseline of the other, and a profile is credited twice; TLC shows it with three tests.

**`GroupStore_proofs`** (assumption: `GroupAssumption`), for any number of profiles, keys, updates, uses of the group and ends of
the process.

- `RowsAndListsAgree` (`ListsAndRowsAgree`) and `UpdatesMirror` (`MirrorsRemote`) follow from one invariant, `IInv`
  (`Invariance`). Each of its parts is excepted where the property is, and nowhere else.
- *Who works when* (`Turns`): what the history `odd` does not record has not happened, so without "twice" one update works,
  without "added" or "deleted" none while the user adds or deletes.
- *Whose an id is* (`OwnIds`): nobody knows an id that was not handed out; until it is listed, only the one who adds it does.
  This holds for overlapping updates as well, and makes the next two parts inductive.
- *Rows and list* (`RowsOfListed`, `RowsAreKnown`): what is listed, or about to be listed, has its row; a row that is not listed
  is in the hands of the user or of an update, and an update that cleans up has read them all.
- `SavedIsListed`: memory and database agree, not only when nobody is at work.
- `RunningIsSpared`: neither a deletion by the user nor one by an update has the running profile in its hands.
- `ListsAreInjective`: no repetition in the lists, nor of keys among what is new. Overlapping updates do not break it: the
  order an update writes takes each old profile for the one new one of its key (`OrderIsInjective`).
- `NewIsKept`: what an update added is still there when it looks again, and from `Apply` on the list is its `RemoteOrder`.

`Without` says which place each kept member takes, by the number of those kept up to it; that this numbers the places from 1
without a gap (`PlacesAreCounted`, by injections of finite sets) is what the lemma `WithoutProperties` rests on.

**`RouteStore_proofs`** (assumption: `RouteAssumption`: the stores are as the program writes them, what is served and linked are
documents, a line is not empty, the device's profiles are a sequence with distinct ids, none of them "invalid"), for any
number of profiles, rules, links, devices and documents. All five invariants of `MCRouteStore`, with `RoutesTypeOK`.

Four of them need the inductive invariant `IInv` (`RoutesInvariant`). Its parts are operators of a heap, a map, a dialog and the
threads, because an action changes these first and then lets go what nobody holds (`Keep`); each lemma about an action
shows the parts for the larger heap, and one lemma (`KeepIs`) takes them to what is left.

- `RowsOK`, `ObjectsOK`: rows and objects are profiles of well-formed rules, a row is what its profile writes and reads back as it
  (`RowKeepsProfile`, from the 34 columns: `ColumnsOfRules`), and what has no name is served nothing (`Named`): without it a
  fetched profile could lose the name the user gave it.
- `MapOK`: an entry of the map whose object is alive stands for its id, which has a row with the same settings.
- `DialogOK`, `EditorOK`: no object twice in the list, no two of one row, the profile in use on the list, and the editor's
  place is that of the profile it works on. That gives `ProfileInUseExists` (`CurrentExists`): at an `Accept` the chosen object is on the list
  and gets a row.
- `JobsOK`: only the threads that own rows save, and they save remote profiles with an id.
- `PendingOK`, `Obeys`: an object a thread is yet to save says what the user said last, unless its id is in `raced`. This is what
  carries `StoreObeys` (`StoreObeysUser`) and `CacheAgrees` (`CacheMatchesRow`) over the interleavings: a save by a thread is harmless because
  its object is one the dialog's `Accept` either kept, or recorded as stale.

The other two are about data, and hold of every profile there may be (`RoutesTypeOK` says the objects are profiles):

- `SharesArePortable` (`ShareKeepsRules`): `SharedRule` says which keys the JSON of a rule has, `FieldTold` and `OutboundTold` that each
  is read back, `ShareHasAll` that no rule is left out.
- `EditorIsFaithful` (`EditorKeepsRules`): the boxes show the simple rules (`BoxesShow`: of the lists that make a box all but one are empty), the
  lines of a box are the fields of its rule (`ShownFields`), and the three resets and three additions for a target give the old rules with
  those of three types replaced, and new ones at the end that say nothing (`Updated`, `ReplaceUpdates`). So each of the four rounds
  leaves the rules alike but for names, and what says nothing is filtered out (`UpdateAlike`).

The community modules' `SelectInSeq`, `FlattenSeq` and `Min` are folds or choices over sets; the lemmas at the beginning say of them and of
`InOrder` and `Chosen` what the rest needs, by induction over a number of steps with `<` on the naturals well-founded (`NatSetInduction`).

Two attempts failed for good reasons. The editor can be faithful only if no value is named twice on a line
(`add_simple_rule` takes each once), and a device must be a list with distinct ids for a rule's outbound to come back.

**`ConfigGenerator_proofs`** (assumptions: `ProfileAssumption`, `RoutesAssumption`, `SettingsAssumption`, which say what the
editors let through), for any profiles, chains, groups, settings and routing profiles, and any `WalkLimit`.

- `XrayOutside` (`XrayStaysOutside`). The invariant is this property and the next with the types of what the user edits; the work is in what a start
  builds. `Sound` is what each chain keeps true of the context it adds to: with the TUN device on, an outbound of Xray is
  bound, leads on inside Xray or enters a bridge, the user's own whole configuration is entered by its
  bridge only, and every hop of Xray is one of the hops of the chains. `SectionFacts` carries it over the recursion of
  `buildOutboundsSection`, `XrayBuilt` into the configuration of Xray.
- Its half about the TUN (`StartAvoidsTun`): `Places` says where a connection can be after any number of outbounds (`Walk`),
  and none of these places is the default route.
- Its half about names (`StartNamesDirect`): a hop of Xray is a live hop of the profile or of an outbound that a rule uses, so its name
  is in `DirectDomains`; the rule for these comes before any that would ask elsewhere (`DnsDirect`), and the rule that
  takes DNS questions before the one that rejects them (`HijackFirst`).
- `ConfigClosed` (`ConfigIsClosed`). By parts, as a configuration is put together. A chain without Xray gets the tags of its hops in their order
  (`SingLine`), one with Xray those of three stretches and their bridges (`XrayLine`). `Closed` is what a chain keeps of the context it
  adds to (`ChainCloses`): a tag stands for one outbound, each detour and proxy setting for an outbound that exists, each bridge has its two ends.
  For several chains that needs numbers that do not meet. `Settled` says after the i-th group that from the number of the next on nothing is taken,
  except by the bridge behind a group that is Xray's throughout, which takes the first number of its successor; `Apart`, the negation of
  the exception `BridgeTagTwice`, says that no such successor has a bridge of its own (`RouteSettled`, `SectionSettled`).
- The lists are then closed one by one: `OutboundsClosed`, `InboundsClosed`, `RulesLead` and `FinalLeads`, `SetsDefined`, `DnsServers` and `DnsRules`,
  `BuiltXrayClosed`, and `StartClosed` joins them.

Only model-checked, and why:

- Liveness (`CallReturns`, `ConfigGoes`, `StartResolves`, `StopResolves`, `CoreIsRestarted`, `TestEnds`): fairness and
  ENABLED are beyond the prover.
- `Sharing` (four invariants): it reaches the recursive operators of `Subscriptions`, and what a recursive translation computes is
  induction over data.
- `PathIsChain`, `TrafficIsCredited` and `TestTakesTheWay` of `ConfigGenerator`. They say which hops a connection passes, in order, that is what
  `Walk` computes. The theorems above bound where it can be; that it is at the n-th hop after n steps, over bridges and into the routing
  of the other core, would take an induction over each shape of chain that was not done.

Types: `TypeOK` is proved for `RpcChannel`, `ProfileLifecycle`, `CoreServer`, `TrafficSeries`, `RouteStore`, and for `GroupStore`
as a part of `ListsAndRowsAgree`. In the other modules it documents
the variables; it held on the instances of section 3, whose runs spend their time on other properties.

---

## 6. What the code does not keep

Found by a run (`PROJECT.json`, `findings`): `SecondExitIsIgnored`. `prepare_exit` waits in a nested event loop with
`mu_exit` locked; a second request to exit, which the code means to ignore, locks it again on the same thread
and hangs the program.

### Exceptions

Properties except by name what the code does not survive. Without the exception TLC shows the trace.

- `CoreServer`, `leaky`: an Xray core that does not come up leaves the extra process running; a Start refused because an
  instance runs sets `boxInstance = nil` in its deferred function (`server.go:53-59`), and the next Start
  makes a second instance.
- `ProfileLifecycle`, `unsure`: a call that failed may have taken effect, or the stop for a core that exited
  reaches the core that replaced it. `careless`: after a failed Stop call, or a stop that began while
  the start was about to set it, the system proxy stays on. `failed`: after one failed launch
  `failed_to_start` is never reset, and no later exit is handled.
- `ConnAccounting`, `overlapped`: a connection that closes between the two reads of `QueryConnections` is in both
  lists of the answer (`server.go:496-500`), and its last bytes are credited twice (`connectionLister.cpp:202`).
  `blinded`: after a failed poll everything is credited again.
- `GroupStore`, `twice`: two updates of one group delete each other's new rows and leave ids without rows.
  `gone`: a group deleted during its update is inserted again by `Save`, and a profile added to it has no id.
  `added`: a profile added during an update is taken off the list and its row stays. `deleted`: one deleted
  during an update is listed again without a row. `kept`: a running profile that may not be stopped
  keeps its row and is on no list. `same`: a subscription with a duplicate lists one id twice on
  its second update. `revived`: `SaveBatch` inserts the rows of profiles deleted since it was called (`ProfilesRepo.cpp:646`). `ended`: rows inserted and not yet listed when the process ended stay for ever.
- `BatchTests`, `odd.twice`: two workers both see the counter full and both unlock the mutex
  (`mainwindow_rpc.cpp:294-297`). `crashed`: a stop before the first slice, or the deletion of all profiles, leaves
  `currentGroup` null, which is dereferenced (`:334`). `odd.astray`: the call fails by the channel's 30 s while the core goes on
  testing, or the poller's result is applied after the final one. `odd.misread`: a result under a tag of another batch, a late
  progress, the core's stale current profile, a failed call, or a full configuration's result, whose id is
  overwritten (`:650-651`).
- `ConfigGenerator`: an empty chain; a bridge tag used twice (`buildXrayChain`); two Xray configurations in one batch (`1571`);
  a program as front proxy (`341-371`); verbatim configurations; rule sets that do not exist, with a raw profile those it
  does not define itself; a rule that routes to "block", which only a shared profile has. Of the names of Xray's servers: those in the user's
  hijack list and in a tailnet (`ts.net`). The model takes "*" for every name, so no hijacked name is "*".
- `RouteStore`, `raced`: an identifier for which a thread or the dialog held an old view when another saved. Sharing cannot
  express numbers, `reject_method`, nor an outbound that is warp-bypass, gone, unnamed or named twice; the editor's
  lines cannot express two rules of one simple type, a value named twice or a rule of another shape.
- `Sharing`: the losses listed below.

### What a profile loses

Each is a condition of a property of `MCSharing`.

- *When it is saved and read again*: SOCKS version 4 (written as a string, read as a number), a Reality key without "enabled",
  multiplex fields while multiplex is left to the default, `quic_congestion_control` of naive and trusttunnel, a WireGuard
  address without suffix, Xray multiplexing without XUDP concurrency, and fields cleared where the default is not
  empty (anytls, Tailscale's control URL, WireGuard's MTU).
- *In a link*: dial fields of trojan, vmess and vless; trojan's "multiplex off"; Hysteria's port range and BASE64 authentication;
  trusttunnel's QUIC without a congestion control; a shadowsocks plugin without options; an HTTP or SOCKS user name that
  is itself BASE64; an HTTP password without user; an Xray network the reader does not know; an apostrophe in XHTTP's
  extra. A Tailscale link is not recognised at all.

### Seen in the models, no property

There is no statement in the repository that says otherwise, or the consequence is a matter of taste.

- *Calls*: a call registered between the two halves of `Reconnect` (`RPC.cpp:173-196`) is written to the old socket and blocks
  until its time-out. Two Starts that overlap in the core, after a time-out, share globals without a lock (`server.go:97`).
  `process.go:68` marks the process stopped before it is killed.
- *Life cycle*: the exit handler overwrites the note of a start made while the core was down (`Process.cpp:71`); exit flushes
  only what the stop of the profile flushes.
- *Groups and database*: with "Clear servers before updating subscription" the list of ids to delete is a reference to
  the list that is emptied first, so no row is deleted (`GroupUpdater.cpp:766`, `Group.cpp:152`); an empty answer of a
  subscription server, or a Clash file with one ill-typed entry (`:564`), deletes the whole group; a failed chunk of a
  statement is only logged (`Database.cpp:127`); `SaveTrafficBatch` opens its transaction on the connection all threads
  share (`ProfilesRepo.cpp:617`).
- *History*: the chart groups rows aligned to UTC by local time, with an offset that need not be whole hours
  (`TrafficStatsRepo.cpp:14`).
- *Tests*: a stop that comes while a test is set up is undone by `store(false)` (`mainwindow_rpc.cpp:278`); `Save` of a profile deleted
  during its test inserts it again; an invalid profile gets latency -1, so that auto clear deletes it; the `break` of the
  select in `BatchSpeedTest` does not leave the loop; a profile whose configuration cannot be built fails the whole batch.
- *Configurations*: the chain sing-box, Xray, sing-box is tested along another path than it is started, because the
  test's configuration has no rule for the re-entry (`generate.cpp:1892`; the comment at 883 speaks of one path); traffic of warp-bypass is
  credited to nobody; with a raw routing profile the rule that rejects DNS comes before the user's rules; servers of front
  and landing proxies are resolved without the direct DNS rules (`293-304`); a test's final DNS server is one the test
  does not have; rules that no longer route still count as users of their outbound; `IsValid` does not look for cycles.
- *Routing profiles*: accepting the dialog while its update thread runs leaves that thread with a destroyed dialog; rules are deleted and
  re-inserted without a transaction (`RoutesRepo.cpp`); an end of the process between the deletion of a profile and the saving of
  the settings leaves the current id dangling; a share drops rules to outbounds it cannot name (`RouteRule.cpp:123`; the
  comment at `RouteProfile.h:52-53` calls the schema lossless).
  The editor takes a name of blanks for a name (`RouteItem.cpp:342`), an update takes it for none and replaces it (`RouteUpdater.cpp:34`).
- *Formats*: a link without a port gets -1, so that the readers' default ports never apply (`socks.cpp:42`, `Outbound.cpp:14`); TUIC's relay mode
  is written beside UDP over stream; an unknown network drops TLS; the early data of a WebSocket is lost when the path is empty; stream-one
  drops XHTTP's download settings; the global uTLS fingerprint does not reach Xray.

---

## 7. Not modelled

Inside modelled components:

- *IPC channel*: serialisation of messages; the channel's destructor (it lives as long as the program).
- *Core server*: the system's DNS, key generation and queries other than the connections'.
- *Life cycle*: TUN and DNS toggles, the interface watch (it calls `profile_start`), dialogs.
- *History*: metadata (first and last seen, paths), the chart's grouping.
- *Groups*: several groups and their order, failing statements, dialogs.
- *Batch tests*: IP tests and the country mode, the test of the running profile, progress counts, the order in which the
  core's limiter admits probes.
- *Route profiles*: `RouteItem`'s own fetching thread, the raw editor, most of the advanced tab, dialogs; `get_rule_json` also writes
  the action an old id stands for into the rule (the model computes it each time); a link may name several remote
  profiles (the model's names one, and links may follow each other).
- *Configuration generator*: the contents of an outbound beyond its tag, detour and kind (they are the codecs'), NTP,
  log, experimental sections.
- *Formats*: escaping and number formats, `sub/warp.cpp`, editors' forms (`dialog_edit_profile`).

Components: the traffic looper, backup and restore, settings, periodic jobs: section 8. Windows and widgets, the update
dialog, system integration and the checks of parent and peer are I/O. Third-party code. sing-box and Xray: what the
core needs of them is a step that succeeds or fails.

---

## 8. Plan

Done, in this order: the IPC channel (everything rests on it), Start and Stop of the core, the GUI's life cycle, the
accounting of connections, the history, the groups; the batch tests; outbounds, formats and subscriptions; the configuration
generator; routing rules and profiles; the proofs of the channel with its stream and its promise, of the accounting, of
the life cycle and of the core server; of the traffic history and its ledger, of the batch tests, of the groups, of
the routing profiles and of what Xray does not send back.

Next, by importance:

1. `GroupStore` with failing statements, which needs the objects still alive as a part of the state: `GetProfileBatch`
   finds them although their rows were never inserted.
2. A module for the shared SQLite connection: `SaveTrafficBatch` opens a transaction into which the
   statements of other threads fall.
3. `TrafficLooper`: counters of the core are drained and credited along the chain; composed with `TrafficSeries`.
4. Restore: foreign keys off, id counters at the maximum; the invariant is that of `GroupStore`.
5. The arithmetic of the chart's grouping (offsets that are not whole hours).
6. `PeriodicRunner`: a job is recorded before it runs.

A theorem worth proving next: `NoFalseAlarm` of the core server for overlapping calls, with a statement of what they promise.
