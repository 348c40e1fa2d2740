# TLA+ models of the startup_init parameter service and ueventd config reader

This directory holds TLA+ models of the parts of the parameter service that
are under `src/`, the TLC configurations that check them, and `PROJECT.json`,
which lists the components, runs, mutants, the source lines behind each
definition, the findings and the hazards.

## The system and its parts

The parameter service is a shared key/value store (spec.md). Only three of
its implementation files are in this repository:

| Part | Source | What it does |
|---|---|---|
| Watcher service | `src/services/param/watcher/proxy/watcher_manager.cpp` | A system ability that groups remote watchers by key prefix. It registers each group with the parameter server over a local stream socket (`ADD_WATCHER` / `DEL_WATCHER`). A receive thread (`RunLoop`) takes `NOTIFY_PARAM` messages and fans each one out to the watchers of the group named in the message. A new watcher first gets a local replay of the matching current values (`SendLocalChange`). |
| Prefix filter | the same file, `FilterParam` | Matches a parameter name against an exact or trailing-`*` pattern. |
| SELinux adapter | `src/services/param/adapter/param_selinux.c` | Registers the label checker's ops. On first use it loads the checker library with `dlopen`/`dlsym`. It opens one workspace per label and answers read and write permission checks. |
| Test stub backend | `src/test/unittest/param/param_stub.cpp` | The unit tests install this fake checker (`TestSetSelinuxOps`). Its verdicts come from fixed name lists and `SetTestPermissionResult`. |
| ueventd config parser | `src/ueventd/ueventd_read_cfg.c` | Parses the `[device]`/`[sysfs]`/`[firmware]` sections of ueventd config files into three lists. It then answers the permission lookups for device nodes and sysfs attributes. The spec excludes it as an external collaborator. |

The rest of the service is not under `src/`: workspace storage, the
commit-id access protocol, the DAC checker, the dispatcher, persistence and
the parameter server itself. Where a modelled part calls into one of these,
the model uses the callee's effect as spec.md describes it. Those definitions
are marked `spec_modelled` in `PROJECT.json`.

The parts interact as follows:
- `WatcherManager` talks to the parameter server over the socket.
- `FilterParam` is used by the replay. The model's server uses the same
  filter to pick the registrations it notifies.
- The SELinux adapter is one checker of the dispatcher. It uses the
  workspace layer (`AddWorkSpace`) to open label workspaces.

## Modules

| Module | Models |
|---|---|
| `ParamFilter` | `FilterParam` over C strings. Indexes are 0-based, a read past the end returns NUL, and `size_t` arithmetic wraps at `SizeMax + 1`, so `length() - 1` of an empty prefix is `npos`. |
| `MCParamFilter` | One state per (name, pattern) input. `FilterParamMatchesSpec` compares `FilterParam` with the spec's prefix semantics on every input. |
| `WatcherManager` | The whole watcher service, described below. |
| `WatcherRegistry` | The abstract specification of what the watcher service promises its callers (spec.md, sections 3 and 6). `AddWatcher` registers one watcher under an id larger than every earlier one, in one step. `DelWatcher` removes exactly the watcher it names. |
| `MCWatcherManager` | The prefixes `a*` and `b` and the names `a` and `b`, over 16-bit `size_t`. |
| `ParamStub` | The stub checker: `TestSetParamCheck`, `TestReadParamCheck`, `TestGetParamLabel` and `TestGetParamList`. A parameter name is a sequence of its dot-separated segments. A pattern with a trailing `.` (for example `ohos.servicectrl.`) only matches names that have a further segment. |
| `ParamSelinux` | The adapter as seen by one process, described below. |
| `MCParamSelinux` | The four names the unit tests use, a small library policy, and the library variants. `TestGenHashCode(name) % 3` is given as a table for these names. |
| `Ueventd` | The ueventd config reader, described below. |
| `MCUeventd` | Two config files, of up to three and up to two lines, over every kind of line the parser tells apart. |

### WatcherManager

State: the module has one variable per member of `WatcherManager`:
- `watcherId`, `groupId`
- `groupMap` (`groupMap_`) and `watcherGroups` (`watcherGroups_`)
- `pRecvThread`, `stop`, `serverFd`

Group and watcher objects are kept in sequences (`groupObjs`,
`watcherObjs`). This lets a group that was dropped from the maps still be
referenced by a call that holds a pointer to it.

Each IPC thread has a program counter and locals (`cpc`, `cPrefix`, `cTmp`,
`cObj`, `cGrp`, `cDelId`).

Actions: every step in which another thread can run in between is its own
action:
- `AddWatcher` is split into `AddWatcherCall`, `AddWatcherStore`,
  `AddWatcherLookup`, `AddGroupIdLoad`, `AddGroupIdStore`,
  `AddWatcherGroup`, `AddCheckEmpty`, `AddStartLoop`, `AddSpawnLoop`,
  `AddGetFd`, `AddSend`, `AddLocalChange` and `AddInsert`. The load and
  the store of `watcherId_++` and `++groupId_` are separate steps.
- `DelWatcher` is split into `DelWatcherCall`, `DelRemove`, `DelCheckEmpty`,
  `DelGetFd`, `DelSend` and `DelWatcherGroup`.
- A critical section under `watcherMutex_` or `mutex_` is one step.

The receive thread has four actions:
- `LoopTop` is `while (!stop_)` and `GetServerFd(false)`.
- `LoopReceive` covers data received, the `if (stop_) break` check and
  `ProcessWatcherMessage`.
- `LoopTimeout` is a timeout: `EAGAIN`, then continue.
- `LoopRecvFailed` covers end of stream and a bad descriptor. The errno
  after a `recv` that returns 0 is the stale one.

`StopLoop` is modelled as `StopSetFlag`, `StopClose` and `StopJoin`.

The socket is modelled as follows:
- `connState` tracks each connection, numbered in the order it is opened.
- `toServer` and `toClient` are FIFO queues, one pair per connection.
- The server is spec_modelled, with three actions. `ServerReceive`
  registers or deletes a group. `ServerWrite` writes a parameter and sends
  `NOTIFY_PARAM` to every matching registration on an open connection.
  `ServerDrop` closes a connection from the server side, and its
  registrations go with it.

The constants switch on the hard behaviours:
- `Failures`: a connect may be refused, and the server may drop a
  connection.
- `Coalesce`: one `recv` may return several messages.
- `EnableStop`: `OnStop` may run.

`GetServerFd`'s ten connect attempts count as one outcome: a new connection,
or, when `Failures` is on, all of them refused.

### ParamSelinux

State:
- The environment, fixed at `Init`: updater mode, init or client process,
  whether the library can be opened, and which entry points it exports.
- The cached entry points of `g_selinuxSpace` (`resolved`) and whether
  `initParamSelinux` has run.
- The registered ops, the label workspaces created (`files`) and mapped
  (`workspaces`), the stub's `g_testPermissionResult`, and the last check.

Actions:
- `RegisterSecuritySelinuxOps`
- `SetSelinuxOps`: test build only, before registration.
- `InitLocalSecurityLabel`: `dlsym` in source order, stopping at the first
  missing required entry point.
- `SelinuxGetAllLabel(0|1)`: `SelinuxGetAllLabel(0)` runs in init and
  `OpenPermissionWorkSpace` runs in a client. Workspace creation may fail.
- `CheckParamPermission(name, mode)`: the updater, selinux/write,
  selinux/read (test build) and selinux/read (production) paths.
- `SetTestPermissionResult`

`testBuild`, chosen at `Init` from `Builds`, marks the `STARTUP_INIT_TEST` build:
- The library is never loaded.
- The stub supplies the verdicts.
- A read is decided by `readParamCheck` alone.

### Ueventd

A config line is abstracted to what `DoUeventConfigParse` and
`ParseUeventConfig` look at:
- a skipped line (empty or `#`);
- a header: its name, and whether it has a `]`;
- an item: its space-separated tokens. `SplitStringExt` and `StringToInt`
  are not under `src/`, so a token is a model value.

State:
- `files`: the config files, chosen at `Init` from `Configs`.
- `next`: the file `ParseUeventdConfigFile` reads next.
- `callback`: the global callback.
- `devices`, `sysDevices`, `firmwares`: the three lists. Each entry
  remembers the file and line it came from, so properties can compare it
  with the file.
- `devPerms`: what the lookups returned. `sysAttrs`: the owner and mode
  the lookups set.
- `enomem`: the item lines whose `calloc` failed. `running`: FALSE once
  ueventd has faulted on a NULL name.

Actions:
- `ParseUeventdConfigFile` reads one whole file as one step. Either a
  file-level call fails (`ReadFailures`) and the file is dropped, or the
  RECURSIVE operator `DoUeventConfigParse` folds `ParseUeventConfig` over
  its lines. With `AllocFailures`, every item's `calloc` may fail, which
  drops the item, and every `strdup` may fail, which leaves NULL in the
  entry. The fold therefore returns the set of states the file can end in.
- `GetDeviceNodePermissions(n)` and `ChangeSysAttributePermissions(p)` run
  once every file is parsed. Each walks its list to the first entry whose
  key is the one asked for, or NULL (`FirstMatch`). `STRINGEQUAL` on a NULL
  key is a `strcmp` on NULL: ueventd faults and stops (`running`). A NULL
  `attr` is printed as `(null)`, a file that does not exist, so `chown` and
  `chmod` fail. Otherwise each may fail on its own (`FsFailures`).
- `strtoul` of the mode is modelled by its result: out of range gives
  `DEVMODE`, and no digits gives 0.

## Runs

| Run | Expect | What it shows |
|---|---|---|
| `param_filter` | pass | `FilterParam` matches the spec's prefix semantics. The inputs are every name over {a,b} and every pattern over {a,b,*} up to length 3, including the empty pattern and a `*` that is not last. 600 states. |
| `watcher_reliable` | pass | One IPC thread, a reliable server, up to 2 adds, 1 write and 3 connections, with `OnStop` racing the calls and the loop. Five properties hold. `StopLoopReturns` (liveness): once `OnStop` has begun, `StopLoop` returns and no receive loop is left running. The loop may be waiting in `recv`, failing on the closed descriptor and reconnecting, or freshly started by an `AddWatcher` that raced `OnStop`. `SubscribedWatcherReachable`: a subscribed watcher is always found through `groupMap_`, `watcherGroups_` and its group. `OnlyMatching`: a watcher only ever sees values its prefix matches. `RegistrationAgreement`: at rest, the server's registrations on the current connection are exactly the live groups. `TypeOK` also holds. Deadlock is not checked, because after `OnStop` the service really stops. About 556k states, under 2 minutes. |
| `watcher_faults` | pass | Refused connects, dropped connections and coalesced reads, with deadlock checked. `RegistryRefinement` holds: `WatcherManager` implements `WatcherRegistry`, so socket faults never change who is registered. About 1.04M states. |
| `concurrent_add` | violation | Two IPC threads add watchers for one prefix, both create a group, and the first watcher becomes unreachable. |
| `replay_gap` | violation | A write between the replay and the server's registration is lost to the new watcher (`ReplayNoGap`). |
| `reconnect_regs` | violation | An `ADD_WATCHER` lost to a refused connect is never re-sent, and a reconnect re-registers nothing. |
| `eof_spin` | violation | Liveness: after a timeout the server ends the connection, and the loop keeps calling `recv` on the dead socket. |
| `stop_leak` | violation | After `StopLoop` returns, a socket is open again. |
| `selinux` | pass | Both builds are checked in one run: the unit-test build, and the production build with a complete library, a library without `ReadParamCheck`, or no library. Every step is reachable and `TypeOK` holds. This run gives the model's actions their coverage; whether a PERMIT needs a set-up checker is asked by `fail_open`. |
| `fail_open` | violation | Production build with the full checker library or a library missing a later entry point. `PermitNeedsPolicy` says a PERMIT needs updater mode or the 0 of a fully set-up checker. TLC's trace is the partial library: a write is permitted by `SetParamCheck` although `InitParamSelinux` never ran. The full library breaks the property too: `ohos.servicectrl.a` is forbidden by `ReadParamCheck`, yet the read is permitted. |
| `ueventd` | pass | Any two config files, with read, `calloc`, `strdup`, `chown` and `chmod` failures. `ItemsComplete` holds: every well-formed item under a valid header of its own file becomes exactly one entry of its section's list, or none when its `calloc` failed. `DevicePermsFromFirstLine` holds: a device lookup answers with the uid, gid and mode of the first line, in parse order across both files, that became an entry for the node. Deadlock is not checked, because ueventd really stops after faulting on a NULL name. About 714k states. |
| `stale_callback` | violation | `SectionAttribution`: an entry comes from a line under a valid header of its section. It is violated by `[device]`, then `[sysfs` with no `]`, then a device line: the item is parsed as a `[device]` entry. The same stale `callback` carries items at the top of a second file into the first file's last section. |

The findings in `PROJECT.json` say what each violation shows about the code.
Every property of a passing run has a mutant: a plausible bug in the mapped
code, defined next to the definition it replaces, that TLC finds.

## Bounds

These bounds are large enough for the interesting cases to happen:
- One IPC thread, with up to three `AddWatcher` calls for two prefixes,
  gives a group with two watchers, a group emptied and re-created, and a
  second prefix.
- Two writes (`watcher_faults`, `replay_gap`: one or two) let a
  notification race a registration and a replay. `watcher_reliable` uses
  one write, which is enough for `OnlyMatching` and its mutant. Its checks
  are otherwise about bookkeeping and shutdown.
- Two connections let a connection be dropped or closed and then replaced.
  `watcher_reliable` needs three. After `StopLoop` closes the first
  connection, a `DelWatcher` may open a second, and the receive loop's
  `GetServerFd(true)` closes that and opens a third. At the bound the
  model's `GetServerFd` has no successor, which would show up as a false
  liveness failure; with three connections `StopLoopReturns` holds.
- Two IPC threads (`concurrent_add`) are enough for the check-then-create
  race. With two threads the passing properties' state space grows past a
  few minutes, which is why the passing runs use one.
- Two ueventd files of three and two lines hold every ordered pair of the
  nine kinds of line. That covers a header after a header, an item before
  any header, an item after an unclosed or unknown header, and a file that
  starts in the middle of the previous file's section.
- The SELinux model has no counters: every action is idempotent or
  overwrites `last`, so its state space is finite as it stands.

### The refinement

`WatcherManager` defines `Registry == INSTANCE WatcherRegistry WITH ...`,
and `RegistryRefinement` is the registry's specification as a property. The
mapping:
- `subs`: the watchers that `DelWatcher` and the notification path can
  find (`Reachable`). That means `groupMap_` maps the prefix to a group id,
  `watcherGroups_` maps the id to a group, and the group holds the watcher
  under its id.
- `lastId`: the largest id of a watcher whose `AddWatcher` has returned.
- `req`: the call each IPC thread is in, read off its program counter. An
  `AddWatcher` takes effect at `group->AddWatcher`, its last step. A
  `DelWatcher` that finds its group takes effect at `group->DelWatcher`.
  It returns after the emptiness check and the teardown.

Every other step must leave the mapped registry unchanged: the loop, the
server, connection faults, `GetServerFd`, and group creation and teardown.

The refinement holds in `watcher_faults`. Under `concurrent_add`'s two IPC
threads it fails: both callers read `watcherId_` as 0 and both watchers get
id 1.

## Fairness

`Spec` has weak fairness on each IPC thread, on each receive thread, on
`ServerReceive` and on the stop sequence.

This is what the code justifies:
- A thread that can run eventually runs.
- The server eventually reads what is sent to it.

There is no fairness on writes, drops or new calls, which come from other
processes.

Weak fairness on the receive thread is justified even while no message
comes: `GetServerFd` sets `SO_RCVTIMEO` to one second (line 274). A `recv`
therefore returns EAGAIN and the loop comes back to its `stop_` check
(`LoopTimeout`). Two liveness properties use this fairness.
`StopLoopReturns` passes in `watcher_reliable`. `DroppedConnectionLeft` is
violated in `eof_spin`. The ueventd and SELinux models have no fairness,
because they have no liveness property.

## Not modelled, and the plan

- In the ueventd reader, the fault on a NULL name left by a failed
  `strdup` is modelled, but no property forbids it. The mode-0 result of a
  mode token with no digits is also unchecked: `StrtoulMode` has it, but
  the configs use well-formed modes. Both hazards are listed.
- Two receive threads from the unsynchronised `StartLoop`: with two IPC
  threads both may pass the `pRecvThread_ == nullptr` test and start a loop,
  one of which `StopLoop` never joins. TLC shows this in 17 steps under the
  `concurrent_add` constants, but that run is spent on the lost-group race
  (hazard listed). A policy-permitted read refused after a workspace creation failed is modelled (`WsFailures`); no property forbids it, because the code means to fail closed there.
- A delivery part of the abstract specification ("every matching write is
  eventually seen"). `WatcherRegistry` covers registration only.
- Workspace storage, the access protocol, the DAC checker and persistence
  are not in this repository.
- `std::map` data races between the loop and the IPC threads are undefined
  behaviour that the model does not enumerate.
- Most of `param_stub.cpp` is test-environment set-up: it writes test files
  and calls `InitParamService` and `LoadDefaultParams`, which are not under
  `src/`. Only its checker callbacks and `SetTestPermissionResult` are
  modelled, so the stub component stays partly modelled.
