# A verification development for PoolX

PoolX (`src/server`) is a Go server with two web front ends. The server collects proxy nodes
from subscriptions, groups them into port profiles, renders one mihomo configuration from
them and runs one mihomo process ("the kernel") with it. It upgrades itself, installs the
kernel and keeps users, options and a schema version in a database (SQLite by default). The
console (`web/`, React) operates the server; the panel (`zashboard/`, Vue) talks to the
kernel's controller.

This directory holds TLA+ modules written from that code, TLC configurations that check them
on small instances, and TLAPS proofs. Paths that begin with a directory of the server
(`service/`, `model/`, ...) are below `src/server/internal/`. `PROJECT.json` maps every
definition to the lines it stands for.

## 1. The system

### Components

| Component | State it keeps | Operations | What makes it correct |
|---|---|---|---|
| Runtime control, `service/runtime.go` | registry command (memory, mutex), `kernel_instances` row, config file, kernel processes | start, stop, reload, status, exit goroutine | one kernel; the registry and the row follow the processes; a reload is skipped only when nothing changed |
| Runtime log, `service/runtime.go` | ring of numbered entries | append by two pipes, paged reads | newest kept, numbers increase, a reader misses nothing that is still there |
| Server upgrade, `service/update.go`, `service/update_restart_unix.go` | `serverUpgradeState`, `manualServerBinaryState` (two mutexes), the executable's directory | schedule, upload, confirm, the job, the swap | one upgrade at a time, never an older binary, never without an executable |
| Upgrade log stream, `service/update.go`, `handler/update.go` | subscribers' buffered channels | subscribe, broadcast, unsubscribe | a broadcast never blocks, a reading browser sees the last state |
| Kernel installation, `service/kernel.go` | the kernel executable, four options | install prepared, upload | path, file and version belong together |
| Port profiles and templates, `service/port_profile*.go`, `model/runtime_config.go` | `port_profiles`, `port_profile_nodes`, `runtime_configs`, templates | create, update, delete, preview | a snapshot is what its profile renders to; names and ports unique |
| Proxy nodes, `service/proxy_node.go` | `proxy_nodes` | list, enable, tag, delete, test | edits and test results do not undo each other |
| Source import, `service/source_config.go` | `source_configs`, `proxy_nodes` | parse, preview, import | no fingerprint imported twice |
| Node tests, `pkg/kernel/mihomo_node_tester.go` | a pool of workers over channels, a kernel per test | test many | every node gets one result of its own, nobody waits for ever |
| Config rendering, `pkg/runtimeconfig/` | none | render | unique names, no two listeners on one port |
| Schema migration, `model/migrate/`, `model/main.go` | schema and its version | fresh start, upgrade, copy from SQLite | the version says which migrations have run |
| Options, `model/option.go`, `service/option.go` | `options` table, `OptionMap` in memory | init, update | memory and table agree |
| Users and sessions, `service/user.go`, `middleware/auth.go` | `users`, cookies | register, login, manage, delete | nothing brings a deleted account back; the role in force is the one stored |
| Verification codes, `pkg/utils/security/verification.go` | codes in memory | send, check, delete | a code is used once, in time, for its purpose |
| Rate limits, `pkg/utils/ratelimit/`, `middleware/rate-limit.go` | arrival times by key | request, clean-up | at most N in every window |
| Application log, `model/app_log.go`, `service/app_log.go` | `app_logs` | append, list by position | a reader can follow it without a gap |
| The console's pages, `web/features/`, `web/components/` | query cache, form fields, selections, requests under way | queries, timers, mutations | a page at rest shows what the server has; a form sends what it shows |
| The panel's pages, `zashboard/src/` | stores fed by sockets and fetches, settings in the browser, a database in the browser | fetch, select, switch, pause, drag, clear | the same against the kernel; histories count everything once |

### How they interact

* Handlers of the HTTP server call the services directly; every request is a goroutine.
  `app/server.go` adds an auto-start goroutine that calls the same `StartRuntime`.
* `StartRuntime` and `ReloadRuntime` render what profiles, nodes and options say at that
  moment (`buildFinalRuntimeConfig`), write one file and talk to the kernel over a
  controller address that any kernel with that configuration may hold.
* One goroutine per kernel waits for its exit and writes the same database row that the
  handlers write. Nothing but the registry is under a mutex, and GORM's `Save` writes whole rows.
* An upgrade job runs in a goroutine started by a handler; it broadcasts its log to the
  websocket handlers and ends by replacing the process, which leaves kernels behind.
* Profiles, nodes and imports share tables; most checks are made outside the transaction
  that relies on them.
* A page of the console keeps answers in a query cache that other pages invalidate; timers,
  buttons and remounts ask again. Several requests of one page are under way at once, and each
  is answered by the server as it was at some moment in between.
* The panel gets the kernel's connections, traffic, memory and log by sockets, everything
  else by fetches that follow each of its own actions; tabs share the browser's storage.

### What is hard here

Checks separated from what they guard (start, upgrade, import, uniqueness); copies of rows
saved later; effects with no answer (a reload that timed out); the death of the process
between two file or database steps; two mutexes; sends on channels another goroutine closes.
In the browser: answers that arrive after what they answer has changed; caches that outlive a
deletion; forms filled by an answer while they are edited; timers of things that were
replaced. The list with lines is `hazards` in `PROJECT.json`.

## 2. Modules

| Module | Stands for |
|---|---|
| `Runtime` | `service/runtime.go`: the three handlers, the exit goroutine, the kernel and PoolX's death |
| `KernelService` | what the operator is promised of the kernel; `Runtime` refines it |
| `MCRuntime`, `RuntimeProofs` | its instance for TLC (symmetry and two bounds) and its theorems |
| `ServerUpgrade` | `service/update.go` and `update_restart_unix.go`: schedule, upload, confirm, job, swap |
| `MCServerUpgrade`, `UpgradeProofs` | its instance and its theorems |
| `UpgradeStream` | subscription and broadcast of the upgrade log |
| `NodeTests` | `runNodeTests` and the pool of `mihomo_node_tester.go` |
| `KernelInstall` | `service/kernel.go`: both installations, step by step |
| `SchemaMigration` | `model/migrate/`, `model/main.go`: starts of programs of several versions |
| `RateLimiter` | `pkg/utils/ratelimit/in_memory.go` |
| `Catalogue` | the tables of nodes, profiles, memberships and snapshots under overlapping requests |
| `KernelProofs` | the theorems of `KernelInstall`, `NodeTests` and `ImportPage` |
| `ServerProofs` | the theorems of `SchemaMigration`, `Catalogue`, `RateLimiter` and `UpgradeStream` |
| `FinalConfig` | `RenderFinalMihomoConfig`: the names, groups and listeners of the profiles that are to run |
| `QueryCache`, `QueryCacheProofs` | what the console uses of its query library, and lemmas about it |
| `RuntimePage`, `NodesPage`, `ImportPage`, `WorkspacePage`, `SettingsPage`, `UsersPage`, `LogsPage`, `DashboardPage` | a page of the console each, with the part of the server it talks to |
| `SignIn` | the guards, forms and redirects of `web/features/auth` with the session |
| `Theme` | `theme-provider.tsx` in several tabs |
| `ProxyBoard`, `ProxyList` | the panel's proxies: fetches and choices; what is listed |
| `ConfigBoard` | the kernel's mode and rules in the panel |
| `Connections`, `ConnectionTable`, `Topology` | connections: feed and history; the table; the chart of flows |
| `OverviewCharts`, `PanelLogs`, `Notifications` | the panel's charts over time, its log of the kernel, its alerts |
| `SourceLabels`, `IconUploads`, `PanelRoutes` | the panel's labels of addresses, icons of groups, swipes between pages |
| `PagesProofs` | the theorems of `NodesPage`, `UsersPage`, `WorkspacePage`, `DashboardPage`, `SignIn` and `LogsPage` |
| `ConsoleProofs` | the theorems of `RuntimePage` and `SettingsPage` |
| `PanelProofs` | the theorems of `Theme`, `Notifications`, `ConnectionTable`, `Connections`, `ProxyBoard`, `ConfigBoard`, `IconUploads`, `PanelLogs`, `Topology`, `SourceLabels` and `OverviewCharts` |
| `MCServer` | one run for one upgrade at a time, `NodeTests`, `KernelInstall`, `SchemaMigration`, `RateLimiter` and `Catalogue` |
| `MCConsole` | one run for `FinalConfig` and the pages |

### Runtime

A member of `Callers` is one request, or the auto-start goroutine. `pc[c]` names the block it
runs next: `s_*` for `StartRuntime`, `p_*` for `StopRuntime`, `r_*` for `ReloadRuntime`.
A block ends where the code can be interrupted with effect: at a database read or write, a
file operation, a spawn, a network call, a mutex. `inst[c]` is the request's copy of the row,
and `Save(inst)` writes all of it back, as GORM does. `SaveOrReturn` and `SaveAndReturn` are
the two ways the code treats the error of a save.

| State | Code |
|---|---|
| `reg`, `LockFree` | `runtimeRegistry.cmd` and its mutex, which only `waitProcessExit` keeps across a block |
| `row`, `seen` | the `kernel_instances` row, and the exit goroutine's copy of it |
| `file`, `prev` | the config file, and the content `ReloadRuntime` keeps for restoring |
| `kernel`, `loaded`, `late`, `ctl` | the processes, what each runs, reloads not yet applied, who answers at the controller address |
| `waiter` | the goroutine in `waitProcessExit`: `cmd.Wait` has returned once it is `reaped` |
| `desired` | what rendering would give now; `Edit` changes it |

A configuration is identified with its checksum. `terminateProcess` polls `ProcessState`
without synchronisation, so its loop may or may not see a process that has been reaped
before its deadline: both outcomes are steps. Pids are not reused.

### KernelService

At most one living kernel, launched only when none lives, never one that lived before,
running only rendered configurations. The refinement mapping takes `live` to the processes
alive, `used` to those ever spawned, `config` to what the living one has loaded. It holds for
requests one at a time without failures; `runtime_two_starts` shows that it needs the former.

### ServerUpgrade

A task is a request with the goroutine it starts. `ScheduleCheck`, `SchedulePrepare` and
`JobDownload`, `JobValidate` are the automatic path, `Upload*` and `Confirm*` the manual one;
both meet in `JobMark` and the `Swap*` steps, one per file operation. Versions are numbers
with the order of `isVersionNewer`; a token is named by its file. `Die` may happen anywhere;
`Boot` starts whatever program is at the executable's path. Temporary files are created in
the executable's directory, so a rename never crosses a device and the copying fallback of
`replaceFileUnix` cannot be reached. The log of the upgrade is left to `UpgradeStream`.

### UpgradeStream

Writers change the upgrade state and broadcast a snapshot: copy the listeners under the
mutex, then, for each, send or drain one and send again. Readers are websocket handlers:
register, queue a first snapshot, forward, unregister, close. A snapshot is the number of
changes it contains. The heartbeat is left out: the browser ignores it. `Panic` is the send
on a channel that was closed after the listeners were copied, which the code does reach.

### The pages of the console

All of them extend `QueryCache`. A query there has its cached value, whether that is stale, a
fetch under way with its phase (sent, read by the server, answered), and what an invalidation
or a timer does to it; `retry: 1` is part of the phase "sent". A page's module has the rows of
the server that its page shows, as they are in the table, and one action for the moment the
server reads or writes them; so an answer can be older than what happened since. A click is an
action with the guards of its button (`disabled`, a confirmation), and what a mutation does
when it succeeds or fails is the action of its answer. Names of actions are those of the
handlers in the source where they have one.

| Module | Variables that matter | What can go wrong in it |
|---|---|---|
| `RuntimePage` | `logSeq` (the ring), `panel` (entries shown), `asks`, `statusQ` | an answer older than a start; entries twice or missing |
| `NodesPage` | `lists` (cached, by page and filter), `stale`, `selected`, `work` | a deleted node on a cached list; results lost |
| `ImportPage` | `parsed`, `preview`, `chosen`, `flight`, `pool`, `records` | removed entries sent all the same |
| `WorkspacePage` | `rows`, `stored`, `details`, `draft`, `calls`, `filledBy` | one profile's values saved over another's; an old snapshot |
| `SettingsPage` | `stored`, `optionsQ`, `fields`, `busyKey`; `torn`: which query has yet to read an option that a save wrote before it failed | a field that shows what is not stored |
| `UsersPage` | accounts, the list, the form, `ManageLookUp` and `ManageWrite` apart | a deleted account written back |
| `LogsPage` | the table, the entries shown (a set of ids: every list there is kept sorted by them), a query and two askers | a gap after a poll that was cut at its limit |
| `DashboardPage` | status, ports, nodes and their queries | figures of before an action |
| `SignIn` | route, session, forms under way, GitHub's code | arriving elsewhere than asked |
| `Theme` | stored mode, each tab's state, document and listener | buttons and document apart |

### The panel

There is no query library: a store's `fetch` function assigns what it gets. `ProxyBoard` has
the guard of `fetchProxies`, which compares times in milliseconds (`fetchTime`, `Current`);
`ConfigBoard` has none. `Connections` has the history three times, as the code does: the map
in memory, what a save has computed, and the browser's database, each step of
`saveConnectionHistory` an action. `ConnectionTable` has a press with its release, the click
that follows and the flag that a timer resets. `PanelLogs` has the throttle's two ends and a
history of what the page took from its socket,
`Topology` and `OverviewCharts` the debounce and the pause. In `SourceLabels` the watcher is part
of every edit, since it runs before the next look-up. `IconUploads` remembers for each file
being read whom it was meant for. `ProxyList` and `Topology` compute lists; their properties
compare them with a definition by sets.

### Parts of the server

`NodeTests`: a worker takes a node, finds a port, starts a kernel, waits for its controller,
asks the URL, kills the kernel, sends the result; then the results are stored in order. Ports
are given by the system and free again before the kernel binds one. `KernelInstall`: each file
operation and each option, table and memory apart, is a step that can fail or be the last one
before a crash. `SchemaMigration`: a program of version p knows tables 1 to p; a first
initialization is not a transaction, a migration is. `RateLimiter`: time in seconds; request
and cleaner hold the mutex, so each is a step. `Catalogue`: requests of several callers, each a
sequence of statements as its handler has them; what a request has read stays in `call` until it
writes. Histories say who overlapped: `blind` has the pairs of profiles of which the later one
was checked before the other was written, `late` the profiles changed while a snapshot of them
was made, `dangling` the memberships written when their node was gone. `FinalConfig`: one step
renders; a name is a word and the numbers appended to it, so that a name a user wrote can be
one the code would make.

## 3. Runs

| Run | Instance | Shows |
|---|---|---|
| `runtime_serial` | 1 request, 2 kernels, 2 configurations, no mishap | requests one at a time keep every living kernel registered and reported, its configuration known, refine `KernelService`, always return, notice every exit |
| `runtime_concurrent` | 2 requests, 2 kernels, 1 configuration, 1 mishap | every registered command is watched by a goroutine, a stop that reports success has killed its process |
| `runtime_reloads` | 2 requests, 1 kernel, 2 configurations, 1 mishap | types, and stored pids watched, with reloads in the mix |
| `runtime_two_starts` | 2 requests | violated: two starts leave two kernels |
| `runtime_status` | 1 request | violated: the row stays at running with a dead pid |
| `runtime_skip` | 1 request, 2 configurations | violated: a reload is skipped although the kernel runs something else |
| `upgrade_concurrent` | 2 tasks, 2 temporary files, 3 versions, 1 fault | types, no downgrade, candidate ready, one owner per file, files accounted for, upgrades end |
| `server` | each of six parts of the server, one per behaviour | below |
| `upgrade_two` | 2 tasks, no fault | violated: two upgrades at once |
| `upgrade_preview` | 1 task, no fault | violated: a preview upgrade that was admitted is refused for its version |
| `upgrade_stream` | 2 writers, 2 readers (one stalled), channels of 1, 2 changes | bounded channels, listed channels are open, broadcasts end, a browser that reads catches up unless broadcasts that overlapped raced for the room in its channel |
| `console` | each page, one per behaviour | below |

`server` and `console` explore parts side by side: a behaviour picks one in its first state
(`part`, `open`) and steps through it. They share no state, so interleaving them would only
multiply states. The modules with theorems are extended: their variables are those of the run and
rest in a first state while another part runs, so that the run checks the very definitions the
theorems are about. `console` has others as instances on shared variables `s1`, `s2`, ..., since
only one is open.

`server` has six parts:

| Property | Of | Says |
|---|---|---|
| `ServerTypeOK` | all | the type invariant of the part that runs |
| `Recoverable` | upgrade | with one upgrade at a time, one failure or death never loses both the program and its backup |
| `LimitKept` | limits | of N + 1 requests that passed the last is a window later than the first |
| `SchemaSound` | schema | the version names only tables that exist, the SQLite data came over once |
| `CatalogueSound` | catalogue | no node twice; memberships with their profile, and their node unless it was gone before; equal names or ports, refused imports and old snapshots only between requests that overlapped |
| `InstallSound` | install | no unchecked file at a kernel's path; an undisturbed installation makes all agree |
| `PoolSound` | nodeTests | no node lost or tested twice, no kernel left, results went through their own kernel |

`console` has 27 parts of 23 modules: the runtime page three times (`runtime`, `runtimeLogs`,
`runtimeLists`), settings and signing in twice (`settingsSaves`, `signInVisits`), each time with
many actions of one kind and few of another.
Its properties are conjunctions over the modules that have a hazard of the same kind:

| Property | Of | Says |
|---|---|---|
| `TypeOK` | all | each module's type invariant; of the table also that a column that is pinned keeps its place |
| `DeletedGone` | nodes | at rest no list, cached or shown, has a node the page deleted |
| `ListsKeepNodes` | nodes, proxyList, final | grouping, filtering, sorting and rendering lose no node and list none twice; in a configuration names and addresses are unique and each port leads to its profile's group |
| `SnapshotCurrent` | workspace | a stored snapshot is what its profile renders to, unless the profile changed between render and store |
| `ArrivesAsMeant` | workspace, users, import, signIn, icons, routes | a form never sends what it does not show; a redirect, a picture, a swipe arrive where they were meant to |
| `NoGap` | logs, kernelLogs, the three of runtime | a log on display is a piece of the log, in order, nothing twice; of the runtime's, what each answer added continues what was there, except after a relisting that a poll crossed |
| `ThemeAgrees` | theme | buttons, document and mode agree in every tab |
| `HistoryExact` | connections | every closed connection is counted once |
| `ShowsKernel` | proxies, rules, topology, charts, labels | what the panel shows at rest is what the kernel, or its own list, has |
| `AlertsTimed` | notifications | an alert on the screen has its own timer running, unless it lasts or is hovered |
| `ShowsServer` | runtime, settings, dashboard, nodes | what a page shows at rest is what the server has; a test that reports success stored a result for every node that is still there |
| `GoneForGood` | users | no step brings a deleted account back |
| `DragOpensNothing` | table | releasing a drag opens no connection and toggles no group; it does sort |

Some of these hold only with an exception the code really has; the comment above each names
it, and section 5 collects what the exceptions are.

### Bounds and why they are enough

* Two actors meet every check-then-act window of this code; all of them involve two. Two
  kernels let one be forgotten while the other is registered, one that died be followed by
  another, and a stale pid meet a new process.
* Two configurations tell "what runs" from "what is wanted" and allow an edit and its undo.
  Two requests and two kernels and two configurations together are too many states, so
  `runtime_concurrent` has one configuration (a reload then finds nothing to do) and
  `runtime_reloads` one kernel; the proofs cover all together. `RendersAlways` in `MCRuntime`
  bounds both to profiles that render and to reloads in time; the serial run has both.
  `OneAfterMishap` bounds them to one request under way after the mishap: whatever two that
  overlapped left behind, one that fails, or is cut off by a restart, and those that follow it
  one by one. Beyond it TLC explores nothing; the four properties of the two runs are proved
  with any number of mishaps and requests.
* `MaxMishaps` and `MaxFaults` count failed saves, writes and file operations and deaths of
  the process. One is what the code is written for: each handler treats the failure of one step.
* Three versions are the running one, a newer one and one newer still; a run begins with any
  of them running, so older ones occur. Three temporary files allow two successive uploads
  and an automatic upgrade.
* Channels of 1 instead of 8, and 2 changes by two writers, fill a channel, drain it and make
  two broadcasts, or a broadcast and a handler's first send, race for the room. In such a race
  the code can lose the newest snapshot: a broadcast finds the channel full, the reader empties
  it, another broadcast queues the newest, and the first one's drain takes that and queues its
  older one; or the retry finds the room taken and gives the newest up. With 8 places it takes 8
  pending snapshots. The history `raced` names the readers it befell and the two properties
  except them, until the next change; `overlapped` keeps the exception to broadcasts that met
  another one or a first send. The theorem has no such bounds.

The upgrade runs switch deadlock checking off: a process that died without an executable,
and a task without temporary files left, really stop. So does the stream after its last change.

In `server` and `console` every module has bounds of its own, named in its `CONSTANTS`:

* Two nodes on pages of one, or three accounts on pages of two, give a second page and a page
  that is left empty by a deletion. Two lists of a query (a filter or a classification on and
  off) are what a cache needs to hold one that is not on display.
* At most one or two answers of each kind are under way: an earlier and a later one can change
  places. Two or three operator's actions (`MaxActs`, `MaxMoves`, ...) allow an action and its
  undoing, and where there are three one between their answers; the clicks' guards forbid longer
  overlaps in most places.
* A page whose actions are of two independent kinds is there twice. `runtime` has a click, a poll and a
  change from elsewhere but an empty log. `runtimeLogs` has three lines in a ring of two, answers
  of one entry, two pollers and no click, so that polls overtake each other while the ring drops
  lines; `runtimeLists` one poller, two lines and a click, after which the page lists anew. `settings` has one save under way and three actions,
  `settingsSaves` two saves at once and two actions. `signIn` has an e-mail address and Turnstile,
  one visit and two exchanges of GitHub's code, `signInVisits` two visits and one exchange.
  The theorems have no such parts.
* The overview has one node and all four queries cached; the rules page one rule and one mode
  (its property is about rules); the import one text parsed and four edits: input, deselect, remove, reselect is
  the shortest way to a removed entry that could be chosen again, with the import after it.
* The charts have two messages and three actions of a user, so that bars are drawn after a pause.
* Rings, caches and histories keep one or two entries and see three, so that they overflow.
* Three programs and four starts of `SchemaMigration` are an upgrade, a downgrade and an upgrade
  again with a crash; three installations of `KernelInstall` with one fault are one that fails,
  one beside it and one that repairs. Three nodes for two workers and two ports leave one waiting.
* Three requests by two callers of `Catalogue`, on one node, one profile or none and rows that
  share a port, a name, a name but for its capitals, or one whose capitals SQLite does not fold: two can overlap with a third between their statements (four requests,
  1.3 million states, were explored once and show nothing else).
* `FinalConfig` renders every pair of eight profiles over four nodes with three names, two of
  which are already what the code makes of the third: numbers that are taken come up, and a
  node that two profiles share, a node or settings that cannot be read, addresses that clash.
* Limits of 2 and 1 with a window of 3 seconds and a cleaner of 3, over 6 seconds: the whole
  window can pass twice.

Deadlock checking is off in both since counters of bounds end its behaviours.

### Fairness

`Runtime`: a request that has begun and the exit goroutines go on; every wait of a handler
has a deadline (12 s for readiness, 5 s for termination, 5 s for the reload call), so each
block is left. Nobody has to begin a request, and the kernel never has to do anything: it may
ignore the interrupt, never answer, never exit. `ServerUpgrade`: tasks that have begun go on,
since every network call there has a timeout. `UpgradeStream`: broadcasts and handlers go on,
and a browser that is not stalled takes what is sent to it.
`server` and `console` state no fairness: their properties are invariants and two of steps. What a page
"ends up" showing is said of the states in which nothing is under way.

### Disagreements

* `SingleKernel`: the check of `StartRuntime` (`runtime.go:77`) and the registration (145) are
  two critical sections. The docs promise a single instance.
* `StatusAccurate`: the last save of a start overwrites what the exit goroutine recorded.
* `SkipsOnlyUnchanged`: a late reload changes the kernel after PoolX restored checksum and file.
* `SingleUpgrade`: `inProgress` is checked at 140 and set at 162, after GitHub was asked.
* `PreviewAllowed`: line 408 admits any preview release, 843 refuses one that is not newer.

## 4. Proofs

### RuntimeProofs

For any sets of requests, kernels and configurations and any number of failures and
restarts (assuming only `RuntimeAssumption`): `TypeCorrect`, `RegistryAlwaysWatched`,
`PidAlwaysWatched`, `StopAlwaysMeansDead`. The inductive invariant is `TypeOK /\ WatchInv`.
The three properties are not inductive: a registered command comes from a handler's variable,
a pid in the row from some handler's copy or the exit goroutine's, so `WatchInv` says of all
these that the process was spawned and, past the registration, is watched; and that a
goroutine past `cmd.Wait` belongs to a dead process.

Under `OneAtATime` (no two requests, no mishap), for any number of kernels and
configurations: `NeverStray`, `SeriallySingle`, `RuntimeIsKernelService`,
`StatusAlwaysReports`, `ConfigAlwaysKnown`. `SerialInv` adds that a start past its check, and a stop past its
termination, see no living kernel; `FileInv` that the controller belongs to a kernel that is
up and that a kernel starts only after its file was written, which the refinement needs for
`Load` to take a rendered configuration. Every step maps to `Launch`, `Load`, `End` or a stutter.
`ConfigInv` relates the row's checksum to the file and to what a living kernel has loaded: a row
that says running has the checksum of both (`RowTrue`), except while a reload is under way, and each
handler past its writing has the file's.

### UpgradeProofs

For any tasks, files, versions and faults (assuming `UpgradeAssumption`): `TypeCorrect`,
`OwnersDistinct`, `CandidateAlwaysReady`, `NeverDowngrades`, `TempsAlwaysAccounted`. The
invariant is `Inv == TypeOK /\ Ownership /\ Forward`. `Ownership` says that every file named
by a task or the candidate has been created, and that each has one owner: without it, one
task's removal could take another's checked binary. `Forward` says that the executable, the
backup a rollback would use, the candidate and every checked file are at least as new as the
running process; `NeverDowngrades` follows, since only the executable is ever started.

`AlwaysRecoverable` assumes one task and at most one fault. `Recovery` says where the backup
must be while the executable is away, and that a rollback has already spent the one fault.

### KernelProofs

`InstallAlwaysSound`, for any requests, paths, contents, number of faults and crashes
(`KernelInstallAssumption`). `Holds` says that only a checked file reaches the part that moves and
records it; `Alone` that a request of the history `alone` is by itself in that part, and how far
file, table and memory agree at each step; `Agreed` that they all do in between unless something
was torn.

`PoolAlwaysSound`, for any numbers of nodes, workers and ports (`NodeTestsAssumption`). `Once`
counts the places a node can be: unsent, with one worker, or one result; `AtWork` relates a
worker's state to its node's kernel; `PortsShared` has two workers on one port only if the
history says that the system gave it twice. That the channel never blocks a worker follows from a
count of results (no more than nodes, by an injection).

`RemovedAlwaysOut` and `ImportTypeCorrect`, for any sources and bounds (`ImportPageAssumption`). The
server takes a selection of nothing for everything, so the theorem rests on `ImportPicked`: an
import under way has picked something, and nothing that was removed before its click. That in
turn needs `RemovedApart`: what was removed is neither chosen nor in the preview, from where it
could be chosen again. A parse that answers late replaces preview, choice and history together.

### ServerProofs

`SchemaAlwaysSound`, for any programs, starts and crashes (`SchemaAssumption`): `Recorded` is what
the property says of the version; `Progress` has, for each statement of a start, what the ones
before it made sure of; `Brought` that nothing is copied into a database that holds something.

`CatalogueAlwaysSound`, for any callers, fingerprints, rows and calls (`CatalogueAssumption`). A
request's variables are old when it writes, so for each request four predicates say what it may
still believe: `Known` (its ids were given out), `Unlike` (it has met no twin but among profiles
written since, the history `blind`), `Fresh` (the values it rendered, unless the profile is in
`late`), `Copied` (a copy of a node is like the node, if it is there). Each transaction then keeps
them for itself and, by the histories, for every request it crosses.

`LimitAlwaysKept` is `LimitKept` for any set of keys, any positive limits, any windows that are
no longer than the expiration (`RateLimiterAssumption`, what `pkg/common/constants.go:92` asks for)
and any times; `LimiterTypeCorrect` is the typing. `LimitKept` speaks of the history `passed`
while the code looks at its queue only, so the inductive invariant relates the two, for each key
(`KeyInv`): the times that passed are in order and not later than now; the queue is their end;
and unless the queue is full, the times before it are a window ago. The last is what the cleaner
keeps true: it forgets a queue when its last time is longer ago than the expiration, hence than
the window. Then a request that passes finds the time that lies N before it a window ago, whether
it looked at it (a full queue) or not. `Room` says so; `PassKeeps` shows that a request with
room keeps the limit, `CleanerKeeps` and `SecondKeeps` are the other two steps.

`StreamTypeCorrect` and `StreamAlwaysSound` need `StreamAssumption` only: any writers, browsers
and capacity. The second says that a listed channel is open and bounded and that a browser has the
newest snapshot, or has it in its channel, or, in the inductive invariant, is owed it (`Coming`,
`Owes`). Only the last part is hard: a broadcast that finds a channel full takes a snapshot out and
tries again, and may find it full again. A broadcast that met no other and no first send
(`Undisturbed`, `Apart`) is the only one and of the present state, so what it takes out is not
newer than what it brings, and it finds the room it made. One that met another may lose the newest;
that is the history `raced`, which `Shown` excepts and the next change clears. A panicked
broadcast counts as owing for ever: after a panic the theorem promises no snapshot.

### PagesProofs

For any sizes, names and bounds of the six pages.

* Nodes (`NodesPageAssumption`): `NodesTypeCorrect`, `DeletedAlwaysGone`, `TestsAlwaysStored`.
  `DeletedGone` speaks of the list on display, so the invariant says of every cached list that
  it is without the nodes that are gone, or was overtaken, failed, is being fetched, or is stale
  and not shown (`ListsWithout`); of every answer under way that it is without them, or its list was
  overtaken (`AnswersWithout`); and that what counts as gone is deleted in the table, where a
  batch has deleted what it has left behind (`DeletionsHold`). `TestsHold` has each node of a test
  waiting, stored or deleted, and none unborn, so that an import makes none of them alive.
* Users (`UsersPageAssumption`): `UsersTypeCorrect`, `UserSaveAlwaysShown`, `AccountsStayGone`. The
  second needs `EditorFills`: while the editor waits for an account's detail its form is
  not filled, and the detail that fills it is that account's. The last is of steps: a write goes to
  an account that is there at that moment, or makes a new id.
* Workspace (`WorkspaceAssumption`): `SnapshotAlwaysCurrent`, `ProfileAlwaysSavesItsOwn`. The first
  rests on `TablesAgree`: a request that has passed its checks is about an id that was given out (so
  a profile that is created meets no snapshot), and a rendering under way is of the row as it is, or
  its profile is in `overlapped`. The second on `FormFilled`: the draft of a selected profile
  was filled by no other, or its own detail is missing.
* Overview (`DashboardAssumption`): `DashboardTypeCorrect`, `OverviewAlwaysCurrent`. Of the kernel and of
  the nodes `DashboardInv` says that the query asks, has read what the server has or shows it
  (`Shows`), or that a quick action which changed the server has still to be answered, or that the
  facet is known to be behind (`Followed`). The answer then asks again or writes what it was given;
  that an answer read before the action does not overwrite it needs `TestOfShown`: a test runs only
  once the list has been there, so the invalidation drops the older answer. The proof found two
  arms of a `CASE` in `PressFails` that were both true and disagreed: the model now says which.
* Signing in (`SignInAssumption`): `SignInTypeCorrect`, `AlwaysLandsWhereAsked`. `Owed` says of who is
  owed a page that they are on it, or at the login form whose redirect leads there, with the
  login under way, if there is one, leading there too; who comes back from GitHub (`byGitHub`) is
  owed Home, which is where the code goes whatever page was asked for. `CodeTyped` counts the exchanges of GitHub's
  code: none is answered twice.
* System log (`LogsPageAssumption`, which has the limit of an answer no larger than the list may
  get, as in the code): `LogsTypeCorrect`, `LogsNeverGap`. `Holds` says of a set of ids that it is a
  piece of the table, without a gap. `PiecesKept` has every cached list hold one, `PollsRead` every
  answer of a poll one that begins after the last id it asked with, `PollsContinue` that it still
  fits the list on display when it comes. A cut at either end leaves a piece a piece.

### QueryCacheProofs

What each operator of `QueryCache` keeps of a query's data, answer and phase, for data of any
type. The two modules about the console's pages rest on these lemmas.

### ConsoleProofs

`StatusAlwaysFresh` and `FieldsAlwaysShowStored` are the parts of `ShowsServer` about the pages of
the runtime and of the settings, for any buttons, pollers, users, options and saves in flight.

* Runtime: the status shows whether the kernel runs, or will be asked for, or is known to have
  failed (`StatusShows`); unless nobody told the page, or an action's answer is still to come
  (`StatusKept`).
* Settings: `OptionsFollow`, `PublicFollows` and `SelfFollows` say of each option and each of the three
  queries that the query has what is stored, or will ask, or that a save or the installation which
  wrote the option has yet to answer (`OptionComing`, `PublicComing`, `SelfComing`), or that the save
  failed (`torn`). `OptionsShown` and `SelfShown` relate a field to the answer that filled it last,
  which may be that of the options, of the public status or of an installation. The attempt to
  prove this showed that the property had to speak of each query apart: the options may be read after
  a save failed and the public status not; and that a text the public status has empty fills no field.

### PanelProofs

`ThemeAlwaysAgrees` for any number of tabs (`ThemeAssumption`): `TabAgrees` says of each phase of a
tab what its document, state and listener have in common. `AlertsAlwaysTimed` for any keys,
without an assumption: an alert on the screen is its key's, a timer that runs is its key's, no
two keys have one timer (`OwnTimers`), which is why clearing one stops no other.
`DragAlwaysOpensNothing`, a property of steps, for any columns: a press that began with no reset
under way and never left the table has met none since, so its drag is still on record
(`TableInv`).

`HistoryAlwaysExact` is `HistoryExact` for any finite set of connections, any list of distinct
history types and any keys (`ConnectionsAssumption`). A history at rest is exact because of what
`ConnectionsInv` says of one that is not:

* `ClosedOnce`: what is saved or counted is neither open nor in the list of the last report, so it
  is not reported closed again, and the saves under way have no connection in common;
* `WritesAwaited`: every write that the database has not finished is awaited by a call of its own:
  a save waits at the type that is written, a load at the list it cut, a clear is someone's;
* `CountsExact`, unless the history is excused: for a type that is loaded, memory counts the
  connections that were counted less those whose save has still to merge (`Merged`), the cache
  agrees with it, and the database does once the writes under way are done, one after the other
  (`Settles`).

The steps rest on lemmas about counting: two disjoint sets of connections count as the sum of each
(`mergeAggregatedData` of `aggregateConnections`), and a queue with one more write settles as the
last write to each type says.

`ChoiceAlwaysShown` and `RulesAlwaysShown` are `ShownChoice` and `ShownRules`, the two parts of
`ShowsKernel` about the pages that change the kernel, for any nodes, rules and clicks
(`ProxyBoardAssumption`, `ConfigBoardAssumption`). At rest the page is right because of who will
still make it so (`ChoiceFollowed`, `RulesFollowed`): a handler whose request the kernel has
carried out and whose fetch is to come; or the one fetch whose answer counts, which has not
been read or was read after the last change; or nobody, and the page is right already. For this
a flow has its own number and one fetch that it awaits (`FlowsApart`, `RuleFlowsApart`). Two
fetches in one millisecond, two calls of `fetchRules` that overlap and a failed one are excused
by histories, as in the property.

The other parts of the panel, each for any value of its constants:

* `IconsAlwaysLand` is the part of `ArrivesAsMeant` about pictures (`IconAssumption`). `TargetKept`
  says of a file that was chosen, and that no other upload crossed, that it is the only one of its
  input under way and meant for the target the page remembers; and that this target is the one the
  dialog is for, unless an upload was given up.
* `KernelLogInOrder` is the part of `NoGap` about the kernel's log (`PanelLogsAssumption`).
  `KernelLogInv`: collected and listed lines are the newest part of what was taken (`Newest`), and
  number and level of each are what the socket's were. Lines put before and a cut at the old end
  keep that (`NewestGrows`, `SlicedLogs`).
* `PicturesAlwaysCurrent`: no chart of the topology keeps a picture of older connections unless an update
  waits or was skipped, in whatever way the picture is computed; that is, for any `sankeyData`.
* `CacheAlwaysCurrent`: what is cached of the labels is what a look-up would find now
  (`SourceLabelsAssumption`), as every edit empties the cache (`CacheInv`).
* `HistoriesAlwaysShown` (`ChartsAssumption`): `SamplesInv` has the samples of a history in order and
  below the message that waits; `ChartsInv` that a mounted chart that has missed nothing shows its
  history, or the bars.

### Only model-checked

* Liveness (`RequestsReturn`, `ExitNoticed`, `UpgradeEnds`, `BroadcastEnds`, `ChangesShown`): it
  rests on fairness, which is out of the prover's reach, as `ENABLED` is.
* What a selection, a sorting or a fold computes for every list needs induction over data, which
  no installed prover can do. So `ListsKeepNodes` stays with TLC, and so do the entries of the
  runtime page (`LogsInOrder`, a part of `NoGap`), swipes (`SwipesReturn`, a part of `ArrivesAsMeant`), and of
  `ShowsKernel` the contents of the topology (`FlowsShown` beyond `PicturesCurrent`), which label is
  the best (`LabelsFollowList` beyond `CacheCurrent`) and which rules have bars (`ChartsFollow` beyond
  `HistoriesShown`). Every other part of `ArrivesAsMeant`, and all of `ShowsServer`, is proved.
* The properties of `console` that join parts (`ListsKeepNodes`, `ArrivesAsMeant`,
  `NoGap`, `ShowsKernel`, `ShowsServer`, `TypeOK`), and `ServerTypeOK`, as wholes: the theorems are about their parts, each of
  the specification of its own module.
* The type invariants of `ProxyList`, `FinalConfig`, `PanelRoutes`, `PanelLogs`, `Topology`,
  `SourceLabels`, `OverviewCharts`, `RuntimePage` and `SettingsPage` as they stand; the proofs use what they need
  of them.

## 5. What the code does against expectation

Five runs end in a violation that disagrees with a sentence of the repository (above). Writing
the other modules showed behaviour that nothing in the repository promises otherwise; the
properties exclude it by name or the model has it as a step.

Server:

* `CreatePortProfile` does not look whether its nodes exist, so a membership may refer to none
  although the comment at `proxy_node.go:112` says deletions leave none behind.
* `SetProxyNodeEnabled` saves the whole row it read; `ManageUser` likewise, found by a name that
  may be another account's by then.
* A stored snapshot is never renewed: `SaveRuntimePreview` gives `Assign` the record that
  `FirstOrCreate` reads an existing row into (`port_profile.go:217-219`), so it writes back what
  it read. Since an update deletes the snapshot this shows only after a node was deleted or an
  update came between render and store.
* Names are compared by SQLite's `lower`, which folds ASCII only, with Go's `ToLower`: a name with
  other capitals is met by no look-up, not even by itself, and can be given twice
  (`port_profile.go:320`, `Unfolded`).
* `ReloadRuntime` ignores the error of the write that restores the old configuration
  (`runtime.go:258`): the file may then keep the refused one, or be lost.
* Two requests at once may give two profiles one name or one mixed port; the socks and http
  ports are compared with those of no other profile. An update or an enabling that crosses a deletion
  inserts the row again, since `Save` inserts what it cannot update.
* A listener's address is compared as a text, so `0.0.0.0` and `127.0.0.1` on one port do not
  clash; groups and proxies get their names from separate counts, so that a group may be named
  like one of its nodes (`mihomo_final.go:49-50`).
* Tests whose browser leaves are stored as failures. An import that races another fails as a
  whole on the unique index.
* `UpdateOption` ignores the table's errors: memory then has a value that a restart loses.
* A limit is read when the routes are set up: a change takes effect at the next start.

Console:

* A profile can be saved before its detail has come; it is then given what the form still shows of
  another (`workspace-page.tsx:177-204`, `early`).
* The answer of a save closes the user editor even if it shows another user by then. A password
  stored in the settings is shown as kept when left blank, and sent blank.
* `refreshUser` may answer after a login or logout and undo it on the screen; any failure of it
  counts as logged out. GitHub's code is exchanged again when the page is rendered again.
  "Send code" without an address reports success (`register-form.tsx:100`).
* A card of the settings that ends its save frees the buttons of another that is still saving.
* After a start the runtime's log is listed anew from its oldest 100 entries
  (`runtime.go:319-339`), and a poll in flight then appends later ones: the list has a gap, which no
  later poll fills (`runtime-page.tsx:53-65`).
* Signing in through GitHub leads Home, not to the page that was asked for.
* The options come in the order of a Go map (`service/option.go:76`), so nearly every refetch
  counts as changed and overwrites the fields being edited (`settings-page.tsx:265-341`).
* A poll of the log that crosses a change of the classification leaves a gap until the next
  refresh; a failed "test all" leaves the overview's list as it was.

Panel:

* A clearing that overlaps a save brings the traffic history back (`connHistory.ts:125`,
  `ConnectionHistory.vue:417`); a failed cut leaves the history waiting for ever (40-53).
* "Close all" closes every living connection when the tab of closed ones is open or the list is
  empty (`ConnectionCtrl.tsx:37-45`). Sorting and the close button ignore a drag.
* Choosing the node that is shown already sends nothing (`proxies.ts:185`), even if the kernel
  has another by now. Fetches that begin in the same millisecond both count. "Update all" stays
  busy when the fetch after it fails (`ProxiesCtrl.tsx:62`, `RulesCtrl.tsx:55`). A test of a
  group is recorded under the default address (`proxies.ts:244`).
* The preview bar counts a node twice when the low limit is above the medium one
  (`ProxyPreview.vue:124-139`). A lasting alert disappears after the mouse was over it
  (`notification.ts:27,40`).
* Looking up an address throws when a label before the matching one is a network of the other
  family (`sourceip.ts:89-93`): nothing is shown or cached for it.
* A label whose key is no regular expression makes every label after it fail; an empty key names
  every IPv6 address (`sourceip.ts:24`, `72-77`). An upload for an entry that was cancelled or
  failed leaves its target for the next file (`IconSettings.vue:212-233`). A swipe to the right
  from the overview while it is no page of the menu goes to the last page but one
  (`swipe.ts:62-85`).
  Settings that are imported at the start from a file that names another such file reload
  the page for ever (`autoImportSettings.ts:13-66`).

## 6. Not modelled

* Conversions of text: fetching and parsing subscriptions, the
  wording of configurations and a single profile's preview, the comparison of version texts, GeoIP, what each option accepts. They are inputs.
* The limiter in Redis; files and the rotation of the log; routing and middleware wiring; the
  Windows restart script (a command file outside the program); the generated API documentation.
* The upgrade dialog of the console (`features/update`): no page imports it. The settings'
  access token, GeoIP preview and the card that detects capabilities; layout and scrolling.
* The panel's choice of backends and its set-up page: PoolX serves it with one fixed backend.
  The automatic core upgrade, automatic and smart groups, branches for other kernels, sorting
  and widths of the table, search histories, downloads, collapsing and dialogs, colours.
* Transactions of PostgreSQL that interleave statement by statement: `Catalogue` has SQLite's, of
  which one writes at a time.

## 7. Plan

1. The limiter in Redis beside the one in memory; `Runtime` composed with `ServerUpgrade`.
2. The panel's choice of backends with its imported settings.
