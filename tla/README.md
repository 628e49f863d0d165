# gvisord: a TLA+ verification project

gvisord keeps pools of pre-warmed gVisor sandboxes ("sentries") and leases them to
callers over a Unix socket. This directory holds TLA+ models of the daemon translated
from its Go source, the TLC configurations that check them, and TLAPS proofs of the
properties that matter most.

## The system

| Part | Source | State | Operations |
|---|---|---|---|
| Pool | `internal/pool/pool.go`, type `Pool` | `sentries`, `pending`, `closed`, `stopCh`, `recycleWg`, the cond | `Start`, `Execute` (`acquire`, `release`), `recycle`, `refill`, `spawn`, `cleanup`, `reaper`, `Shutdown` |
| Lease manager | same file, type `Manager` | `leases` with a timer each | `Execute`, `registerLease`, `Complete`, `Run`, `Shutdown` |
| Sentry | `internal/pool/sentry.go` | `State`, `Restores`, `LastUsed`, `Created`, ... | `HealthCheck`, `Info` |
| CNI manager | `internal/cni/cni.go` | `nss`, network namespaces on the host | `CreateNetNS`, `DeleteNetNS`, configuration files |
| cgroup manager | `internal/cgroup/cgroup.go` | slices on the host | `EnsureSlices`, `SentrySlicePath`, `PlacePID`, `CleanupSentry`, `CleanupStaleSlices` |
| runsc client | `internal/runsc/runsc.go` | `extraFlags` | one method per runsc verb, all through `run` |
| API server | `internal/api/server.go` | `listener`, `drainCh`, `wg` | `Serve`, `handleConn` and its handlers, `Stop` |
| Daemon | `cmd/gvisord/main.go` | signals, `errCh` | start, `select`, shut down, exit |
| Client | `cmd/gvisord/client.go` | none | one request |
| Configuration | `internal/config/config.go` | none | `Load`, `Validate`, `Workloads`, `ValidateCheckpointPath` |
| Harness | `cmd/gvisord-exec/main.go` | a child process per request | `/run` inside the sandbox, then exit |

**Interactions.** The server has one goroutine per connection, which calls the
manager; `Execute` runs in that goroutine and may block on the pool's cond. `Complete`,
called by a client's handler, by a lease's timer goroutine or by `Run`, starts a
detached recycle goroutine, counted by `recycleWg`. The reaper is one more goroutine
per pool. `Shutdown` runs in the main goroutine or in the one a `drain` request starts.
All of them share the pool under `p.mu`, each sentry under `s.mu`, and the lease table
under `leaseMu`; runsc is called with none of the locks held. `Run` reaches the harness in
the sandbox over HTTP, or by `runsc exec` if the sentry has no address.

**What is hard.** Sentry state and pool list are under two different locks; a sentry
becomes ready in one critical section and the signal is sent in another; `acquire` and
`refill` spawn for seconds without a lock and look at `closed` afterwards; three actors
race for a lease; wait groups are added to while somebody waits; spawn has ten steps
that fail one by one; nothing survives a crash but what lies on the host, and the next life
meets it; the harness reads two pipes in turn from a child that owes it nothing. PROJECT.json
lists the hazards with their lines and the properties that cover them.

**What makes each part correct.** Pool: one owner per sentry, a fresh kernel for every
caller, exact accounting of queued callers, no lost wakeup, nothing left after
`Shutdown`. Manager: each lease is recycled exactly once and none is forgotten; code
runs in the sandbox that was leased for it. Spawn: a pooled sentry is complete, a failed
one leaves nothing. runsc client: every call runs its own command. Server and daemon:
the process exits, and only after the pools are down. Start: what the configuration says
is in force, whatever earlier lives left. Harness: whole output, honest outcomes, nothing left
running after a timeout, an answer or an error in bounded time.

## Modules

`Manager` EXTENDS `Pool` and implements `Lease`; `Startup` EXTENDS `Config`; the `MC*` modules extend a component for TLC with symmetry and
small constant sets; `PoolProofs`, `ManagerProofs`, `LeaseProofs`, `SpawnProofs`, `RunscProofs`,
`ServerProofs`, `HarnessProofs` and `StartupProofs` extend theirs with the proofs.
Every definition is listed in PROJECT.json with the lines it models. Definitions whose
comment starts with "Mutant" are not part of the model: each is a plausible mistake in
the definition after it, used to make sure that a property can fail.

### Pool

One step is one critical section together with the adjacent unlocked work that touches
only the goroutine's own sentry. A member of `Requests` is one execute or run call: its
goroutine (`pc`), its sentry (`held`), and the recycle of its lease (`rpc`, `needed`).

| Code | Actions |
|---|---|
| `acquire` | `acquire` (up to `cond.Wait` or the cold spawn), `acquireSpawned`, `acquireWoken` |
| `Execute` | `Execute` (checks and restore), `releaseSignal`, `registerLease` |
| `Complete`'s tail, `recycle` | `recycleAdd`, `recycleStart`, `recycleReset`, `recycleRestore`, `recycleSignal`, `recycleRemove`, `recycleReplace` |
| `refill` | `recycleReplace` (the count), `refill` (one iteration) |
| `reaper` | `Age` (time passes), `reaperTick`, `reaperCleanup`, `reaperStop` |
| `Shutdown` | `shutdownStop`, `shutdownWait`, `shutdownWoken`, `shutdownSweep`, `shutdownCleanup` |

The sandbox behind a sentry is `box`: `created` or reset, `restored`, `used` once it
was handed to a caller, `gone`. Abstractions:

- `findReadyLocked` takes any ready sentry. The code scans in list order, taking `s.mu`
  of one sentry after the other; a sentry that becomes ready behind the scan is missed,
  and its signal comes after the scan, because the signal needs `p.mu`.
- The cond's waiters are a set, so `Signal` wakes any of them (Go wakes the oldest).
- `sync.WaitGroup` is modelled by what it documents: `Wait` blocks on a positive
  counter, the `Done` that reaches zero releases it, and a `Wait` that wakes to a counter
  in use again panics.
- A spawn is one step here; `Spawn` has its parts. IDs are numbered in the order in which
  spawns return. A cleanup is one step and idempotent: the container is deleted, a
  second deletion fails and is ignored.
- A runsc operation fails if `RuntimeFails` says that it may, and always on a sandbox that
  is gone. Restoring twice into one sandbox is not refused (what a given runsc does then
  is not in this repository).
- `Age` may happen at any moment: a superset of the real clock. Age, RSS and open files
  of the health check may come out either way.
- `Sentry.LeaseID` is written and never read; totals, latencies, `Status` and `Healthy`
  are left out. `Run` never sends a checkpoint; the model lets every request send one.
- The initial state is the pool after `Start`.

### Manager

A request is its own lease ID (128 random bits). `timer` is the lease's `time.Timer`;
`fired` means that its goroutine exists and has not called `Complete` yet. `completing`
holds the callers between the critical section of `Complete` and `recycleWg.Add`. `Run` is
`runLookup`, `callHarness` (the request reaches a sandbox), `harnessReturns`,
`runComplete`. A timer that is armed may fire at any moment, before its lease is in the table and
before Run's request is sent included: `lease_timeout` is not checked, and 0 is accepted. `TimelyNext`
excludes the first of the two, for the liveness of leases and the theorem `NoLostExpiry`.
Every step of the manager is a step of the pool or leaves the pool alone
(theorem `MgrImplementsPool`).

### Lease, and what the manager implements

`Lease` is the abstract specification: a request is refused or granted a lease on a sandbox
nobody has used, the lease is the only one on its sandbox and ends once, and a used sandbox is
renewed (reset or deleted) after its lease and before the next. It knows nothing of pools,
timers, locks or recycles. `Manager` instantiates it with a refinement mapping: a lease is
`granted` while it is in the table and `over` when it is not any more (`leaseOf`), its sandbox is the
sentry held (`leasedSandbox`), `usedSandboxes` are those handed out and not yet reset or deleted, and
`daemonPhase` is how far the shutdown is. `ImplementsLease`
says that every step of the manager is a step of `Lease` or invisible; `LeasesEndAndRenew` is
its liveness, under the manager's fairness. What the abstract specification has to concede shows
what a shutdown does to callers: all leases are void, a lease that comes later may be on a sandbox
that is already deleted, and the wait group may panic.

### Spawn

The resources of a sentry on the host by kind (directory, namespace, address, container as runsc has it
on record, sandbox process, cgroup), the bundle's `config.json` as far as spawn edits it (`PrepareBundle`,
`InjectBundleMounts`, `InjectNetNS`), the steps of `spawn` with what each makes and what its error
path gives back, `cleanup` step by step, `Start`, crash and restart. On a restart the work
directory may have been wiped (`RuntimeDirectory` of the systemd unit) or not, and the
old sandbox processes may be alive or not; `CleanupStaleSlices` removes the cgroups
without processes. `CreateNetNS` is one step: it runs under the CNI manager's mutex and
undoes its own work.

A step that fails may have made any part of its resources (`made`), and what an error path or a cleanup tries
to give back (`undone`, `cleanupSteps`) may stay, as the code logs or drops these errors (`left`,
`CleanupFails`): `runsc delete` fails, and the sandbox process is killed all the same if its PID is known,
which it is only from `runsc state` on (`pids`); `RemoveAll` takes the record of the container with the
directory. `old` is a history variable: the IDs that had a namespace or container on the host when this life
began.

### Harness

gvisord-exec with the code it runs and the caller at the other end. A request's child has two
pipes of `PipeSize` chunks; the handler reads stdout to its end or limit, then stderr, then waits
(`readChunk`, `readEnd`, `cmdWait`), and looks at the deadline first (`check`). The deadline kills
the child alone (`killChild`); a process the child started (`bg`) keeps the pipes open. The code
in the sandbox may write, fork, hang and exit in any order. `exit` is the goroutine that ends the
process after an answer, `terminate` the SIGTERM of a recycle; both end every other request. The
50 ms before the exit are taken to be enough to flush the answer. `callerGivesUp` is the
timeout of `callHarness`, or the reset of its connection. Without an address (`ip` is false)
`callHarnessViaExec` runs the code by `runsc exec` (`execStart`, `execReturn`), without the harness, a timeout
or a limit on output; what such a call does with the output is left out.

### Runsc

The backing array of `c.extraFlags`, which all calls share, and the two `append`s of `run`: one that
finds room writes into the array, one that does not copies (external, Go's `append`). `NewClient`'s loop
over the flags is `filtered`, one `keep` per flag; the array is as long as the list before the filter
(`capacity`). A command is the sequence of arguments that `exec.Command` is given.

### Config and Startup

`Config` has the functions of the configuration on values: a file is a record with some of the
fields, names are sequences of characters (of the set `Chars`), paths sequences of names without a
slash (`givenPath`: a path split at its slashes, empty and dotted segments included). `givenFile`
is what `json.Unmarshal` accepts: some of the fields, each with a value of its Go type; that every member of
`Files` is such a file, every member of `Paths` a path and the working directory a clean one is assumed, and
evaluated by TLC (`FilesAssumption`, `PathsAssumption`, `CwdAssumption`). A field that decides
nothing here is left out. `Abs` goes over the segments of a path as `filepath.Clean` does; `text` is the string
that `ValidateCheckpointPath` compares prefixes of. `over(f, g)` is a record decoded over another, the fields of the file first. `Load` decodes `resource_classes` over the default classes element by
element, as `encoding/json` does with a slice that is not empty. `Workloads` is the set of maps that
Go's map order permits. `Startup` is the first half of `main`: load, validate, cgroup slices one
class after the other, CNI files, pools in turn, each of which may fail; and the next life, with
another file, on the same host. A CNI file is written if it is missing, unless `os.Stat` fails with another
error: `EnsureConfig` then skips it and returns no error; a write that fails may leave half a file. A pool with
networking starts only if the plugins can read both files. `served`, a history variable, has the subnets in
which sentries were started, in all lives. The kernel refuses a `cpu.max` below 1 ms (external).

### Runs

| Run | Instance | Result |
|---|---|---|
| `pool_warm` | 3 requests, 1 sentry, 3 spawns, queue of 1, eviction, failures | passes, 1193461 states |
| `mgr_warm` | an execute and a run, 2 sentries, 4 spawns, restore on demand, failures, timers at any time | passes, 586152 states |
| `mgr_live` | an execute and a run, 5 spawns, stock runsc, fairness | passes, 33927 states |
| `spawn_warm` | 2 goroutines, 2 IDs, failing steps and removals, 2 restarts | passes, 168281 states |
| `runsc_target` | 4 concurrent calls, `--warm-sentry` | passes, 9073 states |
| `server` | 3 connections, 2 of them drains, fairness | passes, 14261 states |
| `harness` | 2 requests, one of which writes up to 3 chunks a stream and forks, with an address and without, fairness | passes, 253952 states |
| `startup` | 30 files, 312 paths, 2 lives | passes, 358048 states |
| `pool_stranded`, `mgr_shutdown`, `spawn_partial`, `runsc_warm` | see below | the property is violated |

- `pool_warm` checks everything about who may touch a sentry when (`ExclusiveSentry`,
  `StateDiagram`), the wakeups (`NoLostWakeup`), the accounting (`PendingExact`), what is
  left behind (`ClosedIsEmpty`, `NoOrphan`), and the inductive invariant `PoolInv`, with all
  actors at work at once.
- `mgr_warm` checks the race for a lease between client, timer, `Run` and `Shutdown`, with two leases
  at a time and the replacement of their sentries; that a lease is forgotten (`NoLeakedSentry`), or the code of
  a Run reaches a foreign sandbox (`ForeignOnlyIfExpired`), only where a timer came too early; that whoever gets a lease gets a fresh sandbox (`FreshKernel`),
  where the restore is the caller's own and may fail; and that all of it implements `Lease`.
- `mgr_live` checks that leases end and their sandboxes are renewed, that concurrent refills leave
  no deficit (`NoDeficit`), that queued callers are answered and a shutdown ends.
- `spawn_warm` checks that a pooled sentry has all it needs, made from a bundle of its own even
  where a crashed daemon left one (`LiveIsComplete`) and with nothing of an earlier life (`NothingInherited`),
  and that no sandbox is forgotten, except where runsc could not delete it before its PID was known
  (`SandboxOwned`); `runsc_target` what still holds of commands built on the shared slice; `server`
  the order of the exit, that it happens, and how many handlers can come late.
- `harness` checks that answers have the whole output, that a killed child is told as a timeout
  and leaves nothing running, that the wait of child and harness for each other ends, and that the
  caller returns, with the one exception of code that runs for ever in a sandbox without an address.
- `startup` checks that the limits of the present file are in force, that templates and classes
  get a pool each and sentries an ID each (under conditions on names which the property states;
  files that violate them are among the inputs), that `checkpoint_dirs` confines paths exactly, and
  that the sentries of all lives are in the subnet of one bridge file that was written whole (`OneSubnet`).

**Bounds.** `MaxSpawns` bounds the successful spawns, `MaxIds` the IDs of one life,
`MaxRestarts` the restarts, `MaxWrites` the output, `MaxLives` the starts. Three requests on one sentry are enough for an
owner, a waiter and a newcomer at once (`pool_warm`); two requests on two sentries for two leases at once, in
which nobody waits (`mgr_warm`), and on one sentry for a lease and a waiter (`mgr_live`).
Three spawns on a pool of one allow two replacements, or an overshoot by two; the four spawns of
`mgr_warm` allow both sentries to be replaced. `Checkpoints` says which checkpoints requests may name; in
`pool_stranded` they name none, so that the only way back to the pool is a recycle.
Two IDs and two restarts let both sentries of a life meet left-overs, and left-overs of left-overs. Each
request is made once; leases and recycles of different requests overlap freely. Where
`MaxSpawns` is reached a spawning goroutine stops, which is why deadlock is not checked in
the safety runs; in `mgr_live` `MaxSpawns` is large enough that it never happens.
In `harness` a pipe of one chunk and limits of two and one chunk let the code fill each pipe, reach
each limit and exceed it. In `startup` two lives are one change of the configuration; the files
are variations of templates, classes, names, directories and network around their edges.
The other systems really stop: the server's when the process is gone, the client's when all
calls are done.

**Fairness.** Weak fairness of every goroutine of the daemon once it has something to
do: Go's scheduler runs a runnable goroutine eventually, mutexes are not held across
waits, and `time.AfterFunc` fires. It includes that a runsc command and a harness call
end (the harness call over HTTP has a timeout and `runsc exec` ends at the latest with its sandbox, which the
lease's timer has recycled; other runsc commands have none, and a runsc that hangs hangs its recycle).
`mgr_live` also takes `lease_timeout` to be longer than the steps from `time.AfterFunc` to the insertion of the
lease (`TimelySpec`). In `harness` handlers, timers and the caller are fair, the code that is run is not; `Answered`
excludes a background process that keeps a pipe open for ever, in which case the harness waits
and only the caller returns.
Nothing is assumed of clients: none has to call, complete or send,
except in `PromptSpec`, where clients that connected send or hang up. `QueuedAnswered`
speaks of finitely many requests: under endless load newcomers may overtake a woken waiter
for ever.

**What the violated properties show** (PROJECT.json has the lines and the quotations):

- `pool_stranded`: `LastUsed` is set by the acquire and not renewed by a warm recycle. In the trace a lease
  ends, its sentry is recycled while another caller waits, and more than `idle_timeout` has passed since the
  acquire: the reaper evicts the sentry the waiter was just woken for, and the waiter sleeps on an empty pool.
- `mgr_shutdown`: `recycleWg.Add` races `Shutdown`'s `Wait`.
- `spawn_partial`: `cleanupPartial` leaves the namespace, the address and the cgroup.
- `runsc_warm`: with `--warm-sentry` in `extra_flags`, concurrent runsc commands swap `--root`;
  `runsc_target` shows that verb and ID stay right, so such a command fails rather than
  acting on another sandbox.

**Other behaviours the models have**, for which no run is kept:

- A timer that fires between `time.AfterFunc` and the insertion of its lease finds nothing to complete and
  leaves a lease without a timer (`ExpiredUnregistered`): a caller that crashes then keeps its sentry until
  `Shutdown`, although docs/security.md:67 says that "the sentry is recycled automatically". A lease that
  expires before `Run` has sent its request lets `Run` post its code to the address of a sentry that was
  recycled meanwhile. Both need a `lease_timeout` of 0, or one shorter than a few steps of a handler.
- Where `runsc delete` fails in `cleanupPartial` before `runsc state` has told the PID, the sandbox process
  stays, without a directory or record by which anybody could find it.
- Code that runs for ever in a sandbox without an address keeps its `Run` waiting: `callHarnessViaExec` does
  not pass the timeout on. The lease's timer ends it, with the sandbox.
- Two recycles at once each refill the whole deficit: the pool may hold more than
  `pool_size` sentries.
- A warm recycle restores although `pre_restore` is false; `Execute` then restores again.
- After a crash the IDs start at 1 again and `ip netns add` fails on the leftover
  namespaces, so `Start` fails and the daemon exits, at every restart.
- A client that connects and sends nothing keeps `Stop`, and the process, waiting: `Decode` has no
  deadline. `DrainEnds` holds only of clients that send or hang up.
- A child that fills the pipe of stderr before it closes stdout, or writes past a limit, blocks
  until the timeout. A process it leaves in the background delays the answer, and the kill of the
  group, until it ends; only the caller's own timeout ends the call.
- Two requests to one harness are both executed, and the first answer ends the other.
- Output that JSON escapes to more than 12 MB makes `callHarness` fail after the code has run.
- One class the kernel refuses (`cpu_millis` below 10) switches all limits off, with a warning.
- A class given without `memory_mb` or `cpu_millis` takes those of the default at its position.
- A CNI bridge file stays as it was first written, after a change of the subnet and after a write
  that failed halfway; the pools then fail to start, at every restart, until somebody removes the file.
- `checkpoint_dirs` of `/` allows no path but `/`.
- Pools whose names differ only in `/` against `-` have the same sentry IDs; the second of them fails
  to start, and the daemon with it.
- A connection accepted just before `Stop` closes the listener may get its handler after
  `Stop` has returned (at most one: `AtMostOneLate`).

## Proofs

What the theorems say holds for every value of the constants that satisfies the assumptions of
the model: finitely many requests or connections, positive sizes, Booleans where a switch is
meant, a list of strings where one is configured (`PoolAssumption`, `ManagerAssumption`,
`SpawnAssumption`, `RunscAssumption`, `ServerAssumption`, `HarnessAssumption`,
`StartupAssumption`), files that decode (`FilesAssumption`), paths split at their slashes
(`PathsAssumption`), a working directory without empty segments (`CwdAssumption`), an alphabet
with the separators in it (`CharsAssumption`), and numbers that
are printed differently (`NumbersAssumption`; `ToString` means nothing to the prover). A
hypothesis beyond those is written in the theorem. All theorems of invariance have the same
shape: an inductive invariant, one lemma per action that shows it kept, and the property read
off.

**Pool** (`PoolProofs`). `ExclusiveSentry` is not inductive: that nobody else owns a ready
sentry follows only if `Sentry.State` tells the truth about owners (`StateInv`); that the reaper
takes nothing that is owned, only if lists and states agree (`ListInv`); that `Restore` works on
the sandbox it means to, only if control points and `held` agree (`ControlInv`); and
`FreshKernel` needs to know which kinds of sandbox a ready sentry can have in each configuration
(`FreshInv`, which depends on `PreRestore`). `PoolInv` is the conjunction of these with the type
invariant, `ClosedIsEmpty` and `NoOrphan`; theorem `PoolInvariant` combines the lemmas.
`PoolTypeCorrect`, `Exclusive`, `Fresh`, `Closed` and `Orphans` are read off; `Diagram` is
proved of each step from the invariant. The others have an induction of their own on top of
`PoolInv`:

- `Pending`: on the cardinality of the set of callers inside `acquire`.
- `Wakeups` (`NoLostWakeup`): if somebody waits on an open pool, the ready sentries are no more
  than the wakeups on the way (`onTheWay`: a waiter that is woken and has not looked yet, or a
  goroutine that still has to signal). Each step is an injection or a count of one: a signal
  hands its wakeup to a waiter, an acquire takes a sentry and consumes at most one wakeup, an
  eviction takes a sentry only.
- `Deficit` (`NoDeficit`): an open pool has its `PoolSize` sentries, or a recycle has still to
  count, or one has counted enough of them and not spawned all yet (`ShortfallInv`): the count
  of the last recycle covers what the earlier ones left, whoever spawns in between.
- `NotStranded` (`NoStrandedWaiter`): a waiter never sleeps on a pool where nobody is left to
  wake it. Every sentry of the list that is not ready has an owner, or a recycle, that will
  signal or replace it (`Owned`); the rest is `NoLostWakeup` and `NoDeficit`. It needs
  `~RuntimeFails` and `~IdleEviction`: a refill that fails is not repeated, and the run
  `pool_stranded` shows what the eviction does.
- `WaitWakes` (`WaitsForSome`): `Shutdown` sleeps in `recycleWg.Wait` only while the counter
  covers a recycle that runs. Its lemma `WaitSteps` says what a step may do to the set of running
  recycles and to `Shutdown`; `RunningCounted` that the counter is the size of that set.
- `ShutdownLeaves` (`LeftToOthers`): a `Shutdown` that has returned leaves no sandbox but those
  the reaper, or a recycle that came late, has taken out of the pool and is about to delete.
- `QuietShutdown` is what is true of `ShutdownWaits`, the property that `mgr_shutdown` finds
  violated: it holds in `QuietSpec`, where no `Complete` reaches `recycleWg.Add` once
  `Shutdown` has begun. The late `Add` is the only cause.

**Manager** (`ManagerProofs`). `MgrImplementsPool` proves `MgrSpec => PoolSpec`, so the pool's
theorems hold of the composition; `MgrPoolPromises` collects them. `MgrInv` says that a lease is in the table, being completed,
or recycled, never two of them and never by two callers; `RecycledOnce` and, with `PoolInv`,
`LeaseOwnership` follow. `LeasesNotLost` proves `NoLeakedSentry`; its exception, a timer that ran out before
the lease was in the table, does not happen if no timer fires that early (`NoLostExpiry`, of the steps
`TimelyNext`). `OwnSandbox` proves `ForeignOnlyIfExpired`: while a Run is under way only its lease's timer can have
completed the lease (`OwnRunInv`).

`MgrImplementsLease` is the refinement. For each action a lemma says how the mapped state
changes (`leaseOf`, `leasedSandbox`, `usedSandboxes`, `daemonPhase`), and which step of `Lease`
that is, or none. The guards of the abstract steps are where the invariants come in: that a
sandbox to be leased is not used is `FreshKernel`, that a used one is renewed only after its
lease is `MgrInv`, that a closing pool is preceded by a closing lease table is `TableFirst`.
`MgrLeasesExclusive` carries the theorem of `LeaseProofs` over to the manager by `INSTANCE`.

**Lease** (`LeaseProofs`). `LeasesExclusive` proves `Exclusive` of the abstract specification,
for any sets of requests and sandboxes and from no assumption: with the types it is inductive.

**Spawn** (`SpawnProofs`). `Complete` proves `LiveIsComplete`, `BoxesOwned` proves
`SandboxOwned`, for every combination of the switches. The step a goroutine is at says which
resources its sentry has and how far the bundle is edited (`progress`, `ProgressInv`); the order
of the steps is a lemma of its own, by cases on the switches (`StepOrder`); IDs of jobs and
pooled sentries are distinct (`IdInv`), so that an error path gives back only what is its own;
in the first life a sandbox process belongs to a pooled sentry, to a spawn that has made
it or to a cleanup that has still to kill it, or it is one that runsc failed to delete before its PID was known
(`BoxInv`; `PidInv` says from which step on the PID is). `Inherited` proves `NothingInherited` for any number of
restarts: an ID that met a left-over namespace or container is still drawn later in the life, or is held by a
spawn that cannot get past the step that refuses it (`OldInv`). `NothingLeft` is what is true of
`NoLeftovers`, the property that `spawn_partial` finds violated: where cleanups succeed it holds
of every kind of resource, if spawns do not fail or if there are neither networks nor cgroups, so
that what `cleanupPartial` does not give back (`Lasting`) is the only cause. Its invariant
`OwnedInv` extends `BoxInv` to all kinds, and needs that a spawn never makes what is already
there (`NoConflict`).

**Runsc** (`RunscProofs`). `Target` proves that verb and ID of every command are the call's own,
for any number of concurrent calls on the shared slice and any flags; `Command` that the whole
command is, if `--warm-sentry` is not among the flags (the run `runsc_warm` shows what happens if
it is). The invariant says what each array holds at each index: the flags, a root of some call
(only the own one if there is no spare capacity), the call's own arguments behind it (`ArrayInv`,
`CallInv`). `Target` has the hypothesis `FewDropped`, that the filter drops at most two flags:
with three dropped the arguments, too, fit into the shared array, and the theorem would be false.
That the filter never lengthens the list, and keeps its length if nothing is dropped, is an
induction over the loop (`FilterLoop`, `FilterLength`).

**Server** (`ServerProofs`). `CleanExit`, `PoolsBeforeStop` and `OneLateHandler`, for any number
of connections and drains. `OrderInv` ties the phases of the main goroutine, of `Stop` and of
the shutdown to listener, wait group and accept loop; that one handler at most is late is
because the accept loop holds at most one connection when the listener is closed. `StopWakes`:
`Stop` sleeps in `wg.Wait` only while a handler runs.

**Harness** (`HarnessProofs`). `OutputComplete`, `KillReported` and `GroupDead`, for any number
of requests, any output, pipe size and limits. `CountInv` bounds what is read by what was
written and by the limit; `OrderInv` says that a stream the handler is past is `settled` (at its
limit, or read to the end with no writer left), and that without an address the harness answers nothing; `DeadlineInv` that only the deadline kills a
child, that the answer then says so, and that a timeout leaves no process of the group.

**Startup** (`StartupProofs`). `Limited` proves `LimitsInForce` for any files, classes and
history of earlier lives: the loop of `EnsureSlices` is the induction, and `InForce(n)` says
that each of the first `n` classes has a slice with the limits of the last of them with its
name. `SameSubnet` proves `OneSubnet`: a bridge file that a pool was started from is there, so `EnsureConfig`
never writes it again (`NetInv`). `OnePoolPerEntry` and `DistinctIds` prove
`PoolPerEntry` and `IdsDistinct` from facts about names: a text splits in one way at a separator
that does not occur behind it (`SplitUnique`), so workload keys and sentry IDs determine their
parts (`KeyUnique`, `IdParts`).

`Confined` proves `CheckpointConfined` for paths and directories of any length. What
`ValidateCheckpointPath` compares are strings, what is meant are segments. `Abs` leaves segments
that are not empty and have no slash (`AbsType`); `text` puts a slash before each, so that the
text of a path with a directory's text and a slash in front agrees with the directory segment by
segment: where two texts agree up to the next slash of each, the segments there are the same
(`SameSegment`, `SegmentsOfPrefix`, `SameTexts`, `TextPrefix`). The root is the exception the property states: its text with a slash is `//`,
with which no text begins.

**Induction over data.** The library's induction principles take an operator and cannot be
used here. `NumbersInduction` (in `RunscProofs` and `StartupProofs`) states induction for a set
of numbers instead, and follows from the minimum principle `WFMin` of `WellFoundedInduction`. Loops are written as recursive
functions on `0 .. Len`; that such a function exists and satisfies its equation is proved by the
same induction (`AbsSteps`, `TextJoins`, `FilterLoop`).

**Only model-checked.** Liveness (`Answered`, `RunReturns`, `DrainEnds`, `LeasesEndAndRenew`,
`QueuedAnswered`, `ShutdownEnds`): fairness is out of the prover's reach. `WaitWakes`,
`StopWakes`, `Wakeups`, `NotStranded` and `Deficit` are the parts of it that are safety: nobody
sleeps with nobody left to wake it. The properties of the four runs that expect a violation are
false; `NotStranded`, `QuietShutdown`, `NothingLeft` and `Command` prove each of them under the
condition that the run violates.

## Not modelled

- The client command line: one request and no state.
- Of the configuration: the syntax of JSON and durations, the health limits (age, memory and
  descriptors come out either way in `Pool`), the value of `lease_timeout` (an armed timer may fire at any moment).
- Of the daemon: flags, logging, the PID file (which a failing start leaves behind).
- Of `runsc exec`: the output it returns, which is dropped if the code exits with an error.
- Of the harness: environment, interpreter and text of the script.
- Of the runsc client: temporary files, the text of outputs; `CleanFilestores`, whose effect on
  running sandboxes of the same rootfs depends on runsc.
- Of the server: the checks of parameters, which answer without a change of state; socket modes.
- Several pools at work at once: pools share only the lease table and the host. Their start in turn
  is in `Startup`; `Manager.Shutdown` visits one after the other.

## Plan

Done in this order: `Pool`, its runs and proofs; `Manager` on top of it; `Spawn`; `Runsc`; `Server`;
`Lease` and the refinement; `Harness`; `Config` and `Startup`; then the proofs of the safety properties of
all of them. What is left:

1. Action properties on top of the invariants: what a step may never undo (a lease that is over,
   a child that was killed, a slice in force).
2. The weakest hypotheses: `NotStranded` with failing commands, for a pool whose refills succeed;
   `NothingLeft` beyond the first life.
3. Shorter proofs where lemmas of `PoolProofs` and `ManagerProofs` repeat an argument.
