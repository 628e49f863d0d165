-------------------------------- MODULE Pool --------------------------------
(***************************************************************************)
(* One workload pool of gvisord (internal/pool/pool.go, type Pool): the    *)
(* goroutines that acquire, release and recycle its sentries, the idle     *)
(* reaper and Shutdown.                                                    *)
(*                                                                         *)
(* Each step is one critical section of p.mu or s.mu, together with the    *)
(* unlocked work next to it that touches only the goroutine's own sentry.  *)
(* The cond's notify list is the set of requests at "waiting".             *)
(***************************************************************************)
EXTENDS Integers, FiniteSets

CONSTANTS
  Requests,      \* execute / run calls; each is one goroutine and one lease ID
  MaxSpawns,     \* bound: successful spawns in a behaviour
  PoolSize,      \* workload.PoolSize
  MaxPending,    \* workload.MaxPending
  PreRestore,    \* workload.PreRestore
  Warm,          \* runtime.WarmSentry()
  MaxRestores,   \* Limits.MaxRestoresPerSentry
  IdleEviction,  \* Limits.IdleTimeout > 0
  RuntimeFails,  \* runsc operations may fail
  Checkpoints    \* what callers send as checkpoint, as isPathAllowed sees it

ASSUME PoolAssumption ==
  /\ IsFiniteSet(Requests)
  /\ PoolSize \in Nat \ {0} /\ MaxPending \in Int /\ MaxRestores \in Int
  /\ MaxSpawns \in Nat /\ PoolSize <= MaxSpawns
  /\ PreRestore \in BOOLEAN /\ Warm \in BOOLEAN
  /\ IdleEviction \in BOOLEAN /\ RuntimeFails \in BOOLEAN
  /\ Checkpoints \subseteq {"absent", "allowed", "forbidden"}

\* Sentry IDs, in the order in which their spawns return; 0 is no sentry.
SentryIds == 1 .. MaxSpawns
None == 0

VARIABLES
  sentries,  \* p.sentries, as a set of IDs
  sstate,    \* Sentry.State
  restores,  \* Sentry.Restores
  stale,     \* sentries whose LastUsed is more than IdleTimeout ago
  box,       \* the sandbox behind a sentry, on the host
  pending,   \* p.pending
  pc,        \* control point of a request in Pool.Execute
  held,      \* the local variable s of a request (and of its recycle)
  rpc,       \* control point of the recycle of a request's lease
  needed,    \* iterations left in that recycle's refill
  reaper,    \* control point of the reaper
  evict,     \* sentries the reaper took out and has not cleaned up yet
  sd,        \* control point of Shutdown
  doomed     \* sentries Shutdown copied and has not cleaned up yet

requestVars == <<pending, pc, held>>
sentryVars  == <<sentries, sstate, restores, stale, box>>
recycleVars == <<rpc, needed>>
reaperVars  == <<reaper, evict>>
stopVars    == <<sd, doomed>>
poolVars == <<requestVars, sentryVars, recycleVars, reaperVars, stopVars>>

-----------------------------------------------------------------------------
(* State *)

\* The sandbox of an ID: not spawned yet; created or reset, with no
\* checkpoint loaded; a checkpoint loaded and nothing run since; handed to a
\* caller, who may have run anything; deleted.
Box == {"none", "created", "restored", "used", "gone"}

State == {"ready", "running", "draining"}

\* Types; the counters among them: a refill (recycle, refill) never counts
\* below zero, and every control point is one of the goroutine's.
PoolTypeOK ==
  /\ sentries \subseteq SentryIds
  /\ sstate   \in [SentryIds -> State]
  /\ restores \in [SentryIds -> Nat]
  /\ stale    \subseteq SentryIds
  /\ box      \in [SentryIds -> Box]
  /\ pending  \in Int
  /\ pc       \in [Requests -> {"start", "spawning", "waiting", "woken",
                                "acquired", "signal", "register", "leased",
                                "refused"}]
  /\ held     \in [Requests -> SentryIds \cup {None}]
  /\ rpc      \in [Requests -> {"none", "start", "draining", "restore",
                                "signal", "remove", "replace", "refill",
                                "done"}]
  /\ needed   \in [Requests -> Nat]
  /\ reaper   \in {"off", "select", "cleaning", "exited"}
  /\ evict    \subseteq SentryIds
  /\ sd       \in {"none", "wait", "blocked", "woken", "sweep", "clean",
                   "done", "panic"}
  /\ doomed   \subseteq SentryIds

stopped == sd # "none"
closed  == sd \in {"clean", "done"}

maxPending == IF MaxPending <= 0 THEN PoolSize * 2 ELSE MaxPending

readySentries == {s \in sentries : sstate[s] = "ready"}

\* cond.Signal on the control points f: wakes one waiter, if there is one.
Signal(f) ==
  LET waiters == {w \in Requests : f[w] = "waiting"}
  IN  IF waiters = {} THEN {f} ELSE {[f EXCEPT ![w] = "woken"] : w \in waiters}

\* cond.Broadcast
Broadcast(f) == [w \in Requests |-> IF f[w] = "waiting" THEN "woken" ELSE f[w]]

\* What a spawn that succeeds leaves behind: stock runsc always restores,
\* warm sentry mode only under pre_restore.
spawnedBox == IF PreRestore \/ ~Warm THEN "restored" ELSE "created"

\* The ID of the next spawn to return.
nextID == {s \in SentryIds : box[s] = "none" /\ \A t \in 1 .. s - 1 : box[t] # "none"}

\* kill, delete and remove everything a sentry owns (idempotent).
cleanup(s) == box' = [box EXCEPT ![s] = "gone"]

\* runtime.Restore and runtime.Reset fail on a sandbox that was deleted.
mayFail(s) == RuntimeFails \/ box[s] = "gone"
maySucceed(s) == box[s] # "gone"

PoolInit ==
  /\ sentries = 1 .. PoolSize
  /\ sstate   = [s \in SentryIds |-> "ready"]
  /\ restores = [s \in SentryIds |-> 0]
  /\ stale    = {}
  /\ box      = [s \in SentryIds |-> IF s \in sentries THEN spawnedBox ELSE "none"]
  /\ pending  = 0
  /\ pc       = [r \in Requests |-> "start"]
  /\ held     = [r \in Requests |-> None]
  /\ rpc      = [r \in Requests |-> "none"]
  /\ needed   = [r \in Requests |-> 0]
  /\ reaper   = IF IdleEviction THEN "select" ELSE "off"
  /\ evict    = {}
  /\ sd       = "none"
  /\ doomed   = {}

-----------------------------------------------------------------------------
(* acquire *)

goto(r, l) == pc' = [pc EXCEPT ![r] = l]

\* findReadyLocked: mark one ready sentry running; LastUsed is now.
findReadyLocked(r) ==
  \E s \in readySentries :
    /\ sstate' = [sstate EXCEPT ![s] = "running"]
    /\ stale'  = stale \ {s}
    /\ held'   = [held EXCEPT ![r] = s]
    /\ goto(r, "acquired")
    /\ UNCHANGED <<sentries, restores, box>>

acquire(r) ==
  /\ pc[r] = "start"
  /\ \/ /\ closed
        /\ goto(r, "refused")
        /\ UNCHANGED <<pending, held, sentryVars>>
     \/ /\ ~closed
        /\ findReadyLocked(r)
        /\ UNCHANGED pending
     \/ /\ ~closed /\ sentries = {}
        /\ pending' = pending + 1
        /\ goto(r, "spawning")
        /\ UNCHANGED <<held, sentryVars>>
     \/ /\ ~closed /\ readySentries = {} /\ sentries # {}
        /\ pending >= maxPending
        /\ goto(r, "refused")
        /\ UNCHANGED <<pending, held, sentryVars>>
     \/ /\ ~closed /\ readySentries = {} /\ sentries # {}
        /\ pending < maxPending
        /\ pending' = pending + 1
        /\ goto(r, "waiting")
        /\ UNCHANGED <<held, sentryVars>>
  /\ UNCHANGED <<recycleVars, reaperVars, stopVars>>

\* Mutant: a failed spawn returns without pending--.
acquireSpawnLeaksPending(r) ==
  /\ pc[r] = "spawning" /\ RuntimeFails
  /\ goto(r, "refused")
  /\ UNCHANGED <<pending, held, sentryVars, recycleVars, reaperVars, stopVars>>

\* Mutant: a cold spawn joins the pool without a look at p.closed.
acquireSpawnedUnchecked(r) ==
  /\ pc[r] = "spawning"
  /\ pending' = pending - 1
  /\ \E s \in nextID :
       /\ box'      = [box EXCEPT ![s] = spawnedBox]
       /\ sstate'   = [sstate EXCEPT ![s] = "running"]
       /\ sentries' = sentries \cup {s}
       /\ held'     = [held EXCEPT ![r] = s]
  /\ goto(r, "acquired")
  /\ UNCHANGED <<restores, stale, recycleVars, reaperVars, stopVars>>

\* The cold path: the on-demand spawn returns.
acquireSpawned(r) ==
  /\ pc[r] = "spawning"
  /\ pending' = pending - 1
  /\ \/ /\ RuntimeFails
        /\ goto(r, "refused")
        /\ UNCHANGED <<held, sentryVars>>
     \/ \E s \in nextID :
          /\ closed
          /\ cleanup(s)
          /\ goto(r, "refused")
          /\ UNCHANGED <<held, sentries, sstate, restores, stale>>
     \/ \E s \in nextID :
          /\ ~closed
          /\ box'      = [box EXCEPT ![s] = spawnedBox]
          /\ sstate'   = [sstate EXCEPT ![s] = "running"]
          /\ sentries' = sentries \cup {s}
          /\ held'     = [held EXCEPT ![r] = s]
          /\ goto(r, "acquired")
          /\ UNCHANGED <<restores, stale>>
  /\ UNCHANGED <<recycleVars, reaperVars, stopVars>>

\* cond.Wait returns.
acquireWoken(r) ==
  /\ pc[r] = "woken"
  /\ \/ /\ closed
        /\ pending' = pending - 1
        /\ goto(r, "refused")
        /\ UNCHANGED <<held, sentryVars>>
     \/ /\ ~closed
        /\ findReadyLocked(r)
        /\ pending' = pending - 1
     \/ /\ ~closed /\ readySentries = {}
        /\ goto(r, "waiting")
        /\ UNCHANGED <<pending, held, sentryVars>>
  /\ UNCHANGED <<recycleVars, reaperVars, stopVars>>

-----------------------------------------------------------------------------
(* Execute, after acquire *)

\* The caller's checkpoint parameter is refused: one is given although the pool
\* has loaded its own, or it is not under checkpoint_dirs.
rejects(ckpt) == ckpt # "absent" /\ (PreRestore \/ ckpt = "forbidden")

\* release, up to its signal.
releaseState(r) ==
  /\ sstate' = [sstate EXCEPT ![held[r]] = "ready"]
  /\ goto(r, "signal")

\* Mutant: the restore on demand is skipped.
ExecuteUnrestored(r) ==
  /\ pc[r] = "acquired"
  /\ \E ckpt \in Checkpoints :
       \/ rejects(ckpt) /\ releaseState(r)
       \/ ~rejects(ckpt) /\ goto(r, "register") /\ UNCHANGED sstate
  /\ UNCHANGED <<pending, held, sentries, restores, stale, box, recycleVars,
                 reaperVars, stopVars>>

Execute(r) ==
  /\ pc[r] = "acquired"
  /\ \E ckpt \in Checkpoints :
       \/ /\ rejects(ckpt)
          /\ releaseState(r)
          /\ UNCHANGED box
       \/ /\ ~rejects(ckpt) /\ PreRestore
          /\ goto(r, "register")
          /\ UNCHANGED <<sstate, box>>
       \/ /\ ~rejects(ckpt) /\ ~PreRestore /\ maySucceed(held[r])
          /\ box' = [box EXCEPT ![held[r]] = "restored"]
          /\ goto(r, "register")
          /\ UNCHANGED sstate
       \/ /\ ~rejects(ckpt) /\ ~PreRestore /\ mayFail(held[r])
          /\ releaseState(r)
          /\ UNCHANGED box
  /\ UNCHANGED <<pending, held, sentries, restores, stale, recycleVars,
                 reaperVars, stopVars>>

\* release, the signal under p.mu.
releaseSignal(r) ==
  /\ pc[r] = "signal"
  /\ pc' \in Signal([pc EXCEPT ![r] = "refused"])
  /\ UNCHANGED <<pending, held, sentryVars, recycleVars, reaperVars, stopVars>>

\* The lease is in the Manager's table and goes back to the caller, who may
\* now run code in the sandbox.
registerLease(r) ==
  /\ pc[r] = "register"
  /\ goto(r, "leased")
  /\ box' = [box EXCEPT ![held[r]] = IF @ = "gone" THEN "gone" ELSE "used"]
  /\ UNCHANGED <<pending, held, sentries, sstate, restores, stale, recycleVars,
                 reaperVars, stopVars>>

-----------------------------------------------------------------------------
(* recycle and refill *)

\* The recycleWg counter: recycles added and not done.
recycleWg == Cardinality({r \in Requests : rpc[r] \notin {"none", "done"}})

\* Mutant: recycle returns without recycleWg.Done.
recycleNotDone(r) ==
  /\ rpc' = [rpc EXCEPT ![r] = "done"]
  /\ UNCHANGED sd

\* recycleWg.Done: the last one releases a Shutdown blocked in Wait.
recycleDone(r) ==
  /\ rpc' = [rpc EXCEPT ![r] = "done"]
  /\ sd'  = IF sd = "blocked" /\ recycleWg = 1 THEN "woken" ELSE sd

rgoto(r, l) == rpc' = [rpc EXCEPT ![r] = l] /\ UNCHANGED sd

\* Manager.Complete, past the lease table: recycleWg.Add(1) and go.
recycleAdd(r) ==
  /\ pc[r] = "leased" /\ rpc[r] = "none"
  /\ rgoto(r, "start")
  /\ UNCHANGED <<requestVars, sentryVars, needed, reaperVars, doomed>>

\* Mutant: the sentry is ready again before it has been reset.
recycleStartReady(r) ==
  /\ rpc[r] = "start"
  /\ sstate' = [sstate EXCEPT ![held[r]] = "ready"]
  /\ rgoto(r, "draining")
  /\ UNCHANGED <<requestVars, sentries, restores, stale, box, needed,
                 reaperVars, doomed>>

recycleStart(r) ==
  /\ rpc[r] = "start"
  /\ sstate' = [sstate EXCEPT ![held[r]] = "draining"]
  /\ rgoto(r, "draining")
  /\ UNCHANGED <<requestVars, sentries, restores, stale, box, needed,
                 reaperVars, doomed>>

\* HealthCheck: the restore count against its limit, and the measurements
\* (age, RSS, open files), which may come out either way.
healthy(s) == {h \in BOOLEAN : h => restores[s] + 1 < MaxRestores}

\* SIGTERM, wait, SIGKILL; then Reset and HealthCheck in warm sentry mode.
recycleReset(r) ==
  /\ rpc[r] = "draining"
  /\ \/ /\ Warm /\ maySucceed(held[r])
        /\ box'      = [box EXCEPT ![held[r]] = "created"]
        /\ restores' = [restores EXCEPT ![held[r]] = @ + 1]
        /\ \E h \in healthy(held[r]) :
             rgoto(r, IF h THEN "restore" ELSE "remove")
     \/ /\ ~Warm \/ mayFail(held[r])
        /\ rgoto(r, "remove")
        /\ UNCHANGED <<box, restores>>
  /\ UNCHANGED <<requestVars, sentries, sstate, stale, needed, reaperVars, doomed>>

\* Mutant: the error of Restore is logged and the sentry still made ready.
recycleRestoreIgnoresError(r) ==
  /\ rpc[r] = "restore"
  /\ \/ maySucceed(held[r]) /\ box' = [box EXCEPT ![held[r]] = "restored"]
     \/ mayFail(held[r]) /\ UNCHANGED box
  /\ sstate' = [sstate EXCEPT ![held[r]] = "ready"]
  /\ rgoto(r, "signal")
  /\ UNCHANGED <<requestVars, sentries, restores, stale, needed, reaperVars, doomed>>

\* Restore from the pool's checkpoint; LastUsed is left as it was.
recycleRestore(r) ==
  /\ rpc[r] = "restore"
  /\ \/ /\ maySucceed(held[r])
        /\ box'    = [box EXCEPT ![held[r]] = "restored"]
        /\ sstate' = [sstate EXCEPT ![held[r]] = "ready"]
        /\ rgoto(r, "signal")
     \/ /\ mayFail(held[r])
        /\ rgoto(r, "remove")
        /\ UNCHANGED <<box, sstate>>
  /\ UNCHANGED <<requestVars, sentries, restores, stale, needed, reaperVars, doomed>>

\* Mutant: the warm recycle without cond.Signal.
recycleSilent(r) ==
  /\ rpc[r] = "signal"
  /\ recycleDone(r)
  /\ UNCHANGED <<requestVars, sentryVars, needed, reaperVars, doomed>>

recycleSignal(r) ==
  /\ rpc[r] = "signal"
  /\ pc' \in Signal(pc)
  /\ recycleDone(r)
  /\ UNCHANGED <<pending, held, sentryVars, needed, reaperVars, doomed>>

\* Mutant: remove finds no entry and the sentry stays in the list.
recycleRemoveMisses(r) ==
  /\ rpc[r] = "remove"
  /\ rgoto(r, "replace")
  /\ UNCHANGED <<requestVars, sentryVars, needed, reaperVars, doomed>>

recycleRemove(r) ==
  /\ rpc[r] = "remove"
  /\ sentries' = sentries \ {held[r]}
  /\ rgoto(r, "replace")
  /\ UNCHANGED <<requestVars, sstate, restores, stale, box, needed, reaperVars, doomed>>

\* Mutant: the removed sentry is not cleaned up.
recycleReplaceNoCleanup(r) ==
  /\ rpc[r] = "replace"
  /\ recycleDone(r)
  /\ UNCHANGED <<requestVars, sentryVars, needed, reaperVars, doomed>>

\* Mutant: the missing sentries were counted before the remove.
recycleReplaceCountsEarly(r) ==
  /\ rpc[r] = "replace"
  /\ cleanup(held[r])
  /\ LET missing == PoolSize - Cardinality(sentries \cup {held[r]})
     IN  \/ /\ missing > 0
            /\ needed' = [needed EXCEPT ![r] = missing]
            /\ rgoto(r, "refill")
         \/ /\ missing <= 0
            /\ recycleDone(r)
            /\ UNCHANGED needed
  /\ UNCHANGED <<requestVars, sentries, sstate, restores, stale, reaperVars, doomed>>

\* cleanup, then refill counts what is missing.
recycleReplace(r) ==
  /\ rpc[r] = "replace"
  /\ cleanup(held[r])
  /\ LET missing == PoolSize - Cardinality(sentries)
     IN  \/ /\ missing > 0
            /\ needed' = [needed EXCEPT ![r] = missing]
            /\ rgoto(r, "refill")
         \/ /\ missing <= 0
            /\ recycleDone(r)
            /\ UNCHANGED needed
  /\ UNCHANGED <<requestVars, sentries, sstate, restores, stale, reaperVars, doomed>>

\* One iteration of refill.
refillNext(r) ==
  /\ needed' = [needed EXCEPT ![r] = @ - 1]
  /\ IF needed[r] = 1 THEN recycleDone(r) ELSE rgoto(r, "refill")

\* Mutant: a replacement joins the pool without cond.Signal.
refillSilent(r) ==
  /\ rpc[r] = "refill" /\ ~closed
  /\ \E s \in nextID :
       /\ box'      = [box EXCEPT ![s] = spawnedBox]
       /\ sentries' = sentries \cup {s}
  /\ refillNext(r)
  /\ UNCHANGED <<requestVars, sstate, restores, stale, reaperVars, doomed>>

refill(r) ==
  /\ rpc[r] = "refill"
  /\ \/ /\ RuntimeFails
        /\ refillNext(r)
        /\ UNCHANGED <<pc, sentryVars>>
     \/ \E s \in nextID :
          /\ closed
          /\ cleanup(s)
          /\ needed' = [needed EXCEPT ![r] = 0]
          /\ recycleDone(r)
          /\ UNCHANGED <<pc, sentries, sstate, restores, stale>>
     \/ \E s \in nextID :
          /\ ~closed
          /\ box'      = [box EXCEPT ![s] = spawnedBox]
          /\ sentries' = sentries \cup {s}
          /\ pc' \in Signal(pc)
          /\ refillNext(r)
          /\ UNCHANGED <<sstate, restores, stale>>
  /\ UNCHANGED <<pending, held, reaperVars, doomed>>

-----------------------------------------------------------------------------
(* The reaper *)

\* IdleTimeout passes since a sentry was last acquired.
Age(s) ==
  /\ reaper # "off"
  /\ box[s] \notin {"none", "gone"} /\ s \notin stale
  /\ stale' = stale \cup {s}
  /\ UNCHANGED <<requestVars, sentries, sstate, restores, box, recycleVars,
                 reaperVars, stopVars>>

\* Mutant: the reaper looks at LastUsed and not at State.
reaperTickAny ==
  /\ reaper = "select"
  /\ LET idle == sentries \cap stale
     IN  /\ idle # {}
         /\ evict'    = idle
         /\ sentries' = sentries \ idle
  /\ reaper' = "cleaning"
  /\ UNCHANGED <<requestVars, sstate, restores, stale, box, recycleVars, stopVars>>

\* A tick (select may still take one after stopCh is closed).
reaperTick ==
  /\ reaper = "select"
  /\ LET idle == readySentries \cap stale
     IN  /\ idle # {}
         /\ evict'    = idle
         /\ sentries' = sentries \ idle
  /\ reaper' = "cleaning"
  /\ UNCHANGED <<requestVars, sstate, restores, stale, box, recycleVars, stopVars>>

reaperCleanup(s) ==
  /\ reaper = "cleaning" /\ s \in evict
  /\ cleanup(s)
  /\ evict'  = evict \ {s}
  /\ reaper' = IF evict = {s} THEN "select" ELSE "cleaning"
  /\ UNCHANGED <<requestVars, sentries, sstate, restores, stale, recycleVars, stopVars>>

reaperStop ==
  /\ reaper = "select" /\ stopped
  /\ reaper' = "exited"
  /\ UNCHANGED <<requestVars, sentryVars, recycleVars, evict, stopVars>>

-----------------------------------------------------------------------------
(* Shutdown *)

sdgoto(l) ==
  /\ sd' = l
  /\ UNCHANGED <<requestVars, sentryVars, recycleVars, reaperVars, doomed>>

\* close(stopCh)
shutdownStop == sd = "none" /\ sdgoto("wait")

\* recycleWg.Wait: returns at once on zero, else blocks.
shutdownWait == sd = "wait" /\ sdgoto(IF recycleWg = 0 THEN "sweep" ELSE "blocked")

\* Wait wakes up; sync.WaitGroup panics if it has been reused meanwhile.
shutdownWoken == sd = "woken" /\ sdgoto(IF recycleWg = 0 THEN "sweep" ELSE "panic")

\* Mutant: Shutdown wakes nobody.
shutdownSweepSilent ==
  /\ sd = "sweep"
  /\ doomed'   = sentries
  /\ sentries' = {}
  /\ sd'       = IF sentries = {} THEN "done" ELSE "clean"
  /\ UNCHANGED <<requestVars, sstate, restores, stale, box, recycleVars, reaperVars>>

shutdownSweep ==
  /\ sd = "sweep"
  /\ doomed'   = sentries
  /\ sentries' = {}
  /\ pc'       = Broadcast(pc)
  /\ sd'       = IF sentries = {} THEN "done" ELSE "clean"
  /\ UNCHANGED <<pending, held, sstate, restores, stale, box, recycleVars, reaperVars>>

shutdownCleanup(s) ==
  /\ sd = "clean" /\ s \in doomed
  /\ cleanup(s)
  /\ doomed' = doomed \ {s}
  /\ sd'     = IF doomed = {s} THEN "done" ELSE "clean"
  /\ UNCHANGED <<requestVars, sentries, sstate, restores, stale, recycleVars, reaperVars>>

-----------------------------------------------------------------------------
(* Specification *)

\* Steps of a request's own goroutine, up to the lease.
requestStep(r) ==
  acquire(r) \/ acquireSpawned(r) \/ acquireWoken(r) \/ Execute(r) \/ releaseSignal(r)

\* Steps of a recycle goroutine once it is started.
recycleStep(r) ==
  \/ recycleStart(r) \/ recycleReset(r) \/ recycleRestore(r) \/ recycleSignal(r)
  \/ recycleRemove(r) \/ recycleReplace(r) \/ refill(r)

reaperStep == reaperTick \/ reaperStop \/ \E s \in SentryIds : reaperCleanup(s)

shutdownStep ==
  \/ shutdownWait \/ shutdownWoken \/ shutdownSweep
  \/ \E s \in SentryIds : shutdownCleanup(s)

\* A panic ends the process.
up == sd # "panic"

PoolNext ==
  /\ up
  /\ \/ \E r \in Requests :
          requestStep(r) \/ registerLease(r) \/ recycleAdd(r) \/ recycleStep(r)
     \/ \E s \in SentryIds : Age(s)
     \/ reaperStep
     \/ shutdownStop
     \/ shutdownStep

PoolSpec == PoolInit /\ [][PoolNext]_poolVars

-----------------------------------------------------------------------------
(* Properties *)

\* A request (or its recycle) that may use or change its sentry: from
\* acquire to the release, the return to "ready", or the cleanup.
Owns(r, s) ==
  /\ held[r] = s
  /\ \/ pc[r] \in {"acquired", "register"}
     \/ pc[r] = "leased" /\ rpc[r] \notin {"signal", "refill", "done"}

\* Acquiring, leasing and recycling never overlap on one sentry: at most one
\* request owns it, and no acquire can find it ready meanwhile
\* (findReadyLocked, release, recycle and the reaper race on Sentry.State).
ExclusiveSentry ==
  \A r \in Requests, s \in SentryIds : Owns(r, s) =>
    /\ sstate[s] # "ready"
    /\ s \notin evict
    /\ \A q \in Requests : Owns(q, s) => q = r

\* "Nothing survives between executions": no sentry that can be acquired,
\* has been acquired, or is being registered holds a sandbox somebody has
\* already used, and at the hand-over the sandbox holds a freshly restored
\* checkpoint. Only Shutdown takes a sandbox away from its request.
FreshKernel ==
  /\ \A s \in readySentries : box[s] \in {"created", "restored"}
  /\ \A r \in Requests :
       /\ pc[r] = "acquired" => box[held[r]] \in {"created", "restored", "gone"}
       /\ pc[r] = "register" => box[held[r]] \in {"restored", "gone"}
       /\ pc[r] \in {"acquired", "register"} /\ box[held[r]] = "gone" => closed

queued    == {r \in Requests : pc[r] \in {"waiting", "woken"}}
inAcquire == {r \in Requests : pc[r] \in {"waiting", "woken", "spawning"}}

\* p.pending counts exactly the callers inside acquire, on every path out of
\* it, and the queue proper never exceeds max_pending.
PendingExact ==
  /\ pending = Cardinality(inAcquire)
  /\ Cardinality(queued) <= maxPending

\* No lost wakeup: while somebody waits, every ready sentry in the pool is
\* matched by a waiter already woken or by a goroutine about to signal
\* (release and recycle set the state under s.mu and signal later).
signalling == {r \in Requests : pc[r] = "signal"} \cup {r \in Requests : rpc[r] = "signal"}

NoLostWakeup ==
  (\E r \in Requests : pc[r] = "waiting") /\ ~closed =>
    Cardinality(readySentries)
      <= Cardinality({r \in Requests : pc[r] = "woken"}) + Cardinality(signalling)

\* A closed pool is empty for good: no spawn that returns late, in refill or
\* on the cold path, puts a sentry into it, and nobody sleeps on its cond.
ClosedIsEmpty ==
  closed => sentries = {} /\ \A r \in Requests : pc[r] # "waiting"

\* Sandboxes a goroutine still has to deal with.
claimed ==
  sentries \cup evict \cup doomed
    \cup {s \in SentryIds : \E r \in Requests :
             held[r] = s /\ (rpc[r] = "replace")}

\* No sandbox is left on the host with no goroutine that will delete it:
\* each is in the pool, or on the list of the reaper, Shutdown or a recycle.
NoOrphan == \A s \in SentryIds : box[s] \notin {"none", "gone"} => s \in claimed

\* The state diagram of docs/design.md, across critical sections: a sandbox
\* that was handed out is never released to "ready" without draining, it
\* leaves draining only with a checkpoint restored into a reset kernel, and a
\* sentry that was evicted or swept is never acquired again.
StateDiagram ==
  [][ \A s \in SentryIds : box[s] # "none" =>
        /\ sstate[s] = "running" /\ sstate'[s] = "ready" => box[s] # "used"
        /\ sstate[s] = "draining" /\ sstate'[s] = "ready" => box'[s] = "restored"
        /\ sstate[s] = "ready" /\ sstate'[s] = "running" => s \in sentries
    ]_poolVars

\* While somebody waits on an open pool, somebody else is still on the way
\* to signal: a waiter already woken, a request inside Execute, a lease, or a
\* recycle that has not finished (acquire only spawns for newcomers).
NoStrandedWaiter ==
  (\E r \in Requests : pc[r] = "waiting") /\ ~closed =>
    \E r \in Requests :
      \/ pc[r] \in {"woken", "spawning", "acquired", "signal", "register"}
      \/ pc[r] = "leased" /\ rpc[r] # "done"

\* Concurrent refills count the missing sentries without a lock around their
\* spawns and may overshoot; they never leave a deficit. Without failures and
\* eviction an open pool has its pool_size sentries, or a recycle is still at
\* replacing what it removed (remove, cleanup, refill).
NoDeficit ==
  ~RuntimeFails /\ ~IdleEviction /\ ~closed =>
    \/ Cardinality(sentries) >= PoolSize
    \/ \E r \in Requests : rpc[r] \in {"replace", "refill"}

\* Shutdown waits for the recycles in flight: none runs once it sweeps, and
\* the Wait itself returns.
ShutdownWaits ==
  /\ sd # "panic"
  /\ sd \in {"clean", "done"} => recycleWg = 0

-----------------------------------------------------------------------------
(* The inductive invariant behind ExclusiveSentry, FreshKernel,            *)
(* ClosedIsEmpty, NoOrphan and StateDiagram                                *)

\* Control points fit together: whoever acquired a sentry holds one that was
\* spawned, only a lease is recycled, and a refill has something to do.
ControlInv ==
  \A r \in Requests :
    /\ pc[r] \in {"acquired", "signal", "register", "leased"} =>
         held[r] \in SentryIds /\ box[held[r]] # "none"
    /\ rpc[r] # "none" => pc[r] = "leased"
    /\ rpc[r] = "refill" => needed[r] > 0

\* Sentry.State follows its owner: running until the recycle has begun, then
\* draining until it is ready again or deleted.
StateInv ==
  \A r \in Requests :
    /\ pc[r] \in {"acquired", "register"} => sstate[held[r]] = "running"
    /\ pc[r] = "leased" /\ rpc[r] \in {"none", "start"} => sstate[held[r]] = "running"
    /\ rpc[r] \in {"draining", "restore", "remove", "replace"} =>
         sstate[held[r]] = "draining"

\* Lists of sentries: only spawned ones, none both in the pool and on the way
\* out, and one that somebody owns stays in the pool until its own recycle
\* removes it or Shutdown sweeps it.
ListInv ==
  /\ \A s \in sentries \cup evict \cup doomed : box[s] # "none"
  /\ evict \cap sentries = {}
  /\ evict # {} => reaper = "cleaning"
  /\ doomed # {} => closed
  /\ \A r \in Requests : rpc[r] = "replace" => held[r] \notin sentries
  /\ \A r \in Requests, s \in SentryIds :
       Owns(r, s) /\ rpc[r] # "replace" => s \in sentries \/ closed

\* The sandbox of a sentry that may be handed out next.
handOut == IF PreRestore THEN {"restored"} ELSE {"created", "restored"}

FreshInv ==
  /\ \A s \in readySentries : box[s] \in handOut
  /\ \A r \in Requests :
       /\ pc[r] = "acquired" => box[held[r]] \in handOut \cup {"gone"}
       /\ pc[r] = "register" => box[held[r]] \in {"restored", "gone"}
       /\ pc[r] \in {"acquired", "register"} /\ box[held[r]] = "gone" => closed

\* The parts hold together as one induction: exclusive ownership keeps the
\* sandbox of an acquired sentry out of everybody else's reach, freshness
\* keeps a deleted sandbox out of the pool, and the lists keep the reaper and
\* Shutdown away from sentries somebody owns (findReadyLocked, release,
\* recycle, reaper and Shutdown share Sentry.State and p.sentries).
PoolInv ==
  /\ PoolTypeOK
  /\ ControlInv
  /\ StateInv
  /\ ListInv
  /\ ExclusiveSentry
  /\ FreshInv
  /\ ClosedIsEmpty
  /\ NoOrphan

=============================================================================
