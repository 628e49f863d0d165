---------------------------- MODULE ManagerProofs ----------------------------
(***************************************************************************)
(* Theorems about Manager. The manager only adds control to its pool, so   *)
(* what holds of Pool holds of it; on top of that, each lease is completed *)
(* once, owns its sentry, and is not lost; Run's code stays in its own     *)
(* sandbox; and the manager implements Lease.                              *)
(***************************************************************************)
EXTENDS Manager, PoolProofs

USE PoolAssumption, ManagerAssumption
USE DEF requestVars, sentryVars, recycleVars, reaperVars, stopVars

-----------------------------------------------------------------------------
(* The manager implements its pool *)

\* Every step of the manager is a step of the pool or leaves the pool alone.
LEMMA MgrStep == ASSUME MgrNext PROVE PoolNext \/ UNCHANGED poolVars
<1>1. CASE poolStep
  BY <1>1 DEF MgrNext, poolStep, PoolNext
<1>2. ASSUME NEW r \in Requests, leaseStep(r) PROVE PoolNext \/ UNCHANGED poolVars
  BY <1>2 DEF MgrNext, PoolNext, leaseStep, armTimer, insertLease, completeTimer, completeAdd
<1>3. ASSUME NEW r \in Requests, timerFire(r) \/ completeClient(r) \/ runStep(r)
      PROVE  UNCHANGED poolVars
  BY <1>3 DEF timerFire, completeClient, runStep, runLookup, callHarness, harnessReturns,
              runComplete
<1>4. CASE clearLeases \/ poolShutdown
  BY <1>4 DEF MgrNext, PoolNext, clearLeases, poolShutdown
<1> QED  BY <1>1, <1>2, <1>3, <1>4 DEF MgrNext

\* Leases, timers, Run and Manager.Shutdown make the pool do nothing that
\* Pool does not describe.
THEOREM MgrImplementsPool == MgrSpec => PoolSpec
<1>1. MgrInit => PoolInit
  BY DEF MgrInit
<1>2. [MgrNext]_vars => [PoolNext]_poolVars
  BY MgrStep DEF vars
<1> QED  BY <1>1, <1>2, PTL DEF MgrSpec, PoolSpec

\* The invariant of the pool holds under the manager.
COROLLARY MgrPoolInvariant == MgrSpec => []PoolInv
BY MgrImplementsPool, PoolInvariant, PTL

\* So does what PoolProofs shows of it, with leases that timers, clients, Run
\* and Shutdown end: one owner to a sentry, a fresh kernel at every hand-over,
\* no sandbox without a goroutine that will delete it, pending counted exactly,
\* no lost wakeup, and a Shutdown that sleeps only while a recycle runs.
PoolPromises ==
  /\ ExclusiveSentry /\ FreshKernel /\ ClosedIsEmpty /\ NoOrphan
  /\ PendingExact /\ NoLostWakeup /\ NoDeficit
  /\ WaitsForSome /\ LeftToOthers

\* A pool keeps its promises under the manager.
THEOREM MgrPoolPromises == MgrSpec => []PoolPromises
BY MgrImplementsPool, Exclusive, Fresh, Closed, Orphans, Pending, Wakeups, Deficit, WaitWakes,
   ShutdownLeaves, PTL DEF PoolPromises

-----------------------------------------------------------------------------
(* Leases *)

\* No lease exists when the manager starts.
LEMMA MgrInitInv == MgrInit => MgrInv
BY DEF MgrInit, PoolInit, MgrInv, MgrTypeOK, OneRecycle, Callers

\* A pool step that leaves the manager alone grants no lease, and starts and
\* forgets no recycle.
LEMMA PoolStepKeeps ==
  ASSUME PoolInv, poolStep
  PROVE  \A r \in Requests :
           /\ pc[r] = "leased" <=> pc'[r] = "leased"
           /\ rpc[r] = "none" <=> rpc'[r] = "none"
<1>1. \A r \in Requests : pc[r] = "leased" <=> pc'[r] = "leased"
  BY DEF PoolInv, PoolTypeOK, poolStep, requestStep, recycleStep, reaperStep, shutdownStep,
         acquire, acquireSpawned, acquireWoken, findReadyLocked, Execute, releaseState,
         releaseSignal, goto, Signal, Broadcast, recycleStart, recycleReset, recycleRestore,
         recycleSignal, recycleRemove, recycleReplace, refill, Age, reaperTick,
         reaperCleanup, reaperStop, shutdownWait, shutdownWoken, shutdownSweep,
         shutdownCleanup, sdgoto
<1>2. \A r \in Requests : rpc[r] = "none" <=> rpc'[r] = "none"
  <2>1. ASSUME NEW r \in Requests, recycleStep(r)
        PROVE  rpc[r] # "none" /\ \E l \in {"draining", "restore", "signal", "remove",
                                           "replace", "refill", "done"} :
                                     rpc' = [rpc EXCEPT ![r] = l]
    BY <2>1 DEF recycleStep, recycleStart, recycleReset, recycleRestore, recycleSignal,
                recycleRemove, recycleReplace, refill, refillNext, recycleDone, rgoto
  <2>2. CASE rpc' = rpc
    BY <2>2
  <2>3. rpc' = rpc \/ \E r \in Requests : recycleStep(r)
    BY DEF poolStep, requestStep, reaperStep, shutdownStep, acquire, acquireSpawned,
           acquireWoken, Execute, releaseSignal, Age, reaperTick, reaperCleanup, reaperStop,
           shutdownWait, shutdownWoken, shutdownSweep, shutdownCleanup, sdgoto
  <2> QED  BY <2>1, <2>2, <2>3 DEF PoolInv, PoolTypeOK
<1> QED  BY <1>1, <1>2

\* Nor does it take a request out of "register", or bring one there that was
\* not in Execute.
LEMMA PoolRegister ==
  ASSUME PoolInv, poolStep
  PROVE  \A r \in Requests :
           /\ pc[r] = "register" => pc'[r] = "register"
           /\ pc'[r] = "register" => pc[r] \in {"register", "acquired"}
BY DEF PoolInv, PoolTypeOK, poolStep, requestStep, recycleStep, reaperStep, shutdownStep,
         acquire, acquireSpawned, acquireWoken, findReadyLocked, Execute, releaseState,
         releaseSignal, goto, Signal, Broadcast, recycleStart, recycleReset, recycleRestore,
         recycleSignal, recycleRemove, recycleReplace, refill, Age, reaperTick,
         reaperCleanup, reaperStop, shutdownWait, shutdownWoken, shutdownSweep,
         shutdownCleanup, sdgoto

\* So it keeps the invariant of the lease table.
LEMMA MgrPoolStep ==
  ASSUME PoolInv, MgrInv, poolStep PROVE MgrInv'
<1>1. UNCHANGED mgrVars
  BY DEF poolStep
<1> QED  BY <1>1, PoolRegister, PoolStepKeeps DEF MgrInv, MgrTypeOK, OneRecycle, mgrVars

\* registerLease arms a timer for a request that has none, and puts it into
\* the table once.
LEMMA RegisterInv ==
  ASSUME PoolInv, MgrInv, NEW r \in Requests, armTimer(r) \/ insertLease(r)
  PROVE  MgrInv'
<1>1. CASE armTimer(r)
  BY <1>1 DEF PoolInv, PoolTypeOK, MgrInv, MgrTypeOK, OneRecycle, armTimer,
              poolVars
<1>2. CASE insertLease(r)
  <2>1. rpc[r] = "none" /\ completing[r] = {}
    BY <1>2 DEF PoolInv, ControlInv, MgrInv, OneRecycle, insertLease,
                registerLease
  <2> QED  BY <1>2, <2>1 DEF PoolInv, PoolTypeOK, MgrInv, MgrTypeOK, OneRecycle,
              insertLease, registerLease, goto
<1> QED  BY <1>1, <1>2

\* A timer that fires does not touch the table yet.
LEMMA TimerFireInv ==
  ASSUME PoolInv, MgrInv, NEW r \in Requests, timerFire(r) PROVE MgrInv'
BY DEF PoolInv, PoolTypeOK, ControlInv, MgrInv, MgrTypeOK, OneRecycle,
       timerFire, poolVars

\* Complete takes the lease out of the table before it starts the recycle, so
\* that only one caller gets that far.
LEMMA CompleteInv ==
  ASSUME PoolInv, MgrInv, NEW r \in Requests,
         completeClient(r) \/ completeTimer(r) \/ runComplete(r)
  PROVE  MgrInv'
<1>1. UNCHANGED poolVars
  BY DEF completeClient, completeTimer, runComplete
<1>2. CASE UNCHANGED <<leases, completing>>
  BY <1>1, <1>2 DEF PoolInv, PoolTypeOK, MgrInv, MgrTypeOK, OneRecycle,
     completeClient, completeTimer, runComplete, deleteLease, stopTimer, poolVars
<1>3. ASSUME NEW c \in Callers, deleteLease(r, c) PROVE MgrInv'
  <2>1. /\ \A q \in Requests : q # r => timer'[q] = timer[q]
        /\ timer' \in [Requests -> {"none", "armed", "stopped", "fired", "ended"}]
        /\ run' \in [Requests -> {"idle", "call", "complete", "done"}]
        /\ UNCHANGED <<found, ran, msd>>
    BY DEF MgrInv, MgrTypeOK, completeClient, completeTimer, runComplete, stopTimer
  <2>2. completing[r] = {} /\ pc[r] = "leased" /\ rpc[r] = "none" /\ r \in leases
    BY <1>3 DEF MgrInv, deleteLease
  <2>3. completing'[r] = {c} /\ \A q \in Requests : q # r => completing'[q] = completing[q]
    BY <1>3, <2>2 DEF MgrInv, MgrTypeOK, deleteLease
  <2>4. OneRecycle'
    BY <1>1, <2>2, <2>3 DEF MgrInv, OneRecycle, poolVars
  <2>5. MgrTypeOK'
    BY <1>3, <2>1, ZenonT(60) DEF MgrInv, MgrTypeOK, deleteLease
  <2> QED  BY <1>1, <1>3, <2>1, <2>2, <2>3, <2>4, <2>5
              DEF MgrInv, deleteLease, poolVars
<1> QED  BY <1>2, <1>3 DEF completeClient, completeTimer, runComplete, Callers

\* The recycle starts, and its Complete is over.
LEMMA CompleteAddInv ==
  ASSUME PoolInv, MgrInv, NEW r \in Requests, NEW c \in Callers, completeAdd(r, c)
  PROVE  MgrInv'
<1>1. completing'[r] = {} /\ \A q \in Requests : q # r => completing'[q] = completing[q]
  BY DEF MgrInv, MgrTypeOK, OneRecycle, completeAdd
<1>2. r \notin leases
  BY DEF MgrInv, completeAdd
<1> QED  BY <1>1, <1>2 DEF PoolInv, PoolTypeOK, MgrInv, MgrTypeOK, OneRecycle,
            completeAdd, recycleAdd, rgoto

\* Run's lookup and its harness call change nothing about leases.
LEMMA RunInv ==
  ASSUME PoolInv, MgrInv, NEW r \in Requests,
         runLookup(r) \/ callHarness(r) \/ harnessReturns(r)
  PROVE  MgrInv'
<1>1. UNCHANGED <<poolVars, leases, timer, completing, msd>>
  BY DEF runLookup, callHarness, harnessReturns
<1>2. MgrTypeOK'
  BY <1>1 DEF MgrInv, MgrTypeOK, runLookup, callHarness, harnessReturns, sandboxOf
<1> QED  BY <1>1, <1>2 DEF MgrInv, OneRecycle, poolVars

\* Manager.Shutdown forgets the leases and stops their timers.
LEMMA ShutdownInv ==
  ASSUME PoolInv, MgrInv, clearLeases \/ poolShutdown PROVE MgrInv'
<1>1. CASE clearLeases
  BY <1>1 DEF MgrInv, MgrTypeOK, OneRecycle, clearLeases, stopTimer, poolVars
<1>2. CASE poolShutdown
  BY <1>2 DEF MgrInv, MgrTypeOK, OneRecycle, poolShutdown, shutdownStop,
              sdgoto, mgrVars
<1> QED  BY <1>1, <1>2

\* MgrInv is an invariant of the manager.
THEOREM MgrInvariant == MgrSpec => []MgrInv
<1>1. PoolInv /\ MgrInv /\ [MgrNext]_vars => MgrInv'
  <2> SUFFICES ASSUME PoolInv, MgrInv, [MgrNext]_vars PROVE MgrInv'
    OBVIOUS
  <2>1. CASE poolStep
    BY <2>1, MgrPoolStep
  <2>2. ASSUME NEW r \in Requests, leaseStep(r) PROVE MgrInv'
    BY <2>2, RegisterInv, CompleteInv, CompleteAddInv DEF leaseStep
  <2>3. ASSUME NEW r \in Requests, timerFire(r) \/ completeClient(r) PROVE MgrInv'
    BY <2>3, TimerFireInv, CompleteInv
  <2>4. ASSUME NEW r \in Requests, runStep(r) PROVE MgrInv'
    BY <2>4, RunInv, CompleteInv DEF runStep
  <2>5. CASE clearLeases \/ poolShutdown
    BY <2>5, ShutdownInv
  <2>6. CASE UNCHANGED vars
    BY <2>6 DEF vars, poolVars, mgrVars, MgrInv, MgrTypeOK, OneRecycle
  <2> QED  BY <2>1, <2>2, <2>3, <2>4, <2>5, <2>6 DEF MgrNext
<1> QED  BY <1>1, MgrInitInv, MgrPoolInvariant, PTL DEF MgrSpec

\* However the client, the timer and Shutdown race, a lease is recycled at
\* most once.
THEOREM RecycledOnce == MgrSpec => []OneRecycle
<1>1. MgrInv => OneRecycle
  BY DEF MgrInv
<1> QED  BY <1>1, MgrInvariant, PTL

\* A lease in the table owns its sentry.
THEOREM LeaseOwnership == MgrSpec => []LeaseOwnsSentry
<1>1. PoolInv /\ MgrInv => LeaseOwnsSentry
  <2> SUFFICES ASSUME PoolInv, MgrInv, NEW r \in leases
               PROVE  /\ sstate[held[r]] = "running" /\ rpc[r] = "none"
                      /\ held[r] \in sentries \/ closed
                      /\ \A q \in leases : held[q] = held[r] => q = r
                      /\ completing[r] = {}
    BY DEF LeaseOwnsSentry
  <2>1. r \in Requests /\ pc[r] = "leased" /\ rpc[r] = "none" /\ completing[r] = {}
    BY DEF MgrInv, MgrTypeOK
  <2>2. held[r] \in SentryIds /\ Owns(r, held[r])
    BY <2>1 DEF PoolInv, ControlInv, Owns
  <2>3. sstate[held[r]] = "running"
    BY <2>1 DEF PoolInv, StateInv
  <2>4. held[r] \in sentries \/ closed
    BY <2>1, <2>2 DEF PoolInv, ListInv
  <2>5. ASSUME NEW q \in leases, held[q] = held[r] PROVE q = r
    <3>1. q \in Requests /\ Owns(q, held[r])
      BY <2>5 DEF MgrInv, MgrTypeOK, Owns
    <3> QED  BY <2>1, <2>2, <3>1 DEF PoolInv, ExclusiveSentry
  <2> QED  BY <2>1, <2>3, <2>4, <2>5
<1> QED  BY <1>1, MgrPoolInvariant, MgrInvariant, PTL

\* No lease is lost: until Shutdown, its timer or a Complete will recycle the
\* sentry, unless the timer ran out before the lease was in the table.
THEOREM LeasesNotLost == MgrSpec => []NoLeakedSentry
<1>1. MgrInv => NoLeakedSentry
  BY DEF MgrInv, NoLeakedSentry, ExpiredUnregistered
<1> QED  BY <1>1, MgrInvariant, PTL

\* The timer of a lease that is not in the table yet has not run out, and that
\* of one that is has not completed it.
TimelyInv ==
  \A r \in Requests :
    /\ pc[r] = "register" => timer[r] \in {"none", "armed"}
    /\ ~ExpiredUnregistered(r)

\* That exception needs a lease_timeout that is over before registerLease is
\* through: if no timer fires that early, no expiry is ever lost.
THEOREM NoLostExpiry ==
  MgrInit /\ [][TimelyNext]_vars => [](\A r \in Requests : ~ExpiredUnregistered(r))
<1>1. MgrInit => TimelyInv
  BY DEF MgrInit, PoolInit, TimelyInv, ExpiredUnregistered
<1>2. PoolInv /\ MgrInv /\ TimelyInv /\ [TimelyNext]_vars => TimelyInv'
  <2> SUFFICES ASSUME PoolInv, MgrInv, TimelyInv, [TimelyNext]_vars PROVE TimelyInv'
    OBVIOUS
  <2>1. CASE poolStep
    <3>1. UNCHANGED mgrVars
      BY <2>1 DEF poolStep
    <3>2. \A r \in Requests : pc'[r] = "register" => pc[r] \in {"register", "acquired"}
      BY <2>1, PoolRegister
    <3> QED  BY <3>1, <3>2 DEF MgrInv, TimelyInv, ExpiredUnregistered, mgrVars
  <2>2. ASSUME NEW r \in Requests, armTimer(r) \/ insertLease(r) PROVE TimelyInv'
    BY <2>2 DEF armTimer, insertLease, registerLease, goto, TimelyInv, ExpiredUnregistered,
                MgrInv, MgrTypeOK, PoolInv, PoolTypeOK, poolVars
  <2>3. ASSUME NEW r \in Requests, timerFire(r), TimelyNext PROVE TimelyInv'
    <3>1. timer' = [timer EXCEPT ![r] = "fired"] /\ UNCHANGED <<pc, leases>>
      BY <2>3 DEF timerFire, poolVars, requestVars
    <3>2. pc[r] # "register"
      BY <2>3, <3>1 DEF TimelyNext, MgrInv, MgrTypeOK
    <3> QED  BY <3>1, <3>2 DEF TimelyInv, ExpiredUnregistered, MgrInv, MgrTypeOK
  <2>4. ASSUME NEW r \in Requests, completeClient(r) \/ completeTimer(r) \/ runComplete(r)
        PROVE  TimelyInv'
    BY <2>4 DEF completeClient, completeTimer, runComplete, deleteLease, stopTimer, TimelyInv,
                ExpiredUnregistered, MgrInv, MgrTypeOK, poolVars, requestVars
  <2>5. ASSUME NEW r \in Requests, NEW c \in Callers, completeAdd(r, c) PROVE TimelyInv'
    BY <2>5 DEF completeAdd, recycleAdd, rgoto, TimelyInv, ExpiredUnregistered, requestVars
  <2>6. ASSUME NEW r \in Requests, runLookup(r) \/ callHarness(r) \/ harnessReturns(r)
        PROVE  TimelyInv'
    BY <2>6 DEF runLookup, callHarness, harnessReturns, TimelyInv, ExpiredUnregistered, poolVars,
                requestVars
  <2>7. CASE clearLeases \/ poolShutdown
    BY <2>7 DEF clearLeases, stopTimer, poolShutdown, shutdownStop, sdgoto, TimelyInv,
                ExpiredUnregistered, MgrInv, MgrTypeOK, poolVars, requestVars, mgrVars
  <2>8. CASE UNCHANGED vars
    BY <2>8 DEF vars, poolVars, requestVars, mgrVars, TimelyInv, ExpiredUnregistered
  <2> QED  BY <2>1, <2>2, <2>3, <2>4, <2>5, <2>6, <2>7, <2>8 DEF TimelyNext, MgrNext, leaseStep, runStep
<1>3. [TimelyNext]_vars => [MgrNext]_vars
  BY DEF TimelyNext
<1>4. TimelyInv => \A r \in Requests : ~ExpiredUnregistered(r)
  BY DEF TimelyInv
<1> QED  BY <1>1, <1>2, <1>3, <1>4, MgrPoolInvariant, MgrInvariant, PTL DEF MgrSpec

-----------------------------------------------------------------------------
(* Run *)

\* While a Run call is under way only the timer of its lease can have completed
\* it: nobody outside knows its lease ID, and Run itself comes last.
OwnRunInv ==
  \A r \in Requests :
    /\ run[r] # "idle" => r \in Runs /\ pc[r] = "leased"
    /\ /\ r \in Runs /\ run[r] \in {"idle", "call"}
       /\ completing[r] # {} \/ rpc[r] # "none"
       => timer[r] = "ended"
    /\ ran[r] = "foreign" => timer[r] = "ended"

\* A pool step starts no recycle and answers no request twice.
LEMMA RunPoolStep ==
  ASSUME PoolInv, MgrInv, OwnRunInv, poolStep PROVE OwnRunInv'
<1>1. UNCHANGED mgrVars
  BY DEF poolStep
<1> QED  BY <1>1, PoolStepKeeps DEF OwnRunInv, mgrVars

\* The code of a Run call runs in the sandbox of its own lease, unless that
\* lease's timer has completed it before.
THEOREM OwnSandbox == MgrSpec => []ForeignOnlyIfExpired
<1>1. MgrInit => OwnRunInv
  BY DEF MgrInit, PoolInit, OwnRunInv
<1>2. PoolInv /\ MgrInv /\ OwnRunInv /\ [MgrNext]_vars => OwnRunInv'
  <2> SUFFICES ASSUME PoolInv, MgrInv, OwnRunInv, [MgrNext]_vars PROVE OwnRunInv'
    OBVIOUS
  <2>1. CASE poolStep
    BY <2>1, RunPoolStep
  <2>2. ASSUME NEW r \in Requests, armTimer(r) \/ insertLease(r) \/ timerFire(r)
        PROVE  OwnRunInv'
    BY <2>2 DEF armTimer, insertLease, registerLease, goto, timerFire, OwnRunInv, MgrInv,
                MgrTypeOK, PoolInv, PoolTypeOK, poolVars
  <2>3. ASSUME NEW r \in Requests, completeClient(r) \/ completeTimer(r) PROVE OwnRunInv'
    BY <2>3 DEF completeClient, completeTimer, deleteLease, stopTimer, OwnRunInv, MgrInv,
                MgrTypeOK, poolVars
  <2>4. ASSUME NEW r \in Requests, NEW c \in Callers, completeAdd(r, c) PROVE OwnRunInv'
    BY <2>4 DEF completeAdd, recycleAdd, rgoto, OwnRunInv, MgrInv, MgrTypeOK, PoolInv,
                PoolTypeOK
  <2>5. ASSUME NEW r \in Requests, runLookup(r) \/ harnessReturns(r) PROVE OwnRunInv'
    BY <2>5 DEF runLookup, harnessReturns, OwnRunInv, MgrInv, MgrTypeOK, poolVars
  <2>6. ASSUME NEW r \in Requests, callHarness(r) PROVE OwnRunInv'
    <3>1. run[r] = "call" /\ r \in Runs /\ pc[r] = "leased"
      BY <2>6 DEF callHarness, OwnRunInv
    <3>2. sandboxOf(r) = "foreign" => timer[r] = "ended"
      BY <3>1 DEF sandboxOf, Owns, OwnRunInv
    <3>3. /\ ran' \in [Requests -> {"nowhere", "own", "foreign"}]
          /\ ran'[r] = "foreign" => timer[r] = "ended"
          /\ run' \in [Requests -> {"idle", "call", "complete", "done"}]
          /\ \A q \in Requests : q # r => ran'[q] = ran[q] /\ run'[q] = run[q]
      BY <2>6, <3>2 DEF callHarness, MgrInv, MgrTypeOK, OwnRunInv, sandboxOf
    <3>4. UNCHANGED <<poolVars, leases, timer, completing, msd>>
      BY <2>6 DEF callHarness
    <3> QED  BY <3>1, <3>3, <3>4 DEF OwnRunInv, poolVars
  <2>7. ASSUME NEW r \in Requests, runComplete(r) PROVE OwnRunInv'
    BY <2>7 DEF runComplete, deleteLease, stopTimer, OwnRunInv, MgrInv, MgrTypeOK, poolVars
  <2>8. CASE clearLeases \/ poolShutdown
    BY <2>8 DEF clearLeases, stopTimer, poolShutdown, shutdownStop, sdgoto, OwnRunInv,
                MgrInv, MgrTypeOK, poolVars, mgrVars
  <2>9. CASE UNCHANGED vars
    BY <2>9 DEF vars, poolVars, mgrVars, OwnRunInv
  <2> QED  BY <2>1, <2>2, <2>3, <2>4, <2>5, <2>6, <2>7, <2>8, <2>9 DEF MgrNext, leaseStep, runStep
<1>3. OwnRunInv => ForeignOnlyIfExpired
  BY DEF OwnRunInv, ForeignOnlyIfExpired
<1> QED  BY <1>1, <1>2, <1>3, MgrPoolInvariant, MgrInvariant, PTL DEF MgrSpec

-----------------------------------------------------------------------------
(* The manager implements Lease *)

\* The pool is shut down after the lease table is cleared.
TableFirst == msd = "up" => sd = "none"

\* Manager.Shutdown clears the table before it stops the pool.
LEMMA MgrTableFirst == MgrSpec => []TableFirst
<1>1. MgrInit => TableFirst
  BY DEF MgrInit, PoolInit, TableFirst
<1>2. TableFirst /\ [MgrNext]_vars => TableFirst'
  <2> SUFFICES ASSUME TableFirst, [MgrNext]_vars, msd' = "up" PROVE sd' = "none"
    BY DEF TableFirst
  <2>1. CASE poolStep
    <3>1. msd = "up" /\ sd = "none"
      BY <2>1 DEF TableFirst, poolStep, mgrVars
    <3>2. ASSUME NEW r \in Requests, requestStep(r) PROVE sd' = "none"
      BY <3>1, <3>2 DEF requestStep, acquire, acquireSpawned, acquireWoken, Execute, releaseSignal
    <3>3. ASSUME NEW r \in Requests, recycleStep(r) PROVE sd' = "none"
      BY <3>1, <3>3 DEF recycleStep, recycleStart, recycleReset, recycleRestore, recycleSignal,
                recycleRemove, recycleReplace, refill, refillNext, recycleDone, rgoto
    <3>4. ASSUME reaperStep \/ \E s \in SentryIds : Age(s) PROVE sd' = "none"
      BY <3>1, <3>4 DEF reaperStep, reaperTick, reaperCleanup, reaperStop, Age
    <3>5. ~shutdownStep
      BY <3>1 DEF shutdownStep, shutdownWait, shutdownWoken, shutdownSweep, shutdownCleanup
    <3> QED  BY <2>1, <3>2, <3>3, <3>4, <3>5 DEF poolStep
  <2>2. ASSUME NEW r \in Requests,
               leaseStep(r) \/ timerFire(r) \/ completeClient(r) \/ runStep(r)
        PROVE  sd' = "none"
    BY <2>2 DEF TableFirst, leaseStep, armTimer, insertLease, registerLease, completeTimer,
                completeAdd, recycleAdd, rgoto, timerFire, completeClient, runStep, runLookup,
                callHarness, harnessReturns, runComplete, poolVars
  <2>3. CASE clearLeases \/ poolShutdown
    BY <2>3 DEF clearLeases, poolShutdown, mgrVars
  <2>4. CASE UNCHANGED vars
    BY <2>4 DEF TableFirst, vars, poolVars, mgrVars
  <2> QED  BY <2>1, <2>2, <2>3, <2>4 DEF MgrNext
<1> QED  BY <1>1, <1>2, PTL DEF MgrSpec

\* Everything the refinement uses about a state of the manager.
RefInv == PoolInv /\ MgrInv /\ TableFirst

\* A caller's view of a request depends on the table, on whether it has been
\* answered, and on the sentry of its answer.
LEMMA SameView ==
  ASSUME leases' = leases,
         \A q \in Requests :
           /\ pc[q] = "leased" <=> pc'[q] = "leased"
           /\ pc[q] = "refused" <=> pc'[q] = "refused"
           /\ pc[q] = "leased" => held'[q] = held[q]
  PROVE  UNCHANGED <<leaseOf, leasedSandbox>>
BY DEF leaseOf, leasedSandbox

\* An error of Execute is the abstract refusal.
LEMMA RefusedView ==
  ASSUME RefInv, up, NEW r \in Requests, leases' = leases,
         pc[r] \notin {"leased", "refused"}, pc'[r] = "refused",
         \A q \in Requests \ {r} :
           /\ pc[q] = "leased" <=> pc'[q] = "leased"
           /\ pc[q] = "refused" <=> pc'[q] = "refused",
         held' = held,
         UNCHANGED <<usedSandboxes, daemonPhase>>
  PROVE  Abstract!Next
<1>1. r \notin leases
  BY DEF RefInv, MgrInv
<1>2. leaseOf[r] = "none"
  BY <1>1 DEF leaseOf
<1>3. leaseOf' = [leaseOf EXCEPT ![r] = "refused"]
  <2>1. leaseOf'[r] = "refused"
    BY <1>1 DEF leaseOf
  <2>2. \A q \in Requests : q # r => leaseOf'[q] = leaseOf[q]
    BY DEF leaseOf
  <2> QED  BY <2>1, <2>2 DEF leaseOf
<1>4. UNCHANGED leasedSandbox
  BY DEF leasedSandbox
<1>5. daemonPhase # "panicked"
  BY DEF up, daemonPhase
<1> QED  BY <1>2, <1>3, <1>4, <1>5 DEF Abstract!Next, Abstract!Refuse

\* Without a panic the daemon's phase is that of the table.
LEMMA SamePhase ==
  ASSUME up, up', msd' = msd PROVE UNCHANGED daemonPhase
BY DEF up, daemonPhase

\* A spawn, or a restore into a sandbox nobody has used, uses none.
LEMMA SameUsed ==
  ASSUME RefInv, NEW s \in SentryIds, NEW b, b # "used", box[s] # "used",
         box' = [box EXCEPT ![s] = b]
  PROVE  UNCHANGED usedSandboxes
BY DEF RefInv, PoolInv, PoolTypeOK, usedSandboxes

\* A reset or a cleanup renews a used sandbox and does nothing to another. Its
\* sentry is in no lease, or Shutdown has voided the leases.
LEMMA RenewView ==
  ASSUME RefInv, up, NEW s \in SentryIds, NEW b, b # "used",
         box' = [box EXCEPT ![s] = b],
         msd = "up" => \A q \in leases : held[q] # s,
         UNCHANGED <<leaseOf, leasedSandbox, daemonPhase>>
  PROVE  Abstract!Next \/ UNCHANGED Abstract!vars
<1>1. CASE box[s] # "used"
  BY <1>1, SameUsed DEF Abstract!vars
<1>2. CASE box[s] = "used"
  <2>1. s \in usedSandboxes /\ usedSandboxes' = usedSandboxes \ {s}
    BY <1>2 DEF usedSandboxes, RefInv, PoolInv, PoolTypeOK
  <2>2. daemonPhase # "panicked" /\ (msd # "up" => daemonPhase = "closing")
    BY DEF daemonPhase, up
  <2>3. ASSUME msd = "up" PROVE ~Abstract!leaseOn(s)
    <3>1. \A q \in Requests : leaseOf[q] = "granted" => q \in leases
      BY DEF leaseOf
    <3>2. \A q \in leases : leasedSandbox[q] = held[q]
      BY DEF leasedSandbox, RefInv, MgrInv, MgrTypeOK
    <3> QED  BY <2>3, <3>1, <3>2 DEF Abstract!leaseOn
  <2> QED  BY <2>1, <2>2, <2>3 DEF Abstract!Next, Abstract!Renew
<1> QED  BY <1>1, <1>2

\* Execute, up to its lease or its error, shows a caller the error and nothing
\* else.
LEMMA RequestView ==
  ASSUME RefInv, up, NEW r \in Requests, requestStep(r), UNCHANGED mgrVars
  PROVE  Abstract!Next \/ UNCHANGED Abstract!vars
<1>1. leases' = leases /\ msd' = msd /\ sd' = sd
  BY DEF mgrVars, requestStep, acquire, acquireSpawned, acquireWoken, Execute, releaseSignal
<1>2. UNCHANGED daemonPhase
  BY <1>1 DEF daemonPhase
<1>3. UNCHANGED usedSandboxes
  <2>1. CASE box' = box
    BY <2>1 DEF usedSandboxes
  <2>2. ASSUME NEW s \in SentryIds, NEW b, b # "used", box[s] # "used",
               box' = [box EXCEPT ![s] = b]
        PROVE  UNCHANGED usedSandboxes
    BY <2>2, SameUsed
  <2>3. CASE acquireSpawned(r)
    BY <2>1, <2>2, <2>3 DEF acquireSpawned, nextID, cleanup, spawnedBox
  <2>4. CASE Execute(r)
    <3>1. held[r] \in SentryIds /\ box[held[r]] # "used"
      BY <2>4 DEF Execute, RefInv, PoolInv, ControlInv, FreshInv, handOut
    <3> QED  BY <2>1, <2>2, <2>4, <3>1 DEF Execute
  <2> QED  BY <2>1, <2>3, <2>4 DEF requestStep, acquire, findReadyLocked, acquireWoken,
              releaseSignal
<1>4. /\ pc[r] \notin {"leased", "refused"} /\ pc'[r] # "leased"
      /\ \A q \in Requests \ {r} :
           pc'[q] = pc[q] \/ (pc[q] = "waiting" /\ pc'[q] = "woken")
      /\ \A q \in Requests \ {r} : held'[q] = held[q]
      /\ pc'[r] = "refused" => held' = held
  <2>1. CASE acquire(r) \/ acquireSpawned(r) \/ acquireWoken(r)
    BY <2>1 DEF acquire, acquireSpawned, acquireWoken, findReadyLocked, goto, RefInv, PoolInv,
                PoolTypeOK
  <2>2. CASE Execute(r)
    BY <2>2 DEF Execute, releaseState, goto, RefInv, PoolInv, PoolTypeOK
  <2>3. CASE releaseSignal(r)
    BY <2>3 DEF releaseSignal, Signal, RefInv, PoolInv, PoolTypeOK
  <2> QED  BY <2>1, <2>2, <2>3 DEF requestStep
<1>5. CASE pc'[r] = "refused"
  BY <1>1, <1>2, <1>3, <1>4, <1>5, RefusedView
<1>6. CASE pc'[r] # "refused"
  <2>1. UNCHANGED <<leaseOf, leasedSandbox>>
    BY <1>1, <1>4, <1>6, SameView
  <2> QED  BY <1>2, <1>3, <2>1 DEF Abstract!vars
<1> QED  BY <1>5, <1>6

\* A recycle renews the sandbox of its lease, which is out of the table.
LEMMA RecycleView ==
  ASSUME RefInv, up, NEW r \in Requests, recycleStep(r), UNCHANGED mgrVars
  PROVE  Abstract!Next \/ UNCHANGED Abstract!vars
<1>1. leases' = leases /\ msd' = msd /\ up' /\ held' = held
  BY DEF mgrVars, up, recycleStep, recycleStart, recycleReset, recycleRestore, recycleSignal,
         recycleRemove, recycleReplace, refill, refillNext, recycleDone, rgoto
<1>2. UNCHANGED daemonPhase
  BY <1>1, SamePhase
<1>3. \A q \in Requests : pc'[q] = pc[q] \/ (pc[q] = "waiting" /\ pc'[q] = "woken")
  BY DEF recycleStep, recycleStart, recycleReset, recycleRestore, recycleSignal, recycleRemove,
         recycleReplace, refill, Signal, RefInv, PoolInv, PoolTypeOK
<1>4. UNCHANGED <<leaseOf, leasedSandbox>>
  BY <1>1, <1>3, SameView
<1>5. CASE box' = box
  BY <1>2, <1>4, <1>5 DEF usedSandboxes, Abstract!vars
<1>6. ASSUME NEW s \in nextID, NEW b, b # "used", box' = [box EXCEPT ![s] = b]
      PROVE  UNCHANGED Abstract!vars
  <2>1. s \in SentryIds /\ box[s] # "used"
    BY <1>6 DEF nextID
  <2> QED  BY <1>2, <1>4, <1>6, <2>1, SameUsed DEF Abstract!vars
<1>7. ASSUME rpc[r] \in {"draining", "restore", "replace"},
             NEW b, b # "used", box' = [box EXCEPT ![held[r]] = b]
      PROVE  Abstract!Next \/ UNCHANGED Abstract!vars
  <2>1. held[r] \in SentryIds /\ Owns(r, held[r]) /\ r \notin leases
    BY <1>7 DEF RefInv, PoolInv, ControlInv, MgrInv, Owns
  <2>2. \A q \in leases : held[q] # held[r]
    BY <2>1 DEF RefInv, PoolInv, ExclusiveSentry, Owns, MgrInv, MgrTypeOK
  <2> QED  BY <1>2, <1>4, <1>7, <2>1, <2>2, RenewView
<1>8. CASE recycleReset(r) \/ recycleRestore(r) \/ recycleReplace(r)
  BY <1>5, <1>7, <1>8 DEF recycleReset, recycleRestore, recycleReplace, cleanup
<1>9. CASE refill(r)
  BY <1>5, <1>6, <1>9 DEF refill, cleanup, spawnedBox
<1> QED  BY <1>5, <1>8, <1>9 DEF recycleStep, recycleStart, recycleSignal, recycleRemove

\* The reaper renews only sandboxes of sentries nobody owns.
LEMMA ReaperView ==
  ASSUME RefInv, up, reaperStep \/ (\E s \in SentryIds : Age(s)), UNCHANGED mgrVars
  PROVE  Abstract!Next \/ UNCHANGED Abstract!vars
<1>1. UNCHANGED <<leases, msd, sd, pc, held>>
  BY DEF mgrVars, reaperStep, reaperTick, reaperCleanup, reaperStop, Age
<1>2. UNCHANGED <<leaseOf, leasedSandbox, daemonPhase>>
  BY <1>1 DEF leaseOf, leasedSandbox, daemonPhase
<1>3. CASE box' = box
  BY <1>2, <1>3 DEF usedSandboxes, Abstract!vars
<1>4. ASSUME NEW s \in SentryIds, reaperCleanup(s)
      PROVE  Abstract!Next \/ UNCHANGED Abstract!vars
  <2>1. \A q \in leases : held[q] # s
    BY <1>4 DEF reaperCleanup, RefInv, PoolInv, ExclusiveSentry, Owns, MgrInv, MgrTypeOK
  <2> QED  BY <1>2, <1>4, <2>1, RenewView DEF reaperCleanup, cleanup
<1> QED  BY <1>3, <1>4 DEF reaperStep, reaperTick, reaperStop, Age

\* Pool.Shutdown renews sandboxes when all leases are void, or panics.
LEMMA ShutdownView ==
  ASSUME RefInv, up, shutdownStep, UNCHANGED mgrVars
  PROVE  Abstract!Next \/ UNCHANGED Abstract!vars
<1>1. UNCHANGED <<leases, msd, held>> /\ msd # "up"
  BY DEF mgrVars, RefInv, TableFirst, shutdownStep, shutdownWait, shutdownWoken, shutdownSweep,
         shutdownCleanup, sdgoto
<1>2. \A q \in Requests : pc'[q] = pc[q] \/ (pc[q] = "waiting" /\ pc'[q] = "woken")
  BY DEF shutdownStep, shutdownWait, shutdownWoken, shutdownSweep, shutdownCleanup, sdgoto,
         Broadcast
<1>3. UNCHANGED <<leaseOf, leasedSandbox>>
  BY <1>1, <1>2, SameView
<1>4. CASE up' /\ box' = box
  BY <1>1, <1>3, <1>4, SamePhase DEF usedSandboxes, Abstract!vars
<1>5. CASE ~up' /\ box' = box
  BY <1>1, <1>3, <1>5 DEF up, daemonPhase, usedSandboxes, Abstract!Next, Abstract!Panic
<1>6. ASSUME NEW s \in SentryIds, shutdownCleanup(s)
      PROVE  Abstract!Next \/ UNCHANGED Abstract!vars
  <2>1. UNCHANGED daemonPhase
    BY <1>1, <1>6, SamePhase DEF shutdownCleanup, up
  <2> QED  BY <1>1, <1>3, <1>6, <2>1, RenewView DEF shutdownCleanup, cleanup
<1> QED  BY <1>4, <1>5, <1>6 DEF shutdownStep, shutdownWait, shutdownWoken, shutdownSweep, sdgoto

\* registerLease grants the sandbox of a sentry that nobody has used and no
\* lease in the table is on. Only Shutdown may have deleted it before.
LEMMA InsertView ==
  ASSUME RefInv, up, NEW r \in Requests, insertLease(r)
  PROVE  Abstract!Next
<1> DEFINE s == held[r]
<1>1. /\ pc[r] = "register" /\ s \in SentryIds /\ Owns(r, s) /\ r \notin leases
      /\ box[s] \in {"restored", "gone"} /\ (box[s] = "gone" => closed)
  BY DEF insertLease, registerLease, RefInv, PoolInv, ControlInv, FreshInv, MgrInv, Owns
<1>2. leaseOf[r] = "none"
  BY <1>1 DEF leaseOf
<1>3. UNCHANGED daemonPhase /\ daemonPhase # "panicked"
  BY DEF insertLease, registerLease, daemonPhase, up
<1>4. pc' = [pc EXCEPT ![r] = "leased"] /\ leases' = leases \cup {r} /\ held' = held
  BY DEF insertLease, registerLease, goto
<1>5. leaseOf' = [leaseOf EXCEPT ![r] = "granted"]
  <2>1. pc'[r] = "leased" /\ \A q \in Requests : q # r => pc'[q] = pc[q]
    BY <1>4 DEF RefInv, PoolInv, PoolTypeOK
  <2>2. leaseOf'[r] = "granted"
    <3>1. r \in leases' /\ pc'[r] = "leased"
      BY <1>4, <2>1
    <3> QED  BY <3>1 DEF leaseOf
  <2>3. \A q \in Requests : q # r => leaseOf'[q] = leaseOf[q]
    BY <1>4, <2>1 DEF leaseOf
  <2> QED  BY <2>2, <2>3 DEF leaseOf
<1>6. leasedSandbox' = [leasedSandbox EXCEPT ![r] = s]
  BY <1>1, <1>4 DEF leasedSandbox, RefInv, PoolInv, PoolTypeOK
<1>7. ~Abstract!leaseOn(s)
  <2>1. \A q \in Requests : leaseOf[q] = "granted" => q \in leases
    BY DEF leaseOf
  <2>2. \A q \in leases : q \in Requests /\ leasedSandbox[q] = held[q] /\ Owns(q, held[q])
    BY DEF leasedSandbox, Owns, RefInv, MgrInv, MgrTypeOK
  <2> QED  BY <1>1, <2>1, <2>2 DEF Abstract!leaseOn, RefInv, PoolInv, ExclusiveSentry
<1>8. s \notin usedSandboxes
  BY <1>1 DEF usedSandboxes
<1>9. usedSandboxes' = usedSandboxes \cup {s} \/ (daemonPhase = "closing" /\ UNCHANGED usedSandboxes)
  <2>1. CASE box[s] = "gone"
    <3>1. daemonPhase = "closing"
      BY <1>1, <2>1 DEF closed, up, daemonPhase, RefInv, TableFirst
    <3> QED  BY <2>1, <3>1 DEF insertLease, registerLease, usedSandboxes, RefInv, PoolInv, PoolTypeOK
  <2>2. CASE box[s] = "restored"
    BY <1>1, <2>2 DEF insertLease, registerLease, usedSandboxes, RefInv, PoolInv, PoolTypeOK
  <2> QED  BY <1>1, <2>1, <2>2
<1>10. Abstract!Grant(r, s)
  BY <1>2, <1>3, <1>5, <1>6, <1>7, <1>8, <1>9 DEF Abstract!Grant
<1> QED  BY <1>1, <1>3, <1>10 DEF Abstract!Next

\* Whoever takes the lease out of the table ends it.
LEMMA EndView ==
  ASSUME RefInv, up, NEW r \in Requests, NEW c, deleteLease(r, c), UNCHANGED <<poolVars, msd>>
  PROVE  Abstract!Next
<1>1. pc[r] = "leased" /\ leaseOf[r] = "granted"
  <2>1. pc[r] = "leased" /\ r \in leases
    BY DEF deleteLease, RefInv, MgrInv
  <2> QED  BY <2>1 DEF leaseOf
<1>2. UNCHANGED <<leasedSandbox, usedSandboxes, daemonPhase>> /\ daemonPhase # "panicked"
  BY DEF poolVars, leasedSandbox, usedSandboxes, daemonPhase, up
<1>3. leaseOf' = [leaseOf EXCEPT ![r] = "over"]
  <2>1. leaseOf'[r] = "over"
    <3>1. pc'[r] = "leased" /\ r \notin leases'
      BY <1>1 DEF deleteLease, poolVars
    <3> QED  BY <3>1 DEF leaseOf
  <2>2. \A q \in Requests : q # r => leaseOf'[q] = leaseOf[q]
    BY DEF deleteLease, poolVars, leaseOf
  <2> QED  BY <2>1, <2>2 DEF leaseOf
<1> QED  BY <1>1, <1>2, <1>3 DEF Abstract!Next, Abstract!End

\* Manager.Shutdown makes every lease void.
LEMMA ClearView ==
  ASSUME RefInv, up, clearLeases PROVE Abstract!Next
<1>1. UNCHANGED <<leasedSandbox, usedSandboxes>>
  BY DEF clearLeases, poolVars, leasedSandbox, usedSandboxes
<1>2. daemonPhase = "serving" /\ daemonPhase' = "closing"
  BY DEF clearLeases, poolVars, daemonPhase, up
<1>3. leaseOf' = [q \in Requests |-> IF leaseOf[q] = "granted" THEN "over" ELSE leaseOf[q]]
  <2>1. ASSUME NEW q \in Requests, q \in leases
        PROVE  leaseOf[q] = "granted" /\ leaseOf'[q] = "over"
    <3>1. pc[q] = "leased" /\ pc' = pc /\ leases' = {}
      BY <2>1 DEF RefInv, MgrInv, clearLeases, poolVars
    <3> QED  BY <2>1, <3>1 DEF leaseOf
  <2>2. ASSUME NEW q \in Requests, q \notin leases
        PROVE  leaseOf[q] # "granted" /\ leaseOf'[q] = leaseOf[q]
    <3>1. pc' = pc /\ leases' = {}
      BY DEF clearLeases, poolVars
    <3> QED  BY <2>2, <3>1 DEF leaseOf
  <2>3. \A q \in Requests :
          leaseOf'[q] = IF leaseOf[q] = "granted" THEN "over" ELSE leaseOf[q]
    BY <2>1, <2>2
  <2> QED  BY <2>3 DEF leaseOf
<1> QED  BY <1>1, <1>2, <1>3 DEF Abstract!Next, Abstract!Close

\* A step that leaves the pool, the table and Shutdown alone is not seen.
LEMMA Unseen ==
  ASSUME UNCHANGED <<pc, held, box, sd, leases, msd>> PROVE UNCHANGED Abstract!vars
BY DEF Abstract!vars, leaseOf, leasedSandbox, usedSandboxes, daemonPhase

\* Every step of the manager is a step of Lease or is not seen by a caller.
LEMMA LeaseStepView ==
  ASSUME RefInv, [MgrNext]_vars PROVE Abstract!Next \/ UNCHANGED Abstract!vars
<1>1. CASE MgrNext /\ poolStep
  BY <1>1, RequestView, RecycleView, ReaperView, ShutdownView DEF MgrNext, poolStep
<1>2. ASSUME MgrNext, NEW r \in Requests, insertLease(r) PROVE Abstract!Next
  BY <1>2, InsertView DEF MgrNext
<1>3. ASSUME MgrNext, NEW r \in Requests, NEW c, deleteLease(r, c), UNCHANGED <<poolVars, msd>>
      PROVE  Abstract!Next
  BY <1>3, EndView DEF MgrNext
<1>4. CASE MgrNext /\ clearLeases
  BY <1>4, ClearView DEF MgrNext
<1>5. CASE poolShutdown
  <2>1. sd = "none" /\ sd' = "wait" /\ UNCHANGED <<pc, held, box, leases, msd>>
    BY <1>5 DEF poolShutdown, shutdownStop, sdgoto, mgrVars
  <2>2. UNCHANGED <<leaseOf, leasedSandbox, usedSandboxes>>
    BY <2>1 DEF leaseOf, leasedSandbox, usedSandboxes
  <2> QED  BY <2>1, <2>2, SamePhase DEF up, Abstract!vars
<1>6. ASSUME NEW r \in Requests,
             \/ armTimer(r) \/ timerFire(r) \/ runLookup(r) \/ callHarness(r)
             \/ harnessReturns(r) \/ \E c \in Callers : completeAdd(r, c)
      PROVE  UNCHANGED Abstract!vars
  BY <1>6, Unseen DEF armTimer, timerFire, runLookup, callHarness, harnessReturns, completeAdd,
     recycleAdd, rgoto, poolVars
<1>7. ASSUME MgrNext, NEW r \in Requests,
             completeTimer(r) \/ completeClient(r) \/ runComplete(r)
      PROVE  Abstract!Next \/ UNCHANGED Abstract!vars
  BY <1>3, <1>7, Unseen DEF completeTimer, completeClient, runComplete, poolVars
<1>8. CASE UNCHANGED vars
  BY <1>8, Unseen DEF vars, poolVars, mgrVars
<1> QED  BY <1>1, <1>2, <1>4, <1>5, <1>6, <1>7, <1>8 DEF MgrNext, leaseStep, runStep

\* The manager keeps the promises of Lease: over all interleavings a caller
\* sees only grants of unused sandboxes, one end per lease, and renewals.
THEOREM MgrImplementsLease == MgrSpec => ImplementsLease
<1>1. MgrInit => Abstract!Init
  <2> SUFFICES ASSUME MgrInit PROVE Abstract!Init
    OBVIOUS
  <2>1. leaseOf = [r \in Requests |-> "none"]
    BY DEF MgrInit, PoolInit, leaseOf
  <2>2. leasedSandbox = [r \in Requests |-> None]
    BY DEF MgrInit, PoolInit, leasedSandbox
  <2>3. usedSandboxes = {}
    BY DEF MgrInit, PoolInit, usedSandboxes, spawnedBox
  <2>4. daemonPhase = "serving"
    BY DEF MgrInit, PoolInit, daemonPhase
  <2> QED  BY <2>1, <2>2, <2>3, <2>4 DEF Abstract!Init
<1>2. RefInv /\ [MgrNext]_vars => [Abstract!Next]_(Abstract!vars)
  BY LeaseStepView
<1> QED  BY <1>1, <1>2, MgrPoolInvariant, MgrInvariant, MgrTableFirst, PTL
            DEF MgrSpec, ImplementsLease, Abstract!Spec, RefInv

\* What LeaseProofs shows of Lease, seen through the refinement mapping.
Promise == INSTANCE LeaseProofs WITH
  Sandboxes <- SentryIds, lease <- leaseOf, sandbox <- leasedSandbox,
  used <- usedSandboxes, daemon <- daemonPhase

\* So the exclusion proved of Lease holds of what the manager's callers see:
\* while it serves, every lease in the table (Execute to Complete) has a used
\* sandbox of its own.
THEOREM MgrLeasesExclusive == MgrSpec => []Abstract!Exclusive
<1>1. Abstract!Init => Promise!Init
  BY DEF Abstract!Init, Promise!Init
<1>2. [Abstract!Next]_(Abstract!vars) => [Promise!Next]_(Promise!vars)
  BY DEF Abstract!vars, Promise!vars, Abstract!Next, Promise!Next, Abstract!Refuse,
         Promise!Refuse, Abstract!End, Promise!End, Abstract!Grant, Promise!Grant,
         Abstract!leaseOn, Promise!leaseOn, Abstract!Renew, Promise!Renew, Abstract!Close,
         Promise!Close, Abstract!Panic, Promise!Panic
<1>3. Promise!Exclusive => Abstract!Exclusive
  BY DEF Promise!Exclusive, Abstract!Exclusive
<1>4. Promise!Spec => []Promise!Exclusive
  BY Promise!LeasesExclusive
<1> QED  BY <1>1, <1>2, <1>3, <1>4, MgrImplementsLease, PTL
            DEF ImplementsLease, Abstract!Spec, Promise!Spec

=============================================================================
