------------------------------ MODULE Manager ------------------------------
(***************************************************************************)
(* The pool manager of gvisord (internal/pool/pool.go, type Manager) on    *)
(* top of one Pool: the lease table and its expiry timers, Complete from a *)
(* client, from a timer or from Run, Run's calls into the sandbox, and     *)
(* Manager.Shutdown.                                                       *)
(*                                                                         *)
(* A request is a lease ID (generateLeaseID draws 128 random bits), so the *)
(* table is a set of requests; the sentry of a lease is held[r].           *)
(***************************************************************************)
EXTENDS Pool

CONSTANTS
  Runs,         \* the requests that are Run calls; the others are Execute
  HasIP         \* sentries have an IP address (network.mode = "cni")

ASSUME ManagerAssumption == Runs \subseteq Requests /\ HasIP \in BOOLEAN

VARIABLES
  leases,      \* m.leases
  timer,       \* lease.timer; "fired" until its goroutine has run Complete,
               \* "ended" from then on; "stopped" by another caller
  completing,  \* callers of Complete between leaseMu and recycleWg.Add, by lease
  run,         \* control point of Run
  found,       \* the Run calls that found their lease in the table
  ran,         \* where the code of a Run call was executed
  msd          \* Manager.Shutdown: "cleared" once the table is

mgrVars == <<leases, timer, completing, run, found, ran, msd>>
vars == <<poolVars, mgrVars>>

\* The goroutines that call Complete: a client's (or Run's own) and a timer's.
Callers == {"client", "timer"}

\* Types: a timer has its life (registerLease, Complete), a Run its course.
MgrTypeOK ==
  /\ leases     \subseteq Requests
  /\ timer      \in [Requests -> {"none", "armed", "stopped", "fired", "ended"}]
  /\ completing \in [Requests -> SUBSET Callers]
  /\ run        \in [Requests -> {"idle", "call", "complete", "done"}]
  /\ found      \subseteq Requests
  /\ ran        \in [Requests -> {"nowhere", "own", "foreign"}]
  /\ msd        \in {"up", "cleared"}

MgrInit ==
  /\ PoolInit
  /\ leases = {} /\ found = {} /\ msd = "up"
  /\ completing = [r \in Requests |-> {}]
  /\ timer = [r \in Requests |-> "none"]
  /\ run   = [r \in Requests |-> "idle"]
  /\ ran   = [r \in Requests |-> "nowhere"]

-----------------------------------------------------------------------------
(* registerLease *)

\* time.AfterFunc, before the lease is in the table.
armTimer(r) ==
  /\ pc[r] = "register" /\ timer[r] = "none"
  /\ timer' = [timer EXCEPT ![r] = "armed"]
  /\ UNCHANGED <<poolVars, leases, completing, run, found, ran, msd>>

\* Mutant: the lease is in the table before its timer is armed.
insertLeaseFirst(r) ==
  /\ registerLease(r)
  /\ leases' = leases \cup {r}
  /\ UNCHANGED <<timer, completing, run, found, ran, msd>>

\* The insertion under leaseMu; Execute returns the lease.
insertLease(r) ==
  /\ timer[r] # "none"
  /\ registerLease(r)
  /\ leases' = leases \cup {r}
  /\ UNCHANGED <<timer, completing, run, found, ran, msd>>

-----------------------------------------------------------------------------
(* Complete *)

\* The timer starts its goroutine, whatever its lease's handler has done so
\* far: lease_timeout may be 0.
timerFire(r) ==
  /\ timer[r] = "armed"
  /\ timer' = [timer EXCEPT ![r] = "fired"]
  /\ UNCHANGED <<poolVars, leases, completing, run, found, ran, msd>>

\* timer.Stop: prevents the firing of an armed timer, and only that.
stopTimer(t) == IF t = "armed" THEN "stopped" ELSE t

\* Mutants: Complete looks the lease up and leaves it in the table; it deletes
\* the lease and returns before the recycle.
deleteLeaseNot(r, c) ==
  /\ r \in leases
  /\ completing' = [completing EXCEPT ![r] = @ \cup {c}]
  /\ UNCHANGED leases

deleteLeaseOnly(r, c) ==
  /\ r \in leases
  /\ leases' = leases \ {r}
  /\ UNCHANGED completing

\* The critical section of Complete on a lease in the table.
deleteLease(r, c) ==
  /\ r \in leases
  /\ leases'     = leases \ {r}
  /\ completing' = [completing EXCEPT ![r] = @ \cup {c}]

\* complete from a client, which has the lease ID once Execute returned (an
\* unknown lease is an error and changes nothing).
completeClient(r) ==
  /\ r \notin Runs
  /\ deleteLease(r, "client")
  /\ timer' = [timer EXCEPT ![r] = stopTimer(@)]
  /\ UNCHANGED <<poolVars, run, found, ran, msd>>

\* Mutants: the timer recycles its sentry without asking the table; it only
\* logs.
completeTimerDirect(r) ==
  /\ timer[r] = "fired"
  /\ timer'      = [timer EXCEPT ![r] = "ended"]
  /\ leases'     = leases \ {r}
  /\ completing' = [completing EXCEPT ![r] = @ \cup {"timer"}]
  /\ UNCHANGED <<poolVars, run, found, ran, msd>>

completeTimerLogs(r) ==
  /\ timer[r] = "fired"
  /\ timer' = [timer EXCEPT ![r] = "ended"]
  /\ UNCHANGED <<poolVars, leases, completing, run, found, ran, msd>>

\* Complete from the timer's goroutine; its error is dropped.
completeTimer(r) ==
  /\ timer[r] = "fired"
  /\ timer' = [timer EXCEPT ![r] = "ended"]
  /\ \/ deleteLease(r, "timer")
     \/ r \notin leases /\ UNCHANGED <<leases, completing>>
  /\ UNCHANGED <<poolVars, run, found, ran, msd>>

\* The rest of Complete: recycleWg.Add(1), and the recycle goroutine.
completeAdd(r, c) ==
  /\ c \in completing[r]
  /\ recycleAdd(r)
  /\ completing' = [completing EXCEPT ![r] = @ \ {c}]
  /\ UNCHANGED <<leases, timer, run, found, ran, msd>>

-----------------------------------------------------------------------------
(* Run *)

\* Mutant: Run completes its lease before it calls the harness.
runLookupCompletes(r) ==
  /\ r \in Runs /\ run[r] = "idle"
  /\ deleteLease(r, "client")
  /\ timer' = [timer EXCEPT ![r] = stopTimer(@)]
  /\ run'   = [run EXCEPT ![r] = "call"]
  /\ found' = found \cup {r}
  /\ UNCHANGED <<poolVars, ran, msd>>

\* Look the lease up again, for the exec fallback.
runLookup(r) ==
  /\ r \in Runs /\ pc[r] = "leased" /\ run[r] = "idle"
  /\ run'   = [run EXCEPT ![r] = "call"]
  /\ found' = IF r \in leases THEN found \cup {r} ELSE found
  /\ UNCHANGED <<poolVars, leases, timer, completing, ran, msd>>

\* What answers at the IP or ID of r's sentry: the sandbox r acquired, until
\* its recycle is over; then the pool's or another request's.
sandboxOf(r) ==
  CASE box[held[r]] = "gone"                        -> "nowhere"
    [] box[held[r]] # "gone" /\ Owns(r, held[r])    -> "own"
    [] box[held[r]] # "gone" /\ ~Owns(r, held[r])   -> "foreign"

\* callHarness sends the code: over HTTP to the IP of ExecuteResult, or with
\* runsc exec if the lookup found the sentry.
callHarness(r) ==
  /\ run[r] = "call" /\ ran[r] = "nowhere"
  /\ \/ /\ HasIP \/ r \in found
        /\ ran' = [ran EXCEPT ![r] = sandboxOf(r)]
        /\ run' = IF sandboxOf(r) = "nowhere" THEN [run EXCEPT ![r] = "complete"] ELSE run
     \/ /\ ~HasIP /\ r \notin found
        /\ run' = [run EXCEPT ![r] = "complete"]
        /\ UNCHANGED ran
  /\ UNCHANGED <<poolVars, leases, timer, completing, found, msd>>

\* callHarness returns: a result, an error or its timeout.
harnessReturns(r) ==
  /\ run[r] = "call" /\ ran[r] # "nowhere"
  /\ run' = [run EXCEPT ![r] = "complete"]
  /\ UNCHANGED <<poolVars, leases, timer, completing, found, ran, msd>>

\* Run's own Complete; an expired lease is only logged.
runComplete(r) ==
  /\ run[r] = "complete"
  /\ run' = [run EXCEPT ![r] = "done"]
  /\ \/ /\ deleteLease(r, "client")
        /\ timer' = [timer EXCEPT ![r] = stopTimer(@)]
     \/ r \notin leases /\ UNCHANGED <<leases, completing, timer>>
  /\ UNCHANGED <<poolVars, found, ran, msd>>

-----------------------------------------------------------------------------
(* Shutdown *)

\* Manager.Shutdown: stop the timers and forget the leases; the pool is next.
clearLeases ==
  /\ msd = "up"
  /\ msd'    = "cleared"
  /\ timer'  = [r \in Requests |-> IF r \in leases THEN stopTimer(timer[r]) ELSE timer[r]]
  /\ leases' = {}
  /\ UNCHANGED <<poolVars, completing, run, found, ran>>

poolShutdown == msd = "cleared" /\ shutdownStop /\ UNCHANGED mgrVars

-----------------------------------------------------------------------------
(* Specification *)

leaseStep(r) ==
  \/ armTimer(r) \/ insertLease(r) \/ completeTimer(r)
  \/ \E c \in Callers : completeAdd(r, c)

runStep(r) == runLookup(r) \/ callHarness(r) \/ harnessReturns(r) \/ runComplete(r)

poolStep ==
  /\ \/ \E r \in Requests : requestStep(r) \/ recycleStep(r)
     \/ \E s \in SentryIds : Age(s)
     \/ reaperStep
     \/ shutdownStep
  /\ UNCHANGED mgrVars

MgrNext ==
  /\ up
  /\ \/ poolStep
     \/ \E r \in Requests :
          leaseStep(r) \/ timerFire(r) \/ completeClient(r) \/ runStep(r)
     \/ clearLeases
     \/ poolShutdown

MgrSpec == MgrInit /\ [][MgrNext]_vars

\* Every goroutine that can run does, every runsc invocation and harness call
\* ends, and a timer that is not stopped fires. Nothing makes a client call,
\* complete its lease, or the operator shut the daemon down.
Fairness ==
  /\ \A r \in Requests :
       /\ WF_vars(up /\ pc[r] # "start" /\ requestStep(r) /\ UNCHANGED mgrVars)
       /\ WF_vars(up /\ recycleStep(r) /\ UNCHANGED mgrVars)
       /\ WF_vars(up /\ leaseStep(r))
       /\ WF_vars(up /\ timerFire(r))
       /\ WF_vars(up /\ runStep(r))
  /\ WF_vars(up /\ reaperStep /\ UNCHANGED mgrVars)
  /\ WF_vars(up /\ shutdownStep /\ UNCHANGED mgrVars)
  /\ WF_vars(up /\ poolShutdown)

\* The environment in which an expiry is not lost: lease_timeout outlasts the
\* few instructions from time.AfterFunc to the insertion of the lease.
TimelyNext == MgrNext /\ \A r \in Requests : pc[r] = "register" => timer'[r] # "fired"

TimelySpec == MgrInit /\ [][TimelyNext]_vars /\ Fairness

-----------------------------------------------------------------------------
(* Properties *)

\* A lease in the table is a claim nobody else has: its sentry is running, in
\* the pool until Shutdown sweeps it, is no other lease's, and no recycle of
\* it has been started or is about to be (Complete deletes first).
LeaseOwnsSentry ==
  \A r \in leases :
    /\ sstate[held[r]] = "running" /\ rpc[r] = "none"
    /\ held[r] \in sentries \/ closed
    /\ \A q \in leases : held[q] = held[r] => q = r
    /\ completing[r] = {}

\* Each lease is recycled at most once, though the client, the timer and
\* Shutdown all race for it in the table.
OneRecycle ==
  \A r \in Requests :
    /\ \A b, c \in completing[r] : b = c
    /\ completing[r] # {} => rpc[r] = "none" /\ pc[r] = "leased"

\* "If a caller crashes without calling complete, the sentry is recycled
\* automatically": until Shutdown clears the table, a lease that was handed
\* out is in the table with a timer that will fire, or has been completed. The
\* one exception is a lease whose timer ran out, and found nothing to complete,
\* before registerLease put it into the table: only its caller can end it.
ExpiredUnregistered(r) == r \in leases /\ timer[r] = "ended"

NoLeakedSentry ==
  msd = "up" => \A r \in Requests : pc[r] = "leased" =>
    \/ r \in leases /\ timer[r] \in {"armed", "fired"}
    \/ completing[r] # {}
    \/ rpc[r] # "none"
    \/ ExpiredUnregistered(r)

\* The code of a Run call is executed in the sandbox that was acquired for it,
\* unless the timer of its own lease ran out and completed the lease before
\* the request was sent. No other caller, no recycle and no Shutdown can take
\* the sandbox of a Run that is under way.
ForeignOnlyIfExpired == \A r \in Requests : ran[r] = "foreign" => timer[r] = "ended"

\* What a caller sees of the manager. A lease is granted once it is in the
\* table and over once it is not; a sandbox is used until the recycle of its
\* sentry resets or deletes it.
leaseOf ==
  [r \in Requests |->
     CASE r \in leases                       -> "granted"
       [] pc[r] = "leased" /\ r \notin leases -> "over"
       [] pc[r] = "refused"                  -> "refused"
       [] OTHER                              -> "none"]

leasedSandbox == [r \in Requests |-> IF pc[r] = "leased" THEN held[r] ELSE None]

usedSandboxes == {s \in SentryIds : box[s] = "used"}

daemonPhase ==
  CASE msd = "up"                    -> "serving"
    [] msd # "up" /\ sd # "panic"    -> "closing"
    [] msd # "up" /\ sd = "panic"    -> "panicked"

Abstract == INSTANCE Lease WITH
  Sandboxes <- SentryIds, lease <- leaseOf, sandbox <- leasedSandbox,
  used <- usedSandboxes, daemon <- daemonPhase

\* The manager keeps the promises of the Lease module: over all interleavings
\* of Execute, Complete, timers, recycles and Shutdown a caller sees only
\* grants of unused sandboxes, one end per lease, and renewals in between.
ImplementsLease == Abstract!Spec

\* Every lease ends and every sandbox that was handed out is renewed, even if
\* its caller never completes (registerLease's timer, recycle, Shutdown), if no
\* timer runs out before its lease is in the table.
LeasesEndAndRenew == Abstract!Live

\* A queued caller is answered, with a lease or with an error.
QueuedAnswered ==
  \A r \in Requests :
    pc[r] = "waiting" ~> pc[r] \in {"leased", "refused"} \/ sd = "panic"

\* A shutdown that has begun comes to its end, whatever is in flight.
ShutdownEnds == msd = "cleared" ~> sd \in {"done", "panic"}

-----------------------------------------------------------------------------
(* The inductive invariant behind LeaseOwnsSentry, OneRecycle and          *)
(* NoLeakedSentry, on top of PoolInv                                       *)

\* A lease is in the table, being completed, or recycled: never two of them,
\* and never by two callers. Until Shutdown clears the table it is always one
\* of them. Whoever stops a timer also takes the lease from the table, so a
\* lease in the table has a timer that runs, or ran out too early (Complete,
\* registerLease and the timer share m.leases).
MgrInv ==
  /\ MgrTypeOK
  /\ OneRecycle
  /\ \A r \in Requests :
       /\ r \in leases => pc[r] = "leased" /\ rpc[r] = "none" /\ completing[r] = {}
       /\ pc[r] = "leased" /\ msd = "up" => r \in leases \/ completing[r] # {} \/ rpc[r] # "none"
       /\ r \in leases => timer[r] \in {"armed", "fired", "ended"}
       /\ pc[r] = "register" => timer[r] # "stopped"
       /\ timer[r] # "none" => pc[r] \in {"register", "leased"}

=============================================================================
