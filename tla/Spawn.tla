------------------------------- MODULE Spawn -------------------------------
(***************************************************************************)
(* What a sentry owns on the host, and who gives it back: Pool.spawn with  *)
(* its error paths, cleanup and cleanupPartial (internal/pool/pool.go),    *)
(* CreateNetNS and DeleteNetNS (internal/cni), the sentry cgroups          *)
(* (internal/cgroup), Pool.Start, and a crash and restart of the daemon.   *)
(*                                                                         *)
(* A resource is identified by its kind and the ID of its sentry. Of the   *)
(* content of bundles (internal/runsc) the model has what spawn writes     *)
(* into config.json; that of namespaces and cgroups is left out.           *)
(***************************************************************************)
EXTENDS Integers, Sequences, FiniteSets

CONSTANTS
  Goroutines,  \* goroutines that spawn or clean up; "main" runs Start
  PoolSize,    \* workload.PoolSize
  Cni,         \* p.cniMgr != nil
  Cgroups,     \* p.cgroupMgr != nil and the pool has a resource class
  Warm,        \* runtime.WarmSentry()
  PreRestore,  \* workload.PreRestore
  Fails,       \* a step of spawn may fail
  CleanupFails,  \* the removal of a resource may fail
  MaxIds,      \* bound: IDs drawn in one life of the daemon
  MaxRestarts   \* bound: restarts of the daemon

ASSUME SpawnAssumption ==
  /\ "main" \in Goroutines
  /\ PoolSize \in Nat \ {0} /\ MaxIds \in Nat /\ MaxRestarts \in Nat
  /\ {Cni, Cgroups, Warm, PreRestore, Fails, CleanupFails} \subseteq BOOLEAN

VARIABLES
  phase,    \* the daemon: in Start, serving, or gone (Start failed; crashed)
  nextID,   \* p.nextID
  job,      \* what a goroutine does: the steps left, and the sentry's ID
  live,     \* sentries that spawn returned, until their cleanup begins
  pids,     \* sentries whose PID `runsc state` has told (Sentry.PID > 0)
  nss,      \* cni.Manager.nss
  host,     \* the resources on the host: IDs by kind
  bundle,   \* config.json in a sentry's directory (the checkpoint's if none)
  spec,     \* the config.json its container was made from
  restarts,
  old       \* for the properties: IDs that had a namespace or a container on
            \* the host when this life of the daemon began

vars == <<phase, nextID, job, live, pids, nss, host, bundle, spec, restarts, old>>

Ids == 1 .. MaxIds

\* Directory <workdir>/<id>; network namespace and the address IPAM reserved
\* for it; container, that is runsc's record of it below the directory, and
\* sandbox process; sub-cgroup.
Kinds == {"dir", "netns", "ip", "box", "proc", "cgroup"}

-----------------------------------------------------------------------------
(* The steps of spawn *)

\* Those this configuration takes, in the order of the code.
spawnSteps ==
  <<"mkdir", "bundle", "mounts">>
    \o (IF Cni THEN <<"netns", "inject">> ELSE <<>>)
    \o (IF Warm THEN <<"create">> ELSE <<>>)
    \o (IF PreRestore \/ ~Warm THEN <<"restore">> ELSE <<>>)
    \o <<"state">>
    \o (IF Cgroups THEN <<"cgroup", "place">> ELSE <<>>)

\* What a step leaves on the host when it succeeds.
makes(step) ==
  CASE step = "mkdir"                 -> {"dir"}
    [] step = "netns"                 -> {"netns", "ip"}
    [] step \in {"create", "restore"} -> {"box", "proc"}
    [] step = "cgroup"                -> {"cgroup"}
    [] OTHER                          -> {}

\* Mutant: a namespace that exists already is taken for the sentry's own.
conflictNotNetns(step, i) ==
  \/ step = "create"              /\ i \in host["box"]
  \/ step = "restore" /\ ~Warm    /\ i \in host["box"]

\* `ip netns add`, `runsc create` and a stock `runsc restore` refuse an ID
\* that is in use on the host.
conflict(step, i) ==
  \/ step = "netns"               /\ i \in host["netns"]
  \/ step = "create"              /\ i \in host["box"]
  \/ step = "restore" /\ ~Warm    /\ i \in host["box"]

\* What a step that fails may have made before: `ip netns add` comes before
\* the plugins; of the others any part, but a sub-cgroup is one mkdir.
made(step, i) ==
  IF conflict(step, i) \/ step = "cgroup" THEN {{}}
  ELSE {part \in SUBSET makes(step) : "ip" \in part => "netns" \in part}

\* Mutant: the error paths remove the directory and not the container.
undoneDirOnly(step, part) ==
  IF step \in {"mkdir", "bundle"} THEN {}
  ELSE {"dir"} \cup (IF step = "netns" /\ part # {} THEN {"netns", "ip"} ELSE {})

\* What the error path of a step tries to give back: an early return,
\* RemoveAll (after CreateNetNS has undone its own work), or cleanupPartial.
undone(step, part) ==
  CASE step \in {"mkdir", "bundle"}    -> {}
    [] step = "mounts"                 -> {"dir"}
    [] step = "netns" /\ part = {}     -> {"dir"}
    [] step = "netns" /\ part # {}     -> {"dir", "netns", "ip"}
    [] OTHER                           -> {"box", "proc", "dir"}

\* The steps of cleanup, by what each tries to give back.
cleanupSteps == <<{"box", "proc"}, {"netns", "ip"}, {"cgroup"}, {"dir", "box"}>>

\* What such a step may leave behind, as every error is logged or dropped.
\* Where Kill and Delete fail, KillProcess still kills a process whose PID is
\* known; RemoveAll takes runsc's record with the directory.
left(i, ks) ==
  {kept \in SUBSET ks :
     /\ kept # {} => CleanupFails
     /\ "proc" \in kept => i \notin pids
     /\ "box" \in kept /\ "dir" \in ks => "dir" \in kept}

\* config.json: how often harness and cache are mounted, and whether the
\* network namespace is the sentry's. (The checkpoint's own has neither.)
Config == [mounts : Nat, netns : BOOLEAN]
checkpointConfig == [mounts |-> 0, netns |-> FALSE]

\* Mutant: PrepareBundle leaves a config.json that is there already.
prepareBundleOnce(i) == bundle[i]

\* PrepareBundle copies the checkpoint's config.json over what is there ...
prepareBundle(i) == checkpointConfig

\* ... and InjectBundleMounts and InjectNetNS edit it in place: mounts are
\* appended, the path of the network namespace is set.
edited(step, i) ==
  CASE step = "bundle" -> prepareBundle(i)
    [] step = "mounts" -> [bundle[i] EXCEPT !.mounts = @ + 1]
    [] step = "inject" -> [bundle[i] EXCEPT !.netns = TRUE]
    [] OTHER           -> bundle[i]

-----------------------------------------------------------------------------

Job  == [task : {"idle", "spawn", "cleanup"}, at : 0 .. Len(spawnSteps), id : 0 .. MaxIds]
Idle == [task |-> "idle", at |-> 0, id |-> 0]

\* Types: spawn and cleanup stay within their steps, IDs within the bound.
TypeOK ==
  /\ phase   \in {"starting", "serving", "exited", "crashed"}
  /\ nextID  \in 0 .. MaxIds
  /\ job     \in [Goroutines -> Job]
  /\ live \subseteq Ids /\ pids \subseteq Ids /\ nss \subseteq Ids /\ old \subseteq Ids
  /\ host    \in [Kinds -> SUBSET Ids]
  /\ bundle  \in [Ids -> Config] /\ spec \in [Ids -> Config]
  /\ restarts \in 0 .. MaxRestarts

Init ==
  /\ phase = "starting" /\ nextID = 0 /\ restarts = 0
  /\ job  = [g \in Goroutines |-> Idle]
  /\ live = {} /\ pids = {} /\ nss = {} /\ old = {}
  /\ host = [k \in Kinds |-> {}]
  /\ bundle = [i \in Ids |-> checkpointConfig] /\ spec = bundle

up == phase \in {"starting", "serving"}

\* ID i gets the resources of the kinds more, and then loses those of less.
exchange(i, more, less) ==
  /\ host' = [k \in Kinds |-> IF k \in less THEN host[k] \ {i}
                             ELSE IF k \in more THEN host[k] \cup {i} ELSE host[k]]
  /\ bundle' = IF "dir" \in less THEN [bundle EXCEPT ![i] = checkpointConfig] ELSE bundle

\* Start spawns from the main goroutine; later refills and cold acquires do.
begin(g) ==
  /\ up /\ (phase = "starting" => g = "main")
  /\ job[g].task = "idle" /\ nextID < MaxIds
  /\ nextID' = nextID + 1
  /\ job' = [job EXCEPT ![g] = [task |-> "spawn", at |-> 1, id |-> nextID']]
  /\ UNCHANGED <<phase, live, pids, nss, host, bundle, spec, restarts, old>>

spawning(g) == up /\ job[g].task = "spawn"

\* A step succeeds; after the last one spawn returns the sentry.
spawnStep(g) ==
  LET i == job[g].id
      step == spawnSteps[job[g].at]
  IN  /\ spawning(g)
      /\ ~conflict(step, i)
      /\ host' = [k \in Kinds |-> IF k \in makes(step) THEN host[k] \cup {i} ELSE host[k]]
      /\ pids' = IF step = "state" THEN pids \cup {i} ELSE pids
      /\ nss' = IF step = "netns" THEN nss \cup {i} ELSE nss
      /\ bundle' = [bundle EXCEPT ![i] = edited(step, i)]
      /\ spec' = IF "box" \in makes(step) THEN [spec EXCEPT ![i] = bundle[i]] ELSE spec
      /\ \/ /\ job[g].at < Len(spawnSteps)
            /\ job' = [job EXCEPT ![g].at = @ + 1]
            /\ UNCHANGED <<live, phase>>
         \/ /\ job[g].at = Len(spawnSteps)
            /\ job'   = [job EXCEPT ![g] = Idle]
            /\ live'  = live \cup {i}
            /\ phase' = IF Cardinality(live') >= PoolSize THEN "serving" ELSE phase
      /\ UNCHANGED <<nextID, restarts, old>>

\* A step fails; an error in Start ends the process with os.Exit(1).
spawnFail(g) ==
  LET i == job[g].id
      step == spawnSteps[job[g].at]
  IN  /\ spawning(g)
      /\ Fails \/ conflict(step, i)
      /\ \E part \in made(step, i) :
           \E kept \in left(i, undone(step, part)) :
             exchange(i, part, undone(step, part) \ kept)
      /\ job'   = [job EXCEPT ![g] = Idle]
      /\ phase' = IF phase = "starting" THEN "exited" ELSE phase
      /\ UNCHANGED <<nextID, live, pids, nss, spec, restarts, old>>

\* recycle, the reaper or Shutdown takes a sentry out of the pool ...
retire(g, i) ==
  /\ phase = "serving" /\ job[g].task = "idle" /\ i \in live
  /\ live' = live \ {i}
  /\ job'  = [job EXCEPT ![g] = [task |-> "cleanup", at |-> 1, id |-> i]]
  /\ UNCHANGED <<phase, nextID, pids, nss, host, bundle, spec, restarts, old>>

\* ... and gives back everything it owns, step by step.
cleanup(g) ==
  LET i == job[g].id
      ks == cleanupSteps[job[g].at]
  IN  /\ phase = "serving" /\ job[g].task = "cleanup"
      /\ \E kept \in left(i, ks) : exchange(i, {}, ks \ kept)
      /\ nss' = IF "netns" \in ks THEN nss \ {i} ELSE nss
      /\ job' = IF job[g].at = Len(cleanupSteps) THEN [job EXCEPT ![g] = Idle]
                ELSE [job EXCEPT ![g].at = @ + 1]
      /\ UNCHANGED <<phase, nextID, live, pids, spec, restarts, old>>

\* The process dies; what is on the host stays.
crash ==
  /\ phase \in {"starting", "serving"}
  /\ phase' = "crashed"
  /\ UNCHANGED <<nextID, job, live, pids, nss, host, bundle, spec, restarts, old>>

\* systemd starts the daemon again (Restart=on-failure), with the work
\* directory emptied if it is a RuntimeDirectory. CleanupStaleSlices removes
\* the sentry cgroups that have no process left.
restart ==
  /\ phase \in {"crashed", "exited"} /\ restarts < MaxRestarts
  /\ \E wiped \in BOOLEAN, alive \in {{}, host["proc"]} :
       /\ host' = [host EXCEPT !["dir"]    = IF wiped THEN {} ELSE @,
                               !["box"]    = IF wiped THEN {} ELSE @,
                               !["proc"]   = alive,
                               !["cgroup"] = @ \cap alive]
       /\ bundle' = IF wiped THEN [i \in Ids |-> checkpointConfig] ELSE bundle
  /\ phase' = "starting" /\ nextID' = 0 /\ live' = {} /\ pids' = {} /\ nss' = {}
  /\ job'   = [g \in Goroutines |-> Idle]
  /\ restarts' = restarts + 1
  /\ old' = host'["netns"] \cup host'["box"]
  /\ UNCHANGED spec

Next ==
  \/ \E g \in Goroutines :
       begin(g) \/ spawnStep(g) \/ spawnFail(g) \/ cleanup(g) \/ \E i \in Ids : retire(g, i)
  \/ crash
  \/ restart

Spec == Init /\ [][Next]_vars

-----------------------------------------------------------------------------
(* Properties *)

inProgress == {job[g].id : g \in {h \in Goroutines : job[h].task # "idle"}}

\* Every sentry in the pool has all that its configuration calls for, its
\* network is on record, and its container was made from a bundle with the
\* harness mounted once and the namespace set, whatever other spawns, failures
\* and cleanups do and even if a daemon that crashed left files of that ID.
LiveIsComplete ==
  up => \A i \in live :
    /\ \A n \in 1 .. Len(spawnSteps) : \A k \in makes(spawnSteps[n]) : i \in host[k]
    /\ Cni => i \in nss
    /\ spec[i] = [mounts |-> 1, netns |-> Cni]

\* In the daemon's first life, no sandbox process runs without a sentry or a
\* goroutine that will kill it, on any error path behind `runsc create` or
\* `runsc restore`; unless runsc failed to delete it before spawn knew its PID.
SandboxOwned ==
  up /\ restarts = 0 =>
    \A i \in host["proc"] \ (live \cup inProgress) : CleanupFails /\ i \notin pids

\* IDs repeat after a restart, but no sentry in the pool took over a network
\* namespace or a container that an earlier life of the daemon left under its
\* ID: CreateNetNS and runsc refuse, and spawn gives the ID up.
NothingInherited == up => live \cap old = {}

\* cleanupPartial "removes resources for a sentry that failed partway through
\* spawn": beyond an empty directory, an ID that is neither live nor in
\* progress owns nothing.
NoLeftovers ==
  up /\ restarts = 0 =>
    \A k \in Kinds \ {"dir"} : host[k] \subseteq live \cup inProgress

=============================================================================
