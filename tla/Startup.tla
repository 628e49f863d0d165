------------------------------ MODULE Startup ------------------------------
(***************************************************************************)
(* The start of the daemon (cmd/gvisord/main.go): the configuration, the   *)
(* cgroup slices of the resource classes (internal/cgroup), the CNI        *)
(* configuration (internal/cni) and the pools in turn (Manager.Start).     *)
(*                                                                         *)
(* The daemon is started again after it stopped, failed or crashed, with   *)
(* another configuration perhaps; slices and CNI files stay on the host.   *)
(***************************************************************************)
EXTENDS Config

CONSTANTS
  Files,     \* configuration files
  Paths,     \* checkpoint paths that clients send
  MaxLives   \* bound: starts of the daemon

ASSUME StartupAssumption == MaxLives \in Nat

\* What json.Unmarshal accepts. (Two words are no subnets: see netconf.)
ASSUME FilesAssumption ==
  \A file \in Files :
    givenFile(file) /\ ("subnet" \in DOMAIN file => file.subnet \notin {"absent", "broken"})

ASSUME PathsAssumption == \A path \in Paths : givenPath(path)

\* Different numbers of sentries are written differently.
ASSUME NumbersAssumption == \A m, n \in 1 .. 2 : ToString(m) = ToString(n) => m = n

VARIABLES
  phase,      \* where main is; "stopped" and "exited" when there is no process
  cfg,        \* the configuration loaded last
  workloads,  \* cfg.Workloads()
  todo,       \* resource classes EnsureSlices has yet to come to
  known,      \* cgroup.Manager.classes: names
  cgroups,    \* opts.CgroupMgr != nil
  cni,        \* opts.CNIMgr != nil
  started,    \* the keys of m.pools
  slices,     \* host: the limits of the slices there are, by class
  netconf,    \* host: the subnet in the CNI bridge file, and the loopback file
  served,     \* history: the subnets in which sentries were started, in all lives
  lives

vars == <<phase, cfg, workloads, todo, known, cgroups, cni, started, slices, netconf, served, lives>>
hostVars == <<slices, netconf, served>>
mgrVars == <<known, cgroups, cni>>

\* The limits of a slice that was only created: "max", here -1.
Unlimited == [quota |-> -1, memory |-> -1]

Init ==
  /\ phase = "stopped" /\ cfg = Load([mode |-> "none"]) /\ workloads = << >>
  /\ todo = << >> /\ known = {} /\ cgroups = FALSE /\ cni = FALSE /\ started = {}
  /\ slices = << >> /\ netconf = [bridge |-> "absent", loopback |-> "absent"]
  /\ served = {} /\ lives = 0

-----------------------------------------------------------------------------
(* main *)

\* config.Load; a file that cannot be read or parsed ends the process.
load(file) ==
  /\ phase \in {"stopped", "exited"} /\ lives < MaxLives
  /\ lives' = lives + 1
  /\ \/ /\ cfg' = Load(file)
        /\ phase' = "loaded"
     \/ /\ phase' = "exited"
        /\ UNCHANGED cfg
  /\ known' = {} /\ cgroups' = FALSE /\ cni' = FALSE /\ started' = {} /\ workloads' = << >>
  /\ UNCHANGED <<todo, hostVars>>

\* cfg.Validate and cfg.Workloads.
validate ==
  /\ phase = "loaded"
  /\ \/ /\ Validate(cfg)
        /\ workloads' \in Workloads(cfg)
        /\ phase' = "cgroups"
     \/ /\ ~Validate(cfg)
        /\ phase' = "exited"
        /\ UNCHANGED workloads
  /\ UNCHANGED <<cfg, todo, mgrVars, started, hostVars, lives>>

\* DetectV2 fails and nothing is limited, or CleanupStaleSlices removes the
\* slices in which no process of an earlier life is left.
detect ==
  /\ phase = "cgroups"
  /\ \/ /\ phase' = "network"
        /\ UNCHANGED <<todo, slices>>
     \/ /\ phase' = "slices"
        /\ todo'  = cfg.resourceClasses
        /\ \E busy \in SUBSET DOMAIN slices : slices' = [c \in busy |-> slices[c]]
  /\ UNCHANGED <<cfg, workloads, mgrVars, started, netconf, served, lives>>

\* writeCPUMax: the quota in a period of 100000 us. The kernel refuses less
\* than 1 ms.
Period == 100000
quota(class) == class.cpu * 100
accepted(class) == quota(class) >= 1000

\* Mutant: a slice that is there already is taken as it is.
limitsKept(class) ==
  IF class.name \in DOMAIN slices THEN slices[class.name]
  ELSE [quota |-> quota(class), memory |-> class.memory]

\* What EnsureSlices writes. (memory.max, in bytes, is counted in MB.)
limits(class) == [quota |-> quota(class), memory |-> class.memory]

\* One class of EnsureSlices: a slice that exists keeps its limits until they
\* are written.
ensureSlice ==
  LET class  == Head(todo)
      before == IF class.name \in DOMAIN slices THEN slices[class.name] ELSE Unlimited
      set(l) == slices' = over([c \in {class.name} |-> l], slices)
  IN  /\ phase = "slices" /\ todo # << >>
      /\ known' = known \cup {class.name}
      /\ \/ /\ accepted(class)
            /\ set(limits(class))
            /\ todo' = Tail(todo)
            /\ UNCHANGED phase
         \/ \* an error returns: no directory, no cpu.max, no memory.max
            /\ \/ UNCHANGED slices
               \/ set(before)
               \/ accepted(class) /\ set([before EXCEPT !.quota = quota(class)])
            /\ phase' = "network" /\ todo' = << >>
      /\ UNCHANGED <<cfg, workloads, cgroups, cni, started, netconf, served, lives>>

\* EnsureSlices returns nil.
enforce ==
  /\ phase = "slices" /\ todo = << >>
  /\ cgroups' = TRUE
  /\ phase' = "network"
  /\ UNCHANGED <<cfg, workloads, todo, known, cni, started, hostVars, lives>>

\* A CNI file that exists stays as it is, whatever it holds.
fill(new) ==
  netconf' = [f \in DOMAIN netconf |-> IF netconf[f] = "absent" THEN new[f] ELSE netconf[f]]

\* Mutant: a bridge file with another subnet is written again.
ensureConfigRewrites ==
  netconf' = [bridge |-> cfg.subnet, loopback |-> "lo"]

\* EnsureConfig: a missing file is written, unless os.Stat fails with an
\* error other than "not found": it is skipped then, and nil returned.
ensureConfig ==
  \E new \in [bridge : {"absent", cfg.subnet}, loopback : {"absent", "lo"}] : fill(new)

\* ... and fails at the bridge file or behind it; os.WriteFile creates the
\* file before it fails to fill it.
ensureConfigFails ==
  \E new \in [bridge : {"absent", "broken", cfg.subnet}, loopback : {"absent", "broken"}] :
    /\ new.bridge = "broken" => new.loopback = "absent"
    /\ fill(new)

\* The CNI manager: not asked for, no plugins, an error, or enabled.
network ==
  /\ phase = "network"
  /\ phase' = "start"
  /\ \/ /\ UNCHANGED netconf
        /\ cni' = FALSE
     \/ /\ cfg.mode = "cni"
        /\ ensureConfigFails
        /\ cni' = FALSE
     \/ /\ cfg.mode = "cni"
        /\ ensureConfig
        /\ cni' = TRUE
  /\ UNCHANGED <<cfg, workloads, todo, known, cgroups, started, slices, served, lives>>

\* Manager.Start, in the order of the map; SentrySlicePath wants a known
\* class, a sentry an ID that no other has, and the plugins (CreateNetNS) read
\* both CNI files. An error ends the process.
startPool(k) ==
  /\ phase = "start" /\ k \in DOMAIN workloads \ started
  /\ \/ /\ cgroups => workloads[k].resourceClass \in known
        /\ \A j \in started : sentryID(j, 1) # sentryID(k, 1)
        /\ cni => netconf.bridge \notin {"absent", "broken"} /\ netconf.loopback = "lo"
        /\ served' = IF cni THEN served \cup {netconf.bridge} ELSE served
        /\ started' = started \cup {k}
        /\ phase' = IF started' = DOMAIN workloads THEN "serving" ELSE phase
     \/ /\ phase' = "exited"
        /\ UNCHANGED <<started, served>>
  /\ UNCHANGED <<cfg, workloads, todo, mgrVars, slices, netconf, lives>>

\* A shutdown, or the death of the process at any point.
stop ==
  /\ phase \notin {"stopped", "exited"}
  /\ phase' = "stopped" /\ todo' = << >>
  /\ UNCHANGED <<cfg, workloads, mgrVars, started, hostVars, lives>>

Next ==
  \/ \E file \in Files : load(file)
  \/ validate \/ detect \/ ensureSlice \/ enforce \/ network
  \/ \E k \in DOMAIN workloads : startPool(k)
  \/ stop

Spec == Init /\ [][Next]_vars

-----------------------------------------------------------------------------
(* Properties *)

classNames == {cfg.resourceClasses[i].name : i \in DOMAIN cfg.resourceClasses}

\* The class that counts if several have one name.
lastClass(name) ==
  LET at == {i \in DOMAIN cfg.resourceClasses : cfg.resourceClasses[i].name = name}
  IN  cfg.resourceClasses[CHOOSE i \in at : \A j \in at : j <= i]

\* Types; a workload has a positive size and a positive max_pending, so that
\* acquire's own default for it (pool.go:455-458) is never needed.
TypeOK ==
  /\ phase \in {"stopped", "exited", "loaded", "cgroups", "slices", "network",
                "start", "serving"}
  /\ DOMAIN cfg = DOMAIN Defaults
  /\ \A k \in DOMAIN workloads :
       workloads[k].poolSize \in Nat \ {0} /\ workloads[k].maxPending \in Nat \ {0}
  /\ started \subseteq DOMAIN workloads
  /\ known \subseteq classNames
  /\ cgroups \in BOOLEAN /\ cni \in BOOLEAN
  /\ lives \in 0 .. MaxLives

\* A daemon that starts pools with a cgroup manager has every class of its
\* present configuration in force: the slices exist, with the share of a CPU
\* and the memory configured last, whatever limits an earlier life with another
\* file left there and wherever it stopped. SentrySlicePath (cgroup.go:90)
\* finds the class of every pool.
LimitsInForce ==
  phase \in {"start", "serving"} /\ cgroups =>
    /\ \A c \in classNames :
         /\ c \in DOMAIN slices
         /\ slices[c].memory = lastClass(c).memory
         /\ slices[c].quota * 1000 = lastClass(c).cpu * Period
    /\ \A k \in DOMAIN workloads : workloads[k].resourceClass \in known

\* With classes that have no slash in their names there is one pool for each
\* template and class, of that template, and the last of several entries
\* decides, in whatever order the map of templates is visited.
PoolPerEntry ==
  phase = "cgroups" /\ (\A c \in classNames : "/" \notin chars(c)) =>
    /\ \A e \in entries(cfg) :
         LET pool == entry(cfg, e)
             same == {d \in entries(cfg) : d[1] = e[1] /\ entry(cfg, d).resourceClass = pool.resourceClass}
             k == key(e[1], pool.resourceClass)
         IN  /\ k \in DOMAIN workloads
             /\ workloads[k].template = e[1]
             /\ (\A d \in same : d[2] <= e[2]) => workloads[k].poolSize = pool.poolSize
    /\ Cardinality(DOMAIN workloads) =
         Cardinality({<<e[1], entry(cfg, e).resourceClass>> : e \in entries(cfg)})

\* Sentries of different pools have different IDs (and so directories,
\* containers, namespaces) if no template has a slash in its name, and no
\* class a slash or a dash.
IdsDistinct ==
  (/\ \A n \in DOMAIN cfg.templates : "/" \notin chars(n)
   /\ \A c \in classNames : chars(c) \cap {"/", "-"} = {}) =>
    \A k, j \in DOMAIN workloads : \A m, n \in 1 .. 2 :
      sentryID(k, m) = sentryID(j, n) => k = j /\ m = n

\* checkpoint_dirs confines the paths of clients: a path is allowed if and
\* only if it is, segment by segment, at or below a directory of the list, dots
\* resolved; below "/" nothing is allowed.
CheckpointConfined ==
  phase = "loaded" => \A path \in Paths :
    ValidateCheckpointPath(cfg, path) <=>
      \/ cfg.checkpointDirs = {}
      \/ \E dir \in cfg.checkpointDirs :
           /\ IsPrefix(Abs(dir), Abs(path))
           /\ Abs(dir) = << >> => Abs(path) = << >>

\* The sentries of all lives on a host are in one subnet, that of the first
\* bridge file that was written whole, whatever the files of later lives
\* configure: a sandbox that an earlier life left behind keeps its address in
\* the range from which the present one allots. Files that a failing
\* EnsureConfig left half-written, or did not write, never start a pool.
OneSubnet ==
  /\ \A a, b \in served : a = b
  /\ cni /\ started # {} => served = {netconf.bridge} /\ netconf.loopback = "lo"

=============================================================================
