---------------------------- MODULE SpawnProofs ----------------------------
(***************************************************************************)
(* Theorems about Spawn: what a sentry in the pool owns and what its       *)
(* container was made from, that it takes nothing over from an earlier     *)
(* life, and which sandbox processes can be left behind in the first; for  *)
(* every configuration and any number of goroutines, IDs and restarts.     *)
(***************************************************************************)
EXTENDS Spawn, TLAPS

USE SpawnAssumption

\* What the order of spawn's steps gives, in each configuration: the bundle is
\* copied second and edited third, the namespace is made and put into it next,
\* and the container comes after all of these.
LEMMA StepOrder ==
  /\ Len(spawnSteps) \in Nat /\ Len(spawnSteps) >= 5
  /\ spawnSteps[1] = "mkdir" /\ spawnSteps[2] = "bundle" /\ spawnSteps[3] = "mounts"
  /\ Cni => spawnSteps[4] = "netns" /\ spawnSteps[5] = "inject" /\ Len(spawnSteps) >= 6
  /\ \E n \in 1 .. Len(spawnSteps) : spawnSteps[n] \in {"create", "restore"}
  /\ \E n \in 1 .. Len(spawnSteps) : spawnSteps[n] = "state"
  /\ \A n \in 1 .. Len(spawnSteps) :
       /\ n > 3 => spawnSteps[n] \notin {"mkdir", "bundle", "mounts"}
       /\ spawnSteps[n] = "netns" => Cni /\ n = 4
       /\ spawnSteps[n] = "inject" => Cni /\ n = 5
       /\ spawnSteps[n] \in {"create", "restore"} => n > 3 /\ (Cni => n > 5)
<1>1. /\ Len(spawnSteps) \in Nat /\ Len(spawnSteps) >= 5
      /\ spawnSteps[1] = "mkdir" /\ spawnSteps[2] = "bundle" /\ spawnSteps[3] = "mounts"
  BY SMTT(60) DEF spawnSteps
<1>2. Cni => spawnSteps[4] = "netns" /\ spawnSteps[5] = "inject" /\ Len(spawnSteps) >= 6
  BY SMTT(60) DEF spawnSteps
<1>3. \E n \in 1 .. Len(spawnSteps) : spawnSteps[n] \in {"create", "restore"}
  <2>1. CASE Cni
    <3>1. spawnSteps[6] \in {"create", "restore"}
      BY <2>1, SMTT(60) DEF spawnSteps
    <3> QED  BY <1>1, <1>2, <2>1, <3>1
  <2>2. CASE ~Cni
    <3>1. spawnSteps[4] \in {"create", "restore"}
      BY <2>2, SMTT(60) DEF spawnSteps
    <3> QED  BY <1>1, <3>1
  <2> QED  BY <2>1, <2>2
<1>4. ASSUME NEW n \in 1 .. Len(spawnSteps), n > 3
      PROVE  spawnSteps[n] \notin {"mkdir", "bundle", "mounts"}
  <2>1. spawnSteps[n] # "mkdir"
    BY <1>4, SMTT(60) DEF spawnSteps
  <2>2. spawnSteps[n] # "bundle"
    BY <1>4, SMTT(60) DEF spawnSteps
  <2>3. spawnSteps[n] # "mounts"
    BY <1>4, SMTT(60) DEF spawnSteps
  <2> QED  BY <2>1, <2>2, <2>3
<1>5. ASSUME NEW n \in 1 .. Len(spawnSteps), spawnSteps[n] = "netns" PROVE Cni /\ n = 4
  BY <1>5, SMTT(60) DEF spawnSteps
<1>6. ASSUME NEW n \in 1 .. Len(spawnSteps), spawnSteps[n] = "inject" PROVE Cni /\ n = 5
  BY <1>6, SMTT(60) DEF spawnSteps
<1>7. ASSUME NEW n \in 1 .. Len(spawnSteps), spawnSteps[n] \in {"create", "restore"}
      PROVE  n > 3 /\ (Cni => n > 5)
  BY <1>7, SMTT(60) DEF spawnSteps
<1>8. \E n \in 1 .. Len(spawnSteps) : spawnSteps[n] = "state"
  <2> DEFINE a == IF Cni THEN 5 ELSE 3
             b == IF Warm /\ PreRestore THEN 2 ELSE 1
  <2>1. spawnSteps[a + b + 1] = "state" /\ a + b + 1 \in 1 .. Len(spawnSteps)
    <3>1. CASE Cni /\ Warm /\ PreRestore
      BY <3>1, SMTT(60) DEF spawnSteps
    <3>2. CASE Cni /\ ~(Warm /\ PreRestore)
      BY <3>2, SMTT(60) DEF spawnSteps
    <3>3. CASE ~Cni /\ Warm /\ PreRestore
      BY <3>3, SMTT(60) DEF spawnSteps
    <3>4. CASE ~Cni /\ ~(Warm /\ PreRestore)
      BY <3>4, SMTT(60) DEF spawnSteps
    <3> QED  BY <3>1, <3>2, <3>3, <3>4
  <2> QED  BY <2>1
<1> QED  BY <1>1, <1>2, <1>3, <1>4, <1>5, <1>6, <1>7, <1>8

\* A step makes resources of the known kinds, and two of them a container.
LEMMA Makes ==
  ASSUME NEW step
  PROVE  /\ makes(step) \subseteq Kinds
         /\ "box" \in makes(step) <=> step \in {"create", "restore"}
         /\ "proc" \in makes(step) <=> step \in {"create", "restore"}
BY DEF makes, Kinds

\* A failing step has made some of what it should, and none of what is kept
\* from its error path is anything but what that tries to remove.
LEMMA Failed ==
  ASSUME NEW g \in Goroutines, spawnFail(g)
  PROVE  \E part \in SUBSET makes(spawnSteps[job[g].at]) :
           \E kept \in left(job[g].id, undone(spawnSteps[job[g].at], part)) :
             exchange(job[g].id, part, undone(spawnSteps[job[g].at], part) \ kept)
BY DEF spawnFail, made

-----------------------------------------------------------------------------
(* The inductive invariant *)

\* A container has been made when spawn is at step n.
boxed(n) == \E m \in 1 .. n - 1 : spawnSteps[m] \in {"create", "restore"}

\* spawn knows the PID when it is at step n.
stated(n) == \E m \in 1 .. n - 1 : spawnSteps[m] = "state"

\* The config.json of a bundle that spawn is done with.
finalConfig == [mounts |-> 1, netns |-> Cni]

\* Sentry i has the steps of spawn before the n-th behind it.
progress(i, n) ==
  /\ \A m \in 1 .. n - 1 : \A k \in makes(spawnSteps[m]) : i \in host[k]
  /\ Cni /\ n > 4 => i \in nss
  /\ n = 3 => bundle[i] = checkpointConfig
  /\ n > 3 => bundle[i] = IF n > 5 THEN finalConfig ELSE [mounts |-> 1, netns |-> FALSE]
  /\ boxed(n) => spec[i] = finalConfig

\* IDs are drawn once: no two goroutines work on the same one, and none on
\* that of a sentry in the pool.
IdInv ==
  /\ live \subseteq 1 .. nextID
  /\ \A g \in Goroutines : job[g].task # "idle" =>
       job[g].id \in 1 .. nextID /\ job[g].id \notin live /\ job[g].at >= 1
  /\ \A g, h \in Goroutines :
       job[g].task # "idle" /\ job[h].task # "idle" /\ job[g].id = job[h].id => g = h

\* Work done so far.
ProgressInv ==
  /\ \A i \in live : progress(i, Len(spawnSteps) + 1)
  /\ \A g \in Goroutines : job[g].task = "spawn" => progress(job[g].id, job[g].at)

\* The PID of a sentry in the pool, or of one being cleaned up, is known.
PidInv ==
  /\ live \subseteq pids
  /\ \A g \in Goroutines :
       \/ job[g].task = "cleanup"
       \/ job[g].task = "spawn" /\ stated(job[g].at)
       => job[g].id \in pids

\* Sandboxes in the first life: a process without an owner is one that runsc
\* failed to delete before its PID was known; a spawn that has not made its
\* own container finds none of its ID, and a cleanup kills the process first.
BoxInv ==
  restarts = 0 =>
    /\ \A i \in host["proc"] \ (live \cup inProgress) : CleanupFails /\ i \notin pids
    /\ host["proc"] \cup host["box"] \subseteq 1 .. nextID
    /\ \A g \in Goroutines :
         /\ job[g].task = "spawn" /\ ~boxed(job[g].at) =>
              job[g].id \notin host["proc"] /\ job[g].id \notin host["box"]
         /\ job[g].task = "cleanup" /\ job[g].at > 1 => job[g].id \notin host["proc"]

\* cleanup has four steps.
CleanupInv == \A g \in Goroutines : job[g].task = "cleanup" => job[g].at <= 4

\* The inductive invariant.
SpawnInv == TypeOK /\ CleanupInv /\ IdInv /\ ProgressInv /\ PidInv /\ BoxInv

\* A sentry that keeps its resources and its files keeps what it has done.
LEMMA KeepProgress ==
  ASSUME NEW i, NEW n, progress(i, n),
         \A k \in Kinds : i \in host[k] => i \in host'[k],
         i \in nss => i \in nss', bundle'[i] = bundle[i], spec'[i] = spec[i]
  PROVE  progress(i, n)'
BY Makes DEF progress, boxed, finalConfig, checkpointConfig

\* InjectBundleMounts and InjectNetNS on a config.json.
LEMMA Edits ==
  /\ [checkpointConfig EXCEPT !.mounts = @ + 1] = [mounts |-> 1, netns |-> FALSE]
  /\ [[mounts |-> 1, netns |-> FALSE] EXCEPT !.netns = TRUE] = [mounts |-> 1, netns |-> TRUE]
<1>1. \A c, d \in Config : c.mounts = d.mounts /\ c.netns = d.netns => c = d
  BY DEF Config
<1> DEFINE c1 == [mounts |-> 1, netns |-> FALSE]
           c2 == [mounts |-> 1, netns |-> TRUE]
<1>2. c1 \in Config /\ c2 \in Config /\ checkpointConfig \in Config
  BY DEF Config, checkpointConfig
<1>3. [checkpointConfig EXCEPT !.mounts = @ + 1] = c1
  <2>1. \A c \in Config : /\ [c EXCEPT !.mounts = @ + 1] \in Config
                         /\ [c EXCEPT !.mounts = @ + 1].mounts = c.mounts + 1
                         /\ [c EXCEPT !.mounts = @ + 1].netns = c.netns
    BY DEF Config
  <2>2. checkpointConfig.mounts + 1 = c1.mounts /\ checkpointConfig.netns = c1.netns
    BY DEF checkpointConfig
  <2> HIDE DEF c1
  <2> DEFINE d == [checkpointConfig EXCEPT !.mounts = @ + 1]
  <2>3. d \in Config /\ d.mounts = c1.mounts /\ d.netns = c1.netns
    BY <1>2, <2>1, <2>2
  <2> HIDE DEF d
  <2>4. d = c1
    BY <1>1, <1>2, <2>3
  <2> QED  BY <2>4 DEF d
<1>4. [c1 EXCEPT !.netns = TRUE] = c2
  <2>1. \A c \in Config : /\ [c EXCEPT !.netns = TRUE] \in Config
                         /\ [c EXCEPT !.netns = TRUE].mounts = c.mounts
                         /\ [c EXCEPT !.netns = TRUE].netns = TRUE
    BY DEF Config
  <2>2. c1.mounts = c2.mounts /\ c2.netns = TRUE
    OBVIOUS
  <2> HIDE DEF c1, c2
  <2> QED  BY <1>1, <1>2, <2>1, <2>2
<1> QED  BY <1>3, <1>4

\* Nothing is on the host when the daemon starts for the first time.
LEMMA InitInv == Init => SpawnInv
<1> SUFFICES ASSUME Init PROVE SpawnInv
  OBVIOUS
<1>1. TypeOK
  BY StepOrder DEF Init, TypeOK, Job, Idle, Ids, Kinds, Config, checkpointConfig
<1>2. CleanupInv /\ IdInv /\ ProgressInv /\ PidInv /\ BoxInv
  BY DEF Init, Idle, CleanupInv, IdInv, ProgressInv, PidInv, BoxInv, Kinds
<1> QED  BY <1>1, <1>2 DEF SpawnInv

-----------------------------------------------------------------------------
(* One lemma per action *)

\* What TypeOK and IdInv say of a goroutine at work.
LEMMA JobFacts ==
  ASSUME SpawnInv, NEW g \in Goroutines, job[g].task # "idle"
  PROVE  /\ job[g].id \in Ids /\ job[g].id \in 1 .. nextID /\ job[g].id \notin live
         /\ job[g].at \in 1 .. Len(spawnSteps)
         /\ \A h \in Goroutines : h # g /\ job[h].task # "idle" => job[h].id # job[g].id
BY StepOrder DEF SpawnInv, TypeOK, Job, IdInv, Ids

\* A goroutine that goes on to its next step.
LEMMA Advance ==
  ASSUME SpawnInv, NEW g \in Goroutines, job' = [job EXCEPT ![g].at = @ + 1]
  PROVE  /\ \A h \in Goroutines : h # g => job'[h] = job[h]
         /\ job'[g].task = job[g].task /\ job'[g].id = job[g].id /\ job'[g].at = job[g].at + 1
         /\ job[g].at < Len(spawnSteps) => job' \in [Goroutines -> Job]
<1>1. job \in [Goroutines -> Job]
  BY DEF SpawnInv, TypeOK
<1>2. job'[g] = [job[g] EXCEPT !.at = @ + 1] /\ \A h \in Goroutines : h # g => job'[h] = job[h]
  BY <1>1
<1>3. job'[g].task = job[g].task /\ job'[g].id = job[g].id /\ job'[g].at = job[g].at + 1
  BY <1>1, <1>2 DEF Job
<1>4. ASSUME job[g].at < Len(spawnSteps) PROVE job'[g] \in Job
  <2>1. \A c \in Job : c.at + 1 \in 0 .. Len(spawnSteps) => [c EXCEPT !.at = @ + 1] \in Job
    BY DEF Job
  <2>2. job[g] \in Job /\ job[g].at + 1 \in 0 .. Len(spawnSteps)
    BY <1>1, <1>4, StepOrder, SMTT(30) DEF Job
  <2> QED  BY <1>2, <2>1, <2>2
<1> QED  BY <1>1, <1>2, <1>3, <1>4

\* spawn draws an ID that is in use nowhere in the daemon.
LEMMA BeginInv ==
  ASSUME SpawnInv, NEW g \in Goroutines, begin(g) PROVE SpawnInv'
<1>1. /\ nextID \in Nat /\ nextID' = nextID + 1 /\ nextID' <= MaxIds
      /\ job'[g] = [task |-> "spawn", at |-> 1, id |-> nextID + 1]
      /\ \A h \in Goroutines : h # g => job'[h] = job[h]
      /\ UNCHANGED <<phase, live, pids, nss, host, bundle, spec, restarts, old>>
  BY DEF begin, SpawnInv, TypeOK, Job
<1>2. TypeOK'
  <2>1. job' \in [Goroutines -> Job]
    BY <1>1, StepOrder, SMTT(30) DEF begin, SpawnInv, TypeOK, Job
  <2> QED  BY <1>1, <2>1, StepOrder DEF SpawnInv, TypeOK
<1>3. CleanupInv'
  BY <1>1 DEF SpawnInv, CleanupInv
<1>4. IdInv'
  <2>1. live' \subseteq 1 .. nextID'
    BY <1>1 DEF SpawnInv, IdInv
  <2>2. \A h \in Goroutines : h # g /\ job[h].task # "idle" =>
          job[h].id \in 1 .. nextID /\ job[h].id \notin live /\ job[h].at >= 1
    BY DEF SpawnInv, IdInv
  <2>3. nextID + 1 \notin live
    BY <1>1 DEF SpawnInv, IdInv
  <2>4. ASSUME NEW h \in Goroutines, job'[h].task # "idle"
        PROVE  job'[h].id \in 1 .. nextID' /\ job'[h].id \notin live' /\ job'[h].at >= 1
    BY <1>1, <2>2, <2>3, <2>4
  <2>5. ASSUME NEW h \in Goroutines, NEW j \in Goroutines, job'[h].task # "idle",
               job'[j].task # "idle", job'[h].id = job'[j].id
        PROVE  h = j
    <3>1. \A f \in Goroutines : f # g /\ job'[f].task # "idle" => job'[f].id # nextID + 1
      BY <1>1, <2>2
    <3>2. CASE h = g \/ j = g
      BY <1>1, <2>5, <3>1, <3>2
    <3>3. CASE h # g /\ j # g
      BY <1>1, <2>5, <3>3 DEF SpawnInv, IdInv
    <3> QED  BY <3>2, <3>3
  <2> QED  BY <2>1, <2>4, <2>5 DEF IdInv
<1>5. ProgressInv'
  <2>1. \A i, n : progress(i, n) => progress(i, n)'
    BY <1>1, KeepProgress
  <2>2. \A i : progress(i, 1)'
    BY DEF progress, boxed
  <2>3. \A i \in live' : progress(i, Len(spawnSteps) + 1)'
    BY <1>1, <2>1 DEF SpawnInv, ProgressInv
  <2>4. ASSUME NEW h \in Goroutines, job'[h].task = "spawn"
        PROVE  progress(job[h].id, job[h].at)'
    <3>1. CASE h = g
      BY <1>1, <2>2, <3>1
    <3>2. CASE h # g
      BY <1>1, <2>1, <2>4, <3>2 DEF SpawnInv, ProgressInv
    <3> QED  BY <3>1, <3>2
  <2> QED  BY <2>3, <2>4 DEF ProgressInv
<1>6. PidInv'
  <2>1. ~stated(1)
    BY DEF stated
  <2> QED  BY <1>1, <2>1 DEF SpawnInv, PidInv, stated
<1>7. BoxInv'
  <2> SUFFICES ASSUME restarts = 0 PROVE BoxInv'
    BY <1>1 DEF BoxInv
  <2>1. inProgress \subseteq inProgress'
    BY <1>1 DEF inProgress, begin
  <2>2. nextID + 1 \notin host["box"] /\ nextID + 1 \notin host["proc"]
    BY <1>1 DEF SpawnInv, BoxInv
  <2>3. host["proc"] \cup host["box"] \subseteq 1 .. nextID + 1
    BY <1>1 DEF SpawnInv, BoxInv
  <2> QED  BY <1>1, <2>1, <2>2, <2>3 DEF SpawnInv, BoxInv, boxed
<1> QED  BY <1>2, <1>3, <1>4, <1>5, <1>6, <1>7 DEF SpawnInv

\* A step of spawn adds what it makes to what the steps before it have made.
LEMMA NextProgress ==
  ASSUME SpawnInv, NEW g \in Goroutines, spawnStep(g),
         NEW i, NEW n, i = job[g].id, n = job[g].at
  PROVE  progress(i, n + 1)'
<1> DEFINE step == spawnSteps[n]
<1>1. i \in Ids /\ n \in 1 .. Len(spawnSteps) /\ progress(i, n)
  BY JobFacts DEF spawnStep, spawning, SpawnInv, ProgressInv
<1>2. \A m \in 1 .. n : \A k \in makes(spawnSteps[m]) : i \in host'[k]
  <2>1. \A k \in Kinds : i \in host[k] \/ k \in makes(step) => i \in host'[k]
    BY DEF spawnStep
  <2> QED  BY <1>1, <2>1, Makes DEF progress
<1>3. Cni /\ n + 1 > 4 => i \in nss'
  <2>1. CASE Cni /\ n = 4
    BY <2>1, StepOrder DEF spawnStep
  <2>2. CASE Cni /\ n > 4
    BY <1>1, <2>2 DEF spawnStep, progress
  <2> QED  BY <1>1, <2>1, <2>2, StepOrder
<1>4. bundle'[i] = edited(step, i)
  BY <1>1 DEF spawnStep, SpawnInv, TypeOK
<1>5. n + 1 = 3 => bundle'[i] = checkpointConfig
  BY <1>1, <1>4, StepOrder DEF edited, prepareBundle
<1>6. n + 1 > 3 => bundle'[i] = IF n + 1 > 5 THEN finalConfig ELSE [mounts |-> 1, netns |-> FALSE]
  <2>1. CASE n = 3
    <3>1. bundle[i] = checkpointConfig /\ step = "mounts"
      BY <1>1, <2>1, StepOrder DEF progress
    <3>2. bundle'[i] = [bundle[i] EXCEPT !.mounts = @ + 1]
      BY <1>4, <3>1 DEF edited
    <3> QED  BY <2>1, <3>1, <3>2, Edits
  <2>2. CASE n = 4
    BY <1>1, <1>4, <2>2, StepOrder DEF edited, progress
  <2>3. CASE n = 5
    <3>1. bundle[i] = [mounts |-> 1, netns |-> FALSE]
      BY <1>1, <2>3 DEF progress
    <3>2. CASE Cni
      <4>1. step = "inject" /\ Cni = TRUE
        BY <2>3, <3>2, StepOrder
      <4>2. bundle'[i] = [bundle[i] EXCEPT !.netns = TRUE]
        BY <1>4, <4>1 DEF edited
      <4> QED  BY <2>3, <3>1, <4>1, <4>2, Edits DEF finalConfig
    <3>3. CASE ~Cni
      <4>1. step \notin {"bundle", "mounts", "inject"}
        BY <1>1, <2>3, <3>3, StepOrder
      <4>2. Cni = FALSE
        BY <3>3
      <4> QED  BY <1>4, <2>3, <3>1, <4>1, <4>2 DEF edited, finalConfig
    <3> QED  BY <3>2, <3>3
  <2>4. CASE n > 5
    <3>1. step \notin {"bundle", "mounts", "inject"}
      BY <1>1, <2>4, StepOrder
    <3> QED  BY <1>1, <1>4, <2>4, <3>1 DEF edited, progress
  <2> QED  BY <1>1, <2>1, <2>2, <2>3, <2>4
<1>7. boxed(n + 1) => spec'[i] = finalConfig
  <2>1. CASE step \in {"create", "restore"}
    <3>1. bundle[i] = finalConfig
      <4>1. n > 3 /\ (Cni => n > 5)
        BY <1>1, <2>1, StepOrder
      <4>2. CASE Cni
        BY <1>1, <4>1, <4>2 DEF progress
      <4>3. CASE ~Cni
        <5>1. Cni = FALSE
          BY <4>3
        <5> QED  BY <1>1, <4>1, <5>1 DEF progress, finalConfig
      <4> QED  BY <4>2, <4>3
    <3>2. spec'[i] = bundle[i]
      BY <1>1, <2>1, Makes DEF spawnStep, SpawnInv, TypeOK
    <3> QED  BY <3>1, <3>2
  <2>2. CASE step \notin {"create", "restore"}
    <3>1. boxed(n + 1) => boxed(n)
      BY <1>1, <2>2 DEF boxed
    <3>2. spec' = spec
      BY <2>2, Makes DEF spawnStep
    <3> QED  BY <1>1, <3>1, <3>2 DEF progress
  <2> QED  BY <2>1, <2>2
<1> QED  BY <1>1, <1>2, <1>3, <1>5, <1>6, <1>7 DEF progress, boxed, finalConfig, checkpointConfig

\* Other sentries keep theirs: spawn and cleanup touch one ID at a time.
LEMMA OtherProgress ==
  ASSUME SpawnInv, NEW g \in Goroutines, spawnStep(g) \/ spawnFail(g) \/ cleanup(g),
         NEW j \in Ids, j # job[g].id, NEW n, progress(j, n)
  PROVE  progress(j, n)'
<1>1. (\A k \in Kinds : j \in host[k] => j \in host'[k]) /\ bundle'[j] = bundle[j]
  <2>1. CASE spawnStep(g)
    BY <2>1 DEF spawnStep, SpawnInv, TypeOK
  <2>2. ASSUME NEW more, NEW less, exchange(job[g].id, more, less)
        PROVE  (\A k \in Kinds : j \in host[k] => j \in host'[k]) /\ bundle'[j] = bundle[j]
    BY <2>2 DEF exchange, SpawnInv, TypeOK
  <2>3. CASE spawnFail(g)
    BY <2>2, <2>3, Failed
  <2>4. CASE cleanup(g)
    BY <2>2, <2>4 DEF cleanup
  <2> QED  BY <2>1, <2>3, <2>4
<1>2. j \in nss => j \in nss'
  BY DEF spawnStep, spawnFail, cleanup
<1>3. spec'[j] = spec[j]
  BY DEF spawnStep, spawnFail, cleanup, SpawnInv, TypeOK
<1> QED  BY <1>1, <1>2, <1>3, KeepProgress

\* A step of spawn that succeeds: the next step, or a sentry for the pool.
LEMMA SpawnStepInv ==
  ASSUME SpawnInv, NEW g \in Goroutines, spawnStep(g) PROVE SpawnInv'
<1> DEFINE i == job[g].id
           n == job[g].at
           step == spawnSteps[n]
<1>1. /\ job[g].task = "spawn" /\ i \in Ids /\ i \in 1 .. nextID /\ i \notin live
      /\ n \in 1 .. Len(spawnSteps)
      /\ \A h \in Goroutines : h # g /\ job[h].task # "idle" => job[h].id # i
      /\ Len(spawnSteps) \in Nat /\ Len(spawnSteps) >= 5
  BY JobFacts, StepOrder DEF spawnStep, spawning
<1>2. /\ \A h \in Goroutines : h # g => job'[h] = job[h]
      /\ UNCHANGED <<nextID, restarts, old>>
      /\ \/ /\ n < Len(spawnSteps) /\ live' = live
            /\ job'[g].task = "spawn" /\ job'[g].id = i /\ job'[g].at = n + 1
         \/ n = Len(spawnSteps) /\ live' = live \cup {i} /\ job'[g] = Idle
  <2>1. CASE n < Len(spawnSteps) /\ job' = [job EXCEPT ![g].at = @ + 1] /\ UNCHANGED live
    BY <1>1, <2>1, Advance DEF spawnStep
  <2>2. CASE /\ n = Len(spawnSteps) /\ live' = live \cup {i}
             /\ job' = [job EXCEPT ![g] = Idle]
    BY <2>2 DEF spawnStep, SpawnInv, TypeOK
  <2> QED  BY <2>1, <2>2 DEF spawnStep
<1>3. TypeOK'
  <2>1. job' \in [Goroutines -> Job]
    <3>1. CASE job' = [job EXCEPT ![g].at = @ + 1] /\ n < Len(spawnSteps)
      BY <3>1, Advance
    <3>2. CASE job' = [job EXCEPT ![g] = Idle]
      BY <1>1, <3>2 DEF SpawnInv, TypeOK, Job, Idle
    <3> QED  BY <3>1, <3>2 DEF spawnStep
  <2>2. host' \in [Kinds -> SUBSET Ids]
    BY <1>1 DEF spawnStep, SpawnInv, TypeOK
  <2>3. edited(step, i) \in Config /\ bundle[i] \in Config
    <3>1. bundle[i] \in Config /\ checkpointConfig \in Config
      BY <1>1 DEF SpawnInv, TypeOK, Config, checkpointConfig
    <3>2. \A c \in Config : [c EXCEPT !.mounts = @ + 1] \in Config
      BY DEF Config
    <3>3. \A c \in Config : [c EXCEPT !.netns = TRUE] \in Config
      BY DEF Config
    <3> QED  BY <3>1, <3>2, <3>3 DEF edited, prepareBundle
  <2>4. bundle' \in [Ids -> Config] /\ spec' \in [Ids -> Config]
    BY <1>1, <2>3 DEF spawnStep, SpawnInv, TypeOK
  <2>5. /\ phase' \in {"starting", "serving", "exited", "crashed"}
        /\ live' \subseteq Ids /\ pids' \subseteq Ids /\ nss' \subseteq Ids
    BY <1>1 DEF spawnStep, SpawnInv, TypeOK
  <2> QED  BY <1>2, <2>1, <2>2, <2>4, <2>5 DEF SpawnInv, TypeOK
<1>4. CleanupInv'
  BY <1>2 DEF SpawnInv, CleanupInv, Idle
<1>5. IdInv'
  <2>1. live' \subseteq 1 .. nextID'
    BY <1>1, <1>2 DEF SpawnInv, IdInv
  <2>2. ASSUME NEW h \in Goroutines, job'[h].task # "idle"
        PROVE  /\ job'[h].id \in 1 .. nextID' /\ job'[h].id \notin live' /\ job'[h].at >= 1
               /\ job[h].task # "idle" /\ job'[h].id = job[h].id
    <3>1. CASE h = g
      BY <1>1, <1>2, <2>2, <3>1 DEF Idle
    <3>2. CASE h # g
      BY <1>1, <1>2, <2>2, <3>2 DEF SpawnInv, IdInv
    <3> QED  BY <3>1, <3>2
  <2> QED  BY <2>1, <2>2 DEF SpawnInv, IdInv
<1>6. ProgressInv'
  <2>1. \A j \in live : progress(j, Len(spawnSteps) + 1)'
    BY <1>1, OtherProgress DEF SpawnInv, ProgressInv, TypeOK
  <2>2. \A h \in Goroutines : h # g /\ job'[h].task = "spawn" => progress(job[h].id, job[h].at)'
    <3>1. \A h \in Goroutines : h # g /\ job[h].task = "spawn" =>
            progress(job[h].id, job[h].at) /\ job[h].id \in Ids /\ job[h].id # i
      BY <1>1, JobFacts DEF SpawnInv, ProgressInv
    <3>2. \A j \in Ids : \A m : j # i /\ progress(j, m) => progress(j, m)'
      BY OtherProgress
    <3> QED  BY <1>2, <3>1, <3>2
  <2>3. \A j, m : j = i /\ m = n => progress(j, m + 1)'
    BY NextProgress
  <2>4. CASE n = Len(spawnSteps) /\ live' = live \cup {i} /\ job'[g] = Idle
    <3>1. \A j, m : j = i /\ m = Len(spawnSteps) => progress(j, m + 1)'
      BY <2>3, <2>4
    <3> QED  BY <2>1, <2>2, <2>4, <3>1 DEF ProgressInv, Idle
  <2>5. CASE live' = live /\ job'[g].id = i /\ job'[g].at = n + 1
    BY <2>1, <2>2, <2>3, <2>5 DEF ProgressInv
  <2> QED  BY <1>2, <2>4, <2>5
<1>7. PidInv'
  <2>1. pids \subseteq pids' /\ (step = "state" => i \in pids')
    BY DEF spawnStep
  <2>2. stated(n + 1) => stated(n) \/ step = "state"
    BY <1>1 DEF stated
  <2>3. stated(n + 1) => i \in pids'
    BY <1>1, <2>1, <2>2 DEF SpawnInv, PidInv
  <2>4. n = Len(spawnSteps) => i \in pids'
    BY <1>1, <2>3, StepOrder DEF stated
  <2>5. live' \subseteq pids'
    BY <1>2, <2>1, <2>4 DEF SpawnInv, PidInv
  <2>6. ASSUME NEW h \in Goroutines,
               job'[h].task = "cleanup" \/ (job'[h].task = "spawn" /\ stated(job'[h].at))
        PROVE  job'[h].id \in pids'
    <3>1. CASE h = g
      BY <1>2, <2>3, <2>6, <3>1 DEF Idle
    <3>2. CASE h # g
      BY <1>2, <2>1, <2>6, <3>2 DEF SpawnInv, PidInv
    <3> QED  BY <3>1, <3>2
  <2> QED  BY <2>5, <2>6 DEF PidInv, stated
<1>8. BoxInv'
  <2> SUFFICES ASSUME restarts = 0 PROVE BoxInv'
    BY <1>2 DEF BoxInv
  <2>1. live' \cup inProgress' = live \cup inProgress
    BY <1>1, <1>2 DEF inProgress, Idle
  <2>2. \A j : j # i => /\ j \in host'["box"] <=> j \in host["box"]
                        /\ j \in host'["proc"] <=> j \in host["proc"]
                        /\ j \in pids' <=> j \in pids
    BY DEF spawnStep, Kinds
  <2>3. i \in inProgress /\ i \in 1 .. nextID
    BY <1>1 DEF inProgress
  <2>4. step \notin {"create", "restore"} =>
          host'["box"] = host["box"] /\ host'["proc"] = host["proc"]
    BY Makes DEF spawnStep, Kinds
  <2>5. ~boxed(n + 1) => ~boxed(n) /\ step \notin {"create", "restore"}
    BY <1>1 DEF boxed
  <2>6. /\ \A j \in host'["proc"] \ (live' \cup inProgress') : CleanupFails /\ j \notin pids'
        /\ host'["proc"] \cup host'["box"] \subseteq 1 .. nextID'
    BY <1>2, <2>1, <2>2, <2>3 DEF SpawnInv, BoxInv
  <2>7. ASSUME NEW h \in Goroutines, h # g
        PROVE  /\ job'[h].task = "spawn" /\ ~boxed(job'[h].at) =>
                    job'[h].id \notin host'["proc"] /\ job'[h].id \notin host'["box"]
               /\ job'[h].task = "cleanup" /\ job'[h].at > 1 => job'[h].id \notin host'["proc"]
    BY <1>1, <1>2, <2>2, <2>7 DEF SpawnInv, BoxInv
  <2>8. /\ job'[g].task = "spawn" /\ ~boxed(job'[g].at) =>
             job'[g].id \notin host'["proc"] /\ job'[g].id \notin host'["box"]
        /\ job'[g].task # "cleanup"
    BY <1>1, <1>2, <2>4, <2>5 DEF SpawnInv, BoxInv, Idle
  <2> QED  BY <2>6, <2>7, <2>8 DEF BoxInv, boxed
<1> QED  BY <1>3, <1>4, <1>5, <1>6, <1>7, <1>8 DEF SpawnInv

\* A step of spawn that fails: its error path leaves a sandbox process only if
\* runsc fails to delete it and its PID is not known.
LEMMA SpawnFailInv ==
  ASSUME SpawnInv, NEW g \in Goroutines, spawnFail(g) PROVE SpawnInv'
<1> DEFINE i == job[g].id
           n == job[g].at
           step == spawnSteps[n]
<1>1. /\ job[g].task = "spawn" /\ i \in Ids /\ i \in 1 .. nextID /\ i \notin live
      /\ n \in 1 .. Len(spawnSteps)
      /\ \A h \in Goroutines : h # g /\ job[h].task # "idle" => job[h].id # i
  BY JobFacts DEF spawnFail, spawning
<1>2. /\ job'[g] = Idle /\ \A h \in Goroutines : h # g => job'[h] = job[h]
      /\ job' \in [Goroutines -> Job]
      /\ UNCHANGED <<nextID, live, pids, nss, spec, restarts, old>>
  BY StepOrder DEF spawnFail, SpawnInv, TypeOK, Job, Idle
<1> PICK part \in SUBSET makes(step) :
           \E kept \in left(i, undone(step, part)) : exchange(i, part, undone(step, part) \ kept)
  BY Failed
<1> PICK kept \in left(i, undone(step, part)) : exchange(i, part, undone(step, part) \ kept)
  OBVIOUS
<1>3. TypeOK'
  <2>1. host' \in [Kinds -> SUBSET Ids]
    BY <1>1 DEF exchange, SpawnInv, TypeOK
  <2>2. bundle' \in [Ids -> Config]
    <3>1. checkpointConfig \in Config
      BY DEF checkpointConfig, Config
    <3> QED  BY <3>1 DEF exchange, SpawnInv, TypeOK
  <2>3. phase' \in {"starting", "serving", "exited", "crashed"}
    BY DEF spawnFail, SpawnInv, TypeOK
  <2> QED  BY <1>2, <2>1, <2>2, <2>3 DEF SpawnInv, TypeOK
<1>4. CleanupInv' /\ IdInv'
  BY <1>2 DEF SpawnInv, CleanupInv, IdInv, Idle
<1>5. ProgressInv'
  <2>1. \A j \in Ids : \A m : j # i /\ progress(j, m) => progress(j, m)'
    BY OtherProgress
  <2>2. \A j \in live : progress(j, Len(spawnSteps) + 1)'
    BY <1>1, <2>1 DEF SpawnInv, ProgressInv, TypeOK
  <2>3. \A h \in Goroutines : h # g /\ job[h].task = "spawn" =>
          progress(job[h].id, job[h].at) /\ job[h].id \in Ids /\ job[h].id # i
    BY <1>1, JobFacts DEF SpawnInv, ProgressInv
  <2>4. \A h \in Goroutines : job'[h].task = "spawn" => progress(job[h].id, job[h].at)'
    BY <1>2, <2>1, <2>3 DEF Idle
  <2> QED  BY <1>2, <2>2, <2>4 DEF ProgressInv
<1>6. PidInv'
  BY <1>2 DEF SpawnInv, PidInv, stated, Idle
<1>7. BoxInv'
  <2> SUFFICES ASSUME restarts = 0 PROVE BoxInv'
    BY <1>2 DEF BoxInv
  <2>1. \A j : j # i => /\ j \in host'["box"] <=> j \in host["box"]
                        /\ j \in host'["proc"] <=> j \in host["proc"]
    BY DEF exchange, Kinds
  <2>2. i \in host'["proc"] => CleanupFails /\ i \notin pids
    <3>1. CASE "proc" \in undone(step, part)
      <4>1. "proc" \notin kept => i \notin host'["proc"]
        BY <3>1 DEF exchange, Kinds
      <4>2. "proc" \in kept => CleanupFails /\ i \notin pids
        BY DEF left
      <4> QED  BY <4>1, <4>2
    <3>2. CASE "proc" \notin undone(step, part)
      <4>1. step \in {"mkdir", "bundle", "mounts", "netns"}
        BY <3>2 DEF undone
      <4>2. ~boxed(n)
        <5>1. n <= 3 \/ (Cni /\ n = 4)
          BY <1>1, <4>1, StepOrder
        <5> QED  BY <1>1, <5>1, StepOrder DEF boxed
      <4>3. i \notin host["proc"] /\ "proc" \notin part
        BY <1>1, <4>1, <4>2, Makes DEF SpawnInv, BoxInv
      <4> QED  BY <3>2, <4>3 DEF exchange, Kinds
    <3> QED  BY <3>1, <3>2
  <2>3. inProgress \subseteq inProgress' \cup {i}
    BY <1>2 DEF inProgress
  <2>4. \A j \in host'["proc"] \ (live' \cup inProgress') : CleanupFails /\ j \notin pids'
    BY <1>2, <2>1, <2>2, <2>3 DEF SpawnInv, BoxInv
  <2>5. host'["proc"] \cup host'["box"] \subseteq 1 .. nextID'
    BY <1>1, <1>2, <2>1, JobFacts DEF SpawnInv, BoxInv
  <2>6. ASSUME NEW h \in Goroutines
        PROVE  /\ job'[h].task = "spawn" /\ ~boxed(job'[h].at) =>
                    job'[h].id \notin host'["proc"] /\ job'[h].id \notin host'["box"]
               /\ job'[h].task = "cleanup" /\ job'[h].at > 1 => job'[h].id \notin host'["proc"]
    BY <1>1, <1>2, <2>1 DEF SpawnInv, BoxInv, Idle
  <2> QED  BY <2>4, <2>5, <2>6 DEF BoxInv, boxed
<1> QED  BY <1>3, <1>4, <1>5, <1>6, <1>7 DEF SpawnInv

\* A sentry leaves the pool with a goroutine that cleans it up.
LEMMA RetireInv ==
  ASSUME SpawnInv, NEW g \in Goroutines, NEW i \in Ids, retire(g, i) PROVE SpawnInv'
<1>1. /\ i \in live /\ live' = live \ {i} /\ job[g].task = "idle"
      /\ job'[g] = [task |-> "cleanup", at |-> 1, id |-> i]
      /\ \A h \in Goroutines : h # g => job'[h] = job[h]
      /\ UNCHANGED <<phase, nextID, pids, nss, host, bundle, spec, restarts, old>>
  BY DEF retire, SpawnInv, TypeOK
<1>2. TypeOK'
  <2>1. job' \in [Goroutines -> Job]
    <3>1. [task |-> "cleanup", at |-> 1, id |-> i] \in Job
      BY StepOrder DEF Job, Ids
    <3> QED  BY <3>1 DEF retire, SpawnInv, TypeOK
  <2> QED  BY <1>1, <2>1 DEF SpawnInv, TypeOK
<1>3. CleanupInv'
  BY <1>1 DEF SpawnInv, CleanupInv
<1>4. IdInv'
  <2>1. \A h \in Goroutines : h # g /\ job[h].task # "idle" => job[h].id # i
    BY <1>1 DEF SpawnInv, IdInv
  <2>2. \A h \in Goroutines : job'[h].task # "idle" =>
          job'[h].id \in 1 .. nextID' /\ job'[h].id \notin live' /\ job'[h].at >= 1
    BY <1>1 DEF SpawnInv, IdInv
  <2>3. \A h, f \in Goroutines :
          job'[h].task # "idle" /\ job'[f].task # "idle" /\ job'[h].id = job'[f].id => h = f
    BY <1>1, <2>1 DEF SpawnInv, IdInv
  <2> QED  BY <1>1, <2>2, <2>3 DEF SpawnInv, IdInv
<1>5. ProgressInv'
  <2>1. \A j, m : progress(j, m) => progress(j, m)'
    BY <1>1, KeepProgress
  <2>2. \A h \in Goroutines : job'[h].task = "spawn" => job'[h] = job[h]
    BY <1>1
  <2>3. \A h \in Goroutines : job'[h].task = "spawn" => progress(job[h].id, job[h].at)'
    BY <2>1, <2>2 DEF SpawnInv, ProgressInv
  <2> QED  BY <1>1, <2>1, <2>3 DEF SpawnInv, ProgressInv
<1>6. PidInv'
  BY <1>1 DEF SpawnInv, PidInv, stated
<1>7. BoxInv'
  <2>1. live \cup inProgress \subseteq live' \cup inProgress'
    BY <1>1 DEF inProgress
  <2> QED  BY <1>1, <2>1 DEF SpawnInv, BoxInv, boxed
<1> QED  BY <1>2, <1>3, <1>4, <1>5, <1>6, <1>7 DEF SpawnInv

\* cleanup kills the process before anything else of its sentry: its PID is
\* known.
LEMMA CleanupStepInv ==
  ASSUME SpawnInv, NEW g \in Goroutines, cleanup(g) PROVE SpawnInv'
<1> DEFINE i == job[g].id
           n == job[g].at
           ks == cleanupSteps[n]
<1>1. /\ job[g].task = "cleanup" /\ i \in Ids /\ i \notin live /\ n \in 1 .. 4
      /\ \A h \in Goroutines : h # g /\ job[h].task # "idle" => job[h].id # i
  <2>1. job[g].task = "cleanup"
    BY DEF cleanup
  <2>2. n \in 1 .. Len(spawnSteps) /\ n <= 4
    BY <2>1, JobFacts DEF SpawnInv, CleanupInv
  <2> QED  BY <2>1, <2>2, JobFacts, StepOrder, SMTT(30)
<1>2. n = 1 => ks = {"box", "proc"}
  BY DEF cleanupSteps
<1>3. Len(cleanupSteps) = 4
  BY DEF cleanupSteps
<1>4. /\ \A h \in Goroutines : h # g => job'[h] = job[h]
      /\ job' \in [Goroutines -> Job]
      /\ UNCHANGED <<phase, nextID, live, pids, spec, restarts, old>>
      /\ \/ n = 4 /\ job'[g] = Idle
         \/ n < 4 /\ job'[g].task = "cleanup" /\ job'[g].id = i /\ job'[g].at = n + 1
  <2>1. CASE n = 4
    <3>1. job' = [job EXCEPT ![g] = Idle]
      BY <1>3, <2>1 DEF cleanup
    <3>2. Idle \in Job
      BY StepOrder DEF Idle, Job
    <3>3. job' \in [Goroutines -> Job] /\ job'[g] = Idle
          /\ \A h \in Goroutines : h # g => job'[h] = job[h]
      BY <3>1, <3>2 DEF SpawnInv, TypeOK
    <3> QED  BY <2>1, <3>3 DEF cleanup
  <2>2. CASE n < 4
    <3>1. n # Len(cleanupSteps)
      BY <1>1, <1>3, <2>2
    <3>2. job' = [job EXCEPT ![g].at = @ + 1]
      BY <3>1 DEF cleanup, SpawnInv, TypeOK
    <3>3. n < Len(spawnSteps)
      BY <1>1, <2>2, StepOrder
    <3>4. /\ \A h \in Goroutines : h # g => job'[h] = job[h]
          /\ job'[g].task = job[g].task /\ job'[g].id = job[g].id /\ job'[g].at = job[g].at + 1
          /\ job' \in [Goroutines -> Job]
      BY <3>2, <3>3, Advance
    <3> QED  BY <1>1, <2>2, <3>4 DEF cleanup
  <2> QED  BY <1>1, <2>1, <2>2
<1> PICK kept \in left(i, ks) : exchange(i, {}, ks \ kept)
  BY DEF cleanup
<1>5. TypeOK'
  <2>1. host' \in [Kinds -> SUBSET Ids]
    BY DEF exchange, SpawnInv, TypeOK
  <2>2. bundle' \in [Ids -> Config]
    <3>1. checkpointConfig \in Config
      BY DEF checkpointConfig, Config
    <3> QED  BY <3>1 DEF exchange, SpawnInv, TypeOK
  <2>3. nss' \subseteq Ids
    BY DEF cleanup, SpawnInv, TypeOK
  <2> QED  BY <1>4, <2>1, <2>2, <2>3 DEF SpawnInv, TypeOK
<1>6. CleanupInv'
  BY <1>1, <1>4 DEF SpawnInv, CleanupInv, Idle
<1>7. \A h \in Goroutines : job'[h].task # "idle" =>
        job[h].task = job'[h].task /\ job'[h].id = job[h].id /\ job'[h].at >= job[h].at
  BY <1>1, <1>4, JobFacts DEF Idle
<1>8. IdInv'
  <2>1. ASSUME NEW h \in Goroutines, job'[h].task # "idle"
        PROVE  /\ job'[h].id \in 1 .. nextID' /\ job'[h].id \notin live' /\ job'[h].at >= 1
               /\ job[h].task # "idle" /\ job'[h].id = job[h].id
    <3>1. job[h].task # "idle" /\ job'[h].id = job[h].id
      BY <1>7, <2>1
    <3>2. job'[h].at >= 1
      BY <1>1, <1>4, <2>1, <3>1 DEF SpawnInv, IdInv, Idle
    <3> QED  BY <1>4, <3>1, <3>2 DEF SpawnInv, IdInv
  <2> QED  BY <1>4, <2>1 DEF SpawnInv, IdInv
<1>9. ProgressInv'
  <2>1. \A j \in Ids : \A m : j # i /\ progress(j, m) => progress(j, m)'
    BY OtherProgress
  <2>2. \A j \in live : progress(j, Len(spawnSteps) + 1)'
    BY <1>1, <2>1 DEF SpawnInv, ProgressInv, TypeOK
  <2>3. \A h \in Goroutines : h # g /\ job[h].task = "spawn" =>
          progress(job[h].id, job[h].at) /\ job[h].id \in Ids /\ job[h].id # i
    BY <1>1, JobFacts DEF SpawnInv, ProgressInv
  <2>4. \A h \in Goroutines : job'[h].task = "spawn" => progress(job[h].id, job[h].at)'
    BY <1>1, <1>4, <1>7, <2>1, <2>3 DEF Idle
  <2> QED  BY <1>4, <2>2, <2>4 DEF ProgressInv
<1>10. PidInv'
  BY <1>1, <1>4, <1>7 DEF SpawnInv, PidInv, stated, Idle
<1>11. BoxInv'
  <2> SUFFICES ASSUME restarts = 0 PROVE BoxInv'
    BY <1>4 DEF BoxInv
  <2>1. host'["proc"] \subseteq host["proc"] /\ host'["box"] \subseteq host["box"]
    BY DEF exchange, Kinds
  <2>2. n = 1 => i \notin host'["proc"]
    <3>1. "proc" \notin kept
      BY <1>1 DEF left, SpawnInv, PidInv
    <3> QED  BY <1>2, <3>1 DEF exchange, Kinds
  <2>3. i \notin host'["proc"]
    BY <1>1, <2>1, <2>2 DEF SpawnInv, BoxInv
  <2>4. inProgress \subseteq inProgress' \cup {i}
    BY <1>4 DEF inProgress
  <2>5. /\ \A j \in host'["proc"] \ (live' \cup inProgress') : CleanupFails /\ j \notin pids'
        /\ host'["proc"] \cup host'["box"] \subseteq 1 .. nextID'
    BY <1>4, <2>1, <2>3, <2>4 DEF SpawnInv, BoxInv
  <2>6. \A h \in Goroutines :
          /\ job'[h].task = "spawn" /\ ~boxed(job'[h].at) =>
               job'[h].id \notin host'["proc"] /\ job'[h].id \notin host'["box"]
          /\ job'[h].task = "cleanup" /\ job'[h].at > 1 => job'[h].id \notin host'["proc"]
    BY <1>1, <1>4, <2>1, <2>3 DEF SpawnInv, BoxInv, Idle
  <2> QED  BY <2>5, <2>6 DEF BoxInv, boxed
<1> QED  BY <1>5, <1>6, <1>8, <1>9, <1>10, <1>11 DEF SpawnInv

\* A crash keeps the host as it is; a new daemon starts with none of its own.
LEMMA RestartInv ==
  ASSUME SpawnInv, crash \/ restart PROVE SpawnInv'
<1>1. CASE crash
  <2>1. /\ UNCHANGED <<nextID, job, live, pids, nss, host, bundle, spec, restarts, old>>
        /\ phase' = "crashed"
    BY <1>1 DEF crash
  <2>2. TypeOK'
    BY <2>1 DEF SpawnInv, TypeOK
  <2>3. CleanupInv' /\ IdInv' /\ PidInv' /\ BoxInv'
    BY <2>1 DEF SpawnInv, CleanupInv, IdInv, PidInv, stated, BoxInv, boxed, inProgress
  <2>4. ProgressInv'
    <3>1. \A j, m : progress(j, m) => progress(j, m)'
      BY <2>1, KeepProgress
    <3> QED  BY <2>1, <3>1 DEF SpawnInv, ProgressInv
  <2> QED  BY <2>2, <2>3, <2>4 DEF SpawnInv
<1>2. CASE restart
  <2>1. /\ nextID' = 0 /\ live' = {} /\ pids' = {} /\ nss' = {} /\ phase' = "starting"
        /\ job' = [g \in Goroutines |-> Idle] /\ spec' = spec
        /\ restarts' = restarts + 1 /\ restarts < MaxRestarts
        /\ old' = host'["netns"] \cup host'["box"]
    BY <1>2 DEF restart
  <2>2. TypeOK'
    <3>1. host' \in [Kinds -> SUBSET Ids]
      <4>1. host["proc"] \subseteq Ids /\ host["cgroup"] \subseteq Ids
        BY DEF SpawnInv, TypeOK, Kinds
      <4>2. PICK wiped \in BOOLEAN, alive \in {{}, host["proc"]} :
              host' = [host EXCEPT !["dir"]    = IF wiped THEN {} ELSE @,
                                   !["box"]    = IF wiped THEN {} ELSE @,
                                   !["proc"]   = alive,
                                   !["cgroup"] = @ \cap alive]
        BY <1>2, Zenon DEF restart
      <4>3. alive \subseteq Ids
        BY <4>1
      <4> QED  BY <4>1, <4>2, <4>3 DEF SpawnInv, TypeOK, Kinds
    <3>2. bundle' \in [Ids -> Config]
      <4>1. checkpointConfig \in Config
        BY DEF checkpointConfig, Config
      <4> QED  BY <1>2, <4>1 DEF restart, SpawnInv, TypeOK
    <3>3. job' \in [Goroutines -> Job]
      BY <2>1, StepOrder DEF Job, Idle
    <3>4. old' \subseteq Ids
      BY <2>1, <3>1 DEF Kinds
    <3> QED  BY <2>1, <3>1, <3>2, <3>3, <3>4 DEF SpawnInv, TypeOK
  <2>3. \A g \in Goroutines : job'[g].task = "idle"
    BY <2>1 DEF Idle
  <2>4. restarts' # 0
    BY <2>1 DEF SpawnInv, TypeOK
  <2> QED  BY <2>1, <2>2, <2>3, <2>4 DEF SpawnInv, CleanupInv, IdInv, ProgressInv, PidInv, BoxInv
<1> QED  BY <1>1, <1>2

-----------------------------------------------------------------------------
(* Theorems *)

\* SpawnInv is an invariant.
THEOREM SpawnInvariant == Spec => []SpawnInv
<1>1. SpawnInv /\ [Next]_vars => SpawnInv'
  <2> SUFFICES ASSUME SpawnInv, [Next]_vars PROVE SpawnInv'
    OBVIOUS
  <2>1. CASE UNCHANGED vars
    <3>1. \A j, m : progress(j, m) => progress(j, m)'
      BY <2>1, KeepProgress DEF vars
    <3>2. ProgressInv'
      BY <2>1, <3>1 DEF vars, SpawnInv, ProgressInv
    <3> QED  BY <2>1, <3>2 DEF vars, SpawnInv, TypeOK, CleanupInv, IdInv, PidInv, stated, BoxInv,
                boxed, inProgress
  <2> QED  BY <2>1, BeginInv, SpawnStepInv, SpawnFailInv, RetireInv, CleanupStepInv, RestartInv
              DEF Next
<1> QED  BY <1>1, InitInv, PTL DEF Spec

\* Types: spawn and cleanup never step past their last step.
THEOREM SpawnTypes == Spec => []TypeOK
<1>1. SpawnInv => TypeOK
  BY DEF SpawnInv
<1> QED  BY <1>1, SpawnInvariant, PTL

\* A sentry in the pool has everything its configuration calls for, whatever
\* other goroutines do and whatever a crashed daemon left on the host.
THEOREM Complete == Spec => []LiveIsComplete
<1>1. SpawnInv => LiveIsComplete
  <2> SUFFICES ASSUME SpawnInv, NEW i \in live
               PROVE  /\ \A n \in 1 .. Len(spawnSteps) : \A k \in makes(spawnSteps[n]) : i \in host[k]
                      /\ Cni => i \in nss
                      /\ spec[i] = [mounts |-> 1, netns |-> Cni]
    BY DEF LiveIsComplete
  <2>1. progress(i, Len(spawnSteps) + 1)
    BY DEF SpawnInv, ProgressInv
  <2>2. boxed(Len(spawnSteps) + 1)
    BY StepOrder DEF boxed
  <2> QED  BY <2>1, <2>2, StepOrder DEF progress, finalConfig
<1> QED  BY <1>1, SpawnInvariant, PTL

\* In the daemon's first life every sandbox process has an owner, except one
\* that runsc failed to delete before spawn knew its PID: every error path
\* behind create and restore tries to kill it, and cleanup does so first.
THEOREM BoxesOwned == Spec => []SandboxOwned
<1>1. SpawnInv => SandboxOwned
  BY DEF SpawnInv, BoxInv, SandboxOwned
<1> QED  BY <1>1, SpawnInvariant, PTL

-----------------------------------------------------------------------------
(* What a failed spawn leaves *)

\* The first step that makes a container, and the step that makes a cgroup.
LEMMA FirstBox ==
  ASSUME NEW n \in 1 .. Len(spawnSteps)
  PROVE  /\ spawnSteps[n] = "create" \/ (spawnSteps[n] = "restore" /\ ~Warm) => ~boxed(n)
         /\ spawnSteps[n] = "restore" /\ Warm => boxed(n)
         /\ spawnSteps[n] = "cgroup" => Cgroups
<1>1. ASSUME spawnSteps[n] = "create" \/ (spawnSteps[n] = "restore" /\ ~Warm)
      PROVE  n = IF Cni THEN 6 ELSE 4
  <2>1. CASE spawnSteps[n] = "create"
    BY <2>1, SMTT(60) DEF spawnSteps
  <2>2. CASE spawnSteps[n] = "restore" /\ ~Warm
    BY <2>2, SMTT(60) DEF spawnSteps
  <2> QED  BY <1>1, <2>1, <2>2
<1>2. ASSUME spawnSteps[n] = "create" \/ (spawnSteps[n] = "restore" /\ ~Warm)
      PROVE  ~boxed(n)
  BY <1>1, <1>2, StepOrder DEF boxed
<1>3. spawnSteps[n] = "cgroup" => Cgroups
  BY SMTT(60) DEF spawnSteps
<1>4. ASSUME spawnSteps[n] = "restore", Warm PROVE boxed(n)
  <2>1. n = (IF Cni THEN 7 ELSE 5) /\ spawnSteps[n - 1] = "create"
    BY <1>4, SMTT(60) DEF spawnSteps
  <2> QED  BY <2>1, StepOrder DEF boxed
<1> QED  BY <1>2, <1>3, <1>4

\* What can be on the host beyond a directory and a process.
Lasting == {"netns", "ip", "cgroup", "box"}

\* Only a configuration with networks or cgroups makes these.
MadeInv ==
  /\ ~Cni => host["netns"] = {} /\ host["ip"] = {}
  /\ ~Cgroups => host["cgroup"] = {}

\* In the first life: a spawn that has not made its network namespace finds
\* none of its ID, and a cleanup has given back what its steps so far are for.
OwnedInv ==
  restarts = 0 =>
    /\ \A k \in Lasting : host[k] \subseteq live \cup inProgress
    /\ \A g \in Goroutines :
         /\ job[g].task = "spawn" /\ job[g].at <= 4 => job[g].id \notin host["netns"]
         /\ job[g].task = "cleanup" /\ job[g].at > 2 =>
              job[g].id \notin host["netns"] /\ job[g].id \notin host["ip"]
         /\ job[g].task = "cleanup" /\ job[g].at > 3 => job[g].id \notin host["cgroup"]
         /\ job[g].task = "cleanup" /\ job[g].at > 1 => job[g].id \notin host["box"]

\* Only the steps for networks and cgroups make these, in any life.
LEMMA MadeKeeps ==
  ASSUME SpawnInv, MadeInv, [Next]_vars PROVE MadeInv'
<1>1. ASSUME NEW g \in Goroutines, spawnStep(g) PROVE MadeInv'
  <2> DEFINE step == spawnSteps[job[g].at]
  <2>1. job[g].at \in 1 .. Len(spawnSteps)
    BY <1>1, JobFacts DEF spawnStep, spawning
  <2>2. (step = "netns" => Cni) /\ (step = "cgroup" => Cgroups)
    BY <2>1, StepOrder, FirstBox
  <2>3. \A k \in Kinds : k \notin makes(step) => host'[k] = host[k]
    BY <1>1 DEF spawnStep
  <2>4. /\ {"netns", "ip"} \cap makes(step) # {} => step = "netns"
        /\ "cgroup" \in makes(step) => step = "cgroup"
    BY DEF makes
  <2> QED  BY <2>2, <2>3, <2>4 DEF MadeInv, Kinds
<1>2. ASSUME NEW g \in Goroutines, spawnFail(g) PROVE MadeInv'
  <2> DEFINE step == spawnSteps[job[g].at]
  <2>1. job[g].at \in 1 .. Len(spawnSteps)
    BY <1>2, JobFacts DEF spawnFail, spawning
  <2>2. (step = "netns" => Cni) /\ (step = "cgroup" => Cgroups)
    BY <2>1, StepOrder, FirstBox
  <2>3. \A k \in Kinds : k \notin makes(step) => host'[k] \subseteq host[k]
    BY <1>2, Failed DEF exchange
  <2>4. /\ {"netns", "ip"} \cap makes(step) # {} => step = "netns"
        /\ "cgroup" \in makes(step) => step = "cgroup"
    BY DEF makes
  <2> QED  BY <2>2, <2>3, <2>4 DEF MadeInv, Kinds
<1>6. ASSUME NEW g \in Goroutines, cleanup(g) PROVE MadeInv'
  <2>1. \A k \in Kinds : host'[k] \subseteq host[k]
    BY <1>6 DEF cleanup, exchange
  <2> QED  BY <2>1 DEF MadeInv, Kinds
<1>3. CASE restart
  <2>1. /\ host'["netns"] = host["netns"] /\ host'["ip"] = host["ip"]
        /\ host'["cgroup"] \subseteq host["cgroup"]
    BY <1>3 DEF restart, SpawnInv, TypeOK, Kinds
  <2> QED  BY <2>1 DEF MadeInv
<1>4. CASE crash \/ UNCHANGED vars
  BY <1>4 DEF crash, vars, MadeInv
<1>5. ASSUME NEW g \in Goroutines, begin(g) \/ \E i \in Ids : retire(g, i) PROVE MadeInv'
  BY <1>5 DEF begin, retire, MadeInv
<1> QED  BY <1>1, <1>2, <1>3, <1>4, <1>5, <1>6 DEF Next

\* A new ID owns nothing.
LEMMA BeginOwned ==
  ASSUME SpawnInv, OwnedInv, NEW g \in Goroutines, begin(g) PROVE OwnedInv'
<1>1. /\ nextID \in Nat /\ nextID' = nextID + 1
      /\ job'[g] = [task |-> "spawn", at |-> 1, id |-> nextID + 1]
      /\ \A h \in Goroutines : h # g => job'[h] = job[h]
      /\ UNCHANGED <<live, host, restarts>>
  BY DEF begin, SpawnInv, TypeOK, Job
<1> SUFFICES ASSUME restarts = 0 PROVE OwnedInv'
  BY <1>1 DEF OwnedInv
<1>2. inProgress \subseteq inProgress'
  BY <1>1 DEF inProgress, begin
<1>3. live \cup inProgress \subseteq 1 .. nextID
  BY DEF inProgress, SpawnInv, IdInv
<1>4. nextID + 1 \notin host["netns"]
  BY <1>1, <1>3 DEF OwnedInv, Lasting
<1> QED  BY <1>1, <1>2, <1>4 DEF OwnedInv

\* What a step of spawn makes is that of its ID, which is in progress or live.
LEMMA SpawnStepOwned ==
  ASSUME SpawnInv, OwnedInv, NEW g \in Goroutines, spawnStep(g) PROVE OwnedInv'
<1> DEFINE i == job[g].id
           n == job[g].at
           step == spawnSteps[n]
<1>1. /\ job[g].task = "spawn" /\ n \in 1 .. Len(spawnSteps) /\ i \notin live
      /\ \A h \in Goroutines : h # g /\ job[h].task # "idle" => job[h].id # i
  BY JobFacts DEF spawnStep, spawning
<1>2. /\ \A h \in Goroutines : h # g => job'[h] = job[h]
      /\ restarts' = restarts
      /\ \/ /\ live' = live
            /\ job'[g].task = "spawn" /\ job'[g].id = i /\ job'[g].at = n + 1
         \/ live' = live \cup {i} /\ job'[g] = Idle
  <2>1. CASE n < Len(spawnSteps) /\ job' = [job EXCEPT ![g].at = @ + 1] /\ UNCHANGED live
    BY <1>1, <2>1, Advance DEF spawnStep
  <2>2. CASE live' = live \cup {i} /\ job' = [job EXCEPT ![g] = Idle]
    BY <2>2 DEF spawnStep, SpawnInv, TypeOK
  <2> QED  BY <2>1, <2>2 DEF spawnStep
<1> SUFFICES ASSUME restarts = 0 PROVE OwnedInv'
  BY <1>2 DEF OwnedInv
<1>3. live' \cup inProgress' = live \cup inProgress /\ i \in inProgress
  BY <1>1, <1>2 DEF inProgress, Idle
<1>4. \A j, k : k \in Kinds /\ j # i => (j \in host'[k] <=> j \in host[k])
  BY DEF spawnStep
<1>5. step # "netns" => host'["netns"] = host["netns"]
  BY DEF spawnStep, makes, Kinds
<1>6. n <= 3 => step # "netns"
  BY <1>1, StepOrder
<1>7. \A k \in Lasting : host'[k] \subseteq live' \cup inProgress'
  BY <1>3, <1>4 DEF OwnedInv, Lasting, Kinds
<1>8. ASSUME NEW h \in Goroutines
      PROVE  /\ job'[h].task = "spawn" /\ job'[h].at <= 4 => job'[h].id \notin host'["netns"]
             /\ job'[h].task = "cleanup" /\ job'[h].at > 2 =>
                  job'[h].id \notin host'["netns"] /\ job'[h].id \notin host'["ip"]
             /\ job'[h].task = "cleanup" /\ job'[h].at > 3 => job'[h].id \notin host'["cgroup"]
             /\ job'[h].task = "cleanup" /\ job'[h].at > 1 => job'[h].id \notin host'["box"]
  <2>1. CASE h # g
    BY <1>1, <1>2, <1>4, <2>1 DEF OwnedInv, Kinds
  <2>2. CASE h = g
    BY <1>1, <1>2, <1>5, <1>6, <2>2 DEF OwnedInv, Idle
  <2> QED  BY <2>1, <2>2
<1> QED  BY <1>7, <1>8 DEF OwnedInv

\* In the first life an ID meets no resource of that ID.
LEMMA NoConflict ==
  ASSUME SpawnInv, OwnedInv, restarts = 0, NEW g \in Goroutines, spawning(g)
  PROVE  ~conflict(spawnSteps[job[g].at], job[g].id)
<1> DEFINE n == job[g].at
<1>1. n \in 1 .. Len(spawnSteps) /\ job[g].task = "spawn"
  BY JobFacts DEF spawning
<1>2. CASE spawnSteps[n] = "netns"
  BY <1>1, <1>2, StepOrder DEF OwnedInv, conflict
<1>3. CASE spawnSteps[n] = "create" \/ (spawnSteps[n] = "restore" /\ ~Warm)
  BY <1>1, <1>3, FirstBox DEF SpawnInv, BoxInv, conflict
<1> QED  BY <1>2, <1>3 DEF conflict

\* A failed spawn leaves nothing if there is nothing that cleanupPartial
\* forgets; without failures of the runtime there is none.
LEMMA SpawnFailOwned ==
  ASSUME SpawnInv, MadeInv, OwnedInv, ~CleanupFails, Fails => ~Cni /\ ~Cgroups,
         NEW g \in Goroutines, spawnFail(g)
  PROVE  OwnedInv'
<1> SUFFICES ASSUME restarts = 0 PROVE OwnedInv'
  BY DEF OwnedInv, spawnFail
<1> DEFINE i == job[g].id
           n == job[g].at
           step == spawnSteps[n]
<1>1. ~Cni /\ ~Cgroups
  BY NoConflict DEF spawnFail
<1>2. \A k \in {"netns", "ip", "cgroup"} : host'[k] = {}
  <2>1. MadeInv'
    BY MadeKeeps DEF Next
  <2> QED  BY <1>1, <2>1 DEF MadeInv
<1>3. /\ job[g].task = "spawn" /\ n \in 1 .. Len(spawnSteps) /\ i \notin live
      /\ \A h \in Goroutines : h # g /\ job[h].task # "idle" => job[h].id # i
  BY JobFacts DEF spawnFail, spawning
<1>4. /\ job'[g] = Idle /\ \A h \in Goroutines : h # g => job'[h] = job[h]
      /\ live' = live
  BY DEF spawnFail, SpawnInv, TypeOK
<1>5. (\A j : j # i => (j \in host'["box"] <=> j \in host["box"])) /\ i \notin host'["box"]
  <2> PICK part \in SUBSET makes(step) :
             \E kept \in left(i, undone(step, part)) : exchange(i, part, undone(step, part) \ kept)
    BY Failed
  <2> PICK kept \in left(i, undone(step, part)) : exchange(i, part, undone(step, part) \ kept)
    OBVIOUS
  <2>1. kept = {}
    BY DEF left
  <2>2. \A j : j # i => (j \in host'["box"] <=> j \in host["box"])
    BY DEF exchange, Kinds
  <2>3. CASE "box" \in undone(step, part)
    BY <2>1, <2>2, <2>3 DEF exchange, Kinds
  <2>4. CASE "box" \notin undone(step, part)
    <3>1. step \in {"mkdir", "bundle", "mounts", "netns"}
      BY <2>4 DEF undone
    <3>2. ~boxed(n)
      <4>1. n <= 3 \/ (Cni /\ n = 4)
        BY <1>3, <3>1, StepOrder
      <4> QED  BY <1>3, <4>1, StepOrder DEF boxed
    <3>3. i \notin host["box"] /\ "box" \notin part
      BY <1>3, <3>1, <3>2, Makes DEF SpawnInv, BoxInv
    <3> QED  BY <2>2, <2>4, <3>3 DEF exchange, Kinds
  <2> QED  BY <2>3, <2>4
<1>6. inProgress \subseteq inProgress' \cup {i}
  BY <1>4 DEF inProgress
<1>7. host'["box"] \subseteq live' \cup inProgress'
  BY <1>4, <1>5, <1>6 DEF OwnedInv, Lasting
<1>8. \A h \in Goroutines : job'[h].task = "cleanup" /\ job'[h].at > 1 => job'[h].id \notin host'["box"]
  BY <1>3, <1>4, <1>5 DEF OwnedInv, Idle
<1> QED  BY <1>2, <1>7, <1>8 DEF OwnedInv, Lasting

\* cleanup gives everything back before it lets go of an ID.
LEMMA CleanupOwned ==
  ASSUME SpawnInv, OwnedInv, ~CleanupFails, NEW g \in Goroutines, cleanup(g) PROVE OwnedInv'
<1> DEFINE i == job[g].id
           n == job[g].at
           ks == cleanupSteps[n]
<1>1. /\ job[g].task = "cleanup" /\ n \in 1 .. 4
      /\ \A h \in Goroutines : h # g /\ job[h].task # "idle" => job[h].id # i
  <2>1. job[g].task = "cleanup"
    BY DEF cleanup
  <2>2. n \in 1 .. Len(spawnSteps) /\ n <= 4
    BY <2>1, JobFacts DEF SpawnInv, CleanupInv
  <2> QED  BY <2>1, <2>2, JobFacts, StepOrder, SMTT(30)
<1>2. Len(cleanupSteps) = 4 /\ (n = 2 => ks = {"netns", "ip"}) /\ (n = 3 => ks = {"cgroup"})
      /\ (n = 1 => ks = {"box", "proc"})
  BY DEF cleanupSteps
<1>3. /\ \A h \in Goroutines : h # g => job'[h] = job[h]
      /\ live' = live /\ restarts' = restarts
      /\ \/ n = 4 /\ job'[g] = Idle
         \/ n < 4 /\ job'[g].task = "cleanup" /\ job'[g].id = i /\ job'[g].at = n + 1
  <2>1. CASE n = 4
    BY <1>2, <2>1 DEF cleanup, SpawnInv, TypeOK
  <2>2. CASE n < 4
    <3>1. n # Len(cleanupSteps)
      BY <1>1, <1>2, <2>2
    <3>2. job' = [job EXCEPT ![g].at = @ + 1]
      BY <3>1 DEF cleanup, SpawnInv, TypeOK
    <3> QED  BY <1>1, <2>2, <3>2, Advance DEF cleanup
  <2> QED  BY <1>1, <2>1, <2>2
<1> SUFFICES ASSUME restarts = 0 PROVE OwnedInv'
  BY <1>3 DEF OwnedInv
<1>4. \A k \in Kinds : host'[k] = IF k \in ks THEN host[k] \ {i} ELSE host[k]
  <2>1. \A kept \in left(i, ks) : kept = {}
    BY DEF left
  <2> QED  BY <2>1 DEF cleanup, exchange
<1>5. /\ i \notin host'["box"]
      /\ n >= 2 => i \notin host'["netns"] /\ i \notin host'["ip"]
      /\ n >= 3 => i \notin host'["cgroup"]
  <2>4. CASE n = 1
    BY <1>2, <1>4, <2>4 DEF Kinds
  <2>1. CASE n = 2
    BY <1>1, <1>2, <1>4, <2>1 DEF Kinds, OwnedInv
  <2>2. CASE n = 3
    BY <1>1, <1>2, <1>4, <2>2 DEF Kinds, OwnedInv
  <2>3. CASE n = 4
    BY <1>1, <1>4, <2>3 DEF Kinds, OwnedInv
  <2> QED  BY <1>1, <2>1, <2>2, <2>3, <2>4
<1>6. inProgress \subseteq inProgress' \cup {i} /\ (n < 4 => i \in inProgress')
  BY <1>3 DEF inProgress
<1>7. \A k \in Lasting : host'[k] \subseteq live' \cup inProgress'
  <2>1. \A k \in Lasting : host'[k] \subseteq live \cup inProgress
    BY <1>4 DEF OwnedInv, Lasting, Kinds
  <2>2. n = 4 => \A k \in Lasting : i \notin host'[k]
    BY <1>5 DEF Lasting
  <2> QED  BY <1>1, <1>3, <1>6, <2>1, <2>2
<1>8. ASSUME NEW h \in Goroutines
      PROVE  /\ job'[h].task = "spawn" /\ job'[h].at <= 4 => job'[h].id \notin host'["netns"]
             /\ job'[h].task = "cleanup" /\ job'[h].at > 2 =>
                  job'[h].id \notin host'["netns"] /\ job'[h].id \notin host'["ip"]
             /\ job'[h].task = "cleanup" /\ job'[h].at > 3 => job'[h].id \notin host'["cgroup"]
             /\ job'[h].task = "cleanup" /\ job'[h].at > 1 => job'[h].id \notin host'["box"]
  <2>1. CASE h # g
    BY <1>3, <1>4, <2>1 DEF OwnedInv, Kinds
  <2>2. CASE h = g
    BY <1>1, <1>3, <1>5, <2>2 DEF Idle
  <2> QED  BY <2>1, <2>2
<1> QED  BY <1>7, <1>8 DEF OwnedInv

\* In its first life, a daemon in which cleanups succeed leaves nothing of a
\* sentry behind, if no spawn fails or if there are no networks and cgroups:
\* what NoLeftovers is violated by is what cleanupPartial does not give back,
\* and nothing else.
THEOREM NothingLeft ==
  ASSUME ~CleanupFails, Fails => ~Cni /\ ~Cgroups
  PROVE  Spec => []NoLeftovers
<1>1. Init => MadeInv /\ OwnedInv
  BY DEF Init, MadeInv, OwnedInv, Kinds, Lasting, Idle
<1>2. SpawnInv /\ MadeInv /\ OwnedInv /\ [Next]_vars => (MadeInv /\ OwnedInv)'
  <2> SUFFICES ASSUME SpawnInv, MadeInv, OwnedInv, [Next]_vars PROVE OwnedInv'
    BY MadeKeeps
  <2>1. ASSUME NEW g \in Goroutines, NEW i \in Ids, retire(g, i) PROVE OwnedInv'
    <3>1. /\ i \in live /\ live' = live \ {i} /\ job[g].task = "idle"
          /\ job'[g] = [task |-> "cleanup", at |-> 1, id |-> i]
          /\ \A h \in Goroutines : h # g => job'[h] = job[h]
          /\ host' = host /\ restarts' = restarts
      BY <2>1 DEF retire, SpawnInv, TypeOK
    <3>2. live \cup inProgress \subseteq live' \cup inProgress'
      BY <3>1 DEF inProgress
    <3> QED  BY <3>1, <3>2 DEF OwnedInv
  <2>2. CASE crash \/ UNCHANGED vars
    BY <2>2 DEF crash, vars, OwnedInv, inProgress
  <2>3. CASE restart
    BY <2>3 DEF restart, OwnedInv, SpawnInv, TypeOK
  <2> QED  BY <2>1, <2>2, <2>3, BeginOwned, SpawnStepOwned, SpawnFailOwned, CleanupOwned DEF Next
<1>3. SpawnInv /\ OwnedInv => NoLeftovers
  BY DEF SpawnInv, BoxInv, OwnedInv, NoLeftovers, Kinds, Lasting
<1> QED  BY <1>1, <1>2, <1>3, SpawnInvariant, PTL DEF Spec

-----------------------------------------------------------------------------
(* What a restarted daemon meets *)

\* An ID with a namespace or a container of an earlier life still has it until
\* it is drawn, and while spawn is before the step that will refuse it.
OldInv ==
  \A i \in old :
    /\ i \notin live
    /\ i > nextID => i \in host["netns"] \/ i \in host["box"]
    /\ \A g \in Goroutines : job[g].task = "spawn" /\ job[g].id = i =>
         \/ i \in host["netns"] /\ job[g].at <= 4
         \/ i \in host["box"] /\ ~boxed(job[g].at)

\* An ID is drawn with what an earlier life has left under it.
LEMMA BeginOld ==
  ASSUME SpawnInv, OldInv, NEW g \in Goroutines, begin(g) PROVE OldInv'
<1>1. /\ nextID \in Nat /\ nextID' = nextID + 1
      /\ job'[g] = [task |-> "spawn", at |-> 1, id |-> nextID + 1]
      /\ \A h \in Goroutines : h # g => job'[h] = job[h]
      /\ UNCHANGED <<live, host, old>>
  BY DEF begin, SpawnInv, TypeOK, Job
<1>2. old \subseteq Int
  BY DEF SpawnInv, TypeOK, Ids
<1> SUFFICES ASSUME NEW i \in old
             PROVE  /\ i > nextID + 1 => i \in host["netns"] \/ i \in host["box"]
                    /\ \A h \in Goroutines : job'[h].task = "spawn" /\ job'[h].id = i =>
                         \/ i \in host["netns"] /\ job'[h].at <= 4
                         \/ i \in host["box"] /\ ~boxed(job'[h].at)
  BY <1>1 DEF OldInv, boxed
<1>3. i > nextID => i \in host["netns"] \/ i \in host["box"]
  BY DEF OldInv
<1>4. i > nextID + 1 => i > nextID
  BY <1>1, <1>2
<1>5. ~boxed(1) /\ nextID + 1 > nextID
  BY <1>1 DEF boxed
<1>6. ASSUME NEW h \in Goroutines, job'[h].task = "spawn", job'[h].id = i
      PROVE  \/ i \in host["netns"] /\ job'[h].at <= 4
             \/ i \in host["box"] /\ ~boxed(job'[h].at)
  <2>1. CASE h = g
    BY <1>1, <1>3, <1>5, <1>6, <2>1
  <2>2. CASE h # g
    BY <1>1, <1>6, <2>2 DEF OldInv
  <2> QED  BY <2>1, <2>2
<1> QED  BY <1>3, <1>4, <1>6

\* Such a spawn cannot get past the step that meets it.
LEMMA SpawnStepOld ==
  ASSUME SpawnInv, MadeInv, OldInv, NEW g \in Goroutines, spawnStep(g) PROVE OldInv'
<1> DEFINE i == job[g].id
           n == job[g].at
           step == spawnSteps[n]
<1>1. /\ job[g].task = "spawn" /\ n \in 1 .. Len(spawnSteps) /\ i \in 1 .. nextID
      /\ \A h \in Goroutines : h # g /\ job[h].task # "idle" => job[h].id # i
      /\ ~conflict(step, i)
  BY JobFacts DEF spawnStep, spawning
<1>2. /\ \A h \in Goroutines : h # g => job'[h] = job[h]
      /\ UNCHANGED <<nextID, old>>
      /\ \/ /\ n < Len(spawnSteps) /\ live' = live
            /\ job'[g].task = "spawn" /\ job'[g].id = i /\ job'[g].at = n + 1
         \/ n = Len(spawnSteps) /\ live' = live \cup {i} /\ job'[g] = Idle
  <2>1. CASE n < Len(spawnSteps) /\ job' = [job EXCEPT ![g].at = @ + 1] /\ UNCHANGED live
    BY <1>1, <2>1, Advance DEF spawnStep
  <2>2. CASE /\ n = Len(spawnSteps) /\ live' = live \cup {i}
             /\ job' = [job EXCEPT ![g] = Idle]
    BY <2>2 DEF spawnStep, SpawnInv, TypeOK
  <2> QED  BY <2>1, <2>2 DEF spawnStep
<1>3. \A j : /\ j \in host["netns"] => j \in host'["netns"]
             /\ j \in host["box"] => j \in host'["box"]
  BY DEF spawnStep, Kinds
<1>4. CASE i \in old /\ i \in host["netns"] /\ n <= 4
  <2>1. Cni
    BY <1>4 DEF MadeInv
  <2>2. step # "netns"
    BY <1>1, <1>4 DEF conflict
  <2>3. n <= 3 /\ n < Len(spawnSteps)
    BY <1>1, <1>4, <2>1, <2>2, StepOrder
  <2> QED  BY <1>1, <1>2, <1>3, <1>4, <2>3 DEF OldInv, boxed
<1>5. CASE i \in old /\ i \in host["box"] /\ ~boxed(n)
  <2>1. step \notin {"create", "restore"}
    BY <1>1, <1>5, FirstBox DEF conflict
  <2>2. ~boxed(n + 1)
    BY <1>1, <1>5, <2>1 DEF boxed
  <2>3. n # Len(spawnSteps)
    BY <1>1, <2>2, StepOrder DEF boxed
  <2> QED  BY <1>1, <1>2, <1>3, <1>5, <2>2, <2>3 DEF OldInv, boxed
<1>6. CASE i \notin old
  <2>1. live' \subseteq live \cup {i}
    BY <1>2
  <2>2. ASSUME NEW j \in old, NEW h \in Goroutines, job'[h].task = "spawn", job'[h].id = j
        PROVE  \/ j \in host'["netns"] /\ job'[h].at <= 4
               \/ j \in host'["box"] /\ ~boxed(job'[h].at)
    <3>1. h # g
      BY <1>2, <1>6, <2>2 DEF Idle
    <3> QED  BY <1>2, <1>3, <2>2, <3>1 DEF OldInv
  <2> QED  BY <1>2, <1>3, <1>6, <2>1, <2>2 DEF OldInv, boxed
<1> QED  BY <1>1, <1>4, <1>5, <1>6 DEF OldInv

\* A failing spawn and a cleanup touch only an ID that is drawn already.
LEMMA OthersOld ==
  ASSUME SpawnInv, OldInv, NEW g \in Goroutines, spawnFail(g) \/ cleanup(g) PROVE OldInv'
<1> DEFINE i == job[g].id
<1>1. /\ i \in 1 .. nextID /\ nextID \in Nat /\ job[g].task # "idle"
      /\ \A h \in Goroutines : h # g /\ job[h].task # "idle" => job[h].id # i
      /\ UNCHANGED <<nextID, live, old>>
  BY JobFacts DEF spawnFail, spawning, cleanup, SpawnInv, TypeOK
<1>2. job'[g].task # "spawn" /\ \A h \in Goroutines : h # g => job'[h] = job[h]
  <2>1. CASE spawnFail(g)
    BY <2>1 DEF spawnFail, SpawnInv, TypeOK, Idle
  <2>2. CASE cleanup(g)
    <3>1. job' = [job EXCEPT ![g] = Idle] \/ job' = [job EXCEPT ![g].at = @ + 1]
      BY <2>2 DEF cleanup
    <3>2. CASE job' = [job EXCEPT ![g] = Idle]
      BY <3>2 DEF SpawnInv, TypeOK, Idle
    <3>3. CASE job' = [job EXCEPT ![g].at = @ + 1]
      BY <2>2, <3>3, Advance DEF cleanup
    <3> QED  BY <3>1, <3>2, <3>3
  <2> QED  BY <2>1, <2>2
<1>3. \A j : j # i => /\ j \in host["netns"] => j \in host'["netns"]
                      /\ j \in host["box"] => j \in host'["box"]
  <2>1. ASSUME NEW more, NEW less, exchange(i, more, less), NEW j, j # i
        PROVE  /\ j \in host["netns"] => j \in host'["netns"]
               /\ j \in host["box"] => j \in host'["box"]
    BY <2>1 DEF exchange, Kinds
  <2>2. \E more, less : exchange(i, more, less)
    BY Failed DEF cleanup
  <2> QED  BY <2>1, <2>2
<1>4. \A j \in old : j > nextID => j # i
  BY <1>1 DEF SpawnInv, TypeOK, Ids
<1> QED  BY <1>1, <1>2, <1>3, <1>4 DEF OldInv, boxed

\* No sentry in the pool runs on a namespace or a container that an earlier
\* life of the daemon left, however often it crashed and whatever it left.
THEOREM Inherited == Spec => []NothingInherited
<1>1. Init => MadeInv /\ OldInv
  BY DEF Init, MadeInv, OldInv, Kinds
<1>2. SpawnInv /\ MadeInv /\ OldInv /\ [Next]_vars => (MadeInv /\ OldInv)'
  <2> SUFFICES ASSUME SpawnInv, MadeInv, OldInv, [Next]_vars PROVE OldInv'
    BY MadeKeeps
  <2>1. ASSUME NEW g \in Goroutines, NEW i \in Ids, retire(g, i) PROVE OldInv'
    <3>1. /\ live' \subseteq live
          /\ job'[g] = [task |-> "cleanup", at |-> 1, id |-> i]
          /\ \A h \in Goroutines : h # g => job'[h] = job[h]
          /\ UNCHANGED <<nextID, host, old>>
      BY <2>1 DEF retire, SpawnInv, TypeOK
    <3> QED  BY <3>1 DEF OldInv, boxed
  <2>2. CASE crash \/ UNCHANGED vars
    BY <2>2 DEF crash, vars, OldInv, boxed
  <2>3. CASE restart
    BY <2>3 DEF restart, OldInv, Idle
  <2> QED  BY <2>1, <2>2, <2>3, BeginOld, SpawnStepOld, OthersOld DEF Next
<1>3. OldInv => NothingInherited
  BY DEF OldInv, NothingInherited
<1> QED  BY <1>1, <1>2, <1>3, SpawnInvariant, PTL DEF Spec

=============================================================================
