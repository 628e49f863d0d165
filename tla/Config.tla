------------------------------- MODULE Config -------------------------------
(***************************************************************************)
(* The configuration of gvisord (internal/config): what a file means over  *)
(* the defaults, Validate, Workloads, the sentry IDs that pools derive     *)
(* from their names, and ValidateCheckpointPath.                           *)
(*                                                                         *)
(* A file is a record with some of the fields; fields that decide nothing  *)
(* here are left out. Text is a sequence of characters where its           *)
(* composition matters (names and paths), a Boolean "is given" elsewhere.  *)
(***************************************************************************)
EXTENDS Integers, Sequences, FiniteSets, SequencesExt, TLC

CONSTANTS
  Cwd,   \* the segments of the daemon's working directory
  Chars  \* the characters of names

ASSUME CharsAssumption == {"s", "m", "l", "/", "-"} \subseteq Chars

\* The working directory is clean.
ASSUME CwdAssumption ==
  /\ Cwd \in Seq(Seq(Chars))
  /\ \A i \in DOMAIN Cwd : Cwd[i] # << >> /\ \A j \in DOMAIN Cwd[i] : Cwd[i][j] # "/"

-----------------------------------------------------------------------------
(* Load *)

\* The defaults of Load, of the fields modelled.
Defaults ==
  [ runscPath       |-> TRUE,
    mode            |-> "cni",
    pluginDir       |-> TRUE,
    subnet          |-> "10.88.0.0/16",
    resourceClasses |-> << [name |-> <<"s">>, cpu |-> 500,  memory |-> 512],
                           [name |-> <<"m">>, cpu |-> 1000, memory |-> 1024],
                           [name |-> <<"l">>, cpu |-> 2000, memory |-> 4096] >>,
    checkpointDirs  |-> {},
    templates       |-> << >> ]

\* json.Unmarshal into a struct that has values: the fields of f decide.
over(f, g) == [x \in DOMAIN f \cup DOMAIN g |-> IF x \in DOMAIN f THEN f[x] ELSE g[x]]

\* PoolConfig.UnmarshalJSON: a field that is not given is zero, and
\* pre_restore is true.
poolConfig(p) ==
  over(p, [resourceClass |-> << >>, poolSize |-> 0, maxPending |-> 0, preRestore |-> TRUE])

template(t) == [t EXCEPT !.pools = [i \in DOMAIN t.pools |-> poolConfig(t.pools[i])]]

\* A class that is given is decoded over the default at its position, from
\* which it takes what it leaves out; behind the third, over zero.
resourceClass(file, i) ==
  over(file.resourceClasses[i],
       IF i \in DOMAIN Defaults.resourceClasses THEN Defaults.resourceClasses[i]
       ELSE [name |-> << >>, cpu |-> 0, memory |-> 0])

\* Every other field that is given replaces the default. (The text of the file
\* and the durations in it can be parsed.)
Load(file) ==
  LET cfg == over(file, Defaults)
  IN  [cfg EXCEPT
         !.templates = [n \in DOMAIN @ |-> template(@[n])],
         !.resourceClasses =
           IF "resourceClasses" \in DOMAIN file
           THEN [i \in DOMAIN @ |-> resourceClass(file, i)] ELSE @]

\* The values that are decoded have the types of the Go structs: fields of
\* these names, each of its type, in arrays, and objects that are finite.
Name == Seq(Chars)
array(a) == Len(a) \in Nat /\ DOMAIN a = 1 .. Len(a)
chars(s) == {s[i] : i \in DOMAIN s}

givenClass(c) ==
  /\ DOMAIN c \subseteq {"name", "cpu", "memory"}
  /\ "name" \in DOMAIN c => c.name \in Name
  /\ "cpu" \in DOMAIN c => c.cpu \in Int
  /\ "memory" \in DOMAIN c => c.memory \in Int

givenPool(p) ==
  /\ DOMAIN p \subseteq {"resourceClass", "poolSize", "maxPending", "preRestore"}
  /\ "resourceClass" \in DOMAIN p => p.resourceClass \in Name
  /\ "poolSize" \in DOMAIN p => p.poolSize \in Int
  /\ "maxPending" \in DOMAIN p => p.maxPending \in Int
  /\ "preRestore" \in DOMAIN p => p.preRestore \in BOOLEAN

givenTemplate(t) ==
  /\ DOMAIN t = {"rootfs", "checkpoint", "pools"}
  /\ array(t.pools)
  /\ \A i \in DOMAIN t.pools : givenPool(t.pools[i])

\* A path is split at its slashes.
givenPath(p) ==
  /\ p.absolute \in BOOLEAN /\ p.segments \in Seq(Name)
  /\ \A i \in DOMAIN p.segments : "/" \notin chars(p.segments[i])

givenFile(file) ==
  /\ DOMAIN file \subseteq DOMAIN Defaults
  /\ "resourceClasses" \in DOMAIN file =>
       /\ array(file.resourceClasses)
       /\ \A i \in DOMAIN file.resourceClasses : givenClass(file.resourceClasses[i])
  /\ "templates" \in DOMAIN file =>
       /\ IsFiniteSet(DOMAIN file.templates)
       /\ \A n \in DOMAIN file.templates : n \in Name /\ givenTemplate(file.templates[n])
  /\ "checkpointDirs" \in DOMAIN file => \A dir \in file.checkpointDirs : givenPath(dir)

-----------------------------------------------------------------------------
(* Validate *)

hasResourceClass(cfg, class) ==
  \E i \in DOMAIN cfg.resourceClasses : cfg.resourceClasses[i].name = class

validPool(cfg, p) ==
  /\ p.poolSize >= 1
  /\ p.resourceClass # << >>
  /\ hasResourceClass(cfg, p.resourceClass)

Validate(cfg) ==
  /\ cfg.runscPath
  /\ DOMAIN cfg.templates # {}
  /\ \A n \in DOMAIN cfg.templates :
       LET t == cfg.templates[n]
       IN  /\ t.rootfs /\ t.checkpoint
           /\ t.pools # << >>
           /\ \A i \in DOMAIN t.pools : validPool(cfg, t.pools[i])
  /\ cfg.mode = "cni" => cfg.pluginDir /\ cfg.subnet # ""

-----------------------------------------------------------------------------
(* Workloads *)

\* Mutant: max_pending as it is given.
EffectiveMaxPendingRaw(p) == p.maxPending

EffectiveMaxPending(p) ==
  CASE p.maxPending > 0                     -> p.maxPending
    [] p.maxPending <= 0 /\ p.poolSize > 0  -> p.poolSize * 2
    [] p.maxPending <= 0 /\ p.poolSize <= 0 -> 2

\* Mutant: template and class are only strung together.
keyPlain(name, class) == name \o class

key(name, class) == name \o <<"/">> \o class

\* (The template stands for its rootfs and checkpoint.)
workload(n, p) ==
  [ template      |-> n,
    poolSize      |-> p.poolSize,
    maxPending    |-> EffectiveMaxPending(p),
    preRestore    |-> p.preRestore,
    resourceClass |-> p.resourceClass ]

\* The entries of all templates, each with its key.
entries(cfg) ==
  UNION {{<<n, i>> : i \in DOMAIN cfg.templates[n].pools} : n \in DOMAIN cfg.templates}

entry(cfg, e) == cfg.templates[e[1]].pools[e[2]]
entryKey(cfg, e) == key(e[1], entry(cfg, e).resourceClass)

\* The maps result of Workloads may have: templates are visited in any order,
\* the pools of one in theirs; the last entry with a key stays.
Workloads(cfg) ==
  LET keys == {entryKey(cfg, e) : e \in entries(cfg)}
      last(k) == {e \in entries(cfg) :
                    /\ entryKey(cfg, e) = k
                    /\ \A d \in entries(cfg) :
                         entryKey(cfg, d) = k /\ d[1] = e[1] => d[2] <= e[2]}
  IN  {[k \in keys |-> workload(choice[k][1], entry(cfg, choice[k]))] :
         choice \in {f \in [keys -> entries(cfg)] : \A k \in keys : f[k] \in last(k)}}

\* Mutant: the slash is dropped instead of replaced.
safeNameDropped(name) == SelectSeq(name, LAMBDA c : c # "/")

\* spawn: strings.ReplaceAll(p.name, "/", "-"), and the ID of its n-th sentry.
safeName(name) == [i \in DOMAIN name |-> IF name[i] = "/" THEN "-" ELSE name[i]]

sentryID(name, n) == safeName(name) \o <<"-", ToString(n)>>

-----------------------------------------------------------------------------
(* ValidateCheckpointPath *)

\* One segment of filepath.Clean on an absolute path.
cleanSegment(path, seg) ==
  CASE seg \in {<< >>, <<".">>}               -> path
    [] seg = <<".", ".">> /\ path = << >>     -> path
    [] seg = <<".", ".">> /\ path # << >>     -> Front(path)
    [] OTHER                                  -> Append(path, seg)

\* filepath.Abs: the segments that are left.
Abs(path) ==
  LET abs[n \in 0 .. Len(path.segments)] ==
        IF n = 0 THEN IF path.absolute THEN << >> ELSE Cwd
        ELSE cleanSegment(abs[n - 1], path.segments[n])
  IN  abs[Len(path.segments)]

\* ... and their text.
text(segments) ==
  LET joined[n \in 0 .. Len(segments)] ==
        IF n = 0 THEN << >> ELSE joined[n - 1] \o <<"/">> \o segments[n]
  IN  IF segments = << >> THEN <<"/">> ELSE joined[Len(segments)]

\* Mutant: HasPrefix without the slash.
underDirLoose(path, dir) == IsPrefix(text(Abs(dir)), text(Abs(path)))

underDir(path, dir) ==
  LET abs == text(Abs(path))
      absDir == text(Abs(dir))
  IN  IsPrefix(absDir \o <<"/">>, abs) \/ abs = absDir

ValidateCheckpointPath(cfg, path) ==
  cfg.checkpointDirs = {} \/ \E dir \in cfg.checkpointDirs : underDir(path, dir)

=============================================================================
