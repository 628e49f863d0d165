--------------------------- MODULE StartupProofs ---------------------------
(***************************************************************************)
(* Proofs about Startup and Config, for all configuration files, names and *)
(* classes, and any number of starts of the daemon on one host.            *)
(***************************************************************************)
EXTENDS Startup, FiniteSetTheorems, SequenceTheorems, TLAPS

-----------------------------------------------------------------------------
(* The configuration *)

\* The Go structs after decoding.
Class == [name : Name, cpu : Int, memory : Int]
PoolConfig == [resourceClass : Name, poolSize : Int, maxPending : Int, preRestore : BOOLEAN]

\* What Load returns, as far as the proofs need it.
ConfigOK(c) ==
  /\ DOMAIN c = DOMAIN Defaults
  /\ c.resourceClasses \in Seq(Class)
  /\ IsFiniteSet(DOMAIN c.templates)
  /\ \A n \in DOMAIN c.templates : n \in Name /\ c.templates[n].pools \in Seq(PoolConfig)
  /\ \A dir \in c.checkpointDirs : givenPath(dir)

\* What Load makes of a pool section has all fields, with values of their kinds.
LEMMA PoolConfigType ==
  ASSUME NEW p, givenPool(p)
  PROVE  poolConfig(p) \in PoolConfig
<1> DEFINE zero == [resourceClass |-> << >>, poolSize |-> 0, maxPending |-> 0, preRestore |-> TRUE]
           q == over(p, zero)
<1>1. DOMAIN q = {"resourceClass", "poolSize", "maxPending", "preRestore"}
  BY DEF over, givenPool
<1>2. << >> \in Name  BY DEF Name
<1>3. q = [x \in {"resourceClass", "poolSize", "maxPending", "preRestore"} |-> q[x]]
  BY <1>1 DEF over
<1>4. q["resourceClass"] \in Name /\ q["poolSize"] \in Int /\ q["maxPending"] \in Int
  BY <1>2 DEF over, givenPool
<1>5. q["preRestore"] \in BOOLEAN
  BY DEF over, givenPool
<1>6. q \in PoolConfig
  BY <1>3, <1>4, <1>5 DEF PoolConfig
<1> QED  BY <1>6 DEF poolConfig

\* A class decoded over a default class is a class.
LEMMA ClassType ==
  ASSUME NEW c, givenClass(c), NEW d \in Class
  PROVE  over(c, d) \in Class
<1> DEFINE q == over(c, d)
<1>1. DOMAIN q = {"name", "cpu", "memory"}
  BY DEF over, givenClass, Class
<1>3. q = [x \in {"name", "cpu", "memory"} |-> q[x]]
  BY <1>1 DEF over
<1>4. q["name"] \in Name /\ q["cpu"] \in Int /\ q["memory"] \in Int
  BY DEF over, givenClass, Class
<1> QED  BY <1>3, <1>4 DEF Class

\* The default classes are classes.
LEMMA DefaultClasses ==
  Defaults.resourceClasses \in Seq(Class)
<1>1. <<"s">> \in Name /\ <<"m">> \in Name /\ <<"l">> \in Name
  BY CharsAssumption DEF Name
<1> DEFINE s == [name |-> <<"s">>, cpu |-> 500,  memory |-> 512]
           m == [name |-> <<"m">>, cpu |-> 1000, memory |-> 1024]
           l == [name |-> <<"l">>, cpu |-> 2000, memory |-> 4096]
<1>2. s \in Class /\ m \in Class /\ l \in Class
  BY <1>1 DEF Class
<1>3. Defaults.resourceClasses = <<s, m, l>>
  BY DEF Defaults
<1> HIDE DEF s, m, l
<1> QED  BY <1>2, <1>3

\* A file over the defaults has a value of its type for every field.
LEMMA LoadType ==
  ASSUME NEW file, givenFile(file)
  PROVE  ConfigOK(Load(file))
<1> DEFINE base == over(file, Defaults)
           Fields == DOMAIN Defaults
<1>1. Fields = {"runscPath", "mode", "pluginDir", "subnet", "resourceClasses", "checkpointDirs", "templates"}
  BY DEF Defaults
<1>2. base = [x \in Fields |-> IF x \in DOMAIN file THEN file[x] ELSE Defaults[x]]
  BY DEF over, givenFile
<1> DEFINE T == [n \in DOMAIN base.templates |-> template(base.templates[n])]
           R == IF "resourceClasses" \in DOMAIN file
                THEN [i \in DOMAIN base.resourceClasses |-> resourceClass(file, i)]
                ELSE base.resourceClasses
<1>3. Load(file) = [[base EXCEPT !.templates = T] EXCEPT !.resourceClasses = R]
  BY DEF Load
<1>4. /\ DOMAIN Load(file) = Fields
      /\ Load(file).resourceClasses = R
      /\ Load(file).templates = T
      /\ Load(file).checkpointDirs = base.checkpointDirs
  <2> HIDE DEF T, R
  <2> QED  BY <1>1, <1>2, <1>3
<1>6. R \in Seq(Class)
  <2>1. CASE "resourceClasses" \in DOMAIN file
    <3>1. base.resourceClasses = file.resourceClasses
      BY <2>1, <1>1, <1>2
    <3>2. Len(file.resourceClasses) \in Nat
          /\ DOMAIN file.resourceClasses = 1 .. Len(file.resourceClasses)
          /\ \A i \in DOMAIN file.resourceClasses : givenClass(file.resourceClasses[i])
      BY <2>1 DEF givenFile, array
    <3>3. ASSUME NEW i \in DOMAIN file.resourceClasses
          PROVE  resourceClass(file, i) \in Class
      <4>1. [name |-> << >>, cpu |-> 0, memory |-> 0] \in Class
        BY DEF Class, Name
      <4>2. i \in DOMAIN Defaults.resourceClasses => Defaults.resourceClasses[i] \in Class
        BY DefaultClasses
      <4> QED  BY <4>1, <4>2, <3>2, <3>3, ClassType DEF resourceClass
    <3>4. R = [i \in 1 .. Len(file.resourceClasses) |-> resourceClass(file, i)]
      BY <2>1, <3>1, <3>2
    <3> QED  BY <3>2, <3>3, <3>4
  <2>2. CASE ~("resourceClasses" \in DOMAIN file)
    BY <2>2, <1>1, <1>2, DefaultClasses
  <2> QED  BY <2>1, <2>2
<1>7. IsFiniteSet(DOMAIN T)
      /\ \A n \in DOMAIN T : n \in Name /\ T[n].pools \in Seq(PoolConfig)
  <2>1. CASE "templates" \in DOMAIN file
    <3>1. base.templates = file.templates
      BY <2>1, <1>1, <1>2
    <3>2. IsFiniteSet(DOMAIN T)
      BY <2>1, <3>1 DEF givenFile
    <3>3. ASSUME NEW n \in DOMAIN T
          PROVE  n \in Name /\ T[n].pools \in Seq(PoolConfig)
      <4> DEFINE t == file.templates[n]
      <4>1. n \in Name /\ givenTemplate(t)
        BY <2>1, <3>1 DEF givenFile
      <4>2. Len(t.pools) \in Nat /\ DOMAIN t.pools = 1 .. Len(t.pools)
            /\ \A i \in DOMAIN t.pools : givenPool(t.pools[i])
        BY <4>1 DEF givenTemplate, array
      <4>3. T[n] = template(t)
        BY <3>1
      <4>4. template(t).pools = [i \in DOMAIN t.pools |-> poolConfig(t.pools[i])]
        BY <4>1 DEF template, givenTemplate
      <4> HIDE DEF t, T
      <4>5. \A i \in 1 .. Len(t.pools) : poolConfig(t.pools[i]) \in PoolConfig
        BY <4>2, PoolConfigType
      <4> QED  BY <4>1, <4>2, <4>3, <4>4, <4>5
    <3> QED  BY <3>2, <3>3
  <2>2. CASE ~("templates" \in DOMAIN file)
    <3>1. base.templates = << >>
      BY <2>2, <1>1, <1>2 DEF Defaults
    <3>2. DOMAIN T = {}
      BY <3>1
    <3> QED  BY <3>2, FS_EmptySet
  <2> QED  BY <2>1, <2>2
<1>8. \A dir \in base.checkpointDirs : givenPath(dir)
  BY <1>1, <1>2 DEF Defaults, givenFile
<1> HIDE DEF T, R, base
<1> QED  BY <1>4, <1>6, <1>7, <1>8 DEF ConfigOK

-----------------------------------------------------------------------------
(* Names *)

\* u is the text x, the separator, the text y.
splits(u, x, sep, y) ==
  /\ Len(u) = Len(x) + 1 + Len(y)
  /\ u[Len(x) + 1] = sep
  /\ \A i \in 1 .. Len(x) : u[i] = x[i]
  /\ \A i \in 1 .. Len(y) : u[Len(x) + 1 + i] = y[i]

\* What a name with a separator in it has at each position.
LEMMA Joined ==
  ASSUME NEW S, NEW sep \in S, NEW x \in Seq(S), NEW y \in Seq(S)
  PROVE  x \o <<sep>> \o y \in Seq(S) /\ splits(x \o <<sep>> \o y, x, sep, y)
<1> DEFINE h == x \o <<sep>>
           u == h \o y
<1>1. <<sep>> \in Seq(S) /\ Len(<<sep>>) = 1 /\ <<sep>>[1] = sep
  OBVIOUS
<1>n. Len(x) \in Nat /\ Len(y) \in Nat
  OBVIOUS
<1>2. h \in Seq(S) /\ Len(h) = Len(x) + 1
      /\ \A i \in 1 .. Len(x) + 1 : h[i] = IF i <= Len(x) THEN x[i] ELSE <<sep>>[i - Len(x)]
  BY <1>1, ConcatProperties
<1>3. h[Len(x) + 1] = sep /\ \A i \in 1 .. Len(x) : h[i] = x[i]
  BY <1>1, <1>2, <1>n
<1> HIDE DEF h
<1>4. u \in Seq(S) /\ Len(u) = Len(h) + Len(y)
      /\ \A i \in 1 .. Len(h) + Len(y) : u[i] = IF i <= Len(h) THEN h[i] ELSE y[i - Len(h)]
  BY <1>2, ConcatProperties, ZenonT(30)
<1> HIDE DEF u
<1>5. u[Len(x) + 1] = sep /\ \A i \in 1 .. Len(x) : u[i] = x[i]
  BY <1>2, <1>3, <1>4, <1>n
<1>6. ASSUME NEW i \in 1 .. Len(y)
      PROVE  u[Len(x) + 1 + i] = y[i]
  <2>1. Len(x) + 1 + i \in 1 .. Len(h) + Len(y) /\ ~(Len(x) + 1 + i <= Len(h))
        /\ (Len(x) + 1 + i) - Len(h) = i
    BY <1>2, <1>n
  <2> QED  BY <2>1, <1>4
<1>7. splits(u, x, sep, y)
  BY <1>2, <1>4, <1>5, <1>6 DEF splits
<1> QED  BY <1>4, <1>7 DEF u, h

\* If neither right part has the separator, a text splits in one way only.
LEMMA SplitAt ==
  ASSUME NEW sep, NEW u, NEW a, NEW b, NEW c, NEW d,
         array(a), array(b), array(c), array(d),
         sep \notin chars(b), sep \notin chars(d),
         splits(u, a, sep, b), splits(u, c, sep, d)
  PROVE  /\ Len(a) = Len(c) /\ \A i \in 1 .. Len(a) : a[i] = c[i]
         /\ Len(b) = Len(d) /\ \A i \in 1 .. Len(b) : b[i] = d[i]
<1>n. Len(a) \in Nat /\ Len(b) \in Nat /\ Len(c) \in Nat /\ Len(d) \in Nat
  BY DEF array
<1>3. Len(a) + Len(b) = Len(c) + Len(d)
  <2>1. Len(a) + 1 + Len(b) = Len(c) + 1 + Len(d)
    BY DEF splits
  <2> QED  BY <2>1, <1>n
<1>4. ~(Len(a) < Len(c))
  <2> SUFFICES ASSUME Len(a) < Len(c) PROVE FALSE
    OBVIOUS
  <2> DEFINE i == Len(c) - Len(a)
  <2>2. i \in 1 .. Len(b) /\ Len(a) + 1 + i = Len(c) + 1
    BY <1>n, <1>3
  <2> HIDE DEF i
  <2>3. b[i] = sep
    BY <2>2 DEF splits
  <2> QED  BY <2>2, <2>3 DEF chars, array
<1>5. ~(Len(c) < Len(a))
  <2> SUFFICES ASSUME Len(c) < Len(a) PROVE FALSE
    OBVIOUS
  <2> DEFINE i == Len(a) - Len(c)
  <2>2. i \in 1 .. Len(d) /\ Len(c) + 1 + i = Len(a) + 1
    BY <1>n, <1>3
  <2> HIDE DEF i
  <2>3. d[i] = sep
    BY <2>2 DEF splits
  <2> QED  BY <2>2, <2>3 DEF chars, array
<1>6. Len(a) = Len(c) /\ Len(b) = Len(d)
  BY <1>3, <1>4, <1>5, <1>n
<1>7. \A i \in 1 .. Len(a) : a[i] = c[i]
  BY <1>6 DEF splits
<1>8. \A i \in 1 .. Len(b) : b[i] = d[i]
  BY <1>6 DEF splits
<1> QED  BY <1>6, <1>7, <1>8

\* A text splits in one way only at a separator that does not occur after it.
LEMMA SplitUnique ==
  ASSUME NEW S, NEW sep, NEW u,
         NEW a \in Seq(S), NEW b \in Seq(S), NEW c \in Seq(S), NEW d \in Seq(S),
         sep \notin chars(b), sep \notin chars(d),
         splits(u, a, sep, b), splits(u, c, sep, d)
  PROVE  a = c /\ b = d
<1>1. array(a) /\ array(b) /\ array(c) /\ array(d)
  BY DEF array
<1> QED  BY <1>1, SplitAt, SeqEqual

\* The key of a pool names its template and its class, if no class has a slash.
LEMMA KeyUnique ==
  ASSUME NEW m \in Name, NEW n \in Name, NEW c \in Name, NEW d \in Name,
         "/" \notin chars(c), "/" \notin chars(d), key(m, c) = key(n, d)
  PROVE  m = n /\ c = d
<1>1. "/" \in Chars  BY CharsAssumption
<1>2. splits(key(m, c), m, "/", c) /\ splits(key(n, d), n, "/", d)
      /\ key(m, c) \in Seq(Chars)
  BY <1>1, Joined DEF key, Name
<1> QED  BY <1>2, SplitUnique DEF Name

\* ReplaceAll of the slash, in a key whose parts have none.
LEMMA SafeKey ==
  ASSUME NEW m \in Name, NEW c \in Name, "/" \notin chars(m), "/" \notin chars(c)
  PROVE  safeName(key(m, c)) = m \o <<"-">> \o c
<1> DEFINE u == key(m, c)
           v == m \o <<"-">> \o c
           len == Len(m) + 1 + Len(c)
<1>n. Len(m) \in Nat /\ Len(c) \in Nat /\ m \in Seq(Chars) /\ c \in Seq(Chars)
  BY DEF Name
<1>1. "/" \in Chars /\ "-" \in Chars
  BY CharsAssumption
<1>2. u \in Seq(Chars) /\ splits(u, m, "/", c)
  BY <1>1, <1>n, Joined DEF key
<1>3. v \in Seq(Chars) /\ splits(v, m, "-", c)
  BY <1>1, <1>n, Joined
<1> HIDE DEF u, v
<1>4. DOMAIN u = 1 .. len /\ DOMAIN v = 1 .. len
  BY <1>2, <1>3 DEF splits
<1>5. ASSUME NEW i \in 1 .. len
      PROVE  v[i] = IF u[i] = "/" THEN "-" ELSE u[i]
  <2>1. CASE i <= Len(m)
    <3>1. m[i] # "/"
      BY <2>1, <1>n DEF chars
    <3> QED  BY <2>1, <3>1, <1>2, <1>3, <1>n DEF splits
  <2>2. CASE i = Len(m) + 1
    BY <2>2, <1>2, <1>3 DEF splits
  <2>3. CASE i > Len(m) + 1
    <3> DEFINE j == i - (Len(m) + 1)
    <3>2. j \in 1 .. Len(c) /\ i = Len(m) + 1 + j
      BY <2>3, <1>n
    <3> HIDE DEF j
    <3>3. c[j] # "/"
      BY <3>2, <1>n DEF chars
    <3> QED  BY <3>2, <3>3, <1>2, <1>3 DEF splits
  <2> QED  BY <2>1, <2>2, <2>3, <1>n
<1>6. safeName(u) = [i \in 1 .. len |-> v[i]]
  BY <1>4, <1>5 DEF safeName
<1>7. [i \in 1 .. len |-> v[i]] = v
  BY <1>3, <1>4
<1> QED  BY <1>6, <1>7 DEF u, v

\* A sentry ID names the pool's text and the number.
idText(s, p) == s \o <<"-", p>>

\* The ID of a sentry determines the safe key of its pool and its number.
LEMMA IdParts ==
  ASSUME NEW s \in Name, NEW t \in Name, NEW p, NEW q, idText(s, p) = idText(t, q)
  PROVE  s = t /\ p = q
<1> DEFINE S == Chars \cup {p, q}
           u == s \o <<"-", p>>
           v == t \o <<"-", q>>
<1>1. s \in Seq(S) /\ t \in Seq(S) /\ <<"-", p>> \in Seq(S) /\ <<"-", q>> \in Seq(S)
  BY CharsAssumption DEF Name
<1>2. /\ Len(u) = Len(s) + 2
      /\ \A i \in 1 .. Len(s) + 2 : u[i] = IF i <= Len(s) THEN s[i] ELSE <<"-", p>>[i - Len(s)]
  BY <1>1, ConcatProperties
<1>3. /\ Len(v) = Len(t) + 2
      /\ \A i \in 1 .. Len(t) + 2 : v[i] = IF i <= Len(t) THEN t[i] ELSE <<"-", q>>[i - Len(t)]
  BY <1>1, ConcatProperties
<1>4. u = v  BY DEF idText
<1> HIDE DEF u, v, S
<1>n. Len(s) \in Nat /\ Len(t) \in Nat
  BY <1>1
<1>5. Len(s) = Len(t)
  BY <1>2, <1>3, <1>4, <1>n
<1>6. \A i \in 1 .. Len(s) : s[i] = t[i]
  BY <1>2, <1>3, <1>4, <1>5, <1>n
<1>7. s = t
  BY <1>1, <1>5, <1>6, SeqEqual
<1>8. p = q
  <2>1. Len(s) + 2 \in 1 .. Len(s) + 2 /\ ~(Len(s) + 2 <= Len(s)) /\ (Len(s) + 2) - Len(s) = 2
    BY <1>n
  <2>2. u[Len(s) + 2] = <<"-", p>>[2] /\ v[Len(s) + 2] = <<"-", q>>[2]
    BY <2>1, <1>2, <1>3, <1>5, ZenonT(30)
  <2> QED  BY <2>2, <1>4
<1> QED  BY <1>7, <1>8

-----------------------------------------------------------------------------
(* Workloads *)

\* e is the last of its template's entries with key k.
lastEntry(c, k, e) ==
  \A d \in entries(c) : entryKey(c, d) = k /\ d[1] = e[1] => d[2] <= e[2]

\* Every pool of the map is that of an entry, the last of its template with
\* this key, and every entry's key is there.
LEMMA WorkloadsMap ==
  ASSUME NEW c, NEW w \in Workloads(c)
  PROVE  /\ DOMAIN w = {entryKey(c, e) : e \in entries(c)}
         /\ \A k \in DOMAIN w : \E e \in entries(c) :
              /\ k = entryKey(c, e)
              /\ w[k] = workload(e[1], entry(c, e))
              /\ lastEntry(c, k, e)
<1> DEFINE keys == {entryKey(c, e) : e \in entries(c)}
           last(k) == {e \in entries(c) : entryKey(c, e) = k /\ lastEntry(c, k, e)}
<1>1. PICK choice \in {f \in [keys -> entries(c)] : \A k \in keys : f[k] \in last(k)} :
        w = [k \in keys |-> workload(choice[k][1], entry(c, choice[k]))]
  BY DEF Workloads, lastEntry
<1>2. DOMAIN w = keys
  BY <1>1
<1>3. ASSUME NEW k \in keys
      PROVE  choice[k] \in last(k) /\ w[k] = workload(choice[k][1], entry(c, choice[k]))
  BY <1>1
<1> QED  BY <1>2, <1>3

\* An entry is that of a template of the configuration, and its pool is valid.
LEMMA EntryType ==
  ASSUME NEW c, ConfigOK(c), Validate(c), NEW e \in entries(c)
  PROVE  /\ e = <<e[1], e[2]>> /\ e[1] \in DOMAIN c.templates /\ e[1] \in Name /\ e[2] \in Nat
         /\ entry(c, e) \in PoolConfig /\ validPool(c, entry(c, e))
<1>1. PICK n \in DOMAIN c.templates : \E i \in DOMAIN c.templates[n].pools : e = <<n, i>>
  BY DEF entries
<1>2. PICK i \in DOMAIN c.templates[n].pools : e = <<n, i>>
  BY <1>1
<1>3. c.templates[n].pools \in Seq(PoolConfig) /\ n \in Name
  BY DEF ConfigOK
<1>4. i \in Nat /\ c.templates[n].pools[i] \in PoolConfig
  BY <1>3
<1>5. validPool(c, c.templates[n].pools[i])
  BY DEF Validate
<1>6. e[1] = n /\ e[2] = i
  BY <1>2
<1> QED  BY <1>2, <1>3, <1>4, <1>5, <1>6 DEF entry

\* A workload of a valid configuration: positive bounds, a class there is.
LEMMA WorkloadBounds ==
  ASSUME NEW c, ConfigOK(c), Validate(c), NEW w \in Workloads(c), NEW k \in DOMAIN w
  PROVE  /\ w[k].poolSize \in Nat \ {0} /\ w[k].maxPending \in Nat \ {0}
         /\ hasResourceClass(c, w[k].resourceClass)
<1>1. PICK e \in entries(c) : w[k] = workload(e[1], entry(c, e))
  BY WorkloadsMap
<1>2. PICK p \in PoolConfig : p = entry(c, e) /\ validPool(c, p)
  BY EntryType
<1>3. w[k].poolSize = p.poolSize /\ w[k].resourceClass = p.resourceClass
      /\ w[k].maxPending = EffectiveMaxPending(p)
  BY <1>1, <1>2 DEF workload
<1>4. p.poolSize \in Int /\ p.poolSize >= 1 /\ p.maxPending \in Int
  BY <1>2 DEF validPool, PoolConfig
<1>5. EffectiveMaxPending(p) \in Nat \ {0}
  BY <1>4 DEF EffectiveMaxPending
<1> QED  BY <1>2, <1>3, <1>4, <1>5 DEF validPool

-----------------------------------------------------------------------------
(* The invariant *)

\* Where main may be, and where it is past Validate.
Phases == {"stopped", "exited", "loaded", "cgroups", "slices", "network", "start", "serving"}
Up == {"cgroups", "slices", "network", "start", "serving"}

\* Types.
TypeInv ==
  /\ phase \in Phases
  /\ ConfigOK(cfg)
  /\ cgroups \in BOOLEAN /\ cni \in BOOLEAN
  /\ lives \in 0 .. MaxLives

\* What Workloads returned belongs to the configuration.
WorkInv ==
  /\ workloads = << >> \/ (Validate(cfg) /\ workloads \in Workloads(cfg))
  /\ phase \in Up => Validate(cfg) /\ workloads \in Workloads(cfg)
  /\ phase = "loaded" => started = {}
  /\ started \subseteq DOMAIN workloads

\* The first n classes are known, and of each name the last has its limits.
FirstInForce(classes, names, set, n) ==
  \A i \in 1 .. n :
    LET c == classes[i].name
    IN  /\ c \in names /\ c \in DOMAIN set
        /\ \E l \in 1 .. n :
             /\ classes[l].name = c
             /\ \A j \in 1 .. n : j > l => classes[j].name # c
             /\ set[c] = limits(classes[l])

InForce(n) == FirstInForce(cfg.resourceClasses, known, slices, n)

\* The classes that EnsureSlices has gone through.
reached == Len(cfg.resourceClasses) - Len(todo)

\* EnsureSlices goes through the classes in order; cgroups is set only when it
\* came to the end, in this life.
SliceInv ==
  /\ known \subseteq classNames
  /\ phase = "slices" =>
       /\ todo \in Seq(Class) /\ Len(todo) <= Len(cfg.resourceClasses)
       /\ \A i \in 1 .. Len(todo) : todo[i] = cfg.resourceClasses[reached + i]
       /\ InForce(reached)
  /\ phase \in {"loaded", "cgroups", "slices"} => cgroups = FALSE
  /\ phase \in {"network", "start", "serving"} /\ cgroups = TRUE =>
       InForce(Len(cfg.resourceClasses))

\* Sentries were started only in the subnet of the bridge file, which is
\* there and so is never written again; main comes to the CNI files before it
\* starts the first pool.
NetInv ==
  /\ DOMAIN netconf = {"bridge", "loopback"}
  /\ served \subseteq {netconf.bridge}
  /\ served # {} => netconf.bridge # "absent"
  /\ phase \in {"loaded", "cgroups", "slices", "network"} => started = {}
  /\ cni = TRUE /\ started # {} => served = {netconf.bridge} /\ netconf.loopback = "lo"

\* The inductive invariant.
StartupInv == TypeInv /\ WorkInv /\ SliceInv /\ NetInv

\* Every initial state satisfies StartupInv.
LEMMA InitEstablishes ==
  ASSUME Init
  PROVE  StartupInv
<1>1. ConfigOK(cfg)
  <2> DEFINE file == [mode |-> "none"]
  <2>1. givenFile(file)
    BY DEF givenFile, Defaults
  <2> HIDE DEF file
  <2>2. ConfigOK(Load(file))
    BY <2>1, LoadType
  <2> QED  BY <2>2 DEF Init, file
<1>2. TypeInv
  <2>1. cgroups \in BOOLEAN /\ cni \in BOOLEAN  BY DEF Init
  <2>2. lives \in 0 .. MaxLives /\ phase \in Phases
    BY StartupAssumption DEF Init, Phases
  <2> QED  BY <1>1, <2>1, <2>2 DEF TypeInv
<1>3. WorkInv
  BY DEF Init, WorkInv, Up
<1>4. SliceInv
  BY DEF Init, SliceInv
<1>5. NetInv
  <2>1. cni = FALSE /\ phase = "stopped" /\ started = {} /\ served = {}
        /\ netconf = [bridge |-> "absent", loopback |-> "absent"]
    BY DEF Init
  <2>2. DOMAIN netconf = {"bridge", "loopback"}
    BY <2>1
  <2> QED  BY <2>1, <2>2 DEF NetInv
<1> QED  BY <1>2, <1>3, <1>4, <1>5 DEF StartupInv

\* Reading the file keeps StartupInv.
LEMMA LoadKeeps ==
  ASSUME StartupInv, NEW file \in Files, load(file)
  PROVE  StartupInv'
<1>1. ConfigOK(cfg')
  BY FilesAssumption, LoadType DEF load, StartupInv, TypeInv
<1>2. phase' \in {"loaded", "exited"} /\ workloads' = << >> /\ started' = {} /\ known' = {}
      /\ cgroups' = FALSE /\ cni' = FALSE /\ lives' = lives + 1 /\ netconf' = netconf /\ served' = served
      /\ lives < MaxLives /\ phase \in {"stopped", "exited"}
  BY DEF load, hostVars
<1>3. TypeInv'
  <2>1. cgroups' \in BOOLEAN /\ cni' \in BOOLEAN  BY <1>2
  <2>2. lives' \in 0 .. MaxLives /\ phase' \in Phases
    BY <1>2, StartupAssumption DEF StartupInv, TypeInv, Phases
  <2> QED  BY <1>1, <2>1, <2>2 DEF TypeInv
<1>4. WorkInv'
  BY <1>2 DEF WorkInv, Up
<1>5. SliceInv'
  BY <1>2 DEF SliceInv
<1>6. NetInv'
  BY <1>2 DEF StartupInv, NetInv, TypeInv
<1> QED  BY <1>3, <1>4, <1>5, <1>6 DEF StartupInv

\* Validating the configuration keeps StartupInv.
LEMMA ValidateKeeps ==
  ASSUME StartupInv, validate
  PROVE  StartupInv'
<1>1. phase = "loaded" /\ phase' \in {"cgroups", "exited"} /\ cfg' = cfg /\ todo' = todo
      /\ known' = known /\ cgroups' = cgroups /\ cni' = cni /\ started' = started
      /\ slices' = slices /\ netconf' = netconf /\ served' = served /\ lives' = lives
  BY DEF validate, mgrVars, hostVars
<1>2. TypeInv'
  BY <1>1 DEF StartupInv, TypeInv, Phases
<1>3. WorkInv'
  BY <1>1 DEF StartupInv, WorkInv, Up, validate
<1>4. SliceInv'
  BY <1>1 DEF StartupInv, SliceInv, classNames
<1>5. NetInv'
  BY <1>1 DEF StartupInv, NetInv
<1> QED  BY <1>2, <1>3, <1>4, <1>5 DEF StartupInv

\* Looking for the controllers keeps StartupInv.
LEMMA DetectKeeps ==
  ASSUME StartupInv, detect
  PROVE  StartupInv'
<1>1. phase = "cgroups" /\ phase' \in {"network", "slices"} /\ cfg' = cfg /\ workloads' = workloads
      /\ known' = known /\ cgroups' = cgroups /\ cni' = cni /\ started' = started
      /\ netconf' = netconf /\ served' = served /\ lives' = lives
  BY DEF detect, mgrVars
<1>2. TypeInv'
  BY <1>1 DEF StartupInv, TypeInv, Phases
<1>3. WorkInv'
  BY <1>1 DEF StartupInv, WorkInv, Up
<1>4. SliceInv'
  <2>1. known' \subseteq classNames' /\ cgroups' = FALSE
    BY <1>1 DEF StartupInv, SliceInv, classNames
  <2>2. CASE phase' = "network"
    BY <2>1, <2>2 DEF SliceInv
  <2>3. CASE phase' = "slices"
    <3>1. todo' = cfg.resourceClasses
      BY <2>3 DEF detect
    <3>2. cfg.resourceClasses \in Seq(Class)
      BY DEF StartupInv, TypeInv, ConfigOK
    <3>3. reached' = 0
      BY <1>1, <3>1, <3>2 DEF reached
    <3>4. InForce(0)' /\ \A i \in 1 .. Len(todo') : todo'[i] = cfg'.resourceClasses[0 + i]
      BY <1>1, <3>1, <3>2 DEF InForce, FirstInForce
    <3>5. InForce(reached)'
      BY <3>3, <3>4 DEF InForce
    <3> QED  BY <1>1, <2>1, <2>3, <3>1, <3>2, <3>3, <3>4, <3>5 DEF SliceInv
  <2> QED  BY <1>1, <2>2, <2>3
<1>5. NetInv'
  BY <1>1 DEF StartupInv, NetInv
<1> QED  BY <1>2, <1>3, <1>4, <1>5 DEF StartupInv

\* The next class takes force: it is the last of its name so far.
LEMMA NextInForce ==
  ASSUME ConfigOK(cfg), NEW n \in Nat, n < Len(cfg.resourceClasses), InForce(n),
         NEW class, class = cfg.resourceClasses[n + 1],
         cfg' = cfg, known' = known \cup {class.name},
         slices' = over([c \in {class.name} |-> limits(class)], slices)
  PROVE  InForce(n + 1)'
<1> DEFINE rc == cfg.resourceClasses
<1>1. DOMAIN slices' = {class.name} \cup DOMAIN slices
      /\ slices'[class.name] = limits(class)
      /\ \A c \in DOMAIN slices : c # class.name => slices'[c] = slices[c]
  BY DEF over
<1> SUFFICES ASSUME NEW i \in 1 .. n + 1
             PROVE  /\ rc[i].name \in known' /\ rc[i].name \in DOMAIN slices'
                    /\ \E l \in 1 .. n + 1 :
                         /\ rc[l].name = rc[i].name
                         /\ \A j \in 1 .. n + 1 : j > l => rc[j].name # rc[i].name
                         /\ slices'[rc[i].name] = limits(rc[l])
  BY SMTT(30) DEF InForce, FirstInForce, limits, quota
<1>2. CASE rc[i].name = class.name
  <2>1. n + 1 \in 1 .. n + 1 /\ rc[n + 1].name = rc[i].name
        /\ \A j \in 1 .. n + 1 : ~(j > n + 1)
    BY <1>2
  <2> QED  BY <1>1, <1>2, <2>1
<1>3. CASE rc[i].name # class.name
  <2>1. i \in 1 .. n
    BY <1>3
  <2>2. PICK l \in 1 .. n : /\ rc[l].name = rc[i].name
                            /\ \A j \in 1 .. n : j > l => rc[j].name # rc[i].name
                            /\ slices[rc[i].name] = limits(rc[l])
    BY <2>1 DEF InForce, FirstInForce
  <2>3. rc[i].name \in known /\ rc[i].name \in DOMAIN slices
    BY <2>1 DEF InForce, FirstInForce
  <2>4. ASSUME NEW j \in 1 .. n + 1, j > l  PROVE rc[j].name # rc[i].name
    BY <1>3, <2>2, <2>4
  <2>5. l \in 1 .. n + 1 /\ slices'[rc[i].name] = limits(rc[l])
    BY <1>1, <1>3, <2>2, <2>3
  <2> QED  BY <1>1, <2>2, <2>3, <2>4, <2>5
<1> QED  BY <1>2, <1>3

\* One iteration of EnsureSlices keeps StartupInv: this step extends InForce by one class.
LEMMA EnsureSliceKeeps ==
  ASSUME StartupInv, ensureSlice
  PROVE  StartupInv'
<1> DEFINE rc == cfg.resourceClasses
           class == Head(todo)
<1>1. phase = "slices" /\ phase' \in {"network", "slices"} /\ cfg' = cfg /\ workloads' = workloads
      /\ known' = known \cup {class.name} /\ cgroups' = cgroups /\ cni' = cni
      /\ started' = started /\ netconf' = netconf /\ served' = served /\ lives' = lives /\ todo # << >>
  BY DEF ensureSlice
<1>2. TypeInv'
  BY <1>1 DEF StartupInv, TypeInv, Phases
<1>3. WorkInv'
  BY <1>1 DEF StartupInv, WorkInv, Up
<1>4. NetInv'
  BY <1>1 DEF StartupInv, NetInv
<1>5. SliceInv'
  <2>0. /\ todo \in Seq(Class) /\ rc \in Seq(Class) /\ Len(todo) <= Len(rc)
        /\ \A i \in 1 .. Len(todo) : todo[i] = rc[reached + i]
        /\ InForce(reached) /\ cgroups = FALSE
    BY <1>1 DEF StartupInv, SliceInv, TypeInv, ConfigOK
  <2>1. reached \in Nat /\ reached < Len(rc) /\ class = rc[reached + 1]
        /\ Len(todo) \in Nat /\ Len(todo) >= 1
    BY <1>1, <2>0 DEF reached
  <2>2. known' \subseteq classNames'
    <3>1. class.name \in classNames
      <4>1. reached + 1 \in DOMAIN rc  BY <2>0, <2>1
      <4> QED  BY <2>1, <4>1 DEF classNames
    <3>2. known \subseteq classNames /\ classNames' = classNames
      BY <1>1 DEF StartupInv, SliceInv, classNames
    <3> QED  BY <1>1, <3>1, <3>2
  <2>3. CASE phase' = "network"
    BY <2>0, <2>2, <2>3, <1>1 DEF SliceInv
  <2>4. CASE phase' = "slices"
    <3>1. todo' = Tail(todo) /\ slices' = over([c \in {class.name} |-> limits(class)], slices)
      BY <2>4, <1>1 DEF ensureSlice
    <3>2. todo' \in Seq(Class) /\ Len(todo') = Len(todo) - 1
          /\ \A i \in 1 .. Len(todo') : todo'[i] = todo[i + 1]
      BY <3>1, <2>0, <1>1
    <3>3. reached' = reached + 1
      BY <3>2, <1>1, <2>0 DEF reached
    <3>4. ASSUME NEW i \in 1 .. Len(todo')  PROVE todo'[i] = rc[reached' + i]
      <4>1. i + 1 \in 1 .. Len(todo)
        BY <3>2, <2>1
      <4>2. reached + (i + 1) = (reached + 1) + i
        BY <2>1
      <4> QED  BY <4>1, <4>2, <3>2, <3>3, <2>0
    <3>5. InForce(reached)'
      <4>1. ConfigOK(cfg)
        BY DEF StartupInv, TypeInv
      <4>2. ASSUME NEW n, n = reached  PROVE InForce(n + 1)'
        <5>1. n \in Nat /\ n < Len(rc) /\ class = rc[n + 1] /\ InForce(n)
          BY <4>2, <2>0, <2>1 DEF InForce
        <5> HIDE DEF class
        <5> QED  BY <4>1, <5>1, <1>1, <3>1, NextInForce
      <4> QED  BY <4>2, <3>3 DEF InForce
    <3> QED  BY <1>1, <2>0, <2>1, <2>2, <2>4, <3>2, <3>4, <3>5 DEF SliceInv
  <2> QED  BY <1>1, <2>3, <2>4
<1> QED  BY <1>2, <1>3, <1>4, <1>5 DEF StartupInv

\* The end of EnsureSlices, which switches enforcement on, keeps StartupInv.
LEMMA EnforceKeeps ==
  ASSUME StartupInv, enforce
  PROVE  StartupInv'
<1>1. phase = "slices" /\ phase' = "network" /\ cfg' = cfg /\ workloads' = workloads
      /\ known' = known /\ cgroups' = TRUE /\ cni' = cni /\ started' = started
      /\ netconf' = netconf /\ served' = served /\ lives' = lives /\ slices' = slices /\ todo = << >>
  BY DEF enforce, hostVars
<1>2. TypeInv'
  <2>1. cgroups' \in BOOLEAN  BY <1>1
  <2> QED  BY <1>1, <2>1 DEF StartupInv, TypeInv, Phases
<1>3. WorkInv'
  BY <1>1 DEF StartupInv, WorkInv, Up
<1>4. NetInv'
  BY <1>1 DEF StartupInv, NetInv
<1>5. SliceInv'
  <2>1. reached = Len(cfg.resourceClasses)
    BY <1>1 DEF reached, StartupInv, TypeInv, ConfigOK
  <2>2. InForce(Len(cfg.resourceClasses))
    BY <1>1, <2>1 DEF StartupInv, SliceInv
  <2>a. cfg' = cfg /\ known' = known /\ slices' = slices
    BY <1>1
  <2>3. InForce(Len(cfg.resourceClasses))'
    BY <2>a, <2>2 DEF InForce
  <2>4. known' \subseteq classNames'
    BY <1>1 DEF StartupInv, SliceInv, classNames
  <2> QED  BY <1>1, <2>3, <2>4 DEF SliceInv
<1> QED  BY <1>2, <1>3, <1>4, <1>5 DEF StartupInv

\* EnsureConfig leaves the files alone that the host has.
LEMMA NetworkKeeps ==
  ASSUME StartupInv, network
  PROVE  StartupInv'
<1>1. phase = "network" /\ phase' = "start" /\ cfg' = cfg /\ workloads' = workloads
      /\ known' = known /\ cgroups' = cgroups /\ started' = started
      /\ lives' = lives /\ slices' = slices /\ todo' = todo
  BY DEF network
<1>2. TypeInv'
  <2>1. cni' \in BOOLEAN  BY DEF network
  <2> QED  BY <1>1, <2>1 DEF StartupInv, TypeInv, Phases
<1>3. WorkInv'
  BY <1>1 DEF StartupInv, WorkInv, Up
<1>4. SliceInv'
  <2>a. cfg' = cfg /\ known' = known /\ slices' = slices
    BY <1>1
  <2>1. InForce(Len(cfg.resourceClasses)) => InForce(Len(cfg.resourceClasses))'
    BY <2>a DEF InForce
  <2>2. known' \subseteq classNames'
    BY <1>1 DEF StartupInv, SliceInv, classNames
  <2> QED  BY <1>1, <2>1, <2>2 DEF StartupInv, SliceInv
<1>5. NetInv'
  <2>0. DOMAIN netconf = {"bridge", "loopback"} /\ started = {} /\ served' = served
    BY <1>1 DEF StartupInv, NetInv, network
  <2>1. ASSUME NEW new, fill(new)
        PROVE  DOMAIN netconf' = DOMAIN netconf
               /\ (netconf.bridge # "absent" => netconf'.bridge = netconf.bridge)
    BY <2>0, <2>1 DEF fill
  <2>2. DOMAIN netconf' = DOMAIN netconf
        /\ (netconf.bridge # "absent" => netconf'.bridge = netconf.bridge)
    <3>1. CASE UNCHANGED netconf
      BY <3>1
    <3>2. CASE ensureConfigFails
      BY <2>1, <3>2 DEF ensureConfigFails
    <3>3. CASE ensureConfig
      BY <2>1, <3>3 DEF ensureConfig
    <3> QED  BY <3>1, <3>2, <3>3 DEF network
  <2> QED  BY <1>1, <2>0, <2>2 DEF StartupInv, NetInv
<1> QED  BY <1>2, <1>3, <1>4, <1>5 DEF StartupInv

\* Starting the next pool keeps StartupInv.
LEMMA StartPoolKeeps ==
  ASSUME StartupInv, NEW k \in DOMAIN workloads, startPool(k)
  PROVE  StartupInv'
<1>1. phase = "start" /\ phase' \in {"start", "serving", "exited"} /\ cfg' = cfg
      /\ workloads' = workloads /\ known' = known /\ cgroups' = cgroups /\ cni' = cni
      /\ started' \subseteq started \cup {k}
      /\ lives' = lives /\ slices' = slices /\ todo' = todo /\ netconf' = netconf
  BY DEF startPool, mgrVars
<1>2. TypeInv'
  BY <1>1 DEF StartupInv, TypeInv, Phases
<1>3. WorkInv'
  BY <1>1 DEF StartupInv, WorkInv, Up
<1>4. SliceInv'
  <2>a. cfg' = cfg /\ known' = known /\ slices' = slices
    BY <1>1
  <2>1. InForce(Len(cfg.resourceClasses)) => InForce(Len(cfg.resourceClasses))'
    BY <2>a DEF InForce
  <2>2. known' \subseteq classNames'
    BY <1>1 DEF StartupInv, SliceInv, classNames
  <2> QED  BY <1>1, <2>1, <2>2 DEF StartupInv, SliceInv
<1>5. NetInv'
  <2>1. CASE phase' = "exited" /\ UNCHANGED <<started, served>>
    BY <1>1, <2>1 DEF StartupInv, NetInv
  <2>2. CASE phase' # "exited" /\ cni = TRUE
    <3>1. netconf.bridge # "absent" /\ netconf.loopback = "lo" /\ served' = served \cup {netconf.bridge}
      BY <2>2 DEF startPool
    <3> QED  BY <1>1, <2>2, <3>1 DEF StartupInv, NetInv
  <2>3. CASE phase' # "exited" /\ cni # TRUE
    <3>1. served' = served
      BY <2>3 DEF startPool, StartupInv, TypeInv
    <3> QED  BY <1>1, <2>3, <3>1 DEF StartupInv, NetInv
  <2> QED  BY <1>1, <2>1, <2>2, <2>3 DEF startPool
<1> QED  BY <1>2, <1>3, <1>4, <1>5 DEF StartupInv

\* The end of a life keeps StartupInv: what is on the host stays.
LEMMA StopKeeps ==
  ASSUME StartupInv, stop
  PROVE  StartupInv'
<1>1. phase' = "stopped" /\ cfg' = cfg /\ phase \notin {"stopped", "exited"}
      /\ workloads' = workloads /\ known' = known /\ cgroups' = cgroups /\ cni' = cni
      /\ started' = started /\ lives' = lives /\ slices' = slices /\ netconf' = netconf /\ served' = served
  BY DEF stop, mgrVars, hostVars
<1>2. TypeInv'
  BY <1>1 DEF StartupInv, TypeInv, Phases
<1>3. WorkInv'
  BY <1>1 DEF StartupInv, WorkInv, Up
<1>4. SliceInv'
  BY <1>1 DEF StartupInv, SliceInv, classNames
<1>5. NetInv'
  BY <1>1 DEF StartupInv, NetInv
<1> QED  BY <1>2, <1>3, <1>4, <1>5 DEF StartupInv

\* What holds in every state of every life of the daemon on the host.
THEOREM StartupInvariant == Spec => []StartupInv
<1>1. Init => StartupInv
  BY InitEstablishes
<1>2. StartupInv /\ [Next]_vars => StartupInv'
  <2> SUFFICES ASSUME StartupInv, [Next]_vars PROVE StartupInv'
    OBVIOUS
  <2>1. ASSUME NEW file \in Files, load(file)  PROVE StartupInv'
    BY <2>1, LoadKeeps
  <2>2. CASE validate  BY <2>2, ValidateKeeps
  <2>3. CASE detect  BY <2>3, DetectKeeps
  <2>4. CASE ensureSlice  BY <2>4, EnsureSliceKeeps
  <2>5. CASE enforce  BY <2>5, EnforceKeeps
  <2>6. CASE network  BY <2>6, NetworkKeeps
  <2>7. ASSUME NEW k \in DOMAIN workloads, startPool(k)  PROVE StartupInv'
    BY <2>7, StartPoolKeeps
  <2>8. CASE stop  BY <2>8, StopKeeps
  <2>9. CASE UNCHANGED vars
    <3>1. phase' = phase /\ cfg' = cfg /\ workloads' = workloads /\ todo' = todo /\ known' = known
          /\ cgroups' = cgroups /\ cni' = cni /\ started' = started /\ slices' = slices
          /\ netconf' = netconf /\ served' = served /\ lives' = lives
      BY <2>9 DEF vars
    <3>2. TypeInv' /\ WorkInv' /\ NetInv'
      BY <3>1 DEF StartupInv, TypeInv, WorkInv, NetInv
    <3>3. SliceInv'
      <4>0. cfg' = cfg /\ known' = known /\ slices' = slices
        BY <3>1
      <4>1. classNames' = classNames /\ reached' = reached
        BY <3>1 DEF classNames, reached
      <4>2. InForce(reached) => InForce(reached)'
        BY <4>0, <4>1 DEF InForce
      <4>3. InForce(Len(cfg.resourceClasses)) => InForce(Len(cfg.resourceClasses))'
        BY <4>0 DEF InForce
      <4> QED  BY <3>1, <4>1, <4>2, <4>3 DEF StartupInv, SliceInv
    <3> QED  BY <3>2, <3>3 DEF StartupInv
  <2> QED  BY <2>1, <2>2, <2>3, <2>4, <2>5, <2>6, <2>7, <2>8, <2>9 DEF Next
<1> QED  BY <1>1, <1>2, PTL DEF Spec

-----------------------------------------------------------------------------
(* Theorems *)

\* Types, and the positive size and max_pending of every workload that
\* EffectiveMaxPending and Validate make sure of (TypeOK).
THEOREM StartupTypes == Spec => []TypeOK
<1>1. StartupInv => TypeOK
  <2> SUFFICES ASSUME StartupInv PROVE TypeOK
    OBVIOUS
  <2>1. phase \in Phases /\ ConfigOK(cfg) /\ cgroups \in BOOLEAN /\ cni \in BOOLEAN
        /\ lives \in 0 .. MaxLives
    BY DEF StartupInv, TypeInv
  <2>2. ASSUME NEW k \in DOMAIN workloads
        PROVE  workloads[k].poolSize \in Nat \ {0} /\ workloads[k].maxPending \in Nat \ {0}
    <3>1. Validate(cfg) /\ workloads \in Workloads(cfg)
      BY DEF StartupInv, WorkInv
    <3> QED  BY <2>1, <3>1, WorkloadBounds
  <2>3. started \subseteq DOMAIN workloads /\ known \subseteq classNames
    BY DEF StartupInv, WorkInv, SliceInv
  <2>4. DOMAIN cfg = DOMAIN Defaults
    BY <2>1 DEF ConfigOK
  <2> QED  BY <2>1, <2>2, <2>3, <2>4 DEF TypeOK, Phases
<1> QED  BY <1>1, StartupInvariant, PTL

\* A daemon that starts pools with a cgroup manager has the limits of its
\* present configuration in force, whatever earlier lives left: EnsureSlices
\* is done with every class, and SentrySlicePath finds that of every pool
\* (LimitsInForce).
THEOREM Limited == Spec => []LimitsInForce
<1>1. StartupInv => LimitsInForce
  <2> SUFFICES ASSUME StartupInv, phase \in {"start", "serving"}, cgroups
               PROVE  /\ \A c \in classNames :
                           /\ c \in DOMAIN slices
                           /\ slices[c].memory = lastClass(c).memory
                           /\ slices[c].quota * 1000 = lastClass(c).cpu * Period
                      /\ \A k \in DOMAIN workloads : workloads[k].resourceClass \in known
    BY DEF LimitsInForce
  <2> DEFINE rc == cfg.resourceClasses
             n == Len(rc)
  <2>1. rc \in Seq(Class) /\ n \in Nat /\ DOMAIN rc = 1 .. n /\ ConfigOK(cfg)
    BY DEF StartupInv, TypeInv, ConfigOK
  <2>2. InForce(n)
    BY DEF StartupInv, SliceInv
  <2>3. ASSUME NEW c \in classNames
        PROVE  /\ c \in DOMAIN slices
               /\ slices[c].memory = lastClass(c).memory
               /\ slices[c].quota * 1000 = lastClass(c).cpu * Period
    <3>1. PICK i \in 1 .. n : c = rc[i].name
      BY <2>1 DEF classNames
    <3>2. c \in DOMAIN slices
      BY <2>2, <3>1 DEF InForce, FirstInForce
    <3>3. PICK l \in 1 .. n : /\ rc[l].name = c
                              /\ \A j \in 1 .. n : j > l => rc[j].name # c
                              /\ slices[c] = limits(rc[l])
      BY <2>2, <3>1 DEF InForce, FirstInForce
    <3>4. lastClass(c) = rc[l]
      <4> DEFINE at == {k \in DOMAIN rc : rc[k].name = c}
      <4>1. l \in at /\ \A j \in at : j <= l
        BY <2>1, <3>3
      <4>2. \A k \in at : (\A j \in at : j <= k) => k = l
        <5>1. ASSUME NEW k \in at, \A j \in at : j <= k  PROVE k = l
          <6>1. k \in Nat /\ l \in Nat /\ k <= l /\ l <= k
            BY <4>1, <5>1, <2>1
          <6> QED  BY <6>1
        <5> QED  BY <5>1
      <4>3. (CHOOSE k \in at : \A j \in at : j <= k) = l
        <5> HIDE DEF at
        <5> QED  BY <4>1, <4>2
      <4> QED  BY <4>3 DEF lastClass
    <3>5. rc[l].cpu \in Int
      <4>1. rc[l] \in Class
        <5> HIDE DEF rc
        <5> QED  BY <2>1
      <4>2. \A x \in Class : x.cpu \in Int
        BY DEF Class
      <4> QED  BY <4>1, <4>2
    <3>6. slices[c].memory = rc[l].memory /\ slices[c].quota = rc[l].cpu * 100
      BY <3>3 DEF limits, quota
    <3> HIDE DEF rc
    <3> QED  BY <3>2, <3>4, <3>5, <3>6 DEF Period
  <2>4. ASSUME NEW k \in DOMAIN workloads  PROVE workloads[k].resourceClass \in known
    <3>1. Validate(cfg) /\ workloads \in Workloads(cfg)
      BY DEF StartupInv, WorkInv, Up
    <3>a. hasResourceClass(cfg, workloads[k].resourceClass)
      BY <2>1, <3>1, WorkloadBounds
    <3>2. PICK i \in DOMAIN rc : rc[i].name = workloads[k].resourceClass
      BY <3>a DEF hasResourceClass
    <3> QED  BY <2>1, <2>2, <3>2 DEF InForce, FirstInForce
  <2> QED  BY <2>3, <2>4
<1> QED  BY <1>1, StartupInvariant, PTL

\* All sentries of all lives are in one subnet, and none is started from a
\* CNI file that is not whole: EnsureConfig (cni.go:59-102) never writes over a
\* file, whatever a crash, a failing write or another configuration left there
\* (OneSubnet).
THEOREM SameSubnet == Spec => []OneSubnet
<1>1. StartupInv => OneSubnet
  BY DEF StartupInv, NetInv, TypeInv, OneSubnet
<1> QED  BY <1>1, StartupInvariant, PTL

\* The entries of a configuration are finite.
LEMMA EntriesFinite ==
  ASSUME NEW c, ConfigOK(c)
  PROVE  IsFiniteSet(entries(c))
<1> DEFINE of(n) == {<<n, i>> : i \in DOMAIN c.templates[n].pools}
           A == {of(n) : n \in DOMAIN c.templates}
<1>1. IsFiniteSet(A)
  <2> DEFINE D == DOMAIN c.templates
             f == [n \in D |-> of(n)]
  <2>1. f \in Surjection(D, A)
    <3> HIDE DEF of
    <3> QED  BY DEF Surjection
  <2>2. IsFiniteSet(D)
    BY DEF ConfigOK
  <2> HIDE DEF f, D, A
  <2> QED  BY <2>1, <2>2, FS_Surjection
<1>2. ASSUME NEW n \in DOMAIN c.templates  PROVE IsFiniteSet(of(n))
  <2>1. c.templates[n].pools \in Seq(PoolConfig)
    BY DEF ConfigOK
  <2>2. IsFiniteSet(DOMAIN c.templates[n].pools)
    <3>1. DOMAIN c.templates[n].pools = 1 .. Len(c.templates[n].pools)
          /\ Len(c.templates[n].pools) \in Int
      BY <2>1
    <3>2. \A k \in Int : IsFiniteSet(1 .. k)
      BY FS_Interval
    <3> QED  BY <3>1, <3>2, Zenon
  <2> DEFINE D == DOMAIN c.templates[n].pools
             f == [i \in D |-> <<n, i>>]
  <2>3. f \in Surjection(D, of(n))
    BY DEF Surjection
  <2> HIDE DEF f, D, of
  <2> QED  BY <2>2, <2>3, FS_Surjection DEF D
<1>3. IsFiniteSet(UNION A)
  BY <1>1, <1>2, FS_UNION
<1> QED  BY <1>3 DEF entries

\* A class of a valid entry is one of the configuration's, and a name.
LEMMA EntryClass ==
  ASSUME ConfigOK(cfg), Validate(cfg), NEW e \in entries(cfg)
  PROVE  entry(cfg, e).resourceClass \in classNames /\ entry(cfg, e).resourceClass \in Name
<1>1. entry(cfg, e) \in PoolConfig /\ validPool(cfg, entry(cfg, e))
  BY EntryType
<1>2. \A p \in PoolConfig : p.resourceClass \in Name
  BY DEF PoolConfig
<1> QED  BY <1>1, <1>2 DEF validPool, hasResourceClass, classNames

\* With classes that have no slash there is exactly one pool for each template
\* and class, of that template, and the last of several entries decides,
\* whatever the order in which Workloads visits the map (PoolPerEntry).
THEOREM OnePoolPerEntry == Spec => []PoolPerEntry
<1>1. StartupInv => PoolPerEntry
  <2> SUFFICES ASSUME StartupInv, phase = "cgroups", \A c \in classNames : "/" \notin chars(c)
               PROVE  PoolPerEntry
    BY DEF PoolPerEntry
  <2> DEFINE cls(e) == entry(cfg, e).resourceClass
             E == entries(cfg)
             pairs == {<<e[1], cls(e)>> : e \in E}
  <2>1. ConfigOK(cfg) /\ Validate(cfg) /\ workloads \in Workloads(cfg)
    BY DEF StartupInv, TypeInv, WorkInv, Up
  <2>2. ASSUME NEW d \in E, NEW e \in E
        PROVE  key(d[1], cls(d)) = key(e[1], cls(e)) => d[1] = e[1] /\ cls(d) = cls(e)
    <3>1. d[1] \in Name /\ e[1] \in Name
      BY <2>1, EntryType
    <3>2. cls(d) \in Name /\ cls(e) \in Name /\ "/" \notin chars(cls(d)) /\ "/" \notin chars(cls(e))
      BY <2>1, EntryClass
    <3> HIDE DEF cls
    <3> QED  BY <3>1, <3>2, KeyUnique
  <2>3. /\ DOMAIN workloads = {entryKey(cfg, e) : e \in E}
        /\ \A k \in DOMAIN workloads : \E e \in E :
             /\ k = entryKey(cfg, e)
             /\ workloads[k] = workload(e[1], entry(cfg, e))
             /\ lastEntry(cfg, k, e)
    BY <2>1, WorkloadsMap
  <2>k. \A e : entryKey(cfg, e) = key(e[1], cls(e))
    BY DEF entryKey
  <2>4. ASSUME NEW e \in E
        PROVE  /\ key(e[1], cls(e)) \in DOMAIN workloads
               /\ workloads[key(e[1], cls(e))].template = e[1]
               /\ (\A d \in {d \in E : d[1] = e[1] /\ cls(d) = cls(e)} : d[2] <= e[2]) =>
                    workloads[key(e[1], cls(e))].poolSize = entry(cfg, e).poolSize
    <3> DEFINE k == key(e[1], cls(e))
    <3>1. k \in DOMAIN workloads
      BY <2>3, <2>k
    <3>2. PICK d \in E : /\ k = entryKey(cfg, d)
                         /\ workloads[k] = workload(d[1], entry(cfg, d))
                         /\ lastEntry(cfg, k, d)
      BY <3>1, <2>3
    <3>3. d[1] = e[1] /\ cls(d) = cls(e)
      BY <2>2, <2>k, <3>2
    <3>4. workloads[k].template = d[1] /\ workloads[k].poolSize = entry(cfg, d).poolSize
      BY <3>2 DEF workload
    <3>5. ASSUME \A x \in {x \in E : x[1] = e[1] /\ cls(x) = cls(e)} : x[2] <= e[2]
          PROVE  d = e
      <4>1. d[2] <= e[2]
        BY <3>3, <3>5
      <4>2. e[2] <= d[2]
        BY <2>k, <3>2, <3>3 DEF lastEntry
      <4>3. d[2] \in Nat /\ e[2] \in Nat /\ d = <<d[1], d[2]>> /\ e = <<e[1], e[2]>>
        BY <2>1, EntryType
      <4>4. d[2] = e[2]
        BY <4>1, <4>2, <4>3
      <4> QED  BY <3>3, <4>3, <4>4
    <3> QED  BY <3>1, <3>3, <3>4, <3>5
  <2>5. Cardinality(DOMAIN workloads) = Cardinality(pairs)
    <3> DEFINE f == [p \in pairs |-> key(p[1], p[2])]
               K == {key(e[1], cls(e)) : e \in E}
    <3>1. IsFiniteSet(pairs)
      <4> DEFINE g == [e \in E |-> <<e[1], cls(e)>>]
      <4>1. g \in Surjection(E, pairs)
        <5> HIDE DEF cls, E
        <5> QED  BY DEF Surjection
      <4>2. IsFiniteSet(E)
        BY <2>1, EntriesFinite
      <4> HIDE DEF g, E, pairs
      <4> QED  BY <4>1, <4>2, FS_Surjection
    <3>2. f \in Surjection(pairs, K)
      <4>1. ASSUME NEW p \in pairs  PROVE f[p] \in K
        <5>1. PICK e \in E : p = <<e[1], cls(e)>>
          OBVIOUS
        <5> HIDE DEF cls, E
        <5> QED  BY <5>1
      <4>2. ASSUME NEW k \in K  PROVE \E p \in pairs : f[p] = k
        <5>1. PICK e \in E : k = key(e[1], cls(e))
          OBVIOUS
        <5>2. <<e[1], cls(e)>> \in pairs
          OBVIOUS
        <5> HIDE DEF cls, E, pairs
        <5> QED  BY <5>1, <5>2
      <4>3. f \in [pairs -> K]
        <5> HIDE DEF pairs, K
        <5> QED  BY <4>1
      <4> HIDE DEF f, pairs, K
      <4> QED  BY <4>2, <4>3 DEF Surjection
    <3>3. f \in Injection(pairs, K)
      <4>1. ASSUME NEW p \in pairs, NEW q \in pairs, f[p] = f[q]  PROVE p = q
        <5>1. PICK d \in E : p = <<d[1], cls(d)>>
          OBVIOUS
        <5>2. PICK e \in E : q = <<e[1], cls(e)>>
          OBVIOUS
        <5>3. f[p] = key(d[1], cls(d)) /\ f[q] = key(e[1], cls(e))
          BY <5>1, <5>2
        <5> QED  BY <4>1, <5>1, <5>2, <5>3, <2>2
      <4>2. f \in [pairs -> K]
        BY <3>2 DEF Surjection
      <4> HIDE DEF f, pairs, K
      <4> QED  BY <4>1, <4>2 DEF Injection, IsInjective
    <3> HIDE DEF f, pairs, K
    <3>4. Cardinality(K) = Cardinality(pairs)
      BY <3>1, <3>2, <3>3, FS_Surjection
    <3>5. DOMAIN workloads = K
      BY <2>3, <2>k DEF K
    <3> QED  BY <3>4, <3>5
  <2> QED  BY <2>4, <2>5 DEF PoolPerEntry
<1> QED  BY <1>1, StartupInvariant, PTL

\* Sentries of different pools have different IDs (spawn, ReplaceAll) if no
\* template has a slash in its name and no class a slash or a dash
\* (IdsDistinct).
THEOREM DistinctIds == Spec => []IdsDistinct
<1>1. StartupInv => IdsDistinct
  <2> SUFFICES ASSUME StartupInv,
                      \A n \in DOMAIN cfg.templates : "/" \notin chars(n),
                      \A c \in classNames : chars(c) \cap {"/", "-"} = {},
                      NEW k \in DOMAIN workloads, NEW j \in DOMAIN workloads,
                      NEW m \in 1 .. 2, NEW n \in 1 .. 2,
                      sentryID(k, m) = sentryID(j, n)
               PROVE  k = j /\ m = n
    BY DEF IdsDistinct
  <2>1. ConfigOK(cfg) /\ Validate(cfg) /\ workloads \in Workloads(cfg)
    BY DEF StartupInv, TypeInv, WorkInv
  <2>2. ASSUME NEW x \in DOMAIN workloads
        PROVE  \E t \in Name : \E c \in Name :
                 /\ x = key(t, c) /\ safeName(x) \in Name /\ splits(safeName(x), t, "-", c)
                 /\ "-" \notin chars(c)
    <3>1. PICK e \in entries(cfg) : x = entryKey(cfg, e)
      BY <2>1, WorkloadsMap
    <3> DEFINE t == e[1]
               c == entry(cfg, e).resourceClass
    <3>2. t \in Name /\ t \in DOMAIN cfg.templates /\ c \in Name /\ c \in classNames
      BY <2>1, EntryType, EntryClass
    <3>3. x = key(t, c)
      BY <3>1 DEF entryKey
    <3> HIDE DEF t, c
    <3>4. "/" \notin chars(t) /\ "/" \notin chars(c) /\ "-" \notin chars(c)
      BY <3>2
    <3>5. safeName(x) = t \o <<"-">> \o c
      BY <3>2, <3>3, <3>4, SafeKey
    <3>6. "-" \in Chars  BY CharsAssumption
    <3>7. safeName(x) \in Name /\ splits(safeName(x), t, "-", c)
      BY <3>2, <3>5, <3>6, Joined DEF Name
    <3> QED  BY <3>2, <3>3, <3>4, <3>7
  <2>3. safeName(k) \in Name /\ safeName(j) \in Name
    BY <2>2
  <2>4. safeName(k) = safeName(j) /\ ToString(m) = ToString(n)
    <3>1. idText(safeName(k), ToString(m)) = idText(safeName(j), ToString(n))
      BY Zenon DEF sentryID, idText
    <3> QED  BY <2>3, <3>1, IdParts
  <2>5. PICK t1 \in Name, c1 \in Name :
          k = key(t1, c1) /\ splits(safeName(k), t1, "-", c1) /\ "-" \notin chars(c1)
    BY <2>2
  <2>6. PICK t2 \in Name, c2 \in Name :
          j = key(t2, c2) /\ splits(safeName(j), t2, "-", c2) /\ "-" \notin chars(c2)
    BY <2>2
  <2>7. t1 = t2 /\ c1 = c2
    <3> DEFINE u == safeName(k)
    <3>1. splits(u, t1, "-", c1) /\ splits(u, t2, "-", c2)
      BY <2>4, <2>5, <2>6
    <3> HIDE DEF u
    <3> QED  BY <3>1, <2>5, <2>6, SplitUnique DEF Name
  <2> QED  BY <2>4, <2>5, <2>6, <2>7, NumbersAssumption
<1> QED  BY <1>1, StartupInvariant, PTL

-----------------------------------------------------------------------------
(* Checkpoint paths *)

\* Induction over the natural numbers: a set that holds 0, and n + 1 with every
\* n, holds them all. (WFMin gives the least number it would miss.)
LEMMA NumbersInduction ==
  ASSUME NEW S, 0 \in S, \A n \in Nat : n \in S => n + 1 \in S
  PROVE  \A n \in Nat : n \in S
<1> SUFFICES ASSUME NEW k \in Nat, k \notin S PROVE FALSE
  OBVIOUS
<1> DEFINE R == OpToRel(<, Nat)
           T == Nat \ S
<1>1. IsWellFoundedOn(R, Nat)
  BY NatLessThanWellFounded, Zenon
<1>2. \A x, y \in Nat : x < y => <<x, y>> \in R
  BY DEF OpToRel
<1>3. T \subseteq Nat /\ T # {}
  OBVIOUS
<1> HIDE DEF R, T
<1>4. PICK x \in T : \A y \in T : <<y, x>> \notin R
  BY <1>1, <1>3, WFMin
<1> USE DEF T
<1>5. x \in Nat /\ x # 0 /\ x - 1 \in Nat /\ x - 1 < x
  BY <1>4
<1>6. x - 1 \notin T
  BY <1>2, <1>4, <1>5
<1> QED  BY <1>5, <1>6

\* Segments of a path, and those that Clean leaves.
Segment == {s \in Name : "/" \notin chars(s)}
Proper == Segment \ {<< >>}

\* f runs through the segments of path.
absSteps(path, f, k) ==
  f = [n \in 0 .. k |-> IF n = 0 THEN IF path.absolute THEN << >> ELSE Cwd
                        ELSE cleanSegment(f[n - 1], path.segments[n])]

\* The recursive function of Abs exists, and Abs is its last value.
LEMMA AbsSteps ==
  ASSUME NEW path, givenPath(path)
  PROVE  \E f : absSteps(path, f, Len(path.segments)) /\ Abs(path) = f[Len(path.segments)]
<1>l. Len(path.segments) \in Nat
  BY DEF givenPath
<1> DEFINE S == {k \in Nat : \E f : absSteps(path, f, k)}
<1>1. 0 \in S
  <2> DEFINE f == [n \in 0 .. 0 |-> IF path.absolute THEN << >> ELSE Cwd]
  <2>1. absSteps(path, f, 0)
    BY DEF absSteps
  <2> QED  BY <2>1
<1>2. ASSUME NEW k \in Nat, k \in S PROVE k + 1 \in S
  <2>1. PICK f : absSteps(path, f, k)
    BY <1>2
  <2> DEFINE g == [n \in 0 .. k + 1 |-> IF n = k + 1 THEN cleanSegment(f[k], path.segments[k + 1])
                                        ELSE f[n]]
  <2>2. absSteps(path, g, k + 1)
    BY <2>1 DEF absSteps
  <2> HIDE DEF g
  <2>3. k + 1 \in Nat /\ \E h : absSteps(path, h, k + 1)
    BY <2>2
  <2> QED  BY <2>3
<1> HIDE DEF S
<1>3. Len(path.segments) \in S
  BY <1>1, <1>2, <1>l, NumbersInduction
<1>4. \E f : absSteps(path, f, Len(path.segments))
  BY <1>3 DEF S
<1> DEFINE f == CHOOSE g : absSteps(path, g, Len(path.segments))
<1>5. absSteps(path, f, Len(path.segments))
  BY <1>4, Zenon
<1>6. Abs(path) = f[Len(path.segments)]
  BY Zenon DEF Abs, absSteps
<1> HIDE DEF f
<1> QED  BY <1>5, <1>6

\* A segment is added, taken away or passed over.
LEMMA CleanType ==
  ASSUME NEW p \in Seq(Proper), NEW s \in Segment
  PROVE  cleanSegment(p, s) \in Seq(Proper)
<1>1. CASE s \in {<< >>, <<".">>}
  <2>1. Len(<< >>) = 0 /\ Len(<<".">>) = 1 /\ Len(<<".", ".">>) = 2
    OBVIOUS
  <2>2. s # <<".", ".">>
    BY <1>1, <2>1
  <2> QED  BY <1>1, <2>2 DEF cleanSegment
<1>2. CASE s = <<".", ".">> /\ p = << >>
  BY <1>2 DEF cleanSegment
<1>3. CASE s = <<".", ".">> /\ p # << >>
  <2>1. Front(p) \in Seq(Proper)
    BY <1>3, HeadTailProperties DEF Front
  <2> QED  BY <1>3, <2>1 DEF cleanSegment
<1>4. CASE s \notin {<< >>, <<".">>, <<".", ".">>}
  BY <1>4 DEF cleanSegment, Proper
<1> QED  BY <1>1, <1>2, <1>3, <1>4

\* Abs leaves proper segments: neither empty ones nor any with a slash.
LEMMA AbsType ==
  ASSUME NEW path, givenPath(path)
  PROVE  Abs(path) \in Seq(Proper)
<1> DEFINE k == Len(path.segments)
<1>1. PICK f : absSteps(path, f, k) /\ Abs(path) = f[k]
  BY AbsSteps
<1>k. k \in Nat /\ DOMAIN path.segments = 1 .. k
      /\ \A i \in 1 .. k : path.segments[i] \in Segment
  BY DEF givenPath, Segment
<1>c. Cwd \in Seq(Proper)
  BY CwdAssumption DEF Proper, Segment, Name, chars
<1> HIDE DEF k
<1> DEFINE S == {n \in Nat : n <= k => f[n] \in Seq(Proper)}
<1>2. 0 \in S
  BY <1>1, <1>c, <1>k DEF absSteps, givenPath
<1>3. ASSUME NEW n \in Nat, n \in S PROVE n + 1 \in S
  <2> SUFFICES ASSUME n + 1 <= k PROVE f[n + 1] \in Seq(Proper)
    OBVIOUS
  <2>1. f[n] \in Seq(Proper)
    BY <1>3, <1>k
  <2>2. f[n + 1] = cleanSegment(f[n], path.segments[n + 1])
    BY <1>1, <1>k DEF absSteps
  <2> QED  BY <1>k, <2>1, <2>2, CleanType
<1> HIDE DEF S
<1>4. k \in S
  BY <1>2, <1>3, <1>k, NumbersInduction
<1> QED  BY <1>1, <1>4 DEF S

\* The text of the first n segments is t[n].
joins(a, t, k) ==
  t = [n \in 0 .. k |-> IF n = 0 THEN << >> ELSE t[n - 1] \o <<"/">> \o a[n]]

\* The recursive function of text exists, and text is its last value.
LEMMA TextJoins ==
  ASSUME NEW a \in Seq(Proper)
  PROVE  \E t : /\ joins(a, t, Len(a))
                /\ text(a) = IF a = << >> THEN <<"/">> ELSE t[Len(a)]
<1>l. Len(a) \in Nat
  OBVIOUS
<1> DEFINE S == {k \in Nat : \E t : joins(a, t, k)}
<1>1. 0 \in S
  <2> DEFINE t == [n \in 0 .. 0 |-> << >>]
  <2>1. joins(a, t, 0)
    BY DEF joins
  <2> QED  BY <2>1
<1>2. ASSUME NEW k \in Nat, k \in S PROVE k + 1 \in S
  <2>1. PICK t : joins(a, t, k)
    BY <1>2
  <2> DEFINE u == [n \in 0 .. k + 1 |-> IF n = k + 1 THEN t[k] \o <<"/">> \o a[k + 1] ELSE t[n]]
  <2>2. joins(a, u, k + 1)
    BY <2>1 DEF joins
  <2> HIDE DEF u
  <2>3. k + 1 \in Nat /\ \E h : joins(a, h, k + 1)
    BY <2>2
  <2> QED  BY <2>3
<1> HIDE DEF S
<1>3. Len(a) \in S
  BY <1>1, <1>2, <1>l, NumbersInduction
<1>4. \E t : joins(a, t, Len(a))
  BY <1>3 DEF S
<1> DEFINE t == CHOOSE g : joins(a, g, Len(a))
<1>5. joins(a, t, Len(a))
  BY <1>4, Zenon
<1>6. text(a) = IF a = << >> THEN <<"/">> ELSE t[Len(a)]
  BY Zenon DEF text, joins
<1> HIDE DEF t
<1> QED  BY <1>5, <1>6

\* What the texts of the first segments are, by position: each ends where a
\* slash and the next segment follow.
joined(a, t, k) ==
  /\ array(t[0]) /\ Len(t[0]) = 0
  /\ \A n \in 1 .. k :
       /\ array(a[n]) /\ Len(a[n]) > 0 /\ "/" \notin chars(a[n])
       /\ array(t[n]) /\ splits(t[n], t[n - 1], "/", a[n])

\* The texts of the first segments are texts, with the next segment behind each.
LEMMA JoinedAt ==
  ASSUME NEW a \in Seq(Proper), NEW t, joins(a, t, Len(a))
  PROVE  joined(a, t, Len(a)) /\ \A n \in 0 .. Len(a) : t[n] \in Seq(Chars)
<1> DEFINE k == Len(a)
           S == {n \in Nat : n <= k => t[n] \in Seq(Chars)}
<1>k. k \in Nat /\ \A n \in 1 .. k : a[n] \in Proper
  OBVIOUS
<1>a. \A s \in Proper : s \in Seq(Chars) /\ array(s) /\ Len(s) > 0 /\ "/" \notin chars(s)
  <2> SUFFICES ASSUME NEW s \in Proper PROVE s \in Seq(Chars) /\ array(s) /\ Len(s) > 0 /\ "/" \notin chars(s)
    OBVIOUS
  <2>1. s \in Seq(Chars) /\ s # << >> /\ "/" \notin chars(s)
    BY DEF Proper, Segment, Name
  <2>2. Len(s) \in Nat /\ Len(s) # 0 /\ DOMAIN s = 1 .. Len(s)
    BY <2>1
  <2> QED  BY <2>1, <2>2 DEF array
<1>t. t[0] = << >> /\ \A n \in 1 .. k : t[n] = t[n - 1] \o <<"/">> \o a[n]
  BY <1>k DEF joins
<1>s. "/" \in Chars
  BY CharsAssumption
<1> HIDE DEF k
<1>0. << >> \in Seq(Chars)
  OBVIOUS
<1>1. 0 \in S
  BY <1>0, <1>t
<1>2. ASSUME NEW n \in Nat, n \in S PROVE n + 1 \in S
  <2> SUFFICES ASSUME n + 1 <= k PROVE t[n + 1] \in Seq(Chars)
    OBVIOUS
  <2>1. t[n] \in Seq(Chars) /\ n + 1 \in 1 .. k /\ (n + 1) - 1 = n
    BY <1>2, <1>k
  <2>2. a[n + 1] \in Seq(Chars)
    BY <2>1, <1>k, <1>a
  <2>3. t[n + 1] = t[n] \o <<"/">> \o a[n + 1]
    BY <2>1, <1>t
  <2> QED  BY <2>1, <2>2, <2>3, <1>s, Joined
<1> HIDE DEF S
<1>3. \A n \in Nat : n \in S
  BY <1>1, <1>2, NumbersInduction
<1>4. \A n \in 0 .. k : t[n] \in Seq(Chars)
  BY <1>3, <1>k DEF S
<1>5. \A n \in 0 .. k : array(t[n])
  BY <1>4 DEF array
<1>6. ASSUME NEW n \in 1 .. k PROVE splits(t[n], t[n - 1], "/", a[n])
  <2>1. n - 1 \in 0 .. k /\ a[n] \in Seq(Chars)
    BY <1>k, <1>a
  <2> QED  BY <2>1, <1>4, <1>t, <1>s, Joined
<1>7. Len(t[0]) = 0 /\ 0 \in 0 .. k
  BY <1>t, <1>k
<1>8. \A n \in 1 .. k : n \in 0 .. k
  BY <1>k
<1> QED  BY <1>4, <1>5, <1>6, <1>7, <1>8, <1>k, <1>a DEF joined, k

\* strings.HasPrefix(v, u), by position.
hasPrefix(v, u) == Len(u) <= Len(v) /\ \A i \in 1 .. Len(u) : u[i] = v[i]

\* u is the text x and a slash.
slashed(u, x) == array(u) /\ Len(u) = Len(x) + 1 /\ u[Len(x) + 1] = "/" /\ hasPrefix(u, x)

\* A prefix of a prefix.
LEMMA PrefixTransitive ==
  ASSUME NEW u, NEW v, NEW w, array(u), array(v), array(w), hasPrefix(v, u), hasPrefix(w, v)
  PROVE  hasPrefix(w, u)
BY DEF hasPrefix, array

\* The text before a separator is a prefix, and the separator comes next.
LEMMA SplitsPrefix ==
  ASSUME NEW u, NEW x, NEW sep, NEW y, Len(x) \in Nat, Len(y) \in Nat, splits(u, x, sep, y)
  PROVE  hasPrefix(u, x) /\ Len(x) < Len(u) /\ u[Len(x) + 1] = sep
BY DEF splits, hasPrefix

\* A text grows with its segments.
LEMMA TextGrows ==
  ASSUME NEW a, NEW t, NEW k \in Nat, joined(a, t, k), NEW m \in 0 .. k, NEW n \in 0 .. k, m <= n
  PROVE  hasPrefix(t[n], t[m])
<1>a. \A i \in 0 .. k : array(t[i]) /\ Len(t[i]) \in Nat
  <2> SUFFICES ASSUME NEW i \in 0 .. k PROVE array(t[i])
    BY DEF array
  <2>1. CASE i = 0
    BY <2>1 DEF joined
  <2>2. CASE i # 0
    BY <2>2 DEF joined
  <2> QED  BY <2>1, <2>2
<1> DEFINE S == {i \in Nat : m + i <= k => hasPrefix(t[m + i], t[m])}
<1>1. 0 \in S
  BY <1>a DEF hasPrefix
<1>2. ASSUME NEW i \in Nat, i \in S PROVE i + 1 \in S
  <2> SUFFICES ASSUME m + (i + 1) <= k PROVE hasPrefix(t[m + (i + 1)], t[m])
    OBVIOUS
  <2> DEFINE j == m + (i + 1)
  <2>1. j \in 1 .. k /\ j \in 0 .. k /\ j - 1 = m + i /\ m + i \in 0 .. k
    OBVIOUS
  <2>2. hasPrefix(t[j - 1], t[m])
    BY <1>2, <2>1
  <2> HIDE DEF j
  <2>3. splits(t[j], t[j - 1], "/", a[j]) /\ Len(a[j]) \in Nat
    BY <2>1 DEF joined, array
  <2>4. hasPrefix(t[j], t[j - 1])
    BY <2>1, <2>3, <1>a, SplitsPrefix
  <2>5. hasPrefix(t[j], t[m])
    BY <2>1, <2>2, <2>4, <1>a, PrefixTransitive
  <2> QED  BY <2>5 DEF j
<1> HIDE DEF S
<1>3. n - m \in S
  BY <1>1, <1>2, NumbersInduction
<1>4. m + (n - m) = n
  OBVIOUS
<1> QED  BY <1>3, <1>4 DEF S

\* In a text with a slash behind it, a slash follows each of the segments.
LEMMA SlashFollows ==
  ASSUME NEW a, NEW t, NEW k \in Nat, joined(a, t, k), NEW u, slashed(u, t[k]), NEW n \in 0 .. k
  PROVE  /\ array(t[n]) /\ hasPrefix(u, t[n])
         /\ Len(t[n]) < Len(u) /\ u[Len(t[n]) + 1] = "/"
<1>a. \A i \in 0 .. k : array(t[i]) /\ Len(t[i]) \in Nat
  <2> SUFFICES ASSUME NEW i \in 0 .. k PROVE array(t[i])
    BY DEF array
  <2>1. CASE i = 0
    BY <2>1 DEF joined
  <2>2. CASE i # 0
    BY <2>2 DEF joined
  <2> QED  BY <2>1, <2>2
<1>1. hasPrefix(t[k], t[n]) /\ hasPrefix(u, t[k]) /\ array(u) /\ k \in 0 .. k
  BY TextGrows DEF slashed
<1>2. hasPrefix(u, t[n])
  BY <1>1, <1>a, PrefixTransitive
<1>3. CASE n = k
  BY <1>2, <1>3, <1>a DEF slashed
<1>4. CASE n < k
  <2>1. n + 1 \in 1 .. k /\ n + 1 \in 0 .. k /\ (n + 1) - 1 = n
    BY <1>4
  <2>2. splits(t[n + 1], t[n], "/", a[n + 1]) /\ Len(a[n + 1]) \in Nat
    BY <2>1 DEF joined, array
  <2>3. Len(t[n]) < Len(t[n + 1]) /\ t[n + 1][Len(t[n]) + 1] = "/"
    BY <2>1, <2>2, <1>a, SplitsPrefix
  <2>4. hasPrefix(t[k], t[n + 1])
    BY <2>1, TextGrows
  <2>5. hasPrefix(u, t[n + 1])
    BY <2>1, <2>4, <1>1, <1>a, PrefixTransitive
  <2>6. Len(t[n]) \in Nat /\ Len(t[n + 1]) \in Nat /\ Len(u) \in Nat /\ array(t[n])
    BY <2>1, <1>1, <1>a DEF array
  <2>7. Len(t[n]) < Len(u) /\ u[Len(t[n]) + 1] = "/"
    BY <2>3, <2>5, <2>6 DEF hasPrefix
  <2> QED  BY <2>6, <2>7, <1>2
<1> QED  BY <1>3, <1>4

\* x is what the text u has between a slash behind position p and the next one.
segmentAt(u, p, x) ==
  /\ array(x) /\ Len(x) > 0 /\ "/" \notin chars(x)
  /\ p + 1 + Len(x) < Len(u) /\ u[p + 1 + Len(x) + 1] = "/"
  /\ \A j \in 1 .. Len(x) : u[p + 1 + j] = x[j]

\* The segment that comes next stands between two slashes.
LEMMA SegmentAt ==
  ASSUME NEW a, NEW t, NEW k \in Nat, joined(a, t, k), NEW u, slashed(u, t[k]),
         NEW n \in 0 .. k, n # k
  PROVE  segmentAt(u, Len(t[n]), a[n + 1]) /\ Len(t[n + 1]) = Len(t[n]) + 1 + Len(a[n + 1])
<1> DEFINE x == a[n + 1]
<1>p. PICK p \in Nat : p = Len(t[n])
  BY SlashFollows DEF array
<1>1. n + 1 \in 1 .. k /\ n + 1 \in 0 .. k /\ (n + 1) - 1 = n
  OBVIOUS
<1>2. array(x) /\ Len(x) > 0 /\ "/" \notin chars(x) /\ splits(t[n + 1], t[n], "/", x)
  BY <1>1 DEF joined
<1>3. hasPrefix(u, t[n + 1]) /\ Len(t[n + 1]) < Len(u) /\ u[Len(t[n + 1]) + 1] = "/"
  BY <1>1, SlashFollows
<1> HIDE DEF x
<1>4. Len(x) \in Nat /\ Len(t[n + 1]) = p + 1 + Len(x)
      /\ \A j \in 1 .. Len(x) : t[n + 1][p + 1 + j] = x[j]
  BY <1>2, <1>p DEF splits, array
<1>5. ASSUME NEW j \in 1 .. Len(x) PROVE u[p + 1 + j] = x[j]
  <2>1. p + 1 + j \in 1 .. Len(t[n + 1])
    BY <1>4
  <2> QED  BY <2>1, <1>3, <1>4 DEF hasPrefix
<1> QED  BY <1>p, <1>2, <1>3, <1>4, <1>5 DEF x, segmentAt

\* Two segments between slashes at the same place of two texts, one of which is
\* a prefix of the other, are the same.
LEMMA SameSegment ==
  ASSUME NEW u, NEW v, array(u), hasPrefix(v, u), NEW p \in Nat, NEW x, NEW y,
         segmentAt(u, p, x), segmentAt(v, p, y)
  PROVE  Len(x) = Len(y) /\ \A j \in 1 .. Len(x) : x[j] = y[j]
<1>m. PICK m \in Nat : m = Len(x) /\ DOMAIN x = 1 .. m
  BY DEF segmentAt, array
<1>n. PICK n \in Nat : n = Len(y) /\ DOMAIN y = 1 .. n
  BY DEF segmentAt, array
<1>k. PICK k \in Nat : k = Len(u) /\ \A i \in 1 .. k : u[i] = v[i]
  BY DEF hasPrefix, array
<1>x. /\ "/" \notin chars(x) /\ p + 1 + m < k /\ u[p + 1 + m + 1] = "/"
      /\ \A j \in 1 .. m : u[p + 1 + j] = x[j]
  BY <1>m, <1>k DEF segmentAt
<1>y. /\ "/" \notin chars(y) /\ v[p + 1 + n + 1] = "/"
      /\ \A j \in 1 .. n : v[p + 1 + j] = y[j]
  BY <1>n DEF segmentAt
<1>1. ~(m < n)
  <2> SUFFICES ASSUME m < n PROVE FALSE
    OBVIOUS
  <2>1. m + 1 \in 1 .. n /\ p + 1 + m + 1 = p + 1 + (m + 1) /\ p + 1 + m + 1 \in 1 .. k
    BY <1>x
  <2>2. y[m + 1] = "/"
    BY <2>1, <1>k, <1>x, <1>y
  <2> QED  BY <2>1, <2>2, <1>n, <1>y DEF chars
<1>2. ~(n < m)
  <2> SUFFICES ASSUME n < m PROVE FALSE
    OBVIOUS
  <2>1. n + 1 \in 1 .. m /\ p + 1 + n + 1 = p + 1 + (n + 1) /\ p + 1 + n + 1 \in 1 .. k
    BY <1>x
  <2>2. x[n + 1] = "/"
    BY <2>1, <1>k, <1>x, <1>y
  <2> QED  BY <2>1, <2>2, <1>m, <1>x DEF chars
<1>3. m = n
  BY <1>1, <1>2
<1>4. \A j \in 1 .. m : p + 1 + j \in 1 .. k
  BY <1>x
<1>5. \A j \in 1 .. m : x[j] = y[j]
  BY <1>3, <1>4, <1>k, <1>x, <1>y
<1> QED  BY <1>3, <1>5, <1>m, <1>n

\* The k segments of a are, by position, the first of the l of b.
begins(a, k, b, l) ==
  /\ k <= l
  /\ \A i \in 1 .. k : Len(a[i]) = Len(b[i]) /\ \A j \in 1 .. Len(a[i]) : a[i][j] = b[i][j]

\* If a text with a slash behind it begins another, its segments begin the
\* other's.
LEMMA SegmentsOfPrefix ==
  ASSUME NEW a, NEW t, NEW k \in Nat, joined(a, t, k), NEW u, slashed(u, t[k]),
         NEW b, NEW s, NEW l \in Nat, joined(b, s, l), NEW v, slashed(v, s[l]),
         hasPrefix(v, u)
  PROVE  begins(a, k, b, l)
<1> DEFINE same(i) == Len(a[i]) = Len(b[i]) /\ \A j \in 1 .. Len(a[i]) : a[i][j] = b[i][j]
           S == {n \in Nat : n <= k => /\ n <= l /\ Len(t[n]) = Len(s[n])
                                       /\ \A i \in 1 .. n : same(i)}
<1>u. array(u) /\ array(v)
  BY DEF slashed
<1>1. 0 \in S
  BY DEF joined
<1>2. ASSUME NEW n \in Nat, n \in S PROVE n + 1 \in S
  <2> SUFFICES ASSUME n + 1 <= k
               PROVE  /\ n + 1 <= l /\ Len(t[n + 1]) = Len(s[n + 1])
                      /\ \A i \in 1 .. n + 1 : same(i)
    OBVIOUS
  <2>1. n < k /\ n <= l /\ Len(t[n]) = Len(s[n]) /\ \A i \in 1 .. n : same(i)
    BY <1>2
  <2> HIDE DEF same, S
  <2>n. n \in 0 .. k /\ n # k
    BY <2>1
  <2>p. PICK p \in Nat : p = Len(t[n])
    BY <2>n, SlashFollows DEF array
  <2>2. segmentAt(u, p, a[n + 1]) /\ Len(t[n + 1]) = p + 1 + Len(a[n + 1])
    BY <2>n, <2>p, SegmentAt
  <2>3. n < l
    <3> SUFFICES ASSUME n = l PROVE FALSE
      BY <2>1
    <3>1. PICK g \in Nat, h \in Nat : g = Len(u) /\ h = Len(v) /\ g <= h
      BY <1>u DEF array, hasPrefix
    <3>v. h = p + 1
      BY <3>1, <2>1, <2>p DEF slashed
    <3>2. PICK m \in Nat : m = Len(a[n + 1]) /\ m > 0 /\ p + 1 + m < g
      BY <3>1, <2>2 DEF segmentAt, array
    <3>3. g <= h /\ h = p + 1
      BY <3>1, <3>v
    <3>4. m > 0 /\ p + 1 + m < g
      BY <3>2
    <3> QED  BY <3>3, <3>4
  <2>4. segmentAt(v, p, b[n + 1]) /\ Len(s[n + 1]) = p + 1 + Len(b[n + 1])
    <3>1. n \in 0 .. l /\ n # l
      BY <2>3
    <3>2. segmentAt(v, Len(s[n]), b[n + 1]) /\ Len(s[n + 1]) = Len(s[n]) + 1 + Len(b[n + 1])
      BY <3>1, SegmentAt
    <3> QED  BY <3>2, <2>1, <2>p
  <2>5. Len(a[n + 1]) = Len(b[n + 1]) /\ \A j \in 1 .. Len(a[n + 1]) : a[n + 1][j] = b[n + 1][j]
    <3> DEFINE x == a[n + 1]
               y == b[n + 1]
    <3>1. segmentAt(u, p, x) /\ segmentAt(v, p, y)
      BY <2>2, <2>4
    <3> HIDE DEF x, y
    <3>2. Len(x) = Len(y) /\ \A j \in 1 .. Len(x) : x[j] = y[j]
      BY <3>1, <1>u, SameSegment
    <3> QED  BY <3>2 DEF x, y
  <2>6. same(n + 1)
    BY <2>5 DEF same
  <2>7. Len(t[n + 1]) = Len(s[n + 1])
    BY <2>2, <2>4, <2>5
  <2>8. \A i \in 1 .. n + 1 : i \in 1 .. n \/ i = n + 1
    OBVIOUS
  <2> QED  BY <2>1, <2>3, <2>6, <2>7, <2>8
<1> HIDE DEF S
<1>3. k \in S
  BY <1>1, <1>2, NumbersInduction
<1> QED  BY <1>3 DEF S, begins

\* What the text of proper segments starts with.
LEMMA TextStart ==
  ASSUME NEW a, NEW t, NEW k \in Nat \ {0}, joined(a, t, k)
  PROVE  array(t[k]) /\ Len(t[k]) >= 2 /\ t[k][1] = "/" /\ t[k][2] # "/"
<1>1. 1 \in 1 .. k /\ 1 \in 0 .. k /\ k \in 0 .. k /\ k \in 1 .. k /\ 1 - 1 = 0 /\ 1 <= k
  OBVIOUS
<1>2. PICK m \in Nat : m = Len(a[1]) /\ m > 0 /\ DOMAIN a[1] = 1 .. m
  BY <1>1 DEF joined, array
<1>3. "/" \notin chars(a[1]) /\ splits(t[1], t[0], "/", a[1]) /\ Len(t[0]) = 0
      /\ array(t[1]) /\ array(t[k])
  BY <1>1 DEF joined
<1>4. Len(t[1]) = 1 + m /\ t[1][1] = "/" /\ t[1][2] = a[1][1]
  BY <1>2, <1>3 DEF splits
<1>5. a[1][1] # "/"
  BY <1>2, <1>3 DEF chars
<1>6. hasPrefix(t[k], t[1])
  BY <1>1, TextGrows
<1>7. PICK h \in Nat : h = Len(t[k])
  BY <1>3 DEF array
<1>8. 1 + m <= h /\ \A i \in 1 .. 1 + m : t[1][i] = t[k][i]
  BY <1>4, <1>6, <1>7 DEF hasPrefix
<1> QED  BY <1>2, <1>3, <1>4, <1>5, <1>7, <1>8

\* HasPrefix on sequences.
LEMMA PrefixByPosition ==
  ASSUME NEW S, NEW u \in Seq(S), NEW v \in Seq(S)
  PROVE  IsPrefix(u, v) <=> hasPrefix(v, u)
<1>n. Len(u) \in Nat /\ Len(v) \in Nat
  OBVIOUS
<1>1. CASE ~(Len(u) <= Len(v))
  BY <1>1 DEF IsPrefix, hasPrefix
<1>2. CASE Len(u) <= Len(v)
  <2>1. /\ SubSeq(u, 1, Len(u)) = [i \in 1 .. Len(u) |-> u[i]]
        /\ SubSeq(v, 1, Len(u)) = [i \in 1 .. Len(u) |-> v[i]]
    BY <1>2, <1>n
  <2> QED  BY <1>2, <2>1 DEF IsPrefix, hasPrefix
<1> QED  BY <1>1, <1>2

\* A text and a slash.
LEMMA Slashed ==
  ASSUME NEW S, NEW x \in Seq(S), "/" \in S
  PROVE  x \o <<"/">> \in Seq(S) /\ slashed(x \o <<"/">>, x)
<1> DEFINE u == x \o <<"/">>
<1>1. <<"/">> \in Seq(S) /\ Len(<<"/">>) = 1 /\ <<"/">>[1] = "/"
  OBVIOUS
<1>2. PICK n \in Nat : n = Len(x)
  OBVIOUS
<1>3. u \in Seq(S) /\ Len(u) = n + 1
      /\ \A i \in 1 .. n + 1 : u[i] = IF i <= n THEN x[i] ELSE <<"/">>[i - n]
  BY <1>1, <1>2, ConcatProperties
<1> HIDE DEF u
<1>4. array(u)
  BY <1>3 DEF array
<1>5. u[n + 1] = "/" /\ \A i \in 1 .. n : x[i] = u[i]
  BY <1>1, <1>2, <1>3
<1>6. slashed(u, x)
  BY <1>2, <1>3, <1>4, <1>5 DEF slashed, hasPrefix
<1> QED  BY <1>3, <1>6 DEF u

\* The text of a path, with the texts of its first segments.
LEMMA TextOf ==
  ASSUME NEW a \in Seq(Proper)
  PROVE  /\ text(a) \in Seq(Chars)
         /\ a = << >> => text(a) = <<"/">>
         /\ \E t : /\ joins(a, t, Len(a)) /\ joined(a, t, Len(a))
                   /\ a # << >> => text(a) = t[Len(a)]
<1>1. PICK t : /\ joins(a, t, Len(a))
               /\ text(a) = IF a = << >> THEN <<"/">> ELSE t[Len(a)]
  BY TextJoins
<1>2. joined(a, t, Len(a)) /\ \A n \in 0 .. Len(a) : t[n] \in Seq(Chars)
  BY <1>1, JoinedAt
<1>3. Len(a) \in 0 .. Len(a) /\ <<"/">> \in Seq(Chars)
  BY CharsAssumption
<1>4. text(a) \in Seq(Chars)
  BY <1>1, <1>2, <1>3
<1>5. a = << >> => text(a) = <<"/">>
  BY <1>1
<1>6. a # << >> => text(a) = t[Len(a)]
  BY <1>1
<1> QED  BY <1>1, <1>2, <1>4, <1>5, <1>6

\* Paths that begin with the same segments have the same texts so far.
LEMMA SameTexts ==
  ASSUME NEW a, NEW t, NEW k \in Nat, joins(a, t, k),
         NEW b, NEW s, NEW l \in Nat, joins(b, s, l),
         k <= l, \A i \in 1 .. k : a[i] = b[i]
  PROVE  t[k] = s[k]
<1> DEFINE S == {n \in Nat : n <= k => t[n] = s[n]}
<1>1. 0 \in S
  BY DEF joins
<1>2. ASSUME NEW n \in Nat, n \in S PROVE n + 1 \in S
  <2> SUFFICES ASSUME n + 1 <= k PROVE t[n + 1] = s[n + 1]
    OBVIOUS
  <2>1. t[n] = s[n] /\ a[n + 1] = b[n + 1] /\ n + 1 \in 0 .. k /\ n + 1 \in 0 .. l
        /\ n + 1 # 0 /\ (n + 1) - 1 = n
    BY <1>2
  <2>2. t[n + 1] = t[n] \o <<"/">> \o a[n + 1]
    BY <2>1 DEF joins
  <2>3. s[n + 1] = s[n] \o <<"/">> \o b[n + 1]
    BY <2>1 DEF joins
  <2> QED  BY <2>1, <2>2, <2>3
<1> HIDE DEF S
<1>3. k \in S
  BY <1>1, <1>2, NumbersInduction
<1> QED  BY <1>3 DEF S

\* HasPrefix with the slash compares whole segments.
LEMMA TextPrefix ==
  ASSUME NEW a \in Seq(Proper), NEW b \in Seq(Proper)
  PROVE  (IsPrefix(text(a) \o <<"/">>, text(b)) \/ text(b) = text(a))
         <=> IsPrefix(a, b) /\ (a = << >> => b = << >>)
<1> DEFINE u == text(a) \o <<"/">>
           v == text(b) \o <<"/">>
<1>k. PICK k \in Nat : k = Len(a) /\ DOMAIN a = 1 .. k /\ (a = << >> <=> k = 0)
  <2>1. Len(a) \in Nat /\ DOMAIN a = 1 .. Len(a) /\ (a = << >> <=> Len(a) = 0)
    OBVIOUS
  <2> QED  BY <2>1
<1>l. PICK l \in Nat : l = Len(b) /\ DOMAIN b = 1 .. l /\ (b = << >> <=> l = 0)
  <2>1. Len(b) \in Nat /\ DOMAIN b = 1 .. Len(b) /\ (b = << >> <=> Len(b) = 0)
    OBVIOUS
  <2> QED  BY <2>1
<1>t. PICK t : joins(a, t, k) /\ joined(a, t, k) /\ (a # << >> => text(a) = t[k])
  BY <1>k, TextOf
<1>s. PICK s : joins(b, s, l) /\ joined(b, s, l) /\ (b # << >> => text(b) = s[l])
  BY <1>l, TextOf
<1>x. text(a) \in Seq(Chars) /\ text(b) \in Seq(Chars) /\ "/" \in Chars
      /\ (a = << >> => text(a) = <<"/">>) /\ (b = << >> => text(b) = <<"/">>)
  BY TextOf, CharsAssumption
<1>u. u \in Seq(Chars) /\ v \in Seq(Chars) /\ slashed(u, text(a)) /\ slashed(v, text(b))
  BY <1>x, Slashed
<1>a. array(text(a)) /\ array(text(b)) /\ array(u) /\ array(v)
  BY <1>x, <1>u DEF array
<1>p. IsPrefix(u, text(b)) <=> hasPrefix(text(b), u)
  BY <1>x, <1>u, PrefixByPosition
<1>q. IsPrefix(a, b) <=> k <= l /\ \A i \in 1 .. k : a[i] = b[i]
  BY <1>k, <1>l, PrefixByPosition DEF hasPrefix
<1> HIDE DEF u, v
<1>1. CASE a = << >> /\ b = << >>
  BY <1>1, <1>q, <1>k, <1>l
<1>2. CASE a = << >> /\ b # << >>
  <2>1. Len(text(a)) = 1 /\ Len(u) = 2 /\ u[2] = "/"
    <3>1. Len(text(a)) = 1
      BY <1>2, <1>x
    <3> QED  BY <3>1, <1>u DEF slashed
  <2>2. Len(text(b)) >= 2 /\ text(b)[2] # "/"
    BY <1>2, <1>l, <1>s, TextStart
  <2>3. ~hasPrefix(text(b), u)
    BY <2>1, <2>2 DEF hasPrefix
  <2>4. text(b) # text(a)
    BY <2>1, <2>2
  <2> QED  BY <1>2, <1>p, <2>3, <2>4 DEF u
<1>3. CASE a # << >> /\ b = << >>
  <2>1. PICK m \in Nat : m = Len(text(a)) /\ m >= 2 /\ Len(u) = m + 1
    BY <1>3, <1>a, <1>k, <1>t, <1>u, TextStart DEF slashed, array
  <2>2. Len(text(b)) = 1
    BY <1>3, <1>x
  <2>3. ~hasPrefix(text(b), u)
    <3>1. ~(m + 1 <= 1)
      BY <2>1
    <3> QED  BY <2>1, <2>2, <3>1 DEF hasPrefix
  <2>5. text(b) # text(a)
    <3>1. m # 1
      BY <2>1
    <3> QED  BY <2>1, <2>2, <3>1, Zenon
  <2>4. ~IsPrefix(a, b)
    BY <1>3, <1>k, <1>l, <1>q
  <2> QED  BY <1>p, <2>3, <2>4, <2>5 DEF u
<1>4. CASE a # << >> /\ b # << >>
  <2>1. text(a) = t[k] /\ text(b) = s[l]
    BY <1>4, <1>t, <1>s
  <2>2. ASSUME hasPrefix(text(b), u) \/ text(b) = text(a)
        PROVE  IsPrefix(a, b)
    <3>1. hasPrefix(v, u)
      <4>1. CASE hasPrefix(text(b), u)
        <5>1. hasPrefix(v, text(b))
          BY <1>u DEF slashed
        <5> QED  BY <4>1, <5>1, <1>a, PrefixTransitive
      <4>2. CASE text(b) = text(a)
        <5>1. v = u /\ Len(u) \in Nat
          BY <4>2, <1>a DEF u, v, array
        <5> QED  BY <5>1 DEF hasPrefix
      <4> QED  BY <2>2, <4>1, <4>2
    <3>2. k <= l /\ \A i \in 1 .. k : Len(a[i]) = Len(b[i]) /\ \A j \in 1 .. Len(a[i]) : a[i][j] = b[i][j]
      <4>1. slashed(u, t[k]) /\ slashed(v, s[l]) /\ joined(a, t, k) /\ joined(b, s, l)
        BY <2>1, <1>t, <1>s, <1>u
      <4>2. k \in Nat /\ l \in Nat
        BY <1>k, <1>l
      <4>3. begins(a, k, b, l)
        BY <3>1, <4>1, <4>2, SegmentsOfPrefix
      <4> QED  BY <4>3 DEF begins
    <3>3. ASSUME NEW i \in 1 .. k PROVE a[i] = b[i]
      <4> DEFINE x == a[i]
                 y == b[i]
      <4>1. i \in 1 .. l
        BY <3>2, <1>k, <1>l
      <4>2. x \in Seq(Chars) /\ y \in Seq(Chars)
        BY <4>1, <1>k, <1>l DEF Proper, Segment, Name
      <4>3. Len(x) = Len(y) /\ \A j \in 1 .. Len(x) : x[j] = y[j]
        BY <3>2
      <4> HIDE DEF x, y
      <4>4. x = y
        BY <4>2, <4>3, SeqEqual
      <4> QED  BY <4>4 DEF x, y
    <3> QED  BY <3>2, <3>3, <1>q
  <2>3. ASSUME IsPrefix(a, b), k = l
        PROVE  text(b) = text(a)
    BY <2>3, <2>1, <1>q, <1>t, <1>s, SameTexts
  <2>4. ASSUME IsPrefix(a, b), k # l
        PROVE  hasPrefix(text(b), u)
    <3>1. t[k] = s[k]
      BY <2>4, <1>q, <1>t, <1>s, SameTexts
    <3>2. k \in 0 .. l /\ k + 1 \in 0 .. l /\ k + 1 \in 1 .. l /\ (k + 1) - 1 = k /\ l \in 0 .. l
          /\ k + 1 <= l
      BY <2>4, <1>q
    <3>3. splits(s[k + 1], s[k], "/", b[k + 1]) /\ array(b[k + 1]) /\ array(s[k + 1])
      BY <3>2, <1>s DEF joined
    <3>4. hasPrefix(s[l], s[k + 1])
      BY <3>2, <1>s, TextGrows
    <3>5. PICK m \in Nat : m = Len(text(a))
      BY <1>a DEF array
    <3>6. Len(s[k]) = m /\ Len(s[k]) \in Nat /\ Len(b[k + 1]) \in Nat
      BY <3>1, <3>3, <3>5, <2>1 DEF array
    <3>7. hasPrefix(s[k + 1], text(a)) /\ m < Len(s[k + 1]) /\ s[k + 1][m + 1] = "/"
      BY <3>1, <3>3, <3>5, <3>6, <2>1, SplitsPrefix
    <3>8. Len(u) = m + 1 /\ u[m + 1] = "/" /\ hasPrefix(u, text(a))
      BY <3>5, <1>u DEF slashed
    <3>9. PICK n \in Nat : n = Len(s[k + 1])
      BY <3>3 DEF array
    <3>10. ASSUME NEW i \in 1 .. m + 1 PROVE u[i] = s[k + 1][i]
      <4>1. CASE i = m + 1
        BY <4>1, <3>7, <3>8
      <4>2. CASE i \in 1 .. m
        BY <4>2, <3>5, <3>7, <3>8 DEF hasPrefix
      <4> QED  BY <4>1, <4>2, <3>5
    <3>11. hasPrefix(s[k + 1], u)
      BY <3>5, <3>7, <3>8, <3>9, <3>10 DEF hasPrefix
    <3>12. array(s[l])
      BY <1>a, <2>1
    <3> QED  BY <3>3, <3>4, <3>11, <3>12, <1>a, <2>1, PrefixTransitive
  <2> QED  BY <1>4, <1>p, <2>2, <2>3, <2>4 DEF u
<1> QED  BY <1>1, <1>2, <1>3, <1>4

\* checkpoint_dirs confines the paths of clients: what ValidateCheckpointPath
\* finds by comparing texts is what the segments of the two paths say, dots
\* resolved, for all files, paths and working directories (CheckpointConfined).
THEOREM Confined == Spec => []CheckpointConfined
<1>1. StartupInv => CheckpointConfined
  <2> SUFFICES ASSUME StartupInv, NEW path \in Paths
               PROVE  ValidateCheckpointPath(cfg, path) <=>
                        \/ cfg.checkpointDirs = {}
                        \/ \E dir \in cfg.checkpointDirs :
                             /\ IsPrefix(Abs(dir), Abs(path))
                             /\ Abs(dir) = << >> => Abs(path) = << >>
    BY DEF CheckpointConfined
  <2>1. Abs(path) \in Seq(Proper)
    BY PathsAssumption, AbsType
  <2>2. ASSUME NEW dir \in cfg.checkpointDirs
        PROVE  underDir(path, dir) <=> /\ IsPrefix(Abs(dir), Abs(path))
                                       /\ Abs(dir) = << >> => Abs(path) = << >>
    <3>1. givenPath(dir)
      BY DEF StartupInv, TypeInv, ConfigOK
    <3>2. Abs(dir) \in Seq(Proper)
      BY <3>1, AbsType
    <3> QED  BY <2>1, <3>2, TextPrefix DEF underDir
  <2> QED  BY <2>2 DEF ValidateCheckpointPath
<1> QED  BY <1>1, StartupInvariant, PTL

=============================================================================
