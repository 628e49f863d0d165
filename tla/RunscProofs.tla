---------------------------- MODULE RunscProofs ----------------------------
(***************************************************************************)
(* Proofs about Runsc, for any number of concurrent calls and any flags.   *)
(*                                                                         *)
(* A call appends twice to the slice all calls share: its --root, one      *)
(* element, and its arguments, two at least. So the first append may stay  *)
(* in the shared array only if NewClient dropped a flag, and the second    *)
(* stays there only if it dropped three or more.                           *)
(***************************************************************************)
EXTENDS Runsc, SequenceTheorems, WellFoundedInduction, TLAPS

\* A command up to its --root, which is that of d.
prefix(d) == [i \in 1 .. Len(filtered) + 1 |->
                IF i <= Len(filtered) THEN flag(filtered[i]) ELSE root(d)]

\* The calls whose --root may be found in the command of c: its own only, if
\* no flag was dropped.
possible(c) == {d \in Calls : Len(filtered) = capacity => d = c}

\* The shared array keeps the flags.
ArrayInv ==
  /\ DOMAIN array = 1 .. capacity
  /\ \A i \in 1 .. Len(filtered) : array[i] = flag(filtered[i])

\* What a call has at each of its steps: no call shares the array once its
\* arguments are appended.
CallInv(c) ==
  /\ pc[c] = "start" => shared[c] = TRUE /\ length[c] = Len(filtered)
  /\ pc[c] = "root" =>
       /\ length[c] = Len(filtered) + 1
       /\ shared[c] = TRUE => /\ Len(filtered) < capacity
                              /\ \E d \in Calls : array[Len(filtered) + 1] = root(d)
       /\ shared[c] = FALSE => \E d \in possible(c) : own[c] = prefix(d)
  /\ pc[c] = "args" => shared[c] = FALSE /\ \E d \in possible(c) : own[c] = prefix(d) \o args(c)
  /\ pc[c] = "done" => \E d \in possible(c) : cmd[c] = prefix(d) \o args(c)

\* The inductive invariant.
RunscInv ==
  /\ pc \in [Calls -> {"start", "root", "args", "done"}]
  /\ shared \in [Calls -> BOOLEAN]
  /\ DOMAIN length = Calls /\ DOMAIN own = Calls /\ DOMAIN cmd = Calls
  /\ ArrayInv
  /\ \A c \in Calls : CallInv(c)

\* At most two of the configured flags are dropped.
FewDropped == capacity < Len(filtered) + 3

-----------------------------------------------------------------------------
(* The flags that are left *)

\* Induction over the natural numbers: a set that holds 0, and n + 1 with every
\* n, holds them all. (WFMin gives the least number it would miss.)
LEMMA NumbersInduction ==
  ASSUME NEW S, 0 \in S, \A n \in Nat : n \in S => n + 1 \in S
  PROVE  \A n \in Nat : n \in S
<1> SUFFICES ASSUME NEW k \in Nat, k \notin S PROVE FALSE
  OBVIOUS
<1> DEFINE R == OpToRel(<, Nat)
           T == Nat \ S
<1>1. IsWellFoundedOn(R, Nat)
  BY NatLessThanWellFounded, Zenon
<1>2. \A x, y \in Nat : x < y => <<x, y>> \in R
  BY DEF OpToRel
<1>3. T \subseteq Nat /\ T # {}
  OBVIOUS
<1> HIDE DEF R, T
<1>4. PICK x \in T : \A y \in T : <<y, x>> \notin R
  BY <1>1, <1>3, WFMin
<1> USE DEF T
<1>5. x \in Nat /\ x # 0 /\ x - 1 \in Nat /\ x - 1 < x
  BY <1>4
<1>6. x - 1 \notin T
  BY <1>2, <1>4, <1>5
<1> QED  BY <1>5, <1>6

\* f[n] is what the loop has kept of the first n flags.
keeps(f, k) ==
  f = [n \in 0 .. k |-> IF n = 0 THEN << >> ELSE keep(f[n - 1], ExtraFlags[n])]

\* The recursive function of filtered exists, and filtered is its last value.
LEMMA FilterLoop == \E f : keeps(f, Len(ExtraFlags)) /\ filtered = f[Len(ExtraFlags)]
<1>l. Len(ExtraFlags) \in Nat
  BY RunscAssumption
<1> DEFINE S == {k \in Nat : \E f : keeps(f, k)}
<1>1. 0 \in S
  <2> DEFINE f == [n \in 0 .. 0 |-> << >>]
  <2>1. keeps(f, 0)
    BY DEF keeps
  <2> QED  BY <2>1
<1>2. ASSUME NEW k \in Nat, k \in S PROVE k + 1 \in S
  <2>1. PICK f : keeps(f, k)
    BY <1>2
  <2> DEFINE g == [n \in 0 .. k + 1 |-> IF n = k + 1 THEN keep(f[k], ExtraFlags[k + 1]) ELSE f[n]]
  <2>2. keeps(g, k + 1)
    BY <2>1 DEF keeps
  <2> HIDE DEF g
  <2>3. k + 1 \in Nat /\ \E h : keeps(h, k + 1)
    BY <2>2
  <2> QED  BY <2>3
<1> HIDE DEF S
<1>3. Len(ExtraFlags) \in S
  BY <1>1, <1>2, <1>l, NumbersInduction
<1>4. \E f : keeps(f, Len(ExtraFlags))
  BY <1>3 DEF S
<1> DEFINE f == CHOOSE g : keeps(g, Len(ExtraFlags))
<1>5. keeps(f, Len(ExtraFlags))
  BY <1>4, Zenon
<1>6. filtered = f[Len(ExtraFlags)]
  BY Zenon DEF filtered, keeps
<1> HIDE DEF f
<1> QED  BY <1>5, <1>6

\* The flags left are a sequence no longer than capacity, and all of them if
\* none is --warm-sentry.
LEMMA FilterLength ==
  /\ capacity \in Nat /\ Len(filtered) \in Nat /\ Len(filtered) <= capacity
  /\ (\A i \in DOMAIN ExtraFlags : ExtraFlags[i] # WarmFlag) => Len(filtered) = capacity
<1> DEFINE F == STRING
           none == \A i \in DOMAIN ExtraFlags : ExtraFlags[i] # WarmFlag
<1>1. PICK k \in Nat : k = Len(ExtraFlags) /\ DOMAIN ExtraFlags = 1 .. k
                      /\ \A i \in 1 .. k : ExtraFlags[i] \in F
  BY RunscAssumption
<1>2. PICK f : keeps(f, k) /\ filtered = f[k]
  BY <1>1, FilterLoop
<1> DEFINE S == {n \in Nat : n <= k => /\ f[n] \in Seq(F) /\ Len(f[n]) <= n
                                       /\ none => Len(f[n]) = n}
<1> HIDE DEF F
<1>3. 0 \in S
  BY <1>2 DEF keeps
<1>4. ASSUME NEW n \in Nat, n \in S PROVE n + 1 \in S
  <2> SUFFICES ASSUME n + 1 <= k
               PROVE  f[n + 1] \in Seq(F) /\ Len(f[n + 1]) <= n + 1 /\ (none => Len(f[n + 1]) = n + 1)
    OBVIOUS
  <2>1. f[n] \in Seq(F) /\ Len(f[n]) <= n /\ (none => Len(f[n]) = n) /\ n + 1 \in 1 .. k
    BY <1>4
  <2>2. ExtraFlags[n + 1] \in F /\ (none => isFlag(ExtraFlags[n + 1]))
    BY <1>1, <2>1 DEF isFlag
  <2>3. f[n + 1] = keep(f[n], ExtraFlags[n + 1])
    BY <1>2, <2>1 DEF keeps
  <2>4. CASE isFlag(ExtraFlags[n + 1])
    <3>1. f[n + 1] = Append(f[n], ExtraFlags[n + 1])
      BY <2>4, <2>3 DEF keep
    <3> HIDE DEF none
    <3> QED  BY <2>1, <2>2, <3>1
  <2>5. CASE ~isFlag(ExtraFlags[n + 1])
    <3>1. f[n + 1] = f[n]
      BY <2>5, <2>3 DEF keep
    <3> HIDE DEF none
    <3> QED  BY <2>1, <2>2, <2>5, <3>1
  <2> QED  BY <2>4, <2>5
<1> HIDE DEF S
<1>5. k \in S
  BY <1>3, <1>4, NumbersInduction
<1>6. f[k] \in Seq(F) /\ Len(f[k]) <= k /\ (none => Len(f[k]) = k)
  BY <1>5 DEF S
<1> QED  BY <1>1, <1>2, <1>6 DEF capacity

-----------------------------------------------------------------------------
(* Commands *)

\* The elements of a command from those before its arguments.
LEMMA WithArguments ==
  ASSUME NEW S, NEW s \in Seq(S), NEW t \in Seq(S), NEW n \in Nat, Len(s) = n, Len(t) = 2
  PROVE  /\ s \o t \in Seq(S) /\ Len(s \o t) = n + 2
         /\ \A i \in 1 .. n + 2 : (s \o t)[i] = IF i <= n THEN s[i] ELSE t[i - n]
BY ConcatProperties

\* The flags and a root, as append puts them together.
LEMMA FlagsAndRoot ==
  ASSUME NEW d
  PROVE  [i \in 1 .. Len(filtered) |-> flag(filtered[i])] \o <<root(d)>> = prefix(d)
<1> DEFINE E == {flag(filtered[i]) : i \in 1 .. Len(filtered)} \cup {root(d)}
<1> SUFFICES ASSUME NEW k, k = Len(filtered), NEW g, g = [i \in 1 .. k |-> flag(filtered[i])]
             PROVE  g \o <<root(d)>> = prefix(d)
  OBVIOUS
<1>k. k \in Nat  BY FilterLength
<1>g. g \in Seq(E) /\ Len(g) = k /\ \A i \in 1 .. k : g[i] = flag(filtered[i])
  BY <1>k
<1>r. root(d) \in E  OBVIOUS
<1>p. prefix(d) = [i \in 1 .. k + 1 |-> IF i <= k THEN flag(filtered[i]) ELSE root(d)]
  BY DEF prefix
<1>q. \A i \in 1 .. k + 1 : (IF i <= k THEN flag(filtered[i]) ELSE root(d)) \in E
  BY <1>k
<1> HIDE DEF E
<1>s. prefix(d) \in Seq(E) /\ Len(prefix(d)) = k + 1
  BY <1>p, <1>q, <1>k
<1>h. g \o <<root(d)>> \in Seq(E) /\ Len(g \o <<root(d)>>) = k + 1
      /\ \A i \in 1 .. k + 1 : (g \o <<root(d)>>)[i] = IF i <= k THEN g[i] ELSE root(d)
  BY <1>g, <1>r, <1>k
<1> QED  BY <1>h, <1>s, <1>g, <1>p, <1>k

\* The command with the root of d is the intended one but for its root.
LEMMA PrefixCommand ==
  ASSUME NEW c \in Calls, NEW d \in Calls
  PROVE  /\ prefix(d) \o args(c) = [intended(c) EXCEPT ![Len(filtered) + 1] = root(d)]
         /\ prefix(c) \o args(c) = intended(c)
<1> DEFINE E == {flag(filtered[i]) : i \in 1 .. Len(filtered)} \cup {root(e) : e \in Calls}
                 \cup {<<"verb", c>>, <<"id", c>>}
<1> SUFFICES ASSUME NEW k, k = Len(filtered)
             PROVE  /\ prefix(d) \o args(c) = [(prefix(c) \o args(c)) EXCEPT ![k + 1] = root(d)]
                    /\ prefix(c) \o args(c) = intended(c)
  BY FlagsAndRoot DEF intended
<1>k. k \in Nat /\ k + 1 \in Nat  BY FilterLength
<1>a. args(c) \in Seq(E) /\ Len(args(c)) = 2  BY DEF args
<1>p. ASSUME NEW e \in Calls
      PROVE  prefix(e) \in Seq(E) /\ Len(prefix(e)) = k + 1
             /\ \A i \in 1 .. k + 1 : prefix(e)[i] = IF i <= k THEN flag(filtered[i]) ELSE root(e)
  <2>1. root(e) \in E  OBVIOUS
  <2>2. prefix(e) = [i \in 1 .. k + 1 |-> IF i <= k THEN flag(filtered[i]) ELSE root(e)]
    BY DEF prefix
  <2>3. \A i \in 1 .. k + 1 : (IF i <= k THEN flag(filtered[i]) ELSE root(e)) \in E
    BY <2>1, <1>k
  <2> HIDE DEF E
  <2> QED  BY <2>2, <2>3, <1>k
<1> HIDE DEF E
<1> DEFINE w(e) == prefix(e) \o args(c)
<1>w. ASSUME NEW e \in Calls
      PROVE  w(e) \in Seq(E) /\ Len(w(e)) = k + 3
             /\ \A i \in 1 .. k + 3 :
                  w(e)[i] = IF i <= k + 1 THEN prefix(e)[i] ELSE args(c)[i - (k + 1)]
  BY <1>p, <1>a, <1>k, WithArguments, SMTT(30)
<1> HIDE DEF w
<1>1. w(d) = [w(c) EXCEPT ![k + 1] = root(d)]
  <2>1. DOMAIN w(c) = 1 .. k + 3 /\ w(d) = [i \in 1 .. k + 3 |-> w(d)[i]]
    BY <1>w
  <2>2. ASSUME NEW i \in 1 .. k + 3
        PROVE  w(d)[i] = IF i = k + 1 THEN root(d) ELSE w(c)[i]
    BY <1>w, <1>p, <1>k, <2>2
  <2> QED  BY <2>1, <2>2, <1>k
<1>2. prefix(c) \o args(c) = intended(c)
  BY FlagsAndRoot DEF intended
<1> QED  BY <1>1, <1>2 DEF w

-----------------------------------------------------------------------------
(* The invariant *)

\* Every initial state satisfies RunscInv.
LEMMA InitEstablishes ==
  ASSUME Init
  PROVE  RunscInv
<1>1. \A i \in 1 .. Len(filtered) : i \in 1 .. capacity /\ i <= Len(filtered)
  BY FilterLength
<1>2. ArrayInv
  BY <1>1 DEF Init, ArrayInv
<1>3. pc \in [Calls -> {"start", "root", "args", "done"}] /\ shared \in [Calls -> BOOLEAN]
      /\ DOMAIN length = Calls /\ DOMAIN own = Calls /\ DOMAIN cmd = Calls
  BY DEF Init
<1>4. ASSUME NEW c \in Calls  PROVE CallInv(c)
  BY DEF Init, CallInv
<1> QED  BY <1>2, <1>3, <1>4 DEF RunscInv

\* A call that is not taking the step keeps what it has; the array may get
\* another root only.
LEMMA OthersKeep ==
  ASSUME RunscInv, NEW c \in Calls, NEW e \in Calls, e # c,
         pc'[e] = pc[e], shared'[e] = shared[e], length'[e] = length[e],
         own'[e] = own[e], cmd'[e] = cmd[e],
         \/ array' = array
         \/ Len(filtered) < capacity /\ array'[Len(filtered) + 1] = root(c)
  PROVE  CallInv(e)'
<1>1. CallInv(e)  BY DEF RunscInv
<1> QED  BY <1>1 DEF CallInv

\* `append(base, "--root", root)` by one call keeps RunscInv: on a shared array it can change the
\* root of another call and nothing else of it.
LEMMA AppendRootKeeps ==
  ASSUME RunscInv, NEW c \in Calls, appendRoot(c)
  PROVE  RunscInv'
<1>i. CallInv(c) /\ ArrayInv
  BY DEF RunscInv
<1>l. length[c] = Len(filtered) /\ shared[c] = TRUE
  BY <1>i DEF CallInv, appendRoot
<1> DEFINE k == Len(filtered)
<1>k. k \in Nat /\ capacity \in Nat /\ k <= capacity
  BY FilterLength
<1>n. Len(<<root(c)>>) = 1  OBVIOUS
<1>p. pc' = [pc EXCEPT ![c] = "root"] /\ cmd' = cmd
      /\ length' = [length EXCEPT ![c] = k + 1]
  BY <1>l, <1>n DEF appendRoot, append
<1>t. pc' \in [Calls -> {"start", "root", "args", "done"}] /\ DOMAIN length' = Calls
      /\ DOMAIN cmd' = Calls
  BY <1>p DEF RunscInv
<1>c. pc'[c] = "root" /\ length'[c] = k + 1
  BY <1>p DEF RunscInv
<1>1. CASE k + 1 <= capacity
  <2>1. array' = [i \in 1 .. capacity |->
                    IF i \in k + 1 .. k + 1 THEN <<root(c)>>[i - k] ELSE array[i]]
        /\ shared' = shared /\ own' = own
    BY <1>1, <1>l, <1>n, <1>k DEF appendRoot, append
  <2>2. \A i \in 1 .. capacity : array'[i] = IF i = k + 1 THEN root(c) ELSE array[i]
    BY <2>1, <1>k
  <2>3. ArrayInv'
    BY <2>1, <2>2, <1>i, <1>k DEF ArrayInv
  <2>4. array'[k + 1] = root(c) /\ k < capacity
    BY <2>2, <1>1, <1>k
  <2>5. ASSUME NEW e \in Calls  PROVE CallInv(e)'
    <3>1. CASE e # c
      BY <3>1, <2>1, <2>4, <1>p, OthersKeep DEF RunscInv
    <3>2. CASE e = c
      BY <3>2, <2>1, <2>4, <1>c, <1>l DEF CallInv
    <3> QED  BY <3>1, <3>2
  <2> QED  BY <1>t, <2>1, <2>3, <2>5 DEF RunscInv
<1>2. CASE ~(k + 1 <= capacity)
  <2>1. own' = [own EXCEPT ![c] = elements(c) \o <<root(c)>>]
        /\ shared' = [shared EXCEPT ![c] = FALSE] /\ array' = array
    BY <1>2, <1>l, <1>n, <1>k DEF appendRoot, append
  <2>2. elements(c) = [i \in 1 .. k |-> flag(filtered[i])]
    BY <1>l, <1>i DEF elements, ArrayInv
  <2>3. [i \in 1 .. k |-> flag(filtered[i])] \o <<root(c)>> = prefix(c)
    BY FlagsAndRoot
  <2>4. own'[c] = prefix(c) /\ shared'[c] = FALSE /\ c \in possible(c)
    BY <2>1, <2>2, <2>3 DEF RunscInv, possible
  <2>5. ArrayInv'
    BY <2>1, <1>i DEF ArrayInv
  <2>6. shared' \in [Calls -> BOOLEAN] /\ DOMAIN own' = Calls
    BY <2>1 DEF RunscInv
  <2>7. ASSUME NEW e \in Calls  PROVE CallInv(e)'
    <3>1. CASE e # c
      BY <3>1, <2>1, <1>p, OthersKeep DEF RunscInv
    <3>2. CASE e = c
      <4>1. \E d \in possible(c) : own'[c] = prefix(d)  BY <2>4
      <4> QED  BY <3>2, <2>4, <1>c, <4>1 DEF CallInv
    <3> QED  BY <3>1, <3>2
  <2> QED  BY <1>t, <2>5, <2>6, <2>7 DEF RunscInv
<1> QED  BY <1>1, <1>2

\* The arguments never fit behind the root.
LEMMA AppendArgsKeeps ==
  ASSUME FewDropped, RunscInv, NEW c \in Calls, appendArgs(c)
  PROVE  RunscInv'
<1>i. CallInv(c) /\ ArrayInv
  BY DEF RunscInv
<1> DEFINE k == Len(filtered)
<1>k. k \in Nat /\ capacity \in Nat /\ k <= capacity /\ capacity < k + 3
  BY FilterLength DEF FewDropped
<1>l. length[c] = k + 1
  BY <1>i DEF CallInv, appendArgs
<1>n. Len(args(c)) = 2  BY DEF args
<1>p. pc' = [pc EXCEPT ![c] = "args"] /\ cmd' = cmd /\ DOMAIN length' = Calls
      /\ \A e \in Calls : e # c => length'[e] = length[e]
  BY DEF appendArgs, append, RunscInv
<1>t. pc' \in [Calls -> {"start", "root", "args", "done"}] /\ DOMAIN cmd' = Calls
  BY <1>p DEF RunscInv
<1>1. length[c] + Len(args(c)) > capacity
  BY <1>k, <1>l, <1>n
<1>2. own' = [own EXCEPT ![c] = elements(c) \o args(c)]
      /\ shared' = [shared EXCEPT ![c] = FALSE] /\ array' = array
  BY <1>1, <1>l, <1>n, <1>k DEF appendArgs, append
<1>3. \E d \in possible(c) : elements(c) = prefix(d)
  <2>1. CASE shared[c] = TRUE
    <3>1. PICK d \in Calls : array[k + 1] = root(d)
      BY <2>1, <1>i DEF CallInv, appendArgs
    <3>2. d \in possible(c)
      BY <2>1, <1>i, <1>k DEF CallInv, appendArgs, possible
    <3>3. elements(c) = [i \in 1 .. k + 1 |-> array[i]]
      BY <2>1, <1>l DEF elements
    <3>4. \A i \in 1 .. k + 1 : array[i] = IF i <= k THEN flag(filtered[i]) ELSE root(d)
      BY <3>1, <1>i, <1>k DEF ArrayInv
    <3> QED  BY <3>2, <3>3, <3>4 DEF prefix
  <2>2. CASE shared[c] = FALSE
    BY <2>2, <1>i DEF CallInv, appendArgs, elements
  <2> QED  BY <2>1, <2>2 DEF RunscInv
<1>4. \E d \in possible(c) : own'[c] = prefix(d) \o args(c)
  BY <1>2, <1>3 DEF RunscInv
<1>5. pc'[c] = "args" /\ shared'[c] = FALSE
  BY <1>p, <1>2 DEF RunscInv
<1>6. ArrayInv'
  BY <1>2, <1>i DEF ArrayInv
<1>7. shared' \in [Calls -> BOOLEAN] /\ DOMAIN own' = Calls
  BY <1>2 DEF RunscInv
<1>8. ASSUME NEW e \in Calls  PROVE CallInv(e)'
  <2>1. CASE e # c
    BY <2>1, <1>2, <1>p, OthersKeep DEF RunscInv
  <2>2. CASE e = c
    BY <2>2, <1>4, <1>5 DEF CallInv
  <2> QED  BY <2>1, <2>2
<1> QED  BY <1>t, <1>p, <1>6, <1>7, <1>8 DEF RunscInv

\* Running the command keeps RunscInv.
LEMMA ExecuteKeeps ==
  ASSUME RunscInv, NEW c \in Calls, execute(c)
  PROVE  RunscInv'
<1>i. CallInv(c) /\ ArrayInv
  BY DEF RunscInv
<1>p. pc' = [pc EXCEPT ![c] = "done"] /\ cmd' = [cmd EXCEPT ![c] = elements(c)]
      /\ array' = array /\ shared' = shared /\ length' = length /\ own' = own
  BY DEF execute
<1>1. \E d \in possible(c) : elements(c) = prefix(d) \o args(c)
  BY <1>i DEF CallInv, execute, elements
<1>2. pc'[c] = "done" /\ cmd'[c] = elements(c)
  BY <1>p DEF RunscInv
<1>3. ASSUME NEW e \in Calls  PROVE CallInv(e)'
  <2>1. CASE e # c
    BY <2>1, <1>p, OthersKeep DEF RunscInv
  <2>2. CASE e = c
    BY <2>2, <1>1, <1>2 DEF CallInv
  <2> QED  BY <2>1, <2>2
<1>4. ArrayInv'
  BY <1>p, <1>i DEF ArrayInv
<1> QED  BY <1>p, <1>3, <1>4 DEF RunscInv

\* The inductive invariant of run, whatever calls there are and in whatever
\* order their appends and starts fall.
THEOREM RunscInvariant ==
  ASSUME FewDropped
  PROVE  Spec => []RunscInv
<1>1. Init => RunscInv  BY InitEstablishes
<1>2. RunscInv /\ [Next]_vars => RunscInv'
  <2> SUFFICES ASSUME RunscInv, [Next]_vars PROVE RunscInv'
    OBVIOUS
  <2>1. ASSUME NEW c \in Calls, appendRoot(c)  PROVE RunscInv'
    BY <2>1, AppendRootKeeps
  <2>2. ASSUME NEW c \in Calls, appendArgs(c)  PROVE RunscInv'
    BY <2>2, AppendArgsKeeps
  <2>3. ASSUME NEW c \in Calls, execute(c)  PROVE RunscInv'
    BY <2>3, ExecuteKeeps
  <2>4. CASE UNCHANGED vars
    BY <2>4 DEF vars, RunscInv, ArrayInv, CallInv
  <2> QED  BY <2>1, <2>2, <2>3, <2>4 DEF Next
<1> QED  BY <1>1, <1>2, PTL DEF Spec

-----------------------------------------------------------------------------
(* Theorems *)

\* With at most two --warm-sentry flags in the configuration, only the --root
\* of a command may be another call's: run appends verb and ID into an array
\* of its own (OwnTarget).
THEOREM Target ==
  ASSUME FewDropped
  PROVE  Spec => []OwnTarget
<1>1. RunscInv => OwnTarget
  <2> SUFFICES ASSUME RunscInv, NEW c \in Calls, pc[c] = "done"
               PROVE  \E d \in Calls : cmd[c] = [intended(c) EXCEPT ![Len(filtered) + 1] = root(d)]
    BY DEF OwnTarget
  <2>1. PICK d \in possible(c) : cmd[c] = prefix(d) \o args(c)
    BY DEF RunscInv, CallInv
  <2>2. d \in Calls  BY DEF possible
  <2> QED  BY <2>1, <2>2, PrefixCommand
<1> QED  BY <1>1, RunscInvariant, PTL

\* Without that flag in the configuration no append fits the capacity, and
\* every call runs exactly the command it was asked to run (OwnCommand, which
\* the configuration with the flag violates).
THEOREM Command ==
  ASSUME \A i \in DOMAIN ExtraFlags : ExtraFlags[i] # WarmFlag
  PROVE  Spec => []OwnCommand
<1>0. Len(filtered) = capacity
  BY FilterLength
<1>1. FewDropped
  BY <1>0, FilterLength DEF FewDropped
<1>2. RunscInv => OwnCommand
  <2> SUFFICES ASSUME RunscInv, NEW c \in Calls, pc[c] = "done"
               PROVE  cmd[c] = intended(c)
    BY DEF OwnCommand
  <2>1. PICK d \in possible(c) : cmd[c] = prefix(d) \o args(c)
    BY DEF RunscInv, CallInv
  <2>2. d = c  BY <1>0 DEF possible
  <2> QED  BY <1>1, <2>1, <2>2, PrefixCommand
<1> QED  BY <1>1, <1>2, RunscInvariant, PTL

=============================================================================
