----------------------------- MODULE PoolProofs -----------------------------
(***************************************************************************)
(* Theorems about Pool, for any number of requests, any pool_size,         *)
(* max_pending and limits, and any number of spawns.                       *)
(*                                                                         *)
(* PoolInv is inductive; one lemma per action shows that the action keeps  *)
(* it, with one step per conjunct.                                         *)
(***************************************************************************)
EXTENDS Pool, TLAPS, FiniteSetTheorems

USE PoolAssumption
USE DEF requestVars, sentryVars, recycleVars, reaperVars, stopVars

-----------------------------------------------------------------------------
(* Facts about the state *)

\* p.sentries is finite, so that len(p.sentries) is a number.
LEMMA SentriesFinite == ASSUME PoolTypeOK PROVE IsFiniteSet(sentries)
<1>1. IsFiniteSet(SentryIds)
  BY FS_Interval DEF SentryIds
<1> QED  BY <1>1, FS_Subset DEF PoolTypeOK

\* The pool Start leaves behind satisfies the invariant.
LEMMA InitInv == PoolInit => PoolInv
<1> SUFFICES ASSUME PoolInit PROVE PoolInv
  OBVIOUS
<1>1. sentries \subseteq SentryIds
  BY DEF PoolInit, SentryIds
<1>2. PoolTypeOK
  BY <1>1 DEF PoolInit, PoolTypeOK, Box, State, spawnedBox
<1>3. ControlInv /\ ListInv /\ ClosedIsEmpty
  BY <1>1 DEF PoolInit, ControlInv, ListInv, ClosedIsEmpty, Owns, closed, spawnedBox
<1>4. StateInv /\ ExclusiveSentry /\ FreshInv /\ NoOrphan
  BY <1>1 DEF PoolInit, StateInv, ExclusiveSentry, Owns, FreshInv, NoOrphan, claimed, handOut,
              readySentries, spawnedBox
<1> QED  BY <1>2, <1>3, <1>4 DEF PoolInv

-----------------------------------------------------------------------------
(* Every action keeps the invariant *)

\* An acquire takes a ready sentry, which nobody owns, or only moves the
\* caller (acquire, findReadyLocked).
LEMMA AcquireInv ==
  ASSUME PoolInv, NEW r \in Requests, acquire(r)
  PROVE  PoolInv'
<1>1. PoolTypeOK'
    BY DEF PoolInv, PoolTypeOK, Box, State, readySentries, acquire,
         findReadyLocked, goto
<1>2. ControlInv'
    BY SMTT(30) DEF PoolInv, PoolTypeOK, ControlInv, SentryIds, None, readySentries,
         ListInv, acquire, findReadyLocked, goto
<1>3. StateInv'
    BY DEF PoolInv, PoolTypeOK, ControlInv, StateInv, ExclusiveSentry, Owns,
         readySentries, acquire, findReadyLocked, goto
<1>4. ListInv'
    BY DEF PoolInv, PoolTypeOK, ControlInv, ListInv, ClosedIsEmpty, closed,
         readySentries, ExclusiveSentry, Owns, acquire, findReadyLocked, goto
<1>5. ExclusiveSentry'
    BY DEF PoolInv, PoolTypeOK, ControlInv, ListInv, ExclusiveSentry, Owns,
         readySentries, acquire, findReadyLocked, goto
<1>6. FreshInv'
    BY DEF PoolInv, PoolTypeOK, ControlInv, ListInv, ExclusiveSentry, Owns,
         FreshInv, ClosedIsEmpty, handOut, closed, readySentries, acquire,
         findReadyLocked, goto
<1>7. ClosedIsEmpty'
    BY DEF PoolInv, PoolTypeOK, ClosedIsEmpty, closed, readySentries, acquire,
         findReadyLocked, goto
<1>8. NoOrphan'
    BY DEF PoolInv, PoolTypeOK, ControlInv, ListInv, NoOrphan, claimed,
         closed, acquire, findReadyLocked, goto
<1> QED  BY <1>1, <1>2, <1>3, <1>4, <1>5, <1>6, <1>7, <1>8 DEF PoolInv

\* The sentry of an on-demand spawn is new, so nobody else can hold it.
LEMMA AcquireSpawnedInv ==
  ASSUME PoolInv, NEW r \in Requests, acquireSpawned(r)
  PROVE  PoolInv'
<1>1. PoolTypeOK'
    BY DEF PoolInv, PoolTypeOK, Box, State, acquireSpawned, goto, cleanup,
         nextID, spawnedBox
<1>2. ControlInv'
    BY DEF PoolInv, PoolTypeOK, ControlInv, SentryIds, None, acquireSpawned,
         goto, cleanup, nextID, spawnedBox
<1>3. StateInv'
    BY DEF PoolInv, PoolTypeOK, ControlInv, StateInv, ExclusiveSentry, Owns,
         readySentries, acquireSpawned, goto, cleanup, nextID, spawnedBox
<1>4. ListInv'
    BY DEF PoolInv, PoolTypeOK, ControlInv, ListInv, ClosedIsEmpty, closed,
         readySentries, ExclusiveSentry, Owns, acquireSpawned, goto, cleanup,
         nextID, spawnedBox
<1>5. ExclusiveSentry'
    BY DEF PoolInv, PoolTypeOK, ControlInv, ListInv, ExclusiveSentry, Owns,
         readySentries, acquireSpawned, goto, cleanup, nextID, spawnedBox
<1>6. FreshInv'
    BY DEF PoolInv, PoolTypeOK, ControlInv, ListInv, ExclusiveSentry, Owns,
         FreshInv, ClosedIsEmpty, handOut, closed, readySentries,
         acquireSpawned, goto, cleanup, nextID, spawnedBox
<1>7. ClosedIsEmpty'
    BY DEF PoolInv, PoolTypeOK, ClosedIsEmpty, closed, readySentries,
         acquireSpawned, goto, cleanup, nextID, spawnedBox
<1>8. NoOrphan'
    BY DEF PoolInv, PoolTypeOK, ControlInv, ListInv, NoOrphan, claimed,
         closed, acquireSpawned, goto, cleanup, nextID, spawnedBox
<1> QED  BY <1>1, <1>2, <1>3, <1>4, <1>5, <1>6, <1>7, <1>8 DEF PoolInv

\* A woken waiter takes a ready sentry like a newcomer, or waits again.
LEMMA AcquireWokenInv ==
  ASSUME PoolInv, NEW r \in Requests, acquireWoken(r)
  PROVE  PoolInv'
<1>1. PoolTypeOK'
    BY DEF PoolInv, PoolTypeOK, Box, State, readySentries, acquireWoken,
         findReadyLocked, goto
<1>2. ControlInv'
    BY DEF PoolInv, PoolTypeOK, ControlInv, SentryIds, None, readySentries,
         ListInv, acquireWoken, findReadyLocked, goto
<1>3. StateInv'
    BY DEF PoolInv, PoolTypeOK, ControlInv, StateInv, ExclusiveSentry, Owns,
         readySentries, acquireWoken, findReadyLocked, goto
<1>4. ListInv'
    BY DEF PoolInv, PoolTypeOK, ControlInv, ListInv, ClosedIsEmpty, closed,
         readySentries, ExclusiveSentry, Owns, acquireWoken, findReadyLocked,
         goto
<1>5. ExclusiveSentry'
    BY DEF PoolInv, PoolTypeOK, ControlInv, ListInv, ExclusiveSentry, Owns,
         readySentries, acquireWoken, findReadyLocked, goto
<1>6. FreshInv'
    BY DEF PoolInv, PoolTypeOK, ControlInv, ListInv, ExclusiveSentry, Owns,
         FreshInv, ClosedIsEmpty, handOut, closed, readySentries,
         acquireWoken, findReadyLocked, goto
<1>7. ClosedIsEmpty'
    BY DEF PoolInv, PoolTypeOK, ClosedIsEmpty, closed, readySentries,
         acquireWoken, findReadyLocked, goto
<1>8. NoOrphan'
    BY DEF PoolInv, PoolTypeOK, ControlInv, ListInv, NoOrphan, claimed,
         closed, acquireWoken, findReadyLocked, goto
<1> QED  BY <1>1, <1>2, <1>3, <1>4, <1>5, <1>6, <1>7, <1>8 DEF PoolInv

\* Execute restores into the sandbox its caller owns, or releases an unused
\* one.
LEMMA ExecuteInv ==
  ASSUME PoolInv, NEW r \in Requests, Execute(r)
  PROVE  PoolInv'
<1>1. PoolTypeOK'
    BY DEF PoolInv, PoolTypeOK, Box, State, Execute, releaseState, goto,
         maySucceed, mayFail, rejects
<1>2. ControlInv'
    BY DEF PoolInv, PoolTypeOK, ControlInv, SentryIds, None, Execute,
         releaseState, goto, maySucceed, mayFail, rejects
<1>3. StateInv'
    BY DEF PoolInv, PoolTypeOK, ControlInv, StateInv, ExclusiveSentry, Owns,
         readySentries, Execute, releaseState, goto, maySucceed, mayFail,
         rejects
<1>4. ListInv'
    BY DEF PoolInv, PoolTypeOK, ControlInv, ListInv, ClosedIsEmpty, closed,
         readySentries, ExclusiveSentry, Owns, Execute, releaseState, goto,
         maySucceed, mayFail, rejects
<1>5. ExclusiveSentry'
    BY DEF PoolInv, PoolTypeOK, ControlInv, ListInv, ExclusiveSentry, Owns,
         readySentries, Execute, releaseState, goto, maySucceed, mayFail,
         rejects
<1>6. FreshInv'
    BY DEF PoolInv, PoolTypeOK, ControlInv, ListInv, ExclusiveSentry, Owns,
         FreshInv, ClosedIsEmpty, handOut, closed, readySentries, Execute,
         releaseState, goto, maySucceed, mayFail, rejects
<1>7. ClosedIsEmpty'
    BY DEF PoolInv, PoolTypeOK, ClosedIsEmpty, closed, readySentries, Execute,
         releaseState, goto, maySucceed, mayFail, rejects
<1>8. NoOrphan'
    BY DEF PoolInv, PoolTypeOK, ControlInv, ListInv, NoOrphan, claimed,
         closed, Execute, releaseState, goto, maySucceed, mayFail, rejects
<1> QED  BY <1>1, <1>2, <1>3, <1>4, <1>5, <1>6, <1>7, <1>8 DEF PoolInv

\* The signal of release only moves waiters.
LEMMA ReleaseSignalInv ==
  ASSUME PoolInv, NEW r \in Requests, releaseSignal(r)
  PROVE  PoolInv'
<1>1. PoolTypeOK'
    BY DEF PoolInv, PoolTypeOK, Box, State, releaseSignal, Signal
<1>2. ControlInv'
    BY DEF PoolInv, PoolTypeOK, ControlInv, SentryIds, None, releaseSignal,
         Signal
<1>3. StateInv'
    BY DEF PoolInv, PoolTypeOK, ControlInv, StateInv, ExclusiveSentry, Owns,
         readySentries, releaseSignal, Signal
<1>4. ListInv'
    BY DEF PoolInv, PoolTypeOK, ControlInv, ListInv, ClosedIsEmpty, closed,
         readySentries, ExclusiveSentry, Owns, releaseSignal, Signal
<1>5. ExclusiveSentry'
    BY DEF PoolInv, PoolTypeOK, ControlInv, ListInv, ExclusiveSentry, Owns,
         readySentries, releaseSignal, Signal
<1>6. FreshInv'
    BY DEF PoolInv, PoolTypeOK, ControlInv, ListInv, ExclusiveSentry, Owns,
         FreshInv, ClosedIsEmpty, handOut, closed, readySentries,
         releaseSignal, Signal
<1>7. ClosedIsEmpty'
    BY DEF PoolInv, PoolTypeOK, ClosedIsEmpty, closed, readySentries,
         releaseSignal, Signal
<1>8. NoOrphan'
    BY DEF PoolInv, PoolTypeOK, ControlInv, ListInv, NoOrphan, claimed,
         closed, releaseSignal, Signal
<1> QED  BY <1>1, <1>2, <1>3, <1>4, <1>5, <1>6, <1>7, <1>8 DEF PoolInv

\* The hand-over marks a sandbox its caller owns.
LEMMA RegisterLeaseInv ==
  ASSUME PoolInv, NEW r \in Requests, registerLease(r)
  PROVE  PoolInv'
<1>1. PoolTypeOK'
    BY DEF PoolInv, PoolTypeOK, Box, State, registerLease, goto
<1>2. ControlInv'
    BY DEF PoolInv, PoolTypeOK, ControlInv, SentryIds, None, registerLease,
         goto
<1>3. StateInv'
    BY DEF PoolInv, PoolTypeOK, ControlInv, StateInv, ExclusiveSentry, Owns,
         readySentries, registerLease, goto
<1>4. ListInv'
    BY DEF PoolInv, PoolTypeOK, ControlInv, ListInv, ClosedIsEmpty, closed,
         readySentries, ExclusiveSentry, Owns, registerLease, goto
<1>5. ExclusiveSentry'
    BY DEF PoolInv, PoolTypeOK, ControlInv, ListInv, ExclusiveSentry, Owns,
         readySentries, registerLease, goto
<1>6. FreshInv'
    BY DEF PoolInv, PoolTypeOK, ControlInv, ListInv, ExclusiveSentry, Owns,
         FreshInv, ClosedIsEmpty, handOut, closed, readySentries,
         registerLease, goto
<1>7. ClosedIsEmpty'
    BY DEF PoolInv, PoolTypeOK, ClosedIsEmpty, closed, readySentries,
         registerLease, goto
<1>8. NoOrphan'
    BY DEF PoolInv, PoolTypeOK, ControlInv, ListInv, NoOrphan, claimed,
         closed, registerLease, goto
<1> QED  BY <1>1, <1>2, <1>3, <1>4, <1>5, <1>6, <1>7, <1>8 DEF PoolInv

\* Complete only starts the recycle.
LEMMA RecycleAddInv ==
  ASSUME PoolInv, NEW r \in Requests, recycleAdd(r)
  PROVE  PoolInv'
<1>1. PoolTypeOK'
    BY DEF PoolInv, PoolTypeOK, Box, State, recycleAdd, rgoto
<1>2. ControlInv'
    BY DEF PoolInv, PoolTypeOK, ControlInv, SentryIds, None, recycleAdd, rgoto
<1>3. StateInv'
    BY DEF PoolInv, PoolTypeOK, ControlInv, StateInv, ExclusiveSentry, Owns,
         readySentries, recycleAdd, rgoto
<1>4. ListInv'
    BY DEF PoolInv, PoolTypeOK, ControlInv, ListInv, ClosedIsEmpty, closed,
         readySentries, ExclusiveSentry, Owns, recycleAdd, rgoto
<1>5. ExclusiveSentry'
    BY DEF PoolInv, PoolTypeOK, ControlInv, ListInv, ExclusiveSentry, Owns,
         readySentries, recycleAdd, rgoto
<1>6. FreshInv'
    BY DEF PoolInv, PoolTypeOK, ControlInv, ListInv, ExclusiveSentry, Owns,
         FreshInv, ClosedIsEmpty, handOut, closed, readySentries, recycleAdd,
         rgoto
<1>7. ClosedIsEmpty'
    BY DEF PoolInv, PoolTypeOK, ClosedIsEmpty, closed, readySentries,
         recycleAdd, rgoto
<1>8. NoOrphan'
    BY DEF PoolInv, PoolTypeOK, ControlInv, ListInv, NoOrphan, claimed,
         closed, recycleAdd, rgoto
<1> QED  BY <1>1, <1>2, <1>3, <1>4, <1>5, <1>6, <1>7, <1>8 DEF PoolInv

\* Draining takes nothing from the owner.
LEMMA RecycleStartInv ==
  ASSUME PoolInv, NEW r \in Requests, recycleStart(r)
  PROVE  PoolInv'
<1>1. PoolTypeOK'
    BY DEF PoolInv, PoolTypeOK, Box, State, recycleStart, rgoto
<1>2. ControlInv'
    BY DEF PoolInv, PoolTypeOK, ControlInv, SentryIds, None, recycleStart,
         rgoto
<1>3. StateInv'
    BY DEF PoolInv, PoolTypeOK, ControlInv, StateInv, ExclusiveSentry, Owns,
         readySentries, recycleStart, rgoto
<1>4. ListInv'
    BY DEF PoolInv, PoolTypeOK, ControlInv, ListInv, ClosedIsEmpty, closed,
         readySentries, ExclusiveSentry, Owns, recycleStart, rgoto
<1>5. ExclusiveSentry'
    BY DEF PoolInv, PoolTypeOK, ControlInv, ListInv, ExclusiveSentry, Owns,
         readySentries, recycleStart, rgoto
<1>6. FreshInv'
    BY DEF PoolInv, PoolTypeOK, ControlInv, ListInv, ExclusiveSentry, Owns,
         FreshInv, ClosedIsEmpty, handOut, closed, readySentries,
         recycleStart, rgoto
<1>7. ClosedIsEmpty'
    BY DEF PoolInv, PoolTypeOK, ClosedIsEmpty, closed, readySentries,
         recycleStart, rgoto
<1>8. NoOrphan'
    BY DEF PoolInv, PoolTypeOK, ControlInv, ListInv, NoOrphan, claimed,
         closed, recycleStart, rgoto
<1> QED  BY <1>1, <1>2, <1>3, <1>4, <1>5, <1>6, <1>7, <1>8 DEF PoolInv

\* Reset and HealthCheck touch the recycled sandbox only.
LEMMA RecycleResetInv ==
  ASSUME PoolInv, NEW r \in Requests, recycleReset(r)
  PROVE  PoolInv'
<1>1. PoolTypeOK'
    BY DEF PoolInv, PoolTypeOK, Box, State, healthy, ControlInv, recycleReset,
         rgoto, maySucceed, mayFail
<1>2. ControlInv'
    BY DEF PoolInv, PoolTypeOK, ControlInv, SentryIds, None, recycleReset,
         rgoto, maySucceed, mayFail
<1>3. StateInv'
    BY DEF PoolInv, PoolTypeOK, ControlInv, StateInv, ExclusiveSentry, Owns,
         readySentries, recycleReset, rgoto, maySucceed, mayFail
<1>4. ListInv'
    BY DEF PoolInv, PoolTypeOK, ControlInv, ListInv, ClosedIsEmpty, closed,
         readySentries, ExclusiveSentry, Owns, recycleReset, rgoto,
         maySucceed, mayFail
<1>5. ExclusiveSentry'
    BY DEF PoolInv, PoolTypeOK, ControlInv, ListInv, ExclusiveSentry, Owns,
         readySentries, recycleReset, rgoto, maySucceed, mayFail
<1>6. FreshInv'
    BY DEF PoolInv, PoolTypeOK, ControlInv, ListInv, ExclusiveSentry, Owns,
         FreshInv, ClosedIsEmpty, handOut, closed, readySentries,
         recycleReset, rgoto, maySucceed, mayFail
<1>7. ClosedIsEmpty'
    BY DEF PoolInv, PoolTypeOK, ClosedIsEmpty, closed, readySentries,
         recycleReset, rgoto, maySucceed, mayFail
<1>8. NoOrphan'
    BY DEF PoolInv, PoolTypeOK, ControlInv, ListInv, NoOrphan, claimed,
         closed, recycleReset, rgoto, maySucceed, mayFail
<1> QED  BY <1>1, <1>2, <1>3, <1>4, <1>5, <1>6, <1>7, <1>8 DEF PoolInv

\* A recycled sentry turns ready with a restored checkpoint, and its recycle
\* lets go of it in the same step.
LEMMA RecycleRestoreInv ==
  ASSUME PoolInv, NEW r \in Requests, recycleRestore(r)
  PROVE  PoolInv'
<1>1. PoolTypeOK'
    BY DEF PoolInv, PoolTypeOK, Box, State, recycleRestore, rgoto, maySucceed,
         mayFail
<1>2. ControlInv'
    BY DEF PoolInv, PoolTypeOK, ControlInv, SentryIds, None, recycleRestore,
         rgoto, maySucceed, mayFail
<1>3. StateInv'
    BY DEF PoolInv, PoolTypeOK, ControlInv, StateInv, ExclusiveSentry, Owns,
         readySentries, recycleRestore, rgoto, maySucceed, mayFail
<1>4. ListInv'
    BY DEF PoolInv, PoolTypeOK, ControlInv, ListInv, ClosedIsEmpty, closed,
         readySentries, ExclusiveSentry, Owns, recycleRestore, rgoto,
         maySucceed, mayFail
<1>5. ExclusiveSentry'
    BY DEF PoolInv, PoolTypeOK, ControlInv, ListInv, ExclusiveSentry, Owns,
         readySentries, recycleRestore, rgoto, maySucceed, mayFail
<1>6. FreshInv'
    BY DEF PoolInv, PoolTypeOK, ControlInv, ListInv, ExclusiveSentry, Owns,
         FreshInv, ClosedIsEmpty, handOut, closed, readySentries,
         recycleRestore, rgoto, maySucceed, mayFail
<1>7. ClosedIsEmpty'
    BY DEF PoolInv, PoolTypeOK, ClosedIsEmpty, closed, readySentries,
         recycleRestore, rgoto, maySucceed, mayFail
<1>8. NoOrphan'
    BY DEF PoolInv, PoolTypeOK, ControlInv, ListInv, NoOrphan, claimed,
         closed, recycleRestore, rgoto, maySucceed, mayFail
<1> QED  BY <1>1, <1>2, <1>3, <1>4, <1>5, <1>6, <1>7, <1>8 DEF PoolInv

\* The signal of recycle only moves waiters and ends the recycle.
LEMMA RecycleSignalInv ==
  ASSUME PoolInv, NEW r \in Requests, recycleSignal(r)
  PROVE  PoolInv'
<1>1. PoolTypeOK'
    BY DEF PoolInv, PoolTypeOK, Box, State, recycleSignal, recycleDone, Signal
<1>2. ControlInv'
    BY DEF PoolInv, PoolTypeOK, ControlInv, SentryIds, None, recycleSignal,
         recycleDone, Signal
<1>3. StateInv'
    BY DEF PoolInv, PoolTypeOK, ControlInv, StateInv, ExclusiveSentry, Owns,
         readySentries, recycleSignal, recycleDone, Signal
<1>4. ListInv'
    BY DEF PoolInv, PoolTypeOK, ControlInv, ListInv, ClosedIsEmpty, closed,
         readySentries, ExclusiveSentry, Owns, recycleSignal, recycleDone,
         Signal
<1>5. ExclusiveSentry'
    BY DEF PoolInv, PoolTypeOK, ControlInv, ListInv, ExclusiveSentry, Owns,
         readySentries, recycleSignal, recycleDone, Signal
<1>6. FreshInv'
    BY DEF PoolInv, PoolTypeOK, ControlInv, ListInv, ExclusiveSentry, Owns,
         FreshInv, ClosedIsEmpty, handOut, closed, readySentries,
         recycleSignal, recycleDone, Signal
<1>7. ClosedIsEmpty'
    BY DEF PoolInv, PoolTypeOK, ClosedIsEmpty, closed, readySentries,
         recycleSignal, recycleDone, Signal
<1>8. NoOrphan'
    BY DEF PoolInv, PoolTypeOK, ControlInv, ListInv, NoOrphan, claimed,
         closed, recycleSignal, recycleDone, Signal
<1> QED  BY <1>1, <1>2, <1>3, <1>4, <1>5, <1>6, <1>7, <1>8 DEF PoolInv

\* remove takes the sentry out of the pool; its recycle still has it.
LEMMA RecycleRemoveInv ==
  ASSUME PoolInv, NEW r \in Requests, recycleRemove(r)
  PROVE  PoolInv'
<1>1. PoolTypeOK'
    BY DEF PoolInv, PoolTypeOK, Box, State, recycleRemove, rgoto
<1>2. ControlInv'
    BY DEF PoolInv, PoolTypeOK, ControlInv, SentryIds, None, recycleRemove,
         rgoto
<1>3. StateInv'
    BY DEF PoolInv, PoolTypeOK, ControlInv, StateInv, ExclusiveSentry, Owns,
         readySentries, recycleRemove, rgoto
<1>4. ListInv'
    BY DEF PoolInv, PoolTypeOK, ControlInv, ListInv, ClosedIsEmpty, closed,
         readySentries, ExclusiveSentry, Owns, recycleRemove, rgoto
<1>5. ExclusiveSentry'
    BY DEF PoolInv, PoolTypeOK, ControlInv, ListInv, ExclusiveSentry, Owns,
         readySentries, recycleRemove, rgoto
<1>6. FreshInv'
    BY DEF PoolInv, PoolTypeOK, ControlInv, ListInv, ExclusiveSentry, Owns,
         FreshInv, ClosedIsEmpty, handOut, closed, readySentries,
         recycleRemove, rgoto
<1>7. ClosedIsEmpty'
    BY DEF PoolInv, PoolTypeOK, ClosedIsEmpty, closed, readySentries,
         recycleRemove, rgoto
<1>8. NoOrphan'
    BY DEF PoolInv, PoolTypeOK, ControlInv, ListInv, NoOrphan, claimed,
         closed, recycleRemove, rgoto
<1> QED  BY <1>1, <1>2, <1>3, <1>4, <1>5, <1>6, <1>7, <1>8 DEF PoolInv

\* cleanup deletes a sandbox that is out of the pool.
LEMMA RecycleReplaceInv ==
  ASSUME PoolInv, NEW r \in Requests, recycleReplace(r)
  PROVE  PoolInv'
<1>1. PoolTypeOK'
  <2>1. Cardinality(sentries) \in Nat
    BY SentriesFinite, FS_CardinalityType DEF PoolInv
  <2>2. needed' \in [Requests -> Nat]
    BY <2>1 DEF PoolInv, PoolTypeOK, recycleReplace
  <2>3. /\ rpc' \in [Requests -> {"none", "start", "draining", "restore", "signal",
                              "remove", "replace", "refill", "done"}]
        /\ sd' \in {"none", "wait", "blocked", "woken", "sweep", "clean", "done", "panic"}
        /\ box' \in [SentryIds -> Box]
    BY DEF PoolInv, PoolTypeOK, Box, recycleReplace, recycleDone, rgoto, cleanup
  <2>4. UNCHANGED <<requestVars, sentries, sstate, restores, stale, reaperVars, doomed>>
    BY DEF recycleReplace
  <2> QED  BY <2>2, <2>3, <2>4 DEF PoolInv, PoolTypeOK
<1>2. ControlInv'
    BY DEF PoolInv, PoolTypeOK, ControlInv, SentryIds, None, recycleReplace,
         recycleDone, rgoto, cleanup
<1>3. StateInv'
    BY DEF PoolInv, PoolTypeOK, ControlInv, StateInv, ExclusiveSentry, Owns,
         readySentries, recycleReplace, recycleDone, rgoto, cleanup
<1>4. ListInv'
    BY DEF PoolInv, PoolTypeOK, ControlInv, ListInv, ClosedIsEmpty, closed,
         readySentries, ExclusiveSentry, Owns, recycleReplace, recycleDone,
         rgoto, cleanup
<1>5. ExclusiveSentry'
    BY DEF PoolInv, PoolTypeOK, ControlInv, ListInv, ExclusiveSentry, Owns,
         readySentries, recycleReplace, recycleDone, rgoto, cleanup
<1>6. FreshInv'
    BY DEF PoolInv, PoolTypeOK, ControlInv, ListInv, ExclusiveSentry, Owns,
         FreshInv, ClosedIsEmpty, handOut, closed, readySentries,
         recycleReplace, recycleDone, rgoto, cleanup
<1>7. ClosedIsEmpty'
    BY DEF PoolInv, PoolTypeOK, ClosedIsEmpty, closed, readySentries,
         recycleReplace, recycleDone, rgoto, cleanup
<1>8. NoOrphan'
    BY DEF PoolInv, PoolTypeOK, ControlInv, ListInv, NoOrphan, claimed,
         closed, recycleReplace, recycleDone, rgoto, cleanup
<1> QED  BY <1>1, <1>2, <1>3, <1>4, <1>5, <1>6, <1>7, <1>8 DEF PoolInv

\* A replacement is new; it joins an open pool or is deleted.
LEMMA RefillInv ==
  ASSUME PoolInv, NEW r \in Requests, refill(r)
  PROVE  PoolInv'
<1>1. PoolTypeOK'
    BY DEF PoolInv, PoolTypeOK, Box, State, ControlInv, refill, refillNext,
         recycleDone, rgoto, cleanup, nextID, spawnedBox, Signal
<1>2. ControlInv'
  <2>1. \A q \in Requests : pc'[q] \in {"acquired", "signal", "register", "leased"}
                             <=> pc[q] \in {"acquired", "signal", "register", "leased"}
    BY DEF PoolInv, PoolTypeOK, refill, Signal
  <2>2. \A q \in Requests : pc'[q] = "leased" <=> pc[q] = "leased"
    BY DEF PoolInv, PoolTypeOK, refill, Signal
  <2>3. \A q \in Requests : rpc'[q] = "refill" => needed'[q] > 0
    BY DEF PoolInv, PoolTypeOK, ControlInv, refill, refillNext, recycleDone, rgoto
  <2>4. \A q \in Requests : rpc'[q] # "none" => rpc[q] # "none"
    BY DEF PoolInv, PoolTypeOK, refill, refillNext, recycleDone, rgoto
  <2>5. held' = held /\ \A s \in SentryIds : box[s] # "none" => box'[s] # "none"
    BY DEF PoolInv, PoolTypeOK, refill, cleanup, spawnedBox
  <2> QED  BY <2>1, <2>2, <2>3, <2>4, <2>5 DEF PoolInv, PoolTypeOK, ControlInv
<1>3. StateInv'
    BY DEF PoolInv, PoolTypeOK, ControlInv, StateInv, ExclusiveSentry, Owns,
         readySentries, refill, refillNext, recycleDone, rgoto, cleanup,
         nextID, spawnedBox, Signal
<1>4. ListInv'
    BY DEF PoolInv, PoolTypeOK, ControlInv, ListInv, ClosedIsEmpty, closed,
         readySentries, ExclusiveSentry, Owns, refill, refillNext,
         recycleDone, rgoto, cleanup, nextID, spawnedBox, Signal
<1>5. ExclusiveSentry'
    BY DEF PoolInv, PoolTypeOK, ControlInv, ListInv, ExclusiveSentry, Owns,
         readySentries, refill, refillNext, recycleDone, rgoto, cleanup,
         nextID, spawnedBox, Signal
<1>6. FreshInv'
    BY DEF PoolInv, PoolTypeOK, ControlInv, ListInv, ExclusiveSentry, Owns,
         FreshInv, ClosedIsEmpty, handOut, closed, readySentries, refill,
         refillNext, recycleDone, rgoto, cleanup, nextID, spawnedBox, Signal
<1>7. ClosedIsEmpty'
    BY DEF PoolInv, PoolTypeOK, ClosedIsEmpty, closed, readySentries, refill,
         refillNext, recycleDone, rgoto, cleanup, nextID, spawnedBox, Signal
<1>8. NoOrphan'
    BY DEF PoolInv, PoolTypeOK, ControlInv, ListInv, NoOrphan, claimed,
         closed, refill, refillNext, recycleDone, rgoto, cleanup, nextID,
         spawnedBox, Signal
<1> QED  BY <1>1, <1>2, <1>3, <1>4, <1>5, <1>6, <1>7, <1>8 DEF PoolInv

\* The reaper takes only ready sentries, which nobody owns.
LEMMA ReaperTickInv ==
  ASSUME PoolInv, reaperTick
  PROVE  PoolInv'
<1>1. PoolTypeOK'
    BY DEF PoolInv, PoolTypeOK, Box, State, reaperTick
<1>2. ControlInv'
    BY DEF PoolInv, PoolTypeOK, ControlInv, SentryIds, None, reaperTick
<1>3. StateInv'
    BY DEF PoolInv, PoolTypeOK, ControlInv, StateInv, ExclusiveSentry, Owns,
         readySentries, reaperTick
<1>4. ListInv'
    BY DEF PoolInv, PoolTypeOK, ControlInv, ListInv, ClosedIsEmpty, closed,
         readySentries, ExclusiveSentry, Owns, reaperTick
<1>5. ExclusiveSentry'
    BY DEF PoolInv, PoolTypeOK, ControlInv, ListInv, ExclusiveSentry, Owns,
         readySentries, reaperTick
<1>6. FreshInv'
    BY DEF PoolInv, PoolTypeOK, ControlInv, ListInv, ExclusiveSentry, Owns,
         FreshInv, ClosedIsEmpty, handOut, closed, readySentries, reaperTick
<1>7. ClosedIsEmpty'
    BY DEF PoolInv, PoolTypeOK, ClosedIsEmpty, closed, readySentries,
         reaperTick
<1>8. NoOrphan'
    BY DEF PoolInv, PoolTypeOK, ControlInv, ListInv, NoOrphan, claimed,
         closed, reaperTick
<1> QED  BY <1>1, <1>2, <1>3, <1>4, <1>5, <1>6, <1>7, <1>8 DEF PoolInv

\* Nobody owns an evicted sentry.
LEMMA ReaperCleanupInv ==
  ASSUME PoolInv, NEW s \in SentryIds, reaperCleanup(s)
  PROVE  PoolInv'
<1>1. PoolTypeOK'
    BY DEF PoolInv, PoolTypeOK, Box, State, reaperCleanup, cleanup
<1>2. ControlInv'
    BY DEF PoolInv, PoolTypeOK, ControlInv, SentryIds, None, reaperCleanup,
         cleanup
<1>3. StateInv'
    BY DEF PoolInv, PoolTypeOK, ControlInv, StateInv, ExclusiveSentry, Owns,
         readySentries, reaperCleanup, cleanup
<1>4. ListInv'
    BY DEF PoolInv, PoolTypeOK, ControlInv, ListInv, ClosedIsEmpty, closed,
         readySentries, ExclusiveSentry, Owns, reaperCleanup, cleanup
<1>5. ExclusiveSentry'
    BY DEF PoolInv, PoolTypeOK, ControlInv, ListInv, ExclusiveSentry, Owns,
         readySentries, reaperCleanup, cleanup
<1>6. FreshInv'
    BY DEF PoolInv, PoolTypeOK, ControlInv, ListInv, ExclusiveSentry, Owns,
         FreshInv, ClosedIsEmpty, handOut, closed, readySentries,
         reaperCleanup, cleanup
<1>7. ClosedIsEmpty'
    BY DEF PoolInv, PoolTypeOK, ClosedIsEmpty, closed, readySentries,
         reaperCleanup, cleanup
<1>8. NoOrphan'
    BY DEF PoolInv, PoolTypeOK, ControlInv, ListInv, NoOrphan, claimed,
         closed, reaperCleanup, cleanup
<1> QED  BY <1>1, <1>2, <1>3, <1>4, <1>5, <1>6, <1>7, <1>8 DEF PoolInv

\* Shutdown empties the pool and closes it in one critical section.
LEMMA ShutdownSweepInv ==
  ASSUME PoolInv, shutdownSweep
  PROVE  PoolInv'
<1>1. PoolTypeOK'
    BY DEF PoolInv, PoolTypeOK, Box, State, shutdownSweep, Broadcast
<1>2. ControlInv'
    BY DEF PoolInv, PoolTypeOK, ControlInv, SentryIds, None, shutdownSweep,
         Broadcast
<1>3. StateInv'
    BY DEF PoolInv, PoolTypeOK, ControlInv, StateInv, ExclusiveSentry, Owns,
         readySentries, shutdownSweep, Broadcast
<1>4. ListInv'
    BY DEF PoolInv, PoolTypeOK, ControlInv, ListInv, ClosedIsEmpty, closed,
         readySentries, ExclusiveSentry, Owns, shutdownSweep, Broadcast
<1>5. ExclusiveSentry'
    BY DEF PoolInv, PoolTypeOK, ControlInv, ListInv, ExclusiveSentry, Owns,
         readySentries, shutdownSweep, Broadcast
<1>6. FreshInv'
    BY DEF PoolInv, PoolTypeOK, ControlInv, ListInv, ExclusiveSentry, Owns,
         FreshInv, ClosedIsEmpty, handOut, closed, readySentries,
         shutdownSweep, Broadcast
<1>7. ClosedIsEmpty'
    BY DEF PoolInv, PoolTypeOK, ClosedIsEmpty, closed, readySentries,
         shutdownSweep, Broadcast
<1>8. NoOrphan'
    BY DEF PoolInv, PoolTypeOK, ControlInv, ListInv, NoOrphan, claimed,
         closed, shutdownSweep, Broadcast
<1> QED  BY <1>1, <1>2, <1>3, <1>4, <1>5, <1>6, <1>7, <1>8 DEF PoolInv

\* What Shutdown deletes is out of a pool that is closed.
LEMMA ShutdownCleanupInv ==
  ASSUME PoolInv, NEW s \in SentryIds, shutdownCleanup(s)
  PROVE  PoolInv'
<1>1. PoolTypeOK'
    BY DEF PoolInv, PoolTypeOK, Box, State, shutdownCleanup, cleanup
<1>2. ControlInv'
    BY DEF PoolInv, PoolTypeOK, ControlInv, SentryIds, None, shutdownCleanup,
         cleanup
<1>3. StateInv'
    BY DEF PoolInv, PoolTypeOK, ControlInv, StateInv, ExclusiveSentry, Owns,
         readySentries, shutdownCleanup, cleanup
<1>4. ListInv'
    BY DEF PoolInv, PoolTypeOK, ControlInv, ListInv, ClosedIsEmpty, closed,
         readySentries, ExclusiveSentry, Owns, shutdownCleanup, cleanup
<1>5. ExclusiveSentry'
    BY DEF PoolInv, PoolTypeOK, ControlInv, ListInv, ExclusiveSentry, Owns,
         readySentries, shutdownCleanup, cleanup
<1>6. FreshInv'
    BY DEF PoolInv, PoolTypeOK, ControlInv, ListInv, ExclusiveSentry, Owns,
         FreshInv, ClosedIsEmpty, handOut, closed, readySentries,
         shutdownCleanup, cleanup
<1>7. ClosedIsEmpty'
    BY DEF PoolInv, PoolTypeOK, ClosedIsEmpty, closed, readySentries,
         shutdownCleanup, cleanup
<1>8. NoOrphan'
    BY DEF PoolInv, PoolTypeOK, ControlInv, ListInv, NoOrphan, claimed,
         closed, shutdownCleanup, cleanup
<1> QED  BY <1>1, <1>2, <1>3, <1>4, <1>5, <1>6, <1>7, <1>8 DEF PoolInv
\* Steps that move only the reaper, Shutdown or the clock.
LEMMA QuietInv ==
  ASSUME PoolInv,
         \/ reaperStop \/ shutdownStop \/ shutdownWait \/ shutdownWoken
         \/ \E s \in SentryIds : Age(s)
  PROVE  PoolInv'
<1>1. /\ UNCHANGED <<requestVars, sentries, sstate, restores, box, recycleVars, doomed>>
      /\ closed' = closed /\ (evict # {} => reaper' = reaper) /\ evict' = evict
      /\ stale' \subseteq SentryIds
  BY DEF PoolInv, PoolTypeOK, ListInv, reaperStop, shutdownStop, shutdownWait,
         shutdownWoken, sdgoto, Age, closed
<1>2. PoolTypeOK'
  <2>1. sd' \in {"none", "wait", "blocked", "woken", "sweep", "clean", "done", "panic"}
        /\ reaper' \in {"off", "select", "cleaning", "exited"}
    BY DEF PoolInv, PoolTypeOK, reaperStop, shutdownStop, shutdownWait, shutdownWoken,
           sdgoto, Age
  <2> QED  BY <1>1, <2>1 DEF PoolInv, PoolTypeOK
<1>3. ControlInv' /\ StateInv' /\ ListInv' /\ ClosedIsEmpty'
  BY <1>1 DEF PoolInv, ControlInv, StateInv, ListInv, ClosedIsEmpty, Owns
<1>4. ExclusiveSentry' /\ FreshInv' /\ NoOrphan'
  BY <1>1 DEF PoolInv, ExclusiveSentry, Owns, FreshInv, NoOrphan, claimed, handOut, readySentries
<1> QED  BY <1>2, <1>3, <1>4 DEF PoolInv

\* Stuttering changes nothing.
LEMMA StutterInv == ASSUME PoolInv, UNCHANGED poolVars PROVE PoolInv'
BY DEF PoolInv, poolVars, PoolTypeOK, ControlInv, StateInv, ListInv, ExclusiveSentry, Owns, FreshInv,
       ClosedIsEmpty, NoOrphan, claimed, handOut, readySentries, closed

-----------------------------------------------------------------------------
(* Theorems *)

\* PoolInv is an invariant: no interleaving of callers, recycles, the reaper
\* and Shutdown breaks any of its parts.
THEOREM PoolInvariant == PoolSpec => []PoolInv
<1>1. PoolInv /\ [PoolNext]_poolVars => PoolInv'
  <2> SUFFICES ASSUME PoolInv, [PoolNext]_poolVars PROVE PoolInv'
    OBVIOUS
  <2>1. ASSUME NEW r \in Requests, requestStep(r) PROVE PoolInv'
    BY <2>1, AcquireInv, AcquireSpawnedInv, AcquireWokenInv, ExecuteInv, ReleaseSignalInv
       DEF requestStep
  <2>2. ASSUME NEW r \in Requests, registerLease(r) \/ recycleAdd(r) PROVE PoolInv'
    BY <2>2, RegisterLeaseInv, RecycleAddInv
  <2>3. ASSUME NEW r \in Requests, recycleStep(r) PROVE PoolInv'
    BY <2>3, RecycleStartInv, RecycleResetInv, RecycleRestoreInv, RecycleSignalInv,
       RecycleRemoveInv, RecycleReplaceInv, RefillInv DEF recycleStep
  <2>4. CASE reaperStep
    BY <2>4, ReaperTickInv, ReaperCleanupInv, QuietInv DEF reaperStep
  <2>5. CASE shutdownStep
    BY <2>5, ShutdownSweepInv, ShutdownCleanupInv, QuietInv DEF shutdownStep
  <2>6. CASE shutdownStop \/ \E s \in SentryIds : Age(s)
    BY <2>6, QuietInv
  <2>7. CASE UNCHANGED poolVars
    BY <2>7, StutterInv
  <2> QED  BY <2>1, <2>2, <2>3, <2>4, <2>5, <2>6, <2>7 DEF PoolNext
<1> QED  BY InitInv, <1>1, PTL DEF PoolSpec

\* The variables keep their types (Sentry.State is one of its constants, the
\* sets hold IDs that nextID can hand out).
THEOREM PoolTypeCorrect == PoolSpec => []PoolTypeOK
<1>1. PoolInv => PoolTypeOK
  BY DEF PoolInv
<1> QED  BY <1>1, PoolInvariant, PTL

\* No sentry is acquired, leased or recycled by two requests at a time, or
\* evicted while one has it.
THEOREM Exclusive == PoolSpec => []ExclusiveSentry
<1>1. PoolInv => ExclusiveSentry
  BY DEF PoolInv
<1> QED  BY <1>1, PoolInvariant, PTL

\* Nothing survives between executions: whatever can be acquired, or is on the
\* way to a caller, holds a sandbox nobody has used.
THEOREM Fresh == PoolSpec => []FreshKernel
<1>1. PoolInv => FreshKernel
  BY DEF PoolInv, FreshInv, FreshKernel, handOut
<1> QED  BY <1>1, PoolInvariant, PTL

\* A closed pool stays empty and nobody sleeps on its condition variable.
THEOREM Closed == PoolSpec => []ClosedIsEmpty
<1>1. PoolInv => ClosedIsEmpty
  BY DEF PoolInv
<1> QED  BY <1>1, PoolInvariant, PTL

\* Every sandbox on the host is in the pool or on the list of a goroutine that
\* will delete it.
THEOREM Orphans == PoolSpec => []NoOrphan
<1>1. PoolInv => NoOrphan
  BY DEF PoolInv
<1> QED  BY <1>1, PoolInvariant, PTL

\* No step breaks the state diagram of the sentries: a used sandbox is never
\* released, draining ends in a restored checkpoint, and an evicted or swept
\* sentry is not acquired again.
THEOREM Diagram == PoolSpec => StateDiagram
<1> DEFINE Moves == \A s \in SentryIds : box[s] # "none" =>
             /\ sstate[s] = "running" /\ sstate'[s] = "ready" => box[s] # "used"
             /\ sstate[s] = "draining" /\ sstate'[s] = "ready" => box'[s] = "restored"
             /\ sstate[s] = "ready" /\ sstate'[s] = "running" => s \in sentries
<1>1. PoolInv /\ [PoolNext]_poolVars => [Moves]_poolVars
  <2> SUFFICES ASSUME PoolInv, PoolNext PROVE Moves
    OBVIOUS
  <2>1. CASE sstate' = sstate
    BY <2>1 DEF PoolInv, PoolTypeOK
  <2>2. ASSUME NEW r \in Requests, acquire(r) \/ acquireWoken(r), sstate' # sstate
        PROVE  Moves
    BY <2>2 DEF PoolInv, PoolTypeOK, acquire, acquireWoken, findReadyLocked, readySentries
  <2>3. ASSUME NEW r \in Requests, acquireSpawned(r), sstate' # sstate PROVE Moves
    BY <2>3 DEF PoolInv, PoolTypeOK, acquireSpawned, nextID
  <2>4. ASSUME NEW r \in Requests, Execute(r), sstate' # sstate PROVE Moves
    BY <2>4 DEF PoolInv, PoolTypeOK, ControlInv, StateInv, FreshInv, handOut, Execute,
                releaseState
  <2>5. ASSUME NEW r \in Requests, recycleStart(r) PROVE Moves
    BY <2>5 DEF PoolInv, PoolTypeOK, ControlInv, recycleStart
  <2>6. ASSUME NEW r \in Requests, recycleRestore(r), sstate' # sstate PROVE Moves
    BY <2>6 DEF PoolInv, PoolTypeOK, ControlInv, StateInv, recycleRestore
  <2>7. sstate' = sstate \/ \E r \in Requests :
          \/ acquire(r) \/ acquireWoken(r) \/ acquireSpawned(r) \/ Execute(r)
          \/ recycleStart(r) \/ recycleRestore(r)
    BY DEF PoolNext, requestStep, recycleStep, reaperStep, shutdownStep, releaseSignal,
           registerLease, recycleAdd, recycleReset, recycleSignal, recycleRemove,
           recycleReplace, refill, Age, reaperTick, reaperCleanup, reaperStop,
           shutdownStop, shutdownWait, shutdownWoken, shutdownSweep, shutdownCleanup, sdgoto
  <2> QED  BY <2>1, <2>2, <2>3, <2>4, <2>5, <2>6, <2>7
<1> QED  BY <1>1, PoolInvariant, PTL DEF PoolSpec, StateDiagram

-----------------------------------------------------------------------------
(* The queue *)

\* The callers inside acquire are finitely many, and the queued ones are some
\* of them.
LEMMA QueueFinite ==
  /\ IsFiniteSet(inAcquire) /\ IsFiniteSet(queued)
  /\ Cardinality(inAcquire) \in Nat /\ Cardinality(queued) \in Nat
  /\ Cardinality(queued) <= Cardinality(inAcquire)
<1>1. queued \subseteq inAcquire /\ inAcquire \subseteq Requests
  BY DEF queued, inAcquire
<1>2. IsFiniteSet(inAcquire)
  BY <1>1, FS_Subset
<1> QED  BY <1>1, <1>2, FS_Subset, FS_CardinalityType

\* A step that moves nobody into or out of acquire keeps the count.
LEMMA SameQueue ==
  ASSUME PendingExact, pending' = pending,
         \A r \in Requests : pc[r] \in {"waiting", "woken"} <=> pc'[r] \in {"waiting", "woken"},
         \A r \in Requests : pc[r] = "spawning" <=> pc'[r] = "spawning"
  PROVE  PendingExact'
<1>1. queued' = queued
  BY DEF queued
<1>2. inAcquire' = inAcquire
  BY DEF inAcquire
<1> QED  BY <1>1, <1>2 DEF PendingExact, maxPending

\* A caller that leaves acquire is counted off once.
LEMMA LeaveQueue ==
  ASSUME PendingExact, NEW r \in Requests, r \in inAcquire,
         inAcquire' = inAcquire \ {r}, queued' \subseteq queued, pending' = pending - 1
  PROVE  PendingExact'
<1>1. Cardinality(inAcquire') = Cardinality(inAcquire) - 1
  BY QueueFinite, FS_RemoveElement
<1>2. Cardinality(queued') <= Cardinality(queued) /\ Cardinality(queued') \in Nat
  BY QueueFinite, FS_Subset, FS_CardinalityType
<1>3. maxPending \in Int
  BY DEF maxPending
<1> QED  BY <1>1, <1>2, <1>3, QueueFinite DEF PendingExact, maxPending

\* A caller that enters acquire is counted once; it joins the queue proper
\* only below max_pending.
LEMMA EnterQueue ==
  ASSUME PendingExact, NEW r \in Requests, r \notin inAcquire,
         inAcquire' = inAcquire \cup {r}, pending' = pending + 1,
         queued' = queued \/ (queued' = queued \cup {r} /\ pending < maxPending)
  PROVE  PendingExact'
<1>1. Cardinality(inAcquire') = Cardinality(inAcquire) + 1
  BY QueueFinite, FS_AddElement
<1>2. CASE queued' = queued
  BY <1>1, <1>2 DEF PendingExact, maxPending
<1>3. CASE queued' = queued \cup {r} /\ pending < maxPending
  <2>1. r \notin queued
    BY DEF queued, inAcquire
  <2>2. Cardinality(queued') = Cardinality(queued) + 1
    BY <1>3, <2>1, QueueFinite, FS_AddElement
  <2>3. Cardinality(queued) + 1 <= maxPending
    <3>1. maxPending \in Int
      BY DEF maxPending
    <3> QED  BY <1>3, <3>1, QueueFinite DEF PendingExact
  <2> QED  BY <1>1, <2>2, <2>3 DEF PendingExact, maxPending
<1> QED  BY <1>2, <1>3

\* p.pending is exact on every path through acquire, and the queue never
\* exceeds max_pending.
THEOREM Pending == PoolSpec => []PendingExact
<1>1. PoolInit => PendingExact
  <2> SUFFICES ASSUME PoolInit PROVE PendingExact
    OBVIOUS
  <2>1. inAcquire = {} /\ queued = {}
    BY DEF PoolInit, inAcquire, queued
  <2>2. maxPending >= 0
    BY DEF maxPending
  <2> QED  BY <2>1, <2>2, FS_EmptySet DEF PoolInit, PendingExact
<1>2. PoolInv /\ PendingExact /\ [PoolNext]_poolVars => PendingExact'
  <2> SUFFICES ASSUME PoolInv, PendingExact, [PoolNext]_poolVars PROVE PendingExact'
    OBVIOUS
  <2> USE DEF PoolInv, PoolTypeOK
  <2>1. ASSUME NEW r \in Requests, acquire(r) PROVE PendingExact'
    <3>1. pc[r] = "start" /\ r \notin inAcquire
      BY <2>1 DEF acquire, inAcquire
    <3>2. CASE pending' = pending
      BY <2>1, <3>1, <3>2, SameQueue DEF acquire, findReadyLocked, goto
    <3>3. CASE pending' = pending + 1 /\ pc' = [pc EXCEPT ![r] = "spawning"]
      <4>1. inAcquire' = inAcquire \cup {r} /\ queued' = queued
        BY <3>1, <3>3 DEF inAcquire, queued
      <4> QED  BY <3>1, <3>3, <4>1, EnterQueue
    <3>4. CASE pending' = pending + 1 /\ pc' = [pc EXCEPT ![r] = "waiting"] /\ pending < maxPending
      <4>1. inAcquire' = inAcquire \cup {r} /\ queued' = queued \cup {r}
        BY <3>1, <3>4 DEF inAcquire, queued
      <4> QED  BY <3>1, <3>4, <4>1, EnterQueue
    <3> QED  BY <2>1, <3>2, <3>3, <3>4 DEF acquire, findReadyLocked, goto
  <2>2. ASSUME NEW r \in Requests, acquireSpawned(r) PROVE PendingExact'
    <3>1. pc[r] = "spawning" /\ pending' = pending - 1
      BY <2>2 DEF acquireSpawned
    <3>2. pc' = [pc EXCEPT ![r] = "refused"] \/ pc' = [pc EXCEPT ![r] = "acquired"]
      BY <2>2 DEF acquireSpawned, goto
    <3>3. r \in inAcquire /\ inAcquire' = inAcquire \ {r} /\ queued' \subseteq queued
      BY <3>1, <3>2 DEF inAcquire, queued
    <3> QED  BY <3>1, <3>3, LeaveQueue
  <2>3. ASSUME NEW r \in Requests, acquireWoken(r) PROVE PendingExact'
    <3>1. pc[r] = "woken"
      BY <2>3 DEF acquireWoken
    <3>2. CASE pending' = pending - 1 /\ pc' = [pc EXCEPT ![r] = "refused"]
      <4>1. r \in inAcquire /\ inAcquire' = inAcquire \ {r} /\ queued' \subseteq queued
        BY <3>1, <3>2 DEF inAcquire, queued
      <4> QED  BY <3>2, <4>1, LeaveQueue
    <3>3. CASE pending' = pending - 1 /\ pc' = [pc EXCEPT ![r] = "acquired"]
      <4>1. r \in inAcquire /\ inAcquire' = inAcquire \ {r} /\ queued' \subseteq queued
        BY <3>1, <3>3 DEF inAcquire, queued
      <4> QED  BY <3>3, <4>1, LeaveQueue
    <3>4. CASE pending' = pending /\ pc' = [pc EXCEPT ![r] = "waiting"]
      BY <3>1, <3>4, SameQueue
    <3> QED  BY <2>3, <3>2, <3>3, <3>4 DEF acquireWoken, findReadyLocked, goto
  <2>4. ASSUME NEW r \in Requests, Execute(r) \/ registerLease(r) PROVE PendingExact'
    BY <2>4, SameQueue DEF Execute, releaseState, registerLease, goto
  <2>5. ASSUME NEW r \in Requests, releaseSignal(r) \/ recycleSignal(r) \/ refill(r)
        PROVE  PendingExact'
    BY <2>5, SameQueue DEF releaseSignal, recycleSignal, refill, Signal
  <2>6. CASE shutdownSweep
    BY <2>6, SameQueue DEF shutdownSweep, Broadcast
  <2>7. CASE UNCHANGED <<pending, pc>>
    BY <2>7, SameQueue
  <2>8. UNCHANGED <<pending, pc>> \/ shutdownSweep \/ \E r \in Requests :
          \/ acquire(r) \/ acquireSpawned(r) \/ acquireWoken(r) \/ Execute(r)
          \/ registerLease(r) \/ releaseSignal(r) \/ recycleSignal(r) \/ refill(r)
    BY DEF PoolNext, poolVars, requestStep, recycleStep, reaperStep, shutdownStep, recycleAdd,
           recycleStart, recycleReset, recycleRestore, recycleRemove, recycleReplace, Age,
           reaperTick, reaperCleanup, reaperStop, shutdownStop, shutdownWait, shutdownWoken,
           shutdownCleanup, sdgoto
  <2> QED  BY <2>1, <2>2, <2>3, <2>4, <2>5, <2>6, <2>7, <2>8
<1> QED  BY <1>1, <1>2, PoolInvariant, PTL DEF PoolSpec

-----------------------------------------------------------------------------
(* Wakeups *)

\* The requests that account for a ready sentry: woken waiters, and goroutines
\* about to signal.
onTheWay == {r \in Requests : pc[r] \in {"woken", "signal"} \/ rpc[r] = "signal"}

\* The requests asleep on the cond.
waiting == {r \in Requests : pc[r] = "waiting"}

\* NoLostWakeup compares two finite sets: no request is both woken and about to
\* signal.
WakeupsCounted ==
  /\ IsFiniteSet(onTheWay) /\ IsFiniteSet(readySentries)
  /\ Cardinality(onTheWay) \in Nat /\ Cardinality(readySentries) \in Nat
  /\ NoLostWakeup <=> (waiting # {} /\ ~closed =>
       Cardinality(readySentries) <= Cardinality(onTheWay))

\* Recycles belong to leases, whose requests neither wait nor release.
LEMMA OnTheWayCounted == PoolInv => WakeupsCounted
<1> SUFFICES ASSUME PoolInv PROVE WakeupsCounted
  OBVIOUS
<1> DEFINE W == {r \in Requests : pc[r] = "woken"}
<1>1. onTheWay = W \cup signalling /\ W \cap signalling = {}
  BY DEF onTheWay, signalling, PoolInv, ControlInv
<1>2. IsFiniteSet(W) /\ IsFiniteSet(signalling) /\ IsFiniteSet(onTheWay)
  BY FS_Subset DEF signalling, onTheWay
<1>3. Cardinality(W) \in Nat /\ Cardinality(signalling) \in Nat
  BY <1>2, FS_CardinalityType
<1>4. Cardinality(onTheWay) = Cardinality(W) + Cardinality(signalling)
  <2> HIDE DEF W
  <2>1. Cardinality(W \cup signalling) =
          Cardinality(W) + Cardinality(signalling) - Cardinality(W \cap signalling)
    BY <1>2, FS_Union
  <2>2. Cardinality(W \cap signalling) = 0
    BY <1>1, FS_EmptySet
  <2> QED  BY <1>1, <1>3, <2>1, <2>2
<1>5. IsFiniteSet(readySentries)
  BY SentriesFinite, FS_Subset DEF PoolInv, readySentries
<1>6. waiting # {} <=> \E r \in Requests : pc[r] = "waiting"
  BY DEF waiting
<1> QED  BY <1>2, <1>3, <1>4, <1>5, <1>6, FS_CardinalityType DEF NoLostWakeup, WakeupsCounted

\* The four ways in which the two sets move: nothing is lost,
LEMMA KeepWakeup ==
  ASSUME NEW S, NEW T, IsFiniteSet(S), IsFiniteSet(T), Cardinality(S) <= Cardinality(T),
         NEW S2, NEW T2, IsFiniteSet(T2), S2 \subseteq S, T \subseteq T2
  PROVE  Cardinality(S2) <= Cardinality(T2)
<1>1. IsFiniteSet(S2) /\ Cardinality(S2) <= Cardinality(S) /\ Cardinality(T) <= Cardinality(T2)
  BY FS_Subset
<1> QED  BY <1>1, FS_CardinalityType

\* a woken waiter takes a sentry,
LEMMA TakeWakeup ==
  ASSUME NEW S, NEW T, IsFiniteSet(S), IsFiniteSet(T), Cardinality(S) <= Cardinality(T),
         NEW s \in S, NEW r \in T
  PROVE  Cardinality(S \ {s}) <= Cardinality(T \ {r})
<1>1. Cardinality(S \ {s}) = Cardinality(S) - 1 /\ Cardinality(T \ {r}) = Cardinality(T) - 1
  BY FS_RemoveElement
<1> QED  BY <1>1, FS_CardinalityType

\* a sentry becomes ready, and who made it so is about to signal (or did),
LEMMA GiveWakeup ==
  ASSUME NEW S, NEW T, IsFiniteSet(S), IsFiniteSet(T), Cardinality(S) <= Cardinality(T),
         NEW S2, NEW s, S2 \subseteq S \cup {s}, NEW r, r \notin T
  PROVE  Cardinality(S2) <= Cardinality(T \cup {r})
<1>1. IsFiniteSet(S \cup {s}) /\ Cardinality(S \cup {s}) \in {Cardinality(S), Cardinality(S) + 1}
  BY FS_AddElement
<1>2. Cardinality(T \cup {r}) = Cardinality(T) + 1
  BY FS_AddElement
<1>3. Cardinality(S2) <= Cardinality(S \cup {s}) /\ IsFiniteSet(S2)
  BY <1>1, FS_Subset
<1> QED  BY <1>1, <1>2, <1>3, FS_CardinalityType

\* and a signal passes on to a waiter.
LEMMA PassWakeup ==
  ASSUME NEW S, NEW T, IsFiniteSet(S), IsFiniteSet(T), Cardinality(S) <= Cardinality(T),
         NEW r \in T, NEW w, w \notin T
  PROVE  Cardinality(S) <= Cardinality((T \ {r}) \cup {w})
<1>1. IsFiniteSet(T \ {r}) /\ Cardinality(T \ {r}) = Cardinality(T) - 1
  BY FS_RemoveElement
<1>2. Cardinality((T \ {r}) \cup {w}) = Cardinality(T \ {r}) + 1
  BY <1>1, FS_AddElement
<1> QED  BY <1>1, <1>2, FS_CardinalityType

\* The number of ready sentries never exceeds that of the wakeups on the way
\* while somebody waits, whatever release, recycle and refill do in between.
THEOREM Wakeups == PoolSpec => []NoLostWakeup
<1>1. PoolInit => NoLostWakeup
  BY DEF PoolInit, NoLostWakeup
<1>p. (PoolInv => WakeupsCounted)'
  BY OnTheWayCounted, PTL
<1>2. PoolInv /\ PoolInv' /\ NoLostWakeup /\ [PoolNext]_poolVars => NoLostWakeup'
  <2> SUFFICES ASSUME PoolInv, PoolInv', NoLostWakeup, [PoolNext]_poolVars,
                      waiting' # {}, ~closed'
               PROVE  Cardinality(readySentries') <= Cardinality(onTheWay')
    BY <1>p, OnTheWayCounted DEF WakeupsCounted
  <2> DEFINE S == readySentries  T == onTheWay
  <2> USE DEF PoolInv, PoolTypeOK
  <2>f. /\ IsFiniteSet(S) /\ IsFiniteSet(T)
        /\ IsFiniteSet(S') /\ IsFiniteSet(T')
        /\ Cardinality(T') \in Nat
    BY <1>p, OnTheWayCounted DEF WakeupsCounted
  <2>c. ~closed
    BY ZenonT(60) DEF PoolNext, poolVars, closed, requestStep, recycleStep, reaperStep, shutdownStep,
           acquire, acquireSpawned, acquireWoken, Execute, releaseSignal, registerLease,
           recycleAdd, recycleStart, recycleReset, recycleRestore, recycleSignal,
           recycleRemove, recycleReplace, refill, refillNext, recycleDone, rgoto, Age,
           reaperTick, reaperCleanup, reaperStop, shutdownStop, shutdownWait, shutdownWoken,
           shutdownSweep, shutdownCleanup, sdgoto
  <2>m. waiting # {} => Cardinality(S) <= Cardinality(T)
    BY <2>c, OnTheWayCounted DEF WakeupsCounted
  <2>e. CASE S' = {}
    BY <2>e, <2>f, FS_EmptySet
  <2>k. CASE waiting # {} /\ S' \subseteq S /\ T \subseteq T'
    BY <2>k, <2>f, <2>m, KeepWakeup
  <2>1. ASSUME NEW r \in Requests, acquire(r) PROVE S' = {} \/ (waiting # {} /\ S' \subseteq S /\ T \subseteq T')
    BY <2>1 DEF acquire, findReadyLocked, goto, readySentries, onTheWay, waiting
  <2>2. ASSUME NEW r \in Requests, acquireSpawned(r) PROVE waiting # {} /\ S' \subseteq S /\ T \subseteq T'
    BY <2>2 DEF acquireSpawned, goto, readySentries, onTheWay, waiting, nextID
  <2>3. ASSUME NEW r \in Requests, acquireWoken(r), S' # {}
        PROVE  Cardinality(S') <= Cardinality(T')
    <3>1. PICK s \in S : /\ sstate' = [sstate EXCEPT ![s] = "running"]
                         /\ pc' = [pc EXCEPT ![r] = "acquired"]
                         /\ UNCHANGED <<sentries, rpc>>
      BY <2>3, <2>c DEF acquireWoken, findReadyLocked, goto, readySentries
    <3>2. S' = S \ {s} /\ T' = T \ {r} /\ r \in T /\ waiting' = waiting
      BY <2>3, <3>1 DEF acquireWoken, readySentries, onTheWay, waiting, ControlInv
    <3> QED  BY <3>2, <2>f, <2>m, TakeWakeup
  <2>4. ASSUME NEW r \in Requests, Execute(r) PROVE Cardinality(S') <= Cardinality(T')
    <3>1. waiting' = waiting /\ r \notin T
      BY <2>4 DEF Execute, releaseState, goto, waiting, onTheWay, ControlInv
    <3>2. CASE releaseState(r)
      <4>1. S' \subseteq S \cup {held[r]} /\ T' = T \cup {r}
        BY <2>4, <3>2 DEF Execute, releaseState, goto, readySentries, onTheWay
      <4> QED  BY <3>1, <4>1, <2>f, <2>m, GiveWakeup
    <3>3. CASE UNCHANGED sstate /\ pc' = [pc EXCEPT ![r] = "register"]
      BY <2>4, <3>1, <3>3, <2>k DEF Execute, readySentries, onTheWay
    <3> QED  BY <2>4, <3>2, <3>3 DEF Execute, goto
  <2>5. ASSUME NEW r \in Requests, releaseSignal(r) PROVE Cardinality(S') <= Cardinality(T')
    <3>1. PICK w \in Requests : /\ pc[w] = "waiting"
                                /\ pc' = [pc EXCEPT ![r] = "refused", ![w] = "woken"]
      BY <2>5 DEF releaseSignal, Signal, waiting
    <3>2. S' = S /\ r \in T /\ w \notin T /\ T' = (T \ {r}) \cup {w} /\ waiting # {}
      BY <2>5, <3>1 DEF releaseSignal, readySentries, onTheWay, waiting, ControlInv
    <3> QED  BY <3>2, <2>f, <2>m, PassWakeup
  <2>6. ASSUME NEW r \in Requests, recycleSignal(r) PROVE Cardinality(S') <= Cardinality(T')
    <3>1. PICK w \in Requests : /\ pc[w] = "waiting" /\ pc' = [pc EXCEPT ![w] = "woken"]
                                /\ rpc' = [rpc EXCEPT ![r] = "done"]
      BY <2>6 DEF recycleSignal, recycleDone, Signal, waiting
    <3>2. S' = S /\ r \in T /\ w \notin T /\ T' = (T \ {r}) \cup {w} /\ waiting # {}
      BY <2>6, <3>1 DEF recycleSignal, readySentries, onTheWay, waiting, ControlInv
    <3> QED  BY <3>2, <2>f, <2>m, PassWakeup
  <2>7. ASSUME NEW r \in Requests, recycleRestore(r) PROVE Cardinality(S') <= Cardinality(T')
    <3>1. waiting' = waiting /\ r \notin T
      BY <2>7 DEF recycleRestore, waiting, onTheWay, ControlInv
    <3>2. CASE rpc' = [rpc EXCEPT ![r] = "signal"]
      <4>1. S' \subseteq S \cup {held[r]} /\ T' = T \cup {r}
        BY <2>7, <3>2 DEF recycleRestore, readySentries, onTheWay
      <4> QED  BY <3>1, <4>1, <2>f, <2>m, GiveWakeup
    <3>3. CASE UNCHANGED sstate /\ rpc' = [rpc EXCEPT ![r] = "remove"]
      BY <2>7, <3>1, <3>3, <2>k DEF recycleRestore, readySentries, onTheWay
    <3> QED  BY <2>7, <3>2, <3>3 DEF recycleRestore, rgoto
  <2>8. ASSUME NEW r \in Requests, refill(r) PROVE Cardinality(S') <= Cardinality(T')
    <3>1. r \notin T /\ (rpc' = [rpc EXCEPT ![r] = "done"] \/ rpc' = [rpc EXCEPT ![r] = "refill"])
      BY <2>8 DEF refill, refillNext, recycleDone, rgoto, onTheWay, ControlInv
    <3>2. CASE UNCHANGED <<pc, sentryVars>>
      BY <3>1, <3>2, <2>k DEF readySentries, onTheWay, waiting
    <3>3. CASE ~ UNCHANGED <<pc, sentryVars>>
      <4>1. PICK s \in nextID : sentries' = sentries \cup {s} /\ pc' \in Signal(pc) /\ sstate' = sstate
        BY <2>8, <2>c, <3>3 DEF refill
      <4>2. PICK w \in Requests : pc[w] = "waiting" /\ pc' = [pc EXCEPT ![w] = "woken"]
        BY <4>1 DEF Signal, waiting
      <4>3. S' \subseteq S \cup {s} /\ w \notin T /\ T' = T \cup {w} /\ waiting # {}
        BY <3>1, <4>1, <4>2 DEF readySentries, onTheWay, waiting, ControlInv
      <4> QED  BY <4>3, <2>f, <2>m, GiveWakeup
    <3> QED  BY <3>2, <3>3
  <2>9. ASSUME NEW r \in Requests,
               \/ registerLease(r) \/ recycleAdd(r) \/ recycleStart(r) \/ recycleReset(r)
               \/ recycleRemove(r) \/ recycleReplace(r)
        PROVE  waiting # {} /\ S' \subseteq S /\ T \subseteq T'
    BY <2>9 DEF registerLease, recycleAdd, recycleStart, recycleReset, recycleRemove,
                recycleReplace, recycleDone, rgoto, goto, readySentries, onTheWay, waiting, ControlInv
  <2>10. CASE reaperStep \/ shutdownStop \/ shutdownStep \/ (\E s \in SentryIds : Age(s)) \/ UNCHANGED poolVars
    <3>1. UNCHANGED <<pc, rpc, sstate>> /\ sentries' \subseteq sentries
      BY <2>10, <2>c DEF poolVars, reaperStep, shutdownStep, Age, reaperTick, reaperCleanup, reaperStop,
           shutdownStop, shutdownWait, shutdownWoken, shutdownSweep, shutdownCleanup, sdgoto, closed
    <3> QED  BY <3>1, <2>k DEF readySentries, onTheWay, waiting
  <2> QED  BY <2>e, <2>k, <2>1, <2>2, <2>3, <2>4, <2>5, <2>6, <2>7, <2>8, <2>9, <2>10
              DEF PoolNext, requestStep, recycleStep
<1> QED  BY <1>1, <1>2, PoolInvariant, PTL DEF PoolSpec

-----------------------------------------------------------------------------
(* Refills *)

\* Why concurrent refills leave no deficit: what is missing from the pool is
\* still to be counted by a recycle (remove, cleanup), or was counted by one
\* and not all spawned yet. (Without eviction there is no reaper.)
ShortfallInv ==
  ~RuntimeFails /\ ~IdleEviction =>
    /\ reaper = "off"
    /\ \/ closed
       \/ Cardinality(sentries) >= PoolSize
       \/ \E r \in Requests : rpc[r] = "replace"
       \/ \E r \in Requests :
            rpc[r] = "refill" /\ Cardinality(sentries) + needed[r] >= PoolSize

\* len(p.sentries) is a number, also after the next step.
LEMMA SentriesCounted ==
  PoolInv => IsFiniteSet(sentries) /\ Cardinality(sentries) \in Nat
BY SentriesFinite, FS_CardinalityType DEF PoolInv

\* A pool that is short of sentries is being refilled.
THEOREM Deficit == PoolSpec => []NoDeficit
<1>1. PoolInit => ShortfallInv
  <2> SUFFICES ASSUME PoolInit PROVE ShortfallInv
    OBVIOUS
  <2>1. Cardinality(1 .. PoolSize) = PoolSize
    BY FS_Interval
  <2> QED  BY <2>1 DEF PoolInit, ShortfallInv
<1>2. PoolInv /\ PoolInv' /\ ShortfallInv /\ [PoolNext]_poolVars => ShortfallInv'
  <2> SUFFICES ASSUME PoolInv, PoolInv', ShortfallInv, [PoolNext]_poolVars,
                      ~RuntimeFails, ~IdleEviction
               PROVE  ShortfallInv'
    BY DEF ShortfallInv
  <2> DEFINE n == Cardinality(sentries)
  <2> USE DEF PoolInv, PoolTypeOK
  <2>1. n \in Nat /\ IsFiniteSet(sentries)
    BY SentriesCounted
  <2>2. CASE closed'
    <3>1. reaper' = "off"
      BY DEF ShortfallInv, PoolNext, poolVars, requestStep, recycleStep, reaperStep, shutdownStep,
           acquire, acquireSpawned, acquireWoken, Execute, releaseSignal, registerLease,
           recycleAdd, recycleStart, recycleReset, recycleRestore, recycleSignal,
           recycleRemove, recycleReplace, refill, Age, reaperTick, reaperCleanup, reaperStop,
           shutdownStop, shutdownWait, shutdownWoken, shutdownSweep, shutdownCleanup, sdgoto
    <3> QED  BY <2>2, <3>1 DEF ShortfallInv
  <2>3. ASSUME NEW r \in Requests, recycleRemove(r) PROVE ShortfallInv'
    BY <2>3 DEF ShortfallInv, recycleRemove, rgoto
  <2>4. ASSUME NEW r \in Requests, recycleReplace(r) PROVE ShortfallInv'
    BY <2>1, <2>4 DEF ShortfallInv, recycleReplace, rgoto, recycleDone
  <2>5. ASSUME NEW r \in Requests, refill(r), ~closed' PROVE ShortfallInv'
    <3>1. PICK s \in nextID : /\ sentries' = sentries \cup {s} /\ box[s] = "none"
                              /\ refillNext(r)
                              /\ UNCHANGED reaper
      BY <2>5 DEF refill, nextID, recycleDone, refillNext, rgoto, closed
    <3>2. n' = n + 1
      BY <3>1, <2>1, FS_AddElement DEF ListInv
    <3>3. ASSUME NEW q \in Requests, q # r
          PROVE  rpc'[q] = rpc[q] /\ needed'[q] = needed[q]
      BY <3>1, <3>3 DEF refillNext, recycleDone, rgoto
    <3>4. /\ rpc[r] = "refill" /\ needed[r] \in Nat /\ needed'[r] = needed[r] - 1
          /\ IF needed[r] = 1 THEN rpc'[r] = "done" ELSE rpc'[r] = "refill"
      BY <2>5, <3>1 DEF refill, refillNext, recycleDone, rgoto
    <3>5. ~closed
      BY <2>5, <3>1 DEF refillNext, recycleDone, rgoto, closed
    <3>6. reaper' = "off"
      BY <3>1 DEF ShortfallInv
    <3>7. CASE n >= PoolSize \/ \E q \in Requests : rpc[q] = "replace"
      BY <2>1, <3>1, <3>2, <3>3, <3>4, <3>7 DEF ShortfallInv
    <3>8. ASSUME NEW q \in Requests, q # r, rpc[q] = "refill", n + needed[q] >= PoolSize
          PROVE  ShortfallInv'
      <4>1. n' + needed'[q] >= PoolSize /\ rpc'[q] = "refill"
        BY <2>1, <3>2, <3>3, <3>8
      <4> QED  BY <3>6, <4>1 DEF ShortfallInv
    <3>9. CASE n + needed[r] >= PoolSize
      <4>1. CASE needed[r] = 1
        BY <2>1, <3>2, <3>9, <3>6, <4>1 DEF ShortfallInv
      <4>2. CASE needed[r] # 1
        <5>1. n' + needed'[r] >= PoolSize /\ rpc'[r] = "refill"
          BY <2>1, <3>2, <3>4, <3>9, <4>2
        <5> QED  BY <3>6, <5>1 DEF ShortfallInv
      <4> QED  BY <4>1, <4>2
    <3> QED  BY <3>5, <3>7, <3>8, <3>9 DEF ShortfallInv
  <2>6. ASSUME NEW r \in Requests, acquireSpawned(r), ~closed' PROVE ShortfallInv'
    <3>1. PICK s \in nextID : /\ sentries' = sentries \cup {s}
                              /\ UNCHANGED <<rpc, needed, reaper, sd>>
      BY <2>6 DEF acquireSpawned, closed
    <3>2. n' >= n /\ n' \in Nat
      <4>1. Cardinality(sentries \cup {s}) \in {n, n + 1}
        BY <2>1, FS_AddElement
      <4> QED  BY <2>1, <3>1, <4>1
    <3>3. CASE n >= PoolSize \/ \E q \in Requests : rpc[q] = "replace"
      BY <2>1, <3>1, <3>2, <3>3 DEF ShortfallInv
    <3>4. ASSUME NEW q \in Requests, rpc[q] = "refill", n + needed[q] >= PoolSize
          PROVE  ShortfallInv'
      <4>1. n' + needed'[q] >= PoolSize /\ rpc'[q] = "refill"
        BY <2>1, <3>1, <3>2, <3>4
      <4> QED  BY <3>1, <4>1 DEF ShortfallInv
    <3> QED  BY <2>6, <3>1, <3>3, <3>4 DEF ShortfallInv, closed
  <2>7. ASSUME NEW r \in Requests,
               \/ recycleAdd(r) \/ recycleStart(r) \/ recycleReset(r) \/ recycleRestore(r)
               \/ recycleSignal(r)
        PROVE  ShortfallInv'
    BY <2>7 DEF ShortfallInv, recycleAdd, recycleStart, recycleReset, recycleRestore,
                recycleSignal, recycleDone, rgoto, closed
  <2>8. ASSUME NEW r \in Requests,
               \/ acquire(r) \/ acquireWoken(r) \/ Execute(r) \/ releaseSignal(r)
               \/ registerLease(r)
        PROVE  ShortfallInv'
    BY <2>8 DEF ShortfallInv, acquire, acquireWoken, findReadyLocked, Execute, releaseSignal,
                registerLease, closed
  <2>9. CASE (\E s \in SentryIds : Age(s)) \/ reaperStep
    BY <2>9 DEF ShortfallInv, Age, reaperStep, reaperTick, reaperCleanup, reaperStop
  <2>10. CASE (shutdownStop \/ shutdownStep \/ UNCHANGED poolVars) /\ ~closed'
    BY <2>10 DEF ShortfallInv, poolVars, shutdownStep, shutdownStop, shutdownWait, shutdownWoken,
                 shutdownSweep, shutdownCleanup, sdgoto, closed
  <2> QED  BY <2>2, <2>3, <2>4, <2>5, <2>6, <2>7, <2>8, <2>9, <2>10
              DEF PoolNext, requestStep, recycleStep
<1>3. ShortfallInv => NoDeficit
  BY DEF ShortfallInv, NoDeficit
<1> QED  BY <1>1, <1>2, <1>3, PoolInvariant, PTL DEF PoolSpec

-----------------------------------------------------------------------------
(* Waiters *)

\* A sentry in the pool that is not ready is somebody's, and an ID that is not
\* spawned yet has its first state.
OwnedInv ==
  /\ \A s \in sentries : sstate[s] # "ready" => \E r \in Requests : Owns(r, s)
  /\ \A s \in SentryIds : box[s] = "none" => sstate[s] = "ready"

\* A sentry leaves "ready" with an owner, and its owner lets go of it only
\* when it is ready again or out of the pool.
THEOREM Owned == PoolSpec => []OwnedInv
<1>1. PoolInit => OwnedInv
  BY DEF PoolInit, OwnedInv, SentryIds
<1>2. PoolInv /\ OwnedInv /\ [PoolNext]_poolVars => OwnedInv'
  <2> SUFFICES ASSUME PoolInv, OwnedInv, [PoolNext]_poolVars PROVE OwnedInv'
    OBVIOUS
  <2> USE DEF PoolInv, PoolTypeOK
  <2>1. ASSUME NEW r \in Requests, acquire(r) \/ acquireWoken(r) PROVE OwnedInv'
    BY <2>1 DEF OwnedInv, Owns, acquire, acquireWoken, findReadyLocked, readySentries, goto,
                ControlInv, ListInv
  <2>2. ASSUME NEW r \in Requests, acquireSpawned(r) PROVE OwnedInv'
    BY <2>2 DEF OwnedInv, Owns, acquireSpawned, goto, cleanup, spawnedBox, nextID, ControlInv, ListInv
  <2>3. ASSUME NEW r \in Requests, Execute(r) PROVE OwnedInv'
    BY <2>3 DEF OwnedInv, Owns, Execute, releaseState, goto, ControlInv
  <2>4. ASSUME NEW r \in Requests, releaseSignal(r) PROVE OwnedInv'
    BY <2>4 DEF OwnedInv, Owns, releaseSignal, Signal, ControlInv
  <2>5. ASSUME NEW r \in Requests, registerLease(r) \/ recycleAdd(r) PROVE OwnedInv'
    BY <2>5 DEF OwnedInv, Owns, registerLease, recycleAdd, rgoto, goto, ControlInv
  <2>6. ASSUME NEW r \in Requests, recycleStart(r) \/ recycleReset(r) \/ recycleRestore(r)
        PROVE  OwnedInv'
    BY <2>6 DEF OwnedInv, Owns, recycleStart, recycleReset, recycleRestore, rgoto, ControlInv
  <2>7. ASSUME NEW r \in Requests, recycleSignal(r) \/ recycleRemove(r) PROVE OwnedInv'
    BY <2>7 DEF OwnedInv, Owns, recycleSignal, recycleRemove, recycleDone, rgoto, Signal, ControlInv
  <2>8. ASSUME NEW r \in Requests, recycleReplace(r) PROVE OwnedInv'
    BY <2>8 DEF OwnedInv, Owns, recycleReplace, recycleDone, rgoto, cleanup, ControlInv, ListInv
  <2>9. ASSUME NEW r \in Requests, refill(r) PROVE OwnedInv'
    <3>1. /\ UNCHANGED <<sstate, held>>
          /\ rpc' = [rpc EXCEPT ![r] = "done"] \/ rpc' = [rpc EXCEPT ![r] = "refill"]
          /\ rpc[r] = "refill"
      BY <2>9 DEF refill, refillNext, recycleDone, rgoto
    <3>2. \A q \in Requests, s \in SentryIds : Owns(q, s) => Owns(q, s)'
      BY <2>9, <3>1 DEF Owns, refill, Signal, ControlInv
    <3>3. \A s \in SentryIds : box'[s] = "none" => box[s] = "none"
      BY <2>9 DEF refill, cleanup, spawnedBox
    <3>4. \A s \in sentries' : s \in SentryIds /\ (s \in sentries \/ box[s] = "none")
      BY <2>9 DEF refill, nextID
    <3> QED  BY <3>1, <3>2, <3>3, <3>4 DEF OwnedInv
  <2>10. CASE reaperStep \/ shutdownStop \/ shutdownStep \/ (\E s \in SentryIds : Age(s))
               \/ UNCHANGED poolVars
    <3>1. UNCHANGED <<rpc, held, sstate>> /\ sentries' \subseteq sentries
      BY <2>10 DEF poolVars, reaperStep, shutdownStep, Age, reaperTick, reaperCleanup, reaperStop,
           shutdownStop, shutdownWait, shutdownWoken, shutdownSweep, shutdownCleanup, sdgoto
    <3>2. \A q \in Requests : pc'[q] = pc[q] \/ pc[q] = "waiting"
      BY <2>10 DEF poolVars, reaperStep, shutdownStep, Age, reaperTick, reaperCleanup, reaperStop,
           shutdownStop, shutdownWait, shutdownWoken, shutdownSweep, shutdownCleanup, sdgoto,
           Broadcast
    <3>3. \A s \in SentryIds : box'[s] = "none" => box[s] = "none"
      BY <2>10 DEF poolVars, reaperStep, shutdownStep, Age, reaperTick, reaperCleanup, reaperStop,
           shutdownStop, shutdownWait, shutdownWoken, shutdownSweep, shutdownCleanup, sdgoto, cleanup
    <3> QED  BY <3>1, <3>2, <3>3 DEF OwnedInv, Owns
  <2> QED  BY <2>1, <2>2, <2>3, <2>4, <2>5, <2>6, <2>7, <2>8, <2>9, <2>10
              DEF PoolNext, requestStep, recycleStep
<1> QED  BY <1>1, <1>2, PoolInvariant, PTL DEF PoolSpec

\* Without eviction and without failures of the runtime nobody waits on a pool
\* that no signal will come to: the pool has a sentry or is being refilled, and
\* its sentry is ready, for which a wakeup is on the way, or somebody's.
THEOREM NotStranded ==
  ASSUME ~RuntimeFails, ~IdleEviction PROVE PoolSpec => []NoStrandedWaiter
<1>1. PoolInv /\ OwnedInv /\ NoLostWakeup /\ NoDeficit => NoStrandedWaiter
  <2> SUFFICES ASSUME PoolInv, OwnedInv, NoLostWakeup, NoDeficit, ~closed,
                      NEW w \in Requests, pc[w] = "waiting"
               PROVE  \E r \in Requests :
                        \/ pc[r] \in {"woken", "spawning", "acquired", "signal", "register"}
                        \/ pc[r] = "leased" /\ rpc[r] # "done"
    BY DEF NoStrandedWaiter
  <2>1. CASE \E r \in Requests : rpc[r] \in {"replace", "refill"}
    BY <2>1 DEF PoolInv, ControlInv
  <2>2. CASE \E s \in sentries : sstate[s] # "ready"
    <3>1. PICK s \in sentries, r \in Requests : Owns(r, s)
      BY <2>2 DEF OwnedInv
    <3> QED  BY <3>1 DEF Owns
  <2>3. CASE readySentries # {}
    <3>1. Cardinality(onTheWay) \in Nat /\ Cardinality(readySentries) \in Nat
          /\ Cardinality(readySentries) <= Cardinality(onTheWay)
          /\ IsFiniteSet(readySentries) /\ IsFiniteSet(onTheWay)
      BY OnTheWayCounted DEF WakeupsCounted, waiting
    <3>2. onTheWay # {}
      BY <2>3, <3>1, FS_EmptySet
    <3> QED  BY <3>2 DEF onTheWay, PoolInv, ControlInv
  <2>4. CASE sentries = {}
    BY <2>1, <2>4, FS_EmptySet DEF NoDeficit
  <2> QED  BY <2>2, <2>3, <2>4 DEF readySentries
<1> QED  BY <1>1, PoolInvariant, Owned, Wakeups, Deficit, PTL

-----------------------------------------------------------------------------
(* Shutdown *)

\* The recycles that recycleWg counts.
running == {r \in Requests : rpc[r] \notin {"none", "done"}}

\* recycleWg is their number.
LEMMA RunningCounted ==
  /\ recycleWg = 0 <=> running = {}
  /\ \A r \in running : recycleWg = 1 <=> running = {r}
<1>1. IsFiniteSet(running) /\ recycleWg = Cardinality(running) /\ recycleWg \in Nat
  BY FS_Subset, FS_CardinalityType DEF running, recycleWg
<1>2. ASSUME NEW r \in running, recycleWg = 1 PROVE running = {r}
  <2>1. IsFiniteSet(running \ {r}) /\ Cardinality(running \ {r}) = 0
    <3>1. IsFiniteSet(running \ {r}) /\ Cardinality(running \ {r}) = Cardinality(running) - 1
      <4> HIDE DEF running
      <4> QED  BY <1>1, FS_RemoveElement
    <3> QED  BY <1>1, <1>2, <3>1
  <2> QED  BY <2>1, FS_EmptySet
<1> QED  BY <1>1, <1>2, FS_EmptySet, FS_Singleton

\* What a step does to the recycles that run and to Shutdown: a recycle begins,
\* goes on or ends, or Shutdown takes a step of its own.
waitStep ==
  \/ running \subseteq running' /\ sd' = sd
  \/ \E r \in running : /\ running' = running \ {r}
                        /\ sd' = IF sd = "blocked" /\ recycleWg = 1 THEN "woken" ELSE sd
  \/ /\ running' = running
     /\ \/ sd = "none" /\ sd' = "wait"
        \/ sd = "wait" /\ sd' = IF recycleWg = 0 THEN "sweep" ELSE "blocked"
        \/ sd = "woken" /\ sd' = IF recycleWg = 0 THEN "sweep" ELSE "panic"
        \/ sd \in {"sweep", "clean"} /\ sd' \in {"clean", "done"}

\* Every step of the pool is one of these.
LEMMA WaitSteps ==
  ASSUME PoolTypeOK, [PoolNext]_poolVars
  PROVE  waitStep
<1> USE DEF PoolTypeOK
<1>1. ASSUME NEW r \in Requests, rpc[r] \notin {"none", "done"}, recycleDone(r)
      PROVE  waitStep
  BY <1>1 DEF recycleDone, waitStep, running
<1>2. ASSUME NEW r \in Requests, NEW l, rgoto(r, l), l \notin {"none", "done"}
      PROVE  waitStep
  BY <1>2 DEF rgoto, waitStep, running
<1>3. ASSUME UNCHANGED <<rpc, sd>> PROVE waitStep
  BY <1>3 DEF waitStep, running
<1>4. ASSUME NEW r \in Requests, requestStep(r) \/ registerLease(r) PROVE waitStep
  BY <1>4, <1>3 DEF requestStep, acquire, acquireSpawned, acquireWoken, Execute, releaseSignal,
                    registerLease
<1>5. ASSUME NEW r \in Requests, recycleAdd(r) \/ recycleStart(r) \/ recycleReset(r) \/ recycleRemove(r)
      PROVE  waitStep
  BY <1>5, <1>2 DEF recycleAdd, recycleStart, recycleReset, recycleRemove
<1>6. ASSUME NEW r \in Requests, recycleRestore(r) \/ recycleSignal(r) \/ recycleReplace(r)
      PROVE  waitStep
  BY <1>6, <1>1, <1>2 DEF recycleRestore, recycleSignal, recycleReplace
<1>7. ASSUME NEW r \in Requests, refill(r) PROVE waitStep
  BY <1>7, <1>1, <1>2 DEF refill, refillNext
<1>8. ASSUME (\E s \in SentryIds : Age(s)) \/ reaperStep \/ UNCHANGED poolVars PROVE waitStep
  BY <1>8, <1>3 DEF Age, reaperStep, reaperTick, reaperCleanup, reaperStop, poolVars
<1>9. ASSUME shutdownStop \/ shutdownStep PROVE waitStep
  <2>1. running' = running
    BY <1>9 DEF running, shutdownStop, shutdownStep, shutdownWait, shutdownWoken, shutdownSweep,
                shutdownCleanup, sdgoto
  <2> QED  BY <1>9, <2>1 DEF waitStep, shutdownStop, shutdownStep, shutdownWait, shutdownWoken,
                             shutdownSweep, shutdownCleanup, sdgoto
<1> QED  BY <1>4, <1>5, <1>6, <1>7, <1>8, <1>9 DEF PoolNext, recycleStep

\* Shutdown never sleeps in Wait without a recycle that runs, whose Done can
\* wake it up.
WaitsForSome == sd = "blocked" => \E r \in Requests : rpc[r] \notin {"none", "done"}

\* recycleWg.Wait does not sleep for nothing: the recycle that lets the counter
\* reach zero wakes Shutdown up, however recycles begin and end meanwhile
\* (Add, Done and Wait, pool.go:152-154 and 278).
THEOREM WaitWakes == PoolSpec => []WaitsForSome
<1>1. PoolInit => WaitsForSome
  BY DEF PoolInit, WaitsForSome
<1>2. PoolInv /\ WaitsForSome /\ [PoolNext]_poolVars => WaitsForSome'
  <2> SUFFICES ASSUME PoolInv, WaitsForSome, [PoolNext]_poolVars, sd' = "blocked"
               PROVE  running' # {}
    BY DEF WaitsForSome, running
  <2>1. waitStep
    BY WaitSteps DEF PoolInv
  <2>2. sd = "blocked" => running # {}
    BY DEF WaitsForSome, running
  <2> QED  BY <2>1, <2>2, RunningCounted DEF waitStep
<1> QED  BY <1>1, <1>2, PoolInvariant, PTL DEF PoolSpec

\* Shutdown returns when all sentries it copied are cleaned up.
DoneInv == sd = "done" => doomed = {}

\* What Shutdown leaves is on the reaper's list or in the hands of a recycle at
\* its cleanup.
LeftToOthers ==
  sd = "done" => \A s \in SentryIds : box[s] \notin {"none", "gone"} =>
    s \in evict \/ \E r \in Requests : held[r] = s /\ rpc[r] = "replace"

\* A Shutdown that has returned leaves no sandbox but those the reaper or a
\* late recycle has taken out of the pool and is about to delete: it takes
\* whatever is in the pool, spawns that return late are deleted by their own
\* goroutine, and no lease keeps its sandbox.
THEOREM ShutdownLeaves == PoolSpec => []LeftToOthers
<1>1. PoolInit => DoneInv
  BY DEF PoolInit, DoneInv
<1>2. PoolInv /\ DoneInv /\ [PoolNext]_poolVars => DoneInv'
  <2> SUFFICES ASSUME PoolInv, DoneInv, [PoolNext]_poolVars, sd' = "done"
               PROVE  doomed' = {}
    BY DEF DoneInv
  <2>1. CASE shutdownSweep \/ \E s \in SentryIds : shutdownCleanup(s)
    BY <2>1 DEF shutdownSweep, shutdownCleanup
  <2>2. CASE ~(shutdownSweep \/ \E s \in SentryIds : shutdownCleanup(s))
    <3>1. doomed' = doomed
      BY <2>2 DEF PoolNext, poolVars, requestStep, recycleStep, reaperStep, shutdownStep,
           acquire, acquireSpawned, acquireWoken, Execute, releaseSignal, registerLease,
           recycleAdd, recycleStart, recycleReset, recycleRestore, recycleSignal,
           recycleRemove, recycleReplace, refill, Age, reaperTick, reaperCleanup, reaperStop,
           shutdownStop, shutdownWait, shutdownWoken, sdgoto
    <3>2. sd = "done" \/ doomed = {}
      <4>1. waitStep
        BY WaitSteps DEF PoolInv
      <4>2. sd \notin {"sweep", "clean"} => sd = "done"
        BY <4>1 DEF waitStep
      <4>3. CASE sd \in {"sweep", "clean"}
        <5>1. sd' = sd
          BY <2>2, <4>3 DEF PoolNext, poolVars, requestStep, recycleStep, reaperStep, shutdownStep,
           acquire, acquireSpawned, acquireWoken, Execute, releaseSignal, registerLease,
           recycleAdd, recycleStart, recycleReset, recycleRestore, recycleSignal,
           recycleRemove, recycleReplace, refill, refillNext, recycleDone, rgoto,
           Age, reaperTick, reaperCleanup, reaperStop,
           shutdownStop, shutdownWait, shutdownWoken, sdgoto
        <5> QED  BY <4>3, <5>1
      <4> QED  BY <4>2, <4>3
    <3> QED  BY <3>1, <3>2 DEF DoneInv
  <2> QED  BY <2>1, <2>2
<1>3. PoolInv /\ DoneInv => LeftToOthers
  BY DEF PoolInv, DoneInv, LeftToOthers, NoOrphan, ClosedIsEmpty, claimed, closed
<1> QED  BY <1>1, <1>2, <1>3, PoolInvariant, PTL DEF PoolSpec

\* A pool whose leases are not completed any more once Shutdown has begun.
QuietSpec ==
  PoolSpec /\ [][stopped => \A r \in Requests : rpc[r] = "none" => rpc'[r] = "none"]_poolVars

\* Past Wait no recycle runs.
NoneRuns ==
  /\ sd # "panic"
  /\ sd \in {"woken", "sweep", "clean", "done"} => running = {}

\* Shutdown waits for all recycles, and Wait does not panic, if no Complete
\* calls recycleWg.Add once Shutdown has begun. This is what the code leaves
\* to chance: with a Complete that comes later, ShutdownWaits is violated.
THEOREM QuietShutdown == QuietSpec => []ShutdownWaits
<1>1. PoolInit => NoneRuns
  BY DEF PoolInit, NoneRuns
<1>2. ASSUME PoolInv, NoneRuns, [PoolNext]_poolVars,
             [stopped => \A r \in Requests : rpc[r] = "none" => rpc'[r] = "none"]_poolVars
      PROVE  NoneRuns'
  <2>1. waitStep
    BY <1>2, WaitSteps DEF PoolInv
  <2>2. stopped => \A r \in Requests : rpc[r] = "none" => rpc'[r] = "none"
    BY <1>2 DEF poolVars
  <2>3. sd \in {"woken", "sweep", "clean", "done"} => running' = {}
    <3>1. ASSUME NEW r \in Requests, rpc[r] = "done" PROVE rpc'[r] = "done"
      <4>1. \/ rpc' = rpc
            \/ \E q \in Requests : rpc[q] # "done" /\ \E l : rpc' = [rpc EXCEPT ![q] = l]
        <5>1. ASSUME NEW q \in Requests, recycleAdd(q) \/ recycleStep(q)
              PROVE  rpc[q] # "done" /\ \E l : rpc' = [rpc EXCEPT ![q] = l]
          BY <5>1 DEF recycleStep, recycleAdd, recycleStart, recycleReset, recycleRestore,
                      recycleSignal, recycleRemove, recycleReplace, refill, refillNext,
                      recycleDone, rgoto
        <5>2. ASSUME NEW q \in Requests, requestStep(q) \/ registerLease(q) PROVE rpc' = rpc
          BY <5>2 DEF requestStep, acquire, acquireSpawned, acquireWoken, Execute, releaseSignal,
                      registerLease
        <5>3. CASE reaperStep \/ shutdownStop \/ shutdownStep \/ (\E s \in SentryIds : Age(s))
                   \/ UNCHANGED poolVars
          BY <5>3 DEF poolVars, reaperStep, reaperTick, reaperCleanup, reaperStop, Age,
                      shutdownStop, shutdownStep, shutdownWait, shutdownWoken, shutdownSweep,
                      shutdownCleanup, sdgoto
        <5> QED  BY <1>2, <5>1, <5>2, <5>3 DEF PoolNext
      <4> QED  BY <1>2, <3>1, <4>1 DEF PoolInv, PoolTypeOK
    <3> QED  BY <1>2, <2>2, <3>1 DEF NoneRuns, running, stopped
  <2> QED  BY <1>2, <2>1, <2>3, RunningCounted DEF NoneRuns, waitStep
<1>3. NoneRuns => ShutdownWaits
  BY RunningCounted DEF NoneRuns, ShutdownWaits
<1> QED  BY <1>1, <1>2, <1>3, PoolInvariant, PTL DEF QuietSpec, PoolSpec

=============================================================================
