---------------------------- MODULE ServerProofs ----------------------------
(***************************************************************************)
(* Theorems about Server: the order of the daemon's shutdown, and how many *)
(* handlers can outlive it, for any number of connections and drains.      *)
(***************************************************************************)
EXTENDS Server, FiniteSetTheorems, TLAPS

USE ServerAssumption

\* S has at most one element.
AtMostOne(S) == \A b, c \in S : b = c

\* Types, the bound on current without its cardinality.
TypeInv ==
  /\ serve     \in {"listen", "accept", "returned"}
  /\ current   \subseteq Conns /\ AtMostOne(current)
  /\ listener  \in {"unset", "open", "closed"}
  /\ conn      \in [Conns -> {"none", "backlog", "accepted", "reading", "handling", "closed"}]
  /\ drained   \in BOOLEAN
  /\ shut      \in {"none", "running", "done"}
  /\ stop      \in {"none", "close", "wait", "blocked", "woken", "done"}
  /\ at        \in [Stoppers -> {"idle", "shutdown", "stop", "done"}]
  /\ signalled \in BOOLEAN
  /\ errCh     \in BOOLEAN
  /\ process   \in {"up", "exited", "panic"}

\* Both Once bodies run to their end before any caller is past them, and Stop
\* is called after Shutdown only. The listener is closed by the body of Stop,
\* and from there on Accept returns no connection: what is left when Wait
\* returns is the one that Serve had in hand.
OrderInv ==
  /\ \A t \in Stoppers :
       /\ at[t] \in {"stop", "done"} => shut = "done"
       /\ at[t] = "done" => stop = "done"
  /\ stop # "none" <=> drained
  /\ drained => shut = "done"
  /\ process = "exited" => stop = "done"
  /\ listener = "closed" => stop \in {"wait", "blocked", "woken", "done"}
  /\ stop = "done" /\ listener = "closed" => AtMostOne(handlers \cup current)

\* The inductive invariant.
ServerInv == TypeInv /\ OrderInv

\* A set of connections without two elements has cardinality 0 or 1.
LEMMA AtMostOneCard ==
  ASSUME NEW S, S \subseteq Conns, AtMostOne(S) PROVE Cardinality(S) <= 1
<1>1. CASE S = {}
  BY <1>1, FS_EmptySet
<1>2. ASSUME NEW c \in S PROVE Cardinality(S) <= 1
  <2>1. S = {c}
    BY <1>2 DEF AtMostOne
  <2> QED  BY <2>1, FS_Singleton
<1> QED  BY <1>1, <1>2

\* Before Serve runs nothing is accepted, and nobody shuts down.
LEMMA InitInv == Init => ServerInv
BY DEF Init, ServerInv, TypeInv, OrderInv, AtMostOne, Stoppers, handlers

\* Serve has one connection in hand at a time, and none from a closed
\* listener.
LEMMA ServeInv == ASSUME ServerInv, serveStep PROVE ServerInv'
<1>1. TypeInv'
  <2>1. CASE listen \/ acceptError
    BY <2>1, ZenonT(60) DEF ServerInv, TypeInv, listen, acceptError, AtMostOne
  <2>2. ASSUME NEW c \in Conns, accept(c) \/ handle(c) PROVE TypeInv'
    <3>1. AtMostOne(current')
      BY <2>2 DEF accept, handle, AtMostOne
    <3>2. current' \subseteq Conns
      BY <2>2 DEF accept, handle
    <3> QED  BY <2>2, <3>1, <3>2 DEF ServerInv, TypeInv, accept, handle, AtMostOne
  <2> QED  BY <2>1, <2>2 DEF serveStep
<1>2. OrderInv'
  <2>1. CASE listen \/ acceptError
    BY <2>1 DEF ServerInv, TypeInv, OrderInv, listen, acceptError, handlers
  <2>2. ASSUME NEW c \in Conns, accept(c) PROVE OrderInv'
    BY <2>2 DEF ServerInv, OrderInv, accept
  <2>3. ASSUME NEW c \in Conns, handle(c) PROVE OrderInv'
    <3>1. handlers' \cup current' \subseteq handlers \cup current
      BY <2>3 DEF ServerInv, TypeInv, handle, handlers
    <3> QED  BY <2>3, <3>1 DEF ServerInv, OrderInv, handle, AtMostOne
  <2> QED  BY <2>1, <2>2, <2>3 DEF serveStep
<1> QED  BY <1>1, <1>2 DEF ServerInv

\* A client's request and its response start no handler; a drain starts a
\* goroutine that is not past Shutdown yet.
LEMMA ConnInv ==
  ASSUME ServerInv, NEW c \in Conns,
         connect(c) \/ decode(c) \/ badRequest(c) \/ handleDrain(c) \/ respond(c)
  PROVE  ServerInv'
<1>1. TypeInv'
  BY DEF ServerInv, TypeInv, connect, decode, badRequest, handleDrain, respond, handlerDone,
         AtMostOne
<1>2. handlers' \cup current' \subseteq handlers \cup current
  BY DEF ServerInv, TypeInv, connect, decode, badRequest, handleDrain, respond, handlerDone,
         handlers
<1>3. /\ UNCHANGED <<drained, shut, process, listener>>
      /\ stop' = stop \/ (stop = "blocked" /\ stop' = "woken")
      /\ at' = at \/ at' = [at EXCEPT ![c] = "shutdown"]
  BY DEF connect, decode, badRequest, handleDrain, respond, handlerDone
<1>4. OrderInv'
  BY <1>2, <1>3 DEF ServerInv, TypeInv, OrderInv, AtMostOne
<1> QED  BY <1>1, <1>4 DEF ServerInv

\* Whoever shuts down gets past a Once only when its body is over.
LEMMA StopperInv ==
  ASSUME ServerInv, mainSelect \/ signal \/ \E t \in Stoppers : stopperStep(t)
  PROVE  ServerInv'
<1>1. TypeInv'
  <2>1. at' \in [Stoppers -> {"idle", "shutdown", "stop", "done"}]
    BY DEF ServerInv, TypeInv, mainSelect, signal, stopperStep, shutdownBegin, shutdownReturn,
           stopBegin, stopReturn, Stoppers
  <2>2. UNCHANGED <<serve, current, listener, conn, errCh>>
    BY DEF mainSelect, signal, stopperStep, shutdownBegin, shutdownReturn, stopBegin, stopReturn
  <2>3. /\ signalled' \in BOOLEAN /\ drained' \in BOOLEAN
        /\ shut' \in {"none", "running", "done"}
        /\ stop' \in {"none", "close", "wait", "blocked", "woken", "done"}
        /\ process' \in {"up", "exited", "panic"}
    BY ZenonT(60) DEF ServerInv, TypeInv, mainSelect, signal, stopperStep, shutdownBegin, shutdownReturn,
           stopBegin, stopReturn
  <2> QED  BY <2>1, <2>2, <2>3 DEF ServerInv, TypeInv, AtMostOne
<1>2. UNCHANGED <<handlers, current, listener>>
  BY DEF mainSelect, signal, stopperStep, shutdownBegin, shutdownReturn, stopBegin, stopReturn,
         handlers
<1>3. OrderInv'
  <2>1. CASE mainSelect \/ signal
    BY <1>2, <2>1 DEF ServerInv, TypeInv, OrderInv, mainSelect, signal, AtMostOne
  <2>2. ASSUME NEW t \in Stoppers, stopperStep(t) PROVE OrderInv'
    BY <1>2, <2>2 DEF ServerInv, TypeInv, OrderInv, stopperStep, shutdownBegin, shutdownReturn,
                      stopBegin, stopReturn, AtMostOne
  <2> QED  BY <2>1, <2>2
<1> QED  BY <1>1, <1>3 DEF ServerInv

\* Wait returns only when no handler is left, but for the one to come.
LEMMA OnceInv == ASSUME ServerInv, onceStep PROVE ServerInv'
<1>1. TypeInv'
  BY DEF ServerInv, TypeInv, onceStep, shutdownEnd, stopClose, stopWait, AtMostOne
<1>2. OrderInv'
  <2>1. CASE shutdownEnd
    BY <2>1 DEF ServerInv, TypeInv, OrderInv, shutdownEnd, handlers
  <2>2. CASE stopClose
    BY <2>2 DEF ServerInv, TypeInv, OrderInv, stopClose
  <2>3. CASE stopWait
    <3>1. UNCHANGED <<handlers, current, listener, drained, shut, at>> /\ drained
      BY <2>3 DEF ServerInv, OrderInv, stopWait, handlers
    <3>2. stop' = "done" => AtMostOne(handlers \cup current)
      BY <2>3 DEF ServerInv, TypeInv, stopWait, AtMostOne
    <3>3. AtMostOne(handlers \cup current)' = AtMostOne(handlers \cup current)
      BY <3>1 DEF AtMostOne
    <3> QED  BY <2>3, <3>1, <3>2, <3>3 DEF ServerInv, TypeInv, OrderInv, stopWait
  <2> QED  BY <2>1, <2>2, <2>3 DEF onceStep
<1> QED  BY <1>1, <1>2 DEF ServerInv

\* ServerInv is an invariant of the server.
THEOREM ServerInvariant == Spec => []ServerInv
<1>1. ServerInv /\ [Next]_vars => ServerInv'
  <2> SUFFICES ASSUME ServerInv, [Next]_vars PROVE ServerInv'
    OBVIOUS
  <2>1. CASE UNCHANGED vars
    BY <2>1 DEF vars, ServerInv, TypeInv, OrderInv, AtMostOne, handlers
  <2> QED  BY <2>1, ServeInv, ConnInv, StopperInv, OnceInv DEF Next
<1> QED  BY <1>1, InitInv, PTL DEF Spec

\* Types, and at most one connection between Accept and wg.Add.
THEOREM ServerTypes == Spec => []TypeOK
<1>1. ServerInv => TypeOK
  BY AtMostOneCard DEF ServerInv, TypeInv, TypeOK
<1> QED  BY <1>1, ServerInvariant, PTL

\* The process exits only after Shutdown and Stop have run to their end,
\* whichever of main and the drain goroutines called them first.
THEOREM CleanExit == Spec => []ExitIsClean
<1>1. ServerInv => ExitIsClean
  BY DEF ServerInv, OrderInv, ExitIsClean
<1> QED  BY <1>1, ServerInvariant, PTL

\* No Stop begins, and so no listener is closed, before the pools are down.
THEOREM PoolsBeforeStop == Spec => []PoolsFirst
<1>1. ServerInv => PoolsFirst
  BY DEF ServerInv, OrderInv, PoolsFirst
<1> QED  BY <1>1, ServerInvariant, PTL

\* However many clients connect, at most one handler is still to come or to
\* run when Stop has returned.
THEOREM OneLateHandler == Spec => []AtMostOneLate
<1>1. ServerInv => AtMostOneLate
  <2>1. ServerInv => handlers \cup current \subseteq Conns
    BY DEF ServerInv, TypeInv, handlers
  <2> QED  BY <2>1, AtMostOneCard DEF ServerInv, OrderInv, AtMostOneLate
<1> QED  BY <1>1, ServerInvariant, PTL

\* Stop never sleeps in Wait without a handler that runs.
WaitsForSome == stop = "blocked" => handlers # {}

\* s.wg.Wait does not sleep for nothing: the handler whose Done is the last
\* one releases Stop, however connections come and go meanwhile.
THEOREM StopWakes == Spec => []WaitsForSome
<1>1. Init => WaitsForSome
  BY DEF Init, WaitsForSome
<1>2. ServerInv /\ WaitsForSome /\ [Next]_vars => WaitsForSome'
  <2> SUFFICES ASSUME ServerInv, WaitsForSome, [Next]_vars PROVE WaitsForSome'
    OBVIOUS
  <2>1. ASSUME NEW c \in Conns, handlerDone(c) PROVE WaitsForSome'
    <3>1. handlers \ {c} \subseteq handlers'
      BY <2>1 DEF ServerInv, TypeInv, handlerDone, handlers
    <3>2. ASSUME stop' = "blocked" PROVE handlers # {} /\ handlers # {c}
      BY <2>1, <3>2 DEF handlerDone, WaitsForSome
    <3> QED  BY <3>1, <3>2 DEF WaitsForSome
  <2>2. ASSUME NEW c \in Conns, connect(c) \/ decode(c) \/ handleDrain(c) \/ accept(c) \/ handle(c)
        PROVE  WaitsForSome'
    <3>1. handlers \subseteq handlers' /\ stop' = stop
      BY <2>2 DEF ServerInv, TypeInv, connect, decode, handleDrain, accept, handle, handlers
    <3> QED  BY <3>1 DEF WaitsForSome
  <2>3. CASE stopClose
    BY <2>3 DEF stopClose, WaitsForSome
  <2>4. CASE stopWait
    BY <2>4 DEF stopWait, WaitsForSome, handlers
  <2>5. CASE listen \/ acceptError \/ mainSelect \/ signal \/ shutdownEnd
    BY <2>5 DEF listen, acceptError, mainSelect, signal, shutdownEnd, WaitsForSome, handlers
  <2>6. ASSUME NEW t \in Stoppers, stopperStep(t) PROVE WaitsForSome'
    BY <2>6 DEF stopperStep, shutdownBegin, shutdownReturn, stopBegin, stopReturn, WaitsForSome,
                handlers
  <2>7. CASE UNCHANGED vars
    BY <2>7 DEF vars, WaitsForSome, handlers
  <2> QED  BY <2>1, <2>2, <2>3, <2>4, <2>5, <2>6, <2>7
              DEF Next, serveStep, onceStep, badRequest, respond
<1> QED  BY <1>1, <1>2, ServerInvariant, PTL DEF Spec

=============================================================================
