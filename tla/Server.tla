------------------------------- MODULE Server -------------------------------
(***************************************************************************)
(* The API server and the main goroutine of gvisord                        *)
(* (internal/api/server.go, cmd/gvisord/main.go): Serve's accept loop, one *)
(* goroutine per connection, drain, signals, Stop and the exit of the      *)
(* process. Manager.Shutdown is here a call that takes time and ends       *)
(* (Manager!ShutdownEnds); what the other requests do is in Manager.       *)
(***************************************************************************)
EXTENDS Integers, FiniteSets

CONSTANTS
  Conns,        \* client connections, each with one request
  Drains,       \* the connections whose request is drain
  ListenFails   \* net.Listen may fail

ASSUME ServerAssumption ==
  /\ IsFiniteSet(Conns) /\ Drains \subseteq Conns /\ "main" \notin Conns
  /\ ListenFails \in BOOLEAN

VARIABLES
  serve,     \* control point of Serve
  current,   \* the connections Accept returned and no handler has yet
  listener,  \* s.listener
  conn,      \* a connection, and its handler's control point
  drained,   \* s.drainCh is closed
  shut,      \* the body of Manager.Shutdown (sync.Once)
  stop,      \* the body of Stop (sync.Once)
  at,        \* control point of the goroutines that shut down
  signalled, \* sigCh has a signal
  errCh,     \* errCh has Serve's result
  process    \* "up", or how it ended

vars == <<serve, current, listener, conn, drained, shut, stop, at, signalled, errCh, process>>

\* The main goroutine, and the one each drain request starts.
Stoppers == {"main"} \cup Drains

\* Types: Serve's loop has at most one connection that has no handler yet.
TypeOK ==
  /\ serve     \in {"listen", "accept", "returned"}
  /\ current   \subseteq Conns /\ Cardinality(current) <= 1
  /\ listener  \in {"unset", "open", "closed"}
  /\ conn      \in [Conns -> {"none", "backlog", "accepted", "reading", "handling", "closed"}]
  /\ drained   \in BOOLEAN
  /\ shut      \in {"none", "running", "done"}
  /\ stop      \in {"none", "close", "wait", "blocked", "woken", "done"}
  /\ at        \in [Stoppers -> {"idle", "shutdown", "stop", "done"}]
  /\ signalled \in BOOLEAN
  /\ errCh     \in BOOLEAN
  /\ process   \in {"up", "exited", "panic"}

Init ==
  /\ serve = "listen" /\ current = {} /\ listener = "unset"
  /\ conn = [c \in Conns |-> "none"]
  /\ drained = FALSE /\ shut = "none" /\ stop = "none"
  /\ at = [t \in Stoppers |-> "idle"]
  /\ signalled = FALSE /\ errCh = FALSE /\ process = "up"

-----------------------------------------------------------------------------
(* Serve and handleConn *)

\* s.wg: the handlers that have been added and are not done.
handlers == {c \in Conns : conn[c] \in {"reading", "handling"}}

\* net.Listen, up to the assignment of s.listener.
listen ==
  /\ serve = "listen"
  /\ \/ serve' = "accept" /\ listener' = "open" /\ UNCHANGED errCh
     \/ ListenFails /\ serve' = "returned" /\ errCh' = TRUE /\ UNCHANGED listener
  /\ UNCHANGED <<current, conn, drained, shut, stop, at, signalled, process>>

\* Mutant: Accept goes on before the last connection has its handler.
acceptAhead(c) ==
  /\ serve = "accept" /\ listener = "open" /\ conn[c] = "backlog"
  /\ conn'    = [conn EXCEPT ![c] = "accepted"]
  /\ current' = current \cup {c}
  /\ UNCHANGED <<serve, listener, drained, shut, stop, at, signalled, errCh, process>>

\* Accept returns a connection ...
accept(c) ==
  /\ serve = "accept" /\ listener = "open" /\ current = {} /\ conn[c] = "backlog"
  /\ conn'    = [conn EXCEPT ![c] = "accepted"]
  /\ current' = {c}
  /\ UNCHANGED <<serve, listener, drained, shut, stop, at, signalled, errCh, process>>

\* ... s.wg.Add(1), and its handler starts.
handle(c) ==
  /\ serve = "accept" /\ c \in current
  /\ conn'    = [conn EXCEPT ![c] = "reading"]
  /\ current' = {}
  /\ UNCHANGED <<serve, listener, drained, shut, stop, at, signalled, errCh, process>>

\* Accept fails on the closed listener: Serve returns (drainCh is closed; an
\* error before that is logged and the loop goes on).
acceptError ==
  /\ serve = "accept" /\ listener = "closed" /\ current = {} /\ drained
  /\ serve' = "returned" /\ errCh' = TRUE
  /\ UNCHANGED <<current, listener, conn, drained, shut, stop, at, signalled, process>>

\* s.wg.Done: the last handler releases a Stop blocked in Wait.
handlerDone(c) ==
  /\ conn' = [conn EXCEPT ![c] = "closed"]
  /\ stop' = IF stop = "blocked" /\ handlers = {c} THEN "woken" ELSE stop

\* Decode fails: the client hung up or sent no valid request.
badRequest(c) ==
  /\ conn[c] = "reading"
  /\ handlerDone(c)
  /\ UNCHANGED <<serve, current, listener, drained, shut, at, signalled, errCh, process>>

\* Decode returns a request.
decode(c) ==
  /\ conn[c] = "reading"
  /\ conn' = [conn EXCEPT ![c] = "handling"]
  /\ UNCHANGED <<serve, current, listener, drained, shut, stop, at, signalled, errCh, process>>

\* drain starts the goroutine that shuts down.
handleDrain(c) ==
  /\ c \in Drains /\ conn[c] = "handling" /\ at[c] = "idle"
  /\ at' = [at EXCEPT ![c] = "shutdown"]
  /\ UNCHANGED <<serve, current, listener, conn, drained, shut, stop, signalled, errCh, process>>

\* Mutant: drain shuts down in its own handler and responds afterwards.
respondLast(c) ==
  /\ conn[c] = "handling"
  /\ c \in Drains => at[c] = "done"
  /\ handlerDone(c)
  /\ UNCHANGED <<serve, current, listener, drained, shut, at, signalled, errCh, process>>

\* The handler of the method returns, and the response is sent. (That of a
\* drain is sent while its goroutine is already at work.)
respond(c) ==
  /\ conn[c] = "handling"
  /\ c \in Drains => at[c] # "idle"
  /\ handlerDone(c)
  /\ UNCHANGED <<serve, current, listener, drained, shut, at, signalled, errCh, process>>

-----------------------------------------------------------------------------
(* Shutdown, Stop and main *)

\* main's select: a signal, or Serve returned.
mainSelect ==
  /\ at["main"] = "idle" /\ (signalled \/ errCh)
  /\ at' = [at EXCEPT !["main"] = "shutdown"]
  /\ UNCHANGED <<serve, current, listener, conn, drained, shut, stop, signalled, errCh, process>>

\* mgr.Shutdown under its Once: the first caller runs it, the others wait.
shutdownBegin(t) ==
  /\ at[t] = "shutdown" /\ shut = "none"
  /\ shut' = "running"
  /\ UNCHANGED <<serve, current, listener, conn, drained, stop, at, signalled, errCh, process>>

shutdownEnd ==
  /\ shut = "running"
  /\ shut' = "done"
  /\ UNCHANGED <<serve, current, listener, conn, drained, stop, at, signalled, errCh, process>>

\* Mutant: a flag instead of a Once: a second Shutdown returns at once.
shutdownReturnEarly(t) ==
  /\ at[t] = "shutdown" /\ shut # "none"
  /\ at' = [at EXCEPT ![t] = "stop"]
  /\ UNCHANGED <<serve, current, listener, conn, drained, shut, stop, signalled, errCh, process>>

shutdownReturn(t) ==
  /\ at[t] = "shutdown" /\ shut = "done"
  /\ at' = [at EXCEPT ![t] = "stop"]
  /\ UNCHANGED <<serve, current, listener, conn, drained, shut, stop, signalled, errCh, process>>

\* Stop under its Once: close(s.drainCh) ...
stopBegin(t) ==
  /\ at[t] = "stop" /\ stop = "none"
  /\ drained' = TRUE /\ stop' = "close"
  /\ UNCHANGED <<serve, current, listener, conn, shut, at, signalled, errCh, process>>

\* ... close the listener, if Serve has set it; the backlog is reset ...
stopClose ==
  /\ stop = "close"
  /\ stop' = "wait"
  /\ \/ /\ listener = "open"
        /\ listener' = "closed"
        /\ conn' = [c \in Conns |-> IF conn[c] = "backlog" THEN "closed" ELSE conn[c]]
     \/ listener # "open" /\ UNCHANGED <<listener, conn>>
  /\ UNCHANGED <<serve, current, drained, shut, at, signalled, errCh, process>>

\* Mutant: Stop does not wait.
stopNoWait ==
  /\ stop = "wait"
  /\ stop' = "done"
  /\ UNCHANGED <<serve, current, listener, conn, drained, shut, at, signalled, errCh, process>>

\* ... and s.wg.Wait, which panics if it wakes up to a group in use again.
stopWait ==
  /\ stop \in {"wait", "woken"}
  /\ \/ handlers = {} /\ stop' = "done" /\ UNCHANGED process
     \/ handlers # {} /\ stop = "wait" /\ stop' = "blocked" /\ UNCHANGED process
     \/ handlers # {} /\ stop = "woken" /\ process' = "panic" /\ UNCHANGED stop
  /\ UNCHANGED <<serve, current, listener, conn, drained, shut, at, signalled, errCh>>

\* Mutant: a flag instead of a Once: a second Stop returns at once.
stopReturnEarly(t) ==
  /\ at[t] = "stop" /\ stop # "none"
  /\ at' = [at EXCEPT ![t] = "done"]
  /\ process' = IF t = "main" THEN "exited" ELSE process
  /\ UNCHANGED <<serve, current, listener, conn, drained, shut, stop, signalled, errCh>>

stopReturn(t) ==
  /\ at[t] = "stop" /\ stop = "done"
  /\ at' = [at EXCEPT ![t] = "done"]
  /\ process' = IF t = "main" THEN "exited" ELSE process
  /\ UNCHANGED <<serve, current, listener, conn, drained, shut, stop, signalled, errCh>>

-----------------------------------------------------------------------------
(* The environment *)

connect(c) ==
  /\ conn[c] = "none" /\ listener = "open"
  /\ conn' = [conn EXCEPT ![c] = "backlog"]
  /\ UNCHANGED <<serve, current, listener, drained, shut, stop, at, signalled, errCh, process>>

signal ==
  /\ ~signalled
  /\ signalled' = TRUE
  /\ UNCHANGED <<serve, current, listener, conn, drained, shut, stop, at, errCh, process>>

-----------------------------------------------------------------------------
(* Specification *)

serveStep == listen \/ acceptError \/ \E c \in Conns : accept(c) \/ handle(c)

stopperStep(t) == shutdownBegin(t) \/ shutdownReturn(t) \/ stopBegin(t) \/ stopReturn(t)

onceStep == shutdownEnd \/ stopClose \/ stopWait

Next ==
  /\ process = "up"
  /\ \/ serveStep \/ mainSelect \/ onceStep \/ signal
     \/ \E t \in Stoppers : stopperStep(t)
     \/ \E c \in Conns :
          connect(c) \/ decode(c) \/ badRequest(c) \/ handleDrain(c) \/ respond(c)

Spec == Init /\ [][Next]_vars

\* The goroutines of the daemon run, and every method returns. Nothing makes a
\* client connect, and only ClientsSend makes one send its request.
DaemonFairness ==
  /\ WF_vars(process = "up" /\ serveStep)
  /\ WF_vars(process = "up" /\ mainSelect)
  /\ WF_vars(process = "up" /\ onceStep)
  /\ \A t \in Stoppers : WF_vars(process = "up" /\ stopperStep(t))
  /\ \A c \in Conns : WF_vars(process = "up" /\ (handleDrain(c) \/ respond(c)))

ClientsSend ==
  \A c \in Conns : WF_vars(process = "up" /\ (decode(c) \/ badRequest(c)))

FairSpec == Spec /\ DaemonFairness
PromptSpec == FairSpec /\ ClientsSend

-----------------------------------------------------------------------------
(* Properties *)

\* The process exits only after the pools have been shut down and the server
\* stopped, whichever of the goroutines that call Shutdown and Stop came
\* first.
ExitIsClean == process = "exited" => shut = "done" /\ stop = "done" /\ drained

\* Until then, the listener is closed only by a Stop, and no Stop begins
\* before the pools are shut down.
PoolsFirst == drained \/ listener = "closed" => shut = "done"

\* wg.Add is not ordered with Stop's Wait, so a handler may start after Stop
\* has returned; but only one, that of the connection Accept had just returned
\* when the listener was closed.
AtMostOneLate ==
  stop = "done" /\ listener = "closed" => Cardinality(handlers \cup current) <= 1

\* A drain or a signal takes the whole daemon down.
DrainEnds ==
  (signalled \/ \E c \in Drains : at[c] # "idle") ~> process # "up"

=============================================================================
