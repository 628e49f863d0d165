------------------------------ MODULE Harness ------------------------------
(***************************************************************************)
(* gvisord-exec, the HTTP harness inside a sandbox (cmd/gvisord-exec), and *)
(* the caller on the other end of the connection (Manager.callHarness, or  *)
(* a client that holds the lease itself).                                  *)
(*                                                                         *)
(* A request's child process writes to two pipes that the harness reads    *)
(* one after the other; a deadline kills the child, a process the child    *)
(* started may outlive it. Output is counted in chunks. In a sandbox       *)
(* without an address the code is run by `runsc exec` instead.             *)
(***************************************************************************)
EXTENDS Integers, FiniteSets

CONSTANTS
  Requests,    \* POST /run requests to one harness
  PipeSize,    \* chunks a pipe holds
  Limit,       \* chunks the harness reads of each stream (10 MB, 1 MB)
  ReplyLimit,  \* chunks callHarness reads of the response (12 MB)
  MaxWrites,   \* bound: chunks a request's code writes to a stream
  Forking      \* requests whose code may start processes that outlive it

Streams == {"stdout", "stderr"}

ASSUME HarnessAssumption ==
  /\ PipeSize \in Nat \ {0} /\ MaxWrites \in [Requests -> Nat] /\ Forking \subseteq Requests
  /\ Limit \in [Streams -> Nat \ {0}]
  /\ ReplyLimit \in Nat /\ Limit["stdout"] + Limit["stderr"] <= ReplyLimit

VARIABLES
  ip,       \* the sandbox has an address: ip # "" in callHarness
  proc,     \* the harness process, which is the sandbox's first: "up", "gone"
  exiting,  \* an exit goroutine of handleRun is in its sleep
  pc,       \* control point of handleRun and execute
  child,    \* the child: running, or how it ended
  bg,       \* requests whose child started a process that is still running
  wrote,    \* chunks written to a stream so far
  read,     \* chunks read of it
  late,     \* requests whose timeout has passed
  answer,   \* the type of the response
  caller    \* callHarness: "sent", then "result" or "error"

vars == <<ip, proc, exiting, pc, child, bg, wrote, read, late, answer, caller>>

\* Types; a stream is read after it is written and up to its limit (execute).
TypeOK ==
  /\ ip      \in BOOLEAN
  /\ proc    \in {"up", "gone"} /\ exiting \in BOOLEAN
  /\ pc      \in [Requests -> {"idle", "stdout", "stderr", "wait", "check",
                               "respond", "exec", "done"}]
  /\ child   \in [Requests -> {"none", "running", "zero", "nonzero", "killed"}]
  /\ bg      \subseteq Requests
  /\ \A q \in Requests : wrote[q] \in [Streams -> 0 .. MaxWrites[q]]
  /\ \A q \in Requests, f \in Streams : read[q][f] \in 0 .. wrote[q][f]
  /\ \A q \in Requests, f \in Streams : read[q][f] <= Limit[f]
  /\ late    \subseteq Requests
  /\ answer  \in [Requests -> {"none", "bad", "failed", "success", "error", "timeout"}]
  /\ caller  \in [Requests -> {"idle", "sent", "result", "error"}]

Init ==
  /\ ip \in BOOLEAN
  /\ proc = "up" /\ exiting = FALSE
  /\ pc     = [q \in Requests |-> "idle"]
  /\ child  = [q \in Requests |-> "none"]
  /\ bg = {} /\ late = {}
  /\ wrote  = [q \in Requests |-> [f \in Streams |-> 0]]
  /\ read   = wrote
  /\ answer = [q \in Requests |-> "none"]
  /\ caller = [q \in Requests |-> "idle"]

up == proc = "up"
goto(q, l) == pc' = [pc EXCEPT ![q] = l]
childVars == <<child, bg, wrote>>

-----------------------------------------------------------------------------
(* handleRun *)

\* A wrong method, or a body that cannot be read or parsed, is answered; the
\* harness stays up.
handleBad(q) ==
  /\ ip /\ up /\ pc[q] = "idle" /\ caller[q] = "idle"
  /\ caller' = [caller EXCEPT ![q] = "sent"]
  /\ answer' = [answer EXCEPT ![q] = "bad"]
  /\ goto(q, "respond")
  /\ UNCHANGED <<ip, proc, exiting, childVars, read, late>>

\* execute: the child starts in a process group of its own, or a pipe or
\* Start fails.
handleRun(q) ==
  /\ ip /\ up /\ pc[q] = "idle" /\ caller[q] = "idle"
  /\ caller' = [caller EXCEPT ![q] = "sent"]
  /\ \/ /\ child' = [child EXCEPT ![q] = "running"]
        /\ goto(q, "stdout")
        /\ UNCHANGED answer
     \/ /\ answer' = [answer EXCEPT ![q] = "failed"]
        /\ goto(q, "respond")
        /\ UNCHANGED child
  /\ UNCHANGED <<ip, proc, exiting, bg, wrote, read, late>>

\* JSON escapes a byte of output as one or as several.
replySizes(q) ==
  LET raw == read[q]["stdout"] + read[q]["stderr"] IN raw .. 2 * raw

\* writeJSON; the handler returns, which flushes the response, well within
\* the 50 ms that the exit goroutine sleeps. A response longer than
\* ReplyLimit reaches callHarness as half a JSON text.
respond(q) ==
  /\ up /\ pc[q] = "respond"
  /\ goto(q, "done")
  /\ exiting' = (exiting \/ answer[q] # "bad")
  /\ \/ /\ caller[q] = "sent"
        /\ \E size \in replySizes(q) :
             caller' = [caller EXCEPT ![q] = IF size <= ReplyLimit THEN "result" ELSE "error"]
     \/ /\ caller[q] # "sent"
        /\ UNCHANGED caller
  /\ UNCHANGED <<ip, proc, childVars, read, late, answer>>

\* os.Exit(0) after the sleep; or SIGTERM from a recycle, on which
\* ListenAndServe returns and main with it, whatever Shutdown still waits for.
exit ==
  /\ up /\ exiting
  /\ proc' = "gone"
  /\ UNCHANGED <<ip, exiting, pc, childVars, read, late, answer, caller>>

terminate ==
  /\ up
  /\ proc' = "gone"
  /\ UNCHANGED <<ip, exiting, pc, childVars, read, late, answer, caller>>

-----------------------------------------------------------------------------
(* execute *)

\* A process of the group has the pipes open for writing.
open(q) == child[q] = "running" \/ q \in bg

\* Mutant: io.ReadAll without the LimitReader.
readChunkUnlimited(q) ==
  LET f == pc[q]
  IN  /\ up /\ f \in Streams
      /\ read[q][f] < wrote[q][f]
      /\ read' = [read EXCEPT ![q][f] = @ + 1]
      /\ UNCHANGED <<ip, proc, exiting, pc, childVars, late, answer, caller>>

\* io.ReadAll(io.LimitReader(...)) on the stream the code is at: a chunk, or
\* its end (limit or end of file).
readChunk(q) ==
  LET f == pc[q]
  IN  /\ up /\ f \in Streams
      /\ read[q][f] < wrote[q][f] /\ read[q][f] < Limit[f]
      /\ read' = [read EXCEPT ![q][f] = @ + 1]
      /\ UNCHANGED <<ip, proc, exiting, pc, childVars, late, answer, caller>>

\* Mutant: the reader takes an empty pipe for the end of the file.
readEndEmpty(q) ==
  LET f == pc[q]
  IN  /\ up /\ f \in Streams
      /\ read[q][f] = wrote[q][f] \/ read[q][f] = Limit[f]
      /\ goto(q, IF f = "stdout" THEN "stderr" ELSE "wait")
      /\ UNCHANGED <<ip, proc, exiting, childVars, read, late, answer, caller>>

readEnd(q) ==
  LET f == pc[q]
  IN  /\ up /\ f \in Streams
      /\ \/ read[q][f] = Limit[f]
         \/ read[q][f] = wrote[q][f] /\ ~open(q)
      /\ goto(q, IF f = "stdout" THEN "stderr" ELSE "wait")
      /\ UNCHANGED <<ip, proc, exiting, childVars, read, late, answer, caller>>

\* cmd.Wait
cmdWait(q) ==
  /\ up /\ pc[q] = "wait" /\ child[q] # "running"
  /\ goto(q, "check")
  /\ UNCHANGED <<ip, proc, exiting, childVars, read, late, answer, caller>>

\* Mutants: the exit status is looked at before the deadline; only the child
\* is killed, not its group.
checkStatusFirst(q) ==
  /\ up /\ pc[q] = "check"
  /\ goto(q, "respond")
  /\ \/ /\ child[q] = "zero"
        /\ answer' = [answer EXCEPT ![q] = "success"]
     \/ /\ child[q] # "zero"
        /\ answer' = [answer EXCEPT ![q] = "error"]
  /\ UNCHANGED <<ip, proc, exiting, childVars, read, late, caller>>

checkKillsChild(q) ==
  /\ up /\ pc[q] = "check"
  /\ goto(q, "respond")
  /\ answer' = [answer EXCEPT ![q] = IF q \in late THEN "timeout"
                                     ELSE IF child[q] = "zero" THEN "success" ELSE "error"]
  /\ UNCHANGED <<ip, proc, exiting, childVars, read, late, caller>>

\* The deadline comes first: whatever is left of the group is killed. An error
\* of Wait that is no exit status is answered without the output.
check(q) ==
  /\ up /\ pc[q] = "check"
  /\ goto(q, "respond")
  /\ \/ /\ q \in late
        /\ bg' = bg \ {q}
        /\ answer' = [answer EXCEPT ![q] = "timeout"]
     \/ /\ q \notin late /\ child[q] = "zero"
        /\ answer' = [answer EXCEPT ![q] = "success"]
        /\ UNCHANGED bg
     \/ /\ q \notin late /\ child[q] # "zero"
        /\ answer' = [answer EXCEPT ![q] = "error"]
        /\ UNCHANGED bg
     \/ /\ q \notin late
        /\ answer' = [answer EXCEPT ![q] = "failed"]
        /\ UNCHANGED bg
  /\ UNCHANGED <<ip, proc, exiting, child, wrote, read, late, caller>>

\* The timeout of a request passes, for the harness and for its caller; a
\* `runsc exec` has none.
deadline(q) ==
  /\ ip /\ caller[q] # "idle" /\ pc[q] # "done" /\ q \notin late
  /\ late' = late \cup {q}
  /\ UNCHANGED <<ip, proc, exiting, pc, childVars, read, answer, caller>>

\* Mutant: the deadline is looked at only after the reads.
killChildLate(q) ==
  /\ up /\ q \in late /\ child[q] = "running" /\ pc[q] = "wait"
  /\ child' = [child EXCEPT ![q] = "killed"]
  /\ UNCHANGED <<ip, proc, exiting, pc, bg, wrote, read, late, answer, caller>>

\* CommandContext kills the child, and only the child.
killChild(q) ==
  /\ up /\ q \in late /\ child[q] = "running"
  /\ child' = [child EXCEPT ![q] = "killed"]
  /\ UNCHANGED <<ip, proc, exiting, pc, bg, wrote, read, late, answer, caller>>

-----------------------------------------------------------------------------
(* The code that is run, and the caller *)

\* A write blocks on a full pipe; once Wait has closed the pipes it fails.
childWrite(q, f) ==
  /\ up /\ open(q) /\ pc[q] \in {"stdout", "stderr", "wait"}
  /\ wrote[q][f] < MaxWrites[q] /\ wrote[q][f] - read[q][f] < PipeSize
  /\ wrote' = [wrote EXCEPT ![q][f] = @ + 1]
  /\ UNCHANGED <<ip, proc, exiting, pc, child, bg, read, late, answer, caller>>

childExit(q) ==
  /\ up /\ child[q] = "running"
  /\ \E status \in {"zero", "nonzero"} : child' = [child EXCEPT ![q] = status]
  /\ UNCHANGED <<ip, proc, exiting, pc, bg, wrote, read, late, answer, caller>>

childFork(q) ==
  /\ up /\ q \in Forking /\ child[q] = "running" /\ q \notin bg
  /\ bg' = bg \cup {q}
  /\ UNCHANGED <<ip, proc, exiting, pc, child, wrote, read, late, answer, caller>>

bgExit(q) ==
  /\ up /\ q \in bg
  /\ bg' = bg \ {q}
  /\ UNCHANGED <<ip, proc, exiting, pc, child, wrote, read, late, answer, caller>>

\* Mutant: the caller waits for a response of a harness that is up.
callerGivesUpOnReset(q) ==
  /\ ip /\ caller[q] = "sent" /\ ~up
  /\ caller' = [caller EXCEPT ![q] = "error"]
  /\ UNCHANGED <<ip, proc, exiting, pc, childVars, read, late, answer>>

\* http.Client.Timeout is five seconds longer than the request's timeout; a
\* harness that is gone has reset the connection.
callerGivesUp(q) ==
  /\ ip /\ caller[q] = "sent" /\ (q \in late \/ ~up)
  /\ caller' = [caller EXCEPT ![q] = "error"]
  /\ UNCHANGED <<ip, proc, exiting, pc, childVars, read, late, answer>>

-----------------------------------------------------------------------------
(* callHarnessViaExec, without an address *)

\* runsc starts the code in the sandbox, or it cannot and that is the result;
\* it is an error if Run's lookup had not found the sentry.
execStart(q) ==
  /\ ~ip /\ pc[q] = "idle" /\ caller[q] = "idle"
  /\ \/ /\ up
        /\ caller' = [caller EXCEPT ![q] = "sent"]
        /\ child'  = [child EXCEPT ![q] = "running"]
        /\ goto(q, "exec")
     \/ /\ \E outcome \in {"result", "error"} : caller' = [caller EXCEPT ![q] = outcome]
        /\ goto(q, "done")
        /\ UNCHANGED child
  /\ UNCHANGED <<ip, proc, exiting, bg, wrote, read, late, answer>>

\* runsc exec ends with its process, or with the sandbox; its output goes to
\* files, which a process in the background does not hold up.
execReturn(q) ==
  /\ pc[q] = "exec" /\ (child[q] # "running" \/ ~up)
  /\ caller' = [caller EXCEPT ![q] = "result"]
  /\ goto(q, "done")
  /\ UNCHANGED <<ip, proc, exiting, childVars, read, late, answer>>

-----------------------------------------------------------------------------
(* Specification *)

handlerStep(q) == respond(q) \/ readChunk(q) \/ readEnd(q) \/ cmdWait(q) \/ check(q)

codeStep(q) ==
  (\E f \in Streams : childWrite(q, f)) \/ childExit(q) \/ childFork(q) \/ bgExit(q)

Next ==
  \/ \E q \in Requests :
       \/ handleBad(q) \/ handleRun(q) \/ handlerStep(q) \/ deadline(q)
       \/ killChild(q) \/ codeStep(q) \/ callerGivesUp(q) \/ execStart(q) \/ execReturn(q)
  \/ exit
  \/ terminate

\* Goroutines run and timers fire. Nothing is assumed of the code that is
\* run: it may write, fork and hang as it likes.
Fairness ==
  /\ \A q \in Requests :
       /\ WF_vars(handlerStep(q))
       /\ WF_vars(deadline(q))
       /\ WF_vars(killChild(q))
       /\ WF_vars(callerGivesUp(q))
       /\ WF_vars(execReturn(q))
  /\ WF_vars(exit)

Spec == Init /\ [][Next]_vars /\ Fairness

-----------------------------------------------------------------------------
(* Properties *)

executed(q) == answer[q] \in {"success", "error", "timeout"}

\* An answer has everything the code wrote to each stream, up to the limits,
\* although the child may be long gone: Wait, which closes the pipes, comes
\* after both reads, and an end of file means that no writer is left.
FullOutput ==
  \A q \in Requests : executed(q) => \A f \in Streams :
    read[q][f] = IF wrote[q][f] < Limit[f] THEN wrote[q][f] ELSE Limit[f]

\* A child that the deadline killed is never reported as one that ended by
\* itself, however the kill, the end of the pipes and Wait interleave.
KilledIsTimeout ==
  \A q \in Requests : executed(q) /\ child[q] = "killed" => answer[q] = "timeout"

\* After a timeout is answered nothing of the request's process group runs
\* any more, not even a process that kept the pipes open.
NoSurvivor ==
  \A q \in Requests : up /\ answer[q] = "timeout" => ~open(q)

\* The two pipes are read one after the other, so the child may wait for the
\* harness (to read stderr) while the harness waits for the child (to close
\* stdout): the deadline ends it. Every request is answered or the harness is
\* gone, unless a process in the background keeps a pipe open for ever.
Answered ==
  \A q \in Requests :
    <>[](q \notin bg) => (pc[q] \notin {"idle", "exec"} ~> pc[q] = "done" \/ proc = "gone")

\* callHarness returns, whatever the code in the sandbox does, with one
\* exception: without an address nothing ends code that runs for ever, as
\* callHarnessViaExec passes no timeout on.
RunReturns ==
  \A q \in Requests :
    \/ caller[q] = "sent" ~> caller[q] \in {"result", "error"}
    \/ <>[](~ip /\ up /\ child[q] = "running")

=============================================================================
