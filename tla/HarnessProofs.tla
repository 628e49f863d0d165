---------------------------- MODULE HarnessProofs ----------------------------
(***************************************************************************)
(* Theorems about Harness: what an answer says of the output, the end and  *)
(* the process group of the code that was run, for any number of requests, *)
(* any pipe size and any limits.                                           *)
(***************************************************************************)
EXTENDS Harness, TLAPS

USE HarnessAssumption DEF Streams

\* Types, with the domains of the two counters.
TypeInv ==
  /\ ip      \in BOOLEAN
  /\ proc    \in {"up", "gone"} /\ exiting \in BOOLEAN
  /\ pc      \in [Requests -> {"idle", "stdout", "stderr", "wait", "check",
                               "respond", "exec", "done"}]
  /\ child   \in [Requests -> {"none", "running", "zero", "nonzero", "killed"}]
  /\ bg      \subseteq Requests
  /\ wrote   \in [Requests -> [Streams -> Nat]]
  /\ read    \in [Requests -> [Streams -> Nat]]
  /\ late    \subseteq Requests
  /\ answer  \in [Requests -> {"none", "bad", "failed", "success", "error", "timeout"}]
  /\ caller  \in [Requests -> {"idle", "sent", "result", "error"}]

\* What was read is a prefix of what was written, up to the limit.
CountInv ==
  \A q \in Requests, f \in Streams :
    read[q][f] <= wrote[q][f] /\ read[q][f] <= Limit[f] /\ wrote[q][f] <= MaxWrites[q]

\* A stream that was read to its end: the limit is reached, or nobody is left
\* to write to it.
settled(q, f) == read[q][f] = Limit[f] \/ (read[q][f] = wrote[q][f] /\ ~open(q))

\* The control points behind the reads of a stream.
past(f) ==
  {"wait", "check", "respond", "done"} \cup (IF f = "stdout" THEN {"stderr"} ELSE {})

\* A request that has a child goes through execute in order: both reads, then
\* Wait, then the deadline, then the exit status. Without an address the
\* harness answers nothing.
OrderInv ==
  \A q \in Requests :
    /\ child[q] = "none" => q \notin bg /\ pc[q] \in {"idle", "respond", "done"} /\ ~executed(q)
    /\ pc[q] = "idle" => child[q] = "none"
    /\ executed(q) => pc[q] \in {"respond", "done"}
    /\ ~ip => pc[q] \in {"idle", "exec", "done"} /\ ~executed(q)
    /\ pc[q] = "exec" => ~ip
    /\ ip /\ pc[q] \in {"check", "respond", "done"} => child[q] # "running"
    /\ \A f \in Streams : ip /\ child[q] # "none" /\ pc[q] \in past(f) => settled(q, f)

\* Only the deadline kills, and what it finds alive it kills before the answer.
DeadlineInv ==
  \A q \in Requests :
    /\ child[q] = "killed" => q \in late
    /\ executed(q) /\ child[q] = "killed" => answer[q] = "timeout"
    /\ answer[q] = "timeout" => q \notin bg

\* The inductive invariant.
HarnessInv == TypeInv /\ CountInv /\ OrderInv /\ DeadlineInv

\* Before the first request there is no child and no output.
LEMMA InitInv == Init => HarnessInv
<1> SUFFICES ASSUME Init PROVE HarnessInv
  OBVIOUS
<1>1. \A q \in Requests, f \in Streams : read[q][f] = 0 /\ wrote[q][f] = 0
  BY DEF Init
<1>2. TypeInv
  BY DEF Init, TypeInv
<1>3. CountInv
  <2>1. \A q \in Requests, f \in Streams : Limit[f] \in Nat /\ MaxWrites[q] \in Nat
    OBVIOUS
  <2> QED  BY <1>1, <2>1 DEF CountInv
<1>4. OrderInv /\ DeadlineInv
  BY DEF Init, OrderInv, DeadlineInv, executed
<1> QED  BY <1>2, <1>3, <1>4 DEF HarnessInv

\* Types are kept by every step.
LEMMA TypeStep ==
  ASSUME HarnessInv, [Next]_vars PROVE TypeInv'
<1> USE DEF HarnessInv, TypeInv, childVars, goto
<1>1. ASSUME NEW q \in Requests, handleBad(q) \/ handleRun(q) PROVE TypeInv'
  <2>1. CASE handleBad(q)
    BY <2>1 DEF handleBad
  <2>2. CASE handleRun(q)
    <3>1. pc' \in [Requests -> {"idle", "stdout", "stderr", "wait", "check", "respond", "exec", "done"}]
      BY <2>2, SMTT(30) DEF handleRun
    <3>2. answer' \in [Requests -> {"none", "bad", "failed", "success", "error", "timeout"}]
      BY <2>2 DEF handleRun
    <3>3. child' \in [Requests -> {"none", "running", "zero", "nonzero", "killed"}]
      BY <2>2 DEF handleRun
    <3>4. caller' \in [Requests -> {"idle", "sent", "result", "error"}]
      BY <2>2 DEF handleRun
    <3> QED  BY <2>2, <3>1, <3>2, <3>3, <3>4 DEF handleRun
  <2> QED  BY <1>1, <2>1, <2>2
<1>2. ASSUME NEW q \in Requests, respond(q) PROVE TypeInv'
  BY <1>2 DEF respond
<1>3. ASSUME NEW q \in Requests, readChunk(q) PROVE TypeInv'
  BY <1>3 DEF readChunk
<1>4. ASSUME NEW q \in Requests, readEnd(q) \/ cmdWait(q) \/ check(q) PROVE TypeInv'
  <2>1. CASE readEnd(q) \/ cmdWait(q)
    BY <2>1 DEF readEnd, cmdWait
  <2>2. CASE check(q)
    <3>1. answer' \in [Requests -> {"none", "bad", "failed", "success", "error", "timeout"}]
      BY <2>2, SMTT(30) DEF check
    <3>2. bg' \subseteq Requests
      BY <2>2 DEF check
    <3>3. pc' \in [Requests -> {"idle", "stdout", "stderr", "wait", "check", "respond", "exec", "done"}]
      BY <2>2 DEF check
    <3> QED  BY <2>2, <3>1, <3>2, <3>3 DEF check
  <2> QED  BY <1>4, <2>1, <2>2
<1>5. ASSUME NEW q \in Requests, deadline(q) \/ killChild(q) \/ callerGivesUp(q) PROVE TypeInv'
  <2>1. CASE deadline(q)
    BY <2>1 DEF deadline
  <2>2. CASE killChild(q)
    BY <2>2 DEF killChild
  <2>3. CASE callerGivesUp(q)
    BY <2>3 DEF callerGivesUp
  <2> QED  BY <1>5, <2>1, <2>2, <2>3
<1>6. ASSUME NEW q \in Requests, NEW f \in Streams, childWrite(q, f) PROVE TypeInv'
  BY <1>6 DEF childWrite
<1>7. ASSUME NEW q \in Requests, childExit(q) \/ childFork(q) \/ bgExit(q) PROVE TypeInv'
  BY <1>7 DEF childExit, childFork, bgExit
<1>8. CASE exit \/ terminate
  BY <1>8 DEF exit, terminate
<1>9. CASE UNCHANGED vars
  BY <1>9 DEF vars
<1>10. ASSUME NEW q \in Requests, execStart(q) \/ execReturn(q) PROVE TypeInv'
  <2>1. pc' \in [Requests -> {"idle", "stdout", "stderr", "wait", "check", "respond", "exec", "done"}]
    BY <1>10, SMTT(30) DEF execStart, execReturn
  <2>2. child' \in [Requests -> {"none", "running", "zero", "nonzero", "killed"}]
    BY <1>10, SMTT(30) DEF execStart, execReturn
  <2>3. caller' \in [Requests -> {"idle", "sent", "result", "error"}]
    BY <1>10, SMTT(30) DEF execStart, execReturn
  <2> QED  BY <1>10, <2>1, <2>2, <2>3 DEF execStart, execReturn
<1> QED  BY <1>1, <1>2, <1>3, <1>4, <1>5, <1>6, <1>7, <1>8, <1>9, <1>10 DEF Next, handlerStep, codeStep

\* Accepting a request, with a child or without, settles nothing yet.
LEMMA HandleInv ==
  ASSUME HarnessInv, NEW q \in Requests, handleBad(q) \/ handleRun(q)
  PROVE  CountInv' /\ OrderInv' /\ DeadlineInv'
BY DEF HarnessInv, TypeInv, CountInv, OrderInv, DeadlineInv, handleBad, handleRun, goto, childVars,
       executed, past, settled, open

\* A read is below what was written and below the limit, on a stream that is
\* not settled.
LEMMA ReadChunkInv ==
  ASSUME HarnessInv, NEW q \in Requests, readChunk(q)
  PROVE  CountInv' /\ OrderInv' /\ DeadlineInv'
<1> DEFINE f == pc[q]
<1>1. /\ f \in Streams /\ read[q][f] < wrote[q][f] /\ read[q][f] < Limit[f]
      /\ \A p \in Requests, g \in Streams :
           read'[p][g] = IF p = q /\ g = f THEN read[q][f] + 1 ELSE read[p][g]
      /\ UNCHANGED <<ip, pc, child, bg, wrote, late, answer>>
  BY DEF readChunk, childVars, HarnessInv, TypeInv
<1>2. CountInv'
  BY <1>1 DEF HarnessInv, TypeInv, CountInv
<1>3. DeadlineInv'
  BY <1>1 DEF HarnessInv, DeadlineInv, executed
<1>4. ASSUME NEW p \in Requests, NEW g \in Streams, ip, child[p] # "none", pc[p] \in past(g)
      PROVE  settled(p, g)'
  <2>1. ~(p = q /\ g = f)
    BY <1>1, <1>4 DEF past
  <2>2. settled(p, g)
    BY <1>4 DEF HarnessInv, OrderInv
  <2> QED  BY <1>1, <2>1, <2>2 DEF settled, open
<1>5. OrderInv'
  BY <1>1, <1>4 DEF HarnessInv, OrderInv, executed, past
<1> QED  BY <1>2, <1>3, <1>5

\* A write is on a stream whose reader has not seen the end of the file.
LEMMA WriteInv ==
  ASSUME HarnessInv, NEW q \in Requests, NEW f \in Streams, childWrite(q, f)
  PROVE  CountInv' /\ OrderInv' /\ DeadlineInv'
<1>1. /\ open(q) /\ wrote[q][f] < MaxWrites[q]
      /\ \A p \in Requests, g \in Streams :
           wrote'[p][g] = IF p = q /\ g = f THEN wrote[q][f] + 1 ELSE wrote[p][g]
      /\ UNCHANGED <<ip, pc, child, bg, read, late, answer>>
  BY DEF childWrite, HarnessInv, TypeInv
<1>2. CountInv'
  BY <1>1 DEF HarnessInv, TypeInv, CountInv
<1>3. DeadlineInv'
  BY <1>1 DEF HarnessInv, DeadlineInv, executed
<1>4. ASSUME NEW p \in Requests, NEW g \in Streams, ip, child[p] # "none", pc[p] \in past(g)
      PROVE  settled(p, g)'
  <2>1. settled(p, g)
    BY <1>4 DEF HarnessInv, OrderInv
  <2> QED  BY <1>1, <2>1 DEF settled, open
<1>5. OrderInv'
  BY <1>1, <1>4 DEF HarnessInv, OrderInv, executed, past
<1> QED  BY <1>2, <1>3, <1>5

\* The end of a read, and Wait: each stream is settled before the code goes on.
LEMMA ReadEndInv ==
  ASSUME HarnessInv, NEW q \in Requests, readEnd(q) \/ cmdWait(q)
  PROVE  CountInv' /\ OrderInv' /\ DeadlineInv'
<1>1. UNCHANGED <<ip, child, bg, wrote, read, late, answer>>
  BY DEF readEnd, cmdWait, childVars
<1>2. CountInv' /\ DeadlineInv'
  BY <1>1 DEF HarnessInv, CountInv, DeadlineInv, executed
<1>3. \A p \in Requests, g \in Streams : settled(p, g) => settled(p, g)'
  BY <1>1 DEF settled, open
<1>4. CASE readEnd(q)
  <2>1. settled(q, pc[q]) /\ pc[q] \in Streams
        /\ pc' = [pc EXCEPT ![q] = IF pc[q] = "stdout" THEN "stderr" ELSE "wait"]
    BY <1>4 DEF readEnd, goto, settled
  <2> QED  BY <1>1, <1>2, <1>3, <2>1 DEF HarnessInv, TypeInv, OrderInv, executed, past
<1>5. CASE cmdWait(q)
  BY <1>1, <1>2, <1>3, <1>5 DEF HarnessInv, TypeInv, OrderInv, executed, past, cmdWait, goto
<1> QED  BY <1>4, <1>5

\* The deadline is looked at before the exit status, and what is left of the
\* group is killed with it.
LEMMA CheckInv ==
  ASSUME HarnessInv, NEW q \in Requests, check(q) \/ respond(q)
  PROVE  CountInv' /\ OrderInv' /\ DeadlineInv'
<1>1. UNCHANGED <<ip, child, wrote, read, late>> /\ bg' \subseteq bg
  BY DEF check, respond, childVars
<1>2. CountInv'
  BY <1>1 DEF HarnessInv, CountInv
<1>3. \A p \in Requests, g \in Streams : settled(p, g) => settled(p, g)'
  BY <1>1 DEF settled, open
<1>4. CASE check(q)
  <2>1. OrderInv'
    BY <1>1, <1>3, <1>4 DEF HarnessInv, TypeInv, OrderInv, executed, past, check, goto
  <2>2. DeadlineInv'
    BY <1>4 DEF HarnessInv, TypeInv, OrderInv, DeadlineInv, executed, check
  <2> QED  BY <1>2, <2>1, <2>2
<1>5. CASE respond(q)
  <2>1. OrderInv'
    BY <1>1, <1>3, <1>5 DEF HarnessInv, TypeInv, OrderInv, executed, past, respond, goto, childVars
  <2>2. DeadlineInv'
    BY <1>5 DEF HarnessInv, DeadlineInv, executed, respond, childVars
  <2> QED  BY <1>2, <2>1, <2>2
<1> QED  BY <1>4, <1>5

\* The child and what it starts: nothing opens a pipe again once it is closed.
LEMMA ProcessInv ==
  ASSUME HarnessInv, NEW q \in Requests,
         deadline(q) \/ killChild(q) \/ childExit(q) \/ childFork(q) \/ bgExit(q)
  PROVE  CountInv' /\ OrderInv' /\ DeadlineInv'
<1>1. UNCHANGED <<ip, pc, wrote, read, answer>>
  BY DEF deadline, killChild, childExit, childFork, bgExit, childVars
<1>2. CountInv'
  BY <1>1 DEF HarnessInv, CountInv
<1>3. \A p \in Requests : open(p)' => open(p)
  BY DEF deadline, killChild, childExit, childFork, bgExit, childVars, HarnessInv, TypeInv, open
<1>4. \A p \in Requests, g \in Streams : settled(p, g) => settled(p, g)'
  BY <1>1, <1>3 DEF settled
<1>5. \A p \in Requests :
        /\ child'[p] = child[p] \/ (child[p] = "running" /\ child'[p] \in {"zero", "nonzero", "killed"})
        /\ p \in bg' => p \in bg \/ child[p] = "running"
        /\ p \in late => p \in late'
        /\ child'[p] = "killed" => child[p] = "killed" \/ p \in late
  BY DEF deadline, killChild, childExit, childFork, bgExit, childVars, HarnessInv, TypeInv
<1>6. OrderInv'
  BY <1>1, <1>4, <1>5, SMTT(30) DEF HarnessInv, TypeInv, OrderInv, executed, past
<1>7. DeadlineInv'
  BY <1>1, <1>5 DEF HarnessInv, TypeInv, OrderInv, DeadlineInv, executed
<1> QED  BY <1>2, <1>6, <1>7

\* A `runsc exec` has neither pipes nor an answer of the harness.
LEMMA ExecInv ==
  ASSUME HarnessInv, NEW q \in Requests, execStart(q) \/ execReturn(q)
  PROVE  CountInv' /\ OrderInv' /\ DeadlineInv'
<1>1. UNCHANGED <<ip, bg, wrote, read, late, answer>> /\ ~ip
  BY DEF execStart, execReturn, childVars, HarnessInv, OrderInv
<1>2. CountInv'
  BY <1>1 DEF HarnessInv, CountInv
<1>3. OrderInv'
  BY <1>1, SMTT(30) DEF HarnessInv, TypeInv, OrderInv, executed, execStart, execReturn, childVars, goto
<1>4. DeadlineInv'
  BY <1>1, SMTT(30) DEF HarnessInv, TypeInv, OrderInv, DeadlineInv, executed, execStart, execReturn, childVars
<1> QED  BY <1>2, <1>3, <1>4

\* HarnessInv is an invariant of the harness.
THEOREM HarnessInvariant == Spec => []HarnessInv
<1>1. HarnessInv /\ [Next]_vars => HarnessInv'
  <2> SUFFICES ASSUME HarnessInv, [Next]_vars PROVE CountInv' /\ OrderInv' /\ DeadlineInv'
    BY TypeStep DEF HarnessInv
  <2>1. ASSUME UNCHANGED <<ip, pc, child, bg, wrote, read, late, answer>>
        PROVE  CountInv' /\ OrderInv' /\ DeadlineInv'
    BY <2>1 DEF HarnessInv, CountInv, OrderInv, DeadlineInv, executed, past, settled, open
  <2>2. CASE exit \/ terminate \/ UNCHANGED vars
    BY <2>1, <2>2 DEF exit, terminate, vars, childVars
  <2>3. ASSUME NEW q \in Requests, callerGivesUp(q)
        PROVE  CountInv' /\ OrderInv' /\ DeadlineInv'
    BY <2>1, <2>3 DEF callerGivesUp, childVars
  <2> QED  BY <2>2, <2>3, HandleInv, ReadChunkInv, WriteInv, ReadEndInv, CheckInv, ProcessInv, ExecInv
              DEF Next, handlerStep, codeStep
<1> QED  BY <1>1, InitInv, PTL DEF Spec

\* Types and the counters: nothing is read that was not written, or beyond
\* the limit of its stream.
THEOREM HarnessTypes == Spec => []TypeOK
<1>1. HarnessInv => TypeOK
  BY DEF HarnessInv, TypeInv, CountInv, TypeOK
<1> QED  BY <1>1, HarnessInvariant, PTL

\* An answer has all the output, up to the limits.
THEOREM OutputComplete == Spec => []FullOutput
<1>1. HarnessInv => FullOutput
  <2> SUFFICES ASSUME HarnessInv, NEW q \in Requests, executed(q), NEW f \in Streams
               PROVE  read[q][f] = IF wrote[q][f] < Limit[f] THEN wrote[q][f] ELSE Limit[f]
    BY DEF FullOutput
  <2>1. settled(q, f)
    BY DEF HarnessInv, OrderInv, past
  <2>2. read[q][f] \in Nat /\ wrote[q][f] \in Nat /\ Limit[f] \in Nat
    BY DEF HarnessInv, TypeInv
  <2>3. read[q][f] <= wrote[q][f] /\ read[q][f] <= Limit[f]
    BY DEF HarnessInv, CountInv
  <2> QED  BY <2>1, <2>2, <2>3 DEF settled
<1> QED  BY <1>1, HarnessInvariant, PTL

\* A child that the deadline killed is reported as a timeout.
THEOREM KillReported == Spec => []KilledIsTimeout
<1>1. HarnessInv => KilledIsTimeout
  BY DEF HarnessInv, DeadlineInv, KilledIsTimeout
<1> QED  BY <1>1, HarnessInvariant, PTL

\* A timeout is answered when nothing of the process group runs any more.
THEOREM GroupDead == Spec => []NoSurvivor
<1>1. HarnessInv => NoSurvivor
  BY DEF HarnessInv, OrderInv, DeadlineInv, NoSurvivor, executed, open
<1> QED  BY <1>1, HarnessInvariant, PTL

=============================================================================
