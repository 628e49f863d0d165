------------------------------- MODULE Runsc -------------------------------
(***************************************************************************)
(* runsc.Client.run (internal/runsc/runsc.go): how concurrent callers of   *)
(* one Client build the argument lists of their runsc commands.            *)
(*                                                                         *)
(* c.extraFlags is a Go slice that every call appends to. An append that   *)
(* fits the capacity writes into the backing array all calls share; one    *)
(* that does not copies the elements into a new array. Two calls that      *)
(* touch the array at the same time race, and each read then yields one of *)
(* the values written.                                                     *)
(***************************************************************************)
EXTENDS Integers, Sequences

CONSTANTS
  Calls,       \* concurrent invocations of run
  ExtraFlags   \* runsc.extra_flags of the configuration

WarmFlag == "--warm-sentry"

ASSUME RunscAssumption == ExtraFlags \in Seq(STRING)

VARIABLES
  array,   \* the backing array of c.extraFlags
  pc,      \* control point of a call
  shared,  \* calls whose cmdArgs still is a slice of that array
  length,  \* len(cmdArgs)
  own,     \* the elements of cmdArgs once it has an array of its own
  cmd      \* the arguments runsc was started with

vars == <<array, pc, shared, length, own, cmd>>

\* An argument: a flag of the configuration, or one a call adds.
flag(f) == <<f, "config">>
root(c) == <<"--root", c>>
\* The shortest argument list any method of Client passes: a verb and an ID.
args(c) == << <<"verb", c>>, <<"id", c>> >>

-----------------------------------------------------------------------------
(* NewClient *)

isFlag(f) == f # WarmFlag

\* The loop over extraFlags.
keep(flags, f) == IF isFlag(f) THEN Append(flags, f) ELSE flags

filtered ==
  LET kept[n \in 0 .. Len(ExtraFlags)] ==
        IF n = 0 THEN << >> ELSE keep(kept[n - 1], ExtraFlags[n])
  IN  kept[Len(ExtraFlags)]

\* Mutant: room for the root and the arguments, to save allocations.
capacityRoomy == Len(ExtraFlags) + 3

\* make([]string, 0, len(extraFlags)): room for the flag that is dropped.
capacity == Len(ExtraFlags)

Empty == <<"", "config">>

Init ==
  /\ array  = [i \in 1 .. capacity |->
                 IF i <= Len(filtered) THEN flag(filtered[i]) ELSE Empty]
  /\ pc     = [c \in Calls |-> "start"]
  /\ shared = [c \in Calls |-> TRUE]
  /\ length = [c \in Calls |-> Len(filtered)]
  /\ own    = [c \in Calls |-> <<>>]
  /\ cmd    = [c \in Calls |-> <<>>]

-----------------------------------------------------------------------------
(* run *)

\* The elements of c's slice now.
elements(c) == IF shared[c] THEN [i \in 1 .. length[c] |-> array[i]] ELSE own[c]

\* cmdArgs = append(cmdArgs, elems...)
append(c, elems) ==
  LET n == length[c] + Len(elems)
  IN  /\ length' = [length EXCEPT ![c] = n]
      /\ \/ /\ shared[c] /\ n <= capacity
            /\ array' = [i \in 1 .. capacity |->
                           IF i \in length[c] + 1 .. n THEN elems[i - length[c]] ELSE array[i]]
            /\ UNCHANGED <<shared, own>>
         \/ /\ ~shared[c] \/ n > capacity
            /\ own'    = [own EXCEPT ![c] = elements(c) \o elems]
            /\ shared' = [shared EXCEPT ![c] = FALSE]
            /\ UNCHANGED array

appendRoot(c) ==
  /\ pc[c] = "start"
  /\ append(c, <<root(c)>>)
  /\ pc' = [pc EXCEPT ![c] = "root"]
  /\ UNCHANGED cmd

appendArgs(c) ==
  /\ pc[c] = "root"
  /\ append(c, args(c))
  /\ pc' = [pc EXCEPT ![c] = "args"]
  /\ UNCHANGED cmd

\* exec.Command copies cmdArgs, after the temporary files are made.
execute(c) ==
  /\ pc[c] = "args"
  /\ cmd' = [cmd EXCEPT ![c] = elements(c)]
  /\ pc'  = [pc EXCEPT ![c] = "done"]
  /\ UNCHANGED <<array, shared, length, own>>

Next == \E c \in Calls : appendRoot(c) \/ appendArgs(c) \/ execute(c)

Spec == Init /\ [][Next]_vars

-----------------------------------------------------------------------------
(* Properties *)

\* The command a call runs: the configured flags, its own --root and its own
\* arguments, so that it acts on the container it was asked to act on.
intended(c) == [i \in 1 .. Len(filtered) |-> flag(filtered[i])] \o <<root(c)>> \o args(c)

\* Whatever other calls do meanwhile, every call runs the command it was
\* asked to run: kill, reset, restore and delete reach their own container.
OwnCommand == \A c \in Calls : pc[c] = "done" => cmd[c] = intended(c)

\* What holds with spare capacity too: the flags and the arguments of a
\* command are its own and only its --root may be another call's, so that a
\* misdirected command names an ID the foreign root does not have.
OwnTarget ==
  \A c \in Calls : pc[c] = "done" =>
    \E d \in Calls : cmd[c] = [intended(c) EXCEPT ![Len(filtered) + 1] = root(d)]

=============================================================================
