------------------------------- MODULE Lease -------------------------------
(***************************************************************************)
(* What gvisord promises its callers, whatever pool, timers and runsc do   *)
(* behind it: a request is refused or gets a lease on a sandbox nobody has *)
(* used; the lease is the only one on its sandbox and ends once; a sandbox *)
(* that was used is renewed (reset or deleted) after its lease and before  *)
(* the next one. The Manager module implements this.                       *)
(***************************************************************************)
EXTENDS Integers

CONSTANTS
  Requests,   \* execute and run calls
  Sandboxes,  \* the sandboxes behind the sentries
  None        \* no sandbox

VARIABLES
  lease,    \* what a request has got
  sandbox,  \* the sandbox its lease is or was on
  used,     \* the sandboxes that were handed out and not renewed since
  daemon    \* serving; shutting down, its leases void; panicked

vars == <<lease, sandbox, used, daemon>>

TypeOK ==
  /\ lease   \in [Requests -> {"none", "granted", "over", "refused"}]
  /\ sandbox \in [Requests -> Sandboxes \cup {None}]
  /\ used    \subseteq Sandboxes
  /\ daemon  \in {"serving", "closing", "panicked"}

Init ==
  /\ lease   = [r \in Requests |-> "none"]
  /\ sandbox = [r \in Requests |-> None]
  /\ used    = {}
  /\ daemon  = "serving"

leaseOn(s) == \E q \in Requests : lease[q] = "granted" /\ sandbox[q] = s

\* Manager.Execute returns a lease. A daemon that shuts down may have deleted
\* the sandbox already.
Grant(r, s) ==
  /\ lease[r] = "none"
  /\ s \notin used /\ ~leaseOn(s)
  /\ lease'   = [lease EXCEPT ![r] = "granted"]
  /\ sandbox' = [sandbox EXCEPT ![r] = s]
  /\ \/ used' = used \cup {s}
     \/ daemon = "closing" /\ UNCHANGED used
  /\ UNCHANGED daemon

\* Manager.Execute returns an error.
Refuse(r) ==
  /\ lease[r] = "none"
  /\ lease' = [lease EXCEPT ![r] = "refused"]
  /\ UNCHANGED <<sandbox, used, daemon>>

\* Complete: by the caller, by the expiry of the lease or at the end of Run.
End(r) ==
  /\ lease[r] = "granted"
  /\ lease' = [lease EXCEPT ![r] = "over"]
  /\ UNCHANGED <<sandbox, used, daemon>>

\* The recycle of a sentry resets its sandbox or deletes it; Shutdown deletes
\* it under a lease that came too late.
Renew(s) ==
  /\ s \in used
  /\ ~leaseOn(s) \/ daemon = "closing"
  /\ used' = used \ {s}
  /\ UNCHANGED <<lease, sandbox, daemon>>

\* Manager.Shutdown voids all leases.
Close ==
  /\ daemon = "serving"
  /\ daemon' = "closing"
  /\ lease'  = [r \in Requests |-> IF lease[r] = "granted" THEN "over" ELSE lease[r]]
  /\ UNCHANGED <<sandbox, used>>

\* The wait group's panic in a shutdown.
Panic ==
  /\ daemon = "closing"
  /\ daemon' = "panicked"
  /\ UNCHANGED <<lease, sandbox, used>>

Next ==
  /\ daemon # "panicked"
  /\ \/ \E r \in Requests : Refuse(r) \/ End(r) \/ \E s \in Sandboxes : Grant(r, s)
     \/ \E s \in Sandboxes : Renew(s)
     \/ Close
     \/ Panic

Spec == Init /\ [][Next]_vars

-----------------------------------------------------------------------------

\* While the daemon serves, every lease has a used sandbox of its own (Execute
\* and Complete are all a caller sees of gvisord).
Exclusive ==
  \A r \in Requests : lease[r] = "granted" =>
    /\ daemon = "serving" => sandbox[r] \in used
    /\ \A q \in Requests : lease[q] = "granted" /\ sandbox[q] = sandbox[r] => q = r

\* Every lease ends, and every sandbox that was handed out is renewed.
Live ==
  /\ \A r \in Requests : lease[r] = "granted" ~> lease[r] = "over" \/ daemon = "panicked"
  /\ \A s \in Sandboxes : s \in used ~> s \notin used \/ daemon = "panicked"

=============================================================================
