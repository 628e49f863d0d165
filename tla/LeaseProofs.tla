---------------------------- MODULE LeaseProofs ----------------------------
(***************************************************************************)
(* The abstract specification keeps leases apart: the invariant Exclusive  *)
(* of Lease, for any sets of requests and sandboxes.                       *)
(***************************************************************************)
EXTENDS Lease, TLAPS

\* The inductive invariant.
Inv == TypeOK /\ Exclusive

\* Before the first call there is no lease, and nothing is used.
LEMMA InitInv == Init => Inv
BY DEF Init, Inv, TypeOK, Exclusive

\* Execute hands out a sandbox nobody uses: the new lease is alone on it.
LEMMA GrantInv ==
  ASSUME NEW r \in Requests, NEW s \in Sandboxes, Inv, Grant(r, s)
  PROVE  Inv'
<1>1. TypeOK'
  BY DEF Grant, Inv, TypeOK
<1>2. Exclusive'
  BY DEF Grant, Inv, TypeOK, Exclusive, leaseOn
<1> QED
  BY <1>1, <1>2 DEF Inv

\* A refused call has no lease.
LEMMA RefuseInv ==
  ASSUME NEW r \in Requests, Inv, Refuse(r)
  PROVE  Inv'
BY DEF Refuse, Inv, TypeOK, Exclusive

\* Complete only takes a lease away.
LEMMA EndInv ==
  ASSUME NEW r \in Requests, Inv, End(r)
  PROVE  Inv'
BY DEF End, Inv, TypeOK, Exclusive

\* While the daemon serves, a sandbox is recycled only when no lease is on it.
LEMMA RenewInv ==
  ASSUME NEW s \in Sandboxes, Inv, Renew(s)
  PROVE  Inv'
<1>1. TypeOK'
  BY DEF Renew, Inv, TypeOK
<1>2. Exclusive'
  BY DEF Renew, Inv, TypeOK, Exclusive, leaseOn
<1> QED
  BY <1>1, <1>2 DEF Inv

\* Manager.Shutdown leaves no lease in the table.
LEMMA CloseInv ==
  ASSUME Inv, Close
  PROVE  Inv'
<1>1. TypeOK'
  BY DEF Close, Inv, TypeOK
<1>2. \A r \in Requests : lease'[r] # "granted"
  BY DEF Close, Inv, TypeOK
<1> QED
  BY <1>1, <1>2 DEF Inv, Exclusive

\* A panic of the shutdown touches no lease.
LEMMA PanicInv ==
  ASSUME Inv, Panic
  PROVE  Inv'
BY DEF Panic, Inv, TypeOK, Exclusive

\* While the daemon serves, a lease (Execute to Complete) is on a sandbox that
\* was handed out for it, and never are two leases on one sandbox, in every
\* behaviour of the abstract specification.
THEOREM LeasesExclusive == Spec => []Exclusive
<1>1. Inv /\ [Next]_vars => Inv'
  <2> SUFFICES ASSUME Inv, [Next]_vars PROVE Inv'
    OBVIOUS
  <2>1. ASSUME NEW r \in Requests, NEW s \in Sandboxes, Grant(r, s) PROVE Inv'
    BY <2>1, GrantInv
  <2>2. ASSUME NEW r \in Requests, Refuse(r) PROVE Inv'
    BY <2>2, RefuseInv
  <2>3. ASSUME NEW r \in Requests, End(r) PROVE Inv'
    BY <2>3, EndInv
  <2>4. ASSUME NEW s \in Sandboxes, Renew(s) PROVE Inv'
    BY <2>4, RenewInv
  <2>5. CASE Close
    BY <2>5, CloseInv
  <2>6. CASE Panic
    BY <2>6, PanicInv
  <2>7. CASE UNCHANGED vars
    BY <2>7 DEF vars, Inv, TypeOK, Exclusive
  <2> QED
    BY <2>1, <2>2, <2>3, <2>4, <2>5, <2>6, <2>7 DEF Next
<1>2. Inv => Exclusive
  BY DEF Inv
<1> QED
  BY InitInv, <1>1, <1>2, PTL DEF Spec

=============================================================================
