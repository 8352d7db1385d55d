------------------------------ MODULE WorkLease ------------------------------
(***************************************************************************)
(* The work leases of ClusterCoordinator (src/backend/cluster.js): acquire,*)
(* renew, assert, release, withLease and the part of stop that gives       *)
(* leases back, for one lease key.                                         *)
(*                                                                         *)
(* A worker is one place in the cluster that calls withLease for the key,  *)
(* one call at a time.  Each database statement or transaction is one      *)
(* step; everything between two statements may be arbitrarily slow, so     *)
(* other workers, the clock, a stop or a crash may come in between.        *)
(***************************************************************************)
EXTENDS Naturals

CONSTANTS
  Worker,          \* Callers of withLease, on any node.
  Transactional,   \* Those whose callback asserts the lease inside the write
                   \* transaction (PimGateway); the others assert first and
                   \* write in a later statement (mail ingestion).
  NoHolder,        \* The empty holder of a released lease row.
  Ttl,             \* Lease duration, in clock ticks.
  MaxTime,         \* Bound: the database clock stops here.
  MaxToken         \* Bound: no more grants than this.

ASSUME WorkLeaseAssumption ==
  /\ Transactional \subseteq Worker
  /\ NoHolder \notin Worker
  /\ Ttl \in Nat \ {0}
  /\ MaxTime \in Nat
  /\ MaxToken \in Nat

VARIABLES
  clock,       \* The database clock, ClusterCoordinator.now().
  lease,       \* The cluster_leases row; token 0 while there is no row.
  call,        \* The progress of each worker's withLease call.
  written,     \* Token of the last write in a transaction that asserts the lease.
  loose,       \* Token of the last write in a statement of its own.
  confirmed    \* Tokens whose withLease call reported its result.

leaseVars == <<clock, lease, call, written, loose, confirmed>>

(***************************************************************************)
(* Phases of a call: idle (none in progress); running (the callback is     *)
(* running, the lease object exists); renewing (renew has read the clock,  *)
(* its UPDATE comes next); asserted (the callback has asserted the lease   *)
(* and its write comes next); releasing (in withLease's finally block).    *)
(***************************************************************************)
Phase == {"idle", "running", "renewing", "asserted", "releasing"}

NoCall == [phase |-> "idle", token |-> 0, sampled |-> 0]

LeaseTypeOK ==
  /\ clock \in Nat
  /\ lease \in [holder: Worker \cup {NoHolder}, token: Nat, expires: Nat]
  /\ call \in [Worker -> [phase: Phase, token: Nat, sampled: Nat]]
  /\ written \in Nat
  /\ loose \in Nat
  /\ confirmed \subseteq Nat

LeaseInit ==
  /\ clock = 0
  /\ lease = [holder |-> NoHolder, token |-> 0, expires |-> 0]
  /\ call = [w \in Worker |-> NoCall]
  /\ written = 0
  /\ loose = 0
  /\ confirmed = {}

(* The row still carries this call's holder and token.  The holder is a    *)
(* fresh UUID in the code; a worker's own name is a weaker identity.       *)
Owns(w) ==
  /\ lease.holder = w
  /\ lease.token = call[w].token

HoldsIgnoringOwner(w) == lease.expires > clock

(* assert() succeeds.  Its two reads, row then clock, succeed only if the  *)
(* row was valid at the second read or was given back by the worker's own  *)
(* node in between.                                                        *)
Holds(w) == Owns(w) /\ lease.expires > clock

InPhase(w, p) == call[w].phase = p

Enter(w, p) == call' = [call EXCEPT ![w].phase = p]

(* acquire(): one immediate transaction.  A held row throws LEASE_HELD and *)
(* changes nothing.                                                        *)
Acquire(w) ==
  /\ InPhase(w, "idle")
  /\ lease.expires <= clock
  /\ lease.token < MaxToken
  /\ lease' = [holder |-> w, token |-> lease.token + 1, expires |-> clock + Ttl]
  /\ call' = [call EXCEPT ![w] = [phase |-> "running", token |-> lease.token + 1,
                                  sampled |-> 0]]
  /\ UNCHANGED <<clock, written, loose, confirmed>>

(* renew(), fired by withLease's timer: reads the clock...                 *)
RenewRead(w) ==
  /\ InPhase(w, "running")
  /\ call' = [call EXCEPT ![w].phase = "renewing", ![w].sampled = clock]
  /\ UNCHANGED <<clock, lease, written, loose, confirmed>>

(* ...and extends the row in a second statement, or aborts the callback's  *)
(* signal if the row is no longer its own.                                 *)
RenewWrite(w) ==
  /\ InPhase(w, "renewing")
  /\ lease' = IF Owns(w) /\ lease.expires > call[w].sampled
              THEN [lease EXCEPT !.expires = call[w].sampled + Ttl]
              ELSE lease
  /\ Enter(w, "running")
  /\ UNCHANGED <<clock, written, loose, confirmed>>

(* A callback that asserts and writes in the same immediate transaction.   *)
TransactionWrite(w) ==
  /\ w \in Transactional
  /\ InPhase(w, "running")
  /\ Holds(w)
  /\ written' = call[w].token
  /\ UNCHANGED <<clock, lease, call, loose, confirmed>>

(* A callback that asserts the lease...                                    *)
Assert(w) ==
  /\ w \notin Transactional
  /\ InPhase(w, "running")
  /\ Holds(w)
  /\ Enter(w, "asserted")
  /\ UNCHANGED <<clock, lease, written, loose, confirmed>>

(* ...and then writes in a statement of its own.                           *)
PlainWrite(w) ==
  /\ InPhase(w, "asserted")
  /\ loose' = call[w].token
  /\ Enter(w, "running")
  /\ UNCHANGED <<clock, lease, written, confirmed>>

(* The callback returns and withLease asserts the lease once more: only    *)
(* then is the result reported.                                            *)
Conclude(w) ==
  /\ InPhase(w, "running")
  /\ confirmed' = IF Holds(w) THEN confirmed \cup {call[w].token} ELSE confirmed
  /\ Enter(w, "releasing")
  /\ UNCHANGED <<clock, lease, written, loose>>

(* The callback throws: a failed assertion or anything else.               *)
Throw(w) ==
  /\ InPhase(w, "running")
  /\ Enter(w, "releasing")
  /\ UNCHANGED <<clock, lease, written, loose, confirmed>>

FreedWithoutExpiry == [holder |-> NoHolder, token |-> lease.token, expires |-> NoHolder]

Freed == [holder |-> NoHolder, token |-> lease.token, expires |-> 0]

ReleaseByKey(w) ==
  /\ InPhase(w, "releasing")
  /\ lease' = Freed
  /\ call' = [call EXCEPT ![w] = NoCall]
  /\ UNCHANGED <<clock, written, loose, confirmed>>

(* release(): the row is emptied only while it is this call's own; the     *)
(* token stays, so the next grant is numbered higher.                      *)
Release(w) ==
  /\ InPhase(w, "releasing")
  /\ lease' = IF Owns(w) THEN Freed ELSE lease
  /\ call' = [call EXCEPT ![w] = NoCall]
  /\ UNCHANGED <<clock, written, loose, confirmed>>

(* stop() releases the node's leases while their callbacks are running.    *)
NodeStop(w) ==
  /\ ~InPhase(w, "idle")
  /\ Owns(w)
  /\ lease' = Freed
  /\ UNCHANGED <<clock, call, written, loose, confirmed>>

(* The process dies; the row stays until it expires.                       *)
Crash(w) ==
  /\ ~InPhase(w, "idle")
  /\ call' = [call EXCEPT ![w] = NoCall]
  /\ UNCHANGED <<clock, lease, written, loose, confirmed>>

Tick ==
  /\ clock < MaxTime
  /\ clock' = clock + 1
  /\ UNCHANGED <<lease, call, written, loose, confirmed>>

WorkerStep(w) ==
  \/ Acquire(w)
  \/ RenewRead(w)
  \/ RenewWrite(w)
  \/ TransactionWrite(w)
  \/ Assert(w)
  \/ PlainWrite(w)
  \/ Conclude(w)
  \/ Throw(w)
  \/ Release(w)
  \/ NodeStop(w)
  \/ Crash(w)

LeaseNext == Tick \/ \E w \in Worker : WorkerStep(w)

LeaseSpec == LeaseInit /\ [][LeaseNext]_leaseVars

-----------------------------------------------------------------------------
(* Writes in transactions never go back to an older grant: once a          *)
(* successor has written, a worker that lost the lease writes no more.     *)
MonotoneWrites == [][written' >= written]_leaseVars

(* A step of one call changes the lease row only as its owner, who extends *)
(* or frees it, or by a new grant of a lease that has run out.  A call that *)
(* lost the lease, and renews or releases late, neither extends nor ends   *)
(* the lease of its successor: the fences in cluster.js's UPDATEs.         *)
OnlyOwnerChanges ==
  [][\A w \in Worker : WorkerStep(w) /\ lease' # lease =>
       \/ /\ ~InPhase(w, "idle") /\ Owns(w)
          /\ \/ lease' = Freed
             \/ /\ lease' = [lease EXCEPT !.expires = lease'.expires]
                /\ lease'.expires > lease.expires
       \/ /\ lease.expires <= clock
          /\ lease'.holder = w
          /\ lease'.token > lease.token]_leaseVars

(* withLease reports a result only if nobody was granted the lease since   *)
(* this call acquired it, so no later grant's write precedes the report.   *)
ConfirmedUnsuperseded ==
  [][\A t \in confirmed' \ confirmed : t = lease.token /\ written <= t /\ loose <= t]_leaseVars

(* Two calls in progress never carry the same fencing token.               *)
TokensDiffer ==
  \A v, w \in Worker :
    ~InPhase(v, "idle") /\ ~InPhase(w, "idle") /\ call[v].token = call[w].token
      => v = w

(* For what callers write in the transaction that asserts the lease, the   *)
(* lease protocol implements the fenced store, whoever else holds it.      *)
Fenced == INSTANCE FencedStore WITH
  granted <- lease.token,
  held <- lease.holder # NoHolder,
  stored <- written,
  acknowledged <- confirmed

ImplementsFencedStore == Fenced!Spec

=============================================================================
