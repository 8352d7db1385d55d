---------------------------- MODULE Mailbox_proofs ----------------------------
(* Proofs about the mailbox (Mailbox) and the leases its synchronisations and  *)
(* write-backs run under (WorkLease, src/backend/cluster.js), for every number *)
(* of workers, edits, changes, faults and folders, and for every protocol.     *)
EXTENDS Mailbox, WorkLease, TLAPS, FiniteSetTheorems, WellFoundedInduction

-----------------------------------------------------------------------------
(* The leases: at most one owner is current, and a stale one is fenced.        *)

(* No call in progress carries a token newer than the row's, and no write  *)
(* to the protected data was numbered higher.                              *)
TokensBounded ==
  /\ \A w \in Worker : ~InPhase(w, "idle") => call[w].token <= lease.token
  /\ written <= lease.token
  /\ loose <= lease.token

(* The row never expires later than one lease duration from now, nor, for  *)
(* an owner about to renew, later than the renewal will set it.            *)
ExpiryBounded ==
  /\ lease.expires <= clock + Ttl
  /\ \A w \in Worker : call[w].sampled <= clock
  /\ \A w \in Worker :
       InPhase(w, "renewing") /\ Owns(w) => lease.expires <= call[w].sampled + Ttl

LeaseInv == LeaseTypeOK /\ TokensBounded /\ TokensDiffer /\ ExpiryBounded

(* The strengthened invariant holds of an empty lease table.               *)
LEMMA LeaseInitInv == LeaseInit => LeaseInv
BY WorkLeaseAssumption
DEF LeaseInit, LeaseInv, LeaseTypeOK, TokensBounded, TokensDiffer, ExpiryBounded,
    NoCall, Phase, InPhase, Owns

(* No step of a worker or of the clock leaves the types.                   *)
LEMMA LeaseTypeStep == LeaseTypeOK /\ [LeaseNext]_leaseVars => LeaseTypeOK'
<1> SUFFICES ASSUME LeaseTypeOK, [LeaseNext]_leaseVars PROVE LeaseTypeOK'
  OBVIOUS
<1> USE WorkLeaseAssumption DEF LeaseTypeOK, Phase
<1>1. CASE Tick
  BY <1>1 DEF Tick
<1>2. ASSUME NEW w \in Worker, WorkerStep(w) PROVE LeaseTypeOK'
  <2>1. CASE Acquire(w)
    BY <2>1 DEF Acquire
  <2>2. CASE RenewRead(w)
    BY <2>2 DEF RenewRead
  <2>3. CASE RenewWrite(w)
    BY <2>3 DEF RenewWrite, Enter
  <2>4. CASE TransactionWrite(w)
    BY <2>4 DEF TransactionWrite
  <2>5. CASE Assert(w)
    BY <2>5 DEF Assert, Enter
  <2>6. CASE PlainWrite(w)
    BY <2>6 DEF PlainWrite, Enter
  <2>7. CASE Conclude(w)
    BY <2>7 DEF Conclude, Enter
  <2>8. CASE Throw(w)
    BY <2>8 DEF Throw, Enter
  <2>9. CASE Release(w)
    BY <2>9 DEF Release, Freed, NoCall
  <2>10. CASE NodeStop(w)
    BY <2>10 DEF NodeStop, Freed
  <2>11. CASE Crash(w)
    BY <2>11 DEF Crash, NoCall
  <2> QED BY <1>2, <2>1, <2>2, <2>3, <2>4, <2>5, <2>6, <2>7, <2>8, <2>9, <2>10, <2>11
          DEF WorkerStep
<1>3. CASE UNCHANGED leaseVars
  BY <1>3 DEF leaseVars
<1> QED BY <1>1, <1>2, <1>3 DEF LeaseNext

(* A step keeps the strengthened invariant: one case per action.           *)
LEMMA LeaseStepInv == LeaseInv /\ [LeaseNext]_leaseVars => LeaseInv'
<1> SUFFICES ASSUME LeaseInv, [LeaseNext]_leaseVars PROVE LeaseInv'
  OBVIOUS
<1>1. LeaseTypeOK /\ LeaseTypeOK'
  BY LeaseTypeStep DEF LeaseInv
<1> DEFINE Bounds == TokensBounded /\ TokensDiffer /\ ExpiryBounded
<1>2. Bounds
  BY DEF LeaseInv
<1> USE WorkLeaseAssumption DEF LeaseTypeOK, TokensBounded, TokensDiffer, ExpiryBounded,
    InPhase, Owns, Enter
<1>3. ASSUME Tick PROVE Bounds'
  BY <1>1, <1>2, <1>3 DEF Tick
<1>4. ASSUME NEW w \in Worker, WorkerStep(w) PROVE Bounds'
  <2>1. CASE Acquire(w)
    BY <1>1, <1>2, <2>1 DEF Acquire
  <2>2. CASE RenewRead(w)
    BY <1>1, <1>2, <2>2 DEF RenewRead
  <2>3. CASE RenewWrite(w)
    BY <1>1, <1>2, <2>3 DEF RenewWrite
  <2>4. CASE TransactionWrite(w)
    BY <1>1, <1>2, <2>4 DEF TransactionWrite, Holds
  <2>5. CASE Assert(w)
    BY <1>1, <1>2, <2>5 DEF Assert, Holds
  <2>6. CASE PlainWrite(w)
    BY <1>1, <1>2, <2>6 DEF PlainWrite
  <2>7. CASE Conclude(w)
    BY <1>1, <1>2, <2>7 DEF Conclude
  <2>8. CASE Throw(w)
    BY <1>1, <1>2, <2>8 DEF Throw
  <2>9. CASE Release(w)
    BY <1>1, <1>2, <2>9 DEF Release, Freed, NoCall
  <2>10. CASE NodeStop(w)
    BY <1>1, <1>2, <2>10 DEF NodeStop, Freed
  <2>11. CASE Crash(w)
    BY <1>1, <1>2, <2>11 DEF Crash, NoCall
  <2> QED BY <1>4, <2>1, <2>2, <2>3, <2>4, <2>5, <2>6, <2>7, <2>8, <2>9, <2>10, <2>11
          DEF WorkerStep
<1>5. ASSUME UNCHANGED leaseVars PROVE Bounds'
  BY <1>1, <1>2, <1>5 DEF leaseVars
<1> QED BY <1>1, <1>3, <1>4, <1>5 DEF LeaseNext, LeaseInv

(***************************************************************************)
(* The strengthened invariant holds in every behaviour.  Type correctness  *)
(* and the uniqueness of fencing tokens are two of its conjuncts; the      *)
(* others bound tokens by the row's and the expiry by the clock, without   *)
(* which neither survives an Acquire or a RenewWrite.                      *)
(***************************************************************************)
LEMMA LeaseInvariance == LeaseSpec => []LeaseInv
BY LeaseInitInv, LeaseStepInv, PTL DEF LeaseSpec

(* The row, the calls and the histories keep their types.                  *)
THEOREM LeaseTypeCorrect == LeaseSpec => []LeaseTypeOK
<1>1. LeaseInv => LeaseTypeOK
  BY DEF LeaseInv
<1> QED BY <1>1, LeaseInvariance, PTL

(* No two calls in progress anywhere in the cluster share a fencing token. *)
THEOREM TokensUnique == LeaseSpec => []TokensDiffer
<1>1. LeaseInv => TokensDiffer
  BY DEF LeaseInv
<1> QED BY <1>1, LeaseInvariance, PTL

(* What callers write in the transaction that asserts the lease never      *)
(* replaces the write of a newer grant, whatever expires, stops, crashes   *)
(* or runs late.                                                           *)
THEOREM WritesInTokenOrder == LeaseSpec => MonotoneWrites
<1>1. LeaseInv /\ [LeaseNext]_leaseVars => [written' >= written]_leaseVars
  <2> SUFFICES ASSUME LeaseInv, LeaseNext PROVE written' >= written
    OBVIOUS
  <2> USE DEF LeaseInv, LeaseTypeOK, TokensBounded
  <2>1. CASE Tick
    BY <2>1 DEF Tick
  <2>2. ASSUME NEW w \in Worker, WorkerStep(w) PROVE written' >= written
    <3>1. CASE TransactionWrite(w)
      BY <3>1 DEF TransactionWrite, Holds, Owns
    <3>2. CASE UNCHANGED written
      BY <3>2
    <3> QED BY <2>2, <3>1, <3>2
            DEF WorkerStep, Acquire, RenewRead, RenewWrite, Assert, PlainWrite, Conclude,
                Throw, Release, NodeStop, Crash
  <2> QED BY <2>1, <2>2 DEF LeaseNext
<1> QED BY <1>1, LeaseInvariance, PTL DEF LeaseSpec, MonotoneWrites

(* A step of a call changes the lease row only as its owner, or to grant a *)
(* lease that has run out: a stale renewal or release changes nothing.     *)
THEOREM StaleOwnersAreFenced == LeaseSpec => OnlyOwnerChanges
<1> DEFINE AsOwner(w) ==
      /\ ~InPhase(w, "idle") /\ Owns(w)
      /\ \/ lease' = Freed
         \/ /\ lease' = [lease EXCEPT !.expires = lease'.expires]
            /\ lease'.expires > lease.expires
    Granted(w) ==
      /\ lease.expires <= clock
      /\ lease'.holder = w
      /\ lease'.token > lease.token
    Allowed == \A w \in Worker :
      WorkerStep(w) /\ lease' # lease =>
        \/ AsOwner(w)
        \/ Granted(w)
<1>1. LeaseInv /\ [LeaseNext]_leaseVars => [Allowed]_leaseVars
  <2> SUFFICES ASSUME LeaseInv, NEW w \in Worker, WorkerStep(w), lease' # lease
               PROVE AsOwner(w) \/ Granted(w)
    OBVIOUS
  <2> USE WorkLeaseAssumption DEF LeaseInv, LeaseTypeOK, ExpiryBounded
  <2>1. CASE Acquire(w)
    BY <2>1 DEF Acquire
  <2>2. CASE RenewWrite(w)
    <3>1. /\ ~InPhase(w, "idle") /\ Owns(w)
          /\ lease' = [lease EXCEPT !.expires = call[w].sampled + Ttl]
      BY <2>2 DEF RenewWrite, InPhase
    <3>2. lease.expires <= call[w].sampled + Ttl
      BY <2>2, <3>1 DEF RenewWrite, InPhase
    <3>3. lease.expires # call[w].sampled + Ttl
      BY <3>1
    <3> QED BY <3>1, <3>2, <3>3
  <2>3. CASE Release(w)
    BY <2>3 DEF Release, InPhase
  <2>4. CASE NodeStop(w)
    BY <2>4 DEF NodeStop
  <2> QED BY <2>1, <2>2, <2>3, <2>4
          DEF WorkerStep, RenewRead, TransactionWrite, Assert, PlainWrite, Conclude,
              Throw, Crash
<1> QED BY <1>1, LeaseInvariance, PTL DEF LeaseSpec, OnlyOwnerChanges

(* A reported result belongs to the newest grant, and no newer grant has   *)
(* written before it.                                                      *)
THEOREM ResultsAreUnsuperseded == LeaseSpec => ConfirmedUnsuperseded
<1> DEFINE Reported ==
      \A t \in confirmed' \ confirmed : t = lease.token /\ written <= t /\ loose <= t
<1>1. LeaseInv /\ [LeaseNext]_leaseVars => [Reported]_leaseVars
  <2> SUFFICES ASSUME LeaseInv, LeaseNext PROVE Reported
    OBVIOUS
  <2>1. CASE Tick
    BY <2>1 DEF Tick
  <2>2. ASSUME NEW w \in Worker, WorkerStep(w) PROVE Reported
    <3>1. CASE Conclude(w)
      BY <3>1 DEF Conclude, Holds, Owns, LeaseInv, TokensBounded
    <3>2. CASE UNCHANGED confirmed
      BY <3>2
    <3> QED BY <2>2, <3>1, <3>2
            DEF WorkerStep, Acquire, RenewRead, RenewWrite, TransactionWrite, Assert,
                PlainWrite, Throw, Release, NodeStop, Crash
  <2> QED BY <2>1, <2>2 DEF LeaseNext
<1> QED BY <1>1, LeaseInvariance, PTL DEF LeaseSpec, ConfirmedUnsuperseded

(***************************************************************************)
(* The lease protocol implements FencedStore for transactional writes: an  *)
(* acquisition is a grant, a release or stop of the owner returns it, and  *)
(* renewals, losses and crashes are invisible.                             *)
(***************************************************************************)
THEOREM LeaseImplementsFencedStore == LeaseSpec => ImplementsFencedStore
<1>1. LeaseInit => Fenced!Init
  BY DEF LeaseInit, Fenced!Init
<1>2. LeaseInv /\ [LeaseNext]_leaseVars => [Fenced!Next]_(Fenced!vars)
  <2> SUFFICES ASSUME LeaseInv, LeaseNext PROVE Fenced!Next \/ UNCHANGED Fenced!vars
    BY DEF leaseVars, Fenced!vars
  <2> USE WorkLeaseAssumption DEF LeaseInv, LeaseTypeOK, Fenced!vars, Fenced!Next
  <2>1. CASE Tick
    BY <2>1 DEF Tick
  <2>2. ASSUME NEW w \in Worker, WorkerStep(w)
        PROVE  Fenced!Next \/ UNCHANGED Fenced!vars
    <3>1. CASE Acquire(w)
      BY <3>1 DEF Acquire, Fenced!Grant
    <3>2. CASE RenewRead(w) \/ RenewWrite(w) \/ Assert(w) \/ PlainWrite(w) \/ Throw(w) \/ Crash(w)
      BY <3>2 DEF RenewRead, RenewWrite, Assert, PlainWrite, Throw, Crash
    <3>3. CASE TransactionWrite(w)
      BY <3>3 DEF TransactionWrite, Holds, Owns, Fenced!Store
    <3>4. CASE Conclude(w)
      BY <3>4 DEF Conclude, Holds, Owns, Fenced!Acknowledge
    <3>5. CASE Release(w)
      BY <3>5 DEF Release, Freed, Owns, Fenced!Return
    <3>6. CASE NodeStop(w)
      BY <3>6 DEF NodeStop, Freed, Owns, Fenced!Return
    <3> QED BY <2>2, <3>1, <3>2, <3>3, <3>4, <3>5, <3>6 DEF WorkerStep
  <2> QED BY <2>1, <2>2 DEF LeaseNext
<1> QED BY <1>1, <1>2, LeaseInvariance, PTL DEF LeaseSpec, ImplementsFencedStore, Fenced!Spec

-----------------------------------------------------------------------------
(* The mailbox: types, and an edit is neither undone nor overtaken.           *)

(* The job that runs is one of the queue's.                                   *)
Running ==
  /\ Len(jobs) <= MaxEdits
  /\ work.pc = "idle" <=> work.job = 0
  /\ work.job # 0 => work.job \in DOMAIN jobs
  /\ work.pc = "ask" => work.ans = "none"

(* A job has one request under way at most: the one it waits for, or a late    *)
(* one of a job whose outcome is unknown.  A field it asks for is not asked    *)
(* for again.                                                                  *)
OneRequest ==
  /\ \A r \in wire : /\ r.job \in DOMAIN jobs
                     /\ jobs[r.job].st = "unknown" \/ (Waits(r) /\ work.ans = "none")
                     /\ Waits(r) => /\ r.patch.folder # NoFolder => work.todo.folder = NoFolder
                                    /\ r.patch.flag # "none" => work.todo.flag = "none"
  /\ \A r, s \in wire : r.job = s.job => r = s

(* Before a job runs, everything earlier of its record is settled, for ever.   *)
Started == reached.jobs \cup {r.job : r \in wire} \cup ({work.job} \ {0})
Ordered ==
  /\ reached.jobs \subseteq DOMAIN jobs
  /\ \A k \in Started : \A j \in DOMAIN jobs :
       j < k /\ jobs[j].rec = jobs[k].rec => jobs[j].st \in {"completed", "cancelled"}

(* The jobs that may still move the message, or change its flag, and the       *)
(* identifiers it has had: each move uses one up.                              *)
Ahead(j) == j > Len(jobs) \/ jobs[j].st = "pending" \/ (work.job = j /\ work.pc = "ask")
Movers == {j \in Job : \/ Ahead(j)
                       \/ \E r \in wire : r.job = j /\ r.patch.folder # NoFolder
                       \/ work.job = j /\ work.pc = "wait" /\ work.todo.folder # NoFolder}
Flaggers == {j \in Job : \/ Ahead(j)
                         \/ \E r \in wire : r.job = j /\ r.patch.flag # "none"
                         \/ work.job = j /\ work.pc = "wait" /\ work.todo.flag # "none"}
Homes == {p \in Loc : home[p] # NoFolder}
Homed == srv.loc # 0 => home[srv.loc] = srv.folder
Counted ==
  /\ Cardinality(Homes) + Cardinality(Movers) + others.left <= MaxLoc
  /\ srv.ver + Cardinality(Movers) + Cardinality(Flaggers) + others.left <= MaxVer

(* What the protocols' cursors, and a synchronisation that uses one, may hold. *)
Listing == [pid : Loc, del : BOOLEAN, meta : BOOLEAN, folder : Folder \cup {NoFolder},
            flag : Flag, prev : 0..MaxLoc]
Steps == CASE profile.protocol = "graph" -> 0..Len(FolderOrder)
           [] profile.protocol = "gmail" -> 0..3
           [] profile.protocol = "imap" -> 0..1
GoodCursor(c) ==
  /\ c \in Cursor
  /\ profile.protocol = "gmail" => c.page <= 1
  /\ profile.protocol = "imap" => c.built < Len(FolderOrder) /\ c.todo \subseteq Homes
Collected ==
  /\ fetch \in [i : Nat, cursor : Cursor, msgs : Seq(Listing)]
  /\ batch \in [on : BOOLEAN, msgs : Seq(Message), cursor : Cursor]
  /\ GoodCursor(cursor) /\ GoodCursor(fetch.cursor) /\ GoodCursor(batch.cursor)
  /\ sync = "idle" => fetch = NoFetch
  /\ sync = "fetch" => fetch.i \in Steps
  /\ sync = "ingest" => fetch.i <= Len(batch.msgs)

MInv == /\ TypeOK /\ Running /\ OneRequest /\ Ordered /\ Homed /\ Counted /\ Collected
        /\ EditsStay /\ InOrder

-----------------------------------------------------------------------------
(* A bounded set of numbers has a largest one, and any has a least one.       *)
LEMMA Least ==
  ASSUME NEW S \in SUBSET Nat, S # {}
  PROVE  \E m \in S : \A k \in S : m <= k
<1> DEFINE R == OpToRel(<, Nat)
<1>1. \E x \in S : \A y \in S : ~(<<y, x>> \in R)
  <2> HIDE DEF R
  <2> QED BY WFMin, NatLessThanWellFounded DEF R
<1>2. PICK x \in S : \A y \in S : ~(<<y, x>> \in R)  BY <1>1
<1>3. ASSUME NEW y \in S PROVE x <= y
  <2>1. <<y, x>> \in Nat \X Nat  OBVIOUS
  <2>2. ~(y < x)  BY <1>2, <2>1 DEF OpToRel
  <2> QED BY <2>2
<1> QED BY <1>3

(* A set of the first n numbers that is not empty has a greatest member.      *)
LEMMA Topmost ==
  ASSUME NEW S, NEW n \in Nat, S \subseteq 1..n, S # {}
  PROVE  \E m \in S : \A k \in S : k <= m
<1> DEFINE D == {n - k : k \in S}
<1>1. D \in SUBSET Nat /\ D # {}  OBVIOUS
<1>2. PICK d \in D : \A e \in D : d <= e
  <2> HIDE DEF D
  <2> QED BY <1>1, Least
<1>3. PICK m \in S : d = n - m  OBVIOUS
<1>4. ASSUME NEW k \in S PROVE k <= m
  <2>1. n - m <= n - k  BY <1>2, <1>3
  <2> QED BY <2>1
<1> QED BY <1>4

-----------------------------------------------------------------------------
(* What the proofs below say of the rows of the queue.                        *)
Status == {"pending", "running", "completed", "failed", "unknown", "cancelled"}
Final == {"completed", "cancelled"}
Row == [rec : Loc, patch : Patch, st : Status]

(* A step that appends no job changes no edit, and no settled job.            *)
SameEdits ==
  /\ jobs' \in Seq(Row) /\ Len(jobs') = Len(jobs) /\ DOMAIN jobs' = DOMAIN jobs
  /\ \A k \in DOMAIN jobs : /\ jobs'[k].rec = jobs[k].rec /\ jobs'[k].patch = jobs[k].patch
                            /\ jobs[k].st \in Final => jobs'[k].st = jobs[k].st

(* The queue is a sequence of jobs.                                           *)
LEMMA RowsTyped == TypeOK => /\ jobs \in Seq(Row) /\ Len(jobs) \in Nat /\ DOMAIN jobs = 1..Len(jobs)
                             /\ \A j \in DOMAIN jobs : jobs[j] \in Row
<1> SUFFICES ASSUME TypeOK PROVE jobs \in Seq(Row)
  OBVIOUS
<1> QED BY DEF TypeOK, Row, Status

(* One job gets another status.                                               *)
LEMMA OneStatus ==
  ASSUME TypeOK, NEW j \in DOMAIN jobs, jobs[j].st \notin Final, NEW s \in Status,
         jobs' = [jobs EXCEPT ![j].st = s]
  PROVE  SameEdits /\ \A k \in DOMAIN jobs : jobs'[k].st = IF k = j THEN s ELSE jobs[k].st
<1>1. jobs \in Seq(Row) /\ Len(jobs) \in Nat /\ DOMAIN jobs = 1..Len(jobs) /\ jobs[j] \in Row
  BY RowsTyped
<1>2. [jobs[j] EXCEPT !.st = s] \in Row  BY <1>1 DEF Row
<1>3. jobs' \in Seq(Row) /\ Len(jobs') = Len(jobs) /\ DOMAIN jobs' = DOMAIN jobs
  BY <1>1, <1>2
<1>4. ASSUME NEW k \in DOMAIN jobs
      PROVE  /\ jobs'[k].rec = jobs[k].rec /\ jobs'[k].patch = jobs[k].patch
             /\ jobs'[k].st = IF k = j THEN s ELSE jobs[k].st
  <2>1. jobs[k] \in Row  BY RowsTyped
  <2> QED BY <1>1, <2>1 DEF Row
<1> QED BY <1>3, <1>4 DEF SameEdits, Final

(* A step that leaves the queue alone changes no job's edit.                  *)
LEMMA NoStatus == TypeOK /\ UNCHANGED jobs => SameEdits
BY RowsTyped DEF SameEdits

(* The job that runs, if there is one, ends.                                  *)
LEMMA Settling ==
  ASSUME TypeOK, Running, work.pc # "idle", NEW st \in Status, Settle(st)
  PROVE  /\ work.job \in DOMAIN jobs /\ jobs[work.job].st = "running" /\ SameEdits
         /\ \A k \in DOMAIN jobs : jobs'[k].st = IF k = work.job THEN st ELSE jobs[k].st
         /\ work' = Idle
<1>1. work.job # 0 /\ work.job \in DOMAIN jobs /\ jobs[work.job].st = "running"
  BY DEF Running, TypeOK
<1> QED BY <1>1, OneStatus DEF Settle, Final

(* The steps that settle the job, and how.                                    *)
Settles == /\ work.pc # "idle"
           /\ \E st \in {"pending", "failed", "unknown", "completed"} :
                /\ Settle(st) /\ (st = "pending" => work.pc = "ask")
                /\ st = "unknown" \/ work.pc # "wait" \/ work.ans # "none"

(* The steps that end a write-back settle its job and free its place; none of *)
(* them reaches the provider.                                                 *)
LEMMA Ends ==
  ASSUME TypeOK, \/ Busy \/ Refused \/ Lose \/ Store \/ CrashWork
                 \/ Ask /\ work' = Idle
  PROVE  Settles /\ UNCHANGED <<srv, home, wire, reached, others>>
<1>0. Idle.pc = "idle"  BY DEF Idle
<1>1. CASE Busy  BY <1>1 DEF Busy, Settles, provider
<1>2. CASE Refused  BY <1>2 DEF Refused, Abandon, Settles, provider
<1>3. CASE Lose  BY <1>3 DEF Lose, Abandon, Settles, provider
<1>4. CASE Store  BY <1>4 DEF Store, Settles, provider
<1>5. CASE CrashWork  BY <1>5 DEF CrashWork, Settles, provider
<1>6. CASE Ask /\ work' = Idle
  <2>1. [work EXCEPT !.pc = "wait", !.pid = Current(work.orig), !.res = Current(work.orig),
                     !.todo = Rest(jobs[work.job].patch)] # Idle
    BY DEF TypeOK, Idle
  <2> QED BY <1>6, <2>1 DEF Ask, Settles, provider
<1> QED BY <1>1, <1>2, <1>3, <1>4, <1>5, <1>6

(* The steps that leave the queue, its worker and its requests alone.         *)
Quiet == UNCHANGED <<jobs, work, wire, reached>>
(* Other clients, a synchronisation and its crash touch no write-back.        *)
LEMMA Quietly ==
  ASSUME \/ OtherClient \/ Synchronise \/ CrashSync \/ UNCHANGED vars
  PROVE  Quiet
BY DEF OtherClient, Synchronise, StartSync, Call, Stage, Ingest, Acknowledge, CrashSync,
       vars, provider, writeback, reading, Quiet

-----------------------------------------------------------------------------
(* The queue and the job that runs.                                           *)
LEMMA Queued ==
  ASSUME TypeOK, Running, NEW r \in Loc, Edit(r)
  PROVE  /\ UNCHANGED <<srv, home, work, wire, reached, others>>
         /\ Len(jobs') = Len(jobs) + 1 /\ Len(jobs) < MaxEdits
         /\ DOMAIN jobs' = DOMAIN jobs \cup {Len(jobs) + 1} /\ Len(jobs) + 1 \notin DOMAIN jobs
         /\ \A k \in DOMAIN jobs : jobs'[k] = jobs[k] /\ k < Len(jobs) + 1
         /\ jobs'[Len(jobs) + 1].rec = r /\ jobs'[Len(jobs) + 1].st = "pending"
         /\ jobs' \in Seq(Row)
<1>1. jobs \in Seq(Row) /\ Len(jobs) \in Nat /\ DOMAIN jobs = 1..Len(jobs)  BY RowsTyped
<1>2. profile.edits \in 0..MaxEdits /\ MaxEdits \in Nat
  BY MailboxAssumption DEF TypeOK
<1>3. recs[r].flag \in Flag /\ recs[r].folder \in Folder \cup {NoFolder}  BY DEF TypeOK
<1>4. \E patch \in Patch : Queue(r, patch)
  <2>1. CASE \E flag \in Flag, folder \in Folder :
               Queue(r, [flag |-> IF flag = recs[r].flag THEN "none" ELSE flag,
                         folder |-> IF folder = recs[r].folder THEN NoFolder ELSE folder])
    BY <2>1 DEF Patch
  <2>2. CASE "deleted" \in Folder /\ Queue(r, [flag |-> "none", folder |-> "deleted"])
    BY <2>2 DEF Patch
  <2> QED BY <2>1, <2>2 DEF Edit
<1>5. PICK patch \in Patch : jobs' = Append(jobs, [rec |-> r, st |-> "pending", patch |-> patch])
  BY <1>4 DEF Queue
<1>6. [rec |-> r, st |-> "pending", patch |-> patch] \in Row  BY DEF Row, Status
<1>7. /\ jobs' \in Seq(Row) /\ Len(jobs') = Len(jobs) + 1
      /\ \A k \in 1..Len(jobs) : jobs'[k] = jobs[k]
      /\ jobs'[Len(jobs) + 1] = [rec |-> r, st |-> "pending", patch |-> patch]
  BY <1>1, <1>5, <1>6
<1>8. DOMAIN jobs' = 1..(Len(jobs) + 1)  BY <1>1, <1>7
<1> QED BY <1>1, <1>2, <1>7, <1>8 DEF Edit, provider

(* Taking a job: it runs, and nothing has been asked of the provider yet.     *)
LEMMA Beginning ==
  ASSUME TypeOK, Running, NEW j \in DOMAIN jobs, Begin(j)
  PROVE  /\ UNCHANGED <<srv, home, wire, reached, others>> /\ SameEdits
         /\ work.pc = "idle" /\ work.job = 0 /\ jobs[j].st = "pending" /\ j \in Job /\ j # 0
         /\ \A k \in DOMAIN jobs : jobs'[k].st = IF k = j THEN "running" ELSE jobs[k].st
         /\ work'.job = j /\ work'.pc = "ask" /\ work'.ans = "none"
         /\ work' = [Idle EXCEPT !.job = j, !.pc = "ask", !.orig = recs[jobs[j].rec].pid]
<1>1. jobs' = [jobs EXCEPT ![j].st = "running"] /\ jobs[j].st \notin Final
  BY DEF Begin, Final
<1>2. SameEdits /\ \A k \in DOMAIN jobs : jobs'[k].st = IF k = j THEN "running" ELSE jobs[k].st
  BY <1>1, OneStatus DEF Status
<1>3. work'.job = j /\ work'.pc = "ask" /\ work'.ans = "none"  BY DEF Begin, Idle
<1>4. j \in Job /\ j # 0  BY RowsTyped, MailboxAssumption DEF Running, Job
<1> QED BY <1>2, <1>3, <1>4 DEF Begin, provider, Running

(* Cancelling a pending job, or giving it up before it ran, changes its       *)
(* status alone.                                                              *)
LEMMA Marked ==
  ASSUME TypeOK, NEW j \in DOMAIN jobs, Cancel(j) \/ GiveUp(j)
  PROVE  /\ UNCHANGED <<srv, home, work, wire, reached, others>> /\ SameEdits /\ jobs[j].st = "pending"
         /\ \A k \in DOMAIN jobs : k # j => jobs'[k].st = jobs[k].st
         /\ jobs'[j].st \in {"cancelled", "failed"}
<1>1. PICK s \in {"cancelled", "failed"} : jobs' = [jobs EXCEPT ![j].st = s]
  BY DEF Cancel, GiveUp
<1>2. jobs[j].st = "pending" /\ s \in Status /\ jobs[j].st \notin Final
  BY DEF Cancel, MayCancel, GiveUp, Status, Final
<1>3. SameEdits /\ \A k \in DOMAIN jobs : jobs'[k].st = IF k = j THEN s ELSE jobs[k].st
  BY <1>1, <1>2, OneStatus
<1> QED BY <1>2, <1>3 DEF Cancel, GiveUp, provider

(* The first request of a job, and the next one.                              *)
LEMMA Asking ==
  ASSUME TypeOK, Running, Ask, work' # Idle
  PROVE  LET pid == Current(work.orig) patch == jobs[work.job].patch IN
         /\ work.pc = "ask" /\ work.job \in DOMAIN jobs /\ UNCHANGED <<srv, home, jobs, reached, others>>
         /\ wire' = wire \cup {[job |-> work.job, pid |-> pid, patch |-> First(patch)]}
         /\ work' = [work EXCEPT !.pc = "wait", !.pid = pid, !.res = pid, !.todo = Rest(patch)]
         /\ work'.job = work.job /\ work'.pc = "wait" /\ work'.ans = work.ans
         /\ work'.todo = Rest(patch) /\ pid \in Loc /\ patch \in Patch
<1>1. work.pc = "ask" /\ work.job # 0 /\ work.job \in DOMAIN jobs  BY DEF Ask, Running
<1>2. ~Settle("unknown")  BY DEF Settle
<1>3. Current(work.orig) \in Loc  BY DEF TypeOK, Current, Loc
<1>4. jobs[work.job].patch \in Patch  BY <1>1, RowsTyped DEF Row
<1> QED BY <1>1, <1>2, <1>3, <1>4 DEF Ask, Request, TypeOK

(* An answered request is followed by the rest of the patch, or the job goes  *)
(* on to store its outcome.                                                   *)
LEMMA Going ==
  ASSUME TypeOK, Running, Applied
  PROVE  /\ work.pc = "wait" /\ work.ans = "ok" /\ work.job # 0 /\ work.job \in DOMAIN jobs
         /\ UNCHANGED <<srv, home, jobs, reached, others>> /\ work'.job = work.job
         /\ \/ /\ work.todo # NoPatch /\ work'.pc = "wait" /\ work'.ans = "none" /\ work'.todo = Rest(work.todo)
               /\ wire' = wire \cup {[job |-> work.job, pid |-> work.res, patch |-> First(work.todo)]}
            \/ work'.pc = "store" /\ wire' = wire
BY DEF Applied, Running, Request, TypeOK

(* A request is served.                                                       *)
LEMMA Serving ==
  ASSUME TypeOK, NEW r \in wire, Serve(r)
  PROVE  /\ wire' = wire \ {r} /\ UNCHANGED jobs /\ work'.job = work.job /\ work'.pc = work.pc /\ work'.todo = work.todo
         /\ reached'.jobs \subseteq reached.jobs \cup {r.job}
         /\ ~Waits(r) => work' = work
         /\ work.pc # "wait" => work' = work
<1>1. work \in [job : 0..MaxEdits, pc : {"idle", "ask", "wait", "store"}, orig : Loc, pid : Loc,
                 todo : Patch, wrote : BOOLEAN, ans : {"none", "ok", "missing", "refused"}, res : Loc]
      /\ reached \in [jobs : SUBSET Job, late : BOOLEAN]
  BY DEF TypeOK
<1>2. work' = work \/ (Waits(r) /\ \E ans, res : work' \in {[work EXCEPT !.ans = ans], [work EXCEPT !.ans = ans, !.res = res]})
  BY DEF Serve
<1>3. reached'.jobs \subseteq reached.jobs \cup {r.job}  BY <1>1 DEF Serve
<1> QED BY <1>1, <1>2, <1>3 DEF Serve, Waits

(* The job that runs stays one of the queue's.                                *)
LEMMA RunningStep ==
  ASSUME TypeOK, Running, [Next]_vars
  PROVE  Running'
<1>1. ASSUME NEW r \in Loc, Edit(r) PROVE Running'
  BY <1>1, Queued, RowsTyped, MailboxAssumption DEF Running
<1>2. ASSUME NEW j \in DOMAIN jobs, Cancel(j) \/ GiveUp(j) PROVE Running'
  BY <1>2, Marked DEF Running, SameEdits
<1>3. ASSUME NEW j \in DOMAIN jobs, Begin(j) PROVE Running'
  BY <1>3, Beginning, RowsTyped DEF Running, SameEdits
<1>4. CASE Busy \/ Refused \/ Lose \/ Store \/ CrashWork \/ (Ask /\ work' = Idle)
  BY <1>4, Ends, Settling DEF Settles, Running, SameEdits, Idle, Status
<1>5. CASE Ask /\ work' # Idle
  BY <1>5, Asking DEF Running
<1>6. CASE Applied
  BY <1>6, Going DEF Running
<1>7. ASSUME NEW r \in wire, Serve(r) PROVE Running'
  BY <1>7, Serving DEF Running
<1>8. CASE OtherClient \/ Synchronise \/ CrashSync \/ UNCHANGED vars
  BY <1>8, Quietly DEF Running, Quiet
<1> QED BY <1>1, <1>2, <1>3, <1>4, <1>5, <1>6, <1>7, <1>8 DEF Next, HandlerStep

(* A field is asked for in one request.                                       *)
LEMMA OneAfterTheOther ==
  ASSUME NEW todo \in Patch
  PROVE  /\ First(todo).folder # NoFolder => Rest(todo).folder = NoFolder /\ First(todo).folder = todo.folder
         /\ First(todo).flag # "none" => Rest(todo).flag = "none" /\ First(todo).flag = todo.flag
         /\ Rest(todo).folder \in {todo.folder, NoFolder} /\ Rest(todo).flag \in {todo.flag, "none"}
         /\ First(todo) \in Patch /\ Rest(todo) \in Patch
BY DEF First, Rest, Patch, NoPatch

(* No step puts a second request of a job under way.                          *)
LEMMA OneRequestStep ==
  ASSUME TypeOK, Running, OneRequest, [Next]_vars
  PROVE  OneRequest'
<1>0. \A r \in wire : r.job = work.job => Waits(r) /\ work.ans = "none"
  <2> SUFFICES ASSUME NEW r \in wire, r.job = work.job PROVE jobs[r.job].st = "running"
    BY DEF OneRequest
  <2>1. r.job \in DOMAIN jobs /\ r.job # 0  BY RowsTyped DEF OneRequest
  <2> QED BY <2>1 DEF TypeOK
<1>1. ASSUME NEW r \in Loc, Edit(r) PROVE OneRequest'
  BY <1>1, Queued DEF OneRequest, Waits
<1>2. ASSUME NEW j \in DOMAIN jobs, Cancel(j) \/ GiveUp(j) PROVE OneRequest'
  <2>1. \A r \in wire : r.job # j
    <3> SUFFICES ASSUME NEW r \in wire, r.job = j PROVE FALSE  OBVIOUS
    <3>1. jobs[j].st = "pending" /\ j # 0  BY <1>2, Marked, RowsTyped
    <3>2. work.job = j  BY <3>1 DEF OneRequest, Waits
    <3> QED BY <3>1, <3>2 DEF TypeOK
  <2> QED BY <1>2, <2>1, Marked DEF OneRequest, SameEdits, Waits
<1>3. ASSUME NEW j \in DOMAIN jobs, Begin(j) PROVE OneRequest'
  <2>1. \A r \in wire : r.job # j /\ jobs[r.job].st = "unknown"
    BY <1>3, Beginning DEF OneRequest, Waits
  <2>2. \A r \in wire : jobs'[r.job].st = "unknown" /\ r.job \in DOMAIN jobs'
    <3> SUFFICES ASSUME NEW r \in wire PROVE jobs'[r.job].st = "unknown" /\ r.job \in DOMAIN jobs'
      OBVIOUS
    <3>1. r.job \in DOMAIN jobs /\ r.job # j /\ jobs[r.job].st = "unknown"  BY <2>1 DEF OneRequest
    <3>2. jobs'[r.job].st = jobs[r.job].st /\ DOMAIN jobs' = DOMAIN jobs  BY <1>3, <3>1, Beginning DEF SameEdits
    <3> QED BY <3>1, <3>2
  <2>3. wire' = wire /\ work'.pc = "ask"  BY <1>3, Beginning
  <2> QED BY <2>2, <2>3 DEF OneRequest, Waits
<1>4. CASE Busy \/ Refused \/ Lose \/ Store \/ CrashWork \/ (Ask /\ work' = Idle)
  <2>1. PICK st \in {"pending", "failed", "unknown", "completed"} :
          Settle(st) /\ (st = "unknown" \/ work.pc # "wait" \/ work.ans # "none")
    BY <1>4, Ends DEF Settles
  <2>2. work.pc # "idle" /\ wire' = wire  BY <1>4, Ends DEF Settles
  <2>3. SameEdits /\ work' = Idle /\ \A k \in DOMAIN jobs : jobs'[k].st = IF k = work.job THEN st ELSE jobs[k].st
    BY <2>1, <2>2, Settling DEF Status
  <2>4. ASSUME NEW r \in wire PROVE jobs'[r.job].st = "unknown"
    BY <1>0, <2>1, <2>3 DEF OneRequest, Waits
  <2> QED BY <2>2, <2>3, <2>4 DEF OneRequest, SameEdits, Waits, Idle
<1>5. CASE Ask /\ work' # Idle
  <2> DEFINE new == [job |-> work.job, pid |-> Current(work.orig), patch |-> First(jobs[work.job].patch)]
  <2>1. /\ wire' = wire \cup {new} /\ UNCHANGED jobs /\ work.pc = "ask" /\ work.job \in DOMAIN jobs
        /\ work'.job = work.job /\ work'.pc = "wait" /\ work'.ans = "none"
        /\ work'.todo = Rest(jobs[work.job].patch) /\ jobs[work.job].patch \in Patch
    BY <1>5, Asking DEF Running
  <2>2. \A r \in wire : r.job # work.job /\ ~Waits(r)'  BY <1>0, <2>1 DEF Waits
  <2>3. /\ Waits(new)' /\ new.job = work.job
        /\ new.patch.folder # NoFolder => work'.todo.folder = NoFolder
        /\ new.patch.flag # "none" => work'.todo.flag = "none"
    BY <2>1, OneAfterTheOther DEF Waits
  <2> HIDE DEF new
  <2> QED BY <2>1, <2>2, <2>3 DEF OneRequest, Waits
<1>6. CASE Applied
  <2>1. /\ work.pc = "wait" /\ work.ans = "ok" /\ work.job # 0 /\ work.job \in DOMAIN jobs
        /\ UNCHANGED jobs /\ work'.job = work.job /\ work.todo \in Patch
    BY <1>6, Going DEF TypeOK
  <2>2. \A r \in wire : r.job # work.job /\ ~Waits(r)'  BY <1>0, <2>1 DEF Waits
  <2>3. CASE work'.pc = "store" /\ wire' = wire
    BY <2>1, <2>2, <2>3 DEF OneRequest, Waits
  <2>4. CASE ~(work'.pc = "store" /\ wire' = wire)
    <3> DEFINE new == [job |-> work.job, pid |-> work.res, patch |-> First(work.todo)]
    <3>1. /\ wire' = wire \cup {new} /\ work'.pc = "wait" /\ work'.ans = "none"
          /\ work'.todo = Rest(work.todo)
      BY <1>6, <2>4, Going
    <3>2. /\ Waits(new)' /\ new.job = work.job
          /\ new.patch.folder # NoFolder => work'.todo.folder = NoFolder
          /\ new.patch.flag # "none" => work'.todo.flag = "none"
      BY <2>1, <3>1, OneAfterTheOther DEF Waits
    <3> HIDE DEF new
    <3> QED BY <2>1, <2>2, <3>1, <3>2 DEF OneRequest, Waits
  <2> QED BY <2>3, <2>4
<1>7. ASSUME NEW r \in wire, Serve(r) PROVE OneRequest'
  <2>1. \A s \in wire' : s \in wire /\ s # r /\ s.job # r.job  BY <1>7, Serving DEF OneRequest
  <2>2. \A s \in wire' : Waits(s)' => Waits(s) /\ work' = work
    BY <1>7, <2>1, Serving DEF Waits
  <2>3. \A s \in wire' : Waits(s) => work' = work  BY <1>7, <2>1, Serving DEF Waits
  <2> QED BY <1>7, <2>1, <2>2, <2>3, Serving DEF OneRequest, Waits
<1>8. CASE OtherClient \/ Synchronise \/ CrashSync \/ UNCHANGED vars
  BY <1>8, Quietly DEF OneRequest, Quiet, Waits
<1> QED BY <1>1, <1>2, <1>3, <1>4, <1>5, <1>6, <1>7, <1>8 DEF Next, HandlerStep

-----------------------------------------------------------------------------
(* The order of a record's edits.                                             *)
LEMMA StartedJobs == TypeOK /\ Running /\ OneRequest /\ Ordered => Started \subseteq DOMAIN jobs
BY DEF Running, OneRequest, Ordered, Started

(* A step after which no more jobs have started than before keeps their       *)
(* order.                                                                     *)
LEMMA OrderedIf ==
  ASSUME TypeOK, Running, OneRequest, Ordered, SameEdits, Started' \subseteq Started,
         reached'.jobs \subseteq Started
  PROVE  Ordered'
BY StartedJobs DEF Ordered, SameEdits, Final

(* Every step keeps the order: only Begin starts a job, and it looks at the   *)
(* earlier ones first.                                                        *)
LEMMA OrderedStep ==
  ASSUME TypeOK, Running, OneRequest, Ordered, [Next]_vars
  PROVE  Ordered'
<1>1. ASSUME NEW r \in Loc, Edit(r) PROVE Ordered'
  <2>1. Started' = Started /\ Started \subseteq DOMAIN jobs  BY <1>1, Queued, StartedJobs DEF Started
  <2>2. \A k \in Started : k < Len(jobs) + 1 /\ jobs'[k] = jobs[k]  BY <1>1, <2>1, Queued
  <2>3. \A k \in Started : \A j \in DOMAIN jobs' : j < k => j \in DOMAIN jobs /\ jobs'[j] = jobs[j]
    BY <1>1, <2>1, <2>2, Queued, RowsTyped
  <2> QED BY <1>1, <2>1, <2>2, <2>3, Queued DEF Ordered
<1>2. ASSUME NEW j \in DOMAIN jobs, Cancel(j) \/ GiveUp(j) PROVE Ordered'
  BY <1>2, Marked, OrderedIf DEF Started
<1>3. ASSUME NEW j \in DOMAIN jobs, Begin(j) PROVE Ordered'
  <2>1. Started' = Started \cup {j}  BY <1>3, Beginning DEF Started
  <2>2. ASSUME NEW k \in DOMAIN jobs, k < j, jobs[k].rec = jobs[j].rec
        PROVE  jobs[k].st \in Final
    BY <1>3, <2>2 DEF Begin, Earlier, Unsettled, Final
  <2>3. Started \subseteq DOMAIN jobs  BY StartedJobs
  <2>4. /\ SameEdits /\ reached' = reached
        /\ \A k \in DOMAIN jobs : jobs[k].st \in Final => jobs'[k].st = jobs[k].st
    BY <1>3, Beginning DEF SameEdits
  <2>5. \A k \in Started' : \A i \in DOMAIN jobs :
          i < k /\ jobs[i].rec = jobs[k].rec => jobs[i].st \in Final
    BY <2>1, <2>2 DEF Ordered, Final
  <2> QED BY <2>1, <2>3, <2>4, <2>5 DEF Ordered, SameEdits, Final
<1>4. CASE Busy \/ Refused \/ Lose \/ Store \/ CrashWork \/ (Ask /\ work' = Idle)
  <2>1. SameEdits /\ work' = Idle  BY <1>4, Ends, Settling DEF Settles, Status
  <2>2. Started' \subseteq Started /\ reached'.jobs \subseteq Started
    BY <1>4, <2>1, Ends DEF Started, Idle
  <2> QED BY <2>1, <2>2, OrderedIf
<1>5. CASE Ask /\ work' # Idle
  <2>1. Started' \subseteq Started /\ reached'.jobs \subseteq Started /\ UNCHANGED jobs
    BY <1>5, Asking, RowsTyped DEF Started
  <2> QED BY <2>1, NoStatus, OrderedIf
<1>6. CASE Applied
  <2>1. Started' \subseteq Started /\ reached'.jobs \subseteq Started /\ UNCHANGED jobs
    BY <1>6, Going DEF Started
  <2> QED BY <2>1, NoStatus, OrderedIf
<1>7. ASSUME NEW r \in wire, Serve(r) PROVE Ordered'
  <2>1. Started' \subseteq Started /\ reached'.jobs \subseteq Started /\ UNCHANGED jobs
    BY <1>7, Serving DEF Started
  <2> QED BY <2>1, NoStatus, OrderedIf
<1>8. CASE OtherClient \/ Synchronise \/ CrashSync \/ UNCHANGED vars
  BY <1>8, Quietly, NoStatus, OrderedIf DEF Quiet, Started
<1> QED BY <1>1, <1>2, <1>3, <1>4, <1>5, <1>6, <1>7, <1>8 DEF Next, HandlerStep

(* A request of an earlier edit is not served after a later one.              *)
LEMMA InOrderStep ==
  ASSUME TypeOK, Running, OneRequest, Ordered, InOrder, [Next]_vars
  PROVE  InOrder'
<1>1. ASSUME NEW r \in wire, Serve(r) PROVE InOrder'
  <2>1. r.job \in DOMAIN jobs /\ r.job # 0 /\ jobs[r.job].st \notin {"completed", "cancelled"}
    <3>1. r.job \in DOMAIN jobs /\ r.job # 0  BY RowsTyped DEF OneRequest
    <3>2. jobs[r.job].st = "unknown" \/ work.job = r.job  BY DEF OneRequest, Waits
    <3>3. work.job = r.job => jobs[r.job].st = "running"  BY <3>1 DEF TypeOK
    <3> QED BY <3>1, <3>2, <3>3
  <2>2. \A k \in reached.jobs : ~(k > r.job /\ jobs[k].rec = jobs[r.job].rec)
    BY <2>1, RowsTyped DEF Ordered, Started
  <2>3. reached \in [jobs : SUBSET Job, late : BOOLEAN]  BY DEF TypeOK
  <2> QED BY <1>1, <2>2, <2>3 DEF Serve, InOrder
<1>2. CASE ~\E r \in wire : Serve(r)
  <2>1. reached' = reached
    <3>1. CASE \E r \in Loc : Edit(r)  BY <3>1, Queued
    <3>2. CASE \E j \in DOMAIN jobs : Cancel(j) \/ Begin(j) \/ GiveUp(j)  BY <3>2, Marked, Beginning
    <3>3. CASE Busy \/ Refused \/ Lose \/ Store \/ CrashWork \/ Ask  BY <3>3, Ends, Asking
    <3>4. CASE Applied  BY <3>4, Going
    <3>5. CASE OtherClient \/ Synchronise \/ CrashSync \/ UNCHANGED vars  BY <3>5, Quietly DEF Quiet
    <3> QED BY <1>2, <3>1, <3>2, <3>3, <3>4, <3>5 DEF Next, HandlerStep
  <2> QED BY <2>1 DEF InOrder
<1> QED BY <1>1, <1>2

-----------------------------------------------------------------------------
(* What the user sees.                                                        *)
LastFlag(r) == LastEdit(r, LAMBDA p : p.flag, "none")
LastFolder(r) == LastEdit(r, LAMBDA p : p.folder, NoFolder)

(* An edit that is unsettled and the last of its field is the one that         *)
(* preservePending lays over what was listed.                                  *)
LEMMA FlagKept ==
  ASSUME TypeOK, NEW r, NEW m, NEW j \in LastFlag(r) \cap Unsettled(r)
  PROVE  Preserve(r, m).flag = jobs[j].patch.flag
<1> DEFINE js == {k \in Unsettled(r) : jobs[k].patch.flag # "none"}
           last == CHOOSE k \in js : \A i \in js : i <= k
<1>1. js \subseteq Nat /\ j \in js  BY RowsTyped DEF LastFlag, LastEdit, Unsettled
<1>2. \A k \in js : k <= j
  <2> SUFFICES ASSUME NEW k \in js, k > j PROVE FALSE  BY <1>1
  <2> QED BY DEF LastFlag, LastEdit, Unsettled
<1>3. last \in js /\ \A i \in js : i <= last  BY <1>1, <1>2
<1>4. last = j  BY <1>1, <1>2, <1>3
<1>5. Preserve(r, m).flag = IF js = {} THEN m.flag ELSE jobs[last].patch.flag
  BY DEF Preserve, Latest
<1> HIDE DEF js, last
<1> QED BY <1>1, <1>4, <1>5

(* The same of the folder.                                                    *)
LEMMA FolderKept ==
  ASSUME TypeOK, NEW r, NEW m, NEW j \in LastFolder(r) \cap Unsettled(r)
  PROVE  Preserve(r, m).folder = jobs[j].patch.folder
<1> DEFINE js == {k \in Unsettled(r) : jobs[k].patch.folder # NoFolder}
           last == CHOOSE k \in js : \A i \in js : i <= k
<1>1. js \subseteq Nat /\ j \in js  BY RowsTyped DEF LastFolder, LastEdit, Unsettled
<1>2. \A k \in js : k <= j
  <2> SUFFICES ASSUME NEW k \in js, k > j PROVE FALSE  BY <1>1
  <2> QED BY DEF LastFolder, LastEdit, Unsettled
<1>3. last \in js /\ \A i \in js : i <= last  BY <1>1, <1>2
<1>4. last = j  BY <1>1, <1>2, <1>3
<1>5. Preserve(r, m).folder = IF js = {} THEN m.folder ELSE jobs[last].patch.folder
  BY DEF Preserve, Latest
<1> HIDE DEF js, last
<1> QED BY <1>1, <1>4, <1>5

(* Whatever the jobs are, it is a value of the field.                          *)
LEMMA PreservedTyped ==
  ASSUME TypeOK, NEW r, NEW m, m.flag \in Flag, m.folder \in Folder \cup {NoFolder}
  PROVE  Preserve(r, m).flag \in Flag /\ Preserve(r, m).folder \in Folder \cup {NoFolder}
<1>0. Unsettled(r) \subseteq 1..Len(jobs) /\ Len(jobs) \in Nat
      /\ \A k \in Unsettled(r) : jobs[k].patch \in Patch
  BY RowsTyped DEF Row, Unsettled
<1>1. Preserve(r, m).flag \in Flag
  <2> DEFINE js == {k \in Unsettled(r) : jobs[k].patch.flag # "none"}
             last == CHOOSE k \in js : \A i \in js : i <= k
  <2>1. Preserve(r, m).flag = IF js = {} THEN m.flag ELSE jobs[last].patch.flag
    BY DEF Preserve, Latest
  <2>2. js # {} => \E k \in js : \A i \in js : i <= k
    <3>1. js \subseteq Unsettled(r)  OBVIOUS
    <3> HIDE DEF js
    <3> QED BY <1>0, <3>1, Topmost
  <2>3. js # {} => last \in js  BY <2>2
  <2>4. \A k \in js : jobs[k].patch.flag \in Flag  BY <1>0 DEF Patch
  <2> HIDE DEF js, last
  <2> QED BY <2>1, <2>3, <2>4
<1>2. Preserve(r, m).folder \in Folder \cup {NoFolder}
  <2> DEFINE js == {k \in Unsettled(r) : jobs[k].patch.folder # NoFolder}
             last == CHOOSE k \in js : \A i \in js : i <= k
  <2>1. Preserve(r, m).folder = IF js = {} THEN m.folder ELSE jobs[last].patch.folder
    BY DEF Preserve, Latest
  <2>2. js # {} => \E k \in js : \A i \in js : i <= k
    <3>1. js \subseteq Unsettled(r)  OBVIOUS
    <3> HIDE DEF js
    <3> QED BY <1>0, <3>1, Topmost
  <2>3. js # {} => last \in js  BY <2>2
  <2>4. \A k \in js : jobs[k].patch.folder \in Folder \cup {NoFolder}  BY <1>0 DEF Patch
  <2> HIDE DEF js, last
  <2> QED BY <2>1, <2>3, <2>4
<1> QED BY <1>1, <1>2

(* A step that changes neither the edits nor what the user sees keeps both in *)
(* agreement.                                                                 *)
LEMMA EditsStayIf ==
  ASSUME TypeOK, EditsStay, SameEdits,
         \A r \in Loc : ~recs'[r].deleted => /\ ~recs[r].deleted /\ recs'[r].flag = recs[r].flag
                                             /\ recs'[r].folder = recs[r].folder
  PROVE  EditsStay'
<1> SUFFICES ASSUME NEW r \in Loc, ~recs'[r].deleted
             PROVE  /\ \A j \in LastFlag(r)' \cap Unsettled(r)' : recs'[r].flag = jobs'[j].patch.flag
                    /\ \A j \in LastFolder(r)' \cap Unsettled(r)' : recs'[r].folder = jobs'[j].patch.folder
  BY DEF EditsStay, LastFlag, LastFolder
<1>1. Unsettled(r)' \subseteq Unsettled(r) /\ Unsettled(r) \subseteq DOMAIN jobs
  BY DEF Unsettled, SameEdits, Final
<1>2. LastFlag(r)' \subseteq LastFlag(r) /\ LastFolder(r)' \subseteq LastFolder(r)
  BY DEF LastFlag, LastFolder, LastEdit, SameEdits
<1>3. /\ \A j \in LastFlag(r) \cap Unsettled(r) : recs[r].flag = jobs[j].patch.flag
      /\ \A j \in LastFolder(r) \cap Unsettled(r) : recs[r].folder = jobs[j].patch.folder
  BY DEF EditsStay, LastFlag, LastFolder
<1> QED BY <1>1, <1>2, <1>3 DEF SameEdits

(* Only an edit and an ingestion change what the user sees of a record.       *)
LEMMA RecordsKept ==
  ASSUME TypeOK, Running, [Next]_vars, ~Ingest, ~\E r \in Loc : Edit(r)
  PROVE  \A r \in Loc : /\ recs'[r].deleted = recs[r].deleted /\ recs'[r].flag = recs[r].flag
                        /\ recs'[r].folder = recs[r].folder /\ recs'[r].in = recs[r].in
<1>1. CASE Store
  <2>1. recs \in [Loc -> [in : BOOLEAN, deleted : BOOLEAN, pid : Loc, folder : Folder \cup {NoFolder}, flag : Flag]]
    BY DEF TypeOK
  <2> QED BY <1>1, <2>1 DEF Store
<1>2. CASE ~Store
  <2>1. CASE \E j \in DOMAIN jobs : Cancel(j) \/ Begin(j) \/ GiveUp(j)
    BY <2>1 DEF Cancel, Begin, GiveUp
  <2>2. CASE OtherClient \/ Busy \/ Ask \/ Applied \/ Refused \/ Lose \/ CrashWork
    BY <2>2 DEF OtherClient, Busy, Ask, Applied, Refused, Lose, CrashWork, Abandon
  <2>3. CASE StartSync \/ Call \/ Stage \/ Acknowledge \/ CrashSync
    BY <2>3 DEF StartSync, Call, Stage, Acknowledge, CrashSync
  <2>4. CASE \E r \in wire : Serve(r)
    BY <2>4 DEF Serve
  <2>5. CASE UNCHANGED vars
    BY <2>5 DEF vars
  <2> QED BY <1>2, <2>1, <2>2, <2>3, <2>4, <2>5 DEF Next, HandlerStep, Synchronise
<1> QED BY <1>1, <1>2

(* Ingesting a listed message leaves the unsettled edits on the screen.       *)
LEMMA IngestStays ==
  ASSUME TypeOK, EditsStay, Ingest
  PROVE  EditsStay'
<1> DEFINE m == batch.msgs[fetch.i + 1]
           new == [in |-> TRUE, pid |-> m.pid, folder |-> Preserve(m.rec, m).folder,
                   flag |-> Preserve(m.rec, m).flag,
                   deleted |-> recs[m.rec].deleted /\ Unsettled(m.rec) # {}]
<1>1. /\ UNCHANGED jobs
      /\ \/ m.del /\ recs' = [recs EXCEPT ![m.rec].deleted = TRUE]
         \/ recs' = recs
         \/ recs' = [recs EXCEPT ![m.rec] = new]
  BY DEF Ingest, writeback
<1>2. recs \in [Loc -> [in : BOOLEAN, deleted : BOOLEAN, pid : Loc, folder : Folder \cup {NoFolder}, flag : Flag]]
  BY DEF TypeOK
<1>3. SameEdits  BY <1>1, NoStatus
<1>4. CASE recs' = recs  BY <1>3, <1>4, EditsStayIf
<1>5. CASE m.del /\ recs' = [recs EXCEPT ![m.rec].deleted = TRUE]
  <2> HIDE DEF m
  <2>1. \A r \in Loc : ~recs'[r].deleted => recs'[r] = recs[r]  BY <1>2, <1>5
  <2> QED BY <1>3, <2>1, EditsStayIf
<1>6. CASE recs' = [recs EXCEPT ![m.rec] = new]
  <2> SUFFICES ASSUME NEW r \in Loc, ~recs'[r].deleted
               PROVE  /\ \A j \in LastFlag(r) \cap Unsettled(r) : recs'[r].flag = jobs[j].patch.flag
                      /\ \A j \in LastFolder(r) \cap Unsettled(r) : recs'[r].folder = jobs[j].patch.folder
    <3> SUFFICES ASSUME NEW r \in Loc, ~recs'[r].deleted
                 PROVE  /\ \A j \in LastFlag(r)' \cap Unsettled(r)' : recs'[r].flag = jobs'[j].patch.flag
                        /\ \A j \in LastFolder(r)' \cap Unsettled(r)' : recs'[r].folder = jobs'[j].patch.folder
      BY DEF EditsStay, LastFlag, LastFolder
    <3>1. /\ LastFlag(r)' = LastFlag(r) /\ LastFolder(r)' = LastFolder(r)
          /\ Unsettled(r)' = Unsettled(r)
      BY <1>1 DEF LastFlag, LastFolder, LastEdit, Unsettled
    <3> QED BY <1>1, <3>1
  <2>1. CASE r = m.rec
    <3>1. recs'[r].flag = Preserve(r, m).flag /\ recs'[r].folder = Preserve(r, m).folder
      BY <1>2, <1>6, <2>1
    <3> HIDE DEF m
    <3> QED BY <3>1, FlagKept, FolderKept
  <2>2. CASE r # m.rec
    <3> HIDE DEF m, new
    <3>1. recs'[r] = recs[r]  BY <1>2, <1>6, <2>2
    <3> QED BY <3>1 DEF EditsStay, LastFlag, LastFolder
  <2> QED BY <2>1, <2>2
<1> QED BY <1>1, <1>4, <1>5, <1>6

(* A new edit is the last one of the fields it changes, and the user sees it. *)
LEMMA EditStays ==
  ASSUME TypeOK, Running, EditsStay, NEW r \in Loc, Edit(r)
  PROVE  EditsStay'
<1> DEFINE n == Len(jobs) + 1
<1>1. /\ DOMAIN jobs' = DOMAIN jobs \cup {n} /\ n \notin DOMAIN jobs
      /\ \A k \in DOMAIN jobs : jobs'[k] = jobs[k] /\ k < n
      /\ jobs'[n].rec = r /\ n \in Nat /\ DOMAIN jobs \subseteq Nat
  <2>1. n \in Nat /\ DOMAIN jobs \subseteq Nat  BY RowsTyped
  <2> QED BY <2>1, Queued
<1>2. recs \in [Loc -> [in : BOOLEAN, deleted : BOOLEAN, pid : Loc, folder : Folder \cup {NoFolder}, flag : Flag]]
  BY DEF TypeOK
<1>3. \A q \in Loc : q # r => recs'[q] = recs[q]  BY <1>2 DEF Edit
<1>4. recs'[r].deleted \/ ( /\ ~recs[r].deleted
                            /\ IF recs'[r].flag = recs[r].flag THEN jobs'[n].patch.flag = "none"
                               ELSE jobs'[n].patch.flag = recs'[r].flag /\ recs'[r].flag # "none"
                            /\ IF recs'[r].folder = recs[r].folder THEN jobs'[n].patch.folder = NoFolder
                               ELSE jobs'[n].patch.folder = recs'[r].folder /\ recs'[r].folder # NoFolder)
  <2>1. ~recs[r].deleted  BY DEF Edit
  <2>2. CASE \E flag \in Flag, folder \in Folder :
               /\ recs' = [recs EXCEPT ![r].flag = flag, ![r].folder = folder]
               /\ Queue(r, [flag |-> IF flag = recs[r].flag THEN "none" ELSE flag,
                            folder |-> IF folder = recs[r].folder THEN NoFolder ELSE folder])
    <3>1. PICK flag \in Flag, folder \in Folder :
               /\ recs' = [recs EXCEPT ![r].flag = flag, ![r].folder = folder]
               /\ Queue(r, [flag |-> IF flag = recs[r].flag THEN "none" ELSE flag,
                            folder |-> IF folder = recs[r].folder THEN NoFolder ELSE folder])
      BY <2>2
    <3>2. recs'[r].flag = flag /\ recs'[r].folder = folder  BY <1>2, <3>1
    <3>3. jobs'[n].patch = [flag |-> IF flag = recs[r].flag THEN "none" ELSE flag,
                            folder |-> IF folder = recs[r].folder THEN NoFolder ELSE folder]
      BY <3>1, RowsTyped DEF Queue
    <3> QED BY <2>1, <3>2, <3>3, MailAssumption DEF Flag
  <2>3. CASE recs' = [recs EXCEPT ![r].deleted = TRUE]  BY <1>2, <2>3
  <2> QED BY <2>2, <2>3 DEF Edit
<1>5. \A k \in DOMAIN jobs : jobs'[k].rec = jobs[k].rec /\ jobs'[k].patch = jobs[k].patch /\ jobs'[k].st = jobs[k].st
  BY <1>1
<1> SUFFICES ASSUME NEW q \in Loc, ~recs'[q].deleted
             PROVE  /\ \A j \in LastFlag(q)' \cap Unsettled(q)' : recs'[q].flag = jobs'[j].patch.flag
                    /\ \A j \in LastFolder(q)' \cap Unsettled(q)' : recs'[q].folder = jobs'[j].patch.folder
  BY DEF EditsStay, LastFlag, LastFolder
<1> HIDE DEF n
<1>6. ~recs[q].deleted  BY <1>3, <1>4
<1>7. ASSUME NEW j \in LastFlag(q)' \cap Unsettled(q)' PROVE recs'[q].flag = jobs'[j].patch.flag
  <2>1. /\ j \in DOMAIN jobs' /\ jobs'[j].rec = q /\ jobs'[j].patch.flag # "none"
        /\ \A k \in DOMAIN jobs' : k > j => jobs'[k].rec # q \/ jobs'[k].patch.flag = "none"
        /\ jobs'[j].st \notin Final
    BY DEF LastFlag, LastEdit, Unsettled, Final
  <2>2. CASE j = n  BY <1>1, <1>4, <2>1, <2>2
  <2>3. CASE j # n
    <3>1. j \in LastFlag(q) \cap Unsettled(q)
      BY <1>1, <1>5, <2>1, <2>3 DEF LastFlag, LastEdit, Unsettled, Final
    <3>2. recs[q].flag = jobs[j].patch.flag  BY <1>6, <3>1 DEF EditsStay, LastFlag
    <3>3. recs'[q].flag = recs[q].flag
      BY <1>1, <1>3, <1>4, <2>1, <2>3
    <3> QED BY <1>1, <1>5, <2>1, <2>3, <3>2, <3>3
  <2> QED BY <2>2, <2>3
<1>8. ASSUME NEW j \in LastFolder(q)' \cap Unsettled(q)' PROVE recs'[q].folder = jobs'[j].patch.folder
  <2>1. /\ j \in DOMAIN jobs' /\ jobs'[j].rec = q /\ jobs'[j].patch.folder # NoFolder
        /\ \A k \in DOMAIN jobs' : k > j => jobs'[k].rec # q \/ jobs'[k].patch.folder = NoFolder
        /\ jobs'[j].st \notin Final
    BY DEF LastFolder, LastEdit, Unsettled, Final
  <2>2. CASE j = n  BY <1>1, <1>4, <2>1, <2>2
  <2>3. CASE j # n
    <3>1. j \in LastFolder(q) \cap Unsettled(q)
      BY <1>1, <1>5, <2>1, <2>3 DEF LastFolder, LastEdit, Unsettled, Final
    <3>2. recs[q].folder = jobs[j].patch.folder  BY <1>6, <3>1 DEF EditsStay, LastFolder
    <3>3. recs'[q].folder = recs[q].folder
      BY <1>1, <1>3, <1>4, <2>1, <2>3
    <3> QED BY <1>1, <1>5, <2>1, <2>3, <3>2, <3>3
  <2> QED BY <2>2, <2>3
<1> QED BY <1>7, <1>8

(* Every other step leaves what the user sees alone.                          *)
LEMMA SameEditsStep ==
  ASSUME TypeOK, Running, [Next]_vars, ~\E r \in Loc : Edit(r)
  PROVE  SameEdits
<1>1. CASE \E j \in DOMAIN jobs : Cancel(j) \/ Begin(j) \/ GiveUp(j)  BY <1>1, Marked, Beginning
<1>2. CASE Busy \/ Refused \/ Lose \/ Store \/ CrashWork \/ (Ask /\ work' = Idle)
  BY <1>2, Ends, Settling DEF Settles, Status
<1>3. CASE Ask /\ work' # Idle  BY <1>3, Asking, NoStatus
<1>4. CASE Applied  BY <1>4, Going, NoStatus
<1>5. CASE \E r \in wire : Serve(r)  BY <1>5, Serving, NoStatus
<1>6. CASE OtherClient \/ Synchronise \/ CrashSync \/ UNCHANGED vars  BY <1>6, Quietly, NoStatus DEF Quiet
<1> QED BY <1>1, <1>2, <1>3, <1>4, <1>5, <1>6 DEF Next, HandlerStep

(* Every step leaves the unsettled edits on the screen.                       *)
LEMMA EditsStayStep ==
  ASSUME TypeOK, Running, EditsStay, [Next]_vars
  PROVE  EditsStay'
<1>1. CASE \E r \in Loc : Edit(r)  BY <1>1, EditStays
<1>2. CASE Ingest  BY <1>2, IngestStays
<1>3. CASE ~Ingest /\ ~\E r \in Loc : Edit(r)
  BY <1>3, RecordsKept, SameEditsStep, EditsStayIf
<1> QED BY <1>1, <1>2, <1>3

-----------------------------------------------------------------------------
(* How often the message can still move, and change.                          *)
LEMMA Counts ==
  /\ IsFiniteSet(Movers) /\ IsFiniteSet(Flaggers) /\ IsFiniteSet(Homes)
  /\ Cardinality(Movers) \in Nat /\ Cardinality(Flaggers) \in Nat /\ Cardinality(Homes) \in Nat
<1>1. MaxEdits \in Nat /\ MaxLoc \in Nat  BY MailboxAssumption, MailAssumption
<1>2. IsFiniteSet(Job) /\ IsFiniteSet(Loc)  BY <1>1, FS_Interval DEF Job, Loc
<1>3. Movers \in SUBSET Job /\ Flaggers \in SUBSET Job /\ Homes \in SUBSET Loc
  BY DEF Movers, Flaggers, Homes
<1>4. IsFiniteSet(Movers) /\ IsFiniteSet(Flaggers) /\ IsFiniteSet(Homes)
  BY <1>2, <1>3, FS_Subset
<1> QED BY <1>4, FS_CardinalityType

(* The same after a step.                                                     *)
LEMMA CountsNext ==
  /\ IsFiniteSet(Movers') /\ IsFiniteSet(Flaggers') /\ IsFiniteSet(Homes')
  /\ Cardinality(Movers') \in Nat /\ Cardinality(Flaggers') \in Nat /\ Cardinality(Homes') \in Nat
<1>1. MaxEdits \in Nat /\ MaxLoc \in Nat  BY MailboxAssumption, MailAssumption
<1>2. IsFiniteSet(Job) /\ IsFiniteSet(Loc)  BY <1>1, FS_Interval DEF Job, Loc
<1>3. Movers' \in SUBSET Job /\ Flaggers' \in SUBSET Job /\ Homes' \in SUBSET Loc
  BY DEF Movers, Flaggers, Homes
<1>4. IsFiniteSet(Movers') /\ IsFiniteSet(Flaggers') /\ IsFiniteSet(Homes')
  BY <1>2, <1>3, FS_Subset
<1> QED BY <1>4, FS_CardinalityType

(* A subset that lacks a member has one member less at least.                 *)
LEMMA FewerLeft ==
  ASSUME NEW S, IsFiniteSet(S), NEW T \in SUBSET S, NEW x \in S, x \notin T
  PROVE  Cardinality(T) + 1 <= Cardinality(S)
<1>1. IsFiniteSet(T) /\ Cardinality(T) <= Cardinality(S) /\ Cardinality(T) # Cardinality(S)
  BY FS_Subset
<1>2. Cardinality(T) \in Nat /\ Cardinality(S) \in Nat  BY <1>1, FS_CardinalityType
<1> QED BY <1>1, <1>2

(* While fewer identifiers are used up than there are, a move finds a fresh   *)
(* one.                                                                       *)
LEMMA FreshHome ==
  ASSUME Cardinality(Homes) < MaxLoc
  PROVE  Fresh \in Loc /\ home[Fresh] = NoFolder
<1> DEFINE E == {p \in Loc : home[p] = NoFolder}
<1>1. MaxLoc \in Nat \ {0}  BY MailAssumption
<1>2. E # {}
  <2> SUFFICES ASSUME E = {} PROVE FALSE  OBVIOUS
  <2>1. Homes = Loc  BY DEF Homes
  <2>2. Cardinality(Loc) = MaxLoc  BY <1>1, FS_Interval DEF Loc
  <2> QED BY <1>1, <2>1, <2>2
<1>3. E \in SUBSET Nat  BY <1>1 DEF Loc
<1>4. \E p \in E : \A q \in E : p <= q
  <2> HIDE DEF E
  <2> QED BY <1>2, <1>3, Least
<1> QED BY <1>4 DEF Fresh

(* A change of the message uses up an identifier only when it moves.           *)
LEMMA Moving ==
  ASSUME TypeOK, Homed, srv.loc # 0, NEW folder \in Folder, NEW flag \in Flag, MoveTo(folder, flag),
         folder # srv.folder => Cardinality(Homes) < MaxLoc,
         <<folder, flag>> # <<srv.folder, srv.flag>> => srv.ver < MaxVer
  PROVE  /\ srv' \in [loc : 0..MaxLoc, folder : Folder, flag : Flag, ver : 0..MaxVer]
         /\ srv'.loc \in Loc /\ home' \in [Loc -> Folder \cup {NoFolder}]
         /\ Homed' /\ Homes \subseteq Homes'
         /\ Cardinality(Homes') <= IF folder = srv.folder THEN Cardinality(Homes) ELSE Cardinality(Homes) + 1
         /\ srv'.ver <= IF folder = srv.folder /\ flag = srv.flag THEN srv.ver ELSE srv.ver + 1
<1>1. /\ srv \in [loc : 0..MaxLoc, folder : Folder, flag : Flag, ver : 0..MaxVer]
      /\ home \in [Loc -> Folder \cup {NoFolder}] /\ MaxLoc \in Nat /\ MaxVer \in Nat
      /\ NoFolder \notin Folder /\ home[srv.loc] = srv.folder /\ srv.loc \in Loc
  <2>1. /\ srv \in [loc : 0..MaxLoc, folder : Folder, flag : Flag, ver : 0..MaxVer]
        /\ home \in [Loc -> Folder \cup {NoFolder}]
    BY DEF TypeOK
  <2>2. MaxLoc \in Nat /\ MaxVer \in Nat /\ NoFolder \notin Folder  BY MailAssumption
  <2> QED BY <2>1, <2>2 DEF Homed, Loc
<1>2. PICK loc \in Loc :
        /\ srv' = [loc |-> loc, folder |-> folder, flag |-> flag,
                   ver |-> IF <<folder, flag>> = <<srv.folder, srv.flag>> THEN srv.ver ELSE srv.ver + 1]
        /\ home' = [home EXCEPT ![loc] = folder]
        /\ folder = srv.folder => loc = srv.loc
  BY <1>1, FreshHome DEF MoveTo
<1>3. srv'.loc = loc /\ srv'.folder = folder /\ srv'.flag = flag
      /\ srv'.ver = IF folder = srv.folder /\ flag = srv.flag THEN srv.ver ELSE srv.ver + 1
  BY <1>2
<1>4. srv' \in [loc : 0..MaxLoc, folder : Folder, flag : Flag, ver : 0..MaxVer]
  BY <1>1, <1>2, <1>3 DEF Loc
<1>5. home' \in [Loc -> Folder \cup {NoFolder}] /\ home'[loc] = folder
      /\ \A p \in Loc : p # loc => home'[p] = home[p]
  BY <1>1, <1>2
<1>6. Homes' = Homes \cup {loc}  BY <1>1, <1>5 DEF Homes
<1>7. folder = srv.folder => loc \in Homes  BY <1>1, <1>2 DEF Homes
<1>8. Cardinality(Homes') <= IF folder = srv.folder THEN Cardinality(Homes) ELSE Cardinality(Homes) + 1
  <2>1. Cardinality(Homes') = IF loc \in Homes THEN Cardinality(Homes) ELSE Cardinality(Homes) + 1
    BY <1>6, Counts, FS_AddElement
  <2> QED BY <1>7, <2>1, Counts
<1> QED BY <1>1, <1>2, <1>3, <1>4, <1>5, <1>6, <1>8 DEF Homed

(* No step gives a job another move, or another change.                       *)
LEMMA MoversStep ==
  ASSUME TypeOK, Running, [Next]_vars
  PROVE  Movers' \subseteq Movers /\ Flaggers' \subseteq Flaggers
<1>0. \A j \in Job : j \in Nat /\ j # 0 /\ (j \in DOMAIN jobs \/ j > Len(jobs))
  BY RowsTyped, MailboxAssumption DEF Job
<1>1. ASSUME NEW r \in Loc, Edit(r) PROVE Movers' \subseteq Movers /\ Flaggers' \subseteq Flaggers
  <2>1. \A j \in Job : Ahead(j)' => Ahead(j)
    BY <1>0, <1>1, Queued, RowsTyped DEF Ahead
  <2> QED BY <1>1, <2>1, Queued DEF Movers, Flaggers
<1>2. ASSUME NEW i \in DOMAIN jobs, Cancel(i) \/ GiveUp(i)
      PROVE  Movers' \subseteq Movers /\ Flaggers' \subseteq Flaggers
  <2>1. \A j \in Job : Ahead(j)' => Ahead(j)
    BY <1>0, <1>2, Marked DEF Ahead, SameEdits
  <2> QED BY <1>2, <2>1, Marked DEF Movers, Flaggers
<1>3. ASSUME NEW i \in DOMAIN jobs, Begin(i) PROVE Movers' \subseteq Movers /\ Flaggers' \subseteq Flaggers
  <2>1. \A j \in Job : Ahead(j)' => Ahead(j)
    BY <1>0, <1>3, Beginning DEF Ahead, SameEdits
  <2>2. work'.pc = "ask" /\ wire' = wire  BY <1>3, Beginning
  <2> QED BY <2>1, <2>2 DEF Movers, Flaggers
<1>4. CASE Busy \/ Refused \/ Lose \/ Store \/ CrashWork \/ (Ask /\ work' = Idle)
  <2>1. PICK st \in Status : Settle(st) /\ (st = "pending" => work.pc = "ask")
    BY <1>4, Ends DEF Settles, Status
  <2>2. work.pc # "idle" /\ wire' = wire  BY <1>4, Ends DEF Settles
  <2>3. SameEdits /\ work' = Idle /\ \A k \in DOMAIN jobs : jobs'[k].st = IF k = work.job THEN st ELSE jobs[k].st
    BY <2>1, <2>2, Settling
  <2>4. work'.job = 0 /\ work'.pc = "idle"  BY <2>3 DEF Idle
  <2>5. \A j \in Job : Ahead(j)' => Ahead(j)
    BY <1>0, <2>1, <2>3, <2>4 DEF Ahead, SameEdits
  <2> QED BY <2>2, <2>4, <2>5 DEF Movers, Flaggers
<1>5. CASE Ask /\ work' # Idle
  <2> DEFINE new == [job |-> work.job, pid |-> Current(work.orig), patch |-> First(jobs[work.job].patch)]
  <2>1. /\ wire' = wire \cup {new} /\ UNCHANGED jobs /\ work.pc = "ask" /\ new.job = work.job
        /\ work'.job = work.job /\ work'.pc = "wait"
    BY <1>5, Asking
  <2> HIDE DEF new
  <2> QED BY <2>1 DEF Movers, Flaggers, Ahead
<1>6. CASE Applied
  <2>1. /\ work.pc = "wait" /\ UNCHANGED jobs /\ work'.job = work.job /\ work.todo \in Patch
        /\ work'.pc \in {"wait", "store"}
    BY <1>6, Going DEF TypeOK
  <2>2. \A j \in Job : Ahead(j)' => Ahead(j)  BY <2>1 DEF Ahead
  <2>3. CASE work'.pc = "store" /\ wire' = wire
    BY <2>1, <2>2, <2>3 DEF Movers, Flaggers
  <2>4. CASE ~(work'.pc = "store" /\ wire' = wire)
    <3> DEFINE new == [job |-> work.job, pid |-> work.res, patch |-> First(work.todo)]
    <3>1. wire' = wire \cup {new} /\ work'.pc = "wait" /\ work'.todo = Rest(work.todo)
      BY <1>6, <2>4, Going
    <3>2. /\ new.job = work.job
          /\ new.patch.folder # NoFolder => work.todo.folder # NoFolder
          /\ new.patch.flag # "none" => work.todo.flag # "none"
          /\ work'.todo.folder # NoFolder => work.todo.folder # NoFolder
          /\ work'.todo.flag # "none" => work.todo.flag # "none"
      BY <2>1, <3>1, OneAfterTheOther
    <3> HIDE DEF new
    <3> QED BY <2>1, <2>2, <3>1, <3>2 DEF Movers, Flaggers
  <2> QED BY <2>3, <2>4
<1>7. ASSUME NEW r \in wire, Serve(r) PROVE Movers' \subseteq Movers /\ Flaggers' \subseteq Flaggers
  BY <1>7, Serving DEF Movers, Flaggers, Ahead
<1>8. CASE OtherClient \/ Synchronise \/ CrashSync \/ UNCHANGED vars
  BY <1>8, Quietly DEF Movers, Flaggers, Ahead, Quiet
<1> QED BY <1>1, <1>2, <1>3, <1>4, <1>5, <1>6, <1>7, <1>8 DEF Next, HandlerStep

(* A request that is served was one of a job's, and is not made again.        *)
LEMMA ServedOnce ==
  ASSUME TypeOK, Running, OneRequest, NEW r \in wire, Serve(r)
  PROVE  /\ r.patch.folder # NoFolder => r.job \in Movers /\ r.job \notin Movers'
         /\ r.patch.flag # "none" => r.job \in Flaggers /\ r.job \notin Flaggers'
<1>1. r.job \in DOMAIN jobs /\ r.job \in Job /\ r.job # 0 /\ r.job <= Len(jobs)
      /\ (jobs[r.job].st = "unknown" \/ Waits(r))
  <2>1. r.job \in Job  BY DEF TypeOK
  <2>2. r.job \in DOMAIN jobs /\ (jobs[r.job].st = "unknown" \/ Waits(r))  BY DEF OneRequest
  <2> QED BY <2>1, <2>2, RowsTyped
<1>2. work.job = r.job => jobs[r.job].st = "running"  BY <1>1 DEF TypeOK
<1>3. Waits(r) \/ work.job # r.job  BY <1>1, <1>2
<1>4. jobs[r.job].st \in {"unknown", "running"}  BY <1>1, <1>2 DEF Waits
<1>5. /\ UNCHANGED jobs /\ wire' = wire \ {r} /\ work'.job = work.job /\ work'.pc = work.pc
      /\ work'.todo = work.todo
  BY Serving
<1>6. \A s \in wire' : s.job # r.job  BY <1>5 DEF OneRequest
<1>7. ~Ahead(r.job)'  BY <1>1, <1>3, <1>4, <1>5, RowsTyped DEF Ahead, Waits
<1>8. ASSUME r.patch.folder # NoFolder PROVE r.job \in Movers /\ r.job \notin Movers'
  <2>1. work.job = r.job => work.todo.folder = NoFolder  BY <1>3, <1>8 DEF OneRequest
  <2> QED BY <1>1, <1>5, <1>6, <1>7, <1>8, <2>1 DEF Movers
<1>9. ASSUME r.patch.flag # "none" PROVE r.job \in Flaggers /\ r.job \notin Flaggers'
  <2>1. work.job = r.job => work.todo.flag = "none"  BY <1>3, <1>9 DEF OneRequest
  <2> QED BY <1>1, <1>5, <1>6, <1>7, <1>9, <2>1 DEF Flaggers
<1> QED BY <1>8, <1>9

(* Who moves the message, and how often it may.                               *)
LEMMA Moved ==
  ASSUME TypeOK, Running, OneRequest, Homed, Counted,
         (\E r \in wire : Serve(r)) \/ OtherClient
  PROVE  /\ Homed' /\ Counted' /\ Homes \subseteq Homes'
         /\ srv' \in [loc : 0..MaxLoc, folder : Folder, flag : Flag, ver : 0..MaxVer]
         /\ home' \in [Loc -> Folder \cup {NoFolder}]
         /\ \A r \in wire : Serve(r) /\ There(r) => srv'.loc # 0
<1>1. /\ srv \in [loc : 0..MaxLoc, folder : Folder, flag : Flag, ver : 0..MaxVer]
      /\ home \in [Loc -> Folder \cup {NoFolder}]
      /\ others \in [left : 0..MaxOthers, raced : BOOLEAN]
      /\ MaxLoc \in Nat /\ MaxVer \in Nat /\ MaxOthers \in Nat
  <2>1. MaxLoc \in Nat /\ MaxVer \in Nat /\ MaxOthers \in Nat  BY MailAssumption, MailboxAssumption
  <2> QED BY <2>1 DEF TypeOK
<1>2. Movers' \subseteq Movers /\ Flaggers' \subseteq Flaggers
  BY MoversStep DEF Next
<1>3. /\ Cardinality(Movers') <= Cardinality(Movers) /\ Cardinality(Movers') \in Nat
      /\ Cardinality(Flaggers') <= Cardinality(Flaggers) /\ Cardinality(Flaggers') \in Nat
      /\ Cardinality(Movers) \in Nat /\ Cardinality(Flaggers) \in Nat /\ Cardinality(Homes) \in Nat
  BY <1>2, Counts, CountsNext, FS_Subset
<1>4. ASSUME UNCHANGED <<srv, home>>, others'.left <= others.left, others'.left \in Nat
      PROVE  /\ Homed' /\ Counted' /\ Homes \subseteq Homes'
             /\ srv' \in [loc : 0..MaxLoc, folder : Folder, flag : Flag, ver : 0..MaxVer]
             /\ home' \in [Loc -> Folder \cup {NoFolder}]
  <2>1. Homes' = Homes /\ srv'.ver = srv.ver  BY <1>4 DEF Homes
  <2> QED BY <1>1, <1>3, <1>4, <2>1 DEF Counted, Homed
<1>5. ASSUME OtherClient
      PROVE  /\ Homed' /\ Counted' /\ Homes \subseteq Homes'
             /\ srv' \in [loc : 0..MaxLoc, folder : Folder, flag : Flag, ver : 0..MaxVer]
             /\ home' \in [Loc -> Folder \cup {NoFolder}]
  <2>1. others.left > 0 /\ srv.loc # 0 /\ others'.left = others.left - 1 /\ others.left \in Nat
    BY <1>1, <1>5 DEF OtherClient
  <2>2. Cardinality(Homes) < MaxLoc /\ srv.ver < MaxVer
    BY <1>1, <1>3, <2>1 DEF Counted
  <2>3. CASE \E folder \in Folder, flag \in Flag : MoveTo(folder, flag)
    <3>1. PICK folder \in Folder, flag \in Flag : MoveTo(folder, flag)  BY <2>3
    <3>2. /\ Homed' /\ Homes \subseteq Homes' /\ Cardinality(Homes') <= Cardinality(Homes) + 1
          /\ srv'.ver <= srv.ver + 1 /\ home' \in [Loc -> Folder \cup {NoFolder}]
          /\ srv' \in [loc : 0..MaxLoc, folder : Folder, flag : Flag, ver : 0..MaxVer]
      <4>1. /\ srv' \in [loc : 0..MaxLoc, folder : Folder, flag : Flag, ver : 0..MaxVer]
            /\ home' \in [Loc -> Folder \cup {NoFolder}] /\ Homed' /\ Homes \subseteq Homes'
            /\ Cardinality(Homes') <= IF folder = srv.folder THEN Cardinality(Homes) ELSE Cardinality(Homes) + 1
            /\ srv'.ver <= IF folder = srv.folder /\ flag = srv.flag THEN srv.ver ELSE srv.ver + 1
        BY <2>1, <2>2, <3>1, Moving
      <4>2. Cardinality(Homes') \in Nat /\ srv'.ver \in Nat /\ srv.ver \in Nat  BY <1>1, <4>1, CountsNext
      <4> QED BY <1>3, <4>1, <4>2
    <3>3. Cardinality(Homes') \in Nat  BY CountsNext
    <3> QED BY <1>1, <1>3, <2>1, <3>2, <3>3 DEF Counted
  <2>4. CASE srv' = [srv EXCEPT !.loc = 0, !.ver = @ + 1] /\ UNCHANGED home
    <3>1. Homes' = Homes  BY <2>4 DEF Homes
    <3>2. srv'.loc = 0 /\ srv'.ver = srv.ver + 1
          /\ srv' \in [loc : 0..MaxLoc, folder : Folder, flag : Flag, ver : 0..MaxVer]
      <4>1. srv.ver \in Nat /\ srv.ver + 1 \in 0..MaxVer /\ 0 \in 0..MaxLoc  BY <1>1, <2>2
      <4>2. srv' = [loc |-> 0, folder |-> srv.folder, flag |-> srv.flag, ver |-> srv.ver + 1]
        BY <1>1, <2>4
      <4> QED BY <1>1, <4>1, <4>2
    <3> QED BY <1>1, <1>3, <2>1, <2>4, <3>1, <3>2 DEF Counted, Homed
  <2>5. srv.folder \in Folder /\ srv.flag \in Flag  BY <1>1
  <2> QED BY <1>5, <2>5, <2>3, <2>4 DEF OtherClient
<1>6. ASSUME NEW r \in wire, Serve(r), ~UNCHANGED <<srv, home>>
      PROVE  /\ Homed' /\ Counted' /\ Homes \subseteq Homes'
             /\ srv' \in [loc : 0..MaxLoc, folder : Folder, flag : Flag, ver : 0..MaxVer]
             /\ home' \in [Loc -> Folder \cup {NoFolder}] /\ srv'.loc # 0
  <2> DEFINE folder == Or(r.patch.folder, NoFolder, srv.folder)
             flag == Or(r.patch.flag, "none", srv.flag)
  <2>1. There(r) /\ MoveTo(folder, flag) /\ others' = others  BY <1>6 DEF Serve
  <2>2. r.pid \in Loc /\ r.patch \in Patch  BY DEF TypeOK
  <2>3. srv.loc # 0  BY <1>1, <2>1, <2>2 DEF There, Loc
  <2>4. folder \in Folder /\ flag \in Flag  BY <1>1, <2>2 DEF Or, Patch
  <2>5. /\ folder # srv.folder => r.job \in Movers /\ r.job \notin Movers'
        /\ flag # srv.flag => r.job \in Flaggers /\ r.job \notin Flaggers'
    BY <1>6, ServedOnce DEF Or
  <2> HIDE DEF folder, flag
  <2>6. folder # srv.folder => Cardinality(Movers') + 1 <= Cardinality(Movers)
    BY <1>2, <2>5, Counts, CountsNext, FewerLeft
  <2>7. flag # srv.flag => Cardinality(Flaggers') + 1 <= Cardinality(Flaggers)
    BY <1>2, <2>5, Counts, CountsNext, FewerLeft
  <2>8. others.left \in Nat  BY <1>1
  <2>9. folder # srv.folder => Cardinality(Homes) < MaxLoc  BY <1>1, <1>3, <2>6, <2>8 DEF Counted
  <2>10. <<folder, flag>> # <<srv.folder, srv.flag>> => srv.ver < MaxVer
    BY <1>1, <1>3, <2>6, <2>7, <2>8 DEF Counted
  <2>11. /\ srv' \in [loc : 0..MaxLoc, folder : Folder, flag : Flag, ver : 0..MaxVer]
         /\ home' \in [Loc -> Folder \cup {NoFolder}] /\ Homed' /\ Homes \subseteq Homes'
         /\ Cardinality(Homes') <= IF folder = srv.folder THEN Cardinality(Homes) ELSE Cardinality(Homes) + 1
         /\ srv'.ver <= IF folder = srv.folder /\ flag = srv.flag THEN srv.ver ELSE srv.ver + 1
         /\ srv'.loc \in Loc
    BY <2>1, <2>3, <2>4, <2>9, <2>10, Moving
  <2>12. Cardinality(Homes') \in Nat /\ srv'.ver \in Nat /\ srv.ver \in Nat  BY CountsNext, <1>1, <2>11
  <2>13. Cardinality(Homes') + Cardinality(Movers') <= Cardinality(Homes) + Cardinality(Movers)
    BY <1>3, <2>6, <2>11, <2>12
  <2>14. srv'.ver + Cardinality(Movers') + Cardinality(Flaggers')
           <= srv.ver + Cardinality(Movers) + Cardinality(Flaggers)
    BY <1>3, <2>6, <2>7, <2>11, <2>12
  <2>15. Counted'  BY <1>1, <1>3, <2>1, <2>8, <2>12, <2>13, <2>14 DEF Counted
  <2> QED BY <1>1, <2>11, <2>15 DEF Loc
<1>7. ASSUME NEW r \in wire, Serve(r) PROVE others' = others  BY <1>7 DEF Serve
<1>8. ASSUME NEW r \in wire, Serve(r), There(r) PROVE srv'.loc # 0
  <2>1. CASE UNCHANGED <<srv, home>>
    <3>1. r.pid # 0  BY <1>1 DEF TypeOK, Loc
    <3> QED BY <1>8, <2>1, <3>1 DEF There
  <2> QED BY <1>6, <1>8, <2>1
<1>9. Homed' /\ Counted' /\ Homes \subseteq Homes'
      /\ srv' \in [loc : 0..MaxLoc, folder : Folder, flag : Flag, ver : 0..MaxVer]
      /\ home' \in [Loc -> Folder \cup {NoFolder}]
  BY <1>1, <1>4, <1>5, <1>6, <1>7
<1> QED BY <1>8, <1>9

(* No step outruns what the model provides: each move and each change is paid *)
(* for by a job or by another client, once.                                   *)
LEMMA CountedStep ==
  ASSUME TypeOK, Running, OneRequest, Homed, Counted, [Next]_vars
  PROVE  /\ Homed' /\ Counted' /\ Homes \subseteq Homes'
         /\ srv' \in [loc : 0..MaxLoc, folder : Folder, flag : Flag, ver : 0..MaxVer]
         /\ home' \in [Loc -> Folder \cup {NoFolder}]
<1>1. CASE (\E r \in wire : Serve(r)) \/ OtherClient  BY <1>1, Moved
<1>2. CASE ~((\E r \in wire : Serve(r)) \/ OtherClient)
  <2>1. UNCHANGED <<srv, home, others>>
    <3>1. CASE \E r \in Loc : Edit(r)  BY <3>1, Queued
    <3>2. CASE \E j \in DOMAIN jobs : Cancel(j) \/ Begin(j) \/ GiveUp(j)  BY <3>2, Marked, Beginning
    <3>3. CASE Busy \/ Refused \/ Lose \/ Store \/ CrashWork \/ Ask  BY <3>3, Ends, Asking
    <3>4. CASE Applied  BY <3>4, Going
    <3>5. CASE Synchronise \/ CrashSync \/ UNCHANGED vars
      BY <3>5 DEF Synchronise, StartSync, Call, Stage, Ingest, Acknowledge, CrashSync, vars, provider
    <3> QED BY <1>2, <3>1, <3>2, <3>3, <3>4, <3>5 DEF Next, HandlerStep
  <2>2. Homes' = Homes  BY <2>1 DEF Homes
  <2>3. /\ Cardinality(Movers') <= Cardinality(Movers) /\ Cardinality(Movers') \in Nat
        /\ Cardinality(Flaggers') <= Cardinality(Flaggers) /\ Cardinality(Flaggers') \in Nat
        /\ Cardinality(Movers) \in Nat /\ Cardinality(Flaggers) \in Nat /\ Cardinality(Homes) \in Nat
    BY MoversStep, Counts, CountsNext, FS_Subset
  <2>4. /\ srv \in [loc : 0..MaxLoc, folder : Folder, flag : Flag, ver : 0..MaxVer]
        /\ home \in [Loc -> Folder \cup {NoFolder}]
        /\ others \in [left : 0..MaxOthers, raced : BOOLEAN]
        /\ MaxLoc \in Nat /\ MaxVer \in Nat /\ MaxOthers \in Nat
    <3>1. MaxLoc \in Nat /\ MaxVer \in Nat /\ MaxOthers \in Nat  BY MailAssumption, MailboxAssumption
    <3> QED BY <3>1 DEF TypeOK
  <2> QED BY <2>1, <2>2, <2>3, <2>4 DEF Counted, Homed
<1> QED BY <1>1, <1>2

-----------------------------------------------------------------------------
(* What the protocols list.                                                   *)
LEMMA Folders ==
  /\ Len(FolderOrder) \in Nat \ {0} /\ \A i \in 1..Len(FolderOrder) : FolderOrder[i] \in Folder
  /\ FolderOrder[1] \in Folder /\ NoFolder \notin Folder
  /\ MaxLoc \in Nat \ {0} /\ MaxVer \in Nat /\ 1 \in Loc /\ "off" \in Flag /\ "on" \in Flag
<1>1. Len(FolderOrder) \in Nat \ {0}  BY MailAssumption
<1> QED BY <1>1, MailAssumption DEF Folder, Loc, Flag

(* The names Graph's listing shares with the mailbox mean the same in both.   *)
LEMMA GraphNames ==
  GraphS!Folder = Folder /\ GraphS!NoFolder = NoFolder /\ GraphS!Flag = Flag /\ GraphS!Loc = Loc
BY DEF GraphS!Folder, Folder, GraphS!NoFolder, NoFolder, GraphS!Flag, Flag, GraphS!Loc, Loc

(* So do those of Gmail's,                                                    *)
LEMMA GmailNames ==
  GmailS!Folder = Folder /\ GmailS!NoFolder = NoFolder /\ GmailS!Flag = Flag /\ GmailS!Loc = Loc
BY DEF GmailS!Folder, Folder, GmailS!NoFolder, NoFolder, GmailS!Flag, Flag, GmailS!Loc, Loc

(* and those of IMAP's.                                                       *)
LEMMA ImapNames ==
  ImapS!Folder = Folder /\ ImapS!NoFolder = NoFolder /\ ImapS!Flag = Flag /\ ImapS!Loc = Loc
BY DEF ImapS!Folder, Folder, ImapS!NoFolder, NoFolder, ImapS!Flag, Flag, ImapS!Loc, Loc

(* A call changes some fields of what is collected.                           *)
LEMMA Progress ==
  ASSUME NEW S, NEW T, NEW f \in [i : Nat, cursor : S, msgs : T], NEW g, NEW i, NEW c, NEW ms
  PROVE  /\ g = [f EXCEPT !.i = i, !.cursor = c, !.msgs = ms] => g = [i |-> i, cursor |-> c, msgs |-> ms]
         /\ g = [f EXCEPT !.i = i, !.cursor = c] => g = [i |-> i, cursor |-> c, msgs |-> f.msgs]
         /\ g = [f EXCEPT !.i = i, !.msgs = ms] => g = [i |-> i, cursor |-> f.cursor, msgs |-> ms]
         /\ g = [f EXCEPT !.i = i] => g = [i |-> i, cursor |-> f.cursor, msgs |-> f.msgs]
         /\ g = [f EXCEPT !.cursor = c, !.msgs = ms] => g = [i |-> f.i, cursor |-> c, msgs |-> ms]
         /\ g = [f EXCEPT !.cursor = c] => g = [i |-> f.i, cursor |-> c, msgs |-> f.msgs]
         /\ f.i \in Nat /\ f.cursor \in S /\ f.msgs \in T
<1>1. ASSUME g = [f EXCEPT !.i = i, !.cursor = c, !.msgs = ms] PROVE g = [i |-> i, cursor |-> c, msgs |-> ms]
  BY <1>1
<1>2. ASSUME g = [f EXCEPT !.i = i, !.cursor = c] PROVE g = [i |-> i, cursor |-> c, msgs |-> f.msgs]
  BY <1>2
<1>3. ASSUME g = [f EXCEPT !.i = i, !.msgs = ms] PROVE g = [i |-> i, cursor |-> f.cursor, msgs |-> ms]
  BY <1>3
<1>4. ASSUME g = [f EXCEPT !.i = i] PROVE g = [i |-> i, cursor |-> f.cursor, msgs |-> f.msgs]
  BY <1>4
<1>5. ASSUME g = [f EXCEPT !.cursor = c, !.msgs = ms] PROVE g = [i |-> f.i, cursor |-> c, msgs |-> ms]
  BY <1>5
<1>6. ASSUME g = [f EXCEPT !.cursor = c] PROVE g = [i |-> f.i, cursor |-> c, msgs |-> f.msgs]
  BY <1>6
<1>7. f.i \in Nat /\ f.cursor \in S /\ f.msgs \in T  OBVIOUS
<1> QED BY <1>1, <1>2, <1>3, <1>4, <1>5, <1>6, <1>7

(* A call that lists a folder's change.                                       *)
LEMMA GraphListed ==
  ASSUME NEW f, NEW s, NEW expired,
         f \in [i : Nat, cursor : GraphS!GraphCursor, msgs : Seq(Listing)],
         f.i \in 1..Len(FolderOrder),
         s \in [loc : 0..MaxLoc, folder : Folder, flag : Flag, ver : 0..MaxVer]
  PROVE  LET g == GraphS!GraphPage(f, s, expired) IN
         /\ g \in [i : Nat, cursor : GraphS!GraphCursor, msgs : Seq(Listing)]
         /\ g.i \in 0..Len(FolderOrder)
<1> DEFINE folder == FolderOrder[f.i]
           new == GraphS!InFolder(s, folder)
           old == IF expired THEN GraphS!Absent ELSE f.cursor[folder]
           m == [GraphS!NewMsg EXCEPT !.pid = 1, !.folder = folder, !.flag = s.flag, !.del = ~new.has]
           i == IF f.i = Len(FolderOrder) THEN 0 ELSE f.i + 1
           cursor1 == [f.cursor EXCEPT ![folder] = new]
           msgs == IF new = old THEN f.msgs ELSE GraphS!Keep(f.msgs, m)
           g == GraphS!GraphPage(f, s, expired)
<1>1. folder \in Folder /\ i \in 0..Len(FolderOrder) /\ i \in Nat  BY Folders
<1>2. new \in [has : BOOLEAN, ver : 0..MaxVer]
  BY Folders DEF GraphS!InFolder, GraphS!Absent
<1>3. cursor1 \in GraphS!GraphCursor
  BY <1>1, <1>2, GraphNames DEF GraphS!GraphCursor
<1>4. m \in Listing
  <2>1. GraphS!NewMsg \in Listing  BY Folders, GraphNames DEF GraphS!NewMsg, Listing
  <2> HIDE DEF new, folder
  <2>2. s.flag \in Flag /\ (~new.has) \in BOOLEAN /\ 1 \in Loc  BY <1>2, Folders
  <2> QED BY <1>1, <2>1, <2>2 DEF Listing
<1>5. msgs \in Seq(Listing)
  BY <1>4 DEF GraphS!Keep
<1>6. g = [f EXCEPT !.i = i, !.cursor = cursor1, !.msgs = msgs]
  BY DEF GraphS!GraphPage
<1> HIDE DEF folder, new, old, m, i, cursor1, msgs, g
<1>7. g = [i |-> i, cursor |-> cursor1, msgs |-> msgs]  BY <1>6
<1> SUFFICES g \in [i : Nat, cursor : GraphS!GraphCursor, msgs : Seq(Listing)] /\ g.i \in 0..Len(FolderOrder)
  BY DEF g
<1> QED BY <1>1, <1>3, <1>5, <1>7

(* A call of Gmail's.                                                         *)
LEMMA GmailListed ==
  ASSUME NEW f, NEW s, NEW expired \in BOOLEAN, NEW g \in GmailS!GmailCall(f, s, expired),
         f \in [i : Nat, cursor : GmailS!GmailCursor, msgs : Seq(Listing)],
         f.i \in 1..3, f.cursor.page <= 1,
         s \in [loc : 0..MaxLoc, folder : Folder, flag : Flag, ver : 0..MaxVer]
  PROVE  /\ g \in [i : Nat, cursor : GmailS!GmailCursor, msgs : Seq(Listing)]
         /\ g.i \in 0..3 /\ g.cursor.page <= 1
<1>1. /\ f.cursor \in [hist : 0..MaxVer, next : 0..MaxVer, full : BOOLEAN, page : 0..2,
                       seen : BOOLEAN, pending : BOOLEAN]
      /\ MaxVer \in Nat
  BY Folders DEF GmailS!GmailCursor
<1>0. f.cursor \in GmailS!GmailCursor /\ f.msgs \in Seq(Listing)  OBVIOUS
<1>2. ASSUME NEW c \in GmailS!GmailCursor
      PROVE  GmailS!Done(c) \in GmailS!GmailCursor /\ GmailS!Done(c).page = 0
  <2>1. GmailS!Imported \in GmailS!GmailCursor /\ GmailS!Imported.page = 0
    BY <1>1 DEF GmailS!Imported, GmailS!GmailCursor
  <2>2. c.next \in 0..MaxVer  BY DEF GmailS!GmailCursor
  <2> QED BY <2>1, <2>2 DEF GmailS!Done, GmailS!GmailCursor
<1>4. CASE f.i = 1 /\ f.cursor.pending
  <2>1. g = [f EXCEPT !.i = 3, !.cursor = GmailS!Done(f.cursor)]  BY <1>4 DEF GmailS!GmailCall
  <2>2. GmailS!Done(f.cursor) \in GmailS!GmailCursor /\ GmailS!Done(f.cursor).page = 0  BY <1>0, <1>2
  <2>3. g = [i |-> 3, cursor |-> GmailS!Done(f.cursor), msgs |-> f.msgs]  BY <1>0, Progress, <2>1, <2>2
  <2> QED BY <1>0, <2>2, <2>3
<1>5. CASE f.i = 1 /\ ~f.cursor.pending /\ (f.cursor.full \/ expired)
  <2> DEFINE next == IF f.cursor.page = 0 THEN s.ver ELSE f.cursor.next
             c == [f.cursor EXCEPT !.full = TRUE, !.next = next]
  <2>1. g = GmailS!Snapshot([f EXCEPT !.cursor.full = TRUE], s)  BY <1>1, <1>5 DEF GmailS!GmailCall
  <2>2. g = [f EXCEPT !.i = 2, !.cursor = c]  BY <1>1, <2>1 DEF GmailS!Snapshot
  <2>3. c \in GmailS!GmailCursor /\ c.page <= 1  BY <1>1 DEF GmailS!GmailCursor
  <2> HIDE DEF c, next
  <2>4. g = [i |-> 2, cursor |-> c, msgs |-> f.msgs]  BY <1>0, Progress, <2>2, <2>3
  <2> QED BY <1>0, <2>3, <2>4
<1>6. CASE f.i = 1 /\ ~f.cursor.pending /\ ~f.cursor.full /\ ~expired
  <2> DEFINE new == [f.cursor EXCEPT !.next = s.ver]
             more == [new EXCEPT !.pending = TRUE]
  <2>1. g \in GmailS!HistoryPage(f, s)  BY <1>1, <1>6 DEF GmailS!GmailCall
  <2>2. \/ g = [f EXCEPT !.i = 0]
        \/ g = [f EXCEPT !.i = 3, !.cursor = GmailS!Done(new)]
        \/ g = [f EXCEPT !.i = 0, !.cursor = more]
    BY <2>1 DEF GmailS!HistoryPage
  <2>3. new \in GmailS!GmailCursor /\ more \in GmailS!GmailCursor /\ more.page <= 1
    BY <1>1 DEF GmailS!GmailCursor
  <2> HIDE DEF new, more
  <2>4. GmailS!Done(new) \in GmailS!GmailCursor /\ GmailS!Done(new).page = 0  BY <1>2, <2>3
  <2>5. CASE g = [f EXCEPT !.i = 0]
    <3>1. g = [i |-> 0, cursor |-> f.cursor, msgs |-> f.msgs]  BY <1>0, Progress, <2>5
    <3> QED BY <1>0, <3>1
  <2>6. CASE g = [f EXCEPT !.i = 3, !.cursor = GmailS!Done(new)]
    <3>1. g = [i |-> 3, cursor |-> GmailS!Done(new), msgs |-> f.msgs]  BY <1>0, Progress, <2>4, <2>6
    <3> QED BY <1>0, <2>4, <3>1
  <2>7. CASE g = [f EXCEPT !.i = 0, !.cursor = more]
    <3>1. g = [i |-> 0, cursor |-> more, msgs |-> f.msgs]  BY <1>0, Progress, <2>3, <2>7
    <3> QED BY <1>0, <2>3, <3>1
  <2> QED BY <2>2, <2>5, <2>6, <2>7
<1>7. CASE f.i = 2
  <2> DEFINE page == f.cursor.page + 1
             none == [f.cursor EXCEPT !.page = page]
             more == [f.cursor EXCEPT !.page = page, !.seen = TRUE]
  <2>1. g \in GmailS!ListPage(f, s)  BY <1>7 DEF GmailS!GmailCall
  <2>2. \/ \E i \in {0, 3} : g = [f EXCEPT !.i = i, !.cursor = GmailS!Done(f.cursor)]
        \/ page # 2 /\ g = [f EXCEPT !.i = 0, !.cursor = none]
        \/ page # 2 /\ g = [f EXCEPT !.i = 3, !.cursor = more]
    BY <2>1 DEF GmailS!ListPage
  <2>3. page \in 1..2 /\ (page # 2 => page <= 1)  BY <1>1
  <2>4. page # 2 => /\ none \in GmailS!GmailCursor /\ none.page <= 1
                    /\ more \in GmailS!GmailCursor /\ more.page <= 1
    <3> HIDE DEF page
    <3>1. page # 2 => page \in 0..2 /\ page <= 1  BY <2>3
    <3> QED BY <1>1, <3>1 DEF GmailS!GmailCursor
  <2> HIDE DEF none, more, page
  <2>5. ASSUME NEW i \in {0, 3}, g = [f EXCEPT !.i = i, !.cursor = GmailS!Done(f.cursor)]
        PROVE  /\ g \in [i : Nat, cursor : GmailS!GmailCursor, msgs : Seq(Listing)]
               /\ g.i \in 0..3 /\ g.cursor.page <= 1
    <3>1. GmailS!Done(f.cursor) \in GmailS!GmailCursor /\ GmailS!Done(f.cursor).page = 0  BY <1>0, <1>2
    <3>2. g = [i |-> i, cursor |-> GmailS!Done(f.cursor), msgs |-> f.msgs]  BY <1>0, Progress, <2>5, <3>1
    <3> QED BY <1>0, <3>1, <3>2
  <2>6. CASE page # 2 /\ g = [f EXCEPT !.i = 0, !.cursor = none]
    <3>1. g = [i |-> 0, cursor |-> none, msgs |-> f.msgs]  BY <1>0, Progress, <2>4, <2>6
    <3> QED BY <1>0, <2>4, <2>6, <3>1
  <2>7. CASE page # 2 /\ g = [f EXCEPT !.i = 3, !.cursor = more]
    <3>1. g = [i |-> 3, cursor |-> more, msgs |-> f.msgs]  BY <1>0, Progress, <2>4, <2>7
    <3> QED BY <1>0, <2>4, <2>7, <3>1
  <2> QED BY <2>2, <2>5, <2>6, <2>7
<1>8. CASE f.i = 3
  <2> DEFINE m == IF s.loc = 0 THEN [GmailS!NewMsg EXCEPT !.del = TRUE]
                  ELSE [GmailS!NewMsg EXCEPT !.folder = s.folder, !.flag = s.flag]
  <2>1. g = [f EXCEPT !.i = 0, !.msgs = <<m>>]
    BY <1>8 DEF GmailS!GmailCall, GmailS!GetMessage
  <2>2. m \in Listing
    <3>1. GmailS!NewMsg \in Listing  BY Folders, GmailNames DEF GmailS!NewMsg, Listing
    <3>2. s.folder \in Folder /\ s.flag \in Flag  OBVIOUS
    <3> QED BY <3>1, <3>2 DEF Listing
  <2> HIDE DEF m
  <2>3. <<m>> \in Seq(Listing)  BY <2>2
  <2>4. g = [i |-> 0, cursor |-> f.cursor, msgs |-> <<m>>]  BY <1>0, <2>1, <2>3, Progress
  <2> QED BY <1>0, <2>3, <2>4
<1> QED BY <1>1, <1>4, <1>5, <1>6, <1>7, <1>8

(* The cursor of a reconciliation, and its changes.                           *)
ImapReady(c) == c \in ImapS!ImapCursor /\ c.built < Len(FolderOrder) /\ c.todo \subseteq Homes

(* Two instances of the library's Cardinality are one operator.               *)
LEMMA SameCardinality == \A S : ImapS!Cardinality(S) = Cardinality(S)
BY DEF ImapS!Cardinality, Cardinality

(* What the checkpoint of an IMAP account consists of.                        *)
LEMMA ImapFields ==
  ASSUME NEW c \in ImapS!ImapCursor
  PROVE  /\ c.ent \in [Loc -> ImapS!Entry] /\ c.built \in 0..Len(FolderOrder) /\ c.cycle \in BOOLEAN
         /\ c.todo \subseteq Loc /\ c.dels \subseteq Loc
         /\ \A p \in Loc : /\ c.ent[p].in \in BOOLEAN /\ c.ent[p].folder \in Folder \cup {NoFolder}
                           /\ c.ent[p].flag \in Flag
BY ImapNames DEF ImapS!ImapCursor, ImapS!Entry

(* A folder's membership.                                                     *)
LEMMA MembershipListed ==
  ASSUME NEW f \in [i : Nat, cursor : ImapS!ImapCursor, msgs : Seq(Listing)], ImapReady(f.cursor),
         NEW s \in [loc : 0..MaxLoc, folder : Folder, flag : Flag, ver : 0..MaxVer],
         s.loc # 0 => s.loc \in Homes,
         NEW g, g = ImapS!Membership(f, s)
  PROVE  /\ g \in [i : Nat, cursor : ImapS!ImapCursor, msgs : Seq(Listing)]
         /\ ImapReady(g.cursor) /\ g.i = f.i
<1> DEFINE k == f.cursor.built + 1
           built == IF k = Len(FolderOrder) THEN 0 ELSE k
           todo == IF s.loc # 0 /\ s.folder = FolderOrder[k] THEN f.cursor.todo \cup {s.loc} ELSE f.cursor.todo
           c == [f.cursor EXCEPT !.built = built, !.todo = todo, !.cycle = (k = Len(FolderOrder))]
           dels == f.cursor.dels \cup ImapS!Dels(c, k)
           c1 == [c EXCEPT !.dels = dels]
<1>1. f.cursor \in ImapS!ImapCursor /\ Len(FolderOrder) \in Nat \ {0}  BY Folders
<1>2. built \in 0..Len(FolderOrder) /\ built < Len(FolderOrder)
  BY <1>1, ImapFields DEF ImapReady
<1>3. todo \subseteq Homes /\ Homes \subseteq Loc  BY DEF ImapReady, Homes
<1>4. c \in ImapS!ImapCursor /\ c.built = built /\ c.todo = todo /\ c.dels = f.cursor.dels
  <2>1. todo \subseteq Loc /\ (k = Len(FolderOrder)) \in BOOLEAN  BY <1>3
  <2> HIDE DEF k, built, todo
  <2>2. \A x : x = c => /\ x \in ImapS!ImapCursor /\ x.built = built /\ x.todo = todo
                        /\ x.dels = f.cursor.dels
    <3> SUFFICES ASSUME NEW x, x = c
                 PROVE  /\ x \in ImapS!ImapCursor /\ x.built = built /\ x.todo = todo
                        /\ x.dels = f.cursor.dels
      OBVIOUS
    <3> QED BY <1>1, <1>2, <2>1, ImapNames DEF ImapS!ImapCursor
  <2> QED BY <2>2
<1>5. dels \subseteq Loc
  <2> HIDE DEF c
  <2>1. f.cursor.dels \subseteq Loc  BY <1>1, ImapFields
  <2> QED BY <2>1, ImapNames DEF ImapS!Dels, ImapS!Known
<1>6. c1 \in ImapS!ImapCursor /\ c1.built = built /\ c1.todo = todo
  <2> HIDE DEF c, dels, built, todo, k
  <2> QED BY <1>4, <1>5, ImapNames DEF ImapS!ImapCursor
<1>7. g = [f EXCEPT !.cursor = c1]
  BY DEF ImapS!Membership
<1> HIDE DEF c1, todo, built, c, dels, k
<1>8. g = [i |-> f.i, cursor |-> c1, msgs |-> f.msgs] /\ f.i \in Nat /\ f.msgs \in Seq(Listing)
  BY <1>7, Progress
<1> QED BY <1>2, <1>3, <1>6, <1>8 DEF ImapReady

(* The next member is one of those not examined yet.                          *)
LEMMA NextListed ==
  ASSUME NEW todo \in SUBSET Homes, todo # {}, home \in [Loc -> Folder \cup {NoFolder}]
  PROVE  ImapS!NextMember(todo, home) \in todo
<1> DEFINE Rk(p) == ImapS!Rank(home[p])
           ranks == {Rk(p) : p \in todo}
<1>1. \A p \in todo : /\ p \in Nat /\ Rk(p) \in Nat /\ FolderOrder[Rk(p)] = home[p]
  <2> SUFFICES ASSUME NEW p \in todo
               PROVE  p \in Nat /\ Rk(p) \in Nat /\ FolderOrder[Rk(p)] = home[p]
    OBVIOUS
  <2>1. p \in Loc /\ p \in Nat /\ home[p] \in Folder  BY Folders DEF Homes, Loc
  <2>2. PICK i \in 1..Len(FolderOrder) : FolderOrder[i] = home[p]  BY <2>1 DEF Folder
  <2>3. Rk(p) \in 1..Len(FolderOrder) /\ FolderOrder[Rk(p)] = home[p]  BY <2>2 DEF ImapS!Rank
  <2> QED BY <2>1, <2>3, Folders
<1>2. ranks \in SUBSET Nat /\ ranks # {}  BY <1>1
<1>3. PICK k \in ranks : \A m \in ranks : k <= m
  <2> HIDE DEF ranks
  <2> QED BY <1>2, Least
<1> DEFINE first == {p \in todo : Rk(p) = k}
<1>4. first \in SUBSET Nat /\ first # {}  BY <1>1
<1>5. PICK p \in first : \A q \in first : p <= q
  <2> HIDE DEF first
  <2> QED BY <1>4, Least
<1>6. ASSUME NEW q \in todo \ {p}
      PROVE  Rk(p) < Rk(q) \/ (home[p] = home[q] /\ p < q)
  <2>1. Rk(p) = k /\ k <= Rk(q) /\ p \in todo  BY <1>3, <1>5
  <2>2. CASE Rk(q) = k
    <3>1. home[p] = home[q]  BY <1>1, <2>1, <2>2
    <3>2. p <= q /\ p # q  BY <1>5, <2>2
    <3> QED BY <1>1, <2>1, <3>1, <3>2
  <2>3. CASE Rk(q) # k  BY <1>1, <2>1, <2>3
  <2> QED BY <2>2, <2>3
<1>7. p \in todo  BY <1>5
<1> QED BY <1>6, <1>7 DEF ImapS!NextMember

(* A member is examined.                                                      *)
LEMMA ExamineListed ==
  ASSUME NEW f \in [i : Nat, cursor : ImapS!ImapCursor, msgs : Seq(Listing)], ImapReady(f.cursor),
         f.cursor.todo # {}, home \in [Loc -> Folder \cup {NoFolder}],
         NEW s \in [loc : 0..MaxLoc, folder : Folder, flag : Flag, ver : 0..MaxVer],
         NEW g, g = ImapS!Examine(f, s, home)
  PROVE  /\ g \in [i : Nat, cursor : ImapS!ImapCursor, msgs : Seq(Listing)]
         /\ ImapReady(g.cursor) /\ g.i = f.i
<1> DEFINE c == f.cursor
           p == ImapS!NextMember(c.todo, home)
           rest == [c EXCEPT !.todo = c.todo \ {p}]
           now == [in |-> TRUE, folder |-> home[p], flag |-> s.flag]
           old == ImapS!Candidates(c)
           moved == Cardinality(old) = 1
           m == [ImapS!NewMsg EXCEPT !.pid = p, !.folder = home[p], !.flag = s.flag]
<1>1. c \in ImapS!ImapCursor /\ p \in c.todo /\ c.todo \subseteq Homes /\ Homes \subseteq Loc /\ p \in Loc
      /\ f.i \in Nat /\ f.msgs \in Seq(Listing)
  BY NextListed DEF ImapReady, Homes
<1>2. /\ rest \in ImapS!ImapCursor /\ rest.built = c.built /\ rest.todo = c.todo \ {p}
      /\ rest.ent = c.ent /\ rest.dels = c.dels
  <2> HIDE DEF c, p
  <2> QED BY <1>1, ImapNames DEF ImapS!ImapCursor
<1>3. now \in ImapS!Entry
  BY <1>1, ImapNames DEF ImapS!Entry
<1>4. m \in Listing
  <2>1. ImapS!NewMsg \in Listing  BY Folders, ImapNames DEF ImapS!NewMsg, Listing
  <2>2. home[p] \in Folder \cup {NoFolder} /\ s.flag \in Flag  BY <1>1
  <2> HIDE DEF p
  <2> QED BY <1>1, <2>1, <2>2 DEF Listing
<1>5. old \subseteq Loc /\ (moved => (CHOOSE q \in old : TRUE) \in Loc)
  <2>1. old \subseteq Loc  BY ImapNames DEF ImapS!Candidates, ImapS!Known
  <2> HIDE DEF old
  <2>2. moved => old # {}
    <3> SUFFICES ASSUME Cardinality(old) = 1, old = {} PROVE FALSE  OBVIOUS
    <3>1. Cardinality({}) = 0  BY FS_EmptySet
    <3> QED BY <3>1
  <2> QED BY <2>1, <2>2
<1>6. ASSUME NEW c2 \in ImapS!ImapCursor, c2.built = c.built, c2.todo = c.todo \ {p},
             NEW ms \in Seq(Listing), g = [i |-> f.i, cursor |-> c2, msgs |-> ms]
      PROVE  /\ g \in [i : Nat, cursor : ImapS!ImapCursor, msgs : Seq(Listing)]
             /\ ImapReady(g.cursor) /\ g.i = f.i
  <2> HIDE DEF p
  <2> QED BY <1>1, <1>6 DEF ImapReady
<1>7. CASE s.loc # p
  <2> DEFINE dels == IF c.ent[p].in THEN c.dels \cup {p} ELSE c.dels
             c2 == [rest EXCEPT !.dels = dels]
  <2>1. g = [f EXCEPT !.cursor = c2]
    BY <1>2, <1>7 DEF ImapS!Examine
  <2>2. dels \subseteq Loc  BY <1>1, ImapFields
  <2>3. c2 \in ImapS!ImapCursor /\ c2.built = c.built /\ c2.todo = c.todo \ {p}
    <3> HIDE DEF rest, dels, c, p
    <3> QED BY <1>2, <2>2, ImapNames DEF ImapS!ImapCursor
  <2> HIDE DEF c2, c, p
  <2>4. g = [i |-> f.i, cursor |-> c2, msgs |-> f.msgs]  BY <2>1, Progress
  <2> QED BY <1>1, <1>6, <2>3, <2>4
<1>8. CASE s.loc = p /\ c.ent[p].in
  <2> DEFINE ent == [c.ent EXCEPT ![p] = now]
             c2 == [rest EXCEPT !.ent = ent]
             ms == IF c.ent[p] = now THEN f.msgs ELSE Append(f.msgs, [m EXCEPT !.meta = TRUE])
  <2>1. g = [f EXCEPT !.cursor = c2, !.msgs = ms]
    BY <1>2, <1>8 DEF ImapS!Examine
  <2>2. ent \in [Loc -> ImapS!Entry]
    <3> HIDE DEF now, p, c
    <3> QED BY <1>1, <1>3, ImapFields
  <2>3. c2 \in ImapS!ImapCursor /\ c2.built = c.built /\ c2.todo = c.todo \ {p}
    <3> HIDE DEF rest, ent, c, p
    <3> QED BY <1>2, <2>2, ImapNames DEF ImapS!ImapCursor
  <2>4. ms \in Seq(Listing)
    <3>1. [m EXCEPT !.meta = TRUE] \in Listing
      <4> HIDE DEF m
      <4> QED BY <1>4 DEF Listing
    <3> HIDE DEF m, now
    <3> QED BY <1>1, <3>1
  <2> HIDE DEF c2, c, p, ms
  <2>5. g = [i |-> f.i, cursor |-> c2, msgs |-> ms]  BY <2>1, Progress
  <2> QED BY <1>1, <1>6, <2>3, <2>4, <2>5
<1>9. CASE s.loc = p /\ ~c.ent[p].in
  <2> DEFINE ent == [q \in Loc |-> IF q = p THEN now ELSE IF moved /\ q \in old THEN ImapS!NoEntry ELSE c.ent[q]]
             c2 == [rest EXCEPT !.ent = ent]
             prev == IF moved THEN CHOOSE q \in old : TRUE ELSE 0
             ms == Append(f.msgs, [m EXCEPT !.prev = prev])
  <2>1. g = [f EXCEPT !.cursor = c2, !.msgs = ms]
    <3> DEFINE one == ImapS!Cardinality(old) = 1
               ent0 == [q \in ImapS!Loc |-> IF q = p THEN now ELSE IF one /\ q \in old THEN ImapS!NoEntry
                                            ELSE rest.ent[q]]
               prev0 == IF one THEN CHOOSE q \in old : TRUE ELSE 0
    <3>1. g = [f EXCEPT !.cursor = [rest EXCEPT !.ent = ent0], !.msgs = Append(f.msgs, [m EXCEPT !.prev = prev0])]
      BY <1>9 DEF ImapS!Examine
    <3>2. one <=> moved  BY SameCardinality
    <3> HIDE DEF one, moved
    <3>3. ent0 = ent  BY <1>2, <3>2, ImapNames
    <3>4. prev0 = prev  BY <3>2
    <3> HIDE DEF ent0, ent, prev, prev0, rest, m
    <3> QED BY <3>1, <3>3, <3>4
  <2>2. ent \in [Loc -> ImapS!Entry]
    <3>1. ImapS!NoEntry \in ImapS!Entry  BY ImapNames DEF ImapS!NoEntry, ImapS!Entry, Flag
    <3>2. c.ent \in [Loc -> ImapS!Entry]  BY <1>1, ImapFields
    <3> HIDE DEF now, p, c, moved, old
    <3> QED BY <1>3, <3>1, <3>2
  <2>3. c2 \in ImapS!ImapCursor /\ c2.built = c.built /\ c2.todo = c.todo \ {p}
    <3> HIDE DEF rest, ent, c, p
    <3> QED BY <1>2, <2>2, ImapNames DEF ImapS!ImapCursor
  <2>4. ms \in Seq(Listing)
    <3>1. prev \in 0..MaxLoc  BY <1>5, Folders DEF Loc
    <3>2. [m EXCEPT !.prev = prev] \in Listing
      <4> HIDE DEF m, prev
      <4> QED BY <1>4, <3>1 DEF Listing
    <3> HIDE DEF m, prev
    <3> QED BY <1>1, <3>2
  <2> HIDE DEF c2, c, p, ms
  <2>5. g = [i |-> f.i, cursor |-> c2, msgs |-> ms]  BY <2>1, Progress
  <2> QED BY <1>1, <1>6, <2>3, <2>4, <2>5
<1> QED BY <1>7, <1>8, <1>9

(* The deletions, in any order.                                               *)
LEMMA Sequenced ==
  ASSUME NEW S, IsFiniteSet(S)
  PROVE  ImapS!SetToSeq(S) \in Seq(S)
<1>1. Cardinality(S) \in Nat /\ ExistsBijection(1..Cardinality(S), S)  BY FS_CardinalityType
<1>2. \E h \in [1..Cardinality(S) -> S] : ImapS!IsInjective(h)
  BY <1>1 DEF ExistsBijection, Bijection, Injection, IsInjective, ImapS!IsInjective
<1>3. ImapS!SetToSeq(S) \in [1..Cardinality(S) -> S]
  <2> DEFINE F == [1..Cardinality(S) -> S]
  <2>1. ImapS!SetToSeq(S) = CHOOSE h \in F : ImapS!IsInjective(h)  BY SameCardinality DEF ImapS!SetToSeq
  <2>2. \E h \in F : ImapS!IsInjective(h)  BY <1>2
  <2> HIDE DEF F
  <2>3. ImapS!SetToSeq(S) \in F  BY <2>1, <2>2
  <2> QED BY <2>3 DEF F
<1> QED BY <1>1, <1>3

(* The last pages of an IMAP cycle list what the membership scan no longer    *)
(* saw.                                                                       *)
LEMMA DeletionsListed ==
  ASSUME NEW f \in [i : Nat, cursor : ImapS!ImapCursor, msgs : Seq(Listing)], ImapReady(f.cursor),
         NEW g, g = ImapS!Deletions(f)
  PROVE  /\ g \in [i : Nat, cursor : ImapS!ImapCursor, msgs : Seq(Listing)]
         /\ ImapReady(g.cursor) /\ g.i = 0
<1> DEFINE c == f.cursor
           Del(p) == [ImapS!NewMsg EXCEPT !.pid = p, !.del = TRUE, !.folder = c.ent[p].folder]
           D == c.dels \cap ImapS!Known(c.ent)
           gone == ImapS!SetToSeq(D)
           ds == [n \in 1..Len(gone) |-> Del(gone[n])]
           ms == f.msgs \o ds
           ent == [p \in Loc |-> IF p \in c.dels THEN ImapS!NoEntry ELSE c.ent[p]]
           c2 == [c EXCEPT !.ent = ent, !.cycle = FALSE, !.dels = {}]
<1>1. c \in ImapS!ImapCursor /\ f.i \in Nat /\ f.msgs \in Seq(Listing)  OBVIOUS
<1>2. gone \in Seq(D) /\ D \subseteq Loc
  <2>1. D \subseteq Loc  BY <1>1, ImapFields
  <2>2. IsFiniteSet(Loc)  BY Folders, FS_Interval DEF Loc
  <2>3. IsFiniteSet(D)  BY <2>1, <2>2, FS_Subset
  <2> HIDE DEF D
  <2> QED BY <2>1, <2>3, Sequenced
<1>3. \A p \in Loc : Del(p) \in Listing
  <2> SUFFICES ASSUME NEW p \in Loc PROVE Del(p) \in Listing  OBVIOUS
  <2>1. ImapS!NewMsg \in Listing  BY Folders, ImapNames DEF ImapS!NewMsg, Listing
  <2>2. c.ent[p].folder \in Folder \cup {NoFolder}  BY <1>1, ImapFields
  <2> HIDE DEF c
  <2> QED BY <2>1, <2>2 DEF Listing
<1>4. ds \in Seq(Listing)
  <2> HIDE DEF gone, D, Del
  <2>1. Len(gone) \in Nat /\ \A n \in 1..Len(gone) : gone[n] \in Loc  BY <1>2
  <2> QED BY <1>3, <2>1
<1>5. ms \in Seq(Listing)
  <2> HIDE DEF ds
  <2> QED BY <1>1, <1>4
<1>6. ent \in [Loc -> ImapS!Entry]
  <2>1. ImapS!NoEntry \in ImapS!Entry  BY ImapNames DEF ImapS!NoEntry, ImapS!Entry, Flag
  <2>2. c.ent \in [Loc -> ImapS!Entry]  BY <1>1, ImapFields
  <2> HIDE DEF c
  <2> QED BY <2>1, <2>2
<1>7. c2 \in ImapS!ImapCursor /\ c2.built = c.built /\ c2.todo = c.todo
  <2> HIDE DEF c, ent
  <2> SUFFICES ASSUME NEW x, x = c2
               PROVE  x \in ImapS!ImapCursor /\ x.built = c.built /\ x.todo = c.todo
    OBVIOUS
  <2> QED BY <1>1, <1>6, ImapNames DEF ImapS!ImapCursor
<1>8. g = [f EXCEPT !.i = 0, !.cursor = c2, !.msgs = ms]
  BY <1>1, ImapNames DEF ImapS!Deletions
<1> HIDE DEF c2, ms
<1>9. g = [i |-> 0, cursor |-> c2, msgs |-> ms]  BY <1>8, Progress
<1> QED BY <1>1, <1>5, <1>7, <1>9 DEF ImapReady

-----------------------------------------------------------------------------
(* The staging of what was listed: its recursion, and its types.              *)
AliasRow == [canon : 0..MaxLoc, rec : 0..MaxLoc, folder : Folder \cup {NoFolder}]
Outcome == [msgs : Seq(Message), alias : [Loc -> AliasRow]]

(* Staging a message adds one to the batch, with the record its aliases lead  *)
(* to.                                                                        *)
LEMMA OneStaged ==
  ASSUME NEW m \in Listing, NEW acc \in Outcome
  PROVE  Staged(m, acc) \in Outcome
<1> DEFINE a == acc.alias[m.pid]
           old == acc.alias[m.prev]
           rec == IF m.prev # 0 THEN IF old.canon # 0 THEN old.rec ELSE m.prev
                  ELSE IF a.canon # 0 THEN a.rec ELSE m.pid
           entry == [canon |-> m.pid, rec |-> rec, folder |-> m.folder]
           msg == [pid |-> m.pid, del |-> m.del, meta |-> m.meta, folder |-> m.folder,
                   flag |-> m.flag, prev |-> m.prev, rec |-> rec]
           alias1 == IF m.prev = 0 THEN acc.alias
                     ELSE [p \in Loc |-> IF p \in {m.prev, m.pid} THEN entry
                            ELSE IF acc.alias[p].canon = m.prev
                                 THEN [acc.alias[p] EXCEPT !.canon = m.pid, !.folder = m.folder]
                                 ELSE acc.alias[p]]
<1>1. /\ m.pid \in Loc /\ m.prev \in 0..MaxLoc /\ m.folder \in Folder \cup {NoFolder} /\ m.flag \in Flag
      /\ m.del \in BOOLEAN /\ m.meta \in BOOLEAN /\ MaxLoc \in Nat
      /\ acc.msgs \in Seq(Message) /\ acc.alias \in [Loc -> AliasRow]
      /\ \A p \in 0..MaxLoc : p # 0 => p \in Loc
      /\ \A p \in Loc : p \in 0..MaxLoc
  BY Folders DEF Listing, Outcome, Loc
<1>2. rec \in 0..MaxLoc
  <2>1. CASE m.prev # 0
    <3>1. old \in AliasRow  BY <1>1, <2>1
    <3> HIDE DEF old
    <3> QED BY <1>1, <2>1, <3>1 DEF AliasRow
  <2>2. CASE m.prev = 0
    <3>1. a \in AliasRow  BY <1>1
    <3> HIDE DEF a
    <3> QED BY <1>1, <2>2, <3>1 DEF AliasRow
  <2> QED BY <2>1, <2>2
<1> HIDE DEF rec
<1>3. msg \in Message  BY <1>1, <1>2 DEF Message
<1>4. entry \in AliasRow  BY <1>1, <1>2 DEF AliasRow
<1>5. alias1 \in [Loc -> AliasRow]
  <2>1. ASSUME NEW p \in Loc
        PROVE  [acc.alias[p] EXCEPT !.canon = m.pid, !.folder = m.folder] \in AliasRow
    <3>1. acc.alias[p] \in AliasRow  BY <1>1
    <3> QED BY <1>1, <3>1 DEF AliasRow
  <2> HIDE DEF entry
  <2> QED BY <1>1, <1>4, <2>1
<1>6. Staged(m, acc) \in {acc, [msgs |-> Append(acc.msgs, msg), alias |-> alias1]}
  BY DEF Staged, rec
<1> HIDE DEF msg, alias1
<1>7. [msgs |-> Append(acc.msgs, msg), alias |-> alias1] \in Outcome
  <2>1. Append(acc.msgs, msg) \in Seq(Message)  BY <1>1, <1>3
  <2> QED BY <1>5, <2>1 DEF Outcome
<1> QED BY <1>6, <1>7

(* The recursion over what was listed defines a function: a listing for which *)
(* it did not would have a shortest prefix for which it did not.              *)
LEMMA StagingDefined ==
  ASSUME Len(fetch.msgs) \in Nat
  PROVE  StagedUpTo = [n \in 0..Len(fetch.msgs) |->
                         IF n = 0 THEN [msgs |-> <<>>, alias |-> alias]
                         ELSE Staged(fetch.msgs[n], StagedUpTo[n - 1])]
<1> DEFINE base == [msgs |-> <<>>, alias |-> alias]
           Step(n, acc) == Staged(fetch.msgs[n], acc)
           IsFun(h, k) == h = [n \in 0..k |-> IF n = 0 THEN base ELSE Step(n, h[n - 1])]
           Bad == {k \in Nat : ~\E h : IsFun(h, k)}
<1>1. Bad = {}
  <2> HIDE DEF base, Step
  <2> SUFFICES ASSUME Bad # {} PROVE FALSE  OBVIOUS
  <2>1. PICK k \in Bad : \A i \in Bad : k <= i
    <3>1. Bad \in SUBSET Nat  OBVIOUS
    <3> HIDE DEF Bad
    <3> QED BY <3>1, Least
  <2>2. CASE k = 0
    <3> DEFINE h == [n \in 0..0 |-> base]
    <3>1. IsFun(h, 0)  OBVIOUS
    <3> QED BY <2>1, <2>2, <3>1
  <2>3. CASE k # 0
    <3>1. k - 1 \in Nat /\ k - 1 \notin Bad  BY <2>1, <2>3
    <3>2. PICK h : IsFun(h, k - 1)  BY <3>1
    <3> DEFINE g == [n \in 0..k |-> IF n = k THEN Step(k, h[k - 1]) ELSE h[n]]
    <3>3. \A n \in 0..(k - 1) : h[n] = IF n = 0 THEN base ELSE Step(n, h[n - 1])
      BY <3>2, Zenon
    <3>4. \A n \in 0..k : g[n] = IF n = 0 THEN base ELSE Step(n, g[n - 1])
      <4> SUFFICES ASSUME NEW n \in 0..k PROVE g[n] = IF n = 0 THEN base ELSE Step(n, g[n - 1])
        OBVIOUS
      <4>1. CASE n = k
        <5>1. g[n] = Step(n, h[n - 1]) /\ g[n - 1] = h[n - 1]  BY <2>3, <3>1, <4>1
        <5> QED BY <2>3, <4>1, <5>1
      <4>2. CASE n # k
        <5>1. n \in 0..(k - 1) /\ g[n] = h[n]  BY <3>1, <4>2
        <5>2. n # 0 => g[n - 1] = h[n - 1]  BY <3>1, <4>2
        <5> QED BY <3>3, <5>1, <5>2
      <4> QED BY <4>1, <4>2
    <3>5. IsFun(g, k)
      <4> DEFINE g2 == [n \in 0..k |-> IF n = 0 THEN base ELSE Step(n, g[n - 1])]
      <4>1. g = g2
        <5>1. \A n \in 0..k : g[n] = g2[n]  BY <3>4
        <5> HIDE DEF Step
        <5> QED BY <5>1
      <4> QED BY <4>1
    <3> QED BY <2>1, <3>5
  <2> QED BY <2>2, <2>3
<1>2. \E h : IsFun(h, Len(fetch.msgs))  BY <1>1
<1>3. StagedUpTo = CHOOSE h : IsFun(h, Len(fetch.msgs))  BY DEF StagedUpTo
<1> HIDE DEF IsFun
<1>4. IsFun(StagedUpTo, Len(fetch.msgs))  BY <1>2, <1>3
<1> QED BY <1>4 DEF IsFun

(* However long the listing, what is staged is a batch, and the aliases stay  *)
(* aliases.                                                                   *)
LEMMA StagedTyped ==
  ASSUME fetch.msgs \in Seq(Listing), alias \in [Loc -> AliasRow]
  PROVE  StagedUpTo[Len(fetch.msgs)] \in Outcome
<1> DEFINE Bad == {k \in Nat : k <= Len(fetch.msgs) /\ StagedUpTo[k] \notin Outcome}
<1>1. Len(fetch.msgs) \in Nat  OBVIOUS
<1>2. \A n \in 0..Len(fetch.msgs) :
        StagedUpTo[n] = IF n = 0 THEN [msgs |-> <<>>, alias |-> alias]
                        ELSE Staged(fetch.msgs[n], StagedUpTo[n - 1])
  BY <1>1, StagingDefined, Zenon
<1>3. Bad = {}
  <2> SUFFICES ASSUME Bad # {} PROVE FALSE  OBVIOUS
  <2>1. PICK k \in Bad : \A i \in Bad : k <= i
    <3>1. Bad \in SUBSET Nat  OBVIOUS
    <3> HIDE DEF Bad
    <3> QED BY <3>1, Least
  <2>2. CASE k = 0
    <3>1. StagedUpTo[0] = [msgs |-> <<>>, alias |-> alias]  BY <1>1, <1>2
    <3>2. [msgs |-> <<>>, alias |-> alias] \in Outcome  BY DEF Outcome
    <3> QED BY <2>1, <2>2, <3>1, <3>2
  <2>3. CASE k # 0
    <3>1. k \in 0..Len(fetch.msgs) /\ k \in 1..Len(fetch.msgs) /\ k - 1 \in Nat /\ k - 1 <= Len(fetch.msgs)
          /\ ~(k <= k - 1)
      BY <1>1, <2>3
    <3>2. StagedUpTo[k - 1] \in Outcome  BY <2>1, <3>1
    <3>3. fetch.msgs[k] \in Listing  BY <3>1
    <3>4. StagedUpTo[k] = Staged(fetch.msgs[k], StagedUpTo[k - 1])  BY <1>2, <2>3, <3>1
    <3> QED BY <2>1, <3>2, <3>3, <3>4, OneStaged
  <2> QED BY <2>2, <2>3
<1> QED BY <1>1, <1>3

-----------------------------------------------------------------------------
(* The synchronisation: its cursors, and what is staged.                      *)
Fetching == [i : Nat, cursor : Cursor, msgs : Seq(Listing)]

(* A profile speaks one of the three protocols.                               *)
LEMMA Protocols ==
  ASSUME profile \in Profile
  PROVE  profile.protocol \in {"graph", "gmail", "imap"}
BY MailboxAssumption

(* The import's checkpoint is one.                                            *)
LEMMA OriginTyped ==
  ASSUME profile \in Profile
  PROVE  GoodCursor(Origin) /\ Origin \in Cursor
<1>0. profile.protocol \in {"graph", "gmail", "imap"}  BY Protocols
<1>1. CASE profile.protocol = "graph"
  <2>1. GraphS!Imported \in GraphS!GraphCursor
    BY Folders, GraphNames DEF GraphS!Imported, GraphS!GraphCursor
  <2> QED BY <1>1, <2>1 DEF GoodCursor, Origin, Cursor
<1>2. CASE profile.protocol = "gmail"
  <2>1. GmailS!Imported \in GmailS!GmailCursor /\ GmailS!Imported.page = 0
    BY Folders DEF GmailS!Imported, GmailS!GmailCursor
  <2> QED BY <1>2, <2>1 DEF GoodCursor, Origin, Cursor
<1>3. CASE profile.protocol = "imap"
  <2> DEFINE ent == [p \in ImapS!Loc |-> IF p = 1 THEN [in |-> TRUE, folder |-> FolderOrder[1], flag |-> "off"]
                                        ELSE ImapS!NoEntry]
  <2>1. \A p \in Loc : (IF p = 1 THEN [in |-> TRUE, folder |-> FolderOrder[1], flag |-> "off"]
                        ELSE ImapS!NoEntry) \in ImapS!Entry
    BY Folders, ImapNames DEF ImapS!NoEntry, ImapS!Entry, Flag
  <2>2. ent \in [Loc -> ImapS!Entry]  BY <2>1, ImapNames
  <2>3. /\ ImapS!Imported \in ImapS!ImapCursor /\ ImapS!Imported.built = 0 /\ ImapS!Imported.todo = {}
    <3>1. ImapS!Imported = [built |-> 0, cycle |-> FALSE, todo |-> {}, dels |-> {}, ent |-> ent]
      BY DEF ImapS!Imported
    <3> HIDE DEF ent
    <3>2. 0 \in 0..Len(FolderOrder)  BY Folders
    <3> QED BY <2>2, <3>1, <3>2, ImapNames DEF ImapS!ImapCursor
  <2> QED BY <1>3, <2>3, Folders DEF GoodCursor, Origin, Cursor
<1> QED BY <1>0, <1>1, <1>2, <1>3

(* A cursor that was good stays good: a profile is for ever, and the message  *)
(* only gains homes.                                                          *)
LEMMA CursorKept ==
  ASSUME UNCHANGED profile, Homes \subseteq Homes'
  PROVE  /\ Cursor' = Cursor /\ Origin' = Origin /\ Steps' = Steps /\ NoFetch' = NoFetch /\ NoBatch' = NoBatch
         /\ \A c : GoodCursor(c) => GoodCursor(c)'
<1>1. Cursor' = Cursor /\ Origin' = Origin /\ Steps' = Steps  BY DEF Cursor, Origin, Steps
<1>2. \A c : GoodCursor(c) => GoodCursor(c)'  BY <1>1 DEF GoodCursor
<1> QED BY <1>1, <1>2 DEF NoFetch, NoBatch

(* A synchronisation that has fetched nothing, and a batch that holds         *)
(* nothing.                                                                   *)
LEMMA NothingFetched ==
  ASSUME profile \in Profile
  PROVE  /\ NoFetch \in Fetching /\ NoFetch.i = 0 /\ NoFetch.cursor = Origin
         /\ NoBatch \in [on : BOOLEAN, msgs : Seq(Message), cursor : Cursor] /\ NoBatch.cursor = Origin
BY OriginTyped DEF NoFetch, NoBatch, Fetching

(* A call to any of the three providers yields a listing and a good cursor.   *)
LEMMA CallListed ==
  ASSUME TypeOK, Homed, Collected, sync = "fetch", fetch.i # 0, NEW expired \in BOOLEAN,
         NEW g \in Called(expired)
  PROVE  g \in Fetching /\ GoodCursor(g.cursor) /\ g.i \in Steps
<1>0. profile.protocol \in {"graph", "gmail", "imap"}  BY Protocols DEF TypeOK
<1>1. /\ fetch \in Fetching /\ GoodCursor(fetch.cursor) /\ fetch.i \in Steps
      /\ srv \in [loc : 0..MaxLoc, folder : Folder, flag : Flag, ver : 0..MaxVer]
      /\ home \in [Loc -> Folder \cup {NoFolder}]
  BY DEF Collected, Fetching, TypeOK
<1>2. CASE profile.protocol = "graph"
  <2>1. Cursor = GraphS!GraphCursor /\ Steps = 0..Len(FolderOrder)  BY <1>2 DEF Cursor, Steps
  <2>2. fetch.i \in 1..Len(FolderOrder)  BY <1>1, <2>1, Folders
  <2>3. g = GraphS!GraphPage(fetch, srv, expired)  BY <1>2 DEF Called
  <2>4. fetch \in [i : Nat, cursor : GraphS!GraphCursor, msgs : Seq(Listing)]
    BY <1>1, <2>1 DEF Fetching
  <2>5. g \in [i : Nat, cursor : GraphS!GraphCursor, msgs : Seq(Listing)] /\ g.i \in 0..Len(FolderOrder)
    BY <1>1, <2>2, <2>3, <2>4, GraphListed
  <2> QED BY <1>2, <2>1, <2>5 DEF Fetching, GoodCursor
<1>3. CASE profile.protocol = "gmail"
  <2>1. Cursor = GmailS!GmailCursor /\ Steps = 0..3  BY <1>3 DEF Cursor, Steps
  <2>2. fetch.i \in 1..3 /\ fetch.cursor.page <= 1  BY <1>1, <1>3, <2>1 DEF GoodCursor
  <2>3. g \in GmailS!GmailCall(fetch, srv, expired)  BY <1>3 DEF Called
  <2>4. fetch \in [i : Nat, cursor : GmailS!GmailCursor, msgs : Seq(Listing)]
    BY <1>1, <2>1 DEF Fetching
  <2>5. g \in [i : Nat, cursor : GmailS!GmailCursor, msgs : Seq(Listing)] /\ g.i \in 0..3 /\ g.cursor.page <= 1
    BY <1>1, <2>2, <2>3, <2>4, GmailListed
  <2> QED BY <1>3, <2>1, <2>5 DEF Fetching, GoodCursor
<1>4. CASE profile.protocol = "imap"
  <2>1. Cursor = ImapS!ImapCursor /\ Steps = 0..1  BY <1>4 DEF Cursor, Steps
  <2>2. fetch.i = 1 /\ ImapReady(fetch.cursor)  BY <1>1, <1>4, <2>1 DEF GoodCursor, ImapReady
  <2>3. g \in ImapS!ImapCall(fetch, srv, home)  BY <1>4 DEF Called
  <2>4. fetch \in [i : Nat, cursor : ImapS!ImapCursor, msgs : Seq(Listing)]
    BY <1>1, <2>1 DEF Fetching
  <2>5. srv.loc # 0 => srv.loc \in Homes
    <3>1. srv.loc # 0 => srv.loc \in Loc /\ srv.folder \in Folder  BY <1>1, Folders DEF Loc
    <3> QED BY <3>1, Folders DEF Homed, Homes
  <2>6. ASSUME NEW h \in [i : Nat, cursor : ImapS!ImapCursor, msgs : Seq(Listing)], ImapReady(h.cursor), h.i = 1,
               g \in ImapS!Page(h)
        PROVE  /\ g \in [i : Nat, cursor : ImapS!ImapCursor, msgs : Seq(Listing)]
               /\ ImapReady(g.cursor) /\ g.i \in 0..1
    <3>1. CASE g = h  BY <2>6, <3>1
    <3>2. CASE g = [h EXCEPT !.i = 0]
      <4>1. g = [i |-> 0, cursor |-> h.cursor, msgs |-> h.msgs]  BY <3>2, Progress
      <4> QED BY <2>6, <4>1
    <3> QED BY <2>6, <3>1, <3>2 DEF ImapS!Page
  <2>7. CASE ~fetch.cursor.cycle
    <3> DEFINE h == ImapS!Membership(fetch, srv)
    <3>1. g \in ImapS!Page(h)  BY <2>3, <2>7 DEF ImapS!ImapCall
    <3> HIDE DEF h
    <3>2. h \in [i : Nat, cursor : ImapS!ImapCursor, msgs : Seq(Listing)] /\ ImapReady(h.cursor) /\ h.i = 1
      BY <1>1, <2>2, <2>4, <2>5, MembershipListed DEF h
    <3>3. g \in [i : Nat, cursor : ImapS!ImapCursor, msgs : Seq(Listing)] /\ ImapReady(g.cursor) /\ g.i \in 0..1
      BY <2>6, <3>1, <3>2
    <3> QED BY <1>4, <2>1, <3>3 DEF Fetching, GoodCursor, ImapReady
  <2>8. CASE fetch.cursor.cycle /\ fetch.cursor.todo # {}
    <3> DEFINE h == ImapS!Examine(fetch, srv, home)
    <3>1. g \in ImapS!Page(h)  BY <2>3, <2>8 DEF ImapS!ImapCall
    <3> HIDE DEF h
    <3>2. h \in [i : Nat, cursor : ImapS!ImapCursor, msgs : Seq(Listing)] /\ ImapReady(h.cursor) /\ h.i = 1
      BY <1>1, <2>2, <2>4, <2>8, ExamineListed DEF h
    <3>3. g \in [i : Nat, cursor : ImapS!ImapCursor, msgs : Seq(Listing)] /\ ImapReady(g.cursor) /\ g.i \in 0..1
      BY <2>6, <3>1, <3>2
    <3> QED BY <1>4, <2>1, <3>3 DEF Fetching, GoodCursor, ImapReady
  <2>9. CASE fetch.cursor.cycle /\ fetch.cursor.todo = {}
    <3>1. g = ImapS!Deletions(fetch)  BY <2>3, <2>9 DEF ImapS!ImapCall
    <3>2. g \in [i : Nat, cursor : ImapS!ImapCursor, msgs : Seq(Listing)] /\ ImapReady(g.cursor) /\ g.i = 0
      BY <2>2, <2>4, <3>1, DeletionsListed
    <3> QED BY <1>4, <2>1, <3>2 DEF Fetching, GoodCursor, ImapReady
  <2> QED BY <2>7, <2>8, <2>9
<1> QED BY <1>0, <1>2, <1>3, <1>4

(* Only a synchronisation touches what it has read.                           *)
LEMMA SyncUntouched ==
  ASSUME [Next]_vars, ~Synchronise, ~CrashSync
  PROVE  UNCHANGED <<reading, profile>>
<1>1. CASE \E r \in Loc : Edit(r)  BY <1>1 DEF Edit
<1>2. CASE \E j \in DOMAIN jobs : Cancel(j) \/ Begin(j) \/ GiveUp(j)  BY <1>2 DEF Cancel, Begin, GiveUp
<1>3. CASE OtherClient \/ Busy \/ HandlerStep \/ Lose \/ CrashWork
  BY <1>3 DEF OtherClient, Busy, HandlerStep, Ask, Applied, Refused, Store, Lose, CrashWork, Abandon
<1>4. CASE \E r \in wire : Serve(r)  BY <1>4 DEF Serve
<1>5. CASE UNCHANGED vars  BY <1>5 DEF vars
<1> QED BY <1>1, <1>2, <1>3, <1>4, <1>5 DEF Next

(* Every step keeps what a synchronisation has collected well formed.         *)
LEMMA CollectedStep ==
  ASSUME TypeOK, Homed, Collected, Homes \subseteq Homes', [Next]_vars
  PROVE  Collected'
<1>0. UNCHANGED profile
  <2>1. CASE Synchronise \/ CrashSync
    BY <2>1 DEF Synchronise, StartSync, Call, Stage, Ingest, Acknowledge, CrashSync
  <2> QED BY <2>1, SyncUntouched
<1>1. /\ fetch \in Fetching /\ batch \in [on : BOOLEAN, msgs : Seq(Message), cursor : Cursor]
      /\ GoodCursor(cursor) /\ GoodCursor(fetch.cursor) /\ GoodCursor(batch.cursor)
      /\ GoodCursor(Origin) /\ NoFetch \in Fetching /\ NoFetch.i = 0 /\ NoFetch.cursor = Origin
      /\ NoBatch \in [on : BOOLEAN, msgs : Seq(Message), cursor : Cursor] /\ NoBatch.cursor = Origin
      /\ Len(batch.msgs) \in Nat
  BY OriginTyped, NothingFetched DEF Collected, Fetching, TypeOK
<1>2. /\ Cursor' = Cursor /\ Steps' = Steps /\ NoFetch' = NoFetch
      /\ \A c : GoodCursor(c) => GoodCursor(c)'
  BY <1>0, CursorKept
<1> SUFFICES /\ fetch' \in Fetching /\ batch' \in [on : BOOLEAN, msgs : Seq(Message), cursor : Cursor]
             /\ GoodCursor(cursor') /\ GoodCursor(fetch'.cursor) /\ GoodCursor(batch'.cursor)
             /\ sync' = "idle" => fetch' = NoFetch
             /\ sync' = "fetch" => fetch'.i \in Steps
             /\ sync' = "ingest" => fetch'.i <= Len(batch'.msgs)
  <2>1. \A c : GoodCursor(c) => /\ c \in Cursor'
                                /\ profile'.protocol = "gmail" => c.page <= 1
                                /\ profile'.protocol = "imap" => c.built < Len(FolderOrder) /\ c.todo \subseteq Homes'
    BY <1>2 DEF GoodCursor
  <2> QED BY <1>2, <2>1 DEF Collected, GoodCursor, Fetching
<1>3. CASE StartSync
  <2>1. CASE batch.on
    <3>1. UNCHANGED <<fetch, batch, cursor>> /\ sync' = "ingest" /\ sync = "idle"
      BY <1>3, <2>1 DEF StartSync
    <3> QED BY <1>1, <3>1 DEF Collected
  <2>2. CASE ~batch.on
    <3>1. UNCHANGED <<batch, cursor>> /\ sync' = "fetch" /\ fetch' = [i |-> 1, cursor |-> cursor, msgs |-> <<>>]
      BY <1>3, <2>2 DEF StartSync
    <3>2. cursor \in Cursor /\ fetch' \in Fetching /\ fetch'.i = 1 /\ fetch'.cursor = cursor
      BY <1>1, <3>1 DEF GoodCursor, Fetching
    <3>3. 1 \in Steps
      <4>1. profile.protocol \in {"graph", "gmail", "imap"}  BY Protocols DEF TypeOK
      <4>2. Len(FolderOrder) \in Nat /\ Len(FolderOrder) > 0  BY Folders
      <4> QED BY <4>1, <4>2 DEF Steps
    <3> QED BY <1>1, <3>1, <3>2, <3>3
  <2> QED BY <2>1, <2>2
<1>4. CASE Call
  <2>1. /\ sync = "fetch" /\ fetch.i # 0 /\ UNCHANGED <<sync, batch, cursor>>
        /\ \E expired \in BOOLEAN : fetch' \in Called(expired)
    BY <1>4 DEF Call
  <2>2. fetch' \in Fetching /\ GoodCursor(fetch'.cursor) /\ fetch'.i \in Steps
    BY <2>1, CallListed
  <2> QED BY <1>1, <2>1, <2>2
<1>5. CASE Stage
  <2> DEFINE out == StagedUpTo[Len(fetch.msgs)]
  <2>1. /\ batch' = [on |-> TRUE, msgs |-> out.msgs, cursor |-> fetch.cursor]
        /\ sync' = "ingest" /\ fetch' = NoFetch /\ UNCHANGED cursor
    BY <1>5 DEF Stage
  <2>2. fetch.msgs \in Seq(Listing) /\ fetch.cursor \in Cursor  BY <1>1 DEF Fetching
  <2>3. alias \in [Loc -> AliasRow]  BY DEF TypeOK, AliasRow
  <2>4. out \in Outcome  BY <2>2, <2>3, StagedTyped
  <2> HIDE DEF out
  <2>5. out.msgs \in Seq(Message)  BY <2>4 DEF Outcome
  <2>6. batch' \in [on : BOOLEAN, msgs : Seq(Message), cursor : Cursor] /\ batch'.cursor = fetch.cursor
        /\ 0 <= Len(batch'.msgs)
    BY <2>1, <2>2, <2>5
  <2> QED BY <1>1, <2>1, <2>6
<1>6. CASE Ingest
  <2>1. /\ sync = "ingest" /\ fetch.i < Len(batch.msgs) /\ fetch' = [fetch EXCEPT !.i = fetch.i + 1]
        /\ UNCHANGED <<sync, batch, cursor>>
    BY <1>6 DEF Ingest
  <2>2. fetch' = [i |-> fetch.i + 1, cursor |-> fetch.cursor, msgs |-> fetch.msgs] /\ fetch.i \in Nat
        /\ fetch.cursor \in Cursor /\ fetch.msgs \in Seq(Listing)
    BY <1>1, <2>1, Progress DEF Fetching
  <2>3. fetch' \in Fetching /\ fetch'.i = fetch.i + 1 /\ fetch'.cursor = fetch.cursor
    BY <2>2 DEF Fetching
  <2> QED BY <1>1, <2>1, <2>2, <2>3
<1>7. CASE Acknowledge
  <2>1. sync' = "idle" /\ fetch' = NoFetch /\ cursor' = batch.cursor /\ batch' = NoBatch
    BY <1>7 DEF Acknowledge, Checkpoint
  <2> QED BY <1>1, <2>1
<1>8. CASE CrashSync
  <2>1. sync' = "idle" /\ fetch' = NoFetch /\ UNCHANGED <<batch, cursor>>
    BY <1>8 DEF CrashSync
  <2> QED BY <1>1, <2>1
<1>9. CASE ~Synchronise /\ ~CrashSync
  <2>1. UNCHANGED <<sync, fetch, batch, cursor>>  BY <1>9, SyncUntouched DEF reading
  <2> QED BY <1>1, <2>1 DEF Collected
<1> QED BY <1>3, <1>4, <1>5, <1>6, <1>7, <1>8, <1>9 DEF Synchronise

-----------------------------------------------------------------------------
(* The types, one variable after the other.                                   *)
Record == [in : BOOLEAN, deleted : BOOLEAN, pid : Loc, folder : Folder \cup {NoFolder}, flag : Flag]
Progressing == [job : 0..MaxEdits, pc : {"idle", "ask", "wait", "store"}, orig : Loc, pid : Loc,
            todo : Patch, wrote : BOOLEAN, ans : {"none", "ok", "missing", "refused"}, res : Loc]

(* A record stays one when it is marked deleted.                              *)
LEMMA DeletedRecord ==
  ASSUME NEW f \in Record
  PROVE  [f EXCEPT !.deleted = TRUE] \in Record
<1> SUFFICES ASSUME NEW t \in BOOLEAN PROVE [f EXCEPT !.deleted = t] \in Record
  OBVIOUS
<1> QED BY DEF Record

(* The records stay records: of the user's edits, of what the provider lists,  *)
(* and of the identifier a write-back comes back with.                        *)
LEMMA RecsTyped ==
  ASSUME TypeOK, Running, Collected, [Next]_vars
  PROVE  recs' \in [Loc -> Record]
<1>1. recs \in [Loc -> Record] /\ Len(batch.msgs) \in Nat  BY DEF TypeOK, Record, Collected
<1>2. ASSUME NEW r \in Loc, Edit(r) PROVE recs' \in [Loc -> Record]
  <2>1. CASE \E flag \in Flag, folder \in Folder :
               recs' = [recs EXCEPT ![r].flag = flag, ![r].folder = folder]
    <3>1. PICK flag \in Flag, folder \in Folder :
               recs' = [recs EXCEPT ![r].flag = flag, ![r].folder = folder]
      BY <2>1
    <3>2. [recs[r] EXCEPT !.flag = flag, !.folder = folder] \in Record
      <4>1. \A f \in Record : [f EXCEPT !.flag = flag, !.folder = folder] \in Record  BY DEF Record
      <4> QED BY <1>1, <4>1
    <3>3. recs' = [recs EXCEPT ![r] = [recs[r] EXCEPT !.flag = flag, !.folder = folder]]
      BY <1>1, <3>1
    <3> QED BY <1>1, <3>2, <3>3
  <2>2. CASE recs' = [recs EXCEPT ![r].deleted = TRUE]
    <3>1. [recs[r] EXCEPT !.deleted = TRUE] \in Record  BY <1>1, DeletedRecord
    <3> QED BY <1>1, <2>2, <3>1
  <2> QED BY <1>2, <2>1, <2>2 DEF Edit
<1>3. CASE Store
  <2>1. recs' = [recs EXCEPT ![jobs[work.job].rec].pid = work.res] /\ work.res \in Loc
    BY <1>3 DEF Store, TypeOK
  <2>2. work.job \in DOMAIN jobs  BY <1>3 DEF Store, Running
  <2>3. jobs[work.job].rec \in Loc  BY <2>2, RowsTyped DEF Row
  <2>4. [recs[jobs[work.job].rec] EXCEPT !.pid = work.res] \in Record  BY <1>1, <2>1, <2>3 DEF Record
  <2> QED BY <1>1, <2>1, <2>3, <2>4
<1>4. CASE Ingest
  <2> DEFINE m == batch.msgs[fetch.i + 1]
             new == [in |-> TRUE, pid |-> m.pid, folder |-> Preserve(m.rec, m).folder,
                     flag |-> Preserve(m.rec, m).flag,
                     deleted |-> recs[m.rec].deleted /\ Unsettled(m.rec) # {}]
  <2>1. \/ recs' = [recs EXCEPT ![m.rec].deleted = TRUE]
        \/ recs' = recs
        \/ recs' = [recs EXCEPT ![m.rec] = new]
    BY <1>4 DEF Ingest
  <2>2. fetch.i \in Nat /\ fetch.i < Len(batch.msgs) /\ batch.msgs \in Seq(Message)
    BY <1>4 DEF Ingest, Collected
  <2>3. fetch.i + 1 \in 1..Len(batch.msgs)  BY <1>1, <2>2
  <2>4. m \in Message  BY <2>2, <2>3
  <2>5. m.pid \in Loc /\ m.flag \in Flag /\ m.folder \in Folder \cup {NoFolder}
    <3> HIDE DEF m
    <3> QED BY <2>4 DEF Message
  <2> HIDE DEF m
  <2>6. Preserve(m.rec, m).flag \in Flag /\ Preserve(m.rec, m).folder \in Folder \cup {NoFolder}
    BY <2>5, PreservedTyped
  <2>7. new \in Record
    <3>1. (recs[m.rec].deleted /\ Unsettled(m.rec) # {}) \in BOOLEAN  OBVIOUS
    <3> QED BY <2>5, <2>6, <3>1 DEF Record
  <2>8. \A r \in Loc : [recs[r] EXCEPT !.deleted = TRUE] \in Record  BY <1>1, DeletedRecord
  <2> HIDE DEF new
  <2> QED BY <1>1, <2>1, <2>7, <2>8
<1>5. CASE UNCHANGED recs  BY <1>1, <1>5
<1>6. CASE ~Store /\ ~Ingest /\ ~\E r \in Loc : Edit(r)
  <2>1. UNCHANGED recs
    <3>1. CASE \E j \in DOMAIN jobs : Cancel(j) \/ Begin(j) \/ GiveUp(j)
      BY <3>1 DEF Cancel, Begin, GiveUp
    <3>2. CASE OtherClient \/ Busy \/ Ask \/ Applied \/ Refused \/ Lose \/ CrashWork
      BY <3>2 DEF OtherClient, Busy, Ask, Applied, Refused, Lose, CrashWork, Abandon
    <3>3. CASE StartSync \/ Call \/ Stage \/ Acknowledge \/ CrashSync
      BY <3>3 DEF StartSync, Call, Stage, Acknowledge, CrashSync
    <3>4. CASE \E r \in wire : Serve(r)
      BY <3>4 DEF Serve
    <3>5. CASE UNCHANGED vars
      BY <3>5 DEF vars
    <3> QED BY <1>6, <3>1, <3>2, <3>3, <3>4, <3>5 DEF Next, HandlerStep, Synchronise
  <2> QED BY <1>5, <2>1
<1> QED BY <1>2, <1>3, <1>4, <1>6

(* A write-back's progress and its requests.                                  *)
LEMMA WorkTyped ==
  ASSUME TypeOK, Running, OneRequest, Homed, Counted, [Next]_vars
  PROVE  /\ work' \in Progressing /\ wire' \subseteq [job : Job, pid : Loc, patch : Patch]
         /\ work'.job # 0 => jobs'[work'.job].st = "running"
<1>0. /\ work \in Progressing /\ wire \subseteq [job : Job, pid : Loc, patch : Patch]
      /\ work.job # 0 => jobs[work.job].st = "running"
  BY DEF TypeOK, Progressing
<1>i. Idle \in Progressing /\ Idle.job = 0
  BY Folders, MailboxAssumption DEF Idle, Progressing, Patch, NoPatch
<1>j. \A j \in DOMAIN jobs : j \in Job /\ j # 0 /\ j \in 0..MaxEdits
  BY RowsTyped, MailboxAssumption DEF Running, Job
<1>1. ASSUME NEW r \in Loc, Edit(r)
      PROVE  /\ work' \in Progressing /\ wire' \subseteq [job : Job, pid : Loc, patch : Patch]
             /\ work'.job # 0 => jobs'[work'.job].st = "running"
  BY <1>0, <1>1, Queued DEF Running
<1>2. ASSUME NEW j \in DOMAIN jobs, Cancel(j) \/ GiveUp(j)
      PROVE  /\ work' \in Progressing /\ wire' \subseteq [job : Job, pid : Loc, patch : Patch]
             /\ work'.job # 0 => jobs'[work'.job].st = "running"
  BY <1>0, <1>2, Marked DEF Running
<1>3. ASSUME NEW j \in DOMAIN jobs, Begin(j)
      PROVE  /\ work' \in Progressing /\ wire' \subseteq [job : Job, pid : Loc, patch : Patch]
             /\ work'.job # 0 => jobs'[work'.job].st = "running"
  <2>1. jobs[j].rec \in Loc  BY RowsTyped DEF Row
  <2>2. recs[jobs[j].rec].pid \in Loc  BY <2>1 DEF TypeOK
  <2>3. work' \in Progressing
    <3>1. work' = [Idle EXCEPT !.job = j, !.pc = "ask", !.orig = recs[jobs[j].rec].pid]  BY <1>3, Beginning
    <3> QED BY <1>i, <1>j, <2>2, <3>1 DEF Progressing
  <2> QED BY <1>0, <1>3, <2>3, Beginning
<1>4. CASE Busy \/ Refused \/ Lose \/ Store \/ CrashWork \/ (Ask /\ work' = Idle)
  <2>1. work' = Idle /\ wire' = wire  BY <1>4, Ends, Settling DEF Settles, Status
  <2> QED BY <1>0, <1>i, <2>1
<1>5. CASE Ask /\ work' # Idle
  <2> DEFINE pid == Current(work.orig)
             patch == jobs[work.job].patch
  <2>1. /\ work.job \in DOMAIN jobs /\ UNCHANGED jobs /\ work'.job = work.job
        /\ wire' = wire \cup {[job |-> work.job, pid |-> pid, patch |-> First(patch)]}
        /\ work' = [work EXCEPT !.pc = "wait", !.pid = pid, !.res = pid, !.todo = Rest(patch)]
        /\ pid \in Loc /\ patch \in Patch
    BY <1>5, Asking
  <2> HIDE DEF pid, patch
  <2>2. First(patch) \in Patch /\ Rest(patch) \in Patch /\ work.job \in Job
    BY <1>j, <2>1, OneAfterTheOther
  <2>3. work' \in Progressing  BY <1>0, <2>1, <2>2 DEF Progressing
  <2> QED BY <1>0, <2>1, <2>2, <2>3
<1>6. CASE Applied
  <2>1. /\ work.job \in DOMAIN jobs /\ UNCHANGED jobs /\ work'.job = work.job /\ work.todo \in Patch
        /\ work.res \in Loc /\ work.job \in Job /\ work.job # 0
    BY <1>0, <1>6, <1>j, Going DEF Progressing
  <2>2. First(work.todo) \in Patch /\ Rest(work.todo) \in Patch  BY <2>1, OneAfterTheOther
  <2>3. work' \in {[work EXCEPT !.ans = "none", !.wrote = TRUE, !.todo = Rest(work.todo)],
                   [work EXCEPT !.pc = "store"]}
    BY <1>6 DEF Applied
  <2>4. work' \in Progressing  BY <1>0, <2>2, <2>3 DEF Progressing
  <2>5. wire' \in {wire, wire \cup {[job |-> work.job, pid |-> work.res, patch |-> First(work.todo)]}}
    BY <1>6, Going
  <2> QED BY <1>0, <2>1, <2>2, <2>4, <2>5
<1>7. ASSUME NEW r \in wire, Serve(r)
      PROVE  /\ work' \in Progressing /\ wire' \subseteq [job : Job, pid : Loc, patch : Patch]
             /\ work'.job # 0 => jobs'[work'.job].st = "running"
  <2>1. work' \in Progressing
    <3>1. CASE work' = work  BY <1>0, <3>1
    <3>2. CASE \E ans \in {"missing", "refused"} : work' = [work EXCEPT !.ans = ans]
      BY <1>0, <3>2 DEF Progressing
    <3>3. CASE There(r) /\ work' = [work EXCEPT !.ans = "ok", !.res = srv'.loc]
      <4>1. srv'.loc \in Loc  BY <1>7, <3>3, Moved, Folders DEF Loc
      <4> QED BY <1>0, <3>3, <4>1 DEF Progressing
    <3> QED BY <1>7, <3>1, <3>2, <3>3 DEF Serve
  <2>2. wire' \subseteq wire /\ UNCHANGED jobs /\ work'.job = work.job  BY <1>7, Serving
  <2> QED BY <1>0, <2>1, <2>2
<1>8. CASE OtherClient \/ Synchronise \/ CrashSync \/ UNCHANGED vars
  BY <1>0, <1>8, Quietly DEF Quiet
<1> QED BY <1>1, <1>2, <1>3, <1>4, <1>5, <1>6, <1>7, <1>8 DEF Next, HandlerStep

(* The queue stays a sequence of jobs.                                        *)
LEMMA JobsTyped ==
  ASSUME TypeOK, Running, [Next]_vars
  PROVE  jobs' \in Seq(Row)
<1>1. CASE \E r \in Loc : Edit(r)  BY <1>1, Queued
<1>2. CASE ~\E r \in Loc : Edit(r)  BY <1>2, SameEditsStep DEF SameEdits
<1> QED BY <1>1, <1>2

(* What a write-back stores, and the aliases.                                 *)
Mutation == [st : {"none", "pending", "applied", "failed", "unknown"}, pid : 0..MaxLoc]

(* The aliases stay aliases when a write-back stores the identifier its       *)
(* message moved to.                                                          *)
LEMMA AliasedTyped ==
  ASSUME TypeOK, Running, work.job # 0
  PROVE  Aliased \in [Loc -> AliasRow]
<1> DEFINE a == alias[work.orig]
           entry == [canon |-> work.res, rec |-> IF a.canon = 0 THEN work.orig ELSE a.rec,
                     folder |-> Or(jobs[work.job].patch.folder, NoFolder, a.folder)]
<1>1. work \in Progressing /\ alias \in [Loc -> AliasRow]  BY DEF TypeOK, Progressing, AliasRow
<1>2. work.orig \in Loc /\ work.res \in Loc /\ \A p \in Loc : p \in 0..MaxLoc
  BY <1>1, Folders DEF Progressing, Loc
<1>3. a \in AliasRow  BY <1>1, <1>2
<1>4. jobs[work.job].patch.folder \in Folder \cup {NoFolder}
  <2>1. work.job \in DOMAIN jobs  BY DEF Running
  <2>2. jobs[work.job].patch \in Patch  BY <2>1, RowsTyped DEF Row
  <2> QED BY <2>2 DEF Patch
<1>5. entry \in AliasRow
  <2> HIDE DEF a
  <2> QED BY <1>2, <1>3, <1>4 DEF AliasRow, Or
<1>6. entry.folder \in Folder \cup {NoFolder}
  <2> HIDE DEF entry
  <2> QED BY <1>5 DEF AliasRow
<1>7. ASSUME NEW p \in Loc PROVE [alias[p] EXCEPT !.canon = work.res, !.folder = entry.folder] \in AliasRow
  <2>1. alias[p] \in AliasRow  BY <1>1
  <2> HIDE DEF entry
  <2> QED BY <1>2, <1>6, <2>1 DEF AliasRow
<1>8. Aliased = [p \in Loc |-> IF p \in {work.orig, work.pid, work.res} THEN entry
                    ELSE IF alias[p].canon = work.pid
                         THEN [alias[p] EXCEPT !.canon = work.res, !.folder = entry.folder] ELSE alias[p]]
  BY DEF Aliased
<1> HIDE DEF entry
<1> QED BY <1>1, <1>5, <1>7, <1>8

(* So do the mutations and the aliases, whichever handler stores them.        *)
LEMMA StoresTyped ==
  ASSUME TypeOK, Running, Collected, [Next]_vars
  PROVE  muts' \in [Job -> Mutation] /\ alias' \in [Loc -> AliasRow]
<1>0. muts \in [Job -> Mutation] /\ alias \in [Loc -> AliasRow] /\ MaxLoc \in Nat
  BY Folders DEF TypeOK, Mutation, AliasRow
<1>1. \A st \in {"pending", "applied", "failed", "unknown"}, j \in Job :
        [muts EXCEPT ![j].st = st] \in [Job -> Mutation]
  <2> SUFFICES ASSUME NEW st \in {"pending", "applied", "failed", "unknown"}, NEW j \in Job
               PROVE  [muts EXCEPT ![j].st = st] \in [Job -> Mutation]
    OBVIOUS
  <2>1. [muts[j] EXCEPT !.st = st] \in Mutation  BY <1>0 DEF Mutation
  <2> QED BY <1>0, <2>1
<1>2. \A j \in DOMAIN jobs : j \in Job
  BY RowsTyped, MailboxAssumption DEF Running, Job
<1>3. CASE Ask
  <2>1. work.job \in Job  BY <1>2, <1>3 DEF Ask, Running
  <2>2. Current(work.orig) \in Loc  BY DEF TypeOK, Current, Loc
  <2>3. [st |-> "pending", pid |-> Current(work.orig)] \in Mutation  BY <1>0, <2>2 DEF Mutation, Loc
  <2> QED BY <1>0, <1>3, <2>1, <2>3 DEF Ask
<1>4. CASE Applied
  <2>1. work.job \in Job /\ work.job # 0  BY <1>2, <1>4 DEF Applied, Running
  <2> QED BY <1>0, <1>1, <1>4, <2>1, AliasedTyped DEF Applied
<1>5. CASE Refused \/ Lose
  <2>1. work.job \in Job  BY <1>2, <1>5 DEF Refused, Lose, Running
  <2>2. PICK st \in {"failed", "unknown"} : Abandon(st)  BY <1>5 DEF Refused, Lose
  <2> QED BY <1>0, <1>1, <2>1, <2>2 DEF Abandon
<1>6. CASE Stage
  <2>1. fetch.msgs \in Seq(Listing)  BY DEF Collected
  <2>2. StagedUpTo[Len(fetch.msgs)] \in Outcome  BY <1>0, <2>1, StagedTyped
  <2> QED BY <1>0, <1>6, <2>2 DEF Stage, Outcome
<1>7. CASE UNCHANGED <<muts, alias>>  BY <1>0, <1>7
<1>8. CASE ~Ask /\ ~Applied /\ ~Refused /\ ~Lose /\ ~Stage
  <2>1. UNCHANGED <<muts, alias>>
    <3>0. CASE \E r \in Loc : Edit(r)  BY <3>0 DEF Edit
    <3>1. CASE \E j \in DOMAIN jobs : Cancel(j) \/ Begin(j) \/ GiveUp(j)
      BY <3>1 DEF Cancel, Begin, GiveUp
    <3>2. CASE OtherClient \/ Busy \/ Store \/ CrashWork
      BY <3>2 DEF OtherClient, Busy, Store, CrashWork, writeback
    <3>3. CASE StartSync \/ Call \/ Ingest \/ Acknowledge \/ CrashSync
      BY <3>3 DEF StartSync, Call, Ingest, Acknowledge, CrashSync, writeback
    <3>4. CASE \E r \in wire : Serve(r)
      BY <3>4 DEF Serve
    <3>5. CASE UNCHANGED vars
      BY <3>5 DEF vars, writeback
    <3> QED BY <1>8, <3>0, <3>1, <3>2, <3>3, <3>4, <3>5 DEF Next, HandlerStep, Synchronise
  <2> QED BY <1>7, <2>1
<1> QED BY <1>3, <1>4, <1>5, <1>6, <1>8

(* The leases, and what bounds the model.                                     *)
LEMMA LimitsTyped ==
  ASSUME TypeOK, Running, OneRequest, [Next]_vars
  PROVE  /\ sync' \in {"idle", "fetch", "ingest"} /\ mailLease' \in {"free", "sync", "work"}
         /\ mailLease' = "sync" => sync' = "fetch"
         /\ reached' \in [jobs : SUBSET Job, late : BOOLEAN]
         /\ others' \in [left : 0..MaxOthers, raced : BOOLEAN]
         /\ left' \in 0..MaxFaults /\ profile' \in Profile
<1>0. /\ sync \in {"idle", "fetch", "ingest"} /\ mailLease \in {"free", "sync", "work"}
      /\ mailLease = "sync" => sync = "fetch"
      /\ reached \in [jobs : SUBSET Job, late : BOOLEAN]
      /\ others \in [left : 0..MaxOthers, raced : BOOLEAN]
      /\ left \in 0..MaxFaults /\ profile \in Profile
      /\ MaxOthers \in Nat /\ MaxFaults \in Nat
  BY MailboxAssumption DEF TypeOK
<1>f. \A f : Fault(f) => left' \in 0..MaxFaults  BY <1>0 DEF Fault
<1> DEFINE Typed == /\ sync' \in {"idle", "fetch", "ingest"} /\ mailLease' \in {"free", "sync", "work"}
                    /\ mailLease' = "sync" => sync' = "fetch"
                    /\ reached' \in [jobs : SUBSET Job, late : BOOLEAN]
                    /\ others' \in [left : 0..MaxOthers, raced : BOOLEAN]
                    /\ left' \in 0..MaxFaults /\ profile' \in Profile
<1>1. CASE \E r \in Loc : Edit(r)  BY <1>0, <1>1 DEF Edit, provider, reading
<1>2. CASE \E j \in DOMAIN jobs : Cancel(j) \/ Begin(j) \/ GiveUp(j)
  BY <1>0, <1>2 DEF Cancel, Begin, GiveUp, provider, reading
<1>3. CASE OtherClient
  <2>1. others' = [left |-> others.left - 1,
                   raced |-> others.raced \/ \E j \in reached.jobs : jobs[j].st # "completed"]
        /\ others.left > 0 /\ UNCHANGED <<reached, sync, mailLease, left, profile>>
    BY <1>3 DEF OtherClient, reading
  <2>2. others.left - 1 \in 0..MaxOthers  BY <1>0, <2>1
  <2>3. (others.raced \/ \E j \in reached.jobs : jobs[j].st # "completed") \in BOOLEAN  OBVIOUS
  <2> QED BY <1>0, <2>1, <2>2, <2>3
<1>4. CASE Busy \/ Ask \/ Applied \/ Store
  BY <1>0, <1>4 DEF Busy, Ask, Applied, Store, provider, reading
<1>5. CASE Refused \/ Lose \/ CrashWork
  BY <1>0, <1>5, <1>f DEF Refused, Lose, CrashWork, Abandon, provider, reading
<1>6. CASE StartSync \/ Stage \/ Ingest \/ Acknowledge
  BY <1>0, <1>6 DEF StartSync, Stage, Ingest, Acknowledge, provider
<1>7. CASE Call \/ CrashSync
  BY <1>0, <1>7, <1>f DEF Call, CrashSync, provider
<1>8. ASSUME NEW r \in wire, Serve(r) PROVE Typed
  <2>1. r.job \in Job  BY DEF TypeOK
  <2>2. reached' \in [jobs : SUBSET Job, late : BOOLEAN]
    <3>1. CASE UNCHANGED reached  BY <1>0, <3>1
    <3>2. CASE reached' = [jobs |-> reached.jobs \cup {r.job}, late |-> reached.late \/
                             \E k \in reached.jobs : k > r.job /\ jobs[k].rec = jobs[r.job].rec]
      <4>1. (reached.late \/ \E k \in reached.jobs : k > r.job /\ jobs[k].rec = jobs[r.job].rec) \in BOOLEAN
        OBVIOUS
      <4> QED BY <1>0, <2>1, <3>2, <4>1
    <3> QED BY <1>8, <3>1, <3>2 DEF Serve
  <2>3. left' \in 0..MaxFaults  BY <1>0, <1>8, <1>f DEF Serve
  <2>4. UNCHANGED <<sync, mailLease, others, profile>>  BY <1>8 DEF Serve, reading
  <2> QED BY <1>0, <2>2, <2>3, <2>4
<1>9. CASE UNCHANGED vars
  BY <1>0, <1>9 DEF vars, provider, reading
<1> QED BY <1>1, <1>2, <1>3, <1>4, <1>5, <1>6, <1>7, <1>8, <1>9 DEF Next, HandlerStep, Synchronise

-----------------------------------------------------------------------------
(* The invariant holds of the import, and is kept.                            *)
LEMMA MailInit == Init => MInv
<1> SUFFICES ASSUME Init PROVE MInv  OBVIOUS
<1>1. Running /\ OneRequest /\ Ordered /\ InOrder /\ Homed
  BY MailboxAssumption, Folders DEF Init, Idle, Running, OneRequest, Ordered, InOrder, Homed
<1>2. EditsStay
  BY DEF Init, EditsStay, Unsettled, LastEdit
<1>3. profile \in Profile /\ Origin \in Cursor /\ GoodCursor(Origin)
      /\ MaxEdits \in Nat /\ MaxOthers \in Nat /\ MaxFaults \in Nat /\ MaxLoc \in Nat /\ MaxVer \in Nat
      /\ 1 \in Loc /\ FolderOrder[1] \in Folder /\ "off" \in Flag
  BY OriginTyped, MailboxAssumption, Folders DEF Init, Flag, Loc
<1>4. TypeOK
  <2>1. work \in Progressing
    BY <1>3, MailboxAssumption DEF Init, Idle, Progressing, NoPatch, Patch
  <2>2. recs \in [Loc -> Record]
    <3>1. /\ [in |-> TRUE, deleted |-> FALSE, pid |-> 1, folder |-> FolderOrder[1], flag |-> "off"] \in Record
          /\ [in |-> FALSE, deleted |-> FALSE, pid |-> 1, folder |-> NoFolder, flag |-> "off"] \in Record
      BY <1>3 DEF Record
    <3> QED BY <3>1 DEF Init
  <2>3. muts \in [Job -> Mutation] /\ alias \in [Loc -> AliasRow]
    <3>1. [st |-> "none", pid |-> 0] \in Mutation /\ NoAlias \in AliasRow
      BY <1>3 DEF Mutation, NoAlias, AliasRow
    <3> QED BY <3>1 DEF Init
  <2>4. others \in [left : 0..MaxOthers, raced : BOOLEAN] /\ left \in 0..MaxFaults
        /\ reached \in [jobs : SUBSET Job, late : BOOLEAN]
    <3>1. profile.others \in 0..MaxOthers  BY <1>3, MailboxAssumption
    <3> QED BY <1>3, <3>1 DEF Init
  <2>5. /\ srv \in [loc : 0..MaxLoc, folder : Folder, flag : Flag, ver : 0..MaxVer]
        /\ home \in [Loc -> Folder \cup {NoFolder}] /\ jobs \in Seq(Row)
    BY <1>3 DEF Init, Loc
  <2>6. /\ batch.cursor \in Cursor /\ \A i \in DOMAIN batch.msgs : batch.msgs[i] \in Message
        /\ fetch.cursor \in Cursor /\ cursor \in Cursor
    BY <1>3 DEF Init, NoBatch, NoFetch
  <2>7. wire = {} /\ sync = "idle" /\ mailLease = "free" /\ work.job = 0
    BY DEF Init, Idle
  <2> QED BY <1>3, <2>1, <2>2, <2>3, <2>4, <2>5, <2>6, <2>7
          DEF TypeOK, Record, Row, Status, Progressing, Mutation, AliasRow
<1>5. Counted
  <2>1. Homes = {1} /\ Cardinality(Homes) = 1
    <3>1. Homes = {1}  BY <1>3, Folders DEF Init, Homes
    <3> QED BY <3>1, FS_Singleton
  <2>2. /\ Cardinality(Movers) \in Nat /\ Cardinality(Movers) <= MaxEdits
        /\ Cardinality(Flaggers) \in Nat /\ Cardinality(Flaggers) <= MaxEdits
    <3>1. Movers \subseteq Job /\ Flaggers \subseteq Job  BY DEF Movers, Flaggers
    <3>2. IsFiniteSet(Job) /\ Cardinality(Job) = MaxEdits  BY <1>3, FS_Interval DEF Job
    <3> HIDE DEF Movers, Flaggers, Job
    <3> QED BY <3>1, <3>2, FS_Subset, FS_CardinalityType
  <2>3. others.left \in 0..MaxOthers /\ srv.ver = 0
    BY <1>3, MailboxAssumption DEF Init
  <2>4. MaxVer >= MaxOthers + 2 * MaxEdits /\ MaxLoc > MaxOthers + MaxEdits  BY MailboxAssumption
  <2> HIDE DEF Movers, Flaggers, Homes
  <2> QED BY <1>3, <2>1, <2>2, <2>3, <2>4 DEF Counted
<1>6. Collected
  <2>1. NoFetch \in Fetching /\ NoFetch.cursor = Origin
        /\ NoBatch \in [on : BOOLEAN, msgs : Seq(Message), cursor : Cursor] /\ NoBatch.cursor = Origin
    BY <1>3, NothingFetched
  <2>2. sync = "idle" /\ fetch = NoFetch /\ batch = NoBatch /\ cursor = Origin  BY DEF Init
  <2> QED BY <1>3, <2>1, <2>2 DEF Collected, Fetching
<1> QED BY <1>4, <1>5, <1>6, <1>1, <1>2 DEF MInv

(* Every step of the user, the provider, the handler and the synchronisation  *)
(* keeps it.                                                                  *)
LEMMA MailStep == MInv /\ [Next]_vars => MInv'
<1> SUFFICES ASSUME MInv, [Next]_vars PROVE MInv'  OBVIOUS
<1>0. TypeOK /\ Running /\ OneRequest /\ Ordered /\ Homed /\ Counted /\ Collected /\ EditsStay /\ InOrder
  BY DEF MInv
<1>1. Running' /\ OneRequest' /\ Ordered' /\ InOrder' /\ EditsStay'
  BY <1>0, RunningStep, OneRequestStep, OrderedStep, InOrderStep, EditsStayStep
<1>2. /\ Homed' /\ Counted' /\ Homes \subseteq Homes'
      /\ srv' \in [loc : 0..MaxLoc, folder : Folder, flag : Flag, ver : 0..MaxVer]
      /\ home' \in [Loc -> Folder \cup {NoFolder}]
  BY <1>0, CountedStep
<1>3. Collected'  BY <1>0, <1>2, CollectedStep
<1>4. TypeOK'
  <2>1. recs' \in [Loc -> Record] /\ jobs' \in Seq(Row)  BY <1>0, RecsTyped, JobsTyped
  <2>2. /\ work' \in Progressing /\ wire' \subseteq [job : Job, pid : Loc, patch : Patch]
        /\ work'.job # 0 => jobs'[work'.job].st = "running"
    BY <1>0, WorkTyped
  <2>3. muts' \in [Job -> Mutation] /\ alias' \in [Loc -> AliasRow]  BY <1>0, StoresTyped
  <2>4. /\ sync' \in {"idle", "fetch", "ingest"} /\ mailLease' \in {"free", "sync", "work"}
        /\ mailLease' = "sync" => sync' = "fetch"
        /\ reached' \in [jobs : SUBSET Job, late : BOOLEAN]
        /\ others' \in [left : 0..MaxOthers, raced : BOOLEAN]
        /\ left' \in 0..MaxFaults /\ profile' \in Profile
    BY <1>0, LimitsTyped
  <2>5. /\ batch'.cursor \in Cursor' /\ fetch'.cursor \in Cursor' /\ cursor' \in Cursor'
        /\ \A i \in DOMAIN batch'.msgs : batch'.msgs[i] \in Message
    <3>1. batch'.msgs \in Seq(Message)  BY <1>3 DEF Collected
    <3> QED BY <1>3, <3>1 DEF Collected, GoodCursor
  <2> QED BY <1>2, <2>1, <2>2, <2>3, <2>4, <2>5 DEF TypeOK, Record, Row, Status, Progressing, Mutation, AliasRow
<1> QED BY <1>1, <1>2, <1>3, <1>4 DEF MInv

(* Every reachable state of the mailbox satisfies the invariant.               *)
LEMMA MailInvariance == Spec => []MInv
BY MailInit, MailStep, PTL DEF Spec

(* Every variable of the mailbox keeps its type, in every mailbox: whatever    *)
(* the number of edits, of other clients' changes and of faults, and for each  *)
(* of the three protocols.                                                     *)
THEOREM MailTypeCorrect == Spec => []TypeOK
<1>1. MInv => TypeOK  BY DEF MInv
<1> QED BY <1>1, MailInvariance, PTL

(* A local edit is honoured in every mailbox: until its write-back is settled   *)
(* the user sees it, whatever a synchronisation lists (preservePending), and   *)
(* the provider never applies an earlier edit of a record after a later one,   *)
(* through lost answers, late requests, crashes and cancelled jobs.            *)
THEOREM EditsAreHonoured == Spec => []EditsHonoured
<1>1. MInv => EditsHonoured  BY DEF MInv, EditsHonoured
<1> QED BY <1>1, MailInvariance, PTL

-----------------------------------------------------------------------------
(* A mailbox of Gmail or Graph is told of every change: its checkpoint, the    *)
(* records and what is on its way between them.                                *)

(* Whose listings report every change of the message: Gmail's, unless a full   *)
(* listing replaces an expired history and other clients may have removed the  *)
(* message; Graph's, unless other clients move it from folder to folder.       *)
Reports ==
  \/ profile.protocol = "gmail" /\ ~(profile.moves /\ "expire" \in profile.faults)
  \/ profile.protocol = "graph" /\ ~profile.moves

(* No write-back has gone wrong, and none was raced.                           *)
Well == /\ \A j \in DOMAIN jobs : jobs[j].st \in {"pending", "running", "completed"}
        /\ work.pc = "wait" => work.ans \in {"none", "ok"}
        /\ ~others.raced

(* Requests ask for what their jobs' edits changed.                            *)
PartOf(p, q) == p.flag \in {"none", q.flag} /\ p.folder \in {NoFolder, q.folder}
Asked == /\ \A r \in wire : PartOf(r.patch, jobs[r.job].patch)
         /\ work.pc = "wait" => PartOf(work.todo, jobs[work.job].patch)
         /\ \A j \in DOMAIN jobs : jobs[j].patch # NoPatch

(* The lease 'mail' is a synchronisation's while it fetches, and a write-     *)
(* back's while it waits for the provider.                                     *)
Leased == /\ work.pc = "wait" <=> mailLease = "work"
          /\ sync = "fetch" <=> mailLease = "sync"
          /\ sync = "ingest" => batch.on
          /\ batch.on => sync # "fetch"

(* The message keeps its identifier, its record and its one name.              *)
OneRecord ==
  /\ srv.loc \in {0, 1} /\ (srv.loc = 0 => profile.moves)
  /\ \A r \in Loc : recs[r].pid = 1 /\ (recs[r].in <=> r = 1)
  /\ \A j \in DOMAIN jobs : jobs[j].rec = 1
  /\ alias[1].canon \in {0, 1} /\ (alias[1].canon = 1 => alias[1].rec = 1)
  /\ work.orig = 1 /\ work.pid = 1 /\ work.res = 1

(* What the job that runs has still to be told of: of each field it writes,    *)
(* either that is outstanding or the provider has it.  What is completed has   *)
(* reached the provider.                                                       *)
Outstanding == {r.patch : r \in {s \in wire : s.job = work.job}}
                 \cup (IF work.pc = "wait" THEN {work.todo} ELSE {})
Effective ==
  /\ \A j \in DOMAIN jobs : jobs[j].st = "completed" => j \in reached.jobs
  /\ work.job # 0 /\ work.pc # "ask" =>
       LET patch == jobs[work.job].patch IN
       /\ \/ patch.flag = "none" \/ \E p \in Outstanding : p.flag # "none"
          \/ work.job \in reached.jobs /\ srv.flag = patch.flag
       /\ \/ patch.folder = NoFolder \/ \E p \in Outstanding : p.folder # NoFolder
          \/ work.job \in reached.jobs /\ srv.folder = patch.folder

(* A record is deleted because the message is gone, or by the last edit.       *)
DeletedLast ==
  recs[1].deleted => srv.loc = 0 \/ (Len(jobs) > 0 /\ jobs[Len(jobs)].patch.folder = "deleted")

(* The record is what the provider has, with the unsettled edits over it.      *)
Agree ==
  /\ srv.loc = 0 => recs[1].deleted
  /\ srv.loc # 0 /\ recs[1].deleted =>
       srv.folder = "deleted" \/ (Len(jobs) > 0 /\ jobs[Len(jobs)].st # "completed")
  /\ srv.loc # 0 /\ ~recs[1].deleted =>
       /\ (\A j \in Unsettled(1) : jobs[j].patch.flag = "none") => recs[1].flag = srv.flag
       /\ (\A j \in Unsettled(1) : jobs[j].patch.folder = NoFolder) => recs[1].folder = srv.folder

(* A message as it may be listed of the provider's state s, and one that shows *)
(* just that.                                                                  *)
Listed(m, s) == m.pid = 1 /\ m.prev = 0 /\ (m.del => s.loc = 0 /\ m.folder = NoFolder)
Shows(m, s) == /\ m.del <=> s.loc = 0
               /\ ~m.del => m.flag = s.flag /\ m.folder = s.folder

(* A cursor is never ahead of the provider.  It is level with it when it was   *)
(* taken from the provider's present version.                                  *)
Told(c) == IF c.full /\ c.seen THEN c.next ELSE c.hist
GmailBehind(c, s) ==
  /\ c.hist <= s.ver /\ c.next <= s.ver
  /\ c.full => ~c.pending
  /\ ~c.full => c.page = 0
  /\ c.page = 0 => ~c.seen
  /\ c.pending \/ (c.full /\ c.page > 0) => c.hist <= c.next
GraphBehind(c, s) ==
  /\ \A f \in Folder : c[f].has \/ c[f] = GraphS!Absent
  /\ \E f \in Folder : \A g \in Folder : c[g].has <=> g = f
  /\ \A f \in Folder : c[f].ver <= s.ver /\ (c[f].has /\ c[f].ver = s.ver => f = s.folder)
GmailLevel(c, s) == Told(c) = s.ver
GraphLevel(c, s) == c[s.folder] = [has |-> TRUE, ver |-> s.ver]
Behind(c, s) == /\ profile.protocol = "gmail" => GmailBehind(c, s)
                /\ profile.protocol = "graph" => GraphBehind(c, s)
Level(c, s) == /\ profile.protocol = "gmail" => GmailLevel(c, s)
               /\ profile.protocol = "graph" => GraphLevel(c, s)

(* Gmail is asked for a full listing only after its history has expired.      *)
Expired == profile.protocol = "gmail" =>
  \A c \in {cursor, fetch.cursor, batch.cursor} : c.full => "expire" \in profile.faults

(* What the checkpoint and a staged batch say of the record.                   *)
Carried ==
  /\ Behind(cursor, srv) /\ (Level(cursor, srv) => Agree)
  /\ batch.on =>
       /\ Behind(batch.cursor, srv) /\ (Level(cursor, srv) => Level(batch.cursor, srv))
       /\ Len(batch.msgs) <= 1
       /\ \A i \in DOMAIN batch.msgs : Listed(batch.msgs[i], srv) /\ batch.msgs[i].rec = 1
       /\ Level(batch.cursor, srv) =>
            /\ \A i \in DOMAIN batch.msgs : Shows(batch.msgs[i], srv)
            /\ batch.msgs = <<>> \/ (sync = "ingest" /\ fetch.i = Len(batch.msgs)) => Agree

(* What a call to Gmail leaves: a message is fetched last (i = 3), as it is.   *)
GmailFetched ==
  LET c == fetch.cursor IN
  /\ GmailBehind(c, srv) /\ (GmailLevel(cursor, srv) => GmailLevel(c, srv))
  /\ fetch.i = 2 => c.full /\ c.hist <= c.next
  /\ fetch.i # 0 => fetch.msgs = <<>>
  /\ Len(fetch.msgs) <= 1 /\ \A i \in DOMAIN fetch.msgs : Listed(fetch.msgs[i], srv)
  /\ GmailLevel(c, srv) /\ fetch.i # 3 => /\ \A i \in DOMAIN fetch.msgs : Shows(fetch.msgs[i], srv)
                                          /\ fetch.msgs = <<>> => Agree

(* The folders Graph has listed, and what it has listed of them: the message   *)
(* in its folder, or its removal while that folder is still to come.           *)
Past == {FolderOrder[k] : k \in 1..(IF fetch.i = 0 THEN Len(FolderOrder) ELSE fetch.i - 1)}
GraphFetched ==
  LET c == fetch.cursor here == srv.folder IN
  /\ \A f \in Folder \ Past : c[f] = cursor[f]
  /\ \A f \in Past \ {here} : c[f] = GraphS!Absent
  /\ here \notin Past => fetch.msgs = <<>> \/ ~cursor[here].has
  /\ here \in Past =>
       /\ c[here].has /\ cursor[here].ver <= c[here].ver /\ c[here].ver <= srv.ver
       /\ fetch.msgs = <<>> => c[here] = cursor[here]
       /\ Len(fetch.msgs) <= 1
       /\ \A i \in DOMAIN fetch.msgs : /\ Listed(fetch.msgs[i], srv)
                                       /\ GraphLevel(c, srv) => Shows(fetch.msgs[i], srv)

Fetched == sync = "fetch" => /\ profile.protocol = "gmail" => GmailFetched
                             /\ profile.protocol = "graph" => GraphFetched

(* While all is well the mailbox is told of every change; the rest is so       *)
(* whatever goes wrong.                                                        *)
Reported == Reports /\ Well => OneRecord /\ Effective /\ DeletedLast /\ Carried /\ Fetched
RInv == MInv /\ Asked /\ Leased /\ Expired /\ Reported

-----------------------------------------------------------------------------
(* The simple parts: what is asked for, the lease, and what never recovers.    *)

(* A mailbox's profile is for ever.                                           *)
LEMMA ProfileKept ==
  ASSUME [Next]_vars
  PROVE  UNCHANGED profile /\ (Reports' <=> Reports)
<1>1. CASE Synchronise \/ CrashSync
  BY <1>1 DEF Synchronise, StartSync, Call, Stage, Ingest, Acknowledge, CrashSync, Reports
<1>2. CASE ~Synchronise /\ ~CrashSync
  BY <1>2, SyncUntouched DEF Reports
<1> QED BY <1>1, <1>2

(* The two parts of a patch ask for nothing that the patch does not.          *)
LEMMA PartsOfPart ==
  ASSUME NEW t \in Patch, NEW q, PartOf(t, q)
  PROVE  PartOf(First(t), q) /\ PartOf(Rest(t), q)
<1>1. First(t).flag \in {t.flag, "none"} /\ First(t).folder \in {t.folder, NoFolder}
  BY DEF First, Patch
<1>2. Rest(t).flag \in {t.flag, "none"} /\ Rest(t).folder \in {t.folder, NoFolder}
  BY DEF Rest, Patch, NoPatch
<1> QED BY <1>1, <1>2 DEF PartOf

(* Steps that put no new request under way keep what was asked.               *)
LEMMA AskedIf ==
  ASSUME Asked, OneRequest, Running,
         wire' \subseteq wire, DOMAIN jobs \subseteq DOMAIN jobs',
         \A j \in DOMAIN jobs : jobs'[j].patch = jobs[j].patch,
         \A j \in DOMAIN jobs' \ DOMAIN jobs : jobs'[j].patch # NoPatch,
         work'.pc = "wait" => work.pc = "wait" /\ work'.job = work.job /\ work'.todo = work.todo
  PROVE  Asked'
<1>1. \A r \in wire : r.job \in DOMAIN jobs  BY DEF OneRequest
<1>2. work.pc = "wait" => work.job \in DOMAIN jobs  BY DEF Running
<1> QED BY <1>1, <1>2 DEF Asked, PartOf

(* A request asks for a part of what its job's edit changed.                   *)
LEMMA AskedStep ==
  ASSUME TypeOK, Running, OneRequest, Asked, [Next]_vars
  PROVE  Asked'
<1>0. Idle.pc = "idle"  BY DEF Idle
<1>1. ASSUME NEW r \in Loc, Edit(r) PROVE Asked'
  <2>1. jobs'[Len(jobs) + 1].patch # NoPatch
    <3>1. /\ recs[r].flag \in Flag /\ recs[r].folder \in Folder \cup {NoFolder}
          /\ jobs \in Seq(Row) /\ "none" \notin Flag /\ NoFolder \notin Folder
      BY RowsTyped, Folders DEF TypeOK, Flag
    <3>2. CASE \E flag \in Flag, folder \in Folder :
                 /\ <<flag, folder>> # <<recs[r].flag, recs[r].folder>>
                 /\ Queue(r, [flag |-> IF flag = recs[r].flag THEN "none" ELSE flag,
                              folder |-> IF folder = recs[r].folder THEN NoFolder ELSE folder])
      BY <3>1, <3>2 DEF Queue, NoPatch
    <3>3. CASE "deleted" \in Folder /\ Queue(r, [flag |-> "none", folder |-> "deleted"])
      BY <3>1, <3>3 DEF Queue, NoPatch
    <3> QED BY <1>1, <3>2, <3>3 DEF Edit
  <2> QED BY <1>1, <2>1, Queued, AskedIf
<1>2. ASSUME NEW j \in DOMAIN jobs, Cancel(j) \/ GiveUp(j) PROVE Asked'
  BY <1>2, Marked, AskedIf DEF SameEdits
<1>3. ASSUME NEW j \in DOMAIN jobs, Begin(j) PROVE Asked'
  BY <1>3, Beginning, AskedIf DEF SameEdits
<1>4. CASE Busy \/ Refused \/ Lose \/ Store \/ CrashWork \/ (Ask /\ work' = Idle)
  <2>1. Settles /\ wire' = wire  BY <1>4, Ends
  <2>2. SameEdits /\ work' = Idle
    <3>1. PICK st \in {"pending", "failed", "unknown", "completed"} : Settle(st)
      BY <2>1 DEF Settles
    <3> QED BY <2>1, <3>1, Settling DEF Settles, Status
  <2> QED BY <1>0, <2>1, <2>2, AskedIf DEF SameEdits
<1>5. CASE Ask /\ work' # Idle
  <2>1. /\ UNCHANGED jobs /\ work'.job = work.job /\ work'.todo = Rest(jobs[work.job].patch)
        /\ wire' = wire \cup {[job |-> work.job, pid |-> Current(work.orig), patch |-> First(jobs[work.job].patch)]}
        /\ jobs[work.job].patch \in Patch
    BY <1>5, Asking
  <2>2. PartOf(jobs[work.job].patch, jobs[work.job].patch)  BY DEF PartOf
  <2> QED BY <2>1, <2>2, PartsOfPart DEF Asked
<1>6. CASE Applied
  <2>1. /\ work.pc = "wait" /\ UNCHANGED jobs /\ work'.job = work.job /\ work.todo \in Patch
        /\ \/ /\ work'.todo = Rest(work.todo)
              /\ wire' = wire \cup {[job |-> work.job, pid |-> work.res, patch |-> First(work.todo)]}
           \/ work'.pc = "store" /\ wire' = wire
    BY <1>6, Going DEF TypeOK
  <2> QED BY <2>1, PartsOfPart DEF Asked
<1>7. ASSUME NEW r \in wire, Serve(r) PROVE Asked'
  BY <1>7, Serving, AskedIf
<1>8. CASE OtherClient \/ Synchronise \/ CrashSync \/ UNCHANGED vars
  BY <1>8, Quietly, AskedIf DEF Quiet
<1> QED BY <1>1, <1>2, <1>3, <1>4, <1>5, <1>6, <1>7, <1>8 DEF Next, HandlerStep

(* One side holds the lease 'mail' at a time, and for as long as it needs it.  *)
LEMMA LeasedStep ==
  ASSUME TypeOK, Leased, [Next]_vars
  PROVE  Leased'
<1>0. Idle.pc = "idle"  BY DEF Idle
<1>1. CASE \E r \in Loc : Edit(r)  BY <1>1 DEF Edit, Leased, reading
<1>2. CASE \E j \in DOMAIN jobs : Cancel(j) \/ GiveUp(j)  BY <1>2 DEF Cancel, GiveUp, Leased, reading
<1>3. ASSUME NEW j \in DOMAIN jobs, Begin(j) PROVE Leased'
  <2>1. work.pc = "idle" /\ work'.pc = "ask" /\ UNCHANGED <<sync, batch, mailLease>>
    BY <1>3 DEF Begin, Idle, reading
  <2> QED BY <2>1 DEF Leased
<1>4. CASE Busy \/ Store
  <2>1. work.pc \in {"ask", "store"} /\ work'.pc = "idle" /\ UNCHANGED <<sync, batch, mailLease>>
    BY <1>0, <1>4 DEF Busy, Store, Settle, reading
  <2> QED BY <2>1 DEF Leased
<1>5. CASE Refused \/ Lose
  <2>1. work.pc = "wait" /\ work'.pc = "idle" /\ UNCHANGED <<sync, batch>> /\ mailLease' = "free"
    BY <1>0, <1>5 DEF Refused, Lose, Abandon, Settle, reading
  <2> QED BY <2>1 DEF Leased
<1>6. CASE CrashWork
  <2>1. /\ work'.pc = "idle" /\ UNCHANGED <<sync, batch>>
        /\ mailLease' = IF mailLease = "work" THEN "free" ELSE mailLease
    BY <1>0, <1>6 DEF CrashWork, Settle, reading
  <2> QED BY <2>1 DEF Leased
<1>7. CASE Ask
  <2>1. /\ work.pc = "ask" /\ mailLease = "free" /\ UNCHANGED <<sync, batch>>
        /\ \/ work' = Idle /\ UNCHANGED mailLease
           \/ work'.pc = "wait" /\ mailLease' = "work"
    BY <1>7 DEF Ask, Settle, reading, TypeOK
  <2> QED BY <1>0, <2>1 DEF Leased
<1>8. CASE Applied
  <2>1. /\ work.pc = "wait" /\ UNCHANGED <<sync, batch>>
        /\ \/ work'.pc = "wait" /\ UNCHANGED mailLease
           \/ work'.pc = "store" /\ mailLease' = "free"
    BY <1>8 DEF Applied, reading, TypeOK
  <2> QED BY <2>1 DEF Leased
<1>9. ASSUME NEW r \in wire, Serve(r) PROVE Leased'
  <2>1. work'.pc = work.pc /\ UNCHANGED <<sync, batch, mailLease>>
    BY <1>9, Serving DEF Serve, reading
  <2> QED BY <2>1 DEF Leased
<1>10. CASE OtherClient \/ UNCHANGED vars
  BY <1>10 DEF OtherClient, vars, writeback, reading, Leased
<1>11. CASE StartSync \/ Call \/ Ingest \/ Acknowledge
  BY <1>11 DEF StartSync, Call, Ingest, Acknowledge, writeback, NoBatch, Leased
<1>12. CASE Stage \/ CrashSync
  BY <1>12 DEF Stage, CrashSync, writeback, Leased, TypeOK
<1> QED BY <1>1, <1>2, <1>3, <1>4, <1>5, <1>6, <1>7, <1>8, <1>9, <1>10, <1>11, <1>12
        DEF Next, HandlerStep, Synchronise

(* Only another client's change counts as one.                                *)
LEMMA OthersKept ==
  ASSUME [Next]_vars, ~OtherClient
  PROVE  UNCHANGED others
<1>1. CASE \E r \in Loc : Edit(r)  BY <1>1 DEF Edit, provider
<1>2. CASE \E j \in DOMAIN jobs : Cancel(j) \/ Begin(j) \/ GiveUp(j)  BY <1>2 DEF Cancel, Begin, GiveUp, provider
<1>3. CASE Busy \/ Ask \/ Applied \/ Refused \/ Store \/ Lose \/ CrashWork
  BY <1>3 DEF Busy, Ask, Applied, Refused, Store, Lose, CrashWork, Abandon, provider
<1>4. CASE StartSync \/ Call \/ Stage \/ Ingest \/ Acknowledge \/ CrashSync
  BY <1>4 DEF StartSync, Call, Stage, Ingest, Acknowledge, CrashSync, provider
<1>5. CASE \E r \in wire : Serve(r)  BY <1>5 DEF Serve
<1>6. CASE UNCHANGED vars  BY <1>6 DEF vars, provider
<1> QED BY <1>1, <1>2, <1>3, <1>4, <1>5, <1>6 DEF Next, HandlerStep, Synchronise

(* What has gone wrong once is never well again.                              *)
LEMMA WellBefore ==
  ASSUME TypeOK, Running, OneRequest, [Next]_vars, Well'
  PROVE  Well
<1>0. Idle.pc = "idle"  BY DEF Idle
<1>1. ~others.raced
  <2>1. CASE OtherClient
    <3>1. others'.raced = (others.raced \/ \E j \in reached.jobs : jobs[j].st # "completed")
      BY <2>1 DEF OtherClient
    <3> QED BY <3>1 DEF Well
  <2>2. CASE ~OtherClient
    <3>1. UNCHANGED others  BY <2>2, OthersKept
    <3> QED BY <3>1 DEF Well
  <2> QED BY <2>1, <2>2
<1>2. ASSUME NEW r \in Loc, Edit(r) PROVE Well
  BY <1>1, <1>2, Queued DEF Well
<1>3. ASSUME NEW j \in DOMAIN jobs, Cancel(j) \/ GiveUp(j) PROVE Well
  BY <1>3, Marked DEF Well, SameEdits
<1>4. ASSUME NEW j \in DOMAIN jobs, Begin(j) PROVE Well
  BY <1>1, <1>4, Beginning DEF Well, SameEdits
<1>5. CASE Busy \/ Refused \/ Lose \/ Store \/ CrashWork \/ (Ask /\ work' = Idle)
  <2>1. Settles  BY <1>5, Ends
  <2>2. PICK st \in {"pending", "failed", "unknown", "completed"} :
          /\ Settle(st) /\ (st = "pending" => work.pc = "ask")
          /\ st = "unknown" \/ work.pc # "wait" \/ work.ans # "none"
    BY <2>1 DEF Settles
  <2>3. /\ work.job \in DOMAIN jobs /\ jobs[work.job].st = "running" /\ SameEdits
        /\ \A k \in DOMAIN jobs : jobs'[k].st = IF k = work.job THEN st ELSE jobs[k].st
    BY <2>1, <2>2, Settling DEF Settles, Status
  <2>4. st \in {"pending", "completed"}  BY <2>2, <2>3 DEF Well, SameEdits
  <2>5. work.pc # "wait"
    <3>1. CASE Busy \/ Store \/ Ask  BY <3>1 DEF Busy, Store, Ask
    <3>2. CASE Refused \/ Lose \/ CrashWork
      <4>1. \E s \in {"failed", "unknown"} : Settle(s)  BY <3>2 DEF Refused, Lose, CrashWork, Abandon
      <4>2. PICK s \in {"failed", "unknown"} : Settle(s)  BY <4>1
      <4>3. jobs'[work.job].st = s  BY <2>1, <2>3, <4>2, Settling DEF Settles, Status
      <4> QED BY <2>3, <4>2, <4>3 DEF Well, SameEdits
    <3> QED BY <1>5, <3>1, <3>2
  <2> QED BY <1>1, <2>3, <2>5 DEF Well, SameEdits
<1>6. CASE Ask /\ work' # Idle
  BY <1>1, <1>6, Asking DEF Well
<1>7. CASE Applied
  BY <1>1, <1>7, Going DEF Well
<1>8. ASSUME NEW r \in wire, Serve(r) PROVE Well
  <2>1. UNCHANGED jobs /\ work'.pc = work.pc  BY <1>8, Serving
  <2>2. work.pc = "wait" => work.ans \in {"none", "ok"}
    <3>1. CASE Waits(r)  BY <2>1, <3>1 DEF OneRequest, Well, Waits
    <3>2. CASE ~Waits(r)  BY <1>8, <3>2, Serving DEF Well
    <3> QED BY <3>1, <3>2
  <2> QED BY <1>1, <2>1, <2>2 DEF Well
<1>9. CASE OtherClient \/ Synchronise \/ CrashSync \/ UNCHANGED vars
  BY <1>1, <1>9, Quietly DEF Quiet, Well
<1> QED BY <1>2, <1>3, <1>4, <1>5, <1>6, <1>7, <1>8, <1>9 DEF Next, HandlerStep

-----------------------------------------------------------------------------
(* The message, its record and its job's effect.                               *)

(* Only other clients and requests change the message at the provider.        *)
LEMMA ServerKept ==
  ASSUME [Next]_vars, ~OtherClient, ~\E r \in wire : Serve(r)
  PROVE  UNCHANGED srv
<1>1. CASE \E r \in Loc : Edit(r)  BY <1>1 DEF Edit, provider
<1>2. CASE \E j \in DOMAIN jobs : Cancel(j) \/ Begin(j) \/ GiveUp(j)  BY <1>2 DEF Cancel, Begin, GiveUp, provider
<1>3. CASE Busy \/ Ask \/ Applied \/ Refused \/ Store \/ Lose \/ CrashWork
  BY <1>3 DEF Busy, Ask, Applied, Refused, Store, Lose, CrashWork, Abandon, provider
<1>4. CASE StartSync \/ Call \/ Stage \/ Ingest \/ Acknowledge \/ CrashSync
  BY <1>4 DEF StartSync, Call, Stage, Ingest, Acknowledge, CrashSync, provider
<1>5. CASE UNCHANGED vars  BY <1>5 DEF vars, provider
<1> QED BY <1>1, <1>2, <1>3, <1>4, <1>5 DEF Next, HandlerStep, Synchronise

(* Every change of the message raises its version; it never comes back, and    *)
(* only write-backs and other clients that may move it do.                     *)
LEMMA Versions ==
  ASSUME TypeOK, Reports, OneRecord, [Next]_vars
  PROVE  /\ srv' = srv \/ srv'.ver = srv.ver + 1
         /\ srv'.loc \in {0, 1} /\ (srv.loc = 0 => srv'.loc = 0) /\ (srv'.loc = 0 => profile.moves)
         /\ srv'.folder # srv.folder => profile.moves \/ \E r \in wire : Serve(r)
         /\ ~OtherClient => srv'.loc = srv.loc
<1>0. srv \in [loc : 0..MaxLoc, folder : Folder, flag : Flag, ver : 0..MaxVer] /\ ~Imap
  BY DEF TypeOK, Reports, Imap
<1>1. ASSUME NEW folder, NEW flag, MoveTo(folder, flag)
      PROVE  /\ srv' = srv \/ srv'.ver = srv.ver + 1
             /\ srv'.loc = srv.loc /\ srv'.folder = folder
  <2>1. srv' = [loc |-> srv.loc, folder |-> folder, flag |-> flag,
                ver |-> IF <<folder, flag>> = <<srv.folder, srv.flag>> THEN srv.ver ELSE srv.ver + 1]
    BY <1>0, <1>1 DEF MoveTo
  <2>2. srv = [loc |-> srv.loc, folder |-> srv.folder, flag |-> srv.flag, ver |-> srv.ver]
    BY <1>0
  <2>3. CASE <<folder, flag>> = <<srv.folder, srv.flag>>
    <3>1. folder = srv.folder /\ flag = srv.flag  BY <2>3
    <3> QED BY <2>1, <2>2, <3>1
  <2>4. CASE <<folder, flag>> # <<srv.folder, srv.flag>>  BY <2>1, <2>4
  <2> QED BY <2>1, <2>3, <2>4
<1>2. CASE OtherClient
  <2>1. CASE \E flag \in Flag \ {srv.flag} : MoveTo(srv.folder, flag)
    BY <1>0, <1>1, <1>2, <2>1 DEF OneRecord
  <2>2. CASE profile.moves /\ \E folder \in Folder \ {srv.folder} : MoveTo(folder, srv.flag)
    BY <1>0, <1>1, <1>2, <2>2 DEF OneRecord
  <2>3. CASE profile.moves /\ srv' = [srv EXCEPT !.loc = 0, !.ver = @ + 1]
    <3>1. srv' = [loc |-> 0, folder |-> srv.folder, flag |-> srv.flag, ver |-> srv.ver + 1]
      BY <1>0, <2>3
    <3> QED BY <2>3, <3>1, <1>2
  <2> QED BY <1>2, <2>1, <2>2, <2>3 DEF OtherClient
<1>3. ASSUME NEW r \in wire, Serve(r)
      PROVE  /\ srv' = srv \/ srv'.ver = srv.ver + 1
             /\ srv'.loc = srv.loc
  BY <1>1, <1>3 DEF Serve
<1>4. CASE ~OtherClient /\ ~\E r \in wire : Serve(r)
  BY <1>4, ServerKept DEF OneRecord
<1> QED BY <1>2, <1>3, <1>4 DEF OneRecord

(* A message that was listed is staged under the one record and the one name.  *)
LEMMA StagingOurs ==
  ASSUME TypeOK, Collected, OneRecord, Len(fetch.msgs) <= 1,
         \A i \in DOMAIN fetch.msgs : Listed(fetch.msgs[i], srv)
  PROVE  LET out == StagedUpTo[Len(fetch.msgs)] IN
         /\ out.alias = alias /\ Len(out.msgs) = Len(fetch.msgs)
         /\ \A i \in DOMAIN out.msgs :
              /\ i \in DOMAIN fetch.msgs /\ out.msgs[i].rec = 1 /\ out.msgs[i].pid = 1 /\ out.msgs[i].prev = 0
              /\ out.msgs[i].del = fetch.msgs[i].del /\ out.msgs[i].flag = fetch.msgs[i].flag
              /\ out.msgs[i].folder = fetch.msgs[i].folder
<1>0. fetch.msgs \in Seq(Listing) /\ Len(fetch.msgs) \in Nat  BY DEF Collected
<1>1. StagedUpTo[0] = [msgs |-> <<>>, alias |-> alias]
  BY <1>0, StagingDefined
<1>2. CASE Len(fetch.msgs) = 0
  BY <1>1, <1>2
<1>3. CASE Len(fetch.msgs) = 1
  <2> DEFINE m == fetch.msgs[1]
             rec == IF alias[1].canon # 0 THEN alias[1].rec ELSE 1
             msg == [pid |-> 1, del |-> m.del, meta |-> m.meta, folder |-> m.folder,
                     flag |-> m.flag, prev |-> 0, rec |-> 1]
  <2>1. StagedUpTo[1] = Staged(m, StagedUpTo[0])
    BY <1>0, <1>3, StagingDefined
  <2>2. m \in Listing /\ Listed(m, srv)  BY <1>0, <1>3
  <2>3. m.pid = 1 /\ m.prev = 0 /\ (m.del => m.folder = NoFolder)
    BY <2>2 DEF Listed
  <2> HIDE DEF m
  <2>4. Staged(m, [msgs |-> <<>>, alias |-> alias]) = [msgs |-> Append(<<>>, msg), alias |-> alias]
    <3>1. ~StaleName(m, alias[1]) /\ ~OldFolder(m, alias[1])
      BY <2>3 DEF StaleName, OldFolder, OneRecord
    <3>2. rec = 1  BY DEF OneRecord
    <3> QED BY <2>3, <3>1, <3>2 DEF Staged
  <2>5. StagedUpTo[1] = [msgs |-> <<msg>>, alias |-> alias]  BY <1>1, <2>1, <2>4
  <2> QED BY <1>0, <1>3, <2>5 DEF m
<1>4. Len(fetch.msgs) = 0 \/ Len(fetch.msgs) = 1
  <2>1. ASSUME NEW n \in Nat, n <= 1 PROVE n = 0 \/ n = 1  BY <2>1
  <2> QED BY <1>0, <2>1
<1> QED BY <1>2, <1>3, <1>4

(* Steps that leave the records, the aliases or the identifier alone.          *)
LEMMA RecordsUntouched ==
  ASSUME [Next]_vars, ~Store, ~Ingest, ~\E r \in Loc : Edit(r)
  PROVE  UNCHANGED recs
<1>1. CASE \E j \in DOMAIN jobs : Cancel(j) \/ Begin(j) \/ GiveUp(j)
  BY <1>1 DEF Cancel, Begin, GiveUp
<1>2. CASE OtherClient \/ Busy \/ Ask \/ Applied \/ Refused \/ Lose \/ CrashWork
  BY <1>2 DEF OtherClient, Busy, Ask, Applied, Refused, Lose, CrashWork, Abandon
<1>3. CASE StartSync \/ Call \/ Stage \/ Acknowledge \/ CrashSync
  BY <1>3 DEF StartSync, Call, Stage, Acknowledge, CrashSync
<1>4. CASE \E r \in wire : Serve(r)  BY <1>4 DEF Serve
<1>5. CASE UNCHANGED vars  BY <1>5 DEF vars
<1> QED BY <1>1, <1>2, <1>3, <1>4, <1>5 DEF Next, HandlerStep, Synchronise

(* Only staging and write-backs change the names of messages.                  *)
LEMMA AliasKept ==
  ASSUME [Next]_vars, ~Applied, ~Stage
  PROVE  UNCHANGED alias
<1>1. CASE \E r \in Loc : Edit(r)  BY <1>1 DEF Edit
<1>2. CASE \E j \in DOMAIN jobs : Cancel(j) \/ Begin(j) \/ GiveUp(j)
  BY <1>2 DEF Cancel, Begin, GiveUp
<1>3. CASE OtherClient \/ Busy \/ Ask \/ Refused \/ Lose \/ Store \/ CrashWork
  BY <1>3 DEF OtherClient, Busy, Ask, Refused, Lose, Store, CrashWork, Abandon, writeback
<1>4. CASE StartSync \/ Call \/ Ingest \/ Acknowledge \/ CrashSync
  BY <1>4 DEF StartSync, Call, Ingest, Acknowledge, CrashSync, writeback
<1>5. CASE \E r \in wire : Serve(r)  BY <1>5 DEF Serve
<1>6. CASE UNCHANGED vars  BY <1>6 DEF vars, writeback
<1> QED BY <1>1, <1>2, <1>3, <1>4, <1>5, <1>6 DEF Next, HandlerStep, Synchronise

(* Only IMAP gives a message another identifier when it moves.                *)
LEMMA ServedInPlace ==
  ASSUME ~Imap, NEW r \in wire, Serve(r)
  PROVE  srv'.loc = srv.loc
BY DEF Serve, MoveTo

(* At the end of Graph's folders every folder has been listed.                *)
LEMMA AllPast == fetch.i = 0 => Past = Folder
BY DEF Past, Folder

(* The message keeps its record in every step.                                 *)
LEMMA OneRecordStep ==
  ASSUME TypeOK, Running, OneRequest, Collected, Leased, Reports, OneRecord, Carried, Fetched, [Next]_vars
  PROVE  OneRecord'
<1>0. /\ 1 \in Loc /\ recs \in [Loc -> Record] /\ alias \in [Loc -> AliasRow] /\ work \in Progressing
      /\ profile' = profile /\ ~Imap
  BY Folders, ProfileKept DEF TypeOK, Record, AliasRow, Progressing, Reports, Imap
<1>1. srv'.loc \in {0, 1} /\ (srv'.loc = 0 => profile'.moves)
  BY <1>0, Versions
<1>i. Idle.orig = 1 /\ Idle.pid = 1 /\ Idle.res = 1  BY DEF Idle
<1>2. (\A j \in DOMAIN jobs' : jobs'[j].rec = 1)
  <2>1. ASSUME NEW r \in Loc, Edit(r) PROVE \A j \in DOMAIN jobs' : jobs'[j].rec = 1
    <3>1. r = 1  BY <2>1 DEF Edit, OneRecord
    <3> QED BY <2>1, <3>1, Queued DEF OneRecord
  <2>2. CASE ~\E r \in Loc : Edit(r)
    BY <2>2, SameEditsStep DEF SameEdits, OneRecord
  <2> QED BY <2>1, <2>2
<1>3. alias'[1].canon \in {0, 1} /\ (alias'[1].canon = 1 => alias'[1].rec = 1)
  <2>1. CASE Applied
    <3>1. alias' \in {alias, Aliased}  BY <2>1 DEF Applied
    <3>2. Aliased[1].canon = 1 /\ Aliased[1].rec = 1
      <4>1. Aliased[1] = [canon |-> work.res, rec |-> IF alias[work.orig].canon = 0 THEN work.orig
                                                       ELSE alias[work.orig].rec,
                          folder |-> Or(jobs[work.job].patch.folder, NoFolder, alias[work.orig].folder)]
        BY <1>0 DEF Aliased, OneRecord
      <4> QED BY <4>1 DEF OneRecord
    <3> QED BY <3>1, <3>2 DEF OneRecord
  <2>2. CASE Stage
    <3>1. sync = "fetch" /\ fetch.i = 0 /\ alias' = StagedUpTo[Len(fetch.msgs)].alias  BY <2>2 DEF Stage
    <3>2. Len(fetch.msgs) <= 1 /\ \A i \in DOMAIN fetch.msgs : Listed(fetch.msgs[i], srv)
      BY <3>1, AllPast DEF Fetched, Reports, GmailFetched, GraphFetched, TypeOK
    <3> QED BY <3>1, <3>2, StagingOurs DEF OneRecord
  <2>3. CASE ~Applied /\ ~Stage
    <3>1. UNCHANGED alias  BY <2>3, AliasKept
    <3> QED BY <3>1 DEF OneRecord
  <2> QED BY <2>1, <2>2, <2>3
<1>4. work'.orig = 1 /\ work'.pid = 1 /\ work'.res = 1
  <2>1. ASSUME NEW j \in DOMAIN jobs, Begin(j) PROVE work'.orig = 1 /\ work'.pid = 1 /\ work'.res = 1
    <3>1. work' = [Idle EXCEPT !.job = j, !.pc = "ask", !.orig = recs[jobs[j].rec].pid]  BY <2>1, Beginning
    <3>2. recs[jobs[j].rec].pid = 1  BY <1>0 DEF OneRecord
    <3> QED BY <1>i, <3>1, <3>2 DEF Idle
  <2>2. CASE work' = Idle  BY <1>i, <2>2
  <2>3. CASE Ask /\ work' # Idle
    <3>1. Current(work.orig) = 1  BY DEF Current, OneRecord
    <3>2. work' = [work EXCEPT !.pc = "wait", !.pid = 1, !.res = 1, !.todo = Rest(jobs[work.job].patch)]
      BY <2>3, <3>1, Asking
    <3> QED BY <1>0, <3>2 DEF Progressing, OneRecord
  <2>4. CASE Applied
    BY <1>0, <2>4 DEF Applied, Progressing, OneRecord
  <2>5. ASSUME NEW r \in wire, Serve(r) PROVE work'.orig = 1 /\ work'.pid = 1 /\ work'.res = 1
    <3>1. work' \in {work, [work EXCEPT !.ans = "refused"], [work EXCEPT !.ans = "missing"]}
          \/ (There(r) /\ work' = [work EXCEPT !.ans = "ok", !.res = srv'.loc])
      BY <2>5 DEF Serve
    <3>2. There(r) => srv'.loc = 1
      <4>1. srv'.loc = srv.loc  BY <1>0, <2>5, ServedInPlace
      <4> QED BY <1>0, <4>1 DEF There, OneRecord
    <3> QED BY <1>0, <3>1, <3>2 DEF Progressing, OneRecord
  <2>6. CASE UNCHANGED work  BY <2>6 DEF OneRecord
  <2>7. CASE \E r \in Loc : Edit(r)  BY <2>6, <2>7 DEF Edit
  <2>8. CASE \E j \in DOMAIN jobs : Cancel(j) \/ GiveUp(j)  BY <2>6, <2>8, Marked
  <2>9. CASE Busy \/ Refused \/ Lose \/ Store \/ CrashWork
    BY <2>2, <2>9 DEF Busy, Refused, Lose, Store, CrashWork, Abandon, Settle
  <2>10. CASE OtherClient \/ Synchronise \/ CrashSync \/ UNCHANGED vars  BY <2>6, <2>10, Quietly DEF Quiet
  <2> QED BY <2>1, <2>2, <2>3, <2>4, <2>5, <2>7, <2>8, <2>9, <2>10 DEF Next, HandlerStep
<1>5. \A r \in Loc : recs'[r].pid = 1 /\ (recs'[r].in <=> r = 1)
  <2>1. ASSUME NEW q \in Loc, Edit(q) PROVE \A r \in Loc : recs'[r].pid = 1 /\ (recs'[r].in <=> r = 1)
    <3>1. \/ \E flag \in Flag, folder \in Folder :
               recs' = [recs EXCEPT ![q] = [recs[q] EXCEPT !.flag = flag, !.folder = folder]]
          \/ recs' = [recs EXCEPT ![q] = [recs[q] EXCEPT !.deleted = TRUE]]
      <4>1. CASE \E flag \in Flag, folder \in Folder :
                   recs' = [recs EXCEPT ![q].flag = flag, ![q].folder = folder]
        <5>1. PICK flag \in Flag, folder \in Folder :
                   recs' = [recs EXCEPT ![q].flag = flag, ![q].folder = folder]
          BY <4>1
        <5>2. recs' = [recs EXCEPT ![q] = [recs[q] EXCEPT !.flag = flag, !.folder = folder]]
          BY <1>0, <5>1
        <5> QED BY <5>2
      <4>2. CASE recs' = [recs EXCEPT ![q].deleted = TRUE]  BY <4>2
      <4> QED BY <2>1, <4>1, <4>2 DEF Edit
    <3>2. recs[q] \in Record  BY <1>0
    <3>3. ASSUME NEW old \in Record, NEW flag, NEW folder
          PROVE  LET new == [old EXCEPT !.flag = flag, !.folder = folder] gone == [old EXCEPT !.deleted = TRUE]
                 IN new.pid = old.pid /\ new.in = old.in /\ gone.pid = old.pid /\ gone.in = old.in
      BY DEF Record
    <3>4. recs'[q].pid = recs[q].pid /\ recs'[q].in = recs[q].in
          /\ \A r \in Loc : r # q => recs'[r] = recs[r]
      <4>1. ASSUME NEW new, recs' = [recs EXCEPT ![q] = new]
            PROVE  recs'[q] = new /\ \A r \in Loc : r # q => recs'[r] = recs[r]
        BY <1>0, <4>1
      <4>2. CASE \E flag \in Flag, folder \in Folder :
                   recs' = [recs EXCEPT ![q] = [recs[q] EXCEPT !.flag = flag, !.folder = folder]]
        BY <3>2, <3>3, <4>1, <4>2
      <4>3. CASE recs' = [recs EXCEPT ![q] = [recs[q] EXCEPT !.deleted = TRUE]]
        BY <3>2, <3>3, <4>1, <4>3
      <4> QED BY <3>1, <4>2, <4>3
    <3> QED BY <3>4 DEF OneRecord
  <2>2. CASE Store
    <3>1. recs' = [recs EXCEPT ![jobs[work.job].rec] = [recs[jobs[work.job].rec] EXCEPT !.pid = 1]]
      BY <2>2 DEF Store, OneRecord
    <3> QED BY <1>0, <3>1 DEF Record, OneRecord
  <2>3. CASE Ingest
    <3> DEFINE m == batch.msgs[fetch.i + 1]
               new == [in |-> TRUE, pid |-> m.pid, folder |-> Preserve(m.rec, m).folder,
                       flag |-> Preserve(m.rec, m).flag,
                       deleted |-> recs[m.rec].deleted /\ Unsettled(m.rec) # {}]
    <3>1. m.rec = 1 /\ m.pid = 1
      <4>1. sync = "ingest" /\ fetch.i < Len(batch.msgs) /\ fetch.i \in Nat /\ batch.msgs \in Seq(Message)
        BY <2>3 DEF Ingest, Collected
      <4>2. fetch.i + 1 \in DOMAIN batch.msgs  BY <4>1
      <4> QED BY <4>1, <4>2 DEF Carried, Leased, Listed
    <3>2. recs' \in {recs, [recs EXCEPT ![m.rec] = [recs[m.rec] EXCEPT !.deleted = TRUE]], [recs EXCEPT ![m.rec] = new]}
      BY <2>3 DEF Ingest
    <3>3. new.in = TRUE /\ new.pid = m.pid  OBVIOUS
    <3> HIDE DEF m, new
    <3> QED BY <1>0, <3>1, <3>2, <3>3 DEF Record, OneRecord
  <2>4. CASE ~Store /\ ~Ingest /\ ~\E r \in Loc : Edit(r)
    <3>1. UNCHANGED recs  BY <2>4, RecordsUntouched
    <3> QED BY <3>1 DEF OneRecord
  <2> QED BY <2>1, <2>2, <2>3, <2>4
<1> QED BY <1>1, <1>2, <1>3, <1>4, <1>5 DEF OneRecord

(* Only a handler that has stored its outcome completes a job.                *)
LEMMA Uncompleted ==
  ASSUME TypeOK, Running, [Next]_vars, ~Store, NEW k \in DOMAIN jobs, jobs'[k].st = "completed"
  PROVE  jobs[k].st = "completed"
<1>0. Idle.pc = "idle"  BY DEF Idle
<1>1. CASE \E r \in Loc : Edit(r)  BY <1>1, Queued
<1>2. CASE \E j \in DOMAIN jobs : Cancel(j) \/ GiveUp(j)  BY <1>2, Marked
<1>3. CASE \E j \in DOMAIN jobs : Begin(j)  BY <1>3, Beginning
<1>4. CASE Busy \/ Refused \/ Lose \/ CrashWork \/ (Ask /\ work' = Idle)
  <2>1. Settles  BY <1>4, Ends
  <2>2. PICK s \in {"pending", "failed", "unknown"} : Settle(s)
    <3>1. CASE Busy  BY <3>1 DEF Busy
    <3>2. CASE Refused \/ Lose \/ CrashWork  BY <3>2 DEF Refused, Lose, CrashWork, Abandon
    <3>3. CASE Ask /\ work' = Idle
      <4>1. Settle("unknown") \/ work'.pc = "wait"  BY <3>3 DEF Ask, TypeOK
      <4> QED BY <1>0, <3>3, <4>1
    <3> QED BY <1>4, <3>1, <3>2, <3>3
  <2> QED BY <2>1, <2>2, Settling DEF Settles, Status
<1>5. CASE Ask /\ work' # Idle  BY <1>5, Asking
<1>6. CASE Applied  BY <1>6, Going
<1>7. CASE \E r \in wire : Serve(r)  BY <1>7, Serving
<1>8. CASE OtherClient \/ Synchronise \/ CrashSync \/ UNCHANGED vars  BY <1>8, Quietly DEF Quiet
<1> QED BY <1>1, <1>2, <1>3, <1>4, <1>5, <1>6, <1>7, <1>8 DEF Next, HandlerStep

(* No request is late while all is well: it is the one its job waits for.      *)
LEMMA NoneLate ==
  ASSUME OneRequest, Well, NEW r \in wire
  PROVE  /\ Waits(r) /\ work.ans = "none" /\ r.job = work.job /\ work.pc = "wait"
         /\ \A s \in wire : s = r
<1>1. ASSUME NEW s \in wire PROVE Waits(s) /\ work.ans = "none"
  BY DEF OneRequest, Well
<1>2. \A s \in wire : s.job = work.job  BY <1>1 DEF Waits
<1> QED BY <1>1, <1>2 DEF OneRequest, Waits

(* The parts in which a patch is asked for together ask for all of it.        *)
LEMMA PartsOfAll ==
  ASSUME NEW t \in Patch
  PROVE  /\ t.flag # "none" => First(t).flag # "none"
         /\ t.folder # NoFolder => First(t).folder # NoFolder \/ Rest(t).folder # NoFolder
BY DEF First, Rest, Patch

(* What nobody touches stays as effective as it was.                          *)
LEMMA EffectiveIf ==
  ASSUME Running, Effective, UNCHANGED <<work, wire, srv>>, reached'.jobs = reached.jobs,
         \A j \in DOMAIN jobs : jobs'[j].patch = jobs[j].patch,
         \A j \in DOMAIN jobs' : jobs'[j].st = "completed" => j \in DOMAIN jobs /\ jobs[j].st = "completed"
  PROVE  Effective'
<1>1. Outstanding' = Outstanding  BY DEF Outstanding
<1>2. work.job # 0 => jobs'[work.job].patch = jobs[work.job].patch  BY DEF Running
<1> QED BY <1>1, <1>2 DEF Effective

(* A request that is served takes effect, and nothing else of its job is lost. *)
LEMMA EffectiveServed ==
  ASSUME TypeOK, OneRequest, Asked, Effective, Well, Well', NEW r \in wire, Serve(r)
  PROVE  Effective'
<1>1. r.job = work.job /\ work.pc = "wait" /\ Waits(r) /\ \A s \in wire : s = r
  BY NoneLate
<1>2. wire' = {} /\ UNCHANGED jobs /\ work'.job = work.job /\ work'.pc = work.pc /\ work'.todo = work.todo
  BY <1>1, Serving
<1>3. /\ reached'.jobs = reached.jobs \cup {work.job}
      /\ srv'.flag = Or(r.patch.flag, "none", srv.flag)
      /\ srv'.folder = Or(r.patch.folder, NoFolder, srv.folder)
  <2>1. CASE There(r) /\ MoveTo(Or(r.patch.folder, NoFolder, srv.folder), Or(r.patch.flag, "none", srv.flag))
             /\ reached' = [jobs |-> reached.jobs \cup {r.job}, late |-> reached.late \/
                  \E k \in reached.jobs : k > r.job /\ jobs[k].rec = jobs[r.job].rec]
    <3>1. reached'.jobs = reached.jobs \cup {r.job}  BY <2>1
    <3>2. \E loc, ver : srv' = [loc |-> loc, folder |-> Or(r.patch.folder, NoFolder, srv.folder),
                                flag |-> Or(r.patch.flag, "none", srv.flag), ver |-> ver]
      BY <2>1 DEF MoveTo
    <3> QED BY <1>1, <3>1, <3>2
  <2>2. CASE work' = [work EXCEPT !.ans = IF There(r) THEN "refused" ELSE "missing"]
    <3>1. work \in Progressing  BY DEF TypeOK, Progressing
    <3>2. work'.ans \in {"refused", "missing"} /\ work'.pc = "wait"  BY <1>1, <2>2, <3>1 DEF Progressing
    <3> QED BY <3>2 DEF Well
  <2> QED BY <1>1, <2>1, <2>2 DEF Serve
<1>4. Outstanding = {r.patch, work.todo} /\ Outstanding' = {work.todo}
  BY <1>1, <1>2 DEF Outstanding
<1>5. PartOf(r.patch, jobs[work.job].patch)  BY <1>1 DEF Asked
<1>6. (\A j \in DOMAIN jobs' : jobs'[j].st = "completed" => j \in reached'.jobs)
  BY <1>2, <1>3 DEF Effective
<1>7. CASE work.job = 0  BY <1>2, <1>6, <1>7 DEF Effective
<1>8. CASE work.job # 0
  <2> DEFINE patch == jobs[work.job].patch
  <2>1. /\ patch.flag = "none" \/ r.patch.flag # "none" \/ work.todo.flag # "none"
           \/ (work.job \in reached.jobs /\ srv.flag = patch.flag)
        /\ patch.folder = NoFolder \/ r.patch.folder # NoFolder \/ work.todo.folder # NoFolder
           \/ (work.job \in reached.jobs /\ srv.folder = patch.folder)
    BY <1>1, <1>4, <1>8 DEF Effective
  <2>2. patch.flag = "none" \/ work.todo.flag # "none"
        \/ (work.job \in reached'.jobs /\ srv'.flag = patch.flag)
    BY <1>3, <1>5, <2>1 DEF Or, PartOf
  <2>3. patch.folder = NoFolder \/ work.todo.folder # NoFolder
        \/ (work.job \in reached'.jobs /\ srv'.folder = patch.folder)
    BY <1>3, <1>5, <2>1 DEF Or, PartOf
  <2> HIDE DEF patch
  <2> QED BY <1>2, <1>4, <1>6, <2>2, <2>3 DEF Effective, patch
<1> QED BY <1>7, <1>8

(* A request that is made, and what is left for another, are outstanding.     *)
LEMMA OutstandingNext ==
  ASSUME NEW pid, NEW p, NEW q, work'.job = work.job, work'.pc = "wait", work'.todo = q,
         wire' = wire \cup {[job |-> work.job, pid |-> pid, patch |-> p]}
  PROVE  {p, q} \subseteq Outstanding'
<1> DEFINE s == [job |-> work.job, pid |-> pid, patch |-> p]
<1>1. s \in wire' /\ s.job = work'.job /\ s.patch = p  OBVIOUS
<1> HIDE DEF s
<1>2. p \in Outstanding'  BY <1>1 DEF Outstanding
<1>3. q \in Outstanding'  BY DEF Outstanding
<1> QED BY <1>2, <1>3

(* What is told to the provider, or has reached it, is all that is asked for.  *)
LEMMA EffectiveStep ==
  ASSUME TypeOK, Running, OneRequest, Asked, Effective, Well, Well', [Next]_vars
  PROVE  Effective'
<1>0. Idle.job = 0  BY DEF Idle
<1>1. ASSUME NEW r \in Loc, Edit(r) PROVE Effective'
  BY <1>1, Queued, EffectiveIf
<1>2. ASSUME NEW j \in DOMAIN jobs, Cancel(j) \/ GiveUp(j) PROVE Effective'
  BY <1>2, Marked, EffectiveIf DEF SameEdits
<1>3. ASSUME NEW j \in DOMAIN jobs, Begin(j) PROVE Effective'
  BY <1>3, Beginning DEF Effective, SameEdits
<1>4. CASE Busy \/ Refused \/ Lose \/ Store \/ CrashWork \/ (Ask /\ work' = Idle)
  <2>1. Settles /\ UNCHANGED reached  BY <1>4, Ends
  <2>2. PICK st \in {"pending", "failed", "unknown", "completed"} :
          /\ Settle(st) /\ (st = "pending" => work.pc = "ask")
          /\ st = "unknown" \/ work.pc # "wait" \/ work.ans # "none"
    BY <2>1 DEF Settles
  <2>3. /\ work.job \in DOMAIN jobs /\ jobs[work.job].st = "running" /\ SameEdits
        /\ \A k \in DOMAIN jobs : jobs'[k].st = IF k = work.job THEN st ELSE jobs[k].st
        /\ work' = Idle
    BY <2>1, <2>2, Settling DEF Settles, Status
  <2>4. st = "completed" => work.job \in reached.jobs
    <3>1. CASE Store
      <4>1. work.pc = "store" /\ work.job # 0  BY <3>1 DEF Store, Running
      <4>2. Outstanding = {}  BY <4>1, NoneLate DEF Outstanding
      <4>3. jobs[work.job].patch # NoPatch /\ jobs[work.job].patch \in Patch
        BY <2>3, RowsTyped DEF Asked, Row
      <4>4. jobs[work.job].patch.flag # "none" \/ jobs[work.job].patch.folder # NoFolder
        BY <4>3 DEF Patch, NoPatch
      <4> QED BY <4>1, <4>2, <4>4 DEF Effective
    <3>2. CASE ~Store  BY <1>4, <2>3, <3>2, Uncompleted
    <3> QED BY <1>4, <3>1, <3>2
  <2> QED BY <1>0, <2>1, <2>3, <2>4 DEF Effective, SameEdits
<1>5. CASE Ask /\ work' # Idle
  <2> DEFINE patch == jobs[work.job].patch
  <2>1. /\ work.pc = "ask" /\ UNCHANGED <<srv, jobs, reached>> /\ patch \in Patch
        /\ wire' = wire \cup {[job |-> work.job, pid |-> Current(work.orig), patch |-> First(patch)]}
        /\ work'.job = work.job /\ work'.pc = "wait" /\ work'.todo = Rest(patch)
    BY <1>5, Asking
  <2> HIDE DEF patch
  <2>2. {First(patch), Rest(patch)} \subseteq Outstanding'
    BY <2>1, OutstandingNext
  <2>3. /\ patch.flag # "none" => \E p \in Outstanding' : p.flag # "none"
        /\ patch.folder # NoFolder => \E p \in Outstanding' : p.folder # NoFolder
    BY <2>1, <2>2, PartsOfAll
  <2> QED BY <2>1, <2>3 DEF Effective, patch
<1>6. CASE Applied
  <2>1. /\ work.pc = "wait" /\ work.ans = "ok" /\ UNCHANGED <<srv, jobs, reached>> /\ work'.job = work.job
        /\ work.todo \in Patch /\ work.job # 0
    BY <1>6, Going DEF TypeOK
  <2>2. Outstanding = {work.todo}
    <3>1. wire = {}  BY <2>1, NoneLate
    <3> QED BY <2>1, <3>1 DEF Outstanding
  <2>3. work.todo.flag # "none" => \E p \in Outstanding' : p.flag # "none"
    <3>1. CASE work.todo = NoPatch  BY <3>1 DEF NoPatch
    <3>2. CASE work.todo # NoPatch
      <4>1. /\ work'.pc = "wait" /\ work'.todo = Rest(work.todo)
            /\ wire' = wire \cup {[job |-> work.job, pid |-> work.res, patch |-> First(work.todo)]}
        BY <1>6, <3>2 DEF Applied, Request, TypeOK
      <4>2. {First(work.todo), Rest(work.todo)} \subseteq Outstanding'
        BY <2>1, <4>1, OutstandingNext
      <4> QED BY <2>1, <4>2, PartsOfAll
    <3> QED BY <3>1, <3>2
  <2>4. work.todo.folder # NoFolder => \E p \in Outstanding' : p.folder # NoFolder
    <3>1. CASE work.todo = NoPatch  BY <3>1 DEF NoPatch
    <3>2. CASE work.todo # NoPatch
      <4>1. /\ work'.pc = "wait" /\ work'.todo = Rest(work.todo)
            /\ wire' = wire \cup {[job |-> work.job, pid |-> work.res, patch |-> First(work.todo)]}
        BY <1>6, <3>2 DEF Applied, Request, TypeOK
      <4>2. {First(work.todo), Rest(work.todo)} \subseteq Outstanding'
        BY <2>1, <4>1, OutstandingNext
      <4> QED BY <2>1, <4>2, PartsOfAll
    <3> QED BY <3>1, <3>2
  <2> QED BY <2>1, <2>2, <2>3, <2>4 DEF Effective
<1>7. ASSUME NEW r \in wire, Serve(r) PROVE Effective'
  BY <1>7, EffectiveServed
<1>8. CASE OtherClient
  <2>1. UNCHANGED <<jobs, work, wire, reached>>  BY <1>8, Quietly DEF Quiet
  <2>2. \A j \in reached.jobs : jobs[j].st = "completed"
    <3>1. others'.raced = (others.raced \/ \E j \in reached.jobs : jobs[j].st # "completed")
      BY <1>8 DEF OtherClient
    <3> QED BY <3>1 DEF Well
  <2>3. work.job # 0 => work.job \notin reached.jobs
    BY <2>2 DEF TypeOK
  <2>4. Outstanding' = Outstanding  BY <2>1 DEF Outstanding
  <2> QED BY <2>1, <2>3, <2>4 DEF Effective
<1>9. CASE Synchronise \/ CrashSync \/ UNCHANGED vars
  <2>1. UNCHANGED <<jobs, work, wire, reached>>  BY <1>9, Quietly DEF Quiet
  <2>2. UNCHANGED srv
    BY <1>9 DEF Synchronise, StartSync, Call, Stage, Ingest, Acknowledge, CrashSync, vars, provider
  <2> QED BY <2>1, <2>2, EffectiveIf
<1> QED BY <1>1, <1>2, <1>3, <1>4, <1>5, <1>6, <1>7, <1>8, <1>9 DEF Next, HandlerStep

-----------------------------------------------------------------------------
(* The record and the message.                                                 *)

(* An edit is of the one record; it changes a field or deletes the record.    *)
LEMMA Edited ==
  ASSUME TypeOK, Running, OneRecord, NEW r \in Loc, Edit(r)
  PROVE  /\ ~recs[1].deleted /\ UNCHANGED srv
         /\ LET new == recs'[1] patch == jobs'[Len(jobs')].patch IN
            \/ /\ ~new.deleted
               /\ patch.flag = "none" => new.flag = recs[1].flag
               /\ patch.folder = NoFolder => new.folder = recs[1].folder
            \/ new.deleted /\ patch.folder = "deleted"
<1>1. r = 1  BY DEF Edit, OneRecord
<1>2. /\ recs \in [Loc -> Record] /\ recs[r] \in Record /\ jobs \in Seq(Row) /\ Len(jobs) \in Nat
      /\ Len(jobs') = Len(jobs) + 1
  BY <1>1, RowsTyped, Queued DEF TypeOK, Record
<1>3. ~recs[1].deleted /\ UNCHANGED srv  BY <1>1 DEF Edit, provider
<1>4. ASSUME NEW patch, Queue(r, patch) PROVE jobs'[Len(jobs')].patch = patch
  BY <1>2, <1>4 DEF Queue
<1>5. CASE \E flag \in Flag, folder \in Folder :
             /\ recs' = [recs EXCEPT ![r].flag = flag, ![r].folder = folder]
             /\ Queue(r, [flag |-> IF flag = recs[r].flag THEN "none" ELSE flag,
                          folder |-> IF folder = recs[r].folder THEN NoFolder ELSE folder])
  <2>1. PICK flag \in Flag, folder \in Folder :
             /\ recs' = [recs EXCEPT ![r].flag = flag, ![r].folder = folder]
             /\ Queue(r, [flag |-> IF flag = recs[r].flag THEN "none" ELSE flag,
                          folder |-> IF folder = recs[r].folder THEN NoFolder ELSE folder])
    BY <1>5
  <2>2. /\ jobs'[Len(jobs')].patch.flag = IF flag = recs[r].flag THEN "none" ELSE flag
        /\ jobs'[Len(jobs')].patch.folder = IF folder = recs[r].folder THEN NoFolder ELSE folder
    BY <1>4, <2>1
  <2>3. recs'[r] = [recs[r] EXCEPT !.flag = flag, !.folder = folder]
    BY <1>2, <2>1
  <2>4. recs'[r].flag = flag /\ recs'[r].folder = folder /\ recs'[r].deleted = recs[r].deleted
    BY <1>2, <2>3 DEF Record
  <2>5. "none" \notin Flag /\ NoFolder \notin Folder  BY Folders DEF Flag
  <2> QED BY <1>1, <1>3, <2>2, <2>4, <2>5
<1>6. CASE recs' = [recs EXCEPT ![r].deleted = TRUE] /\ Queue(r, [flag |-> "none", folder |-> "deleted"])
  <2>1. jobs'[Len(jobs')].patch.folder = "deleted"  BY <1>4, <1>6
  <2>2. recs'[r].deleted  BY <1>2, <1>6 DEF Record
  <2> QED BY <1>1, <1>3, <2>1, <2>2
<1> QED BY <1>5, <1>6 DEF Edit

(* Storing the identifier changes nothing else of the record.                 *)
LEMMA Stored ==
  ASSUME TypeOK, Store
  PROVE  /\ UNCHANGED srv
         /\ \A r \in Loc : recs'[r].deleted = recs[r].deleted /\ recs'[r].flag = recs[r].flag
                           /\ recs'[r].folder = recs[r].folder
<1>1. recs \in [Loc -> Record]  BY DEF TypeOK, Record
<1>2. recs' = [recs EXCEPT ![jobs[work.job].rec] = [recs[jobs[work.job].rec] EXCEPT !.pid = work.res]]
      /\ UNCHANGED srv
  BY DEF Store, provider
<1> QED BY <1>1, <1>2 DEF Record

(* What the ingestion of a listed message leaves of the record.               *)
LEMMA Ingested ==
  ASSUME TypeOK, Collected, Leased, OneRecord, Carried, Ingest
  PROVE  LET m == batch.msgs[1] new == recs'[1] IN
         /\ sync = "ingest" /\ batch.on /\ UNCHANGED <<srv, jobs, batch, sync>>
         /\ fetch.i = 0 /\ Len(batch.msgs) = 1 /\ 1 \in DOMAIN batch.msgs
         /\ fetch'.i = 1 /\ Listed(m, srv) /\ m.rec = 1
         /\ m.del => new.deleted
         /\ ~m.del => /\ new.flag = Preserve(1, m).flag /\ new.folder = Preserve(1, m).folder
                      /\ new.deleted = (recs[1].deleted /\ Unsettled(1) # {})
<1> DEFINE m == batch.msgs[1]
<1>1. sync = "ingest" /\ batch.on /\ fetch.i < Len(batch.msgs) /\ fetch.i \in Nat /\ batch.msgs \in Seq(Message)
      /\ UNCHANGED <<srv, jobs, batch, sync>> /\ fetch' = [fetch EXCEPT !.i = @ + 1]
  BY DEF Ingest, Collected, Leased, provider, writeback
<1>2. Len(batch.msgs) <= 1 /\ \A i \in DOMAIN batch.msgs : Listed(batch.msgs[i], srv) /\ batch.msgs[i].rec = 1
  BY <1>1 DEF Carried
<1>3. fetch.i = 0 /\ Len(batch.msgs) = 1 /\ 1 \in DOMAIN batch.msgs
  <2>1. ASSUME NEW n \in Nat, n <= 1, NEW i \in Nat, i < n PROVE i = 0 /\ n = 1  BY <2>1
  <2>2. Len(batch.msgs) \in Nat /\ DOMAIN batch.msgs = 1..Len(batch.msgs)  BY <1>1
  <2>3. fetch.i = 0 /\ Len(batch.msgs) = 1  BY <1>1, <1>2, <2>1, <2>2
  <2> QED BY <2>2, <2>3
<1>4. Listed(m, srv) /\ m.rec = 1  BY <1>2, <1>3
<1>5. fetch'.i = 1  BY <1>1, <1>3 DEF Collected
<1>6. recs \in [Loc -> Record] /\ 1 \in Loc /\ recs[1].in  BY Folders DEF TypeOK, Record, OneRecord
<1>7. fetch.i + 1 = 1  BY <1>3
<1>8. recs' = IF m.del THEN [recs EXCEPT ![1].deleted = TRUE]
              ELSE [recs EXCEPT ![1] = [in |-> TRUE, pid |-> m.pid, folder |-> Preserve(1, m).folder,
                                        flag |-> Preserve(1, m).flag,
                                        deleted |-> recs[1].deleted /\ Unsettled(1) # {}]]
  BY <1>4, <1>6, <1>7 DEF Ingest
<1>9. m.del => recs'[1].deleted  BY <1>6, <1>8 DEF Record
<1>10. ~m.del => /\ recs'[1].flag = Preserve(1, m).flag /\ recs'[1].folder = Preserve(1, m).folder
                 /\ recs'[1].deleted = (recs[1].deleted /\ Unsettled(1) # {})
  BY <1>6, <1>8
<1> QED BY <1>1, <1>3, <1>4, <1>5, <1>9, <1>10

(* A record is deleted with its message, or last of all.                      *)
LEMMA DeletedLastStep ==
  ASSUME TypeOK, Running, Collected, Leased, Reports, OneRecord, DeletedLast, Carried, [Next]_vars
  PROVE  DeletedLast'
<1>0. 1 \in Loc /\ jobs \in Seq(Row) /\ Len(jobs) \in Nat /\ (srv.loc = 0 => srv'.loc = 0)
  BY Folders, RowsTyped, Versions
<1>1. ASSUME NEW r \in Loc, Edit(r) PROVE DeletedLast'
  <2>1. Len(jobs') > 0  BY <1>0, <1>1, Queued
  <2> QED BY <1>1, <2>1, Edited DEF DeletedLast
<1>2. CASE ~\E r \in Loc : Edit(r)
  <2>1. Len(jobs') = Len(jobs) /\ (Len(jobs) > 0 => jobs'[Len(jobs)].patch = jobs[Len(jobs)].patch)
    BY <1>0, <1>2, SameEditsStep DEF SameEdits
  <2>2. recs'[1].deleted => recs[1].deleted \/ srv.loc = 0
    <3>1. CASE Store  BY <1>0, <3>1, Stored
    <3>2. CASE Ingest  BY <3>2, Ingested DEF Listed
    <3>3. CASE ~Store /\ ~Ingest  BY <1>2, <3>3, RecordsUntouched
    <3> QED BY <3>1, <3>2, <3>3
  <2> QED BY <1>0, <2>1, <2>2 DEF DeletedLast
<1> QED BY <1>1, <1>2

(* The edits that a step leaves unsettled.                                     *)
LEMMA StillUnsettled ==
  ASSUME TypeOK, Running, Well, Well', [Next]_vars, ~\E r \in Loc : Edit(r)
  PROVE  /\ SameEdits
         /\ ~Store => Unsettled(1)' = Unsettled(1)
         /\ Store => Unsettled(1)' = Unsettled(1) \ {work.job}
<1>1. SameEdits  BY SameEditsStep
<1>2. ASSUME NEW k \in DOMAIN jobs
      PROVE  /\ jobs[k].st # "cancelled" /\ jobs'[k].st # "cancelled" /\ jobs'[k].rec = jobs[k].rec
             /\ jobs[k].st = "completed" => jobs'[k].st = "completed"
             /\ jobs'[k].st = "completed" => jobs[k].st = "completed" \/ (Store /\ k = work.job)
             /\ Store /\ k = work.job => jobs'[k].st = "completed"
  <2>1. jobs[k].st # "cancelled" /\ jobs'[k].st # "cancelled" /\ jobs'[k].rec = jobs[k].rec
    BY <1>1 DEF Well, SameEdits
  <2>2. jobs[k].st = "completed" => jobs'[k].st = "completed"  BY <1>1 DEF SameEdits, Final
  <2>3. CASE Store
    <3>1. work.pc # "idle" /\ Settle("completed")  BY <2>3 DEF Store
    <3>2. jobs'[k].st = IF k = work.job THEN "completed" ELSE jobs[k].st
      BY <3>1, Settling DEF Status
    <3> QED BY <2>1, <2>2, <2>3, <3>2
  <2>4. CASE ~Store  BY <2>1, <2>2, <2>4, Uncompleted
  <2> QED BY <2>3, <2>4
<1>3. DOMAIN jobs' = DOMAIN jobs  BY <1>1 DEF SameEdits
<1> QED BY <1>1, <1>2, <1>3 DEF Unsettled

(* A write-back that is completed was the last of what it changed, or another  *)
(* is still to come.                                                           *)
LEMMA StoreAgrees ==
  ASSUME TypeOK, Running, OneRequest, Ordered, EditsStay, Asked, OneRecord, Effective, DeletedLast, Agree,
         Well, Well', [Next]_vars, Store
  PROVE  Agree'
<1> DEFINE j == work.job
           patch == jobs[j].patch
<1>0. 1 \in Loc /\ jobs \in Seq(Row) /\ Len(jobs) \in Nat /\ DOMAIN jobs = 1..Len(jobs)
  BY Folders, RowsTyped
<1>1. /\ j \in DOMAIN jobs /\ jobs[j].st = "running" /\ jobs[j].rec = 1 /\ j # 0
      /\ \A k \in DOMAIN jobs : jobs'[k].st = IF k = j THEN "completed" ELSE jobs[k].st
  <2>1. work.pc # "idle" /\ Settle("completed")  BY DEF Store
  <2> QED BY <2>1, Settling DEF Status, OneRecord, Running
<1>2. /\ SameEdits /\ Unsettled(1)' = Unsettled(1) \ {j} /\ UNCHANGED srv
      /\ recs'[1].deleted = recs[1].deleted /\ recs'[1].flag = recs[1].flag /\ recs'[1].folder = recs[1].folder
  <2>1. ~\E r \in Loc : Edit(r)
    <3>1. ASSUME NEW r \in Loc, Edit(r) PROVE FALSE  BY <1>1, <3>1, Queued
    <3> QED BY <3>1
  <2> QED BY <1>0, <2>1, StillUnsettled, Stored
<1>3. /\ patch.flag # "none" => srv.flag = patch.flag
      /\ patch.folder # NoFolder => srv.folder = patch.folder
  <2>1. work.pc = "store"  BY DEF Store
  <2>2. Outstanding = {}  BY <2>1, NoneLate DEF Outstanding
  <2> QED BY <1>1, <2>1, <2>2 DEF Effective
<1>4. ASSUME NEW k \in DOMAIN jobs, k > j PROVE k \in Unsettled(1) /\ k # j
  <2>1. jobs[k].rec = 1 /\ jobs[k].st # "cancelled"  BY DEF OneRecord, Well
  <2>2. jobs[k].st = "completed" => k \in Started  BY DEF Effective, Started
  <2>3. jobs[k].st # "completed"  BY <1>0, <1>1, <1>4, <2>1, <2>2 DEF Ordered
  <2> QED BY <1>0, <1>1, <1>4, <2>1, <2>3 DEF Unsettled
<1>5. j \in Unsettled(1)  BY <1>1 DEF Unsettled
<1> HIDE DEF patch
<1>6. \A k \in Unsettled(1)' : k \in Unsettled(1) /\ jobs'[k].patch = jobs[k].patch
  BY <1>2 DEF SameEdits, Unsettled
<1>7. ASSUME srv.loc # 0, recs[1].deleted, srv.folder # "deleted"
      PROVE  Len(jobs) > 0 /\ jobs'[Len(jobs)].st # "completed"
  <2>1. /\ Len(jobs) > 0 /\ jobs[Len(jobs)].patch.folder = "deleted" /\ jobs[Len(jobs)].st # "completed"
    BY <1>7 DEF DeletedLast, Agree
  <2>2. j # Len(jobs)
    <3>1. "deleted" # NoFolder  BY DEF NoFolder
    <3> QED BY <1>3, <1>7, <2>1, <3>1 DEF patch
  <2> QED BY <1>0, <1>1, <2>1, <2>2
<1>8. ASSUME srv.loc # 0, ~recs[1].deleted, \A k \in Unsettled(1)' : jobs'[k].patch.flag = "none"
      PROVE  recs[1].flag = srv.flag
  <2>1. \A k \in Unsettled(1) : k # j => jobs[k].patch.flag = "none"  BY <1>2, <1>6, <1>8
  <2>2. CASE patch.flag = "none"  BY <1>8, <2>1, <2>2 DEF Agree, patch
  <2>3. CASE patch.flag # "none"
    <3>1. j \in LastEdit(1, LAMBDA p : p.flag, "none")
      BY <1>1, <1>4, <2>1, <2>3 DEF LastEdit, patch
    <3>2. recs[1].flag = patch.flag  BY <1>0, <1>5, <1>8, <3>1 DEF EditsStay, patch
    <3> QED BY <1>3, <2>3, <3>2
  <2> QED BY <2>2, <2>3
<1>9. ASSUME srv.loc # 0, ~recs[1].deleted, \A k \in Unsettled(1)' : jobs'[k].patch.folder = NoFolder
      PROVE  recs[1].folder = srv.folder
  <2>1. \A k \in Unsettled(1) : k # j => jobs[k].patch.folder = NoFolder  BY <1>2, <1>6, <1>9
  <2>2. CASE patch.folder = NoFolder  BY <1>9, <2>1, <2>2 DEF Agree, patch
  <2>3. CASE patch.folder # NoFolder
    <3>1. j \in LastEdit(1, LAMBDA p : p.folder, NoFolder)
      BY <1>1, <1>4, <2>1, <2>3 DEF LastEdit, patch
    <3>2. recs[1].folder = patch.folder  BY <1>0, <1>5, <1>9, <3>1 DEF EditsStay, patch
    <3> QED BY <1>3, <2>3, <3>2
  <2> QED BY <2>2, <2>3
<1>10. Len(jobs') = Len(jobs)  BY <1>2 DEF SameEdits
<1>11. srv.loc = 0 => recs[1].deleted  BY DEF Agree
<1> HIDE DEF j
<1> QED BY <1>2, <1>7, <1>8, <1>9, <1>10, <1>11 DEF Agree

(* The record keeps agreeing with a message that stays as it is.              *)
LEMMA AgreeStep ==
  ASSUME TypeOK, Running, OneRequest, Ordered, EditsStay, Asked, OneRecord, Effective, DeletedLast, Agree,
         Well, Well', [Next]_vars, ~Ingest, UNCHANGED srv
  PROVE  Agree'
<1>0. 1 \in Loc /\ jobs \in Seq(Row) /\ Len(jobs) \in Nat /\ DOMAIN jobs = 1..Len(jobs)
  BY Folders, RowsTyped
<1>1. ASSUME NEW r \in Loc, Edit(r) PROVE Agree'
  <2>1. /\ Len(jobs') = Len(jobs) + 1 /\ DOMAIN jobs' = DOMAIN jobs \cup {Len(jobs')}
        /\ \A k \in DOMAIN jobs : jobs'[k] = jobs[k]
        /\ jobs'[Len(jobs')].st = "pending" /\ jobs'[Len(jobs')].rec = 1
    <3>1. r = 1  BY <1>1 DEF Edit, OneRecord
    <3> QED BY <1>1, <3>1, Queued
  <2>2. Len(jobs') \in Unsettled(1)' /\ \A k \in Unsettled(1) : k \in Unsettled(1)' /\ jobs'[k].patch = jobs[k].patch
    BY <2>1 DEF Unsettled
  <2>3. Len(jobs') > 0 /\ jobs'[Len(jobs')].st # "completed"  BY <1>0, <2>1
  <2>4. /\ ~recs[1].deleted
        /\ LET new == recs'[1] patch == jobs'[Len(jobs')].patch IN
           \/ /\ ~new.deleted
              /\ patch.flag = "none" => new.flag = recs[1].flag
              /\ patch.folder = NoFolder => new.folder = recs[1].folder
           \/ new.deleted
    BY <1>1, Edited
  <2> QED BY <2>2, <2>3, <2>4 DEF Agree
<1>2. CASE Store  BY <1>2, StoreAgrees
<1>3. CASE ~Store /\ ~\E r \in Loc : Edit(r)
  <2>1. UNCHANGED recs /\ SameEdits /\ Unsettled(1)' = Unsettled(1)
    BY <1>3, RecordsUntouched, StillUnsettled
  <2>2. Len(jobs') = Len(jobs) /\ \A k \in Unsettled(1) : jobs'[k].patch = jobs[k].patch
    BY <2>1 DEF SameEdits, Unsettled
  <2>3. Len(jobs) > 0 /\ jobs[Len(jobs)].st # "completed" => jobs'[Len(jobs)].st # "completed"
    BY <1>0, <1>3, Uncompleted
  <2> QED BY <2>1, <2>2, <2>3 DEF Agree
<1> QED BY <1>1, <1>2, <1>3

-----------------------------------------------------------------------------
(* Cursors, and what they say of the record.                                   *)
(* What the provider has of the message.                                       *)
State == [loc : 0..MaxLoc, folder : Folder, flag : Flag, ver : 0..MaxVer]

(* A cursor that was not ahead is not ahead of what the message has become,    *)
(* and is level with it only if the message is as it was.                      *)
LEMMA Later ==
  ASSUME profile \in Profile, Reports, NEW c \in Cursor, NEW s \in State, NEW t \in State,
         t = s \/ t.ver = s.ver + 1, Behind(c, s)
  PROVE  Behind(c, t) /\ (Level(c, t) => t = s /\ Level(c, s))
<1>0. profile.protocol \in {"graph", "gmail"}  BY DEF Reports
<1>1. CASE t = s  BY <1>1
<1>2. CASE t.ver = s.ver + 1 /\ profile.protocol = "gmail"
  <2>1. c \in GmailS!GmailCursor /\ GmailBehind(c, s)  BY <1>2 DEF Cursor, Behind
  <2>2. c.hist \in Nat /\ c.next \in Nat /\ s.ver \in Nat /\ t.ver \in Nat
    BY <2>1, Folders DEF GmailS!GmailCursor, State
  <2>3. GmailBehind(c, t)  BY <1>2, <2>1, <2>2 DEF GmailBehind
  <2>4. ~GmailLevel(c, t)  BY <1>2, <2>1, <2>2 DEF GmailBehind, GmailLevel, Told
  <2> QED BY <1>2, <2>3, <2>4 DEF Behind, Level
<1>3. CASE t.ver = s.ver + 1 /\ profile.protocol = "graph"
  <2>1. c \in [Folder -> [has : BOOLEAN, ver : 0..MaxVer]] /\ GraphBehind(c, s)
    BY <1>3, GraphNames DEF Cursor, Behind, GraphS!GraphCursor
  <2>2. s.ver \in Nat /\ t.ver \in Nat /\ t.folder \in Folder /\ \A f \in Folder : c[f].ver \in Nat
    BY <2>1, Folders DEF State
  <2>3. GraphBehind(c, t)  BY <1>3, <2>1, <2>2 DEF GraphBehind
  <2>4. ~GraphLevel(c, t)
    <3>1. c[t.folder].ver <= s.ver  BY <2>1, <2>2 DEF GraphBehind
    <3> QED BY <1>3, <2>2, <3>1 DEF GraphLevel
  <2> QED BY <1>3, <2>3, <2>4 DEF Behind, Level
<1> QED BY <1>0, <1>1, <1>2, <1>3

(* What is listed of the message before it changes may be listed after.       *)
LEMMA StillListed ==
  ASSUME NEW s, NEW t, NEW m, s.loc = 0 => t.loc = 0, Listed(m, s)
  PROVE  Listed(m, t)
BY DEF Listed

(* The next state of the message, and what stays of the protocols' notions.    *)
LEMMA NextMessage ==
  ASSUME TypeOK, TypeOK', Collected, Reports, OneRecord, [Next]_vars
  PROVE  /\ srv \in State /\ srv' \in State /\ profile \in Profile
         /\ srv' = srv \/ srv'.ver = srv.ver + 1
         /\ (srv.loc = 0 => srv'.loc = 0)
         /\ cursor \in Cursor /\ fetch.cursor \in Cursor /\ batch.cursor \in Cursor
         /\ UNCHANGED profile
BY Versions, ProfileKept DEF TypeOK, State, Collected

(* A cursor and its batch stay what they are to the record.                    *)
LEMMA CarriedKept ==
  ASSUME TypeOK, TypeOK', Running, OneRequest, Ordered, EditsStay, Collected, Reports, Asked,
         OneRecord, Effective, DeletedLast, Carried, Well, Well', [Next]_vars, ~Ingest, UNCHANGED <<cursor, batch>>,
         sync' = "ingest" /\ fetch'.i = Len(batch.msgs) =>
           batch.msgs = <<>> \/ (sync = "ingest" /\ fetch.i = Len(batch.msgs))
  PROVE  Carried'
<1>1. /\ srv \in State /\ srv' \in State /\ profile \in Profile
      /\ srv' = srv \/ srv'.ver = srv.ver + 1
      /\ (srv.loc = 0 => srv'.loc = 0)
      /\ cursor \in Cursor /\ batch.cursor \in Cursor /\ profile' = profile
  BY NextMessage
<1>2. UNCHANGED srv /\ Agree => Agree'  BY AgreeStep
<1>3. Behind(cursor, srv') /\ (Level(cursor, srv') => srv' = srv /\ Level(cursor, srv))
  BY <1>1, Later DEF Carried
<1>4. batch.on => Behind(batch.cursor, srv') /\ (Level(batch.cursor, srv') => srv' = srv /\ Level(batch.cursor, srv))
  BY <1>1, Later DEF Carried
<1>6. Behind(cursor, srv)' /\ (Level(cursor, srv)' => Agree')
  BY <1>1, <1>2, <1>3 DEF Carried, Behind, Level
<1>7. CASE batch.on
  <2>1. Behind(batch.cursor, srv)' /\ (Level(cursor, srv)' => Level(batch.cursor, srv)')
    BY <1>1, <1>3, <1>4, <1>7 DEF Carried, Behind, Level
  <2>2. Level(batch.cursor, srv)' => srv' = srv /\ Level(batch.cursor, srv)
    BY <1>1, <1>4, <1>7 DEF Level
  <2>3. /\ Len(batch.msgs) <= 1
        /\ \A i \in DOMAIN batch.msgs : Listed(batch.msgs[i], srv') /\ batch.msgs[i].rec = 1
    BY <1>1, <1>7, StillListed DEF Carried
  <2>4. Level(batch.cursor, srv)' => \A i \in DOMAIN batch.msgs : Shows(batch.msgs[i], srv')
    BY <1>7, <2>2 DEF Carried
  <2>5. Level(batch.cursor, srv)' /\ (batch.msgs = <<>> \/ (sync' = "ingest" /\ fetch'.i = Len(batch.msgs))) => Agree'
    BY <1>2, <1>7, <2>2 DEF Carried
  <2> QED BY <1>6, <2>1, <2>3, <2>4, <2>5 DEF Carried
<1>8. CASE ~batch.on  BY <1>6, <1>8 DEF Carried
<1> QED BY <1>7, <1>8

(* Storing what was listed last leaves the record agreed with the message.    *)
LEMMA IngestAgrees ==
  ASSUME TypeOK, Running, OneRequest, Ordered, Collected, Leased, OneRecord, Effective, DeletedLast, Carried,
         Well, Ingest, Shows(batch.msgs[1], srv)
  PROVE  Agree'
<1> DEFINE m == batch.msgs[1]
<1>1. /\ UNCHANGED <<srv, jobs>> /\ (m.del => recs'[1].deleted)
      /\ ~m.del => /\ recs'[1].flag = Preserve(1, m).flag /\ recs'[1].folder = Preserve(1, m).folder
                   /\ recs'[1].deleted = (recs[1].deleted /\ Unsettled(1) # {})
  BY Ingested
<1>2. Unsettled(1)' = Unsettled(1)  BY <1>1 DEF Unsettled
<1>3. CASE m.del  BY <1>1, <1>3 DEF Shows, Agree
<1>4. CASE ~m.del
  <2>1. srv.loc # 0 /\ m.flag = srv.flag /\ m.folder = srv.folder  BY <1>4 DEF Shows
  <2>2. (\A j \in Unsettled(1) : jobs[j].patch.flag = "none") => recs'[1].flag = srv.flag
    BY <1>1, <1>4, <2>1 DEF Preserve, Latest
  <2>3. (\A j \in Unsettled(1) : jobs[j].patch.folder = NoFolder) => recs'[1].folder = srv.folder
    BY <1>1, <1>4, <2>1 DEF Preserve, Latest
  <2>4. ASSUME recs'[1].deleted
        PROVE  Len(jobs) > 0 /\ jobs[Len(jobs)].st # "completed"
    <3>1. jobs \in Seq(Row) /\ Len(jobs) \in Nat /\ DOMAIN jobs = 1..Len(jobs)  BY RowsTyped
    <3>2. recs[1].deleted /\ Unsettled(1) # {}  BY <1>1, <1>4, <2>4
    <3>3. Len(jobs) > 0  BY <2>1, <3>2 DEF DeletedLast
    <3>4. PICK k \in Unsettled(1) : TRUE  BY <3>2
    <3>5. k \in DOMAIN jobs /\ jobs[k].rec = 1 /\ jobs[k].st \notin {"completed", "cancelled"}
      BY <3>4 DEF Unsettled
    <3>6. ASSUME jobs[Len(jobs)].st = "completed" PROVE FALSE
      <4>1. Len(jobs) \in Started /\ jobs[Len(jobs)].rec = 1  BY <3>1, <3>3, <3>6 DEF Effective, Started, OneRecord
      <4>2. k < Len(jobs)  BY <3>1, <3>5, <3>6
      <4> QED BY <3>5, <4>1, <4>2 DEF Ordered
    <3> QED BY <3>3, <3>6
  <2> QED BY <1>1, <1>2, <2>1, <2>2, <2>3, <2>4 DEF Agree
<1> QED BY <1>3, <1>4

(* Storing a listed message keeps what the checkpoint and the batch say.       *)
LEMMA CarriedIngest ==
  ASSUME TypeOK, TypeOK', Running, OneRequest, Ordered, EditsStay, Collected, Leased, Reports,
         OneRecord, Effective, DeletedLast, Carried, Well, [Next]_vars, Ingest
  PROVE  Carried'
<1>1. /\ sync = "ingest" /\ batch.on /\ UNCHANGED <<srv, jobs, batch, sync, cursor>> /\ profile' = profile
      /\ 1 \in DOMAIN batch.msgs /\ Len(batch.msgs) = 1
  BY Ingested, ProfileKept DEF Ingest
<1>2. Level(batch.cursor, srv) => Agree'  BY <1>1, IngestAgrees DEF Carried
<1>4. /\ (Behind(cursor, srv)' <=> Behind(cursor, srv)) /\ (Level(cursor, srv)' <=> Level(cursor, srv))
      /\ (Behind(batch.cursor, srv)' <=> Behind(batch.cursor, srv))
      /\ (Level(batch.cursor, srv)' <=> Level(batch.cursor, srv))
  BY <1>1 DEF Behind, Level
<1> QED BY <1>1, <1>2, <1>4 DEF Carried

(* A synchronisation whose calls are over has listed all there is to list.    *)
LEMMA FetchedAll ==
  ASSUME TypeOK, Collected, Reports, OneRecord, Carried, Fetched, sync = "fetch", fetch.i = 0
  PROVE  /\ Behind(fetch.cursor, srv) /\ (Level(cursor, srv) => Level(fetch.cursor, srv))
         /\ Len(fetch.msgs) <= 1 /\ \A i \in DOMAIN fetch.msgs : Listed(fetch.msgs[i], srv)
         /\ Level(fetch.cursor, srv) => /\ \A i \in DOMAIN fetch.msgs : Shows(fetch.msgs[i], srv)
                                        /\ fetch.msgs = <<>> => Agree
<1>0. profile.protocol \in {"graph", "gmail"}  BY DEF Reports
<1>1. CASE profile.protocol = "gmail"
  BY <1>1 DEF Fetched, GmailFetched, Behind, Level
<1>2. CASE profile.protocol = "graph"
  <2> DEFINE c == fetch.cursor
             here == srv.folder
  <2>1. GraphFetched /\ GraphBehind(cursor, srv) /\ (GraphLevel(cursor, srv) => Agree) /\ Past = Folder
    BY <1>2, AllPast DEF Fetched, Carried, Behind, Level
  <2>2. here \in Folder /\ srv.ver \in Nat /\ 0 <= srv.ver
    BY Folders DEF TypeOK
  <2>3. c \in [Folder -> [has : BOOLEAN, ver : 0..MaxVer]] /\ cursor \in [Folder -> [has : BOOLEAN, ver : 0..MaxVer]]
    BY <1>2, GraphNames DEF Collected, TypeOK, Cursor, GraphS!GraphCursor
  <2>4. /\ \A f \in Folder \ {here} : c[f] = GraphS!Absent
        /\ c[here].has /\ cursor[here].ver <= c[here].ver /\ c[here].ver <= srv.ver
        /\ fetch.msgs = <<>> => c[here] = cursor[here]
        /\ Len(fetch.msgs) <= 1
        /\ \A i \in DOMAIN fetch.msgs : /\ Listed(fetch.msgs[i], srv)
                                        /\ GraphLevel(c, srv) => Shows(fetch.msgs[i], srv)
    BY <2>1, <2>2 DEF GraphFetched
  <2>5. GraphBehind(c, srv)
    <3>1. GraphS!Absent.has = FALSE /\ GraphS!Absent.ver = 0  BY DEF GraphS!Absent
    <3>2. \A g \in Folder : c[g].has <=> g = here  BY <2>4, <3>1
    <3>3. \A f \in Folder : c[f].ver <= srv.ver  BY <2>2, <2>4, <3>1
    <3> HIDE DEF c, here
    <3> QED BY <2>2, <2>4, <3>2, <3>3 DEF GraphBehind, here
  <2>6. GraphLevel(cursor, srv) => GraphLevel(c, srv)
    <3>1. c[here] = [has |-> c[here].has, ver |-> c[here].ver] /\ c[here].ver \in Nat
      BY <2>2, <2>3, Folders
    <3>2. ASSUME GraphLevel(cursor, srv) PROVE c[here].ver = srv.ver
      <4>1. cursor[here].ver = srv.ver  BY <3>2 DEF GraphLevel
      <4> QED BY <2>2, <2>4, <3>1, <4>1
    <3>3. c[here].has = TRUE  BY <2>2, <2>3, <2>4
    <3> QED BY <3>1, <3>2, <3>3 DEF GraphLevel
  <2>7. GraphLevel(c, srv) /\ fetch.msgs = <<>> => Agree
    BY <2>1, <2>4 DEF GraphLevel
  <2> QED BY <1>2, <2>4, <2>5, <2>6, <2>7 DEF Behind, Level
<1> QED BY <1>0, <1>1, <1>2

(* A batch carries what was fetched.                                          *)
LEMMA CarriedStage ==
  ASSUME TypeOK, Collected, Reports, OneRecord, Carried, Fetched, [Next]_vars, Stage
  PROVE  Carried'
<1> DEFINE out == StagedUpTo[Len(fetch.msgs)]
<1>1. /\ sync = "fetch" /\ fetch.i = 0 /\ batch' = [on |-> TRUE, msgs |-> out.msgs, cursor |-> fetch.cursor]
      /\ UNCHANGED <<srv, recs, jobs, cursor, profile>> /\ fetch'.i = 0 /\ sync' = "ingest"
  BY DEF Stage, provider, NoFetch
<1>2. /\ Behind(fetch.cursor, srv) /\ (Level(cursor, srv) => Level(fetch.cursor, srv))
      /\ Len(fetch.msgs) <= 1 /\ \A i \in DOMAIN fetch.msgs : Listed(fetch.msgs[i], srv)
      /\ Level(fetch.cursor, srv) => /\ \A i \in DOMAIN fetch.msgs : Shows(fetch.msgs[i], srv)
                                     /\ fetch.msgs = <<>> => Agree
  BY <1>1, FetchedAll
<1>3. /\ Len(out.msgs) = Len(fetch.msgs)
      /\ \A i \in DOMAIN out.msgs :
           /\ i \in DOMAIN fetch.msgs /\ out.msgs[i].rec = 1 /\ out.msgs[i].pid = 1 /\ out.msgs[i].prev = 0
           /\ out.msgs[i].del = fetch.msgs[i].del /\ out.msgs[i].flag = fetch.msgs[i].flag
           /\ out.msgs[i].folder = fetch.msgs[i].folder
  BY <1>2, StagingOurs
<1> DEFINE ms == out.msgs
<1>4. batch'.on /\ batch'.msgs = ms /\ batch'.cursor = fetch.cursor  BY <1>1
<1>5. fetch.msgs \in Seq(Listing) /\ Len(fetch.msgs) \in Nat  BY DEF Collected
<1>6. ms = <<>> \/ Len(ms) = 0 => fetch.msgs = <<>>  BY <1>3, <1>5
<1>7. /\ \A i \in DOMAIN ms : Listed(ms[i], srv) /\ ms[i].rec = 1
      /\ Level(fetch.cursor, srv) => \A i \in DOMAIN ms : Shows(ms[i], srv)
  BY <1>2, <1>3 DEF Listed, Shows
<1> HIDE DEF ms
<1>8. Agree' <=> Agree  BY <1>1 DEF Agree, Unsettled
<1>9. /\ (Behind(cursor, srv)' <=> Behind(cursor, srv)) /\ (Level(cursor, srv)' <=> Level(cursor, srv))
      /\ (Behind(batch.cursor, srv)' <=> Behind(fetch.cursor, srv))
      /\ (Level(batch.cursor, srv)' <=> Level(fetch.cursor, srv))
  BY <1>1, <1>4 DEF Behind, Level
<1>10. Len(ms) <= 1  BY <1>2, <1>3 DEF ms
<1> QED BY <1>1, <1>2, <1>4, <1>6, <1>7, <1>8, <1>9, <1>10 DEF Carried

(* The checkpoint is that of the batch that was stored.                       *)
LEMMA CarriedAcknowledge ==
  ASSUME TypeOK, Leased, Carried, [Next]_vars, Acknowledge
  PROVE  Carried'
<1>1. /\ sync = "ingest" /\ fetch.i = Len(batch.msgs) /\ batch.on /\ cursor' = batch.cursor /\ ~batch'.on
      /\ UNCHANGED <<srv, recs, jobs, profile>>
  BY DEF Acknowledge, Checkpoint, NoBatch, Leased, provider, writeback
<1>2. Agree' <=> Agree  BY <1>1 DEF Agree, Unsettled
<1>3. /\ (Behind(cursor, srv)' <=> Behind(batch.cursor, srv)) /\ (Level(cursor, srv)' <=> Level(batch.cursor, srv))
  BY <1>1 DEF Behind, Level
<1> QED BY <1>1, <1>2, <1>3 DEF Carried

(* The checkpoint and the batch say of the record what they should.           *)
LEMMA CarriedStep ==
  ASSUME TypeOK, TypeOK', Running, OneRequest, Ordered, EditsStay, Collected, Leased, Reports, Asked,
         OneRecord, Effective, DeletedLast, Carried, Fetched, Well, Well', [Next]_vars
  PROVE  Carried'
<1>1. CASE Ingest  BY <1>1, CarriedIngest
<1>2. CASE Stage  BY <1>2, CarriedStage
<1>3. CASE Acknowledge  BY <1>3, CarriedAcknowledge
<1>4. CASE StartSync
  <2>1. /\ sync = "idle" /\ UNCHANGED <<cursor, batch>> /\ (sync' = "ingest" => UNCHANGED fetch)
    BY <1>4 DEF StartSync
  <2>2. sync' = "ingest" /\ fetch'.i = Len(batch.msgs) => batch.msgs = <<>>
    <3>1. fetch.i = 0 /\ batch.msgs \in Seq(Message)  BY <2>1 DEF Collected, NoFetch
    <3> QED BY <2>1, <3>1
  <2>3. ~Ingest  BY <2>1 DEF Ingest
  <2> QED BY <2>1, <2>2, <2>3, CarriedKept
<1>5. CASE Call \/ CrashSync
  <2>1. sync' # "ingest" /\ UNCHANGED <<cursor, batch>>  BY <1>5 DEF Call, CrashSync
  <2> QED BY <1>1, <2>1, CarriedKept
<1>6. CASE ~Synchronise /\ ~CrashSync
  <2>1. UNCHANGED <<sync, fetch, cursor, batch>>  BY <1>6, SyncUntouched DEF reading
  <2> QED BY <1>1, <2>1, CarriedKept
<1> QED BY <1>1, <1>2, <1>3, <1>4, <1>5, <1>6 DEF Synchronise

(* Only an expired history makes a listing full.                               *)
LEMMA ExpiredCall ==
  ASSUME NEW f, NEW s, NEW expired \in BOOLEAN, NEW g \in GmailS!GmailCall(f, s, expired),
         f \in [i : Nat, cursor : GmailS!GmailCursor, msgs : Seq(Listing)], f.i \in 1..3,
         g.cursor.full
  PROVE  f.cursor.full \/ expired
<1>1. f.cursor \in [hist : 0..MaxVer, next : 0..MaxVer, full : BOOLEAN, page : 0..2,
                    seen : BOOLEAN, pending : BOOLEAN]
  BY DEF GmailS!GmailCursor
<1>2. \A c : GmailS!Done(c).full = FALSE  BY DEF GmailS!Done, GmailS!Imported
<1>3. CASE f.i = 1 /\ f.cursor.pending
  <2>1. g = [f EXCEPT !.i = 3, !.cursor = GmailS!Done(f.cursor)]  BY <1>3 DEF GmailS!GmailCall
  <2>2. g.cursor = GmailS!Done(f.cursor)  BY <2>1, Progress
  <2> QED BY <1>2, <2>2
<1>4. CASE f.i = 1 /\ ~f.cursor.pending /\ ~f.cursor.full /\ ~expired
  <2>1. g \in GmailS!HistoryPage(f, s)  BY <1>4 DEF GmailS!GmailCall
  <2> DEFINE new == [f.cursor EXCEPT !.next = s.ver]
             wait == [new EXCEPT !.pending = TRUE]
  <2>2. wait.full = f.cursor.full  BY <1>1
  <2> HIDE DEF new
  <2>3. \/ g = [f EXCEPT !.i = 0]
        \/ g = [f EXCEPT !.i = 3, !.cursor = GmailS!Done(new)]
        \/ g = [f EXCEPT !.i = 0, !.cursor = wait]
    BY <2>1 DEF GmailS!HistoryPage, new
  <2> HIDE DEF wait
  <2>4. g.cursor \in {f.cursor, GmailS!Done(new), wait}  BY <2>3, Progress
  <2> QED BY <1>2, <1>4, <2>2, <2>4
<1>5. CASE f.i = 2
  <2>1. g \in GmailS!ListPage(f, s)  BY <1>5 DEF GmailS!GmailCall
  <2>2. f.cursor.page + 1 \in Nat  BY <1>1
  <2>3. CASE f.cursor.full  BY <2>3
  <2>4. CASE ~f.cursor.full
    <3> DEFINE page == f.cursor.page + 1
               none == [f.cursor EXCEPT !.page = page]
               more == [f.cursor EXCEPT !.page = page, !.seen = TRUE]
    <3>1. none.full = FALSE /\ more.full = FALSE  BY <1>1, <2>4
    <3>2. \/ \E i : g = [f EXCEPT !.i = i, !.cursor = GmailS!Done(f.cursor)]
          \/ g = [f EXCEPT !.i = 0, !.cursor = none]
          \/ g = [f EXCEPT !.i = 3, !.cursor = more]
      BY <2>1 DEF GmailS!ListPage
    <3> HIDE DEF none, more
    <3>3. g.cursor \in {GmailS!Done(f.cursor), none, more}  BY <3>2, Progress
    <3> QED BY <1>2, <3>1, <3>3
  <2> QED BY <2>3, <2>4
<1>6. CASE f.i = 3
  <2>1. g = GmailS!GetMessage(f, s)  BY <1>6 DEF GmailS!GmailCall
  <2>2. g.cursor = f.cursor
    <3>1. \E ms : g = [f EXCEPT !.i = 0, !.msgs = ms]  BY <2>1 DEF GmailS!GetMessage
    <3> QED BY <3>1, Progress
  <2> QED BY <2>2
<1> QED BY <1>3, <1>4, <1>5, <1>6

(* So every full listing that is under way, staged or stored has that cause.  *)
LEMMA ExpiredStep ==
  ASSUME TypeOK, Collected, Expired, [Next]_vars
  PROVE  Expired'
<1>0. UNCHANGED profile  BY ProfileKept
<1> SUFFICES ASSUME profile.protocol = "gmail"
             PROVE  \A c \in {cursor', fetch'.cursor, batch'.cursor} : c.full => "expire" \in profile.faults
  BY <1>0 DEF Expired
<1>1. Origin.full = FALSE  BY DEF Origin, GmailS!Imported
<1>2. NoFetch.cursor = Origin /\ NoBatch.cursor = Origin  BY DEF NoFetch, NoBatch
<1>3. CASE Call
  <2>1. PICK expired \in BOOLEAN : fetch' \in Called(expired) /\ (expired => "expire" \in profile.faults)
    BY <1>3 DEF Call, Fault
  <2>2. fetch' \in GmailS!GmailCall(fetch, srv, expired)  BY <2>1 DEF Called
  <2>3. fetch \in [i : Nat, cursor : GmailS!GmailCursor, msgs : Seq(Listing)] /\ fetch.i \in 1..3
    BY <1>3 DEF Call, Collected, Cursor, Steps
  <2>4. fetch'.cursor.full => fetch.cursor.full \/ expired
    BY <2>2, <2>3, ExpiredCall
  <2>5. UNCHANGED <<cursor, batch>>  BY <1>3 DEF Call
  <2> QED BY <2>1, <2>4, <2>5 DEF Expired
<1>4. CASE StartSync
  <2>1. UNCHANGED <<cursor, batch>> /\ fetch'.cursor \in {fetch.cursor, cursor}  BY <1>4 DEF StartSync
  <2> QED BY <2>1 DEF Expired
<1>5. CASE Stage
  <2>1. UNCHANGED cursor /\ batch'.cursor = fetch.cursor /\ fetch' = NoFetch  BY <1>5 DEF Stage
  <2> QED BY <1>1, <1>2, <2>1 DEF Expired
<1>6. CASE Ingest
  <2>1. UNCHANGED <<cursor, batch>> /\ fetch'.cursor = fetch.cursor
    BY <1>6 DEF Ingest, Collected
  <2> QED BY <2>1 DEF Expired
<1>7. CASE Acknowledge \/ CrashSync
  <2>1. cursor' \in {cursor, batch.cursor} /\ batch'.cursor \in {batch.cursor, NoBatch.cursor} /\ fetch' = NoFetch
    BY <1>7 DEF Acknowledge, Checkpoint, CrashSync
  <2> QED BY <1>1, <1>2, <2>1 DEF Expired
<1>8. CASE ~Synchronise /\ ~CrashSync
  <2>1. UNCHANGED <<sync, fetch, cursor, batch>>  BY <1>8, SyncUntouched DEF reading
  <2> QED BY <2>1 DEF Expired
<1> QED BY <1>3, <1>4, <1>5, <1>6, <1>7, <1>8 DEF Synchronise

(* While a synchronisation fetches, only other clients change the message.    *)
LEMMA FetchedKept ==
  ASSUME TypeOK, TypeOK', Running, OneRequest, Ordered, EditsStay, Collected, Leased, Reports, Asked,
         OneRecord, Effective, DeletedLast, Fetched, Well, Well', [Next]_vars, ~Ingest,
         UNCHANGED <<sync, fetch, cursor>>, Behind(cursor, srv)
  PROVE  Fetched'
<1> SUFFICES ASSUME sync = "fetch" PROVE Fetched'
  BY DEF Fetched
<1>1. /\ srv \in State /\ srv' \in State /\ profile \in Profile /\ profile' = profile
      /\ srv' = srv \/ srv'.ver = srv.ver + 1
      /\ (srv.loc = 0 => srv'.loc = 0) /\ cursor \in Cursor /\ fetch.cursor \in Cursor
  BY NextMessage
<1>2. UNCHANGED srv /\ Agree => Agree'  BY AgreeStep
<1>3. Level(cursor, srv') => srv' = srv  BY <1>1, Later
<1>4. profile.protocol \in {"graph", "gmail"}  BY DEF Reports
<1>5. CASE profile.protocol = "gmail"
  <2> DEFINE c == fetch.cursor
  <2>1. GmailFetched  BY <1>5 DEF Fetched
  <2>2. GmailBehind(c, srv') /\ (GmailLevel(c, srv') => srv' = srv /\ GmailLevel(c, srv))
    <3>1. Behind(c, srv)  BY <1>5, <2>1 DEF Behind, GmailFetched
    <3>2. Behind(c, srv') /\ (Level(c, srv') => srv' = srv /\ Level(c, srv))  BY <1>1, <3>1, Later
    <3> QED BY <1>5, <3>2 DEF Behind, Level
  <2>3. GmailLevel(cursor, srv') => srv' = srv  BY <1>3, <1>5 DEF Level
  <2>4. GmailLevel(cursor, srv') => GmailLevel(c, srv')
    BY <2>1, <2>3 DEF GmailFetched
  <2>5. \A i \in DOMAIN fetch.msgs : Listed(fetch.msgs[i], srv')
    BY <1>1, <2>1, StillListed DEF GmailFetched
  <2>6. GmailLevel(c, srv') /\ fetch.i # 3 => /\ \A i \in DOMAIN fetch.msgs : Shows(fetch.msgs[i], srv')
                                              /\ fetch.msgs = <<>> => Agree'
    BY <1>2, <2>1, <2>2 DEF GmailFetched
  <2>7. GmailFetched'
    BY <2>1, <2>2, <2>4, <2>5, <2>6 DEF GmailFetched
  <2> QED BY <1>1, <1>5, <2>7 DEF Fetched
<1>6. CASE profile.protocol = "graph"
  <2> DEFINE c == fetch.cursor
  <2>1. GraphFetched /\ ~profile.moves  BY <1>6 DEF Fetched, Reports
  <2>2. srv'.folder = srv.folder
    <3>1. wire = {}
      <4>1. work.pc # "wait"  BY DEF Leased
      <4> QED BY <4>1, NoneLate
    <3> QED BY <2>1, <3>1, Versions
  <2>3. srv.ver \in Nat /\ srv'.ver \in Nat /\ srv.ver <= srv'.ver /\ srv.folder \in Folder
    BY <1>1, Folders DEF State
  <2>4. Past' = Past  BY DEF Past
  <2>5. srv.folder \in Past => c[srv.folder].ver \in Nat /\ c[srv.folder].ver <= srv'.ver
    <3>1. c \in [Folder -> [has : BOOLEAN, ver : 0..MaxVer]]  BY <1>1, <1>6, GraphNames DEF Cursor, GraphS!GraphCursor
    <3>2. c[srv.folder].ver \in Nat  BY <2>3, <3>1, Folders
    <3>3. srv.folder \in Past => c[srv.folder].ver <= srv.ver  BY <2>1 DEF GraphFetched
    <3> QED BY <2>3, <3>2, <3>3
  <2>6. srv.folder \in Past /\ GraphLevel(c, srv') => srv' = srv
    <3>1. GraphLevel(c, srv') => c[srv.folder].ver = srv'.ver  BY <2>2 DEF GraphLevel
    <3>2. srv.folder \in Past => c[srv.folder].ver <= srv.ver  BY <2>1 DEF GraphFetched
    <3> QED BY <1>1, <2>3, <3>1, <3>2
  <2>7. srv.folder \in Past => \A i \in DOMAIN fetch.msgs :
          Listed(fetch.msgs[i], srv') /\ (GraphLevel(c, srv') => Shows(fetch.msgs[i], srv'))
    BY <1>1, <2>1, <2>6, StillListed DEF GraphFetched
  <2>8. GraphFetched'
    BY <2>1, <2>2, <2>4, <2>5, <2>7 DEF GraphFetched
  <2> QED BY <1>1, <1>6, <2>8 DEF Fetched
<1> QED BY <1>4, <1>5, <1>6

(* A synchronisation starts from the checkpoint.                               *)
LEMMA FetchedStart ==
  ASSUME TypeOK, Reports, Carried, Leased, [Next]_vars, StartSync
  PROVE  Fetched'
<1>1. CASE batch.on  BY <1>1 DEF StartSync, Fetched
<1>2. CASE ~batch.on
  <2>1. /\ sync' = "fetch" /\ fetch' = [i |-> 1, cursor |-> cursor, msgs |-> <<>>]
        /\ UNCHANGED <<srv, recs, jobs, cursor, profile>>
    BY <1>2 DEF StartSync, provider, writeback
  <2>2. fetch'.i = 1 /\ fetch'.cursor = cursor /\ fetch'.msgs = <<>>  BY <2>1
  <2>3. Agree' <=> Agree  BY <2>1 DEF Agree, Unsettled
  <2>4. CASE profile.protocol = "gmail"
    <3>1. GmailBehind(cursor, srv) /\ (GmailLevel(cursor, srv) => Agree)
      BY <2>4 DEF Carried, Behind, Level
    <3>2. Len(<<>>) <= 1 /\ DOMAIN <<>> = {}  OBVIOUS
    <3>3. GmailFetched'  BY <2>1, <2>2, <2>3, <3>1, <3>2 DEF GmailFetched
    <3> QED BY <2>1, <2>4, <3>3 DEF Fetched
  <2>5. CASE profile.protocol = "graph"
    <3>1. Past' = {}
      <4>1. 1..(1 - 1) = {}  OBVIOUS
      <4> QED BY <2>2, <4>1 DEF Past
    <3>2. GraphFetched'  BY <2>1, <2>2, <3>1 DEF GraphFetched
    <3> QED BY <2>1, <2>5, <3>2 DEF Fetched
  <2> QED BY <2>1, <2>4, <2>5 DEF Reports
<1> QED BY <1>1, <1>2

(* A cursor that takes another's next history identifier has only that.       *)
LEMMA GmailDone ==
  ASSUME NEW c \in GmailS!GmailCursor, NEW s \in State, c.next <= s.ver
  PROVE  LET d == GmailS!Done(c) IN
         GmailBehind(d, s) /\ d.hist = c.next /\ d.full = FALSE /\ Told(d) = c.next
<1>1. c.next \in Nat /\ s.ver \in Nat  BY Folders DEF GmailS!GmailCursor, State
<1>2. LET d == GmailS!Done(c) IN d.hist = c.next /\ d.next = 0 /\ ~d.full /\ d.full = FALSE /\ d.page = 0 /\ ~d.seen /\ ~d.pending
  BY DEF GmailS!Done, GmailS!Imported
<1> DEFINE d == GmailS!Done(c)
<1> HIDE DEF d
<1>3. GmailBehind(d, s) /\ Told(d) = c.next  BY <1>1, <1>2 DEF GmailBehind, Told, d
<1> QED BY <1>2, <1>3 DEF d

(* A call to Gmail does not run ahead, and lists the message as it is.        *)
LEMMA GmailCalled ==
  ASSUME NEW f, NEW s \in State, NEW expired \in BOOLEAN, NEW g \in GmailS!GmailCall(f, s, expired),
         f \in [i : Nat, cursor : GmailS!GmailCursor, msgs : Seq(Listing)], f.i \in 1..3,
         f.msgs = <<>>, GmailBehind(f.cursor, s),
         f.i = 2 => f.cursor.full /\ f.cursor.hist <= f.cursor.next /\ s.loc # 0
  PROVE  /\ GmailBehind(g.cursor, s) /\ (GmailLevel(f.cursor, s) => GmailLevel(g.cursor, s))
         /\ g.i = 2 => g.cursor.full /\ g.cursor.hist <= g.cursor.next
         /\ g.i # 0 => g.msgs = <<>>
         /\ Len(g.msgs) <= 1 /\ \A i \in DOMAIN g.msgs : Listed(g.msgs[i], s)
         /\ GmailLevel(g.cursor, s) /\ g.i # 3 =>
              /\ \A i \in DOMAIN g.msgs : Shows(g.msgs[i], s)
              /\ g.msgs = <<>> => GmailLevel(f.cursor, s) /\ f.i # 3
<1> DEFINE c == f.cursor
<1>1. /\ c \in [hist : 0..MaxVer, next : 0..MaxVer, full : BOOLEAN, page : 0..2, seen : BOOLEAN, pending : BOOLEAN]
      /\ c \in GmailS!GmailCursor /\ s.ver \in Nat /\ c.hist \in Nat /\ c.next \in Nat /\ c.page \in 0..2
  BY Folders DEF GmailS!GmailCursor, State
<1>2. /\ c.hist <= s.ver /\ c.next <= s.ver /\ (c.full => ~c.pending) /\ (~c.full => c.page = 0)
      /\ (c.page = 0 => ~c.seen) /\ (c.pending \/ (c.full /\ c.page > 0) => c.hist <= c.next)
  BY DEF GmailBehind
<1>3. GmailLevel(c, s) <=> (IF c.full /\ c.seen THEN c.next ELSE c.hist) = s.ver
  BY DEF GmailLevel, Told
<1>4. Len(<<>>) <= 1 /\ DOMAIN <<>> = {}  OBVIOUS
<1> HIDE DEF c
<1>5. CASE f.i = 1 /\ c.pending
  <2>1. g = [f EXCEPT !.i = 3, !.cursor = GmailS!Done(c)]  BY <1>5 DEF GmailS!GmailCall, c
  <2>2. g.i = 3 /\ g.cursor = GmailS!Done(c) /\ g.msgs = <<>>  BY <2>1, Progress
  <2>3. GmailLevel(c, s) => c.next = s.ver  BY <1>1, <1>2, <1>3, <1>5
  <2>4. GmailBehind(GmailS!Done(c), s) /\ (GmailLevel(GmailS!Done(c), s) <=> c.next = s.ver)
    BY <1>1, <1>2, GmailDone DEF GmailLevel
  <2> QED BY <1>4, <1>5, <2>2, <2>3, <2>4 DEF c
<1>6. CASE f.i = 1 /\ ~c.pending /\ (c.full \/ expired)
  <2> DEFINE d == [c EXCEPT !.full = TRUE, !.next = IF c.page = 0 THEN s.ver ELSE @]
  <2>1. g = GmailS!Snapshot([f EXCEPT !.cursor.full = TRUE], s)  BY <1>6 DEF GmailS!GmailCall, c
  <2>2. g = [i |-> 2, cursor |-> d, msgs |-> <<>>]
    <3>1. g = [f EXCEPT !.i = 2, !.cursor = d]  BY <1>1, <2>1 DEF GmailS!Snapshot, c
    <3> HIDE DEF d
    <3> QED BY <3>1, Progress
  <2>3. /\ d.hist = c.hist /\ d.next = IF c.page = 0 THEN s.ver ELSE c.next
        /\ d.full = TRUE /\ d.page = c.page /\ d.seen = c.seen /\ d.pending = c.pending
    BY <1>1
  <2> HIDE DEF d
  <2>4. d.hist <= d.next  BY <1>1, <1>2, <2>3
  <2>5. GmailBehind(d, s)  BY <1>1, <1>2, <1>6, <2>3, <2>4 DEF GmailBehind
  <2>6. GmailLevel(d, s) <=> GmailLevel(c, s)  BY <1>1, <1>2, <1>3, <2>3 DEF GmailLevel, Told
  <2> QED BY <1>4, <1>6, <2>2, <2>3, <2>4, <2>5, <2>6 DEF c
<1>7. CASE f.i = 1 /\ ~c.pending /\ ~c.full /\ ~expired
  <2> DEFINE new == [c EXCEPT !.next = s.ver]
             waits == [new EXCEPT !.pending = TRUE]
  <2>1. g \in GmailS!HistoryPage(f, s)  BY <1>7 DEF GmailS!GmailCall, c
  <2>2. /\ new \in GmailS!GmailCursor /\ new.next = s.ver
        /\ waits.hist = c.hist /\ waits.next = s.ver /\ ~waits.full /\ waits.page = c.page
        /\ waits.seen = c.seen /\ waits.pending
    BY <1>1, <1>7 DEF GmailS!GmailCursor, State
  <2>3. \/ c.hist = s.ver /\ g = [f EXCEPT !.i = 0]
        \/ c.hist # s.ver /\ g = [f EXCEPT !.i = 3, !.cursor = GmailS!Done(new)]
        \/ c.hist # s.ver /\ g = [f EXCEPT !.i = 0, !.cursor = waits]
    BY <2>1 DEF GmailS!HistoryPage, c
  <2> HIDE DEF new, waits
  <2>4. \/ c.hist = s.ver /\ g = [i |-> 0, cursor |-> c, msgs |-> <<>>]
        \/ c.hist # s.ver /\ g = [i |-> 3, cursor |-> GmailS!Done(new), msgs |-> <<>>]
        \/ c.hist # s.ver /\ g = [i |-> 0, cursor |-> waits, msgs |-> <<>>]
    BY <2>3, Progress DEF c
  <2>5. ~GmailLevel(c, s) \/ c.hist = s.ver  BY <1>3, <1>7
  <2>6. GmailBehind(waits, s) /\ (GmailLevel(waits, s) => c.hist = s.ver)
    BY <1>1, <1>2, <1>7, <2>2 DEF GmailBehind, GmailLevel, Told
  <2>7. GmailBehind(GmailS!Done(new), s)
    <3>1. new \in GmailS!GmailCursor /\ new.next <= s.ver  BY <1>1, <2>2
    <3> QED BY <3>1, GmailDone
  <2>8. GmailBehind(c, s) /\ (c.hist = s.ver => GmailLevel(c, s))  BY <1>3, <1>7 DEF c
  <2> QED BY <1>4, <1>7, <2>4, <2>5, <2>6, <2>7, <2>8 DEF c
<1>8. CASE f.i = 2
  <2> DEFINE page == c.page + 1
             none == [c EXCEPT !.page = page]
             more == [c EXCEPT !.page = page, !.seen = TRUE]
  <2>1. g \in GmailS!ListPage(f, s)  BY <1>8 DEF GmailS!GmailCall
  <2>2. /\ none.hist = c.hist /\ none.next = c.next /\ none.full = c.full /\ none.page = page
        /\ none.seen = c.seen /\ none.pending = c.pending
        /\ more.hist = c.hist /\ more.next = c.next /\ more.full = c.full /\ more.page = page
        /\ more.seen = TRUE /\ more.pending = c.pending
    BY <1>1
  <2>3. \/ g = [f EXCEPT !.i = IF ~c.seen /\ s.loc # 0 THEN 3 ELSE 0, !.cursor = GmailS!Done(c)]
        \/ g = [f EXCEPT !.i = 0, !.cursor = none]
        \/ ~c.seen /\ g = [f EXCEPT !.i = 3, !.cursor = more]
    BY <2>1 DEF GmailS!ListPage, c
  <2> HIDE DEF none, more
  <2>4. \/ g = [i |-> IF ~c.seen /\ s.loc # 0 THEN 3 ELSE 0, cursor |-> GmailS!Done(c), msgs |-> <<>>]
        \/ g = [i |-> 0, cursor |-> none, msgs |-> <<>>]
        \/ ~c.seen /\ g = [i |-> 3, cursor |-> more, msgs |-> <<>>]
    BY <2>3, Progress
  <2>5. c.full /\ c.hist <= c.next /\ s.loc # 0 /\ page > 0 /\ page # 0
    BY <1>1, <1>8 DEF c
  <2> HIDE DEF page
  <2>6. /\ GmailBehind(none, s) /\ (GmailLevel(none, s) <=> GmailLevel(c, s))
        /\ GmailBehind(more, s) /\ (~c.seen /\ GmailLevel(c, s) => GmailLevel(more, s))
    BY <1>1, <1>2, <1>3, <2>2, <2>5 DEF GmailBehind, GmailLevel, Told
  <2>7. /\ GmailBehind(GmailS!Done(c), s) /\ (GmailLevel(c, s) => GmailLevel(GmailS!Done(c), s))
        /\ c.seen /\ GmailLevel(GmailS!Done(c), s) => GmailLevel(c, s)
    <3>1. GmailBehind(GmailS!Done(c), s) /\ (GmailLevel(GmailS!Done(c), s) <=> c.next = s.ver)
      BY <1>1, <1>2, GmailDone DEF GmailLevel
    <3>2. GmailLevel(c, s) => c.next = s.ver  BY <1>1, <1>2, <1>3, <2>5
    <3>3. c.seen /\ c.next = s.ver => GmailLevel(c, s)  BY <1>3, <2>5
    <3> QED BY <3>1, <3>2, <3>3
  <2> QED BY <1>4, <1>8, <2>4, <2>5, <2>6, <2>7 DEF c
<1>9. CASE f.i = 3
  <2> DEFINE m == IF s.loc = 0 THEN [NewMsg EXCEPT !.del = TRUE]
                  ELSE [NewMsg EXCEPT !.folder = s.folder, !.flag = s.flag]
  <2>1. g = [f EXCEPT !.i = 0, !.msgs = <<m>>]
    BY <1>9 DEF GmailS!GmailCall, GmailS!GetMessage, GmailS!NewMsg, NewMsg, GmailS!NoFolder, NoFolder
  <2>2. Listed(m, s) /\ Shows(m, s)
    BY DEF Listed, Shows, NewMsg
  <2> HIDE DEF m
  <2>3. g = [i |-> 0, cursor |-> c, msgs |-> <<m>>]  BY <2>1, Progress DEF c
  <2>4. Len(<<m>>) = 1 /\ DOMAIN <<m>> = {1} /\ <<m>>[1] = m /\ <<m>> # <<>>  OBVIOUS
  <2> QED BY <2>2, <2>3, <2>4 DEF c
<1> QED BY <1>5, <1>6, <1>7, <1>8, <1>9 DEF c

(* A call to Graph lists one folder more.                                      *)
LEMMA PastNext ==
  ASSUME Len(FolderOrder) \in Nat, fetch.i \in 1..Len(FolderOrder),
         fetch'.i = IF fetch.i = Len(FolderOrder) THEN 0 ELSE fetch.i + 1
  PROVE  Past' = Past \cup {FolderOrder[fetch.i]}
<1>1. 1..(IF fetch'.i = 0 THEN Len(FolderOrder) ELSE fetch'.i - 1) = 1..fetch.i
  OBVIOUS
<1>2. 1..(IF fetch.i = 0 THEN Len(FolderOrder) ELSE fetch.i - 1) \cup {fetch.i} = 1..fetch.i
  OBVIOUS
<1> QED BY <1>1, <1>2 DEF Past

(* Its page shows the message where it is, or that it is no longer there.     *)
LEMMA GraphCalled ==
  ASSUME TypeOK, Collected, profile.protocol = "graph", sync = "fetch", fetch.i # 0, srv.loc # 0,
         GraphBehind(cursor, srv), GraphFetched, NEW expired \in BOOLEAN,
         fetch' = GraphS!GraphPage(fetch, srv, expired), UNCHANGED <<srv, cursor>>
  PROVE  GraphFetched'
<1> DEFINE f == FolderOrder[fetch.i]
           here == srv.folder
           c == fetch.cursor
           old == IF expired THEN GraphS!Absent ELSE c[f]
           new == GraphS!InFolder(srv, f)
           m == [NewMsg EXCEPT !.pid = 1, !.folder = f, !.flag = srv.flag, !.del = ~new.has]
           d == [c EXCEPT ![f] = new]
           i == IF fetch.i = Len(FolderOrder) THEN 0 ELSE fetch.i + 1
           ms == IF new = old THEN fetch.msgs ELSE GraphS!Keep(fetch.msgs, m)
<1>1. /\ fetch \in [i : Nat, cursor : GraphS!GraphCursor, msgs : Seq(Listing)]
      /\ fetch.i \in 1..Len(FolderOrder) /\ Len(FolderOrder) \in Nat /\ f \in Folder
      /\ c \in [Folder -> [has : BOOLEAN, ver : 0..MaxVer]] /\ cursor \in [Folder -> [has : BOOLEAN, ver : 0..MaxVer]]
      /\ here \in Folder /\ srv.ver \in Nat /\ fetch.msgs \in Seq(Listing)
  <2>1. /\ fetch \in [i : Nat, cursor : GraphS!GraphCursor, msgs : Seq(Listing)] /\ cursor \in GraphS!GraphCursor
        /\ fetch.i \in 0..Len(FolderOrder)
    BY DEF TypeOK, Collected, Cursor, Steps
  <2>2. fetch.i \in 1..Len(FolderOrder) /\ Len(FolderOrder) \in Nat  BY <2>1, Folders
  <2>3. c \in [Folder -> [has : BOOLEAN, ver : 0..MaxVer]] /\ cursor \in [Folder -> [has : BOOLEAN, ver : 0..MaxVer]]
    BY <2>1, GraphNames DEF GraphS!GraphCursor
  <2>4. here \in Folder /\ srv.ver \in Nat  BY Folders DEF TypeOK
  <2> QED BY <2>1, <2>2, <2>3, <2>4, Folders
<1>2. fetch' = [i |-> i, cursor |-> d, msgs |-> ms]
  <2>1. fetch' = [fetch EXCEPT !.i = i, !.cursor = d, !.msgs = ms]
    BY <1>1 DEF GraphS!GraphPage, GraphS!NewMsg, NewMsg, GraphS!NoFolder, NoFolder
  <2> HIDE DEF i, d, ms
  <2> QED BY <1>1, <2>1, Progress
<1>3. fetch'.i = i /\ fetch'.cursor = d /\ fetch'.msgs = ms  BY <1>2
<1>4. Past' = Past \cup {f}
  <2> HIDE DEF f
  <2>1. fetch'.i = IF fetch.i = Len(FolderOrder) THEN 0 ELSE fetch.i + 1  BY <1>3
  <2> QED BY <1>1, <2>1, PastNext DEF f
<1>5. /\ f = here => new = [has |-> TRUE, ver |-> srv.ver]
      /\ f # here => new = GraphS!Absent
      /\ ~GraphS!Absent.has /\ GraphS!Absent.ver = 0
  BY DEF GraphS!InFolder, GraphS!Absent
<1>6. m.pid = 1 /\ m.prev = 0 /\ m.folder = f /\ m.flag = srv.flag /\ m.del = ~new.has
  BY DEF NewMsg
<1>7. d[f] = new /\ \A g \in Folder : g # f => d[g] = c[g]
  BY <1>1
<1>8. \A g \in Folder \ Past' : d[g] = cursor[g]
  BY <1>4, <1>7 DEF GraphFetched
<1>9. \A g \in Past' \ {here} : d[g] = GraphS!Absent
  <2>1. Past \subseteq Folder  BY <1>1, Folders DEF Past, Collected
  <2> QED BY <1>4, <1>5, <1>7, <2>1 DEF GraphFetched
<1> HIDE DEF f, new, m, d, i, ms
<1>10. CASE f = here
  <2>0. new = [has |-> TRUE, ver |-> srv.ver] /\ d[here] = new  BY <1>5, <1>7, <1>10
  <2>1. d[here] = [has |-> TRUE, ver |-> srv.ver] /\ d[here].has /\ d[here].ver = srv.ver /\ new.has
    BY <2>0
  <2>2. cursor[here].ver <= srv.ver  BY <1>1 DEF GraphBehind
  <2>3. CASE new # old
    <3>1. ~m.del /\ ms = <<m>>  BY <1>6, <2>1, <2>3 DEF ms, GraphS!Keep
    <3>2. Listed(m, srv) /\ Shows(m, srv)  BY <1>6, <1>10, <3>1 DEF Listed, Shows
    <3>3. Len(ms) = 1 /\ DOMAIN ms = {1} /\ ms[1] = m /\ ms # <<>>  BY <3>1
    <3>4. GraphFetched'
      BY <1>1, <1>3, <1>4, <1>8, <1>9, <1>10, <2>1, <2>2, <3>2, <3>3 DEF GraphFetched
    <3> QED BY <3>4
  <2>4. CASE new = old
    <3>1. ms = fetch.msgs  BY <2>4 DEF ms
    <3>2. c[here] = new  BY <1>5, <1>10, <2>4
    <3>3. GraphLevel(c, srv) /\ c[here].has  BY <1>5, <1>10, <3>2 DEF GraphLevel
    <3>4. CASE here \in Past
      BY <1>1, <1>3, <1>4, <1>8, <1>9, <1>10, <2>1, <2>2, <3>1, <3>2, <3>3, <3>4, <1>7 DEF GraphFetched
    <3>5. CASE here \notin Past
      <4>1. c[here] = cursor[here]  BY <1>1, <3>5 DEF GraphFetched
      <4>2. ms = <<>>  BY <3>1, <3>3, <3>5, <4>1 DEF GraphFetched
      <4>3. Len(ms) <= 1 /\ DOMAIN ms = {}  BY <4>2
      <4> QED BY <1>3, <1>4, <1>7, <1>8, <1>9, <1>10, <2>1, <2>2, <3>2, <4>1, <4>2, <4>3, <1>1 DEF GraphFetched
    <3> QED BY <3>4, <3>5
  <2> QED BY <2>3, <2>4
<1>11. CASE f # here
  <2>1. new = GraphS!Absent /\ d[here] = c[here] /\ (here \in Past' <=> here \in Past)
    BY <1>1, <1>4, <1>5, <1>7, <1>11
  <2>2. new # old => cursor[f].has /\ ~cursor[here].has
    <3>1. ASSUME new # old PROVE cursor[f].has
      <4>1. c[f] # GraphS!Absent  BY <2>1, <3>1
      <4>2. f \notin Past  BY <1>11, <4>1 DEF GraphFetched
      <4>3. c[f] = cursor[f]  BY <1>1, <4>2 DEF GraphFetched
      <4> QED BY <1>1, <4>1, <4>3 DEF GraphBehind
    <3> QED BY <1>1, <1>11, <3>1 DEF GraphBehind
  <2>3. CASE here \in Past
    <3>1. new # old => fetch.msgs # <<>>
      BY <2>2, <2>3 DEF GraphFetched
    <3>2. m.del  BY <1>5, <1>6, <2>1
    <3>3. ms = fetch.msgs  BY <3>1, <3>2 DEF ms, GraphS!Keep
    <3> QED BY <1>3, <1>8, <1>9, <2>1, <2>3, <3>3 DEF GraphFetched, GraphLevel
  <2>4. CASE here \notin Past
    <3>1. ms = <<>> \/ ~cursor[here].has
      BY <2>2, <2>4 DEF ms, GraphFetched
    <3> QED BY <1>3, <1>8, <1>9, <2>1, <2>4, <3>1 DEF GraphFetched
  <2> QED BY <2>3, <2>4
<1> QED BY <1>10, <1>11

(* Every call leaves what its protocol promises.                               *)
LEMMA FetchedCall ==
  ASSUME TypeOK, Collected, Reports, Expired, OneRecord, Carried, Fetched, [Next]_vars, Call
  PROVE  Fetched'
<1>1. /\ sync = "fetch" /\ fetch.i # 0 /\ sync' = "fetch" /\ UNCHANGED <<srv, recs, jobs, cursor, profile>>
      /\ \E expired \in BOOLEAN : fetch' \in Called(expired) /\ (expired => "expire" \in profile.faults)
  BY DEF Call, Fault, provider, writeback
<1>2. PICK expired \in BOOLEAN : fetch' \in Called(expired) /\ (expired => "expire" \in profile.faults)
  BY <1>1
<1>3. Agree' <=> Agree  BY <1>1 DEF Agree, Unsettled
<1>4. CASE profile.protocol = "gmail"
  <2>1. fetch' \in GmailS!GmailCall(fetch, srv, expired)  BY <1>2, <1>4 DEF Called
  <2>2. /\ fetch \in [i : Nat, cursor : GmailS!GmailCursor, msgs : Seq(Listing)] /\ fetch.i \in 1..3
        /\ srv \in State
    BY <1>1, <1>4 DEF Collected, Cursor, Steps, TypeOK, State
  <2>3. GmailFetched  BY <1>1, <1>4 DEF Fetched
  <2>4. fetch.i = 2 => srv.loc # 0
    <3>1. fetch.i = 2 => "expire" \in profile.faults  BY <1>4, <2>3 DEF GmailFetched, Expired
    <3> QED BY <1>4, <3>1 DEF Reports, OneRecord
  <2>5. /\ GmailBehind(fetch'.cursor, srv) /\ (GmailLevel(fetch.cursor, srv) => GmailLevel(fetch'.cursor, srv))
        /\ fetch'.i = 2 => fetch'.cursor.full /\ fetch'.cursor.hist <= fetch'.cursor.next
        /\ fetch'.i # 0 => fetch'.msgs = <<>>
        /\ Len(fetch'.msgs) <= 1 /\ \A k \in DOMAIN fetch'.msgs : Listed(fetch'.msgs[k], srv)
        /\ GmailLevel(fetch'.cursor, srv) /\ fetch'.i # 3 =>
             /\ \A k \in DOMAIN fetch'.msgs : Shows(fetch'.msgs[k], srv)
             /\ fetch'.msgs = <<>> => GmailLevel(fetch.cursor, srv) /\ fetch.i # 3
    BY <1>1, <2>1, <2>2, <2>3, <2>4, GmailCalled DEF GmailFetched
  <2>6. fetch.msgs = <<>> /\ (GmailLevel(fetch.cursor, srv) /\ fetch.i # 3 => Agree)
        /\ (GmailLevel(cursor, srv) => GmailLevel(fetch.cursor, srv))
    BY <1>1, <2>3 DEF GmailFetched
  <2>7. GmailFetched'  BY <1>1, <1>3, <2>5, <2>6 DEF GmailFetched
  <2> QED BY <1>1, <1>4, <2>7 DEF Fetched
<1>5. CASE profile.protocol = "graph"
  <2>1. fetch' = GraphS!GraphPage(fetch, srv, expired)  BY <1>2, <1>5 DEF Called
  <2>2. srv.loc # 0 /\ GraphBehind(cursor, srv) /\ GraphFetched
    BY <1>1, <1>5 DEF Reports, OneRecord, Carried, Behind, Fetched
  <2>3. GraphFetched'  BY <1>1, <1>5, <2>1, <2>2, GraphCalled
  <2> QED BY <1>1, <1>5, <2>3 DEF Fetched
<1> QED BY <1>4, <1>5 DEF Reports

(* What is collected says what it should in every step.                       *)
LEMMA FetchedStep ==
  ASSUME TypeOK, TypeOK', Running, OneRequest, Ordered, EditsStay, Collected, Leased, Expired, Reports, Asked,
         OneRecord, Effective, DeletedLast, Carried, Fetched, Well, Well', [Next]_vars
  PROVE  Fetched'
<1>1. CASE StartSync  BY <1>1, FetchedStart
<1>2. CASE Call  BY <1>2, FetchedCall
<1>3. CASE Stage \/ Ingest \/ Acknowledge \/ CrashSync
  <2>1. sync' # "fetch"  BY <1>3 DEF Stage, Ingest, Acknowledge, CrashSync
  <2> QED BY <2>1 DEF Fetched
<1>4. CASE ~Synchronise /\ ~CrashSync
  <2>1. UNCHANGED <<sync, fetch, cursor>> /\ ~Ingest /\ Behind(cursor, srv)
    BY <1>4, SyncUntouched DEF reading, Synchronise, Carried
  <2> QED BY <2>1, FetchedKept
<1> QED BY <1>1, <1>2, <1>3, <1>4 DEF Synchronise

-----------------------------------------------------------------------------
(* The mailbox is imported as it is.                                           *)
LEMMA ReportedInit ==
  ASSUME Init, MInv, Reports
  PROVE  OneRecord /\ Effective /\ DeletedLast /\ Carried /\ Fetched
<1>0. /\ profile.protocol \in {"graph", "gmail"} /\ 1 \in Loc /\ FolderOrder[1] \in Folder
      /\ MaxVer \in Nat
  BY Folders DEF Reports
<1>1. /\ srv = [loc |-> 1, folder |-> FolderOrder[1], flag |-> "off", ver |-> 0]
      /\ jobs = <<>> /\ work = Idle /\ wire = {} /\ sync = "idle" /\ batch = NoBatch /\ cursor = Origin
      /\ alias[1] = NoAlias
  BY <1>0 DEF Init
<1>2. /\ \A r \in Loc : recs[r].pid = 1 /\ (recs[r].in <=> r = 1) /\ ~recs[r].deleted
      /\ recs[1].folder = FolderOrder[1] /\ recs[1].flag = "off"
  BY <1>0 DEF Init
<1>3. Len(jobs) = 0 /\ DOMAIN jobs = {} /\ Unsettled(1) = {}  BY <1>1 DEF Unsettled
<1>4. OneRecord
  BY <1>1, <1>2, <1>3 DEF OneRecord, NoAlias, Idle
<1>5. Effective  BY <1>1, <1>3 DEF Effective, Idle
<1>6. DeletedLast  BY <1>0, <1>2 DEF DeletedLast
<1>7. Agree  BY <1>0, <1>1, <1>2 DEF Agree
<1>8. Behind(cursor, srv)
  <2>1. CASE profile.protocol = "gmail"
    BY <1>1, <2>1 DEF Behind, GmailBehind, Origin, GmailS!Imported
  <2>2. CASE profile.protocol = "graph"
    <3>1. cursor = [f \in Folder |-> [has |-> f = FolderOrder[1], ver |-> 0]]
      BY <1>1, <2>2, GraphNames DEF Origin, GraphS!Imported
    <3>2. \A f \in Folder : (cursor[f].has <=> f = FolderOrder[1]) /\ cursor[f].ver = 0
      BY <3>1
    <3>3. \A f \in Folder : cursor[f].has \/ cursor[f] = GraphS!Absent
      BY <3>1 DEF GraphS!Absent
    <3>4. GraphBehind(cursor, srv)
      <4>1. \A g \in Folder : cursor[g].has <=> g = FolderOrder[1]  BY <3>2
      <4>2. \E f \in Folder : \A g \in Folder : cursor[g].has <=> g = f  BY <1>0, <4>1
      <4>3. srv.ver = 0 /\ srv.folder = FolderOrder[1]  BY <1>1
      <4>4. \A f \in Folder : cursor[f].ver <= srv.ver /\ (cursor[f].has => f = srv.folder)
        BY <3>2, <4>3
      <4> QED BY <3>3, <4>2, <4>4 DEF GraphBehind
    <3> QED BY <2>2, <3>4 DEF Behind
  <2> QED BY <1>0, <2>1, <2>2
<1>9. Carried  BY <1>1, <1>7, <1>8 DEF Carried, NoBatch
<1>10. Fetched  BY <1>1 DEF Fetched
<1> QED BY <1>4, <1>5, <1>6, <1>9, <1>10

(* The invariant of a mailbox that is told of every change:                    *)
LEMMA ReconcilingInit == Init => RInv
<1> SUFFICES ASSUME Init PROVE RInv  OBVIOUS
<1>1. MInv  BY MailInit
<1>2. Asked /\ Leased
  BY DEF Init, Asked, Leased, Idle, NoBatch
<1>3. Expired
  <2>1. cursor = Origin /\ fetch.cursor = Origin /\ batch.cursor = Origin  BY DEF Init, NoFetch, NoBatch
  <2> QED BY <2>1 DEF Expired, Origin, GmailS!Imported
<1>4. Reported  BY <1>1, ReportedInit DEF Reported
<1> QED BY <1>1, <1>2, <1>3, <1>4 DEF RInv

(* a step keeps all of it while nothing goes wrong,                            *)
LEMMA ReconcilingStep == RInv /\ [Next]_vars => RInv'
<1> SUFFICES ASSUME RInv, [Next]_vars PROVE RInv'  OBVIOUS
<1>1. MInv /\ MInv' /\ Asked /\ Leased /\ Expired  BY MailStep DEF RInv
<1>2. /\ TypeOK /\ TypeOK' /\ Running /\ OneRequest /\ Ordered /\ Collected /\ EditsStay
  BY <1>1 DEF MInv
<1>3. Asked'  BY <1>1, <1>2, AskedStep
<1>4. Leased'  BY <1>1, <1>2, LeasedStep
<1>5. Expired'  BY <1>1, <1>2, ExpiredStep
<1>6. Reported'
  <2> SUFFICES ASSUME Reports', Well' PROVE (OneRecord /\ Effective /\ DeletedLast /\ Carried /\ Fetched)'
    BY DEF Reported
  <2>1. Reports /\ Well  BY <1>2, ProfileKept, WellBefore
  <2>2. OneRecord /\ Effective /\ DeletedLast /\ Carried /\ Fetched  BY <2>1 DEF RInv, Reported
  <2>3. OneRecord'  BY <1>1, <1>2, <2>1, <2>2, OneRecordStep
  <2>4. Effective'  BY <1>1, <1>2, <2>1, <2>2, EffectiveStep
  <2>5. DeletedLast'  BY <1>1, <1>2, <2>1, <2>2, DeletedLastStep
  <2>6. Carried'  BY <1>1, <1>2, <2>1, <2>2, CarriedStep
  <2>7. Fetched'  BY <1>1, <1>2, <2>1, <2>2, FetchedStep
  <2> QED BY <2>3, <2>4, <2>5, <2>6, <2>7
<1> QED BY <1>1, <1>3, <1>4, <1>5, <1>6 DEF RInv

(* and when all is settled it leaves the record no choice.                     *)
LEMMA ReconcilingImplies == RInv /\ Reports => Reconciled
<1> SUFFICES ASSUME RInv, Reports, Covers, Settled, ~others.raced
             PROVE  /\ srv.loc = 0 => Live = {}
                    /\ srv.loc # 0 => Cardinality(Live) = 1 \/ (srv.folder = "deleted" /\ Live = {})
                    /\ \A r \in Live : recs[r].folder = srv.folder /\ recs[r].flag = srv.flag
  BY DEF Reconciled
<1>1. TypeOK /\ Running /\ 1 \in Loc /\ jobs \in Seq(Row) /\ Len(jobs) \in Nat /\ DOMAIN jobs = 1..Len(jobs)
  BY Folders, RowsTyped DEF RInv, MInv
<1>2. \A j \in DOMAIN jobs : jobs[j].st = "completed"  BY DEF Settled
<1>3. Well
  <2>1. work.job = 0  BY <1>1, <1>2 DEF TypeOK, Running
  <2>2. work.pc # "wait"  BY <1>1, <2>1 DEF Running
  <2> QED BY <1>2, <2>2 DEF Well
<1>4. OneRecord /\ Carried  BY <1>3 DEF RInv, Reported
<1>5. Level(cursor, srv)
  <2>1. CASE profile.protocol = "gmail"
    BY <2>1 DEF Covers, GmailS!GmailCovers, Level, GmailLevel, Told
  <2>2. CASE profile.protocol = "graph"
    <3>1. srv.loc # 0  BY <1>4, <2>2 DEF Reports, OneRecord
    <3>2. srv.folder \in GraphS!Folder  BY <1>1, GraphNames DEF TypeOK
    <3>3. cursor[srv.folder] = GraphS!InFolder(srv, srv.folder)
      BY <2>2, <3>2 DEF Covers, GraphS!GraphCovers
    <3> QED BY <2>2, <3>1, <3>3 DEF Level, GraphLevel, GraphS!InFolder
  <2> QED BY <2>1, <2>2 DEF Reports
<1>6. Agree  BY <1>4, <1>5 DEF Carried
<1>7. Unsettled(1) = {}  BY <1>2 DEF Unsettled
<1>8. Live = {1} \/ Live = {}  BY <1>4 DEF Live, OneRecord
<1>9. Live = {1} <=> ~recs[1].deleted  BY <1>1, <1>4 DEF Live, OneRecord
<1>10. CASE recs[1].deleted
  <2>1. Live = {}  BY <1>8, <1>9, <1>10
  <2>2. Len(jobs) > 0 => jobs[Len(jobs)].st = "completed"  BY <1>1, <1>2
  <2> QED BY <1>6, <1>10, <2>1, <2>2 DEF Agree
<1>11. CASE ~recs[1].deleted
  <2>1. Live = {1} /\ Cardinality(Live) = 1  BY <1>9, <1>11, FS_Singleton
  <2> QED BY <1>6, <1>7, <1>11, <2>1 DEF Agree
<1> QED BY <1>10, <1>11

(* It is kept.                                                                 *)
LEMMA Reconciling == Spec => []RInv
<1>1. Init => RInv  BY ReconcilingInit
<1>2. RInv /\ [Next]_vars => RInv'  BY ReconcilingStep
<1> QED BY <1>1, <1>2, PTL DEF Spec

(* With Gmail and Graph, the record of a message is the message in the end:    *)
(* whatever was edited here and changed there meanwhile, once the checkpoint   *)
(* stands for the provider's state and every write-back is completed, no       *)
(* change was skipped between a listing and its checkpoint, none was undone,   *)
(* and no record is left of a message that is gone.  Not covered are removals  *)
(* that an expired Gmail history cannot report, and moves by other clients     *)
(* that Graph reports folder by folder.                                        *)
THEOREM CloudMailReconciles == Spec => [](Reports => Reconciled)
<1>1. RInv => (Reports => Reconciled)  BY ReconcilingImplies
<1> QED BY <1>1, Reconciling, PTL
=============================================================================
