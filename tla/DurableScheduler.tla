--------------------------- MODULE DurableScheduler ---------------------------
(***************************************************************************)
(* The durable job queue of src/backend/jobs.js: the jobs table and the    *)
(* server processes that enqueue, claim, renew, run, settle and cancel     *)
(* jobs in it.                                                             *)
(*                                                                         *)
(* Each database statement or transaction is one step.  A job's times are  *)
(* kept relative to now, as the ticks left until run_at and lease_until,   *)
(* which is all the queue compares them with; 0 means that the moment has  *)
(* come.                                                                   *)
(*                                                                         *)
(* Handlers are the environment.  Of those that submit something to a      *)
(* transport (send, invitation-delivery, invitation-reply,                 *)
(* inbound-calendar-reply, provider_mutation) no more is assumed than      *)
(* their code keeps while the database answers: at most one submission in  *)
(* a run, "accepted" only of what the transport accepted, and an error     *)
(* raised after that marked as uncertain unless acceptance was marked.     *)
(* "completed" says only that the work is over: superseded invitations and *)
(* replies complete without a delivery, and pim_sync never delivers.       *)
(* Statements that fail after the acceptance are in ScheduledSend, which   *)
(* shows that send keeps the assumption then; the other handlers do not    *)
(* (README, known divergences).                                            *)
(***************************************************************************)
EXTENDS Naturals

CONSTANTS
  Job,           \* Job identifiers.
  Recoverable,   \* Jobs of type provider_sync and automation, which only read.
  Worker,        \* Server processes running a scheduler.
  Nobody,        \* A NULL lease_owner.
  NoJob,         \* The job of an idle worker.
  LeaseTicks,    \* leaseMs.
  MaxAttempts,   \* max_attempts.
  MaxDelay,      \* Longest delay, in ticks: the cap of the retry delay.
  MaxFaults      \* Bound: crashes and stalls in a behaviour.

ASSUME SchedulerAssumption ==
  /\ Recoverable \subseteq Job
  /\ Nobody \notin Worker
  /\ NoJob \notin Job
  /\ LeaseTicks \in Nat \ {0}
  /\ MaxAttempts \in Nat \ {0}
  /\ MaxDelay \in Nat
  /\ MaxFaults \in Nat

VARIABLES
  jobs,     \* The jobs table.
  run,      \* What each process's runDue loop is doing.
  sent,     \* How often the transport accepted each job (environment).
  faults    \* Crashes and stalls so far.

vars == <<jobs, run, sent, faults>>

Delivery == Job \ Recoverable

Terminal == {"completed", "accepted", "unknown", "failed", "cancelled"}
Status == {"absent", "pending", "running"} \cup Terminal

(***************************************************************************)
(* A run holds the claimed row's attempt count, whether the handler's      *)
(* transport has accepted the operation in this run (submitted), the local *)
(* accepted variable, the abort signal, and at the end the verdict to      *)
(* store.  Phases of a worker: idle (no job claimed); handling (awaiting   *)
(* the handler); settling (the handler ended, its verdict is not stored).  *)
(***************************************************************************)
Phase == {"idle", "handling", "settling"}

NoRow == [status |-> "absent", due |-> 0, attempts |-> 0, owner |-> Nobody,
          lease |-> 0, accepted |-> FALSE]

Idle == [phase |-> "idle", job |-> NoJob, attempt |-> 0, submitted |-> FALSE,
         accepted |-> FALSE, aborted |-> FALSE, verdict |-> "absent", delay |-> 0]

Delay == 0..MaxDelay
Left == 0..LeaseTicks

Row == [status: Status, due: Delay, attempts: Nat, owner: Worker \cup {Nobody},
        lease: Left, accepted: BOOLEAN]

Run == [phase: Phase, job: Job \cup {NoJob}, attempt: Nat, submitted: BOOLEAN,
        accepted: BOOLEAN, aborted: BOOLEAN, verdict: Status, delay: Delay]

TypeOK ==
  /\ jobs \in [Job -> Row]
  /\ run \in [Worker -> Run]
  /\ sent \in [Job -> Nat]
  /\ faults \in Nat

Init ==
  /\ jobs = [j \in Job |-> NoRow]
  /\ run = [w \in Worker |-> Idle]
  /\ sent = [j \in Job |-> 0]
  /\ faults = 0

-----------------------------------------------------------------------------

(* The row a worker claimed is still running under its lease: the fence of *)
(* heartbeat, markAccepted and the final UPDATE.                           *)
Fenced(w) ==
  /\ run[w].job \in Job
  /\ jobs[run[w].job].status = "running"
  /\ jobs[run[w].job].owner = w

(* enqueue: INSERT OR IGNORE.  A second call for the identifier changes    *)
(* nothing: it returns the row, or fails if the request differs.           *)
Enqueue(j, delay) ==
  /\ jobs[j].status = "absent"
  /\ jobs' = [jobs EXCEPT ![j].status = "pending", ![j].due = delay]
  /\ UNCHANGED <<run, sent, faults>>

CancelRunning(j) ==
  /\ jobs[j].status \in {"pending", "running"}
  /\ jobs' = [jobs EXCEPT ![j].status = "cancelled"]
  /\ UNCHANGED <<run, sent, faults>>

(* cancel: only while the row is pending at the time of the UPDATE,        *)
(* whatever it was when the request was authorised.                        *)
Cancel(j) ==
  /\ jobs[j].status = "pending"
  /\ jobs' = [jobs EXCEPT ![j].status = "cancelled"]
  /\ UNCHANGED <<run, sent, faults>>

SweptNever(j) == jobs[j]

(* The first statement of claim: a lease that ran out sends a reading job  *)
(* back to the queue and makes every other job's outcome unknown.          *)
Swept(j) ==
  IF jobs[j].status = "running" /\ jobs[j].lease = 0
  THEN [jobs[j] EXCEPT
          !.status = IF j \in Recoverable /\ ~jobs[j].accepted THEN "pending" ELSE "unknown",
          !.owner = Nobody]
  ELSE jobs[j]

(* Attempts are compared with MaxAttempts only, so counting stops once     *)
(* they exceed it; a swept job may be claimed any number of times.         *)
Attempted(n) == IF n > MaxAttempts THEN n ELSE n + 1

(* claim: one immediate transaction sweeps expired leases and takes a due  *)
(* pending job, if there is one.  The code takes the one due first; any    *)
(* due job is allowed here.                                                *)
Claim(w) ==
  LET swept == [j \in Job |-> Swept(j)]
      due == {j \in Job : swept[j].status = "pending" /\ swept[j].due = 0}
  IN  /\ run[w].phase = "idle"
      /\ \/ \E j \in due :
              /\ jobs' = [swept EXCEPT ![j].status = "running",
                                       ![j].attempts = Attempted(swept[j].attempts),
                                       ![j].owner = w,
                                       ![j].lease = LeaseTicks]
              /\ run' = [run EXCEPT ![w] = [Idle EXCEPT
                           !.phase = "handling", !.job = j,
                           !.attempt = Attempted(swept[j].attempts),
                           !.accepted = swept[j].accepted]]
         \/ /\ due = {}
            /\ jobs' = swept
            /\ run' = run
      /\ UNCHANGED <<sent, faults>>

(* The heartbeat timer extends the lease, even one that has just run out   *)
(* if nobody swept it; otherwise it aborts the handler's signal.           *)
Heartbeat(w) ==
  /\ run[w].phase = "handling"
  /\ \/ /\ Fenced(w)
        /\ jobs' = [jobs EXCEPT ![run[w].job].lease = LeaseTicks]
        /\ run' = run
     \/ /\ ~Fenced(w)
        /\ run' = [run EXCEPT ![w].aborted = TRUE]
        /\ jobs' = jobs
  /\ UNCHANGED <<sent, faults>>

-----------------------------------------------------------------------------
(* The handler, as the environment.                                        *)

(* The transport accepts the handler's operation.  A handler submits once  *)
(* per run, and does not look at the abort signal first (externalSend).    *)
Submit(w) ==
  LET j == run[w].job IN
  /\ run[w].phase = "handling"
  /\ j \in Delivery
  /\ ~run[w].submitted
  /\ sent' = [sent EXCEPT ![j] = @ + 1]
  /\ run' = [run EXCEPT ![w].submitted = TRUE]
  /\ UNCHANGED <<jobs, faults>>

Accepted(w) ==
  [jobs EXCEPT ![run[w].job].accepted = @ \/ Fenced(w)]

(* The handler calls markAccepted once the transport has accepted.         *)
MarkAccepted(w) ==
  /\ run[w].phase = "handling"
  /\ run[w].submitted
  /\ ~run[w].accepted
  /\ jobs' = Accepted(w)
  /\ run' = [run EXCEPT ![w].accepted = TRUE]
  /\ UNCHANGED <<sent, faults>>

EndsWith(w, verdict, delay) ==
  run' = [run EXCEPT ![w] = [Idle EXCEPT !.phase = "settling", !.job = run[w].job,
                                         !.verdict = verdict, !.delay = delay]]

(* The handler returns a status; anything but accepted and completed is    *)
(* taken as unknown.  It reports "accepted" only of what the transport     *)
(* accepted, which is then marked like markAccepted; it may report         *)
(* "completed" without having submitted anything.                          *)
Return(w, s) ==
  /\ run[w].phase = "handling"
  /\ s = "accepted" => run[w].submitted \/ run[w].job \in Recoverable
  /\ EndsWith(w, s, 0)
  /\ jobs' = IF s = "accepted" THEN Accepted(w) ELSE jobs
  /\ UNCHANGED <<sent, faults>>

BackoffUncapped(n) == 2 ^ n

(* The delay before a retry: doubled with every attempt, capped.           *)
Backoff(n) ==
  LET d == 2 ^ (n - 1) IN IF d \in Delay THEN d ELSE MaxDelay

VerdictRetrying(w, uncertain, retryable) ==
  IF retryable /\ run[w].attempt < MaxAttempts THEN "pending"
  ELSE IF run[w].accepted \/ uncertain THEN "unknown" ELSE "failed"

(* What an exception makes of the job.                                     *)
VerdictOfError(w, uncertain, retryable) ==
  IF run[w].accepted \/ uncertain THEN "unknown"
  ELSE IF retryable /\ run[w].attempt < MaxAttempts THEN "pending" ELSE "failed"

(* The handler throws.  An error raised after the transport accepted is    *)
(* marked uncertain unless acceptance was marked before.                   *)
Throw(w, uncertain, retryable) ==
  /\ run[w].phase = "handling"
  /\ run[w].submitted => uncertain \/ run[w].accepted
  /\ LET v == VerdictOfError(w, uncertain, retryable)
     IN  EndsWith(w, v, IF v = "pending" THEN Backoff(run[w].attempt) ELSE 0)
  /\ UNCHANGED <<jobs, sent, faults>>

HandlerEnds(w) ==
  \/ \E s \in {"accepted", "completed", "unknown"} : Return(w, s)
  \/ \E uncertain, retryable \in BOOLEAN : Throw(w, uncertain, retryable)

-----------------------------------------------------------------------------

(* The final UPDATE of runDue, effective only under the worker's lease.    *)
Settle(w) ==
  /\ run[w].phase = "settling"
  /\ jobs' = IF Fenced(w)
             THEN [jobs EXCEPT ![run[w].job] = [@ EXCEPT
                     !.status = run[w].verdict, !.due = run[w].delay,
                     !.owner = Nobody, !.lease = 0]]
             ELSE jobs
  /\ run' = [run EXCEPT ![w] = Idle]
  /\ UNCHANGED <<sent, faults>>

(* A process dies and is started again.  Its new worker identity differs   *)
(* in the code; nothing it does refers to the old run.                     *)
Crash(w) ==
  /\ run[w].phase # "idle"
  /\ faults < MaxFaults
  /\ run' = [run EXCEPT ![w] = Idle]
  /\ faults' = faults + 1
  /\ UNCHANGED <<jobs, sent>>

Elapsed(n) == IF n > 0 THEN n - 1 ELSE 0

Aged == [j \in Job |-> [jobs[j] EXCEPT !.due = Elapsed(jobs[j].due),
                                       !.lease = Elapsed(jobs[j].lease)]]

(* The lease of a live worker is about to run out.                         *)
Starved == \E w \in Worker :
             run[w].phase # "idle" /\ Fenced(w) /\ jobs[run[w].job].lease = 1

(* Time passes.  Heartbeats are three times as frequent as leases are      *)
(* long, so a lease runs out under a live worker only in a stall: a        *)
(* suspended process, a blocked event loop or an unreachable database.     *)
Tick ==
  /\ ~Starved
  /\ jobs' = Aged
  /\ UNCHANGED <<run, sent, faults>>

Stall ==
  /\ Starved
  /\ faults < MaxFaults
  /\ jobs' = Aged
  /\ faults' = faults + 1
  /\ UNCHANGED <<run, sent>>

WorkerStep(w) ==
  \/ Claim(w)
  \/ Heartbeat(w)
  \/ Submit(w)
  \/ MarkAccepted(w)
  \/ HandlerEnds(w)
  \/ Settle(w)
  \/ Crash(w)

Next ==
  \/ \E j \in Job : (\E delay \in Delay : Enqueue(j, delay)) \/ Cancel(j)
  \/ \E w \in Worker : WorkerStep(w)
  \/ Tick
  \/ Stall

(***************************************************************************)
(* Fairness: the polling timer of some process keeps claiming, timers of   *)
(* live processes fire, handlers end (provider requests are bounded by the *)
(* HTTP timeout), a worker stores its verdict, and time passes.  Nothing   *)
(* is assumed of users.                                                    *)
(***************************************************************************)
Fairness ==
  /\ WF_vars(\E w \in Worker : Claim(w))
  /\ \A w \in Worker : WF_vars(Heartbeat(w)) /\ WF_vars(HandlerEnds(w)) /\ WF_vars(Settle(w))
  /\ WF_vars(Tick)

Spec == Init /\ [][Next]_vars

FairSpec == Spec /\ Fairness

-----------------------------------------------------------------------------
(* No job is accepted by the transport twice, across crashes, stalled      *)
(* workers that wake up late, retries and cancellations.                   *)
AtMostOneDelivery == \A j \in Delivery : sent[j] <= 1

(* A job shown as failed or cancelled, or still waiting, was never         *)
(* accepted by the transport: sending its message anew cannot duplicate it.*)
SafeToResend ==
  \A j \in Delivery :
    jobs[j].status \in {"pending", "failed", "cancelled"} => sent[j] = 0

(* A delivery job is never run more often than its retry budget allows.    *)
(* (Jobs that only read may be, when leases expire.)                       *)
DeliveryAttemptsBounded ==
  \A j \in Delivery : jobs[j].attempts <= MaxAttempts

(* The statuses docs/BACKGROUND.md calls terminal are: nothing a stale     *)
(* worker, a sweep or a user does changes them.                            *)
TerminalStays ==
  [][\A j \in Job :
       jobs[j].status \in Terminal => jobs'[j].status = jobs[j].status]_vars

(* A running job is taken from its lease owner only after the lease ran    *)
(* out; otherwise it changes to the verdict of the owner's own run.        *)
OnlyOwnerSettles ==
  [][\A j \in Job :
       LET w == jobs[j].owner IN
       jobs[j].status = "running" /\ jobs'[j].status # "running" =>
         \/ jobs[j].lease = 0
         \/ /\ run[w].phase = "settling"
            /\ run[w].job = j
            /\ run[w].verdict = jobs'[j].status]_vars

(* A handler submits nothing after its abort signal was raised, as         *)
(* docs/BACKGROUND.md asks of handlers: a job that is being shown as       *)
(* unknown is not sent after all.  The code does not keep this (README,    *)
(* known divergences).                                                     *)
AbortHonoured ==
  [][\A w \in Worker : run[w].aborted => run'[w].submitted = run[w].submitted
                                       \/ run'[w].phase # "handling"]_vars

(* Every job that was queued settles, once faults stop.                    *)
EveryJobSettles ==
  \A j \in Job : jobs[j].status \in {"pending", "running"} ~> jobs[j].status \in Terminal

(* The queue keeps the promise of SubmissionPromise for its deliveries.    *)
VerdictOf(j) ==
  CASE jobs[j].status \in {"absent", "pending", "running"} -> "open"
    [] jobs[j].status = "accepted" -> "delivered"
    [] jobs[j].status = "completed" -> "finished"
    [] jobs[j].status \in {"failed", "cancelled"} -> "rejected"
    [] jobs[j].status = "unknown" -> "ambiguous"

Promise == INSTANCE SubmissionPromise WITH
  Operation <- Delivery,
  verdict <- [j \in Delivery |-> VerdictOf(j)],
  sent <- [j \in Delivery |-> sent[j]]

KeepsPromise == Promise!Spec

=============================================================================
