------------------------ MODULE DurableScheduler_proofs ------------------------
(***************************************************************************)
(* Proofs about the job queue of src/backend/jobs.js, for any set of jobs  *)
(* and processes, any lease, retry budget and delay, and any number of     *)
(* crashes and stalls.                                                     *)
(***************************************************************************)
EXTENDS DurableScheduler, TLAPS

Busy(w, j) == run[w].phase # "idle" /\ run[w].job = j

(* A worker that is busy with a delivery owns its row, unless its lease    *)
(* ran out; then the outcome is unknown for good.                          *)
OwnedOrUnknown(j) ==
  \A w \in Worker :
    Busy(w, j) => \/ jobs[j].status = "running" /\ jobs[j].owner = w
                  \/ jobs[j].status = "unknown"

(* At most one worker is busy with a delivery, even after a sweep.         *)
OneBusy(j) == \A v, w \in Worker : Busy(v, j) /\ Busy(w, j) => v = w

(* What the table says of a delivery agrees with the transport, and a      *)
(* delivery that is queued has a run left in its budget.                   *)
RowTruthful(j) ==
  /\ sent[j] <= 1
  /\ jobs[j].status \in {"absent", "pending", "failed", "cancelled"} => sent[j] = 0
  /\ jobs[j].status = "accepted" => sent[j] = 1
  /\ jobs[j].attempts <= MaxAttempts
  /\ jobs[j].status \in {"absent", "pending"} => jobs[j].attempts < MaxAttempts

(* While a worker awaits the handler it knows whether the transport has    *)
(* accepted the delivery.                                                  *)
HandlingTruthful(j) ==
  \A w \in Worker : run[w].phase = "handling" /\ run[w].job = j =>
    /\ ~run[w].submitted => sent[j] = 0
    /\ run[w].submitted => sent[j] = 1
    /\ run[w].attempt = jobs[j].attempts

(* So its verdict is truthful.                                             *)
SettlingTruthful(j) ==
  \A w \in Worker : run[w].phase = "settling" /\ run[w].job = j =>
    /\ run[w].verdict \in {"pending", "failed", "completed", "accepted", "unknown"}
    /\ run[w].verdict \in {"pending", "failed"} => sent[j] = 0
    /\ run[w].verdict = "accepted" => sent[j] = 1
    /\ run[w].verdict = "pending" => jobs[j].attempts < MaxAttempts

DeliveryInv(j) ==
  OwnedOrUnknown(j) /\ OneBusy(j) /\ RowTruthful(j) /\ HandlingTruthful(j) /\ SettlingTruthful(j)

IInv == TypeOK /\ \A j \in Delivery : DeliveryInv(j)

-----------------------------------------------------------------------------

(* Counting down stays within the bound.                                   *)
LEMMA ElapsedBound ==
  /\ \A n \in Delay : Elapsed(n) \in Delay
  /\ \A n \in Left : Elapsed(n) \in Left
BY SchedulerAssumption DEF Elapsed, Delay, Left

(* The retry delay is capped.                                              *)
LEMMA BackoffBound == \A n : Backoff(n) \in Delay
<1>1. MaxDelay \in Delay
  BY SchedulerAssumption DEF Delay
<1> QED BY <1>1 DEF Backoff

(* The statuses, and the bounds, are what they should be.                  *)
LEMMA Constants ==
  /\ Status = {"absent", "pending", "running", "completed", "accepted", "unknown",
               "failed", "cancelled"}
  /\ 0 \in Delay /\ 0 \in Left /\ LeaseTicks \in Left
  /\ "idle" \in Phase /\ "handling" \in Phase /\ "settling" \in Phase
BY SchedulerAssumption DEF Status, Terminal, Delay, Left, Phase

(* A worker without a job.                                                 *)
LEMMA IdleType == Idle \in Run
BY Constants DEF Idle, Run

(* Sweeping and ageing keep the type of a row.                             *)
LEMMA RowSteps ==
  ASSUME jobs \in [Job -> Row], NEW j \in Job
  PROVE  /\ Swept(j) \in Row
         /\ [jobs[j] EXCEPT !.due = Elapsed(jobs[j].due),
                            !.lease = Elapsed(jobs[j].lease)] \in Row
BY Constants, ElapsedBound DEF Swept, Row

(* Recording the acceptance keeps the type of the table.                   *)
LEMMA AcceptedType ==
  ASSUME jobs \in [Job -> Row], NEW w \in Worker, run[w].job \in Job \cup {NoJob}
  PROVE  Accepted(w) \in [Job -> Row]
<1>1. Fenced(w) \in BOOLEAN
  BY DEF Fenced
<1>2. CASE run[w].job \in Job
  <2>1. [jobs[run[w].job] EXCEPT !.accepted = @ \/ Fenced(w)] \in Row
    BY <1>1, <1>2 DEF Row
  <2> QED BY <1>2, <2>1 DEF Accepted
<1>3. CASE run[w].job = NoJob
  BY <1>3, SchedulerAssumption DEF Accepted
<1> QED BY <1>2, <1>3

(* So does ending the handler with a verdict.                              *)
LEMMA EndsWithType ==
  ASSUME run \in [Worker -> Run], NEW w \in Worker,
         NEW v \in Status, NEW d \in Delay, EndsWith(w, v, d)
  PROVE  run' \in [Worker -> Run]
<1>1. run[w].job \in Job \cup {NoJob}
  BY DEF Run
<1>2. [Idle EXCEPT !.phase = "settling", !.job = run[w].job,
                   !.verdict = v, !.delay = d] \in Run
  BY <1>1, Constants, IdleType DEF Run
<1> QED BY <1>2 DEF EndsWith

(* A verdict on an error is a status a job can have.                       *)
LEMMA VerdictRange ==
  ASSUME NEW w, NEW u \in BOOLEAN, NEW r \in BOOLEAN
  PROVE  VerdictOfError(w, u, r) \in {"pending", "unknown", "failed"}
BY DEF VerdictOfError

(* The empty queue satisfies the invariant.                                *)
LEMMA InitInv == Init => IInv
<1> SUFFICES ASSUME Init PROVE IInv
  OBVIOUS
<1>1. TypeOK
  BY SchedulerAssumption, Constants, IdleType DEF Init, TypeOK, NoRow, Row
<1>2. ASSUME NEW j \in Delivery PROVE DeliveryInv(j)
  <2>1. jobs[j].status = "absent" /\ jobs[j].attempts = 0 /\ sent[j] = 0
    BY DEF Init, NoRow, Delivery
  <2>2. \A w \in Worker : run[w].phase = "idle"
    BY DEF Init, Idle
  <2> QED BY <2>1, <2>2, SchedulerAssumption
          DEF DeliveryInv, OwnedOrUnknown, OneBusy, RowTruthful, HandlingTruthful,
              SettlingTruthful, Busy
<1> QED BY <1>1, <1>2 DEF IInv

(* Every step keeps the types.                                             *)
LEMMA TypeStep == TypeOK /\ [Next]_vars => TypeOK'
<1> SUFFICES ASSUME TypeOK, [Next]_vars PROVE TypeOK'
  OBVIOUS
<1> USE DEF TypeOK
<1>0. \A w \in Worker : run[w].job \in Job \cup {NoJob}
  BY DEF Run
<1>1. ASSUME NEW j \in Job, NEW delay \in Delay, Enqueue(j, delay) PROVE TypeOK'
  <2>1. [jobs[j] EXCEPT !.status = "pending", !.due = delay] \in Row
    BY <1>1, Constants DEF Row
  <2> QED BY <1>1, <2>1 DEF Enqueue
<1>2. ASSUME NEW j \in Job, Cancel(j) PROVE TypeOK'
  <2>1. [jobs[j] EXCEPT !.status = "cancelled"] \in Row
    BY <1>2, Constants DEF Row
  <2> QED BY <1>2, <2>1 DEF Cancel
<1>3. ASSUME NEW w \in Worker, WorkerStep(w) PROVE TypeOK'
  <2>1. CASE Claim(w)
    <3> DEFINE swept == [j \in Job |-> Swept(j)]
    <3>1. swept \in [Job -> Row]
      BY RowSteps
    <3>2. \A n \in Nat : Attempted(n) \in Nat
      BY DEF Attempted
    <3> HIDE DEF swept
    <3>3. ASSUME NEW j \in Job,
                 jobs' = [swept EXCEPT ![j].status = "running",
                                       ![j].attempts = Attempted(swept[j].attempts),
                                       ![j].owner = w,
                                       ![j].lease = LeaseTicks],
                 run' = [run EXCEPT ![w] = [Idle EXCEPT
                           !.phase = "handling", !.job = j,
                           !.attempt = Attempted(swept[j].attempts),
                           !.accepted = swept[j].accepted]]
          PROVE  jobs' \in [Job -> Row] /\ run' \in [Worker -> Run]
      <4>1. Attempted(swept[j].attempts) \in Nat /\ swept[j].accepted \in BOOLEAN
        BY <3>1, <3>2 DEF Row
      <4>2. jobs' \in [Job -> Row]
        <5>1. [swept[j] EXCEPT !.status = "running",
                               !.attempts = Attempted(swept[j].attempts),
                               !.owner = w, !.lease = LeaseTicks] \in Row
          BY <3>1, <4>1, Constants DEF Row
        <5> QED BY <3>1, <3>3, <5>1
      <4>3. run' \in [Worker -> Run]
        BY <3>3, <4>1, IdleType, Constants DEF Run
      <4> QED BY <4>2, <4>3
    <3>4. CASE jobs' = swept /\ run' = run
      BY <3>1, <3>4, <2>1 DEF Claim
    <3>5. jobs' \in [Job -> Row] /\ run' \in [Worker -> Run]
      BY <2>1, <3>1, <3>3, <3>4 DEF Claim, swept
    <3> QED BY <2>1, <3>5 DEF Claim
  <2>2. CASE Heartbeat(w)
    <3>1. jobs' \in [Job -> Row]
      <4>1. Fenced(w) => [jobs[run[w].job] EXCEPT !.lease = LeaseTicks] \in Row
        BY Constants DEF Fenced, Row
      <4> QED BY <2>2, <4>1 DEF Heartbeat, Fenced
    <3>2. run' \in [Worker -> Run]
      <4>1. [run[w] EXCEPT !.aborted = TRUE] \in Run
        BY DEF Run
      <4> QED BY <2>2, <4>1 DEF Heartbeat
    <3> QED BY <2>2, <3>1, <3>2 DEF Heartbeat
  <2>3. CASE Submit(w)
    <3>1. run' \in [Worker -> Run]
      <4>1. [run[w] EXCEPT !.submitted = TRUE] \in Run
        BY DEF Run
      <4> QED BY <2>3, <4>1 DEF Submit
    <3>2. sent' \in [Job -> Nat]
      BY <2>3 DEF Submit, Delivery
    <3> QED BY <2>3, <3>1, <3>2 DEF Submit
  <2>4. CASE MarkAccepted(w)
    <3>1. jobs' \in [Job -> Row]
      BY <1>0, <2>4, AcceptedType DEF MarkAccepted
    <3>2. run' \in [Worker -> Run]
      <4>1. [run[w] EXCEPT !.accepted = TRUE] \in Run
        BY DEF Run
      <4> QED BY <2>4, <4>1 DEF MarkAccepted
    <3> QED BY <2>4, <3>1, <3>2 DEF MarkAccepted
  <2>5. CASE HandlerEnds(w)
    <3>1. ASSUME NEW s \in {"accepted", "completed", "unknown"}, Return(w, s) PROVE TypeOK'
      <4>1. jobs' \in [Job -> Row]
        BY <1>0, <3>1, AcceptedType DEF Return
      <4>2. run' \in [Worker -> Run]
        BY <3>1, EndsWithType, Constants DEF Return
      <4> QED BY <3>1, <4>1, <4>2 DEF Return
    <3>2. ASSUME NEW u \in BOOLEAN, NEW r \in BOOLEAN, Throw(w, u, r) PROVE TypeOK'
      <4>1. run' \in [Worker -> Run]
        BY <3>2, VerdictRange, BackoffBound, EndsWithType, Constants DEF Throw
      <4> QED BY <3>2, <4>1 DEF Throw
    <3> QED BY <2>5, <3>1, <3>2 DEF HandlerEnds
  <2>6. CASE Settle(w)
    <3>1. ASSUME Fenced(w) PROVE jobs' \in [Job -> Row]
      <4>1. /\ run[w].job \in Job
            /\ run[w].verdict \in Status
            /\ run[w].delay \in Delay
        BY <3>1 DEF Fenced, Run
      <4>2. [jobs[run[w].job] EXCEPT !.status = run[w].verdict, !.due = run[w].delay,
                                     !.owner = Nobody, !.lease = 0] \in Row
        <5>1. jobs[run[w].job] \in Row
          BY <4>1
        <5> HIDE DEF TypeOK
        <5> QED BY <4>1, <5>1, Constants DEF Row
      <4> QED BY <2>6, <3>1, <4>1, <4>2 DEF Settle
    <3>2. run' \in [Worker -> Run]
      BY <2>6, IdleType DEF Settle
    <3> QED BY <2>6, <3>1, <3>2 DEF Settle
  <2>7. CASE Crash(w)
    BY <2>7, IdleType DEF Crash
  <2> QED BY <1>3, <2>1, <2>2, <2>3, <2>4, <2>5, <2>6, <2>7 DEF WorkerStep
<1>4. CASE Tick \/ Stall
  <2>1. Aged \in [Job -> Row]
    BY RowSteps DEF Aged
  <2> QED BY <1>4, <2>1 DEF Tick, Stall
<1>5. CASE UNCHANGED vars
  BY <1>5 DEF vars
<1> QED BY <1>1, <1>2, <1>3, <1>4, <1>5 DEF Next

(* A step that leaves alone what the invariant says of a delivery, except  *)
(* that workers may drop it or a sweep may make its outcome unknown.       *)
LEMMA Untouched ==
  ASSUME NEW j \in Delivery, DeliveryInv(j),
         sent'[j] = sent[j],
         jobs'[j].attempts = jobs[j].attempts,
         \/ jobs'[j].status = jobs[j].status /\ jobs'[j].owner = jobs[j].owner
         \/ jobs[j].status = "running" /\ jobs'[j].status = "unknown",
         \A w \in Worker : Busy(w, j)' =>
           /\ run'[w].phase = run[w].phase /\ run'[w].job = run[w].job
           /\ run'[w].submitted = run[w].submitted /\ run'[w].attempt = run[w].attempt
           /\ run'[w].verdict = run[w].verdict
  PROVE  DeliveryInv(j)'
<1> USE DEF DeliveryInv
<1>1. \A w \in Worker : Busy(w, j)' => Busy(w, j)
  BY DEF Busy
<1>2. OwnedOrUnknown(j)' /\ OneBusy(j)'
  BY <1>1 DEF OwnedOrUnknown, OneBusy
<1>3. RowTruthful(j)'
  BY DEF RowTruthful
<1>4. HandlingTruthful(j)'
  BY DEF HandlingTruthful, Busy
<1>5. SettlingTruthful(j)'
  BY DEF SettlingTruthful, Busy
<1> QED BY <1>2, <1>3, <1>4, <1>5

(* The handler's end keeps the invariant of a delivery if the verdict is   *)
(* truthful.                                                               *)
LEMMA Ended ==
  ASSUME NEW j \in Delivery, DeliveryInv(j), run \in [Worker -> Run],
         NEW w \in Worker, run[w].phase = "handling",
         NEW v \in {"pending", "failed", "completed", "accepted", "unknown"}, NEW d,
         EndsWith(w, v, d),
         run[w].job = j =>
           /\ v \in {"pending", "failed"} => sent[j] = 0
           /\ v = "accepted" => sent[j] = 1
           /\ v = "pending" => jobs[j].attempts < MaxAttempts,
         sent'[j] = sent[j],
         jobs'[j].status = jobs[j].status, jobs'[j].owner = jobs[j].owner,
         jobs'[j].attempts = jobs[j].attempts
  PROVE  DeliveryInv(j)'
<1>1. /\ run'[w].phase = "settling" /\ run'[w].job = run[w].job /\ run'[w].verdict = v
      /\ \A x \in Worker \ {w} : run'[x] = run[x]
  BY DEF EndsWith, Idle
<1>2. \A x \in Worker : Busy(x, j)' <=> Busy(x, j)
  BY <1>1 DEF Busy
<1>3. OwnedOrUnknown(j)' /\ OneBusy(j)'
  BY <1>2 DEF DeliveryInv, OwnedOrUnknown, OneBusy
<1>4. RowTruthful(j)'
  BY DEF DeliveryInv, RowTruthful
<1>5. HandlingTruthful(j)'
  BY <1>1 DEF DeliveryInv, HandlingTruthful
<1>6. SettlingTruthful(j)'
  BY <1>1 DEF DeliveryInv, SettlingTruthful
<1> QED BY <1>3, <1>4, <1>5, <1>6 DEF DeliveryInv

(* Every step keeps the strengthened invariant: one case per action, and   *)
(* in each the deliveries the step is not about are untouched.             *)
LEMMA StepInv == IInv /\ [Next]_vars => IInv'
<1> SUFFICES ASSUME IInv, [Next]_vars PROVE IInv'
  OBVIOUS
<1>1. TypeOK /\ TypeOK'
  BY TypeStep DEF IInv
<1>2. \A j \in Delivery : j \in Job /\ j \notin Recoverable /\ DeliveryInv(j)
  BY DEF IInv, Delivery
<1>3. SUFFICES ASSUME NEW j \in Delivery PROVE DeliveryInv(j)'
  BY <1>1 DEF IInv
<1>4. j \in Job /\ j \notin Recoverable /\ DeliveryInv(j)
  BY <1>2
<1>5. /\ jobs[j] \in Row /\ jobs \in [Job -> Row]
      /\ run \in [Worker -> Run]
      /\ sent \in [Job -> Nat]
  BY <1>1, <1>4 DEF TypeOK
<1>6. ASSUME NEW i \in Job, NEW delay \in Delay, Enqueue(i, delay) PROVE DeliveryInv(j)'
  <2>1. CASE i # j
    BY <1>4, <1>5, <1>6, <2>1, Untouched DEF Enqueue
  <2>2. CASE i = j
    <3>1. /\ jobs'[j].status = "pending" /\ jobs'[j].attempts = jobs[j].attempts
          /\ jobs[j].status = "absent" /\ run' = run /\ sent' = sent
      BY <1>4, <1>5, <1>6, <2>2 DEF Enqueue, Row
    <3>2. \A w \in Worker : ~Busy(w, j)
      BY <1>4, <3>1 DEF DeliveryInv, OwnedOrUnknown
    <3> QED BY <1>4, <3>1, <3>2
            DEF DeliveryInv, OwnedOrUnknown, OneBusy, RowTruthful, HandlingTruthful,
                SettlingTruthful, Busy
  <2> QED BY <2>1, <2>2
<1>7. ASSUME NEW i \in Job, Cancel(i) PROVE DeliveryInv(j)'
  <2>1. CASE i # j
    BY <1>4, <1>5, <1>7, <2>1, Untouched DEF Cancel
  <2>2. CASE i = j
    <3>1. /\ jobs'[j].status = "cancelled" /\ jobs'[j].attempts = jobs[j].attempts
          /\ jobs[j].status = "pending" /\ run' = run /\ sent' = sent
      BY <1>4, <1>5, <1>7, <2>2 DEF Cancel, Row
    <3>2. \A w \in Worker : ~Busy(w, j)
      BY <1>4, <3>1 DEF DeliveryInv, OwnedOrUnknown
    <3> QED BY <1>4, <3>1, <3>2
            DEF DeliveryInv, OwnedOrUnknown, OneBusy, RowTruthful, HandlingTruthful,
                SettlingTruthful, Busy
  <2> QED BY <2>1, <2>2
<1>8. ASSUME NEW w \in Worker, WorkerStep(w) PROVE DeliveryInv(j)'
  <2>1. CASE Claim(w)
    <3> DEFINE swept == [k \in Job |-> Swept(k)]
    <3>1. /\ swept[j].attempts = jobs[j].attempts
          /\ \/ swept[j].status = jobs[j].status /\ swept[j].owner = jobs[j].owner
             \/ jobs[j].status = "running" /\ swept[j].status = "unknown"
      BY <1>4, <1>5 DEF Swept, Row
    <3>2. swept \in [Job -> Row] /\ swept[j] \in Row
      BY <1>4, <1>5, RowSteps
    <3> HIDE DEF swept
    <3>3. sent' = sent
      BY <2>1 DEF Claim
    <3>4. ASSUME NEW i \in Job, swept[i].status = "pending",
                 jobs' = [swept EXCEPT ![i].status = "running",
                                       ![i].attempts = Attempted(swept[i].attempts),
                                       ![i].owner = w,
                                       ![i].lease = LeaseTicks],
                 run' = [run EXCEPT ![w] = [Idle EXCEPT
                           !.phase = "handling", !.job = i,
                           !.attempt = Attempted(swept[i].attempts),
                           !.accepted = swept[i].accepted]]
          PROVE  DeliveryInv(j)'
      <4>1. /\ run'[w].phase = "handling" /\ run'[w].job = i /\ run'[w].submitted = FALSE
            /\ run'[w].attempt = Attempted(swept[i].attempts)
            /\ \A v \in Worker \ {w} : run'[v] = run[v]
        BY <1>5, <3>4 DEF Idle
      <4>2. CASE i # j
        <5>1. jobs'[j] = swept[j]
          BY <1>4, <3>2, <3>4, <4>2
        <5>2. \A v \in Worker : Busy(v, j)' => run'[v] = run[v]
          BY <4>1, <4>2 DEF Busy
        <5> QED BY <1>4, <3>1, <3>3, <5>1, <5>2, Untouched
      <4>3. CASE i = j
        <5>1. /\ jobs'[j].status = "running" /\ jobs'[j].owner = w
              /\ jobs'[j].attempts = Attempted(jobs[j].attempts)
          BY <1>4, <3>1, <3>2, <3>4, <4>3 DEF Row
        <5>2. jobs[j].status = "pending"
          BY <3>1, <3>4, <4>3
        <5>3. \A v \in Worker : ~Busy(v, j)
          BY <1>4, <5>2 DEF DeliveryInv, OwnedOrUnknown
        <5>4. \A v \in Worker : Busy(v, j)' => v = w
          BY <4>1, <5>3 DEF Busy
        <5>5. sent[j] = 0 /\ jobs[j].attempts < MaxAttempts
          BY <1>4, <5>2 DEF DeliveryInv, RowTruthful
        <5>6. jobs[j].attempts \in Nat /\ jobs'[j].attempts = jobs[j].attempts + 1
          BY <1>5, <5>1, <5>5, SchedulerAssumption DEF Attempted, Row
        <5>7. run'[w].attempt = jobs'[j].attempts
          BY <3>1, <4>1, <4>3, <5>1
        <5>8. OwnedOrUnknown(j)' /\ OneBusy(j)'
          BY <5>1, <5>4 DEF OwnedOrUnknown, OneBusy
        <5>9. RowTruthful(j)'
          BY <3>3, <5>1, <5>5, <5>6, SchedulerAssumption DEF RowTruthful
        <5>10. HandlingTruthful(j)' /\ SettlingTruthful(j)'
          BY <3>3, <4>1, <5>4, <5>5, <5>7 DEF HandlingTruthful, SettlingTruthful, Busy
        <5> QED BY <5>8, <5>9, <5>10 DEF DeliveryInv
      <4> QED BY <4>2, <4>3
    <3>5. CASE jobs' = swept /\ run' = run
      BY <1>4, <3>1, <3>3, <3>5, Untouched
    <3> QED BY <2>1, <3>4, <3>5 DEF Claim, swept
  <2>2. CASE Heartbeat(w)
    <3>1. /\ jobs'[j].status = jobs[j].status /\ jobs'[j].owner = jobs[j].owner
          /\ jobs'[j].attempts = jobs[j].attempts /\ sent' = sent
      BY <1>4, <1>5, <2>2 DEF Heartbeat, Fenced, Row
    <3>2. \A v \in Worker :
            /\ run'[v].phase = run[v].phase /\ run'[v].job = run[v].job
            /\ run'[v].submitted = run[v].submitted /\ run'[v].attempt = run[v].attempt
            /\ run'[v].verdict = run[v].verdict
      BY <1>5, <2>2 DEF Heartbeat, Run
    <3> QED BY <1>4, <3>1, <3>2, Untouched
  <2>3. CASE Submit(w)
    <3>1. jobs' = jobs
      BY <2>3 DEF Submit
    <3>2. CASE run[w].job # j
      <4>1. sent'[j] = sent[j]
        BY <1>4, <1>5, <2>3, <3>2 DEF Submit, Delivery
      <4>2. \A v \in Worker : Busy(v, j)' => run'[v] = run[v]
        BY <1>5, <2>3, <3>2 DEF Submit, Busy, Run
      <4> QED BY <1>4, <3>1, <4>1, <4>2, Untouched
    <3>3. CASE run[w].job = j
      <4>1. /\ run[w].phase = "handling" /\ run[w].submitted = FALSE /\ Busy(w, j)
            /\ sent'[j] = sent[j] + 1
        BY <1>4, <1>5, <2>3, <3>3 DEF Submit, Busy, Run
      <4>2. /\ run'[w].phase = "handling" /\ run'[w].job = j /\ run'[w].submitted = TRUE
            /\ run'[w].attempt = run[w].attempt
            /\ \A v \in Worker \ {w} : run'[v] = run[v]
        BY <1>5, <2>3, <3>3 DEF Submit, Run
      <4>3. sent[j] = 0 /\ sent'[j] = 1 /\ run[w].attempt = jobs[j].attempts
        BY <1>4, <3>3, <4>1 DEF DeliveryInv, HandlingTruthful
      <4>4. \A v \in Worker : Busy(v, j)' => v = w
        BY <1>4, <4>1, <4>2 DEF DeliveryInv, OneBusy, Busy
      <4>5. jobs[j].status \in {"running", "unknown"}
        BY <1>4, <4>1 DEF DeliveryInv, OwnedOrUnknown
      <4>6. OwnedOrUnknown(j)' /\ OneBusy(j)'
        BY <1>4, <3>1, <4>1, <4>4 DEF DeliveryInv, OwnedOrUnknown, OneBusy
      <4>7. RowTruthful(j)'
        BY <1>4, <3>1, <4>3, <4>5 DEF DeliveryInv, RowTruthful
      <4>8. HandlingTruthful(j)' /\ SettlingTruthful(j)'
        BY <3>1, <4>2, <4>3, <4>4 DEF HandlingTruthful, SettlingTruthful, Busy
      <4> QED BY <4>6, <4>7, <4>8 DEF DeliveryInv
    <3> QED BY <3>2, <3>3
  <2>4. CASE MarkAccepted(w)
    <3>1. /\ jobs'[j].status = jobs[j].status /\ jobs'[j].owner = jobs[j].owner
          /\ jobs'[j].attempts = jobs[j].attempts /\ sent' = sent
      BY <1>4, <1>5, <2>4 DEF MarkAccepted, Accepted, Row
    <3>2. \A v \in Worker :
            /\ run'[v].phase = run[v].phase /\ run'[v].job = run[v].job
            /\ run'[v].submitted = run[v].submitted /\ run'[v].attempt = run[v].attempt
            /\ run'[v].verdict = run[v].verdict
      BY <1>5, <2>4 DEF MarkAccepted, Run
    <3> QED BY <1>4, <3>1, <3>2, Untouched
  <2>5. CASE HandlerEnds(w)
    <3>1. ASSUME NEW s \in {"accepted", "completed", "unknown"}, Return(w, s)
          PROVE  DeliveryInv(j)'
      <4>1. /\ jobs'[j].status = jobs[j].status /\ jobs'[j].owner = jobs[j].owner
            /\ jobs'[j].attempts = jobs[j].attempts /\ sent' = sent
        BY <1>4, <1>5, <3>1 DEF Return, Accepted, Row
      <4>2. run[w].phase = "handling" /\ EndsWith(w, s, 0)
        BY <3>1 DEF Return
      <4>3. run[w].job = j /\ s = "accepted" => run[w].submitted
        BY <1>4, <3>1 DEF Return
      <4>4. run[w].job = j /\ s = "accepted" => sent[j] = 1
        BY <1>4, <4>2, <4>3 DEF DeliveryInv, HandlingTruthful
      <4> QED BY <1>4, <1>5, <4>1, <4>2, <4>4, Ended
    <3>2. ASSUME NEW u \in BOOLEAN, NEW r \in BOOLEAN, Throw(w, u, r)
          PROVE  DeliveryInv(j)'
      <4> DEFINE v == VerdictOfError(w, u, r)
                 d == IF v = "pending" THEN Backoff(run[w].attempt) ELSE 0
      <4>1. run[w].phase = "handling" /\ EndsWith(w, v, d) /\ jobs' = jobs /\ sent' = sent
        BY <3>2 DEF Throw
      <4>2. v \in {"pending", "failed", "unknown"}
        BY VerdictRange
      <4>3. v \in {"pending", "failed"} => run[w].submitted = FALSE
        BY <1>5, <3>2 DEF Throw, VerdictOfError, Run
      <4>4. v = "pending" => run[w].attempt < MaxAttempts
        BY DEF VerdictOfError
      <4> HIDE DEF v, d
      <4>5. run[w].job = j =>
              /\ v \in {"pending", "failed"} => sent[j] = 0
              /\ v = "pending" => jobs[j].attempts < MaxAttempts
        BY <1>4, <4>1, <4>3, <4>4 DEF DeliveryInv, HandlingTruthful
      <4> QED BY <1>4, <1>5, <4>1, <4>2, <4>5, Ended
    <3> QED BY <2>5, <3>1, <3>2 DEF HandlerEnds
  <2>6. CASE Settle(w)
    <3>1. /\ run'[w].phase = "idle" /\ \A v \in Worker \ {w} : run'[v] = run[v]
          /\ run[w].phase = "settling" /\ sent' = sent
      BY <1>5, <2>6 DEF Settle, Idle
    <3>2. CASE ~(Fenced(w) /\ run[w].job = j)
      <4>1. jobs'[j] = jobs[j]
        BY <1>4, <1>5, <2>6, <3>2 DEF Settle, Fenced
      <4>2. \A v \in Worker : Busy(v, j)' => run'[v] = run[v]
        BY <3>1 DEF Busy
      <4> QED BY <1>4, <3>1, <4>1, <4>2, Untouched
    <3>3. CASE Fenced(w) /\ run[w].job = j
      <4>1. jobs'[j].status = run[w].verdict /\ jobs'[j].attempts = jobs[j].attempts
        BY <1>4, <1>5, <2>6, <3>3 DEF Settle, Row
      <4>2. \A v \in Worker : ~Busy(v, j)'
        BY <1>4, <3>1, <3>3 DEF DeliveryInv, OneBusy, Busy
      <4>3. /\ run[w].verdict \in {"pending", "failed", "completed", "accepted", "unknown"}
            /\ run[w].verdict \in {"pending", "failed"} => sent[j] = 0
            /\ run[w].verdict = "accepted" => sent[j] = 1
            /\ run[w].verdict = "pending" => jobs[j].attempts < MaxAttempts
        BY <1>4, <3>1, <3>3 DEF DeliveryInv, SettlingTruthful
      <4>4. RowTruthful(j)'
        BY <1>4, <3>1, <4>1, <4>3 DEF DeliveryInv, RowTruthful
      <4> QED BY <4>2, <4>4
              DEF DeliveryInv, OwnedOrUnknown, OneBusy, HandlingTruthful,
                  SettlingTruthful, Busy
    <3> QED BY <3>2, <3>3
  <2>7. CASE Crash(w)
    <3>1. /\ jobs' = jobs /\ sent' = sent
          /\ \A v \in Worker : run'[v].phase = "idle" \/ run'[v] = run[v]
      BY <1>5, <2>7 DEF Crash, Idle
    <3> QED BY <1>4, <3>1, Untouched DEF Busy
  <2> QED BY <1>8, <2>1, <2>2, <2>3, <2>4, <2>5, <2>6, <2>7 DEF WorkerStep
<1>9. CASE Tick \/ Stall
  <2>1. jobs'[j].status = jobs[j].status /\ jobs'[j].owner = jobs[j].owner
        /\ jobs'[j].attempts = jobs[j].attempts /\ run' = run /\ sent' = sent
    BY <1>4, <1>5, <1>9 DEF Tick, Stall, Aged, Row
  <2> QED BY <1>4, <2>1, Untouched
<1>10. CASE UNCHANGED vars
  BY <1>4, <1>10, Untouched DEF vars
<1> QED BY <1>6, <1>7, <1>8, <1>9, <1>10 DEF Next

(***************************************************************************)
(* The strengthened invariant holds in every behaviour.                    *)
(***************************************************************************)
LEMMA Invariance == Spec => []IInv
BY InitInv, StepInv, PTL DEF Spec

-----------------------------------------------------------------------------

(* The table and the runs of the workers keep their types.                 *)
THEOREM TypeCorrect == Spec => []TypeOK
<1>1. IInv => TypeOK
  BY DEF IInv
<1> QED BY <1>1, Invariance, PTL

(* The transport accepts no job twice, for any number of processes,        *)
(* crashes and stalls.                                                     *)
THEOREM DeliversAtMostOnce == Spec => []AtMostOneDelivery
<1>1. IInv => AtMostOneDelivery
  BY DEF IInv, DeliveryInv, RowTruthful, AtMostOneDelivery
<1> QED BY <1>1, Invariance, PTL

(* A job that failed, was cancelled or waits was never accepted.           *)
THEOREM FailedIsResendable == Spec => []SafeToResend
<1>1. IInv => SafeToResend
  BY DEF IInv, DeliveryInv, RowTruthful, SafeToResend
<1> QED BY <1>1, Invariance, PTL

(* The retry budget of deliveries is respected.                            *)
THEOREM BudgetKept == Spec => []DeliveryAttemptsBounded
<1>1. IInv => DeliveryAttemptsBounded
  BY DEF IInv, DeliveryInv, RowTruthful, DeliveryAttemptsBounded
<1> QED BY <1>1, Invariance, PTL

(* How a step may change the status of a row: a queued job is cancelled or *)
(* claimed; a running one is swept, or settled by its owner.               *)
StatusStep(j) ==
  \/ jobs'[j].status = jobs[j].status
  \/ jobs[j].status \in {"absent", "pending"}
  \/ jobs[j].status = "running" /\ jobs[j].lease = 0
  \/ /\ jobs[j].status = "running"
     /\ run[jobs[j].owner].phase = "settling"
     /\ run[jobs[j].owner].job = j
     /\ run[jobs[j].owner].verdict = jobs'[j].status

(* Every step changes statuses that way.                                   *)
LEMMA StatusSteps ==
  ASSUME TypeOK, [Next]_vars, NEW j \in Job PROVE StatusStep(j)
<1>1. jobs \in [Job -> Row] /\ jobs[j] \in Row /\ run \in [Worker -> Run]
  BY DEF TypeOK
<1> USE DEF StatusStep
<1>2. ASSUME NEW i \in Job, NEW delay \in Delay, Enqueue(i, delay) PROVE StatusStep(j)
  BY <1>1, <1>2 DEF Enqueue, Row
<1>3. ASSUME NEW i \in Job, Cancel(i) PROVE StatusStep(j)
  BY <1>1, <1>3 DEF Cancel, Row
<1>4. ASSUME NEW w \in Worker, WorkerStep(w) PROVE StatusStep(j)
  <2>1. CASE Claim(w)
    <3> DEFINE swept == [k \in Job |-> Swept(k)]
    <3>1. \/ swept[j].status = jobs[j].status
          \/ jobs[j].status = "running" /\ jobs[j].lease = 0
      BY <1>1 DEF Swept, Row
    <3>2. swept \in [Job -> Row] /\ swept[j] \in Row
      BY <1>1, RowSteps
    <3> HIDE DEF swept
    <3>3. \/ jobs' = swept
          \/ \E i \in Job :
               /\ swept[i].status = "pending"
               /\ jobs' = [swept EXCEPT ![i].status = "running",
                                        ![i].attempts = Attempted(swept[i].attempts),
                                        ![i].owner = w,
                                        ![i].lease = LeaseTicks]
      BY <2>1 DEF Claim, swept
    <3>4. jobs'[j] = swept[j] \/ swept[j].status = "pending"
      BY <3>2, <3>3
    <3> QED BY <3>1, <3>4
  <2>2. CASE Heartbeat(w)
    BY <1>1, <2>2 DEF Heartbeat, Fenced, Row
  <2>3. CASE Submit(w) \/ Crash(w)
    BY <2>3 DEF Submit, Crash
  <2>4. CASE MarkAccepted(w)
    BY <1>1, <2>4 DEF MarkAccepted, Accepted, Row
  <2>5. CASE HandlerEnds(w)
    <3>1. ASSUME NEW s \in {"accepted", "completed", "unknown"}, Return(w, s)
          PROVE  StatusStep(j)
      BY <1>1, <3>1 DEF Return, Accepted, Row
    <3>2. ASSUME NEW u \in BOOLEAN, NEW r \in BOOLEAN, Throw(w, u, r)
          PROVE  StatusStep(j)
      BY <3>2 DEF Throw
    <3> QED BY <2>5, <3>1, <3>2 DEF HandlerEnds
  <2>6. CASE Settle(w)
    <3>1. CASE ~(Fenced(w) /\ run[w].job = j)
      BY <1>1, <2>6, <3>1 DEF Settle, Fenced
    <3>2. CASE Fenced(w) /\ run[w].job = j
      BY <1>1, <2>6, <3>2 DEF Settle, Fenced, Row
    <3> QED BY <3>1, <3>2
  <2> QED BY <1>4, <2>1, <2>2, <2>3, <2>4, <2>5, <2>6 DEF WorkerStep
<1>5. CASE Tick \/ Stall
  BY <1>1, <1>5 DEF Tick, Stall, Aged, Row
<1>6. CASE UNCHANGED vars
  BY <1>6 DEF vars
<1> QED BY <1>2, <1>3, <1>4, <1>5, <1>6 DEF Next

(* A terminal status is final.                                             *)
THEOREM TerminalIsFinal == Spec => TerminalStays
<1> DEFINE Stays == \A j \in Job :
                      jobs[j].status \in Terminal => jobs'[j].status = jobs[j].status
<1>1. IInv /\ [Next]_vars => [Stays]_vars
  BY StatusSteps DEF IInv, StatusStep, Terminal
<1> QED BY <1>1, Invariance, PTL DEF Spec, TerminalStays

(* A job is taken from its owner only after the lease ran out.             *)
THEOREM LeaseProtectsOwner == Spec => OnlyOwnerSettles
<1> DEFINE Settles ==
      \A j \in Job :
        LET w == jobs[j].owner IN
        jobs[j].status = "running" /\ jobs'[j].status # "running" =>
          \/ jobs[j].lease = 0
          \/ /\ run[w].phase = "settling"
             /\ run[w].job = j
             /\ run[w].verdict = jobs'[j].status
<1>1. IInv /\ [Next]_vars => [Settles]_vars
  BY StatusSteps DEF IInv, StatusStep
<1> QED BY <1>1, Invariance, PTL DEF Spec, OnlyOwnerSettles

(***************************************************************************)
(* The queue implements SubmissionPromise: a Submit is the transport's     *)
(* acceptance; every other step settles some open deliveries, each with a  *)
(* verdict the invariant of the next state justifies, or none.             *)
(***************************************************************************)
LEMMA PromiseStep == IInv /\ IInv' /\ [Next]_vars => [Promise!Next]_(Promise!vars)
<1> SUFFICES ASSUME IInv, IInv', [Next]_vars
             PROVE  Promise!Next \/ UNCHANGED Promise!vars
  BY DEF Promise!vars
<1>1. \A j \in Delivery : j \in Job /\ StatusStep(j) /\ DeliveryInv(j) /\ DeliveryInv(j)'
  BY StatusSteps DEF IInv, Delivery
<1>2. \A j \in Delivery : jobs'[j].status \in
        {"absent", "pending", "running", "completed", "accepted", "unknown", "failed",
         "cancelled"}
  BY <1>1, Constants DEF IInv, TypeOK, Row
<1>3. CASE sent' = sent
  <2>1. ASSUME NEW j \in Delivery, VerdictOf(j)' # VerdictOf(j)
        PROVE  VerdictOf(j) = "open" /\ Promise!Justified(j, VerdictOf(j)')
    <3>1. jobs[j].status \in {"absent", "pending", "running"}
      BY <1>1, <2>1 DEF StatusStep, VerdictOf
    <3>2. VerdictOf(j) = "open"
      BY <3>1 DEF VerdictOf
    <3>3. sent[j] = sent'[j] /\ RowTruthful(j)'
      BY <1>1, <1>3 DEF DeliveryInv
    <3>4. \/ VerdictOf(j)' = "delivered" /\ sent[j] = 1
          \/ VerdictOf(j)' = "rejected" /\ sent[j] = 0
          \/ VerdictOf(j)' \in {"finished", "ambiguous"}
      BY <1>2, <2>1, <3>2, <3>3 DEF VerdictOf, RowTruthful
    <3> QED BY <3>2, <3>4 DEF Promise!Justified
  <2>2. \A j \in Delivery : VerdictOf(j)' \in Promise!Verdict
    BY <1>2 DEF VerdictOf, Promise!Verdict
  <2>3. Promise!Settle
    BY <1>3, <2>1, <2>2 DEF Promise!Settle
  <2> QED BY <2>3 DEF Promise!Next
<1>4. ASSUME NEW w \in Worker, NEW j \in Delivery, run[w].job = j, Submit(w)
      PROVE  Promise!Next
  <2>1. /\ jobs' = jobs /\ run[w].phase = "handling"
        /\ run[w].submitted = FALSE /\ sent' = [sent EXCEPT ![j] = @ + 1]
    BY <1>4 DEF Submit, IInv, TypeOK, Run
  <2>2. sent[j] = 0 /\ jobs[j].status \in {"running", "unknown"}
    BY <1>1, <1>4, <2>1 DEF DeliveryInv, OwnedOrUnknown, HandlingTruthful, Busy
  <2>3. VerdictOf(j) \in {"open", "ambiguous"}
    BY <2>2 DEF VerdictOf
  <2>4. [k \in Delivery |-> sent'[k]] = [[k \in Delivery |-> sent[k]] EXCEPT ![j] = 1]
    <3>1. sent \in [Job -> Nat] /\ Delivery \subseteq Job
      BY DEF IInv, TypeOK, Delivery
    <3>2. \A k \in Delivery : sent'[k] = IF k = j THEN 1 ELSE sent[k]
      BY <2>1, <2>2, <3>1
    <3> QED BY <3>2
  <2>5. [k \in Delivery |-> VerdictOf(k)]' = [k \in Delivery |-> VerdictOf(k)]
    BY <2>1 DEF VerdictOf
  <2>6. Promise!Submit(j)
    BY <2>1, <2>2, <2>3, <2>4, <2>5 DEF Promise!Submit
  <2> QED BY <2>6 DEF Promise!Next
<1>5. sent' = sent \/ \E w \in Worker : Submit(w) /\ run[w].job \in Delivery
  BY DEF Next, Submit, WorkerStep, Enqueue, Cancel, Claim, Heartbeat, MarkAccepted, HandlerEnds,
         Return, Throw, Settle, Crash, Tick, Stall, vars
<1> QED BY <1>3, <1>4, <1>5

LEMMA PromiseInit == Init => Promise!Init
BY DEF Init, NoRow, Promise!Init, VerdictOf, Delivery

(* So the queue keeps the promise in every behaviour.                      *)
THEOREM QueueKeepsPromise == Spec => KeepsPromise
BY PromiseInit, PromiseStep, Invariance, PTL DEF Spec, KeepsPromise, Promise!Spec
=============================================================================
