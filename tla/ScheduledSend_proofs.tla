-------------------------- MODULE ScheduledSend_proofs --------------------------
(***************************************************************************)
(* Proofs about sending a draft: for any jobs, clicks, processes and       *)
(* requests, any lease, retry budget and number of faults.                 *)
(***************************************************************************)
EXTENDS ScheduledSend, TLAPS

(* The queue's own proofs, for jobs of which each is a delivery.           *)
QP == INSTANCE DurableScheduler_proofs WITH Recoverable <- {}

-----------------------------------------------------------------------------
(* The inductive invariant.                                                *)

Active(s) == sending[s].phase # "idle"

(* A version identifies what the draft was: whoever has read, scheduled or *)
(* been asked to send the present version has seen the present draft.      *)
SenderSaw(s) ==
  Active(s) => /\ sending[s].original.version <= draft.version
               /\ sending[s].original.version = draft.version => sending[s].original = draft

AskedSaw(k) ==
  /\ asked[k].version = 0 => asked[k] = Unasked
  /\ asked[k].version <= draft.version
  /\ asked[k].version = draft.version => asked[k].text = draft.text
  /\ k \in Job /\ asked[k].version = draft.version => draft.folder = "outbox"

PlanSaw(r) ==
  planning[r].phase # "idle" =>
    /\ planning[r].version <= draft.version
    /\ planning[r].version = draft.version => draft.folder # "sent"

SameText(s, k) ==
  Active(s) /\ sending[s].original.version = asked[k].version =>
    sending[s].original.text = asked[k].text

VersionsTell ==
  /\ draft.version >= 1 /\ draft.text <= draft.version
  /\ \A s \in Sender : SenderSaw(s)
  /\ \A k \in Operation : AskedSaw(k)
  /\ \A r \in Request : PlanSaw(r)
  /\ \A s \in Sender, k \in Operation : SameText(s, k)

(* What is executed was asked for, and a worker executes its claimed job.  *)
Executes ==
  /\ \A s \in Sender : Active(s) => Op(s) \in Operation /\ asked[Op(s)].version > 0
  /\ \A r \in Request : Active(r) => Op(r) \in Click
  /\ \A w \in Worker : Active(w) => run[w].phase = "handling" /\ run[w].job = Op(w)
  /\ \A w \in Worker : run[w].phase = "handling" => run[w].job \in Job
  /\ \A j \in Job : jobs[j].status = "absent" <=> asked[j].version = 0

(* The sender that has locked the draft and not yet given it up.           *)
Holder(s) ==
  \/ sending[s].phase \in {"locked", "posting", "answered", "replied"}
  \/ sending[s].phase = "failing" /\ draft.folder # "sent"

(* What Begin found, and the lock found again.                             *)
Sendable(s) ==
  /\ sending[s].original.version = asked[Op(s)].version
  /\ sending[s].original.folder # "sent"
  /\ sending[s].original.delivery \notin {"submitting", "unknown"}

(* Only one sender holds the lock, and the text it read stays the draft's. *)
Held(s) ==
  /\ draft.delivery = "submitting" /\ draft.folder # "sent"
  /\ sending[s].original.version < draft.version
  /\ sending[s].original.text = draft.text

Locked ==
  /\ \A s \in Sender : sending[s].phase \in {"preparing", "reviewing"} \/ Holder(s) => Sendable(s)
  /\ \A s \in Sender : Holder(s) => Held(s)
  /\ \A s, t \in Sender : Holder(s) /\ Holder(t) => s = t
  /\ \A s \in Sender : sending[s].phase \in {"stored", "recorded", "done"} => draft.folder = "sent"
  /\ \A k \in Operation : ops[k] = "accepted" => draft.folder = "sent"

(* A key is entered into the ledger by the one sender that had the lock    *)
(* with it; the version it was asked for is gone by then.                  *)
LedgerOnce ==
  /\ \A k \in Operation : ledger[k] # "none" => 0 < asked[k].version /\ asked[k].version < draft.version
  /\ \A s \in Sender : sending[s].phase = "locked" => ledger[Op(s)] = "none"
  /\ \A s \in Sender : sending[s].phase \in {"posting", "answered", "replied"} => Op(s) \notin Local

(* Once the transport has accepted, the draft shows it, or that the        *)
(* outcome is open; a holder that has not submitted knows it has not.      *)
Truthful ==
  /\ \A s \in Sender : sending[s].phase \in {"locked", "posting"} => accepted = <<>>
  /\ accepted # <<>> => draft.folder = "sent" \/ draft.delivery \in {"submitting", "unknown"}
  /\ \A s \in Sender : sending[s].phase = "failing" /\ accepted # <<>> =>
       sending[s].uncertain \/ draft.folder = "sent"
  /\ draft.delivery = "accepted" => draft.folder = "sent"
  /\ \A i \in 1..Len(accepted) : asked[accepted[i].op].version > 0

(* What a worker's run knows of the transport.                             *)
RunKnows(w) ==
  /\ run[w].phase = "handling" /\ ~Active(w) => ~run[w].submitted
  /\ sending[w].phase \in {"opened", "preparing", "reviewing", "locked", "posting"} => ~run[w].submitted
  /\ sending[w].phase \in {"answered", "replied", "stored", "recorded", "done"} => run[w].submitted
  /\ sending[w].phase = "failing" /\ run[w].submitted => sending[w].uncertain \/ draft.folder = "sent"
  /\ sending[w].phase \in {"storedFailure", "ended"} /\ run[w].submitted => sending[w].uncertain
  /\ run[w].phase = "settling" /\ run[w].verdict = "accepted" => draft.folder = "sent"

RunTruthful ==
  /\ \A w \in Worker : RunKnows(w)
  /\ \A j \in Job : ops[j] = "accepted" => sent[j] > 0
  /\ \A j \in Job : jobs[j].status = "accepted" => draft.folder = "sent"

(* A request that found no open job may schedule one while the draft is    *)
(* the version it read.                                                    *)
NoneOpen ==
  \A r \in Request : planning[r].phase = "checked" /\ planning[r].version = draft.version =>
    \A j \in Job : ~Unresolved(j)

(* The record's part of SentAsAsked.                                       *)
TextAsAsked ==
  \A i \in 1..Len(accepted) : accepted[i].text = asked[accepted[i].op].text

MailInv == /\ VersionsTell /\ Executes /\ Locked /\ LedgerOnce /\ Truthful /\ RunTruthful
           /\ NoneOpen /\ AcceptedOnce /\ TextAsAsked /\ OneOpenJob

IInv == TypeOK /\ QP!IInv /\ MailInv

-----------------------------------------------------------------------------
(* The queue's definitions and its proofs', of which each unfolds to the   *)
(* other.                                                                  *)

LEMMA QueueAssumption == QP!SchedulerAssumption
BY ScheduledSendAssumption DEF QP!SchedulerAssumption

LEMMA SameTypeOK == (Queue!TypeOK <=> QP!TypeOK) /\ (Queue!TypeOK' <=> QP!TypeOK')
BY DEF Queue!TypeOK, QP!TypeOK, Queue!Row, QP!Row, Queue!Run, QP!Run, Queue!Status, QP!Status,
       Queue!Terminal, QP!Terminal, Queue!Phase, QP!Phase, Queue!Delay, QP!Delay,
       Queue!Left, QP!Left

LEMMA SameRowType == Queue!Row = QP!Row /\ \A j : Queue!Swept(j) = QP!Swept(j)
BY DEF Queue!Row, QP!Row, Queue!Status, QP!Status, Queue!Terminal, QP!Terminal, Queue!Delay,
       QP!Delay, Queue!Left, QP!Left, Queue!Swept, QP!Swept

LEMMA SameInit == Queue!Init => QP!Init
BY DEF Queue!Init, QP!Init, Queue!NoRow, QP!NoRow, Queue!Idle, QP!Idle

LEMMA SameEnqueue ==
  ASSUME NEW j, NEW delay PROVE Queue!Enqueue(j, delay) => QP!Enqueue(j, delay)
BY DEF Queue!Enqueue, QP!Enqueue

LEMMA SameDelay == Queue!Delay = QP!Delay
BY DEF Queue!Delay, QP!Delay

LEMMA SameCancel == ASSUME NEW j PROVE Queue!Cancel(j) => QP!Cancel(j)
BY DEF Queue!Cancel, QP!Cancel

LEMMA SameClaim == ASSUME NEW w PROVE Queue!Claim(w) => QP!Claim(w)
BY Zenon DEF Queue!Claim, QP!Claim, Queue!Swept, QP!Swept, Queue!Attempted, QP!Attempted,
             Queue!Idle, QP!Idle

LEMMA SameHeartbeat == ASSUME NEW w PROVE Queue!Heartbeat(w) => QP!Heartbeat(w)
BY Zenon DEF Queue!Heartbeat, QP!Heartbeat, Queue!Fenced, QP!Fenced

LEMMA SameSubmit == ASSUME NEW w PROVE Queue!Submit(w) => QP!Submit(w)
BY Zenon DEF Queue!Submit, QP!Submit, Queue!Delivery, QP!Delivery

LEMMA SameMark == ASSUME NEW w PROVE Queue!MarkAccepted(w) => QP!MarkAccepted(w)
BY Zenon DEF Queue!MarkAccepted, QP!MarkAccepted, Queue!Accepted, QP!Accepted,
             Queue!Fenced, QP!Fenced

LEMMA SameReturn == ASSUME NEW w, NEW v PROVE Queue!Return(w, v) => QP!Return(w, v)
BY Zenon DEF Queue!Return, QP!Return, Queue!EndsWith, QP!EndsWith, Queue!Idle, QP!Idle,
             Queue!Accepted, QP!Accepted, Queue!Fenced, QP!Fenced

LEMMA SameThrow ==
  ASSUME NEW w, NEW u, NEW r PROVE Queue!Throw(w, u, r) => QP!Throw(w, u, r)
BY Zenon DEF Queue!Throw, QP!Throw, Queue!VerdictOfError, QP!VerdictOfError,
             Queue!EndsWith, QP!EndsWith, Queue!Idle, QP!Idle, Queue!Backoff, QP!Backoff,
             Queue!Delay, QP!Delay

LEMMA SameSettle == ASSUME NEW w PROVE Queue!Settle(w) => QP!Settle(w)
BY Zenon DEF Queue!Settle, QP!Settle, Queue!Fenced, QP!Fenced, Queue!Idle, QP!Idle

LEMMA SameCrash == ASSUME NEW w PROVE Queue!Crash(w) => QP!Crash(w)
BY Zenon DEF Queue!Crash, QP!Crash, Queue!Idle, QP!Idle

LEMMA SameTime == Queue!Tick \/ Queue!Stall => QP!Tick \/ QP!Stall
BY Zenon DEF Queue!Tick, QP!Tick, Queue!Stall, QP!Stall, Queue!Aged, QP!Aged,
             Queue!Elapsed, QP!Elapsed, Queue!Starved, QP!Starved, Queue!Fenced, QP!Fenced

(***************************************************************************)
(* A step of the whole is one step of the queue or none, but for the       *)
(* faults, which the queue shares with the senders.                        *)
(***************************************************************************)
OnlyFaults == UNCHANGED <<jobs, run, sent>> /\ faults' = faults + 1

LEMMA QueueSteps == TypeOK /\ [Next]_vars => [QP!Next]_(QP!vars) \/ OnlyFaults
<1> SUFFICES ASSUME TypeOK, [Next]_vars PROVE QP!Next \/ UNCHANGED queueVars \/ OnlyFaults
  BY DEF queueVars, QP!vars
<1> USE DEF queueVars
<1>1. CASE UNCHANGED vars
  BY <1>1 DEF vars
<1>2. CASE Edit \/ LiveEdit \/ \E c \in Click : Press(c)
  BY <1>2 DEF Edit, LiveEdit, Press
<1>3. ASSUME NEW r \in Request, PlanRead(r) \/ PlanCheck(r) \/ PlanCommit(r) \/ CrashRequest(r)
      PROVE  QP!Next \/ UNCHANGED queueVars \/ OnlyFaults
  <2>1. CASE PlanCommit(r)
    <3>1. CASE UNCHANGED queueVars
      BY <3>1
    <3>2. CASE \E j \in setup.jobs, delay \in Queue!Delay : Queue!Enqueue(j, delay)
      <4>1. PICK j \in setup.jobs, delay \in QP!Delay : QP!Enqueue(j, delay)
        BY <3>2, SameEnqueue, SameDelay
      <4>2. j \in Job
        BY ScheduledSendAssumption DEF TypeOK
      <4> QED BY <4>1, <4>2 DEF QP!Next
    <3> QED BY <2>1, <3>1, <3>2 DEF PlanCommit
  <2> QED BY <1>3, <2>1 DEF PlanRead, PlanCheck, CrashRequest, OnlyFaults
<1>4. ASSUME NEW j \in Job, Cancel(j) PROVE QP!Next
  BY <1>4, SameCancel DEF Cancel, QP!Next
<1>5. ASSUME NEW s \in Sender, SenderStep(s)
      PROVE  QP!Next \/ UNCHANGED queueVars \/ OnlyFaults
  <2>1. CASE DeliverLocally(s) \/ Accept(s)
    BY <2>1, SameSubmit DEF DeliverLocally, Accept, Submitted, QP!Next, QP!WorkerStep
  <2>2. CASE MarkAccepted(s)
    BY <2>2, SameMark DEF MarkAccepted, QP!Next, QP!WorkerStep
  <2>3. CASE Return(s)
    BY <2>3, SameReturn DEF Return, QP!Next, QP!WorkerStep, QP!HandlerEnds
  <2>4. CASE Throw(s)
    <3>1. sending[s].uncertain \in BOOLEAN /\ sending[s].retryable \in BOOLEAN
      BY DEF TypeOK, Sending
    <3> QED BY <2>4, <3>1, SameThrow DEF Throw, QP!Next, QP!WorkerStep, QP!HandlerEnds
  <2>5. CASE DatabaseError(s)
    BY <2>5 DEF DatabaseError, OnlyFaults
  <2> QED BY <1>5, <2>1, <2>2, <2>3, <2>4, <2>5
          DEF SenderStep, Open, Begin, Review, Decline, Lock, RefuseLocally, Busy, Unauthorized,
              OpenLedger, Reject, Reply, LoseReply, LoseLease, StoreSent, RecordAccepted,
              StoreFailure, RecordFailure
<1>6. ASSUME NEW w \in Worker, CrashWorker(w) PROVE QP!Next
  BY <1>6, SameCrash DEF CrashWorker, QP!Next, QP!WorkerStep
<1>7. CASE QueueStep
  BY <1>7, SameClaim, SameHeartbeat, SameSettle, SameTime DEF QueueStep, QP!Next, QP!WorkerStep
<1> QED BY <1>1, <1>2, <1>3, <1>4, <1>5, <1>6, <1>7 DEF Next, Step

LEMMA QueueInv == TypeOK /\ QP!IInv /\ [Next]_vars => QP!IInv'
<1>1. QP!IInv /\ OnlyFaults => QP!IInv'
  <2> SUFFICES ASSUME QP!IInv, OnlyFaults PROVE QP!IInv'
    OBVIOUS
  <2>1. QP!TypeOK'
    BY DEF OnlyFaults, QP!IInv, QP!TypeOK
  <2>2. ASSUME NEW j \in QP!Delivery PROVE QP!DeliveryInv(j)'
    BY DEF OnlyFaults, QP!IInv, QP!DeliveryInv, QP!OwnedOrUnknown, QP!OneBusy, QP!RowTruthful,
           QP!HandlingTruthful, QP!SettlingTruthful, QP!Busy
  <2> QED BY <2>1, <2>2 DEF QP!IInv, QP!Delivery
<1> QED BY <1>1, QueueSteps, QueueAssumption, QP!StepInv

-----------------------------------------------------------------------------
(* What the queue's steps do to what the sends look at.                    *)

(* A run other steps than its own leave alone, as far as it matters.       *)
SameRun(w) == /\ run'[w].phase = run[w].phase /\ run'[w].job = run[w].job
              /\ run'[w].submitted = run[w].submitted /\ run'[w].verdict = run[w].verdict

SameRows == \A j \in Job : jobs'[j].status = jobs[j].status

(* The runs and rows as workers claim, renew and settle.                   *)
RunsGoOn ==
  \A w \in Worker :
    \/ SameRun(w)
    \/ run[w].phase = "settling" /\ run'[w].phase = "idle"
    \/ /\ run[w].phase = "idle"
       /\ run'[w].phase = "handling" /\ run'[w].job \in Job /\ ~run'[w].submitted

RowsGoOn ==
  \A j \in Job :
    /\ jobs'[j].status = "absent" <=> jobs[j].status = "absent"
    /\ Unresolved(j)' => Unresolved(j)
    /\ jobs'[j].status = "accepted" =>
         \/ jobs[j].status = "accepted"
         \/ \E w \in Worker : run[w].phase = "settling" /\ run[w].verdict = "accepted"

LEMMA QueueAlone ==
  ASSUME TypeOK, QP!IInv, QueueStep PROVE RunsGoOn /\ RowsGoOn /\ sent' = sent
<1>1. jobs \in [Job -> Queue!Row] /\ run \in [Worker -> Queue!Run]
  BY DEF TypeOK, Queue!TypeOK
<1>2. ASSUME NEW w \in Worker, Queue!Claim(w) PROVE RunsGoOn /\ RowsGoOn /\ sent' = sent
  <2> DEFINE swept == [j \in Job |-> Queue!Swept(j)]
  <2>1. ASSUME NEW j \in Job
        PROVE  \/ swept[j].status = jobs[j].status
               \/ jobs[j].status = "running" /\ swept[j].status \in {"pending", "unknown"}
    <3>1. swept[j] = Queue!Swept(j) /\ jobs[j] \in Queue!Row
      BY <1>1
    <3> HIDE DEF swept
    <3> QED BY <3>1 DEF Queue!Swept, Queue!Row
  <2>2. swept \in [Job -> Queue!Row]
    BY <1>1, SameRowType, QP!RowSteps, QueueAssumption
  <2> HIDE DEF swept
  <2>3. \/ jobs' = swept /\ run' = run
        \/ \E j \in Job :
             /\ swept[j].status = "pending"
             /\ jobs' = [swept EXCEPT ![j].status = "running",
                                      ![j].attempts = Queue!Attempted(swept[j].attempts),
                                      ![j].owner = w,
                                      ![j].lease = LeaseTicks]
             /\ run[w].phase = "idle"
             /\ run' = [run EXCEPT ![w] = [Queue!Idle EXCEPT
                           !.phase = "handling", !.job = j,
                           !.attempt = Queue!Attempted(swept[j].attempts),
                           !.accepted = swept[j].accepted]]
    BY <1>2 DEF Queue!Claim, swept
  <2>4. CASE jobs' = swept /\ run' = run
    BY <2>1, <2>4, <1>2 DEF RunsGoOn, RowsGoOn, SameRun, Unresolved, Queue!Claim
  <2>5. ASSUME NEW j \in Job,
             swept[j].status = "pending",
             jobs' = [swept EXCEPT ![j].status = "running",
                                      ![j].attempts = Queue!Attempted(swept[j].attempts),
                                      ![j].owner = w,
                                      ![j].lease = LeaseTicks],
             run[w].phase = "idle",
             run' = [run EXCEPT ![w] = [Queue!Idle EXCEPT
                           !.phase = "handling", !.job = j,
                           !.attempt = Queue!Attempted(swept[j].attempts),
                           !.accepted = swept[j].accepted]]
        PROVE RunsGoOn /\ RowsGoOn
    <3>1. /\ run'[w].phase = "handling" /\ run'[w].job = j /\ ~run'[w].submitted
          /\ \A v \in Worker \ {w} : run'[v] = run[v]
      BY <1>1, <2>5 DEF Queue!Idle
    <3>2. /\ jobs'[j].status = "running"
          /\ \A i \in Job \ {j} : jobs'[i] = swept[i]
      BY <2>2, <2>5 DEF Queue!Row
    <3>3. \A i \in Job : \/ jobs'[i].status = jobs[i].status
                         \/ /\ jobs'[i].status \in {"running", "pending", "unknown"}
                            /\ jobs[i].status \in {"running", "pending"}
      BY <2>1, <2>5, <3>2
    <3>4. RunsGoOn
      BY <2>5, <3>1 DEF RunsGoOn, SameRun
    <3>5. RowsGoOn
      BY <3>3 DEF RowsGoOn, Unresolved
    <3> QED BY <3>4, <3>5
  <2> QED BY <1>2, <2>3, <2>4, <2>5 DEF Queue!Claim
<1>3. ASSUME NEW w \in Worker, Queue!Heartbeat(w) PROVE RunsGoOn /\ RowsGoOn /\ sent' = sent
  <2>1. SameRows
    BY <1>1, <1>3 DEF Queue!Heartbeat, Queue!Fenced, Queue!Row, SameRows
  <2>2. \A v \in Worker : SameRun(v)
    BY <1>1, <1>3 DEF Queue!Heartbeat, Queue!Run, SameRun
  <2> QED BY <1>3, <2>1, <2>2 DEF SameRows, RunsGoOn, RowsGoOn, Unresolved, Queue!Heartbeat
<1>4. ASSUME NEW w \in Worker, Queue!Settle(w) PROVE RunsGoOn /\ RowsGoOn /\ sent' = sent
  <2>1. /\ run[w].phase = "settling" /\ run'[w].phase = "idle"
        /\ \A v \in Worker \ {w} : run'[v] = run[v]
    BY <1>1, <1>4 DEF Queue!Settle, Queue!Idle
  <2>2. CASE Queue!Fenced(w)
    <3>1. run[w].job \in Job /\ jobs[run[w].job].status = "running"
      BY <2>2 DEF Queue!Fenced
    <3>2. run[w].verdict \in {"pending", "failed", "completed", "accepted", "unknown"}
      BY <2>1, <3>1 DEF QP!IInv, QP!DeliveryInv, QP!SettlingTruthful, QP!Delivery
    <3>3. /\ jobs'[run[w].job].status = run[w].verdict
          /\ \A j \in Job \ {run[w].job} : jobs'[j] = jobs[j]
      BY <1>1, <1>4, <2>2, <3>1 DEF Queue!Settle, Queue!Row
    <3> QED BY <1>4, <2>1, <3>1, <3>2, <3>3 DEF RunsGoOn, RowsGoOn, SameRun, Unresolved, Queue!Settle
  <2>3. CASE ~Queue!Fenced(w)
    BY <1>4, <2>1, <2>3 DEF RunsGoOn, RowsGoOn, SameRun, Unresolved, Queue!Settle
  <2> QED BY <2>2, <2>3
<1>5. CASE Queue!Tick \/ Queue!Stall
  <2>1. SameRows
    BY <1>1, <1>5 DEF Queue!Tick, Queue!Stall, Queue!Aged, Queue!Row, SameRows
  <2> QED BY <1>5, <2>1
          DEF SameRows, RunsGoOn, RowsGoOn, SameRun, Unresolved, Queue!Tick, Queue!Stall
<1> QED BY <1>2, <1>3, <1>4, <1>5 DEF QueueStep

(* A worker's handler submits, marks, ends and dies.                       *)
Others(w) == \A v \in Worker \ {w} : SameRun(v)

LEMMA HandlerSubmits ==
  ASSUME TypeOK, NEW w \in Worker, Queue!Submit(w)
  PROVE  /\ SameRows /\ Others(w) /\ run'[w].phase = "handling" /\ run'[w].job = run[w].job
         /\ run'[w].submitted
         /\ \A j \in Job : sent'[j] >= sent[j]
<1>1. run \in [Worker -> Queue!Run] /\ sent \in [Job -> Nat]
  BY DEF TypeOK, Queue!TypeOK
<1>2. \A j \in Job : sent'[j] >= sent[j]
  BY <1>1 DEF Queue!Submit
<1>3. /\ run'[w].phase = "handling" /\ run'[w].job = run[w].job /\ run'[w].submitted
      /\ \A v \in Worker \ {w} : run'[v] = run[v]
  BY <1>1 DEF Queue!Submit, Queue!Run
<1> QED BY <1>2, <1>3 DEF Queue!Submit, SameRows, Others, SameRun

LEMMA HandlerMarks ==
  ASSUME TypeOK, NEW w \in Worker, Queue!MarkAccepted(w)
  PROVE  SameRows /\ (\A v \in Worker : SameRun(v)) /\ sent' = sent
<1>1. run \in [Worker -> Queue!Run] /\ jobs \in [Job -> Queue!Row]
  BY DEF TypeOK, Queue!TypeOK
<1>2. SameRows
  BY <1>1 DEF Queue!MarkAccepted, Queue!Accepted, Queue!Row, SameRows
<1>3. \A v \in Worker : SameRun(v)
  BY <1>1 DEF Queue!MarkAccepted, Queue!Run, SameRun
<1> QED BY <1>2, <1>3 DEF Queue!MarkAccepted

LEMMA HandlerReturns ==
  ASSUME TypeOK, NEW w \in Worker, Queue!Return(w, "accepted")
  PROVE  SameRows /\ Others(w) /\ run'[w].phase = "settling" /\ sent' = sent
<1>1. run \in [Worker -> Queue!Run] /\ jobs \in [Job -> Queue!Row]
  BY DEF TypeOK, Queue!TypeOK
<1>2. SameRows
  BY <1>1 DEF Queue!Return, Queue!Accepted, Queue!Row, SameRows
<1>3. run'[w].phase = "settling" /\ \A v \in Worker \ {w} : run'[v] = run[v]
  BY <1>1 DEF Queue!Return, Queue!EndsWith, Queue!Idle
<1> QED BY <1>2, <1>3 DEF Queue!Return, Others, SameRun

LEMMA HandlerThrows ==
  ASSUME TypeOK, NEW w \in Worker, NEW u, NEW r, Queue!Throw(w, u, r)
  PROVE  /\ SameRows /\ Others(w) /\ sent' = sent
         /\ run'[w].phase = "settling" /\ run'[w].verdict # "accepted"
<1>1. run \in [Worker -> Queue!Run]
  BY DEF TypeOK, Queue!TypeOK
<1>2. Queue!VerdictOfError(w, u, r) # "accepted"
  BY DEF Queue!VerdictOfError
<1>3. /\ run'[w].phase = "settling" /\ run'[w].verdict = Queue!VerdictOfError(w, u, r)
      /\ \A v \in Worker \ {w} : run'[v] = run[v]
  BY <1>1 DEF Queue!Throw, Queue!EndsWith, Queue!Idle
<1> QED BY <1>2, <1>3 DEF Queue!Throw, SameRows, Others, SameRun

LEMMA HandlerDies ==
  ASSUME TypeOK, NEW w \in Worker, Queue!Crash(w)
  PROVE  SameRows /\ Others(w) /\ run'[w].phase = "idle" /\ sent' = sent
<1>1. run \in [Worker -> Queue!Run]
  BY DEF TypeOK, Queue!TypeOK
<1> QED BY <1>1 DEF Queue!Crash, Queue!Idle, SameRows, Others, SameRun

-----------------------------------------------------------------------------
(* How senders move.                                                       *)

(* One sender moves to a phase, and keeps what it executes and has read.   *)
Moves(s, p, u) ==
  /\ sending'[s].phase = p /\ sending'[s].uncertain = u
  /\ sending'[s].op = sending[s].op /\ sending'[s].original = sending[s].original
  /\ sending'[s].reviewed = sending[s].reviewed
  /\ \A t \in Sender \ {s} : sending'[t] = sending[t]

Goes(s, p) == Moves(s, p, sending[s].uncertain)

LEMMA Entering ==
  ASSUME sending \in [Sender -> Sending], NEW s \in Sender, NEW p, Enter(s, p) PROVE Goes(s, p)
BY DEF Enter, Goes, Moves, Sending

LEMMA Raising ==
  ASSUME sending \in [Sender -> Sending], NEW s \in Sender, NEW p, NEW u, NEW r, Raise(s, p, u, r)
  PROVE  Moves(s, p, u)
BY DEF Raise, Moves, Op

LEMMA EnterType ==
  ASSUME sending \in [Sender -> Sending], NEW s \in Sender, NEW p \in Phase, Enter(s, p)
  PROVE  sending' \in [Sender -> Sending]
BY DEF Enter, Sending

LEMMA RaiseType ==
  ASSUME sending \in [Sender -> Sending], NEW s \in Sender, NEW p \in Phase,
         NEW u \in BOOLEAN, NEW r \in BOOLEAN, Raise(s, p, u, r)
  PROVE  sending' \in [Sender -> Sending]
<1>1. [phase |-> p, op |-> Op(s), original |-> sending[s].original,
       reviewed |-> sending[s].reviewed, uncertain |-> u, retryable |-> r] \in Sending
  BY DEF Sending, Op
<1> QED BY <1>1 DEF Raise

(* What is written over the draft is a draft, one version further.         *)
LEMMA SavedType ==
  ASSUME draft \in Draft, NEW text \in Nat, NEW folder \in Folder, NEW delivery \in Delivery,
         NEW job \in Job \cup {NoJob}
  PROVE  Saved(text, folder, delivery, job) \in Draft
BY DEF Saved, Draft

LEMMA RestoredType ==
  ASSUME draft \in Draft, sending \in [Sender -> Sending], NEW s \in Sender,
         NEW folder \in Folder, NEW delivery \in Delivery
  PROVE  Restored(s, folder, delivery) \in Draft
<1>1. sending[s].original.text \in Nat /\ sending[s].original.job \in Job \cup {NoJob}
  BY DEF Sending, Draft
<1> QED BY <1>1, SavedType DEF Restored

LEMMA TypeInit == Init => TypeOK
<1> SUFFICES ASSUME Init PROVE TypeOK
  OBVIOUS
<1>1. Queue!TypeOK
  BY SameInit, SameTypeOK, QP!InitInv, QueueAssumption DEF Init, QP!IInv
<1>2. NewDraft \in Draft
  BY DEF NewDraft, Draft, Folder, Delivery
<1>3. NotSending \in Sending
  BY <1>2 DEF NotSending, Sending, Phase
<1>4. Unasked \in Seen /\ NotPlanning \in Planning
  BY DEF Unasked, Seen, NotPlanning, Planning
<1> QED BY <1>1, <1>2, <1>3, <1>4 DEF Init, TypeOK, OperationStatus, LedgerStatus

LEMMA TypeStep == TypeOK /\ QP!IInv /\ Executes /\ [Next]_vars => TypeOK'
<1> SUFFICES ASSUME TypeOK, QP!IInv, Executes, [Next]_vars PROVE TypeOK'
  OBVIOUS
<1>q. Queue!TypeOK'
  BY QueueInv, SameTypeOK DEF QP!IInv
<1>setup. setup' \in Setup
  BY DEF Next, vars, TypeOK
<1>phase. Phase = {"idle", "opened", "preparing", "reviewing", "locked", "posting", "answered",
                   "replied", "stored", "recorded", "done", "failing", "storedFailure", "ended"}
  BY DEF Phase
<1>t. /\ draft \in Draft /\ live \in Nat /\ draft.text \in Nat /\ draft.version \in Nat /\ draft.folder \in Folder
      /\ draft.delivery \in Delivery /\ draft.job \in Job \cup {NoJob}
      /\ asked \in [Operation -> Seen] /\ ops \in [Operation -> OperationStatus]
      /\ ledger \in [Operation -> LedgerStatus] /\ sending \in [Sender -> Sending]
      /\ planning \in [Request -> Planning]
      /\ accepted \in Seq([op: Operation, text: Nat, live: Nat])
  BY DEF TypeOK, Draft
<1>d. /\ Delivery = {"none", "submitting", "accepted", "unknown", "failed"}
      /\ Folder = {"drafts", "outbox", "sent"}
  BY DEF Delivery, Folder
<1>s. \A s \in Sender : /\ sending[s].original \in Draft /\ sending[s].original.folder \in Folder
                        /\ sending[s].reviewed \in Nat
                        /\ sending[s].uncertain \in BOOLEAN /\ sending[s].retryable \in BOOLEAN
                        /\ Active(s) => Op(s) \in Operation
  BY <1>t DEF Sending, Draft, Executes
<1> DEFINE MailOK == /\ draft' \in Draft /\ live' \in Nat /\ asked' \in [Operation -> Seen]
                     /\ ops' \in [Operation -> OperationStatus]
                     /\ ledger' \in [Operation -> LedgerStatus]
                     /\ sending' \in [Sender -> Sending]
                     /\ planning' \in [Request -> Planning]
                     /\ accepted' \in Seq([op: Operation, text: Nat, live: Nat])
<1> SUFFICES MailOK
  BY <1>q, <1>setup DEF TypeOK
<1>1. CASE UNCHANGED mailVars
  BY <1>1, <1>t DEF mailVars
<1>2. CASE Edit
  <2>1. PICK folder \in {draft.folder, "drafts"} : draft' = Edited(folder)
    BY <1>2 DEF Edit
  <2>2. Edited(folder) \in Draft
    BY <1>t, <1>d, SavedType DEF Edited
  <2> QED BY <1>2, <1>t, <2>1, <2>2 DEF Edit
<1>9. CASE LiveEdit
  BY <1>9, <1>t DEF LiveEdit
<1>3. ASSUME NEW c \in Click, Press(c) PROVE MailOK
  <2>1. [version |-> draft.version, text |-> draft.text, live |-> live] \in Seen
    BY <1>t DEF Seen
  <2> QED BY <1>3, <1>t, <2>1 DEF Press
<1>4. ASSUME NEW r \in Request, PlanRead(r) \/ PlanCheck(r) \/ CrashRequest(r) PROVE MailOK
  <2>1. /\ [phase |-> "read", version |-> draft.version] \in Planning
        /\ [phase |-> "checked", version |-> planning[r].version] \in Planning
        /\ NotPlanning \in Planning
    BY <1>t DEF Planning, NotPlanning
  <2>2. NotSending \in Sending
    BY DEF NotSending, Sending, Phase, NewDraft, Draft, Folder, Delivery
  <2>3. CASE PlanRead(r) \/ PlanCheck(r)
    BY <2>3, <1>t, <2>1 DEF PlanRead, PlanCheck
  <2>4. CASE CrashRequest(r)
    BY <2>4, <1>t, <2>2 DEF CrashRequest
  <2> QED BY <1>4, <2>3, <2>4
<1>5. ASSUME NEW r \in Request, PlanCommit(r) PROVE MailOK
  <2>1. planning' \in [Request -> Planning]
    BY <1>5, <1>t DEF PlanCommit, Planning, NotPlanning
  <2>2. CASE UNCHANGED <<asked, draft>>
    BY <1>5, <1>t, <2>1, <2>2 DEF PlanCommit
  <2>3. CASE ~UNCHANGED <<asked, draft>>
    <3>1. PICK j \in setup.jobs : /\ draft' = Scheduled(j)
                                  /\ asked' = [asked EXCEPT ![j] = [version |-> draft.version + 1,
                                                                    text |-> draft.text,
                                                                    live |-> live]]
      BY <1>5, <2>3 DEF PlanCommit
    <3>2. j \in Job
      BY ScheduledSendAssumption DEF TypeOK
    <3>3. Scheduled(j) \in Draft
      BY <1>t, <3>2, <1>d, SavedType DEF Scheduled
    <3>4. [version |-> draft.version + 1, text |-> draft.text, live |-> live] \in Seen
      BY <1>t DEF Seen
    <3> QED BY <1>5, <1>t, <2>1, <3>1, <3>3, <3>4 DEF PlanCommit
  <2> QED BY <2>2, <2>3
<1>6. ASSUME NEW j \in Job, Cancel(j) PROVE MailOK
  <2>1. Saved(draft.text, "drafts", draft.delivery, NoJob) \in Draft
    BY <1>t, <1>d, SavedType
  <2> QED BY <1>6, <1>t, <2>1 DEF Cancel
<1>7. ASSUME NEW w \in Worker, CrashWorker(w) PROVE MailOK
  BY <1>7, <1>t DEF CrashWorker, NotSending, Sending, Phase, NewDraft, Draft, Folder, Delivery
<1>8. ASSUME NEW s \in Sender, SenderStep(s) PROVE MailOK
  <2>1. ASSUME NEW k \in Operation, Open(s, k) PROVE MailOK
    <3>1. [phase |-> "opened", op |-> k, original |-> draft, reviewed |-> 0, uncertain |-> FALSE,
           retryable |-> FALSE] \in Sending
      BY <1>t, <1>phase DEF Sending
    <3> QED BY <2>1, <1>t, <3>1 DEF Open
  <2>2. CASE Begin(s) \/ Decline(s)
    BY <2>2, <1>t, <1>phase, EnterType, RaiseType DEF Begin, Decline
  <2>15. CASE Review(s)
    <3>1. "reviewing" \in Phase
      BY <1>phase
    <3> QED BY <2>15, <1>t, <3>1 DEF Review, Sending
  <2>3. CASE Lock(s)
    <3>1. Op(s) \in Operation
      BY <1>s, <2>3 DEF Lock, InPhase, Active
    <3>2. Restored(s, sending[s].original.folder, "submitting") \in Draft
      BY <1>t, <1>s, <1>d, RestoredType
    <3>3. [ops EXCEPT ![Op(s)] = "submitting"] \in [Operation -> OperationStatus]
      BY <1>t, <3>1 DEF OperationStatus
    <3> QED BY <2>3, <1>t, <1>phase, <3>2, <3>3, EnterType DEF Lock
  <2>4. CASE DeliverLocally(s) \/ Accept(s)
    <3>1. Op(s) \in Operation
      BY <1>s, <2>4 DEF DeliverLocally, Accept, InPhase, Active
    <3>2. sending[s].original.text \in Nat /\ sending[s].reviewed \in Nat
      BY <1>s DEF Draft
    <3>3. \A x \in Nat : Append(accepted, [op |-> Op(s), text |-> x, live |-> sending[s].reviewed])
                            \in Seq([op: Operation, text: Nat, live: Nat])
      BY <1>t, <3>1, <3>2
    <3>4. Saved(draft.text, "sent", "accepted", draft.job) \in Draft
      BY <1>t, <1>d, SavedType
    <3>5. accepted' \in Seq([op: Operation, text: Nat, live: Nat])
      BY <2>4, <1>t, <3>2, <3>3 DEF DeliverLocally, Accept, Submitted
    <3> QED BY <2>4, <1>t, <1>phase, <3>4, <3>5, EnterType DEF DeliverLocally, Accept
  <2>5. CASE RefuseLocally(s) \/ Busy(s) \/ LoseLease(s)
    BY <2>5, <1>t, <1>phase, RaiseType DEF RefuseLocally, Busy, LoseLease
  <2>6. ASSUME NEW u \in BOOLEAN, Unauthorized(s, u) PROVE MailOK
    BY <2>6, <1>t, <1>phase, RaiseType DEF Unauthorized
  <2>7. CASE OpenLedger(s)
    <3>1. ledger' \in [Operation -> LedgerStatus]
      BY <2>7, <1>t DEF OpenLedger, LedgerStatus
    <3> QED BY <2>7, <1>t, <1>phase, <3>1, EnterType, RaiseType DEF OpenLedger
  <2>8. CASE Reply(s) \/ LoseReply(s)
    <3>1. ledger' \in [Operation -> LedgerStatus]
      BY <2>8, <1>t DEF Reply, LoseReply, LedgerStatus
    <3> QED BY <2>8, <1>t, <1>phase, <3>1, EnterType, RaiseType DEF Reply, LoseReply
  <2>16. ASSUME NEW u \in BOOLEAN, Reject(s, u) PROVE MailOK
    <3>1. ledger' \in [Operation -> LedgerStatus]
      BY <2>16, <1>t DEF Reject, LedgerStatus
    <3> QED BY <2>16, <1>t, <1>phase, <3>1, RaiseType DEF Reject
  <2>9. CASE StoreSent(s)
    <3>1. Restored(s, "sent", "accepted") \in Draft
      BY <1>t, <1>d, RestoredType
    <3> QED BY <2>9, <1>t, <1>phase, <3>1, EnterType DEF StoreSent
  <2>10. CASE RecordAccepted(s) \/ RecordFailure(s)
    <3>1. ops' \in [Operation -> OperationStatus]
      BY <2>10, <1>t DEF RecordAccepted, RecordFailure, OperationStatus
    <3> QED BY <2>10, <1>t, <1>phase, <3>1, EnterType DEF RecordAccepted, RecordFailure
  <2>11. CASE MarkAccepted(s)
    BY <2>11, <1>t, <1>phase, EnterType DEF MarkAccepted
  <2>12. CASE DatabaseError(s)
    <3>1. (Op(s) \notin Local) \in BOOLEAN
      OBVIOUS
    <3> QED BY <2>12, <1>t, <1>phase, <3>1, RaiseType DEF DatabaseError
  <2>13. CASE StoreFailure(s)
    <3>1. \A d \in {"unknown", "failed"} : Restored(s, sending[s].original.folder, d) \in Draft
      BY <1>t, <1>s, <1>d, RestoredType
    <3> QED BY <2>13, <1>t, <1>s, <1>phase, <3>1, EnterType, RaiseType DEF StoreFailure
  <2>14. CASE Return(s) \/ Throw(s)
    <3>1. NotSending \in Sending
      BY DEF NotSending, Sending, Phase, NewDraft, Draft, Folder, Delivery
    <3> QED BY <2>14, <1>t, <3>1 DEF Return, Throw
  <2> QED BY <1>8, <2>1, <2>2, <2>3, <2>4, <2>5, <2>6, <2>7, <2>8, <2>9, <2>10, <2>11, <2>12,
             <2>13, <2>14, <2>15, <2>16 DEF SenderStep
<1> QED BY <1>1, <1>2, <1>3, <1>4, <1>5, <1>6, <1>7, <1>8, <1>9
        DEF Next, Step, QueueStep, vars, mailVars

-----------------------------------------------------------------------------
(* What the types say of the parts of the state.                           *)
LEMMA Parts ==
  ASSUME TypeOK
  PROVE  /\ draft.version \in Nat /\ draft.text \in Nat /\ draft.folder \in Folder
         /\ draft.delivery \in Delivery /\ live \in Nat
         /\ \A k \in Operation : /\ asked[k].version \in Nat /\ asked[k].text \in Nat
                                 /\ asked[k].live \in Nat
         /\ \A s \in Sender : /\ sending[s].original \in Draft /\ sending[s].phase \in Phase
                              /\ sending[s].original.version \in Nat
                              /\ sending[s].original.text \in Nat
                              /\ sending[s].uncertain \in BOOLEAN
                              /\ sending[s].reviewed \in Nat
         /\ \A r \in Request : planning[r].version \in Nat
                               /\ planning[r].phase \in {"idle", "read", "checked"}
         /\ sending \in [Sender -> Sending] /\ planning \in [Request -> Planning]
         /\ asked \in [Operation -> Seen] /\ ops \in [Operation -> OperationStatus]
         /\ ledger \in [Operation -> LedgerStatus]
BY DEF TypeOK, Draft, Seen, Sending, Planning

(* The steps of a sender that leave the draft as it is.  It ends, or goes  *)
(* from phase to phase as follows.                                         *)
Passage(s) ==
  LET from == sending[s].phase
      to == sending'[s].phase
      told == sending'[s].uncertain
  IN  \/ from \in {"opened", "preparing", "reviewing"} /\ to = "ended"
      \/ from = "opened" /\ to = "done" /\ ops[Op(s)] = "accepted"
      \/ from = "opened" /\ to = "preparing" /\ Sendable(s)
      \/ from = "preparing" /\ to = "reviewing" /\ sending'[s].reviewed = live
      \/ from = "locked" /\ to = "failing"
      \/ from = "locked" /\ to = "posting" /\ Op(s) \notin Local
      \/ from = "posting" /\ to \in {"answered", "failing"}
      \/ from = "answered" /\ to = "replied"
      \/ from \in {"answered", "replied"} /\ to = "failing" /\ told
      \/ from = "stored" /\ to = "recorded"
      \/ from = "recorded" /\ to = "done"
      \/ from \in {"stored", "recorded"} /\ to = "failing"
      \/ from = "failing" /\ to = "ended" /\ draft.folder = "sent" /\ told
      \/ from = "storedFailure" /\ to = "ended" /\ told = sending[s].uncertain

Quiet(s) ==
  /\ draft' = draft /\ live' = live /\ asked' = asked /\ planning' = planning
  /\ \A t \in Sender \ {s} : sending'[t] = sending[t]
  /\ \/ sending'[s].phase = "idle"
     \/ /\ sending'[s].op = sending[s].op /\ sending'[s].original = sending[s].original
        /\ sending'[s].phase # "reviewing" => sending'[s].reviewed = sending[s].reviewed
        /\ Passage(s)

(* The queue is left alone, but for what the worker itself may submit.     *)
QueueIdles == SameRows /\ (\A w \in Worker : SameRun(w)) /\ sent' = sent

LEMMA Unqueued == UNCHANGED <<jobs, run, sent>> => QueueIdles
BY DEF QueueIdles, SameRows, SameRun

(* What the lock tests.                                                    *)
Unchanged(s) == live = sending[s].reviewed /\ draft.version = asked[Op(s)].version

(* The steps that change nothing else.                                     *)
GivesUp(s) ==
  \/ Begin(s)
  \/ Review(s)
  \/ Decline(s)
  \/ Lock(s) /\ ~Unchanged(s)
  \/ RefuseLocally(s)
  \/ Busy(s)
  \/ \E u \in BOOLEAN : Unauthorized(s, u)
  \/ LoseLease(s)
  \/ DatabaseError(s)
  \/ StoreFailure(s) /\ draft.folder = "sent"
  \/ MarkAccepted(s)

LEMMA QuietGivesUp ==
  ASSUME TypeOK, LedgerOnce, NEW s \in Sender, GivesUp(s)
  PROVE  /\ Quiet(s) /\ QueueIdles /\ ops' = ops /\ ledger' = ledger /\ accepted' = accepted
         /\ sending'[s].phase \notin {"idle", "answered"}
<1> USE Parts DEF Quiet, Passage, InPhase, Goes, Moves
<1>1. CASE Begin(s)
  <2>1. CASE ops[Op(s)] = "accepted"
    BY <1>1, <2>1, Entering, Unqueued DEF Begin, queueVars
  <2>2. CASE ops[Op(s)] # "accepted" /\ OutcomeOpen(s)
    BY <1>1, <2>2, Raising, Unqueued DEF Begin, queueVars
  <2>3. CASE ops[Op(s)] # "accepted" /\ ~OutcomeOpen(s) /\ Changed(s)
    BY <1>1, <2>3, Entering, Unqueued DEF Begin, queueVars
  <2>4. CASE ops[Op(s)] # "accepted" /\ ~OutcomeOpen(s) /\ ~Changed(s)
    BY <1>1, <2>4, Entering, Unqueued DEF Begin, queueVars, OutcomeOpen, Changed, Sendable
  <2> QED BY <2>1, <2>2, <2>3, <2>4
<1>2. CASE Decline(s)
  BY <1>2, Entering, Unqueued DEF Decline, queueVars
<1>10. CASE Review(s)
  <2>1. /\ sending'[s].phase = "reviewing" /\ sending'[s].reviewed = live
        /\ sending'[s].op = sending[s].op /\ sending'[s].original = sending[s].original
        /\ \A t \in Sender \ {s} : sending'[t] = sending[t]
    BY <1>10 DEF Review, Sending
  <2> QED BY <1>10, <2>1, Unqueued DEF Review, queueVars
<1>3. CASE Lock(s) /\ ~Unchanged(s)
  BY <1>3, Entering, Unqueued DEF Lock, Unchanged, queueVars
<1>4. CASE RefuseLocally(s) \/ Busy(s)
  <2>1. QueueIdles /\ sending[s].phase = "locked"
    BY <1>4, Unqueued DEF RefuseLocally, Busy, queueVars
  <2>2. CASE RefuseLocally(s)
    <3>1. Raise(s, "failing", FALSE, FALSE)
      BY <2>2 DEF RefuseLocally
    <3>2. Moves(s, "failing", FALSE)
      BY <3>1, Raising
    <3> QED BY <2>1, <2>2, <3>2 DEF RefuseLocally
  <2>3. CASE Busy(s)
    <3>1. Raise(s, "failing", FALSE, TRUE)
      BY <2>3 DEF Busy
    <3>2. Moves(s, "failing", FALSE)
      BY <3>1, Raising
    <3> QED BY <2>1, <2>3, <3>2 DEF Busy
  <2> QED BY <1>4, <2>2, <2>3
<1>9. ASSUME NEW u \in BOOLEAN, Unauthorized(s, u)
      PROVE  /\ Quiet(s) /\ QueueIdles /\ ops' = ops /\ ledger' = ledger /\ accepted' = accepted
             /\ sending'[s].phase \notin {"idle", "answered"}
  <2>1. Raise(s, "failing", u, FALSE) /\ sending[s].phase = "locked" /\ QueueIdles
    BY <1>9, Unqueued DEF Unauthorized, queueVars
  <2>2. Moves(s, "failing", u)
    BY <2>1, Raising
  <2> QED BY <1>9, <2>1, <2>2 DEF Unauthorized
<1>5. CASE LoseLease(s)
  BY <1>5, Raising, Unqueued DEF LoseLease, queueVars
<1>6. CASE DatabaseError(s)
  <2>1. Moves(s, "failing", Op(s) \notin Local)
    BY <1>6, Raising DEF DatabaseError
  <2>2. sending[s].phase = "replied" => Op(s) \notin Local
    BY DEF LedgerOnce
  <2> QED BY <1>6, <2>1, <2>2, Unqueued DEF DatabaseError
<1>7. CASE StoreFailure(s) /\ draft.folder = "sent"
  <2>0. Raise(s, "ended", TRUE, sending[s].retryable) /\ sending[s].phase = "failing"
    BY <1>7 DEF StoreFailure
  <2>1. Moves(s, "ended", TRUE)
    BY <2>0, Raising
  <2>2. QueueIdles
    BY <1>7, Unqueued DEF StoreFailure, queueVars
  <2> QED BY <1>7, <2>0, <2>1, <2>2 DEF StoreFailure
<1>8. CASE MarkAccepted(s)
  <2>1. QueueIdles
    BY <1>8, Unqueued, HandlerMarks DEF MarkAccepted, queueVars, QueueIdles
  <2> QED BY <1>8, <2>1, Entering DEF MarkAccepted
<1> QED BY <1>1, <1>2, <1>3, <1>4, <1>5, <1>6, <1>7, <1>8, <1>9, <1>10 DEF GivesUp

(* The steps on the ledger.                                                *)
Ledgers(s) ==
  OpenLedger(s) \/ (\E u \in BOOLEAN : Reject(s, u)) \/ Reply(s) \/ LoseReply(s)

LEMMA QuietLedgers ==
  ASSUME TypeOK, LedgerOnce, Executes, NEW s \in Sender, Ledgers(s)
  PROVE  /\ Quiet(s) /\ QueueIdles /\ ops' = ops /\ accepted' = accepted
         /\ sending[s].phase \in {"locked", "posting", "answered"}
         /\ sending'[s].phase \notin {"idle", "answered", "locked"}
         /\ \A k \in Operation \ {Op(s)} : ledger'[k] = ledger[k]
<1> USE Parts DEF Quiet, Passage, InPhase, Goes, Moves
<1>1. CASE OpenLedger(s)
  <2>1. Active(s) /\ Op(s) \in Operation /\ ledger[Op(s)] = "none" /\ Enter(s, "posting")
    BY <1>1 DEF OpenLedger, LedgerOnce, Active, Executes
  <2> QED BY <1>1, <2>1, Entering, Unqueued DEF OpenLedger, queueVars
<1>2. ASSUME NEW u \in BOOLEAN, Reject(s, u)
      PROVE  /\ Quiet(s) /\ QueueIdles /\ ops' = ops /\ accepted' = accepted
             /\ sending[s].phase \in {"locked", "posting", "answered"}
             /\ sending'[s].phase \notin {"idle", "answered", "locked"}
             /\ \A k \in Operation \ {Op(s)} : ledger'[k] = ledger[k]
  <2>1. Moves(s, "failing", u) /\ sending[s].phase = "posting" /\ QueueIdles
    BY <1>2, Raising, Unqueued DEF Reject, queueVars
  <2>2. \A k \in Operation \ {Op(s)} : ledger'[k] = ledger[k]
    BY <1>2 DEF Reject
  <2> QED BY <1>2, <2>1, <2>2 DEF Reject
<1>3. CASE Reply(s)
  BY <1>3, Entering, Unqueued DEF Reply, queueVars
<1>4. CASE LoseReply(s)
  <2>1. Moves(s, "failing", TRUE) /\ sending[s].phase \in {"posting", "answered"}
    BY <1>4, Raising DEF LoseReply
  <2>2. QueueIdles
    BY <1>4, Unqueued DEF LoseReply, queueVars
  <2> QED BY <1>4, <2>1, <2>2 DEF LoseReply
<1> QED BY <1>1, <1>2, <1>3, <1>4 DEF Ledgers

(* The steps on the operation.                                             *)
Records(s) == RecordAccepted(s) \/ RecordFailure(s)

LEMMA QuietRecords ==
  ASSUME TypeOK, NEW s \in Sender, Records(s)
  PROVE  /\ Quiet(s) /\ QueueIdles /\ ledger' = ledger /\ accepted' = accepted
         /\ \A k \in Operation : ops'[k] = "accepted" =>
              ops[k] = "accepted" \/ (k = Op(s) /\ sending[s].phase = "stored")
<1> USE Parts
<1>1. CASE RecordAccepted(s)
  BY <1>1, Entering, Unqueued DEF RecordAccepted, queueVars, Quiet, Passage, InPhase, Goes, Moves
<1>2. CASE RecordFailure(s)
  <2>1. Goes(s, "ended") /\ sending[s].phase = "storedFailure" /\ QueueIdles
    BY <1>2, Entering, Unqueued DEF RecordFailure, InPhase, queueVars
  <2>2. \A k \in Operation : ops'[k] = "accepted" => ops[k] = "accepted"
    BY <1>2 DEF RecordFailure
  <2>3. /\ sending'[s].phase = "ended" /\ sending'[s].uncertain = sending[s].uncertain
        /\ draft' = draft /\ live' = live /\ asked' = asked /\ planning' = planning
        /\ ledger' = ledger /\ accepted' = accepted
    BY <1>2, <2>1 DEF RecordFailure, Goes, Moves
  <2>4. Passage(s)
    BY <2>1, <2>3 DEF Passage
  <2>5. Quiet(s)
    BY <2>1, <2>3, <2>4 DEF Quiet, Goes, Moves
  <2> QED BY <2>1, <2>2, <2>3, <2>5
<1> QED BY <1>1, <1>2 DEF Records

(* The steps after which the sender is idle.                               *)
Leaves(s) ==
  \/ Return(s)
  \/ Throw(s)
  \/ s \in Worker /\ CrashWorker(s)
  \/ s \in Request /\ CrashRequest(s)

LEMMA QuietLeaves ==
  ASSUME TypeOK, NEW s \in Sender, Leaves(s)
  PROVE  /\ Quiet(s) /\ SameRows /\ sent' = sent
         /\ ops' = ops /\ ledger' = ledger /\ accepted' = accepted
         /\ sending'[s].phase = "idle"
         /\ \A w \in Worker \ {s} : SameRun(w)
         /\ s \in Worker =>
              \/ run'[s].phase = "idle"
              \/ /\ run'[s].phase = "settling"
                 /\ run'[s].verdict = "accepted" => sending[s].phase = "done"
<1> USE Parts DEF Quiet, InPhase, NotSending
<1>1. CASE Return(s)
  <2>1. CASE s \in Worker
    BY <1>1, <2>1, HandlerReturns DEF Return, Others
  <2>2. CASE s \notin Worker
    BY <1>1, <2>2, Unqueued DEF Return, queueVars, QueueIdles
  <2> QED BY <2>1, <2>2
<1>2. CASE Throw(s)
  <2>1. CASE s \in Worker
    BY <1>2, <2>1, HandlerThrows DEF Throw, Others
  <2>2. CASE s \notin Worker
    BY <1>2, <2>2, Unqueued DEF Throw, queueVars, QueueIdles
  <2> QED BY <2>1, <2>2
<1>3. CASE s \in Worker /\ CrashWorker(s)
  BY <1>3, HandlerDies DEF CrashWorker, Others
<1>4. CASE s \in Request /\ CrashRequest(s)
  BY <1>4, Unqueued, ScheduledSendAssumption DEF CrashRequest, QueueIdles
<1> QED BY <1>1, <1>2, <1>3, <1>4 DEF Leaves

(* The transport's acceptance.                                             *)
LEMMA QuietAccept ==
  ASSUME TypeOK, NEW s \in Sender, Accept(s)
  PROVE  /\ Quiet(s) /\ SameRows /\ ops' = ops /\ ledger' = ledger
         /\ sending[s].phase = "posting" /\ sending'[s].phase = "answered"
         /\ accepted' = Append(accepted, [op |-> Op(s), text |-> sending[s].original.text,
                                         live |-> sending[s].reviewed])
         /\ \A w \in Worker \ {s} : SameRun(w)
         /\ s \in Worker => /\ run'[s].phase = run[s].phase /\ run'[s].job = run[s].job
                            /\ run'[s].submitted
         /\ \A j \in Job : sent[j] > 0 => sent'[j] > 0
<1>1. Goes(s, "answered") /\ sending[s].phase = "posting"
  BY Entering, Parts DEF Accept, InPhase
<1>2. Quiet(s)
  BY <1>1 DEF Accept, Quiet, Passage, Goes, Moves
<1>3. \A j \in Job : sent[j] \in Nat
  BY DEF TypeOK, Queue!TypeOK
<1>4. CASE s \in Worker
  <2>1. Queue!Submit(s)
    BY <1>4 DEF Accept, Submitted
  <2>2. run[s].phase = "handling" /\ \A j \in Job : sent'[j] \in Nat
    BY <1>3, <1>4, <2>1 DEF Queue!Submit, TypeOK, Queue!TypeOK, Queue!Delivery
  <2> QED BY <1>1, <1>2, <1>3, <1>4, <2>1, <2>2, HandlerSubmits DEF Accept, Submitted, Others, Goes, Moves
<1>5. CASE s \notin Worker
  BY <1>1, <1>2, <1>5, Unqueued DEF Accept, Submitted, queueVars, QueueIdles, Goes, Moves
<1> QED BY <1>4, <1>5

-----------------------------------------------------------------------------
(* Quiet steps keep each part of the invariant.                            *)

(* Senders go on with what they have, or start on what they just read.     *)
Carries ==
  \A s \in Sender : Active(s)' => /\ Active(s) /\ sending'[s].op = sending[s].op
                                  /\ sending'[s].original = sending[s].original

LEMMA QuietCarries == ASSUME NEW s \in Sender, Quiet(s) PROVE Carries
BY DEF Quiet, Carries, Active, Passage

LEMMA KeepVersions ==
  ASSUME VersionsTell, Carries, draft' = draft, asked' = asked,
         \A r \in Request : planning'[r].phase # "idle" =>
           planning[r].phase # "idle" /\ planning'[r].version = planning[r].version
  PROVE  VersionsTell'
<1>1. \A s \in Sender : SenderSaw(s)'
  BY DEF VersionsTell, SenderSaw, Carries
<1>2. \A k \in Operation : AskedSaw(k)'
  BY DEF VersionsTell, AskedSaw
<1>3. \A r \in Request : PlanSaw(r)'
  BY DEF VersionsTell, PlanSaw
<1>4. \A s \in Sender, k \in Operation : SameText(s, k)'
  BY DEF VersionsTell, SameText, Carries
<1> QED BY <1>1, <1>2, <1>3, <1>4 DEF VersionsTell

(* A write counts the version up, so that nobody has seen it yet.          *)
LEMMA WriteVersions ==
  ASSUME TypeOK, VersionsTell, Carries,
         draft'.version = draft.version + 1, draft'.text \in Nat, draft'.text <= draft'.version,
         \A k \in Operation : \/ asked'[k] = asked[k]
                              \/ /\ asked'[k].version = draft'.version
                                 /\ asked'[k].text = draft'.text /\ draft'.folder = "outbox",
         \A r \in Request : planning'[r].phase # "idle" =>
           planning[r].phase # "idle" /\ planning'[r].version = planning[r].version
  PROVE  VersionsTell'
<1> USE Parts
<1>1. \A s \in Sender : SenderSaw(s)'
  BY DEF VersionsTell, SenderSaw, Carries
<1>2. \A k \in Operation : AskedSaw(k)'
  BY DEF VersionsTell, AskedSaw
<1>3. \A r \in Request : PlanSaw(r)'
  BY DEF VersionsTell, PlanSaw
<1>4. \A s \in Sender, k \in Operation : SameText(s, k)'
  <2> SUFFICES ASSUME NEW s \in Sender, NEW k \in Operation PROVE SameText(s, k)'
    OBVIOUS
  <2>1. CASE asked'[k] = asked[k]
    BY <2>1 DEF VersionsTell, SameText, Carries
  <2>2. CASE asked'[k].version = draft'.version
    BY <2>2 DEF VersionsTell, SenderSaw, SameText, Carries
  <2> QED BY <2>1, <2>2
<1>5. draft'.version >= 1
  BY DEF VersionsTell
<1> QED BY <1>1, <1>2, <1>3, <1>4, <1>5 DEF VersionsTell

(* What is executed stays asked for.                                       *)
LEMMA KeepExecutes ==
  ASSUME Executes, Carries,
         \A k \in Operation : asked[k].version > 0 => asked'[k].version > 0,
         \A w \in Worker : Active(w)' => run'[w].phase = run[w].phase /\ run'[w].job = run[w].job,
         \A w \in Worker : run'[w].phase = "handling" =>
           run'[w].job \in Job \/ SameRun(w),
         \A j \in Job : jobs'[j].status = "absent" <=> asked'[j].version = 0
  PROVE  Executes'
<1>1. \A s \in Sender : Active(s)' => Op(s)' \in Operation /\ asked'[Op(s)'].version > 0
  BY DEF Executes, Carries, Op
<1>2. \A r \in Request : Active(r)' => Op(r)' \in Click
  BY DEF Executes, Carries, Op, Sender
<1>3. \A w \in Worker : Active(w)' => run'[w].phase = "handling" /\ run'[w].job = Op(w)'
  BY DEF Executes, Carries, Op, Sender
<1>4. \A w \in Worker : run'[w].phase = "handling" => run'[w].job \in Job
  BY DEF Executes, SameRun
<1> QED BY <1>1, <1>2, <1>3, <1>4 DEF Executes

LEMMA QuietLocked ==
  ASSUME TypeOK, VersionsTell, Executes, Locked, NEW s \in Sender, Quiet(s),
         \A k \in Operation : ops'[k] = "accepted" => ops[k] = "accepted" \/ draft.folder = "sent"
  PROVE  Locked'
<1> USE Parts
<1>0. draft' = draft /\ asked' = asked /\ \A t \in Sender \ {s} : sending'[t] = sending[t]
  BY DEF Quiet
<1>1. \A t \in Sender \ {s} : /\ Holder(t)' <=> Holder(t)
                              /\ Sendable(t)' <=> Sendable(t)
                              /\ Held(t)' <=> Held(t)
  BY <1>0 DEF Holder, Sendable, Held, Op
<1>2. CASE sending'[s].phase = "idle"
  <2>1. ~Holder(s)'
    BY <1>2 DEF Holder
  <2> QED BY <1>0, <1>1, <1>2, <2>1 DEF Locked
<1>3. CASE sending'[s].phase # "idle"
  <2>0. /\ sending'[s].op = sending[s].op /\ sending'[s].original = sending[s].original
        /\ Passage(s)
    BY <1>3 DEF Quiet
  <2>1. Sendable(s)' <=> Sendable(s)
    BY <1>0, <2>0 DEF Sendable, Op
  <2>2. Held(s)' <=> Held(s)
    BY <1>0, <2>0 DEF Held
  <2>3. sending[s].phase \in {"stored", "recorded"} => draft.folder = "sent"
    BY DEF Locked
  <2>4. Holder(s)' => Holder(s)
    BY <1>0, <2>0, <2>3 DEF Holder, Passage
  <2>5. sending'[s].phase \in {"preparing", "reviewing"} => Sendable(s)
    BY <2>0 DEF Passage, Locked
  <2>6. sending'[s].phase \in {"stored", "recorded", "done"} => draft.folder = "sent"
    <3>1. Op(s) \in Operation \/ ~Active(s)
      BY DEF Executes
    <3> QED BY <2>0, <2>3, <3>1 DEF Passage, Locked, Active
  <2>7. \A t \in Sender : sending'[t].phase \in {"preparing", "reviewing"} \/ Holder(t)' =>
                            Sendable(t)'
    BY <1>0, <1>1, <2>1, <2>4, <2>5 DEF Locked
  <2>8. \A t \in Sender : Holder(t)' => Held(t)'
    BY <1>1, <2>2, <2>4 DEF Locked
  <2>9. \A t, r \in Sender : Holder(t)' /\ Holder(r)' => t = r
    BY <1>1, <2>4 DEF Locked
  <2>10. \A t \in Sender : sending'[t].phase \in {"stored", "recorded", "done"} => draft'.folder = "sent"
    BY <1>0, <2>6 DEF Locked
  <2>11. \A k \in Operation : ops'[k] = "accepted" => draft'.folder = "sent"
    BY <1>0 DEF Locked
  <2> QED BY <2>7, <2>8, <2>9, <2>10, <2>11 DEF Locked
<1> QED BY <1>2, <1>3

LEMMA QuietLedger ==
  ASSUME LedgerOnce, NEW s \in Sender, Quiet(s), ledger' = ledger
  PROVE  LedgerOnce'
<1>1. /\ draft' = draft /\ asked' = asked
      /\ \A t \in Sender : sending'[t] = sending[t] \/ t = s
  BY DEF Quiet
<1>2. \A k \in Operation : ledger'[k] # "none" => 0 < asked'[k].version /\ asked'[k].version < draft'.version
  BY <1>1 DEF LedgerOnce
<1>3. \A t \in Sender : sending'[t].phase = "locked" => ledger'[Op(t)'] = "none"
  BY <1>1 DEF Quiet, Passage, LedgerOnce, Op
<1>4. \A t \in Sender : sending'[t].phase \in {"posting", "answered", "replied"} => Op(t)' \notin Local
  BY <1>1 DEF Quiet, Passage, LedgerOnce, Op
<1> QED BY <1>2, <1>3, <1>4 DEF LedgerOnce

LEMMA QuietTruthful ==
  ASSUME TypeOK, Locked, Truthful, NEW s \in Sender, Quiet(s), accepted' = accepted
  PROVE  Truthful'
<1> USE Parts
<1>1. /\ draft' = draft /\ asked' = asked
      /\ \A t \in Sender : sending'[t] = sending[t] \/ t = s
  BY DEF Quiet
<1>2. \A t \in Sender : sending'[t].phase \in {"locked", "posting"} => accepted' = <<>>
  BY <1>1 DEF Quiet, Passage, Truthful
<1>3. \A t \in Sender : sending'[t].phase = "failing" /\ accepted' # <<>> =>
        sending'[t].uncertain \/ draft'.folder = "sent"
  <2> SUFFICES ASSUME NEW t \in Sender, sending'[t].phase = "failing", accepted # <<>>
               PROVE  sending'[t].uncertain \/ draft.folder = "sent"
    BY <1>1
  <2>1. CASE sending'[t] = sending[t]
    BY <2>1 DEF Truthful
  <2>2. CASE t = s
    <3>1. sending[s].phase \in {"stored", "recorded"} => draft.folder = "sent"
      BY DEF Locked
    <3> QED BY <2>2, <3>1 DEF Quiet, Passage, Truthful
  <2> QED BY <1>1, <2>1, <2>2
<1> QED BY <1>1, <1>2, <1>3 DEF Truthful

(* A worker's run, if it is not the one that moves.                        *)
LEMMA SameRunKnows ==
  ASSUME TypeOK, NEW w \in Worker, RunKnows(w), SameRun(w), sending'[w] = sending[w],
         draft.folder = "sent" => draft'.folder = "sent"
  PROVE  RunKnows(w)'
BY Parts DEF RunKnows, SameRun, Active

(* The mover's run, if its worker leaves the queue alone.                  *)
LEMMA QuietRunKnows ==
  ASSUME TypeOK, Locked, Executes, QP!IInv, RunTruthful, NEW w \in Worker, Quiet(w), SameRun(w),
         sending'[w].phase \notin {"idle", "answered"}
  PROVE  RunKnows(w)'
<1> USE Parts
<1>1. /\ draft' = draft /\ Passage(w) /\ RunKnows(w) /\ Active(w)
      /\ sending'[w].op = sending[w].op
  BY DEF Quiet, RunTruthful, Passage, Active
<1>2. sending[w].phase \in {"stored", "recorded"} => draft.folder = "sent"
  BY DEF Locked, Sender
<1>3. sending[w].phase = "opened" => ops[Op(w)] # "accepted"
  <2> SUFFICES ASSUME sending[w].phase = "opened", ops[Op(w)] = "accepted" PROVE FALSE
    OBVIOUS
  <2>1. run[w].phase = "handling" /\ run[w].job = Op(w) /\ ~run[w].submitted
    BY <1>1 DEF Executes, RunKnows
  <2>2. Op(w) \in Job
    BY <2>1 DEF Executes
  <2>3. sent[Op(w)] = 0
    BY <2>1, <2>2 DEF QP!IInv, QP!DeliveryInv, QP!HandlingTruthful, QP!Delivery
  <2>4. sent[Op(w)] > 0
    BY <2>2 DEF RunTruthful
  <2> QED BY <2>3, <2>4
<1>4. run'[w].phase = "handling" /\ run'[w].submitted = run[w].submitted
  BY <1>1 DEF Executes, SameRun
<1> QED BY <1>1, <1>2, <1>3, <1>4 DEF Passage, RunKnows, Active

(* What was accepted was accepted.                                         *)
LEMMA KeepAccepted ==
  ASSUME TypeOK, Truthful, AcceptedOnce, TextAsAsked, accepted' = accepted,
         \A k \in Operation : asked[k].version > 0 => asked'[k] = asked[k]
  PROVE  /\ AcceptedOnce' /\ TextAsAsked'
         /\ \A i \in 1..Len(accepted') : asked'[accepted'[i].op].version > 0
<1>1. \A i \in 1..Len(accepted) : accepted[i].op \in Operation
  <2> DEFINE Message == [op: Operation, text: Nat, live: Nat]
  <2>0. accepted \in Seq(Message)
    BY DEF TypeOK
  <2> HIDE DEF Message
  <2>1. \A i \in 1..Len(accepted) : accepted[i] \in Message
    BY <2>0
  <2> USE DEF Message
  <2> QED BY <2>1
<1>2. \A i \in 1..Len(accepted) : asked'[accepted[i].op] = asked[accepted[i].op]
  BY <1>1 DEF Truthful
<1> QED BY <1>2 DEF Truthful, AcceptedOnce, TextAsAsked

(* No job is opened, and nobody finds none open anew.                      *)
LEMMA KeepOpen ==
  ASSUME NoneOpen, OneOpenJob, \A j \in Job : Unresolved(j)' => Unresolved(j),
         \A r \in Request :
           planning'[r].phase = "checked" /\ planning'[r].version = draft'.version =>
             planning[r].phase = "checked" /\ planning[r].version = draft.version
  PROVE  NoneOpen' /\ OneOpenJob'
BY DEF NoneOpen, OneOpenJob

LEMMA KeepRuns ==
  ASSUME RunTruthful, \A w \in Worker : RunKnows(w)', SameRows,
         draft.folder = "sent" => draft'.folder = "sent",
         \A j \in Job : sent[j] > 0 => sent'[j] > 0,
         \A j \in Job : ops'[j] = "accepted" => ops[j] = "accepted" \/ sent'[j] > 0
  PROVE  RunTruthful'
BY DEF RunTruthful, SameRows

(* A quiet step of which the parts that read more than the draft and the   *)
(* senders are known.                                                      *)
LEMMA QuietStep ==
  ASSUME IInv, NEW s \in Sender, Quiet(s), SameRows,
         \A w \in Worker : Active(w)' => run'[w].phase = run[w].phase /\ run'[w].job = run[w].job,
         \A w \in Worker : run'[w].phase = "handling" => run'[w].job \in Job \/ SameRun(w),
         \A k \in Operation : ops'[k] = "accepted" => ops[k] = "accepted" \/ draft.folder = "sent",
         RunTruthful', LedgerOnce', Truthful', AcceptedOnce', TextAsAsked'
  PROVE  MailInv'
<1> USE DEF IInv, MailInv
<1>1. draft' = draft /\ asked' = asked /\ planning' = planning
  BY DEF Quiet
<1>2. VersionsTell'
  BY <1>1, QuietCarries, KeepVersions
<1>3. \A j \in Job : jobs'[j].status = "absent" <=> asked'[j].version = 0
  BY <1>1 DEF Executes, SameRows
<1>4. Executes'
  BY <1>1, <1>3, QuietCarries, KeepExecutes
<1>5. Locked'
  BY QuietLocked
<1>6. NoneOpen' /\ OneOpenJob'
  BY <1>1, KeepOpen DEF SameRows, Unresolved
<1> QED BY <1>2, <1>4, <1>5, <1>6

LEMMA GivesUpStep ==
  ASSUME IInv, NEW s \in Sender, GivesUp(s) PROVE MailInv'
<1> USE DEF IInv, MailInv
<1>1. /\ Quiet(s) /\ QueueIdles /\ ops' = ops /\ ledger' = ledger /\ accepted' = accepted
      /\ sending'[s].phase \notin {"idle", "answered"}
  BY QuietGivesUp
<1>2. SameRows /\ (\A w \in Worker : SameRun(w)) /\ sent' = sent
      /\ draft' = draft /\ asked' = asked /\ \A w \in Sender \ {s} : sending'[w] = sending[w]
  BY <1>1 DEF QueueIdles, Quiet
<1>4. \A w \in Worker : RunKnows(w)'
  BY <1>1, <1>2, SameRunKnows, QuietRunKnows DEF RunTruthful, Sender
<1>5. RunTruthful'
  BY <1>1, <1>2, <1>4, KeepRuns
<1>6. LedgerOnce' /\ Truthful'
  BY <1>1, QuietLedger, QuietTruthful
<1>7. AcceptedOnce' /\ TextAsAsked'
  BY <1>1, <1>2, KeepAccepted
<1>8. \A w \in Worker : run'[w].phase = run[w].phase /\ run'[w].job = run[w].job
  BY <1>2 DEF SameRun
<1> QED BY <1>1, <1>2, <1>5, <1>6, <1>7, <1>8, QuietStep

LEMMA LedgersStep ==
  ASSUME IInv, NEW s \in Sender, Ledgers(s) PROVE MailInv'
<1> USE DEF IInv, MailInv
<1>1. /\ Quiet(s) /\ QueueIdles /\ ops' = ops /\ accepted' = accepted
      /\ sending[s].phase \in {"locked", "posting", "answered"}
      /\ sending'[s].phase \notin {"idle", "answered", "locked"}
      /\ \A k \in Operation \ {Op(s)} : ledger'[k] = ledger[k]
  BY QuietLedgers
<1>2. SameRows /\ (\A w \in Worker : SameRun(w)) /\ sent' = sent
      /\ draft' = draft /\ asked' = asked /\ \A w \in Sender \ {s} : sending'[w] = sending[w]
  BY <1>1 DEF QueueIdles, Quiet
<1>4. \A w \in Worker : RunKnows(w)'
  BY <1>1, <1>2, SameRunKnows, QuietRunKnows DEF RunTruthful, Sender
<1>5. RunTruthful'
  BY <1>1, <1>2, <1>4, KeepRuns
<1>6. Truthful'
  BY <1>1, QuietTruthful
<1>7. LedgerOnce'
  <2>1. Holder(s) /\ Active(s)
    BY <1>1 DEF Holder, Active
  <2>2. Op(s) \in Operation /\ 0 < asked[Op(s)].version /\ asked[Op(s)].version < draft.version
    BY <2>1 DEF Locked, Sendable, Held, Executes
  <2>3. \A k \in Operation : ledger'[k] # "none" => 0 < asked'[k].version /\ asked'[k].version < draft'.version
    BY <1>1, <1>2, <2>2 DEF LedgerOnce
  <2>4. \A t \in Sender : sending'[t].phase = "locked" => ledger'[Op(t)'] = "none"
    <3> SUFFICES ASSUME NEW t \in Sender, sending'[t].phase = "locked" PROVE ledger'[Op(t)'] = "none"
      OBVIOUS
    <3>1. t # s /\ sending'[t] = sending[t]
      BY <1>1, <1>2
    <3>2. Holder(t)
      BY <3>1 DEF Holder
    <3> QED BY <2>1, <3>1, <3>2 DEF Locked
  <2>5. \A t \in Sender : sending'[t].phase \in {"posting", "answered", "replied"} => Op(t)' \notin Local
    BY <1>1, <1>2 DEF Quiet, Passage, LedgerOnce, Op
  <2> QED BY <2>3, <2>4, <2>5 DEF LedgerOnce
<1>8. AcceptedOnce' /\ TextAsAsked'
  BY <1>1, <1>2, KeepAccepted
<1>9. \A w \in Worker : run'[w].phase = run[w].phase /\ run'[w].job = run[w].job
  BY <1>2 DEF SameRun
<1> QED BY <1>1, <1>2, <1>5, <1>6, <1>7, <1>8, <1>9, QuietStep

LEMMA RecordsStep ==
  ASSUME IInv, NEW s \in Sender, Records(s) PROVE MailInv'
<1> USE DEF IInv, MailInv
<1>1. /\ Quiet(s) /\ QueueIdles /\ ledger' = ledger /\ accepted' = accepted
      /\ \A k \in Operation : ops'[k] = "accepted" =>
           ops[k] = "accepted" \/ (k = Op(s) /\ sending[s].phase = "stored")
  BY QuietRecords
<1>2. SameRows /\ (\A w \in Worker : SameRun(w)) /\ sent' = sent
      /\ draft' = draft /\ asked' = asked /\ \A w \in Sender \ {s} : sending'[w] = sending[w]
  BY <1>1 DEF QueueIdles, Quiet
<1>3. sending'[s].phase \notin {"idle", "answered"}
  BY Parts, Entering DEF Records, RecordAccepted, RecordFailure, Goes, Moves
<1>4. \A w \in Worker : RunKnows(w)'
  BY <1>1, <1>2, <1>3, SameRunKnows, QuietRunKnows DEF RunTruthful, Sender
<1>5. ASSUME NEW j \in Job, ops'[j] = "accepted", ops[j] # "accepted" PROVE sent[j] > 0
  <2>1. j = Op(s) /\ sending[s].phase = "stored" /\ Active(s)
    BY <1>1, <1>5 DEF Operation, Active
  <2>2. s \in Worker
    BY <2>1, ScheduledSendAssumption DEF Executes, Sender
  <2>3. run[s].phase = "handling" /\ run[s].job = j /\ run[s].submitted
    BY <2>1, <2>2 DEF Executes, RunTruthful, RunKnows
  <2> QED BY <2>2, <2>3 DEF QP!IInv, QP!DeliveryInv, QP!HandlingTruthful, QP!Delivery
<1>6. RunTruthful'
  BY <1>1, <1>2, <1>4, <1>5, KeepRuns
<1>7. LedgerOnce' /\ Truthful'
  BY <1>1, QuietLedger, QuietTruthful
<1>8. AcceptedOnce' /\ TextAsAsked'
  BY <1>1, <1>2, KeepAccepted
<1>9. \A w \in Worker : run'[w].phase = run[w].phase /\ run'[w].job = run[w].job
  BY <1>2 DEF SameRun
<1>10. sending[s].phase = "stored" => draft.folder = "sent"
  BY DEF Locked
<1> QED BY <1>1, <1>2, <1>6, <1>7, <1>8, <1>9, <1>10, QuietStep

LEMMA LeavesStep ==
  ASSUME IInv, NEW s \in Sender, Leaves(s) PROVE MailInv'
<1> USE DEF IInv, MailInv
<1>1. /\ Quiet(s) /\ SameRows /\ sent' = sent
      /\ ops' = ops /\ ledger' = ledger /\ accepted' = accepted
      /\ sending'[s].phase = "idle"
      /\ \A w \in Worker \ {s} : SameRun(w)
      /\ s \in Worker =>
           \/ run'[s].phase = "idle"
           \/ /\ run'[s].phase = "settling"
              /\ run'[s].verdict = "accepted" => sending[s].phase = "done"
  BY QuietLeaves
<1>2. draft' = draft /\ asked' = asked /\ \A w \in Sender \ {s} : sending'[w] = sending[w]
  BY <1>1 DEF Quiet
<1>3. ASSUME NEW w \in Worker PROVE RunKnows(w)'
  <2>1. CASE w = s
    <3>1. sending[s].phase = "done" => draft.folder = "sent"
      BY DEF Locked
    <3> QED BY <1>1, <1>2, <2>1, <3>1 DEF RunKnows
  <2>2. CASE w # s
    BY <1>1, <1>2, <2>2, SameRunKnows DEF RunTruthful, Sender
  <2> QED BY <2>1, <2>2
<1>4. RunTruthful'
  BY <1>1, <1>2, <1>3, KeepRuns
<1>5. LedgerOnce' /\ Truthful'
  BY <1>1, QuietLedger, QuietTruthful
<1>6. AcceptedOnce' /\ TextAsAsked'
  BY <1>1, <1>2, KeepAccepted
<1>7. \A w \in Worker : Active(w)' => run'[w].phase = run[w].phase /\ run'[w].job = run[w].job
  BY <1>1 DEF SameRun, Active
<1>8. \A w \in Worker : run'[w].phase = "handling" => run'[w].job \in Job \/ SameRun(w)
  BY <1>1
<1> QED BY <1>1, <1>2, <1>4, <1>5, <1>6, <1>7, <1>8, QuietStep

LEMMA AcceptStep ==
  ASSUME IInv, NEW s \in Sender, Accept(s) PROVE MailInv'
<1> USE DEF IInv, MailInv
<1>1. /\ Quiet(s) /\ SameRows /\ ops' = ops /\ ledger' = ledger
      /\ sending[s].phase = "posting" /\ sending'[s].phase = "answered"
      /\ accepted' = Append(accepted, [op |-> Op(s), text |-> sending[s].original.text,
                                         live |-> sending[s].reviewed])
      /\ \A w \in Worker \ {s} : SameRun(w)
      /\ s \in Worker => /\ run'[s].phase = run[s].phase /\ run'[s].job = run[s].job
                         /\ run'[s].submitted
      /\ \A j \in Job : sent[j] > 0 => sent'[j] > 0
  BY QuietAccept
<1>2. draft' = draft /\ asked' = asked /\ \A w \in Sender \ {s} : sending'[w] = sending[w]
  BY <1>1 DEF Quiet
<1>3. Holder(s) /\ Active(s) /\ Held(s) /\ Sendable(s) /\ accepted = <<>>
  BY <1>1 DEF Holder, Active, Locked, Truthful
<1>4. Op(s) \in Operation /\ asked[Op(s)].version > 0
      /\ sending[s].original.text = asked[Op(s)].text
  BY <1>3 DEF Executes, Sendable, VersionsTell, SameText
<1>5. accepted' = <<[op |-> Op(s), text |-> sending[s].original.text,
                                         live |-> sending[s].reviewed]>>
  BY <1>1, <1>3
<1>6. AcceptedOnce' /\ TextAsAsked'
  BY <1>2, <1>4, <1>5 DEF AcceptedOnce, TextAsAsked
<1>7. Truthful'
  <2>1. ASSUME NEW t \in Sender, sending'[t].phase \in {"locked", "posting", "failing"},
               draft.folder # "sent"
        PROVE  FALSE
    <3>1. t # s /\ sending'[t] = sending[t]
      BY <1>1, <1>2, <2>1
    <3>2. Holder(t)
      BY <2>1, <3>1 DEF Holder
    <3> QED BY <1>3, <3>1, <3>2 DEF Locked
  <2>2. draft.delivery = "submitting" /\ draft.folder # "sent"
    BY <1>3 DEF Held
  <2> QED BY <1>2, <1>4, <1>5, <2>1, <2>2 DEF Truthful
<1>8. ASSUME NEW w \in Worker PROVE RunKnows(w)'
  <2>1. CASE w = s
    <3>1. run[s].phase = "handling"
      BY <1>3, <2>1 DEF Executes
    <3> QED BY <1>1, <2>1, <3>1 DEF RunKnows, Active
  <2>2. CASE w # s
    BY <1>1, <1>2, <2>2, SameRunKnows DEF RunTruthful, Sender
  <2> QED BY <2>1, <2>2
<1>9. RunTruthful'
  BY <1>1, <1>2, <1>8, KeepRuns
<1>10. LedgerOnce'
  BY <1>1, QuietLedger
<1>11. \A w \in Worker : run'[w].phase = run[w].phase /\ run'[w].job = run[w].job
  BY <1>1 DEF SameRun
<1>12. \A w \in Worker : run'[w].phase = "handling" => run'[w].job \in Job
  BY <1>11 DEF Executes
<1> QED BY <1>1, <1>2, <1>6, <1>7, <1>9, <1>10, <1>11, <1>12, QuietStep

-----------------------------------------------------------------------------
(* Steps of the sender that holds the lock, or takes it.                   *)

(* A sender writes over the draft: what that does to versions and jobs.    *)
LEMMA SenderWrites ==
  ASSUME IInv, NEW s \in Sender, NEW p, NEW u, Active(s), Moves(s, p, u),
         draft'.version = draft.version + 1, draft'.text \in Nat, draft'.text <= draft.version,
         asked' = asked, planning' = planning, SameRows,
         \A w \in Worker : run'[w].phase = run[w].phase /\ run'[w].job = run[w].job
  PROVE  VersionsTell' /\ Executes' /\ NoneOpen' /\ OneOpenJob'
<1> USE DEF IInv, MailInv
<1>1. Carries
  BY DEF Carries, Moves, Active
<1>2. draft.version \in Nat /\ \A r \in Request : planning[r].version \in Nat
  BY Parts
<1>3. VersionsTell'
  BY <1>1, <1>2, WriteVersions
<1>4. Executes'
  <2>1. \A j \in Job : jobs'[j].status = "absent" <=> asked'[j].version = 0
    BY DEF SameRows, Executes
  <2>2. \A w \in Worker : run'[w].phase = "handling" => run'[w].job \in Job
    BY DEF Executes
  <2> QED BY <1>1, <2>1, <2>2, KeepExecutes
<1>5. NoneOpen' /\ OneOpenJob'
  <2>1. ASSUME NEW r \in Request,
               planning'[r].phase = "checked", planning'[r].version = draft'.version
        PROVE  FALSE
    <3>1. planning[r].version <= draft.version
      BY <2>1 DEF VersionsTell, PlanSaw
    <3> QED BY <1>2, <2>1, <3>1
  <2> QED BY <2>1, KeepOpen DEF SameRows, Unresolved
<1> QED BY <1>3, <1>4, <1>5

(* It leaves the lock's invariant to show for those who hold it afterwards.*)
LEMMA StillSendable ==
  ASSUME IInv, NEW s \in Sender, NEW p, NEW u, Moves(s, p, u), asked' = asked
  PROVE  \A t \in Sender : Sendable(t)' <=> Sendable(t)
BY DEF Moves, Sendable, Op

(* Whoever holds the lock is the only one.                                 *)
LEMMA OnlyHolder ==
  ASSUME IInv, NEW s \in Sender, Holder(s)
  PROVE  /\ Held(s) /\ Sendable(s)
         /\ \A t \in Sender : Holder(t) => t = s
         /\ \A t \in Sender : sending[t].phase \notin {"stored", "recorded", "done"}
         /\ \A k \in Operation : ops[k] # "accepted"
<1>1. Held(s) /\ Sendable(s) /\ \A t \in Sender : Holder(t) => t = s
  BY DEF IInv, MailInv, Locked
<1>2. draft.folder # "sent"
  BY <1>1 DEF Held
<1> QED BY <1>1, <1>2 DEF IInv, MailInv, Locked

LEMMA LockStep ==
  ASSUME IInv, NEW s \in Sender, Lock(s), Unchanged(s) PROVE MailInv'
<1> USE DEF IInv, MailInv
<1>0. draft.version \in Nat /\ draft.text \in Nat
  BY Parts
<1>1. /\ sending[s].phase = "reviewing" /\ Active(s) /\ Sendable(s)
      /\ Goes(s, "locked") /\ draft.version = asked[Op(s)].version
  BY Parts, Entering DEF Lock, InPhase, Locked, Active, Unchanged
<1>2. sending[s].original = draft
  BY <1>1 DEF Sendable, VersionsTell, SenderSaw
<1>3. draft.folder # "sent" /\ draft.delivery \notin {"submitting", "unknown"} /\ accepted = <<>>
  BY <1>1, <1>2 DEF Sendable, Truthful
<1>4. /\ draft'.version = draft.version + 1 /\ draft'.text = draft.text
      /\ draft'.folder = draft.folder /\ draft'.delivery = "submitting"
      /\ asked' = asked /\ planning' = planning /\ ledger' = ledger /\ accepted' = accepted
      /\ QueueIdles
      /\ ops' = [ops EXCEPT ![Op(s)] = "submitting"]
  BY <1>2, Unqueued DEF Lock, Unchanged, Restored, Saved, queueVars
<1>5. SameRows /\ (\A w \in Worker : SameRun(w)) /\ sent' = sent
  BY <1>4 DEF QueueIdles
<1>6. VersionsTell' /\ Executes' /\ NoneOpen' /\ OneOpenJob'
  <2>1. draft.text <= draft.version
    BY DEF VersionsTell
  <2> QED BY <1>0, <1>1, <1>4, <1>5, <2>1, SenderWrites DEF Goes, SameRun
<1>7. \A t \in Sender : ~Holder(t)
  BY <1>3 DEF Locked, Held
<1>8. /\ sending'[s].phase = "locked" /\ sending'[s].op = Op(s)
      /\ sending'[s].original = draft
      /\ \A t \in Sender \ {s} : sending'[t] = sending[t] /\ ~Holder(t)'
  BY <1>1, <1>2, <1>4, <1>7 DEF Goes, Moves, Holder, Op
<1>9. \A k \in Operation : ops'[k] = "accepted" => ops[k] = "accepted"
  BY <1>4, Parts
<1>10. Locked'
  <2>1. \A t \in Sender : Sendable(t)' <=> Sendable(t)
    BY <1>1, <1>4, StillSendable DEF Goes
  <2>2. \A t \in Sender : sending'[t].phase \in {"preparing", "reviewing"} \/ Holder(t)' =>
                            Sendable(t)'
    BY <1>1, <1>8, <2>1 DEF Locked
  <2>3. \A t \in Sender : Holder(t)' => Held(t)'
    BY <1>0, <1>3, <1>4, <1>8 DEF Held
  <2>4. \A t \in Sender : sending'[t].phase \in {"stored", "recorded", "done"} => draft'.folder = "sent"
    BY <1>4, <1>8 DEF Locked
  <2>5. \A k \in Operation : ops'[k] = "accepted" => draft'.folder = "sent"
    BY <1>4, <1>9 DEF Locked
  <2> QED BY <1>8, <2>2, <2>3, <2>4, <2>5 DEF Locked
<1>11. LedgerOnce'
  <2>1. Op(s) \in Operation /\ \A k \in Operation : asked[k].version \in Nat
    BY <1>1, Parts DEF Executes
  <2>2. ledger[Op(s)] = "none"
    BY <1>0, <1>1, <2>1 DEF LedgerOnce
  <2>3. \A k \in Operation : ledger'[k] # "none" => 0 < asked'[k].version /\ asked'[k].version < draft'.version
    BY <1>0, <1>4, <2>1 DEF LedgerOnce
  <2>4. \A t \in Sender : sending'[t].phase = "locked" => ledger'[Op(t)'] = "none"
    BY <1>4, <1>8, <2>2 DEF LedgerOnce, Op
  <2>5. \A t \in Sender : sending'[t].phase \in {"posting", "answered", "replied"} => Op(t)' \notin Local
    BY <1>8 DEF LedgerOnce, Op
  <2> QED BY <2>3, <2>4, <2>5 DEF LedgerOnce
<1>12. Truthful'
  BY <1>3, <1>4 DEF Truthful
<1>13. RunTruthful'
  <2>1. ASSUME NEW w \in Worker PROVE RunKnows(w)'
    <3>1. CASE w = s
      BY <1>1, <1>4, <1>5, <1>8, <3>1 DEF RunTruthful, RunKnows, SameRun, Active
    <3>2. CASE w # s
      BY <1>4, <1>5, <1>8, <3>2, SameRunKnows DEF RunTruthful, Sender
    <3> QED BY <3>1, <3>2
  <2> QED BY <1>4, <1>5, <1>9, <2>1, KeepRuns DEF Operation
<1>14. AcceptedOnce' /\ TextAsAsked'
  BY <1>4, KeepAccepted
<1> QED BY <1>6, <1>10, <1>11, <1>12, <1>13, <1>14

(* The record becomes the sent message.                                    *)
LEMMA Sends ==
  ASSUME IInv, NEW s \in Sender, Holder(s), sending[s].phase # "failing", Goes(s, "stored"),
         draft'.version = draft.version + 1, draft'.text = draft.text, draft'.folder = "sent",
         draft'.delivery = "accepted", asked' = asked, planning' = planning, ops' = ops,
         ledger' = ledger, SameRows,
         \A w \in Worker : run'[w].phase = run[w].phase /\ run'[w].job = run[w].job,
         \A w \in Worker \ {s} : SameRun(w),
         s \in Worker => run'[s].submitted,
         \A j \in Job : sent[j] > 0 => sent'[j] > 0,
         AcceptedOnce', TextAsAsked',
         \A i \in 1..Len(accepted') : asked[accepted'[i].op].version > 0
  PROVE  MailInv'
<1> USE DEF IInv, MailInv
<1>0. draft.version \in Nat /\ draft.text \in Nat
  BY Parts
<1>1. /\ sending'[s].phase = "stored" /\ Active(s)
      /\ \A t \in Sender \ {s} : sending'[t] = sending[t]
  BY DEF Goes, Moves, Holder, Active
<1>2. VersionsTell' /\ Executes' /\ NoneOpen' /\ OneOpenJob'
  <2>1. draft.text <= draft.version
    BY DEF VersionsTell
  <2> QED BY <1>0, <1>1, <2>1, SenderWrites DEF Goes
<1>3. ASSUME NEW t \in Sender PROVE sending'[t].phase \notin {"locked", "posting", "answered", "replied"}
  <2>1. CASE t = s
    BY <1>1, <2>1
  <2>2. CASE t # s
    BY <1>1, <2>2, OnlyHolder DEF Holder
  <2> QED BY <2>1, <2>2
<1>4. Locked'
  <2>1. \A t \in Sender : Sendable(t)' <=> Sendable(t)
    BY StillSendable DEF Goes
  <2>2. \A t \in Sender : ~Holder(t)'
    BY <1>3 DEF Holder
  <2>3. \A t \in Sender : sending'[t].phase \in {"preparing", "reviewing"} => Sendable(t)'
    BY <1>1, <2>1 DEF Locked
  <2> QED BY <2>2, <2>3 DEF Locked
<1>5. LedgerOnce'
  <2>1. \A k \in Operation : asked[k].version \in Nat
    BY Parts
  <2>2. \A k \in Operation : ledger'[k] # "none" => 0 < asked'[k].version /\ asked'[k].version < draft'.version
    BY <1>0, <2>1 DEF LedgerOnce
  <2> QED BY <1>3, <2>2 DEF LedgerOnce
<1>6. Truthful'
  BY <1>3 DEF Truthful
<1>7. RunTruthful'
  <2>1. ASSUME NEW w \in Worker PROVE RunKnows(w)'
    <3>1. CASE w = s
      BY <1>1, <3>1 DEF RunTruthful, RunKnows, Active
    <3>2. CASE w # s
      BY <1>1, <3>2, SameRunKnows DEF RunTruthful, Sender
    <3> QED BY <3>1, <3>2
  <2> QED BY <2>1, KeepRuns
<1> QED BY <1>2, <1>4, <1>5, <1>6, <1>7

LEMMA StoreSentStep ==
  ASSUME IInv, NEW s \in Sender, StoreSent(s) PROVE MailInv'
<1> USE DEF IInv, MailInv
<1>1. sending[s].phase = "replied" /\ Goes(s, "stored") /\ Holder(s)
  BY Parts, Entering DEF StoreSent, InPhase, Holder
<1>2. sending[s].original.text = draft.text
  BY <1>1 DEF Locked, Held
<1>3. /\ draft'.version = draft.version + 1 /\ draft'.text = draft.text /\ draft'.folder = "sent"
      /\ draft'.delivery = "accepted" /\ asked' = asked /\ planning' = planning /\ ops' = ops
      /\ ledger' = ledger /\ QueueIdles /\ accepted' = accepted
  BY <1>2, Unqueued DEF StoreSent, Restored, Saved, queueVars
<1>4. SameRows /\ (\A w \in Worker : SameRun(w)) /\ sent' = sent
  BY <1>3 DEF QueueIdles
<1>5. s \in Worker => run'[s].submitted
  BY <1>1, <1>4 DEF RunTruthful, RunKnows, SameRun
<1>6. AcceptedOnce' /\ TextAsAsked' /\ \A i \in 1..Len(accepted') : asked[accepted'[i].op].version > 0
  BY <1>3, KeepAccepted
<1> QED BY <1>1, <1>3, <1>4, <1>5, <1>6, Sends DEF SameRun

LEMMA DeliverLocallyStep ==
  ASSUME IInv, NEW s \in Sender, DeliverLocally(s) PROVE MailInv'
<1> USE DEF IInv, MailInv
<1>1. sending[s].phase = "locked" /\ Active(s) /\ Goes(s, "stored") /\ Holder(s) /\ accepted = <<>>
  BY Parts, Entering DEF DeliverLocally, InPhase, Holder, Truthful, Active
<1>2. Op(s) \in Operation /\ asked[Op(s)].version > 0 /\ asked[Op(s)].text = draft.text
  BY <1>1 DEF Executes, Locked, Held, Sendable, VersionsTell, SameText
<1>3. /\ draft'.version = draft.version + 1 /\ draft'.text = draft.text /\ draft'.folder = "sent"
      /\ draft'.delivery = "accepted" /\ asked' = asked /\ planning' = planning /\ ops' = ops
      /\ ledger' = ledger
  BY DEF DeliverLocally, Saved
<1>4. accepted' = <<[op |-> Op(s), text |-> draft.text, live |-> sending[s].reviewed]>>
  BY <1>1 DEF DeliverLocally, Submitted
<1>5. AcceptedOnce' /\ TextAsAsked' /\ \A i \in 1..Len(accepted') : asked[accepted'[i].op].version > 0
  BY <1>2, <1>3, <1>4 DEF AcceptedOnce, TextAsAsked
<1>6. \A j \in Job : sent[j] \in Nat
  BY DEF TypeOK, Queue!TypeOK
<1>7. CASE s \in Worker
  <2>1. Queue!Submit(s)
    BY <1>7 DEF DeliverLocally, Submitted
  <2>2. run[s].phase = "handling" /\ \A j \in Job : sent'[j] \in Nat
    BY <1>6, <1>7, <2>1 DEF Queue!Submit, TypeOK, Queue!TypeOK, Queue!Delivery
  <2>3. /\ SameRows /\ Others(s) /\ run'[s].phase = "handling" /\ run'[s].job = run[s].job
        /\ run'[s].submitted
        /\ \A j \in Job : sent'[j] >= sent[j]
    BY <1>7, <2>1, HandlerSubmits
  <2>4. \A j \in Job : sent[j] > 0 => sent'[j] > 0
    BY <1>6, <2>2, <2>3
  <2>5. \A w \in Worker \ {s} : SameRun(w)
    BY <2>3 DEF Others
  <2>6. \A w \in Worker : run'[w].phase = run[w].phase /\ run'[w].job = run[w].job
    BY <2>2, <2>3, <2>5 DEF SameRun
  <2> QED BY <1>1, <1>3, <1>5, <2>3, <2>4, <2>5, <2>6, Sends
<1>8. CASE s \notin Worker
  <2>1. QueueIdles
    BY <1>8, Unqueued DEF DeliverLocally, Submitted, queueVars
  <2>2. SameRows /\ (\A w \in Worker : SameRun(w)) /\ sent' = sent
    BY <2>1 DEF QueueIdles
  <2> QED BY <1>1, <1>3, <1>5, <1>8, <2>2, Sends DEF SameRun
<1> QED BY <1>7, <1>8

LEMMA StoreFailureStep ==
  ASSUME IInv, NEW s \in Sender, StoreFailure(s), draft.folder # "sent" PROVE MailInv'
<1> USE DEF IInv, MailInv
<1>0. draft.version \in Nat /\ draft.text \in Nat
  BY Parts
<1>1. sending[s].phase = "failing" /\ Active(s) /\ Goes(s, "storedFailure") /\ Holder(s)
  BY Parts, Entering DEF StoreFailure, InPhase, Holder, Active
<1>2. /\ Held(s) /\ Sendable(s) /\ \A t \in Sender : Holder(t) => t = s
      /\ \A t \in Sender : sending[t].phase \notin {"stored", "recorded", "done"}
      /\ \A k \in Operation : ops[k] # "accepted"
  BY <1>1, OnlyHolder
<1>3. /\ draft'.version = draft.version + 1 /\ draft'.text = draft.text
      /\ draft'.folder = sending[s].original.folder
      /\ draft'.delivery = IF sending[s].uncertain THEN "unknown" ELSE "failed"
      /\ asked' = asked /\ planning' = planning /\ ops' = ops
      /\ ledger' = ledger /\ QueueIdles /\ accepted' = accepted
  BY <1>2, Unqueued DEF StoreFailure, Restored, Saved, Held, queueVars
<1>4. SameRows /\ (\A w \in Worker : SameRun(w)) /\ sent' = sent
  BY <1>3 DEF QueueIdles
<1>5. draft'.folder # "sent"
  BY <1>2, <1>3 DEF Sendable
<1>6. VersionsTell' /\ Executes' /\ NoneOpen' /\ OneOpenJob'
  <2>1. draft.text <= draft.version
    BY DEF VersionsTell
  <2> QED BY <1>0, <1>1, <1>3, <1>4, <2>1, SenderWrites DEF Goes, SameRun
<1>7. /\ sending'[s].phase = "storedFailure" /\ sending'[s].uncertain = sending[s].uncertain
      /\ \A t \in Sender \ {s} : sending'[t] = sending[t]
  BY <1>1 DEF Goes, Moves
<1>8. \A t \in Sender : /\ sending'[t].phase \notin {"locked", "posting", "answered", "replied", "failing",
                                                     "stored", "recorded", "done"}
                        /\ sending'[t].phase \in {"preparing", "reviewing"} => sending'[t] = sending[t]
  <2> SUFFICES ASSUME NEW t \in Sender
      PROVE  /\ sending'[t].phase \notin {"locked", "posting", "answered", "replied", "failing",
                                                     "stored", "recorded", "done"}
             /\ sending'[t].phase \in {"preparing", "reviewing"} => sending'[t] = sending[t]
    OBVIOUS
  <2>1. CASE t = s
    BY <1>7, <2>1
  <2>2. CASE t # s
    BY <1>2, <1>7, <2>2 DEF Holder
  <2> QED BY <2>1, <2>2
<1>9. Locked'
  <2>1. \A t \in Sender : Sendable(t)' <=> Sendable(t)
    BY <1>1, <1>3, StillSendable DEF Goes
  <2>2. \A t \in Sender : ~Holder(t)'
    BY <1>8 DEF Holder
  <2>3. \A t \in Sender : sending'[t].phase \in {"preparing", "reviewing"} => Sendable(t)'
    BY <1>8, <2>1 DEF Locked
  <2> QED BY <1>2, <1>3, <1>8, <2>2, <2>3 DEF Locked
<1>10. LedgerOnce'
  <2>1. \A k \in Operation : asked[k].version \in Nat
    BY Parts
  <2>2. \A k \in Operation : ledger'[k] # "none" => 0 < asked'[k].version /\ asked'[k].version < draft'.version
    BY <1>0, <1>3, <2>1 DEF LedgerOnce
  <2> QED BY <1>8, <2>2 DEF LedgerOnce
<1>11. Truthful'
  <2>1. accepted # <<>> => sending[s].uncertain
    BY <1>1 DEF Truthful
  <2> QED BY <1>3, <1>8, <2>1 DEF Truthful
<1>12. RunTruthful'
  <2>1. ASSUME NEW w \in Worker PROVE RunKnows(w)'
    <3>1. CASE w = s
      BY <1>1, <1>4, <1>7, <3>1 DEF RunTruthful, RunKnows, SameRun, Active, Executes
    <3>2. CASE w # s
      BY <1>4, <1>7, <3>2, SameRunKnows DEF RunTruthful, Sender
    <3> QED BY <3>1, <3>2
  <2> QED BY <1>3, <1>4, <2>1, KeepRuns
<1>13. AcceptedOnce' /\ TextAsAsked'
  BY <1>3, KeepAccepted
<1> QED BY <1>6, <1>9, <1>10, <1>11, <1>12, <1>13

-----------------------------------------------------------------------------
(* Steps of users and of the queue.                                        *)

(* A step that leaves the senders and what they write alone, and the       *)
(* draft's delivery, and that writes no text while the draft is locked.    *)
LEMMA UserWrites ==
  ASSUME IInv, sending' = sending, ops' = ops, ledger' = ledger, accepted' = accepted,
         draft'.version = draft.version + 1, draft'.text \in Nat, draft'.text <= draft'.version,
         draft'.delivery = draft.delivery, draft.folder # "sent", draft'.folder # "sent",
         draft'.text = draft.text \/ draft.delivery # "submitting",
         \A k \in Operation : \/ asked'[k] = asked[k]
                              \/ /\ asked[k].version = 0
                                 /\ asked'[k].version = draft'.version
                                 /\ asked'[k].text = draft'.text /\ draft'.folder = "outbox",
         \A r \in Request : planning'[r].phase # "idle" =>
           planning[r].phase # "idle" /\ planning'[r].version = planning[r].version,
         \A w \in Worker : SameRun(w), sent' = sent,
         \A j \in Job : jobs'[j].status = "absent" <=> asked'[j].version = 0,
         \A j \in Job : jobs'[j].status = "accepted" => jobs[j].status = "accepted",
         OneOpenJob'
  PROVE  MailInv'
<1> USE DEF IInv, MailInv
<1>0. /\ draft.version \in Nat /\ \A r \in Request : planning[r].version \in Nat
      /\ \A k \in Operation : asked[k].version \in Nat
      /\ \A s \in Sender : sending[s].original.version \in Nat
  BY Parts
<1>1. Carries
  BY DEF Carries, Active
<1>2. VersionsTell'
  BY <1>1, WriteVersions
<1>3. \A k \in Operation : asked[k].version > 0 => asked'[k] = asked[k]
  OBVIOUS
<1>4. Executes'
  <2>1. \A w \in Worker : run'[w].phase = run[w].phase /\ run'[w].job = run[w].job
    BY DEF SameRun
  <2> QED BY <1>1, <1>3, <2>1, KeepExecutes
<1>5. \A s \in Sender : Active(s) => Op(s) \in Operation /\ asked'[Op(s)] = asked[Op(s)]
  BY <1>3 DEF Executes
<1>6. Locked'
  <2>1. \A s \in Sender : Holder(s)' <=> Holder(s)
    BY DEF Holder
  <2>2. \A s \in Sender : Active(s) => (Sendable(s)' <=> Sendable(s))
    BY <1>5 DEF Sendable, Op
  <2>3. ASSUME NEW s \in Sender, Holder(s) PROVE Held(s)'
    BY <1>0, <2>3 DEF Locked, Held
  <2>4. \A s \in Sender : sending[s].phase \in {"preparing", "reviewing"} \/ Holder(s) => Active(s)
    BY DEF Holder, Active
  <2> QED BY <2>1, <2>2, <2>3, <2>4 DEF Locked
<1>7. LedgerOnce'
  <2>1. ASSUME NEW k \in Operation, ledger'[k] # "none"
        PROVE  0 < asked'[k].version /\ asked'[k].version < draft'.version
    <3>1. 0 < asked[k].version /\ asked[k].version < draft.version
      BY <2>1 DEF LedgerOnce
    <3> QED BY <1>0, <1>3, <3>1
  <2>2. \A s \in Sender : Op(s)' = Op(s)
    BY DEF Op
  <2> QED BY <2>1, <2>2 DEF LedgerOnce
<1>8. AcceptedOnce' /\ TextAsAsked' /\ \A i \in 1..Len(accepted') : asked'[accepted'[i].op].version > 0
  BY <1>3, KeepAccepted
<1>9. Truthful'
  BY <1>8 DEF Truthful
<1>10. RunTruthful'
  <2>1. \A w \in Worker : RunKnows(w)'
    BY SameRunKnows DEF RunTruthful
  <2> QED BY <2>1 DEF RunTruthful
<1>11. NoneOpen'
  <2>1. ASSUME NEW r \in Request,
               planning'[r].phase = "checked", planning'[r].version = draft'.version
        PROVE  FALSE
    <3>1. planning[r].version <= draft.version /\ planning'[r].version = planning[r].version
      BY <2>1 DEF VersionsTell, PlanSaw
    <3> QED BY <1>0, <2>1, <3>1
  <2> QED BY <2>1 DEF NoneOpen
<1> QED BY <1>2, <1>4, <1>6, <1>7, <1>8, <1>9, <1>10, <1>11

(* What reads the draft, the senders and their tables only.                *)
LEMMA MailStays ==
  ASSUME MailInv, UNCHANGED <<draft, asked, ops, ledger, sending, accepted>>
  PROVE  Locked' /\ LedgerOnce' /\ Truthful' /\ AcceptedOnce' /\ TextAsAsked'
<1> USE DEF MailInv
<1>1. Locked'
  BY DEF Locked, Holder, Held, Sendable, Op
<1>2. LedgerOnce'
  BY DEF LedgerOnce, Op
<1>3. Truthful'
  BY DEF Truthful
<1>4. AcceptedOnce' /\ TextAsAsked'
  BY DEF AcceptedOnce, TextAsAsked
<1> QED BY <1>1, <1>2, <1>3, <1>4

LEMMA EditStep == ASSUME IInv, Edit PROVE MailInv'
<1> USE DEF IInv, MailInv
<1>1. draft.version \in Nat
  BY Parts
<1>2. /\ draft'.version = draft.version + 1 /\ draft'.text = draft.version + 1
      /\ draft'.folder # "sent" /\ draft'.delivery = draft.delivery
      /\ draft.folder # "sent" /\ draft.delivery # "submitting"
      /\ asked' = asked /\ ops' = ops /\ ledger' = ledger /\ sending' = sending
      /\ planning' = planning /\ accepted' = accepted /\ jobs' = jobs /\ QueueIdles
  BY Unqueued DEF Edit, Edited, Saved, queueVars
<1>3. (\A w \in Worker : SameRun(w)) /\ sent' = sent
  BY <1>2 DEF QueueIdles
<1>4. OneOpenJob'
  BY <1>2 DEF OneOpenJob, Unresolved
<1>5. \A j \in Job : jobs'[j].status = "absent" <=> asked'[j].version = 0
  BY <1>2 DEF Executes
<1> QED BY <1>1, <1>2, <1>3, <1>4, <1>5, UserWrites

LEMMA PlanCommitStep == ASSUME IInv, NEW r \in Request, PlanCommit(r) PROVE MailInv'
<1> USE DEF IInv, MailInv
<1>0. /\ draft.version \in Nat /\ draft.text \in Nat /\ \A q \in Request : planning[q].version \in Nat
      /\ planning \in [Request -> Planning] /\ asked \in [Operation -> Seen]
  BY Parts
<1>1. /\ planning[r].phase = "checked" /\ planning'[r].phase = "idle"
      /\ \A q \in Request \ {r} : planning'[q] = planning[q]
      /\ ops' = ops /\ ledger' = ledger /\ sending' = sending /\ accepted' = accepted
  BY <1>0 DEF PlanCommit, NotPlanning
<1>2. CASE draft.version # planning[r].version
  <2>1. draft' = draft /\ asked' = asked /\ QueueIdles /\ jobs' = jobs
    BY <1>2, Unqueued DEF PlanCommit, queueVars
  <2>2. SameRows /\ (\A w \in Worker : SameRun(w)) /\ sent' = sent
    BY <2>1 DEF QueueIdles
  <2>3. VersionsTell'
    BY <1>1, <2>1, KeepVersions DEF Carries, Active
  <2>4. Executes'
    BY <1>1, <2>1, <2>2 DEF Executes, SameRun, Active, Op
  <2>5. Locked' /\ LedgerOnce' /\ Truthful' /\ AcceptedOnce' /\ TextAsAsked'
    BY <1>1, <2>1, MailStays
  <2>8. RunTruthful'
    <3>1. \A w \in Worker : RunKnows(w)'
      BY <1>1, <2>1, <2>2, SameRunKnows DEF RunTruthful
    <3> QED BY <1>1, <2>1, <2>2, <3>1 DEF RunTruthful
  <2>9. NoneOpen' /\ OneOpenJob'
    BY <1>1, <2>1, KeepOpen DEF Unresolved
  <2> QED BY <2>3, <2>4, <2>5, <2>8, <2>9
<1>3. CASE draft.version = planning[r].version
  <2>1. PICK j \in setup.jobs, delay \in Queue!Delay :
          /\ Queue!Enqueue(j, delay)
          /\ asked' = [asked EXCEPT ![j] = [version |-> draft.version + 1, text |-> draft.text,
                                            live |-> live]]
          /\ draft' = Scheduled(j)
    BY <1>3 DEF PlanCommit
  <2>2. j \in Job /\ j \in Operation
    BY ScheduledSendAssumption DEF TypeOK, Operation
  <2>3. /\ draft'.version = draft.version + 1 /\ draft'.text = draft.text
        /\ draft'.folder = "outbox" /\ draft'.delivery = draft.delivery
    BY <2>1 DEF Scheduled, Saved
  <2>4. draft.folder # "sent"
    BY <1>1, <1>3 DEF VersionsTell, PlanSaw
  <2>5. /\ jobs[j].status = "absent" /\ jobs'[j].status = "pending"
        /\ \A i \in Job \ {j} : jobs'[i] = jobs[i]
        /\ run' = run /\ sent' = sent
    <3>1. jobs \in [Job -> Queue!Row]
      BY DEF TypeOK, Queue!TypeOK
    <3> QED BY <2>1, <2>2, <3>1 DEF Queue!Enqueue, Queue!Row
  <2>6. asked[j].version = 0
    BY <2>2, <2>5 DEF Executes
  <2>7. /\ asked'[j].version = draft.version + 1 /\ asked'[j].text = draft.text
        /\ \A k \in Operation \ {j} : asked'[k] = asked[k]
    BY <1>0, <2>1, <2>2
  <2>8. \A w \in Worker : SameRun(w)
    BY <2>5 DEF SameRun
  <2>9. \A i \in Job : ~Unresolved(i)
    BY <1>1, <1>3 DEF NoneOpen
  <2>10. OneOpenJob'
    BY <2>5, <2>9 DEF OneOpenJob, Unresolved
  <2>11. \A i \in Job : jobs'[i].status = "absent" <=> asked'[i].version = 0
    <3>1. \A i \in Job : i \in Operation
      BY DEF Operation
    <3> QED BY <1>0, <2>5, <2>7, <3>1 DEF Executes
  <2>12. \A i \in Job : jobs'[i].status = "accepted" => jobs[i].status = "accepted"
    BY <2>5
  <2>13. draft.text <= draft.version
    BY DEF VersionsTell
  <2>14. draft'.text \in Nat /\ draft'.text <= draft'.version /\ draft'.folder # "sent"
    BY <1>0, <2>3, <2>13
  <2> QED BY <1>1, <2>3, <2>4, <2>5, <2>6, <2>7, <2>8, <2>10, <2>11, <2>12, <2>14, UserWrites
<1> QED BY <1>2, <1>3

(* A step that leaves the draft alone, or writes like a user.              *)
LEMMA CancelStep == ASSUME IInv, NEW j \in Job, Cancel(j) PROVE MailInv'
<1> USE DEF IInv, MailInv
<1>0. draft.version \in Nat /\ draft.text \in Nat
  BY Parts
<1>1. /\ asked' = asked /\ ops' = ops /\ ledger' = ledger /\ sending' = sending
      /\ planning' = planning /\ accepted' = accepted
  BY DEF Cancel
<1>2. /\ jobs[j].status = "pending" /\ jobs'[j].status = "cancelled"
      /\ \A i \in Job \ {j} : jobs'[i] = jobs[i]
      /\ run' = run /\ sent' = sent
  <2>1. jobs \in [Job -> Queue!Row]
    BY DEF TypeOK, Queue!TypeOK
  <2> QED BY <2>1 DEF Cancel, Queue!Cancel, Queue!Row
<1>3. \A w \in Worker : SameRun(w)
  BY <1>2 DEF SameRun
<1>4. \A i \in Job : Unresolved(i)' => Unresolved(i)
  BY <1>2 DEF Unresolved
<1>5. OneOpenJob'
  BY <1>4 DEF OneOpenJob
<1>6. \A i \in Job : jobs'[i].status = "absent" <=> asked'[i].version = 0
  BY <1>1, <1>2 DEF Executes
<1>7. \A i \in Job : jobs'[i].status = "accepted" => jobs[i].status = "accepted"
  BY <1>2
<1>8. CASE draft.job = j /\ draft.version = asked[j].version
  <2>1. draft.folder = "outbox"
    BY <1>8 DEF VersionsTell, AskedSaw, Operation
  <2>2. /\ draft'.version = draft.version + 1 /\ draft'.text = draft.text
        /\ draft'.folder = "drafts" /\ draft'.delivery = draft.delivery
    BY <1>8 DEF Cancel, Saved
  <2>3. draft'.text <= draft'.version
    BY <1>0, <2>2 DEF VersionsTell
  <2> QED BY <1>0, <1>1, <1>2, <1>3, <1>5, <1>6, <1>7, <2>1, <2>2, <2>3, UserWrites
<1>9. CASE ~(draft.job = j /\ draft.version = asked[j].version)
  <2>1. draft' = draft
    BY <1>9 DEF Cancel
  <2>2. VersionsTell'
    BY <1>1, <2>1, KeepVersions DEF Carries, Active
  <2>3. Executes'
    BY <1>1, <1>2, <1>3, <1>6 DEF Executes, Active, Op
  <2>4. Locked' /\ LedgerOnce' /\ Truthful' /\ AcceptedOnce' /\ TextAsAsked'
    BY <1>1, <2>1, MailStays
  <2>7. RunTruthful'
    <3>1. \A w \in Worker : RunKnows(w)'
      BY <1>1, <1>3, <2>1, SameRunKnows DEF RunTruthful
    <3> QED BY <1>1, <1>2, <1>7, <2>1, <3>1 DEF RunTruthful
  <2>8. NoneOpen'
    BY <1>1, <1>4, <2>1, KeepOpen
  <2> QED BY <1>5, <2>2, <2>3, <2>4, <2>7, <2>8
<1> QED BY <1>8, <1>9

LEMMA PressStep == ASSUME IInv, NEW c \in Click, Press(c) PROVE MailInv'
<1> USE DEF IInv, MailInv
<1>0. /\ draft.version \in Nat /\ asked \in [Operation -> Seen]
      /\ \A s \in Sender : sending[s].original.version \in Nat
  BY Parts
<1>1. /\ draft' = draft /\ ops' = ops /\ ledger' = ledger /\ sending' = sending
      /\ planning' = planning /\ accepted' = accepted /\ jobs' = jobs /\ run' = run
      /\ sent' = sent
  BY DEF Press, queueVars
<1>2. /\ asked[c].version = 0 /\ asked'[c].version = draft.version /\ asked'[c].text = draft.text
      /\ \A k \in Operation \ {c} : asked'[k] = asked[k]
  BY <1>0 DEF Press, Unasked, Operation
<1>3. \A k \in Operation : asked[k].version > 0 => asked'[k] = asked[k]
  BY <1>2
<1>4. c \notin Job /\ c \in Operation
  BY ScheduledSendAssumption DEF Operation
<1>5. VersionsTell'
  <2>1. \A k \in Operation : AskedSaw(k)'
    BY <1>0, <1>1, <1>2, <1>4 DEF VersionsTell, AskedSaw
  <2>2. ASSUME NEW s \in Sender, NEW k \in Operation PROVE SameText(s, k)'
    <3>1. CASE k = c
      BY <1>1, <1>2, <3>1 DEF VersionsTell, SenderSaw, SameText, Active
    <3>2. CASE k # c
      BY <1>1, <1>2, <3>2 DEF VersionsTell, SameText, Active
    <3> QED BY <3>1, <3>2
  <2>3. (\A s \in Sender : SenderSaw(s)') /\ (\A r \in Request : PlanSaw(r)')
    BY <1>1 DEF VersionsTell, SenderSaw, PlanSaw, Active
  <2> QED BY <1>1, <2>1, <2>2, <2>3 DEF VersionsTell
<1>6. Executes'
  <2>1. \A j \in Job : jobs'[j].status = "absent" <=> asked'[j].version = 0
    BY <1>1, <1>2, <1>4 DEF Executes, Operation
  <2> QED BY <1>1, <1>3, <2>1 DEF Executes, Active, Op
<1>7. Locked'
  <2>1. \A s \in Sender : (Holder(s)' <=> Holder(s)) /\ (Held(s)' <=> Held(s))
    BY <1>1 DEF Holder, Held
  <2>2. \A s \in Sender : Active(s) => asked'[Op(s)] = asked[Op(s)]
    BY <1>3 DEF Executes
  <2>3. \A s \in Sender : Active(s) => (Sendable(s)' <=> Sendable(s))
    BY <1>1, <2>2 DEF Sendable, Op
  <2>4. \A s \in Sender : sending[s].phase \in {"preparing", "reviewing"} \/ Holder(s) => Active(s)
    BY DEF Holder, Active
  <2> QED BY <1>1, <2>1, <2>3, <2>4 DEF Locked
<1>8. LedgerOnce'
  BY <1>1, <1>3 DEF LedgerOnce, Op
<1>9. AcceptedOnce' /\ TextAsAsked' /\ \A i \in 1..Len(accepted') : asked'[accepted'[i].op].version > 0
  BY <1>1, <1>3, KeepAccepted
<1>10. Truthful'
  BY <1>1, <1>9 DEF Truthful
<1>11. RunTruthful'
  BY <1>1 DEF RunTruthful, RunKnows, Active
<1>12. NoneOpen' /\ OneOpenJob'
  BY <1>1 DEF NoneOpen, OneOpenJob, Unresolved
<1> QED BY <1>5, <1>6, <1>7, <1>8, <1>9, <1>10, <1>11, <1>12

LEMMA PlanStep ==
  ASSUME IInv, NEW r \in Request, PlanRead(r) \/ PlanCheck(r) PROVE MailInv'
<1> USE DEF IInv, MailInv
<1>0. draft.version \in Nat /\ planning \in [Request -> Planning]
  BY Parts
<1>1. /\ draft' = draft /\ asked' = asked /\ ops' = ops /\ ledger' = ledger
      /\ sending' = sending /\ accepted' = accepted /\ jobs' = jobs /\ run' = run /\ sent' = sent
      /\ \A q \in Request \ {r} : planning'[q] = planning[q]
  BY <1>0 DEF PlanRead, PlanCheck, queueVars
<1>2. \/ planning'[r].phase = "idle"
      \/ /\ planning'[r].phase = "read" /\ planning'[r].version = draft.version
         /\ draft.folder # "sent"
      \/ /\ planning'[r].phase = "checked" /\ planning'[r].version = planning[r].version
         /\ planning[r].phase = "read"
         /\ \A j \in Job : ~Unresolved(j)
  BY <1>0 DEF PlanRead, PlanCheck, NotPlanning
<1>3. VersionsTell'
  <2>1. ASSUME NEW q \in Request PROVE PlanSaw(q)'
    <3>1. CASE q = r
      BY <1>0, <1>1, <1>2, <3>1 DEF VersionsTell, PlanSaw
    <3>2. CASE q # r
      BY <1>1, <3>2 DEF VersionsTell, PlanSaw
    <3> QED BY <3>1, <3>2
  <2>2. \A s \in Sender : SenderSaw(s)'
    BY <1>1 DEF VersionsTell, SenderSaw, Active
  <2>3. (\A k \in Operation : AskedSaw(k)') /\ \A s \in Sender, k \in Operation : SameText(s, k)'
    BY <1>1 DEF VersionsTell, AskedSaw, SameText, Active
  <2> QED BY <1>1, <2>1, <2>2, <2>3 DEF VersionsTell
<1>4. Executes'
  BY <1>1 DEF Executes, Active, Op
<1>5. Locked' /\ LedgerOnce' /\ Truthful' /\ AcceptedOnce' /\ TextAsAsked'
  BY <1>1, MailStays
<1>6. RunTruthful'
  BY <1>1 DEF RunTruthful, RunKnows, Active
<1>7. NoneOpen'
  BY <1>1, <1>2 DEF NoneOpen, Unresolved
<1>8. OneOpenJob'
  BY <1>1 DEF OneOpenJob, Unresolved
<1> QED BY <1>3, <1>4, <1>5, <1>6, <1>7, <1>8

LEMMA OpenStep ==
  ASSUME IInv, NEW s \in Sender, NEW k \in Operation, Open(s, k) PROVE MailInv'
<1> USE DEF IInv, MailInv
<1>0. draft.version \in Nat /\ sending \in [Sender -> Sending] /\ asked[k].version \in Nat
      /\ asked[k].text \in Nat
  BY Parts
<1>1. /\ draft' = draft /\ asked' = asked /\ ops' = ops /\ ledger' = ledger
      /\ planning' = planning /\ accepted' = accepted /\ jobs' = jobs /\ run' = run /\ sent' = sent
      /\ sending[s].phase = "idle" /\ sending'[s].phase = "opened" /\ sending'[s].op = k
      /\ sending'[s].original = draft
      /\ \A t \in Sender \ {s} : sending'[t] = sending[t]
  BY <1>0 DEF Open, Called, InPhase, queueVars
<1>2. \/ s \in Worker /\ run[s].phase = "handling" /\ run[s].job = k /\ k \in Job
      \/ s \in Request /\ k \in Click /\ asked[k] # Unasked
  BY DEF Open, Called, Executes
<1>3. asked[k].version > 0
  <2>1. CASE s \in Worker /\ run[s].job = k /\ run[s].phase = "handling" /\ k \in Job
    <3>1. jobs[k].status # "absent"
      BY <2>1 DEF QP!IInv, QP!DeliveryInv, QP!OwnedOrUnknown, QP!Busy, QP!Delivery
    <3> QED BY <1>0, <2>1, <3>1 DEF Executes
  <2>2. CASE asked[k] # Unasked
    BY <1>0, <2>2 DEF VersionsTell, AskedSaw
  <2> QED BY <1>2, <2>1, <2>2
<1>4. VersionsTell'
  <2>1. \A t \in Sender : SenderSaw(t)'
    BY <1>0, <1>1 DEF VersionsTell, SenderSaw, Active
  <2>2. ASSUME NEW t \in Sender, NEW i \in Operation PROVE SameText(t, i)'
    <3>1. CASE t = s
      BY <1>1, <3>1 DEF VersionsTell, AskedSaw, SameText
    <3>2. CASE t # s
      BY <1>1, <3>2 DEF VersionsTell, SameText, Active
    <3> QED BY <3>1, <3>2
  <2>3. (\A i \in Operation : AskedSaw(i)') /\ \A r \in Request : PlanSaw(r)'
    BY <1>1 DEF VersionsTell, AskedSaw, PlanSaw
  <2> QED BY <1>1, <2>1, <2>2, <2>3 DEF VersionsTell
<1>5. Executes'
  <2>1. \A t \in Sender : Active(t)' => Op(t)' \in Operation /\ asked'[Op(t)'].version > 0
    BY <1>1, <1>3 DEF Executes, Active, Op
  <2>2. s \in Worker => s \notin Request
    BY ScheduledSendAssumption
  <2>3. \A r \in Request : Active(r)' => Op(r)' \in Click
    BY <1>1, <1>2, <2>2 DEF Executes, Active, Op, Sender
  <2>4. \A w \in Worker : Active(w)' => run'[w].phase = "handling" /\ run'[w].job = Op(w)'
    BY <1>1, <1>2, <2>2 DEF Executes, Active, Op, Sender
  <2> QED BY <1>1, <2>1, <2>3, <2>4 DEF Executes
<1>6. Locked'
  <2>1. ~Holder(s)'
    BY <1>1 DEF Holder
  <2>2. \A t \in Sender \ {s} : /\ Holder(t)' <=> Holder(t)
                                /\ Sendable(t)' <=> Sendable(t)
                                /\ Held(t)' <=> Held(t)
    BY <1>1 DEF Holder, Sendable, Held, Op
  <2> QED BY <1>1, <2>1, <2>2 DEF Locked
<1>7. LedgerOnce'
  BY <1>1 DEF LedgerOnce, Op
<1>8. Truthful'
  BY <1>1 DEF Truthful
<1>9. RunTruthful'
  <2>1. ASSUME NEW w \in Worker PROVE RunKnows(w)'
    <3>1. CASE w = s
      BY <1>1, <1>2, <3>1, ScheduledSendAssumption DEF RunTruthful, RunKnows, Active
    <3>2. CASE w # s
      BY <1>1, <3>2 DEF RunTruthful, RunKnows, Active, Sender
    <3> QED BY <3>1, <3>2
  <2> QED BY <1>1, <2>1 DEF RunTruthful
<1>10. NoneOpen' /\ OneOpenJob'
  BY <1>1 DEF NoneOpen, OneOpenJob, Unresolved
<1>11. AcceptedOnce' /\ TextAsAsked'
  BY <1>1 DEF AcceptedOnce, TextAsAsked
<1> QED BY <1>4, <1>5, <1>6, <1>7, <1>8, <1>9, <1>10, <1>11

LEMMA QueueStepStep == ASSUME IInv, QueueStep PROVE MailInv'
<1> USE DEF IInv, MailInv
<1>1. /\ draft' = draft /\ asked' = asked /\ ops' = ops /\ ledger' = ledger
      /\ sending' = sending /\ planning' = planning /\ accepted' = accepted
  BY DEF QueueStep, mailVars
<1>2. RunsGoOn /\ RowsGoOn /\ sent' = sent
  BY QueueAlone
<1>3. \A w \in Worker : Active(w) => SameRun(w)
  BY <1>2 DEF Executes, RunsGoOn
<1>4. VersionsTell'
  BY <1>1, KeepVersions DEF Carries, Active
<1>5. Executes'
  <2>1. \A w \in Worker : Active(w)' => run'[w].phase = run[w].phase /\ run'[w].job = run[w].job
    BY <1>1, <1>3 DEF Active, SameRun
  <2>2. \A w \in Worker : run'[w].phase = "handling" => run'[w].job \in Job \/ SameRun(w)
    BY <1>2 DEF RunsGoOn
  <2>3. \A j \in Job : jobs'[j].status = "absent" <=> asked'[j].version = 0
    BY <1>1, <1>2 DEF RowsGoOn, Executes
  <2> QED BY <1>1, <2>1, <2>2, <2>3, KeepExecutes DEF Carries, Active
<1>6. Locked' /\ LedgerOnce' /\ Truthful' /\ AcceptedOnce' /\ TextAsAsked'
  BY <1>1, MailStays
<1>7. RunTruthful'
  <2>1. ASSUME NEW w \in Worker PROVE RunKnows(w)'
    <3>1. CASE SameRun(w)
      BY <1>1, <3>1, SameRunKnows DEF RunTruthful
    <3>2. CASE ~SameRun(w)
      <4>1. ~Active(w)
        BY <1>3, <3>2
      <4>2. /\ run'[w].phase \in {"idle", "handling"}
            /\ run'[w].phase = "handling" => ~run'[w].submitted
        BY <1>2, <3>2 DEF RunsGoOn
      <4> QED BY <1>1, <4>1, <4>2 DEF RunKnows, Active
    <3> QED BY <3>1, <3>2
  <2>2. ASSUME NEW j \in Job, jobs'[j].status = "accepted" PROVE draft.folder = "sent"
    BY <1>2, <2>2 DEF RowsGoOn, RunTruthful, RunKnows
  <2> QED BY <1>1, <1>2, <2>1, <2>2 DEF RunTruthful
<1>8. NoneOpen' /\ OneOpenJob'
  BY <1>1, <1>2, KeepOpen DEF RowsGoOn
<1> QED BY <1>4, <1>5, <1>6, <1>7, <1>8

-----------------------------------------------------------------------------
(* The invariant holds of a draft nobody has sent.                         *)
LEMMA InitInv == Init => IInv
<1> SUFFICES ASSUME Init PROVE IInv
  OBVIOUS
<1>1. TypeOK /\ QP!IInv
  BY TypeInit, SameInit, QP!InitInv, QueueAssumption DEF Init
<1>2. /\ draft.version = 1 /\ draft.text = 1 /\ draft.folder = "drafts" /\ draft.delivery = "none"
      /\ \A s \in Sender : sending[s].phase = "idle"
      /\ \A r \in Request : planning[r].phase = "idle"
      /\ \A k \in Operation : ops[k] = "none" /\ ledger[k] = "none" /\ asked[k] = Unasked
      /\ accepted = <<>>
  BY DEF Init, NewDraft, NotSending, NotPlanning
<1>3. /\ \A j \in Job : jobs[j].status = "absent"
      /\ \A w \in Worker : run[w].phase = "idle"
  BY DEF Init, Queue!Init, Queue!NoRow, Queue!Idle
<1>4. \A j \in Job : j \in Operation
  BY DEF Operation
<1>5. VersionsTell
  BY <1>2 DEF VersionsTell, SenderSaw, AskedSaw, PlanSaw, SameText, Active, Unasked
<1>6. Executes
  BY <1>2, <1>3, <1>4 DEF Executes, Active, Unasked, Sender
<1>7. Locked /\ LedgerOnce
  BY <1>2 DEF Locked, LedgerOnce, Holder
<1>8. Truthful
  BY <1>2 DEF Truthful
<1>9. RunTruthful
  BY <1>2, <1>3, <1>4 DEF RunTruthful, RunKnows, Active, Sender
<1>10. NoneOpen /\ OneOpenJob
  BY <1>2, <1>3 DEF NoneOpen, OneOpenJob, Unresolved
<1>11. AcceptedOnce /\ TextAsAsked
  BY <1>2 DEF AcceptedOnce, TextAsAsked
<1> QED BY <1>1, <1>5, <1>6, <1>7, <1>8, <1>9, <1>10, <1>11 DEF IInv, MailInv

(* Every step keeps it.                                                    *)
LEMMA MailStep == IInv /\ [Next]_vars => MailInv'
<1> SUFFICES ASSUME IInv, [Next]_vars PROVE MailInv'
  OBVIOUS
<1>1. CASE UNCHANGED vars \/ LiveEdit
  <2>0. UNCHANGED <<jobs, run, sent, draft, asked, ops, ledger, sending, planning, accepted>>
    BY <1>1 DEF LiveEdit, vars, queueVars, mailVars
  <2> USE <2>0 DEF IInv, MailInv
  <2>1. Locked' /\ LedgerOnce' /\ Truthful' /\ AcceptedOnce' /\ TextAsAsked'
    BY MailStays
  <2>2. VersionsTell'
    BY KeepVersions DEF Carries, Active
  <2>3. Executes'
    BY DEF Executes, Active, Op
  <2>4. RunTruthful'
    BY DEF RunTruthful, RunKnows, Active
  <2>5. NoneOpen' /\ OneOpenJob'
    BY DEF NoneOpen, OneOpenJob, Unresolved
  <2> QED BY <2>1, <2>2, <2>3, <2>4, <2>5
<1>2. ASSUME NEW s \in Sender, SenderStep(s) PROVE MailInv'
  <2>1. CASE GivesUp(s) \/ Ledgers(s) \/ Records(s) \/ Leaves(s)
    BY <2>1, GivesUpStep, LedgersStep, RecordsStep, LeavesStep
  <2>2. CASE Lock(s)
    BY <2>1, <2>2, LockStep DEF GivesUp
  <2>3. CASE StoreFailure(s)
    BY <2>1, <2>3, StoreFailureStep DEF GivesUp
  <2>4. CASE DeliverLocally(s) \/ Accept(s) \/ StoreSent(s) \/ \E k \in Operation : Open(s, k)
    BY <2>4, DeliverLocallyStep, AcceptStep, StoreSentStep, OpenStep
  <2> QED BY <1>2, <2>1, <2>2, <2>3, <2>4 DEF SenderStep, GivesUp, Ledgers, Records, Leaves
<1>3. ASSUME NEW r \in Request, CrashRequest(r) PROVE MailInv'
  BY <1>3, LeavesStep DEF Leaves, Sender
<1>4. ASSUME NEW w \in Worker, CrashWorker(w) PROVE MailInv'
  BY <1>4, LeavesStep DEF Leaves, Sender
<1> QED BY <1>1, <1>2, <1>3, <1>4, EditStep, PressStep, PlanStep, PlanCommitStep, CancelStep,
           QueueStepStep DEF Next, Step

(***************************************************************************)
(* The strengthened invariant holds in every behaviour.                    *)
(***************************************************************************)
LEMMA Invariance == Spec => []IInv
<1>1. IInv /\ [Next]_vars => IInv'
  BY TypeStep, QueueInv, MailStep DEF IInv, MailInv
<1> QED BY <1>1, InitInv, PTL DEF Spec

-----------------------------------------------------------------------------
(* The shared document, which no version counts.  Its edits stop when a    *)
(* draft is scheduled, as nothing but a write that counts the version up   *)
(* takes it back to the drafts folder, and while it is submitting.  A      *)
(* sender that reviews, locks or sends has read the document its user saw, *)
(* or for a click a later one.                                             *)
Frozen == draft.delivery = "submitting" \/ draft.folder = "sent"

Read(s, k) == /\ asked[k].live <= sending[s].reviewed
              /\ k \in Job => sending[s].reviewed = asked[k].live

AcceptedLive(i) ==
  LET seen == asked[accepted[i].op] IN
  /\ accepted[i].op \in Operation /\ seen.version > 0
  /\ accepted[i].live >= seen.live
  /\ accepted[i].op \in Job => accepted[i].live = seen.live
  /\ Frozen => accepted[i].live = live

DocumentTells ==
  /\ \A k \in Operation : asked[k].live <= live
  /\ \A j \in Job : asked[j].version = draft.version => asked[j].live = live
  /\ \A s \in Sender : sending[s].phase = "reviewing" => asked[Op(s)].live <= sending[s].reviewed
  /\ \A s \in Sender : Holder(s) => sending[s].reviewed = live /\ Read(s, Op(s))
  /\ \A i \in 1..Len(accepted) : AcceptedLive(i)

(* Who holds the lock, or reviews, after a step held it, or reviewed.      *)
GoOn ==
  \A t \in Sender :
    /\ Holder(t)' => Holder(t) /\ sending'[t].reviewed = sending[t].reviewed /\ Op(t)' = Op(t)
    /\ sending'[t].phase = "reviewing" => sending'[t] = sending[t]

LEMMA QuietGoesOn ==
  ASSUME IInv, NEW s \in Sender, Quiet(s), sending'[s].phase # "reviewing" PROVE GoOn
<1>1. draft' = draft /\ \A t \in Sender \ {s} : sending'[t] = sending[t]
  BY DEF Quiet
<1>2. sending[s].phase \in {"stored", "recorded"} => draft.folder = "sent"
  BY DEF IInv, MailInv, Locked
<1>3. Holder(s)' => Holder(s) /\ sending'[s].reviewed = sending[s].reviewed /\ Op(s)' = Op(s)
  BY <1>1, <1>2 DEF Quiet, Passage, Holder, Op
<1> QED BY <1>1, <1>3 DEF GoOn, Holder, Op

(* A step that leaves the document and the requests alone, counts the      *)
(* version up if it writes the draft, and freezes the document for nobody  *)
(* but by sending it.                                                      *)
LEMMA KeepDocument ==
  ASSUME IInv, DocumentTells, GoOn, live' = live, asked' = asked, accepted' = accepted,
         draft' = draft \/ draft'.version = draft.version + 1,
         Frozen' => Frozen
  PROVE  DocumentTells'
<1> USE Parts DEF IInv, MailInv
<1>1. \A j \in Job : j \in Operation
  BY DEF Operation
<1>2. \A j \in Job : asked'[j].version = draft'.version => asked'[j].live = live'
  BY <1>1 DEF DocumentTells, VersionsTell, AskedSaw
<1>3. \A s \in Sender : sending'[s].phase = "reviewing" => asked'[Op(s)'].live <= sending'[s].reviewed
  BY DEF DocumentTells, GoOn, Op
<1>4. \A s \in Sender : Holder(s)' => sending'[s].reviewed = live' /\ Read(s, Op(s))'
  BY DEF DocumentTells, GoOn, Read
<1>5. \A i \in 1..Len(accepted') : AcceptedLive(i)'
  BY DEF DocumentTells, AcceptedLive
<1> QED BY <1>2, <1>3, <1>4, <1>5 DEF DocumentTells

(* Who has asked before, or for what nothing was asked yet.                *)
LEMMA AskDocument ==
  ASSUME IInv, DocumentTells, NEW k \in Operation, live' = live, accepted' = accepted,
         sending' = sending, asked[k].version = 0, asked'[k].live = live,
         \A i \in Operation \ {k} : asked'[i] = asked[i],
         \/ draft' = draft /\ k \notin Job
         \/ draft'.version = draft.version + 1 /\ draft'.folder # "sent" /\ draft.folder # "sent"
            /\ draft'.delivery = draft.delivery
  PROVE  DocumentTells'
<1> USE Parts DEF IInv, MailInv
<1>1. \A i \in Operation : asked'[i] = asked[i] \/ i = k
  OBVIOUS
<1>2. \A s \in Sender : Active(s) => Op(s) \in Operation /\ asked'[Op(s)] = asked[Op(s)]
  BY DEF Executes
<1>3. \A j \in Job : j \in Operation
  BY DEF Operation
<1>4. \A i \in Operation : asked'[i].live <= live'
  BY DEF DocumentTells
<1>5. \A j \in Job : asked'[j].version = draft'.version => asked'[j].live = live'
  BY <1>1, <1>3 DEF DocumentTells, VersionsTell, AskedSaw
<1>6. \A s \in Sender : /\ Op(s)' = Op(s) /\ (Holder(s)' <=> Holder(s))
                        /\ sending[s].phase = "reviewing" \/ Holder(s) => Active(s)
  BY DEF Op, Holder, Active
<1>7. \A s \in Sender : sending'[s].phase = "reviewing" => asked'[Op(s)'].live <= sending'[s].reviewed
  BY <1>2, <1>6 DEF DocumentTells
<1>8. \A s \in Sender : Holder(s)' => sending'[s].reviewed = live' /\ Read(s, Op(s))'
  BY <1>2, <1>6 DEF DocumentTells, Read
<1>9. \A i \in 1..Len(accepted') : AcceptedLive(i)'
  <2> SUFFICES ASSUME NEW i \in 1..Len(accepted) PROVE AcceptedLive(i)'
    OBVIOUS
  <2>1. AcceptedLive(i)
    BY DEF DocumentTells
  <2>2. asked'[accepted[i].op] = asked[accepted[i].op]
    BY <2>1 DEF AcceptedLive
  <2>3. Frozen' <=> Frozen
    BY DEF Frozen
  <2> QED BY <2>1, <2>2, <2>3 DEF AcceptedLive
<1> QED BY <1>4, <1>5, <1>7, <1>8, <1>9 DEF DocumentTells

(* The document is edited when nobody has locked it and no job waits for   *)
(* this version of the draft.                                              *)
LEMMA EditDocument == ASSUME IInv, DocumentTells, LiveEdit PROVE DocumentTells'
<1> USE Parts DEF IInv, MailInv
<1>1. /\ draft.folder = "drafts" /\ draft.delivery # "submitting" /\ live' = live + 1
      /\ draft' = draft /\ asked' = asked /\ sending' = sending /\ accepted' = accepted
  BY DEF LiveEdit
<1>2. \A s \in Sender : ~Holder(s)' /\ Op(s)' = Op(s)
  BY <1>1 DEF Locked, Held, Holder, Op
<1>3. \A j \in Job : j \in Operation /\ asked[j].version # draft.version
  BY <1>1 DEF Operation, VersionsTell, AskedSaw
<1>4. \A k \in Operation : asked'[k].live <= live'
  BY <1>1 DEF DocumentTells
<1>5. \A i \in 1..Len(accepted') : AcceptedLive(i)'
  BY <1>1 DEF DocumentTells, AcceptedLive, Frozen
<1> QED BY <1>1, <1>2, <1>3, <1>4, <1>5 DEF DocumentTells

LEMMA ReviewDocument ==
  ASSUME IInv, DocumentTells, NEW s \in Sender, Review(s) PROVE DocumentTells'
<1> USE Parts DEF IInv, MailInv
<1>1. /\ sending[s].phase = "preparing" /\ sending'[s].phase = "reviewing"
      /\ sending'[s].reviewed = live /\ sending'[s].op = sending[s].op
      /\ \A t \in Sender \ {s} : sending'[t] = sending[t]
      /\ draft' = draft /\ live' = live /\ asked' = asked /\ accepted' = accepted
  BY DEF Review, InPhase, Sending
<1>2. Op(s) \in Operation /\ Op(s)' = Op(s)
  BY <1>1 DEF Executes, Active, Op
<1>3. \A t \in Sender : Holder(t)' => Holder(t) /\ sending'[t] = sending[t]
  BY <1>1 DEF Holder
<1>4. \A t \in Sender : sending'[t].phase = "reviewing" => asked'[Op(t)'].live <= sending'[t].reviewed
  BY <1>1, <1>2 DEF DocumentTells, Op
<1>5. \A t \in Sender : Holder(t)' => sending'[t].reviewed = live' /\ Read(t, Op(t))'
  BY <1>1, <1>3 DEF DocumentTells, Read, Op
<1>6. \A i \in 1..Len(accepted') : AcceptedLive(i)'
  BY <1>1 DEF DocumentTells, AcceptedLive, Frozen
<1> QED BY <1>1, <1>4, <1>5, <1>6 DEF DocumentTells

LEMMA LockDocument ==
  ASSUME IInv, DocumentTells, MailInv', NEW s \in Sender, Lock(s), Unchanged(s)
  PROVE  DocumentTells'
<1> USE Parts DEF IInv, MailInv
<1>1. /\ sending[s].phase = "reviewing" /\ Goes(s, "locked")
      /\ live = sending[s].reviewed /\ draft.version = asked[Op(s)].version
      /\ draft'.version = draft.version + 1
      /\ live' = live /\ asked' = asked /\ accepted' = accepted
  BY Entering DEF Lock, InPhase, Unchanged, Restored, Saved
<1>2. /\ sending'[s].phase = "locked" /\ sending'[s].reviewed = live /\ Op(s)' = Op(s)
      /\ \A t \in Sender \ {s} : sending'[t] = sending[t]
  BY <1>1 DEF Goes, Moves, Op
<1>3. Op(s) \in Operation /\ accepted' = <<>>
  BY <1>1, <1>2 DEF Executes, Active, Truthful
<1>4. Read(s, Op(s))'
  BY <1>1, <1>2, <1>3 DEF DocumentTells, Read
<1>5. \A t \in Sender : Holder(t)' => t = s
  BY <1>2 DEF Locked, Holder
<1>6. \A j \in Job : j \in Operation /\ asked[j].version <= draft.version
  BY DEF Operation, VersionsTell, AskedSaw
<1>7. \A t \in Sender : sending'[t].phase = "reviewing" => asked'[Op(t)'].live <= sending'[t].reviewed
  BY <1>1, <1>2 DEF DocumentTells, Op
<1>8. \A j \in Job : asked'[j].version # draft'.version
  BY <1>1, <1>6
<1> QED BY <1>1, <1>2, <1>3, <1>4, <1>5, <1>7, <1>8 DEF DocumentTells

(* What is accepted, first and last, is what its sender has read.          *)
LEMMA SendDocument ==
  ASSUME IInv, DocumentTells, MailInv', NEW s \in Sender,
         DeliverLocally(s) \/ Accept(s)
  PROVE  DocumentTells'
<1> USE Parts DEF IInv, MailInv
<1>1. /\ Holder(s) /\ Active(s) /\ accepted = <<>>
      /\ live' = live /\ asked' = asked
      /\ draft' = draft \/ draft'.version = draft.version + 1
  BY DEF DeliverLocally, Accept, InPhase, Holder, Active, Truthful, Saved
<1>2. Goes(s, "stored") \/ Goes(s, "answered")
  BY Entering DEF DeliverLocally, Accept
<1>3. /\ sending'[s].phase \in {"stored", "answered"} /\ sending'[s].reviewed = sending[s].reviewed
      /\ Op(s)' = Op(s) /\ \A t \in Sender \ {s} : sending'[t] = sending[t]
  BY <1>2 DEF Goes, Moves, Op
<1>4. Op(s) \in Operation /\ asked[Op(s)].version > 0
  BY <1>1 DEF Executes
<1>5. PICK text \in Nat : accepted' = <<[op |-> Op(s), text |-> text, live |-> sending[s].reviewed]>>
  BY <1>1 DEF DeliverLocally, Accept, Submitted
<1>6. \A i \in 1..Len(accepted') : AcceptedLive(i)'
  BY <1>1, <1>4, <1>5 DEF DocumentTells, Read, AcceptedLive
<1>7. \A t \in Sender : Holder(t)' => Holder(t) /\ sending'[t].reviewed = sending[t].reviewed
                                      /\ Op(t)' = Op(t)
  <2> SUFFICES ASSUME NEW t \in Sender, Holder(t)'
               PROVE  Holder(t) /\ sending'[t].reviewed = sending[t].reviewed /\ Op(t)' = Op(t)
    OBVIOUS
  <2>1. CASE t = s
    BY <1>1, <1>3, <2>1
  <2>2. CASE t # s
    BY <1>1, <1>3, <2>2 DEF Locked, Held, Holder, Op
  <2> QED BY <2>1, <2>2
<1>8. \A t \in Sender : sending'[t].phase = "reviewing" => asked'[Op(t)'].live <= sending'[t].reviewed
  BY <1>1, <1>3 DEF DocumentTells, Op
<1>9. \A j \in Job : asked'[j].version = draft'.version => asked'[j].live = live'
  <2>1. \A j \in Job : j \in Operation
    BY DEF Operation
  <2> QED BY <1>1, <2>1 DEF DocumentTells, VersionsTell, AskedSaw
<1>10. \A t \in Sender : Holder(t)' => sending'[t].reviewed = live' /\ Read(t, Op(t))'
  BY <1>1, <1>7 DEF DocumentTells, Read
<1> QED BY <1>1, <1>6, <1>8, <1>9, <1>10 DEF DocumentTells

(* The holder's writes over the draft leave the document frozen as it is,  *)
(* or give it back to its editors.                                         *)
LEMMA StoreDocument ==
  ASSUME IInv, DocumentTells, NEW s \in Sender,
         StoreSent(s) \/ (StoreFailure(s) /\ draft.folder # "sent")
  PROVE  DocumentTells'
<1> USE Parts DEF IInv, MailInv
<1>1. Holder(s) /\ (Goes(s, "stored") \/ Goes(s, "storedFailure"))
  BY Entering DEF StoreSent, StoreFailure, InPhase, Holder
<1>2. /\ live' = live /\ asked' = asked /\ accepted' = accepted
      /\ draft'.version = draft.version + 1
  <2>1. CASE StoreSent(s)
    BY <2>1 DEF StoreSent, Restored, Saved
  <2>2. CASE StoreFailure(s) /\ draft.folder # "sent"
    BY <2>2 DEF StoreFailure, Restored, Saved
  <2> QED BY <2>1, <2>2
<1>3. Frozen
  BY <1>1 DEF Locked, Held, Frozen
<1>4. /\ sending'[s].phase \in {"stored", "storedFailure"}
      /\ \A t \in Sender \ {s} : sending'[t] = sending[t]
  BY <1>1 DEF Goes, Moves
<1>5. GoOn
  <2> SUFFICES ASSUME NEW t \in Sender
               PROVE  /\ Holder(t)' => /\ Holder(t) /\ sending'[t].reviewed = sending[t].reviewed
                                       /\ Op(t)' = Op(t)
                      /\ sending'[t].phase = "reviewing" => sending'[t] = sending[t]
    BY DEF GoOn
  <2>1. CASE t = s
    BY <1>4, <2>1 DEF Holder
  <2>2. CASE t # s
    <3>1. draft.folder # "sent"
      BY <1>1 DEF Locked, Held
    <3> QED BY <1>4, <2>2, <3>1 DEF Holder, Op
  <2> QED BY <2>1, <2>2
<1> QED BY <1>2, <1>3, <1>5, KeepDocument

LEMMA QuietDocument ==
  ASSUME IInv, DocumentTells, NEW s \in Sender, Quiet(s), accepted' = accepted,
         sending'[s].phase # "reviewing"
  PROVE  DocumentTells'
<1>1. draft' = draft /\ live' = live /\ asked' = asked
  BY DEF Quiet
<1> QED BY <1>1, QuietGoesOn, KeepDocument DEF Frozen

LEMMA SenderDocument ==
  ASSUME IInv, DocumentTells, MailInv', NEW s \in Sender, SenderStep(s) \/ Leaves(s)
  PROVE  DocumentTells'
<1> USE DEF IInv, MailInv
<1>1. CASE GivesUp(s) /\ ~Review(s)
  <2>1. sending'[s].phase = "reviewing" => sending[s].phase = "preparing"
    BY <1>1, QuietGivesUp DEF Quiet, Passage
  <2>2. sending[s].phase = "preparing" => Decline(s)
    BY <1>1 DEF GivesUp, Begin, Lock, RefuseLocally, Busy, Unauthorized, LoseLease,
                DatabaseError, StoreFailure, MarkAccepted, InPhase
  <2>3. Decline(s) => Goes(s, "ended")
    BY Parts, Entering DEF Decline
  <2>4. sending'[s].phase # "reviewing"
    BY <2>1, <2>2, <2>3 DEF Goes, Moves
  <2> QED BY <1>1, <2>4, QuietGivesUp, QuietDocument
<1>2. CASE Ledgers(s)
  <2>1. sending'[s].phase # "reviewing"
    BY <1>2, QuietLedgers DEF Quiet, Passage
  <2> QED BY <1>2, <2>1, QuietLedgers, QuietDocument
<1>3. CASE Records(s)
  <2>1. sending'[s].phase # "reviewing"
    BY <1>3, Parts, Entering DEF Records, RecordAccepted, RecordFailure, Goes, Moves
  <2> QED BY <1>3, <2>1, QuietRecords, QuietDocument
<1>4. CASE Leaves(s)
  BY <1>4, QuietLeaves, QuietDocument
<1>5. CASE Lock(s)
  BY <1>1, <1>5, LockDocument DEF GivesUp, Review, Lock, InPhase
<1>6. CASE StoreFailure(s)
  BY <1>1, <1>6, StoreDocument DEF GivesUp, Review, StoreFailure, InPhase
<1>7. CASE Review(s)
  BY <1>7, ReviewDocument
<1>8. CASE DeliverLocally(s) \/ Accept(s) \/ StoreSent(s)
  BY <1>8, SendDocument, StoreDocument
<1>9. ASSUME NEW k \in Operation, Open(s, k) PROVE DocumentTells'
  <2>1. /\ draft' = draft /\ live' = live /\ asked' = asked /\ accepted' = accepted
        /\ sending'[s].phase = "opened"
        /\ \A t \in Sender \ {s} : sending'[t] = sending[t]
    BY <1>9, Parts DEF Open
  <2>2. GoOn
    BY <2>1 DEF GoOn, Holder, Op
  <2> QED BY <2>1, <2>2, KeepDocument DEF Frozen
<1> QED BY <1>1, <1>2, <1>3, <1>4, <1>5, <1>6, <1>7, <1>8, <1>9
        DEF SenderStep, GivesUp, Ledgers, Records, Leaves

LEMMA DocumentStep == IInv /\ DocumentTells /\ [Next]_vars => DocumentTells'
<1> SUFFICES ASSUME IInv, DocumentTells, [Next]_vars PROVE DocumentTells'
  OBVIOUS
<1> USE Parts DEF IInv, MailInv
<1>0. MailInv'
  BY MailStep
<1>g. sending' = sending /\ (draft'.folder = "sent" <=> draft.folder = "sent") => GoOn
  BY DEF GoOn, Holder, Op
<1>1. ASSUME UNCHANGED <<draft, live, asked, sending, accepted>> PROVE DocumentTells'
  BY <1>1, <1>g, KeepDocument DEF Frozen
<1>2. CASE Edit
  <2>1. /\ live' = live /\ asked' = asked /\ sending' = sending /\ accepted' = accepted
        /\ draft'.version = draft.version + 1 /\ draft'.delivery = draft.delivery
        /\ draft.folder # "sent" /\ draft'.folder # "sent"
    BY <1>2 DEF Edit, Edited, Saved
  <2> QED BY <2>1, <1>g, KeepDocument DEF Frozen
<1>3. ASSUME NEW c \in Click, Press(c) PROVE DocumentTells'
  <2>1. /\ live' = live /\ sending' = sending /\ accepted' = accepted /\ draft' = draft
        /\ asked[c].version = 0 /\ asked'[c].live = live /\ c \in Operation
        /\ \A i \in Operation \ {c} : asked'[i] = asked[i]
    BY <1>3 DEF Press, Unasked, Operation
  <2>2. c \notin Job
    BY ScheduledSendAssumption
  <2> QED BY <2>1, <2>2, AskDocument
<1>4. ASSUME NEW r \in Request, PlanCommit(r) PROVE DocumentTells'
  <2>1. live' = live /\ sending' = sending /\ accepted' = accepted
    BY <1>4 DEF PlanCommit
  <2>2. CASE draft.version # planning[r].version
    BY <1>1, <1>4, <2>2 DEF PlanCommit
  <2>3. CASE draft.version = planning[r].version
    <3>1. PICK j \in setup.jobs, delay \in Queue!Delay :
            /\ Queue!Enqueue(j, delay)
            /\ asked' = [asked EXCEPT ![j] = [version |-> draft.version + 1, text |-> draft.text,
                                              live |-> live]]
            /\ draft' = Scheduled(j)
      BY <1>4, <2>3 DEF PlanCommit
    <3>2. j \in Job /\ j \in Operation
      BY ScheduledSendAssumption DEF TypeOK, Operation
    <3>3. draft.folder # "sent"
      BY <1>4, <2>3 DEF PlanCommit, VersionsTell, PlanSaw
    <3>4. asked[j].version = 0
      BY <3>1, <3>2 DEF Queue!Enqueue, Executes
    <3>5. asked'[j].live = live /\ \A i \in Operation \ {j} : asked'[i] = asked[i]
      BY <3>1, <3>2
    <3>6. /\ draft'.version = draft.version + 1 /\ draft'.folder # "sent"
          /\ draft'.delivery = draft.delivery
      BY <3>1 DEF Scheduled, Saved
    <3> QED BY <2>1, <3>2, <3>3, <3>4, <3>5, <3>6, AskDocument
  <2> QED BY <2>2, <2>3
<1>5. ASSUME NEW j \in Job, Cancel(j) PROVE DocumentTells'
  <2>1. live' = live /\ asked' = asked /\ sending' = sending /\ accepted' = accepted
    BY <1>5 DEF Cancel
  <2>2. CASE draft' = draft
    BY <1>1, <2>1, <2>2
  <2>3. CASE draft' # draft
    <3>1. draft.version = asked[j].version /\ j \in Operation
      BY <1>5, <2>3 DEF Cancel, Operation
    <3>2. draft.folder # "sent"
      BY <3>1 DEF VersionsTell, AskedSaw
    <3>3. /\ draft'.version = draft.version + 1 /\ draft'.folder # "sent"
          /\ draft'.delivery = draft.delivery
      BY <1>5, <2>3 DEF Cancel, Saved
    <3> QED BY <1>g, <2>1, <3>2, <3>3, KeepDocument DEF Frozen
  <2> QED BY <2>2, <2>3
<1>6. ASSUME NEW r \in Request, PlanRead(r) \/ PlanCheck(r) PROVE DocumentTells'
  BY <1>1, <1>6 DEF PlanRead, PlanCheck
<1>7. ASSUME NEW s \in Sender, SenderStep(s) \/ Leaves(s) PROVE DocumentTells'
  BY <1>0, <1>7, SenderDocument
<1>8. CASE QueueStep \/ UNCHANGED vars
  BY <1>1, <1>8 DEF QueueStep, vars, mailVars
<1> QED BY <1>2, <1>3, <1>4, <1>5, <1>6, <1>7, <1>8, EditDocument DEF Next, Step, Leaves, Sender

LEMMA DocumentInit == Init => DocumentTells
<1> SUFFICES ASSUME Init PROVE DocumentTells
  OBVIOUS
<1>1. /\ live = 0 /\ accepted = <<>> /\ \A k \in Operation : asked[k].live = 0
      /\ \A s \in Sender : sending[s].phase = "idle"
  BY DEF Init, Unasked, NotSending
<1>2. \A j \in Job : j \in Operation
  BY DEF Operation
<1> QED BY <1>1, <1>2 DEF DocumentTells, Holder

-----------------------------------------------------------------------------

(* The record, the operations, the ledger and all progress keep their      *)
(* types.                                                                  *)
THEOREM TypeCorrect == Spec => []TypeOK
<1>1. IInv => TypeOK
  BY DEF IInv
<1> QED BY <1>1, Invariance, PTL

(* A draft is never accepted twice, for any workers, requests, crashes and *)
(* database errors, and however often a send is repeated.                  *)
THEOREM SentAtMostOnce == Spec => []AcceptedOnce
<1>1. IInv => AcceptedOnce
  BY DEF IInv, MailInv
<1> QED BY <1>1, Invariance, PTL

(* What is accepted is the text the user who asked for it saw, and for a   *)
(* job also the document, although collaborators' edits change no version; *)
(* a click's document is no older than what its user saw.                  *)
THEOREM NoEditIsSentSilently == Spec => []SentAsAsked
<1>1. IInv /\ DocumentTells => SentAsAsked
  BY DEF IInv, MailInv, TextAsAsked, DocumentTells, AcceptedLive, Frozen, SentAsAsked
<1> QED BY <1>1, Invariance, DocumentInit, DocumentStep, PTL DEF Spec

(* A draft has one open job at most.                                       *)
THEOREM OneJobAtATime == Spec => []OneOpenJob
<1>1. IInv => OneOpenJob
  BY DEF IInv, MailInv
<1> QED BY <1>1, Invariance, PTL

(* The user, the queue and the job's owner are told the true outcome.      *)
THEOREM OutcomeIsTrue == Spec => []OutcomeTold
<1>1. IInv => OutcomeTold
  <2> SUFFICES ASSUME IInv PROVE OutcomeTold
    OBVIOUS
  <2> USE DEF IInv, MailInv
  <2>1. ShownUnsentIsUnsent
    BY DEF ShownUnsentIsUnsent, Truthful
  <2>2. HandlerKeepsContract
    BY DEF HandlerKeepsContract, InPhase, RunTruthful, RunKnows
  <2>3. AcceptedJobIsSent
    BY DEF AcceptedJobIsSent, RunTruthful
  <2> QED BY <2>1, <2>2, <2>3 DEF OutcomeTold
<1> QED BY <1>1, Invariance, PTL

(* What a step writes over the draft: an edit, a text it has already, and  *)
(* never anything over a sent message.                                     *)
LEMMA DraftSteps ==
  ASSUME IInv, [Next]_vars
  PROVE  draft'.text >= draft.text /\ (draft.folder = "sent" => draft'.folder = "sent")
<1> USE DEF IInv, MailInv
<1>0. draft.version \in Nat /\ draft.text \in Nat /\ draft.text <= draft.version
  BY Parts DEF VersionsTell
<1>1. CASE draft' = draft
  BY <1>0, <1>1
<1>2. CASE Edit
  BY <1>0, <1>2 DEF Edit, Edited, Saved
<1>3. ASSUME NEW r \in Request, PlanCommit(r), draft' # draft
      PROVE  draft'.text = draft.text /\ draft.folder # "sent"
  <2>1. draft.version = planning[r].version /\ planning[r].phase = "checked"
    BY <1>3 DEF PlanCommit
  <2>2. draft'.text = draft.text
    BY <1>3 DEF PlanCommit, Scheduled, Saved
  <2> QED BY <2>1, <2>2 DEF VersionsTell, PlanSaw
<1>4. ASSUME NEW j \in Job, Cancel(j), draft' # draft
      PROVE  draft'.text = draft.text /\ draft.folder # "sent"
  <2>1. draft.version = asked[j].version /\ draft'.text = draft.text
    BY <1>4 DEF Cancel, Saved
  <2> QED BY <2>1 DEF VersionsTell, AskedSaw, Operation
<1>5. ASSUME NEW s \in Sender, SenderStep(s), draft' # draft
      PROVE  draft'.text = draft.text /\ (draft.folder = "sent" => draft'.folder = "sent")
  <2>1. CASE Lock(s)
    <3>1. sending[s].phase = "reviewing" /\ draft.version = asked[Op(s)].version
          /\ draft'.text = sending[s].original.text
      BY <1>5, <2>1 DEF Lock, InPhase, Restored, Saved
    <3>2. sending[s].original = draft /\ sending[s].original.folder # "sent"
      BY <3>1 DEF Locked, Sendable, VersionsTell, SenderSaw, Active
    <3> QED BY <3>1, <3>2
  <2>2. CASE DeliverLocally(s)
    BY <2>2 DEF DeliverLocally, Saved
  <2>3. CASE StoreSent(s)
    <3>1. Holder(s)
      BY <2>3 DEF StoreSent, InPhase, Holder
    <3> QED BY <2>3, <3>1, OnlyHolder DEF StoreSent, Restored, Saved, Held
  <2>4. CASE StoreFailure(s)
    <3>1. draft.folder # "sent" /\ Holder(s)
      BY <1>5, <2>4 DEF StoreFailure, InPhase, Holder
    <3> QED BY <2>4, <3>1, OnlyHolder DEF StoreFailure, Restored, Saved, Held
  <2> QED BY <1>5, <2>1, <2>2, <2>3, <2>4
          DEF SenderStep, Open, Begin, Review, Decline, RefuseLocally, Busy, Unauthorized, OpenLedger,
              Accept, Reject, Reply, LoseReply, LoseLease, RecordAccepted, MarkAccepted,
              DatabaseError, RecordFailure, Return, Throw
<1>6. draft' = draft \/ Edit \/ (\E r \in Request : PlanCommit(r)) \/ (\E j \in Job : Cancel(j))
      \/ (\E s \in Sender : SenderStep(s))
  BY DEF Next, Step, LiveEdit, Press, PlanRead, PlanCheck, CrashRequest, CrashWorker, QueueStep,
         vars, mailVars
<1> QED BY <1>0, <1>1, <1>2, <1>3, <1>4, <1>5, <1>6

(* No write undoes an edit or a send, although those of externalSend and   *)
(* the outbox rest on what was read before.                                *)
THEOREM NothingUndone == Spec => DraftKept
<1>1. IInv /\ [Next]_vars => /\ [draft'.text >= draft.text]_vars
                             /\ [draft.folder = "sent" => draft'.folder = "sent"]_vars
  BY DraftSteps
<1> QED BY <1>1, Invariance, PTL DEF Spec, DraftKept, EditsKept, SentStays

(***************************************************************************)
(* The handler contract the queue's proofs rest on is one externalSend     *)
(* keeps: with it as the handler, the jobs of a draft keep the promise of  *)
(* SubmissionPromise.  A fault of another sender is a stuttering step.     *)
(***************************************************************************)
THEOREM SendsKeepPromise == Spec => QP!KeepsPromise
<1>1. Init => QP!Promise!Init
  BY SameInit, QP!PromiseInit, QueueAssumption DEF Init
<1>2. IInv /\ IInv' /\ [Next]_vars => [QP!Promise!Next]_(QP!Promise!vars)
  <2>1. OnlyFaults => UNCHANGED QP!Promise!vars
    BY DEF OnlyFaults, QP!Promise!vars, QP!VerdictOf
  <2> QED BY <2>1, QueueSteps, QP!PromiseStep, QueueAssumption DEF IInv
<1> QED BY <1>1, <1>2, Invariance, PTL DEF Spec, QP!KeepsPromise, QP!Promise!Spec
=============================================================================
