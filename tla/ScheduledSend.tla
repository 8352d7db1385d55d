---------------------------- MODULE ScheduledSend ----------------------------
(***************************************************************************)
(* Sending one draft: scheduling and cancelling in src/backend/jobs.js,    *)
(* externalSend in src/backend/server.js, and the provider's send ledger   *)
(* in src/backend/providers/index.js, composed with the job queue of       *)
(* DurableScheduler.                                                       *)
(*                                                                         *)
(* A draft's text is in two places.  The record's own fields carry the     *)
(* version that sending checks.  The body is in the shared document of     *)
(* src/backend/realtime.js once it is edited live: live edits leave the    *)
(* record and its version alone, and sending reads the document.           *)
(*                                                                         *)
(* A send operation is a scheduled job or a click on Send, that is an      *)
(* idempotency key and the draft version its user has seen.  Operations    *)
(* are executed by senders: scheduler workers run the job they claimed,    *)
(* HTTP requests run a click, and may repeat it, also at once.  Each       *)
(* database statement or transaction is a step, and so is the transport's  *)
(* acceptance of a message, which nobody sees until its response.          *)
(***************************************************************************)
EXTENDS Naturals, Sequences, FiniteSets

CONSTANTS
  Job,           \* Identifiers of jobs of type send.
  Click,         \* Idempotency keys of POST /api/send.
  Local,         \* Operations without a provider account.
  Worker,        \* Scheduler processes.
  Request,       \* HTTP requests in progress.
  Nobody, NoJob, LeaseTicks, MaxAttempts, MaxDelay, MaxFaults,  \* See DurableScheduler.
  NoOperation,   \* The operation of an idle sender.
  Setup          \* Bounds: who takes part, the versions users act on, live edits.

Operation == Job \cup Click
Sender == Worker \cup Request

ASSUME ScheduledSendAssumption ==
  /\ Job \cap Click = {}
  /\ Local \subseteq Operation
  /\ Worker \cap Request = {}
  /\ Nobody \notin Worker
  /\ NoJob \notin Job
  /\ LeaseTicks \in Nat \ {0}
  /\ MaxAttempts \in Nat \ {0}
  /\ MaxDelay \in Nat
  /\ MaxFaults \in Nat
  /\ NoOperation \notin Operation
  /\ Setup \subseteq [senders: SUBSET Sender, jobs: SUBSET Job, version: Nat, live: Nat]

VARIABLES
  jobs, run, sent, faults,   \* See DurableScheduler.
  draft,      \* The record, and in it the job it is scheduled under.
  live,       \* Revision of the draft's shared document (0: there is none).
  asked,      \* Version, text and document each operation was requested for.
  ops,        \* send_operations.
  ledger,     \* provider_sends.
  sending,    \* Progress of externalSend in each sender.
  planning,   \* Progress of POST /api/jobs in each request.
  accepted,   \* What the transport accepted, in order (environment).
  setup       \* The bounds of this behaviour: one of Setup, for ever.

queueVars == <<jobs, run, sent, faults>>
mailVars == <<draft, live, asked, ops, ledger, sending, planning, accepted>>
vars == <<queueVars, mailVars, setup>>

Queue == INSTANCE DurableScheduler WITH Recoverable <- {}

(***************************************************************************)
(* Texts are told apart by the version that introduced them, documents by  *)
(* their revision.  Phases of externalSend: opened (the row is read);      *)
(* preparing (the operation is read; attachments are being fetched);       *)
(* reviewing (the document is read; policy is being checked); locked (the  *)
(* draft is marked submitting); posting (the ledger row is written, the    *)
(* request under way); answered (the transport accepted, no response yet); *)
(* replied (the ledger has the result); stored (the record is sent);       *)
(* recorded (the operation is accepted); done (returning); failing (an     *)
(* error was caught); storedFailure (the record shows it); ended (throwing *)
(* it to the caller).                                                      *)
(* Delivery "accepted" stands for accepted, partial and internal.          *)
(***************************************************************************)
(***************************************************************************)
Phase == {"idle", "opened", "preparing", "reviewing", "locked", "posting", "answered", "replied",
          "stored", "recorded", "done", "failing", "storedFailure", "ended"}
Folder == {"drafts", "outbox", "sent"}
Delivery == {"none", "submitting", "accepted", "unknown", "failed"}
OperationStatus == {"none", "submitting", "accepted", "unknown", "failed"}
LedgerStatus == {"none", "pending", "accepted", "unknown", "failed"}

Seen == [version: Nat, text: Nat, live: Nat]
Unasked == [version |-> 0, text |-> 0, live |-> 0]
Draft == [version: Nat, text: Nat, folder: Folder, delivery: Delivery,
          job: Job \cup {NoJob}]
NewDraft == [version |-> 1, text |-> 1, folder |-> "drafts", delivery |-> "none",
             job |-> NoJob]
Sending == [phase: Phase, op: Operation \cup {NoOperation}, original: Draft,
            reviewed: Nat, uncertain: BOOLEAN, retryable: BOOLEAN]
NotSending == [phase |-> "idle", op |-> NoOperation, original |-> NewDraft,
               reviewed |-> 0, uncertain |-> FALSE, retryable |-> FALSE]
Planning == [phase: {"idle", "read", "checked"}, version: Nat]
NotPlanning == [phase |-> "idle", version |-> 0]

TypeOK ==
  /\ Queue!TypeOK
  /\ draft \in Draft
  /\ live \in Nat
  /\ asked \in [Operation -> Seen]
  /\ ops \in [Operation -> OperationStatus]
  /\ ledger \in [Operation -> LedgerStatus]
  /\ sending \in [Sender -> Sending]
  /\ planning \in [Request -> Planning]
  /\ accepted \in Seq([op: Operation, text: Nat, live: Nat])
  /\ setup \in Setup

Init ==
  /\ Queue!Init
  /\ draft = NewDraft
  /\ live = 0
  /\ asked = [k \in Operation |-> Unasked]
  /\ ops = [k \in Operation |-> "none"]
  /\ ledger = [k \in Operation |-> "none"]
  /\ sending = [s \in Sender |-> NotSending]
  /\ planning = [r \in Request |-> NotPlanning]
  /\ accepted = <<>>
  /\ setup \in Setup

InPhase(s, p) == sending[s].phase = p
Enter(s, p) == sending' = [sending EXCEPT ![s].phase = p]
Op(s) == sending[s].op

(* The sender's error, thrown at once or from the catch block.             *)
Raise(s, p, uncertain, retryable) ==
  sending' = [sending EXCEPT ![s] =
                [phase |-> p, op |-> Op(s), original |-> sending[s].original,
                 reviewed |-> sending[s].reviewed, uncertain |-> uncertain, retryable |-> retryable]]

(* An UPDATE of the record writes data and counts the version up.          *)
Saved(text, folder, delivery, job) ==
  [version |-> draft.version + 1, text |-> text, folder |-> folder, delivery |-> delivery,
   job |-> job]

Edited(folder) == Saved(draft.version + 1, folder, draft.delivery, draft.job)
Scheduled(j) == Saved(draft.text, "outbox", draft.delivery, j)

(* The record written over by what externalSend read at its start.         *)
Restored(s, folder, delivery) ==
  Saved(sending[s].original.text, folder, delivery, sending[s].original.job)

-----------------------------------------------------------------------------
(* Users.                                                                  *)

EditUnlocked ==
  /\ draft.folder # "sent"
  /\ draft.version < setup.version
  /\ \E folder \in {draft.folder, "drafts"} : draft' = Edited(folder)
  /\ UNCHANGED <<queueVars, live, asked, ops, ledger, sending, planning, accepted>>

(* PATCH /api/record on the version the user sees, which may also move the *)
(* message out of the outbox.  Write permission is refused while the draft *)
(* is submitting; if it was given before that, the version has changed.    *)
(* (Sent messages are left as they are.)                                   *)
Edit ==
  /\ draft.folder # "sent"
  /\ draft.delivery # "submitting"
  /\ draft.version < setup.version
  /\ \E folder \in {draft.folder, "drafts"} : draft' = Edited(folder)
  /\ UNCHANGED <<queueVars, live, asked, ops, ledger, sending, planning, accepted>>

LiveEditInOutbox ==
  /\ draft.folder # "sent"
  /\ draft.delivery # "submitting"
  /\ live < setup.live
  /\ live' = live + 1
  /\ UNCHANGED <<queueVars, draft, asked, ops, ledger, sending, planning, accepted>>

(* A collaborator's edit is merged into the document, in a transaction     *)
(* that tests the record and leaves it alone.                              *)
LiveEdit ==
  /\ draft.folder = "drafts"
  /\ draft.delivery # "submitting"
  /\ live < setup.live
  /\ live' = live + 1
  /\ UNCHANGED <<queueVars, draft, asked, ops, ledger, sending, planning, accepted>>

(* A click on Send fixes the key and the version of its request; the       *)
(* browser has written its own live edits before.                          *)
Press(c) ==
  /\ asked[c] = Unasked
  /\ asked' = [asked EXCEPT ![c] = [version |-> draft.version, text |-> draft.text,
                                     live |-> live]]
  /\ UNCHANGED <<queueVars, draft, live, ops, ledger, sending, planning, accepted>>

(* POST /api/jobs reads the row the user asks to schedule and authorises   *)
(* the user...                                                             *)
PlanRead(r) ==
  /\ r \in setup.senders
  /\ planning[r].phase = "idle"
  /\ draft.folder \in {"drafts", "outbox"}
  /\ draft.version < setup.version
  /\ planning' = [planning EXCEPT ![r] = [phase |-> "read", version |-> draft.version]]
  /\ UNCHANGED <<queueVars, draft, live, asked, ops, ledger, sending, accepted>>

Unresolved(j) == jobs[j].status \in {"pending", "running", "unknown"}

(* ...refuses while another send of the record is open...                  *)
PlanCheck(r) ==
  /\ planning[r].phase = "read"
  /\ planning' = [planning EXCEPT ![r] =
                     IF \E j \in Job : Unresolved(j) THEN NotPlanning
                     ELSE [phase |-> "checked", version |-> planning[r].version]]
  /\ UNCHANGED <<queueVars, draft, live, asked, ops, ledger, sending, accepted>>

PlanUnversioned(r) ==
  /\ planning[r].phase = "checked"
  /\ \E j \in setup.jobs, delay \in Queue!Delay :
       /\ Queue!Enqueue(j, delay)
       /\ asked' = [asked EXCEPT ![j] = [version |-> draft.version + 1, text |-> draft.text,
                                         live |-> live]]
       /\ draft' = Scheduled(j)
  /\ planning' = [planning EXCEPT ![r] = NotPlanning]
  /\ UNCHANGED <<live, ops, ledger, sending, accepted>>

(* ...and moves the draft to the outbox and stores the job for its new     *)
(* version in one transaction, if it is still the version read.            *)
PlanCommit(r) ==
  /\ planning[r].phase = "checked"
  /\ IF draft.version = planning[r].version
     THEN \E j \in setup.jobs, delay \in Queue!Delay :
            /\ Queue!Enqueue(j, delay)
            /\ asked' = [asked EXCEPT ![j] = [version |-> draft.version + 1,
                                              text |-> draft.text, live |-> live]]
            /\ draft' = Scheduled(j)
     ELSE UNCHANGED <<queueVars, asked, draft>>
  /\ planning' = [planning EXCEPT ![r] = NotPlanning]
  /\ UNCHANGED <<live, ops, ledger, sending, accepted>>

(* cancel: the queue cancels a pending job; the draft returns from the     *)
(* outbox if it is unchanged since it was scheduled.                       *)
Cancel(j) ==
  /\ Queue!Cancel(j)
  /\ draft' = IF draft.job = j /\ draft.version = asked[j].version
              THEN Saved(draft.text, "drafts", draft.delivery, NoJob)
              ELSE draft
  /\ UNCHANGED <<live, asked, ops, ledger, sending, planning, accepted>>

-----------------------------------------------------------------------------
(* externalSend.                                                           *)

(* A worker's handler is called for its claimed job; a request executes a  *)
(* click that was pressed.                                                 *)
Called(s, k) ==
  /\ s \in setup.senders
  /\ InPhase(s, "idle")
  /\ \/ s \in Worker /\ run[s].phase = "handling" /\ run[s].job = k
     \/ s \in Request /\ k \in Click /\ asked[k] # Unasked

(* The row is read, before anything is awaited.                            *)
Open(s, k) ==
  /\ Called(s, k)
  /\ sending' = [sending EXCEPT ![s] =
                   [phase |-> "opened", op |-> k, original |-> draft,
                    reviewed |-> 0, uncertain |-> FALSE, retryable |-> FALSE]]
  /\ UNCHANGED <<queueVars, draft, live, asked, ops, ledger, planning, accepted>>

(* An earlier submission of the operation or the draft is under way or has *)
(* no known outcome.                                                       *)
OutcomeOpen(s) ==
  \/ ops[Op(s)] \in {"submitting", "unknown"}
  \/ sending[s].original.delivery \in {"submitting", "unknown"}

Changed(s) ==
  \/ sending[s].original.version # asked[Op(s)].version
  \/ sending[s].original.folder = "sent"

(* The operation is read.  An accepted one is answered from the table; an  *)
(* open outcome is an uncertain error; a draft that has changed is refused.*)
Begin(s) ==
  /\ InPhase(s, "opened")
  /\ IF ops[Op(s)] = "accepted" THEN Enter(s, "done")
     ELSE IF OutcomeOpen(s) THEN Raise(s, "ended", TRUE, FALSE)
     ELSE Enter(s, IF Changed(s) THEN "ended" ELSE "preparing")
  /\ UNCHANGED <<queueVars, draft, live, asked, ops, ledger, planning, accepted>>

(* Once the attachments are there, the document is read: it is the body    *)
(* that is checked and sent.                                               *)
Review(s) ==
  /\ InPhase(s, "preparing")
  /\ sending' = [sending EXCEPT ![s].phase = "reviewing", ![s].reviewed = live]
  /\ UNCHANGED <<queueVars, draft, live, asked, ops, ledger, planning, accepted>>

(* Account, attachments, permission or outbound policy stop it.            *)
Decline(s) ==
  /\ sending[s].phase \in {"opened", "preparing", "reviewing"}
  /\ Enter(s, "ended")
  /\ UNCHANGED <<queueVars, draft, live, asked, ops, ledger, planning, accepted>>

LockUnversioned(s) ==
  /\ InPhase(s, "reviewing")
  /\ draft' = Restored(s, sending[s].original.folder, "submitting")
  /\ ops' = [ops EXCEPT ![Op(s)] = "submitting"]
  /\ Enter(s, "locked")
  /\ UNCHANGED <<queueVars, live, asked, ledger, planning, accepted>>

(* The submission lock: one transaction writes the row that was read, as   *)
(* submitting, and the operation, if the document is still the one checked *)
(* and the draft still has the version that was asked for.                 *)
Lock(s) ==
  /\ InPhase(s, "reviewing")
  /\ IF live = sending[s].reviewed /\ draft.version = asked[Op(s)].version
     THEN /\ draft' = Restored(s, sending[s].original.folder, "submitting")
          /\ ops' = [ops EXCEPT ![Op(s)] = "submitting"]
          /\ Enter(s, "locked")
     ELSE /\ Enter(s, "ended")
          /\ UNCHANGED <<draft, ops>>
  /\ UNCHANGED <<queueVars, live, asked, ledger, planning, accepted>>

(* The transport takes the message; for a job, this is the queue's Submit. *)
Submitted(s, text) ==
  /\ accepted' = Append(accepted, [op |-> Op(s), text |-> text,
                                   live |-> sending[s].reviewed])
  /\ IF s \in Worker THEN Queue!Submit(s) ELSE UNCHANGED queueVars

(* Without an account the message is delivered to members of this server   *)
(* in one batch, on the condition of the locked version; or the batch is   *)
(* refused.                                                                *)
DeliverLocally(s) ==
  /\ InPhase(s, "locked")
  /\ Op(s) \in Local
  /\ draft.version = asked[Op(s)].version + 1
  /\ draft' = Saved(draft.text, "sent", "accepted", draft.job)
  /\ Submitted(s, draft.text)
  /\ Enter(s, "stored")
  /\ UNCHANGED <<live, asked, ops, ledger, planning>>

RefuseLocally(s) ==
  /\ InPhase(s, "locked")
  /\ Op(s) \in Local
  /\ Raise(s, "failing", FALSE, FALSE)
  /\ UNCHANGED <<queueVars, draft, live, asked, ops, ledger, planning, accepted>>

(* sendMail does not get to its ledger: another operation holds the        *)
(* account's lease (retryable), or authorisation fails or the lease is     *)
(* lost (uncertain, if it cannot be told apart from a failed submission).  *)
Busy(s) ==
  /\ InPhase(s, "locked")
  /\ Op(s) \notin Local
  /\ Raise(s, "failing", FALSE, TRUE)
  /\ UNCHANGED <<queueVars, draft, live, asked, ops, ledger, planning, accepted>>

Unauthorized(s, uncertain) ==
  /\ InPhase(s, "locked")
  /\ Op(s) \notin Local
  /\ Raise(s, "failing", uncertain, FALSE)
  /\ UNCHANGED <<queueVars, draft, live, asked, ops, ledger, planning, accepted>>

(* Under the lease, an earlier attempt with the key is answered from the   *)
(* ledger and a new one is entered before the request.  An attempt with    *)
(* another message under the key is refused.                               *)
OpenLedger(s) ==
  LET k == Op(s) IN
  /\ InPhase(s, "locked")
  /\ k \notin Local
  /\ ledger' = [ledger EXCEPT ![k] = IF @ = "none" THEN "pending" ELSE @]
  /\ \/ ledger[k] = "none" /\ Enter(s, "posting")
     \/ ledger[k] = "accepted" /\ Enter(s, "replied")
     \/ ledger[k] # "none" /\ Raise(s, "failing", FALSE, FALSE)
     \/ ledger[k] \in {"pending", "unknown"} /\ Raise(s, "failing", TRUE, FALSE)
  /\ UNCHANGED <<queueVars, draft, live, asked, ops, planning, accepted>>

(* The transport accepts.  A request it accepts after the sender gave up   *)
(* is the same to everybody as one accepted right before.                  *)
Accept(s) ==
  /\ InPhase(s, "posting")
  /\ Submitted(s, sending[s].original.text)
  /\ Enter(s, "answered")
  /\ UNCHANGED <<draft, live, asked, ops, ledger, planning>>

(* A definite refusal by the provider; externalSend cannot tell some of    *)
(* them from a failure of the provider.                                    *)
Reject(s, uncertain) ==
  /\ InPhase(s, "posting")
  /\ ledger' = [ledger EXCEPT ![Op(s)] = "failed"]
  /\ Raise(s, "failing", uncertain, FALSE)
  /\ UNCHANGED <<queueVars, draft, live, asked, ops, planning, accepted>>

(* The response is a receipt.                                              *)
Reply(s) ==
  /\ InPhase(s, "answered")
  /\ ledger' = [ledger EXCEPT ![Op(s)] = "accepted"]
  /\ Enter(s, "replied")
  /\ UNCHANGED <<queueVars, draft, live, asked, ops, planning, accepted>>

LoseReplyCertain(s) ==
  /\ sending[s].phase \in {"posting", "answered"}
  /\ ledger' = [ledger EXCEPT ![Op(s)] = "unknown"]
  /\ Raise(s, "failing", FALSE, FALSE)
  /\ UNCHANGED <<queueVars, draft, live, asked, ops, planning, accepted>>

(* The response does not arrive or the account's lease is lost meanwhile.  *)
LoseReply(s) ==
  /\ sending[s].phase \in {"posting", "answered"}
  /\ ledger' = [ledger EXCEPT ![Op(s)] = "unknown"]
  /\ Raise(s, "failing", TRUE, FALSE)
  /\ UNCHANGED <<queueVars, draft, live, asked, ops, planning, accepted>>

(* The account's lease is lost after the ledger was written.               *)
LoseLease(s) ==
  /\ InPhase(s, "replied")
  /\ Op(s) \notin Local
  /\ Raise(s, "failing", TRUE, FALSE)
  /\ UNCHANGED <<queueVars, draft, live, asked, ops, ledger, planning, accepted>>

(* The record becomes the sent message, whatever its version is by now.    *)
StoreSent(s) ==
  /\ InPhase(s, "replied")
  /\ draft' = Restored(s, "sent", "accepted")
  /\ Enter(s, "stored")
  /\ UNCHANGED <<queueVars, live, asked, ops, ledger, planning, accepted>>

RecordAccepted(s) ==
  /\ InPhase(s, "stored")
  /\ ops' = [ops EXCEPT ![Op(s)] = "accepted"]
  /\ Enter(s, "recorded")
  /\ UNCHANGED <<queueVars, draft, live, asked, ledger, planning, accepted>>

(* markAccepted, for a job.                                                *)
MarkAccepted(s) ==
  /\ InPhase(s, "recorded")
  /\ IF s \in Worker THEN Queue!MarkAccepted(s) ELSE UNCHANGED queueVars
  /\ Enter(s, "done")
  /\ UNCHANGED <<draft, live, asked, ops, ledger, planning, accepted>>

(* One of the updates after the result fails: the database is locked or    *)
(* does not answer.                                                        *)
DatabaseError(s) ==
  /\ sending[s].phase \in {"replied", "stored", "recorded"}
  /\ faults < MaxFaults
  /\ faults' = faults + 1
  /\ Raise(s, "failing", Op(s) \notin Local, FALSE)
  /\ UNCHANGED <<jobs, run, sent, draft, live, asked, ops, ledger, planning, accepted>>

(* The catch block writes the failure to the record, unless it is sent by  *)
(* now, and then to the operation.  Nobody else moves a draft to the sent  *)
(* folder between the test and the write: only the lock's holder does.     *)
StoreFailure(s) ==
  /\ InPhase(s, "failing")
  /\ IF draft.folder = "sent"
     THEN /\ Raise(s, "ended", TRUE, sending[s].retryable)
          /\ draft' = draft
     ELSE /\ Enter(s, "storedFailure")
          /\ draft' = Restored(s, sending[s].original.folder,
                               IF sending[s].uncertain THEN "unknown" ELSE "failed")
  /\ UNCHANGED <<queueVars, live, asked, ops, ledger, planning, accepted>>

RecordFailure(s) ==
  /\ InPhase(s, "storedFailure")
  /\ ops' = [ops EXCEPT ![Op(s)] = IF sending[s].uncertain THEN "unknown" ELSE "failed"]
  /\ Enter(s, "ended")
  /\ UNCHANGED <<queueVars, draft, live, asked, ledger, planning, accepted>>

(* Back to the caller: the queue takes the handler's result or error.      *)
Return(s) ==
  /\ InPhase(s, "done")
  /\ IF s \in Worker THEN Queue!Return(s, "accepted") ELSE UNCHANGED queueVars
  /\ sending' = [sending EXCEPT ![s] = NotSending]
  /\ UNCHANGED <<draft, live, asked, ops, ledger, planning, accepted>>

Throw(s) ==
  /\ InPhase(s, "ended")
  /\ IF s \in Worker THEN Queue!Throw(s, sending[s].uncertain, sending[s].retryable)
                     ELSE UNCHANGED queueVars
  /\ sending' = [sending EXCEPT ![s] = NotSending]
  /\ UNCHANGED <<draft, live, asked, ops, ledger, planning, accepted>>

-----------------------------------------------------------------------------

(* A process dies with whatever it was doing; a dying HTTP server takes    *)
(* its requests along.                                                     *)
CrashWorker(w) ==
  /\ Queue!Crash(w)
  /\ sending' = [sending EXCEPT ![w] = NotSending]
  /\ UNCHANGED <<draft, live, asked, ops, ledger, planning, accepted>>

CrashRequest(r) ==
  /\ ~InPhase(r, "idle")
  /\ faults < MaxFaults
  /\ faults' = faults + 1
  /\ sending' = [sending EXCEPT ![r] = NotSending]
  /\ UNCHANGED <<jobs, run, sent, draft, live, asked, ops, ledger, planning, accepted>>

(* Steps of the queue alone.                                               *)
QueueStep ==
  /\ \/ \E w \in Worker \cap setup.senders :
          Queue!Claim(w) \/ Queue!Heartbeat(w) \/ Queue!Settle(w)
     \/ Queue!Tick
     \/ Queue!Stall
  /\ UNCHANGED mailVars

SenderStep(s) ==
  \/ \E k \in Operation : Open(s, k)
  \/ Begin(s)
  \/ Review(s)
  \/ Decline(s)
  \/ Lock(s)
  \/ DeliverLocally(s)
  \/ RefuseLocally(s)
  \/ Busy(s)
  \/ \E uncertain \in BOOLEAN : Unauthorized(s, uncertain) \/ Reject(s, uncertain)
  \/ OpenLedger(s)
  \/ Accept(s)
  \/ Reply(s)
  \/ LoseReply(s)
  \/ LoseLease(s)
  \/ StoreSent(s)
  \/ RecordAccepted(s)
  \/ MarkAccepted(s)
  \/ DatabaseError(s)
  \/ StoreFailure(s)
  \/ RecordFailure(s)
  \/ Return(s)
  \/ Throw(s)

Step ==
  \/ Edit
  \/ LiveEdit
  \/ \E c \in Click : Press(c)
  \/ \E r \in Request : PlanRead(r) \/ PlanCheck(r) \/ PlanCommit(r) \/ CrashRequest(r)
  \/ \E j \in Job : Cancel(j)
  \/ \E s \in Sender : SenderStep(s)
  \/ \E w \in Worker : CrashWorker(w)
  \/ QueueStep

Next == Step /\ UNCHANGED setup

Spec == Init /\ [][Next]_vars

-----------------------------------------------------------------------------
(* Whatever users, retries, repeated requests and crashes do, the          *)
(* transport accepts a draft at most once.                                 *)
AcceptedOnce == Len(accepted) <= 1

(* What the transport gets is what its user saw when asking to send it,    *)
(* even if the draft was edited or sent by somebody else meanwhile         *)
(* (docs/BACKGROUND.md: never send an edited draft silently).  Of a job    *)
(* this includes the shared document, although no version counts its       *)
(* edits.  A click sends the document as it is when it is reviewed: no     *)
(* older than its user saw it, but a collaborator may have edited it since.*)
(* Either way it is the document that the Sent folder shows.               *)
SentAsAsked ==
  \A i \in 1..Len(accepted) :
    LET seen == asked[accepted[i].op] IN
    /\ accepted[i].text = seen.text
    /\ accepted[i].live >= seen.live
    /\ accepted[i].op \in Job => accepted[i].live = seen.live
    /\ draft.folder = "sent" => accepted[i].live = live

(* A draft that the mailbox shows as never sent, or as failed, was not     *)
(* accepted by the transport: its user may send it again.                  *)
ShownUnsentIsUnsent ==
  draft.folder # "sent" /\ draft.delivery \in {"none", "failed"} => accepted = <<>>

(* At most one job of a draft is open or unresolved.                       *)
OneOpenJob ==
  \A i, j \in Job : Unresolved(i) /\ Unresolved(j) => i = j

(* externalSend keeps the contract the queue relies on: it returns success *)
(* only of what the transport accepted in this run, and an error after     *)
(* that is uncertain, or acceptance was marked.                            *)
HandlerKeepsContract ==
  \A w \in Worker :
    /\ InPhase(w, "done") => run[w].submitted
    /\ InPhase(w, "ended") /\ run[w].submitted => sending[w].uncertain \/ run[w].accepted

(* A job and its draft agree: an accepted job's draft is in the sent       *)
(* folder.                                                                 *)
AcceptedJobIsSent ==
  \A j \in Job : jobs[j].status = "accepted" => draft.folder = "sent"

(* Nobody is told the wrong outcome of a submission, whichever of its      *)
(* updates fail: not the user, the queue or the job's owner.               *)
OutcomeTold == ShownUnsentIsUnsent /\ HandlerKeepsContract /\ AcceptedJobIsSent

(* A message in the sent folder stays there, although the last updates of  *)
(* externalSend and the outbox's do not all check its version.             *)
SentStays == [][draft.folder = "sent" => draft'.folder = "sent"]_vars

(* What contention leaves to retry can be sent: a job waiting for another  *)
(* attempt fits the draft unless a user has edited it since                *)
(* (docs/MAILBOX-SYNC.md: contention is a retryable result).               *)
RetryFitsDraft ==
  \A j \in Job :
    /\ jobs[j].status = "pending" /\ jobs[j].attempts > 0
    /\ draft.text = asked[j].text
    => draft.version = asked[j].version

(* Nothing a user writes to the draft is lost: although externalSend       *)
(* finishes by writing over the record what it read at its start, whatever *)
(* the version is by then, no saved text is replaced by an older one.      *)
EditsKept == [][draft'.text >= draft.text]_vars

(* What externalSend and the outbox write over the draft, with what they   *)
(* read before several awaits, undoes neither an edit nor a send.          *)
DraftKept == EditsKept /\ SentStays

=============================================================================
