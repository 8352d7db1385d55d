# Formal verification of AvenorMail

TLA+ specifications of the concurrent core of AvenorMail, the TLC
configurations that model-check them, and TLAPS proofs of their most important
properties. Paths such as `src/backend/jobs.js` are relative to the directory
above this one.

AvenorMail is a self-hosted mail, calendar and collaboration server. One or
more Node.js processes share one SQLite or libSQL database; what they agree on
they agree on through its rows. There is no other coordinator, so the hard
part of the program is what several processes, each of which can stall or die
between any two statements, make of a few tables together. Around them are
parties that share no transaction with the database at all: mail and calendar
providers, other people's mailboxes, and browsers with a storage of their own.

## The system's parts

| Part (source) | State | Operations | Hard behaviour | What makes it correct |
|---|---|---|---|---|
| Durable job scheduler (`backend/jobs.js`) | `jobs`, `notifications`, `automation_state`; per process the claimed row, the local `accepted`, the abort signal | enqueue, cancel, claim with sweep, heartbeat, markAccepted, verdict, final UPDATE, scanRecords | crash after the transport accepted; lease swept under a live worker; stale verdict | a delivery is submitted at most once; a stored outcome is true and final; every job settles |
| Work leases (`backend/cluster.js`) | `cluster_leases` | acquire, assert, renew, release, withLease, stop | expiry under a running callback; clock read before its use | fencing tokens order the protected writes |
| Event log (`backend/cluster.js`) | `cluster_events`, `cluster_nodes`; per process cursor and batch | triggers, publish, start, poll, stop | crash between callback and cursor; two instances of one node ID; deletion of old events | no event is skipped; no event that a live node lacks is deleted |
| Provider leases (`providers/lease.js`) | account lease rows, async context | run with reentry, heartbeat, assertCurrent | nested operations while the heartbeat fails | no effect after the lease is lost |
| Realtime hub (`realtime.js`) | rooms, sockets, `collaboration_documents` | join, update, persist or merge, sweep, cluster event | joins suspended between awaits; two processes store one document | members converge; the first text is stored once |
| Live client (`public/collab.js`, `collab-store.js`) | CRDT document, journal of unacknowledged updates | connect, join, push, acknowledge, flush | reconnection, late and lost answers, tabs sharing a journal | a local edit is in the journal until it is stored |
| Offline workspace (`public/offline.js`, `sw.js`) | request queue, cached records | edit, replay, conflict, resolve | answer lost after the server applied the request | every queued edit takes effect once, in order |
| API server (`server.js`) | `api_operations`, `send_operations`, drafts | request idempotency, externalSend, ingest, provider schedule | crash between effect and stored response | same key, same effect |
| Provider accounts (`providers/index.js`, `oauth.js`, `mutations.js`) | `provider_accounts`, `provider_sends`, `provider_mutations`, sync batches, aliases | token refresh, sendMail, updateMessage, syncAccount, acknowledgeSync, disconnect | ambiguous answers; messages that move while they are listed | no second submission under one key; one record per message |
| Mailbox synchronisation (`mail-sync.js`, `server.js`) | mutation jobs, `providerSyncStamp` | trigger, write-back, preservePending, ingest | a listing older than a local edit | pending edits survive a sync and reach the provider in order |
| PIM gateway (`pim-sync.js`, `providers/pim.js`) | `pim_local_operations`, `provider_pim_writes`, conflicts, resolutions | sync, write, resolve | crash between intent, provider call and result; lagging listings | no version is overwritten unseen |
| Invitations (`invitations.js`), inbound calendar (`inbound-calendar.js`) | sequence numbers, replies, pending deliveries | create, deliver, respond, ingest, review | reordered and repeated messages | newer data is not replaced by older |
| Compliance (`compliance.js`) | policies, holds, purge records | evaluate, retain, purge | purge against re-import | purged messages stay purged; held ones stay |
| Authentication and audit (`auth.js`, `security.js`) | sessions, factors, hash chain | sign in, verify, append | two uses of one code | one-time codes are; the chain is unbroken |
| Remote database (`remote-db.js`, `remote-db-worker.js`) | request buffer | synchronous call with timeout | time-out while the worker executes | no answer is taken for another request's |
| Supervisor (`cluster-main.js`) | worker processes | fork with back-off, shutdown | dying workers during shutdown | no fork after shutdown began |
| Recurrence (`jobs.js` nextTaskDate, `public/calendar-recurrence.js`) | none | pure functions | month ends, leap years | next date is later and valid |
| Interface and renderer (`public/app.js`, `gpu-*.js`, `scene-*.js`, ...) | view state | presentation | | not modelled |

How they interact: HTTP handlers and the collaboration hub write `records`
and `collaboration_documents`; triggers on those tables append to the event
log in the same transaction; every process polls the log and hands each event
to its hub. A trigger on `records` queues the write-back of an imported
message. The scheduler runs `send`, `provider_sync`, `pim_sync`,
`provider_mutation` and invitation jobs; its handlers call the provider
service, which holds an account lease around each provider operation, and the
ingest and PIM code run under work leases of the coordinator. Browsers reach
the records through the API, with idempotency keys and versions, and drafts
that are edited together through a socket to the hub of some process.

`PROJECT.json` lists the components with their status and, under `hazards`,
the places where this code is hard to test, each with the properties that
cover it or the reason why none does.

## Modules

| Module | What it is |
|---|---|
| `WorkLease` | the work leases of `ClusterCoordinator`, for one key |
| `FencedStore` | what a work lease promises: an abstract store written under growing grants |
| `DurableScheduler` | the job queue and the processes that work on it |
| `SubmissionPromise` | what the queue promises its users about deliveries |
| `DurableScheduler_proofs` | theorems about `DurableScheduler` |
| `ScheduledSend` | sending one draft: scheduling, clicks, `externalSend` and the send ledger, composed with `DurableScheduler` |
| `ScheduledSend_proofs` | theorems about `ScheduledSend`, on top of those about the queue |
| `ClusterEvents` | the event log, its cursors, node liveness and retention |
| `ClusterEvents_proofs` | theorems about `ClusterEvents` |
| `Collab` | one shared draft: the hubs of several processes, their table, and the tabs with their journals |
| `Collab_proofs` | theorems about `Collab` |
| `Offline` | a browser's queue of record edits, replayed against the API with its idempotency keys |
| `Offline_proofs` | theorems about `Offline` |
| `Calendar` | a meeting between its organizer and the guests: invitations, replies, reviews |
| `Calendar_proofs` | theorems about `Calendar` |
| `Pim` | a contact between the user, the gateway, the provider service and the provider |
| `Pim_proofs` | theorems about `Pim` |
| `Mailbox` | a message of a connected mailbox: synchronisation and write-back |
| `MailMessage`, `GraphSync`, `GmailSync`, `ImapSync` | what the protocols list and how their cursors advance, used by `Mailbox` |
| `Mailbox_proofs` | theorems about `Mailbox`, and about `WorkLease`, under whose leases a mailbox is read and written |
| `MC...` | the instances and symmetries TLC checks |

### WorkLease

`lease` is the `cluster_leases` row, `call[w]` the progress of one
`withLease` call with the token it holds, `clock` the database clock.
`written` and `loose` are the tokens of the last writes to the data the lease
protects, and `confirmed` the tokens whose call reported a result; they are
there to state properties. Every database statement is a step: `renew` reads
the clock (`RenewRead`) and updates in a second statement (`RenewWrite`). A
callback either asserts inside its write transaction (`TransactionWrite`, as
`PimGateway` does) or asserts first and writes later (`Assert`, `PlainWrite`,
as `ingest` in `server.js` does): the constant `Transactional` says which
workers do what, and the two kinds of writes are kept apart in `written` and
`loose`. Any step can be delayed past the expiry, and a process can die
(`Crash`) or be stopped (`NodeStop`) at any point of a call.

* `OnlyOwnerChanges`: a step of a call changes the row only as the row's owner
  (who extends or frees it), or to grant a lease that has run out. So a stale
  renewal or release neither extends nor ends a successor's lease: the property
  names the call that acts.
* `ImplementsFencedStore`: the refinement of `FencedStore` by what is written
  in transactions, whatever workers that assert too early do beside them.
* Proved only: `TokensDiffer` (two calls in progress never share a token),
  `MonotoneWrites` (no transactional write of an older grant follows one of a
  newer grant), `ConfirmedUnsuperseded` (`withLease` reports a result only
  while no later lease was granted).

### DurableScheduler

`jobs` is the `jobs` table; `run[w]` is the loop of `runDue` in process `w`:
the claimed job, the attempt number, the local `accepted`, the abort signal
and the verdict between the handler's end and the final UPDATE. Times are kept
as ticks that are left (`due`, `lease`), which is all the SQL compares. `sent`
counts what the transport accepted: it is the environment's.

The handler is the environment too. Its freedom is what the handlers' code
leaves (`server.js:54-113,116-121`, `invitations.js:146-180`,
`inbound-calendar.js:332-366`, `mail-sync.js:14-27`): it submits at most once
in a run, returns "accepted" only of what the transport accepted, and reports
an error after acceptance as uncertain unless it called `markAccepted` before.
"completed" it may return without having submitted anything, as superseded
invitations and replies do (`invitations.js:148`, `:150`, `:172`,
`inbound-calendar.js:335-342`; `docs/BACKGROUND.md:104`) and `pim_sync` always
does. It can throw before submitting, with and without a retryable error,
return unknown, be slow, or submit after its lease is gone. The assumption on
errors supposes that the handler's own statements succeed after the
acceptance: `ScheduledSend` shows `externalSend` to keep it even if they fail;
the other handlers do not (known divergences).

`Claim` is the whole transaction, sweep included. `Heartbeat`, `MarkAccepted`
and `Settle` carry the same fence (`status='running' AND lease_owner=?`).
A process crash forgets the run and leaves the row. A lease of a live worker
runs out only in a `Stall`, counted with crashes by `MaxFaults`.

* `OnlyOwnerSettles`: a running job ends by its owner's verdict or, after its
  lease ran out, by the sweep.
* `KeepsPromise`: the refinement of `SubmissionPromise`, in which each delivery
  is submitted at most once and gets one verdict that is true of it:
  "accepted" (delivered) only of what was submitted, "failed" and "cancelled"
  (rejected) only of what never was and never will be, "completed" (finished)
  of work that is over, so that nothing is submitted for it afterwards.
* `EveryJobSettles`: every queued job reaches a terminal status.
* Proved only: `AtMostOneDelivery`, `SafeToResend` (what is shown as pending,
  failed or cancelled was not sent), `DeliveryAttemptsBounded`,
  `TerminalStays`.

The order of claims (`ORDER BY run_at`), job payloads, notifications and
`scanRecords` are left out; the record changes that accompany scheduling and
`cancel` are in `ScheduledSend`.
Clocks of different processes are taken to agree (the code uses `Date.now`).

### ScheduledSend

One draft and everybody who wants to send it. `draft` is its `records` row and
`live` the revision of its document in `collaboration_documents`, which holds
the body once the draft is edited live: such edits leave the record and its
version alone, and `externalSend` sends the document's body. `ops` are the `send_operations` and `ledger` the `provider_sends` rows of each
operation; an operation is a job of type `send` or a click on Send, and
`asked` is the version, text and document its user had before them.
`sending[s]` is the progress of `externalSend` in a worker or a request, with
the row it read at its start (`original`) and the document it checks
(`reviewed`); `planning[r]` that of `POST /api/jobs`. `accepted` is
what the transport took, in order. The queue is an instance of
`DurableScheduler` without recoverable jobs: a worker's `externalSend` runs
while its run is handling, and the steps `Submit`, `MarkAccepted`, `Return`
and `Throw`, free in that module, are taken here exactly when the code takes
them.

Texts are told apart by the version that introduced them. `externalSend`
becomes `Open` (reads the row), `Begin` (reads the operation), `Review` (reads
the document, after the attachments), `Decline` (any check that fails before
the lock), `Lock` (the transaction at `server.js:77`, which compares the
document with the reviewed one and the version with the one asked for), then either the local batch of `engine.js` or `sendMail`:
`Busy`, `Unauthorized`, `OpenLedger`, `Accept` by the transport, `Reply`,
`LoseReply`, `Reject`, `LoseLease`; then the three updates (`StoreSent`,
`RecordAccepted`, `MarkAccepted`), each of which may fail (`DatabaseError`),
and the catch block (`StoreFailure`, `RecordFailure`, `Throw`). A crash of a
worker or a request is possible at each of these points. `LiveEdit` is the
hub's transaction (`realtime.js:187`) with the guard that `server.js:124` runs
in it: the record is in the drafts folder and is not being submitted. So a
draft that is scheduled, and hence in the outbox, takes live edits again only
after an edit of its record or a cancellation has moved it back, and these
raise its version.

* `AcceptedOnce`: however often and from wherever it is requested, the
  transport takes the draft once. Two defences make it so: the outcome check
  of `Begin` and the version condition of `Lock`.
* `SentAsAsked`: what goes out is the text its user saw when asking. For a job
  this includes the shared document, as of the moment it was scheduled,
  although no version counts the document's edits. For a click the document
  is no older than the user saw it, but may have an edit of somebody else in
  it (known divergences). Either way the Sent folder shows what was sent.
* `OneOpenJob`: two concurrent schedule requests leave one open job. The check
  alone would not do; the version condition of the commit does.
* `OutcomeTold` = `ShownUnsentIsUnsent` (a draft shown as unsent or failed was
  not sent), `HandlerKeepsContract` (the contract `DurableScheduler` assumes
  of handlers) and `AcceptedJobIsSent` (job and draft agree once a job is
  accepted).
* `DraftKept` = `EditsKept` and `SentStays`: the final writes of
  `externalSend` carry no version condition; they are harmless because write
  permission is refused while a draft is submitting (`permissions.js`),
  because an edit authorised before the lock fails its version condition, and
  because the catch block looks at the folder first.

Left out: deleting the draft, moving a message by hand into or out of other
folders than drafts and outbox (a sent message moved back to the drafts can be
sent again, as its user wants) and recipients refused by an accepting server
(`partial` counts as accepted). What merges in the document is in `Collab`;
here it has a revision only. A request that the
transport accepts after its sender gave up is represented by one it accepts
right before: nobody sees the difference.

### ClusterEvents

`head`, `created` and `kept` are the log; `nodes[n]` is the `cluster_nodes`
row; `process[n][b]` is the coordinator object of boot instance `b` that
uses node ID `n`, so that two instances of one ID can be alive. A poll is
`Heartbeat`, `Read`, then `Process` and `Advance` for each event, then
`Maintain`; the clock value it started with is kept in `now` and used, stale,
by `Maintain`, as in the code. `Fail` is a callback that throws. `joined`,
`seen` and `lapsed` are history: where a node first joined, what it has
processed, and whether an event was deleted while its registration had
expired.

* `NothingSkipped`: every event up to a cursor was processed by a callback of
  the node, unless it was deleted while the node had lapsed.
* `TakenOverSafely`: a node ID is not taken from a live instance
  (`OneLiveInstance`), and an instance that takes it over, after a crash or an
  expiry or while the other is still in its loop, skips nothing either.
* `RetentionSparesLive`: maintenance deletes no event that a live node has not
  passed.
* `CursorsAdvance`: the stored cursor never goes back, even when a replaced
  instance is still in its loop.
* `EventsArrive`: a process that keeps running reads every event that is not
  deleted first.

### Collab

One draft whose text several people edit. A Yjs document is represented by
the set of updates it holds, so that merging is union; what Yjs guarantees of
that union (commutative, idempotent, an update that lacks what it refers to
is pending) is assumed. The first update of a document, its seed, is named
after the tab that made it out of the record's text: two seeds in one
document are the text twice.

On the server, `row` is the `collaboration_documents` row with its revision,
`room` the room objects of every process, `mapped` the entry of `hub.rooms`
and `member` the entry of a connection's `client.rooms`: they are different
things, since `leave` deletes the map's entry and a suspended `join` keeps its
object. `joining` is such a join, at a broadcast or before its transaction;
`checks` are recipients whose authorization a broadcast awaits; `stale` are
processes that have the row's event still to read. In the browser, `ed` is the
editor's document with the writes it has queued for the journal, `journal` the
IndexedDB record (`ups`, `server` and the entries that are `pending`),
`pend` the requests of `LiveClient.pending`, `flush` a flush between two
awaits. An editor's `err` is `lastError`, which an acknowledgement clears, or
`storageError`, which stays: a flush returns only without either. `up` and
`down` are the socket. `unstored`, `unsent` and `erased` are history: what a
flush returned that was not stored, the same for one whose push found no
connection, and the edits that a withdrawal of access took off a journal.

Every frame the hub dispatches on is an action, and a join is as many as it
has suspensions (`HubJoin`, `HubSeed`, `HubAdd`); so are one recipient of a
broadcast (`Check`), the cluster event, the sweep, every frame `receive`
handles, and every transaction of the journal. Faults are dropped sockets,
time-outs, reloads and access that is taken and given back.

* `JournalTruthful`: what the journal counts as stored is stored, and
  everything else is still pending.
* `OneDocument`: the text is stored once, by one seed, although several tabs
  on several processes may try; and when nothing is under way members of a
  process's mapped room show all that is stored.
* `FlushedIsStored`: when `flush` returns after an acknowledgement, or with
  nothing to send, all of the document is in the row, which is what will be
  sent; edits that were taken off the journal together with the access to the
  draft are exempt.

Left out: presence and cursors, frame limits, record events (`publish`),
formatting and selection in the editor.

### Offline

A browser profile's queue. `stored` and `entry` are the object store
`pending`, in the order of `sequence`, in which a user's replacement takes the
place of what it replaces; `list` is what `flushQueue` has left of the copy it
read when it began; `req[k]` is the request of mutation `k` that a tab waits
for and a copy of it that nobody waits for any more. On the server `rec` are
versioned records, `ops` the rows of `api_operations`, `lease` the cluster
lease of each idempotency key. A request arrives (`Arrive`: lease, stored answer, recovery), reaches its route
(`Route`: the engine's versioned statement) and finishes (`Finish`: the
answer is stored and sent); the server can die between any two, and requests
are lost before or after.

* `ExactlyOnce`: no edit is applied twice (`AppliedOnce`), none leaves the
  queue without its effect or the user's decision (`NothingLost`), and an
  edit's stored answer is its success (`AnswersAgree`).
* `NeverOvertaken`: no edit takes effect before an older one that is
  unresolved.
* `EditsSettle`: every queued edit leaves the queue or stands behind one that
  waits for the user.

Left out: cached reads, the sample workspace without a server, attachments,
and requests that outlive the three minutes of their lease.

### Calendar

A meeting between an organizer and a guest whose mail and calendar are
modelled, with another one who is only invited and uninvited. `inv` and `att`
are the organizer's tables, `prior` the last mailed reply that was applied,
`creating` a `create` that is suspended, with what it read before; `jobs` are
the deliveries of both services; `mail` and `replies` are messages under way,
or waiting for a review, which delays them alike; `cal` and `answer` are the
guest's tables. Messages arrive in any order and deliveries are repeated.

* `GuestsConverge`: once all messages are taken in, in whatever order, the
  calendar shows the revision in force, or no live meeting if the guest is no
  longer invited.
* `AnswersStand`: what the organizer's record shows was said of the revision
  in force (`AnswersAreCurrent`), and a guest who changes their mind by mail
  ends up with the last answer (`LatestAnswerStands`).
* `OneRevisionPerSequence`: two tabs that revise at one time do not use a
  sequence number twice.
* `CalendarAdvances`: a calendar never goes back, and a cancelled meeting
  comes back by a later revision only.

Left out: parsing, instances of recurring meetings, expired links.

### Pim

A contact between four parties. `rec` is the record with the provider version
it carries (`etag`) and whether it holds an edit the provider never had
(`own`); `shown` is the user's page, which every write and choice is based
on; `op` is the record's row in `pim_local_operations`, `rs` the rows of
`pim_gateway_resolutions`; `run` is the gateway operation under the lease
`pim-ingest`; `svc` is the service's write under the account's lock, `sw` its
rows in `provider_pim_writes`, `state` and `batch` what it knows of the
collection. `run` and `svc` are separate since they hold separate leases: a
gateway whose lease expires does not stop the service under it. `wire` are
requests at the provider. Listings may lag behind accepted writes for two
minutes (`age`), the case for which `add()` keeps the accepted version.

* `NoBlindOverwrite`: no write replaces a version at the provider that its
  author had not been shown.
* `RecordKept`: an edit made here is replaced only by an operation that
  carried it or by choice (`LocalKept`), and the record never goes back to an
  older version of the provider's (`NeverBack`).
* `Reconciles`: an enumerated account's record comes to the provider's version
  again and again, unless something waits for the user.

Left out: deletions, several contacts, pages of a listing, field formats,
and the differences between events and contacts.

### Mailbox

One message of a connected mailbox. `srv` is the message at the provider,
`home` the folder of each identifier it has had (IMAP renames it with every
move), `recs` the records by the identifier under which they were imported.
The write-back is `jobs` in the order of the edits (the trigger
`queue_provider_update` runs in the edit's transaction), `muts` the rows of
`provider_mutations`, `alias` those of `provider_message_aliases`, and `work`
the handler: it waits for earlier jobs of its record (`Begin`), marks the
mutation (`Ask`), sends a request for each part of the patch, stores aliases,
and completes. The import is `sync` (`StartSync`, `Call` for each call of the
protocol's `Sync` function, `Stage`, `Ingest` with `preservePending`,
`Acknowledge`). Changes of other clients come between any two calls.

What the protocols list is in modules of their own, as functions from the
cursor and the mailbox to the calls' possible results: `GraphSync` (a delta
token for each folder), `GmailSync` (history, or a full listing in pages with
a snapshot of the history identifier), `ImapSync` (snapshot of all folders,
members one by one, deletions last; a limit may stop a call after any of
them). One instance of `Mailbox` contains all three and a behaviour's
`profile` says which it uses.

* `EditsHonoured`: an edit whose write-back is not settled is what the user
  sees (`EditsStay`), and the provider never applies an earlier edit of a
  record after a later one (`InOrder`).
* `Reconciled`: when the checkpoint stands for the provider's present state
  and nothing is under way, there is one live record, and it is the message.
  Failed write-backs and the race (b) among the known divergences are
  exempt.
* `CatchesUp`: synchronisation reaches the provider's present state again and
  again.

Left out: copies of a message, attachments, legal holds, fields that an edit
does not write back, and the wire formats.

## Runs

| Run | Instance | Question |
|---|---|---|
| `work_lease` | two transactional workers and one that asserts too early; the clock, tokens and time bounded (1.2 million states) | do leases order protected writes, and implement the fenced store? |
| `scheduler` | a delivery and a polling job, two workers, two faults, two attempts, lease of two ticks, under fairness | does the queue keep its promise about deliveries; does every job settle? |
| `scheduled_send` | four setups: a job, two workers, a request and edits; a local job, a worker and two requests; two jobs and two requests; a job of either kind, a worker, a request and two live edits; each with a click and one fault (0.9 million states) | is one draft sent once, truthfully, and does `externalSend` keep the handler contract? |
| `cluster_events` | two nodes with one instance each | retention and cursors across nodes |
| `cluster_events_replace` | one node ID used by two instances, under fairness | replacement while the old instance still runs; delivery in spite of failing callbacks |
| `collab` | two processes, two people with a tab each, two edits, one fault (0.9 million states) | is the text stored once, do members converge, is the journal truthful? |
| `offline` | three mutations, of which one is a user's replacement, one fault, two foreign writes, under fairness (0.8 million states) | is each edit applied once and in order? |
| `calendar` | one guest with a calendar and one without, in three profiles: three revisions in two tabs; answers by mail and by link; three answers by mail (1.3 million states) | do calendars and attendee lists converge on the latest? |
| `pim` | three keys, three versions at the provider, one fault of any kind, enumerating and delta accounts, under fairness (0.4 million states) | is a contact ever overwritten unseen, or lost? |
| `mailbox` | each protocol in several profiles: two edits with at most one foreign change, one edit with two, or (IMAP) three foreign changes; one fault, under fairness (0.5 million states) | are edits honoured, and is the record the message in the end? |
| `send_retry` | one job, one worker, no fault | finding 1, a violation |
| `pim_window` | two keys, a delta account, no fault | finding 2, a violation |

Why the bounds are enough to be interesting. A lease conflict needs two
holders; the third worker is a second successor. The scheduler needs one job
to claim, lose, sweep and reclaim; two faults allow a stall of the owner and a
crash of the worker that took over, two attempts one retry and an exhausted
budget; the polling job shows that runs of different jobs do not mix and that
the sweep tells the types apart. (The safety properties are proved for any
number of jobs.) The event log needs an old and a new event, a retention of a
tick or less, and time for a registration to lapse and come back. A draft
needs two operations to be sent twice, two senders to race, a version for
each of scheduling, an edit and the lock, and one fault, since `externalSend`
leaves an uncertain outcome after the first. Two live edits let one come before
the request and one between it and the lock.

A collaborative document needs two processes that store it, two tabs that may
both bring its first state, an edit of each, and one fault, after which
reconnection, replay of the journal and late answers follow. An offline queue
needs an entry that stands in another's way, a replacement that takes an old
place, and one lost request, which leaves a stray copy; the server's crash is
a fault of the same bound. A meeting needs three revisions for a late message
to be older than two others. A contact needs two writes for a retry of one to
meet the other, a third key for the user's choice between them, and three
versions for a stale one to be neither the first nor the last. A mailbox needs
two edits of one record for an order between them and a foreign change that a
listing can miss; three changes move a message away and back, which is what
the IMAP cursor has to tell from nothing.

Bounds cut behaviours short only through guards named in the modules
(`MaxTime`, `MaxToken`, `Setup`, `MaxFaults`, `MaxEvents`, `MaxFailures`,
`MaxQueue`, `Slot`, `MaxKeys`, `MaxEdits`, `MaxVersion`, `MaxEtag`,
`MaxOthers`, and the `Profile` of a behaviour, which divides one large
instance into several small ones). `CHECK_DEADLOCK FALSE` stands where a bound
stops the clock, all workers or all users. Symmetry is used over
interchangeable jobs, workers, processes, tabs and edits, in runs without
liveness properties only.

Every property of a passing run has a mutant in `PROJECT.json`: a definition
of the model changed the way the code could plausibly be wrong (a sweep that
never happens, a fence left out of an UPDATE, a merge with the cached state
instead of the stored one, a replay that ignores the stored answer), under
which TLC reports that property violated.

### Fairness

* `DurableScheduler!FairSpec`: some process keeps claiming (`setInterval` in
  `start`), the heartbeat timer of a live worker fires, a handler ends (every
  provider request has a time limit), its verdict is stored, and time passes.
* `ClusterEvents!FairSpec`: the polling timer of a running process fires and
  its statements end.
* `Offline!FairSpec`: the replay is started again (the page does so whenever
  the browser comes online and after every load) and goes on; the server works
  on the requests it has. Which of them comes first is left open.
* `Pim!FairSpec` and `Mailbox!FairSpec`: the scheduler polls accounts for
  ever; a request at the provider ends; what holds a lease goes on. Fetching
  and asking for a lease are strongly fair: a lease that is held for a moment
  by one poll or job after another is found free again and again, and a job
  that finds it taken is tried again.

Users are not assumed to do anything, and faults are allowed but finite.

## Findings

1. `send_retry`. `docs/MAILBOX-SYNC.md` and `docs/PROVIDERS.md` call the answer
   of a busy mailbox retryable, and the scheduler does retry it. But
   `externalSend` has raised the version of the draft by then, twice (lock and
   catch block), while the job still asks for the version it was scheduled
   with: the retry is refused as if the draft had been edited, and the
   scheduled message fails.
2. `pim_window`. `docs/PIM.md` says that a conflicting version still present
   after two minutes appears among the conflicts. Age is looked at only when
   the listing has the record (`providers/pim.js:261`). A delta listing
   reports a version once: one that was reported within the two minutes is
   not kept and never looked at again, so that the conflict stays unnoticed
   until the contact changes once more.

## Known divergences

Places where the code does not do what a reader might expect of it and which
no run shows. The properties of the runs are stated so as not to include
them; comments in the modules refer to this list.

* Work leases. `docs/CLUSTERING.md` asks callers to assert the lease inside
  the transaction of the protected effect. `ingest` (`server.js:35`) asserts
  at the top of its loop and writes in later statements, so that a process
  stalled in between can overwrite what its successor imported. In `WorkLease`
  such writes are in `loose`, of which nothing is claimed.
* Scheduler. `docs/BACKGROUND.md` asks handlers to honour the abort signal;
  the send handler is not given it (`server.js:114`), so a message can be
  submitted after its job was swept (`AbortHonoured` is stated in
  `DurableScheduler` and does not hold). `KeepsPromise` does: the sweep never
  queues a delivery again.
* Scheduler. If a statement fails after the transport accepted (the UPDATEs
  at `providers/index.js:379` and `:383` one after the other,
  `inbound-calendar.js:360` or `mail-sync.js:25`), the handlers of invitations,
  replies and write-backs throw an error that nothing marks as uncertain, and
  the job is shown as failed. `DurableScheduler` excludes this of its handlers;
  `externalSend` makes such an error uncertain (`ScheduledSend`).
* Sending. `docs/BACKGROUND.md:22` asks a send handler never to send an edited
  draft silently. For a click the server compares the record's version with
  the user's, but knows no revision of the document they saw: `server.js:72`
  reads it and the lock compares it with that reading. What a co-author adds
  between the click and that reading is therefore sent without the user having
  seen it; the same holds between a user's request to schedule and the commit
  of `POST /api/jobs`. (`docs/COLLABORATION.md:47` says that the body is read
  in the lock's transaction, and no more.) A comparison in `SentAsAsked` with
  the document at the click does not hold. Once a draft is scheduled the hub
  refuses live edits, so that for jobs it does.
* Realtime hub. A `join` suspended in `broadcastRoom` (`realtime.js:288`)
  while the last member leaves (`realtime.js:368`) ends as a member of a room
  object that is no longer in the map, and hears of no change by another
  process (`JoinedIsMapped`). `OneDocument` speaks of members of mapped rooms.
* Live client. A push on a closed connection returns as if it had been
  acknowledged (`collab.js:271`, in `flush`, `collab.js:402`), and `flush`
  with it unless an error is left of an earlier request. The error of a
  time-out can be cleared by the late answer of another request, so that even
  the tab's own edits may not be stored then (`FlushNeedsConnection`, which
  two faults violate). Edits that a withdrawal of access took off the journal
  can still be in an editor that has its access back, and be returned.
* Journals that tabs share. With two tabs of one identity, `flush` can return
  another tab's entries that are not stored; and a `revoked` frame to one tab
  locks the journal for both, so that an update the other receives meanwhile
  is dropped and not shown until it joins again (`collab.js:157`). `Mine`
  and `Hearing` in `Collab_proofs` say what is true of a tab with a journal of
  its own; `FlushedIsStored` and the convergence in `OneDocument` are checked
  and proved for such tabs.
* Offline. A mutation that the user discards during a replay is still sent,
  from the copy of the queue the replay has read (`DiscardedNotSent`). The
  409 of a request whose own earlier copy still holds the lease is treated as
  a conflict, and after a server crash a 409 can be stored for an edit that
  was applied, if the record has been changed since: the user is shown a
  conflict with their own edit.
* Calendar. The organizer's server writes the reply of a link's answer when
  it is delivered, with that time as its stamp, so that it can override an
  answer mailed after the link was used; and a mailed reply may override a
  link's answer. `LatestAnswerStands` exempts guests who use both.
* Pim. A write whose lease was lost is recorded as rejected although the
  provider may have accepted it; when the user retries it, a contact is
  created twice (`CreatedOnce`). A retry of a rejected write does not lock the
  record meanwhile, and `LocalKept` exempts it.
* Mailbox. (a) `reconcileImap` compares a message with the cursor, not with
  the record: a flag set here and reset by another client before the next
  synchronisation is never reported (`mail-protocols.js:311`). (b) What
  another client changes between a write-back's request and its completion is
  hidden by `preservePending` (`mail-sync.js:29`); `others.raced` marks such
  behaviours, and `Reconciled` exempts them. (c) With Graph, a message that moves
  from a folder listed earlier to one listed later during a synchronisation
  is listed in its new folder, and by the next synchronisation as removed
  from its old one, which deletes its record (`cloud-mail.js:119`). The
  Graph profiles of the run have no moves by other clients.
  (d) A message moved here over IMAP and then deleted by another client is
  filtered out through its alias (`providers/index.js:310`), and its record
  stays. Besides, a failed write-back blocks the later ones of its record for
  ever; an expired Gmail history does not report messages that are gone; a
  crash leaves a mutation pending that blocks its message; waiting for an
  earlier job uses up attempts.

## Proofs

Theorems hold for every value of the constants that satisfies the assumption
named in the module (`WorkLeaseAssumption`, `SchedulerAssumption`,
`ScheduledSendAssumption`, `ClusterEventsAssumption`, `CollabAssumption`,
`OfflineAssumption`, `CalendarAssumption`, `PimAssumption`, `MailAssumption`
and `MailboxAssumption`): any number of
workers, jobs, tabs, guests, keys, folders and edits, any durations, any bounds. The bounds
stay in the guards of the model, as parameters. Two theorems of
`Collab_proofs` have a hypothesis besides, `Own`, that no two tabs share a
journal; it is stated in the theorems, and the divergence above is why it is
needed.

`Mailbox_proofs`, the lease. A synchronisation holds the lease `mail-ingest`
throughout and `mail` while it talks to the provider, a write-back holds `mail`;
the first part of the module is about what such a lease is worth. Its inductive
invariant `LeaseInv` adds to the types and `TokensDiffer`: no call in progress and no write carries a token above the
row's (`TokensBounded`); the expiry is at most one duration ahead of the
clock, and of the clock value an owner is about to renew with
(`ExpiryBounded`), without which a renewal could move the expiry back; and
only plain callers pass through the asserted phase. From it follow
`TokensDiffer`, `OnlyOwnerChanges`, `ConfirmedUnsuperseded`, `MonotoneWrites`
and the refinement of `FencedStore`, with any mixture of transactional and
plain workers.

`Mailbox_proofs`, the message. `EditsHonoured` has two halves, with one
invariant, `MInv`. For what the user sees (`EditsStay`) the induction is about
`preservePending`: a record that is stored carries, of each field, the last
unsettled edit or else what was listed, and the last edit of a field, if it is
unsettled, is the last unsettled one. The induction needs the records and
batches to be of the right sets, so the types of what the protocols collect are
part of it (`Collected`): for each of the three, what its calls return from any
cursor and mailbox is a cursor and a list of messages again. For the order at
the provider (`InOrder`) it is about jobs: the job that runs is one of the
queue's (`Running`); a job has at most one request under way, the one it waits
for or a late one of a job whose outcome is unknown (`OneRequest`); and before
a job starts everything earlier of its record is completed or cancelled, for
ever (`Ordered`), so that a late request, whose job is neither, finds no later
job started. That IMAP always finds an
identifier the message never had (`Fresh`) is proved by counting: each
identifier was used by a request of a job or by another client, both of which
are bounded (`Homed`, `Counted`). Types, `EditsStay` and `InOrder` hold for all
three protocols and any folders.

`Mailbox_proofs`, the record. `CloudMailReconciles` states `Reconciled` of
Gmail and Graph, wherever every change is reported (`Reports`: with Gmail, other
clients do not remove messages or no history expires; with Graph, they do not
move messages; see the known divergences). Its invariant, `RInv`, adds to
`MInv` who holds the mailbox's lease (`Leased`), that requests ask for parts of
their edits (`Asked`), that only an expired history makes Gmail's listing full
(`Expired`), and, while no write-back has gone wrong or was raced (`Well`, which
never recovers, so that the induction may assume it of the state before), what
the store knows (`Reported`):

* the message keeps one record and one identifier (`OneRecord`); a field that
  the running job writes is still asked for or has reached the provider
  (`Effective`), and a record is deleted because the message is, or by the last
  edit (`DeletedLast`);
* a cursor is never ahead of the provider (`Behind`). It may lag, and then says
  nothing of the record; but once it is level with the provider's present
  version (`Level`), then if it is the checkpoint the record agrees with the
  message, apart from the unsettled edits (`Agree`); and if it is a staged
  batch's, the batch shows the message as it is, or has nothing to tell
  (`Carried`). Hence no order of listings, restarts and expired cursors skips a
  change;
* the same for what the calls of a synchronisation have collected so far, which
  is where the protocols differ: Gmail fetches a message after it has listed
  it, as it is then (`GmailFetched`); Graph goes from folder to folder, and what
  it saw of those behind it is the message or its removal (`GraphFetched`).

When a write-back completes, every earlier one of its record is settled
(`Ordered`), and what it wrote is what the user still sees (`EditsStay`): so
`Agree` survives the moment at which an edit stops being protected from
listings. A request that is served raises the version, which makes every cursor
lag and obliges the next synchronisation to list the message again.

`DurableScheduler_proofs`. `AtMostOneDelivery` is far from inductive: it
needs to know what every run may still do. `DeliveryInv(j)` says for each
delivery job: a run in progress either owns the row, or the row's outcome is
unknown already (`OwnedOrUnknown`); at most one run handles the job
(`OneBusy`); the row tells the truth about `sent` (`RowTruthful`); so do the
run while it is handling (`HandlingTruthful`) and the verdict it carries
afterwards (`SettlingTruthful`). Proving it for one job at a time leaves,
for each action, the few jobs and runs it touches and one frame lemma
(`Untouched`) for the rest. The safety properties, the action properties and
the refinement of `SubmissionPromise` follow.

`ScheduledSend_proofs`. The invariant of the queue's proofs is used as it
stands (`QP`, an instance of `DurableScheduler_proofs` with every job a
delivery): each step of `ScheduledSend` is a step of the queue or leaves it
alone. `MailInv` adds the draft. Every write raises the draft's version, so
that whoever holds the present version has seen the present draft
(`VersionsTell`). The lock needs the version that was asked for and leaves
another, so an operation locks once, one sender holds the lock at a time, and
the text it read stays the draft's (`Locked`); a key is therefore entered into
the ledger once (`LedgerOnce`). Once the transport has accepted, the draft
shows it as sent, or as submitting or unknown (`Truthful`), which `Begin` and
`Lock` refuse: hence `AcceptedOnce`, `SentAsAsked` and, with what a run knows
of its own submission (`RunTruthful`), `OutcomeTold`. The shared document has no
version, and its part of `SentAsAsked` is proved in a layer of its own
(`DocumentTells`): a draft whose version is a scheduled job's is in the outbox
and takes no live edits, so that its document is the one that was scheduled;
what a sender reviews is no older than what was asked for (`Read`); and from
the lock on the draft is `Frozen`, its document the reviewed one, which is what
is sent (`AcceptedLive`). A request that found no
open job may schedule one only while the version it read is the draft's, and
then there still is none (`NoneOpen`). `SendsKeepPromise` closes the circle:
`externalSend` keeps the contract that the queue's proofs assume of a handler,
so that with it the queue implements the promise.

`ClusterEvents_proofs`. `NothingSkipped` speaks of the stored cursor; the
induction needs the cursors and batches in memory too, those of replaced
instances included: all that a cursor has passed (`Passed`), that precedes an
event of a batch (`Batched`) or that was deleted (`Deleted`) has been
processed, if the node is owed it. The instance that owns the row has the
row's cursor (`OwnCursor`), without which an advance could move it back. A
poll with a recent heartbeat owns the row, which expires no earlier than the
heartbeat said (`Owned`): hence `OneLiveInstance`, and hence the clock value
that maintenance uses, although stale, deletes nothing that a live node lacks.

`Offline_proofs`. What the browser believes and what the server did meet in
the lease: the copy of a request that is being served holds it (`Served`), so
that until a crash a key's first run is its only one (`FirstRun`), and after
one a record's version tells whether the edit took effect (`Effects`), which
is what the recovery looks at: `AppliedOnce`. An answer of success is earned
(`Earned`): `NothingLost`. For the order: a replay waits for one request, the
first of what it has left (`OneSent`); what it has left holds every open place
before its last one (`CopyComplete`), although the queue changes under it; so
nothing open is in front of a request that is still to reach its route, a
stray copy of a lost one included (`SentInOrder`), and nothing is overtaken.

`Calendar_proofs`. Messages are a set from which any is taken. A revision
invites or cancels a guest and never both (`OneKind`), and the revision in
force, or the cancellation that removed a guest, has reached the calendar or
is under way unless something later has overtaken it (`UnderWay`): with
nothing under way the calendar has converged. For the answers: what is
recorded or under way was said (`Said`), stamps come from the guest's counter
(`Stamps`), and the last answer, which has the largest stamp of all, is yet to
be sent, on its way, or recorded (`LastAnswer`).

`Collab_proofs`. `IInv` is about origins. A process whose room is behind the
row has an event still to read (`RoomsFresh`); nothing is reported to a tab as
stored before it is (`Reported`), and a request names only entries that it
carries or that are stored (`Asked`): hence `JournalTruthful`. What an editor,
a snapshot or a flush has comes from the row, from the entries its journal
still holds, from those an erased journal took along, or waits to be saved
(`Sources`). Before the first state is stored nobody has anything to edit
(`Pristine`); the transaction that finds no row stores one seed, and later ones store none
(`OneSeed`). `FlushStores` adds that nothing becomes pending behind a flush
that waits (`FlushWaits`), which is where the journal must be the tab's own.
`OneDocumentKept` needs an invariant of communication: a present member has,
is told or will be told everything its room holds (`Follows`), or its journal
has been locked and a later `joined` answer is on its way (`Rejoins`); and
what a tab asks to store it shows (`Mine`), since the hub does not send it
back.

`Pim_proofs`. `NoBlindOverwrite` rests on an argument over four tables. A
page that shows the record's present version shows the provider version that
belongs to it (`Loaded`), so what a write is based on is what its author saw,
in the gateway's rows and in every request on its way (`SeenIsBase`); the
provider replaces a version only for a request based on it. That a run and the
rows it reads belong together needs the keys: a key is of one write or of one
choice (`OpKeyed`), a run's key is the one of its row (`RunKeyed`), the lock
is held for a row that says submitting and never for one that a gateway has
taken for accepted (`LockKeyed`), and what was accepted or conflicts has a
version (`Versions`). With the types these are inductive; `TypeCorrect` and
`SeenBeforeReplaced` follow.

`RecordKept` is an action property and its invariant, `RInv`, is about what a
lagging listing may still report. Every version in any table is one the
provider has had (`Reached`). What a synchronisation may give to the record, be
it the version the service keeps for two minutes after a write, the answer of
that write or a listed version in a batch, is no older than the record or
anything else that may still be stored in it (`Newest`); a batch and the state
it was taken from belong together until its transaction (`Batched`); and the
receipt of a choice is of the version that was chosen (`Picked`). So the record
never goes back. A write is based on the record it has read, until that changes
(`Based`), and an edit that the provider never had is of a contact without a
version there, of which no table of the service knows before the first write
(`Owned`). So an edit is replaced only by an operation that carried it:
`RecordIsKept`.

Only model-checked:

* liveness under fairness (`EveryJobSettles`, `EventsArrive`, `EditsSettle`,
  `Reconciles`, `CatchesUp`), which is out of the prover's reach;
* `Reconciled` of `Mailbox` over IMAP (outside `Reports` Gmail and Graph do not
  have it, see the known divergences, and no run asks for it). IMAP has no versions to compare a cursor with: what its checkpoint
  says of the record would have to be argued over all its cached members and a
  whole cycle of folders.

Neither is there a theorem about a run that expects a violation
(`RetryFitsDraft`, `ConflictSurfaces`).

## Simplifications

Places where a definition is coarser than the lines it stands for, and why no
property depends on it.

* `ScheduledSend!Reject`. A provider's refusal is certain or uncertain, freely:
  `oauth.js:63` gives 4xx answers of Gmail and Graph the status 502, which
  `server.js:105` takes for uncertain.
* `Collab!Save` and its `Pushes` do not look at `authenticated`
  (`collab.js:263`, `:270`). An editor counts as connected (`on`) from its
  `joined` answer, which comes after the authentication, and a closing socket
  resets both (`collab.js:78`).
* `Calendar!Respond` stamps answers with a counter, where the code takes the
  larger of the clock and the last stamp plus a second
  (`inbound-calendar.js:318`): both grow with every answer, which is all that
  is compared.
* `Pim!CallWrite` checks a choice against the open conflict whenever its
  request has not been sent. The code does so once, when it stores the intent
  (`providers/pim.js:389`); a retry after a crash right behind that goes on
  from the intent. The write then still carries the version that was chosen
  over, and the provider refuses it if it has another by then.
* `Pim!Fetched` lists an empty result if a record is absent from a listing. A
  full listing reports a pending write's record (`providers/pim.js:268`), and
  so stores the accepted version again, as `Fetched` does when the listing has
  another version of the record.
* `Mailbox!Store` stores the identifier (`mail-sync.js:25`) and completes the
  job in one step. After a crash between the two the job is unknown: it blocks
  the record's later write-backs, which would use the identifier, and exempts the record from `Reconciled`.
* `Mailbox!Refused`: over IMAP a failure before the first write of an existing
  message is `failed` in the code (`mail-protocols.js:497`) and `unknown` here.
  Either blocks the record's later write-backs and exempts it from `Reconciled`.
* `ImapSync!Deletions` is one step. The code can stop at its limit in the
  middle (`mail-protocols.js:349`) and go on in the next call. More than one of them
  is of one message only if it was moved more than once since the last cycle.
* `GraphSync!GraphPage` lists a folder and fetches the message's content
  (`cloud-mail.js:124`) at once. A message that is gone by the fetch is skipped
  there, and reported by the token's next page.

## Not modelled, and the plan

Next, in this order:

1. `ProviderLease` (reentry of nested operations while the heartbeat fails)
   and `TokenRefresh` (two requests that refresh one token).
2. Deletion in `Pim`, and compliance purges beside `Mailbox`.

Left out for good:

* wire formats of mail and calendar protocols, date arithmetic and recurrence
  rules: functions over text and dates that tests reach better than a model
  with small sets does;
* authentication, the audit log and permissions: each check is one conditional
  statement, and what matters about it is cryptographic or a table of roles;
* the remote database client, file storage and the supervisor: thin adapters
  without shared state of their own;
* the user interface and the renderer: presentation, no state the safety of
  the system depends on.
