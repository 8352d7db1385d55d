------------------------------- MODULE Mailbox ------------------------------
(* One message of a connected mailbox, which the user edits here while other   *)
(* clients change it at the provider: synchronisation (syncAccount, ingest,    *)
(* acknowledgeSync) and write-back (mail-sync.js, updateMessage).  What a      *)
(* protocol lists is in GraphSync, GmailSync and ImapSync.  A synchronisation  *)
(* holds the lease 'mail-ingest' throughout, its calls to the provider and a   *)
(* write-back's hold the lease 'mail' (module WorkLease).                      *)
(* Jobs run one at a time (module DurableScheduler).  Not modelled: copies of  *)
(* a message, attachments, legal holds, and what an edit does not write back.  *)
EXTENDS Naturals, Sequences, FiniteSets, MailMessage

CONSTANTS MaxEdits, MaxOthers, MaxFaults, Profile

ASSUME MailboxAssumption ==
  /\ {MaxEdits, MaxOthers, MaxFaults} \subseteq Nat
  /\ MaxVer >= MaxOthers + 2 * MaxEdits /\ MaxLoc > MaxOthers + MaxEdits
  /\ Profile \subseteq [protocol : {"graph", "gmail", "imap"}, edits : 0..MaxEdits, others : 0..MaxOthers,
                        moves : BOOLEAN, faults : SUBSET {"lose", "crash", "reject", "expire"}]

VARIABLES
  srv,     \* the message at the provider: loc 0 when it is gone
  home,    \* the folder of each identifier it has had
  recs,    \* records, by the identifier they were first imported under
  jobs,    \* provider_mutation jobs in the order of the edits
  muts,    \* provider_mutations, by job
  alias,   \* provider_message_aliases
  work,    \* the job that runs
  wire,    \* its requests on their way, late ones too
  sync,    \* the synchronisation
  fetch,   \* what its calls have collected
  batch,   \* provider_sync_batches
  cursor,  \* the account's checkpoint
  mailLease, \* who holds 'mail'
  reached, \* history: jobs the provider applied; late: one after a later one
  others,  \* changes other clients may still make, raced: one came while a
           \* write-back had reached the provider and was not completed
  left,    \* faults left
  profile

GraphS == INSTANCE GraphSync
GmailS == INSTANCE GmailSync
ImapS == INSTANCE ImapSync

provider == <<srv, home, wire, reached, others>>
writeback == <<jobs, muts, alias, work>>
reading == <<sync, fetch, batch, cursor>>
vars == <<provider, recs, writeback, reading, mailLease, left, profile>>

Job == 1..MaxEdits
\* An edit's patch; a field it leaves alone is "none".
NoPatch == [flag |-> "none", folder |-> NoFolder]
Patch == [flag : Flag \cup {"none"}, folder : Folder \cup {NoFolder}]
Message == [pid : Loc, del : BOOLEAN, meta : BOOLEAN, folder : Folder \cup {NoFolder},
            flag : Flag, prev : 0..MaxLoc, rec : 0..MaxLoc]
NoAlias == [canon |-> 0, rec |-> 0, folder |-> NoFolder]
Idle == [job |-> 0, pc |-> "idle", orig |-> 1, pid |-> 1, todo |-> NoPatch,
         wrote |-> FALSE, ans |-> "none", res |-> 1]
\* The checkpoint of the import.
Origin == CASE profile.protocol = "graph" -> GraphS!Imported
            [] profile.protocol = "gmail" -> GmailS!Imported
            [] profile.protocol = "imap" -> ImapS!Imported
NoFetch == [i |-> 0, cursor |-> Origin, msgs |-> <<>>]
NoBatch == [on |-> FALSE, msgs |-> <<>>, cursor |-> Origin]
Cursor == CASE profile.protocol = "graph" -> GraphS!GraphCursor
            [] profile.protocol = "gmail" -> GmailS!GmailCursor
            [] profile.protocol = "imap" -> ImapS!ImapCursor

TypeOK ==
  /\ srv \in [loc : 0..MaxLoc, folder : Folder, flag : Flag, ver : 0..MaxVer]
  /\ home \in [Loc -> Folder \cup {NoFolder}]
  /\ recs \in [Loc -> [in : BOOLEAN, deleted : BOOLEAN, pid : Loc, folder : Folder \cup {NoFolder}, flag : Flag]]
  /\ jobs \in Seq([rec : Loc, patch : Patch,
       st : {"pending", "running", "completed", "failed", "unknown", "cancelled"}])
  /\ muts \in [Job -> [st : {"none", "pending", "applied", "failed", "unknown"}, pid : 0..MaxLoc]]
  /\ alias \in [Loc -> [canon : 0..MaxLoc, rec : 0..MaxLoc, folder : Folder \cup {NoFolder}]]
  /\ work \in [job : 0..MaxEdits, pc : {"idle", "ask", "wait", "store"}, orig : Loc, pid : Loc,
               todo : Patch, wrote : BOOLEAN, ans : {"none", "ok", "missing", "refused"}, res : Loc]
  /\ wire \subseteq [job : Job, pid : Loc, patch : Patch]
  /\ sync \in {"idle", "fetch", "ingest"}
  /\ batch.cursor \in Cursor /\ \A i \in DOMAIN batch.msgs : batch.msgs[i] \in Message
  /\ fetch.cursor \in Cursor /\ cursor \in Cursor
  /\ mailLease \in {"free", "sync", "work"}
  /\ reached \in [jobs : SUBSET Job, late : BOOLEAN] /\ others \in [left : 0..MaxOthers, raced : BOOLEAN]
  /\ left \in 0..MaxFaults /\ profile \in Profile
  /\ work.job # 0 => jobs[work.job].st = "running"
  /\ mailLease = "sync" => sync = "fetch"

\* The message is imported, and nothing has changed since.
Init ==
  /\ profile \in Profile
  /\ srv = [loc |-> 1, folder |-> FolderOrder[1], flag |-> "off", ver |-> 0]
  /\ home = [p \in Loc |-> IF p = 1 THEN FolderOrder[1] ELSE NoFolder]
  /\ recs = [r \in Loc |-> IF r = 1 THEN [in |-> TRUE, deleted |-> FALSE, pid |-> 1,
                                          folder |-> FolderOrder[1], flag |-> "off"]
                           ELSE [in |-> FALSE, deleted |-> FALSE, pid |-> 1, folder |-> NoFolder, flag |-> "off"]]
  /\ jobs = <<>> /\ muts = [j \in Job |-> [st |-> "none", pid |-> 0]]
  /\ alias = [p \in Loc |-> NoAlias] /\ work = Idle /\ wire = {}
  /\ sync = "idle" /\ fetch = NoFetch /\ batch = NoBatch /\ mailLease = "free"
  /\ cursor = Origin
  /\ reached = [jobs |-> {}, late |-> FALSE] /\ others = [left |-> profile.others, raced |-> FALSE] /\ left = MaxFaults

Fault(f) == f \in profile.faults /\ left > 0 /\ left' = left - 1
Imap == profile.protocol = "imap"

-----------------------------------------------------------------------------
(* The user, and the other clients.                                           *)
Unsettled(r) == {j \in DOMAIN jobs : jobs[j].rec = r /\ jobs[j].st \notin {"completed", "cancelled"}}

\* The trigger queue_provider_update: what the edit changed, in its transaction.
Queue(r, patch) == jobs' = Append(jobs, [rec |-> r, st |-> "pending", patch |-> patch])

Edit(r) ==
  /\ recs[r].in /\ ~recs[r].deleted /\ Len(jobs) < profile.edits
  /\ \/ \E flag \in Flag, folder \in Folder :
          /\ <<flag, folder>> # <<recs[r].flag, recs[r].folder>>
          /\ recs' = [recs EXCEPT ![r].flag = flag, ![r].folder = folder]
          /\ Queue(r, [flag |-> IF flag = recs[r].flag THEN "none" ELSE flag,
                       folder |-> IF folder = recs[r].folder THEN NoFolder ELSE folder])
     \/ /\ "deleted" \in Folder /\ recs' = [recs EXCEPT ![r].deleted = TRUE]
        /\ Queue(r, [flag |-> "none", folder |-> "deleted"])
  /\ UNCHANGED <<provider, muts, alias, work, reading, mailLease, left, profile>>

MayCancelRunning(j) == jobs[j].st \in {"pending", "running"}
MayCancel(j) == jobs[j].st = "pending"
Cancel(j) ==
  /\ MayCancel(j) /\ jobs' = [jobs EXCEPT ![j].st = "cancelled"]
  /\ UNCHANGED <<provider, recs, muts, alias, work, reading, mailLease, left, profile>>

\* The message moves: IMAP gives it an identifier it never had.
Fresh == CHOOSE p \in Loc : home[p] = NoFolder /\ \A q \in Loc : home[q] = NoFolder => p <= q
MoveTo(folder, flag) ==
  LET loc == IF Imap /\ folder # srv.folder THEN Fresh ELSE srv.loc IN
  /\ srv' = [loc |-> loc, folder |-> folder, flag |-> flag,
             ver |-> IF <<folder, flag>> = <<srv.folder, srv.flag>> THEN srv.ver ELSE srv.ver + 1]
  /\ home' = [home EXCEPT ![loc] = folder]

OtherClient ==
  /\ others.left > 0 /\ srv.loc # 0
  /\ others' = [left |-> others.left - 1,
                raced |-> others.raced \/ \E j \in reached.jobs : jobs[j].st # "completed"]
  /\ \/ \E flag \in Flag \ {srv.flag} : MoveTo(srv.folder, flag)
     \/ /\ profile.moves
        /\ \/ \E folder \in Folder \ {srv.folder} : MoveTo(folder, srv.flag)
           \/ srv' = [srv EXCEPT !.loc = 0, !.ver = @ + 1] /\ UNCHANGED home
  /\ UNCHANGED <<wire, reached, recs, writeback, reading, mailLease, left, profile>>

-----------------------------------------------------------------------------
(* The handler of a write-back, and updateMessage.                            *)
Earlier(j) == \E k \in Unsettled(jobs[j].rec) : k < j
Settle(st) == jobs' = [jobs EXCEPT ![work.job].st = st] /\ work' = Idle

\* A job that finds an earlier one waits; with its last attempt it fails.
Begin(j) ==
  /\ work.pc = "idle" /\ jobs[j].st = "pending" /\ ~Earlier(j)
  /\ jobs' = [jobs EXCEPT ![j].st = "running"]
  /\ work' = [Idle EXCEPT !.job = j, !.pc = "ask", !.orig = recs[jobs[j].rec].pid]
  /\ UNCHANGED <<provider, recs, muts, alias, reading, mailLease, left, profile>>

GiveUp(j) ==
  /\ jobs[j].st = "pending" /\ Earlier(j) /\ jobs' = [jobs EXCEPT ![j].st = "failed"]
  /\ UNCHANGED <<provider, recs, muts, alias, work, reading, mailLease, left, profile>>

Busy ==
  /\ work.pc = "ask" /\ mailLease = "sync" /\ \E st \in {"pending", "failed"} : Settle(st)
  /\ UNCHANGED <<provider, recs, muts, alias, reading, mailLease, left, profile>>

\* Gmail changes flags and folder in one request; the others take two.
First(todo) == IF profile.protocol = "gmail" \/ todo.flag = "none" THEN todo
               ELSE [todo EXCEPT !.folder = NoFolder]
Rest(todo) == IF profile.protocol = "gmail" \/ todo.flag = "none" THEN NoPatch
              ELSE [todo EXCEPT !.flag = "none"]
Request(pid, todo) == wire' = wire \cup {[job |-> work.job, pid |-> pid, patch |-> First(todo)]}

Current(p) == IF alias[p].canon = 0 THEN p ELSE alias[p].canon

Ask ==
  LET pid == Current(work.orig) patch == jobs[work.job].patch IN
  /\ work.pc = "ask" /\ mailLease = "free"
  /\ IF \E k \in Job : muts[k].st \in {"pending", "unknown"} /\ muts[k].pid = pid
     THEN Settle("unknown") /\ UNCHANGED <<muts, mailLease, wire>>
     ELSE /\ muts' = [muts EXCEPT ![work.job] = [st |-> "pending", pid |-> pid]]
          /\ mailLease' = "work" /\ Request(pid, patch) /\ UNCHANGED jobs
          /\ work' = [work EXCEPT !.pc = "wait", !.pid = pid, !.res = pid, !.todo = Rest(patch)]
  /\ UNCHANGED <<srv, home, reached, others, recs, alias, reading, left, profile>>

\* The provider, to which the message is at its identifier or missing.
Waits(r) == work.pc = "wait" /\ work.job = r.job
There(r) == IF Imap THEN srv.loc = r.pid ELSE srv.loc # 0
Or(v, none, old) == IF v = none THEN old ELSE v

Serve(r) ==
  /\ r \in wire /\ wire' = wire \ {r}
  /\ \/ /\ There(r) /\ MoveTo(Or(r.patch.folder, NoFolder, srv.folder), Or(r.patch.flag, "none", srv.flag))
        /\ work' = IF Waits(r) THEN [work EXCEPT !.ans = "ok", !.res = srv'.loc] ELSE work
        /\ reached' = [jobs |-> reached.jobs \cup {r.job}, late |-> reached.late \/
             \E k \in reached.jobs : k > r.job /\ jobs[k].rec = jobs[r.job].rec]
        /\ UNCHANGED left
     \/ /\ IF There(r) THEN Fault("reject") ELSE UNCHANGED left
        /\ work' = IF Waits(r) THEN [work EXCEPT !.ans = IF There(r) THEN "refused" ELSE "missing"] ELSE work
        /\ UNCHANGED <<srv, home, reached>>
  /\ UNCHANGED <<others, recs, jobs, muts, alias, reading, mailLease, profile>>

\* Another request, or the end: aliases and the row in one transaction.
Aliased ==
  LET j == work.job
      a == alias[work.orig]
      entry == [canon |-> work.res, rec |-> IF a.canon = 0 THEN work.orig ELSE a.rec,
                folder |-> Or(jobs[j].patch.folder, NoFolder, a.folder)]
  IN [p \in Loc |-> IF p \in {work.orig, work.pid, work.res} THEN entry
                    ELSE IF alias[p].canon = work.pid
                         THEN [alias[p] EXCEPT !.canon = work.res, !.folder = entry.folder] ELSE alias[p]]

Applied ==
  /\ work.pc = "wait" /\ work.ans = "ok"
  /\ IF work.todo # NoPatch
     THEN /\ Request(work.res, work.todo)
          /\ work' = [work EXCEPT !.ans = "none", !.wrote = TRUE, !.todo = Rest(work.todo)]
          /\ UNCHANGED <<muts, alias, mailLease>>
     ELSE /\ muts' = [muts EXCEPT ![work.job].st = "applied"] /\ alias' = Aliased
          /\ mailLease' = "free" /\ work' = [work EXCEPT !.pc = "store"] /\ UNCHANGED wire
  /\ UNCHANGED <<srv, home, reached, others, recs, jobs, reading, left, profile>>

Abandon(st) ==
  /\ muts' = [muts EXCEPT ![work.job].st = st] /\ Settle(st) /\ mailLease' = "free"
  /\ UNCHANGED <<recs, alias, reading, profile>>

\* Only a refusal before any write is a failure without doubt; IMAP reports one
\* only for a message that is not there.
Refused ==
  /\ work.pc = "wait" /\ work.ans \in {"missing", "refused"}
  /\ Abandon(IF work.wrote \/ (Imap /\ work.ans = "refused") THEN "unknown" ELSE "failed")
  /\ UNCHANGED <<provider, left>>

\* The answer is lost, or comes when the lease is.
Lose == work.pc = "wait" /\ Fault("lose") /\ Abandon("unknown") /\ UNCHANGED provider

\* The handler stores the identifier, and the job is completed.
Store ==
  /\ work.pc = "store" /\ Settle("completed")
  /\ recs' = [recs EXCEPT ![jobs[work.job].rec].pid = work.res]
  /\ UNCHANGED <<provider, muts, alias, reading, mailLease, left, profile>>

\* A worker dies; once its leases expire the job is unknown.
CrashWork ==
  /\ work.pc # "idle" /\ Fault("crash") /\ Settle("unknown")
  /\ mailLease' = IF mailLease = "work" THEN "free" ELSE mailLease
  /\ UNCHANGED <<provider, recs, muts, alias, reading, profile>>

-----------------------------------------------------------------------------
(* Synchronisation.                                                           *)
StartSync ==
  /\ sync = "idle" /\ mailLease = "free"
  /\ IF batch.on THEN sync' = "ingest" /\ UNCHANGED <<fetch, mailLease>>
     ELSE sync' = "fetch" /\ mailLease' = "sync" /\ fetch' = [i |-> 1, cursor |-> cursor, msgs |-> <<>>]
  /\ UNCHANGED <<provider, recs, writeback, batch, cursor, left, profile>>

Called(expired) ==
  CASE profile.protocol = "graph" -> {GraphS!GraphPage(fetch, srv, expired)}
    [] profile.protocol = "gmail" -> GmailS!GmailCall(fetch, srv, expired)
    [] profile.protocol = "imap" -> ImapS!ImapCall(fetch, srv, home)

Call ==
  /\ sync = "fetch" /\ fetch.i # 0
  /\ \/ fetch' \in Called(FALSE) /\ UNCHANGED left
     \/ ~Imap /\ Fault("expire") /\ fetch' \in Called(TRUE)
  /\ UNCHANGED <<provider, recs, writeback, sync, batch, cursor, mailLease, profile>>

\* syncAccount: whether a listed message is news, and whose record it is.
StaleNameNever(m, a) == FALSE
StaleName(m, a) == a.canon \notin {0, m.pid} /\ m.prev = 0
OldFolder(m, a) == m.del /\ a.canon # 0 /\ NoFolder \notin {m.folder, a.folder} /\ m.folder # a.folder
Staged(m, acc) ==
  LET a == acc.alias[m.pid]
      old == acc.alias[m.prev]
      rec == IF m.prev # 0 THEN IF old.canon # 0 THEN old.rec ELSE m.prev
             ELSE IF a.canon # 0 THEN a.rec ELSE m.pid
      entry == [canon |-> m.pid, rec |-> rec, folder |-> m.folder]
  IN IF StaleName(m, a) \/ OldFolder(m, a) THEN acc
     ELSE [msgs |-> Append(acc.msgs, [pid |-> m.pid, del |-> m.del, meta |-> m.meta, folder |-> m.folder,
                                      flag |-> m.flag, prev |-> m.prev, rec |-> rec]),
           alias |-> IF m.prev = 0 THEN acc.alias
                     ELSE [p \in Loc |-> IF p \in {m.prev, m.pid} THEN entry
                            ELSE IF acc.alias[p].canon = m.prev
                                 THEN [acc.alias[p] EXCEPT !.canon = m.pid, !.folder = m.folder]
                                 ELSE acc.alias[p]]]

\* The listed messages are gone through in their order.
StagedUpTo[n \in 0..Len(fetch.msgs)] ==
  IF n = 0 THEN [msgs |-> <<>>, alias |-> alias] ELSE Staged(fetch.msgs[n], StagedUpTo[n - 1])

\* The batch and the aliases are stored in one savepoint, before the lease ends.
Stage ==
  /\ sync = "fetch" /\ fetch.i = 0
  /\ LET out == StagedUpTo[Len(fetch.msgs)]
     IN /\ batch' = [on |-> TRUE, msgs |-> out.msgs, cursor |-> fetch.cursor] /\ alias' = out.alias
  /\ sync' = "ingest" /\ fetch' = NoFetch /\ mailLease' = "free"
  /\ UNCHANGED <<provider, recs, jobs, muts, work, cursor, left, profile>>

\* ingest: preservePending lays the unsettled edits over what was listed.
Latest(r, f(_), none, listed) ==
  LET js == {j \in Unsettled(r) : f(jobs[j].patch) # none}
  IN IF js = {} THEN listed ELSE f(jobs[CHOOSE j \in js : \A k \in js : k <= j].patch)
PreserveNone(r, m) == [flag |-> m.flag, folder |-> m.folder]
Preserve(r, m) ==
  [flag |-> Latest(r, LAMBDA p : p.flag, "none", m.flag),
   folder |-> Latest(r, LAMBDA p : p.folder, NoFolder, m.folder)]

Ingest ==
  LET m == batch.msgs[fetch.i + 1] r == m.rec kept == Preserve(r, m) IN
  /\ sync = "ingest" /\ fetch.i < Len(batch.msgs) /\ fetch' = [fetch EXCEPT !.i = @ + 1]
  /\ recs' = IF m.del THEN IF recs[r].in THEN [recs EXCEPT ![r].deleted = TRUE] ELSE recs
             ELSE [recs EXCEPT ![r] = [in |-> TRUE, pid |-> m.pid, folder |-> kept.folder, flag |-> kept.flag,
                                       deleted |-> @.deleted /\ Unsettled(r) # {}]]
  /\ UNCHANGED <<provider, writeback, sync, batch, cursor, mailLease, left, profile>>

CheckpointKept == cursor
Checkpoint == batch.cursor
Acknowledge ==
  /\ sync = "ingest" /\ fetch.i = Len(batch.msgs) /\ sync' = "idle" /\ fetch' = NoFetch
  /\ cursor' = Checkpoint /\ batch' = NoBatch
  /\ UNCHANGED <<provider, recs, writeback, mailLease, left, profile>>

\* A request fails, a lease is lost or the process dies.
CrashSync ==
  /\ sync # "idle" /\ Fault("crash") /\ sync' = "idle" /\ fetch' = NoFetch
  /\ mailLease' = IF mailLease = "sync" THEN "free" ELSE mailLease
  /\ UNCHANGED <<provider, recs, writeback, batch, cursor, profile>>

Synchronise == StartSync \/ Call \/ Stage \/ Ingest \/ Acknowledge
HandlerStep == Ask \/ Applied \/ Refused \/ Store

Next ==
  \/ \E r \in Loc : Edit(r)
  \/ \E j \in DOMAIN jobs : Cancel(j) \/ Begin(j) \/ GiveUp(j)
  \/ OtherClient \/ Busy \/ HandlerStep \/ Lose \/ CrashWork \/ Synchronise \/ CrashSync
  \/ \E r \in wire : Serve(r)

Spec == Init /\ [][Next]_vars

\* The worker claims due jobs and polls accounts for ever; a request to the
\* provider ends.  A step that needs the lease finds it free again and again.
FairSpec == Spec /\ WF_vars(\E j \in DOMAIN jobs : Begin(j)) /\ SF_vars(Ask)
                 /\ WF_vars(Applied \/ Refused \/ Store) /\ WF_vars(\E r \in wire : Serve(r))
                 /\ SF_vars(StartSync) /\ WF_vars(Call) /\ WF_vars(Stage \/ Ingest \/ Acknowledge)

-----------------------------------------------------------------------------
LastEdit(r, f(_), none) == {j \in DOMAIN jobs : /\ jobs[j].rec = r /\ f(jobs[j].patch) # none
                           /\ \A k \in DOMAIN jobs : k > j => jobs[k].rec # r \/ f(jobs[k].patch) = none}
\* Until its write-back is settled, the last edit of a field is what the user
\* sees, whatever a synchronisation listed meanwhile (preservePending).
EditsStay ==
  \A r \in Loc : ~recs[r].deleted =>
    /\ \A j \in LastEdit(r, LAMBDA p : p.flag, "none") \cap Unsettled(r) : recs[r].flag = jobs[j].patch.flag
    /\ \A j \in LastEdit(r, LAMBDA p : p.folder, NoFolder) \cap Unsettled(r) : recs[r].folder = jobs[j].patch.folder

\* The provider never applies an earlier edit of a record after a later one,
\* through failed jobs, lost answers and late requests (mail-sync.js, line 17).
InOrder == ~reached.late

\* A local edit is neither undone on the screen nor overtaken at the provider.
EditsHonoured == EditsStay /\ InOrder

Covers == CASE profile.protocol = "graph" -> GraphS!GraphCovers(cursor, srv)
            [] profile.protocol = "gmail" -> GmailS!GmailCovers(cursor, srv)
            [] profile.protocol = "imap" -> ImapS!ImapCovers(cursor, srv)
\* No batch waits, no write-back is under way, and none went wrong.
Settled == ~batch.on /\ wire = {} /\ \A j \in DOMAIN jobs : jobs[j].st = "completed"
Live == {r \in Loc : recs[r].in /\ ~recs[r].deleted}

\* When the checkpoint stands for the provider's present state and every
\* write-back is completed, the one live record is the message as it is there:
\* no change was skipped between a listing and its checkpoint, none was undone by
\* a late one, and no record of a moved or deleted message is left behind.
Reconciled ==
  Covers /\ Settled /\ ~others.raced =>
    /\ srv.loc = 0 => Live = {}
    /\ srv.loc # 0 => Cardinality(Live) = 1 \/ (srv.folder = "deleted" /\ Live = {})
    /\ \A r \in Live : recs[r].folder = srv.folder /\ recs[r].flag = srv.flag

\* Synchronisation reaches the provider's present state again and again, with
\* nothing staged: failures, limits and expired cursors only delay it.
CatchesUp == []<>(Covers /\ ~batch.on)
=============================================================================
