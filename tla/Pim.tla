--------------------------------- MODULE Pim --------------------------------
(* A contact of a connected account: the PimGateway (backend/pim-sync.js),     *)
(* the PimService under it (backend/providers/pim.js), the provider, and a     *)
(* user who publishes and edits the contact and reviews conflicts, while       *)
(* others edit it at the provider.  A gateway operation holds the lease        *)
(* 'pim-ingest' (module WorkLease), a service operation the account's lock.    *)
(* Versions of the provider's contact (its etags) count from 1; 0: none.       *)
(* Not modelled: deletions, several contacts, pages, late requests that repeat *)
(* a key other than the record's last, and the provider's field formats.       *)
EXTENDS Naturals, FiniteSets

CONSTANTS MaxKeys,    \* idempotency keys a user's operations may take
          MaxEtag,    \* versions at the provider
          MaxVersion, \* versions of the local record made by local edits
          MaxFaults,
          Profile     \* each behaviour keeps to one of these

\* listing "full": every synchronisation enumerates the collection; "delta": it
\* asks for the changes since its token.  faults: the kinds of fault.
ASSUME PimAssumption ==
  /\ {MaxKeys, MaxEtag, MaxVersion, MaxFaults} \subseteq Nat /\ MaxEtag # 0
  /\ Profile \subseteq [listing : {"full", "delta"}, published : BOOLEAN,
       faults : SUBSET {"lose", "crash", "reject", "stall", "fence"}]

VARIABLES
  rec,      \* the local record; own: it holds an edit the provider never had
  patch,    \* a PATCH of the record between its check and its write
  shown,    \* what the user's page shows
  used,     \* keys taken
  op,       \* pim_local_operations: the row of this record
  rs,       \* pim_gateway_resolutions
  run,      \* the gateway operation that holds the lease
  svc,      \* the service write that holds the account's lock
  sw,       \* provider_pim_writes
  state,    \* provider_pim_state: cursor, accepted write, conflict, known id
  batch,    \* provider_pim_batches
  age,      \* of the accepted write: 0, 1 after two minutes, 2 after a later sync
  wire,     \* requests under way to the provider
  remote,   \* the provider's version
  made,     \* contacts the provider has created
  blind,    \* history: a write replaced a version its author had not seen
  left,     \* faults left
  profile

gateway == <<op, rs, run>>
service == <<svc, sw, state, batch, age>>
provider == <<wire, remote, made, blind>>
user == <<patch, shown>>
vars == <<rec, user, used, gateway, service, provider, left, profile>>

Key == 1..MaxKeys
Etag == 0..MaxEtag
Conflict == [on : BOOLEAN, etag : Etag]
State == [cursor : Etag, wb : Etag, conflict : Conflict, known : BOOLEAN]
Batch == [on : BOOLEAN, has : BOOLEAN, etag : Etag, late : BOOLEAN, next : State]
Record == [ver : Nat, etag : Etag, own : BOOLEAN]
Page == [ver : Nat, etag : Etag, conflict : Conflict, res : Etag]
Operation == [st : {"none", "submitting", "unknown", "rejected", "completed", "conflict"},
              key : 0..MaxKeys, ver : Nat, base : Etag, seen : Etag, res : Etag]
Resolution == [st : {"none", "submitting", "completed", "conflict"},
               kind : {"recover", "conflicts"}, pick : {"local", "remote"},
               ver : Nat, etag : Etag, seen : Etag]
Run == [pc : {"idle", "call", "wait", "commit", "apply"},
        kind : {"sync", "write", "recover", "conflicts"}, key : 0..MaxKeys]
Service == [at : BOOLEAN, key : 0..MaxKeys, ans : {"none", "accepted", "rejected"}, etag : Etag]
Write == [st : {"none", "submitting", "unknown", "rejected", "accepted"}, etag : Etag]
Request == [key : Key, base : Etag, seen : Etag]
NoConflict == [on |-> FALSE, etag |-> 0]
NoOp == [st |-> "none", key |-> 0, ver |-> 0, base |-> 0, seen |-> 0, res |-> 0]
NoRun == [pc |-> "idle", kind |-> "sync", key |-> 0]
NoSvc == [at |-> FALSE, key |-> 0, ans |-> "none", etag |-> 0]
NoBatch == [on |-> FALSE, has |-> FALSE, etag |-> 0, late |-> FALSE,
            next |-> [cursor |-> 0, wb |-> 0, conflict |-> NoConflict, known |-> FALSE]]
NoPatch == [at |-> FALSE, ver |-> 0]
Locked == op.st \in {"submitting", "unknown", "conflict"}

Types ==
  /\ rec \in Record /\ patch \in [at : BOOLEAN, ver : Nat] /\ shown \in Page
  /\ used \in 0..MaxKeys /\ op \in Operation /\ rs \in [Key -> Resolution]
  /\ run \in Run /\ svc \in Service /\ sw \in [Key -> Write]
  /\ state \in State /\ batch \in Batch /\ age \in 0..2
  /\ wire \subseteq Request /\ remote \in Etag /\ made \in Nat /\ blind \in BOOLEAN
  /\ left \in 0..MaxFaults /\ profile \in Profile

\* An operation waits for the write it has called, and a completed one has an
\* outcome to show.
TypeOK ==
  /\ Types
  /\ run.pc = "wait" => svc.at /\ svc.key = run.key
  /\ op.st = "completed" => sw[op.key].st = "accepted" \/ op.res # 0

Init ==
  /\ profile \in Profile
  /\ remote = IF profile.published THEN 1 ELSE 0
  /\ rec = [ver |-> 1, etag |-> remote, own |-> FALSE]
  /\ patch = NoPatch /\ shown = [ver |-> 1, etag |-> remote, conflict |-> NoConflict, res |-> 0]
  /\ used = 0 /\ op = NoOp /\ run = NoRun
  /\ rs = [k \in Key |-> [st |-> "none", kind |-> "recover", pick |-> "local", ver |-> 0,
                        etag |-> 0, seen |-> 0]]
  /\ svc = NoSvc /\ sw = [k \in Key |-> [st |-> "none", etag |-> 0]]
  /\ state = [cursor |-> remote, wb |-> 0, conflict |-> NoConflict, known |-> profile.published]
  /\ batch = NoBatch /\ age = 0 /\ wire = {} /\ made = remote /\ blind = FALSE /\ left = MaxFaults

-----------------------------------------------------------------------------
(* The user's page, local edits, and edits of others at the provider.         *)
Load ==
  /\ shown' = [ver |-> rec.ver, etag |-> rec.etag, conflict |-> state.conflict,
               res |-> IF op.st = "conflict" THEN op.res ELSE 0]
  /\ UNCHANGED <<rec, patch, used, gateway, service, provider, left, profile>>

\* A contact of no account is patched by the engine: the request looks for a
\* pending provider change first and writes later, if the version still holds.
PatchChecked ==
  /\ ~patch.at /\ rec.etag = 0 /\ ~Locked /\ rec.ver < MaxVersion
  /\ patch' = [at |-> TRUE, ver |-> rec.ver]
  /\ UNCHANGED <<rec, shown, used, gateway, service, provider, left, profile>>

PatchLands ==
  /\ patch.at /\ patch' = NoPatch
  /\ rec' = IF rec.ver = patch.ver THEN [ver |-> rec.ver + 1, etag |-> rec.etag, own |-> TRUE] ELSE rec
  /\ UNCHANGED <<shown, used, gateway, service, provider, left, profile>>

RemoteEdit ==
  /\ remote \in 1..MaxEtag - 1 /\ remote' = remote + 1
  /\ UNCHANGED <<rec, user, used, gateway, service, wire, made, blind, left, profile>>

TwoMinutes ==
  /\ age = 0 /\ state.wb # 0 /\ age' = 1
  /\ UNCHANGED <<rec, user, used, gateway, svc, sw, state, batch, provider, left, profile>>

-----------------------------------------------------------------------------
(* PimGateway.write: the transaction that stores the intent.                  *)
Take(kind, k) == run' = [pc |-> "call", kind |-> kind, key |-> k]
Current == shown.ver = rec.ver

StartWrite ==
  /\ run.pc = "idle" /\ ~Locked /\ Current /\ used < MaxKeys
  /\ used' = used + 1 /\ Take("write", used + 1)
  /\ op' = [st |-> "submitting", key |-> used + 1, ver |-> rec.ver, base |-> rec.etag,
            seen |-> shown.etag, res |-> 0]
  /\ UNCHANGED <<rec, user, rs, service, provider, left, profile>>

\* The same request again: its stored record goes to the service once more.
\* The status of a rejected operation stays as it is meanwhile.
RetryWrite ==
  /\ run.pc = "idle" /\ op.st \in {"submitting", "unknown", "rejected"}
  /\ Take("write", op.key)
  /\ UNCHANGED <<rec, user, used, op, rs, service, provider, left, profile>>

\* PimGateway.resolve: the choice between the versions the user has compared.
ReviewedNever(v, now) == Current
Reviewed(v, now) == Current /\ v = now

StartRecover(pick) ==
  /\ run.pc = "idle" /\ op.st = "conflict" /\ Reviewed(shown.res, op.res) /\ used < MaxKeys
  /\ used' = used + 1 /\ Take("recover", used + 1)
  /\ rs' = [rs EXCEPT ![used + 1] = [st |-> "submitting", kind |-> "recover", pick |-> pick,
                                     ver |-> rec.ver, etag |-> op.res, seen |-> shown.res]]
  /\ UNCHANGED <<rec, user, op, service, provider, left, profile>>

StartConflict(pick) ==
  /\ run.pc = "idle" /\ ~Locked /\ state.conflict.on /\ used < MaxKeys
  /\ Reviewed(shown.conflict, state.conflict)
  /\ used' = used + 1 /\ Take("conflicts", used + 1)
  /\ rs' = [rs EXCEPT ![used + 1] = [st |-> "submitting", kind |-> "conflicts", pick |-> pick,
                                     ver |-> rec.ver, etag |-> state.conflict.etag,
                                     seen |-> shown.conflict.etag]]
  /\ UNCHANGED <<rec, user, op, service, provider, left, profile>>

RetryResolve(k) ==
  /\ run.pc = "idle" /\ rs[k].st = "submitting" /\ Take(rs[k].kind, k)
  /\ UNCHANGED <<rec, user, used, op, rs, service, provider, left, profile>>

-----------------------------------------------------------------------------
(* PimService.writeRecord and resolveConflict.                                *)
Base == IF run.kind = "write" THEN op.base ELSE rs[run.key].etag
Seen == IF run.kind = "write" THEN op.seen ELSE rs[run.key].seen
End == run' = NoRun
\* A write that failed without doubt unlocks the record; of an operation whose
\* outcome is unknown the row says so.  A resolution can be tried again.
Fail(status) ==
  /\ End
  /\ op' = IF run.kind = "write" THEN [op EXCEPT !.st = status] ELSE op

Refused == svc.at \/ batch.on   \* locked, or a batch must be applied first

Open == run.kind = "conflicts" => state.conflict = [on |-> TRUE, etag |-> rs[run.key].etag]

\* The state without a conflict, and the version accepted last.
Settled(wb, known) == [cursor |-> state.cursor, wb |-> wb, conflict |-> NoConflict, known |-> known]

Submit ==
  /\ sw' = [sw EXCEPT ![run.key].st = "submitting"]
  /\ svc' = [at |-> TRUE, key |-> run.key, ans |-> "none", etag |-> 0]
  /\ wire' = wire \cup {[key |-> run.key, base |-> Base, seen |-> Seen]}
  /\ run' = [run EXCEPT !.pc = "wait"]

CallWrite ==
  /\ run.pc = "call" /\ (run.kind = "write" \/ rs[run.key].pick = "local")
  /\ CASE svc.at -> Fail("rejected") /\ UNCHANGED <<svc, sw, wire>>
       [] ~svc.at /\ sw[run.key].st = "accepted" ->
            run' = [run EXCEPT !.pc = "commit"] /\ UNCHANGED <<op, svc, sw, wire>>
       [] ~svc.at /\ sw[run.key].st \in {"submitting", "unknown"} ->
            Fail("unknown") /\ UNCHANGED <<svc, sw, wire>>
       [] OTHER -> IF Refused \/ (sw[run.key].st = "none" /\ ~Open) THEN Fail("rejected") /\ UNCHANGED <<svc, sw, wire>>
                   ELSE Submit /\ UNCHANGED op
  /\ UNCHANGED <<rec, user, used, rs, state, batch, age, remote, made, blind, left, profile>>

\* The provider's version: taken from the row of an accepted operation, or the
\* conflict is closed and a receipt stored with it.
CallRemote ==
  /\ run.pc = "call" /\ run.kind # "write" /\ rs[run.key].pick = "remote"
  /\ \/ /\ run.kind = "recover" \/ sw[run.key].st = "accepted"
        /\ sw' = [sw EXCEPT ![run.key] = [st |-> "accepted", etag |-> rs[run.key].etag]]
        /\ run' = [run EXCEPT !.pc = "commit"] /\ UNCHANGED state
     \/ /\ run.kind = "conflicts" /\ sw[run.key].st # "accepted"
        /\ IF Refused \/ ~Open
           THEN End /\ UNCHANGED <<sw, state>>
           ELSE /\ state' = Settled(0, state.known)
                /\ sw' = [sw EXCEPT ![run.key] = [st |-> "accepted", etag |-> rs[run.key].etag]]
                /\ run' = [run EXCEPT !.pc = "commit"]
  /\ UNCHANGED <<rec, user, used, op, rs, svc, batch, age, provider, left, profile>>

\* The provider creates a contact or, if the version given is its latest,
\* updates it; the answer finds the service waiting or not.
Fault(f) == f \in profile.faults /\ left > 0 /\ left' = left - 1
Answer(r, ans, etag) ==
  svc' = IF svc.at /\ svc.key = r.key THEN [at |-> TRUE, key |-> r.key, ans |-> ans, etag |-> etag] ELSE svc

Serve(r) ==
  /\ r \in wire /\ wire' = wire \ {r}
  /\ \/ /\ r.base = 0 /\ remote < MaxEtag /\ UNCHANGED left
        /\ made' = made + 1 /\ remote' = remote + 1 /\ Answer(r, "accepted", remote + 1)
        /\ UNCHANGED blind
     \/ /\ r.base # 0 /\ r.base = remote /\ remote < MaxEtag /\ UNCHANGED <<made, left>>
        /\ remote' = remote + 1 /\ Answer(r, "accepted", remote + 1)
        /\ blind' = (blind \/ r.seen # remote)
     \/ /\ IF r.base \notin {0, remote} \/ remote = MaxEtag THEN UNCHANGED left ELSE Fault("reject")
        /\ Answer(r, "rejected", 0) /\ UNCHANGED <<remote, made, blind>>
  /\ UNCHANGED <<rec, user, used, gateway, sw, state, batch, age, profile>>

Waiting == run.pc = "wait" /\ run.key = svc.key
ReportNever(status) == UNCHANGED <<op, run>>
Report(status) == IF Waiting THEN Fail(status) ELSE UNCHANGED <<op, run>>

\* The receipt and the new state are stored in one transaction.
Finish ==
  /\ svc.ans # "none" /\ svc' = NoSvc
  /\ IF svc.ans = "accepted"
     THEN /\ sw' = [sw EXCEPT ![svc.key] = [st |-> "accepted", etag |-> svc.etag]]
          /\ state' = Settled(svc.etag, TRUE)
          /\ age' = 0
          /\ run' = IF Waiting THEN [run EXCEPT !.pc = "commit"] ELSE run
          /\ UNCHANGED op
     ELSE /\ sw' = [sw EXCEPT ![svc.key].st = "rejected"]
          /\ Report("rejected") /\ UNCHANGED <<state, age>>
  /\ UNCHANGED <<rec, user, used, rs, batch, provider, left, profile>>

\* Faults: the answer is lost, or arrives when the mailbox lease is gone (an
\* error with status 409, as of a rejection, that is marked uncertain).
Lose ==
  /\ svc.at /\ svc' = NoSvc /\ Report("unknown")
  /\ \/ Fault("lose") /\ sw' = [sw EXCEPT ![svc.key].st = "unknown"]
     \/ /\ Fault("stall") /\ svc.ans # "none"
        /\ sw' = [sw EXCEPT ![svc.key].st = "rejected"]
  /\ UNCHANGED <<rec, user, used, rs, state, batch, age, provider, profile>>

\* A crash ends both operations; a gateway whose lease has expired does not
\* stop the service's part, which holds a lock of its own.
Crash ==
  /\ run.pc # "idle" /\ End
  /\ \/ Fault("crash") /\ svc' = NoSvc
     \/ Fault("fence") /\ UNCHANGED svc
  /\ UNCHANGED <<rec, user, used, op, rs, sw, state, batch, age, provider, profile>>

-----------------------------------------------------------------------------
(* PimGateway: the transaction that stores what the provider accepted.        *)
Version == IF run.kind = "write" THEN op.ver ELSE rs[run.key].ver
MatchesNever == TRUE
Matches == rec.ver = Version
Persist(etag) ==
  rec' = IF rec.etag = etag /\ ~rec.own THEN rec
         ELSE [ver |-> rec.ver + 1, etag |-> etag, own |-> FALSE]

Commit ==
  LET etag == sw[run.key].etag IN
  /\ run.pc = "commit" /\ End
  /\ IF Matches
     THEN /\ Persist(etag)
          /\ op' = IF run.kind = "conflicts" THEN op
                   ELSE [st |-> "completed", key |-> op.key, ver |-> op.ver, base |-> op.base,
                         seen |-> op.seen, res |-> etag]
     ELSE /\ op' = [st |-> "conflict", key |-> run.key, ver |-> Version, base |-> Base,
                    seen |-> Seen, res |-> etag]
          /\ UNCHANGED rec
  /\ rs' = IF run.kind = "write" THEN rs
           ELSE [rs EXCEPT ![run.key].st = IF Matches THEN "completed" ELSE "conflict"]
  /\ UNCHANGED <<user, used, service, provider, left, profile>>

-----------------------------------------------------------------------------
(* Synchronisation.  Listings may lag behind accepted writes for less than    *)
(* two minutes, and never go back.                                            *)
Visible == {v \in state.cursor..remote : v = remote \/ (age = 0 /\ state.wb # 0)}
Listed(v) == v # 0 /\ (profile.listing = "full" \/ v # state.cursor)

Pending(v) == state.wb # 0 /\ v # state.wb

OverdueNever == FALSE
Overdue == age # 0

\* What add() and reconcile() make of version v: the record put out, and the
\* next state.  A contact the state does not know becomes another record.
Fetched(v) ==
  LET next(wb, conflict) == [cursor |-> v, wb |-> wb, conflict |-> conflict, known |-> state.known] IN
  IF ~Listed(v)
  THEN [on |-> TRUE, has |-> FALSE, etag |-> 0, late |-> Overdue, next |-> next(state.wb, state.conflict)]
  ELSE IF Pending(v)
       THEN [on |-> TRUE, has |-> TRUE, etag |-> state.wb, late |-> Overdue,
             next |-> next(state.wb, IF Overdue THEN [on |-> TRUE, etag |-> v] ELSE state.conflict)]
       ELSE [on |-> TRUE, has |-> state.known, etag |-> v, late |-> FALSE, next |-> next(0, NoConflict)]

Fetch ==
  /\ run.pc = "idle" /\ ~svc.at
  /\ run' = [pc |-> "apply", kind |-> "sync", key |-> 0]
  /\ IF batch.on THEN UNCHANGED batch ELSE \E v \in Visible : batch' = Fetched(v)
  /\ UNCHANGED <<rec, user, used, op, rs, svc, sw, state, age, provider, left, profile>>

Skip == Locked

\* The transaction of sync(): all records that no operation locks, and the
\* acknowledgement of the batch.
ApplyBatch ==
  /\ run.pc = "apply" /\ End
  /\ IF batch.has /\ ~Skip THEN Persist(batch.etag) ELSE UNCHANGED rec
  /\ state' = batch.next /\ batch' = NoBatch
  /\ age' = IF batch.next.wb = 0 THEN 0 ELSE IF batch.late THEN 2 ELSE age
  /\ UNCHANGED <<user, used, op, rs, svc, sw, provider, left, profile>>

Sync == Fetch \/ ApplyBatch
Next ==
  \/ Load \/ PatchChecked \/ PatchLands \/ RemoteEdit \/ TwoMinutes
  \/ StartWrite \/ RetryWrite
  \/ \E pick \in {"local", "remote"} : StartRecover(pick) \/ StartConflict(pick)
  \/ \E k \in Key : RetryResolve(k)
  \/ CallWrite \/ CallRemote \/ Finish \/ Lose \/ Crash \/ Commit \/ Sync
  \/ \E r \in wire : Serve(r)

Spec == Init /\ [][Next]_vars

\* The application polls for ever and finds the lease and the lock free again and
\* again; what holds them, and a request at the provider, ends.
FairSpec == Spec /\ WF_vars(TwoMinutes) /\ SF_vars(Fetch) /\ WF_vars(ApplyBatch) /\ WF_vars(Commit)
                 /\ WF_vars(CallWrite \/ CallRemote) /\ WF_vars(Finish)
                 /\ WF_vars(\E r \in wire : Serve(r))

-----------------------------------------------------------------------------
\* No write of ours, and no choice of the user's own version in a conflict, ever
\* replaces a version at the provider that the user had not been shown.
NoBlindOverwrite == ~blind

\* A contact is created at the provider at most once (docs/PIM.md: contact
\* creation that may have happened is not blindly repeated).  The code does not
\* keep this when the user retries the operation (README, known divergences).
CreatedOnce == made <= 1

\* A version of the provider's that still differs from the accepted write when two
\* minutes have passed and a synchronisation has run is listed as a conflict.
ConflictSurfaces == state.wb # 0 /\ age = 2 /\ state.cursor # state.wb => state.conflict.on

\* An edit made here that the provider never had is replaced by its version only in
\* a commit of an operation that carried that edit, or of the user's own choice:
\* never by a synchronisation, nor by a write that read the record before the edit.
\* A retry of a rejected write does not lock the record, and is left out.
LocalKept == [][rec.own /\ ~rec'.own /\ op.st # "rejected" =>
                  run.pc = "commit" /\ Version = rec.ver]_vars

\* The record never goes back to an older version of the provider's than it has,
\* although listings lag behind accepted writes, except by the user's choice.
NeverBack == [][rec'.etag < rec.etag => run.kind \in {"recover", "conflicts"}]_vars

\* A synchronisation, a write and a user's choice that overlap leave neither an
\* edit overwritten unseen nor an older version in its place.
RecordKept == LocalKept /\ NeverBack

\* An enumerated account's record comes to the provider's version again and again,
\* unless a conflict is shown, an unsettled operation locks the record, or the
\* contact is not the provider's at all.
Reconciles == []<>(profile.listing = "delta" \/ rec.etag = remote \/ state.conflict.on \/ Locked \/ ~state.known)
=============================================================================
