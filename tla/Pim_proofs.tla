----------------------------- MODULE Pim_proofs -----------------------------
(* Proofs about a contact between the PimGateway, the PimService and its       *)
(* provider, for any number of keys, versions and faults.                      *)
EXTENDS Pim, TLAPS

Active == {"call", "wait", "commit"}

(* A version of the record belongs to one version of the provider's: whoever  *)
(* has been shown the present one has been shown that.                        *)
Loaded == shown.ver <= rec.ver /\ (shown.ver = rec.ver => shown.etag = rec.etag)

(* Every write is based on the version its user has seen: in the gateway's    *)
(* rows and in the requests on their way.                                     *)
SeenIsBase ==
  /\ op.base = op.seen
  /\ \A k \in Key : rs[k].etag = rs[k].seen
  /\ \A r \in wire : r.base = r.seen

(* A key is of a write or of one choice.                                      *)
OpKeyed ==
  /\ op.key <= used /\ run.key <= used /\ svc.key <= used
  /\ op.st # "none" => op.key \in Key
  /\ \A k \in Key : k > used => rs[k].st = "none"
  /\ op.st \in {"submitting", "unknown", "rejected"} => rs[op.key].st = "none"
  /\ \A k \in Key : rs[k].st # "none" /\ rs[k].kind = "recover" => op.st # "none"

RunKeyed ==
  run.pc \in Active =>
    /\ run.key \in Key
    /\ run.kind = "write" => op.key = run.key /\ rs[run.key].st = "none"
    /\ run.kind # "write" => run.kind = rs[run.key].kind /\ rs[run.key].st # "none"

(* The service's lock is held for a write whose row says submitting, and for  *)
(* no write that a gateway takes for accepted.                                *)
LockKeyed ==
  /\ run.pc = "wait" => svc.at /\ svc.key = run.key
  /\ run.pc = "commit" => sw[run.key].st = "accepted"
  /\ svc.ans # "none" => svc.at
  /\ svc.at => /\ svc.key \in Key /\ sw[svc.key].st = "submitting"
               /\ rs[svc.key].st = "none" \/ rs[svc.key].pick = "local"

(* What the provider accepted, and what conflicts with it, is a version.      *)
Versions ==
  /\ op.st \in {"completed", "conflict"} => op.res # 0
  /\ \A k \in Key : sw[k].st = "accepted" => sw[k].etag # 0
  /\ \A k \in Key : rs[k].st # "none" => rs[k].etag # 0
  /\ svc.ans = "accepted" => svc.etag # 0
  /\ state.conflict.on => state.conflict.etag # 0
  /\ batch.next.conflict.on => batch.next.conflict.etag # 0

IInv == Types /\ Loaded /\ SeenIsBase /\ OpKeyed /\ RunKeyed /\ LockKeyed /\ Versions /\ ~blind

-----------------------------------------------------------------------------
LEMMA Fields ==
  ASSUME Types
  PROVE  /\ rec.ver \in Nat /\ rec.etag \in Etag /\ rec.own \in BOOLEAN
         /\ shown.ver \in Nat /\ shown.etag \in Etag
         /\ op.key \in 0..MaxKeys /\ op.ver \in Nat /\ {op.base, op.seen, op.res} \subseteq Etag
         /\ \A k \in Key : rs[k].ver \in Nat /\ rs[k].etag \in Etag /\ rs[k].seen \in Etag
         /\ \A k \in Key : sw[k].etag \in Etag
         /\ svc.etag \in Etag /\ svc.key \in 0..MaxKeys
         /\ {state.cursor, state.wb} \subseteq Etag /\ state.conflict \in Conflict
         /\ state.known \in BOOLEAN /\ batch.etag \in Etag /\ batch.next \in State
         /\ Key \subseteq 0..MaxKeys /\ 0 \in Etag
<1>1. rec.ver \in Nat /\ rec.etag \in Etag /\ rec.own \in BOOLEAN  BY DEF Types, Record
<1>2. shown.ver \in Nat /\ shown.etag \in Etag  BY DEF Types, Page
<1>3. op.key \in 0..MaxKeys /\ op.ver \in Nat /\ {op.base, op.seen, op.res} \subseteq Etag
  BY DEF Types, Operation
<1>4. \A k \in Key : rs[k].ver \in Nat /\ rs[k].etag \in Etag /\ rs[k].seen \in Etag
  BY DEF Types, Resolution
<1>5. \A k \in Key : sw[k].etag \in Etag  BY DEF Types, Write
<1>6. svc.etag \in Etag /\ svc.key \in 0..MaxKeys  BY DEF Types, Service
<1>7. /\ {state.cursor, state.wb} \subseteq Etag /\ state.conflict \in Conflict
      /\ state.known \in BOOLEAN
  BY DEF Types, State
<1>8. batch.etag \in Etag /\ batch.next \in State  BY DEF Types, Batch
<1>9. Key \subseteq 0..MaxKeys /\ 0 \in Etag  BY PimAssumption DEF Key, Etag
<1> QED  BY <1>1, <1>2, <1>3, <1>4, <1>5, <1>6, <1>7, <1>8, <1>9

\* A row of the service's writes changes its status, or is written anew.
LEMMA SetStatus ==
  ASSUME sw \in [Key -> Write], NEW k \in Key,
         NEW st \in {"none", "submitting", "unknown", "rejected", "accepted"}
  PROVE  [sw EXCEPT ![k].st = st] \in [Key -> Write]
<1>1. [sw[k] EXCEPT !.st = st] \in Write  BY DEF Write
<1> QED  BY <1>1

LEMMA SetWrite ==
  ASSUME sw \in [Key -> Write], NEW k \in Key,
         NEW st \in {"none", "submitting", "unknown", "rejected", "accepted"}, NEW etag \in Etag
  PROVE  [sw EXCEPT ![k] = [st |-> st, etag |-> etag]] \in [Key -> Write]
<1>1. [st |-> st, etag |-> etag] \in Write  BY DEF Write
<1> QED  BY <1>1

-----------------------------------------------------------------------------
LEMMA InitInv == Init => IInv
<1> SUFFICES ASSUME Init PROVE IInv  OBVIOUS
<1> USE PimAssumption DEF Init, NoConflict, NoOp, NoRun, NoSvc, NoBatch, NoPatch, Key, Etag, Conflict
<1>0. remote \in Etag
  BY SMT DEF Etag
<1>1. Types
  <2>1. rec \in Record /\ patch \in [at : BOOLEAN, ver : Nat] /\ shown \in Page
    BY <1>0 DEF Record, Page
  <2>2. op \in Operation  BY DEF Operation
  <2>3. rs \in [Key -> Resolution]  BY DEF Resolution
  <2>4. run \in Run /\ svc \in Service  BY DEF Run, Service
  <2>5. sw \in [Key -> Write]  BY DEF Write
  <2>6. state \in State  BY <1>0 DEF State
  <2>7. batch \in Batch  BY DEF Batch, State
  <2>8. profile \in Profile /\ blind \in BOOLEAN /\ wire \subseteq Request
    OBVIOUS
  <2>9. used \in 0..MaxKeys /\ age \in 0..2 /\ made \in Nat /\ left \in 0..MaxFaults
    BY <1>0
  <2> QED  BY <1>0, <2>1, <2>2, <2>3, <2>4, <2>5, <2>6, <2>7, <2>8, <2>9 DEF Types
<1>2. Loaded /\ SeenIsBase  BY DEF Loaded, SeenIsBase
<1>3. OpKeyed /\ RunKeyed /\ LockKeyed  BY DEF OpKeyed, RunKeyed, LockKeyed, Active
<1>4. Versions  BY DEF Versions
<1> QED  BY <1>1, <1>2, <1>3, <1>4 DEF IInv

\* What a failed operation leaves of its row and of the run.
Failed ==
  /\ run' \in Run /\ op' \in Operation /\ run'.pc = "idle" /\ run'.key = 0
  /\ op'.base = op'.seen /\ op'.key = op.key /\ op'.res = op.res
  /\ op'.st # "none" => op.key \in Key
  /\ op.st # "none" => op'.st # "none"
  /\ op'.st \in {"submitting", "unknown", "rejected"} => rs[op.key].st = "none"
  /\ op'.st \in {"completed", "conflict"} => op.res # 0

LEMMA FailFails ==
  ASSUME IInv, run.pc \in Active, NEW st \in {"unknown", "rejected"}, Fail(st)
  PROVE  Failed
<1>1. run' \in Run /\ run'.pc = "idle" /\ run'.key = 0
  BY PimAssumption DEF Fail, End, NoRun, Run
<1>2. CASE run.kind = "write"
  <2>1. op' = [op EXCEPT !.st = st] /\ op.key \in Key /\ rs[op.key].st = "none"
    BY <1>2 DEF Fail, IInv, RunKeyed
  <2>2. op \in Operation /\ op.base = op.seen  BY DEF IInv, Types, SeenIsBase
  <2> QED  BY <1>1, <2>1, <2>2 DEF Failed, Operation
<1>3. CASE run.kind # "write"
  <2>1. op' = op  BY <1>3 DEF Fail
  <2>2. op \in Operation /\ op.base = op.seen  BY DEF IInv, Types, SeenIsBase
  <2> QED  BY <1>1, <2>1, <2>2 DEF Failed, IInv, OpKeyed, Versions
<1> QED  BY <1>2, <1>3

\* The end of a service write that nothing is accepted of.
LEMMA GivenUp ==
  ASSUME IInv, svc.at, svc.key \in Key, sw[svc.key].st = "submitting",
         svc' = NoSvc, svc' \in Service,
         sw' \in [Key -> Write], sw'[svc.key].st # "accepted",
         \A k \in Key : k # svc.key => sw'[k] = sw[k],
         Failed \/ (UNCHANGED <<op, run>> /\ ~Waiting), left' \in 0..MaxFaults,
         UNCHANGED <<rec, patch, shown, used, rs, state, batch, age, wire, remote, made, blind, profile>>
  PROVE  IInv'
<1>1. Types'
  BY DEF IInv, Types, Failed
<1>2. Loaded' /\ SeenIsBase' /\ (~blind)'
  BY DEF IInv, Loaded, SeenIsBase, Failed
<1>3. OpKeyed'
  BY DEF IInv, Types, OpKeyed, Failed, NoSvc
<1>4. RunKeyed'
  BY DEF IInv, RunKeyed, Failed, Active
<1>5. LockKeyed'
  BY DEF IInv, LockKeyed, RunKeyed, Failed, Active, NoSvc, Waiting
<1>6. Versions'
  BY DEF IInv, Versions, Failed, NoSvc
<1> QED  BY <1>1, <1>2, <1>3, <1>4, <1>5, <1>6 DEF IInv

-----------------------------------------------------------------------------
(* Every action preserves the invariant.                                      *)

LEMMA LoadInv ==
  ASSUME IInv, Load
  PROVE  IInv'
<1>1. Types'
  <2>1. shown' \in Page
    BY PimAssumption DEF IInv, Types, Page, Record, Operation, State, Key, Etag,
       Conflict, Load, gateway, service, provider, user
  <2> QED BY <2>1 DEF IInv, Types, Load, gateway, service, provider, user
<1>2. Loaded'
  BY PimAssumption DEF IInv, Loaded, Types, Record, Page, Load, gateway, service,
     provider, user
<1>3. SeenIsBase'  BY DEF IInv, SeenIsBase, Load, gateway, service, provider, user
<1>4. OpKeyed'  BY DEF IInv, OpKeyed, Load, gateway, service, provider, user
<1>5. RunKeyed'  BY DEF IInv, RunKeyed, Load, gateway, service, provider, user
<1>6. LockKeyed'  BY DEF IInv, LockKeyed, Load, gateway, service, provider, user
<1>7. Versions'  BY DEF IInv, Versions, Load, gateway, service, provider, user
<1>8. (~blind)'  BY DEF IInv, Load, gateway, service, provider, user
<1> QED  BY <1>1, <1>2, <1>3, <1>4, <1>5, <1>6, <1>7, <1>8 DEF IInv

LEMMA PatchCheckedInv ==
  ASSUME IInv, PatchChecked
  PROVE  IInv'
<1>1. Types'
  <2>1. patch' \in [at : BOOLEAN, ver : Nat]
    BY PimAssumption DEF IInv, Types, Record, Key, Etag, Conflict, PatchChecked, Locked,
       gateway, service, provider, user
  <2> QED BY <2>1 DEF IInv, Types, PatchChecked, gateway, service, provider, user
<1>2. Loaded'  BY DEF IInv, Loaded, PatchChecked, gateway, service, provider, user
<1>3. SeenIsBase'  BY DEF IInv, SeenIsBase, PatchChecked, gateway, service, provider, user
<1>4. OpKeyed'  BY DEF IInv, OpKeyed, PatchChecked, gateway, service, provider, user
<1>5. RunKeyed'  BY DEF IInv, RunKeyed, PatchChecked, gateway, service, provider, user
<1>6. LockKeyed'  BY DEF IInv, LockKeyed, PatchChecked, gateway, service, provider, user
<1>7. Versions'  BY DEF IInv, Versions, PatchChecked, gateway, service, provider, user
<1>8. (~blind)'  BY DEF IInv, PatchChecked, gateway, service, provider, user
<1> QED  BY <1>1, <1>2, <1>3, <1>4, <1>5, <1>6, <1>7, <1>8 DEF IInv

LEMMA PatchLandsInv ==
  ASSUME IInv, PatchLands
  PROVE  IInv'
<1>1. Types'
  <2>1. patch' \in [at : BOOLEAN, ver : Nat]
    BY PimAssumption DEF IInv, Types, Key, Etag, Conflict, PatchLands, NoPatch, gateway,
       service, provider, user
  <2>2. rec' \in Record
    BY PimAssumption DEF IInv, Types, Record, Key, Etag, Conflict, PatchLands, NoPatch,
       gateway, service, provider, user
  <2> QED BY <2>1, <2>2 DEF IInv, Types, PatchLands, gateway, service, provider, user
<1>2. Loaded'
  BY PimAssumption DEF IInv, Loaded, Types, Record, Page, PatchLands, NoPatch, gateway,
     service, provider, user
<1>3. SeenIsBase'  BY DEF IInv, SeenIsBase, PatchLands, gateway, service, provider, user
<1>4. OpKeyed'  BY DEF IInv, OpKeyed, PatchLands, gateway, service, provider, user
<1>5. RunKeyed'  BY DEF IInv, RunKeyed, PatchLands, gateway, service, provider, user
<1>6. LockKeyed'  BY DEF IInv, LockKeyed, PatchLands, gateway, service, provider, user
<1>7. Versions'  BY DEF IInv, Versions, PatchLands, gateway, service, provider, user
<1>8. (~blind)'  BY DEF IInv, PatchLands, gateway, service, provider, user
<1> QED  BY <1>1, <1>2, <1>3, <1>4, <1>5, <1>6, <1>7, <1>8 DEF IInv

LEMMA RemoteEditInv ==
  ASSUME IInv, RemoteEdit
  PROVE  IInv'
<1>1. Types'
  <2>1. remote' \in Etag
    BY PimAssumption DEF IInv, Types, Key, Etag, Conflict, RemoteEdit, gateway, service,
       provider, user
  <2> QED BY <2>1 DEF IInv, Types, RemoteEdit, gateway, service, provider, user
<1>2. Loaded'  BY DEF IInv, Loaded, RemoteEdit, gateway, service, provider, user
<1>3. SeenIsBase'  BY DEF IInv, SeenIsBase, RemoteEdit, gateway, service, provider, user
<1>4. OpKeyed'  BY DEF IInv, OpKeyed, RemoteEdit, gateway, service, provider, user
<1>5. RunKeyed'  BY DEF IInv, RunKeyed, RemoteEdit, gateway, service, provider, user
<1>6. LockKeyed'  BY DEF IInv, LockKeyed, RemoteEdit, gateway, service, provider, user
<1>7. Versions'  BY DEF IInv, Versions, RemoteEdit, gateway, service, provider, user
<1>8. (~blind)'  BY DEF IInv, RemoteEdit, gateway, service, provider, user
<1> QED  BY <1>1, <1>2, <1>3, <1>4, <1>5, <1>6, <1>7, <1>8 DEF IInv

LEMMA TwoMinutesInv ==
  ASSUME IInv, TwoMinutes
  PROVE  IInv'
<1>1. Types'
  <2>1. age' \in 0..2
    BY PimAssumption DEF IInv, Types, Key, Etag, Conflict, TwoMinutes, gateway, service,
       provider, user
  <2> QED BY <2>1 DEF IInv, Types, TwoMinutes, gateway, service, provider, user
<1>2. Loaded'  BY DEF IInv, Loaded, TwoMinutes, gateway, service, provider, user
<1>3. SeenIsBase'  BY DEF IInv, SeenIsBase, TwoMinutes, gateway, service, provider, user
<1>4. OpKeyed'  BY DEF IInv, OpKeyed, TwoMinutes, gateway, service, provider, user
<1>5. RunKeyed'  BY DEF IInv, RunKeyed, TwoMinutes, gateway, service, provider, user
<1>6. LockKeyed'  BY DEF IInv, LockKeyed, TwoMinutes, gateway, service, provider, user
<1>7. Versions'  BY DEF IInv, Versions, TwoMinutes, gateway, service, provider, user
<1>8. (~blind)'  BY DEF IInv, TwoMinutes, gateway, service, provider, user
<1> QED  BY <1>1, <1>2, <1>3, <1>4, <1>5, <1>6, <1>7, <1>8 DEF IInv

LEMMA StartWriteInv ==
  ASSUME IInv, StartWrite
  PROVE  IInv'
<1>0. used + 1 \in 0..MaxKeys
  BY PimAssumption DEF IInv, Types, StartWrite
<1>1. Types'
  <2>1. used' \in 0..MaxKeys
    BY PimAssumption DEF IInv, Types, Key, Etag, Conflict, StartWrite, Take, Current,
       Locked, gateway, service, provider, user
  <2>2. op' \in Operation
    BY Fields, <1>0 DEF IInv, Operation, StartWrite
  <2>3. run' \in Run
    BY PimAssumption DEF IInv, Types, Run, Key, Etag, Conflict, StartWrite, Take,
       Current, Locked, gateway, service, provider, user
  <2> QED BY <2>1, <2>2, <2>3 DEF IInv, Types, StartWrite, gateway, service, provider,
     user
<1>2. Loaded'  BY DEF IInv, Loaded, StartWrite, gateway, service, provider, user
<1>3. SeenIsBase'
  BY Fields DEF IInv, Loaded, SeenIsBase, StartWrite, Current, gateway, provider
<1>4. OpKeyed'
  BY PimAssumption DEF IInv, OpKeyed, Types, RunKeyed, LockKeyed, Active, Key,
     Operation, Run, Service, Resolution, StartWrite, Take, Current, Locked, gateway,
     service, provider, user
<1>5. RunKeyed'
  BY PimAssumption DEF IInv, RunKeyed, Types, OpKeyed, LockKeyed, Active, Key, Run,
     Operation, Resolution, StartWrite, Take, Current, Locked, gateway, service,
     provider, user
<1>6. LockKeyed'
  BY PimAssumption DEF IInv, LockKeyed, Types, OpKeyed, RunKeyed, Active, Key, Run,
     Service, Write, Resolution, StartWrite, Take, Current, Locked, gateway, service,
     provider, user
<1>7. Versions'
  BY PimAssumption DEF IInv, Versions, Types, RunKeyed, LockKeyed, Active, Key,
     Operation, Write, Resolution, Service, State, Batch, StartWrite, Take, Current,
     Locked, gateway, service, provider, user
<1>8. (~blind)'  BY DEF IInv, StartWrite, gateway, service, provider, user
<1> QED  BY <1>1, <1>2, <1>3, <1>4, <1>5, <1>6, <1>7, <1>8 DEF IInv

LEMMA RetryWriteInv ==
  ASSUME IInv, RetryWrite
  PROVE  IInv'
<1>1. Types'
  <2>1. run' \in Run
    BY PimAssumption DEF IInv, Types, Run, Operation, Key, Etag, Conflict, RetryWrite,
       Take, gateway, service, provider, user
  <2> QED BY <2>1 DEF IInv, Types, RetryWrite, gateway, service, provider, user
<1>2. Loaded'  BY DEF IInv, Loaded, RetryWrite, gateway, service, provider, user
<1>3. SeenIsBase'  BY DEF IInv, SeenIsBase, RetryWrite, gateway, service, provider, user
<1>4. OpKeyed'
  BY PimAssumption DEF IInv, OpKeyed, Types, RunKeyed, LockKeyed, Active, Key,
     Operation, Run, Service, Resolution, RetryWrite, Take, gateway, service, provider,
     user
<1>5. RunKeyed'
  BY PimAssumption DEF IInv, RunKeyed, Types, OpKeyed, LockKeyed, Active, Key, Run,
     Operation, Resolution, RetryWrite, Take, gateway, service, provider, user
<1>6. LockKeyed'
  BY PimAssumption DEF IInv, LockKeyed, Types, OpKeyed, RunKeyed, Active, Key, Run,
     Service, Write, Resolution, RetryWrite, Take, gateway, service, provider, user
<1>7. Versions'  BY DEF IInv, Versions, RetryWrite, gateway, service, provider, user
<1>8. (~blind)'  BY DEF IInv, RetryWrite, gateway, service, provider, user
<1> QED  BY <1>1, <1>2, <1>3, <1>4, <1>5, <1>6, <1>7, <1>8 DEF IInv

LEMMA StartRecoverInv ==
  ASSUME IInv, NEW pick \in {"local", "remote"}, StartRecover(pick)
  PROVE  IInv'
<1>1. Types'
  <2>1. used' \in 0..MaxKeys
    BY PimAssumption DEF IInv, Types, Key, Etag, Conflict, StartRecover, Take, Current,
       Reviewed, gateway, service, provider, user
  <2>2. rs' \in [Key -> Resolution]
    BY PimAssumption DEF IInv, Types, Resolution, Record, Operation, Page, Key, Etag,
       Conflict, StartRecover, Take, Current, Reviewed, gateway, service, provider, user
  <2>3. run' \in Run
    BY PimAssumption DEF IInv, Types, Run, Key, Etag, Conflict, StartRecover, Take,
       Current, Reviewed, gateway, service, provider, user
  <2> QED BY <2>1, <2>2, <2>3 DEF IInv, Types, StartRecover, gateway, service, provider,
     user
<1>2. Loaded'  BY DEF IInv, Loaded, StartRecover, gateway, service, provider, user
<1>3. SeenIsBase'
  BY PimAssumption DEF IInv, SeenIsBase, Types, RunKeyed, Active, Operation, Resolution,
     Request, StartRecover, Take, Current, Reviewed, gateway, service, provider, user
<1>4. OpKeyed'
  BY PimAssumption DEF IInv, OpKeyed, Types, RunKeyed, LockKeyed, Active, Key,
     Operation, Run, Service, Resolution, StartRecover, Take, Current, Reviewed,
     gateway, service, provider, user
<1>5. RunKeyed'
  BY PimAssumption DEF IInv, RunKeyed, Types, OpKeyed, LockKeyed, Active, Key, Run,
     Operation, Resolution, StartRecover, Take, Current, Reviewed, gateway, service,
     provider, user
<1>6. LockKeyed'
  BY PimAssumption DEF IInv, LockKeyed, Types, OpKeyed, RunKeyed, Active, Key, Run,
     Service, Write, Resolution, StartRecover, Take, Current, Reviewed, gateway,
     service, provider, user
<1>7. Versions'
  BY PimAssumption DEF IInv, Versions, Types, RunKeyed, LockKeyed, Active, Key,
     Operation, Write, Resolution, Service, State, Batch, StartRecover, Take, Current,
     Reviewed, gateway, service, provider, user
<1>8. (~blind)'  BY DEF IInv, StartRecover, gateway, service, provider, user
<1> QED  BY <1>1, <1>2, <1>3, <1>4, <1>5, <1>6, <1>7, <1>8 DEF IInv

LEMMA StartConflictInv ==
  ASSUME IInv, NEW pick \in {"local", "remote"}, StartConflict(pick)
  PROVE  IInv'
<1>1. Types'
  <2>1. used' \in 0..MaxKeys
    BY PimAssumption DEF IInv, Types, Key, Etag, Conflict, StartConflict, Take, Current,
       Reviewed, Locked, gateway, service, provider, user
  <2>2. rs' \in [Key -> Resolution]
    BY PimAssumption DEF IInv, Types, Resolution, Record, State, Page, Key, Etag,
       Conflict, StartConflict, Take, Current, Reviewed, Locked, gateway, service,
       provider, user
  <2>3. run' \in Run
    BY PimAssumption DEF IInv, Types, Run, Key, Etag, Conflict, StartConflict, Take,
       Current, Reviewed, Locked, gateway, service, provider, user
  <2> QED BY <2>1, <2>2, <2>3 DEF IInv, Types, StartConflict, gateway, service,
     provider, user
<1>2. Loaded'  BY DEF IInv, Loaded, StartConflict, gateway, service, provider, user
<1>3. SeenIsBase'
  BY PimAssumption DEF IInv, SeenIsBase, Types, RunKeyed, Active, Operation, Resolution,
     Request, StartConflict, Take, Current, Reviewed, Locked, gateway, service,
     provider, user
<1>4. OpKeyed'
  BY PimAssumption DEF IInv, OpKeyed, Types, RunKeyed, LockKeyed, Active, Key,
     Operation, Run, Service, Resolution, StartConflict, Take, Current, Reviewed,
     Locked, gateway, service, provider, user
<1>5. RunKeyed'
  BY PimAssumption DEF IInv, RunKeyed, Types, OpKeyed, LockKeyed, Active, Key, Run,
     Operation, Resolution, StartConflict, Take, Current, Reviewed, Locked, gateway,
     service, provider, user
<1>6. LockKeyed'
  BY PimAssumption DEF IInv, LockKeyed, Types, OpKeyed, RunKeyed, Active, Key, Run,
     Service, Write, Resolution, StartConflict, Take, Current, Reviewed, Locked,
     gateway, service, provider, user
<1>7. Versions'
  BY PimAssumption DEF IInv, Versions, Types, RunKeyed, LockKeyed, Active, Key,
     Operation, Write, Resolution, Service, State, Batch, StartConflict, Take, Current,
     Reviewed, Locked, gateway, service, provider, user
<1>8. (~blind)'  BY DEF IInv, StartConflict, gateway, service, provider, user
<1> QED  BY <1>1, <1>2, <1>3, <1>4, <1>5, <1>6, <1>7, <1>8 DEF IInv

LEMMA RetryResolveInv ==
  ASSUME IInv, NEW k \in Key, RetryResolve(k)
  PROVE  IInv'
<1>1. Types'
  <2>1. run' \in Run
    BY PimAssumption DEF IInv, Types, Run, Resolution, Key, Etag, Conflict,
       RetryResolve, Take, gateway, service, provider, user
  <2> QED BY <2>1 DEF IInv, Types, RetryResolve, gateway, service, provider, user
<1>2. Loaded'  BY DEF IInv, Loaded, RetryResolve, gateway, service, provider, user
<1>3. SeenIsBase'  BY DEF IInv, SeenIsBase, RetryResolve, gateway, service, provider, user
<1>4. OpKeyed'
  BY PimAssumption DEF IInv, OpKeyed, Types, RunKeyed, LockKeyed, Active, Key,
     Operation, Run, Service, Resolution, RetryResolve, Take, gateway, service,
     provider, user
<1>5. RunKeyed'
  BY PimAssumption DEF IInv, RunKeyed, Types, OpKeyed, LockKeyed, Active, Key, Run,
     Operation, Resolution, RetryResolve, Take, gateway, service, provider, user
<1>6. LockKeyed'
  BY PimAssumption DEF IInv, LockKeyed, Types, OpKeyed, RunKeyed, Active, Key, Run,
     Service, Write, Resolution, RetryResolve, Take, gateway, service, provider, user
<1>7. Versions'  BY DEF IInv, Versions, RetryResolve, gateway, service, provider, user
<1>8. (~blind)'  BY DEF IInv, RetryResolve, gateway, service, provider, user
<1> QED  BY <1>1, <1>2, <1>3, <1>4, <1>5, <1>6, <1>7, <1>8 DEF IInv

LEMMA CallWriteInv ==
  ASSUME IInv, CallWrite
  PROVE  IInv'
<1>0. /\ run.pc = "call" /\ run \in Run /\ run.key \in Key
      /\ Base \in Etag /\ Seen \in Etag /\ Base = Seen
      /\ rs[run.key].st = "none" \/ rs[run.key].pick = "local"
  <2>1. run.pc = "call" /\ run \in Run /\ run.key \in Key
    BY DEF IInv, Types, CallWrite, RunKeyed, Active
  <2>2. rs[run.key].st = "none" \/ rs[run.key].pick = "local"
    BY <2>1 DEF IInv, CallWrite, RunKeyed, Active
  <2> QED  BY <2>1, <2>2, Fields DEF IInv, SeenIsBase, Base, Seen
<1>1. CASE \E st \in {"unknown", "rejected"} : Fail(st) /\ UNCHANGED <<svc, sw, wire>>
  <2>1. Failed  BY <1>0, <1>1, FailFails DEF Active
  <2>2. Types'  BY <1>1, <2>1 DEF IInv, Types, CallWrite, Failed, user
  <2>3. Loaded' /\ SeenIsBase' /\ (~blind)'
    BY <1>1, <2>1 DEF IInv, Loaded, SeenIsBase, CallWrite, Failed, user
  <2>4. OpKeyed'  BY <1>1, <2>1 DEF IInv, Types, OpKeyed, CallWrite, Failed
  <2>5. RunKeyed' /\ LockKeyed'
    BY <1>1, <2>1 DEF IInv, RunKeyed, LockKeyed, CallWrite, Failed, Active
  <2>6. Versions'  BY <1>1, <2>1 DEF IInv, Versions, CallWrite, Failed
  <2> QED  BY <2>2, <2>3, <2>4, <2>5, <2>6 DEF IInv
<1>2. CASE /\ sw[run.key].st = "accepted" /\ run' = [run EXCEPT !.pc = "commit"]
           /\ UNCHANGED <<op, svc, sw, wire>>
  <2>1. run' \in Run /\ run'.pc = "commit" /\ run'.key = run.key /\ run'.kind = run.kind
    BY <1>0, <1>2 DEF Run
  <2>2. Types'  BY <1>2, <2>1 DEF IInv, Types, CallWrite, user
  <2>3. Loaded' /\ SeenIsBase' /\ Versions' /\ (~blind)'
    BY <1>2 DEF IInv, Loaded, SeenIsBase, Versions, CallWrite, user
  <2>4. OpKeyed'  BY <1>2, <2>1 DEF IInv, OpKeyed, CallWrite
  <2>5. RunKeyed' /\ LockKeyed'
    BY <1>0, <1>2, <2>1 DEF IInv, RunKeyed, LockKeyed, CallWrite, Active
  <2> QED  BY <2>2, <2>3, <2>4, <2>5 DEF IInv
<1>3. CASE ~svc.at /\ Submit /\ UNCHANGED op
  <2>1. run' \in Run /\ run'.pc = "wait" /\ run'.key = run.key /\ run'.kind = run.kind
    BY <1>0, <1>3 DEF Submit, Run
  <2>2. svc' \in Service /\ svc'.at /\ svc'.key = run.key /\ svc'.ans = "none"
    BY <1>0, <1>3, Fields DEF IInv, Submit, Service
  <2>3. /\ sw' \in [Key -> Write] /\ sw'[run.key].st = "submitting"
        /\ \A k \in Key : k # run.key => sw'[k] = sw[k]
    <3>1. sw \in [Key -> Write] /\ sw' = [sw EXCEPT ![run.key].st = "submitting"]
      BY <1>3 DEF IInv, Types, Submit
    <3>2. sw' \in [Key -> Write]  BY <1>0, <3>1, SetStatus
    <3> QED  BY <1>0, <3>1, <3>2 DEF Write
  <2>4. wire' \subseteq Request /\ \A r \in wire' : r.base = r.seen
    <3>1. [key |-> run.key, base |-> Base, seen |-> Seen] \in Request  BY <1>0 DEF Request
    <3> QED  BY <1>0, <1>3, <3>1 DEF IInv, Types, SeenIsBase, Submit
  <2>5. Types'  BY <1>3, <2>1, <2>2, <2>3, <2>4 DEF IInv, Types, CallWrite, user
  <2>6. Loaded' /\ SeenIsBase' /\ (~blind)'
    BY <1>3, <2>4 DEF IInv, Loaded, SeenIsBase, CallWrite, user
  <2>7. OpKeyed'  BY <1>3, <2>1, <2>2 DEF IInv, OpKeyed, CallWrite
  <2>8. RunKeyed' /\ LockKeyed'
    BY <1>0, <1>3, <2>1, <2>2, <2>3 DEF IInv, RunKeyed, LockKeyed, CallWrite, Active
  <2>9. Versions'
    BY <1>3, <2>2, <2>3 DEF IInv, Versions, CallWrite
  <2> QED  BY <2>5, <2>6, <2>7, <2>8, <2>9 DEF IInv
<1> QED  BY <1>1, <1>2, <1>3 DEF CallWrite, Refused

LEMMA CallRemoteInv ==
  ASSUME IInv, CallRemote
  PROVE  IInv'
<1>0. /\ run.pc = "call" /\ run \in Run /\ run.key \in Key /\ run.kind # "write"
      /\ rs[run.key].st # "none" /\ rs[run.key].pick = "remote"
      /\ rs[run.key].etag \in Etag /\ rs[run.key].etag # 0
  <2>1. /\ run.pc = "call" /\ run \in Run /\ run.key \in Key /\ run.kind # "write"
        /\ rs[run.key].st # "none" /\ rs[run.key].pick = "remote"
    BY DEF IInv, Types, CallRemote, RunKeyed, Active
  <2> QED  BY <2>1, Fields DEF IInv, Versions
<1>1. CASE End /\ UNCHANGED <<sw, state>>
  <2>1. run' \in Run /\ run'.pc = "idle" /\ run'.key = 0
    BY <1>1, PimAssumption DEF End, NoRun, Run
  <2>2. Types'  BY <1>1, <2>1 DEF IInv, Types, CallRemote, user, provider
  <2>3. Loaded' /\ SeenIsBase' /\ Versions' /\ (~blind)'
    BY <1>1 DEF IInv, Loaded, SeenIsBase, Versions, CallRemote, user, provider
  <2>4. OpKeyed'  BY <2>1 DEF IInv, Types, OpKeyed, CallRemote
  <2>5. RunKeyed' /\ LockKeyed'
    BY <1>1, <2>1 DEF IInv, RunKeyed, LockKeyed, CallRemote, Active
  <2> QED  BY <2>2, <2>3, <2>4, <2>5 DEF IInv
<1>2. CASE /\ sw' = [sw EXCEPT ![run.key] = [st |-> "accepted", etag |-> rs[run.key].etag]]
           /\ run' = [run EXCEPT !.pc = "commit"]
           /\ UNCHANGED state \/ state' = Settled(0, state.known)
  <2>1. run' \in Run /\ run'.pc = "commit" /\ run'.key = run.key /\ run'.kind = run.kind
    BY <1>0, <1>2 DEF Run
  <2>2. /\ sw' \in [Key -> Write] /\ sw'[run.key].st = "accepted" /\ sw'[run.key].etag # 0
        /\ \A k \in Key : k # run.key => sw'[k] = sw[k]
    <3>1. sw \in [Key -> Write]  BY DEF IInv, Types
    <3>2. sw' \in [Key -> Write]  BY <1>0, <1>2, <3>1, SetWrite
    <3> QED  BY <1>0, <1>2, <3>1, <3>2
  <2>3. state' \in State /\ (state'.conflict.on => state'.conflict.etag # 0)
    <3>1. CASE UNCHANGED state  BY <3>1 DEF IInv, Types, Versions
    <3>2. CASE state' = Settled(0, state.known)
      <4>1. NoConflict \in Conflict /\ ~NoConflict.on  BY Fields DEF IInv, NoConflict, Conflict
      <4> QED  BY <3>2, <4>1, Fields DEF IInv, Settled, State
    <3> QED  BY <1>2, <3>1, <3>2
  <2>4. Types'  BY <2>1, <2>2, <2>3 DEF IInv, Types, CallRemote, user, provider
  <2>5. Loaded' /\ SeenIsBase' /\ (~blind)'
    BY DEF IInv, Loaded, SeenIsBase, CallRemote, user, provider
  <2>6. OpKeyed'  BY <2>1 DEF IInv, OpKeyed, CallRemote
  <2>7. RunKeyed'  BY <1>0, <2>1 DEF IInv, RunKeyed, CallRemote, Active
  <2>8. LockKeyed'  BY <1>0, <2>1, <2>2 DEF IInv, LockKeyed, CallRemote
  <2>9. Versions'  BY <2>2, <2>3 DEF IInv, Versions, CallRemote
  <2> QED  BY <2>4, <2>5, <2>6, <2>7, <2>8, <2>9 DEF IInv
<1> QED  BY <1>1, <1>2 DEF CallRemote

LEMMA FinishInv ==
  ASSUME IInv, Finish
  PROVE  IInv'
<1>0. /\ svc.at /\ svc.key \in Key /\ sw[svc.key].st = "submitting" /\ sw \in [Key -> Write]
      /\ svc' = NoSvc /\ svc' \in Service
  BY PimAssumption, Fields DEF IInv, Types, LockKeyed, Finish, NoSvc, Service
<1>a. UNCHANGED <<rec, patch, shown, used, rs, batch, wire, remote, made, blind, left, profile>>
  BY DEF Finish, user, provider
<1>1. CASE svc.ans = "accepted"
  <2>0. op' = op /\ age' = 0 /\ age' \in 0..2  BY <1>1 DEF Finish
  <2>1. /\ sw' \in [Key -> Write] /\ sw'[svc.key].st = "accepted" /\ sw'[svc.key].etag # 0
        /\ \A k \in Key : k # svc.key => sw'[k] = sw[k]
    <3>1. sw' = [sw EXCEPT ![svc.key] = [st |-> "accepted", etag |-> svc.etag]]
      BY <1>1 DEF Finish
    <3>2. svc.etag \in Etag /\ svc.etag # 0  BY <1>1, Fields DEF IInv, Versions
    <3>3. sw' \in [Key -> Write]  BY <1>0, <3>1, <3>2, SetWrite
    <3> QED  BY <1>0, <3>1, <3>2, <3>3
  <2>2. state' \in State /\ ~state'.conflict.on
    <3>1. NoConflict \in Conflict /\ ~NoConflict.on  BY Fields DEF IInv, NoConflict, Conflict
    <3>2. state' = Settled(svc.etag, TRUE)  BY <1>1 DEF Finish
    <3> QED  BY <3>1, <3>2, Fields DEF IInv, Settled, State
  <2>3. /\ run' \in Run /\ run'.key = run.key /\ run'.kind = run.kind
        /\ run'.pc = IF Waiting THEN "commit" ELSE run.pc
    BY <1>1 DEF IInv, Types, Finish, Run
  <2>4. Types'  BY <1>0, <1>a, <2>0, <2>1, <2>2, <2>3 DEF IInv, Types
  <2>5. Loaded' /\ SeenIsBase' /\ (~blind)'
    BY <1>a, <2>0 DEF IInv, Loaded, SeenIsBase
  <2>6. OpKeyed'  BY <1>0, <1>a, <2>0, <2>3 DEF IInv, Types, OpKeyed, NoSvc
  <2>7. RunKeyed'  BY <1>a, <2>0, <2>3 DEF IInv, RunKeyed, Active, Waiting
  <2>8. LockKeyed'  BY <1>0, <1>a, <2>1, <2>3 DEF IInv, LockKeyed, RunKeyed, Active, Waiting, NoSvc
  <2>9. Versions'  
    <3>1. \A k \in Key : sw'[k].st = "accepted" => sw'[k].etag # 0
      BY <2>1 DEF IInv, Versions
    <3> QED  BY <1>0, <1>a, <2>0, <2>2, <3>1 DEF IInv, Versions, NoSvc
  <2> QED  BY <2>4, <2>5, <2>6, <2>7, <2>8, <2>9 DEF IInv
<1>2. CASE svc.ans # "accepted"
  <2>1. /\ sw' \in [Key -> Write] /\ sw'[svc.key].st = "rejected"
        /\ \A k \in Key : k # svc.key => sw'[k] = sw[k]
    <3>1. sw' = [sw EXCEPT ![svc.key].st = "rejected"]  BY <1>2 DEF Finish
    <3>2. sw' \in [Key -> Write]  BY <1>0, <3>1, SetStatus
    <3> QED  BY <1>0, <3>1, <3>2 DEF Write
  <2>2. Failed \/ (UNCHANGED <<op, run>> /\ ~Waiting)
    <3>1. CASE Waiting
      BY <1>2, <3>1, FailFails DEF Finish, Report, Waiting, Active
    <3> QED  BY <1>2, <3>1 DEF Finish, Report
  <2>3. UNCHANGED <<state, age>>  BY <1>2 DEF Finish
  <2>4. left' \in 0..MaxFaults  BY <1>a DEF IInv, Types
  <2> QED  BY <1>0, <1>a, <2>1, <2>2, <2>3, <2>4, GivenUp
<1> QED  BY <1>1, <1>2

LEMMA LoseInv ==
  ASSUME IInv, Lose
  PROVE  IInv'
<1>0. /\ svc.at /\ svc.key \in Key /\ sw[svc.key].st = "submitting" /\ sw \in [Key -> Write]
      /\ svc' = NoSvc /\ svc' \in Service
  BY PimAssumption, Fields DEF IInv, Types, LockKeyed, Lose, NoSvc, Service
<1>1. /\ sw' \in [Key -> Write] /\ sw'[svc.key].st # "accepted"
      /\ \A k \in Key : k # svc.key => sw'[k] = sw[k]
  <2>1. PICK st \in {"unknown", "rejected"} : sw' = [sw EXCEPT ![svc.key].st = st]
    BY DEF Lose
  <2>2. sw' \in [Key -> Write]  BY <1>0, <2>1, SetStatus
  <2> QED  BY <1>0, <2>1, <2>2 DEF Write
<1>2. Failed \/ (UNCHANGED <<op, run>> /\ ~Waiting)
  <2>1. CASE Waiting
    BY <2>1, FailFails DEF Lose, Report, Waiting, Active
  <2> QED  BY <2>1 DEF Lose, Report
<1>3. left' \in 0..MaxFaults
  BY PimAssumption DEF IInv, Types, Lose, Fault
<1> QED  BY <1>0, <1>1, <1>2, <1>3, GivenUp DEF Lose, provider, user

LEMMA CrashInv ==
  ASSUME IInv, Crash
  PROVE  IInv'
<1>0. run' = NoRun /\ run' \in Run
  BY PimAssumption DEF Crash, End, NoRun, Run
<1>1. svc' = svc \/ svc' = NoSvc
  BY DEF Crash
<1>2. svc' \in Service
  <2>1. NoSvc \in Service  BY Fields, PimAssumption DEF IInv, NoSvc, Service
  <2> QED  BY <1>1, <2>1 DEF IInv, Types
<1>3. left' \in 0..MaxFaults
  BY PimAssumption DEF IInv, Types, Crash, Fault
<1>4. Types'
  BY <1>0, <1>2, <1>3 DEF IInv, Types, Crash, user, provider
<1>5. Loaded' /\ SeenIsBase' /\ (~blind)'
  BY DEF IInv, Loaded, SeenIsBase, Crash, user, provider
<1>6. OpKeyed'
  BY <1>0, <1>1 DEF IInv, Types, OpKeyed, Crash, NoRun, NoSvc
<1>7. RunKeyed' /\ LockKeyed'
  BY <1>0, <1>1 DEF IInv, RunKeyed, LockKeyed, Crash, Active, NoRun, NoSvc
<1>8. Versions'
  BY <1>1 DEF IInv, Versions, Crash, NoSvc
<1> QED  BY <1>4, <1>5, <1>6, <1>7, <1>8 DEF IInv

LEMMA CommitInv ==
  ASSUME IInv, Commit
  PROVE  IInv'
<1>0. /\ run.pc = "commit" /\ run.key \in Key /\ sw[run.key].st = "accepted"
      /\ sw[run.key].etag \in Etag /\ sw[run.key].etag # 0
      /\ Base \in Etag /\ Seen \in Etag /\ Base = Seen /\ Version \in Nat
  <2>1. run.pc = "commit" /\ run.key \in Key /\ sw[run.key].st = "accepted"
    BY DEF IInv, Commit, RunKeyed, LockKeyed, Active
  <2>2. sw[run.key].etag \in Etag /\ sw[run.key].etag # 0
    BY <2>1, Fields DEF IInv, Versions
  <2> QED  BY <2>1, <2>2, Fields DEF IInv, SeenIsBase, Base, Seen, Version
<1>1. run' = NoRun /\ run' \in Run
  BY PimAssumption DEF Commit, End, NoRun, Run
<1>2. /\ rec' \in Record
      /\ rec' = rec \/ rec'.ver = rec.ver + 1
  <2>1. CASE rec' = rec  BY <2>1 DEF IInv, Types
  <2>2. CASE rec' = [ver |-> rec.ver + 1, etag |-> sw[run.key].etag, own |-> FALSE]
    BY <1>0, <2>2, Fields DEF IInv, Record
  <2> QED  BY <2>1, <2>2 DEF Commit, Persist
<1>3. /\ op' \in Operation /\ op'.base = op'.seen
      /\ op' = op \/ (op'.st \in {"completed", "conflict"} /\ op'.res # 0)
      /\ op' = op \/ op'.key = op.key \/ op'.key = run.key
      /\ op'.st = "none" \/ op'.key \in Key
  <2>1. CASE op' = op  BY <2>1 DEF IInv, Types, SeenIsBase, OpKeyed
  <2>2. CASE op' = [st |-> "conflict", key |-> run.key, ver |-> Version, base |-> Base,
                    seen |-> Seen, res |-> sw[run.key].etag]
    BY <1>0, <2>2, Fields DEF IInv, Operation
  <2>3. CASE op' = [st |-> "completed", key |-> op.key, ver |-> op.ver, base |-> op.base,
                    seen |-> op.seen, res |-> sw[run.key].etag] /\ run.kind # "conflicts"
    <3>1. op' \in Operation /\ op'.base = op'.seen /\ op'.st = "completed" /\ op'.res # 0
          /\ op'.key = op.key
      BY <1>0, <2>3, Fields DEF IInv, SeenIsBase, Operation
    <3>2. op.key \in Key
      <4>1. CASE run.kind = "write"  BY <1>0, <4>1 DEF IInv, RunKeyed, Active
      <4>2. CASE run.kind # "write"
        <5>1. rs[run.key].st # "none" /\ rs[run.key].kind = run.kind
          BY <1>0, <4>2 DEF IInv, RunKeyed, Active
        <5>2. rs[run.key].kind \in {"recover", "conflicts"}
          BY <1>0 DEF IInv, Types, Resolution
        <5> QED  BY <1>0, <2>3, <5>1, <5>2 DEF IInv, OpKeyed
      <4> QED  BY <4>1, <4>2
    <3> QED  BY <3>1, <3>2
  <2> QED  BY <2>1, <2>2, <2>3 DEF Commit
<1>4. /\ rs' \in [Key -> Resolution]
      /\ \A k \in Key : /\ rs'[k].st = "none" <=> rs[k].st = "none"
                        /\ rs'[k].pick = rs[k].pick /\ rs'[k].kind = rs[k].kind
                        /\ rs'[k].etag = rs[k].etag /\ rs'[k].seen = rs[k].seen
  <2>0. rs \in [Key -> Resolution]  BY DEF IInv, Types
  <2>1. CASE run.kind = "write"  BY <2>0, <2>1 DEF Commit
  <2>2. CASE run.kind # "write"
    <3>1. PICK st \in {"completed", "conflict"} : rs' = [rs EXCEPT ![run.key].st = st]
      BY <2>2 DEF Commit
    <3>2. [rs[run.key] EXCEPT !.st = st] \in Resolution  BY <1>0, <2>0 DEF Resolution
    <3>3. rs' \in [Key -> Resolution]  BY <2>0, <3>1, <3>2
    <3>4. rs[run.key].st # "none"  BY <1>0, <2>2 DEF IInv, RunKeyed, Active
    <3> QED  BY <1>0, <2>0, <3>1, <3>3, <3>4 DEF Resolution
  <2> QED  BY <2>1, <2>2
<1>5. Types'
  BY <1>1, <1>2, <1>3, <1>4 DEF IInv, Types, Commit, user, service, provider
<1>6. Loaded' /\ (~blind)'
  BY <1>2, Fields DEF IInv, Loaded, Commit, user, provider
<1>7. SeenIsBase'
  BY <1>3, <1>4 DEF IInv, SeenIsBase, Commit, provider
<1>8. OpKeyed'
  BY <1>0, <1>1, <1>3, <1>4 DEF IInv, Types, OpKeyed, Commit, NoRun, service
<1>9. RunKeyed' /\ LockKeyed'
  BY <1>1, <1>4 DEF IInv, RunKeyed, LockKeyed, Commit, Active, NoRun, service
<1>10. Versions'
  BY <1>3, <1>4 DEF IInv, Versions, Commit, service
<1> QED  BY <1>5, <1>6, <1>7, <1>8, <1>9, <1>10 DEF IInv

LEMMA FetchInv ==
  ASSUME IInv, Fetch
  PROVE  IInv'
<1>1. Types'
  <2>1. run' \in Run
    BY PimAssumption DEF IInv, Types, Run, Key, Etag, Conflict, Fetch, Visible, Fetched,
       Listed, Pending, Overdue, NoConflict, gateway, service, provider, user
  <2>2. batch' \in Batch
    <3>1. CASE batch.on  BY <3>1 DEF IInv, Types, Fetch
    <3>2. CASE ~batch.on
      <4>1. PICK v \in Visible : batch' = Fetched(v)  BY <3>2 DEF Fetch
      <4>2. v \in Etag
        BY PimAssumption DEF IInv, Types, State, Etag, Visible
      <4>3. \A on \in BOOLEAN : [on |-> on, etag |-> v] \in Conflict
        BY <4>2 DEF Conflict
      <4>4. NoConflict \in Conflict  BY Fields DEF IInv, NoConflict, Conflict
      <4>5. \A wb \in Etag, c \in Conflict :
              [cursor |-> v, wb |-> wb, conflict |-> c, known |-> state.known] \in State
        BY <4>2, Fields DEF IInv, State
      <4> QED  BY <4>1, <4>2, <4>3, <4>4, <4>5, Fields DEF IInv, Batch, Fetched, Overdue
    <3> QED  BY <3>1, <3>2
  <2> QED BY <2>1, <2>2 DEF IInv, Types, Fetch, gateway, service, provider, user
<1>2. Loaded'  BY DEF IInv, Loaded, Fetch, gateway, service, provider, user
<1>3. SeenIsBase'  BY DEF IInv, SeenIsBase, Fetch, gateway, service, provider, user
<1>4. OpKeyed'
  BY PimAssumption DEF IInv, OpKeyed, Types, RunKeyed, LockKeyed, Active, Key,
     Operation, Run, Service, Resolution, Fetch, Visible, Fetched, Listed, Pending,
     Overdue, NoConflict, gateway, service, provider, user
<1>5. RunKeyed'
  BY PimAssumption DEF IInv, RunKeyed, Types, OpKeyed, LockKeyed, Active, Key, Run,
     Operation, Resolution, Fetch, Visible, Fetched, Listed, Pending, Overdue,
     NoConflict, gateway, service, provider, user
<1>6. LockKeyed'
  BY PimAssumption DEF IInv, LockKeyed, Types, OpKeyed, RunKeyed, Active, Key, Run,
     Service, Write, Resolution, Fetch, Visible, Fetched, Listed, Pending, Overdue,
     NoConflict, gateway, service, provider, user
<1>7. Versions'
  BY PimAssumption DEF IInv, Versions, Types, RunKeyed, LockKeyed, Active, Key,
     Operation, Write, Resolution, Service, State, Batch, Fetch, Visible, Fetched,
     Listed, Pending, Overdue, NoConflict, gateway, service, provider, user
<1>8. (~blind)'  BY DEF IInv, Fetch, gateway, service, provider, user
<1> QED  BY <1>1, <1>2, <1>3, <1>4, <1>5, <1>6, <1>7, <1>8 DEF IInv

LEMMA ApplyBatchInv ==
  ASSUME IInv, ApplyBatch
  PROVE  IInv'
<1>1. Types'
  <2>1. rec' \in Record
    <3>1. CASE rec' = rec  BY <3>1 DEF IInv, Types
    <3>2. CASE rec' = [ver |-> rec.ver + 1, etag |-> batch.etag, own |-> FALSE]
      BY <3>2, Fields DEF IInv, Record
    <3> QED  BY <3>1, <3>2 DEF ApplyBatch, Persist
  <2>2. state' \in State
    BY PimAssumption DEF IInv, Types, State, Batch, Key, Etag, Conflict, ApplyBatch,
       End, NoRun, Skip, Persist, NoBatch, NoConflict, gateway, service, provider, user
  <2>3. batch' \in Batch
    BY PimAssumption DEF IInv, Types, Batch, State, Key, Etag, Conflict, ApplyBatch,
       End, NoRun, Skip, Persist, NoBatch, NoConflict, gateway, service, provider, user
  <2>4. run' \in Run
    BY PimAssumption DEF IInv, Types, Run, Key, Etag, Conflict, ApplyBatch, End, NoRun,
       Skip, Persist, NoBatch, NoConflict, gateway, service, provider, user
  <2>5. age' \in 0..2
    BY PimAssumption DEF IInv, Types, Key, Etag, Conflict, ApplyBatch, End, NoRun, Skip,
       Persist, NoBatch, NoConflict, gateway, service, provider, user
  <2> QED BY <2>1, <2>2, <2>3, <2>4, <2>5 DEF IInv, Types, ApplyBatch, gateway, service,
     provider, user
<1>2. Loaded'
  BY PimAssumption DEF IInv, Loaded, Types, Record, Page, ApplyBatch, End, NoRun, Skip,
     Persist, NoBatch, NoConflict, gateway, service, provider, user
<1>3. SeenIsBase'  BY DEF IInv, SeenIsBase, ApplyBatch, gateway, service, provider, user
<1>4. OpKeyed'
  BY PimAssumption DEF IInv, OpKeyed, Types, RunKeyed, LockKeyed, Active, Key,
     Operation, Run, Service, Resolution, ApplyBatch, End, NoRun, Skip, Persist,
     NoBatch, NoConflict, gateway, service, provider, user
<1>5. RunKeyed'
  BY PimAssumption DEF IInv, RunKeyed, Types, OpKeyed, LockKeyed, Active, Key, Run,
     Operation, Resolution, ApplyBatch, End, NoRun, Skip, Persist, NoBatch, NoConflict,
     gateway, service, provider, user
<1>6. LockKeyed'
  BY PimAssumption DEF IInv, LockKeyed, Types, OpKeyed, RunKeyed, Active, Key, Run,
     Service, Write, Resolution, ApplyBatch, End, NoRun, Skip, Persist, NoBatch,
     NoConflict, gateway, service, provider, user
<1>7. Versions'
  BY PimAssumption DEF IInv, Versions, Types, RunKeyed, LockKeyed, Active, Key,
     Operation, Write, Resolution, Service, State, Batch, ApplyBatch, End, NoRun, Skip,
     Persist, NoBatch, NoConflict, gateway, service, provider, user
<1>8. (~blind)'  BY DEF IInv, ApplyBatch, gateway, service, provider, user
<1> QED  BY <1>1, <1>2, <1>3, <1>4, <1>5, <1>6, <1>7, <1>8 DEF IInv

LEMMA ServeInv ==
  ASSUME IInv, NEW r \in wire, Serve(r)
  PROVE  IInv'
<1>0. /\ r.key \in Key /\ r.base \in Etag /\ r.base = r.seen
      /\ remote + 1 \in Nat /\ remote + 1 # 0 /\ (remote < MaxEtag => remote + 1 \in Etag)
  BY PimAssumption DEF IInv, Types, SeenIsBase, Request, Etag
<1>1. Types'
  <2>1. svc' \in Service
    <3>1. PICK ans \in {"accepted", "rejected"}, etag \in Etag : Answer(r, ans, etag)
      BY <1>0, Fields DEF IInv, Serve
    <3> QED  BY <1>0, <3>1, Fields DEF IInv, Types, Answer, Service
  <2>2. wire' \subseteq Request
    BY PimAssumption DEF IInv, Types, Request, Key, Etag, Conflict, Serve, Fault,
       Answer, gateway, service, provider, user
  <2>3. remote' \in Etag
    BY PimAssumption DEF IInv, Types, Key, Etag, Conflict, Serve, Fault, Answer,
       gateway, service, provider, user
  <2>4. made' \in Nat
    BY PimAssumption DEF IInv, Types, Key, Etag, Conflict, Serve, Fault, Answer,
       gateway, service, provider, user
  <2>5. blind' \in BOOLEAN
    BY PimAssumption DEF IInv, Types, Key, Etag, Conflict, Serve, Fault, Answer,
       gateway, service, provider, user
  <2>6. left' \in 0..MaxFaults
    BY PimAssumption DEF IInv, Types, Key, Etag, Conflict, Serve, Fault, Answer,
       gateway, service, provider, user
  <2> QED BY <2>1, <2>2, <2>3, <2>4, <2>5, <2>6 DEF IInv, Types, Serve, gateway,
     service, provider, user
<1>2. Loaded'  BY DEF IInv, Loaded, Serve, gateway, service, provider, user
<1>3. SeenIsBase'
  BY PimAssumption DEF IInv, SeenIsBase, Types, RunKeyed, Active, Operation, Resolution,
     Request, Serve, Fault, Answer, gateway, service, provider, user
<1>4. OpKeyed'
  BY PimAssumption DEF IInv, OpKeyed, Types, RunKeyed, LockKeyed, Active, Key,
     Operation, Run, Service, Resolution, Serve, Fault, Answer, gateway, service,
     provider, user
<1>5. RunKeyed'  BY DEF IInv, RunKeyed, Serve, gateway, service, provider, user
<1>6. LockKeyed'
  BY PimAssumption DEF IInv, LockKeyed, Types, OpKeyed, RunKeyed, Active, Key, Run,
     Service, Write, Resolution, Serve, Fault, Answer, gateway, service, provider, user
<1>7. Versions'
  <2>1. PICK ans \in {"accepted", "rejected"}, etag \in Etag :
          Answer(r, ans, etag) /\ (ans = "accepted" => etag # 0)
    BY <1>0, Fields DEF IInv, Serve
  <2>2. svc'.ans = "accepted" => svc'.etag # 0
    BY <2>1 DEF IInv, Versions, Answer
  <2> QED  BY <2>2 DEF IInv, Versions, Serve, gateway
<1>8. (~blind)'
  BY PimAssumption DEF IInv, SeenIsBase, Serve, Fault, Answer, gateway, service,
     provider, user
<1> QED  BY <1>1, <1>2, <1>3, <1>4, <1>5, <1>6, <1>7, <1>8 DEF IInv

-----------------------------------------------------------------------------
(* The invariant of the specification, for every value of the constants.      *)
LEMMA NextInv == IInv /\ [Next]_vars => IInv'
<1> SUFFICES ASSUME IInv, [Next]_vars PROVE IInv'  OBVIOUS
<1>1. CASE UNCHANGED vars
  BY <1>1 DEF vars, gateway, service, provider, user, IInv, Types, Loaded, SeenIsBase, OpKeyed,
     RunKeyed, LockKeyed, Versions
<1>2. CASE Next
  <2>1. CASE Load \/ PatchChecked \/ PatchLands \/ RemoteEdit \/ TwoMinutes
    BY <2>1, LoadInv, PatchCheckedInv, PatchLandsInv, RemoteEditInv, TwoMinutesInv
  <2>2. CASE StartWrite \/ RetryWrite
    BY <2>2, StartWriteInv, RetryWriteInv
  <2>3. CASE \E pick \in {"local", "remote"} : StartRecover(pick) \/ StartConflict(pick)
    BY <2>3, StartRecoverInv, StartConflictInv
  <2>4. CASE \E k \in Key : RetryResolve(k)
    BY <2>4, RetryResolveInv
  <2>5. CASE CallWrite \/ CallRemote \/ Finish \/ Lose \/ Crash \/ Commit
    BY <2>5, CallWriteInv, CallRemoteInv, FinishInv, LoseInv, CrashInv, CommitInv
  <2>6. CASE Sync
    BY <2>6, FetchInv, ApplyBatchInv DEF Sync
  <2>7. CASE \E r \in wire : Serve(r)
    BY <2>7, ServeInv
  <2> QED  BY <1>2, <2>1, <2>2, <2>3, <2>4, <2>5, <2>6, <2>7 DEF Next
<1> QED  BY <1>1, <1>2

LEMMA Invariant == Spec => []IInv
<1>1. Init => IInv  BY InitInv
<1>2. IInv /\ [Next]_vars => IInv'  BY NextInv
<1> QED  BY <1>1, <1>2, PTL DEF Spec

\* The tables of the gateway and of the service agree: an operation waits only
\* for a write that holds the account's lock, and one that is shown as completed
\* has a version of the provider's to its name.
THEOREM TypeCorrect == Spec => []TypeOK
<1>1. IInv => TypeOK
  BY DEF IInv, TypeOK, LockKeyed, Versions
<1> QED  BY <1>1, Invariant, PTL

\* However writes, synchronisations, choices, retries, edits of others and crashes
\* interleave, and whatever is lost: no write replaces a version at the provider
\* that its author had not been shown.
THEOREM SeenBeforeReplaced == Spec => []NoBlindOverwrite
<1>1. IInv => NoBlindOverwrite
  BY DEF IInv, NoBlindOverwrite
<1> QED  BY <1>1, Invariant, PTL

-----------------------------------------------------------------------------
Writing == op.st \in {"submitting", "unknown", "rejected"}

(* Every version that the gateway or the service has to its name is one the    *)
(* provider has had.                                                           *)
Reached ==
  /\ rec.etag <= remote /\ svc.etag <= remote
  /\ state.wb <= remote /\ state.conflict.etag <= remote
  /\ op.base <= remote /\ op.res <= remote
  /\ \A k \in Key : rs[k].etag <= remote /\ sw[k].etag <= remote
  /\ batch.etag <= remote /\ batch.next.wb <= remote /\ batch.next.conflict.etag <= remote

(* No version that a commit may still give to the record is later than e.      *)
AtMost(e) ==
  /\ rec.etag <= e
  /\ op.st = "conflict" => op.res <= e
  /\ \A k \in Key : sw[k].st = "accepted" => sw[k].etag <= e
  /\ \A k \in Key : rs[k].st # "none" /\ rs[k].kind = "recover" => rs[k].etag <= e

(* What a synchronisation may give to the record is later than all of those:   *)
(* the write accepted last, the answer that comes after it, and the batch.     *)
Newest ==
  /\ state.wb # 0 => AtMost(state.wb)
  /\ svc.ans = "accepted" => AtMost(svc.etag)
  /\ batch.has => AtMost(batch.etag)

(* From its fetch to its transaction a batch keeps the service's state still.  *)
Batched ==
  /\ batch.on => ~svc.at
  /\ ~batch.on => batch = NoBatch
  /\ batch.next.wb \in {0, state.wb}
  /\ batch.has => batch.etag # 0 /\ (batch.next.wb # 0 => batch.etag = state.wb)

(* The receipt of a choice of the provider's version is of that version.       *)
Picked ==
  /\ \A k \in Key : k > used => sw[k].st = "none"
  /\ \A k \in Key : rs[k].st # "none" /\ rs[k].pick = "remote" /\ sw[k].st = "accepted"
                      => sw[k].etag = rs[k].etag

(* A write is based on the record it has read, until that changes; and what    *)
(* the provider makes of it is later than its base.                            *)
Based ==
  /\ run.pc \in Active /\ run.kind = "write" => Writing
  /\ Writing => /\ op.ver <= rec.ver
                /\ op.ver = rec.ver => op.base = rec.etag
                /\ sw[op.key].st = "accepted" => op.base <= sw[op.key].etag
                /\ svc.ans = "accepted" /\ svc.key = op.key => op.base <= svc.etag

(* An edit the provider never had is of a contact that has no version there;   *)
(* and before the first write the service knows of none.                       *)
Owned ==
  /\ rec.own => rec.etag = 0
  /\ patch.at => patch.ver <= rec.ver /\ (patch.ver = rec.ver => rec.etag = 0)
  /\ rec.etag = 0 => op.st # "completed"
  /\ rec.etag = 0 /\ op.st = "none" =>
       /\ run.pc \notin Active /\ ~svc.at /\ \A k \in Key : rs[k].st = "none"
       /\ ~state.known /\ state.wb = 0 /\ ~state.conflict.on
       /\ ~batch.has /\ ~batch.next.known /\ ~batch.next.conflict.on

RInv == Reached /\ Newest /\ Batched /\ Picked /\ Based /\ Owned

-----------------------------------------------------------------------------
LEMMA Numbers ==
  ASSUME Types
  PROVE  /\ {rec.ver, rec.etag, remote, op.ver, op.base, op.res, svc.etag, state.wb,
             state.conflict.etag, batch.etag, batch.next.wb, batch.next.conflict.etag}
              \subseteq Nat
         /\ used \in Nat /\ patch.ver \in Nat
         /\ \A k \in Key : rs[k].etag \in Nat /\ sw[k].etag \in Nat /\ k \in Nat
<1>1. Etag \subseteq Nat /\ Key \subseteq Nat /\ 0..MaxKeys \subseteq Nat
  BY PimAssumption DEF Etag, Key
<1>2. state.conflict.etag \in Nat  BY <1>1, Fields DEF Conflict
<1>3. batch.next.wb \in Nat /\ batch.next.conflict.etag \in Nat
  BY <1>1, Fields DEF State, Conflict
<1>4. remote \in Nat /\ used \in Nat /\ patch.ver \in Nat  BY <1>1 DEF Types
<1> QED  BY <1>1, <1>2, <1>3, <1>4, Fields

LEMMA InitRecord == Init => RInv
<1> SUFFICES ASSUME Init PROVE RInv  OBVIOUS
<1>0. Types /\ remote \in Nat  BY InitInv, Numbers DEF IInv
<1>1. Reached
  BY <1>0 DEF Init, Reached, NoConflict, NoOp, NoSvc, NoBatch, Key
<1>2. Newest /\ Batched /\ Picked
  BY <1>0 DEF Init, Newest, Batched, Picked, NoBatch, NoSvc
<1>3. Based
  BY <1>0 DEF Init, Based, Writing, NoOp, NoRun, Active
<1>4. Owned
  <2>1. profile.published \in BOOLEAN  BY PimAssumption DEF Init
  <2> QED  BY <1>0, <2>1 DEF Init, Owned, NoOp, NoRun, NoSvc, NoBatch, NoPatch, NoConflict, Active
<1> QED  BY <1>1, <1>2, <1>3, <1>4 DEF RInv

\* Steps that leave the record, the tables and both operations alone.
LEMMA AsideRecord ==
  ASSUME IInv, RInv, remote' \in Nat, remote <= remote',
         patch' = patch \/ ~patch'.at \/ (patch'.ver = rec.ver /\ rec.etag = 0),
         UNCHANGED <<rec, used, op, rs, run, svc, sw, state, batch>>
  PROVE  RInv'
<1>0. Types  BY DEF IInv
<1>1. Reached'
  BY <1>0, Numbers DEF RInv, Reached
<1>2. Newest' /\ Batched' /\ Picked' /\ Based'
  BY DEF RInv, Newest, Batched, Picked, Based, AtMost, Writing
<1>3. Owned'
  BY <1>0, Numbers DEF RInv, Owned
<1> QED  BY <1>1, <1>2, <1>3 DEF RInv

\* Steps that only give the lease to an operation, or take it back.
LEMMA LeaseRecord ==
  ASSUME IInv, RInv,
         UNCHANGED <<rec, patch, used, op, rs, svc, sw, state, batch, remote>>,
         run'.pc \in Active => /\ run'.kind = "write" => Writing
                               /\ op.st # "none"
                                  \/ \E k \in Key : rs[k].st # "none"
  PROVE  RInv'
<1>1. Reached' /\ Newest' /\ Batched' /\ Picked'
  BY DEF RInv, Reached, Newest, Batched, Picked, AtMost
<1>2. Based' /\ Owned'
  BY DEF RInv, Based, Owned, Writing
<1> QED  BY <1>1, <1>2 DEF RInv

LEMMA PatchLandsRecord ==
  ASSUME IInv, RInv, PatchLands
  PROVE  RInv'
<1>0. Types  BY DEF IInv
<1>1. rec'.etag = rec.etag /\ (rec' = rec \/ rec'.ver = rec.ver + 1)
      /\ (rec' # rec => patch.at /\ patch.ver = rec.ver)
  BY DEF PatchLands
<1>2. Reached' /\ Newest' /\ Batched' /\ Picked'
  BY <1>1 DEF RInv, Reached, Newest, Batched, Picked, AtMost, PatchLands, gateway, service, provider
<1>3. Based'
  BY <1>0, <1>1, Numbers DEF RInv, Based, Writing, PatchLands, gateway, service, provider
<1>4. Owned'
  BY <1>0, <1>1, Numbers DEF RInv, Owned, PatchLands, NoPatch, gateway, service
<1> QED  BY <1>2, <1>3, <1>4 DEF RInv

LEMMA StartWriteRecord ==
  ASSUME IInv, RInv, StartWrite
  PROVE  RInv'
<1>0. Types /\ used + 1 \in Key
  BY PimAssumption DEF IInv, Types, StartWrite, Key
<1>1. op'.st = "submitting" /\ op'.key = used + 1 /\ op'.ver = rec.ver /\ op'.base = rec.etag /\ op'.res = 0
  BY DEF StartWrite
<1>2. Reached'
  BY <1>0, <1>1, Numbers DEF RInv, Reached, StartWrite, service, provider
<1>3. Newest' /\ Batched'
  BY <1>1 DEF RInv, Newest, Batched, AtMost, StartWrite, service
<1>4. Picked'
  BY <1>0, Numbers DEF RInv, Picked, StartWrite, service
<1>5. Based'
  BY <1>0, <1>1, Numbers DEF IInv, OpKeyed, LockKeyed, RInv, Based, Picked, Writing, StartWrite, Take, service
<1>6. Owned'
  BY <1>0, <1>1 DEF RInv, Owned, StartWrite, user, service
<1> QED  BY <1>2, <1>3, <1>4, <1>5, <1>6 DEF RInv

LEMMA RetryWriteRecord ==
  ASSUME IInv, RInv, RetryWrite
  PROVE  RInv'
BY LeaseRecord DEF RetryWrite, Take, Writing, user, service, provider

LEMMA RetryResolveRecord ==
  ASSUME IInv, RInv, NEW k \in Key, RetryResolve(k)
  PROVE  RInv'
<1>1. rs[k].kind \in {"recover", "conflicts"}  BY DEF IInv, Types, Resolution
<1> QED  BY <1>1, LeaseRecord DEF RetryResolve, Take, user, service, provider

LEMMA CrashRecord ==
  ASSUME IInv, RInv, Crash
  PROVE  RInv'
<1>0. Types /\ run' = NoRun  BY DEF IInv, Crash, End
<1>1. svc' = svc \/ svc' = NoSvc  BY DEF Crash
<1>2. Reached'
  BY <1>0, <1>1, Numbers DEF RInv, Reached, Crash, NoSvc, provider
<1>3. Newest' /\ Batched' /\ Picked'
  BY <1>1 DEF RInv, Newest, Batched, Picked, AtMost, Crash, NoSvc
<1>4. Based' /\ Owned'
  BY <1>0, <1>1 DEF RInv, Based, Owned, Writing, Crash, NoSvc, NoRun, Active, user
<1> QED  BY <1>2, <1>3, <1>4 DEF RInv

\* A new resolution takes the next key.
LEMMA StartResolveRecord ==
  ASSUME IInv, RInv, NEW r \in Resolution, used < MaxKeys, used' = used + 1,
         run'.kind # "write", rs' = [rs EXCEPT ![used + 1] = r],
         r.etag <= remote,
         r.kind = "recover" => op.st = "conflict" /\ r.etag = op.res,
         op.st # "none" \/ state.conflict.on,
         UNCHANGED <<rec, patch, op, svc, sw, state, batch, remote>>
  PROVE  RInv'
<1>0. Types /\ used + 1 \in Key /\ rs \in [Key -> Resolution]
  BY PimAssumption DEF IInv, Types, Key
<1>1. \A k \in Key : k # used + 1 => rs'[k] = rs[k]  BY <1>0
<1>2. rs'[used + 1] = r /\ sw[used + 1].st = "none"
  BY <1>0, Numbers DEF RInv, Picked
<1>3. Reached'
  BY <1>0, <1>1, <1>2 DEF RInv, Reached
<1>4. Newest'
  <2>1. \A e : AtMost(e) => AtMost(e)'
    BY <1>0, <1>1, <1>2 DEF AtMost
  <2> QED  BY <2>1 DEF RInv, Newest, AtMost
<1>5. Batched'
  BY DEF RInv, Batched
<1>6. Picked'
  BY <1>0, <1>1, <1>2, Numbers DEF RInv, Picked
<1>7. Based' /\ Owned'
  BY DEF RInv, Based, Owned, Writing
<1> QED  BY <1>3, <1>4, <1>5, <1>6, <1>7 DEF RInv

LEMMA StartRecoverRecord ==
  ASSUME IInv, RInv, NEW pick \in {"local", "remote"}, StartRecover(pick)
  PROVE  RInv'
<1> DEFINE r == [st |-> "submitting", kind |-> "recover", pick |-> pick, ver |-> rec.ver,
                 etag |-> op.res, seen |-> shown.res]
<1>1. shown.res \in Etag  BY DEF IInv, Types, Page
<1>2. r \in Resolution  BY <1>1, Fields DEF IInv, Resolution
<1>3. op.res <= remote  BY DEF RInv, Reached
<1>4. rs' = [rs EXCEPT ![used + 1] = r] /\ run'.kind # "write" /\ op.st = "conflict"
  BY DEF StartRecover, Take
<1> HIDE DEF r
<1>5. r.etag <= remote /\ (r.kind = "recover" => op.st = "conflict" /\ r.etag = op.res)
  BY <1>3, <1>4 DEF r
<1> QED  BY <1>2, <1>4, <1>5, StartResolveRecord DEF StartRecover, user, service, provider

LEMMA StartConflictRecord ==
  ASSUME IInv, RInv, NEW pick \in {"local", "remote"}, StartConflict(pick)
  PROVE  RInv'
<1> DEFINE r == [st |-> "submitting", kind |-> "conflicts", pick |-> pick, ver |-> rec.ver,
                 etag |-> state.conflict.etag, seen |-> shown.conflict.etag]
<1>1. shown.conflict.etag \in Etag /\ state.conflict.etag \in Etag
  BY Fields DEF IInv, Types, Page, Conflict
<1>2. r \in Resolution  BY <1>1, Fields DEF IInv, Resolution
<1>3. state.conflict.etag <= remote  BY DEF RInv, Reached
<1>4. rs' = [rs EXCEPT ![used + 1] = r] /\ run'.kind # "write" /\ state.conflict.on
  BY DEF StartConflict, Take
<1> HIDE DEF r
<1>5. r.etag <= remote /\ r.kind = "conflicts"
  BY <1>3 DEF r
<1> QED  BY <1>2, <1>4, <1>5, StartResolveRecord DEF StartConflict, user, service, provider

\* What a failed operation leaves of its row, for the record.
LEMMA FailRecord ==
  ASSUME IInv, RInv, run.pc \in Active, NEW st \in {"unknown", "rejected"}, Fail(st)
  PROVE  /\ run' = NoRun
         /\ op'.key = op.key /\ op'.ver = op.ver /\ op'.base = op.base /\ op'.res = op.res
         /\ op' = op \/ (Writing /\ op'.st = st)
<1>1. run' = NoRun  BY DEF Fail, End
<1>2. CASE run.kind = "write"
  <2>1. op' = [op EXCEPT !.st = st] /\ Writing  BY <1>2 DEF Fail, RInv, Based
  <2> QED  BY <1>1, <2>1 DEF IInv, Types, Operation
<1>3. CASE run.kind # "write"  BY <1>1, <1>3 DEF Fail
<1> QED  BY <1>2, <1>3

\* The status of the write changes, or of a service row that is not accepted.
LEMMA StatusRecord ==
  ASSUME IInv, RInv,
         UNCHANGED <<rec, patch, used, rs, state, batch, remote>>,
         op'.key = op.key /\ op'.ver = op.ver /\ op'.base = op.base /\ op'.res = op.res,
         op' = op \/ (Writing /\ op'.st \in {"unknown", "rejected"}),
         run'.pc \in Active => run'.kind = run.kind /\ run.pc \in Active /\ op' = op,
         \A k \in Key : sw'[k].etag = sw[k].etag,
         \A k \in Key : sw'[k].st = "accepted" => sw[k].st = "accepted",
         \A k \in Key : k > used => sw'[k].st = "none",
         svc' = svc \/ svc' = NoSvc
           \/ (~svc.at /\ ~batch.on /\ run.pc \in Active /\ svc'.ans = "none" /\ svc'.etag = 0)
  PROVE  RInv'
<1>0. Types /\ 0 <= remote  BY Numbers DEF IInv
<1>1. /\ svc'.etag <= remote /\ (svc'.ans = "accepted" => svc' = svc)
      /\ svc'.at => svc.at \/ (~batch.on /\ run.pc \in Active)
  BY <1>0 DEF RInv, Reached, NoSvc
<1>2. Reached'
  BY <1>0, <1>1 DEF RInv, Reached
<1>3. Newest'
  <2>1. \A e : AtMost(e) => AtMost(e)'
    BY DEF AtMost
  <2> QED  BY <1>1, <2>1 DEF RInv, Newest, AtMost
<1>4. Batched' /\ Picked'
  BY <1>1 DEF RInv, Batched, Picked
<1>5. Based'
  <2>1. Writing' => Writing  BY DEF Writing
  <2>2. Writing' => op.key \in Key
    BY <2>1 DEF Writing, IInv, OpKeyed
  <2> QED  BY <1>0, <1>1, <2>1, <2>2 DEF RInv, Based, Writing
<1>6. Owned'
  <2>1. op.st = "none" => op' = op  BY DEF Writing
  <2>2. (op'.st = "none" <=> op.st = "none") /\ (op'.st = "completed" => op.st = "completed")
    BY DEF Writing
  <2> QED  BY <1>0, <1>1, <2>2 DEF RInv, Owned
<1> QED  BY <1>2, <1>3, <1>4, <1>5, <1>6 DEF RInv

LEMMA CallWriteRecord ==
  ASSUME IInv, RInv, CallWrite
  PROVE  RInv'
<1>0. run.pc \in Active /\ run.key \in Key /\ sw \in [Key -> Write]
  BY DEF IInv, RunKeyed, Types, CallWrite, Active
<1>1. CASE UNCHANGED <<svc, sw>> /\ \E st \in {"unknown", "rejected"} : Fail(st)
  <2>1. PICK st \in {"unknown", "rejected"} : Fail(st)  BY <1>1
  <2>2. /\ run' = NoRun
        /\ op'.key = op.key /\ op'.ver = op.ver /\ op'.base = op.base /\ op'.res = op.res
        /\ op' = op \/ (Writing /\ op'.st = st)
    BY <1>0, <2>1, FailRecord
  <2>3. \A k \in Key : k > used => sw[k].st = "none"  BY DEF RInv, Picked
  <2> QED  BY <1>1, <2>2, <2>3, StatusRecord DEF CallWrite, user, NoRun, Active
<1>2. CASE UNCHANGED <<op, svc, sw>> /\ run' = [run EXCEPT !.pc = "commit"]
  <2>1. \A k \in Key : k > used => sw[k].st = "none"  BY DEF RInv, Picked
  <2>2. run'.kind = run.kind  BY <1>2 DEF IInv, Types, Run
  <2> QED  BY <1>0, <1>2, <2>1, <2>2, StatusRecord DEF CallWrite, user
<1>3. CASE Submit /\ ~Refused /\ UNCHANGED op
  <2>1. run'.kind = run.kind  BY <1>3 DEF Submit, IInv, Types, Run
  <2>2. \A k \in Key : /\ sw'[k].etag = sw[k].etag
                       /\ k # run.key => sw'[k] = sw[k]
                       /\ sw'[run.key].st = "submitting"
    BY <1>0, <1>3 DEF Submit, Write
  <2>3. run.key <= used  BY DEF IInv, OpKeyed
  <2>4. \A k \in Key : k > used => sw'[k].st = "none"
    BY <1>0, <2>2, <2>3, Numbers DEF RInv, Picked, IInv
  <2>5. ~svc.at /\ ~batch.on /\ svc'.ans = "none" /\ svc'.etag = 0
    BY <1>3 DEF Submit, Refused
  <2> QED  BY <1>0, <1>3, <2>1, <2>2, <2>4, <2>5, StatusRecord DEF CallWrite, user
<1> QED  BY <1>1, <1>2, <1>3 DEF CallWrite

LEMMA LoseRecord ==
  ASSUME IInv, RInv, Lose
  PROVE  RInv'
<1>0. svc.at /\ svc.key \in Key /\ sw \in [Key -> Write] /\ svc.key <= used
  BY DEF IInv, LockKeyed, OpKeyed, Types, Lose
<1>1. PICK st \in {"unknown", "rejected"} : sw' = [sw EXCEPT ![svc.key].st = st]
  BY DEF Lose
<1>2. \A k \in Key : /\ sw'[k].etag = sw[k].etag
                     /\ k # svc.key => sw'[k] = sw[k]
                     /\ sw'[svc.key].st = st
  BY <1>0, <1>1 DEF Write
<1>3. \A k \in Key : k > used => sw'[k].st = "none"
  BY <1>0, <1>2, Numbers DEF RInv, Picked, IInv
<1>4. /\ op'.key = op.key /\ op'.ver = op.ver /\ op'.base = op.base /\ op'.res = op.res
      /\ op' = op \/ (Writing /\ op'.st = "unknown")
      /\ run' = NoRun \/ UNCHANGED <<op, run>>
  <2>1. CASE Waiting
    BY <2>1, FailRecord DEF Lose, Report, Waiting, Active
  <2> QED  BY <2>1 DEF Lose, Report
<1> QED  BY <1>1, <1>2, <1>3, <1>4, StatusRecord DEF Lose, user, provider, NoRun, Active

LEMMA FinishRecord ==
  ASSUME IInv, RInv, Finish
  PROVE  RInv'
<1>0. /\ svc.at /\ svc.key \in Key /\ sw \in [Key -> Write] /\ svc.key <= used
      /\ rs[svc.key].st = "none" \/ rs[svc.key].pick = "local"
      /\ Types /\ ~batch.on /\ batch = NoBatch
  BY DEF IInv, LockKeyed, OpKeyed, Types, Finish, RInv, Batched
<1>1. CASE svc.ans # "accepted"
  <2>1. sw' = [sw EXCEPT ![svc.key].st = "rejected"]  BY <1>1 DEF Finish
  <2>2. \A k \in Key : /\ sw'[k].etag = sw[k].etag
                       /\ k # svc.key => sw'[k] = sw[k]
                       /\ sw'[svc.key].st = "rejected"
    BY <1>0, <2>1 DEF Write
  <2>3. \A k \in Key : k > used => sw'[k].st = "none"
    BY <1>0, <2>2, Numbers DEF RInv, Picked, IInv
  <2>4. /\ op'.key = op.key /\ op'.ver = op.ver /\ op'.base = op.base /\ op'.res = op.res
        /\ op' = op \/ (Writing /\ op'.st = "rejected")
        /\ run' = NoRun \/ UNCHANGED <<op, run>>
    <3>1. CASE Waiting
      BY <1>1, <3>1, FailRecord DEF Finish, Report, Waiting, Active
    <3> QED  BY <1>1, <3>1 DEF Finish, Report
  <2> QED  BY <1>1, <2>2, <2>3, <2>4, StatusRecord DEF Finish, user, provider, NoRun, Active
<1>2. CASE svc.ans = "accepted"
  <2>1. /\ sw' = [sw EXCEPT ![svc.key] = [st |-> "accepted", etag |-> svc.etag]]
        /\ state'.wb = svc.etag /\ state'.conflict = NoConflict /\ svc' = NoSvc
        /\ UNCHANGED <<rec, patch, used, op, rs, batch, remote>>
        /\ run' = run \/ (run' = [run EXCEPT !.pc = "commit"] /\ run.pc = "wait")
    BY <1>2 DEF Finish, Settled, user, provider, Waiting
  <2>2. sw'[svc.key].etag = svc.etag /\ \A k \in Key : k # svc.key => sw'[k] = sw[k]
    BY <1>0, <2>1
  <2>3. AtMost(svc.etag) /\ svc.etag \in Nat /\ svc.etag <= remote
    BY <1>0, <1>2, Numbers DEF RInv, Newest, Reached
  <2>4. Reached'
    BY <1>0, <2>1, <2>2, <2>3, Numbers DEF RInv, Reached, NoConflict, NoSvc
  <2>5. Newest'
    <3>1. /\ rec'.etag <= svc.etag
          /\ op'.st = "conflict" => op'.res <= svc.etag
          /\ \A k \in Key : sw'[k].st = "accepted" => sw'[k].etag <= svc.etag
          /\ \A k \in Key : rs'[k].st # "none" /\ rs'[k].kind = "recover" => rs'[k].etag <= svc.etag
      BY <2>1, <2>2, <2>3 DEF AtMost
    <3> QED  BY <1>0, <2>1, <3>1 DEF Newest, AtMost, NoSvc, NoBatch
  <2>6. Batched'
    BY <1>0, <2>1 DEF Batched, NoBatch, NoSvc
  <2>7. Picked'
    BY <1>0, <2>1, <2>2, Numbers DEF RInv, Picked
  <2>8. Based'
    <3>1. run'.pc \in Active /\ run'.kind = "write" => run.pc \in Active /\ run.kind = "write"
      BY <1>0, <2>1 DEF Active, Types, Run
    <3>2. Writing => op.key \in Key  BY DEF Writing, IInv, OpKeyed
    <3> QED  BY <1>0, <1>2, <2>1, <2>2, <3>1, <3>2 DEF RInv, Based, Writing, NoSvc
  <2>9. Owned'
    BY <1>0, <2>1 DEF RInv, Owned
  <2> QED  BY <2>4, <2>5, <2>6, <2>7, <2>8, <2>9 DEF RInv
<1> QED  BY <1>1, <1>2

LEMMA CallRemoteRecord ==
  ASSUME IInv, RInv, CallRemote
  PROVE  RInv'
<1> DEFINE k == run.key
           e == rs[k].etag
<1>0. /\ run.pc \in Active /\ k \in Key /\ sw \in [Key -> Write] /\ Types
      /\ rs[k].st # "none" /\ rs[k].kind = run.kind /\ rs[k].pick = "remote" /\ k <= used
      /\ run.kind \in {"recover", "conflicts"} /\ e <= remote
  <2>1. run.pc \in Active /\ Types /\ k <= used  BY DEF IInv, OpKeyed, CallRemote, Active
  <2>2. k \in Key /\ rs[k].st # "none" /\ rs[k].kind = run.kind
    BY <2>1 DEF IInv, RunKeyed, CallRemote
  <2>3. rs[k].kind \in {"recover", "conflicts"}  BY <2>2 DEF IInv, Types, Resolution
  <2> QED  BY <2>1, <2>2, <2>3 DEF IInv, Types, RInv, Reached, CallRemote
<1>1. \A j \in Key : j > used => sw[j].st = "none"  BY DEF RInv, Picked
<1>2. CASE run.kind = "conflicts" /\ sw[k].st # "accepted" /\ (Refused \/ ~Open)
  <2>1. UNCHANGED <<sw, state>> /\ run' = NoRun  BY <1>2 DEF CallRemote, End
  <2> QED  BY <1>1, <2>1, StatusRecord DEF CallRemote, user, provider, NoRun, Active
<1>3. CASE \/ run.kind = "recover" \/ sw[k].st = "accepted"
           \/ (run.kind = "conflicts" /\ sw[k].st # "accepted" /\ ~Refused /\ Open)
  <2>1. /\ sw' = [sw EXCEPT ![k] = [st |-> "accepted", etag |-> e]]
        /\ run' = [run EXCEPT !.pc = "commit"]
        /\ UNCHANGED <<rec, patch, used, op, rs, svc, batch, remote>>
        /\ \/ UNCHANGED state /\ (run.kind = "recover" \/ sw[k].st = "accepted")
           \/ state' = Settled(0, state.known) /\ ~Refused
    BY <1>0, <1>3 DEF CallRemote, user, provider
  <2>2. sw'[k].st = "accepted" /\ sw'[k].etag = e /\ \A j \in Key : j # k => sw'[j] = sw[j]
    BY <1>0, <2>1
  <2>3. run'.pc = "commit" /\ run'.kind = run.kind /\ run'.key = k
    BY <1>0, <2>1 DEF Types, Run
  <2>4. Reached'
    BY <1>0, <2>1, <2>2, Numbers DEF RInv, Reached, Settled, NoConflict
  <2>5. Newest'
    <3>1. CASE state' = Settled(0, state.known) /\ ~Refused
      <4>1. svc.ans = "none" /\ ~batch.has
        BY <3>1 DEF Refused, IInv, LockKeyed, Types, Service, RInv, Batched, NoBatch
      <4> QED  BY <2>1, <3>1, <4>1 DEF Newest, Settled
    <3>2. CASE UNCHANGED state /\ (run.kind = "recover" \/ sw[k].st = "accepted")
      <4>1. \A v : AtMost(v) => AtMost(v)'
        BY <1>0, <2>1, <2>2, <3>2 DEF AtMost, RInv, Picked
      <4> QED  BY <2>1, <3>2, <4>1 DEF RInv, Newest, AtMost
    <3> QED  BY <2>1, <3>1, <3>2
  <2>6. Batched'
    BY <2>1 DEF RInv, Batched, Settled, Refused, NoBatch
  <2>7. Picked'
    BY <1>0, <2>1, <2>2, Numbers DEF RInv, Picked
  <2>8. Based'
    <3>1. Writing => op.key # k  BY <1>0 DEF Writing, IInv, OpKeyed
    <3>2. Writing => op.key \in Key  BY DEF Writing, IInv, OpKeyed
    <3> QED  BY <1>0, <2>1, <2>2, <2>3, <3>1, <3>2 DEF RInv, Based, Writing
  <2>9. Owned'
    BY <1>0, <2>1 DEF RInv, Owned, Active
  <2> QED  BY <2>4, <2>5, <2>6, <2>7, <2>8, <2>9 DEF RInv
<1> QED  BY <1>0, <1>2, <1>3

LEMMA ServeRecord ==
  ASSUME IInv, RInv, NEW r \in wire, Serve(r)
  PROVE  RInv'
<1>0. Types /\ remote \in Nat  BY Numbers DEF IInv
<1>1. PICK ans \in {"accepted", "rejected"}, etag \in {0, remote + 1} :
        /\ Answer(r, ans, etag) /\ etag <= remote' /\ (ans = "accepted" => etag = remote + 1)
        /\ remote' \in {remote, remote + 1}
  BY <1>0 DEF Serve
<1>2. \/ svc' = svc
      \/ svc.at /\ svc' = [at |-> TRUE, key |-> r.key, ans |-> ans, etag |-> etag]
  BY <1>1 DEF Answer
<1>3. UNCHANGED <<rec, patch, used, op, rs, run, sw, state, batch>>
  BY DEF Serve, user, gateway
<1>4. Reached'
  BY <1>0, <1>1, <1>2, <1>3, Numbers DEF RInv, Reached
<1>5. Newest'
  <2>1. AtMost(remote + 1)
    BY <1>0, Numbers DEF RInv, Reached, AtMost
  <2> QED  BY <1>1, <1>2, <1>3, <2>1 DEF RInv, Newest, AtMost
<1>6. Batched' /\ Picked' /\ Owned'
  BY <1>2, <1>3 DEF RInv, Batched, Picked, Owned
<1>7. Based'
  <2>1. op.base <= remote + 1  BY <1>0, Numbers DEF RInv, Reached
  <2> QED  BY <1>1, <1>2, <1>3, <2>1 DEF RInv, Based, Writing
<1> QED  BY <1>4, <1>5, <1>6, <1>7 DEF RInv

LEMMA CommitRecord ==
  ASSUME IInv, RInv, Commit
  PROVE  RInv'
<1> DEFINE e == sw[run.key].etag
<1>0. /\ Types /\ run.pc = "commit" /\ run.key \in Key /\ sw[run.key].st = "accepted"
      /\ e \in Nat /\ e # 0 /\ e <= remote /\ run' = NoRun
      /\ UNCHANGED <<patch, used, svc, sw, state, batch, remote>>
  <2>1. Types /\ run.pc = "commit" /\ run.key \in Key /\ sw[run.key].st = "accepted"
    BY DEF IInv, Commit, RunKeyed, LockKeyed, Active
  <2>2. e \in Nat /\ e # 0  BY <2>1, Numbers DEF IInv, Versions
  <2> QED  BY <2>1, <2>2 DEF RInv, Reached, Commit, End, user, service, provider
<1>1. \/ rec' = rec /\ (Matches => rec.etag = e)
      \/ rec' = [ver |-> rec.ver + 1, etag |-> e, own |-> FALSE]
  BY DEF Commit, Persist
<1>2. \A j \in Key : /\ rs'[j].etag = rs[j].etag /\ rs'[j].kind = rs[j].kind
                     /\ rs'[j].pick = rs[j].pick /\ (rs'[j].st = "none" <=> rs[j].st = "none")
  <2>0. rs \in [Key -> Resolution]  BY <1>0 DEF Types
  <2>1. CASE run.kind = "write"  BY <2>0, <2>1 DEF Commit
  <2>2. CASE run.kind # "write"
    <3>1. PICK st \in {"completed", "conflict"} : rs' = [rs EXCEPT ![run.key].st = st]
      BY <2>2 DEF Commit
    <3>2. rs[run.key].st # "none"  BY <1>0, <2>2 DEF IInv, RunKeyed, Active
    <3> QED  BY <1>0, <2>0, <3>1, <3>2 DEF Resolution
  <2> QED  BY <2>1, <2>2
<1>3. /\ op'.base \in {op.base, rs[run.key].etag}
      /\ op'.res \in {op.res, e} /\ (op'.st = "conflict" => op' = op \/ op'.res = e)
      /\ op' = op \/ op'.st \in {"completed", "conflict"}
      /\ op'.st = "completed" => op' = op \/ rec'.etag = e
  <2>1. CASE Matches /\ run.kind # "conflicts"  BY <1>1, <2>1 DEF Commit
  <2>2. CASE Matches /\ run.kind = "conflicts"  BY <2>2 DEF Commit
  <2>3. CASE ~Matches  BY <2>3 DEF Commit, Base
  <2> QED  BY <2>1, <2>2, <2>3
<1> HIDE DEF e
<1>4. Reached'
  BY <1>0, <1>1, <1>2, <1>3 DEF RInv, Reached
<1>5. Newest'
  <2>1. \A v : AtMost(v) => e <= v  BY <1>0 DEF AtMost, e
  <2>2. \A v : AtMost(v) => AtMost(v)'
    BY <1>0, <1>1, <1>2, <1>3, <2>1 DEF AtMost
  <2> QED  BY <1>0, <2>2 DEF RInv, Newest, AtMost
<1>6. Batched' /\ Picked'
  BY <1>0, <1>2 DEF RInv, Batched, Picked
<1>7. Based'
  <2>1. Writing' => op' = op  BY <1>3 DEF Writing
  <2> QED  BY <1>0, <1>1, <2>1, Numbers DEF RInv, Based, Writing, NoRun, Active
<1>8. Owned'
  <2>1. ~(rec'.etag = 0 /\ op'.st = "none")
    <3>1. op'.st = "none" => op.st = "none"  BY <1>3
    <3>2. rec'.etag = 0 => rec' = rec /\ rec.etag = 0  BY <1>0, <1>1
    <3> QED  BY <1>0, <3>1, <3>2 DEF RInv, Owned, Active
  <2>2. rec'.etag = 0 => op'.st # "completed"
    BY <1>0, <1>1, <1>3 DEF RInv, Owned
  <2> QED  BY <1>0, <1>1, <2>1, <2>2, Numbers DEF RInv, Owned
<1> QED  BY <1>4, <1>5, <1>6, <1>7, <1>8 DEF RInv

LEMMA FetchRecord ==
  ASSUME IInv, RInv, Fetch
  PROVE  RInv'
<1>0. /\ Types /\ run'.pc = "apply" /\ run'.kind = "sync" /\ ~svc.at
      /\ UNCHANGED <<rec, patch, used, op, rs, svc, sw, state, remote>>
  BY DEF IInv, Fetch, user, provider
<1>1. CASE batch' = batch
  BY <1>0, <1>1, LeaseRecord, Numbers DEF Active
<1>2. CASE ~batch.on /\ \E v \in Visible : batch' = Fetched(v)
  <2>1. PICK v \in Visible : batch' = Fetched(v)  BY <1>2
  <2>2. v \in Nat /\ v <= remote /\ (v # remote => state.wb # 0)
    BY <1>0, PimAssumption DEF Visible, Types, State, Etag
  <2>3. CASE ~Listed(v)
    <3>1. /\ batch'.on /\ ~batch'.has /\ batch'.etag = 0 /\ batch'.next.wb = state.wb
          /\ batch'.next.conflict = state.conflict /\ batch'.next.known = state.known
      BY <2>1, <2>3 DEF Fetched
    <3>2. Reached' /\ Newest' /\ Batched'
      BY <1>0, <3>1, Numbers DEF RInv, Reached, Newest, Batched, AtMost
    <3>3. Picked' /\ Based' /\ Owned'
      BY <1>0, <3>1 DEF RInv, Picked, Based, Owned, Writing, Active
    <3> QED  BY <3>2, <3>3 DEF RInv
  <2>4. CASE Listed(v) /\ Pending(v)
    <3>1. /\ batch'.on /\ batch'.has /\ batch'.etag = state.wb /\ batch'.next.wb = state.wb
          /\ batch'.next.conflict \in {state.conflict, [on |-> TRUE, etag |-> v]}
          /\ state.wb # 0
      BY <2>1, <2>4 DEF Fetched, Pending
    <3>2. Reached' /\ Newest' /\ Batched'
      BY <1>0, <2>2, <3>1, Numbers DEF RInv, Reached, Newest, Batched, AtMost
    <3>3. Picked' /\ Based' /\ Owned'
      BY <1>0, <3>1 DEF RInv, Picked, Based, Owned, Writing, Active
    <3> QED  BY <3>2, <3>3 DEF RInv
  <2>5. CASE Listed(v) /\ ~Pending(v)
    <3>1. /\ batch'.on /\ batch'.has = state.known /\ batch'.etag = v /\ batch'.next.wb = 0
          /\ batch'.next.conflict = NoConflict /\ batch'.next.known = state.known
          /\ v # 0 /\ v \in {remote, state.wb} /\ (v = state.wb => state.wb # 0)
      BY <2>1, <2>2, <2>5 DEF Fetched, Pending, Listed
    <3>2. AtMost(v)
      BY <1>0, <3>1, Numbers DEF RInv, Reached, Newest, AtMost
    <3>3. Reached' /\ Newest' /\ Batched'
      BY <1>0, <2>2, <3>1, <3>2, Numbers DEF RInv, Reached, Newest, Batched, AtMost, NoConflict
    <3>4. Picked' /\ Based' /\ Owned'
      BY <1>0, <3>1 DEF RInv, Picked, Based, Owned, Writing, Active, NoConflict
    <3> QED  BY <3>3, <3>4 DEF RInv
  <2> QED  BY <2>3, <2>4, <2>5
<1> QED  BY <1>1, <1>2 DEF Fetch

LEMMA ApplyBatchRecord ==
  ASSUME IInv, RInv, ApplyBatch
  PROVE  RInv'
<1>0. /\ Types /\ run' = NoRun /\ state' = batch.next /\ batch' = NoBatch
      /\ UNCHANGED <<patch, used, op, rs, svc, sw, remote>>
  BY DEF IInv, ApplyBatch, End, user, provider
<1>1. \/ rec' = rec
      \/ batch.has /\ rec' = [ver |-> rec.ver + 1, etag |-> batch.etag, own |-> FALSE]
  BY DEF ApplyBatch, Persist
<1>2. Reached'
  BY <1>0, <1>1, Numbers DEF RInv, Reached, NoBatch, NoConflict
<1>3. Newest'
  <2>1. batch.has => batch.on  BY DEF RInv, Batched, NoBatch
  <2>2. svc.ans = "accepted" => ~batch.has  BY <2>1 DEF RInv, Batched, IInv, LockKeyed
  <2>3. batch.next.wb # 0 => batch.next.wb = state.wb  BY DEF RInv, Batched
  <2>4. batch.has /\ batch.next.wb # 0 => batch.etag = state.wb  BY DEF RInv, Batched
  <2>5. state.wb \in Nat /\ batch.etag \in Nat  BY <1>0, Numbers
  <2>6. state'.wb # 0 => AtMost(state.wb)'
    BY <1>0, <1>1, <2>3, <2>4, <2>5 DEF RInv, Newest, AtMost
  <2>7. svc'.ans = "accepted" => AtMost(svc.etag)'
    BY <1>0, <1>1, <2>2 DEF RInv, Newest, AtMost
  <2> QED  BY <1>0, <2>3, <2>6, <2>7 DEF Newest, AtMost, NoBatch
<1>4. Batched' /\ Picked'
  BY <1>0 DEF RInv, Batched, Picked, NoBatch
<1>5. Based'
  BY <1>0, <1>1, Numbers DEF RInv, Based, Writing, NoRun, Active
<1>6. Owned'
  <2>1. rec'.etag = 0 => rec' = rec  BY <1>1 DEF RInv, Batched
  <2>2. batch.next.wb # 0 => batch.next.wb = state.wb  BY DEF RInv, Batched
  <2> QED  BY <1>0, <1>1, <2>1, <2>2, Numbers DEF RInv, Owned, NoRun, NoBatch, Active, NoConflict
<1> QED  BY <1>2, <1>3, <1>4, <1>5, <1>6 DEF RInv

LEMMA NextRecord == IInv /\ RInv /\ [Next]_vars => RInv'
<1> SUFFICES ASSUME IInv, RInv, [Next]_vars PROVE RInv'  OBVIOUS
<1>0. Types /\ remote \in Nat  BY Numbers DEF IInv
<1>1. CASE UNCHANGED vars
  BY <1>0, <1>1, AsideRecord DEF vars, gateway, service, provider, user
<1>2. CASE Next
  <2>1. CASE Load \/ TwoMinutes \/ PatchChecked
    BY <1>0, <2>1, AsideRecord DEF Load, TwoMinutes, PatchChecked, gateway, service, provider, user
  <2>2. CASE RemoteEdit
    BY <1>0, <2>2, AsideRecord DEF RemoteEdit, gateway, service, provider, user
  <2>3. CASE PatchLands \/ StartWrite \/ RetryWrite
    BY <2>3, PatchLandsRecord, StartWriteRecord, RetryWriteRecord
  <2>4. CASE \E pick \in {"local", "remote"} : StartRecover(pick) \/ StartConflict(pick)
    BY <2>4, StartRecoverRecord, StartConflictRecord
  <2>5. CASE \E k \in Key : RetryResolve(k)
    BY <2>5, RetryResolveRecord
  <2>6. CASE CallWrite \/ CallRemote \/ Finish \/ Lose \/ Crash \/ Commit
    BY <2>6, CallWriteRecord, CallRemoteRecord, FinishRecord, LoseRecord, CrashRecord, CommitRecord
  <2>7. CASE Sync
    BY <2>7, FetchRecord, ApplyBatchRecord DEF Sync
  <2>8. CASE \E r \in wire : Serve(r)
    BY <2>8, ServeRecord
  <2> QED  BY <1>2, <2>1, <2>2, <2>3, <2>4, <2>5, <2>6, <2>7, <2>8 DEF Next
<1> QED  BY <1>1, <1>2

\* The two action properties, from the invariant: of the steps that write the
\* record, a commit of a write is of a later version than the record had, and a
\* batch replaces no edit that the provider never had.
LEMMA StepKeepsOwn ==
  ASSUME IInv, RInv, Next, rec.own, ~rec'.own, op.st # "rejected"
  PROVE  run.pc = "commit" /\ Version = rec.ver
<1>0. Types /\ rec.etag = 0  BY DEF IInv, RInv, Owned
<1>1. CASE Commit  BY <1>1 DEF Commit, Matches
<1>2. CASE ApplyBatch
  <2>1. batch.has /\ ~Locked  BY <1>2 DEF ApplyBatch, Skip
  <2>2. op.st = "none"  BY <1>0, <2>1 DEF Locked, Types, Operation, RInv, Owned
  <2> QED  BY <1>0, <2>1, <2>2 DEF RInv, Owned
<1>3. CASE PatchLands  BY <1>3 DEF PatchLands
<1> QED
  BY <1>1, <1>2, <1>3 DEF Next, Sync, Load, PatchChecked, RemoteEdit, TwoMinutes, StartWrite,
     RetryWrite, StartRecover, StartConflict, RetryResolve, CallWrite, CallRemote, Finish,
     Lose, Crash, Fetch, Serve

LEMMA StepKeepsVersion ==
  ASSUME IInv, RInv, Next, rec'.etag < rec.etag
  PROVE  run.kind \in {"recover", "conflicts"}
<1>0. Types /\ rec.etag \in Nat  BY Numbers DEF IInv
<1>1. CASE Commit
  <2>1. /\ Matches /\ rec'.etag = sw[run.key].etag
        /\ run.pc \in Active /\ run.key \in Key /\ sw[run.key].st = "accepted"
    <3>1. run.pc = "commit"  BY <1>1 DEF Commit
    <3>2. rec'.etag = sw[run.key].etag /\ Matches
      BY <1>0, <1>1 DEF Commit, Persist
    <3> QED  BY <3>1, <3>2 DEF IInv, RunKeyed, LockKeyed, Active
  <2>2. CASE run.kind = "write"
    <3>1. op.key = run.key /\ Writing /\ op.ver = rec.ver
      BY <2>1, <2>2 DEF IInv, RunKeyed, RInv, Based, Matches, Version
    <3>2. op.base = rec.etag /\ op.base <= sw[run.key].etag
      BY <2>1, <3>1 DEF RInv, Based
    <3> QED  BY <1>0, <2>1, <3>2, Numbers
  <2>3. CASE run.kind # "write"
    BY <1>0, <2>1, <2>3 DEF IInv, RunKeyed, Types, Resolution
  <2> QED  BY <2>2, <2>3
<1>2. CASE ApplyBatch
  <2>1. batch.has /\ rec'.etag = batch.etag  BY <1>0, <1>2 DEF ApplyBatch, Persist
  <2> QED  BY <1>0, <2>1, Numbers DEF RInv, Newest, AtMost
<1>3. CASE PatchLands  BY <1>0, <1>3 DEF PatchLands
<1>4. rec' = rec \/ Commit \/ ApplyBatch \/ PatchLands
  BY DEF Next, Sync, Load, PatchChecked, RemoteEdit, TwoMinutes, StartWrite,
     RetryWrite, StartRecover, StartConflict, RetryResolve, CallWrite, CallRemote, Finish,
     Lose, Crash, Fetch, Serve
<1> QED  BY <1>0, <1>1, <1>2, <1>3, <1>4

\* However long listings lag behind accepted writes, and wherever a crash, a lost
\* answer or a late one falls: a synchronisation never takes an edit that the
\* provider never had, and neither it nor a write takes the record back to an older
\* version.
THEOREM RecordIsKept == Spec => RecordKept
<1>1. Init => RInv  BY InitRecord
<1>2. IInv /\ RInv /\ [Next]_vars => RInv'  BY NextRecord
<1>3. IInv /\ RInv /\ [Next]_vars =>
        [rec.own /\ ~rec'.own /\ op.st # "rejected" => run.pc = "commit" /\ Version = rec.ver]_vars
  BY StepKeepsOwn
<1>4. IInv /\ RInv /\ [Next]_vars =>
        [rec'.etag < rec.etag => run.kind \in {"recover", "conflicts"}]_vars
  BY StepKeepsVersion
<1>5. Spec => LocalKept
  BY <1>1, <1>2, <1>3, Invariant, PTL DEF Spec, LocalKept
<1>6. Spec => NeverBack
  BY <1>1, <1>2, <1>4, Invariant, PTL DEF Spec, NeverBack
<1> QED  BY <1>5, <1>6 DEF RecordKept

=============================================================================
