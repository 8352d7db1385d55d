------------------------------- MODULE Offline -------------------------------
(* The queue of record edits a connected browser profile keeps in IndexedDB   *)
(* (public/offline.js, public/runtime.js), replayed in order against the API  *)
(* server, which makes a request with an idempotency key safe to repeat       *)
(* (backend/server.js) over versioned records (server/engine.js).  All tabs   *)
(* of the profile share the queue; a Web Lock lets one of them replay it.     *)
(* Answers are lost, requests arrive late, tabs close and the server crashes  *)
(* between any two of its steps.  Records are written by other people too.    *)
(* Not modelled: cached reads, attachments, permissions withdrawn meanwhile,  *)
(* requests that outlive the three minutes of their lease.                    *)
EXTENDS Naturals

CONSTANTS MaxKeys,     \* bound: mutation ids given out
          MaxEdits,    \* bound: of those, edits that are not replacements
          MaxVersion,  \* bound: versions of a record that others write
          MaxFaults    \* bound: lost requests, closed tabs, server crashes

ASSUME OfflineAssumption ==
  MaxKeys \in Nat /\ MaxEdits \in 0..MaxKeys /\ MaxVersion \in Nat /\ MaxFaults \in Nat

VARIABLES
  stored,    \* object store `pending`: the mutations in it
  entry,     \* what each mutation asks for, with its place and its status
  used,      \* mutation ids given out so far
  sequence,  \* object store `meta`: the last place in the queue given out
  list,      \* what the replay has left of the queue it read when it began
  req,       \* the request each mutation has under way, and an abandoned one
  rec,       \* records
  ops,       \* api_operations: what is stored under each idempotency key
  lease,     \* who holds the cluster lease of each idempotency key
  applied,   \* history: how often each mutation was applied
  waived,    \* history: mutations the user discarded or replaced
  overtook,  \* history: mutations applied before an older one in the queue
  faults, crashed

client == <<stored, entry, used, sequence, list, waived>>
server == <<rec, ops, lease, applied, overtook>>
vars == <<client, server, req, faults, crashed>>

-----------------------------------------------------------------------------
Key == 1..MaxKeys
Copy == {"live", "stray"}   \* the request a tab waits for; one nobody waits for
Doc == 0                    \* a record that exists; a POST creates record k
Record == {Doc} \cup Key
Answers == {"ok", "conflict", "missing"}
Status == {"pending", "conflict", "blocked"}
Entry == [method: {"POST", "PATCH", "DELETE"}, id: Record, base: Nat, seq: Nat, status: Status]
NoEntry == [method |-> "POST", id |-> Doc, base |-> 0, seq |-> 0, status |-> "pending"]
Request == [at: {"none", "wire", "routing", "ran", "answered"}, answer: Answers \cup {"busy"}]
Idle == [at |-> "none", answer |-> "ok"]
At(p) == [at |-> p, answer |-> "ok"]
Row == [version: Nat, deleted: BOOLEAN, by: 0..MaxKeys]  \* by: 0 stands for others

TypeOK ==
  /\ stored \subseteq 1..used /\ used \in 0..MaxKeys /\ sequence \in Nat
  /\ entry \in [Key -> Entry]
  /\ list \subseteq 1..used
  /\ req \in [Key -> [Copy -> Request]]
  /\ rec \in [Record -> Row]
  /\ ops \in [Key -> {"none", "open"} \cup Answers]
  /\ lease \in [Key -> {"free", "dead"} \cup Copy]
  /\ applied \in [Key -> Nat]
  /\ waived \subseteq 1..used /\ overtook \subseteq Key
  /\ faults \in 0..MaxFaults /\ crashed \in BOOLEAN

Init ==
  /\ stored = {} /\ used = 0 /\ sequence = 0 /\ list = {}
  /\ entry = [k \in Key |-> NoEntry]
  /\ req = [k \in Key |-> [c \in Copy |-> Idle]]
  /\ rec = [r \in Record |-> [version |-> IF r = Doc THEN 1 ELSE 0, deleted |-> FALSE, by |-> 0]]
  /\ ops = [k \in Key |-> "none"] /\ lease = [k \in Key |-> "free"]
  /\ applied = [k \in Key |-> 0]
  /\ waived = {} /\ overtook = {}
  /\ faults = 0 /\ crashed = FALSE

-----------------------------------------------------------------------------
(* The profile.                                                              *)
\* pending() sorts by sequence.  An edit and the replacements of it share one
\* place; their ids, which are random, order them there.
Older(j, k) == entry[j].seq < entry[k].seq
Pending(r) == {k \in stored : entry[k].id = r}
Visible(r) == rec[r].version > 0 /\ ~rec[r].deleted

\* The versions of record r the page may show: the server's, now or at an
\* earlier load, or what projectPending() makes of the queued edits.
Shown(r) ==
  IF Pending(r) = {} THEN IF Visible(r) THEN 1..rec[r].version ELSE {}
  ELSE {entry[k].base + 1 : k \in {l \in Pending(r) : entry[l].method # "DELETE"
                                        /\ \A j \in Pending(r) : ~Older(l, j)}}

Add(method, r, base) ==
  LET k == used + 1 IN
  /\ used < MaxEdits
  /\ used' = k /\ sequence' = sequence + 1
  /\ entry' = [entry EXCEPT ![k] = [method |-> method, id |-> r, base |-> base,
                                    seq |-> sequence + 1, status |-> "pending"]]
  /\ stored' = stored \cup {k}
  /\ UNCHANGED <<server, req, list, waived, faults, crashed>>

\* call(): the edit is stored before it is sent.
Enqueue ==
  \/ Add("POST", used + 1, 0)
  \/ \E method \in {"PATCH", "DELETE"}, r \in Record :
       \E base \in Shown(r) : Add(method, r, base)

StartFlush ==
  /\ list = {} /\ stored # {}
  /\ list' = stored
  /\ UNCHANGED <<server, req, stored, entry, used, sequence, waived, faults, crashed>>

\* flushQueue() takes the entries one by one in order: an unresolved one ends
\* the replay, any other is sent.
Quiet == \A k \in list : req[k]["live"] = Idle
Due(k) == k \in list /\ \A j \in list : ~Older(j, k)
Stops(k) == entry[k].status \in {"conflict", "blocked"}

Send(k) ==
  /\ Quiet /\ Due(k)
  /\ IF Stops(k) THEN list' = {} /\ UNCHANGED req
     ELSE req' = [req EXCEPT ![k]["live"] = At("wire")] /\ UNCHANGED list
  /\ UNCHANGED <<server, stored, entry, used, sequence, waived, faults, crashed>>

Synced(k) == stored' = stored \ {k} /\ list' = list \ {k} /\ UNCHANGED entry
PersistOnly(k, status) ==
  /\ entry' = [entry EXCEPT ![k].status = status]
  /\ stored' = stored \cup {k}
  /\ list' = list \ {k}
\* persist() is a put: it writes the entry whether or not it is still there.
Persist(k, status) ==
  /\ entry' = [entry EXCEPT ![k].status = status]
  /\ stored' = stored \cup {k}
  /\ list' = {}

StatusOfRaw(answer) == answer
StatusOfRetry(answer) == IF answer = "missing" THEN "blocked" ELSE "pending"
StatusOf(answer) == IF answer \in {"conflict", "busy"} THEN "conflict" ELSE "blocked"

Outcome(k, answer) == IF answer = "ok" THEN Synced(k) ELSE Persist(k, StatusOf(answer))

Settle(k) ==
  /\ req[k]["live"].at = "answered"
  /\ Outcome(k, req[k]["live"].answer)
  /\ req' = [req EXCEPT ![k]["live"] = Idle]
  /\ UNCHANGED <<server, used, sequence, waived, faults, crashed>>

\* The connection fails: the request or its answer vanishes, or it goes on and
\* is answered to nobody.
Lose(k) ==
  /\ \/ req[k]["live"].at \in {"wire", "answered"} /\ req' = [req EXCEPT ![k]["live"] = Idle]
     \/ req[k]["live"].at \in {"wire", "routing", "ran"} /\ req[k]["stray"] = Idle
        /\ req' = [req EXCEPT ![k] = [c \in Copy |-> IF c = "live" THEN Idle ELSE req[k]["live"]]]
  /\ lease' = [lease EXCEPT ![k] = IF @ = "live" THEN "stray" ELSE @]

LoseRequest(k) ==
  /\ faults < MaxFaults /\ faults' = faults + 1
  /\ Lose(k) /\ Persist(k, "pending")
  /\ UNCHANGED <<rec, ops, applied, overtook, used, sequence, waived, crashed>>

\* The tab that replays closes; the lock passes on with the next replay.
CloseTab ==
  /\ list # {} /\ faults < MaxFaults /\ faults' = faults + 1
  /\ list' = {}
  /\ \/ Quiet /\ UNCHANGED <<req, lease>>
     \/ \E k \in list : req[k]["live"] # Idle /\ Lose(k)
  /\ UNCHANGED <<rec, ops, applied, overtook, stored, entry, used, sequence, waived, crashed>>

\* The user reviews an entry: discards it, or sends it again over the latest
\* version with a new idempotency key and in its old place.
Discard(k) ==
  /\ k \in stored
  /\ stored' = stored \ {k} /\ waived' = waived \cup {k}
  /\ UNCHANGED <<server, req, entry, used, sequence, list, faults, crashed>>

Resolve(k) ==
  LET n == used + 1 IN
  /\ k \in stored /\ entry[k].method # "POST" /\ Visible(entry[k].id)
  /\ used < MaxKeys /\ used' = n
  /\ entry' = [entry EXCEPT ![n] = [method |-> entry[k].method, id |-> entry[k].id,
                                    base |-> rec[entry[k].id].version,
                                    seq |-> entry[k].seq, status |-> "pending"]]
  /\ stored' = (stored \ {k}) \cup {n} /\ waived' = waived \cup {k}
  /\ UNCHANGED <<server, req, sequence, list, faults, crashed>>

-----------------------------------------------------------------------------
(* The API server.                                                           *)
Free(k, c) == [lease EXCEPT ![k] = IF @ = c THEN "free" ELSE @]
Reply(k, c, answer) ==
  req' = [req EXCEPT ![k][c] = IF c = "live" THEN [at |-> "answered", answer |-> answer]
                               ELSE Idle]

\* A repeated request whose first run crashed: the record tells if it wrote.
\* (The patch is compared field by field: `by` stands for the values.)
Recovered(k) ==
  LET e == entry[k] r == rec[e.id] IN
  /\ ops[k] = "open" /\ r.version > 0
  /\ \/ e.method = "POST"
     \/ e.method = "PATCH" /\ r.version = e.base + 1 /\ r.by = k
     \/ e.method = "DELETE" /\ r.deleted /\ r.version = e.base + 1

ReplayedNever(k) == FALSE
Replayed(k) == ops[k] \in Answers

Arrive(k, c) ==
  /\ req[k][c].at = "wire"
  /\ IF lease[k] # "free" THEN Reply(k, c, "busy") /\ UNCHANGED <<ops, lease>>
     ELSE IF Replayed(k) THEN Reply(k, c, ops[k]) /\ UNCHANGED <<ops, lease>>
     ELSE IF Recovered(k) THEN Reply(k, c, "ok") /\ UNCHANGED <<ops, lease>>
     ELSE /\ req' = [req EXCEPT ![k][c] = At("routing")]
          /\ ops' = [ops EXCEPT ![k] = "open"]
          /\ lease' = [lease EXCEPT ![k] = c]
  /\ UNCHANGED <<client, rec, applied, overtook, faults, crashed>>

\* The record the request would leave, by the engine's versioned statements.
Target(k) ==
  LET e == entry[k] r == rec[e.id] IN
  [version |-> r.version + 1, deleted |-> e.method = "DELETE", by |-> k]
Verdict(k) ==
  LET e == entry[k] r == rec[e.id] IN
  IF e.method = "POST" THEN IF r.version = 0 THEN "ok" ELSE "conflict"
  ELSE IF ~Visible(e.id) THEN "missing"
  ELSE IF r.version = e.base THEN "ok" ELSE "conflict"

\* An edit and the replacements of it share one place in the queue.
Achieved(j) ==
  \/ \E i \in 1..used : entry[i].seq = entry[j].seq /\ applied[i] > 0
  \/ entry[j].method = "DELETE" /\ rec[entry[j].id].deleted

Route(k, c) ==
  /\ req[k][c].at = "routing"
  /\ req' = [req EXCEPT ![k][c] = [at |-> "ran", answer |-> Verdict(k)]]
  /\ IF Verdict(k) = "ok"
     THEN /\ rec' = [rec EXCEPT ![entry[k].id] = Target(k)]
          /\ applied' = [applied EXCEPT ![k] = @ + 1]
          /\ overtook' = IF \E j \in stored : Older(j, k) /\ ~Achieved(j)
                         THEN overtook \cup {k} ELSE overtook
     ELSE UNCHANGED <<rec, applied, overtook>>
  /\ UNCHANGED <<client, ops, lease, faults, crashed>>

Finish(k, c) ==
  /\ req[k][c].at = "ran"
  /\ ops' = [ops EXCEPT ![k] = req[k][c].answer]
  /\ lease' = Free(k, c)
  /\ Reply(k, c, req[k][c].answer)
  /\ UNCHANGED <<client, rec, applied, overtook, faults, crashed>>

\* The process dies with the requests it works on; their leases stay until
\* they expire and their senders see the connection break.
Working(k, c) == req[k][c].at \in {"routing", "ran"}
Crash ==
  /\ faults < MaxFaults /\ faults' = faults + 1 /\ crashed' = TRUE
  /\ \E k \in Key, c \in Copy : Working(k, c)
  /\ lease' = [k \in Key |-> IF lease[k] \in Copy THEN "dead" ELSE lease[k]]
  /\ req' = [k \in Key |-> [c \in Copy |-> IF Working(k, c) THEN Idle ELSE req[k][c]]]
  /\ \/ \E k \in Key : Working(k, "live") /\ Persist(k, "pending")
     \/ ~(\E k \in Key : Working(k, "live")) /\ UNCHANGED <<entry, stored, list>>
  /\ UNCHANGED <<rec, ops, applied, overtook, used, sequence, waived>>

ExpireLease(k) ==
  /\ lease[k] = "dead"
  /\ lease' = [lease EXCEPT ![k] = "free"]
  /\ UNCHANGED <<client, rec, ops, applied, overtook, req, faults, crashed>>

\* Somebody else changes or deletes a record.
OtherWrite(r) ==
  /\ Visible(r) /\ rec[r].version < MaxVersion
  /\ \E gone \in BOOLEAN :
       rec' = [rec EXCEPT ![r] = [version |-> rec[r].version + 1, deleted |-> gone, by |-> 0]]
  /\ UNCHANGED <<client, ops, lease, applied, overtook, req, faults, crashed>>

\* One replay at a time, and the server's work on requests.
Replay == StartFlush \/ \E k \in Key : Send(k) \/ Settle(k)
Serve == \E k \in Key, c \in Copy : Arrive(k, c) \/ Route(k, c) \/ Finish(k, c)

Next ==
  \/ Enqueue \/ Replay \/ Serve \/ CloseTab \/ Crash
  \/ \E k \in Key : LoseRequest(k) \/ Discard(k) \/ Resolve(k) \/ ExpireLease(k)
  \/ OtherWrite(Doc)

Spec == Init /\ [][Next]_vars
FairSpec == Spec /\ WF_vars(Replay) /\ WF_vars(Serve)

-----------------------------------------------------------------------------
\* A mutation takes effect at most once, however often its request is repeated,
\* delayed or interrupted by a crash (server.js, api_operations and recovery).
AppliedOnce == \A k \in Key : applied[k] <= 1

\* A mutation leaves the queue only once its effect is in the record, or because
\* the user discarded or replaced it (offline.js, flushQueue).
NothingLost == \A k \in 1..used :
  k \in stored \/ k \in waived \/ Achieved(k)

\* No mutation takes effect before an older one of the queue that is still
\* unresolved: the replay stops at the first that fails.
NeverOvertaken == overtook = {}

\* What is stored as the answer to a mutation that took effect is its success: a
\* late copy of the request never replaces it by a conflict with itself.  After a
\* crash it may: the recovery cannot recognise a record that others changed since.
AnswersAgree == \A k \in Key :
  applied[k] = 1 /\ ops[k] \in Answers /\ ~crashed => ops[k] = "ok"

\* Repetition never doubles an edit, never drops one, and never makes the user
\* resolve a conflict of an edit with itself.
ExactlyOnce == AppliedOnce /\ NothingLost /\ AnswersAgree

\* A mutation the user discarded or replaced is not sent any more.  The code does
\* not keep this: the replay sends it from the copy of the queue it read when it
\* began (README, known divergences).
DiscardedNotSent ==
  [][\A k \in waived : req[k]["live"] = Idle => req'[k]["live"] = Idle]_vars

Unresolved(k) == \E j \in stored : ~Older(k, j) /\ Stops(j)
\* Again and again a queued mutation has left the queue, or an unresolved one that waits for
\* the user stands at or before it.
EditsSettle == \A k \in Key : []<>(k \notin stored \/ Unresolved(k))
=============================================================================
