---------------------------- MODULE Offline_proofs ----------------------------
(* Proofs about the queue of offline edits and the server that runs them, for  *)
(* every number of mutations, foreign writes and faults.                       *)
EXTENDS Offline, TLAPS

(* The inductive invariant.                                                  *)

\* A place in the queue belongs to one edit and its replacements; an id not
\* given out has left no trace; a creation names its own record.
Places ==
  /\ \A k \in Key : entry[k].seq <= sequence
  /\ \A i, j \in 1..used : entry[i].seq = entry[j].seq =>
       entry[i].method = entry[j].method /\ entry[i].id = entry[j].id
  /\ \A k \in 1..used : entry[k].method = "POST" => entry[k].id = k /\ entry[k].base = 0
  /\ \A k \in Key : k > used =>
       /\ applied[k] = 0 /\ ops[k] = "none"
       /\ \A c \in Copy : req[k][c].at = "none"

\* What a record says of the mutations that took effect in it.
Effects ==
  /\ \A r \in Record : rec[r].deleted => rec[r].version > 0
  /\ \A r \in Record : rec[r].by # 0 => applied[rec[r].by] > 0
  /\ \A r \in Key : rec[r].version > 0 => applied[r] > 0
  /\ \A k \in Key : applied[k] > 0 => rec[entry[k].id].version > entry[k].base

\* The lease of a key is held by the one copy of its request being served.
Served ==
  /\ \A k \in Key, c \in Copy : Working(k, c) <=> lease[k] = c
  /\ \A k \in Key, c \in Copy : Working(k, c) => ops[k] = "open"
  /\ \A k \in Key, c \in Copy : req[k][c].at = "ran" => req[k][c].answer \in Answers
  /\ \A k \in Key : ops[k] = "none" => applied[k] = 0

\* A success is told only of what is achieved.
Earned == \A k \in Key :
  /\ ops[k] = "ok" => Achieved(k)
  /\ \A c \in Copy : req[k][c].at \in {"ran", "answered"} /\ req[k][c].answer = "ok" => Achieved(k)

\* Before the first crash a key's first run is its only one.
FirstRun == ~crashed => \A k \in Key :
  /\ ops[k] = "open" => \E c \in Copy : Working(k, c)
  /\ \A c \in Copy : req[k][c].at = "routing" => applied[k] = 0
  /\ \A c \in Copy : req[k][c].at = "ran" /\ applied[k] > 0 => req[k][c].answer = "ok"
  /\ ops[k] \in Answers /\ applied[k] > 0 => ops[k] = "ok"

\* The replay waits for one request, the first of what it has left.
OneSent == \A k \in Key : req[k]["live"].at # "none" =>
  /\ Due(k)
  /\ \A j \in Key : j # k => req[j]["live"].at = "none"
\* In front of a request not yet routed nothing of the queue is open.
SentInOrder == \A k \in Key, c \in Copy : req[k][c].at \in {"wire", "routing"} =>
  \A j \in stored \cup list : Older(j, k) => Achieved(j)
\* What the replay has left holds every open place before its last one.
CopyComplete == \A j \in stored, k \in list : Older(j, k) =>
  Achieved(j) \/ \E i \in list : entry[i].seq = entry[j].seq

IInv == TypeOK /\ Places /\ Effects /\ AppliedOnce /\ Served /\ Earned /\ FirstRun
        /\ OneSent /\ SentInOrder /\ CopyComplete /\ NothingLost /\ NeverOvertaken

-----------------------------------------------------------------------------
(* What the variables' components are.                                         *)
LEMMA Fields ==
  ASSUME TypeOK
  PROVE  /\ used \in Nat /\ used <= MaxKeys /\ sequence \in Nat /\ 1..used \subseteq Key
         /\ \A k \in Key : /\ entry[k] \in Entry /\ entry[k].method \in {"POST", "PATCH", "DELETE"}
                           /\ entry[k].id \in Record /\ entry[k].base \in Nat
                           /\ entry[k].seq \in Nat /\ entry[k].status \in Status
         /\ \A k \in Key, c \in Copy : /\ req[k][c] \in Request
                                       /\ req[k][c].answer \in Answers \cup {"busy"}
         /\ \A r \in Record : /\ rec[r] \in Row /\ rec[r].version \in Nat
                              /\ rec[r].deleted \in BOOLEAN /\ rec[r].by \in 0..MaxKeys
         /\ \A k \in Key : applied[k] \in Nat
<1> USE DEF TypeOK
<1>1. used \in Nat /\ used <= MaxKeys /\ sequence \in Nat /\ 1..used \subseteq Key
  BY OfflineAssumption DEF Key
<1>2. ASSUME NEW k \in Key
      PROVE  /\ entry[k] \in Entry /\ entry[k].method \in {"POST", "PATCH", "DELETE"}
             /\ entry[k].id \in Record /\ entry[k].base \in Nat
             /\ entry[k].seq \in Nat /\ entry[k].status \in Status
  <2>1. entry[k] \in Entry  OBVIOUS
  <2> QED  BY <2>1 DEF Entry
<1>3. ASSUME NEW k \in Key, NEW c \in Copy
      PROVE  req[k][c] \in Request /\ req[k][c].answer \in Answers \cup {"busy"}
  <2>1. req[k][c] \in Request  OBVIOUS
  <2> QED  BY <2>1 DEF Request
<1>4. ASSUME NEW r \in Record
      PROVE  /\ rec[r] \in Row /\ rec[r].version \in Nat
             /\ rec[r].deleted \in BOOLEAN /\ rec[r].by \in 0..MaxKeys
  <2>1. rec[r] \in Row  OBVIOUS
  <2> QED  BY <2>1 DEF Row
<1> QED  BY <1>1, <1>2, <1>3, <1>4

LEMMA Constructed ==
  /\ \A p \in {"none", "wire", "routing", "ran", "answered"} : \A a \in Answers \cup {"busy"} :
       [at |-> p, answer |-> a] \in Request
  /\ \A p \in {"none", "wire", "routing", "ran", "answered"} :
       At(p) \in Request /\ At(p).at = p /\ At(p).answer = "ok"
  /\ Idle \in Request /\ Idle.at = "none" /\ Idle.answer = "ok"
  /\ At("wire") # Idle
BY DEF Request, At, Idle, Answers

(* What every step leaves of the edits and the records: an edit keeps what it  *)
(* asks for, versions grow and a deleted record stays deleted.                 *)
Grows ==
  /\ used <= used' /\ sequence <= sequence'
  /\ \A k \in 1..used : /\ entry'[k].method = entry[k].method /\ entry'[k].id = entry[k].id
                        /\ entry'[k].base = entry[k].base /\ entry'[k].seq = entry[k].seq
  /\ \A k \in Key : applied[k] <= applied'[k]
  /\ \A r \in Record : rec[r].version <= rec'[r].version
  /\ \A r \in Record : rec[r].deleted => rec'[r].deleted

LEMMA AchievedStays ==
  ASSUME TypeOK, used' \in Nat, \A k \in Key : applied'[k] \in Nat, Grows
  PROVE  \A j \in 1..used : Achieved(j) => Achieved(j)'
<1> SUFFICES ASSUME NEW j \in 1..used, Achieved(j) PROVE Achieved(j)'
  OBVIOUS
<1>1. CASE \E i \in 1..used : entry[i].seq = entry[j].seq /\ applied[i] > 0
  <2>1. PICK i \in 1..used : entry[i].seq = entry[j].seq /\ applied[i] > 0  BY <1>1
  <2>2. i \in 1..used' /\ entry'[i].seq = entry'[j].seq /\ applied'[i] > 0
    BY <2>1, Fields DEF Grows
  <2> QED  BY <2>2 DEF Achieved
<1>2. CASE entry[j].method = "DELETE" /\ rec[entry[j].id].deleted
  <2>1. j \in Key /\ entry[j].id \in Record  BY Fields
  <2>2. entry'[j].method = "DELETE" /\ rec'[entry'[j].id].deleted
    BY <1>2, <2>1 DEF Grows
  <2> QED  BY <2>2 DEF Achieved
<1> QED  BY <1>1, <1>2 DEF Achieved

LEMMA Twins ==
  ASSUME TypeOK, Places, NEW i \in 1..used, NEW j \in 1..used, entry[i].seq = entry[j].seq, Achieved(i)
  PROVE  Achieved(j)
BY DEF Places, Achieved

(* A step that touches no edit but its status, of a key that is given out.     *)
SameEdits ==
  /\ used' = used /\ sequence' = sequence
  /\ \A k \in Key : /\ entry'[k].method = entry[k].method /\ entry'[k].id = entry[k].id
                    /\ entry'[k].base = entry[k].base /\ entry'[k].seq = entry[k].seq

LEMMA SameOlder ==
  ASSUME SameEdits
  PROVE  \A j, k \in Key : Older(j, k)' <=> Older(j, k)
BY DEF SameEdits, Older

LEMMA SameGrows ==
  ASSUME TypeOK, SameEdits, rec' = rec, applied' = applied
  PROVE  Grows /\ \A j \in 1..used : Achieved(j) => Achieved(j)'
<1>1. Grows  BY Fields DEF Grows, SameEdits
<1> QED  BY <1>1, AchievedStays, Fields DEF SameEdits

LEMMA SamePlaces ==
  ASSUME TypeOK, Places, SameEdits,
         \A k \in Key : k > used => /\ applied'[k] = applied[k] /\ ops'[k] = ops[k]
                                    /\ \A c \in Copy : req'[k][c].at = "none"
  PROVE  Places'
<1>1. \A i, j \in 1..used' : entry'[i].seq = entry'[j].seq =>
        entry'[i].method = entry'[j].method /\ entry'[i].id = entry'[j].id
  BY Fields DEF Places, SameEdits
<1>2. \A k \in 1..used' : entry'[k].method = "POST" => entry'[k].id = k /\ entry'[k].base = 0
  BY Fields DEF Places, SameEdits
<1> QED  BY <1>1, <1>2 DEF Places, SameEdits

LEMMA SameEffects ==
  ASSUME TypeOK, Effects, rec' = rec, applied' = applied,
         \A k \in Key : applied[k] > 0 => entry'[k].id = entry[k].id /\ entry'[k].base = entry[k].base
  PROVE  Effects'
BY Fields DEF Effects

LEMMA SameServed ==
  ASSUME Served, ops' = ops, applied' = applied, lease' = lease,
         \A k \in Key, c \in Copy : /\ Working(k, c)' <=> Working(k, c)
                                    /\ Working(k, c) => req'[k][c] = req[k][c]
  PROVE  Served'
BY DEF Served, Working

LEMMA SameFirstRun ==
  ASSUME FirstRun, ops' = ops, applied' = applied, crashed' = crashed,
         \A k \in Key, c \in Copy : /\ Working(k, c)' <=> Working(k, c)
                                    /\ Working(k, c) => req'[k][c] = req[k][c]
  PROVE  FirstRun'
BY DEF FirstRun, Working

(* An answer of success is not told anew, or tells of something achieved.      *)
LEMMA StillEarned ==
  ASSUME TypeOK, Places, Earned, \A j \in 1..used : Achieved(j) => Achieved(j)',
         \A k \in Key : \/ ops'[k] = ops[k]
                        \/ ops'[k] = "ok" => k \in 1..used /\ Achieved(k)',
         \A k \in Key, c \in Copy :
           \/ \E d \in Copy : req'[k][c] = req[k][d]
           \/ req'[k][c].at \in {"ran", "answered"} /\ req'[k][c].answer = "ok" => Achieved(k)'
  PROVE  Earned'
<1>1. \A k \in Key : ops[k] = "ok" => k \in 1..used  BY Fields DEF Places, Key
<1>2. \A k \in Key, c \in Copy : req[k][c].at \in {"ran", "answered"} => k \in 1..used
  BY Fields DEF Places, Key
<1>3. \A k \in Key : ops'[k] = "ok" => Achieved(k)'  BY <1>1 DEF Earned
<1>4. ASSUME NEW k \in Key, NEW c \in Copy,
             req'[k][c].at \in {"ran", "answered"}, req'[k][c].answer = "ok"
      PROVE  Achieved(k)'
  BY <1>2, <1>4 DEF Earned
<1> QED  BY <1>3, <1>4 DEF Earned

(* No request is sent, and nothing is put into the queue that was in neither.  *)
LEMMA StillInOrder ==
  ASSUME TypeOK, Places, SentInOrder, SameEdits, \A j \in 1..used : Achieved(j) => Achieved(j)',
         stored' \cup list' \subseteq stored \cup list,
         \A k \in Key, c \in Copy : req'[k][c].at \in {"wire", "routing"} =>
           \E d \in Copy : req[k][d].at \in {"wire", "routing"}
  PROVE  SentInOrder'
<1> SUFFICES ASSUME NEW k \in Key, NEW c \in Copy, req'[k][c].at \in {"wire", "routing"},
                    NEW j \in stored' \cup list', Older(j, k)'
             PROVE  Achieved(j)'
  BY DEF SentInOrder
<1>1. j \in stored \cup list /\ j \in 1..used /\ j \in Key  BY Fields DEF TypeOK
<1>2. Older(j, k)  BY <1>1, SameOlder
<1> QED  BY <1>1, <1>2 DEF SentInOrder

LEMMA StillOneSent ==
  ASSUME TypeOK, OneSent, SameEdits, list' \subseteq list,
         \A k \in Key : req'[k]["live"].at # "none" => req[k]["live"].at # "none" /\ k \in list'
  PROVE  OneSent'
<1>1. \A k \in list, j \in list : k \in Key /\ j \in Key  BY Fields DEF TypeOK
<1> QED  BY <1>1, SameOlder DEF OneSent, Due

LEMMA StillComplete ==
  ASSUME TypeOK, CopyComplete, SameEdits, \A j \in 1..used : Achieved(j) => Achieved(j)',
         stored' \subseteq stored, list' = list
  PROVE  CopyComplete'
<1> SUFFICES ASSUME NEW j \in stored', NEW k \in list', Older(j, k)'
             PROVE  (Achieved(j) \/ \E i \in list : entry[i].seq = entry[j].seq)'
  BY DEF CopyComplete
<1>1. j \in stored /\ k \in list /\ j \in 1..used /\ j \in Key /\ k \in Key  BY Fields DEF TypeOK
<1>2. Achieved(j) \/ \E i \in list : entry[i].seq = entry[j].seq
  BY <1>1, SameOlder DEF CopyComplete
<1>3. CASE Achieved(j)  BY <1>3, <1>1
<1>4. CASE \E i \in list : entry[i].seq = entry[j].seq
  <2>1. PICK i \in list : entry[i].seq = entry[j].seq  BY <1>4
  <2>2. i \in Key /\ i \in list'  BY Fields DEF TypeOK
  <2>3. entry'[i].seq = entry'[j].seq  BY <2>1, <2>2, <1>1 DEF SameEdits
  <2> QED  BY <2>2, <2>3
<1> QED  BY <1>2, <1>3, <1>4

LEMMA EmptyCopy ==
  ASSUME list' = {}, \A k \in Key : req'[k]["live"].at = "none"
  PROVE  CopyComplete' /\ OneSent'
BY DEF CopyComplete, OneSent

(* A mutation leaves the queue achieved, or by the user's hand.                *)
LEMMA StillNotLost ==
  ASSUME NothingLost, used' = used, \A j \in 1..used : Achieved(j) => Achieved(j)',
         waived \subseteq waived',
         \A k \in stored : k \in stored' \/ k \in waived' \/ Achieved(k)'
  PROVE  NothingLost'
BY DEF NothingLost

-----------------------------------------------------------------------------
(* The profile's steps.                                                        *)
LEMMA StartFlushInv ==
  ASSUME IInv, StartFlush
  PROVE  IInv'
<1> USE DEF IInv
<1>1. /\ list = {} /\ list' = stored
      /\ UNCHANGED <<server, req, stored, entry, used, sequence, waived, faults, crashed>>
  BY DEF StartFlush
<1> HIDE DEF StartFlush
<1>2. SameEdits /\ rec' = rec /\ applied' = applied  BY <1>1 DEF SameEdits, server
<1>3. \A j \in 1..used : Achieved(j) => Achieved(j)'  BY <1>2, SameGrows
<1>4. TypeOK'  BY <1>1 DEF TypeOK, server
<1>5. Places'  BY <1>1, <1>2, SamePlaces DEF Places, server
<1>6. Effects' /\ AppliedOnce' /\ NeverOvertaken'
  BY <1>1, <1>2, SameEffects DEF AppliedOnce, NeverOvertaken, server
<1>7. Served' /\ FirstRun'  BY <1>1, SameServed, SameFirstRun DEF Working, server
<1>8. Earned'  BY <1>1, <1>3, StillEarned DEF server
<1>9. OneSent'  BY <1>1 DEF OneSent, Due
<1>10. SentInOrder'  BY <1>1, <1>2, <1>3, StillInOrder
<1>11. CopyComplete'  BY <1>1 DEF CopyComplete
<1>12. NothingLost'  BY <1>1, <1>3, StillNotLost
<1> QED  BY <1>4, <1>5, <1>6, <1>7, <1>8, <1>9, <1>10, <1>11, <1>12

(* The first of what is left is sent: everything before it in the queue is     *)
(* achieved, since the copy would hold an open one before it.                  *)
LEMMA SendInv ==
  ASSUME IInv, NEW k \in Key, Send(k)
  PROVE  IInv'
<1> USE DEF IInv
<1>1. /\ Quiet /\ Due(k) /\ k \in list /\ k \in 1..used
      /\ UNCHANGED <<server, stored, entry, used, sequence, waived, faults, crashed>>
      /\ \/ list' = {} /\ req' = req
         \/ req' = [req EXCEPT ![k]["live"] = At("wire")] /\ list' = list
  BY DEF Send, Due, TypeOK
<1>2. SameEdits /\ rec' = rec /\ applied' = applied /\ ops' = ops /\ lease' = lease /\ overtook' = overtook
  BY <1>1 DEF SameEdits, server
<1>3. \A j \in 1..used : Achieved(j) => Achieved(j)'  BY <1>2, SameGrows
<1>4. \A j \in Key : req[j]["live"].at = "none"
  BY <1>1, Constructed DEF Quiet, OneSent, Due
<1>5. \A j \in Key, c \in Copy :
        \/ req'[j][c] = req[j][c]
        \/ j = k /\ c = "live" /\ req[j][c].at = "none" /\ req'[j][c].at = "wire"
  BY <1>1, <1>4, Constructed DEF TypeOK, Copy
<1>6. req' \in [Key -> [Copy -> Request]]
  BY <1>1, Constructed DEF TypeOK, Copy
<1>7. TypeOK'  BY <1>1, <1>2, <1>6 DEF TypeOK
<1>8. Places'
  <2>1. \A j \in Key : j > used => \A c \in Copy : req'[j][c].at = "none"
    BY <1>1, <1>5, Fields DEF Places
  <2> QED  BY <2>1, <1>2, SamePlaces
<1>9. Effects' /\ AppliedOnce' /\ NeverOvertaken'
  BY <1>2, SameEffects, <1>1 DEF AppliedOnce, NeverOvertaken, SameEdits
<1>10. Served' /\ FirstRun'
  BY <1>1, <1>2, <1>5, SameServed, SameFirstRun DEF Working
<1>11. Earned'
  BY <1>2, <1>3, <1>5, StillEarned
<1>12. OneSent'
  <2>1. \A l \in Key : req'[l]["live"].at # "none" => l = k /\ list' = list
    BY <1>1, <1>4, <1>5 DEF Copy
  <2>2. \A i, j \in list : Older(i, j)' <=> Older(i, j)
    BY <1>2, SameOlder, Fields DEF TypeOK
  <2> QED  BY <2>1, <2>2, <1>1 DEF OneSent, Due
<1>13. SentInOrder'
  <2> SUFFICES ASSUME NEW l \in Key, NEW c \in Copy, req'[l][c].at \in {"wire", "routing"},
                      NEW j \in stored' \cup list', Older(j, l)'
               PROVE  Achieved(j)'
    BY DEF SentInOrder
  <2>1. j \in stored \cup list /\ j \in 1..used /\ j \in Key  BY <1>1, Fields DEF TypeOK
  <2>2. Older(j, l)  BY <1>2, <2>1, SameOlder
  <2>3. CASE req'[l][c] = req[l][c]
    BY <2>1, <2>2, <2>3, <1>3 DEF SentInOrder
  <2>4. CASE l = k
    <3>1. j \notin list  BY <2>2, <2>4, <1>1 DEF Due
    <3>2. Achieved(j) \/ \E i \in list : entry[i].seq = entry[j].seq
      BY <2>1, <2>2, <2>4, <3>1, <1>1 DEF CopyComplete
    <3>3. \A i \in list : entry[i].seq # entry[j].seq
      BY <2>2, <2>4, <1>1 DEF Due, Older
    <3> QED  BY <3>2, <3>3, <2>1, <1>3
  <2> QED  BY <2>3, <2>4, <1>5
<1>14. CopyComplete'
  <2>1. CASE list' = list  BY <2>1, <1>1, <1>2, <1>3, StillComplete
  <2>2. CASE list' = {}  BY <2>2 DEF CopyComplete
  <2> QED  BY <2>1, <2>2, <1>1
<1>15. NothingLost'  BY <1>1, <1>3, StillNotLost
<1> QED  BY <1>7, <1>8, <1>9, <1>10, <1>11, <1>12, <1>13, <1>14, <1>15

LEMMA DiscardInv ==
  ASSUME IInv, NEW k \in Key, Discard(k)
  PROVE  IInv'
<1> USE DEF IInv
<1>1. /\ k \in stored /\ stored' = stored \ {k} /\ waived' = waived \cup {k}
      /\ UNCHANGED <<server, req, entry, used, sequence, list, faults, crashed>>
  BY DEF Discard
<1>2. SameEdits /\ rec' = rec /\ applied' = applied  BY <1>1 DEF SameEdits, server
<1>3. \A j \in 1..used : Achieved(j) => Achieved(j)'  BY <1>2, SameGrows
<1>4. TypeOK'  BY <1>1 DEF TypeOK, server
<1>5. Places'  BY <1>1, <1>2, SamePlaces DEF Places, server
<1>6. Effects' /\ AppliedOnce' /\ NeverOvertaken'
  BY <1>1, <1>2, SameEffects DEF AppliedOnce, NeverOvertaken, server
<1>7. Served' /\ FirstRun'  BY <1>1, SameServed, SameFirstRun DEF Working, server
<1>8. Earned'  BY <1>1, <1>3, StillEarned DEF server
<1>9. OneSent'  BY <1>1 DEF OneSent, Due, Older
<1>10. SentInOrder'  BY <1>1, <1>2, <1>3, StillInOrder
<1>11. CopyComplete'  BY <1>1, <1>2, <1>3, StillComplete
<1>12. NothingLost'  BY <1>1, <1>3, StillNotLost
<1> QED  BY <1>4, <1>5, <1>6, <1>7, <1>8, <1>9, <1>10, <1>11, <1>12

(* A new mutation, in a new place or in the place of the one it replaces.      *)
Given(n, method, r, base, seq) ==
  /\ n = used + 1 /\ n \in Key /\ used' = n
  /\ entry' = [entry EXCEPT ![n] = [method |-> method, id |-> r, base |-> base,
                                    seq |-> seq, status |-> "pending"]]
  /\ method \in {"POST", "PATCH", "DELETE"} /\ r \in Record /\ base \in Nat /\ seq \in Nat
  /\ method = "POST" => r = n /\ base = 0
  /\ sequence' \in Nat /\ sequence <= sequence' /\ seq <= sequence'
  /\ \A i \in 1..used : entry[i].seq = seq => entry[i].method = method /\ entry[i].id = r
  /\ UNCHANGED <<server, req, list, faults, crashed>>

LEMMA GivenFacts ==
  ASSUME TypeOK, NEW n, NEW method, NEW r, NEW base, NEW seq, Given(n, method, r, base, seq)
  PROVE  /\ entry' \in [Key -> Entry]
         /\ entry'[n].method = method /\ entry'[n].id = r /\ entry'[n].base = base /\ entry'[n].seq = seq
         /\ \A k \in Key : k # n => entry'[k] = entry[k]
         /\ \A k \in 1..used' : k = n \/ k \in 1..used
         /\ 1..used \subseteq 1..used' /\ n \notin 1..used /\ n > used
         /\ Grows /\ \A j \in 1..used : Achieved(j) => Achieved(j)'
<1>1. [method |-> method, id |-> r, base |-> base, seq |-> seq, status |-> "pending"] \in Entry
  BY DEF Given, Entry, Status
<1>2. /\ entry' \in [Key -> Entry]
      /\ entry'[n].method = method /\ entry'[n].id = r /\ entry'[n].base = base /\ entry'[n].seq = seq
      /\ \A k \in Key : k # n => entry'[k] = entry[k]
  BY <1>1 DEF Given, TypeOK
<1>3. /\ \A k \in 1..used' : k = n \/ k \in 1..used
      /\ 1..used \subseteq 1..used' /\ n \notin 1..used /\ n > used
  BY Fields DEF Given
<1>4. Grows
  <2>1. \A k \in 1..used : k \in Key /\ k # n  BY <1>3, Fields
  <2>2. applied' = applied /\ rec' = rec /\ used' = used + 1 /\ sequence <= sequence'
    BY DEF Given, server
  <2> QED  BY <2>1, <2>2, <1>2, Fields DEF Grows
<1>5. used' \in Nat /\ applied' = applied  BY Fields DEF Given, server
<1>6. \A j \in 1..used : Achieved(j) => Achieved(j)'  BY <1>4, <1>5, AchievedStays, Fields
<1> QED  BY <1>2, <1>3, <1>4, <1>6

LEMMA GivenInv ==
  ASSUME IInv, NEW n, NEW method, NEW r, NEW base, NEW seq, Given(n, method, r, base, seq)
  PROVE  /\ Places' /\ Effects' /\ AppliedOnce' /\ Served' /\ FirstRun' /\ Earned' /\ OneSent'
         /\ NeverOvertaken'
<1> USE DEF IInv
<1>1. /\ UNCHANGED <<server, req, list, faults, crashed>>
      /\ UNCHANGED <<rec, ops, lease, applied, overtook>>
      /\ n \in Key /\ used \in Nat /\ used' = used + 1 /\ n = used + 1
  BY Fields DEF Given, server
<1>2. \A k \in 1..used : k \in Key /\ entry'[k] = entry[k]  BY GivenFacts, Fields
<1>3. Places'
  <2>1. \A k \in Key : entry'[k].seq <= sequence'
    <3>1. \A k \in Key : k # n => entry'[k].seq <= sequence  BY GivenFacts, <1>1 DEF Places
    <3>2. sequence <= sequence' /\ sequence \in Nat /\ sequence' \in Nat /\ entry'[n].seq <= sequence'
      <4>1. entry'[n].seq = seq  BY GivenFacts
      <4> QED  BY <4>1, Fields DEF Given
    <3>3. \A k \in Key : k # n => entry'[k].seq \in Nat  BY GivenFacts, Fields
    <3> QED  BY <3>1, <3>2, <3>3
  <2>2. \A i, j \in 1..used' : entry'[i].seq = entry'[j].seq =>
          entry'[i].method = entry'[j].method /\ entry'[i].id = entry'[j].id
    <3>1. \A i \in 1..used : entry[i].seq = seq => entry[i].method = method /\ entry[i].id = r
      BY DEF Given
    <3> QED  BY <3>1, <1>2, GivenFacts DEF Places
  <2>3. \A k \in 1..used' : entry'[k].method = "POST" => entry'[k].id = k /\ entry'[k].base = 0
    <3>1. /\ \A k \in 1..used' : k = n \/ k \in 1..used
          /\ entry'[n].method = method /\ entry'[n].id = r /\ entry'[n].base = base
      BY GivenFacts
    <3>2. method = "POST" => r = n /\ base = 0  BY DEF Given
    <3> QED  BY <3>1, <3>2, <1>2 DEF Places
  <2>4. \A k \in Key : k > used' => k > used  BY <1>1 DEF Key
  <2> QED  BY <2>1, <2>2, <2>3, <2>4, <1>1 DEF Places
<1>4. applied[n] = 0 /\ ops[n] = "none" /\ \A c \in Copy : req[n][c].at = "none"
  BY <1>1, GivenFacts DEF Places
<1>5. Effects'
  <2>1. \A k \in Key : applied[k] > 0 => entry'[k].id = entry[k].id /\ entry'[k].base = entry[k].base
    BY <1>4, GivenFacts
  <2> QED  BY <2>1, <1>1, SameEffects
<1>6. AppliedOnce' /\ NeverOvertaken'  BY <1>1 DEF AppliedOnce, NeverOvertaken
<1>7. Served' /\ FirstRun'  BY <1>1, SameServed, SameFirstRun DEF Working
<1>8. Earned'  BY <1>1, GivenFacts, StillEarned
<1>9. OneSent'
  <2>1. \A j, k \in list : Older(j, k)' <=> Older(j, k)
    BY <1>2 DEF TypeOK, Older
  <2> QED  BY <1>1, <2>1 DEF OneSent, Due
<1> QED  BY <1>3, <1>5, <1>6, <1>7, <1>8, <1>9

LEMMA AddInv ==
  ASSUME IInv, NEW method, NEW r, NEW base, Add(method, r, base),
         method \in {"POST", "PATCH", "DELETE"}, r \in Record, base \in Nat,
         method = "POST" => r = used + 1 /\ base = 0
  PROVE  IInv'
<1> USE DEF IInv
<1> DEFINE n == used + 1
<1>1. /\ used < MaxEdits /\ used' = n /\ sequence' = sequence + 1
      /\ entry' = [entry EXCEPT ![n] = [method |-> method, id |-> r, base |-> base,
                                        seq |-> sequence + 1, status |-> "pending"]]
      /\ stored' = stored \cup {n}
      /\ UNCHANGED <<server, req, list, waived, faults, crashed>>
  BY DEF Add
<1>2. used \in Nat /\ sequence \in Nat /\ n \in Key /\ n \in 1..MaxKeys
  BY <1>1, Fields, OfflineAssumption DEF Key
<1>3. \A k \in 1..used : k \in Key /\ entry[k].seq < sequence + 1
  BY <1>2, Fields DEF Places
<1>4. Given(n, method, r, base, sequence + 1)
  <2>1. \A i \in 1..used : entry[i].seq # sequence + 1  BY <1>2, <1>3, Fields
  <2>2. /\ n = used + 1 /\ n \in Key /\ used' = n /\ sequence + 1 \in Nat
        /\ sequence' \in Nat /\ sequence <= sequence' /\ sequence + 1 <= sequence'
    BY <1>1, <1>2
  <2>3. UNCHANGED <<server, req, list, faults, crashed>>  BY <1>1
  <2> QED  BY <2>1, <2>2, <2>3, <1>1 DEF Given
<1> HIDE DEF n
<1>5. Places' /\ Effects' /\ AppliedOnce' /\ Served' /\ FirstRun' /\ Earned' /\ OneSent' /\ NeverOvertaken'
  BY <1>4, GivenInv
<1>6. /\ entry' \in [Key -> Entry] /\ entry'[n].seq = sequence + 1
      /\ \A k \in Key : k # n => entry'[k] = entry[k]
      /\ \A k \in 1..used' : k = n \/ k \in 1..used
      /\ 1..used \subseteq 1..used' /\ n \notin 1..used
      /\ \A j \in 1..used : Achieved(j) => Achieved(j)'
  BY <1>4, GivenFacts
<1>7. \A k \in 1..used : entry'[k] = entry[k] /\ k \in Key  BY <1>3, <1>6
<1>8. TypeOK'
  <2>1. stored' \subseteq 1..used' /\ used' \in 0..MaxKeys /\ sequence' \in Nat /\ list' \subseteq 1..used'
        /\ waived' \subseteq 1..used'
    BY <1>1, <1>2, <1>6 DEF TypeOK, n
  <2> QED  BY <2>1, <1>1, <1>6 DEF TypeOK, server
<1>9. SentInOrder'
  <2> SUFFICES ASSUME NEW k \in Key, NEW c \in Copy, req'[k][c].at \in {"wire", "routing"},
                      NEW j \in stored' \cup list', Older(j, k)'
               PROVE  Achieved(j)'
    BY DEF SentInOrder
  <2>1. k \in 1..used  BY <1>1, <1>2 DEF Places, Key
  <2>2. entry'[k].seq < sequence + 1  BY <2>1, <1>3, <1>7
  <2>3. j # n  BY <2>2, <1>6, <1>2, <2>1, Fields, <1>7 DEF Older
  <2>4. j \in stored \cup list /\ j \in 1..used  BY <2>3, <1>1 DEF TypeOK
  <2>5. Older(j, k)  BY <2>1, <2>4, <1>7 DEF Older
  <2> QED  BY <2>4, <2>5, <1>1, <1>6 DEF SentInOrder
<1>10. CopyComplete'
  <2> SUFFICES ASSUME NEW j \in stored', NEW k \in list', Older(j, k)'
               PROVE  (Achieved(j) \/ \E i \in list : entry[i].seq = entry[j].seq)'
    BY DEF CopyComplete
  <2>1. k \in list /\ k \in 1..used  BY <1>1 DEF TypeOK
  <2>2. entry'[k].seq < sequence + 1  BY <2>1, <1>3, <1>7
  <2>3. j # n  BY <2>2, <1>6, <1>2, <2>1, Fields, <1>7 DEF Older
  <2>4. j \in stored /\ j \in 1..used  BY <2>3, <1>1 DEF TypeOK
  <2>5. Older(j, k)  BY <2>1, <2>4, <1>7 DEF Older
  <2>6. Achieved(j) \/ \E i \in list : entry[i].seq = entry[j].seq
    BY <2>1, <2>4, <2>5 DEF CopyComplete
  <2>7. \A i \in list : i \in list' /\ entry'[i] = entry[i]  BY <1>1, <1>7 DEF TypeOK
  <2> QED  BY <2>4, <2>6, <2>7, <1>6, <1>7
<1>11. NothingLost'
  BY <1>1, <1>6 DEF NothingLost
<1> QED  BY <1>5, <1>8, <1>9, <1>10, <1>11

LEMMA EnqueueInv ==
  ASSUME IInv, Enqueue
  PROVE  IInv'
<1> USE DEF IInv
<1>1. CASE Add("POST", used + 1, 0)
  <2>1. used < MaxEdits /\ used \in Nat  BY <1>1, Fields DEF Add
  <2>2. used + 1 \in Record  BY <2>1, OfflineAssumption DEF Record, Key
  <2> QED  BY <1>1, <2>2, AddInv
<1>2. CASE \E method \in {"PATCH", "DELETE"}, r \in Record : \E base \in Shown(r) : Add(method, r, base)
  <2>. PICK method \in {"PATCH", "DELETE"}, r \in Record : \E base \in Shown(r) : Add(method, r, base)
    BY <1>2
  <2>1. PICK base \in Shown(r) : Add(method, r, base)
    OBVIOUS
  <2>2. base \in Nat
    <3>1. \A k \in Pending(r) : entry[k].base + 1 \in Nat  BY Fields DEF Pending, TypeOK
    <3>2. 1..rec[r].version \subseteq Nat  BY Fields
    <3> QED  BY <3>1, <3>2 DEF Shown
  <2> QED  BY <2>1, <2>2, AddInv
<1> QED  BY <1>1, <1>2 DEF Enqueue

(* A replacement takes the place of its original: where the original was       *)
(* achieved, or in the copy, the replacement is.                               *)
LEMMA ResolveInv ==
  ASSUME IInv, NEW k \in Key, Resolve(k)
  PROVE  IInv'
<1> USE DEF IInv
<1>0. used \in Nat /\ used < MaxKeys /\ used + 1 \in Key
  BY Fields, OfflineAssumption DEF Resolve, Key
<1>. PICK n \in Key : n = used + 1  BY <1>0
<1>1. /\ k \in stored /\ entry[k].method # "POST" /\ used < MaxKeys /\ used' = n
      /\ entry' = [entry EXCEPT ![n] = [method |-> entry[k].method, id |-> entry[k].id,
                                        base |-> rec[entry[k].id].version,
                                        seq |-> entry[k].seq, status |-> "pending"]]
      /\ stored' = (stored \ {k}) \cup {n} /\ waived' = waived \cup {k}
      /\ UNCHANGED <<server, req, sequence, list, faults, crashed>>
  BY DEF Resolve
<1>2. used \in Nat /\ sequence \in Nat /\ n \in Key /\ n \in 1..MaxKeys /\ k \in 1..used /\ n = used + 1
  BY <1>0, <1>1, Fields DEF Key, TypeOK
<1>3. Given(n, entry[k].method, entry[k].id, rec[entry[k].id].version, entry[k].seq)
  <2>1. /\ entry[k].method \in {"POST", "PATCH", "DELETE"} /\ entry[k].id \in Record
        /\ rec[entry[k].id].version \in Nat /\ entry[k].seq \in Nat /\ entry[k].seq <= sequence
    BY <1>2, Fields DEF Places
  <2>2. \A i \in 1..used : entry[i].seq = entry[k].seq =>
          entry[i].method = entry[k].method /\ entry[i].id = entry[k].id
    BY <1>2 DEF Places
  <2>3. n = used + 1 /\ sequence' \in Nat /\ sequence <= sequence' /\ entry[k].seq <= sequence'
    BY <1>1, <1>2, <2>1
  <2> QED  BY <2>1, <2>2, <2>3, <1>1, <1>2 DEF Given
<1>5. Places' /\ Effects' /\ AppliedOnce' /\ Served' /\ FirstRun' /\ Earned' /\ OneSent' /\ NeverOvertaken'
  BY <1>3, GivenInv
<1>6. /\ entry' \in [Key -> Entry] /\ entry'[n].seq = entry[k].seq
      /\ \A l \in Key : l # n => entry'[l] = entry[l]
      /\ \A l \in 1..used' : l = n \/ l \in 1..used
      /\ 1..used \subseteq 1..used' /\ n \notin 1..used
      /\ \A j \in 1..used : Achieved(j) => Achieved(j)'
  BY <1>3, GivenFacts
<1>7. \A l \in 1..used : entry'[l] = entry[l] /\ l \in Key  BY <1>6, Fields
<1>8. TypeOK'
  <2>1. stored' \subseteq 1..used' /\ used' \in 0..MaxKeys /\ sequence' \in Nat /\ list' \subseteq 1..used'
        /\ waived' \subseteq 1..used'
    <3>1. n \in 1..used' /\ used' \in 0..MaxKeys /\ k \in 1..used  BY <1>1, <1>2, OfflineAssumption
    <3> QED  BY <3>1, <1>1, <1>2, <1>6 DEF TypeOK
  <2> QED  BY <2>1, <1>1, <1>6 DEF TypeOK, server
<1>9. Achieved(k)' => Achieved(n)'
  <2>1. k \in 1..used' /\ n \in 1..used' /\ entry'[k].seq = entry'[n].seq
    BY <1>1, <1>2, <1>6, <1>7
  <2>2. entry'[k].method = entry'[n].method /\ entry'[k].id = entry'[n].id
    BY <1>5, <2>1 DEF Places
  <2> QED  BY <2>1, <2>2 DEF Achieved
<1>10. SentInOrder'
  <2> SUFFICES ASSUME NEW l \in Key, NEW c \in Copy, req'[l][c].at \in {"wire", "routing"},
                      NEW j \in stored' \cup list', Older(j, l)'
               PROVE  Achieved(j)'
    BY DEF SentInOrder
  <2>1. l \in 1..used  BY <1>1, <1>2 DEF Places, Key
  <2>2. CASE j = n
    <3>1. Older(k, l)  BY <2>1, <2>2, <1>6, <1>7 DEF Older
    <3> QED  BY <3>1, <1>1, <1>2, <1>6, <1>9, <2>2 DEF SentInOrder
  <2>3. CASE j # n
    <3>1. j \in stored \cup list /\ j \in 1..used  BY <2>3, <1>1 DEF TypeOK
    <3>2. Older(j, l)  BY <2>1, <3>1, <1>7 DEF Older
    <3> QED  BY <3>1, <3>2, <1>1, <1>6 DEF SentInOrder
  <2> QED  BY <2>2, <2>3
<1>11. CopyComplete'
  <2> SUFFICES ASSUME NEW j \in stored', NEW l \in list', Older(j, l)'
               PROVE  (Achieved(j) \/ \E i \in list : entry[i].seq = entry[j].seq)'
    BY DEF CopyComplete
  <2>1. l \in list /\ l \in 1..used  BY <1>1 DEF TypeOK
  <2>2. \A i \in list : i \in list' /\ entry'[i] = entry[i]  BY <1>1, <1>7 DEF TypeOK
  <2>3. CASE j = n
    <3>1. Older(k, l)  BY <2>1, <2>3, <1>6, <1>7 DEF Older
    <3>2. Achieved(k) \/ \E i \in list : entry[i].seq = entry[k].seq
      BY <3>1, <1>1, <2>1 DEF CopyComplete
    <3> QED  BY <3>2, <2>2, <2>3, <1>2, <1>6, <1>9
  <2>4. CASE j # n
    <3>1. j \in stored /\ j \in 1..used  BY <2>4, <1>1 DEF TypeOK
    <3>2. Older(j, l)  BY <2>1, <3>1, <1>7 DEF Older
    <3>3. Achieved(j) \/ \E i \in list : entry[i].seq = entry[j].seq
      BY <2>1, <3>1, <3>2 DEF CopyComplete
    <3> QED  BY <3>1, <3>3, <2>2, <1>6, <1>7
  <2> QED  BY <2>3, <2>4
<1>12. NothingLost'
  BY <1>1, <1>6 DEF NothingLost
<1> QED  BY <1>5, <1>8, <1>10, <1>11, <1>12

LEMMA PersistEdits ==
  ASSUME TypeOK, NEW k \in Key, NEW status \in Status, Persist(k, status),
         used' = used, sequence' = sequence
  PROVE  SameEdits /\ entry' \in [Key -> Entry]
<1>1. entry' = [entry EXCEPT ![k].status = status]  BY DEF Persist
<1>2. SameEdits  BY <1>1 DEF SameEdits, TypeOK, Entry
<1>3. entry' \in [Key -> Entry]  BY <1>1 DEF TypeOK, Entry
<1> QED  BY <1>2, <1>3

(* An answer is dealt with: the entry is removed, or kept and the replay ends. *)
LEMMA SettleInv ==
  ASSUME IInv, NEW k \in Key, Settle(k)
  PROVE  IInv'
<1> USE DEF IInv
<1> DEFINE answer == req[k]["live"].answer
<1>1. /\ req[k]["live"].at = "answered"
      /\ req' = [req EXCEPT ![k]["live"] = Idle]
      /\ UNCHANGED <<server, used, sequence, waived, faults, crashed>>
  BY DEF Settle
<1>2. \/ answer = "ok" /\ stored' = stored \ {k} /\ list' = list \ {k} /\ UNCHANGED entry
      \/ /\ Persist(k, StatusOf(answer))
         /\ stored' = stored \cup {k} /\ list' = {}
  BY DEF Settle, Outcome, Synced, Persist
<1>3. Due(k) /\ k \in list /\ k \in 1..used /\ \A j \in Key : j # k => req[j]["live"].at = "none"
  BY <1>1 DEF OneSent, Due, TypeOK
<1>4. SameEdits /\ entry' \in [Key -> Entry]
  <2>1. CASE UNCHANGED entry  BY <2>1, <1>1 DEF SameEdits, TypeOK
  <2>2. CASE Persist(k, StatusOf(answer))
    <3>1. StatusOf(answer) \in Status  BY DEF StatusOf, Status
    <3> QED  BY <2>2, <3>1, <1>1, PersistEdits
  <2> QED  BY <1>2, <2>1, <2>2
<1>5. /\ rec' = rec /\ ops' = ops /\ lease' = lease /\ applied' = applied /\ overtook' = overtook
      /\ used' = used /\ sequence' = sequence /\ waived' = waived /\ faults' = faults /\ crashed' = crashed
  BY <1>1 DEF server
<1>6. \A j \in 1..used : Achieved(j) => Achieved(j)'  BY <1>4, <1>5, SameGrows
<1>7. /\ req' \in [Key -> [Copy -> Request]]
      /\ \A j \in Key, c \in Copy : /\ req'[j][c] = IF j = k /\ c = "live" THEN Idle ELSE req[j][c]
      /\ Idle.at = "none"
  BY <1>1, Constructed DEF TypeOK, Copy
<1>8. \A j \in Key : req'[j]["live"].at = "none"  BY <1>3, <1>7 DEF Copy
<1>9. answer = "ok" => Achieved(k)  BY <1>1 DEF Earned, Copy
<1>10. stored' \cup list' \subseteq stored \cup list /\ list' \subseteq list  BY <1>2, <1>3
<1>11. TypeOK'
  <2>1. stored' \subseteq 1..used /\ list' \subseteq 1..used  BY <1>10 DEF TypeOK
  <2> QED  BY <2>1, <1>4, <1>5, <1>7 DEF TypeOK
<1>12. Places'
  <2>1. \A j \in Key : j > used => \A c \in Copy : req'[j][c].at = "none"  BY <1>7 DEF Places
  <2> QED  BY <2>1, <1>4, <1>5, SamePlaces
<1>13. Effects' /\ AppliedOnce' /\ NeverOvertaken'
  BY <1>4, <1>5, SameEffects DEF AppliedOnce, NeverOvertaken, SameEdits
<1>14. Served' /\ FirstRun'
  <2>1. \A j \in Key, c \in Copy : /\ Working(j, c)' <=> Working(j, c)
                                   /\ Working(j, c) => req'[j][c] = req[j][c]
    BY <1>1, <1>7 DEF Working
  <2> QED  BY <2>1, <1>5, SameServed, SameFirstRun
<1>15. Earned'
  <2>1. \A j \in Key, c \in Copy : req'[j][c] = req[j][c] \/ req'[j][c].at = "none"
    BY <1>7
  <2> QED  BY <2>1, <1>5, <1>6, StillEarned
<1>16. OneSent'  BY <1>8 DEF OneSent
<1>17. SentInOrder'
  <2>1. \A j \in Key, c \in Copy : req'[j][c].at \in {"wire", "routing"} => req[j][c].at \in {"wire", "routing"}
    BY <1>7
  <2> QED  BY <2>1, <1>4, <1>6, <1>10, StillInOrder
<1>18. CopyComplete'
  <2>1. CASE list' = {}  BY <2>1 DEF CopyComplete
  <2>2. CASE answer = "ok" /\ stored' = stored \ {k} /\ list' = list \ {k}
    <3> SUFFICES ASSUME NEW j \in stored', NEW l \in list', Older(j, l)'
                 PROVE  (Achieved(j) \/ \E i \in list : entry[i].seq = entry[j].seq)'
      BY DEF CopyComplete
    <3>1. j \in stored /\ l \in list /\ j \in 1..used /\ j \in Key /\ l \in Key
      BY <2>2, Fields DEF TypeOK
    <3>2. Achieved(j) \/ \E i \in list : entry[i].seq = entry[j].seq
      BY <3>1, <1>4, SameOlder DEF CopyComplete
    <3>3. CASE Achieved(j)  BY <3>3, <3>1, <1>6
    <3>4. CASE \E i \in list : entry[i].seq = entry[j].seq
      <4>1. PICK i \in list : entry[i].seq = entry[j].seq  BY <3>4
      <4>2. i \in Key /\ i \in 1..used /\ entry'[i].seq = entry'[j].seq
        BY <4>1, <3>1, <1>4, Fields DEF SameEdits, TypeOK
      <4>3. CASE i = k
        <5>1. Achieved(j)  BY <4>1, <4>3, <1>9, <2>2, <1>3, <3>1, Twins
        <5> QED  BY <5>1, <3>1, <1>6
      <4>4. CASE i # k  BY <4>1, <4>2, <4>4, <2>2
      <4> QED  BY <4>3, <4>4
    <3> QED  BY <3>2, <3>3, <3>4
  <2> QED  BY <2>1, <2>2, <1>2
<1>19. NothingLost'
  <2>1. \A j \in stored : j \in stored' \/ Achieved(j)'
    BY <1>2, <1>3, <1>6, <1>9
  <2> QED  BY <2>1, <1>5, <1>6, StillNotLost
<1> QED  BY <1>11, <1>12, <1>13, <1>14, <1>15, <1>16, <1>17, <1>18, <1>19

(* A request lost by its sender: it is gone, or goes on as the stray copy.     *)
LEMMA LoseFacts ==
  ASSUME TypeOK, Served, FirstRun, NEW k \in Key, Lose(k), UNCHANGED <<ops, applied, crashed>>
  PROVE  /\ req' \in [Key -> [Copy -> Request]] /\ lease' \in [Key -> {"free", "dead"} \cup Copy]
         /\ req[k]["live"].at # "none"
         /\ \A j \in Key, c \in Copy :
              \/ req'[j][c].at = "none"
              \/ c = "stray" /\ \E d \in Copy : req'[j][c] = req[j][d]
              \/ j # k /\ req'[j][c] = req[j][c]
         /\ req'[k]["live"].at = "none"
         /\ Served' /\ FirstRun'
<1> DEFINE live == req[k]["live"]
           Now(j, c) == req'[j][c]
<1>1. lease' = [lease EXCEPT ![k] = IF @ = "live" THEN "stray" ELSE @]  BY DEF Lose
<1>2. Idle \in Request /\ Idle.at = "none" /\ live \in Request  BY Constructed, Fields DEF Copy
<1>3. /\ lease' \in [Key -> {"free", "dead"} \cup Copy]
      /\ \A j \in Key : lease'[j] = IF j = k /\ lease[j] = "live" THEN "stray" ELSE lease[j]
  BY <1>1 DEF TypeOK, Copy
<1>4. CASE live.at \in {"wire", "answered"} /\ req' = [req EXCEPT ![k]["live"] = Idle]
  <2>1. /\ req' \in [Key -> [Copy -> Request]]
        /\ \A j \in Key, c \in Copy : req'[j][c] = IF j = k /\ c = "live" THEN Idle ELSE req[j][c]
    BY <1>2, <1>4 DEF TypeOK, Copy
  <2>2. ~Working(k, "live") /\ lease[k] # "live"  BY <1>4 DEF Working, Served, Copy
  <2>3. lease' = lease  BY <1>1, <2>2 DEF TypeOK
  <2>4. \A j \in Key, c \in Copy : /\ Working(j, c)' <=> Working(j, c)
                                   /\ Working(j, c) => req'[j][c] = req[j][c]
    BY <2>1, <2>2, <1>2 DEF Working
  <2>5. Served' /\ FirstRun'  BY <2>3, <2>4, SameServed, SameFirstRun
  <2>6. \A j \in Key, c \in Copy :
              \/ req'[j][c].at = "none"
              \/ c = "stray" /\ \E d \in Copy : req'[j][c] = req[j][d]
              \/ j # k /\ req'[j][c] = req[j][c]
    BY <2>1, <1>2 DEF Copy
  <2> QED  BY <2>1, <2>5, <2>6, <1>2, <1>3, <1>4 DEF Copy
<1>5. CASE /\ live.at \in {"wire", "routing", "ran"} /\ req[k]["stray"] = Idle
           /\ req' = [req EXCEPT ![k] = [c \in Copy |-> IF c = "live" THEN Idle ELSE req[k]["live"]]]
  <2>1. /\ req' \in [Key -> [Copy -> Request]]
        /\ \A c \in Copy : req'[k][c] = IF c = "live" THEN Idle ELSE live
        /\ \A j \in Key : j # k => req'[j] = req[j]
    BY <1>2, <1>5 DEF TypeOK, Copy
  <2>2. ~Working(k, "stray") /\ lease[k] # "stray"
    BY <1>2, <1>5 DEF Working, Served, Copy
  <2>3. /\ ~Working(k, "live")' /\ (Working(k, "stray")' <=> Working(k, "live"))
        /\ \A j \in Key, c \in Copy : j # k => (Working(j, c)' <=> Working(j, c))
    BY <2>1, <1>2 DEF Working, Copy
  <2>4. Working(k, "live") <=> lease[k] = "live"  BY DEF Served, Copy
  <2>5. Served'
    <3>1. \A j \in Key, c \in Copy : Working(j, c)' <=> lease'[j] = c
      BY <2>2, <2>3, <2>4, <1>3 DEF Served, Copy
    <3>2. \A j \in Key, c \in Copy : Working(j, c)' => ops'[j] = "open"
      BY <2>3 DEF Served, Copy
    <3>3. \A j \in Key, c \in Copy : req'[j][c].at = "ran" => req'[j][c].answer \in Answers
      BY <2>1, <1>2 DEF Served, Copy
    <3>4. \A j \in Key : ops'[j] = "none" => applied'[j] = 0  BY DEF Served
    <3> QED  BY <3>1, <3>2, <3>3, <3>4 DEF Served
  <2>6. FirstRun'
    <3> SUFFICES ASSUME ~crashed, NEW j \in Key
                 PROVE  /\ ops[j] = "open" => \E c \in Copy : Working(j, c)'
                        /\ \A c \in Copy : req'[j][c].at = "routing" => applied[j] = 0
                        /\ \A c \in Copy : req'[j][c].at = "ran" /\ applied[j] > 0 => req'[j][c].answer = "ok"
                        /\ ops[j] \in Answers /\ applied[j] > 0 => ops[j] = "ok"
      BY DEF FirstRun
    <3>1. ops[j] = "open" => \E c \in Copy : Working(j, c)'
      BY <2>2, <2>3 DEF FirstRun, Copy
    <3>2. \A c \in Copy : \/ req'[j][c].at = "none"
                          \/ \E d \in Copy : req'[j][c] = req[j][d]
      BY <2>1, <1>2 DEF Copy
    <3> QED  BY <3>1, <3>2 DEF FirstRun
  <2>7. \A j \in Key, c \in Copy :
              \/ req'[j][c].at = "none"
              \/ c = "stray" /\ \E d \in Copy : req'[j][c] = req[j][d]
              \/ j # k /\ req'[j][c] = req[j][c]
    BY <2>1, <1>2 DEF Copy
  <2> QED  BY <2>1, <2>5, <2>6, <2>7, <1>2, <1>3, <1>5 DEF Copy
<1> QED  BY <1>4, <1>5 DEF Lose

(* What losing requests does to the rest, whether or not their replay ends.    *)
LEMMA LostInv ==
  ASSUME IInv, SameEdits, entry' \in [Key -> Entry], stored \subseteq stored',
         stored' \cup list' \subseteq stored \cup list,
         req' \in [Key -> [Copy -> Request]], lease' \in [Key -> {"free", "dead"} \cup Copy],
         faults' \in 0..MaxFaults, crashed' \in BOOLEAN,
         UNCHANGED <<rec, ops, applied, overtook, used, sequence, waived>>,
         \A j \in Key, c \in Copy : \/ req'[j][c].at = "none"
                                    \/ \E d \in Copy : req'[j][c] = req[j][d],
         \/ list' = {} /\ \A j \in Key : req'[j]["live"].at = "none"
         \/ /\ list' = list /\ stored' = stored
            /\ \A j \in Key : req'[j]["live"].at # "none" => req[j]["live"].at # "none"
  PROVE  /\ TypeOK' /\ Places' /\ Effects' /\ AppliedOnce' /\ Earned' /\ OneSent' /\ SentInOrder'
         /\ CopyComplete' /\ NothingLost' /\ NeverOvertaken'
<1> USE DEF IInv
<1>1. \A j \in 1..used : Achieved(j) => Achieved(j)'  BY SameGrows
<1>2. TypeOK'  BY DEF TypeOK
<1>3. Places'
  <2>1. \A j \in Key : j > used => \A c \in Copy : req'[j][c].at = "none"  BY DEF Places
  <2> QED  BY <2>1, SamePlaces
<1>4. Effects' /\ AppliedOnce' /\ NeverOvertaken'
  BY SameEffects DEF AppliedOnce, NeverOvertaken, SameEdits
<1>5. Earned'  BY <1>1, StillEarned
<1>6. OneSent' /\ CopyComplete'
  <2>1. CASE list' = {} /\ \A j \in Key : req'[j]["live"].at = "none"  BY <2>1, EmptyCopy
  <2>2. CASE list' = list /\ stored' = stored /\ \A j \in Key : req'[j]["live"].at # "none" => req[j]["live"].at # "none"
    <3>1. \A j \in Key : req'[j]["live"].at # "none" => j \in list'  BY <2>2 DEF OneSent, Due
    <3> QED  BY <2>2, <3>1, <1>1, StillOneSent, StillComplete
  <2> QED  BY <2>1, <2>2
<1>7. SentInOrder'
  <2>1. \A j \in Key, c \in Copy : req'[j][c].at \in {"wire", "routing"} =>
          \E d \in Copy : req[j][d].at \in {"wire", "routing"}
    OBVIOUS
  <2> QED  BY <2>1, <1>1, StillInOrder
<1>8. NothingLost'  BY <1>1, StillNotLost
<1> QED  BY <1>2, <1>3, <1>4, <1>5, <1>6, <1>7, <1>8

LEMMA LoseRequestInv ==
  ASSUME IInv, NEW k \in Key, LoseRequest(k)
  PROVE  IInv'
<1> USE DEF IInv
<1>1. /\ faults < MaxFaults /\ faults' = faults + 1
      /\ Lose(k) /\ Persist(k, "pending")
      /\ UNCHANGED <<rec, ops, applied, overtook, used, sequence, waived, crashed>>
  BY DEF LoseRequest
<1>2. stored' = stored \cup {k} /\ list' = {}  BY <1>1 DEF Persist
<1>3. SameEdits /\ entry' \in [Key -> Entry]
  BY <1>1, PersistEdits DEF Status
<1>4. /\ req' \in [Key -> [Copy -> Request]] /\ lease' \in [Key -> {"free", "dead"} \cup Copy]
      /\ req[k]["live"].at # "none"
      /\ \A j \in Key, c \in Copy :
           \/ req'[j][c].at = "none"
           \/ c = "stray" /\ \E d \in Copy : req'[j][c] = req[j][d]
           \/ j # k /\ req'[j][c] = req[j][c]
      /\ req'[k]["live"].at = "none"
      /\ Served' /\ FirstRun'
  BY <1>1, LoseFacts
<1>5. \A j \in Key : req'[j]["live"].at = "none"
  BY <1>4 DEF OneSent, Copy
<1>6. faults' \in 0..MaxFaults /\ crashed' \in BOOLEAN  BY <1>1, OfflineAssumption DEF TypeOK
<1>7. stored' \cup list' \subseteq stored \cup list /\ k \in list  BY <1>2, <1>4 DEF OneSent, Due
<1>8. \A j \in Key, c \in Copy : req'[j][c].at = "none" \/ \E d \in Copy : req'[j][c] = req[j][d]
  BY <1>4
<1> QED  BY <1>1, <1>2, <1>3, <1>4, <1>5, <1>6, <1>7, <1>8, LostInv

LEMMA CloseTabInv ==
  ASSUME IInv, CloseTab
  PROVE  IInv'
<1> USE DEF IInv
<1>1. /\ list' = {} /\ faults < MaxFaults /\ faults' = faults + 1
      /\ UNCHANGED <<rec, ops, applied, overtook, stored, entry, used, sequence, waived, crashed>>
  BY DEF CloseTab
<1>2. SameEdits /\ entry' \in [Key -> Entry] /\ faults' \in 0..MaxFaults /\ crashed' \in BOOLEAN
  BY <1>1, OfflineAssumption DEF SameEdits, TypeOK
<1>3. stored \subseteq stored' /\ stored' \cup list' \subseteq stored \cup list  BY <1>1
<1>4. CASE Quiet /\ UNCHANGED <<req, lease>>
  <2>1. \A j \in Key : req'[j]["live"].at = "none"
    BY <1>4, Constructed DEF Quiet, OneSent, Due
  <2>2. Served' /\ FirstRun'  BY <1>1, <1>4, SameServed, SameFirstRun DEF Working
  <2>3. /\ req' \in [Key -> [Copy -> Request]] /\ lease' \in [Key -> {"free", "dead"} \cup Copy]
        /\ \A j \in Key, c \in Copy : req'[j][c].at = "none" \/ \E d \in Copy : req'[j][c] = req[j][d]
    BY <1>4 DEF TypeOK
  <2> QED  BY <1>1, <1>2, <1>3, <2>1, <2>2, <2>3, LostInv
<1>5. ASSUME NEW k \in list, Lose(k)
      PROVE  IInv'
  <2>1. k \in Key  BY Fields DEF TypeOK
  <2>2. /\ req' \in [Key -> [Copy -> Request]] /\ lease' \in [Key -> {"free", "dead"} \cup Copy]
        /\ req[k]["live"].at # "none"
        /\ \A j \in Key, c \in Copy :
             \/ req'[j][c].at = "none"
             \/ c = "stray" /\ \E d \in Copy : req'[j][c] = req[j][d]
             \/ j # k /\ req'[j][c] = req[j][c]
        /\ req'[k]["live"].at = "none"
        /\ Served' /\ FirstRun'
    BY <1>1, <1>5, <2>1, LoseFacts
  <2>3. \A j \in Key : req'[j]["live"].at = "none"  BY <2>1, <2>2 DEF OneSent, Copy
  <2>4. \A j \in Key, c \in Copy : req'[j][c].at = "none" \/ \E d \in Copy : req'[j][c] = req[j][d]
    BY <2>2
  <2> QED  BY <1>1, <1>2, <1>3, <2>2, <2>3, <2>4, LostInv
<1> QED  BY <1>4, <1>5 DEF CloseTab

(* The requests being served are gone with the process, their leases are dead. *)
LEMMA CrashInv ==
  ASSUME IInv, Crash
  PROVE  IInv'
<1> USE DEF IInv
<1>1. /\ faults < MaxFaults /\ faults' = faults + 1 /\ crashed' = TRUE
      /\ lease' = [k \in Key |-> IF lease[k] \in Copy THEN "dead" ELSE lease[k]]
      /\ req' = [k \in Key |-> [c \in Copy |-> IF Working(k, c) THEN Idle ELSE req[k][c]]]
      /\ UNCHANGED <<rec, ops, applied, overtook, used, sequence, waived>>
  BY DEF Crash
<1>2. faults' \in 0..MaxFaults /\ crashed' \in BOOLEAN  BY <1>1, OfflineAssumption DEF TypeOK
<1>3. /\ req' \in [Key -> [Copy -> Request]] /\ lease' \in [Key -> {"free", "dead"} \cup Copy]
      /\ \A k \in Key : lease'[k] = IF lease[k] \in Copy THEN "dead" ELSE lease[k]
      /\ \A k \in Key, c \in Copy : req'[k][c] = IF Working(k, c) THEN Idle ELSE req[k][c]
      /\ Idle.at = "none"
  BY <1>1, Constructed DEF TypeOK
<1>4. \A k \in Key, c \in Copy : req'[k][c].at = "none" \/ \E d \in Copy : req'[k][c] = req[k][d]
  BY <1>3
<1>5. Served'
  <2>1. \A k \in Key, c \in Copy : ~Working(k, c)' /\ lease'[k] # c
    BY <1>3 DEF Working, Copy
  <2>2. \A k \in Key, c \in Copy : req'[k][c].at # "ran"  BY <1>3 DEF Working
  <2> QED  BY <2>1, <2>2, <1>1 DEF Served
<1>6. FirstRun'  BY <1>1 DEF FirstRun
<1>7. CASE \E k \in Key : Working(k, "live") /\ Persist(k, "pending")
  <2>1. PICK k \in Key : Working(k, "live") /\ Persist(k, "pending")  BY <1>7
  <2>2. stored' = stored \cup {k} /\ list' = {}  BY <2>1 DEF Persist
  <2>3. SameEdits /\ entry' \in [Key -> Entry]  BY <2>1, <1>1, PersistEdits DEF Status
  <2>4. k \in list /\ \A j \in Key : j # k => req[j]["live"].at = "none"
    BY <2>1 DEF Working, OneSent, Due
  <2>5. \A j \in Key : req'[j]["live"].at = "none"  BY <1>3, <2>1, <2>4 DEF Copy
  <2>6. stored \subseteq stored' /\ stored' \cup list' \subseteq stored \cup list  BY <2>2, <2>4
  <2> QED  BY <1>1, <1>2, <1>3, <1>4, <1>5, <1>6, <2>2, <2>3, <2>5, <2>6, LostInv
<1>8. CASE UNCHANGED <<entry, stored, list>>
  <2>1. SameEdits /\ entry' \in [Key -> Entry]  BY <1>1, <1>8 DEF SameEdits, TypeOK
  <2>2. \A k \in Key : req'[k]["live"].at # "none" => req[k]["live"].at # "none"  BY <1>3 DEF Copy
  <2>3. list' = list /\ stored' = stored  BY <1>8
  <2>4. stored \subseteq stored' /\ stored' \cup list' \subseteq stored \cup list  BY <2>3
  <2> QED  BY <1>1, <1>2, <1>3, <1>4, <1>5, <1>6, <2>1, <2>2, <2>3, <2>4, LostInv
<1> QED  BY <1>7, <1>8 DEF Crash

-----------------------------------------------------------------------------
(* The server's steps.                                                         *)
LEMMA ReplyFacts ==
  ASSUME TypeOK, NEW k \in Key, NEW c \in Copy, NEW answer \in Answers \cup {"busy"},
         Reply(k, c, answer)
  PROVE  /\ req' \in [Key -> [Copy -> Request]]
         /\ \A j \in Key, d \in Copy : j # k \/ d # c => req'[j][d] = req[j][d]
         /\ req'[k][c].at \in {"none", "answered"}
         /\ c = "live" => req'[k][c].at = "answered" /\ req'[k][c].answer = answer
         /\ c # "live" => req'[k][c].at = "none"
<1> DEFINE told == IF c = "live" THEN [at |-> "answered", answer |-> answer] ELSE Idle
<1>1. /\ told \in Request /\ told.at \in {"none", "answered"}
      /\ c = "live" => told.at = "answered" /\ told.answer = answer
      /\ c # "live" => told.at = "none"
  BY Constructed
<1>2. req' = [req EXCEPT ![k][c] = told]  BY DEF Reply
<1> HIDE DEF told
<1>3. /\ req' \in [Key -> [Copy -> Request]] /\ req'[k][c] = told
      /\ \A j \in Key, d \in Copy : j # k \/ d # c => req'[j][d] = req[j][d]
  BY <1>1, <1>2 DEF TypeOK
<1> QED  BY <1>1, <1>3

(* Nothing of the queue changes: a request moves, and a record may.            *)
LEMMA ServerQueue ==
  ASSUME IInv, UNCHANGED <<client, faults, crashed>>, Grows, \A j \in 1..used : Achieved(j) => Achieved(j)',
         NEW k \in Key, NEW c \in Copy, req[k][c].at # "none", req' \in [Key -> [Copy -> Request]],
         \A j \in Key, d \in Copy : j # k \/ d # c => req'[j][d] = req[j][d],
         req'[k][c].at \in {"wire", "routing"} => req[k][c].at \in {"wire", "routing"}
  PROVE  /\ OneSent' /\ SentInOrder' /\ CopyComplete' /\ NothingLost' /\ SameEdits
         /\ k \in 1..used
<1> USE DEF IInv
<1>1. UNCHANGED <<stored, entry, used, sequence, list, waived>>  BY DEF client
<1>2. SameEdits  BY <1>1 DEF SameEdits
<1>3. k \in 1..used  BY Fields DEF Places, Key
<1>4. OneSent'
  <2>1. \A j \in Key : req'[j]["live"].at # "none" => req[j]["live"].at # "none"
    BY DEF Copy
  <2>2. \A j \in Key : req'[j]["live"].at # "none" => j \in list'  BY <2>1, <1>1 DEF OneSent, Due
  <2> QED  BY <2>1, <2>2, <1>1, <1>2, StillOneSent
<1>5. SentInOrder'
  <2>1. \A j \in Key, d \in Copy : req'[j][d].at \in {"wire", "routing"} => req[j][d].at \in {"wire", "routing"}
    OBVIOUS
  <2> QED  BY <2>1, <1>1, <1>2, StillInOrder
<1>6. CopyComplete' /\ NothingLost'  BY <1>1, <1>2, StillComplete, StillNotLost
<1> QED  BY <1>2, <1>3, <1>4, <1>5, <1>6

LEMMA RecoveredAchieved ==
  ASSUME TypeOK, Places, Effects, NEW k \in 1..used, Recovered(k)
  PROVE  Achieved(k)
<1>1. k \in Key /\ entry[k].id \in Record /\ k # 0  BY Fields DEF Key
<1>2. CASE entry[k].method = "POST" /\ rec[entry[k].id].version > 0
  BY <1>1, <1>2 DEF Places, Effects, Achieved
<1>3. CASE entry[k].method = "PATCH" /\ rec[entry[k].id].by = k
  BY <1>1, <1>3 DEF Effects, Achieved
<1>4. CASE entry[k].method = "DELETE" /\ rec[entry[k].id].deleted
  BY <1>4 DEF Achieved
<1> QED  BY <1>2, <1>3, <1>4 DEF Recovered

(* The request is answered at once, or is the only one to be run.              *)
LEMMA ArriveInv ==
  ASSUME IInv, NEW k \in Key, NEW c \in Copy, Arrive(k, c)
  PROVE  IInv'
<1> USE DEF IInv
<1>1. /\ req[k][c].at = "wire"
      /\ UNCHANGED <<client, rec, applied, overtook, faults, crashed>>
      /\ UNCHANGED <<stored, entry, used, sequence, list, waived>>
  BY DEF Arrive, client
<1>2. SameEdits  BY <1>1 DEF SameEdits
<1>3. Grows /\ \A j \in 1..used : Achieved(j) => Achieved(j)'  BY <1>1, <1>2, SameGrows
<1>4. k \in 1..used  BY <1>1, Fields DEF Places, Key
<1>5. Effects' /\ AppliedOnce' /\ NeverOvertaken'
  BY <1>1, SameEffects DEF AppliedOnce, NeverOvertaken
<1>6. ASSUME NEW answer \in Answers \cup {"busy"}, Reply(k, c, answer), UNCHANGED <<ops, lease>>,
             answer = "ok" => Achieved(k)
      PROVE  IInv'
  <2>1. /\ req' \in [Key -> [Copy -> Request]]
        /\ \A j \in Key, d \in Copy : j # k \/ d # c => req'[j][d] = req[j][d]
        /\ req'[k][c].at \in {"none", "answered"}
        /\ req'[k][c].at = "answered" => req'[k][c].answer = answer
    BY <1>6, ReplyFacts
  <2>2. TypeOK'  BY <1>1, <1>6, <2>1 DEF TypeOK
  <2>3. Places'
    <3>1. \A j \in Key : j > used => \A d \in Copy : req'[j][d].at = "none"
      BY <2>1, <1>4, Fields DEF Places
    <3> QED  BY <3>1, <1>1, <1>2, <1>6, SamePlaces
  <2>4. Served' /\ FirstRun'
    <3>1. \A j \in Key, d \in Copy : /\ Working(j, d)' <=> Working(j, d)
                                     /\ Working(j, d) => req'[j][d] = req[j][d]
      BY <1>1, <2>1 DEF Working
    <3> QED  BY <3>1, <1>1, <1>6, SameServed, SameFirstRun
  <2>5. Earned'
    <3>1. req'[k][c].at \in {"ran", "answered"} /\ req'[k][c].answer = "ok" => Achieved(k)'
      BY <2>1, <1>3, <1>4, <1>6
    <3>2. \A j \in Key, d \in Copy :
           \/ \E e \in Copy : req'[j][d] = req[j][e]
           \/ req'[j][d].at \in {"ran", "answered"} /\ req'[j][d].answer = "ok" => Achieved(j)'
      BY <2>1, <3>1
    <3> QED  BY <3>2, <1>3, <1>6, StillEarned
  <2>6. OneSent' /\ SentInOrder' /\ CopyComplete' /\ NothingLost'
    BY <1>1, <1>3, <2>1, ServerQueue
  <2> QED  BY <1>5, <2>2, <2>3, <2>4, <2>5, <2>6
<1>7. ASSUME lease[k] = "free", ~Replayed(k), ~Recovered(k),
             req' = [req EXCEPT ![k][c] = At("routing")],
             ops' = [ops EXCEPT ![k] = "open"], lease' = [lease EXCEPT ![k] = c]
      PROVE  IInv'
  <2>1. /\ req' \in [Key -> [Copy -> Request]]
        /\ \A j \in Key, d \in Copy : j # k \/ d # c => req'[j][d] = req[j][d]
        /\ req'[k][c].at = "routing"
    BY <1>7, Constructed DEF TypeOK
  <2>2. /\ ops' \in [Key -> {"none", "open"} \cup Answers] /\ lease' \in [Key -> {"free", "dead"} \cup Copy]
        /\ ops'[k] = "open" /\ lease'[k] = c
        /\ \A j \in Key : j # k => ops'[j] = ops[j] /\ lease'[j] = lease[j]
    BY <1>7 DEF TypeOK
  <2>3. ops[k] \in {"none", "open"}  BY <1>7 DEF Replayed, TypeOK
  <2>4. \A d \in Copy : ~Working(k, d)  BY <1>7 DEF Served, Copy
  <2>5. TypeOK'  BY <1>1, <2>1, <2>2 DEF TypeOK
  <2>6. Places'
    <3>1. \A j \in Key : j > used => /\ \A d \in Copy : req'[j][d].at = "none"
                                     /\ ops'[j] = ops[j]
      BY <2>1, <2>2, <1>4, Fields DEF Places
    <3> QED  BY <3>1, <1>1, <1>2, SamePlaces
  <2>7. \A j \in Key, d \in Copy : Working(j, d)' <=> (j = k /\ d = c) \/ Working(j, d)
    BY <2>1 DEF Working
  <2>8. Served'
    <3>1. \A j \in Key, d \in Copy : Working(j, d)' <=> lease'[j] = d
      BY <2>2, <2>4, <2>7 DEF Served
    <3>2. \A j \in Key, d \in Copy : Working(j, d)' => ops'[j] = "open"
      BY <2>2, <2>4, <2>7 DEF Served
    <3>3. \A j \in Key, d \in Copy : req'[j][d].at = "ran" => req'[j][d].answer \in Answers
      BY <2>1 DEF Served
    <3>4. \A j \in Key : ops'[j] = "none" => applied'[j] = 0  BY <1>1, <2>2 DEF Served
    <3> QED  BY <3>1, <3>2, <3>3, <3>4 DEF Served
  <2>9. FirstRun'
    <3> SUFFICES ASSUME ~crashed, NEW j \in Key
                 PROVE  /\ ops'[j] = "open" => \E d \in Copy : Working(j, d)'
                        /\ \A d \in Copy : req'[j][d].at = "routing" => applied[j] = 0
                        /\ \A d \in Copy : req'[j][d].at = "ran" /\ applied[j] > 0 => req'[j][d].answer = "ok"
                        /\ ops'[j] \in Answers /\ applied[j] > 0 => ops'[j] = "ok"
      BY <1>1 DEF FirstRun
    <3>1. CASE j # k
      <4>1. ops'[j] = ops[j] /\ \A d \in Copy : req'[j][d] = req[j][d]  BY <3>1, <2>1, <2>2
      <4>2. \A d \in Copy : Working(j, d)' <=> Working(j, d)  BY <3>1, <2>7
      <4> QED  BY <4>1, <4>2 DEF FirstRun
    <3>2. CASE j = k
      <4>1. applied[k] = 0  BY <2>3, <2>4 DEF FirstRun, Served
      <4>2. "open" \notin Answers  BY DEF Answers
      <4> QED  BY <3>2, <4>1, <4>2, <2>2, <2>7
    <3> QED  BY <3>1, <3>2
  <2>10. Earned'
    <3>1. \A j \in Key : ops'[j] = ops[j] \/ ops'[j] # "ok"  BY <2>2
    <3>2. \A j \in Key, d \in Copy : req'[j][d] = req[j][d] \/ req'[j][d].at = "routing"
      BY <2>1
    <3> QED  BY <3>1, <3>2, <1>3, StillEarned
  <2>11. OneSent' /\ SentInOrder' /\ CopyComplete' /\ NothingLost'
    BY <1>1, <1>3, <2>1, ServerQueue
  <2> QED  BY <1>5, <2>5, <2>6, <2>8, <2>9, <2>10, <2>11
<1>8. CASE lease[k] # "free" /\ Reply(k, c, "busy") /\ UNCHANGED <<ops, lease>>
  BY <1>6, <1>8
<1>9. CASE Replayed(k) /\ Reply(k, c, ops[k]) /\ UNCHANGED <<ops, lease>>
  BY <1>6, <1>9 DEF Replayed, Earned
<1>10. CASE Recovered(k) /\ Reply(k, c, "ok") /\ UNCHANGED <<ops, lease>>
  BY <1>4, <1>6, <1>10, RecoveredAchieved DEF Answers
<1> QED  BY <1>7, <1>8, <1>9, <1>10 DEF Arrive

(* A mutation takes effect where its record is as it was read: it had not      *)
(* before, and all that stands before it in the queue has.                     *)
LEMMA RouteInv ==
  ASSUME IInv, NEW k \in Key, NEW c \in Copy, Route(k, c)
  PROVE  IInv'
<1> USE DEF IInv
<1>1. /\ req[k][c].at = "routing"
      /\ req' = [req EXCEPT ![k][c] = [at |-> "ran", answer |-> Verdict(k)]]
      /\ UNCHANGED <<client, ops, lease, faults, crashed>>
      /\ UNCHANGED <<stored, entry, used, sequence, list, waived>>
  BY DEF Route, client
<1>2. k \in 1..used /\ SameEdits  BY <1>1, Fields DEF Places, Key, SameEdits
<1>3. Verdict(k) \in Answers  BY DEF Verdict, Answers
<1>4. /\ req' \in [Key -> [Copy -> Request]]
      /\ \A j \in Key, d \in Copy : j # k \/ d # c => req'[j][d] = req[j][d]
      /\ req'[k][c].at = "ran" /\ req'[k][c].answer = Verdict(k)
  <2>1. [at |-> "ran", answer |-> Verdict(k)] \in Request  BY <1>3 DEF Request
  <2> QED  BY <1>1, <2>1 DEF TypeOK
<1>5. \A j \in Key, d \in Copy : Working(j, d)' <=> Working(j, d)
  BY <1>1, <1>4 DEF Working
<1> DEFINE e == entry[k]
           r == entry[k].id
<1>6. /\ e.method \in {"POST", "PATCH", "DELETE"} /\ r \in Record /\ e.base \in Nat
      /\ rec[r].version \in Nat /\ applied[k] \in Nat
  BY Fields
<1>7. \/ /\ Verdict(k) = "ok"
         /\ rec' = [rec EXCEPT ![r] = Target(k)]
         /\ applied' = [applied EXCEPT ![k] = @ + 1]
         /\ overtook' = IF \E j \in stored : Older(j, k) /\ ~Achieved(j)
                        THEN overtook \cup {k} ELSE overtook
      \/ Verdict(k) # "ok" /\ UNCHANGED <<rec, applied, overtook>>
  BY DEF Route
<1>8. overtook' = overtook
  <2>1. \A j \in stored : Older(j, k) => Achieved(j)  BY <1>1 DEF SentInOrder
  <2> QED  BY <1>7, <2>1
<1>9. Verdict(k) = "ok" =>
        /\ applied[k] = 0 /\ rec[r].version >= e.base /\ ~rec[r].deleted
        /\ r \in Key => r = k \/ applied[r] > 0
  <2> SUFFICES ASSUME Verdict(k) = "ok"
               PROVE  /\ applied[k] = 0 /\ rec[r].version >= e.base /\ ~rec[r].deleted
                      /\ r \in Key => r = k \/ applied[r] > 0
    OBVIOUS
  <2>1. CASE e.method = "POST"
    <3>1. rec[r].version = 0 /\ r = k /\ e.base = 0  BY <2>1, <1>2 DEF Verdict, Places
    <3>2. applied[k] = 0  BY <3>1, <1>6 DEF Effects
    <3>3. ~rec[r].deleted  BY <3>1, <1>6 DEF Effects
    <3> QED  BY <3>1, <3>2, <3>3
  <2>2. CASE e.method # "POST"
    <3>1. rec[r].version = e.base /\ rec[r].version > 0 /\ ~rec[r].deleted
      BY <2>2 DEF Verdict, Visible
    <3>2. applied[k] = 0  BY <3>1, <1>6 DEF Effects
    <3>3. r \in Key => applied[r] > 0  BY <3>1 DEF Effects
    <3> QED  BY <3>1, <3>2, <3>3, <1>6
  <2> QED  BY <2>1, <2>2
<1>10. /\ Target(k) \in Row /\ Target(k).version = rec[r].version + 1 /\ Target(k).by = k
       /\ Target(k).version > 0 /\ k \in 0..MaxKeys
  BY <1>6, OfflineAssumption DEF Target, Row, Key
<1>11. /\ rec' \in [Record -> Row] /\ applied' \in [Key -> Nat]
       /\ \A s \in Record : s # r \/ Verdict(k) # "ok" => rec'[s] = rec[s]
       /\ Verdict(k) = "ok" => rec'[r] = Target(k) /\ applied'[k] = 1
       /\ \A j \in Key : j # k \/ Verdict(k) # "ok" => applied'[j] = applied[j]
  BY <1>6, <1>7, <1>9, <1>10 DEF TypeOK
<1>12. Grows
  <2>1. \A j \in Key : applied[j] <= applied'[j]  BY <1>6, <1>9, <1>11, Fields
  <2>2. \A s \in Record : /\ rec[s].version <= rec'[s].version
                          /\ rec[s].deleted => rec'[s].deleted
    BY <1>6, <1>9, <1>10, <1>11, Fields
  <2> QED  BY <1>1, <2>1, <2>2, Fields DEF Grows
<1>13. \A j \in 1..used : Achieved(j) => Achieved(j)'
  BY <1>1, <1>11, <1>12, AchievedStays, Fields
<1>14. TypeOK'  BY <1>1, <1>4, <1>8, <1>11 DEF TypeOK
<1>15. Places'
  <2>1. \A j \in Key : j > used => /\ j # k /\ applied'[j] = applied[j] /\ ops'[j] = ops[j]
                                   /\ \A d \in Copy : req'[j][d].at = "none"
    BY <1>1, <1>2, <1>4, <1>11, Fields DEF Places
  <2> QED  BY <2>1, <1>2, SamePlaces
<1>16. Effects'
  <2>1. CASE Verdict(k) # "ok"  BY <2>1, <1>1, <1>7, SameEffects
  <2>2. CASE Verdict(k) = "ok"
    <3>1. \A s \in Record : rec'[s].deleted => rec'[s].version > 0
      BY <2>2, <1>10, <1>11 DEF Effects
    <3>2. \A s \in Record : rec'[s].by # 0 => applied'[rec'[s].by] > 0
      <4>1. \A s \in Record : rec[s].by # 0 => rec[s].by \in Key  BY Fields DEF Key
      <4>2. \A j \in Key : applied[j] > 0 => applied'[j] > 0  BY <2>2, <1>11, Fields
      <4>3. \A s \in Record : rec[s].by # 0 => applied'[rec[s].by] > 0  BY <4>1, <4>2 DEF Effects
      <4> QED  BY <2>2, <4>3, <1>10, <1>11
    <3>3. \A s \in Key : rec'[s].version > 0 => applied'[s] > 0
      <4>1. \A j \in Key : applied[j] > 0 => applied'[j] > 0  BY <2>2, <1>11, Fields
      <4>2. \A s \in Key : s \in Record  BY DEF Record
      <4> QED  BY <2>2, <4>1, <4>2, <1>9, <1>11 DEF Effects
    <3>4. \A j \in Key : applied'[j] > 0 => rec'[entry'[j].id].version > entry'[j].base
      <4> SUFFICES ASSUME NEW j \in Key, applied'[j] > 0
                   PROVE  rec'[entry[j].id].version > entry[j].base
        BY <1>1
      <4>1. CASE j = k  BY <4>1, <2>2, <1>6, <1>9, <1>10, <1>11
      <4>2. CASE j # k
        <5>1. /\ rec[entry[j].id].version > entry[j].base
              /\ entry[j].id \in Record /\ entry[j].base \in Nat
          BY <4>2, <1>11, Fields DEF Effects
        <5>2. rec[entry[j].id].version <= rec'[entry[j].id].version  BY <5>1, <1>12 DEF Grows
        <5>3. rec[entry[j].id].version \in Nat /\ rec'[entry[j].id].version \in Nat
          BY <5>1, <1>6, <1>10, <1>11, Fields
        <5> QED  BY <5>1, <5>2, <5>3
      <4> QED  BY <4>1, <4>2
    <3> QED  BY <3>1, <3>2, <3>3, <3>4 DEF Effects
  <2> QED  BY <2>1, <2>2
<1>17. AppliedOnce' /\ NeverOvertaken'
  BY <1>8, <1>11 DEF AppliedOnce, NeverOvertaken
<1>18. Served'
  <2>1. \A j \in Key, d \in Copy : req'[j][d].at = "ran" => req'[j][d].answer \in Answers
    BY <1>3, <1>4 DEF Served
  <2>2. ops[k] # "none"  BY <1>1 DEF Served, Working
  <2>3. \A j \in Key : ops'[j] = "none" => applied'[j] = 0  BY <2>2, <1>1, <1>11 DEF Served
  <2> QED  BY <2>1, <2>3, <1>1, <1>5 DEF Served
<1>19. FirstRun'
  <2> SUFFICES ASSUME ~crashed, NEW j \in Key
               PROVE  /\ ops[j] = "open" => \E d \in Copy : Working(j, d)'
                      /\ \A d \in Copy : req'[j][d].at = "routing" => applied'[j] = 0
                      /\ \A d \in Copy : req'[j][d].at = "ran" /\ applied'[j] > 0 => req'[j][d].answer = "ok"
                      /\ ops[j] \in Answers /\ applied'[j] > 0 => ops[j] = "ok"
    BY <1>1 DEF FirstRun
  <2>1. ops[j] = "open" => \E d \in Copy : Working(j, d)'  BY <1>5 DEF FirstRun
  <2>2. CASE j # k
    <3>1. applied'[j] = applied[j] /\ \A d \in Copy : req'[j][d] = req[j][d]  BY <2>2, <1>4, <1>11
    <3> QED  BY <2>1, <3>1 DEF FirstRun
  <2>3. CASE j = k
    <3>1. \A d \in Copy : d # c => ~Working(k, d)' /\ ~Working(k, d)
      BY <1>1, <1>5 DEF Served, Working
    <3>2. \A d \in Copy : d # c => req'[k][d].at \notin {"routing", "ran"}
      BY <3>1 DEF Working
    <3>3. ops[k] = "open" /\ "open" \notin Answers  BY <1>1 DEF Served, Working, Answers
    <3>4. applied[k] = 0  BY <1>1 DEF FirstRun
    <3>5. applied'[k] > 0 => Verdict(k) = "ok"  BY <3>4, <1>11
    <3> QED  BY <2>1, <2>3, <3>2, <3>3, <3>5, <1>4
  <2> QED  BY <2>2, <2>3
<1>20. Earned'
  <2>1. Verdict(k) = "ok" => Achieved(k)'
    <3>1. Verdict(k) = "ok" => k \in 1..used' /\ applied'[k] > 0  BY <1>1, <1>2, <1>11
    <3> QED  BY <3>1 DEF Achieved
  <2>2. \A j \in Key, d \in Copy :
           \/ \E f \in Copy : req'[j][d] = req[j][f]
           \/ req'[j][d].at \in {"ran", "answered"} /\ req'[j][d].answer = "ok" => Achieved(j)'
    BY <2>1, <1>4
  <2> QED  BY <2>2, <1>1, <1>13, StillEarned
<1>21. OneSent' /\ SentInOrder' /\ CopyComplete' /\ NothingLost'
  BY <1>1, <1>4, <1>12, <1>13, ServerQueue
<1> QED  BY <1>14, <1>15, <1>16, <1>17, <1>18, <1>19, <1>20, <1>21

LEMMA FinishInv ==
  ASSUME IInv, NEW k \in Key, NEW c \in Copy, Finish(k, c)
  PROVE  IInv'
<1> USE DEF IInv
<1> DEFINE answer == req[k][c].answer
<1>1. /\ req[k][c].at = "ran" /\ Reply(k, c, answer)
      /\ ops' = [ops EXCEPT ![k] = answer] /\ lease' = Free(k, c)
      /\ UNCHANGED <<client, rec, applied, overtook, faults, crashed>>
      /\ UNCHANGED <<stored, entry, used, sequence, list, waived>>
  BY DEF Finish, client
<1>2. k \in 1..used /\ SameEdits  BY <1>1, Fields DEF Places, Key, SameEdits
<1>3. answer \in Answers /\ Working(k, c) /\ lease[k] = c  BY <1>1 DEF Served, Working
<1>4. /\ req' \in [Key -> [Copy -> Request]]
      /\ \A j \in Key, d \in Copy : j # k \/ d # c => req'[j][d] = req[j][d]
      /\ req'[k][c].at \in {"none", "answered"}
      /\ req'[k][c].at = "answered" => req'[k][c].answer = answer
  BY <1>1, <1>3, ReplyFacts
<1>5. /\ ops' \in [Key -> {"none", "open"} \cup Answers] /\ lease' \in [Key -> {"free", "dead"} \cup Copy]
      /\ ops'[k] = answer /\ lease'[k] = "free"
      /\ \A j \in Key : j # k => ops'[j] = ops[j] /\ lease'[j] = lease[j]
  BY <1>1, <1>3 DEF TypeOK, Free
<1>6. Grows /\ \A j \in 1..used : Achieved(j) => Achieved(j)'  BY <1>1, <1>2, SameGrows
<1>7. \A d \in Copy : ~Working(k, d)' /\ (d # c => ~Working(k, d))
  BY <1>3, <1>4 DEF Served, Working
<1>8. \A j \in Key, d \in Copy : j # k => (Working(j, d)' <=> Working(j, d))
  BY <1>4 DEF Working
<1>9. TypeOK'  BY <1>1, <1>4, <1>5 DEF TypeOK
<1>10. Places'
  <2>1. \A j \in Key : j > used => ops'[j] = ops[j] /\ \A d \in Copy : req'[j][d].at = "none"
    BY <1>2, <1>4, <1>5, Fields DEF Places
  <2> QED  BY <2>1, <1>1, <1>2, SamePlaces
<1>11. Effects' /\ AppliedOnce' /\ NeverOvertaken'
  BY <1>1, SameEffects DEF AppliedOnce, NeverOvertaken
<1>12. Served'
  <2>1. \A j \in Key, d \in Copy : Working(j, d)' <=> lease'[j] = d
    BY <1>5, <1>7, <1>8 DEF Served, Copy
  <2>2. \A j \in Key, d \in Copy : Working(j, d)' => ops'[j] = "open"
    BY <1>5, <1>7, <1>8 DEF Served
  <2>3. \A j \in Key, d \in Copy : req'[j][d].at = "ran" => req'[j][d].answer \in Answers
    BY <1>4 DEF Served
  <2>4. "none" \notin Answers  BY DEF Answers
  <2>5. \A j \in Key : ops'[j] = "none" => applied'[j] = 0  BY <2>4, <1>1, <1>3, <1>5 DEF Served
  <2> QED  BY <2>1, <2>2, <2>3, <2>5 DEF Served
<1>13. FirstRun'
  <2> SUFFICES ASSUME ~crashed, NEW j \in Key
               PROVE  /\ ops'[j] = "open" => \E d \in Copy : Working(j, d)'
                      /\ \A d \in Copy : req'[j][d].at = "routing" => applied[j] = 0
                      /\ \A d \in Copy : req'[j][d].at = "ran" /\ applied[j] > 0 => req'[j][d].answer = "ok"
                      /\ ops'[j] \in Answers /\ applied[j] > 0 => ops'[j] = "ok"
    BY <1>1 DEF FirstRun
  <2>1. CASE j # k
    <3>1. ops'[j] = ops[j] /\ \A d \in Copy : req'[j][d] = req[j][d]  BY <2>1, <1>4, <1>5
    <3>2. \A d \in Copy : Working(j, d)' <=> Working(j, d)  BY <2>1, <1>8
    <3> QED  BY <3>1, <3>2 DEF FirstRun
  <2>2. CASE j = k
    <3>1. ops'[k] # "open"  BY <1>3, <1>5 DEF Answers
    <3>2. \A d \in Copy : req'[k][d].at \notin {"routing", "ran"}  BY <1>7 DEF Working
    <3>3. applied[k] > 0 => answer = "ok"  BY <1>1 DEF FirstRun
    <3> QED  BY <2>2, <3>1, <3>2, <3>3, <1>5
  <2> QED  BY <2>1, <2>2
<1>14. Earned'
  <2>1. answer = "ok" => Achieved(k)'  BY <1>1, <1>2, <1>6 DEF Earned
  <2>2. \A j \in Key : \/ ops'[j] = ops[j]
                       \/ ops'[j] = "ok" => j \in 1..used /\ Achieved(j)'
    BY <2>1, <1>2, <1>5
  <2>3. \A j \in Key, d \in Copy :
           \/ \E f \in Copy : req'[j][d] = req[j][f]
           \/ req'[j][d].at \in {"ran", "answered"} /\ req'[j][d].answer = "ok" => Achieved(j)'
    BY <2>1, <1>4
  <2> QED  BY <2>2, <2>3, <1>6, StillEarned
<1>15. OneSent' /\ SentInOrder' /\ CopyComplete' /\ NothingLost'
  BY <1>1, <1>4, <1>6, ServerQueue
<1> QED  BY <1>9, <1>10, <1>11, <1>12, <1>13, <1>14, <1>15

LEMMA ExpireLeaseInv ==
  ASSUME IInv, NEW k \in Key, ExpireLease(k)
  PROVE  IInv'
<1> USE DEF IInv
<1>1. /\ lease[k] = "dead" /\ lease' = [lease EXCEPT ![k] = "free"]
      /\ UNCHANGED <<client, rec, ops, applied, overtook, req, faults, crashed>>
      /\ UNCHANGED <<stored, entry, used, sequence, list, waived>>
  BY DEF ExpireLease, client
<1>2. SameEdits  BY <1>1 DEF SameEdits
<1>3. \A j \in 1..used : Achieved(j) => Achieved(j)'  BY <1>1, <1>2, SameGrows
<1>4. TypeOK'  BY <1>1 DEF TypeOK
<1>5. Places'  BY <1>1, <1>2, SamePlaces DEF Places
<1>6. Effects' /\ AppliedOnce' /\ NeverOvertaken'
  BY <1>1, SameEffects DEF AppliedOnce, NeverOvertaken
<1>7. Served'
  <2>1. \A j \in Key, d \in Copy : lease'[j] = d <=> lease[j] = d
    BY <1>1 DEF TypeOK, Copy
  <2> QED  BY <1>1, <2>1 DEF Served, Working
<1>8. FirstRun'  BY <1>1 DEF FirstRun, Working
<1>9. Earned'  BY <1>1, <1>3, StillEarned
<1>10. OneSent'  BY <1>1 DEF OneSent, Due, Older
<1>11. SentInOrder'  BY <1>1, <1>2, <1>3, StillInOrder
<1>12. CopyComplete' /\ NothingLost'  BY <1>1, <1>2, <1>3, StillComplete, StillNotLost
<1> QED  BY <1>4, <1>5, <1>6, <1>7, <1>8, <1>9, <1>10, <1>11, <1>12

(* Others only move a record further from what a mutation in it was based on.  *)
LEMMA OtherWriteInv ==
  ASSUME IInv, OtherWrite(Doc)
  PROVE  IInv'
<1> USE DEF IInv
<1>1. /\ Visible(Doc)
      /\ \E gone \in BOOLEAN :
           rec' = [rec EXCEPT ![Doc] = [version |-> rec[Doc].version + 1, deleted |-> gone, by |-> 0]]
      /\ UNCHANGED <<client, ops, lease, applied, overtook, req, faults, crashed>>
      /\ UNCHANGED <<stored, entry, used, sequence, list, waived>>
  BY DEF OtherWrite, client
<1>2. SameEdits /\ Doc \in Record /\ Doc \notin Key /\ rec[Doc].version \in Nat /\ ~rec[Doc].deleted
  BY <1>1, Fields DEF SameEdits, Doc, Record, Key, Visible
<1>3. /\ rec' \in [Record -> Row] /\ rec'[Doc].version = rec[Doc].version + 1 /\ rec'[Doc].by = 0
      /\ \A r \in Record : r # Doc => rec'[r] = rec[r]
  <2>. PICK gone \in BOOLEAN :
         rec' = [rec EXCEPT ![Doc] = [version |-> rec[Doc].version + 1, deleted |-> gone, by |-> 0]]
    BY <1>1
  <2>1. [version |-> rec[Doc].version + 1, deleted |-> gone, by |-> 0] \in Row
    BY <1>2, OfflineAssumption DEF Row
  <2> QED  BY <1>2, <2>1 DEF TypeOK
<1>4. \A r \in Record : rec[r].version <= rec'[r].version /\ (rec[r].deleted => rec'[r].deleted)
  BY <1>2, <1>3, Fields
<1>5. Grows  BY <1>1, <1>4, Fields DEF Grows
<1>6. \A j \in 1..used : Achieved(j) => Achieved(j)'  BY <1>1, <1>5, AchievedStays, Fields
<1>7. TypeOK'  BY <1>1, <1>3 DEF TypeOK
<1>8. Places'  BY <1>1, <1>2, SamePlaces DEF Places
<1>9. Effects'
  <2>1. \A j \in Key : applied[j] > 0 => rec'[entry[j].id].version > entry[j].base
    <3> SUFFICES ASSUME NEW j \in Key, applied[j] > 0 PROVE rec'[entry[j].id].version > entry[j].base
      OBVIOUS
    <3>1. entry[j].id \in Record /\ entry[j].base \in Nat /\ rec[entry[j].id].version \in Nat  BY Fields
    <3>2. rec'[entry[j].id].version \in Nat  BY <3>1, <1>2, <1>3
    <3> QED  BY <3>1, <3>2, <1>4 DEF Effects
  <2>2. \A r \in Key : r \in Record /\ r # Doc  BY <1>2 DEF Record
  <2> QED  BY <2>1, <2>2, <1>1, <1>2, <1>3 DEF Effects
<1>10. AppliedOnce' /\ NeverOvertaken'  BY <1>1 DEF AppliedOnce, NeverOvertaken
<1>11. Served' /\ FirstRun'  BY <1>1, SameServed, SameFirstRun DEF Working
<1>12. Earned'  BY <1>1, <1>6, StillEarned
<1>13. OneSent'  BY <1>1 DEF OneSent, Due, Older
<1>14. SentInOrder'  BY <1>1, <1>2, <1>6, StillInOrder
<1>15. CopyComplete' /\ NothingLost'  BY <1>1, <1>2, <1>6, StillComplete, StillNotLost
<1> QED  BY <1>7, <1>8, <1>9, <1>10, <1>11, <1>12, <1>13, <1>14, <1>15

-----------------------------------------------------------------------------
LEMMA InitInv == Init => IInv
<1> SUFFICES ASSUME Init PROVE IInv  OBVIOUS
<1>1. /\ stored = {} /\ used = 0 /\ sequence = 0 /\ list = {} /\ waived = {} /\ overtook = {}
      /\ faults = 0 /\ crashed = FALSE /\ MaxKeys \in Nat /\ MaxFaults \in Nat
      /\ \A k \in Key : entry[k] = NoEntry /\ ops[k] = "none" /\ lease[k] = "free" /\ applied[k] = 0
      /\ \A k \in Key, c \in Copy : req[k][c] = Idle
      /\ \A r \in Record : rec[r] = [version |-> IF r = Doc THEN 1 ELSE 0, deleted |-> FALSE, by |-> 0]
  BY OfflineAssumption DEF Init
<1>2. /\ NoEntry \in Entry /\ NoEntry.seq = 0 /\ NoEntry.base = 0 /\ Doc \in Record
      /\ \A r \in Record : [version |-> IF r = Doc THEN 1 ELSE 0, deleted |-> FALSE, by |-> 0] \in Row
  BY <1>1 DEF NoEntry, Entry, Status, Record, Row
<1>3. TypeOK
  <2>1. entry \in [Key -> Entry] /\ rec \in [Record -> Row]  BY <1>2 DEF Init
  <2>2. req \in [Key -> [Copy -> Request]]  BY Constructed DEF Init
  <2>3. /\ ops \in [Key -> {"none", "open"} \cup Answers] /\ lease \in [Key -> {"free", "dead"} \cup Copy]
        /\ applied \in [Key -> Nat]
    BY DEF Init
  <2>4. /\ stored \subseteq 1..used /\ list \subseteq 1..used /\ waived \subseteq 1..used /\ overtook \subseteq Key
        /\ used \in 0..MaxKeys /\ sequence \in Nat /\ faults \in 0..MaxFaults /\ crashed \in BOOLEAN
    <3>1. MaxKeys \in Nat /\ MaxFaults \in Nat  BY OfflineAssumption
    <3>2. 0 \in 0..MaxKeys /\ 0 \in 0..MaxFaults  BY <3>1
    <3> QED  BY <3>2 DEF Init
  <2> QED  BY <2>1, <2>2, <2>3, <2>4 DEF TypeOK
<1>4. Places  BY <1>1, <1>2, Constructed DEF Places
<1>5. Effects
  <2>1. \A r \in Key : r \in Record /\ r # Doc  BY <1>1 DEF Key, Record, Doc
  <2>2. \A r \in Record : /\ rec[r].deleted = FALSE /\ rec[r].by = 0
                          /\ rec[r].version = IF r = Doc THEN 1 ELSE 0
    BY DEF Init
  <2> QED  BY <1>1, <2>1, <2>2 DEF Effects
<1>6. Served /\ FirstRun /\ Earned
  BY <1>1, Constructed DEF Served, FirstRun, Earned, Working, Copy, Answers
<1>7. OneSent /\ SentInOrder /\ CopyComplete /\ NothingLost /\ NeverOvertaken /\ AppliedOnce
  BY <1>1, Constructed DEF OneSent, SentInOrder, CopyComplete, NothingLost, NeverOvertaken, AppliedOnce, Copy
<1> QED  BY <1>3, <1>4, <1>5, <1>6, <1>7 DEF IInv

LEMMA StepInv == IInv /\ [Next]_vars => IInv'
<1> SUFFICES ASSUME IInv, [Next]_vars PROVE IInv'  OBVIOUS
<1>1. CASE Enqueue  BY <1>1, EnqueueInv
<1>2. CASE StartFlush  BY <1>2, StartFlushInv
<1>3. CASE CloseTab  BY <1>3, CloseTabInv
<1>4. CASE Crash  BY <1>4, CrashInv
<1>5. ASSUME NEW k \in Key, Send(k) PROVE IInv'  BY <1>5, SendInv
<1>6. ASSUME NEW k \in Key, Settle(k) PROVE IInv'  BY <1>6, SettleInv
<1>7. ASSUME NEW k \in Key, LoseRequest(k) PROVE IInv'  BY <1>7, LoseRequestInv
<1>8. ASSUME NEW k \in Key, Discard(k) PROVE IInv'  BY <1>8, DiscardInv
<1>9. ASSUME NEW k \in Key, Resolve(k) PROVE IInv'  BY <1>9, ResolveInv
<1>10. ASSUME NEW k \in Key, ExpireLease(k) PROVE IInv'  BY <1>10, ExpireLeaseInv
<1>11. ASSUME NEW k \in Key, NEW c \in Copy, Arrive(k, c) PROVE IInv'  BY <1>11, ArriveInv
<1>12. ASSUME NEW k \in Key, NEW c \in Copy, Route(k, c) PROVE IInv'  BY <1>12, RouteInv
<1>13. ASSUME NEW k \in Key, NEW c \in Copy, Finish(k, c) PROVE IInv'  BY <1>13, FinishInv
<1>14. CASE OtherWrite(Doc)  BY <1>14, OtherWriteInv
<1>15. CASE UNCHANGED vars
  BY <1>15 DEF vars, client, server, IInv, TypeOK, Places, Effects, AppliedOnce, Served, Earned, FirstRun,
               OneSent, SentInOrder, CopyComplete, NothingLost, NeverOvertaken, Working, Achieved, Due, Older
<1> QED
  BY <1>1, <1>2, <1>3, <1>4, <1>5, <1>6, <1>7, <1>8, <1>9, <1>10, <1>11, <1>12, <1>13, <1>14, <1>15
     DEF Next, Replay, Serve

LEMMA Invariant == Spec => []IInv
BY InitInv, StepInv, PTL DEF Spec

(* The components keep their types.                                            *)
THEOREM TypeCorrect == Spec => []TypeOK
<1>1. IInv => TypeOK  BY DEF IInv
<1> QED  BY <1>1, Invariant, PTL

(* Repetition never doubles an edit, never drops one, and, while no server has *)
(* crashed, never turns the success of an edit into a conflict with itself     *)
(* (offline.js, flushQueue; server.js, api_operations).                        *)
THEOREM EditsExactlyOnce == Spec => []ExactlyOnce
<1>1. IInv => ExactlyOnce
  <2> SUFFICES ASSUME IInv PROVE ExactlyOnce  OBVIOUS
  <2>1. AppliedOnce /\ NothingLost  BY DEF IInv
  <2>2. AnswersAgree  BY DEF IInv, FirstRun, AnswersAgree
  <2> QED  BY <2>1, <2>2 DEF ExactlyOnce
<1> QED  BY <1>1, Invariant, PTL

(* No mutation takes effect before an older one of the queue that is open:     *)
(* flushQueue stops at the first that fails, and what it has left is complete. *)
THEOREM EditsInOrder == Spec => []NeverOvertaken
<1>1. IInv => NeverOvertaken  BY DEF IInv
<1> QED  BY <1>1, Invariant, PTL
=============================================================================
