---------------------------- MODULE Collab_proofs ----------------------------
(* Proofs about the collaborative draft, for every set of tabs, processes,     *)
(* edits and every number of faults.                                           *)
EXTENDS Collab, FiniteSetTheorems, TLAPS

Ran(s) == {s[i] : i \in DOMAIN s}

-----------------------------------------------------------------------------
(* Sequences.                                                                  *)
LEMMA RanEmpty == Ran(<<>>) = {}
BY DEF Ran

LEMMA RanIn == ASSUME NEW S, NEW s \in Seq(S) PROVE Ran(s) \subseteq S
BY DEF Ran

LEMMA RanAppend ==
  ASSUME NEW S, NEW s \in Seq(S), NEW e \in S
  PROVE  Append(s, e) \in Seq(S) /\ Ran(Append(s, e)) = Ran(s) \cup {e}
<1> DEFINE t == Append(s, e)
<1>1. t \in Seq(S) /\ DOMAIN t = 1..Len(s) + 1 /\ DOMAIN s = 1..Len(s) /\ Len(s) \in Nat
  OBVIOUS
<1>2. \A i \in DOMAIN s : i \in DOMAIN t /\ t[i] = s[i]
  OBVIOUS
<1>3. t[Len(s) + 1] = e /\ Len(s) + 1 \in DOMAIN t
  OBVIOUS
<1>4. \A i \in DOMAIN t : i \in DOMAIN s \/ i = Len(s) + 1
  BY <1>1
<1> HIDE DEF t
<1>5. Ran(t) = Ran(s) \cup {e}
  BY <1>2, <1>3, <1>4 DEF Ran
<1> QED  BY <1>1, <1>5 DEF t

LEMMA RanTail ==
  ASSUME NEW S, NEW s \in Seq(S), s # <<>>
  PROVE  /\ Head(s) \in S /\ Tail(s) \in Seq(S) /\ Head(s) \in Ran(s)
         /\ Ran(Tail(s)) \subseteq Ran(s) /\ Ran(s) \subseteq Ran(Tail(s)) \cup {Head(s)}
<1> DEFINE t == Tail(s)
<1>1. /\ t \in Seq(S) /\ Len(s) \in Nat /\ Len(s) > 0
      /\ DOMAIN t = 1..Len(s) - 1 /\ DOMAIN s = 1..Len(s)
  OBVIOUS
<1>2. \A i \in DOMAIN t : i + 1 \in DOMAIN s /\ t[i] = s[i + 1]
  OBVIOUS
<1>3. Head(s) = s[1] /\ 1 \in DOMAIN s
  BY <1>1
<1>4. \A i \in DOMAIN s : i = 1 \/ (i - 1 \in DOMAIN t /\ s[i] = t[i - 1])
  <2> TAKE i \in DOMAIN s
  <2>1. CASE i = 1  BY <2>1
  <2>2. CASE i # 1
    <3>1. i - 1 \in DOMAIN t /\ (i - 1) + 1 = i  BY <1>1, <2>2
    <3> QED  BY <3>1, <1>2
  <2> QED  BY <2>1, <2>2
<1>5. s[1] \in S  BY <1>3
<1> HIDE DEF t
<1>6. Ran(t) \subseteq Ran(s)  BY <1>2 DEF Ran
<1>7. Ran(s) \subseteq Ran(t) \cup {Head(s)}  BY <1>3, <1>4 DEF Ran
<1>8. Head(s) \in Ran(s)  BY <1>3 DEF Ran
<1> QED  BY <1>1, <1>3, <1>5, <1>6, <1>7, <1>8 DEF t

LEMMA RanPair ==
  ASSUME NEW S, NEW s \in Seq(S), NEW x \in S, NEW y \in S
  PROVE  /\ s \o <<x, y>> \in Seq(S) /\ Ran(s \o <<x, y>>) \subseteq Ran(s) \cup {x, y}
<1>1. s \o <<x, y>> = Append(Append(s, x), y)
  OBVIOUS
<1>2. Append(s, x) \in Seq(S) /\ Ran(Append(s, x)) = Ran(s) \cup {x}
  BY RanAppend
<1> DEFINE t == Append(s, x)
<1>3. t \in Seq(S)  BY <1>2
<1> HIDE DEF t
<1>4. Append(t, y) \in Seq(S) /\ Ran(Append(t, y)) = Ran(t) \cup {y}
  BY <1>3, RanAppend
<1>5. Append(t, y) \in Seq(S) /\ Ran(Append(t, y)) \subseteq Ran(s) \cup {x, y}
  BY <1>2, <1>4 DEF t
<1> QED  BY <1>1, <1>5 DEF t

LEMMA RanOne ==
  ASSUME NEW S, NEW x \in S
  PROVE  <<x>> \in Seq(S) /\ Ran(<<x>>) = {x}
<1>1. <<x>> \in Seq(S) /\ DOMAIN <<x>> = {1} /\ <<x>>[1] = x
  OBVIOUS
<1> DEFINE t == <<x>>
<1>2. DOMAIN t = {1} /\ t[1] = x  BY <1>1
<1> HIDE DEF t
<1>3. Ran(t) = {x}  BY <1>2 DEF Ran
<1> QED  BY <1>1, <1>3 DEF t

-----------------------------------------------------------------------------
(* The inductive invariant, in layers.                                         *)

\* What the variables are, and that a suspended join holds a room of the
\* process its connection goes to.
Joins == \A c \in Client : joining[c].at # "no" =>
           joining[c].room \in Room /\ joining[c].room[1] = conn[c]
Typed == TypeOK /\ Joins

\* A cached document of the row's revision is the row, and a process whose room
\* is behind has an event still to read.
RoomsFresh ==
  /\ \A r \in Room : room[r].rev = row.rev => room[r].doc = row.ups
  /\ \A n \in Node : mapped[n] # NoRoom /\ room[mapped[n]].rev < row.rev => n \in stale
\* Nothing is reported to a tab as stored before it is.
Reports(m) == /\ m.kind \in {"joined", "update", "ack"} => m.ups \subseteq row.ups
              /\ m.kind = "ack" => m.ids \subseteq row.ups
Reported ==
  /\ \A k \in checks : k.ups \subseteq row.ups
  /\ \A c \in Client : /\ ed[c].snap.vector \subseteq row.ups
                       /\ \A m \in Ran(down[c]) : Reports(m)
\* A request names only entries that it carries or that are stored, and carries
\* no seed that is not stored.
Asks(m) == m.kind = "update" =>
  m.ids \subseteq m.ups \cup row.ups /\ m.ups \subseteq row.ups \cup Edit
Asked ==
  /\ \A c \in Client : /\ ed[c].snap.ids \subseteq ed[c].snap.ups
                       /\ flush[c].at = "loaded" => flush[c].ids \subseteq flush[c].ups
                       /\ \A m \in Ran(up[c]) : Asks(m)
  /\ \A u \in User : journal[u].pending \subseteq journal[u].ups

-----------------------------------------------------------------------------
(* What the variables' components are.                                         *)
Wired(w) == w \in [Client -> Seq(Message)]

LEMMA Rooms ==
  /\ NoRoom \notin Room /\ NoRoom[1] = None
  /\ \A r \in Room : r[1] \in Node /\ r # NoRoom
  /\ \A n \in Node : \A r \in {NoRoom} \cup ({n} \X Slot) : r # NoRoom => r \in Room /\ r[1] = n
  /\ \A r \in Room : r \in {r[1]} \X Slot
BY CollabAssumption DEF Room, NoRoom

LEMMA Owners == \A c \in Client : Owner[c] \in User
BY CollabAssumption

LEMMA MessageFields ==
  ASSUME NEW m \in Message
  PROVE  m.ups \subseteq Update /\ m.ids \subseteq Edit /\ m.flag \in BOOLEAN
BY DEF Message

LEMMA Fields ==
  ASSUME Typed
  PROVE  /\ row.ups \subseteq Update /\ row.rev \in Nat
         /\ \A r \in Room : /\ room[r] \in Cached /\ room[r].doc \subseteq row.ups
                            /\ room[r].rev \in Nat /\ room[r].rev <= row.rev
                            /\ room[r].ghost \in BOOLEAN
         /\ \A n \in Node : mapped[n] # NoRoom => mapped[n] \in Room /\ mapped[n][1] = n
         /\ \A c \in Client : /\ member[c] \in Room \cup {NoRoom}
                              /\ member[c] # NoRoom => member[c] \in Room /\ member[c][1] = conn[c]
                              /\ joining[c] \in Joining /\ joining[c].writable \in BOOLEAN
                              /\ joining[c].at \in {"no", "add", "seed"}
                              /\ up[c] \in Seq(Message) /\ down[c] \in Seq(Message)
                              /\ Owner[c] \in User
         /\ \A k \in checks : k \in Notice /\ k.to \in Client /\ k.room \in Room /\ k.ups \subseteq Update
<1> USE DEF Typed, TypeOK
<1>1. row.ups \subseteq Update /\ row.rev \in Nat
  BY DEF Row
<1>2. ASSUME NEW r \in Room
      PROVE  /\ room[r] \in Cached /\ room[r].doc \subseteq row.ups
             /\ room[r].rev \in Nat /\ room[r].rev <= row.rev /\ room[r].ghost \in BOOLEAN
  <2>1. room[r] \in Cached  OBVIOUS
  <2> QED  BY <2>1 DEF Cached
<1>3. \A n \in Node : mapped[n] # NoRoom => mapped[n] \in Room /\ mapped[n][1] = n
  BY Rooms
<1>4. ASSUME NEW c \in Client
      PROVE  /\ member[c] \in Room \cup {NoRoom}
             /\ member[c] # NoRoom => member[c] \in Room /\ member[c][1] = conn[c]
             /\ joining[c] \in Joining /\ joining[c].writable \in BOOLEAN
             /\ joining[c].at \in {"no", "add", "seed"}
             /\ up[c] \in Seq(Message) /\ down[c] \in Seq(Message)
             /\ Owner[c] \in User
  <2>1. joining[c] \in Joining  OBVIOUS
  <2>2. joining[c].writable \in BOOLEAN /\ joining[c].at \in {"no", "add", "seed"}
    BY <2>1 DEF Joining
  <2>3. member[c] \in Room \cup {NoRoom}  OBVIOUS
  <2> QED  BY <2>1, <2>2, <2>3, Owners
<1>5. ASSUME NEW k \in checks
      PROVE  k \in Notice /\ k.to \in Client /\ k.room \in Room /\ k.ups \subseteq Update
  <2>1. k \in Notice  OBVIOUS
  <2> QED  BY <2>1 DEF Notice
<1> QED  BY <1>1, <1>2, <1>3, <1>4, <1>5

LEMMA TabFields ==
  ASSUME Typed, NEW c \in Client
  PROVE  /\ ed[c] \in Draft /\ ed[c].doc \subseteq Update /\ ed[c].saving \in Seq(Edit)
         /\ ed[c].on \in BOOLEAN /\ ed[c].ro \in BOOLEAN /\ ed[c].view \in BOOLEAN
         /\ ed[c].unsynced \in BOOLEAN /\ ed[c].err \in {"no", "last", "storage"}
         /\ ed[c].snap \in Snapshot /\ ed[c].snap.ids \subseteq Edit
         /\ ed[c].snap.ups \subseteq Update /\ ed[c].snap.vector \subseteq Update
         /\ ed[c].snap.ro \in BOOLEAN /\ ed[c].snap.at \in {"no", "joined"}
         /\ pend[c] \subseteq Request
         /\ flush[c] \in Flush /\ flush[c].at \in {"no", "loaded", "pushed"}
         /\ flush[c].ids \subseteq Edit /\ flush[c].ups \subseteq Update
<1>1. ed[c] \in Draft /\ flush[c] \in Flush /\ pend[c] \subseteq Request
  BY DEF Typed, TypeOK
<1>2. /\ ed[c].doc \subseteq Update /\ ed[c].saving \in Seq(Edit)
      /\ ed[c].on \in BOOLEAN /\ ed[c].ro \in BOOLEAN /\ ed[c].view \in BOOLEAN
      /\ ed[c].unsynced \in BOOLEAN /\ ed[c].err \in {"no", "last", "storage"}
      /\ ed[c].snap \in Snapshot
  BY <1>1 DEF Draft
<1>3. /\ ed[c].snap.ids \subseteq Edit /\ ed[c].snap.at \in {"no", "joined"}
      /\ ed[c].snap.ups \subseteq Update /\ ed[c].snap.vector \subseteq Update
      /\ ed[c].snap.ro \in BOOLEAN
  BY <1>2 DEF Snapshot
<1>4. /\ flush[c].at \in {"no", "loaded", "pushed"}
      /\ flush[c].ids \subseteq Edit /\ flush[c].ups \subseteq Update
  BY <1>1 DEF Flush
<1> QED  BY <1>1, <1>2, <1>3, <1>4

LEMMA JournalFields ==
  ASSUME Typed, NEW u \in User
  PROVE  /\ journal[u] \in Journal /\ journal[u].ups \subseteq Update
         /\ journal[u].server \subseteq Update /\ journal[u].pending \subseteq Edit
         /\ journal[u].revoked \in BOOLEAN
<1>1. journal[u] \in Journal  BY DEF Typed, TypeOK
<1> QED  BY <1>1 DEF Journal

\* What a tab has comes from the row, from the edits its journal still holds for
\* the server, from those an erased journal took along, or waits to be saved.
Origins(c) == row.ups \cup journal[Owner[c]].pending \cup erased
Sources == \A c \in Client :
  /\ ed[c].doc \subseteq Origins(c) \cup Ran(ed[c].saving)
  /\ ed[c].snap.ups \subseteq Origins(c)
  /\ flush[c].at = "loaded" => flush[c].ups \subseteq Origins(c)
  /\ flush[c].at # "no" => ed[c].saving = <<>>
  /\ ed[c].snap.at = "no" => ed[c].snap = NoSnapshot

\* Before the first state is stored nobody has anything to edit.
Waits(c) ==
  /\ ed[c].saving = <<>> /\ flush[c] = Quiet /\ joining[c].at # "add"
  /\ ed[c].view => ed[c].unsynced
  /\ ed[c].snap.at = "joined" => ed[c].snap.ro
  /\ \A m \in Ran(up[c]) : m.kind # "update"
  /\ \A m \in Ran(down[c]) : m.kind # "update" /\ (m.kind = "joined" => m.flag)
Pristine == row.rev = 0 =>
  /\ row.ups = {} /\ checks = {} /\ erased = {}
  /\ \A u \in User : journal[u].pending = {}
  /\ \A c \in Client : Waits(c)
OneSeed == row.rev > 0 => \E c \in Client : row.ups \cap Client = {c}

IInv == /\ Typed /\ RoomsFresh /\ Reported /\ Asked /\ JournalTruthful
        /\ Sources /\ Pristine /\ OneSeed

ServerTyped ==
  /\ row \in Row
  /\ room \in [Room -> Cached] /\ mapped \in [Node -> Room \cup {NoRoom}]
  /\ \A r \in Room : room[r].doc \subseteq row.ups /\ room[r].rev <= row.rev
  /\ \A n \in Node : mapped[n] \in {NoRoom} \cup ({n} \X Slot)
  /\ late \subseteq Room /\ checks \subseteq Notice /\ stale \subseteq Node
MembersTyped ==
  /\ member \in [Client -> Room \cup {NoRoom}] /\ joining \in [Client -> Joining]
  /\ conn \in [Client -> Node \cup {None}]
  /\ \A c \in Client : member[c] # NoRoom => member[c][1] = conn[c]
  /\ Joins
TabsTyped ==
  /\ ed \in [Client -> Draft] /\ journal \in [User -> Journal]
  /\ pend \in [Client -> SUBSET Request] /\ flush \in [Client -> Flush]
HistoryTyped ==
  /\ unstored \subseteq Update /\ unsent \subseteq Update /\ erased \subseteq Edit
  /\ base \in [Edit -> SUBSET Update]
RestTyped == access \in [User -> {"none", "read", "write"}] /\ faults \in 0..MaxFaults

LEMMA Parts ==
  Typed <=> /\ ServerTyped /\ MembersTyped /\ Wired(up) /\ Wired(down)
            /\ TabsTyped /\ HistoryTyped /\ RestTyped
BY DEF Typed, TypeOK, ServerTyped, MembersTyped, Wired, TabsTyped, HistoryTyped, RestTyped

LEMMA PartsNext ==
  ASSUME ServerTyped', MembersTyped', Wired(up'), Wired(down'),
         TabsTyped', HistoryTyped', RestTyped'
  PROVE  Typed'
BY DEF Typed, TypeOK, ServerTyped, MembersTyped, Wired, TabsTyped, HistoryTyped, RestTyped

-----------------------------------------------------------------------------
(* What a step leaves alone.                                                   *)
Shrinks(w, v) == \A d \in Client : Ran(v[d]) \subseteq Ran(w[d])
Grew(w, v, c, ms) == \A d \in Client : Ran(v[d]) \subseteq Ran(w[d]) \cup IF d = c THEN ms ELSE {}

LEMMA ClientSame ==
  ASSUME UNCHANGED client
  PROVE  /\ TabsTyped => TabsTyped'
         /\ HistoryTyped => HistoryTyped'
<1>1. /\ ed' = ed /\ journal' = journal /\ pend' = pend /\ flush' = flush
      /\ unstored' = unstored /\ unsent' = unsent /\ erased' = erased /\ base' = base
  BY DEF client
<1> QED  BY <1>1 DEF TabsTyped, HistoryTyped

LEMMA ServerSame ==
  ASSUME UNCHANGED server
  PROVE  /\ ServerTyped => ServerTyped'
         /\ RoomsFresh => RoomsFresh'
         /\ OneSeed => OneSeed'
<1>1. /\ row' = row /\ room' = room /\ mapped' = mapped /\ member' = member
      /\ joining' = joining /\ late' = late /\ checks' = checks /\ stale' = stale
  BY DEF server
<1> QED  BY <1>1 DEF ServerTyped, RoomsFresh, OneSeed

LEMMA MembersSame ==
  ASSUME UNCHANGED <<member, joining, conn>>, MembersTyped
  PROVE  MembersTyped'
BY DEF MembersTyped, Joins


LEMMA HubFrame ==
  ASSUME IInv, UNCHANGED client, row.ups \subseteq row'.ups,
         Shrinks(up, up')
  PROVE  Asked' /\ JournalTruthful' /\ Sources'
<1>1. /\ ed' = ed /\ journal' = journal /\ pend' = pend /\ flush' = flush /\ erased' = erased
  BY DEF client
<1>2. Asked'
  <2>1. ASSUME NEW c \in Client, NEW m \in Ran(up'[c]) PROVE Asks(m)'
    <3>1. m \in Ran(up[c])  BY DEF Shrinks
    <3>2. Asks(m)  BY <3>1 DEF IInv, Asked
    <3> QED  BY <3>2 DEF Asks
  <2> QED  BY <1>1, <2>1 DEF IInv, Asked
<1>3. JournalTruthful'
  BY <1>1 DEF IInv, JournalTruthful
<1>4. Sources'
  BY <1>1 DEF IInv, Sources, Origins
<1> QED  BY <1>2, <1>3, <1>4

LEMMA ReportedNext ==
  ASSUME Reported, row.ups \subseteq row'.ups,
         \A k \in checks' : k \in checks \/ k.ups \subseteq row'.ups,
         \A c \in Client : ed'[c].snap.vector \subseteq row'.ups,
         \A c \in Client : \A m \in Ran(down'[c]) : m \in Ran(down[c]) \/ Reports(m)'
  PROVE  Reported'
<1>1. \A k \in checks' : k.ups \subseteq row'.ups
  BY DEF Reported
<1>2. ASSUME NEW c \in Client, NEW m \in Ran(down'[c]) PROVE Reports(m)'
  <2>1. CASE m \in Ran(down[c])
    <3>1. Reports(m)  BY <2>1 DEF Reported
    <3> QED  BY <3>1 DEF Reports
  <2> QED  BY <2>1
<1> QED  BY <1>1, <1>2 DEF Reported

\* A step of the hub in which nothing is stored keeps a pristine draft so.
LEMMA PristineKept ==
  ASSUME Pristine, UNCHANGED client, row' = row, Shrinks(up, up'),
         row.rev = 0 => /\ checks' = {}
                        /\ \A c \in Client : joining'[c].at # "add"
                        /\ \A c \in Client : \A m \in Ran(down'[c]) :
                             m \in Ran(down[c]) \/ (m.kind # "update" /\ (m.kind = "joined" => m.flag))
  PROVE  Pristine'
<1> SUFFICES ASSUME row'.rev = 0 PROVE Pristine'
  BY DEF Pristine
<1>1. /\ ed' = ed /\ journal' = journal /\ pend' = pend /\ flush' = flush /\ erased' = erased
  BY DEF client
<1>2. /\ row.ups = {} /\ erased = {} /\ \A u \in User : journal[u].pending = {}
      /\ \A c \in Client : Waits(c)
  BY DEF Pristine
<1>3. ASSUME NEW c \in Client PROVE Waits(c)'
  <2>1. Waits(c)  BY <1>2
  <2>2. \A m \in Ran(up'[c]) : m.kind # "update"
    BY <2>1 DEF Waits, Shrinks
  <2>3. \A m \in Ran(down'[c]) : m.kind # "update" /\ (m.kind = "joined" => m.flag)
    BY <2>1 DEF Waits
  <2> QED  BY <1>1, <2>1, <2>2, <2>3 DEF Waits
<1> QED  BY <1>1, <1>2, <1>3 DEF Pristine

-----------------------------------------------------------------------------
(* Pieces of steps.                                                            *)
LEMMA Spoken ==
  ASSUME Wired(down), NEW c \in Client, NEW m \in Message, Tell(c, m)
  PROVE  /\ Wired(down')
         /\ Grew(down, down', c, {m})
<1>1. down[c] \in Seq(Message)  BY DEF Wired
<1>2. Append(down[c], m) \in Seq(Message) /\ Ran(Append(down[c], m)) = Ran(down[c]) \cup {m}
  BY <1>1, RanAppend
<1>3. down' = [down EXCEPT ![c] = Append(down[c], m)]
  BY DEF Tell
<1>4. /\ \A d \in Client : down'[d] = IF d = c THEN Append(down[c], m) ELSE down[d]
      /\ down' \in [Client -> Seq(Message)]
  BY <1>1, <1>2, <1>3 DEF Wired
<1> QED  BY <1>2, <1>4 DEF Wired, Grew

LEMMA Taken ==
  ASSUME Wired(up), NEW c \in Client, NEW kind, Next1(c, kind)
  PROVE  /\ Wired(up') /\ Shrinks(up, up')
         /\ Head(up[c]) \in Message /\ Head(up[c]) \in Ran(up[c]) /\ Head(up[c]).kind = kind
         /\ conn[c] # None /\ joining[c].at = "no"
<1>1. up[c] \in Seq(Message) /\ up[c] # <<>>  BY DEF Wired, Next1
<1>2. /\ Tail(up[c]) \in Seq(Message) /\ Ran(Tail(up[c])) \subseteq Ran(up[c])
      /\ Head(up[c]) \in Message /\ Head(up[c]) \in Ran(up[c])
  BY <1>1, RanTail
<1>3. up' = [up EXCEPT ![c] = Tail(up[c])]
  BY DEF Next1
<1>4. /\ \A d \in Client : up'[d] = IF d = c THEN Tail(up[c]) ELSE up[d]
      /\ up' \in [Client -> Seq(Message)]
  BY <1>2, <1>3 DEF Wired
<1> QED  BY <1>2, <1>4 DEF Wired, Shrinks, Next1

\* Leaving: one tab is out, and the map has lost at most an entry.
LEMMA LeaveEffect ==
  ASSUME Typed, NEW c \in Client, Leave(c)
  PROVE  /\ member' \in [Client -> Room \cup {NoRoom}]
         /\ \A d \in Client : member'[d] = IF d = c THEN NoRoom ELSE member[d]
         /\ mapped' \in [Node -> Room \cup {NoRoom}]
         /\ \A n \in Node : mapped'[n] \in {mapped[n], NoRoom}
<1>1. member \in [Client -> Room \cup {NoRoom}] /\ mapped \in [Node -> Room \cup {NoRoom}]
  BY DEF Typed, TypeOK
<1>2. member' = [member EXCEPT ![c] = NoRoom]  BY DEF Leave
<1>3. mapped' = mapped \/ mapped' = [mapped EXCEPT ![member[c][1]] = NoRoom]
  BY DEF Leave, AfterLeave
<1>4. /\ mapped' \in [Node -> Room \cup {NoRoom}]
      /\ \A n \in Node : mapped'[n] \in {mapped[n], NoRoom}
  BY <1>1, <1>3
<1> QED  BY <1>1, <1>2, <1>4

LEMMA RevokeEffect ==
  ASSUME Typed, NEW c \in Client, NEW m, m.ups \subseteq Update, m.ids \subseteq Edit, Revoke(c, m)
  PROVE  /\ Leave(c) /\ Wired(down')
         /\ \E x \in Message : x.kind = "revoked" /\ Grew(down, down', c, {x})
<1> DEFINE x == Msg("revoked", m.ups, m.ids, FALSE)
<1>1. x \in Message /\ x.kind = "revoked"
  BY DEF Msg, Message
<1>2. Leave(c) /\ Tell(c, x)  BY DEF Revoke
<1> HIDE DEF x
<1>3. Wired(down') /\ Grew(down, down', c, {x})
  BY <1>1, <1>2, Spoken, Parts
<1> QED  BY <1>1, <1>2, <1>3

-----------------------------------------------------------------------------
(* The hub's steps.                                                            *)
LEMMA OutStep ==
  ASSUME IInv, NEW c \in Client, Leave(c),
         UNCHANGED <<row, room, joining, late, stale, access, conn, client, faults>>,
         checks' \subseteq checks, Wired(up'), Shrinks(up, up'), Wired(down'),
         \A d \in Client : \A m \in Ran(down'[d]) : m \in Ran(down[d]) \/ m.kind = "revoked"
  PROVE  IInv'
<1>1. /\ Typed /\ ServerTyped /\ MembersTyped /\ TabsTyped /\ HistoryTyped /\ RestTyped
      /\ RoomsFresh /\ Reported /\ Pristine /\ OneSeed
  BY Parts DEF IInv
<1>2. /\ member' \in [Client -> Room \cup {NoRoom}]
      /\ \A d \in Client : member'[d] = IF d = c THEN NoRoom ELSE member[d]
      /\ mapped' \in [Node -> Room \cup {NoRoom}]
      /\ \A n \in Node : mapped'[n] \in {mapped[n], NoRoom}
  BY <1>1, LeaveEffect
<1>3. ServerTyped'
  BY <1>1, <1>2 DEF ServerTyped
<1>4. MembersTyped'
  BY <1>1, <1>2 DEF MembersTyped, Joins
<1>5. TabsTyped' /\ HistoryTyped' /\ RestTyped'
  BY <1>1, ClientSame DEF RestTyped
<1>6. Typed'
  BY <1>3, <1>4, <1>5, PartsNext
<1>7. RoomsFresh'
  BY <1>1, <1>2 DEF RoomsFresh
<1>8. Reported'
  <2>1. \A d \in Client : ed'[d].snap.vector \subseteq row'.ups
    BY <1>1 DEF client, Reported
  <2>2. \A d \in Client : \A m \in Ran(down'[d]) : m \in Ran(down[d]) \/ Reports(m)'
    BY DEF Reports
  <2> QED  BY <1>1, <2>1, <2>2, ReportedNext
<1>9. Asked' /\ JournalTruthful' /\ Sources'
  BY HubFrame
<1>10. Pristine'
  <2>1. row.rev = 0 => /\ checks' = {}
                       /\ \A d \in Client : joining'[d].at # "add"
    BY <1>1 DEF Pristine, Waits
  <2> QED  BY <1>1, <2>1, PristineKept
<1>11. OneSeed'
  BY <1>1 DEF OneSeed
<1> QED  BY <1>6, <1>7, <1>8, <1>9, <1>10, <1>11 DEF IInv

LEMMA RevokeStep ==
  ASSUME IInv, NEW c \in Client, NEW m, m.ups \subseteq Update, m.ids \subseteq Edit, Revoke(c, m),
         UNCHANGED <<row, room, joining, late, stale, access, conn, client, faults>>,
         checks' \subseteq checks, Wired(up'), Shrinks(up, up')
  PROVE  IInv'
<1>1. Typed  BY DEF IInv
<1>2. /\ Leave(c) /\ Wired(down')
      /\ \E x \in Message : x.kind = "revoked" /\ Grew(down, down', c, {x})
  BY <1>1, RevokeEffect
<1>3. \A d \in Client : \A x \in Ran(down'[d]) : x \in Ran(down[d]) \/ x.kind = "revoked"
  BY <1>2 DEF Grew
<1> QED  BY <1>2, <1>3, OutStep

LEMMA HubLeaveStep == ASSUME IInv, NEW c \in Client, HubLeave(c) PROVE IInv'
<1>1. Typed /\ Wired(up) /\ Wired(down)  BY Parts DEF IInv
<1>2. /\ Next1(c, "leave")
      /\ UNCHANGED <<row, room, joining, late, checks, stale, access, conn, client, faults>>
  BY DEF HubLeave
<1>3. Wired(up') /\ Shrinks(up, up')
  BY <1>1, <1>2, Taken
<1>4. CASE Revoke(c, NoRequest)
  <2>1. NoRequest.ups \subseteq Update /\ NoRequest.ids \subseteq Edit
    BY DEF NoRequest
  <2> QED  BY <1>2, <1>3, <1>4, <2>1, RevokeStep
<1>5. CASE Leave(c) /\ UNCHANGED down
  <2>1. \A d \in Client : \A m \in Ran(down'[d]) : m \in Ran(down[d]) \/ m.kind = "revoked"
    BY <1>5
  <2> QED  BY <1>1, <1>2, <1>3, <1>5, <2>1, OutStep
<1> QED  BY <1>4, <1>5 DEF HubLeave

\* A step that only tells a tab something true changes nothing else.
LEMMA TellStep ==
  ASSUME IInv, NEW c \in Client, NEW m \in Message, Tell(c, m), Reports(m),
         m.kind # "joined", m.kind = "update" => row.rev # 0,
         UNCHANGED <<row, room, mapped, member, joining, late, stale, access, conn, client, faults>>,
         checks' \subseteq checks, Wired(up'), Shrinks(up, up')
  PROVE  IInv'
<1>1. /\ Typed /\ ServerTyped /\ MembersTyped /\ TabsTyped /\ HistoryTyped /\ RestTyped /\ Wired(down)
      /\ RoomsFresh /\ Reported /\ Pristine /\ OneSeed
  BY Parts DEF IInv
<1>2. Wired(down') /\ Grew(down, down', c, {m})
  BY <1>1, Spoken
<1>3. ServerTyped' /\ MembersTyped'
  BY <1>1, MembersSame DEF ServerTyped
<1>4. TabsTyped' /\ HistoryTyped' /\ RestTyped'
  BY <1>1, ClientSame DEF RestTyped
<1>5. Typed'
  BY <1>2, <1>3, <1>4, PartsNext
<1>6. RoomsFresh' /\ OneSeed'
  BY <1>1 DEF RoomsFresh, OneSeed
<1>7. Reported'
  <2>1. \A d \in Client : ed'[d].snap.vector \subseteq row'.ups
    BY <1>1 DEF client, Reported
  <2>2. \A d \in Client : \A x \in Ran(down'[d]) : x \in Ran(down[d]) \/ Reports(x)'
    BY <1>2 DEF Reports, Grew
  <2> QED  BY <1>1, <2>1, <2>2, ReportedNext
<1>8. Asked' /\ JournalTruthful' /\ Sources'
  BY HubFrame
<1>9. Pristine'
  <2>1. row.rev = 0 => /\ checks' = {}
                       /\ \A d \in Client : joining'[d].at # "add"
    BY <1>1 DEF Pristine, Waits
  <2>2. row.rev = 0 => \A d \in Client : \A x \in Ran(down'[d]) :
          x \in Ran(down[d]) \/ (x.kind # "update" /\ (x.kind = "joined" => x.flag))
    BY <1>2 DEF Grew
  <2> QED  BY <1>1, <2>1, <2>2, PristineKept
<1> QED  BY <1>5, <1>6, <1>7, <1>8, <1>9 DEF IInv

LEMMA CheckStep == ASSUME IInv, NEW k \in checks, Check(k) PROVE IInv'
<1>1. Typed /\ Wired(up) /\ Wired(down) /\ Reported /\ Pristine  BY Parts DEF IInv
<1>2. /\ checks' \subseteq checks
      /\ UNCHANGED <<row, room, joining, late, stale, access, conn, up, client, faults>>
  BY DEF Check
<1>3. Wired(up') /\ Shrinks(up, up')
  BY <1>1, <1>2 DEF Shrinks
<1>4. k.to \in Client /\ k.ups \subseteq Update
  BY <1>1, Fields
<1>5. CASE Revoke(k.to, NoRequest)
  <2>1. NoRequest.ups \subseteq Update /\ NoRequest.ids \subseteq Edit
    BY DEF NoRequest
  <2> QED  BY <1>2, <1>3, <1>4, <1>5, <2>1, RevokeStep
<1>6. CASE Tell(k.to, Msg("update", k.ups, {}, FALSE)) /\ UNCHANGED <<member, mapped>>
  <2> DEFINE m == Msg("update", k.ups, {}, FALSE)
  <2>1. m \in Message /\ m.kind = "update" /\ m.ups = k.ups
    BY <1>4 DEF Msg, Message
  <2>2. Reports(m)
    BY <1>1, <2>1 DEF Reports, Reported
  <2>3. row.rev # 0  BY <1>1 DEF Pristine
  <2>4. Tell(k.to, m) /\ UNCHANGED <<member, mapped>>  BY <1>6
  <2> HIDE DEF m
  <2> QED  BY <1>2, <1>3, <1>4, <2>1, <2>2, <2>3, <2>4, TellStep
<1> QED  BY <1>5, <1>6 DEF Check

LEMMA SweepStep == ASSUME IInv, NEW c \in Client, Sweep(c) PROVE IInv'
<1>1. Typed /\ Wired(up) /\ Wired(down)  BY Parts DEF IInv
<1>2. UNCHANGED <<row, room, joining, late, checks, stale, access, conn, up, client, faults>>
  BY DEF Sweep
<1>3. Wired(up') /\ Shrinks(up, up')
  BY <1>1, <1>2 DEF Shrinks
<1>4. CASE Revoke(c, NoRequest)
  <2>1. NoRequest.ups \subseteq Update /\ NoRequest.ids \subseteq Edit
    BY DEF NoRequest
  <2> QED  BY <1>2, <1>3, <1>4, <2>1, RevokeStep
<1>5. CASE Tell(c, Msg("permission", {}, {}, Level(c) = "read")) /\ UNCHANGED <<member, mapped>>
  <2> DEFINE m == Msg("permission", {}, {}, Level(c) = "read")
  <2>1. m \in Message /\ m.kind = "permission" /\ m.ups = {}
    BY DEF Msg, Message
  <2>2. Reports(m)
    BY <2>1 DEF Reports
  <2>4. Tell(c, m) /\ UNCHANGED <<member, mapped>>  BY <1>5
  <2> HIDE DEF m
  <2> QED  BY <1>2, <1>3, <2>1, <2>2, <2>4, TellStep
<1> QED  BY <1>4, <1>5 DEF Sweep

\* What the larger steps of the hub have to show.
LEMMA HubStep ==
  ASSUME IInv, UNCHANGED <<access, client, faults>>, row.ups \subseteq row'.ups,
         ServerTyped', MembersTyped', Wired(up'), Shrinks(up, up'), Wired(down'),
         RoomsFresh', Pristine', OneSeed',
         \A k \in checks' : k \in checks \/ k.ups \subseteq row'.ups,
         \A d \in Client : \A m \in Ran(down'[d]) : m \in Ran(down[d]) \/ Reports(m)'
  PROVE  IInv'
<1>1. /\ Typed /\ TabsTyped /\ HistoryTyped /\ RestTyped /\ Reported
  BY Parts DEF IInv
<1>2. TabsTyped' /\ HistoryTyped' /\ RestTyped'
  BY <1>1, ClientSame DEF RestTyped
<1>3. Typed'
  BY <1>2, PartsNext
<1>4. Reported'
  <2>1. \A d \in Client : ed'[d].snap.vector \subseteq row'.ups
    BY <1>1 DEF client, Reported
  <2> QED  BY <1>1, <2>1, ReportedNext
<1>5. Asked' /\ JournalTruthful' /\ Sources'
  BY HubFrame
<1> QED  BY <1>3, <1>4, <1>5 DEF IInv

LEMMA Sent ==
  ASSUME Typed, NEW r \in Room, NEW ups, ups \subseteq Update, NEW by \in Client \cup {"nobody"}, NEW except
  PROVE  /\ Broadcast(r, ups, by, except) \subseteq Notice
         /\ \A k \in Broadcast(r, ups, by, except) :
              k.ups = ups /\ k.room = r /\ k.by = by /\ member[k.to] = r /\ k.to \notin except
         /\ \A c \in Client : member[c] = r /\ c \notin except =>
              \E k \in Broadcast(r, ups, by, except) : k.to = c
<1> DEFINE note(c) == [to |-> c, room |-> r, ups |-> ups, by |-> by]
<1>1. Broadcast(r, ups, by, except) = {note(c) : c \in Members(r) \ except}
  BY DEF Broadcast
<1>2. \A c \in Client : /\ note(c) \in Notice /\ note(c).to = c /\ note(c).room = r
                        /\ note(c).ups = ups /\ note(c).by = by
  BY DEF Notice
<1> HIDE DEF note
<1> QED  BY <1>1, <1>2 DEF Members

LEMMA FreshRoom ==
  ASSUME Typed, NEW r \in Room
  PROVE  /\ Fresh(r) \in Cached /\ Fresh(r).doc = row.ups /\ Fresh(r).rev = row.rev
         /\ \A ups \in SUBSET Update : \A v \in Nat :
              Holding(r, ups, v) \in Cached /\ Holding(r, ups, v).doc = ups /\ Holding(r, ups, v).rev = v
BY Fields DEF Fresh, Holding, Cached

LEMMA HubAddClosedStep == ASSUME IInv, NEW r \in late, HubAddClosed(r) PROVE IInv'
<1>1. /\ Typed /\ ServerTyped /\ MembersTyped /\ Wired(up) /\ Wired(down)
      /\ RoomsFresh /\ Pristine /\ OneSeed
  BY Parts DEF IInv
<1>2. /\ late' = late \ {r} /\ room' = [room EXCEPT ![r].ghost = TRUE]
      /\ UNCHANGED <<row, mapped, member, joining, checks, stale, access, conn, up, down, client, faults>>
  BY DEF HubAddClosed
<1>3. room \in [Room -> Cached] /\ r \in Room /\ room[r] \in Cached
  BY <1>1 DEF ServerTyped
<1>4. /\ room' \in [Room -> Cached]
      /\ \A q \in Room : room'[q].doc = room[q].doc /\ room'[q].rev = room[q].rev
  BY <1>2, <1>3 DEF Cached
<1>5. ServerTyped'
  BY <1>1, <1>2, <1>4 DEF ServerTyped
<1>6. MembersTyped'
  BY <1>1, <1>2, MembersSame
<1>7. RoomsFresh'
  <2>1. \A n \in Node : mapped[n] # NoRoom => mapped[n] \in Room
    BY <1>1, Fields
  <2> QED  BY <1>1, <1>2, <1>4, <2>1 DEF RoomsFresh
<1>8. Pristine' /\ OneSeed'
  BY <1>1, <1>2, PristineKept DEF OneSeed, Shrinks, Pristine, Waits
<1> QED  BY <1>1, <1>2, <1>5, <1>6, <1>7, <1>8, HubStep DEF Shrinks

LEMMA ClusterEventStep == ASSUME IInv, NEW n \in Node, ClusterEvent(n) PROVE IInv'
<1>1. /\ Typed /\ ServerTyped /\ MembersTyped /\ Wired(up) /\ Wired(down)
      /\ RoomsFresh /\ Pristine /\ OneSeed
  BY Parts DEF IInv
<1>2. /\ stale' = stale \ {n}
      /\ UNCHANGED <<row, mapped, member, joining, late, access, conn, up, down, client, faults>>
  BY DEF ClusterEvent
<1> DEFINE r == mapped[n]
<1>3. MembersTyped' /\ OneSeed' /\ Shrinks(up, up')
  BY <1>1, <1>2, MembersSame DEF OneSeed, Shrinks
<1>4. CASE r # NoRoom /\ Newer(r)
  <2> DEFINE b == Broadcast(r, row.ups \ room[r].doc, "nobody", {})
  <2>1. room' = [room EXCEPT ![r] = Fresh(r)] /\ checks' = checks \cup b
    BY <1>4 DEF ClusterEvent
  <2>2. r \in Room /\ row.ups \ room[r].doc \subseteq Update
    BY <1>1, <1>4, Fields
  <2>3. b \subseteq Notice /\ \A k \in b : k.ups = row.ups \ room[r].doc
    BY <1>1, <2>2, Sent
  <2> HIDE DEF b
  <2>4. /\ room' \in [Room -> Cached]
        /\ \A q \in Room : room'[q] = IF q = r THEN Fresh(r) ELSE room[q]
    BY <1>1, <2>1, <2>2, FreshRoom DEF ServerTyped
  <2>5. ServerTyped'
    <3>1. \A q \in Room : room'[q].doc \subseteq row'.ups /\ room'[q].rev <= row'.rev
      BY <1>1, <1>2, <2>2, <2>4, FreshRoom, Fields
    <3> QED  BY <1>1, <1>2, <2>1, <2>3, <2>4, <3>1 DEF ServerTyped
  <2>6. RoomsFresh'
    <3>1. \A q \in Room : room'[q].rev = row'.rev => room'[q].doc = row'.ups
      BY <1>1, <1>2, <2>2, <2>4, FreshRoom DEF RoomsFresh
    <3>2. \A x \in Node : mapped'[x] # NoRoom /\ room'[mapped'[x]].rev < row'.rev => x \in stale'
      <4> TAKE x \in Node
      <4> HAVE mapped'[x] # NoRoom /\ room'[mapped'[x]].rev < row'.rev
      <4>1. mapped[x] \in Room /\ mapped'[x] = mapped[x]  BY <1>1, <1>2, Fields
      <4>2. mapped[x] # r
        <5>1. ~ (room'[r].rev < row.rev)  BY <1>1, <2>2, <2>4, FreshRoom, Fields
        <5> QED  BY <1>2, <4>1, <5>1
      <4>3. x # n /\ room[mapped[x]].rev < row.rev  BY <1>2, <2>4, <4>1, <4>2
      <4> QED  BY <1>1, <1>2, <4>1, <4>2, <4>3, Rooms DEF RoomsFresh
    <3> QED  BY <3>1, <3>2 DEF RoomsFresh
  <2>7. \A k \in checks' : k \in checks \/ k.ups \subseteq row'.ups
    BY <1>2, <2>1, <2>3
  <2>8. Pristine'
    <3>1. row'.rev # 0  BY <1>1, <1>2, <1>4, <2>2, Fields DEF Newer
    <3> QED  BY <3>1 DEF Pristine
  <2> QED  BY <1>1, <1>2, <1>3, <2>5, <2>6, <2>7, <2>8, HubStep
<1>5. CASE ~ (r # NoRoom /\ Newer(r))
  <2>1. UNCHANGED <<room, checks>>
    BY <1>5 DEF ClusterEvent
  <2>2. ServerTyped'
    BY <1>1, <1>2, <2>1 DEF ServerTyped
  <2>3. RoomsFresh'
    BY <1>1, <1>2, <1>5, <2>1 DEF RoomsFresh, Newer
  <2>4. Pristine'
    BY <1>1, <1>2, <1>3, <2>1, PristineKept DEF Pristine, Waits
  <2> QED  BY <1>1, <1>2, <1>3, <2>1, <2>2, <2>3, <2>4, HubStep
<1> QED  BY <1>4, <1>5

LEMMA HubAddStep == ASSUME IInv, NEW c \in Client, HubAdd(c) PROVE IInv'
<1>1. /\ Typed /\ ServerTyped /\ MembersTyped /\ Wired(up) /\ Wired(down)
      /\ RoomsFresh /\ Pristine /\ OneSeed
  BY Parts DEF IInv
<1> DEFINE r == joining[c].room
           m == Msg("joined", room[r].doc, {}, ~joining[c].writable)
<1>2. /\ joining[c].at = "add" /\ member' = [member EXCEPT ![c] = r] /\ Tell(c, m)
      /\ joining' = [joining EXCEPT ![c] = NotJoining]
      /\ UNCHANGED <<row, room, mapped, late, checks, stale, access, conn, up, client, faults>>
  BY DEF HubAdd
<1>3. r \in Room /\ r[1] = conn[c]
  BY <1>1, <1>2 DEF Typed, Joins
<1>4. m \in Message /\ m.kind = "joined" /\ m.ups = room[r].doc
  <2>1. room[r].doc \subseteq Update /\ joining[c].writable \in BOOLEAN
    BY <1>1, <1>3, Fields
  <2> QED  BY <2>1 DEF Msg, Message
<1>5. m.ups \subseteq row.ups  BY <1>1, <1>3, <1>4, Fields
<1>6. row.rev # 0  BY <1>1, <1>2 DEF Pristine, Waits
<1> HIDE DEF m
<1>7. Wired(down') /\ Grew(down, down', c, {m})
  BY <1>1, <1>2, <1>4, Spoken
<1>8. MembersTyped'
  <2>1. NotJoining \in Joining /\ NotJoining.at = "no"  BY DEF NotJoining, Joining
  <2> HIDE DEF r
  <2> QED  BY <1>1, <1>2, <1>3, <2>1 DEF MembersTyped, Joins
<1>9. ServerTyped' /\ RoomsFresh' /\ OneSeed' /\ Shrinks(up, up')
  BY <1>1, <1>2 DEF ServerTyped, RoomsFresh, OneSeed, Shrinks
<1>10. Pristine'
  BY <1>2, <1>6 DEF Pristine
<1>11. \A d \in Client : \A x \in Ran(down'[d]) : x \in Ran(down[d]) \/ Reports(x)'
  BY <1>2, <1>4, <1>5, <1>7 DEF Reports, Grew
<1> QED  BY <1>1, <1>2, <1>7, <1>8, <1>9, <1>10, <1>11, HubStep

\* A transaction that stores a larger state announces it to the other rooms.
LEMMA StoreEffect ==
  ASSUME IInv, NEW r \in Room, NEW ups, ups \subseteq Update, row.ups \subseteq ups,
         row' = [ups |-> ups, rev |-> row.rev + 1],
         room' = [room EXCEPT ![r] = Holding(r, ups, row.rev + 1)],
         Announce(r), mapped' = mapped, late' = late, checks' \subseteq Notice
  PROVE  /\ ServerTyped' /\ RoomsFresh'
         /\ row'.ups = ups /\ row'.rev = row.rev + 1 /\ row'.rev # 0
<1>1. Typed /\ ServerTyped  BY Parts DEF IInv
<1>2. row.rev \in Nat /\ row.rev + 1 \in Nat  BY <1>1, Fields
<1>3. row'.ups = ups /\ row'.rev = row.rev + 1 /\ row'.rev # 0 /\ row' \in Row
  BY <1>2 DEF Row
<1> DEFINE h == Holding(r, ups, row.rev + 1)
<1>4. h \in Cached /\ h.doc = ups /\ h.rev = row.rev + 1
  <2>1. ups \in SUBSET Update  OBVIOUS
  <2> QED  BY <1>1, <1>2, <2>1, FreshRoom
<1> HIDE DEF h
<1>5. room' = [room EXCEPT ![r] = h]  BY DEF h
<1>6. /\ room' \in [Room -> Cached]
      /\ \A q \in Room : room'[q] = IF q = r THEN h ELSE room[q]
  BY <1>1, <1>4, <1>5 DEF ServerTyped
<1>7. \A q \in Room : room'[q].doc \subseteq row'.ups /\ room'[q].rev <= row'.rev
  <2> TAKE q \in Room
  <2>1. CASE q = r  BY <2>1, <1>2, <1>3, <1>4, <1>6
  <2>2. CASE q # r
    <3>1. room[q].doc \subseteq row.ups /\ room[q].rev <= row.rev /\ room[q].rev \in Nat
      BY <1>1, Fields
    <3> QED  BY <2>2, <3>1, <1>2, <1>3, <1>6
  <2> QED  BY <2>1, <2>2
<1>8. stale' = stale \cup {n \in Node : mapped[n] \notin {NoRoom, r}}
  BY DEF Announce
<1>9. ServerTyped'
  BY <1>1, <1>3, <1>6, <1>7, <1>8 DEF ServerTyped
<1>10. RoomsFresh'
  <2>1. \A q \in Room : room'[q].rev = row'.rev => room'[q].doc = row'.ups
    <3> TAKE q \in Room
    <3>1. CASE q = r  BY <3>1, <1>3, <1>4, <1>6
    <3>2. CASE q # r
      <4>1. room[q].rev <= row.rev /\ room[q].rev \in Nat  BY <1>1, Fields
      <4> QED  BY <3>2, <4>1, <1>2, <1>3, <1>6
    <3> QED  BY <3>1, <3>2
  <2>2. \A n \in Node : mapped'[n] # NoRoom /\ room'[mapped'[n]].rev < row'.rev => n \in stale'
    <3>1. ~ (room'[r].rev < row'.rev)  BY <1>2, <1>3, <1>4, <1>6
    <3> QED  BY <3>1, <1>8
  <2> QED  BY <2>1, <2>2 DEF RoomsFresh
<1> QED  BY <1>3, <1>9, <1>10

LEMMA SeedsOfGrown ==
  ASSUME row.ups \cap Client = row'.ups \cap Client, row.rev # 0, row.rev \in Nat, OneSeed
  PROVE  OneSeed'
<1>1. PICK c \in Client : row.ups \cap Client = {c}  BY DEF OneSeed
<1>2. row'.ups \cap Client = {c}  BY <1>1
<1> QED  BY <1>2 DEF OneSeed

LEMMA HubUpdateStep == ASSUME IInv, NEW c \in Client, HubUpdate(c) PROVE IInv'
<1>1. /\ Typed /\ ServerTyped /\ MembersTyped /\ Wired(up) /\ Wired(down)
      /\ Asked /\ Pristine /\ OneSeed
  BY Parts DEF IInv
<1> DEFINE m == Head(up[c])
           r == member[c]
<1>2. /\ Next1(c, "update")
      /\ UNCHANGED <<joining, late, access, conn, client, faults>>
  BY DEF HubUpdate
<1>3. /\ Wired(up') /\ Shrinks(up, up')
      /\ m \in Message /\ m \in Ran(up[c]) /\ m.kind = "update"
  BY <1>1, <1>2, Taken
<1>4. m.ups \subseteq Update /\ m.ids \subseteq Edit
  BY <1>3, MessageFields
<1>5. row.rev # 0 /\ row.rev \in Nat
  BY <1>1, <1>3, Fields DEF Pristine, Waits
<1>6. m.ids \subseteq m.ups \cup row.ups /\ m.ups \subseteq row.ups \cup Edit
  BY <1>1, <1>3 DEF Asked, Asks
<1>7. CASE Revoke(c, m) /\ UNCHANGED <<row, room, checks, stale>>
  <2> HIDE DEF m
  <2> QED  BY <1>2, <1>3, <1>4, <1>7, RevokeStep
<1>8. CASE /\ Tell(c, Msg("error", m.ups, m.ids, r # NoRoom /\ Level(c) = "read"))
           /\ UNCHANGED <<row, room, checks, stale, mapped, member>>
  <2> DEFINE x == Msg("error", m.ups, m.ids, r # NoRoom /\ Level(c) = "read")
  <2>1. x \in Message /\ x.kind = "error"
    BY <1>4 DEF Msg, Message
  <2>2. Reports(x) /\ Tell(c, x)  BY <1>8, <2>1 DEF Reports
  <2> HIDE DEF x, m
  <2> QED  BY <1>2, <1>3, <1>8, <2>1, <2>2, TellStep
<1>9. CASE /\ r # NoRoom
           /\ row' = [ups |-> Merged(r, m.ups), rev |-> row.rev + 1]
           /\ room' = [room EXCEPT ![r] = Holding(r, Merged(r, m.ups), row.rev + 1)]
           /\ Announce(r) /\ Tell(c, Msg("ack", m.ups, m.ids, FALSE))
           /\ checks' = checks \cup Broadcast(r, Merged(r, m.ups) \ room[r].doc, c, {c})
                \cup IF row.ups \subseteq room[r].doc THEN {}
                     ELSE {[to |-> c, room |-> r, ups |-> row.ups \ room[r].doc, by |-> c]}
           /\ UNCHANGED <<mapped, member>>
  <2> DEFINE new == Merged(r, m.ups)
             x == Msg("ack", m.ups, m.ids, FALSE)
             own == [to |-> c, room |-> r, ups |-> row.ups \ room[r].doc, by |-> c]
             b == Broadcast(r, new \ room[r].doc, c, {c})
  <2>1. r \in Room  BY <1>1, <1>9, Fields
  <2>2. new \subseteq Update /\ row.ups \subseteq new /\ new = row.ups \cup m.ups
    BY <1>1, <1>4, Fields DEF Merged
  <2>3. x \in Message /\ x.kind = "ack" /\ x.ups = m.ups /\ x.ids = m.ids
    BY <1>4 DEF Msg, Message
  <2>4. own \in Notice /\ own.ups = row.ups \ room[r].doc
    BY <2>1, <2>2 DEF Notice
  <2> HIDE DEF new
  <2>5. b \subseteq Notice /\ \A k \in b : k.ups = new \ room[r].doc
    BY <1>1, <2>1, <2>2, Sent
  <2> HIDE DEF x, own, b, r, m
  <2>6. checks' \subseteq checks \cup b \cup {own}
    BY <1>9 DEF own, b, new, r
  <2>7. checks' \subseteq Notice
    BY <1>1, <2>4, <2>5, <2>6 DEF ServerTyped
  <2>8. /\ ServerTyped' /\ RoomsFresh' /\ row'.ups = new /\ row'.rev # 0
    BY <1>2, <1>9, <2>1, <2>2, <2>7, StoreEffect DEF new
  <2>9. Wired(down') /\ Grew(down, down', c, {x})
    BY <1>1, <1>9, <2>3, Spoken DEF x
  <2>10. MembersTyped'
    BY <1>1, <1>2, <1>9, MembersSame
  <2>11. Pristine'  BY <2>8 DEF Pristine
  <2>12. OneSeed'
    <3>1. row.ups \cap Client = row'.ups \cap Client
      BY <1>6, <2>2, <2>8, CollabAssumption
    <3> QED  BY <1>1, <1>5, <3>1, SeedsOfGrown
  <2>13. \A k \in checks' : k \in checks \/ k.ups \subseteq row'.ups
    BY <2>2, <2>4, <2>5, <2>6, <2>8
  <2>14. \A d \in Client : \A y \in Ran(down'[d]) : y \in Ran(down[d]) \/ Reports(y)'
    <3>1. x.ups \subseteq row'.ups /\ x.ids \subseteq row'.ups
      BY <1>6, <2>2, <2>3, <2>8
    <3>2. \A y : y = x => Reports(y)'  BY <3>1 DEF Reports
    <3> QED  BY <2>9, <3>2 DEF Grew
  <2>15. row.ups \subseteq row'.ups  BY <2>2, <2>8
  <2> QED
    BY <1>2, <1>3, <2>8, <2>9, <2>10, <2>11, <2>12, <2>13, <2>14, <2>15, HubStep
<1> QED
  <2> HIDE DEF m
  <2> QED  BY <1>7, <1>8, <1>9 DEF HubUpdate, m

LEMMA HubSeedStep == ASSUME IInv, NEW c \in Client, HubSeed(c) PROVE IInv'
<1>1. /\ Typed /\ ServerTyped /\ MembersTyped /\ Wired(up) /\ Wired(down)
      /\ RoomsFresh /\ Pristine /\ OneSeed
  BY Parts DEF IInv
<1> DEFINE r == joining[c].room
<1>2. /\ joining[c].at = "seed"
      /\ UNCHANGED <<mapped, late, access, conn, up, client, faults>>
  BY DEF HubSeed
<1>3. r \in Room /\ r[1] = conn[c] /\ room[r].doc \subseteq row.ups
  BY <1>1, <1>2, Fields DEF Typed, Joins
<1>4. Shrinks(up, up') /\ Wired(up') /\ row.rev \in Nat /\ row.ups \subseteq Update
  BY <1>1, <1>2, Fields DEF Shrinks
<1>5. NotJoining \in Joining /\ NotJoining.at = "no"  BY DEF NotJoining, Joining
<1>6. CASE /\ joining' = [joining EXCEPT ![c] = NotJoining]
           /\ Tell(c, Msg("error", {}, {}, TRUE))
           /\ UNCHANGED <<row, room, member, stale, checks>>
  <2> DEFINE x == Msg("error", {}, {}, TRUE)
  <2>1. x \in Message /\ x.kind = "error"  BY DEF Msg, Message
  <2> HIDE DEF x, r
  <2>2. Wired(down') /\ Grew(down, down', c, {x})
    BY <1>1, <1>6, <2>1, Spoken DEF x
  <2>3. MembersTyped'  BY <1>1, <1>2, <1>5, <1>6 DEF MembersTyped, Joins
  <2>4. ServerTyped' /\ RoomsFresh' /\ OneSeed'
    BY <1>1, <1>2, <1>6 DEF ServerTyped, RoomsFresh, OneSeed
  <2>5. Pristine'
    <3>1. row.rev = 0 => /\ checks' = {}
                         /\ \A d \in Client : joining'[d].at # "add"
      BY <1>1, <1>5, <1>6 DEF Pristine, Waits, MembersTyped
    <3>2. \A d \in Client : \A y \in Ran(down'[d]) :
            y \in Ran(down[d]) \/ (y.kind # "update" /\ (y.kind = "joined" => y.flag))
      BY <2>1, <2>2 DEF Grew
    <3> QED  BY <1>1, <1>2, <1>4, <1>6, <3>1, <3>2, PristineKept
  <2>6. \A d \in Client : \A y \in Ran(down'[d]) : y \in Ran(down[d]) \/ Reports(y)'
    BY <2>1, <2>2 DEF Grew, Reports
  <2> QED  BY <1>2, <1>4, <1>6, <2>2, <2>3, <2>4, <2>5, <2>6, HubStep
<1>7. CASE /\ First(r)
           /\ row' = [ups |-> Merged(r, {c}), rev |-> row.rev + 1] /\ Announce(r)
           /\ room' = [room EXCEPT ![r] = Holding(r, Merged(r, {c}), row.rev + 1)]
           /\ joining' = [joining EXCEPT ![c] = NotJoining]
           /\ member' = [member EXCEPT ![c] = r]
           /\ Tell(c, Msg("joined", Merged(r, {c}), {}, FALSE))
           /\ checks' = checks \cup Broadcast(r, {c}, c, {c})
  <2> DEFINE new == Merged(r, {c})
             x == Msg("joined", new, {}, FALSE)
             b == Broadcast(r, {c}, c, {c})
  <2>1. row.ups = {}  BY <1>1, <1>7 DEF Pristine, First
  <2>2. new = {c} /\ new \subseteq Update /\ row.ups \subseteq new
    BY <2>1 DEF Merged, Update
  <2>3. x \in Message /\ x.kind = "joined" /\ x.ups = new
    BY <2>2 DEF Msg, Message
  <2>4. b \subseteq Notice /\ \A k \in b : k.ups = {c}
    <3>1. {c} \subseteq Update  BY DEF Update
    <3> QED  BY <1>1, <1>3, <3>1, Sent
  <2> HIDE DEF new, x, b
  <2>5. checks' \subseteq Notice
    BY <1>1, <1>7, <2>4 DEF ServerTyped, b
  <2> HIDE DEF r
  <2>6. /\ ServerTyped' /\ RoomsFresh' /\ row'.ups = new /\ row'.rev # 0
    BY <1>2, <1>3, <1>7, <2>2, <2>5, StoreEffect DEF new
  <2>7. Wired(down') /\ Grew(down, down', c, {x})
    BY <1>1, <1>7, <2>3, Spoken DEF x, new
  <2>8. MembersTyped'
    BY <1>1, <1>2, <1>3, <1>5, <1>7 DEF MembersTyped, Joins
  <2>9. Pristine'  BY <2>6 DEF Pristine
  <2>10. OneSeed'
    <3>1. row'.ups \cap Client = {c}  BY <2>2, <2>6
    <3> QED  BY <3>1 DEF OneSeed
  <2>11. \A k \in checks' : k \in checks \/ k.ups \subseteq row'.ups
    BY <1>7, <2>2, <2>4, <2>6 DEF b
  <2>12. \A d \in Client : \A y \in Ran(down'[d]) : y \in Ran(down[d]) \/ Reports(y)'
    BY <2>3, <2>6, <2>7 DEF Grew, Reports
  <2>13. row.ups \subseteq row'.ups  BY <2>2, <2>6
  <2> QED
    BY <1>2, <1>4, <2>6, <2>7, <2>8, <2>9, <2>10, <2>11, <2>12, <2>13, HubStep
<1>8. CASE /\ ~First(r)
           /\ room' = [room EXCEPT ![r] = Fresh(r)]
           /\ checks' = checks \cup Broadcast(r, row.ups \ room[r].doc, c, {})
           /\ joining' = [joining EXCEPT ![c].at = "add"]
           /\ UNCHANGED <<row, member, stale, down>>
  <2> DEFINE b == Broadcast(r, row.ups \ room[r].doc, c, {})
  <2>1. b \subseteq Notice /\ \A k \in b : k.ups = row.ups \ room[r].doc
    <3>1. row.ups \ room[r].doc \subseteq Update  BY <1>4
    <3> QED  BY <1>1, <1>3, <3>1, Sent
  <2> HIDE DEF b
  <2>2. /\ room' \in [Room -> Cached]
        /\ \A q \in Room : room'[q] = IF q = r THEN Fresh(r) ELSE room[q]
    BY <1>1, <1>3, <1>8, FreshRoom DEF ServerTyped
  <2>3. ServerTyped'
    <3>1. \A q \in Room : room'[q].doc \subseteq row'.ups /\ room'[q].rev <= row'.rev
      BY <1>1, <1>3, <1>4, <1>8, <2>2, FreshRoom, Fields
    <3>2. checks' \subseteq Notice  BY <1>1, <1>8, <2>1 DEF ServerTyped, b
    <3> QED  BY <1>1, <1>2, <1>8, <2>2, <3>1, <3>2 DEF ServerTyped
  <2>4. RoomsFresh'
    <3>1. \A q \in Room : room'[q].rev = row'.rev => room'[q].doc = row'.ups
      BY <1>1, <1>3, <1>8, <2>2, FreshRoom DEF RoomsFresh
    <3>2. \A n \in Node : mapped'[n] # NoRoom /\ room'[mapped'[n]].rev < row'.rev => n \in stale'
      <4> TAKE n \in Node
      <4> HAVE mapped'[n] # NoRoom /\ room'[mapped'[n]].rev < row'.rev
      <4>1. mapped[n] \in Room /\ mapped'[n] = mapped[n]  BY <1>1, <1>2, Fields
      <4>2. mapped[n] # r
        <5>1. ~ (room'[r].rev < row'.rev)  BY <1>1, <1>3, <1>4, <1>8, <2>2, FreshRoom
        <5> QED  BY <4>1, <5>1
      <4> QED  BY <1>1, <1>8, <2>2, <4>1, <4>2 DEF RoomsFresh
    <3> QED  BY <3>1, <3>2 DEF RoomsFresh
  <2>5. MembersTyped'
    <3> DEFINE j == [joining[c] EXCEPT !.at = "add"]
    <3>1. j \in Joining /\ j.room = r
      <4>1. joining[c] \in Joining  BY <1>1, Fields
      <4> QED  BY <4>1 DEF Joining
    <3> HIDE DEF r
    <3>2. joining' = [joining EXCEPT ![c] = j]  BY <1>8
    <3> HIDE DEF j
    <3> QED  BY <1>1, <1>2, <1>3, <1>8, <3>1, <3>2 DEF MembersTyped, Joins
  <2>6. Pristine' /\ OneSeed'
    BY <1>1, <1>8 DEF Pristine, OneSeed, First
  <2>7. \A k \in checks' : k \in checks \/ k.ups \subseteq row'.ups
    BY <1>8, <2>1 DEF b
  <2> QED
    BY <1>1, <1>2, <1>4, <1>8, <2>3, <2>4, <2>5, <2>6, <2>7, HubStep
<1> QED
  <2> HIDE DEF r
  <2> QED  BY <1>6, <1>7, <1>8 DEF HubSeed, r

\* The room of a join is the one in the map, or a new one; afterwards it is in
\* the map and holds the row.
JoinRoom(n) == IF mapped[n] # NoRoom THEN mapped[n]
               ELSE CHOOSE x \in Room : x[1] = n /\ Unused(x)
JoinKept(n) == IF mapped[n] # NoRoom THEN room[JoinRoom(n)]
               ELSE [doc |-> row.ups, rev |-> row.rev, ghost |-> FALSE]
JoinNow(n) == IF row.rev > JoinKept(n).rev THEN Fresh(JoinRoom(n)) ELSE JoinKept(n)

LEMMA JoinEffect ==
  ASSUME IInv, NEW n \in Node, mapped[n] # NoRoom \/ \E x \in Room : x[1] = n /\ Unused(x)
  PROVE  /\ JoinRoom(n) \in Room /\ JoinRoom(n)[1] = n
         /\ mapped[n] = NoRoom => Unused(JoinRoom(n))
         /\ JoinKept(n) \in Cached /\ JoinKept(n).doc \subseteq row.ups
         /\ JoinKept(n).rev \in Nat /\ JoinKept(n).rev <= row.rev
         /\ JoinNow(n) \in Cached /\ JoinNow(n).doc = row.ups /\ JoinNow(n).rev = row.rev
<1>1. Typed /\ RoomsFresh  BY DEF IInv
<1>2. /\ JoinRoom(n) \in Room /\ JoinRoom(n)[1] = n
      /\ mapped[n] = NoRoom => Unused(JoinRoom(n))
  <2>1. CASE mapped[n] # NoRoom
    <3>1. JoinRoom(n) = mapped[n]  BY <2>1 DEF JoinRoom
    <3> QED  BY <1>1, <2>1, <3>1, Fields
  <2>2. CASE mapped[n] = NoRoom
    <3>1. JoinRoom(n) = CHOOSE x \in Room : x[1] = n /\ Unused(x)  BY <2>2 DEF JoinRoom
    <3>2. \E x \in Room : x[1] = n /\ Unused(x)  BY <2>2
    <3> DEFINE P(x) == x[1] = n /\ Unused(x)
    <3>3. \E x \in Room : P(x)  BY <3>2
    <3>4. JoinRoom(n) = CHOOSE x \in Room : P(x)  BY <3>1
    <3> HIDE DEF P
    <3>5. JoinRoom(n) \in Room /\ P(JoinRoom(n))  BY <3>3, <3>4
    <3> QED  BY <3>5 DEF P
  <2> QED  BY <2>1, <2>2
<1> DEFINE r == JoinRoom(n)
           k == JoinKept(n)
<1>3. row.rev \in Nat /\ row.ups \subseteq Update  BY <1>1, Fields
<1>4. /\ k \in Cached /\ k.doc \subseteq row.ups /\ k.rev \in Nat /\ k.rev <= row.rev
      /\ k.rev = row.rev => k.doc = row.ups
  <2>1. CASE mapped[n] # NoRoom
    <3>1. k = room[r]  BY <2>1 DEF JoinKept
    <3> HIDE DEF k, r
    <3> QED  BY <1>1, <1>2, <3>1, Fields DEF RoomsFresh, r
  <2>2. CASE mapped[n] = NoRoom
    <3>1. k = [doc |-> row.ups, rev |-> row.rev, ghost |-> FALSE]  BY <2>2 DEF JoinKept
    <3> HIDE DEF k
    <3> QED  BY <1>3, <3>1 DEF Cached
  <2> QED  BY <2>1, <2>2
<1>5. JoinNow(n) = IF row.rev > k.rev THEN Fresh(r) ELSE k
  BY DEF JoinNow
<1>6. Fresh(r) \in Cached /\ Fresh(r).doc = row.ups /\ Fresh(r).rev = row.rev
  BY <1>1, <1>2, FreshRoom
<1> HIDE DEF r, k
<1>7. JoinNow(n) \in Cached /\ JoinNow(n).doc = row.ups /\ JoinNow(n).rev = row.rev
  BY <1>3, <1>4, <1>5, <1>6
<1> QED  BY <1>2, <1>4, <1>7 DEF r, k

LEMMA HubJoinStep == ASSUME IInv, NEW c \in Client, HubJoin(c) PROVE IInv'
<1>1. /\ Typed /\ ServerTyped /\ MembersTyped /\ Wired(up) /\ Wired(down)
      /\ RoomsFresh /\ Pristine /\ OneSeed
  BY Parts DEF IInv
<1>2. Next1(c, "join") /\ UNCHANGED <<late, access, conn, client, faults>>
  BY DEF HubJoin
<1>3. Wired(up') /\ Shrinks(up, up') /\ conn[c] # None
  BY <1>1, <1>2, Taken
<1>4. CASE Level(c) = "none"
  <2>1. Revoke(c, NoRequest) /\ UNCHANGED <<row, room, joining, checks, stale>>
    BY <1>4 DEF HubJoin
  <2>2. NoRequest.ups \subseteq Update /\ NoRequest.ids \subseteq Edit
    BY DEF NoRequest
  <2> QED  BY <1>2, <1>3, <2>1, <2>2, RevokeStep
<1>5. CASE Level(c) # "none"
  <2> DEFINE n == conn[c]
             r == JoinRoom(n)
             kept == JoinKept(n)
             now == JoinNow(n)
             behind == row.rev > kept.rev
             initialized == kept.rev > 0 \/ behind
             writable == Level(c) = "write"
             x == Msg("joined", now.doc, {}, Level(c) # "write")
             j == [at |-> IF behind THEN "add" ELSE "seed", room |-> r, writable |-> writable]
             b == IF behind THEN Broadcast(r, row.ups \ kept.doc, c, {}) ELSE {}
  <2>1. /\ mapped[n] # NoRoom \/ \E y \in Room : y[1] = n /\ Unused(y)
        /\ room' = [room EXCEPT ![r] = now]
        /\ mapped' = [mapped EXCEPT ![n] = r]
        /\ checks' = checks \cup b
        /\ \/ /\ behind \/ (~initialized /\ writable)
              /\ joining' = [joining EXCEPT ![c] = j]
              /\ UNCHANGED <<member, down>>
           \/ /\ ~ (behind \/ (~initialized /\ writable))
              /\ member' = [member EXCEPT ![c] = r]
              /\ Tell(c, x)
              /\ UNCHANGED joining
        /\ UNCHANGED <<row, stale>>
    BY <1>5 DEF HubJoin, JoinRoom, JoinKept, JoinNow
  <2>2. n \in Node  BY <1>1, <1>3 DEF MembersTyped
  <2>3. /\ r \in Room /\ r[1] = n /\ kept.doc \subseteq row.ups
        /\ kept.rev \in Nat /\ kept.rev <= row.rev
        /\ now \in Cached /\ now.doc = row.ups /\ now.rev = row.rev
    BY <2>1, <2>2, JoinEffect
  <2>4. row.rev \in Nat /\ row.ups \subseteq Update  BY <1>1, Fields
  <2>5. x \in Message /\ x.kind = "joined" /\ x.ups = row.ups /\ x.flag = (Level(c) # "write")
    BY <2>3, <2>4 DEF Msg, Message
  <2>6. j \in Joining /\ j.at # "no" /\ j.room = r /\ (j.at = "add" <=> behind)
    BY <2>3 DEF Joining
  <2>7. b \subseteq Notice /\ \A k \in b : k.ups \subseteq row.ups
    <3>1. row.ups \ kept.doc \subseteq Update  BY <2>4
    <3>2. /\ Broadcast(r, row.ups \ kept.doc, c, {}) \subseteq Notice
          /\ \A k \in Broadcast(r, row.ups \ kept.doc, c, {}) : k.ups = row.ups \ kept.doc
      BY <1>1, <2>3, <3>1, Sent
    <3> QED  BY <3>2
  <2>8. row.rev = 0 => ~behind /\ b = {} /\ ~initialized
    BY <2>3
  <2> HIDE DEF b, x, j, initialized, now, kept, r
  <2>9. /\ room' \in [Room -> Cached]
        /\ \A q \in Room : room'[q] = IF q = r THEN now ELSE room[q]
        /\ mapped' \in [Node -> Room \cup {NoRoom}]
        /\ \A y \in Node : mapped'[y] = IF y = n THEN r ELSE mapped[y]
    BY <1>1, <2>1, <2>2, <2>3 DEF ServerTyped
  <2>10. ServerTyped'
    <3>1. \A q \in Room : room'[q].doc \subseteq row'.ups /\ room'[q].rev <= row'.rev
      BY <1>1, <2>1, <2>3, <2>4, <2>9 DEF ServerTyped
    <3>2. \A y \in Node : mapped'[y] \in {NoRoom} \cup ({y} \X Slot)
      BY <1>1, <2>3, <2>9, Rooms DEF ServerTyped
    <3>3. checks' \subseteq Notice  BY <1>1, <2>1, <2>7 DEF ServerTyped
    <3> QED  BY <1>1, <1>2, <2>1, <2>9, <3>1, <3>2, <3>3 DEF ServerTyped
  <2>11. RoomsFresh'
    <3>1. \A q \in Room : room'[q].rev = row'.rev => room'[q].doc = row'.ups
      BY <1>1, <2>1, <2>3, <2>9 DEF RoomsFresh
    <3>2. \A y \in Node : mapped'[y] # NoRoom /\ room'[mapped'[y]].rev < row'.rev => y \in stale'
      <4> TAKE y \in Node
      <4> HAVE mapped'[y] # NoRoom /\ room'[mapped'[y]].rev < row'.rev
      <4>1. ~ (room'[r].rev < row'.rev)  BY <2>1, <2>3, <2>4, <2>9
      <4>2. mapped'[y] # r  BY <4>1
      <4>3. y # n /\ mapped'[y] = mapped[y] /\ mapped[y] \in Room
        BY <1>1, <2>9, <4>2, Fields
      <4> QED  BY <1>1, <2>1, <2>9, <4>2, <4>3 DEF RoomsFresh
    <3> QED  BY <3>1, <3>2 DEF RoomsFresh
  <2>12. OneSeed'  BY <1>1, <2>1 DEF OneSeed
  <2>13. \A k \in checks' : k \in checks \/ k.ups \subseteq row'.ups
    BY <2>1, <2>7
  <2>14. CASE /\ behind \/ (~initialized /\ writable)
              /\ joining' = [joining EXCEPT ![c] = j]
              /\ UNCHANGED <<member, down>>
    <3>1. MembersTyped'
      BY <1>1, <1>2, <2>3, <2>6, <2>14 DEF MembersTyped, Joins
    <3>2. Pristine'
      <4>1. row.rev = 0 => /\ checks' = {}
                           /\ \A d \in Client : joining'[d].at # "add"
        BY <1>1, <2>1, <2>6, <2>8, <2>14 DEF Pristine, Waits, MembersTyped
      <4> QED  BY <1>1, <1>2, <1>3, <2>1, <2>14, <4>1, PristineKept
    <3> QED  BY <1>1, <1>2, <1>3, <2>1, <2>10, <2>11, <2>12, <2>13, <2>14, <3>1, <3>2, HubStep
  <2>15. CASE /\ ~ (behind \/ (~initialized /\ writable))
              /\ member' = [member EXCEPT ![c] = r]
              /\ Tell(c, x)
              /\ UNCHANGED joining
    <3>1. MembersTyped'
      BY <1>1, <1>2, <2>3, <2>15 DEF MembersTyped, Joins
    <3>2. Wired(down') /\ Grew(down, down', c, {x})
      BY <1>1, <2>5, <2>15, Spoken
    <3>3. Pristine'
      <4>1. row.rev = 0 => /\ checks' = {}
                           /\ \A d \in Client : joining'[d].at # "add"
        BY <1>1, <2>1, <2>8, <2>15 DEF Pristine, Waits
      <4>2. row.rev = 0 => \A d \in Client : \A m \in Ran(down'[d]) :
              m \in Ran(down[d]) \/ (m.kind # "update" /\ (m.kind = "joined" => m.flag))
        BY <2>5, <2>8, <2>15, <3>2 DEF Grew
      <4> QED  BY <1>1, <1>2, <1>3, <2>1, <4>1, <4>2, PristineKept
    <3>4. \A d \in Client : \A m \in Ran(down'[d]) : m \in Ran(down[d]) \/ Reports(m)'
      <4>1. \A y : y = x => Reports(y)'  BY <2>1, <2>5 DEF Reports
      <4> QED  BY <3>2, <4>1 DEF Grew
    <3> QED  BY <1>2, <1>3, <2>1, <2>10, <2>11, <2>12, <2>13, <3>1, <3>2, <3>3, <3>4, HubStep
  <2> QED  BY <2>1, <2>14, <2>15
<1> QED  BY <1>4, <1>5

-----------------------------------------------------------------------------
(* The steps of a tab.                                                         *)

\* The journal of u is good: it is truthful, and pending entries are in it.
Good(j) == /\ j.server \subseteq row.ups /\ j.pending \subseteq j.ups
           /\ j.ups \subseteq row.ups \cup j.pending

\* What a step of one tab, or of its connection, has to show.
LEMMA EndStep ==
  ASSUME IInv, NEW c \in Client, row' = row,
         ServerTyped', MembersTyped', Wired(up'), Wired(down'), TabsTyped', HistoryTyped', RestTyped',
         RoomsFresh',
         \A k \in checks' : \E q \in checks : k.ups = q.ups,
         \A d \in Client : joining'[d].at = "add" => joining[d].at = "add",
         Shrinks(down, down'),
         \A d \in Client \ {c} : ed'[d] = ed[d] /\ flush'[d] = flush[d] /\ Ran(up'[d]) \subseteq Ran(up[d]),
         \A u \in User : Good(journal[u])',
         \A u \in User : journal[u].pending \cup erased \subseteq row.ups \cup journal'[u].pending \cup erased',
         ed'[c].snap.vector \subseteq row.ups, ed'[c].snap.ids \subseteq ed'[c].snap.ups,
         flush'[c].at = "loaded" => flush'[c].ids \subseteq flush'[c].ups,
         \A m \in Ran(up'[c]) : m \in Ran(up[c]) \/ Asks(m),
         ed'[c].doc \subseteq Origins(c)' \cup Ran(ed'[c].saving),
         ed'[c].snap.ups \subseteq Origins(c)',
         flush'[c].at = "loaded" => flush'[c].ups \subseteq Origins(c)',
         flush'[c].at # "no" => ed'[c].saving = <<>>,
         ed'[c].snap.at = "no" => ed'[c].snap = NoSnapshot,
         row.rev = 0 => erased' = {} /\ (\A u \in User : journal'[u].pending = {}) /\ Waits(c)'
  PROVE  IInv'
<1>1. Typed /\ Reported /\ Asked /\ Sources /\ Pristine /\ OneSeed
  BY DEF IInv
<1>2. Typed'
  BY PartsNext
<1>3. Reported'
  <2>1. \A k \in checks' : k.ups \subseteq row'.ups
    BY <1>1 DEF Reported
  <2>2. \A d \in Client : ed'[d].snap.vector \subseteq row'.ups
    BY <1>1 DEF Reported
  <2>3. \A d \in Client : \A m \in Ran(down'[d]) : m \in Ran(down[d])
    BY DEF Shrinks
  <2> QED  BY <1>1, <2>1, <2>2, <2>3, ReportedNext
<1>4. Asked'
  <2>1. ASSUME NEW d \in Client, NEW m \in Ran(up'[d]) PROVE Asks(m)'
    <3>1. Asks(m)  BY <1>1 DEF Asked
    <3> QED  BY <3>1 DEF Asks
  <2>2. \A d \in Client : /\ ed'[d].snap.ids \subseteq ed'[d].snap.ups
                          /\ flush'[d].at = "loaded" => flush'[d].ids \subseteq flush'[d].ups
    BY <1>1 DEF Asked
  <2>3. \A u \in User : journal'[u].pending \subseteq journal'[u].ups
    BY DEF Good
  <2> QED  BY <2>1, <2>2, <2>3 DEF Asked
<1>5. JournalTruthful'
  BY DEF Good, JournalTruthful
<1>6. Sources'
  <2>1. \A d \in Client : Origins(d) \subseteq Origins(d)'
    BY Owners DEF Origins
  <2> QED  BY <1>1, <2>1 DEF Sources
<1>7. Pristine'
  <2> SUFFICES ASSUME row'.rev = 0 PROVE Pristine'
    BY DEF Pristine
  <2>1. row.ups = {} /\ checks = {} /\ \A d \in Client : Waits(d)
    BY <1>1 DEF Pristine
  <2>2. ASSUME NEW d \in Client, d # c PROVE Waits(d)'
    <3>1. Waits(d)  BY <2>1
    <3>2. \A m \in Ran(up'[d]) : m.kind # "update"
      BY <2>2, <3>1 DEF Waits
    <3>3. \A m \in Ran(down'[d]) : m.kind # "update" /\ (m.kind = "joined" => m.flag)
      BY <3>1 DEF Waits, Shrinks
    <3> QED  BY <2>2, <3>1, <3>2, <3>3 DEF Waits
  <2> QED  BY <2>1, <2>2 DEF Pristine
<1>8. OneSeed'  BY <1>1 DEF OneSeed
<1> QED  BY <1>2, <1>3, <1>4, <1>5, <1>6, <1>7, <1>8 DEF IInv

\* The same where the server is left alone.
LEMMA TabStep ==
  ASSUME IInv, NEW c \in Client, UNCHANGED server,
         MembersTyped', Wired(up'), Wired(down'), TabsTyped', HistoryTyped', RestTyped',
         Shrinks(down, down'),
         \A d \in Client \ {c} : ed'[d] = ed[d] /\ flush'[d] = flush[d] /\ Ran(up'[d]) \subseteq Ran(up[d]),
         \A u \in User : Good(journal[u])',
         \A u \in User : journal[u].pending \cup erased \subseteq row.ups \cup journal'[u].pending \cup erased',
         ed'[c].snap.vector \subseteq row.ups, ed'[c].snap.ids \subseteq ed'[c].snap.ups,
         flush'[c].at = "loaded" => flush'[c].ids \subseteq flush'[c].ups,
         \A m \in Ran(up'[c]) : m \in Ran(up[c]) \/ Asks(m),
         ed'[c].doc \subseteq Origins(c)' \cup Ran(ed'[c].saving),
         ed'[c].snap.ups \subseteq Origins(c)',
         flush'[c].at = "loaded" => flush'[c].ups \subseteq Origins(c)',
         flush'[c].at # "no" => ed'[c].saving = <<>>,
         ed'[c].snap.at = "no" => ed'[c].snap = NoSnapshot,
         row.rev = 0 => erased' = {} /\ (\A u \in User : journal'[u].pending = {}) /\ Waits(c)'
  PROVE  IInv'
<1>1. row' = row /\ checks' = checks /\ joining' = joining  BY DEF server
<1>2. ServerTyped' /\ RoomsFresh'  BY ServerSame, Parts DEF IInv
<1> QED  BY <1>1, <1>2, EndStep

\* A tab that does nothing is as it was.
LEMMA AsBefore ==
  ASSUME IInv, NEW c \in Client
  PROVE  /\ ed[c].snap.vector \subseteq row.ups /\ ed[c].snap.ids \subseteq ed[c].snap.ups
         /\ flush[c].at = "loaded" => flush[c].ids \subseteq flush[c].ups
         /\ ed[c].doc \subseteq Origins(c) \cup Ran(ed[c].saving)
         /\ ed[c].snap.ups \subseteq Origins(c)
         /\ flush[c].at = "loaded" => flush[c].ups \subseteq Origins(c)
         /\ flush[c].at # "no" => ed[c].saving = <<>>
         /\ ed[c].snap.at = "no" => ed[c].snap = NoSnapshot
         /\ \A u \in User : Good(journal[u])
         /\ row.rev = 0 => /\ erased = {} /\ row.ups = {}
                           /\ \A u \in User : journal[u].pending = {}
                           /\ Waits(c)
         /\ row.rev = 0 => /\ erased = {} /\ (\A u \in User : journal[u].pending = {}) /\ Waits(c)
BY DEF IInv, Reported, Asked, Sources, JournalTruthful, Good, Pristine

LEMMA ConnectStep == ASSUME IInv, NEW c \in Client, NEW n \in Node, Connect(c, n) PROVE IInv'
<1>1. /\ Typed /\ MembersTyped /\ Wired(up) /\ Wired(down) /\ TabsTyped /\ HistoryTyped /\ RestTyped
  BY Parts DEF IInv
<1> DEFINE m == Msg("join", {}, {}, FALSE)
<1>2. /\ conn[c] = None /\ conn' = [conn EXCEPT ![c] = n] /\ up' = [up EXCEPT ![c] = <<m>>]
      /\ UNCHANGED <<server, client, access, down, faults>>
  BY DEF Connect
<1>3. m \in Message /\ m.kind = "join"  BY DEF Msg, Message
<1> HIDE DEF m
<1>4. <<m>> \in Seq(Message) /\ Ran(<<m>>) = {m}
  BY <1>3, RanOne
<1>5. /\ Wired(up') /\ \A d \in Client : up'[d] = IF d = c THEN <<m>> ELSE up[d]
  BY <1>1, <1>2, <1>4 DEF Wired
<1>6. MembersTyped'
  <2>1. member' = member /\ joining' = joining  BY <1>2 DEF server
  <2>2. member[c] = NoRoom
    BY <1>1, <1>2, Rooms, CollabAssumption, Fields
  <2>3. joining[c].at = "no"
    BY <1>1, <1>2, Rooms, CollabAssumption DEF MembersTyped, Joins
  <2> QED  BY <1>1, <1>2, <2>1, <2>2, <2>3 DEF MembersTyped, Joins
<1>7. /\ ed' = ed /\ journal' = journal /\ pend' = pend /\ flush' = flush /\ erased' = erased
      /\ row' = row /\ joining' = joining
  BY <1>2 DEF client, server
<1>8. TabsTyped' /\ HistoryTyped' /\ RestTyped'
  BY <1>1, <1>2, ClientSame DEF RestTyped
<1>9. row.rev = 0 => Waits(c)'
  BY <1>2, <1>3, <1>4, <1>5, <1>7, AsBefore DEF Waits
<1>10. \A x \in Ran(up'[c]) : x \in Ran(up[c]) \/ Asks(x)
  <2>1. \A y : y = m => Asks(y)  BY <1>3 DEF Asks
  <2> QED  BY <1>4, <1>5, <2>1
<1>11. \A u \in User : Good(journal[u])'
  BY <1>7, AsBefore DEF Good
<1>12. Origins(c)' = Origins(c)
  BY <1>7 DEF Origins
<1> QED
  BY <1>1, <1>2, <1>5, <1>6, <1>7, <1>8, <1>9, <1>10, <1>11, <1>12, AsBefore, TabStep DEF Shrinks

LEMMA Pushed ==
  ASSUME Wired(up), NEW c \in Client, NEW m \in Message, up' = [up EXCEPT ![c] = Append(@, m)]
  PROVE  /\ Wired(up')
         /\ \A d \in Client \ {c} : up'[d] = up[d]
         /\ Ran(up'[c]) = Ran(up[c]) \cup {m}
<1>1. up[c] \in Seq(Message)  BY DEF Wired
<1>2. Append(up[c], m) \in Seq(Message) /\ Ran(Append(up[c], m)) = Ran(up[c]) \cup {m}
  BY <1>1, RanAppend
<1>3. /\ \A d \in Client : up'[d] = IF d = c THEN Append(up[c], m) ELSE up[d]
      /\ up' \in [Client -> Seq(Message)]
  BY <1>1, <1>2 DEF Wired
<1> QED  BY <1>2, <1>3 DEF Wired

LEMMA Framed ==
  ASSUME Wired(down), NEW c \in Client, NEW kind, Frame(c, kind)
  PROVE  /\ Wired(down') /\ Shrinks(down, down')
         /\ Head(down[c]) \in Message /\ Head(down[c]) \in Ran(down[c]) /\ Head(down[c]).kind = kind
         /\ ed[c].snap.at = "no"
<1>1. down[c] \in Seq(Message) /\ down[c] # <<>>  BY DEF Wired, Frame
<1>2. /\ Tail(down[c]) \in Seq(Message) /\ Ran(Tail(down[c])) \subseteq Ran(down[c])
      /\ Head(down[c]) \in Message /\ Head(down[c]) \in Ran(down[c])
  BY <1>1, RanTail
<1>3. down' = [down EXCEPT ![c] = Tail(down[c])]
  BY DEF Frame
<1>4. /\ \A d \in Client : down'[d] = IF d = c THEN Tail(down[c]) ELSE down[d]
      /\ down' \in [Client -> Seq(Message)]
  BY <1>2, <1>3 DEF Wired
<1> QED  BY <1>2, <1>4 DEF Wired, Shrinks, Frame

LEMMA Checkpointed ==
  ASSUME NEW j \in Journal, NEW ups, ups \subseteq Update
  PROVE  /\ Checkpoint(j, ups) \in Journal
         /\ Checkpoint(j, ups).server = j.server \cup ups
         /\ Checkpoint(j, ups).ups = j.ups \cup ups
         /\ Checkpoint(j, ups).pending = j.pending /\ Checkpoint(j, ups).revoked = FALSE
BY DEF Checkpoint, Journal

LEMMA Settled1 ==
  ASSUME NEW j \in Journal, NEW m \in Message
  PROVE  /\ Settle(j, m) \in Journal
         /\ Settle(j, m).server = j.server \cup m.ups
         /\ Settle(j, m).ups = j.ups \cup m.ups
         /\ Settle(j, m).pending = j.pending \ m.ids /\ Settle(j, m).revoked = FALSE
<1> DEFINE k == Checkpoint(j, m.ups)
<1>1. /\ k \in Journal /\ k.server = j.server \cup m.ups /\ k.ups = j.ups \cup m.ups
      /\ k.pending = j.pending /\ k.revoked = FALSE
  BY Checkpointed, MessageFields
<1>2. Settle(j, m) = [k EXCEPT !.pending = k.pending \ m.ids]
  BY DEF Settle
<1> HIDE DEF k
<1> QED  BY <1>1, <1>2 DEF Journal

LEMMA TypeStep == ASSUME IInv, NEW c \in Client, NEW e \in Edit, Type(c, e) PROVE IInv'
<1>1. /\ Typed /\ MembersTyped /\ Wired(up) /\ Wired(down) /\ TabsTyped /\ HistoryTyped /\ RestTyped
  BY Parts DEF IInv
<1>2. /\ ed[c].view /\ ~ed[c].unsynced /\ flush[c].at = "no"
      /\ ed' = [ed EXCEPT ![c].doc = @ \cup {e}, ![c].saving = Append(@, e)]
      /\ base' = [base EXCEPT ![e] = ed[c].doc]
      /\ UNCHANGED <<server, journal, pend, flush, unstored, unsent, erased, access, conn, up, down, faults>>
  BY DEF Type
<1>3. /\ ed[c] \in Draft /\ ed[c].doc \subseteq Update /\ ed[c].saving \in Seq(Edit)
  BY <1>1, TabFields
<1>4. Append(ed[c].saving, e) \in Seq(Edit) /\ Ran(Append(ed[c].saving, e)) = Ran(ed[c].saving) \cup {e}
  BY <1>3, RanAppend
<1>5. /\ ed' \in [Client -> Draft]
      /\ \A d \in Client \ {c} : ed'[d] = ed[d]
      /\ ed'[c].doc = ed[c].doc \cup {e} /\ ed'[c].saving = Append(ed[c].saving, e)
      /\ ed'[c].snap = ed[c].snap
  <2> DEFINE v == [ed[c] EXCEPT !.doc = @ \cup {e}, !.saving = Append(@, e)]
  <2>1. /\ v \in Draft /\ v.doc = ed[c].doc \cup {e} /\ v.saving = Append(ed[c].saving, e)
        /\ v.snap = ed[c].snap
    BY <1>3, <1>4 DEF Draft, Update
  <2>2. ed' = [ed EXCEPT ![c] = v]
    BY <1>1, <1>2, <1>3 DEF TabsTyped
  <2> HIDE DEF v
  <2> QED  BY <1>1, <2>1, <2>2 DEF TabsTyped
<1>6. TabsTyped'
  BY <1>1, <1>2, <1>5 DEF TabsTyped
<1>7. HistoryTyped' /\ RestTyped'
  BY <1>1, <1>2, <1>3 DEF HistoryTyped, RestTyped
<1>8. row' = row /\ UNCHANGED <<member, joining, conn>>  BY <1>2 DEF server
<1>9. MembersTyped'  BY <1>1, <1>8, MembersSame
<1>10. row.rev # 0  BY <1>2, AsBefore DEF Waits
<1>11. Origins(c)' = Origins(c)  BY <1>2, <1>8 DEF Origins
<1>12. \A u \in User : Good(journal[u])'
  BY <1>2, <1>8, AsBefore DEF Good
<1>13. ed'[c].doc \subseteq Origins(c)' \cup Ran(ed'[c].saving)
  BY <1>4, <1>5, <1>11, AsBefore
<1>14. Shrinks(down, down') BY <1>2 DEF Shrinks
<1> QED
  BY <1>1, <1>2, <1>5, <1>6, <1>7, <1>9, <1>10, <1>11, <1>12, <1>13, <1>14, AsBefore, TabStep

LEMMA PushEffect ==
  ASSUME Typed, NEW c \in Client, NEW ups, ups \subseteq Update, NEW ids, ids \subseteq Edit,
         Pushes(c, ups, ids)
  PROVE  /\ Wired(up')
         /\ \A d \in Client \ {c} : up'[d] = up[d]
         /\ \A m \in Ran(up'[c]) : m \in Ran(up[c]) \/ (m.kind = "update" /\ m.ups = ups /\ m.ids = ids)
         /\ pend' \in [Client -> SUBSET Request]
<1> DEFINE m == Msg("update", ups, ids, FALSE)
           q == [ids |-> ids, ups |-> ups]
<1>1. m \in Message /\ m.kind = "update" /\ m.ups = ups /\ m.ids = ids
  BY DEF Msg, Message
<1>2. q \in Request  BY DEF Request
<1>3. up' = [up EXCEPT ![c] = Append(@, m)] /\ pend' = [pend EXCEPT ![c] = @ \cup {q}]
  BY DEF Pushes
<1> HIDE DEF m, q
<1>4. /\ Wired(up') /\ \A d \in Client \ {c} : up'[d] = up[d]
      /\ Ran(up'[c]) = Ran(up[c]) \cup {m}
  BY <1>1, <1>3, Parts, Pushed
<1>5. pend \in [Client -> SUBSET Request]  BY Parts DEF TabsTyped
<1>6. pend' \in [Client -> SUBSET Request]
  BY <1>2, <1>3, <1>5
<1> QED  BY <1>1, <1>4, <1>6

LEMMA SaveStep == ASSUME IInv, NEW c \in Client, Save(c) PROVE IInv'
<1>1. /\ Typed /\ MembersTyped /\ Wired(up) /\ Wired(down) /\ TabsTyped /\ HistoryTyped /\ RestTyped
  BY Parts DEF IInv
<1> DEFINE e == Head(ed[c].saving)
           u == Owner[c]
           j == journal[u]
           saved == [j EXCEPT !.ups = @ \cup {e}, !.pending = @ \cup {e}]
           s == Tail(ed[c].saving)
<1>2. /\ ed[c].saving # <<>>
      /\ UNCHANGED <<server, flush, unstored, unsent, base, access, conn, down, faults>>
  BY DEF Save
<1>3. /\ ed[c] \in Draft /\ ed[c].doc \subseteq Update /\ ed[c].saving \in Seq(Edit)
      /\ u \in User /\ j \in Journal /\ j.ups \subseteq Update /\ j.pending \subseteq Edit
  BY <1>1, Owners, TabFields, JournalFields
<1>4. /\ e \in Edit /\ s \in Seq(Edit) /\ e \in Ran(ed[c].saving)
      /\ Ran(ed[c].saving) \subseteq Ran(s) \cup {e}
  BY <1>2, <1>3, RanTail
<1>5. row' = row /\ UNCHANGED <<member, joining, conn>>  BY <1>2 DEF server
<1>6. MembersTyped' /\ RestTyped'  BY <1>1, <1>2, <1>5, MembersSame DEF RestTyped
<1>7. row.rev # 0 /\ flush[c].at = "no"  BY <1>2, AsBefore DEF Waits
<1>8. Shrinks(down, down') /\ Wired(down') BY <1>1, <1>2 DEF Shrinks
<1>9. CASE /\ ed' = [ed EXCEPT ![c].saving = s, ![c].ro = TRUE, ![c].err = "storage"]
           /\ erased' = erased \cup {e}
           /\ UNCHANGED <<journal, pend, up>>
  <2> DEFINE v == [ed[c] EXCEPT !.saving = s, !.ro = TRUE, !.err = "storage"]
  <2> HIDE DEF s, e
  <2>1. v \in Draft /\ v.doc = ed[c].doc /\ v.saving = s /\ v.snap = ed[c].snap
    BY <1>3, <1>4 DEF Draft
  <2>2. ed' = [ed EXCEPT ![c] = v]
    BY <1>1, <1>3, <1>9 DEF TabsTyped
  <2> HIDE DEF v
  <2>3. /\ ed' \in [Client -> Draft] /\ ed'[c] = v /\ \A d \in Client \ {c} : ed'[d] = ed[d]
    BY <1>1, <2>1, <2>2 DEF TabsTyped
  <2>4. TabsTyped' /\ HistoryTyped'
    BY <1>1, <1>2, <1>4, <1>9, <2>3 DEF TabsTyped, HistoryTyped
  <2>5. Origins(c)' = Origins(c) \cup {e}
    BY <1>5, <1>9 DEF Origins
  <2>6. \A x \in User : Good(journal[x])'
    BY <1>5, <1>9, AsBefore DEF Good
  <2>7. ed'[c].doc \subseteq Origins(c)' \cup Ran(ed'[c].saving)
    BY <1>4, <2>1, <2>3, <2>5, AsBefore
  <2>8. \A x \in User : journal[x].pending \cup erased \subseteq row.ups \cup journal'[x].pending \cup erased'
    BY <1>9
  <2> QED
    BY <1>1, <1>2, <1>6, <1>7, <1>8, <1>9, <2>1, <2>3, <2>4, <2>5, <2>6, <2>7, <2>8, AsBefore, TabStep
<1>10. CASE /\ journal' = [journal EXCEPT ![u] = saved]
            /\ ed' = [ed EXCEPT ![c].saving = s, ![c].doc = @ \cup saved.ups]
            /\ Pushes(c, {e}, {e}) \/ UNCHANGED <<pend, up>>
            /\ UNCHANGED erased
  <2> DEFINE v == [ed[c] EXCEPT !.saving = s, !.doc = @ \cup saved.ups]
  <2>1. saved \in Journal /\ saved.ups = j.ups \cup {e} /\ saved.pending = j.pending \cup {e}
        /\ saved.server = j.server
    <3> HIDE DEF s, e, j
    <3> QED  BY <1>3, <1>4 DEF Journal, Update
  <2> HIDE DEF s, e, saved
  <2>2. v \in Draft /\ v.doc = ed[c].doc \cup saved.ups /\ v.saving = s /\ v.snap = ed[c].snap
    <3>1. saved.ups \subseteq Update  BY <1>3, <1>4, <2>1 DEF Update
    <3> QED  BY <1>3, <1>4, <3>1 DEF Draft
  <2>3. ed' = [ed EXCEPT ![c] = v]
    BY <1>1, <1>3, <1>10 DEF TabsTyped
  <2> HIDE DEF v, u, j
  <2>4. /\ ed' \in [Client -> Draft] /\ ed'[c] = v /\ \A d \in Client \ {c} : ed'[d] = ed[d]
    BY <1>1, <2>2, <2>3 DEF TabsTyped
  <2>5. /\ journal' \in [User -> Journal]
        /\ \A x \in User : journal'[x] = IF x = u THEN saved ELSE journal[x]
    BY <1>1, <1>3, <1>10, <2>1 DEF TabsTyped
  <2>6. /\ Wired(up') /\ \A d \in Client \ {c} : up'[d] = up[d]
        /\ \A m \in Ran(up'[c]) : m \in Ran(up[c]) \/ Asks(m)
        /\ pend' \in [Client -> SUBSET Request]
    <3>1. CASE UNCHANGED <<pend, up>>  BY <1>1, <3>1 DEF TabsTyped
    <3>2. CASE Pushes(c, {e}, {e})
      <4> DEFINE w == {e}
      <4>1. w \subseteq Update /\ w \subseteq Edit /\ Pushes(c, w, w)  BY <1>4, <3>2 DEF Update
      <4> HIDE DEF w
      <4>2. /\ Wired(up') /\ \A d \in Client \ {c} : up'[d] = up[d]
            /\ \A m \in Ran(up'[c]) : m \in Ran(up[c]) \/ (m.kind = "update" /\ m.ups = w /\ m.ids = w)
            /\ pend' \in [Client -> SUBSET Request]
        BY <1>1, <4>1, PushEffect
      <4> QED  BY <4>1, <4>2 DEF Asks
    <3> QED  BY <1>10, <3>1, <3>2
  <2>7. TabsTyped' /\ HistoryTyped'
    BY <1>1, <1>2, <1>10, <2>4, <2>5, <2>6 DEF TabsTyped, HistoryTyped
  <2>8. j = journal[u] /\ Good(j) /\ u = Owner[c]  BY <1>3, AsBefore DEF j, u
  <2>9. Origins(c)' = Origins(c) \cup {e}
    BY <1>3, <1>5, <1>10, <2>1, <2>5, <2>8 DEF Origins
  <2>10. \A x \in User : Good(journal[x])'
    BY <1>5, <2>1, <2>5, <2>8, AsBefore DEF Good
  <2>11. saved.ups \subseteq Origins(c)'
    BY <2>1, <2>8, <2>9 DEF Origins, Good
  <2>12. ed'[c].doc \subseteq Origins(c)' \cup Ran(ed'[c].saving)
    BY <1>4, <2>2, <2>4, <2>9, <2>11, AsBefore
  <2>13. \A x \in User : journal[x].pending \cup erased \subseteq row.ups \cup journal'[x].pending \cup erased'
    BY <1>10, <2>1, <2>5, <2>8
  <2> QED
    BY <1>1, <1>2, <1>6, <1>7, <1>8, <2>2, <2>4, <2>6, <2>7, <2>9, <2>10, <2>12, <2>13, AsBefore, TabStep
<1> QED  BY <1>9, <1>10 DEF Save

LEMMA LocalEdits ==
  ASSUME IInv, NEW c \in Client
  PROVE  /\ Origins(c) \subseteq row.ups \cup Edit
         /\ ed[c].doc \cup ed[c].snap.ups \subseteq row.ups \cup Edit
         /\ flush[c].at = "loaded" => flush[c].ups \subseteq row.ups \cup Edit
<1>1. Typed  BY DEF IInv
<1>2. erased \subseteq Edit  BY <1>1, Parts DEF HistoryTyped
<1>3. journal[Owner[c]].pending \subseteq Edit  BY <1>1, Owners, JournalFields
<1>4. Ran(ed[c].saving) \subseteq Edit  BY <1>1, TabFields, RanIn
<1>5. Origins(c) \subseteq row.ups \cup Edit  BY <1>2, <1>3 DEF Origins
<1> QED  BY <1>4, <1>5, AsBefore

LEMMA JoinedStep == ASSUME IInv, NEW c \in Client, Joined(c) PROVE IInv'
<1>1. /\ Typed /\ MembersTyped /\ Wired(up) /\ Wired(down) /\ TabsTyped /\ HistoryTyped /\ RestTyped
      /\ Reported
  BY Parts DEF IInv
<1> DEFINE m == Head(down[c])
           u == Owner[c]
           j == Checkpoint(journal[u], m.ups)
           s == [at |-> "joined", ids |-> j.pending, ups |-> j.ups, vector |-> m.ups, ro |-> m.flag]
<1>2. /\ Frame(c, "joined") /\ ed[c].saving = <<>>
      /\ journal' = [journal EXCEPT ![u] = j]
      /\ ed' = [ed EXCEPT ![c].snap = s]
      /\ UNCHANGED <<server, pend, flush, unstored, unsent, erased, base, access, conn, up, faults>>
  BY DEF Joined
<1>3. /\ Wired(down') /\ Shrinks(down, down') /\ m \in Message /\ m \in Ran(down[c]) /\ m.kind = "joined"
  BY <1>1, <1>2, Framed
<1>4. m.ups \subseteq row.ups  BY <1>1, <1>3 DEF Reported, Reports
<1>5. /\ m.ups \subseteq Update /\ m.flag \in BOOLEAN
  BY <1>3, MessageFields
<1>6. /\ ed[c] \in Draft /\ u \in User /\ journal[u] \in Journal /\ journal[u].ups \subseteq Update
      /\ journal[u].pending \subseteq Edit
  BY <1>1, Owners, TabFields, JournalFields
<1>7. /\ j \in Journal /\ j.server = journal[u].server \cup m.ups /\ j.ups = journal[u].ups \cup m.ups
      /\ j.pending = journal[u].pending
  <2> HIDE DEF m, u
  <2> QED  BY <1>5, <1>6, Checkpointed
<1> HIDE DEF m, j
<1>8. /\ s \in Snapshot /\ s.at = "joined" /\ s.ids = j.pending /\ s.ups = j.ups
      /\ s.vector = m.ups /\ s.ro = m.flag
  BY <1>5, <1>6, <1>7 DEF Snapshot
<1> HIDE DEF s
<1> DEFINE v == [ed[c] EXCEPT !.snap = s]
<1>9. /\ v \in Draft /\ v.doc = ed[c].doc /\ v.saving = ed[c].saving /\ v.snap = s
      /\ v.view = ed[c].view /\ v.unsynced = ed[c].unsynced
  BY <1>6, <1>8 DEF Draft
<1>10. ed' = [ed EXCEPT ![c] = v]  BY <1>1, <1>2, <1>6 DEF TabsTyped
<1> HIDE DEF v, u
<1>11. /\ ed' \in [Client -> Draft] /\ ed'[c] = v /\ \A d \in Client \ {c} : ed'[d] = ed[d]
  BY <1>1, <1>9, <1>10 DEF TabsTyped
<1>12. /\ journal' \in [User -> Journal]
       /\ \A x \in User : journal'[x] = IF x = u THEN j ELSE journal[x]
  BY <1>1, <1>2, <1>6, <1>7 DEF TabsTyped
<1>13. TabsTyped' /\ HistoryTyped'
  BY <1>1, <1>2, <1>11, <1>12 DEF TabsTyped, HistoryTyped
<1>14. row' = row /\ UNCHANGED <<member, joining, conn>>  BY <1>2 DEF server
<1>15. MembersTyped' /\ RestTyped'  BY <1>1, <1>2, <1>14, MembersSame DEF RestTyped
<1>16. Good(journal[u]) /\ u = Owner[c]  BY <1>6, AsBefore DEF u
<1>17. \A x \in User : Good(journal[x])'
  BY <1>4, <1>7, <1>12, <1>14, <1>16, AsBefore DEF Good
<1>18. Origins(c)' = Origins(c)
  BY <1>2, <1>7, <1>12, <1>14, <1>16 DEF Origins
<1>19. s.ups \subseteq Origins(c) /\ s.ids \subseteq s.ups
  BY <1>4, <1>7, <1>8, <1>16 DEF Origins, Good
<1>20. row.rev = 0 => erased' = {} /\ (\A x \in User : journal'[x].pending = {}) /\ Waits(c)'
  <2> SUFFICES ASSUME row.rev = 0 PROVE erased' = {} /\ (\A x \in User : journal'[x].pending = {}) /\ Waits(c)'
    OBVIOUS
  <2>1. Waits(c) /\ erased = {} /\ \A x \in User : journal[x].pending = {}  BY AsBefore
  <2>2. m.flag  BY <1>3, <2>1 DEF Waits
  <2>3. \A x \in Ran(down'[c]) : x \in Ran(down[c])  BY <1>3 DEF Shrinks
  <2>4. Waits(c)'
    BY <1>2, <1>8, <1>9, <1>11, <1>14, <2>1, <2>2, <2>3 DEF Waits
  <2>5. \A x \in User : journal'[x].pending = {}  BY <1>7, <1>12, <1>16, <2>1
  <2> QED  BY <1>2, <2>1, <2>4, <2>5
<1>21. \A x \in User : journal[x].pending \cup erased \subseteq row.ups \cup journal'[x].pending \cup erased'
  BY <1>2, <1>7, <1>12
<1> QED
  BY <1>1, <1>2, <1>3, <1>4, <1>8, <1>9, <1>11, <1>13, <1>15, <1>17, <1>18, <1>19, <1>20, <1>21,
     AsBefore, TabStep

LEMMA RestoreStep == ASSUME IInv, NEW c \in Client, Restore(c) PROVE IInv'
<1>1. /\ Typed /\ MembersTyped /\ Wired(up) /\ Wired(down) /\ TabsTyped /\ HistoryTyped /\ RestTyped
      /\ Reported
  BY Parts DEF IInv
<1> DEFINE s == ed[c].snap
           doc == ed[c].doc \cup s.ups
           missing == doc \ s.vector
           due == ~s.ro /\ (missing # {} \/ s.ids # {})
           v == [doc |-> doc, saving |-> ed[c].saving, on |-> TRUE, ro |-> s.ro, view |-> TRUE,
                 unsynced |-> s.vector = {} /\ s.ro, snap |-> NoSnapshot,
                 err |-> IF due \/ s.ids # {} THEN ed[c].err ELSE Cleared(c)]
<1>2. /\ s.at = "joined"
      /\ ed' = [ed EXCEPT ![c] = v]
      /\ (~s.ro /\ Pushes(c, missing, s.ids)) \/ UNCHANGED <<pend, up>>
      /\ UNCHANGED <<server, journal, flush, unstored, unsent, erased, base, access, conn, down, faults>>
  BY DEF Restore
<1>3. /\ ed[c] \in Draft /\ ed[c].doc \subseteq Update /\ ed[c].saving \in Seq(Edit)
      /\ s \in Snapshot /\ s.ups \subseteq Update /\ s.ids \subseteq Edit /\ s.ro \in BOOLEAN
      /\ ed[c].err \in {"no", "last", "storage"}
  BY <1>1, TabFields
<1>4. NoSnapshot \in Snapshot /\ NoSnapshot.at = "no" /\ NoSnapshot.ids = {} /\ NoSnapshot.ups = {}
      /\ NoSnapshot.vector = {}
  BY DEF NoSnapshot, Snapshot
<1>5. Cleared(c) \in {"no", "last", "storage"}  BY DEF Cleared
<1>6. s.ids \subseteq s.ups /\ s.vector \subseteq row.ups /\ s.ups \subseteq Origins(c)
  BY AsBefore
<1>7. missing \subseteq Update /\ missing \subseteq row.ups \cup Edit /\ s.ids \subseteq missing \cup row.ups
  BY <1>3, <1>6, LocalEdits
<1>8. /\ v \in Draft /\ v.doc = doc /\ v.saving = ed[c].saving /\ v.snap = NoSnapshot
      /\ v.view = TRUE /\ v.unsynced = (s.vector = {} /\ s.ro)
  <2> HIDE DEF s, due
  <2>1. doc \subseteq Update  BY <1>3
  <2> HIDE DEF doc
  <2> QED  BY <1>3, <1>4, <1>5, <2>1 DEF Draft
<1> HIDE DEF v, missing, s, due
<1>9. /\ ed' \in [Client -> Draft] /\ ed'[c] = v /\ \A d \in Client \ {c} : ed'[d] = ed[d]
  BY <1>1, <1>2, <1>8 DEF TabsTyped
<1>10. /\ Wired(up') /\ \A d \in Client \ {c} : up'[d] = up[d]
       /\ \A m \in Ran(up'[c]) : m \in Ran(up[c]) \/ (Asks(m) /\ ~s.ro)
       /\ pend' \in [Client -> SUBSET Request]
  <2>1. CASE UNCHANGED <<pend, up>>  BY <1>1, <2>1 DEF TabsTyped
  <2>2. CASE ~s.ro /\ Pushes(c, missing, s.ids)
    <3> DEFINE ids == s.ids
    <3>1. Pushes(c, missing, ids) /\ ids \subseteq Edit /\ missing \subseteq Update /\ ids \subseteq missing \cup row.ups
      BY <1>3, <1>7, <2>2
    <3>0. Typed  BY <1>1
    <3> HIDE DEF ids
    <3>2. /\ Wired(up') /\ \A d \in Client \ {c} : up'[d] = up[d]
          /\ \A m \in Ran(up'[c]) : m \in Ran(up[c]) \/ (m.kind = "update" /\ m.ups = missing /\ m.ids = ids)
          /\ pend' \in [Client -> SUBSET Request]
      BY ONLY <3>0, <3>1, c \in Client, PushEffect
    <3> QED  BY <1>7, <2>2, <3>1, <3>2 DEF Asks
  <2> QED  BY <1>2, <2>1, <2>2
<1>11. TabsTyped' /\ HistoryTyped'
  BY <1>1, <1>2, <1>9, <1>10 DEF TabsTyped, HistoryTyped
<1>12. row' = row /\ UNCHANGED <<member, joining, conn>>  BY <1>2 DEF server
<1>13. MembersTyped' /\ RestTyped'  BY <1>1, <1>2, <1>12, MembersSame DEF RestTyped
<1>14. \A x \in User : Good(journal[x])'
  BY <1>2, <1>12, AsBefore DEF Good
<1>15. Origins(c)' = Origins(c)  BY <1>2, <1>12 DEF Origins
<1>16. ed'[c].doc \subseteq Origins(c)' \cup Ran(ed'[c].saving)
  BY <1>6, <1>8, <1>9, <1>15, AsBefore
<1>17. row.rev = 0 => erased' = {} /\ (\A x \in User : journal'[x].pending = {}) /\ Waits(c)'
  <2> SUFFICES ASSUME row.rev = 0 PROVE erased' = {} /\ (\A x \in User : journal'[x].pending = {}) /\ Waits(c)'
    OBVIOUS
  <2>1. Waits(c) /\ erased = {} /\ row.ups = {} /\ \A x \in User : journal[x].pending = {}  BY AsBefore
  <2>2. s.ro /\ s.vector = {}  BY <1>2, <1>6, <2>1 DEF Waits, s
  <2>3. \A x \in Ran(up'[c]) : x \in Ran(up[c])  BY <1>10, <2>2
  <2>4. v.unsynced  BY <1>8, <2>2
  <2>5. Waits(c)'
    BY <1>2, <1>4, <1>8, <1>9, <1>12, <2>1, <2>3, <2>4 DEF Waits
  <2> QED  BY <1>2, <2>1, <2>5
<1>18. Shrinks(down, down') /\ Wired(down')  BY <1>1, <1>2 DEF Shrinks
<1> QED
  BY <1>1, <1>2, <1>4, <1>8, <1>9, <1>10, <1>11, <1>13, <1>14, <1>15, <1>16, <1>17, <1>18, AsBefore, TabStep

LEMMA UpdatedStep == ASSUME IInv, NEW c \in Client, Updated(c) PROVE IInv'
<1>1. /\ Typed /\ MembersTyped /\ Wired(up) /\ Wired(down) /\ TabsTyped /\ HistoryTyped /\ RestTyped
      /\ Reported
  BY Parts DEF IInv
<1> DEFINE m == Head(down[c])
           u == Owner[c]
           j == journal[u]
           next == IF j.revoked THEN j ELSE Checkpoint(j, m.ups)
           v == IF j.revoked THEN ed[c]
                ELSE [ed[c] EXCEPT !.doc = @ \cup next.ups, !.unsynced = FALSE]
<1>2. /\ Frame(c, "update")
      /\ journal' = [journal EXCEPT ![u] = next]
      /\ UNCHANGED <<server, pend, flush, unstored, unsent, erased, base, access, conn, up, faults>>
  BY DEF Updated
<1>3. /\ Wired(down') /\ Shrinks(down, down') /\ m \in Message /\ m \in Ran(down[c]) /\ m.kind = "update"
  BY <1>1, <1>2, Framed
<1>4. m.ups \subseteq row.ups  BY <1>1, <1>3 DEF Reported, Reports
<1>5. m.ups \subseteq Update  BY <1>3, MessageFields
<1>6. /\ ed[c] \in Draft /\ ed[c].doc \subseteq Update /\ u \in User /\ j \in Journal
      /\ j.ups \subseteq Update
  BY <1>1, Owners, TabFields, JournalFields
<1>7. ed' = [ed EXCEPT ![c] = v]
  <2>1. CASE j.revoked
    <3>1. v = ed[c] /\ ed' = ed  BY <2>1 DEF Updated
    <3> QED  BY <1>1, <3>1 DEF TabsTyped
  <2>2. CASE ~j.revoked
    <3>1. /\ v = [ed[c] EXCEPT !.doc = @ \cup next.ups, !.unsynced = FALSE]
          /\ ed' = [ed EXCEPT ![c].doc = @ \cup next.ups, ![c].unsynced = FALSE]
      BY <2>2 DEF Updated
    <3> HIDE DEF next
    <3> QED  BY <1>1, <1>6, <3>1 DEF TabsTyped
  <2> QED  BY <2>1, <2>2
<1>8. /\ next \in Journal /\ next.pending = j.pending
      /\ j.server \subseteq next.server /\ next.server \subseteq j.server \cup m.ups
      /\ j.ups \subseteq next.ups /\ next.ups \subseteq j.ups \cup m.ups
  <2> HIDE DEF m, j
  <2> QED  BY <1>5, <1>6, Checkpointed
<1> HIDE DEF m, next
<1>9. /\ v \in Draft /\ v.saving = ed[c].saving /\ v.snap = ed[c].snap
      /\ v.doc \subseteq ed[c].doc \cup next.ups
  <2>1. next.ups \subseteq Update  BY <1>5, <1>6, <1>8
  <2> HIDE DEF j
  <2> QED  BY <1>6, <2>1 DEF Draft
<1> HIDE DEF v, u, j
<1>10. /\ ed' \in [Client -> Draft] /\ ed'[c] = v /\ \A d \in Client \ {c} : ed'[d] = ed[d]
  BY <1>1, <1>7, <1>9 DEF TabsTyped
<1>11. /\ journal' \in [User -> Journal]
       /\ \A x \in User : journal'[x] = IF x = u THEN next ELSE journal[x]
  BY <1>1, <1>2, <1>6, <1>8 DEF TabsTyped
<1>12. TabsTyped' /\ HistoryTyped'
  BY <1>1, <1>2, <1>10, <1>11 DEF TabsTyped, HistoryTyped
<1>13. row' = row /\ UNCHANGED <<member, joining, conn>>  BY <1>2 DEF server
<1>14. MembersTyped' /\ RestTyped'  BY <1>1, <1>2, <1>13, MembersSame DEF RestTyped
<1>15. j = journal[u] /\ Good(j) /\ u = Owner[c]  BY <1>6, AsBefore DEF j, u
<1>16. \A x \in User : Good(journal[x])'
  BY <1>4, <1>8, <1>11, <1>13, <1>15, AsBefore DEF Good
<1>17. Origins(c)' = Origins(c)
  BY <1>2, <1>8, <1>11, <1>13, <1>15 DEF Origins
<1>18. ed'[c].doc \subseteq Origins(c)' \cup Ran(ed'[c].saving)
  BY <1>4, <1>8, <1>9, <1>10, <1>15, <1>17, AsBefore DEF Good, Origins
<1>19. \A x \in User : journal[x].pending \cup erased \subseteq row.ups \cup journal'[x].pending \cup erased'
  BY <1>2, <1>8, <1>11, <1>15
<1>20. row.rev # 0  BY <1>3, AsBefore DEF Waits
<1> QED
  BY <1>1, <1>2, <1>3, <1>9, <1>10, <1>12, <1>14, <1>16, <1>17, <1>18, <1>19, <1>20, AsBefore, TabStep

LEMMA AckedStep == ASSUME IInv, NEW c \in Client, Acked(c) PROVE IInv'
<1>1. /\ Typed /\ MembersTyped /\ Wired(up) /\ Wired(down) /\ TabsTyped /\ HistoryTyped /\ RestTyped
      /\ Reported
  BY Parts DEF IInv
<1> DEFINE m == Head(down[c])
           req == [ids |-> m.ids, ups |-> m.ups]
           u == Owner[c]
           j == journal[u]
           err == IF j.revoked THEN Failed(c) ELSE Cleared(c)
           next == IF j.revoked THEN j ELSE Settle(j, m)
<1>2. Frame(c, "ack") /\ UNCHANGED <<server, access, conn, up, faults>>
  BY DEF Acked
<1>3. /\ Wired(down') /\ Shrinks(down, down') /\ m \in Message /\ m \in Ran(down[c]) /\ m.kind = "ack"
  BY <1>1, <1>2, Framed
<1>4. m.ups \subseteq row.ups /\ m.ids \subseteq row.ups  BY <1>1, <1>3 DEF Reported, Reports
<1>5. /\ ed[c] \in Draft /\ ed[c].doc \subseteq Update /\ u \in User /\ j \in Journal
      /\ pend[c] \subseteq Request /\ flush[c] \in Flush
  BY <1>1, Owners, TabFields, JournalFields
<1>6. row' = row /\ UNCHANGED <<member, joining, conn>>  BY <1>2 DEF server
<1>7. MembersTyped' /\ RestTyped' /\ Wired(up')  BY <1>1, <1>2, <1>6, MembersSame DEF RestTyped
<1>8. CASE UNCHANGED client
  <2>1. TabsTyped' /\ HistoryTyped'  BY <1>1, <1>8, ClientSame
  <2>2. ed' = ed /\ journal' = journal /\ flush' = flush /\ erased' = erased  BY <1>8 DEF client
  <2>3. row.rev = 0 => Waits(c)'
    BY <1>2, <1>3, <1>6, <2>2, AsBefore DEF Waits, Shrinks
  <2>4. \A x \in User : Good(journal[x])'  BY <1>6, <2>2, AsBefore DEF Good
  <2>5. Origins(c)' = Origins(c)  BY <1>6, <2>2 DEF Origins
  <2> QED
    BY <1>1, <1>2, <1>3, <1>7, <2>1, <2>2, <2>3, <2>4, <2>5, AsBefore, TabStep
<1>9. CASE /\ pend' = [pend EXCEPT ![c] = @ \ {req}]
           /\ ed' = [ed EXCEPT ![c].err = err]
           /\ journal' = IF j.revoked THEN journal ELSE [journal EXCEPT ![u] = Settle(j, m)]
           /\ flush' \in {flush, [flush EXCEPT ![c] = Quiet]}
           /\ unstored' \in {unstored, unstored \cup Lacking(ed[c].doc)}
           /\ UNCHANGED <<unsent, erased, base>>
  <2>1. /\ next \in Journal /\ next.pending \subseteq j.pending /\ j.pending \subseteq next.pending \cup m.ids
        /\ j.server \subseteq next.server /\ next.server \subseteq j.server \cup m.ups
        /\ j.ups \subseteq next.ups /\ next.ups \subseteq j.ups \cup m.ups
    <3> HIDE DEF m, j
    <3> QED  BY <1>3, <1>5, Settled1
  <2>2. journal' = [journal EXCEPT ![u] = next]
    <3>1. CASE j.revoked  BY <1>1, <1>9, <3>1 DEF TabsTyped
    <3>2. CASE ~j.revoked  BY <1>9, <3>2
    <3> QED  BY <3>1, <3>2
  <2> DEFINE v == [ed[c] EXCEPT !.err = err]
  <2>3. err \in {"no", "last", "storage"}  BY DEF Failed, Cleared
  <2> HIDE DEF m, j, next, err
  <2>4. /\ v \in Draft /\ v.doc = ed[c].doc /\ v.saving = ed[c].saving /\ v.snap = ed[c].snap
        /\ v.view = ed[c].view /\ v.unsynced = ed[c].unsynced
    BY <1>5, <2>3 DEF Draft
  <2>5. ed' = [ed EXCEPT ![c] = v]  BY <1>1, <1>5, <1>9 DEF TabsTyped
  <2> HIDE DEF v, u, req
  <2>6. /\ ed' \in [Client -> Draft] /\ ed'[c] = v /\ \A d \in Client \ {c} : ed'[d] = ed[d]
    BY <1>1, <2>4, <2>5 DEF TabsTyped
  <2>7. /\ journal' \in [User -> Journal]
        /\ \A x \in User : journal'[x] = IF x = u THEN next ELSE journal[x]
    BY <1>1, <1>5, <2>1, <2>2 DEF TabsTyped
  <2>8. Quiet \in Flush /\ Quiet.at = "no"  BY DEF Quiet, Flush
  <2>9. /\ flush' \in [Client -> Flush] /\ flush'[c] \in {flush[c], Quiet}
        /\ \A d \in Client \ {c} : flush'[d] = flush[d]
    BY <1>1, <1>9, <2>8 DEF TabsTyped
  <2>10. TabsTyped'
    BY <1>1, <1>9, <2>6, <2>7, <2>9 DEF TabsTyped
  <2>11. HistoryTyped'
    BY <1>1, <1>5, <1>9 DEF HistoryTyped, Lacking
  <2>12. j = journal[u] /\ Good(j) /\ u = Owner[c]  BY <1>5, AsBefore DEF j, u
  <2>13. \A x \in User : Good(journal[x])'
    BY <1>4, <1>6, <2>1, <2>7, <2>12, AsBefore DEF Good
  <2>14. \A x \in User : journal[x].pending \cup erased \subseteq row.ups \cup journal'[x].pending \cup erased'
    BY <1>4, <1>9, <2>1, <2>7, <2>12
  <2>15. Origins(c) \subseteq Origins(c)'
    BY <1>4, <1>6, <1>9, <2>1, <2>7, <2>12 DEF Origins
  <2>16. row.rev = 0 => erased' = {} /\ (\A x \in User : journal'[x].pending = {}) /\ Waits(c)'
    <3> SUFFICES ASSUME row.rev = 0
                 PROVE erased' = {} /\ (\A x \in User : journal'[x].pending = {}) /\ Waits(c)'
      OBVIOUS
    <3>1. Waits(c) /\ erased = {} /\ \A x \in User : journal[x].pending = {}  BY AsBefore
    <3>2. flush'[c] = Quiet  BY <2>9, <3>1 DEF Waits
    <3>3. Waits(c)'
      BY <1>2, <1>3, <1>6, <2>4, <2>6, <3>1, <3>2 DEF Waits, Shrinks
    <3>4. \A x \in User : journal'[x].pending = {}  BY <2>1, <2>7, <2>12, <3>1
    <3> QED  BY <1>9, <3>1, <3>3, <3>4
  <2>17. /\ ed'[c].doc \subseteq Origins(c)' \cup Ran(ed'[c].saving)
         /\ ed'[c].snap.ups \subseteq Origins(c)'
         /\ flush'[c].at = "loaded" => flush'[c] = flush[c]
         /\ flush'[c].at # "no" => flush'[c] = flush[c]
    BY <2>4, <2>6, <2>8, <2>9, <2>15, AsBefore
  <2> QED
    BY <1>1, <1>2, <1>3, <1>7, <2>4, <2>6, <2>9, <2>10, <2>11, <2>13, <2>14, <2>15, <2>16, <2>17,
       AsBefore, TabStep
<1> QED
  <2>1. CASE req \notin pend[c]  BY <1>8, <2>1 DEF Acked
  <2>2. CASE req \in pend[c]  BY <1>9, <2>2 DEF Acked
  <2> QED  BY <2>1, <2>2

\* A step after which the tab has the same document, snapshot and edits to save.
LEMMA CalmStep ==
  ASSUME IInv, NEW c \in Client,
         UNCHANGED <<server, journal, unstored, unsent, erased, base, conn>>, RestTyped',
         Wired(up'), \A d \in Client \ {c} : up'[d] = up[d],
         \A m \in Ran(up'[c]) : m \in Ran(up[c]) \/ m.kind # "update",
         Wired(down'), Shrinks(down, down'),
         NEW v \in Draft, ed' = [ed EXCEPT ![c] = v],
         v.doc = ed[c].doc, v.saving = ed[c].saving, v.snap = ed[c].snap,
         v.view => ed[c].view, v.unsynced = ed[c].unsynced,
         pend' \in [Client -> SUBSET Request], flush' \in {flush, [flush EXCEPT ![c] = Quiet]}
  PROVE  IInv'
<1>1. /\ Typed /\ MembersTyped /\ TabsTyped /\ HistoryTyped
  BY Parts DEF IInv
<1>2. /\ ed' \in [Client -> Draft] /\ ed'[c] = v /\ \A d \in Client \ {c} : ed'[d] = ed[d]
  BY <1>1 DEF TabsTyped
<1>3. Quiet \in Flush /\ Quiet.at = "no"  BY DEF Quiet, Flush
<1>4. /\ flush' \in [Client -> Flush] /\ flush'[c] \in {flush[c], Quiet}
      /\ \A d \in Client \ {c} : flush'[d] = flush[d]
  BY <1>1, <1>3 DEF TabsTyped
<1>5. TabsTyped' /\ HistoryTyped'
  BY <1>1, <1>2, <1>4 DEF TabsTyped, HistoryTyped
<1>6. row' = row /\ UNCHANGED <<member, joining, conn>>  BY DEF server
<1>7. MembersTyped'  BY <1>1, <1>6, MembersSame
<1>8. \A x \in User : Good(journal[x])'  BY <1>6, AsBefore DEF Good
<1>9. Origins(c)' = Origins(c)  BY <1>6 DEF Origins
<1>10. \A m \in Ran(up'[c]) : m \in Ran(up[c]) \/ Asks(m)  BY DEF Asks
<1>11. row.rev = 0 => erased' = {} /\ (\A x \in User : journal'[x].pending = {}) /\ Waits(c)'
  <2> SUFFICES ASSUME row.rev = 0
               PROVE erased' = {} /\ (\A x \in User : journal'[x].pending = {}) /\ Waits(c)'
    OBVIOUS
  <2>1. Waits(c) /\ erased = {} /\ \A x \in User : journal[x].pending = {}  BY AsBefore
  <2>2. flush'[c] = Quiet  BY <1>4, <2>1 DEF Waits
  <2>3. \A m \in Ran(up'[c]) : m.kind # "update"  BY <2>1 DEF Waits
  <2>4. \A m \in Ran(down'[c]) : m \in Ran(down[c])  BY DEF Shrinks
  <2>5. Waits(c)'  BY <1>2, <1>6, <2>1, <2>2, <2>3, <2>4 DEF Waits
  <2> QED  BY <2>1, <2>5
<1>12. /\ ed'[c].doc \subseteq Origins(c)' \cup Ran(ed'[c].saving)
       /\ ed'[c].snap.ups \subseteq Origins(c)'
       /\ flush'[c].at = "loaded" => flush'[c] = flush[c]
       /\ flush'[c].at # "no" => flush'[c] = flush[c]
  BY <1>2, <1>3, <1>4, <1>9, AsBefore
<1> QED
  BY <1>1, <1>2, <1>4, <1>5, <1>7, <1>8, <1>9, <1>10, <1>11, <1>12, AsBefore, TabStep

LEMMA RejectsEffect ==
  ASSUME NEW c, NEW reqs, Rejects(c, reqs)
  PROVE  flush' \in {flush, [flush EXCEPT ![c] = Quiet]}
BY DEF Rejects

LEMMA EditorFor ==
  ASSUME Typed, NEW c \in Client
  PROVE  /\ Failed(c) \in {"no", "last", "storage"} /\ Cleared(c) \in {"no", "last", "storage"}
         /\ \A p \in SUBSET Request : [pend EXCEPT ![c] = @ \ p] \in [Client -> SUBSET Request]
<1>1. pend \in [Client -> SUBSET Request]  BY Parts DEF TabsTyped
<1> QED  BY <1>1 DEF Failed, Cleared

LEMMA RefusedStep == ASSUME IInv, NEW c \in Client, Refused(c) PROVE IInv'
<1>1. /\ Typed /\ Wired(up) /\ Wired(down) /\ TabsTyped /\ RestTyped
  BY Parts DEF IInv
<1> DEFINE m == Head(down[c])
           req == [ids |-> m.ids, ups |-> m.ups]
           v == [ed[c] EXCEPT !.err = Failed(c), !.ro = @ \/ m.flag]
<1>2. /\ Frame(c, "error") /\ pend' = [pend EXCEPT ![c] = @ \ {req}]
      /\ ed' = [ed EXCEPT ![c].err = Failed(c), ![c].ro = @ \/ m.flag]
      /\ Rejects(c, {req} \cap pend[c])
      /\ UNCHANGED <<server, journal, unstored, unsent, erased, base, access, conn, up, faults>>
  BY DEF Refused
<1>3. /\ Wired(down') /\ Shrinks(down, down') /\ m \in Message
  BY <1>1, <1>2, Framed
<1>4. ed[c] \in Draft  BY <1>1, TabFields
<1>5. Failed(c) \in {"no", "last", "storage"}  BY DEF Failed
<1>6. /\ v \in Draft /\ v.doc = ed[c].doc /\ v.saving = ed[c].saving /\ v.snap = ed[c].snap
      /\ v.view = ed[c].view /\ v.unsynced = ed[c].unsynced
  <2>1. ed[c].ro \in BOOLEAN /\ m.flag \in BOOLEAN /\ (ed[c].ro \/ m.flag) \in BOOLEAN
    BY <1>1, <1>3, MessageFields, TabFields
  <2> HIDE DEF m
  <2> QED  BY <1>4, <1>5, <2>1 DEF Draft
<1>7. ed' = [ed EXCEPT ![c] = v]
  BY <1>1, <1>2, <1>4 DEF TabsTyped
<1>8. pend' \in [Client -> SUBSET Request]  BY <1>1, <1>2 DEF TabsTyped
<1> HIDE DEF v, m
<1>9. RestTyped'  BY <1>1, <1>2 DEF RestTyped
<1>10. flush' \in {flush, [flush EXCEPT ![c] = Quiet]}  BY <1>2, RejectsEffect
<1> QED  BY <1>1, <1>2, <1>3, <1>6, <1>7, <1>8, <1>9, <1>10, CalmStep

LEMMA PermittedStep == ASSUME IInv, NEW c \in Client, Permitted(c) PROVE IInv'
<1>1. /\ Typed /\ Wired(up) /\ Wired(down) /\ TabsTyped /\ RestTyped
  BY Parts DEF IInv
<1> DEFINE ro == Head(down[c]).flag
           m == Msg("join", {}, {}, FALSE)
           v == [ed[c] EXCEPT !.ro = ro]
<1>2. /\ Frame(c, "permission")
      /\ UNCHANGED <<server, journal, pend, flush, unstored, unsent, erased, base, access, conn, faults>>
  BY DEF Permitted
<1>3. /\ Wired(down') /\ Shrinks(down, down') /\ ro \in BOOLEAN
  BY <1>1, <1>2, Framed, MessageFields
<1>4. ed[c] \in Draft /\ ed[c].view \in BOOLEAN  BY <1>1, TabFields
<1>5. RestTyped' /\ pend' \in [Client -> SUBSET Request] /\ flush' \in {flush, [flush EXCEPT ![c] = Quiet]}
  BY <1>1, <1>2 DEF RestTyped, TabsTyped
<1>6. CASE up' = [up EXCEPT ![c] = Append(@, m)] /\ UNCHANGED ed
  <2>1. m \in Message /\ m.kind = "join"  BY DEF Msg, Message
  <2> HIDE DEF m
  <2>2. /\ Wired(up') /\ \A d \in Client \ {c} : up'[d] = up[d]
        /\ Ran(up'[c]) = Ran(up[c]) \cup {m}
    BY <1>1, <1>6, <2>1, Pushed
  <2>3. ed' = [ed EXCEPT ![c] = ed[c]]  BY <1>1, <1>6 DEF TabsTyped
  <2>4. \A x \in Ran(up'[c]) : x \in Ran(up[c]) \/ x.kind # "update"  BY <2>1, <2>2
  <2> QED  BY <1>2, <1>3, <1>4, <1>5, <2>2, <2>3, <2>4, CalmStep
<1>7. CASE ed' = [ed EXCEPT ![c].ro = ro] /\ UNCHANGED up
  <2> HIDE DEF ro
  <2>1. /\ v \in Draft /\ v.doc = ed[c].doc /\ v.saving = ed[c].saving /\ v.snap = ed[c].snap
        /\ v.view = ed[c].view /\ v.unsynced = ed[c].unsynced
    BY <1>3, <1>4 DEF Draft
  <2>2. ed' = [ed EXCEPT ![c] = v]  BY <1>1, <1>4, <1>7 DEF TabsTyped
  <2> HIDE DEF v
  <2> QED  BY <1>1, <1>2, <1>3, <1>5, <1>7, <2>1, <2>2, CalmStep
<1> QED  BY <1>6, <1>7 DEF Permitted

LEMMA TimeoutStep == ASSUME IInv, NEW c \in Client, Timeout(c) PROVE IInv'
<1>1. /\ Typed /\ Wired(up) /\ Wired(down) /\ TabsTyped /\ RestTyped
  BY Parts DEF IInv
<1> DEFINE v == [ed[c] EXCEPT !.err = Failed(c)]
<1>2. /\ Fault /\ ed' = [ed EXCEPT ![c].err = Failed(c)]
      /\ UNCHANGED <<server, journal, unstored, unsent, erased, base, access, conn, up, down>>
  BY DEF Timeout
<1>3. PICK req \in pend[c] : pend' = [pend EXCEPT ![c] = @ \ {req}] /\ Rejects(c, {req})
  BY DEF Timeout
<1>4. ed[c] \in Draft  BY <1>1, TabFields
<1>5. Failed(c) \in {"no", "last", "storage"}  BY DEF Failed
<1>6. /\ v \in Draft /\ v.doc = ed[c].doc /\ v.saving = ed[c].saving /\ v.snap = ed[c].snap
      /\ v.view = ed[c].view /\ v.unsynced = ed[c].unsynced
  BY <1>4, <1>5 DEF Draft
<1>7. ed' = [ed EXCEPT ![c] = v]  BY <1>1, <1>2, <1>4 DEF TabsTyped
<1>8. pend' \in [Client -> SUBSET Request]  BY <1>1, <1>3 DEF TabsTyped
<1> HIDE DEF v
<1>9. RestTyped'  BY <1>1, <1>2, CollabAssumption DEF RestTyped, Fault
<1>10. flush' \in {flush, [flush EXCEPT ![c] = Quiet]}  BY <1>3, RejectsEffect
<1> QED  BY <1>1, <1>2, <1>4, <1>6, <1>7, <1>8, <1>9, <1>10, CalmStep DEF Shrinks

LEMMA Unmoved ==
  ASSUME IInv, UNCHANGED <<server, client, conn, up, down>>, RestTyped'
  PROVE  IInv'
<1>1. /\ row' = row /\ room' = room /\ mapped' = mapped /\ member' = member
      /\ joining' = joining /\ late' = late /\ checks' = checks /\ stale' = stale
      /\ ed' = ed /\ journal' = journal /\ pend' = pend /\ flush' = flush
      /\ unstored' = unstored /\ unsent' = unsent /\ erased' = erased /\ base' = base
      /\ conn' = conn /\ up' = up /\ down' = down
  BY DEF server, client
<1>2. Typed'
  <2>1. ServerTyped /\ MembersTyped /\ Wired(up) /\ Wired(down) /\ TabsTyped /\ HistoryTyped
    BY Parts DEF IInv
  <2>2. ServerTyped' /\ MembersTyped'
    BY <1>1, <2>1, MembersSame DEF ServerTyped
  <2>3. TabsTyped' /\ HistoryTyped'
    BY <1>1, <2>1 DEF TabsTyped, HistoryTyped
  <2> QED  BY <1>1, <2>1, <2>2, <2>3, PartsNext
<1>3. RoomsFresh'  BY <1>1 DEF IInv, RoomsFresh
<1>4. Reported'  BY <1>1 DEF IInv, Reported, Reports
<1>5. Asked'  BY <1>1 DEF IInv, Asked, Asks
<1>6. JournalTruthful'  BY <1>1 DEF IInv, JournalTruthful
<1>7. Sources'  BY <1>1 DEF IInv, Sources, Origins
<1>8. Pristine'  BY <1>1 DEF IInv, Pristine, Waits
<1>9. OneSeed'  BY <1>1 DEF IInv, OneSeed
<1> QED  BY <1>2, <1>3, <1>4, <1>5, <1>6, <1>7, <1>8, <1>9 DEF IInv

LEMMA ChangeAccessStep == ASSUME IInv, NEW u \in User, ChangeAccess(u) PROVE IInv'
<1>1. RestTyped  BY Parts DEF IInv
<1>2. /\ Fault /\ UNCHANGED <<server, client, conn, up, down>>
      /\ \E l \in {"none", "read", "write"} : access' = [access EXCEPT ![u] = l]
  BY DEF ChangeAccess
<1>3. RestTyped'  BY <1>1, <1>2, CollabAssumption DEF RestTyped, Fault
<1> QED  BY <1>2, <1>3, Unmoved

LEMMA RevokedStep == ASSUME IInv, NEW c \in Client, Revoked(c) PROVE IInv'
<1>1. /\ Typed /\ MembersTyped /\ Wired(up) /\ Wired(down) /\ TabsTyped /\ HistoryTyped /\ RestTyped
  BY Parts DEF IInv
<1> DEFINE m == Head(down[c])
           req == [ids |-> m.ids, ups |-> m.ups]
           u == Owner[c]
           locked == [Empty EXCEPT !.revoked = TRUE]
           v == [ed[c] EXCEPT !.ro = TRUE, !.on = FALSE, !.view = FALSE, !.err = Failed(c)]
<1>2. /\ Frame(c, "revoked") /\ pend' = [pend EXCEPT ![c] = @ \ {req}]
      /\ Rejects(c, {req} \cap pend[c])
      /\ ed' = [ed EXCEPT ![c].ro = TRUE, ![c].on = FALSE, ![c].view = FALSE, ![c].err = Failed(c)]
      /\ erased' = erased \cup journal[u].pending
      /\ journal' = [journal EXCEPT ![u] = locked]
      /\ UNCHANGED <<server, unstored, unsent, base, access, conn, up, faults>>
  BY DEF Revoked
<1>3. Wired(down') /\ Shrinks(down, down')
  BY <1>1, <1>2, Framed
<1>4. /\ ed[c] \in Draft /\ u \in User /\ journal[u].pending \subseteq Edit
  BY <1>1, TabFields, Owners, JournalFields
<1>5. Failed(c) \in {"no", "last", "storage"}  BY DEF Failed
<1>6. /\ v \in Draft /\ v.doc = ed[c].doc /\ v.saving = ed[c].saving /\ v.snap = ed[c].snap
      /\ v.view = FALSE
  BY <1>4, <1>5 DEF Draft
<1>7. ed' = [ed EXCEPT ![c] = v]  BY <1>1, <1>2, <1>4 DEF TabsTyped
<1>8. locked \in Journal /\ locked.ups = {} /\ locked.server = {} /\ locked.pending = {}
  BY DEF Empty, Journal
<1> HIDE DEF v, m, req, u, locked
<1>9. /\ ed' \in [Client -> Draft] /\ ed'[c] = v /\ \A d \in Client \ {c} : ed'[d] = ed[d]
  BY <1>1, <1>6, <1>7 DEF TabsTyped
<1>10. /\ journal' \in [User -> Journal]
       /\ \A x \in User : journal'[x] = IF x = u THEN locked ELSE journal[x]
  BY <1>1, <1>2, <1>4, <1>8 DEF TabsTyped
<1>11. Quiet \in Flush /\ Quiet.at = "no"  BY DEF Quiet, Flush
<1>12. flush' \in {flush, [flush EXCEPT ![c] = Quiet]}  BY <1>2, RejectsEffect
<1>13. /\ flush' \in [Client -> Flush] /\ flush'[c] \in {flush[c], Quiet}
       /\ \A d \in Client \ {c} : flush'[d] = flush[d]
  BY <1>1, <1>11, <1>12 DEF TabsTyped
<1>14. TabsTyped' /\ HistoryTyped'
  BY <1>1, <1>2, <1>4, <1>9, <1>10, <1>13 DEF TabsTyped, HistoryTyped
<1>15. row' = row /\ UNCHANGED <<member, joining, conn>>  BY <1>2 DEF server
<1>16. MembersTyped' /\ RestTyped'  BY <1>1, <1>2, <1>15, MembersSame DEF RestTyped
<1>17. \A x \in User : Good(journal[x])'
  BY <1>8, <1>10, <1>15, AsBefore DEF Good
<1>18. \A x \in User : journal[x].pending \cup erased \subseteq row.ups \cup journal'[x].pending \cup erased'
  BY <1>2, <1>10
<1>19. Origins(c) \subseteq Origins(c)'
  BY <1>4, <1>15, <1>18 DEF Origins, u
<1>20. /\ ed'[c].doc \subseteq Origins(c)' \cup Ran(ed'[c].saving)
       /\ ed'[c].snap.ups \subseteq Origins(c)'
       /\ flush'[c].at = "loaded" => flush'[c] = flush[c]
       /\ flush'[c].at # "no" => flush'[c] = flush[c]
  BY <1>6, <1>9, <1>11, <1>13, <1>19, AsBefore
<1>21. row.rev = 0 => erased' = {} /\ (\A x \in User : journal'[x].pending = {}) /\ Waits(c)'
  <2> SUFFICES ASSUME row.rev = 0
               PROVE erased' = {} /\ (\A x \in User : journal'[x].pending = {}) /\ Waits(c)'
    OBVIOUS
  <2>1. Waits(c) /\ erased = {} /\ \A x \in User : journal[x].pending = {}  BY AsBefore
  <2>2. flush'[c] = Quiet  BY <1>13, <2>1 DEF Waits
  <2>3. \A x \in Ran(down'[c]) : x \in Ran(down[c])  BY <1>3 DEF Shrinks
  <2>4. Waits(c)'  BY <1>2, <1>6, <1>9, <1>15, <2>1, <2>2, <2>3 DEF Waits
  <2>5. \A x \in User : journal'[x].pending = {}  BY <1>8, <1>10, <2>1
  <2>6. erased' = {}  BY <1>2, <1>4, <2>1
  <2> QED  BY <2>4, <2>5, <2>6
<1> QED
  BY <1>1, <1>2, <1>3, <1>6, <1>9, <1>13, <1>14, <1>16, <1>17, <1>18, <1>19, <1>20, <1>21,
     AsBefore, TabStep

LEMMA FlushLoadStep == ASSUME IInv, NEW c \in Client, FlushLoad(c) PROVE IInv'
<1>1. /\ Typed /\ MembersTyped /\ Wired(up) /\ Wired(down) /\ TabsTyped /\ HistoryTyped /\ RestTyped
  BY Parts DEF IInv
<1> DEFINE u == Owner[c]
           j == journal[u]
           f == [at |-> "loaded", ids |-> j.pending, ups |-> j.ups]
<1>2. /\ ed[c].saving = <<>> /\ ed[c].view /\ ed[c].on /\ ~ed[c].ro
      /\ UNCHANGED <<server, ed, journal, pend, unsent, erased, base, access, conn, up, down, faults>>
  BY DEF FlushLoad, Answered
<1>3. /\ u \in User /\ j.ups \subseteq Update /\ j.pending \subseteq Edit /\ ed[c].doc \subseteq Update
      /\ Good(j)
  BY <1>1, Owners, JournalFields, TabFields, AsBefore
<1>4. row' = row /\ UNCHANGED <<member, joining, conn>>  BY <1>2 DEF server
<1>5. MembersTyped' /\ RestTyped'  BY <1>1, <1>2, <1>4, MembersSame DEF RestTyped
<1>6. \A x \in User : Good(journal[x])'  BY <1>2, <1>4, AsBefore DEF Good
<1>7. Origins(c)' = Origins(c)  BY <1>2, <1>4 DEF Origins
<1>8. Shrinks(down, down') /\ Wired(up') /\ Wired(down')  BY <1>1, <1>2 DEF Shrinks
<1>9. CASE unstored' = unstored \cup Lacking(ed[c].doc) /\ UNCHANGED flush
  <2>1. TabsTyped' /\ HistoryTyped'
    BY <1>1, <1>2, <1>3, <1>9 DEF TabsTyped, HistoryTyped, Lacking
  <2>2. row.rev = 0 => Waits(c)'
    BY <1>2, <1>4, <1>9, AsBefore DEF Waits
  <2> QED
    BY <1>1, <1>2, <1>5, <1>6, <1>7, <1>8, <1>9, <2>1, <2>2, AsBefore, TabStep
<1>10. CASE j.pending # {} /\ flush' = [flush EXCEPT ![c] = f] /\ UNCHANGED unstored
  <2>1. f \in Flush /\ f.at = "loaded" /\ f.ids = j.pending /\ f.ups = j.ups
    BY <1>3 DEF Flush
  <2> HIDE DEF f
  <2>2. /\ flush' \in [Client -> Flush] /\ flush'[c] = f /\ \A d \in Client \ {c} : flush'[d] = flush[d]
    BY <1>1, <1>10, <2>1 DEF TabsTyped
  <2>3. TabsTyped' /\ HistoryTyped'
    BY <1>1, <1>2, <1>10, <2>2 DEF TabsTyped, HistoryTyped
  <2>4. row.rev # 0  BY <1>3, <1>10, AsBefore
  <2>5. f.ups \subseteq Origins(c)  BY <1>3, <2>1 DEF Good, Origins
  <2>6. f.ids \subseteq f.ups  BY <1>3, <2>1 DEF Good
  <2> HIDE DEF u, j
  <2> QED
    BY <1>1, <1>2, <1>5, <1>6, <1>7, <1>8, <1>10, <2>2, <2>3, <2>4, <2>5, <2>6, AsBefore, TabStep
<1> QED
  <2>1. CASE j.pending = {}  BY <1>9, <2>1 DEF FlushLoad
  <2>2. CASE j.pending # {}  BY <1>10, <2>2 DEF FlushLoad
  <2> QED  BY <2>1, <2>2

LEMMA FlushPushStep == ASSUME IInv, NEW c \in Client, FlushPush(c) PROVE IInv'
<1>1. /\ Typed /\ MembersTyped /\ Wired(up) /\ Wired(down) /\ TabsTyped /\ HistoryTyped /\ RestTyped
  BY Parts DEF IInv
<1> DEFINE doc == ed[c].doc \cup flush[c].ups
           u == Owner[c]
           missing == doc \ journal[u].server
           v == [ed[c] EXCEPT !.doc = doc]
           ids == flush[c].ids
<1>2. /\ flush[c].at = "loaded"
      /\ ed' = [ed EXCEPT ![c].doc = doc]
      /\ UNCHANGED <<server, journal, unstored, erased, base, access, conn, down, faults>>
  BY DEF FlushPush
<1>3. /\ ed[c] \in Draft /\ u \in User /\ doc \subseteq Update /\ ids \subseteq Edit
      /\ missing \subseteq Update /\ flush[c] \in Flush /\ ed[c].saving \in Seq(Edit)
  BY <1>1, TabFields, Owners
<1>4. ids \subseteq flush[c].ups /\ flush[c].ups \subseteq Origins(c) /\ ed[c].saving = <<>>
      /\ journal[u].server \subseteq row.ups
  BY <1>2, <1>3, AsBefore DEF Good
<1>5. missing \subseteq row.ups \cup Edit /\ ids \subseteq missing \cup row.ups
  BY <1>2, <1>4, LocalEdits
<1>6. /\ v \in Draft /\ v.doc = doc /\ v.saving = ed[c].saving /\ v.snap = ed[c].snap
  <2> HIDE DEF doc
  <2> QED  BY <1>3 DEF Draft
<1>7. ed' = [ed EXCEPT ![c] = v]
  <2> HIDE DEF doc
  <2> QED  BY <1>1, <1>2, <1>3 DEF TabsTyped
<1> HIDE DEF v, ids, missing
<1>8. /\ ed' \in [Client -> Draft] /\ ed'[c] = v /\ \A d \in Client \ {c} : ed'[d] = ed[d]
  BY <1>1, <1>6, <1>7 DEF TabsTyped
<1>9. row' = row /\ UNCHANGED <<member, joining, conn>>  BY <1>2 DEF server
<1>10. MembersTyped' /\ RestTyped'  BY <1>1, <1>2, <1>9, MembersSame DEF RestTyped
<1>11. \A x \in User : Good(journal[x])'  BY <1>2, <1>9, AsBefore DEF Good
<1>12. Origins(c)' = Origins(c)  BY <1>2, <1>9 DEF Origins
<1>13. row.rev # 0
  <2>1. Quiet.at = "no"  BY DEF Quiet
  <2> QED  BY <1>2, <2>1, AsBefore DEF Waits
<1>14. /\ Wired(up') /\ \A d \in Client \ {c} : up'[d] = up[d]
       /\ \A m \in Ran(up'[c]) : m \in Ran(up[c]) \/ Asks(m)
       /\ pend' \in [Client -> SUBSET Request]
  <2>1. CASE UNCHANGED <<pend, up>>  BY <1>1, <2>1 DEF TabsTyped
  <2>2. CASE Pushes(c, missing, ids)
    <3>0. Typed /\ missing \subseteq Update /\ ids \subseteq Edit  BY <1>1, <1>3
    <3>1. /\ Wired(up') /\ \A d \in Client \ {c} : up'[d] = up[d]
          /\ \A m \in Ran(up'[c]) : m \in Ran(up[c]) \/ (m.kind = "update" /\ m.ups = missing /\ m.ids = ids)
          /\ pend' \in [Client -> SUBSET Request]
      BY ONLY <2>2, <3>0, c \in Client, PushEffect
    <3> QED  BY <1>5, <3>1 DEF Asks
  <2> QED  BY <2>1, <2>2 DEF FlushPush, missing, ids
<1>15. /\ flush' \in [Client -> Flush] /\ flush'[c].at # "loaded" /\ \A d \in Client \ {c} : flush'[d] = flush[d]
  <2>1. CASE flush' = [flush EXCEPT ![c].at = "pushed", ![c].ups = missing]
    <3> DEFINE w == [flush[c] EXCEPT !.at = "pushed", !.ups = missing]
    <3>1. w \in Flush /\ w.at = "pushed"  BY <1>3 DEF Flush
    <3>2. flush' = [flush EXCEPT ![c] = w]  BY <1>1, <1>3, <2>1 DEF TabsTyped
    <3> HIDE DEF w
    <3> QED  BY <1>1, <3>1, <3>2 DEF TabsTyped
  <2>2. CASE flush' = [flush EXCEPT ![c] = Quiet]
    <3>1. Quiet \in Flush /\ Quiet.at = "no"  BY DEF Quiet, Flush
    <3> QED  BY <1>1, <2>2, <3>1 DEF TabsTyped
  <2> QED  BY <2>1, <2>2 DEF FlushPush, missing
<1>16. unsent' \subseteq Update
  <2>1. unsent \subseteq Update  BY <1>1 DEF HistoryTyped
  <2>2. unsent' \in {unsent, unsent \cup Lacking(doc)}  BY DEF FlushPush
  <2> QED  BY <1>3, <2>1, <2>2 DEF Lacking
<1>17. TabsTyped' /\ HistoryTyped'
  BY <1>1, <1>2, <1>8, <1>14, <1>15, <1>16 DEF TabsTyped, HistoryTyped
<1>18. Shrinks(down, down') /\ Wired(down')  BY <1>1, <1>2 DEF Shrinks
<1>19. ed'[c].doc \subseteq Origins(c)' \cup Ran(ed'[c].saving)
  BY <1>4, <1>6, <1>8, <1>12, AsBefore
<1> HIDE DEF doc, u
<1> QED
  BY <1>1, <1>2, <1>4, <1>6, <1>8, <1>10, <1>11, <1>12, <1>13, <1>14, <1>15, <1>17, <1>18, <1>19,
     AsBefore, TabStep

\* A fresh editor has nothing.
LEMMA FreshEditor ==
  /\ Editor \in Draft /\ Editor.doc = {} /\ Editor.saving = <<>> /\ Editor.view = FALSE
  /\ Editor.snap = NoSnapshot /\ NoSnapshot.at = "no" /\ NoSnapshot.ids = {} /\ NoSnapshot.ups = {}
  /\ NoSnapshot.vector = {}
  /\ Quiet \in Flush /\ Quiet.at = "no"
<1>1. /\ NoSnapshot \in Snapshot /\ NoSnapshot.at = "no" /\ NoSnapshot.ids = {} /\ NoSnapshot.ups = {}
      /\ NoSnapshot.vector = {}
  BY DEF NoSnapshot, Snapshot
<1>2. <<>> \in Seq(Edit)  OBVIOUS
<1>3. /\ Editor \in Draft /\ Editor.doc = {} /\ Editor.saving = <<>> /\ Editor.view = FALSE
      /\ Editor.snap = NoSnapshot
  BY <1>1, <1>2 DEF Editor, Draft
<1> QED  BY <1>1, <1>3 DEF Quiet, Flush

LEMMA ReopenStep == ASSUME IInv, NEW c \in Client, Reopen(c) PROVE IInv'
<1>1. /\ Typed /\ MembersTyped /\ Wired(up) /\ Wired(down) /\ TabsTyped /\ HistoryTyped /\ RestTyped
  BY Parts DEF IInv
<1> DEFINE x == Msg("leave", {}, {}, FALSE)
           y == Msg("join", {}, {}, FALSE)
<1>2. /\ Fault /\ flush[c].at = "no" /\ up' = [up EXCEPT ![c] = @ \o <<x, y>>]
      /\ ed' = [ed EXCEPT ![c] = Editor]
      /\ UNCHANGED <<server, journal, pend, flush, unstored, unsent, erased, base, access, conn, down>>
  BY DEF Reopen
<1>3. x \in Message /\ y \in Message /\ x.kind = "leave" /\ y.kind = "join"
  BY DEF Msg, Message
<1> HIDE DEF x, y
<1>4. up[c] \o <<x, y>> \in Seq(Message) /\ Ran(up[c] \o <<x, y>>) \subseteq Ran(up[c]) \cup {x, y}
  <2>1. up[c] \in Seq(Message)  BY <1>1 DEF Wired
  <2> QED  BY <1>3, <2>1, RanPair
<1>5. /\ Wired(up') /\ \A d \in Client \ {c} : up'[d] = up[d]
      /\ up'[c] = up[c] \o <<x, y>>
  BY <1>1, <1>2, <1>4 DEF Wired
<1>6. \A m \in Ran(up'[c]) : m \in Ran(up[c]) \/ m.kind # "update"
  BY <1>3, <1>4, <1>5
<1>7. ed' \in [Client -> Draft] /\ ed'[c] = Editor /\ \A d \in Client \ {c} : ed'[d] = ed[d]
  BY <1>1, <1>2, FreshEditor DEF TabsTyped
<1>8. TabsTyped' /\ HistoryTyped'
  BY <1>1, <1>2, <1>7 DEF TabsTyped, HistoryTyped
<1>9. row' = row /\ UNCHANGED <<member, joining, conn>>  BY <1>2 DEF server
<1>10. MembersTyped' /\ RestTyped'
  BY <1>1, <1>2, <1>9, MembersSame, CollabAssumption DEF RestTyped, Fault
<1>11. \A u \in User : Good(journal[u])'  BY <1>2, <1>9, AsBefore DEF Good
<1>12. Origins(c)' = Origins(c)  BY <1>2, <1>9 DEF Origins
<1>13. row.rev = 0 => erased' = {} /\ (\A u \in User : journal'[u].pending = {}) /\ Waits(c)'
  <2> SUFFICES ASSUME row.rev = 0
               PROVE erased' = {} /\ (\A u \in User : journal'[u].pending = {}) /\ Waits(c)'
    OBVIOUS
  <2>1. Waits(c) /\ erased = {} /\ \A u \in User : journal[u].pending = {}  BY AsBefore
  <2>2. Waits(c)'  BY <1>2, <1>6, <1>7, <1>9, <2>1, FreshEditor DEF Waits
  <2> QED  BY <1>2, <2>1, <2>2
<1>14. \A m \in Ran(up'[c]) : m \in Ran(up[c]) \/ Asks(m)  BY <1>6 DEF Asks
<1>15. Shrinks(down, down') /\ Wired(down')  BY <1>1, <1>2 DEF Shrinks
<1> QED
  BY <1>1, <1>2, <1>5, <1>7, <1>8, <1>10, <1>11, <1>12, <1>13, <1>14, <1>15, FreshEditor, TabStep

\* The connection closes and the editor is as it was but for flags, or new.
LEMMA HangupStep ==
  ASSUME IInv, NEW c \in Client, Fault, Hangup(c),
         NEW v \in Draft, ed' = [ed EXCEPT ![c] = v],
         \/ v = Editor /\ flush' = [flush EXCEPT ![c] = Quiet]
         \/ /\ v.doc = ed[c].doc /\ v.saving = ed[c].saving /\ v.snap = ed[c].snap
            /\ v.view = ed[c].view /\ v.unsynced = ed[c].unsynced
            /\ flush' \in {flush, [flush EXCEPT ![c] = Quiet]}
  PROVE  IInv'
<1>1. /\ Typed /\ ServerTyped /\ MembersTyped /\ Wired(up) /\ Wired(down) /\ TabsTyped /\ HistoryTyped
      /\ RestTyped /\ RoomsFresh
  BY Parts DEF IInv
<1> DEFINE open == {k \in checks : k.to # c}
           Same == /\ v.doc = ed[c].doc /\ v.saving = ed[c].saving /\ v.snap = ed[c].snap
                   /\ v.view = ed[c].view /\ v.unsynced = ed[c].unsynced
           note(k) == [k EXCEPT !.by = IF @ = c THEN "nobody" ELSE @]
<1>2. /\ conn' = [conn EXCEPT ![c] = None]
      /\ up' = [up EXCEPT ![c] = <<>>] /\ down' = [down EXCEPT ![c] = <<>>]
      /\ Leave(c) /\ joining' = [joining EXCEPT ![c] = NotJoining]
      /\ late' = IF joining[c].at = "add" THEN late \cup {joining[c].room} ELSE late
      /\ checks' = {note(k) : k \in open}
      /\ pend' = [pend EXCEPT ![c] = {}]
      /\ UNCHANGED <<row, room, stale, journal, unstored, unsent, erased, base, access>>
  BY DEF Hangup
<1>3. /\ member' \in [Client -> Room \cup {NoRoom}]
      /\ \A d \in Client : member'[d] = IF d = c THEN NoRoom ELSE member[d]
      /\ mapped' \in [Node -> Room \cup {NoRoom}]
      /\ \A n \in Node : mapped'[n] \in {mapped[n], NoRoom}
  BY <1>1, <1>2, LeaveEffect
<1>4. \A k \in checks : note(k) \in Notice /\ note(k).ups = k.ups
  <2> TAKE k \in checks
  <2>1. k \in Notice  BY <1>1 DEF ServerTyped
  <2> QED  BY <2>1 DEF Notice
<1>5. checks' \subseteq Notice /\ \A k \in checks' : \E q \in checks : k.ups = q.ups
  <2> HIDE DEF note
  <2> QED  BY <1>2, <1>4
<1> HIDE DEF open, note
<1>6. late' \subseteq Room
  BY <1>1, <1>2 DEF ServerTyped, Typed, Joins
<1>7. ServerTyped'
  BY <1>1, <1>2, <1>3, <1>5, <1>6 DEF ServerTyped
<1>8. RoomsFresh'
  BY <1>1, <1>2, <1>3 DEF RoomsFresh
<1>9. NotJoining \in Joining /\ NotJoining.at = "no"  BY DEF NotJoining, Joining
<1>10. /\ joining' \in [Client -> Joining]
       /\ \A d \in Client : joining'[d] = IF d = c THEN NotJoining ELSE joining[d]
       /\ conn' \in [Client -> Node \cup {None}]
       /\ \A d \in Client : conn'[d] = IF d = c THEN None ELSE conn[d]
  BY <1>1, <1>2, <1>9 DEF MembersTyped
<1>11. MembersTyped'
  BY <1>1, <1>3, <1>9, <1>10 DEF MembersTyped, Joins
<1>12. <<>> \in Seq(Message)  OBVIOUS
<1>13. /\ Wired(up') /\ \A d \in Client : up'[d] = IF d = c THEN <<>> ELSE up[d]
       /\ Wired(down')
  BY <1>1, <1>2, <1>12 DEF Wired
<1>14. \A d \in Client : down'[d] = IF d = c THEN <<>> ELSE down[d]
  BY <1>1, <1>2, <1>12 DEF Wired
<1>15. Ran(up'[c]) = {} /\ Shrinks(down, down')
  BY <1>13, <1>14, RanEmpty DEF Shrinks
<1>16. ed' \in [Client -> Draft] /\ ed'[c] = v /\ \A d \in Client \ {c} : ed'[d] = ed[d]
  BY <1>1 DEF TabsTyped
<1>17. /\ flush' \in [Client -> Flush] /\ flush'[c] \in {flush[c], Quiet}
       /\ \A d \in Client \ {c} : flush'[d] = flush[d]
       /\ (v = Editor /\ flush'[c] = Quiet) \/ Same
  BY <1>1, FreshEditor DEF TabsTyped
<1>18. TabsTyped' /\ HistoryTyped'
  BY <1>1, <1>2, <1>16, <1>17 DEF TabsTyped, HistoryTyped
<1>19. RestTyped'
  BY <1>1, <1>2, CollabAssumption DEF RestTyped, Fault
<1>20. \A u \in User : Good(journal[u])'  BY <1>2, AsBefore DEF Good
<1>21. Origins(c)' = Origins(c)  BY <1>2 DEF Origins
<1>22. /\ ed'[c].snap.vector \subseteq row.ups /\ ed'[c].snap.ids \subseteq ed'[c].snap.ups
       /\ ed'[c].doc \subseteq Origins(c)' \cup Ran(ed'[c].saving)
       /\ ed'[c].snap.ups \subseteq Origins(c)'
       /\ ed'[c].snap.at = "no" => ed'[c].snap = NoSnapshot
  <2>1. CASE v = Editor  BY <1>16, <2>1, FreshEditor
  <2>2. CASE Same  BY <1>16, <1>21, <2>2, AsBefore
  <2> QED  BY <1>17, <2>1, <2>2
<1>23. /\ flush'[c].at = "loaded" => flush'[c].ids \subseteq flush'[c].ups
       /\ flush'[c].at = "loaded" => flush'[c].ups \subseteq Origins(c)'
       /\ flush'[c].at # "no" => ed'[c].saving = <<>>
  <2>1. CASE flush'[c] = Quiet  BY <2>1, FreshEditor
  <2>2. CASE flush'[c] # Quiet
    <3>1. flush'[c] = flush[c] /\ Same  BY <1>17, <2>2
    <3> QED  BY <1>16, <1>21, <3>1, AsBefore
  <2> QED  BY <2>1, <2>2
<1>24. row.rev = 0 => erased' = {} /\ (\A u \in User : journal'[u].pending = {}) /\ Waits(c)'
  <2> SUFFICES ASSUME row.rev = 0
               PROVE erased' = {} /\ (\A u \in User : journal'[u].pending = {}) /\ Waits(c)'
    OBVIOUS
  <2>1. Waits(c) /\ erased = {} /\ \A u \in User : journal[u].pending = {}  BY AsBefore
  <2>2. flush'[c] = Quiet  BY <1>17, <2>1 DEF Waits
  <2>3. \A m \in Ran(down'[c]) : m \in Ran(down[c])  BY <1>15 DEF Shrinks
  <2>4. /\ ed'[c].saving = <<>>
        /\ ed'[c].view => ed'[c].unsynced
        /\ ed'[c].snap.at = "joined" => ed'[c].snap.ro
    <3>1. CASE v = Editor  BY <1>16, <3>1, FreshEditor
    <3>2. CASE Same  BY <1>16, <2>1, <3>2 DEF Waits
    <3> QED  BY <1>17, <3>1, <3>2
  <2>5. Waits(c)'  BY <1>9, <1>10, <1>15, <2>1, <2>2, <2>3, <2>4 DEF Waits
  <2> QED  BY <1>2, <2>1, <2>5
<1>25. \A d \in Client : joining'[d].at = "add" => joining[d].at = "add"
  BY <1>9, <1>10
<1>26. \A d \in Client \ {c} : ed'[d] = ed[d] /\ flush'[d] = flush[d] /\ Ran(up'[d]) \subseteq Ran(up[d])
  BY <1>13, <1>16, <1>17
<1>27. \A m \in Ran(up'[c]) : m \in Ran(up[c]) \/ Asks(m)  BY <1>15
<1>28. \A u \in User : journal[u].pending \cup erased \subseteq row.ups \cup journal'[u].pending \cup erased'
  BY <1>2
<1>29. row' = row /\ Wired(up') /\ Wired(down') /\ Shrinks(down, down')  BY <1>2, <1>13, <1>15
<1> QED
  BY <1>5, <1>7, <1>8, <1>11, <1>18, <1>19, <1>20, <1>22, <1>23, <1>24, <1>25, <1>26, <1>27, <1>28,
     <1>29, EndStep

LEMMA DropStep == ASSUME IInv, NEW c \in Client, Drop(c) PROVE IInv'
<1>1. Typed /\ TabsTyped  BY Parts DEF IInv
<1> DEFINE err == IF pend[c] = {} THEN ed[c].err ELSE Failed(c)
           v == [ed[c] EXCEPT !.on = FALSE, !.err = err]
<1>2. /\ Fault /\ Hangup(c) /\ Rejects(c, pend[c])
      /\ ed' = [ed EXCEPT ![c].on = FALSE, ![c].err = IF pend[c] = {} THEN @ ELSE Failed(c)]
  BY DEF Drop
<1>3. ed[c] \in Draft /\ err \in {"no", "last", "storage"}
  BY <1>1, TabFields, EditorFor
<1>4. ed' = [ed EXCEPT ![c] = v]
  BY <1>1, <1>2, <1>3 DEF TabsTyped
<1>5. /\ v \in Draft /\ v.doc = ed[c].doc /\ v.saving = ed[c].saving /\ v.snap = ed[c].snap
      /\ v.view = ed[c].view /\ v.unsynced = ed[c].unsynced
  <2> HIDE DEF err
  <2> QED  BY <1>3 DEF Draft
<1>6. flush' \in {flush, [flush EXCEPT ![c] = Quiet]}  BY <1>2, RejectsEffect
<1> HIDE DEF v
<1> QED  BY <1>2, <1>4, <1>5, <1>6, HangupStep

LEMMA ReloadStep == ASSUME IInv, NEW c \in Client, Reload(c) PROVE IInv'
BY FreshEditor, HangupStep DEF Reload

-----------------------------------------------------------------------------
LEMMA Initially == Init => IInv
<1> SUFFICES ASSUME Init PROVE IInv
  OBVIOUS
<1> USE DEF Init
<1>1. <<>> \in Seq(Message) /\ Ran(<<>>) = {}  BY RanEmpty
<1>2. /\ NotJoining \in Joining /\ NotJoining.at = "no" /\ Blank \in Cached /\ Blank.doc = {} /\ Blank.rev = 0
      /\ Empty \in Journal /\ Empty.pending = {} /\ Empty.ups = {} /\ Empty.server = {}
  BY DEF NotJoining, Joining, Blank, Cached, Empty, Journal
<1>3. row.ups = {} /\ row.rev = 0 /\ row \in Row  BY DEF Row
<1>4. Typed
  <2>1. ServerTyped
    BY <1>2, <1>3 DEF ServerTyped
  <2>2. MembersTyped  BY <1>2 DEF MembersTyped, Joins
  <2>3. Wired(up) /\ Wired(down)  BY <1>1 DEF Wired
  <2>4. TabsTyped  BY <1>2, FreshEditor DEF TabsTyped
  <2>5. HistoryTyped  BY DEF HistoryTyped
  <2>6. RestTyped  BY CollabAssumption DEF RestTyped
  <2> QED  BY <2>1, <2>2, <2>3, <2>4, <2>5, <2>6, Parts
<1>5. RoomsFresh  BY <1>2, <1>3 DEF RoomsFresh
<1>6. Reported  BY <1>1, FreshEditor DEF Reported
<1>7. Asked  BY <1>1, <1>2, FreshEditor DEF Asked
<1>8. JournalTruthful  BY <1>2, Owners DEF JournalTruthful
<1>9. Sources  BY FreshEditor DEF Sources
<1>10. Pristine
  <2>1. ASSUME NEW c \in Client PROVE Waits(c)
    BY <1>1, <1>2, FreshEditor DEF Waits
  <2> QED  BY <1>2, <1>3, <2>1 DEF Pristine
<1>11. OneSeed  BY <1>3 DEF OneSeed
<1> QED  BY <1>4, <1>5, <1>6, <1>7, <1>8, <1>9, <1>10, <1>11 DEF IInv

LEMMA Stays == IInv /\ [Next]_vars => IInv'
<1> SUFFICES ASSUME IInv, [Next]_vars PROVE IInv'
  OBVIOUS
<1>1. ASSUME NEW c \in Client,
             HubJoin(c) \/ HubSeed(c) \/ HubAdd(c) \/ HubUpdate(c) \/ HubLeave(c) \/ Sweep(c)
      PROVE  IInv'
  BY <1>1, HubJoinStep, HubSeedStep, HubAddStep, HubUpdateStep, HubLeaveStep, SweepStep
<1>2. ASSUME NEW k \in checks, Check(k) PROVE IInv'
  BY <1>2, CheckStep
<1>3. ASSUME NEW r \in late, HubAddClosed(r) PROVE IInv'
  BY <1>3, HubAddClosedStep
<1>4. ASSUME NEW n \in Node, ClusterEvent(n) PROVE IInv'
  BY <1>4, ClusterEventStep
<1>5. CASE Hub
  BY <1>1, <1>2, <1>3, <1>4, <1>5 DEF Hub
<1>6. ASSUME NEW c \in Client,
             \/ \E n \in Node : Connect(c, n)
             \/ \E e \in Edit : Type(c, e)
             \/ Save(c) \/ Joined(c) \/ Restore(c) \/ Updated(c) \/ Acked(c)
             \/ Refused(c) \/ Permitted(c) \/ Revoked(c) \/ FlushLoad(c) \/ FlushPush(c)
      PROVE  IInv'
  <2>1. CASE (\E n \in Node : Connect(c, n)) \/ \E e \in Edit : Type(c, e)
    BY <2>1, ConnectStep, TypeStep
  <2>2. CASE Save(c) \/ Joined(c) \/ Restore(c) \/ Updated(c) \/ Acked(c)
    BY <2>2, SaveStep, JoinedStep, RestoreStep, UpdatedStep, AckedStep
  <2>3. CASE Refused(c) \/ Permitted(c) \/ Revoked(c) \/ FlushLoad(c) \/ FlushPush(c)
    BY <2>3, RefusedStep, PermittedStep, RevokedStep, FlushLoadStep, FlushPushStep
  <2> QED  BY <1>6, <2>1, <2>2, <2>3
<1>7. CASE Tab
  BY <1>6, <1>7 DEF Tab
<1>8. ASSUME NEW c \in Client, Drop(c) \/ Reload(c) \/ Reopen(c) \/ Timeout(c)
      PROVE  IInv'
  BY <1>8, DropStep, ReloadStep, ReopenStep, TimeoutStep
<1>9. CASE Environment
  BY <1>8, <1>9, ChangeAccessStep DEF Environment
<1>10. CASE UNCHANGED vars
  <2>1. RestTyped  BY Parts DEF IInv
  <2>2. UNCHANGED <<server, client, conn, up, down>> /\ RestTyped'
    BY <1>10, <2>1 DEF vars, RestTyped
  <2> QED  BY <2>2, Unmoved
<1> QED  BY <1>5, <1>7, <1>9, <1>10 DEF Next

LEMMA Invariant == Spec => []IInv
BY Initially, Stays, PTL DEF Spec

-----------------------------------------------------------------------------
(* A flush, where every tab has a journal of its own.                          *)
Own == \A c, d \in Client : Owner[c] = Owner[d] => c = d

\* Nothing becomes pending behind the back of a flush that waits.
FlushWaits == \A c \in Client : flush[c].at # "no" => journal[Owner[c]].pending \subseteq flush[c].ids
FInv == FlushWaits /\ FlushedIsStored

\* A step that starts no flush and leaves the journals with at most what was pending.
LEMMA FlushKept ==
  ASSUME FInv, unstored' = unstored,
         \A c \in Client : flush'[c].at # "no" => flush[c].at # "no" /\ flush'[c].ids = flush[c].ids,
         \A u \in User : journal'[u].pending \subseteq journal[u].pending
  PROVE  FInv'
BY Owners DEF FInv, FlushWaits, FlushedIsStored

\* What a flush that has nothing left pending returns is stored.
LEMMA NothingLacking ==
  ASSUME IInv, NEW c \in Client, ed[c].saving = <<>>, journal[Owner[c]].pending \subseteq row.ups
  PROVE  Lacking(ed[c].doc) = {}
<1>1. Ran(ed[c].saving) = {}  BY RanEmpty
<1> QED  BY <1>1, AsBefore DEF Lacking, Origins

LEMMA FlushInit == Init => FInv
BY DEF Init, FInv, FlushWaits, FlushedIsStored, Quiet

LEMMA QuietOrSame ==
  ASSUME IInv, NEW c \in Client, flush' \in {flush, [flush EXCEPT ![c] = Quiet]}
  PROVE  \A d \in Client : flush'[d].at # "no" => flush[d].at # "no" /\ flush'[d].ids = flush[d].ids
<1>1. flush \in [Client -> Flush]  BY Parts DEF IInv, TabsTyped
<1> QED  BY <1>1 DEF Quiet

LEMMA FlushStays == Own /\ IInv /\ FInv /\ [Next]_vars => FInv'
<1> SUFFICES ASSUME Own, IInv, FInv, [Next]_vars PROVE FInv'
  OBVIOUS
<1>0. TabsTyped /\ Typed  BY Parts DEF IInv
<1>1. CASE UNCHANGED client
  BY <1>1, FlushKept DEF client
<1>2. CASE Hub
  <2>1. UNCHANGED client
    BY <1>2 DEF Hub, HubJoin, HubSeed, HubAdd, HubUpdate, HubLeave, Sweep, Check, HubAddClosed, ClusterEvent
  <2> QED  BY <1>1, <2>1
<1>3. ASSUME NEW c \in Client, (\E n \in Node : Connect(c, n)) \/ \E e \in Edit : Type(c, e) PROVE FInv'
  <2>1. flush' = flush /\ journal' = journal /\ unstored' = unstored
    BY <1>3 DEF Connect, Type, client
  <2> QED  BY <2>1, FlushKept
<1>4. ASSUME NEW c \in Client, Save(c) PROVE FInv'
  <2>1. flush' = flush /\ unstored' = unstored /\ ed[c].saving # <<>>  BY <1>4 DEF Save
  <2>2. flush[c].at = "no"  BY <2>1, AsBefore
  <2>3. \A u \in User : u # Owner[c] => journal'[u] = journal[u]
    BY <1>0, <1>4 DEF Save, TabsTyped
  <2>4. \A d \in Client : d # c => journal'[Owner[d]] = journal[Owner[d]]
    BY <2>3, Owners DEF Own
  <2> QED  BY <2>1, <2>2, <2>4 DEF FInv, FlushWaits, FlushedIsStored
<1>5. ASSUME NEW c \in Client, Joined(c) \/ Updated(c) PROVE FInv'
  <2>1. flush' = flush /\ unstored' = unstored  BY <1>5 DEF Joined, Updated
  <2>2. PICK kind \in {"joined", "update"} : Frame(c, kind)  BY <1>5 DEF Joined, Updated
  <2> DEFINE m == Head(down[c])
  <2>3. m.ups \subseteq Update
    BY <1>0, <2>2, Framed, MessageFields, Parts
  <2>4. \A u \in User : journal[u] \in Journal /\ Checkpoint(journal[u], m.ups).pending = journal[u].pending
    BY <1>0, <2>3, JournalFields, Checkpointed
  <2>5. \/ journal' = journal
        \/ journal' = [journal EXCEPT ![Owner[c]] = journal[Owner[c]]]
        \/ journal' = [journal EXCEPT ![Owner[c]] = Checkpoint(journal[Owner[c]], m.ups)]
    BY <1>5 DEF Joined, Updated
  <2> HIDE DEF m
  <2>6. \A u \in User : journal'[u].pending = journal[u].pending
    BY <1>0, <2>4, <2>5 DEF TabsTyped
  <2> QED  BY <2>1, <2>6, FlushKept
<1>6. ASSUME NEW c \in Client, Restore(c) PROVE FInv'
  <2>1. flush' = flush /\ unstored' = unstored /\ journal' = journal  BY <1>6 DEF Restore
  <2> QED  BY <2>1, FlushKept
<1>7. ASSUME NEW c \in Client, Acked(c) PROVE FInv'
  <2> DEFINE m == Head(down[c])
             req == [ids |-> m.ids, ups |-> m.ups]
             j == journal[Owner[c]]
             awaited == flush[c].at = "pushed" /\ req = [ids |-> flush[c].ids, ups |-> flush[c].ups]
  <2>1. m \in Message /\ m.ids \subseteq row.ups
    <3>1. Frame(c, "ack")  BY <1>7 DEF Acked
    <3>2. m \in Message /\ m \in Ran(down[c]) /\ m.kind = "ack"  BY <1>0, <3>1, Framed, Parts
    <3> QED  BY <3>2 DEF IInv, Reported, Reports
  <2>2. CASE UNCHANGED client  BY <1>1, <2>2
  <2>3. CASE ~ UNCHANGED client
    <3>1. /\ journal' = IF j.revoked THEN journal ELSE [journal EXCEPT ![Owner[c]] = Settle(j, m)]
          /\ flush' \in {flush, [flush EXCEPT ![c] = Quiet]}
          /\ unstored' = unstored \/ (awaited /\ unstored' = unstored \cup Lacking(ed[c].doc))
      BY <1>7, <2>3 DEF Acked
    <3>2. j \in Journal /\ Settle(j, m).pending \subseteq j.pending
      <4>1. j \in Journal  BY <1>0, Owners, JournalFields
      <4> HIDE DEF j, m
      <4>2. Settle(j, m).pending = j.pending \ m.ids  BY <2>1, <4>1, Settled1
      <4> QED  BY <4>1, <4>2
    <3> HIDE DEF m
    <3>3. \A u \in User : journal'[u].pending \subseteq journal[u].pending
      BY <1>0, <3>1, <3>2, Owners DEF TabsTyped
    <3>4. CASE awaited
      <4>1. m.ids = flush[c].ids  BY <3>4
      <4>2. ed[c].saving = <<>> /\ j.pending \subseteq row.ups
        BY <2>1, <3>4, <4>1, AsBefore DEF FInv, FlushWaits
      <4>3. Lacking(ed[c].doc) = {}  BY <4>2, NothingLacking
      <4> QED  BY <3>1, <3>3, <4>3, QuietOrSame, FlushKept
    <3>5. CASE ~awaited
      <4>1. unstored' = unstored  BY <3>1, <3>5
      <4> QED  BY <3>1, <3>3, <4>1, QuietOrSame, FlushKept
    <3> QED  BY <3>4, <3>5
  <2> QED  BY <2>2, <2>3
<1>8. ASSUME NEW c \in Client, Refused(c) \/ Timeout(c) \/ Drop(c) \/ Reload(c) PROVE FInv'
  <2>1. unstored' = unstored /\ journal' = journal
    BY <1>8 DEF Refused, Timeout, Drop, Reload, Hangup
  <2>2. flush' \in {flush, [flush EXCEPT ![c] = Quiet]}
    BY <1>8, RejectsEffect DEF Refused, Timeout, Drop, Reload
  <2> QED  BY <2>1, <2>2, QuietOrSame, FlushKept
<1>9. ASSUME NEW c \in Client, Permitted(c) \/ Reopen(c) PROVE FInv'
  <2>1. flush' = flush /\ unstored' = unstored /\ journal' = journal
    BY <1>9 DEF Permitted, Reopen
  <2> QED  BY <2>1, FlushKept
<1>10. ASSUME NEW c \in Client, Revoked(c) PROVE FInv'
  <2>1. unstored' = unstored /\ journal' = [journal EXCEPT ![Owner[c]] = [Empty EXCEPT !.revoked = TRUE]]
    BY <1>10 DEF Revoked
  <2>2. flush' \in {flush, [flush EXCEPT ![c] = Quiet]}
    BY <1>10, RejectsEffect DEF Revoked
  <2>3. [Empty EXCEPT !.revoked = TRUE].pending = {}  BY DEF Empty
  <2>4. \A u \in User : journal'[u].pending \subseteq journal[u].pending
    BY <1>0, <2>1, <2>3, Owners DEF TabsTyped
  <2> QED  BY <2>1, <2>2, <2>4, QuietOrSame, FlushKept
<1>11. ASSUME NEW c \in Client, FlushLoad(c) PROVE FInv'
  <2> DEFINE j == journal[Owner[c]]
             f == [at |-> "loaded", ids |-> j.pending, ups |-> j.ups]
  <2>1. journal' = journal /\ ed[c].saving = <<>>  BY <1>11 DEF FlushLoad, Answered
  <2>2. CASE j.pending = {}
    <3>1. flush' = flush /\ unstored' = unstored \cup Lacking(ed[c].doc)
      BY <1>11, <2>2 DEF FlushLoad
    <3>2. Lacking(ed[c].doc) = {}  BY <2>1, <2>2, NothingLacking
    <3> QED  BY <2>1, <3>1, <3>2, FlushKept
  <2>3. CASE j.pending # {}
    <3>1. flush' = [flush EXCEPT ![c] = f] /\ unstored' = unstored
      BY <1>11, <2>3 DEF FlushLoad
    <3>2. f.ids = journal'[Owner[c]].pending  BY <2>1
    <3> HIDE DEF f, j
    <3>3. flush'[c] = f /\ \A d \in Client : d # c => flush'[d] = flush[d]
      BY <1>0, <3>1 DEF TabsTyped
    <3> QED  BY <2>1, <3>1, <3>2, <3>3 DEF FInv, FlushWaits, FlushedIsStored
  <2> QED  BY <2>2, <2>3
<1>12. ASSUME NEW c \in Client, FlushPush(c) PROVE FInv'
  <2>1. journal' = journal /\ unstored' = unstored /\ flush[c].at = "loaded"  BY <1>12 DEF FlushPush
  <2>2. CASE flush' = [flush EXCEPT ![c] = Quiet]  BY <2>1, <2>2, QuietOrSame, FlushKept
  <2>3. CASE flush' # [flush EXCEPT ![c] = Quiet]
    <3> DEFINE missing == (ed[c].doc \cup flush[c].ups) \ journal[Owner[c]].server
               w == [flush[c] EXCEPT !.at = "pushed", !.ups = missing]
    <3>1. flush' = [flush EXCEPT ![c].at = "pushed", ![c].ups = missing]
      BY <1>12, <2>3 DEF FlushPush
    <3> HIDE DEF missing
    <3>2. flush[c] \in Flush  BY <1>0, TabFields
    <3>3. w.ids = flush[c].ids  BY <3>2 DEF Flush
    <3>4. flush' = [flush EXCEPT ![c] = w]  BY <1>0, <3>1, <3>2 DEF TabsTyped
    <3> HIDE DEF w
    <3>5. flush'[c] = w /\ \A d \in Client : d # c => flush'[d] = flush[d]
      BY <1>0, <3>4 DEF TabsTyped
    <3> QED  BY <2>1, <3>3, <3>5, FlushKept
  <2> QED  BY <2>2, <2>3
<1>13. ASSUME NEW u \in User, ChangeAccess(u) PROVE FInv'
  <2>1. UNCHANGED client  BY <1>13 DEF ChangeAccess
  <2> QED  BY <1>1, <2>1
<1>14. CASE Tab
  BY <1>14, <1>3, <1>4, <1>5, <1>6, <1>7, <1>8, <1>9, <1>10, <1>11, <1>12 DEF Tab
<1>15. CASE Environment
  BY <1>15, <1>8, <1>9, <1>13 DEF Environment
<1>16. CASE UNCHANGED vars  BY <1>16, <1>1 DEF vars
<1> QED  BY <1>2, <1>14, <1>15, <1>16 DEF Next

-----------------------------------------------------------------------------
(* What a member of a room hears of it, where every tab has its own journal.   *)

LEMMA AppendAt ==
  ASSUME NEW S, NEW s \in Seq(S), NEW e \in S
  PROVE  /\ \A i \in DOMAIN s : i \in DOMAIN Append(s, e) /\ Append(s, e)[i] = s[i] /\ i \in Nat /\ i < Len(s) + 1
         /\ Len(s) + 1 \in DOMAIN Append(s, e) /\ Append(s, e)[Len(s) + 1] = e /\ Len(s) + 1 \in Nat
         /\ Len(s) + 1 >= 1
         /\ \A i \in DOMAIN Append(s, e) : i \in DOMAIN s \/ i = Len(s) + 1
OBVIOUS

LEMMA TailAt ==
  ASSUME NEW S, NEW s \in Seq(S), s # <<>>
  PROVE  /\ 1 \in DOMAIN s /\ s[1] = Head(s)
         /\ \A i \in DOMAIN Tail(s) : i \in Nat /\ i >= 1 /\ i + 1 \in DOMAIN s /\ Tail(s)[i] = s[i + 1]
         /\ \A i \in DOMAIN s : i \in Nat /\ i >= 1 /\ (i > 1 => i - 1 \in DOMAIN Tail(s) /\ Tail(s)[i - 1] = s[i])
OBVIOUS

Doc(c) == room[member[c]].doc
Present(c) == member[c] # NoRoom /\ \A m \in Ran(up[c]) : m.kind # "leave"
Noted(c, x) == \E k \in checks : k.to = c /\ x \in k.ups
Coming(c, i, x) == \E j \in DOMAIN down[c] :
  j >= i /\ down[c][j].kind \in {"joined", "update"} /\ x \in down[c][j].ups
Clean(c, i) == \A j \in DOMAIN down[c] : j > i => down[c][j].kind # "revoked"

\* A tab whose journal is open has, is told or will be told what the room has;
\* one whose journal has been locked is to join anew and told from there on.
Follows(c) ==
  /\ ~journal[Owner[c]].revoked /\ Clean(c, 0)
  /\ \A x \in Doc(c) : x \in ed[c].doc \/ x \in ed[c].snap.ups \/ Coming(c, 1, x) \/ Noted(c, x)
Rejoins(c) == \E i \in DOMAIN down[c] :
  /\ down[c][i].kind = "joined" /\ Clean(c, i)
  /\ \A x \in Doc(c) : x \in ed[c].doc \/ Coming(c, i, x) \/ Noted(c, x)
Hearing(c) == Present(c) => Follows(c) \/ Rejoins(c)

\* What a tab asks to store, it shows.
Mine(c) == \A i \in DOMAIN up[c] :
  up[c][i].kind = "update" /\ (\A j \in DOMAIN up[c] : j > i => up[c][j].kind # "leave")
    => up[c][i].ups \subseteq ed[c].doc

HInv == \A c \in Client : Mine(c) /\ Hearing(c)

\* Nothing that concerns d has been taken away.
LEMMA HearingKept ==
  ASSUME Typed, NEW d \in Client, Hearing(d), down'[d] = down[d],
         Present(d)' => /\ Present(d)
                        /\ \A x \in Doc(d)' : x \in Doc(d) \/ x \in ed'[d].doc \/ Noted(d, x)',
         journal'[Owner[d]].revoked = journal[Owner[d]].revoked,
         ed[d].doc \subseteq ed'[d].doc, ed[d].snap.ups \subseteq ed'[d].snap.ups \cup ed'[d].doc,
         \A x : Noted(d, x) => Noted(d, x)'
  PROVE  Hearing(d)'
<1> SUFFICES ASSUME Present(d)' PROVE Follows(d)' \/ Rejoins(d)'
  BY DEF Hearing
<1>1. \A i, x : Coming(d, i, x) => Coming(d, i, x)'  BY DEF Coming
<1>2. \A i : Clean(d, i) => Clean(d, i)'  BY DEF Clean
<1>3. CASE Follows(d)
  BY <1>1, <1>2, <1>3 DEF Follows
<1>4. CASE Rejoins(d)
  <2>1. PICK i \in DOMAIN down[d] :
          /\ down[d][i].kind = "joined" /\ Clean(d, i)
          /\ \A x \in Doc(d) : x \in ed[d].doc \/ Coming(d, i, x) \/ Noted(d, x)
    BY <1>4 DEF Rejoins
  <2>2. \A x \in Doc(d)' : x \in ed'[d].doc \/ Coming(d, i, x)' \/ Noted(d, x)'
    BY <1>1, <2>1
  <2> QED  BY <1>2, <2>1, <2>2 DEF Rejoins
<1> QED  BY <1>3, <1>4 DEF Hearing

\* A frame has been sent to d.
LEMMA HearingSent ==
  ASSUME Typed, NEW d \in Client, Hearing(d),
         NEW m \in Message, down'[d] = Append(down[d], m), m.kind # "revoked",
         Present(d)' => /\ Present(d)
                        /\ \A x \in Doc(d)' : x \in Doc(d) \/ x \in ed'[d].doc \/ Noted(d, x)',
         journal'[Owner[d]].revoked = journal[Owner[d]].revoked,
         ed'[d] = ed[d],
         \A x : Noted(d, x) => Noted(d, x)' \/ (m.kind = "update" /\ x \in m.ups)
  PROVE  Hearing(d)'
<1> SUFFICES ASSUME Present(d)' PROVE Follows(d)' \/ Rejoins(d)'
  BY DEF Hearing
<1> DEFINE n == Len(down[d]) + 1
<1>0. down[d] \in Seq(Message)  BY Parts DEF Wired
<1>1. /\ \A i \in DOMAIN down[d] : i \in DOMAIN down'[d] /\ down'[d][i] = down[d][i] /\ i \in Nat /\ i < n
      /\ n \in DOMAIN down'[d] /\ down'[d][n] = m /\ n \in Nat /\ n >= 1
      /\ \A i \in DOMAIN down'[d] : i \in DOMAIN down[d] \/ i = n
  BY <1>0, AppendAt
<1> HIDE DEF n
<1>2. \A i, x : Coming(d, i, x) => Coming(d, i, x)'  BY <1>1 DEF Coming
<1>3. \A i : Clean(d, i) => Clean(d, i)'  BY <1>1 DEF Clean
<1>4. ASSUME NEW x, NEW i, i = 1 \/ i \in DOMAIN down[d], Noted(d, x) PROVE Noted(d, x)' \/ Coming(d, i, x)'
  <2>1. CASE m.kind = "update" /\ x \in m.ups
    <3>1. n >= i  BY <1>1, <1>4
    <3> QED  BY <1>1, <2>1, <3>1 DEF Coming
  <2> QED  BY <1>4, <2>1
<1>5. CASE Follows(d)
  <2>1. \A x \in Doc(d)' : x \in ed'[d].doc \/ x \in ed'[d].snap.ups \/ Coming(d, 1, x)' \/ Noted(d, x)'
    BY <1>2, <1>4, <1>5 DEF Follows
  <2> QED  BY <1>3, <1>5, <2>1 DEF Follows
<1>6. CASE Rejoins(d)
  <2>1. PICK i \in DOMAIN down[d] :
          /\ down[d][i].kind = "joined" /\ Clean(d, i)
          /\ \A x \in Doc(d) : x \in ed[d].doc \/ Coming(d, i, x) \/ Noted(d, x)
    BY <1>6 DEF Rejoins
  <2>2. \A x \in Doc(d)' : x \in ed'[d].doc \/ Coming(d, i, x)' \/ Noted(d, x)'
    BY <1>2, <1>4, <2>1
  <2>3. i \in DOMAIN down'[d] /\ down'[d][i].kind = "joined" /\ Clean(d, i)'
    BY <1>1, <1>3, <2>1
  <2> QED  BY <2>2, <2>3 DEF Rejoins
<1> QED  BY <1>5, <1>6 DEF Hearing

\* The answer to a join carries the document.
LEMMA HearingJoined ==
  ASSUME Typed, NEW d \in Client, NEW m \in Message, down'[d] = Append(down[d], m),
         m.kind = "joined", Doc(d)' \subseteq m.ups
  PROVE  Hearing(d)'
<1>0. down[d] \in Seq(Message)  BY Parts DEF Wired
<1> PICK n : n = Len(down[d]) + 1  OBVIOUS
<1>1. /\ \A i \in DOMAIN down[d] : i \in Nat /\ i < n
      /\ n \in DOMAIN down'[d] /\ down'[d][n] = m /\ n \in Nat
      /\ \A i \in DOMAIN down'[d] : i \in DOMAIN down[d] \/ i = n
  BY <1>0, AppendAt
<1>2. Clean(d, n)'  BY <1>1 DEF Clean
<1>3. \A x \in Doc(d)' : Coming(d, n, x)'  BY <1>1 DEF Coming
<1>4. Rejoins(d)'  BY <1>1, <1>2, <1>3 DEF Rejoins
<1> QED  BY <1>4 DEF Hearing

\* A frame has been handled by d: what it brought is in the editor, in what the
\* editor is about to restore, or it was none of the document.
LEMMA HearingHandled ==
  ASSUME Typed, NEW d \in Client, Hearing(d), down[d] # <<>>, down'[d] = Tail(down[d]),
         Present(d)' => Present(d) /\ Doc(d)' \subseteq Doc(d),
         ed[d].doc \subseteq ed'[d].doc, ed[d].snap.ups \subseteq ed'[d].snap.ups,
         \A x : Noted(d, x) => Noted(d, x)',
         Head(down[d]).kind = "joined" => ~journal'[Owner[d]].revoked /\ Head(down[d]).ups \subseteq ed'[d].snap.ups,
         Head(down[d]).kind = "update" /\ ~journal[Owner[d]].revoked => Head(down[d]).ups \subseteq ed'[d].doc,
         Head(down[d]).kind \notin {"joined", "revoked"} => journal'[Owner[d]].revoked = journal[Owner[d]].revoked
  PROVE  Hearing(d)'
<1> SUFFICES ASSUME Present(d)' PROVE Follows(d)' \/ Rejoins(d)'
  BY DEF Hearing
<1> DEFINE h == Head(down[d])
<1>0. down[d] \in Seq(Message)  BY Parts DEF Wired
<1>1. /\ 1 \in DOMAIN down[d] /\ down[d][1] = h
      /\ \A i \in DOMAIN down'[d] : i \in Nat /\ i >= 1 /\ i + 1 \in DOMAIN down[d] /\ down'[d][i] = down[d][i + 1]
      /\ \A i \in DOMAIN down[d] : i \in Nat /\ i >= 1
                                   /\ (i > 1 => i - 1 \in DOMAIN down'[d] /\ down'[d][i - 1] = down[d][i])
  BY <1>0, TailAt
<1> HIDE DEF h
<1>2. ASSUME NEW i \in DOMAIN down[d], NEW x, Coming(d, i, x)
      PROVE  \/ i > 1 /\ i - 1 \in DOMAIN down'[d] /\ Coming(d, i - 1, x)'
             \/ i = 1 /\ h.kind \in {"joined", "update"} /\ x \in h.ups
             \/ i = 1 /\ Coming(d, 1, x)'
  <2>1. PICK j \in DOMAIN down[d] : j >= i /\ down[d][j].kind \in {"joined", "update"} /\ x \in down[d][j].ups
    BY <1>2 DEF Coming
  <2>2. CASE j = 1
    BY <1>1, <2>1, <2>2
  <2>3. CASE j > 1
    <3>1. j - 1 \in DOMAIN down'[d] /\ down'[d][j - 1] = down[d][j] /\ j \in Nat /\ i \in Nat
      BY <1>1, <2>3
    <3>2. i = 1 => Coming(d, 1, x)'
      <4>1. j - 1 >= 1  BY <2>3, <3>1
      <4> QED  BY <2>1, <3>1, <4>1 DEF Coming
    <3>3. i > 1 => Coming(d, i - 1, x)'
      <4>1. j - 1 >= i - 1  BY <2>1, <3>1
      <4> QED  BY <2>1, <3>1, <4>1 DEF Coming
    <3> QED  BY <1>1, <3>2, <3>3
  <2> QED  BY <1>1, <2>2, <2>3
<1>3. Clean(d, 0) => Clean(d, 0)' /\ h.kind # "revoked"
  BY <1>1 DEF Clean
<1>4. ASSUME NEW i \in DOMAIN down[d], Clean(d, i)
      PROVE  /\ i > 1 => Clean(d, i - 1)'
             /\ i = 1 => Clean(d, 0)'
  <2>1. ASSUME NEW j \in DOMAIN down'[d], i > 1, j > i - 1 PROVE down'[d][j].kind # "revoked"
    <3>1. j + 1 > i  BY <1>1, <2>1
    <3> QED  BY <1>1, <1>4, <3>1 DEF Clean
  <2>2. ASSUME NEW j \in DOMAIN down'[d], i = 1, j > 0 PROVE down'[d][j].kind # "revoked"
    <3>1. j + 1 > 1  BY <1>1, <2>2
    <3> QED  BY <1>1, <1>4, <2>2, <3>1 DEF Clean
  <2> QED  BY <2>1, <2>2 DEF Clean
<1>5. CASE Follows(d)
  <2>1. ~journal'[Owner[d]].revoked /\ Clean(d, 0)'
    BY <1>3, <1>5 DEF Follows, h
  <2>2. ASSUME NEW x \in Doc(d)'
        PROVE  x \in ed'[d].doc \/ x \in ed'[d].snap.ups \/ Coming(d, 1, x)' \/ Noted(d, x)'
    <3>1. x \in ed[d].doc \/ x \in ed[d].snap.ups \/ Coming(d, 1, x) \/ Noted(d, x)
      BY <1>5 DEF Follows
    <3>2. CASE Coming(d, 1, x)
      <4>1. (h.kind \in {"joined", "update"} /\ x \in h.ups) \/ Coming(d, 1, x)'
        BY <1>1, <1>2, <3>2
      <4> QED  BY <1>5, <4>1 DEF Follows, h
    <3> QED  BY <3>1, <3>2
  <2>3. Follows(d)'  BY <2>1, <2>2 DEF Follows
  <2> QED  BY <2>3
<1>6. CASE Rejoins(d)
  <2>1. PICK i \in DOMAIN down[d] :
          /\ down[d][i].kind = "joined" /\ Clean(d, i)
          /\ \A x \in Doc(d) : x \in ed[d].doc \/ Coming(d, i, x) \/ Noted(d, x)
    BY <1>6 DEF Rejoins
  <2>2. CASE i = 1
    <3>1. h.kind = "joined"  BY <1>1, <2>1, <2>2
    <3>2. ~journal'[Owner[d]].revoked /\ h.ups \subseteq ed'[d].snap.ups  BY <3>1 DEF h
    <3>3. ASSUME NEW x \in Doc(d)'
          PROVE  x \in ed'[d].doc \/ x \in ed'[d].snap.ups \/ Coming(d, 1, x)' \/ Noted(d, x)'
      <4>1. x \in ed[d].doc \/ Coming(d, 1, x) \/ Noted(d, x)  BY <2>1, <2>2
      <4>2. Coming(d, 1, x) => x \in h.ups \/ Coming(d, 1, x)'  BY <1>1, <1>2
      <4> QED  BY <3>2, <4>1, <4>2
    <3>4. Clean(d, 0)'  BY <1>4, <2>1, <2>2
    <3>5. Follows(d)'  BY <3>2, <3>3, <3>4 DEF Follows
    <3> QED  BY <3>5
  <2>3. CASE i > 1
    <3>1. i - 1 \in DOMAIN down'[d] /\ down'[d][i - 1].kind = "joined" /\ Clean(d, i - 1)'
      BY <1>1, <1>4, <2>1, <2>3
    <3>2. \A x \in Doc(d)' : x \in ed'[d].doc \/ Coming(d, i - 1, x)' \/ Noted(d, x)'
      BY <1>2, <2>1, <2>3
    <3>3. Rejoins(d)'
      <4> DEFINE k == i - 1
      <4>1. k \in DOMAIN down'[d] /\ down'[d][k].kind = "joined" /\ Clean(d, k)'
        BY <3>1
      <4>2. \A x \in Doc(d)' : x \in ed'[d].doc \/ Coming(d, k, x)' \/ Noted(d, x)'
        BY <3>2
      <4> HIDE DEF k
      <4> QED  BY <4>1, <4>2 DEF Rejoins
    <3> QED  BY <3>3
  <2> QED  BY <1>1, <2>2, <2>3
<1> QED  BY <1>5, <1>6 DEF Hearing

LEMMA MineKept ==
  ASSUME NEW d \in Client, Mine(d), up'[d] = up[d], ed[d].doc \subseteq ed'[d].doc
  PROVE  Mine(d)'
BY DEF Mine

LEMMA MineTaken ==
  ASSUME Wired(up), NEW d \in Client, Mine(d), up[d] # <<>>, up'[d] = Tail(up[d]), ed[d].doc \subseteq ed'[d].doc
  PROVE  Mine(d)'
<1>0. up[d] \in Seq(Message)  BY DEF Wired
<1>1. /\ \A i \in DOMAIN up'[d] : i \in Nat /\ i >= 1 /\ i + 1 \in DOMAIN up[d] /\ up'[d][i] = up[d][i + 1]
      /\ \A i \in DOMAIN up[d] : i \in Nat /\ i >= 1
                                 /\ (i > 1 => i - 1 \in DOMAIN up'[d] /\ up'[d][i - 1] = up[d][i])
  BY <1>0, TailAt
<1>2. ASSUME NEW i \in DOMAIN up'[d], up'[d][i].kind = "update",
             \A j \in DOMAIN up'[d] : j > i => up'[d][j].kind # "leave"
      PROVE  up'[d][i].ups \subseteq ed'[d].doc
  <2>1. \A j \in DOMAIN up[d] : j > i + 1 => up[d][j].kind # "leave"
    <3> TAKE j \in DOMAIN up[d]
    <3> HAVE j > i + 1
    <3>1. j > 1 /\ j - 1 > i /\ i \in Nat /\ j \in Nat  BY <1>1
    <3> QED  BY <1>1, <1>2, <3>1
  <2> QED  BY <1>1, <1>2, <2>1 DEF Mine
<1> QED  BY <1>2 DEF Mine

LEMMA MineAsked ==
  ASSUME Wired(up), NEW d \in Client, Mine(d), NEW m \in Message, up'[d] = Append(up[d], m),
         m.kind = "update" => m.ups \subseteq ed'[d].doc, ed[d].doc \subseteq ed'[d].doc
  PROVE  Mine(d)'
<1>0. up[d] \in Seq(Message)  BY DEF Wired
<1> PICK n : n = Len(up[d]) + 1  OBVIOUS
<1>1. /\ \A i \in DOMAIN up[d] : i \in DOMAIN up'[d] /\ up'[d][i] = up[d][i]
      /\ n \in DOMAIN up'[d] /\ up'[d][n] = m
      /\ \A i \in DOMAIN up'[d] : i \in DOMAIN up[d] \/ i = n
  BY <1>0, AppendAt
<1> QED  BY <1>1 DEF Mine

LEMMA MineNone ==
  ASSUME NEW d \in Client, \A i \in DOMAIN up'[d] : up'[d][i].kind # "update"
  PROVE  Mine(d)'
BY DEF Mine

\* A tab that is a member after a step that took none of its leave messages was
\* one before.
LEMMA PresentBefore ==
  ASSUME Wired(up), NEW d \in Client, member'[d] = member[d],
         up'[d] = up[d] \/ (up[d] # <<>> /\ up'[d] = Tail(up[d]) /\ Head(up[d]).kind # "leave")
  PROVE  Present(d)' => Present(d)
<1>1. CASE up'[d] = up[d]  BY <1>1 DEF Present
<1>2. CASE up[d] # <<>> /\ up'[d] = Tail(up[d]) /\ Head(up[d]).kind # "leave"
  <2>1. up[d] \in Seq(Message)  BY DEF Wired
  <2>2. Ran(up[d]) \subseteq Ran(up'[d]) \cup {Head(up[d])}
    BY <1>2, <2>1, RanTail
  <2> QED  BY <1>2, <2>2 DEF Present
<1> QED  BY <1>1, <1>2

LEMMA TakenAt ==
  ASSUME Wired(up), NEW c \in Client, NEW kind, Next1(c, kind)
  PROVE  /\ up[c] # <<>> /\ up'[c] = Tail(up[c]) /\ Head(up[c]).kind = kind
         /\ \A d \in Client \ {c} : up'[d] = up[d]
BY DEF Next1, Wired

LEMMA ToldAt ==
  ASSUME Wired(down), NEW c \in Client, NEW m, Tell(c, m)
  PROVE  /\ down'[c] = Append(down[c], m)
         /\ \A d \in Client \ {c} : down'[d] = down[d]
BY DEF Tell, Wired

\* The hub does nothing to the tabs' requests but to take them.
LEMMA HubMine ==
  ASSUME Wired(up), HInv, UNCHANGED client, NEW c \in Client, up' = up \/ \E kind \in {"join", "leave", "update"} : Next1(c, kind)
  PROVE  \A d \in Client : Mine(d)'
<1>1. ed' = ed  BY DEF client
<1> TAKE d \in Client
<1>2. Mine(d)  BY DEF HInv
<1>3. CASE up'[d] = up[d]  BY <1>1, <1>2, <1>3, MineKept
<1>4. CASE up[d] # <<>> /\ up'[d] = Tail(up[d])  BY <1>1, <1>2, <1>4, MineTaken
<1> QED  BY <1>3, <1>4, TakenAt

\* One tab leaves its room: the others hear as before.
LEMMA OutHears ==
  ASSUME Typed, HInv, NEW c \in Client, Leave(c), room' = room, UNCHANGED client,
         \A d \in Client \ {c} : /\ down'[d] = down[d] /\ up'[d] = up[d]
                                 /\ \A x : Noted(d, x) => Noted(d, x)'
  PROVE  \A d \in Client : Hearing(d)'
<1>1. ed' = ed /\ journal' = journal  BY DEF client
<1>2. \A d \in Client : member'[d] = IF d = c THEN NoRoom ELSE member[d]
  BY LeaveEffect
<1>3. Hearing(c)'  BY <1>2 DEF Hearing, Present
<1>4. ASSUME NEW d \in Client, d # c PROVE Hearing(d)'
  <2>1. Hearing(d)  BY DEF HInv
  <2>2. Present(d)' => Present(d)  BY <1>2, <1>4, PresentBefore, Parts
  <2>3. Doc(d)' = Doc(d)  BY <1>2, <1>4 DEF Doc
  <2> QED  BY <1>1, <1>4, <2>1, <2>2, <2>3, HearingKept
<1> QED  BY <1>3, <1>4

LEMMA RevokeHears ==
  ASSUME Typed, HInv, NEW c \in Client, NEW m, Revoke(c, m), room' = room, UNCHANGED client,
         \A d \in Client \ {c} : up'[d] = up[d] /\ \A x : Noted(d, x) => Noted(d, x)'
  PROVE  \A d \in Client : Hearing(d)'
<1>1. Leave(c) /\ Tell(c, Msg("revoked", m.ups, m.ids, FALSE))  BY DEF Revoke
<1>2. \A d \in Client \ {c} : down'[d] = down[d]  BY <1>1, ToldAt, Parts
<1> QED  BY <1>1, <1>2, OutHears

\* A frame of another kind for one tab, in a step that changes no room.
LEMMA TellHears ==
  ASSUME Typed, HInv, NEW c \in Client, NEW m \in Message, Tell(c, m), m.kind # "revoked",
         room' = room, member' = member, UNCHANGED client,
         \A d \in Client : \/ up'[d] = up[d]
                           \/ up[d] # <<>> /\ up'[d] = Tail(up[d]) /\ Head(up[d]).kind # "leave",
         \A d \in Client : \A x : Noted(d, x) => Noted(d, x)' \/ (d = c /\ m.kind = "update" /\ x \in m.ups)
  PROVE  \A d \in Client : Hearing(d)'
<1> TAKE d \in Client
<1>1. ed' = ed /\ journal' = journal  BY DEF client
<1>2. Hearing(d)  BY DEF HInv
<1>3. Present(d)' => Present(d)  BY PresentBefore, Parts
<1>4. Doc(d)' = Doc(d)  BY DEF Doc
<1>5. /\ down'[c] = Append(down[c], m)
      /\ \A e \in Client \ {c} : down'[e] = down[e]
  BY ToldAt, Parts
<1>6. CASE d = c  BY <1>1, <1>2, <1>3, <1>4, <1>5, <1>6, HearingSent
<1>7. CASE d # c  BY <1>1, <1>2, <1>3, <1>4, <1>5, <1>7, HearingKept
<1> QED  BY <1>6, <1>7

\* A broadcast is noted for every member that is not left out.
LEMMA Spread ==
  ASSUME Typed, NEW r \in Room, NEW ups, ups \subseteq Update, NEW by \in Client \cup {"nobody"}, NEW except,
         checks \cup Broadcast(r, ups, by, except) \subseteq checks'
  PROVE  \A d \in Client : /\ member[d] = r /\ d \notin except => \A x \in ups : Noted(d, x)'
                           /\ \A x : Noted(d, x) => Noted(d, x)'
<1>1. /\ \A k \in Broadcast(r, ups, by, except) : k.ups = ups
      /\ \A c \in Client : member[c] = r /\ c \notin except =>
           \E k \in Broadcast(r, ups, by, except) : k.to = c
  BY Sent
<1> QED  BY <1>1 DEF Noted

LEMMA HubLeaveHears == ASSUME IInv, HInv, NEW c \in Client, HubLeave(c) PROVE HInv'
<1>1. /\ Typed /\ Wired(up) /\ Next1(c, "leave") /\ room' = room /\ checks' = checks /\ UNCHANGED client
  BY Parts DEF HubLeave, IInv
<1>2. \A d \in Client : Mine(d)'  BY <1>1, HubMine
<1>3. \A d \in Client \ {c} : up'[d] = up[d] /\ \A x : Noted(d, x) => Noted(d, x)'
  BY <1>1, TakenAt DEF Noted
<1>4. CASE Revoke(c, NoRequest)  BY <1>1, <1>2, <1>3, <1>4, RevokeHears DEF HInv
<1>5. CASE Leave(c) /\ UNCHANGED down  BY <1>1, <1>2, <1>3, <1>5, OutHears DEF HInv
<1> QED  BY <1>4, <1>5 DEF HubLeave

LEMMA CheckHears == ASSUME IInv, HInv, NEW k \in checks, Check(k) PROVE HInv'
<1>1. /\ Typed /\ Wired(up) /\ room' = room /\ checks' = checks \ {k} /\ up' = up /\ UNCHANGED client
  BY Parts DEF Check, IInv
<1>2. k.to \in Client /\ k.ups \subseteq Update  BY <1>1, Fields
<1>3. \A d \in Client : Mine(d)'  BY <1>1, <1>2, HubMine
<1>4. \A d \in Client : \A x : Noted(d, x) => Noted(d, x)' \/ (d = k.to /\ x \in k.ups)
  BY <1>1 DEF Noted
<1>5. CASE Revoke(k.to, NoRequest)
  BY <1>1, <1>2, <1>3, <1>4, <1>5, RevokeHears DEF HInv
<1>6. CASE Tell(k.to, Msg("update", k.ups, {}, FALSE)) /\ UNCHANGED <<member, mapped>>
  <2> DEFINE m == Msg("update", k.ups, {}, FALSE)
  <2>1. m \in Message /\ m.kind = "update" /\ m.ups = k.ups
    BY <1>2 DEF Msg, Message
  <2>2. Tell(k.to, m) /\ member' = member  BY <1>6
  <2> HIDE DEF m
  <2> QED  BY <1>1, <1>2, <1>3, <1>4, <2>1, <2>2, TellHears DEF HInv
<1> QED  BY <1>5, <1>6 DEF Check

LEMMA SweepHears == ASSUME IInv, HInv, NEW c \in Client, Sweep(c) PROVE HInv'
<1>1. /\ Typed /\ Wired(up) /\ room' = room /\ checks' = checks /\ up' = up /\ UNCHANGED client
  BY Parts DEF Sweep, IInv
<1>2. \A d \in Client : Mine(d)'  BY <1>1, HubMine
<1>3. \A d \in Client : \A x : Noted(d, x) => Noted(d, x)'  BY <1>1 DEF Noted
<1>4. CASE Revoke(c, NoRequest)  BY <1>1, <1>2, <1>3, <1>4, RevokeHears DEF HInv
<1>5. CASE Tell(c, Msg("permission", {}, {}, Level(c) = "read")) /\ UNCHANGED <<member, mapped>>
  <2> DEFINE m == Msg("permission", {}, {}, Level(c) = "read")
  <2>1. m \in Message /\ m.kind = "permission"  BY DEF Msg, Message
  <2>2. Tell(c, m) /\ member' = member  BY <1>5
  <2> HIDE DEF m
  <2> QED  BY <1>1, <1>2, <1>3, <2>1, <2>2, TellHears DEF HInv
<1> QED  BY <1>4, <1>5 DEF Sweep

\* A step in which only rooms change, and the members of a room that changes are told.
LEMMA RoomsHear ==
  ASSUME Typed, HInv, NEW d \in Client, UNCHANGED client, member'[d] = member[d], down'[d] = down[d],
         up'[d] = up[d] \/ (up[d] # <<>> /\ up'[d] = Tail(up[d]) /\ Head(up[d]).kind # "leave"),
         NEW r, \A q \in Room : q # r => room'[q].doc = room[q].doc,
         member[d] = r => \A x \in room'[r].doc : x \in room[r].doc \/ Noted(d, x)',
         \A x : Noted(d, x) => Noted(d, x)'
  PROVE  Hearing(d)'
<1>1. ed' = ed /\ journal' = journal  BY DEF client
<1>2. Hearing(d)  BY DEF HInv
<1>3. Present(d)' => Present(d)  BY PresentBefore, Parts
<1>4. Present(d)' => \A x \in Doc(d)' : x \in Doc(d) \/ Noted(d, x)'
  <2>1. Present(d) => member[d] \in Room  BY Fields DEF Present
  <2> QED  BY <1>3, <2>1 DEF Doc
<1> QED  BY <1>1, <1>2, <1>3, <1>4, HearingKept

LEMMA HubAddClosedHears == ASSUME IInv, HInv, NEW q \in late, HubAddClosed(q) PROVE HInv'
<1>1. /\ Typed /\ ServerTyped /\ Wired(up) /\ room' = [room EXCEPT ![q].ghost = TRUE] /\ checks' = checks
      /\ up' = up /\ down' = down /\ member' = member /\ UNCHANGED client
  BY Parts DEF HubAddClosed, IInv
<1>2. \A r \in Room : room'[r].doc = room[r].doc
  <2>1. q \in Room /\ room[q] \in Cached /\ room \in [Room -> Cached]  BY <1>1 DEF ServerTyped
  <2> QED  BY <1>1, <2>1 DEF Cached
<1>3. \A d \in Client : \A x : Noted(d, x) => Noted(d, x)'  BY <1>1 DEF Noted
<1>4. \A d \in Client : Hearing(d)'
  <2>1. ASSUME NEW d \in Client PROVE Hearing(d)'
    <3>1. member[d] = NoRoom \/ member[d] \in Room  BY <1>1, Fields
    <3>2. CASE member[d] \in Room
      BY <1>1, <1>2, <1>3, <3>2, RoomsHear
    <3>3. CASE member[d] = NoRoom  BY <1>1, <3>3 DEF Hearing, Present
    <3> QED  BY <3>1, <3>2, <3>3
  <2> QED  BY <2>1
<1>5. \A d \in Client : Mine(d)'
  BY <1>1, MineKept DEF client, HInv
<1> QED  BY <1>4, <1>5 DEF HInv

LEMMA ClusterEventHears == ASSUME IInv, HInv, NEW n \in Node, ClusterEvent(n) PROVE HInv'
<1>1. /\ Typed /\ ServerTyped /\ Wired(up)
      /\ up' = up /\ down' = down /\ member' = member /\ UNCHANGED client
  BY Parts DEF ClusterEvent, IInv
<1>2. \A d \in Client : Mine(d)'
  BY <1>1, MineKept DEF client, HInv
<1> DEFINE r == mapped[n]
           b == Broadcast(r, row.ups \ room[r].doc, "nobody", {})
<1>3. CASE UNCHANGED <<room, checks>>
  <2>1. \A d \in Client : Doc(d)' = Doc(d) /\ (\A x : Noted(d, x) => Noted(d, x)') /\ (Present(d)' => Present(d))
    BY <1>1, <1>3 DEF Doc, Noted, Present
  <2>2. \A d \in Client : Hearing(d)'
    BY <1>1, <2>1, HearingKept DEF HInv, client
  <2> QED  BY <1>2, <2>2 DEF HInv
<1>4. CASE /\ r # NoRoom /\ room' = [room EXCEPT ![r] = Fresh(r)] /\ checks' = checks \cup b
  <2>1. r \in Room /\ row.ups \ room[r].doc \subseteq Update
    BY <1>1, <1>4, Fields
  <2>2. /\ Fresh(r).doc = row.ups
        /\ \A q \in Room : room'[q] = IF q = r THEN Fresh(r) ELSE room[q]
    BY <1>1, <1>4, <2>1, FreshRoom DEF ServerTyped
  <2>3. \A d \in Client : /\ member[d] = r => \A x \in row.ups \ room[r].doc : Noted(d, x)'
                          /\ \A x : Noted(d, x) => Noted(d, x)'
    BY <1>1, <1>4, <2>1, Spread
  <2>4. ASSUME NEW d \in Client PROVE Hearing(d)'
    <3> PICK q : q = r  OBVIOUS
    <3>1. /\ \A y \in Room : y # q => room'[y].doc = room[y].doc
          /\ member[d] = q => \A x \in room'[q].doc : x \in room[q].doc \/ Noted(d, x)'
          /\ \A x : Noted(d, x) => Noted(d, x)'
      <4> HIDE DEF r
      <4> QED  BY <2>1, <2>2, <2>3
    <3> QED  BY <1>1, <3>1, RoomsHear
  <2> QED  BY <1>2, <2>4 DEF HInv
<1> QED  BY <1>3, <1>4 DEF ClusterEvent

LEMMA HubAddHears == ASSUME IInv, HInv, NEW c \in Client, HubAdd(c) PROVE HInv'
<1>1. /\ Typed /\ MembersTyped /\ Wired(up) /\ Wired(down)
      /\ up' = up /\ room' = room /\ checks' = checks /\ UNCHANGED client
  BY Parts DEF HubAdd, IInv
<1> DEFINE r == joining[c].room
           m == Msg("joined", room[r].doc, {}, ~joining[c].writable)
<1>2. joining[c].at = "add" /\ member' = [member EXCEPT ![c] = r] /\ Tell(c, m)
  BY DEF HubAdd
<1>3. r \in Room  BY <1>1, <1>2 DEF Typed, Joins
<1>4. m \in Message /\ m.kind = "joined" /\ m.ups = room[r].doc
  <2>1. room[r].doc \subseteq Update /\ joining[c].writable \in BOOLEAN
    BY <1>1, <1>3, Fields
  <2> QED  BY <2>1 DEF Msg, Message
<1> HIDE DEF m
<1>5. /\ down'[c] = Append(down[c], m) /\ \A d \in Client \ {c} : down'[d] = down[d]
  BY <1>1, <1>2, ToldAt
<1> HIDE DEF r
<1>6. member'[c] = r /\ \A d \in Client \ {c} : member'[d] = member[d]
  BY <1>1, <1>2 DEF MembersTyped
<1>7. Hearing(c)'
  <2>1. Doc(c)' = m.ups  BY <1>1, <1>4, <1>6 DEF Doc
  <2> PICK x : x = m  OBVIOUS
  <2> QED  BY <1>1, <1>4, <1>5, <2>1, HearingJoined
<1>8. ASSUME NEW d \in Client, d # c PROVE Hearing(d)'
  <2>1. Doc(d)' = Doc(d) /\ (Present(d)' => Present(d)) /\ \A x : Noted(d, x) => Noted(d, x)'
    BY <1>1, <1>6, <1>8 DEF Doc, Present, Noted
  <2> QED  BY <1>1, <1>5, <1>8, <2>1, HearingKept DEF HInv, client
<1>9. \A d \in Client : Mine(d)'
  BY <1>1, MineKept DEF client, HInv
<1> QED  BY <1>7, <1>8, <1>9 DEF HInv

LEMMA HubSeedHears == ASSUME IInv, HInv, NEW c \in Client, HubSeed(c) PROVE HInv'
<1>1. /\ Typed /\ ServerTyped /\ MembersTyped /\ Wired(up) /\ Wired(down) /\ Pristine
      /\ up' = up /\ UNCHANGED client /\ joining[c].at = "seed"
  BY Parts DEF HubSeed, IInv
<1> DEFINE r == joining[c].room
<1>2. r \in Room /\ row.ups \subseteq Update /\ row.rev \in Nat  BY <1>1, Fields DEF Typed, Joins
<1>3. \A d \in Client : Mine(d)'
  BY <1>1, MineKept DEF client, HInv
<1>4. CASE /\ Tell(c, Msg("error", {}, {}, TRUE)) /\ UNCHANGED <<room, member, checks>>
  <2> DEFINE x == Msg("error", {}, {}, TRUE)
  <2>1. x \in Message /\ x.kind = "error" /\ Tell(c, x)  BY <1>4 DEF Msg, Message
  <2>2. \A d \in Client : \A y : Noted(d, y) => Noted(d, y)'  BY <1>4 DEF Noted
  <2> HIDE DEF x
  <2> QED  BY <1>1, <1>3, <1>4, <2>1, <2>2, TellHears DEF HInv
<1>5. CASE /\ First(r)
           /\ room' = [room EXCEPT ![r] = Holding(r, Merged(r, {c}), row.rev + 1)]
           /\ member' = [member EXCEPT ![c] = r]
           /\ Tell(c, Msg("joined", Merged(r, {c}), {}, FALSE))
           /\ checks' = checks \cup Broadcast(r, {c}, c, {c})
  <2> DEFINE new == Merged(r, {c})
             x == Msg("joined", new, {}, FALSE)
             h == Holding(r, new, row.rev + 1)
  <2>1. new = {c} /\ new \subseteq Update
    BY <1>1, <1>5 DEF Pristine, First, Merged, Update
  <2>2. x \in Message /\ x.kind = "joined" /\ x.ups = new
    BY <2>1 DEF Msg, Message
  <2>3. h \in Cached /\ h.doc = new
    <3> HIDE DEF new, r
    <3>1. new \in SUBSET Update /\ row.rev + 1 \in Nat  BY <1>2, <2>1
    <3> QED  BY <1>1, <1>2, <3>1, FreshRoom DEF r
  <2>4. room' = [room EXCEPT ![r] = h] /\ Tell(c, x)  BY <1>5
  <2> HIDE DEF x, h, new
  <2>5. \A d \in Client : /\ member[d] = r /\ d # c => Noted(d, c)'
                          /\ \A y : Noted(d, y) => Noted(d, y)'
    <3>1. {c} \subseteq Update  BY DEF Update
    <3> HIDE DEF r
    <3>2. \A d \in Client : /\ member[d] = r /\ d \notin {c} => \A y \in {c} : Noted(d, y)'
                            /\ \A y : Noted(d, y) => Noted(d, y)'
      BY <1>1, <1>2, <1>5, <3>1, Spread
    <3> QED  BY <3>2
  <2>6. /\ down'[c] = Append(down[c], x) /\ \A d \in Client \ {c} : down'[d] = down[d]
    BY <1>1, <2>4, ToldAt
  <2>7. /\ \A q \in Room : room'[q] = IF q = r THEN h ELSE room[q]
        /\ \A d \in Client : member'[d] = IF d = c THEN r ELSE member[d]
    BY <1>1, <1>5, <2>3, <2>4 DEF ServerTyped, MembersTyped
  <2>8. Hearing(c)'
    <3>1. Doc(c)' = x.ups  BY <1>2, <2>2, <2>3, <2>7 DEF Doc
    <3> PICK y : y = x  OBVIOUS
    <3> QED  BY <1>1, <2>2, <2>6, <3>1, HearingJoined
  <2>9. ASSUME NEW d \in Client, d # c PROVE Hearing(d)'
    <3> PICK q : q = r  OBVIOUS
    <3>1. /\ \A y \in Room : y # q => room'[y].doc = room[y].doc
          /\ member[d] = q => \A y \in room'[q].doc : y \in room[q].doc \/ Noted(d, y)'
          /\ \A y : Noted(d, y) => Noted(d, y)'
          /\ member'[d] = member[d] /\ down'[d] = down[d] /\ up'[d] = up[d]
      <4> HIDE DEF r
      <4> QED  BY <1>1, <1>2, <2>1, <2>3, <2>5, <2>6, <2>7, <2>9
    <3> QED  BY <1>1, <3>1, RoomsHear
  <2> QED  BY <1>3, <2>8, <2>9 DEF HInv
<1>6. CASE /\ room' = [room EXCEPT ![r] = Fresh(r)]
           /\ checks' = checks \cup Broadcast(r, row.ups \ room[r].doc, c, {})
           /\ UNCHANGED <<member, down>>
  <2>1. \A q \in Room : room'[q] = IF q = r THEN Fresh(r) ELSE room[q]
    BY <1>1, <1>2, <1>6 DEF ServerTyped
  <2>2. Fresh(r).doc = row.ups  BY <1>1, <1>2, FreshRoom
  <2>3. \A d \in Client : /\ member[d] = r => \A x \in row.ups \ room[r].doc : Noted(d, x)'
                          /\ \A x : Noted(d, x) => Noted(d, x)'
    <3>1. row.ups \ room[r].doc \subseteq Update  BY <1>2
    <3> HIDE DEF r
    <3> QED  BY <1>1, <1>2, <1>6, <3>1, Spread
  <2>4. ASSUME NEW d \in Client PROVE Hearing(d)'
    <3> PICK q : q = r  OBVIOUS
    <3>1. /\ \A y \in Room : y # q => room'[y].doc = room[y].doc
          /\ member[d] = q => \A x \in room'[q].doc : x \in room[q].doc \/ Noted(d, x)'
          /\ \A x : Noted(d, x) => Noted(d, x)'
          /\ member'[d] = member[d] /\ down'[d] = down[d] /\ up'[d] = up[d]
      <4> HIDE DEF r
      <4> QED  BY <1>1, <1>2, <1>6, <2>1, <2>2, <2>3
    <3> QED  BY <1>1, <3>1, RoomsHear
  <2> QED  BY <1>3, <2>4 DEF HInv
<1> QED
  <2> HIDE DEF r
  <2> QED  BY <1>4, <1>5, <1>6 DEF HubSeed, r

\* A tab asks to store what it shows.
LEMMA AskedIsMine ==
  ASSUME Wired(up), NEW c \in Client, Mine(c), up[c] # <<>>, up'[c] = Tail(up[c]),
         Head(up[c]).kind = "update", Present(c)'
  PROVE  Head(up[c]).ups \subseteq ed[c].doc
<1>0. up[c] \in Seq(Message)  BY DEF Wired
<1>1. /\ 1 \in DOMAIN up[c] /\ up[c][1] = Head(up[c])
      /\ \A i \in DOMAIN up[c] : i > 1 => i - 1 \in DOMAIN up'[c] /\ up'[c][i - 1] = up[c][i]
  BY <1>0, TailAt
<1>2. \A j \in DOMAIN up[c] : j > 1 => up[c][j].kind # "leave"
  BY <1>1 DEF Present, Ran
<1> QED  BY <1>1, <1>2 DEF Mine

LEMMA HubUpdateHears == ASSUME IInv, HInv, NEW c \in Client, HubUpdate(c) PROVE HInv'
<1>1. /\ Typed /\ ServerTyped /\ MembersTyped /\ Wired(up) /\ Wired(down)
      /\ Next1(c, "update") /\ UNCHANGED client
  BY Parts DEF HubUpdate, IInv
<1> DEFINE m == Head(up[c])
           r == member[c]
<1>2. /\ up[c] # <<>> /\ up'[c] = Tail(up[c]) /\ m.kind = "update"
      /\ \A d \in Client \ {c} : up'[d] = up[d]
  BY <1>1, TakenAt
<1>3. m \in Message /\ m.ups \subseteq Update /\ m.ids \subseteq Edit
  BY <1>1, Taken, MessageFields
<1>4. \A d \in Client : Mine(d)'  BY <1>1, HubMine
<1>5. CASE Revoke(c, m) /\ UNCHANGED <<room, checks>>
  <2>1. \A d \in Client \ {c} : up'[d] = up[d] /\ \A x : Noted(d, x) => Noted(d, x)'
    BY <1>2, <1>5 DEF Noted
  <2> HIDE DEF m
  <2> QED  BY <1>1, <1>4, <1>5, <2>1, RevokeHears DEF HInv
<1>6. CASE /\ Tell(c, Msg("error", m.ups, m.ids, r # NoRoom /\ Level(c) = "read"))
           /\ UNCHANGED <<room, checks, member>>
  <2> DEFINE x == Msg("error", m.ups, m.ids, r # NoRoom /\ Level(c) = "read")
  <2>1. x \in Message /\ x.kind = "error"
    BY <1>3 DEF Msg, Message
  <2>2. Tell(c, x)  BY <1>6
  <2>3. \A d \in Client : \/ up'[d] = up[d]
                          \/ up[d] # <<>> /\ up'[d] = Tail(up[d]) /\ Head(up[d]).kind # "leave"
    BY <1>2
  <2>4. \A d \in Client : \A y : Noted(d, y) => Noted(d, y)'  BY <1>6 DEF Noted
  <2> HIDE DEF x, m, r
  <2> QED  BY <1>1, <1>4, <1>6, <2>1, <2>2, <2>3, <2>4, TellHears DEF HInv
<1>7. CASE /\ r # NoRoom
           /\ room' = [room EXCEPT ![r] = Holding(r, Merged(r, m.ups), row.rev + 1)]
           /\ Tell(c, Msg("ack", m.ups, m.ids, FALSE))
           /\ checks' = checks \cup Broadcast(r, Merged(r, m.ups) \ room[r].doc, c, {c})
                \cup IF row.ups \subseteq room[r].doc THEN {}
                     ELSE {[to |-> c, room |-> r, ups |-> row.ups \ room[r].doc, by |-> c]}
           /\ UNCHANGED member
  <2> DEFINE new == Merged(r, m.ups)
             x == Msg("ack", m.ups, m.ids, FALSE)
             own == [to |-> c, room |-> r, ups |-> row.ups \ room[r].doc, by |-> c]
             h == Holding(r, new, row.rev + 1)
             more == new \ room[r].doc
  <2>1. r \in Room  BY <1>1, <1>7, Fields
  <2>2. new \subseteq Update /\ new = row.ups \cup m.ups /\ more \subseteq Update
    BY <1>1, <1>3, Fields DEF Merged
  <2>3. x \in Message /\ x.kind = "ack"
    BY <1>3 DEF Msg, Message
  <2>4. own.to = c /\ own.ups = row.ups \ room[r].doc
    OBVIOUS
  <2>5. h.doc = new
    <3>1. new \in SUBSET Update /\ row.rev + 1 \in Nat  BY <1>1, <2>2, Fields
    <3> HIDE DEF new
    <3> QED  BY <1>1, <2>1, <3>1, FreshRoom
  <2>6. /\ room' = [room EXCEPT ![r] = h] /\ Tell(c, x)
        /\ checks' = checks \cup Broadcast(r, more, c, {c})
                \cup IF row.ups \subseteq room[r].doc THEN {} ELSE {own}
    BY <1>7
  <2> HIDE DEF new, x, own, h, m, more
  <2>7. /\ down'[c] = Append(down[c], x) /\ \A d \in Client \ {c} : down'[d] = down[d]
    BY <1>1, <2>6, ToldAt
  <2>8. \A d \in Client : /\ member[d] = r /\ d # c => \A y \in more : Noted(d, y)'
                          /\ \A y : Noted(d, y) => Noted(d, y)'
    <3>1. checks \cup Broadcast(r, more, c, {c}) \subseteq checks'  BY <2>6
    <3> HIDE DEF r
    <3>2. \A d \in Client : /\ member[d] = r /\ d \notin {c} => \A y \in more : Noted(d, y)'
                            /\ \A y : Noted(d, y) => Noted(d, y)'
      BY <1>1, <2>1, <2>2, <3>1, Spread
    <3> QED  BY <3>2
  <2>9. \A y \in row.ups \ room[r].doc : Noted(c, y)'
    <3> SUFFICES ASSUME NEW y \in row.ups \ room[r].doc PROVE Noted(c, y)'
      OBVIOUS
    <3>1. own \in checks'  BY <2>6
    <3> QED  BY <2>4, <3>1 DEF Noted
  <2>10. \A q \in Room : room'[q] = IF q = r THEN h ELSE room[q]
    <3> HIDE DEF r
    <3> QED  BY <1>1, <2>1, <2>6 DEF ServerTyped
  <2>11. ed' = ed /\ journal' = journal  BY <1>1 DEF client
  <2>12. Hearing(c)'
    <3>1. Present(c)' => Present(c)
      BY <1>1, <1>2, <1>7, PresentBefore DEF m
    <3>2. Present(c)' => m.ups \subseteq ed[c].doc
      <4>1. Mine(c)  BY DEF HInv
      <4> QED  BY <1>1, <1>2, <4>1, AskedIsMine DEF m
    <3>3. Doc(c) = room[r].doc /\ Doc(c)' = new
      BY <1>7, <2>1, <2>5, <2>10 DEF Doc
    <3>4. Present(c)' => /\ Present(c)
                         /\ \A y \in Doc(c)' : y \in Doc(c) \/ y \in ed'[c].doc \/ Noted(c, y)'
      BY <2>2, <2>9, <2>11, <3>1, <3>2, <3>3
    <3>5. Hearing(c)  BY DEF HInv
    <3> QED  BY ONLY <1>1, <2>3, <2>7, <2>8, <2>11, <3>4, <3>5, c \in Client, HearingSent
  <2>13. ASSUME NEW d \in Client, d # c PROVE Hearing(d)'
    <3> PICK q : q = r  OBVIOUS
    <3>1. /\ \A y \in Room : y # q => room'[y].doc = room[y].doc
          /\ member[d] = q => \A y \in room'[q].doc : y \in room[q].doc \/ Noted(d, y)'
          /\ \A y : Noted(d, y) => Noted(d, y)'
          /\ member'[d] = member[d] /\ down'[d] = down[d] /\ up'[d] = up[d]
      <4> HIDE DEF r
      <4> QED  BY <1>2, <1>7, <2>1, <2>5, <2>7, <2>8, <2>10, <2>13 DEF more
    <3> QED  BY <1>1, <3>1, RoomsHear
  <2> QED  BY <1>4, <2>12, <2>13 DEF HInv
<1> QED
  <2> HIDE DEF m
  <2> QED  BY <1>5, <1>6, <1>7 DEF HubUpdate, m

LEMMA HubJoinHears == ASSUME IInv, HInv, NEW c \in Client, HubJoin(c) PROVE HInv'
<1>1. /\ Typed /\ ServerTyped /\ MembersTyped /\ Wired(up) /\ Wired(down)
      /\ Next1(c, "join") /\ UNCHANGED client
  BY Parts DEF HubJoin, IInv
<1>2. /\ up[c] # <<>> /\ up'[c] = Tail(up[c]) /\ Head(up[c]).kind = "join"
      /\ \A d \in Client \ {c} : up'[d] = up[d]
  BY <1>1, TakenAt
<1>3. \A d \in Client : Mine(d)'  BY <1>1, HubMine
<1>4. CASE Level(c) = "none"
  <2>1. Revoke(c, NoRequest) /\ UNCHANGED <<room, checks>>
    BY <1>4 DEF HubJoin
  <2>2. \A d \in Client \ {c} : up'[d] = up[d] /\ \A x : Noted(d, x) => Noted(d, x)'
    BY <1>2, <2>1 DEF Noted
  <2> QED  BY <1>1, <1>3, <2>1, <2>2, RevokeHears DEF HInv
<1>5. CASE Level(c) # "none"
  <2> DEFINE n == conn[c]
             r == JoinRoom(n)
             kept == JoinKept(n)
             now == JoinNow(n)
             behind == row.rev > kept.rev
             more == row.ups \ kept.doc
             x == Msg("joined", now.doc, {}, Level(c) # "write")
  <2>1. /\ mapped[n] # NoRoom \/ \E y \in Room : y[1] = n /\ Unused(y)
        /\ room' = [room EXCEPT ![r] = now]
        /\ checks' = checks \cup IF behind THEN Broadcast(r, more, c, {}) ELSE {}
        /\ \/ UNCHANGED <<member, down>>
           \/ member' = [member EXCEPT ![c] = r] /\ Tell(c, x)
    BY <1>5 DEF HubJoin, JoinRoom, JoinKept, JoinNow
  <2>2. n \in Node  BY <1>1, Taken DEF MembersTyped
  <2>3. /\ r \in Room /\ kept.doc \subseteq row.ups
        /\ now \in Cached /\ now.doc = row.ups /\ (mapped[n] = NoRoom => Unused(r))
        /\ now = IF behind THEN Fresh(r) ELSE kept
        /\ mapped[n] # NoRoom => kept = room[r]
    BY <2>1, <2>2, JoinEffect DEF JoinNow, JoinKept
  <2>4. row.ups \subseteq Update /\ more \subseteq Update  BY <1>1, Fields
  <2>5. x \in Message /\ x.kind = "joined" /\ x.ups = row.ups
    BY <2>3, <2>4 DEF Msg, Message
  <2> HIDE DEF x, now, kept, r, more, behind, n
  <2>6. \A q \in Room : room'[q] = IF q = r THEN now ELSE room[q]
    BY <1>1, <2>1, <2>3 DEF ServerTyped
  <2>7. \A d \in Client : /\ behind /\ member[d] = r => \A y \in more : Noted(d, y)'
                          /\ \A y : Noted(d, y) => Noted(d, y)'
    <3>1. CASE behind
      <4>1. checks \cup Broadcast(r, more, c, {}) \subseteq checks'  BY <2>1, <3>1
      <4>2. \A d \in Client : /\ member[d] = r /\ d \notin {} => \A y \in more : Noted(d, y)'
                              /\ \A y : Noted(d, y) => Noted(d, y)'
        BY <1>1, <2>3, <2>4, <4>1, Spread
      <4> QED  BY <4>2
    <3>2. CASE ~behind
      BY <2>1, <3>2 DEF Noted
    <3> QED  BY <3>1, <3>2
  <2>8. ASSUME NEW d \in Client, member[d] = r, NEW y \in room'[r].doc
        PROVE  y \in room[r].doc \/ Noted(d, y)'
    <3>1. mapped[n] # NoRoom  BY <2>3, <2>8 DEF Unused, Members
    <3>2. kept = room[r] /\ room'[r] = now  BY <2>3, <2>6, <3>1
    <3>3. CASE behind  BY <2>3, <2>7, <2>8, <3>2, <3>3 DEF more
    <3>4. CASE ~behind  BY <2>3, <2>8, <3>2, <3>4
    <3> QED  BY <3>3, <3>4
  <2>9. ASSUME NEW d \in Client, member'[d] = member[d], down'[d] = down[d] PROVE Hearing(d)'
    <3> PICK q : q = r  OBVIOUS
    <3>1. /\ \A y \in Room : y # q => room'[y].doc = room[y].doc
          /\ member[d] = q => \A y \in room'[q].doc : y \in room[q].doc \/ Noted(d, y)'
          /\ \A y : Noted(d, y) => Noted(d, y)'
          /\ up'[d] = up[d] \/ (up[d] # <<>> /\ up'[d] = Tail(up[d]) /\ Head(up[d]).kind # "leave")
      BY <1>2, <2>6, <2>7, <2>8
    <3> QED  BY <1>1, <2>9, <3>1, RoomsHear
  <2>10. CASE UNCHANGED <<member, down>>
    BY <1>3, <2>9, <2>10 DEF HInv
  <2>11. CASE member' = [member EXCEPT ![c] = r] /\ Tell(c, x)
    <3>1. /\ down'[c] = Append(down[c], x) /\ \A d \in Client \ {c} : down'[d] = down[d]
      BY <1>1, <2>11, ToldAt
    <3>2. \A d \in Client : member'[d] = IF d = c THEN r ELSE member[d]
      BY <1>1, <2>11 DEF MembersTyped
    <3>3. Hearing(c)'
      <4>1. Doc(c)' = x.ups  BY <2>3, <2>5, <2>6, <3>2 DEF Doc
      <4> PICK y : y = x  OBVIOUS
      <4> QED  BY <1>1, <2>5, <3>1, <4>1, HearingJoined
    <3> QED  BY <1>3, <2>9, <3>1, <3>2, <3>3 DEF HInv
  <2> QED  BY <2>1, <2>10, <2>11
<1> QED  BY <1>4, <1>5

\* A step of one tab, which has a journal of its own.
Alone(c) ==
  /\ UNCHANGED server
  /\ \A d \in Client \ {c} : ed'[d] = ed[d] /\ up'[d] = up[d] /\ down'[d] = down[d]
  /\ \A u \in User : u # Owner[c] => journal'[u] = journal[u]
\* It sends at most one message, and asks to store only what it shows.
Asking(c) == up'[c] = up[c] \/ \E m \in Message :
  up'[c] = Append(up[c], m) /\ (m.kind = "update" => m.ups \subseteq ed'[c].doc)

LEMMA OthersHear ==
  ASSUME Own, Typed, HInv, NEW c \in Client, Alone(c)
  PROVE  \A d \in Client \ {c} : Mine(d)' /\ Hearing(d)'
<1> TAKE d \in Client \ {c}
<1>1. ed'[d] = ed[d] /\ up'[d] = up[d] /\ down'[d] = down[d] /\ room' = room /\ member' = member /\ checks' = checks
  BY DEF Alone, server
<1>2. journal'[Owner[d]] = journal[Owner[d]]
  BY Owners DEF Own, Alone
<1>3. Mine(d) /\ Hearing(d)  BY DEF HInv
<1>4. Doc(d)' = Doc(d) /\ (Present(d)' => Present(d)) /\ \A x : Noted(d, x) => Noted(d, x)'
  BY <1>1 DEF Doc, Present, Noted
<1>5. Mine(d)'  BY <1>1, <1>3, MineKept
<1>6. Hearing(d)'  BY <1>1, <1>2, <1>3, <1>4, HearingKept
<1> QED  BY <1>5, <1>6

LEMMA AskingKeeps ==
  ASSUME Typed, HInv, NEW c \in Client, member' = member, Asking(c), ed[c].doc \subseteq ed'[c].doc
  PROVE  Mine(c)' /\ (Present(c)' => Present(c))
<1>1. Mine(c) /\ Wired(up)  BY Parts DEF HInv
<1>2. CASE up'[c] = up[c]
  BY <1>1, <1>2, MineKept DEF Present
<1>3. CASE up'[c] # up[c]
  <2>1. PICK m \in Message : up'[c] = Append(up[c], m) /\ (m.kind = "update" => m.ups \subseteq ed'[c].doc)
    BY <1>3 DEF Asking
  <2>2. Mine(c)'  BY <1>1, <2>1, MineAsked
  <2>3. Ran(up[c]) \subseteq Ran(up'[c])
    <3>1. up[c] \in Seq(Message)  BY <1>1 DEF Wired
    <3>2. Ran(Append(up[c], m)) = Ran(up[c]) \cup {m}  BY <3>1, RanAppend
    <3> QED  BY <2>1, <3>2
  <2> QED  BY <2>2, <2>3 DEF Present
<1> QED  BY <1>2, <1>3

\* A step of the tab in which it handles no frame.
LEMMA StillHears ==
  ASSUME Own, Typed, HInv, NEW c \in Client, Alone(c), Asking(c), down'[c] = down[c],
         journal'[Owner[c]].revoked = journal[Owner[c]].revoked,
         ed[c].doc \subseteq ed'[c].doc, ed[c].snap.ups \subseteq ed'[c].snap.ups \cup ed'[c].doc
  PROVE  HInv'
<1>1. room' = room /\ member' = member /\ checks' = checks  BY DEF Alone, server
<1>2. Mine(c)' /\ (Present(c)' => Present(c))  BY <1>1, AskingKeeps
<1>3. Doc(c)' = Doc(c) /\ \A x : Noted(c, x) => Noted(c, x)'  BY <1>1 DEF Doc, Noted
<1>4. Hearing(c)'  BY <1>2, <1>3, HearingKept DEF HInv
<1> QED  BY <1>2, <1>4, OthersHear DEF HInv

\* A step of the tab in which it handles one.
LEMMA HandledHears ==
  ASSUME Own, Typed, HInv, NEW c \in Client, Alone(c), Asking(c), NEW kind, Frame(c, kind),
         ed[c].doc \subseteq ed'[c].doc, ed[c].snap.ups \subseteq ed'[c].snap.ups,
         kind = "joined" => ~journal'[Owner[c]].revoked /\ Head(down[c]).ups \subseteq ed'[c].snap.ups,
         kind = "update" /\ ~journal[Owner[c]].revoked => Head(down[c]).ups \subseteq ed'[c].doc,
         kind \notin {"joined", "revoked"} => journal'[Owner[c]].revoked = journal[Owner[c]].revoked
  PROVE  HInv'
<1>1. room' = room /\ member' = member /\ checks' = checks  BY DEF Alone, server
<1>2. Mine(c)' /\ (Present(c)' => Present(c))  BY <1>1, AskingKeeps
<1>3. Doc(c)' = Doc(c) /\ \A x : Noted(c, x) => Noted(c, x)'  BY <1>1 DEF Doc, Noted
<1>4. down[c] # <<>> /\ down'[c] = Tail(down[c]) /\ Head(down[c]).kind = kind
  BY Parts DEF Frame, Wired
<1>5. Hearing(c)  BY DEF HInv
<1>6. Hearing(c)'  BY <1>2, <1>3, <1>4, <1>5, HearingHandled
<1> QED  BY <1>2, <1>6, OthersHear DEF HInv

LEMMA FramedAlone ==
  ASSUME Typed, NEW c \in Client, NEW kind, Frame(c, kind), UNCHANGED server,
         \A d \in Client \ {c} : ed'[d] = ed[d] /\ up'[d] = up[d],
         \A u \in User : u # Owner[c] => journal'[u] = journal[u]
  PROVE  Alone(c)
<1>1. \A d \in Client \ {c} : down'[d] = down[d]
  BY Parts DEF Frame, Wired
<1> QED  BY <1>1 DEF Alone

LEMMA PushAsks ==
  ASSUME Typed, NEW c \in Client, NEW ups, ups \subseteq Update, NEW ids, ids \subseteq Edit,
         Pushes(c, ups, ids), ups \subseteq ed'[c].doc
  PROVE  Asking(c) /\ \A d \in Client \ {c} : up'[d] = up[d]
<1> DEFINE m == Msg("update", ups, ids, FALSE)
<1>1. m \in Message /\ m.ups = ups  BY DEF Msg, Message
<1>2. up' = [up EXCEPT ![c] = Append(@, m)]  BY DEF Pushes
<1> HIDE DEF m
<1>3. up'[c] = Append(up[c], m) /\ \A d \in Client \ {c} : up'[d] = up[d]
  BY <1>2, Parts DEF Wired
<1> QED  BY <1>1, <1>3 DEF Asking

LEMMA TypeHears == ASSUME Own, IInv, HInv, NEW c \in Client, NEW e \in Edit, Type(c, e) PROVE HInv'
<1>1. Typed /\ TabsTyped  BY Parts DEF IInv
<1>2. /\ ed' = [ed EXCEPT ![c].doc = @ \cup {e}, ![c].saving = Append(@, e)]
      /\ UNCHANGED <<server, journal, up, down>>
  BY DEF Type
<1>3. ed[c] \in Draft  BY <1>1, TabFields
<1> DEFINE v == [ed[c] EXCEPT !.doc = @ \cup {e}, !.saving = Append(@, e)]
<1>4. ed' = [ed EXCEPT ![c] = v]  BY <1>1, <1>2, <1>3 DEF TabsTyped
<1>5. ed[c].doc \subseteq v.doc /\ v.snap = ed[c].snap  BY <1>3 DEF Draft
<1> HIDE DEF v
<1>6. ed'[c] = v /\ \A d \in Client \ {c} : ed'[d] = ed[d]  BY <1>1, <1>4 DEF TabsTyped
<1>7. Alone(c) /\ Asking(c)  BY <1>2, <1>6 DEF Alone, Asking
<1> QED  BY <1>1, <1>2, <1>5, <1>6, <1>7, StillHears

LEMMA SaveHears == ASSUME Own, IInv, HInv, NEW c \in Client, Save(c) PROVE HInv'
<1>1. Typed /\ TabsTyped  BY Parts DEF IInv
<1> DEFINE e == Head(ed[c].saving)
           u == Owner[c]
           j == journal[u]
           saved == [j EXCEPT !.ups = @ \cup {e}, !.pending = @ \cup {e}]
           s == Tail(ed[c].saving)
<1>2. ed[c].saving # <<>> /\ UNCHANGED <<server, down>>
  BY DEF Save
<1>3. ed[c] \in Draft /\ ed[c].saving \in Seq(Edit) /\ u \in User /\ j \in Journal
  BY <1>1, Owners, TabFields, JournalFields
<1>4. e \in Edit /\ s \in Seq(Edit)
  BY <1>2, <1>3, RanTail
<1>5. CASE /\ ed' = [ed EXCEPT ![c].saving = s, ![c].ro = TRUE, ![c].err = "storage"]
           /\ UNCHANGED <<journal, up>>
  <2> DEFINE v == [ed[c] EXCEPT !.saving = s, !.ro = TRUE, !.err = "storage"]
  <2> HIDE DEF s
  <2>1. v.doc = ed[c].doc /\ v.snap = ed[c].snap
    BY <1>3 DEF Draft
  <2>2. ed' = [ed EXCEPT ![c] = v]
    BY <1>1, <1>3, <1>5 DEF TabsTyped
  <2> HIDE DEF v
  <2>3. ed'[c] = v /\ \A d \in Client \ {c} : ed'[d] = ed[d]  BY <1>1, <2>2 DEF TabsTyped
  <2>4. Alone(c) /\ Asking(c)  BY <1>2, <1>5, <2>3 DEF Alone, Asking
  <2> QED  BY <1>1, <1>2, <1>5, <2>1, <2>3, <2>4, StillHears
<1>6. CASE /\ journal' = [journal EXCEPT ![u] = saved]
           /\ ed' = [ed EXCEPT ![c].saving = s, ![c].doc = @ \cup saved.ups]
           /\ Pushes(c, {e}, {e}) \/ UNCHANGED <<pend, up>>
  <2> DEFINE v == [ed[c] EXCEPT !.saving = s, !.doc = @ \cup saved.ups]
  <2>1. e \in saved.ups /\ saved.revoked = j.revoked
    <3> HIDE DEF s, e, j
    <3> QED  BY <1>3 DEF Journal
  <2> HIDE DEF s, e, saved
  <2>2. v.doc = ed[c].doc \cup saved.ups /\ v.snap = ed[c].snap
    BY <1>3 DEF Draft
  <2>3. ed' = [ed EXCEPT ![c] = v]
    BY <1>1, <1>3, <1>6 DEF TabsTyped
  <2> HIDE DEF v
  <2>4. ed'[c] = v /\ \A d \in Client \ {c} : ed'[d] = ed[d]  BY <1>1, <2>3 DEF TabsTyped
  <2>5. journal'[u] = saved /\ \A x \in User : x # u => journal'[x] = journal[x]
    BY <1>1, <1>3, <1>6 DEF TabsTyped
  <2>6. Asking(c) /\ \A d \in Client \ {c} : up'[d] = up[d]
    <3>1. CASE UNCHANGED <<pend, up>>  BY <3>1 DEF Asking
    <3>2. CASE Pushes(c, {e}, {e})
      <4> DEFINE w == {e}
      <4>1. w \subseteq Update /\ w \subseteq Edit /\ Pushes(c, w, w) /\ w \subseteq ed'[c].doc
        BY <1>4, <2>1, <2>2, <2>4, <3>2 DEF Update
      <4> HIDE DEF w
      <4> QED  BY <1>1, <4>1, PushAsks
    <3> QED  BY <1>6, <3>1, <3>2
  <2>7. Alone(c)  BY <1>2, <2>4, <2>5, <2>6 DEF Alone
  <2>8. journal'[Owner[c]].revoked = journal[Owner[c]].revoked  BY <2>1, <2>5
  <2> QED  BY <1>1, <1>2, <2>2, <2>4, <2>6, <2>7, <2>8, StillHears
<1> QED  BY <1>5, <1>6 DEF Save

LEMMA RestoreHears == ASSUME Own, IInv, HInv, NEW c \in Client, Restore(c) PROVE HInv'
<1>1. Typed /\ TabsTyped  BY Parts DEF IInv
<1> DEFINE s == ed[c].snap
           doc == ed[c].doc \cup s.ups
           missing == doc \ s.vector
           due == ~s.ro /\ (missing # {} \/ s.ids # {})
           v == [doc |-> doc, saving |-> ed[c].saving, on |-> TRUE, ro |-> s.ro, view |-> TRUE,
                 unsynced |-> s.vector = {} /\ s.ro, snap |-> NoSnapshot,
                 err |-> IF due \/ s.ids # {} THEN ed[c].err ELSE Cleared(c)]
<1>2. /\ ed' = [ed EXCEPT ![c] = v]
      /\ Pushes(c, missing, s.ids) \/ UNCHANGED <<pend, up>>
      /\ UNCHANGED <<server, journal, down>>
  BY DEF Restore
<1>3. v.doc = doc /\ missing \subseteq doc /\ doc \subseteq Update /\ s.ids \subseteq Edit
  BY <1>1, TabFields
<1> HIDE DEF v
<1>4. ed'[c] = v /\ \A d \in Client \ {c} : ed'[d] = ed[d]  BY <1>1, <1>2 DEF TabsTyped
<1>5. Asking(c) /\ \A d \in Client \ {c} : up'[d] = up[d]
  <2>1. CASE UNCHANGED <<pend, up>>  BY <2>1 DEF Asking
  <2>2. CASE Pushes(c, missing, s.ids)
    <3> DEFINE ids == s.ids
    <3>1. /\ Typed /\ Pushes(c, missing, ids) /\ missing \subseteq Update /\ ids \subseteq Edit
          /\ missing \subseteq ed'[c].doc
      BY <1>1, <1>3, <1>4, <2>2
    <3> HIDE DEF missing, ids
    <3> QED  BY ONLY <3>1, c \in Client, PushAsks
  <2> QED  BY <1>2, <2>1, <2>2
<1>6. Alone(c)  BY <1>2, <1>4, <1>5 DEF Alone
<1>7. /\ ed[c].doc \subseteq ed'[c].doc /\ ed[c].snap.ups \subseteq ed'[c].doc
      /\ down'[c] = down[c] /\ journal'[Owner[c]].revoked = journal[Owner[c]].revoked
  BY <1>2, <1>3, <1>4
<1> QED  BY ONLY Own, HInv, c \in Client, <1>1, <1>5, <1>6, <1>7, StillHears

LEMMA FlushLoadHears == ASSUME Own, IInv, HInv, NEW c \in Client, FlushLoad(c) PROVE HInv'
<1>1. Typed  BY DEF IInv
<1>2. UNCHANGED <<server, ed, journal, up, down>>  BY DEF FlushLoad
<1>3. Alone(c) /\ Asking(c)  BY <1>2 DEF Alone, Asking
<1> QED  BY <1>1, <1>2, <1>3, StillHears

LEMMA FlushPushHears == ASSUME Own, IInv, HInv, NEW c \in Client, FlushPush(c) PROVE HInv'
<1>1. Typed /\ TabsTyped  BY Parts DEF IInv
<1> DEFINE doc == ed[c].doc \cup flush[c].ups
           missing == doc \ journal[Owner[c]].server
           v == [ed[c] EXCEPT !.doc = doc]
           ids == flush[c].ids
<1>2. /\ ed' = [ed EXCEPT ![c].doc = doc]
      /\ Pushes(c, missing, ids) \/ UNCHANGED <<pend, up>>
      /\ UNCHANGED <<server, journal, down>>
  BY DEF FlushPush
<1>3. /\ ed[c] \in Draft /\ doc \subseteq Update /\ ids \subseteq Edit /\ missing \subseteq doc
      /\ ed[c].doc \subseteq doc
  BY <1>1, TabFields
<1> HIDE DEF missing, ids, doc
<1>4. v.doc = doc /\ v.snap = ed[c].snap  BY <1>3 DEF Draft
<1>5. ed' = [ed EXCEPT ![c] = v]  BY <1>1, <1>2, <1>3 DEF TabsTyped
<1> HIDE DEF v
<1>6. ed'[c] = v /\ \A d \in Client \ {c} : ed'[d] = ed[d]  BY <1>1, <1>5 DEF TabsTyped
<1>7. Asking(c) /\ \A d \in Client \ {c} : up'[d] = up[d]
  <2>1. CASE UNCHANGED <<pend, up>>  BY <2>1 DEF Asking
  <2>2. CASE Pushes(c, missing, ids)
    <3>1. missing \subseteq Update /\ missing \subseteq ed'[c].doc  BY <1>3, <1>4, <1>6
    <3> QED  BY ONLY <1>1, <1>3, <2>2, <3>1, c \in Client, PushAsks
  <2> QED  BY <1>2, <2>1, <2>2
<1>8. Alone(c)  BY <1>2, <1>6, <1>7 DEF Alone
<1> QED  BY <1>1, <1>2, <1>3, <1>4, <1>6, <1>7, <1>8, StillHears

LEMMA JoinedHears == ASSUME Own, IInv, HInv, NEW c \in Client, Joined(c) PROVE HInv'
<1>1. Typed /\ TabsTyped /\ Wired(down)  BY Parts DEF IInv
<1> DEFINE m == Head(down[c])
           u == Owner[c]
           j == Checkpoint(journal[u], m.ups)
           s == [at |-> "joined", ids |-> j.pending, ups |-> j.ups, vector |-> m.ups, ro |-> m.flag]
           v == [ed[c] EXCEPT !.snap = s]
<1>2. /\ Frame(c, "joined")
      /\ journal' = [journal EXCEPT ![u] = j]
      /\ ed' = [ed EXCEPT ![c].snap = s]
      /\ UNCHANGED <<server, up>>
  BY DEF Joined
<1>3. m.ups \subseteq Update /\ ed[c].snap.at = "no"  BY <1>1, <1>2, Framed, MessageFields
<1>4. ed[c] \in Draft /\ u \in User /\ journal[u] \in Journal
  BY <1>1, Owners, TabFields, JournalFields
<1>5. m.ups \subseteq j.ups /\ j.revoked = FALSE
  <2> HIDE DEF m, u
  <2> QED  BY <1>3, <1>4, Checkpointed
<1>6. ed[c].snap.ups = {}  BY <1>3, AsBefore, FreshEditor
<1> HIDE DEF j, m
<1>7. s.ups = j.ups  OBVIOUS
<1> HIDE DEF s
<1>8. v.doc = ed[c].doc /\ v.snap = s  BY <1>4 DEF Draft
<1>9. ed' = [ed EXCEPT ![c] = v]  BY <1>1, <1>2, <1>4 DEF TabsTyped
<1> HIDE DEF v
<1>10. ed'[c] = v /\ \A d \in Client \ {c} : ed'[d] = ed[d]  BY <1>1, <1>9 DEF TabsTyped
<1>11. journal'[u] = j /\ \A x \in User : x # u => journal'[x] = journal[x]
  BY <1>1, <1>2, <1>4 DEF TabsTyped
<1>12. Asking(c) /\ Alone(c)  BY <1>1, <1>2, <1>10, <1>11, FramedAlone DEF Asking
<1>13. /\ ed[c].doc \subseteq ed'[c].doc /\ ed[c].snap.ups \subseteq ed'[c].snap.ups
       /\ ~journal'[Owner[c]].revoked /\ Head(down[c]).ups \subseteq ed'[c].snap.ups
  BY <1>5, <1>6, <1>7, <1>8, <1>10, <1>11 DEF m
<1> DEFINE kind == "joined"
<1>14. Frame(c, kind) /\ kind = "joined"  BY <1>2
<1> HIDE DEF kind
<1> QED  BY ONLY Own, HInv, c \in Client, <1>1, <1>12, <1>13, <1>14, HandledHears

LEMMA UpdatedHears == ASSUME Own, IInv, HInv, NEW c \in Client, Updated(c) PROVE HInv'
<1>1. Typed /\ TabsTyped /\ Wired(down)  BY Parts DEF IInv
<1> DEFINE m == Head(down[c])
           u == Owner[c]
           j == journal[u]
           next == IF j.revoked THEN j ELSE Checkpoint(j, m.ups)
           v == IF j.revoked THEN ed[c]
                ELSE [ed[c] EXCEPT !.doc = @ \cup next.ups, !.unsynced = FALSE]
<1>2. /\ Frame(c, "update") /\ journal' = [journal EXCEPT ![u] = next] /\ UNCHANGED <<server, up>>
  BY DEF Updated
<1>3. m.ups \subseteq Update  BY <1>1, <1>2, Framed, MessageFields
<1>4. ed[c] \in Draft /\ u \in User /\ j \in Journal
  BY <1>1, Owners, TabFields, JournalFields
<1>5. ed' = [ed EXCEPT ![c] = v]
  <2>1. CASE j.revoked
    <3>1. v = ed[c] /\ ed' = ed  BY <2>1 DEF Updated
    <3> QED  BY <1>1, <3>1 DEF TabsTyped
  <2>2. CASE ~j.revoked
    <3>1. /\ v = [ed[c] EXCEPT !.doc = @ \cup next.ups, !.unsynced = FALSE]
          /\ ed' = [ed EXCEPT ![c].doc = @ \cup next.ups, ![c].unsynced = FALSE]
      BY <2>2 DEF Updated
    <3> HIDE DEF next
    <3> QED  BY <1>1, <1>4, <3>1 DEF TabsTyped
  <2> QED  BY <2>1, <2>2
<1>6. next.revoked = j.revoked /\ (~j.revoked => m.ups \subseteq next.ups)
  <2> HIDE DEF m, j
  <2>1. CASE j.revoked  BY <2>1
  <2>2. CASE ~j.revoked
    <3>1. j.revoked \in BOOLEAN  BY <1>4 DEF Journal
    <3> QED  BY <1>3, <1>4, <2>2, <3>1, Checkpointed
  <2> QED  BY <2>1, <2>2
<1> HIDE DEF m, next
<1>7. v.snap = ed[c].snap /\ ed[c].doc \subseteq v.doc /\ (~j.revoked => next.ups \subseteq v.doc)
  <2> HIDE DEF j
  <2> QED  BY <1>4 DEF Draft
<1> HIDE DEF v, u, j
<1>8. ed'[c] = v /\ \A d \in Client \ {c} : ed'[d] = ed[d]  BY <1>1, <1>5 DEF TabsTyped
<1>9. journal'[u] = next /\ \A x \in User : x # u => journal'[x] = journal[x]
  BY <1>1, <1>2, <1>4 DEF TabsTyped
<1>10. Asking(c) /\ Alone(c)  BY <1>1, <1>2, <1>8, <1>9, FramedAlone DEF Asking, u
<1>11. /\ ed[c].doc \subseteq ed'[c].doc /\ ed[c].snap.ups \subseteq ed'[c].snap.ups
       /\ journal'[Owner[c]].revoked = journal[Owner[c]].revoked
       /\ ~journal[Owner[c]].revoked => Head(down[c]).ups \subseteq ed'[c].doc
  BY <1>6, <1>7, <1>8, <1>9 DEF m, u, j
<1> DEFINE kind == "update"
<1>12. Frame(c, kind) /\ kind = "update"  BY <1>2
<1> HIDE DEF kind
<1> QED  BY ONLY Own, HInv, c \in Client, <1>1, <1>10, <1>11, <1>12, HandledHears

LEMMA AckedHears == ASSUME Own, IInv, HInv, NEW c \in Client, Acked(c) PROVE HInv'
<1>1. Typed /\ TabsTyped /\ Wired(down)  BY Parts DEF IInv
<1> DEFINE m == Head(down[c])
           u == Owner[c]
           j == journal[u]
           err == IF j.revoked THEN Failed(c) ELSE Cleared(c)
           v == [ed[c] EXCEPT !.err = err]
<1>2. Frame(c, "ack") /\ UNCHANGED <<server, up>>  BY DEF Acked
<1>3. m \in Message  BY <1>1, <1>2, Framed
<1>4. ed[c] \in Draft /\ u \in User /\ j \in Journal
  BY <1>1, Owners, TabFields, JournalFields
<1>5. /\ ed'[c].doc = ed[c].doc /\ ed'[c].snap = ed[c].snap
      /\ \A d \in Client \ {c} : ed'[d] = ed[d]
      /\ journal'[u].revoked = journal[u].revoked /\ \A x \in User : x # u => journal'[x] = journal[x]
  <2>1. CASE UNCHANGED client  BY <2>1 DEF client
  <2>2. CASE ~ UNCHANGED client
    <3>1. /\ ed' = [ed EXCEPT ![c].err = err]
          /\ journal' = journal \/ (~j.revoked /\ journal' = [journal EXCEPT ![u] = Settle(j, m)])
      BY <2>2 DEF Acked
    <3> HIDE DEF m, err
    <3>2. v.doc = ed[c].doc /\ v.snap = ed[c].snap  BY <1>4 DEF Draft
    <3>3. ed' = [ed EXCEPT ![c] = v]  BY <1>1, <1>4, <3>1 DEF TabsTyped
    <3> HIDE DEF v
    <3>4. ed'[c] = v /\ \A d \in Client \ {c} : ed'[d] = ed[d]  BY <1>1, <3>3 DEF TabsTyped
    <3>5. Settle(j, m).revoked = FALSE /\ j.revoked \in BOOLEAN
      <4> HIDE DEF j
      <4> QED  BY <1>3, <1>4, Settled1 DEF Journal
    <3>6. journal'[u].revoked = journal[u].revoked /\ \A x \in User : x # u => journal'[x] = journal[x]
      BY <1>1, <1>4, <3>1, <3>5 DEF TabsTyped
    <3> QED  BY <3>2, <3>4, <3>6
  <2> QED  BY <2>1, <2>2
<1>6. Asking(c) /\ Alone(c)  BY <1>1, <1>2, <1>5, FramedAlone DEF Asking
<1> DEFINE kind == "ack"
<1>7. Frame(c, kind) /\ kind \notin {"joined", "update", "revoked"}  BY <1>2
<1> HIDE DEF kind
<1> QED  BY <1>1, <1>5, <1>6, <1>7, HandledHears

LEMMA RefusedHears == ASSUME Own, IInv, HInv, NEW c \in Client, Refused(c) PROVE HInv'
<1>1. Typed /\ TabsTyped  BY Parts DEF IInv
<1> DEFINE flag == Head(down[c]).flag
           v == [ed[c] EXCEPT !.err = Failed(c), !.ro = @ \/ flag]
<1>2. /\ Frame(c, "error") /\ ed' = [ed EXCEPT ![c].err = Failed(c), ![c].ro = @ \/ flag]
      /\ UNCHANGED <<server, journal, up>>
  BY DEF Refused
<1>3. ed[c] \in Draft  BY <1>1, TabFields
<1> HIDE DEF flag
<1>4. v.doc = ed[c].doc /\ v.snap = ed[c].snap  BY <1>3 DEF Draft
<1>5. ed' = [ed EXCEPT ![c] = v]  BY <1>1, <1>2, <1>3 DEF TabsTyped
<1> HIDE DEF v
<1>6. ed'[c] = v /\ \A d \in Client \ {c} : ed'[d] = ed[d]  BY <1>1, <1>5 DEF TabsTyped
<1>7. Asking(c) /\ Alone(c)  BY <1>1, <1>2, <1>6, FramedAlone DEF Asking
<1> DEFINE kind == "error"
<1>8. Frame(c, kind) /\ kind \notin {"joined", "update", "revoked"}  BY <1>2
<1> HIDE DEF kind
<1> QED  BY <1>1, <1>2, <1>4, <1>6, <1>7, <1>8, HandledHears

LEMMA PermittedHears == ASSUME Own, IInv, HInv, NEW c \in Client, Permitted(c) PROVE HInv'
<1>1. Typed /\ TabsTyped /\ Wired(up)  BY Parts DEF IInv
<1> DEFINE ro == Head(down[c]).flag
           m == Msg("join", {}, {}, FALSE)
           v == [ed[c] EXCEPT !.ro = ro]
<1>2. Frame(c, "permission") /\ UNCHANGED <<server, journal>>
  BY DEF Permitted
<1>3. ed[c] \in Draft  BY <1>1, TabFields
<1>4. /\ ed'[c].doc = ed[c].doc /\ ed'[c].snap = ed[c].snap
      /\ \A d \in Client \ {c} : ed'[d] = ed[d] /\ up'[d] = up[d]
      /\ Asking(c)
  <2>1. CASE up' = [up EXCEPT ![c] = Append(@, m)] /\ UNCHANGED ed
    <3>1. m \in Message /\ m.kind = "join"  BY DEF Msg, Message
    <3> HIDE DEF m
    <3>2. up'[c] = Append(up[c], m) /\ \A d \in Client \ {c} : up'[d] = up[d]
      BY <1>1, <2>1 DEF Wired
    <3> QED  BY <2>1, <3>1, <3>2 DEF Asking
  <2>2. CASE ed' = [ed EXCEPT ![c].ro = ro] /\ UNCHANGED up
    <3> HIDE DEF ro
    <3>1. v.doc = ed[c].doc /\ v.snap = ed[c].snap  BY <1>3 DEF Draft
    <3>2. ed' = [ed EXCEPT ![c] = v]  BY <1>1, <1>3, <2>2 DEF TabsTyped
    <3> HIDE DEF v
    <3>3. ed'[c] = v /\ \A d \in Client \ {c} : ed'[d] = ed[d]  BY <1>1, <3>2 DEF TabsTyped
    <3> QED  BY <2>2, <3>1, <3>3 DEF Asking
  <2> QED  BY <2>1, <2>2 DEF Permitted
<1>5. Alone(c)  BY <1>1, <1>2, <1>4, FramedAlone
<1> DEFINE kind == "permission"
<1>6. Frame(c, kind) /\ kind \notin {"joined", "update", "revoked"}  BY <1>2
<1> HIDE DEF kind
<1> QED  BY <1>1, <1>2, <1>4, <1>5, <1>6, HandledHears

LEMMA RevokedHears == ASSUME Own, IInv, HInv, NEW c \in Client, Revoked(c) PROVE HInv'
<1>1. Typed /\ TabsTyped  BY Parts DEF IInv
<1> DEFINE locked == [Empty EXCEPT !.revoked = TRUE]
           v == [ed[c] EXCEPT !.ro = TRUE, !.on = FALSE, !.view = FALSE, !.err = Failed(c)]
<1>2. /\ Frame(c, "revoked")
      /\ ed' = [ed EXCEPT ![c].ro = TRUE, ![c].on = FALSE, ![c].view = FALSE, ![c].err = Failed(c)]
      /\ journal' = [journal EXCEPT ![Owner[c]] = locked]
      /\ UNCHANGED <<server, up>>
  BY DEF Revoked
<1>3. ed[c] \in Draft  BY <1>1, TabFields
<1>4. v.doc = ed[c].doc /\ v.snap = ed[c].snap  BY <1>3 DEF Draft
<1>5. ed' = [ed EXCEPT ![c] = v]  BY <1>1, <1>2, <1>3 DEF TabsTyped
<1> HIDE DEF v, locked
<1>6. ed'[c] = v /\ \A d \in Client \ {c} : ed'[d] = ed[d]  BY <1>1, <1>5 DEF TabsTyped
<1>7. \A x \in User : x # Owner[c] => journal'[x] = journal[x]
  BY <1>1, <1>2, Owners DEF TabsTyped
<1>8. Asking(c) /\ Alone(c)  BY <1>1, <1>2, <1>6, <1>7, FramedAlone DEF Asking
<1> DEFINE kind == "revoked"
<1>9. Frame(c, kind) /\ kind = "revoked"  BY <1>2
<1> HIDE DEF kind
<1> QED  BY <1>1, <1>4, <1>6, <1>8, <1>9, HandledHears

LEMMA TimeoutHears == ASSUME Own, IInv, HInv, NEW c \in Client, Timeout(c) PROVE HInv'
<1>1. Typed /\ TabsTyped  BY Parts DEF IInv
<1> DEFINE v == [ed[c] EXCEPT !.err = Failed(c)]
<1>2. ed' = [ed EXCEPT ![c].err = Failed(c)] /\ UNCHANGED <<server, journal, up, down>>
  BY DEF Timeout
<1>3. ed[c] \in Draft  BY <1>1, TabFields
<1>4. v.doc = ed[c].doc /\ v.snap = ed[c].snap  BY <1>3 DEF Draft
<1>5. ed' = [ed EXCEPT ![c] = v]  BY <1>1, <1>2, <1>3 DEF TabsTyped
<1> HIDE DEF v
<1>6. ed'[c] = v /\ \A d \in Client \ {c} : ed'[d] = ed[d]  BY <1>1, <1>5 DEF TabsTyped
<1>7. Asking(c) /\ Alone(c)  BY <1>2, <1>6 DEF Asking, Alone
<1> QED  BY <1>1, <1>2, <1>4, <1>6, <1>7, StillHears

LEMMA ConnectHears == ASSUME Own, IInv, HInv, NEW c \in Client, NEW n \in Node, Connect(c, n) PROVE HInv'
<1>1. Typed /\ Wired(up)  BY Parts DEF IInv
<1> DEFINE m == Msg("join", {}, {}, FALSE)
<1>2. /\ conn[c] = None /\ up' = [up EXCEPT ![c] = <<m>>]
      /\ UNCHANGED <<server, client, down>>
  BY DEF Connect
<1>3. m.kind = "join"  BY DEF Msg
<1> HIDE DEF m
<1>4. up'[c] = <<m>> /\ \A d \in Client \ {c} : up'[d] = up[d]  BY <1>1, <1>2 DEF Wired
<1>5. Alone(c)  BY <1>2, <1>4 DEF Alone, client
<1>6. Mine(c)'
  <2>1. \A i \in DOMAIN <<m>> : <<m>>[i] = m  OBVIOUS
  <2> QED  BY <1>3, <1>4, <2>1, MineNone
<1>7. Hearing(c)'
  <2>1. member[c] = NoRoom  BY <1>1, <1>2, Rooms, CollabAssumption, Fields
  <2> QED  BY <1>2, <2>1 DEF server, Hearing, Present
<1> QED  BY <1>1, <1>5, <1>6, <1>7, OthersHear DEF HInv

LEMMA PairAt ==
  ASSUME NEW S, NEW s \in Seq(S), NEW x \in S, NEW y \in S
  PROVE  /\ Len(s) + 1 \in DOMAIN (s \o <<x, y>>) /\ (s \o <<x, y>>)[Len(s) + 1] = x
         /\ \A i \in DOMAIN (s \o <<x, y>>) :
              i < Len(s) + 1 \/ (s \o <<x, y>>)[i] \in {x, y}
OBVIOUS

LEMMA ReopenHears == ASSUME Own, IInv, HInv, NEW c \in Client, Reopen(c) PROVE HInv'
<1>1. Typed /\ Wired(up) /\ TabsTyped  BY Parts DEF IInv
<1> DEFINE x == Msg("leave", {}, {}, FALSE)
           y == Msg("join", {}, {}, FALSE)
<1>2. /\ up' = [up EXCEPT ![c] = @ \o <<x, y>>] /\ ed' = [ed EXCEPT ![c] = Editor]
      /\ UNCHANGED <<server, journal, down>>
  BY DEF Reopen
<1>3. x \in Message /\ y \in Message /\ x.kind = "leave" /\ y.kind = "join"
  BY DEF Msg, Message
<1> HIDE DEF x, y
<1>4. up[c] \in Seq(Message) /\ up'[c] = up[c] \o <<x, y>> /\ \A d \in Client \ {c} : up'[d] = up[d]
  BY <1>1, <1>2 DEF Wired
<1> PICK k : k = Len(up[c]) + 1  OBVIOUS
<1>5. /\ k \in DOMAIN up'[c] /\ up'[c][k] = x
      /\ \A i \in DOMAIN up'[c] : i < k \/ up'[c][i] \in {x, y}
  BY <1>3, <1>4, PairAt
<1>6. \A i \in DOMAIN up'[c] : i < k => k > i
  BY <1>4
<1>7. Mine(c)'
  BY <1>3, <1>5, <1>6 DEF Mine
<1>8. Hearing(c)'
  BY <1>3, <1>5 DEF Hearing, Present, Ran
<1>9. Alone(c)  BY <1>1, <1>2, <1>4 DEF Alone, TabsTyped
<1> QED  BY <1>1, <1>7, <1>8, <1>9, OthersHear DEF HInv

LEMMA HangupHears ==
  ASSUME IInv, HInv, NEW c \in Client, Hangup(c), \A d \in Client \ {c} : ed'[d] = ed[d]
  PROVE  HInv'
<1>1. Typed /\ ServerTyped /\ Wired(up) /\ Wired(down)  BY Parts DEF IInv
<1> DEFINE open == {k \in checks : k.to # c}
           note(k) == [k EXCEPT !.by = IF @ = c THEN "nobody" ELSE @]
<1>2. /\ up' = [up EXCEPT ![c] = <<>>] /\ down' = [down EXCEPT ![c] = <<>>]
      /\ Leave(c) /\ checks' = {note(k) : k \in open} /\ UNCHANGED <<room, journal>>
  BY DEF Hangup
<1>3. \A d \in Client : member'[d] = IF d = c THEN NoRoom ELSE member[d]
  BY <1>1, <1>2, LeaveEffect
<1>4. /\ up'[c] = <<>>
      /\ \A d \in Client \ {c} : up'[d] = up[d] /\ down'[d] = down[d]
  BY <1>1, <1>2 DEF Wired
<1>5. ASSUME NEW d \in Client \ {c}, NEW x, Noted(d, x) PROVE Noted(d, x)'
  <2>1. PICK k \in checks : k.to = d /\ x \in k.ups  BY <1>5 DEF Noted
  <2>2. k \in Notice  BY <1>1 DEF ServerTyped
  <2>3. note(k).to = k.to /\ note(k).ups = k.ups  BY <2>2 DEF Notice
  <2>4. note(k) \in checks'
    <3> HIDE DEF note
    <3> QED  BY <1>2, <2>1
  <2> HIDE DEF note
  <2> QED  BY <2>1, <2>3, <2>4 DEF Noted
<1>6. Mine(c)' /\ Hearing(c)'
  BY <1>3, <1>4 DEF Mine, Hearing, Present
<1>7. ASSUME NEW d \in Client \ {c} PROVE Mine(d)' /\ Hearing(d)'
  <2>1. Doc(d)' = Doc(d) /\ (Present(d)' => Present(d))
    BY <1>2, <1>3, <1>4 DEF Doc, Present
  <2>2. Mine(d) /\ Hearing(d)  BY DEF HInv
  <2>3. Mine(d)'  BY <1>4, <2>2, MineKept
  <2>4. Hearing(d)'  BY <1>1, <1>2, <1>4, <1>5, <2>1, <2>2, HearingKept
  <2> QED  BY <2>3, <2>4
<1> QED  BY <1>6, <1>7 DEF HInv

LEMMA HearsSame ==
  ASSUME HInv, UNCHANGED <<room, member, checks, ed, journal, up, down>>
  PROVE  HInv'
BY DEF HInv, Mine, Hearing, Present, Follows, Rejoins, Doc, Noted, Coming, Clean

LEMMA HearsInit == Init => HInv
BY DEF Init, HInv, Mine, Hearing, Present

LEMMA HearsStays == Own /\ IInv /\ HInv /\ [Next]_vars => HInv'
<1> SUFFICES ASSUME Own, IInv, HInv, [Next]_vars PROVE HInv'
  OBVIOUS
<1>1. TabsTyped  BY Parts DEF IInv
<1>2. CASE Hub
  <2>1. ASSUME NEW c \in Client,
               HubJoin(c) \/ HubSeed(c) \/ HubAdd(c) \/ HubUpdate(c) \/ HubLeave(c) \/ Sweep(c)
        PROVE  HInv'
    BY <2>1, HubJoinHears, HubSeedHears, HubAddHears, HubUpdateHears, HubLeaveHears, SweepHears
  <2> QED  BY <1>2, <2>1, CheckHears, HubAddClosedHears, ClusterEventHears DEF Hub
<1>3. CASE Tab
  <2>1. ASSUME NEW c \in Client, (\E n \in Node : Connect(c, n)) \/ \E e \in Edit : Type(c, e) PROVE HInv'
    BY <2>1, ConnectHears, TypeHears
  <2>2. ASSUME NEW c \in Client, Save(c) \/ Joined(c) \/ Restore(c) \/ Updated(c) \/ Acked(c) PROVE HInv'
    BY <2>2, SaveHears, JoinedHears, RestoreHears, UpdatedHears, AckedHears
  <2>3. ASSUME NEW c \in Client, Refused(c) \/ Permitted(c) \/ Revoked(c) \/ FlushLoad(c) \/ FlushPush(c)
        PROVE  HInv'
    BY <2>3, RefusedHears, PermittedHears, RevokedHears, FlushLoadHears, FlushPushHears
  <2> QED  BY <1>3, <2>1, <2>2, <2>3 DEF Tab
<1>4. CASE Environment
  <2>1. ASSUME NEW c \in Client, Drop(c) \/ Reload(c) PROVE HInv'
    <3>1. Hangup(c)  BY <2>1 DEF Drop, Reload
    <3>2. \A d \in Client \ {c} : ed'[d] = ed[d]  BY <1>1, <2>1 DEF Drop, Reload, TabsTyped
    <3> QED  BY <3>1, <3>2, HangupHears
  <2>2. ASSUME NEW c \in Client, Reopen(c) \/ Timeout(c) PROVE HInv'
    BY <2>2, ReopenHears, TimeoutHears
  <2>3. ASSUME NEW u \in User, ChangeAccess(u) PROVE HInv'
    <3>1. UNCHANGED <<room, member, checks, ed, journal, up, down>>
      BY <2>3 DEF ChangeAccess, server, client
    <3> QED  BY <3>1, HearsSame
  <2> QED  BY <1>4, <2>1, <2>2, <2>3 DEF Environment
<1>5. CASE UNCHANGED vars
  <2>1. UNCHANGED <<room, member, checks, ed, journal, up, down>>
    BY <1>5 DEF vars, server, client
  <2> QED  BY <2>1, HearsSame
<1> QED  BY <1>2, <1>3, <1>4, <1>5 DEF Next

-----------------------------------------------------------------------------
(* The theorems.                                                               *)

LEMMA AtMostOne ==
  ASSUME NEW s, NEW x, s \subseteq {x}
  PROVE  Cardinality(s) <= 1 /\ (s = {x} => Cardinality(s) = 1)
<1>1. Cardinality({x}) = 1  BY FS_Singleton
<1>2. Cardinality({}) = 0  BY FS_EmptySet
<1>3. s = {} \/ s = {x}  OBVIOUS
<1> QED  BY <1>1, <1>2, <1>3

LEMMA SeedsOne == IInv => SeededOnce
<1> SUFFICES ASSUME IInv PROVE SeededOnce
  OBVIOUS
<1>1. Typed /\ row.rev \in Nat  BY Fields DEF IInv
<1>2. row.ups # {} => row.rev > 0  BY <1>1 DEF IInv, Pristine
<1>3. PICK x : row.ups \cap Client \subseteq {x} /\ (row.ups # {} => row.ups \cap Client = {x})
  <2>1. CASE row.ups = {}  BY <2>1
  <2>2. CASE row.ups # {}  BY <1>2, <2>2 DEF IInv, OneSeed
  <2> QED  BY <2>1, <2>2
<1>4. \A ups : ups \subseteq row.ups \cup Edit => ups \cap Client \subseteq {x}
  BY <1>3, CollabAssumption
<1>5. row.ups # {} => Cardinality(row.ups \cap Client) = 1
  BY <1>3, AtMostOne
<1>6. ASSUME NEW c \in Client PROVE Cardinality(ed[c].doc \cap Client) <= 1
  <2>1. ed[c].doc \subseteq row.ups \cup Edit  BY LocalEdits
  <2> QED  BY <1>4, <2>1, AtMostOne
<1>7. ASSUME NEW u \in User PROVE Cardinality(journal[u].ups \cap Client) <= 1
  <2>1. journal[u].ups \subseteq row.ups \cup Edit
    BY <1>1, JournalFields DEF IInv, JournalTruthful
  <2> QED  BY <1>4, <2>1, AtMostOne
<1> QED  BY <1>5, <1>6, <1>7 DEF SeededOnce

LEMMA Shown == IInv /\ HInv => Converged
<1> SUFFICES ASSUME IInv, HInv, Settled, NEW c \in Client,
                    conn[c] # None, member[c] # NoRoom, member[c] = mapped[conn[c]]
             PROVE  row.ups \subseteq ed[c].doc
  BY DEF Converged
<1>1. Typed /\ RoomsFresh  BY DEF IInv
<1>2. /\ checks = {} /\ stale = {} /\ up[c] = <<>> /\ down[c] = <<>> /\ ed[c].snap.at = "no"
  BY DEF Settled
<1>3. conn[c] \in Node /\ member[c] \in Room  BY <1>1, Fields, Parts DEF MembersTyped
<1>4. Doc(c) = row.ups
  <2> PICK r : r = member[c]  OBVIOUS
  <2>1. r \in Room /\ room[r].rev \in Nat /\ row.rev \in Nat /\ room[r].rev <= row.rev
    BY <1>1, <1>3, Fields
  <2>2. ~ (room[r].rev < row.rev)
    BY <1>1, <1>2, <1>3 DEF RoomsFresh
  <2>3. room[r].rev = row.rev  BY <2>1, <2>2
  <2> QED  BY <1>1, <2>1, <2>3 DEF RoomsFresh, Doc
<1>5. Present(c)  BY <1>2, RanEmpty DEF Present
<1>6. Follows(c)  BY <1>2, <1>5 DEF HInv, Hearing, Rejoins
<1>7. ed[c].snap.ups = {}  BY <1>2, AsBefore, FreshEditor
<1> QED  BY <1>2, <1>4, <1>6, <1>7 DEF Follows, Coming, Noted

\* The variables keep their types, a cached room is never ahead of the row, and a
\* connection's room and a process's map entry belong to the process.
THEOREM TypeCorrect == Spec => []TypeOK
<1>1. IInv => TypeOK  BY DEF IInv, Typed
<1> QED  BY <1>1, Invariant, PTL

\* However acknowledgements are lost, late or doubled, and tabs reload: what a
\* journal counts as stored is stored, and what it does not is pending.
THEOREM JournalTells == Spec => []JournalTruthful
<1>1. IInv => JournalTruthful  BY DEF IInv
<1> QED  BY <1>1, Invariant, PTL

\* Whoever races to create the document, on whatever process, one seed is stored,
\* and no editor and no journal ever holds two.
THEOREM OneOrigin == Spec => []SeededOnce
BY Invariant, SeedsOne, PTL

\* Where every tab has its own journal, a flush that returns after an
\* acknowledgement, or with nothing to send, leaves nothing of the document unstored.
THEOREM FlushStores == ASSUME Own PROVE Spec => []FlushedIsStored
<1>1. IInv /\ FInv /\ [Next]_vars => FInv'  BY FlushStays
<1>2. FInv => FlushedIsStored  BY DEF FInv
<1> QED  BY <1>1, <1>2, FlushInit, Invariant, PTL DEF Spec

\* There too, all the members of a room in the map show what is stored once
\* nothing is under way, on whatever process it was stored.
THEOREM OneDocumentKept == ASSUME Own PROVE Spec => []OneDocument
<1>1. IInv /\ HInv /\ [Next]_vars => HInv'  BY HearsStays
<1>2. IInv /\ HInv => OneDocument  BY SeedsOne, Shown DEF OneDocument
<1> QED  BY <1>1, <1>2, HearsInit, Invariant, PTL DEF Spec
=============================================================================
