------------------------------- MODULE Collab -------------------------------
(* One collaboratively edited draft: the RealtimeHub of each backend process  *)
(* (backend/realtime.js) over the shared table collaboration_documents, and   *)
(* the browser's LiveClient with its IndexedDB journal (public/collab.js,     *)
(* public/collab-store.js).  A Yjs document is the set of updates it holds:   *)
(* merging is union.  Sockets drop, answers are lost, tabs reload, access is  *)
(* revoked and given back, and the hub of one process learns of another's     *)
(* commits only through the cluster event log (module ClusterEvents).         *)
EXTENDS Naturals, Sequences, FiniteSets

CONSTANTS Node,        \* backend processes
          Client,      \* browser tabs, each with one editor on the draft
          User,        \* identities: tabs of one identity share a journal
          Owner,       \* the identity of each tab
          Edit,        \* the local edits that may be made
          Slot,        \* bound: room objects alive at once per process
          MaxFaults,   \* bound: drops, timeouts, reloads, changes of access
          MaxQueue     \* bound: messages queued in one direction of a socket

VARIABLES
  row,      \* the document's row: its updates and revision (0: no row)
  room,     \* cached room objects of every process
  mapped,   \* hub.rooms: the room object a process has in its map, if any
  member,   \* client.rooms: the room object a connection has joined, if any
  joining,  \* a join suspended in its handler, with the room it holds
  late,     \* rooms held by a suspended join whose connection has closed
  checks,   \* broadcasts waiting for the recipient's authorization
  stale,    \* processes that have a collaboration event still to read
  access,   \* what each identity may do with the draft
  conn,     \* the process each tab's socket is connected to, if any
  up, down, \* the two directions of each socket
  ed,       \* each tab's editor
  journal,  \* the IndexedDB record of each identity
  pend,     \* LiveClient.pending: requests that wait for their answer
  flush,    \* a flush in progress
  unstored, \* history: what a flush has returned that was not stored
  unsent,   \* history: the same of a flush whose push had no connection
  erased,   \* history: edits that a withdrawal of access took off the journal
  base,     \* the updates each edit was made upon
  faults

server == <<row, room, mapped, member, joining, late, checks, stale>>
client == <<ed, journal, pend, flush, unstored, unsent, erased, base>>
vars == <<server, client, access, conn, up, down, faults>>

-----------------------------------------------------------------------------
None == "none"
ASSUME CollabAssumption ==
  /\ Owner \in [Client -> User]
  /\ Edit \cap Client = {} /\ None \notin Node
  /\ MaxFaults \in Nat /\ MaxQueue \in Nat \ {0}

Update == Edit \cup Client     \* a client's name stands for the seed of its tab
Row == [ups: SUBSET Update, rev: Nat]
Room == Node \X Slot
NoRoom == <<None, 0>>
Cached == [doc: SUBSET Update, rev: Nat, ghost: BOOLEAN]
Blank == [doc |-> {}, rev |-> 0, ghost |-> FALSE]
Joining == [at: {"no", "add", "seed"}, room: Room \cup {NoRoom}, writable: BOOLEAN]
NotJoining == [at |-> "no", room |-> NoRoom, writable |-> FALSE]
Notice == [to: Client, room: Room, ups: SUBSET Update, by: Client \cup {"nobody"}]
Request == [ids: SUBSET Edit, ups: SUBSET Update]
Message == [kind: {"join", "leave", "update", "joined", "ack", "error", "revoked", "permission"},
            ups: SUBSET Update, ids: SUBSET Edit, flag: BOOLEAN]
Msg(kind, ups, ids, flag) == [kind |-> kind, ups |-> ups, ids |-> ids, flag |-> flag]
Flush == [at: {"no", "loaded", "pushed"}, ids: SUBSET Edit, ups: SUBSET Update]
Quiet == [at |-> "no", ids |-> {}, ups |-> {}]
Snapshot == [at: {"no", "joined"}, ids: SUBSET Edit, ups: SUBSET Update,
             vector: SUBSET Update, ro: BOOLEAN]
NoSnapshot == [at |-> "no", ids |-> {}, ups |-> {}, vector |-> {}, ro |-> FALSE]
\* err: no error; lastError, which an acknowledgement clears; storageError, for good.
Draft == [doc: SUBSET Update, saving: Seq(Edit), on: BOOLEAN, ro: BOOLEAN, view: BOOLEAN,
          unsynced: BOOLEAN, err: {"no", "last", "storage"}, snap: Snapshot]
Editor == [doc |-> {}, saving |-> <<>>, on |-> FALSE, ro |-> TRUE, view |-> FALSE,
           unsynced |-> FALSE, err |-> "no", snap |-> NoSnapshot]
Journal == [ups: SUBSET Update, server: SUBSET Update, pending: SUBSET Edit, revoked: BOOLEAN]
Empty == [ups |-> {}, server |-> {}, pending |-> {}, revoked |-> FALSE]

Members(r) == {c \in Client : member[c] = r}
Level(c) == access[Owner[c]]
\* An edit refers to the structures it was made next to: without them Yjs
\* keeps it pending, and validateDocument refuses the document.
Complete(ups) == \A e \in ups \cap Edit : base[e] \subseteq ups

Unused(r) == /\ mapped[r[1]] # r /\ Members(r) = {} /\ r \notin late
             /\ \A c \in Client : joining[c].room # r
             /\ \A k \in checks : k.room # r
\* Broadcast ups to the members of r other than those in except.
Broadcast(r, ups, by, except) ==
  {[to |-> c, room |-> r, ups |-> ups, by |-> by] : c \in Members(r) \ except}

Init ==
  /\ row = [ups |-> {}, rev |-> 0]
  /\ room = [r \in Room |-> Blank] /\ mapped = [n \in Node |-> NoRoom]
  /\ member = [c \in Client |-> NoRoom]
  /\ joining = [c \in Client |-> NotJoining]
  /\ late = {} /\ checks = {} /\ stale = {}
  /\ access \in [User -> {"read", "write"}]
  /\ conn = [c \in Client |-> None]
  /\ up = [c \in Client |-> <<>>] /\ down = [c \in Client |-> <<>>]
  /\ ed = [c \in Client |-> Editor] /\ journal = [u \in User |-> Empty]
  /\ pend = [c \in Client |-> {}] /\ flush = [c \in Client |-> Quiet]
  /\ unstored = {} /\ unsent = {} /\ erased = {}
  /\ base = [e \in Edit |-> {}] /\ faults = 0

Tell(c, m) == /\ Len(down[c]) < MaxQueue
              /\ down' = [down EXCEPT ![c] = Append(@, m)]

-----------------------------------------------------------------------------
(* The hub of one process.  A handler runs without interruption from one      *)
(* await to the next; Idle(n) says that process n is not inside the stretch   *)
(* of a join between its read of the row and its write transaction, which     *)
(* only other processes can enter.                                            *)

Idle(n) == \A c \in Client : conn[c] = n => joining[c].at # "seed"

\* The messages of one connection are handled in order, one at a time.
Next1(c, kind) ==
  /\ conn[c] # None /\ Idle(conn[c]) /\ joining[c].at = "no"
  /\ \A k \in checks : k.by # c
  /\ up[c] # <<>> /\ Head(up[c]).kind = kind
  /\ up' = [up EXCEPT ![c] = Tail(@)]

\* leave: the last one out deletes the document's entry in the map, whichever
\* room object it holds by then.
AfterLeave(c) ==
  LET r == member[c] IN
  IF r = NoRoom \/ Members(r) # {c} \/ room[r].ghost THEN mapped
  ELSE [mapped EXCEPT ![r[1]] = NoRoom]
Leave(c) == /\ member' = [member EXCEPT ![c] = NoRoom]
            /\ mapped' = AfterLeave(c)

\* revokeScope, and the refusals of handle: the room is left, the tab is told.
Revoke(c, m) == Leave(c) /\ Tell(c, Msg("revoked", m.ups, m.ids, FALSE))
NoRequest == [ups |-> {}, ids |-> {}]

\* refreshRoom: a newer row replaces the cached document.
NewerNever(r) == room[r].rev = 0 /\ row.rev > 0
Newer(r) == row.rev > room[r].rev
\* persist merges into the row it reads in its transaction, never into the
\* cache; a first state is applied only if there is no row.
MergedFromCache(r, ups) == room[r].doc \cup ups
Merged(r, ups) == row.ups \cup ups
First(r) == row.rev = 0
Holding(r, ups, rev) == [doc |-> ups, rev |-> rev, ghost |-> room[r].ghost]
Fresh(r) == Holding(r, row.ups, row.rev)

\* The commit's trigger records an event for every process.  Where it finds no
\* room, or the room that made it, it changes nothing and is left out.
Announce(r) == stale' = stale \cup {n \in Node : mapped[n] \notin {NoRoom, r}}

\* room() and the synchronous stretch of join up to its first suspension: at
\* a broadcast of what the refresh brought, or before the transaction that
\* stores the tab's seed as the first state of the document.
HubJoin(c) ==
  /\ Next1(c, "join")
  /\ IF Level(c) = "none" THEN /\ Revoke(c, NoRequest)
                               /\ UNCHANGED <<row, room, joining, checks, stale>>
     ELSE LET n == conn[c]
              r == IF mapped[n] # NoRoom THEN mapped[n]
                   ELSE CHOOSE x \in Room : x[1] = n /\ Unused(x)
              kept == IF mapped[n] # NoRoom THEN room[r]
                      ELSE [doc |-> row.ups, rev |-> row.rev, ghost |-> FALSE]
              behind == row.rev > kept.rev
              initialized == kept.rev > 0 \/ behind
              now == IF behind THEN Fresh(r) ELSE kept
          IN /\ mapped[n] # NoRoom \/ \E x \in Room : x[1] = n /\ Unused(x)
             /\ room' = [room EXCEPT ![r] = now]
             /\ mapped' = [mapped EXCEPT ![n] = r]
             /\ checks' = checks \cup IF behind THEN Broadcast(r, row.ups \ kept.doc, c, {}) ELSE {}
             /\ IF behind \/ (~initialized /\ Level(c) = "write")
                THEN /\ joining' = [joining EXCEPT ![c] =
                          [at |-> IF behind THEN "add" ELSE "seed", room |-> r,
                           writable |-> Level(c) = "write"]]
                     /\ UNCHANGED <<member, down>>
                ELSE /\ member' = [member EXCEPT ![c] = r]
                     /\ Tell(c, Msg("joined", now.doc, {}, Level(c) # "write"))
                     /\ UNCHANGED joining
             /\ UNCHANGED <<row, stale>>
  /\ UNCHANGED <<late, access, conn, client, faults>>

\* persist with initialize, which checks access again: only the transaction
\* that creates the row applies its seed, and the join goes on at once; if
\* another process has created it since it was read, that state is sent first.
HubSeed(c) ==
  /\ joining[c].at = "seed"
  /\ LET r == joining[c].room IN
     IF Level(c) # "write"
     THEN /\ joining' = [joining EXCEPT ![c] = NotJoining]
          /\ Tell(c, Msg("error", {}, {}, TRUE))
          /\ UNCHANGED <<row, room, member, stale, checks>>
     ELSE IF First(r)
     THEN /\ row' = [ups |-> Merged(r, {c}), rev |-> row.rev + 1] /\ Announce(r)
          /\ room' = [room EXCEPT ![r] = Holding(r, Merged(r, {c}), row.rev + 1)]
          /\ joining' = [joining EXCEPT ![c] = NotJoining]
          /\ member' = [member EXCEPT ![c] = r]
          /\ Tell(c, Msg("joined", Merged(r, {c}), {}, FALSE))
          /\ checks' = checks \cup Broadcast(r, {c}, c, {c})
     ELSE /\ room' = [room EXCEPT ![r] = Fresh(r)]
          /\ checks' = checks \cup Broadcast(r, row.ups \ room[r].doc, c, {})
          /\ joining' = [joining EXCEPT ![c].at = "add"]
          /\ UNCHANGED <<row, member, stale, down>>
  /\ UNCHANGED <<mapped, late, access, conn, up, client, faults>>

\* The rest of join, once every broadcast it awaited has been authorized.
HubAdd(c) ==
  /\ joining[c].at = "add" /\ Idle(conn[c]) /\ \A k \in checks : k.by # c
  /\ LET r == joining[c].room IN
     /\ member' = [member EXCEPT ![c] = r]
     /\ Tell(c, Msg("joined", room[r].doc, {}, ~joining[c].writable))
  /\ joining' = [joining EXCEPT ![c] = NotJoining]
  /\ UNCHANGED <<row, room, mapped, late, checks, stale, access, conn, up, client, faults>>

\* The same for a connection that closed meanwhile: a closed client is added.
HubAddClosed(r) ==
  /\ r \in late
  /\ late' = late \ {r} /\ room' = [room EXCEPT ![r].ghost = TRUE]
  /\ UNCHANGED <<row, mapped, member, joining, checks, stale, access, conn, up, down, client, faults>>

\* An update: read, merge, validate and store in one transaction, whatever
\* the room has cached; answer, and send the difference and the update on.
HubUpdate(c) ==
  /\ Next1(c, "update")
  /\ LET m == Head(up[c])
         r == member[c]
         merged == IF r = NoRoom THEN {} ELSE Merged(r, m.ups)
         Say(kind, flag) == Tell(c, Msg(kind, m.ups, m.ids, flag))
     IN IF Level(c) = "none" THEN Revoke(c, m) /\ UNCHANGED <<row, room, checks, stale>>
        ELSE /\ UNCHANGED <<mapped, member>>
             /\ IF r = NoRoom \/ Level(c) = "read" \/ ~Complete(row.ups \cup m.ups)
                THEN /\ Say("error", r # NoRoom /\ Level(c) = "read")
                     /\ UNCHANGED <<row, room, checks, stale>>
                ELSE /\ row' = [ups |-> merged, rev |-> row.rev + 1]
                     /\ room' = [room EXCEPT ![r] = Holding(r, merged, row.rev + 1)]
                     /\ Announce(r)
                     /\ Say("ack", FALSE)
                     /\ checks' = checks \cup Broadcast(r, merged \ room[r].doc, c, {c})
                          \cup IF row.ups \subseteq room[r].doc THEN {}
                               ELSE {[to |-> c, room |-> r, ups |-> row.ups \ room[r].doc, by |-> c]}
  /\ UNCHANGED <<joining, late, access, conn, client, faults>>

\* leave, sent by an editor that is closed.
HubLeave(c) ==
  /\ Next1(c, "leave")
  /\ IF Level(c) = "none" THEN Revoke(c, NoRequest) ELSE Leave(c) /\ UNCHANGED down
  /\ UNCHANGED <<row, room, joining, late, checks, stale, access, conn, client, faults>>

\* broadcastRoom for one recipient: told if it is authorized, or removed.
Check(k) ==
  /\ k \in checks /\ Idle(conn[k.to])
  /\ checks' = checks \ {k}
  /\ IF Level(k.to) = "none" THEN Revoke(k.to, NoRequest)
     ELSE Tell(k.to, Msg("update", k.ups, {}, FALSE)) /\ UNCHANGED <<member, mapped>>
  /\ UNCHANGED <<row, room, joining, late, stale, access, conn, up, client, faults>>

\* receiveClusterEvent: the room in the map is refreshed, its members are told.
ClusterEvent(n) ==
  /\ n \in stale /\ Idle(n)
  /\ stale' = stale \ {n}
  /\ LET r == mapped[n] IN
     IF r # NoRoom /\ Newer(r)
     THEN /\ room' = [room EXCEPT ![r] = Fresh(r)]
          /\ checks' = checks \cup Broadcast(r, row.ups \ room[r].doc, "nobody", {})
     ELSE UNCHANGED <<room, checks>>
  /\ UNCHANGED <<row, mapped, member, joining, late, access, conn, up, down, client, faults>>

\* sweep, for one connection.  A permission frame that repeats what the tab
\* knows changes nothing and is left out.
Sweep(c) ==
  /\ conn[c] # None /\ Idle(conn[c]) /\ member[c] # NoRoom
  /\ IF Level(c) = "none" THEN Revoke(c, NoRequest)
     ELSE (Level(c) = "read") # ed[c].ro /\ Tell(c, Msg("permission", {}, {}, Level(c) = "read")) /\ UNCHANGED <<member, mapped>>
  /\ UNCHANGED <<row, room, joining, late, checks, stale, access, conn, up, client, faults>>

-----------------------------------------------------------------------------
(* The tab.  Frames are handled one at a time (LiveClient.receiving); each    *)
(* journal operation is one IndexedDB transaction.                            *)

Pushes(c, ups, ids) ==
  /\ pend' = [pend EXCEPT ![c] = @ \cup {[ids |-> ids, ups |-> ups]}]
  /\ up' = [up EXCEPT ![c] = Append(@, Msg("update", ups, ids, FALSE))]
Space(c) == Len(up[c]) < MaxQueue

\* connect, the authentication frame and join: the tab asks for the document.
Connect(c, n) ==
  /\ conn[c] = None
  /\ conn' = [conn EXCEPT ![c] = n]
  /\ up' = [up EXCEPT ![c] = <<Msg("join", {}, {}, FALSE)>>]
  /\ UNCHANGED <<server, client, access, down, faults>>

\* The user types: the change is in the document at once, and queued for the
\* journal (persistUpdate).
Type(c, e) ==
  /\ ed[c].view /\ ~ed[c].ro /\ ~ed[c].unsynced /\ flush[c].at = "no"
  /\ base[e] = {} /\ \A d \in Client : e \notin ed[d].doc
  /\ ed' = [ed EXCEPT ![c].doc = @ \cup {e}, ![c].saving = Append(@, e)]
  /\ base' = [base EXCEPT ![e] = ed[c].doc]
  /\ UNCHANGED <<server, journal, pend, flush, unstored, unsent, erased, access, conn, up, down, faults>>

\* append, and what persistUpdate does with the record it returns: other tabs'
\* entries come in, and the edit is sent if the document is joined.
Save(c) ==
  /\ ed[c].saving # <<>> /\ Space(c)
  /\ LET e == Head(ed[c].saving)
         u == Owner[c]
         j == journal[u]
         saved == [j EXCEPT !.ups = @ \cup {e}, !.pending = @ \cup {e}]
     IN IF j.revoked
        THEN /\ ed' = [ed EXCEPT ![c].saving = Tail(@), ![c].ro = TRUE, ![c].err = "storage"]
             /\ erased' = erased \cup {e}
             /\ UNCHANGED <<journal, pend, up>>
        ELSE /\ journal' = [journal EXCEPT ![u] = saved]
             /\ ed' = [ed EXCEPT ![c].saving = Tail(@), ![c].doc = @ \cup saved.ups]
             /\ IF ed[c].on /\ ~ed[c].ro THEN Pushes(c, {e}, {e}) ELSE UNCHANGED <<pend, up>>
             /\ UNCHANGED erased
  /\ UNCHANGED <<server, flush, unstored, unsent, base, access, conn, down, faults>>

Failed(c) == IF ed[c].err = "storage" THEN "storage" ELSE "last"
Cleared(c) == IF ed[c].err = "storage" THEN "storage" ELSE "no"

Frame(c, kind) ==
  /\ down[c] # <<>> /\ Head(down[c]).kind = kind /\ ed[c].snap.at = "no"
  /\ down' = [down EXCEPT ![c] = Tail(@)]

Checkpoint(j, ups) == [j EXCEPT !.server = @ \cup ups, !.ups = @ \cup ups, !.revoked = FALSE]

\* acknowledge: only the entries of the request are no longer pending.
SettleAll(j, m) == [Checkpoint(j, m.ups) EXCEPT !.pending = {}]
Settle(j, m) == [Checkpoint(j, m.ups) EXCEPT !.pending = @ \ m.ids]

\* A joined document, as soon as the journal has every local edit: the journal
\* is unlocked and takes the server's state ...
Joined(c) ==
  /\ Frame(c, "joined") /\ ed[c].saving = <<>>
  /\ LET m == Head(down[c])
         j == Checkpoint(journal[Owner[c]], m.ups)
     IN /\ journal' = [journal EXCEPT ![Owner[c]] = j]
        /\ ed' = [ed EXCEPT ![c].snap = [at |-> "joined", ids |-> j.pending, ups |-> j.ups,
                                         vector |-> m.ups, ro |-> m.flag]]
  /\ UNCHANGED <<server, pend, flush, unstored, unsent, erased, base, access, conn, up, faults>>

\* ... and then the editor, which sends what the server does not have.
Restore(c) ==
  /\ ed[c].snap.at = "joined" /\ Space(c)
  /\ LET s == ed[c].snap
         doc == ed[c].doc \cup s.ups
         missing == doc \ s.vector
         due == ~s.ro /\ (missing # {} \/ s.ids # {})
     IN /\ ed' = [ed EXCEPT ![c] =
                    [doc |-> doc, saving |-> ed[c].saving, on |-> TRUE, ro |-> s.ro, view |-> TRUE,
                     unsynced |-> s.vector = {} /\ s.ro, snap |-> NoSnapshot,
                     err |-> IF due \/ s.ids # {} THEN ed[c].err ELSE Cleared(c)]]
        /\ IF due /\ conn[c] # None
           THEN Pushes(c, missing, s.ids) ELSE UNCHANGED <<pend, up>>
  /\ UNCHANGED <<server, journal, flush, unstored, unsent, erased, base, access, conn, down, faults>>

\* An update from another member.
Updated(c) ==
  /\ Frame(c, "update")
  /\ LET j == journal[Owner[c]]
         next == IF j.revoked THEN j ELSE Checkpoint(j, Head(down[c]).ups)
     IN /\ journal' = [journal EXCEPT ![Owner[c]] = next]
        /\ ed' = IF j.revoked THEN ed
                 ELSE [ed EXCEPT ![c].doc = @ \cup next.ups, ![c].unsynced = FALSE]
  /\ UNCHANGED <<server, pend, flush, unstored, unsent, erased, base, access, conn, up, faults>>

\* What is not stored of a document that flush returns.
Lacking(doc) == doc \ (row.ups \cup erased)

\* An acknowledgement moves its entries to the server's side of the journal; a
\* flush that waited for it returns the document.
Acked(c) ==
  /\ Frame(c, "ack")
  /\ LET m == Head(down[c])
         req == [ids |-> m.ids, ups |-> m.ups]
         j == journal[Owner[c]]
         awaited == flush[c].at = "pushed" /\ req = [ids |-> flush[c].ids, ups |-> flush[c].ups]
     IN IF req \notin pend[c] THEN UNCHANGED client
        ELSE /\ pend' = [pend EXCEPT ![c] = @ \ {req}]
             /\ ed' = [ed EXCEPT ![c].err = IF j.revoked THEN Failed(c) ELSE Cleared(c)]
             /\ journal' = IF j.revoked THEN journal
                           ELSE [journal EXCEPT ![Owner[c]] = Settle(j, m)]
             /\ flush' = IF awaited THEN [flush EXCEPT ![c] = Quiet] ELSE flush
             /\ IF awaited /\ ~j.revoked THEN unstored' = unstored \cup Lacking(ed[c].doc)
                ELSE UNCHANGED unstored
             /\ UNCHANGED <<unsent, erased, base>>
  /\ UNCHANGED <<server, access, conn, up, faults>>

\* A request that failed rejects the flush that waits for it.
Rejects(c, reqs) ==
  flush' = IF flush[c].at = "pushed" /\ [ids |-> flush[c].ids, ups |-> flush[c].ups] \in reqs
           THEN [flush EXCEPT ![c] = Quiet] ELSE flush

Refused(c) ==
  /\ Frame(c, "error")
  /\ LET m == Head(down[c])
         req == [ids |-> m.ids, ups |-> m.ups]
     IN /\ pend' = [pend EXCEPT ![c] = @ \ {req}]
        /\ ed' = [ed EXCEPT ![c].err = Failed(c), ![c].ro = @ \/ m.flag]
        /\ Rejects(c, {req} \cap pend[c])
  /\ UNCHANGED <<server, journal, unstored, unsent, erased, base, access, conn, up, faults>>

\* Write permission came or went; a view without the document asks for it.
Permitted(c) ==
  /\ Frame(c, "permission") /\ Space(c)
  /\ LET ro == Head(down[c]).flag IN
     IF ed[c].unsynced /\ ~ro
     THEN /\ up' = [up EXCEPT ![c] = Append(@, Msg("join", {}, {}, FALSE))]
          /\ UNCHANGED ed
     ELSE ed' = [ed EXCEPT ![c].ro = ro] /\ UNCHANGED up
  /\ UNCHANGED <<server, journal, pend, flush, unstored, unsent, erased, base, access, conn, faults>>

\* Access denied: the editor is emptied and the journal erased and locked.
Revoked(c) ==
  /\ Frame(c, "revoked")
  /\ LET m == Head(down[c])
         req == [ids |-> m.ids, ups |-> m.ups]
     IN /\ pend' = [pend EXCEPT ![c] = @ \ {req}]
        /\ Rejects(c, {req} \cap pend[c])
  /\ ed' = [ed EXCEPT ![c].ro = TRUE, ![c].on = FALSE, ![c].view = FALSE, ![c].err = Failed(c)]
  /\ erased' = erased \cup journal[Owner[c]].pending
  /\ journal' = [journal EXCEPT ![Owner[c]] = [Empty EXCEPT !.revoked = TRUE]]
  /\ UNCHANGED <<server, unstored, unsent, base, access, conn, up, faults>>

\* Every local edit is in the journal and every request has its answer.
AnsweredOnly(c) == pend[c] = {}
Answered(c) == ed[c].saving = <<>> /\ pend[c] = {}

\* flush, with the composer locked: every write has been answered; entries
\* that are still pending, as those of another tab, are read from the journal ...
FlushLoad(c) ==
  /\ flush[c].at = "no" /\ ed[c].view /\ conn[c] # None /\ ed[c].on /\ ~ed[c].ro
  /\ Answered(c) /\ ed[c].err # "storage" /\ ~journal[Owner[c]].revoked
  /\ LET j == journal[Owner[c]] IN
     IF j.pending = {}
     THEN ed[c].err = "no" /\ unstored' = unstored \cup Lacking(ed[c].doc) /\ UNCHANGED flush
     ELSE /\ flush' = [flush EXCEPT ![c] = [at |-> "loaded", ids |-> j.pending, ups |-> j.ups]]
          /\ UNCHANGED unstored
  /\ UNCHANGED <<server, ed, journal, pend, unsent, erased, base, access, conn, up, down, faults>>

\* ... and pushed.  A push on a connection that closed meanwhile does nothing,
\* and flush goes on as if it had been acknowledged.
FlushPush(c) ==
  /\ flush[c].at = "loaded" /\ Space(c)
  /\ LET doc == ed[c].doc \cup flush[c].ups
         missing == doc \ journal[Owner[c]].server
     IN /\ ed' = [ed EXCEPT ![c].doc = doc]
        /\ IF conn[c] # None /\ ed[c].on /\ ~ed[c].ro
           THEN /\ Pushes(c, missing, flush[c].ids)
                /\ flush' = [flush EXCEPT ![c].at = "pushed", ![c].ups = missing]
                /\ UNCHANGED unsent
           ELSE /\ flush' = [flush EXCEPT ![c] = Quiet]
                /\ unsent' = IF ed[c].err = "no" THEN unsent \cup Lacking(doc) ELSE unsent
                /\ UNCHANGED <<pend, up>>
  /\ UNCHANGED <<server, journal, unstored, erased, base, access, conn, down, faults>>

-----------------------------------------------------------------------------
Fault == faults < MaxFaults /\ faults' = faults + 1

\* The socket closes: what is in it is lost, requests fail, the server removes
\* the client from its rooms (removeClient).
Hangup(c) ==
  /\ conn[c] # None /\ Idle(conn[c])
  /\ conn' = [conn EXCEPT ![c] = None]
  /\ up' = [up EXCEPT ![c] = <<>>] /\ down' = [down EXCEPT ![c] = <<>>]
  /\ Leave(c)
  /\ joining' = [joining EXCEPT ![c] = NotJoining]
  /\ late' = IF joining[c].at = "add" THEN late \cup {joining[c].room} ELSE late
  /\ checks' = {[k EXCEPT !.by = IF @ = c THEN "nobody" ELSE @] : k \in {k \in checks : k.to # c}}
  /\ pend' = [pend EXCEPT ![c] = {}]
  /\ UNCHANGED <<row, room, stale, journal, unstored, unsent, erased, base, access>>

Drop(c) ==
  /\ Fault /\ Hangup(c) /\ Rejects(c, pend[c])
  /\ ed' = [ed EXCEPT ![c].on = FALSE, ![c].err = IF pend[c] = {} THEN @ ELSE Failed(c)]

\* The tab is closed or reloaded: edits not yet in the journal are gone.
Reload(c) ==
  /\ Fault /\ Hangup(c)
  /\ ed' = [ed EXCEPT ![c] = Editor]
  /\ flush' = [flush EXCEPT ![c] = Quiet]

\* The composer is closed, which flushes first, and opened again on the same
\* connection: a new Yjs document joins.
Reopen(c) ==
  /\ Fault /\ conn[c] # None /\ ed[c].saving = <<>> /\ pend[c] = {} /\ flush[c].at = "no"
  /\ Len(up[c]) + 1 < MaxQueue
  /\ up' = [up EXCEPT ![c] = @ \o <<Msg("leave", {}, {}, FALSE), Msg("join", {}, {}, FALSE)>>]
  /\ ed' = [ed EXCEPT ![c] = Editor]
  /\ UNCHANGED <<server, journal, pend, flush, unstored, unsent, erased, base, access, conn, down>>

\* No answer in 15 seconds: a later one is ignored.
Timeout(c) ==
  /\ Fault
  /\ \E req \in pend[c] : /\ pend' = [pend EXCEPT ![c] = @ \ {req}] /\ Rejects(c, {req})
  /\ ed' = [ed EXCEPT ![c].err = Failed(c)]
  /\ UNCHANGED <<server, journal, unstored, unsent, erased, base, access, conn, up, down>>

\* Membership, delegation or the draft itself changes (external to the hub).
ChangeAccess(u) ==
  /\ Fault /\ \E l \in {"none", "read", "write"} \ {access[u]} : access' = [access EXCEPT ![u] = l]
  /\ UNCHANGED <<server, client, conn, up, down>>

Hub == \/ \E c \in Client : \/ HubJoin(c) \/ HubSeed(c) \/ HubAdd(c) \/ HubUpdate(c)
                            \/ HubLeave(c) \/ Sweep(c)
       \/ \E k \in checks : Check(k)
       \/ \E r \in late : HubAddClosed(r)
       \/ \E n \in Node : ClusterEvent(n)
Tab == \E c \in Client : \/ \E n \in Node : Connect(c, n)
                         \/ \E e \in Edit : Type(c, e)
                         \/ Save(c) \/ Joined(c) \/ Restore(c) \/ Updated(c) \/ Acked(c)
                         \/ Refused(c) \/ Permitted(c) \/ Revoked(c) \/ FlushLoad(c) \/ FlushPush(c)
Environment == \/ \E c \in Client : Drop(c) \/ Reload(c) \/ Reopen(c) \/ Timeout(c)
               \/ \E u \in User : ChangeAccess(u)
Next == Hub \/ Tab \/ Environment
Spec == Init /\ [][Next]_vars

-----------------------------------------------------------------------------
TypeOK ==
  /\ row \in Row
  /\ room \in [Room -> Cached] /\ mapped \in [Node -> Room \cup {NoRoom}]
  /\ \A r \in Room : room[r].doc \subseteq row.ups /\ room[r].rev <= row.rev
  /\ \A n \in Node : mapped[n] \in {NoRoom} \cup ({n} \X Slot)
  /\ member \in [Client -> Room \cup {NoRoom}] /\ joining \in [Client -> Joining]
  /\ \A c \in Client : member[c] # NoRoom => member[c][1] = conn[c]
  /\ late \subseteq Room /\ checks \subseteq Notice /\ stale \subseteq Node
  /\ access \in [User -> {"none", "read", "write"}]
  /\ conn \in [Client -> Node \cup {None}]
  /\ up \in [Client -> Seq(Message)] /\ down \in [Client -> Seq(Message)]
  /\ ed \in [Client -> Draft] /\ journal \in [User -> Journal]
  /\ pend \in [Client -> SUBSET Request] /\ flush \in [Client -> Flush]
  /\ unstored \subseteq Update /\ unsent \subseteq Update /\ erased \subseteq Edit
  /\ base \in [Edit -> SUBSET Update] /\ faults \in 0..MaxFaults

\* However many tabs and processes race to store the first state, with answers
\* lost and tabs reloaded, the draft's original text is stored exactly once,
\* before any edit, and no copy of the document has it twice.
SeededOnce ==
  LET Seeds(ups) == Cardinality(ups \cap Client)
  IN /\ row.ups # {} => Seeds(row.ups) = 1
     /\ \A c \in Client : Seeds(ed[c].doc) <= 1
     /\ \A u \in User : Seeds(journal[u].ups) <= 1

\* The journal tells the truth about the server: what it counts as stored is
\* in the row, and what it does not is still pending, so that a reload or a
\* reconnection sends it, although acknowledgements come late or never.
JournalTruthful ==
  \A u \in User : LET j == journal[u] IN
    /\ j.server \subseteq row.ups
    /\ j.ups \subseteq row.ups \cup j.pending

\* Nothing under way: every frame handled, every event read.
Settled == /\ checks = {} /\ stale = {} /\ late = {}
           /\ \A c \in Client : /\ up[c] = <<>> /\ down[c] = <<>> /\ ed[c].snap.at = "no"
                                /\ joining[c].at = "no"
                                /\ ed[c].saving = <<>>

\* Tabs that have joined the room their process has in its map converge: when
\* nothing is under way they show everything that is stored, whichever process
\* stored it.
Converged ==
  Settled => \A c \in Client :
    conn[c] # None /\ ed[c].on /\ member[c] # NoRoom /\ member[c] = mapped[conn[c]]
      => row.ups \subseteq ed[c].doc

\* The members of a room work on one document with one origin.
OneDocument == SeededOnce /\ Converged

\* A room object that a connection has joined stays in the process's map, where
\* the events of the other processes reach it.  The code does not keep this when a
\* join overlaps the last member's leaving (README, known divergences).
JoinedIsMapped == Settled =>
  \A c \in Client : member[c] # NoRoom => member[c] = mapped[conn[c]]

\* When flush returns after an acknowledgement, or with nothing to send, all of
\* the document is stored, except edits that were taken off the journal with the
\* access to the draft: the send that follows reads the stored document.  This
\* needs a journal for each tab: an edit of another tab may come in meanwhile.
FlushedIsStored == unstored = {}

\* A flush whose push finds the connection closed does not return.  The code
\* does not keep this: it returns as if the push had been acknowledged, unless
\* an error has been left by an earlier request (README, known divergences).
FlushNeedsConnection == unsent = {}
=============================================================================
