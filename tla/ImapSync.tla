------------------------------- MODULE ImapSync -----------------------------
(* reconcileImap (backend/providers/mail-protocols.js): a snapshot of all      *)
(* folders' membership, then the members one by one, then the deletions; a     *)
(* call may stop at its limit after any of them, and the next goes on from the *)
(* cursor.  A move gives the message a new identifier, whose folder is         *)
(* home[loc]; its content, and so its digest, stays the same.                  *)
EXTENDS Naturals, Sequences, FiniteSets, SequencesExt, MailMessage

NoEntry == [in |-> FALSE, folder |-> NoFolder, flag |-> "off"]
Entry == [in : BOOLEAN, folder : Folder \cup {NoFolder}, flag : Flag]

\* built: folders in the snapshot so far; todo: members not examined yet.
ImapCursor == [ent : [Loc -> Entry], built : 0..Len(FolderOrder), cycle : BOOLEAN,
               todo : SUBSET Loc, dels : SUBSET Loc]
Imported ==
  [built |-> 0, cycle |-> FALSE, todo |-> {}, dels |-> {},
   ent |-> [p \in Loc |-> IF p = 1 THEN [in |-> TRUE, folder |-> FolderOrder[1], flag |-> "off"] ELSE NoEntry]]
Known(ent) == {p \in Loc : ent[p].in}
ImapCovers(cursor, srv) ==
  /\ ~cursor.cycle /\ cursor.built = 0
  /\ Known(cursor.ent) = {p \in Loc : p = srv.loc}
  /\ srv.loc # 0 => cursor.ent[srv.loc].flag = srv.flag

\* The next folder of the snapshot; after the last one, what the cursor knows
\* and no folder has is to be deleted.
Dels(c, i) == IF i = Len(FolderOrder) THEN Known(c.ent) \ c.todo ELSE {}

Membership(fetch, srv) ==
  LET i == fetch.cursor.built + 1
      c == [fetch.cursor EXCEPT !.built = IF i = Len(FolderOrder) THEN 0 ELSE i,
              !.todo = IF srv.loc # 0 /\ srv.folder = FolderOrder[i] THEN @ \cup {srv.loc} ELSE @,
              !.cycle = (i = Len(FolderOrder))]
  IN [fetch EXCEPT !.cursor = [c EXCEPT !.dels = @ \cup Dels(c, i)]]

\* The folders are examined in their order, a folder's members by their UIDs.
Rank(f) == CHOOSE i \in 1..Len(FolderOrder) : FolderOrder[i] = f
NextMember(todo, home) ==
  CHOOSE p \in todo : \A q \in todo \ {p} :
    Rank(home[p]) < Rank(home[q]) \/ (home[p] = home[q] /\ p < q)

\* Locations proven absent whose digest the new message has: one only is reused.
Candidates(c) == c.dels \cap Known(c.ent)

Examine(fetch, srv, home) ==
  LET c == fetch.cursor
      p == NextMember(c.todo, home)
      rest == [c EXCEPT !.todo = @ \ {p}]
      now == [in |-> TRUE, folder |-> home[p], flag |-> srv.flag]
      old == Candidates(c)
      moved == Cardinality(old) = 1
      m == [NewMsg EXCEPT !.pid = p, !.folder = home[p], !.flag = srv.flag]
  IN IF srv.loc # p
     THEN [fetch EXCEPT !.cursor = [rest EXCEPT !.dels = IF c.ent[p].in THEN @ \cup {p} ELSE @]]
     ELSE IF c.ent[p].in
     THEN [fetch EXCEPT !.cursor = [rest EXCEPT !.ent[p] = now],
             !.msgs = IF c.ent[p] = now THEN @ ELSE Append(@, [m EXCEPT !.meta = TRUE])]
     ELSE [fetch EXCEPT
             !.cursor = [rest EXCEPT !.ent = [q \in Loc |-> IF q = p THEN now
                                               ELSE IF moved /\ q \in old THEN NoEntry ELSE @[q]]],
             !.msgs = Append(@, [m EXCEPT !.prev = IF moved THEN CHOOSE q \in old : TRUE ELSE 0])]

Deletions(fetch) ==
  LET c == fetch.cursor
      Del(p) == [NewMsg EXCEPT !.pid = p, !.del = TRUE, !.folder = c.ent[p].folder]
      gone == SetToSeq(c.dels \cap Known(c.ent))
  IN [fetch EXCEPT !.i = 0, !.msgs = @ \o [n \in 1..Len(gone) |-> Del(gone[n])],
        !.cursor = [c EXCEPT !.ent = [p \in Loc |-> IF p \in c.dels THEN NoEntry ELSE @[p]],
                             !.cycle = FALSE, !.dels = {}]]

Page(fetch) == {fetch, [fetch EXCEPT !.i = 0]}   \* go on, or stop at the limit
ImapCall(fetch, srv, home) ==
  IF ~fetch.cursor.cycle THEN Page(Membership(fetch, srv))
  ELSE IF fetch.cursor.todo # {} THEN Page(Examine(fetch, srv, home))
  ELSE {Deletions(fetch)}
=============================================================================
