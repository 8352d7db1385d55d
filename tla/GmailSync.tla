------------------------------ MODULE GmailSync -----------------------------
(* gmailSync (backend/providers/cloud-mail.js): the changes since a history    *)
(* identifier, or after it has expired a full listing.  History identifiers    *)
(* are the message's own changes, counted from 0.  Other messages matter where *)
(* they push this one to a later page.                                         *)
EXTENDS Naturals, Sequences, MailMessage

\* page: pages of a listing read so far, of which there are two at most; full: a
\* listing is under way, and next its snapshotHistoryId; seen: one of its pages
\* had the message; pending: the message waits in pendingIds, and next is the
\* history identifier of afterPending.
GmailCursor == [hist : 0..MaxVer, next : 0..MaxVer, full : BOOLEAN, page : 0..2,
                seen : BOOLEAN, pending : BOOLEAN]
GmailCovers(cursor, srv) == ~cursor.full /\ ~cursor.pending /\ cursor.hist = srv.ver
Imported == [hist |-> 0, next |-> 0, full |-> FALSE, page |-> 0, seen |-> FALSE, pending |-> FALSE]
Done(cursor) == [Imported EXCEPT !.hist = cursor.next]

\* profile, before the first page of a full listing.
Snapshot(fetch, srv) == [fetch EXCEPT !.i = 2, !.cursor.next = IF fetch.cursor.page = 0 THEN srv.ver ELSE @]

\* A page of the history or of the listing: this message is on it (i = 3: to be
\* fetched), on a later one (or in pendingIds), or nowhere (the message is gone,
\* or has not changed).
HistoryPage(fetch, srv) ==
  LET new == [fetch.cursor EXCEPT !.next = srv.ver] IN
  IF fetch.cursor.hist = srv.ver THEN {[fetch EXCEPT !.i = 0]}
  ELSE {[fetch EXCEPT !.i = 3, !.cursor = Done(new)],
        [fetch EXCEPT !.i = 0, !.cursor = [new EXCEPT !.pending = TRUE]]}

ListPage(fetch, srv) ==
  LET page == fetch.cursor.page + 1
      here == ~fetch.cursor.seen /\ srv.loc # 0
      last == [fetch EXCEPT !.i = IF here THEN 3 ELSE 0, !.cursor = Done(fetch.cursor)]
      none == [fetch EXCEPT !.i = 0, !.cursor.page = page]
      more == [fetch EXCEPT !.i = 3, !.cursor.page = page, !.cursor.seen = TRUE]
  IN IF page = 2 THEN {last} ELSE {last, none} \cup IF here THEN {more} ELSE {}

\* gmailMessage: the message as it is when it is fetched.
GetMessage(fetch, srv) ==
  [fetch EXCEPT !.i = 0, !.msgs =
     <<IF srv.loc = 0 THEN [NewMsg EXCEPT !.del = TRUE]
       ELSE [NewMsg EXCEPT !.folder = srv.folder, !.flag = srv.flag]>>]

GmailCall(fetch, srv, expired) ==
  CASE fetch.i = 1 /\ fetch.cursor.pending -> {[fetch EXCEPT !.i = 3, !.cursor = Done(@)]}
    [] fetch.i = 1 /\ ~fetch.cursor.pending /\ (fetch.cursor.full \/ expired) ->
         {Snapshot([fetch EXCEPT !.cursor.full = TRUE], srv)}
    [] fetch.i = 1 /\ ~fetch.cursor.pending /\ ~fetch.cursor.full /\ ~expired -> HistoryPage(fetch, srv)
    [] fetch.i = 2 -> ListPage(fetch, srv)
    [] fetch.i = 3 -> {GetMessage(fetch, srv)}
=============================================================================
