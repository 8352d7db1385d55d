------------------------------ MODULE GraphSync -----------------------------
(* graphSync (backend/providers/cloud-mail.js): one call lists what changed in *)
(* each folder since the folder's delta token, folder after folder.  A token   *)
(* is what it stands for: whether the folder held the message, and its version.*)
(* One message, whose identifier is 1 for ever; a folder's change fits a page. *)
EXTENDS Naturals, Sequences, MailMessage

Absent == [has |-> FALSE, ver |-> 0]
GraphCursor == [Folder -> [has : BOOLEAN, ver : 0..MaxVer]]
InFolder(srv, f) ==
  IF srv.loc # 0 /\ srv.folder = f THEN [has |-> TRUE, ver |-> srv.ver] ELSE Absent
Imported == [f \in Folder |-> [has |-> f = FolderOrder[1], ver |-> 0]]
GraphCovers(cursor, srv) == \A f \in Folder : cursor[f] = InFolder(srv, f)

Keep(msgs, m) == IF m.del THEN IF msgs = <<>> THEN <<m>> ELSE msgs ELSE <<m>>

\* The page of the i-th folder, of a token that has expired (410) a new list.
GraphPage(fetch, srv, expired) ==
  LET f == FolderOrder[fetch.i]
      old == IF expired THEN Absent ELSE fetch.cursor[f]
      new == InFolder(srv, f)
      m == [NewMsg EXCEPT !.pid = 1, !.folder = f, !.flag = srv.flag, !.del = ~new.has]
  IN [fetch EXCEPT !.i = IF @ = Len(FolderOrder) THEN 0 ELSE @ + 1,
                   !.cursor[f] = new,
                   !.msgs = IF new = old THEN @ ELSE Keep(@, m)]
=============================================================================
