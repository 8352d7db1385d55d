------------------------------ MODULE MCMailbox -----------------------------
EXTENDS Mailbox, TLC
Folders == <<"inbox", "deleted">>
Bounds(protocol, e, o, moving, f) ==
  [protocol |-> protocol, edits |-> e, others |-> o, moves |-> moving, faults |-> f]
Gmail == {Bounds("gmail", 2, 1, FALSE, {"crash"}), Bounds("gmail", 1, 2, TRUE, {"lose"}),
          Bounds("gmail", 1, 2, FALSE, {"expire"})}
Graph == {Bounds("graph", 2, 1, FALSE, {"lose"}), Bounds("graph", 2, 1, FALSE, {"reject"}),
          Bounds("graph", 1, 2, FALSE, {"expire"})}
ViaImap == {Bounds("imap", 2, 0, FALSE, {"crash"}), Bounds("imap", 2, 0, FALSE, {"reject"}),
         Bounds("imap", 0, 3, TRUE, {"crash"})}
Profiles == Gmail \cup Graph \cup ViaImap
\* A flag the user sets, and another client resets.
Lost == {Bounds("imap", 1, 1, FALSE, {})}
=============================================================================
