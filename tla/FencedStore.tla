----------------------------- MODULE FencedStore -----------------------------
(***************************************************************************)
(* What a fenced work lease promises to the data it protects, with no      *)
(* clocks, no nodes and no calls: grants are numbered, only the newest     *)
(* outstanding grant may write, and only the newest outstanding grant may  *)
(* report that its work succeeded.                                         *)
(***************************************************************************)
EXTENDS Naturals

VARIABLES
  granted,       \* Number of grants made so far: the newest fencing token.
  held,          \* Is the newest grant still outstanding?
  stored,        \* Token of the last write to the protected data.
  acknowledged   \* Tokens whose work was reported as successful.

vars == <<granted, held, stored, acknowledged>>

Init ==
  /\ granted = 0
  /\ held = FALSE
  /\ stored = 0
  /\ acknowledged = {}

(* A new grant supersedes whatever was granted before. *)
Grant ==
  /\ granted' = granted + 1
  /\ held' = TRUE
  /\ UNCHANGED <<stored, acknowledged>>

(* The newest grant is given back. *)
Return ==
  /\ held
  /\ held' = FALSE
  /\ UNCHANGED <<granted, stored, acknowledged>>

(* The newest grant writes. *)
Store ==
  /\ held
  /\ stored' = granted
  /\ UNCHANGED <<granted, held, acknowledged>>

(* The newest grant reports success. *)
Acknowledge ==
  /\ held
  /\ acknowledged' = acknowledged \cup {granted}
  /\ UNCHANGED <<granted, held, stored>>

Next == Grant \/ Return \/ Store \/ Acknowledge

Spec == Init /\ [][Next]_vars

=============================================================================
