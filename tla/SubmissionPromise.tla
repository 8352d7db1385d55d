-------------------------- MODULE SubmissionPromise --------------------------
(***************************************************************************)
(* What the job queue promises about operations handed to an external      *)
(* transport, which cannot be asked again and may be slow to answer: an    *)
(* operation is accepted by the transport at most once; one reported as    *)
(* rejected never was and never will be, so that it can be sent again      *)
(* deliberately; one reported as delivered was; one reported as finished,  *)
(* because there was nothing left to deliver or the work is done, is not   *)
(* submitted afterwards; and every other outcome is reported as ambiguous. *)
(***************************************************************************)
EXTENDS Naturals

CONSTANT Operation

VARIABLES
  verdict,   \* What is reported of each operation.
  sent       \* How often the transport accepted it.

vars == <<verdict, sent>>

Verdict == {"open", "delivered", "finished", "rejected", "ambiguous"}

Init ==
  /\ verdict = [o \in Operation |-> "open"]
  /\ sent = [o \in Operation |-> 0]

(* The transport accepts an operation nobody has called settled.  After an *)
(* ambiguous verdict the request may still be under way.                   *)
Submit(o) ==
  /\ verdict[o] \in {"open", "ambiguous"}
  /\ sent[o] = 0
  /\ sent' = [sent EXCEPT ![o] = 1]
  /\ UNCHANGED verdict

(* What may be reported of an operation that was open until now.           *)
Justified(o, v) ==
  \/ v = "delivered" /\ sent[o] = 1
  \/ v = "rejected" /\ sent[o] = 0
  \/ v \in {"finished", "ambiguous"}

(* Any number of open operations are settled, for good.                    *)
Settle ==
  /\ verdict' \in [Operation -> Verdict]
  /\ \A o \in Operation :
       verdict'[o] # verdict[o] => verdict[o] = "open" /\ Justified(o, verdict'[o])
  /\ UNCHANGED sent

Next == Settle \/ \E o \in Operation : Submit(o)

Spec == Init /\ [][Next]_vars

=============================================================================
