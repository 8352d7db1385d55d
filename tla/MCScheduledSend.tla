---------------------------- MODULE MCScheduledSend ----------------------------
(* ScheduledSend for TLC.  Workers and requests are interchangeable: no    *)
(* definition tells the members of either set apart.                       *)
EXTENDS ScheduledSend, TLC

CONSTANTS w1, w2, r1, r2, j1, j2

\* Two workers and a request that a user edits under; a worker and two requests
\* with a local job; two requests that schedule different jobs; a worker and a
\* request, with a job of either kind, that collaborators edit the document under.
Setups == {[senders |-> {w1, w2, r1}, jobs |-> {j1}, version |-> 4, live |-> 0],
           [senders |-> {w1, r1, r2}, jobs |-> {j2}, version |-> 2, live |-> 0],
           [senders |-> {r1, r2}, jobs |-> {j1, j2}, version |-> 2, live |-> 0],
           [senders |-> {w1, r1}, jobs |-> {j1, j2}, version |-> 2, live |-> 2]}
OneWorker == {[senders |-> {w1, r1}, jobs |-> {j1}, version |-> 4, live |-> 0]}

Symmetry == Permutations(Worker) \cup Permutations(Request)

================================================================================
