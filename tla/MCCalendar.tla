----------------------------- MODULE MCCalendar -----------------------------
EXTENDS Calendar, TLC
CONSTANTS s1, s2
\* An organizer who revises often, in two tabs; guests who answer in both ways.
Profiles ==
  {[ways |-> {}, seqs |-> 3, stamps |-> 0, faults |-> 1, slots |-> {s1, s2}],
   [ways |-> {"mail", "link"}, seqs |-> 2, stamps |-> 2, faults |-> 0, slots |-> {s1}],
   [ways |-> {"mail"}, seqs |-> 2, stamps |-> 3, faults |-> 1, slots |-> {s1}]}
=============================================================================
