------------------------------- MODULE Calendar ------------------------------
(* One meeting between its organizer and the guests' calendars: the           *)
(* organizer's InvitationService (backend/invitations.js) issues revisions    *)
(* with rising sequence numbers and mails them through jobs; every guest's    *)
(* InboundCalendarService (backend/inbound-calendar.js) takes the messages in *)
(* whatever order they arrive, some only after the owner has reviewed them,   *)
(* and mails replies, which the organizer's own InboundCalendarService takes  *)
(* in the same way.  Guests may also answer by the link in the invitation.    *)
(* Sequence numbers count from 1 here (from 0 in the code; 0: none yet).      *)
(* A message taken in twice has the same id and is ignored: not modelled.     *)
(* Nor are parsing, recurring instances, and answers to expired links.        *)
EXTENDS Naturals, FiniteSets

CONSTANTS Guest,      \* addresses that may be invited
          Follow,     \* those whose mail and calendar are modelled
          Slot,       \* requests to issue a revision at one time
          Profile     \* bounds: each behaviour keeps to one of these

\* ways: how guests answer; seqs: revisions; stamps: answers of a guest; faults:
\* deliveries that fail or are repeated; slots: requests at one time.
ASSUME CalendarAssumption ==
  /\ Follow \subseteq Guest
  /\ Profile \subseteq [ways : SUBSET {"mail", "link"}, seqs : Nat, stamps : Nat,
                        faults : Nat, slots : SUBSET Slot]

VARIABLES
  event,     \* the guests the event record names
  inv,       \* table invitations: the revision in force
  att,       \* table invitation_attendees
  prior,     \* table inbound_calendar_replies: the last mailed reply applied
  creating,  \* create() suspended at its authorization or account lookup
  form,      \* a submitted link form whose body is still being read
  jobs,      \* scheduled deliveries of both services
  mail,      \* messages to guests under way or in review
  replies,   \* replies to the organizer under way or in review
  cal,       \* inbound_calendar_state of every guest
  answer,    \* inbound_calendar_outgoing: a guest's last answer by mail
  tick,      \* stamps a guest's answers have used
  said,      \* history: what a guest has answered to which revision
  ignored,   \* history: guests with a message rejected in a review
  faults, profile

organizer == <<event, inv, att, prior, creating, form>>
guests == <<cal, answer, tick, said>>
vars == <<organizer, guests, jobs, mail, replies, ignored, faults, profile>>

-----------------------------------------------------------------------------
Method == {"REQUEST", "CANCEL"}
Answer == {"ACCEPTED", "DECLINED"}
Part == Answer \cup {"NEEDS-ACTION"}
Seq == Nat
Try == Nat
Stamp == Nat
Job(kind, g, seq, part, n) == [kind |-> kind, g |-> g, seq |-> seq, part |-> part, n |-> n]
Jobs == [kind : {"invite", "removed", "reply", "rsvp"}, g : Follow, seq : Seq,
         part : Part, n : Nat]
Message == [g : Follow, kind : Method, seq : Seq, n : Try]   \* n: its DTSTAMP
Reply == [g : Follow, seq : Seq, part : Answer, n : Stamp]
Invitation == [seq : Seq, method : Method, current : BOOLEAN]
Attendee == [in : BOOLEAN, part : Part, responded : BOOLEAN, token : Try]
Creation == [at : BOOLEAN, method : Method, seq : Seq, current : BOOLEAN]
Form == [at : BOOLEAN, seq : Seq]
Shown == [kind : Method, seq : Seq, n : Try]
Last == [seq : Seq, n : Try, part : Part]
Invited == {g \in Guest : att[g].in}
NotInvited == [in |-> FALSE, part |-> "NEEDS-ACTION", responded |-> FALSE, token |-> 0]
Idle == [at |-> FALSE, method |-> "REQUEST", seq |-> 0, current |-> FALSE]
NoForm == [at |-> FALSE, seq |-> 0]
NoEvent == [kind |-> "CANCEL", seq |-> 0, n |-> 0]

TypeOK ==
  /\ event \subseteq Guest
  /\ inv \in Invitation
  /\ att \in [Guest -> Attendee]
  /\ \A g \in Guest \ Invited : att[g] = NotInvited   \* no row
  /\ \A g \in Guest : inv.method = "CANCEL" => att[g].token = 0  \* nor a live link
  /\ prior \in [Follow -> [seq : Seq, n : Stamp]]
  /\ creating \in [Slot -> Creation]
  /\ form \in [Follow -> Form]
  /\ jobs \subseteq Jobs
  /\ mail \subseteq Message /\ replies \subseteq Reply
  /\ cal \in [Follow -> Shown]
  /\ answer \in [Follow -> Last]
  /\ tick \in [Follow -> Stamp]
  /\ said \in [Follow -> SUBSET (Seq \X Answer \X {"mail", "link"})]
  /\ ignored \subseteq Follow /\ faults \in 0..profile.faults /\ profile \in Profile

Init ==
  /\ event \in SUBSET Guest \ {{}}
  /\ inv = [seq |-> 0, method |-> "REQUEST", current |-> FALSE]
  /\ att = [g \in Guest |-> NotInvited]
  /\ prior = [g \in Follow |-> [seq |-> 0, n |-> 0]]
  /\ creating = [s \in Slot |-> Idle] /\ form = [g \in Follow |-> NoForm]
  /\ jobs = {} /\ mail = {} /\ replies = {}
  /\ cal = [g \in Follow |-> NoEvent]
  /\ answer = [g \in Follow |-> [seq |-> 0, n |-> 0, part |-> "NEEDS-ACTION"]]
  /\ tick = [g \in Follow |-> 0] /\ said = [g \in Follow |-> {}]
  /\ ignored = {} /\ faults = 0 /\ profile \in Profile

-----------------------------------------------------------------------------
(* The organizer.  A record's version matters only through its comparison     *)
(* with one read before: `current` says that they are still equal.            *)
Touch ==
  /\ inv' = [inv EXCEPT !.current = FALSE]
  /\ creating' = [s \in Slot |-> [creating[s] EXCEPT !.current = FALSE]]

Edit ==
  /\ \E S \in SUBSET Guest \ {{}} : S # event /\ event' = S
  /\ Touch
  /\ UNCHANGED <<att, prior, form, guests, jobs, mail, replies, ignored, faults, profile>>

Create(s, method) ==
  /\ ~creating[s].at /\ inv.seq < profile.seqs
  /\ method = "CANCEL" => inv.seq > 0
  /\ ~(inv.current /\ inv.method = method)   \* otherwise: a duplicate, no effect
  /\ creating' = [creating EXCEPT ![s] =
       [at |-> TRUE, method |-> method, seq |-> inv.seq, current |-> TRUE]]
  /\ UNCHANGED <<event, inv, att, prior, form, guests, jobs, mail, replies, ignored, faults, profile>>

Emails(method) == IF method = "CANCEL" THEN Invited ELSE event
Removed(method) == IF method = "CANCEL" THEN {} ELSE Invited \ event
RowKept(g, method) == [att[g] EXCEPT !.in = TRUE]
Row(g, method) ==
  [in |-> TRUE, part |-> IF method = "CANCEL" THEN att[g].part ELSE "NEEDS-ACTION",
   responded |-> FALSE, token |-> 0]

\* The write transaction: rows of all attendees anew, a job for each of them
\* and a cancellation for each guest no longer invited.  The sequence follows
\* the one that create() read at first.
Revise(s) ==
  LET method == creating[s].method n == creating[s].seq + 1 IN
  /\ inv' = [seq |-> n, method |-> method, current |-> TRUE]
  /\ att' = [g \in Guest |-> IF g \in Emails(method) THEN Row(g, method) ELSE NotInvited]
  /\ jobs' = jobs
       \cup {Job("invite", g, n, "NEEDS-ACTION", 1) : g \in Emails(method) \cap Follow}
       \cup {Job("removed", g, n, att[g].part, 1) : g \in Removed(method) \cap Follow}

UnchangedSinceLoose(s) == creating[s].current
UnchangedSince(s) == creating[s].current /\ inv.seq = creating[s].seq

Commit(s) ==
  /\ creating[s].at
  /\ creating' = [creating EXCEPT ![s] = Idle]
  /\ IF UnchangedSince(s) /\ Emails(creating[s].method) # {} /\ inv.seq < profile.seqs
     THEN Revise(s)
     ELSE UNCHANGED <<inv, att, jobs>>
  /\ UNCHANGED <<event, prior, form, guests, mail, replies, ignored, faults, profile>>

-----------------------------------------------------------------------------
(* Jobs.  One that fails before the provider accepts it runs again; one whose *)
(* outcome is unknown may be repeated by its owner: the message carries a     *)
(* later stamp and a new link.                                                *)
Done(j) == jobs' = jobs \ {j} /\ UNCHANGED faults
Again(j) == /\ faults < profile.faults /\ faults' = faults + 1
            /\ jobs' = (jobs \ {j}) \cup {[j EXCEPT !.n = @ + 1]}

\* A queued cancellation of a removed guest is still sent after later revisions.
SupersededToo(j) == inv.seq # j.seq \/ (j.kind = "invite" /\ ~att[j.g].in)
Superseded(j) == j.kind = "invite" /\ (inv.seq # j.seq \/ ~att[j.g].in)

DeliverInvitation(j) ==
  LET kind == IF j.kind = "removed" THEN "CANCEL" ELSE inv.method
      m == [g |-> j.g, kind |-> kind, seq |-> j.seq, n |-> j.n] IN
  /\ j.kind \in {"invite", "removed"}
  /\ IF Superseded(j) THEN Done(j) /\ UNCHANGED <<att, mail>>
     ELSE /\ att' = IF kind = "REQUEST" /\ ~att[j.g].responded
                    THEN [att EXCEPT ![j.g].token = j.n] ELSE att
          /\ \/ mail' = mail \cup {m} /\ (Done(j) \/ Again(j))
             \/ mail' = mail /\ Again(j)
  /\ UNCHANGED <<event, inv, prior, creating, form, guests, replies, ignored, profile>>

\* InboundCalendarService.deliverReply and InvitationService.deliverReply: the
\* guest's own reply, and the one the organizer's server writes for a link.
OverTaken(j) == cal[j.g].seq # j.seq \/ cal[j.g].kind = "CANCEL"
DeliverReply(j) ==
  /\ \/ /\ j.kind = "reply" /\ UNCHANGED tick
        /\ replies' = IF OverTaken(j) THEN replies
             ELSE replies \cup {[g |-> j.g, seq |-> j.seq, part |-> j.part, n |-> j.n]}
     \/ /\ j.kind = "rsvp" /\ tick[j.g] < profile.stamps
        /\ IF inv.seq # j.seq THEN UNCHANGED <<replies, tick>>
           ELSE /\ tick' = [tick EXCEPT ![j.g] = @ + 1]
                /\ replies' = replies \cup {[g |-> j.g, seq |-> j.seq, part |-> j.part,
                                             n |-> tick[j.g] + 1]}
  /\ Done(j)
  /\ UNCHANGED <<organizer, cal, answer, said, mail, ignored, profile>>

-----------------------------------------------------------------------------
(* A guest's calendar.                                                       *)
StaleInRevision(m) == m.seq = cal[m.g].seq /\ m.n <= cal[m.g].n
Stale(m) == m.seq < cal[m.g].seq \/ (m.seq = cal[m.g].seq /\ m.n <= cal[m.g].n)
Apply(m) ==
  cal' = IF Stale(m) THEN cal
         ELSE [cal EXCEPT ![m.g] = [kind |-> m.kind, seq |-> m.seq, n |-> m.n]]

\* ingest() applies a verified sender's message; any other waits for review(),
\* which applies it or not.  Waiting there only delays it as the mail may.
TakeIn(m) ==
  /\ m \in mail /\ mail' = mail \ {m}
  /\ \/ Apply(m) /\ UNCHANGED ignored
     \/ ignored' = ignored \cup {m.g} /\ UNCHANGED cal
  /\ UNCHANGED <<organizer, answer, tick, said, jobs, replies, faults, profile>>

\* respond(): an answer to the request the calendar shows.
Respond(g, part) ==
  LET new == [seq |-> cal[g].seq, n |-> cal[g].n, part |-> part] IN
  /\ "mail" \in profile.ways /\ cal[g].kind = "REQUEST" /\ answer[g] # new /\ tick[g] < profile.stamps
  /\ answer' = [answer EXCEPT ![g] = new]
  /\ tick' = [tick EXCEPT ![g] = @ + 1]
  /\ said' = [said EXCEPT ![g] = @ \cup {<<cal[g].seq, part, "mail">>}]
  /\ jobs' = jobs \cup {Job("reply", g, cal[g].seq, part, tick[g] + 1)}
  /\ UNCHANGED <<organizer, cal, mail, replies, ignored, faults, profile>>

-----------------------------------------------------------------------------
(* Answers that reach the organizer.                                         *)
AcceptableAnySeq(r) ==
  /\ inv.method = "REQUEST" /\ att[r.g].in
  /\ ~(prior[r.g].seq = r.seq /\ prior[r.g].n >= r.n)
Acceptable(r) ==
  /\ inv.method = "REQUEST" /\ r.seq = inv.seq /\ att[r.g].in
  /\ ~(prior[r.g].seq = r.seq /\ prior[r.g].n >= r.n)

\* An answer is recorded in the attendee's row.
Record(g, part, token) ==
  att' = [att EXCEPT ![g] = [in |-> TRUE, part |-> part, responded |-> TRUE, token |-> token]]

ApplyReply(r) ==
  IF Acceptable(r)
  THEN /\ Record(r.g, r.part, 0)
       /\ prior' = [prior EXCEPT ![r.g] = [seq |-> r.seq, n |-> r.n]]
       /\ Touch
  ELSE UNCHANGED <<att, prior, inv, creating>>

TakeInReply(r) ==
  /\ r \in replies /\ replies' = replies \ {r}
  /\ \/ ApplyReply(r) /\ UNCHANGED ignored
     \/ ignored' = ignored \cup {r.g} /\ UNCHANGED <<att, prior, inv, creating>>
  /\ UNCHANGED <<event, form, guests, jobs, mail, faults, profile>>

\* tokenRecord(): the link of the newest delivered invitation is looked up;
\* the form's body is read before respond() runs.
OpenForm(g) ==
  /\ "link" \in profile.ways /\ ~form[g].at /\ att[g].in /\ att[g].token > 0 /\ inv.method = "REQUEST"
  /\ form' = [form EXCEPT ![g] = [at |-> TRUE, seq |-> inv.seq]]
  /\ UNCHANGED <<event, inv, att, prior, creating, guests, jobs, mail, replies, ignored, faults, profile>>

StillOpen(g) == att[g].in /\ inv.seq = form[g].seq /\ ~att[g].responded

Submit(g, part) ==
  /\ form[g].at /\ form' = [form EXCEPT ![g] = NoForm]
  /\ said' = [said EXCEPT ![g] = @ \cup {<<form[g].seq, part, "link">>}]
  /\ IF StillOpen(g)
     THEN /\ Record(g, part, att[g].token)
          /\ jobs' = jobs \cup {Job("rsvp", g, form[g].seq, part, 1)}
          /\ Touch
     ELSE UNCHANGED <<att, jobs, inv, creating>>
  /\ UNCHANGED <<event, prior, cal, answer, tick, mail, replies, ignored, faults, profile>>

Next ==
  \/ Edit
  \/ \E s \in profile.slots, method \in Method : Create(s, method)
  \/ \E s \in Slot : Commit(s)
  \/ \E j \in jobs : DeliverInvitation(j) \/ DeliverReply(j)
  \/ \E m \in mail : TakeIn(m)
  \/ \E g \in Follow, part \in Answer : Respond(g, part) \/ Submit(g, part)
  \/ \E r \in replies : TakeInReply(r)
  \/ \E g \in Follow : OpenForm(g)

Spec == Init /\ [][Next]_vars

-----------------------------------------------------------------------------
(* Properties.                                                               *)
Concerns(g, S) == \E x \in S : x.g = g
Settled(g) == g \notin ignored /\ ~Concerns(g, mail)
              /\ ~Concerns(g, jobs) /\ ~Concerns(g, replies)

\* However revisions, edits and deliveries overlap, once all of a guest's
\* messages have been taken in, in any order, the guest's calendar shows the
\* revision in force if the guest is invited, and no live meeting otherwise: a
\* guest removed and invited again is not left cancelled, and one removed is not
\* left with the request (deliver of invitations.js, applyEvent of
\* inbound-calendar.js).  A guest who rejected a message in a review is exempt.
GuestsConverge == \A g \in Follow : Settled(g) =>
  IF att[g].in /\ inv.method = "REQUEST"
  THEN cal[g].kind = "REQUEST" /\ cal[g].seq = inv.seq
  ELSE cal[g].kind = "CANCEL"

\* An answer the organizer's record shows was given by that guest to the
\* revision in force: no reply to an earlier revision, late or re-ordered, and no
\* form opened before a revision counts for the new one.
AnswersAreCurrent == \A g \in Follow :
  att[g].responded => \E way \in {"mail", "link"} : <<inv.seq, att[g].part, way>> \in said[g]

\* A guest who has changed their mind by mail ends up recorded with the last
\* answer, whatever order the replies arrive in (applyReply's stamps).  Guests who
\* also answered by the link are exempt: the link's answer is final there.
LatestAnswerStands == \A g \in Follow :
  /\ Settled(g) /\ att[g].in /\ inv.method = "REQUEST" /\ answer[g].seq = inv.seq
  /\ \A part \in Answer : <<inv.seq, part, "link">> \notin said[g]
  => att[g].part = answer[g].part

\* The organizer's attendee list shows what the guests last said, and nothing else.
AnswersStand == AnswersAreCurrent /\ LatestAnswerStands

\* Requests that read the invitation at one time issue no two revisions under
\* one sequence number, and skip none: the loser of the race gets an error.
OneRevisionPerSequence == [][inv' # inv /\ inv'.current => inv'.seq = inv.seq + 1]_vars

\* A guest's calendar never goes back to an older revision, and a cancelled
\* meeting comes back only with a later revision, not by a delayed or repeated
\* message (applyEvent's comparison of sequence, then of stamp).
CalendarAdvances == [][\A g \in Follow :
  /\ cal'[g].seq >= cal[g].seq
  /\ cal[g].kind = "CANCEL" /\ cal'[g].kind = "REQUEST" => cal'[g].seq > cal[g].seq]_vars
=============================================================================
