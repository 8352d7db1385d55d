--------------------------- MODULE Calendar_proofs ---------------------------
(* Proofs about a meeting between its organizer and the guests, for every set  *)
(* of guests and every number of revisions, answers, faults and requests.      *)
EXTENDS Calendar, TLAPS

(* No message, job or answer is of a revision that has not been issued, and    *)
(* no guest has answered one that the calendar has not shown.                  *)
Bounded ==
  /\ \A g \in Guest : att[g].in => inv.seq > 0
  /\ \A g \in Follow : /\ cal[g].seq <= inv.seq /\ answer[g].seq <= cal[g].seq
                       /\ cal[g].kind = "REQUEST" => cal[g].seq > 0
  /\ \A m \in mail : 0 < m.seq /\ m.seq <= inv.seq
  /\ \A j \in jobs : 0 < j.seq /\ j.seq <= inv.seq
  /\ \A s \in Slot : creating[s].seq <= inv.seq

(* A revision invites a guest or cancels, and never both: all messages of one  *)
(* sequence number to one guest are of one kind, those yet to be sent too.     *)
OneKind ==
  /\ \A m \in mail : /\ \A o \in mail : o.g = m.g /\ o.seq = m.seq => o.kind = m.kind
                     /\ cal[m.g].seq = m.seq => cal[m.g].kind = m.kind
  /\ \A j \in jobs : j.kind = "removed" =>
       /\ \A m \in mail : m.g = j.g /\ m.seq = j.seq => m.kind = "CANCEL"
       /\ cal[j.g].seq = j.seq => cal[j.g].kind = "CANCEL"
       /\ j.seq = inv.seq => ~att[j.g].in /\ inv.method = "REQUEST"
  /\ \A g \in Follow : att[g].in =>
       /\ \A m \in mail : m.g = g /\ m.seq = inv.seq => m.kind = inv.method
       /\ cal[g].seq = inv.seq => cal[g].kind = inv.method

Mails(g, seq, kind) == \E m \in mail : m.g = g /\ m.seq = seq /\ m.kind = kind
Sends(kind, g, seq) == \E j \in jobs : j.kind = kind /\ j.g = g /\ j.seq = seq

(* The revision in force has reached an invited guest's calendar or is under   *)
(* way, and so has the cancellation that removed a guest, unless a later       *)
(* message has overtaken it; no request to that guest is newer.                *)
UnderWay ==
  \A g \in Follow \ ignored :
    IF att[g].in
    THEN \/ Sends("invite", g, inv.seq)
         \/ Mails(g, inv.seq, inv.method)
         \/ cal[g].seq = inv.seq
    ELSE \E s \in Nat :
           /\ s <= inv.seq
           /\ Sends("removed", g, s) \/ Mails(g, s, "CANCEL") \/ cal[g].seq >= s
           /\ cal[g].kind = "REQUEST" => cal[g].seq < s
           /\ \A m \in mail : m.g = g /\ m.kind = "REQUEST" => m.seq < s

(* Only a request is answered.                                                 *)
AnswerKind ==
  \A g \in Follow : answer[g].seq = cal[g].seq /\ answer[g].seq > 0 => cal[g].kind = "REQUEST"

Given(g, seq, part) == \E way \in {"mail", "link"} : <<seq, part, way>> \in said[g]

(* An answer recorded or under way has been given.                             *)
Said ==
  /\ \A g \in Follow : att[g].responded => Given(g, inv.seq, att[g].part)
  /\ \A j \in jobs : j.kind = "reply" => j.part \in Answer /\ Given(j.g, j.seq, j.part)
  /\ \A j \in jobs : j.kind = "rsvp" => j.part \in Answer /\ <<j.seq, j.part, "link">> \in said[j.g]
  /\ \A r \in replies : Given(r.g, r.seq, r.part)

(* Stamps are drawn from the guest's counter.                                  *)
Stamps ==
  /\ \A g \in Follow : prior[g].n <= tick[g]
  /\ \A j \in jobs : j.kind = "reply" => j.n <= tick[j.g]
  /\ \A r \in replies : r.n <= tick[r.g]

ByMail(g) == \A part \in Answer : <<inv.seq, part, "link">> \notin said[g]

(* The last answer has the stamp n: it is yet to be sent, on its way or        *)
(* recorded, and no other answer has a later stamp.                            *)
LastHolds(g, n) ==
  /\ \/ \E j \in jobs : /\ j.kind = "reply" /\ j.g = g /\ j.seq = inv.seq /\ j.n = n
     \/ \E r \in replies : r.g = g /\ r.seq = inv.seq /\ r.n = n
     \/ prior[g].seq = inv.seq /\ prior[g].n = n
  /\ prior[g].seq = inv.seq => prior[g].n <= n /\ (prior[g].n = n => att[g].part = answer[g].part)
  /\ \A r \in replies :
       r.g = g /\ r.seq = inv.seq => r.n <= n /\ (r.n = n => r.part = answer[g].part)
  /\ \A j \in jobs :
       j.kind = "reply" /\ j.g = g /\ j.seq = inv.seq => j.n <= n /\ (j.n = n => j.part = answer[g].part)

LastAnswer ==
  \A g \in Follow \ ignored :
    att[g].in /\ inv.method = "REQUEST" /\ answer[g].seq = inv.seq /\ ByMail(g)
      => \E n \in Nat : LastHolds(g, n)

IInv == TypeOK /\ Bounded /\ OneKind /\ UnderWay /\ AnswerKind /\ Said /\ Stamps /\ LastAnswer

-----------------------------------------------------------------------------
(* What the variables' components are.                                         *)
LEMMA Fields ==
  ASSUME TypeOK
  PROVE  /\ inv.seq \in Nat /\ inv.method \in Method /\ inv.current \in BOOLEAN
         /\ \A g \in Guest : /\ att[g] \in Attendee /\ att[g].in \in BOOLEAN /\ att[g].part \in Part
                             /\ att[g].responded \in BOOLEAN /\ att[g].token \in Nat
         /\ \A g \in Follow : /\ g \in Guest /\ prior[g].seq \in Nat /\ prior[g].n \in Nat
                              /\ cal[g].seq \in Nat /\ cal[g].n \in Nat /\ cal[g].kind \in Method
                              /\ answer[g].seq \in Nat /\ tick[g] \in Nat /\ form[g].seq \in Nat
         /\ \A s \in Slot : /\ creating[s] \in Creation /\ creating[s].seq \in Nat
                            /\ creating[s].method \in Method
         /\ \A m \in mail : /\ m \in Message /\ m.seq \in Nat /\ m.n \in Nat /\ m.kind \in Method
                            /\ m.g \in Follow
         /\ \A j \in jobs : /\ j \in Jobs /\ j.seq \in Nat /\ j.n \in Nat /\ j.g \in Follow
                            /\ j.part \in Part
         /\ \A r \in replies : /\ r \in Reply /\ r.seq \in Nat /\ r.n \in Nat /\ r.g \in Follow
                               /\ r.part \in Answer
         /\ profile \in Profile /\ profile.faults \in Nat /\ profile.slots \subseteq Slot
         /\ faults \in Nat
<1> USE DEF TypeOK, Seq, Try, Stamp
<1>1. inv.seq \in Nat /\ inv.method \in Method /\ inv.current \in BOOLEAN
  BY DEF Invitation
<1>2. ASSUME NEW g \in Guest
      PROVE  /\ att[g] \in Attendee /\ att[g].in \in BOOLEAN /\ att[g].part \in Part
             /\ att[g].responded \in BOOLEAN /\ att[g].token \in Nat
  <2>1. att[g] \in Attendee  OBVIOUS
  <2> QED  BY <2>1 DEF Attendee
<1>3. ASSUME NEW g \in Follow
      PROVE  /\ g \in Guest /\ prior[g].seq \in Nat /\ prior[g].n \in Nat
             /\ cal[g].seq \in Nat /\ cal[g].n \in Nat /\ cal[g].kind \in Method
             /\ answer[g].seq \in Nat /\ tick[g] \in Nat /\ form[g].seq \in Nat
  <2>1. cal[g] \in Shown /\ answer[g] \in Last /\ form[g] \in Form /\ prior[g] \in [seq : Nat, n : Nat]
        /\ tick[g] \in Nat
    OBVIOUS
  <2>2. g \in Guest  BY CalendarAssumption
  <2> QED  BY <2>1, <2>2 DEF Shown, Last, Form
<1>4. ASSUME NEW s \in Slot
      PROVE  creating[s] \in Creation /\ creating[s].seq \in Nat /\ creating[s].method \in Method
  <2>1. creating[s] \in Creation  OBVIOUS
  <2> QED  BY <2>1 DEF Creation
<1>5. ASSUME NEW m \in mail
      PROVE  /\ m \in Message /\ m.seq \in Nat /\ m.n \in Nat /\ m.kind \in Method
             /\ m.g \in Follow
  <2>1. m \in Message  OBVIOUS
  <2> QED  BY <2>1 DEF Message
<1>6. ASSUME NEW j \in jobs
      PROVE  j \in Jobs /\ j.seq \in Nat /\ j.n \in Nat /\ j.g \in Follow /\ j.part \in Part
  <2>1. j \in Jobs  OBVIOUS
  <2> QED  BY <2>1 DEF Jobs
<1>7. ASSUME NEW r \in replies
      PROVE  r \in Reply /\ r.seq \in Nat /\ r.n \in Nat /\ r.g \in Follow /\ r.part \in Answer
  <2>1. r \in Reply  OBVIOUS
  <2> QED  BY <2>1 DEF Reply
<1>8. profile \in Profile /\ profile.faults \in Nat /\ profile.slots \subseteq Slot
  BY CalendarAssumption
<1>9. faults \in Nat  BY <1>8
<1> QED  BY <1>1, <1>2, <1>3, <1>4, <1>5, <1>6, <1>7, <1>8, <1>9

(* The revision and the invited guests stay; requests to revise that are under *)
(* way know no later revision.                                                 *)
Steady ==
  /\ inv' \in Invitation /\ inv'.seq = inv.seq /\ inv'.method = inv.method
  /\ creating' \in [Slot -> Creation]
  /\ \A s \in Slot : creating'[s].seq <= inv.seq
  /\ att' \in [Guest -> Attendee]
  /\ \A g \in Guest : /\ att'[g].in = att[g].in
                      /\ ~att[g].in => att'[g] = att[g]
                      /\ inv.method = "CANCEL" => att'[g].token = 0

LEMMA TouchSteady ==
  ASSUME TypeOK, Bounded, Touch
  PROVE  /\ inv' \in Invitation /\ inv'.seq = inv.seq /\ inv'.method = inv.method
         /\ inv'.current = FALSE
         /\ creating' \in [Slot -> Creation] /\ \A s \in Slot : creating'[s].seq <= inv.seq
<1>1. inv' = [inv EXCEPT !.current = FALSE] /\ inv \in Invitation  BY DEF Touch, TypeOK
<1>2. inv' \in Invitation /\ inv'.seq = inv.seq /\ inv'.method = inv.method /\ inv'.current = FALSE
  BY <1>1 DEF Invitation
<1>3. ASSUME NEW s \in Slot
      PROVE  creating'[s] \in Creation /\ creating'[s].seq = creating[s].seq
  <2>1. creating'[s] = [creating[s] EXCEPT !.current = FALSE]  BY DEF Touch
  <2> QED  BY <2>1, Fields DEF Creation
<1>4. creating' = [s \in Slot |-> creating'[s]]  BY DEF Touch
<1> QED  BY <1>2, <1>3, <1>4 DEF Bounded

LEMMA UntouchedSteady ==
  ASSUME TypeOK, Bounded, UNCHANGED <<inv, att, creating>>
  PROVE  Steady
BY DEF TypeOK, Bounded, Steady, Invited

(* The rest of the types, when the organizer's tables are typed.               *)
LEMMA SteadyTypes ==
  ASSUME TypeOK, Steady,
         UNCHANGED profile, event' \subseteq Guest, faults' \in 0..profile.faults,
         prior' \in [Follow -> [seq : Seq, n : Stamp]], form' \in [Follow -> Form],
         jobs' \subseteq Jobs, mail' \subseteq Message, replies' \subseteq Reply,
         cal' \in [Follow -> Shown], answer' \in [Follow -> Last], tick' \in [Follow -> Stamp],
         said' \in [Follow -> SUBSET (Seq \X Answer \X {"mail", "link"})], ignored' \subseteq Follow
  PROVE  TypeOK'
<1>1. \A g \in Guest \ Invited' : att'[g] = NotInvited
  BY DEF TypeOK, Steady, Invited
<1>2. \A g \in Guest : inv'.method = "CANCEL" => att'[g].token = 0
  BY DEF Steady
<1> QED  BY <1>1, <1>2 DEF TypeOK, Steady

(* A step that adds no message, job or answer of a new revision.               *)
LEMMA SteadyBounds ==
  ASSUME TypeOK, Bounded, Steady, UNCHANGED <<cal, answer>>, mail' \subseteq mail,
         \A j \in jobs' : 0 < j.seq /\ j.seq <= inv.seq
  PROVE  Bounded'
BY DEF Bounded, Steady

LEMMA SteadyKinds ==
  ASSUME TypeOK, OneKind, Steady, UNCHANGED cal, mail' \subseteq mail,
         \A j \in jobs' : j.kind = "removed" => \E i \in jobs : i.kind = "removed" /\ i.g = j.g /\ i.seq = j.seq
  PROVE  OneKind'
<1>1. \A g \in Follow : g \in Guest  BY Fields
<1>2. \A j \in jobs : j.g \in Follow  BY Fields
<1>3. \A m \in mail' : m \in mail  OBVIOUS
<1>4. \A m \in mail' : /\ \A o \in mail' : o.g = m.g /\ o.seq = m.seq => o.kind = m.kind
                       /\ cal'[m.g].seq = m.seq => cal'[m.g].kind = m.kind
  BY <1>3 DEF OneKind
<1>5. ASSUME NEW j \in jobs', j.kind = "removed"
      PROVE  /\ \A m \in mail' : m.g = j.g /\ m.seq = j.seq => m.kind = "CANCEL"
             /\ cal'[j.g].seq = j.seq => cal'[j.g].kind = "CANCEL"
             /\ j.seq = inv'.seq => ~att'[j.g].in /\ inv'.method = "REQUEST"
  <2>1. PICK i \in jobs : i.kind = "removed" /\ i.g = j.g /\ i.seq = j.seq  BY <1>5
  <2> QED  BY <1>1, <1>2, <1>3, <2>1 DEF OneKind, Steady
<1>6. ASSUME NEW g \in Follow, att'[g].in
      PROVE  /\ \A m \in mail' : m.g = g /\ m.seq = inv'.seq => m.kind = inv'.method
             /\ cal'[g].seq = inv'.seq => cal'[g].kind = inv'.method
  BY <1>1, <1>3, <1>6 DEF OneKind, Steady
<1> QED  BY <1>4, <1>5, <1>6 DEF OneKind

LEMMA SteadyUnderWay ==
  ASSUME TypeOK, UnderWay, Steady, UNCHANGED <<cal, mail>>, ignored \subseteq ignored',
         \A j \in jobs : j.kind \in {"invite", "removed"} =>
           \E i \in jobs' : i.kind = j.kind /\ i.g = j.g /\ i.seq = j.seq
  PROVE  UnderWay'
<1> SUFFICES ASSUME NEW g \in Follow \ ignored'
             PROVE  IF att'[g].in
                    THEN \/ Sends("invite", g, inv.seq)'
                         \/ Mails(g, inv.seq, inv.method)'
                         \/ cal'[g].seq = inv'.seq
                    ELSE \E s \in Nat :
                           /\ s <= inv'.seq
                           /\ Sends("removed", g, s)' \/ Mails(g, s, "CANCEL")' \/ cal'[g].seq >= s
                           /\ cal'[g].kind = "REQUEST" => cal'[g].seq < s
                           /\ \A m \in mail' : m.g = g /\ m.kind = "REQUEST" => m.seq < s
  BY DEF UnderWay
<1>1. g \in Guest /\ g \in Follow \ ignored  BY Fields
<1>2. \A s : Sends("invite", g, s) => Sends("invite", g, s)'  BY DEF Sends
<1>3. \A s : Sends("removed", g, s) => Sends("removed", g, s)'  BY DEF Sends
<1>4. \A s, kind : Mails(g, s, kind)' = Mails(g, s, kind)  BY DEF Mails
<1>5. att'[g].in = att[g].in /\ inv'.seq = inv.seq /\ inv'.method = inv.method /\ cal' = cal /\ mail' = mail
  BY <1>1 DEF Steady
<1>6. CASE att[g].in
  BY <1>1, <1>2, <1>4, <1>5, <1>6 DEF UnderWay
<1>7. CASE ~att[g].in
  <2>1. PICK s \in Nat :
          /\ s <= inv.seq
          /\ Sends("removed", g, s) \/ Mails(g, s, "CANCEL") \/ cal[g].seq >= s
          /\ cal[g].kind = "REQUEST" => cal[g].seq < s
          /\ \A m \in mail : m.g = g /\ m.kind = "REQUEST" => m.seq < s
    BY <1>1, <1>7 DEF UnderWay
  <2> QED  BY <1>3, <1>4, <1>5, <1>7, <2>1
<1> QED  BY <1>6, <1>7

(* A step that takes and gives no answer.                                      *)
LEMMA SteadySaid ==
  ASSUME TypeOK, Said, Steady, UNCHANGED <<said, replies>>,
         \A g \in Guest : att'[g].responded = att[g].responded /\ att'[g].part = att[g].part,
         \A j \in jobs' : j.kind \in {"reply", "rsvp"} => j \in jobs
  PROVE  Said'
BY Fields DEF Said, Given, Steady

LEMMA SteadyStamps ==
  ASSUME TypeOK, Stamps, UNCHANGED <<prior, tick, replies>>,
         \A j \in jobs' : j.kind = "reply" => j \in jobs
  PROVE  Stamps'
BY DEF Stamps

LEMMA SteadyAnswers ==
  ASSUME TypeOK, LastAnswer, Steady, UNCHANGED <<said, replies, prior, tick, answer>>,
         \A g \in Guest : att'[g].part = att[g].part, ignored \subseteq ignored',
         \A j : j.kind = "reply" => (j \in jobs' <=> j \in jobs)
  PROVE  LastAnswer'
<1> SUFFICES ASSUME NEW g \in Follow \ ignored', att'[g].in, inv'.method = "REQUEST",
                    answer'[g].seq = inv'.seq, ByMail(g)'
             PROVE  \E n \in Nat : LastHolds(g, n)'
  BY DEF LastAnswer
<1>1. g \in Guest /\ inv'.seq = inv.seq  BY Fields DEF Steady
<1>2. PICK n \in Nat : LastHolds(g, n)
  BY <1>1 DEF LastAnswer, Steady, ByMail
<1>3. LastHolds(g, n)'
  BY <1>1, <1>2 DEF LastHolds
<1> QED  BY <1>3

-----------------------------------------------------------------------------
LEMMA EditInv ==
  ASSUME IInv, Edit
  PROVE  IInv'
<1> USE DEF IInv
<1>1. /\ event' \subseteq Guest /\ Touch
      /\ UNCHANGED <<att, prior, form, cal, answer, tick, said, jobs, mail, replies, ignored, faults, profile>>
  BY DEF Edit, guests
<1>2. Steady  BY <1>1, TouchSteady DEF Steady, TypeOK, Invited
<1>3. TypeOK'  BY <1>1, <1>2, SteadyTypes DEF TypeOK
<1>4. Bounded'  BY <1>1, <1>2, SteadyBounds DEF Bounded
<1>5. OneKind'  BY <1>1, <1>2, SteadyKinds
<1>6. UnderWay'  BY <1>1, <1>2, SteadyUnderWay
<1>7. AnswerKind'  BY <1>1 DEF AnswerKind
<1>8. Said'  BY <1>1, <1>2, SteadySaid
<1>9. Stamps'  BY <1>1, SteadyStamps
<1>10. LastAnswer'  BY <1>1, <1>2, SteadyAnswers
<1> QED  BY <1>3, <1>4, <1>5, <1>6, <1>7, <1>8, <1>9, <1>10

LEMMA CreateInv ==
  ASSUME IInv, NEW s \in Slot, NEW method \in Method, Create(s, method)
  PROVE  IInv'
<1> USE DEF IInv
<1>1. /\ creating' = [creating EXCEPT ![s] =
           [at |-> TRUE, method |-> method, seq |-> inv.seq, current |-> TRUE]]
      /\ UNCHANGED <<event, inv, att, prior, form, cal, answer, tick, said, jobs, mail, replies,
                     ignored, faults, profile>>
  BY DEF Create, guests
<1>2. Steady
  <2>1. [at |-> TRUE, method |-> method, seq |-> inv.seq, current |-> TRUE] \in Creation
    BY Fields DEF Creation, Seq
  <2>2. creating' \in [Slot -> Creation] /\ \A t \in Slot : creating'[t].seq <= inv.seq
    BY <1>1, <2>1, Fields DEF TypeOK, Bounded
  <2> QED  BY <1>1, <2>2 DEF Steady, TypeOK, Invited
<1>3. TypeOK'  BY <1>1, <1>2, SteadyTypes DEF TypeOK
<1>4. Bounded'  BY <1>1, <1>2, SteadyBounds DEF Bounded
<1>5. OneKind'  BY <1>1, <1>2, SteadyKinds
<1>6. UnderWay'  BY <1>1, <1>2, SteadyUnderWay
<1>7. AnswerKind'  BY <1>1 DEF AnswerKind
<1>8. Said'  BY <1>1, <1>2, SteadySaid
<1>9. Stamps'  BY <1>1, SteadyStamps
<1>10. LastAnswer'  BY <1>1, <1>2, SteadyAnswers
<1> QED  BY <1>3, <1>4, <1>5, <1>6, <1>7, <1>8, <1>9, <1>10

(* A new revision: nothing of its number exists yet.                           *)
LEMMA ReviseInv ==
  ASSUME IInv, NEW s \in Slot, UnchangedSince(s), Revise(s),
         creating' = [creating EXCEPT ![s] = Idle],
         UNCHANGED <<event, prior, form, cal, answer, tick, said, mail, replies, ignored, faults, profile>>
  PROVE  IInv'
<1> USE DEF IInv
<1> DEFINE method == creating[s].method
           n == creating[s].seq + 1
           invites == {Job("invite", g, n, "NEEDS-ACTION", 1) : g \in Emails(method) \cap Follow}
           removals == {Job("removed", g, n, att[g].part, 1) : g \in Removed(method) \cap Follow}
<1>1. /\ inv' = [seq |-> n, method |-> method, current |-> TRUE]
      /\ att' = [g \in Guest |-> IF g \in Emails(method) THEN Row(g, method) ELSE NotInvited]
      /\ jobs' = jobs \cup invites \cup removals
  BY DEF Revise
<1>2. n = inv.seq + 1 /\ n \in Nat /\ n > inv.seq /\ inv.seq \in Nat /\ method \in Method
  BY Fields DEF UnchangedSince
<1>3. /\ \A j \in invites : /\ j \in Jobs /\ j.kind = "invite" /\ j.seq = n
                            /\ j.g \in Emails(method) \cap Follow
      /\ \A j \in removals : /\ j \in Jobs /\ j.kind = "removed" /\ j.seq = n
                             /\ j.g \in Removed(method) \cap Follow
  BY <1>2, Fields DEF Job, Jobs, Seq, Part
<1>4. /\ \A g \in Emails(method) \cap Follow : \E j \in invites : j.kind = "invite" /\ j.g = g /\ j.seq = n
      /\ \A g \in Removed(method) \cap Follow : \E j \in removals : j.kind = "removed" /\ j.g = g /\ j.seq = n
  <2>1. ASSUME NEW g \in Emails(method) \cap Follow
        PROVE  \E j \in invites : j.kind = "invite" /\ j.g = g /\ j.seq = n
    <3>1. Job("invite", g, n, "NEEDS-ACTION", 1) \in invites  OBVIOUS
    <3> QED  BY <3>1 DEF Job
  <2>2. ASSUME NEW g \in Removed(method) \cap Follow
        PROVE  \E j \in removals : j.kind = "removed" /\ j.g = g /\ j.seq = n
    <3>1. Job("removed", g, n, att[g].part, 1) \in removals  OBVIOUS
    <3> QED  BY <3>1 DEF Job
  <2> QED  BY <2>1, <2>2
<1> HIDE DEF invites, removals
<1>5. inv'.seq = n /\ inv'.method = method /\ inv' \in Invitation
  BY <1>1, <1>2 DEF Invitation, Seq
<1>6. ASSUME NEW g \in Guest
      PROVE  /\ att'[g] \in Attendee /\ (att'[g].in <=> g \in Emails(method)) /\ ~att'[g].responded
             /\ att'[g].token = 0 /\ (~att'[g].in => att'[g] = NotInvited)
  <2>1. CASE g \in Emails(method)
    <3>1. att'[g] = Row(g, method)  BY <1>1, <2>1
    <3>2. Row(g, method) \in Attendee  BY Fields DEF Row, Attendee, Try, Part
    <3> QED  BY <2>1, <3>1, <3>2 DEF Row
  <2>2. CASE g \notin Emails(method)
    <3>1. att'[g] = NotInvited  BY <1>1, <2>2
    <3>2. NotInvited \in Attendee  BY DEF NotInvited, Attendee, Try, Part
    <3> QED  BY <2>2, <3>1, <3>2 DEF NotInvited
  <2> QED  BY <2>1, <2>2
<1>7. att' \in [Guest -> Attendee]
  <2>1. att' = [g \in Guest |-> att'[g]]  BY <1>1
  <2> QED  BY <1>6, <2>1
<1>8. creating' \in [Slot -> Creation] /\ \A t \in Slot : creating'[t].seq <= inv.seq
  <2>1. Idle \in Creation /\ Idle.seq = 0  BY DEF Idle, Creation, Method, Seq
  <2> QED  BY <2>1, Fields DEF TypeOK, Bounded
<1> HIDE DEF n, method
<1>9. TypeOK'
  <2>1. jobs' \subseteq Jobs  BY <1>1, <1>3 DEF TypeOK
  <2>2. \A g \in Guest \ Invited' : att'[g] = NotInvited  BY <1>6 DEF Invited
  <2> QED  BY <1>5, <1>6, <1>7, <1>8, <2>1, <2>2 DEF TypeOK
<1>10. Bounded'
  <2>1. \A j \in jobs' : 0 < j.seq /\ j.seq <= n  BY <1>1, <1>2, <1>3, Fields DEF Bounded
  <2>2. \A g \in Follow : cal[g].seq <= n  BY <1>2, Fields DEF Bounded
  <2>3. \A m \in mail : m.seq <= n  BY <1>2, Fields DEF Bounded
  <2>4. \A t \in Slot : creating'[t].seq <= n  BY <1>2, <1>8, Fields DEF Creation, Seq
  <2> QED  BY <1>2, <1>5, <2>1, <2>2, <2>3, <2>4 DEF Bounded
<1>11. OneKind'
  <2>1. \A m \in mail : m.seq < n  BY <1>2, Fields DEF Bounded
  <2>2. \A g \in Follow : cal[g].seq < n  BY <1>2, Fields DEF Bounded
  <2>3. \A j \in jobs : j.seq < n  BY <1>2, Fields DEF Bounded
  <2>4. ASSUME NEW j \in jobs', j.kind = "removed"
        PROVE  /\ \A m \in mail : m.g = j.g /\ m.seq = j.seq => m.kind = "CANCEL"
               /\ cal[j.g].seq = j.seq => cal[j.g].kind = "CANCEL"
               /\ j.seq = n => ~att'[j.g].in /\ method = "REQUEST"
    <3>1. CASE j \in jobs  BY <2>3, <2>4, <3>1, Fields DEF OneKind
    <3>2. CASE j \in removals
      <4>1. j.seq = n /\ j.g \in Removed(method) /\ j.g \in Follow  BY <1>3, <3>2
      <4>2. method = "REQUEST" /\ j.g \notin Emails(method) /\ j.g \in Guest
        BY <1>2, <4>1, Fields DEF Removed, Emails, Method
      <4>3. \A m \in mail : m.seq # j.seq  BY <2>1, <4>1, Fields
      <4>4. cal[j.g].seq # j.seq  BY <2>2, <4>1, Fields
      <4> QED  BY <1>6, <4>2, <4>3, <4>4
    <3> QED  BY <1>1, <1>3, <2>4, <3>1, <3>2
  <2>5. \A m \in mail : m.seq # n  BY <1>2, <2>1, Fields
  <2>6. \A g \in Follow : cal[g].seq # n  BY <1>2, <2>2, Fields
  <2> QED  BY <1>5, <2>4, <2>5, <2>6 DEF OneKind
<1>12. UnderWay'
  <2> SUFFICES ASSUME NEW g \in Follow \ ignored
               PROVE  IF att'[g].in
                      THEN \E j \in jobs' : j.kind = "invite" /\ j.g = g /\ j.seq = n
                      ELSE \E t \in Nat :
                             /\ t <= n
                             /\ \/ \E j \in jobs' : j.kind = "removed" /\ j.g = g /\ j.seq = t
                                \/ Mails(g, t, "CANCEL")
                                \/ cal[g].seq >= t
                             /\ cal[g].kind = "REQUEST" => cal[g].seq < t
                             /\ \A m \in mail : m.g = g /\ m.kind = "REQUEST" => m.seq < t
    BY <1>5 DEF UnderWay, Mails, Sends
  <2>1. g \in Guest  BY Fields
  <2>2. CASE g \in Emails(method)
    BY <1>1, <1>4, <1>6, <2>1, <2>2
  <2>3. CASE g \in Removed(method)
    <3>1. \E j \in jobs' : j.kind = "removed" /\ j.g = g /\ j.seq = n  BY <1>1, <1>4, <2>3
    <3>2. cal[g].seq < n /\ (\A m \in mail : m.seq < n) /\ n <= n  BY <1>2, Fields DEF Bounded
    <3>3. ~att'[g].in  BY <1>6, <2>1, <2>3 DEF Removed, Emails
    <3> QED  BY <1>2, <3>1, <3>2, <3>3
  <2>4. CASE g \notin Emails(method) /\ g \notin Removed(method)
    <3>1. ~att[g].in /\ ~att'[g].in  BY <1>6, <2>1, <2>4 DEF Removed, Emails, Invited
    <3>2. PICK t \in Nat :
            /\ t <= inv.seq
            /\ Sends("removed", g, t) \/ Mails(g, t, "CANCEL") \/ cal[g].seq >= t
            /\ cal[g].kind = "REQUEST" => cal[g].seq < t
            /\ \A m \in mail : m.g = g /\ m.kind = "REQUEST" => m.seq < t
      BY <3>1 DEF UnderWay
    <3>3. Sends("removed", g, t) => \E j \in jobs' : j.kind = "removed" /\ j.g = g /\ j.seq = t
      BY <1>1 DEF Sends
    <3>4. t <= n  BY <1>2, <3>2
    <3> QED  BY <3>1, <3>2, <3>3, <3>4
  <2> QED  BY <2>2, <2>3, <2>4
<1>13. AnswerKind'  BY DEF AnswerKind
<1>14. Said'
  <2>1. \A j \in jobs' : j.kind \in {"reply", "rsvp"} => j \in jobs  BY <1>1, <1>3
  <2>2. \A g \in Follow : ~att'[g].responded  BY <1>6, Fields
  <2> QED  BY <2>1, <2>2 DEF Said, Given
<1>15. Stamps'
  <2>1. \A j \in jobs' : j.kind = "reply" => j \in jobs  BY <1>1, <1>3
  <2> QED  BY <2>1 DEF Stamps
<1>16. LastAnswer'
  <2>1. \A g \in Follow : answer[g].seq < n
    BY <1>2, Fields DEF Bounded
  <2>2. \A g \in Follow : answer[g].seq # n  BY <1>2, <2>1, Fields
  <2> QED  BY <1>5, <2>2 DEF LastAnswer
<1> QED  BY <1>9, <1>10, <1>11, <1>12, <1>13, <1>14, <1>15, <1>16

LEMMA CommitInv ==
  ASSUME IInv, NEW s \in Slot, Commit(s)
  PROVE  IInv'
<1> USE DEF IInv
<1>1. /\ creating' = [creating EXCEPT ![s] = Idle]
      /\ UNCHANGED <<event, prior, form, cal, answer, tick, said, mail, replies, ignored, faults, profile>>
  BY DEF Commit, guests
<1>2. CASE UnchangedSince(s) /\ Revise(s)
  BY <1>1, <1>2, ReviseInv
<1>3. CASE UNCHANGED <<inv, att, jobs>>
  <2>1. Steady
    <3>1. Idle \in Creation /\ Idle.seq = 0  BY DEF Idle, Creation, Method, Seq
    <3>2. creating' \in [Slot -> Creation] /\ \A t \in Slot : creating'[t].seq <= inv.seq
      BY <1>1, <3>1, Fields DEF TypeOK, Bounded
    <3> QED  BY <1>3, <3>2 DEF Steady, TypeOK, Invited
  <2>3. TypeOK'  BY <1>1, <1>3, <2>1, SteadyTypes DEF TypeOK
  <2>4. Bounded'  BY <1>1, <1>3, <2>1, SteadyBounds DEF Bounded
  <2>5. OneKind'  BY <1>1, <1>3, <2>1, SteadyKinds
  <2>6. UnderWay'  BY <1>1, <1>3, <2>1, SteadyUnderWay
  <2>7. AnswerKind'  BY <1>1 DEF AnswerKind
  <2>8. Said'  BY <1>1, <1>3, <2>1, SteadySaid
  <2>9. Stamps'  BY <1>1, <1>3, SteadyStamps
  <2>10. LastAnswer'  BY <1>1, <1>3, <2>1, SteadyAnswers
  <2> QED  BY <2>3, <2>4, <2>5, <2>6, <2>7, <2>8, <2>9, <2>10
<1> QED  BY <1>2, <1>3 DEF Commit

LEMMA AgainType ==
  ASSUME NEW j \in Jobs
  PROVE  LET i == [j EXCEPT !.n = @ + 1] IN
         i \in Jobs /\ i.kind = j.kind /\ i.g = j.g /\ i.seq = j.seq /\ i.part = j.part
BY DEF Jobs

LEMMA DeliverInvitationInv ==
  ASSUME IInv, NEW j \in jobs, DeliverInvitation(j)
  PROVE  IInv'
<1> USE DEF IInv
<1> DEFINE kind == IF j.kind = "removed" THEN "CANCEL" ELSE inv.method
           m == [g |-> j.g, kind |-> kind, seq |-> j.seq, n |-> j.n]
           i == [j EXCEPT !.n = @ + 1]
<1>1. /\ j.kind \in {"invite", "removed"}
      /\ UNCHANGED <<event, inv, prior, creating, form, cal, answer, tick, said, replies, ignored, profile>>
      /\ \/ Superseded(j) /\ Done(j) /\ UNCHANGED <<att, mail>>
         \/ /\ ~Superseded(j)
            /\ att' = IF kind = "REQUEST" /\ ~att[j.g].responded THEN [att EXCEPT ![j.g].token = j.n] ELSE att
            /\ \/ mail' = mail \cup {m} /\ (Done(j) \/ Again(j))
               \/ mail' = mail /\ Again(j)
  BY DEF DeliverInvitation, guests
<1>2. /\ i \in Jobs /\ i.kind = j.kind /\ i.g = j.g /\ i.seq = j.seq /\ i.part = j.part
      /\ j \in Jobs /\ j.g \in Follow /\ j.g \in Guest /\ j.seq \in Nat /\ j.n \in Nat
  BY AgainType, Fields
<1>3. /\ jobs' = jobs \ {j} \/ jobs' = (jobs \ {j}) \cup {i}
      /\ faults' \in 0..profile.faults
  <2>1. Done(j) => jobs' = jobs \ {j} /\ faults' \in 0..profile.faults
    BY DEF Done, TypeOK
  <2>2. Again(j) => jobs' = (jobs \ {j}) \cup {i} /\ faults' \in 0..profile.faults
    BY Fields DEF Again, TypeOK
  <2> QED  BY <1>1, <2>1, <2>2
<1>4. m \in Message /\ m.g = j.g /\ m.kind = kind /\ m.seq = j.seq
  <2>1. inv.method \in Method  BY Fields
  <2>2. kind \in Method  BY <2>1 DEF Method
  <2> QED  BY <1>2, <2>2 DEF Message, Seq, Try
<1>5. Superseded(j) \/ m \in mail' \/ i \in jobs'
  BY <1>1 DEF Again
<1>6. mail \subseteq mail' /\ mail' \subseteq mail \cup {m} /\ (Superseded(j) => mail' = mail)
  BY <1>1
<1>7. j.kind = "invite" /\ ~Superseded(j) => j.seq = inv.seq /\ att[j.g].in
  BY DEF Superseded
<1>8. j.kind = "removed" => ~Superseded(j) /\ kind = "CANCEL"
  BY DEF Superseded
<1>9. j.kind = "invite" => kind = inv.method
  OBVIOUS
<1>10. Steady
  <2>1. att' = att \/ (kind = "REQUEST" /\ ~Superseded(j) /\ att' = [att EXCEPT ![j.g].token = j.n])
    BY <1>1
  <2>2. ASSUME kind = "REQUEST", ~Superseded(j), att' = [att EXCEPT ![j.g].token = j.n]
        PROVE  Steady
    <3>1. j.kind = "invite" /\ inv.method = "REQUEST" /\ att[j.g].in
      BY <1>1, <1>7, <1>8, <2>2
    <3>2. [att[j.g] EXCEPT !.token = j.n] \in Attendee  BY <1>2, Fields DEF Attendee, Try
    <3>3. att' \in [Guest -> Attendee]  BY <1>2, <2>2, <3>2 DEF TypeOK
    <3>4. \A g \in Guest : g # j.g => att'[g] = att[g]  BY <2>2 DEF TypeOK
    <3>5. att'[j.g] = [att[j.g] EXCEPT !.token = j.n]  BY <1>2, <2>2 DEF TypeOK
    <3>6. att'[j.g].in  BY <1>2, <3>1, <3>5, Fields DEF Attendee
    <3>7. inv' = inv /\ creating' = creating  BY <1>1
    <3>8. \A g \in Guest : /\ att'[g].in <=> att[g].in
                          /\ ~att[g].in => att'[g] = att[g]
      BY <3>1, <3>4, <3>6
    <3>9. \A g \in Guest : att'[g].in = att[g].in
      <4>1. att'[j.g].in = att[j.g].in  BY <1>2, <3>5, Fields DEF Attendee
      <4> QED  BY <3>4, <4>1
    <3> QED  BY <3>1, <3>3, <3>7, <3>8, <3>9 DEF Steady, TypeOK, Bounded
  <2>3. ASSUME att' = att PROVE Steady
    BY <1>1, <2>3, UntouchedSteady
  <2> QED  BY <2>1, <2>2, <2>3
<1>11. \A g \in Guest : att'[g].responded = att[g].responded /\ att'[g].part = att[g].part
  <2>1. att' = att \/ att' = [att EXCEPT ![j.g].token = j.n]  BY <1>1
  <2>2. ASSUME att' = [att EXCEPT ![j.g].token = j.n], NEW g \in Guest
        PROVE  att'[g].responded = att[g].responded /\ att'[g].part = att[g].part
    <3>1. att'[g] = att[g] \/ att'[g] = [att[g] EXCEPT !.token = j.n]  BY <2>2 DEF TypeOK
    <3> QED  BY <3>1, Fields DEF Attendee
  <2> QED  BY <2>1, <2>2
<1>12. inv' = inv /\ cal' = cal /\ answer' = answer  BY <1>1
<1> HIDE DEF kind, m, i
<1>13. TypeOK'  BY <1>1, <1>2, <1>3, <1>4, <1>6, <1>10, SteadyTypes DEF TypeOK
<1>14. /\ 0 < j.seq /\ j.seq <= inv.seq
       /\ \A o \in jobs' : 0 < o.seq /\ o.seq <= inv.seq
       /\ \A o \in mail' : 0 < o.seq /\ o.seq <= inv.seq
  BY <1>2, <1>3, <1>4, <1>6 DEF Bounded
<1>15. Bounded'
  BY <1>10, <1>12, <1>14 DEF Bounded, Steady
<1>16. \A o \in jobs' : o.kind = "removed" =>
         \E p \in jobs : p.kind = "removed" /\ p.g = o.g /\ p.seq = o.seq
  BY <1>2, <1>3
<1>17. OneKind'
  <2>1. CASE mail' = mail
    BY <1>10, <1>12, <1>16, <2>1, SteadyKinds
  <2>2. CASE mail' = mail \cup {m} /\ ~Superseded(j)
    <3>1. /\ \A o \in mail : o.g = j.g /\ o.seq = j.seq => o.kind = kind
          /\ cal[j.g].seq = j.seq => cal[j.g].kind = kind
      <4>1. CASE j.kind = "removed"  BY <1>8, <4>1 DEF OneKind
      <4>2. CASE j.kind = "invite"  BY <1>2, <1>7, <1>9, <2>2, <4>2 DEF OneKind
      <4> QED  BY <1>1, <4>1, <4>2
    <3>2. \A o \in mail' : /\ \A p \in mail' : p.g = o.g /\ p.seq = o.seq => p.kind = o.kind
                           /\ cal[o.g].seq = o.seq => cal[o.g].kind = o.kind
      BY <1>4, <2>2, <3>1 DEF OneKind
    <3>3. ASSUME NEW o \in jobs', o.kind = "removed"
          PROVE  /\ \A p \in mail' : p.g = o.g /\ p.seq = o.seq => p.kind = "CANCEL"
                 /\ cal[o.g].seq = o.seq => cal[o.g].kind = "CANCEL"
                 /\ o.seq = inv.seq => ~att[o.g].in /\ inv.method = "REQUEST"
      <4>1. PICK p \in jobs : p.kind = "removed" /\ p.g = o.g /\ p.seq = o.seq  BY <1>16, <3>3
      <4>2. /\ \A q \in mail : q.g = o.g /\ q.seq = o.seq => q.kind = "CANCEL"
            /\ cal[o.g].seq = o.seq => cal[o.g].kind = "CANCEL"
            /\ o.seq = inv.seq => ~att[o.g].in /\ inv.method = "REQUEST"
        BY <4>1 DEF OneKind
      <4>3. m.g = o.g /\ m.seq = o.seq => m.kind = "CANCEL"
        BY <1>1, <1>4, <1>7, <1>8, <2>2, <4>2
      <4> QED  BY <2>2, <4>2, <4>3
    <3>4. ASSUME NEW g \in Follow, att[g].in
          PROVE  /\ \A o \in mail' : o.g = g /\ o.seq = inv.seq => o.kind = inv.method
                 /\ cal[g].seq = inv.seq => cal[g].kind = inv.method
      <4>1. m.g = g /\ m.seq = inv.seq => m.kind = inv.method
        <5>1. CASE j.kind = "removed"  BY <1>4, <3>4, <5>1 DEF OneKind
        <5>2. CASE j.kind = "invite"  BY <1>4, <1>9, <5>2
        <5> QED  BY <1>1, <5>1, <5>2
      <4> QED  BY <2>2, <3>4, <4>1 DEF OneKind
    <3>5. \A g \in Follow : att'[g].in = att[g].in  BY <1>10, Fields DEF Steady
    <3>6. \A o \in jobs' : o.g \in Follow  BY <1>2, <1>3, Fields
    <3> QED  BY <1>12, <3>2, <3>3, <3>4, <3>5, <3>6 DEF OneKind
  <2> QED  BY <1>1, <2>1, <2>2 DEF m, kind
<1>18. UnderWay'
  <2> SUFFICES ASSUME NEW g \in Follow \ ignored
               PROVE  IF att[g].in
                      THEN \/ Sends("invite", g, inv.seq)'
                           \/ Mails(g, inv.seq, inv.method)'
                           \/ cal[g].seq = inv.seq
                      ELSE \E s \in Nat :
                             /\ s <= inv.seq
                             /\ Sends("removed", g, s)' \/ Mails(g, s, "CANCEL")' \/ cal[g].seq >= s
                             /\ cal[g].kind = "REQUEST" => cal[g].seq < s
                             /\ \A o \in mail' : o.g = g /\ o.kind = "REQUEST" => o.seq < s
    <3>1. \A g \in Follow : att'[g].in = att[g].in  BY <1>10, Fields DEF Steady
    <3>2. ignored' = ignored  BY <1>1
    <3> QED  BY <1>12, <3>1, <3>2 DEF UnderWay
  <2>1. g \in Follow /\ g \in Guest  BY Fields
  <2>2. ASSUME NEW k \in {"invite", "removed"}, NEW s, Sends(k, g, s), ~Superseded(j) \/ ~(j.kind = k /\ j.g = g /\ j.seq = s)
        PROVE  Sends(k, g, s)' \/ (m \in mail' /\ j.kind = k /\ j.g = g /\ j.seq = s)
    <3>1. PICK o \in jobs : o.kind = k /\ o.g = g /\ o.seq = s  BY <2>2 DEF Sends
    <3>2. CASE o # j  BY <1>3, <3>1, <3>2 DEF Sends
    <3>3. CASE o = j  BY <1>2, <1>5, <2>2, <3>1, <3>3 DEF Sends
    <3> QED  BY <3>2, <3>3
  <2>3. \A s, k : Mails(g, s, k) => Mails(g, s, k)'  BY <1>6 DEF Mails
  <2>4. \A q : m \in mail' /\ q = kind => Mails(j.g, j.seq, q)'  BY <1>4 DEF Mails
  <2>5. CASE att[g].in
    <3>1. CASE Sends("invite", g, inv.seq)
      <4>1. ~Superseded(j) \/ ~(j.kind = "invite" /\ j.g = g /\ j.seq = inv.seq)
        BY <2>5 DEF Superseded
      <4>2. \/ \E o \in jobs' : o.kind = "invite" /\ o.g = g /\ o.seq = inv.seq
            \/ m \in mail' /\ j.kind = "invite" /\ j.g = g /\ j.seq = inv.seq
        BY <2>2, <3>1, <4>1 DEF Sends
      <4> QED  BY <1>4, <1>9, <1>12, <2>5, <4>2 DEF Sends, Mails
    <3>2. CASE ~Sends("invite", g, inv.seq)
      <4>1. Mails(g, inv.seq, inv.method) \/ cal[g].seq = inv.seq  BY <2>5, <3>2 DEF UnderWay
      <4> QED  BY <1>6, <1>12, <2>5, <4>1 DEF Mails
    <3> QED  BY <3>1, <3>2
  <2>6. CASE ~att[g].in
    <3>1. PICK s \in Nat :
            /\ s <= inv.seq
            /\ Sends("removed", g, s) \/ Mails(g, s, "CANCEL") \/ cal[g].seq >= s
            /\ cal[g].kind = "REQUEST" => cal[g].seq < s
            /\ \A o \in mail : o.g = g /\ o.kind = "REQUEST" => o.seq < s
      BY <2>6 DEF UnderWay
    <3>2. Sends("removed", g, s) => Sends("removed", g, s)' \/ Mails(g, s, "CANCEL")'
      <4>1. ASSUME Sends("removed", g, s), ~Sends("removed", g, s)'
            PROVE  m \in mail' /\ j.kind = "removed" /\ j.g = g /\ j.seq = s
        BY <1>8, <2>2, <4>1
      <4> QED  BY <1>8, <2>4, <4>1
    <3>3. m \in mail' /\ m \notin mail /\ m.g = g => m.kind = "CANCEL"
      BY <1>1, <1>4, <1>6, <1>7, <1>8, <2>6
    <3>4. \A o \in mail' : o.g = g /\ o.kind = "REQUEST" => o.seq < s
      BY <1>6, <3>1, <3>3
    <3> QED  BY <2>3, <2>6, <3>1, <3>2, <3>4
  <2> QED  BY <2>5, <2>6
<1>19. AnswerKind'  BY <1>12 DEF AnswerKind
<1>20. \A o : o.kind \in {"reply", "rsvp"} => (o \in jobs' <=> o \in jobs)
  BY <1>1, <1>2, <1>3
<1>21. Said'  BY <1>1, <1>10, <1>11, <1>20, SteadySaid
<1>22. Stamps'  BY <1>1, <1>20, SteadyStamps
<1>23. LastAnswer'  BY <1>1, <1>10, <1>11, <1>20, SteadyAnswers
<1> QED  BY <1>13, <1>15, <1>17, <1>18, <1>19, <1>21, <1>22, <1>23

LEMMA DeliverReplyInv ==
  ASSUME IInv, NEW j \in jobs, DeliverReply(j)
  PROVE  IInv'
<1> USE DEF IInv
<1>1. /\ j.kind \in {"reply", "rsvp"} /\ jobs' = jobs \ {j}
      /\ UNCHANGED <<event, inv, att, prior, creating, form, cal, answer, said, mail, ignored, profile, faults>>
  BY DEF DeliverReply, organizer, Done
<1>2. Steady  BY <1>1, UntouchedSteady
<1>3. j \in Jobs /\ j.g \in Follow /\ j.seq \in Nat /\ j.n \in Nat /\ j.part \in Answer /\ tick[j.g] \in Nat
      /\ Given(j.g, j.seq, j.part)
  BY <1>1, Fields DEF Said, Given
<1> DEFINE n == IF j.kind = "reply" THEN j.n ELSE tick[j.g] + 1
           r == [g |-> j.g, seq |-> j.seq, part |-> j.part, n |-> n]
<1>4. /\ replies' = replies \/ replies' = replies \cup {r}
      /\ j.kind = "reply" => tick' = tick /\ (OverTaken(j) \/ replies' = replies \cup {r})
      /\ j.kind = "rsvp" => \/ UNCHANGED <<tick, replies>>
                            \/ replies' = replies \cup {r} /\ tick' = [tick EXCEPT ![j.g] = tick[j.g] + 1]
  BY <1>1 DEF DeliverReply, TypeOK
<1>5. r \in Reply /\ r.g = j.g /\ r.seq = j.seq /\ r.part = j.part /\ r.n = n
  BY <1>3 DEF Reply, Seq, Stamp
<1> HIDE DEF r
<1>6. /\ tick' \in [Follow -> Stamp] /\ \A g \in Follow : tick'[g] >= tick[g]
      /\ r \in replies' /\ r \notin replies => n <= tick'[j.g]
  <2>1. CASE tick' = tick
    <3>1. j.kind = "rsvp" /\ replies' # replies => tick' # tick
      BY <1>3, <1>4, <2>1 DEF TypeOK
    <3>2. j.kind = "reply" => j.n <= tick[j.g]  BY DEF Stamps
    <3> QED  BY <1>1, <2>1, <3>1, <3>2, Fields DEF TypeOK
  <2>2. CASE j.kind = "rsvp" /\ tick' = [tick EXCEPT ![j.g] = tick[j.g] + 1]
    BY <1>3, <2>2, Fields DEF TypeOK, Stamp
  <2> QED  BY <1>1, <1>4, <2>1, <2>2
<1>7. TypeOK'  BY <1>1, <1>2, <1>4, <1>5, <1>6, SteadyTypes DEF TypeOK
<1>8. Bounded'  BY <1>1, <1>2, SteadyBounds DEF Bounded
<1>9. OneKind'  BY <1>1, <1>2, SteadyKinds
<1>10. UnderWay'  BY <1>1, <1>2, SteadyUnderWay
<1>11. AnswerKind'  BY <1>1 DEF AnswerKind
<1>12. Said'  BY <1>1, <1>3, <1>4, <1>5 DEF Said, Given
<1>13. Stamps'
  <2>1. \A g \in Follow : prior'[g].n <= tick'[g]  BY <1>1, <1>6, Fields DEF Stamps, Stamp
  <2>2. \A o \in jobs' : o.kind = "reply" => o.n <= tick'[o.g]  BY <1>1, <1>6, Fields DEF Stamps, Stamp
  <2>3. ASSUME NEW o \in replies' PROVE o.n <= tick'[o.g]
    <3>1. CASE o \in replies  BY <1>6, <3>1, Fields DEF Stamps, Stamp
    <3>2. CASE o \notin replies  BY <1>4, <1>5, <1>6, <3>2
    <3> QED  BY <3>1, <3>2
  <2> QED  BY <2>1, <2>2, <2>3 DEF Stamps
<1>14. LastAnswer'
  <2> SUFFICES ASSUME NEW g \in Follow \ ignored, att[g].in, inv.method = "REQUEST",
                      answer[g].seq = inv.seq, ByMail(g)
               PROVE  \E k \in Nat : LastHolds(g, k)'
    BY <1>1 DEF LastAnswer, ByMail
  <2>1. g \in Guest /\ g \in Follow  BY Fields
  <2>2. PICK k \in Nat : LastHolds(g, k)  BY DEF LastAnswer
  <2>3. CASE j.kind = "rsvp" \/ j.g # g \/ j.seq # inv.seq
    <3>1. ~(j.kind = "rsvp" /\ j.g = g /\ j.seq = inv.seq)
      BY <1>3 DEF Said, ByMail
    <3>2. ~(r.g = g /\ r.seq = inv.seq)  BY <1>1, <1>5, <2>3, <3>1
    <3>3. ~(j.kind = "reply" /\ j.g = g /\ j.seq = inv.seq)  BY <2>3
    <3> QED  BY <1>1, <1>4, <2>1, <2>2, <3>2, <3>3 DEF LastHolds
  <2>4. CASE j.kind = "reply" /\ j.g = g /\ j.seq = inv.seq
    <3>1. inv.seq > 0 /\ cal[g].seq = inv.seq
      <4>1. inv.seq > 0 /\ cal[g].seq <= inv.seq /\ answer[g].seq <= cal[g].seq  BY <2>1 DEF Bounded
      <4>2. cal[g].seq \in Nat /\ inv.seq \in Nat  BY Fields
      <4> QED  BY <4>1, <4>2
    <3>2. cal[g].kind = "REQUEST"  BY <2>1, <3>1 DEF AnswerKind
    <3>3. ~OverTaken(j)  BY <2>4, <3>1, <3>2 DEF OverTaken
    <3>4. replies' = replies \cup {r} /\ r.n = j.n  BY <1>4, <1>5, <2>4, <3>3
    <3>5. j.n <= k /\ (j.n = k => j.part = answer[g].part)  BY <2>2, <2>4 DEF LastHolds
    <3>6. r.g = g /\ r.seq = inv.seq /\ r.part = j.part  BY <1>5, <2>4
    <3>7. \/ \E o \in jobs' : /\ o.kind = "reply" /\ o.g = g /\ o.seq = inv.seq /\ o.n = k
          \/ \E o \in replies' : o.g = g /\ o.seq = inv.seq /\ o.n = k
          \/ prior[g].seq = inv.seq /\ prior[g].n = k
      BY <1>1, <2>2, <3>4, <3>6 DEF LastHolds
    <3>8. \A o \in replies' :
            o.g = g /\ o.seq = inv.seq => o.n <= k /\ (o.n = k => o.part = answer[g].part)
      BY <2>2, <3>4, <3>5, <3>6 DEF LastHolds
    <3> QED  BY <1>1, <2>1, <2>2, <3>7, <3>8 DEF LastHolds
  <2> QED  BY <1>1, <2>3, <2>4
<1> QED  BY <1>7, <1>8, <1>9, <1>10, <1>11, <1>12, <1>13, <1>14

(* A message taken in: the calendar shows the newer of it and what it showed.  *)
LEMMA TakeInInv ==
  ASSUME IInv, NEW m \in mail, TakeIn(m)
  PROVE  IInv'
<1> USE DEF IInv
<1>1. /\ mail' = mail \ {m}
      /\ UNCHANGED <<event, inv, att, prior, creating, form, answer, tick, said, jobs, replies, faults, profile>>
      /\ ignored \subseteq ignored'
      /\ \/ Apply(m) /\ ignored' = ignored
         \/ ignored' = ignored \cup {m.g} /\ cal' = cal
  BY DEF TakeIn, organizer
<1>2. /\ m.g \in Follow /\ m.seq \in Nat /\ m.n \in Nat /\ m.kind \in Method
      /\ 0 < m.seq /\ m.seq <= inv.seq
  BY Fields DEF Bounded
<1> DEFINE new == [kind |-> m.kind, seq |-> m.seq, n |-> m.n]
<1>3. new \in Shown /\ new.kind = m.kind /\ new.seq = m.seq  BY <1>2 DEF Shown, Seq, Try
<1>4. /\ cal' \in [Follow -> Shown]
      /\ \A g \in Follow : g # m.g => cal'[g] = cal[g]
      /\ \/ cal'[m.g] = cal[m.g]
         \/ cal'[m.g] = new /\ m.seq >= cal[m.g].seq
      /\ m.g \notin ignored' => cal'[m.g].seq >= m.seq
  <2>1. cal \in [Follow -> Shown]  BY DEF TypeOK
  <2>2. cal[m.g].seq \in Nat /\ cal[m.g].n \in Nat  BY <1>2, Fields
  <2>3. CASE cal' = cal /\ (Stale(m) \/ m.g \in ignored')
    BY <1>2, <2>1, <2>2, <2>3 DEF Stale
  <2>4. CASE cal' = [cal EXCEPT ![m.g] = new] /\ ~Stale(m)
    BY <1>2, <1>3, <2>1, <2>2, <2>4 DEF Stale
  <2> QED  BY <1>1, <2>3, <2>4 DEF Apply
<1> HIDE DEF new
<1>5. Steady  BY <1>1, UntouchedSteady
<1>6. TypeOK'
  <2>1. ignored' \subseteq Follow  BY <1>1, <1>2 DEF TypeOK
  <2> QED  BY <1>1, <1>4, <1>5, <2>1, SteadyTypes DEF TypeOK
<1>7. \A g \in Follow : cal'[g].seq >= cal[g].seq /\ cal'[g].seq <= inv.seq
                        /\ (cal'[g].kind = "REQUEST" => cal'[g].seq > 0)
  BY <1>2, <1>3, <1>4, Fields DEF Bounded
<1>8. Bounded'
  <2>1. \A g \in Follow : answer[g].seq <= cal'[g].seq
    <3>1. \A g \in Follow : cal'[g].seq \in Nat  BY <1>4 DEF Shown, Seq
    <3> QED  BY <1>7, <3>1, Fields DEF Bounded
  <2> QED  BY <1>1, <1>7, <2>1 DEF Bounded
<1>9. /\ \A o \in mail : o.g = m.g /\ o.seq = m.seq => o.kind = m.kind
      /\ cal[m.g].seq = m.seq => cal[m.g].kind = m.kind
      /\ \A j \in jobs : j.kind = "removed" /\ j.g = m.g /\ j.seq = m.seq => m.kind = "CANCEL"
      /\ att[m.g].in /\ m.seq = inv.seq => m.kind = inv.method
  BY <1>2 DEF OneKind
<1>10. OneKind'
  <2>1. \A o \in mail' : /\ \A p \in mail' : p.g = o.g /\ p.seq = o.seq => p.kind = o.kind
                         /\ cal'[o.g].seq = o.seq => cal'[o.g].kind = o.kind
    BY <1>1, <1>3, <1>4, <1>9, Fields DEF OneKind
  <2>2. \A j \in jobs : j.kind = "removed" =>
          /\ \A o \in mail' : o.g = j.g /\ o.seq = j.seq => o.kind = "CANCEL"
          /\ cal'[j.g].seq = j.seq => cal'[j.g].kind = "CANCEL"
          /\ j.seq = inv.seq => ~att[j.g].in /\ inv.method = "REQUEST"
    BY <1>1, <1>3, <1>4, <1>9, Fields DEF OneKind
  <2>3. \A g \in Follow : att[g].in =>
          /\ \A o \in mail' : o.g = g /\ o.seq = inv.seq => o.kind = inv.method
          /\ cal'[g].seq = inv.seq => cal'[g].kind = inv.method
    BY <1>1, <1>3, <1>4, <1>9 DEF OneKind
  <2> QED  BY <1>1, <2>1, <2>2, <2>3 DEF OneKind
<1>11. UnderWay'
  <2> SUFFICES ASSUME NEW g \in Follow \ ignored'
               PROVE  IF att[g].in
                      THEN \/ Sends("invite", g, inv.seq)
                           \/ \E o \in mail' : o.g = g /\ o.seq = inv.seq /\ o.kind = inv.method
                           \/ cal'[g].seq = inv.seq
                      ELSE \E s \in Nat :
                             /\ s <= inv.seq
                             /\ \/ Sends("removed", g, s)
                                \/ \E o \in mail' : o.g = g /\ o.seq = s /\ o.kind = "CANCEL"
                                \/ cal'[g].seq >= s
                             /\ cal'[g].kind = "REQUEST" => cal'[g].seq < s
                             /\ \A o \in mail' : o.g = g /\ o.kind = "REQUEST" => o.seq < s
    BY <1>1 DEF UnderWay, Sends, Mails
  <2>1. g \in Follow /\ g \notin ignored /\ cal'[g].seq \in Nat /\ cal[g].seq \in Nat /\ inv.seq \in Nat
    BY <1>1, <1>4, Fields DEF Shown, Seq
  <2>2. CASE att[g].in
    <3>1. CASE Sends("invite", g, inv.seq)  BY <2>2, <3>1
    <3>2. CASE Mails(g, inv.seq, inv.method)
      <4>1. PICK o \in mail : o.g = g /\ o.seq = inv.seq /\ o.kind = inv.method  BY <3>2 DEF Mails
      <4>2. CASE o = m  BY <1>4, <1>7, <2>1, <2>2, <4>1, <4>2
      <4>3. CASE o # m  BY <1>1, <2>2, <4>1, <4>3
      <4> QED  BY <4>2, <4>3
    <3>3. CASE cal[g].seq = inv.seq  BY <1>7, <2>1, <2>2, <3>3
    <3> QED  BY <2>1, <2>2, <3>1, <3>2, <3>3 DEF UnderWay
  <2>3. CASE ~att[g].in
    <3>1. PICK s \in Nat :
            /\ s <= inv.seq
            /\ Sends("removed", g, s) \/ Mails(g, s, "CANCEL") \/ cal[g].seq >= s
            /\ cal[g].kind = "REQUEST" => cal[g].seq < s
            /\ \A o \in mail : o.g = g /\ o.kind = "REQUEST" => o.seq < s
      BY <2>1, <2>3 DEF UnderWay
    <3>2. cal'[g].kind = "REQUEST" => cal'[g].seq < s
      BY <1>3, <1>4, <3>1
    <3>3. Mails(g, s, "CANCEL") =>
            (\E o \in mail' : o.g = g /\ o.seq = s /\ o.kind = "CANCEL") \/ cal'[g].seq >= s
      <4> SUFFICES ASSUME NEW o \in mail, o.g = g, o.seq = s, o.kind = "CANCEL"
                   PROVE  (\E p \in mail' : p.g = g /\ p.seq = s /\ p.kind = "CANCEL") \/ cal'[g].seq >= s
        BY DEF Mails
      <4>1. CASE o = m  BY <1>4, <4>1
      <4>2. CASE o # m  BY <1>1, <4>2
      <4> QED  BY <4>1, <4>2
    <3>4. cal[g].seq >= s => cal'[g].seq >= s  BY <1>7, <2>1
    <3> QED  BY <1>1, <2>3, <3>1, <3>2, <3>3, <3>4
  <2> QED  BY <2>2, <2>3
<1>12. AnswerKind'
  <2> SUFFICES ASSUME NEW g \in Follow, answer[g].seq = cal'[g].seq, answer[g].seq > 0
               PROVE  cal'[g].kind = "REQUEST"
    BY <1>1 DEF AnswerKind
  <2>1. answer[g].seq <= cal[g].seq /\ cal'[g].seq >= cal[g].seq  BY <1>7 DEF Bounded
  <2>2. cal[g].seq = answer[g].seq
    <3>1. cal[g].seq \in Nat /\ answer[g].seq \in Nat /\ cal'[g].seq \in Nat
      BY <1>4, Fields DEF Shown, Seq
    <3> QED  BY <2>1, <3>1
  <2>3. cal[g].kind = "REQUEST"  BY <2>2 DEF AnswerKind
  <2> QED  BY <1>3, <1>4, <1>9, <2>2, <2>3
<1>13. Said'  BY <1>1, <1>5, SteadySaid
<1>14. Stamps'  BY <1>1, SteadyStamps
<1>15. LastAnswer'  BY <1>1, <1>5, SteadyAnswers
<1> QED  BY <1>6, <1>8, <1>10, <1>11, <1>12, <1>13, <1>14, <1>15

LEMMA RespondInv ==
  ASSUME IInv, NEW g \in Follow, NEW part \in Answer, Respond(g, part)
  PROVE  IInv'
<1> USE DEF IInv
<1> DEFINE new == [seq |-> cal[g].seq, n |-> cal[g].n, part |-> part]
           j == Job("reply", g, cal[g].seq, part, tick[g] + 1)
<1>1. /\ cal[g].kind = "REQUEST"
      /\ answer' = [answer EXCEPT ![g] = new]
      /\ tick' = [tick EXCEPT ![g] = tick[g] + 1]
      /\ said' = [said EXCEPT ![g] = said[g] \cup {<<cal[g].seq, part, "mail">>}]
      /\ jobs' = jobs \cup {j}
      /\ UNCHANGED <<event, inv, att, prior, creating, form, cal, mail, replies, ignored, faults, profile>>
  BY DEF Respond, organizer, TypeOK
<1>2. /\ new \in Last /\ new.seq = cal[g].seq /\ new.part = part
      /\ j \in Jobs /\ j.kind = "reply" /\ j.g = g /\ j.seq = cal[g].seq /\ j.part = part /\ j.n = tick[g] + 1
      /\ tick[g] \in Nat /\ cal[g].seq \in Nat /\ g \in Guest
  BY Fields DEF Last, Jobs, Job, Seq, Try, Part
<1>3. 0 < cal[g].seq /\ cal[g].seq <= inv.seq  BY <1>1 DEF Bounded
<1> HIDE DEF new, j
<1>4. Steady  BY <1>1, UntouchedSteady
<1>5. /\ answer' \in [Follow -> Last] /\ answer'[g] = new
      /\ \A h \in Follow : h # g => answer'[h] = answer[h]
      /\ tick' \in [Follow -> Stamp] /\ tick'[g] = tick[g] + 1
      /\ \A h \in Follow : h # g => tick'[h] = tick[h]
  BY <1>1, <1>2 DEF TypeOK, Stamp
<1>6. /\ said' \in [Follow -> SUBSET (Seq \X Answer \X {"mail", "link"})]
      /\ said'[g] = said[g] \cup {<<cal[g].seq, part, "mail">>}
      /\ \A h \in Follow : h # g => said'[h] = said[h]
  BY <1>1, <1>2 DEF TypeOK, Seq
<1>7. TypeOK'  BY <1>1, <1>2, <1>4, <1>5, <1>6, SteadyTypes DEF TypeOK
<1>8. Bounded'
  <2>1. \A h \in Follow : answer'[h].seq <= cal[h].seq  BY <1>2, <1>5 DEF Bounded
  <2>2. \A o \in jobs' : 0 < o.seq /\ o.seq <= inv.seq  BY <1>1, <1>2, <1>3 DEF Bounded
  <2> QED  BY <1>1, <2>1, <2>2 DEF Bounded
<1>9. OneKind'  BY <1>1, <1>2, <1>4, SteadyKinds
<1>10. UnderWay'  BY <1>1, <1>4, SteadyUnderWay
<1>11. AnswerKind'  BY <1>1, <1>5 DEF AnswerKind
<1>12. \A h \in Follow : said[h] \subseteq said'[h]
  BY <1>6
<1>13. \A h \in Follow : \A seq, p : Given(h, seq, p) => Given(h, seq, p)'
  BY <1>12 DEF Given
<1>14. Said'
  <2>1. \A h \in Follow : h \in Guest  BY Fields
  <2>2. \A h \in Follow : att[h].responded => Given(h, inv.seq, att[h].part)'
    BY <1>1, <1>13 DEF Said, Given
  <2>3. \A o \in jobs' : o.kind = "reply" => o.part \in Answer /\ Given(o.g, o.seq, o.part)'
    <3>1. Given(g, cal[g].seq, part)'  BY <1>1, <1>6 DEF Given
    <3> QED  BY <1>1, <1>2, <1>13, <3>1, Fields DEF Said
  <2>4. \A o \in jobs' : o.kind = "rsvp" => o.part \in Answer /\ <<o.seq, o.part, "link">> \in said'[o.g]
    BY <1>1, <1>2, <1>12, Fields DEF Said
  <2>5. \A r \in replies' : Given(r.g, r.seq, r.part)'  BY <1>1, <1>13, Fields DEF Said
  <2> QED  BY <1>1, <2>2, <2>3, <2>4, <2>5 DEF Said
<1>15. Stamps'  BY <1>1, <1>2, <1>5, Fields DEF Stamps
<1>16. LastAnswer'
  <2> SUFFICES ASSUME NEW h \in Follow \ ignored, att[h].in, inv.method = "REQUEST",
                      answer'[h].seq = inv.seq, ByMail(h)'
               PROVE  \E n \in Nat : LastHolds(h, n)'
    BY <1>1 DEF LastAnswer
  <2>1. CASE h # g
    <3>1. answer'[h] = answer[h] /\ ByMail(h)  BY <1>1, <1>5, <1>6, <2>1 DEF ByMail
    <3>2. PICK n \in Nat : LastHolds(h, n)  BY <3>1 DEF LastAnswer
    <3>3. LastHolds(h, n)'  BY <1>1, <1>2, <2>1, <3>1, <3>2 DEF LastHolds
    <3> QED  BY <3>3
  <2>2. CASE h = g
    <3>1. cal[g].seq = inv.seq  BY <1>2, <1>5, <2>2
    <3>2. \A r \in replies : r.g = g => r.n < tick[g] + 1  BY Fields DEF Stamps
    <3>3. \A o \in jobs : o.kind = "reply" /\ o.g = g => o.n < tick[g] + 1  BY Fields DEF Stamps
    <3>4. prior[g].n < tick[g] + 1  BY Fields DEF Stamps
    <3>5. answer'[g].part = part  BY <1>2, <1>5
    <3>6. \E o \in jobs' : o.kind = "reply" /\ o.g = g /\ o.seq = inv.seq /\ o.n = tick[g] + 1
      BY <1>1, <1>2, <3>1
    <3>7. \A r \in replies : r.g = g => r.n <= tick[g] + 1 /\ r.n # tick[g] + 1  BY <1>2, <3>2, Fields
    <3>8. \A o \in jobs' : o.kind = "reply" /\ o.g = g =>
            o.n <= tick[g] + 1 /\ (o.n = tick[g] + 1 => o.part = part)
      BY <1>1, <1>2, <3>3, Fields
    <3>9. prior[g].n <= tick[g] + 1 /\ prior[g].n # tick[g] + 1  BY <1>2, <3>4, Fields
    <3>10. PICK n \in Nat : n = tick[g] + 1  BY <1>2
    <3>11. LastHolds(g, n)'
      BY <1>1, <3>5, <3>6, <3>7, <3>8, <3>9, <3>10 DEF LastHolds
    <3> QED  BY <2>2, <3>11
  <2> QED  BY <2>1, <2>2
<1> QED  BY <1>7, <1>8, <1>9, <1>10, <1>11, <1>14, <1>15, <1>16

LEMMA TakeInReplyInv ==
  ASSUME IInv, NEW r \in replies, TakeInReply(r)
  PROVE  IInv'
<1> USE DEF IInv
<1>1. /\ replies' = replies \ {r} /\ ignored \subseteq ignored' /\ ignored' \subseteq ignored \cup {r.g}
      /\ UNCHANGED <<event, form, cal, answer, tick, said, jobs, mail, faults, profile>>
      /\ r.g \notin ignored' => ApplyReply(r)
      /\ ApplyReply(r) \/ UNCHANGED <<att, prior, inv, creating>>
  BY DEF TakeInReply, guests
<1>2. /\ r.g \in Follow /\ r.g \in Guest /\ r.seq \in Nat /\ r.n \in Nat /\ r.part \in Answer
  BY Fields
<1> DEFINE new == [in |-> TRUE, part |-> r.part, responded |-> TRUE, token |-> 0]
           last == [seq |-> r.seq, n |-> r.n]
           applied == /\ Acceptable(r) /\ Touch
                      /\ att' = [att EXCEPT ![r.g] = new]
                      /\ prior' = [prior EXCEPT ![r.g] = last]
<1>3. /\ applied \/ UNCHANGED <<att, prior, inv, creating>>
      /\ r.g \notin ignored' /\ Acceptable(r) => applied
  BY <1>1 DEF ApplyReply, Record
<1>4. /\ new \in Attendee /\ new.in = TRUE /\ new.part = r.part
      /\ last \in [seq : Nat, n : Nat] /\ last.seq = r.seq /\ last.n = r.n
  BY <1>2 DEF Attendee, Part, Try
<1>5. Acceptable(r) => /\ inv.method = "REQUEST" /\ r.seq = inv.seq /\ att[r.g].in
                       /\ ~(prior[r.g].seq = r.seq /\ prior[r.g].n >= r.n)
  BY DEF Acceptable
<1>6. applied => /\ att'[r.g] = new /\ (\A g \in Guest : g # r.g => att'[g] = att[g])
                 /\ att' \in [Guest -> Attendee]
                 /\ prior'[r.g] = last /\ (\A g \in Follow : g # r.g => prior'[g] = prior[g])
                 /\ prior' \in [Follow -> [seq : Nat, n : Nat]]
  BY <1>2, <1>4 DEF TypeOK, Seq, Stamp
<1> HIDE DEF new, last
<1>7. Steady
  <2>1. CASE UNCHANGED <<att, prior, inv, creating>>  BY <2>1, UntouchedSteady
  <2>2. CASE applied
    <3>1. \A g \in Guest : att'[g].in = att[g].in
      <4>1. att[r.g].in = TRUE  BY <1>2, <1>5, <2>2, Fields
      <4> QED  BY <1>4, <1>6, <2>2, <4>1
    <3>2. att[r.g].in /\ inv.method = "REQUEST"  BY <1>5, <2>2
    <3> QED  BY <1>6, <2>2, <3>1, <3>2, TouchSteady DEF Steady
  <2> QED  BY <1>3, <2>1, <2>2
<1>8. \A g \in Follow : \/ att'[g] = att[g] /\ prior'[g] = prior[g]
                        \/ /\ g = r.g /\ Acceptable(r) /\ att'[g].part = r.part
                           /\ prior'[g].seq = r.seq /\ prior'[g].n = r.n
  BY <1>2, <1>3, <1>4, <1>6, Fields
<1>9. TypeOK'
  <2>1. prior' \in [Follow -> [seq : Seq, n : Stamp]]
    BY <1>3, <1>6 DEF TypeOK, Seq, Stamp
  <2>2. ignored' \subseteq Follow  BY <1>1, <1>2 DEF TypeOK
  <2> QED  BY <1>1, <1>7, <2>1, <2>2, SteadyTypes DEF TypeOK
<1>10. Bounded'  BY <1>1, <1>7, SteadyBounds DEF Bounded
<1>11. OneKind'  BY <1>1, <1>7, SteadyKinds
<1>12. UnderWay'  BY <1>1, <1>7, SteadyUnderWay
<1>13. AnswerKind'  BY <1>1 DEF AnswerKind
<1>14. Said'
  <2>1. ASSUME NEW g \in Follow, att'[g].responded PROVE Given(g, inv.seq, att'[g].part)
    <3>1. CASE att'[g] = att[g]  BY <2>1, <3>1 DEF Said
    <3>2. CASE att'[g] # att[g]
      <4>1. g = r.g /\ r.seq = inv.seq /\ att'[g].part = r.part  BY <1>5, <1>8, <3>2
      <4> QED  BY <4>1 DEF Said
    <3> QED  BY <3>1, <3>2
  <2> QED  BY <1>1, <1>7, <2>1 DEF Said, Given, Steady
<1>15. Stamps'
  <2>1. \A g \in Follow : prior'[g].n <= tick[g]  BY <1>8 DEF Stamps
  <2> QED  BY <1>1, <2>1 DEF Stamps
<1>16. LastAnswer'
  <2> SUFFICES ASSUME NEW g \in Follow \ ignored', att[g].in, inv.method = "REQUEST",
                      answer[g].seq = inv.seq, ByMail(g)
               PROVE  \E n \in Nat : LastHolds(g, n)'
    <3>1. \A g \in Follow : att'[g].in = att[g].in  BY <1>7, Fields DEF Steady
    <3> QED  BY <1>1, <1>7, <3>1 DEF LastAnswer, ByMail, Steady
  <2>1. g \in Follow /\ g \notin ignored /\ inv'.seq = inv.seq  BY <1>1, <1>7 DEF Steady
  <2>2. PICK n \in Nat : LastHolds(g, n)  BY <2>1 DEF LastAnswer
  <2>3. CASE g # r.g
    <3>1. att'[g] = att[g] /\ prior'[g] = prior[g]  BY <1>8, <2>1, <2>3
    <3> QED  BY <1>1, <2>1, <2>2, <2>3, <3>1 DEF LastHolds
  <2>4. CASE g = r.g /\ Acceptable(r)
    <3>1. att'[g].part = r.part /\ prior'[g].seq = inv.seq /\ prior'[g].n = r.n
      BY <1>3, <1>4, <1>5, <1>6, <2>4
    <3>2. r.n <= n /\ (r.n = n => r.part = answer[g].part)  BY <1>5, <2>2, <2>4 DEF LastHolds
    <3>3. prior[g].seq = inv.seq => prior[g].n < n
      <4>1. prior[g].seq = inv.seq => prior[g].n < r.n  BY <1>2, <1>5, <2>1, <2>4, Fields
      <4> QED  BY <1>2, <2>1, <3>2, <4>1, Fields
    <3>4. \/ \E j \in jobs : j.kind = "reply" /\ j.g = g /\ j.seq = inv.seq /\ j.n = n
          \/ \E o \in replies' : o.g = g /\ o.seq = inv.seq /\ o.n = n
          \/ r.n = n
      BY <1>1, <2>2, <3>3, <2>1, Fields DEF LastHolds
    <3> QED  BY <1>1, <2>1, <2>2, <3>1, <3>2, <3>4 DEF LastHolds
  <2>5. CASE g = r.g /\ ~Acceptable(r)
    <3>1. att'[g] = att[g] /\ prior'[g] = prior[g]  BY <1>8, <2>1, <2>5
    <3>2. r.seq = inv.seq => prior[g].seq = inv.seq /\ prior[g].n >= r.n
      BY <2>5 DEF Acceptable
    <3>3. \/ \E j \in jobs : j.kind = "reply" /\ j.g = g /\ j.seq = inv.seq /\ j.n = n
          \/ \E o \in replies' : o.g = g /\ o.seq = inv.seq /\ o.n = n
          \/ prior[g].seq = inv.seq /\ prior[g].n = n
      <4>1. r.seq = inv.seq /\ r.n = n => prior[g].seq = inv.seq /\ prior[g].n = n
        <5>1. prior[g].seq = inv.seq => prior[g].n <= n /\ prior[g].n \in Nat
          BY <2>1, <2>2, Fields DEF LastHolds
        <5> QED  BY <1>2, <3>2, <5>1
      <4> QED  BY <1>1, <2>2, <4>1 DEF LastHolds
    <3> QED  BY <1>1, <2>1, <2>2, <3>1, <3>3 DEF LastHolds
  <2> QED  BY <2>3, <2>4, <2>5
<1> QED  BY <1>9, <1>10, <1>11, <1>12, <1>13, <1>14, <1>15, <1>16

LEMMA OpenFormInv ==
  ASSUME IInv, NEW g \in Follow, OpenForm(g)
  PROVE  IInv'
<1> USE DEF IInv
<1>1. /\ form' = [form EXCEPT ![g] = [at |-> TRUE, seq |-> inv.seq]]
      /\ UNCHANGED <<event, inv, att, prior, creating, cal, answer, tick, said, jobs, mail, replies,
                     ignored, faults, profile>>
  BY DEF OpenForm, guests
<1>2. Steady  BY <1>1, UntouchedSteady
<1>3. TypeOK'
  <2>1. [at |-> TRUE, seq |-> inv.seq] \in Form  BY Fields DEF Form, Seq
  <2>2. form' \in [Follow -> Form]  BY <1>1, <2>1 DEF TypeOK
  <2> QED  BY <1>1, <1>2, <2>2, SteadyTypes DEF TypeOK
<1>4. Bounded'  BY <1>1, <1>2, SteadyBounds DEF Bounded
<1>5. OneKind'  BY <1>1, <1>2, SteadyKinds
<1>6. UnderWay'  BY <1>1, <1>2, SteadyUnderWay
<1>7. AnswerKind'  BY <1>1 DEF AnswerKind
<1>8. Said'  BY <1>1, <1>2, SteadySaid
<1>9. Stamps'  BY <1>1, SteadyStamps
<1>10. LastAnswer'  BY <1>1, <1>2, SteadyAnswers
<1> QED  BY <1>3, <1>4, <1>5, <1>6, <1>7, <1>8, <1>9, <1>10

LEMMA SubmitInv ==
  ASSUME IInv, NEW g \in Follow, NEW part \in Answer, Submit(g, part)
  PROVE  IInv'
<1> USE DEF IInv
<1> DEFINE seq == form[g].seq
           j == Job("rsvp", g, seq, part, 1)
           new == [in |-> TRUE, part |-> part, responded |-> TRUE, token |-> att[g].token]
           applied == /\ StillOpen(g) /\ Touch /\ jobs' = jobs \cup {j}
                      /\ att' = [att EXCEPT ![g] = new]
<1>1. /\ form' = [form EXCEPT ![g] = NoForm]
      /\ said' = [said EXCEPT ![g] = said[g] \cup {<<seq, part, "link">>}]
      /\ UNCHANGED <<event, prior, cal, answer, tick, mail, replies, ignored, faults, profile>>
      /\ applied \/ UNCHANGED <<att, jobs, inv, creating>>
  BY DEF Submit, Record, TypeOK
<1>2. /\ g \in Guest /\ seq \in Nat
      /\ new \in Attendee /\ new.in = TRUE /\ new.part = part /\ new.token = att[g].token
      /\ j \in Jobs /\ j.kind = "rsvp" /\ j.g = g /\ j.seq = seq /\ j.part = part
  BY Fields DEF Attendee, Part, Try, Jobs, Job, Seq
<1>3. StillOpen(g) => att[g].in /\ inv.seq = seq  BY DEF StillOpen
<1>4. applied => /\ att'[g] = new /\ (\A h \in Guest : h # g => att'[h] = att[h])
                 /\ att' \in [Guest -> Attendee]
  BY <1>2 DEF TypeOK
<1>5. /\ said' \in [Follow -> SUBSET (Seq \X Answer \X {"mail", "link"})]
      /\ said'[g] = said[g] \cup {<<seq, part, "link">>}
      /\ \A h \in Follow : h # g => said'[h] = said[h]
  BY <1>1, <1>2 DEF TypeOK, Seq
<1>6. jobs \subseteq jobs' /\ jobs' \subseteq jobs \cup {j} /\ (j \in jobs' /\ j \notin jobs => applied)
  BY <1>1
<1> HIDE DEF new, j, seq
<1>7. Steady
  <2>1. CASE UNCHANGED <<att, jobs, inv, creating>>  BY <2>1, UntouchedSteady
  <2>2. CASE applied
    <3>1. \A h \in Guest : att'[h].in = att[h].in
      <4>1. att[g].in = TRUE  BY <1>2, <1>3, <2>2, Fields
      <4> QED  BY <1>2, <1>4, <2>2, <4>1
    <3>2. att[g].in  BY <1>3, <2>2
    <3>3. \A h \in Guest : inv.method = "CANCEL" => att'[h].token = 0
      BY <1>2, <1>4, <2>2 DEF TypeOK
    <3> QED  BY <1>4, <2>2, <3>1, <3>2, <3>3, TouchSteady DEF Steady
  <2> QED  BY <1>1, <2>1, <2>2
<1>8. TypeOK'
  <2>1. form' \in [Follow -> Form]
    <3>1. NoForm \in Form  BY DEF NoForm, Form, Seq
    <3> QED  BY <1>1, <3>1 DEF TypeOK
  <2>2. jobs' \subseteq Jobs  BY <1>2, <1>6 DEF TypeOK
  <2> QED  BY <1>1, <1>5, <1>7, <2>1, <2>2, SteadyTypes DEF TypeOK
<1>9. Bounded'
  <2>1. applied => 0 < j.seq /\ j.seq <= inv.seq
    BY <1>2, <1>3, Fields DEF Bounded
  <2>2. \A o \in jobs' : 0 < o.seq /\ o.seq <= inv.seq
    BY <1>6, <2>1 DEF Bounded
  <2> QED  BY <1>1, <1>7, <2>2, SteadyBounds
<1>10. OneKind'  BY <1>1, <1>2, <1>6, <1>7, SteadyKinds
<1>11. UnderWay'  BY <1>1, <1>6, <1>7, SteadyUnderWay
<1>12. AnswerKind'  BY <1>1 DEF AnswerKind
<1>13. \A h \in Follow : said[h] \subseteq said'[h]
  BY <1>5
<1>14. \A h \in Follow : \A q, p : Given(h, q, p) => Given(h, q, p)'
  BY <1>13 DEF Given
<1>15. Said'
  <2>1. <<seq, part, "link">> \in said'[g]  BY <1>5
  <2>2. ASSUME NEW h \in Follow, att'[h].responded
        PROVE  \E way \in {"mail", "link"} : <<inv'.seq, att'[h].part, way>> \in said'[h]
    <3>1. inv'.seq = inv.seq  BY <1>7 DEF Steady
    <3>2. CASE att'[h] = att[h]
      <4>1. Given(h, inv.seq, att[h].part)  BY <2>2, <3>2 DEF Said
      <4> QED  BY <1>13, <3>1, <3>2, <4>1 DEF Given
    <3>3. CASE att'[h] # att[h]
      <4>1. h = g /\ inv.seq = seq /\ att'[h].part = part  BY <1>1, <1>2, <1>3, <1>4, <3>3, Fields
      <4> QED  BY <2>1, <3>1, <4>1
    <3> QED  BY <3>2, <3>3
  <2>3. \A o \in jobs' : o.kind = "reply" => o.part \in Answer /\ Given(o.g, o.seq, o.part)'
    BY <1>2, <1>6, <1>14, Fields DEF Said
  <2>4. \A o \in jobs' : o.kind = "rsvp" => o.part \in Answer /\ <<o.seq, o.part, "link">> \in said'[o.g]
    BY <1>2, <1>6, <1>13, <2>1, Fields DEF Said
  <2>5. \A r \in replies' : Given(r.g, r.seq, r.part)'  BY <1>1, <1>14, Fields DEF Said
  <2> QED  BY <2>2, <2>3, <2>4, <2>5 DEF Said, Given
<1>16. Stamps'  BY <1>1, <1>2, <1>6, SteadyStamps
<1>17. LastAnswer'
  <2> SUFFICES ASSUME NEW h \in Follow \ ignored, att[h].in, inv.method = "REQUEST",
                      answer[h].seq = inv.seq, ByMail(h)'
               PROVE  \E n \in Nat : LastHolds(h, n)'
    <3>1. \A h \in Follow : att'[h].in = att[h].in  BY <1>7, Fields DEF Steady
    <3> QED  BY <1>1, <1>7, <3>1 DEF LastAnswer, Steady
  <2>1. inv'.seq = inv.seq  BY <1>7 DEF Steady
  <2>2. ByMail(h)  BY <1>13, <2>1 DEF ByMail
  <2>3. PICK n \in Nat : LastHolds(h, n)  BY <2>2 DEF LastAnswer
  <2>4. att'[h].part = att[h].part
    <3>1. CASE h # g \/ UNCHANGED att  BY <1>1, <1>4, <3>1, Fields
    <3>2. CASE h = g /\ applied
      <4>1. <<inv.seq, part, "link">> \in said'[h]  BY <1>3, <1>5, <3>2
      <4> QED  BY <2>1, <4>1 DEF ByMail
    <3> QED  BY <1>1, <3>1, <3>2
  <2>5. \A o \in jobs' : o.kind = "reply" => o \in jobs  BY <1>2, <1>6
  <2>6. LastHolds(h, n)'
    BY <1>1, <1>6, <2>1, <2>3, <2>4, <2>5 DEF LastHolds
  <2> QED  BY <2>6
<1> QED  BY <1>8, <1>9, <1>10, <1>11, <1>12, <1>15, <1>16, <1>17

-----------------------------------------------------------------------------
LEMMA InitInv == Init => IInv
<1> SUFFICES ASSUME Init PROVE IInv  OBVIOUS
<1> USE CalendarAssumption DEF Init, Idle, NoForm, NoEvent, NotInvited
<1>1. TypeOK
  <2>1. inv \in Invitation  BY DEF Invitation, Method, Seq
  <2>2. att \in [Guest -> Attendee]  BY DEF Attendee, Part, Try
  <2>3. creating \in [Slot -> Creation] /\ form \in [Follow -> Form]
    BY DEF Creation, Form, Method, Seq
  <2>4. cal \in [Follow -> Shown] /\ answer \in [Follow -> Last]
    BY DEF Shown, Last, Method, Part, Seq, Try
  <2>5. /\ prior \in [Follow -> [seq : Seq, n : Stamp]]
        /\ tick \in [Follow -> Stamp] /\ faults \in 0..profile.faults
    BY DEF Seq, Stamp
  <2>6. said \in [Follow -> SUBSET (Seq \X Answer \X {"mail", "link"})]  OBVIOUS
  <2> QED  BY <2>1, <2>2, <2>3, <2>4, <2>5, <2>6 DEF TypeOK, Invited
<1>2. Bounded /\ OneKind /\ AnswerKind  BY DEF Bounded, OneKind, AnswerKind
<1>3. UnderWay
  <2>1. 0 \in Nat /\ 0 <= 0  OBVIOUS
  <2> QED  BY <2>1 DEF UnderWay
<1>4. Said /\ Stamps  BY DEF Said, Stamps
<1>5. LastAnswer  BY DEF LastAnswer
<1> QED  BY <1>1, <1>2, <1>3, <1>4, <1>5 DEF IInv

LEMMA NextInv == IInv /\ [Next]_vars => IInv'
<1> SUFFICES ASSUME IInv, [Next]_vars PROVE IInv'  OBVIOUS
<1>1. profile.slots \subseteq Slot  BY Fields DEF IInv
<1>2. CASE UNCHANGED vars
  <2> USE <1>2 DEF vars, organizer, guests, IInv
  <2>1. TypeOK'  BY DEF TypeOK, Invited
  <2>2. Bounded' /\ OneKind'  BY DEF Bounded, OneKind
  <2>3. UnderWay'  BY DEF UnderWay, Sends, Mails
  <2>4. AnswerKind' /\ Stamps'  BY DEF AnswerKind, Stamps
  <2>5. Said'  BY DEF Said, Given
  <2>6. LastAnswer'  BY DEF LastAnswer, ByMail, LastHolds
  <2> QED  BY <2>1, <2>2, <2>3, <2>4, <2>5, <2>6
<1>3. CASE Next
  BY <1>1, <1>3, EditInv, CreateInv, CommitInv, DeliverInvitationInv, DeliverReplyInv, TakeInInv,
     RespondInv, SubmitInv, TakeInReplyInv, OpenFormInv DEF Next
<1> QED  BY <1>2, <1>3

LEMMA Invariant == Spec => []IInv
<1>1. Init => IInv  BY InitInv
<1>2. IInv /\ [Next]_vars => IInv'  BY NextInv
<1> QED  BY <1>1, <1>2, PTL DEF Spec

-----------------------------------------------------------------------------
(* The tables, jobs and messages have the values the code writes; a guest who  *)
(* is not invited has no row, and a cancelled meeting no live link.            *)
THEOREM TypeCorrect == Spec => []TypeOK
<1>1. IInv => TypeOK  BY DEF IInv
<1> QED  BY <1>1, Invariant, PTL

(* Once a guest's messages have all been taken in, in whatever order, the      *)
(* guest's calendar shows what the organizer has in force.                     *)
THEOREM CalendarsConverge == Spec => []GuestsConverge
<1>1. IInv => GuestsConverge
  <2> SUFFICES ASSUME IInv, NEW g \in Follow, Settled(g)
               PROVE  IF att[g].in /\ inv.method = "REQUEST"
                      THEN cal[g].kind = "REQUEST" /\ cal[g].seq = inv.seq
                      ELSE cal[g].kind = "CANCEL"
    BY DEF GuestsConverge
  <2> USE DEF IInv
  <2>1. /\ g \in Follow \ ignored /\ ~\E m \in mail : m.g = g
        /\ ~\E j \in jobs : j.g = g
    BY DEF Settled, Concerns
  <2>2. /\ inv.method \in Method /\ cal[g].kind \in Method /\ cal[g].seq \in Nat /\ inv.seq \in Nat
    BY Fields
  <2>3. CASE att[g].in
    <3>1. cal[g].seq = inv.seq  BY <2>1, <2>3 DEF UnderWay, Sends, Mails
    <3>2. cal[g].kind = inv.method  BY <2>3, <3>1 DEF OneKind
    <3> QED  BY <2>2, <2>3, <3>1, <3>2 DEF Method
  <2>4. CASE ~att[g].in
    <3>1. PICK s \in Nat : cal[g].seq >= s /\ (cal[g].kind = "REQUEST" => cal[g].seq < s)
      BY <2>1, <2>4 DEF UnderWay, Sends, Mails
    <3> QED  BY <2>2, <2>4, <3>1 DEF Method
  <2> QED  BY <2>3, <2>4
<1> QED  BY <1>1, Invariant, PTL

(* The organizer's list shows answers that the guests gave to the revision in  *)
(* force, and for those who answer by mail the last one, however late or       *)
(* reordered the replies arrive.                                               *)
THEOREM AnswersRecorded == Spec => []AnswersStand
<1>1. IInv => AnswersAreCurrent
  BY DEF IInv, Said, Given, AnswersAreCurrent
<1>2. IInv => LatestAnswerStands
  <2> SUFFICES ASSUME IInv, NEW g \in Follow, Settled(g), att[g].in, inv.method = "REQUEST",
                      answer[g].seq = inv.seq, ByMail(g)
               PROVE  att[g].part = answer[g].part
    BY DEF LatestAnswerStands, ByMail
  <2>1. /\ g \in Follow \ ignored /\ ~\E r \in replies : r.g = g
        /\ ~\E j \in jobs : j.g = g
    BY DEF Settled, Concerns
  <2>2. PICK n \in Nat : LastHolds(g, n)  BY <2>1 DEF IInv, LastAnswer
  <2> QED  BY <2>1, <2>2 DEF LastHolds
<1> QED  BY <1>1, <1>2, Invariant, PTL DEF AnswersStand

(* Requests that race issue no two revisions under one number and skip none.   *)
THEOREM RevisionsInSequence == Spec => OneRevisionPerSequence
<1> DEFINE Issues == inv' # inv /\ inv'.current => inv'.seq = inv.seq + 1
<1>1. ASSUME IInv, [Next]_vars PROVE Issues
  <2>1. TypeOK /\ Bounded /\ profile.slots \subseteq Slot  BY <1>1, Fields DEF IInv
  <2>2. Touch => Issues  BY <2>1, TouchSteady
  <2>3. ASSUME NEW s \in Slot, Commit(s) PROVE Issues
    BY <2>3 DEF Commit, Revise, UnchangedSince
  <2>4. Edit => Issues  BY <2>2 DEF Edit
  <2>5. ASSUME NEW s \in profile.slots, NEW method \in Method PROVE Create(s, method) => Issues
    BY DEF Create
  <2>6. ASSUME NEW j \in jobs PROVE DeliverInvitation(j) \/ DeliverReply(j) => Issues
    BY DEF DeliverInvitation, DeliverReply, organizer
  <2>7. ASSUME NEW m \in mail PROVE TakeIn(m) => Issues
    BY DEF TakeIn, organizer
  <2>8. ASSUME NEW g \in Follow PROVE OpenForm(g) => Issues
    BY DEF OpenForm
  <2>9. ASSUME NEW g \in Follow, NEW part \in Answer PROVE Respond(g, part) \/ Submit(g, part) => Issues
    BY <2>2 DEF Respond, Submit, organizer
  <2>10. ASSUME NEW r \in replies PROVE TakeInReply(r) => Issues
    BY <2>2 DEF TakeInReply, ApplyReply
  <2>11. UNCHANGED vars => Issues  BY DEF vars, organizer
  <2> QED  BY <1>1, <2>3, <2>4, <2>5, <2>6, <2>7, <2>8, <2>9, <2>10, <2>11 DEF Next
<1>2. IInv /\ [Next]_vars => [Issues]_vars  BY <1>1
<1> QED  BY <1>2, Invariant, PTL DEF Spec, OneRevisionPerSequence

(* A guest's calendar never goes back, and only a later revision revives a     *)
(* meeting that it shows as cancelled.                                         *)
THEOREM CalendarNeverGoesBack == Spec => CalendarAdvances
<1> DEFINE Goes(g) == /\ cal'[g].seq >= cal[g].seq
                      /\ cal[g].kind = "CANCEL" /\ cal'[g].kind = "REQUEST" => cal'[g].seq > cal[g].seq
<1>1. ASSUME IInv, [Next]_vars PROVE \A g \in Follow : Goes(g)
  <2> USE DEF IInv
  <2>1. cal' = cal => \A g \in Follow : Goes(g)  BY <1>1, Fields
  <2>2. ASSUME NEW m \in mail, TakeIn(m), cal' # cal PROVE \A g \in Follow : Goes(g)
    <3>1. ~Stale(m) /\ cal' = [cal EXCEPT ![m.g] = [kind |-> m.kind, seq |-> m.seq, n |-> m.n]]
      BY <2>2 DEF TakeIn, Apply
    <3>2. m.g \in Follow /\ m.seq \in Nat /\ m.n \in Nat /\ cal[m.g].seq \in Nat /\ cal[m.g].n \in Nat
      BY <1>1, Fields
    <3>3. m.seq >= cal[m.g].seq  BY <3>1, <3>2 DEF Stale
    <3>4. m.seq = cal[m.g].seq => m.kind = cal[m.g].kind  BY <1>1 DEF OneKind
    <3>5. cal'[m.g].seq = m.seq /\ cal'[m.g].kind = m.kind  BY <1>1, <3>1, <3>2 DEF TypeOK
    <3>6. Goes(m.g)  BY <3>2, <3>3, <3>4, <3>5
    <3>7. \A g \in Follow : g # m.g => cal'[g] = cal[g]  BY <1>1, <3>1 DEF TypeOK
    <3> QED  BY <1>1, <3>6, <3>7, Fields
  <2>3. Edit => cal' = cal  BY DEF Edit, guests
  <2>4. ASSUME NEW s PROVE Commit(s) \/ (\E method \in Method : Create(s, method)) => cal' = cal
    BY DEF Create, Commit, guests
  <2>5. ASSUME NEW j \in jobs PROVE DeliverInvitation(j) \/ DeliverReply(j) => cal' = cal
    BY DEF DeliverInvitation, DeliverReply, guests
  <2>6. ASSUME NEW g \in Follow PROVE OpenForm(g) => cal' = cal
    BY DEF OpenForm, guests
  <2>7. ASSUME NEW g \in Follow, NEW part \in Answer PROVE Respond(g, part) \/ Submit(g, part) => cal' = cal
    BY DEF Respond, Submit
  <2>8. ASSUME NEW r \in replies PROVE TakeInReply(r) => cal' = cal
    BY DEF TakeInReply, guests
  <2>9. UNCHANGED vars => cal' = cal  BY DEF vars, guests
  <2> HIDE DEF Goes
  <2> QED  BY <1>1, <2>1, <2>2, <2>3, <2>4, <2>5, <2>6, <2>7, <2>8, <2>9 DEF Next
<1>2. IInv /\ [Next]_vars => [\A g \in Follow : Goes(g)]_vars  BY <1>1
<1> QED  BY <1>2, Invariant, PTL DEF Spec, CalendarAdvances

=============================================================================
