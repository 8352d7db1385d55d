------------------------ MODULE ClusterEvents_proofs ------------------------
(***************************************************************************)
(* Proofs about the event log of src/backend/cluster.js, for every set of  *)
(* nodes and boot identities, every duration, batch size and bound.        *)
(***************************************************************************)
EXTENDS ClusterEvents, TLAPS, FiniteSetTheorems, WellFoundedInduction

Busy(p) == p.phase \in {"consuming", "consumed"}

(* A poll looks at a time that has been, has an event to work on while it  *)
(* is in its loop, and only events beyond its cursor.                      *)
Sane ==
  \A n \in Node, b \in Boot :
    LET p == process[n][b] IN
      /\ p.now <= clock
      /\ Busy(p) => p.batch # {}
      /\ \A e \in p.batch : e > p.cursor

(* Nothing has happened under a node ID without a row.                     *)
Fresh ==
  \A n \in Node :
    ~Registered(n) => /\ nodes[n].last = 0
                      /\ seen[n] = {}
                      /\ \A b \in Boot : process[n][b] = NotStarted

(* The cursor in memory of the instance that owns the row is the row's.    *)
OwnCursor ==
  \A n \in Node, b \in Boot :
    nodes[n].boot = b /\ ~InPhase(n, b, "dead") => nodes[n].last = process[n][b].cursor

(* A poll whose heartbeat is recent owns the row, which expires no earlier *)
(* than the heartbeat said.                                                *)
Owned ==
  \A n \in Node, b \in Boot :
    LET p == process[n][b] IN
    p.phase \notin {"idle", "dead"} /\ p.running /\ clock < p.now + NodeTtl
      => nodes[n].boot = b /\ nodes[n].expires >= p.now + NodeTtl

SeenUpTo(n, cursor) == \A e \in Event : joined[n] < e /\ e <= cursor => e \in seen[n]

(* The events owed to a node that some cursor of its has passed have been  *)
(* processed, those of replaced instances included, and those before an    *)
(* event of a batch have been or are in the batch.                         *)
Passed ==
  \A n \in Node :
    Registered(n) /\ ~lapsed[n] =>
      /\ SeenUpTo(n, nodes[n].last)
      /\ \A b \in Boot : SeenUpTo(n, process[n][b].cursor)

Batched ==
  \A n \in Node, b \in Boot :
    Registered(n) /\ ~lapsed[n] =>
      \A d \in process[n][b].batch : \A e \in Event :
        joined[n] < e /\ e < d => e \in seen[n] \cup process[n][b].batch

Consumed ==
  \A n \in Node, b \in Boot :
    InPhase(n, b, "consumed") => First(process[n][b].batch) \in seen[n]

(* A deleted event had been processed by the node.                         *)
Deleted ==
  \A n \in Node :
    Registered(n) /\ ~lapsed[n] => \A e \in Event :
      joined[n] < e /\ e <= head /\ e \notin kept => e \in seen[n]

IInv ==
  /\ TypeOK /\ Sane /\ Fresh /\ OwnCursor /\ Owned
  /\ Passed /\ Batched /\ Consumed /\ Deleted /\ DeliveredInOrder

-----------------------------------------------------------------------------
(* The first event of a batch is its smallest, the newest of a log that is *)
(* not empty its largest.                                                  *)
LEMMA Smallest ==
  ASSUME NEW S \in SUBSET Nat, S # {}
  PROVE  First(S) \in S /\ \A d \in S : First(S) <= d
<1> DEFINE R == OpToRel(<, Nat)
<1>1. \E x \in S : \A y \in S : ~(<<y, x>> \in R)
  <2> HIDE DEF R
  <2> QED  BY WFMin, NatLessThanWellFounded DEF R
<1>2. PICK x \in S : \A y \in S : ~(<<y, x>> \in R)  BY <1>1
<1>3. ASSUME NEW y \in S PROVE x <= y
  <2>1. x \in Nat /\ y \in Nat  OBVIOUS
  <2>2. <<y, x>> \in Nat \X Nat  BY <2>1
  <2>3. ~(y < x)  BY <1>2, <2>2 DEF OpToRel
  <2> QED  BY <2>1, <2>3
<1> QED  BY <1>3 DEF First, Min

LEMMA Largest ==
  ASSUME NEW S \in SUBSET Nat, S # {}, NEW m \in Nat, \A x \in S : x <= m
  PROVE  Max(S) \in S /\ \A d \in S : d <= Max(S)
<1> DEFINE T == {m - x : x \in S}
<1>1. T \in SUBSET Nat /\ T # {}
  <2>1. \A x \in S : m - x \in Nat  OBVIOUS
  <2>2. PICK x \in S : TRUE  OBVIOUS
  <2>3. m - x \in T  OBVIOUS
  <2> QED  BY <2>1, <2>3
<1>2. PICK t \in T : \A y \in T : t <= y
  <2> HIDE DEF T
  <2> QED  BY <1>1, Smallest
<1>3. PICK x \in S : t = m - x  OBVIOUS
<1>4. \A y \in S : m - x <= m - y  BY <1>2, <1>3
<1>5. ASSUME NEW y \in S PROVE y <= x
  <2>1. x \in Nat /\ y \in Nat /\ m - x <= m - y  BY <1>4
  <2> QED  BY <2>1
<1> QED  BY <1>5 DEF Max

(* A batch takes the oldest of the newer events.                           *)
LEMMA Oldest ==
  ASSUME NEW S \in SUBSET Event, NEW d \in S, NEW e \in S, e < d,
         Cardinality({c \in S : c < d}) < BatchSize
  PROVE  Cardinality({c \in S : c < e}) < BatchSize
<1> DEFINE D == {c \in S : c < d}
           E == {c \in S : c < e}
<1> USE ClusterEventsAssumption DEF Event
<1>1. IsFiniteSet(1..MaxEvents)  BY FS_Interval
<1>2. IsFiniteSet(D)  BY <1>1, FS_Subset
<1>3. ASSUME NEW c \in E PROVE c \in D
  <2>1. c \in S /\ c < e /\ c \in Nat /\ d \in Nat /\ e \in Nat  OBVIOUS
  <2> QED  BY <2>1
<1> HIDE DEF D, E
<1>4. IsFiniteSet(E) /\ Cardinality(E) <= Cardinality(D)  BY <1>2, <1>3, FS_Subset
<1>5. Cardinality(D) \in Nat /\ Cardinality(E) \in Nat  BY <1>2, <1>4, FS_CardinalityType
<1> QED  BY <1>4, <1>5 DEF D, E

LEMMA Newest ==
  ASSUME TypeOK
  PROVE  Max(kept \cup {0}) \in 0..head /\ \A e \in kept : e <= Max(kept \cup {0})
<1>1. head \in Nat /\ kept \cup {0} \in SUBSET Nat /\ \A x \in kept \cup {0} : x <= head
  BY ClusterEventsAssumption DEF TypeOK
<1>2. Max(kept \cup {0}) \in kept \cup {0} /\ \A e \in kept \cup {0} : e <= Max(kept \cup {0})
  BY <1>1, Largest
<1>3. PICK m : m = Max(kept \cup {0})  OBVIOUS
<1>4. m \in kept \cup {0} /\ \A e \in kept \cup {0} : e <= m  BY <1>2, <1>3
<1>5. m \in 0..head
  <2>1. head \in Nat /\ kept \subseteq 1..head  BY <1>1 DEF TypeOK
  <2> QED  BY <1>4, <2>1
<1> QED  BY <1>3, <1>4, <1>5

(* What the fields of rows and processes are.                              *)
LEMMA Fields ==
  ASSUME TypeOK
  PROVE  /\ clock \in Nat /\ head \in Nat /\ head <= MaxEvents /\ MaxEvents \in Nat
         /\ kept \subseteq Event /\ Event \subseteq Nat
         /\ \A n \in Node : /\ joined[n] \in Nat /\ seen[n] \subseteq Event
                            /\ nodes[n] \in Row /\ nodes[n].last <= MaxEvents
                            /\ nodes[n].last \in Nat /\ nodes[n].expires \in Nat
                            /\ nodes[n].boot \in Boot \cup {Null}
         /\ \A n \in Node, b \in Boot :
              /\ process[n][b] \in Poller
              /\ process[n][b].cursor \in Nat /\ process[n][b].now \in Nat
              /\ process[n][b].cursor <= MaxEvents
              /\ process[n][b].due \in Nat /\ process[n][b].batch \subseteq Event
              /\ process[n][b].phase \in Phase /\ process[n][b].running \in BOOLEAN
<1>1. /\ clock \in Nat /\ head \in Nat /\ head <= MaxEvents /\ MaxEvents \in Nat
      /\ kept \subseteq Event /\ Event \subseteq Nat
  BY ClusterEventsAssumption DEF TypeOK, Event
<1>2. ASSUME NEW n \in Node
      PROVE  /\ joined[n] \in Nat /\ seen[n] \subseteq Event
             /\ nodes[n] \in Row /\ nodes[n].last <= MaxEvents
             /\ nodes[n].last \in Nat /\ nodes[n].expires \in Nat
             /\ nodes[n].boot \in Boot \cup {Null}
  <2>1. nodes[n] \in Row  BY <1>2 DEF TypeOK
  <2>2. joined[n] \in 0..MaxEvents /\ seen[n] \subseteq Event  BY DEF TypeOK
  <2> QED  BY <1>1, <2>1, <2>2 DEF Row
<1>3. ASSUME NEW n \in Node, NEW b \in Boot
      PROVE  /\ process[n][b] \in Poller
             /\ process[n][b].cursor \in Nat /\ process[n][b].now \in Nat
             /\ process[n][b].cursor <= MaxEvents
             /\ process[n][b].due \in Nat /\ process[n][b].batch \subseteq Event
             /\ process[n][b].phase \in Phase /\ process[n][b].running \in BOOLEAN
  <2>1. process[n][b] \in Poller  BY DEF TypeOK
  <2> QED  BY <1>1, <2>1 DEF Poller
<1> QED  BY <1>1, <1>2, <1>3

(* A step of one process leaves the others alone.                          *)
LEMMA Others ==
  ASSUME TypeOK, NEW n \in Node, NEW b \in Boot, NEW p, Set(n, b, p)
  PROVE  /\ process'[n][b] = p
         /\ \A m \in Node, c \in Boot : m # n \/ c # b => process'[m][c] = process[m][c]
         /\ p \in Poller => process' \in [Node -> [Boot -> Poller]]
<1>1. process \in [Node -> [Boot -> Poller]]  BY DEF TypeOK
<1>2. process' = [process EXCEPT ![n][b] = p]  BY DEF Set
<1> HIDE DEF Poller
<1> QED  BY <1>1, <1>2

-----------------------------------------------------------------------------
LEMMA InitInv == Init => IInv
<1> SUFFICES ASSUME Init PROVE IInv  OBVIOUS
<1> USE ClusterEventsAssumption DEF Init
<1>1. TypeOK
  <2>1. NotStarted \in Poller  BY DEF NotStarted, Poller, Phase
  <2>2. nodes \in [Node -> Row]  BY DEF Row
  <2>3. process \in [Node -> [Boot -> Poller]]  BY <2>1
  <2> QED  BY <2>2, <2>3 DEF TypeOK
<1>2. Sane /\ Fresh  BY DEF Sane, Fresh, NotStarted, Busy, Registered
<1>3. OwnCursor /\ Owned  BY DEF OwnCursor, Owned, NotStarted, InPhase
<1>4. Passed /\ Batched  BY DEF Passed, Batched, Registered
<1>5. Consumed /\ Deleted  BY DEF Consumed, Deleted, NotStarted, InPhase, Registered
<1>6. DeliveredInOrder  BY DEF DeliveredInOrder
<1> QED  BY <1>1, <1>2, <1>3, <1>4, <1>5, <1>6 DEF IInv

(* What maintenance removes every node live now has passed: the time it    *)
(* looks at is not later, and who was to expire by then has.               *)
LEMMA Spared ==
  ASSUME TypeOK, Sane, NEW n \in Node, NEW b \in Boot, NEW m \in Node, Live(m)
  PROVE  \A e \in Expendable(process[n][b].now) : e <= nodes[m].last
BY Fields DEF Sane, Live, Expendable

LEMMA AppendInv ==
  ASSUME IInv, Append
  PROVE  IInv'
<1>a. /\ TypeOK /\ Sane /\ Fresh /\ OwnCursor /\ Owned
      /\ Passed /\ Batched /\ Consumed /\ Deleted /\ DeliveredInOrder
  BY DEF IInv
<1>b. Null \notin Boot /\ NodeTtl \in Nat \ {0}  BY ClusterEventsAssumption
<1>c. /\ head < MaxEvents /\ head' = head + 1 /\ kept' = kept \cup {head + 1}
      /\ created' = [created EXCEPT ![head + 1] = clock]
      /\ UNCHANGED <<clock, nodes, process, joined, seen, lapsed, failures>>
  BY DEF Append, history
<1>1. TypeOK'
  <2>1. head' \in 0..MaxEvents /\ kept' \subseteq 1..head' /\ head + 1 \in Event
    BY <1>a, <1>c, Fields DEF TypeOK, Event
  <2>2. created' \in [Event -> Nat]  BY <1>a, <1>c, <2>1 DEF TypeOK
  <2> QED  BY <1>a, <1>c, <2>1, <2>2 DEF TypeOK
<1>2. Sane'
  BY <1>a, <1>b, <1>c, Fields DEF Event, Sane, Busy
<1>3. Fresh'
  BY <1>a, <1>b, <1>c, Fields DEF Event, Fresh, Registered
<1>4. OwnCursor'
  BY <1>a, <1>b, <1>c, Fields DEF Event, OwnCursor, InPhase
<1>5. Owned'
  BY <1>a, <1>b, <1>c, Fields DEF Event, Owned
<1>6. Passed'
  BY <1>a, <1>b, <1>c, Fields DEF Event, Passed, SeenUpTo, Registered
<1>7. Batched'
  BY <1>a, <1>b, <1>c, Fields DEF Event, Batched, Registered
<1>8. Consumed'
  BY <1>a, <1>b, <1>c, Fields DEF Event, Consumed, InPhase
<1>9. Deleted'
  BY <1>a, <1>b, <1>c, Fields DEF Event, Deleted, Registered
<1>10. DeliveredInOrder'
  BY <1>a, <1>b, <1>c, Fields DEF Event, DeliveredInOrder
<1> QED  BY <1>1, <1>2, <1>3, <1>4, <1>5, <1>6, <1>7, <1>8, <1>9, <1>10 DEF IInv

LEMMA TickInv ==
  ASSUME IInv, Tick
  PROVE  IInv'
<1>a. /\ TypeOK /\ Sane /\ Fresh /\ OwnCursor /\ Owned
      /\ Passed /\ Batched /\ Consumed /\ Deleted /\ DeliveredInOrder
  BY DEF IInv
<1>b. Null \notin Boot /\ NodeTtl \in Nat \ {0}  BY ClusterEventsAssumption
<1>c. clock' = clock + 1 /\ UNCHANGED <<head, created, kept, nodes, process, joined, seen, lapsed, failures>>
  BY DEF Tick, logVars, history
<1>1. TypeOK'
  BY <1>a, <1>b, <1>c, Fields DEF Event, TypeOK
<1>2. Sane'
  BY <1>a, <1>b, <1>c, Fields DEF Event, Sane, Busy
<1>3. Fresh'
  BY <1>a, <1>b, <1>c, Fields DEF Event, Fresh, Registered
<1>4. OwnCursor'
  BY <1>a, <1>b, <1>c, Fields DEF Event, OwnCursor, InPhase
<1>5. Owned'
  BY <1>a, <1>b, <1>c, Fields DEF Event, Owned
<1>6. Passed'
  BY <1>a, <1>b, <1>c, Fields DEF Event, Passed, SeenUpTo, Registered
<1>7. Batched'
  BY <1>a, <1>b, <1>c, Fields DEF Event, Batched, Registered
<1>8. Consumed'
  BY <1>a, <1>b, <1>c, Fields DEF Event, Consumed, InPhase
<1>9. Deleted'
  BY <1>a, <1>b, <1>c, Fields DEF Event, Deleted, Registered
<1>10. DeliveredInOrder'
  BY <1>a, <1>b, <1>c, Fields DEF Event, DeliveredInOrder
<1> QED  BY <1>1, <1>2, <1>3, <1>4, <1>5, <1>6, <1>7, <1>8, <1>9, <1>10 DEF IInv

LEMMA StartInv ==
  ASSUME IInv, NEW n \in Node, NEW b \in Boot, Start(n, b)
  PROVE  IInv'
<1>a. /\ TypeOK /\ Sane /\ Fresh /\ OwnCursor /\ Owned
      /\ Passed /\ Batched /\ Consumed /\ Deleted /\ DeliveredInOrder
  BY DEF IInv
<1>b. Null \notin Boot /\ NodeTtl \in Nat \ {0}  BY ClusterEventsAssumption
<1> DEFINE cursor == IF Registered(n) THEN nodes[n].last ELSE Max(kept \cup {0})
           p == Started(process[n][b], cursor)
           row == [boot |-> b, last |-> cursor, expires |-> clock + NodeTtl]
<1>c. /\ InPhase(n, b, "idle") /\ ~process[n][b].running /\ (Live(n) => nodes[n].boot = b)
      /\ nodes' = [nodes EXCEPT ![n] = row] /\ Set(n, b, p)
      /\ joined' = [joined EXCEPT ![n] = IF Registered(n) THEN joined[n] ELSE head]
      /\ UNCHANGED <<clock, head, created, kept, seen, lapsed, failures>>
  BY <1>a DEF Start, logVars, TypeOK
<1>f. /\ cursor \in 0..MaxEvents /\ (~Registered(n) => cursor <= head /\ nodes[n].last = 0)
      /\ Registered(n) => cursor = nodes[n].last
  <2>1. CASE Registered(n)  BY <1>a, <2>1, Fields
  <2>2. CASE ~Registered(n)  BY <1>a, <2>2, Newest, Fields DEF Fresh
  <2> QED  BY <2>1, <2>2
<1>g. /\ p.phase = "idle" /\ p.running /\ p.cursor = cursor /\ p.now = 0 /\ p.batch = {}
      /\ row.boot = b /\ row.last = cursor /\ row.expires = clock + NodeTtl /\ b # Null
  BY <1>b DEF Started
<1>d. p \in Poller /\ row \in Row
  BY <1>a, <1>b, <1>f, Fields DEF Poller, Row, Started, Phase
<1> HIDE DEF cursor, p, row
<1>e. /\ process'[n][b] = p /\ process' \in [Node -> [Boot -> Poller]]
      /\ \A m \in Node, c \in Boot : m # n \/ c # b => process'[m][c] = process[m][c]
  BY <1>a, <1>c, <1>d, Others
<1>h. /\ nodes'[n] = row /\ nodes' \in [Node -> Row]
      /\ \A m \in Node : m # n => nodes'[m] = nodes[m] /\ joined'[m] = joined[m]
      /\ Registered(n) => joined'[n] = joined[n]
      /\ ~Registered(n) => joined'[n] = head
      /\ joined' \in [Node -> 0..MaxEvents]
  BY <1>a, <1>c, <1>d, Fields DEF TypeOK
<1>1. TypeOK'
  BY <1>a, <1>c, <1>e, <1>h DEF TypeOK
<1>2. Sane'
  BY <1>a, <1>b, <1>c, <1>e, <1>f, <1>g, <1>h, Fields DEF Event, Sane, Busy
<1>3. Fresh'
  BY <1>a, <1>b, <1>c, <1>e, <1>f, <1>g, <1>h, Fields DEF Event, Fresh, Registered
<1>4. OwnCursor'
  BY <1>a, <1>b, <1>c, <1>e, <1>f, <1>g, <1>h, Fields DEF Event, OwnCursor, InPhase
<1>5. Owned'
  <2> SUFFICES ASSUME NEW m \in Node, NEW c \in Boot,
                      process'[m][c].phase \notin {"idle", "dead"}, process'[m][c].running,
                      clock < process'[m][c].now + NodeTtl
               PROVE  nodes'[m].boot = c /\ nodes'[m].expires >= process'[m][c].now + NodeTtl
    BY <1>c DEF Owned
  <2>1. CASE m = n /\ c = b  BY <1>a, <1>b, <1>c, <1>e, <1>f, <1>g, <1>h, <2>1, Fields DEF Owned, InPhase
  <2>2. CASE m # n
    BY <1>a, <1>b, <1>c, <1>e, <1>f, <1>g, <1>h, <2>2, Fields DEF Owned
  <2>3. CASE m = n /\ c # b
    BY <1>a, <1>b, <1>c, <1>e, <1>f, <1>g, <1>h, <2>3, Fields DEF Owned, Live, Registered
  <2> QED  BY <2>1, <2>2, <2>3
<1>6. Passed'
  <2> SUFFICES ASSUME NEW m \in Node, Registered(m)', ~lapsed[m], NEW e \in Event, joined'[m] < e
               PROVE  /\ e <= nodes'[m].last => e \in seen[m]
                      /\ \A c \in Boot : e <= process'[m][c].cursor => e \in seen[m]
    BY <1>c DEF Passed, SeenUpTo
  <2>1. CASE m # n
    <3>1. nodes'[m] = nodes[m] /\ joined'[m] = joined[m] /\ Registered(m)  BY <1>c, <1>e, <1>f, <1>g, <1>h, <2>1 DEF Registered
    <3>2. \A c \in Boot : process'[m][c] = process[m][c]  BY <1>c, <1>e, <1>f, <1>g, <1>h, <2>1
    <3> QED  BY <1>a, <3>1, <3>2 DEF Passed, SeenUpTo
  <2>2. CASE m = n /\ Registered(n)
    <3>1. nodes'[n].last = nodes[n].last /\ joined'[n] = joined[n]  BY <1>c, <1>e, <1>f, <1>g, <1>h, <2>2
    <3>2. \A c \in Boot : process'[n][c].cursor \in {process[n][c].cursor, nodes[n].last}  BY <1>c, <1>e, <1>f, <1>g, <1>h, <2>2
    <3> QED  BY <1>a, <2>2, <3>1, <3>2 DEF Passed, SeenUpTo
  <2>3. CASE m = n /\ ~Registered(n)
    <3>1. \A c \in Boot : process'[n][c].cursor \in {0, cursor}  BY <1>a, <1>c, <1>e, <1>f, <1>g, <1>h, <2>3 DEF Fresh, NotStarted
    <3>2. nodes'[n].last = cursor /\ joined'[n] = head /\ cursor <= head /\ cursor \in Nat /\ head \in Nat
      BY <1>a, <1>c, <1>e, <1>f, <1>g, <1>h, <2>3, Fields
    <3>3. e \in Nat  BY <1>a, Fields
    <3> QED  BY <2>3, <3>1, <3>2, <3>3
  <2> QED  BY <2>1, <2>2, <2>3
<1>7. Batched'
  <2> SUFFICES ASSUME NEW m \in Node, NEW c \in Boot, Registered(m)', ~lapsed[m],
                      NEW d \in process'[m][c].batch, NEW e \in Event, joined'[m] < e, e < d
               PROVE  e \in seen[m] \cup process'[m][c].batch
    BY <1>c DEF Batched
  <2>1. m # n \/ c # b  BY <1>e, <1>g
  <2>2. Registered(m)  BY <1>a, <1>e, <1>h, <2>1 DEF Fresh, Registered, NotStarted
  <2>3. joined'[m] = joined[m]  BY <1>h, <2>2
  <2> QED  BY <1>a, <1>e, <2>1, <2>2, <2>3 DEF Batched
<1>8. Consumed'
  BY <1>a, <1>b, <1>c, <1>e, <1>f, <1>g, <1>h, Fields DEF Event, Consumed, InPhase
<1>9. Deleted'
  BY <1>a, <1>b, <1>c, <1>e, <1>f, <1>g, <1>h, Fields DEF Event, Deleted, Registered
<1>10. DeliveredInOrder'
  <2> SUFFICES ASSUME NEW m \in Node, ~lapsed[m], NEW e \in seen[m], NEW d \in Event, joined'[m] < d, d < e
               PROVE  d \in seen[m]
    BY <1>c DEF DeliveredInOrder
  <2>1. Registered(m)  BY <1>a DEF Fresh
  <2>2. joined'[m] = joined[m]  BY <1>h, <2>1
  <2> QED  BY <1>a, <2>2 DEF DeliveredInOrder
<1> QED  BY <1>1, <1>2, <1>3, <1>4, <1>5, <1>6, <1>7, <1>8, <1>9, <1>10 DEF IInv

LEMMA HeartbeatInv ==
  ASSUME IInv, NEW n \in Node, NEW b \in Boot, Heartbeat(n, b)
  PROVE  IInv'
<1>a. /\ TypeOK /\ Sane /\ Fresh /\ OwnCursor /\ Owned
      /\ Passed /\ Batched /\ Consumed /\ Deleted /\ DeliveredInOrder
  BY DEF IInv
<1>b. Null \notin Boot /\ NodeTtl \in Nat \ {0}  BY ClusterEventsAssumption
<1>c. /\ InPhase(n, b, "idle") /\ process[n][b].running
      /\ UNCHANGED <<clock, head, created, kept, joined, seen, lapsed, failures>>
  BY DEF Heartbeat, logVars, history
<1> DEFINE owner == nodes[n].boot = b
           p == IF owner THEN Polling(process[n][b]) ELSE [process[n][b] EXCEPT !.running = FALSE]
<1>f. Set(n, b, p) /\ nodes' = IF owner THEN [nodes EXCEPT ![n].expires = clock + NodeTtl] ELSE nodes
  BY DEF Heartbeat
<1>d. p \in Poller
  <2>1. CASE owner  BY <1>a, <1>b, <2>1, Fields DEF Polling, Poller, Phase
  <2>2. CASE ~owner  BY <1>a, <2>2, Fields DEF Poller
  <2> QED  BY <2>1, <2>2
<1>g. /\ p.cursor = process[n][b].cursor
      /\ owner => p.phase = "reading" /\ p.now = clock /\ p.batch = {}
      /\ ~owner => /\ p.phase = "idle" /\ p.now = process[n][b].now /\ ~p.running
                  /\ p.batch = process[n][b].batch
  <2>1. CASE owner  BY <2>1 DEF Polling
  <2>2. CASE ~owner  BY <1>a, <1>c, <2>2, Fields DEF Poller, InPhase
  <2> QED  BY <2>1, <2>2
<1> HIDE DEF p
<1>e. /\ process'[n][b] = p /\ process' \in [Node -> [Boot -> Poller]]
      /\ \A m \in Node, c \in Boot : m # n \/ c # b => process'[m][c] = process[m][c]
  BY <1>a, <1>f, <1>d, Others
<1>h. /\ nodes' \in [Node -> Row]
      /\ owner => nodes'[n].expires = clock + NodeTtl
      /\ ~owner => nodes' = nodes
      /\ nodes'[n].boot = nodes[n].boot /\ nodes'[n].last = nodes[n].last
      /\ \A m \in Node : m # n => nodes'[m] = nodes[m]
  <2>1. [nodes[n] EXCEPT !.expires = clock + NodeTtl] \in Row  BY <1>a, <1>b, Fields DEF Row
  <2> QED  BY <1>a, <1>f, <2>1 DEF TypeOK, Row
<1>r. Registered(n)
  BY <1>a, <1>c DEF Fresh, NotStarted, InPhase
<1>1. TypeOK'
  BY <1>a, <1>c, <1>e, <1>h DEF TypeOK
<1>2. Sane'
  BY <1>a, <1>b, <1>c, <1>e, <1>g, <1>h, <1>r, Fields DEF Event, Sane, Busy
<1>3. Fresh'
  BY <1>a, <1>b, <1>c, <1>e, <1>g, <1>h, <1>r, Fields DEF Event, Fresh, Registered
<1>4. OwnCursor'
  BY <1>a, <1>b, <1>c, <1>e, <1>g, <1>h, <1>r, Fields DEF Event, OwnCursor, InPhase
<1>5. Owned'
  BY <1>a, <1>b, <1>c, <1>e, <1>g, <1>h, <1>r, Fields DEF Event, Owned
<1>6. Passed'
  <2> SUFFICES ASSUME NEW m \in Node, Registered(m)', ~lapsed[m], NEW e \in Event, joined'[m] < e
               PROVE  /\ e <= nodes'[m].last => e \in seen[m]
                      /\ \A c \in Boot : e <= process'[m][c].cursor => e \in seen[m]
    BY <1>c DEF Passed, SeenUpTo
  <2>1. CASE m # n
    <3>1. nodes'[m] = nodes[m] /\ joined'[m] = joined[m] /\ Registered(m)  BY <1>c, <1>e, <1>g, <1>h, <1>r, <2>1 DEF Registered
    <3>2. \A c \in Boot : process'[m][c] = process[m][c]  BY <1>c, <1>e, <1>g, <1>h, <1>r, <2>1
    <3> QED  BY <1>a, <3>1, <3>2 DEF Passed, SeenUpTo
  <2>2. CASE m = n /\ Registered(n)
    <3>1. nodes'[n].last = nodes[n].last /\ joined'[n] = joined[n]  BY <1>c, <1>e, <1>g, <1>h, <1>r, <2>2
    <3>2. \A c \in Boot : process'[n][c].cursor \in {process[n][c].cursor, nodes[n].last}  BY <1>c, <1>e, <1>g, <1>h, <1>r, <2>2
    <3> QED  BY <1>a, <2>2, <3>1, <3>2 DEF Passed, SeenUpTo
  <2> QED  BY <2>1, <2>2, <1>r
<1>7. Batched'
  BY <1>a, <1>b, <1>c, <1>e, <1>g, <1>h, <1>r, Fields DEF Event, Batched, Registered
<1>8. Consumed'
  BY <1>a, <1>b, <1>c, <1>e, <1>g, <1>h, <1>r, Fields DEF Event, Consumed, InPhase
<1>9. Deleted'
  BY <1>a, <1>b, <1>c, <1>e, <1>g, <1>h, <1>r, Fields DEF Event, Deleted, Registered
<1>10. DeliveredInOrder'
  BY <1>a, <1>b, <1>c, <1>e, <1>g, <1>h, <1>r, Fields DEF Event, DeliveredInOrder
<1> QED  BY <1>1, <1>2, <1>3, <1>4, <1>5, <1>6, <1>7, <1>8, <1>9, <1>10 DEF IInv

LEMMA ReadInv ==
  ASSUME IInv, NEW n \in Node, NEW b \in Boot, Read(n, b)
  PROVE  IInv'
<1>a. /\ TypeOK /\ Sane /\ Fresh /\ OwnCursor /\ Owned
      /\ Passed /\ Batched /\ Consumed /\ Deleted /\ DeliveredInOrder
  BY DEF IInv
<1>b. Null \notin Boot /\ NodeTtl \in Nat \ {0}  BY ClusterEventsAssumption
<1> DEFINE newer == {e \in kept : e > process[n][b].cursor}
           batch == {e \in newer : Cardinality({d \in newer : d < e}) < BatchSize}
<1>c. /\ InPhase(n, b, "reading")
      /\ UNCHANGED <<clock, head, created, kept, nodes, joined, seen, lapsed, failures>>
  BY DEF Read, logVars, history
<1>h. newer \in SUBSET Event  BY <1>a, Fields
<1>i. /\ batch \subseteq kept /\ \A e \in batch : e > process[n][b].cursor
      /\ \A d \in batch : \A e \in kept : process[n][b].cursor < e /\ e < d => e \in batch
  <2>1. ASSUME NEW d \in batch, NEW e \in newer, e < d PROVE e \in batch
    <3>1. Cardinality({c \in newer : c < e}) < BatchSize
      <4> HIDE DEF newer
      <4> QED  BY <1>h, <2>1, Oldest
    <3> QED  BY <3>1
  <2> HIDE DEF batch
  <2>2. batch \subseteq newer  BY DEF batch
  <2> QED  BY <2>1, <2>2
<1> HIDE DEF batch, newer
<1> DEFINE p == AfterEvents(process[n][b], process[n][b].cursor, batch)
<1>d. p \in Poller
  BY <1>a, <1>i, Fields DEF AfterEvents, Poller, Phase
<1>g. /\ p.cursor = process[n][b].cursor /\ p.now = process[n][b].now /\ p.running = process[n][b].running
      /\ p.phase \in {"consuming", "maintaining"} /\ p.batch \in {batch, {}}
      /\ p.phase = "consuming" => p.batch # {}
  BY DEF AfterEvents
<1> HIDE DEF p
<1>e. /\ process'[n][b] = p /\ process' \in [Node -> [Boot -> Poller]]
      /\ \A m \in Node, c \in Boot : m # n \/ c # b => process'[m][c] = process[m][c]
  BY <1>a, <1>d, Others DEF Read, p, batch, newer
<1>r. Registered(n)
  BY <1>a, <1>c DEF Fresh, NotStarted, InPhase
<1>1. TypeOK'
  BY <1>a, <1>c, <1>e DEF TypeOK
<1>2. Sane'
  BY <1>a, <1>b, <1>c, <1>e, <1>g, <1>i, <1>r, Fields DEF Event, Sane, Busy
<1>3. Fresh'
  BY <1>a, <1>b, <1>c, <1>e, <1>g, <1>i, <1>r, Fields DEF Event, Fresh, Registered
<1>4. OwnCursor'
  BY <1>a, <1>b, <1>c, <1>e, <1>g, <1>i, <1>r, Fields DEF Event, OwnCursor, InPhase
<1>5. Owned'
  <2> SUFFICES ASSUME NEW m \in Node, NEW c \in Boot,
                      process'[m][c].phase \notin {"idle", "dead"}, process'[m][c].running,
                      clock < process'[m][c].now + NodeTtl
               PROVE  nodes'[m].boot = c /\ nodes'[m].expires >= process'[m][c].now + NodeTtl
    BY <1>c DEF Owned
  <2>1. CASE m = n /\ c = b  BY <1>a, <1>b, <1>c, <1>e, <1>g, <1>i, <1>r, <2>1, Fields DEF Owned, InPhase
  <2>2. CASE m # n
    BY <1>a, <1>b, <1>c, <1>e, <1>g, <1>i, <1>r, <2>2, Fields DEF Owned
  <2>3. CASE m = n /\ c # b
    BY <1>a, <1>b, <1>c, <1>e, <1>g, <1>i, <1>r, <2>3, Fields DEF Owned, Live, Registered
  <2> QED  BY <2>1, <2>2, <2>3
<1>6. Passed'
  BY <1>a, <1>b, <1>c, <1>e, <1>g, <1>i, <1>r, Fields DEF Event, Passed, SeenUpTo, Registered
<1>7. Batched'
  <2> SUFFICES ASSUME Registered(n), ~lapsed[n], NEW d \in batch, NEW e \in Event, joined[n] < e, e < d
               PROVE  e \in seen[n] \cup batch
    BY <1>a, <1>c, <1>e, <1>g DEF Batched, Registered
  <2>1. CASE e \in kept
    BY <1>a, <1>i, <2>1, Fields DEF Passed, SeenUpTo
  <2>2. CASE e \notin kept
    BY <1>a, <1>i, <2>2, Fields DEF Deleted, TypeOK
  <2> QED  BY <2>1, <2>2
<1>8. Consumed'
  BY <1>a, <1>b, <1>c, <1>e, <1>g, <1>i, <1>r, Fields DEF Event, Consumed, InPhase
<1>9. Deleted'
  BY <1>a, <1>b, <1>c, <1>e, <1>g, <1>i, <1>r, Fields DEF Event, Deleted, Registered
<1>10. DeliveredInOrder'
  BY <1>a, <1>b, <1>c, <1>e, <1>g, <1>i, <1>r, Fields DEF Event, DeliveredInOrder
<1> QED  BY <1>1, <1>2, <1>3, <1>4, <1>5, <1>6, <1>7, <1>8, <1>9, <1>10 DEF IInv

LEMMA ProcessInv ==
  ASSUME IInv, NEW n \in Node, NEW b \in Boot, Process(n, b)
  PROVE  IInv'
<1>a. /\ TypeOK /\ Sane /\ Fresh /\ OwnCursor /\ Owned
      /\ Passed /\ Batched /\ Consumed /\ Deleted /\ DeliveredInOrder
  BY DEF IInv
<1>b. Null \notin Boot /\ NodeTtl \in Nat \ {0}  BY ClusterEventsAssumption
<1> DEFINE e == First(process[n][b].batch)
           p == [process[n][b] EXCEPT !.phase = "consumed"]
<1>c. /\ InPhase(n, b, "consuming") /\ seen' = [seen EXCEPT ![n] = seen[n] \cup {e}]
      /\ UNCHANGED <<clock, head, created, kept, nodes, joined, lapsed, failures>>
  BY <1>a DEF Process, logVars, TypeOK
<1>f. /\ e \in process[n][b].batch /\ e \in Event
      /\ \A d \in process[n][b].batch : e <= d
  BY <1>a, <1>c, Smallest, Fields DEF Sane, Busy, InPhase
<1>d. p \in Poller  BY <1>a, Fields DEF Poller, Phase
<1>g. /\ p.cursor = process[n][b].cursor /\ p.now = process[n][b].now /\ p.running = process[n][b].running
      /\ p.batch = process[n][b].batch /\ p.phase = "consumed"
  BY <1>a, Fields DEF Poller
<1> HIDE DEF p
<1>e. /\ process'[n][b] = p /\ process' \in [Node -> [Boot -> Poller]]
      /\ \A m \in Node, c \in Boot : m # n \/ c # b => process'[m][c] = process[m][c]
  BY <1>a, <1>d, Others DEF Process, p
<1>h. Registered(n)
  BY <1>a, <1>c DEF Fresh, NotStarted, InPhase
<1>i. /\ seen' \in [Node -> SUBSET Event] /\ seen'[n] = seen[n] \cup {e}
      /\ \A m \in Node : m # n => seen'[m] = seen[m]
  BY <1>a, <1>c, <1>f DEF TypeOK
<1>j. First(process[n][b].batch) = e  OBVIOUS
<1> HIDE DEF e
<1>1. TypeOK'
  BY <1>a, <1>c, <1>e, <1>i DEF TypeOK
<1>2. Sane'
  BY <1>a, <1>b, <1>c, <1>e, <1>f, <1>g, <1>h, <1>i, <1>j, Fields DEF Event, Sane, Busy
<1>3. Fresh'
  BY <1>a, <1>b, <1>c, <1>e, <1>f, <1>g, <1>h, <1>i, <1>j, Fields DEF Event, Fresh, Registered
<1>4. OwnCursor'
  BY <1>a, <1>b, <1>c, <1>e, <1>f, <1>g, <1>h, <1>i, <1>j, Fields DEF Event, OwnCursor, InPhase
<1>5. Owned'
  <2> SUFFICES ASSUME NEW m \in Node, NEW c \in Boot,
                      process'[m][c].phase \notin {"idle", "dead"}, process'[m][c].running,
                      clock < process'[m][c].now + NodeTtl
               PROVE  nodes'[m].boot = c /\ nodes'[m].expires >= process'[m][c].now + NodeTtl
    BY <1>c DEF Owned
  <2>1. CASE m = n /\ c = b  BY <1>a, <1>b, <1>c, <1>e, <1>f, <1>g, <1>h, <1>i, <1>j, <2>1, Fields DEF Owned, InPhase
  <2>2. CASE m # n
    BY <1>a, <1>b, <1>c, <1>e, <1>f, <1>g, <1>h, <1>i, <1>j, <2>2, Fields DEF Owned
  <2>3. CASE m = n /\ c # b
    BY <1>a, <1>b, <1>c, <1>e, <1>f, <1>g, <1>h, <1>i, <1>j, <2>3, Fields DEF Owned, Live, Registered
  <2> QED  BY <2>1, <2>2, <2>3
<1>6. Passed'
  BY <1>a, <1>b, <1>c, <1>e, <1>f, <1>g, <1>h, <1>i, <1>j, Fields DEF Event, Passed, SeenUpTo, Registered
<1>7. Batched'
  BY <1>a, <1>b, <1>c, <1>e, <1>f, <1>g, <1>h, <1>i, <1>j, Fields DEF Event, Batched, Registered
<1>8. Consumed'
  BY <1>a, <1>b, <1>c, <1>e, <1>f, <1>g, <1>h, <1>i, <1>j, Fields DEF Event, Consumed, InPhase
<1>9. Deleted'
  BY <1>a, <1>b, <1>c, <1>e, <1>f, <1>g, <1>h, <1>i, <1>j, Fields DEF Event, Deleted, Registered
<1>10. DeliveredInOrder'
  <2> SUFFICES ASSUME NEW m \in Node, ~lapsed[m], NEW x \in seen'[m], NEW d \in Event, joined[m] < d, d < x
               PROVE  d \in seen'[m]
    BY <1>c DEF DeliveredInOrder
  <2>1. CASE x \in seen[m]  BY <1>a, <1>i, <2>1 DEF DeliveredInOrder
  <2>2. CASE x \notin seen[m]
    <3>1. m = n /\ x = e  BY <1>i, <2>2
    <3>2. d \notin process[n][b].batch  BY <1>f, <3>1, <1>a, Fields
    <3> QED  BY <1>a, <1>f, <1>h, <1>i, <3>1, <3>2 DEF Batched
  <2> QED  BY <2>1, <2>2
<1> QED  BY <1>1, <1>2, <1>3, <1>4, <1>5, <1>6, <1>7, <1>8, <1>9, <1>10 DEF IInv

LEMMA AdvanceInv ==
  ASSUME IInv, NEW n \in Node, NEW b \in Boot, Advance(n, b)
  PROVE  IInv'
<1>a. /\ TypeOK /\ Sane /\ Fresh /\ OwnCursor /\ Owned
      /\ Passed /\ Batched /\ Consumed /\ Deleted /\ DeliveredInOrder
  BY DEF IInv
<1>b. Null \notin Boot /\ NodeTtl \in Nat \ {0}  BY ClusterEventsAssumption
<1> DEFINE e == First(process[n][b].batch)
           rest == process[n][b].batch \ {e}
<1>c. /\ InPhase(n, b, "consumed")
      /\ nodes' = IF nodes[n].boot = b THEN [nodes EXCEPT ![n].last = e] ELSE nodes
      /\ UNCHANGED <<clock, head, created, kept, joined, seen, lapsed, failures>>
  BY DEF Advance, logVars, history
<1>f. /\ e \in process[n][b].batch /\ e \in Event /\ e \in seen[n] /\ e > process[n][b].cursor
      /\ \A d \in rest : e < d
      /\ rest \subseteq process[n][b].batch /\ process[n][b].batch \subseteq rest \cup {e}
  BY <1>a, <1>c, Smallest, Fields DEF Sane, Busy, InPhase, Consumed
<1>j. \A d \in Event : Registered(n) /\ ~lapsed[n] /\ joined[n] < d /\ d <= e => d \in seen[n]
  <2> SUFFICES ASSUME NEW d \in Event, Registered(n), ~lapsed[n], joined[n] < d, d < e
               PROVE  d \in seen[n]
    BY <1>a, <1>f, Fields
  <2>1. d \notin process[n][b].batch  BY <1>a, <1>f, Fields
  <2> QED  BY <1>a, <1>f, <2>1 DEF Batched
<1> HIDE DEF rest
<1> DEFINE p == AfterEvents(process[n][b], e, rest)
<1>d. p \in Poller
  BY <1>a, <1>f, Fields DEF AfterEvents, Poller, Phase, Event
<1>g. /\ p.cursor = e /\ p.now = process[n][b].now /\ p.running = process[n][b].running
      /\ p.phase \in {"consuming", "maintaining"} /\ p.batch \in {rest, {}}
      /\ p.phase = "consuming" => p.batch # {}
  BY DEF AfterEvents
<1> HIDE DEF p
<1>e. /\ process'[n][b] = p /\ process' \in [Node -> [Boot -> Poller]]
      /\ \A m \in Node, c \in Boot : m # n \/ c # b => process'[m][c] = process[m][c]
  BY <1>a, <1>d, Others DEF Advance, p, rest
<1>h. /\ nodes' \in [Node -> Row]
      /\ nodes'[n].boot = nodes[n].boot /\ nodes'[n].expires = nodes[n].expires
      /\ nodes'[n].last = IF nodes[n].boot = b THEN e ELSE nodes[n].last
      /\ \A m \in Node : m # n => nodes'[m] = nodes[m]
  <2>1. [nodes[n] EXCEPT !.last = e] \in Row  BY <1>a, <1>f, Fields DEF Row, Event
  <2> QED  BY <1>a, <1>c, <2>1 DEF TypeOK, Row
<1> HIDE DEF e
<1>r. Registered(n)
  BY <1>a, <1>c DEF Fresh, NotStarted, InPhase
<1>1. TypeOK'
  BY <1>a, <1>c, <1>e, <1>h DEF TypeOK
<1>2. Sane'
  BY <1>a, <1>b, <1>c, <1>e, <1>f, <1>g, <1>h, <1>j, <1>r, Fields DEF Event, Sane, Busy
<1>3. Fresh'
  <2> SUFFICES ASSUME NEW m \in Node, ~Registered(m)'
               PROVE  nodes'[m].last = 0 /\ seen[m] = {} /\ \A c \in Boot : process'[m][c] = NotStarted
    BY <1>c DEF Fresh
  <2>1. m # n /\ ~Registered(m)  BY <1>h, <1>r DEF Registered
  <2> QED  BY <1>a, <1>e, <1>h, <2>1 DEF Fresh
<1>4. OwnCursor'
  BY <1>a, <1>b, <1>c, <1>e, <1>f, <1>g, <1>h, <1>j, <1>r, Fields DEF Event, OwnCursor, InPhase
<1>5. Owned'
  <2> SUFFICES ASSUME NEW m \in Node, NEW c \in Boot,
                      process'[m][c].phase \notin {"idle", "dead"}, process'[m][c].running,
                      clock < process'[m][c].now + NodeTtl
               PROVE  nodes'[m].boot = c /\ nodes'[m].expires >= process'[m][c].now + NodeTtl
    BY <1>c DEF Owned
  <2>1. CASE m = n /\ c = b  BY <1>a, <1>b, <1>c, <1>e, <1>f, <1>g, <1>h, <1>j, <1>r, <2>1, Fields DEF Owned, InPhase
  <2>2. CASE m # n
    BY <1>a, <1>b, <1>c, <1>e, <1>f, <1>g, <1>h, <1>j, <1>r, <2>2, Fields DEF Owned
  <2>3. CASE m = n /\ c # b
    BY <1>a, <1>b, <1>c, <1>e, <1>f, <1>g, <1>h, <1>j, <1>r, <2>3, Fields DEF Owned, Live, Registered
  <2> QED  BY <2>1, <2>2, <2>3
<1>6. Passed'
  BY <1>a, <1>b, <1>c, <1>e, <1>f, <1>g, <1>h, <1>j, <1>r, Fields DEF Event, Passed, SeenUpTo, Registered
<1>7. Batched'
  BY <1>a, <1>b, <1>c, <1>e, <1>f, <1>g, <1>h, <1>j, <1>r, Fields DEF Event, Batched, Registered
<1>8. Consumed'
  BY <1>a, <1>b, <1>c, <1>e, <1>f, <1>g, <1>h, <1>j, <1>r, Fields DEF Event, Consumed, InPhase
<1>9. Deleted'
  BY <1>a, <1>b, <1>c, <1>e, <1>f, <1>g, <1>h, <1>j, <1>r, Fields DEF Event, Deleted, Registered
<1>10. DeliveredInOrder'
  BY <1>a, <1>b, <1>c, <1>e, <1>f, <1>g, <1>h, <1>j, <1>r, Fields DEF Event, DeliveredInOrder
<1> QED  BY <1>1, <1>2, <1>3, <1>4, <1>5, <1>6, <1>7, <1>8, <1>9, <1>10 DEF IInv

LEMMA FailInv ==
  ASSUME IInv, NEW n \in Node, NEW b \in Boot, Fail(n, b)
  PROVE  IInv'
<1>a. /\ TypeOK /\ Sane /\ Fresh /\ OwnCursor /\ Owned
      /\ Passed /\ Batched /\ Consumed /\ Deleted /\ DeliveredInOrder
  BY DEF IInv
<1>b. Null \notin Boot /\ NodeTtl \in Nat \ {0}  BY ClusterEventsAssumption
<1>c. /\ InPhase(n, b, "consuming") /\ failures' = failures + 1
      /\ UNCHANGED <<clock, head, created, kept, nodes, joined, seen, lapsed>>
  BY DEF Fail, logVars, history
<1> DEFINE p == Ended(process[n][b], process[n][b].due)
<1>d. p \in Poller
  BY <1>a, Fields DEF Ended, Poller, Phase
<1>g. /\ p.cursor = process[n][b].cursor /\ p.now = 0 /\ p.running = process[n][b].running
      /\ p.phase = "idle" /\ p.batch = {}
  BY DEF Ended
<1> HIDE DEF p
<1>e. /\ process'[n][b] = p /\ process' \in [Node -> [Boot -> Poller]]
      /\ \A m \in Node, c \in Boot : m # n \/ c # b => process'[m][c] = process[m][c]
  BY <1>a, <1>d, Others DEF Fail, p
<1>r. Registered(n)
  BY <1>a, <1>c DEF Fresh, NotStarted, InPhase
<1>1. TypeOK'
  BY <1>a, <1>c, <1>e DEF TypeOK
<1>2. Sane'
  BY <1>a, <1>b, <1>c, <1>e, <1>g, <1>r, Fields DEF Event, Sane, Busy
<1>3. Fresh'
  BY <1>a, <1>b, <1>c, <1>e, <1>g, <1>r, Fields DEF Event, Fresh, Registered
<1>4. OwnCursor'
  BY <1>a, <1>b, <1>c, <1>e, <1>g, <1>r, Fields DEF Event, OwnCursor, InPhase
<1>5. Owned'
  BY <1>a, <1>b, <1>c, <1>e, <1>g, <1>r, Fields DEF Event, Owned
<1>6. Passed'
  BY <1>a, <1>b, <1>c, <1>e, <1>g, <1>r, Fields DEF Event, Passed, SeenUpTo, Registered
<1>7. Batched'
  BY <1>a, <1>b, <1>c, <1>e, <1>g, <1>r, Fields DEF Event, Batched, Registered
<1>8. Consumed'
  BY <1>a, <1>b, <1>c, <1>e, <1>g, <1>r, Fields DEF Event, Consumed, InPhase
<1>9. Deleted'
  BY <1>a, <1>b, <1>c, <1>e, <1>g, <1>r, Fields DEF Event, Deleted, Registered
<1>10. DeliveredInOrder'
  BY <1>a, <1>b, <1>c, <1>e, <1>g, <1>r, Fields DEF Event, DeliveredInOrder
<1> QED  BY <1>1, <1>2, <1>3, <1>4, <1>5, <1>6, <1>7, <1>8, <1>9, <1>10 DEF IInv

LEMMA MaintainInv ==
  ASSUME IInv, NEW n \in Node, NEW b \in Boot, Maintain(n, b)
  PROVE  IInv'
<1>a. /\ TypeOK /\ Sane /\ Fresh /\ OwnCursor /\ Owned
      /\ Passed /\ Batched /\ Consumed /\ Deleted /\ DeliveredInOrder
  BY DEF IInv
<1>b. Null \notin Boot /\ NodeTtl \in Nat \ {0}  BY ClusterEventsAssumption
<1> DEFINE now == process[n][b].now
           removed == IF now >= process[n][b].due THEN Expendable(now) ELSE {}
           due == IF now >= process[n][b].due THEN now + NodeTtl ELSE process[n][b].due
<1>c. /\ InPhase(n, b, "maintaining") /\ kept' = kept \ removed /\ Set(n, b, Ended(process[n][b], due))
      /\ lapsed' = [m \in Node |-> \/ lapsed[m]
                                   \/ /\ Registered(m) /\ ~Live(m)
                                      /\ \E e \in removed : e > nodes[m].last]
      /\ UNCHANGED <<clock, head, created, nodes, joined, seen, failures>>
  BY DEF Maintain
<1>f. \A m \in Node : Live(m) => \A e \in removed : e <= nodes[m].last
  BY <1>a, Spared
<1>h. /\ lapsed' \in [Node -> BOOLEAN]
      /\ \A m \in Node : ~lapsed'[m] =>
           ~lapsed[m] /\ (Registered(m) => \A e \in removed : e <= nodes[m].last)
  <2>1. lapsed' \in [Node -> BOOLEAN]  BY <1>a, <1>c DEF TypeOK
  <2>2. ASSUME NEW m \in Node, ~lapsed'[m], Registered(m), NEW e \in removed PROVE e <= nodes[m].last
    <3>1. e \in Nat /\ nodes[m].last \in Nat  BY <1>a, Fields DEF Expendable
    <3>2. CASE Live(m)  BY <1>f, <3>2
    <3>3. CASE ~Live(m)  BY <1>c, <2>2, <3>1, <3>3
    <3> QED  BY <3>2, <3>3
  <2>3. \A m \in Node : ~lapsed'[m] => ~lapsed[m]  BY <1>c
  <2> QED  BY <2>1, <2>2, <2>3
<1>i. due \in Nat  BY <1>a, <1>b, Fields
<1> HIDE DEF removed, due
<1> DEFINE p == Ended(process[n][b], due)
<1>d. p \in Poller
  BY <1>a, <1>i, Fields DEF Ended, Poller, Phase
<1>g. /\ p.cursor = process[n][b].cursor /\ p.now = 0 /\ p.running = process[n][b].running
      /\ p.phase = "idle" /\ p.batch = {}
  BY DEF Ended
<1> HIDE DEF p
<1>e. /\ process'[n][b] = p /\ process' \in [Node -> [Boot -> Poller]]
      /\ \A m \in Node, c \in Boot : m # n \/ c # b => process'[m][c] = process[m][c]
  BY <1>a, <1>c, <1>d, Others DEF p
<1>r. Registered(n)
  BY <1>a, <1>c DEF Fresh, NotStarted, InPhase
<1>1. TypeOK'
  BY <1>a, <1>c, <1>e, <1>h DEF TypeOK
<1>2. Sane'
  BY <1>a, <1>b, <1>c, <1>e, <1>g, <1>h, <1>r, Fields DEF Event, Sane, Busy
<1>3. Fresh'
  BY <1>a, <1>b, <1>c, <1>e, <1>g, <1>h, <1>r, Fields DEF Event, Fresh, Registered
<1>4. OwnCursor'
  BY <1>a, <1>b, <1>c, <1>e, <1>g, <1>h, <1>r, Fields DEF Event, OwnCursor, InPhase
<1>5. Owned'
  BY <1>a, <1>b, <1>c, <1>e, <1>g, <1>h, <1>r, Fields DEF Event, Owned
<1>6. Passed'
  <2> SUFFICES ASSUME NEW m \in Node, Registered(m), ~lapsed[m], NEW e \in Event, joined[m] < e
               PROVE  /\ e <= nodes[m].last => e \in seen[m]
                      /\ \A c \in Boot : e <= process'[m][c].cursor => e \in seen[m]
    BY <1>c, <1>h DEF Passed, SeenUpTo, Registered
  <2>1. \A c \in Boot : process'[m][c].cursor = process[m][c].cursor  BY <1>e, <1>g
  <2> QED  BY <1>a, <2>1 DEF Passed, SeenUpTo
<1>7. Batched'
  BY <1>a, <1>b, <1>c, <1>e, <1>g, <1>h, <1>r, Fields DEF Event, Batched, Registered
<1>8. Consumed'
  BY <1>a, <1>b, <1>c, <1>e, <1>g, <1>h, <1>r, Fields DEF Event, Consumed, InPhase
<1>9. Deleted'
  <2> SUFFICES ASSUME NEW m \in Node, Registered(m), ~lapsed'[m], NEW e \in Event,
                      joined[m] < e, e <= head, e \notin kept'
               PROVE  e \in seen[m]
    BY <1>c DEF Deleted, Registered
  <2>1. CASE e \in removed  BY <1>a, <1>h, <2>1 DEF Passed, SeenUpTo
  <2>2. CASE e \notin removed  BY <1>a, <1>c, <1>h, <2>2 DEF Deleted
  <2> QED  BY <2>1, <2>2
<1>10. DeliveredInOrder'
  BY <1>a, <1>b, <1>c, <1>e, <1>g, <1>h, <1>r, Fields DEF Event, DeliveredInOrder
<1> QED  BY <1>1, <1>2, <1>3, <1>4, <1>5, <1>6, <1>7, <1>8, <1>9, <1>10 DEF IInv

LEMMA StopInv ==
  ASSUME IInv, NEW n \in Node, NEW b \in Boot, Stop(n, b)
  PROVE  IInv'
<1>a. /\ TypeOK /\ Sane /\ Fresh /\ OwnCursor /\ Owned
      /\ Passed /\ Batched /\ Consumed /\ Deleted /\ DeliveredInOrder
  BY DEF IInv
<1>b. Null \notin Boot /\ NodeTtl \in Nat \ {0}  BY ClusterEventsAssumption
<1> DEFINE p == [process[n][b] EXCEPT !.running = FALSE]
<1>c. /\ process[n][b].running
      /\ nodes' = IF nodes[n].boot = b THEN [nodes EXCEPT ![n].expires = 0] ELSE nodes
      /\ UNCHANGED <<clock, head, created, kept, joined, seen, lapsed, failures>>
  BY DEF Stop, logVars, history
<1>d. p \in Poller  BY <1>a, Fields DEF Poller
<1>g. /\ p.cursor = process[n][b].cursor /\ p.now = process[n][b].now /\ ~p.running
      /\ p.phase = process[n][b].phase /\ p.batch = process[n][b].batch
  BY <1>a, Fields DEF Poller
<1> HIDE DEF p
<1>e. /\ process'[n][b] = p /\ process' \in [Node -> [Boot -> Poller]]
      /\ \A m \in Node, c \in Boot : m # n \/ c # b => process'[m][c] = process[m][c]
  BY <1>a, <1>d, Others DEF Stop, p
<1>h. /\ nodes' \in [Node -> Row] /\ (nodes[n].boot # b => nodes' = nodes)
      /\ nodes'[n].boot = nodes[n].boot /\ nodes'[n].last = nodes[n].last
      /\ \A m \in Node : m # n => nodes'[m] = nodes[m]
  <2>1. [nodes[n] EXCEPT !.expires = 0] \in Row  BY <1>a, Fields DEF Row
  <2> QED  BY <1>a, <1>c, <2>1 DEF TypeOK, Row
<1>r. Registered(n)
  BY <1>a, <1>c DEF Fresh, NotStarted, InPhase
<1>1. TypeOK'
  BY <1>a, <1>c, <1>e, <1>h DEF TypeOK
<1>2. Sane'
  BY <1>a, <1>b, <1>c, <1>e, <1>g, <1>h, <1>r, Fields DEF Event, Sane, Busy
<1>3. Fresh'
  BY <1>a, <1>b, <1>c, <1>e, <1>g, <1>h, <1>r, Fields DEF Event, Fresh, Registered
<1>4. OwnCursor'
  BY <1>a, <1>b, <1>c, <1>e, <1>g, <1>h, <1>r, Fields DEF Event, OwnCursor, InPhase
<1>5. Owned'
  BY <1>a, <1>b, <1>c, <1>e, <1>g, <1>h, <1>r, Fields DEF Event, Owned
<1>6. Passed'
  <2> SUFFICES ASSUME NEW m \in Node, Registered(m)', ~lapsed[m], NEW e \in Event, joined'[m] < e
               PROVE  /\ e <= nodes'[m].last => e \in seen[m]
                      /\ \A c \in Boot : e <= process'[m][c].cursor => e \in seen[m]
    BY <1>c DEF Passed, SeenUpTo
  <2>1. CASE m # n
    <3>1. nodes'[m] = nodes[m] /\ joined'[m] = joined[m] /\ Registered(m)  BY <1>c, <1>e, <1>g, <1>h, <1>r, <2>1 DEF Registered
    <3>2. \A c \in Boot : process'[m][c] = process[m][c]  BY <1>c, <1>e, <1>g, <1>h, <1>r, <2>1
    <3> QED  BY <1>a, <3>1, <3>2 DEF Passed, SeenUpTo
  <2>2. CASE m = n /\ Registered(n)
    <3>1. nodes'[n].last = nodes[n].last /\ joined'[n] = joined[n]  BY <1>c, <1>e, <1>g, <1>h, <1>r, <2>2
    <3>2. \A c \in Boot : process'[n][c].cursor \in {process[n][c].cursor, nodes[n].last}  BY <1>c, <1>e, <1>g, <1>h, <1>r, <2>2
    <3> QED  BY <1>a, <2>2, <3>1, <3>2 DEF Passed, SeenUpTo
  <2> QED  BY <2>1, <2>2, <1>r
<1>7. Batched'
  BY <1>a, <1>b, <1>c, <1>e, <1>g, <1>h, <1>r, Fields DEF Event, Batched, Registered
<1>8. Consumed'
  BY <1>a, <1>b, <1>c, <1>e, <1>g, <1>h, <1>r, Fields DEF Event, Consumed, InPhase
<1>9. Deleted'
  BY <1>a, <1>b, <1>c, <1>e, <1>g, <1>h, <1>r, Fields DEF Event, Deleted, Registered
<1>10. DeliveredInOrder'
  BY <1>a, <1>b, <1>c, <1>e, <1>g, <1>h, <1>r, Fields DEF Event, DeliveredInOrder
<1> QED  BY <1>1, <1>2, <1>3, <1>4, <1>5, <1>6, <1>7, <1>8, <1>9, <1>10 DEF IInv

LEMMA CrashInv ==
  ASSUME IInv, NEW n \in Node, NEW b \in Boot, Crash(n, b)
  PROVE  IInv'
<1>a. /\ TypeOK /\ Sane /\ Fresh /\ OwnCursor /\ Owned
      /\ Passed /\ Batched /\ Consumed /\ Deleted /\ DeliveredInOrder
  BY DEF IInv
<1>b. Null \notin Boot /\ NodeTtl \in Nat \ {0}  BY ClusterEventsAssumption
<1> DEFINE p == [NotStarted EXCEPT !.phase = "dead"]
<1>c. /\ process[n][b].running \/ ~InPhase(n, b, "idle")
      /\ UNCHANGED <<clock, head, created, kept, nodes, joined, seen, lapsed, failures>>
  BY DEF Crash, logVars, history
<1>d. p \in Poller
  <2>1. NotStarted \in Poller  BY ClusterEventsAssumption DEF NotStarted, Poller, Phase
  <2> QED  BY <2>1 DEF Poller, Phase
<1>g. p.cursor = 0 /\ p.now = 0 /\ p.phase = "dead" /\ p.batch = {} /\ ~p.running
  BY DEF NotStarted
<1> HIDE DEF p
<1>e. /\ process'[n][b] = p /\ process' \in [Node -> [Boot -> Poller]]
      /\ \A m \in Node, c \in Boot : m # n \/ c # b => process'[m][c] = process[m][c]
  BY <1>a, <1>d, Others DEF Crash, p
<1>r. Registered(n)
  BY <1>a, <1>c DEF Fresh, NotStarted, InPhase
<1>1. TypeOK'
  BY <1>a, <1>c, <1>e DEF TypeOK
<1>2. Sane'
  BY <1>a, <1>b, <1>c, <1>e, <1>g, <1>r, Fields DEF Event, Sane, Busy
<1>3. Fresh'
  BY <1>a, <1>b, <1>c, <1>e, <1>g, <1>r, Fields DEF Event, Fresh, Registered
<1>4. OwnCursor'
  BY <1>a, <1>b, <1>c, <1>e, <1>g, <1>r, Fields DEF Event, OwnCursor, InPhase
<1>5. Owned'
  BY <1>a, <1>b, <1>c, <1>e, <1>g, <1>r, Fields DEF Event, Owned
<1>6. Passed'
  BY <1>a, <1>b, <1>c, <1>e, <1>g, <1>r, Fields DEF Event, Passed, SeenUpTo, Registered
<1>7. Batched'
  BY <1>a, <1>b, <1>c, <1>e, <1>g, <1>r, Fields DEF Event, Batched, Registered
<1>8. Consumed'
  BY <1>a, <1>b, <1>c, <1>e, <1>g, <1>r, Fields DEF Event, Consumed, InPhase
<1>9. Deleted'
  BY <1>a, <1>b, <1>c, <1>e, <1>g, <1>r, Fields DEF Event, Deleted, Registered
<1>10. DeliveredInOrder'
  BY <1>a, <1>b, <1>c, <1>e, <1>g, <1>r, Fields DEF Event, DeliveredInOrder
<1> QED  BY <1>1, <1>2, <1>3, <1>4, <1>5, <1>6, <1>7, <1>8, <1>9, <1>10 DEF IInv

LEMMA NextInv == IInv /\ [Next]_vars => IInv'
<1> SUFFICES ASSUME IInv, [Next]_vars PROVE IInv'  OBVIOUS
<1>1. CASE Append  BY <1>1, AppendInv
<1>2. CASE Tick  BY <1>2, TickInv
<1>3. ASSUME NEW n \in Node, NEW b \in Boot, Start(n, b) \/ PollStep(n, b) \/ Stop(n, b) \/ Crash(n, b)
      PROVE  IInv'
  BY <1>3, StartInv, HeartbeatInv, ReadInv, ProcessInv, AdvanceInv, FailInv, MaintainInv,
     StopInv, CrashInv DEF PollStep
<1>4. CASE UNCHANGED vars
  BY <1>4 DEF vars, IInv, TypeOK, Sane, Fresh, OwnCursor, Owned, Passed, Batched, Consumed, Deleted,
              DeliveredInOrder, Busy, Registered, InPhase, SeenUpTo
<1> QED  BY <1>1, <1>2, <1>3, <1>4 DEF Next

LEMMA Invariant == Spec => []IInv
<1>1. Init => IInv  BY InitInv
<1>2. IInv /\ [Next]_vars => IInv'  BY NextInv
<1> QED  BY <1>1, <1>2, PTL DEF Spec

-----------------------------------------------------------------------------
(* Every state has the rows, processes and log entries that the code       *)
(* writes.                                                                 *)
THEOREM TypeCorrect == Spec => []TypeOK
BY Invariant, PTL DEF IInv

(* At-least-once delivery of the log: the stored cursor of a node passes   *)
(* only events that a callback of the node has processed, across failed    *)
(* callbacks, crashes, restarts and replaced instances that read on.       *)
THEOREM AtLeastOnce == Spec => []NothingSkipped
<1>1. IInv => NothingSkipped
  BY DEF IInv, Passed, SeenUpTo, NothingSkipped
<1> QED  BY <1>1, Invariant, PTL

(* Ordered delivery: an event is processed only after every earlier one    *)
(* that the node is owed.                                                  *)
THEOREM InLogOrder == Spec => []DeliveredInOrder
BY Invariant, PTL DEF IInv

(* One live instance: a poll whose heartbeat is younger than nodeTtl, and  *)
(* that was not stopped, is of the instance that owns the row.  Whichever  *)
(* instance has it, the node's cursor passes only what the node processed. *)
THEOREM RefusedWhileLive == Spec => []TakenOverSafely
<1>1. IInv => OneLiveInstance
  BY DEF IInv, Owned, OneLiveInstance
<1>2. IInv => NothingSkipped
  BY DEF IInv, Passed, SeenUpTo, NothingSkipped
<1> QED  BY <1>1, <1>2, Invariant, PTL DEF TakenOverSafely

(* Only maintenance deletes events, and only ones that every node live now *)
(* has passed, although it looks at an earlier time.                       *)
THEOREM LiveNodesKeepTheirEvents == Spec => RetentionSparesLive
<1> DEFINE Spares == \A n \in Node : Live(n) => \A e \in kept \ kept' : e <= nodes[n].last
<1>1. ASSUME IInv, [Next]_vars PROVE Spares
  <2>1. CASE kept \subseteq kept'  BY <2>1
  <2>2. CASE \E n \in Node, b \in Boot : Maintain(n, b)
    <3>1. PICK n \in Node, b \in Boot : Maintain(n, b)  BY <2>2
    <3>2. kept \ kept' \subseteq Expendable(process[n][b].now)  BY <3>1 DEF Maintain
    <3> QED  BY <1>1, <3>2, Spared DEF IInv
  <2>3. Append => kept \subseteq kept'  BY DEF Append
  <2>4. Tick \/ UNCHANGED vars => kept \subseteq kept'  BY DEF Tick, logVars, vars
  <2>5. ASSUME NEW n \in Node, NEW b \in Boot PROVE
          Start(n, b) \/ Heartbeat(n, b) \/ Read(n, b) \/ Process(n, b) \/ Advance(n, b) \/ Fail(n, b)
            \/ Stop(n, b) \/ Crash(n, b) => kept' = kept
    BY DEF Start, Heartbeat, Read, Process, Advance, Fail, Stop, Crash, logVars
  <2> QED  BY <1>1, <2>1, <2>2, <2>3, <2>4, <2>5 DEF Next, PollStep
<1>2. IInv /\ [Next]_vars => [Spares]_vars  BY <1>1
<1> QED  BY <1>2, Invariant, PTL DEF Spec, RetentionSparesLive

(* The stored cursor of a node never goes back: whoever writes it read on  *)
(* from where it is.                                                       *)
THEOREM NeverBack == Spec => CursorsAdvance
<1> DEFINE Advances == \A n \in Node : nodes'[n].last >= nodes[n].last
<1>1. ASSUME IInv, [Next]_vars PROVE Advances
  <2>1. /\ TypeOK /\ Sane /\ Fresh /\ OwnCursor  BY <1>1 DEF IInv
  <2>2. CASE nodes' = nodes  BY <2>1, <2>2, Fields
  <2>3. ASSUME NEW n \in Node, NEW b \in Boot, Start(n, b) PROVE Advances
    <3> DEFINE cursor == IF Registered(n) THEN nodes[n].last ELSE Max(kept \cup {0})
    <3>1. nodes' = [nodes EXCEPT ![n] = [boot |-> b, last |-> cursor, expires |-> clock + NodeTtl]]
      BY <2>3 DEF Start
    <3>2. cursor \in Nat /\ cursor >= nodes[n].last
      <4>1. CASE Registered(n)  BY <2>1, <4>1, Fields
      <4>2. CASE ~Registered(n)  BY <2>1, <4>2, Newest, Fields DEF Fresh
      <4> QED  BY <4>1, <4>2
    <3> HIDE DEF cursor
    <3>3. nodes'[n].last = cursor /\ \A m \in Node : m # n => nodes'[m] = nodes[m]
      BY <2>1, <3>1 DEF TypeOK
    <3> QED  BY <2>1, <3>2, <3>3, Fields
  <2>4. ASSUME NEW n \in Node, NEW b \in Boot, Heartbeat(n, b) \/ Stop(n, b) PROVE Advances
    <3>1. nodes' = nodes \/ \E t : nodes' = [nodes EXCEPT ![n].expires = t]
      BY <2>4 DEF Heartbeat, Stop
    <3>2. ASSUME NEW t, nodes' = [nodes EXCEPT ![n].expires = t], NEW m \in Node
          PROVE  nodes'[m].last = nodes[m].last
      <4>1. nodes[m] \in Row /\ nodes'[m] \in {nodes[m], [nodes[m] EXCEPT !.expires = t]}
        BY <2>1, <3>2 DEF TypeOK
      <4> QED  BY <4>1 DEF Row
    <3>3. \A m \in Node : nodes'[m].last = nodes[m].last
      BY <3>1, <3>2
    <3> QED  BY <2>1, <3>3, Fields
  <2>5. ASSUME NEW n \in Node, NEW b \in Boot, Advance(n, b), nodes' # nodes PROVE Advances
    <3> DEFINE first == First(process[n][b].batch)
    <3>1. nodes[n].boot = b /\ nodes' = [nodes EXCEPT ![n].last = first] /\ InPhase(n, b, "consumed")
      BY <2>5 DEF Advance
    <3>2. process[n][b].cursor = nodes[n].last  BY <2>1, <3>1 DEF OwnCursor, InPhase
    <3>3. first \in process[n][b].batch  BY <2>1, <3>1, Smallest, Fields DEF Sane, Busy, InPhase
    <3>4. first > nodes[n].last  BY <2>1, <3>2, <3>3 DEF Sane
    <3> HIDE DEF first
    <3>5. nodes'[n].last = first /\ \A m \in Node : m # n => nodes'[m] = nodes[m]
      BY <2>1, <3>1, Fields DEF TypeOK, Row
    <3> QED  BY <2>1, <3>3, <3>4, <3>5, Fields
  <2>6. Append \/ Tick \/ UNCHANGED vars => nodes' = nodes  BY DEF Append, Tick, vars
  <2>7. ASSUME NEW n \in Node, NEW b \in Boot PROVE
          Read(n, b) \/ Process(n, b) \/ Fail(n, b) \/ Maintain(n, b) \/ Crash(n, b) => nodes' = nodes
    BY DEF Read, Process, Fail, Maintain, Crash
  <2> QED  BY <1>1, <2>2, <2>3, <2>4, <2>5, <2>6, <2>7 DEF Next, PollStep
<1>2. IInv /\ [Next]_vars => [Advances]_vars  BY <1>1
<1> QED  BY <1>2, Invariant, PTL DEF Spec, CursorsAdvance

=============================================================================
