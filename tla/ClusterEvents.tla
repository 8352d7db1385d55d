---------------------------- MODULE ClusterEvents ----------------------------
(***************************************************************************)
(* The shared event log of ClusterCoordinator (src/backend/cluster.js):    *)
(* triggers and publish append to it, every node reads it through a cursor *)
(* kept in its cluster_nodes row, and whichever node does maintenance      *)
(* deletes old entries.                                                    *)
(*                                                                         *)
(* A node ID may be used by several processes one after the other, and,    *)
(* when the earlier one is slow and not dead, at once.  Each database      *)
(* statement is a step; a poll is a sequence of steps with the event       *)
(* callback, which may be slow or fail, in the middle.                     *)
(***************************************************************************)
EXTENDS Naturals, FiniteSets, FiniteSetsExt

CONSTANTS
  Node,         \* Node IDs.
  Boot,         \* Boot-instance identities.
  Null,         \* A missing value: the instance of a node without a row.
  NodeTtl,      \* nodeTtl, in clock ticks.
  Retention,    \* retentionMs, in clock ticks.
  BatchSize,    \* Events read by one poll.
  MaxEvents,    \* Bound: events appended.
  MaxTime,      \* Bound: the database clock stops here.
  MaxFailures   \* Bound: callbacks that fail.

ASSUME ClusterEventsAssumption ==
  /\ Null \notin Boot
  /\ NodeTtl \in Nat \ {0}
  /\ Retention \in Nat
  /\ BatchSize \in Nat \ {0}
  /\ MaxEvents \in Nat
  /\ MaxTime \in Nat
  /\ MaxFailures \in Nat

VARIABLES
  clock,      \* The database clock.
  head,       \* Sequence number of the last event appended.
  created,    \* When each event was appended.
  kept,       \* Events still in cluster_events.
  nodes,      \* The cluster_nodes rows.
  process,    \* The coordinator object of each boot of each node.
  joined,     \* History: head when a node ID first registered.
  seen,       \* History: events a callback of the node has processed.
  lapsed,     \* History: an event was deleted before an expired node read it.
  failures    \* Callbacks that failed so far.

vars == <<clock, head, created, kept, nodes, process, joined, seen, lapsed, failures>>

logVars == <<head, created, kept>>
history == <<joined, seen, lapsed>>

Event == 1..MaxEvents

(***************************************************************************)
(* Phases of poll(): idle; reading (heartbeat written, SELECT next);       *)
(* consuming (awaiting the callback of the first event of the batch);      *)
(* consumed (it succeeded, the cursor is not advanced yet); maintaining    *)
(* (past the loop).  A dead process never runs again: its successor has a  *)
(* boot identity of its own.                                               *)
(***************************************************************************)
Phase == {"idle", "reading", "consuming", "consumed", "maintaining", "dead"}

NotStarted == [phase |-> "idle", running |-> FALSE, cursor |-> 0, now |-> 0,
               batch |-> {}, due |-> 0]

Poller == [phase: Phase, running: BOOLEAN, cursor: 0..MaxEvents, now: Nat,
           batch: SUBSET Event, due: Nat]
Row == [boot: Boot \cup {Null}, last: 0..MaxEvents, expires: Nat]

TypeOK ==
  /\ clock \in Nat
  /\ head \in 0..MaxEvents
  /\ created \in [Event -> Nat]
  /\ kept \subseteq 1..head
  /\ nodes \in [Node -> Row]
  /\ process \in [Node -> [Boot -> Poller]]
  /\ joined \in [Node -> 0..MaxEvents]
  /\ seen \in [Node -> SUBSET Event]
  /\ lapsed \in [Node -> BOOLEAN]
  /\ failures \in Nat

Init ==
  /\ clock = 0
  /\ head = 0
  /\ created = [e \in Event |-> 0]
  /\ kept = {}
  /\ nodes = [n \in Node |-> [boot |-> Null, last |-> 0, expires |-> 0]]
  /\ process = [n \in Node |-> [b \in Boot |-> NotStarted]]
  /\ joined = [n \in Node |-> 0]
  /\ seen = [n \in Node |-> {}]
  /\ lapsed = [n \in Node |-> FALSE]
  /\ failures = 0

Registered(n) == nodes[n].boot # Null
Live(n) == Registered(n) /\ nodes[n].expires > clock
InPhase(n, b, p) == process[n][b].phase = p
Set(n, b, p) == process' = [process EXCEPT ![n][b] = p]
First(events) == Min(events)

-----------------------------------------------------------------------------

(* A trigger or publish appends an event in the writer's transaction.      *)
Append ==
  /\ head < MaxEvents
  /\ head' = head + 1
  /\ created' = [created EXCEPT ![head + 1] = clock]
  /\ kept' = kept \cup {head + 1}
  /\ UNCHANGED <<clock, nodes, process, history, failures>>

Started(p, cursor) ==
  [phase |-> "idle", running |-> TRUE, cursor |-> cursor, now |-> 0, batch |-> {}, due |-> p.due]

StartAnyway(n, b) ==
  LET cursor == IF Registered(n) THEN nodes[n].last ELSE Max(kept \cup {0})
  IN  /\ InPhase(n, b, "idle")
      /\ ~process[n][b].running
      /\ nodes' = [nodes EXCEPT ![n] = [boot |-> b, last |-> cursor,
                                        expires |-> clock + NodeTtl]]
      /\ Set(n, b, Started(process[n][b], cursor))
      /\ joined' = [joined EXCEPT ![n] = IF Registered(n) THEN @ ELSE head]
      /\ UNCHANGED <<clock, logVars, seen, lapsed, failures>>

StartWithoutCoalesce(n, b) ==
  LET cursor == CASE Registered(n) -> nodes[n].last
                  [] ~Registered(n) /\ kept # {} -> Max(kept)
                  [] OTHER -> Null
  IN  /\ InPhase(n, b, "idle")
      /\ ~process[n][b].running
      /\ Live(n) => nodes[n].boot = b
      /\ nodes' = [nodes EXCEPT ![n] = [boot |-> b, last |-> cursor,
                                        expires |-> clock + NodeTtl]]
      /\ Set(n, b, Started(process[n][b], cursor))
      /\ joined' = [joined EXCEPT ![n] = IF Registered(n) THEN @ ELSE head]
      /\ UNCHANGED <<clock, logVars, seen, lapsed, failures>>

StartAtHead(n, b) ==
  LET cursor == Max(kept \cup {0})
  IN  /\ InPhase(n, b, "idle")
      /\ ~process[n][b].running
      /\ Live(n) => nodes[n].boot = b
      /\ nodes' = [nodes EXCEPT ![n] = [boot |-> b, last |-> cursor,
                                        expires |-> clock + NodeTtl]]
      /\ Set(n, b, Started(process[n][b], cursor))
      /\ joined' = [joined EXCEPT ![n] = IF Registered(n) THEN @ ELSE head]
      /\ UNCHANGED <<clock, logVars, seen, lapsed, failures>>

(* start(): refused while another instance of the node ID is live.  A new  *)
(* node begins at the newest event in the log, a known one where its row   *)
(* says.                                                                   *)
Start(n, b) ==
  LET cursor == IF Registered(n) THEN nodes[n].last ELSE Max(kept \cup {0})
  IN  /\ InPhase(n, b, "idle")
      /\ ~process[n][b].running
      /\ Live(n) => nodes[n].boot = b
      /\ nodes' = [nodes EXCEPT ![n] = [boot |-> b, last |-> cursor,
                                        expires |-> clock + NodeTtl]]
      /\ Set(n, b, Started(process[n][b], cursor))
      /\ joined' = [joined EXCEPT ![n] = IF Registered(n) THEN @ ELSE head]
      /\ UNCHANGED <<clock, logVars, seen, lapsed, failures>>

Polling(p) ==
  [phase |-> "reading", running |-> TRUE, cursor |-> p.cursor, now |-> clock, batch |-> {},
   due |-> p.due]

(* poll(): reads the clock and renews the registration, which counts even  *)
(* when it has expired meanwhile.  If the row belongs to another instance  *)
(* by now, this one stops for good.                                        *)
Heartbeat(n, b) ==
  /\ InPhase(n, b, "idle")
  /\ process[n][b].running
  /\ IF nodes[n].boot = b
     THEN /\ nodes' = [nodes EXCEPT ![n].expires = clock + NodeTtl]
          /\ Set(n, b, Polling(process[n][b]))
     ELSE /\ Set(n, b, [process[n][b] EXCEPT !.running = FALSE])
          /\ nodes' = nodes
  /\ UNCHANGED <<clock, logVars, history, failures>>

(* Leaving the loop: all events consumed, or stopped meanwhile.            *)
AfterEvents(p, cursor, batch) ==
  LET more == batch # {} /\ p.running
  IN  [phase |-> IF more THEN "consuming" ELSE "maintaining", running |-> p.running,
       cursor |-> cursor, now |-> p.now, batch |-> IF more THEN batch ELSE {}, due |-> p.due]

ReadInclusive(n, b) ==
  LET newer == {e \in kept : e >= process[n][b].cursor}
      batch == {e \in newer : Cardinality({d \in newer : d < e}) < BatchSize}
  IN  /\ InPhase(n, b, "reading")
      /\ Set(n, b, AfterEvents(process[n][b], process[n][b].cursor, batch))
      /\ UNCHANGED <<clock, logVars, nodes, history, failures>>

(* poll(): SELECT ... WHERE seq>cursor ORDER BY seq LIMIT batchSize.       *)
Read(n, b) ==
  LET newer == {e \in kept : e > process[n][b].cursor}
      batch == {e \in newer : Cardinality({d \in newer : d < e}) < BatchSize}
  IN  /\ InPhase(n, b, "reading")
      /\ Set(n, b, AfterEvents(process[n][b], process[n][b].cursor, batch))
      /\ UNCHANGED <<clock, logVars, nodes, history, failures>>

(* The event callback processes the first event of the batch.              *)
Process(n, b) ==
  /\ InPhase(n, b, "consuming")
  /\ seen' = [seen EXCEPT ![n] = @ \cup {First(process[n][b].batch)}]
  /\ Set(n, b, [process[n][b] EXCEPT !.phase = "consumed"])
  /\ UNCHANGED <<clock, logVars, nodes, joined, lapsed, failures>>

AdvanceUnfenced(n, b) ==
  LET e == First(process[n][b].batch)
  IN  /\ InPhase(n, b, "consumed")
      /\ Set(n, b, AfterEvents(process[n][b], e, process[n][b].batch \ {e}))
      /\ nodes' = [nodes EXCEPT ![n].last = e]
      /\ UNCHANGED <<clock, logVars, history, failures>>

(* After the callback, the cursor advances in memory, and in the row if it *)
(* is still this instance's.                                               *)
Advance(n, b) ==
  LET e == First(process[n][b].batch)
  IN  /\ InPhase(n, b, "consumed")
      /\ Set(n, b, AfterEvents(process[n][b], e, process[n][b].batch \ {e}))
      /\ nodes' = IF nodes[n].boot = b THEN [nodes EXCEPT ![n].last = e] ELSE nodes
      /\ UNCHANGED <<clock, logVars, history, failures>>

Ended(p, due) ==
  [phase |-> "idle", running |-> p.running, cursor |-> p.cursor, now |-> 0, batch |-> {}, due |-> due]

(* The callback throws: the poll is over and neither cursor moves.         *)
Fail(n, b) ==
  /\ InPhase(n, b, "consuming")
  /\ failures < MaxFailures
  /\ failures' = failures + 1
  /\ Set(n, b, Ended(process[n][b], process[n][b].due))
  /\ UNCHANGED <<clock, logVars, nodes, history>>

ExpendableByAll(now) ==
  LET known == {n \in Node : Registered(n)}
  IN  {e \in kept : /\ created[e] + Retention < now
                    /\ \E n \in known : e <= nodes[n].last}

(* Events old enough that every node live at that time has passed; none    *)
(* when no node is live.                                                   *)
Expendable(now) ==
  LET live == {n \in Node : Registered(n) /\ nodes[n].expires > now}
  IN  {e \in kept : /\ created[e] + Retention < now
                    /\ live # {}
                    /\ \A n \in live : e <= nodes[n].last}

(* poll(): maintenance, unless done recently, with the time read when the  *)
(* poll began.                                                             *)
Maintain(n, b) ==
  LET now == process[n][b].now
      removed == IF now >= process[n][b].due THEN Expendable(now) ELSE {}
  IN  /\ InPhase(n, b, "maintaining")
      /\ kept' = kept \ removed
      /\ lapsed' = [m \in Node |-> \/ lapsed[m]
                                   \/ /\ Registered(m) /\ ~Live(m)
                                      /\ \E e \in removed : e > nodes[m].last]
      /\ Set(n, b, Ended(process[n][b], IF now >= process[n][b].due THEN now + NodeTtl
                                       ELSE process[n][b].due))
      /\ UNCHANGED <<clock, head, created, nodes, joined, seen, failures>>

(* stop(): gives the registration up at once; a poll in progress ends with *)
(* the callback it is in.                                                  *)
Stop(n, b) ==
  /\ process[n][b].running
  /\ Set(n, b, [process[n][b] EXCEPT !.running = FALSE])
  /\ nodes' = IF nodes[n].boot = b THEN [nodes EXCEPT ![n].expires = 0] ELSE nodes
  /\ UNCHANGED <<clock, logVars, history, failures>>

(* The process dies.                                                       *)
Crash(n, b) ==
  /\ process[n][b].running \/ ~InPhase(n, b, "idle")
  /\ ~InPhase(n, b, "dead")
  /\ Set(n, b, [NotStarted EXCEPT !.phase = "dead"])
  /\ UNCHANGED <<clock, logVars, nodes, history, failures>>

Tick ==
  /\ clock < MaxTime
  /\ clock' = clock + 1
  /\ UNCHANGED <<logVars, nodes, process, history, failures>>

PollStep(n, b) ==
  \/ Heartbeat(n, b)
  \/ Read(n, b)
  \/ Process(n, b)
  \/ Advance(n, b)
  \/ Fail(n, b)
  \/ Maintain(n, b)

Next ==
  \/ Append
  \/ Tick
  \/ \E n \in Node, b \in Boot :
       Start(n, b) \/ PollStep(n, b) \/ Stop(n, b) \/ Crash(n, b)

Spec == Init /\ [][Next]_vars

(* A running process polls on its timer, and its callbacks end.            *)
FairSpec == Spec /\ \A n \in Node, b \in Boot : WF_vars(PollStep(n, b))

-----------------------------------------------------------------------------
(* At-least-once delivery: the cursor of a node passes only events that    *)
(* some callback of the node has processed, unless the node was away when  *)
(* they were deleted.  This is across failed callbacks, crashes, restarts  *)
(* and instances that go on reading after they have been replaced.         *)
NothingSkipped ==
  \A n \in Node :
    Registered(n) /\ ~lapsed[n] => \A e \in Event :
      joined[n] < e /\ e <= nodes[n].last => e \in seen[n]

(* Ordered delivery: a node processes an event only after all earlier ones *)
(* it is owed, whichever instances processed them.                         *)
DeliveredInOrder ==
  \A n \in Node :
    ~lapsed[n] => \A e \in seen[n] : \A d \in Event :
      joined[n] < d /\ d < e => d \in seen[n]

(* Maintenance deletes an event only when every node live at the moment of *)
(* the deletion has passed it, although it looks at an earlier time.       *)
RetentionSparesLive ==
  [][\A n \in Node : Live(n) => \A e \in kept \ kept' : e <= nodes[n].last]_vars

(* The cursor stored for a node never goes back: not by a restart, and not *)
(* by the late write of a replaced instance.                               *)
CursorsAdvance ==
  [][\A n \in Node : nodes'[n].last >= nodes[n].last]_vars

(* Two processes of one node ID are never both registered: one that is     *)
(* polling, was not stopped and sent its heartbeat less than nodeTtl ago   *)
(* still owns the row, so no other instance could start meanwhile.         *)
OneLiveInstance ==
  \A n \in Node, b \in Boot :
    LET p == process[n][b] IN
    p.phase \notin {"idle", "dead"} /\ p.running /\ clock < p.now + NodeTtl
      => nodes[n].boot = b

(* A node ID that changes hands, by a restart after a crash or an expiry   *)
(* or from an instance that still reads, is not taken from a live one and  *)
(* misses nothing of the log.                                              *)
TakenOverSafely == OneLiveInstance /\ NothingSkipped

(* Every event in the log is read by every process that keeps running, or  *)
(* was deleted.                                                            *)
EventsArrive ==
  \A n \in Node, b \in Boot, e \in Event :
    e \in kept /\ process[n][b].running ~>
      e \notin kept \/ ~process[n][b].running \/ e <= process[n][b].cursor

=============================================================================
