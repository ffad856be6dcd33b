----------------------------- MODULE Replication -----------------------------
(***************************************************************************)
(* The replication subsystem (apps/replication): nodes send heartbeats,    *)
(* and whoever receives one, or is asked for an election, looks whether    *)
(* the coordinator is still heard of and promotes a backup if not.         *)
(*                                                                         *)
(* Requests are signed, with the time of the signature.  A message can be  *)
(* lost, delayed, or delivered again, and is taken as long as its time is  *)
(* at most Window ago: beats is the set of all that were ever sent, and    *)
(* each can arrive any number of times.  The views run without a           *)
(* transaction, so each query and each save of a request is a step of its  *)
(* own, other workers come in between, and a worker that dies leaves what  *)
(* it has done.                                                            *)
(*                                                                         *)
(* A node is named by its primary key, the order of .first().  Columns     *)
(* that nothing reads (name, status, the payload of a job and its status,  *)
(* which no code changes) are left out, and so is what staff change in the *)
(* admin site, except that they approve nodes.  Times are in ticks, from   *)
(* 1; NoBeat stands for NULL.                                              *)
(***************************************************************************)
EXTENDS Integers, FiniteSets

CONSTANTS
  Nodes,             \* primary keys of node_instance
  Workers,
  Events,            \* event ids that are acknowledged
  NoNode,
  Threshold,         \* settings.COORDINATOR_DOWN_THRESHOLD_SECONDS
  Window,            \* the literal 300 of verify_signature
  MaxTime,           \* bound: last tick
  MaxBeats,          \* bound: heartbeats sent
  MaxJobs,           \* bound: rows of replication_job
  MaxDeaths          \* bound: workers that die in a request

ASSUME NodesAssumption == Nodes \subseteq Nat /\ NoNode \notin Nodes
ASSUME TimesAssumption ==
  /\ Threshold \in Nat \ {0} /\ Window \in Nat /\ MaxTime \in Nat \ {0}
  /\ MaxBeats \in Nat /\ MaxJobs \in Nat /\ MaxDeaths \in Nat

VARIABLES
  now,
  node,      \* rows of node_instance
  beats,     \* heartbeats sent so far
  queue,     \* how many rows replication_job has
  acked,     \* rows of replication_event
  vacant,    \* no coordinator was heard of for a while (history)
  job,       \* what a worker is doing
  deaths

vars == <<now, node, beats, queue, acked, vacant, job, deaths>>

NoBeat == 0
Times == 1 .. MaxTime

Role == {"coordinator", "backup", "replica"}

Rows == [stored: BOOLEAN, role: Role, approved: BOOLEAN, beat: {NoBeat} \cup Times]

NoRow == [stored |-> FALSE, role |-> "replica", approved |-> FALSE, beat |-> NoBeat]

\* How many rows replication_job has, and what replication_event has been told.
QueueLengths == 0 .. MaxJobs
EventSets == SUBSET Events

Jobs == [pc: {"idle", "evaluating", "down", "promoting"}, backup: Nodes \cup {NoNode}]

NoJob == [pc |-> "idle", backup |-> NoNode]

TypeOK ==
  /\ now \in Times
  /\ node \in [Nodes -> Rows]
  /\ beats \subseteq [node: Nodes, at: Times]
  /\ queue \in QueueLengths
  /\ acked \in EventSets
  /\ vacant \in BOOLEAN
  /\ job \in [Workers -> Jobs]
  /\ deaths \in 0 .. MaxDeaths

-----------------------------------------------------------------------------
(* Queries. *)

Approved(role) == {n \in Nodes : node[n].approved /\ node[n].role = role}

Coordinators == Approved("coordinator")
Backups == Approved("backup")

\* .first(): the node of a non-empty set with the least primary key.
First(S) == CHOOSE n \in S : \A k \in S : n <= k

FreshAtHalf(row, time) == row.beat # NoBeat /\ 2 * (time - row.beat) < Threshold \* mutated form

\* Heard of within the threshold.
Fresh(row, time) == row.beat # NoBeat /\ row.beat > time - Threshold

\* What evaluate_coordinator_failover asks: of the first coordinator only.
FirstFresh == \E n \in Coordinators : n = First(Coordinators) /\ Fresh(node[n], now)

\* No approved coordinator has been heard of within the threshold.
Vacant(rows, time) ==
  \A n \in Nodes :
    rows[n].approved /\ rows[n].role = "coordinator"
      => ~(rows[n].beat # NoBeat /\ rows[n].beat > time - Threshold)

\* Rows that staff has approved, with one coordinator at most; all have sent a
\* heartbeat, or were entered by hand and none has.
Topologies ==
  {rows \in [Nodes -> Rows] :
     \E beat \in {NoBeat, 1} :
       /\ \A n \in Nodes :
            \/ rows[n] = NoRow
            \/ rows[n].stored /\ rows[n].approved /\ rows[n].beat = beat
       /\ Cardinality({n \in Nodes : rows[n].role = "coordinator"}) <= 1}

\* A topology that staff has set up, with one coordinator at most.
Init ==
  /\ now = 1
  /\ node \in Topologies
  /\ beats = {[node |-> n, at |-> 1] : n \in {k \in Nodes : node[k].beat = 1}}
  /\ queue = 0
  /\ acked = {}
  /\ vacant = Vacant(node, 1)
  /\ job = [w \in Workers |-> NoJob]
  /\ deaths = 0

-----------------------------------------------------------------------------
(* The nodes and the network. *)

Send(n) ==
  /\ Cardinality(beats) < MaxBeats
  /\ beats' = beats \cup {[node |-> n, at |-> now]}
  /\ UNCHANGED <<now, node, queue, acked, vacant, job, deaths>>

VerifiedAnyTime(at) == at <= now \* mutated form

\* verify_signature: the time it was signed at.
Verified(at) == now - at <= Window

\* _internal_auth: a message that a node has signed, in time.
Authentic(m) == m \in beats /\ Verified(m.at)

-----------------------------------------------------------------------------
(* POST heartbeat and POST election *)

Begin(w, j) == job[w].pc = "idle" /\ job' = [job EXCEPT ![w] = j]

Answer(w) == job' = [job EXCEPT ![w] = NoJob]

\* heartbeat_node: a node not seen before gets a row, as a replica to approve.
Heard(n) == [node EXCEPT ![n].stored = TRUE, ![n].beat = now]

Heartbeat(w, m) ==
  /\ Authentic(m)
  /\ Begin(w, [NoJob EXCEPT !.pc = "evaluating"])
  /\ node' = Heard(m.node)
  /\ UNCHANGED <<now, beats, queue, acked, vacant, deaths>>

Election(w) ==
  /\ Begin(w, [NoJob EXCEPT !.pc = "evaluating"])
  /\ UNCHANGED <<now, node, beats, queue, acked, vacant, deaths>>

\* evaluate_coordinator_failover: the first coordinator is heard of.
CoordinatorUp(w) ==
  /\ job[w].pc = "evaluating"
  /\ FirstFresh
  /\ Answer(w)
  /\ UNCHANGED <<now, node, beats, queue, acked, vacant, deaths>>

CoordinatorDown(w) ==
  /\ job[w].pc = "evaluating"
  /\ ~FirstFresh
  /\ job' = [job EXCEPT ![w].pc = "down"]
  /\ UNCHANGED <<now, node, beats, queue, acked, vacant, deaths>>

FindBackup(w) ==
  /\ job[w].pc = "down"
  /\ Backups # {}
  /\ job' = [job EXCEPT ![w].pc = "promoting", ![w].backup = First(Backups)]
  /\ UNCHANGED <<now, node, beats, queue, acked, vacant, deaths>>

NoBackup(w) ==
  /\ job[w].pc = "down"
  /\ Backups = {}
  /\ Answer(w)
  /\ UNCHANGED <<now, node, beats, queue, acked, vacant, deaths>>

RoleNotSaved(n) == node \* mutated form

\* backup.save(update_fields=["role", "status", "updated_at"])
Promoted(n) == [node EXCEPT ![n].role = "coordinator"]

Promote(w) ==
  LET b == job[w].backup IN
  /\ job[w].pc = "promoting"
  /\ node' = Promoted(b)
  /\ Answer(w)
  /\ UNCHANGED <<now, beats, queue, acked, vacant, deaths>>

-----------------------------------------------------------------------------
(* POST push and POST ack; the admin site. *)

\* enqueue_replication
Enqueue == queue < MaxJobs /\ queue' = queue + 1

Push(w, n) ==
  /\ job[w].pc = "idle"
  /\ node[n].approved
  /\ Enqueue
  /\ UNCHANGED <<now, node, beats, acked, vacant, job, deaths>>

\* acknowledge_event: the unique id makes the second of two requests find the
\* row of the first.
AcknowledgeEvent(e) == acked' = acked \cup {e}

Acknowledge(w, e) ==
  /\ job[w].pc = "idle"
  /\ AcknowledgeEvent(e)
  /\ UNCHANGED <<now, node, beats, queue, vacant, job, deaths>>

\* Staff approve a node, with one coordinator in mind.
Approve(n, role) ==
  /\ node[n].stored /\ ~node[n].approved
  /\ role = "coordinator" => \A k \in Nodes : node[k].role # "coordinator"
  /\ node' = [node EXCEPT ![n].approved = TRUE, ![n].role = role]
  /\ UNCHANGED <<now, beats, queue, acked, vacant, job, deaths>>

Die(w) ==
  /\ job[w].pc # "idle"
  /\ deaths < MaxDeaths
  /\ deaths' = deaths + 1
  /\ Answer(w)
  /\ UNCHANGED <<now, node, beats, queue, acked, vacant>>

Tick ==
  /\ now < MaxTime
  /\ now' = now + 1
  /\ vacant' = (vacant \/ Vacant(node, now'))
  /\ UNCHANGED <<node, beats, queue, acked, job, deaths>>

Evaluate(w) ==
  CoordinatorUp(w) \/ CoordinatorDown(w) \/ FindBackup(w) \/ NoBackup(w) \/ Promote(w)

Work(w) ==
  \/ \E n \in Nodes, at \in Times : Heartbeat(w, [node |-> n, at |-> at])
  \/ Election(w)
  \/ Evaluate(w)
  \/ \E n \in Nodes : Push(w, n)
  \/ \E e \in Events : Acknowledge(w, e)
  \/ Die(w)

Next ==
  \/ \E w \in Workers : Work(w)
  \/ \E n \in Nodes : Send(n)
  \/ \E n \in Nodes, role \in Role : Approve(n, role)
  \/ Tick

Spec == Init /\ [][Next]_vars

\* Some node keeps asking (each heartbeat of a live node does), and workers
\* go on with what they have begun.
Fairness ==
  /\ WF_vars(\E w \in Workers : Election(w))
  /\ \A w \in Workers : WF_vars(Evaluate(w))

FairSpec == Spec /\ Fairness

-----------------------------------------------------------------------------
(* Properties. *)

\* Delayed and repeated heartbeats are no proof of life: a node is believed to
\* be up at a time at most Window after it sent a heartbeat (verify_signature
\* before heartbeat_node).
BeatsWereSent ==
  \A n \in Nodes :
    node[n].beat # NoBeat =>
      \E m \in beats : m.node = n /\ m.at <= node[n].beat /\ node[n].beat <= m.at + Window

\* As long as a coordinator has been heard of within every threshold, there is
\* no second one, whatever requests evaluate the failover at once.
SteadyCoordinator == ~vacant => Cardinality(Coordinators) <= 1

\* "Heartbeat-based failover election if coordinator unavailable" (requirements/
\* 06-distributed-architecture.md:12): while no coordinator is heard of, the
\* backup does not stay a backup, though workers die in the middle.
FailoverHappens ==
  (\A n \in Coordinators : ~Fresh(node[n], now)) /\ Backups # {}
    ~> (\E n \in Coordinators : Fresh(node[n], now)) \/ Backups = {}
=============================================================================
