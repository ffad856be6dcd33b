--------------------------- MODULE ReplicationProofs ---------------------------
(***************************************************************************)
(* What the failover promises for any number of nodes and workers: the     *)
(* type invariant, that a heartbeat taken was sent not long before, and    *)
(* that no second coordinator appears while the first is heard of.         *)
(***************************************************************************)
EXTENDS Replication, FiniteSetTheorems, TLAPS

\* The time of a heartbeat is past.
BeatsPast == \A m \in beats : m.at <= now

\* A worker about to promote has a backup in hand.
BackupInHand == \A w \in Workers : job[w].pc = "promoting" => job[w].backup \in Nodes

\* Workers that have found the coordinator down; until it was, there is none.
NobodyPromotes == ~vacant => \A w \in Workers : job[w].pc \notin {"down", "promoting"}

\* Approved or not, one node at most has the role of a coordinator.
OneRole ==
  ~vacant => \A n, k \in Nodes :
               node[n].role = "coordinator" /\ node[k].role = "coordinator" => n = k

\* A coordinator is heard of until vacant says otherwise.
Occupied == ~vacant => ~Vacant(node, now)

TypeInv == TypeOK /\ BackupInHand

SteadyInv == OneRole /\ Occupied /\ NobodyPromotes

-----------------------------------------------------------------------------
(* Types. *)

LEMMA InitType == Init => TypeInv
<1> SUFFICES ASSUME Init PROVE TypeInv
  OBVIOUS
<1>1. /\ now = 1 /\ 1 \in Times
      /\ node \in [Nodes -> Rows]
  BY TimesAssumption DEF Init, Topologies, Times
<1>2. beats \subseteq [node: Nodes, at: Times]
  BY <1>1 DEF Init
<1>3. vacant \in BOOLEAN
  BY DEF Init, Vacant
<1>4. job \in [Workers -> Jobs] /\ BackupInHand
  BY DEF Init, NoJob, Jobs, BackupInHand
<1> QED
  BY <1>1, <1>2, <1>3, <1>4, TimesAssumption DEF Init, TypeInv, TypeOK, QueueLengths, EventSets

\* A worker that answers.
LEMMA AnswerType ==
  ASSUME TypeInv, NEW w \in Workers, Answer(w)
  PROVE  job' \in [Workers -> Jobs] /\ BackupInHand'
<1>1. NoJob \in Jobs /\ NoJob.pc = "idle"
  BY DEF NoJob, Jobs
<1> QED
  BY <1>1 DEF Answer, TypeInv, TypeOK, BackupInHand

\* A worker that begins to evaluate.
LEMMA BeginType ==
  ASSUME TypeInv, NEW w \in Workers, Begin(w, [NoJob EXCEPT !.pc = "evaluating"])
  PROVE  job' \in [Workers -> Jobs] /\ BackupInHand'
<1>1. [NoJob EXCEPT !.pc = "evaluating"] \in Jobs
  BY DEF NoJob, Jobs
<1>2. [NoJob EXCEPT !.pc = "evaluating"].pc = "evaluating"
  BY DEF NoJob
<1> QED
  BY <1>1, <1>2 DEF Begin, TypeInv, TypeOK, BackupInHand

\* The first of a set of nodes is one of them: the intervals 0 .. n for n in the
\* set have a least one.
LEMMA FirstMember ==
  ASSUME NEW S \in SUBSET Nodes, S # {}
  PROVE  First(S) \in S
<1> DEFINE U == {0 .. n : n \in S}
<1>1. S \subseteq Nat
  BY NodesAssumption
<1>2. U \subseteq FiniteSubsetsOf(Nat) /\ U # {}
  <2>1. \A n \in S : IsFiniteSet(0 .. n) /\ (0 .. n) \subseteq Nat
    BY <1>1, FS_Interval
  <2> QED
    BY <2>1 DEF FiniteSubsetsOf
<1>3. PICK u \in U : \A v \in U : ~ (<<v, u>> \in StrictSubsetOrdering(Nat))
  <2> HIDE DEF U
  <2> QED
    BY <1>2, FS_StrictSubsetOrderingWellFounded, WFMin
<1>4. PICK n \in S : u = 0 .. n
  BY <1>3
<1>5. \A k \in S : n <= k
  <2> SUFFICES ASSUME NEW k \in S, k < n PROVE FALSE
    BY <1>1
  <2>1. k \in Nat /\ n \in Nat
    BY <1>1
  <2>2. (0 .. k) \subseteq (0 .. n) /\ (0 .. n) \subseteq Nat /\ (0 .. k) # (0 .. n)
    <3>1. n \in 0 .. n /\ n \notin 0 .. k
      BY <2>1
    <3> QED
      BY <2>1, <3>1
  <2>3. <<0 .. k, 0 .. n>> \in StrictSubsetOrdering(Nat)
    BY <2>2 DEF StrictSubsetOrdering
  <2> QED
    BY <2>3, <1>3, <1>4
<1> QED
  BY <1>5 DEF First

LEMMA NextType == TypeInv /\ [Next]_vars => TypeInv'
<1> SUFFICES ASSUME TypeInv, [Next]_vars PROVE TypeInv'
  OBVIOUS
<1>1. CASE UNCHANGED vars
  BY <1>1 DEF vars, TypeInv, TypeOK, BackupInHand
<1>2. ASSUME NEW w \in Workers, NEW m, Heartbeat(w, m) PROVE TypeInv'
  <2>1. m.node \in Nodes /\ now \in Times
    BY <1>2 DEF Heartbeat, Authentic, TypeInv, TypeOK
  <2>2. node' \in [Nodes -> Rows]
    BY <1>2, <2>1 DEF Heartbeat, Heard, TypeInv, TypeOK, Rows
  <2> QED
    BY <1>2, <2>2, BeginType DEF Heartbeat, TypeInv, TypeOK
<1>3. ASSUME NEW w \in Workers, Election(w) PROVE TypeInv'
  BY <1>3, BeginType DEF Election, TypeInv, TypeOK
<1>4. ASSUME NEW w \in Workers, CoordinatorUp(w) \/ NoBackup(w) PROVE TypeInv'
  BY <1>4, AnswerType DEF CoordinatorUp, NoBackup, TypeInv, TypeOK
<1>5. ASSUME NEW w \in Workers, CoordinatorDown(w) PROVE TypeInv'
  <2>1. [job[w] EXCEPT !.pc = "down"] \in Jobs /\ [job[w] EXCEPT !.pc = "down"].pc = "down"
    BY DEF TypeInv, TypeOK, Jobs
  <2>2. job' \in [Workers -> Jobs] /\ BackupInHand'
    BY <1>5, <2>1 DEF CoordinatorDown, TypeInv, TypeOK, BackupInHand
  <2> QED
    BY <1>5, <2>2 DEF CoordinatorDown, TypeInv, TypeOK
<1>6. ASSUME NEW w \in Workers, FindBackup(w) PROVE TypeInv'
  <2>1. First(Backups) \in Nodes
    BY <1>6, FirstMember DEF FindBackup, Backups, Approved
  <2>2. [job[w] EXCEPT !.pc = "promoting", !.backup = First(Backups)] \in Jobs
    BY <2>1 DEF TypeInv, TypeOK, Jobs
  <2>3. job' \in [Workers -> Jobs]
    BY <1>6, <2>2 DEF FindBackup, TypeInv, TypeOK
  <2>4. BackupInHand'
    BY <1>6, <2>1 DEF FindBackup, TypeInv, TypeOK, BackupInHand, Jobs
  <2> QED
    BY <1>6, <2>3, <2>4 DEF FindBackup, TypeInv, TypeOK
<1>7. ASSUME NEW w \in Workers, Promote(w) PROVE TypeInv'
  <2>1. node' \in [Nodes -> Rows]
    BY <1>7 DEF Promote, Promoted, TypeInv, TypeOK, Rows, Role
  <2> QED
    BY <1>7, <2>1, AnswerType DEF Promote, TypeInv, TypeOK
<1>8. ASSUME NEW w \in Workers, NEW n \in Nodes, Push(w, n) PROVE TypeInv'
  BY <1>8, TimesAssumption DEF Push, Enqueue, TypeInv, TypeOK, QueueLengths, BackupInHand
<1>9. ASSUME NEW w \in Workers, NEW e \in Events, Acknowledge(w, e) PROVE TypeInv'
  BY <1>9 DEF Acknowledge, AcknowledgeEvent, TypeInv, TypeOK, EventSets, BackupInHand
<1>10. ASSUME NEW w \in Workers, Die(w) PROVE TypeInv'
  BY <1>10, AnswerType, TimesAssumption DEF Die, TypeInv, TypeOK
<1>11. ASSUME NEW n \in Nodes, Send(n) PROVE TypeInv'
  BY <1>11 DEF Send, TypeInv, TypeOK, BackupInHand
<1>12. ASSUME NEW n \in Nodes, NEW role \in Role, Approve(n, role) PROVE TypeInv'
  BY <1>12 DEF Approve, TypeInv, TypeOK, Rows, BackupInHand
<1>13. ASSUME Tick PROVE TypeInv'
  BY <1>13, TimesAssumption DEF Tick, TypeInv, TypeOK, Times, BackupInHand, Vacant
<1> QED
  BY <1>1, <1>2, <1>3, <1>4, <1>5, <1>6, <1>7, <1>8, <1>9, <1>10, <1>11, <1>12, <1>13
     DEF Next, Work, Evaluate

LEMMA TypeInvariant == Spec => []TypeInv
BY InitType, NextType, PTL DEF Spec

\* Rows, beats and jobs keep their type, and the backup in hand is a node.
THEOREM TypeCorrect == Spec => []TypeOK
<1>1. TypeInv => TypeOK
  BY DEF TypeInv
<1> QED
  BY <1>1, TypeInvariant, PTL

-----------------------------------------------------------------------------
(* Heartbeats. *)

BeatInv == BeatsPast /\ BeatsWereSent

LEMMA BeatInit == Init => BeatInv
<1> SUFFICES ASSUME Init PROVE BeatInv
  OBVIOUS
<1>1. \A n \in Nodes : node[n].beat \in {NoBeat, 1}
  BY DEF Init, Topologies, NoRow
<1>2. BeatsPast
  BY DEF Init, BeatsPast
<1>3. ASSUME NEW n \in Nodes, node[n].beat # NoBeat
      PROVE \E m \in beats : m.node = n /\ m.at <= node[n].beat /\ node[n].beat <= m.at + Window
  <2>1. [node |-> n, at |-> 1] \in beats
    BY <1>1, <1>3 DEF Init
  <2> QED
    BY <1>1, <1>3, <2>1, TimesAssumption
<1> QED
  BY <1>2, <1>3 DEF BeatInv, BeatsWereSent

LEMMA BeatNext == TypeInv /\ BeatInv /\ [Next]_vars => BeatInv'
<1> SUFFICES ASSUME TypeInv, BeatInv, [Next]_vars PROVE BeatInv'
  OBVIOUS
<1>1. \A m \in beats : m.node \in Nodes /\ m.at \in Nat
  BY DEF TypeInv, TypeOK, Times
<1>2. now \in Nat
  BY DEF TypeInv, TypeOK, Times
<1>3. CASE UNCHANGED <<now, beats>> /\ \A n \in Nodes : node'[n].beat = node[n].beat
  BY <1>3 DEF BeatInv, BeatsPast, BeatsWereSent
<1>4. ASSUME NEW w \in Workers, NEW m, Heartbeat(w, m) PROVE BeatInv'
  <2>1. node'[m.node].beat = now /\ \A n \in Nodes : n # m.node => node'[n] = node[n]
    BY <1>1, <1>4 DEF Heartbeat, Heard, Authentic, TypeInv, TypeOK, Rows
  <2>2. m.at <= now /\ now <= m.at + Window
    BY <1>1, <1>2, <1>4, TimesAssumption DEF Heartbeat, Authentic, Verified, BeatInv, BeatsPast
  <2>3. BeatsPast'
    BY <1>4 DEF Heartbeat, BeatInv, BeatsPast
  <2>4. BeatsWereSent'
    <3> SUFFICES ASSUME NEW n \in Nodes, node'[n].beat # NoBeat
                 PROVE  \E k \in beats : k.node = n /\ k.at <= node'[n].beat
                                         /\ node'[n].beat <= k.at + Window
      BY <1>4 DEF Heartbeat, BeatsWereSent
    <3>1. CASE n = m.node
      BY <1>4, <2>1, <2>2, <3>1 DEF Heartbeat, Authentic
    <3>2. CASE n # m.node
      <4>1. node'[n] = node[n]
        BY <2>1, <3>2
      <4> QED
        BY <4>1 DEF BeatInv, BeatsWereSent
    <3> QED
      BY <3>1, <3>2
  <2> QED
    BY <2>3, <2>4 DEF BeatInv
<1>5. ASSUME NEW n \in Nodes, Send(n) PROVE BeatInv'
  BY <1>2, <1>5 DEF Send, BeatInv, BeatsPast, BeatsWereSent
<1>6. ASSUME Tick PROVE BeatInv'
  BY <1>1, <1>2, <1>6 DEF Tick, BeatInv, BeatsPast, BeatsWereSent
<1>7. ASSUME NEW w \in Workers, Promote(w) PROVE BeatInv'
  BY <1>3, <1>7 DEF Promote, Promoted, TypeInv, TypeOK, Rows
<1>8. ASSUME NEW n \in Nodes, NEW role \in Role, Approve(n, role) PROVE BeatInv'
  BY <1>3, <1>8 DEF Approve, TypeInv, TypeOK, Rows
<1> QED
  BY <1>3, <1>4, <1>5, <1>6, <1>7, <1>8
     DEF Next, Work, Evaluate, vars, Election, CoordinatorUp, CoordinatorDown, FindBackup,
         NoBackup, Push, Acknowledge, Die

\* What the table takes for a sign of life was sent at most Window before.
THEOREM BeatsAreSigned == Spec => []BeatsWereSent
<1>1. BeatInv => BeatsWereSent
  BY DEF BeatInv
<1> QED
  BY <1>1, TypeInvariant, BeatInit, BeatNext, PTL DEF Spec

-----------------------------------------------------------------------------
(* One coordinator, as long as it is heard of. *)

LEMMA SteadyInit == ASSUME IsFiniteSet(Nodes), Init PROVE SteadyInv
<1> DEFINE C == {n \in Nodes : node[n].role = "coordinator"}
<1>1. Cardinality(C) <= 1
  BY DEF Init, Topologies
<1>2. \A n, k \in C : n = k
  <2> SUFFICES ASSUME NEW n \in C, NEW k \in C, n # k PROVE FALSE
    OBVIOUS
  <2>1. {n, k} \subseteq C /\ IsFiniteSet(C)
    BY FS_Subset
  <2>2. Cardinality({n, k}) = 2
    <3>1. {n, k} = {n} \cup {k}
      OBVIOUS
    <3>2. IsFiniteSet({n}) /\ Cardinality({n}) = 1
      BY FS_Singleton
    <3>3. k \notin {n}
      OBVIOUS
    <3>4. Cardinality({n} \cup {k}) = Cardinality({n}) + 1
      BY <3>2, <3>3, FS_AddElement
    <3> QED
      BY <3>1, <3>2, <3>4
  <2>3. Cardinality({n, k}) <= Cardinality(C)
    BY <2>1, FS_Subset
  <2> HIDE DEF C
  <2>4. Cardinality(C) \in Nat
    BY <2>1, FS_CardinalityType
  <2> QED
    BY <1>1, <2>2, <2>3, <2>4
<1> QED
  BY <1>2 DEF Init, SteadyInv, OneRole, Occupied, NobodyPromotes, NoJob

\* With one role of coordinator, and it approved and heard of, it is the first.
LEMMA OneIsFirst ==
  ASSUME TypeInv, SteadyInv, ~vacant
  PROVE  FirstFresh
<1>1. PICK n \in Nodes : /\ node[n].approved /\ node[n].role = "coordinator"
                         /\ node[n].beat # NoBeat /\ node[n].beat > now - Threshold
  BY DEF SteadyInv, Occupied, Vacant
<1>2. Coordinators = {n}
  BY <1>1 DEF SteadyInv, OneRole, Coordinators, Approved
<1>3. First(Coordinators) = n
  BY <1>2, FirstMember
<1> QED
  BY <1>1, <1>2, <1>3 DEF FirstFresh, Fresh

\* Steps that leave the rows, the time and who promotes as they are.
LEMMA SteadyStay ==
  ASSUME SteadyInv, UNCHANGED <<now, node, vacant>>,
         \A w \in Workers : job'[w].pc \in {"down", "promoting"}
                              => job[w].pc \in {"down", "promoting"}
  PROVE  SteadyInv'
BY DEF SteadyInv, OneRole, Occupied, NobodyPromotes, Vacant

LEMMA SteadyNext == TypeInv /\ BeatInv /\ SteadyInv /\ [Next]_vars => SteadyInv'
<1> SUFFICES ASSUME TypeInv, BeatInv, SteadyInv, [Next]_vars PROVE SteadyInv'
  OBVIOUS
<1> USE DEF SteadyInv
<1>1. CASE UNCHANGED vars
  BY <1>1, SteadyStay DEF vars
<1>2. ASSUME NEW w \in Workers, NEW m, Heartbeat(w, m) PROVE SteadyInv'
  <2>1. m.node \in Nodes /\ now \in Nat /\ now # NoBeat
    BY <1>2 DEF Heartbeat, Authentic, TypeInv, TypeOK, Times, NoBeat
  <2>2. /\ node'[m.node].beat = now
        /\ \A n \in Nodes : n # m.node => node'[n] = node[n]
        /\ \A n \in Nodes : node'[n].role = node[n].role /\ node'[n].approved = node[n].approved
    BY <1>2, <2>1 DEF Heartbeat, Heard, TypeInv, TypeOK, Rows
  <2>3. now > now - Threshold
    BY <2>1, TimesAssumption
  <2>4. OneRole'
    BY <1>2, <2>2 DEF Heartbeat, OneRole
  <2>5. Occupied'
    BY <1>2, <2>1, <2>2, <2>3 DEF Heartbeat, Occupied, Vacant
  <2>6. NobodyPromotes'
    BY <1>2 DEF Heartbeat, Begin, TypeInv, TypeOK, NobodyPromotes, NoJob
  <2> QED
    BY <2>4, <2>5, <2>6
<1>3. ASSUME NEW w \in Workers, Election(w) PROVE SteadyInv'
  BY <1>3, SteadyStay DEF Election, Begin, TypeInv, TypeOK, NoJob
<1>4. ASSUME NEW w \in Workers, Answer(w), UNCHANGED <<now, node, vacant>> PROVE SteadyInv'
  BY <1>4, SteadyStay DEF Answer, TypeInv, TypeOK, NoJob
<1>5. ASSUME NEW w \in Workers, CoordinatorDown(w) PROVE SteadyInv'
  <2>1. vacant
    BY <1>5, OneIsFirst DEF CoordinatorDown
  <2> QED
    BY <1>5, <2>1 DEF CoordinatorDown, OneRole, Occupied, NobodyPromotes
<1>6. ASSUME NEW w \in Workers, FindBackup(w) PROVE SteadyInv'
  BY <1>6, SteadyStay DEF FindBackup, TypeInv, TypeOK
<1>7. ASSUME NEW w \in Workers, Promote(w) PROVE SteadyInv'
  <2>1. vacant
    BY <1>7 DEF Promote, NobodyPromotes
  <2> QED
    BY <1>7, <2>1 DEF Promote, OneRole, Occupied, NobodyPromotes
<1>8. ASSUME NEW w \in Workers, NEW n \in Nodes, Push(w, n) PROVE SteadyInv'
  BY <1>8, SteadyStay DEF Push
<1>9. ASSUME NEW w \in Workers, NEW e \in Events, Acknowledge(w, e) PROVE SteadyInv'
  BY <1>9, SteadyStay DEF Acknowledge
<1>10. ASSUME NEW n \in Nodes, Send(n) PROVE SteadyInv'
  BY <1>10, SteadyStay DEF Send
<1>11. ASSUME NEW n \in Nodes, NEW role \in Role, Approve(n, role) PROVE SteadyInv'
  <2> SUFFICES ASSUME ~vacant PROVE SteadyInv'
    BY <1>11 DEF Approve, OneRole, Occupied, NobodyPromotes
  <2>1. PICK c \in Nodes : /\ node[c].approved /\ node[c].role = "coordinator"
                           /\ node[c].beat # NoBeat /\ node[c].beat > now - Threshold
    BY DEF Occupied, Vacant
  <2>2. role # "coordinator" /\ c # n
    BY <1>11, <2>1 DEF Approve
  <2>3. node'[n].role = role /\ \A k \in Nodes : k # n => node'[k] = node[k]
    BY <1>11 DEF Approve, TypeInv, TypeOK, Rows
  <2>4. OneRole'
    BY <1>11, <2>2, <2>3 DEF Approve, OneRole
  <2>5. Occupied'
    BY <1>11, <2>1, <2>2, <2>3 DEF Approve, Occupied, Vacant
  <2>6. NobodyPromotes'
    BY <1>11 DEF Approve, NobodyPromotes
  <2> QED
    BY <2>4, <2>5, <2>6
<1>12. ASSUME Tick PROVE SteadyInv'
  <2>1. Occupied'
    BY <1>12 DEF Tick, Occupied, Vacant
  <2>2. OneRole' /\ NobodyPromotes'
    BY <1>12 DEF Tick, OneRole, NobodyPromotes
  <2> QED
    BY <2>1, <2>2
<1> QED
  BY <1>1, <1>2, <1>3, <1>4, <1>5, <1>6, <1>7, <1>8, <1>9, <1>10, <1>11, <1>12
     DEF Next, Work, Evaluate, CoordinatorUp, NoBackup, Die

\* However many workers evaluate the failover at once: no second coordinator
\* while one is heard of within every threshold.
THEOREM CoordinatorIsSteady ==
  ASSUME IsFiniteSet(Nodes)
  PROVE  Spec => []SteadyCoordinator
<1>1. ASSUME SteadyInv PROVE SteadyCoordinator
  <2> SUFFICES ASSUME ~vacant PROVE Cardinality(Coordinators) <= 1
    BY DEF SteadyCoordinator
  <2>1. \A n, k \in Coordinators : n = k
    BY <1>1 DEF SteadyInv, OneRole, Coordinators, Approved
  <2>2. CASE Coordinators = {}
    BY <2>2, FS_EmptySet
  <2>3. ASSUME NEW c \in Coordinators PROVE Cardinality(Coordinators) <= 1
    <3>1. Coordinators = {c}
      BY <2>1
    <3>2. Cardinality({c}) = 1
      BY FS_Singleton
    <3> QED
      BY <3>1, <3>2
  <2> QED
    BY <2>2, <2>3
<1>2. Init => SteadyInv
  BY SteadyInit
<1>3. SteadyInv => SteadyCoordinator
  BY <1>1
<1> QED
  BY <1>2, <1>3, TypeInvariant, BeatInit, BeatNext, SteadyNext, PTL DEF Spec
=============================================================================
