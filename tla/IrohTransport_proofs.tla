------------------------ MODULE IrohTransport_proofs ------------------------
(***************************************************************************)
(* For any number of tasks, peers and nodes: types, one node at a time and *)
(* no node left behind.                                                    *)
(***************************************************************************)
EXTENDS IrohTransport, TLAPS

\* What the four updates of a task come to: its place and the node it uses.
Moves(t, l, n) ==
  /\ task' \in [AllTasks -> Task]
  /\ task'[t].pc = l
  /\ task'[t].on = n
  /\ \A s \in AllTasks \ {t} : task'[s] = task[s]

(* A function of tasks with one value replaced. *)
LEMMA OneTask ==
  ASSUME NEW f \in [AllTasks -> Task], NEW t \in AllTasks, NEW h \in Task
  PROVE  /\ [f EXCEPT ![t] = h] \in [AllTasks -> Task]
         /\ [f EXCEPT ![t] = h][t] = h
         /\ \A s \in AllTasks \ {t} : [f EXCEPT ![t] = h][s] = f[s]
  OBVIOUS

(* Goes moves a task on, with the endpoint it is given. *)
LEMMA GoesMoves ==
  ASSUME task \in [AllTasks -> Task], NEW t \in AllTasks,
         NEW l \in PCs, NEW n \in Nodes \cup {NoNode}, Goes(t, l, n)
  PROVE  Moves(t, l, n)
<1> DEFINE h == [task[t] EXCEPT !.pc = l, !.on = n]
<1>1. h \in Task /\ h.pc = l /\ h.on = n
  BY DEF Task
<1>2. task' = [task EXCEPT ![t] = h]
  BY Zenon DEF Goes
<1> HIDE DEF h
<1>3. QED
  BY <1>1, <1>2, OneTask DEF Moves

(* Ends takes a task back to idle, without an endpoint. *)
LEMMA EndsMoves ==
  ASSUME task \in [AllTasks -> Task], NEW t \in AllTasks,
         NEW r \in {"none", "done", "error", "no_key"}, Ends(t, r)
  PROVE  Moves(t, "idle", NoNode)
<1> DEFINE h == [task[t] EXCEPT !.pc = "idle", !.on = NoNode, !.result = r]
<1>1. h \in Task /\ h.pc = "idle" /\ h.on = NoNode
  BY DEF Task, PCs
<1>2. task' = [task EXCEPT ![t] = h]
  BY Zenon DEF Ends
<1> HIDE DEF h
<1>3. QED
  BY <1>1, <1>2, OneTask DEF Moves

(* A call begins with _ensure_node and keeps the endpoint of the task. *)
LEMMA CallMoves ==
  ASSUME task \in [AllTasks -> Task], NEW t \in AllTasks, Call(t)
  PROVE  Moves(t, "acquire", task[t].on)
<1>1. PICK o \in {"listen", "dial", "ticket"}, p \in Peers :
        task' = [task EXCEPT ![t].pc = "acquire", ![t].op = o, ![t].peer = p,
                             ![t].result = "none"]
  BY DEF Call
<1> DEFINE h == [task[t] EXCEPT !.pc = "acquire", !.op = o, !.peer = p,
                                !.result = "none"]
<1>2. h \in Task /\ h.pc = "acquire" /\ h.on = task[t].on
  BY DEF Task, PCs
<1>3. task' = [task EXCEPT ![t] = h]
  BY <1>1, Zenon
<1> HIDE DEF h
<1>4. QED
  BY <1>2, <1>3, OneTask DEF Moves

(* A close remembers the node it shuts down. *)
LEMMA CloseMoves ==
  ASSUME task \in [AllTasks -> Task], NEW t \in AllTasks,
         node \in Nodes \cup {NoNode}, Close(t)
  PROVE  Moves(t, "stop", node)
<1> DEFINE h == [task[t] EXCEPT !.pc = "stop", !.op = "close", !.on = node]
<1>1. h \in Task /\ h.pc = "stop" /\ h.on = node
  BY DEF Task, PCs
<1>2. task' = [task EXCEPT ![t] = h]
  BY Zenon DEF Close
<1> HIDE DEF h
<1>3. QED
  BY <1>1, <1>2, OneTask DEF Moves

(* After _ensure_node with the endpoint n a task ends, polls or connects on n. *)
LEMMA EnsuredMoves ==
  ASSUME task \in [AllTasks -> Task], NEW t \in AllTasks, NEW n \in Nodes,
         Ensured(t, n)
  PROVE  \/ Moves(t, "idle", NoNode)
         \/ Moves(t, "poll", NoNode)
         \/ Moves(t, "connect", n)
<1>1. \/ Ends(t, "done") \/ Ends(t, "no_key") \/ Ends(t, "error")
      \/ Goes(t, "poll", NoNode) \/ Goes(t, "connect", n)
  BY DEF Ensured
<1>2. QED
  BY <1>1, EndsMoves, GoesMoves DEF PCs

(***************************************************************************)
(* The inductive invariant.                                                *)
(***************************************************************************)

(* A move that neither takes nor gives the lock, nor touches the node. *)
LEMMA QuietMove ==
  ASSUME TransportInv, NEW t \in AllTasks, NEW l \in PCs \ {"start", "stop"},
         NEW n, Moves(t, l, n), l \in UsesNode => n \in Nodes,
         task[t].pc # "start", t = Closer => l = "idle",
         UNCHANGED <<lock, nodeVars>>
  PROVE  TransportInv'
<1> USE DEF TransportInv, Moves, nodeVars
<1>1. TypeOK'
  BY DEF TypeOK
<1>2. LockInv'
  BY DEF LockInv
<1>3. CloseInv'
  BY DEF CloseInv, AllTasks
<1>4. NoOrphans'
  BY DEF NoOrphans
<1>5. QED
  BY <1>1, <1>2, <1>3, <1>4

(* The invariant holds before the transport is used. *)
LEMMA InvInit == Init => TransportInv
<1> SUFFICES ASSUME Init PROVE TransportInv
  OBVIOUS
<1> USE IrohTransportAssumption DEF Init
<1>1. PICK p \in Peers :
        task = [t \in AllTasks |-> [pc |-> "idle", op |-> "none", peer |-> p,
                                    on |-> NoNode, result |-> "none"]]
  OBVIOUS
<1>2. \A t \in AllTasks : task[t] \in Task /\ task[t].pc = "idle"
  BY <1>1 DEF Task, PCs
<1>3. TypeOK
  <2>1. task \in [AllTasks -> Task]
    BY <1>1, <1>2
  <2>2. QED
    BY <1>2, <2>1 DEF TypeOK, UsesNode, Nodes
<1>4. LockInv
  BY <1>2 DEF LockInv, AllTasks
<1>5. CloseInv
  BY <1>2 DEF CloseInv, AllTasks
<1>6. NoOrphans
  BY DEF NoOrphans
<1>7. QED
  BY <1>3, <1>4, <1>5, <1>6 DEF TransportInv

(* A call that ends the task holding the lock, with or without a lost node. *)
LEMMA FailMove ==
  ASSUME TransportInv, NEW t \in AllTasks, task[t].pc = "start",
         Moves(t, "idle", NoNode), lock' = NoTask, MayLoseStarted,
         UNCHANGED node
  PROVE  TransportInv'
<1> USE IrohTransportAssumption DEF TransportInv, Moves
<1>1. /\ started' \in 0 .. MaxNodes
      /\ alive' \in SUBSET Nodes /\ lost' \in SUBSET Nodes
      /\ alive' \subseteq {node} \cup lost'
  <2>1. CASE UNCHANGED <<started, alive, lost>>
    BY <2>1 DEF TypeOK, NoOrphans
  <2>2. CASE /\ started < MaxNodes
             /\ started' = started + 1
             /\ alive' = alive \cup {started'}
             /\ lost' = lost \cup {started'}
    <3>1. started' \in Nodes
      BY <2>2 DEF TypeOK, Nodes
    <3>2. QED
      BY <2>2, <3>1 DEF TypeOK, Nodes, NoOrphans
  <2>3. QED
    BY <2>1, <2>2 DEF MayLoseStarted
<1>2. TypeOK'
  BY <1>1 DEF TypeOK, UsesNode
<1>3. LockInv'
  BY DEF LockInv, AllTasks
<1>4. CloseInv'
  BY DEF CloseInv, AllTasks
<1>5. NoOrphans'
  BY <1>1 DEF NoOrphans
<1>6. QED
  BY <1>2, <1>3, <1>4, <1>5

(* A close that is over, cancelled or not: the node is shut down or lost. *)
LEMMA StopMove ==
  ASSUME TransportInv, NEW t \in AllTasks, task[t].pc = "stop",
         Moves(t, "idle", NoNode),
         \/ alive' = alive \ {task[t].on} /\ UNCHANGED lost
         \/ UNCHANGED alive /\ lost' = lost \cup {task[t].on}
         \/ UNCHANGED <<node, alive, lost>>,
         node' \in {node, NoNode}, UNCHANGED <<lock, started>>
  PROVE  TransportInv'
<1> USE IrohTransportAssumption DEF TransportInv, Moves
<1>1. TypeOK'
  BY DEF TypeOK, UsesNode
<1>2. LockInv'
  BY DEF LockInv, AllTasks
<1>3. CloseInv'
  BY DEF CloseInv, AllTasks
<1>4. NoOrphans'
  BY DEF NoOrphans, CloseInv
<1>5. QED
  BY <1>1, <1>2, <1>3, <1>4

(* Every step keeps the invariant. *)
LEMMA InvNext == TransportInv /\ [Next]_vars => TransportInv'
<1> SUFFICES ASSUME TransportInv, [Next]_vars PROVE TransportInv'
  OBVIOUS
<1> USE IrohTransportAssumption
<1>0. /\ task \in [AllTasks -> Task] /\ node \in Nodes \cup {NoNode}
      /\ alive \subseteq Nodes /\ NoNode \notin Nodes
  BY DEF TransportInv, TypeOK, Nodes
<1>00. task[Closer].pc \in {"idle", "stop"}
  BY DEF TransportInv, CloseInv
<1>1. ASSUME NEW t \in AllTasks, Call(t) PROVE TransportInv'
  <2>1. Moves(t, "acquire", task[t].on)
    BY <1>0, <1>1, CallMoves
  <2>2. QED
    BY <1>1, <2>1, QuietMove DEF Call, PCs, UsesNode
<1>2. ASSUME NEW t \in AllTasks, Close(t) PROVE TransportInv'
  <2>1. Moves(t, "stop", node)
    BY <1>0, <1>2, CloseMoves
  <2> USE <1>0, <1>2, <2>1 DEF TransportInv, Moves, Close, nodeVars
  <2>2. TypeOK'
    BY DEF TypeOK
  <2>3. LockInv'
    BY DEF LockInv, AllTasks
  <2>4. CloseInv'
    BY DEF CloseInv, AllTasks
  <2>5. NoOrphans'
    BY DEF NoOrphans
  <2>6. QED
    BY <2>2, <2>3, <2>4, <2>5
<1>3. ASSUME NEW t \in AllTasks, FindNode(t) PROVE TransportInv'
  <2>1. node \in Nodes
    BY <1>0, <1>3 DEF FindNode
  <2>2. \/ Moves(t, "idle", NoNode) \/ Moves(t, "poll", NoNode)
        \/ Moves(t, "connect", node)
    BY <1>0, <1>3, <2>1, EnsuredMoves DEF FindNode
  <2>3. QED
    BY <1>00, <1>3, <2>1, <2>2, QuietMove DEF FindNode, PCs, UsesNode
<1>4. ASSUME NEW t \in AllTasks, StartNode(t) PROVE TransportInv'
  <2>1. Moves(t, "start", NoNode)
    BY <1>0, <1>4, GoesMoves DEF StartNode, PCs
  <2> USE <1>0, <1>00, <1>4, <2>1 DEF TransportInv, Moves, StartNode, nodeVars
  <2>2. TypeOK'
    BY DEF TypeOK, AllTasks, UsesNode
  <2>3. LockInv'
    BY DEF LockInv, AllTasks
  <2>4. CloseInv'
    BY DEF CloseInv, AllTasks
  <2>5. NoOrphans'
    BY DEF NoOrphans
  <2>6. QED
    BY <2>2, <2>3, <2>4, <2>5
<1>5. ASSUME NEW t \in AllTasks, NodeStarts(t) PROVE TransportInv'
  <2>1. started' \in Nodes /\ started' \in 0 .. MaxNodes
    BY <1>5 DEF NodeStarts, TransportInv, TypeOK, Nodes
  <2>2. \/ Moves(t, "idle", NoNode) \/ Moves(t, "poll", NoNode)
        \/ Moves(t, "connect", started')
    BY <1>0, <1>5, <2>1, EnsuredMoves DEF NodeStarts
  <2>3. /\ lock = t /\ node = NoNode /\ t # Closer
        /\ \A s \in AllTasks : task[s].pc # "stop"
    BY <1>00, <1>5 DEF NodeStarts, TransportInv, LockInv, CloseInv, AllTasks
  <2> USE <1>0, <1>00, <2>1, <2>2, <2>3 DEF TransportInv, Moves
  <2>4. TypeOK'
    BY <1>5 DEF TypeOK, NodeStarts, UsesNode
  <2>5. LockInv'
    BY <1>5 DEF LockInv, NodeStarts, AllTasks
  <2>6. CloseInv'
    BY DEF CloseInv, AllTasks
  <2>7. NoOrphans'
    BY <1>5 DEF NoOrphans, NodeStarts
  <2>8. QED
    BY <2>4, <2>5, <2>6, <2>7
<1>6. ASSUME NEW t \in AllTasks, StartFails(t) PROVE TransportInv'
  <2>1. Moves(t, "idle", NoNode)
    BY <1>0, <1>6, EndsMoves DEF StartFails
  <2>2. QED
    BY <1>6, <2>1, FailMove DEF StartFails
<1>7. ASSUME NEW t \in AllTasks, Connect(t) \/ OpenBi(t) PROVE TransportInv'
  <2>1. t # Closer /\ task[t].pc # "start" /\ UNCHANGED <<lock, nodeVars>>
    BY <1>00, <1>7 DEF Connect, OpenBi
  <2>2. CASE Ends(t, "done") \/ Ends(t, "error")
    <3>1. Moves(t, "idle", NoNode)
      BY <1>0, <2>2, EndsMoves
    <3>2. QED
      BY <2>1, <3>1, QuietMove DEF PCs, UsesNode
  <2>3. CASE task[t].on \in alive /\ Goes(t, "open_bi", task[t].on)
    <3>1. task[t].on \in Nodes
      BY <1>0, <2>3
    <3>2. Moves(t, "open_bi", task[t].on)
      BY <1>0, <2>3, <3>1, GoesMoves DEF PCs
    <3>3. QED
      BY <2>1, <3>1, <3>2, QuietMove DEF PCs
  <2>4. QED
    BY <1>7, <2>2, <2>3 DEF Connect, OpenBi
<1>8. ASSUME NEW t \in AllTasks, PollTicket(t) \/ PollTimesOut(t)
      PROVE  TransportInv'
  <2>1. Moves(t, "idle", NoNode)
    BY <1>0, <1>8, EndsMoves DEF PollTicket, PollTimesOut
  <2>2. QED
    BY <1>8, <2>1, QuietMove DEF PollTicket, PollTimesOut, PCs, UsesNode
<1>9. ASSUME NEW t \in AllTasks, Stopped(t) PROVE TransportInv'
  <2>1. Moves(t, "idle", NoNode)
    BY <1>0, <1>9, EndsMoves DEF Stopped
  <2>2. QED
    BY <1>9, <2>1, StopMove DEF Stopped
<1>10. ASSUME NEW t \in AllTasks, Cancel(t) PROVE TransportInv'
  <2>1. Moves(t, "idle", NoNode)
    BY <1>0, <1>10, EndsMoves DEF Cancel
  <2>2. CASE task[t].pc = "start"
    <3>1. lock' = NoTask
      BY <1>10, <2>2 DEF Cancel, TransportInv, LockInv
    <3>2. QED
      BY <1>10, <2>1, <2>2, <3>1, FailMove DEF Cancel
  <2>3. CASE task[t].pc # "start"
    <3>1. UNCHANGED <<lock, node, started, lost>>
      BY <1>10, <2>3 DEF Cancel, TransportInv, LockInv
    <3>2. CASE task[t].pc = "stop"
      <4>1. UNCHANGED alive \/ alive' = alive \ {task[t].on}
        BY <1>10, <3>2 DEF Cancel
      <4>2. QED
        BY <2>1, <3>1, <3>2, <4>1, StopMove
    <3>3. CASE task[t].pc # "stop"
      <4>1. UNCHANGED alive
        BY <1>10, <2>3, <3>3 DEF Cancel
      <4>2. QED
        BY <2>1, <2>3, <3>1, <4>1, QuietMove DEF PCs, UsesNode, nodeVars
    <3>4. QED
      BY <3>2, <3>3
  <2>4. QED
    BY <2>2, <2>3
<1>11. CASE UNCHANGED vars
  BY <1>11 DEF vars, TransportInv, TypeOK, LockInv, CloseInv, NoOrphans
<1>12. QED
  BY <1>1, <1>2, <1>3, <1>4, <1>5, <1>6, <1>7, <1>8, <1>9, <1>10, <1>11
     DEF Next, Runs

(* The lock, the closer and the nodes, in every state. *)
THEOREM Invariance == Spec => []TransportInv
  BY InvInit, InvNext, PTL DEF Spec

(* Every variable keeps its type, and no task uses an endpoint that is None. *)
THEOREM TypeCorrect == Spec => []TypeOK
<1>1. TransportInv => TypeOK
  BY DEF TransportInv
<1>2. QED
  BY <1>1, Invariance, PTL

(* A node that runs is the transport's, or was lost with a call that was
   cancelled or failed. *)
THEOREM NoNodeLeftBehind == Spec => []NoOrphans
<1>1. TransportInv => NoOrphans
  BY DEF TransportInv
<1>2. QED
  BY <1>1, Invariance, PTL

(* A node in use is let go of before there is another one. *)
THEOREM OneNodeAtATime == Spec => NodeKept
<1>1. TransportInv /\ [Next]_vars => [node # NoNode => node' \in {node, NoNode}]_vars
  <2> SUFFICES ASSUME TransportInv, Next, node # NoNode
               PROVE  node' \in {node, NoNode}
    BY DEF vars
  <2> USE DEF nodeVars
  <2>1. ASSUME NEW t \in AllTasks, NodeStarts(t) PROVE FALSE
    BY <2>1, IrohTransportAssumption
    DEF NodeStarts, TransportInv, LockInv, AllTasks
  <2>2. ASSUME NEW t \in AllTasks, Call(t) \/ Close(t) \/ Cancel(t)
        PROVE  node' = node
    BY <2>2 DEF Call, Close, Cancel
  <2>3. ASSUME NEW t \in AllTasks, FindNode(t) \/ StartNode(t) \/ StartFails(t)
        PROVE  node' = node
    BY <2>3 DEF FindNode, StartNode, StartFails
  <2>4. ASSUME NEW t \in AllTasks,
               Connect(t) \/ OpenBi(t) \/ PollTicket(t) \/ PollTimesOut(t)
        PROVE  node' = node
    BY <2>4 DEF Connect, OpenBi, PollTicket, PollTimesOut
  <2>5. ASSUME NEW t \in AllTasks, Stopped(t) PROVE node' = NoNode
    BY <2>5 DEF Stopped
  <2>6. QED
    BY <2>1, <2>2, <2>3, <2>4, <2>5 DEF Next, Runs
<1>2. QED
  BY <1>1, Invariance, PTL DEF Spec, NodeKept

(***************************************************************************)
(* The refinement: the lock and the awaits hide behind SharedNode.         *)
(***************************************************************************)

(* A move of a task changes its own endpoint, to n if it dials on. *)
LEMMA UsesMove ==
  ASSUME NEW t \in AllTasks, NEW l, NEW n, Moves(t, l, n)
  PROVE  /\ t \notin Tasks => Uses' = Uses
         /\ t \in Tasks =>
              Uses' = [Uses EXCEPT ![t] =
                         IF l \in {"connect", "open_bi"} THEN n ELSE NoNode]
<1>1. \A s \in Tasks \ {t} : task'[s] = task[s]
  BY DEF Moves, AllTasks
<1>2. CASE t \notin Tasks
  BY <1>1, <1>2 DEF Uses
<1>3. CASE t \in Tasks
  BY <1>1, <1>3 DEF Uses, Moves
<1>4. QED
  BY <1>2, <1>3

(* Without an endpoint, and with the node as it is, a move gives one up. *)
LEMMA LeaveMove ==
  ASSUME NEW t \in AllTasks, NEW l \in PCs \ {"connect", "open_bi"}, NEW n,
         Moves(t, l, n), UNCHANGED nodeVars
  PROVE  [Shared!Next]_(Shared!vars)
<1>1. CASE t \notin Tasks
  BY <1>1, UsesMove DEF Shared!vars, nodeVars
<1>2. CASE t \in Tasks
  <2>1. Uses' = [Uses EXCEPT ![t] = NoNode]
    BY <1>2, UsesMove
  <2>2. Shared!Leave(t)
    BY <2>1 DEF Shared!Leave, nodeVars
  <2>3. QED
    BY <1>2, <2>2 DEF Shared!Next
<1>3. QED
  BY <1>1, <1>2

(* A task that is not dialling, or no dialling task, uses no endpoint. *)
LEMMA UsesNone ==
  ASSUME NEW t \in Tasks, task[t].pc \notin {"connect", "open_bi"}
  PROVE  Uses[t] = NoNode /\ Uses = [Uses EXCEPT ![t] = NoNode]
  BY DEF Uses

(* The next node is a new one. *)
LEMMA NextNode ==
  ASSUME TransportInv, started < MaxNodes, started' = started + 1
  PROVE  /\ started' \in Nodes /\ started' \notin 1 .. started
         /\ 1 .. started' = (1 .. started) \cup {started'}
  BY IrohTransportAssumption DEF TransportInv, TypeOK, Nodes

(* A failed or cancelled start is nothing, or a node nobody was given. *)
LEMMA StrayMove ==
  ASSUME TransportInv, NEW t \in AllTasks, task[t].pc = "start",
         Moves(t, "idle", NoNode), MayLoseStarted, UNCHANGED node
  PROVE  [Shared!Next]_(Shared!vars)
<1>1. t \in Tasks /\ node = NoNode
  BY IrohTransportAssumption DEF TransportInv, LockInv, CloseInv, AllTasks
<1>2. Uses' = Uses
  BY <1>1, UsesMove, UsesNone
<1>3. CASE UNCHANGED <<started, alive, lost>>
  BY <1>2, <1>3 DEF Shared!vars
<1>4. CASE /\ started < MaxNodes /\ started' = started + 1
           /\ alive' = alive \cup {started'} /\ lost' = lost \cup {started'}
  <2>1. Shared!Starts(started')
    BY <1>4, NextNode DEF Shared!Starts
  <2>2. Shared!Stray
    BY <1>1, <1>2, <1>4, <2>1, NextNode DEF Shared!Stray
  <2>3. QED
    BY <2>2 DEF Shared!Next
<1>5. QED
  BY <1>3, <1>4 DEF MayLoseStarted

(* A shutdown, however it ends, is one of the node there is. *)
LEMMA ShutMove ==
  ASSUME TransportInv, NEW t \in AllTasks, task[t].pc = "stop",
         Moves(t, "idle", NoNode), UNCHANGED started,
         \/ node' = NoNode /\ alive' = alive \ {task[t].on} /\ UNCHANGED lost
         \/ node' = NoNode /\ UNCHANGED alive /\ lost' = lost \cup {task[t].on}
         \/ UNCHANGED <<node, lost>> /\ alive' = alive \ {task[t].on}
         \/ UNCHANGED <<node, alive, lost>>
  PROVE  [Shared!Next]_(Shared!vars)
<1>1. t \notin Tasks /\ task[t].on = node /\ node # NoNode
  BY IrohTransportAssumption DEF TransportInv, CloseInv
<1>2. Uses' = Uses
  BY <1>1, UsesMove
<1>3. CASE UNCHANGED <<node, alive, lost>>
  BY <1>2, <1>3 DEF Shared!vars
<1>4. CASE ~ UNCHANGED <<node, alive, lost>>
  <2>1. Shared!Shut
    BY <1>1, <1>2, <1>4 DEF Shared!Shut
  <2>2. QED
    BY <2>1 DEF Shared!Next
<1>5. QED
  BY <1>3, <1>4

(* The transport begins without a node, and so do its users. *)
LEMMA SharedInit == Init => Shared!Init
<1>1. SUFFICES ASSUME Init PROVE Shared!Init
  OBVIOUS
<1>2. 1 .. started = {}
  BY <1>1 DEF Init
<1>3. Uses = [t \in Tasks |-> NoNode]
  BY <1>1 DEF Init, Uses, AllTasks
<1>4. QED
  BY <1>1, <1>2, <1>3 DEF Init, Shared!Init

(* Every step is one of SharedNode, or changes nothing that it shows. *)
LEMMA SharedStep == TransportInv /\ [Next]_vars => [Shared!Next]_(Shared!vars)
<1> SUFFICES ASSUME TransportInv, [Next]_vars
             PROVE  [Shared!Next]_(Shared!vars)
  OBVIOUS
<1>0. /\ task \in [AllTasks -> Task] /\ node \in Nodes \cup {NoNode}
      /\ alive \subseteq Nodes /\ NoNode \notin Nodes
  BY IrohTransportAssumption DEF TransportInv, TypeOK, Nodes
<1>00. task[Closer].pc \in {"idle", "stop"}
  BY DEF TransportInv, CloseInv
<1>1. ASSUME NEW t \in AllTasks, Call(t) PROVE [Shared!Next]_(Shared!vars)
  <2>1. Moves(t, "acquire", task[t].on)
    BY <1>0, <1>1, CallMoves
  <2>2. QED
    BY <1>1, <2>1, LeaveMove DEF Call, PCs
<1>2. ASSUME NEW t \in AllTasks, Close(t) PROVE [Shared!Next]_(Shared!vars)
  <2>1. Moves(t, "stop", node)
    BY <1>0, <1>2, CloseMoves
  <2>2. QED
    BY <1>2, <2>1, LeaveMove DEF Close, PCs
<1>3. ASSUME NEW t \in AllTasks, FindNode(t)
      PROVE  [Shared!Next]_(Shared!vars)
  <2>1. node \in Nodes /\ t \in Tasks
    BY <1>0, <1>00, <1>3 DEF FindNode, AllTasks
  <2>2. CASE Moves(t, "idle", NoNode) \/ Moves(t, "poll", NoNode)
    BY <1>3, <2>2, LeaveMove DEF FindNode, PCs
  <2>3. CASE Moves(t, "connect", node)
    <3>1. Shared!Use(t)
      BY <1>0, <1>3, <2>1, <2>3, UsesMove, UsesNone
      DEF FindNode, nodeVars, Shared!Use, Shared!Given
    <3>2. QED
      BY <2>1, <3>1 DEF Shared!Next
  <2>4. QED
    BY <1>0, <1>3, <2>1, <2>2, <2>3, EnsuredMoves DEF FindNode
<1>4. ASSUME NEW t \in AllTasks, StartNode(t)
      PROVE  [Shared!Next]_(Shared!vars)
  <2>1. Moves(t, "start", NoNode)
    BY <1>0, <1>4, GoesMoves DEF StartNode, PCs
  <2>2. QED
    BY <1>4, <2>1, LeaveMove DEF StartNode, PCs
<1>5. ASSUME NEW t \in AllTasks, NodeStarts(t)
      PROVE  [Shared!Next]_(Shared!vars)
  <2>1. started' \in Nodes /\ Shared!Starts(started')
    BY <1>5, NextNode DEF NodeStarts, Shared!Starts
  <2>2. t \in Tasks /\ node = NoNode
    BY <1>5, IrohTransportAssumption
    DEF NodeStarts, TransportInv, LockInv, CloseInv, AllTasks
  <2>3. Shared!Given(t, started') \/ UNCHANGED Uses
    BY <1>0, <1>5, <2>1, <2>2, EnsuredMoves, UsesMove, UsesNone
    DEF NodeStarts, Shared!Given
  <2>4. Shared!Create(t)
    BY <1>5, <2>1, <2>2, <2>3 DEF NodeStarts, Shared!Create
  <2>5. QED
    BY <2>2, <2>4 DEF Shared!Next
<1>6. ASSUME NEW t \in AllTasks, StartFails(t)
      PROVE  [Shared!Next]_(Shared!vars)
  <2>1. Moves(t, "idle", NoNode)
    BY <1>0, <1>6, EndsMoves DEF StartFails
  <2>2. QED
    BY <1>6, <2>1, StrayMove DEF StartFails
<1>7. ASSUME NEW t \in AllTasks, Connect(t) \/ OpenBi(t)
      PROVE  [Shared!Next]_(Shared!vars)
  <2>1. t \in Tasks /\ UNCHANGED nodeVars
    BY <1>00, <1>7 DEF Connect, OpenBi, AllTasks
  <2>2. CASE Ends(t, "done") \/ Ends(t, "error")
    <3>1. Moves(t, "idle", NoNode)
      BY <1>0, <2>2, EndsMoves
    <3>2. QED
      BY <2>1, <3>1, LeaveMove DEF PCs
  <2>3. CASE /\ task[t].pc = "connect" /\ task[t].on \in alive
             /\ Goes(t, "open_bi", task[t].on)
    <3>1. task[t].on \in Nodes
      BY <1>0, <2>3
    <3>2. Moves(t, "open_bi", task[t].on)
      BY <1>0, <2>3, <3>1, GoesMoves DEF PCs
    <3>3. Uses[t] = task[t].on
      BY <2>1, <2>3 DEF Uses
    <3>4. Uses' = [Uses EXCEPT ![t] = Uses[t]]
      BY <2>1, <3>2, <3>3, UsesMove
    <3>5. Uses' = Uses
      BY <3>4 DEF Uses
    <3>6. QED
      BY <2>1, <3>5 DEF Shared!vars, nodeVars
  <2>4. QED
    BY <1>7, <2>2, <2>3 DEF Connect, OpenBi
<1>8. ASSUME NEW t \in AllTasks, PollTicket(t) \/ PollTimesOut(t)
      PROVE  [Shared!Next]_(Shared!vars)
  <2>1. Moves(t, "idle", NoNode)
    BY <1>0, <1>8, EndsMoves DEF PollTicket, PollTimesOut
  <2>2. QED
    BY <1>8, <2>1, LeaveMove DEF PollTicket, PollTimesOut, PCs
<1>9. ASSUME NEW t \in AllTasks, Stopped(t) PROVE [Shared!Next]_(Shared!vars)
  <2>1. Moves(t, "idle", NoNode)
    BY <1>0, <1>9, EndsMoves DEF Stopped
  <2>2. QED
    BY <1>9, <2>1, ShutMove DEF Stopped
<1>10. ASSUME NEW t \in AllTasks, Cancel(t) PROVE [Shared!Next]_(Shared!vars)
  <2>1. Moves(t, "idle", NoNode)
    BY <1>0, <1>10, EndsMoves DEF Cancel
  <2>2. CASE task[t].pc = "start"
    BY <1>10, <2>1, <2>2, StrayMove DEF Cancel
  <2>3. CASE task[t].pc = "stop"
    BY <1>10, <2>1, <2>3, ShutMove DEF Cancel
  <2>4. CASE task[t].pc \notin {"start", "stop"}
    BY <1>10, <2>1, <2>4, LeaveMove DEF Cancel, PCs, nodeVars
  <2>5. QED
    BY <2>2, <2>3, <2>4
<1>11. CASE UNCHANGED vars
  <2>1. Uses' = Uses
    BY <1>11 DEF vars, Uses
  <2>2. QED
    BY <1>11, <2>1 DEF vars, Shared!vars
<1>12. QED
  BY <1>1, <1>2, <1>3, <1>4, <1>5, <1>6, <1>7, <1>8, <1>9, <1>10, <1>11
     DEF Next, Runs

(* Whatever tasks race, fail and are cancelled, they share one node as if it
   was found or made in one step. *)
THEOREM OneNodeForAll == Spec => SharesOneNode
<1>1. Spec => Shared!Spec
  BY SharedInit, SharedStep, Invariance, PTL DEF Spec, Shared!Spec
<1>2. QED
  BY <1>1 DEF SharesOneNode

==============================================================================
