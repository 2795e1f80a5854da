---------------------------- MODULE IrohTransport ----------------------------
(***************************************************************************)
(* transport/iroh_transport.py: the one iroh node behind a libp2p host and *)
(* the trio tasks that use it: listen, dial, the ticket poll and the close *)
(* of the listener.  Tasks interleave where the code awaits, and each of   *)
(* them may be cancelled there.  _iroh, _node and _endpoint are set and    *)
(* cleared together, without an await in between: they are one variable.   *)
(***************************************************************************)
EXTENDS Naturals, FiniteSets

CONSTANTS
  Tasks,          \* trio tasks that listen, dial or ask for the ticket
  Closer,         \* the task that closes the listener
  NoTask,         \* an unlocked _node_lock
  NoNode,         \* the value None of _node and _endpoint
  Peers,          \* PeerIds that are dialled
  Embedded,       \* those that embed their public key (Ed25519)
  Ticketed,       \* those with a NodeTicket in peer_tickets
  MaxNodes        \* bound on the iroh nodes that are started

ASSUME IrohTransportAssumption ==
  /\ NoTask \notin Tasks \cup {Closer}
  /\ Closer \notin Tasks
  /\ NoNode \notin Nat
  /\ Embedded \subseteq Peers
  /\ Ticketed \subseteq Peers
  /\ MaxNodes \in Nat

VARIABLES
  node,           \* transport._node (and _endpoint, and _iroh)
  lock,           \* holder of transport._node_lock
  task,           \* what each task is doing
  started,        \* number of iroh nodes that came up
  alive,          \* the iroh nodes that run
  lost            \* those nobody can shut down: a cancelled or failed call

vars == <<node, lock, task, started, alive, lost>>

Nodes == 1 .. MaxNodes

PCs == {"idle", "acquire", "start", "connect", "open_bi", "poll", "stop"}

\* Here the code uses an endpoint or a node that must not be None.
UsesNode == {"connect", "open_bi", "stop"}

\* op: what the task was called for; peer: whom it dials; on: the endpoint a
\* dial uses, the node a close shuts down; result: how its last call ended.
Task ==
  [pc     : PCs,
   op     : {"none", "listen", "dial", "ticket", "close"},
   peer   : Peers,
   on     : Nodes \cup {NoNode},
   result : {"none", "done", "error", "no_key"}]

AllTasks == Tasks \cup {Closer}

TypeOK ==
  /\ node \in Nodes \cup {NoNode}
  /\ lock \in Tasks \cup {NoTask}
  /\ task \in [AllTasks -> Task]
  /\ started \in 0 .. MaxNodes
  /\ alive \in SUBSET Nodes
  /\ lost \in SUBSET Nodes
  /\ \A t \in AllTasks : task[t].pc \in UsesNode => task[t].on \in Nodes

Init ==
  /\ node = NoNode
  /\ lock = NoTask
  /\ \E p \in Peers :
       task = [t \in AllTasks |-> [pc |-> "idle", op |-> "none", peer |-> p,
                                   on |-> NoNode, result |-> "none"]]
  /\ started = 0
  /\ alive = {}
  /\ lost = {}

nodeVars == <<node, started, alive, lost>>

Goes(t, l, n) == task' = [task EXCEPT ![t].pc = l, ![t].on = n]

\* The call returns or raises.
Ends(t, r) ==
  task' = [task EXCEPT ![t].pc = "idle", ![t].on = NoNode, ![t].result = r]

------------------------------------------------------------------------------
(* _ensure_node                                                            *)

\* listen, dial and get_node_ticket_string begin with _ensure_node.
Call(t) ==
  /\ t \in Tasks
  /\ task[t].pc = "idle"
  /\ \E o \in {"listen", "dial", "ticket"}, p \in Peers :
       task' = [task EXCEPT ![t].pc = "acquire", ![t].op = o, ![t].peer = p,
                            ![t].result = "none"]
  /\ UNCHANGED <<lock, nodeVars>>

\* What follows _ensure_node without an await, with the endpoint n: a dial
\* maps the PeerId to a key before it looks for a ticket, and a ticket that
\* cannot be parsed raises.
Ensured(t, n) ==
  \/ task[t].op = "listen" /\ Ends(t, "done")
  \/ task[t].op = "ticket" /\ Goes(t, "poll", NoNode)
  \/ /\ task[t].op = "dial"
     /\ \/ task[t].peer \notin Embedded /\ Ends(t, "no_key")
        \/ task[t].peer \in Embedded /\ Goes(t, "connect", n)
        \/ task[t].peer \in Embedded \cap Ticketed /\ Ends(t, "error")

\* Mutant: an endpoint that is None is not noticed.
FindNone(t) ==
  /\ task[t].pc = "acquire"
  /\ lock = NoTask
  /\ Ensured(t, node)
  /\ UNCHANGED <<lock, nodeVars>>

\* The lock is free and there is a node: the lock is released at once.
FindNode(t) ==
  /\ task[t].pc = "acquire"
  /\ lock = NoTask
  /\ node # NoNode
  /\ Ensured(t, node)
  /\ UNCHANGED <<lock, nodeVars>>

\* Mutant: the endpoint is tested before the lock is taken, and not again.
StartUnlocked(t) ==
  /\ task[t].pc = "acquire"
  /\ node = NoNode
  /\ lock' = t
  /\ Goes(t, "start", NoNode)
  /\ UNCHANGED nodeVars

\* The lock is free and there is no node: memory_with_options is awaited.
StartNode(t) ==
  /\ task[t].pc = "acquire"
  /\ lock = NoTask
  /\ node = NoNode
  /\ lock' = t
  /\ Goes(t, "start", NoNode)
  /\ UNCHANGED nodeVars

NodeStarts(t) ==
  /\ task[t].pc = "start"
  /\ started < MaxNodes
  /\ started' = started + 1
  /\ node' = started'
  /\ alive' = alive \cup {started'}
  /\ lock' = NoTask
  /\ Ensured(t, started')
  /\ UNCHANGED lost

\* A call that does not return may have started a node all the same.
MayLoseStarted ==
  \/ UNCHANGED <<started, alive, lost>>
  \/ /\ started < MaxNodes
     /\ started' = started + 1
     /\ alive' = alive \cup {started'}
     /\ lost' = lost \cup {started'}

\* Mutant: the lock is not released when memory_with_options raises.
StartFailsLocked(t) ==
  /\ task[t].pc = "start"
  /\ Ends(t, "error")
  /\ MayLoseStarted
  /\ UNCHANGED <<node, lock>>

StartFails(t) ==
  /\ task[t].pc = "start"
  /\ lock' = NoTask
  /\ Ends(t, "error")
  /\ MayLoseStarted
  /\ UNCHANGED node

------------------------------------------------------------------------------
(* dial, after the choice of the address                                   *)

\* Mutant: the transport's endpoint is read again after the await.
ConnectReads(t) ==
  /\ task[t].pc = "connect"
  /\ \/ task[t].on \in alive /\ Goes(t, "open_bi", node)
     \/ Ends(t, "error")
  /\ UNCHANGED <<lock, nodeVars>>

\* endpoint.connect, which only a running node can answer.
Connect(t) ==
  /\ task[t].pc = "connect"
  /\ \/ task[t].on \in alive /\ Goes(t, "open_bi", task[t].on)
     \/ Ends(t, "error")
  /\ UNCHANGED <<lock, nodeVars>>

OpenBi(t) ==
  /\ task[t].pc = "open_bi"
  /\ \/ task[t].on \in alive /\ Ends(t, "done")
     \/ Ends(t, "error")
  /\ UNCHANGED <<lock, nodeVars>>

(* get_node_ticket_string, after _ensure_node                              *)

\* Each turn reads transport._node anew; an exception (it may be None by now,
\* or shut down) is kept and the poll goes on.
PollTicket(t) ==
  /\ task[t].pc = "poll"
  /\ node \in alive
  /\ Ends(t, "done")
  /\ UNCHANGED <<lock, nodeVars>>

PollTimesOut(t) ==
  /\ task[t].pc = "poll"
  /\ Ends(t, "error")
  /\ UNCHANGED <<lock, nodeVars>>

------------------------------------------------------------------------------
(* IrohListener.close, which does not take the lock                        *)

\* Mutant: the node is forgotten before its shutdown is awaited.
CloseForgets(t) ==
  /\ t = Closer
  /\ task[t].pc = "idle"
  /\ node # NoNode
  /\ task' = [task EXCEPT ![t].pc = "stop", ![t].op = "close", ![t].on = node]
  /\ node' = NoNode
  /\ UNCHANGED <<lock, started, alive, lost>>

Close(t) ==
  /\ t = Closer
  /\ task[t].pc = "idle"
  /\ node # NoNode
  /\ task' = [task EXCEPT ![t].pc = "stop", ![t].op = "close", ![t].on = node]
  /\ UNCHANGED <<lock, nodeVars>>

\* shutdown returned, or raised (logged): the attributes are cleared.
Stopped(t) ==
  /\ task[t].pc = "stop"
  /\ \/ alive' = alive \ {task[t].on} /\ UNCHANGED lost
     \/ UNCHANGED alive /\ lost' = lost \cup {task[t].on}
  /\ node' = NoNode
  /\ Ends(t, "done")
  /\ UNCHANGED <<lock, started>>

------------------------------------------------------------------------------

\* A task that holds the lock releases it, a shutdown may have gone through.
Cancel(t) ==
  /\ task[t].pc # "idle"
  /\ Ends(t, "error")
  /\ lock' = IF lock = t THEN NoTask ELSE lock
  /\ IF task[t].pc = "start"
       THEN MayLoseStarted
       ELSE /\ \/ UNCHANGED alive
               \/ task[t].pc = "stop" /\ alive' = alive \ {task[t].on}
            /\ UNCHANGED <<started, lost>>
  /\ UNCHANGED node

Runs(t) ==
  \/ FindNode(t) \/ StartNode(t) \/ NodeStarts(t) \/ StartFails(t)
  \/ Connect(t) \/ OpenBi(t) \/ PollTicket(t) \/ PollTimesOut(t)
  \/ Stopped(t)

Next == \E t \in AllTasks : Call(t) \/ Close(t) \/ Runs(t) \/ Cancel(t)

Spec == Init /\ [][Next]_vars

\* iroh's calls return or raise, the deadline of the poll passes, and
\* trio.Lock is granted in the order in which it was asked for.
Fairness ==
  \A t \in AllTasks :
    /\ WF_vars(NodeStarts(t) \/ StartFails(t) \/ Connect(t) \/ OpenBi(t))
    /\ WF_vars(PollTimesOut(t) \/ Stopped(t))
    /\ SF_vars(FindNode(t) \/ StartNode(t))

FairSpec == Spec /\ Fairness

------------------------------------------------------------------------------

\* Every node that runs is the one the transport holds, and so can be shut
\* down, or was lost in a call that was cancelled or failed: the races of
\* listen, dial, ticket and close leave no second node behind.
NoOrphans == alive \subseteq {node} \cup lost

\* A node in use is never replaced by another one: the transport first lets
\* go of it in close().
NodeKept == [][node # NoNode => node' \in {node, NoNode}]_vars

\* The endpoint a dial goes on with.
Uses ==
  [t \in Tasks |->
     IF task[t].pc \in {"connect", "open_bi"} THEN task[t].on ELSE NoNode]

Shared ==
  INSTANCE SharedNode WITH Users <- Tasks, born <- 1 .. started, uses <- Uses

\* To those who listen and dial, finding the node or making it is one step,
\* although it awaits iroh with a lock that close() does not take; a dial goes
\* on with the endpoint it was given, whatever becomes of the node meanwhile.
SharesOneNode == Shared!Spec

\* Every call comes to an end, the ticket poll on a closed transport included.
CallsEnd ==
  \A t \in AllTasks : task[t].pc # "idle" ~> task[t].pc = "idle"

\* A peer with a NodeTicket can be dialled without a key in its PeerId, as the
\* message of identity.py says.  (dial maps the PeerId before it looks for the
\* ticket.)
TicketSuffices ==
  \A t \in AllTasks : task[t].result = "no_key" => task[t].peer \notin Ticketed

(***************************************************************************)
(* The inductive invariant.                                                *)
(***************************************************************************)

\* The lock is held exactly by the task that starts a node, and there is no
\* node while one is started.
LockInv ==
  /\ \A t \in AllTasks : task[t].pc = "start" <=> lock = t
  /\ lock # NoTask => node = NoNode

\* The closer only closes, and a close that is under way shuts down the node
\* the transport holds.
CloseInv ==
  /\ task[Closer].pc \in {"idle", "stop"}
  /\ \A t \in AllTasks :
       task[t].pc = "stop" => t = Closer /\ task[t].on = node /\ node # NoNode

TransportInv == TypeOK /\ LockInv /\ CloseInv /\ NoOrphans

==============================================================================
