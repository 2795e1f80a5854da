------------------------------ MODULE SharedNode ------------------------------
(***************************************************************************)
(* What an iroh transport promises the tasks that use it, without its lock *)
(* and its awaits: one node, made for whoever asks first and given to      *)
(* everybody who asks while it is there.  Who was given a node keeps that  *)
(* one, though it may be let go of in the meantime; a node that was let go *)
(* of never comes back.                                                    *)
(***************************************************************************)

CONSTANTS Users, Nodes, NoNode

VARIABLES
  node,           \* the node there is, or NoNode
  born,           \* the nodes that ever started
  alive,          \* those that run
  lost,           \* those that may run and nobody can shut down
  uses            \* the node each user was given, or NoNode

vars == <<node, born, alive, lost, uses>>

Init ==
  /\ node = NoNode
  /\ born = {} /\ alive = {} /\ lost = {}
  /\ uses = [u \in Users |-> NoNode]

Given(u, n) == uses[u] = NoNode /\ uses' = [uses EXCEPT ![u] = n]

Use(u) ==
  /\ node # NoNode
  /\ Given(u, node)
  /\ UNCHANGED <<node, born, alive, lost>>

Starts(n) == n \notin born /\ born' = born \cup {n} /\ alive' = alive \cup {n}

\* The user for whom the node is made may be given it, or only want it there.
Create(u) ==
  /\ node = NoNode
  /\ \E n \in Nodes : Starts(n) /\ node' = n /\ (Given(u, n) \/ UNCHANGED uses)
  /\ UNCHANGED lost

\* The making of a node is given up, though it has started.
Stray ==
  /\ node = NoNode
  /\ \E n \in Nodes : Starts(n) /\ lost' = lost \cup {n}
  /\ UNCHANGED <<node, uses>>

Leave(u) ==
  /\ uses' = [uses EXCEPT ![u] = NoNode]
  /\ UNCHANGED <<node, born, alive, lost>>

\* The node is shut down, or its shutdown fails, or it is given up half way.
Shut ==
  /\ node # NoNode
  /\ \/ node' = NoNode /\ alive' = alive \ {node} /\ UNCHANGED lost
     \/ node' = NoNode /\ lost' = lost \cup {node} /\ UNCHANGED alive
     \/ alive' = alive \ {node} /\ UNCHANGED <<node, lost>>
  /\ UNCHANGED <<born, uses>>

Next ==
  \/ Stray \/ Shut
  \/ \E u \in Users : Use(u) \/ Create(u) \/ Leave(u)

Spec == Init /\ [][Next]_vars

==============================================================================
