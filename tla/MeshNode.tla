------------------------------ MODULE MeshNode ------------------------------
(***************************************************************************)
(* node.mesh_run_forever and mesh_print_ticket: the nodes of a mesh, the   *)
(* order in which each starts its services and dials its bootstrap peers,  *)
(* and the connections between them.  Nodes start, stop and crash at any   *)
(* moment; a connection may be lost and a dial may fail.  A node that went *)
(* down is still connected in the view of the others until they notice.    *)
(***************************************************************************)
EXTENDS Naturals, Sequences

CONSTANTS
  Peers,          \* PeerIds, one node each
  Bootstrap       \* cfg.bootstrap of each: a sequence of peers

ASSUME MeshNodeAssumption == Bootstrap \in [Peers -> Seq(Peers)]

VARIABLES
  stage,          \* how far each node has come in mesh_run_forever
  next,           \* position in the loop of connect_to_bootstrap_peers
  conns,          \* libp2p connections, as <<who dialled, whom>>
  stale,          \* <<p, q>>: p still holds one to a q that has gone down
  faults,         \* history: pairs that the network kept apart
  early           \* history: gossip streams handled before the Pubsub manager

vars == <<stage, next, conns, stale, faults, early>>

\* The services that run: host.run is being entered, it was and the dht comes
\* up, the dht runs, ... "ticket" is a print-ticket with the node's key.
Unmanaged == {"listening", "dht"}
Managed   == {"pubsub", "gossipsub", "up"}
Serving   == Unmanaged \cup Managed \cup {"closing"}
Stages    == Serving \cup {"off", "ticket"}

TypeOK ==
  /\ stage \in [Peers -> Stages]
  /\ next \in [Peers -> Nat]
  /\ \A p \in Peers : next[p] \in 1 .. Len(Bootstrap[p]) + 1
  /\ conns \in SUBSET (Peers \X Peers)
  /\ \A c \in conns : stage[c[1]] \in Serving /\ stage[c[2]] \in Serving
  /\ stale \in SUBSET (Peers \X Peers)
  /\ \A c \in stale : stage[c[1]] \in Serving
  /\ faults \in SUBSET (SUBSET Peers)
  /\ early \in SUBSET (Peers \X Peers)

Init ==
  /\ stage = [p \in Peers |-> "off"]
  /\ next = [p \in Peers |-> 1]
  /\ conns = {}
  /\ stale = {}
  /\ faults = {}
  /\ early = {}

Connected(p, q) == <<p, q>> \in conns \/ <<q, p>> \in conns

\* What p's swarm holds: a connection that may have no other end.
Holds(p, q) == Connected(p, q) \/ <<p, q>> \in stale

------------------------------------------------------------------------------
(* mesh_run_forever, up to the bootstrap                                   *)

\* Everything that is registered with the host is registered before host.run;
\* there is no await in between.
Start(p) ==
  /\ stage[p] = "off"
  /\ stage' = [stage EXCEPT ![p] = "listening"]
  /\ next' = [next EXCEPT ![p] = 1]
  /\ UNCHANGED <<conns, stale, faults, early>>

Enter(p, from, to) ==
  /\ stage[p] = from
  /\ stage' = [stage EXCEPT ![p] = to]
  /\ UNCHANGED <<next, conns, stale, faults, early>>

\* host.run is entered: the iroh node runs.
Listens(p) == Enter(p, "listening", "dht")

\* background_trio_service of the dht and of pubsub.
StartPubsub(p) == Enter(p, "dht", "pubsub")

------------------------------------------------------------------------------
(* connect_to_bootstrap_peers                                              *)

\* Mutant: the bootstrap peers are dialled before host.run.
DiallingFirst(p) ==
  stage[p] = "listening" /\ next[p] <= Len(Bootstrap[p])

\* Mutant: they are dialled before pubsub is started.
DiallingUnmanaged(p) ==
  stage[p] = "dht" /\ next[p] <= Len(Bootstrap[p])

Dialling(p) == stage[p] = "pubsub" /\ next[p] <= Len(Bootstrap[p])

Target(p) == Bootstrap[p][next[p]]

Tried(p) == next' = [next EXCEPT ![p] = @ + 1]

\* Mutant: a connection is taken without a libp2p handler.
AcceptsAlways(q) == stage[q] # "off"

\* A connection to a node that listens (or is about to, or still does) is
\* taken; print-ticket has no libp2p handler and closes it.
Accepts(q) == stage[q] \in Serving

DialSucceeds(p) ==
  /\ Dialling(p)
  /\ Target(p) # p
  /\ Accepts(Target(p))
  /\ ~Holds(p, Target(p))
  /\ conns' = conns \cup {<<p, Target(p)>>}
  /\ Tried(p)
  /\ UNCHANGED <<stage, stale, faults, early>>

\* host.connect returns at once, also when nobody is at the other end.
AlreadyConnected(p) ==
  /\ Dialling(p)
  /\ Holds(p, Target(p))
  /\ Tried(p)
  /\ UNCHANGED <<stage, conns, stale, faults, early>>

\* Mutant: a peer that cannot be reached is dialled again.
DialUntilConnected(p) ==
  /\ Dialling(p)
  /\ ~Holds(p, Target(p))
  /\ UNCHANGED vars

\* The failure is logged.  It is the network's when the target runs: it is past
\* host.run, or was reached before in its present life.
DialFails(p) ==
  /\ Dialling(p)
  /\ ~Holds(p, Target(p))
  /\ faults' = IF \/ stage[Target(p)] \in Managed \cup {"dht"}
                  \/ <<Target(p), p>> \in stale
                 THEN faults \cup {{p, Target(p)}} ELSE faults
  /\ Tried(p)
  /\ UNCHANGED <<stage, conns, stale, early>>

------------------------------------------------------------------------------
(* mesh_run_forever, after the bootstrap                                   *)

StartGossipsub(p) ==
  /\ next[p] > Len(Bootstrap[p])
  /\ Enter(p, "pubsub", "gossipsub")

\* wait_until_ready and subscribe: "meshdevices node up".
Subscribe(p) == Enter(p, "gossipsub", "up")

\* Ctrl-C, or an exception in a service: the services end, in reverse.
Stop(p) == \E s \in Serving \ {"closing"} : Enter(p, s, "closing")

\* The process ends: after closing, or because it is killed.  Those it was
\* connected to keep their ends.
Down(p) ==
  /\ stage[p] \in Serving
  /\ stage' = [stage EXCEPT ![p] = "off"]
  /\ next' = [next EXCEPT ![p] = 1]
  /\ conns' = {c \in conns : c[1] # p /\ c[2] # p}
  /\ stale' = {c \in stale : c[1] # p}
                \cup {<<q, p>> : q \in {q \in Peers \ {p} : Connected(p, q)}}
  /\ faults' = {f \in faults : p \notin f}
  /\ UNCHANGED early

(* mesh_print_ticket                                                       *)

PrintTicket(p) == Enter(p, "off", "ticket")

TicketPrinted(p) == Enter(p, "ticket", "off")

------------------------------------------------------------------------------
(* The network and the other end                                           *)

\* A connection between two that go on: a fault of the pair, so that nothing is
\* claimed of it and both ends may go at once.
Lose(c) ==
  /\ c \in conns
  /\ conns' = conns \ {c}
  /\ faults' = faults \cup {{c[1], c[2]}}
  /\ UNCHANGED <<stage, next, stale, early>>

\* QUIC finds out that the other end has gone, at any later time.
Notice(c) ==
  /\ c \in stale
  /\ stale' = stale \ {c}
  /\ UNCHANGED <<stage, next, conns, faults, early>>

\* Pubsub opens a gossip stream to the peer of a connection, at one of its ends
\* (from).  The other end has the protocol's handler from Start on, and only
\* what happens without a manager is recorded.
GossipStream(c, from, at) ==
  /\ c \in conns
  /\ \/ from = c[1] /\ at = c[2]
     \/ from = c[2] /\ at = c[1]
  /\ stage[from] \in Managed
  /\ stage[at] \in Unmanaged
  /\ early' = early \cup {<<c[1], at>>}
  /\ UNCHANGED <<stage, next, conns, stale, faults>>

------------------------------------------------------------------------------

Starts(p) ==
  \/ Listens(p) \/ StartPubsub(p)
  \/ DialSucceeds(p) \/ AlreadyConnected(p) \/ DialFails(p)
  \/ StartGossipsub(p) \/ Subscribe(p)

Next ==
  \/ \E p \in Peers : \/ Start(p) \/ Starts(p) \/ Stop(p) \/ Down(p)
                      \/ PrintTicket(p) \/ TicketPrinted(p)
  \/ \E c \in stale : Notice(c)
  \/ \E c \in conns : Lose(c) \/ \E p, q \in Peers : GossipStream(c, p, q)

Spec == Init /\ [][Next]_vars

\* The services of py-libp2p start, and a dial ends one way or another.
FairSpec == Spec /\ \A p \in Peers : WF_vars(Starts(p))

------------------------------------------------------------------------------

\* Two nodes that have each other as bootstrap peers are connected once both
\* are up, in whatever order they were started and restarted and although each
\* tries only once, unless the network failed between them: each listens
\* before it dials.  A node that takes a dead connection for a living one and
\* does not dial is dialled by the other, which has restarted.
MutualPeersMeet ==
  \A p, q \in Peers :
    /\ stage[p] = "up" /\ stage[q] = "up" /\ p # q
    /\ \E i \in 1 .. Len(Bootstrap[p]) : Bootstrap[p][i] = q
    /\ \E i \in 1 .. Len(Bootstrap[q]) : Bootstrap[q][i] = p
    => Connected(p, q) \/ {p, q} \in faults

\* A gossip stream that comes back over a connection which the node dialled
\* finds a Pubsub with a manager.
OwnDialsManaged == \A e \in early : e[1] # e[2]

\* A node comes up although its bootstrap peers cannot be reached.
ComesUp ==
  \A p \in Peers :
    stage[p] = "listening" ~> stage[p] \in {"up", "closing", "off"}

\* No gossip stream is handled before the Pubsub has a manager.  (Connections
\* are taken from host.run on.)
GossipManaged == early = {}

(***************************************************************************)
(* The inductive invariant.                                                *)
(***************************************************************************)

\* In its present life p has dialled q.
Dialled(p, q) ==
  /\ stage[p] \in Managed
  /\ \E i \in 1 .. Len(Bootstrap[p]) : i < next[p] /\ Bootstrap[p][i] = q

\* Who dials has a manager, and nobody dials before.
DialInv ==
  /\ \A c \in conns : stage[c[1]] \in Managed \cup {"closing"}
  /\ \A p \in Peers :
       /\ stage[p] \in Unmanaged => next[p] = 1
       /\ stage[p] \in {"gossipsub", "up"} => next[p] = Len(Bootstrap[p]) + 1

\* The later of two mutual dials finds the other node listening.
MeetInv ==
  \A p, q \in Peers :
    p # q /\ Dialled(p, q) /\ Dialled(q, p)
    => Connected(p, q) \/ {p, q} \in faults

\* Who is held by a peer it has lost is the one that went down, and its dial in
\* the present life finds that peer listening.
StaleInv ==
  \A p, q \in Peers :
    <<p, q>> \in stale =>
      /\ <<q, p>> \notin stale
      /\ Dialled(q, p) => Connected(p, q) \/ {p, q} \in faults

MeshInv == TypeOK /\ DialInv /\ MeetInv /\ StaleInv /\ OwnDialsManaged

==============================================================================
