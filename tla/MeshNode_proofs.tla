--------------------------- MODULE MeshNode_proofs ---------------------------
(***************************************************************************)
(* For any set of nodes and any bootstrap lists: types, the meeting of two *)
(* nodes that list each other, and the manager behind a node's own dials.  *)
(***************************************************************************)
EXTENDS MeshNode, TLAPS

(* The target of a dial is a peer, and the loop has a next position. *)
LEMMA DiallingTarget ==
  ASSUME TypeOK, NEW p \in Peers, Dialling(p)
  PROVE  /\ next[p] \in 1 .. Len(Bootstrap[p])
         /\ Target(p) \in Peers
         /\ next[p] + 1 \in 1 .. Len(Bootstrap[p]) + 1
  BY MeshNodeAssumption DEF TypeOK, Dialling, Target

(* A step that only moves p to another stage, without going back to an
   earlier one of the same life. *)
LEMMA EnterStep ==
  ASSUME MeshInv, NEW p \in Peers, NEW from \in Stages, NEW to \in Stages,
         Enter(p, from, to),
         \/ from \notin Serving /\ to \notin Serving
         \/ from \in Serving \ {"closing"} /\ to = "closing"
         \/ from = "listening" /\ to = "dht"
         \/ from = "dht" /\ to = "pubsub"
         \/ from = "pubsub" /\ to = "gossipsub" /\ next[p] > Len(Bootstrap[p])
         \/ from = "gossipsub" /\ to = "up"
  PROVE  MeshInv'
<1> USE MeshNodeAssumption
    DEF MeshInv, Enter, Serving, Managed, Unmanaged, Stages
<1>1. TypeOK'
  BY DEF TypeOK
<1>2. DialInv'
  BY DEF TypeOK, DialInv
<1>3. MeetInv'
  <2>1. \A a, b \in Peers : Dialled(a, b)' => Dialled(a, b)
    BY DEF TypeOK, DialInv, Dialled
  <2>2. QED
    BY <2>1 DEF MeetInv, Connected
<1>4. StaleInv'
  <2>1. \A a, b \in Peers : Dialled(a, b)' => Dialled(a, b)
    BY DEF TypeOK, DialInv, Dialled
  <2>2. QED
    BY <2>1 DEF StaleInv, Connected
<1>5. OwnDialsManaged'
  BY DEF OwnDialsManaged
<1>6. QED
  BY <1>1, <1>2, <1>3, <1>4, <1>5

(* A dial that is over: afterwards the pair is connected, or the network
   failed, or the target did not run yet, or not any more, or the dialler holds
   a connection to one of the target's former lives. *)
LEMMA DialStep ==
  ASSUME MeshInv, NEW p \in Peers,
         DialSucceeds(p) \/ AlreadyConnected(p) \/ DialFails(p)
  PROVE  MeshInv'
<1>1. /\ Dialling(p) /\ stage[p] = "pubsub" /\ UNCHANGED <<stage, stale, early>>
      /\ next' = [next EXCEPT ![p] = next[p] + 1]
  BY DEF DialSucceeds, AlreadyConnected, DialFails, Tried, Dialling
<1>0. PICK t \in Peers : t = Target(p)
  BY <1>1, DiallingTarget DEF MeshInv
<1>2. /\ next[p] \in 1 .. Len(Bootstrap[p])
      /\ next[p] + 1 \in 1 .. Len(Bootstrap[p]) + 1
      /\ t = Bootstrap[p][next[p]]
  BY <1>0, <1>1, DiallingTarget DEF MeshInv, Target
<1>3. /\ conns \subseteq conns' /\ conns' \subseteq conns \cup {<<p, t>>}
      /\ faults \subseteq faults' /\ faults' \subseteq faults \cup {{p, t}}
      /\ stage[t] \in Managed \/ <<t, p>> \in stale =>
           Connected(p, t)' \/ {p, t} \in faults' \/ <<p, t>> \in stale
      /\ \A c \in conns' : c \notin conns => stage[t] \in Serving
  <2>1. CASE DialSucceeds(p)
    BY <1>0, <2>1 DEF DialSucceeds, Holds, Connected, Accepts
  <2>2. CASE AlreadyConnected(p)
    BY <1>0, <2>2 DEF AlreadyConnected, Holds, Connected
  <2>3. CASE DialFails(p)
    BY <1>0, <2>3 DEF DialFails
  <2>4. QED
    BY <2>1, <2>2, <2>3
<1>4. TypeOK'
  <2>1. next' \in [Peers -> Nat]
        /\ \A a \in Peers : next'[a] \in 1 .. Len(Bootstrap[a]) + 1
    BY <1>1, <1>2 DEF MeshInv, TypeOK
  <2>2. conns' \in SUBSET (Peers \X Peers)
    BY <1>2, <1>3 DEF MeshInv, TypeOK
  <2>3. \A c \in conns' : stage[c[1]] \in Serving /\ stage[c[2]] \in Serving
    BY <1>1, <1>3 DEF MeshInv, TypeOK, Serving, Managed
  <2>4. faults' \in SUBSET (SUBSET Peers)
    BY <1>2, <1>3 DEF MeshInv, TypeOK
  <2>5. QED
    BY <1>1, <2>1, <2>2, <2>3, <2>4 DEF MeshInv, TypeOK
<1>5. DialInv'
  BY <1>1, <1>3 DEF MeshInv, TypeOK, DialInv, Unmanaged, Managed
<1>6. \A x, y \in Peers : Dialled(x, y)' => Dialled(x, y) \/ (x = p /\ y = t)
  <2> SUFFICES ASSUME NEW x \in Peers, NEW y \in Peers, Dialled(x, y)'
               PROVE  Dialled(x, y) \/ (x = p /\ y = t)
    OBVIOUS
  <2>1. PICK i \in 1 .. Len(Bootstrap[x]) : i < next'[x] /\ Bootstrap[x][i] = y
    BY DEF Dialled
  <2>2. stage[x] \in Managed
    BY <1>1 DEF Dialled
  <2>3. CASE i < next[x]
    BY <2>1, <2>2, <2>3 DEF Dialled
  <2>4. CASE ~(i < next[x])
    <3>1. x = p
      BY <1>1, <2>1, <2>4 DEF MeshInv, TypeOK
    <3>2. i \in Nat /\ next[p] \in Nat /\ next'[p] = next[p] + 1
      BY <1>1, <1>2, <2>1, <3>1 DEF MeshInv, TypeOK
    <3>3. i = next[p]
      BY <2>1, <2>4, <3>1, <3>2
    <3>4. QED
      BY <1>2, <2>1, <3>1, <3>3
  <2>5. QED
    BY <2>3, <2>4
<1>7. /\ \A x, y \in Peers : {x, y} = {y, x}
      /\ \A x, y \in Peers : Connected(x, y) => Connected(x, y)'
      /\ \A x, y \in Peers : Connected(x, y)' <=> Connected(y, x)'
  BY <1>3 DEF Connected
<1>8. MeetInv'
  <2> SUFFICES ASSUME NEW a \in Peers, NEW b \in Peers, a # b,
                      Dialled(a, b)', Dialled(b, a)'
               PROVE  Connected(a, b)' \/ {a, b} \in faults'
    BY DEF MeetInv
  <2>1. CASE Dialled(a, b) /\ Dialled(b, a)
    BY <2>1, <1>3, <1>7 DEF MeshInv, MeetInv
  <2>2. CASE a = p /\ b = t
    <3>1. Dialled(t, p)
      BY <1>6, <2>2
    <3>2. Connected(p, t)' \/ {p, t} \in faults' \/ <<p, t>> \in stale
      BY <1>3, <3>1 DEF Dialled
    <3>3. <<p, t>> \in stale => Connected(p, t) \/ {p, t} \in faults
      BY <3>1 DEF MeshInv, StaleInv
    <3>4. QED
      BY <1>3, <1>7, <2>2, <3>2, <3>3
  <2>3. CASE b = p /\ a = t
    <3>1. Dialled(t, p)
      BY <1>6, <2>3
    <3>2. Connected(p, t)' \/ {p, t} \in faults' \/ <<p, t>> \in stale
      BY <1>3, <3>1 DEF Dialled
    <3>3. <<p, t>> \in stale => Connected(p, t) \/ {p, t} \in faults
      BY <3>1 DEF MeshInv, StaleInv
    <3>4. QED
      BY <1>3, <1>7, <2>3, <3>2, <3>3
  <2>4. QED
    BY <1>6, <2>1, <2>2, <2>3
<1>9. StaleInv'
  <2> SUFFICES ASSUME NEW a \in Peers, NEW b \in Peers, <<a, b>> \in stale
               PROVE  /\ <<b, a>> \notin stale
                      /\ Dialled(b, a)' => Connected(a, b)' \/ {a, b} \in faults'
    BY <1>1 DEF StaleInv
  <2>1. <<b, a>> \notin stale
    BY DEF MeshInv, StaleInv
  <2>2. CASE Dialled(b, a)
    BY <2>2, <1>3, <1>7 DEF MeshInv, StaleInv
  <2>3. CASE b = p /\ a = t
    BY <1>3, <1>7, <2>1, <2>3
  <2>4. QED
    BY <1>6, <2>1, <2>2, <2>3
<1>10. OwnDialsManaged'
  BY <1>1 DEF MeshInv, OwnDialsManaged
<1>11. QED
  BY <1>4, <1>5, <1>8, <1>9, <1>10 DEF MeshInv

(* A node that goes down takes its connections and its past with it. *)
LEMMA DownStep ==
  ASSUME MeshInv, NEW p \in Peers, Down(p)
  PROVE  MeshInv'
<1> USE MeshNodeAssumption DEF MeshInv, Down, Serving, Managed, Unmanaged, Stages
<1>1. TypeOK'
  <2>1. next' \in [Peers -> Nat]
        /\ \A a \in Peers : next'[a] \in 1 .. Len(Bootstrap[a]) + 1
    BY DEF TypeOK
  <2>2. \A c \in conns' : stage'[c[1]] \in Serving /\ stage'[c[2]] \in Serving
    BY DEF TypeOK
  <2>3. stale' \in SUBSET (Peers \X Peers)
    BY DEF TypeOK
  <2>4. \A c \in stale' : stage'[c[1]] \in Serving
    <3>1. \A q \in Peers \ {p} : Connected(p, q) => stage'[q] \in Serving
      BY DEF TypeOK, Connected
    <3>2. \A c \in stale : c[1] # p => stage'[c[1]] \in Serving
      BY DEF TypeOK
    <3>3. QED
      BY <3>1, <3>2
  <2>5. QED
    BY <2>1, <2>2, <2>3, <2>4 DEF TypeOK
<1>2. DialInv'
  BY DEF TypeOK, DialInv
<1>3. \A a, b \in Peers : Dialled(a, b)' => Dialled(a, b) /\ a # p
  BY DEF TypeOK, Dialled
<1>4. ASSUME NEW a \in Peers, NEW b \in Peers, a # p, b # p,
             Connected(a, b) \/ {a, b} \in faults
      PROVE  Connected(a, b)' \/ {a, b} \in faults'
  BY <1>4 DEF TypeOK, Connected
<1>5. MeetInv'
  <2> SUFFICES ASSUME NEW a \in Peers, NEW b \in Peers, a # b,
                      Dialled(a, b)', Dialled(b, a)'
               PROVE  Connected(a, b)' \/ {a, b} \in faults'
    BY DEF MeetInv
  <2>1. a # p /\ b # p /\ Dialled(a, b) /\ Dialled(b, a)
    BY <1>3
  <2>2. Connected(a, b) \/ {a, b} \in faults
    BY <2>1 DEF MeetInv
  <2>3. QED
    BY <1>4, <2>1, <2>2
<1>6. StaleInv'
  <2> SUFFICES ASSUME NEW a \in Peers, NEW b \in Peers, <<a, b>> \in stale'
               PROVE  /\ <<b, a>> \notin stale'
                      /\ Dialled(b, a)' => Connected(a, b)' \/ {a, b} \in faults'
    BY DEF StaleInv
  <2>1. a # p
    OBVIOUS
  <2>2. CASE b = p
    BY <1>3, <2>1, <2>2
  <2>3. CASE b # p
    <3>1. <<a, b>> \in stale
      BY <2>3
    <3>2. <<b, a>> \notin stale'
      BY <2>1, <3>1 DEF StaleInv
    <3>3. Dialled(b, a)' => Connected(a, b) \/ {a, b} \in faults
      BY <1>3, <3>1 DEF StaleInv
    <3>4. QED
      BY <1>4, <2>1, <2>3, <3>2, <3>3
  <2>4. QED
    BY <2>2, <2>3
<1>7. OwnDialsManaged'
  BY DEF OwnDialsManaged
<1>8. QED
  BY <1>1, <1>2, <1>5, <1>6, <1>7

(* A connection that is lost is the network's failure. *)
LEMMA LoseStep ==
  ASSUME MeshInv, NEW c \in conns, Lose(c)
  PROVE  MeshInv'
<1> USE DEF MeshInv, Lose
<1>1. PICK x \in Peers, y \in Peers : c = <<x, y>>
  BY DEF TypeOK
<1>2. TypeOK'
  BY <1>1 DEF TypeOK
<1>3. DialInv'
  BY DEF DialInv
<1>4. \A a, b \in Peers : Dialled(a, b)' <=> Dialled(a, b)
  BY DEF Dialled
<1>5. \A a, b \in Peers :
        Connected(a, b) => Connected(a, b)' \/ {a, b} \in faults'
  <2>1. /\ conns' = conns \ {<<x, y>>}
        /\ faults' = faults \cup {{x, y}}
    BY <1>1
  <2>2. {x, y} = {y, x}
    OBVIOUS
  <2>3. QED
    BY <2>1, <2>2 DEF Connected
<1>6. MeetInv'
  BY <1>4, <1>5 DEF MeetInv
<1>7. StaleInv'
  BY <1>4, <1>5 DEF StaleInv
<1>8. OwnDialsManaged'
  BY DEF OwnDialsManaged
<1>9. QED
  BY <1>2, <1>3, <1>6, <1>7, <1>8

(* Whoever is held by fewer is dialled as before. *)
LEMMA NoticeStep ==
  ASSUME MeshInv, NEW c \in stale, Notice(c)
  PROVE  MeshInv'
<1> USE DEF MeshInv, Notice
<1>1. TypeOK'
  <2>1. stale' \in SUBSET (Peers \X Peers)
        /\ \A d \in stale' : stage'[d[1]] \in Serving
    BY DEF TypeOK
  <2>2. QED
    BY <2>1 DEF TypeOK
<1>2. DialInv'
  BY DEF DialInv
<1>3. MeetInv'
  BY DEF MeetInv, Dialled, Connected
<1>4. StaleInv'
  BY DEF StaleInv, Dialled, Connected
<1>5. OwnDialsManaged'
  BY DEF OwnDialsManaged
<1>6. QED
  BY <1>1, <1>2, <1>3, <1>4, <1>5

(* Who handles a stream without a manager has not dialled. *)
LEMMA StreamStep ==
  ASSUME MeshInv, NEW c \in conns, NEW from \in Peers, NEW at \in Peers,
         GossipStream(c, from, at)
  PROVE  MeshInv'
<1> USE DEF MeshInv, GossipStream
<1>1. c[1] \in Peers /\ c[1] # at
  BY DEF TypeOK, DialInv, Unmanaged, Managed
<1>2. TypeOK'
  BY <1>1 DEF TypeOK
<1>3. DialInv'
  BY DEF DialInv
<1>4. MeetInv'
  BY DEF MeetInv, Dialled, Connected
<1>5. StaleInv'
  BY DEF StaleInv, Dialled, Connected
<1>6. OwnDialsManaged'
  BY <1>1 DEF OwnDialsManaged
<1>7. QED
  BY <1>2, <1>3, <1>4, <1>5, <1>6

(* A new life begins with the first bootstrap peer. *)
LEMMA StartStep ==
  ASSUME MeshInv, NEW p \in Peers, Start(p)
  PROVE  MeshInv'
<1> USE MeshNodeAssumption DEF MeshInv, Start, Serving, Managed, Unmanaged, Stages
<1>1. TypeOK'
  <2>1. next' \in [Peers -> Nat]
        /\ \A a \in Peers : next'[a] \in 1 .. Len(Bootstrap[a]) + 1
    BY DEF TypeOK
  <2>2. stage' \in [Peers -> Stages]
        /\ \A a \in Peers : stage[a] \in Serving => stage'[a] \in Serving
    BY DEF TypeOK
  <2>3. (\A c \in conns' : stage'[c[1]] \in Serving /\ stage'[c[2]] \in Serving)
        /\ \A c \in stale' : stage'[c[1]] \in Serving
    BY <2>2 DEF TypeOK
  <2>4. QED
    BY <2>1, <2>2, <2>3 DEF TypeOK
<1>2. DialInv'
  BY DEF TypeOK, DialInv
<1>3. \A a, b \in Peers : Dialled(a, b)' => Dialled(a, b)
  BY DEF TypeOK, Dialled
<1>4. MeetInv'
  BY <1>3 DEF MeetInv, Connected
<1>5. StaleInv'
  BY <1>3 DEF StaleInv, Connected
<1>6. OwnDialsManaged'
  BY DEF OwnDialsManaged
<1>7. QED
  BY <1>1, <1>2, <1>4, <1>5, <1>6

(***************************************************************************)
(* The theorems.                                                           *)
(***************************************************************************)

(* The invariant holds while no node runs. *)
LEMMA InvInit == Init => MeshInv
<1> SUFFICES ASSUME Init PROVE MeshInv
  OBVIOUS
<1> USE MeshNodeAssumption DEF Init
<1>1. TypeOK
  BY DEF TypeOK, Stages
<1>2. DialInv
  BY DEF DialInv, Unmanaged
<1>3. MeetInv
  BY DEF MeetInv, Dialled, Managed
<1>4. StaleInv
  BY DEF StaleInv
<1>5. QED
  BY <1>1, <1>2, <1>3, <1>4 DEF MeshInv, OwnDialsManaged

(* Every step keeps it. *)
LEMMA InvNext == MeshInv /\ [Next]_vars => MeshInv'
<1> SUFFICES ASSUME MeshInv, [Next]_vars PROVE MeshInv'
  OBVIOUS
<1> USE DEF Stages, Serving, Managed, Unmanaged
<1>1. ASSUME NEW p \in Peers, Listens(p) \/ StartPubsub(p) \/ Subscribe(p)
      PROVE  MeshInv'
  BY <1>1, EnterStep DEF Listens, StartPubsub, Subscribe
<1>2. ASSUME NEW p \in Peers, StartGossipsub(p) PROVE MeshInv'
  BY <1>2, EnterStep DEF StartGossipsub
<1>3. ASSUME NEW p \in Peers, PrintTicket(p) \/ TicketPrinted(p) PROVE MeshInv'
  BY <1>3, EnterStep DEF PrintTicket, TicketPrinted
<1>4. ASSUME NEW p \in Peers, Stop(p) PROVE MeshInv'
  BY <1>4, EnterStep DEF Stop
<1>5. CASE UNCHANGED vars
  BY <1>5 DEF vars, MeshInv, TypeOK, DialInv, MeetInv, StaleInv,
              OwnDialsManaged, Dialled, Connected
<1>6. QED
  BY <1>1, <1>2, <1>3, <1>4, <1>5,
     StartStep, DialStep, DownStep, LoseStep, NoticeStep, StreamStep, SMTT(30)
     DEF Next, Starts

(* The dials and the connections, in every state. *)
THEOREM Invariance == Spec => []MeshInv
  BY InvInit, InvNext, PTL DEF Spec

(* Types; only nodes that serve are connected. *)
THEOREM TypeCorrect == Spec => []TypeOK
<1>1. MeshInv => TypeOK
  BY DEF MeshInv
<1>2. QED
  BY <1>1, Invariance, PTL

(* Two nodes that list each other are connected once both are up, unless the
   network failed between them. *)
THEOREM MutualMeeting == Spec => []MutualPeersMeet
<1>1. MeshInv => MutualPeersMeet
  <2> SUFFICES ASSUME MeshInv, NEW p \in Peers, NEW q \in Peers,
                      stage[p] = "up", stage[q] = "up", p # q,
                      \E i \in 1 .. Len(Bootstrap[p]) : Bootstrap[p][i] = q,
                      \E i \in 1 .. Len(Bootstrap[q]) : Bootstrap[q][i] = p
               PROVE  Connected(p, q) \/ {p, q} \in faults
    BY DEF MutualPeersMeet
  <2>1. /\ Len(Bootstrap[p]) \in Nat /\ next[p] = Len(Bootstrap[p]) + 1
        /\ Len(Bootstrap[q]) \in Nat /\ next[q] = Len(Bootstrap[q]) + 1
    <3>1. DialInv
      BY DEF MeshInv
    <3>2. Bootstrap[p] \in Seq(Peers) /\ Bootstrap[q] \in Seq(Peers)
      BY MeshNodeAssumption
    <3>3. QED
      BY <3>1, <3>2 DEF DialInv
  <2>2. Dialled(p, q) /\ Dialled(q, p)
    BY <2>1 DEF Dialled, Managed
  <2>3. QED
    BY <2>2 DEF MeshInv, MeetInv
<1>2. QED
  BY <1>1, Invariance, PTL

(* A gossip stream over a connection the node dialled finds a manager. *)
THEOREM DialsManaged == Spec => []OwnDialsManaged
<1>1. MeshInv => OwnDialsManaged
  BY DEF MeshInv
<1>2. QED
  BY <1>1, Invariance, PTL

==============================================================================
