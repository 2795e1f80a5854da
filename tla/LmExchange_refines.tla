------------------------- MODULE LmExchange_refines --------------------------
(***************************************************************************)
(* LmExchange implements Exchange, for any streams, windows and sizes: the *)
(* initial states map to initial states and every step maps to a step of   *)
(* the promise or to none.  PInv adds to IInv where each end is.           *)
(***************************************************************************)
EXTENDS LmExchange_proofs

(***************************************************************************)
(* PInv is an invariant.                                                   *)
(***************************************************************************)

\* Opening, failing to open and losing the connection of a stream.
LEMMA OpenPhase ==
  ASSUME PInv, NEW s \in Streams, Open(s) \/ OpenFails(s) \/ Lose(s),
         NEW t \in Streams
  PROVE  PhaseInv(t)'
<1>. USE DEF PInv, PhaseInv, IInv, TypeOK, NetTypeOK, ProxyTypeOK, ChatTypeOK,
             Pipe, Handler, Run, netVars, proxyVars
<1>1. CASE Open(s)
  <2>1. PICK n \in 0 .. MaxReq :
          chat' = [chat EXCEPT ![s].pc = "write", ![s].req = n]
    BY <1>1 DEF Open, Dial
  <2>2. PICK r \in Peers \cup {NoPeer} :
          proxy' = [proxy EXCEPT ![s].pc = "check", ![s].remote = r]
    BY <1>1 DEF Open, Spawn
  <2>3. chat[s].pc = "dial" /\ proxy[s].pc = "none" /\ UNCHANGED netVars
    BY <1>1 DEF Open, Dial, Spawn
  <2>. QED
    BY <2>1, <2>2, <2>3, SMTT(30)
<1>2. CASE OpenFails(s)
  <2>1. /\ chat[s].pc = "dial"
        /\ chat' = [chat EXCEPT ![s].pc = "exit", ![s].result = "dial_error"]
        /\ UNCHANGED netVars
    BY <1>2 DEF OpenFails, DialFails, Raise
  <2>2. CASE UNCHANGED proxyVars
    BY <2>1, <2>2, SMTT(30)
  <2>3. CASE Spawn(s)
    <3>1. PICK r \in Peers \cup {NoPeer} :
            proxy' = [proxy EXCEPT ![s].pc = "check", ![s].remote = r]
      BY <2>3 DEF Spawn
    <3>2. proxy[s].pc = "none"
      BY <2>3 DEF Spawn
    <3>. QED
      BY <2>1, <3>1, <3>2, SMTT(30)
  <2>. QED
    BY <1>2, <2>2, <2>3 DEF OpenFails
<1>3. CASE Lose(s)
  BY <1>3 DEF Lose, ConnectionLost, ResetStream
<1>. QED
  BY <1>1, <1>2, <1>3

\* A client's step, looked at from any stream.
LEMMA ClientPhase ==
  ASSUME PInv, NEW s \in Streams, Client(s), NEW t \in Streams
  PROVE  PhaseInv(t)'
<1>. USE DEF PInv, PhaseInv, IInv, TypeOK, NetTypeOK, ProxyTypeOK, ChatTypeOK,
             Pipe, Handler, Run, netVars, proxyVars
<1>0. UNCHANGED proxyVars
  BY DEF Client
<1>1. CASE SendPiece(s)
  BY <1>0, <1>1 DEF SendPiece, Written
<1>2. CASE SendDone(s)
  BY <1>0, <1>2 DEF SendDone
<1>11. CASE SendReset(s)
  BY <1>0, <1>11 DEF SendReset, Raise
<1>12. CASE SendFails(s)
  BY <1>0, <1>12 DEF SendFails, SendBlocked, Raise
<1>3. CASE ReadChunk(s)
  <2>1. PICK k \in Readable(down, s, down[s].buf) :
          chat' = [chat EXCEPT ![s].got = @ + k]
    BY <1>3 DEF ReadChunk
  <2>2. chat[s].pc = "read" /\ UNCHANGED up
    BY <1>3 DEF ReadChunk
  <2>. QED
    BY <1>0, <2>1, <2>2
<1>4. CASE ReadEOF(s)
  BY <1>0, <1>4 DEF ReadEOF, EndLoop
<1>13. CASE ReadReset(s)
  BY <1>0, <1>13 DEF ReadReset, Raise
<1>5. CASE ReadNothing(s) \/ ReadTimesOut(s)
  <2>1. /\ chat[s].pc = "read"
        /\ UNCHANGED up
        /\ \/ UNCHANGED chat
           \/ \E e \in {"idle", "empty"} :
                chat' = [chat EXCEPT ![s].pc = "close", ![s].ended = e]
           \/ chat' = [chat EXCEPT ![s].pc = "exit",
                                   ![s].result = "first_byte_timeout"]
    BY <1>5, Zenon DEF ReadNothing, ReadTimesOut, EndLoop, Raise, netVars
  <2>. QED
    BY <1>0, <2>1
<1>6. CASE CloseInTime(s)
  <2>1. /\ chat[s].pc = "close"
        /\ chat' = [chat EXCEPT ![s].pc = "exit", ![s].result = "ok"]
    BY <1>6 DEF CloseInTime, Raise
  <2>2. up'[t].buf = up[t].buf
    <3>1. CASE up' \in Closed(up, s)
      <4>1. PICK e \in {"fin", "lost"} : up' = [up EXCEPT ![s].end = e]
        BY <3>1 DEF Closed
      <4>. QED
        BY <4>1
    <3>2. CASE UNCHANGED up
      BY <3>2
    <3>. QED
      BY <1>6, <3>1, <3>2 DEF CloseInTime
  <2>. QED
    BY <1>0, <2>1, <2>2
<1>7. CASE CloseRaises(s)
  BY <1>0, <1>7 DEF CloseRaises, Raise
<1>8. CASE CloseTimesOut(s)
  BY <1>0, <1>8 DEF CloseTimesOut
<1>9. CASE ResetOrGiveUp(s)
  BY <1>0, <1>9 DEF ResetOrGiveUp, Raise
<1>10. CASE Teardown(s)
  BY <1>0, <1>10 DEF Teardown
<1>. QED
  BY <1>1, <1>2, <1>3, <1>4, <1>5, <1>6, <1>7, <1>8, <1>9, <1>10, <1>11,
     <1>12, <1>13
  DEF Client, ChatStep

\* A handler's step, looked at from any stream.
LEMMA ServerPhase ==
  ASSUME PInv, NEW s \in Streams, Server(s), NEW t \in Streams
  PROVE  PhaseInv(t)'
<1>. USE DEF PInv, PhaseInv, IInv, TypeOK, NetTypeOK, ProxyTypeOK, ChatTypeOK,
             Pipe, Handler, ProxyExits, Run, netVars, proxyVars
<1>0. UNCHANGED chat
  BY DEF Server
<1>1. CASE Admit(s)
  BY <1>0, <1>1 DEF Admit
<1>11. CASE Submit(s)
  BY <1>0, <1>11 DEF Submit
<1>9. CASE Deny(s)
  BY <1>0, <1>9 DEF Deny
<1>10. CASE ReadFails(s)
  BY <1>0, <1>10 DEF ReadFails
<1>2. CASE ReadRequest(s)
  <2>1. PICK k \in Readable(up, s, MaxRequest) :
          /\ up' = Drained(up, s, k)
          /\ proxy' = [proxy EXCEPT ![s].pc = "submit", ![s].fwd = k]
    BY <1>2 DEF ReadRequest
  <2>2. proxy[s].pc = "read" /\ proxy[s].fwd = 0
    BY <1>2 DEF ReadRequest, StreamInv, HandlerInv
  <2>3. k \in Nat
    BY LmProxyAssumption DEF Readable
  <2>4. /\ up'[t].buf = IF t = s THEN up[s].buf - k ELSE up[t].buf
        /\ proxy'[t].fwd = IF t = s THEN k ELSE proxy[t].fwd
        /\ proxy'[t].pc = IF t = s THEN "submit" ELSE proxy[t].pc
        /\ UNCHANGED <<proxy[t].reply, proxy[t].exit>>
    BY <2>1 DEF Drained
  <2>5. chat[s].sent = (up[s].buf - k) + k
    BY <2>2, <2>3
  <2>6. (chat[t].sent = up[t].buf + proxy[t].fwd)'
    BY <1>0, <2>4, <2>5
  <2>. QED
    BY <1>0, <2>4, <2>6
<1>3. CASE ReadEmpty(s)
  BY <1>0, <1>3 DEF ReadEmpty, EmptyRead
<1>4. CASE PostReturns(s)
  BY <1>0, <1>4 DEF PostReturns
<1>12. CASE PostFails(s)
  BY <1>0, <1>12 DEF PostFails
<1>5. CASE WritePiece(s)
  BY <1>0, <1>5 DEF WritePiece
<1>6. CASE WriteDone(s)
  BY <1>0, <1>6 DEF WriteDone
<1>7. CASE WriteFails(s)
  <2>1. proxy[s].pc = "write" /\ UNCHANGED up
    BY <1>7 DEF WriteFails, WriteBlocked
  <2>2. PICK q \in {"close", "done"} :
          proxy' = [proxy EXCEPT ![s].pc = q, ![s].exit = "write_error"]
    BY <1>7, Zenon DEF WriteFails
  <2>. QED
    BY <1>0, <2>1, <2>2
<1>8. CASE CloseStream(s)
  BY <1>0, <1>8 DEF CloseStream
<1>. QED
  BY <1>1, <1>2, <1>3, <1>4, <1>5, <1>6, <1>7, <1>8, <1>9, <1>10, <1>11,
     <1>12
  DEF Server, ProxyStep

\* PInv holds at first and is kept by every step.
LEMMA PInvInit == Init => PInv
<1>. SUFFICES ASSUME Init PROVE PInv
  OBVIOUS
<1>1. ASSUME NEW t \in Streams PROVE PhaseInv(t)
  BY DEF Init, NetInit, ProxyInit, ChatInit, PhaseInv
<1>. QED
  BY <1>1, IInvInit DEF PInv

LEMMA PInvStep == PInv /\ [Next]_vars => PInv'
<1>. SUFFICES ASSUME PInv, [Next]_vars PROVE PInv'
  OBVIOUS
<1>1. IInv'
  BY IInvStep DEF PInv
<1>2. ASSUME NEW t \in Streams PROVE PhaseInv(t)'
  <2>1. CASE UNCHANGED vars
    BY <2>1 DEF PInv, PhaseInv, vars, netVars, proxyVars
  <2>2. CASE Next
    BY <2>1, <2>2, OpenPhase, ClientPhase, ServerPhase DEF Next, Terminated
  <2>. QED
    BY <2>1, <2>2
<1>. QED
  BY <1>1, <1>2 DEF PInv

\* Where the two ends are and what they have sent agree, always.
THEOREM PInvInvariant == Spec => []PInv
<1>. QED
  BY PInvInit, PInvStep, PTL DEF Spec

\* Under PInv both windows are full when both ends are blocked in a write.
LEMMA PInvStuck == PInv => StuckOnlyOversized
<1>. SUFFICES ASSUME PInv, NEW s \in Streams, SendBlocked(s), WriteBlocked(s)
              PROVE  /\ chat[s].req > Window + proxy[s].fwd
                     /\ proxy[s].blen > Window
  BY DEF StuckOnlyOversized
<1>1. up[s].buf >= Window /\ down[s].buf >= Window
  BY NetStreamAssumption
  DEF SendBlocked, WriteBlocked, HasRoom, PInv, IInv, TypeOK, NetTypeOK, Pipe
<1>2. chat[s].sent = up[s].buf + proxy[s].fwd /\ chat[s].sent < chat[s].req
  BY DEF PInv, PhaseInv, SendBlocked
<1>3. chat[s].got = 0 /\ proxy[s].out = chat[s].got + down[s].buf
  BY DEF PInv, PhaseInv, IInv, StreamInv, Conserved, SendBlocked
<1>. QED
  BY <1>1, <1>2, <1>3, NetStreamAssumption
  DEF WriteBlocked, PInv, IInv, TypeOK, NetTypeOK, Pipe, ProxyTypeOK, Handler,
      ChatTypeOK, Run

\* Both ends are blocked in a write only when the request and the response
\* each exceed what the windows hold.
THEOREM StuckOversized == Spec => []StuckOnlyOversized
<1>. QED
  BY PInvInvariant, PInvStuck, PTL

(***************************************************************************)
(* The refinement.                                                         *)
(***************************************************************************)

\* A step at s leaves the other calls of the promise as they are.
LEMMA OneCall ==
  ASSUME NEW s \in Streams, UNCHANGED allow,
         \A t \in Streams \ {s} : UNCHANGED <<chat[t], proxy[t]>>
  PROVE  /\ Callers' = [Callers EXCEPT ![s] = CallerOf(s)']
         /\ Servers' = [Servers EXCEPT ![s] = ServerOf(s)']
         /\ Barred' = [Barred EXCEPT
                          ![s] = Denied(allow, proxy[s].remote)']
<1>1. ASSUME NEW t \in Streams \ {s}
      PROVE  /\ CallerOf(t)' = CallerOf(t)
             /\ ServerOf(t)' = ServerOf(t)
             /\ Denied(allow, proxy[t].remote)' = Denied(allow, proxy[t].remote)
  BY <1>1 DEF CallerOf, ServerOf, Denied, HasAllowlist, FromStrings
<1>. QED
  BY <1>1, Zenon DEF Callers, Servers, Barred

\* What a client's step does to its call: nothing, a failure, or a return
\* with what the server made of the call.
LEMMA ClientEffect ==
  ASSUME PInv, IInv', NEW s \in Streams, Client(s)
  PROVE  \/ CallerOf(s)' = CallerOf(s)
         \/ CallerOf(s) = "asked" /\ CallerOf(s)' = "failed"
         \/ /\ CallerOf(s) = "asked"
            /\ CallerOf(s)' \in Promise!Outcomes(ServerOf(s))
<1>. USE DEF PInv, IInv, TypeOK, ChatTypeOK, Run
<1>0. proxy' = proxy
  BY DEF Client, proxyVars
<1>1. ASSUME chat[s].result = "none", chat[s].pc # "dial"
      PROVE  CallerOf(s) = "asked"
  BY <1>1 DEF CallerOf
<1>2. ASSUME chat'[s].result = "none", chat'[s].pc # "dial"
      PROVE  CallerOf(s)' = "asked"
  BY <1>2 DEF CallerOf
<1>3. ASSUME NEW r \in Results \ {"none", "ok"}, Raise(s, r)
      PROVE  CallerOf(s)' = "failed"
  BY <1>3 DEF CallerOf, Raise, Results
<1>4. ASSUME chat[s].pc \in {"close", "reset"}, Raise(s, "ok")
      PROVE  CallerOf(s)' \in Promise!Outcomes(ServerOf(s))
  <2>1. /\ chat'[s].result = "ok"
        /\ UNCHANGED <<chat[s].got, chat[s].ended>>
    BY <1>4 DEF Raise
  <2>2. CallerOf(s)' = IF proxy[s].reply = "none" THEN "empty"
                       ELSE IF chat[s].got = proxy[s].blen THEN "whole"
                       ELSE "cut"
    BY <1>0, <2>1 DEF CallerOf
  <2>3. CASE proxy[s].reply = "none"
    <3>1. proxy[s].blen = 0
      BY <2>3 DEF StreamInv, HandlerInv
    <3>2. ~(chat[s].got > 0)
      BY <3>1 DEF StreamInv, Conserved, NetTypeOK, Pipe, ProxyTypeOK, Handler
    <3>3. chat[s].ended = "eof"
      BY <1>4, <3>2 DEF StreamInv, ClientInv
    <3>4. proxy[s].pc = "done" /\ proxy[s].exit = "empty"
      BY <2>3, <3>3 DEF StreamInv, ClientInv, HandlerInv, PhaseInv,
                        ProxyTypeOK, Handler, ProxyExits
    <3>5. ServerOf(s) = "dropped"
      BY <2>3, <3>4 DEF ServerOf
    <3>. QED
      BY <2>2, <2>3, <3>5 DEF Promise!Outcomes
  <2>4. CASE proxy[s].reply = "body"
    <3>1. ServerOf(s) = "body"
      BY <2>4 DEF ServerOf
    <3>. QED
      BY <2>2, <2>4, <3>1 DEF Promise!Outcomes
  <2>5. CASE proxy[s].reply = "error"
    <3>1. ServerOf(s) = "error"
      BY <2>5 DEF ServerOf
    <3>2. AnswerWhole'
      BY IInvWhole, PTL
    <3>3. chat[s].got = proxy[s].blen
      BY <1>0, <2>1, <2>5, <3>2 DEF AnswerWhole
    <3>. QED
      BY <2>2, <2>5, <3>1, <3>3 DEF Promise!Outcomes
  <2>. QED
    BY <2>3, <2>4, <2>5 DEF ProxyTypeOK, Handler
<1>5. CASE SendPiece(s)
  BY <1>1, <1>2, <1>5 DEF SendPiece, PhaseInv
<1>6. CASE SendDone(s)
  BY <1>1, <1>2, <1>6 DEF SendDone, PhaseInv
<1>7. CASE SendReset(s)
  BY <1>1, <1>3, <1>7 DEF SendReset, PhaseInv, Results
<1>8. CASE SendFails(s)
  BY <1>1, <1>3, <1>8 DEF SendFails, SendBlocked, PhaseInv, Results
<1>9. CASE ReadChunk(s)
  BY <1>1, <1>2, <1>9 DEF ReadChunk, PhaseInv
<1>10. CASE ReadEOF(s)
  BY <1>1, <1>2, <1>10 DEF ReadEOF, EndLoop, PhaseInv
<1>11. CASE ReadNothing(s)
  <2>1. chat[s].pc = "read" /\ (EndLoop(s, "empty") \/ UNCHANGED chat)
    BY <1>11 DEF ReadNothing
  <2>. QED
    BY <1>1, <1>2, <2>1 DEF EndLoop, PhaseInv
<1>12. CASE ReadTimesOut(s)
  <2>1. /\ chat[s].pc = "read"
        /\ EndLoop(s, "idle") \/ Raise(s, "first_byte_timeout")
    BY <1>12 DEF ReadTimesOut
  <2>2. CASE EndLoop(s, "idle")
    BY <1>1, <1>2, <2>1, <2>2 DEF EndLoop, PhaseInv
  <2>3. CASE Raise(s, "first_byte_timeout")
    BY <1>1, <1>3, <2>1, <2>3 DEF PhaseInv, Results
  <2>. QED
    BY <2>1, <2>2, <2>3
<1>13. CASE ReadReset(s)
  BY <1>1, <1>3, <1>13 DEF ReadReset, PhaseInv, Results
<1>14. CASE CloseInTime(s)
  BY <1>1, <1>4, <1>14 DEF CloseInTime, PhaseInv
<1>15. CASE CloseRaises(s)
  BY <1>1, <1>3, <1>15 DEF CloseRaises, PhaseInv, Results
<1>16. CASE CloseTimesOut(s)
  BY <1>1, <1>2, <1>16 DEF CloseTimesOut, PhaseInv
<1>17. CASE ResetOrGiveUp(s)
  BY <1>1, <1>4, <1>17 DEF ResetOrGiveUp, PhaseInv
<1>18. CASE Teardown(s)
  <2>1. /\ chat[s].result # "none"
        /\ UNCHANGED <<chat[s].result, chat[s].got>>
    BY <1>18 DEF Teardown, PhaseInv
  <2>. QED
    BY <1>0, <2>1 DEF CallerOf
<1>. QED
  BY <1>5, <1>6, <1>7, <1>8, <1>9, <1>10, <1>11, <1>12, <1>13, <1>14, <1>15,
     <1>16, <1>17, <1>18
  DEF Client, ChatStep

\* A client's step maps to Fail, to Return or to no step of the promise.
LEMMA ClientMaps ==
  ASSUME PInv, IInv', NEW s \in Streams, Client(s)
  PROVE  [Promise!Next]_(Promise!vars)
<1>1. /\ UNCHANGED <<allow, proxy>>
      /\ \A t \in Streams \ {s} : UNCHANGED <<chat[t], proxy[t]>>
  BY DEF Client, proxyVars, ChatStep, SendPiece, SendDone, SendReset,
         SendFails, ReadChunk, ReadEOF, ReadNothing, ReadTimesOut, ReadReset,
         CloseInTime, CloseRaises, CloseTimesOut, ResetOrGiveUp, Teardown,
         Raise, EndLoop, PInv, IInv, TypeOK, ChatTypeOK
<1>2. UNCHANGED <<Servers, Barred>>
  BY <1>1 DEF Servers, ServerOf, Barred, Denied, HasAllowlist, FromStrings
<1>3. /\ Callers' = [Callers EXCEPT ![s] = CallerOf(s)']
      /\ Callers[s] = CallerOf(s) /\ Servers[s] = ServerOf(s)
  BY <1>1, OneCall DEF Callers, Servers
<1>4. CASE CallerOf(s)' = CallerOf(s)
  BY <1>2, <1>3, <1>4 DEF Promise!vars, Callers
<1>5. CASE CallerOf(s) = "asked" /\ CallerOf(s)' = "failed"
  BY <1>2, <1>3, <1>5 DEF Promise!Next, Promise!Fail
<1>6. CASE /\ CallerOf(s) = "asked"
           /\ CallerOf(s)' \in Promise!Outcomes(ServerOf(s))
  BY <1>2, <1>3, <1>6 DEF Promise!Next, Promise!Return
<1>. QED
  BY <1>4, <1>5, <1>6, ClientEffect

\* A handler's step moves its call one step of the server of the promise, or
\* none, and never what its caller came back with.
LEMMA ServerEffect ==
  ASSUME PInv, NEW s \in Streams, Server(s)
  PROVE  \/ ServerOf(s)' = ServerOf(s)
         \/ /\ ServerOf(s) = "asked" /\ ServerOf(s)' = "refused"
            /\ Denied(allow, proxy[s].remote)
         \/ /\ ServerOf(s) = "asked" /\ ServerOf(s)' = "serving"
            /\ ~Denied(allow, proxy[s].remote)
         \/ /\ ServerOf(s) = "serving"
            /\ ServerOf(s)' \in {"dropped", "body", "error"}
<1>. USE DEF PInv, IInv, StreamInv, HandlerInv, PhaseInv, TypeOK, ProxyTypeOK,
             Handler, ProxyExits, ServerOf
<1>1. CASE Admit(s)
  BY <1>1 DEF Admit
<1>2. CASE Deny(s)
  BY <1>2 DEF Deny
<1>3. CASE ReadRequest(s)
  <2>1. PICK k \in Readable(up, s, MaxRequest) :
          proxy' = [proxy EXCEPT ![s].pc = "submit", ![s].fwd = k]
    BY <1>3 DEF ReadRequest
  <2>2. proxy[s].pc = "read"
    BY <1>3 DEF ReadRequest
  <2>. QED
    BY <2>1, <2>2
<1>4. CASE ReadEmpty(s)
  BY <1>4 DEF ReadEmpty
<1>5. CASE ReadFails(s)
  BY <1>5 DEF ReadFails
<1>6. CASE Submit(s)
  BY <1>6 DEF Submit
<1>7. CASE PostReturns(s)
  BY <1>7 DEF PostReturns
<1>8. CASE PostFails(s)
  BY <1>8 DEF PostFails
<1>9. CASE WritePiece(s)
  BY <1>9 DEF WritePiece
<1>10. CASE WriteDone(s)
  BY <1>10 DEF WriteDone
<1>11. CASE WriteFails(s)
  <2>1. proxy[s].pc = "write"
    BY <1>11 DEF WriteFails, WriteBlocked
  <2>2. PICK q \in {"close", "done"} :
          proxy' = [proxy EXCEPT ![s].pc = q, ![s].exit = "write_error"]
    BY <1>11, Zenon DEF WriteFails
  <2>. QED
    BY <2>1, <2>2
<1>12. CASE CloseStream(s)
  BY <1>12 DEF CloseStream
<1>. QED
  BY <1>1, <1>2, <1>3, <1>4, <1>5, <1>6, <1>7, <1>8, <1>9, <1>10, <1>11,
     <1>12
  DEF Server, ProxyStep

\* What a caller came back with stands, whatever its handler still does.
LEMMA CallerStands ==
  ASSUME PInv, NEW s \in Streams, Server(s)
  PROVE  CallerOf(s)' = CallerOf(s)
<1>. USE DEF PInv, IInv, StreamInv, HandlerInv, PhaseInv, TypeOK, ProxyTypeOK,
             Handler, ProxyExits
<1>0. UNCHANGED chat
  BY DEF Server
<1>1. ASSUME UNCHANGED <<proxy[s].reply, proxy[s].blen>>
      PROVE  CallerOf(s)' = CallerOf(s)
  BY <1>0, <1>1 DEF CallerOf
<1>2. ASSUME proxy[s].pc = "post"
      PROVE  CallerOf(s)' = CallerOf(s)
  <2>1. proxy[s].reply = "none" /\ proxy[s].blen = 0
    BY <1>2
  <2>2. ~(chat[s].got > 0)
    BY <2>1 DEF Conserved, NetTypeOK, Pipe, ChatTypeOK, Run
  <2>3. chat[s].ended # "eof"
    BY <1>2 DEF ClientInv, NetTypeOK, Pipe, Ends
  <2>4. chat[s].result # "ok"
    BY <2>2, <2>3 DEF ClientInv, ChatTypeOK, Run
  <2>. QED
    BY <1>0, <2>4 DEF CallerOf
<1>3. CASE PostReturns(s) \/ PostFails(s)
  BY <1>2, <1>3 DEF PostReturns, PostFails
<1>4. CASE Admit(s) \/ Deny(s) \/ ReadEmpty(s) \/ ReadFails(s) \/ Submit(s)
  BY <1>1, <1>4 DEF Admit, Deny, ReadEmpty, ReadFails, Submit
<1>5. CASE ReadRequest(s) \/ WritePiece(s) \/ WriteDone(s) \/ CloseStream(s)
  BY <1>1, <1>5 DEF ReadRequest, WritePiece, WriteDone, CloseStream
<1>6. CASE WriteFails(s)
  BY <1>1, <1>6 DEF WriteFails
<1>. QED
  BY <1>3, <1>4, <1>5, <1>6 DEF Server, ProxyStep

\* A handler's step maps to Refuse, Serve, Drop, Answer or to no step.
LEMMA ServerMaps ==
  ASSUME PInv, NEW s \in Streams, Server(s)
  PROVE  [Promise!Next]_(Promise!vars)
<1>0. UNCHANGED chat /\ proxy \in [Streams -> Handler]
  BY DEF Server, PInv, IInv, TypeOK, ProxyTypeOK
<1>1. /\ UNCHANGED <<allow, chat, proxy[s].remote>>
      /\ \A t \in Streams \ {s} : UNCHANGED <<chat[t], proxy[t]>>
  <2>1. CASE Admit(s) \/ Deny(s) \/ ReadEmpty(s) \/ ReadFails(s) \/ Submit(s)
    BY <1>0, <2>1 DEF Admit, Deny, ReadEmpty, ReadFails, Submit, Handler
  <2>2. CASE ReadRequest(s) \/ PostReturns(s) \/ PostFails(s)
    BY <1>0, <2>2 DEF ReadRequest, PostReturns, PostFails, Handler
  <2>3. CASE WritePiece(s) \/ CloseStream(s)
    BY <1>0, <2>3 DEF WritePiece, CloseStream, Handler
  <2>4. CASE WriteDone(s)
    BY <1>0, <2>4 DEF WriteDone, Handler
  <2>5. CASE WriteFails(s)
    BY <1>0, <2>5 DEF WriteFails, Handler
  <2>. QED
    BY <2>1, <2>2, <2>3, <2>4, <2>5 DEF Server, ProxyStep
<1>2. /\ Callers' = [Callers EXCEPT ![s] = CallerOf(s)']
      /\ Servers' = [Servers EXCEPT ![s] = ServerOf(s)']
      /\ Barred' = [Barred EXCEPT ![s] = Denied(allow, proxy[s].remote)']
  BY <1>1, OneCall
<1>3. Callers' = Callers
  BY <1>2, CallerStands DEF Callers
<1>4. Barred' = Barred
  BY <1>1, <1>2 DEF Barred, Denied, HasAllowlist, FromStrings
<1>5. /\ Servers[s] = ServerOf(s)
      /\ Barred[s] = Denied(allow, proxy[s].remote)
  BY DEF Servers, Barred
<1>6. CASE ServerOf(s)' = ServerOf(s)
  BY <1>2, <1>3, <1>4, <1>6 DEF Promise!vars, Servers
<1>7. CASE /\ ServerOf(s) = "asked" /\ ServerOf(s)' = "refused"
           /\ Denied(allow, proxy[s].remote)
  BY <1>2, <1>3, <1>4, <1>5, <1>7
  DEF Promise!Next, Promise!Refuse, Promise!Decide
<1>8. CASE /\ ServerOf(s) = "asked" /\ ServerOf(s)' = "serving"
           /\ ~Denied(allow, proxy[s].remote)
  BY <1>2, <1>3, <1>4, <1>5, <1>8
  DEF Promise!Next, Promise!Serve, Promise!Decide
<1>9. CASE /\ ServerOf(s) = "serving"
           /\ ServerOf(s)' \in {"dropped", "body", "error"}
  BY <1>2, <1>3, <1>4, <1>5, <1>9
  DEF Promise!Next, Promise!Drop, Promise!Answer, Promise!Decide
<1>. QED
  BY <1>6, <1>7, <1>8, <1>9, ServerEffect

\* Opening a stream, failing to, and losing its connection map to Ask, to Fail
\* and to no step.
LEMMA OpenMaps ==
  ASSUME PInv, NEW s \in Streams, Open(s) \/ OpenFails(s) \/ Lose(s)
  PROVE  [Promise!Next]_(Promise!vars)
<1>. USE DEF PInv, IInv, StreamInv, HandlerInv, PhaseInv, TypeOK, ProxyTypeOK,
             Handler, ProxyExits, ChatTypeOK, Run
<1>1. CASE Lose(s)
  BY <1>1 DEF Lose, proxyVars, Promise!vars, Callers, Servers, Barred,
              CallerOf, ServerOf, Denied, HasAllowlist, FromStrings
<1>2. ASSUME Open(s) \/ OpenFails(s)
      PROVE  /\ CallerOf(s) = "idle" /\ CallerOf(s)' \in {"asked", "failed"}
             /\ chat[s].pc = "dial"
             /\ UNCHANGED allow
             /\ OpenFails(s) => CallerOf(s)' = "failed"
             /\ \A t \in Streams \ {s} : UNCHANGED <<chat[t], proxy[t]>>
  <2>1. CASE Open(s)
    <3>1. PICK n \in 0 .. MaxReq :
            chat' = [chat EXCEPT ![s].pc = "write", ![s].req = n]
      BY <2>1 DEF Open, Dial
    <3>2. PICK r \in Peers \cup {NoPeer} :
            proxy' = [proxy EXCEPT ![s].pc = "check", ![s].remote = r]
      BY <2>1 DEF Open, Spawn
    <3>3. chat[s].pc = "dial" /\ UNCHANGED allow /\ chat[s].result = "none"
      BY <2>1 DEF Open, Dial, Spawn
    <3>4. ~OpenFails(s)
      BY <3>1, <3>3 DEF OpenFails, DialFails, Raise
    <3>. QED
      BY <3>1, <3>2, <3>3, <3>4 DEF CallerOf
  <2>2. CASE OpenFails(s)
    <3>1. /\ chat' = [chat EXCEPT ![s].pc = "exit",
                                  ![s].result = "dial_error"]
          /\ chat[s].pc = "dial" /\ chat[s].result = "none"
          /\ UNCHANGED allow
      BY <2>2 DEF OpenFails, DialFails, Raise, Spawn, proxyVars
    <3>2. \A t \in Streams \ {s} : UNCHANGED proxy[t]
      BY <2>2 DEF OpenFails, Spawn, proxyVars
    <3>. QED
      BY <3>1, <3>2 DEF CallerOf
  <2>. QED
    BY <1>2, <2>1, <2>2
<1>3. ASSUME Open(s) \/ OpenFails(s)
      PROVE  /\ Callers' = [Callers EXCEPT ![s] = CallerOf(s)']
             /\ Servers' = [Servers EXCEPT ![s] = ServerOf(s)']
             /\ Barred' = [Barred EXCEPT
                             ![s] = Denied(allow, proxy[s].remote)']
             /\ Callers[s] = "idle"
  BY <1>2, <1>3, OneCall DEF Callers
<1>4. ASSUME Open(s) \/ OpenFails(s), Spawn(s)
      PROVE  Promise!Ask(s)
  <2>1. PICK r \in Peers \cup {NoPeer} :
          proxy' = [proxy EXCEPT ![s].pc = "check", ![s].remote = r]
    BY <1>4 DEF Spawn
  <2>2. ServerOf(s) = "idle" /\ ServerOf(s)' = "asked"
    BY <1>4, <2>1 DEF Spawn, ServerOf
  <2>3. Denied(allow, proxy[s].remote)' \in BOOLEAN
    BY DEF Denied
  <2>. QED
    BY <1>2, <1>3, <1>4, <2>2, <2>3 DEF Promise!Ask, Servers
<1>5. ASSUME OpenFails(s), UNCHANGED proxyVars
      PROVE  Promise!Fail(s)
  <2>1. UNCHANGED <<Servers, Barred>>
    BY <1>5 DEF Servers, ServerOf, Barred, Denied, HasAllowlist, FromStrings,
                proxyVars
  <2>. QED
    BY <1>2, <1>3, <1>5, <2>1 DEF Promise!Fail
<1>. QED
  BY <1>1, <1>4, <1>5 DEF Open, OpenFails, Promise!Next

\* The initial states of the protocol are initial states of the promise.
LEMMA InitMaps == Init => Promise!Init
  BY DEF Init, NetInit, ProxyInit, ChatInit, Promise!Init, Callers, Servers,
         Barred, CallerOf, ServerOf, Denied

\* The protocol implements the promise, for any streams, windows, thread pools
\* and sizes.
THEOREM Implements == Spec => KeepsPromise
<1>1. ASSUME PInv, PInv', [Next]_vars
      PROVE  [Promise!Next]_(Promise!vars)
  <2>1. CASE UNCHANGED vars
    BY <2>1 DEF vars, proxyVars, Promise!vars, Callers, Servers, Barred,
                CallerOf, ServerOf, Denied, HasAllowlist, FromStrings
  <2>2. CASE Next
    BY <1>1, <2>1, <2>2, OpenMaps, ClientMaps, ServerMaps
    DEF Next, Terminated, PInv
  <2>. QED
    BY <1>1, <2>1, <2>2
<1>. QED
  BY <1>1, InitMaps, PInvInvariant, PTL DEF Spec, KeepsPromise, Promise!Spec

\* What holds of the promise holds of the protocol: a response is what the
\* handler made of the request, and a caller that is barred has none ...
THEOREM CallsHonest == Spec => [](Promise!Honest /\ Promise!BarredOut)
  BY Implements, Promise!PromiseHonest, PTL DEF KeepsPromise

\* ... no request is answered twice, and no outcome of lm-chat changes, whatever
\* the streams and the other end do afterwards.
THEOREM CallsFinal == Spec => Promise!Final
  BY Implements, Promise!PromiseFinal, PTL DEF KeepsPromise

(***************************************************************************)
(* The run of lm-chat: the exchange implements ChatRun.                    *)
(***************************************************************************)

\* A step at s that keeps or moves its run as ChatRun does maps to that step.
LEMMA RunMaps ==
  ASSUME NEW s \in Streams, NEW from, NEW to, RunOf(s) \in from,
         RunOf(s)' = to, \A t \in Streams \ {s} : RunOf(t)' = RunOf(t)
  PROVE  ChatRuns!Move(s, from, to)
<1>1. [t \in Streams |-> RunOf(t)]' =
        [[t \in Streams |-> RunOf(t)] EXCEPT ![s] = to]
  OBVIOUS
<1>. QED
  BY <1>1, Zenon DEF ChatRuns!Move

\* A client's step is one of its run, or none.
LEMMA ClientRun ==
  ASSUME PInv, NEW s \in Streams, Client(s)
  PROVE  \/ RunOf(s)' = RunOf(s)
         \/ RunOf(s) = "asking" /\ RunOf(s)' = "waiting"
         \/ RunOf(s) \in {"waiting", "receiving"} /\ RunOf(s)' = "receiving"
         \/ RunOf(s) \in {"waiting", "receiving"} /\ RunOf(s)' = "closing"
         \/ RunOf(s) = "closing" /\ RunOf(s)' = "response"
         \/ RunOf(s) = "waiting" /\ RunOf(s)' = "timeout"
         \/ /\ RunOf(s) \in {"asking", "waiting", "receiving", "closing"}
            /\ RunOf(s)' = "error"
<1>. USE DEF PInv, PhaseInv, IInv, TypeOK, ChatTypeOK, Run
<1>1. CASE SendPiece(s) \/ SendDone(s)
  BY <1>1 DEF SendPiece, SendDone, RunOf
<1>2. CASE SendReset(s) \/ SendFails(s)
  BY <1>2 DEF SendReset, SendFails, SendBlocked, Raise, RunOf
<1>3. CASE ReadChunk(s)
  <2>1. PICK k \in Readable(down, s, down[s].buf) :
          chat' = [chat EXCEPT ![s].got = @ + k]
    BY <1>3 DEF ReadChunk
  <2>2. k \in Nat /\ k > 0 /\ chat[s].pc = "read"
    BY <1>3, <2>1 DEF ReadChunk, Readable, NetTypeOK, Pipe
  <2>3. chat'[s].got > 0 /\ UNCHANGED <<chat[s].pc, chat[s].result>>
    BY <2>1, <2>2
  <2>. QED
    BY <2>2, <2>3 DEF RunOf
<1>4. CASE ReadEOF(s)
  BY <1>4 DEF ReadEOF, EndLoop, RunOf
<1>5. CASE ReadNothing(s)
  <2>1. chat[s].pc = "read" /\ (EndLoop(s, "empty") \/ UNCHANGED chat)
    BY <1>5 DEF ReadNothing
  <2>. QED
    BY <2>1 DEF EndLoop, RunOf
<1>6. CASE ReadTimesOut(s)
  BY <1>6 DEF ReadTimesOut, EndLoop, Raise, RunOf
<1>7. CASE ReadReset(s)
  BY <1>7 DEF ReadReset, Raise, RunOf
<1>8. CASE CloseInTime(s) \/ ResetOrGiveUp(s)
  <2>1. chat[s].pc \in {"close", "reset"} /\ Raise(s, "ok")
    BY <1>8 DEF CloseInTime, ResetOrGiveUp
  <2>. QED
    BY <2>1 DEF Raise, RunOf
<1>9. CASE CloseRaises(s)
  BY <1>9 DEF CloseRaises, Raise, RunOf
<1>10. CASE CloseTimesOut(s)
  BY <1>10 DEF CloseTimesOut, RunOf
<1>11. CASE Teardown(s)
  <2>1. chat[s].result # "none" /\ UNCHANGED chat[s].result
    BY <1>11 DEF Teardown
  <2>. QED
    BY <2>1 DEF RunOf
<1>. QED
  BY <1>1, <1>2, <1>3, <1>4, <1>5, <1>6, <1>7, <1>8, <1>9, <1>10, <1>11
  DEF Client, ChatStep

\* Every step of the exchange is one of a run, or none.
LEMMA RunStep ==
  PInv /\ [Next]_vars => [ChatRuns!Next]_[s \in Streams |-> RunOf(s)]
<1>. SUFFICES ASSUME PInv, [Next]_vars
              PROVE  [ChatRuns!Next]_[s \in Streams |-> RunOf(s)]
  OBVIOUS
<1>1. CASE UNCHANGED chat
  BY <1>1 DEF RunOf
<1>2. ASSUME NEW s \in Streams, Client(s) \/ Open(s) \/ OpenFails(s)
      PROVE  \A t \in Streams \ {s} : RunOf(t)' = RunOf(t)
  <2>1. \A t \in Streams \ {s} : UNCHANGED chat[t]
    BY <1>2
    DEF Client, ChatStep, SendPiece, SendDone, SendReset, SendFails, ReadChunk,
        ReadEOF, ReadNothing, ReadTimesOut, ReadReset, CloseInTime, CloseRaises,
        CloseTimesOut, ResetOrGiveUp, Teardown, Raise, EndLoop, Open, Dial,
        OpenFails, DialFails, PInv, IInv, TypeOK, ChatTypeOK
  <2>. QED
    BY <2>1 DEF RunOf
<1>3. ASSUME NEW s \in Streams, Client(s)
      PROVE  [ChatRuns!Next]_[t \in Streams |-> RunOf(t)]
  <2>1. CASE RunOf(s)' = RunOf(s)
    BY <1>2, <1>3, <2>1
  <2>2. CASE RunOf(s)' # RunOf(s)
    <3>1. \/ ChatRuns!Asked(s) \/ ChatRuns!Chunk(s) \/ ChatRuns!Enough(s)
          \/ ChatRuns!Return(s) \/ ChatRuns!TimeOut(s) \/ ChatRuns!Fail(s)
      BY <1>2, <1>3, <2>2, ClientRun, RunMaps
      DEF ChatRuns!Asked, ChatRuns!Chunk, ChatRuns!Enough, ChatRuns!Return,
          ChatRuns!TimeOut, ChatRuns!Fail
    <3>. QED
      BY <3>1 DEF ChatRuns!Next
  <2>. QED
    BY <2>1, <2>2
<1>4. ASSUME NEW s \in Streams, Open(s)
      PROVE  [ChatRuns!Next]_[t \in Streams |-> RunOf(t)]
  <2>1. RunOf(s)' = RunOf(s)
    BY <1>4 DEF Open, Dial, RunOf, PInv, PhaseInv, IInv, TypeOK, ChatTypeOK, Run
  <2>. QED
    BY <1>2, <1>4, <2>1
<1>5. ASSUME NEW s \in Streams, OpenFails(s)
      PROVE  [ChatRuns!Next]_[t \in Streams |-> RunOf(t)]
  <2>1. RunOf(s) = "asking" /\ RunOf(s)' = "error"
    BY <1>5 DEF OpenFails, DialFails, Raise, RunOf, PInv, PhaseInv, IInv,
                TypeOK, ChatTypeOK, Run
  <2>2. ChatRuns!Fail(s)
    BY <1>2, <1>5, <2>1, RunMaps DEF ChatRuns!Fail
  <2>. QED
    BY <2>2 DEF ChatRuns!Next
<1>. QED
  BY <1>1, <1>3, <1>4, <1>5 DEF Next, Server, Lose, Terminated, vars

\* Against any handler and network, for any windows and sizes, a run keeps the
\* order of ChatRun: the run with time does too (LmChatCommand_proofs).
THEOREM ServedRun == Spec => FollowsChatRun
<1>1. Init => ChatRuns!Init
  BY DEF Init, ChatInit, ChatRuns!Init, RunOf
<1>. QED
  BY <1>1, PInvInvariant, RunStep, PTL DEF Spec, FollowsChatRun, ChatRuns!Spec

==============================================================================
