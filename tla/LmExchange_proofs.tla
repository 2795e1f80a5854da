-------------------------- MODULE LmExchange_proofs --------------------------
(***************************************************************************)
(* Proofs about LmExchange, for any streams, windows, thread pools, peers  *)
(* and message sizes.  All invariants follow from IInv, whose inductive    *)
(* step is proved stream by stream and action by action.                   *)
(***************************************************************************)
EXTENDS LmExchange, TLAPS

(***************************************************************************)
(* Types.                                                                  *)
(***************************************************************************)

\* A client's step keeps the types of the runs ...
LEMMA ChatType ==
  ASSUME NetTypeOK, ChatTypeOK, NEW s \in Streams, ChatStep(s)
  PROVE  ChatTypeOK'
<1>. USE DEF ChatTypeOK, Run, Results, Raise, EndLoop
<1>1. CASE SendPiece(s)
  <2>. chat[s].sent + 1 \in Nat
    OBVIOUS
  <2>. QED
    BY <1>1 DEF SendPiece
<1>2. CASE ReadChunk(s)
  <2>1. PICK k \in Readable(down, s, down[s].buf) : chat' = [chat EXCEPT ![s].got = @ + k]
    BY <1>2 DEF ReadChunk
  <2>2. chat[s].got + k \in Nat
    BY DEF Readable, NetTypeOK, Pipe
  <2>. QED
    BY <2>1, <2>2
<1>3. CASE ReadNothing(s)
  BY <1>3 DEF ReadNothing
<1>4. CASE SendDone(s) \/ SendReset(s) \/ SendFails(s)
  BY <1>4 DEF SendDone, SendReset, SendFails
<1>5. CASE ReadEOF(s) \/ ReadTimesOut(s) \/ ReadReset(s)
  BY <1>5 DEF ReadEOF, ReadTimesOut, ReadReset
<1>6. CASE \/ CloseInTime(s) \/ CloseRaises(s) \/ CloseTimesOut(s)
           \/ ResetOrGiveUp(s) \/ Teardown(s)
  BY <1>6 DEF CloseInTime, CloseRaises, CloseTimesOut, ResetOrGiveUp, Teardown
<1>. QED
  BY <1>1, <1>2, <1>3, <1>4, <1>5, <1>6 DEF ChatStep

\* ... and of the streams.
LEMMA ChatNetType ==
  ASSUME NetTypeOK, NEW s \in Streams, ChatStep(s)
  PROVE  NetTypeOK'
<1>. USE DEF NetTypeOK, Pipe, Ends, ResetStream, netVars
<1>1. CASE SendPiece(s)
  <2>. up[s].buf + 1 \in Nat
    OBVIOUS
  <2>. QED
    BY <1>1 DEF SendPiece, Written
<1>2. CASE ReadChunk(s)
  <2>1. PICK k \in Readable(down, s, down[s].buf) : down' = Drained(down, s, k)
    BY <1>2 DEF ReadChunk
  <2>2. down[s].buf - k \in Nat
    BY DEF Readable
  <2>. QED
    BY <1>2, <2>1, <2>2 DEF ReadChunk, Drained
<1>3. CASE ReadNothing(s)
  <2>. empties[s] + 1 \in Nat
    OBVIOUS
  <2>. QED
    BY <1>3 DEF ReadNothing, EmptyRead
<1>4. CASE CloseInTime(s)
  <2>1. CASE up' \in Closed(up, s)
    <3>1. PICK e \in {"fin", "lost"} : up' = [up EXCEPT ![s].end = e]
      BY <2>1 DEF Closed
    <3>2. up' \in [Streams -> [buf : Nat, end : {"open", "fin", "lost"}]]
      BY <3>1
    <3>. QED
      BY <1>4, <3>2 DEF CloseInTime
  <2>2. CASE UNCHANGED up
    BY <1>4, <2>2 DEF CloseInTime
  <2>. QED
    BY <1>4, <2>1, <2>2 DEF CloseInTime
<1>5. CASE ResetOrGiveUp(s) \/ Teardown(s)
  BY <1>5 DEF ResetOrGiveUp, Teardown
<1>6. CASE UNCHANGED netVars
  BY <1>6
<1>. QED
  BY <1>1, <1>2, <1>3, <1>4, <1>5, <1>6
  DEF ChatStep, SendDone, SendReset, SendFails, ReadEOF, ReadTimesOut,
      ReadReset, CloseRaises, CloseTimesOut

\* One handler moves to another record of its type.
LEMMA HandlerMoves ==
  ASSUME ProxyTypeOK, NEW s \in Streams, NEW h \in Handler,
         proxy' = [proxy EXCEPT ![s] = h], UNCHANGED allow
  PROVE  ProxyTypeOK'
  BY DEF ProxyTypeOK

\* A handler's step keeps the types of the handlers ...
LEMMA ProxyType ==
  ASSUME NetTypeOK, ProxyTypeOK, NEW s \in Streams, ProxyStep(s)
  PROVE  ProxyTypeOK'
<1>0. proxy[s] \in Handler
  BY DEF ProxyTypeOK
<1>1. CASE Admit(s) \/ Deny(s) \/ ReadEmpty(s) \/ ReadFails(s) \/ Submit(s)
  BY <1>1 DEF Admit, Deny, ReadEmpty, ReadFails, Submit, ProxyTypeOK, Handler,
              ProxyExits
<1>2. CASE ReadRequest(s)
  <2>1. PICK k \in Readable(up, s, MaxRequest) :
          proxy' = [proxy EXCEPT ![s].pc = "submit", ![s].fwd = k]
    BY <1>2 DEF ReadRequest
  <2>. DEFINE h == [proxy[s] EXCEPT !.pc = "submit", !.fwd = k]
  <2>2. h \in Handler
    <3>. k \in 0 .. MaxRequest
      BY LmProxyAssumption DEF Readable
    <3>. QED
      BY <1>0 DEF Handler
  <2>3. proxy' = [proxy EXCEPT ![s] = h]
    BY <2>1, Zenon
  <2>. QED
    BY <1>2, <2>2, <2>3, HandlerMoves DEF ReadRequest
<1>3. CASE PostReturns(s)
  <2>1. PICK n \in 0 .. MaxBody :
          proxy' = [proxy EXCEPT ![s].pc = "write", ![s].reply = "body",
                                 ![s].blen = n]
    BY <1>3 DEF PostReturns
  <2>. DEFINE h == [proxy[s] EXCEPT !.pc = "write", !.reply = "body",
                                    !.blen = n]
  <2>2. h \in Handler
    <3>. n \in Nat
      BY LmProxyAssumption
    <3>. QED
      BY <1>0 DEF Handler
  <2>3. proxy' = [proxy EXCEPT ![s] = h]
    BY <2>1, Zenon
  <2>. QED
    BY <1>3, <2>2, <2>3, HandlerMoves DEF PostReturns
<1>4. CASE PostFails(s)
  <2>. DEFINE h == [proxy[s] EXCEPT !.pc = "write", !.reply = "error",
                                    !.blen = 1]
  <2>1. h \in Handler
    BY <1>0 DEF Handler
  <2>2. proxy' = [proxy EXCEPT ![s] = h]
    BY <1>4, Zenon DEF PostFails
  <2>. QED
    BY <1>4, <2>1, <2>2, HandlerMoves DEF PostFails
<1>5. CASE WritePiece(s)
  <2>. proxy[s].out + 1 \in Nat
    BY <1>0 DEF Handler
  <2>. QED
    BY <1>5 DEF WritePiece, ProxyTypeOK, Handler
<1>6. CASE WriteDone(s)
  <2>. DEFINE h == [proxy[s] EXCEPT
                      !.pc   = "close",
                      !.exit = IF proxy[s].reply = "body" THEN "answered"
                                                          ELSE "http_error"]
  <2>1. h \in Handler
    BY <1>0 DEF Handler, ProxyExits
  <2>2. proxy' = [proxy EXCEPT ![s] = h]
    BY <1>6, Zenon DEF WriteDone
  <2>. QED
    BY <1>6, <2>1, <2>2, HandlerMoves DEF WriteDone
<1>7. CASE WriteFails(s)
  <2>. DEFINE h == [proxy[s] EXCEPT
                      !.pc   = IF proxy[s].reply = "body" THEN "close"
                                                          ELSE "done",
                      !.exit = "write_error"]
  <2>1. h \in Handler
    BY <1>0 DEF Handler, ProxyExits
  <2>2. proxy' = [proxy EXCEPT ![s] = h]
    BY <1>7, Zenon DEF WriteFails
  <2>. QED
    BY <1>7, <2>1, <2>2, HandlerMoves DEF WriteFails
<1>8. CASE CloseStream(s)
  BY <1>8 DEF CloseStream, ProxyTypeOK, Handler
<1>. QED
  BY <1>1, <1>2, <1>3, <1>4, <1>5, <1>6, <1>7, <1>8 DEF ProxyStep

\* A handler's step keeps the types of the streams, too.
LEMMA ProxyNetType ==
  ASSUME NetTypeOK, NEW s \in Streams, ProxyStep(s)
  PROVE  NetTypeOK'
<1>. USE DEF NetTypeOK, Pipe, Ends, ResetStream, netVars
<1>1. CASE Deny(s)
  BY <1>1 DEF Deny
<1>2. CASE ReadRequest(s)
  <2>1. PICK k \in Readable(up, s, MaxRequest) : up' = Drained(up, s, k)
    BY <1>2 DEF ReadRequest
  <2>2. up[s].buf - k \in Nat
    BY LmProxyAssumption DEF Readable
  <2>. QED
    BY <1>2, <2>1, <2>2 DEF ReadRequest, Drained
<1>3. CASE ReadEmpty(s)
  <2>. empties[s] + 1 \in Nat
    OBVIOUS
  <2>. QED
    BY <1>3 DEF ReadEmpty, EmptyRead
<1>4. CASE WritePiece(s)
  <2>. down[s].buf + 1 \in Nat
    OBVIOUS
  <2>. QED
    BY <1>4 DEF WritePiece, Written
<1>5. CASE CloseStream(s)
  BY <1>5 DEF CloseStream, Closed
<1>6. CASE UNCHANGED netVars
  BY <1>6
<1>. QED
  BY <1>1, <1>2, <1>3, <1>4, <1>5, <1>6
  DEF ProxyStep, Admit, ReadFails, Submit, PostReturns, PostFails, WriteDone,
      WriteFails

\* Opening and losing a stream keeps all the types.
LEMMA OpenType ==
  ASSUME TypeOK, NEW s \in Streams, Open(s) \/ OpenFails(s) \/ Lose(s)
  PROVE  TypeOK'
<1>. USE DEF TypeOK, Open, OpenFails, Lose
<1>1. NetTypeOK'
  BY DEF Dial, DialFails, ConnectionLost, ResetStream, NetTypeOK, netVars
<1>2. ChatTypeOK'
  <2>1. CASE Open(s)
    <3>1. PICK n \in 0 .. MaxReq :
            chat' = [chat EXCEPT ![s].pc = "write", ![s].req = n]
      BY <2>1 DEF Dial
    <3>2. n \in Nat
      BY LmChatAssumption
    <3>. DEFINE r == [chat[s] EXCEPT !.pc = "write", !.req = n]
    <3>3. r \in Run
      BY <3>2 DEF ChatTypeOK, Run
    <3>4. chat' = [chat EXCEPT ![s] = r]
      BY <3>1, Zenon
    <3>. QED
      BY <3>3, <3>4 DEF ChatTypeOK
  <2>2. CASE OpenFails(s)
    <3>1. chat' = [chat EXCEPT ![s].pc = "exit", ![s].result = "dial_error"]
      BY <2>2 DEF DialFails, Raise
    <3>2. chat \in [Streams -> Run]
      BY DEF ChatTypeOK
    <3>3. [chat[s] EXCEPT !.pc = "exit", !.result = "dial_error"] \in Run
      BY <3>2 DEF Run, Results
    <3>4. chat' = [chat EXCEPT
                     ![s] = [chat[s] EXCEPT !.pc = "exit",
                                            !.result = "dial_error"]]
      BY <3>1, Zenon
    <3>. QED
      BY <3>2, <3>3, <3>4 DEF ChatTypeOK
  <2>3. CASE Lose(s)
    BY <2>3 DEF ChatTypeOK
  <2>. QED
    BY <2>1, <2>2, <2>3
<1>3. ProxyTypeOK'
  BY DEF Spawn, ProxyTypeOK, Handler, proxyVars
<1>. QED
  BY <1>1, <1>2, <1>3
\* Every step keeps the types.
LEMMA TypeStep == TypeOK /\ [Next]_vars => TypeOK'
<1>. SUFFICES ASSUME TypeOK, [Next]_vars PROVE TypeOK'
  OBVIOUS
<1>1. ASSUME NEW s \in Streams, Open(s) \/ OpenFails(s) \/ Lose(s)
      PROVE  TypeOK'
  BY <1>1, OpenType
<1>2. ASSUME NEW s \in Streams, Client(s)
      PROVE  TypeOK'
  BY <1>2, ChatType, ChatNetType DEF Client, TypeOK, ProxyTypeOK, proxyVars
<1>3. ASSUME NEW s \in Streams, Server(s)
      PROVE  TypeOK'
  BY <1>3, ProxyType, ProxyNetType DEF Server, TypeOK, ChatTypeOK
<1>4. CASE UNCHANGED vars
  BY <1>4 DEF TypeOK, NetTypeOK, ProxyTypeOK, ChatTypeOK, vars, netVars,
              proxyVars
<1>. QED
  BY <1>1, <1>2, <1>3, <1>4 DEF Next, Terminated

\* The initial states have the types.
LEMMA TypeInit == Init => TypeOK
  BY LmProxyAssumption DEF Init, NetInit, ProxyInit, ChatInit, TypeOK, NetTypeOK, ProxyTypeOK,
         ChatTypeOK, Pipe, Ends, Handler, ProxyExits, Run, Results

\* The variables of the stream, of the handlers and of the lm-chat runs always
\* have their types.
THEOREM TypeCorrect == Spec => []TypeOK
<1>. QED
  BY TypeInit, TypeStep, PTL DEF Spec

(***************************************************************************)
(* The inductive invariant.                                                *)
(***************************************************************************)

\* Opening, failing to open and losing the connection of a stream.
LEMMA OpenStep ==
  ASSUME IInv, NEW s \in Streams, NEW t \in Streams
  PROVE  Open(s) \/ OpenFails(s) \/ Lose(s) => StreamInv(t)'
<1>. USE DEF IInv, StreamInv, Conserved, HandlerInv, LeavesBehind, RefusedInv,
             ClientInv, TypeOK, NetTypeOK, ProxyTypeOK, ChatTypeOK, Pipe, Ends,
             Handler, ProxyExits, Run, Results, netVars, proxyVars
<1>1. CASE Open(s)
  <2>1. PICK n \in 0 .. MaxReq :
          chat' = [chat EXCEPT ![s].pc = "write", ![s].req = n]
    BY <1>1 DEF Open, Dial
  <2>2. PICK r \in Peers \cup {NoPeer} :
          proxy' = [proxy EXCEPT ![s].pc = "check", ![s].remote = r]
    BY <1>1 DEF Open, Spawn
  <2>3. /\ chat[s].pc = "dial" /\ proxy[s].pc = "none"
        /\ UNCHANGED <<netVars, allow>>
    BY <1>1 DEF Open, Dial, Spawn
  <2>. QED
    BY <2>1, <2>2, <2>3, SMTT(30)
<1>2. CASE OpenFails(s)
  <2>1. /\ chat[s].pc = "dial"
        /\ chat' = [chat EXCEPT ![s].pc = "exit", ![s].result = "dial_error"]
        /\ UNCHANGED netVars
    BY <1>2 DEF OpenFails, DialFails, Raise
  <2>2. CASE UNCHANGED proxyVars
    BY <2>1, <2>2, SMTT(30)
  <2>3. CASE Spawn(s)
    <3>1. PICK r \in Peers \cup {NoPeer} :
            proxy' = [proxy EXCEPT ![s].pc = "check", ![s].remote = r]
      BY <2>3 DEF Spawn
    <3>2. proxy[s].pc = "none" /\ UNCHANGED allow
      BY <2>3 DEF Spawn
    <3>. QED
      BY <2>1, <3>1, <3>2, SMTT(30)
  <2>. QED
    BY <1>2, <2>2, <2>3 DEF OpenFails
<1>3. CASE Lose(s)
  BY <1>3 DEF Lose, ConnectionLost, ResetStream
<1>. QED
  BY <1>1, <1>2, <1>3

\* A client's step, looked at from any stream.
LEMMA ClientStep ==
  ASSUME IInv, NEW s \in Streams, Client(s), NEW t \in Streams
  PROVE  StreamInv(t)'
<1>. USE NetStreamAssumption
<1>. USE DEF IInv, StreamInv, Conserved, HandlerInv, LeavesBehind, RefusedInv,
             ClientInv, TypeOK, NetTypeOK, ProxyTypeOK, ChatTypeOK, Pipe, Ends,
             Handler, ProxyExits, Run, Results, netVars, proxyVars
<1>0. UNCHANGED proxyVars
  BY DEF Client
<1>1. CASE SendPiece(s)
  BY <1>0, <1>1 DEF SendPiece, HasRoom, Written
<1>2. CASE SendDone(s)
  BY <1>0, <1>2 DEF SendDone
<1>3. CASE SendReset(s)
  BY <1>0, <1>3 DEF SendReset, Raise
<1>4. CASE SendFails(s)
  BY <1>0, <1>4 DEF SendFails, SendBlocked, Raise
<1>5. CASE ReadChunk(s)
  BY <1>0, <1>5 DEF ReadChunk, Readable, Drained
<1>6. CASE ReadEOF(s)
  BY <1>0, <1>6 DEF ReadEOF, AtEOF, EndLoop
<1>7. CASE ReadNothing(s)
  <2>1. CASE chat[s].got > 0
    <3>1. EndLoop(s, "empty") /\ chat[s].pc = "read"
      BY <1>0, <1>7, <2>1 DEF ReadNothing
    <3>2. UNCHANGED <<up, down, reset>>
      BY <1>0, <1>7 DEF ReadNothing
    <3>. QED
      BY <1>0, <1>0, <2>1, <3>1, <3>2 DEF EndLoop
  <2>2. CASE ~(chat[s].got > 0)
    BY <1>0, <1>7, <2>2 DEF ReadNothing, EmptyRead
  <2>. QED
    BY <2>1, <2>2
<1>8. CASE ReadTimesOut(s)
  <2>1. CASE chat[s].got > 0
    <3>1. EndLoop(s, "idle") /\ UNCHANGED netVars /\ chat[s].pc = "read"
      BY <1>0, <1>8, <2>1 DEF ReadTimesOut
    <3>. QED
      BY <1>0, <1>0, <2>1, <3>1 DEF EndLoop
  <2>2. CASE ~(chat[s].got > 0)
    <3>1. /\ Raise(s, "first_byte_timeout")
          /\ UNCHANGED netVars
          /\ chat[s].pc = "read"
      BY <1>0, <1>8, <2>2 DEF ReadTimesOut
    <3>. QED
      BY <1>0, <1>0, <2>2, <3>1 DEF Raise
  <2>. QED
    BY <2>1, <2>2
<1>9. CASE ReadReset(s)
  BY <1>0, <1>9 DEF ReadReset, Raise
<1>10. CASE CloseInTime(s)
  BY <1>0, <1>10 DEF CloseInTime, Closed, Raise
<1>11. CASE CloseRaises(s)
  BY <1>0, <1>11 DEF CloseRaises, Raise
<1>12. CASE CloseTimesOut(s)
  BY <1>0, <1>12 DEF CloseTimesOut
<1>13. CASE ResetOrGiveUp(s)
  BY <1>0, <1>13 DEF ResetOrGiveUp, ResetStream, Raise
<1>14. CASE Teardown(s)
  BY <1>0, <1>14 DEF Teardown, ResetStream
<1>. QED
  BY <1>0, <1>1, <1>2, <1>3, <1>4, <1>5, <1>6, <1>7, <1>8, <1>9, <1>10, <1>11,
    <1>12, <1>13, <1>14
  DEF Client, ChatStep

\* A handler's step, looked at from any stream.
LEMMA ServerStep ==
  ASSUME IInv, NEW s \in Streams, Server(s), NEW t \in Streams
  PROVE  StreamInv(t)'
<1>. USE NetStreamAssumption
<1>. USE DEF IInv, StreamInv, Conserved, HandlerInv, LeavesBehind, RefusedInv,
             ClientInv, TypeOK, NetTypeOK, ProxyTypeOK, ChatTypeOK, Pipe, Ends,
             Handler, ProxyExits, Run, Results, netVars, proxyVars
<1>0. UNCHANGED chat
  BY DEF Server
<1>1. CASE Admit(s)
  BY <1>0, <1>1 DEF Admit
<1>2. CASE Deny(s)
  BY <1>0, <1>2 DEF Deny, ResetStream
<1>3. CASE ReadRequest(s)
  <2>1. PICK k \in Readable(up, s, MaxRequest) :
          /\ up' = Drained(up, s, k)
          /\ proxy' = [proxy EXCEPT ![s].pc = "submit", ![s].fwd = k]
    BY <1>0, <1>3 DEF ReadRequest
  <2>2. proxy[s].pc = "read" /\ UNCHANGED <<down, reset, empties, allow>>
    BY <1>0, <1>3 DEF ReadRequest
  <2>3. up'[t].end = up[t].end
    BY <2>1 DEF Drained
  <2>. QED
    BY <1>0, <1>0, <2>1, <2>2, <2>3
<1>4. CASE ReadEmpty(s)
  BY <1>0, <1>4 DEF ReadEmpty, EmptyRead
<1>5. CASE ReadFails(s)
  BY <1>0, <1>5 DEF ReadFails, AtEOF
<1>6. CASE Submit(s)
  BY <1>0, <1>6 DEF Submit
<1>7. CASE PostReturns(s)
  BY <1>0, <1>7 DEF PostReturns
<1>8. CASE PostFails(s)
  BY <1>0, <1>8 DEF PostFails
<1>9. CASE WritePiece(s)
  BY <1>0, <1>9 DEF WritePiece, HasRoom, Written
<1>10. CASE WriteDone(s)
  BY <1>0, <1>10 DEF WriteDone
<1>11. CASE WriteFails(s)
  BY <1>0, <1>11 DEF WriteFails, HasRoom, WriteBlocked
<1>12. CASE CloseStream(s)
  <2>0. /\ proxy[s].pc = "close"
        /\ proxy' = [proxy EXCEPT ![s].pc = "done"]
        /\ UNCHANGED <<up, reset, empties, allow>>
        /\ reset[s] \/ down' \in Closed(down, s)
        /\ UNCHANGED down \/ down' \in Closed(down, s)
    BY <1>12 DEF CloseStream
  <2>1. CASE reset[s] /\ UNCHANGED down
    BY <1>0, <2>0, <2>1
  <2>2. CASE down' \in Closed(down, s)
    <3>1. PICK e \in {"fin", "lost"} : down' = [down EXCEPT ![s].end = e]
      BY <2>2 DEF Closed
    <3>. QED
      BY <1>0, <2>0, <3>1
  <2>. QED
    BY <2>0, <2>1, <2>2
<1>. QED
  BY <1>0, <1>1, <1>2, <1>3, <1>4, <1>5, <1>6, <1>7, <1>8, <1>9, <1>10, <1>11,
    <1>12
  DEF Server, ProxyStep

\* IInv is inductive.
LEMMA IInvStep == IInv /\ [Next]_vars => IInv'
<1>. SUFFICES ASSUME IInv, [Next]_vars PROVE IInv'
  OBVIOUS
<1>1. TypeOK'
  BY TypeStep DEF IInv
<1>2. ASSUME NEW t \in Streams PROVE StreamInv(t)'
  <2>1. CASE UNCHANGED vars
    BY <2>1 DEF IInv, StreamInv, Conserved, HandlerInv, LeavesBehind,
                RefusedInv, ClientInv, vars, netVars, proxyVars
  <2>2. CASE Next
    BY <2>1, <2>2, OpenStep, ClientStep, ServerStep DEF Next, Terminated
  <2>. QED
    BY <2>1, <2>2
<1>. QED
  BY <1>1, <1>2 DEF IInv

\* The initial states satisfy IInv.
LEMMA IInvInit == Init => IInv
<1>. SUFFICES ASSUME Init PROVE IInv
  OBVIOUS
<1>1. TypeOK
  BY TypeInit
<1>2. ASSUME NEW t \in Streams PROVE StreamInv(t)
  BY DEF Init, NetInit, ProxyInit, ChatInit, StreamInv, Conserved, HandlerInv,
         LeavesBehind, RefusedInv, ClientInv
<1>. QED
  BY <1>1, <1>2 DEF IInv

\* IInv is an invariant.
THEOREM IInvInvariant == Spec => []IInv
<1>. QED
  BY IInvInit, IInvStep, PTL DEF Spec

(***************************************************************************)
(* What it gives.                                                          *)
(***************************************************************************)

\* A response that lm-chat returns is whole but for the two cuts of the code.
LEMMA IInvWhole == IInv => AnswerWhole
<1>. SUFFICES ASSUME IInv, NEW s \in Streams, chat[s].result = "ok",
                     chat[s].got # proxy[s].blen
              PROVE  /\ proxy[s].reply = "body"
                     /\ \/ chat[s].ended \in {"idle", "empty"}
                        \/ proxy[s].exit = "write_error"
  BY DEF AnswerWhole
<1>. USE DEF IInv, StreamInv, Conserved, HandlerInv, ClientInv, TypeOK,
             NetTypeOK, ProxyTypeOK, ChatTypeOK, Pipe, Ends, Handler,
             ProxyExits, Run, Results
<1>1. CASE chat[s].ended = "eof"
  BY <1>1
<1>2. CASE chat[s].ended \in {"idle", "empty"}
  <2>1. chat[s].got > 0 /\ chat[s].got <= proxy[s].blen
    BY <1>2
  <2>2. proxy[s].reply # "none" /\ proxy[s].reply # "error"
    BY <2>1
  <2>. QED
    BY <1>2, <2>2
<1>. QED
  BY <1>1, <1>2

\* For every run and any sizes, a response that lm-chat returns is whole, but
\* for the two cuts of the code.
THEOREM Whole == Spec => []AnswerWhole
<1>. QED
  BY IInvInvariant, IInvWhole, PTL

\* Under IInv a handler that refuses leaves an open, empty pipe.
LEMMA IInvDenied == IInv => DeniedGetsNothing
<1>. SUFFICES ASSUME IInv, NEW s \in Streams, proxy[s].pc # "none", allow # {},
                     proxy[s].remote \in Peers \ allow
              PROVE  /\ proxy[s].fwd = 0
                     /\ chat[s].got = 0
                     /\ chat[s].result # "ok"
  BY DEF DeniedGetsNothing
<1>1. proxy[s].pc = "check" \/ proxy[s].exit = "denied"
  BY AllowlistAssumption
  DEF IInv, StreamInv, RefusedInv, Denied, HasAllowlist, FromStrings
<1>2. /\ proxy[s].fwd = 0
      /\ proxy[s].blen = 0
      /\ down[s].end = "open"
  BY <1>1 DEF IInv, StreamInv, HandlerInv, TypeOK, NetTypeOK, Pipe, Ends
<1>3. chat[s].got = 0
  BY <1>2 DEF IInv, StreamInv, Conserved, TypeOK, NetTypeOK, ProxyTypeOK,
              ChatTypeOK, Pipe, Handler, Run
<1>4. chat[s].result # "ok"
  BY <1>2, <1>3 DEF IInv, StreamInv, ClientInv, TypeOK, ChatTypeOK, Run
<1>. QED
  BY <1>2, <1>3, <1>4

\* Whatever allow_peer_ids holds, a peer it leaves out gets nothing.
THEOREM Refused == Spec => []DeniedGetsNothing
<1>. QED
  BY IInvInvariant, IInvDenied, PTL

\* Under IInv a handler is only ever gone from a stream that tells so.
LEMMA IInvReader == IInv => NoAbandonedReader
  BY DEF IInv, StreamInv, LeavesBehind, NoAbandonedReader

\* No handler leaves a client waiting on a stream that is neither closed nor
\* reset.
THEOREM NotAbandoned == Spec => []NoAbandonedReader
<1>. QED
  BY IInvInvariant, IInvReader, PTL

==============================================================================
