----------------------------- MODULE LmExchange ------------------------------
(***************************************************************************)
(* The LM proxy protocol end to end: lm-chat runs (LmChatClient) and the   *)
(* handlers of one mesh node that runs the proxy (LmProxy), one stream     *)
(* (NetStream) per run.  The handlers share the node's worker threads.     *)
(***************************************************************************)
EXTENDS LmProxy, LmChatClient

vars == <<netVars, proxyVars, chat>>

Init == NetInit /\ ProxyInit /\ ChatInit

\* The client opens the stream, which starts a handler at the other end.
Open(s) == Dial(s) /\ Spawn(s)

\* The dial fails, before or after the handler was started.
OpenFails(s) == DialFails(s) /\ (Spawn(s) \/ UNCHANGED proxyVars)

Finished(s) ==
  /\ chat[s].pc = "done"
  /\ proxy[s].pc \in {"none", "done"}

Lose(s) ==
  /\ proxy[s].pc # "none"
  /\ ~Finished(s)
  /\ ConnectionLost(s)
  /\ UNCHANGED <<proxyVars, chat>>

Client(s) == ChatStep(s) /\ UNCHANGED proxyVars

Server(s) == ProxyStep(s) /\ UNCHANGED chat

Terminated ==
  /\ \A s \in Streams : Finished(s)
  /\ UNCHANGED vars

Next ==
  \/ \E s \in Streams :
       Open(s) \/ OpenFails(s) \/ Lose(s) \/ Client(s) \/ Server(s)
  \/ Terminated

Spec == Init /\ [][Next]_vars

(***************************************************************************)
(* Fairness.  Both ends are trio tasks: an enabled step is eventually      *)
(* taken, timers expire, LM Studio's POST returns or raises (httpx's       *)
(* timeout), the worker thread limiter serves its waiters.  A blocked      *)
(* write is NOT assumed to give up (nothing in src/ bounds it), and the    *)
(* network is not assumed to lose a connection.                            *)
(***************************************************************************)
ClientRuns(s) ==
  ~(SendBlocked(s) /\ ~reset[s]) /\ (Open(s) \/ OpenFails(s) \/ Client(s))

ServerRuns(s) == ~(WriteBlocked(s) /\ ~reset[s]) /\ Server(s)

Fairness ==
  \A s \in Streams : WF_vars(ClientRuns(s)) /\ WF_vars(ServerRuns(s))

FairSpec == Spec /\ Fairness

------------------------------------------------------------------------------

\* Every variable has its type.
TypeOK == NetTypeOK /\ ProxyTypeOK /\ ChatTypeOK

\* A response run_lm_chat returns is all that the handler had to send, except
\* in the two cases where the code cuts it: the read loop gave up on a body
\* after its first bytes (idle budget, empty read), or a write of the body
\* raised and the handler's finally closed the stream as after a full one.
\* The text of a failed POST is never cut.
AnswerWhole ==
  \A s \in Streams :
    chat[s].result = "ok" /\ chat[s].got # proxy[s].blen =>
      /\ proxy[s].reply = "body"
      /\ \/ chat[s].ended \in {"idle", "empty"}
         \/ proxy[s].exit = "write_error"

\* A peer that the configured allow_peer_ids leave out (and whose PeerId the
\* connection gives) gets no bytes, has none forwarded to LM Studio and is
\* told by an exception: its run never returns a response, not even an empty
\* one.
DeniedGetsNothing ==
  \A s \in Streams :
    proxy[s].pc # "none" /\ allow # {} /\ proxy[s].remote \in Peers \ allow =>
      /\ proxy[s].fwd = 0
      /\ chat[s].got = 0
      /\ chat[s].result # "ok"

\* No handler goes away and leaves the client with nothing to wait for but
\* its 600 s: it closed its side of the stream, or the stream is reset.  That
\* rests on NetStream, where a read of a living stream does not raise: the
\* handler would leave such a stream open (lm_proxy.py:56-58).
NoAbandonedReader ==
  \A s \in Streams :
    proxy[s].pc = "done" /\ chat[s].pc \in {"write", "read"} =>
      down[s].end # "open" \/ reset[s]

\* Both ends are blocked in a write, each waiting for the other to read, only
\* when the request AND the response are larger than what the two windows
\* hold: a small request, or a small response, never gets stuck.
StuckOnlyOversized ==
  \A s \in Streams :
    SendBlocked(s) /\ WriteBlocked(s) =>
      /\ chat[s].req > Window + proxy[s].fwd
      /\ proxy[s].blen > Window

(***************************************************************************)
(* The exchange as its two users see it.                                   *)
(***************************************************************************)

CallerOf(s) ==
  IF chat[s].result = "none" THEN IF chat[s].pc = "dial" THEN "idle" ELSE "asked"
  ELSE IF chat[s].result # "ok" THEN "failed"
  ELSE IF proxy[s].reply = "none" THEN "empty"
  ELSE IF chat[s].got = proxy[s].blen THEN "whole" ELSE "cut"

ServerOf(s) ==
  IF proxy[s].reply # "none" THEN proxy[s].reply
  ELSE IF proxy[s].exit = "denied" THEN "refused"
  ELSE IF proxy[s].exit # "none" THEN "dropped"
  ELSE IF proxy[s].pc = "none" THEN "idle"
  ELSE IF proxy[s].pc = "check" THEN "asked" ELSE "serving"

Callers == [s \in Streams |-> CallerOf(s)]
Servers == [s \in Streams |-> ServerOf(s)]
Barred  == [s \in Streams |-> Denied(allow, proxy[s].remote)]

Promise ==
  INSTANCE Exchange WITH
    Calls <- Streams, caller <- Callers, server <- Servers, barred <- Barred

\* The protocol keeps the promise of Exchange: asked once, served only if not
\* barred, answered once, and what the caller comes back with is what the
\* server made of its call, cut only if it is a body.
KeepsPromise == Promise!Spec

\* What a run of lm-chat waits for, or how it ended.
RunOf(s) ==
  CASE chat[s].result = "ok"                 -> "response"
    [] chat[s].result = "first_byte_timeout" -> "timeout"
    [] chat[s].result \notin {"none", "ok", "first_byte_timeout"} -> "error"
    [] chat[s].result = "none" ->
         IF chat[s].pc \in {"dial", "write"} THEN "asking"
         ELSE IF chat[s].pc # "read" THEN "closing"
         ELSE IF chat[s].got > 0 THEN "receiving" ELSE "waiting"

ChatRuns ==
  INSTANCE ChatRun WITH Runs <- Streams, run <- [s \in Streams |-> RunOf(s)]

\* Against any handler and network, a run that has a byte of the response does
\* not time out any more, and one that ended its loop returns what it has
\* unless the close raises: in the order of ChatRun, as the run with time.
FollowsChatRun == ChatRuns!Spec

(***************************************************************************)
(* The inductive invariant behind the three invariants above.              *)
(***************************************************************************)

\* Nothing is lost or made up in a pipe.
Conserved(s) ==
  /\ proxy[s].out = chat[s].got + down[s].buf
  /\ proxy[s].out <= proxy[s].blen

\* Where the handler is tells what it has done.
HandlerInv(s) ==
  /\ proxy[s].exit = "none" <=> proxy[s].pc \notin {"close", "done"}
  /\ proxy[s].pc \in {"none", "check", "read"} => proxy[s].fwd = 0
  /\ proxy[s].reply = "none" => proxy[s].blen = 0
  /\ proxy[s].reply = "error" => proxy[s].blen = 1
  /\ proxy[s].pc \in {"none", "check", "read", "submit", "post"} =>
       proxy[s].reply = "none"
  /\ proxy[s].exit \in {"denied", "read_error", "empty"} =>
       proxy[s].reply = "none" /\ proxy[s].fwd = 0
  /\ proxy[s].exit \in {"answered", "http_error"} =>
       proxy[s].out = proxy[s].blen
  /\ proxy[s].exit \in {"denied", "read_error"} =>
       proxy[s].pc = "done" /\ down[s].end = "open"
  /\ proxy[s].exit = "write_error" /\ proxy[s].reply # "body" =>
       proxy[s].pc = "done" /\ down[s].end = "open"
  /\ down[s].end # "open" => proxy[s].pc = "done"

\* A handler that leaves without closing does so on a reset stream.
LeavesBehind(s) ==
  /\ proxy[s].pc = "done" =>
       down[s].end # "open" \/ reset[s] \/ up[s].end # "open"
  /\ up[s].end # "open" => chat[s].pc \in {"exit", "done"}

\* A refused peer never gets past the check.
RefusedInv(s) ==
  Denied(allow, proxy[s].remote) =>
    proxy[s].pc \in {"none", "check"} \/ proxy[s].exit = "denied"

\* How the read loop ended tells what was in the pipe.
ClientInv(s) ==
  /\ chat[s].ended = "eof" => down[s].end = "fin" /\ down[s].buf = 0
  /\ chat[s].ended \in {"idle", "empty"} => chat[s].got > 0
  /\ chat[s].pc \in {"close", "reset"} \/ chat[s].result = "ok" =>
       chat[s].ended # "none"

StreamInv(s) ==
  /\ Conserved(s) /\ HandlerInv(s) /\ LeavesBehind(s)
  /\ RefusedInv(s) /\ ClientInv(s)

IInv == TypeOK /\ \A s \in Streams : StreamInv(s)

\* Where the two ends are tells what they have sent and said.
PhaseInv(s) ==
  /\ chat[s].result = "none" <=> chat[s].pc \notin {"exit", "done"}
  /\ chat[s].pc \in {"dial", "write"} => chat[s].got = 0
  /\ chat[s].sent = up[s].buf + proxy[s].fwd
  /\ proxy[s].pc = "write" => proxy[s].reply # "none"
  /\ proxy[s].exit \in {"answered", "http_error", "write_error"} =>
       proxy[s].reply # "none"

PInv == IInv /\ \A s \in Streams : PhaseInv(s)

------------------------------------------------------------------------------

\* What is forwarded to LM Studio is the request, as the module comment of
\* lm_proxy.py has it, when it is not larger than MAX_REQUEST_BYTES.  (The
\* single read of the handler refutes this.)
WholeRequestForwarded ==
  \A s \in Streams :
    proxy[s].fwd # 0 /\ chat[s].req <= MaxRequest =>
      proxy[s].fwd = chat[s].req

\* An EOF ends a whole response: what stream.close() tells the client is that
\* "response bytes" (lm_proxy.py) were returned.  (The finally that closes
\* the stream after a failed write refutes this.)
EofMeansWhole ==
  \A s \in Streams : chat[s].ended = "eof" => chat[s].got = proxy[s].blen

\* Every run of lm-chat whose request fits the server's receive window comes
\* back, with a response or an exception.
ClientReturns ==
  \A s \in Streams :
    (chat[s].pc = "write" /\ chat[s].req <= Window) ~> (chat[s].pc = "done")

\* Every handler ends, whatever its client does, if the client's request fits
\* the receive window: no handler (and no worker thread) is leaked.
HandlerExits ==
  \A s \in Streams :
    (proxy[s].pc = "check" /\ chat[s].req <= Window) ~> (proxy[s].pc = "done")

==============================================================================
