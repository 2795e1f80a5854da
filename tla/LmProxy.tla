------------------------------- MODULE LmProxy -------------------------------
(***************************************************************************)
(* The server side of the LM proxy protocol: one handler task per inbound  *)
(* stream (lm_proxy.handle_lm_proxy_stream), the pool of worker threads    *)
(* its blocking POSTs share, and LM Studio's answer (external).            *)
(***************************************************************************)
EXTENDS NetStream, Allowlist, FiniteSets

CONSTANTS
  Threads,        \* capacity of trio's worker-thread limiter
  MaxRequest,     \* MAX_REQUEST_BYTES, in pieces
  MaxBody         \* bound on the LM Studio response, in pieces

ASSUME LmProxyAssumption ==
  /\ Threads \in Nat \ {0}
  /\ MaxRequest \in Nat \ {0}
  /\ MaxBody \in Nat

VARIABLES
  allow,          \* cfg.allow_peer_ids
  proxy           \* the handler task of each stream

proxyVars == <<allow, proxy>>

ProxyExits ==
  {"none", "denied", "read_error", "empty", "answered", "http_error",
   "write_error"}

\* pc: where the task is; remote: the connection's PeerId; fwd: request
\* pieces read and posted; reply, blen: what there is to send back and its
\* length; out: pieces of it written; exit: how the handler ended.
Handler ==
  [pc     : {"none", "check", "read", "submit", "post", "write", "close",
             "done"},
   remote : Peers \cup {NoPeer},
   fwd    : 0 .. MaxRequest,
   reply  : {"none", "body", "error"},
   blen   : Nat,
   out    : Nat,
   exit   : ProxyExits]

ProxyTypeOK ==
  /\ allow \in SUBSET (Peers \cup {Blank})
  /\ proxy \in [Streams -> Handler]

ProxyInit ==
  /\ allow \in SUBSET (Peers \cup {Blank})
  /\ proxy = [s \in Streams |->
                [pc |-> "none", remote |-> NoPeer, fwd |-> 0, reply |-> "none",
                 blen |-> 0, out |-> 0, exit |-> "none"]]

------------------------------------------------------------------------------

\* A stream is negotiated: the registered handler starts, with the PeerId
\* of the connection if it can be read.
Spawn(s) ==
  /\ proxy[s].pc = "none"
  /\ \E r \in Peers \cup {NoPeer} :
       proxy' = [proxy EXCEPT ![s].pc = "check", ![s].remote = r]
  /\ UNCHANGED allow

Admit(s) ==
  /\ proxy[s].pc = "check"
  /\ ~Denied(allow, proxy[s].remote)
  /\ proxy' = [proxy EXCEPT ![s].pc = "read"]
  /\ UNCHANGED <<netVars, allow>>

\* Mutant: the refused stream is closed instead of reset.
DenyByClose(s) ==
  /\ proxy[s].pc = "check"
  /\ Denied(allow, proxy[s].remote)
  /\ proxy' = [proxy EXCEPT ![s].pc = "close", ![s].exit = "denied"]
  /\ UNCHANGED <<netVars, allow>>

Deny(s) ==
  /\ proxy[s].pc = "check"
  /\ Denied(allow, proxy[s].remote)
  /\ ResetStream(s)
  /\ proxy' = [proxy EXCEPT ![s].pc = "done", ![s].exit = "denied"]
  /\ UNCHANGED <<up, down, empties, allow>>

\* Mutant: the read has no limit.
ReadUnlimited(s) ==
  /\ proxy[s].pc = "read"
  /\ \E k \in Readable(up, s, Window) :
       /\ up' = Drained(up, s, k)
       /\ proxy' = [proxy EXCEPT ![s].pc = "submit", ![s].fwd = k]
  /\ UNCHANGED <<down, reset, empties, allow>>

\* Mutant: reading does not give the client's window back.
ReadWithoutCredit(s) ==
  /\ proxy[s].pc = "read"
  /\ \E k \in Readable(up, s, MaxRequest) :
       proxy' = [proxy EXCEPT ![s].pc = "submit", ![s].fwd = k]
  /\ UNCHANGED <<netVars, allow>>

\* The single read of the request: whatever has arrived, up to MaxRequest.
ReadRequest(s) ==
  /\ proxy[s].pc = "read"
  /\ \E k \in Readable(up, s, MaxRequest) :
       /\ up' = Drained(up, s, k)
       /\ proxy' = [proxy EXCEPT ![s].pc = "submit", ![s].fwd = k]
  /\ UNCHANGED <<down, reset, empties, allow>>

ReadEmpty(s) ==
  /\ proxy[s].pc = "read"
  /\ EmptyRead(s)
  /\ proxy' = [proxy EXCEPT ![s].pc = "close", ![s].exit = "empty"]
  /\ UNCHANGED <<up, down, reset, allow>>

\* The read raises: the handler returns as it is, whatever the exception.  A
\* read is assumed to raise only on a reset, a lost connection or an EOF.
ReadFails(s) ==
  /\ proxy[s].pc = "read"
  /\ reset[s] \/ AtEOF(up, s)
  /\ proxy' = [proxy EXCEPT ![s].pc = "done", ![s].exit = "read_error"]
  /\ UNCHANGED <<netVars, allow>>

\* Mutant: a worker thread is not given back when its POST is over.
SubmitKeepsThread(s) ==
  /\ proxy[s].pc = "submit"
  /\ Cardinality({t \in Streams \ {s} : proxy[t].fwd # 0}) < Threads
  /\ proxy' = [proxy EXCEPT ![s].pc = "post"]
  /\ UNCHANGED <<netVars, allow>>

\* to_thread.run_sync waits for one of the limiter's threads.
Submit(s) ==
  /\ proxy[s].pc = "submit"
  /\ Cardinality({t \in Streams : proxy[t].pc = "post"}) < Threads
  /\ proxy' = [proxy EXCEPT ![s].pc = "post"]
  /\ UNCHANGED <<netVars, allow>>

\* LM Studio answered, with any status code: its body is the reply.
PostReturns(s) ==
  /\ proxy[s].pc = "post"
  /\ \E n \in 0 .. MaxBody :
       proxy' = [proxy EXCEPT ![s].pc = "write", ![s].reply = "body",
                              ![s].blen = n]
  /\ UNCHANGED <<netVars, allow>>

\* Mutant: a failed POST is logged and nothing else.
PostFailsSilently(s) ==
  /\ proxy[s].pc = "post"
  /\ proxy' = [proxy EXCEPT ![s].pc = "done", ![s].exit = "http_error"]
  /\ UNCHANGED <<netVars, allow>>

\* httpx raised (refused, timed out, ...): the reply is a line of text.
PostFails(s) ==
  /\ proxy[s].pc = "post"
  /\ proxy' = [proxy EXCEPT ![s].pc = "write", ![s].reply = "error",
                            ![s].blen = 1]
  /\ UNCHANGED <<netVars, allow>>

\* The handler waits for room in the client's receive window.
WriteBlocked(s) ==
  /\ proxy[s].pc = "write"
  /\ proxy[s].out < proxy[s].blen
  /\ ~HasRoom(down, s)

\* One stream.write of the reply; an empty body writes nothing.
WritePiece(s) ==
  /\ proxy[s].pc = "write"
  /\ proxy[s].out < proxy[s].blen
  /\ HasRoom(down, s)
  /\ down' = Written(down, s)
  /\ proxy' = [proxy EXCEPT ![s].out = @ + 1]
  /\ UNCHANGED <<up, reset, empties, allow>>

\* Mutant: the chunk loop stops one chunk early on a body of several.
WriteStopsEarly(s) ==
  /\ proxy[s].pc = "write"
  /\ proxy[s].out >= proxy[s].blen - 1
  /\ proxy' = [proxy EXCEPT
       ![s].pc   = "close",
       ![s].exit = IF proxy[s].reply = "body" THEN "answered"
                                              ELSE "http_error"]
  /\ UNCHANGED <<netVars, allow>>

WriteDone(s) ==
  /\ proxy[s].pc = "write"
  /\ proxy[s].out = proxy[s].blen
  /\ proxy' = [proxy EXCEPT
       ![s].pc   = "close",
       ![s].exit = IF proxy[s].reply = "body" THEN "answered"
                                              ELSE "http_error"]
  /\ UNCHANGED <<netVars, allow>>

\* A write raises: on a stream that was reset, or after waiting for room.
\* A body's writes are followed by close() in a finally, the error line's
\* are not.
WriteFails(s) ==
  /\ proxy[s].pc = "write"
  /\ \/ reset[s] /\ (proxy[s].out < proxy[s].blen \/ proxy[s].blen = 0)
     \/ WriteBlocked(s)
  /\ proxy' = [proxy EXCEPT
       ![s].pc   = IF proxy[s].reply = "body" THEN "close" ELSE "done",
       ![s].exit = "write_error"]
  /\ UNCHANGED <<netVars, allow>>

\* stream.close(), the handler's last call; it raises or does nothing on a
\* stream that was reset.
CloseStream(s) ==
  /\ proxy[s].pc = "close"
  /\ \/ ~reset[s] /\ down' \in Closed(down, s)
     \/ reset[s] /\ UNCHANGED down
  /\ proxy' = [proxy EXCEPT ![s].pc = "done"]
  /\ UNCHANGED <<up, reset, empties, allow>>

ProxyStep(s) ==
  \/ Admit(s) \/ Deny(s)
  \/ ReadRequest(s) \/ ReadEmpty(s) \/ ReadFails(s)
  \/ Submit(s) \/ PostReturns(s) \/ PostFails(s)
  \/ WritePiece(s) \/ WriteDone(s) \/ WriteFails(s)
  \/ CloseStream(s)

==============================================================================
