------------------------------- MODULE Exchange -------------------------------
(***************************************************************************)
(* What one use of the LM proxy promises, without streams, windows, timers *)
(* or threads: a call is asked once; the server refuses it if the caller is *)
(* barred and otherwise drops it or answers it once; the caller comes back *)
(* once, with what was answered or with a failure.                         *)
(***************************************************************************)

EXTENDS TLAPS

CONSTANT Calls

\* caller: "idle", "asked", "failed", or what came back: the "whole" answer, a
\* beginning of it ("cut"), or nothing since nothing was answered ("empty").
\* server: "idle", "asked", "refused", "serving", "dropped", or the kind of
\* answer ("body", "error").
VARIABLES
  caller,         \* what each call came back with
  server,         \* what the server made of it
  barred          \* may the server not serve this caller?

vars == <<caller, server, barred>>

\* Only the answer of the language model may be cut, never the line that
\* tells an error.
Outcomes(s) ==
  CASE s = "body"    -> {"whole", "cut"}
    [] s = "error"   -> {"whole"}
    [] s = "dropped" -> {"empty"}
    [] OTHER         -> {}

Init ==
  /\ caller = [c \in Calls |-> "idle"]
  /\ server = [c \in Calls |-> "idle"]
  /\ barred = [c \in Calls |-> FALSE]

------------------------------------------------------------------------------

\* The call reaches the server; its caller may have given up already.
Ask(c) ==
  /\ caller[c] = "idle" /\ server[c] = "idle"
  /\ \E o \in {"asked", "failed"} : caller' = [caller EXCEPT ![c] = o]
  /\ server' = [server EXCEPT ![c] = "asked"]
  /\ \E b \in BOOLEAN : barred' = [barred EXCEPT ![c] = b]

Decide(c, from, to) ==
  /\ server[c] = from
  /\ server' = [server EXCEPT ![c] = to]
  /\ UNCHANGED <<caller, barred>>

Refuse(c) == barred[c] /\ Decide(c, "asked", "refused")

Serve(c) == ~barred[c] /\ Decide(c, "asked", "serving")

Drop(c) == Decide(c, "serving", "dropped")

Answer(c) == Decide(c, "serving", "body") \/ Decide(c, "serving", "error")

Return(c) ==
  /\ caller[c] = "asked"
  /\ \E o \in Outcomes(server[c]) : caller' = [caller EXCEPT ![c] = o]
  /\ UNCHANGED <<server, barred>>

Fail(c) ==
  /\ caller[c] \in {"idle", "asked"}
  /\ caller' = [caller EXCEPT ![c] = "failed"]
  /\ UNCHANGED <<server, barred>>

Next ==
  \E c \in Calls :
    \/ Ask(c) \/ Refuse(c) \/ Serve(c) \/ Drop(c) \/ Answer(c)
    \/ Return(c) \/ Fail(c)

Spec == Init /\ [][Next]_vars

------------------------------------------------------------------------------

\* What a call comes back with is what the server made of it.
Honest ==
  \A c \in Calls :
    caller[c] \in {"whole", "cut", "empty"} => caller[c] \in Outcomes(server[c])

\* A barred caller is never served, and never comes back with a response.
BarredOut ==
  \A c \in Calls :
    barred[c] => /\ server[c] \in {"idle", "asked", "refused"}
                 /\ caller[c] \in {"idle", "asked", "failed"}

\* A call is asked once and comes back once; the server answers it once, or
\* never, and does not change its mind about the caller.
Final ==
  [][\A c \in Calls :
       /\ caller[c] \notin {"idle", "asked"} => caller'[c] = caller[c]
       /\ server[c] \in {"refused", "dropped", "body", "error"} =>
            server'[c] = server[c]
       /\ server[c] # "idle" => barred'[c] = barred[c]]_vars

\* The functions are over the calls, and only a call that was asked is barred.
Shape ==
  /\ DOMAIN caller = Calls /\ DOMAIN server = Calls /\ DOMAIN barred = Calls
  /\ \A c \in Calls : server[c] = "idle" => barred[c] = FALSE

PromiseInv == Shape /\ Honest /\ BarredOut

LEMMA PromiseInit == Init => PromiseInv
  BY DEF Init, PromiseInv, Shape, Honest, BarredOut

LEMMA PromiseStep == PromiseInv /\ [Next]_vars => PromiseInv'
<1>. SUFFICES ASSUME PromiseInv, [Next]_vars PROVE PromiseInv'
  OBVIOUS
<1>. USE DEF PromiseInv, Shape, Honest, BarredOut, Outcomes, Decide
<1>1. CASE UNCHANGED vars
  BY <1>1 DEF vars
<1>2. ASSUME NEW c \in Calls, Ask(c) PROVE PromiseInv'
  BY <1>2 DEF Ask
<1>3. ASSUME NEW c \in Calls, Refuse(c) PROVE PromiseInv'
  BY <1>3 DEF Refuse
<1>4. ASSUME NEW c \in Calls, Serve(c) PROVE PromiseInv'
  BY <1>4 DEF Serve
<1>5. ASSUME NEW c \in Calls, Drop(c) PROVE PromiseInv'
  BY <1>5 DEF Drop
<1>6. ASSUME NEW c \in Calls, Answer(c) PROVE PromiseInv'
  BY <1>6 DEF Answer
<1>7. ASSUME NEW c \in Calls, Return(c) PROVE PromiseInv'
  BY <1>7 DEF Return
<1>8. ASSUME NEW c \in Calls, Fail(c) PROVE PromiseInv'
  BY <1>8 DEF Fail
<1>. QED
  BY <1>1, <1>2, <1>3, <1>4, <1>5, <1>6, <1>7, <1>8 DEF Next

LEMMA FinalStep ==
  PromiseInv /\ [Next]_vars =>
    \/ \A c \in Calls :
         /\ caller[c] \notin {"idle", "asked"} => caller'[c] = caller[c]
         /\ server[c] \in {"refused", "dropped", "body", "error"} =>
              server'[c] = server[c]
         /\ server[c] # "idle" => barred'[c] = barred[c]
    \/ UNCHANGED vars
  BY DEF PromiseInv, Shape, Next, Ask, Refuse, Serve, Drop, Answer, Decide,
         Return, Fail

\* A response is what the server answered, and no barred caller has one.
THEOREM PromiseHonest == Spec => [](Honest /\ BarredOut)
<1>1. PromiseInv => Honest /\ BarredOut
  BY DEF PromiseInv
<1>. QED
  BY <1>1, PromiseInit, PromiseStep, PTL DEF Spec

\* Nothing is answered twice, and nothing that came back changes.
THEOREM PromiseFinal == Spec => Final
  BY PromiseInit, PromiseStep, FinalStep, PTL DEF Spec, Final

==============================================================================
