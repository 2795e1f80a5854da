---------------------------- MODULE LmChatCommand -----------------------------
(***************************************************************************)
(* One run of `meshdevices lm-chat`, from the command line to the output:  *)
(* main of cli.py and run_lm_chat around the timed read loop (ReadLoop),   *)
(* while the connection below may be closed by the task that serves it as  *)
(* well as by the end of host.run (BiStream).  The stages are the nested   *)
(* blocks of the source, each left before the one around it.  Only the     *)
(* stage "reading" is timed: nothing bounds the awaits of the others.      *)
(***************************************************************************)
EXTENDS ReadLoop, BiStream, CommandLine

VARIABLES
  stage,          \* the block the command is in
  connected,      \* did host.connect bring up a connection?
  cmd,            \* the command line
  sent,           \* the request written on the stream
  shown           \* what the command printed

commandVars == <<stage, connected, cmd, sent, shown>>
vars == <<loopVars, biVars, commandVars>>

Init ==
  /\ LoopInit /\ BiInit
  /\ stage = "start" /\ connected = FALSE
  /\ cmd \in Commands
  /\ sent = NoFile
  /\ shown = [question |-> "none", answer |-> "none"]

TypeOK ==
  /\ LoopTypeOK /\ BiTypeOK
  /\ stage \in {"start", "dialling", "reading", "leaving", "left", "ended"}
  /\ connected \in BOOLEAN

------------------------------------------------------------------------------

Move(from, to) == stage = from /\ stage' = to

\* The configuration, the key file, --peer or --json-file is no good.
PrepareFails ==
  /\ Move("start", "ended")
  /\ UNCHANGED <<loopVars, biVars, connected, cmd, sent, shown>>

\* All is read and checked before the loop is entered.
Prepare ==
  /\ Move("start", "dialling")
  /\ EnterLoop
  /\ UNCHANGED <<loopVars, connected, cmd, sent, shown>>

Connect ==
  /\ stage = "dialling" /\ ~connected
  /\ connected' = TRUE
  /\ UNCHANGED <<loopVars, biVars, stage, cmd, sent, shown>>

\* The stream is open and the request written.
Ask ==
  /\ connected
  /\ Move("dialling", "reading")
  /\ sent' = Request(cmd)
  /\ UNCHANGED <<loopVars, biVars, connected, cmd, shown>>

\* Dialling, opening the stream or writing raises.
DialFails ==
  /\ Move("dialling", "leaving")
  /\ UNCHANGED <<loopVars, biVars, connected, cmd, sent, shown>>

Read ==
  /\ stage = "reading"
  /\ LoopStep
  /\ UNCHANGED <<biVars, commandVars>>

\* `finally`: whatever happened, the nursery is cancelled and host.run ends, in
\* its own time.
Leave ==
  /\ at = "over"
  /\ Move("reading", "leaving")
  /\ UNCHANGED <<loopVars, biVars, connected, cmd, sent, shown>>

ConnectionCloses ==
  /\ connected /\ active
  /\ CloseStep("conn")
  /\ UNCHANGED <<loopVars, commandVars>>

HostCloses ==
  /\ connected /\ stage = "leaving"
  /\ CloseStep("host")
  /\ UNCHANGED <<loopVars, commandVars>>

\* Mutant: the loop is left without waiting for the host.
LoopExitsEarly ==
  /\ Move("leaving", "left")
  /\ LeaveLoop
  /\ UNCHANGED <<loopVars, connected, cmd, sent, shown>>

\* host.run, inside the loop, has ended.
LoopExits ==
  /\ connected => closer["host"] \in {"done", "cancelled"}
  /\ ~Closing("conn")
  /\ Move("leaving", "left")
  /\ LeaveLoop
  /\ UNCHANGED <<loopVars, connected, cmd, sent, shown>>

Render ==
  /\ outcome = "response"
  /\ Move("left", "ended")
  /\ \E reply \in (IF pieces > 0 THEN Replies ELSE {"text"}) :
       shown' = Display(cmd, reply)
  /\ UNCHANGED <<loopVars, biVars, connected, cmd, sent>>

\* The exception that left run_lm_chat ends the process.
Die ==
  /\ outcome # "response"
  /\ Move("left", "ended")
  /\ UNCHANGED <<loopVars, biVars, connected, cmd, sent, shown>>

Ended == stage = "ended" /\ UNCHANGED vars

Next ==
  \/ PrepareFails \/ Prepare \/ Connect \/ Ask \/ DialFails \/ Read \/ Leave
  \/ ConnectionCloses \/ HostCloses \/ LoopExits \/ Render \/ Die \/ Ended

Spec == Init /\ [][Next]_vars

------------------------------------------------------------------------------

\* When the command is past its loop, both halves of the connection's QUIC
\* stream have been ended or were lost, whichever of the two tasks came first
\* and whatever finish() raised: close is never left without iroh being asked,
\* except by a cancellation (bistream_adapter.py:50-61, iroh_loop.py:117-125).
HalvesShut ==
  (/\ stage \in {"left", "ended"} /\ connected
   /\ \A c \in Closers : closer[c] # "cancelled")
    => \A h \in Halves : half[h] # "open"

\* The question printed above an answer is the last thing the user says in
\* the request that was sent, though the two are worked out apart, in
\* cli.py:18-33 from the file and in lm_chat_client.py:101-109 from the prompt.
QuestionSent ==
  shown.question # "none" =>
    \A i \in DOMAIN sent.messages :
      (/\ sent.messages[i].user /\ sent.messages[i].text # Blank
       /\ \A j \in DOMAIN sent.messages :
            j > i => ~sent.messages[j].user \/ sent.messages[j].text = Blank)
        => shown.question = sent.messages[i].text

\* What the command waits for, or how its run ended; one that never had a
\* stream ended by an exception.
RunNow ==
  IF stage \in {"start", "dialling"} THEN "asking"
  ELSE IF outcome # "none" THEN outcome
  ELSE IF stage # "reading" THEN "error"
  ELSE IF at \notin {"read", "pause"} THEN "closing"
  ELSE IF pieces > 0 THEN "receiving" ELSE "waiting"

ChatRuns ==
  INSTANCE ChatRun WITH Runs <- {"lm-chat"}, run <- [r \in {"lm-chat"} |-> RunNow]

\* With budgets that run out when they must, and tasks that close the
\* connection below, the run has the same order of waits and the same ends as
\* the one against the handler, where they may run out at any moment.
FollowsChatRun == ChatRuns!Spec

\* The inductive invariant, with LoopInv and CloseInv: who closes finds the
\* loop, and close is left with both halves shut or by a cancellation.
CommandInv ==
  /\ stage \in {"start", "dialling", "reading", "leaving", "left", "ended"}
  /\ connected \in BOOLEAN
  /\ stage = "start" => ~connected
  /\ active <=> stage \in {"dialling", "reading", "leaving"}
  /\ ~connected => \A c \in Closers : closer[c] = "idle"
  /\ \A c \in Closers : Closing(c) => active
  /\ \A c \in Closers : closer[c] = "recv" => half["send"] # "open"
  /\ closed => \/ \E c \in Closers : closer[c] \in Halves \cup {"cancelled"}
               \/ \A h \in Halves : half[h] # "open"
  /\ connected /\ stage \in {"left", "ended"} =>
       closer["host"] \in {"done", "cancelled"}

\* The loop has an outcome only for the request of this command line, and the
\* question shown is the one of the same command line.
OutputInv ==
  /\ cmd \in Commands
  /\ stage = "reading" \/ outcome # "none" => sent = Request(cmd)
  /\ shown.question # "none" =>
       sent = Request(cmd) /\ shown.question = Question(cmd)

\* The loop has ended when there is an outcome, and has not begun before the
\* command reads.
StageInv ==
  /\ outcome = "none" <=> at # "over"
  /\ stage \in {"start", "dialling"} => at = "read" /\ pieces = 0

==============================================================================
