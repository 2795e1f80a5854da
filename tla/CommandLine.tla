----------------------------- MODULE CommandLine ------------------------------
(***************************************************************************)
(* What `meshdevices lm-chat` makes of its command line, and of the bytes  *)
(* that come back.  Texts are opaque: Blank stands for a text that strip() *)
(* empties, and for a content that is no string.                           *)
(***************************************************************************)
EXTENDS Naturals, Sequences, SequencesExt

CONSTANTS
  Texts,          \* what a user may ask
  MaxMessages     \* bound on the messages of a --json-file

ASSUME CommandLineAssumption == MaxMessages \in Nat

Blank == "blank"
Unknown == "(unknown)"

\* What others say is never looked at: one message stands for it.
Other == [user |-> FALSE, text |-> "other"]

Messages == [user : {TRUE}, text : Texts \cup {Blank}] \cup {Other}

\* The bytes of a request: a chat; "opaque" bytes, which are no JSON with a
\* list of messages; or b"".
Bodies ==
  [kind : {"opaque", "empty"}, messages : {<<>>}]
    \cup [kind : {"chat"}, messages : BoundedSeq(Messages, MaxMessages)]

NoFile == [kind |-> "absent", messages |-> <<>>]

Commands ==
  [body : Bodies \cup {NoFile}, prompt : Texts \cup {Blank}, debug : BOOLEAN]

\* The request run_lm_chat sends: the file as it is, or the prompt.
Request(c) ==
  IF c.body = NoFile
    THEN [kind |-> "chat", messages |-> <<[user |-> TRUE, text |-> c.prompt]>>]
    ELSE c.body

\* Where the user says something in a list of messages.
Asked(messages) ==
  {i \in DOMAIN messages : messages[i].user /\ messages[i].text # Blank}

\* Mutant: the first message of the user, not the last.
QuestionForward(c) ==
  LET asked == Asked(c.body.messages)
      first == CHOOSE i \in asked : \A j \in asked : i <= j
  IN  IF asked # {} THEN c.body.messages[first].text
      ELSE IF c.prompt # Blank THEN c.prompt
      ELSE Unknown

\* _extract_question_from_request: the last of the user's messages, as the loop
\* goes through reversed(msgs).
Question(c) ==
  LET asked == Asked(c.body.messages)
      last  == CHOOSE i \in asked : \A j \in asked : j <= i
  IN  IF asked # {} THEN c.body.messages[last].text
      ELSE IF c.prompt # Blank THEN c.prompt
      ELSE Unknown

\* The bytes that come back: a completion with an answer; JSON without one,
\* as the error object of LM Studio is; or text: nothing at all, the error line
\* of the handler, or a response that was cut.
Replies == {"answer", "noAnswer", "text"}

\* _render_lm_chat_output, and the raw output of --debug.
Display(c, reply) ==
  IF c.debug \/ reply = "text"
    THEN [question |-> "none", answer |-> "raw"]
    ELSE [question |-> Question(c),
          answer |-> IF reply = "answer" THEN "answer" ELSE "(empty response)"]

==============================================================================
