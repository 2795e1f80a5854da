---------------------------- MODULE IdentityStore ----------------------------
(***************************************************************************)
(* identity_store.load_or_create_keypair: the processes (serve, lm-chat,   *)
(* print-ticket) that share one identity_key_file, what each does with the *)
(* file when it starts, and crashes between the steps.  The file system's  *)
(* calls are atomic, the function is not.                                  *)
(***************************************************************************)
EXTENDS Naturals, FiniteSets

CONSTANTS
  Procs,          \* processes that are started with the same config
  Keys,           \* Ed25519 seeds; generating one never repeats another
  NoKey           \* no seed: an empty file, or a process without identity

ASSUME IdentityStoreAssumption == NoKey \notin Keys

VARIABLES
  file,           \* the key file
  proc,           \* each process: where it is and its key pair
  used            \* history: the identities processes came up with

vars == <<file, proc, used>>

\* mode: the permissions of the file, "umask" as created, "0600" once chmod
\* is done.
File == [there : BOOLEAN, seed : Keys \cup {NoKey}, mode : {"umask", "0600"}]

Process ==
  [pc  : {"off", "read", "generate", "open", "write", "chmod", "up", "failed"},
   key : Keys \cup {NoKey}]

TypeOK ==
  /\ file \in File
  /\ proc \in [Procs -> Process]
  /\ used \in SUBSET Keys

Off == [pc |-> "off", key |-> NoKey]

Init ==
  /\ file = [there |-> FALSE, seed |-> NoKey, mode |-> "umask"]
  /\ proc = [p \in Procs |-> Off]
  /\ used = {}

Goto(p, l) == proc' = [proc EXCEPT ![p].pc = l]

\* The process comes up with the identity k.
ComeUp(p, k) ==
  /\ proc' = [proc EXCEPT ![p].pc = "up", ![p].key = k]
  /\ used' = used \cup {k}

------------------------------------------------------------------------------

\* Mutant: the file is written at every start.
StartAlwaysCreates(p) ==
  /\ proc[p].pc = "off"
  /\ Goto(p, "generate")
  /\ UNCHANGED <<file, used>>

\* Mutant: a file that is not protected yet is created anew.
StartDistrustsMode(p) ==
  /\ proc[p].pc = "off"
  /\ Goto(p, IF file.there /\ file.mode = "0600" THEN "read" ELSE "generate")
  /\ UNCHANGED <<file, used>>

\* path.exists() decides between loading and creating.
Start(p) ==
  /\ proc[p].pc = "off"
  /\ Goto(p, IF file.there THEN "read" ELSE "generate")
  /\ UNCHANGED <<file, used>>

\* Mutant: the length of the file is not checked.
LoadUnchecked(p) ==
  /\ proc[p].pc = "read"
  /\ ComeUp(p, file.seed)
  /\ UNCHANGED file

\* read_bytes, and ValueError when the file does not hold 32 bytes.
Load(p) ==
  /\ proc[p].pc = "read"
  /\ IF file.seed = NoKey
       THEN Goto(p, "failed") /\ UNCHANGED used
       ELSE ComeUp(p, file.seed)
  /\ UNCHANGED file

\* generate_new_ed25519_identity: a seed nobody has.
Generate(p) ==
  /\ proc[p].pc = "generate"
  /\ \E k \in Keys \ (used \cup {file.seed} \cup {proc[q].key : q \in Procs}) :
       proc' = [proc EXCEPT ![p].pc = "open", ![p].key = k]
  /\ UNCHANGED <<file, used>>

\* Mutant: the key pair is used before it is on disk.
OpenComesUp(p) ==
  /\ proc[p].pc = "open"
  /\ file' = [file EXCEPT !.there = TRUE, !.seed = NoKey]
  /\ Goto(p, "write")
  /\ used' = used \cup {proc[p].key}

\* write_bytes opens the file: created with the umask's permissions, or cut to
\* nothing when another process has created it in the meantime ...
OpenFile(p) ==
  /\ proc[p].pc = "open"
  /\ file' = [file EXCEPT !.there = TRUE, !.seed = NoKey]
  /\ Goto(p, "write")
  /\ UNCHANGED used

\* ... and puts the seed at its beginning.
WriteSeed(p) ==
  /\ proc[p].pc = "write"
  /\ file' = [file EXCEPT !.seed = proc[p].key]
  /\ Goto(p, "chmod")
  /\ UNCHANGED used

Chmod(p) ==
  /\ proc[p].pc = "chmod"
  /\ file' = [file EXCEPT !.mode = "0600"]
  /\ ComeUp(p, proc[p].key)

\* The process is stopped or killed, at any point; one that failed is gone.
Quit(p) ==
  /\ proc[p].pc # "off"
  /\ proc' = [proc EXCEPT ![p] = Off]
  /\ UNCHANGED <<file, used>>

Step(p) ==
  \/ Load(p) \/ Generate(p) \/ OpenFile(p) \/ WriteSeed(p) \/ Chmod(p)

\* Nobody is killed while it creates the file.
Creating(p) == proc[p].pc \in {"generate", "open", "write", "chmod"}

NoCrashNext ==
  \E p \in Procs : Start(p) \/ Step(p) \/ (~Creating(p) /\ Quit(p))

NoCrashSpec == Init /\ [][NoCrashNext]_vars

\* A process is started when no other is starting: those that are up may stay.
Starting(p) == proc[p].pc = "read" \/ Creating(p)

SerialNext ==
  \E p \in Procs :
    \/ Start(p) /\ \A q \in Procs : ~Starting(q)
    \/ Step(p) \/ Quit(p)

SerialSpec == Init /\ [][SerialNext]_vars

------------------------------------------------------------------------------

\* The PeerId stays the same across restarts: all the processes that ever came
\* up had the identity that is in the file.
OneIdentity == used # {} => used = {file.seed}

\* A process that came up once can always be started again: a start fails on
\* the file only if no process ever came up with it.
RestartsAfterUp == \A p \in Procs : proc[p].pc = "failed" => used = {}

\* The PeerId stays the same: no two identities are ever used.
StablePeerId == Cardinality(used) <= 1

\* Every start finds 32 bytes, or creates them.
StartNeverFails == \A p \in Procs : proc[p].pc # "failed"

(***************************************************************************)
(* The key file as the processes that share it see it.                     *)
(***************************************************************************)

\* The file was found, or left behind, without a seed.
Spoiled ==
  /\ file.there /\ file.seed = NoKey
  /\ \A p \in Procs : ~Creating(p)

Running == [p \in Procs |-> IF proc[p].pc = "up" THEN proc[p].key ELSE NoKey]

Refused == {p \in Procs : proc[p].pc = "failed"}

Slot ==
  INSTANCE IdentitySlot WITH
    slot <- file.seed, spoiled <- Spoiled, running <- Running,
    refused <- Refused

\* Started one after the other and killed anywhere, the processes use the file
\* as a place that is settled once: from the moment the seed is written, and
\* before any of them has come up, the identity never changes, everyone who
\* runs has it, and a start is refused only when no identity was ever settled.
KeepsIdentity == Slot!Spec

\* Whatever starts overlap, if nobody is killed the file does not stay without
\* a seed: whoever opened it is about to write.
SeedComes ==
  file.there /\ file.seed = NoKey => \E p \in Procs : proc[p].pc = "write"

(***************************************************************************)
(* The inductive invariant of SerialSpec.                                  *)
(***************************************************************************)

\* One process at most is starting.
OneStarts ==
  \A p, q \in Procs : Starting(p) /\ Starting(q) => p = q

\* Who creates the file does so before anybody came up with it, and the seed
\* in the file is its own once it is written.
CreationInv ==
  \A p \in Procs :
    /\ Creating(p) => used = {}
    /\ proc[p].pc \in {"generate", "open"} => ~file.there
    /\ proc[p].pc \in {"open", "write", "chmod"} => proc[p].key # NoKey
    /\ proc[p].pc = "write" => file.there /\ file.seed = NoKey
    /\ proc[p].pc = "chmod" => file.there /\ file.seed = proc[p].key

\* The identities are the file's.
StoreInv ==
  /\ used \subseteq {file.seed} \ {NoKey}
  /\ ~file.there => file.seed = NoKey

\* A file that was found without a seed keeps everybody from starting.
FailedInv ==
  \A p \in Procs :
    /\ proc[p].pc = "read" => file.there
    /\ proc[p].pc = "failed" =>
         /\ file.there
         /\ file.seed = NoKey
         /\ \A q \in Procs : ~Creating(q)

SerialInv == TypeOK /\ OneStarts /\ CreationInv /\ StoreInv /\ FailedInv

\* That of NoCrashSpec: who creates the file has a key to write.
RaceInv ==
  /\ TypeOK
  /\ \A p \in Procs :
       proc[p].pc \in {"open", "write", "chmod"} => proc[p].key # NoKey
  /\ SeedComes

==============================================================================
