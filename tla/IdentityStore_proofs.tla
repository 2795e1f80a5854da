------------------------ MODULE IdentityStore_proofs -------------------------
(***************************************************************************)
(* Proofs about IdentityStore when processes are started one after the     *)
(* other, for any number of processes and restarts, killed at any point.   *)
(***************************************************************************)
EXTENDS IdentityStore, TLAPS

\* The initial state satisfies SerialInv.
LEMMA SerialInit == Init => SerialInv
  BY DEF Init, SerialInv, TypeOK, File, Process, Off, OneStarts, CreationInv,
         StoreInv, FailedInv, Starting, Creating

\* A process is started while no other is starting.
LEMMA StartStep ==
  ASSUME SerialInv, NEW p \in Procs, Start(p), \A q \in Procs : ~Starting(q)
  PROVE  SerialInv'
<1>. USE DEF SerialInv, TypeOK, Process, Start, Goto
<1>1. TypeOK'
  BY DEF File
<1>2. OneStarts'
  BY DEF OneStarts, Starting, Creating
<1>3. CreationInv' /\ StoreInv' /\ FailedInv'
  BY DEF CreationInv, StoreInv, FailedInv, Starting, Creating
<1>. QED
  BY <1>1, <1>2, <1>3

\* The existing file is read.
LEMMA LoadStep ==
  ASSUME SerialInv, NEW p \in Procs, Load(p)
  PROVE  SerialInv'
<1>1. CASE file.seed = NoKey
  <2>1. /\ proc[p].pc = "read"
        /\ proc' = [proc EXCEPT ![p].pc = "failed"]
        /\ UNCHANGED <<file, used>>
    BY <1>1 DEF Load, Goto
  <2>2. \A q \in Procs : ~Creating(q)
    BY <2>1 DEF SerialInv, OneStarts, Starting, Creating
  <2>. QED
    BY <1>1, <2>1, <2>2 DEF SerialInv, TypeOK, Process, OneStarts,
      CreationInv, StoreInv, FailedInv, Starting, Creating
<1>2. CASE file.seed # NoKey
  <2>1. /\ proc[p].pc = "read"
        /\ proc' = [proc EXCEPT ![p].pc = "up", ![p].key = file.seed]
        /\ used' = used \cup {file.seed}
        /\ UNCHANGED file
    BY <1>2 DEF Load, ComeUp
  <2>2. \A q \in Procs : ~Creating(q)
    BY <2>1 DEF SerialInv, OneStarts, Starting, Creating
  <2>3. TypeOK'
    BY <1>2, <2>1 DEF SerialInv, TypeOK, File, Process
  <2>. QED
    BY <1>2, <2>1, <2>2, <2>3 DEF SerialInv, TypeOK, Process, OneStarts,
      CreationInv, StoreInv, FailedInv, Starting, Creating
<1>. QED
  BY <1>1, <1>2

\* A key pair is generated.
LEMMA GenerateStep ==
  ASSUME SerialInv, NEW p \in Procs, Generate(p)
  PROVE  SerialInv'
<1>1. PICK k \in Keys :
        proc' = [proc EXCEPT ![p].pc = "open", ![p].key = k]
  BY DEF Generate
<1>2. proc[p].pc = "generate" /\ UNCHANGED <<file, used>>
  BY DEF Generate
<1>3. TypeOK'
  BY <1>1, <1>2 DEF SerialInv, TypeOK, File, Process
<1>. QED
  BY <1>1, <1>2, <1>3, IdentityStoreAssumption
  DEF SerialInv, TypeOK, Process, OneStarts, CreationInv, StoreInv, FailedInv,
      Starting, Creating

\* The file is created.
LEMMA OpenFileStep ==
  ASSUME SerialInv, NEW p \in Procs, OpenFile(p)
  PROVE  SerialInv'
  BY DEF SerialInv, TypeOK, File, Process, OneStarts, CreationInv, StoreInv,
         FailedInv, Starting, Creating, OpenFile, Goto

\* The seed is written.
LEMMA WriteSeedStep ==
  ASSUME SerialInv, NEW p \in Procs, WriteSeed(p)
  PROVE  SerialInv'
  BY DEF SerialInv, TypeOK, File, Process, OneStarts, CreationInv, StoreInv,
         FailedInv, Starting, Creating, WriteSeed, Goto

\* The mode is set and the creator comes up.
LEMMA ChmodStep ==
  ASSUME SerialInv, NEW p \in Procs, Chmod(p)
  PROVE  SerialInv'
<1>1. /\ proc[p].pc = "chmod"
      /\ file' = [file EXCEPT !.mode = "0600"]
      /\ proc' = [proc EXCEPT ![p].pc = "up", ![p].key = proc[p].key]
      /\ used' = used \cup {proc[p].key}
  BY DEF Chmod, ComeUp
<1>2. TypeOK'
  BY <1>1 DEF SerialInv, TypeOK, File, Process, CreationInv
<1>. QED
  BY <1>1, <1>2 DEF SerialInv, TypeOK, File, Process, OneStarts, CreationInv,
    StoreInv, FailedInv, Starting, Creating

\* A process is killed.
LEMMA QuitStep ==
  ASSUME SerialInv, NEW p \in Procs, Quit(p)
  PROVE  SerialInv'
  BY DEF SerialInv, TypeOK, Process, OneStarts, CreationInv, StoreInv,
         FailedInv, Starting, Creating, Quit, Off

\* SerialInv is inductive.
LEMMA SerialStep == SerialInv /\ [SerialNext]_vars => SerialInv'
<1>. SUFFICES ASSUME SerialInv, [SerialNext]_vars PROVE SerialInv'
  OBVIOUS
<1>1. CASE UNCHANGED vars
  BY <1>1 DEF SerialInv, TypeOK, OneStarts, CreationInv, StoreInv, FailedInv,
    Starting, Creating, vars
<1>. QED
  BY <1>1, StartStep, LoadStep, GenerateStep, OpenFileStep, WriteSeedStep,
     ChmodStep, QuitStep
  DEF SerialNext, Step

\* SerialInv is an invariant.
THEOREM SerialInvariant == SerialSpec => []SerialInv
<1>. QED
  BY SerialInit, SerialStep, PTL DEF SerialSpec

\* The file, the processes and the history have their types.
THEOREM StoreTypes == SerialSpec => []TypeOK
<1>1. SerialInv => TypeOK
  BY DEF SerialInv
<1>. QED
  BY <1>1, SerialInvariant, PTL

\* However often processes are started one after the other, and wherever they
\* are killed, all that come up have the one identity that the file holds.
THEOREM IdentityStays == SerialSpec => []OneIdentity
<1>1. SerialInv => OneIdentity
  BY DEF SerialInv, StoreInv, OneIdentity
<1>. QED
  BY <1>1, SerialInvariant, PTL

\* Once a process has come up, no later start fails on the key file.
THEOREM RestartsSucceed == SerialSpec => []RestartsAfterUp
<1>1. SerialInv => RestartsAfterUp
  BY DEF SerialInv, StoreInv, FailedInv, RestartsAfterUp
<1>. QED
  BY <1>1, SerialInvariant, PTL

------------------------------------------------------------------------------
(* The key file is a place that is settled once (IdentitySlot)             *)

\* Nothing that the users of the file see.
SlotSame ==
  /\ file'.seed = file.seed
  /\ Spoiled' = Spoiled
  /\ Running' = Running
  /\ Refused' = Refused

LEMMA SlotInit == Init => Slot!Init
  BY DEF Init, Off, Slot!Init, Spoiled, Running, Refused

LEMMA NotSpoiled == ASSUME ~Spoiled, ~Spoiled' PROVE Spoiled' = Spoiled
  BY DEF Spoiled

\* A process that is neither up nor failed, before and after, runs with
\* nothing and was refused nothing.
LEMMA OthersSee ==
  ASSUME SerialInv, NEW p \in Procs,
         \A q \in Procs \ {p} : proc'[q] = proc[q],
         proc[p].pc \notin {"up", "failed"}, proc'[p].pc \notin {"up", "failed"}
  PROVE  Running' = Running /\ Refused' = Refused
  BY DEF Running, Refused

\* The seed is settled by who creates the file, for nobody yet.
LEMMA WriteSeedMaps ==
  ASSUME SerialInv, NEW p \in Procs, WriteSeed(p)
  PROVE  Slot!Settle
<1>1. /\ proc[p].pc = "write"
      /\ proc' = [proc EXCEPT ![p].pc = "chmod"]
      /\ file' = [file EXCEPT !.seed = proc[p].key]
  BY DEF WriteSeed, Goto
<1>2. /\ file'.seed = proc[p].key /\ file.seed = NoKey
      /\ proc[p].key \in Keys
  BY <1>1, IdentityStoreAssumption
     DEF SerialInv, TypeOK, File, Process, CreationInv
<1>3. Creating(p) /\ Creating(p)'
  BY <1>1 DEF SerialInv, TypeOK, Process, Creating
<1>4. ~Spoiled /\ ~Spoiled'
  BY <1>3 DEF Spoiled
<1>5. UNCHANGED <<Running, Refused>>
  BY <1>1, OthersSee DEF SerialInv, TypeOK, Process
<1>. QED
  BY <1>2, <1>4, <1>5, NotSpoiled DEF Slot!Settle

\* Who comes up has the identity in the file.
LEMMA ComeUpMaps ==
  ASSUME SerialInv, NEW p \in Procs, ComeUp(p, file.seed), file.seed # NoKey,
         proc[p].pc # "up", proc[p].pc # "failed", file'.seed = file.seed
  PROVE  Slot!Run(p)
<1>1. proc' = [proc EXCEPT ![p].pc = "up", ![p].key = file.seed]
  BY DEF ComeUp
<1>2. /\ proc'[p].pc = "up" /\ proc'[p].key = file.seed
      /\ \A q \in Procs \ {p} : proc'[q] = proc[q]
  BY <1>1 DEF SerialInv, TypeOK, Process
<1>3. Running[p] = NoKey /\ Running' = [Running EXCEPT ![p] = file.seed]
  BY <1>2 DEF Running
<1>4. Refused' = Refused
  BY <1>2 DEF Refused
<1>5. ~Spoiled /\ ~Spoiled'
  BY DEF Spoiled
<1>. QED
  BY <1>3, <1>4, <1>5, NotSpoiled DEF Slot!Run

LEMMA ChmodMaps ==
  ASSUME SerialInv, NEW p \in Procs, Chmod(p)
  PROVE  Slot!Run(p)
<1>1. proc[p].pc = "chmod" /\ file' = [file EXCEPT !.mode = "0600"]
  BY DEF Chmod
<1>2. proc[p].key = file.seed /\ file.seed # NoKey /\ file'.seed = file.seed
  BY <1>1 DEF SerialInv, TypeOK, File, CreationInv
<1>3. ComeUp(p, file.seed)
  BY <1>2 DEF Chmod
<1>. QED
  BY <1>1, <1>2, <1>3, ComeUpMaps

\* A start that finds no seed is refused: nobody is there to write one.
LEMMA LoadMaps ==
  ASSUME SerialInv, NEW p \in Procs, Load(p)
  PROVE  Slot!Run(p) \/ Slot!Refuse(p)
<1>1. proc[p].pc = "read" /\ file' = file
  BY DEF Load
<1>2. CASE file.seed = NoKey
  <2>1. proc' = [proc EXCEPT ![p].pc = "failed"]
    BY <1>2 DEF Load, Goto
  <2>2. /\ proc'[p].pc = "failed"
        /\ \A q \in Procs \ {p} : proc'[q] = proc[q]
    BY <2>1 DEF SerialInv, TypeOK, Process
  <2>3. \A q \in Procs : ~Creating(q)
    BY <1>1 DEF SerialInv, OneStarts, Starting, Creating
  <2>4. \A q \in Procs : ~Creating(q)'
    BY <2>2, <2>3 DEF Creating
  <2>5. Spoiled /\ Spoiled'
    BY <1>1, <1>2, <2>3, <2>4 DEF SerialInv, FailedInv, Spoiled
  <2>6. Running' = Running
    BY <1>1, <2>2 DEF Running
  <2>7. Refused' = Refused \cup {p}
    BY <2>2 DEF Refused
  <2>. QED
    BY <1>1, <2>5, <2>6, <2>7 DEF Slot!Refuse
<1>3. CASE file.seed # NoKey
  <2>1. ComeUp(p, file.seed)
    BY <1>3 DEF Load
  <2>. QED
    BY <1>1, <1>3, <2>1, ComeUpMaps
<1>. QED
  BY <1>2, <1>3

\* The steps before the seed is written are nobody's business.
LEMMA CreationMaps ==
  ASSUME SerialInv, NEW p \in Procs,
         \/ Start(p)
         \/ Generate(p)
         \/ OpenFile(p)
  PROVE  SlotSame
<1>1. CASE Start(p)
  <2>1. /\ proc[p].pc = "off" /\ file' = file
        /\ proc' = [proc EXCEPT ![p].pc =
                      IF file.there THEN "read" ELSE "generate"]
    BY <1>1 DEF Start, Goto
  <2>2. /\ \A q \in Procs \ {p} : proc'[q] = proc[q]
        /\ proc'[p].pc = IF file.there THEN "read" ELSE "generate"
    BY <2>1 DEF SerialInv, TypeOK, Process
  <2>3. Running' = Running /\ Refused' = Refused
    BY <2>1, <2>2, OthersSee
  <2>4. Spoiled' = Spoiled
    BY <2>1, <2>2 DEF Spoiled, Creating
  <2>. QED
    BY <2>1, <2>3, <2>4 DEF SlotSame
<1>2. CASE Generate(p)
  <2>1. PICK k : proc' = [proc EXCEPT ![p].pc = "open", ![p].key = k]
    BY <1>2 DEF Generate
  <2>2. proc[p].pc = "generate" /\ file' = file
    BY <1>2 DEF Generate
  <2>3. /\ \A q \in Procs \ {p} : proc'[q] = proc[q]
        /\ proc'[p].pc = "open"
    BY <2>1 DEF SerialInv, TypeOK, Process
  <2>4. Running' = Running /\ Refused' = Refused
    BY <2>2, <2>3, OthersSee
  <2>5. ~Spoiled /\ ~Spoiled'
    BY <2>2, <2>3 DEF Spoiled, Creating
  <2>. QED
    BY <2>2, <2>4, <2>5, NotSpoiled DEF SlotSame
<1>3. CASE OpenFile(p)
  <2>1. /\ proc[p].pc = "open"
        /\ proc' = [proc EXCEPT ![p].pc = "write"]
        /\ file' = [file EXCEPT !.there = TRUE, !.seed = NoKey]
    BY <1>3 DEF OpenFile, Goto
  <2>2. /\ \A q \in Procs \ {p} : proc'[q] = proc[q]
        /\ proc'[p].pc = "write"
        /\ file'.seed = NoKey
    BY <2>1 DEF SerialInv, TypeOK, Process, File
  <2>3. file.seed = NoKey
    BY <2>1 DEF SerialInv, CreationInv, StoreInv
  <2>4. Running' = Running /\ Refused' = Refused
    BY <2>1, <2>2, OthersSee
  <2>5. ~Spoiled /\ ~Spoiled'
    BY <2>1, <2>2 DEF Spoiled, Creating
  <2>. QED
    BY <2>2, <2>3, <2>4, <2>5, NotSpoiled DEF SlotSame
<1>. QED
  BY <1>1, <1>2, <1>3

\* A process that ends runs no more; one that dies with the file open spoils
\* it.
LEMMA QuitMaps ==
  ASSUME SerialInv, NEW p \in Procs, Quit(p)
  PROVE  Slot!Spoil \/ Slot!Stop(p)
<1>1. proc' = [proc EXCEPT ![p] = Off] /\ file' = file
  BY DEF Quit
<1>2. /\ proc'[p] = Off
      /\ \A q \in Procs \ {p} : proc'[q] = proc[q]
  BY <1>1 DEF SerialInv, TypeOK
<1>3. ~Creating(p)'
  BY <1>2 DEF Creating, Off
<1>4. CASE proc[p].pc = "write"
  <2>1. ~Spoiled
    BY <1>4 DEF Spoiled, Creating
  <2>2. \A q \in Procs \ {p} : ~Creating(q)
    BY <1>4 DEF SerialInv, OneStarts, Starting, Creating
  <2>3. \A q \in Procs : ~Creating(q)'
    BY <1>2, <1>3, <2>2 DEF Creating
  <2>4. file.there /\ file.seed = NoKey
    BY <1>4 DEF SerialInv, CreationInv
  <2>5. Spoiled'
    BY <1>1, <2>3, <2>4 DEF Spoiled
  <2>6. Running' = Running /\ Refused' = Refused
    BY <1>2, <1>4, OthersSee DEF Off
  <2>. QED
    BY <1>1, <2>1, <2>4, <2>5, <2>6, Zenon DEF Slot!Spoil
<1>5. CASE proc[p].pc # "write"
  <2>0. proc'[p].pc = "off"
    BY <1>2 DEF Off
  <2>1. Running' = [Running EXCEPT ![p] = NoKey]
    <3>1. \A q \in Procs :
            Running'[q] = IF q = p THEN NoKey ELSE Running[q]
      BY <1>2, <2>0 DEF Running
    <3>. QED
      BY <3>1 DEF Running
  <2>2. Refused' = Refused \ {p}
    BY <1>2 DEF Refused, Off
  <2>3. Creating(p) => ~(file.there /\ file.seed = NoKey)
    BY <1>5 DEF SerialInv, CreationInv, Creating
  <2>4. \A q \in Procs \ {p} : Creating(q)' <=> Creating(q)
    BY <1>2 DEF Creating
  <2>5. Spoiled' = Spoiled
    BY <1>1, <1>3, <2>3, <2>4 DEF Spoiled
  <2>. QED
    BY <1>1, <2>1, <2>2, <2>5 DEF Slot!Stop
<1>. QED
  BY <1>4, <1>5

\* Every step of the processes is a step of the place, or none.
LEMMA SlotStep == SerialInv /\ [SerialNext]_vars => [Slot!Next]_Slot!vars
<1>. SUFFICES ASSUME SerialInv, [SerialNext]_vars
              PROVE  Slot!Next \/ SlotSame
  BY DEF SlotSame, Slot!vars
<1>1. CASE UNCHANGED vars
  BY <1>1 DEF vars, SlotSame, Spoiled, Creating, Running, Refused
<1>2. CASE SerialNext
  <2>1. PICK p \in Procs : Start(p) \/ Step(p) \/ Quit(p)
    BY <1>2 DEF SerialNext
  <2>2. CASE Start(p) \/ Generate(p) \/ OpenFile(p)
    BY <2>2, CreationMaps
  <2>3. CASE WriteSeed(p)
    BY <2>3, WriteSeedMaps DEF Slot!Next
  <2>4. CASE Chmod(p)
    BY <2>4, ChmodMaps DEF Slot!Next
  <2>5. CASE Load(p)
    BY <2>5, LoadMaps DEF Slot!Next
  <2>6. CASE Quit(p)
    BY <2>6, QuitMaps DEF Slot!Next
  <2>. QED
    BY <2>1, <2>2, <2>3, <2>4, <2>5, <2>6 DEF Step
<1>. QED
  BY <1>1, <1>2

\* Processes started one after the other, and killed anywhere, use the file as a
\* place for one identity that is settled once: the refinement.
THEOREM IdentityKept == SerialSpec => KeepsIdentity
  BY SlotInit, SlotStep, SerialInvariant, PTL
     DEF SerialSpec, KeepsIdentity, Slot!Spec

------------------------------------------------------------------------------
(* Starts that overlap, without kills                                      *)

LEMMA RaceInit == Init => RaceInv
  BY DEF Init, RaceInv, TypeOK, File, Process, Off, SeedComes

LEMMA RaceStep == RaceInv /\ [NoCrashNext]_vars => RaceInv'
<1>. SUFFICES ASSUME RaceInv, [NoCrashNext]_vars PROVE RaceInv'
  OBVIOUS
<1>. USE DEF RaceInv, TypeOK, Process, SeedComes
<1>1. CASE UNCHANGED vars
  BY <1>1 DEF vars
<1>2. ASSUME NEW p \in Procs, Start(p)
      PROVE  RaceInv'
  BY <1>2 DEF Start, Goto
<1>3. ASSUME NEW p \in Procs, Load(p)
      PROVE  RaceInv'
  <2>1. CASE file.seed = NoKey
    BY <1>3, <2>1 DEF Load, Goto
  <2>2. CASE file.seed # NoKey
    BY <1>3, <2>2 DEF Load, ComeUp, File
  <2>. QED
    BY <2>1, <2>2
<1>4. ASSUME NEW p \in Procs, Generate(p)
      PROVE  RaceInv'
  <2>1. PICK k \in Keys :
          proc' = [proc EXCEPT ![p].pc = "open", ![p].key = k]
    BY <1>4 DEF Generate
  <2>2. proc[p].pc = "generate" /\ UNCHANGED <<file, used>>
    BY <1>4 DEF Generate
  <2>. QED
    BY <2>1, <2>2, IdentityStoreAssumption
<1>5. ASSUME NEW p \in Procs, OpenFile(p)
      PROVE  RaceInv'
  BY <1>5 DEF OpenFile, Goto, File
<1>6. ASSUME NEW p \in Procs, WriteSeed(p)
      PROVE  RaceInv'
  BY <1>6 DEF WriteSeed, Goto, File
<1>7. ASSUME NEW p \in Procs, Chmod(p)
      PROVE  RaceInv'
  BY <1>7 DEF Chmod, ComeUp, File
<1>8. ASSUME NEW p \in Procs, Quit(p), ~Creating(p)
      PROVE  RaceInv'
  BY <1>8 DEF Quit, Off, Creating
<1>. QED
  BY <1>1, <1>2, <1>3, <1>4, <1>5, <1>6, <1>7, <1>8 DEF NoCrashNext, Step

\* Starts that race may leave two identities in use, but they never leave a
\* file that keeps the later starts from coming up.
THEOREM RacesHeal == NoCrashSpec => []SeedComes
<1>1. RaceInv => SeedComes
  BY DEF RaceInv
<1>. QED
  BY <1>1, RaceInit, RaceStep, PTL DEF NoCrashSpec

==============================================================================
