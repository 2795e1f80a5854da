----------------------------- MODULE IdentitySlot -----------------------------
(***************************************************************************)
(* What a key file promises, without the calls that make and read it: a    *)
(* place for one identity, settled once and for all.  Every process that   *)
(* runs has the identity that is settled.  Whoever dies while settling it  *)
(* may spoil the place, and then nobody ever runs.                         *)
(***************************************************************************)

CONSTANTS Procs, Keys, NoKey

VARIABLES
  slot,           \* the identity that is settled, or NoKey
  spoiled,        \* can no identity be settled any more?
  running,        \* the identity of each process that runs, or NoKey
  refused         \* the processes that were told of a spoiled place

vars == <<slot, spoiled, running, refused>>

Init ==
  /\ slot = NoKey /\ spoiled = FALSE
  /\ running = [p \in Procs |-> NoKey]
  /\ refused = {}

Settle ==
  /\ slot = NoKey /\ ~spoiled
  /\ slot' \in Keys
  /\ UNCHANGED <<spoiled, running, refused>>

Spoil ==
  /\ slot = NoKey /\ ~spoiled
  /\ spoiled' = TRUE
  /\ UNCHANGED <<slot, running, refused>>

Run(p) ==
  /\ slot # NoKey /\ running[p] = NoKey
  /\ running' = [running EXCEPT ![p] = slot]
  /\ UNCHANGED <<slot, spoiled, refused>>

Refuse(p) ==
  /\ spoiled
  /\ refused' = refused \cup {p}
  /\ UNCHANGED <<slot, spoiled, running>>

Stop(p) ==
  /\ running' = [running EXCEPT ![p] = NoKey]
  /\ refused' = refused \ {p}
  /\ UNCHANGED <<slot, spoiled>>

Next == Settle \/ Spoil \/ \E p \in Procs : Run(p) \/ Refuse(p) \/ Stop(p)

Spec == Init /\ [][Next]_vars

==============================================================================
