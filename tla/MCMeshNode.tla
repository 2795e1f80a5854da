----------------------------- MODULE MCMeshNode -----------------------------
(***************************************************************************)
(* Instances of MeshNode: two nodes that bootstrap from each other, and a  *)
(* third that lists one of them.                                           *)
(***************************************************************************)
EXTENDS MeshNode, TLC

CONSTANTS n1, n2, n3

Mutual == n1 :> <<n2>> @@ n2 :> <<n1>>

\* n1 also lists itself.
Three == n1 :> <<n1, n2>> @@ n2 :> <<n1>> @@ n3 :> <<n2>>

==============================================================================
