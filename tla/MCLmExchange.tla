---------------------------- MODULE MCLmExchange -----------------------------
(* Instances of LmExchange for TLC.                                        *)
EXTENDS LmExchange, TLC

\* Streams and peers are interchangeable: for the runs without liveness.
Symmetry == Permutations(Streams) \cup Permutations(Peers)

==============================================================================
