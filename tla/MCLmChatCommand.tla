--------------------------- MODULE MCLmChatCommand ----------------------------
(* The instance of LmChatCommand for TLC.                                  *)
EXTENDS LmChatCommand, TLC

\* No action tells one text of a user from another.
Symmetry == Permutations(Texts)

==============================================================================
