------------------------------ MODULE Allowlist ------------------------------
(***************************************************************************)
(* Who may use the LM proxy: allowlist.py, the construction of the list in *)
(* node.py and the test of lm_proxy.py.  A config entry is the PeerId it   *)
(* holds once stripped, or Blank when nothing but white space is left.     *)
(***************************************************************************)

CONSTANTS
  Peers,          \* libp2p PeerIds (base58 strings) that can be connected
  Blank,          \* a config entry that is empty once stripped
  NoPeer          \* the value None of `remote_peer_b58`

ASSUME AllowlistAssumption ==
  /\ Blank \notin Peers
  /\ NoPeer \notin Peers
  /\ NoPeer # Blank

\* node.py: an empty allow_peer_ids means no allowlist at all.
HasAllowlist(allowPeerIds) == allowPeerIds # {}

\* PeerAllowlist.__init__ drops the entries that are blank once stripped: a
\* list of blanks is still an allowlist, and admits nobody.
FromStrings(allowPeerIds) == allowPeerIds \ {Blank}

\* The handler refuses a peer only when there is an allowlist and the
\* connection's PeerId could be read.
Denied(allowPeerIds, remote) ==
  /\ HasAllowlist(allowPeerIds)
  /\ remote # NoPeer
  /\ remote \notin FromStrings(allowPeerIds)

==============================================================================
