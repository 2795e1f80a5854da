SPECIFICATION Spec
CONSTANTS
  Tasks = {t1, t2}
  Closer = c
  NoTask = NoTask
  NoNode = NoNode
  Peers = {ed25519, rsa}
  Embedded = {ed25519}
  Ticketed = {ed25519, rsa}
  MaxNodes = 3
INVARIANT TicketSuffices
