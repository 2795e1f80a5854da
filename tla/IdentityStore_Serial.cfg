SPECIFICATION SerialSpec
CONSTANTS
  Procs = {p1, p2, p3}
  Keys = {k1, k2, k3, k4}
  NoKey = NoKey
INVARIANTS
  TypeOK
  OneIdentity
  RestartsAfterUp
PROPERTIES
  KeepsIdentity
