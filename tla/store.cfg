SPECIFICATION Spec
CONSTANTS
  Clients = {c1, c2}
  NoClient = noClient
  Keys = {a, b}
  UserData = {u1, u2}
  PathKinds = {"plain", "reserved", "plus"}
  Faults = {"kill", "io"}
  MaxChanges = 3
  MaxStarts = 3
  MaxCerts = 2
SYMMETRY Symmetry
CHECK_DEADLOCK FALSE
INVARIANTS TypeOK MemoryIsDurable OnlyCutsRefuse
PROPERTIES TablesAreDurable
