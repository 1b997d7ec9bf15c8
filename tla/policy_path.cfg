SPECIFICATION Spec
CONSTANTS
  Clients = {c1}
  NoClient = noClient
  Keys = {a}
  UserData = {u1}
  PathKinds = {"plain", "reserved"}
  Faults = {}
  MaxChanges = 1
  MaxStarts = 1
  MaxCerts = 1
CHECK_DEADLOCK FALSE
INVARIANTS PolicyKeepsPath
