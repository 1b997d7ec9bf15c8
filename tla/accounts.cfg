SPECIFICATION Spec
CONSTANTS
  Conns = {c1, c2}
  Names = {alice, bob}
  Passwords = {p1, p2}
  Chroots = {noRoot, home}
  NoRoot = noRoot
  NoName = noName
  NoUser = noUser
  MaxCommands = 4
SYMMETRY Symmetry
CHECK_DEADLOCK FALSE
INVARIANTS TypeOK IdentityConsistent IdentityProven
PROPERTIES TableIsDirectory ChangesAuthorised
