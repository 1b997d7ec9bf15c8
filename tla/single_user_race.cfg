SPECIFICATION Spec
CONSTANTS
  Conns = {c1, c2}
  Names = {alice, bob}
  Passwords = {p1}
  Chroots = {noRoot}
  NoRoot = noRoot
  NoName = noName
  NoUser = noUser
  MaxCommands = 3
CHECK_DEADLOCK FALSE
PROPERTIES MultiUserFromFirstUser
