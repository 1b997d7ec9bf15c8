SPECIFICATION Spec
CONSTANTS
  a = a
  ab = ab
  b = b
  fly = fly
  ann = ann
  c1 = c1
  c2 = c2
  p1 = p1
  p2 = p2
  Names <- MCNames
  Begins <- MCBegins
  Fly = fly
  Usernames = {ann}
  Anonymous = Anonymous
  SingleUser = SingleUser
  Clients = {c1, c2}
  Who <- MCWho
  Nodes <- MCNodes
  PolicyNames = {p1, p2}
  PolicyChoices <- MCPolicies
  NoPolicy = NoPolicy
  NoJob = NoJob
  CommandChoices <- MCCommands
  StartTrees <- MCTrees
  StartTables <- MCTables
  MaxCommands = 2
  MaxChanges = 1
SYMMETRY Symmetry
CHECK_DEADLOCK FALSE
INVARIANTS TypeOK ListIsHonest AnswersHonest
PROPERTIES NamedPathsPermitted ReservedKept UploadsKept
