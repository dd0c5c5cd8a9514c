SPECIFICATION Spec
CONSTANTS
  a = a
  b = b
  likes = likes
  users = users
  Key = {a, b}
  Top = Top
  Empty = Empty
  None = None
  Value <- MCValue
  Query = {likes, users}
  Permanent = {users}
  Data = likes
  Scripts <- MCScripts
  First = 0
  Foreign <- MCForeign
  MaxPuts = 2
  MaxListens = 1
  MaxFaults = 1
INVARIANTS
  IInv
  NeverStranded
  AcksReleased
  PendingExact
  ViewExact
  Converges
PROPERTIES
  NeverOlder
  ReplaySpec
CHECK_DEADLOCK FALSE
