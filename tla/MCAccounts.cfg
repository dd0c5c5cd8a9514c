\* A user who has signed up before, and a new one.
SPECIFICATION Spec
CONSTANTS
  ann = ann
  bob = bob
  User = {ann, bob}
  Old = {bob}
  None = None
  Blank = Blank
  MaxUploads = 1
  MaxReads = 2
INVARIANT
  IInv
PROPERTIES
  NameKept
  EntriesKept
  CrashExplained
CHECK_DEADLOCK FALSE
