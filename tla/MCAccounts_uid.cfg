\* The same, for the assertion of the match controller.
SPECIFICATION Spec
CONSTANTS
  ann = ann
  bob = bob
  User = {ann, bob}
  Old = {bob}
  None = None
  Blank = Blank
  MaxUploads = 1
  MaxReads = 2
INVARIANT UidKnown
CHECK_DEADLOCK FALSE
