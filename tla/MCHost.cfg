SPECIFICATION Spec
CONSTANTS
  MaxFilesystems = 2
  MaxBoots = 2
  None = None
  Untyped = Untyped
CHECK_DEADLOCK FALSE
INVARIANTS RunsLeaveItWhole
PROPERTIES FilesystemIsKept
