SPECIFICATION Spec
CONSTANTS
  Objects = {"first", "second"}
  FieldCounts = {1, 2}
  Counts = {1, 2, 100}
  MaxReads = 7
INVARIANTS InfoIsAlive
CHECK_DEADLOCK FALSE
