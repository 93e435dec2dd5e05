\* Approval, epochs and recovery: the cases of MCExecution that look for bad states.
SPECIFICATION Spec
CONSTANTS
  s1 = s1
  s2 = s2
  s3 = s3
  Nil = Nil
SYMMETRY EqualSlots
INVARIANTS
  ExecutorsKeepLedger
PROPERTIES
  PublishedInApprovedEpoch
CHECK_DEADLOCK FALSE
