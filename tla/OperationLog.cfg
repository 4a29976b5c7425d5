CONSTANTS
  Processes = {p1, p2}
  Requests = {r1, r2}
  Days = {1, 2}
  DefaultDays = 1
  MaxRevision = 2
  MaxNow = 2
SYMMETRY OperationLogSymmetry
SPECIFICATION Spec
INVARIANTS
  TypeOK
  BeforeIsFaithful
  OperationsAreOnRecord
