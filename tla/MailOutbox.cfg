SPECIFICATION Spec
CONSTANTS
  Tasks = {t1}
  Legacy = {}
  Workers = {w1, w2}
  RetryCounts = {0, 1}
  MaxRounds = 2
  MaxFaults = 3
  NoJob = NoJob
SYMMETRY WorkerSymmetry
INVARIANTS
  TypeOK
  LeaseIdentity
  HistoryComplete
  HistoryMatchesCounter
  SentIsBacked
  DuplicatesNeedFaults
  BudgetKept
  DeletedStaysDeleted
PROPERTIES
  SentAttemptsStand
  ImplementsMailTask
