SPECIFICATION Spec
CONSTANTS
  Tasks = {t1}
  Legacy = {}
  Workers = {w1}
  RetryCounts = {0}
  MaxRounds = 1
  MaxFaults = 1
  NoJob = NoJob
INVARIANTS
  RetryCountIsMaximum
