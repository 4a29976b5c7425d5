SPECIFICATION FairSpec
CONSTANTS
  Tasks = {t1, t2}
  Legacy = {t2}
  Workers = {w1, w2}
  RetryCounts = {1}
  MaxRounds = 1
  MaxFaults = 1
  NoJob = NoJob
PROPERTIES
  EveryTaskFinishes
