\* Every call may fail, and the process may be restarted twice; short lines, and lines
\* that are longer than the limit.
SPECIFICATION Spec
CONSTANTS
  MaxBytes = 2
  Lengths = {1, 3}
  Faults <- AllFaults
  MaxRecords = 4
  MaxRestarts = 2
  MaxTime = 2
INVARIANTS TypeOK LossOnlyAfterRestart StoredInOrder OverrunBounded
