SPECIFICATION Spec
CONSTANTS
  Tasks = {t1, t2}
  Workers = {w1, w2}
  SignalCap = 1
  MaxRetries = 1
  None = None
INVARIANTS TypeOK SignalAccounting OneHolder
PROPERTIES KeepsPool QueuedTaskStarts ShutdownEnds
