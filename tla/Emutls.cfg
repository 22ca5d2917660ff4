SPECIFICATION ThreadsSpec
CONSTANTS
  Threads = {t1, t2}
  Controls = {c1, c2}
  MaxObjects = 4
  Failures = {"malloc", "key_create", "mutex_init", "setspecific"}
  NsPerUsec = 2
  UsecPerSec = 2
  MaxUsec = 4
  Epoch = 5
  Horizon = 16
  MaxInterrupts = 2
  Deadlines <- MCDeadlines
  Sleeps <- MCSleeps
INVARIANTS
  StoragePrivate
  KeepsDeadline
  SleepsWhole
PROPERTY
  AddressStable
CHECK_DEADLOCK FALSE
