SPECIFICATION FairSpec
CONSTANTS
  r1 = r1
  r2 = r2
  w1 = w1
  w2 = w2
  Nobody = Nobody
  Readers <- TwoReaders
  Writers <- TwoWriters
  MaxTasks = 1
  MaxFailures = 1
INVARIANTS OneConnection LockNotLeaked SessionYields
PROPERTIES ReaderServed WriterServed
