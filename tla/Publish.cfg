SPECIFICATION Spec
CONSTANTS
  BlockCount = 2
  Routes = {"direct", "scratch", "batch"}
  MaxEdits = 3
  MaxTime = 4
  TimedEdits = 1
  RefreshInterval = 2
  CollectTime = 1
INVARIANT TypeOK
PROPERTIES NoTornFile ImplementsAtomicReplace OldWritersSeen
