CONSTANTS
  v1 = v1
  r1 = r1
  p1 = p1
  p2 = p2
  p3 = p3
  Groups <- MCGroups
  Batch <- MCBatch
  ClassOf <- MCClassOf
  Serial = {"cartograph"}
  Size = 2
SPECIFICATION FairSpec
INVARIANTS TypeOK SlotConservation HandoffComing
PROPERTIES ImplementsSemaphore UnitsJoin
