SPECIFICATION FairSpec
CONSTANTS
  Machines = {1, 2}
  Jobs = {1, 2}
  MaxTime = 2
  Plans <- SmallPlans
INVARIANTS STypeOK ReviewOfItsAttempt SyncedIsStored
PROPERTIES Converges EditsArrive
