CONSTANTS
  NumThreads = 3
  MaxTasks = 4
  MaxCreateFailures = 2
  Owner = Owner
  Nobody = Nobody

SPECIFICATION FairSpec
INVARIANTS IInv WorkConserving ExactlyOnce
PROPERTIES CtorPostcondition NoWorkAfterKill PoolSpec CtorReturns TasksFinish DtorReturns PoolFairSpec
