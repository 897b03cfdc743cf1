CONSTANTS
  l1 = l1  l2 = l2  t1 = t1
  NoJob = NoJob
  Jobs = {l1, l2, t1}
  ClassOf <- MCClassOf
  MaxIdles = 3
SPECIFICATION FairSpec
INVARIANTS TypeOK NoUseAfterFree RefsExact NoLostWakeup FinishedIsLast
PROPERTIES ImplementsLifecycle StarvedOnlyByUrgent RunIsReported
