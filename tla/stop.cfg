SPECIFICATION FairSpec
CONSTANTS
  MaxProgress = 1
  MaxCancels = 2
INVARIANTS StopInv CanceledOnRequest MarkersDecide
PROPERTIES ImplementsSession CancelStopsWorker TimeoutEndsRun
CHECK_DEADLOCK FALSE
