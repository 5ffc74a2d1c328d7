CONSTANTS
  QueueSize = 2
  MaxFrames = 4
  MaxErrors = 2
SPECIFICATION FairSpec
INVARIANTS TypeOK NeverRaises Conservation KeepsNewest DeliveredInOrder StatsExact ShutdownLosesAtMostOne
PROPERTIES ImplementsChannel EveryFrameSettles SignalEndsProcess
