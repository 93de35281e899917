SPECIFICATION FairSpec
CONSTANTS
  OutboundLimit = 2
  HistoryLimit = 3
  PipeLimit = 1
  MaxEvents = 4
  MaxDropped = 2
INVARIANTS NewAndInOrder CriticalOnTheWay DropsAnnounced
PROPERTIES StreamSpec CriticalArrives
CHECK_DEADLOCK FALSE
