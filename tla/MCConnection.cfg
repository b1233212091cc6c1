SPECIFICATION FairSpec
CONSTANTS
  Channels <- MCChannels
  Names <- MCNames
  Hears <- MCHears
  OutboxDepth = 2
  MaxPublished = 2
  MaxCommands = 2
  Timeout = FALSE
  TimeoutCleared = FALSE
INVARIANTS
  DeliverySafe
PROPERTIES
  DroppedMarksClient
  EventuallyPushed
  DrainEnds
CHECK_DEADLOCK FALSE
