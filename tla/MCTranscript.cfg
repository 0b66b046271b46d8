SPECIFICATION FairTranscriptSpec
CONSTANTS
  Handlers = {call, tab}
  Bridges = {call}
  MaxConversations = 3
  MaxTurns = 3
  MaxFragments = 2
  None = None
INVARIANTS
  TranscriptTypeOK
  AnswerFollowsQuestion
  PromptIsWhatPrecedes
  NoHalfExchange
  CallStaysInThread
  CallIsRemembered
PROPERTIES
  SpeechHandedOverInOrder
  BridgeIsFreed
CHECK_DEADLOCK FALSE
