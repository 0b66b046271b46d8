SPECIFICATION FairPageSpec
CONSTANTS
  Handlers = {call, tab1, tab2}
  Bridges = {call}
  MaxConversations = 2
  MaxFragments = 1
  None = None
INVARIANTS
  PageTypeOK
  PageShowsOneThread
  PageKnowsClosed
PROPERTIES
  EndedChatIsLeftAlone
  TypingEnds
CHECK_DEADLOCK FALSE
