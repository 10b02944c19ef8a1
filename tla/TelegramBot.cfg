CONSTANTS
  botA = botA
  botB = botB
  None = None
  Tokens = {botA, botB}
  MaxCalls = 2
  MaxCodes = 1
  MaxMessages = 2
  MaxStarts = 2
\* The last process may have stopped.
CHECK_DEADLOCK FALSE
SPECIFICATION FairSpec
INVARIANTS
  OnePoller
  LinkedByBot
  NothingSkipped
  RepeatsExplained
PROPERTIES
  MessagesRead
