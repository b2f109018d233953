SPECIFICATION ConversationSpec
CONSTANTS
  Undated <- MCUndated
  ModelList <- MCModelList
  Names = {"sonnet", "gpt", "sonnet-20250514"}
  MaxMappings = 2
  MaxTurns = 2
  MaxCalls = 2
  SystemLength = 1
  Nothing = Nothing
  NoCall = NoCall
INVARIANTS
  ResentOnce
  ToolsAnswered
  ServedAsListed
CHECK_DEADLOCK FALSE
