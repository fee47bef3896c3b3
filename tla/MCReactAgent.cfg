\* Agents that submit an answer and agents that do not, with each compaction
CONSTANTS
  Settings <- MCSettings
  Turns <- MCTurns
  KeepToolUses = 1
  TrimTenths = 2
  Thinking <- MCThinking
  MaxTurns = 3
SPECIFICATION FairSpec
INVARIANTS
  
  FinalHistory
PROPERTIES
  HistoryRetained
  AgentEnds
CHECK_DEADLOCK FALSE
