\* Both extractors, all settings, replies in every wrapping.
SPECIFICATION Spec
CONSTANTS
  Events = {1, 2}
  Said <- MCSaid
  EndTime <- MCEndTime
  MinWords = 5
  MinSentenceWords = 6
  MaxSentences = 2
  DecisionThreshold = 65
  EdgeThreshold = 70
  EdgeMinOverlap = 1
  EdgeChunk = 2
  SalvageTries = 50
  BatchEvents = 2
  RecentNodes = 3
  AgentNodes = 1
  Settings <- MCSettings
  Judgements <- MCJudgements
  RelationAnswers <- MCRelationAnswers
  Payloads <- MCPayloads
  Wrappings <- MCWrappings
  MaxCut = 16
INVARIANTS
  Inv
  JudgedIsKept
  ReplyIsKept
PROPERTIES
  BatchEnds
