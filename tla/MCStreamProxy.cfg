SPECIFICATION MCSpec
CONSTANTS
  Window = 3
  Retained = TRUE
  Providers = 2
  Deltas <- MCDeltas
  MaxText = 6
  Phrases <- MCPhrases
  MaxPhrases = 3
  Facts <- MCFacts
  SidecarScores <- MCSidecarScores
  FailOpen = FALSE
  Rules <- MCRules
  MaxRules = 3
  Characters <- MCCharacters
  MaxChars = 5
  MaxChecked = 2
  MaxHits = 1
  MaxGrams = 2
CHECK_DEADLOCK FALSE
INVARIANTS
  HoldsBackWindow
  NoPartOfMatchSent
  RedactedUnlessCut
  RecordedUnlessRefused
  RiskCoherent
  MatchesAreBest
