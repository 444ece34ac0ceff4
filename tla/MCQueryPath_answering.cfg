CONSTANTS
  Calls = {c1, c2}
  N = 2
  MaxRetries = 2
  CooldownDefault = 1
  CooldownMax = 2
  MaxTime = 1
  ChainTokens = 2
  RrfK = 60
  MaxPerSource = 2
  MaxChunks = 2
  Depths <- MCDepths
  Texts <- MCTexts
  Requests <- MCRequests
  Scores = {5, 18, 90}
  TopK = 3
  MaxTokens = 1
  Answers <- MCAnswers
  MaxCandidates = 5
  MaxPieces = 4
SPECIFICATION AllSpec
SYMMETRY Symmetry
INVARIANTS Types ScopeKept  ConfidenceIsEarned StreamShape ChainIsRun RankingIsFair
