SPECIFICATION MCSpec
CONSTANTS
  r1 = r1  r2 = r2  Shared = Shared
  SchemaTable = {1, 2, 3, 4}
  Embedded = {1, 3, 9}
  MaxSimilarity = 2
  top_k = 2
  max_levels = 2
  max_tables = 3
  max_retries = 2
  Word <- MCWord
  Separator <- MCSeparator
  Lower <- MCLower
  Technical <- MCTechnical
  Stopword <- MCStopword
  Dictionary <- MCDictionary
  Jargon <- MCJargon
  Spelled <- MCSpelled
  Length <- MCLength
  Near <- MCNear
  MaxLength = 5
  MaxJargons = 2
  Run = {r1, r2}
  Tokens <- MCTokens
  MaxCalls = 3
INVARIANTS
  ScopeIsSound
  SpellingIsSound
  CountsAreSound
PROPERTIES
  RetryWidens
  RepairIsSound
CHECK_DEADLOCK FALSE
