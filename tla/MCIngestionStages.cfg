SPECIFICATION FairStagesSpec
CONSTANTS
  a = a  b = b  f = f  g = g
  batch_size = 3
  max_batch_columns = 4
  DESCRIBE_MAX_ATTEMPTS = 2
  Width = {0, 1, 2, 5}
  MaxTables = 5
  NoAnswer = NoAnswer
  Relation <- MCRelation
  Lower <- MCLower
  Column <- MCColumn
  KeyName <- MCKeyName
  MaxRelations = 2
  MaxReferences = 2
  MaxChanges = 2
  MaxNodes = 4
  MaxKeys = 4
INVARIANTS
  DescriptionIsSound
  ExtractionIsSound
  KeysAreFaithful
  ReductionIsSound
PROPERTIES
  ReductionEnds
CHECK_DEADLOCK FALSE
