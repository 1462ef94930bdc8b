SPECIFICATION FamilySpec
CONSTANTS
  Studied <- MCStudied
  Weights <- MCWeights
  Limits <- MCLimits
  Titles <- MCTitles
  Owner = "owner"
  MaxTime <- MCMaxTime
  MaxChanges = 2
  MaxFailures = 1
INVARIANTS
  OutageTold
PROPERTIES
  TimeNeverHeals
  FlaggedIsUnimported
