SPECIFICATION FairSpec
CONSTANTS
  VM <- MCVM
  Serials <- MCSerials
  Names <- MCNames
  Budgets <- MCBudgets
  Timeout = 1
  MaxChanges = 3
  MaxRescans = 1
CHECK_DEADLOCK FALSE
INVARIANTS StageWithinReading RenameWitnessed ReadsBack
PROPERTIES DepartureIsKnown ReadingEnds
