SPECIFICATION Spec
CONSTANTS
  Spellings <- MCSpellings
  Contents = {"plain", "secret"}
  Rules <- MCRules
  max_files_changed = 1
  max_lines_changed = 1
  medium_risk_files = 2
  Files <- MCFiles
  Outside = Outside
  Target <- MCTarget
  Name <- MCName
  InitialFiles <- MCInitialFiles
  Tools = {"read_file", "apply_patch", "create_file"}
  MaxTurns = 2
  MaxCalls = 2
  MaxSessions = 4
  MaxErrors = 1
  NoAgent = NoAgent
  NoCall = NoCall
CHECK_DEADLOCK FALSE
INVARIANTS
  TypeOK
  AuditComplete
  
  RiskCovers
  CheckoutReadOnly
PROPERTIES
  BlockedMeansReadOnly
