CONSTANTS
  BadColumns = {"bad"}
  MaxCalls <- MCMaxCalls
  Entities <- MCEntities
  Dialects <- MCDialects
  Pages <- MCPages
  Given <- MCGiven
  Upserts <- MCUpserts
  Chains <- MCChains
  Factories <- MCFactories
  Operations <- MCOperations
  StatementCommand <- MCStatementCommand
  MaxOpens = 2
  Generators = {1, 2}
  Jobs <- MCJobs
  OldFiles <- MCOldFiles
  TempNames = {"tmp-1", "tmp-2", "tmp-3"}
  NoTemp = "none"
  MaxFaults = 1
SPECIFICATION CallsSpec
CHECK_DEADLOCK FALSE
INVARIANT LiveOnly
