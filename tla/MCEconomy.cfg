CONSTANTS
  Accounts = {"ann", "bob"}
  AccountIds = {"ann", "bob", "ghost"}
  Assets <- MCAssets
  RateIds = {"craft", "trade", "gift", "log", "counterfeit", "swap", "drain", "forge"}
  Rates <- MCRates
  Invariants <- MCInvariants
  Expressions <- MCExpressions
  Proposals <- MCProposals
  Traces = {}
  Endowment <- MCEndowment
  MaxQuantity = 4
  MaxMeasure = 5
SPECIFICATION OwnerSpec
INVARIANTS PreservedSurvives BatchIsSequential ShortfallIsDistance
