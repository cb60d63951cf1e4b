CONSTANTS
  Accounts = {"ann", "bob"}
  AccountIds = {"ann", "bob", "ghost"}
  Assets <- MCAssets
  RateIds = {"craft", "trade", "gift", "log", "counterfeit", "swap", "drain", "forge"}
  Rates <- MCRates
  Invariants <- MCInvariants
  Expressions <- MCExpressions
  Proposals <- MCBranchProposals
  Traces <- MCTraces
  Endowment <- MCBranchEndowment
  MaxQuantity = 3
  MaxMeasure = 5
SPECIFICATION Spec
INVARIANTS TypeOK Conserved
PROPERTY CallsAreAtomic
