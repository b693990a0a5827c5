\* A function that hands its argument on is called in two transactions.
SPECIFICATION CrateSpec
CONSTANTS
  Programs <- TwoTransactions
  Supported <- TwoTransactions
INVARIANT
  AllUsesFound
