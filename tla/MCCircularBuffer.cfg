SPECIFICATION FairSpec
CONSTANTS
  Size = 3
  Data = {a, b}
  MaxRequest = 4
  Inputs <- MCInputs
  Amounts <- MCAmounts
INVARIANTS TypeOK Accounting
PROPERTIES UnreadIsKept ImplementsQueue EveryCallReturns
