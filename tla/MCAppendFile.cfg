\* The description of the -res flag against os.Create.
CONSTANTS
  Nbs = {1}
  WorkerCounts = {2}
  MaxTransactions = 1
SPECIFICATION Spec
PROPERTY OnlyAppends
