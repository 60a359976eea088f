\* The loop of the frequency counts down from twelve by four in a byte.
CONSTANTS
  Nbs = {0, 1, 2, 3}
  Tpss = {0, 2, 10, 13}
  WorkerFlags <- MCWorkerFlags
  ThreadFlags <- MCThreadFlags
  NumCPU = 1
  MaxTransactions = 2
  Machines <- MCMachines
  Width = 8
  Unroll = 4
  NFREQ = 12
SPECIFICATION Spec
INVARIANTS
  StatisticsFaithful
  FailureReported
  FileDisposed
  EvenProgression
  TopologyFaithful
PROPERTY Completion
