SPECIFICATION Spec
CONSTANTS
  N = 2
  Modulus = 8
  Trees <- MCTrees
  Fabrics <- MCFabrics
  MayFail = TRUE
  Programs = {"bench", "sum", "caeco", "oneway", "twoway", "client"}
  Launches = 2
  TxWords = 5
  Samples = {3, 6}
  BenchSizes = {1, 2, 3}
  Rounds = 2
  ClientCalls = 4
INVARIANT TypeOK
INVARIANT HardwareMatchesSoftware
 
INVARIANT ReleasesWhatItHas
