SPECIFICATION AnalyzerSpec
CONSTANTS
  th1 = th1
  th2 = th2
  Threads = {th1, th2}
  NoEntry = NoEntry
  MaxCount = 20
CHECK_DEADLOCK FALSE
SYMMETRY MCSymmetry
INVARIANT LoneCallReports
