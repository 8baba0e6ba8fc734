SPECIFICATION SuiteSpec
CONSTANTS
  Timer = {t1, t2}
  OneShot = {t2}
  Due = {1}
  Frequency = {1}
  MaxTime = 1
  ExecutorStops = TRUE
INVARIANTS TimersSafe LoggerSafe 
 
