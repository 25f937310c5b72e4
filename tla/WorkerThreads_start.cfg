SPECIFICATION Spec
CONSTANTS
  ns1 = ns1
  task1 = task1
  task2 = task2
  cli1 = cli1
  worker1 = worker1
  worker2 = worker2
  Thread <- MCThread
  Stage <- MCStage
  InitFails = {3, 4}
INVARIANT StartupSound
PROPERTIES StartupCompletes QuitStopsThreads
