\* Tasks never stop: a deadlock that TLC reports would be one of the locks.
CONSTANTS
  Tasks <- MCTasks
  Crews <- MCApart
SPECIFICATION Spec
INVARIANTS NoCircularWait
PROPERTIES SpansEnd
