\* The two spans that collide, among three tasks.
CONSTANTS
  Tasks <- MCTasks
  Crews <- MCTogether
SPECIFICATION Spec
INVARIANTS NoCircularWait
CHECK_DEADLOCK FALSE
