SPECIFICATION Spec
CONSTANTS
  Instances = {n1, n2}
  Workers = {w1}
  Handling = {n1}
INVARIANT WorkerSound
PROPERTIES WorkersServe LoadReturns DestroyReturns
