SPECIFICATION AlgSpec
CONSTANTS
  Instances = {n1}
  Workers = {w1}
  Handling = {n1}
PROPERTIES GraceEnds
CHECK_DEADLOCK FALSE
