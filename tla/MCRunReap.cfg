SPECIFICATION Spec
CONSTANTS
  Stoppers = {s1}
  Workers = {w1}
PROPERTY ReapsOnlyUnfinalized
CHECK_DEADLOCK FALSE
