SPECIFICATION Spec
CONSTANTS
  Parsers = {p1, p2}
  Sinks = {s1}
  Infras = {i1}
INVARIANTS TypeOK CountsExact QuiescedMeansDrained
PROPERTIES WaitEndsWithWorkers
CHECK_DEADLOCK FALSE
