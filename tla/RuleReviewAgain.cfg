CONSTANTS
  Detectors = {d1}
  Shapes = {s1, s2}
  MaxId = 3
SPECIFICATION Spec
PROPERTY RejectedNotReproposed
