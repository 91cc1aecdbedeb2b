CONSTANTS
  d1 = d1
  d2 = d2
  s1 = s1
  s2 = s2
  unknown = unknown
  human = human
  x1 = x1
  x2 = x2
  g1 = g1
  a1 = a1
  a2 = a2
  hello = hello
  Detectors = {d1, d2}
  Shapes = {s1, s2}
  MaxId = 2
  Writers = {unknown, human}
  Signatures = {x1, x2}
  Unknown = unknown
  Teachers = {d1, d2}
  Files <- SomeFiles
  MaxTotal = 4
  MaxSharedTotal = 2
  Clerks = {d1, d2}
  NoCopy = noCopy
  MaxTaskId = 2
  MaxAdds = 3
  Shells = {d1, d2}
  Keys = {1, 2, 3}
  Commands = {"c", "d"}
  CommandOf <- SomeCommands
  MaxRuns = 4
  Goals <- SomeGoals
  Noise = {hello}
  Recorders = {d1, d2}
  Cleaners = {cl}
  Sessions <- SomeSessions
  Claimed = {"recovered"}
  Starts <- SomeStarts
  NoRow = noRow
  NoFile = noFile
  MaxRecords = 2
  MaxShared = 1
  Tasks = {"g", "a", "hello"}
  TaskOf <- TaskNames
  CapRatio = 2
  MaxExports = 1
  Topics = {"session", "reads", "guesses", "leads"}
  Drilled <- SomeDrills
  Scripted <- SomeScripts
  NoLoad = noLoad
  MaxVersion = 2
  MaxBuilds = 3
  MaxTrouble = 2
SYMMETRY Same
SPECIFICATION PartsSpec
CHECK_DEADLOCK FALSE
INVARIANTS TypesOK ShapesListedOnce IdsNameOneCandidate CasesConserved TasksSurvive PassesAreEarned LessonsKept CorpusIsSound LaneIsSound DerivedIsSound
PROPERTIES LeavesOnlyDecided ReviewedStaysReviewed
