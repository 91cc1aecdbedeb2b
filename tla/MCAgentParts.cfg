CONSTANTS
  Texts = {e1, t1}
  EnvTexts = {e1}
  MaxSame = 3
  MaxAlternates = 1
  Window = 4
  MaxIterations = 4
  MaxCalls = 2
  EmptyLimit = 3
  HasVerifier = TRUE
  HasRecovery = TRUE
  HasEscalation = TRUE
  Escapes = TRUE
  Hands = {h1, h2}
  MaxTexts = 3
  MaxClock = 3
  Plans <- TwoSteps
  Solutions = {s1, s2}
  Names <- ThreeNames
  Judges = {"order", "picks", "writes"}
  NoText = noText
  MaxPanels = 2
  Tasks = {1, 2}
  Teachers = {ta, tb}
  Listening = {listens}
  Deaf = {deaf}
  NoOne = noOne
  MaxSessions = 3
  Lengths <- SomeLengths
  Budget = 10
  HeadLength = 2
  MemoryLength = 1
  Verbatim = 4
  Cut = 3
  Recent = 2
  MaxMessages = 4
  Skills = {"x", "y"}
  UpStreak = 2
  DownFailures = 1
  MinLevel = 1
  MaxLevel = 3
  Drawn = {1, 2}
  Patience = 2
  MaxTries = 4
  MaxAsked = 2
SPECIFICATION PartsSpec
CHECK_DEADLOCK FALSE
INVARIANTS TypesOK CompletionIsVerified AskIsLastResort RequestsAreSound ChangesAreAccounted PanelIsHonest LessonsAreEarned PracticeIsSound
PROPERTIES StopEndsWork ImplementsLifecycle LoopTerminates
