CONSTANTS
  Texts = {e1, t1}
  EnvTexts = {e1}
  MaxSame = 3
  MaxAlternates = 1
  Window = 4
  MaxIterations = 2
  MaxCalls = 2
  EmptyLimit = 3
  HasVerifier = TRUE
  HasRecovery = TRUE
  HasEscalation = FALSE
  Escapes = TRUE
SPECIFICATION FairSpec
CHECK_DEADLOCK FALSE
PROPERTY EndsInTerminalState
