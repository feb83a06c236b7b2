SPECIFICATION BothSpec
CONSTANTS
  Texts <- MCTexts
  DEFAULT_MAX_FUNCS = 12
  DEFAULT_MAX_PUB = 8
  NoText = NoText
  BadNumber = BadNumber
  MAX_PATHS = 2
  MaxWords = 8
  Characters <- MCCharacters
  Inputs <- MCInputs
  AsText <- MCAsText
  AsNumber <- MCAsNumber
  FUZZ_MAX_ARGS = 4
  MaxInputs = 2
  MaxOptions = 3
INVARIANTS RunsAsAsked MistakesAreTrouble Repeatable NeverHelped
PROPERTIES HelpWins
CHECK_DEADLOCK FALSE
