\* The texts a container and its gate get, for a deploy nobody interferes with.
SPECIFICATION InputsSpec
CONSTANTS
  Token <- MCToken
  EnvPath = {1, 2}
  DefaultFiles <- MCDefaultFiles
  OSEnv <- MCOSEnv
  ContractTexts <- MCContractTexts
  EnvTexts <- MCEnvTexts
  Named = {Nothing, "web"}
  MaxEdits = 0
  Nothing = Nothing  Garbled = Garbled
INVARIANT EscapesSurvive
CHECK_DEADLOCK FALSE
