SPECIFICATION Spec
CONSTANTS
  Argv <- MCArgv
  ConfigFile = "/etc/psr/psrservice.conf"
  Settings <- MCSettings
  Default <- MCDefault
  Needed <- MCNeeded
  Null = Null
  Missing = Missing
  EditLines <- MCEditLines
  Texts <- MCTexts
  Meanings <- MCMeanings
  Values = {"new"}
  MaxEdits = 3
  FewEdits = 2
INVARIANTS ConfigTypeOK SavedSoFar SettingsComplete ReadBack WriteIsLocal WrittenIsLoaded ParsersAgree WorksAsConfigured 
