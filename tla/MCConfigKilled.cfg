SPECIFICATION Spec
CONSTANTS
  Argv <- MCArgv
  ConfigFile = "/etc/psr/psrservice.conf"
  Settings <- MCSettings
  Default <- MCDefault
  Needed <- MCNeeded
  Null = Null
  Missing = Missing
  EditLines <- MCEditLines
  Texts <- MCTexts
  Meanings <- MCMeanings
  Values = {"new"}
  MaxEdits = 2
  FewEdits = 2
INVARIANT DefaultsFilledIn
