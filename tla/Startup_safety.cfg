SPECIFICATION Spec
CONSTANTS
  Configs <- MCConfigs
  Words <- MCWords
  PortNumber <- MCPortNumber
  Ephemeral = {40000, 40001, 40002}
  LittleEndian = TRUE
  DottedNames <- MCDottedNames
  Runs = 2
INVARIANTS ConfigurationIsKept CredentialsFitPorts
PROPERTY LoadingEnds
