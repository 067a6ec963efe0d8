SPECIFICATION Spec
CONSTANTS
  Size = 4
  Addr <- MCAddr
  Push <- MCPush
  Pop <- MCPop
  Configs <- MCConfigs
INVARIANT StackInv
PROPERTIES StacksAreBanked UserStackSurvives
