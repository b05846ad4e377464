SPECIFICATION Spec
INVARIANTS
  PortsAgree
  CleanedIsClean
  TextsComeBack
  SettingsComeBack
CHECK_DEADLOCK FALSE
