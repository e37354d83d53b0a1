SPECIFICATION Spec
CONSTANTS
  MaxDispatches = 2
  Terminals <- BothTerminals
  Writers <- Implementer
  TreeKill = TRUE
PROPERTY ForeignMessagesAreIgnored
CHECK_DEADLOCK FALSE
