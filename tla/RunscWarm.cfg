SPECIFICATION Spec
CONSTANTS
  Calls <- MCCalls
  ExtraFlags <- WarmFlags
INVARIANT OwnCommand
CHECK_DEADLOCK FALSE
