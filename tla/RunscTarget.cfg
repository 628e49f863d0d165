SPECIFICATION Spec
CONSTANTS
  Calls <- MCCalls
  ExtraFlags <- WarmFlags
INVARIANT OwnTarget
CHECK_DEADLOCK FALSE
