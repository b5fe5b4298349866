SPECIFICATION MintSpec
CONSTANT MaxExtensions = 4
INVARIANT HooksSupported
CHECK_DEADLOCK FALSE
