CONSTANT Sources <- MCPrefixed
SPECIFICATION Spec
CHECK_DEADLOCK FALSE
INVARIANT LoopsProgress
