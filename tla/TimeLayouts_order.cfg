\* A time parsed before and after TestFlagsFromEnv's setup in one process.
CONSTANTS
    ConvertError = ConvertError
    MaxSetups = 1
SPECIFICATION Spec
INVARIANT TimeParseStable
CHECK_DEADLOCK FALSE
