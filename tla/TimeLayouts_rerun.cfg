\* One test process running TestFlagsFromEnv up to three times
\* (go test -count=3), with time parses between the runs.
CONSTANTS
    ConvertError = ConvertError
    MaxSetups = 3
SPECIFICATION Spec
INVARIANT SetupRerunKeepsResults
\* the process ends once its tests have run
CHECK_DEADLOCK FALSE
