\* BoolFlag with an alias: bool switches, explicit =value, env fallback.
CONSTANTS
    ConvertError = ConvertError
    Unset = Unset
    Missing = Missing
    NotFound = NotFound
    NoValue = NoValue
    NoDest = NoDest
    MaxArgs = 3
    SliceNames <- OneSliceName
    Decls <- BoolDecls
    Environments <- BoolEnvs
    FileSystems <- BoolFiles
    Argvs <- BoolArgvs
SPECIFICATION Spec
INVARIANT ValueFromLastArgs
PROPERTY AbstractSpec BoolSwitchAccepted
\* the program stops once the parse pass has ended
CHECK_DEADLOCK FALSE
