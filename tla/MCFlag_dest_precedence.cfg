\* Spec 8 destination precedence for an IntFlag with a pre-set destination.
CONSTANTS
    ConvertError = ConvertError
    Unset = Unset
    Missing = Missing
    NotFound = NotFound
    NoValue = NoValue
    NoDest = NoDest
    MaxArgs = 3
    SliceNames <- OneSliceName
    Decls <- IntDecls
    Environments <- IntEnvs
    FileSystems <- IntFiles
    Argvs <- IntArgvs
SPECIFICATION Spec
INVARIANT DestinationPrecedence
\* the program stops once the parse pass has ended
CHECK_DEADLOCK FALSE
