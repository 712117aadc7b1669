\* IntFlag with two names, env/file fallback and a pre-set destination.
CONSTANTS
    ConvertError = ConvertError
    Unset = Unset
    Missing = Missing
    NotFound = NotFound
    NoValue = NoValue
    NoDest = NoDest
    MaxArgs = 3
    SliceNames <- OneSliceName
    Decls <- IntDecls
    Environments <- IntEnvs
    FileSystems <- IntFiles
    Argvs <- IntArgvs
SPECIFICATION Spec
INVARIANT TypeOK ValueFromLastArgs
PROPERTY FailedSetIsAtomic AbstractSpec
CHECK_DEADLOCK FALSE
