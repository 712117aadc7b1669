\* IntSliceFlag with one name: accumulation, env/file fallback, rejected elements.
CONSTANTS
    ConvertError = ConvertError
    Unset = Unset
    Missing = Missing
    NotFound = NotFound
    NoValue = NoValue
    NoDest = NoDest
    MaxArgs = 3
    SliceNames <- OneSliceName
    Decls <- SliceDecls
    Environments <- SliceEnvs
    FileSystems <- SliceFiles
    Argvs <- SliceArgvs
SPECIFICATION Spec
INVARIANT SliceAccumulation DefaultIntact
PROPERTY FailedSetIsAtomic AbstractSpec
\* the program stops once the parse pass has ended
CHECK_DEADLOCK FALSE
