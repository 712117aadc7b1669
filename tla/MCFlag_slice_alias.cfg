\* IntSliceFlag with two names used in any order.
CONSTANTS
    ConvertError = ConvertError
    Unset = Unset
    Missing = Missing
    NotFound = NotFound
    NoValue = NoValue
    NoDest = NoDest
    MaxArgs = 3
    SliceNames <- TwoSliceNames
    Decls <- SliceDecls
    Environments <- SliceEnvs
    FileSystems <- SliceFiles
    Argvs <- SliceArgvs
SPECIFICATION Spec
INVARIANT ValueFromLastArgs
PROPERTY FailedSetIsAtomic
\* the program stops once the parse pass has ended
CHECK_DEADLOCK FALSE
