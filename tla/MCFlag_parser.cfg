\* GenericFlag of the test type Parser, with and without a destination.
CONSTANTS
    ConvertError = ConvertError
    Unset = Unset
    Missing = Missing
    NotFound = NotFound
    NoValue = NoValue
    NoDest = NoDest
    MaxArgs = 3
    SliceNames <- OneSliceName
    Decls <- ParserDecls
    Environments <- ParserEnvs
    FileSystems <- ParserFiles
    Argvs <- ParserArgvs
SPECIFICATION Spec
INVARIANT ValueFromLastArgs
PROPERTY FailedSetIsAtomic AbstractSpec
\* the program stops once the parse pass has ended
CHECK_DEADLOCK FALSE
