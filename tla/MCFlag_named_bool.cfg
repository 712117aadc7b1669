\* GenericFlag over "type Switch bool", given as "-implode" alone, which spec
\* 4.2 says a switch of underlying kind bool accepts.
CONSTANTS
    ConvertError = ConvertError
    Unset = Unset
    Missing = Missing
    NotFound = NotFound
    NoValue = NoValue
    NoDest = NoDest
    MaxArgs = 3
    SliceNames <- OneSliceName
    Decls <- NamedBoolDecls
    Environments <- BoolEnvs
    FileSystems <- BoolFiles
    Argvs <- NamedBoolArgvs
SPECIFICATION Spec
PROPERTY BoolSwitchAccepted
\* the program stops once the parse pass has ended
CHECK_DEADLOCK FALSE
