\* Every flag test of src/cli/flag_test.go modelled in FlagTests.
CONSTANTS
    ConvertError = ConvertError
    Unset = Unset
    Missing = Missing
    NotFound = NotFound
    NoValue = NoValue
    NoDest = NoDest
    NoCheck = NoCheck
    Decls = Decls
    Environments = Environments
    FileSystems = FileSystems
    Argvs = Argvs
SPECIFICATION TestSpec
INVARIANT TypeOK TestExpectationHolds HelpOutputMatchesTests
CHECK_DEADLOCK FALSE
