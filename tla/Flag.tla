--------------------------------- MODULE Flag ---------------------------------
(***************************************************************************)
(* One flag through one parse pass: the flag type's Apply (resolution of   *)
(* the starting value, binding of the destination, one GenericValue per    *)
(* name) followed by the primitive registry (Go's flag.FlagSet.Parse)      *)
(* feeding the command-line arguments to the adapters one at a time.       *)
(*                                                                         *)
(* The flag types' Apply and flag.FlagSet are not under src/: Apply is     *)
(* modelled from spec 4.3, with the starting value the tests of            *)
(* src/cli/flag_test.go pin down (the declared default or the env/file     *)
(* value replaces whatever the destination held); the registry from spec   *)
(* 6 and Go's documented behaviour (stop at the first error, a bool flag   *)
(* given without "=value" is set to "true").                               *)
(***************************************************************************)
EXTENDS GenericValue, EnvResolve, SequencesExt

CONSTANTS
    NoValue,    \* the value part of an argument "-name" given without one
    NoDest,     \* the Destination field of a flag declared without one
    Decls,          \* the declarations to check
    Environments,   \* the environments to check
    FileSystems,    \* the file systems to check
    Argvs           \* the command lines to check

VARIABLES
    flag,       \* the declaration: [kind, names, value, envVars, filePaths, destination]
    env,        \* the process environment (module EnvResolve)
    files,      \* the readable files (module EnvResolve)
    args,       \* the command-line arguments not yet parsed: <<name, value>>
    phase,      \* "apply", "parse", then "done" or "failed"
    hist        \* history: the value of every successful Set of this pass

vars == <<GenericValueFields, flag, env, files, args, phase, hist>>

FlagNames == Range(flag.names)

\* The value found in the environment or a file, or NotFound.
Resolved == FlagFromEnvOrFile(env, files, flag.envVars, flag.filePaths)

\* Apply, steps 1c and 2: a slice destination given the declared default is
\* a header over the default's array.
SharesDefault == IsSliceKind(flag.kind) /\ Resolved = NotFound

\* Apply, step 1: the starting value, declared default unless a source holds
\* a value; converted through FromString.
StartValue == IF Resolved = NotFound THEN flag.value
              ELSE FromString(flag.kind, Resolved)

(* Mutants of FlagApply.                                                   *)
\* the resolved value dropped: the declared default is always stored
FlagApplyStoresDefault ==
    /\ phase = "apply"
    /\ StartValue # ConvertError
    /\ ptr' = [ptr EXCEPT !.val = flag.value, !.shared = IsSliceKind(flag.kind)]
    /\ NewGenericValue(FlagNames)
    /\ phase' = "parse"
    /\ hist' = <<>>
    /\ UNCHANGED <<arr, flag, env, files, args>>
\* a pre-set destination left as it was (the rule of spec 4.3(a))
FlagApplyKeepsDestination ==
    /\ phase = "apply"
    /\ StartValue # ConvertError
    /\ ptr' = IF flag.destination = NoDest
              THEN [ptr EXCEPT !.val = StartValue, !.shared = SharesDefault]
              ELSE ptr
    /\ NewGenericValue(FlagNames)
    /\ phase' = "parse"
    /\ hist' = <<>>
    /\ UNCHANGED <<arr, flag, env, files, args>>

\* Apply with every step succeeding: the destination (or internal storage)
\* takes the starting value and one adapter is registered per name.
FlagApply ==
    /\ phase = "apply"
    /\ StartValue # ConvertError
    /\ ptr' = [ptr EXCEPT !.val = StartValue, !.shared = SharesDefault]
    /\ NewGenericValue(FlagNames)
    /\ phase' = "parse"
    /\ hist' = <<>>
    /\ UNCHANGED <<arr, flag, env, files, args>>

\* Apply returning "could not parse %q as <kind> value for flag <name>":
\* nothing is bound and no name is registered.
FlagApplyFails ==
    /\ phase = "apply"
    /\ StartValue = ConvertError
    /\ phase' = "failed"
    /\ UNCHANGED <<ptr, set, arr, flag, env, files, args, hist>>

\* The string the registry passes to Set for an argument: "true" for a
\* bool flag given as "-name", else the value given.
ArgValue(a) == IF a[2] = NoValue THEN <<"true">> ELSE a[2]

\* The registry parses the next argument and calls Set on the adapter of
\* its name; an error from Set ends the parse.
ParseArg ==
    LET a == Head(args)
        n == a[1]
        fs == ArgValue(a)
    IN  /\ phase = "parse"
        /\ args # <<>>
        /\ a[2] = NoValue => IsBoolFlag
        /\ Set(n, fs)
        /\ args' = Tail(args)
        /\ phase' = IF ApplyFails(n, fs) THEN "failed" ELSE "parse"
        /\ hist' = IF ApplyFails(n, fs) THEN hist
                   ELSE Append(hist, IF IsSliceKind(ptr.kind)
                                     THEN Last(Converted(n, fs))
                                     ELSE Converted(n, fs))
        /\ UNCHANGED <<flag, env, files>>

\* "flag needs an argument": a non-bool flag given as the last argument
\* without a value.
ParseArgMissingValue ==
    /\ phase = "parse"
    /\ args # <<>>
    /\ Head(args)[2] = NoValue
    /\ ~IsBoolFlag
    /\ phase' = "failed"
    /\ UNCHANGED <<ptr, set, arr, flag, env, files, args, hist>>

\* All arguments parsed: the action runs with the bound values.
ParseDone ==
    /\ phase = "parse"
    /\ args = <<>>
    /\ phase' = "done"
    /\ UNCHANGED <<ptr, set, arr, flag, env, files, args, hist>>

\* A declaration and a command line of the pass: the destination holds
\* what the caller put there, or the zero value of internal storage.
InitFrom(decl, environment, fileSystem, argv) ==
    /\ flag = decl
    /\ env = environment
    /\ files = fileSystem
    /\ args = argv
    /\ ptr = [kind |-> decl.kind,
              val  |-> IF decl.destination = NoDest THEN Zero(decl.kind)
                       ELSE decl.destination,
              shared |-> FALSE]
    /\ set = [n \in {} |-> FALSE]
    /\ arr = IF IsSliceKind(decl.kind) THEN decl.value ELSE <<>>
    /\ phase = "apply"
    /\ hist = <<>>

Init ==
    \E d \in Decls, e \in Environments, fsys \in FileSystems, a \in Argvs :
        InitFrom(d, e, fsys, a)

Next ==
    \/ FlagApply
    \/ FlagApplyFails
    \/ ParseArg
    \/ ParseArgMissingValue
    \/ ParseDone

Spec == Init /\ [][Next]_vars

-----------------------------------------------------------------------------
(* Properties.  Parsed: Apply succeeded and no Set has failed so far.     *)
Parsed == phase \in {"parse", "done"}

\* The Go type of each value of a kind.
ValuesOf(k) == CASE UnderlyingKind(k) = "bool" -> BOOLEAN
                 [] k \in IntKinds     -> WideValues(TRUE)
                 [] k \in UintKinds    -> WideValues(FALSE)
                 [] k \in NumberKinds  -> Int
                 [] k = "string"        -> STRING
                 [] k = "parser"        -> STRING \X STRING
                 [] k = "time"          -> Nat \X (0..86399)
                 [] k = "stringSlice"   -> Seq(STRING)
                 [] k = "float64Slice"  -> Seq(Int)
                 [] k = "timeSlice"     -> Seq(Nat \X (0..86399))
                 [] IsSliceKind(k)      -> Seq(WideValues(TRUE))

TypeOK ==
    /\ flag.kind \in Kinds
    /\ ptr.kind = flag.kind
    /\ ptr.val \in ValuesOf(flag.kind)
    /\ ptr.shared \in BOOLEAN
    /\ DOMAIN set \in {{}, FlagNames}
    /\ set \in [DOMAIN set -> BOOLEAN]
    /\ phase \in {"apply", "parse", "done", "failed"}
    /\ hist \in Seq(ValuesOf(IF IsSliceKind(flag.kind) THEN ElemKind(flag.kind)
                                ELSE flag.kind))

\* Apply then Set: until the first successful Set the destination holds the
\* starting value; after it a scalar holds the last value set, and a slice
\* holds a nonempty tail of the values set in this pass, never an element
\* of the starting value (the first Set clears, later ones append).
ValueFromLastArgs ==
    Parsed =>
        IF hist = <<>> THEN ptr.val = StartValue
        ELSE IF IsSliceKind(flag.kind)
             THEN ptr.val # <<>> /\ IsSuffix(ptr.val, hist)
             ELSE ptr.val = Last(hist)

\* Spec 8, slice accumulation and alias coherence: once values have been
\* set on a slice flag, through any of its names, the destination is
\* exactly those values in order.
SliceAccumulation ==
    (IsSliceKind(flag.kind) /\ Parsed /\ hist # <<>>) => ptr.val = hist

\* Spec 4.3, slice nuance: parsing never writes into the declared default of
\* a slice flag, which a later Apply reads again, although the destination
\* is a header over the default's array until an adapter's first Set
\* clears it (flag_value.go:45).
DefaultIntact ==
    IsSliceKind(flag.kind) => SubSeq(arr, 1, Len(flag.value)) = flag.value

\* Spec 4.2: the adapter tells the registry it is a boolean switch exactly
\* when the destination's underlying kind is bool, so "-name" alone sets
\* such a flag rather than failing with "flag needs an argument"
\* (GenericValue.IsBoolFlag, flag_value.go:63).
BoolSwitchAccepted ==
    [][/\ phase = "parse" /\ args # <<>> /\ Head(args)[2] = NoValue
       /\ UnderlyingKind(flag.kind) = "bool"
       => phase' # "failed"]_vars

\* Spec 7: a Set that fails leaves the destination as it was, except that
\* the first Set through an adapter of a slice flag has already cleared it.
FailedSetIsAtomic ==
    [][phase = "parse" /\ phase' = "failed" =>
         \/ ptr'.val = ptr.val
         \/ /\ IsSliceKind(ptr.kind)
            /\ ~set[Head(args)[1]]
            /\ ptr'.val = <<>>]_vars

\* Spec 8, destination precedence: a destination the caller pre-set to a
\* non-zero value keeps it when neither the command line nor the
\* environment nor a file supplies one.
DestinationPrecedence ==
    (/\ flag.destination \notin {NoDest, Zero(flag.kind)}
     /\ Parsed /\ hist = <<>> /\ Resolved = NotFound)
    => ptr.val = flag.destination

\* The abstract flag (module FlagAbstract): cleared is "some adapter of the
\* flag has been set".
Abstract == INSTANCE FlagAbstract
    WITH value <- ptr.val, cleared <- \E n \in DOMAIN set : set[n]

AbstractSpec == Abstract!Spec
=============================================================================
