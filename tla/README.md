# TLA+ models of spur's flag values

This directory holds TLA+ models of how a command-line flag of
`github.com/rancher/spur/cli` gets its value. The code under `src/` is
`src/cli/flag_value.go` (the `GenericValue` adapter) and `src/cli/flag_test.go`
(the tests and the test type `Parser`). The flag types' `Apply`, the `generic`
converter and `flagFromEnvOrFile` are not under `src/`. They are modelled from
`spec.md` (sections 4.1, 4.3, 4.4, 7 and 8), and from what the tests pin down
where the tests and the spec disagree.

## The system

One parse pass takes a flag through these steps:

1. **Apply** (the flag type's `Apply`, spec 4.3):
   - looks up the flag's environment variables in order, then its file paths in
     order, and takes the first nonempty value (`flagFromEnvOrFile`);
   - converts that value with `generic.FromString`, or falls back to the
     declared default;
   - stores the result in the destination, or in internal storage;
   - registers one `GenericValue` adapter per name and alias, all pointing at
     that destination;
   - if the conversion fails, returns "could not parse …".
2. **Parse** (Go's `flag.FlagSet`): the registry hands each command-line
   argument to `Set` on the adapter of the name used. It stops at the first
   error. A bool flag given as `-name` is set to `"true"`.
3. **`GenericValue.Apply`** (`flag_value.go:41-54`). A slice destination bound
   to the declared default is a slice header over the default's array:
   - a slice destination is cleared on the first call *through this adapter*,
     and the adapter's `set` field is marked;
   - `generic.Convert` then appends to a slice or replaces a scalar;
   - on a conversion error it returns early, and any clearing already done
     stays done.
   - the clear stores `generic.Zero`, the nil slice. Later appends therefore
     allocate a new array and never write into the default's array.
4. **Help text** (`FlagToString`, spec 4.5): renders a declaration as
   `--name ph, -a ph<TAB>usage (default: X) [$ENV]`.
5. **Time configuration** (package `generic`, spec 4.1 and 5):
   - the process-wide `TimeLayouts` list is tried in order, and the first
     layout that parses the input wins;
   - `FromStringMap["time.Time"]` is the converter.
   - `TestFlagsFromEnv` (`flag_test.go:66-76`) appends a layout to the list and
     wraps the converter with a Unix-seconds fallback. It runs in the middle of
     the test process.

## Modules

| Module | Models | State / actions |
|---|---|---|
| `Convert` | `generic.Convert`, `FromString`, `Zero`, `Stringify` (spec 4.1); `Parser.Set` and `Parser.String` (`flag_test.go:1712-1728`) | Pure operators. A string is represented by its comma-separated fields. An integer of the int kinds is a 64-bit value held as three base-10^6 limbs `<<h, m, l>>` of one sign (TLC's integers are 32-bit). `ParseInteger` is `strconv.ParseInt`/`ParseUint(s, 0, 64)`: a sign (ParseInt only), the `0x`/`0o`/`0b`/leading-`0` base prefixes, digits summed against limb powers of the base, and the 64-bit range check (`MaxMagnitude`). `FormatWide` prints it back. Float and duration atoms are parsed through finite literal tables: floats in units of 1/100000, durations in seconds. Formatting is recursive: `Decimal`, `FormatFloat` (shortest form, trailing zeros dropped) and `FormatDuration` (Go's `5m0s` form). A kind is the Go type's name; `UnderlyingKind` is its reflect Kind, so `namedBool` (`type Switch bool`) converts as a bool. A time is the instant `<<day, second>>` from 0000-01-01 UTC, and `UnixInstant` is `time.Unix` on a 64-bit value. The Unix-seconds layout accepts every decimal integer; the other layouts accept only the tests' inputs. `TimeConverter` is the first-match layout loop plus the test's fallbacks, one per wrap. |
| `EnvResolve` | `flagFromEnvOrFile` (spec 4.4) | `FlagFromEnvOrFile` is the recursive scan. `ResolveByPrecedence` is a non-recursive reference definition of the same rule. |
| `GenericValue` | `flag_value.go` | VARIABLES `ptr` (the destination's kind, its value, and `shared`: whether its header still points into the default's array), `arr` (that array) and `set` (one `set` field per registered name). `NewGenericValue`, `Apply`, `Set` and `String` are operators. `Store` writes into `arr` when an append has room in it. |
| `Flag` | one flag through Apply and the registry | VARIABLES `flag`, `env`, `files`, `args`, `phase`, `hist`, plus those of `GenericValue`. Actions: `FlagApply`, `FlagApplyFails`, `ParseArg` (the whole `Set` call), `ParseArgMissingValue`, `ParseDone`. |
| `FlagAbstract` | what a flag promises | A single value with no adapters: `Begin`, `Take`, `Reject`, `Finish`. `Flag` instantiates it with `value <- ptr.val` and `cleared <-` "some adapter is set". |
| `MCFlag` | TLC instances | Families of declarations, environments, file systems and command lines (`MaxArgs = 3`) for int, bool, int slice (with one or two names) and Parser flags. |
| `Help` | `FlagToString` (spec 4.5) | The pure operator `Render` with `UnquoteUsage`, `PrefixedNames`, `DefaultValueText` and `EnvHint`. SANY cannot lex a backtick inside a string, so `Tick` (`"#"`) stands for it; no usage in the tests contains `#`. |
| `TimeLayouts` | `generic.TimeLayouts` and `FromStringMap["time.Time"]` in one test process | VARIABLES `layouts`, `wraps`, `results`. Actions: `RunSetup` (the setup of `TestFlagsFromEnv`, up to `MaxSetups` times, as `go test -count` does) and `ParseTime(a)` (any test converting a time). |
| `FlagTests`, `MCFlagTests` | `flag_test.go` | 101 test cases written as declarations, environments, command lines and expected outcomes, and 69 rows of the `*HelpOutput` tests. The MC module runs each case as one behaviour, with one help row (`row`) per behaviour. |

## Runs

| Run | Result | What it shows |
|---|---|---|
| `int_flag` | pass, 74640 states | Covers a pre-set destination, both env variables, the file, hex and invalid values. Checks `TypeOK`, `ValueFromLastArgs` (the value is the start value or the last value set), `FailedSetIsAtomic` (a failed Set changes nothing, except a slice's first clearing) and the refinement `AbstractSpec`. |
| `bool_flag` | pass | Covers `-name`, `-name=false` and invalid values, with an env fallback. `BoolSwitchAccepted`: `-name` alone never fails. |
| `slice_flag` | pass | Checks `SliceAccumulation` for a slice with one name: the first Set replaces the default, and later Sets append. Also checks `DefaultIntact`: the declared default's array is never written through the destination. |
| `slice_alias` | pass | Two names: the value never mixes default and command-line elements (`ValueFromLastArgs`). A failed first Set through a fresh name may empty only a slice that name has not yet cleared (`FailedSetIsAtomic`). |
| `parser_flag` | pass | A `GenericFlag` of type `Parser`: a rejected value leaves the pair unchanged. |
| `flag_tests` | pass | Every modelled test gives the error and value it asserts (`TestExpectationHolds`). `Render` gives every modelled help row the text, or the suffix, its test expects (`HelpOutputMatchesTests`). |
| `slice_alias_accum` | **violation** | `SliceAccumulation` with two names. |
| `dest_precedence` | **violation** | Spec 8's destination precedence. |
| `named_bool_switch` | **violation** | `BoolSwitchAccepted` for a GenericFlag over `type Switch bool`. |
| `time_rerun` | pass, 896 states | `SetupRerunKeepsResults`: running `TestFlagsFromEnv` up to three times in a process changes no time parse of that test or of `TestParseMultiTimeSlice`. |
| `time_order` | **violation** | `TimeParseStable`: one input parses differently before and after the test's setup. |

### Findings

- **`run -s 10 --serve 20` on an IntSliceFlag yields `[20]`.** The adapter of
  `--serve` has its own `set` field, so its first `Set` clears the `10` that was
  set through `-s` (`flag_value.go:42`). Spec 8 says values accumulate across
  names. `TestIntSliceFlagApply_SetsAllNames` and
  `TestStringSliceFlagApply_SetsAllNames` run such a command line but check
  only the error.
- **The default overwrites a pre-set destination.** The tests require this
  (`flag_test.go:332`, `:1814`, `:1832`). Spec 4.3(a) and spec 8 forbid it. The
  models follow the tests.
- **A named bool type is not a switch.** `IsBoolFlag` compares the element
  type's *name* with `"bool"` (`flag_value.go:63`). For `type Switch bool`
  that name is `cli.Switch`, so `-name` alone fails with "flag needs an
  argument". Spec 4.2 says the adapter is a switch exactly when the
  underlying kind is bool. The model converts a named bool by its kind (spec
  3, runtime type inspection); the finding does not depend on that, because
  the failure happens before any conversion.
- **Time parsing depends on test order.** `TestFlagsFromEnv` mutates the global
  layout list and converter and never restores them (`flag_test.go:67`).
  `"Friday"` is an error before it runs and a time after it. Spec 5 says these
  globals are set only before any parse. `TestParseMultiTimeSlice`
  (`flag_test.go:1340-1358`) also parses times (`10`, `17179869184`). The
  model's Unix-seconds layout (spec 4.1) accepts both before and after the
  setup, so that test does not depend on the order. It would if the package's
  built-in layouts did not parse Unix seconds: the setup's fallback would
  then be their only parse.

### Mutants

Each property of a passing run has a mutant: a plausible bug in the code that
TLC shows breaks the property. The mutants are:

- `Apply`:
  - without the `!v.set` guard (`ApplyClearsAlways`);
  - without the clear (`ApplyNeverClears`);
  - storing on error (`ApplyStoresOnError`).
- The clear done as `v[:0]`, which keeps the default's array (`ClearedSharedResliced`).
- `NewGenericValue` registering one name only (`NewGenericValueOnce`).
- `Parser.String` with its arguments swapped (`ParserStringSwapped`).
- `FlagApply`:
  - storing the default (`FlagApplyStoresDefault`);
  - keeping the destination (`FlagApplyKeepsDestination`).
- `flagFromEnvOrFile` scanning the files first (`FlagFromEnvOrFileFilesFirst`).
- `Parser.Set` with its halves swapped (`ParserSetSwapped`).
- `IsBoolFlag` applied to the pointer's own type (`IsBoolFlagOfPointer`).
- The test's setup assigning the layout list instead of appending to it
  (`RunSetupReplaces`).

## Bounds, fairness, deadlock

- **Bounds.** Up to three arguments reach every case the code distinguishes:
  - a clear followed by an append;
  - an alias used after the primary name;
  - a failure after a success.

  Each family also has a failing and a succeeding value for every source.
- **Fairness.** None is assumed, and no property is a liveness property.
  Every `ParseArg` consumes an argument and nothing puts one back. So a pass
  ending is a matter of the shape of `Next`, not of the code.
- **Evaluation cost.** `ParseInteger` binds each intermediate value with
  `\in {...}`. TLC then computes it once, not at every use of an operator
  argument.
- **`MaxSetups = 3`.** Three runs of the setup are enough: a second run
  duplicates a layout and nests a fallback, and a third nests a fallback
  inside a fallback.
- **Deadlock.** Every cfg sets `CHECK_DEADLOCK FALSE`, because the program
  really does stop once the pass ends (`done` or `failed`). The test process
  stops once its tests have run.

## Not modelled (yet)

- The contents of `generic.TimeLayouts`, which are not under `src/`. The
  model takes spec 4.1's list (Unix seconds, RFC3339, Kitchen). Unix seconds
  accepts every decimal integer; RFC3339 and Kitchen accept only the inputs
  of the tests.
- Underscore digit separators in integer literals (`1_000`), which
  `strconv` accepts with base 0. No test uses them.
- The `%NAME%` environment hint, which the tests check only on Windows.
- The help rows the model leaves out:
  - the GenericFlag env-hint rows, which have no `Value`.
- The environment-hint join for several variables follows the spec's `,`
  form, since the tests use one variable only.
- Several flags in one `FlagSet`, and short-option handling.
- App, Command, Context and completion, which the tests reach only through
  `App.Run`.

Planned next: several flags per FlagSet.
