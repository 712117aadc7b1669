----------------------------- MODULE TimeLayouts -----------------------------
(***************************************************************************)
(* The process-wide time configuration of package generic: the ordered    *)
(* layout list generic.TimeLayouts and the converter registered as        *)
(* FromStringMap["time.Time"].  Spec 5 says both are mutated only at       *)
(* program initialization, before any parse.  TestFlagsFromEnv             *)
(* (src/cli/flag_test.go:56-76) mutates them in the middle of the test     *)
(* binary's run and never restores them: it appends a layout and wraps     *)
(* the converter it finds, so every run of it (go test -count=N) appends   *)
(* and wraps once more.                                                    *)
(*                                                                         *)
(* A behaviour is one test process: runs of that setup, interleaved with   *)
(* time parses by any test, in any order the test runner may produce.     *)
(***************************************************************************)
EXTENDS Convert

CONSTANT MaxSetups   \* the runs of TestFlagsFromEnv in one process (-count)

VARIABLES
    layouts,   \* generic.TimeLayouts
    wraps,     \* how many times FromStringMap["time.Time"] has been wrapped
    results    \* the <<input, outcome>> pairs of every time parse so far

tvars == <<layouts, wraps, results>>

\* The inputs the tests parse as times (TestFlagsFromEnv and
\* TestParseMultiTimeSlice), and one no layout accepts.
TimeInputs == {"526", "2020-05-25T20:20:20-05:00", "3:00AM", "Friday", "foobar",
               "10", "17179869184"}

Init ==
    /\ layouts = BuiltinLayouts
    /\ wraps = 0
    /\ results = {}

\* Mutant of RunSetup: the custom layout assigned instead of appended.
RunSetupReplaces ==
    /\ wraps < MaxSetups
    /\ layouts' = <<"Friday">>
    /\ wraps' = wraps + 1
    /\ UNCHANGED results

\* The setup of TestFlagsFromEnv: append the custom layout "Friday", then
\* replace the time converter by one that tries the converter found there
\* first and falls back to Unix seconds.
RunSetup ==
    /\ wraps < MaxSetups
    /\ layouts' = Append(layouts, "Friday")
    /\ wraps' = wraps + 1
    /\ UNCHANGED results

\* A TimeFlag of some test converts an input with the registered converter.
ParseTime(a) ==
    /\ results' = results \cup {<<a, TimeConverter(layouts, wraps, a)>>}
    /\ UNCHANGED <<layouts, wraps>>

Next ==
    \/ RunSetup
    \/ \E a \in TimeInputs : ParseTime(a)

Spec == Init /\ [][Next]_tvars

-----------------------------------------------------------------------------
TypeOK ==
    /\ layouts \in Seq(Layouts)
    /\ wraps \in 0..MaxSetups
    /\ results \subseteq TimeInputs \X ((Nat \X (0..86399)) \cup {ConvertError})

\* Spec 5 (the layout list and converters are fixed before any parse): a
\* time input parses to the same outcome whenever in the process it is
\* parsed, whichever tests ran before.
TimeParseStable ==
    \A r1, r2 \in results : r1[1] = r2[1] => r1[2] = r2[2]

\* Running TestFlagsFromEnv's setup again (go test -count=N) leaves every
\* input of the test parsing as it did after the first run: the duplicate
\* layouts and the nested fallbacks change no outcome.
SetupRerunKeepsResults ==
    wraps >= 1 =>
        \A a \in TimeInputs :
            TimeConverter(layouts, wraps, a) = TimeConverter(TimeLayoutsInUse, 1, a)
=============================================================================
