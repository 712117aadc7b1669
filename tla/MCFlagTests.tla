----------------------------- MODULE MCFlagTests -----------------------------
(***************************************************************************)
(* The cases of module FlagTests run through module Flag: TLC starts one  *)
(* behaviour per test and checks at the end of the parse pass what the    *)
(* test asserts.                                                           *)
(***************************************************************************)
EXTENDS FlagTests

VARIABLES
    test,   \* the index in Tests of the case being run
    row     \* the index in HelpTests of the help-output row being rendered

tvars == <<vars, test, row>>

TestInit ==
    /\ row \in 1..Len(HelpTests)
    /\ \E i \in 1..Len(Tests) :
        /\ test = i
        /\ InitFrom(Tests[i].decl, Tests[i].env, Tests[i].files, Tests[i].args)

TestNext == Next /\ UNCHANGED <<test, row>>

TestSpec == TestInit /\ [][TestNext]_tvars

\* Each test of src/cli/flag_test.go: when the pass ends, it has returned an
\* error exactly when the test expects one, and the flag's value (what
\* ctx.<Kind>(name) or the destination reads) is the value the test expects.
TestExpectationHolds ==
    LET t == Tests[test]
    IN  /\ phase \in {"done", "failed"} => ((phase = "failed") = t.fails)
        /\ (phase = "done" /\ t.expect # NoCheck) => ptr.val = t.expect

\* Whether s ends with x.
EndsWith(s, x) == Len(s) >= Len(x) /\ SubSeq(s, Len(s) - Len(x) + 1, Len(s)) = x

\* The *HelpOutput tests: FlagToString renders every declaration of their
\* tables as the text the test compares it with (or, for the WithEnvVar
\* tests, with the environment hint the test looks for at its end); each
\* behaviour renders one row.
HelpOutputMatchesTests ==
    LET t == HelpTests[row]
    IN  IF t.whole THEN Render(t.flag) = t.text ELSE EndsWith(Render(t.flag), t.text)
=============================================================================
