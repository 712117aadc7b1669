------------------------------ MODULE FlagTests ------------------------------
(***************************************************************************)
(* The flag tests of src/cli/flag_test.go as cases of module Flag: the    *)
(* declaration, the environment the test sets up (after os.Clearenv), the *)
(* command line, and what the test expects: an error, or the value of the *)
(* flag (ctx.<Kind>(name), the destination, or nothing when the test only *)
(* checks the error).  Values use the representation of module Convert:  *)
(* a float in units of 1/100000, a duration in seconds.                   *)
(*                                                                         *)
(* An integer is a 64-bit limb triple (Wide).  Left out: the time slice  *)
(* test TestParseMultiTimeSlice, and the command-tree test               *)
(* TestParseBoolShortOptionHandle ("-so").                                *)
(***************************************************************************)
EXTENDS Flag, Help

CONSTANT NoCheck   \* the expectation of a test that checks only the error

NoEnv   == [x \in {} |-> Unset]
NoFiles == [x \in {} |-> Missing]

\* Integers of the tests as 64-bit values; Big is 17179869184 (2^34).
Ws(s) == [i \in 1..Len(s) |-> Wide(s[i])]
Big   == <<0, 17179, 869184>>

\* A declaration with no file paths.
D(kind, names, value, envVars, dest) ==
    [kind |-> kind, names |-> names, value |-> value, envVars |-> envVars,
     filePaths |-> <<>>, destination |-> dest]

\* A test expecting no error and the value x (or NoCheck).
Ok(d, e, argv, x) ==
    [decl |-> d, env |-> e, files |-> NoFiles, args |-> argv,
     fails |-> FALSE, expect |-> x]

\* A test expecting an error.
Fails(d, e, argv) ==
    [decl |-> d, env |-> e, files |-> NoFiles, args |-> argv,
     fails |-> TRUE, expect |-> NoCheck]

TestBoolFlagApply_SetsAllNames ==
    Ok(D("bool", <<"wat", "W", "huh">>, FALSE, <<>>, FALSE), NoEnv,
       <<<<"wat", NoValue>>, <<"W", NoValue>>, <<"huh", NoValue>>>>, TRUE)

\* One row of the TestFlagsFromEnv table: the input in the flag's first
\* variable, the expected value or an error.
EnvRow(kind, name, var, value, input, x) ==
    Ok(D(kind, <<name>>, value, <<var>>, NoDest), var :> input, <<>>, x)
EnvRowFails(kind, name, var, value, input) ==
    Fails(D(kind, <<name>>, value, <<var>>, NoDest), var :> input, <<>>)

TestFlagsFromEnv ==
    << EnvRow("time", "time", "TIME", ZeroTime, <<"526">>, UnixInstant(Wide(526))),
       EnvRow("time", "time", "TIME", ZeroTime, <<"2020-05-25T20:20:20-05:00">>, <<737936, 4820>>),
       EnvRow("time", "time", "TIME", ZeroTime, <<"3:00AM">>, <<0, 10800>>),
       EnvRow("time", "time", "TIME", ZeroTime, <<"Friday">>, <<0, 0>>),
       EnvRowFails("time", "time", "TIME", ZeroTime, <<"foobar">>),
       EnvRow("duration", "time", "TIME", 0, <<"8m46s">>, 526),
       EnvRowFails("duration", "time", "TIME", 0, <<"foobar">>),
       EnvRow("bool", "debug", "DEBUG", FALSE, <<"">>, FALSE),
       EnvRow("bool", "debug", "DEBUG", FALSE, <<"1">>, TRUE),
       EnvRow("bool", "debug", "DEBUG", FALSE, <<"false">>, FALSE),
       EnvRowFails("bool", "debug", "DEBUG", FALSE, <<"foobar">>),
       EnvRow("float64", "seconds", "SECONDS", 0, <<"1.2">>, 120000),
       EnvRow("float64", "seconds", "SECONDS", 0, <<"1">>, 100000),
       EnvRowFails("float64", "seconds", "SECONDS", 0, <<"foobar">>),
       EnvRow("int64", "seconds", "SECONDS", Wide(0), <<"1">>, Wide(1)),
       EnvRowFails("int64", "seconds", "SECONDS", Wide(0), <<"1.2">>),
       EnvRowFails("int64", "seconds", "SECONDS", Wide(0), <<"foobar">>),
       EnvRow("int", "seconds", "SECONDS", Wide(0), <<"1">>, Wide(1)),
       EnvRowFails("int", "seconds", "SECONDS", Wide(0), <<"1.2">>),
       EnvRowFails("int", "seconds", "SECONDS", Wide(0), <<"foobar">>),
       EnvRow("intSlice", "seconds", "SECONDS", <<>>, <<"1", "2">>, Ws(<<1, 2>>)),
       EnvRowFails("intSlice", "seconds", "SECONDS", <<>>, <<"1.2", "2">>),
       EnvRowFails("intSlice", "seconds", "SECONDS", <<>>, <<"foobar">>),
       EnvRow("int64Slice", "seconds", "SECONDS", <<>>, <<"1", "2">>, Ws(<<1, 2>>)),
       EnvRowFails("int64Slice", "seconds", "SECONDS", <<>>, <<"1.2", "2">>),
       EnvRowFails("int64Slice", "seconds", "SECONDS", <<>>, <<"foobar">>),
       EnvRow("string", "name", "NAME", "", <<"foo">>, "foo"),
       EnvRow("stringSlice", "names", "NAMES", <<>>, <<"foo", "bar">>, <<"foo", "bar">>),
       EnvRow("uint", "seconds", "SECONDS", Wide(0), <<"1">>, Wide(1)),
       EnvRowFails("uint", "seconds", "SECONDS", Wide(0), <<"1.2">>),
       EnvRowFails("uint", "seconds", "SECONDS", Wide(0), <<"foobar">>),
       EnvRow("uint64", "seconds", "SECONDS", Wide(0), <<"1">>, Wide(1)),
       EnvRowFails("uint64", "seconds", "SECONDS", Wide(0), <<"1.2">>),
       EnvRowFails("uint64", "seconds", "SECONDS", Wide(0), <<"foobar">>),
       EnvRow("parser", "names", "NAMES", <<"", "">>, <<"foo", "bar">>, <<"foo", "bar">>) >>

TestStringFlagApply_SetsAllNames ==
    Ok(D("string", <<"hay", "H", "hayyy">>, "", <<>>, "mmm"), NoEnv,
       <<<<"hay", <<"u">>>>, <<"H", <<"yuu">>>>, <<"hayyy", <<"YUUUU">>>>>>, "YUUUU")

TestStringSliceFlagApply_SetsAllNames ==
    Ok(D("stringSlice", <<"goat", "G", "gooots">>, <<>>, <<>>, NoDest), NoEnv,
       <<<<"goat", <<"aaa">>>>, <<"G", <<"bbb">>>>, <<"gooots", <<"eeeee">>>>>>, NoCheck)

TestStringSliceFlagApply_DefaultValueWithDestination ==
    Ok(D("stringSlice", <<"country">>, <<"UA", "US">>, <<>>, <<"CA">>), NoEnv,
       <<>>, <<"UA", "US">>)

TestIntFlagApply_SetsAllNames ==
    Ok(D("int", <<"banana", "B", "banannanana">>, Wide(0), <<>>, Wide(3)), NoEnv,
       <<<<"banana", <<"1">>>>, <<"B", <<"2">>>>, <<"banannanana", <<"5">>>>>>, Wide(5))

TestDurationFlagApply_SetsAllNames ==
    Ok(D("duration", <<"howmuch", "H", "whyyy">>, 0, <<>>, 20), NoEnv,
       <<<<"howmuch", <<"30s">>>>, <<"H", <<"5m">>>>, <<"whyyy", <<"30h">>>>>>, 108000)

TestIntSliceFlagApply_SetsAllNames ==
    Ok(D("intSlice", <<"bits", "B", "bips">>, <<>>, <<>>, NoDest), NoEnv,
       <<<<"bits", <<"23">>>>, <<"B", <<"3">>>>, <<"bips", <<"99">>>>>>, NoCheck)

TestFloat64FlagApply_SetsAllNames ==
    Ok(D("float64", <<"noodles", "N", "nurbles">>, 0, <<>>, 9910000), NoEnv,
       <<<<"noodles", <<"1.3">>>>, <<"N", <<"11">>>>, <<"nurbles", <<"43.33333">>>>>>,
       4333333)

TestGenericFlagApply_SetsAllNames ==
    Ok(D("parser", <<"orbs", "O", "obrs">>, <<"", "">>, <<>>, NoDest), NoEnv,
       <<<<"orbs", <<"eleventy", "3">>>>, <<"O", <<"4", "bloop">>>>,
         <<"obrs", <<"19", "s">>>>>>, NoCheck)

(* The App.Run tests: flag "serve", alias "s", unless stated otherwise.  *)
S2 == <<"serve", "s">>
I2 == <<"intervals", "i">>
T2 == <<"timeout", "t">>
Twice(a, b) == <<<<"s", <<a>>>>, <<"s", <<b>>>>>>
Once(n, a) == <<<<n, <<a>>>>>>

TestParseMultiString ==
    Ok(D("string", S2, "", <<>>, NoDest), NoEnv, Once("s", "10"), "10")
TestParseDestinationString ==
    Ok(D("string", <<"dest">>, "", <<>>, ""), NoEnv, Once("dest", "10"), "10")
TestParseMultiStringFromEnv ==
    Ok(D("string", <<"count", "c">>, "", <<"APP_COUNT">>, NoDest),
       "APP_COUNT" :> <<"20">>, <<>>, "20")
TestParseMultiStringFromEnvCascade ==
    Ok(D("string", <<"count", "c">>, "", <<"COMPAT_COUNT", "APP_COUNT">>, NoDest),
       "APP_COUNT" :> <<"20">>, <<>>, "20")
TestParseMultiStringSlice ==
    Ok(D("stringSlice", S2, <<>>, <<>>, NoDest), NoEnv, Twice("10", "20"),
       <<"10", "20">>)
TestParseMultiStringSliceWithDefaults ==
    Ok(D("stringSlice", S2, <<"9", "2">>, <<>>, NoDest), NoEnv, Twice("10", "20"),
       <<"10", "20">>)
TestParseMultiStringSliceWithDestination ==
    Ok(D("stringSlice", S2, <<>>, <<>>, <<>>), NoEnv, Twice("10", "20"),
       <<"10", "20">>)
TestParseMultiStringSliceWithDestinationAndEnv ==
    Ok(D("stringSlice", S2, <<>>, <<"APP_INTERVALS">>, <<>>),
       "APP_INTERVALS" :> <<"20", "30", "40">>, Twice("10", "20"), <<"10", "20">>)
TestParseMultiStringSliceWithDefaultsUnset ==
    Ok(D("stringSlice", S2, <<"9", "2">>, <<>>, NoDest), NoEnv, <<>>, <<"9", "2">>)
TestParseMultiStringSliceFromEnv ==
    Ok(D("stringSlice", I2, <<"ok">>, <<"APP_INTERVALS">>, <<"hello", "world">>),
       "APP_INTERVALS" :> <<"20", "30", "40">>, <<>>, <<"20", "30", "40">>)
TestParseMultiStringSliceFromEnvWithDefaults ==
    Ok(D("stringSlice", I2, <<"1", "2", "5">>, <<"APP_INTERVALS">>, NoDest),
       "APP_INTERVALS" :> <<"20", "30", "40">>, <<>>, <<"20", "30", "40">>)
TestParseMultiStringSliceFromEnvCascade ==
    Ok(D("stringSlice", I2, <<>>, <<"COMPAT_INTERVALS", "APP_INTERVALS">>, NoDest),
       "APP_INTERVALS" :> <<"20", "30", "40">>, <<>>, <<"20", "30", "40">>)
TestParseMultiStringSliceFromEnvCascadeWithDefaults ==
    Ok(D("stringSlice", I2, <<"1", "2", "5">>, <<"COMPAT_INTERVALS", "APP_INTERVALS">>,
         NoDest),
       "APP_INTERVALS" :> <<"20", "30", "40">>, <<>>, <<"20", "30", "40">>)
TestParseMultiStringSliceFromEnvWithDestination ==
    Ok(D("stringSlice", I2, <<>>, <<"APP_INTERVALS">>, <<>>),
       "APP_INTERVALS" :> <<"20", "30", "40">>, <<>>, <<"20", "30", "40">>)
TestParseMultiInt ==
    Ok(D("int", S2, Wide(0), <<>>, NoDest), NoEnv, Once("s", "10"), Wide(10))
TestParseDestinationInt ==
    Ok(D("int", <<"dest">>, Wide(0), <<>>, Wide(0)), NoEnv, Once("dest", "10"), Wide(10))
TestParseMultiIntFromEnv ==
    Ok(D("int", T2, Wide(0), <<"APP_TIMEOUT_SECONDS">>, NoDest),
       "APP_TIMEOUT_SECONDS" :> <<"10">>, <<>>, Wide(10))
TestParseMultiIntFromEnvCascade ==
    Ok(D("int", T2, Wide(0), <<"COMPAT_TIMEOUT_SECONDS", "APP_TIMEOUT_SECONDS">>, NoDest),
       "APP_TIMEOUT_SECONDS" :> <<"10">>, <<>>, Wide(10))
TestParseMultiIntSlice ==
    Ok(D("intSlice", S2, <<>>, <<>>, NoDest), NoEnv, Twice("10", "20"), Ws(<<10, 20>>))
TestParseMultiIntSliceWithDefaults ==
    Ok(D("intSlice", S2, Ws(<<9, 2>>), <<>>, NoDest), NoEnv, Twice("10", "20"), Ws(<<10, 20>>))
TestParseMultiIntSliceWithDefaultsUnset ==
    Ok(D("intSlice", S2, Ws(<<9, 2>>), <<>>, NoDest), NoEnv, <<>>, Ws(<<9, 2>>))
TestParseMultiIntSliceFromEnv ==
    Ok(D("intSlice", I2, <<>>, <<"APP_INTERVALS">>, NoDest),
       "APP_INTERVALS" :> <<"20", "30", "40">>, <<>>, Ws(<<20, 30, 40>>))
TestParseMultiIntSliceFromEnvWithDefaults ==
    Ok(D("intSlice", I2, Ws(<<1, 2, 5>>), <<"APP_INTERVALS">>, NoDest),
       "APP_INTERVALS" :> <<"20", "30", "40">>, <<>>, Ws(<<20, 30, 40>>))
TestParseMultiIntSliceFromEnvCascade ==
    Ok(D("intSlice", I2, <<>>, <<"COMPAT_INTERVALS", "APP_INTERVALS">>, NoDest),
       "APP_INTERVALS" :> <<"20", "30", "40">>, <<>>, Ws(<<20, 30, 40>>))
TestParseMultiInt64Slice ==
    Ok(D("int64Slice", S2, <<>>, <<>>, NoDest), NoEnv, Twice("10", "17179869184"),
       <<Wide(10), Big>>)
TestParseMultiInt64SliceFromEnv ==
    Ok(D("int64Slice", I2, <<>>, <<"APP_INTERVALS">>, NoDest),
       "APP_INTERVALS" :> <<"20", "30", "17179869184">>, <<>>, <<Wide(20), Wide(30), Big>>)
TestParseMultiInt64SliceFromEnvCascade ==
    Ok(D("int64Slice", I2, <<>>, <<"COMPAT_INTERVALS", "APP_INTERVALS">>, NoDest),
       "APP_INTERVALS" :> <<"20", "30", "17179869184">>, <<>>, <<Wide(20), Wide(30), Big>>)
\* The test asserts no error and two values under each name.
TestParseMultiTimeSlice ==
    Ok(D("timeSlice", S2, <<>>, <<>>, NoDest), NoEnv, Twice("10", "17179869184"),
       <<UnixInstant(Wide(10)), UnixInstant(Big)>>)
TestParseMultiFloat64 ==
    Ok(D("float64", S2, 0, <<>>, NoDest), NoEnv, Once("s", "10.2"), 1020000)
TestParseDestinationFloat64 ==
    Ok(D("float64", <<"dest">>, 0, <<>>, 0), NoEnv, Once("dest", "10.2"), 1020000)
TestParseMultiFloat64FromEnv ==
    Ok(D("float64", T2, 0, <<"APP_TIMEOUT_SECONDS">>, NoDest),
       "APP_TIMEOUT_SECONDS" :> <<"15.5">>, <<>>, 1550000)
TestParseMultiFloat64FromEnvCascade ==
    Ok(D("float64", T2, 0, <<"COMPAT_TIMEOUT_SECONDS", "APP_TIMEOUT_SECONDS">>, NoDest),
       "APP_TIMEOUT_SECONDS" :> <<"15.5">>, <<>>, 1550000)
TestParseMultiFloat64SliceFromEnv ==
    Ok(D("float64Slice", I2, <<>>, <<"APP_INTERVALS">>, NoDest),
       "APP_INTERVALS" :> <<"0.1", "-10.5">>, <<>>, <<10000, -1050000>>)
TestParseMultiFloat64SliceFromEnvCascade ==
    Ok(D("float64Slice", I2, <<>>, <<"COMPAT_INTERVALS", "APP_INTERVALS">>, NoDest),
       "APP_INTERVALS" :> <<"0.1234", "-10.5">>, <<>>, <<12340, -1050000>>)
TestParseMultiBool ==
    Ok(D("bool", S2, FALSE, <<>>, NoDest), NoEnv, <<<<"serve", NoValue>>>>, TRUE)
TestParseDestinationBool ==
    Ok(D("bool", <<"dest">>, FALSE, <<>>, FALSE), NoEnv, <<<<"dest", NoValue>>>>, TRUE)
TestParseMultiBoolFromEnv ==
    Ok(D("bool", <<"debug", "d">>, FALSE, <<"APP_DEBUG">>, NoDest),
       "APP_DEBUG" :> <<"1">>, <<>>, TRUE)
TestParseMultiBoolFromEnvCascade ==
    Ok(D("bool", <<"debug", "d">>, FALSE, <<"COMPAT_DEBUG", "APP_DEBUG">>, NoDest),
       "APP_DEBUG" :> <<"1">>, <<>>, TRUE)
\* One row per input of the test's table.
TestParseBoolFromEnv ==
    [i \in 1..4 |->
        LET row == << <<"", FALSE>>, <<"1", TRUE>>, <<"false", FALSE>>,
                      <<"true", TRUE>> >>[i]
        IN  Ok(D("bool", <<"debug", "d">>, FALSE, <<"DEBUG">>, NoDest),
               "DEBUG" :> <<row[1]>>, <<>>, row[2])]
TestParseMultiBoolT ==
    Ok(D("bool", <<"implode", "i">>, TRUE, <<>>, NoDest), NoEnv,
       <<<<"implode", <<"false">>>>>>, FALSE)

TestParseGeneric ==
    Ok(D("parser", S2, <<"", "">>, <<>>, NoDest), NoEnv,
       <<<<"s", <<"10", "20">>>>>>, <<"10", "20">>)
TestParseGenericNoFlags ==
    Ok(D("parser", S2, <<"hello", "world">>, <<>>, NoDest), NoEnv, <<>>,
       <<"hello", "world">>)
TestParseGenericDestination ==
    Ok(D("parser", S2, <<"hello", "world">>, <<>>, <<"", "">>), NoEnv,
       <<<<"s", <<"10", "20">>>>>>, <<"10", "20">>)
TestParseGenericDestinationNoValue ==
    Ok(D("parser", S2, <<"", "">>, <<>>, <<"a", "ok">>), NoEnv,
       <<<<"s", <<"10", "20">>>>>>, <<"10", "20">>)
TestParseGenericDestinationNoValueNoFlags ==
    Ok(D("parser", S2, <<"", "">>, <<>>, <<"a", "ok">>), NoEnv, <<>>, <<"", "">>)
TestParseStringSliceDestinationNoValueNoFlags ==
    Ok(D("stringSlice", S2, <<>>, <<>>, <<"a", "ok">>), NoEnv, <<>>, <<>>)
TestParseGenericFromEnv ==
    Ok(D("parser", S2, <<"", "">>, <<"APP_SERVE">>, NoDest),
       "APP_SERVE" :> <<"20", "30">>, <<>>, <<"20", "30">>)
TestParseGenericFromEnvCascade ==
    Ok(D("parser", <<"foos">>, <<"", "">>, <<"COMPAT_FOO", "APP_FOO">>, NoDest),
       "APP_FOO" :> <<"99", "2000">>, <<>>, <<"99", "2000">>)
TestFromEnvWithAlias ==
    Ok(D("bool", <<"implode", "i">>, TRUE, <<"APP_IMPLODE">>, NoDest),
       "APP_IMPLODE" :> <<"true">>, <<<<"i", <<"false">>>>>>, FALSE)

\* flagFromEnvOrFile(names, path) with APP_FOO=123 and a file holding
\* "abc"; each row as a string flag with an empty default, whose value is
\* what the resolution returns.
TestFlagFromFile ==
    [i \in 1..5 |->
        LET row == << <<"file-does-not-exist", <<"APP_BAR">>, "">>,
                      <<"file-does-not-exist", <<"APP_FOO">>, "123">>,
                      <<"file-does-not-exist", <<"APP_FOO", "APP_BAR">>, "123">>,
                      <<"temp", <<"APP_FOO">>, "123">>,
                      <<"temp", <<"APP_BAR">>, "abc">> >>[i]
        IN  [Ok([D("string", <<"f">>, "", row[2], NoDest)
                   EXCEPT !.filePaths = <<row[1]>>],
                "APP_FOO" :> <<"123">>, <<>>, row[3])
             EXCEPT !.files = "temp" :> <<"abc">>]]

\* Every case above.
Tests ==
    << TestBoolFlagApply_SetsAllNames >> \o TestFlagsFromEnv
 \o << TestStringFlagApply_SetsAllNames, TestStringSliceFlagApply_SetsAllNames,
       TestStringSliceFlagApply_DefaultValueWithDestination,
       TestIntFlagApply_SetsAllNames, TestDurationFlagApply_SetsAllNames,
       TestIntSliceFlagApply_SetsAllNames, TestFloat64FlagApply_SetsAllNames,
       TestGenericFlagApply_SetsAllNames,
       TestParseMultiString, TestParseDestinationString,
       TestParseMultiStringFromEnv, TestParseMultiStringFromEnvCascade,
       TestParseMultiStringSlice, TestParseMultiStringSliceWithDefaults,
       TestParseMultiStringSliceWithDestination,
       TestParseMultiStringSliceWithDestinationAndEnv,
       TestParseMultiStringSliceWithDefaultsUnset,
       TestParseMultiStringSliceFromEnv, TestParseMultiStringSliceFromEnvWithDefaults,
       TestParseMultiStringSliceFromEnvCascade,
       TestParseMultiStringSliceFromEnvCascadeWithDefaults,
       TestParseMultiStringSliceFromEnvWithDestination,
       TestParseMultiInt, TestParseDestinationInt, TestParseMultiIntFromEnv,
       TestParseMultiIntFromEnvCascade, TestParseMultiIntSlice,
       TestParseMultiIntSliceWithDefaults, TestParseMultiIntSliceWithDefaultsUnset,
       TestParseMultiIntSliceFromEnv, TestParseMultiIntSliceFromEnvWithDefaults,
       TestParseMultiIntSliceFromEnvCascade, TestParseMultiInt64Slice,
       TestParseMultiTimeSlice,
       TestParseMultiInt64SliceFromEnv, TestParseMultiInt64SliceFromEnvCascade,
       TestParseMultiFloat64, TestParseDestinationFloat64,
       TestParseMultiFloat64FromEnv, TestParseMultiFloat64FromEnvCascade,
       TestParseMultiFloat64SliceFromEnv, TestParseMultiFloat64SliceFromEnvCascade,
       TestParseMultiBool, TestParseDestinationBool, TestParseMultiBoolFromEnv,
       TestParseMultiBoolFromEnvCascade >>
 \o TestParseBoolFromEnv
 \o << TestParseMultiBoolT, TestParseGeneric, TestParseGenericNoFlags,
       TestParseGenericDestination, TestParseGenericDestinationNoValue,
       TestParseGenericDestinationNoValueNoFlags,
       TestParseStringSliceDestinationNoValueNoFlags,
       TestParseGenericFromEnv, TestParseGenericFromEnvCascade,
       TestFromEnvWithAlias >>
 \o TestFlagFromFile

-----------------------------------------------------------------------------
(* The *HelpOutput tests: FlagToString of a declaration is the expected    *)
(* text (whole = TRUE) or ends with it (whole = FALSE, the WithEnvVar      *)
(* tests).  The GenericFlag rows without a Value are left out.           *)

HF(kind, names, usage, value, envVars) ==
    [kind |-> kind, names |-> names, usage |-> usage, value |-> value,
     defaultText |-> "", envVars |-> envVars]
Check(whole, f, x) == [flag |-> f, text |-> x, whole |-> whole]
Whole(f, x) == Check(TRUE, f, x)

\* The table rows of a test: each row as a declaration, then its check.
Rows(kind, rows, envs, whole) ==
    [i \in 1..Len(rows) |->
        Check(whole, HF(kind, rows[i][1], rows[i][2], rows[i][3], envs), rows[i][4])]

TestBoolFlagHelpOutput ==
    << Whole(HF("bool", <<"help">>, "", FALSE, <<>>), "--help\t(default: false)"),
       Whole(HF("bool", <<"h">>, "", FALSE, <<>>), "-h\t(default: false)") >>

stringFlagTests ==
    << <<<<"foo">>, "", "", "--foo value\t">>,
       <<<<"f">>, "", "", "-f value\t">>,
       <<<<"f">>, "The total #foo# desired", "all",
         "-f foo\tThe total foo desired (default: \"all\")">>,
       <<<<"test">>, "", "Something", "--test value\t(default: \"Something\")">>,
       <<<<"config", "c">>, "Load configuration from #FILE#", "",
         "--config FILE, -c FILE\tLoad configuration from FILE">>,
       <<<<"config", "c">>, "Load configuration from #CONFIG#", "config.json",
         "--config CONFIG, -c CONFIG\tLoad configuration from CONFIG (default: \"config.json\")">> >>
TestStringFlagHelpOutput == Rows("string", stringFlagTests, <<>>, TRUE)
TestStringFlagDefaultText ==
    << Whole([HF("string", <<"foo">>, "amount of #foo# requested", "none", <<>>)
                 EXCEPT !.defaultText = "all of it"],
             "--foo foo\tamount of foo requested (default: all of it)") >>
\* The WithEnvVar variant builds its flags without the usage text.
TestStringFlagWithEnvVarHelpOutput ==
    Rows("string", [i \in 1..Len(stringFlagTests) |->
                       [stringFlagTests[i] EXCEPT ![2] = "", ![4] = " [$APP_FOO]"]],
         <<"APP_FOO">>, FALSE)

stringSliceFlagTests ==
    << <<<<"foo">>, "", <<"">>, "--foo value\t">>,
       <<<<"f">>, "", <<"">>, "-f value\t">>,
       <<<<"f">>, "", <<"Lipstick">>, "-f value\t(default: \"Lipstick\")">>,
       <<<<"test">>, "", <<"Something">>, "--test value\t(default: \"Something\")">>,
       <<<<"dee", "d">>, "", <<"Inka", "Dinka", "dooo">>,
         "--dee value, -d value\t(default: \"Inka\", \"Dinka\", \"dooo\")">> >>
TestStringSliceFlagHelpOutput == Rows("stringSlice", stringSliceFlagTests, <<>>, TRUE)
TestStringSliceFlagWithEnvVarHelpOutput ==
    Rows("stringSlice", [i \in 1..Len(stringSliceFlagTests) |->
                            [stringSliceFlagTests[i] EXCEPT ![4] = " [$APP_QWWX]"]],
         <<"APP_QWWX">>, FALSE)

\* A table of names only, every flag with the same default.
NameRows(kind, names, value, texts, envs, whole) ==
    [i \in 1..Len(names) |-> Check(whole, HF(kind, <<names[i]>>, "", value, envs), texts[i])]

TestIntFlagHelpOutput ==
    NameRows("int", <<"hats", "H">>, Wide(9),
             <<"--hats value\t(default: 9)", "-H value\t(default: 9)">>, <<>>, TRUE)
TestIntFlagWithEnvVarHelpOutput ==
    NameRows("int", <<"hats", "H">>, Wide(0), <<" [$APP_BAR]", " [$APP_BAR]">>, <<"APP_BAR">>, FALSE)
TestInt64FlagHelpOutput ==
    NameRows("int64", <<"hats", "H">>, <<0, 8589, 934592>>,
             <<"--hats value\t(default: 8589934592)", "-H value\t(default: 8589934592)">>,
             <<>>, TRUE)
TestInt64FlagWithEnvVarHelpOutput == TestIntFlagWithEnvVarHelpOutput
TestUintFlagHelpOutput ==
    NameRows("uint", <<"nerfs", "N">>, Wide(41),
             <<"--nerfs value\t(default: 41)", "-N value\t(default: 41)">>, <<>>, TRUE)
TestUintFlagWithEnvVarHelpOutput ==
    NameRows("uint", <<"nerfs", "N">>, Wide(0), <<" [$APP_BAR]", " [$APP_BAR]">>, <<"APP_BAR">>, FALSE)
TestUint64FlagHelpOutput ==
    NameRows("uint64", <<"gerfs", "G">>, <<0, 8589, 934582>>,
             <<"--gerfs value\t(default: 8589934582)", "-G value\t(default: 8589934582)">>,
             <<>>, TRUE)
TestUint64FlagWithEnvVarHelpOutput ==
    NameRows("uint", <<"gerfs", "G">>, Wide(0), <<" [$APP_BAR]", " [$APP_BAR]">>, <<"APP_BAR">>, FALSE)
TestDurationFlagHelpOutput ==
    NameRows("duration", <<"hooting", "H">>, 1,
             <<"--hooting value\t(default: 1s)", "-H value\t(default: 1s)">>, <<>>, TRUE)
TestDurationFlagWithEnvVarHelpOutput ==
    NameRows("duration", <<"hooting", "H">>, 0, <<" [$APP_BAR]", " [$APP_BAR]">>,
             <<"APP_BAR">>, FALSE)
TestFloat64FlagHelpOutput ==
    NameRows("float64", <<"hooting", "H">>, 10000,
             <<"--hooting value\t(default: 0.1)", "-H value\t(default: 0.1)">>, <<>>, TRUE)
TestFloat64FlagWithEnvVarHelpOutput ==
    NameRows("float64", <<"hooting", "H">>, 0, <<" [$APP_BAZ]", " [$APP_BAZ]">>,
             <<"APP_BAZ">>, FALSE)

intSliceFlagTests ==
    << <<<<"heads">>, "", <<>>, "--heads value\t">>,
       <<<<"H">>, "", <<>>, "-H value\t">>,
       <<<<"H", "heads">>, "", Ws(<<9, 3>>), "-H value, --heads value\t(default: 9, 3)">> >>
TestIntSliceFlagHelpOutput == Rows("intSlice", intSliceFlagTests, <<>>, TRUE)
TestIntSliceFlagWithEnvVarHelpOutput ==
    Rows("intSlice", [i \in 1..3 |-> [intSliceFlagTests[i] EXCEPT ![4] = " [$APP_SMURF]"]],
         <<"APP_SMURF">>, FALSE)
int64SliceFlagTests ==
    SubSeq(intSliceFlagTests, 1, 2)
 \o << <<<<"heads", "H">>, "", <<Wide(2), Big>>,
         "--heads value, -H value\t(default: 2, 17179869184)">> >>
TestInt64SliceFlagHelpOutput == Rows("int64Slice", int64SliceFlagTests, <<>>, TRUE)
TestInt64SliceFlagWithEnvVarHelpOutput ==
    \* this test builds the flag from Name alone, without Aliases
    Rows("int64Slice", [i \in 1..3 |-> [int64SliceFlagTests[i]
                                         EXCEPT ![1] = <<@[1]>>, ![4] = " [$APP_SMURF]"]],
         <<"APP_SMURF">>, FALSE)

float64SliceFlagTests ==
    << <<<<"heads">>, "", <<>>, "--heads value\t">>,
       <<<<"H">>, "", <<>>, "-H value\t">>,
       <<<<"heads", "H">>, "", <<12340, -1050000>>,
         "--heads value, -H value\t(default: 0.1234, -10.5)">> >>
TestFloat64SliceFlagHelpOutput == Rows("float64Slice", float64SliceFlagTests, <<>>, TRUE)
\* The WithEnvVar variant builds its flags without the aliases.
TestFloat64SliceFlagWithEnvVarHelpOutput ==
    Rows("float64Slice", [i \in 1..3 |-> [float64SliceFlagTests[i]
                             EXCEPT ![1] = <<Head(@)>>, ![4] = " [$APP_SMURF]"]],
         <<"APP_SMURF">>, FALSE)

TestGenericFlagHelpOutput ==
    << Whole(HF("parser", <<"toads">>, "test flag", <<"abc", "def">>, <<>>),
             "--toads value\ttest flag (default: abc,def)"),
       Whole(HF("parser", <<"t">>, "test flag", <<"abc", "def">>, <<>>),
             "-t value\ttest flag (default: abc,def)") >>

\* Every help-text case above.
HelpTests ==
    TestBoolFlagHelpOutput \o TestStringFlagHelpOutput \o TestStringFlagDefaultText
 \o TestStringFlagWithEnvVarHelpOutput \o TestStringSliceFlagHelpOutput
 \o TestStringSliceFlagWithEnvVarHelpOutput \o TestIntFlagHelpOutput
 \o TestIntFlagWithEnvVarHelpOutput \o TestInt64FlagHelpOutput
 \o TestInt64FlagWithEnvVarHelpOutput \o TestUint64FlagHelpOutput
 \o TestUintFlagHelpOutput \o TestUintFlagWithEnvVarHelpOutput
 \o TestUint64FlagWithEnvVarHelpOutput \o TestDurationFlagHelpOutput
 \o TestDurationFlagWithEnvVarHelpOutput \o TestFloat64FlagHelpOutput
 \o TestFloat64FlagWithEnvVarHelpOutput \o TestIntSliceFlagHelpOutput
 \o TestIntSliceFlagWithEnvVarHelpOutput \o TestInt64SliceFlagHelpOutput
 \o TestInt64SliceFlagWithEnvVarHelpOutput
 \o TestFloat64SliceFlagHelpOutput \o TestFloat64SliceFlagWithEnvVarHelpOutput
 \o TestGenericFlagHelpOutput
=============================================================================
