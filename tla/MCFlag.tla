-------------------------------- MODULE MCFlag --------------------------------
(***************************************************************************)
(* Instances of module Flag for TLC: one family of declarations per flag  *)
(* kind, every environment over the flag's variables, every file system   *)
(* over its path, and every command line of up to MaxArgs arguments over *)
(* its names and a few values, valid and invalid.                          *)
(***************************************************************************)
EXTENDS Flag

CONSTANT MaxArgs   \* the longest command line checked

\* All command lines of at most MaxArgs arguments over the given names and
\* values.
ArgvsOver(names, values) == BoundedSeq(names \X values, MaxArgs)

\* For a non-bool flag, "-name" without "=value" takes the next argument as
\* its value; only as the last argument does it stand without one.
ValueLastOnly(argvs) ==
    {a \in argvs : \A i \in 1..Len(a) - 1 : a[i][2] # NoValue}

\* Every function from the names to the given values, Unset included.
EnvsOver(names, values) == [names -> values \cup {Unset}]
FilesOver(paths, values) == [paths -> values \cup {Missing}]

(* IntFlag "hats", aliases "h": default 9, two variables, one file;       *)
(* declared with and without a pre-set destination.                       *)
IntDecls ==
    {[kind |-> "int", names |-> <<"hats", "h">>, value |-> Wide(9),
      envVars |-> <<"COMPAT_HATS", "APP_HATS">>, filePaths |-> <<"hats.conf">>,
      destination |-> d] : d \in {NoDest, Wide(3)}}
IntEnvs  == EnvsOver({"COMPAT_HATS", "APP_HATS"}, {<<"">>, <<"20">>, <<"x">>})
IntFiles == FilesOver({"hats.conf"}, {<<"">>, <<"30">>})
IntArgvs == ValueLastOnly(ArgvsOver({"hats", "h"}, {<<"10">>, <<"0xA">>, <<"x">>, NoValue}))

(* BoolFlag "implode", alias "i", default true or false.                  *)
BoolDecls ==
    {[kind |-> "bool", names |-> <<"implode", "i">>, value |-> v,
      envVars |-> <<"APP_IMPLODE">>, filePaths |-> <<>>,
      destination |-> NoDest] : v \in BOOLEAN}
BoolEnvs  == EnvsOver({"APP_IMPLODE"}, {<<"">>, <<"true">>, <<"x">>})
BoolFiles == {[p \in {} |-> Missing]}
BoolArgvs == ArgvsOver({"implode", "i"}, {NoValue, <<"false">>, <<"x">>})

(* GenericFlag "implode", alias "i", over "type Switch bool".             *)
NamedBoolDecls ==
    {[kind |-> "namedBool", names |-> <<"implode", "i">>, value |-> FALSE,
      envVars |-> <<"APP_IMPLODE">>, filePaths |-> <<>>,
      destination |-> NoDest]}
NamedBoolArgvs == ValueLastOnly(ArgvsOver({"implode", "i"}, {NoValue, <<"true">>, <<"x">>}))

(* IntSliceFlag "serve" with default [9, 2]; with names given by SliceNames. *)
CONSTANT SliceNames
OneSliceName  == <<"serve">>
TwoSliceNames == <<"serve", "s">>
SliceDecls ==
    {[kind |-> "intSlice", names |-> SliceNames, value |-> <<Wide(9), Wide(2)>>,
      envVars |-> <<"APP_INTERVALS">>, filePaths |-> <<"intervals.conf">>,
      destination |-> d] : d \in {NoDest, <<Wide(5)>>}}
SliceEnvs  == EnvsOver({"APP_INTERVALS"}, {<<"">>, <<"20", "30">>, <<"1", "x">>})
SliceFiles == FilesOver({"intervals.conf"}, {<<"40">>})
SliceArgvs == ArgvsOver(Range(SliceNames), {<<"10">>, <<"17179869184">>, <<"x">>, <<"1", "2">>})

(* GenericFlag "serve", alias "s", of the test type Parser.               *)
ParserDecls ==
    {[kind |-> "parser", names |-> <<"serve", "s">>, value |-> <<"hello", "world">>,
      envVars |-> <<"APP_SERVE">>, filePaths |-> <<>>,
      destination |-> d] : d \in {NoDest, <<"a", "ok">>}}
ParserEnvs  == EnvsOver({"APP_SERVE"}, {<<"20", "30">>, <<"x">>})
ParserFiles == {[p \in {} |-> Missing]}
ParserArgvs == ValueLastOnly(ArgvsOver({"serve", "s"}, {<<"10", "20">>, <<"10">>, NoValue}))
=============================================================================
