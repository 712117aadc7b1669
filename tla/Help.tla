-------------------------------- MODULE Help --------------------------------
(***************************************************************************)
(* The help-text renderer (FlagToString, outside src/, modelled from spec  *)
(* 4.5; its output is pinned by the *HelpOutput tests of                   *)
(* src/cli/flag_test.go):                                                  *)
(*                                                                         *)
(*   --name ph, -alias ph<TAB>usage (default: X) [$ENV]                    *)
(*                                                                         *)
(* Strings are TLC strings, scanned with SubSeq.  SANY reads no backtick   *)
(* inside a string literal, so the model writes the placeholder delimiter  *)
(* of a usage text as Tick; no usage of the tests contains that character. *)
(* The environment hint is the POSIX form ($NAME).                         *)
(***************************************************************************)
EXTENDS Convert, FiniteSets
LOCAL INSTANCE FiniteSetsExt

Tick == "#"

\* The one-character substring at position i.
CharAt(s, i) == SubSeq(s, i, i)

\* unquoteUsage: the text between the first two ticks is the placeholder,
\* and the usage is shown with those two ticks removed; with fewer than two
\* ticks there is no placeholder and the usage is shown as written.
UnquoteUsage(usage) ==
    LET ticks == {i \in 1..Len(usage) : CharAt(usage, i) = Tick}
    IN  IF Cardinality(ticks) < 2 THEN <<"", usage>>
        ELSE LET a == Min(ticks)
                 b == Min(ticks \ {a})
                 name == SubSeq(usage, a + 1, b - 1)
             IN  <<name, SubSeq(usage, 1, a - 1) \o name
                         \o SubSeq(usage, b + 1, Len(usage))>>

\* "-" before a one-character name, "--" before a longer one.
PrefixFor(name) == IF Len(name) = 1 THEN "-" ELSE "--"

\* The strings of a sequence joined with a separator.
RECURSIVE JoinWith(_, _)
JoinWith(ss, sep) ==
    IF ss = <<>> THEN ""
    ELSE IF Len(ss) = 1 THEN Head(ss)
    ELSE Head(ss) \o sep \o JoinWith(Tail(ss), sep)

\* prefixedNames: every name with its prefix and, when there is one, the
\* placeholder, separated by ", ".
PrefixedNames(names, placeholder) ==
    JoinWith([i \in 1..Len(names) |->
                 PrefixFor(names[i]) \o names[i]
                 \o (IF placeholder = "" THEN "" ELSE " " \o placeholder)],
             ", ")

\* strconv.Quote for strings without characters that need escaping.
Quote(s) == "\"" \o s \o "\""

\* The default shown in "(default: X)", "" for none: the DefaultText when
\* set; a string quoted unless empty; the nonempty elements of a string
\* slice quoted; other slices and scalars as Stringify writes their
\* elements; the Parser type through its String method.
DefaultValueText(f) ==
    LET v == f.value
    IN  CASE f.defaultText # ""    -> f.defaultText
          [] f.kind = "string"     -> IF v = "" THEN "" ELSE Quote(v)
          [] f.kind = "stringSlice" ->
                LET shown == SelectSeq(v, LAMBDA e : e # "")
                IN  JoinWith([i \in 1..Len(shown) |-> Quote(shown[i])], ", ")
          [] IsSliceKind(f.kind)   -> JoinWith(Stringify(f.kind, v), ", ")
          [] f.kind = "parser"     -> JoinWith(Stringify(f.kind, v), ",")
          [] OTHER                 -> FormatAtom(f.kind, v)

\* withEnvHint: " [$A,$B]" when variables are configured.
EnvHint(envVars) ==
    IF envVars = <<>> THEN ""
    ELSE " [" \o JoinWith([i \in 1..Len(envVars) |-> "$" \o envVars[i]], ",") \o "]"

\* FlagToString(f): names and placeholder (none for a bool flag), a tab,
\* the usage and the default with the space between them trimmed when one
\* is empty, then the environment hint.
Render(f) ==
    LET uq == UnquoteUsage(f.usage)
        placeholder == IF f.kind = "bool" THEN ""
                       ELSE IF uq[1] = "" THEN "value" ELSE uq[1]
        dv == DefaultValueText(f)
        dflt == IF dv = "" THEN "" ELSE "(default: " \o dv \o ")"
        body == IF uq[2] = "" THEN dflt
                ELSE IF dflt = "" THEN uq[2] ELSE uq[2] \o " " \o dflt
    IN  PrefixedNames(f.names, placeholder) \o "\t" \o body \o EnvHint(f.envVars)
=============================================================================
