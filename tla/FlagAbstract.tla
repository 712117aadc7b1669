----------------------------- MODULE FlagAbstract -----------------------------
(***************************************************************************)
(* What a flag promises, spec 4.2-4.4 and 8, with no adapters: its value   *)
(* starts as the first nonempty source by precedence (environment          *)
(* variables in order, then files in order) or else the declared default;  *)
(* then the command-line values are applied in order, through whichever    *)
(* name: a scalar takes the last one, a slice drops its starting value on  *)
(* the first one and collects every one after it.  A rejected value ends  *)
(* the parse; spec 7 allows it to leave an uncleared slice emptied.        *)
(***************************************************************************)
EXTENDS Convert, EnvResolve

CONSTANT NoValue

VARIABLES
    flag, env, files, args,   \* as in module Flag
    value,                    \* the flag's value
    cleared,                  \* a slice has dropped its starting value
    phase                     \* "apply", "parse", "done" or "failed"

avars == <<flag, env, files, args, value, cleared, phase>>

\* The starting value by precedence, or ConvertError.
Start ==
    LET r == ResolveByPrecedence(env, files, flag.envVars, flag.filePaths)
    IN  IF r = NotFound THEN flag.value ELSE FromString(flag.kind, r)

\* The value an argument carries to the flag, or ConvertError.
ArgOf(a) ==
    LET fs == IF a[2] = NoValue THEN <<"true">> ELSE a[2]
    IN  IF a[2] = NoValue /\ flag.kind # "bool" THEN ConvertError
        ELSE IF IsSliceKind(flag.kind) THEN ParseScalar(ElemKind(flag.kind), fs)
        ELSE Convert(flag.kind, Zero(flag.kind), fs)

AInit == phase = "apply" /\ ~cleared

Begin ==
    /\ phase = "apply"
    /\ Start # ConvertError
    /\ value' = Start
    /\ cleared' = FALSE
    /\ phase' = "parse"
    /\ UNCHANGED <<flag, env, files, args>>

BeginFails ==
    /\ phase = "apply"
    /\ Start = ConvertError
    /\ phase' = "failed"
    /\ UNCHANGED <<flag, env, files, args, value, cleared>>

Take ==
    LET x == ArgOf(Head(args))
    IN  /\ phase = "parse"
        /\ args # <<>>
        /\ x # ConvertError
        /\ value' = IF ~IsSliceKind(flag.kind) THEN x
                    ELSE IF cleared THEN Append(value, x) ELSE <<x>>
        /\ cleared' = IsSliceKind(flag.kind)
        /\ args' = Tail(args)
        /\ UNCHANGED <<flag, env, files, phase>>

Reject ==
    /\ phase = "parse"
    /\ args # <<>>
    /\ ArgOf(Head(args)) = ConvertError
    /\ phase' = "failed"
    /\ args' \in {args, Tail(args)}
    /\ value' \in {value} \cup (IF IsSliceKind(flag.kind) /\ ~cleared
                               THEN {<<>>} ELSE {})
    /\ cleared' \in {cleared, IsSliceKind(flag.kind)}
    /\ UNCHANGED <<flag, env, files>>

Finish ==
    /\ phase = "parse"
    /\ args = <<>>
    /\ phase' = "done"
    /\ UNCHANGED <<flag, env, files, args, value, cleared>>

ANext == Begin \/ BeginFails \/ Take \/ Reject \/ Finish

Spec == AInit /\ [][ANext]_avars
=============================================================================
