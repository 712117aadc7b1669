------------------------------- MODULE Convert -------------------------------
(***************************************************************************)
(* The generic value converter (package generic, outside src/, modelled   *)
(* from spec section 4.1) and the custom Parser type of the tests         *)
(* (src/cli/flag_test.go), whose Set is what the converter calls for a    *)
(* GenericFlag.                                                            *)
(*                                                                         *)
(* Data abstraction.  A string handed to the converter is represented by   *)
(* its comma-separated fields: "10,20" is <<"10", "20">>, "10" is          *)
(* <<"10">> and "" is <<"">>.  Each field is an atom string.  Integers are *)
(* parsed digit by digit into 64-bit values; the parse of a float, a      *)
(* duration or a time is given by a table over the atoms the models use,  *)
(* every other atom being unparseable, which is what strconv does with    *)
(* the atoms "x" or "foobar".                                              *)
(*                                                                         *)
(* A value of a flag is a Go value of its kind: an integer, a boolean, a   *)
(* string, a sequence (a Go slice) or, for the Parser type ([2]string), a  *)
(* pair of strings.                                                        *)
(***************************************************************************)
EXTENDS Integers, Sequences, TLC
LOCAL INSTANCE SequencesExt

CONSTANT ConvertError   \* the error returned by a failed conversion

\* The flag kinds the models instantiate.
IntKinds    == {"int", "int64"}
UintKinds   == {"uint", "uint64"}
NumberKinds == IntKinds \cup UintKinds \cup {"float64", "duration"}
ScalarKinds == NumberKinds \cup {"bool", "namedBool", "string", "parser", "time"}
SliceKinds  == {"intSlice", "int64Slice", "float64Slice", "stringSlice", "timeSlice"}
Kinds       == ScalarKinds \cup SliceKinds

IsSliceKind(k) == k \in SliceKinds

\* A kind is named by its Go type; "namedBool" is a user type declared as
\* "type Switch bool".  Its reflect Kind, which the converter dispatches
\* on (spec 3, runtime type inspection), is bool.
UnderlyingKind(k) == IF k = "namedBool" THEN "bool" ELSE k

\* The element kind of a slice kind.
ElemKind(k) == CASE k = "intSlice"     -> "int"
                 [] k = "int64Slice"   -> "int64"
                 [] k = "float64Slice" -> "float64"
                 [] k = "stringSlice"  -> "string"
                 [] k = "timeSlice"    -> "time"

\* A Go integer of 64 bits, held as three base-10^6 limbs <<h, m, l>> of one
\* sign, standing for h * 10^12 + m * 10^6 + l: TLC's integers have 32 bits
\* and the tests use values such as 17179869184 (2^34).  Ordering the limb
\* triples lexicographically orders the integers of one sign.
Limb == 1000000
Wide(n) == IF n >= 0 THEN <<0, n \div Limb, n % Limb>>
           ELSE <<0, -((-n) \div Limb), -((-n) % Limb)>>
Negate(w) == <<-w[1], -w[2], -w[3]>>
LimbsLeq(v, w) ==
    \/ v[1] < w[1]
    \/ v[1] = w[1] /\ v[2] < w[2]
    \/ v[1] = w[1] /\ v[2] = w[2] /\ v[3] <= w[3]

\* A time.Time is held as the instant it names, <<day, second>> counted
\* from 0000-01-01 00:00 UTC: Go's zero time (year 1) and a layout without
\* a year (year 0) lie far outside TLC's integers in Unix seconds.
UnixEpochDay == 719528

\* One step of dividing by 86400, three decimal digits c at a time:
\* <<quotient, remainder>> so far.
DivStep(acc, c) ==
    LET cur == acc[2] * 1000 + c IN <<acc[1] * 1000 + cur \div 86400, cur % 86400>>

\* time.Unix(n, 0) for n seconds held as limbs.  The day count must be a
\* TLC integer; no intermediate value is larger.
UnixInstant(w) ==
    LET neg == \E i \in 1..3 : w[i] < 0
        v   == IF neg THEN Negate(w) ELSE w
        qr  == FoldLeft(DivStep, <<0, 0>>,
                        <<v[1] \div 1000, v[1] % 1000, v[2] \div 1000,
                          v[2] % 1000, v[3] \div 1000, v[3] % 1000>>)
    IN  CASE ~neg        -> <<UnixEpochDay + qr[1], qr[2]>>
          [] qr[2] = 0   -> <<UnixEpochDay - qr[1], 0>>
          [] OTHER       -> <<UnixEpochDay - qr[1] - 1, 86400 - qr[2]>>
ZeroTime == <<366, 0>>

\* generic.Zero: the zero value of a kind (a nil Value of a flag is its zero).
Zero(k) == CASE UnderlyingKind(k) = "bool" -> FALSE
             [] k \in IntKinds \cup UintKinds -> Wide(0)
             [] k \in NumberKinds        -> 0
             [] k = "string"             -> ""
             [] k = "parser"             -> <<"", "">>
             [] k = "time"               -> ZeroTime
             [] IsSliceKind(k)           -> <<>>

\* The digits of every base strconv accepts, with their values.
DigitValue ==
    ("0" :> 0) @@ ("1" :> 1) @@ ("2" :> 2) @@ ("3" :> 3) @@ ("4" :> 4) @@ ("5" :> 5)
 @@ ("6" :> 6) @@ ("7" :> 7) @@ ("8" :> 8) @@ ("9" :> 9)
 @@ ("a" :> 10) @@ ("b" :> 11) @@ ("c" :> 12) @@ ("d" :> 13) @@ ("e" :> 14) @@ ("f" :> 15)
 @@ ("A" :> 10) @@ ("B" :> 11) @@ ("C" :> 12) @@ ("D" :> 13) @@ ("E" :> 14) @@ ("F" :> 15)

\* The highest power of base b that a digit of a 64-bit magnitude has.
MaxExp == (2 :> 63) @@ (8 :> 21) @@ (10 :> 19) @@ (16 :> 15)

\* w times x, for x small enough (at most 2^11) that no limb overflows.
TimesSmall(w, x) ==
    LET l == w[3] * x
        m == w[2] * x + l \div Limb
    IN  <<w[1] * x + m \div Limb, m % Limb, l % Limb>>

\* w times x^t.  The limbs of b^k are built as b^(k % Stride[b]) times
\* (b^Stride[b])^(k \div Stride[b]), b^Stride[b] being at most 2^11.
RECURSIVE ScaleBy(_, _, _)
ScaleBy(w, x, t) == IF t = 0 THEN w ELSE ScaleBy(TimesSmall(w, x), x, t - 1)
Stride == (2 :> 11) @@ (8 :> 3) @@ (10 :> 3) @@ (16 :> 2)
PowerLimbs(b, k) ==
    ScaleBy(<<0, 0, b ^ (k % Stride[b])>>, b ^ Stride[b], k \div Stride[b])

\* The limbs of every power of every base a 64-bit digit string can need,
\* computed once.
PowerTable == [b \in DOMAIN MaxExp |-> [k \in 0..MaxExp[b] |-> PowerLimbs(b, k)]]

\* f[1] + ... + f[i].
RECURSIVE SumTo(_, _)
SumTo(f, i) == IF i = 0 THEN 0 ELSE f[i] + SumTo(f, i - 1)

\* The value of each character of s as a digit of base b; a character that
\* is no digit of b is given the value b.
DigitsOf(s, b) ==
    [i \in 1..Len(s) |-> IF SubSeq(s, i, i) \in DOMAIN DigitValue
                         THEN DigitValue[SubSeq(s, i, i)] ELSE b]

\* Limb j of the sum of the digits ds times their powers of b.
Column(ds, b, j) ==
    SumTo([i \in DOMAIN ds |-> IF ds[i] = 0 THEN 0
                               ELSE ds[i] * PowerTable[b][Len(ds) - i][j]], Len(ds))

\* Three column sums as one value, the carries between limbs propagated.
Carry(c1, c2, c3) ==
    LET m == c2 + c3 \div Limb IN <<c1 + m \div Limb, m % Limb, c3 % Limb>>

\* The magnitude of the digit values ds in base b: a character that is no
\* digit of b is a syntax error; a nonzero digit worth more than
\* b^MaxExp[b] puts the value above every 64-bit magnitude, a range error.
DigitsMagnitude(ds, b) ==
    IF \E i \in DOMAIN ds : ds[i] >= b THEN ConvertError
    ELSE IF \E i \in DOMAIN ds : ds[i] # 0 /\ Len(ds) - i > MaxExp[b] THEN ConvertError
    ELSE Carry(Column(ds, b, 1), Column(ds, b, 2), Column(ds, b, 3))

\* The magnitude of the digit string s in base b.
Magnitude(s, b) ==
    CHOOSE m \in {DigitsMagnitude(ds, c) : ds \in {DigitsOf(s, b)}, c \in {b}} : TRUE

\* The largest magnitude a bitSize-64 parse accepts: 2^63 for a negative
\* ParseInt, 2^63 - 1 for a positive one, 2^64 - 1 for ParseUint.
MaxMagnitude(signed, neg) ==
    IF ~signed THEN <<18446744, 73709, 551615>>
    ELSE IF neg THEN <<9223372, 36854, 775808>> ELSE <<9223372, 36854, 775807>>

\* The 64-bit integers of a signed or unsigned Go kind as limb triples.
WideValues(signed) ==
    {w \in Int \X Int \X Int :
        /\ \A i \in 2..3 : w[i] > -Limb /\ w[i] < Limb
        /\ \/ \A i \in 1..3 : w[i] >= 0
           \/ signed /\ \A i \in 1..3 : w[i] <= 0
        /\ LET neg == \E i \in 1..3 : w[i] < 0
           IN  LimbsLeq(IF neg THEN Negate(w) ELSE w, MaxMagnitude(signed, neg))}

\* The base a literal's prefix selects: 0x, 0o, 0b, or a leading 0 for
\* octal, else decimal.
BaseOf(body) ==
    LET pre == IF Len(body) >= 2 THEN SubSeq(body, 1, 2) ELSE ""
    IN  CASE pre \in {"0x", "0X"} -> 16
          [] pre \in {"0o", "0O"} -> 8
          [] pre \in {"0b", "0B"} -> 2
          [] Len(body) >= 2 /\ SubSeq(body, 1, 1) = "0" -> 8
          [] OTHER -> 10

\* The digits of an unsigned literal after the prefix of its base.
DigitsAfterPrefix(body, base) ==
    CASE base = 10 -> body
      [] base = 8 /\ SubSeq(body, 2, 2) \notin {"o", "O"} -> SubSeq(body, 2, Len(body))
      [] OTHER -> SubSeq(body, 3, Len(body))

\* The magnitude of an unsigned literal: its digits after the prefix in the
\* base the prefix selects; no digits is a syntax error.
BodyMagnitude(body, base) ==
    CHOOSE r \in {IF d = "" THEN ConvertError ELSE Magnitude(d, base)
                  : d \in {DigitsAfterPrefix(body, base)}} : TRUE

\* The sign of a literal: "+", "-" or none.
SignOf(a) == IF Len(a) > 0 /\ SubSeq(a, 1, 1) \in {"+", "-"} THEN SubSeq(a, 1, 1) ELSE ""

\* The parse's result for magnitude mag under sign sgn: a sign given to
\* ParseUint, a syntax error or a magnitude out of the 64-bit range is an
\* error, else the magnitude negated under "-".
SignedResult(mag, signed, sgn) ==
    IF (sgn # "" /\ ~signed) \/ mag = ConvertError
       \/ ~LimbsLeq(mag, MaxMagnitude(signed, sgn = "-")) THEN ConvertError
    ELSE IF sgn = "-" THEN Negate(mag) ELSE mag

\* strconv.ParseInt(s, 0, 64) (signed) or strconv.ParseUint(s, 0, 64): a
\* sign (ParseInt only), then a base prefix, then the digits.  Each
\* intermediate value is bound with "\in {...}" so that TLC computes it
\* once rather than at every use of an operator argument.
ParseInteger(a, signed) ==
    CHOOSE r \in {SignedResult(mag, signed, sgn)
                  : sgn \in {SignOf(a)},
                    mag \in {BodyMagnitude(body, base)
                             : body \in {SubSeq(a, Len(SignOf(a)) + 1, Len(a))},
                               base \in {BaseOf(SubSeq(a, Len(SignOf(a)) + 1, Len(a)))}}} : TRUE

\* strconv.ParseFloat(s, 64), a float held in units of FloatScale.
FloatScale == 100000
FloatLiterals ==
    ("0" :> 0) @@ ("1" :> 100000) @@ ("1.2" :> 120000) @@ ("1.3" :> 130000)
 @@ ("11" :> 1100000) @@ ("10.2" :> 1020000) @@ ("15.5" :> 1550000)
 @@ ("43.33333" :> 4333333) @@ ("0.1" :> 10000) @@ ("0.1234" :> 12340) @@ ("-10.5" :> -1050000)

\* time.ParseDuration, a duration held in seconds.
DurationLiterals ==
    ("8m46s" :> 526) @@ ("30s" :> 30) @@ ("5m" :> 300) @@ ("30h" :> 108000)
 @@ ("0s" :> 0) @@ ("1s" :> 1) @@ ("20s" :> 20) @@ ("5m0s" :> 300)
 @@ ("30h0m0s" :> 108000) @@ ("2h3m6s" :> 7386)

\* strconv.ParseBool, and the empty string accepted as false (spec 4.1).
TrueLiterals  == {"1", "t", "T", "TRUE", "true", "True"}
FalseLiterals == {"0", "f", "F", "FALSE", "false", "False", ""}

\* The Unix-seconds layout: a decimal integer with an optional sign.
UnixSeconds(a) ==
    LET d == SubSeq(a, Len(SignOf(a)) + 1, Len(a))
    IN  SignedResult(IF d = "" THEN ConvertError ELSE Magnitude(d, 10), TRUE, SignOf(a))

\* The layouts of generic.TimeLayouts the models use (spec 4.1: Unix
\* seconds, RFC3339, clock formats).  Unix seconds accepts every decimal
\* integer; the others are given by the inputs they accept and the instant
\* they parse them as.  "Friday", a layout without any layout element,
\* accepts only its own text and parses it as year 0.
BuiltinLayouts == <<"unix", "RFC3339", "Kitchen">>
LayoutTexts ==
    ("RFC3339" :> ("2020-05-25T20:20:20-05:00" :> <<737936, 4820>>))
 @@ ("Kitchen" :> ("3:00AM" :> <<0, 10800>>))
 @@ ("Friday"  :> ("Friday" :> <<0, 0>>))
Layouts == {"unix"} \cup DOMAIN LayoutTexts

\* time.Parse(l, a): the instant, or an error.
LayoutParse(l, a) ==
    CASE l = "unix" -> IF UnixSeconds(a) = ConvertError THEN ConvertError
                       ELSE UnixInstant(UnixSeconds(a))
      [] a \in DOMAIN LayoutTexts[l] -> LayoutTexts[l][a]
      [] OTHER -> ConvertError

\* The converter's time parse: the layouts tried in registration order,
\* the first that accepts the input wins, none is an error (spec 4.1).
RECURSIVE FirstLayoutParse(_, _)
FirstLayoutParse(layouts, a) ==
    IF layouts = <<>> THEN ConvertError
    ELSE IF LayoutParse(Head(layouts), a) # ConvertError THEN LayoutParse(Head(layouts), a)
    ELSE FirstLayoutParse(Tail(layouts), a)

\* FromStringMap["time.Time"] after wraps runs of TestFlagsFromEnv's setup:
\* each run wraps the converter it found, trying it first and falling back
\* to strconv.ParseInt(s, 0, 64) as Unix seconds.
RECURSIVE TimeConverter(_, _, _)
TimeConverter(layouts, wraps, a) ==
    IF wraps = 0 THEN FirstLayoutParse(layouts, a)
    ELSE LET t == TimeConverter(layouts, wraps - 1, a)
         IN  IF t # ConvertError THEN t
             ELSE LET n == ParseInteger(a, TRUE)
                  IN  IF n = ConvertError THEN ConvertError
                      ELSE UnixInstant(n)

\* The registry state in which the repository parses a time: after one run
\* of TestFlagsFromEnv's setup (flag_test.go:66-76).
TimeLayoutsInUse == Append(BuiltinLayouts, "Friday")
TimeWrapsInUse   == 1

\* Parse one atom into a scalar of kind k.
ParseAtom(k, a) ==
    CASE k = "string" -> a
      [] k = "bool"   -> IF a \in TrueLiterals THEN TRUE
                         ELSE IF a \in FalseLiterals THEN FALSE
                         ELSE ConvertError
      [] k \in IntKinds  -> ParseInteger(a, TRUE)
      [] k \in UintKinds -> ParseInteger(a, FALSE)
      [] k = "float64"   -> IF a \in DOMAIN FloatLiterals THEN FloatLiterals[a]
                            ELSE ConvertError
      [] k = "duration"  -> IF a \in DOMAIN DurationLiterals
                            THEN DurationLiterals[a] ELSE ConvertError
      [] k = "time"      -> TimeConverter(TimeLayoutsInUse, TimeWrapsInUse, a)

\* The string the fields stand for, commas put back.
RECURSIVE JoinFields(_)
JoinFields(fs) == IF Len(fs) = 1 THEN Head(fs)
                  ELSE Head(fs) \o "," \o JoinFields(Tail(fs))

\* Parse a whole string into a scalar of kind k: a comma is part of a
\* string value and makes any numeric or boolean literal invalid.
ParseScalar(k, fs) ==
    IF k = "string" THEN JoinFields(fs)
    ELSE IF Len(fs) = 1 THEN ParseAtom(UnderlyingKind(k), Head(fs)) ELSE ConvertError

\* Mutant of ParserSet: the two parts stored in each other's place.
ParserSetSwapped(fs) == IF Len(fs) # 2 THEN ConvertError ELSE <<fs[2], fs[1]>>

\* (*Parser).Set: split on ",", exactly two parts or "invalid format";
\* both halves are written only after the check.
ParserSet(fs) == IF Len(fs) # 2 THEN ConvertError ELSE <<fs[1], fs[2]>>

\* generic.Convert(current, input) for a string input (spec 4.1): a slice
\* gets one element appended, parsed by its element kind; a scalar is
\* replaced; the Parser type is set through its own Set method.
Convert(k, cur, fs) ==
    CASE IsSliceKind(k) ->
            LET e == ParseScalar(ElemKind(k), fs)
            IN  IF e = ConvertError THEN ConvertError ELSE Append(cur, e)
      [] k = "parser" -> ParserSet(fs)
      [] OTHER        -> ParseScalar(k, fs)

\* generic.FromString for a value read from the environment or a file: a
\* slice is the comma-separated list of its elements, failing if any one
\* element fails; a scalar is parsed as by Convert.
FromString(k, fs) ==
    IF IsSliceKind(k)
    THEN LET es == [i \in 1..Len(fs) |-> ParseAtom(ElemKind(k), fs[i])]
         IN  IF \E i \in 1..Len(es) : es[i] = ConvertError THEN ConvertError
             ELSE es
    ELSE Convert(k, Zero(k), fs)
-----------------------------------------------------------------------------
(* generic.Stringify (spec 4.2): the text of a value, in the comma-field    *)
(* representation.  A string value is one field whatever it holds, since   *)
(* a string parse joins its fields again.                                   *)

\* strconv.Itoa / %v of an integer: its decimal digits, a sign if negative.
RECURSIVE Decimal(_)
Decimal(n) ==
    LET digit(d) == <<"0", "1", "2", "3", "4", "5", "6", "7", "8", "9">>[d + 1]
    IN  IF n < 0 THEN "-" \o Decimal(-n)
        ELSE IF n < 10 THEN digit(n)
        ELSE Decimal(n \div 10) \o digit(n % 10)

\* The number of decimal digits of n >= 0.
RECURSIVE NumDigits(_)
NumDigits(n) == IF n < 10 THEN 1 ELSE 1 + NumDigits(n \div 10)

\* n >= 0 written with exactly six digits, leading zeros added.
Pad6(n) == LET RECURSIVE zeros(_)
               zeros(k) == IF k = 0 THEN "" ELSE "0" \o zeros(k - 1)
           IN  zeros(6 - NumDigits(n)) \o Decimal(n)

\* strconv.FormatInt / FormatUint (%v) of a wide integer: the leading
\* nonzero limb in full, the limbs after it with six digits each.
FormatWide(w) ==
    LET neg == w[1] < 0 \/ w[2] < 0 \/ w[3] < 0
        a   == IF neg THEN Negate(w) ELSE w
        mag == CASE a[1] # 0 -> Decimal(a[1]) \o Pad6(a[2]) \o Pad6(a[3])
                 [] a[2] # 0 -> Decimal(a[2]) \o Pad6(a[3])
                 [] OTHER    -> Decimal(a[3])
    IN  (IF neg THEN "-" ELSE "") \o mag

\* The fractional part f of a float (0 < f < FloatScale) written with the
\* digits FloatScale allows, trailing zeros dropped.
RECURSIVE Fraction(_, _)
Fraction(f, width) ==
    IF f % 10 = 0 THEN Fraction(f \div 10, width - 1)
    ELSE LET RECURSIVE zeros(_)
             zeros(k) == IF k = 0 THEN "" ELSE "0" \o zeros(k - 1)
         IN  zeros(width - NumDigits(f)) \o Decimal(f)

\* strconv.FormatFloat(v, 'g', -1, 64) for the magnitudes the models use
\* (no exponent form below 1e21): the shortest decimal that parses back.
FormatFloat(v) ==
    LET a == IF v < 0 THEN -v ELSE v
        frac == a % FloatScale
    IN  (IF v < 0 THEN "-" ELSE "") \o Decimal(a \div FloatScale)
        \o (IF frac = 0 THEN "" ELSE "." \o Fraction(frac, NumDigits(FloatScale) - 1))

\* time.Duration.String for whole seconds: "0s", "30s", "5m0s", "30h0m0s".
FormatDuration(d) ==
    LET a == IF d < 0 THEN -d ELSE d
        h == a \div 3600
        m == (a % 3600) \div 60
        sec == a % 60
    IN  (IF d < 0 THEN "-" ELSE "")
        \o (IF h > 0 THEN Decimal(h) \o "h" ELSE "")
        \o (IF h > 0 \/ m > 0 THEN Decimal(m) \o "m" ELSE "")
        \o Decimal(sec) \o "s"

\* The text of one scalar of kind k.
FormatAtom(k, v) ==
    CASE k = "string"                -> v
      [] UnderlyingKind(k) = "bool" -> IF v THEN "true" ELSE "false"
      [] k = "float64"               -> FormatFloat(v)
      [] k = "duration"              -> FormatDuration(v)
      [] OTHER                       -> FormatWide(v)

\* Mutant of ParserString: the two Sprintf arguments swapped.
ParserStringSwapped(p) == <<p[2], p[1]>>

\* (*Parser).String: fmt.Sprintf("%s,%s", p[0], p[1]).
ParserString(p) == <<p[1], p[2]>>

\* generic.Stringify(v): a slice comma-joined element by element, the Parser
\* type through its String method, any other scalar formatted.
Stringify(k, v) ==
    CASE IsSliceKind(k) -> [i \in 1..Len(v) |-> FormatAtom(ElemKind(k), v[i])]
      [] k = "parser"   -> ParserString(v)
      [] OTHER          -> <<FormatAtom(k, v)>>
=============================================================================
