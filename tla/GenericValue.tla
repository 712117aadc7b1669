----------------------------- MODULE GenericValue -----------------------------
(***************************************************************************)
(* GenericValue, src/cli/flag_value.go: the flag.Value adapter that binds  *)
(* a destination to the converter.                                         *)
(*                                                                         *)
(* ptr is the destination the adapters point at, as a Go interface{}:     *)
(* its dynamic kind and the value stored behind it.  A flag registers one *)
(* adapter per name, all pointing at the same destination (spec 4.3 step  *)
(* 3); each adapter has its own "set" field, so set is a function from    *)
(* the names registered so far to the field of that name's adapter.       *)
(*                                                                         *)
(* Go slices share memory: a slice destination bound to the declared       *)
(* default (spec 4.3 step 1c) is a header over the default's array.  arr  *)
(* is that array, of capacity the default's length, and ptr.shared says   *)
(* whether the destination's header still points into it.  An append     *)
(* with room left in the array writes into it; one without allocates a    *)
(* new array.                                                              *)
(***************************************************************************)
EXTENDS Convert

VARIABLES
    ptr,    \* [kind, val, shared]: the destination, its Go type, its aliasing
    set,    \* [name -> BOOLEAN]: GenericValue.set of each registered adapter
    arr     \* the backing array of the declared default of a slice flag

\* The GenericValue struct: the pointer and the set field of each adapter,
\* with the array a slice pointer may share.
GenericValueFields == <<ptr, set, arr>>

\* Mutant of NewGenericValue: an adapter registered for one name only.
NewGenericValueOnce(names) == set' = [n \in {CHOOSE n \in names : TRUE} |-> FALSE]

\* NewGenericValue(ptr), once for each name: a fresh adapter, set = false.
NewGenericValue(names) == set' = [n \in names |-> FALSE]

\* Get(): the value stored behind the pointer.
Get == ptr.val

\* Mutant of IsBoolFlag: the type of the pointer itself compared, which is
\* named "*bool" and never "bool".
IsBoolFlagOfPointer == "*" \o ptr.kind = "bool"

\* IsBoolFlag(): the name of the pointer's element type is "bool"; the
\* name, not the underlying kind, so a named bool type is not a switch.
IsBoolFlag == ptr.kind = "bool"

\* The first Apply through adapter n of a slice clears the destination.
ClearsFirst(n) == IsSliceKind(ptr.kind) /\ ~set[n]

\* The destination after the clearing step of Apply (lines 42-47).
Cleared(n) == IF ClearsFirst(n) THEN Zero(ptr.kind) ELSE Get

\* What Convert(v.Get(), value) returns, read after the clearing step.
Converted(n, fs) == Convert(ptr.kind, Cleared(n), fs)

\* Apply returns the conversion's error.
ApplyFails(n, fs) == Converted(n, fs) = ConvertError

\* Mutant of ClearedShared: the clear as v = v[:0], keeping the array.
ClearedSharedResliced(n) == ptr.shared

\* Whether the destination still points into arr after the clearing step:
\* generic.Zero of a slice type is the nil slice, which points nowhere.
ClearedShared(n) == ~ClearsFirst(n) /\ ptr.shared

\* Whether Convert's append writes into arr: the header points into it and
\* the array has room past the slice's length.
AppendsInPlace(n) ==
    IsSliceKind(ptr.kind) /\ ClearedShared(n) /\ Len(Cleared(n)) < Len(arr)

\* generic.Set(v.ptr, val) after a successful Convert: the destination
\* takes the result; an in-place append has written its element into arr.
Store(n, fs) ==
    /\ ptr' = [ptr EXCEPT !.val = Converted(n, fs), !.shared = AppendsInPlace(n)]
    /\ arr' = IF AppendsInPlace(n)
              THEN [arr EXCEPT ![Len(Cleared(n)) + 1] = Converted(n, fs)[Len(Converted(n, fs))]]
              ELSE arr

\* The early return on a conversion error, the clearing step kept.
KeepCleared(n) ==
    /\ ptr' = [ptr EXCEPT !.val = Cleared(n), !.shared = ClearedShared(n)]
    /\ UNCHANGED arr

\* The "set" field after the clearing step.
MarkSet(n) == set' = IF ClearsFirst(n) THEN [set EXCEPT ![n] = TRUE] ELSE set

(* Mutants of Apply: the bugs a change to lines 41-54 could introduce.    *)
\* the "!v.set" guard dropped: every call clears a slice
ApplyClearsAlways(n, fs) ==
    LET cv == Convert(ptr.kind, Zero(ptr.kind), fs)
    IN  IF ~IsSliceKind(ptr.kind)
        THEN MarkSet(n) /\ IF ApplyFails(n, fs) THEN KeepCleared(n) ELSE Store(n, fs)
        ELSE /\ set' = [set EXCEPT ![n] = TRUE]
             /\ ptr' = [ptr EXCEPT !.val = IF cv = ConvertError THEN <<>> ELSE cv,
                                   !.shared = FALSE]
             /\ UNCHANGED arr
\* the clearing step dropped: the first value is appended to the default
ApplyNeverClears(n, fs) ==
    LET cv == Convert(ptr.kind, Get, fs)
        inPlace == IsSliceKind(ptr.kind) /\ ptr.shared /\ Len(Get) < Len(arr)
    IN  /\ UNCHANGED set
        /\ IF cv = ConvertError THEN UNCHANGED <<ptr, arr>>
           ELSE /\ ptr' = [ptr EXCEPT !.val = cv, !.shared = inPlace]
                /\ arr' = IF inPlace THEN [arr EXCEPT ![Len(Get) + 1] = cv[Len(cv)]] ELSE arr
\* the error check dropped: the zero value is stored on a failed convert
ApplyStoresOnError(n, fs) ==
    /\ MarkSet(n)
    /\ IF ApplyFails(n, fs)
       THEN /\ ptr' = [ptr EXCEPT !.val = Zero(ptr.kind), !.shared = FALSE]
            /\ UNCHANGED arr
       ELSE Store(n, fs)

\* Apply(value): clear a slice on the adapter's first call and mark the
\* adapter set, then convert against the (possibly cleared) value and store
\* the result; on a conversion error return early, the clearing kept.
Apply(n, fs) ==
    /\ MarkSet(n)
    /\ IF ApplyFails(n, fs) THEN KeepCleared(n) ELSE Store(n, fs)

\* Set(value) is Apply(value).
Set(n, fs) == Apply(n, fs)

\* String(): generic.Stringify of the value behind the pointer.
String == Stringify(ptr.kind, Get)
=============================================================================
