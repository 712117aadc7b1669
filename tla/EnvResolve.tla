------------------------------ MODULE EnvResolve ------------------------------
(***************************************************************************)
(* Environment/file resolution, flagFromEnvOrFile (outside src/, modelled *)
(* from spec section 4.4; its behaviour is pinned by TestFlagFromFile,     *)
(* src/cli/flag_test.go:1927).                                             *)
(*                                                                         *)
(* The process environment is a function from the variable names that are *)
(* set to their values; the file system a function from the paths that    *)
(* exist and are readable to their (trimmed) contents.  A value is a       *)
(* string in the comma-field representation of module Convert, so the     *)
(* empty string is <<"">>.                                                 *)
(***************************************************************************)
EXTENDS Sequences, FiniteSets
LOCAL INSTANCE FiniteSetsExt

CONSTANTS
    Unset,      \* what os.Getenv yields for a variable that is not set
    Missing,    \* the read of a path that does not exist or is unreadable
    NotFound    \* the "found == false" result of the resolution

EnvLookup(env, name) == IF name \in DOMAIN env THEN env[name] ELSE Unset
FileLookup(files, path) == IF path \in DOMAIN files THEN files[path] ELSE Missing

\* A source counts only when it yields a nonempty string.
Nonempty(v) == v \notin {Unset, Missing} /\ v # <<"">>

\* The ordered scan: the first nonempty value of a list, or NotFound.
RECURSIVE FirstNonempty(_)
FirstNonempty(vs) ==
    IF vs = <<>> THEN NotFound
    ELSE IF Nonempty(Head(vs)) THEN Head(vs)
    ELSE FirstNonempty(Tail(vs))

EnvValues(env, envVars) == [i \in 1..Len(envVars) |-> EnvLookup(env, envVars[i])]
FileValues(files, paths) == [i \in 1..Len(paths) |-> FileLookup(files, paths[i])]

\* Mutant of FlagFromEnvOrFile: the files scanned before the variables.
FlagFromEnvOrFileFilesFirst(env, files, envVars, paths) ==
    LET fromFile == FirstNonempty(FileValues(files, paths))
    IN  IF fromFile # NotFound THEN fromFile
        ELSE FirstNonempty(EnvValues(env, envVars))

\* flagFromEnvOrFile(envVars, filePaths): every variable in order, then
\* every file in order; the first nonempty value wins.
FlagFromEnvOrFile(env, files, envVars, paths) ==
    LET fromEnv == FirstNonempty(EnvValues(env, envVars))
    IN  IF fromEnv # NotFound THEN fromEnv
        ELSE FirstNonempty(FileValues(files, paths))

\* The precedence the spec states, written without a scan: of all the
\* sources, variables before files and each list in its order, the value
\* of the one at the least position that holds a nonempty value.
ResolveByPrecedence(env, files, envVars, paths) ==
    LET srcs == EnvValues(env, envVars) \o FileValues(files, paths)
        hits == {i \in 1..Len(srcs) : Nonempty(srcs[i])}
    IN  IF hits = {} THEN NotFound ELSE srcs[Min(hits)]
=============================================================================
