------------------------------- MODULE EnvLoad --------------------------------
(***************************************************************************)
(* LoadFile and Parse of internal/envload: a file of KEY=VALUE lines is    *)
(* read to its end, then its variables are set in the environment, in the  *)
(* random order of a Go map, those the environment has already excepted.   *)
(*                                                                         *)
(* A line is one Parse skips (blank, a comment), one it refuses, or an     *)
(* assignment; trimming and quotes are left out.                           *)
(***************************************************************************)
EXTENDS Integers, Sequences

CONSTANTS Key, Value,
          Refused,  \* values os.Setenv refuses (they hold a NUL)
          Unset,    \* the value of a variable that is not there
          MaxLines  \* bound on the lines of the file

ASSUME EnvAssumption ==
  /\ Refused \subseteq Value
  /\ Unset \notin Value
  /\ MaxLines \in Nat

Assign == [key : Key, val : Value]

VARIABLES env,     \* the environment: Key -> Value or Unset
          loading, \* "open", "parse", "set", "done", or "failed": an error
          vars,    \* the map of Parse, without the keys already dealt with
          was,     \* history: the environment before
          file     \* history: the assignments read

envVars == <<env, loading, vars, was, file>>

NoVars == [k \in Key |-> Unset]

EnvInit(envs) ==
  /\ env \in envs
  /\ loading = "open"
  /\ vars = NoVars
  /\ was = env
  /\ file = <<>>

\* A file that is not there is no error; one that cannot be opened is.
Open ==
  /\ loading = "open"
  /\ loading' \in {"parse", "done", "failed"}
  /\ UNCHANGED <<env, vars, was, file>>

\* A line that is skipped changes nothing; one that is malformed, or too long
\* for the scanner, is an error and nothing of the file is used.
ReadBadLine ==
  /\ loading = "parse"
  /\ loading' = "failed"
  /\ UNCHANGED <<env, vars, was, file>>

ReadLine ==
  /\ loading = "parse" /\ Len(file) < MaxLines
  /\ \E line \in Assign :
       /\ vars' = [vars EXCEPT ![line.key] = line.val]
       /\ file' = Append(file, line)
  /\ UNCHANGED <<env, loading, was>>

EndOfFile ==
  /\ loading = "parse"
  /\ loading' = "set"
  /\ UNCHANGED <<env, vars, was, file>>

\* LookupEnv; in the mutant the file always wins.
FreeAlways(k) == TRUE
Free(k) == env[k] = Unset

\* A turn of the loop over vars, which ends it if Setenv fails.
SetVar(k) ==
  /\ loading = "set" /\ vars[k] # Unset
  /\ IF Free(k) /\ vars[k] \in Refused
       THEN loading' = "failed" /\ UNCHANGED <<env, vars>>
       ELSE /\ env' = IF Free(k) THEN [env EXCEPT ![k] = vars[k]] ELSE env
            /\ vars' = [vars EXCEPT ![k] = Unset]
            /\ UNCHANGED loading
  /\ UNCHANGED <<was, file>>

Loaded ==
  /\ loading = "set" /\ vars = NoVars
  /\ loading' = "done"
  /\ UNCHANGED <<env, vars, was, file>>

LoadFile == Open \/ ReadBadLine \/ ReadLine \/ EndOfFile \/ Loaded
            \/ \E k \in Key : SetVar(k)

LoadOver == loading \in {"done", "failed"}

-----------------------------------------------------------------------------
(* Properties.                                                             *)

LinesOf(k) == {i \in DOMAIN file : file[i].key = k}

\* What the file says of a variable in the end ...
Final(k) ==
  IF LinesOf(k) = {} THEN Unset
  ELSE file[CHOOSE i \in LinesOf(k) : \A j \in LinesOf(k) : j <= i].val

\* ... and what the environment should say.
Merged == [k \in Key |-> IF was[k] = Unset THEN Final(k) ELSE was[k]]

\* "existing process env wins": the environment's own values stay whatever
\* order the file's are set in; a load without an error is complete, and one
\* that fails leaves no value that neither of them has.
EnvMerged ==
  /\ \A k \in Key : env[k] \in {was[k], Merged[k]}
  /\ loading = "done" => env = Merged
=============================================================================
