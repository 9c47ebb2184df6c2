----------------------------- MODULE Migrations -----------------------------
(***************************************************************************)
(* The migrations of the schema: programs started at the same time, of an  *)
(* older and a newer version, apply the files they carry in order, one      *)
(* transaction each, behind an advisory lock of their session.             *)
(***************************************************************************)
EXTENDS Naturals

CONSTANTS
  Programs,
  Files,    \* Files[p]: program p carries the files 1..Files[p]
  MaxFaults,
  None

VARIABLES
  holder,   \* the program whose session holds the lock
  step,     \* step[p]: what program p does next
  file,     \* file[p]: the file it is at
  recorded, \* schema_migrations
  effects,  \* effects[f]: how many times the statements of f took effect
  faults

vars == <<holder, step, file, recorded, effects, faults>>

All == 1..(CHOOSE n \in {Files[p] : p \in Programs} : \A p \in Programs : Files[p] <= n)

Init ==
  /\ holder = None
  /\ step = [p \in Programs |-> "lock"]
  /\ file = [p \in Programs |-> 1]
  /\ recorded = {}
  /\ effects = [f \in All |-> 0]
  /\ faults = 0

\* Mutant: pg_try_advisory_lock, its answer not looked at.
TryLock(p) ==
  /\ step[p] = "lock"
  /\ holder' = IF holder = None THEN p ELSE holder
  /\ step' = [step EXCEPT ![p] = "check"]
  /\ UNCHANGED <<file, recorded, effects, faults>>

\* pg_advisory_lock.
Lock(p) ==
  /\ step[p] = "lock" /\ holder = None
  /\ holder' = p
  /\ step' = [step EXCEPT ![p] = "check"]
  /\ UNCHANGED <<file, recorded, effects, faults>>

Check(p) ==
  /\ step[p] = "check"
  /\ IF file[p] > Files[p] THEN step' = [step EXCEPT ![p] = "unlock"] /\ UNCHANGED file
     ELSE IF file[p] \in recorded THEN file' = [file EXCEPT ![p] = @ + 1] /\ UNCHANGED step
     ELSE step' = [step EXCEPT ![p] = "apply"] /\ UNCHANGED file
  /\ UNCHANGED <<holder, recorded, effects, faults>>

\* The statements of the file and its row, together; a row that is there already
\* aborts both.
Apply(p) ==
  /\ step[p] = "apply"
  /\ IF file[p] \in recorded
     THEN /\ step' = [step EXCEPT ![p] = "failed"]
          /\ holder' = IF holder = p THEN None ELSE holder
          /\ UNCHANGED <<file, recorded, effects>>
     ELSE /\ recorded' = recorded \union {file[p]}
          /\ effects' = [effects EXCEPT ![file[p]] = @ + 1]
          /\ file' = [file EXCEPT ![p] = @ + 1]
          /\ step' = [step EXCEPT ![p] = "check"]
          /\ UNCHANGED holder
  /\ UNCHANGED faults

Unlock(p) ==
  /\ step[p] = "unlock"
  /\ holder' = IF holder = p THEN None ELSE holder
  /\ step' = [step EXCEPT ![p] = "done"]
  /\ UNCHANGED <<file, recorded, effects, faults>>

\* A statement fails, its transaction committed or not, or the program dies: the
\* session ends and the lock with it.
Fail(p) ==
  /\ step[p] \in {"lock", "check", "apply", "unlock"}
  /\ faults < MaxFaults /\ faults' = faults + 1
  /\ \/ UNCHANGED <<recorded, effects>>
     \/ step[p] = "apply" /\ file[p] \notin recorded
          /\ recorded' = recorded \union {file[p]}
          /\ effects' = [effects EXCEPT ![file[p]] = @ + 1]
  /\ step' = [step EXCEPT ![p] = "failed"]
  /\ holder' = IF holder = p THEN None ELSE holder
  /\ UNCHANGED file

\* The deploy is run again.
Retry(p) ==
  /\ step[p] = "failed"
  /\ step' = [step EXCEPT ![p] = "lock"]
  /\ file' = [file EXCEPT ![p] = 1]
  /\ UNCHANGED <<holder, recorded, effects, faults>>

Work(p) == Lock(p) \/ Check(p) \/ Apply(p) \/ Unlock(p) \/ Retry(p)

Next == \E p \in Programs : Work(p) \/ Fail(p)

Spec == Init /\ [][Next]_vars /\ \A p \in Programs : WF_vars(Work(p))

-----------------------------------------------------------------------------
\* The variables hold values of the kinds the code gives them.
TypeOK ==
  /\ holder \in Programs \union {None}
  /\ step \in [Programs -> {"lock", "check", "apply", "unlock", "done", "failed"}]
  /\ file \in [Programs -> Nat \ {0}]
  /\ \A p \in Programs : file[p] <= Files[p] + 1
  /\ recorded \subseteq All
  /\ effects \in [All -> Nat]

\* Files take effect once each and in order, and schema_migrations says which,
\* whatever programs overlap or die.
OnceAndInOrder ==
  \A f \in All :
    /\ effects[f] = IF f \in recorded THEN 1 ELSE 0
    /\ f \in recorded => 1..f \subseteq recorded

\* A program fails only for a fault of its own, never for what another one did:
\* nobody finds applied a file it saw missing.
NoFileAppliedTwice ==
  \A p \in Programs : step[p] = "apply" => file[p] \notin recorded

Migrated(p) == step[p] = "done" /\ 1..Files[p] \subseteq recorded

\* Every deploy ends with the files it carries applied.
EveryoneMigrates == \A p \in Programs : <>[]Migrated(p)
=============================================================================
