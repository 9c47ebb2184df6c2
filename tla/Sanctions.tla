------------------------------ MODULE Sanctions ------------------------------
(***************************************************************************)
(* The sanctions of the CGU.  Each register publishes one file a day, with  *)
(* the sanctions in force and nothing about those that left.  A daily load  *)
(* keeps the rows of the companies the base cites, with the first and the   *)
(* last day each was seen; the readers derive the state of a sanction from  *)
(* the last day its register was seen.                                      *)
(***************************************************************************)
EXTENDS Integers, FiniteSets, FiniteSetsExt, Sequences

CONSTANTS
  Registers,     \* a sequence: the order a load reads them in
  Codes,         \* sanctions, one company each
  RegisterOf(_), \* the register of a sanction
  EndsAt(_),     \* the last day of its term
  None,
  MaxDay,        \* bound on the days
  MaxFaults      \* bound on what fails

VARIABLES
  today,
  file,   \* file[r]: [day, rows], rows[c] one of "absent", "good", "bad"
  cited,  \* sanctions whose company the base cites
  table,  \* cgu_sanctions: table[c] is [first, last], None before
  step,   \* "idle", "read", "save" or "report"
  at,     \* the register at hand
  load,   \* [bases, days, rows, found, failed, error] of the load under way
  saved,  \* the last report, [found, stored, skipped, failed, error, of], None before
  stored, \* ghost: stored[r] is the last file of r whose rows were committed
  faults

vars == <<today, file, cited, table, step, at, load, saved, stored, faults>>

RegisterSet == {Registers[i] : i \in DOMAIN Registers}
CodesOf(r) == {c \in Codes : RegisterOf(c) = r}
Files(d) == UNION {[day: {d}, rows: [CodesOf(r) -> {"absent", "good", "bad"}]] : r \in RegisterSet}
With(f, s) == {c \in DOMAIN f.rows : f.rows[c] = s}
NoLoad == [bases |-> {}, days |-> {}, rows |-> [c \in {} |-> 0], found |-> 0, failed |-> 0, error |-> FALSE]

Init ==
  /\ today = 1
  /\ file = [r \in RegisterSet |-> [day |-> 1, rows |-> [c \in CodesOf(r) |-> "absent"]]]
  /\ cited \in SUBSET Codes
  /\ table = [c \in Codes |-> None]
  /\ step = "idle" /\ at = 1
  /\ load = NoLoad
  /\ saved = None
  /\ stored = [r \in RegisterSet |-> None]
  /\ faults = 0

-----------------------------------------------------------------------------
\* The day ends; each register publishes its file or stays with the last one.
NextDay ==
  /\ today < MaxDay /\ today' = today + 1
  /\ file' \in [RegisterSet -> UNION {{file[r] : r \in RegisterSet}, Files(today + 1)}]
  /\ \A r \in RegisterSet : DOMAIN file'[r].rows = CodesOf(r) /\ file'[r] \in {file[r]} \union Files(today + 1)
  /\ UNCHANGED <<cited, table, step, at, load, saved, stored, faults>>

\* An edition that cites the company is indexed.
Cite(c) ==
  /\ c \notin cited /\ cited' = cited \union {c}
  /\ UNCHANGED <<today, file, table, step, at, load, saved, stored, faults>>

\* Execute: the cited companies are read once.
Begin ==
  /\ step = "idle"
  /\ load' = [NoLoad EXCEPT !.bases = cited]
  /\ step' = "read" /\ at' = 1
  /\ UNCHANGED <<today, file, cited, table, saved, stored, faults>>

GoOn ==
  IF at < Len(Registers) THEN at' = at + 1 /\ step' = "read"
  ELSE at' = at /\ step' = IF load'.days = {} THEN "report" ELSE "save"

\* The load after the rows `wanted` of a file that are listed in it.
Taking(l, f, wanted) ==
  LET taken == (With(f, "good") \intersect wanted) \intersect l.bases IN
  [l EXCEPT !.rows = [c \in DOMAIN l.rows \union taken |-> IF c \in taken THEN f.day ELSE l.rows[c]],
            !.found = @ + Cardinality((DOMAIN f.rows \ With(f, "absent")) \intersect wanted),
            !.failed = @ + Cardinality((With(f, "bad") \intersect wanted) \intersect l.bases)]

\* loadRegister, of the file of the latest day.
ReadRegister ==
  /\ step = "read"
  /\ LET r == Registers[at] IN
     load' = [Taking(load, file[r], CodesOf(r)) EXCEPT !.days = @ \union {r}]
  /\ GoOn
  /\ UNCHANGED <<today, file, cited, table, saved, stored, faults>>

\* Mutant: the rows read before the failure stay in the load.
KeepPrefix(l, f, prefix) == [Taking(l, f, prefix) EXCEPT !.error = TRUE]

\* What is left of a register whose file stopped after `prefix`: nothing.
GiveUp(l, f, prefix) == [l EXCEPT !.error = TRUE]

\* The page, the file or the archive fails, before or after some rows.
ReadRegisterFails ==
  /\ step = "read"
  /\ faults < MaxFaults /\ faults' = faults + 1
  /\ LET f == file[Registers[at]] IN
     \E prefix \in SUBSET DOMAIN f.rows : load' = GiveUp(load, f, prefix)
  /\ GoOn
  /\ UNCHANGED <<today, file, cited, table, saved, stored>>

\* Mutant: the row is replaced whole.
Overwrite(old, day) == [first |-> day, last |-> day]

\* INSERT ... ON CONFLICT DO UPDATE.
Upsert(old, day) ==
  IF old = None THEN [first |-> day, last |-> day]
  ELSE [first |-> Min({old.first, day}), last |-> Max({old.last, day})]

\* SanctionRepo.Save: one transaction.
Save ==
  /\ step = "save"
  /\ table' = [c \in Codes |-> IF c \in DOMAIN load.rows THEN Upsert(table[c], load.rows[c]) ELSE table[c]]
  /\ stored' = [r \in RegisterSet |-> IF r \in load.days THEN file[r] ELSE stored[r]]
  /\ step' = "report"
  /\ UNCHANGED <<today, file, cited, at, load, saved, faults>>

SaveFails ==
  /\ step = "save"
  /\ faults < MaxFaults /\ faults' = faults + 1
  /\ load' = [load EXCEPT !.error = TRUE]
  /\ step' = "report"
  /\ UNCHANGED <<today, file, cited, table, at, saved, stored>>

\* runs.Save.
Report ==
  /\ step = "report"
  /\ LET n == Cardinality(DOMAIN load.rows) IN
     saved' = [found |-> load.found, stored |-> n, failed |-> load.failed,
               skipped |-> load.found - n - load.failed, error |-> load.error,
               of |-> [r \in load.days |-> file[r]], bases |-> load.bases]
  /\ step' = "idle"
  /\ UNCHANGED <<today, file, cited, table, at, load, stored, faults>>

\* The day's file is read by the load of that day: a load takes minutes.
Next ==
  \/ step = "idle" /\ NextDay
  \/ \E c \in Codes : Cite(c)
  \/ Begin \/ ReadRegister \/ ReadRegisterFails \/ Save \/ SaveFails \/ Report

Spec == Init /\ [][Next]_vars

-----------------------------------------------------------------------------

\* SanctionsListedOn: the last day a sanction of the register was seen.
ListedOn(r) == Max({table[c].last : c \in {d \in CodesOf(r) : table[d] # None}})

\* Sanction.State, of a sanction that is in the table.
State(c) ==
  IF table[c].last < ListedOn(RegisterOf(c)) THEN "fora_do_cadastro"
  ELSE IF EndsAt(c) < today THEN "prazo_encerrado" ELSE "no_cadastro"

\* The variables hold values of the kinds the code gives them.
TypeOK ==
  /\ today \in 1..MaxDay /\ cited \subseteq Codes
  /\ \A c \in Codes : table[c] = None \/ (table[c].first \in 1..today /\ table[c].last \in table[c].first..today)
  /\ step \in {"idle", "read", "save", "report"}
  /\ DOMAIN load.rows \subseteq load.bases

\* A sanction that is shown as out of its register is out of the last file the
\* base took of it, or its row there could not be read: a file cut short, a
\* register that failed or one that is late never makes one look removed.
DelistedIsGone ==
  \A c \in Codes : table[c] # None /\ State(c) = "fora_do_cadastro" =>
    stored[RegisterOf(c)].rows[c] # "good"

\* A sanction that is shown as in its register is in the last file the base
\* took of it ("No cadastro hoje" is last_seen equal to the day of that file).
ListedIsInTheFile ==
  \A c \in Codes : table[c] # None /\ State(c) = "no_cadastro" =>
    stored[RegisterOf(c)].rows[c] = "good"

\* The history only grows: a sanction that was seen stays, the first day it was
\* seen never moves forward and the last one never moves back.
HistoryGrows ==
  \A c \in Codes : table[c] # None =>
    table'[c] # None /\ table'[c].first <= table[c].first /\ table'[c].last >= table[c].last
HistoryKept == [][HistoryGrows]_vars

\* A report adds up over the registers that were read to the end: what it
\* counts as skipped are the rows of companies the base does not cite.
UncitedOf(f, bases) == (DOMAIN f.rows \ With(f, "absent")) \ bases
SkippedIsUncited ==
  saved # None =>
    saved.skipped = Cardinality(UNION {UncitedOf(saved.of[r], saved.bases) : r \in DOMAIN saved.of})
=============================================================================
