-------------------------------- MODULE Loads --------------------------------
(***************************************************************************)
(* The loaders of external records.  A load reads the parts of its source   *)
(* (years, months, lists, files) one by one, archives what it read, and     *)
(* replaces rows of the base, part by part or all at the end; then it saves *)
(* a report.  Each loader is a policy: how it cuts its work and what it     *)
(* does with a row it cannot read, a row that comes twice, an empty part.   *)
(* The workflows run one load of a source at a time.                        *)
(***************************************************************************)
EXTENDS Naturals, FiniteSetsExt

CONSTANTS
  Sources,    \* the loaders of this instance
  Parts,      \* 1..n, in the order a load reads them
  Good,       \* rows
  Bad,        \* rows that cannot be read
  None,
  MaxChanges, \* bound on the changes of the source
  MaxFaults   \* bound on what fails once

VARIABLES
  loader,   \* the loader whose table this is
  source,   \* source[p]: [rows, twice], what the source says of part p now
  table,    \* table[p]: the rows of the base, `twice` if some row is there twice
  archived, \* archived[p]: the raw copies kept
  step,     \* "idle", "read", "replace" or "report"
  part,     \* the part at hand
  got,      \* got[p]: what this load read, None before
  report,   \* [stored, failed, error] of the load under way
  saved,    \* the report this load saved, None before
  before,   \* ghost: the table when the load began
  changes, faults

vars == <<loader, source, table, archived, step, part, got, report, saved, before, changes, faults>>

Contents == [rows: SUBSET (Good \union Bad), twice: BOOLEAN]
Nothing == [rows |-> {}, twice |-> FALSE]

-----------------------------------------------------------------------------
\* How each loader cuts its work.  unit: "part" when each part is replaced as it
\* is read.  empty: what happens to a part without rows.  onError: does the load
\* "stop" at a part that fails?
PaymentsLoad   == [unit |-> "part",  empty |-> "stored", onError |-> "stop"]
StaffLoad      == [unit |-> "part",  empty |-> "kept",   onError |-> "stop"]
MunicipalLoad  == [unit |-> "part",  empty |-> "stored", onError |-> "stop"]
TransfersLoad  == [unit |-> "part",  empty |-> "stored", onError |-> "stop"]
AgentsLoad     == [unit |-> "part",  empty |-> "stored", onError |-> "go on"]
NormsLoad      == [unit |-> "whole", empty |-> "fails",  onError |-> "stop"]
MuralLoad      == [unit |-> "whole", empty |-> "fails",  onError |-> "stop"]
OversightLoad  == [unit |-> "whole", empty |-> "stored", onError |-> "stop"]
SpecialLoad    == [unit |-> "whole", empty |-> "stored", onError |-> "stop"]
AmendmentsLoad == [unit |-> "whole", empty |-> "stored", onError |-> "stop"]
PNCPLoad       == [unit |-> "whole", empty |-> "stored", onError |-> "stop"]
RegistryLoad   == [unit |-> "whole", empty |-> "stored", onError |-> "stop"]
FiscalLoad     == [unit |-> "whole", empty |-> "kept",   onError |-> "stop"]

\* What becomes of a row that cannot be read and of one that comes twice.
\* unreadable: "fails", "dropped" (and counted), or "rejects" (the rows are all
\* counted, then the part or the load is given up).
PaymentsRows   == [unreadable |-> "dropped", repeated |-> "kept"]
StaffRows      == [unreadable |-> "fails",   repeated |-> "merged"]
MunicipalRows  == [unreadable |-> "fails",   repeated |-> "dropped"]
TransfersRows  == [unreadable |-> "rejects", repeated |-> "kept"]
AgentsRows     == [unreadable |-> "fails",   repeated |-> "merged"]
NormsRows      == [unreadable |-> "dropped", repeated |-> "dropped"]
MuralRows      == [unreadable |-> "fails",   repeated |-> "kept"]
OversightRows  == [unreadable |-> "fails",   repeated |-> "dropped"]
SpecialRows    == [unreadable |-> "fails",   repeated |-> "kept"]
AmendmentsRows == [unreadable |-> "rejects", repeated |-> "kept"]
PNCPRows       == [unreadable |-> "fails",   repeated |-> "dropped"]
RegistryRows   == [unreadable |-> "dropped", repeated |-> "kept"]
FiscalRows     == [unreadable |-> "fails",   repeated |-> "dropped"]

\* The transactions: does a key refuse a row that is there twice?  Are the rows
\* the source no longer has "removed"?
PaymentsTable   == [key |-> TRUE,  old |-> "removed"]
StaffTable      == [key |-> TRUE,  old |-> "removed"]
MunicipalTable  == [key |-> TRUE,  old |-> "removed"]
TransfersTable  == [key |-> FALSE, old |-> "removed"]
AgentsTable     == [key |-> TRUE,  old |-> "removed"]
NormsTable      == [key |-> TRUE,  old |-> "removed"]
MuralTable      == [key |-> TRUE,  old |-> "removed"]
OversightTable  == [key |-> TRUE,  old |-> "removed"]
SpecialTable    == [key |-> TRUE,  old |-> "removed"]
AmendmentsTable == [key |-> FALSE, old |-> "removed"]
PNCPTable       == [key |-> TRUE,  old |-> "removed"]
RegistryTable   == [key |-> TRUE,  old |-> "removed"]
FiscalTable     == [key |-> TRUE,  old |-> "stays"]

Policies ==
  [payments |-> [work |-> PaymentsLoad, rows |-> PaymentsRows, table |-> PaymentsTable],
   staff |-> [work |-> StaffLoad, rows |-> StaffRows, table |-> StaffTable],
   municipal |-> [work |-> MunicipalLoad, rows |-> MunicipalRows, table |-> MunicipalTable],
   transfers |-> [work |-> TransfersLoad, rows |-> TransfersRows, table |-> TransfersTable],
   agents |-> [work |-> AgentsLoad, rows |-> AgentsRows, table |-> AgentsTable],
   norms |-> [work |-> NormsLoad, rows |-> NormsRows, table |-> NormsTable],
   mural |-> [work |-> MuralLoad, rows |-> MuralRows, table |-> MuralTable],
   oversight |-> [work |-> OversightLoad, rows |-> OversightRows, table |-> OversightTable],
   special |-> [work |-> SpecialLoad, rows |-> SpecialRows, table |-> SpecialTable],
   amendments |-> [work |-> AmendmentsLoad, rows |-> AmendmentsRows, table |-> AmendmentsTable],
   pncp |-> [work |-> PNCPLoad, rows |-> PNCPRows, table |-> PNCPTable],
   registry |-> [work |-> RegistryLoad, rows |-> RegistryRows, table |-> RegistryTable],
   fiscal |-> [work |-> FiscalLoad, rows |-> FiscalRows, table |-> FiscalTable]]

Policy == Policies[loader]

Unreadable(c) == c.rows \intersect Bad

\* The source says of the part something the loader does not take.
Refuses(c) ==
  \/ Policy.rows.unreadable # "dropped" /\ Unreadable(c) # {}
  \/ Policy.work.empty = "fails" /\ c.rows \subseteq Bad

\* The rows that would be stored of contents c.
Kept(c) == [rows |-> c.rows \ Bad, twice |-> c.twice /\ Policy.rows.repeated = "kept" /\ ~Policy.table.key]

Skips(c) == Policy.work.empty = "kept" /\ c.rows = {}

\* Two rows of one key violate the primary key of the table.
Conflicts(c) == Policy.rows.repeated = "kept" /\ Policy.table.key /\ c.twice

-----------------------------------------------------------------------------
Init ==
  /\ loader \in Sources
  /\ source = [p \in Parts |-> Nothing]
  /\ table = [p \in Parts |-> Nothing]
  /\ archived = [p \in Parts |-> {}]
  /\ step = "idle" /\ part = 1
  /\ got = [p \in Parts |-> None]
  /\ report = [stored |-> 0, failed |-> 0, error |-> FALSE]
  /\ saved = None
  /\ before = table
  /\ changes = 0 /\ faults = 0

\* What the source publishes of a part changes.
Publish(p) ==
  /\ changes < MaxChanges /\ changes' = changes + 1
  /\ \E c \in Contents : c # source[p] /\ (c.twice => c.rows # {} /\ c.rows \subseteq Good) /\ source' = [source EXCEPT ![p] = c]
  /\ UNCHANGED <<loader, table, archived, step, part, got, report, saved, before, faults>>

\* Execute, after Ready.
Begin ==
  /\ step = "idle"
  /\ step' = "read" /\ part' = 1
  /\ got' = [p \in Parts |-> None]
  /\ report' = [stored |-> 0, failed |-> 0, error |-> FALSE]
  /\ saved' = None /\ before' = table
  /\ UNCHANGED <<loader, source, table, archived, changes, faults>>

\* What comes after a part ended well.
Onward(p) ==
  IF p < Max(Parts) THEN part' = p + 1 /\ step' = "read"
  ELSE part' = 1 /\ step' = IF Policy.work.unit = "whole" THEN "replace" ELSE "report"

\* Mutant: every loop ends at the first error.
AfterErrorStop(p) == part' = 1 /\ step' = "report"

\* What comes after a part failed.
AfterError(p) ==
  IF Policy.work.onError = "go on" /\ p < Max(Parts) THEN part' = p + 1 /\ step' = "read"
  ELSE part' = 1 /\ step' = "report"

\* Unreadable rows that the report counts.
Counted(c) == IF Policy.rows.unreadable = "fails" THEN 0 ELSE Cardinality(Unreadable(c))

\* archiveRaw: the copy and its manifest, before any row is touched.
Archive(p, c) == archived' = IF Skips(c) THEN archived ELSE [archived EXCEPT ![p] = @ \union {c}]

\* The part is read whole, parsed and archived.
Read ==
  /\ step = "read" /\ got[part] = None
  /\ LET c == source[part] IN
     /\ ~Refuses(c)
     /\ got' = [got EXCEPT ![part] = c]
     /\ Archive(part, c)
     /\ report' = [report EXCEPT !.failed = @ + Counted(c)]
     /\ IF Policy.work.unit = "whole" \/ Skips(c) THEN Onward(part) ELSE UNCHANGED <<step, part>>
  /\ UNCHANGED <<loader, source, table, saved, before, changes, faults>>

\* The loader does not take what it read.
ReadRefused ==
  /\ step = "read" /\ got[part] = None /\ Refuses(source[part])
  /\ report' = [report EXCEPT !.failed = @ + Counted(source[part]), !.error = TRUE]
  /\ AfterError(part)
  /\ UNCHANGED <<loader, source, table, archived, got, saved, before, changes, faults>>

\* The source or the archive is out of reach.
ReadFails ==
  /\ step = "read" /\ got[part] = None
  /\ faults < MaxFaults /\ faults' = faults + 1
  /\ report' = [report EXCEPT !.error = TRUE]
  /\ AfterError(part)
  /\ UNCHANGED <<loader, source, table, archived, got, saved, before, changes>>

\* Mutant: what was read is what was stored.
RowsRead(c) == c.rows

\* Rows the report counts as stored.
Rows(c) == Kept(c).rows

\* One transaction deletes the rows of the part and copies the new ones.
ReplacePart ==
  /\ step = "read" /\ got[part] # None
  /\ ~Conflicts(got[part])
  /\ table' = [table EXCEPT ![part] = Kept(got[part])]
  /\ report' = [report EXCEPT !.stored = @ + Cardinality(Rows(got[part]))]
  /\ Onward(part)
  /\ UNCHANGED <<loader, source, archived, got, saved, before, changes, faults>>

\* The transaction rolls back: a key is there twice, or the base fails.
ReplacePartFails ==
  /\ step = "read" /\ got[part] # None
  /\ \/ Conflicts(got[part]) /\ UNCHANGED faults
     \/ faults < MaxFaults /\ faults' = faults + 1
  /\ report' = [report EXCEPT !.error = TRUE]
  /\ AfterError(part)
  /\ UNCHANGED <<loader, source, table, archived, got, saved, before, changes>>

\* The table after one transaction over every part that was read.
Replaced == [p \in Parts |-> IF got[p] = None \/ (Skips(got[p]) /\ Policy.table.old = "stays") THEN table[p] ELSE Kept(got[p])]

\* The rows of every part that was read.
RowsOfAll == UNION {{p} \X Rows(got[p]) : p \in {q \in Parts : got[q] # None}}

ReplaceAll ==
  /\ step = "replace"
  /\ \A p \in Parts : got[p] # None => ~Conflicts(got[p])
  /\ table' = Replaced
  /\ report' = [report EXCEPT !.stored = Cardinality(RowsOfAll)]
  /\ step' = "report"
  /\ UNCHANGED <<loader, source, archived, part, got, saved, before, changes, faults>>

\* The registry counts before it stores.
ReplaceAllFails ==
  /\ step = "replace"
  /\ \/ (\E p \in Parts : got[p] # None /\ Conflicts(got[p])) /\ UNCHANGED faults
     \/ faults < MaxFaults /\ faults' = faults + 1
  /\ report' = [report EXCEPT !.error = TRUE,
                              !.stored = IF loader = "registry" THEN Cardinality(RowsOfAll) ELSE @]
  /\ step' = "report"
  /\ UNCHANGED <<loader, source, table, archived, part, got, saved, before, changes>>

\* runs.Save, or a failure to save.
Report ==
  /\ step = "report"
  /\ \/ saved' = report /\ UNCHANGED faults
     \/ faults < MaxFaults /\ faults' = faults + 1 /\ UNCHANGED saved
  /\ step' = "idle"
  /\ UNCHANGED <<loader, source, table, archived, part, got, report, before, changes>>

\* SIGTERM or the end of the job: nothing is reported.
Killed ==
  /\ step # "idle"
  /\ faults < MaxFaults /\ faults' = faults + 1
  /\ step' = "idle"
  /\ UNCHANGED <<loader, source, table, archived, part, got, report, saved, before, changes>>

Work == Begin \/ Read \/ ReadRefused \/ ReplacePart \/ ReplacePartFails \/ ReplaceAll \/ ReplaceAllFails \/ Report

Next == (\E p \in Parts : Publish(p)) \/ Work \/ ReadFails \/ Killed

Spec == Init /\ [][Next]_vars /\ WF_vars(Work)

-----------------------------------------------------------------------------
\* The variables hold values of the kinds the code gives them.
TypeOK ==
  /\ loader \in Sources
  /\ source \in [Parts -> Contents] /\ table \in [Parts -> Contents]
  /\ \A p \in Parts : archived[p] \subseteq Contents /\ got[p] \in Contents \union {None}
  /\ step \in {"idle", "read", "replace", "report"} /\ part \in Parts

\* A table is never torn: each part is as the load found it or as the source
\* said when it was read, and a loader that replaces everything at the end
\* leaves everything alone when any part failed.
AllOrNothing ==
  /\ \A p \in Parts : table[p] = before[p] \/ (got[p] # None /\ table[p] = Kept(got[p]))
  /\ Policy.work.unit = "whole" /\ report.error => table = before

\* Nothing vanishes silently: after a report without error and without failed
\* rows, every part says what was read of it, row for row, except that a
\* loader told to keep what it has when the source is empty kept it.
CleanReportMeansCopied ==
  saved # None /\ ~saved.error /\ saved.failed = 0 =>
    \A p \in Parts :
      /\ got[p] # None
      /\ ~Skips(got[p]) => table[p].rows = got[p].rows
      /\ Skips(got[p]) => table[p] = before[p]

RowsIn(t) == UNION {{p} \X t[p].rows : p \in Parts}

\* What a report counts as stored is in the table, whatever failed after it.  Of
\* the registry this is true of a report without error only: it counts before
\* it stores, so the report of a load that could not store says rows that are
\* not there.
StoredIsInTheTable ==
  step = "report" /\ (loader = "registry" => ~report.error) =>
    report.stored <= Cardinality(RowsIn(table))

\* Every row of the base came from a raw copy that was archived before it.
ArchivedFirst ==
  \A p \in Parts : table[p] # Nothing => \E c \in archived[p] : table[p] = Kept(c)

\* The part stands in the way of the ones after it.
Blocks(p) == Refuses(source[p]) \/ Conflicts(source[p])

InTheWay(p) == IF Policy.work.unit = "whole" THEN Parts ELSE IF Policy.work.onError = "stop" THEN 1..p ELSE {p}

CaughtUp(p) ==
  (\E q \in InTheWay(p) : Blocks(q)) \/ Skips(source[p]) \/ table[p] = Kept(source[p])

\* Once the source rests, the table ends up saying what it says of a part, as
\* long as no part the loader refuses is in the way.
CatchesUp == \A p \in Parts : <>[]CaughtUp(p)
=============================================================================
