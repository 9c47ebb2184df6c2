------------------------------ MODULE OcrCache ------------------------------
(***************************************************************************)
(* Reading the scanned pages of an edition: the worker reads a whole PDF   *)
(* within a budget of time, the reindexing reads it to the end, the API     *)
(* reads one page.  The texts are kept in one object of the bucket per PDF, *)
(* read at the start and replaced at the end; readers overlap.             *)
(***************************************************************************)
EXTENDS Naturals

CONSTANTS
  Pages,      \* 1..n
  Pdfs,       \* contents of the PDF of the edition, by sha256
  Scanned,    \* Scanned[s]: the pages of s without text and covered by images
  Readers,    \* extractions at the same time
  MaxFaults,
  None

VARIABLES
  stored, \* the PDF storage holds
  entry,  \* entry[s][p]: the PDF whose page p was read into the object of s
  step,   \* step[r]: what reader r does next
  kind,   \* kind[r]: "worker", "reindex" or "page"
  pdf,    \* pdf[r]: the PDF it reads
  asked,  \* asked[r]: the pages it is asked for
  cached, \* cached[r]: the entry it loaded
  out,    \* out[r]: what it returns, the same way as an entry
  spent,  \* spent[r]: whether it ran the OCR on some page
  alone,  \* alone[r]: ghost, its load succeeded and nobody saved since
  faults

reader == <<step, kind, pdf, asked, cached, out, spent, alone>>
vars == <<stored, entry, reader, faults>>

Kinds == {"worker", "reindex", "page"}

Nothing == [p \in Pages |-> None]

\* ocrCacheKey.
Key(s) == s

Candidates(r) == Scanned[pdf[r]] \intersect asked[r]

Init ==
  /\ stored \in Pdfs
  /\ entry = [s \in Pdfs |-> Nothing]
  /\ step = [r \in Readers |-> "idle"]
  /\ kind = [r \in Readers |-> "page"]
  /\ pdf = [r \in Readers |-> None]
  /\ asked = [r \in Readers |-> {}]
  /\ cached = [r \in Readers |-> Nothing]
  /\ out = [r \in Readers |-> Nothing]
  /\ spent = [r \in Readers |-> FALSE]
  /\ alone = [r \in Readers |-> FALSE]
  /\ faults = 0

\* The scraper stores another version of the edition.
Replace(s) ==
  /\ s # stored /\ stored' = s
  /\ UNCHANGED <<entry, reader, faults>>

\* The PDF is copied to a file and hashed.
Open(r, k, ps) ==
  /\ step[r] \in {"idle", "done"}
  /\ IF k = "page" THEN \E p \in Pages : ps = {p} ELSE ps = Pages
  /\ kind' = [kind EXCEPT ![r] = k]
  /\ pdf' = [pdf EXCEPT ![r] = stored]
  /\ asked' = [asked EXCEPT ![r] = ps]
  /\ out' = [out EXCEPT ![r] = Nothing]
  /\ spent' = [spent EXCEPT ![r] = FALSE]
  /\ step' = [step EXCEPT ![r] = IF Scanned[stored] \intersect ps = {} THEN "done" ELSE "load"]
  /\ UNCHANGED <<stored, entry, cached, alone, faults>>

\* A failure is logged, and every page is read again.
Load(r) ==
  /\ step[r] = "load"
  /\ step' = [step EXCEPT ![r] = "read"]
  /\ \/ cached' = [cached EXCEPT ![r] = entry[Key(pdf[r])]]
          /\ alone' = [alone EXCEPT ![r] = TRUE] /\ UNCHANGED faults
     \/ faults < MaxFaults /\ faults' = faults + 1
          /\ cached' = [cached EXCEPT ![r] = Nothing] /\ alone' = [alone EXCEPT ![r] = FALSE]
  /\ UNCHANGED <<stored, entry, kind, pdf, asked, out, spent>>

\* The candidates are taken in ascending order.
IsNext(r, p) ==
  /\ step[r] = "read"
  /\ p \in Candidates(r) /\ out[r][p] = None
  /\ \A q \in Candidates(r) : q < p => out[r][q] # None

TakeCached(r, p) ==
  /\ IsNext(r, p) /\ cached[r][p] # None
  /\ out' = [out EXCEPT ![r][p] = cached[r][p]]
  /\ UNCHANGED <<stored, entry, step, kind, pdf, asked, cached, spent, alone, faults>>

ReadPage(r, p) ==
  /\ IsNext(r, p) /\ cached[r][p] = None
  /\ out' = [out EXCEPT ![r][p] = pdf[r]]
  /\ spent' = [spent EXCEPT ![r] = TRUE]
  /\ UNCHANGED <<stored, entry, step, kind, pdf, asked, cached, alone, faults>>

\* Mutant: the reindexing has a budget too.
AnyBudgetIsOver(r) == spent[r]

\* 90 seconds; pages from the cache take no time.
BudgetIsOver(r) == spent[r] /\ kind[r] # "reindex"

\* The pages are over, or the budget is with a page still to read; what was read
\* is saved, except by the API.
Close(r) ==
  /\ step[r] = "read"
  /\ \/ \A p \in Candidates(r) : out[r][p] # None
     \/ BudgetIsOver(r) /\ \E p \in Candidates(r) : IsNext(r, p) /\ cached[r][p] = None
  /\ step' = [step EXCEPT ![r] = IF spent[r] /\ kind[r] # "page" THEN "save" ELSE "done"]
  /\ UNCHANGED <<stored, entry, kind, pdf, asked, cached, out, spent, alone, faults>>

\* Mutant: what was loaded is not kept.
MergedNewOnly(r) == [p \in Pages |-> IF cached[r][p] = None THEN out[r][p] ELSE None]

Merged(r) == [p \in Pages |-> IF out[r][p] # None THEN out[r][p] ELSE cached[r][p]]

Save(r) ==
  /\ step[r] = "save"
  /\ entry' = [entry EXCEPT ![Key(pdf[r])] = Merged(r)]
  /\ alone' = [q \in Readers |-> alone[q] /\ (q = r \/ pdf[q] # pdf[r])]
  /\ step' = [step EXCEPT ![r] = "done"]
  /\ UNCHANGED <<stored, kind, pdf, asked, cached, out, spent, faults>>

\* A failed save is only logged.
SaveFails(r) ==
  /\ step[r] = "save"
  /\ faults < MaxFaults /\ faults' = faults + 1
  /\ step' = [step EXCEPT ![r] = "done"]
  /\ UNCHANGED <<stored, entry, kind, pdf, asked, cached, out, spent, alone>>

\* The OCR of a page or the whole extraction fails: nothing is kept.
Fail(r) ==
  /\ step[r] \in {"load", "read"}
  /\ faults < MaxFaults /\ faults' = faults + 1
  /\ step' = [step EXCEPT ![r] = "idle"]
  /\ UNCHANGED <<stored, entry, kind, pdf, asked, cached, out, spent, alone>>

Next ==
  \/ \E s \in Pdfs : Replace(s)
  \/ \E r \in Readers :
       \/ \E k \in Kinds, ps \in SUBSET Pages : Open(r, k, ps)
       \/ Load(r) \/ Close(r) \/ Save(r) \/ SaveFails(r) \/ Fail(r)
       \/ \E p \in Pages : TakeCached(r, p) \/ ReadPage(r, p)

Spec == Init /\ [][Next]_vars

-----------------------------------------------------------------------------
Texts == [Pages -> Pdfs \union {None}]

\* The variables hold values of the kinds the code gives them.
TypeOK ==
  /\ stored \in Pdfs
  /\ entry \in [Pdfs -> Texts]
  /\ step \in [Readers -> {"idle", "load", "read", "save", "done"}]
  /\ kind \in [Readers -> Kinds]
  /\ pdf \in [Readers -> Pdfs \union {None}]
  /\ asked \in [Readers -> SUBSET Pages]
  /\ cached \in [Readers -> Texts] /\ out \in [Readers -> Texts]
  /\ spent \in [Readers -> BOOLEAN] /\ alone \in [Readers -> BOOLEAN]

\* Nobody is handed the text of another version of the edition, although it is
\* replaced while it is read and the cache outlives both.
TextIsOfItsPdf ==
  \A r \in Readers : step[r] = "done" =>
    \A p \in Pages : out[r][p] \in {None, pdf[r]}

\* A reindexing that ends well has read every scanned page, including those the
\* worker left behind.
ReindexLeavesNothing ==
  \A r \in Readers : step[r] = "done" /\ kind[r] = "reindex" =>
    \A p \in Scanned[pdf[r]] : out[r][p] # None

\* An object loses pages only to a reader that could not load it or that
\* overlapped another one of the same PDF.
LosesOnlyToRaces ==
  \A s \in Pdfs : (\E p \in Pages : entry[s][p] # None /\ entry'[s][p] = None) =>
    \E r \in Readers : step[r] = "save" /\ step'[r] = "done" /\ pdf[r] = s /\ ~alone[r]

ObjectsGrow == [][LosesOnlyToRaces]_vars
=============================================================================
