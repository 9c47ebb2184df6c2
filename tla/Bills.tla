-------------------------------- MODULE Bills --------------------------------
(***************************************************************************)
(* The job that reads the bills of the Câmara.  The site lists every        *)
(* process in its sitemap and has a page for each; a run reads at most      *)
(* MaxPages of them: the processes the base does not know, then the bills   *)
(* still open, those read longest ago first.  Pages are saved in batches,   *)
(* each in one transaction and then archived.                               *)
(***************************************************************************)
EXTENDS Naturals, FiniteSets, Sequences, Functions

CONSTANTS
  Processes,      \* 1..n, in the order of the sitemap
  MaxPages,       \* pages a run reads (-max)
  BatchSize,      \* bills saved at once
  MaxConsecutive, \* pages that fail in a row before a run gives up
  None,
  FirstAnswers,   \* what the site may answer at first
  MaxChanges,     \* bound on the changes of the site and the full runs
  MaxFaults       \* bound on what fails once

VARIABLES
  site,     \* site[k]: the page of process k, see Pages
  bills,    \* bills[k]: the bill of the base, None when it is not there
  readAt,   \* the processes of the base, by fetched_at
  archived, \* archived[k]: the page of k in the last lot with it
  step,     \* "idle", "fetch", "save", "archive" or "report"
  queue,    \* processes this run still reads
  batch,    \* pages read and not saved: [process, page], in order
  failing,  \* pages that failed in a row
  run,      \* [found, stored, skipped, failed, error] of this run
  changes, faults

vars == <<site, bills, readAt, archived, step, queue, batch, failing, run, changes, faults>>

\* What answers for a process: its bill, "open" or "closed" for the job; the page
\* of a process that does not exist; a page that cannot be parsed or is another
\* process's; nothing, because the server fails.
Answers == {"open", "closed", "missing", "other", "down"}
Readable == {"open", "closed"}
Pages == [answer : Answers, version : 0 .. MaxChanges]

NoRun == [found |-> 0, stored |-> 0, skipped |-> 0, failed |-> 0, error |-> FALSE]

Init ==
  /\ site \in [Processes -> [answer : FirstAnswers, version : {0}]]
  /\ bills = [k \in Processes |-> None]
  /\ readAt = <<>>
  /\ archived = bills
  /\ step = "idle" /\ queue = <<>> /\ batch = <<>> /\ failing = 0 /\ run = NoRun
  /\ changes = 0 /\ faults = 0

-----------------------------------------------------------------------------
\* The Câmara updates a process, or its page comes and goes.
Change(k) ==
  /\ changes < MaxChanges /\ changes' = changes + 1
  /\ \E answer \in Answers : site' = [site EXCEPT ![k] = [answer |-> answer, version |-> changes']]
  /\ UNCHANGED <<bills, readAt, archived, step, queue, batch, failing, run, faults>>

\* The numbers of S, the least first; the elements of s that are in S, in their order.
Ascending(S) == [i \in 1..Cardinality(S) |-> CHOOSE n \in S : Cardinality({m \in S : m <= n}) = i]
Among(s, S) ==
  LET at == Ascending({i \in DOMAIN s : s[i] \in S})
  IN  [i \in DOMAIN at |-> s[at[i]]]

FullQueue == [k \in Processes |-> k]
Unknown == Among(FullQueue, {k \in Processes : bills[k] = None})
StaleOpen == Among(readAt, {k \in Range(readAt) : bills[k].answer = "open"})
FirstOf(s, n) == SubSeq(s, 1, IF n < Len(s) THEN n ELSE Len(s))

\* Mutant: what was read longest ago comes first, new or not.
StaleFirst == FirstOf(StaleOpen \o Unknown, MaxPages)

DailyQueue == FirstOf(Unknown \o StaleOpen, MaxPages)

\* Execute, Ready and queue: the sitemap and the base answer.
Start(pages) ==
  /\ step = "idle"
  /\ queue' = pages /\ batch' = <<>> /\ failing' = 0
  /\ run' = [NoRun EXCEPT !.found = Len(pages)]
  /\ step' = IF pages = <<>> THEN "report" ELSE "fetch"
  /\ UNCHANGED <<site, bills, readAt, archived, faults>>

StartDaily == Start(DailyQueue) /\ UNCHANGED changes
\* All that the sitemap has, or what a -max leaves of it.
StartFull ==
  /\ Start(FullQueue) \/ Start(FirstOf(FullQueue, MaxPages))
  /\ changes < MaxChanges /\ changes' = changes + 1

\* Neither the sitemap nor the base may be out of reach.
StartFails ==
  /\ step = "idle" /\ faults < MaxFaults /\ faults' = faults + 1
  /\ queue' = <<>> /\ batch' = <<>> /\ failing' = 0
  /\ run' = [NoRun EXCEPT !.error = TRUE]
  /\ step' = "report"
  /\ UNCHANGED <<site, bills, readAt, archived, changes>>

\* flush does nothing with an empty batch.
Flush(pages) == step' = IF pages = <<>> THEN "report" ELSE "save"

\* After a page: the batch is full, or the queue is over.
AfterPage(pages, left) ==
  IF Len(pages) >= BatchSize \/ left = <<>> THEN Flush(pages) ELSE step' = "fetch"

\* Mutant: whose page it is is not asked.
AnyBill(k) == site[k].answer \in {"open", "closed", "other"}

\* ParseBillPage gives the bill that was asked for.
IsItsBill(k) == site[k].answer \in Readable

\* The page of the next process, read and parsed.
Fetch ==
  /\ step = "fetch"
  /\ LET k == Head(queue) IN
     /\ site[k].answer # "down"
     /\ batch' = IF IsItsBill(k) THEN Append(batch, [process |-> k, page |-> site[k]]) ELSE batch
     /\ run' = CASE IsItsBill(k) -> run
                 [] site[k].answer = "missing" -> [run EXCEPT !.skipped = @ + 1]
                 [] OTHER -> [run EXCEPT !.failed = @ + 1]
  /\ queue' = Tail(queue) /\ failing' = 0
  /\ AfterPage(batch', Tail(queue))
  /\ UNCHANGED <<site, bills, readAt, archived, changes, faults>>

\* The page does not come; too many in a row and the run gives up.
PageFails ==
  /\ failing' = failing + 1
  /\ IF failing + 1 >= MaxConsecutive
     THEN /\ run' = [run EXCEPT !.failed = @ + 1, !.error = TRUE]
          /\ queue' = <<>> /\ Flush(batch)
     ELSE /\ run' = [run EXCEPT !.failed = @ + 1]
          /\ queue' = Tail(queue)
          /\ IF Tail(queue) = <<>> THEN Flush(batch) ELSE UNCHANGED step
  /\ UNCHANGED <<site, bills, readAt, archived, batch, changes>>

FetchDown == step = "fetch" /\ site[Head(queue)].answer = "down" /\ PageFails /\ UNCHANGED faults
FetchTimesOut ==
  /\ step = "fetch" /\ site[Head(queue)].answer # "down"
  /\ faults < MaxFaults /\ faults' = faults + 1
  /\ PageFails

BatchOf(k) == {r \in Range(batch) : r.process = k}
LastOf(k, page) == IF BatchOf(k) = {} THEN page ELSE (CHOOSE r \in BatchOf(k) : TRUE).page
Batched == [i \in DOMAIN batch |-> batch[i].process]

\* fetched_at is when the page was read: later than every other's.
FetchedAt == Among(readAt, Processes \ Range(Batched)) \o Batched

\* SaveBills: the bills, their events and opinions, in one transaction.
Save ==
  /\ step = "save"
  /\ bills' = [k \in Processes |-> LastOf(k, bills[k])]
  /\ readAt' = FetchedAt
  /\ step' = "archive"
  /\ UNCHANGED <<site, archived, queue, batch, failing, run, changes, faults>>

\* archiveRaw, and on to the rest of the queue.
Archive ==
  /\ step = "archive"
  /\ archived' = [k \in Processes |-> LastOf(k, archived[k])]
  /\ run' = [run EXCEPT !.stored = @ + Len(batch)]
  /\ batch' = <<>>
  /\ step' = IF queue = <<>> THEN "report" ELSE "fetch"
  /\ UNCHANGED <<site, bills, readAt, queue, failing, changes, faults>>

\* The base or the bucket is out of reach: the run ends, what was saved stays.
FlushFails ==
  /\ step \in {"save", "archive"}
  /\ faults < MaxFaults /\ faults' = faults + 1
  /\ run' = [run EXCEPT !.error = TRUE]
  /\ step' = "report"
  /\ UNCHANGED <<site, bills, readAt, archived, queue, batch, failing, changes>>

\* runs.Save.
Report ==
  /\ step = "report"
  /\ step' = "idle" /\ queue' = <<>> /\ batch' = <<>> /\ failing' = 0 /\ run' = NoRun
  /\ UNCHANGED <<site, bills, readAt, archived, changes, faults>>

\* SIGTERM between two pages: what was read is still flushed, and the run that
\* cannot be saved any more is not.
Interrupted ==
  /\ step = "fetch"
  /\ faults < MaxFaults /\ faults' = faults + 1
  /\ run' = [run EXCEPT !.error = TRUE]
  /\ queue' = <<>> /\ Flush(batch)
  /\ UNCHANGED <<site, bills, readAt, archived, batch, failing, changes>>

\* The job dies.
Killed ==
  /\ step # "idle"
  /\ faults < MaxFaults /\ faults' = faults + 1
  /\ step' = "idle" /\ queue' = <<>> /\ batch' = <<>> /\ failing' = 0 /\ run' = NoRun
  /\ UNCHANGED <<site, bills, readAt, archived, changes>>

\* The scheduler starts the daily run, and a run goes on to its end.
Work == StartDaily \/ Fetch \/ FetchDown \/ Save \/ Archive \/ Report

Next ==
  \/ \E k \in Processes : Change(k)
  \/ Work
  \/ StartFull \/ StartFails \/ FetchTimesOut \/ FlushFails \/ Interrupted \/ Killed

Spec == Init /\ [][Next]_vars /\ WF_vars(Work)

-----------------------------------------------------------------------------
\* The variables hold values of the kinds the code gives them, and the run's
\* counters never exceed its queue.
TypeOK ==
  /\ site \in [Processes -> Pages]
  /\ bills \in [Processes -> {None} \cup Pages]
  /\ Range(readAt) = {k \in Processes : bills[k] # None} /\ IsInjective(readAt)
  /\ step \in {"idle", "fetch", "save", "archive", "report"}
  /\ Len(batch) <= BatchSize /\ Len(queue) <= Cardinality(Processes) /\ failing \in 0 .. MaxConsecutive

\* Every process a run took on is accounted for, unless it says it was cut short:
\* stored and archived, without a bill, or failed; what it reports leaves none.
RunAddsUp ==
  LET accounted == run.stored + run.skipped + run.failed
  IN  /\ accounted + Len(batch) + Len(queue) <= run.found
      /\ ~run.error /\ step # "idle" => accounted + Len(batch) + Len(queue) = run.found
      /\ ~run.error /\ step = "report" => accounted = run.found

\* The base has a bill for what was a bill's page, never older than what was
\* archived of it, and nothing is archived that was not saved.
BillsAreOfTheirProcess ==
  \A k \in Processes :
    /\ bills[k] # None => bills[k].answer \in Readable /\ bills[k].version <= site[k].version
    /\ archived[k] # None => bills[k] # None /\ archived[k].version <= bills[k].version

\* Pages a daily run cannot turn into a bill: each takes a place in every queue.
InTheWay == {k \in Processes : (bills[k] = None \/ bills[k].answer = "open") /\ site[k].answer \notin Readable}
Down == {k \in InTheWay : site[k].answer = "down"}

\* The base says of process k what the site says.
IsRead(k) == bills[k] = site[k]

\* Every new process and every open bill that can be read is read again, as long
\* as what cannot be read neither fills a run nor makes it give up.
CaughtUp(k) ==
  \/ Cardinality(InTheWay) >= MaxPages \/ Cardinality(Down) >= MaxConsecutive
  \/ site[k].answer \notin Readable
  \/ (IF bills[k] = None THEN FALSE ELSE bills[k].answer = "closed")
  \/ IsRead(k)
EveryBillIsRead == \A k \in Processes : <>[]CaughtUp(k)
=============================================================================
