------------------------------ MODULE FetchRuns ------------------------------
(***************************************************************************)
(* The record of what each collection did.  The scraper reports its runs   *)
(* on the topic fetch.completed, whose messages the worker may get late,    *)
(* more than once and in any order; the loaders save theirs.  A run is [id, *)
(* source, started, finished, from, to].                                    *)
(***************************************************************************)
EXTENDS Naturals

CONSTANTS
  Reported,     \* runs the scraper may report
  Loaded,       \* runs the loaders may save
  Collectors,   \* sources of the page of collections
  MaxDeliveries \* deliveries of a message before it is a dead letter

VARIABLES
  runs,    \* rows of fetch_runs
  messages \* [run, sent, state]: "queued", "acked" or "dead"

Init == runs = {} /\ messages = {}

Valid(r) == r.source # "" /\ r.started <= r.finished /\ r.from <= r.to

\* Mutant: a source keeps the run that came last.
KeepLastCome(r) == {x \in runs : x.source # r.source} \cup {r}

\* INSERT ... ON CONFLICT (id) DO NOTHING
Saved(r) == IF \E x \in runs : x.id = r.id THEN runs ELSE runs \cup {r}

FetchCompleted(r) ==
  /\ \A m \in messages : m.run # r
  /\ messages' = messages \cup {[run |-> r, sent |-> 0, state |-> "queued"]}
  /\ UNCHANGED runs

Settle(m, state) == messages' = (messages \ {m}) \cup {[m EXCEPT !.sent = @ + 1, !.state = state]}
Unsettled(m) == Settle(m, IF m.sent + 1 < MaxDeliveries THEN "queued" ELSE "dead")

\* RecordFetchRun: an invalid run is acknowledged and dropped; a base that does not
\* answer is a 500, with the row saved or not; an acknowledgement may be lost.
Deliver(m) ==
  /\ m.state = "queued"
  /\ IF ~Valid(m.run)
     THEN UNCHANGED runs /\ (Settle(m, "acked") \/ Unsettled(m))
     ELSE \/ runs' = Saved(m.run) /\ (Settle(m, "acked") \/ Unsettled(m))
          \/ UNCHANGED runs /\ Unsettled(m)

\* A loader saves its own run, valid or not, once.
LoaderSaves(r) == runs' = Saved(r) /\ r \notin runs /\ UNCHANGED messages

Next ==
  \/ \E r \in Reported : FetchCompleted(r)
  \/ \E m \in messages : Deliver(m)
  \/ \E r \in Loaded : LoaderSaves(r)

-----------------------------------------------------------------------------
\* DISTINCT ON (source) ... finished_at DESC: any of those that ended together.
LatestRuns(sources) ==
  {r \in runs : r.source \in sources /\ \A x \in runs : x.source = r.source => x.finished <= r.finished}

LatestCollections == LatestRuns(Collectors)

\* A report that was acknowledged is recorded, unless its clock went back.
AckedIsRecorded ==
  \A m \in messages : m.state = "acked" /\ Valid(m.run) => \E x \in runs : x.id = m.run.id

\* However late and often reports come, the run shown of a source never goes back.
ShownNeverGoesBack ==
  \A r \in LatestRuns(Collectors \cup {x.source : x \in runs}) :
    \A x \in LatestRuns({r.source})' : r.finished <= x.finished
=============================================================================
