----------------------------- MODULE Collection -----------------------------
(***************************************************************************)
(* The scraper: a run of FetchEditions lists the editions of a period, the *)
(* last days or the days an operator asks for,                             *)
(* skips those whose marker is in the bucket and, for each of the others,  *)
(* downloads the PDF, stores it, publishes gazette.fetched and only then   *)
(* writes the marker.  A failed edition is counted and the run goes on; at *)
(* the end the run itself is published with its counters.                  *)
(*                                                                         *)
(* Runs may overlap (a scheduled one and a backfill), die at any step, and *)
(* the site may replace the PDF of an edition between two of them.  A PDF  *)
(* is known here by its SHA-256, a member of Sums.                         *)
(***************************************************************************)
EXTENDS Naturals, FiniteSets

CONSTANTS
  Editions,     \* editions of the source
  Paths,        \* names of objects in the bucket
  PathOf,       \* StoragePath of each edition
  Sums,         \* checksums of PDFs
  Absent,       \* no PDF, no marker
  Runs,         \* executions of the scraper that may overlap
  Backfills,    \* those of them an operator starts; the others are scheduled
  Periods,      \* what an operator may ask for, as the editions of those days
  KeepsBucket,  \* FALSE: each execution starts from an empty bucket
  MaxAttempts,  \* max_delivery_attempts of the push subscription
  MaxFaults,    \* bound on failed calls and crashes
  Lookback,     \* scheduled runs that ask for the day of an edition
  MaxRevisions  \* bound on PDFs the site replaces

ASSUME CollectionAssumption ==
  /\ IsFiniteSet(Editions) /\ Editions # {}
  /\ PathOf \in [Editions -> Paths]
  /\ Absent \notin Sums
  /\ KeepsBucket \in BOOLEAN
  /\ MaxAttempts \in Nat \ {0}
  /\ MaxFaults \in Nat
  /\ Periods \subseteq SUBSET Editions
  /\ Lookback \in Nat
  /\ MaxRevisions \in Nat

Topic == INSTANCE PushTopic

\* A gazette.fetched event: the storage path and the checksum it carries.
Events == Paths \X Sums

VARIABLES
  site,      \* site[e]: the PDF the source serves for e
  revisions, \* PDFs replaced so far
  listings,  \* listings[e]: scheduled runs that asked for the day of e so far
  pdf,       \* pdf[p]: the PDF stored at p
  marker,    \* marker[p]: content of p.published
  queue,     \* queue[ev]: the message of ev
  announced, \* events ever published
  pc,        \* pc[r]: the call run r makes next
  todo,      \* todo[r]: listed editions not yet visited
  current,   \* current[r]: the edition of this turn of the loop
  data,      \* data[r]: the PDF downloaded
  res,       \* res[r]: the counters of FetchResult
  reports,   \* counters of the runs published in fetch.completed
  faults     \* failed calls and crashes so far

bucket == <<pdf, marker>>
topic  == <<queue, announced>>
run    == <<pc, todo, current, data, res>>
vars == <<site, revisions, listings, pdf, marker, queue, announced, pc, todo, current,
          data, res, reports, faults>>

Steps == {"idle", "loop", "download", "store", "publish", "mark", "report"}
Working == {"download", "store", "publish", "mark"}
Count == 0..Cardinality(Editions)
Result == [found : Count, stored : Count, skipped : Count, failed : Count]
NoResult == [found |-> 0, stored |-> 0, skipped |-> 0, failed |-> 0]

AnyEdition == CHOOSE e \in Editions : TRUE

Init ==
  /\ site \in [Editions -> Sums \union {Absent}]
  /\ revisions = 0
  /\ listings = [e \in Editions |-> 0]
  /\ pdf = [p \in Paths |-> Absent]
  /\ marker = [p \in Paths |-> Absent]
  /\ queue = [ev \in Events |-> Topic!Unpublished]
  /\ announced = {}
  /\ pc = [r \in Runs |-> "idle"]
  /\ todo = [r \in Runs |-> {}]
  /\ current = [r \in Runs |-> AnyEdition]
  /\ data = [r \in Runs |-> Absent]
  /\ res = [r \in Runs |-> NoResult]
  /\ reports = {}
  /\ faults = 0

-----------------------------------------------------------------------------
(***************************************************************************)
(* The source and the bucket.                                              *)
(***************************************************************************)

\* A new edition comes out, or the PDF of an old one is replaced.
SiteChanges(e, c) ==
  /\ c # site[e]
  /\ revisions < MaxRevisions
  /\ revisions' = revisions + 1
  /\ site' = [site EXCEPT ![e] = c]
  /\ UNCHANGED <<listings, bucket, topic, run, reports, faults>>

\* Without a bucket that survives, the next execution finds it empty.
EmptyBucket ==
  /\ ~KeepsBucket
  /\ \A r \in Runs : pc[r] = "idle"
  /\ pdf' = [p \in Paths |-> Absent]
  /\ marker' = [p \in Paths |-> Absent]
  /\ UNCHANGED <<site, revisions, listings, topic, run, reports, faults>>

-----------------------------------------------------------------------------
(***************************************************************************)
(* One run.                                                                *)
(***************************************************************************)

Fault == faults < MaxFaults /\ faults' = faults + 1

\* What the site of the Prefeitura shows, or a HEAD answered by the one of the Camara.
Served == {e \in Editions : site[e] # Absent}

\* A listing of the days of some editions answers with those the site has, and with
\* days of the Camara whose HEAD failed.
ListEditions(r, asked) ==
  \E doubtful \in SUBSET (asked \ Served) :
    LET listed == (asked \cap Served) \union doubtful IN
    /\ pc[r] = "idle"
    /\ IF doubtful = {} THEN UNCHANGED faults ELSE Fault
    /\ todo' = [todo EXCEPT ![r] = listed]
    /\ res' = [res EXCEPT ![r] = [NoResult EXCEPT !.found = Cardinality(listed)]]
    /\ pc' = [pc EXCEPT ![r] = "loop"]
    /\ UNCHANGED <<site, revisions, bucket, topic, current, data, reports>>

\* A scheduled run asks for the last days: those of an edition until the Lookback-th
\* run since; the day of one that is not out may be still to come.
LastDays == {e \in Editions : listings[e] < Lookback}
Asks(asked) ==
  /\ LastDays \cap Served \subseteq asked
  /\ listings' = [e \in Editions |-> IF e \in asked THEN listings[e] + 1 ELSE listings[e]]

\* Mutant: a scheduled run leaves out the last day of the period.
ListButTheLast(r) ==
  /\ r \notin Backfills
  /\ \E asked \in SUBSET LastDays :
       Asks(asked) /\ ListEditions(r, {e \in asked : listings[e] < Lookback - 1})

List(r) ==
  /\ r \notin Backfills
  /\ \E asked \in SUBSET LastDays : Asks(asked) /\ ListEditions(r, asked)

\* -from and -to: an operator asks for any days.
Backfill(r) ==
  /\ r \in Backfills
  /\ \E asked \in Periods : ListEditions(r, asked)
  /\ UNCHANGED listings

\* ListEditions fails: the run is published with nothing found.
ListFails(r) ==
  /\ pc[r] = "idle"
  /\ Fault
  /\ IF r \in Backfills THEN UNCHANGED listings ELSE \E asked \in SUBSET LastDays : Asks(asked)
  /\ pc' = [pc EXCEPT ![r] = "report"]
  /\ UNCHANGED <<site, revisions, bucket, topic, todo, current, data, res, reports>>

Visit(r, e) ==
  /\ pc[r] = "loop"
  /\ e \in todo[r]
  /\ todo' = [todo EXCEPT ![r] = @ \ {e}]

\* One more edition in a counter of the run.
Tally(r, field) == res' = [res EXCEPT ![r][field] = @ + 1]

\* The marker is there: the edition was published by an earlier run.
Skip(r, e) ==
  /\ Visit(r, e)
  /\ marker[PathOf[e]] # Absent
  /\ Tally(r, "skipped")
  /\ UNCHANGED <<site, revisions, listings, bucket, topic, pc, current, data, reports, faults>>

\* Mutant: an edition whose marker cannot be read is not counted.
CheckFailsUncounted(r, e) ==
  /\ Visit(r, e)
  /\ Fault
  /\ UNCHANGED <<site, revisions, listings, bucket, topic, pc, current, data, res, reports>>

CheckFails(r, e) ==
  /\ Visit(r, e)
  /\ Fault
  /\ Tally(r, "failed")
  /\ UNCHANGED <<site, revisions, listings, bucket, topic, pc, current, data, reports>>

Fetch(r, e) ==
  /\ Visit(r, e)
  /\ marker[PathOf[e]] = Absent
  /\ current' = [current EXCEPT ![r] = e]
  /\ pc' = [pc EXCEPT ![r] = "download"]
  /\ UNCHANGED <<site, revisions, listings, bucket, topic, data, res, reports, faults>>

Download(r) ==
  /\ pc[r] = "download"
  /\ site[current[r]] # Absent
  /\ data' = [data EXCEPT ![r] = site[current[r]]]
  /\ pc' = [pc EXCEPT ![r] = "store"]
  /\ UNCHANGED <<site, revisions, listings, bucket, topic, todo, current, res, reports, faults>>

\* Mutant: the marker is written with the PDF, before the event.
StoreAndMark(r) ==
  /\ pc[r] = "store"
  /\ pdf' = [pdf EXCEPT ![PathOf[current[r]]] = data[r]]
  /\ marker' = [marker EXCEPT ![PathOf[current[r]]] = data[r]]
  /\ pc' = [pc EXCEPT ![r] = "publish"]
  /\ UNCHANGED <<site, revisions, listings, topic, todo, current, data, res, reports, faults>>

\* Mutant: a PDF already in the bucket is kept.
StoreOnce(r) ==
  LET p == PathOf[current[r]] IN
  /\ pc[r] = "store"
  /\ pdf' = IF pdf[p] = Absent THEN [pdf EXCEPT ![p] = data[r]] ELSE pdf
  /\ pc' = [pc EXCEPT ![r] = "publish"]
  /\ UNCHANGED <<site, revisions, listings, marker, topic, todo, current, data, res, reports, faults>>

Store(r) ==
  /\ pc[r] = "store"
  /\ pdf' = [pdf EXCEPT ![PathOf[current[r]]] = data[r]]
  /\ pc' = [pc EXCEPT ![r] = "publish"]
  /\ UNCHANGED <<site, revisions, listings, marker, topic, todo, current, data, res, reports, faults>>

Announce(ev) ==
  /\ queue' = [queue EXCEPT ![ev] = Topic!Published]
  /\ announced' = announced \union {ev}

Publish(r) ==
  /\ pc[r] = "publish"
  /\ Announce(<<PathOf[current[r]], data[r]>>)
  /\ pc' = [pc EXCEPT ![r] = "mark"]
  /\ UNCHANGED <<site, revisions, listings, bucket, todo, current, data, res, reports, faults>>

WriteMarker(r) == marker' = [marker EXCEPT ![PathOf[current[r]]] = data[r]]

Mark(r) ==
  /\ pc[r] = "mark"
  /\ WriteMarker(r)
  /\ Tally(r, "stored")
  /\ pc' = [pc EXCEPT ![r] = "loop"]
  /\ UNCHANGED <<site, revisions, listings, pdf, topic, todo, current, data, reports, faults>>

\* The source answers 404 for an edition listed in doubt.
NotThere(r) == pc[r] = "download" /\ site[current[r]] = Absent

\* Mutant: a failed edition is marked as well.
FetchFailsAndMarks(r) ==
  /\ pc[r] \in Working
  /\ IF NotThere(r) THEN UNCHANGED faults ELSE Fault
  /\ WriteMarker(r)
  /\ Tally(r, "failed")
  /\ pc' = [pc EXCEPT ![r] = "loop"]
  /\ UNCHANGED <<site, revisions, listings, pdf, topic, todo, current, data, reports>>

\* A call of fetchOne fails, its effect done or not: the edition is counted as
\* failed and the run goes on to the next one.
FetchFails(r) ==
  /\ pc[r] \in Working
  /\ IF NotThere(r) THEN UNCHANGED faults ELSE Fault
  /\ \/ UNCHANGED <<bucket, topic>>
     \/ pc[r] = "store" /\ pdf' = [pdf EXCEPT ![PathOf[current[r]]] = data[r]]
                        /\ UNCHANGED <<marker, topic>>
     \/ pc[r] = "publish" /\ Announce(<<PathOf[current[r]], data[r]>>)
                          /\ UNCHANGED bucket
     \/ pc[r] = "mark" /\ WriteMarker(r) /\ UNCHANGED <<pdf, topic>>
  /\ Tally(r, "failed")
  /\ pc' = [pc EXCEPT ![r] = "loop"]
  /\ UNCHANGED <<site, revisions, listings, todo, current, data, reports>>

Finish(r) ==
  /\ pc[r] = "loop" /\ todo[r] = {}
  /\ pc' = [pc EXCEPT ![r] = "report"]
  /\ UNCHANGED <<site, revisions, listings, bucket, topic, todo, current, data, res, reports, faults>>

Exit(r) ==
  /\ pc' = [pc EXCEPT ![r] = "idle"]
  /\ todo' = [todo EXCEPT ![r] = {}]
  /\ current' = [current EXCEPT ![r] = AnyEdition]
  /\ data' = [data EXCEPT ![r] = Absent]
  /\ res' = [res EXCEPT ![r] = NoResult]

\* RunCompleted, under a context of its own: a cancelled job still reports.
Report(r) ==
  /\ pc[r] = "report"
  /\ reports' = reports \union {res[r]}
  /\ Exit(r)
  /\ UNCHANGED <<site, revisions, listings, bucket, topic, faults>>

ReportFails(r) ==
  /\ pc[r] = "report"
  /\ Fault
  /\ Exit(r)
  /\ UNCHANGED <<site, revisions, listings, bucket, topic, reports>>

Crash(r) ==
  /\ pc[r] # "idle"
  /\ Fault
  /\ Exit(r)
  /\ UNCHANGED <<site, revisions, listings, bucket, topic, reports>>

-----------------------------------------------------------------------------
\* What a run does when its calls succeed.
Work(r) ==
  \/ List(r)
  \/ \E e \in Editions : Skip(r, e) \/ Fetch(r, e)
  \/ Download(r) \/ Store(r) \/ Publish(r) \/ Mark(r)
  \/ NotThere(r) /\ FetchFails(r)
  \/ Finish(r) \/ Report(r)

Run(r) ==
  \/ Work(r)
  \/ Backfill(r)
  \/ ListFails(r)
  \/ \E e \in Editions : CheckFails(r, e)
  \/ FetchFails(r)
  \/ ReportFails(r)
  \/ Crash(r)

Next ==
  \/ \E e \in Editions, c \in Sums : SiteChanges(e, c)
  \/ EmptyBucket
  \/ \E r \in Runs : Run(r)

\* The schedule starts run after run, and a run goes on while its calls answer.
Fairness == \A r \in Runs : WF_vars(Work(r))

Spec == Init /\ [][Next]_vars
FairSpec == Spec /\ Fairness

-----------------------------------------------------------------------------
(***************************************************************************)
(* Properties.                                                             *)
(***************************************************************************)

\* The variables hold values of the kinds the code gives them.
TypeOK ==
  /\ site \in [Editions -> Sums \union {Absent}]
  /\ revisions \in Nat
  /\ listings \in [Editions -> 0..Lookback]
  /\ pdf \in [Paths -> Sums \union {Absent}]
  /\ marker \in [Paths -> Sums \union {Absent}]
  /\ queue \in [Events -> Topic!Message]
  /\ announced \subseteq Events
  /\ pc \in [Runs -> Steps]
  /\ todo \in [Runs -> SUBSET Editions]
  /\ current \in [Runs -> Editions]
  /\ data \in [Runs -> Sums \union {Absent}]
  /\ res \in [Runs -> Result]
  /\ reports \subseteq Result
  /\ faults \in Nat

\* A marker is only ever written for a PDF whose event was published: an
\* edition later runs skip is an edition the worker was told about.
MarkedWasAnnounced ==
  \A p \in Paths : marker[p] # Absent => <<p, marker[p]>> \in announced

\* A published run accounts for every edition it found.
ReportsAddUp ==
  \A c \in reports : c.found = c.stored + c.skipped + c.failed

\* While runs do not overlap, the stored PDF is the one its marker names, so
\* a later reading of the path is a reading of the announced edition.
MarkerNamesThePdf ==
  \A p \in Paths : marker[p] # Absent => pdf[p] = marker[p]

\* An edition the source serves is announced when more scheduled runs will still ask
\* for its day than calls may still fail: each of them takes up what the others left,
\* until the day leaves the period.
EveryEditionAnnounced ==
  \A e \in Editions :
    (site[e] # Absent /\ MaxFaults - faults < Lookback - listings[e])
      ~> \E c \in Sums : <<PathOf[e], c>> \in announced
=============================================================================
