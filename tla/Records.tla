------------------------------- MODULE Records -------------------------------
(***************************************************************************)
(* What writes the base and copies it out, side by side: the worker that   *)
(* indexes, the loaders of external records, the dump, the migrations and  *)
(* the links of the acts.  A behaviour is one of a single component,       *)
(* chosen by the initial state; the variables of the others are not looked *)
(* at.  The last section has the values TLC gives the constants.           *)
(***************************************************************************)
EXTENDS Indexing, TLC

CONSTANTS
  Sources, Parts, Good, Bad,
  Editions, Bodies, Entities, Empty, Cut, AsRead(_),
  Programs, Files,
  Reindexers, Indexers, Keys, Edition, MaxAgain,
  None, MaxChanges, Failures

VARIABLES
  mode,
  loader, source, table, archived, part, got, report, saved, before, \* Loads
  base, schema, snap, prev, out, listed, published, taken,           \* Dump
  holder, file, recorded, effects,                                   \* Migrations
  links, entities, gone, own, keys, linked, nextId, again,           \* EntityLinks
  step, changes, target                                              \* of several

indexing == <<pdf, queue, fetches, gazettes, told, pc, event, text, conns, inserting, reindex, reindexed>>
loading  == <<loader, source, table, archived, part, got, report, saved, before>>
dumping  == <<base, schema, snap, prev, out, listed, published, taken>>
migrating == <<holder, file, recorded, effects>>
linking  == <<links, entities, gone, own, keys, linked, nextId, again>>
RecordVars == <<mode, indexing, acts, faults, loading, dumping, migrating,
                linking, step, changes, target>>

Loa == INSTANCE Loads WITH MaxFaults <- Failures

Dum == INSTANCE Dump WITH Gazettes <- Editions, MaxFaults <- Failures

Mig == INSTANCE Migrations

Lin == INSTANCE EntityLinks WITH Workers <- Indexers, MaxFaults <- Failures

\* The parts of a source are numbered, its rows are finite, and what is not read is
\* none of them.
ASSUME LoadsAssumption ==
  /\ IsFiniteSet(Parts) /\ Parts # {} /\ Parts = 1..Cardinality(Parts)
  /\ Sources \subseteq DOMAIN Loa!Policies
  /\ IsFiniteSet(Good) /\ IsFiniteSet(Bad)
  /\ None \notin Loa!Contents

ASSUME DumpAssumption == MaxChanges \in Nat

\* Programs carry numbered files, and one of them carries the most.
ASSUME MigrationsAssumption ==
  /\ None \notin Programs
  /\ Files \in [Programs -> Nat]
  /\ \E q \in Programs : \A p \in Programs : Files[p] <= Files[q]

\* Keys are inserted by order, each worker indexes an edition of its own, and the
\* workflow runs one reindexation at a time.
ASSUME LinksAssumption ==
  /\ Keys \subseteq Nat
  /\ Reindexers \intersect Indexers = {} /\ Edition \notin Indexers
  /\ \A p, q \in Reindexers : p = q

NoIndexing ==
  /\ pdf = 0 /\ queue = 0 /\ fetches = 0 /\ gazettes = 0 /\ told = 0 /\ pc = 0 /\ event = 0
  /\ text = 0 /\ conns = 0 /\ inserting = 0 /\ reindex = 0 /\ reindexed = 0
NoLoading ==
  /\ loader = 0 /\ source = 0 /\ archived = 0 /\ part = 0 /\ got = 0 /\ report = 0
  /\ before = 0 /\ table = 0 /\ saved = 0
NoDumping ==
  /\ base = 0 /\ schema = 0 /\ snap = 0 /\ prev = 0 /\ out = 0 /\ listed = 0
  /\ published = 0 /\ taken = 0
NoMigrating == holder = 0 /\ file = 0 /\ recorded = 0 /\ effects = 0
NoLinking ==
  /\ links = 0 /\ entities = 0 /\ gone = 0 /\ own = 0 /\ keys = 0 /\ linked = 0
  /\ nextId = 0 /\ again = 0

RecordsInit ==
  /\ mode \in {"indexing", "loads", "dump", "migrations", "links"}
  /\ IF mode = "indexing" THEN Init ELSE NoIndexing
  /\ IF mode = "loads" THEN Loa!Init ELSE NoLoading
  /\ IF mode = "dump" THEN Dum!Init ELSE NoDumping
  /\ IF mode = "migrations" THEN Mig!Init ELSE NoMigrating
  /\ IF mode = "links" THEN Lin!Init ELSE NoLinking
  /\ mode = "indexing" => step = 0
  /\ mode \notin {"indexing", "links"} => acts = 0
  /\ mode \notin {"loads", "dump"} => changes = 0
  /\ mode \notin {"dump", "links"} => target = 0

\* What the component of the behaviour does not hold stays.
Others ==
  /\ UNCHANGED mode
  /\ mode # "indexing" => UNCHANGED indexing
  /\ mode # "loads" => UNCHANGED loading
  /\ mode # "dump" => UNCHANGED dumping
  /\ mode # "migrations" => UNCHANGED migrating
  /\ mode # "links" => UNCHANGED linking
  /\ mode = "indexing" => UNCHANGED step
  /\ mode \notin {"indexing", "links"} => UNCHANGED acts
  /\ mode \notin {"loads", "dump"} => UNCHANGED changes
  /\ mode \notin {"dump", "links"} => UNCHANGED target

RecordsNext ==
  \/ mode = "indexing" /\ Next /\ Others
  \/ mode = "loads" /\ Loa!Next /\ Others
  \/ mode = "dump" /\ Dum!Next /\ Others
  \/ mode = "migrations" /\ Mig!Next /\ Others
  \/ mode = "links" /\ Lin!Next /\ Others

\* The fairness each component has on its own.
RecordsFairness ==
  /\ \A w \in Workers : WF_RecordVars(mode = "indexing" /\ Work(w) /\ Others)
  /\ \A ev \in Events :
       /\ WF_RecordVars(/\ mode = "indexing" /\ queue[ev].state = "queued"
                        /\ \E w \in Workers : Start(w, ev)
                        /\ Others)
       /\ WF_RecordVars(mode = "indexing" /\ DeadLetter(ev) /\ Others)
  /\ WF_RecordVars(mode = "loads" /\ Loa!Work /\ Others)
  /\ WF_RecordVars(mode = "dump" /\ Dum!Work /\ Others)
  /\ \A q \in Programs : WF_RecordVars(mode = "migrations" /\ Mig!Work(q) /\ Others)
  /\ \A q \in Lin!Procs : WF_RecordVars(mode = "links" /\ Lin!Work(q) /\ Others)

RecordsSpec == RecordsInit /\ [][RecordsNext]_RecordVars /\ RecordsFairness

\* gazette.indexed is published only about an edition that is committed, an
\* acknowledged event left its edition indexed and announced, one transaction at a
\* time inserts it, and the handlers never wait for each other's connections.
IndexSafe ==
  mode = "indexing" => TypeOK /\ ToldIsCommitted /\ AckMeansIndexed /\ OneInserter /\ NoPoolStall

\* A published event ends indexed and announced, or in the dead letters.
IndexFetchedIsIndexed ==
  \A ev \in Events :
    (IF mode = "indexing" THEN queue[ev].state = "queued" ELSE FALSE) ~>
      (IF mode = "indexing" THEN FetchedSettled(ev) ELSE TRUE)

\* A load leaves each part as it was or as a copy archived before it says; after a
\* clean report it is the latter, row for row, and no report counts more than the
\* table has, but for one with an error of the registry.
LoadsSafe ==
  mode = "loads" =>
    /\ Loa!TypeOK /\ Loa!AllOrNothing /\ Loa!ArchivedFirst
    /\ Loa!CleanReportMeansCopied /\ Loa!StoredIsInTheTable

\* Once the source rests, the table says what it says.
LoadsCatchUp == \A q \in Parts : <>[](IF mode = "loads" THEN Loa!CaughtUp(q) ELSE TRUE)

\* A published manifest says what the base said at one instant and describes the files
\* that are there, but for those of the bucket that a dump under way or a failed one
\* wrote over; an incremental dump reads again what changed only.
DumpSafe ==
  mode = "dump" =>
    Dum!TypeOK /\ Dum!PublishedIsSnapshot /\ Dum!ManifestIsOfTheFiles /\ Dum!ReadsOnlyChanges

\* Once the base rests, the dump says what it says.
DumpCatchesUp == <>[](IF mode = "dump" THEN Dum!IsCurrent ELSE TRUE)

\* Migrations take effect once each and in order, and no program finds applied a
\* file it saw missing.
MigrationsSafe == mode = "migrations" => Mig!TypeOK /\ Mig!OnceAndInOrder /\ Mig!NoFileAppliedTwice

\* No link is left to an act that is gone, an act is linked to what it mentions and
\* to nothing else, and two transactions never wait for each other.
LinksSafe ==
  mode = "links" =>
    Lin!TypeOK /\ Lin!NoOrphanLinks /\ Lin!LinkedToWhatItCites /\ Lin!NoDeadlock

\* Every deploy ends with its files applied, every transaction of the links ends.
EveryoneEnds ==
  /\ \A q \in Programs : <>[](IF mode = "migrations" THEN Mig!Migrated(q) ELSE TRUE)
  /\ \A q \in Lin!Procs : (IF mode = "links" THEN step[q] # "idle" ELSE FALSE) ~>
                         (IF mode = "links" THEN step[q] = "done" ELSE TRUE)

-----------------------------------------------------------------------------
CONSTANTS a, x, crlf

MCSources == {"payments", "staff", "municipal", "transfers", "agents", "norms", "mural",
              "oversight", "special", "amendments", "pncp", "registry", "fiscal"}

MCAsRead(v) == IF v = crlf THEN x ELSE v

MCFiles == a :> 2 @@ x :> 3
=============================================================================
