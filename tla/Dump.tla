-------------------------------- MODULE Dump --------------------------------
(***************************************************************************)
(* The weekly dump of the base: a read-only snapshot, the rows reused from *)
(* the previous dump, one file per table and the manifest last.  The files *)
(* go straight to a public bucket, or to a directory that the workflow     *)
(* pushes as a branch once the program ended well.                         *)
(***************************************************************************)
EXTENDS Naturals

CONSTANTS
  Gazettes,
  Bodies,     \* what the acts of an edition may say
  Entities,   \* what their entities may be
  Empty,      \* no row
  None, Cut,  \* no file, and one whose writing was interrupted
  AsRead(_),  \* acts as the CSV reader returns them: it turns \r\n into \n
  MaxChanges, \* bound on the changes of the base
  MaxFaults   \* bound on the failures of a run

VARIABLES
  target,    \* where the dump goes: "bucket" or "branch"
  base,      \* base[g]: the acts and entities of edition g, None before it is indexed
  schema,    \* the header of the tables in the running version
  snap,      \* the snapshot of the run
  step,      \* what the run does next
  prev,      \* the tables reused from the previous dump, None for a full dump
  out,       \* the files the run wrote: out[t] is a file, None or Cut
  listed,    \* the files its manifest will name
  published, \* what the readers see
  taken,     \* ghost: the snapshot behind the published manifest
  changes, faults

run  == <<snap, step, prev, out, listed>>
vars == <<target, base, schema, run, published, taken, changes, faults>>

Tables == {"gazettes", "acts", "act_entities"}
Acts == Bodies \union {Empty}
Contents == [acts: Acts, act_entities: Entities \union {Empty}]

\* The rows of table t for an edition that is in the base with contents c.
RowsOf(c, t) == IF c = None THEN Empty ELSE IF t = "gazettes" THEN "edition" ELSE c[t]

\* A whole table; equal files have equal sha256.
File(header, b, t) == [header |-> header, rows |-> [g \in Gazettes |-> RowsOf(b[g], t)]]
NoFiles == [t \in Tables |-> None]

Init ==
  /\ target \in {"bucket", "branch"}
  /\ base = [g \in Gazettes |-> None]
  /\ schema = 1
  /\ snap = None /\ step = "idle" /\ prev = None
  /\ out = NoFiles /\ listed = NoFiles
  /\ published = [files |-> NoFiles, manifest |-> None]
  /\ taken = None
  /\ changes = 0 /\ faults = 0

-----------------------------------------------------------------------------
\* An edition is indexed, or its acts are replaced.
Change(g) ==
  /\ changes < MaxChanges /\ changes' = changes + 1
  /\ \E c \in Contents : base' = [base EXCEPT ![g] = c]
  /\ UNCHANGED <<target, schema, run, published, taken, faults>>

\* A version with other columns is deployed between two runs.
Deploy ==
  /\ changes < MaxChanges /\ changes' = changes + 1
  /\ step = "idle"
  /\ schema' = schema + 1
  /\ UNCHANGED <<target, base, run, published, taken, faults>>

\* The REPEATABLE READ transaction.
Snapshot ==
  /\ step = "idle"
  /\ snap' = base
  /\ step' = "reuse"
  /\ listed' = NoFiles
  /\ out' = IF target = "bucket" THEN published.files ELSE NoFiles
  /\ UNCHANGED <<target, base, schema, prev, published, taken, changes, faults>>

\* The table of the previous dump as the reader returns it.
PreviousTable(t) ==
  LET f == published.files[t] IN
  [f EXCEPT !.rows = [g \in Gazettes |-> AsRead(f.rows[g])]]

\* The bucket is not read back: its dumps are always full.
HasPrevious ==
  /\ target = "branch" /\ published.manifest # None
  /\ \A t \in {"acts", "act_entities"} : PreviousTable(t).header = schema

Reuse ==
  /\ step = "reuse"
  /\ prev' = IF HasPrevious THEN [t \in {"acts", "act_entities"} |-> PreviousTable(t)] ELSE None
  /\ step' = "gazettes"
  /\ UNCHANGED <<target, base, schema, snap, out, listed, published, taken, changes, faults>>

\* Mutant: the fingerprint covers the acts alone.
FingerprintOfActs(acts, entities) == acts

\* The md5 of the acts and the entities of an edition.
FingerprintOf(acts, entities) == <<acts, entities>>

\* Editions of the snapshot whose fingerprint is not that of the previous dump.
StaleGazettes ==
  {g \in Gazettes : snap[g] # None /\
     FingerprintOf(prev["acts"].rows[g], prev["act_entities"].rows[g])
       # FingerprintOf(snap[g].acts, snap[g].act_entities)}

\* Only the stale editions are read again.
Merge(t) ==
  [header |-> schema,
   rows |-> [g \in Gazettes |->
     IF snap[g] = None THEN Empty
     ELSE IF g \in StaleGazettes THEN snap[g][t] ELSE prev[t].rows[g]]]

\* Mutant: a whole table is read outside the snapshot.
WriteLive(t) == IF prev = None \/ t = "gazettes" THEN File(schema, base, t) ELSE Merge(t)

WriteTable(t) == IF prev = None \/ t = "gazettes" THEN File(schema, snap, t) ELSE Merge(t)

After == [gazettes |-> "acts", acts |-> "act_entities", act_entities |-> "manifest"]

\* Objects in the bucket are seen as they are written.
Write(files, manifest) ==
  /\ out' = files
  /\ published' = IF target = "bucket" THEN [files |-> files, manifest |-> manifest] ELSE published

PublishTable(t) ==
  /\ step = t
  /\ Write([out EXCEPT ![t] = WriteTable(t)], published.manifest)
  /\ listed' = [listed EXCEPT ![t] = WriteTable(t)]
  /\ step' = After[t]
  /\ UNCHANGED <<target, base, schema, snap, prev, taken, changes, faults>>

\* LEIAME.txt and manifest.json.
PutManifest ==
  /\ step = "manifest"
  /\ Write(out, listed)
  /\ taken' = IF target = "bucket" THEN snap ELSE taken
  /\ step' = IF target = "bucket" THEN "idle" ELSE "push"
  /\ UNCHANGED <<target, base, schema, snap, prev, listed, changes, faults>>

\* git push of the directory, only after the program ended with 0.
Push ==
  /\ step = "push"
  /\ published' = [files |-> out, manifest |-> listed]
  /\ taken' = snap
  /\ step' = "idle"
  /\ UNCHANGED <<target, base, schema, snap, prev, out, listed, changes, faults>>

\* A statement, a write or the job fails.  A file being written in a directory
\* stays cut; an object of the bucket changes whole or not at all.
Fail ==
  /\ step # "idle"
  /\ faults < MaxFaults /\ faults' = faults + 1
  /\ step' = "idle"
  /\ IF step \in Tables /\ target = "branch"
     THEN out' = [out EXCEPT ![step] = Cut]
     ELSE UNCHANGED out
  /\ UNCHANGED <<target, base, schema, snap, prev, listed, published, taken, changes>>

Work == Snapshot \/ Reuse \/ (\E t \in Tables : PublishTable(t)) \/ PutManifest \/ Push

Next == (\E g \in Gazettes : Change(g)) \/ Deploy \/ Work \/ Fail

Spec == Init /\ [][Next]_vars /\ WF_vars(Work)

-----------------------------------------------------------------------------
\* The variables hold values of the kinds the code gives them.
TypeOK ==
  /\ target \in {"bucket", "branch"}
  /\ base \in [Gazettes -> Contents \union {None}]
  /\ schema \in 1..(MaxChanges + 1)
  /\ step \in Tables \union {"idle", "reuse", "manifest", "push"}
  /\ step # "idle" => snap \in [Gazettes -> Contents \union {None}]
  /\ DOMAIN out = Tables /\ DOMAIN listed = Tables

\* What is published under a manifest says what the base said at one instant,
\* incremental or full, whatever was indexed meanwhile: never old rows, never
\* an edition in one table and not in another.
PublishedIsSnapshot ==
  published.manifest # None =>
    \E header \in 1..schema : \A t \in Tables :
      published.manifest[t] = File(header, taken, t)

\* What the design claims: who reads the manifest finds the files it describes.
ManifestMatchesFiles ==
  published.manifest # None => published.manifest = published.files

\* On the branch it is true at every instant, since a push replaces both.  In the
\* bucket it is true only between dumps and until one fails: from its first file to
\* its manifest a dump writes over what the manifest of the last one describes.
ManifestIsOfTheFiles ==
  target = "branch" \/ (faults = 0 /\ step \notin {"acts", "act_entities", "manifest"})
    => ManifestMatchesFiles

\* An incremental dump reads again only editions that changed since the last
\* one or that the CSV reader does not return as they were.
ReadsOnlyChanges ==
  prev # None /\ step \in {"acts", "act_entities"} =>
    \A g \in StaleGazettes :
      taken[g] # snap[g] \/ \E t \in {"acts", "act_entities"} : AsRead(snap[g][t]) # snap[g][t]

IsCurrent ==
  \A t \in Tables :
    published.files[t] # None /\ published.files[t].rows = File(schema, base, t).rows

\* Once the base rests, the dump ends up saying what it says: no failed run
\* leaves behind something that makes the next ones fail or skip an edition.
CatchesUp == <>[]IsCurrent
=============================================================================
