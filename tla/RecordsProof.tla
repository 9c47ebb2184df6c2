---------------------------- MODULE RecordsProof ----------------------------
(***************************************************************************)
(* What Records promises of the base, for all its constants: each theorem  *)
(* takes one component, whose inductive invariant it names and whose        *)
(* actions the lemmas before it take one by one.  A behaviour of Records is *)
(* one of a single component, as the lemmas Runs... say.                    *)
(***************************************************************************)
EXTENDS Records, IndexingProof, TLAPS, FiniteSetTheorems, WellFoundedInduction

LEMMA SameMode == [RecordsNext]_RecordVars => mode' = mode
  BY DEF RecordsNext, RecordVars, Others

-----------------------------------------------------------------------------
(***************************************************************************)
(* The migrations.  A program about to apply a file holds the lock, and the *)
(* files it went past are recorded: nobody recorded the one it is at.      *)
(***************************************************************************)

LEMMA AllFiles ==
  /\ \A p \in Programs : \A f \in 1..Files[p] : f \in Mig!All
  /\ \A f \in Mig!All : f \in Nat /\ f >= 1 /\ 1..f \subseteq Mig!All
<1> DEFINE most == CHOOSE n \in {Files[p] : p \in Programs} : \A p \in Programs : Files[p] <= n
<1>1. \E n \in {Files[p] : p \in Programs} : \A p \in Programs : Files[p] <= n
  BY MigrationsAssumption
<1>2. most \in {Files[p] : p \in Programs} /\ \A p \in Programs : Files[p] <= most
  BY <1>1
<1>3. most \in Nat
  BY <1>2, MigrationsAssumption
<1>4. Mig!All = 1..most
  BY DEF Mig!All
<1> HIDE DEF most
<1>5. \A p \in Programs : Files[p] \in Nat
  BY MigrationsAssumption
<1> QED
  BY <1>2, <1>3, <1>4, <1>5

\* A program works on the files only while its session holds the lock.
LockInv == \A p \in Programs : step[p] \in {"check", "apply", "unlock"} => holder = p

\* The files a program has gone past are in the table, the one it is about to
\* apply is not.
FileInv ==
  \A p \in Programs :
    /\ \A f \in 1..(file[p] - 1) : f \in recorded
    /\ step[p] = "apply" => file[p] <= Files[p] /\ file[p] \notin recorded

EffectInv ==
  \A f \in Mig!All :
    /\ effects[f] = IF f \in recorded THEN 1 ELSE 0
    /\ f \in recorded => \A e \in 1..f : e \in recorded

MigrationInv == Mig!TypeOK /\ LockInv /\ FileInv /\ EffectInv

\* Another program's record is of a file its lock gave it.
LEMMA AboutToApply ==
  ASSUME MigrationInv, NEW p \in Programs, step[p] = "apply"
  PROVE  /\ file[p] \in Mig!All /\ file[p] \in 1..Files[p] /\ file[p] \notin recorded
         /\ \A q \in Programs : q # p => step[q] \notin {"check", "apply", "unlock"}
<1>1. /\ file[p] \in Nat \ {0} /\ file[p] <= Files[p] /\ file[p] \notin recorded
      /\ Files[p] \in Nat
  BY MigrationsAssumption DEF MigrationInv, Mig!TypeOK, FileInv
<1>2. file[p] \in 1..Files[p]
  BY <1>1
<1> QED
  BY <1>1, <1>2, AllFiles DEF MigrationInv, LockInv

\* What a program that is about to apply a file does to the table.
Record(p) ==
  /\ recorded' = recorded \union {file[p]}
  /\ effects' = [effects EXCEPT ![file[p]] = @ + 1]

LEMMA RecordKeeps ==
  ASSUME MigrationInv, NEW p \in Programs, step[p] = "apply", Record(p)
  PROVE  EffectInv' /\ recorded' \subseteq Mig!All /\ effects' \in [Mig!All -> Nat]
<1>1. /\ file[p] \in Mig!All /\ file[p] \notin recorded /\ file[p] \in Nat
      /\ \A f \in 1..(file[p] - 1) : f \in recorded
  BY AboutToApply, AllFiles DEF MigrationInv, FileInv
<1>2. recorded \subseteq Mig!All /\ effects \in [Mig!All -> Nat]
  BY DEF MigrationInv, Mig!TypeOK
<1>3. ASSUME NEW f \in Mig!All PROVE effects'[f] = IF f \in recorded' THEN 1 ELSE 0
  BY <1>1, <1>2 DEF MigrationInv, EffectInv, Record
<1>4. ASSUME NEW f \in Mig!All, f \in recorded', NEW e \in 1..f PROVE e \in recorded'
  <2>1. CASE f \in recorded
    BY <1>4, <2>1 DEF MigrationInv, EffectInv, Record
  <2>2. CASE f = file[p]
    <3>1. e = file[p] \/ e \in 1..(file[p] - 1)
      BY <1>1, <1>4, <2>2
    <3> QED
      BY <1>1, <3>1 DEF Record
  <2> QED
    BY <1>4, <2>1, <2>2 DEF Record
<1> QED
  BY <1>1, <1>2, <1>3, <1>4 DEF EffectInv, Record

LEMMA MigrationStep == MigrationInv /\ [Mig!Next]_(Mig!vars) => MigrationInv'
<1> SUFFICES ASSUME MigrationInv, [Mig!Next]_(Mig!vars) PROVE MigrationInv'
  OBVIOUS
<1> USE DEF MigrationInv
<1>a. \A p \in Programs : Files[p] \in Nat /\ file[p] \in Nat /\ file[p] >= 1
  BY MigrationsAssumption DEF Mig!TypeOK
<1>1. ASSUME NEW p \in Programs, Mig!Lock(p) \/ Mig!Unlock(p) PROVE MigrationInv'
  <2>1. Mig!TypeOK'
    BY <1>1 DEF Mig!Lock, Mig!Unlock, Mig!TypeOK
  <2>2. LockInv'
    BY <1>1, MigrationsAssumption DEF Mig!Lock, Mig!Unlock, LockInv, Mig!TypeOK
  <2>3. FileInv' /\ EffectInv'
    BY <1>1 DEF Mig!Lock, Mig!Unlock, FileInv, EffectInv, Mig!TypeOK
  <2> QED
    BY <2>1, <2>2, <2>3
<1>2. ASSUME NEW p \in Programs, Mig!Check(p) PROVE MigrationInv'
  <2>1. CASE file[p] > Files[p]
    BY <1>2, <2>1 DEF Mig!Check, Mig!TypeOK, LockInv, FileInv, EffectInv
  <2>2. CASE file[p] <= Files[p] /\ file[p] \in recorded
    <3>1. file' = [file EXCEPT ![p] = @ + 1] /\ UNCHANGED <<holder, step, recorded, effects, faults>>
      BY <1>a, <1>2, <2>2 DEF Mig!Check
    <3>2. Mig!TypeOK' /\ LockInv' /\ EffectInv'
      BY <1>a, <2>2, <3>1 DEF Mig!TypeOK, LockInv, EffectInv
    <3>3. FileInv'
      <4> SUFFICES ASSUME NEW q \in Programs
                   PROVE  /\ \A f \in 1..(file'[q] - 1) : f \in recorded'
                          /\ step'[q] = "apply" => file'[q] <= Files[q] /\ file'[q] \notin recorded'
        BY DEF FileInv
      <4>1. CASE q = p
        <5>1. file'[q] = file[p] + 1 /\ step'[q] = "check"
          BY <1>2, <3>1, <4>1 DEF Mig!TypeOK, Mig!Check
        <5>2. \A f \in 1..(file'[q] - 1) : f = file[p] \/ f \in 1..(file[p] - 1)
          BY <1>a, <5>1
        <5> QED
          BY <2>2, <3>1, <5>1, <5>2 DEF FileInv
      <4>2. CASE q # p
        BY <3>1, <4>2 DEF FileInv, Mig!TypeOK
      <4> QED
        BY <4>1, <4>2
    <3> QED
      BY <3>2, <3>3
  <2>3. CASE file[p] <= Files[p] /\ file[p] \notin recorded
    BY <1>a, <1>2, <2>3 DEF Mig!Check, Mig!TypeOK, LockInv, FileInv, EffectInv
  <2> QED
    BY <1>a, <2>1, <2>2, <2>3
<1>3. ASSUME NEW p \in Programs, Mig!Apply(p) PROVE MigrationInv'
  <2>1. /\ step[p] = "apply" /\ Record(p) /\ file' = [file EXCEPT ![p] = @ + 1]
        /\ step' = [step EXCEPT ![p] = "check"] /\ UNCHANGED <<holder, faults>>
    BY <1>3, AboutToApply DEF Mig!Apply, Record
  <2>2. EffectInv' /\ recorded' \subseteq Mig!All /\ effects' \in [Mig!All -> Nat]
    BY <2>1, RecordKeeps
  <2>3. Mig!TypeOK'
    BY <1>a, <2>1, <2>2, AboutToApply DEF Mig!TypeOK
  <2>4. LockInv'
    BY <2>1 DEF LockInv, Mig!TypeOK
  <2>5. FileInv'
    <3> SUFFICES ASSUME NEW q \in Programs
                 PROVE  /\ \A f \in 1..(file'[q] - 1) : f \in recorded'
                        /\ step'[q] # "apply"
      BY DEF FileInv
    <3>1. CASE q = p
      <4>1. file'[q] = file[p] + 1 /\ step'[q] = "check"
        BY <2>1, <3>1 DEF Mig!TypeOK
      <4>2. \A f \in 1..(file'[q] - 1) : f = file[p] \/ f \in 1..(file[p] - 1)
        BY <1>a, <4>1
      <4> QED
        BY <2>1, <4>1, <4>2 DEF FileInv, Record
    <3>2. CASE q # p
      BY <2>1, <3>2, AboutToApply DEF FileInv, Mig!TypeOK, Record
    <3> QED
      BY <3>1, <3>2
  <2> QED
    BY <2>2, <2>3, <2>4, <2>5
<1>4. ASSUME NEW p \in Programs, Mig!Fail(p) PROVE MigrationInv'
  <2>1. /\ UNCHANGED <<recorded, effects>> \/ (step[p] = "apply" /\ Record(p))
        /\ step' = [step EXCEPT ![p] = "failed"] /\ UNCHANGED file
        /\ holder' = IF holder = p THEN None ELSE holder
    BY <1>4 DEF Mig!Fail, Record
  <2>2. EffectInv' /\ recorded' \subseteq Mig!All /\ effects' \in [Mig!All -> Nat]
    BY <2>1, RecordKeeps DEF EffectInv, Mig!TypeOK
  <2>3. Mig!TypeOK'
    BY <2>1, <2>2 DEF Mig!TypeOK
  <2>4. LockInv'
    BY <2>1 DEF LockInv, Mig!TypeOK
  <2>5. FileInv'
    <3>1. CASE UNCHANGED <<recorded, effects>>
      BY <2>1, <3>1 DEF FileInv, Mig!TypeOK
    <3>2. CASE step[p] = "apply" /\ Record(p)
      BY <2>1, <3>2, AboutToApply DEF FileInv, Mig!TypeOK, Record
    <3> QED
      BY <2>1, <3>1, <3>2
  <2> QED
    BY <2>2, <2>3, <2>4, <2>5
<1>5. ASSUME NEW p \in Programs, Mig!Retry(p) PROVE MigrationInv'
  <2>1. Mig!TypeOK'
    BY <1>a, <1>5 DEF Mig!Retry, Mig!TypeOK
  <2>2. LockInv' /\ FileInv' /\ EffectInv'
    BY <1>5 DEF Mig!Retry, Mig!TypeOK, LockInv, FileInv, EffectInv
  <2> QED
    BY <2>1, <2>2
<1>6. CASE UNCHANGED Mig!vars
  BY <1>6 DEF Mig!vars, Mig!TypeOK, LockInv, FileInv, EffectInv
<1> QED
  BY <1>1, <1>2, <1>3, <1>4, <1>5, <1>6 DEF Mig!Next, Mig!Work

LEMMA MigrationInit == Mig!Init => MigrationInv
<1> SUFFICES ASSUME Mig!Init PROVE MigrationInv
  OBVIOUS
<1>1. \A p \in Programs : Files[p] \in Nat /\ file[p] = 1
  BY MigrationsAssumption DEF Mig!Init
<1>2. 1..(1 - 1) = {}
  OBVIOUS
<1>3. Mig!TypeOK
  BY <1>1 DEF Mig!Init, Mig!TypeOK
<1> QED
  BY <1>1, <1>2, <1>3 DEF Mig!Init, MigrationInv, LockInv, FileInv, EffectInv

LEMMA RunsMigrations ==
  RecordsSpec => \/ []~(mode = "migrations")
                 \/ [](mode = "migrations") /\ Mig!Init /\ [][Mig!Next]_(Mig!vars)
<1>1. RecordsInit /\ mode = "migrations" => Mig!Init
  BY DEF RecordsInit
<1>2. mode = "migrations" /\ [RecordsNext]_RecordVars =>
        [Mig!Next]_(Mig!vars) /\ (mode = "migrations")'
  BY DEF RecordsNext, Others, RecordVars, migrating, Mig!vars
<1>3. ~(mode = "migrations") /\ [RecordsNext]_RecordVars => (~(mode = "migrations"))'
  BY SameMode
<1> QED
  BY <1>1, <1>2, <1>3, PTL DEF RecordsSpec

\* Each file takes effect once and in order, schema_migrations says which, and no
\* program finds applied a file it saw missing.
THEOREM MigrationsAreRight == RecordsSpec => []MigrationsSafe
<1>1. ~(mode = "migrations") => MigrationsSafe
  BY DEF MigrationsSafe
<1>2. MigrationInv => MigrationsSafe
  BY DEF MigrationInv, FileInv, EffectInv, Mig!OnceAndInOrder, Mig!NoFileAppliedTwice, MigrationsSafe
<1>3. Mig!Init /\ [][Mig!Next]_(Mig!vars) => []MigrationInv
  BY MigrationInit, MigrationStep, PTL
<1> QED
  BY <1>1, <1>2, <1>3, RunsMigrations, PTL

-----------------------------------------------------------------------------
(***************************************************************************)
(* The worker that indexes, whose invariant is that of IndexingProof.      *)
(***************************************************************************)

LEMMA RunsIndexing ==
  RecordsSpec => \/ []~(mode = "indexing")
                 \/ [](mode = "indexing") /\ Init /\ [][Next]_vars
<1>1. RecordsInit /\ mode = "indexing" => Init
  BY DEF RecordsInit
<1>2. mode = "indexing" /\ [RecordsNext]_RecordVars => [Next]_vars /\ (mode = "indexing")'
  BY DEF RecordsNext, Others, RecordVars, indexing, vars
<1>3. ~(mode = "indexing") /\ [RecordsNext]_RecordVars => (~(mode = "indexing"))'
  BY SameMode
<1> QED
  BY <1>1, <1>2, <1>3, PTL DEF RecordsSpec

\* An announced or acknowledged edition is committed, one transaction at a time
\* inserts it, and with no more handlers than connections the pool never stalls.
THEOREM IndexingIsRight ==
  Workers # {} /\ Cardinality(Workers) <= PoolSize => (RecordsSpec => []IndexSafe)
<1> SUFFICES ASSUME Workers # {}, Cardinality(Workers) <= PoolSize
             PROVE  RecordsSpec => []IndexSafe
  OBVIOUS
<1>1. ~(mode = "indexing") => IndexSafe
  BY DEF IndexSafe
<1>2. IndexInv /\ NotAllLate => IndexSafe
  BY PoolHolds DEF IndexInv, IndexSafe
<1>3. Init => NotAllLate
  BY SomeoneInTimeInit
<1>4. Init /\ [][Next]_vars => [](IndexInv /\ NotAllLate)
  BY <1>3, IndexInvInit, IndexInvStep, SomeoneInTime, PTL
<1> QED
  BY <1>1, <1>2, <1>4, RunsIndexing, PTL

-----------------------------------------------------------------------------
(***************************************************************************)
(* The dump.  A table that the run has written is the one of its snapshot, *)
(* although its rows come from the previous dump: that one is, row by row,  *)
(* what the reader makes of an earlier snapshot.                           *)
(***************************************************************************)

Written(t) ==
  \/ step \in {"manifest", "push"}
  \/ t # "act_entities" /\ step = "act_entities"
  \/ t = "gazettes" /\ step = "acts"

AreFiles(f) == f = [t \in Dum!Tables |-> f[t]]

DumpTypes ==
  /\ Dum!TypeOK /\ faults \in Nat
  /\ changes \in Nat /\ changes <= MaxChanges /\ schema <= changes + 1
  /\ DOMAIN published.files = Dum!Tables
  /\ AreFiles(out) /\ AreFiles(listed) /\ AreFiles(published.files)

WrittenInv ==
  \A t \in Dum!Tables : Written(t) =>
    listed[t] = Dum!File(schema, snap, t) /\ out[t] = listed[t]

\* The rows that the run reuses are those of the snapshot that is published.
ReusedInv ==
  step \in {"gazettes", "acts", "act_entities"} /\ prev # None =>
    /\ target = "branch"
    /\ \A t \in {"acts", "act_entities"} :
         prev[t].rows = [g \in Editions |-> AsRead(Dum!RowsOf(taken[g], t))]

DumpInv == DumpTypes /\ WrittenInv /\ ReusedInv /\ Dum!PublishedIsSnapshot /\ Dum!ManifestIsOfTheFiles

LEMMA DumpInit == Dum!Init => DumpInv
  BY DumpAssumption
  DEF Dum!Init, DumpInv, DumpTypes, AreFiles, Dum!TypeOK, Dum!NoFiles, WrittenInv, Written, ReusedInv,
      Dum!PublishedIsSnapshot, Dum!ManifestIsOfTheFiles, Dum!ManifestMatchesFiles

\* A table is that of the snapshot, read whole or merged.
LEMMA TableOfSnapshot ==
  ASSUME DumpInv, NEW t \in Dum!Tables, step = t
  PROVE  Dum!WriteTable(t) = Dum!File(schema, snap, t)
<1>1. CASE prev = None \/ t = "gazettes"
  BY <1>1 DEF Dum!WriteTable
<1>2. CASE prev # None /\ t # "gazettes"
  <2>1. Dum!WriteTable(t) = Dum!Merge(t)
    BY <1>2 DEF Dum!WriteTable
  <2>2. t \in {"acts", "act_entities"}
    BY <1>2 DEF Dum!Tables
  <2>3. snap \in [Editions -> Dum!Contents \union {None}]
    BY <2>2 DEF DumpInv, DumpTypes, Dum!TypeOK
  <2>4. ASSUME NEW g \in Editions, snap[g] # None, g \notin Dum!StaleGazettes
        PROVE  prev[t].rows[g] = snap[g][t]
    <3>1. /\ prev["acts"].rows[g] = snap[g].acts
          /\ prev["act_entities"].rows[g] = snap[g].act_entities
      BY <2>4 DEF Dum!StaleGazettes, Dum!FingerprintOf
    <3> QED
      BY <2>2, <3>1
  <2>5. \A g \in Editions :
          (IF snap[g] = None THEN Empty
           ELSE IF g \in Dum!StaleGazettes THEN snap[g][t] ELSE prev[t].rows[g])
            = Dum!RowsOf(snap[g], t)
    BY <2>2, <2>4 DEF Dum!RowsOf
  <2> QED
    BY <2>1, <2>5 DEF Dum!Merge, Dum!File
<1> QED
  BY <1>1, <1>2

LEMMA PublishTableStep ==
  ASSUME DumpInv, NEW t \in Dum!Tables, Dum!PublishTable(t)
  PROVE  DumpInv'
<1>1. /\ step = t /\ step' = Dum!After[t]
      /\ listed' = [listed EXCEPT ![t] = Dum!WriteTable(t)]
      /\ out' = [out EXCEPT ![t] = Dum!WriteTable(t)]
      /\ published' = IF target = "bucket" THEN [files |-> out', manifest |-> published.manifest] ELSE published
      /\ UNCHANGED <<target, base, schema, snap, prev, taken, changes, faults>>
  BY DEF Dum!PublishTable, Dum!Write
<1>2. DOMAIN out = Dum!Tables /\ DOMAIN listed = Dum!Tables
  BY DEF DumpInv, DumpTypes, Dum!TypeOK
<1>3. /\ listed'[t] = Dum!File(schema, snap, t) /\ out'[t] = listed'[t]
      /\ \A u \in Dum!Tables : u # t => listed'[u] = listed[u] /\ out'[u] = out[u]
      /\ DOMAIN out' = Dum!Tables /\ DOMAIN listed' = Dum!Tables
      /\ AreFiles(out') /\ AreFiles(listed')
  BY <1>1, <1>2, TableOfSnapshot DEF AreFiles
<1>4. /\ t = "gazettes" => step' = "acts"
      /\ t = "acts" => step' = "act_entities"
      /\ t = "act_entities" => step' = "manifest"
  BY <1>1 DEF Dum!After
<1>5. DumpTypes'
  BY <1>1, <1>3, <1>4 DEF DumpInv, DumpTypes, Dum!TypeOK, Dum!Tables
<1>6. WrittenInv'
  <2> SUFFICES ASSUME NEW u \in Dum!Tables, Written(u)'
               PROVE  listed'[u] = Dum!File(schema', snap', u) /\ out'[u] = listed'[u]
    BY DEF WrittenInv, Dum!File
  <2>1. CASE u = t
    BY <1>1, <1>3, <2>1
  <2>2. CASE u # t
    <3>1. Written(u)
      BY <1>1, <1>4, <2>2 DEF Written, Dum!Tables
    <3> QED
      BY <1>1, <1>3, <2>2, <3>1 DEF DumpInv, WrittenInv
  <2> QED
    BY <2>1, <2>2
<1>7. ReusedInv'
  BY <1>1, <1>4 DEF DumpInv, ReusedInv, Dum!Tables
<1>8. Dum!PublishedIsSnapshot' /\ Dum!ManifestIsOfTheFiles'
  <2>1. Dum!PublishedIsSnapshot'
    BY <1>1 DEF DumpInv, Dum!PublishedIsSnapshot
  <2>2. step' \in {"acts", "act_entities", "manifest"}
    BY <1>4 DEF Dum!Tables
  <2>3. target = "branch" => published' = published /\ target' = "branch"
    BY <1>1
  <2> QED
    BY <1>1, <2>1, <2>2, <2>3 DEF DumpInv, Dum!ManifestIsOfTheFiles, Dum!ManifestMatchesFiles
<1> QED
  BY <1>5, <1>6, <1>7, <1>8 DEF DumpInv

\* What the manifest names is what the run wrote.
LEMMA AllWritten ==
  ASSUME DumpInv, step \in {"manifest", "push"}
  PROVE  /\ \A t \in Dum!Tables : listed[t] = Dum!File(schema, snap, t)
         /\ out = listed
         /\ schema \in 1..schema
<1>1. /\ out = [t \in Dum!Tables |-> out[t]] /\ listed = [t \in Dum!Tables |-> listed[t]]
      /\ schema \in 1..schema
  BY DumpAssumption DEF DumpInv, DumpTypes, Dum!TypeOK, AreFiles
<1>2. \A t \in Dum!Tables : listed[t] = Dum!File(schema, snap, t) /\ out[t] = listed[t]
  BY DEF DumpInv, WrittenInv, Written
<1> QED
  BY <1>1, <1>2

LEMMA PublishStep ==
  ASSUME DumpInv, Dum!PutManifest \/ Dum!Push
  PROVE  DumpInv'
<1>1. /\ step \in {"manifest", "push"} /\ step' \in {"idle", "push"}
      /\ UNCHANGED <<target, base, schema, snap, prev, out, listed, changes, faults>>
      /\ \/ published' = [files |-> out, manifest |-> listed] /\ taken' = snap
         \/ published' = published /\ taken' = taken /\ target = "branch"
  BY DEF Dum!PutManifest, Dum!Push, Dum!Write, DumpInv, DumpTypes, Dum!TypeOK
<1>2. DumpTypes'
  BY <1>1 DEF DumpInv, DumpTypes, Dum!TypeOK
<1>3. WrittenInv'
  BY <1>1, AllWritten DEF WrittenInv, Dum!File
<1>4. ReusedInv'
  BY <1>1 DEF ReusedInv
<1>5. Dum!PublishedIsSnapshot' /\ Dum!ManifestIsOfTheFiles'
  <2>1. CASE published' = published /\ taken' = taken /\ target = "branch"
    BY <1>1, <2>1 DEF DumpInv, Dum!PublishedIsSnapshot, Dum!ManifestIsOfTheFiles, Dum!ManifestMatchesFiles
  <2>2. CASE published' = [files |-> out, manifest |-> listed] /\ taken' = snap
    BY <1>1, <2>2, AllWritten
    DEF Dum!PublishedIsSnapshot, Dum!ManifestIsOfTheFiles, Dum!ManifestMatchesFiles
  <2> QED
    BY <1>1, <2>1, <2>2
<1> QED
  BY <1>2, <1>3, <1>4, <1>5 DEF DumpInv

LEMMA ReuseStep == ASSUME DumpInv, Dum!Reuse PROVE DumpInv'
<1>1. /\ step = "reuse" /\ step' = "gazettes"
      /\ UNCHANGED <<target, base, schema, snap, out, listed, published, taken, changes, faults>>
  BY DEF Dum!Reuse
<1>2. DumpTypes'
  BY <1>1 DEF DumpInv, DumpTypes, Dum!TypeOK, Dum!Tables
<1>3. WrittenInv' /\ Dum!PublishedIsSnapshot' /\ Dum!ManifestIsOfTheFiles'
  BY <1>1 DEF DumpInv, WrittenInv, Written, Dum!PublishedIsSnapshot, Dum!ManifestIsOfTheFiles,
              Dum!ManifestMatchesFiles
<1>4. ReusedInv'
  <2>1. CASE Dum!HasPrevious
    <3>1. target = "branch" /\ published.manifest # None
      BY <2>1 DEF Dum!HasPrevious
    <3>2. PICK header \in 1..schema : \A t \in Dum!Tables :
            published.files[t] = Dum!File(header, taken, t)
      BY <3>1 DEF DumpInv, Dum!PublishedIsSnapshot, Dum!ManifestIsOfTheFiles, Dum!ManifestMatchesFiles
    <3>3. prev' = [t \in {"acts", "act_entities"} |-> Dum!PreviousTable(t)]
      BY <2>1 DEF Dum!Reuse
    <3>4. ASSUME NEW t \in {"acts", "act_entities"}
          PROVE  prev'[t].rows = [g \in Editions |-> AsRead(Dum!RowsOf(taken[g], t))]
      <4>1. published.files[t] = Dum!File(header, taken, t)
        BY <3>2 DEF Dum!Tables
      <4>2. published.files[t].rows = [g \in Editions |-> Dum!RowsOf(taken[g], t)]
        BY <4>1 DEF Dum!File
      <4>3. Dum!PreviousTable(t).rows = [g \in Editions |-> AsRead(published.files[t].rows[g])]
        BY <4>1 DEF Dum!PreviousTable, Dum!File
      <4> QED
        BY <3>3, <4>2, <4>3
    <3> QED
      BY <1>1, <3>1, <3>4 DEF ReusedInv
  <2>2. CASE ~Dum!HasPrevious
    BY <2>2 DEF Dum!Reuse, ReusedInv
  <2> QED
    BY <2>1, <2>2
<1> QED
  BY <1>2, <1>3, <1>4 DEF DumpInv

LEMMA DumpStep == DumpInv /\ [Dum!Next]_(Dum!vars) => DumpInv'
<1> SUFFICES ASSUME DumpInv, [Dum!Next]_(Dum!vars) PROVE DumpInv'
  OBVIOUS
<1>1. CASE UNCHANGED Dum!vars
  BY <1>1 DEF Dum!vars, Dum!run, DumpInv, DumpTypes, Dum!TypeOK, AreFiles, WrittenInv, Written, ReusedInv,
              Dum!PublishedIsSnapshot, Dum!ManifestIsOfTheFiles, Dum!ManifestMatchesFiles
<1>2. ASSUME NEW g \in Editions, Dum!Change(g) PROVE DumpInv'
  <2>1. UNCHANGED <<target, schema, snap, step, prev, out, listed, published, taken, faults>>
    BY <1>2 DEF Dum!Change, Dum!run
  <2>2. DumpTypes'
    BY <1>2, <2>1, DumpAssumption DEF Dum!Change, DumpInv, DumpTypes, Dum!TypeOK
  <2>3. WrittenInv' /\ ReusedInv' /\ Dum!PublishedIsSnapshot' /\ Dum!ManifestIsOfTheFiles'
    BY <2>1 DEF DumpInv, WrittenInv, Written, ReusedInv,
                Dum!PublishedIsSnapshot, Dum!ManifestIsOfTheFiles, Dum!ManifestMatchesFiles
  <2> QED
    BY <2>2, <2>3 DEF DumpInv
<1>3. CASE Dum!Deploy
  <2>1. /\ step = "idle" /\ schema' = schema + 1 /\ changes' = changes + 1 /\ changes < MaxChanges
        /\ UNCHANGED <<target, base, snap, step, prev, out, listed, published, taken, faults>>
    BY <1>3 DEF Dum!Deploy, Dum!run
  <2>2. DumpTypes'
    BY <2>1, DumpAssumption DEF DumpInv, DumpTypes, Dum!TypeOK
  <2>3. WrittenInv' /\ ReusedInv' /\ Dum!ManifestIsOfTheFiles'
    BY <2>1 DEF DumpInv, WrittenInv, Written, ReusedInv,
                Dum!ManifestIsOfTheFiles, Dum!ManifestMatchesFiles
  <2>4. Dum!PublishedIsSnapshot'
    <3>1. \A header \in 1..schema : header \in 1..schema'
      BY <2>1 DEF DumpInv, DumpTypes, Dum!TypeOK
    <3> QED
      BY <2>1, <3>1 DEF DumpInv, Dum!PublishedIsSnapshot
  <2> QED
    BY <2>2, <2>3, <2>4 DEF DumpInv
<1>4. CASE Dum!Snapshot
  <2>1. /\ step = "idle" /\ step' = "reuse" /\ snap' = base /\ listed' = Dum!NoFiles
        /\ out' \in {published.files, Dum!NoFiles}
        /\ UNCHANGED <<target, base, schema, prev, published, taken, changes, faults>>
    BY <1>4 DEF Dum!Snapshot
  <2>2. DumpTypes'
    <3>1. AreFiles(Dum!NoFiles) /\ DOMAIN Dum!NoFiles = Dum!Tables
      BY DEF AreFiles, Dum!NoFiles
    <3> QED
      BY <2>1, <3>1 DEF DumpInv, DumpTypes, Dum!TypeOK
  <2>3. WrittenInv' /\ ReusedInv' /\ Dum!PublishedIsSnapshot' /\ Dum!ManifestIsOfTheFiles'
    BY <2>1 DEF DumpInv, WrittenInv, Written, ReusedInv, Dum!PublishedIsSnapshot,
                Dum!ManifestIsOfTheFiles, Dum!ManifestMatchesFiles
  <2> QED
    BY <2>2, <2>3 DEF DumpInv
<1>5. CASE Dum!Reuse
  BY <1>5, ReuseStep
<1>6. CASE \E t \in Dum!Tables : Dum!PublishTable(t)
  BY <1>6, PublishTableStep
<1>7. CASE Dum!PutManifest \/ Dum!Push
  BY <1>7, PublishStep
<1>8. CASE Dum!Fail
  <2>1. /\ step' = "idle"
        /\ out' = [out EXCEPT ![step] = Cut] \/ out' = out
        /\ UNCHANGED <<target, base, schema, snap, prev, listed, published, taken, changes>>
    BY <1>8 DEF Dum!Fail
  <2>2. DumpTypes'
    BY <1>8, <2>1 DEF Dum!Fail, DumpInv, DumpTypes, Dum!TypeOK, AreFiles
  <2>3. faults' # 0
    BY <1>8 DEF Dum!Fail, DumpInv, DumpTypes
  <2>4. WrittenInv' /\ ReusedInv' /\ Dum!PublishedIsSnapshot'
    BY <2>1 DEF DumpInv, WrittenInv, Written, ReusedInv, Dum!PublishedIsSnapshot
  <2>5. Dum!ManifestIsOfTheFiles'
    BY <2>1, <2>3 DEF DumpInv, Dum!ManifestIsOfTheFiles, Dum!ManifestMatchesFiles
  <2> QED
    BY <2>2, <2>4, <2>5 DEF DumpInv
<1> QED
  BY <1>1, <1>2, <1>3, <1>4, <1>5, <1>6, <1>7, <1>8 DEF Dum!Next, Dum!Work

\* An edition that is read again has changed, or the reader does not return it.
LEMMA ReadAgain == DumpInv => Dum!ReadsOnlyChanges
<1> SUFFICES ASSUME DumpInv, prev # None, step \in {"acts", "act_entities"},
                    NEW g \in Dum!StaleGazettes, taken[g] = snap[g],
                    \A t \in {"acts", "act_entities"} : AsRead(snap[g][t]) = snap[g][t]
             PROVE  FALSE
  BY DEF Dum!ReadsOnlyChanges
<1>1. g \in Editions /\ snap[g] # None
  BY DEF Dum!StaleGazettes
<1>2. /\ prev["acts"].rows[g] = AsRead(snap[g].acts)
      /\ prev["act_entities"].rows[g] = AsRead(snap[g].act_entities)
  BY <1>1 DEF DumpInv, ReusedInv, Dum!RowsOf
<1> QED
  BY <1>1, <1>2 DEF Dum!StaleGazettes, Dum!FingerprintOf

LEMMA RunsDump ==
  RecordsSpec => \/ []~(mode = "dump")
                 \/ [](mode = "dump") /\ Dum!Init /\ [][Dum!Next]_(Dum!vars)
<1>1. RecordsInit /\ mode = "dump" => Dum!Init
  BY DEF RecordsInit
<1>2. mode = "dump" /\ [RecordsNext]_RecordVars => [Dum!Next]_(Dum!vars) /\ (mode = "dump")'
  BY DEF RecordsNext, Others, RecordVars, dumping, Dum!vars, Dum!run
<1>3. ~(mode = "dump") /\ [RecordsNext]_RecordVars => (~(mode = "dump"))'
  BY SameMode
<1> QED
  BY <1>1, <1>2, <1>3, PTL DEF RecordsSpec

\* What is published says what the base said at one instant, its manifest describes
\* the files of the branch, those of the bucket between dumps until one fails, and an
\* incremental dump reads again what changed only.
THEOREM DumpIsASnapshot == RecordsSpec => []DumpSafe
<1>1. ~(mode = "dump") => DumpSafe
  BY DEF DumpSafe
<1>2. DumpInv => DumpSafe
  BY ReadAgain DEF DumpInv, DumpTypes, DumpSafe
<1>3. Dum!Init /\ [][Dum!Next]_(Dum!vars) => []DumpInv
  BY DumpInit, DumpStep, PTL
<1> QED
  BY <1>1, <1>2, <1>3, RunsDump, PTL

-----------------------------------------------------------------------------
(***************************************************************************)
(* The links.  OneId and LinkedRows relate the committed rows; Deleted and *)
(* Inserts say, statement by statement, what a transaction holds of its own. *)
(***************************************************************************)

ActRows == [id : Nat, gazette : Lin!Procs \union {Edition}, cites : SUBSET Keys]

LinkRows == [act : Nat, key : Keys]

LinkTypes ==
  /\ acts \in SUBSET ActRows /\ links \in SUBSET LinkRows /\ entities \in SUBSET Keys
  /\ step \in [Lin!Procs -> {"idle", "unlink", "unlinked", "delete", "insert", "entities", "commit", "done"}]
  /\ target \in [Lin!Procs -> SUBSET (ActRows \union LinkRows)]
  /\ gone \in [Lin!Procs -> SUBSET (ActRows \union LinkRows)]
  /\ own \in [Lin!Procs -> SUBSET ActRows]
  /\ keys \in [Lin!Procs -> SUBSET Keys]
  /\ linked \in [Lin!Procs -> SUBSET LinkRows]
  /\ nextId \in Nat

\* What the reindexation is to delete.
OldActs == {b \in acts : b.gazette = Edition}

OldLinks == {l \in links : \E b \in OldActs : b.id = l.act}

\* The reindexation deletes what the edition had, a worker nothing.
Deleted(p) ==
  /\ p \in Indexers => gone[p] = {} /\ step[p] \notin {"unlink", "unlinked", "delete"}
  /\ step[p] \notin {"unlink", "delete"} => target[p] = {}
  /\ step[p] \in {"idle", "unlink", "done"} => gone[p] = {}
  /\ step[p] = "unlink" => target[p] = OldLinks
  /\ step[p] \in {"unlinked", "delete"} => gone[p] = OldLinks
  /\ step[p] = "delete" => target[p] = OldActs
  /\ p \in Reindexers /\ step[p] \in {"insert", "entities", "commit"} => gone[p] = OldLinks \union OldActs

\* The act comes before its keys, the keys by order before their links.
Inserts(p) ==
  /\ step[p] \notin {"entities", "commit"} => own[p] = {} /\ keys[p] = {}
  /\ step[p] # "commit" => linked[p] = {}
  /\ \A b, c \in own[p] : b = c
  /\ \A b \in own[p] : b.id < nextId /\ b.gazette = Lin!GazetteOf(p)
  /\ step[p] = "entities" => \A k \in keys[p] : \A m \in Lin!Missing(p) : k < m
  /\ \A l \in linked[p] : \E b \in own[p] : l.act = b.id /\ l.key \in b.cites
  /\ step[p] = "commit" =>
       \A b \in own[p] : \A k \in b.cites :
         [act |-> b.id, key |-> k] \in linked[p] /\ k \in entities \union keys[p]

\* An id is of one act.
OneId ==
  /\ \A b \in acts : b.id < nextId
  /\ \A b, c \in acts : b.id = c.id => b = c
  /\ \A p \in Lin!Procs : \A b \in own[p] :
       /\ \A c \in acts : b.id # c.id
       /\ \A q \in Lin!Procs \ {p} : \A c \in own[q] : b.id # c.id

\* The committed links are those of what the committed acts cite.
LinkedRows ==
  /\ \A l \in links : l.key \in entities /\ \E b \in acts : b.id = l.act /\ l.key \in b.cites
  /\ \A b \in acts : \A k \in b.cites : [act |-> b.id, key |-> k] \in links

LinkInv ==
  /\ LinkTypes /\ OneId /\ LinkedRows
  /\ \A p \in Lin!Procs : Deleted(p) /\ Inserts(p)

LEMMA RowsDiffer == ActRows \intersect LinkRows = {}
<1> SUFFICES ASSUME NEW r \in ActRows, r \in LinkRows PROVE FALSE
  OBVIOUS
<1>1. DOMAIN r = {"id", "gazette", "cites"}
  BY DEF ActRows
<1>2. DOMAIN r = {"act", "key"}
  BY DEF LinkRows
<1> QED
  BY <1>1, <1>2

LEMMA ActFields == \A b \in ActRows : b.id \in Nat /\ b.cites \subseteq Keys
  BY DEF ActRows

LEMMA LinkFields == \A l \in LinkRows : l.act \in Nat /\ l.key \in Keys
  BY DEF LinkRows

LEMMA NewAct ==
  ASSUME NEW p \in Lin!Procs, NEW cites \in SUBSET Keys, NEW n \in Nat
  PROVE  [id |-> n, gazette |-> Lin!GazetteOf(p), cites |-> cites] \in ActRows
<1>1. Lin!GazetteOf(p) \in Lin!Procs \union {Edition}
  BY DEF Lin!GazetteOf
<1> QED
  BY <1>1, Zenon DEF ActRows

LEMMA NewLink == \A n \in Nat : \A k \in Keys : [act |-> n, key |-> k] \in LinkRows
  BY Zenon DEF LinkRows

LEMMA OneProcess ==
  /\ \A p \in Lin!Procs : (p \in Reindexers <=> p \notin Indexers)
  /\ \A p, q \in Lin!Procs : Lin!GazetteOf(p) = Lin!GazetteOf(q) => p = q
  /\ \A p \in Indexers : Lin!GazetteOf(p) # Edition
  BY LinksAssumption DEF Lin!Procs, Lin!GazetteOf

LEMMA LeastKey ==
  ASSUME NEW S \in SUBSET Nat, S # {}
  PROVE  Lin!Min(S) \in S /\ \A m \in S : Lin!Min(S) <= m
<1>1. PICK n \in S : \A m \in S : ~(<<m, n>> \in OpToRel(<, Nat))
  BY WFMin, NatLessThanWellFounded
<1>2. \A m \in S : ~(m < n)
  BY <1>1 DEF OpToRel
<1>3. n \in S /\ \A m \in S : n <= m
  BY <1>2
<1> QED
  BY <1>3 DEF Lin!Min

\* A transaction sees the others only in what they commit.
LEMMA LinksOfOthers ==
  ASSUME LinkInv, NEW q \in Lin!Procs,
         step'[q] = step[q], target'[q] = target[q], gone'[q] = gone[q],
         own'[q] = own[q], keys'[q] = keys[q], linked'[q] = linked[q],
         q \in Reindexers => OldActs' = OldActs /\ OldLinks' = OldLinks,
         entities \subseteq entities', nextId' \in Nat, nextId <= nextId'
  PROVE  Deleted(q)' /\ Inserts(q)'
<1>1. /\ Deleted(q) /\ Inserts(q) /\ own[q] \in SUBSET ActRows /\ nextId \in Nat
      /\ q \in Reindexers <=> q \notin Indexers
  BY OneProcess DEF LinkInv, LinkTypes
<1>2. Deleted(q)'
  BY <1>1 DEF Deleted
<1>3. Lin!Missing(q)' \subseteq Lin!Missing(q)
  BY DEF Lin!Missing, Lin!Cited
<1>4. /\ \A b, c \in own'[q] : b = c
      /\ \A b \in own'[q] : b.id < nextId' /\ b.gazette = Lin!GazetteOf(q)
  BY <1>1, ActFields DEF Inserts
<1>5. step'[q] = "entities" => \A k \in keys'[q] : \A m \in Lin!Missing(q)' : k < m
  BY <1>1, <1>3 DEF Inserts
<1>6. /\ step'[q] \notin {"entities", "commit"} => own'[q] = {} /\ keys'[q] = {}
      /\ step'[q] # "commit" => linked'[q] = {}
      /\ \A l \in linked'[q] : \E b \in own'[q] : l.act = b.id /\ l.key \in b.cites
  BY <1>1 DEF Inserts
<1>7. step'[q] = "commit" =>
        \A b \in own'[q] : \A k \in b.cites :
          [act |-> b.id, key |-> k] \in linked'[q] /\ k \in entities' \union keys'[q]
  BY <1>1 DEF Inserts
<1>8. Lin!GazetteOf(q)' = Lin!GazetteOf(q)
  BY DEF Lin!GazetteOf
<1>9. Inserts(q)'
  BY <1>4, <1>5, <1>6, <1>7, <1>8 DEF Inserts
<1> QED
  BY <1>2, <1>9

Same(q) ==
  /\ step'[q] = step[q] /\ target'[q] = target[q] /\ gone'[q] = gone[q]
  /\ own'[q] = own[q] /\ keys'[q] = keys[q] /\ linked'[q] = linked[q]

\* What a transaction does before it commits is its own.
LEMMA BeforeCommit ==
  ASSUME LinkInv, NEW p \in Lin!Procs, UNCHANGED <<acts, links, entities>>,
         LinkTypes', nextId <= nextId', \A q \in Lin!Procs \ {p} : Same(q),
         Deleted(p)' /\ Inserts(p)',
         \A b \in own'[p] : b \in own[p] \/ nextId <= b.id
  PROVE  LinkInv'
<1>1. nextId \in Nat /\ nextId' \in Nat
  BY DEF LinkInv, LinkTypes
<1>2. ASSUME NEW q \in Lin!Procs \ {p} PROVE Deleted(q)' /\ Inserts(q)'
  <2>1. OldActs' = OldActs /\ OldLinks' = OldLinks
    BY DEF OldActs, OldLinks
  <2> QED
    BY <1>1, <1>2, <2>1, LinksOfOthers DEF Same
<1>3. LinkedRows'
  BY DEF LinkInv, LinkedRows
<1>4. \A b \in own'[p] : b \in own[p] \/ (b.id >= nextId /\ b.id \in Nat)
  BY ActFields DEF LinkTypes
<1>5. /\ \A b \in acts : b.id < nextId /\ b.id \in Nat
      /\ \A b, c \in acts : b.id = c.id => b = c
      /\ \A q \in Lin!Procs : \A b \in own[q] :
           /\ b.id < nextId /\ b.id \in Nat
           /\ \A c \in acts : b.id # c.id
           /\ \A r \in Lin!Procs \ {q} : \A c \in own[r] : b.id # c.id
  BY ActFields DEF LinkInv, LinkTypes, OneId, Inserts
<1>6. \A b \in acts' : b.id < nextId'
  BY <1>1, <1>5
<1>7. ASSUME NEW q \in Lin!Procs, NEW b \in own'[q]
      PROVE  /\ \A c \in acts' : b.id # c.id
             /\ \A r \in Lin!Procs \ {q} : \A c \in own'[r] : b.id # c.id
  <2>1. CASE q = p
    BY <1>1, <1>4, <1>5, <2>1 DEF Same
  <2>2. CASE q # p
    BY <1>1, <1>4, <1>5, <2>2 DEF Same
  <2> QED
    BY <2>1, <2>2
<1>8. OneId'
  BY <1>5, <1>6, <1>7 DEF OneId
<1> QED
  BY <1>2, <1>3, <1>8 DEF LinkInv

LEMMA StartDeletes ==
  ASSUME LinkInv, NEW p \in Lin!Procs,
         Lin!StartUnlink(p) \/ Lin!Unlink(p) \/ Lin!StartDelete(p) \/ Lin!Delete(p)
  PROVE  LinkInv'
<1> USE DEF LinkInv, LinkTypes
<1>1. /\ Deleted(p) /\ Inserts(p) /\ p \in Reindexers /\ p \notin Indexers
  BY OneProcess DEF Deleted, Lin!StartUnlink, Lin!Unlink, Lin!StartDelete, Lin!Delete
<1>2. /\ UNCHANGED <<acts, links, entities, own, keys, linked, nextId>>
      /\ own[p] = {} /\ keys[p] = {} /\ linked[p] = {}
  BY <1>1 DEF Inserts, Lin!StartUnlink, Lin!Unlink, Lin!StartDelete, Lin!Delete, Lin!Finds, Lin!Deletes,
       Lin!base
<1>3. OldActs \subseteq ActRows /\ OldLinks \subseteq LinkRows /\ OldLinks \subseteq links
      /\ OldActs \subseteq acts /\ OldActs' = OldActs /\ OldLinks' = OldLinks
  BY <1>2 DEF OldActs, OldLinks
<1>4. CASE Lin!StartUnlink(p)
  <2>1. /\ step[p] = "idle" /\ step' = [step EXCEPT ![p] = "unlink"] /\ UNCHANGED gone
        /\ target' = [target EXCEPT ![p] = OldLinks]
    BY <1>4 DEF Lin!StartUnlink, Lin!Finds, Lin!Go, Lin!LinksOf, Lin!ActsOf, OldLinks, OldActs
  <2>2. Deleted(p)' /\ Inserts(p)'
    BY <1>1, <1>2, <1>3, <2>1 DEF Deleted, Inserts
  <2>3. LinkTypes' /\ \A q \in Lin!Procs \ {p} : Same(q)
    BY <1>2, <1>3, <2>1 DEF Same
  <2> QED
    BY <1>2, <2>2, <2>3, BeforeCommit
<1>5. CASE Lin!Unlink(p)
  <2>1. /\ step[p] = "unlink" /\ step' = [step EXCEPT ![p] = "unlinked"]
        /\ gone' = [gone EXCEPT ![p] = @ \union (target[p] \intersect links)]
        /\ target' = [target EXCEPT ![p] = {}]
    BY <1>5 DEF Lin!Unlink, Lin!Deletes, Lin!Go
  <2>2. gone[p] = {} /\ target[p] = OldLinks /\ gone'[p] = OldLinks
    BY <1>1, <1>3, <2>1 DEF Deleted
  <2>3. Deleted(p)' /\ Inserts(p)'
    BY <1>1, <1>2, <1>3, <2>1, <2>2 DEF Deleted, Inserts
  <2>4. LinkTypes' /\ \A q \in Lin!Procs \ {p} : Same(q)
    BY <1>2, <1>3, <2>1 DEF Same
  <2> QED
    BY <1>2, <2>3, <2>4, BeforeCommit
<1>6. CASE Lin!StartDelete(p)
  <2>1. /\ step[p] = "unlinked" /\ step' = [step EXCEPT ![p] = "delete"] /\ UNCHANGED gone
        /\ target' = [target EXCEPT ![p] = OldActs \ gone[p]]
    BY <1>6 DEF Lin!StartDelete, Lin!Finds, Lin!Go, Lin!ActsOf, OldActs
  <2>2. gone[p] = OldLinks /\ target'[p] = OldActs
    BY <1>1, <1>3, <2>1, RowsDiffer DEF Deleted
  <2>3. Deleted(p)' /\ Inserts(p)'
    BY <1>1, <1>2, <1>3, <2>1, <2>2 DEF Deleted, Inserts
  <2>4. LinkTypes' /\ \A q \in Lin!Procs \ {p} : Same(q)
    BY <1>2, <1>3, <2>1 DEF Same
  <2> QED
    BY <1>2, <2>3, <2>4, BeforeCommit
<1>7. CASE Lin!Delete(p)
  <2>1. /\ step[p] = "delete" /\ step' = [step EXCEPT ![p] = "insert"]
        /\ gone' = [gone EXCEPT ![p] = @ \union (target[p] \intersect acts)]
        /\ target' = [target EXCEPT ![p] = {}]
    BY <1>7 DEF Lin!Delete, Lin!Deletes, Lin!Go
  <2>2. gone'[p] = OldLinks \union OldActs
    BY <1>1, <1>3, <2>1 DEF Deleted
  <2>3. Deleted(p)' /\ Inserts(p)'
    BY <1>1, <1>2, <1>3, <2>1, <2>2 DEF Deleted, Inserts
  <2>4. LinkTypes' /\ \A q \in Lin!Procs \ {p} : Same(q)
    BY <1>2, <1>3, <2>1 DEF Same
  <2> QED
    BY <1>2, <2>3, <2>4, BeforeCommit
<1> QED
  BY <1>4, <1>5, <1>6, <1>7

LEMMA StartSaves ==
  ASSUME LinkInv, NEW p \in Lin!Procs, Lin!StartSave(p) \/ Lin!Again(p)
  PROVE  LinkInv'
<1> USE DEF LinkInv, LinkTypes
<1>1. PICK s \in {"insert", "idle"} :
        /\ step' = [step EXCEPT ![p] = s] /\ step[p] \in {"idle", "done"}
        /\ s = "insert" => p \in Indexers
        /\ UNCHANGED <<acts, links, entities, target, gone, own, keys, linked, nextId>>
  BY DEF Lin!StartSave, Lin!Again, Lin!Go, Lin!base
<1>2. /\ step'[p] = s /\ Deleted(p) /\ Inserts(p) /\ s = "insert" => p \notin Reindexers
  BY <1>1, OneProcess
<1>3. Deleted(p)' /\ Inserts(p)'
  BY <1>1, <1>2 DEF Deleted, Inserts
<1>4. LinkTypes' /\ (\A q \in Lin!Procs \ {p} : Same(q))
  BY <1>1 DEF Same
<1> QED
  BY <1>1, <1>3, <1>4, BeforeCommit

LEMMA ActInserted ==
  ASSUME LinkInv, NEW p \in Lin!Procs, Lin!InsertAct(p)
  PROVE  LinkInv'
<1> USE DEF LinkInv, LinkTypes
<1>1. PICK cites \in SUBSET Keys :
        own' = [own EXCEPT ![p] = {[id |-> nextId, gazette |-> Lin!GazetteOf(p), cites |-> cites]}]
  BY DEF Lin!InsertAct
<1>2. /\ step[p] = "insert" /\ step' = [step EXCEPT ![p] = "entities"] /\ nextId' = nextId + 1
      /\ UNCHANGED <<acts, links, entities, target, gone, keys, linked>>
  BY DEF Lin!InsertAct, Lin!Go, Lin!base
<1> DEFINE new == [id |-> nextId, gazette |-> Lin!GazetteOf(p), cites |-> cites]
<1>3. new \in ActRows /\ new.id = nextId /\ new.gazette = Lin!GazetteOf(p)
  BY NewAct
<1>4. own' = [own EXCEPT ![p] = {new}]
  BY <1>1
<1> HIDE DEF new
<1>5. Deleted(p) /\ Inserts(p) /\ keys[p] = {} /\ linked[p] = {}
  BY <1>2 DEF Inserts
<1>6. Deleted(p)'
  BY <1>2, <1>5 DEF Deleted, OldLinks, OldActs
<1>7. Lin!GazetteOf(p)' = Lin!GazetteOf(p)
  BY DEF Lin!GazetteOf
<1>8. Inserts(p)'
  BY <1>2, <1>3, <1>4, <1>5, <1>7 DEF Inserts
<1>9. LinkTypes' /\ \A q \in Lin!Procs \ {p} : Same(q)
  BY <1>2, <1>3, <1>4 DEF Same
<1>10. \A b \in own'[p] : nextId <= b.id
  BY <1>3, <1>4
<1> QED
  BY <1>2, <1>6, <1>8, <1>9, <1>10, BeforeCommit

LEMMA KeyInserted ==
  ASSUME LinkInv, NEW p \in Lin!Procs, Lin!InsertKey(p)
  PROVE  LinkInv'
<1> USE DEF LinkInv, LinkTypes
<1> DEFINE new == Lin!FirstKey(p)
<1>1. /\ step[p] = "entities" /\ Lin!Missing(p) # {}
      /\ keys' = [keys EXCEPT ![p] = @ \union {new}]
      /\ UNCHANGED <<acts, links, entities, step, target, gone, own, linked, nextId>>
  BY DEF Lin!InsertKey, Lin!base
<1>2. Lin!Missing(p) \subseteq Keys /\ Keys \subseteq Nat
  BY ActFields, LinksAssumption DEF Lin!Missing, Lin!Cited
<1>3. new \in Lin!Missing(p) /\ \A m \in Lin!Missing(p) : new <= m
  BY <1>1, <1>2, LeastKey DEF Lin!FirstKey
<1> HIDE DEF new
<1>4. Deleted(p) /\ Inserts(p)
  OBVIOUS
<1>5. Deleted(p)'
  BY <1>1, <1>4 DEF Deleted, OldLinks, OldActs
<1>6. Lin!Missing(p)' = Lin!Missing(p) \ {new} /\ Lin!GazetteOf(p)' = Lin!GazetteOf(p)
  BY <1>1 DEF Lin!Missing, Lin!Cited, Lin!GazetteOf
<1>7. \A k \in keys'[p] : \A m \in Lin!Missing(p)' : k < m
  <2>1. keys'[p] = keys[p] \union {new} /\ \A k \in keys[p] : \A m \in Lin!Missing(p) : k < m
    BY <1>1, <1>4 DEF Inserts
  <2>2. ASSUME NEW m \in Lin!Missing(p)' PROVE new < m
    <3>1. m \in Lin!Missing(p) /\ m # new
      BY <1>6
    <3>2. m \in Nat /\ new \in Nat /\ new <= m
      BY <1>2, <1>3, <3>1
    <3> QED
      BY <3>1, <3>2
  <2> QED
    BY <1>6, <2>1, <2>2
<1>8. Inserts(p)'
  BY <1>1, <1>4, <1>6, <1>7 DEF Inserts
<1>9. LinkTypes' /\ \A q \in Lin!Procs \ {p} : Same(q)
  BY <1>1, <1>2, <1>3 DEF Same
<1> QED
  BY <1>1, <1>5, <1>8, <1>9, BeforeCommit

LEMMA LinksInserted ==
  ASSUME LinkInv, NEW p \in Lin!Procs, Lin!InsertLinks(p)
  PROVE  LinkInv'
<1> USE DEF LinkInv, LinkTypes
<1> DEFINE new == {[act |-> b.id, key |-> k] :
                     b \in own[p], k \in Lin!Cited(p) \intersect (entities \union keys[p])}
<1>1. /\ step[p] = "entities" /\ Lin!Missing(p) = {} /\ step' = [step EXCEPT ![p] = "commit"]
      /\ linked' = [linked EXCEPT ![p] = new]
      /\ UNCHANGED <<acts, links, entities, target, gone, own, keys, nextId>>
  BY DEF Lin!InsertLinks, Lin!base, Lin!Go
<1>2. Deleted(p) /\ Inserts(p)
  OBVIOUS
<1>3. \A b \in own[p] : b.id \in Nat /\ b.cites \subseteq Keys /\ Lin!Cited(p) = b.cites
  BY <1>2, ActFields DEF Lin!Cited, Inserts
<1>4. Lin!Cited(p) \subseteq entities \union keys[p]
  BY <1>1 DEF Lin!Missing
<1>5. new \in SUBSET LinkRows
  BY <1>3, NewLink
<1>6. \A l \in new : \E b \in own[p] : l.act = b.id /\ l.key \in b.cites
  BY <1>3
<1>7. \A b \in own[p] : \A k \in b.cites :
        [act |-> b.id, key |-> k] \in new /\ k \in entities \union keys[p]
  BY <1>3, <1>4
<1> HIDE DEF new
<1>8. Deleted(p)'
  BY <1>1, <1>2 DEF Deleted, OldLinks, OldActs
<1>9. Lin!GazetteOf(p)' = Lin!GazetteOf(p)
  BY DEF Lin!GazetteOf
<1>10. step'[p] = "commit" /\ linked'[p] = new
  BY <1>1
<1>11. /\ \A b, c \in own'[p] : b = c
       /\ \A b \in own'[p] : b.id < nextId' /\ b.gazette = Lin!GazetteOf(p)
  BY <1>1, <1>2 DEF Inserts
<1>12. Inserts(p)'
  BY <1>1, <1>6, <1>7, <1>9, <1>10, <1>11 DEF Inserts
<1>13. LinkTypes' /\ \A q \in Lin!Procs \ {p} : Same(q)
  BY <1>1, <1>5 DEF Same
<1> QED
  BY <1>1, <1>8, <1>12, <1>13, BeforeCommit

LEMMA TransactionFails ==
  ASSUME LinkInv, NEW p \in Lin!Procs, Lin!Refused(p) \/ Lin!Fail(p)
  PROVE  LinkInv'
<1> USE DEF LinkInv, LinkTypes
<1>1. /\ step' = [step EXCEPT ![p] = "done"]
      /\ target' = [target EXCEPT ![p] = {}] /\ gone' = [gone EXCEPT ![p] = {}]
      /\ own' = [own EXCEPT ![p] = {}] /\ keys' = [keys EXCEPT ![p] = {}]
      /\ linked' = [linked EXCEPT ![p] = {}]
      /\ UNCHANGED <<acts, links, entities, nextId>>
  BY DEF Lin!Refused, Lin!Fail, Lin!End, Lin!Go, Lin!base
<1>2. Deleted(p)' /\ Inserts(p)'
  BY <1>1 DEF Deleted, Inserts
<1>3. LinkTypes' /\ (\A q \in Lin!Procs \ {p} : Same(q)) /\ own'[p] = {}
  BY <1>1 DEF Same
<1> QED
  BY <1>1, <1>2, <1>3, BeforeCommit

LEMMA TransactionCommits ==
  ASSUME LinkInv, NEW p \in Lin!Procs, Lin!Commit(p)
  PROVE  LinkInv'
<1> USE DEF LinkInv, LinkTypes
<1>1. /\ step[p] = "commit" /\ step' = [step EXCEPT ![p] = "done"]
      /\ acts' = (acts \ gone[p]) \union own[p]
      /\ links' = (links \ gone[p]) \union linked[p]
      /\ entities' = entities \union keys[p]
      /\ target' = [target EXCEPT ![p] = {}] /\ gone' = [gone EXCEPT ![p] = {}]
      /\ own' = [own EXCEPT ![p] = {}] /\ keys' = [keys EXCEPT ![p] = {}]
      /\ linked' = [linked EXCEPT ![p] = {}] /\ nextId' = nextId
  BY DEF Lin!Commit, Lin!End, Lin!Go
<1>2. /\ Deleted(p) /\ Inserts(p) /\ OneId /\ LinkedRows
      /\ p \in Reindexers \/ p \in Indexers
  BY DEF Lin!Procs
<1>3. \/ p \in Indexers /\ gone[p] = {}
      \/ p \in Reindexers /\ gone[p] = OldLinks \union OldActs
  BY <1>1, <1>2 DEF Deleted
<1>4. LinkTypes'
  BY <1>1
<1>5. Deleted(p)' /\ Inserts(p)'
  BY <1>1 DEF Deleted, Inserts
<1>6. \A q \in Lin!Procs \ {p} : Same(q)
  BY <1>1 DEF Same
\* A committed link stays exactly when its act does.
<1>7. /\ \A l \in links \ gone[p] : \E b \in acts \ gone[p] : b.id = l.act /\ l.key \in b.cites
      /\ \A b \in acts \ gone[p] : \A k \in b.cites : [act |-> b.id, key |-> k] \in links \ gone[p]
  <2>1. CASE gone[p] = {}
    BY <1>2, <2>1 DEF LinkedRows
  <2>2. CASE gone[p] = OldLinks \union OldActs
    <3>1. ASSUME NEW l \in links \ gone[p]
          PROVE  \E b \in acts \ gone[p] : b.id = l.act /\ l.key \in b.cites
      <4>1. PICK b \in acts : b.id = l.act /\ l.key \in b.cites
        BY <1>2 DEF LinkedRows
      <4>2. b \notin OldActs
        BY <2>2, <4>1 DEF OldLinks
      <4>3. b \notin OldLinks
        BY RowsDiffer DEF OldLinks
      <4> QED
        BY <2>2, <4>1, <4>2, <4>3
    <3>2. ASSUME NEW b \in acts \ gone[p], NEW k \in b.cites
          PROVE  [act |-> b.id, key |-> k] \in links \ gone[p]
      <4> DEFINE l == [act |-> b.id, key |-> k]
      <4>1. l \in links /\ l.act = b.id
        BY <1>2 DEF LinkedRows
      <4> HIDE DEF l
      <4>2. l \notin OldLinks
        BY <1>2, <2>2, <4>1 DEF OldLinks, OldActs, OneId
      <4>3. l \notin OldActs
        BY <4>1, RowsDiffer DEF OldActs
      <4>4. l \in links \ gone[p]
        BY <2>2, <4>1, <4>2, <4>3
      <4> QED
        BY <4>4 DEF l
    <3> QED
      BY <3>1, <3>2
  <2> QED
    BY <1>3, <2>1, <2>2
<1>8. LinkedRows'
  <2>1. ASSUME NEW l \in links'
        PROVE  l.key \in entities' /\ \E b \in acts' : b.id = l.act /\ l.key \in b.cites
    <3>1. CASE l \in links \ gone[p]
      BY <1>1, <1>2, <1>7, <3>1 DEF LinkedRows
    <3>2. CASE l \in linked[p]
      BY <1>1, <1>2, <3>2 DEF Inserts
    <3> QED
      BY <1>1, <3>1, <3>2
  <2>2. ASSUME NEW b \in acts', NEW k \in b.cites PROVE [act |-> b.id, key |-> k] \in links'
    <3>1. CASE b \in acts \ gone[p]
      BY <1>1, <1>7, <3>1
    <3>2. CASE b \in own[p]
      BY <1>1, <1>2, <3>2 DEF Inserts
    <3> QED
      BY <1>1, <3>1, <3>2
  <2> QED
    BY <2>1, <2>2 DEF LinkedRows
<1>9. OneId'
  <2>1. \A b \in acts' : b.id < nextId'
    BY <1>1, <1>2 DEF OneId, Inserts
  <2>2. \A b, c \in acts' : b.id = c.id => b = c
    BY <1>1, <1>2 DEF OneId, Inserts
  <2>3. ASSUME NEW q \in Lin!Procs, NEW b \in own'[q]
        PROVE  /\ \A c \in acts' : b.id # c.id
               /\ \A r \in Lin!Procs \ {q} : \A c \in own'[r] : b.id # c.id
    <3>1. q # p /\ b \in own[q]
      BY <1>1
    <3> QED
      BY <1>1, <1>2, <3>1 DEF OneId
  <2> QED
    BY <2>1, <2>2, <2>3 DEF OneId
<1>10. ASSUME NEW q \in Lin!Procs \ {p}, q \in Reindexers
       PROVE  OldActs' = OldActs /\ OldLinks' = OldLinks
  <2>1. p \in Indexers /\ gone[p] = {} /\ Lin!GazetteOf(p) # Edition
    BY <1>3, <1>10, LinksAssumption, OneProcess
  <2>2. acts' = acts \union own[p] /\ links' = links \union linked[p]
    BY <1>1, <2>1
  <2>3. \A b \in own[p] : b.gazette # Edition
    BY <1>2, <2>1 DEF Inserts
  <2>4. OldActs' = OldActs
    BY <2>2, <2>3 DEF OldActs
  <2>5. \A l \in linked[p] : \A b \in OldActs : b.id # l.act
    BY <1>2 DEF OldActs, OneId, Inserts
  <2>6. OldLinks' = OldLinks
    BY <2>2, <2>4, <2>5 DEF OldLinks
  <2> QED
    BY <2>4, <2>6
<1>11. ASSUME NEW q \in Lin!Procs \ {p} PROVE Deleted(q)' /\ Inserts(q)'
  <2>1. q \in Reindexers => OldActs' = OldActs /\ OldLinks' = OldLinks
    BY <1>10
  <2> QED
    BY <1>1, <1>6, <2>1, LinksOfOthers DEF Same
<1> QED
  BY <1>4, <1>5, <1>8, <1>9, <1>11

LEMMA LinkStep == LinkInv /\ [Lin!Next]_(Lin!vars) => LinkInv'
<1> SUFFICES ASSUME LinkInv, [Lin!Next]_(Lin!vars) PROVE LinkInv'
  OBVIOUS
<1>1. CASE UNCHANGED Lin!vars
  <2>1. UNCHANGED <<acts, links, entities, step, target, gone, own, keys, linked, nextId>>
    BY <1>1 DEF Lin!vars, Lin!base, Lin!tx
  <2>2. LinkTypes' /\ OneId' /\ LinkedRows'
    BY <2>1 DEF LinkInv, LinkTypes, OneId, LinkedRows
  <2>3. ASSUME NEW q \in Lin!Procs PROVE Deleted(q)' /\ Inserts(q)'
    <3>1. OldActs' = OldActs /\ OldLinks' = OldLinks /\ nextId \in Nat
      BY <2>1 DEF OldActs, OldLinks, LinkInv, LinkTypes
    <3> QED
      BY <2>1, <3>1, LinksOfOthers
  <2> QED
    BY <2>2, <2>3 DEF LinkInv
<1>2. CASE Lin!Next
  <2>1. PICK p \in Lin!Procs : Lin!Work(p) \/ Lin!Fail(p) \/ Lin!Again(p)
    BY <1>2 DEF Lin!Next
  <2> QED
    BY <2>1, StartDeletes, StartSaves, ActInserted, KeyInserted, LinksInserted,
       TransactionFails, TransactionCommits DEF Lin!Work
<1> QED
  BY <1>1, <1>2

LEMMA LinkStart == Lin!Init => LinkInv
<1> SUFFICES ASSUME Lin!Init PROVE LinkInv
  OBVIOUS
<1>1. PICK cites \in SUBSET Keys :
        /\ acts = {[id |-> 0, gazette |-> Edition, cites |-> cites]}
        /\ links = {[act |-> 0, key |-> k] : k \in cites}
        /\ entities = cites
  BY DEF Lin!Init
<1> DEFINE old == [id |-> 0, gazette |-> Edition, cites |-> cites]
<1>2. old \in ActRows
  BY Zenon DEF ActRows
<1>3. old.id = 0 /\ old.cites = cites /\ acts = {old}
  BY <1>1
<1> HIDE DEF old
<1>4. links \in SUBSET LinkRows /\ \A l \in links : l.act = 0 /\ l.key \in cites
  BY <1>1, NewLink
<1>5. /\ step = [p \in Lin!Procs |-> "idle"]
      /\ target = [p \in Lin!Procs |-> {}] /\ gone = [p \in Lin!Procs |-> {}]
      /\ own = [p \in Lin!Procs |-> {}] /\ keys = [p \in Lin!Procs |-> {}]
      /\ linked = [p \in Lin!Procs |-> {}] /\ nextId = 1
  BY DEF Lin!Init
<1>6. LinkTypes
  BY <1>1, <1>2, <1>3, <1>4, <1>5 DEF LinkTypes
<1>7. OneId
  BY <1>3, <1>5 DEF OneId
<1>8. LinkedRows
  BY <1>1, <1>3, <1>4 DEF LinkedRows
<1>9. \A p \in Lin!Procs : Deleted(p) /\ Inserts(p)
  BY <1>5 DEF Deleted, Inserts
<1> QED
  BY <1>6, <1>7, <1>8, <1>9 DEF LinkInv

\* The first key missing is missing, and is above those inserted.
LEMMA KeysInOrder ==
  ASSUME LinkInv, NEW p \in Lin!Procs, step[p] = "entities", Lin!Missing(p) # {}
  PROVE  /\ Lin!FirstKey(p) \in Nat
         /\ \A k \in keys[p] : k < Lin!FirstKey(p)
<1>1. Inserts(p) /\ own[p] \subseteq ActRows
  BY DEF LinkInv, LinkTypes
<1>2. Lin!Missing(p) \subseteq Nat
  BY <1>1, ActFields, LinksAssumption DEF Lin!Missing, Lin!Cited
<1>3. Lin!FirstKey(p) \in Lin!Missing(p)
  BY <1>2, LeastKey DEF Lin!FirstKey
<1> QED
  BY <1>1, <1>2, <1>3 DEF Inserts

LEMMA NobodyWaitsInTurn == LinkInv => Lin!NoDeadlock
<1> SUFFICES ASSUME LinkInv, NEW p \in Lin!Procs, NEW q \in Lin!Procs,
                    Lin!Waits(p, q), Lin!Waits(q, p)
             PROVE  FALSE
  BY DEF Lin!NoDeadlock
\* Nobody else deletes, or has a place in, the edition of p.
<1>1. ASSUME NEW r \in Lin!Procs, NEW s \in Lin!Procs, Lin!Waits(r, s)
      PROVE  step[r] = "entities" /\ Lin!Missing(r) # {} /\ Lin!FirstKey(r) \in keys[s]
  <2>1. r # s /\ Deleted(r) /\ Deleted(s) /\ r \in Reindexers \union Indexers
    BY <1>1 DEF LinkInv, Lin!Waits, Lin!Procs
  <2>2. ~(s \in Lin!Rivals(r))
    BY <2>1, OneProcess DEF Lin!Rivals
  <2>3. ~(step[r] \in {"unlink", "delete"} /\ gone[s] \intersect target[r] # {})
    <3>1. CASE r \in Reindexers
      <4>1. s \in Indexers
        BY <2>1, <3>1, LinksAssumption DEF Lin!Procs
      <4> QED
        BY <2>1, <4>1 DEF Deleted
    <3>2. CASE r \in Indexers
      BY <2>1, <3>2 DEF Deleted
    <3> QED
      BY <2>1, <3>1, <3>2
  <2> QED
    BY <1>1, <2>2, <2>3 DEF Lin!Waits
<1>2. /\ step[p] = "entities" /\ Lin!Missing(p) # {} /\ Lin!FirstKey(p) \in keys[q]
      /\ step[q] = "entities" /\ Lin!Missing(q) # {} /\ Lin!FirstKey(q) \in keys[p]
  BY <1>1
<1>3. /\ Lin!FirstKey(p) \in Nat /\ Lin!FirstKey(q) \in Nat
      /\ Lin!FirstKey(q) < Lin!FirstKey(p) /\ Lin!FirstKey(p) < Lin!FirstKey(q)
  BY <1>2, KeysInOrder
<1> QED
  BY <1>3

LEMMA LinksStayRight ==
  LinkInv => Lin!TypeOK /\ Lin!NoOrphanLinks /\ Lin!LinkedToWhatItCites
<1> SUFFICES ASSUME LinkInv PROVE Lin!TypeOK /\ Lin!NoOrphanLinks /\ Lin!LinkedToWhatItCites
  OBVIOUS
<1> USE DEF LinkInv
<1>1. Lin!NoOrphanLinks
  BY DEF LinkedRows, Lin!NoOrphanLinks
<1>2. ASSUME NEW b \in acts PROVE {l.key : l \in {m \in links : m.act = b.id}} = b.cites
  <2>1. ASSUME NEW l \in links, l.act = b.id PROVE l.key \in b.cites
    BY <2>1 DEF LinkedRows, OneId
  <2>2. ASSUME NEW k \in b.cites PROVE \E l \in links : l.act = b.id /\ l.key = k
    <3>1. [act |-> b.id, key |-> k] \in links
      BY DEF LinkedRows
    <3> QED
      BY <3>1
  <2> QED
    BY <2>1, <2>2
<1>3. ASSUME NEW p \in Lin!Procs PROVE Lin!Cardinality(own[p]) <= 1
  <2>1. \A b, c \in own[p] : b = c
    BY DEF Inserts
  <2>2. Cardinality(own[p]) <= 1
    <3>1. CASE own[p] = {}
      BY <3>1, FS_EmptySet
    <3>2. ASSUME NEW b \in own[p] PROVE Cardinality(own[p]) <= 1
      <4>1. own[p] = {b}
        BY <2>1
      <4>2. Cardinality({b}) = 1
        BY FS_Singleton
      <4> QED
        BY <4>1, <4>2
    <3> QED
      BY <3>1, <3>2
  <2>3. Lin!Cardinality(own[p]) = Cardinality(own[p])
    BY DEF Lin!Cardinality, Cardinality
  <2> QED
    BY <2>2, <2>3
<1>4. \A b \in acts : b.id < nextId /\ b.cites \subseteq Keys
  BY ActFields DEF LinkTypes, OneId
<1>5. \A l \in links : l.act < nextId /\ l.key \in entities
  BY DEF LinkedRows, OneId
<1>6. Lin!TypeOK
  BY <1>3, <1>4, <1>5 DEF LinkTypes, Lin!TypeOK
<1> QED
  BY <1>1, <1>2, <1>6 DEF Lin!LinkedToWhatItCites

LEMMA RunsLinks ==
  RecordsSpec => \/ []~(mode = "links")
                 \/ [](mode = "links") /\ Lin!Init /\ [][Lin!Next]_(Lin!vars)
<1>1. RecordsInit /\ mode = "links" => Lin!Init
  BY DEF RecordsInit
<1>2. mode = "links" /\ [RecordsNext]_RecordVars => [Lin!Next]_(Lin!vars) /\ (mode = "links")'
  BY DEF RecordsNext, Others, RecordVars, linking, Lin!vars, Lin!base, Lin!tx
<1>3. ~(mode = "links") /\ [RecordsNext]_RecordVars => (~(mode = "links"))'
  BY SameMode
<1> QED
  BY <1>1, <1>2, <1>3, PTL DEF RecordsSpec

\* No committed link is left to an act that is gone, an act in the base is linked to
\* what it cites and to nothing else, although the transactions of the worker and
\* of the reindexation delete and insert side by side and fail anywhere, and, as
\* every one inserts its keys by order, no two of them wait for each other.
THEOREM LinksAreRight == RecordsSpec => []LinksSafe
<1>1. ~(mode = "links") => LinksSafe
  BY DEF LinksSafe
<1>2. LinkInv => LinksSafe
  BY NobodyWaitsInTurn, LinksStayRight DEF LinksSafe
<1>3. Lin!Init /\ [][Lin!Next]_(Lin!vars) => []LinkInv
  BY LinkStart, LinkStep, PTL
<1> QED
  BY <1>1, <1>2, <1>3, RunsLinks, PTL

-----------------------------------------------------------------------------
(***************************************************************************)
(* The loaders.  The invariant says what is behind the part at hand, what is *)
(* ahead of it, and what the report has counted by then.                   *)
(***************************************************************************)

\* What the policy of a loader says, by name.
KeptBy(l, c) ==
  [rows |-> c.rows \ Bad,
   twice |-> c.twice /\ Loa!Policies[l].rows.repeated = "kept" /\ ~Loa!Policies[l].table.key]

SkippedBy(l, c) == Loa!Policies[l].work.empty = "kept" /\ c.rows = {}

Whole(l) == Loa!Policies[l].work.unit = "whole"

LEMMA ByPolicy ==
  /\ \A c : Loa!Kept(c) = KeptBy(loader, c)
  /\ \A c : Loa!Skips(c) <=> SkippedBy(loader, c)
  /\ Loa!Policy.work.unit = "whole" <=> Whole(loader)
  BY DEF Loa!Kept, Loa!Skips, Loa!Policy, KeptBy, SkippedBy, Whole

\* A loader that replaces everything stops at the first part that fails, and keeps
\* the rows of an empty part only if the transaction leaves them.
LEMMA WholeLoaders ==
  ASSUME NEW l \in Sources, Whole(l)
  PROVE  /\ Loa!Policies[l].work.onError = "stop"
         /\ Loa!Policies[l].work.empty = "kept" => Loa!Policies[l].table.old = "stays"
<1>1. l \in {"payments", "staff", "municipal", "transfers", "agents", "norms", "mural",
             "oversight", "special", "amendments", "pncp", "registry", "fiscal"}
  BY LoadsAssumption DEF Loa!Policies
<1>2. /\ Loa!Policies["payments"].work.unit = "part"
      /\ Loa!Policies["staff"].work.unit = "part"
      /\ Loa!Policies["municipal"].work.unit = "part"
      /\ Loa!Policies["transfers"].work.unit = "part"
      /\ Loa!Policies["agents"].work.unit = "part"
  BY DEF Loa!Policies, Loa!PaymentsLoad, Loa!StaffLoad, Loa!MunicipalLoad, Loa!TransfersLoad, Loa!AgentsLoad
<1>3. /\ Loa!Policies["norms"].work.onError = "stop"
      /\ Loa!Policies["mural"].work.onError = "stop"
      /\ Loa!Policies["oversight"].work.onError = "stop"
      /\ Loa!Policies["special"].work.onError = "stop"
      /\ Loa!Policies["amendments"].work.onError = "stop"
      /\ Loa!Policies["pncp"].work.onError = "stop"
      /\ Loa!Policies["registry"].work.onError = "stop"
      /\ Loa!Policies["fiscal"].work.onError = "stop"
  BY DEF Loa!Policies, Loa!NormsLoad, Loa!MuralLoad, Loa!OversightLoad, Loa!SpecialLoad, Loa!AmendmentsLoad, Loa!PNCPLoad, Loa!RegistryLoad, Loa!FiscalLoad
<1>4. /\ Loa!Policies["norms"].work.empty # "kept"
      /\ Loa!Policies["mural"].work.empty # "kept"
      /\ Loa!Policies["oversight"].work.empty # "kept"
      /\ Loa!Policies["special"].work.empty # "kept"
      /\ Loa!Policies["amendments"].work.empty # "kept"
      /\ Loa!Policies["pncp"].work.empty # "kept"
      /\ Loa!Policies["registry"].work.empty # "kept"
      /\ Loa!Policies["fiscal"].table.old = "stays"
  BY DEF Loa!Policies, Loa!NormsLoad, Loa!MuralLoad, Loa!OversightLoad, Loa!SpecialLoad, Loa!AmendmentsLoad, Loa!PNCPLoad, Loa!RegistryLoad, Loa!FiscalTable
<1> QED
  BY <1>1, <1>2, <1>3, <1>4 DEF Whole

LEMMA RegistryIsWhole == Whole("registry")
  BY DEF Whole, Loa!Policies, Loa!RegistryLoad

LEMMA KeptContents ==
  ASSUME NEW l \in Sources, NEW c \in Loa!Contents
  PROVE  KeptBy(l, c) \in Loa!Contents /\ KeptBy(l, c).rows = c.rows \ Bad
<1>1. c.rows \ Bad \in SUBSET (Good \union Bad)
  BY DEF Loa!Contents
<1>2. (c.twice /\ Loa!Policies[l].rows.repeated = "kept" /\ ~Loa!Policies[l].table.key) \in BOOLEAN
  OBVIOUS
<1>3. KeptBy(l, c) \in Loa!Contents
  BY <1>1, <1>2, Zenon DEF KeptBy, Loa!Contents
<1> QED
  BY <1>3 DEF KeptBy

Reports == [stored : Nat, failed : Nat, error : BOOLEAN]

LEMMA ReportFields ==
  ASSUME NEW r \in Reports
  PROVE  r.stored \in Nat /\ r.failed \in Nat /\ r.error \in BOOLEAN
  BY DEF Reports

LEMMA SetStored ==
  ASSUME NEW r \in Reports, NEW n \in Nat, NEW s, s = [r EXCEPT !.stored = n]
  PROVE  s \in Reports /\ s.stored = n /\ s.failed = r.failed /\ s.error = r.error
  BY DEF Reports

LEMMA SetFailed ==
  ASSUME NEW r \in Reports, NEW n \in Nat, NEW s, s = [r EXCEPT !.failed = n]
  PROVE  s \in Reports /\ s.stored = r.stored /\ s.failed = n /\ s.error = r.error
  BY DEF Reports

LEMMA SetError ==
  ASSUME NEW r \in Reports, NEW s, s = [r EXCEPT !.error = TRUE]
  PROVE  s \in Reports /\ s.stored = r.stored /\ s.failed = r.failed /\ s.error = TRUE
  BY DEF Reports

LEMMA LastPart ==
  /\ Cardinality(Parts) \in Nat /\ Cardinality(Parts) >= 1
  /\ Parts = 1..Cardinality(Parts) /\ Loa!Max(Parts) = Cardinality(Parts)
<1> DEFINE n == Cardinality(Parts)
<1>1. n \in Nat /\ Parts = 1..n /\ Parts # {}
  BY LoadsAssumption, FS_CardinalityType
<1> HIDE DEF n
<1>2. n >= 1
  BY <1>1
<1>3. n \in Parts /\ \A m \in Parts : m \in Nat /\ m <= n
  BY <1>1, <1>2
<1>4. Loa!Max(Parts) = n
  BY <1>1, <1>3 DEF Loa!Max
<1> QED
  BY <1>1, <1>2, <1>4 DEF n

LEMMA CountLoads == \A S : Loa!Cardinality(S) = Cardinality(S)
  BY DEF Loa!Cardinality, Cardinality

\* The rows of some parts of a table.
RowsOf(t, S) == UNION {{p} \X t[p].rows : p \in S}

Tables == [Parts -> Loa!Contents]

LEMMA RowsAreCounted ==
  ASSUME NEW t \in Tables, NEW S \in SUBSET Parts
  PROVE  IsFiniteSet(RowsOf(t, S)) /\ Cardinality(RowsOf(t, S)) \in Nat
<1>1. IsFiniteSet(Good \union Bad)
  BY LoadsAssumption, FS_Union
<1>2. IsFiniteSet(Parts \X (Good \union Bad))
  BY <1>1, LoadsAssumption, FS_Product
<1>3. \A p \in S : t[p].rows \subseteq Good \union Bad
  BY DEF Tables, Loa!Contents
<1>4. RowsOf(t, S) \subseteq Parts \X (Good \union Bad)
  BY <1>3 DEF RowsOf
<1> QED
  BY <1>2, <1>4, FS_Subset, FS_CardinalityType

LEMMA MoreParts ==
  ASSUME NEW t \in Tables, NEW T \in SUBSET Parts, NEW S \in SUBSET T
  PROVE  Cardinality(RowsOf(t, S)) <= Cardinality(RowsOf(t, T))
<1>1. RowsOf(t, S) \subseteq RowsOf(t, T)
  BY DEF RowsOf
<1> QED
  BY <1>1, RowsAreCounted, FS_Subset

LEMMA OneMorePart ==
  ASSUME NEW t \in Tables, NEW u \in Tables, NEW p \in Parts,
         \A q \in Parts \ {p} : u[q] = t[q]
  PROVE  /\ Cardinality(u[p].rows) \in Nat
         /\ Cardinality(RowsOf(u, 1..p)) = Cardinality(RowsOf(t, 1..(p - 1))) + Cardinality(u[p].rows)
<1>1. /\ p \in Nat /\ 1..(p - 1) \subseteq Parts /\ 1..p \subseteq Parts
      /\ 1..p = 1..(p - 1) \union {p} /\ p \notin 1..(p - 1)
  BY LastPart
<1> DEFINE X == RowsOf(t, 1..(p - 1))
           Y == {p} \X u[p].rows
<1>2. RowsOf(u, 1..p) = X \union Y
  <2>1. \A q \in 1..(p - 1) : u[q] = t[q]
    BY <1>1
  <2> QED
    BY <1>1, <2>1 DEF RowsOf
<1>3. X \intersect Y = {}
  BY <1>1 DEF RowsOf
<1>4. IsFiniteSet(u[p].rows) /\ Cardinality(u[p].rows) \in Nat
  <2>1. u[p].rows \subseteq Good \union Bad
    BY DEF Tables, Loa!Contents
  <2> QED
    BY <2>1, LoadsAssumption, FS_Union, FS_Subset, FS_CardinalityType
<1>5. IsFiniteSet(Y) /\ Cardinality(Y) = Cardinality(u[p].rows)
  <2>1. IsFiniteSet({p}) /\ Cardinality({p}) = 1
    BY FS_Singleton
  <2>2. IsFiniteSet(Y) /\ Cardinality(Y) = 1 * Cardinality(u[p].rows)
    BY <1>4, <2>1, FS_Product
  <2> QED
    BY <1>4, <2>2
<1>6. IsFiniteSet(X) /\ Cardinality(X) \in Nat
  BY <1>1, RowsAreCounted
<1> HIDE DEF X, Y
<1>7. Cardinality(X \union Y) = Cardinality(X) + Cardinality(Y)
  <2>1. Cardinality(X \intersect Y) = 0
    BY <1>3, FS_EmptySet
  <2>2. Cardinality(X \union Y) = Cardinality(X) + Cardinality(Y) - Cardinality(X \intersect Y)
    BY <1>5, <1>6, FS_Union
  <2> QED
    BY <1>4, <1>5, <1>6, <2>1, <2>2
<1>8. Cardinality(RowsOf(u, 1..p)) = Cardinality(X) + Cardinality(u[p].rows)
  BY <1>2, <1>5, <1>7
<1> QED
  BY <1>4, <1>8 DEF X

\* Part p says what the load read of it, or what it said if there was nothing.
Copied(p) ==
  IF SkippedBy(loader, got[p]) THEN table[p] = before[p] ELSE table[p] = KeptBy(loader, got[p])

LoadTypes ==
  /\ loader \in Sources
  /\ source \in Tables /\ table \in Tables /\ before \in Tables
  /\ archived \in [Parts -> SUBSET Loa!Contents]
  /\ got \in [Parts -> Loa!Contents \union {None}]
  /\ step \in {"idle", "read", "replace", "report"} /\ part \in Parts
  /\ report \in Reports

\* What is in the table, or about to be, is in the archive.
Archived ==
  \A p \in Parts :
    /\ table[p] # Loa!Nothing => \E c \in archived[p] : table[p] = KeptBy(loader, c)
    /\ got[p] # None => got[p] \in archived[p] \/ SkippedBy(loader, got[p])

OldOrNew ==
  \A p \in Parts : table[p] = before[p] \/ (got[p] # None /\ table[p] = KeptBy(loader, got[p]))

\* The load that replaces everything touches nothing before its transaction, and an
\* error keeps it from there.
WholeAtOnce ==
  /\ step = "replace" => Whole(loader)
  /\ Whole(loader) =>
       /\ step \in {"read", "replace"} => table = before /\ ~report.error /\ report.stored = 0
       /\ report.error => table = before

\* A load has not read what is ahead of it.
Ahead ==
  step = "read" =>
    /\ \A p \in Parts : p > part => got[p] = None
    /\ got[part] # None => ~Whole(loader) /\ ~SkippedBy(loader, got[part])

\* As long as nothing failed, it did what is behind it.
Behind ==
  ~report.error =>
    /\ step = "read" => \A p \in Parts : p < part => got[p] # None /\ (Whole(loader) \/ Copied(p))
    /\ step = "replace" => \A p \in Parts : got[p] # None
    /\ step = "report" => \A p \in Parts : got[p] # None /\ Copied(p)

Counts ==
  ~report.error /\ report.failed = 0 =>
    \A p \in Parts : got[p] # None => got[p].rows \intersect Bad = {}

StoredIsThere ==
  /\ step = "read" /\ ~Whole(loader) => report.stored <= Cardinality(RowsOf(table, 1..(part - 1)))
  /\ step = "report" /\ (loader = "registry" => ~report.error) =>
       report.stored <= Cardinality(RowsOf(table, Parts))

\* The report that was saved is that of the load that ended.
SavedIsReport ==
  saved # None =>
    /\ step = "idle" /\ saved = report
    /\ ~report.error => \A p \in Parts : got[p] # None /\ Copied(p)

LoadInv ==
  /\ LoadTypes /\ Archived /\ OldOrNew /\ WholeAtOnce /\ Ahead /\ Behind /\ Counts
  /\ StoredIsThere /\ SavedIsReport

LEMMA LoadStart == Loa!Init => LoadInv
<1> SUFFICES ASSUME Loa!Init PROVE LoadInv
  OBVIOUS
<1>1. Loa!Nothing \in Loa!Contents
  <2>1. {} \in SUBSET (Good \union Bad) /\ FALSE \in BOOLEAN
    OBVIOUS
  <2> QED
    BY <2>1, Zenon DEF Loa!Nothing, Loa!Contents
<1>2. /\ loader \in Sources /\ step = "idle" /\ part = 1 /\ saved = None
      /\ source = [p \in Parts |-> Loa!Nothing] /\ table = [p \in Parts |-> Loa!Nothing]
      /\ before = table /\ archived = [p \in Parts |-> {}] /\ got = [p \in Parts |-> None]
  BY DEF Loa!Init
<1>3. report \in Reports
  <2>1. report = [stored |-> 0, failed |-> 0, error |-> FALSE]
    BY DEF Loa!Init
  <2> QED
    BY <2>1, Zenon DEF Reports
<1>4. report.error = FALSE
  BY DEF Loa!Init
<1>5. LoadTypes
  BY <1>1, <1>2, <1>3, LastPart DEF LoadTypes, Tables
<1> QED
  BY <1>2, <1>4, <1>5 DEF LoadInv, Archived, OldOrNew, WholeAtOnce, Ahead, Behind, Counts,
     StoredIsThere, SavedIsReport

\* The parts before the one at hand.
LEMMA PartsBefore ==
  ASSUME NEW p \in Parts
  PROVE  /\ p \in Nat /\ p >= 1 /\ p <= Loa!Max(Parts) /\ Loa!Max(Parts) \in Nat
         /\ 1..(p - 1) \in SUBSET Parts /\ 1..p \in SUBSET Parts
         /\ 1..(p - 1) \subseteq 1..p
         /\ p < Loa!Max(Parts) => p + 1 \in Parts /\ (p + 1) - 1 = p
         /\ ~(p < Loa!Max(Parts)) => 1..p = Parts
         /\ \A q \in Parts : q \in Nat /\ (q < p <=> q \in 1..(p - 1)) /\ (q < p + 1 <=> q < p \/ q = p)
         /\ \A q \in Parts : q \in 1..p <=> q < p \/ q = p
  BY LastPart

LEMMA SourceChanges ==
  ASSUME LoadInv, NEW p \in Parts, Loa!Publish(p)
  PROVE  LoadInv'
<1> USE DEF LoadInv
<1>1. /\ UNCHANGED <<loader, table, archived, step, part, got, report, saved, before>>
      /\ \E c \in Loa!Contents : source' = [source EXCEPT ![p] = c]
  BY DEF Loa!Publish
<1>2. LoadTypes'
  BY <1>1 DEF LoadTypes, Tables
<1>3. Archived' /\ OldOrNew' /\ WholeAtOnce' /\ Ahead'
  BY <1>1 DEF Archived, OldOrNew, WholeAtOnce, Ahead
<1>4. Behind' /\ SavedIsReport'
  BY <1>1 DEF Behind, SavedIsReport, Copied
<1>5. Counts' /\ StoredIsThere'
  BY <1>1 DEF Counts, StoredIsThere
<1> QED
  BY <1>2, <1>3, <1>4, <1>5

LEMMA LoadBegins ==
  ASSUME LoadInv, Loa!Begin
  PROVE  LoadInv'
<1> USE DEF LoadInv
<1>1. /\ UNCHANGED <<loader, source, table, archived>> /\ before' = table /\ saved' = None
      /\ step' = "read" /\ part' = 1 /\ got' = [p \in Parts |-> None]
      /\ report' = [stored |-> 0, failed |-> 0, error |-> FALSE]
  BY DEF Loa!Begin
<1>2. report' \in Reports /\ report'.stored = 0 /\ report'.error = FALSE
  <2>1. report' \in Reports
    BY <1>1, Zenon DEF Reports
  <2> QED
    BY <1>1, <2>1
<1>3. 1 \in Parts /\ \A p \in Parts : ~(p < 1)
  BY LastPart
<1>4. LoadTypes'
  BY <1>1, <1>2, <1>3 DEF LoadTypes, Tables
<1>5. Archived' /\ OldOrNew' /\ WholeAtOnce' /\ Ahead' /\ Counts' /\ SavedIsReport'
  BY <1>1, <1>2, <1>3 DEF Archived, OldOrNew, WholeAtOnce, Ahead, Counts, SavedIsReport, LoadTypes
<1>6. Behind'
  BY <1>1, <1>3 DEF Behind
<1>7. StoredIsThere'
  <2>1. Cardinality(RowsOf(table', 1..(1 - 1))) \in Nat
    BY <1>3, <1>4, PartsBefore, RowsAreCounted DEF LoadTypes
  <2> QED
    BY <1>1, <1>2, <2>1 DEF StoredIsThere
<1> QED
  BY <1>4, <1>5, <1>6, <1>7

LEMMA LoadEnds ==
  ASSUME LoadInv, Loa!Report \/ Loa!Killed
  PROVE  LoadInv'
<1> USE DEF LoadInv
<1>1. /\ UNCHANGED <<loader, source, table, archived, part, got, report, before>>
      /\ step # "idle" /\ step' = "idle"
      /\ saved' = saved \/ (step = "report" /\ saved' = report)
  BY DEF Loa!Report, Loa!Killed
<1>2. saved = None
  BY <1>1 DEF SavedIsReport
<1>3. LoadTypes'
  BY <1>1 DEF LoadTypes
<1>4. Archived' /\ OldOrNew' /\ WholeAtOnce' /\ Ahead'
  BY <1>1 DEF Archived, OldOrNew, WholeAtOnce, Ahead
<1>5. Behind' /\ Counts' /\ StoredIsThere'
  BY <1>1 DEF Behind, Counts, StoredIsThere
<1>6. SavedIsReport'
  <2>1. CASE saved' = saved
    BY <1>2, <2>1 DEF SavedIsReport
  <2>2. CASE step = "report" /\ saved' = report
    BY <1>1, <2>2 DEF SavedIsReport, Behind, Copied
  <2> QED
    BY <1>1, <2>1, <2>2
<1> QED
  BY <1>3, <1>4, <1>5, <1>6

\* A part that fails leaves the base alone.
LEMMA PartFails ==
  ASSUME LoadInv, step = "read", report' \in Reports, report'.error = TRUE,
         report'.stored = report.stored, Loa!AfterError(part),
         UNCHANGED <<loader, source, table, archived, got, saved, before>>
  PROVE  LoadInv'
<1> USE DEF LoadInv
<1>1. LoadTypes /\ loader \in Sources /\ part \in Parts /\ saved = None /\ table \in Tables
  BY DEF LoadTypes, SavedIsReport
<1>2. \/ /\ ~Whole(loader) /\ part < Loa!Max(Parts) /\ part' = part + 1 /\ step' = "read"
      \/ part' = 1 /\ step' = "report"
  BY <1>1, WholeLoaders DEF Loa!AfterError, Loa!Policy
<1>3. part' \in Parts
  BY <1>1, <1>2, PartsBefore
<1>4. LoadTypes'
  BY <1>2, <1>3 DEF LoadTypes
<1>5. Archived' /\ OldOrNew' /\ SavedIsReport' /\ Counts' /\ Behind'
  BY <1>1 DEF Archived, OldOrNew, SavedIsReport, Counts, Behind
<1>6. WholeAtOnce'
  BY <1>2 DEF WholeAtOnce
<1>7. Ahead'
  <2>1. CASE step' = "read"
    <3>1. \A p \in Parts : p >= part + 1 => got'[p] = None
      BY <1>1, PartsBefore DEF Ahead
    <3> QED
      BY <1>1, <1>2, <1>3, <2>1, <3>1, PartsBefore DEF Ahead
  <2>2. CASE step' = "report"
    BY <2>2 DEF Ahead
  <2> QED
    BY <1>2, <2>1, <2>2
<1>8. StoredIsThere'
  <2> DEFINE below == Cardinality(RowsOf(table, 1..(part - 1)))
  <2>1. /\ below \in Nat /\ report.stored \in Nat
        /\ ~Whole(loader) => report.stored <= below
        /\ Whole(loader) => report.stored = 0
    BY <1>1, PartsBefore, RowsAreCounted, ReportFields DEF StoredIsThere, WholeAtOnce, LoadTypes
  <2>2. CASE part < Loa!Max(Parts) /\ part' = part + 1 /\ step' = "read"
    <3>1. /\ Cardinality(RowsOf(table, 1..part)) \in Nat
          /\ below <= Cardinality(RowsOf(table, 1..part))
      BY <1>1, PartsBefore, RowsAreCounted, MoreParts
    <3>2. part' - 1 = part
      BY <1>1, <2>2, PartsBefore
    <3> HIDE DEF below
    <3> QED
      BY <2>1, <2>2, <3>1, <3>2 DEF StoredIsThere
  <2>3. CASE step' = "report"
    <3>1. /\ Cardinality(RowsOf(table, Parts)) \in Nat
          /\ below <= Cardinality(RowsOf(table, Parts))
      BY <1>1, PartsBefore, RowsAreCounted, MoreParts
    <3> HIDE DEF below
    <3> QED
      BY <2>1, <2>3, <3>1 DEF StoredIsThere
  <2> QED
    BY <1>2, <2>2, <2>3
<1> QED
  BY <1>4, <1>5, <1>6, <1>7, <1>8

LEMMA ReadGoesWrong ==
  ASSUME LoadInv, Loa!ReadRefused \/ Loa!ReadFails \/ Loa!ReplacePartFails
  PROVE  LoadInv'
<1>1. report \in Reports
  BY DEF LoadInv, LoadTypes
<1>2. /\ step = "read" /\ Loa!AfterError(part)
      /\ UNCHANGED <<loader, source, table, archived, got, saved, before>>
  BY DEF Loa!ReadRefused, Loa!ReadFails, Loa!ReplacePartFails
<1>3. report' \in Reports /\ report'.error = TRUE /\ report'.stored = report.stored
  <2>1. CASE report' = [report EXCEPT !.error = TRUE]
    BY <1>1, <2>1, SetError
  <2>2. CASE Loa!ReadRefused
    <3> DEFINE n == report.failed + Loa!Counted(source[part])
    <3>1. report' = [report EXCEPT !.failed = n, !.error = TRUE]
      BY <2>2 DEF Loa!ReadRefused
    <3>2. Loa!Counted(source[part]) \in Nat
      <4>1. IsFiniteSet(Loa!Unreadable(source[part]))
        BY LoadsAssumption, FS_Intersection DEF Loa!Unreadable
      <4>2. Cardinality(Loa!Unreadable(source[part])) \in Nat
        BY <4>1, FS_CardinalityType
      <4> QED
        BY <4>2, CountLoads DEF Loa!Counted
    <3>3. n \in Nat
      BY <1>1, <3>2, ReportFields
    <3> HIDE DEF n
    <3> QED
      BY <1>1, <3>1, <3>3 DEF Reports
  <2> QED
    BY <2>1, <2>2 DEF Loa!ReadRefused, Loa!ReadFails, Loa!ReplacePartFails
<1> QED
  BY <1>2, <1>3, PartFails

LEMMA PartRead ==
  ASSUME LoadInv, Loa!Read
  PROVE  LoadInv'
<1> USE DEF LoadInv
<1> DEFINE c == source[part]
<1>1. /\ step = "read" /\ got[part] = None /\ ~Loa!Refuses(c) /\ got' = [got EXCEPT ![part] = c]
      /\ Loa!Archive(part, c)
      /\ report' = [report EXCEPT !.failed = @ + Loa!Counted(c)]
      /\ UNCHANGED <<loader, source, table, saved, before>>
      /\ IF Whole(loader) \/ SkippedBy(loader, c) THEN Loa!Onward(part) ELSE UNCHANGED <<step, part>>
  BY ByPolicy DEF Loa!Read
<1>2. /\ part \in Parts /\ c \in Loa!Contents /\ c # None /\ saved = None /\ loader \in Sources
      /\ table \in Tables /\ report \in Reports /\ table[part] = before[part]
  BY <1>1, LoadsAssumption DEF LoadTypes, Tables, SavedIsReport, OldOrNew
<1>3. Loa!Counted(c) \in Nat /\ (Loa!Counted(c) = 0 => c.rows \intersect Bad = {})
  <2>1. IsFiniteSet(Loa!Unreadable(c)) /\ Loa!Unreadable(c) = c.rows \intersect Bad
    BY LoadsAssumption, FS_Intersection DEF Loa!Unreadable
  <2>2. /\ Cardinality(Loa!Unreadable(c)) \in Nat
        /\ Cardinality(Loa!Unreadable(c)) = 0 <=> Loa!Unreadable(c) = {}
    BY <2>1, FS_CardinalityType, FS_EmptySet
  <2>3. Loa!Unreadable(c) # {} => Loa!Policy.rows.unreadable = "dropped"
    BY <1>1 DEF Loa!Refuses
  <2>4. Loa!Counted(c) = IF Loa!Policy.rows.unreadable = "fails" THEN 0
                         ELSE Cardinality(Loa!Unreadable(c))
    BY CountLoads DEF Loa!Counted
  <2> QED
    BY <2>1, <2>2, <2>3, <2>4
<1>4. /\ report' \in Reports /\ report'.error = report.error /\ report'.stored = report.stored
      /\ report'.failed = report.failed + Loa!Counted(c) /\ report.failed \in Nat
  <2> DEFINE n == report.failed + Loa!Counted(c)
  <2>1. report.failed \in Nat /\ n \in Nat
    BY <1>2, <1>3, ReportFields
  <2>2. report' = [report EXCEPT !.failed = n]
    BY <1>1
  <2>3. n = report.failed + Loa!Counted(c)
    OBVIOUS
  <2> HIDE DEF n
  <2>4. report' \in Reports /\ report'.error = report.error /\ report'.stored = report.stored /\ report'.failed = n
    BY <1>2, <2>1, <2>2, SetFailed
  <2> QED
    BY <2>1, <2>3, <2>4
<1>5. /\ archived' \in [Parts -> SUBSET Loa!Contents]
      /\ \A p \in Parts : archived[p] \subseteq archived'[p]
      /\ SkippedBy(loader, c) \/ c \in archived'[part]
  BY <1>1, <1>2, ByPolicy DEF Loa!Archive, LoadTypes
<1>6. \/ /\ Whole(loader) \/ SkippedBy(loader, c)
         /\ part < Loa!Max(Parts) /\ part' = part + 1 /\ step' = "read"
      \/ /\ Whole(loader) /\ ~(part < Loa!Max(Parts)) /\ part' = 1 /\ step' = "replace"
      \/ /\ ~Whole(loader) /\ SkippedBy(loader, c) /\ ~(part < Loa!Max(Parts))
         /\ part' = 1 /\ step' = "report"
      \/ ~Whole(loader) /\ ~SkippedBy(loader, c) /\ part' = part /\ step' = "read"
  BY <1>1, ByPolicy DEF Loa!Onward
<1> HIDE DEF c
<1>7. part' \in Parts /\ got'[part] = c /\ \A p \in Parts \ {part} : got'[p] = got[p]
  BY <1>1, <1>2, <1>6, PartsBefore DEF LoadTypes
<1>8. LoadTypes'
  <2>1. got' \in [Parts -> Loa!Contents \union {None}]
    BY <1>1, <1>2 DEF LoadTypes
  <2>2. step' \in {"idle", "read", "replace", "report"}
    BY <1>6
  <2> QED
    BY <1>1, <1>4, <1>5, <1>7, <2>1, <2>2 DEF LoadTypes
<1>9. Archived' /\ OldOrNew' /\ SavedIsReport'
  <2>1. Archived'
    BY <1>1, <1>5, <1>7 DEF Archived
  <2>2. OldOrNew' /\ SavedIsReport'
    BY <1>1, <1>2, <1>7 DEF OldOrNew, SavedIsReport
  <2> QED
    BY <2>1, <2>2
<1>10. WholeAtOnce'
  BY <1>1, <1>4, <1>6 DEF WholeAtOnce
<1>11. Counts'
  BY <1>3, <1>4, <1>7 DEF Counts
<1>12. Ahead'
  <2>1. CASE part' = part + 1 /\ step' = "read"
    <3>1. \A p \in Parts : p >= part + 1 => p # part /\ p > part
      BY <1>2, PartsBefore
    <3>2. \A p \in Parts : p >= part + 1 => got'[p] = None
      BY <1>1, <1>7, <3>1 DEF Ahead
    <3> QED
      BY <1>2, <1>7, <2>1, <3>2, PartsBefore DEF Ahead
  <2>2. CASE step' # "read"
    BY <2>2 DEF Ahead
  <2>3. CASE ~Whole(loader) /\ ~SkippedBy(loader, c) /\ part' = part /\ step' = "read"
    <3>1. \A p \in Parts : p > part => got'[p] = None
      BY <1>1, <1>2, <1>7, PartsBefore DEF Ahead
    <3> QED
      BY <1>1, <1>7, <2>3, <3>1 DEF Ahead
  <2> QED
    BY <1>6, <2>1, <2>2, <2>3
<1>13. Behind'
  <2> SUFFICES ASSUME ~report'.error PROVE Behind'
    BY DEF Behind
  <2>1. \A p \in Parts : p < part => got'[p] # None /\ (Whole(loader) \/ Copied(p)')
    <3>1. \A p \in Parts : p < part => p # part /\ got[p] # None /\ (Whole(loader) \/ Copied(p))
      BY <1>1, <1>2, <1>4, PartsBefore DEF Behind
    <3> QED
      BY <1>1, <1>7, <3>1 DEF Copied
  <2>2. \A p \in Parts : p = part => got'[p] # None /\ (SkippedBy(loader, c) => Copied(p)')
    BY <1>1, <1>2, <1>7 DEF Copied
  <2>3. CASE part' = part /\ step' = "read"
    BY <1>1, <2>1, <2>3 DEF Behind
  <2>4. CASE /\ Whole(loader) \/ SkippedBy(loader, c)
             /\ part' = part + 1 /\ step' = "read"
    <3>1. \A p \in Parts : p < part' => p < part \/ p = part
      BY <1>2, <2>4, PartsBefore
    <3>2. \A p \in Parts : p < part' => got'[p] # None /\ (Whole(loader) \/ Copied(p)')
      BY <2>1, <2>2, <2>4, <3>1
    <3> QED
      BY <1>1, <2>4, <3>2 DEF Behind
  <2>5. CASE ~(part < Loa!Max(Parts)) /\ Whole(loader) /\ step' = "replace"
    <3>1. \A p \in Parts : p < part \/ p = part
      BY <1>2, <2>5, PartsBefore
    <3> QED
      BY <2>1, <2>2, <2>5, <3>1 DEF Behind
  <2>6. CASE ~(part < Loa!Max(Parts)) /\ ~Whole(loader) /\ SkippedBy(loader, c) /\ step' = "report"
    <3>1. \A p \in Parts : p < part \/ p = part
      BY <1>2, <2>6, PartsBefore
    <3> QED
      BY <1>1, <2>1, <2>2, <2>6, <3>1 DEF Behind
  <2> QED
    BY <1>6, <2>3, <2>4, <2>5, <2>6
<1>14. StoredIsThere'
  <2> DEFINE below == Cardinality(RowsOf(table, 1..(part - 1)))
  <2>1. below \in Nat /\ report.stored \in Nat /\ (~Whole(loader) => report.stored <= below)
    BY <1>1, <1>2, PartsBefore, RowsAreCounted, ReportFields DEF StoredIsThere
  <2>2. CASE part' = part + 1 /\ part < Loa!Max(Parts)
    <3>1. /\ Cardinality(RowsOf(table, 1..part)) \in Nat
          /\ below <= Cardinality(RowsOf(table, 1..part))
      BY <1>2, PartsBefore, RowsAreCounted, MoreParts
    <3>2. part' - 1 = part
      BY <1>2, <2>2, PartsBefore
    <3>3. step' = "read"
      BY <1>2, <1>6, <2>2, PartsBefore
    <3> HIDE DEF below
    <3> QED
      BY <1>1, <1>4, <2>1, <3>1, <3>2, <3>3 DEF StoredIsThere
  <2>3. CASE ~Whole(loader) /\ step' = "report"
    <3>1. /\ Cardinality(RowsOf(table, Parts)) \in Nat
          /\ below <= Cardinality(RowsOf(table, Parts))
      BY <1>2, PartsBefore, RowsAreCounted, MoreParts
    <3> HIDE DEF below
    <3> QED
      BY <1>1, <1>4, <2>1, <2>3, <3>1 DEF StoredIsThere
  <2>4. CASE step' = "replace"
    BY <2>4 DEF StoredIsThere
  <2>5. CASE part' = part /\ step' = "read"
    BY <1>1, <1>4, <2>1, <2>5 DEF StoredIsThere
  <2> QED
    BY <1>6, <2>2, <2>3, <2>4, <2>5
<1> QED
  BY <1>8, <1>9, <1>10, <1>11, <1>12, <1>13, <1>14

LEMMA PartReplaced ==
  ASSUME LoadInv, Loa!ReplacePart
  PROVE  LoadInv'
<1> USE DEF LoadInv
<1>1. /\ step = "read" /\ got[part] # None /\ table' = [table EXCEPT ![part] = KeptBy(loader, got[part])]
      /\ report' = [report EXCEPT !.stored = @ + Cardinality(KeptBy(loader, got[part]).rows)]
      /\ Loa!Onward(part)
      /\ UNCHANGED <<loader, source, archived, got, saved, before>>
  BY ByPolicy, CountLoads DEF Loa!ReplacePart, Loa!Rows
<1>2. /\ part \in Parts /\ got[part] \in Loa!Contents /\ saved = None /\ loader \in Sources
      /\ table \in Tables /\ report \in Reports
      /\ ~Whole(loader) /\ ~SkippedBy(loader, got[part])
  BY <1>1 DEF LoadTypes, SavedIsReport, Ahead
<1>3. /\ KeptBy(loader, got[part]) \in Loa!Contents
      /\ table'[part] = KeptBy(loader, got[part]) /\ \A p \in Parts \ {part} : table'[p] = table[p]
      /\ table' \in Tables
  BY <1>1, <1>2, KeptContents DEF Tables
<1> DEFINE m == Cardinality(KeptBy(loader, got[part]).rows)
           n == report.stored + m
           below == Cardinality(RowsOf(table, 1..(part - 1)))
           upto == Cardinality(RowsOf(table', 1..part))
<1>4. m \in Nat /\ upto = below + m
  BY <1>2, <1>3, OneMorePart
<1>5. below \in Nat /\ report.stored \in Nat /\ report.stored <= below
  BY <1>1, <1>2, PartsBefore, RowsAreCounted, ReportFields DEF StoredIsThere
<1>6. report' = [report EXCEPT !.stored = n] /\ n = report.stored + m
  BY <1>1
<1> HIDE DEF m
<1>7. n \in Nat /\ n <= upto
  BY <1>4, <1>5
<1> HIDE DEF n, below
<1>8. /\ report' \in Reports /\ report'.error = report.error /\ report'.failed = report.failed
      /\ report'.stored = n
  BY <1>2, <1>6, <1>7, SetStored
<1>9. \/ part < Loa!Max(Parts) /\ part' = part + 1 /\ step' = "read"
      \/ ~(part < Loa!Max(Parts)) /\ part' = 1 /\ step' = "report"
  BY <1>1, <1>2, ByPolicy DEF Loa!Onward
<1>10. part' \in Parts
  BY <1>2, <1>9, PartsBefore
<1>11. LoadTypes'
  BY <1>1, <1>3, <1>8, <1>9, <1>10 DEF LoadTypes
<1>12. Archived' /\ OldOrNew' /\ SavedIsReport' /\ WholeAtOnce' /\ Counts'
  <2>1. got[part] \in archived[part]
    BY <1>1, <1>2 DEF Archived
  <2>2. Archived' /\ OldOrNew'
    BY <1>1, <1>2, <1>3, <2>1 DEF Archived, OldOrNew
  <2>3. SavedIsReport' /\ WholeAtOnce'
    BY <1>1, <1>2, <1>9 DEF SavedIsReport, WholeAtOnce
  <2>4. Counts'
    BY <1>1, <1>8 DEF Counts
  <2> QED
    BY <2>2, <2>3, <2>4
<1>13. Ahead'
  <2>1. CASE part' = part + 1 /\ step' = "read"
    <3>1. \A p \in Parts : p >= part + 1 => got'[p] = None
      BY <1>1, <1>2, PartsBefore DEF Ahead
    <3> QED
      BY <1>2, <1>10, <2>1, <3>1, PartsBefore DEF Ahead
  <2>2. CASE step' = "report"
    BY <2>2 DEF Ahead
  <2> QED
    BY <1>9, <2>1, <2>2
<1>14. Behind'
  <2> SUFFICES ASSUME ~report'.error PROVE Behind'
    BY DEF Behind
  <2>1. \A p \in Parts : p < part \/ p = part => got'[p] # None /\ Copied(p)'
    <3>1. \A p \in Parts : p < part => p # part /\ got[p] # None /\ Copied(p)
      BY <1>1, <1>2, <1>8, PartsBefore DEF Behind
    <3>2. \A p \in Parts : p < part => got'[p] # None /\ Copied(p)'
      BY <1>1, <1>3, <3>1 DEF Copied
    <3>3. \A p \in Parts : p = part => got'[p] # None /\ Copied(p)'
      BY <1>1, <1>2, <1>3 DEF Copied
    <3> QED
      BY <3>2, <3>3
  <2>2. CASE part' = part + 1 /\ step' = "read"
    <3>1. \A p \in Parts : p < part' => p < part \/ p = part
      BY <1>2, <2>2, PartsBefore
    <3>2. \A p \in Parts : p < part' => got'[p] # None /\ Copied(p)'
      BY <2>1, <3>1
    <3> QED
      BY <2>2, <3>2 DEF Behind
  <2>3. CASE ~(part < Loa!Max(Parts)) /\ step' = "report"
    <3>1. \A p \in Parts : p < part \/ p = part
      BY <1>2, <2>3, PartsBefore
    <3> QED
      BY <2>1, <2>3, <3>1 DEF Behind
  <2> QED
    BY <1>9, <2>2, <2>3
<1>15. StoredIsThere'
  <2>1. CASE part' = part + 1 /\ step' = "read"
    <3>1. part' - 1 = part
      BY <1>2, <2>1, PartsBefore
    <3> QED
      BY <1>7, <1>8, <2>1, <3>1 DEF StoredIsThere
  <2>2. CASE ~(part < Loa!Max(Parts)) /\ step' = "report"
    <3>1. 1..part = Parts
      BY <1>2, <2>2, PartsBefore
    <3> QED
      BY <1>7, <1>8, <2>2, <3>1 DEF StoredIsThere
  <2> QED
    BY <1>9, <2>1, <2>2
<1> QED
  BY <1>11, <1>12, <1>13, <1>14, <1>15

LEMMA RowsReadAreCounted ==
  ASSUME LoadInv
  PROVE  Cardinality(Loa!RowsOfAll) \in Nat
<1> DEFINE S == {p \in Parts : got[p] # None}
           t == [p \in Parts |-> IF got[p] # None THEN KeptBy(loader, got[p]) ELSE table[p]]
<1>1. \A p \in S : got[p] \in Loa!Contents /\ loader \in Sources
  BY DEF LoadInv, LoadTypes
<1>2. t \in Tables
  BY <1>1, KeptContents DEF LoadInv, LoadTypes, Tables
<1>3. \A p \in S : Loa!Rows(got[p]) = t[p].rows
  BY ByPolicy DEF Loa!Rows
<1>4. Loa!RowsOfAll = RowsOf(t, S)
  BY <1>3 DEF Loa!RowsOfAll, RowsOf
<1> HIDE DEF t
<1> QED
  BY <1>2, <1>4, RowsAreCounted

LEMMA AllReplaced ==
  ASSUME LoadInv, Loa!ReplaceAll
  PROVE  LoadInv'
<1> USE DEF LoadInv
<1> DEFINE n == Cardinality(Loa!RowsOfAll)
<1>1. /\ step = "replace" /\ table' = Loa!Replaced /\ report' = [report EXCEPT !.stored = n]
      /\ step' = "report"
      /\ UNCHANGED <<loader, source, archived, part, got, saved, before>>
  BY CountLoads DEF Loa!ReplaceAll
<1>2. /\ Whole(loader) /\ loader \in Sources /\ table = before /\ ~report.error /\ report \in Reports
      /\ saved = None
      /\ \A p \in Parts : got[p] # None /\ got[p] \in Loa!Contents
  BY <1>1 DEF WholeAtOnce, LoadTypes, Behind, SavedIsReport
<1>3. \A p \in Parts :
        table'[p] = IF SkippedBy(loader, got[p]) THEN table[p] ELSE KeptBy(loader, got[p])
  <2>1. \A p \in Parts : SkippedBy(loader, got[p]) => Loa!Policy.table.old = "stays"
    BY <1>2, WholeLoaders DEF SkippedBy, Loa!Policy
  <2> QED
    BY <1>1, <1>2, <2>1, ByPolicy DEF Loa!Replaced
<1>4. table' \in Tables
  <2>1. table' = [p \in Parts |-> table'[p]]
    BY <1>1 DEF Loa!Replaced
  <2>2. \A p \in Parts : table'[p] \in Loa!Contents
    BY <1>2, <1>3, KeptContents DEF LoadTypes, Tables
  <2> QED
    BY <2>1, <2>2 DEF Tables
<1>5. n \in Nat /\ n <= Cardinality(RowsOf(table', Parts))
  <2>1. \A p \in Parts : Loa!Rows(got[p]) \subseteq table'[p].rows
    <3>1. \A p \in Parts : Loa!Rows(got[p]) = got[p].rows \ Bad /\ Loa!Rows(got[p]) = KeptBy(loader, got[p]).rows
      BY <1>2, KeptContents, ByPolicy DEF Loa!Rows
    <3> QED
      BY <1>3, <3>1 DEF SkippedBy
  <2>2. Loa!RowsOfAll \subseteq RowsOf(table', Parts)
    BY <2>1 DEF Loa!RowsOfAll, RowsOf
  <2>3. IsFiniteSet(RowsOf(table', Parts))
    BY <1>4, RowsAreCounted
  <2> QED
    BY <2>2, <2>3, RowsReadAreCounted, FS_Subset
<1> HIDE DEF n
<1>6. /\ report' \in Reports /\ report'.error = report.error /\ report'.failed = report.failed
      /\ report'.stored = n
  BY <1>1, <1>2, <1>5, SetStored
<1>7. LoadTypes'
  BY <1>1, <1>4, <1>6 DEF LoadTypes
<1>8. Archived'
  BY <1>1, <1>2, <1>3 DEF Archived
<1>9. OldOrNew' /\ WholeAtOnce' /\ Ahead' /\ SavedIsReport'
  BY <1>1, <1>2, <1>3, <1>6 DEF OldOrNew, WholeAtOnce, Ahead, SavedIsReport
<1>10. Behind'
  BY <1>1, <1>2, <1>3 DEF Behind, Copied
<1>11. Counts' /\ StoredIsThere'
  BY <1>1, <1>5, <1>6 DEF Counts, StoredIsThere
<1> QED
  BY <1>7, <1>8, <1>9, <1>10, <1>11

LEMMA AllFails ==
  ASSUME LoadInv, Loa!ReplaceAllFails
  PROVE  LoadInv'
<1> USE DEF LoadInv
<1> DEFINE n == IF loader = "registry" THEN Cardinality(Loa!RowsOfAll) ELSE report.stored
<1>1. /\ step = "replace" /\ report' = [report EXCEPT !.error = TRUE, !.stored = n]
      /\ step' = "report"
      /\ UNCHANGED <<loader, source, table, archived, part, got, saved, before>>
  BY CountLoads DEF Loa!ReplaceAllFails
<1>2. /\ Whole(loader) /\ report.stored = 0 /\ report \in Reports /\ saved = None /\ table = before
      /\ table \in Tables
  BY <1>1 DEF WholeAtOnce, LoadTypes, SavedIsReport
<1>3. n \in Nat /\ (loader # "registry" => n = 0)
  BY <1>2, RowsReadAreCounted
<1> HIDE DEF n
<1>4. report' \in Reports /\ report'.error = TRUE /\ report'.stored = n
  BY <1>1, <1>2, <1>3 DEF Reports
<1>5. LoadTypes' /\ Archived' /\ OldOrNew' /\ WholeAtOnce'
  BY <1>1, <1>2, <1>4 DEF LoadTypes, Archived, OldOrNew, WholeAtOnce
<1>6. Ahead' /\ Behind' /\ Counts' /\ SavedIsReport'
  BY <1>1, <1>2, <1>4 DEF Ahead, Behind, Counts, SavedIsReport
<1>7. StoredIsThere'
  <2>1. Cardinality(RowsOf(table, Parts)) \in Nat
    BY <1>2, RowsAreCounted
  <2> QED
    BY <1>1, <1>3, <1>4, <2>1 DEF StoredIsThere
<1> QED
  BY <1>5, <1>6, <1>7

LEMMA LoadStep == LoadInv /\ [Loa!Next]_(Loa!vars) => LoadInv'
<1> SUFFICES ASSUME LoadInv, [Loa!Next]_(Loa!vars) PROVE LoadInv'
  OBVIOUS
<1>1. CASE UNCHANGED Loa!vars
  <2>1. UNCHANGED <<loader, source, table, archived, step, part, got, report, saved, before>>
    BY <1>1 DEF Loa!vars
  <2>2. LoadTypes' /\ Archived' /\ OldOrNew' /\ WholeAtOnce' /\ Ahead'
    BY <2>1 DEF LoadInv, LoadTypes, Archived, OldOrNew, WholeAtOnce, Ahead
  <2>3. Behind' /\ Counts' /\ StoredIsThere' /\ SavedIsReport'
    BY <2>1 DEF LoadInv, Behind, Counts, StoredIsThere, SavedIsReport, Copied
  <2> QED
    BY <2>2, <2>3 DEF LoadInv
<1>2. CASE Loa!Next
  BY <1>2, SourceChanges, LoadBegins, LoadEnds, ReadGoesWrong, PartRead, PartReplaced,
     AllReplaced, AllFails DEF Loa!Next, Loa!Work
<1> QED
  BY <1>1, <1>2

LEMMA LoadsHold ==
  LoadInv => /\ Loa!TypeOK /\ Loa!AllOrNothing /\ Loa!ArchivedFirst
             /\ Loa!CleanReportMeansCopied /\ Loa!StoredIsInTheTable
<1> SUFFICES ASSUME LoadInv
             PROVE  /\ Loa!TypeOK /\ Loa!AllOrNothing /\ Loa!ArchivedFirst
                    /\ Loa!CleanReportMeansCopied /\ Loa!StoredIsInTheTable
  OBVIOUS
<1> USE DEF LoadInv
<1>1. Loa!TypeOK
  BY DEF LoadTypes, Tables, Loa!TypeOK
<1>2. Loa!AllOrNothing /\ Loa!ArchivedFirst
  BY ByPolicy DEF OldOrNew, WholeAtOnce, Archived, Loa!AllOrNothing, Loa!ArchivedFirst
<1>3. Loa!CleanReportMeansCopied
  <2> SUFFICES ASSUME saved # None, ~saved.error, saved.failed = 0, NEW p \in Parts
               PROVE  /\ got[p] # None
                      /\ ~SkippedBy(loader, got[p]) => table[p].rows = got[p].rows
                      /\ SkippedBy(loader, got[p]) => table[p] = before[p]
    BY ByPolicy DEF Loa!CleanReportMeansCopied
  <2>1. got[p] # None /\ Copied(p) /\ got[p].rows \intersect Bad = {}
    BY DEF SavedIsReport, Counts
  <2>2. KeptBy(loader, got[p]).rows = got[p].rows \ Bad
    BY <2>1, KeptContents DEF LoadTypes
  <2> QED
    BY <2>1, <2>2 DEF Copied
<1>4. Loa!StoredIsInTheTable
  <2>1. Loa!RowsIn(table) = RowsOf(table, Parts)
    BY DEF Loa!RowsIn, RowsOf
  <2> QED
    BY <2>1, CountLoads DEF StoredIsThere, Loa!StoredIsInTheTable
<1> QED
  BY <1>1, <1>2, <1>3, <1>4

LEMMA RunsLoads ==
  RecordsSpec => \/ []~(mode = "loads")
                 \/ [](mode = "loads") /\ Loa!Init /\ [][Loa!Next]_(Loa!vars)
<1>1. RecordsInit /\ mode = "loads" => Loa!Init
  BY DEF RecordsInit
<1>2. mode = "loads" /\ [RecordsNext]_RecordVars => [Loa!Next]_(Loa!vars) /\ (mode = "loads")'
  BY DEF RecordsNext, Others, RecordVars, loading, Loa!vars
<1>3. ~(mode = "loads") /\ [RecordsNext]_RecordVars => (~(mode = "loads"))'
  BY SameMode
<1> QED
  BY <1>1, <1>2, <1>3, PTL DEF RecordsSpec

\* Whatever the source publishes while a load runs, and wherever the load fails or
\* is killed, each part of the table is what the load found or what it read, nothing
\* is stored that was not archived first, a clean report says the table is the copy
\* of what was read, and no report counts more than the table has, but for those
\* with an error of the registry, which counts before it stores.
THEOREM LoadsAreRight == RecordsSpec => []LoadsSafe
<1>1. ~(mode = "loads") => LoadsSafe
  BY DEF LoadsSafe
<1>2. LoadInv => LoadsSafe
  BY LoadsHold DEF LoadsSafe
<1>3. Loa!Init /\ [][Loa!Next]_(Loa!vars) => []LoadInv
  BY LoadStart, LoadStep, PTL
<1> QED
  BY <1>1, <1>2, <1>3, RunsLoads, PTL
=============================================================================
