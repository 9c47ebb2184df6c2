----------------------------- MODULE PatternCache ----------------------------
(***************************************************************************)
(* The reports of the patterns: each instance of the API keeps them for a  *)
(* while, one row of the database keeps the last ones computed, and a       *)
(* fingerprint of the tables they are computed from tells whether those     *)
(* changed.  The tables are written by transactions that overlap, and read  *)
(* one statement after another, in no transaction.                         *)
(***************************************************************************)
EXTENDS Naturals, FiniteSets, FiniteSetsExt

CONSTANTS
  Rows,      \* rows of the input tables
  Instances, \* instances of the API
  MaxXid,    \* bound on the transactions
  MaxFaults, \* bound on failed statements
  None

VARIABLES
  xmin,      \* xmin[r]: the transaction that wrote row r, 0 if there is no row
  open,      \* open[x]: what transaction x will have done when it commits
  nextXid,
  store,     \* the row of pattern_snapshots
  reports,   \* reports[i][r]: the version of row r the reports of i came from
  known,     \* known[i]: the fingerprint they are kept under
  fresh,     \* fresh[i]: whether the time to live is not over
  step,      \* step[i]: what the refresh of i does next
  draft,     \* draft[i]: the versions read by the computation under way
  checked,   \* checked[i]: the fingerprint this refresh read
  changed,   \* changed[i]: ghost, rows that changed since i read a fingerprint
  past,      \* ghost: the sizes of the tables with the last transaction that wrote
  repeated,  \* ghost: those that they had more than once
  faults

tables == <<xmin, open, nextXid>>
cache  == <<reports, known, fresh, step, draft, checked>>
vars   == <<tables, store, cache, changed, past, repeated, faults>>

Xids == 1..MaxXid
Count(t) == Cardinality({r \in Rows : t[r] # 0})
Latest(t) == Max({t[r] : r \in Rows} \union {0})

\* How many rows the tables have, and the newest transaction that wrote one.
Size(t) == [count |-> Count(t), latest |-> Latest(t)]

\* Mutant: the rows are not counted.
OnlyLatest(t) == [count |-> 0, latest |-> Latest(t)]

\* PatternInputsFingerprint; the version of the binary is the same in all
\* instances.  The month, its other part, is taken as fixed.
Fingerprint(t) == [count |-> Count(t), latest |-> Latest(t)]

Init ==
  /\ xmin = [r \in Rows |-> 0]
  /\ open = [x \in Xids |-> None]
  /\ nextXid = 1
  /\ store = None
  /\ reports = [i \in Instances |-> None]
  /\ known = [i \in Instances |-> None]
  /\ fresh = [i \in Instances |-> FALSE]
  /\ step = [i \in Instances |-> "idle"]
  /\ draft = [i \in Instances |-> None]
  /\ checked = [i \in Instances |-> None]
  /\ changed = [i \in Instances |-> {}]
  /\ past = {Size(xmin)}
  /\ repeated = {}
  /\ faults = 0

-----------------------------------------------------------------------------
\* A transaction of an indexer or a loader writes some rows and deletes others;
\* the locks keep two of them from the same row.
Begin(writes, deletes) ==
  /\ nextXid \in Xids /\ nextXid' = nextXid + 1
  /\ writes \union deletes # {} /\ writes \intersect deletes = {}
  /\ \A r \in deletes : xmin[r] # 0
  /\ \A x \in Xids : open[x] # None =>
       (writes \union deletes) \intersect (open[x].writes \union open[x].deletes) = {}
  /\ open' = [open EXCEPT ![nextXid] = [writes |-> writes, deletes |-> deletes]]
  /\ UNCHANGED <<xmin, store, cache, changed, past, repeated, faults>>

Commit(x) ==
  /\ open[x] # None
  /\ xmin' = [r \in Rows |->
               IF r \in open[x].writes THEN x ELSE IF r \in open[x].deletes THEN 0 ELSE xmin[r]]
  /\ open' = [open EXCEPT ![x] = None]
  /\ past' = past \union {Size(xmin')}
  /\ repeated' = repeated \union ({Size(xmin')} \intersect past)
  /\ changed' = [i \in Instances |->
                  IF fresh[i] \/ step[i] # "idle"
                  THEN changed[i] \union open[x].writes \union open[x].deletes ELSE {}]
  /\ UNCHANGED <<nextXid, store, cache, faults>>

-----------------------------------------------------------------------------
\* What a refresh holds goes with it.
Leave(i) ==
  /\ step' = [step EXCEPT ![i] = "idle"]
  /\ draft' = [draft EXCEPT ![i] = None]
  /\ checked' = [checked EXCEPT ![i] = None]

\* The refresh of i ends with reports r under fingerprint f.
Keep(i, r, f) ==
  /\ reports' = [reports EXCEPT ![i] = r]
  /\ known' = [known EXCEPT ![i] = f]
  /\ fresh' = [fresh EXCEPT ![i] = TRUE]
  /\ Leave(i)

\* Warm, or a reader that finds the cache old: one refresh at a time, which
\* reads the fingerprint.
Check(i) ==
  /\ step[i] = "idle" /\ ~fresh[i]
  /\ changed' = [changed EXCEPT ![i] = {}]
  /\ IF Fingerprint(xmin) = known[i]
     THEN Keep(i, reports[i], known[i])
     ELSE /\ step' = [step EXCEPT ![i] = "load"]
          /\ checked' = [checked EXCEPT ![i] = Fingerprint(xmin)]
          /\ UNCHANGED <<reports, known, fresh, draft>>
  /\ UNCHANGED <<tables, store, past, repeated, faults>>

\* The input tables are read from the first.
StartComputing(i) ==
  /\ step' = [step EXCEPT ![i] = "compute"]
  /\ draft' = [draft EXCEPT ![i] = [r \in {} |-> 0]]
  /\ UNCHANGED <<reports, known, fresh, checked>>

\* Mutant: whatever is stored will do.
LoadAny(i) ==
  /\ step[i] = "load"
  /\ IF store # None THEN Keep(i, store.reports, checked[i]) ELSE StartComputing(i)
  /\ UNCHANGED <<tables, store, changed, past, repeated, faults>>

Stored(i) == store # None /\ store.fingerprint = checked[i]

\* A store that cannot be read is logged and the reports are computed.
Load(i) ==
  /\ step[i] = "load"
  /\ \/ Stored(i) /\ Keep(i, store.reports, checked[i]) /\ UNCHANGED faults
     \/ ~Stored(i) /\ StartComputing(i) /\ UNCHANGED faults
     \/ faults < MaxFaults /\ faults' = faults + 1 /\ StartComputing(i)
  /\ UNCHANGED <<tables, store, changed, past, repeated>>

\* One statement of compute.
Read(i, r) ==
  /\ step[i] = "compute" /\ r \notin DOMAIN draft[i]
  /\ draft' = [draft EXCEPT ![i] = [q \in DOMAIN draft[i] \union {r} |->
                                      IF q = r THEN xmin[r] ELSE draft[i][q]]]
  /\ UNCHANGED <<tables, store, reports, known, fresh, step, checked, changed, past, repeated, faults>>

\* SavePatternSnapshot, whose failure is only logged.
Save(i) ==
  /\ step[i] = "compute" /\ DOMAIN draft[i] = Rows
  /\ Keep(i, draft[i], checked[i])
  /\ \/ store' = [fingerprint |-> checked[i], reports |-> draft[i]] /\ UNCHANGED faults
     \/ faults < MaxFaults /\ faults' = faults + 1 /\ UNCHANGED store
  /\ UNCHANGED <<tables, changed, past, repeated>>

\* The fingerprint or an input cannot be read, or the two minutes are over: what
\* was kept is served still, and the next reader starts again.
RefreshFails(i) ==
  /\ step[i] # "idle"
  /\ faults < MaxFaults /\ faults' = faults + 1
  /\ Leave(i)
  /\ changed' = [changed EXCEPT ![i] = {}]
  /\ UNCHANGED <<tables, store, reports, known, fresh, past, repeated>>

\* The time to live goes by.
Expire(i) ==
  /\ fresh[i] /\ fresh' = [fresh EXCEPT ![i] = FALSE]
  /\ changed' = [changed EXCEPT ![i] = {}]
  /\ UNCHANGED <<tables, store, reports, known, step, draft, checked, past, repeated, faults>>

\* The instance sleeps and wakes up with nothing in memory.
Restart(i) ==
  /\ reports[i] # None
  /\ reports' = [reports EXCEPT ![i] = None]
  /\ known' = [known EXCEPT ![i] = None]
  /\ fresh' = [fresh EXCEPT ![i] = FALSE]
  /\ changed' = [changed EXCEPT ![i] = {}]
  /\ Leave(i)
  /\ UNCHANGED <<tables, store, past, repeated, faults>>

Refresh(i) == Check(i) \/ Load(i) \/ (\E r \in Rows : Read(i, r)) \/ Save(i)

Next ==
  \/ \E writes, deletes \in SUBSET Rows : Begin(writes, deletes)
  \/ \E x \in Xids : Commit(x)
  \/ \E i \in Instances : Refresh(i) \/ RefreshFails(i) \/ Expire(i) \/ Restart(i)

Spec == Init /\ [][Next]_vars

-----------------------------------------------------------------------------
\* The variables hold values of the kinds the code gives them.
TypeOK ==
  /\ xmin \in [Rows -> 0..MaxXid]
  /\ nextXid \in 1..(MaxXid + 1)
  /\ fresh \in [Instances -> BOOLEAN]
  /\ step \in [Instances -> {"idle", "load", "compute"}]
  /\ \A i \in Instances : fresh[i] => reports[i] \in [Rows -> 0..MaxXid]
  /\ \A x \in Xids : open[x] # None => x < nextXid

\* The rows that did not change since i read the fingerprint are in its reports
\* as they are.
Current(i) == \A r \in Rows \ changed[i] : reports[i][r] = xmin[r]

\* Fresh reports are current, computed here or by another instance, although
\* rows change and instances restart between the statements of both and what
\* they store may mix two states of the tables: a deletion is told by the count
\* and a write by its transaction, unless the tables had the same count and the
\* same newest transaction at two times.
ServedIsCurrent ==
  \A i \in Instances : fresh[i] /\ known[i] \notin repeated => Current(i)

=============================================================================
