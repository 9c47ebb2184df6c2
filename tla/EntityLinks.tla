----------------------------- MODULE EntityLinks -----------------------------
(***************************************************************************)
(* The links between acts and the entities they mention, kept by the       *)
(* transactions that index an edition and by those that replace the acts   *)
(* of one already indexed.  entity_links has no foreign key to acts.  The   *)
(* statements run in READ COMMITTED: each sees what was committed when it  *)
(* starts and, before it changes a row, waits for whoever is changing it.   *)
(***************************************************************************)
EXTENDS Naturals, FiniteSets, FiniteSetsExt

CONSTANTS
  Reindexers, \* runs of the reindexing over the edition that is in the base
  Workers,    \* each one indexes an edition of its own
  Keys,       \* keys of entities, 1..n in the order of the INSERT
  Edition,    \* the edition that is in the base
  MaxAgain,   \* bound on the transactions run again
  MaxFaults

VARIABLES
  acts,     \* committed acts: [id, gazette, cites], one per edition
  links,    \* committed links: [act, key]
  entities, \* committed keys
  step,     \* step[p]: the statement transaction p is at
  target,   \* target[p]: the rows its statement found
  gone,     \* gone[p]: the rows it deleted
  own,      \* own[p]: the act it inserted, at most one
  keys,     \* keys[p]: the entities it inserted
  linked,   \* linked[p]: the links it inserted
  nextId, again, faults

base == <<acts, links, entities>>
tx   == <<step, target, gone, own, keys, linked>>
vars == <<base, tx, nextId, again, faults>>

Procs == Reindexers \union Workers
GazetteOf(p) == IF p \in Reindexers THEN Edition ELSE p

ActsOf(g) == {a \in acts : a.gazette = g}

Init ==
  /\ \E cites \in SUBSET Keys :
       /\ acts = {[id |-> 0, gazette |-> Edition, cites |-> cites]}
       /\ links = {[act |-> 0, key |-> k] : k \in cites}
       /\ entities = cites
  /\ step = [p \in Procs |-> "idle"]
  /\ target = [p \in Procs |-> {}]
  /\ gone = [p \in Procs |-> {}]
  /\ own = [p \in Procs |-> {}]
  /\ keys = [p \in Procs |-> {}]
  /\ linked = [p \in Procs |-> {}]
  /\ nextId = 1 /\ again = 0 /\ faults = 0

-----------------------------------------------------------------------------
Go(p, s) == step' = [step EXCEPT ![p] = s]

\* A statement that deletes starts: it finds the rows it will want.
Finds(p, rows, s) ==
  /\ Go(p, s)
  /\ target' = [target EXCEPT ![p] = rows]
  /\ UNCHANGED <<base, gone, own, keys, linked, nextId, again, faults>>

\* The statement waits for the transactions that deleted one of its rows, and
\* deletes those that are still there.
Deletes(p, rows, s) ==
  /\ \A q \in Procs \ {p} : gone[q] \intersect target[p] = {}
  /\ gone' = [gone EXCEPT ![p] = @ \union (target[p] \intersect rows)]
  /\ target' = [target EXCEPT ![p] = {}]
  /\ Go(p, s)
  /\ UNCHANGED <<base, own, keys, linked, nextId, again, faults>>

\* The links of the acts the edition has.
LinksOf(g) == {l \in links : \E a \in ActsOf(g) : a.id = l.act}

\* Mutant: the acts leave before their links are looked for.
StartUnlinkLate(p) ==
  /\ p \in Reindexers /\ step[p] = "idle"
  /\ Finds(p, {l \in LinksOf(Edition) : \A a \in acts : a.id # l.act}, "unlink")

\* ReplaceActs: unlinkActs.
StartUnlink(p) ==
  /\ p \in Reindexers /\ step[p] = "idle"
  /\ Finds(p, LinksOf(Edition), "unlink")

Unlink(p) == step[p] = "unlink" /\ Deletes(p, links, "unlinked")

StartDelete(p) == step[p] = "unlinked" /\ Finds(p, ActsOf(Edition) \ gone[p], "delete")

Delete(p) == step[p] = "delete" /\ Deletes(p, acts, "insert")

\* SaveWithActs: the row of a new edition.
StartSave(p) ==
  /\ p \in Workers /\ step[p] = "idle"
  /\ ActsOf(p) = {}
  /\ Go(p, "insert")
  /\ UNCHANGED <<base, target, gone, own, keys, linked, nextId, again, faults>>

\* What is in the way of an act at its place in the edition.
Rivals(p) == {q \in Procs \ {p} : GazetteOf(q) = GazetteOf(p) /\ (own[q] # {} \/ gone[q] \intersect acts # {})}

\* insertActs, which waits for rivals and fails if the place is taken.
InsertAct(p) ==
  /\ step[p] = "insert" /\ Rivals(p) = {}
  /\ ActsOf(GazetteOf(p)) \subseteq gone[p]
  /\ nextId' = nextId + 1
  /\ \E cites \in SUBSET Keys :
       own' = [own EXCEPT ![p] = {[id |-> nextId, gazette |-> GazetteOf(p), cites |-> cites]}]
  /\ Go(p, "entities")
  /\ UNCHANGED <<base, target, gone, keys, linked, again, faults>>

Cited(p) == UNION {a.cites : a \in own[p]}

Missing(p) == Cited(p) \ (entities \union keys[p])

\* Mutant: each statement has an order of its own.
AnyKey(p) == IF p \in Reindexers THEN Min(Missing(p)) ELSE Max(Missing(p))

\* link_diario_acts: the keys go in by order.
FirstKey(p) == Min(Missing(p))

\* One more key, unless another transaction is inserting it.
InsertKey(p) ==
  /\ step[p] = "entities" /\ Missing(p) # {}
  /\ \A q \in Procs \ {p} : FirstKey(p) \notin keys[q]
  /\ keys' = [keys EXCEPT ![p] = @ \union {FirstKey(p)}]
  /\ UNCHANGED <<base, step, target, gone, own, linked, nextId, again, faults>>

\* Its second statement joins the entities there are.
InsertLinks(p) ==
  /\ step[p] = "entities" /\ Missing(p) = {}
  /\ linked' = [linked EXCEPT ![p] =
       {[act |-> a.id, key |-> k] : a \in own[p], k \in Cited(p) \intersect (entities \union keys[p])}]
  /\ Go(p, "commit")
  /\ UNCHANGED <<base, target, gone, own, keys, nextId, again, faults>>

\* Nothing is left of transaction p.
End(p) ==
  /\ target' = [target EXCEPT ![p] = {}]
  /\ gone' = [gone EXCEPT ![p] = {}]
  /\ own' = [own EXCEPT ![p] = {}]
  /\ keys' = [keys EXCEPT ![p] = {}]
  /\ linked' = [linked EXCEPT ![p] = {}]
  /\ UNCHANGED <<nextId, again>>

Commit(p) ==
  /\ step[p] = "commit"
  /\ acts' = (acts \ gone[p]) \union own[p]
  /\ links' = (links \ gone[p]) \union linked[p]
  /\ entities' = entities \union keys[p]
  /\ End(p) /\ Go(p, "done")
  /\ UNCHANGED faults

\* The place of the act is taken.
Refused(p) ==
  /\ step[p] = "insert" /\ Rivals(p) = {}
  /\ ~(ActsOf(GazetteOf(p)) \subseteq gone[p])
  /\ End(p) /\ Go(p, "done")
  /\ UNCHANGED <<base, faults>>

\* A statement fails, or the process ends.
Fail(p) ==
  /\ step[p] \notin {"idle", "done"}
  /\ faults < MaxFaults /\ faults' = faults + 1
  /\ End(p) /\ Go(p, "done")
  /\ UNCHANGED base

\* The edition is delivered, or the reindexing dispatched, again.
Again(p) ==
  /\ step[p] = "done"
  /\ again < MaxAgain /\ again' = again + 1
  /\ Go(p, "idle")
  /\ UNCHANGED <<base, target, gone, own, keys, linked, nextId, faults>>

Work(p) ==
  \/ StartUnlink(p) \/ Unlink(p) \/ StartDelete(p) \/ Delete(p) \/ StartSave(p)
  \/ InsertAct(p) \/ Refused(p) \/ InsertKey(p) \/ InsertLinks(p) \/ Commit(p)

Next == \E p \in Procs : Work(p) \/ Fail(p) \/ Again(p)

Spec == Init /\ [][Next]_vars /\ \A p \in Procs : WF_vars(Work(p))

-----------------------------------------------------------------------------
\* The variables hold values of the kinds the code gives them.
TypeOK ==
  /\ \A a \in acts : a.id < nextId /\ a.cites \subseteq Keys
  /\ entities \subseteq Keys
  /\ \A l \in links : l.act < nextId /\ l.key \in entities
  /\ step \in [Procs -> {"idle", "unlink", "unlinked", "delete", "insert", "entities", "commit", "done"}]
  /\ \A p \in Procs : Cardinality(own[p]) <= 1 /\ keys[p] \subseteq Keys

\* No link is left to an act that is gone.
NoOrphanLinks == \A l \in links : \E a \in acts : a.id = l.act

\* An act in the base is linked to each entity it mentions and to no other,
\* although the entity was being inserted by another edition and that one failed.
LinkedToWhatItCites ==
  \A a \in acts : {l.key : l \in {m \in links : m.act = a.id}} = a.cites

\* p cannot go on before q ends.
Waits(p, q) ==
  /\ p # q
  /\ \/ step[p] \in {"unlink", "delete"} /\ gone[q] \intersect target[p] # {}
     \/ step[p] = "insert" /\ q \in Rivals(p)
     \/ step[p] = "entities" /\ Missing(p) # {} /\ FirstKey(p) \in keys[q]

\* Two transactions never wait for each other.
NoDeadlock == \A p, q \in Procs : ~(Waits(p, q) /\ Waits(q, p))

\* Every transaction ends.
EveryoneEnds == \A p \in Procs : step[p] # "idle" ~> step[p] = "done"
=============================================================================
