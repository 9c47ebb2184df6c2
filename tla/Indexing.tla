------------------------------ MODULE Indexing ------------------------------
(***************************************************************************)
(* The worker that indexes editions: the handler of gazette.fetched        *)
(* (IndexGazette), its transaction on gazettes and acts (SaveWithActs), the *)
(* connection pool the handlers share, and the reindexation of stored      *)
(* editions (ReindexGazettes).                                             *)
(*                                                                         *)
(* An edition is identified by the checksum of its PDF.  Two deliveries of *)
(* the same event may run together: the unique checksum makes the second   *)
(* INSERT wait for the first transaction and then insert nothing, and the  *)
(* handler asks for the id of the other row on a second connection, while  *)
(* its transaction still holds the first.                                  *)
(***************************************************************************)
EXTENDS Naturals, FiniteSets

CONSTANTS
  Paths,       \* names of objects in the bucket
  Sums,        \* checksums of PDFs
  Absent,      \* no PDF, no row, nothing in progress
  Workers,     \* executions of the handler that may run together
  PoolSize,    \* SetMaxOpenConns
  MaxAttempts, \* max_delivery_attempts of the push subscription
  MaxFaults,   \* bound on failed calls and crashes
  MaxReindex,  \* bound on editions reindexed
  MaxFetches   \* bound on PDFs and events the scraper writes

ASSUME IndexingAssumption ==
  /\ IsFiniteSet(Workers)
  /\ Paths # {} /\ Sums # {}
  /\ Absent \notin Paths \union Sums
  /\ PoolSize \in Nat \ {0}
  /\ MaxAttempts \in Nat \ {0}
  /\ MaxFaults \in Nat
  /\ MaxReindex \in Nat
  /\ MaxFetches \in Nat

Topic == INSTANCE PushTopic

\* A gazette.fetched event: the storage path and the checksum it carries.
Events == Paths \X Sums
PathIn(ev) == ev[1]
SumIn(ev)  == ev[2]

VARIABLES
  pdf,        \* pdf[p]: the PDF stored at p
  queue,      \* queue[ev]: the message of ev
  fetches,    \* PDFs stored and events published so far
  gazettes,   \* gazettes[c]: path of the committed row with checksum c
  acts,       \* acts[c]: the PDF the committed acts of that row come from
  told,       \* checksums whose gazette.indexed was published
  pc,         \* pc[w]: the call worker w makes next
  event,      \* event[w]: the event w is handling
  text,       \* text[w]: the PDF whose text w extracted
  conns,      \* workers whose transaction holds a connection
  inserting,  \* workers whose transaction has inserted an uncommitted row
  reindex,    \* the edition being reindexed and the PDF read for it
  reindexed,  \* editions reindexed so far
  faults      \* failed calls and crashes so far

store == <<gazettes, acts>>
work  == <<pc, event, text, conns, inserting>>
other == <<reindex, reindexed>>
vars == <<pdf, queue, fetches, gazettes, acts, told, pc, event, text, conns,
          inserting, reindex, reindexed, faults>>

Steps == {"idle", "find", "get", "begin", "insert", "lookup", "fill",
          "publish", "reply"}

AnyEvent == CHOOSE ev \in Events : TRUE
NoReindex == <<Absent, Absent>>

Init ==
  /\ pdf = [p \in Paths |-> Absent]
  /\ queue = [ev \in Events |-> Topic!Unpublished]
  /\ fetches = 0
  /\ gazettes = [c \in Sums |-> Absent]
  /\ acts = [c \in Sums |-> Absent]
  /\ told = {}
  /\ pc = [w \in Workers |-> "idle"]
  /\ event = [w \in Workers |-> AnyEvent]
  /\ text = [w \in Workers |-> Absent]
  /\ conns = {}
  /\ inserting = {}
  /\ reindex = NoReindex
  /\ reindexed = 0
  /\ faults = 0

-----------------------------------------------------------------------------
(***************************************************************************)
(* The scraper and the push subscription.                                  *)
(***************************************************************************)

\* The scraper stores a PDF, perhaps over the one of an earlier run.
Stored(p, c) ==
  /\ fetches < MaxFetches
  /\ fetches' = fetches + 1
  /\ pdf' = [pdf EXCEPT ![p] = c]
  /\ UNCHANGED <<queue, store, told, work, other, faults>>

\* The scraper announces a PDF it has stored, for the first time or again.
Fetched(ev) ==
  /\ fetches < MaxFetches
  /\ fetches' = fetches + 1
  /\ pdf[PathIn(ev)] # Absent
  /\ queue' = [queue EXCEPT ![ev] = Topic!Published]
  /\ UNCHANGED <<pdf, store, told, work, other, faults>>

DeadLetter(ev) ==
  /\ Topic!CanGiveUp(queue[ev])
  /\ \A w \in Workers : pc[w] = "idle" \/ event[w] # ev
  /\ queue' = [queue EXCEPT ![ev] = Topic!GivenUp(@)]
  /\ UNCHANGED <<pdf, fetches, store, told, work, other, faults>>

-----------------------------------------------------------------------------
(***************************************************************************)
(* One delivery.                                                           *)
(***************************************************************************)

Fault == faults < MaxFaults /\ faults' = faults + 1

Goto(w, step) == pc' = [pc EXCEPT ![w] = step]

FreeConn == Cardinality(conns) < PoolSize

Sum(w) == SumIn(event[w])

Start(w, ev) ==
  /\ pc[w] = "idle"
  /\ Topic!CanDeliver(queue[ev])
  /\ queue' = [queue EXCEPT ![ev] = Topic!Delivered(@)]
  /\ event' = [event EXCEPT ![w] = ev]
  /\ Goto(w, "find")
  /\ UNCHANGED <<pdf, fetches, store, told, text, conns, inserting, other, faults>>

\* Mutant: an edition already indexed is not announced again.
FindAndReply(w) ==
  /\ pc[w] = "find"
  /\ FreeConn
  /\ Goto(w, IF gazettes[Sum(w)] # Absent THEN "reply" ELSE "get")
  /\ UNCHANGED <<pdf, queue, fetches, store, told, event, text, conns, inserting, other, faults>>

\* FindIDByChecksum: an edition already indexed is only announced once more.
Find(w) ==
  /\ pc[w] = "find"
  /\ FreeConn
  /\ Goto(w, IF gazettes[Sum(w)] # Absent THEN "publish" ELSE "get")
  /\ UNCHANGED <<pdf, queue, fetches, store, told, event, text, conns, inserting, other, faults>>

\* storage.Get, Extract and the parser: whatever is at the path by now.
Get(w) ==
  /\ pc[w] = "get"
  /\ pdf[PathIn(event[w])] # Absent
  /\ text' = [text EXCEPT ![w] = pdf[PathIn(event[w])]]
  /\ Goto(w, "begin")
  /\ UNCHANGED <<pdf, queue, fetches, store, told, event, conns, inserting, other, faults>>

Begin(w) ==
  /\ pc[w] = "begin"
  /\ FreeConn
  /\ conns' = conns \union {w}
  /\ Goto(w, "insert")
  /\ UNCHANGED <<pdf, queue, fetches, store, told, event, text, inserting, other, faults>>

\* INSERT ... ON CONFLICT (checksum) DO NOTHING waits for a transaction that
\* has inserted the same checksum, and inserts nothing if that one committed.
Insert(w) ==
  /\ pc[w] = "insert"
  /\ \A v \in inserting : Sum(v) # Sum(w)
  /\ IF gazettes[Sum(w)] = Absent
     THEN inserting' = inserting \union {w} /\ Goto(w, "fill")
     ELSE UNCHANGED inserting /\ Goto(w, "lookup")
  /\ UNCHANGED <<pdf, queue, fetches, store, told, event, text, conns, other, faults>>

\* FindIDByChecksum on another connection, then the deferred rollback.
Lookup(w) ==
  /\ pc[w] = "lookup"
  /\ FreeConn
  /\ conns' = conns \ {w}
  /\ Goto(w, "publish")
  /\ UNCHANGED <<pdf, queue, fetches, store, told, event, text, inserting, other, faults>>

\* insertActs, linkActs and the commit.
Commit(w) ==
  /\ gazettes' = [gazettes EXCEPT ![Sum(w)] = PathIn(event[w])]
  /\ acts' = [acts EXCEPT ![Sum(w)] = text[w]]

EndTx(w) ==
  /\ conns' = conns \ {w}
  /\ inserting' = inserting \ {w}

\* Mutant: the id of the new row is looked up before the connection is freed.
FillAndLookup(w) ==
  /\ pc[w] = "fill"
  /\ Commit(w)
  /\ inserting' = inserting \ {w}
  /\ Goto(w, "lookup")
  /\ UNCHANGED <<pdf, queue, fetches, told, event, text, conns, other, faults>>

Fill(w) ==
  /\ pc[w] = "fill"
  /\ Commit(w)
  /\ EndTx(w)
  /\ Goto(w, "publish")
  /\ UNCHANGED <<pdf, queue, fetches, told, event, text, other, faults>>

Tell(w) == told' = told \union {Sum(w)}

Publish(w) ==
  /\ pc[w] = "publish"
  /\ Tell(w)
  /\ Goto(w, "reply")
  /\ UNCHANGED <<pdf, queue, fetches, store, event, text, conns, inserting, other, faults>>

GoIdle(w) ==
  /\ Goto(w, "idle")
  /\ event' = [event EXCEPT ![w] = AnyEvent]
  /\ text' = [text EXCEPT ![w] = Absent]

\* 204: the message is acknowledged.
Reply(w) ==
  /\ pc[w] = "reply"
  /\ queue' = [queue EXCEPT ![event[w]] = Topic!Acked(@)]
  /\ GoIdle(w)
  /\ UNCHANGED <<pdf, fetches, store, told, conns, inserting, other, faults>>

\* A call fails, its effect done or not, the process dies or the request times
\* out: the transaction is rolled back and the message is not acknowledged.
Fail(w) ==
  /\ pc[w] # "idle"
  /\ Fault
  /\ \/ UNCHANGED <<store, told>>
     \/ pc[w] = "fill" /\ Commit(w) /\ UNCHANGED told
     \/ pc[w] = "publish" /\ Tell(w) /\ UNCHANGED store
  /\ EndTx(w)
  /\ GoIdle(w)
  /\ UNCHANGED <<pdf, queue, fetches, other>>

-----------------------------------------------------------------------------
(***************************************************************************)
(* ReindexGazettes: one process, an edition at a time.                     *)
(***************************************************************************)

\* reindexOne reads the PDF at the storage path of the row.
ReindexRead(c) ==
  /\ reindex = NoReindex
  /\ reindexed < MaxReindex
  /\ gazettes[c] # Absent
  /\ pdf[gazettes[c]] # Absent
  /\ reindex' = <<c, pdf[gazettes[c]]>>
  /\ reindexed' = reindexed + 1
  /\ UNCHANGED <<pdf, queue, fetches, store, told, work, faults>>

\* ReplaceActs: the old acts and the new ones change places in one transaction.
ReplaceActs ==
  /\ reindex # NoReindex
  /\ acts' = [acts EXCEPT ![reindex[1]] = reindex[2]]
  /\ reindex' = NoReindex
  /\ UNCHANGED <<pdf, queue, fetches, gazettes, told, work, reindexed, faults>>

\* The edition keeps its acts and the run goes on to the next one.
ReindexFails ==
  /\ reindex # NoReindex
  /\ Fault
  /\ reindex' = NoReindex
  /\ UNCHANGED <<pdf, queue, fetches, store, told, work, reindexed>>

-----------------------------------------------------------------------------
Work(w) ==
  \/ Find(w) \/ Get(w) \/ Begin(w) \/ Insert(w) \/ Lookup(w)
  \/ Fill(w) \/ Publish(w) \/ Reply(w)

\* Everything but the scraper.
Worker ==
  \/ \E ev \in Events : DeadLetter(ev)
  \/ \E w \in Workers, ev \in Events : Start(w, ev)
  \/ \E w \in Workers : Work(w) \/ Fail(w)
  \/ \E c \in Sums : ReindexRead(c)
  \/ ReplaceActs \/ ReindexFails

Next ==
  \/ Worker
  \/ \E p \in Paths, c \in Sums : Stored(p, c)
  \/ \E ev \in Events : Fetched(ev)

Fairness ==
  /\ \A w \in Workers : WF_vars(Work(w))
  /\ \A ev \in Events :
       /\ WF_vars(queue[ev].state = "queued" /\ \E w \in Workers : Start(w, ev))
       /\ WF_vars(DeadLetter(ev))

Spec == Init /\ [][Next]_vars
FairSpec == Spec /\ Fairness

-----------------------------------------------------------------------------
(***************************************************************************)
(* Properties.                                                             *)
(***************************************************************************)

\* The variables hold values of the kinds the code gives them.
TypeOK ==
  /\ pdf \in [Paths -> Sums \union {Absent}]
  /\ queue \in [Events -> Topic!Message]
  /\ fetches \in Nat
  /\ gazettes \in [Sums -> Paths \union {Absent}]
  /\ acts \in [Sums -> Sums \union {Absent}]
  /\ told \subseteq Sums
  /\ pc \in [Workers -> Steps]
  /\ event \in [Workers -> Events]
  /\ text \in [Workers -> Sums \union {Absent}]
  /\ conns \subseteq Workers
  /\ inserting \subseteq Workers
  /\ reindex \in (Sums \X Sums) \union {NoReindex}
  /\ reindexed \in Nat
  /\ faults \in Nat

\* gazette.indexed is published only about an edition already committed, with
\* its acts: the handler of that event drops an edition it cannot find.
ToldIsCommitted ==
  \A c \in told : gazettes[c] # Absent /\ acts[c] # Absent

\* An acknowledged gazette.fetched left its edition indexed and announced, even
\* if another delivery of it, or one that failed, did part of the work.
AckMeansIndexed ==
  \A ev \in Events : queue[ev].state = "acked" =>
    gazettes[SumIn(ev)] # Absent /\ SumIn(ev) \in told

\* The unique checksum serializes the transactions on one edition.
OneInserter ==
  \A v, w \in inserting : Sum(v) = Sum(w) => v = w

\* Transactions that wait for a second connection never hold the whole pool.
\* It takes a handler that is not waiting, so no more handlers than
\* connections may run.
NoPoolStall ==
  Cardinality({w \in Workers : pc[w] = "lookup"}) < PoolSize

FetchedSettled(ev) ==
  \/ gazettes[SumIn(ev)] # Absent /\ SumIn(ev) \in told
  \/ queue[ev].state = "dead"

\* A published event always ends: its edition indexed and announced, or the
\* message in the dead letters.
FetchedIsIndexed ==
  \A ev \in Events : queue[ev].state = "queued" ~> FetchedSettled(ev)
=============================================================================
