---------------------------- MODULE IndexingProof ----------------------------
(***************************************************************************)
(* Proofs about Indexing: its type invariant, what an announcement and an  *)
(* acknowledgement promise, that the unique checksum serializes the        *)
(* transactions, and when the connection pool cannot stall, for any number *)
(* of editions, of workers and of faults.                                  *)
(***************************************************************************)
EXTENDS Indexing, FiniteSetTheorems, TLAPS

LEMMA AnyEventType == AnyEvent \in Events
<1>1. \E ev \in Events : TRUE
  <2>1. PICK p \in Paths, c \in Sums : TRUE
    BY IndexingAssumption
  <2>2. <<p, c>> \in Events
    BY <2>1 DEF Events
  <2> QED
    BY <2>2
<1> QED
  BY <1>1 DEF AnyEvent

LEMMA EventParts ==
  ASSUME NEW ev \in Events
  PROVE  PathIn(ev) \in Paths /\ SumIn(ev) \in Sums
  BY DEF Events, PathIn, SumIn

LEMMA SumType ==
  ASSUME TypeOK, NEW w \in Workers
  PROVE  event[w] \in Events /\ Sum(w) \in Sums /\ PathIn(event[w]) \in Paths
  BY EventParts DEF TypeOK, Sum

\* What the topic does to a message gives a message.
LEMMA MessageType ==
  ASSUME NEW q \in Topic!Message
  PROVE  /\ Topic!CanDeliver(q) => Topic!Delivered(q) \in Topic!Message
         /\ Topic!Acked(q) \in Topic!Message
         /\ Topic!GivenUp(q) \in Topic!Message
  BY IndexingAssumption
  DEF Topic!Message, Topic!MessageStates,
      Topic!CanDeliver, Topic!Delivered, Topic!Acked, Topic!GivenUp

LEMMA TypeInit == Init => TypeOK
<1>1. Topic!Unpublished \in Topic!Message
  BY IndexingAssumption DEF Topic!Message, Topic!MessageStates, Topic!Unpublished
<1> QED
  BY <1>1, AnyEventType DEF Init, TypeOK, Steps, NoReindex

\* The part of the type invariant a commit can disturb.
CommitType ==
  /\ gazettes \in [Sums -> Paths \union {Absent}]
  /\ acts \in [Sums -> Sums \union {Absent}]

LEMMA CommitKeepsType ==
  ASSUME TypeOK, NEW w \in Workers, Commit(w) \/ UNCHANGED store
  PROVE  CommitType'
<1>1. CASE Commit(w)
  BY <1>1, SumType DEF Commit, CommitType, TypeOK
<1>2. CASE UNCHANGED store
  BY <1>2 DEF store, CommitType, TypeOK
<1> QED
  BY <1>1, <1>2

LEMMA TypeStep == TypeOK /\ [Next]_vars => TypeOK'
<1> SUFFICES ASSUME TypeOK, [Next]_vars PROVE TypeOK'
  OBVIOUS
<1> USE DEF TypeOK, Steps, store, work, other, Goto
<1>1. ASSUME NEW p \in Paths, NEW c \in Sums, Stored(p, c) PROVE TypeOK'
  BY <1>1 DEF Stored
<1>2. ASSUME NEW ev \in Events, Fetched(ev) PROVE TypeOK'
  <2>1. Topic!Published \in Topic!Message
    BY IndexingAssumption DEF Topic!Message, Topic!MessageStates, Topic!Published
  <2> QED
    BY <1>2, <2>1 DEF Fetched
<1>3. ASSUME NEW ev \in Events, DeadLetter(ev) PROVE TypeOK'
  BY <1>3, MessageType DEF DeadLetter
<1>4. ASSUME NEW w \in Workers, NEW ev \in Events, Start(w, ev) PROVE TypeOK'
  BY <1>4, MessageType DEF Start
<1>5. ASSUME NEW w \in Workers, Find(w) PROVE TypeOK'
  BY <1>5 DEF Find
<1>6. ASSUME NEW w \in Workers, Get(w) PROVE TypeOK'
  BY <1>6, SumType DEF Get
<1>7. ASSUME NEW w \in Workers, Begin(w) PROVE TypeOK'
  BY <1>7 DEF Begin
<1>8. ASSUME NEW w \in Workers, Insert(w) PROVE TypeOK'
  BY <1>8 DEF Insert
<1>9. ASSUME NEW w \in Workers, Lookup(w) PROVE TypeOK'
  BY <1>9 DEF Lookup
<1>10. ASSUME NEW w \in Workers, Fill(w) PROVE TypeOK'
  <2>1. CommitType'
    BY <1>10, CommitKeepsType DEF Fill
  <2> QED
    BY <1>10, <2>1 DEF Fill, EndTx, CommitType
<1>11. ASSUME NEW w \in Workers, Publish(w) PROVE TypeOK'
  BY <1>11, SumType DEF Publish, Tell
<1>12. ASSUME NEW w \in Workers, Reply(w) PROVE TypeOK'
  BY <1>12, SumType, MessageType, AnyEventType DEF Reply, GoIdle
<1>13. ASSUME NEW w \in Workers, Fail(w) PROVE TypeOK'
  <2>1. CommitType'
    BY <1>13, CommitKeepsType DEF Fail
  <2>2. told' \subseteq Sums
    BY <1>13, SumType DEF Fail, Tell
  <2>3. pc' \in [Workers -> Steps] /\ event' \in [Workers -> Events]
        /\ text' \in [Workers -> Sums \union {Absent}]
        /\ conns' \subseteq Workers /\ inserting' \subseteq Workers
        /\ faults' \in Nat
    BY <1>13, AnyEventType DEF Fail, EndTx, GoIdle, Fault
  <2>4. UNCHANGED <<pdf, queue, fetches, reindex, reindexed>>
    BY <1>13 DEF Fail
  <2> QED
    BY <2>1, <2>2, <2>3, <2>4 DEF CommitType
<1>14. ASSUME NEW c \in Sums, ReindexRead(c) PROVE TypeOK'
  BY <1>14, IndexingAssumption DEF ReindexRead
<1>15. CASE ReplaceActs
  BY <1>15 DEF ReplaceActs
<1>16. CASE ReindexFails
  BY <1>16 DEF ReindexFails, Fault
<1>17. CASE UNCHANGED vars
  BY <1>17 DEF vars
<1> QED
  BY <1>1, <1>2, <1>3, <1>4, <1>5, <1>6, <1>7, <1>8, <1>9, <1>10, <1>11, <1>12,
     <1>13, <1>14, <1>15, <1>16, <1>17 DEF Next, Worker, Work

\* Every state of every behaviour is of the types the code gives its data.
THEOREM TypeCorrect == Spec => []TypeOK
  BY TypeInit, TypeStep, PTL DEF Spec

-----------------------------------------------------------------------------
(***************************************************************************)
(* Commits.  What a worker knows at each step about the row it works on:   *)
(* past "get" it has a text, past its insert its edition is in the table.  *)
(***************************************************************************)

Committed(c) == gazettes[c] # Absent /\ acts[c] # Absent

RowInv == \A c \in Sums : gazettes[c] # Absent => Committed(c)

Place(w) ==
  /\ pc[w] \in {"begin", "insert", "fill"} => text[w] \in Sums
  /\ pc[w] \in {"lookup", "publish", "reply"} => Committed(Sum(w))
  /\ pc[w] = "reply" => Sum(w) \in told

PlaceInv == \A w \in Workers : Place(w)

TxInv == inserting = {w \in Workers : pc[w] = "fill"}

IndexInv ==
  TypeOK /\ RowInv /\ PlaceInv /\ TxInv /\ OneInserter /\ ToldIsCommitted /\ AckMeansIndexed

\* What a step does to the tables: nothing, a commit of a worker that holds
\* an inserted row, or the acts of a reindexed edition.
TableStep ==
  \/ UNCHANGED store
  \/ \E w \in Workers : pc[w] = "fill" /\ Commit(w)
  \/ UNCHANGED gazettes /\ \E c, x \in Sums : acts' = [acts EXCEPT ![c] = x]

LEMMA NextTable == TypeOK /\ [Next]_vars => TableStep
<1> SUFFICES ASSUME TypeOK, [Next]_vars PROVE TableStep
  OBVIOUS
<1>1. ASSUME UNCHANGED store PROVE TableStep
  BY <1>1 DEF TableStep
<1>2. ASSUME NEW p \in Paths, NEW c \in Sums, Stored(p, c) PROVE TableStep
  BY <1>1, <1>2 DEF Stored
<1>3. ASSUME NEW ev \in Events,
             Fetched(ev) \/ DeadLetter(ev) \/ \E w \in Workers : Start(w, ev)
      PROVE  TableStep
  BY <1>1, <1>3 DEF Fetched, DeadLetter, Start
<1>4. ASSUME NEW w \in Workers, Work(w) \/ Fail(w) PROVE TableStep
  <2>1. UNCHANGED store \/ (pc[w] = "fill" /\ Commit(w))
    BY <1>4 DEF Work, Find, Get, Begin, Insert, Lookup, Fill, Publish, Reply, Fail
  <2> QED
    BY <2>1 DEF TableStep
<1>5. ASSUME NEW c \in Sums, ReindexRead(c) PROVE TableStep
  BY <1>1, <1>5 DEF ReindexRead
<1>6. CASE ReplaceActs
  <2>1. reindex[1] \in Sums /\ reindex[2] \in Sums
    BY <1>6 DEF ReplaceActs, TypeOK
  <2> QED
    BY <1>6, <2>1 DEF ReplaceActs, TableStep
<1>7. CASE ReindexFails
  BY <1>1, <1>7 DEF ReindexFails
<1>8. CASE UNCHANGED vars
  BY <1>1, <1>8 DEF vars, store
<1> QED
  BY <1>2, <1>3, <1>4, <1>5, <1>6, <1>7, <1>8 DEF Next, Worker

\* What is committed stays so, and a commit leaves its edition committed.
LEMMA CommittedStays ==
  ASSUME TypeOK, PlaceInv, TableStep, NEW c \in Sums
  PROVE  /\ Committed(c) => Committed(c)'
         /\ gazettes[c] = Absent => gazettes'[c] = Absent \/ Committed(c)'
         /\ \A w \in Workers : pc[w] = "fill" /\ Commit(w) /\ c = Sum(w) => Committed(c)'
<1>1. ASSUME NEW w \in Workers, pc[w] = "fill", Commit(w)
      PROVE  /\ c = Sum(w) => Committed(c)'
             /\ c # Sum(w) => gazettes'[c] = gazettes[c] /\ acts'[c] = acts[c]
  <2>1. text[w] # Absent /\ PathIn(event[w]) # Absent /\ Sum(w) \in Sums
    BY <1>1, SumType, IndexingAssumption DEF PlaceInv, Place
  <2>2. /\ gazettes' = [gazettes EXCEPT ![Sum(w)] = PathIn(event[w])]
        /\ acts' = [acts EXCEPT ![Sum(w)] = text[w]]
    BY <1>1 DEF Commit
  <2> QED
    BY <2>1, <2>2 DEF TypeOK, Committed
<1>2. CASE UNCHANGED store
  BY <1>1, <1>2 DEF store, Committed
<1>3. CASE \E w \in Workers : pc[w] = "fill" /\ Commit(w)
  BY <1>1, <1>3 DEF Committed
<1>4. CASE UNCHANGED gazettes /\ \E d, x \in Sums : acts' = [acts EXCEPT ![d] = x]
  <2>1. acts[c] # Absent => acts'[c] # Absent
    BY <1>4, IndexingAssumption DEF TypeOK
  <2> QED
    BY <1>1, <1>4, <2>1 DEF Committed
<1> QED
  BY <1>2, <1>3, <1>4 DEF TableStep

LEMMA RowStep == TypeOK /\ PlaceInv /\ RowInv /\ TableStep => RowInv'
<1> SUFFICES ASSUME TypeOK, PlaceInv, RowInv, TableStep, NEW c \in Sums, gazettes'[c] # Absent
             PROVE  Committed(c)'
  BY DEF RowInv
<1> QED
  BY CommittedStays DEF RowInv

\* A worker that does not move keeps its place.
LEMMA Bystander ==
  ASSUME TypeOK, PlaceInv, TableStep, told \subseteq told', NEW w \in Workers,
         pc'[w] = pc[w], event'[w] = event[w], text'[w] = text[w]
  PROVE  Place(w)'
<1>1. Sum(w)' = Sum(w) /\ Sum(w) \in Sums
  BY SumType DEF Sum
<1>2. Committed(Sum(w)) => Committed(Sum(w))'
  <2>1. \A c \in Sums : Committed(c) => Committed(c)'
    BY CommittedStays
  <2> QED
    BY <1>1, <2>1 DEF Committed
<1> QED
  BY <1>1, <1>2 DEF PlaceInv, Place

LEMMA PlaceStep == TypeOK /\ RowInv /\ PlaceInv /\ [Next]_vars => PlaceInv'
<1> SUFFICES ASSUME TypeOK, RowInv, PlaceInv, [Next]_vars, NEW v \in Workers
             PROVE  Place(v)'
  BY DEF PlaceInv
<1> USE DEF TypeOK, Goto
<1>1. TableStep
  BY NextTable
<1>2. ASSUME UNCHANGED <<told, pc, event, text>> PROVE Place(v)'
  BY <1>1, <1>2, Bystander
<1>3. ASSUME NEW p \in Paths, NEW c \in Sums, Stored(p, c) PROVE Place(v)'
  BY <1>2, <1>3 DEF Stored, work
<1>4. ASSUME NEW ev \in Events, Fetched(ev) \/ DeadLetter(ev) PROVE Place(v)'
  BY <1>2, <1>4 DEF Fetched, DeadLetter, work
<1>5. ASSUME NEW w \in Workers, NEW ev \in Events, Start(w, ev) PROVE Place(v)'
  <2>1. CASE v = w
    BY <1>5, <2>1 DEF Start, Place
  <2>2. CASE v # w
    BY <1>1, <1>5, <2>2, Bystander DEF Start
  <2> QED
    BY <2>1, <2>2
<1>6. ASSUME NEW w \in Workers, Find(w) PROVE Place(v)'
  <2>1. /\ pc' = [pc EXCEPT ![w] = IF gazettes[Sum(w)] # Absent THEN "publish" ELSE "get"]
        /\ UNCHANGED <<store, told, event, text>>
    BY <1>6 DEF Find
  <2>2. CASE v = w
    <3>1. Sum(v)' = Sum(v) /\ Sum(v) \in Sums
      BY <2>1, SumType DEF Sum
    <3> QED
      BY <2>1, <2>2, <3>1 DEF Place, RowInv, Committed, store
  <2>3. CASE v # w
    BY <1>1, <2>1, <2>3, Bystander
  <2> QED
    BY <2>2, <2>3
<1>7. ASSUME NEW w \in Workers, Get(w) PROVE Place(v)'
  <2>1. CASE v = w
    BY <1>7, <2>1, SumType DEF Get, Place
  <2>2. CASE v # w
    BY <1>1, <1>7, <2>2, Bystander DEF Get
  <2> QED
    BY <2>1, <2>2
<1>8. ASSUME NEW w \in Workers, Begin(w) PROVE Place(v)'
  <2>1. CASE v = w
    BY <1>8, <2>1 DEF Begin, Place, PlaceInv
  <2>2. CASE v # w
    BY <1>1, <1>8, <2>2, Bystander DEF Begin
  <2> QED
    BY <2>1, <2>2
<1>9. ASSUME NEW w \in Workers, Insert(w) PROVE Place(v)'
  <2>1. /\ pc[w] = "insert" /\ UNCHANGED <<store, told, event, text>>
        /\ pc' = [pc EXCEPT ![w] = IF gazettes[Sum(w)] = Absent THEN "fill" ELSE "lookup"]
    BY <1>9 DEF Insert
  <2>2. CASE v = w
    <3>1. Sum(v)' = Sum(v) /\ Sum(v) \in Sums /\ text[v] \in Sums
      BY <2>1, <2>2, SumType DEF Sum, PlaceInv, Place
    <3> QED
      BY <2>1, <2>2, <3>1 DEF Place, RowInv, Committed, store
  <2>3. CASE v # w
    BY <1>1, <2>1, <2>3, Bystander
  <2> QED
    BY <2>2, <2>3
<1>10. ASSUME NEW w \in Workers, Lookup(w) PROVE Place(v)'
  <2>1. /\ pc[w] = "lookup" /\ UNCHANGED <<store, told, event, text>>
        /\ pc' = [pc EXCEPT ![w] = "publish"]
    BY <1>10 DEF Lookup
  <2>2. CASE v = w
    <3>1. Sum(v)' = Sum(v) /\ Committed(Sum(v))
      BY <2>1, <2>2 DEF Sum, PlaceInv, Place
    <3> QED
      BY <2>1, <2>2, <3>1 DEF Place, Committed, store
  <2>3. CASE v # w
    BY <1>1, <2>1, <2>3, Bystander
  <2> QED
    BY <2>2, <2>3
<1>11. ASSUME NEW w \in Workers, Fill(w) PROVE Place(v)'
  <2>1. /\ pc[w] = "fill" /\ Commit(w) /\ UNCHANGED <<told, event, text>>
        /\ pc' = [pc EXCEPT ![w] = "publish"]
    BY <1>11 DEF Fill
  <2>2. CASE v = w
    <3>1. Sum(v)' = Sum(v) /\ Sum(v) \in Sums
      BY <2>1, SumType DEF Sum
    <3>2. \A c \in Sums : c = Sum(v) => Committed(c)'
      BY <1>1, <2>1, <2>2, CommittedStays
    <3> QED
      BY <2>1, <2>2, <3>1, <3>2 DEF Place, Committed
  <2>3. CASE v # w
    BY <1>1, <2>1, <2>3, Bystander
  <2> QED
    BY <2>2, <2>3
<1>12. ASSUME NEW w \in Workers, Publish(w) PROVE Place(v)'
  <2>1. /\ pc[w] = "publish" /\ told' = told \union {Sum(w)} /\ UNCHANGED <<store, event, text>>
        /\ pc' = [pc EXCEPT ![w] = "reply"]
    BY <1>12 DEF Publish, Tell
  <2>2. CASE v = w
    <3>1. Sum(v)' = Sum(v) /\ Committed(Sum(v))
      BY <2>1, <2>2 DEF Sum, PlaceInv, Place
    <3> QED
      BY <2>1, <2>2, <3>1 DEF Place, Committed, store
  <2>3. CASE v # w
    BY <1>1, <2>1, <2>3, Bystander
  <2> QED
    BY <2>2, <2>3
<1>13. ASSUME NEW w \in Workers, Reply(w) \/ Fail(w) PROVE Place(v)'
  <2>1. GoIdle(w) /\ told \subseteq told'
    BY <1>13 DEF Reply, Fail, Tell
  <2>2. CASE v = w
    BY <2>1, <2>2 DEF GoIdle, Place
  <2>3. CASE v # w
    BY <1>1, <2>1, <2>3, Bystander DEF GoIdle
  <2> QED
    BY <2>2, <2>3
<1>14. ASSUME NEW c \in Sums, ReindexRead(c) PROVE Place(v)'
  BY <1>2, <1>14 DEF ReindexRead, work
<1>15. CASE ReplaceActs \/ ReindexFails
  BY <1>2, <1>15 DEF ReplaceActs, ReindexFails, work
<1>16. CASE UNCHANGED vars
  BY <1>2, <1>16 DEF vars
<1> QED
  BY <1>3, <1>4, <1>5, <1>6, <1>7, <1>8, <1>9, <1>10, <1>11, <1>12, <1>13, <1>14,
     <1>15, <1>16 DEF Next, Worker, Work

-----------------------------------------------------------------------------
(***************************************************************************)
(* The inserted rows, what was told and what was acknowledged.             *)
(***************************************************************************)

LEMMA TxStep ==
  TypeOK /\ TxInv /\ OneInserter /\ [Next]_vars => TxInv' /\ OneInserter'
<1> SUFFICES ASSUME TypeOK, TxInv, OneInserter, [Next]_vars PROVE TxInv' /\ OneInserter'
  OBVIOUS
<1> USE DEF TypeOK, Goto, Sum
<1>1. ASSUME UNCHANGED <<pc, event, inserting>> PROVE TxInv' /\ OneInserter'
  BY <1>1 DEF TxInv, OneInserter
<1>2. ASSUME NEW w \in Workers, inserting' = inserting \ {w}, pc'[w] # "fill",
             \A v \in Workers : v # w => pc'[v] = pc[v] /\ event'[v] = event[v]
      PROVE  TxInv' /\ OneInserter'
  <2>1. TxInv'
    <3> SUFFICES ASSUME NEW v \in Workers PROVE v \in inserting' <=> pc'[v] = "fill"
      BY <1>2 DEF TxInv
    <3> QED
      BY <1>2 DEF TxInv
  <2>2. OneInserter'
    BY <1>2 DEF OneInserter
  <2> QED
    BY <2>1, <2>2
<1>3. ASSUME NEW p \in Paths, NEW c \in Sums, Stored(p, c) PROVE TxInv' /\ OneInserter'
  BY <1>1, <1>3 DEF Stored, work
<1>4. ASSUME NEW ev \in Events, Fetched(ev) \/ DeadLetter(ev) PROVE TxInv' /\ OneInserter'
  BY <1>1, <1>4 DEF Fetched, DeadLetter, work
<1>5. ASSUME NEW w \in Workers, NEW ev \in Events, Start(w, ev) PROVE TxInv' /\ OneInserter'
  BY <1>2, <1>5 DEF Start, TxInv
<1>6. ASSUME NEW w \in Workers,
             Find(w) \/ Get(w) \/ Begin(w) \/ Lookup(w) \/ Publish(w)
      PROVE  TxInv' /\ OneInserter'
  <2>1. /\ pc[w] # "fill" /\ pc'[w] # "fill" /\ pc' = [pc EXCEPT ![w] = pc'[w]]
        /\ UNCHANGED <<event, inserting>>
    BY <1>6 DEF Find, Get, Begin, Lookup, Publish
  <2> QED
    BY <1>2, <2>1 DEF TxInv
<1>7. ASSUME NEW w \in Workers, Insert(w) PROVE TxInv' /\ OneInserter'
  <2>1. CASE gazettes[Sum(w)] = Absent
    <3>1. /\ inserting' = inserting \union {w} /\ pc' = [pc EXCEPT ![w] = "fill"]
          /\ UNCHANGED event /\ \A v \in inserting : Sum(v) # Sum(w)
      BY <1>7, <2>1 DEF Insert
    <3> QED
      BY <3>1 DEF TxInv, OneInserter
  <2>2. CASE gazettes[Sum(w)] # Absent
    BY <1>2, <1>7, <2>2 DEF Insert, TxInv
  <2> QED
    BY <2>1, <2>2
<1>8. ASSUME NEW w \in Workers, Fill(w) PROVE TxInv' /\ OneInserter'
  BY <1>2, <1>8 DEF Fill, EndTx
<1>9. ASSUME NEW w \in Workers, Reply(w) PROVE TxInv' /\ OneInserter'
  BY <1>2, <1>9 DEF Reply, GoIdle, TxInv
<1>10. ASSUME NEW w \in Workers, Fail(w) PROVE TxInv' /\ OneInserter'
  BY <1>2, <1>10 DEF Fail, GoIdle, EndTx
<1>11. ASSUME NEW c \in Sums, ReindexRead(c) PROVE TxInv' /\ OneInserter'
  BY <1>1, <1>11 DEF ReindexRead, work
<1>12. CASE ReplaceActs \/ ReindexFails
  BY <1>1, <1>12 DEF ReplaceActs, ReindexFails, work
<1>13. CASE UNCHANGED vars
  BY <1>1, <1>13 DEF vars
<1> QED
  BY <1>3, <1>4, <1>5, <1>6, <1>7, <1>8, <1>9, <1>10, <1>11, <1>12, <1>13
  DEF Next, Worker, Work

\* Only a worker that knows the edition committed tells of it.
LEMMA ToldStep ==
  TypeOK /\ PlaceInv /\ ToldIsCommitted /\ [Next]_vars => ToldIsCommitted' /\ told \subseteq told'
<1> SUFFICES ASSUME TypeOK, PlaceInv, ToldIsCommitted, [Next]_vars
             PROVE  ToldIsCommitted' /\ told \subseteq told'
  OBVIOUS
<1>1. \A c \in Sums : Committed(c) => Committed(c)'
  BY NextTable, CommittedStays
<1>2. told' = told \/ \E w \in Workers : pc[w] = "publish" /\ Tell(w)
  BY DEF Next, Worker, Work, vars, Stored, Fetched, DeadLetter, Start, Find, Get, Begin, Insert,
     Lookup, Fill, Publish, Reply, Fail, ReindexRead, ReplaceActs, ReindexFails
<1>3. \A c \in told' : c \in Sums /\ Committed(c)
  <2>1. \A c \in told : c \in Sums /\ Committed(c)
    BY DEF ToldIsCommitted, Committed, TypeOK
  <2> QED
    BY <1>2, <2>1, SumType DEF PlaceInv, Place, Tell
<1> QED
  BY <1>1, <1>2, <1>3 DEF ToldIsCommitted, Committed, Tell

\* A message becomes acknowledged only by a worker that has told of its edition.
LEMMA AckStep ==
  IndexInv /\ [Next]_vars => AckMeansIndexed'
<1> SUFFICES ASSUME IndexInv, [Next]_vars, NEW ev \in Events, queue'[ev].state = "acked"
             PROVE  gazettes'[SumIn(ev)] # Absent /\ SumIn(ev) \in told'
  BY DEF AckMeansIndexed
<1> USE DEF IndexInv
<1>1. SumIn(ev) \in Sums /\ told \subseteq told' /\ queue \in [Events -> Topic!Message]
  BY EventParts, ToldStep DEF TypeOK
<1>2. gazettes[SumIn(ev)] # Absent => gazettes'[SumIn(ev)] # Absent
  BY <1>1, NextTable, CommittedStays DEF RowInv, Committed
<1>3. ASSUME queue[ev].state = "acked" PROVE gazettes[SumIn(ev)] # Absent /\ SumIn(ev) \in told
  BY <1>3 DEF AckMeansIndexed
<1>4. CASE queue' = queue
  BY <1>1, <1>2, <1>3, <1>4
<1>5. ASSUME NEW e \in Events, Fetched(e) \/ DeadLetter(e) PROVE queue[ev].state = "acked"
  <2>1. CASE Fetched(e)
    BY <1>1, <2>1 DEF Fetched, Topic!Published
  <2>2. CASE DeadLetter(e)
    <3>1. queue' = [queue EXCEPT ![e] = Topic!GivenUp(queue[e])]
      BY <2>2 DEF DeadLetter
    <3>2. Topic!GivenUp(queue[e]).state = "dead"
      BY <1>1 DEF Topic!GivenUp, Topic!Message
    <3> QED
      BY <1>1, <3>1, <3>2
  <2> QED
    BY <1>5, <2>1, <2>2
<1>6. ASSUME NEW e \in Events, NEW w \in Workers, Start(w, e) PROVE queue[ev].state = "acked"
  <2>1. queue' = [queue EXCEPT ![e] = Topic!Delivered(queue[e])]
    BY <1>6 DEF Start
  <2>2. Topic!Delivered(queue[e]).state = queue[e].state
    BY <1>1 DEF Topic!Delivered, Topic!Message
  <2> QED
    BY <1>1, <2>1, <2>2
<1>7. ASSUME NEW w \in Workers, Reply(w), queue[ev].state # "acked" PROVE event[w] = ev /\ pc[w] = "reply"
  BY <1>1, <1>7, SumType DEF Reply, Topic!Acked
<1>8. ASSUME NEW w \in Workers, event[w] = ev, pc[w] = "reply"
      PROVE  gazettes[SumIn(ev)] # Absent /\ SumIn(ev) \in told
  BY <1>8 DEF PlaceInv, Place, Committed, Sum
<1>9. \/ queue' = queue
      \/ \E e \in Events : Fetched(e) \/ DeadLetter(e) \/ \E w \in Workers : Start(w, e)
      \/ \E w \in Workers : Reply(w)
  BY DEF Next, Worker, Work, vars, Stored, Find, Get, Begin, Insert,
     Lookup, Fill, Publish, Fail, ReindexRead, ReplaceActs, ReindexFails
<1> QED
  BY <1>1, <1>2, <1>3, <1>4, <1>5, <1>6, <1>7, <1>8, <1>9

LEMMA IndexInvInit == Init => IndexInv
  BY TypeInit, EventParts
  DEF Init, IndexInv, RowInv, PlaceInv, Place, TxInv, OneInserter, ToldIsCommitted,
      AckMeansIndexed, Topic!Unpublished

LEMMA IndexInvStep == IndexInv /\ [Next]_vars => IndexInv'
<1> SUFFICES ASSUME IndexInv, [Next]_vars PROVE IndexInv'
  OBVIOUS
<1>1. TypeOK /\ RowInv /\ PlaceInv /\ TxInv /\ OneInserter /\ ToldIsCommitted
  BY DEF IndexInv
<1>2. TypeOK' /\ RowInv'
  BY <1>1, TypeStep, NextTable, RowStep
<1>3. PlaceInv' /\ TxInv' /\ OneInserter'
  BY <1>1, PlaceStep, TxStep
<1>4. ToldIsCommitted' /\ AckMeansIndexed'
  BY <1>1, ToldStep, AckStep
<1> QED
  BY <1>2, <1>3, <1>4 DEF IndexInv

\* Whatever the scraper does to the bucket and to the topic, short of answering
\* for the handler, leaves the invariant alone.
LEMMA SourceKeepsIndexInv ==
  ASSUME IndexInv, UNCHANGED <<store, told, work, other>>,
         pdf' \in [Paths -> Sums \union {Absent}], queue' \in [Events -> Topic!Message],
         fetches' \in Nat, faults' \in Nat,
         \A ev \in Events : queue'[ev].state = "acked" => queue[ev].state = "acked"
  PROVE  IndexInv'
<1> USE DEF IndexInv, store, work, other
<1>1. TypeOK' /\ RowInv' /\ TxInv' /\ OneInserter' /\ ToldIsCommitted'
  BY DEF TypeOK, RowInv, Committed, TxInv, OneInserter, ToldIsCommitted, Sum
<1>2. PlaceInv'
  BY DEF PlaceInv, Place, Committed, Sum
<1>3. AckMeansIndexed'
  BY DEF AckMeansIndexed
<1> QED
  BY <1>1, <1>2, <1>3

\* A message once published is never unpublished.
LEMMA StaysPublished ==
  ASSUME TypeOK, [Next]_vars, NEW ev \in Events, queue[ev].state # "unpublished"
  PROVE  queue'[ev].state # "unpublished"
<1>1. queue \in [Events -> Topic!Message]
  BY DEF TypeOK
<1>2. ASSUME NEW e \in Events, Fetched(e) PROVE queue'[ev].state # "unpublished"
  BY <1>1, <1>2 DEF Fetched, Topic!Published
<1>3. ASSUME NEW e \in Events, DeadLetter(e) PROVE queue'[ev].state # "unpublished"
  <2>1. Topic!GivenUp(queue[e]).state = "dead"
    BY <1>1 DEF Topic!GivenUp, Topic!Message
  <2> QED
    BY <1>1, <1>3, <2>1 DEF DeadLetter
<1>4. ASSUME NEW e \in Events, NEW w \in Workers, Start(w, e)
      PROVE  queue'[ev].state # "unpublished"
  <2>1. Topic!Delivered(queue[e]).state = queue[e].state
    BY <1>1 DEF Topic!Delivered, Topic!Message
  <2> QED
    BY <1>1, <1>4, <2>1 DEF Start
<1>5. ASSUME NEW w \in Workers, Reply(w) PROVE queue'[ev].state # "unpublished"
  <2>1. Topic!Acked(queue[event[w]]).state \in {"acked", queue[event[w]].state}
    BY <1>1, SumType DEF Topic!Acked, Topic!Message
  <2> QED
    BY <1>1, <1>5, <2>1, SumType DEF Reply
<1>6. \/ queue' = queue
      \/ \E e \in Events : Fetched(e) \/ DeadLetter(e) \/ \E w \in Workers : Start(w, e)
      \/ \E w \in Workers : Reply(w)
  BY DEF Next, Worker, Work, vars, Stored, Find, Get, Begin, Insert,
     Lookup, Fill, Publish, Fail, ReindexRead, ReplaceActs, ReindexFails
<1> QED
  BY <1>2, <1>3, <1>4, <1>5, <1>6

LEMMA IndexInvHolds == Spec => []IndexInv
  BY IndexInvInit, IndexInvStep, PTL DEF Spec

\* gazette.indexed names only an edition whose row and acts are committed.
THEOREM ToldCommitted == Spec => []ToldIsCommitted
<1>1. IndexInv => ToldIsCommitted
  BY DEF IndexInv
<1> QED
  BY <1>1, IndexInvHolds, PTL

\* An acknowledged gazette.fetched left its edition indexed and announced, with
\* any number of deliveries of it, reindexations and failed calls.
THEOREM AckIndexed == Spec => []AckMeansIndexed
<1>1. IndexInv => AckMeansIndexed
  BY DEF IndexInv
<1> QED
  BY <1>1, IndexInvHolds, PTL

\* No two open transactions hold an inserted row of the same checksum.
THEOREM Serialized == Spec => []OneInserter
<1>1. IndexInv => OneInserter
  BY DEF IndexInv
<1> QED
  BY <1>1, IndexInvHolds, PTL

-----------------------------------------------------------------------------
(***************************************************************************)
(* The pool.  A worker is late when the edition it is about to insert has  *)
(* been committed by another: it will ask for a second connection.  The    *)
(* commit that makes workers late is of one that is not, so never are all. *)
(***************************************************************************)

Late(w) == pc[w] \in {"get", "begin", "insert", "lookup"} /\ gazettes[Sum(w)] # Absent

NotAllLate == \E w \in Workers : ~Late(w)

\* Without a commit nobody becomes late.
LEMMA NobodyBecomesLate ==
  ASSUME TypeOK, [Next]_vars, gazettes' = gazettes, NEW w \in Workers, ~Late(w)
  PROVE  ~Late(w)'
<1> USE DEF TypeOK, Goto, Late, Sum
<1>1. CASE pc'[w] = pc[w] /\ event'[w] = event[w]
  BY <1>1
<1>2. ASSUME NEW v \in Workers, NEW ev \in Events, Start(v, ev) PROVE ~Late(w)'
  BY <1>1, <1>2 DEF Start
<1>3. ASSUME NEW v \in Workers, Find(v) PROVE ~Late(w)'
  BY <1>1, <1>3 DEF Find
<1>4. ASSUME NEW v \in Workers, Get(v) \/ Begin(v) \/ Insert(v) PROVE ~Late(w)'
  <2>1. /\ pc[v] \in {"get", "begin", "insert"} /\ UNCHANGED event
        /\ pc' = [pc EXCEPT ![v] = pc'[v]]
    BY <1>4 DEF Get, Begin, Insert
  <2> QED
    BY <1>1, <2>1
<1>5. ASSUME NEW v \in Workers, Lookup(v) \/ Fill(v) \/ Publish(v) PROVE ~Late(w)'
  <2>1. /\ pc'[v] \in {"publish", "reply"} /\ UNCHANGED event
        /\ pc' = [pc EXCEPT ![v] = pc'[v]]
    BY <1>5 DEF Lookup, Fill, Publish
  <2> QED
    BY <1>1, <2>1
<1>6. ASSUME NEW v \in Workers, Reply(v) \/ Fail(v) PROVE ~Late(w)'
  <2>1. GoIdle(v)
    BY <1>6 DEF Reply, Fail
  <2> QED
    BY <1>1, <2>1 DEF GoIdle
<1>7. \/ UNCHANGED <<pc, event>>
      \/ \E v \in Workers : Work(v) \/ Fail(v) \/ \E ev \in Events : Start(v, ev)
  BY DEF Next, Worker, vars, work, Stored, Fetched, DeadLetter, ReindexRead, ReplaceActs, ReindexFails
<1> QED
  BY <1>1, <1>2, <1>3, <1>4, <1>5, <1>6, <1>7 DEF Work

\* The worker that commits is not late afterwards.
LEMMA CommitterIsNotLate ==
  ASSUME TypeOK, [Next]_vars, gazettes' # gazettes
  PROVE  \E w \in Workers : ~Late(w)'
<1>1. PICK w \in Workers : Fill(w) \/ Fail(w)
  BY DEF Next, Worker, Work, vars, store, Stored, Fetched, DeadLetter, Start, Find, Get, Begin,
     Insert, Lookup, Publish, Reply, ReindexRead, ReplaceActs, ReindexFails
<1>2. pc'[w] \in {"publish", "idle"}
  BY <1>1 DEF Fill, Fail, GoIdle, Goto, TypeOK
<1> QED
  BY <1>2 DEF Late

LEMMA SomeoneInTimeInit == Workers # {} /\ Init => NotAllLate
  BY DEF Init, NotAllLate, Late

LEMMA SomeoneInTime == IndexInv /\ NotAllLate /\ [Next]_vars => NotAllLate'
  BY NobodyBecomesLate, CommitterIsNotLate DEF IndexInv, NotAllLate

LEMMA PoolHolds ==
  ASSUME Cardinality(Workers) <= PoolSize, IndexInv, NotAllLate
  PROVE  NoPoolStall
<1> DEFINE waiting == {w \in Workers : pc[w] = "lookup"}
<1>1. waiting # Workers
  BY DEF IndexInv, PlaceInv, Place, Committed, NotAllLate, Late
<1>2. waiting \in SUBSET Workers /\ IsFiniteSet(Workers)
  BY IndexingAssumption
<1>3. /\ Cardinality(waiting) <= Cardinality(Workers)
      /\ Cardinality(waiting) # Cardinality(Workers)
      /\ IsFiniteSet(waiting)
  BY <1>1, <1>2, FS_Subset
<1>4. Cardinality(waiting) \in Nat /\ Cardinality(Workers) \in Nat /\ PoolSize \in Nat
  BY <1>2, <1>3, FS_CardinalityType, IndexingAssumption
<1> HIDE DEF waiting
<1>5. Cardinality(waiting) < PoolSize
  BY <1>3, <1>4
<1> QED
  BY <1>5 DEF waiting, NoPoolStall

\* With no more handlers than connections, the ones that wait for a second
\* connection never hold the whole pool.
THEOREM PoolNeverStalls ==
  Workers # {} /\ Cardinality(Workers) <= PoolSize => (Spec => []NoPoolStall)
<1> SUFFICES ASSUME Workers # {}, Cardinality(Workers) <= PoolSize
             PROVE  Spec => []NoPoolStall
  OBVIOUS
<1>1. Init => NotAllLate
  BY SomeoneInTimeInit
<1>2. IndexInv /\ NotAllLate => NoPoolStall
  BY PoolHolds
<1> QED
  BY <1>1, <1>2, SomeoneInTime, IndexInvHolds, PTL DEF Spec
=============================================================================
