---------------------------- MODULE PipelineProof ----------------------------
(***************************************************************************)
(* Proofs about the scraper and about its way to the index, for any number *)
(* of editions, runs, workers and faults.  First Collection alone: its type *)
(* invariant, that an edition is marked only after it was announced, and    *)
(* that the counters of a run add up.  Then Pipeline: what the scraper      *)
(* marks is in hand, from the invariants of Collection and of Indexing,     *)
(* each kept by the other component's steps, and the topic between them.    *)
(***************************************************************************)
EXTENDS Pipeline, FiniteSetTheorems, TLAPS

XP == INSTANCE IndexingProof WITH pc <- workPc, MaxFetches <- 0, fetches <- 0

-----------------------------------------------------------------------------
(***************************************************************************)
(* Collection.                                                             *)
(***************************************************************************)

\* A run that has downloaded an edition holds a PDF.
DataInv == \A r \in Runs : pc[r] \in {"store", "publish", "mark"} => data[r] \in Sums

\* An edition of the loop is still to be visited, in hand, or in one counter.
InHand(r) == IF pc[r] \in Working THEN 1 ELSE 0
Accounted(r) ==
  res[r].found = res[r].stored + res[r].skipped + res[r].failed + Cardinality(todo[r]) + InHand(r)

CountInv == \A r \in Runs :
  /\ pc[r] = "idle" => res[r] = NoResult
  /\ pc[r] \in {"idle", "report"} => todo[r] = {}
  /\ Accounted(r)

\* The type invariant of the counters depends on CountInv: that is what bounds them.
CollectionInv == TypeOK /\ DataInv /\ CountInv

\* The type of what is not a run's own.
WorldType ==
  /\ site \in [Editions -> Sums \union {Absent}]
  /\ revisions \in Nat
  /\ listings \in [Editions -> 0..Lookback]
  /\ pdf \in [Paths -> Sums \union {Absent}]
  /\ marker \in [Paths -> Sums \union {Absent}]
  /\ queue \in [Events -> Topic!Message]
  /\ announced \subseteq Events
  /\ reports \subseteq Result
  /\ faults \in Nat

RunType ==
  /\ pc \in [Runs -> Steps]
  /\ todo \in [Runs -> SUBSET Editions]
  /\ current \in [Runs -> Editions]
  /\ data \in [Runs -> Sums \union {Absent}]
  /\ res \in [Runs -> Result]

RunInv == RunType /\ DataInv /\ CountInv

LEMMA Split == CollectionInv <=> WorldType /\ RunInv
  BY DEF CollectionInv, TypeOK, WorldType, RunInv, RunType

LEMMA SplitNext == CollectionInv' <=> WorldType' /\ RunInv'
  BY DEF CollectionInv, TypeOK, WorldType, RunInv, RunType

LEMMA Finite ==
  ASSUME NEW T \in SUBSET Editions
  PROVE  /\ IsFiniteSet(T)
         /\ Cardinality(T) \in Nat /\ Cardinality(Editions) \in Nat
         /\ Cardinality(T) <= Cardinality(Editions)
  BY CollectionAssumption, FS_Subset, FS_CardinalityType

LEMMA NothingFound == NoResult \in Result /\ Cardinality({}) = 0
<1>1. Cardinality(Editions) \in Nat
  BY Finite
<1> QED
  BY <1>1, FS_EmptySet DEF NoResult, Result, Count

-----------------------------------------------------------------------------
(***************************************************************************)
(* The counters.                                                           *)
(***************************************************************************)

\* An edition that leaves the loop, or the hand, for a counter keeps the sum.
LEMMA Tallied ==
  ASSUME NEW r \in Runs, NEW field \in {"stored", "skipped", "failed"}, NEW n \in Nat, n >= 1,
         res \in [Runs -> Result], Tally(r, field),
         res[r].found = res[r].stored + res[r].skipped + res[r].failed + n
  PROVE  /\ res' \in [Runs -> Result]
         /\ res'[r].found = res'[r].stored + res'[r].skipped + res'[r].failed + (n - 1)
         /\ \A o \in Runs : o # r => res'[o] = res[o]
<1>1. Cardinality(Editions) \in Nat
  BY Finite
<1>2. CASE field = "stored"
  <2>1. res' = [res EXCEPT ![r] = [res[r] EXCEPT !.stored = res[r].stored + 1]]
    BY <1>2 DEF Tally
  <2> QED
    BY <1>1, <2>1 DEF Result, Count
<1>3. CASE field = "skipped"
  <2>1. res' = [res EXCEPT ![r] = [res[r] EXCEPT !.skipped = res[r].skipped + 1]]
    BY <1>3 DEF Tally
  <2> QED
    BY <1>1, <2>1 DEF Result, Count
<1>4. CASE field = "failed"
  <2>1. res' = [res EXCEPT ![r] = [res[r] EXCEPT !.failed = res[r].failed + 1]]
    BY <1>4 DEF Tally
  <2> QED
    BY <1>1, <2>1 DEF Result, Count
<1> QED
  BY <1>2, <1>3, <1>4

LEMMA Visited ==
  ASSUME RunType, NEW r \in Runs, NEW e \in Editions, Visit(r, e)
  PROVE  /\ todo' \in [Runs -> SUBSET Editions]
         /\ Cardinality(todo[r]) \in Nat /\ Cardinality(todo[r]) >= 1
         /\ Cardinality(todo'[r]) = Cardinality(todo[r]) - 1
         /\ \A o \in Runs : o # r => todo'[o] = todo[o]
<1>1. IsFiniteSet(todo[r]) /\ Cardinality(todo[r]) \in Nat
  BY Finite DEF RunType
<1>2. todo'[r] = todo[r] \ {e} /\ e \in todo[r]
  BY DEF Visit, RunType
<1>3. Cardinality(todo'[r]) = Cardinality(todo[r]) - 1
  BY <1>1, <1>2, FS_RemoveElement
<1>4. Cardinality(todo[r]) # 0
  BY <1>1, <1>2, FS_EmptySet
<1> QED
  BY <1>1, <1>3, <1>4 DEF Visit, RunType

\* The edition visited is counted at once: skipped, or failed before it was fetched.
LEMMA VisitTally ==
  ASSUME RunInv, NEW r \in Runs, NEW e \in Editions, NEW field \in {"skipped", "failed"},
         Visit(r, e), Tally(r, field), UNCHANGED <<pc, current, data>>
  PROVE  RunInv'
<1> USE DEF RunInv
<1>1. pc[r] = "loop" /\ Accounted(r)
  BY DEF Visit, CountInv
<1>2. /\ todo' \in [Runs -> SUBSET Editions]
      /\ Cardinality(todo[r]) \in Nat /\ Cardinality(todo[r]) >= 1
      /\ Cardinality(todo'[r]) = Cardinality(todo[r]) - 1
      /\ \A o \in Runs : o # r => todo'[o] = todo[o]
  BY Visited
<1>3. res[r] \in Result /\ res \in [Runs -> Result]
  BY DEF RunType
<1>4. res[r].found = res[r].stored + res[r].skipped + res[r].failed + Cardinality(todo[r])
  BY <1>1, <1>2, <1>3 DEF Accounted, InHand, Working, Result, Count
<1>5. /\ res' \in [Runs -> Result]
      /\ res'[r].found = res'[r].stored + res'[r].skipped + res'[r].failed + (Cardinality(todo[r]) - 1)
      /\ \A o \in Runs : o # r => res'[o] = res[o]
  BY <1>2, <1>3, <1>4, Tallied
<1>6. Accounted(r)'
  <2>1. InHand(r)' = 0 /\ res'[r] \in Result
    BY <1>1, <1>5 DEF InHand, Working
  <2>2. Cardinality(Editions) \in Nat
    BY Finite
  <2> QED
    BY <1>2, <1>5, <2>1, <2>2 DEF Accounted, Result, Count
<1>7. CountInv'
  <2> SUFFICES ASSUME NEW o \in Runs
               PROVE  /\ pc'[o] = "idle" => res'[o] = NoResult
                      /\ pc'[o] \in {"idle", "report"} => todo'[o] = {}
                      /\ Accounted(o)'
    BY DEF CountInv
  <2>1. CASE o = r
    BY <1>1, <1>6, <2>1
  <2>2. CASE o # r
    BY <1>2, <1>5, <2>2 DEF CountInv, Accounted, InHand
  <2> QED
    BY <2>1, <2>2
<1> QED
  BY <1>2, <1>5, <1>7 DEF RunType, DataInv

\* The edition in hand is counted: stored, or failed on the way.
LEMMA HandTally ==
  ASSUME RunInv, NEW r \in Runs, NEW field \in {"stored", "failed"},
         pc[r] \in Working, Tally(r, field), pc' = [pc EXCEPT ![r] = "loop"],
         UNCHANGED <<todo, current, data>>
  PROVE  RunInv'
<1> USE DEF RunInv
<1>1. Accounted(r) /\ InHand(r) = 1
  BY DEF CountInv, InHand
<1>2. Cardinality(todo[r]) \in Nat /\ Cardinality(Editions) \in Nat
  BY Finite DEF RunType
<1>3. res[r] \in Result /\ res \in [Runs -> Result]
  BY DEF RunType
<1>4. res[r].found = res[r].stored + res[r].skipped + res[r].failed + (Cardinality(todo[r]) + 1)
  BY <1>1, <1>2, <1>3 DEF Accounted, Result, Count
<1>5. /\ res' \in [Runs -> Result]
      /\ res'[r].found = res'[r].stored + res'[r].skipped + res'[r].failed + Cardinality(todo[r])
      /\ \A o \in Runs : o # r => res'[o] = res[o]
  <2> DEFINE n == Cardinality(todo[r]) + 1
  <2>1. n \in Nat /\ n >= 1
    BY <1>2
  <2> HIDE DEF n
  <2>2. res[r].found = res[r].stored + res[r].skipped + res[r].failed + n
    BY <1>4 DEF n
  <2>3. /\ res' \in [Runs -> Result]
        /\ res'[r].found = res'[r].stored + res'[r].skipped + res'[r].failed + (n - 1)
        /\ \A o \in Runs : o # r => res'[o] = res[o]
    BY <1>3, <2>1, <2>2, Tallied
  <2>4. n - 1 = Cardinality(todo[r])
    BY <1>2 DEF n
  <2> QED
    BY <2>3, <2>4
<1>6. pc'[r] = "loop" /\ pc' \in [Runs -> Steps] /\ \A o \in Runs : o # r => pc'[o] = pc[o]
  BY DEF RunType, Steps
<1>7. Accounted(r)'
  <2>1. InHand(r)' = 0 /\ res'[r] \in Result
    BY <1>6, <1>5 DEF InHand, Working
  <2> QED
    BY <1>2, <1>5, <2>1 DEF Accounted, Result, Count
<1>8. CountInv'
  <2> SUFFICES ASSUME NEW o \in Runs
               PROVE  /\ pc'[o] = "idle" => res'[o] = NoResult
                      /\ pc'[o] \in {"idle", "report"} => todo'[o] = {}
                      /\ Accounted(o)'
    BY DEF CountInv
  <2>1. CASE o = r
    BY <1>6, <1>7, <2>1
  <2>2. CASE o # r
    BY <1>5, <1>6, <2>2 DEF CountInv, Accounted, InHand
  <2> QED
    BY <2>1, <2>2
<1>9. DataInv'
  BY <1>6 DEF DataInv
<1> QED
  BY <1>5, <1>6, <1>8, <1>9 DEF RunType

\* A run that ends or dies has nothing left.
LEMMA Exited ==
  ASSUME RunInv, NEW r \in Runs, Exit(r)
  PROVE  RunInv'
<1> USE DEF RunInv
<1>1. /\ pc'[r] = "idle" /\ todo'[r] = {} /\ res'[r] = NoResult
      /\ \A o \in Runs : o # r => pc'[o] = pc[o] /\ todo'[o] = todo[o] /\ res'[o] = res[o] /\ data'[o] = data[o]
  BY DEF Exit, RunType
<1>2. AnyEdition \in Editions
  BY CollectionAssumption DEF AnyEdition
<1>3. RunType'
  BY <1>2, NothingFound DEF Exit, RunType, Steps
<1>4. Accounted(r)'
  BY <1>1, NothingFound DEF Accounted, InHand, Working, NoResult
<1>5. CountInv'
  BY <1>1, <1>4 DEF CountInv, Accounted, InHand
<1>6. DataInv'
  BY <1>1 DEF DataInv
<1> QED
  BY <1>3, <1>5, <1>6

-----------------------------------------------------------------------------
(***************************************************************************)
(* The steps.                                                              *)
(***************************************************************************)

LEMMA InvInit == Init => CollectionInv
<1> SUFFICES ASSUME Init PROVE CollectionInv
  OBVIOUS
<1>1. AnyEdition \in Editions
  BY CollectionAssumption DEF AnyEdition
<1>2. WorldType
  BY CollectionAssumption DEF Init, WorldType, Topic!Unpublished, Topic!Message, Topic!MessageStates
<1>3. RunType
  BY <1>1, NothingFound DEF Init, RunType, Steps
<1>4. DataInv
  BY DEF Init, DataInv
<1>5. CountInv
  BY NothingFound DEF Init, CountInv, Accounted, InHand, Working, NoResult
<1> QED
  BY <1>2, <1>3, <1>4, <1>5, Split DEF RunInv

\* A listing of some editions: every one of them is still to be visited.
LEMMA Listed ==
  ASSUME RunInv, NEW r \in Runs, NEW listed \in SUBSET Editions,
         pc[r] = "idle", pc' = [pc EXCEPT ![r] = "loop"],
         todo' = [todo EXCEPT ![r] = listed],
         res' = [res EXCEPT ![r] = [NoResult EXCEPT !.found = Cardinality(listed)]],
         UNCHANGED <<current, data>>
  PROVE  RunInv'
<1> USE DEF RunInv
<1>1. Cardinality(listed) \in Nat /\ Cardinality(Editions) \in Nat
      /\ Cardinality(listed) <= Cardinality(Editions)
  BY Finite
<1>2. RunType'
  BY <1>1 DEF RunType, Steps, NoResult, Result, Count
<1>3. Accounted(r)'
  BY <1>1 DEF RunType, Accounted, InHand, Working, NoResult
<1>4. \A o \in Runs : o # r => pc'[o] = pc[o] /\ todo'[o] = todo[o] /\ res'[o] = res[o]
  BY DEF RunType
<1>5. CountInv'
  BY <1>3, <1>4 DEF RunType, CountInv, Accounted, InHand
<1>6. DataInv'
  BY DEF RunType, DataInv
<1> QED
  BY <1>2, <1>5, <1>6

\* A step of fetchOne, or one that opens or closes the loop: the counters stay.
LEMMA Moved ==
  ASSUME RunInv, NEW r \in Runs, NEW to \in Steps,
         pc' = [pc EXCEPT ![r] = to], UNCHANGED <<todo, res>>,
         \/ pc[r] \in Working /\ to \in Working
         \/ pc[r] = "idle" /\ to = "report"
         \/ pc[r] = "loop" /\ to = "report" /\ todo[r] = {},
         current' \in [Runs -> Editions],
         data' \in [Runs -> Sums \union {Absent}],
         \A o \in Runs : o # r => data'[o] = data[o],
         to \in {"store", "publish", "mark"} => data'[r] \in Sums
  PROVE  RunInv'
<1> USE DEF RunInv
<1>1. \A o \in Runs : o # r => pc'[o] = pc[o]
  BY DEF RunType
<1>2. pc'[r] = to /\ RunType'
  BY DEF RunType
<1>3. InHand(r)' = InHand(r)
  BY <1>2 DEF InHand, Working
<1>4. CountInv'
  BY <1>1, <1>2, <1>3 DEF CountInv, Accounted, InHand, Working
<1>5. DataInv'
  BY <1>1, <1>2 DEF DataInv
<1> QED
  BY <1>2, <1>4, <1>5

\* An edition is taken from the loop to be fetched.
LEMMA Fetched ==
  ASSUME RunInv, NEW r \in Runs, NEW e \in Editions, Fetch(r, e)
  PROVE  RunInv'
<1> USE DEF RunInv
<1>1. /\ todo' \in [Runs -> SUBSET Editions]
      /\ Cardinality(todo[r]) \in Nat /\ Cardinality(todo[r]) >= 1
      /\ Cardinality(todo'[r]) = Cardinality(todo[r]) - 1
      /\ \A o \in Runs : o # r => todo'[o] = todo[o]
  BY Visited DEF Fetch
<1>2. /\ pc[r] = "loop" /\ pc'[r] = "download" /\ res' = res
      /\ \A o \in Runs : o # r => pc'[o] = pc[o]
  BY DEF Fetch, Visit, RunType
<1>3. RunType'
  BY <1>1 DEF Fetch, RunType, Steps
<1>4. InHand(r) = 0 /\ InHand(r)' = 1
  BY <1>2 DEF InHand, Working
<1>5. Accounted(r)'
  <2>1. Accounted(r) /\ res[r] \in Result
    BY DEF CountInv, RunType
  <2>2. Cardinality(Editions) \in Nat
    BY Finite
  <2> QED
    BY <1>1, <1>2, <1>4, <2>1, <2>2 DEF Accounted, Result, Count
<1>6. CountInv'
  BY <1>1, <1>2, <1>5 DEF CountInv, Accounted, InHand
<1>7. DataInv'
  BY <1>2 DEF Fetch, DataInv
<1> QED
  BY <1>3, <1>6, <1>7

\* What a run writes, and announces, is a PDF at the path of an edition.
LEMMA InHandIsEvent ==
  ASSUME CollectionInv, NEW r \in Runs, pc[r] \in {"store", "publish", "mark"}
  PROVE  /\ PathOf[current[r]] \in Paths /\ data[r] \in Sums
         /\ <<PathOf[current[r]], data[r]>> \in Events
  BY CollectionAssumption DEF CollectionInv, TypeOK, DataInv, Events

LEMMA StoreType ==
  ASSUME CollectionInv, NEW r \in Runs, pc[r] \in {"store", "publish", "mark"}
  PROVE  /\ [pdf EXCEPT ![PathOf[current[r]]] = data[r]] \in [Paths -> Sums \union {Absent}]
         /\ [marker EXCEPT ![PathOf[current[r]]] = data[r]] \in [Paths -> Sums \union {Absent}]
  BY InHandIsEvent DEF CollectionInv, TypeOK

LEMMA AnnounceType ==
  ASSUME CollectionInv, NEW ev \in Events, Announce(ev)
  PROVE  queue' \in [Events -> Topic!Message] /\ announced' \subseteq Events
<1>1. Topic!Published \in Topic!Message
  BY CollectionAssumption DEF Topic!Published, Topic!Message, Topic!MessageStates
<1> QED
  BY <1>1 DEF CollectionInv, TypeOK, Announce

\* A day is asked for Lookback times at most.
LEMMA AskedType ==
  ASSUME listings \in [Editions -> 0..Lookback], NEW asked \in SUBSET LastDays, Asks(asked)
  PROVE  listings' \in [Editions -> 0..Lookback]
<1>1. \A e \in asked : listings[e] \in Nat /\ listings[e] < Lookback
  BY DEF LastDays
<1> QED
  BY <1>1, CollectionAssumption DEF Asks

\* The steps that do not touch the counters.
LEMMA MoveStep ==
  ASSUME CollectionInv, NEW r \in Runs,
         Download(r) \/ Store(r) \/ Publish(r) \/ Finish(r) \/ ListFails(r)
  PROVE  CollectionInv'
<1>a. WorldType /\ RunInv
  BY Split
<1>1. CASE Download(r)
  <2>1. site[current[r]] \in Sums
    BY <1>1 DEF Download, CollectionInv, TypeOK
  <2>2. RunInv'
    BY <1>a, <1>1, <2>1, Moved DEF Download, RunInv, RunType, Working, Steps
  <2>3. WorldType'
    BY <1>a, <1>1 DEF Download, WorldType, bucket, topic
  <2> QED
    BY <2>2, <2>3, SplitNext
<1>2. CASE Store(r)
  <2>1. RunInv'
    BY <1>a, <1>2, Moved, InHandIsEvent DEF Store, RunInv, RunType, Working, Steps
  <2>2. WorldType'
    BY <1>a, <1>2, StoreType DEF Store, WorldType, topic
  <2> QED
    BY <2>1, <2>2, SplitNext
<1>3. CASE Publish(r)
  <2>1. RunInv'
    BY <1>a, <1>3, Moved, InHandIsEvent DEF Publish, RunInv, RunType, Working, Steps
  <2>2. queue' \in [Events -> Topic!Message] /\ announced' \subseteq Events
    BY <1>3, InHandIsEvent, AnnounceType DEF Publish
  <2>3. WorldType'
    BY <1>a, <1>3, <2>2 DEF Publish, WorldType, bucket
  <2> QED
    BY <2>1, <2>3, SplitNext
<1>4. CASE Finish(r)
  <2>1. RunInv'
    BY <1>a, <1>4, Moved DEF Finish, RunInv, RunType, Steps
  <2>2. WorldType'
    BY <1>a, <1>4 DEF Finish, WorldType, bucket, topic
  <2> QED
    BY <2>1, <2>2, SplitNext
<1>5. CASE ListFails(r)
  <2>1. RunInv'
    BY <1>a, <1>5, Moved DEF ListFails, RunInv, RunType, Steps
  <2>2. listings' \in [Editions -> 0..Lookback]
    BY <1>a, <1>5, AskedType DEF ListFails, WorldType
  <2>3. WorldType'
    BY <1>a, <1>5, <2>2 DEF ListFails, Fault, WorldType, bucket, topic
  <2> QED
    BY <2>1, <2>3, SplitNext
<1> QED
  BY <1>1, <1>2, <1>3, <1>4, <1>5

\* The steps that count an edition.
LEMMA CountStep ==
  ASSUME CollectionInv, NEW r \in Runs,
         \/ \E e \in Editions : Skip(r, e) \/ CheckFails(r, e) \/ Fetch(r, e)
         \/ Mark(r) \/ FetchFails(r)
  PROVE  CollectionInv'
<1>a. WorldType /\ RunInv
  BY Split
<1>1. ASSUME NEW e \in Editions, Skip(r, e) PROVE CollectionInv'
  <2>1. RunInv'
    BY <1>a, <1>1, VisitTally DEF Skip
  <2>2. WorldType'
    BY <1>a, <1>1 DEF Skip, WorldType, bucket, topic
  <2> QED
    BY <2>1, <2>2, SplitNext
<1>2. ASSUME NEW e \in Editions, CheckFails(r, e) PROVE CollectionInv'
  <2>1. RunInv'
    BY <1>a, <1>2, VisitTally DEF CheckFails
  <2>2. WorldType'
    BY <1>a, <1>2 DEF CheckFails, Fault, WorldType, bucket, topic
  <2> QED
    BY <2>1, <2>2, SplitNext
<1>3. ASSUME NEW e \in Editions, Fetch(r, e) PROVE CollectionInv'
  <2>1. RunInv'
    BY <1>a, <1>3, Fetched
  <2>2. WorldType'
    BY <1>a, <1>3 DEF Fetch, WorldType, bucket, topic
  <2> QED
    BY <2>1, <2>2, SplitNext
<1>4. CASE Mark(r)
  <2>1. RunInv'
    BY <1>a, <1>4, HandTally DEF Mark, Working
  <2>2. WorldType'
    BY <1>a, <1>4, StoreType DEF Mark, WriteMarker, WorldType, topic
  <2> QED
    BY <2>1, <2>2, SplitNext
<1>5. CASE FetchFails(r)
  <2>1. RunInv'
    BY <1>a, <1>5, HandTally DEF FetchFails
  <2>2. pdf' \in [Paths -> Sums \union {Absent}] /\ marker' \in [Paths -> Sums \union {Absent}]
    BY <1>a, <1>5, StoreType DEF FetchFails, WriteMarker, WorldType, bucket
  <2>3. queue' \in [Events -> Topic!Message] /\ announced' \subseteq Events
    BY <1>a, <1>5, InHandIsEvent, AnnounceType DEF FetchFails, WorldType, topic
  <2>4. WorldType'
    BY <1>a, <1>5, <2>2, <2>3 DEF FetchFails, Fault, WorldType
  <2> QED
    BY <2>1, <2>4, SplitNext
<1> QED
  BY <1>1, <1>2, <1>3, <1>4, <1>5

LEMMA InvStep == CollectionInv /\ [Next]_vars => CollectionInv'
<1> SUFFICES ASSUME CollectionInv, [Next]_vars PROVE CollectionInv'
  OBVIOUS
<1>a. WorldType /\ RunInv
  BY Split
<1>1. ASSUME NEW e \in Editions, NEW c \in Sums, SiteChanges(e, c) PROVE CollectionInv'
  <2>1. WorldType'
    BY <1>a, <1>1 DEF SiteChanges, WorldType, bucket, topic
  <2>2. RunInv'
    BY <1>a, <1>1 DEF SiteChanges, RunInv, RunType, DataInv, CountInv, Accounted, InHand, run
  <2> QED
    BY <2>1, <2>2, SplitNext
<1>2. CASE EmptyBucket
  <2>1. WorldType'
    BY <1>a, <1>2 DEF EmptyBucket, WorldType, topic
  <2>2. RunInv'
    BY <1>a, <1>2 DEF EmptyBucket, RunInv, RunType, DataInv, CountInv, Accounted, InHand, run
  <2> QED
    BY <2>1, <2>2, SplitNext
<1>3. ASSUME NEW r \in Runs, List(r) \/ Backfill(r) PROVE CollectionInv'
  <2>1. PICK asked : asked \in SUBSET Editions /\ ListEditions(r, asked)
    BY <1>3, CollectionAssumption DEF List, Backfill, LastDays
  <2>2. PICK doubtful \in SUBSET (asked \ Served) :
          /\ pc[r] = "idle"
          /\ IF doubtful = {} THEN UNCHANGED faults ELSE Fault
          /\ todo' = [todo EXCEPT ![r] = (asked \cap Served) \union doubtful]
          /\ res' = [res EXCEPT ![r] = [NoResult EXCEPT !.found = Cardinality((asked \cap Served) \union doubtful)]]
          /\ pc' = [pc EXCEPT ![r] = "loop"]
          /\ UNCHANGED <<site, revisions, bucket, topic, current, data, reports>>
    BY <2>1 DEF ListEditions
  <2>3. (asked \cap Served) \union doubtful \in SUBSET Editions
    BY <2>1
  <2>4. RunInv'
    BY <1>a, <2>2, <2>3, Listed
  <2>5. listings' \in [Editions -> 0..Lookback]
    <3>1. CASE List(r)
      BY <1>a, <3>1, AskedType DEF List, WorldType
    <3>2. CASE Backfill(r)
      BY <1>a, <3>2 DEF Backfill, WorldType
    <3> QED
      BY <1>3, <3>1, <3>2
  <2>6. WorldType'
    BY <1>a, <2>2, <2>5 DEF Fault, WorldType, bucket, topic
  <2> QED
    BY <2>4, <2>6, SplitNext
<1>4. ASSUME NEW r \in Runs,
             Download(r) \/ Store(r) \/ Publish(r) \/ Finish(r) \/ ListFails(r)
      PROVE  CollectionInv'
  BY <1>4, MoveStep
<1>5. ASSUME NEW r \in Runs,
             \/ \E e \in Editions : Skip(r, e) \/ CheckFails(r, e) \/ Fetch(r, e)
             \/ Mark(r) \/ FetchFails(r)
      PROVE  CollectionInv'
  BY <1>5, CountStep
<1>6. ASSUME NEW r \in Runs, Report(r) \/ ReportFails(r) \/ Crash(r) PROVE CollectionInv'
  <2>1. RunInv'
    BY <1>a, <1>6, Exited DEF Report, ReportFails, Crash
  <2>2. res[r] \in Result
    BY <1>a DEF RunInv, RunType
  <2>3. WorldType'
    BY <1>a, <1>6, <2>2 DEF Report, ReportFails, Crash, Fault, WorldType, bucket, topic
  <2> QED
    BY <2>1, <2>3, SplitNext
<1>7. CASE UNCHANGED vars
  <2>1. WorldType'
    BY <1>a, <1>7 DEF vars, WorldType, bucket, topic
  <2>2. RunInv'
    BY <1>a, <1>7 DEF vars, RunInv, RunType, DataInv, CountInv, Accounted, InHand, run
  <2> QED
    BY <2>1, <2>2, SplitNext
<1> QED
  BY <1>1, <1>2, <1>3, <1>4, <1>5, <1>6, <1>7 DEF Next, Run, Work

LEMMA Invariant == Spec => []CollectionInv
  BY InvInit, InvStep, PTL DEF Spec

\* The bucket, the topic and the runs keep the values the code gives them; the
\* counters stay below the number of editions because they add up.
THEOREM TypeCorrect == Spec => []TypeOK
<1>1. CollectionInv => TypeOK
  BY DEF CollectionInv
<1> QED
  BY <1>1, Invariant, PTL

-----------------------------------------------------------------------------
\* A report that is published accounts for every edition its run found: a failed,
\* skipped or stored edition is counted once, and nothing is left when it reports.
THEOREM Reported == Spec => []ReportsAddUp
<1>1. Init => ReportsAddUp
  BY DEF Init, ReportsAddUp
<1>2. CollectionInv /\ ReportsAddUp /\ [Next]_vars => ReportsAddUp'
  <2> SUFFICES ASSUME CollectionInv, ReportsAddUp, [Next]_vars PROVE ReportsAddUp'
    OBVIOUS
  <2>1. ASSUME NEW r \in Runs, Report(r) PROVE ReportsAddUp'
    <3>1. todo[r] = {} /\ InHand(r) = 0 /\ Accounted(r) /\ res[r] \in Result
      BY <2>1 DEF Report, CollectionInv, CountInv, TypeOK, InHand, Working
    <3>2. res[r].found = res[r].stored + res[r].skipped + res[r].failed
      <4>1. Cardinality(Editions) \in Nat
        BY Finite
      <4> QED
        BY <3>1, <4>1, NothingFound DEF Accounted, Result, Count
    <3> QED
      BY <2>1, <3>2 DEF Report, ReportsAddUp
  <2>2. CASE reports' = reports
    BY <2>2 DEF ReportsAddUp
  <2>3. reports' = reports \/ \E r \in Runs : Report(r)
    BY DEF Next, Run, Work, vars, SiteChanges, EmptyBucket, List, Backfill, ListEditions, ListFails, Skip, CheckFails,
       Fetch, Download, Store, Publish, Mark, FetchFails, Finish, ReportFails, Crash
  <2> QED
    BY <2>1, <2>2, <2>3
<1> QED
  BY <1>1, <1>2, Invariant, PTL DEF Spec

-----------------------------------------------------------------------------
\* A run about to write a marker has announced what the marker will name.
ToMarkInv == \A r \in Runs : pc[r] = "mark" => <<PathOf[current[r]], data[r]>> \in announced

\* How a run comes to be about to mark, or goes on being so.
LEMMA AtMark ==
  ASSUME CollectionInv, [Next]_vars, NEW r \in Runs, pc'[r] = "mark"
  PROVE  Publish(r) \/ (pc[r] = "mark" /\ current'[r] = current[r] /\ data'[r] = data[r])
<1> DEFINE Goal == Publish(r) \/ (pc[r] = "mark" /\ current'[r] = current[r] /\ data'[r] = data[r])
<1>a. RunType
  BY DEF CollectionInv, TypeOK, RunType
<1>1. ASSUME NEW e \in Editions, NEW c \in Sums, SiteChanges(e, c) PROVE Goal
  BY <1>1 DEF SiteChanges, run
<1>2. CASE EmptyBucket
  BY <1>2 DEF EmptyBucket, run
<1>3. ASSUME NEW o \in Runs, NEW e \in Editions, Skip(o, e) \/ CheckFails(o, e) \/ Fetch(o, e) PROVE Goal
  BY <1>a, <1>3 DEF Skip, CheckFails, Fetch, Visit, RunType
<1>4. ASSUME NEW o \in Runs, List(o) \/ Backfill(o) \/ ListFails(o) \/ Finish(o) PROVE Goal
  BY <1>a, <1>4 DEF List, Backfill, ListEditions, ListFails, Finish, RunType
<1>5. ASSUME NEW o \in Runs, Download(o) \/ Store(o) \/ Publish(o) PROVE Goal
  BY <1>a, <1>5 DEF Download, Store, Publish, RunType
<1>6. ASSUME NEW o \in Runs, Mark(o) \/ FetchFails(o) PROVE Goal
  BY <1>a, <1>6 DEF Mark, FetchFails, RunType
<1>7. ASSUME NEW o \in Runs, Report(o) \/ ReportFails(o) \/ Crash(o) PROVE Goal
  BY <1>a, <1>7 DEF Report, ReportFails, Crash, Exit, RunType
<1>8. CASE UNCHANGED vars
  BY <1>8 DEF vars, run
<1> QED
  BY <1>1, <1>2, <1>3, <1>4, <1>5, <1>6, <1>7, <1>8 DEF Next, Run, Work

\* What is announced stays announced.
LEMMA AnnouncedGrows ==
  ASSUME CollectionInv, [Next]_vars
  PROVE  announced \subseteq announced'
  BY DEF Next, Run, Work, vars, topic, SiteChanges, EmptyBucket, List, Backfill, ListEditions, ListFails, Skip, CheckFails,
     Fetch, Download, Store, Publish, Mark, FetchFails, Finish, Report, ReportFails, Crash, Announce

\* Only a run about to mark writes a marker, and only EmptyBucket takes one away.
LEMMA MarkersWritten ==
  ASSUME [Next]_vars
  PROVE  \/ UNCHANGED marker
         \/ marker' = [p \in Paths |-> Absent]
         \/ \E r \in Runs : pc[r] = "mark" /\ WriteMarker(r)
  BY DEF Next, Run, Work, vars, bucket, SiteChanges, EmptyBucket, List, Backfill, ListEditions, ListFails, Skip, CheckFails,
     Fetch, Download, Store, Publish, Mark, FetchFails, Finish, Report, ReportFails, Crash

MarkInv == ToMarkInv /\ MarkedWasAnnounced

LEMMA MarkInvStep == CollectionInv /\ MarkInv /\ [Next]_vars => MarkInv'
<1> SUFFICES ASSUME CollectionInv, MarkInv, [Next]_vars PROVE MarkInv'
  OBVIOUS
<1> USE DEF MarkInv
<1>1. ToMarkInv'
  <2> SUFFICES ASSUME NEW r \in Runs, pc'[r] = "mark"
               PROVE  (<<PathOf[current[r]], data[r]>> \in announced)'
    BY DEF ToMarkInv
  <2>1. CASE Publish(r)
    BY <2>1 DEF Publish, Announce
  <2>2. CASE pc[r] = "mark" /\ current'[r] = current[r] /\ data'[r] = data[r]
    BY <2>2, AnnouncedGrows DEF ToMarkInv
  <2> QED
    BY <2>1, <2>2, AtMark
<1>2. MarkedWasAnnounced'
  <2> SUFFICES ASSUME NEW p \in Paths, marker'[p] # Absent
               PROVE  <<p, marker'[p]>> \in announced'
    BY DEF MarkedWasAnnounced
  <2>1. CASE UNCHANGED marker
    BY <2>1, AnnouncedGrows DEF MarkedWasAnnounced
  <2>2. ASSUME NEW r \in Runs, pc[r] = "mark", WriteMarker(r)
        PROVE  <<p, marker'[p]>> \in announced'
    BY <2>2, AnnouncedGrows DEF WriteMarker, ToMarkInv, MarkedWasAnnounced, CollectionInv, TypeOK
  <2> QED
    BY <2>1, <2>2, MarkersWritten
<1> QED
  BY <1>1, <1>2

\* An edition later runs skip is one the worker was told about: however runs overlap,
\* fail and die, a marker names a PDF whose event was published.
THEOREM Announced == Spec => []MarkedWasAnnounced
<1>1. Init => MarkInv
  BY DEF Init, MarkInv, ToMarkInv, MarkedWasAnnounced
<1>2. MarkInv => MarkedWasAnnounced
  BY DEF MarkInv
<1> QED
  BY <1>1, <1>2, Invariant, MarkInvStep, PTL DEF Spec

-----------------------------------------------------------------------------
(***************************************************************************)
(* What the scraper and the worker do to each other's data.                *)
(***************************************************************************)

\* The scraper changes the topic only by publishing.
LEMMA TopicStep ==
  ASSUME CollectionInv, [Next]_vars
  PROVE  UNCHANGED topic \/ \E ev \in Events : Announce(ev)
<1>1. ASSUME NEW r \in Runs, Publish(r) \/ FetchFails(r)
      PROVE  UNCHANGED topic \/ \E ev \in Events : Announce(ev)
  BY <1>1, InHandIsEvent DEF Publish, FetchFails
<1> QED
  BY <1>1 DEF Next, Run, Work, vars, topic, SiteChanges, EmptyBucket, List, Backfill, ListEditions, ListFails, Skip,
     CheckFails, Fetch, Download, Store, Mark, Finish, Report, ReportFails, Crash

\* The worker takes messages and fails; the rest is the scraper's.
LEMMA WorkerKeepsInv ==
  ASSUME CollectionInv, MarkInv, queue' \in [Events -> Topic!Message], faults' \in Nat,
         UNCHANGED <<site, revisions, listings, pdf, marker, announced, pc, todo, current, data, res, reports>>
  PROVE  CollectionInv' /\ MarkInv'
  BY DEF CollectionInv, TypeOK, DataInv, CountInv, Accounted, InHand, MarkInv, ToMarkInv,
     MarkedWasAnnounced

-----------------------------------------------------------------------------
(***************************************************************************)
(* The pipeline.                                                           *)
(***************************************************************************)

LEMMA Assumptions == XP!IndexingAssumption
<1>1. Editions # {} /\ Paths # {}
  BY CollectionAssumption
<1> QED
  BY <1>1, CollectionAssumption, PipelineAssumption DEF XP!IndexingAssumption, XP!IsFiniteSet, IsFiniteSet

\* A step of the scraper or of the source is one of Collection.
LEMMA ScraperIsCollection ==
  (\E r \in Runs : Collect(r)) \/ SourceStep => Next /\ UNCHANGED worker
  BY DEF Collect, SourceStep, Next

LEMMA WorkerIsIndexing == IndexStep => XP!Worker /\ UNCHANGED scraper
  BY DEF IndexStep,
     X!Worker, X!Work, X!DeadLetter, X!Start, X!Find, X!Get, X!Begin, X!Insert, X!Lookup, X!Fill,
     X!Publish, X!Reply, X!Fail, X!ReindexRead, X!ReplaceActs, X!ReindexFails, X!Fault, X!Goto,
     X!FreeConn, X!Sum, X!Commit, X!EndTx, X!Tell, X!GoIdle, X!AnyEvent, X!Events, X!PathIn,
     X!SumIn, X!NoReindex, X!store, X!work, X!other, X!Cardinality, X!Topic!CanDeliver,
     X!Topic!Delivered, X!Topic!Acked, X!Topic!CanGiveUp, X!Topic!GivenUp,
     XP!Worker, XP!Work, XP!DeadLetter, XP!Start, XP!Find, XP!Get, XP!Begin, XP!Insert, XP!Lookup,
     XP!Fill, XP!Publish, XP!Reply, XP!Fail, XP!ReindexRead, XP!ReplaceActs, XP!ReindexFails,
     XP!Fault, XP!Goto, XP!FreeConn, XP!Sum, XP!Commit, XP!EndTx, XP!Tell, XP!GoIdle,
     XP!AnyEvent, XP!Events, XP!PathIn, XP!SumIn, XP!NoReindex, XP!store, XP!work, XP!other,
     XP!Cardinality, XP!Topic!CanDeliver, XP!Topic!Delivered, XP!Topic!Acked,
     XP!Topic!CanGiveUp, XP!Topic!GivenUp

LEMMA InitParts == PipelineInit => Init /\ XP!Init
  BY DEF PipelineInit, X!Init, XP!Init, X!Events, XP!Events, X!AnyEvent, XP!AnyEvent,
     X!NoReindex, XP!NoReindex, X!Topic!Unpublished, XP!Topic!Unpublished

-----------------------------------------------------------------------------
\* An announced edition is in the topic.
AnnouncedInv == \A ev \in announced : queue[ev].state # "unpublished"

PipelineInv == CollectionInv /\ MarkInv /\ XP!IndexInv /\ AnnouncedInv

LEMMA SameTopic ==
  /\ Events = XP!Events /\ Events = Paths \X Sums
  /\ Topic!Message = XP!Topic!Message
  BY DEF Events, XP!Events, Topic!Message, XP!Topic!Message,
     Topic!MessageStates, XP!Topic!MessageStates

LEMMA ScraperStep ==
  ASSUME PipelineInv, (\E r \in Runs : Collect(r)) \/ SourceStep
  PROVE  PipelineInv'
<1>1. Next /\ UNCHANGED worker
  BY ScraperIsCollection
<1>2. CollectionInv' /\ MarkInv'
  BY <1>1, Assumptions, InvStep, MarkInvStep DEF PipelineInv
<1>3. UNCHANGED topic \/ \E ev \in Events : Announce(ev)
  BY <1>1, Assumptions, TopicStep DEF PipelineInv
<1>4. queue \in [Paths \X Sums -> Topic!Message]
  BY SameTopic DEF PipelineInv, CollectionInv, TypeOK
<1>5. XP!IndexInv'
  <2>1. /\ pdf' \in [Paths -> Sums \union {Absent}] /\ faults' \in Nat
        /\ queue' \in [XP!Events -> XP!Topic!Message]
    BY <1>2, SameTopic DEF CollectionInv, TypeOK
  <2>2. ASSUME NEW ev \in XP!Events, queue'[ev].state = "acked" PROVE queue[ev].state = "acked"
    BY <1>3, <1>4, <2>2, SameTopic DEF topic, Announce, Topic!Published
  <2>3. UNCHANGED <<XP!store, told, XP!work, XP!other>>
    BY <1>1 DEF worker, XP!store, XP!work, XP!other
  <2> QED
    BY <2>1, <2>2, <2>3, Assumptions, XP!SourceKeepsIndexInv DEF PipelineInv
<1>6. AnnouncedInv'
  <2> SUFFICES ASSUME NEW ev \in announced' PROVE queue'[ev].state # "unpublished"
    BY DEF AnnouncedInv
  <2>1. announced \subseteq Paths \X Sums /\ AnnouncedInv
    BY SameTopic DEF PipelineInv, CollectionInv, TypeOK
  <2>2. CASE UNCHANGED topic
    BY <2>1, <2>2 DEF AnnouncedInv, topic
  <2>3. ASSUME NEW e \in Paths \X Sums, Announce(e) PROVE queue'[ev].state # "unpublished"
    BY <1>4, <2>1, <2>3 DEF AnnouncedInv, Announce, Topic!Published
  <2> QED
    BY <1>3, <2>2, <2>3, SameTopic
<1> QED
  BY <1>2, <1>5, <1>6 DEF PipelineInv

LEMMA WorkerStep == ASSUME PipelineInv, IndexStep PROVE PipelineInv'
<1>1. XP!Next /\ UNCHANGED scraper
  BY WorkerIsIndexing DEF XP!Next
<1>2. XP!IndexInv'
  BY <1>1, Assumptions, XP!IndexInvStep DEF PipelineInv
<1>3. pdf' = pdf
  BY WorkerIsIndexing DEF XP!Worker, XP!Work, XP!DeadLetter, XP!Start, XP!Find, XP!Get, XP!Begin,
     XP!Insert, XP!Lookup, XP!Fill, XP!Publish, XP!Reply, XP!Fail, XP!ReindexRead,
     XP!ReplaceActs, XP!ReindexFails
<1>4. CollectionInv' /\ MarkInv'
  <2>1. queue' \in [Events -> Topic!Message] /\ faults' \in Nat
    BY <1>2, SameTopic DEF XP!IndexInv, XP!TypeOK
  <2> QED
    BY <1>1, <1>3, <2>1, Assumptions, WorkerKeepsInv DEF PipelineInv, scraper, run
<1>5. AnnouncedInv'
  <2> SUFFICES ASSUME NEW ev \in announced PROVE queue'[ev].state # "unpublished"
    BY <1>1 DEF AnnouncedInv, scraper
  <2>1. ev \in XP!Events /\ queue[ev].state # "unpublished"
    BY SameTopic DEF PipelineInv, AnnouncedInv, CollectionInv, TypeOK
  <2> QED
    BY <1>1, <2>1, Assumptions, XP!StaysPublished DEF PipelineInv, XP!IndexInv
<1> QED
  BY <1>2, <1>4, <1>5 DEF PipelineInv

\* What the scraper skips for good is never lost on the way: its event waits, is
\* in the dead letters, or has left the edition indexed and announced.
THEOREM MarkedInHand == PipelineSpec => []MarkedIsInHand
<1>1. PipelineInit => PipelineInv
  BY InitParts, Assumptions, InvInit, XP!IndexInvInit
  DEF PipelineInv, AnnouncedInv, Init, MarkInv, ToMarkInv, MarkedWasAnnounced
<1>2. PipelineInv /\ [PipelineNext]_PipelineVars => PipelineInv'
  <2> SUFFICES ASSUME PipelineInv, [PipelineNext]_PipelineVars PROVE PipelineInv'
    OBVIOUS
  <2>1. CASE (\E r \in Runs : Collect(r)) \/ SourceStep
    BY <2>1, ScraperStep
  <2>2. CASE IndexStep
    BY <2>2, WorkerStep
  <2>3. CASE UNCHANGED PipelineVars
    <3>1. CollectionInv' /\ MarkInv'
      BY <2>3, Assumptions, InvStep, MarkInvStep DEF PipelineInv, PipelineVars, scraper, run, vars
    <3>2. XP!IndexInv'
      BY <2>3, Assumptions, XP!IndexInvStep DEF PipelineInv, PipelineVars, worker, XP!vars
    <3>3. AnnouncedInv'
      BY <2>3 DEF PipelineInv, AnnouncedInv, PipelineVars, scraper
    <3> QED
      BY <3>1, <3>2, <3>3 DEF PipelineInv
  <2> QED
    BY <2>1, <2>2, <2>3 DEF PipelineNext
<1>3. PipelineInv => MarkedIsInHand
  <2> SUFFICES ASSUME PipelineInv, NEW p \in Paths, marker[p] # Absent
               PROVE  \/ queue[<<p, marker[p]>>].state \in {"queued", "dead"}
                      \/ Indexed(marker[p])
    BY DEF MarkedIsInHand
  <2> DEFINE ev == <<p, marker[p]>>
  <2>1. ev \in announced /\ ev \in Paths \X Sums
    BY SameTopic
    DEF PipelineInv, MarkInv, MarkedWasAnnounced, CollectionInv, TypeOK
  <2>2. queue[ev].state \in {"queued", "acked", "dead"}
    BY <2>1, SameTopic
    DEF PipelineInv, AnnouncedInv, CollectionInv, TypeOK, Topic!Message,
        Topic!MessageStates
  <2>3. queue[ev].state = "acked" => Indexed(marker[p])
    BY <2>1, SameTopic DEF PipelineInv, XP!IndexInv, XP!AckMeansIndexed, XP!SumIn, Indexed
  <2> QED
    BY <2>2, <2>3
<1> QED
  BY <1>1, <1>2, <1>3, PTL DEF PipelineSpec
=============================================================================
