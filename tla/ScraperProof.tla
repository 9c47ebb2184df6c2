---------------------------- MODULE ScraperProof ----------------------------
(***************************************************************************)
(* What Scraper promises, for all its constants: that runs which do not    *)
(* overlap leave under each marker the PDF it names, and that a listing     *)
(* that succeeds is complete, whatever the sites publish meanwhile.         *)
(***************************************************************************)
EXTENDS Scraper, TLAPS, FiniteSetTheorems

LEMMA SameMode == [ScraperNext]_ScraperVars => mode' = mode
  BY DEF ScraperNext, ScraperVars

-----------------------------------------------------------------------------
(***************************************************************************)
(* One run after another.  A run fetches only what has no marker, so that  *)
(* the path it stores at has none until it writes it.                      *)
(***************************************************************************)

SingleTypes ==
  /\ site \in [Editions -> Sums \union {Absent}]
  /\ pdf \in [Paths -> Sums \union {Absent}]
  /\ marker \in [Paths -> Sums \union {Absent}]
  /\ pc \in [{TheRun} -> Steps]
  /\ todo \in [{TheRun} -> SUBSET Editions]
  /\ current \in [{TheRun} -> Editions]
  /\ data \in [{TheRun} -> Sums \union {Absent}]

\* What the run works on has no marker, and what it announces is in the bucket.
HandInv ==
  /\ pc[TheRun] \in Working => marker[PathOf[current[TheRun]]] = Absent
  /\ pc[TheRun] \in {"publish", "mark"} => pdf[PathOf[current[TheRun]]] = data[TheRun]

SingleInv == SingleTypes /\ HandInv /\ MarkerNamesThePdf

LEMMA SingleStarts == Single!Init => SingleInv
<1>1. AnyEdition \in Editions /\ Single!AnyEdition = AnyEdition
  BY CollectionAssumption DEF AnyEdition, Single!AnyEdition
<1> QED
  BY <1>1 DEF Single!Init, SingleInv, SingleTypes, HandInv, MarkerNamesThePdf, Steps, Working

\* The run takes its next call and leaves the bucket alone.
LEMMA BucketStays ==
  ASSUME SingleInv, UNCHANGED <<pdf, marker>>, SingleTypes',
         \/ pc'[TheRun] \notin Working
         \/ /\ pc[TheRun] \in Working /\ current' = current
            /\ \/ pc'[TheRun] \notin {"publish", "mark"}
               \/ pc[TheRun] \in {"publish", "mark"} /\ data' = data
         \/ pc'[TheRun] = "download" /\ marker[PathOf[current'[TheRun]]] = Absent
  PROVE  SingleInv'
<1>1. HandInv'
  BY DEF SingleInv, HandInv, Working
<1> QED
  BY <1>1 DEF SingleInv, MarkerNamesThePdf

\* The PDF is stored where there is no marker.
LEMMA StoresUnmarked ==
  ASSUME SingleInv, pc[TheRun] = "store",
         pdf' = [pdf EXCEPT ![PathOf[current[TheRun]]] = data[TheRun]], marker' = marker,
         current' = current, data' = data, pc'[TheRun] \in {"publish", "loop"},
         pc' \in [{TheRun} -> Steps], site' = site, todo' = todo
  PROVE  SingleInv'
<1> DEFINE p == PathOf[current[TheRun]]
<1>1. p \in Paths /\ data[TheRun] \in Sums \union {Absent}
  BY CollectionAssumption DEF SingleInv, SingleTypes
<1>2. marker[p] = Absent /\ pdf'[p] = data[TheRun] /\ \A q \in Paths : q # p => pdf'[q] = pdf[q]
  BY <1>1 DEF SingleInv, SingleTypes, HandInv, Working
<1> HIDE DEF p
<1>3. SingleTypes'
  BY <1>1 DEF SingleInv, SingleTypes, p
<1>4. HandInv'
  BY <1>2 DEF HandInv, p
<1>5. MarkerNamesThePdf'
  BY <1>2 DEF SingleInv, MarkerNamesThePdf
<1> QED
  BY <1>3, <1>4, <1>5 DEF SingleInv

\* The marker names the PDF that was stored.
LEMMA MarksStored ==
  ASSUME SingleInv, pc[TheRun] = "mark",
         marker' = [marker EXCEPT ![PathOf[current[TheRun]]] = data[TheRun]], pdf' = pdf,
         current' = current, data' = data, pc'[TheRun] = "loop",
         pc' \in [{TheRun} -> Steps], site' = site, todo' = todo
  PROVE  SingleInv'
<1> DEFINE p == PathOf[current[TheRun]]
<1>1. p \in Paths /\ data[TheRun] \in Sums \union {Absent}
  BY CollectionAssumption DEF SingleInv, SingleTypes
<1>2. pdf[p] = data[TheRun] /\ marker'[p] = data[TheRun] /\ \A q \in Paths : q # p => marker'[q] = marker[q]
  BY <1>1 DEF SingleInv, SingleTypes, HandInv
<1> HIDE DEF p
<1>3. SingleTypes'
  BY <1>1 DEF SingleInv, SingleTypes, p
<1>4. HandInv'
  BY DEF HandInv, Working
<1>5. MarkerNamesThePdf'
  BY <1>2 DEF SingleInv, MarkerNamesThePdf
<1> QED
  BY <1>3, <1>4, <1>5 DEF SingleInv

LEMMA SingleStep == SingleInv /\ [Single!Next]_(Single!vars) => SingleInv'
<1> SUFFICES ASSUME SingleInv, [Single!Next]_(Single!vars) PROVE SingleInv'
  OBVIOUS
<1> DEFINE r == TheRun
<1>t. /\ SingleTypes /\ r \in {TheRun}
      /\ \A e \in Editions : PathOf[e] \in Paths
  BY CollectionAssumption DEF SingleInv
<1>1. ASSUME NEW e \in Editions, NEW c \in Sums, Single!SiteChanges(e, c) PROVE SingleInv'
  <2>1. SingleTypes' /\ UNCHANGED <<pdf, marker, pc, current, data>>
    BY <1>t, <1>1 DEF Single!SiteChanges, Single!bucket, Single!run, SingleTypes
  <2> QED
    BY <2>1 DEF SingleInv, HandInv, MarkerNamesThePdf
<1>2. CASE Single!EmptyBucket
  <2>1. pc[TheRun] = "idle" /\ UNCHANGED <<site, pc, todo, current, data>>
        /\ pdf' = [p \in Paths |-> Absent] /\ marker' = [p \in Paths |-> Absent]
    BY <1>2 DEF Single!EmptyBucket, Single!run
  <2> QED
    BY <2>1 DEF SingleInv, SingleTypes, HandInv, Working, MarkerNamesThePdf
<1>3. CASE Single!List(r) \/ Single!Backfill(r) \/ Single!ListFails(r) \/ Single!Finish(r)
  <2>1. UNCHANGED <<pdf, marker>> /\ pc'[r] \notin Working
    BY <1>t, <1>3 DEF Single!List, Single!Backfill, Single!ListEditions, Single!ListFails,
       Single!Finish, Single!bucket, SingleTypes, Working
  <2>2. /\ UNCHANGED <<site, current, data>>
        /\ \E to \in {"loop", "report"} : pc' = [pc EXCEPT ![r] = to]
        /\ UNCHANGED todo \/ \E listed \in SUBSET Editions : todo' = [todo EXCEPT ![r] = listed]
    <3>1. ASSUME NEW asked \in SUBSET Editions, Single!ListEditions(r, asked)
          PROVE  /\ UNCHANGED <<site, current, data>> /\ pc' = [pc EXCEPT ![r] = "loop"]
                 /\ \E listed \in SUBSET Editions : todo' = [todo EXCEPT ![r] = listed]
      BY <3>1 DEF Single!ListEditions
    <3>2. CASE Single!List(r)
      BY <3>1, <3>2 DEF Single!List, Single!LastDays
    <3>3. CASE Single!Backfill(r)
      BY <3>3 DEF Single!Backfill
    <3>4. CASE Single!ListFails(r) \/ Single!Finish(r)
      BY <3>4 DEF Single!ListFails, Single!Finish
    <3> QED
      BY <1>3, <3>2, <3>3, <3>4
  <2>3. SingleTypes'
    BY <1>t, <2>1, <2>2 DEF SingleTypes, Steps
  <2> QED
    BY <2>1, <2>3, BucketStays
<1>4. ASSUME NEW e \in Editions, Single!Skip(r, e) \/ Single!CheckFails(r, e) PROVE SingleInv'
  <2>1. UNCHANGED <<pdf, marker, pc>> /\ pc[r] = "loop"
    BY <1>4 DEF Single!Skip, Single!CheckFails, Single!Visit, Single!bucket
  <2>2. SingleTypes'
    BY <1>t, <1>4 DEF Single!Skip, Single!CheckFails, Single!Visit, Single!bucket, SingleTypes
  <2> QED
    BY <2>1, <2>2, BucketStays DEF Working
<1>5. ASSUME NEW e \in Editions, Single!Fetch(r, e) PROVE SingleInv'
  <2>1. UNCHANGED <<pdf, marker>> /\ pc'[r] = "download" /\ current'[r] = e /\ marker[PathOf[e]] = Absent
    BY <1>t, <1>5 DEF Single!Fetch, Single!bucket, SingleTypes
  <2>2. SingleTypes'
    BY <1>t, <1>5 DEF Single!Fetch, Single!Visit, Single!bucket, SingleTypes, Steps
  <2> QED
    BY <2>1, <2>2, BucketStays
<1>6. CASE Single!Download(r)
  <2>1. UNCHANGED <<pdf, marker, current>> /\ pc[r] = "download" /\ pc'[r] = "store"
    BY <1>t, <1>6 DEF Single!Download, Single!bucket, SingleTypes
  <2>2. SingleTypes'
    BY <1>t, <1>6 DEF Single!Download, Single!bucket, SingleTypes, Steps
  <2> QED
    BY <2>1, <2>2, BucketStays DEF Working
<1>7. CASE Single!Store(r)
  BY <1>t, <1>7, StoresUnmarked DEF Single!Store, SingleTypes, Steps
<1>8. CASE Single!Publish(r)
  <2>1. UNCHANGED <<pdf, marker, current, data>> /\ pc[r] = "publish" /\ pc'[r] = "mark"
    BY <1>t, <1>8 DEF Single!Publish, Single!bucket, SingleTypes
  <2>2. SingleTypes'
    BY <1>t, <1>8 DEF Single!Publish, Single!bucket, SingleTypes, Steps
  <2> QED
    BY <2>1, <2>2, BucketStays DEF Working
<1>9. CASE Single!Mark(r)
  BY <1>t, <1>9, MarksStored DEF Single!Mark, Single!WriteMarker, SingleTypes, Steps
<1>10. CASE Single!FetchFails(r)
  <2>1. /\ pc' = [pc EXCEPT ![r] = "loop"] /\ pc'[r] = "loop" /\ pc' \in [{TheRun} -> Steps]
        /\ UNCHANGED <<site, todo, current, data>>
    BY <1>t, <1>10 DEF Single!FetchFails, SingleTypes, Steps
  <2>2. CASE UNCHANGED <<pdf, marker>>
    <3>1. SingleTypes'
      BY <1>t, <2>1, <2>2 DEF SingleTypes
    <3> QED
      BY <2>1, <2>2, <3>1, BucketStays DEF Working
  <2>3. CASE pc[r] = "store" /\ pdf' = [pdf EXCEPT ![PathOf[current[r]]] = data[r]] /\ UNCHANGED marker
    BY <2>1, <2>3, StoresUnmarked
  <2>4. CASE pc[r] = "mark" /\ marker' = [marker EXCEPT ![PathOf[current[r]]] = data[r]] /\ UNCHANGED pdf
    BY <2>1, <2>4, MarksStored
  <2> QED
    BY <1>10, <2>2, <2>3, <2>4 DEF Single!FetchFails, Single!WriteMarker, Single!bucket
<1>11. CASE Single!Report(r) \/ Single!ReportFails(r) \/ Single!Crash(r)
  <2>1. Single!AnyEdition \in Editions
    BY CollectionAssumption DEF Single!AnyEdition
  <2>2. Single!Exit(r) /\ UNCHANGED <<site, pdf, marker>>
    BY <1>11 DEF Single!Report, Single!ReportFails, Single!Crash, Single!bucket
  <2>3. SingleTypes' /\ pc'[r] = "idle"
    BY <1>t, <2>1, <2>2 DEF Single!Exit, SingleTypes, Steps
  <2> QED
    BY <2>2, <2>3, BucketStays DEF Working
<1>12. CASE UNCHANGED Single!vars
  BY <1>12 DEF Single!vars, SingleInv, SingleTypes, HandInv, MarkerNamesThePdf
<1> QED
  BY <1>1, <1>2, <1>3, <1>4, <1>5, <1>6, <1>7, <1>8, <1>9, <1>10, <1>11, <1>12
     DEF Single!Next, Single!Run, Single!Work

LEMMA RunsSingle ==
  ScraperSpec => \/ []~(mode = "single")
                 \/ [](mode = "single") /\ Single!Init /\ [][Single!Next]_(Single!vars)
<1>1. ScraperInit /\ mode = "single" => Single!Init
  BY DEF ScraperInit
<1>2. mode = "single" /\ [ScraperNext]_ScraperVars =>
        [Single!Next]_(Single!vars) /\ (mode = "single")'
  BY DEF ScraperNext, ScraperVars, vars, Single!vars
<1>3. ~(mode = "single") /\ [ScraperNext]_ScraperVars => (~(mode = "single"))'
  BY SameMode
<1> QED
  BY <1>1, <1>2, <1>3, PTL DEF ScraperSpec

-----------------------------------------------------------------------------
(***************************************************************************)
(* The walk of the days.  A day already asked for is listed when it was    *)
(* served, and each one listed in doubt took MaxTries failures.            *)
(***************************************************************************)

DaysInv ==
  /\ served \subseteq 1..Days /\ out \subseteq 1..Days /\ present \subseteq served
  /\ day \in 1..(Days + 1) /\ tries \in 0..(MaxTries - 1) /\ failures \in Nat
  /\ \A d \in present : d < day => d \in out
  /\ MaxTries * Cardinality(out \ served) + tries <= failures
  /\ outcome = "listed" => day = Days + 1

\* How many of some days are in doubt.
LEMMA Counted ==
  ASSUME NEW D \in SUBSET (1..Days), NEW E \in SUBSET (1..Days)
  PROVE  /\ Cardinality(D) \in Nat
         /\ E \subseteq D => MaxTries * Cardinality(E) <= MaxTries * Cardinality(D)
         /\ \A d \in 1..Days : E \subseteq D \union {d} =>
              MaxTries * Cardinality(E) <= MaxTries * Cardinality(D) + MaxTries
<1>a. IsFiniteSet(1..Days)
  BY SourcesAssumption, FS_Interval
<1>1. IsFiniteSet(D) /\ IsFiniteSet(E)
  BY <1>a, FS_Subset
<1>2. Cardinality(D) \in Nat /\ Cardinality(E) \in Nat
  BY <1>1, FS_CardinalityType
<1>3. ASSUME E \subseteq D PROVE MaxTries * Cardinality(E) <= MaxTries * Cardinality(D)
  <2>1. Cardinality(E) <= Cardinality(D)
    BY <1>1, <1>3, FS_Subset
  <2> QED
    BY <1>2, <2>1, SourcesAssumption
<1>4. ASSUME NEW d \in 1..Days, E \subseteq D \union {d}
      PROVE  MaxTries * Cardinality(E) <= MaxTries * Cardinality(D) + MaxTries
  <2>1. IsFiniteSet(D \union {d}) /\ Cardinality(D \union {d}) <= Cardinality(D) + 1
    <3>1. IsFiniteSet(D \union {d})
          /\ (Cardinality(D \union {d}) = Cardinality(D) + 1 \/ D \union {d} = D)
      BY <1>1, FS_AddElement
    <3> QED
      BY <1>2, <3>1
  <2>2. Cardinality(E) <= Cardinality(D \union {d}) /\ Cardinality(D \union {d}) \in Nat
    BY <1>4, <2>1, FS_Subset, FS_CardinalityType
  <2>3. Cardinality(E) <= Cardinality(D) + 1
    BY <1>2, <2>1, <2>2
  <2>4. MaxTries * Cardinality(E) <= MaxTries * (Cardinality(D) + 1)
    BY <1>2, <2>3, SourcesAssumption
  <2> QED
    BY <1>2, <2>4, SourcesAssumption
<1> QED
  BY <1>2, <1>3, <1>4

\* The failure that gives a day up pays for it, with those its tries counted.
LEMMA OneMore ==
  ASSUME NEW old \in Nat, NEW new \in Nat, NEW f \in Nat,
         new <= old + MaxTries, old + (MaxTries - 1) <= f
  PROVE  new + 0 <= f + 1
  BY SourcesAssumption

LEMMA DaysStart == Sources!InitDays => DaysInv
<1>1. Cardinality({}) = 0
  BY FS_EmptySet
<1>2. \A s : {} \ s = {}
  OBVIOUS
<1> QED
  BY <1>1, <1>2, SourcesAssumption DEF Sources!InitDays, DaysInv

LEMMA DaysStep == DaysInv /\ [Sources!NextDays]_walk => DaysInv'
<1> SUFFICES ASSUME DaysInv, [Sources!NextDays]_walk PROVE DaysInv'
  OBVIOUS
<1> USE SourcesAssumption
<1>a. /\ out \ served \in SUBSET (1..Days) /\ Cardinality(out \ served) \in Nat
      /\ MaxTries * Cardinality(out \ served) \in Nat
  <2>1. out \ served \in SUBSET (1..Days)
    BY DEF DaysInv
  <2>2. Cardinality(out \ served) \in Nat
    BY <2>1, Counted
  <2> QED
    BY <2>1, <2>2
<1>1. ASSUME NEW d \in 1..Days, Sources!PublishDay(d) PROVE DaysInv'
  <2>1. served' = served \union {d} /\ UNCHANGED <<day, tries, out, present, outcome, failures>>
    BY <1>1 DEF Sources!PublishDay
  <2>2. out' \ served' \subseteq out \ served /\ out' \ served' \in SUBSET (1..Days)
    BY <2>1 DEF DaysInv
  <2>3. MaxTries * Cardinality(out' \ served') <= MaxTries * Cardinality(out \ served)
        /\ Cardinality(out' \ served') \in Nat
    BY <1>a, <2>2, Counted
  <2>4. MaxTries * Cardinality(out' \ served') + tries' <= failures'
    BY <1>a, <2>1, <2>3 DEF DaysInv
  <2> QED
    BY <2>1, <2>4 DEF DaysInv
<1>2. CASE Sources!Exists
  <2>1. /\ out' = IF day \in served THEN out \union {day} ELSE out
        /\ day' = day + 1 /\ tries' = 0 /\ day <= Days /\ outcome = "walking"
        /\ UNCHANGED <<served, present, outcome, failures>>
    BY <1>2 DEF Sources!Exists, Sources!Asking
  <2>2. out' \ served' = out \ served
    BY <2>1
  <2>3. MaxTries * Cardinality(out' \ served') + tries' <= failures'
    <3> DEFINE old == MaxTries * Cardinality(out \ served)
    <3>1. old \in Nat /\ tries \in Nat /\ failures \in Nat /\ old + tries <= failures
      BY <1>a DEF DaysInv
    <3>2. MaxTries * Cardinality(out' \ served') = old
      BY <2>2
    <3> HIDE DEF old
    <3>3. old + 0 <= failures
      BY <3>1
    <3> QED
      BY <2>1, <3>2, <3>3
  <2>4. out' \subseteq 1..Days /\ day' \in 1..(Days + 1) /\ tries' \in 0..(MaxTries - 1)
    BY <2>1 DEF DaysInv
  <2>5. \A d \in present' : d < day' => d \in out'
    <3>1. ASSUME NEW d \in present, d < day + 1 PROVE d \in out'
      <4>1. d \in Int /\ d \in served /\ day \in Int
        BY DEF DaysInv
      <4>2. d = day \/ d < day
        BY <3>1, <4>1
      <4> QED
        BY <2>1, <3>1, <4>1, <4>2 DEF DaysInv
    <3> QED
      BY <2>1, <3>1
  <2> QED
    BY <2>1, <2>3, <2>4, <2>5 DEF DaysInv
<1>3. CASE Sources!HeadFails
  <2>1. /\ failures' = failures + 1 /\ day <= Days /\ outcome = "walking"
        /\ UNCHANGED <<served, present, outcome>>
    BY <1>3 DEF Sources!HeadFails, Sources!Asking, Sources!Fault
  <2>2. CASE tries + 1 < MaxTries
    <3>1. tries' = tries + 1 /\ day' = day /\ out' = out
      BY <1>3, <2>2 DEF Sources!HeadFails
    <3>2. MaxTries * Cardinality(out' \ served') + tries' <= failures'
      BY <1>a, <2>1, <3>1 DEF DaysInv
    <3> QED
      BY <2>1, <2>2, <3>1, <3>2 DEF DaysInv
  <2>3. CASE ~(tries + 1 < MaxTries)
    <3>1. tries' = 0 /\ day' = day + 1 /\ out' = out \union {day}
      BY <1>3, <2>3 DEF Sources!HeadFails, Sources!InDoubt
    <3>2. day \in 1..Days /\ tries = MaxTries - 1
      BY <2>1, <2>3 DEF DaysInv
    <3>3. out' \ served' \subseteq (out \ served) \union {day} /\ out' \ served' \in SUBSET (1..Days)
      BY <2>1, <3>1, <3>2 DEF DaysInv
    <3>4. MaxTries * Cardinality(out' \ served') <= MaxTries * Cardinality(out \ served) + MaxTries
          /\ Cardinality(out' \ served') \in Nat
      BY <1>a, <3>2, <3>3, Counted
    <3>5. MaxTries * Cardinality(out' \ served') + tries' <= failures'
      <4> DEFINE old == MaxTries * Cardinality(out \ served)
                 new == MaxTries * Cardinality(out' \ served')
      <4>1. old \in Nat /\ new \in Nat /\ failures \in Nat
        BY <1>a, <3>4 DEF DaysInv
      <4>2. new <= old + MaxTries /\ old + (MaxTries - 1) <= failures
        BY <3>2, <3>4 DEF DaysInv
      <4> HIDE DEF old, new
      <4>3. new + 0 <= failures + 1
        BY <4>1, <4>2, OneMore
      <4> QED
        BY <2>1, <3>1, <4>3 DEF new
    <3>6. \A d \in present' : d < day' => d \in out'
      <4>1. ASSUME NEW d \in present, d < day + 1 PROVE d \in out'
        <5>1. d \in Int /\ day \in Int
          BY DEF DaysInv
        <5>2. d = day \/ d < day
          BY <4>1, <5>1
        <5> QED
          BY <3>1, <4>1, <5>2 DEF DaysInv
      <4> QED
        BY <2>1, <3>1, <4>1
    <3> QED
      BY <2>1, <3>1, <3>2, <3>5, <3>6 DEF DaysInv
  <2> QED
    BY <2>2, <2>3
<1>4. CASE Sources!Cancel
  BY <1>a, <1>4 DEF Sources!Cancel, Sources!Fault, DaysInv
<1>5. CASE Sources!ListDays
  BY <1>5 DEF Sources!ListDays, DaysInv
<1>6. CASE outcome # "walking" /\ Sources!StartDays /\ UNCHANGED <<served, failures>>
  <2>1. /\ day' = 1 /\ tries' = 0 /\ out' = {} /\ present' = served /\ outcome' = "walking"
        /\ served' = served /\ failures' = failures
    BY <1>6 DEF Sources!StartDays
  <2>2. out' \ served' = {} /\ Cardinality({}) = 0
    BY <2>1, FS_EmptySet
  <2>3. MaxTries * Cardinality(out' \ served') + tries' <= failures'
    BY <2>1, <2>2 DEF DaysInv
  <2> QED
    BY <2>1, <2>3 DEF DaysInv
<1>7. CASE UNCHANGED walk
  BY <1>7 DEF walk, walkOfDays, DaysInv
<1> QED
  BY <1>1, <1>2, <1>3, <1>4, <1>5, <1>6, <1>7 DEF Sources!NextDays

LEMMA DaysListed == DaysInv => Sources!NoDayIsMissed
<1> SUFFICES ASSUME DaysInv, outcome = "listed"
             PROVE  present \subseteq out /\ MaxTries * Cardinality(out \ served) <= failures
  BY Zenon DEF Sources!NoDayIsMissed, Sources!Cardinality, Cardinality
<1>1. \A d \in present : d < day
  BY SourcesAssumption DEF DaysInv
<1>2. out \ served \in SUBSET (1..Days)
  BY DEF DaysInv
<1>3. Cardinality(out \ served) \in Nat
  BY <1>2, Counted
<1>4. MaxTries * Cardinality(out \ served) \in Nat
  BY <1>3, SourcesAssumption
<1>5. MaxTries * Cardinality(out \ served) <= failures
  BY <1>4, SourcesAssumption DEF DaysInv
<1> QED
  BY <1>1, <1>5 DEF DaysInv

LEMMA RunsDays ==
  ScraperSpec => \/ []~(mode = "days")
                 \/ [](mode = "days") /\ Sources!InitDays /\ [][Sources!NextDays]_walk
<1>1. ScraperInit /\ mode = "days" => Sources!InitDays
  BY DEF ScraperInit
<1>2. mode = "days" /\ [ScraperNext]_ScraperVars => [Sources!NextDays]_walk /\ (mode = "days")'
  BY DEF ScraperNext, ScraperVars
<1>3. ~(mode = "days") /\ [ScraperNext]_ScraperVars => (~(mode = "days"))'
  BY SameMode
<1> QED
  BY <1>1, <1>2, <1>3, PTL DEF ScraperSpec

-----------------------------------------------------------------------------
(***************************************************************************)
(* The walk of the pages.  The pages read are the first ones, 1 to n: a    *)
(* queue that holds a page further on holds before it the one that          *)
(* precedes it.  So the edition that is not seen yet is further on, where    *)
(* an edition published meanwhile only pushes it, and a walk that runs out   *)
(* of links has seen the last page.                                         *)
(***************************************************************************)

Listable == Old \union ToPublish

Wanted == {e \in present : e.day \in Period}

\* Before a page that is not the next one the queue has the page that precedes it.
InOrder(n) ==
  \A i \in DOMAIN pending :
    pending[i] > n + 1 => \E j \in 1..(i - 1) : pending[j] = pending[i] - 1

\* What is wanted and not seen is on a page further on.
Ahead(n) ==
  \A e \in Wanted \ seen : \E i \in DOMAIN listing : listing[i] = e /\ i > n * PageSize

\* Unless the next page is in the queue, everything was seen.
HasNext(n) == (\A i \in DOMAIN pending : pending[i] # n + 1) => Wanted \subseteq seen

ReadUpTo(n) == visited = 1..n /\ InOrder(n) /\ Ahead(n) /\ HasNext(n)

PagesInv ==
  /\ listing \in Seq(Listable) /\ pending \in Seq(Nat \ {0})
  /\ \E n \in Nat : ReadUpTo(n)
  /\ Sources!WalkIsComplete

\* Pages are enough for what they list.
LEMMA Divided ==
  ASSUME NEW length \in Nat, NEW size \in Nat \ {0}, NEW m \in Nat, (length + size - 1) \div size <= m
  PROVE  length <= m * size
<1> DEFINE d == (length + size - 1) \div size
           r == (length + size - 1) % size
<1>1. length + size - 1 = size * d + r /\ r \in 0..(size - 1) /\ d \in Int
  OBVIOUS
<1>2. d <= m
  OBVIOUS
<1> HIDE DEF d, r
<1>3. size * d <= size * m
  BY <1>1, <1>2
<1> QED
  BY <1>1, <1>3

LEMMA LastPages ==
  ASSUME listing \in Seq(Listable)
  PROVE  /\ Sources!LastPage \in Nat
         /\ \A n \in Nat : Sources!LastPage <= n => Len(listing) <= n * PageSize
<1>1. Len(listing) \in Nat /\ (listing = <<>> => Len(listing) = 0)
  OBVIOUS
<1>2. CASE listing = <<>>
  <2>1. Sources!LastPage = 1
    BY <1>2 DEF Sources!LastPage
  <2>2. \A n \in Nat : n * PageSize \in Nat
    BY SourcesAssumption
  <2> QED
    BY <1>1, <1>2, <2>1, <2>2
<1>3. CASE listing # <<>>
  <2>1. Sources!LastPage = (Len(listing) + PageSize - 1) \div PageSize
    BY <1>3 DEF Sources!LastPage
  <2>2. (Len(listing) + PageSize - 1) \div PageSize \in Nat
    BY <1>1, SourcesAssumption
  <2>3. \A n \in Nat : (Len(listing) + PageSize - 1) \div PageSize <= n => Len(listing) <= n * PageSize
    BY <1>1, SourcesAssumption, Divided
  <2> QED
    BY <2>1, <2>2, <2>3
<1> QED
  BY <1>2, <1>3

LEMMA PagesStart == Sources!InitPages => PagesInv
<1> SUFFICES ASSUME Sources!InitPages PROVE PagesInv
  OBVIOUS
<1>1. /\ listing \in FirstPages /\ pending = <<1>> /\ visited = {} /\ seen = {}
      /\ present = Sources!ToSet(listing) /\ outcome = "walking"
  BY DEF Sources!InitPages
<1>2. listing \in Seq(Old)
  BY <1>1, SourcesAssumption
<1>3. listing \in Seq(Listable)
  BY <1>2 DEF Listable
<1>4. ReadUpTo(0)
  <2>1. 1..0 = {} /\ 0 * PageSize = 0
    BY SourcesAssumption
  <2>2. \A e \in present : \E i \in DOMAIN listing : listing[i] = e
    BY <1>1 DEF Sources!ToSet
  <2>3. \A i \in DOMAIN listing : i > 0
    BY <1>3
  <2>4. Ahead(0)
    BY <2>1, <2>2, <2>3 DEF Ahead, Wanted
  <2>5. InOrder(0) /\ HasNext(0)
    BY <1>1 DEF InOrder, HasNext
  <2> QED
    BY <1>1, <2>1, <2>4, <2>5 DEF ReadUpTo
<1> QED
  BY <1>1, <1>3, <1>4 DEF PagesInv, Sources!WalkIsComplete

\* An edition published pushes the others further on, or leaves them where they are.
LEMMA Pushed ==
  ASSUME NEW s \in Seq(Listable), NEW e \in Listable, NEW k \in 1..(Len(s) + 1),
         NEW t, t = Sources!InsertAt(s, k, e)
  PROVE  /\ t \in Seq(Listable)
         /\ \A i \in DOMAIN s : \E j \in DOMAIN t : j >= i /\ t[j] = s[i]
<1> DEFINE front == SubSeq(s, 1, k - 1)
           back == SubSeq(s, k, Len(s))
<1>1. t = (front \o <<e>>) \o back
  BY DEF Sources!InsertAt
<1>2. front \in Seq(Listable) /\ Len(front) = k - 1 /\ \A i \in 1..(k - 1) : front[i] = s[i]
  OBVIOUS
<1>3. back \in Seq(Listable) /\ Len(back) = Len(s) - k + 1 /\ \A i \in 1..(Len(s) - k + 1) : back[i] = s[k + i - 1]
  OBVIOUS
<1>4. <<e>> \in Seq(Listable) /\ Len(<<e>>) = 1
  OBVIOUS
<1> HIDE DEF front, back
<1>5. /\ front \o <<e>> \in Seq(Listable) /\ Len(front \o <<e>>) = k
      /\ \A i \in 1..(k - 1) : (front \o <<e>>)[i] = s[i]
  BY <1>2, <1>4
<1> DEFINE head == front \o <<e>>
<1> HIDE DEF head
<1>6. head \in Seq(Listable) /\ Len(head) = k /\ \A i \in 1..(k - 1) : head[i] = s[i]
  BY <1>5 DEF head
<1>7. t = head \o back
  BY <1>1 DEF head
<1>8. t \in Seq(Listable) /\ Len(t) = Len(s) + 1
  <2>1. head \o back \in Seq(Listable) /\ Len(head \o back) = Len(head) + Len(back)
    <3>1. head \in Seq(Listable) /\ back \in Seq(Listable)
      BY <1>3, <1>6
    <3> QED
      BY <3>1
  <2>2. Len(s) \in Nat /\ k \in Int
    OBVIOUS
  <2> QED
    BY <1>3, <1>6, <1>7, <2>1, <2>2
<1>9. ASSUME NEW i \in DOMAIN s PROVE \E j \in DOMAIN t : j >= i /\ t[j] = s[i]
  <2>1. CASE i < k
    <3>1. i \in DOMAIN t /\ t[i] = s[i]
      BY <1>3, <1>6, <1>7, <1>8, <2>1
    <3> QED
      BY <3>1
  <2>2. CASE i >= k
    <3>1. i + 1 \in DOMAIN t /\ t[i + 1] = back[i - k + 1] /\ back[i - k + 1] = s[i]
      BY <1>3, <1>6, <1>7, <1>8, <2>2, SMTT(30)
    <3> QED
      BY <3>1
  <2> QED
    BY <2>1, <2>2
<1> QED
  BY <1>8, <1>9

LEMMA PublishKeeps ==
  ASSUME PagesInv, NEW e \in ToPublish, Sources!PublishEdition(e)
  PROVE  PagesInv'
<1>1. PICK k \in 1..(Len(listing) + 1) : listing' = Sources!InsertAt(listing, k, e)
  BY DEF Sources!PublishEdition
<1>2. UNCHANGED <<pending, visited, seen, present, outcome>>
  BY DEF Sources!PublishEdition
<1>3. /\ listing' \in Seq(Listable)
      /\ \A i \in DOMAIN listing : \E j \in DOMAIN listing' : j >= i /\ listing'[j] = listing[i]
  <2>1. listing \in Seq(Listable) /\ e \in Listable
    BY DEF PagesInv, Listable
  <2> QED
    BY <1>1, <2>1, Pushed
<1>4. PICK n \in Nat : ReadUpTo(n)
  BY DEF PagesInv
<1>5. Ahead(n)'
  <2>1. Wanted' = Wanted /\ seen' = seen
    BY <1>2 DEF Wanted
  <2>2. ASSUME NEW w \in Wanted \ seen
        PROVE  \E j \in DOMAIN listing' : listing'[j] = w /\ j > n * PageSize
    <3>1. PICK i \in DOMAIN listing : listing[i] = w /\ i > n * PageSize
      BY <1>4 DEF ReadUpTo, Ahead
    <3>2. PICK j \in DOMAIN listing' : j >= i /\ listing'[j] = listing[i]
      BY <1>3
    <3>3. i \in Int /\ j \in Int /\ n * PageSize \in Int
      BY <1>3, SourcesAssumption DEF PagesInv
    <3>4. j > n * PageSize
      BY <3>1, <3>2, <3>3
    <3> QED
      BY <3>1, <3>2, <3>4
  <2> QED
    BY <2>1, <2>2 DEF Ahead
<1>6. ReadUpTo(n)'
  BY <1>2, <1>4, <1>5 DEF ReadUpTo, InOrder, HasNext, Wanted
<1> QED
  BY <1>2, <1>3, <1>6 DEF PagesInv, Sources!WalkIsComplete

\* A page that was read leaves the queue.
LEMMA SkipKeeps ==
  ASSUME PagesInv, Sources!Skip
  PROVE  PagesInv'
<1>1. PICK n \in Nat : ReadUpTo(n)
  BY DEF PagesInv
<1>2. /\ outcome = "walking" /\ pending # <<>> /\ pending \in Seq(Nat \ {0})
      /\ pending[1] \in 1..n /\ pending' = Tail(pending)
      /\ UNCHANGED <<listing, visited, seen, present, outcome>>
  BY <1>1 DEF Sources!Skip, Sources!Walking, ReadUpTo, PagesInv
<1>3. /\ pending' \in Seq(Nat \ {0}) /\ Len(pending') = Len(pending) - 1 /\ Len(pending) \in Nat
      /\ \A i \in 1..(Len(pending) - 1) : pending'[i] = pending[i + 1]
  BY <1>2
<1>4. InOrder(n)'
  <2> SUFFICES ASSUME NEW i \in DOMAIN pending', pending'[i] > n + 1
               PROVE  \E j \in 1..(i - 1) : pending'[j] = pending'[i] - 1
    BY DEF InOrder
  <2>1. i \in 1..(Len(pending) - 1) /\ pending'[i] = pending[i + 1] /\ i + 1 \in DOMAIN pending
    BY <1>2, <1>3
  <2>2. PICK j \in 1..((i + 1) - 1) : pending[j] = pending[i + 1] - 1
    BY <1>1, <2>1 DEF ReadUpTo, InOrder
  <2>3. j # 1
    BY <1>2, <2>1, <2>2
  <2>4. j - 1 \in 1..(i - 1) /\ j - 1 \in 1..(Len(pending) - 1) /\ (j - 1) + 1 = j
    BY <2>1, <2>2, <2>3
  <2>5. pending'[j - 1] = pending[j]
    BY <1>3, <2>4
  <2> QED
    BY <2>1, <2>2, <2>4, <2>5
<1>5. HasNext(n)'
  <2> SUFFICES ASSUME \A i \in DOMAIN pending' : pending'[i] # n + 1
               PROVE  Wanted' \subseteq seen'
    BY DEF HasNext
  <2>1. ASSUME NEW i \in DOMAIN pending PROVE pending[i] # n + 1
    <3>1. CASE i = 1
      BY <1>2, <3>1
    <3>2. CASE i # 1
      <4>1. i - 1 \in DOMAIN pending' /\ pending'[i - 1] = pending[(i - 1) + 1] /\ (i - 1) + 1 = i
        BY <1>2, <1>3, <3>2
      <4> QED
        BY <4>1
    <3> QED
      BY <3>1, <3>2
  <2> QED
    BY <1>1, <1>2, <2>1 DEF ReadUpTo, HasNext, Wanted
<1>6. ReadUpTo(n)'
  BY <1>1, <1>2, <1>4, <1>5 DEF ReadUpTo, Ahead, Wanted
<1> QED
  BY <1>2, <1>3, <1>6 DEF PagesInv, Sources!WalkIsComplete

\* The first page of the queue that was not read is the next one.
LEMMA NextPage ==
  ASSUME NEW n \in Nat, ReadUpTo(n), pending \in Seq(Nat \ {0}), pending # <<>>,
         Head(pending) \notin visited
  PROVE  Head(pending) = n + 1
<1>1. 1 \in DOMAIN pending /\ Head(pending) = pending[1] /\ pending[1] \in Nat \ {0}
  OBVIOUS
<1>2. pending[1] > n
  BY <1>1 DEF ReadUpTo
<1>3. ~(pending[1] > n + 1)
  <2> SUFFICES ASSUME pending[1] > n + 1 PROVE FALSE
    OBVIOUS
  <2>1. \E j \in 1..(1 - 1) : pending[j] = pending[1] - 1
    BY <1>1 DEF ReadUpTo, InOrder
  <2> QED
    BY <2>1
<1> QED
  BY <1>1, <1>2, <1>3

\* The links that a page adds to the queue: the pages not read that it shows.
New(n) == Sources!Links(n + 1) \ (1..n \union {n + 1})

LEMMA NewLinks ==
  ASSUME PagesInv, NEW n \in Nat
  PROVE  /\ \A p \in New(n) : p \in Nat /\ p >= n + 2 /\ (p > n + 2 => p - 1 \in New(n))
         /\ n + 2 <= Sources!LastPage => n + 2 \in New(n)
         /\ IsFiniteSet(New(n)) /\ Cardinality(New(n)) \in Nat
<1>1. Sources!LastPage \in Nat
  BY LastPages DEF PagesInv
<1>2. New(n) = {p \in 1..Sources!LastPage : p >= n + 2 /\ p <= n + 1 + Reach}
  BY <1>1, SourcesAssumption DEF New, Sources!Links
<1>3. \A p \in New(n) : p \in Nat /\ p >= n + 2 /\ (p > n + 2 => p - 1 \in New(n))
  BY <1>1, <1>2, SourcesAssumption
<1>4. n + 2 <= Sources!LastPage => n + 2 \in New(n)
  BY <1>1, <1>2, SourcesAssumption
<1>5. IsFiniteSet(1..Sources!LastPage)
  BY <1>1, FS_Interval
<1>6. New(n) \subseteq 1..Sources!LastPage
  BY <1>2
<1>7. IsFiniteSet(New(n))
  BY <1>5, <1>6, FS_Subset
<1>8. Cardinality(New(n)) \in Nat
  BY <1>7, FS_CardinalityType
<1> QED
  BY <1>3, <1>4, <1>7, <1>8

LEMMA Joined ==
  ASSUME NEW S, NEW s \in Seq(S), NEW t \in Seq(S)
  PROVE  /\ s \o t \in Seq(S) /\ Len(s \o t) = Len(s) + Len(t)
         /\ \A i \in 1..Len(s) : (s \o t)[i] = s[i]
         /\ \A i \in 1..Len(t) : (s \o t)[Len(s) + i] = t[i]
  OBVIOUS

\* The next page is read: what is wanted of it is seen, its links follow the queue.
LEMMA ReadNext ==
  ASSUME PagesInv, NEW n \in Nat, ReadUpTo(n), Sources!ListingPage
  PROVE  PagesInv'
<1>1. /\ outcome = "walking" /\ pending # <<>> /\ pending \in Seq(Nat \ {0})
      /\ Head(pending) \notin visited
      /\ UNCHANGED <<listing, present, outcome>>
  BY DEF Sources!ListingPage, Sources!Walking, PagesInv
<1>2. Head(pending) = n + 1
  BY <1>1, NextPage
<1>3. /\ visited' = visited \union {n + 1}
      /\ seen' = seen \union {e \in Sources!Listed(n + 1) : e.day \in Period}
      /\ Sources!Follow(n + 1)
  BY <1>2 DEF Sources!ListingPage
<1>4. visited = 1..n
  BY DEF ReadUpTo
<1>5. PICK links \in Sources!LinksTo(New(n)) : pending' = Tail(pending) \o links
  BY <1>3, <1>4 DEF Sources!Follow, New
<1>6. /\ \A p \in New(n) : p \in Nat /\ p >= n + 2 /\ (p > n + 2 => p - 1 \in New(n))
      /\ n + 2 <= Sources!LastPage => n + 2 \in New(n)
      /\ Cardinality(New(n)) \in Nat
  BY NewLinks
<1> DEFINE m == Cardinality(New(n))
<1>7. /\ m \in Nat /\ links \in [1..m -> New(n)]
      /\ \A i, j \in 1..m : i < j => links[i] < links[j]
      /\ \A p \in New(n) : \E i \in 1..m : links[i] = p
  BY <1>5, <1>6, Zenon DEF Sources!LinksTo, Sources!Cardinality, Cardinality
<1> HIDE DEF m
<1>8. links \in Seq(Nat \ {0}) /\ Len(links) = m
  BY <1>6, <1>7
<1> DEFINE t == Tail(pending)
           l == Len(pending) - 1
<1>9. /\ t \in Seq(Nat \ {0}) /\ Len(t) = l /\ l \in Nat
      /\ \A i \in 1..l : t[i] = pending[i + 1]
  BY <1>1
<1>10. pending[1] = n + 1 /\ DOMAIN pending = 1..(l + 1)
  BY <1>1, <1>2
<1> HIDE DEF t, l
<1>11. /\ pending' \in Seq(Nat \ {0}) /\ Len(pending') = l + m
       /\ \A i \in 1..l : pending'[i] = pending[i + 1]
       /\ \A i \in 1..m : pending'[l + i] = links[i]
  <2>1. /\ t \o links \in Seq(Nat \ {0}) /\ Len(t \o links) = l + m
        /\ \A i \in 1..l : (t \o links)[i] = t[i]
        /\ \A i \in 1..m : (t \o links)[l + i] = links[i]
    <3>1. t \in Seq(Nat \ {0}) /\ links \in Seq(Nat \ {0})
      BY <1>8, <1>9
    <3>2. /\ t \o links \in Seq(Nat \ {0}) /\ Len(t \o links) = Len(t) + Len(links)
          /\ \A i \in 1..Len(t) : (t \o links)[i] = t[i]
          /\ \A i \in 1..Len(links) : (t \o links)[Len(t) + i] = links[i]
      BY <3>1, Joined
    <3>3. Len(t) = l /\ Len(links) = m
      BY <1>8, <1>9
    <3> QED
      BY <3>2, <3>3, Zenon
  <2>2. pending' = t \o links
    BY <1>5 DEF t
  <2> QED
    BY <1>9, <2>1, <2>2
<1>12. DOMAIN pending' = 1..(l + m)
  BY <1>7, <1>9, <1>11
<1>13. ASSUME NEW i \in 1..(l + m), pending'[i] > n + 2
       PROVE  \E j \in 1..(i - 1) : pending'[j] = pending'[i] - 1
  <2>1. CASE i <= l
    <3>1. i \in 1..l /\ pending'[i] = pending[i + 1] /\ i + 1 \in DOMAIN pending
          /\ pending[i + 1] \in Nat
      BY <1>1, <1>9, <1>10, <1>11, <2>1
    <3>2. PICK j \in 1..((i + 1) - 1) : pending[j] = pending[i + 1] - 1
      BY <1>13, <3>1 DEF ReadUpTo, InOrder
    <3>3. j # 1
      BY <1>10, <1>13, <3>1, <3>2
    <3>4. j - 1 \in 1..(i - 1) /\ j - 1 \in 1..l /\ (j - 1) + 1 = j
      BY <1>9, <3>1, <3>2, <3>3
    <3>5. pending'[j - 1] = pending[j]
      BY <1>11, <3>4
    <3> QED
      BY <3>1, <3>2, <3>4, <3>5
  <2>2. CASE i > l
    <3> DEFINE k == i - l
    <3>1. k \in 1..m /\ i = l + k
      BY <1>7, <1>9, <2>2
    <3>2. pending'[i] = links[k] /\ links[k] \in New(n)
      BY <1>7, <1>11, <3>1
    <3>3. links[k] - 1 \in New(n)
      BY <1>6, <1>13, <3>2
    <3>4. PICK h \in 1..m : links[h] = links[k] - 1
      BY <1>7, <3>3
    <3>5. links[k] \in Nat
      BY <1>6, <3>2
    <3>6. h < k
      <4>1. h # k /\ ~(k < h)
        BY <1>7, <3>1, <3>4, <3>5
      <4> QED
        BY <1>7, <3>1, <3>4, <4>1
    <3>7. l + h \in 1..(i - 1) /\ pending'[l + h] = links[h]
      BY <1>7, <1>9, <1>11, <3>1, <3>6
    <3> QED
      BY <3>2, <3>4, <3>7
  <2> QED
    BY <1>9, <2>1, <2>2
<1>14. InOrder(n + 1)'
  <2>1. (n + 1) + 1 = n + 2
    OBVIOUS
  <2> QED
    BY <1>12, <1>13, <2>1 DEF InOrder
<1>15. ASSUME NEW w \in Wanted \ seen, NEW i \in DOMAIN listing, listing[i] = w, i > n * PageSize,
              ~(i > (n + 1) * PageSize)
       PROVE  w \in seen'
  <2>1. i \in Int /\ n * PageSize \in Int /\ (n + 1) * PageSize \in Int
    BY SourcesAssumption DEF PagesInv
  <2>2. i <= (n + 1) * PageSize /\ ((n + 1) - 1) * PageSize < i
    BY <1>15, <2>1
  <2>3. w \in Sources!Listed(n + 1)
    BY <1>15, <2>2 DEF Sources!Listed
  <2> QED
    BY <1>3, <2>3 DEF Wanted
<1>16. Ahead(n + 1)'
  <2> SUFFICES ASSUME NEW w \in Wanted \ seen'
               PROVE  \E i \in DOMAIN listing : listing[i] = w /\ i > (n + 1) * PageSize
    BY <1>1 DEF Ahead, Wanted
  <2>1. w \in Wanted \ seen
    BY <1>3
  <2>2. PICK i \in DOMAIN listing : listing[i] = w /\ i > n * PageSize
    BY <2>1 DEF ReadUpTo, Ahead
  <2> QED
    BY <1>15, <2>1, <2>2
<1>17. HasNext(n + 1)'
  <2> SUFFICES ASSUME \A i \in DOMAIN pending' : pending'[i] # n + 2
               PROVE  Wanted \subseteq seen'
    BY <1>1 DEF HasNext, Wanted
  <2>1. n + 2 \notin New(n)
    <3> SUFFICES ASSUME n + 2 \in New(n) PROVE FALSE
      OBVIOUS
    <3>1. PICK i \in 1..m : links[i] = n + 2
      BY <1>7
    <3>2. l + i \in DOMAIN pending' /\ pending'[l + i] = n + 2
      BY <1>7, <1>9, <1>11, <1>12, <3>1
    <3> QED
      BY <3>2
  <2>2. Sources!LastPage \in Nat /\ Sources!LastPage <= n + 1
    BY <1>6, <2>1, LastPages DEF PagesInv
  <2>3. Len(listing) <= (n + 1) * PageSize
    BY <2>2, LastPages DEF PagesInv
  <2>4. \A i \in DOMAIN listing : ~(i > (n + 1) * PageSize)
    <3>1. (n + 1) * PageSize \in Int /\ Len(listing) \in Nat /\ DOMAIN listing = 1..Len(listing)
      BY SourcesAssumption DEF PagesInv
    <3> QED
      BY <2>3, <3>1
  <2>5. ASSUME NEW w \in Wanted \ seen PROVE w \in seen'
    <3>1. PICK i \in DOMAIN listing : listing[i] = w /\ i > n * PageSize
      BY DEF ReadUpTo, Ahead
    <3> QED
      BY <1>15, <2>4, <3>1
  <2> QED
    BY <1>3, <2>5
<1>18. visited' = 1..(n + 1)
  BY <1>3, <1>4
<1>19. ReadUpTo(n + 1)' /\ n + 1 \in Nat
  BY <1>14, <1>16, <1>17, <1>18 DEF ReadUpTo
<1>20. listing' \in Seq(Listable)
  BY <1>1 DEF PagesInv
<1> QED
  BY <1>1, <1>11, <1>19, <1>20 DEF PagesInv, Sources!WalkIsComplete

LEMMA PagesStep == PagesInv /\ [Sources!NextPages]_walk => PagesInv'
<1> SUFFICES ASSUME PagesInv, [Sources!NextPages]_walk PROVE PagesInv'
  OBVIOUS
<1>1. ASSUME NEW e \in ToPublish, Sources!PublishEdition(e) PROVE PagesInv'
  BY <1>1, PublishKeeps
<1>2. CASE Sources!Skip
  BY <1>2, SkipKeeps
<1>3. CASE Sources!ListingPage
  BY <1>3, ReadNext DEF PagesInv
<1>4. CASE Sources!ListingFails \/ Sources!ListPages
  <2>1. UNCHANGED <<listing, pending, visited, seen, present>>
    BY <1>4 DEF Sources!ListingFails, Sources!ListPages
  <2>2. outcome' = "listed" => pending = <<>>
    BY <1>4 DEF Sources!ListingFails, Sources!ListPages
  <2>3. PICK n \in Nat : ReadUpTo(n)
    BY DEF PagesInv
  <2>4. ReadUpTo(n)'
    BY <2>1, <2>3 DEF ReadUpTo, InOrder, Ahead, HasNext, Wanted
  <2>5. pending = <<>> => Wanted \subseteq seen
    BY <2>3 DEF ReadUpTo, HasNext
  <2> QED
    BY <2>1, <2>2, <2>4, <2>5 DEF PagesInv, Sources!WalkIsComplete, Wanted
<1>5. CASE outcome # "walking" /\ Sources!StartPages /\ UNCHANGED <<listing, failures>>
  <2>1. /\ pending' = <<1>> /\ visited' = {} /\ seen' = {} /\ listing' = listing
        /\ present' = Sources!ToSet(listing) /\ outcome' = "walking" /\ listing \in Seq(Listable)
    BY <1>5 DEF Sources!StartPages, PagesInv
  <2>2. 1..0 = {} /\ 0 * PageSize = 0
    BY SourcesAssumption
  <2>3. \A e \in present' : \E i \in DOMAIN listing : listing[i] = e /\ i > 0
    BY <2>1 DEF Sources!ToSet
  <2>4. Ahead(0)'
    BY <2>1, <2>2, <2>3 DEF Ahead, Wanted
  <2>5. InOrder(0)' /\ HasNext(0)'
    BY <2>1 DEF InOrder, HasNext
  <2>6. ReadUpTo(0)'
    BY <2>1, <2>2, <2>4, <2>5 DEF ReadUpTo
  <2> QED
    BY <2>1, <2>6 DEF PagesInv, Sources!WalkIsComplete
<1>6. CASE UNCHANGED walk
  BY <1>6 DEF walk, walkOfPages, PagesInv, ReadUpTo, InOrder, Ahead, HasNext, Wanted, Sources!WalkIsComplete
<1> QED
  BY <1>1, <1>2, <1>3, <1>4, <1>5, <1>6 DEF Sources!NextPages

LEMMA RunsPages ==
  ScraperSpec => \/ []~(mode = "pages")
                 \/ [](mode = "pages") /\ Sources!InitPages /\ [][Sources!NextPages]_walk
<1>1. ScraperInit /\ mode = "pages" => Sources!InitPages
  BY DEF ScraperInit
<1>2. mode = "pages" /\ [ScraperNext]_ScraperVars => [Sources!NextPages]_walk /\ (mode = "pages")'
  BY DEF ScraperNext, ScraperVars
<1>3. ~(mode = "pages") /\ [ScraperNext]_ScraperVars => (~(mode = "pages"))'
  BY SameMode
<1> QED
  BY <1>1, <1>2, <1>3, PTL DEF ScraperSpec

-----------------------------------------------------------------------------
\* However calls fail, runs die and sites publish: while runs do not overlap the bucket
\* has, at the path of each marker, the PDF that was announced, and a listing that
\* succeeds left out no edition the site had all along.
THEOREM NothingLost == ScraperSpec => []NothingIsLost
<1> DEFINE One == mode = "single"
           Pages == mode = "pages"
           Asked == mode = "days"
<1>1. /\ (One => MarkerNamesThePdf) /\ (Pages => Sources!WalkIsComplete) /\ (Asked => Sources!NoDayIsMissed)
      => NothingIsLost
  BY DEF NothingIsLost
<1>2. Single!Init /\ [][Single!Next]_(Single!vars) => []MarkerNamesThePdf
  <2>1. SingleInv => MarkerNamesThePdf
    BY DEF SingleInv
  <2> QED
    BY <2>1, SingleStarts, SingleStep, PTL
<1>3. Sources!InitPages /\ [][Sources!NextPages]_walk => []Sources!WalkIsComplete
  <2>1. PagesInv => Sources!WalkIsComplete
    BY DEF PagesInv
  <2> QED
    BY <2>1, PagesStart, PagesStep, PTL
<1>4. Sources!InitDays /\ [][Sources!NextDays]_walk => []Sources!NoDayIsMissed
  BY DaysStart, DaysStep, DaysListed, PTL
<1> QED
  BY <1>1, <1>2, <1>3, <1>4, RunsSingle, RunsPages, RunsDays, PTL
=============================================================================
