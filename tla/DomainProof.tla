---------------------------- MODULE DomainProof ----------------------------
(***************************************************************************)
(* What Domain promises, for all the constants, but for what PanelProof    *)
(* proves of suppliers: a run of the job of the bills accounts for what it *)
(* took on, the record of collections keeps what was acknowledged, what    *)
(* the queries answer agrees with what they were asked of, and what the    *)
(* patterns of purchases accuse is true of what was read.                  *)
(***************************************************************************)
EXTENDS PanelProof

-----------------------------------------------------------------------------
(***************************************************************************)
(* The queue of a run.                                                     *)
(***************************************************************************)

LEMMA BilCardinality == \A S : Bil!Cardinality(S) = Cardinality(S)
  BY ZenonT(30) DEF Bil!Cardinality, Cardinality

\* How many numbers of S come up to n.
Rank(S, n) == Bil!Cardinality({m \in S : m <= n})
Numbers(S) == IsFiniteSet(S) /\ S \subseteq Nat \ {0}

LEMMA RankCounts == \A S, n : Rank(S, n) = Cardinality({m \in S : m <= n})
  BY BilCardinality, Zenon DEF Rank

LEMMA RankIsNatural ==
  ASSUME NEW S, Numbers(S), NEW n
  PROVE  Rank(S, n) \in Nat /\ Rank(S, n) <= Cardinality(S) /\ Cardinality(S) \in Nat
<1>1. IsFiniteSet({m \in S : m <= n}) /\ {m \in S : m <= n} \in SUBSET S
  BY FS_Subset DEF Numbers
<1> QED
  BY <1>1, FS_Subset, FS_CardinalityType, RankCounts DEF Numbers

LEMMA RankStep ==
  ASSUME NEW S, Numbers(S), NEW n \in Nat \ {0}
  PROVE  Rank(S, n) = IF n \in S THEN Rank(S, n - 1) + 1 ELSE Rank(S, n - 1)
<1> DEFINE low == {m \in S : m <= n - 1}
<1>2. IsFiniteSet(low)
  BY FS_Subset DEF Numbers
<1>3. n \notin low
  OBVIOUS
<1>4. {m \in S : m <= n} = IF n \in S THEN low \union {n} ELSE low
  <2>1. ASSUME NEW m \in S PROVE m <= n <=> m <= n - 1 \/ m = n
    BY DEF Numbers
  <2> QED
    BY <2>1
<1>5. Cardinality(low \union {n}) = Cardinality(low) + 1
  BY <1>2, <1>3, FS_AddElement
<1> QED
  BY <1>4, <1>5, RankCounts

LEMMA RankBounds ==
  ASSUME NEW S, Numbers(S), NEW N \in Nat, S \subseteq 1..N
  PROVE  Rank(S, 0) = 0 /\ Rank(S, N) = Cardinality(S)
<1>1. \A m \in S : ~(m <= 0) /\ m <= N
  BY DEF Numbers
<1>2. {m \in S : m <= 0} = {} /\ {m \in S : m <= N} = S
  BY <1>1
<1> QED
  BY <1>2, FS_EmptySet, RankCounts

LEMMA RankGrows ==
  ASSUME NEW S, Numbers(S), NEW j \in S, NEW k \in S, j < k
  PROVE  Rank(S, j) < Rank(S, k)
<1>0. j \in Nat \ {0} /\ k \in Nat \ {0}
  BY DEF Numbers
<1>1. {m \in S : m <= j} \subseteq {m \in S : m <= k - 1}
  <2>1. \A m \in S : m <= j => m <= k - 1
    BY <1>0 DEF Numbers
  <2> QED
    BY <2>1
<1>2. IsFiniteSet({m \in S : m <= k - 1})
  BY FS_Subset DEF Numbers
<1>3. Rank(S, j) <= Rank(S, k - 1)
  BY <1>1, <1>2, FS_Subset, RankCounts
<1>4. Rank(S, k) = Rank(S, k - 1) + 1
  BY <1>0, RankStep
<1>5. Rank(S, j) \in Nat /\ Rank(S, k - 1) \in Nat
  BY RankIsNatural
<1> QED
  BY <1>3, <1>4, <1>5

\* Each place up to the last is some number's.
LEMMA PlacesAreTaken ==
  ASSUME NEW S, Numbers(S), NEW N \in Nat, S \subseteq 1..N, NEW i \in 1..Cardinality(S)
  PROVE  \E n \in S : Rank(S, n) = i
<1> DEFINE reached == {n \in 0..N : Rank(S, n) >= i}
<1>0. Rank(S, 0) = 0 /\ Rank(S, N) = Cardinality(S) /\ Cardinality(S) \in Nat
  BY RankBounds, RankIsNatural
<1>1. N \in reached /\ reached \subseteq Nat
  BY <1>0
<1>2. PICK n \in reached : \A m \in reached : n <= m
  BY <1>1, LeastNatural
<1>3. n \in Nat \ {0} /\ n <= N
  BY <1>0, <1>2
<1>4. n - 1 \in 0..N /\ n - 1 \notin reached
  BY <1>2, <1>3
<1>5. Rank(S, n - 1) \in Nat /\ Rank(S, n) \in Nat
  BY RankIsNatural
<1>6. Rank(S, n - 1) < i /\ Rank(S, n) >= i
  BY <1>2, <1>4, <1>5
<1>7. Rank(S, n) = IF n \in S THEN Rank(S, n - 1) + 1 ELSE Rank(S, n - 1)
  BY <1>3, RankStep
<1> QED
  BY <1>5, <1>6, <1>7

\* Ascending(S) lists S, each number once.
LEMMA AscendingLists ==
  ASSUME NEW N \in Nat, NEW S, S \subseteq 1..N
  PROVE  /\ Bil!Ascending(S) \in [1..Cardinality(S) -> S] /\ Cardinality(S) \in Nat
         /\ Bil!IsInjective(Bil!Ascending(S))
         /\ \A n \in S : \E i \in 1..Cardinality(S) : Bil!Ascending(S)[i] = n
<1>0. Numbers(S) /\ Cardinality(S) \in Nat
  <2>1. IsFiniteSet(1..N) /\ S \in SUBSET (1..N)
    BY FS_Interval
  <2>2. IsFiniteSet(S)
    BY <2>1, FS_Subset
  <2>3. S \subseteq Nat \ {0}
    OBVIOUS
  <2> QED
    BY <2>2, <2>3, FS_CardinalityType DEF Numbers
<1> DEFINE nth == Bil!Ascending(S)
<1>1. nth = [i \in 1..Cardinality(S) |-> CHOOSE n \in S : Rank(S, n) = i]
  <2>1. Bil!Cardinality(S) = Cardinality(S)
    BY BilCardinality
  <2>2. nth = [i \in 1..Bil!Cardinality(S) |-> CHOOSE n \in S : Rank(S, n) = i]
    BY Zenon DEF Bil!Ascending, Rank
  <2> QED
    BY <2>1, <2>2, Zenon
<1> HIDE DEF nth
<1>2. ASSUME NEW i \in 1..Cardinality(S)
      PROVE  nth[i] \in S /\ Rank(S, nth[i]) = i
  <2>1. \E n \in S : Rank(S, n) = i
    BY <1>0, PlacesAreTaken, Zenon
  <2>2. nth[i] = CHOOSE n \in S : Rank(S, n) = i
    BY <1>1
  <2> QED
    BY <2>1, <2>2
<1>3. ASSUME NEW n \in S PROVE Rank(S, n) \in 1..Cardinality(S)
  <2>1. Rank(S, n) \in Nat /\ Rank(S, n - 1) \in Nat /\ Rank(S, n) <= Cardinality(S)
    BY <1>0, RankIsNatural
  <2>2. Rank(S, n) = Rank(S, n - 1) + 1
    BY <1>0, RankStep DEF Numbers
  <2> QED
    BY <1>0, <2>1, <2>2
<1>4. ASSUME NEW n \in S PROVE nth[Rank(S, n)] = n
  <2>1. nth[Rank(S, n)] \in S /\ Rank(S, nth[Rank(S, n)]) = Rank(S, n)
    BY <1>2, <1>3
  <2>2. nth[Rank(S, n)] \in Nat /\ n \in Nat
    BY <1>0, <2>1, Zenon DEF Numbers
  <2>3. ~(nth[Rank(S, n)] < n) /\ ~(n < nth[Rank(S, n)])
    BY <1>0, <2>1, RankGrows, RankIsNatural
  <2> QED
    BY <2>2, <2>3
<1>5. nth \in [1..Cardinality(S) -> S]
  BY <1>1, <1>2
<1>6. Bil!IsInjective(nth)
  BY <1>1, <1>2 DEF Bil!IsInjective
<1> QED
  BY <1>0, <1>3, <1>4, <1>5, <1>6 DEF nth

\* Among(s, S) has the elements of s that are in S, each once if s has.
LEMMA AmongSelects ==
  ASSUME NEW T, NEW s \in Seq(T), Bil!IsInjective(s), NEW S
  PROVE  /\ Bil!Among(s, S) \in Seq(T) /\ Bil!IsInjective(Bil!Among(s, S))
         /\ Bil!Range(Bil!Among(s, S)) = Bil!Range(s) \cap S
<1> DEFINE places == {i \in DOMAIN s : s[i] \in S}
           at == Bil!Ascending(places)
           n == Cardinality(places)
<1>1. places \subseteq 1..Len(s) /\ Len(s) \in Nat
  OBVIOUS
<1>2. /\ at \in [1..n -> places] /\ n \in Nat
      /\ Bil!IsInjective(at)
      /\ \A p \in places : \E i \in 1..n : at[i] = p
  BY <1>1, AscendingLists
<1>3. Bil!Among(s, S) = [i \in DOMAIN at |-> s[at[i]]]
  BY DEF Bil!Among
<1> HIDE DEF at, n
<1>a. DOMAIN at = 1..n /\ \A i \in 1..n : at[i] \in DOMAIN s /\ s[at[i]] \in S
  BY <1>2
<1>4. Bil!Among(s, S) \in Seq(T)
  <2>1. \A i \in 1..n : s[at[i]] \in T
    BY <1>a
  <2>2. Bil!Among(s, S) \in [1..n -> T]
    BY <1>a, <1>3, <2>1
  <2> QED
    BY <1>2, <2>2
<1>5. Bil!IsInjective(Bil!Among(s, S))
  BY <1>a, <1>2, <1>3 DEF Bil!IsInjective
<1>6. ASSUME NEW k PROVE k \in Bil!Range(Bil!Among(s, S)) <=> k \in Bil!Range(s) /\ k \in S
  <2>1. k \in Bil!Range(Bil!Among(s, S)) <=> \E i \in 1..n : s[at[i]] = k
    BY <1>a, <1>3 DEF Bil!Range
  <2>2. k \in Bil!Range(s) /\ k \in S <=> \E p \in places : s[p] = k
    BY DEF Bil!Range
  <2> QED
    BY <1>a, <1>2, <2>1, <2>2
<1> QED
  BY <1>4, <1>5, <1>6
LEMMA JoinedDistinct ==
  ASSUME NEW T, NEW s \in Seq(T), NEW t \in Seq(T), Bil!IsInjective(s), Bil!IsInjective(t),
         Bil!Range(s) \cap Bil!Range(t) = {}
  PROVE  /\ s \o t \in Seq(T) /\ Bil!IsInjective(s \o t)
         /\ Bil!Range(s \o t) = Bil!Range(s) \union Bil!Range(t)
<1> DEFINE u == s \o t
<1>1. /\ u \in Seq(T) /\ Len(u) = Len(s) + Len(t) /\ DOMAIN u = 1..Len(u)
      /\ \A i \in 1..Len(s) : u[i] = s[i]
      /\ \A i \in 1..Len(t) : u[Len(s) + i] = t[i]
      /\ Len(s) \in Nat /\ Len(t) \in Nat /\ DOMAIN s = 1..Len(s) /\ DOMAIN t = 1..Len(t)
  OBVIOUS
<1> HIDE DEF u
<1>2. \A i \in 1..Len(u) : \/ i \in 1..Len(s) /\ u[i] = s[i]
                           \/ i - Len(s) \in 1..Len(t) /\ u[i] = t[i - Len(s)]
  <2>1. \A i \in 1..Len(u) : i \in 1..Len(s) \/ (i - Len(s) \in 1..Len(t) /\ Len(s) + (i - Len(s)) = i)
    BY <1>1
  <2> QED
    BY <1>1, <2>1
<1>3. \A i \in 1..Len(s), j \in 1..Len(t) : s[i] # t[j]
  BY <1>1 DEF Bil!Range
<1>4. Bil!IsInjective(u)
  <2> SUFFICES ASSUME NEW i \in 1..Len(u), NEW j \in 1..Len(u), u[i] = u[j] PROVE i = j
    BY <1>1 DEF Bil!IsInjective
  <2>1. CASE i \in 1..Len(s) /\ u[i] = s[i]
    <3>1. j \in 1..Len(s) /\ u[j] = s[j]
      BY <1>2, <1>3, <2>1
    <3> QED
      BY <1>1, <2>1, <3>1 DEF Bil!IsInjective
  <2>2. CASE i - Len(s) \in 1..Len(t) /\ u[i] = t[i - Len(s)]
    <3>1. j - Len(s) \in 1..Len(t) /\ u[j] = t[j - Len(s)]
      BY <1>2, <1>3, <2>2
    <3>2. i - Len(s) = j - Len(s)
      BY <1>1, <2>2, <3>1 DEF Bil!IsInjective
    <3> QED
      BY <1>1, <3>2
  <2> QED
    BY <1>2, <2>1, <2>2
<1>5. ASSUME NEW x PROVE x \in Bil!Range(u) <=> x \in Bil!Range(s) \/ x \in Bil!Range(t)
  <2>1. x \in Bil!Range(u) <=> \E i \in 1..Len(u) : u[i] = x
    BY <1>1 DEF Bil!Range
  <2>2. x \in Bil!Range(s) <=> \E i \in 1..Len(s) : s[i] = x
    BY <1>1 DEF Bil!Range
  <2>3. x \in Bil!Range(t) <=> \E i \in 1..Len(t) : t[i] = x
    BY <1>1 DEF Bil!Range
  <2>4. \A i \in 1..Len(s) : i \in 1..Len(u)
    BY <1>1
  <2>5. \A i \in 1..Len(t) : Len(s) + i \in 1..Len(u)
    BY <1>1
  <2> QED
    BY <1>1, <1>2, <2>1, <2>2, <2>3, <2>4, <2>5
<1> QED
  BY <1>1, <1>4, <1>5 DEF u

LEMMA FirstOfSelects ==
  ASSUME NEW T, NEW s \in Seq(T), Bil!IsInjective(s), NEW n \in Nat
  PROVE  Bil!FirstOf(s, n) \in Seq(T) /\ Bil!IsInjective(Bil!FirstOf(s, n))
<1> DEFINE m == IF n < Len(s) THEN n ELSE Len(s)
<1>1. m \in 0..Len(s) /\ Bil!FirstOf(s, n) = SubSeq(s, 1, m)
  BY DEF Bil!FirstOf
<1> HIDE DEF m
<1>2. /\ SubSeq(s, 1, m) \in Seq(T) /\ DOMAIN SubSeq(s, 1, m) = 1..m
      /\ \A i \in 1..m : SubSeq(s, 1, m)[i] = s[i]
  BY <1>1
<1> QED
  BY <1>1, <1>2 DEF Bil!IsInjective

LEMMA DistinctBound ==
  ASSUME NEW s \in Seq(Processes), Bil!IsInjective(s)
  PROVE  Len(s) <= Cardinality(Processes)
<1>1. s \in Injection(1..Len(s), Processes)
  BY DEF Injection, Bil!IsInjective, IsInjective
<1>2. Cardinality(1..Len(s)) <= Cardinality(Processes)
  BY <1>1, BillsAssumption, FS_Injection
<1>0. Len(s) \in Nat
  OBVIOUS
<1>3. Cardinality(1..Len(s)) = Len(s)
  <2>1. 1 \in Int /\ Len(s) \in Int /\ (1 > Len(s) => Len(s) = 0)
    BY <1>0
  <2>2. Cardinality(1..Len(s)) = IF 1 > Len(s) THEN 0 ELSE Len(s) - 1 + 1
    BY <2>1, FS_Interval
  <2> QED
    BY <1>0, <2>1, <2>2
<1> QED
  BY <1>0, <1>2, <1>3

-----------------------------------------------------------------------------
(***************************************************************************)
(* The job of the bills.  A run has each process once, in the queue or in  *)
(* the batch, and a page it read is never older than what the base has.    *)
(***************************************************************************)

Reading == [process : Processes, page : Bil!Pages]

BillTypes ==
  /\ site \in [Processes -> Bil!Pages]
  /\ bills \in [Processes -> {nodate} \union Bil!Pages]
  /\ archived \in [Processes -> {nodate} \union Bil!Pages]
  /\ readAt \in Seq(Processes)
  /\ queue \in Seq(Processes)
  /\ batch \in Seq(Reading)
  /\ step \in {"idle", "fetch", "save", "archive", "report"}
  /\ failing \in 0..MaxConsecutive
  /\ changes \in 0..MaxChanges

RunType == [found : Nat, stored : Nat, skipped : Nat, failed : Nat, error : BOOLEAN]
RunTypes == run \in RunType

\* What the run still has to read and what it read are different processes.
DistinctInv ==
  /\ Bil!IsInjective(queue)
  /\ \A i, j \in DOMAIN batch : batch[i].process = batch[j].process => i = j
  /\ \A i \in DOMAIN batch, j \in DOMAIN queue : batch[i].process # queue[j]

\* A run that fetches has what to fetch, room for it and patience; one that reports
\* has nothing left, or says so.
RoomInv ==
  /\ step = "fetch" => queue # <<>> /\ Len(batch) < BatchSize
  /\ Len(batch) <= BatchSize
  /\ queue # <<>> => failing < MaxConsecutive
  /\ step = "report" /\ ~run.error => queue = <<>> /\ batch = <<>>

ReadAtInv ==
  /\ Bil!IsInjective(readAt)
  /\ Bil!Range(readAt) = {k \in Processes : bills[k] # nodate}

\* The pages read are bills' pages, newer than what the base has and older than
\* the site's.
NewerInv ==
  /\ \A k \in Processes : site[k].version <= changes
  /\ Bil!BillsAreOfTheirProcess
  /\ \A i \in DOMAIN batch :
       LET k == batch[i].process
       IN  /\ batch[i].page.answer \in Bil!Readable /\ batch[i].page.version <= site[k].version
           /\ bills[k] # nodate => bills[k].version <= batch[i].page.version

\* What is about to be archived is in the base.
SavedInv == step = "archive" => \A i \in DOMAIN batch : bills[batch[i].process] = batch[i].page

\* What a run counted, holds and has left is what it found, or the run was cut short.
Accounts(r, held, left) ==
  /\ r.stored + r.skipped + r.failed + held + left <= r.found
  /\ ~r.error => r.stored + r.skipped + r.failed + held + left = r.found

AccountsInv ==
  /\ run.stored + run.skipped + run.failed + Len(batch) + Len(queue) <= run.found
  /\ step # "idle" => Accounts(run, Len(batch), Len(queue))

BillsInv ==
  BillTypes /\ RunTypes /\ DistinctInv /\ RoomInv /\ ReadAtInv /\ NewerInv /\ SavedInv /\ AccountsInv

LEMMA BillsStart == Bil!Init => BillsInv
<1> SUFFICES ASSUME Bil!Init PROVE BillsInv
  OBVIOUS
<1> USE BillsAssumption
<1>1. BillTypes
  BY DEF Bil!Init, BillTypes, Bil!Pages
<1>2. RunTypes /\ DistinctInv /\ RoomInv /\ SavedInv /\ AccountsInv
  BY DEF Bil!Init, Bil!NoRun, RunTypes, RunType, DistinctInv, RoomInv, SavedInv, AccountsInv, Bil!IsInjective
<1>3. ReadAtInv
  BY DEF Bil!Init, ReadAtInv, Bil!IsInjective, Bil!Range
<1>4. NewerInv
  BY DEF Bil!Init, NewerInv, Bil!BillsAreOfTheirProcess
<1> QED
  BY <1>1, <1>2, <1>3, <1>4 DEF BillsInv

LEMMA BatchTyped ==
  ASSUME BillTypes
  PROVE  \A i \in DOMAIN batch : batch[i].process \in Processes /\ batch[i].page \in Bil!Pages
<1> SUFFICES ASSUME NEW i \in DOMAIN batch PROVE batch[i].process \in Processes /\ batch[i].page \in Bil!Pages
  OBVIOUS
<1>1. batch[i] \in Reading
  BY DEF BillTypes
<1> QED
  BY <1>1 DEF Reading

LEMMA ChangeKeeps ==
  ASSUME BillsInv, NEW k \in Processes, Bil!Change(k)
  PROVE  BillsInv'
<1> PICK answer \in Bil!Answers : site' = [site EXCEPT ![k] = [answer |-> answer, version |-> changes']]
  BY DEF Bil!Change
<1>1. UNCHANGED <<bills, readAt, archived, step, queue, batch, failing, run, faults>>
      /\ changes' = changes + 1 /\ changes' \in 0..MaxChanges
  BY BillsAssumption DEF Bil!Change, BillsInv, BillTypes
<1>2. [answer |-> answer, version |-> changes'] \in Bil!Pages
  BY <1>1 DEF Bil!Pages
<1>3. BillTypes'
  BY <1>1, <1>2 DEF BillsInv, BillTypes
<1>4. site'[k].version = changes' /\ \A j \in Processes : j # k => site'[j] = site[j]
  BY DEF BillsInv, BillTypes
<1>5. NewerInv'
  <2>1. \A j \in Processes : site[j].version <= site'[j].version /\ site'[j].version <= changes'
    BY <1>1, <1>4, BillsAssumption DEF BillsInv, BillTypes, NewerInv, Bil!Pages
  <2>2. \A j \in Processes : bills[j] # nodate => bills[j] \in Bil!Pages
    BY DEF BillsInv, BillTypes
  <2>3. \A i \in DOMAIN batch : batch[i].process \in Processes /\ batch[i].page \in Bil!Pages
    BY BatchTyped DEF BillsInv
  <2>4. \A p \in Bil!Pages : p.version \in Int
    BY BillsAssumption DEF Bil!Pages
  <2>5. \A j \in Processes : site[j].version \in Int /\ site'[j].version \in Int
    BY <1>3, <2>4 DEF BillsInv, BillTypes
  <2>6. Bil!BillsAreOfTheirProcess'
    BY <1>1, <2>1, <2>2, <2>4, <2>5 DEF BillsInv, NewerInv, Bil!BillsAreOfTheirProcess
  <2> QED
    BY <1>1, <2>1, <2>3, <2>4, <2>5, <2>6 DEF BillsInv, NewerInv
<1> QED
  BY <1>1, <1>3, <1>5 DEF BillsInv, RunTypes, DistinctInv, RoomInv, ReadAtInv, SavedInv, AccountsInv
\* Unknown and open processes, or all of them: each once.
LEMMA QueuesAreDistinct ==
  ASSUME BillsInv
  PROVE  /\ Bil!DailyQueue \in Seq(Processes) /\ Bil!IsInjective(Bil!DailyQueue)
         /\ Bil!FullQueue \in Seq(Processes) /\ Bil!IsInjective(Bil!FullQueue)
         /\ LET first == Bil!FirstOf(Bil!FullQueue, MaxPages) IN first \in Seq(Processes) /\ Bil!IsInjective(first)
<1> DEFINE new == {k \in Processes : bills[k] = nodate}
           open == {k \in Bil!Range(readAt) : bills[k].answer = "open"}
<1>1. /\ Bil!FullQueue \in Seq(Processes) /\ Bil!IsInjective(Bil!FullQueue)
      /\ Bil!Range(Bil!FullQueue) = Processes
  <2>1. Bil!FullQueue \in [1..Cardinality(Processes) -> Processes] /\ Cardinality(Processes) \in Nat
    BY BillsAssumption, FS_CardinalityType DEF Bil!FullQueue
  <2>2. Bil!FullQueue \in Seq(Processes)
    BY <2>1
  <2> QED
    BY <2>1, <2>2, BillsAssumption DEF Bil!FullQueue, Bil!IsInjective, Bil!Range
<1>2. readAt \in Seq(Processes) /\ Bil!IsInjective(readAt)
      /\ Bil!Range(readAt) = {k \in Processes : bills[k] # nodate}
  BY DEF BillsInv, BillTypes, ReadAtInv
<1>3. /\ Bil!Unknown \in Seq(Processes) /\ Bil!IsInjective(Bil!Unknown)
      /\ Bil!Range(Bil!Unknown) = Processes \cap new
  BY <1>1, AmongSelects DEF Bil!Unknown
<1>4. /\ Bil!StaleOpen \in Seq(Processes) /\ Bil!IsInjective(Bil!StaleOpen)
      /\ Bil!Range(Bil!StaleOpen) = Bil!Range(readAt) \cap open
  BY <1>2, AmongSelects DEF Bil!StaleOpen
<1>5. Bil!Range(Bil!Unknown) \cap Bil!Range(Bil!StaleOpen) = {}
  BY <1>2, <1>3, <1>4
<1>6. Bil!Unknown \o Bil!StaleOpen \in Seq(Processes) /\ Bil!IsInjective(Bil!Unknown \o Bil!StaleOpen)
  BY <1>3, <1>4, <1>5, JoinedDistinct
<1>7. Bil!DailyQueue \in Seq(Processes) /\ Bil!IsInjective(Bil!DailyQueue)
  BY <1>6, FirstOfSelects, BillsAssumption DEF Bil!DailyQueue
<1>8. LET first == Bil!FirstOf(Bil!FullQueue, MaxPages) IN first \in Seq(Processes) /\ Bil!IsInjective(first)
  BY <1>1, FirstOfSelects, BillsAssumption
<1> QED
  BY <1>1, <1>7, <1>8

LEMMA StartKeeps ==
  ASSUME BillsInv, NEW pages \in Seq(Processes), Bil!IsInjective(pages), Bil!Start(pages),
         changes' \in 0..MaxChanges, changes <= changes'
  PROVE  BillsInv'
<1> USE BillsAssumption
<1>1. UNCHANGED <<site, bills, readAt, archived>>
      /\ queue' = pages /\ batch' = <<>> /\ failing' = 0 /\ run' = [Bil!NoRun EXCEPT !.found = Len(pages)]
      /\ step' = (IF pages = <<>> THEN "report" ELSE "fetch")
  BY DEF Bil!Start
<1>2. BillTypes'
  BY <1>1 DEF BillsInv, BillTypes
<1>3. RunTypes' /\ run'.found = Len(pages) /\ run'.stored = 0 /\ run'.skipped = 0 /\ run'.failed = 0
  <2>1. run' = [found |-> Len(pages), stored |-> 0, skipped |-> 0, failed |-> 0, error |-> FALSE]
    BY <1>1 DEF Bil!NoRun
  <2>2. Len(pages) \in Nat
    OBVIOUS
  <2> QED
    BY <2>1, <2>2 DEF RunTypes, RunType
<1>4. DistinctInv' /\ RoomInv' /\ SavedInv'
  BY <1>1 DEF DistinctInv, RoomInv, SavedInv
<1>5. AccountsInv'
  BY <1>1, <1>3 DEF AccountsInv, Accounts
<1>6. ReadAtInv'
  BY <1>1 DEF BillsInv, ReadAtInv
<1>7. NewerInv'
  <2>1. Bil!BillsAreOfTheirProcess'
    BY <1>1 DEF BillsInv, NewerInv, Bil!BillsAreOfTheirProcess
  <2>2. \A k \in Processes : site[k].version \in Int /\ site[k].version <= changes
    BY DEF BillsInv, BillTypes, NewerInv, Bil!Pages
  <2>3. \A k \in Processes : site'[k].version <= changes'
    BY <1>1, <2>2 DEF BillsInv, BillTypes
  <2> QED
    BY <1>1, <2>1, <2>3 DEF NewerInv
<1> QED
  BY <1>2, <1>3, <1>4, <1>5, <1>6, <1>7 DEF BillsInv

\* A run is over: it reported, or died.
LEMMA EndKeeps ==
  ASSUME BillsInv, UNCHANGED <<site, bills, readAt, archived, changes>>, step' \in {"idle", "report"},
         queue' = <<>>, batch' = <<>>, failing' = 0,
         \/ run' = Bil!NoRun /\ step' = "idle"
         \/ run' = [Bil!NoRun EXCEPT !.error = TRUE]
  PROVE  BillsInv'
<1> USE BillsAssumption
<1>2. BillTypes'
  BY DEF BillsInv, BillTypes
<1>3. RunTypes' /\ run'.found = 0 /\ run'.stored = 0 /\ run'.skipped = 0 /\ run'.failed = 0
      /\ (run'.error \/ step' = "idle")
  <2>1. PICK e \in BOOLEAN :
          /\ run' = [found |-> 0, stored |-> 0, skipped |-> 0, failed |-> 0, error |-> e]
          /\ e = TRUE \/ step' = "idle"
    BY DEF Bil!NoRun
  <2> QED
    BY <2>1 DEF RunTypes, RunType
<1>4. DistinctInv' /\ RoomInv' /\ SavedInv'
  BY DEF DistinctInv, RoomInv, SavedInv, Bil!IsInjective
<1>5. AccountsInv'
  BY <1>3 DEF AccountsInv, Accounts
<1>6. ReadAtInv'
  BY DEF BillsInv, ReadAtInv
<1>7. NewerInv'
  BY DEF BillsInv, NewerInv, Bil!BillsAreOfTheirProcess
<1> QED
  BY <1>2, <1>3, <1>4, <1>5, <1>6, <1>7 DEF BillsInv
LEMMA HeadAndTail ==
  ASSUME NEW T, NEW s \in Seq(T), s # <<>>
  PROVE  /\ Head(s) \in T /\ Head(s) = s[1] /\ Tail(s) \in Seq(T)
         /\ Len(s) \in Nat \ {0} /\ Len(Tail(s)) = Len(s) - 1 /\ DOMAIN s = 1..Len(s)
         /\ DOMAIN Tail(s) = 1..Len(s) - 1
         /\ \A i \in 1..Len(s) - 1 : Tail(s)[i] = s[i + 1] /\ i + 1 \in 1..Len(s)
  OBVIOUS

\* The queue loses its head.
LEMMA QueueAdvances ==
  ASSUME BillTypes, DistinctInv, queue # <<>>, queue' = Tail(queue)
  PROVE  /\ Head(queue) \in Processes /\ queue' \in Seq(Processes)
         /\ Len(queue) \in Nat /\ Len(queue') = Len(queue) - 1
         /\ Bil!IsInjective(queue)'
         /\ \A j \in DOMAIN queue' : queue'[j] # Head(queue)
         /\ \A i \in DOMAIN batch, j \in DOMAIN queue' : batch[i].process # queue'[j]
         /\ \A i \in DOMAIN batch : batch[i].process # Head(queue)
<1>1. queue \in Seq(Processes)
  BY DEF BillTypes
<1>2. /\ Head(queue) \in Processes /\ Head(queue) = queue[1] /\ queue' \in Seq(Processes)
      /\ Len(queue) \in Nat \ {0} /\ Len(queue') = Len(queue) - 1 /\ DOMAIN queue = 1..Len(queue)
      /\ DOMAIN queue' = 1..Len(queue) - 1
      /\ \A i \in 1..Len(queue) - 1 : queue'[i] = queue[i + 1] /\ i + 1 \in 1..Len(queue)
  BY <1>1, HeadAndTail
<1>3. 1 \in DOMAIN queue
  BY <1>2
<1>4. Bil!IsInjective(queue')
  BY <1>2 DEF DistinctInv, Bil!IsInjective
<1>5. \A j \in DOMAIN queue' : queue'[j] # Head(queue)
  BY <1>2, <1>3 DEF DistinctInv, Bil!IsInjective
<1>6. \A i \in DOMAIN batch, j \in DOMAIN queue' : batch[i].process # queue'[j]
  BY <1>2 DEF DistinctInv
<1>7. \A i \in DOMAIN batch : batch[i].process # Head(queue)
  BY <1>2, <1>3 DEF DistinctInv
<1> QED
  BY <1>2, <1>4, <1>5, <1>6, <1>7

\* What the run does with its queue leaves what is in the base and on the site.
LEMMA SamePages ==
  ASSUME BillsInv, UNCHANGED <<site, bills, readAt, archived, changes, batch>>
  PROVE  NewerInv' /\ ReadAtInv'
  BY DEF BillsInv, NewerInv, ReadAtInv, Bil!BillsAreOfTheirProcess

\* A run counts n more, and whether it goes on.
Counted(r, s, stored, skipped, failed) ==
  /\ s \in RunType /\ s.found = r.found
  /\ s.stored = r.stored + stored /\ s.skipped = r.skipped + skipped /\ s.failed = r.failed + failed

LEMMA RunCounts ==
  ASSUME NEW r \in RunType, NEW n \in Nat, NEW s
  PROVE  /\ s = [r EXCEPT !.failed = @ + n] => Counted(r, s, 0, 0, n) /\ s.error = r.error
         /\ s = [r EXCEPT !.skipped = @ + n] => Counted(r, s, 0, n, 0) /\ s.error = r.error
         /\ s = [r EXCEPT !.stored = @ + n] => Counted(r, s, n, 0, 0) /\ s.error = r.error
<1>1. r.stored \in Nat /\ r.skipped \in Nat /\ r.failed \in Nat
  BY DEF RunType
<1>2. r.stored + n \in Nat /\ r.skipped + n \in Nat /\ r.failed + n \in Nat
  BY <1>1
<1>3. \A m \in Nat : [r EXCEPT !.failed = m] \in RunType /\ [r EXCEPT !.skipped = m] \in RunType
                     /\ [r EXCEPT !.stored = m] \in RunType
  BY DEF RunType
<1>4. ASSUME s = [r EXCEPT !.failed = @ + n] PROVE Counted(r, s, 0, 0, n) /\ s.error = r.error
  <2>1. s \in RunType
    BY <1>2, <1>3, <1>4
  <2> QED
    BY <1>1, <1>4, <2>1 DEF Counted, RunType
<1>5. ASSUME s = [r EXCEPT !.skipped = @ + n] PROVE Counted(r, s, 0, n, 0) /\ s.error = r.error
  <2>1. s \in RunType
    BY <1>2, <1>3, <1>5
  <2> QED
    BY <1>1, <1>5, <2>1 DEF Counted, RunType
<1>6. ASSUME s = [r EXCEPT !.stored = @ + n] PROVE Counted(r, s, n, 0, 0) /\ s.error = r.error
  <2>1. s \in RunType
    BY <1>2, <1>3, <1>6
  <2> QED
    BY <1>1, <1>6, <2>1 DEF Counted, RunType
<1> QED
  BY <1>4, <1>5, <1>6

LEMMA RunStops ==
  ASSUME NEW r \in RunType, NEW s
  PROVE  /\ s = [r EXCEPT !.error = TRUE] => Counted(r, s, 0, 0, 0) /\ s.error = TRUE
         /\ s = [r EXCEPT !.failed = @ + 1, !.error = TRUE] => Counted(r, s, 0, 0, 1) /\ s.error = TRUE
<1>1. r.stored \in Nat /\ r.skipped \in Nat /\ r.failed \in Nat
  BY DEF RunType
<1>2. ASSUME NEW q \in RunType
      PROVE  /\ [q EXCEPT !.error = TRUE] \in RunType /\ [q EXCEPT !.error = TRUE].error = TRUE
             /\ [q EXCEPT !.error = TRUE].found = q.found /\ [q EXCEPT !.error = TRUE].stored = q.stored
             /\ [q EXCEPT !.error = TRUE].skipped = q.skipped /\ [q EXCEPT !.error = TRUE].failed = q.failed
  BY DEF RunType
<1>3. ASSUME s = [r EXCEPT !.error = TRUE] PROVE Counted(r, s, 0, 0, 0) /\ s.error = TRUE
  BY <1>1, <1>2, <1>3 DEF Counted
<1>4. ASSUME s = [r EXCEPT !.failed = @ + 1, !.error = TRUE] PROVE Counted(r, s, 0, 0, 1) /\ s.error = TRUE
  <2> DEFINE q == [r EXCEPT !.failed = @ + 1]
  <2>1. Counted(r, q, 0, 0, 1)
    BY RunCounts
  <2>2. s = [q EXCEPT !.error = TRUE]
    BY <1>4 DEF RunType
  <2> HIDE DEF q
  <2> QED
    BY <1>2, <2>1, <2>2 DEF Counted
<1> QED
  BY <1>3, <1>4

LEMMA CountsTyped ==
  ASSUME BillsInv
  PROVE  /\ run.found \in Nat /\ run.stored \in Nat /\ run.skipped \in Nat /\ run.failed \in Nat
         /\ run.error \in BOOLEAN /\ Len(batch) \in Nat /\ Len(queue) \in Nat
  BY DEF BillsInv, BillTypes, RunTypes, RunType

LEMMA StopAccounts ==
  ASSUME NEW r \in RunType, NEW s \in RunType, NEW held \in Nat, NEW left \in Nat, Accounts(r, held, left),
         NEW n \in Nat, Counted(r, s, 0, 0, n), NEW left2 \in Nat, left2 + n <= left, s.error = TRUE
  PROVE  Accounts(s, held, left2)
  BY DEF RunType, Counted, Accounts

LEMMA SkipAccounts ==
  ASSUME NEW r \in RunType, NEW s \in RunType, NEW held \in Nat, NEW left \in Nat, Accounts(r, held, left),
         Counted(r, s, 0, 1, 0) \/ Counted(r, s, 0, 0, 1), NEW left2 \in Nat, left2 + 1 = left, s.error = r.error
  PROVE  Accounts(s, held, left2)
<1>1. s.skipped + s.failed = r.skipped + r.failed + 1
  BY DEF RunType, Counted
<1> QED
  BY <1>1 DEF RunType, Counted, Accounts

LEMMA ReadAccounts ==
  ASSUME NEW r \in RunType, NEW held \in Nat, NEW left \in Nat, Accounts(r, held, left),
         NEW left2 \in Nat, left2 + 1 = left
  PROVE  Accounts(r, held + 1, left2)
  BY DEF RunType, Accounts

LEMMA StoreAccounts ==
  ASSUME NEW r \in RunType, NEW s \in RunType, NEW held \in Nat, NEW left \in Nat, Accounts(r, held, left),
         Counted(r, s, held, 0, 0), s.error = r.error
  PROVE  Accounts(s, 0, left)
  BY DEF RunType, Counted, Accounts

\* The queue is dropped, in a run that says so, or goes on as it is.
LEMMA StopKeeps ==
  ASSUME BillsInv, step # "idle", UNCHANGED <<site, bills, readAt, archived, changes, batch>>,
         NEW n \in Nat, n <= Len(queue),
         Counted(run, run', 0, 0, n), run'.error = TRUE,
         queue' = <<>> \/ (n = 0 /\ queue' = queue),
         step' \in {"save", "report"}, failing' \in 0..MaxConsecutive,
         queue' = queue => failing' = failing
  PROVE  BillsInv'
<1>1. queue' \in Seq(Processes)
  <2>1. <<>> \in Seq(Processes) /\ queue \in Seq(Processes)
    BY DEF BillsInv, BillTypes
  <2> QED
    BY <2>1
<1>2. BillTypes'
  BY <1>1 DEF BillsInv, BillTypes
<1>4. RunTypes'
  BY DEF Counted, RunTypes
<1>5. DistinctInv'
  BY DEF BillsInv, DistinctInv, Bil!IsInjective
<1>6. RoomInv' /\ SavedInv'
  BY DEF BillsInv, RoomInv, SavedInv
<1>7. AccountsInv'
  <2>1. Len(queue') + n <= Len(queue) /\ Len(queue') \in Nat
    BY CountsTyped
  <2>2. run \in RunType /\ run' \in RunType /\ Accounts(run, Len(batch), Len(queue))
    BY DEF BillsInv, AccountsInv, RunTypes, Counted
  <2>3. Accounts(run', Len(batch'), Len(queue'))
    BY <2>1, <2>2, CountsTyped, StopAccounts
  <2> QED
    BY <2>3 DEF AccountsInv, Accounts
<1> QED
  BY <1>2, <1>4, <1>5, <1>6, <1>7, SamePages DEF BillsInv
\* One process less to read, one more counted without a bill.
LEMMA SkipKeeps ==
  ASSUME BillsInv, step = "fetch", UNCHANGED <<site, bills, readAt, archived, changes, batch>>,
         queue' = Tail(queue),
         \/ run' = [run EXCEPT !.skipped = @ + 1]
         \/ run' = [run EXCEPT !.failed = @ + 1],
         failing' \in 0..MaxConsecutive, queue' # <<>> => failing' < MaxConsecutive,
         step' \in {"fetch", "save", "report"}, step' = "fetch" => queue' # <<>>,
         step' = "report" => queue' = <<>> /\ batch = <<>>
  PROVE  BillsInv'
<1>a. BillTypes /\ DistinctInv /\ RoomInv /\ queue # <<>>
  BY DEF BillsInv, RoomInv
<1>1. /\ queue' \in Seq(Processes) /\ Len(queue) \in Nat /\ Len(queue') = Len(queue) - 1
      /\ Bil!IsInjective(queue)'
      /\ \A i \in DOMAIN batch, j \in DOMAIN queue' : batch[i].process # queue'[j]
  BY <1>a, QueueAdvances
<1>2. BillTypes'
  BY <1>1 DEF BillsInv, BillTypes
<1>3. run \in RunType
  BY DEF BillsInv, RunTypes
<1>4. /\ Counted(run, run', 0, 1, 0) \/ Counted(run, run', 0, 0, 1)
      /\ run'.error = run.error /\ run' \in RunType
  BY <1>3, RunCounts DEF Counted
<1>5. DistinctInv'
  BY <1>1 DEF BillsInv, DistinctInv
<1>6. RoomInv' /\ SavedInv'
  BY <1>a DEF RoomInv, SavedInv
<1>7. AccountsInv'
  <2>1. Len(queue') + 1 = Len(queue) /\ Len(queue') \in Nat
    BY <1>1
  <2>2. Accounts(run, Len(batch), Len(queue))
    BY DEF BillsInv, AccountsInv
  <2>3. Accounts(run', Len(batch'), Len(queue'))
    BY <1>3, <1>4, <2>1, <2>2, CountsTyped, SkipAccounts
  <2> QED
    BY <2>3 DEF AccountsInv, Accounts
<1> QED
  BY <1>2, <1>4, <1>5, <1>6, <1>7, SamePages DEF BillsInv, RunTypes

LEMMA PageFailsKeeps ==
  ASSUME BillsInv, step = "fetch", Bil!PageFails
  PROVE  BillsInv'
<1>a. BillTypes /\ DistinctInv /\ RoomInv /\ queue # <<>> /\ run \in RunType
      /\ failing \in 0..MaxConsecutive /\ failing < MaxConsecutive /\ MaxConsecutive \in Nat
  BY BillsAssumption DEF BillsInv, BillTypes, RoomInv, RunTypes
<1>b. UNCHANGED <<site, bills, readAt, archived, changes, batch>> /\ failing' = failing + 1
      /\ failing' \in 0..MaxConsecutive
  BY <1>a DEF Bil!PageFails
<1>1. CASE failing + 1 >= MaxConsecutive
  <2>1. /\ run' = [run EXCEPT !.failed = @ + 1, !.error = TRUE]
        /\ queue' = <<>> /\ step' \in {"save", "report"}
    BY <1>1 DEF Bil!PageFails, Bil!Flush
  <2>2. 1 <= Len(queue) /\ 1 \in Nat /\ queue' # queue
    BY <1>a, <2>1, HeadAndTail DEF BillTypes
  <2>3. Counted(run, run', 0, 0, 1) /\ run'.error = TRUE
    BY <1>a, <2>1, RunStops, Zenon
  <2> QED
    BY <1>b, <2>1, <2>2, <2>3, StopKeeps
<1>2. CASE ~(failing + 1 >= MaxConsecutive)
  <2>1. /\ run' = [run EXCEPT !.failed = @ + 1] /\ queue' = Tail(queue)
        /\ step' \in {"fetch", "save", "report"}
        /\ step' = "fetch" => queue' # <<>>
        /\ step' = "report" => queue' = <<>> /\ batch = <<>>
    BY <1>2 DEF Bil!PageFails, Bil!Flush
  <2>2. failing' < MaxConsecutive
    BY <1>2, <1>a, <1>b
  <2> QED
    BY <1>b, <2>1, <2>2, SkipKeeps
<1> QED
  BY <1>1, <1>2

LEMMA InterruptKeeps ==
  ASSUME BillsInv, Bil!Interrupted
  PROVE  BillsInv'
<1>1. /\ UNCHANGED <<site, bills, readAt, archived, changes, batch, failing>> /\ step # "idle"
      /\ run' = [run EXCEPT !.error = TRUE] /\ queue' = <<>> /\ step' \in {"save", "report"}
  BY DEF Bil!Interrupted, Bil!Flush
<1>2. run \in RunType /\ 0 <= Len(queue)
      /\ failing' \in 0..MaxConsecutive
  BY <1>1, CountsTyped DEF BillsInv, BillTypes, RunTypes
<1>3. Counted(run, run', 0, 0, 0) /\ run'.error = TRUE
  BY <1>1, <1>2, RunStops, Zenon
<1> QED
  BY <1>1, <1>2, <1>3, StopKeeps

LEMMA FlushFailsKeeps ==
  ASSUME BillsInv, Bil!FlushFails
  PROVE  BillsInv'
<1>1. /\ UNCHANGED <<site, bills, readAt, archived, changes, batch, failing, queue>> /\ step # "idle"
      /\ run' = [run EXCEPT !.error = TRUE] /\ step' = "report"
  BY DEF Bil!FlushFails
<1>2. run \in RunType /\ 0 <= Len(queue)
      /\ failing' \in 0..MaxConsecutive
  BY <1>1, CountsTyped DEF BillsInv, BillTypes, RunTypes
<1>3. Counted(run, run', 0, 0, 0) /\ run'.error = TRUE
  BY <1>1, <1>2, RunStops, Zenon
<1> QED
  BY <1>1, <1>2, <1>3, StopKeeps

LEMMA AppendTyped ==
  ASSUME NEW T, NEW s \in Seq(T), NEW x \in T
  PROVE  /\ Append(s, x) \in Seq(T) /\ Len(Append(s, x)) = Len(s) + 1 /\ Len(s) \in Nat
         /\ DOMAIN s = 1..Len(s) /\ DOMAIN Append(s, x) = 1..Len(s) + 1
         /\ \A i \in 1..Len(s) : Append(s, x)[i] = s[i]
         /\ Append(s, x)[Len(s) + 1] = x
         /\ \A i \in 1..Len(s) + 1 : i \in 1..Len(s) \/ i = Len(s) + 1
  OBVIOUS

\* The page of the head of the queue joins the batch.
LEMMA ReadKeeps ==
  ASSUME BillsInv, Bil!Fetch, Bil!IsItsBill(Head(queue))
  PROVE  BillsInv'
<1> DEFINE k == Head(queue)
           read == [process |-> k, page |-> site[k]]
<1>a. BillTypes /\ DistinctInv /\ RoomInv /\ queue # <<>> /\ step = "fetch" /\ run \in RunType
  BY DEF BillsInv, RoomInv, RunTypes, Bil!Fetch
<1>b. /\ batch' = Append(batch, read) /\ run' = run /\ queue' = Tail(queue) /\ failing' = 0
      /\ UNCHANGED <<site, bills, readAt, archived, changes, faults>>
      /\ step' \in {"fetch", "save", "report"}
      /\ step' = "fetch" => Tail(queue) # <<>> /\ ~(Len(batch') >= BatchSize)
      /\ step' = "report" => batch' = <<>>
  <2>1. run' = run
    BY DEF Bil!Fetch, Bil!IsItsBill, Bil!Readable
  <2>2. batch' = Append(batch, read)
    BY DEF Bil!Fetch
  <2> QED
    BY <2>1, <2>2 DEF Bil!Fetch, Bil!AfterPage, Bil!Flush
<1>1. /\ k \in Processes /\ queue' \in Seq(Processes)
      /\ Len(queue) \in Nat /\ Len(queue') = Len(queue) - 1 /\ Bil!IsInjective(queue)'
      /\ \A j \in DOMAIN queue' : queue'[j] # k
      /\ \A i \in DOMAIN batch, j \in DOMAIN queue' : batch[i].process # queue'[j]
      /\ \A i \in DOMAIN batch : batch[i].process # k
  BY <1>a, <1>b, QueueAdvances
<1>2. read \in Reading /\ batch \in Seq(Reading) /\ read.process = k /\ read.page = site[k]
  BY <1>a, <1>1 DEF BillTypes, Reading
<1> HIDE DEF read, k
<1>3. /\ batch' \in Seq(Reading) /\ Len(batch') = Len(batch) + 1 /\ Len(batch) \in Nat
      /\ DOMAIN batch = 1..Len(batch) /\ DOMAIN batch' = 1..Len(batch) + 1
      /\ \A i \in 1..Len(batch) : batch'[i] = batch[i]
      /\ batch'[Len(batch) + 1] = read
      /\ \A i \in 1..Len(batch) + 1 : i \in 1..Len(batch) \/ i = Len(batch) + 1
  BY <1>b, <1>2, AppendTyped
<1>4. BillTypes'
  BY <1>a, <1>b, <1>1, <1>3, BillsAssumption DEF BillTypes
<1>5. DistinctInv'
  <2>1. \A i \in DOMAIN batch' : \/ i \in DOMAIN batch /\ batch'[i] = batch[i]
                                 \/ i = Len(batch) + 1 /\ batch'[i].process = k
    BY <1>2, <1>3
  <2>2. \A i, j \in DOMAIN batch' : batch'[i].process = batch'[j].process => i = j
    BY <1>1, <1>a, <2>1 DEF DistinctInv
  <2>3. \A i \in DOMAIN batch', j \in DOMAIN queue' : batch'[i].process # queue'[j]
    BY <1>1, <2>1
  <2> QED
    BY <1>1, <2>2, <2>3 DEF DistinctInv
<1>6. RoomInv'
  <2>1. batch' # <<>>
    BY <1>3
  <2> QED
    BY <1>a, <1>b, <1>3, <2>1, BillsAssumption DEF RoomInv
<1>7. SavedInv'
  BY <1>b DEF SavedInv
<1>8. ReadAtInv'
  BY <1>b DEF BillsInv, ReadAtInv
<1>9. NewerInv'
  <2>1. Bil!BillsAreOfTheirProcess /\ Bil!BillsAreOfTheirProcess'
    BY <1>b DEF BillsInv, NewerInv, Bil!BillsAreOfTheirProcess
  <2>2. /\ site[k].answer \in Bil!Readable /\ site[k].version <= site[k].version
        /\ bills[k] # nodate => bills[k].version <= site[k].version
    <3>1. site[k].version \in Nat
      BY <1>1, <1>a DEF BillTypes, Bil!Pages
    <3> QED
      BY <1>1, <2>1, <3>1 DEF Bil!BillsAreOfTheirProcess, Bil!IsItsBill, k
  <2> QED
    BY <1>b, <1>2, <1>3, <2>1, <2>2 DEF BillsInv, NewerInv
<1>10. AccountsInv'
  <2>1. Len(queue') + 1 = Len(queue) /\ Len(queue') \in Nat
    BY <1>1, <1>4 DEF BillTypes
  <2>2. Accounts(run, Len(batch), Len(queue))
    BY <1>a DEF BillsInv, AccountsInv
  <2>3. Accounts(run, Len(batch) + 1, Len(queue'))
    BY <1>a, <1>1, <1>3, <2>1, <2>2, ReadAccounts
  <2>4. Accounts(run', Len(batch'), Len(queue'))
    BY <1>b, <1>3, <2>3
  <2> QED
    BY <2>4 DEF AccountsInv, Accounts
<1> QED
  BY <1>a, <1>b, <1>4, <1>5, <1>6, <1>7, <1>8, <1>9, <1>10 DEF BillsInv, RunTypes

LEMMA FetchKeeps ==
  ASSUME BillsInv, Bil!Fetch
  PROVE  BillsInv'
<1>1. CASE ~Bil!IsItsBill(Head(queue))
  <2>1. /\ UNCHANGED <<site, bills, readAt, archived, changes, batch>>
        /\ queue' = Tail(queue) /\ failing' = 0
        /\ step = "fetch" /\ step' \in {"fetch", "save", "report"}
        /\ step' = "fetch" => queue' # <<>>
    BY <1>1 DEF Bil!Fetch, Bil!AfterPage, Bil!Flush
  <2>a. step' = "report" => queue' = <<>> /\ batch = <<>>
    <3>1. batch = <<>> => ~(Len(batch) >= BatchSize)
      BY BillsAssumption
    <3> QED
      BY <1>1, <3>1 DEF Bil!Fetch, Bil!AfterPage, Bil!Flush
  <2>2. run' = [run EXCEPT !.skipped = @ + 1] \/ run' = [run EXCEPT !.failed = @ + 1]
    BY <1>1 DEF Bil!Fetch
  <2>3. failing' \in 0..MaxConsecutive /\ failing' < MaxConsecutive
    BY <2>1, BillsAssumption
  <2> QED
    BY <2>1, <2>a, <2>2, <2>3, SkipKeeps
<1> QED
  BY <1>1, ReadKeeps

\* What the batch says of process k, or else what was there.
LEMMA LastOfIs ==
  ASSUME BillTypes, DistinctInv, NEW k, NEW page
  PROVE  \/ \E i \in DOMAIN batch : batch[i].process = k /\ Bil!LastOf(k, page) = batch[i].page
         \/ Bil!LastOf(k, page) = page /\ \A i \in DOMAIN batch : batch[i].process # k
<1>1. Bil!BatchOf(k) = {batch[i] : i \in {j \in DOMAIN batch : batch[j].process = k}}
  BY DEF Bil!BatchOf, Bil!Range
<1>2. CASE Bil!BatchOf(k) = {}
  BY <1>1, <1>2 DEF Bil!LastOf
<1>3. CASE Bil!BatchOf(k) # {}
  <2>1. PICK r : r \in Bil!BatchOf(k) /\ r = CHOOSE x \in Bil!BatchOf(k) : TRUE
    BY <1>3
  <2>2. PICK i \in DOMAIN batch : batch[i].process = k /\ r = batch[i]
    BY <1>1, <2>1
  <2>3. Bil!LastOf(k, page) = r.page
    BY <1>3, <2>1 DEF Bil!LastOf
  <2> QED
    BY <2>2, <2>3
<1> QED
  BY <1>2, <1>3

LEMMA BatchedIs ==
  ASSUME BillTypes, DistinctInv
  PROVE  /\ Bil!Batched \in Seq(Processes) /\ Bil!IsInjective(Bil!Batched)
         /\ \A k : k \in Bil!Range(Bil!Batched) <=> \E i \in DOMAIN batch : batch[i].process = k
<1>1. batch \in Seq(Reading) /\ DOMAIN batch = 1..Len(batch) /\ Len(batch) \in Nat
  BY DEF BillTypes
<1>2. Bil!Batched \in [1..Len(batch) -> Processes]
  BY <1>1, BatchTyped DEF Bil!Batched
<1>3. Bil!Batched \in Seq(Processes)
  BY <1>1, <1>2
<1>4. Bil!IsInjective(Bil!Batched)
  BY DEF DistinctInv, Bil!IsInjective, Bil!Batched
<1>5. \A k : k \in Bil!Range(Bil!Batched) <=> \E i \in DOMAIN batch : batch[i].process = k
  BY DEF Bil!Range, Bil!Batched
<1> QED
  BY <1>3, <1>4, <1>5

LEMMA SaveKeeps ==
  ASSUME BillsInv, Bil!Save
  PROVE  BillsInv'
<1>a. BillTypes /\ DistinctInv /\ NewerInv /\ Bil!BillsAreOfTheirProcess
  BY DEF BillsInv, NewerInv
<1>b. /\ bills' = [k \in Processes |-> Bil!LastOf(k, bills[k])] /\ readAt' = Bil!FetchedAt
      /\ step = "save" /\ step' = "archive"
      /\ UNCHANGED <<site, archived, queue, batch, failing, run, changes, faults>>
  BY DEF Bil!Save
<1>1. \A k \in Processes :
         \/ \E i \in DOMAIN batch : batch[i].process = k /\ bills'[k] = batch[i].page
         \/ bills'[k] = bills[k] /\ \A i \in DOMAIN batch : batch[i].process # k
  BY <1>a, <1>b, LastOfIs
<1>2. \A i \in DOMAIN batch : batch[i].process \in Processes /\ batch[i].page \in Bil!Pages
                              /\ bills'[batch[i].process] = batch[i].page
  BY <1>a, <1>1, BatchTyped DEF DistinctInv
<1>3. bills' \in [Processes -> {nodate} \union Bil!Pages]
  <2>1. \A k \in Processes : bills'[k] \in {nodate} \union Bil!Pages
    BY <1>a, <1>1, <1>2 DEF BillTypes
  <2> QED
    BY <1>b, <2>1
<1>4. /\ readAt' \in Seq(Processes) /\ Bil!IsInjective(readAt')
      /\ Bil!Range(readAt') = (Bil!Range(readAt) \cap (Processes \ Bil!Range(Bil!Batched)))
                              \union Bil!Range(Bil!Batched)
  <2> DEFINE kept == Bil!Among(readAt, Processes \ Bil!Range(Bil!Batched))
  <2>1. readAt \in Seq(Processes) /\ Bil!IsInjective(readAt)
    BY <1>a DEF BillsInv, ReadAtInv, BillTypes
  <2>2. /\ kept \in Seq(Processes) /\ Bil!IsInjective(kept)
        /\ Bil!Range(kept) = Bil!Range(readAt) \cap (Processes \ Bil!Range(Bil!Batched))
    BY <2>1, AmongSelects
  <2>3. Bil!Batched \in Seq(Processes) /\ Bil!IsInjective(Bil!Batched)
    BY <1>a, BatchedIs
  <2>4. readAt' = kept \o Bil!Batched
    BY <1>b DEF Bil!FetchedAt
  <2>5. Bil!Range(kept) \cap Bil!Range(Bil!Batched) = {}
    BY <2>2
  <2> HIDE DEF kept
  <2> QED
    BY <2>2, <2>3, <2>4, <2>5, JoinedDistinct
<1>5. ReadAtInv'
  <2>1. \A k : k \in Bil!Range(Bil!Batched) <=> \E i \in DOMAIN batch : batch[i].process = k
    BY <1>a, BatchedIs
  <2>2. \A i \in DOMAIN batch : batch[i].page # nodate
    BY <1>2, BillsAssumption
  <2>3. Bil!Range(readAt) = {k \in Processes : bills[k] # nodate}
    BY DEF BillsInv, ReadAtInv
  <2>4. ASSUME NEW k PROVE k \in Bil!Range(readAt') <=> k \in Processes /\ bills'[k] # nodate
    <3>1. k \in Bil!Range(readAt') <=> \/ k \in Processes /\ bills[k] # nodate
                                       \/ k \in Bil!Range(Bil!Batched)
      BY <1>4, <2>3
    <3>2. k \in Bil!Range(Bil!Batched) => k \in Processes /\ bills'[k] # nodate
      BY <1>2, <2>1, <2>2
    <3>3. k \in Processes /\ k \notin Bil!Range(Bil!Batched) => bills'[k] = bills[k]
      BY <1>1, <2>1
    <3> QED
      BY <3>1, <3>2, <3>3
  <2>5. Bil!Range(readAt') = {k \in Processes : bills'[k] # nodate}
    BY <2>4
  <2>6. Bil!Range(readAt)' = Bil!Range(readAt') /\ Bil!IsInjective(readAt)' = Bil!IsInjective(readAt')
    BY DEF Bil!Range, Bil!IsInjective
  <2> QED
    BY <1>4, <2>5, <2>6 DEF ReadAtInv
<1>6. BillTypes'
  BY <1>a, <1>b, <1>3, <1>4 DEF BillTypes
<1>7. \A i \in DOMAIN batch :
         LET k == batch[i].process
         IN  /\ batch[i].page.answer \in Bil!Readable /\ batch[i].page.version <= site[k].version
             /\ bills[k] # nodate => bills[k].version <= batch[i].page.version
  BY <1>a DEF NewerInv
<1>8. \A p \in Bil!Pages : p.version \in Int
  BY BillsAssumption DEF Bil!Pages
<1>9. \A k \in Processes : bills'[k] # nodate =>
         bills'[k].answer \in Bil!Readable /\ bills'[k].version <= site[k].version
  <2> SUFFICES ASSUME NEW k \in Processes, bills'[k] # nodate
               PROVE  bills'[k].answer \in Bil!Readable /\ bills'[k].version <= site[k].version
    OBVIOUS
  <2> QED
    BY <1>1, <1>7, <1>a DEF Bil!BillsAreOfTheirProcess
<1>10. \A k \in Processes : archived[k] # nodate =>
         bills'[k] # nodate /\ archived[k].version <= bills'[k].version
  <2> SUFFICES ASSUME NEW k \in Processes, archived[k] # nodate
               PROVE  bills'[k] # nodate /\ archived[k].version <= bills'[k].version
    OBVIOUS
  <2>1. /\ bills[k] # nodate /\ archived[k].version <= bills[k].version
        /\ archived[k].version \in Int /\ bills[k].version \in Int
    BY <1>a, <1>8 DEF Bil!BillsAreOfTheirProcess, BillTypes
  <2>2. CASE bills'[k] = bills[k]
    BY <2>1, <2>2
  <2>3. ASSUME NEW i \in DOMAIN batch, batch[i].process = k, bills'[k] = batch[i].page
        PROVE  bills'[k] # nodate /\ archived[k].version <= bills'[k].version
    <3>1. bills[k].version <= batch[i].page.version
      BY <1>7, <2>1, <2>3
    <3>2. batch[i].page \in Bil!Pages /\ batch[i].page.version \in Int
      BY <1>2, <1>8
    <3> QED
      BY <2>1, <2>3, <3>1, <3>2, BillsAssumption
  <2> QED
    BY <1>1, <2>2, <2>3
<1>11. NewerInv'
  <2>1. Bil!BillsAreOfTheirProcess'
    BY <1>9, <1>10, <1>b DEF Bil!BillsAreOfTheirProcess
  <2>2. \A k \in Processes : site'[k].version <= changes'
    BY <1>a, <1>b DEF NewerInv
  <2>3. \A i \in DOMAIN batch' : bills'[batch'[i].process].version <= batch'[i].page.version
    BY <1>2, <1>8, <1>b
  <2> QED
    BY <1>7, <1>b, <2>1, <2>2, <2>3 DEF NewerInv
<1>12. SavedInv'
  BY <1>2, <1>b DEF SavedInv
<1>13. DistinctInv' /\ RoomInv' /\ RunTypes'
  BY <1>b DEF BillsInv, DistinctInv, RoomInv, RunTypes, Bil!IsInjective
<1>14. AccountsInv'
  BY <1>b DEF BillsInv, AccountsInv
<1> QED
  BY <1>5, <1>6, <1>11, <1>12, <1>13, <1>14 DEF BillsInv

LEMMA ArchiveKeeps ==
  ASSUME BillsInv, Bil!Archive
  PROVE  BillsInv'
<1>a. BillTypes /\ DistinctInv /\ NewerInv /\ Bil!BillsAreOfTheirProcess /\ run \in RunType
  BY DEF BillsInv, NewerInv, RunTypes
<1>b. /\ archived' = [k \in Processes |-> Bil!LastOf(k, archived[k])]
      /\ step = "archive" /\ step' = (IF queue = <<>> THEN "report" ELSE "fetch")
      /\ batch' = <<>> /\ run' = [run EXCEPT !.stored = @ + Len(batch)]
      /\ UNCHANGED <<site, bills, readAt, queue, failing, changes, faults>>
  BY DEF Bil!Archive
<1>1. \A k \in Processes :
         \/ \E i \in DOMAIN batch : batch[i].process = k /\ archived'[k] = batch[i].page
         \/ archived'[k] = archived[k]
  BY <1>a, <1>b, LastOfIs
<1>2. \A i \in DOMAIN batch : batch[i].process \in Processes /\ batch[i].page \in Bil!Pages
                              /\ bills[batch[i].process] = batch[i].page
  BY <1>a, <1>b, BatchTyped DEF BillsInv, SavedInv
<1>3. BillTypes'
  <2>1. \A k \in Processes : archived'[k] \in {nodate} \union Bil!Pages
    BY <1>a, <1>1, <1>2 DEF BillTypes
  <2>2. archived' \in [Processes -> {nodate} \union Bil!Pages]
    BY <1>b, <2>1
  <2>3. <<>> \in Seq(Reading)
    OBVIOUS
  <2> QED
    BY <1>a, <1>b, <2>2, <2>3 DEF BillTypes
<1>4. Bil!BillsAreOfTheirProcess'
  <2>1. \A k \in Processes : archived'[k] # nodate => bills[k] # nodate /\ archived'[k].version <= bills[k].version
    <3>1. \A p \in Bil!Pages : p.version \in Int
      BY BillsAssumption DEF Bil!Pages
    <3> QED
      BY <1>a, <1>1, <1>2, <3>1, BillsAssumption DEF Bil!BillsAreOfTheirProcess
  <2> QED
    BY <1>a, <1>b, <2>1 DEF Bil!BillsAreOfTheirProcess
<1>5. NewerInv'
  BY <1>a, <1>b, <1>4 DEF NewerInv
<1>6. DistinctInv' /\ RoomInv' /\ SavedInv' /\ ReadAtInv'
  BY <1>b, BillsAssumption DEF BillsInv, DistinctInv, RoomInv, SavedInv, ReadAtInv
<1>7. Counted(run, run', Len(batch), 0, 0) /\ run'.error = run.error /\ run' \in RunType
  <2>1. Len(batch) \in Nat
    BY CountsTyped
  <2>2. Counted(run, run', Len(batch), 0, 0) /\ run'.error = run.error
    BY <1>a, <1>b, <2>1, RunCounts
  <2> QED
    BY <2>2 DEF Counted
<1>8. AccountsInv'
  <2>1. Accounts(run, Len(batch), Len(queue))
    BY <1>b DEF BillsInv, AccountsInv
  <2>2. Accounts(run', 0, Len(queue))
    BY <1>a, <1>7, <2>1, CountsTyped, StoreAccounts
  <2>3. Accounts(run', Len(batch'), Len(queue'))
    BY <1>b, <2>2
  <2> QED
    BY <2>3 DEF AccountsInv, Accounts
<1> QED
  BY <1>3, <1>5, <1>6, <1>7, <1>8 DEF BillsInv, RunTypes

LEMMA BillsStep == BillsInv /\ [Bil!Next]_(Bil!vars) => BillsInv'
<1> SUFFICES ASSUME BillsInv, [Bil!Next]_(Bil!vars) PROVE BillsInv'
  OBVIOUS
<1>0. changes \in 0..MaxChanges /\ changes <= changes /\ MaxChanges \in Nat
  BY BillsAssumption DEF BillsInv, BillTypes
<1>1. ASSUME NEW k \in Processes, Bil!Change(k) PROVE BillsInv'
  BY <1>1, ChangeKeeps
<1>2. CASE Bil!StartDaily
  <2>1. Bil!Start(Bil!DailyQueue) /\ changes' = changes
    BY <1>2 DEF Bil!StartDaily
  <2> QED
    BY <1>0, <2>1, QueuesAreDistinct, StartKeeps
<1>3. CASE Bil!StartFull
  <2>1. /\ Bil!Start(Bil!FullQueue) \/ Bil!Start(Bil!FirstOf(Bil!FullQueue, MaxPages))
        /\ changes < MaxChanges /\ changes' = changes + 1
    BY <1>3 DEF Bil!StartFull
  <2>2. changes' \in 0..MaxChanges /\ changes <= changes'
    BY <1>0, <2>1
  <2> QED
    BY <2>1, <2>2, QueuesAreDistinct, StartKeeps
<1>4. CASE Bil!StartFails
  BY <1>4, EndKeeps DEF Bil!StartFails
<1>5. CASE Bil!Fetch
  BY <1>5, FetchKeeps
<1>6. CASE Bil!FetchDown
  BY <1>6, PageFailsKeeps DEF Bil!FetchDown
<1>7. CASE Bil!FetchTimesOut
  BY <1>7, PageFailsKeeps DEF Bil!FetchTimesOut
<1>8. CASE Bil!Save
  BY <1>8, SaveKeeps
<1>9. CASE Bil!Archive
  BY <1>9, ArchiveKeeps
<1>10. CASE Bil!FlushFails
  BY <1>10, FlushFailsKeeps
<1>11. CASE Bil!Report
  BY <1>11, EndKeeps DEF Bil!Report
<1>12. CASE Bil!Interrupted
  BY <1>12, InterruptKeeps
<1>13. CASE Bil!Killed
  BY <1>13, EndKeeps DEF Bil!Killed
<1>14. CASE UNCHANGED Bil!vars
  BY <1>14 DEF Bil!vars, BillsInv, BillTypes, RunTypes, DistinctInv, RoomInv, ReadAtInv, NewerInv,
     SavedInv, AccountsInv, Bil!BillsAreOfTheirProcess
<1> QED
  BY <1>1, <1>2, <1>3, <1>4, <1>5, <1>6, <1>7, <1>8, <1>9, <1>10, <1>11, <1>12, <1>13, <1>14
     DEF Bil!Next, Bil!Work

LEMMA BillsHold == BillsInv => Bil!TypeOK /\ Bil!RunAddsUp /\ Bil!BillsAreOfTheirProcess
<1> SUFFICES ASSUME BillsInv PROVE Bil!TypeOK /\ Bil!RunAddsUp
  BY DEF BillsInv, NewerInv
<1>0. Bil!RunAddsUp
  <2>1. step = "report" /\ ~run.error => Len(batch) = 0 /\ Len(queue) = 0
    BY DEF BillsInv, RoomInv
  <2>2. run.stored + run.skipped + run.failed \in Nat
    BY CountsTyped
  <2> QED
    BY <2>1, <2>2 DEF BillsInv, AccountsInv, Accounts, Bil!RunAddsUp
<1>1. queue \in Seq(Processes) /\ Bil!IsInjective(queue)
  BY DEF BillsInv, BillTypes, DistinctInv
<1>2. Len(queue) <= Cardinality(Processes)
  BY <1>1, DistinctBound
<1>3. Bil!Cardinality(Processes) = Cardinality(Processes)
  BY BilCardinality
<1> QED
  BY <1>0, <1>2, <1>3 DEF BillsInv, BillTypes, RoomInv, ReadAtInv, Bil!TypeOK

BillsTopic == topic = "bills" => BillsInv

LEMMA BillsTopicHolds == DomainSpec => []BillsTopic
<1>1. DomainInit => BillsTopic
  BY BillsStart DEF DomainInit, BillsTopic
<1>2. BillsTopic /\ [DomainNext]_DomainVars => BillsTopic'
  <2> SUFFICES ASSUME BillsTopic, [DomainNext]_DomainVars, topic = "bills" PROVE BillsInv'
    BY SameTopic DEF BillsTopic
  <2>1. BillsInv
    BY DEF BillsTopic
  <2>2. [Bil!Next]_(Bil!vars)
    BY DEF DomainNext, DomainVars, reading, Bil!vars
  <2> QED
    BY <2>1, <2>2, BillsStep
<1> QED
  BY <1>1, <1>2, PTL DEF DomainSpec

\* A run of the job of the bills accounts for every process it took on, and the
\* base never goes back to an older page, nor the archive ahead of the base.
THEOREM BillsAreSafe ==
  DomainSpec => [](topic = "bills" => Bil!TypeOK /\ Bil!RunAddsUp /\ Bil!BillsAreOfTheirProcess)
<1>1. BillsTopic => (topic = "bills" => Bil!TypeOK /\ Bil!RunAddsUp /\ Bil!BillsAreOfTheirProcess)
  BY BillsHold DEF BillsTopic
<1> QED
  BY <1>1, BillsTopicHolds, PTL

-----------------------------------------------------------------------------
(***************************************************************************)
(* The record of collections.                                              *)
(***************************************************************************)

Delivery == [run : Reported, sent : Nat, state : {"queued", "acked", "dead"}]
RunsTopic == topic = "collections" => beside \subseteq Delivery /\ Run!AckedIsRecorded

LEMMA RunsStep ==
  ASSUME beside \subseteq Delivery, Run!AckedIsRecorded, Run!Next
  PROVE  given \subseteq given' /\ beside' \subseteq Delivery /\ Run!AckedIsRecorded'
<1>1. ASSUME NEW r \in Reported, Run!FetchCompleted(r)
      PROVE  given \subseteq given' /\ beside' \subseteq Delivery /\ Run!AckedIsRecorded'
  <2>1. [run |-> r, sent |-> 0, state |-> "queued"] \in Delivery
    BY DEF Delivery
  <2>2. given' = given /\ beside' = beside \union {[run |-> r, sent |-> 0, state |-> "queued"]}
    BY <1>1 DEF Run!FetchCompleted
  <2> QED
    BY <2>1, <2>2 DEF Run!AckedIsRecorded
<1>2. ASSUME NEW m \in beside, Run!Deliver(m)
      PROVE  given \subseteq given' /\ beside' \subseteq Delivery /\ Run!AckedIsRecorded'
  <2>1. PICK state \in {"queued", "acked", "dead"} :
          /\ beside' = (beside \ {m}) \union {[m EXCEPT !.sent = @ + 1, !.state = state]}
          /\ state = "acked" /\ Run!Valid(m.run) => given' = Run!Saved(m.run)
          /\ given' = given \/ given' = Run!Saved(m.run)
    BY <1>2 DEF Run!Deliver, Run!Settle, Run!Unsettled
  <2> DEFINE settled == [m EXCEPT !.sent = @ + 1, !.state = state]
  <2>2. m \in Delivery /\ m.sent + 1 \in Nat
    BY DEF Delivery
  <2>3. settled \in Delivery /\ settled.run = m.run /\ settled.state = state
    BY <2>2 DEF Delivery
  <2>4. given \subseteq Run!Saved(m.run) /\ \E x \in Run!Saved(m.run) : x.id = m.run.id
    BY DEF Run!Saved
  <2> HIDE DEF settled
  <2>5. given \subseteq given' /\ beside' \subseteq Delivery
    BY <2>1, <2>3, <2>4 DEF settled
  <2>6. ASSUME NEW n \in beside', n.state = "acked", Run!Valid(n.run)
        PROVE  \E x \in given' : x.id = n.run.id
    <3>1. CASE n \in beside
      BY <2>5, <2>6, <3>1 DEF Run!AckedIsRecorded
    <3>2. CASE n = settled
      BY <2>1, <2>3, <2>4, <2>6, <3>2
    <3> QED
      BY <2>1, <3>1, <3>2 DEF settled
  <2> QED
    BY <2>5, <2>6 DEF Run!AckedIsRecorded
<1>3. ASSUME NEW r \in Loaded, Run!LoaderSaves(r)
      PROVE  given \subseteq given' /\ beside' \subseteq Delivery /\ Run!AckedIsRecorded'
  BY <1>3 DEF Run!LoaderSaves, Run!Saved, Run!AckedIsRecorded
<1> QED
  BY <1>1, <1>2, <1>3 DEF Run!Next

LEMMA RunsHold == DomainSpec => []RunsTopic
<1>1. DomainInit => RunsTopic
  BY DEF DomainInit, RunsTopic, Run!AckedIsRecorded
<1>2. RunsTopic /\ [DomainNext]_DomainVars => RunsTopic'
  <2> SUFFICES ASSUME RunsTopic, [DomainNext]_DomainVars, topic = "collections"
               PROVE  beside' \subseteq Delivery /\ Run!AckedIsRecorded'
    BY SameTopic DEF RunsTopic
  <2>1. beside \subseteq Delivery /\ Run!AckedIsRecorded
    BY DEF RunsTopic
  <2>2. CASE Run!Next
    BY <2>1, <2>2, RunsStep
  <2>3. CASE UNCHANGED DomainVars
    BY <2>1, <2>3 DEF DomainVars, Run!AckedIsRecorded
  <2> QED
    BY <2>2, <2>3 DEF DomainNext
<1> QED
  BY <1>1, <1>2, PTL DEF DomainSpec

\* The job of the bills accounts for what it took on, and a collection whose report
\* was acknowledged is in the record, however often and in whatever order the
\* reports came.
THEOREM CollectionsAreSafe == DomainSpec => []CollectionsSafe
<1>1. BillsTopic /\ RunsTopic => CollectionsSafe
  BY BillsHold DEF BillsTopic, RunsTopic, CollectionsSafe
<1> QED
  BY <1>1, BillsTopicHolds, RunsHold, PTL

LEMMA ShownOnlyAdvances ==
  DomainSpec => [][topic = "collections" => Run!ShownNeverGoesBack]_DomainVars
<1>1. RunsTopic /\ [DomainNext]_DomainVars => [topic = "collections" => Run!ShownNeverGoesBack]_DomainVars
  <2> SUFFICES ASSUME RunsTopic, DomainNext, topic = "collections" PROVE Run!ShownNeverGoesBack
    OBVIOUS
  <2>1. beside \subseteq Delivery /\ Run!AckedIsRecorded /\ Run!Next
    BY DEF RunsTopic, DomainNext
  <2>2. given \subseteq given'
    BY <2>1, RunsStep
  <2> QED
    BY <2>2 DEF Run!ShownNeverGoesBack, Run!LatestRuns
<1> QED
  BY <1>1, RunsHold, PTL DEF DomainSpec

\* An act that cites a creditor takes its payments out of those without publication
\* and accuses no other, and no report that comes late or again takes the place of
\* a newer one.
THEOREM OvertakenStays == DomainSpec => OvertakenStaysSo
  BY ShownOnlyAdvances, CitingAcquits, PTL DEF OvertakenStaysSo

-----------------------------------------------------------------------------
(***************************************************************************)
(* The bills and their laws.                                               *)
(***************************************************************************)

SearchTopic == topic = "search" => given \subseteq Readings /\ beside \subseteq Norms

LEMMA SearchHolds == DomainSpec => []SearchTopic
<1>1. DomainInit => SearchTopic
  BY DEF DomainInit, SearchTopic
<1>2. SearchTopic /\ [DomainNext]_DomainVars => SearchTopic'
  <2> SUFFICES ASSUME SearchTopic, [DomainNext]_DomainVars, topic = "search"
               PROVE  given' \subseteq Readings /\ beside' \subseteq Norms
    BY SameTopic DEF SearchTopic
  <2>1. CASE Fnd!Next
    BY <2>1 DEF SearchTopic, Fnd!Next, Fnd!SaveBill, Fnd!AddNorm
  <2>2. CASE UNCHANGED DomainVars
    BY <2>2 DEF SearchTopic, DomainVars
  <2> QED
    BY <2>1, <2>2 DEF DomainNext
<1> QED
  BY <1>1, <1>2, PTL DEF DomainSpec

LEMMA FirstOfBills ==
  ASSUME NEW S, S \subseteq Readings, S # {}
  PROVE  Fnd!FirstBill(S) \in S
<1>1. {b.key : b \in S} \subseteq Nat /\ {b.key : b \in S} # {}
  BY SearchAssumption
<1>2. PICK k \in {b.key : b \in S} : \A l \in {b.key : b \in S} : k <= l
  BY <1>1, LeastNatural
<1>3. \E b \in S : \A c \in S : b.key <= c.key
  BY <1>2
<1> QED
  BY <1>3 DEF Fnd!FirstBill

LEMMA FirstOfNorms ==
  ASSUME NEW S, S \subseteq Norms, S # {}
  PROVE  Fnd!FirstNorm(S) \in S
<1>1. {n.suffix : n \in S} \subseteq Nat /\ {n.suffix : n \in S} # {}
  BY SearchAssumption
<1>2. PICK k \in {n.suffix : n \in S} : \A l \in {n.suffix : n \in S} : k <= l
  BY <1>1, LeastNatural
<1>3. \E n \in S : \A m \in S : n.suffix <= m.suffix
  BY <1>2
<1> QED
  BY <1>3 DEF Fnd!FirstNorm

\* The norm of a badge is one of that law.
LEMMA BadgeNames ==
  ASSUME beside \subseteq Norms, NEW b
  PROVE  /\ Fnd!BadgeNorm(b).law = b.badge
         /\ b.badge.kind \in Fnd!InSIAPEGOV /\ Fnd!NormsByNumber(b.badge) # {}
              => Fnd!BadgeNorm(b) \in Fnd!NormsByNumber(b.badge)
<1>1. CASE b.badge.kind \in Fnd!InSIAPEGOV /\ Fnd!NormsByNumber(b.badge) # {}
  <2>1. Fnd!NormsByNumber(b.badge) \subseteq Norms
    BY DEF Fnd!NormsByNumber
  <2>2. Fnd!BadgeNorm(b) \in Fnd!NormsByNumber(b.badge)
    BY <1>1, <2>1, FirstOfNorms DEF Fnd!BadgeNorm
  <2> QED
    BY <2>2 DEF Fnd!NormsByNumber
<1>2. CASE ~(b.badge.kind \in Fnd!InSIAPEGOV /\ Fnd!NormsByNumber(b.badge) # {})
  BY <1>2 DEF Fnd!BadgeNorm
<1> QED
  BY <1>1, <1>2

\* What ForNorm answers, by the page of a bill or by the norm's author.
LEMMA OriginIs ==
  ASSUME given \subseteq Readings, NEW n
  PROVE  /\ \A origin \in Fnd!ForNorm(n) :
              \/ /\ Fnd!IsLaw(n) /\ origin.certainty = "exata"
                 /\ origin.bill \in given /\ origin.bill.badge = n.law
              \/ /\ origin.certainty = "forte" /\ n.cites # Fnd!NoDoc
                 /\ origin.bill \in given /\ origin.bill.doc = n.cites
         /\ (Fnd!IsLaw(n) /\ \E b \in given : b.badge = n.law) =>
              \E origin \in Fnd!ForNorm(n) : origin.bill.badge = n.law
         /\ (n.cites # Fnd!NoDoc /\ \E b \in given : b.doc = n.cites) => Fnd!ForNorm(n) # {}
<1>1. Fnd!BillsByLaw(n.law) # {} => Fnd!FirstBill(Fnd!BillsByLaw(n.law)) \in Fnd!BillsByLaw(n.law)
  BY FirstOfBills DEF Fnd!BillsByLaw
<1>2. Fnd!BillsByDoc(n.cites) # {} => Fnd!FirstBill(Fnd!BillsByDoc(n.cites)) \in Fnd!BillsByDoc(n.cites)
  BY FirstOfBills DEF Fnd!BillsByDoc
<1>3. CASE Fnd!IsLaw(n) /\ Fnd!BillsByLaw(n.law) # {}
  <2>1. Fnd!ForNorm(n) = {[bill |-> Fnd!FirstBill(Fnd!BillsByLaw(n.law)), certainty |-> "exata"]}
    BY <1>3 DEF Fnd!ForNorm
  <2> QED
    BY <1>1, <1>3, <2>1 DEF Fnd!BillsByLaw
<1>4. CASE ~(Fnd!IsLaw(n) /\ Fnd!BillsByLaw(n.law) # {}) /\ n.cites # Fnd!NoDoc /\ Fnd!BillsByDoc(n.cites) # {}
  <2>1. Fnd!ForNorm(n) = {[bill |-> Fnd!FirstBill(Fnd!BillsByDoc(n.cites)), certainty |-> "forte"]}
    BY <1>4 DEF Fnd!ForNorm
  <2>2. ~(Fnd!IsLaw(n) /\ \E b \in given : b.badge = n.law)
    BY <1>4 DEF Fnd!BillsByLaw
  <2> QED
    BY <1>2, <1>4, <2>1, <2>2 DEF Fnd!BillsByDoc
<1>5. CASE ~(Fnd!IsLaw(n) /\ Fnd!BillsByLaw(n.law) # {}) /\ ~(n.cites # Fnd!NoDoc /\ Fnd!BillsByDoc(n.cites) # {})
  <2>1. Fnd!ForNorm(n) = {}
    BY <1>5 DEF Fnd!ForNorm
  <2> QED
    BY <1>5, <2>1 DEF Fnd!BillsByLaw, Fnd!BillsByDoc
<1> QED
  BY <1>3, <1>4, <1>5

LEMMA LawsHold ==
  ASSUME given \subseteq Readings, beside \subseteq Norms
  PROVE  Fnd!LawsKnowTheirBills
<1>1. ASSUME NEW b \in given, NEW l \in Fnd!Laws(b), l.norm \in beside
      PROVE  IF l.certainty = "exata"
             THEN Fnd!IsLaw(l.norm) => \E origin \in Fnd!ForNorm(l.norm) : origin.bill.badge = b.badge
             ELSE \E origin \in Fnd!ForNorm(l.norm) :
                    origin.bill.badge = l.norm.law \/ origin.bill.doc = b.doc
  <2>1. CASE b.badge.number > 0
    <3>1. l = [norm |-> Fnd!BadgeNorm(b), certainty |-> "exata"]
      BY <2>1 DEF Fnd!Laws
    <3>2. l.norm.law = b.badge /\ l.certainty = "exata"
      BY <3>1, BadgeNames
    <3> QED
      BY <3>2, OriginIs
  <2>2. CASE ~(b.badge.number > 0)
    <3>1. PICK n \in Fnd!CitedBy(b.doc) : l = [norm |-> n, certainty |-> "forte"]
      BY <2>2 DEF Fnd!Laws
    <3>2. l.certainty = "forte" /\ l.norm.cites = b.doc /\ l.norm.cites # Fnd!NoDoc
      BY <3>1 DEF Fnd!CitedBy
    <3>3. PICK origin \in Fnd!ForNorm(l.norm) : TRUE
      BY <3>2, OriginIs
    <3>4. origin.bill.badge = l.norm.law \/ origin.bill.doc = b.doc
      BY <3>2, <3>3, OriginIs
    <3> QED
      BY <3>2, <3>3, <3>4
  <2> QED
    BY <2>1, <2>2
<1>2. ASSUME NEW n \in beside, NEW origin \in Fnd!ForNorm(n)
      PROVE  LET b == origin.bill
             IN  IF origin.certainty = "exata"
                 THEN \E l \in Fnd!Laws(b) : l.certainty = "exata" /\ l.norm \in Fnd!NormsByNumber(n.law)
                 ELSE b.badge # Fnd!NoLaw \/ [norm |-> n, certainty |-> "forte"] \in Fnd!Laws(b)
  <2> DEFINE b == origin.bill
  <2>1. CASE Fnd!IsLaw(n) /\ origin.certainty = "exata" /\ b.badge = n.law
    <3>1. b.badge.number > 0 /\ b.badge.kind \in Fnd!InSIAPEGOV
      <4>1. n.law.number \in Nat \ {0}
        BY SearchAssumption
      <4> QED
        BY <2>1, <4>1 DEF Fnd!IsLaw, Fnd!InSIAPEGOV
    <3>2. n \in Fnd!NormsByNumber(b.badge)
      BY <2>1 DEF Fnd!NormsByNumber
    <3>3. Fnd!BadgeNorm(b) \in Fnd!NormsByNumber(b.badge)
      BY <3>1, <3>2, BadgeNames
    <3>4. Fnd!Laws(b) = {[norm |-> Fnd!BadgeNorm(b), certainty |-> "exata"]}
      BY <3>1 DEF Fnd!Laws
    <3> QED
      BY <2>1, <3>3, <3>4
  <2>2. CASE origin.certainty = "forte" /\ n.cites # Fnd!NoDoc /\ b.doc = n.cites
    <3>1. n \in Fnd!CitedBy(b.doc)
      BY <2>2 DEF Fnd!CitedBy
    <3>2. b.badge = Fnd!NoLaw => ~(b.badge.number > 0)
      <4>1. Fnd!NoLaw.number = 0
        BY DEF Fnd!NoLaw
      <4> QED
        BY <4>1
    <3>3. ~(b.badge.number > 0) => [norm |-> n, certainty |-> "forte"] \in Fnd!Laws(b)
      BY <3>1 DEF Fnd!Laws
    <3> QED
      BY <2>2, <3>2, <3>3
  <2> QED
    BY <2>1, <2>2, OriginIs
<1> QED
  BY <1>1, <1>2 DEF Fnd!LawsKnowTheirBills

\* Archived or not, the strongest phase of a bill that has an outcome is that.
LEMMA OutcomesHold ==
  ASSUME given \subseteq Readings
  PROVE  Fnd!OutcomeOutlivesTheTerm
<1> SUFFICES ASSUME NEW b \in given,
                    Fnd!BillPhaseOf(b) \in {"virou_norma", "vetado", "rejeitado", "retirado"}
             PROVE  Fnd!BillPhaseOf([b EXCEPT !.archived = TRUE]) = Fnd!BillPhaseOf(b)
  BY DEF Fnd!OutcomeOutlivesTheTerm
<1> DEFINE closed == [b EXCEPT !.archived = TRUE]
           phases == Fnd!BillPhasesInOrder
           told(c) == {i \in 1..9 : phases[i] \in Fnd!Said(c)} \union {10}
<1>1. closed.badge = b.badge /\ closed.events = b.events /\ closed.archived = TRUE
  BY SearchAssumption
<1> HIDE DEF closed
<1>2. CASE b.badge.number > 0
  BY <1>1, <1>2 DEF Fnd!BillPhaseOf, closed
<1>3. CASE ~(b.badge.number > 0)
  <2>1. Fnd!BillPhaseOf(b) = phases[Fnd!Min(told(b))] /\ Fnd!BillPhaseOf(closed) = phases[Fnd!Min(told(closed))]
    <3>1. \A c : ~(c.badge.number > 0) => Fnd!BillPhaseOf(c) = phases[Fnd!Min(told(c))]
      BY Zenon DEF Fnd!BillPhaseOf
    <3> QED
      BY <1>1, <1>3, <3>1
  <2>2. Fnd!Said(closed) = Fnd!Said(b) \union {"arquivado"}
    <3> DEFINE said == UNION {e.says : e \in b.events}
    <3>1. /\ Fnd!Said(b) = said \union (IF b.archived THEN {"arquivado"} ELSE {})
          /\ Fnd!Said(closed) = said \union (IF closed.archived THEN {"arquivado"} ELSE {})
      BY <1>1 DEF Fnd!Said
    <3> HIDE DEF said
    <3> QED
      BY <1>1, <3>1
  <2>3. \A i \in 1..10 : phases[i] = "arquivado" => i = 5
    BY DEF Fnd!BillPhasesInOrder
  <2>4. \A i \in 1..10 : phases[i] \in {"virou_norma", "vetado", "rejeitado", "retirado"} => i <= 4
    BY DEF Fnd!BillPhasesInOrder
  <2>5. told(closed) = told(b) \/ told(closed) = told(b) \union {5}
    BY <2>2, <2>3
  <2> HIDE DEF phases
  <2>6. told(b) \subseteq 1..10 /\ told(b) # {}
    OBVIOUS
  <2> HIDE DEF told
  <2>7. PICK n \in told(b) : \A m \in told(b) : n <= m
    BY <2>6, LeastNatural
  <2>8. Fnd!Min(told(b)) \in told(b) /\ \A m \in told(b) : Fnd!Min(told(b)) <= m
    BY <2>7 DEF Fnd!Min
  <2>9. Fnd!Min(told(b)) <= 4
    BY <2>1, <2>4, <2>6, <2>8
  <2>10. Fnd!Min(told(closed)) = Fnd!Min(told(b))
    <3> DEFINE least == Fnd!Min(told(b))
    <3>1. least \in told(closed) /\ \A m \in told(closed) : least <= m
      BY <2>5, <2>8, <2>9, <2>6
    <3>2. told(closed) \subseteq Nat
      BY <2>5, <2>6
    <3>3. \A x \in told(closed) : (\A m \in told(closed) : x <= m) => x = least
      BY <3>1, <3>2
    <3> HIDE DEF least
    <3>4. (CHOOSE x \in told(closed) : \A m \in told(closed) : x <= m) = least
      BY <3>1, <3>3
    <3> QED
      BY <3>4 DEF Fnd!Min, least
  <2> QED
    BY <2>1, <2>10 DEF closed
<1> QED
  BY <1>2, <1>3

LEMMA LawsAndBills ==
  ASSUME SearchTopic
  PROVE  topic = "search" => Fnd!LawsKnowTheirBills /\ Fnd!OutcomeOutlivesTheTerm
  BY LawsHold, OutcomesHold DEF SearchTopic

-----------------------------------------------------------------------------
(***************************************************************************)
(* Split dispensas.                                                        *)
(***************************************************************************)
LEMMA SplLatest ==
  /\ \A T : Spl!Latest(T) = Last(T)
  /\ \A T : Spl!Earliest(T) = First(T)
  BY DEF Spl!Latest, Spl!Earliest, Spl!Before, Last, First, Precedes

\* The acts read by their processes.
ProcessRead(h, T) ==
  CHOOSE v \in {Spl!JoinByProcess(q, b) : q \in {h[T \ {Spl!Latest(T)}]}, b \in {Spl!Latest(T)}} : TRUE
ProcessFold(h, S) == h = [T \in SUBSET S |-> IF T = {} THEN Spl!Apart(S) ELSE ProcessRead(h, T)]

LEMMA ProcessReadIs == \A h, T : ProcessRead(h, T) = Spl!JoinByProcess(h[T \ {Last(T)}], Last(T))
<1> SUFFICES ASSUME NEW h, NEW T PROVE ProcessRead(h, T) = Spl!JoinByProcess(h[T \ {Last(T)}], Last(T))
  OBVIOUS
<1>1. {Spl!JoinByProcess(q, b) : q \in {h[T \ {Spl!Latest(T)}]}, b \in {Spl!Latest(T)}}
        = {Spl!JoinByProcess(h[T \ {Last(T)}], Last(T))}
  BY SplLatest
<1> QED
  BY <1>1 DEF ProcessRead

LEMMA ProcessFolds ==
  ASSUME NEW S
  PROVE  Spl!GroupedByProcess(S) = (CHOOSE h : ProcessFold(h, S))[S].groups
<1>1. Spl!ReadInOrder(Spl!JoinByProcess, Spl!Apart(S), S) = (CHOOSE h : ProcessFold(h, S))[S]
  BY DEF Spl!ReadInOrder, Spl!MapThenFoldSet, ProcessFold, ProcessRead
<1>2. Spl!GroupedByProcess(S) = Spl!ReadInOrder(Spl!JoinByProcess, Spl!Apart(S), S).groups
  BY Zenon DEF Spl!GroupedByProcess
<1> QED
  BY <1>1, <1>2

ProcessesOf(S) == [a \in S |-> a.processes]

LEMMA ProcessGroups ==
  ASSUME NEW S, IsFiniteSet(S), Identified(S)
  PROVE  Grouping(Spl!GroupedByProcess(S), S, ProcessesOf(S))
<1> DEFINE K == ProcessesOf(S)
<1>1. ASSUME NEW T \in SUBSET S, T # {}, NEW h
      PROVE  ProcessRead(h, T) = KeyStep(K, h[T \ {Last(T)}], Last(T))
  <2>1. Last(T) \in S
    BY <1>1, LastIs
  <2>2. K[Last(T)] = Last(T).processes
    BY <2>1 DEF ProcessesOf
  <2>3. ProcessRead(h, T) = Spl!JoinByProcess(h[T \ {Last(T)}], Last(T))
    BY ProcessReadIs
  <2> QED
    BY <2>2, <2>3 DEF Spl!JoinByProcess, Spl!JoinFirst, Spl!Joined, KeyStep, Merge
<1>2. Spl!Apart(S) = Singles(S)
  BY DEF Spl!Apart, Spl!Alone, Singles
<1> HIDE DEF K
<1>3. ASSUME NEW h PROVE ProcessFold(h, S) <=> KeyReads(h, S, K)
  BY <1>1, <1>2 DEF ProcessFold, KeyReads
<1>4. KeyReads(CHOOSE h : ProcessFold(h, S), S, K)
  <2>1. \E h : ProcessFold(h, S)
    BY <1>3, KeyReadingExists
  <2> QED
    BY <1>3, <2>1
<1>5. Grouping((CHOOSE h : ProcessFold(h, S))[S].groups, S, K)
  BY <1>4, KeyGroups
<1> QED
  BY <1>5, ProcessFolds DEF K

\* Then by their values.
ValueRead(S, h, T) ==
  CHOOSE v \in {Spl!LinkByValue(S, q, b) : q \in {h[T \ {Spl!Latest(T)}]}, b \in {Spl!Latest(T)}} : TRUE
ValueFold(h, S) == h = [T \in SUBSET S |-> IF T = {} THEN Spl!GroupedByProcess(S) ELSE ValueRead(S, h, T)]

LEMMA ValueReadIs == \A S, h, T : ValueRead(S, h, T) = Spl!LinkByValue(S, h[T \ {Last(T)}], Last(T))
<1> SUFFICES ASSUME NEW S, NEW h, NEW T
             PROVE  ValueRead(S, h, T) = Spl!LinkByValue(S, h[T \ {Last(T)}], Last(T))
  OBVIOUS
<1>1. {Spl!LinkByValue(S, q, b) : q \in {h[T \ {Spl!Latest(T)}]}, b \in {Spl!Latest(T)}}
        = {Spl!LinkByValue(S, h[T \ {Last(T)}], Last(T))}
  BY SplLatest
<1> QED
  BY <1>1 DEF ValueRead

LEMMA ValueFolds == \A S : Spl!Grouped(S) = (CHOOSE h : ValueFold(h, S))[S]
  BY DEF Spl!Grouped, Spl!ReadInOrder, Spl!MapThenFoldSet, ValueFold, ValueRead

ValueAndYear(S) == [a \in S |-> <<a.value, Spl!Year(a.day)>>]

LEMMA JoinSameValueIs ==
  ASSUME NEW S, NEW G, NEW a \in S
  PROVE  Spl!JoinSameValue(S, G, a) = JoinClass(S, ValueAndYear(S), G, a)
<1>1. Spl!SameValueSameYear(S, G, a) = Others(S, ValueAndYear(S), G, a)
  BY DEF Spl!SameValueSameYear, Spl!GroupOf, Others, GroupIn, ValueAndYear
<1>2. \A R : Spl!Joined(G, R) = Merge(G, R)
  BY DEF Spl!Joined, Merge
<1> QED
  BY <1>1, <1>2, SplLatest DEF Spl!JoinSameValue, JoinClass

\* Acts with no process, or with one no other act has because they are
\* republications.
Unnumbered(S) ==
  {a \in S : \/ a.processes = {}
             \/ "republication" \in a.marks /\ \A b \in S \ {a} : a.processes \cap b.processes = {}}

LEMMA SplCardinality == \A S : Spl!Cardinality(S) = Cardinality(S)
  BY ZenonT(30) DEF Spl!Cardinality, Cardinality

LEMMA ValueStep ==
  ASSUME NEW S, IsFiniteSet(S), Identified(S), NEW G, Partition(G, S), NEW a \in S
  PROVE  /\ Partition(Spl!LinkByValue(S, G, a), S)
         /\ \/ Spl!LinkByValue(S, G, a) = JoinClass(S, ValueAndYear(S), G, a)
            \/ Spl!LinkByValue(S, G, a) = G /\ ~(a \in Unnumbered(S) /\ {a} \in G)
<1>1. CASE a.processes # {} /\ ("republication" \notin a.marks \/ Spl!Cardinality(Spl!GroupOf(G, a)) > 1)
  <2>1. Spl!LinkByValue(S, G, a) = G
    BY <1>1 DEF Spl!LinkByValue
  <2>2. ASSUME a \in Unnumbered(S), {a} \in G PROVE FALSE
    <3>1. "republication" \in a.marks
      BY <1>1, <2>2 DEF Unnumbered
    <3>2. Spl!GroupOf(G, a) = {a}
      BY <2>2 DEF Spl!GroupOf, Partition
    <3>3. Cardinality({a}) = 1
      BY FS_Singleton
    <3> QED
      BY <1>1, <3>1, <3>2, <3>3, SplCardinality
  <2> QED
    BY <2>1, <2>2
<1>2. CASE ~(a.processes # {} /\ ("republication" \notin a.marks \/ Spl!Cardinality(Spl!GroupOf(G, a)) > 1))
  <2>1. Spl!LinkByValue(S, G, a) = JoinClass(S, ValueAndYear(S), G, a)
    BY <1>2, JoinSameValueIs DEF Spl!LinkByValue
  <2> QED
    BY <2>1, JoinClassParts
<1> QED
  BY <1>1, <1>2

LEMMA ValueFoldIs ==
  ASSUME NEW S, IsFiniteSet(S), Identified(S)
  PROVE  /\ ValueFold(CHOOSE h : ValueFold(h, S), S)
         /\ Grouping(Spl!GroupedByProcess(S), S, ProcessesOf(S))
<1> DEFINE V == {G \in SUBSET SUBSET S : Partition(G, S)}
           base == Spl!GroupedByProcess(S)
           rule == [p \in V \X S |-> Spl!LinkByValue(S, p[1], p[2])]
<1>1. Grouping(base, S, ProcessesOf(S))
  BY ProcessGroups
<1>2. \A G : G \in V <=> Partition(G, S)
  BY DEF Partition
<1>3. base \in V
  BY <1>1, <1>2 DEF Grouping
<1>4. ASSUME NEW G \in V, NEW a \in S PROVE Spl!LinkByValue(S, G, a) \in V
  BY <1>2, ValueStep
<1> HIDE DEF V, base
<1>5. rule \in [V \X S -> V]
  BY <1>4
<1>6. PICK h \in [SUBSET S -> V] : OrderedReads(h, S, base, rule)
  <2> HIDE DEF rule
  <2> QED
    BY <1>3, <1>5, OrderedReadingExists
<1>7. ASSUME NEW T \in SUBSET S, T # {}
      PROVE  rule[<<h[T \ {Last(T)}], Last(T)>>] = ValueRead(S, h, T)
  <2>1. Last(T) \in S /\ h[T \ {Last(T)}] \in V
    BY <1>7, LastIs
  <2> QED
    BY <2>1, ValueReadIs
<1> HIDE DEF rule
<1>8. ValueFold(h, S)
  BY <1>6, <1>7 DEF ValueFold, OrderedReads, base
<1> QED
  BY <1>1, <1>8 DEF base

\* The groups of acts: a partition, with the acts that share a process together
\* and those without a number together with the others of their value and year.
LEMMA GroupedIs ==
  ASSUME NEW S, IsFiniteSet(S), Identified(S)
  PROVE  /\ Partition(Spl!Grouped(S), S)
         /\ \A a, b \in S : a.processes \cap b.processes # {} => Together(Spl!Grouped(S), a, b)
         /\ \A a, b \in Unnumbered(S) :
              a.value = b.value /\ Spl!Year(a.day) = Spl!Year(b.day) => Together(Spl!Grouped(S), a, b)
<1> DEFINE h == CHOOSE k : ValueFold(k, S)
           base == Spl!GroupedByProcess(S)
           K == ProcessesOf(S)
           Alike == ValueAndYear(S)
           N == Unnumbered(S)
<1>1. ValueFold(h, S) /\ Grouping(base, S, K)
  BY ValueFoldIs
<1>2. Spl!Grouped(S) = h[S]
  BY ValueFolds
<1> HIDE DEF h, base
<1>3. LinkReads(h, S, Alike, N, base)
  <2>1. h[{}] = base
    BY <1>1 DEF ValueFold, base
  <2>2. ASSUME NEW T \in SUBSET S, T # {}
        PROVE  h[T] = Spl!LinkByValue(S, h[T \ {Last(T)}], Last(T)) /\ Last(T) \in S
    BY <1>1, <2>2, ValueReadIs, LastIs DEF ValueFold
  <2>3. ASSUME NEW T \in SUBSET S, T # {}, Partition(h[T \ {Last(T)}], S)
        PROVE  \/ h[T] = JoinClass(S, Alike, h[T \ {Last(T)}], Last(T))
               \/ h[T] = h[T \ {Last(T)}] /\ ~(Last(T) \in N /\ {Last(T)} \in h[T \ {Last(T)}])
    <3>1. h[T] = Spl!LinkByValue(S, h[T \ {Last(T)}], Last(T)) /\ Last(T) \in S
      BY <2>2, <2>3
    <3> QED
      BY <2>3, <3>1, ValueStep
  <2> QED
    BY <2>1, <2>3 DEF LinkReads
<1>4. N \in SUBSET S /\ Keyless(N, S, K)
  BY DEF Unnumbered, ProcessesOf, Keyless
<1>5. \A a, b \in S : a.processes \cap b.processes # {} => K[a] \cap K[b] # {}
  BY DEF ProcessesOf
<1>6. \A a, b \in N : a.value = b.value /\ Spl!Year(a.day) = Spl!Year(b.day) => Alike[a] = Alike[b]
  BY <1>4 DEF ValueAndYear
<1> HIDE DEF Alike, N, K
<1>7. /\ Partition(h[S], S)
      /\ \A a, b \in S : K[a] \cap K[b] # {} => Together(h[S], a, b)
      /\ \A a, b \in N : Alike[a] = Alike[b] => Together(h[S], a, b)
  BY <1>1, <1>3, <1>4, LinkGroups
<1> QED
  BY <1>2, <1>5, <1>6, <1>7 DEF N

LEMMA FewAreFinite ==
  /\ \A a, b : IsFiniteSet({a, b})
  /\ \A a, b, c, d, e : IsFiniteSet({a, b, c, d, e})
<1>1. \A S, a : IsFiniteSet(S) => IsFiniteSet(S \cup {a})
  BY FS_AddElement
<1>2. ASSUME NEW a, NEW b PROVE IsFiniteSet({a, b})
  <2>1. {a, b} = {a} \cup {b}
    OBVIOUS
  <2>2. IsFiniteSet({a})
    BY FS_Singleton
  <2>3. IsFiniteSet({a} \cup {b})
    BY <1>1, <2>2
  <2> QED
    BY <2>1, <2>3
<1>3. ASSUME NEW a, NEW b, NEW c, NEW d, NEW e PROVE IsFiniteSet({a, b, c, d, e})
  <2>1. {a, b, c, d, e} = (({a, b} \cup {c}) \cup {d}) \cup {e}
    OBVIOUS
  <2>2. IsFiniteSet({a, b} \cup {c})
    BY <1>1, <1>2
  <2>3. IsFiniteSet(({a, b} \cup {c}) \cup {d})
    BY <1>1, <2>2
  <2>4. IsFiniteSet((({a, b} \cup {c}) \cup {d}) \cup {e})
    BY <1>1, <2>3
  <2> QED
    BY <2>1, <2>4
<1> QED
  BY <1>2, <1>3

LEMMA TableOfTwo ==
  ASSUME NEW d1 \in Nat, NEW v1 \in Nat, NEW v2 \in Nat, NEW table,
         table = {<<d1, v1>>, <<0, v2>>}
  PROVE  table \subseteq Nat \X Nat /\ (\E n \in Nat : <<0, n>> \in table) /\ IsFiniteSet(table)
<1>1. \A a, b : IsFiniteSet({a, b})
  BY FewAreFinite
<1>2. IsFiniteSet(table)
  BY <1>1, Zenon
<1>3. <<0, v2>> \in table
  OBVIOUS
<1>4. table \subseteq Nat \X Nat
  OBVIOUS
<1> QED
  BY <1>2, <1>3, <1>4

\* The tables of the limits begin at day 0, and a limit is an amount.
LEMMA LimitIsAnAmount ==
  ASSUME NEW day \in Nat, NEW cites \in BOOLEAN, NEW category \in {"compras", "obras"}
  PROVE  Spl!DispensaLimitCents(day, cites, category) \in Nat
<1> DEFINE law == IF day >= Spl!Lei8666End \/ (cites /\ day >= Spl!Lei14133Start) THEN "new" ELSE "old"
           table == Spl!Limits[law][category]
           started == {l \in table : l[1] <= day}
           days == {l[1] : l \in started}
<1>1. \A y, d \in Nat : Spl!Date(y, d) \in Nat
  BY DEF Spl!Date
<1>2. /\ table \subseteq Nat \X Nat /\ \E n \in Nat : <<0, n>> \in table
      /\ IsFiniteSet(table)
  <2>1. law \in {"new", "old"}
    OBVIOUS
  <2> HIDE DEF law
  <2>2. CASE law = "old" /\ category = "compras"
    <3> DEFINE d1 == Spl!Date(2018, 199)
               v1 == 1760000
               v2 == 800000
    <3>1. table = {<<d1, v1>>, <<0, v2>>}
      BY <2>2, SMT DEF Spl!Limits
    <3>2. d1 \in Nat
      BY SMT DEF Spl!Date
    <3>3. v1 \in Nat /\ v2 \in Nat
      BY SMT
    <3> HIDE DEF table, d1, v1, v2
    <3> QED
      BY <3>1, <3>2, <3>3, TableOfTwo
  <2>3. CASE law = "old" /\ category = "obras"
    <3> DEFINE d1 == Spl!Date(2018, 199)
               v1 == 3300000
               v2 == 1500000
    <3>1. table = {<<d1, v1>>, <<0, v2>>}
      BY <2>3, SMT DEF Spl!Limits
    <3>2. d1 \in Nat
      BY SMT DEF Spl!Date
    <3>3. v1 \in Nat /\ v2 \in Nat
      BY SMT
    <3> HIDE DEF table, d1, v1, v2
    <3> QED
      BY <3>1, <3>2, <3>3, TableOfTwo
  <2>4. CASE law = "new" /\ category = "compras"
    <3> DEFINE d1 == Spl!Date(2026, 0)
               v1 == 6549211
               d2 == Spl!Date(2025, 0)
               v2 == 6272559
               d3 == Spl!Date(2024, 0)
               v3 == 5990602
               d4 == Spl!Date(2023, 0)
               v4 == 5720833
               v5 == 5000000
    <3>1. table = {<<d1, v1>>, <<d2, v2>>, <<d3, v3>>, <<d4, v4>>, <<0, v5>>}
      BY <2>4, SMT DEF Spl!Limits
    <3>2. d1 \in Nat /\ d2 \in Nat /\ d3 \in Nat /\ d4 \in Nat
      BY SMT DEF Spl!Date
    <3>3. v1 \in Nat /\ v2 \in Nat /\ v3 \in Nat /\ v4 \in Nat /\ v5 \in Nat
      BY SMT
    <3> HIDE DEF table, d1, v1, d2, v2, d3, v3, d4, v4, v5
    <3>4. \A a, b, c, d, e : IsFiniteSet({a, b, c, d, e})
      BY FewAreFinite
    <3>5. IsFiniteSet(table)
      BY <3>1, <3>4, Zenon
    <3>6. <<0, v5>> \in table
      BY <3>1
    <3>7. table \subseteq Nat \X Nat
      BY <3>1, <3>2, <3>3
    <3> QED
      BY <3>3, <3>5, <3>6, <3>7
  <2>5. CASE law = "new" /\ category = "obras"
    <3> DEFINE d1 == Spl!Date(2026, 0)
               v1 == 13098420
               d2 == Spl!Date(2025, 0)
               v2 == 12545115
               d3 == Spl!Date(2024, 0)
               v3 == 11981202
               d4 == Spl!Date(2023, 0)
               v4 == 11441665
               v5 == 10000000
    <3>1. table = {<<d1, v1>>, <<d2, v2>>, <<d3, v3>>, <<d4, v4>>, <<0, v5>>}
      BY <2>5, SMT DEF Spl!Limits
    <3>2. d1 \in Nat /\ d2 \in Nat /\ d3 \in Nat /\ d4 \in Nat
      BY SMT DEF Spl!Date
    <3>3. v1 \in Nat /\ v2 \in Nat /\ v3 \in Nat /\ v4 \in Nat /\ v5 \in Nat
      BY SMT
    <3> HIDE DEF table, d1, v1, d2, v2, d3, v3, d4, v4, v5
    <3>4. \A a, b, c, d, e : IsFiniteSet({a, b, c, d, e})
      BY FewAreFinite
    <3>5. IsFiniteSet(table)
      BY <3>1, <3>4, Zenon
    <3>6. <<0, v5>> \in table
      BY <3>1
    <3>7. table \subseteq Nat \X Nat
      BY <3>1, <3>2, <3>3
    <3> QED
      BY <3>3, <3>5, <3>6, <3>7
  <2> QED
    BY <2>1, <2>2, <2>3, <2>4, <2>5
<1> HIDE DEF table
<1>3. \E l \in started : \A k \in started : k[1] <= l[1]
  <2>1. IsFiniteSet(started)
    BY <1>2, FS_Subset
  <2>2. \A l \in started : l[1] \in Nat
    BY <1>2
  <2>3. started # {}
    BY <1>2
  <2> DEFINE f == [l \in started |-> l[1]]
  <2>4. f \in [started -> Nat] /\ days = {f[l] : l \in started}
    BY <2>2
  <2>5. IsFiniteSet({f[l] : l \in started})
    <3> HIDE DEF f, started
    <3> QED
      BY <2>1, ImagesAreFinite
  <2>6. IsFiniteSet(days) /\ days \subseteq Nat /\ days # {}
    BY <2>2, <2>3, <2>4, <2>5
  <2> HIDE DEF days
  <2>7. PICK n \in days : \A k \in days : k <= n
    BY <2>6, GreatestExists
  <2> QED
    BY <2>7 DEF days
<1>4. (CHOOSE l \in started : \A k \in started : k[1] <= l[1]) \in started
  BY <1>3
<1>5. \A l \in started : l[2] \in Nat
  BY <1>2
<1>6. Spl!DispensaLimitCents(day, cites, category) = (CHOOSE l \in started : \A k \in started : k[1] <= l[1])[2]
  BY DEF Spl!DispensaLimitCents, table
<1> QED
  BY <1>4, <1>5, <1>6

LEMMA SplGreatest ==
  ASSUME NEW S, IsFiniteSet(S), S \subseteq Nat, S # {}
  PROVE  Spl!Greatest(S) \in S /\ \A n \in S : n <= Spl!Greatest(S)
  BY GreatestExists DEF Spl!Greatest

\* The acts of a supplier, and their groups.
LEMMA SupplierActsAre ==
  ASSUME given \subseteq Dispensas, IsFiniteSet(given), NEW cnpj
  PROVE  /\ Spl!ActsOf(cnpj) \subseteq given
         /\ IsFiniteSet(Spl!ActsOf(cnpj)) /\ Identified(Spl!ActsOf(cnpj))
         /\ \A a \in Spl!ActsOf(cnpj) : a.value \in Nat /\ a.day \in Nat
         /\ Partition(Spl!Grouped(Spl!ActsOf(cnpj)), Spl!ActsOf(cnpj))
<1>1. Spl!ActsOf(cnpj) \subseteq given
  BY DEF Spl!ActsOf, Spl!DispensaActs
<1>2. IsFiniteSet(Spl!ActsOf(cnpj)) /\ Identified(Spl!ActsOf(cnpj))
  BY <1>1, FS_Subset, PurchasesAssumption DEF Identified
<1>3. \A a \in Spl!ActsOf(cnpj) : a.value \in Nat /\ a.day \in Nat
  BY <1>1, PurchasesAssumption DEF Identified
<1> QED
  BY <1>1, <1>2, <1>3, GroupedIs

\* A contract below its limit is a group of acts, its value and limit amounts.
LEMMA ContractIs ==
  ASSUME given \subseteq Dispensas, IsFiniteSet(given), NEW cnpj, NEW c \in Spl!ValueDispensaContracts(cnpj)
  PROVE  /\ c.acts \in Spl!Grouped(Spl!ActsOf(cnpj)) /\ c = Spl!ContractOf(c.acts)
         /\ c.processes = UNION {a.processes : a \in c.acts}
         /\ c.value \in Nat /\ c.limit \in Nat /\ c.value < c.limit
<1> DEFINE S == Spl!ActsOf(cnpj)
<1>1. PICK g \in Spl!Grouped(S) : c = Spl!ContractOf(g) /\ c.category # "" /\ c.value < c.limit
  BY Zenon DEF Spl!ValueDispensaContracts
<1>2. g \subseteq S /\ IsFiniteSet(g) /\ g # {} /\ \A a \in g : a.value \in Nat /\ a.day \in Nat
  BY SupplierActsAre, PartitionIsFinite
<1> HIDE DEF S
<1> DEFINE values == {a.value : a \in g}
           cites == \E a \in g : "lei14133" \in a.marks
<1>3. /\ c.acts = g /\ c.processes = UNION {a.processes : a \in g}
      /\ c.value = Spl!Greatest(values)
      /\ c.category = Spl!CategoryOf(g)
      /\ c.limit = IF Spl!CategoryOf(g) = "" THEN 0
                   ELSE Spl!DispensaLimitCents(Spl!Earliest(g).day, cites, Spl!CategoryOf(g))
  BY <1>1, Zenon DEF Spl!ContractOf
<1>4. c.value \in Nat
  <2> DEFINE f == [a \in g |-> a.value]
  <2>1. values = {f[a] : a \in g}
    OBVIOUS
  <2>2. IsFiniteSet({f[a] : a \in g})
    <3> HIDE DEF f
    <3> QED
      BY <1>2, ImagesAreFinite
  <2>3. values \subseteq Nat /\ values # {} /\ IsFiniteSet(values)
    BY <1>2, <2>1, <2>2
  <2> HIDE DEF values
  <2> QED
    BY <1>3, <2>3, SplGreatest, Zenon
<1>5. c.limit \in Nat
  <2>1. Spl!CategoryOf(g) \in {"compras", "obras"}
    BY <1>1, <1>3, Zenon DEF Spl!CategoryOf
  <2>2. Spl!Earliest(g) \in g
    BY <1>2, SupplierActsAre, SplLatest, LastIs DEF S
  <2>3. cites \in BOOLEAN
    OBVIOUS
  <2> HIDE DEF cites
  <2>4. Spl!DispensaLimitCents(Spl!Earliest(g).day, cites, Spl!CategoryOf(g)) \in Nat
    BY <1>2, <2>1, <2>2, <2>3, LimitIsAnAmount
  <2> QED
    BY <1>3, <2>1, <2>4, Zenon
<1> QED
  BY <1>1, <1>3, <1>4, <1>5, Zenon DEF S

\* A finding is of the contracts of one supplier, year and category.
SplitFor(s, cnpj, year, category) ==
  /\ cnpj \in Spl!Suppliers
  /\ s = Spl!SplitOf(cnpj, year, category) /\ s.total > s.limit
  /\ s.cnpj = cnpj
  /\ s.contracts = {c \in Spl!ValueDispensaContracts(cnpj) : Spl!Year(c.first) = year /\ c.category = category}
  /\ s.limit = Spl!Greatest({0} \cup {c.limit : c \in s.contracts})

LEMMA SplitIs ==
  ASSUME NEW s \in Spl!FindSplitDispensas
  PROVE  \E cnpj, year, category : SplitFor(s, cnpj, year, category)
<1>1. PICK cnpj, year, category : cnpj \in Spl!Suppliers /\ s = Spl!SplitOf(cnpj, year, category) /\ s.total > s.limit
  BY DEF Spl!FindSplitDispensas
<1>2. /\ s.cnpj = cnpj
      /\ s.contracts = {c \in Spl!ValueDispensaContracts(cnpj) : Spl!Year(c.first) = year /\ c.category = category}
      /\ s.limit = Spl!Greatest({0} \cup {c.limit : c \in s.contracts})
  BY <1>1 DEF Spl!SplitOf
<1> QED
  BY <1>1, <1>2 DEF SplitFor

LEMMA SplitsDiffer ==
  ASSUME given \subseteq Dispensas, IsFiniteSet(given)
  PROVE  Spl!SplitsAreOfDifferentContracts
<1> SUFFICES ASSUME NEW s \in Spl!FindSplitDispensas
             PROVE  /\ s.total > s.limit
                    /\ \A c \in s.contracts : c.value < s.limit
                    /\ \A c, d \in s.contracts : c # d =>
                         /\ c.acts \cap d.acts = {} /\ c.processes \cap d.processes = {}
                         /\ \A a \in c.acts, b \in d.acts :
                              ~(Spl!Numberless(a, s.cnpj) /\ Spl!Numberless(b, s.cnpj)
                                /\ a.value = b.value /\ Spl!Year(a.day) = Spl!Year(b.day))
  BY DEF Spl!SplitsAreOfDifferentContracts
<1>0. PICK cnpj, year, category : SplitFor(s, cnpj, year, category)
  BY SplitIs
<1>1. /\ s.total > s.limit /\ s.cnpj = cnpj
      /\ s.contracts = {c \in Spl!ValueDispensaContracts(cnpj) : Spl!Year(c.first) = year /\ c.category = category}
      /\ s.limit = Spl!Greatest({0} \cup {c.limit : c \in s.contracts})
  BY <1>0 DEF SplitFor
<1> DEFINE S == Spl!ActsOf(cnpj)
           G == Spl!Grouped(S)
           limits == {c.limit : c \in s.contracts}
<1>2. \A c \in s.contracts :
        /\ c.acts \in G /\ c = Spl!ContractOf(c.acts)
        /\ c.processes = UNION {a.processes : a \in c.acts}
        /\ c.value \in Nat /\ c.limit \in Nat /\ c.value < c.limit
  BY <1>1, ContractIs
<1>3. /\ S \subseteq given /\ IsFiniteSet(S) /\ Identified(S) /\ Partition(G, S)
      /\ \A a, b \in S : a.processes \cap b.processes # {} => Together(G, a, b)
      /\ \A a, b \in Unnumbered(S) :
           a.value = b.value /\ Spl!Year(a.day) = Spl!Year(b.day) => Together(G, a, b)
  BY SupplierActsAre, GroupedIs
<1>4. \A a \in S : Spl!Numberless(a, cnpj) => a \in Unnumbered(S)
  BY DEF Spl!Numberless, Unnumbered
<1> HIDE DEF S, G
<1>5. ASSUME NEW c \in s.contracts PROVE c.value < s.limit
  <2>1. IsFiniteSet({0} \cup limits)
    <3>1. IsFiniteSet(G)
      BY <1>3, PartitionIsFinite
    <3> DEFINE f == [g \in G |-> Spl!ContractOf(g).limit]
    <3>2. IsFiniteSet({f[g] : g \in G})
      <4> HIDE DEF f
      <4> QED
        BY <3>1, ImagesAreFinite
    <3>3. limits \subseteq {f[g] : g \in G}
      <4>1. \A d \in s.contracts : d.acts \in G /\ d.limit = f[d.acts]
        BY <1>2
      <4> HIDE DEF f
      <4> QED
        BY <4>1
    <3>4. IsFiniteSet(limits)
      BY <3>2, <3>3, FS_Subset
    <3> HIDE DEF limits
    <3> QED
      BY <3>4, FS_Singleton, FS_Union
  <2>2. {0} \cup limits \subseteq Nat /\ {0} \cup limits # {} /\ c.limit \in {0} \cup limits
    BY <1>2
  <2> HIDE DEF limits
  <2>3. c.limit <= s.limit /\ s.limit \in Nat
    BY <1>1, <2>1, <2>2, SplGreatest DEF limits
  <2> QED
    BY <1>2, <2>3
<1>6. ASSUME NEW c \in s.contracts, NEW d \in s.contracts, c # d
      PROVE  /\ c.acts \cap d.acts = {}
             /\ \A a \in c.acts, b \in d.acts : a \in S /\ b \in S /\ ~Together(G, a, b)
  <2>1. c.acts \in G /\ d.acts \in G /\ c.acts # d.acts
    BY <1>2, <1>6
  <2> QED
    BY <1>3, <2>1 DEF Partition, Together
<1>7. ASSUME NEW c \in s.contracts, NEW d \in s.contracts, c # d
      PROVE  c.processes \cap d.processes = {}
  <2>1. \A a \in c.acts, b \in d.acts : a.processes \cap b.processes = {}
    BY <1>3, <1>6, <1>7
  <2>2. c.processes = UNION {a.processes : a \in c.acts} /\ d.processes = UNION {a.processes : a \in d.acts}
    BY <1>2
  <2> QED
    BY <2>1, <2>2
<1>8. ASSUME NEW c \in s.contracts, NEW d \in s.contracts, c # d, NEW a \in c.acts, NEW b \in d.acts,
             Spl!Numberless(a, s.cnpj), Spl!Numberless(b, s.cnpj),
             a.value = b.value, Spl!Year(a.day) = Spl!Year(b.day)
      PROVE  FALSE
  <2>1. a \in S /\ b \in S /\ ~Together(G, a, b)
    BY <1>6, <1>8
  <2>2. a \in Unnumbered(S) /\ b \in Unnumbered(S)
    BY <1>1, <1>4, <1>8, <2>1
  <2> QED
    BY <1>3, <1>8, <2>1, <2>2
<1> QED
  BY <1>1, <1>5, <1>6, <1>7, <1>8

LEMMA ActsCountOnce ==
  ASSUME given \subseteq Dispensas, IsFiniteSet(given)
  PROVE  Spl!ActsCountInOneSplit
<1> SUFFICES ASSUME NEW s \in Spl!FindSplitDispensas, NEW t \in Spl!FindSplitDispensas,
                    NEW x \in s.contracts, NEW y \in t.contracts, NEW a \in x.acts, a \in y.acts
             PROVE  s = t
  BY DEF Spl!ActsCountInOneSplit
<1>1. PICK cs, ys, ks : SplitFor(s, cs, ys, ks)
  BY SplitIs
<1>2. PICK ct, yt, kt : SplitFor(t, ct, yt, kt)
  BY SplitIs
<1>3. x \in Spl!ValueDispensaContracts(cs) /\ y \in Spl!ValueDispensaContracts(ct)
  BY <1>1, <1>2 DEF SplitFor
<1>4. /\ x.acts \in Spl!Grouped(Spl!ActsOf(cs)) /\ x = Spl!ContractOf(x.acts)
      /\ y.acts \in Spl!Grouped(Spl!ActsOf(ct)) /\ y = Spl!ContractOf(y.acts)
  BY <1>3, ContractIs
<1>5. Partition(Spl!Grouped(Spl!ActsOf(cs)), Spl!ActsOf(cs)) /\ Partition(Spl!Grouped(Spl!ActsOf(ct)), Spl!ActsOf(ct))
  BY SupplierActsAre
<1>6. a \in Spl!ActsOf(cs) /\ a \in Spl!ActsOf(ct)
  BY <1>4, <1>5 DEF Partition
<1>7. cs = ct
  <2>1. ct \in a.cnpjs /\ Spl!PrivateCNPJs(a.cnpjs \ {cs}) = {}
    BY <1>6 DEF Spl!ActsOf
  <2>2. ~Spl!PublicBody(ct)
    BY <1>2 DEF Spl!Suppliers, SplitFor
  <2> QED
    BY <2>1, <2>2 DEF Spl!PrivateCNPJs
<1>8. x = y
  <2>1. x.acts = y.acts
    BY <1>4, <1>5, <1>7 DEF Partition
  <2> QED
    BY <1>4, <2>1
<1>9. ys = yt /\ ks = kt
  BY <1>1, <1>2, <1>8 DEF SplitFor
<1> QED
  BY <1>1, <1>2, <1>7, <1>9 DEF SplitFor

-----------------------------------------------------------------------------
(***************************************************************************)
(* Renewed emergencies.                                                    *)
(***************************************************************************)
LEMMA RenCardinality == \A S : Ren!Cardinality(S) = Cardinality(S)
  BY ZenonT(30) DEF Ren!Cardinality, Cardinality

LEMMA RenLatest ==
  /\ \A T : Ren!Latest(T) = Last(T)
  /\ \A T : Ren!Earliest(T) = First(T)
  BY DEF Ren!Latest, Ren!Earliest, Ren!Before, Last, First, Precedes

RefRead(h, T) ==
  CHOOSE v \in {Ren!JoinByRef(q, b) : q \in {h[T \ {Ren!Latest(T)}]}, b \in {Ren!Latest(T)}} : TRUE
RefFold(h, S) == h = [T \in SUBSET S |-> IF T = {} THEN Ren!Apart(S) ELSE RefRead(h, T)]

LEMMA RefReadIs == \A h, T : RefRead(h, T) = Ren!JoinByRef(h[T \ {Last(T)}], Last(T))
<1> SUFFICES ASSUME NEW h, NEW T PROVE RefRead(h, T) = Ren!JoinByRef(h[T \ {Last(T)}], Last(T))
  OBVIOUS
<1>1. {Ren!JoinByRef(q, b) : q \in {h[T \ {Ren!Latest(T)}]}, b \in {Ren!Latest(T)}}
        = {Ren!JoinByRef(h[T \ {Last(T)}], Last(T))}
  BY RenLatest
<1> QED
  BY <1>1 DEF RefRead

LEMMA RefFolds ==
  ASSUME NEW S
  PROVE  Ren!GroupedByRef(S) = (CHOOSE h : RefFold(h, S))[S].groups
<1>1. Ren!ReadInOrder(Ren!JoinByRef, Ren!Apart(S), S) = (CHOOSE h : RefFold(h, S))[S]
  BY DEF Ren!ReadInOrder, Ren!MapThenFoldSet, RefFold, RefRead
<1>2. Ren!GroupedByRef(S) = Ren!ReadInOrder(Ren!JoinByRef, Ren!Apart(S), S).groups
  BY Zenon DEF Ren!GroupedByRef
<1> QED
  BY <1>1, <1>2

RefsOf(S) == [a \in S |-> Ren!ScopedRefs(a)]

LEMMA RefGroups ==
  ASSUME NEW S, IsFiniteSet(S), Identified(S)
  PROVE  Grouping(Ren!GroupedByRef(S), S, RefsOf(S))
<1> DEFINE K == RefsOf(S)
<1>1. ASSUME NEW T \in SUBSET S, T # {}, NEW h
      PROVE  RefRead(h, T) = KeyStep(K, h[T \ {Last(T)}], Last(T))
  <2>1. Last(T) \in S
    BY <1>1, LastIs
  <2>2. K[Last(T)] = Ren!ScopedRefs(Last(T))
    BY <2>1 DEF RefsOf
  <2>3. RefRead(h, T) = Ren!JoinByRef(h[T \ {Last(T)}], Last(T))
    BY RefReadIs
  <2> QED
    BY <2>2, <2>3 DEF Ren!JoinByRef, Ren!JoinFirst, Ren!Joined, KeyStep, Merge
<1>2. Ren!Apart(S) = Singles(S)
  BY DEF Ren!Apart, Ren!Alone, Singles
<1> HIDE DEF K
<1>3. ASSUME NEW h PROVE RefFold(h, S) <=> KeyReads(h, S, K)
  BY <1>1, <1>2 DEF RefFold, KeyReads
<1>4. KeyReads(CHOOSE h : RefFold(h, S), S, K)
  <2>1. \E h : RefFold(h, S)
    BY <1>3, KeyReadingExists
  <2> QED
    BY <1>3, <2>1
<1>5. Grouping((CHOOSE h : RefFold(h, S))[S].groups, S, K)
  BY <1>4, KeyGroups
<1> QED
  BY <1>5, RefFolds DEF K

\* The contracts read one after another: what is known of the runs so far.
FollowBase == [runs |-> {}, run |-> <<>>]
FollowRead(h, T) ==
  CHOOSE v \in {Ren!Follow(q, b) : q \in {h[T \ {Ren!Latest(T)}]}, b \in {Ren!Latest(T)}} : TRUE
FollowFold(h, S) == h = [T \in SUBSET S |-> IF T = {} THEN FollowBase ELSE FollowRead(h, T)]

LEMMA FollowReadIs == \A h, T : FollowRead(h, T) = Ren!Follow(h[T \ {Last(T)}], Last(T))
<1> SUFFICES ASSUME NEW h, NEW T PROVE FollowRead(h, T) = Ren!Follow(h[T \ {Last(T)}], Last(T))
  OBVIOUS
<1>1. {Ren!Follow(q, b) : q \in {h[T \ {Ren!Latest(T)}]}, b \in {Ren!Latest(T)}}
        = {Ren!Follow(h[T \ {Last(T)}], Last(T))}
  BY RenLatest
<1> QED
  BY <1>1 DEF FollowRead

LEMMA FollowFolds ==
  ASSUME NEW S
  PROVE  Ren!ReadInOrder(Ren!Follow, FollowBase, S) = (CHOOSE h : FollowFold(h, S))[S]
  BY DEF Ren!ReadInOrder, Ren!MapThenFoldSet, FollowFold, FollowRead

\* The kinds of rule: a first contract, one left out, a new run, one more of the run.
LEMMA FollowIs ==
  ASSUME NEW S, NEW r \in [runs : SUBSET Seq(S), run : Seq(S)], NEW c \in S
  PROVE  \/ r.run = <<>> /\ Ren!Follow(r, c) = [runs |-> r.runs, run |-> <<c>>]
         \/ Ren!Follow(r, c) = r
         \/ /\ r.run # <<>> /\ c.day - r.run[Len(r.run)].day > 730
            /\ Ren!Follow(r, c) = [runs |-> r.runs \cup {r.run}, run |-> <<c>>]
         \/ /\ r.run # <<>> /\ ~(c.day - r.run[Len(r.run)].day < 30) /\ ~(c.day - r.run[Len(r.run)].day > 730)
            /\ Ren!Follow(r, c) = [runs |-> r.runs, run |-> Append(r.run, c)]
<1>1. \A q : [r EXCEPT !.run = q] = [runs |-> r.runs, run |-> q]
  OBVIOUS
<1>2. [r EXCEPT !.run = Append(@, c)] = [runs |-> r.runs, run |-> Append(r.run, c)]
  BY <1>1, Zenon
<1>3. Ren!Follow(r, c) = IF r.run = <<>> THEN [r EXCEPT !.run = <<c>>]
                         ELSE IF c.day - r.run[Len(r.run)].day < 30 THEN r
                         ELSE IF c.day - r.run[Len(r.run)].day > 730 THEN [runs |-> r.runs \cup {r.run}, run |-> <<c>>]
                         ELSE [r EXCEPT !.run = Append(@, c)]
  BY DEF Ren!Follow, Ren!MinEmergencyRenewalGap, Ren!MaxEmergencyRenewalGap
<1>4. CASE r.run = <<>>
  BY <1>1, <1>3, <1>4
<1>5. CASE r.run # <<>>
  BY <1>2, <1>3, <1>5
<1> QED
  BY <1>4, <1>5

LEMMA FollowTyped ==
  ASSUME NEW S, NEW r \in [runs : SUBSET Seq(S), run : Seq(S)], NEW c \in S
  PROVE  Ren!Follow(r, c) \in [runs : SUBSET Seq(S), run : Seq(S)]
<1> DEFINE V == [runs : SUBSET Seq(S), run : Seq(S)]
<1>1. <<c>> \in Seq(S) /\ Append(r.run, c) \in Seq(S) /\ r.runs \cup {r.run} \in SUBSET Seq(S)
  OBVIOUS
<1>2. \/ Ren!Follow(r, c) = [runs |-> r.runs, run |-> <<c>>]
      \/ Ren!Follow(r, c) = r
      \/ Ren!Follow(r, c) = [runs |-> r.runs \cup {r.run}, run |-> <<c>>]
      \/ Ren!Follow(r, c) = [runs |-> r.runs, run |-> Append(r.run, c)]
  BY FollowIs
<1>3. r.runs \in SUBSET Seq(S) /\ \A x \in SUBSET Seq(S), y \in Seq(S) : [runs |-> x, run |-> y] \in V
  OBVIOUS
<1>0. r \in V
  OBVIOUS
<1> HIDE DEF V
<1>4. Ren!Follow(r, c) \in V
  BY <1>0, <1>1, <1>2, <1>3
<1> QED
  BY <1>4 DEF V

LEMMA FollowFoldIs ==
  ASSUME NEW S, IsFiniteSet(S), Identified(S)
  PROVE  FollowFold(CHOOSE h : FollowFold(h, S), S)
<1> DEFINE V == [runs : SUBSET Seq(S), run : Seq(S)]
           rule == [p \in V \X S |-> Ren!Follow(p[1], p[2])]
<1>1. FollowBase \in V
  BY DEF FollowBase
<1>2. ASSUME NEW r \in V, NEW c \in S PROVE Ren!Follow(r, c) \in V
  BY FollowTyped
<1> HIDE DEF V
<1>3. rule \in [V \X S -> V]
  BY <1>2
<1>4. PICK h \in [SUBSET S -> V] : OrderedReads(h, S, FollowBase, rule)
  <2> HIDE DEF rule
  <2> QED
    BY <1>1, <1>3, OrderedReadingExists
<1>5. ASSUME NEW T \in SUBSET S, T # {}
      PROVE  rule[<<h[T \ {Last(T)}], Last(T)>>] = FollowRead(h, T)
  <2>1. Last(T) \in S /\ h[T \ {Last(T)}] \in V
    BY <1>5, LastIs
  <2> QED
    BY <2>1, FollowReadIs
<1> HIDE DEF rule
<1>6. FollowFold(h, S)
  BY <1>4, <1>5 DEF FollowFold, OrderedReads
<1> QED
  BY <1>6

\* A run: contracts in their order, each 30 to 730 days after the one before.
Successive(q) ==
  /\ \A i \in 1 .. Len(q) - 1 : q[i + 1].day - q[i].day \in 30 .. 730
  /\ \A i, j \in 1 .. Len(q) : i < j => q[i].day < q[j].day

\* Another run, which ended before.
EndedBefore(p, q) == q[1].day - p[Len(p)].day > 730

Following(r, T) ==
  /\ r.runs \subseteq Seq(T) /\ r.run \in Seq(T)
  /\ \A q \in r.runs : q # <<>> /\ Successive(q)
  /\ Successive(r.run)
  /\ r.run = <<>> => r.runs = {}
  /\ \A q \in r.runs : EndedBefore(q, r.run)
  /\ \A p, q \in r.runs : p # q => EndedBefore(p, q) \/ EndedBefore(q, p)

\* A later contract follows.
LEMMA FollowStep ==
  ASSUME NEW S, NEW T \in SUBSET S, NEW c \in S, c \notin T,
         c.day \in Nat /\ \A d \in T : d.day \in Nat /\ d.day <= c.day,
         NEW r \in [runs : SUBSET Seq(S), run : Seq(S)], Following(r, T)
  PROVE  Following(Ren!Follow(r, c), T \cup {c})
<1> DEFINE U == T \cup {c}
           gap == c.day - r.run[Len(r.run)].day
           one == <<c>>
           more == Append(r.run, c)
<1>1. /\ r.runs \subseteq Seq(U) /\ r.run \in Seq(U) /\ one \in Seq(U)
      /\ r.run \in Seq(T)
  <2>1. Seq(T) \subseteq Seq(U)
    OBVIOUS
  <2> QED
    BY <2>1 DEF Following
<1>2. Successive(one) /\ one # <<>> /\ Len(one) = 1 /\ one[1] = c
  BY DEF Successive
<1>3. ASSUME r.run # <<>>
      PROVE  /\ Len(r.run) \in Nat \ {0} /\ r.run[Len(r.run)] \in T /\ r.run[1] \in T
             /\ \A i \in 1 .. Len(r.run) : r.run[i] \in T
             /\ more \in Seq(U) /\ more # <<>> /\ Len(more) = Len(r.run) + 1 /\ more[1] = r.run[1]
             /\ more[Len(more)] = c /\ \A i \in 1 .. Len(r.run) : more[i] = r.run[i]
  BY <1>1, <1>3
<1>4. /\ \A q \in r.runs : q # <<>> /\ Successive(q) /\ EndedBefore(q, r.run)
      /\ Successive(r.run) /\ (r.run = <<>> => r.runs = {})
      /\ \A p, q \in r.runs : p # q => EndedBefore(p, q) \/ EndedBefore(q, p)
  BY DEF Following
<1>5. ASSUME NEW q \in r.runs PROVE q[Len(q)].day \in Nat
  <2>1. q \in Seq(T) /\ q # <<>>
    BY <1>4 DEF Following
  <2>2. q[Len(q)] \in T
    BY <2>1
  <2> QED
    BY <2>2
<1>6. CASE r.run = <<>> /\ Ren!Follow(r, c) = [runs |-> r.runs, run |-> one]
  <2>1. r.runs = {}
    BY <1>4, <1>6
  <2> HIDE DEF one, U
  <2> QED
    BY <1>1, <1>2, <1>6, <2>1 DEF Following, U
<1>7. CASE Ren!Follow(r, c) = r
  BY <1>1, <1>4, <1>7 DEF Following
<1>8. CASE r.run # <<>> /\ gap > 730 /\ Ren!Follow(r, c) = [runs |-> r.runs \cup {r.run}, run |-> one]
  <2>1. EndedBefore(r.run, one)
    BY <1>2, <1>8 DEF EndedBefore
  <2>2. ASSUME NEW q \in r.runs PROVE EndedBefore(q, one)
    <3>1. r.run[1].day - q[Len(q)].day > 730
      BY <1>4 DEF EndedBefore
    <3>2. r.run[1].day <= c.day /\ r.run[1].day \in Nat /\ c.day \in Nat
      BY <1>3, <1>8
    <3>3. c.day - q[Len(q)].day > 730
      BY <1>5, <3>1, <3>2
    <3> QED
      BY <1>2, <3>3 DEF EndedBefore
  <2> DEFINE runs == r.runs \cup {r.run}
  <2>3. runs \subseteq Seq(U)
    BY <1>1
  <2>4. \A q \in runs : q # <<>> /\ Successive(q) /\ EndedBefore(q, one)
    BY <1>4, <1>8, <2>1, <2>2
  <2>5. \A p, q \in runs : p # q => EndedBefore(p, q) \/ EndedBefore(q, p)
    BY <1>4
  <2> HIDE DEF runs, one, U
  <2>6. Ren!Follow(r, c).runs = runs /\ Ren!Follow(r, c).run = one
    BY <1>8 DEF runs
  <2> QED
    BY <1>1, <1>2, <2>3, <2>4, <2>5, <2>6 DEF Following, U
<1>9. CASE /\ r.run # <<>> /\ ~(gap < 30) /\ ~(gap > 730)
           /\ Ren!Follow(r, c) = [runs |-> r.runs, run |-> more]
  <2> DEFINE n == Len(r.run)
  <2>0. n \in Nat \ {0} /\ r.run[n].day \in Nat /\ c.day \in Nat
        /\ Len(more) = n + 1 /\ more[n + 1] = c /\ \A i \in 1 .. n : more[i] = r.run[i] /\ more[i].day \in Nat
        /\ n = Len(r.run) /\ gap = c.day - r.run[n].day
    BY <1>3, <1>9
  <2> HIDE DEF n, gap, more
  <2>1. ASSUME NEW i \in 1 .. Len(more) - 1 PROVE more[i + 1].day - more[i].day \in 30 .. 730
    <3>1. CASE i = n
      <4>1. gap \in Int /\ more[n] = r.run[n] /\ more[i + 1] = c /\ more[i] = r.run[n]
        BY <2>0, <3>1
      <4>2. gap \in 30 .. 730
        BY <1>9, <4>1
      <4>3. more[i + 1].day - more[i].day = gap
        BY <2>0, <4>1
      <4> QED
        BY <4>2, <4>3, Zenon
    <3>2. CASE i # n
      <4>1. i \in 1 .. n - 1 /\ i + 1 \in 1 .. n /\ i \in 1 .. n
        BY <2>0, <3>2
      <4>0. i \in 1 .. Len(r.run) - 1
        BY <2>0, <4>1
      <4>2. r.run[i + 1].day - r.run[i].day \in 30 .. 730
        BY <1>4, <4>0, ZenonT(30) DEF Successive
      <4>3. more[i + 1] = r.run[i + 1] /\ more[i] = r.run[i]
        BY <2>0, <4>1
      <4> QED
        BY <4>2, <4>3, ZenonT(30)
    <3> QED
      BY <3>1, <3>2, ZenonT(30)
  <2>2. ASSUME NEW i \in 1 .. Len(more), NEW j \in 1 .. Len(more), i < j PROVE more[i].day < more[j].day
    <3>1. CASE j = n + 1
      <4>1. i \in 1 .. n
        BY <2>0, <2>2, <3>1
      <4>2. r.run[n].day < c.day
        BY <1>9, <2>0
      <4>3. i = n \/ (i \in 1 .. Len(r.run) /\ n \in 1 .. Len(r.run) /\ i < n)
        BY <2>0, <4>1
      <4>5. i = n \/ r.run[i].day < r.run[n].day
        BY <1>4, <4>3, ZenonT(30) DEF Successive
      <4>4. more[i] = r.run[i] /\ more[i].day \in Nat
        BY <2>0, <4>1
      <4> QED
        BY <2>0, <3>1, <4>2, <4>5, <4>4
    <3>2. CASE j # n + 1
      <4>1. i \in 1 .. n /\ j \in 1 .. n
        BY <2>0, <2>2, <3>2
      <4>2. r.run[i].day < r.run[j].day
        BY <1>4, <2>0, <2>2, <4>1, ZenonT(30) DEF Successive
      <4> QED
        BY <2>0, <4>1, <4>2
    <3> QED
      BY <3>1, <3>2
  <2>3. Successive(more)
    BY <2>1, <2>2, Zenon DEF Successive
  <2>4. \A q \in r.runs : EndedBefore(q, more)
    BY <1>3, <1>4, <1>9 DEF EndedBefore
  <2> HIDE DEF U
  <2>5. Ren!Follow(r, c).runs = r.runs /\ Ren!Follow(r, c).run = more
    BY <1>9
  <2> QED
    BY <1>1, <1>3, <1>4, <1>9, <2>3, <2>4, <2>5 DEF Following, U
<1> QED
  BY <1>6, <1>7, <1>8, <1>9, FollowIs

LEMMA RunsFollow ==
  ASSUME NEW S, IsFiniteSet(S), Identified(S)
  PROVE  Following(Ren!ReadInOrder(Ren!Follow, FollowBase, S), S)
<1> DEFINE h == CHOOSE k : FollowFold(k, S)
           V == [runs : SUBSET Seq(S), run : Seq(S)]
           good == {T \in SUBSET S : Following(h[T], T) /\ h[T] \in V}
<1>1. FollowFold(h, S)
  BY FollowFoldIs
<1>2. Ren!ReadInOrder(Ren!Follow, FollowBase, S) = h[S]
  BY FollowFolds
<1> HIDE DEF h
<1>3. ASSUME NEW T \in SUBSET S, \A x \in T : T \ {x} \in good PROVE Following(h[T], T) /\ h[T] \in V
  <2>1. CASE T = {}
    <3>1. h[T] = [runs |-> {}, run |-> <<>>]
      BY <1>1, <2>1 DEF FollowFold, FollowBase
    <3>2. Successive(<<>>)
      BY DEF Successive
    <3>3. Following(h[T], T)
      BY <3>1, <3>2 DEF Following
    <3> QED
      BY <3>1, <3>3
  <2>2. CASE T # {}
    <3> DEFINE c == Last(T)
    <3>1. c \in T /\ c \in S
      BY <2>2, LastIs
    <3>2. h[T] = Ren!Follow(h[T \ {c}], c)
      BY <1>1, <2>2, FollowReadIs DEF FollowFold
    <3>3. Following(h[T \ {c}], T \ {c}) /\ h[T \ {c}] \in V
      BY <1>3, <3>1
    <3>4. c.day \in Nat /\ \A d \in T \ {c} : d.day \in Nat /\ d.day <= c.day
      BY <3>1, LastIsLatest DEF Identified
    <3> HIDE DEF c
    <3>5. (T \ {c}) \cup {c} = T /\ T \ {c} \in SUBSET S /\ c \notin T \ {c}
      BY <3>1
    <3>6. Following(Ren!Follow(h[T \ {c}], c), (T \ {c}) \cup {c})
      BY <3>1, <3>3, <3>4, <3>5, FollowStep
    <3>7. h[T] \in V
      BY <3>1, <3>2, <3>3, FollowTyped
    <3> QED
      BY <3>2, <3>5, <3>6, <3>7
  <2> QED
    BY <2>1, <2>2
<1>4. S \in good
  <2>1. \A T \in SUBSET S : (\A x \in T : T \ {x} \in good) => T \in good
    BY <1>3
  <2> HIDE DEF good
  <2> QED
    BY <2>1, SubsetInduction
<1> QED
  BY <1>2, <1>4

\* What RenewalsOf finds: runs of two contracts or more, apart from each other.
LEMMA RenewalsAre ==
  ASSUME NEW S, IsFiniteSet(S), Identified(S)
  PROVE  /\ \A q \in Ren!RenewalsOf(S) : q \in Seq(S) /\ Len(q) >= 2 /\ Successive(q)
         /\ \A p, q \in Ren!RenewalsOf(S) : p # q => EndedBefore(p, q) \/ EndedBefore(q, p)
<1> DEFINE r == Ren!ReadInOrder(Ren!Follow, FollowBase, S)
<1>1. Following(r, S)
  BY RunsFollow
<1>2. Ren!RenewalsOf(S) = {q \in r.runs \cup {r.run} : Len(q) >= 2}
  BY DEF Ren!RenewalsOf, FollowBase
<1> HIDE DEF r
<1> QED
  BY <1>1, <1>2 DEF Following

\* Who the one private company of an act is.
LEMMA SupplierOfOne ==
  ASSUME NEW a \in Emergencies, Ren!Cardinality(Ren!PrivateCNPJs(a.cnpjs)) = 1
  PROVE  \E n \in Nat : Ren!PrivateCNPJs(a.cnpjs) = {n} /\ Ren!EmergencySupplierOf(a) = <<"cnpj", n>>
<1> DEFINE private == Ren!PrivateCNPJs(a.cnpjs)
<1>1. IsFiniteSet(private) /\ private \subseteq Nat
  BY PurchasesAssumption, FS_Subset DEF Ren!PrivateCNPJs
<1>2. PICK n : private = {n}
  <2>1. Cardinality(private) = 1
    BY RenCardinality
  <2> HIDE DEF private
  <2> QED
    BY <1>1, <2>1, FS_Singleton
<1>3. n \in Nat
  BY <1>1, <1>2
<1>4. Ren!Least(private) = n
  BY <1>2, <1>3 DEF Ren!Least
<1>5. Ren!EmergencySupplierOf(a) = <<"cnpj", Ren!Least(private)>>
  <2>1. private # {}
    BY <1>2
  <2> QED
    BY <2>1, Zenon DEF Ren!EmergencySupplierOf
<1> QED
  BY <1>2, <1>3, <1>4, <1>5

LEMMA NoneIsNotOne ==
  /\ Ren!Cardinality({}) # 1
  /\ \A n : n > 1 => n # 1
<1>1. Cardinality({}) = 0
  BY FS_EmptySet
<1> QED
  BY <1>1, RenCardinality

\* Who the company of an ambiguous name is.
LEMMA SupplierOfMany ==
  ASSUME NEW a, Ren!PrivateCNPJs(a.cnpjs) = {}, a.name # "", Ren!Cardinality(Ren!AliasCandidates(a.name)) > 1
  PROVE  Ren!EmergencySupplierOf(a) = <<"nome", a.name>>
<1>1. Ren!Cardinality(Ren!PrivateCNPJs(a.cnpjs)) # 1
  BY NoneIsNotOne, Zenon
<1>2. Ren!Cardinality(Ren!AliasCandidates(a.name)) # 1
  BY NoneIsNotOne, Zenon
<1> QED
  BY <1>1, <1>2, Zenon DEF Ren!EmergencySupplierOf

\* The contracts: groups of acts of one company and an organ.
LEMMA EmergencyContractsAre ==
  ASSUME given \subseteq Emergencies, IsFiniteSet(given)
  PROVE  /\ IsFiniteSet(Ren!EmergencyContracts) /\ Identified(Ren!EmergencyContracts)
         /\ \A c \in Ren!EmergencyContracts :
              /\ c.acts \subseteq given
              /\ c.suppliers = {Ren!EmergencySupplierOf(a) : a \in c.acts} \ {Ren!Nobody}
              /\ \E x : c.suppliers = {x}
         /\ \A c, d \in Ren!EmergencyContracts : c # d => c.acts \cap d.acts = {}
<1> DEFINE S == Ren!EmergencyActs
           G == Ren!GroupedByRef(S)
           Deals == Ren!EmergencyContracts
<1>1. S \subseteq given
  BY Zenon DEF Ren!EmergencyActs
<1>2. IsFiniteSet(S) /\ Identified(S)
  BY <1>1, FS_Subset, PurchasesAssumption DEF Identified
<1>3. Partition(G, S)
  BY <1>2, RefGroups DEF Grouping
<1>4. IsFiniteSet(G) /\ \A g \in G : g \subseteq S /\ IsFiniteSet(g) /\ g # {}
  BY <1>2, <1>3, PartitionIsFinite
<1> HIDE DEF S
<1>5. ASSUME NEW c \in Deals
      PROVE  /\ c.acts \in G /\ c = Ren!ContractOf(c.acts)
             /\ Ren!Cardinality(c.suppliers) = 1
  <2>1. PICK g \in G : c = Ren!ContractOf(g) /\ Ren!Cardinality(c.suppliers) = 1
    BY Zenon DEF Ren!EmergencyContracts, S
  <2>2. c.acts = g
    BY <2>1, Zenon DEF Ren!ContractOf
  <2> QED
    BY <2>1, <2>2
<1> HIDE DEF G, Deals
<1>6. ASSUME NEW c \in Deals
      PROVE  /\ c.suppliers = {Ren!EmergencySupplierOf(a) : a \in c.acts} \ {Ren!Nobody}
             /\ c.id = First(c.acts).id /\ c.day = First(c.acts).day
  <2>1. c = Ren!ContractOf(c.acts)
    BY <1>5
  <2>2. /\ Ren!ContractOf(c.acts).suppliers = {Ren!EmergencySupplierOf(a) : a \in c.acts} \ {Ren!Nobody}
        /\ Ren!ContractOf(c.acts).id = First(c.acts).id /\ Ren!ContractOf(c.acts).day = First(c.acts).day
    BY RenLatest DEF Ren!ContractOf
  <2> QED
    BY <2>1, <2>2
<1>7. ASSUME NEW c \in Deals PROVE \E x : c.suppliers = {x}
  <2> DEFINE f == [a \in c.acts |-> Ren!EmergencySupplierOf(a)]
  <2>1. IsFiniteSet(c.acts)
    BY <1>4, <1>5
  <2>2. IsFiniteSet({f[a] : a \in c.acts})
    <3> HIDE DEF f
    <3> QED
      BY <2>1, ImagesAreFinite
  <2>3. c.suppliers \subseteq {f[a] : a \in c.acts}
    BY <1>6
  <2>4. IsFiniteSet(c.suppliers)
    <3> HIDE DEF f
    <3> QED
      BY <2>2, <2>3, FS_Subset
  <2>5. Cardinality(c.suppliers) = 1
    BY <1>5, RenCardinality
  <2> QED
    BY <2>4, <2>5, FS_Singleton
<1>8. ASSUME NEW c \in Deals, NEW d \in Deals, c # d PROVE c.acts \cap d.acts = {}
  <2>1. c.acts # d.acts
    BY <1>5, <1>8
  <2> QED
    BY <1>3, <1>5, <2>1 DEF Partition
<1>9. IsFiniteSet(Deals)
  <2> DEFINE f == [g \in G |-> Ren!ContractOf(g)]
  <2>1. IsFiniteSet({f[g] : g \in G})
    <3> HIDE DEF f
    <3> QED
      BY <1>4, ImagesAreFinite
  <2>2. Deals \subseteq {f[g] : g \in G}
    <3>1. \A c \in Deals : c.acts \in G /\ c = f[c.acts]
      BY <1>5
    <3> HIDE DEF f
    <3> QED
      BY <3>1
  <2> HIDE DEF f
  <2> QED
    BY <2>1, <2>2, FS_Subset
<1>10. Identified(Deals)
  <2>1. ASSUME NEW c \in Deals PROVE First(c.acts) \in c.acts /\ First(c.acts) \in S
    BY <1>2, <1>4, <1>5, LastIs
  <2>2. ASSUME NEW c \in Deals PROVE c.id \in Nat /\ c.day \in Nat
    BY <1>2, <1>6, <2>1 DEF Identified
  <2>3. ASSUME NEW c \in Deals, NEW d \in Deals, c.id = d.id PROVE c = d
    <3>1. First(c.acts) = First(d.acts)
      BY <1>2, <1>6, <2>1, <2>3 DEF Identified
    <3> QED
      BY <1>8, <2>1, <3>1
  <2> QED
    BY <2>2, <2>3 DEF Identified
<1>11. \A c \in Deals : c.acts \subseteq given
  BY <1>1, <1>4, <1>5
<1> QED
  BY <1>6, <1>7, <1>8, <1>9, <1>10, <1>11 DEF Deals

\* A finding is a run of contracts of one company and organ.
SameParties(c) == {d \in Ren!EmergencyContracts : d.suppliers = c.suppliers /\ d.organ = c.organ}

LEMMA RenewedIs ==
  ASSUME given \subseteq Emergencies, IsFiniteSet(given), NEW q \in Ren!FindRenewedEmergencies
  PROVE  /\ q \in Seq(Ren!EmergencyContracts) /\ Len(q) >= 2 /\ Successive(q)
         /\ q \in Ren!RenewalsOf(SameParties(q[1]))
         /\ \A i \in 1 .. Len(q) : /\ q[i] \in Ren!EmergencyContracts
                                   /\ q[i].suppliers = q[1].suppliers /\ q[i].organ = q[1].organ
<1> DEFINE Deals == Ren!EmergencyContracts
<1>1. PICK c \in Deals : q \in Ren!RenewalsOf(SameParties(c))
  BY DEF Ren!FindRenewedEmergencies, SameParties
<1> DEFINE D == SameParties(c)
<1>2. IsFiniteSet(D) /\ Identified(D) /\ D \subseteq Deals
  <2>1. D \subseteq Deals
    BY DEF SameParties
  <2> HIDE DEF D
  <2> QED
    BY <2>1, EmergencyContractsAre, FS_Subset DEF Identified
<1>3. \A d \in D : d.suppliers = c.suppliers /\ d.organ = c.organ
  BY DEF SameParties
<1> HIDE DEF D, Deals
<1>4. q \in Seq(D) /\ Len(q) >= 2 /\ Successive(q)
  BY <1>1, <1>2, RenewalsAre DEF D
<1>5. /\ q \in Seq(Deals) /\ 1 \in 1 .. Len(q)
      /\ \A i \in 1 .. Len(q) : q[i] \in D
  BY <1>2, <1>4
<1>6. \A i \in 1 .. Len(q) : q[i] \in Deals /\ q[i].suppliers = c.suppliers /\ q[i].organ = c.organ
  BY <1>2, <1>3, <1>5
<1>7. SameParties(q[1]) = D
  BY <1>5, <1>6 DEF SameParties, D
<1> QED
  BY <1>1, <1>4, <1>5, <1>6, <1>7 DEF Deals, D

LEMMA RenewalsHold ==
  ASSUME given \subseteq Emergencies, IsFiniteSet(given)
  PROVE  Ren!RenewalsAreSuccessive
<1> DEFINE Deals == Ren!EmergencyContracts
<1>1. ASSUME NEW q \in Ren!FindRenewedEmergencies
      PROVE  /\ DOMAIN q = 1 .. Len(q) /\ Len(q) \in Nat /\ Len(q) >= 2 /\ Successive(q)
             /\ q \in Ren!RenewalsOf(SameParties(q[1]))
             /\ \A i \in 1 .. Len(q) : q[i] \in Deals /\ q[i].suppliers = q[1].suppliers /\ q[i].organ = q[1].organ
             /\ \A i \in 1 .. Len(q) : q[i].day \in Nat
  <2>1. /\ q \in Seq(Deals) /\ Len(q) >= 2 /\ Successive(q)
        /\ q \in Ren!RenewalsOf(SameParties(q[1]))
        /\ \A i \in 1 .. Len(q) : q[i] \in Deals /\ q[i].suppliers = q[1].suppliers /\ q[i].organ = q[1].organ
    BY RenewedIs
  <2>2. \A c \in Deals : c.day \in Nat
    BY EmergencyContractsAre DEF Identified
  <2>3. DOMAIN q = 1 .. Len(q) /\ Len(q) \in Nat
    BY <2>1
  <2> HIDE DEF Deals
  <2> QED
    BY <2>1, <2>2, <2>3
<1>2. /\ IsFiniteSet(Deals) /\ Identified(Deals)
      /\ \A c \in Deals : /\ c.acts \subseteq given
                      /\ c.suppliers = {Ren!EmergencySupplierOf(a) : a \in c.acts} \ {Ren!Nobody}
                      /\ \E x : c.suppliers = {x}
      /\ \A c, d \in Deals : c # d => c.acts \cap d.acts = {}
  BY EmergencyContractsAre, Zenon
<1> HIDE DEF Deals
<1>3. ASSUME NEW q \in Ren!FindRenewedEmergencies, NEW i \in 1 .. Len(q) - 1
      PROVE  q[i + 1].day - q[i].day \in Ren!MinEmergencyRenewalGap .. Ren!MaxEmergencyRenewalGap
  BY <1>1, ZenonT(30) DEF Successive, Ren!MinEmergencyRenewalGap, Ren!MaxEmergencyRenewalGap
<1>4. ASSUME NEW q \in Ren!FindRenewedEmergencies, NEW i \in 1 .. Len(q), NEW j \in 1 .. Len(q), i # j
      PROVE  q[i].acts \cap q[j].acts = {}
  <2>1. q[i].day < q[j].day \/ q[j].day < q[i].day
    <3>1. i < j \/ j < i
      BY <1>4
    <3> QED
      BY <1>1, <3>1 DEF Successive
  <2>2. q[i].day \in Nat /\ q[j].day \in Nat
    BY <1>1
  <2>3. q[i].day # q[j].day
    BY <2>1, <2>2
  <2> QED
    BY <1>1, <1>2, <2>3
<1>5. ASSUME NEW q \in Ren!FindRenewedEmergencies, NEW a \in Ren!ActsOf(q), NEW b \in Ren!ActsOf(q),
             Ren!Cardinality(Ren!PrivateCNPJs(a.cnpjs)) = 1, Ren!Cardinality(Ren!PrivateCNPJs(b.cnpjs)) = 1
      PROVE  Ren!PrivateCNPJs(a.cnpjs) = Ren!PrivateCNPJs(b.cnpjs)
  <2>1. PICK i \in 1 .. Len(q), j \in 1 .. Len(q) : a \in q[i].acts /\ b \in q[j].acts
    BY <1>1 DEF Ren!ActsOf
  <2>2. q[i] \in Deals /\ q[j] \in Deals /\ q[i].suppliers = q[j].suppliers
    BY <1>1
  <2>3. a \in Emergencies /\ b \in Emergencies
    BY <1>2, <2>1, <2>2
  <2>4. PICK n \in Nat : Ren!PrivateCNPJs(a.cnpjs) = {n} /\ Ren!EmergencySupplierOf(a) = <<"cnpj", n>>
    BY <1>5, <2>3, SupplierOfOne
  <2>5. PICK m \in Nat : Ren!PrivateCNPJs(b.cnpjs) = {m} /\ Ren!EmergencySupplierOf(b) = <<"cnpj", m>>
    BY <1>5, <2>3, SupplierOfOne
  <2>6. \A x : <<"cnpj", x>> # Ren!Nobody
    BY DEF Ren!Nobody
  <2>7. <<"cnpj", n>> \in q[i].suppliers /\ <<"cnpj", m>> \in q[j].suppliers
    BY <1>2, <2>1, <2>2, <2>4, <2>5, <2>6
  <2>8. <<"cnpj", n>> = <<"cnpj", m>>
    BY <1>2, <2>2, <2>7
  <2>9. n = m
    BY <2>8
  <2> QED
    BY <2>4, <2>5, <2>9
<1>6. ASSUME NEW p \in Ren!FindRenewedEmergencies, NEW q \in Ren!FindRenewedEmergencies, p # q,
             p[1].suppliers = q[1].suppliers, p[1].organ = q[1].organ
      PROVE  EndedBefore(p, q) \/ EndedBefore(q, p)
  <2> DEFINE D == SameParties(q[1])
  <2>1. SameParties(p[1]) = D
    BY <1>6 DEF SameParties
  <2>2. p \in Ren!RenewalsOf(D) /\ q \in Ren!RenewalsOf(D)
    BY <1>1, <2>1
  <2>3. D \subseteq Deals
    BY DEF SameParties, Deals
  <2> HIDE DEF D
  <2>4. IsFiniteSet(D) /\ Identified(D)
    BY <1>2, <2>3, FS_Subset DEF Identified
  <2> QED
    BY <1>6, <2>2, <2>4, RenewalsAre
<1>7. ASSUME NEW p \in Ren!FindRenewedEmergencies, NEW q \in Ren!FindRenewedEmergencies, EndedBefore(p, q),
             NEW i \in 1 .. Len(p), NEW j \in 1 .. Len(q)
      PROVE  p[i].day < q[j].day
  <2>1. /\ p[i].day \in Nat /\ q[j].day \in Nat /\ Len(p) \in 1 .. Len(p) /\ 1 \in 1 .. Len(q)
        /\ p[Len(p)].day \in Nat /\ q[1].day \in Nat
    BY <1>1
  <2>2. i = Len(p) \/ i < Len(p)
    BY <1>1
  <2>3. p[i].day <= p[Len(p)].day
    BY <1>1, <2>1, <2>2 DEF Successive
  <2>4. j = 1 \/ 1 < j
    BY <1>1
  <2>5. q[1].day <= q[j].day
    BY <1>1, <2>1, <2>4 DEF Successive
  <2> QED
    BY <1>7, <2>1, <2>3, <2>5 DEF EndedBefore
<1>8. ASSUME NEW p \in Ren!FindRenewedEmergencies, NEW q \in Ren!FindRenewedEmergencies, p # q
      PROVE  Ren!ActsOf(p) \cap Ren!ActsOf(q) = {}
  <2> SUFFICES ASSUME NEW a \in Ren!ActsOf(p), a \in Ren!ActsOf(q) PROVE FALSE
    OBVIOUS
  <2>1. PICK i \in 1 .. Len(p) : a \in p[i].acts
    BY <1>1 DEF Ren!ActsOf
  <2>2. PICK j \in 1 .. Len(q) : a \in q[j].acts
    BY <1>1 DEF Ren!ActsOf
  <2>3. p[i] \in Deals /\ q[j] \in Deals /\ p[i].day \in Nat /\ q[j].day \in Nat
    BY <1>1
  <2>4. p[i] = q[j]
    BY <1>2, <2>1, <2>2, <2>3
  <2>5. p[1].suppliers = q[1].suppliers /\ p[1].organ = q[1].organ
    BY <1>1, <2>4
  <2>6. EndedBefore(p, q) \/ EndedBefore(q, p)
    BY <1>6, <1>8, <2>5
  <2>7. p[i].day < q[j].day \/ q[j].day < p[i].day
    BY <1>7, <2>6
  <2> QED
    BY <2>3, <2>4, <2>7
<1>9. ASSUME NEW q \in Ren!FindRenewedEmergencies
      PROVE  /\ \A i \in 1 .. Len(q) - 1 :
                  q[i + 1].day - q[i].day \in Ren!MinEmergencyRenewalGap .. Ren!MaxEmergencyRenewalGap
             /\ \A i, j \in DOMAIN q : i # j => q[i].acts \cap q[j].acts = {}
             /\ \A a, b \in Ren!ActsOf(q) :
                  Ren!Cardinality(Ren!PrivateCNPJs(a.cnpjs)) = 1 /\ Ren!Cardinality(Ren!PrivateCNPJs(b.cnpjs)) = 1
                    => Ren!PrivateCNPJs(a.cnpjs) = Ren!PrivateCNPJs(b.cnpjs)
  BY <1>1, <1>3, <1>4, <1>5
<1>10. ASSUME NEW q \in Ren!FindRenewedEmergencies, NEW p \in Ren!FindRenewedEmergencies, p # q
       PROVE  /\ Ren!ActsOf(p) \cap Ren!ActsOf(q) = {}
              /\ p[1].suppliers = q[1].suppliers /\ p[1].organ = q[1].organ =>
                   \/ q[1].day - p[Len(p)].day > Ren!MaxEmergencyRenewalGap
                   \/ p[1].day - q[Len(q)].day > Ren!MaxEmergencyRenewalGap
  BY <1>6, <1>8, <1>10 DEF EndedBefore, Ren!MaxEmergencyRenewalGap
<1> QED
  BY <1>9, <1>10 DEF Ren!RenewalsAreSuccessive

LEMMA NamedIsSomebody == \A name : <<"nome", name>> # Ren!Nobody
  BY DEF Ren!Nobody

LEMMA FirstHasOneCompany ==
  ASSUME given \subseteq Emergencies, IsFiniteSet(given), NEW q \in Ren!FindRenewedEmergencies
  PROVE  \E x : q[1].suppliers = {x}
<1>1. /\ q \in Seq(Ren!EmergencyContracts) /\ Len(q) >= 2
      /\ \A i \in 1 .. Len(q) : q[i] \in Ren!EmergencyContracts
  BY RenewedIs
<1>2. q[1] \in Ren!EmergencyContracts
  BY <1>1
<1> QED
  BY <1>2, EmergencyContractsAre

LEMMA ActsAreOfTheirCompany ==
  ASSUME given \subseteq Emergencies, IsFiniteSet(given), NEW q \in Ren!FindRenewedEmergencies,
         NEW a \in Ren!ActsOf(q), Ren!EmergencySupplierOf(a) # Ren!Nobody
  PROVE  Ren!EmergencySupplierOf(a) \in q[1].suppliers
<1>1. /\ q \in Seq(Ren!EmergencyContracts)
      /\ \A i \in 1 .. Len(q) : q[i] \in Ren!EmergencyContracts /\ q[i].suppliers = q[1].suppliers
  BY RenewedIs
<1>2. DOMAIN q = 1 .. Len(q)
  BY <1>1
<1>3. PICK i \in 1 .. Len(q) : a \in q[i].acts
  BY <1>2 DEF Ren!ActsOf
<1>4. q[i].suppliers = {Ren!EmergencySupplierOf(b) : b \in q[i].acts} \ {Ren!Nobody}
  BY <1>1, EmergencyContractsAre
<1>5. Ren!EmergencySupplierOf(a) \in q[i].suppliers
  BY <1>3, <1>4
<1> QED
  BY <1>1, <1>5

LEMMA AmbiguousHold ==
  ASSUME given \subseteq Emergencies, IsFiniteSet(given)
  PROVE  Ren!AmbiguousNamesAccuseNobody
<1> SUFFICES ASSUME NEW q \in Ren!FindRenewedEmergencies, NEW a \in Ren!ActsOf(q),
                    Ren!PrivateCNPJs(a.cnpjs) = {}, a.name # "", Ren!Cardinality(Ren!AliasCandidates(a.name)) > 1
             PROVE  q[1].suppliers = {<<"nome", a.name>>}
  BY Zenon DEF Ren!AmbiguousNamesAccuseNobody
<1> DEFINE who == Ren!EmergencySupplierOf(a)
<1>1. who = <<"nome", a.name>>
  BY SupplierOfMany, Zenon
<1>2. who # Ren!Nobody
  BY <1>1, NamedIsSomebody, Zenon
<1>3. who \in q[1].suppliers
  BY <1>2, ActsAreOfTheirCompany, Zenon
<1>4. \E x : q[1].suppliers = {x}
  BY FirstHasOneCompany, Zenon
<1>5. q[1].suppliers = {who}
  BY <1>3, <1>4, Zenon
<1> QED
  BY <1>1, <1>5, Zenon

-----------------------------------------------------------------------------
(***************************************************************************)
(* What is paid.  A load drops the reports that are told and disturbs the  *)
(* ones it comes between the statements of; what the others say is of the  *)
(* base as it is.                                                          *)
(***************************************************************************)
PaidRows == UNION {load.rows : load \in YearLoads}
MuralRows == UNION Murals

SpendingFields ==
  {"of", "q", "offset", "at", "disturbed", "keys", "totals", "years", "entities", "suppliers", "page", "control",
   "tenders", "contracts", "contractPage"}

SpelledFor(spellings, key) == \A s \in spellings : \E c \in PaidRows : c.process.spelled = s /\ c.process.key = key

\* What a report of payments is at any time, whatever was loaded since it was asked.
PaymentsForm(r) ==
  /\ r.at \in {"spellings", "totals", "years", "entities", "suppliers", "page", "control", "told"}
  /\ r.q.key # Spe!Unsaid => SpelledFor(r.keys, r.q.key) /\ \A i \in DOMAIN r.page : r.page[i].process.key = r.q.key
  /\ r.at = "control" \/ r.control # {} => Spe!OnlyYears(r.q)
  /\ r.at # "told" => r.control = {}

SpendingForm(r) ==
  /\ DOMAIN r = SpendingFields /\ r.disturbed \in BOOLEAN /\ r.offset \in Nat
  /\ IF r.of = "payments" THEN PaymentsForm(r) ELSE r.at \in {"keys", "tenders", "page", "contracts", "contract page", "told"}

\* What a report of payments that no load disturbed says of the base.
SaysOfTheBase(r) ==
  /\ r.q.key # Spe!Unsaid /\ r.at # "spellings" => r.keys = Spe!ProcessSpellings(r.q.key)
  /\ r.at \notin {"spellings", "totals"} => r.totals = Spe!SpendingSums(Spe!Paid(r.q, r.keys))
  /\ r.at \in {"entities", "suppliers", "page", "control"} \/ r.control # {} =>
       r.years = Spe!PaymentYears(Spe!Paid(r.q, r.keys))
  /\ \A c \in r.control : c[1] \in DOMAIN r.years

SpendingBase == given \subseteq PaidRows \cup MuralRows /\ IsFiniteSet(given)

SpendingTopic ==
  topic = "spending" =>
    /\ SpendingBase
    /\ \A r \in beside : SpendingForm(r) /\ (r.of = "payments" /\ ~r.disturbed => SaysOfTheBase(r))

LEMMA SpeCardinality == \A S : Spe!Cardinality(S) = Cardinality(S)
  BY ZenonT(30) DEF Spe!Cardinality, Cardinality

LEMMA CommitmentsAre ==
  ASSUME SpendingBase
  PROVE  Spe!commitments = given \cap PaidRows
<1>1. \A c \in PaidRows : c.is = "commitment"
  BY AnswersAssumption DEF PaidRows
<1>2. \A p \in MuralRows : p.is # "commitment"
  BY AnswersAssumption DEF MuralRows
<1> QED
  BY <1>1, <1>2 DEF SpendingBase, Spe!commitments

\* A spelling is of one process, of whatever load.
LEMMA SpelledOnce ==
  ASSUME NEW c \in PaidRows, NEW key, NEW spellings, SpelledFor(spellings, key), c.process.spelled \in spellings
  PROVE  c.process.key = key
<1>1. PICK d \in PaidRows : d.process.spelled = c.process.spelled /\ d.process.key = key
  BY DEF SpelledFor
<1> QED
  BY <1>1, AnswersAssumption DEF PaidRows

LEMMA SpellingsAreOfTheirKey ==
  ASSUME SpendingBase, NEW key
  PROVE  SpelledFor(Spe!ProcessSpellings(key), key)
<1> SUFFICES ASSUME NEW s \in Spe!ProcessSpellings(key)
             PROVE  \E c \in PaidRows : c.process.spelled = s /\ c.process.key = key
  BY DEF SpelledFor
<1>1. PICK c \in Spe!commitments : c.process.key = key /\ s = c.process.spelled
  BY DEF Spe!ProcessSpellings
<1>2. c \in PaidRows
  BY CommitmentsAre
<1> QED
  BY <1>1, <1>2

\* A page has rows of what it is a page of.
LEMMA PagesHaveTheirRows ==
  ASSUME NEW S, IsFiniteSet(S), NEW offset \in Nat, NEW page \in Spe!PagesOf(S, Spe!CommitmentBefore, offset)
  PROVE  \A i \in DOMAIN page : page[i] \in S
<1>1. PICK s \in Spe!SetToSeqs(S) :
        page = SubSeq(s, offset + 1, IF offset + PageSize < Len(s) THEN offset + PageSize ELSE Len(s))
  BY Zenon DEF Spe!PagesOf
<1>2. s \in [1..Cardinality(S) -> S] /\ Cardinality(S) \in Nat
  <2>1. s \in [1..Spe!Cardinality(S) -> S]
    BY Zenon DEF Spe!SetToSeqs
  <2> QED
    BY <2>1, SpeCardinality, FS_CardinalityType
<1>3. s \in Seq(S) /\ Len(s) \in Nat /\ DOMAIN s = 1..Len(s)
  BY <1>2
<1> DEFINE last == IF offset + PageSize < Len(s) THEN offset + PageSize ELSE Len(s)
<1>4. last \in Nat /\ last <= Len(s)
  BY <1>3, AnswersAssumption
<1>5. page = SubSeq(s, offset + 1, last)
  BY <1>1
<1> HIDE DEF last
<1>6. \A i \in DOMAIN page : offset + i \in DOMAIN s /\ page[i] = s[offset + i]
  BY <1>3, <1>4, <1>5
<1> QED
  BY <1>2, <1>6

\* What the next statement of a report of payments leaves as it was, and what it says.
LEMMA PaymentStatementSays ==
  ASSUME SpendingBase, NEW r, SpendingForm(r), r.of = "payments", r.at # "told", NEW s \in Spe!PaymentStatements(r)
  PROVE  /\ SpendingForm(s) /\ s.of = r.of /\ s.disturbed = r.disturbed
         /\ SaysOfTheBase(r) => SaysOfTheBase(s)
<1> DEFINE S == Spe!Paid(r.q, r.keys)
<1>0. DOMAIN r = SpendingFields /\ PaymentsForm(r) /\ r.offset \in Nat /\ r.disturbed \in BOOLEAN
  BY DEF SpendingForm
<1>1. CASE r.at = "spellings"
  <2>1. s = [r EXCEPT !.keys = Spe!ProcessSpellings(r.q.key), !.at = "totals"]
    BY <1>1, Zenon DEF Spe!PaymentStatements
  <2>2. /\ DOMAIN s = SpendingFields /\ s.of = r.of /\ s.disturbed = r.disturbed /\ s.offset = r.offset /\ s.q = r.q
        /\ s.page = r.page /\ s.control = r.control /\ s.keys = Spe!ProcessSpellings(r.q.key) /\ s.at = "totals"
    BY <1>0, <2>1 DEF SpendingFields
  <2>3. SpelledFor(Spe!ProcessSpellings(r.q.key), r.q.key)
    BY SpellingsAreOfTheirKey
  <2>4. SpendingForm(s)
    BY <1>0, <1>1, <2>2, <2>3 DEF SpendingForm, PaymentsForm
  <2>5. SaysOfTheBase(s)
    BY <1>0, <1>1, <2>2 DEF SaysOfTheBase, PaymentsForm
  <2> QED
    BY <2>2, <2>4, <2>5
<1>2. CASE r.at = "totals"
  <2>1. \E at \in {"told", "years"} : s = [r EXCEPT !.totals = Spe!SpendingSums(S), !.at = at]
    BY <1>2, Zenon DEF Spe!PaymentStatements
  <2>2. /\ DOMAIN s = SpendingFields /\ s.of = r.of /\ s.disturbed = r.disturbed /\ s.offset = r.offset /\ s.q = r.q
        /\ s.page = r.page /\ s.control = r.control /\ s.keys = r.keys /\ s.totals = Spe!SpendingSums(S)
        /\ s.at \in {"told", "years"}
    BY <1>0, <2>1 DEF SpendingFields
  <2> HIDE DEF S
  <2>3. SpendingForm(s)
    BY <1>0, <1>2, <2>2 DEF SpendingForm, PaymentsForm
  <2>4. SaysOfTheBase(r) => SaysOfTheBase(s)
    BY <1>0, <1>2, <2>2 DEF SaysOfTheBase, PaymentsForm, S
  <2> QED
    BY <2>2, <2>3, <2>4
<1>3. CASE r.at = "years"
  <2>1. s = [r EXCEPT !.years = Spe!PaymentYears(S), !.at = "entities"]
    BY <1>3, Zenon DEF Spe!PaymentStatements
  <2>2. /\ DOMAIN s = SpendingFields /\ s.of = r.of /\ s.disturbed = r.disturbed /\ s.offset = r.offset /\ s.q = r.q
        /\ s.page = r.page /\ s.control = r.control /\ s.keys = r.keys /\ s.totals = r.totals
        /\ s.years = Spe!PaymentYears(S) /\ s.at = "entities"
    BY <1>0, <2>1 DEF SpendingFields
  <2> HIDE DEF S
  <2>3. SpendingForm(s)
    BY <1>0, <1>3, <2>2 DEF SpendingForm, PaymentsForm
  <2>4. SaysOfTheBase(r) => SaysOfTheBase(s)
    BY <1>0, <1>3, <2>2 DEF SaysOfTheBase, PaymentsForm, S
  <2> QED
    BY <2>2, <2>3, <2>4
<1>4. CASE r.at \in {"entities", "suppliers"}
  <2>1. \/ \E entities : s = [r EXCEPT !.entities = entities, !.at = "suppliers"]
        \/ \E suppliers : s = [r EXCEPT !.suppliers = suppliers, !.at = "page"]
    <3>1. CASE r.at = "entities"
      BY <3>1, Zenon DEF Spe!PaymentStatements
    <3>2. CASE r.at = "suppliers"
      BY <3>2, Zenon DEF Spe!PaymentStatements
    <3> QED
      BY <1>4, <3>1, <3>2
  <2>2. /\ DOMAIN s = SpendingFields /\ s.of = r.of /\ s.disturbed = r.disturbed /\ s.offset = r.offset /\ s.q = r.q
        /\ s.page = r.page /\ s.control = r.control /\ s.keys = r.keys /\ s.totals = r.totals /\ s.years = r.years
        /\ s.at \in {"suppliers", "page"}
    BY <1>0, <2>1 DEF SpendingFields
  <2>3. SpendingForm(s)
    BY <1>0, <1>4, <2>2 DEF SpendingForm, PaymentsForm
  <2>4. SaysOfTheBase(r) => SaysOfTheBase(s)
    BY <1>0, <1>4, <2>2 DEF SaysOfTheBase, PaymentsForm
  <2> QED
    BY <2>2, <2>3, <2>4
<1>5. CASE r.at = "page"
  <2>1. PICK page \in Spe!PagesOf(S, Spe!CommitmentBefore, r.offset) :
          s = [r EXCEPT !.page = page, !.at = IF Spe!OnlyYears(r.q) THEN "control" ELSE "told"]
    BY <1>5, Zenon DEF Spe!PaymentStatements
  <2>2. /\ DOMAIN s = SpendingFields /\ s.of = r.of /\ s.disturbed = r.disturbed /\ s.offset = r.offset /\ s.q = r.q
        /\ s.page = page /\ s.control = r.control /\ s.keys = r.keys /\ s.totals = r.totals /\ s.years = r.years
        /\ s.at \in {"control", "told"} /\ (s.at = "control" => Spe!OnlyYears(r.q))
    BY <1>0, <2>1 DEF SpendingFields
  <2>3. \A i \in DOMAIN page : page[i] \in S
    <3>1. S \subseteq given
      BY CommitmentsAre DEF Spe!Paid
    <3>2. IsFiniteSet(S)
      BY <3>1, FS_Subset DEF SpendingBase
    <3> HIDE DEF S
    <3> QED
      BY <1>0, <2>1, <3>2, PagesHaveTheirRows
  <2>4. ASSUME r.q.key # Spe!Unsaid, NEW i \in DOMAIN page PROVE page[i].process.key = r.q.key
    <3>1. page[i] \in Spe!commitments /\ page[i].process.spelled \in r.keys
      BY <2>3, <2>4 DEF Spe!Paid
    <3>2. page[i] \in PaidRows
      BY <3>1, CommitmentsAre
    <3>3. SpelledFor(r.keys, r.q.key)
      BY <1>0, <2>4 DEF PaymentsForm
    <3> QED
      BY <3>1, <3>2, <3>3, SpelledOnce
  <2> HIDE DEF S
  <2>5. SpendingForm(s)
    BY <1>0, <1>5, <2>2, <2>4 DEF SpendingForm, PaymentsForm
  <2>6. SaysOfTheBase(r) => SaysOfTheBase(s)
    BY <1>0, <1>5, <2>2 DEF SaysOfTheBase, PaymentsForm
  <2> QED
    BY <2>2, <2>5, <2>6
<1>6. CASE r.at = "control"
  <2>1. s = [r EXCEPT !.control = Spe!WithFiscalControl(r.years), !.at = "told"]
    BY <1>6, Zenon DEF Spe!PaymentStatements
  <2>2. /\ DOMAIN s = SpendingFields /\ s.of = r.of /\ s.disturbed = r.disturbed /\ s.offset = r.offset /\ s.q = r.q
        /\ s.page = r.page /\ s.keys = r.keys /\ s.totals = r.totals /\ s.years = r.years
        /\ s.control = Spe!WithFiscalControl(r.years) /\ s.at = "told"
    BY <1>0, <2>1 DEF SpendingFields
  <2>3. \A c \in Spe!WithFiscalControl(r.years) : c[1] \in DOMAIN r.years
    BY DEF Spe!WithFiscalControl
  <2>4. SpendingForm(s)
    BY <1>0, <1>6, <2>2 DEF SpendingForm, PaymentsForm
  <2>5. SaysOfTheBase(r) => SaysOfTheBase(s)
    BY <1>0, <1>6, <2>2, <2>3 DEF SaysOfTheBase, PaymentsForm
  <2> QED
    BY <2>2, <2>4, <2>5
<1> QED
  BY <1>0, <1>1, <1>2, <1>3, <1>4, <1>5, <1>6 DEF PaymentsForm

\* A statement of a report of procurements leaves it one.
LEMMA ProcurementStatementForm ==
  ASSUME NEW r, SpendingForm(r), r.of # "payments", r.at # "told", NEW s \in Spe!ProcurementStatements(r)
  PROVE  SpendingForm(s) /\ s.of = r.of
<1>1. \/ \E keys : \E at \in {"told", "tenders"} : s = [r EXCEPT !.keys = keys, !.at = at]
      \/ \E tenders : s = [r EXCEPT !.tenders = tenders, !.at = "page"]
      \/ \E page : s = [r EXCEPT !.page = page, !.at = "contracts"]
      \/ \E contracts : s = [r EXCEPT !.contracts = contracts, !.at = "contract page"]
      \/ \E page : s = [r EXCEPT !.contractPage = page, !.at = "told"]
  <2>1. CASE r.at = "keys"
    BY <2>1, Zenon DEF Spe!ProcurementStatements
  <2>2. CASE r.at = "tenders"
    BY <2>2, Zenon DEF Spe!ProcurementStatements
  <2>3. CASE r.at = "page"
    BY <2>3, Zenon DEF Spe!ProcurementStatements
  <2>4. CASE r.at = "contracts"
    BY <2>4, Zenon DEF Spe!ProcurementStatements
  <2>5. CASE r.at = "contract page"
    BY <2>5, Zenon DEF Spe!ProcurementStatements
  <2> QED
    BY <2>1, <2>2, <2>3, <2>4, <2>5 DEF SpendingForm
<1> QED
  BY <1>1 DEF SpendingForm, SpendingFields

\* A load leaves only reports under way, those it disturbs and those it does not.
LEMMA DisturbedOnes ==
  ASSUME NEW kinds, NEW r \in Spe!Disturbing(kinds), \A t \in beside : SpendingForm(t)
  PROVE  \E t \in beside :
           /\ SpendingForm(r)
           /\ r.of \in kinds => r.disturbed
           /\ r.of \notin kinds => r.of = t.of /\ r.disturbed = t.disturbed /\ (SaysOfTheBase(t) => SaysOfTheBase(r))
<1>1. PICK t \in beside : r = [t EXCEPT !.disturbed = t.disturbed \/ t.of \in kinds]
  BY Zenon DEF Spe!Disturbing
<1>2. PICK b \in BOOLEAN : b = (t.disturbed \/ t.of \in kinds)
  OBVIOUS
<1>3. SpendingForm(t)
  OBVIOUS
<1>4. r = [t EXCEPT !.disturbed = b]
  BY <1>1, <1>2, Zenon
<1>5. SpendingForm(r) /\ r.of = t.of /\ r.disturbed = b
  BY <1>3, <1>4 DEF SpendingForm, SpendingFields, PaymentsForm
<1>6. ASSUME t.of \notin kinds PROVE b = t.disturbed
  BY <1>2, <1>3, <1>6, Zenon DEF SpendingForm
<1>7. r.q = t.q /\ r.at = t.at /\ r.keys = t.keys /\ r.totals = t.totals /\ r.years = t.years /\ r.control = t.control
  BY <1>3, <1>4 DEF SpendingForm, SpendingFields
<1>8. SaysOfTheBase(t) => SaysOfTheBase(r)
  BY <1>7 DEF SaysOfTheBase
<1> QED
  BY <1>2, <1>5, <1>6, <1>8

LEMMA SpendingHolds == DomainSpec => []SpendingTopic
<1>1. DomainInit => SpendingTopic
  BY FS_EmptySet DEF DomainInit, SpendingTopic, SpendingBase
<1>2. SpendingTopic /\ [DomainNext]_DomainVars => SpendingTopic'
  <2> SUFFICES ASSUME SpendingTopic, [DomainNext]_DomainVars, topic' = "spending" PROVE SpendingTopic'
    BY DEF SpendingTopic
  <2>1. topic = "spending"
    BY SameTopic
  <2>2. SpendingBase
    BY <2>1 DEF SpendingTopic
  <2>3. \A r \in beside : SpendingForm(r) /\ (r.of = "payments" /\ ~r.disturbed => SaysOfTheBase(r))
    BY <2>1 DEF SpendingTopic
  <2>4. ASSUME Spe!commitments' = Spe!commitments, NEW r, SaysOfTheBase(r) PROVE SaysOfTheBase(r)'
    <3>1. Spe!ProcessSpellings(r.q.key)' = Spe!ProcessSpellings(r.q.key) /\ Spe!Paid(r.q, r.keys)' = Spe!Paid(r.q, r.keys)
      BY <2>4, Zenon DEF Spe!ProcessSpellings, Spe!Paid
    <3>2. /\ Spe!SpendingSums(Spe!Paid(r.q, r.keys))' = Spe!SpendingSums(Spe!Paid(r.q, r.keys))
          /\ Spe!PaymentYears(Spe!Paid(r.q, r.keys))' = Spe!PaymentYears(Spe!Paid(r.q, r.keys))
      BY <3>1
    <3> QED
      BY <2>4, <3>1, <3>2 DEF SaysOfTheBase
  <2>5. ASSUME given' = given, NEW r \in beside', SpendingForm(r), r.of = "payments" /\ ~r.disturbed => SaysOfTheBase(r)
        PROVE  SpendingForm(r)' /\ (r.of = "payments" /\ ~r.disturbed => SaysOfTheBase(r)')
    <3>1. Spe!commitments' = Spe!commitments
      BY <2>5 DEF Spe!commitments
    <3> QED
      BY <2>4, <2>5, <3>1
  <2>6. CASE UNCHANGED DomainVars
    <3>1. given' = given /\ beside' = beside
      BY <2>6 DEF DomainVars
    <3> QED
      BY <2>2, <2>3, <2>5, <3>1 DEF SpendingTopic, SpendingBase
  <2>7. CASE DomainNext
    <3>1. Spe!Next
      BY <2>1, <2>7 DEF DomainNext
    <3>2. CASE \E load \in YearLoads : Spe!ReplaceMunicipalYear(load)
      <4>1. PICK load \in YearLoads : Spe!ReplaceMunicipalYear(load)
        BY <3>2
      <4>2. SpendingBase'
        <5>1. load.rows \subseteq PaidRows /\ IsFiniteSet(load.rows)
          BY AnswersAssumption DEF PaidRows
        <5>2. PICK kept \in SUBSET given : given' = kept \cup load.rows
          BY <4>1 DEF Spe!ReplaceMunicipalYear
        <5>3. IsFiniteSet(kept)
          BY <2>2, <5>2, FS_Subset DEF SpendingBase
        <5> QED
          BY <2>2, <5>1, <5>2, <5>3, FS_Union DEF SpendingBase
      <4>3. ASSUME NEW r \in beside' PROVE SpendingForm(r) /\ (r.of = "payments" => r.disturbed)
        <5>0. PICK kinds : kinds = {"payments", "procurements"}
          OBVIOUS
        <5>1. r \in Spe!Disturbing(kinds)
          BY <4>1, <4>3, <5>0 DEF Spe!ReplaceMunicipalYear
        <5>2. \A t \in beside : SpendingForm(t)
          BY <2>3
        <5>3. SpendingForm(r) /\ (r.of \in kinds => r.disturbed)
          BY <5>1, <5>2, DisturbedOnes
        <5> QED
          BY <5>0, <5>3
      <4> QED
        BY <4>2, <4>3 DEF SpendingTopic
    <3>3. CASE \E rows \in Murals : Spe!ReplaceMural(rows)
      <4>1. PICK rows \in Murals : Spe!ReplaceMural(rows)
        BY <3>3
      <4>2. rows \subseteq MuralRows /\ IsFiniteSet(rows) /\ \A p \in rows : p.is # "commitment"
        BY AnswersAssumption DEF MuralRows
      <4>3. given' = Spe!commitments \cup rows
        BY <4>1 DEF Spe!ReplaceMural
      <4>4. SpendingBase'
        <5>1. Spe!commitments \subseteq given
          BY DEF Spe!commitments
        <5>2. IsFiniteSet(Spe!commitments)
          BY <2>2, <5>1, FS_Subset DEF SpendingBase
        <5> QED
          BY <2>2, <4>2, <4>3, <5>1, <5>2, FS_Union DEF SpendingBase
      <4>5. Spe!commitments' = Spe!commitments
        BY <4>2, <4>3 DEF Spe!commitments
      <4>6. ASSUME NEW r \in beside'
            PROVE  SpendingForm(r) /\ (r.of = "payments" /\ ~r.disturbed => SaysOfTheBase(r))
        <5>0. PICK kinds : kinds = {"procurements"}
          OBVIOUS
        <5>1. r \in Spe!Disturbing(kinds)
          BY <4>1, <4>6, <5>0 DEF Spe!ReplaceMural
        <5>2. \A t \in beside : SpendingForm(t)
          BY <2>3
        <5>3. PICK t \in beside :
                /\ SpendingForm(r)
                /\ r.of \notin kinds => r.of = t.of /\ r.disturbed = t.disturbed /\ (SaysOfTheBase(t) => SaysOfTheBase(r))
          BY <5>1, <5>2, DisturbedOnes
        <5> QED
          BY <2>3, <5>0, <5>3
      <4>7. ASSUME NEW r \in beside', r.of = "payments", ~r.disturbed PROVE SaysOfTheBase(r)'
        BY <2>4, <4>5, <4>6, <4>7
      <4> QED
        BY <4>4, <4>6, <4>7 DEF SpendingTopic
    <3>4. CASE Spe!Ask
      <4>0. PICK offset \in {0, PageSize} : \E q :
              beside' = {Spe!AskPayments(q, offset)} \/ beside' = {Spe!AskProcurements(q, offset)}
        BY <3>4, Zenon DEF Spe!Ask
      <4>1. PICK q : beside' = {Spe!AskPayments(q, offset)} \/ beside' = {Spe!AskProcurements(q, offset)}
        BY <4>0
      <4>2. given' = given
        BY <3>4 DEF Spe!Ask
      <4>3. offset \in Nat
        BY AnswersAssumption
      <4>4. PICK r : beside' = {r} /\ (r = Spe!AskPayments(q, offset) \/ r = Spe!AskProcurements(q, offset))
        BY <4>1
      <4>5. PICK of \in {"payments", "procurements"}, at \in {"spellings", "keys", "totals", "tenders"} :
              /\ r = Spe!Asked(of, q, offset, at)
              /\ of = "payments" => at \in {"spellings", "totals"} /\ (q.key # Spe!Unsaid => at = "spellings")
              /\ of = "procurements" => at \in {"keys", "tenders"}
        BY <4>4 DEF Spe!AskPayments, Spe!AskProcurements
      <4>6. /\ DOMAIN r = SpendingFields /\ r.of = of /\ r.q = q /\ r.at = at /\ r.offset = offset
            /\ r.disturbed = FALSE /\ r.keys = {} /\ DOMAIN r.page = {} /\ r.control = {}
        BY <4>5 DEF Spe!Asked, SpendingFields
      <4>7. SpendingForm(r)
        <5>1. CASE of = "payments"
          <6>1. SpelledFor(r.keys, r.q.key) /\ \A i \in DOMAIN r.page : r.page[i].process.key = r.q.key
            BY <4>6 DEF SpelledFor
          <6>2. PaymentsForm(r)
            BY <4>5, <4>6, <5>1, <6>1 DEF PaymentsForm
          <6> QED
            BY <4>3, <4>6, <5>1, <6>2 DEF SpendingForm
        <5>2. CASE of = "procurements"
          BY <4>3, <4>5, <4>6, <5>2 DEF SpendingForm
        <5> QED
          BY <5>1, <5>2
      <4>8. r.of = "payments" => SaysOfTheBase(r)
        BY <4>5, <4>6 DEF SaysOfTheBase
      <4> QED
        BY <2>2, <2>5, <4>2, <4>4, <4>7, <4>8 DEF SpendingTopic, SpendingBase
    <3>5. CASE Spe!Read
      <4>0. PICK r \in beside :
              /\ r.at # "told"
              /\ \E s \in (IF r.of = "payments" THEN Spe!PaymentStatements(r) ELSE Spe!ProcurementStatements(r)) :
                   beside' = {s}
        BY <3>5, Zenon DEF Spe!Read
      <4>1. PICK s \in (IF r.of = "payments" THEN Spe!PaymentStatements(r) ELSE Spe!ProcurementStatements(r)) :
              r.at # "told" /\ beside' = {s}
        BY <4>0
      <4>2. given' = given
        BY <3>5 DEF Spe!Read
      <4>3. SpendingForm(s) /\ (s.of = "payments" /\ ~s.disturbed => SaysOfTheBase(s))
        <5>1. CASE r.of = "payments"
          BY <2>2, <2>3, <4>1, <5>1, PaymentStatementSays
        <5>2. CASE r.of # "payments"
          BY <2>3, <4>1, <5>2, ProcurementStatementForm
        <5> QED
          BY <5>1, <5>2
      <4> QED
        BY <2>2, <2>5, <4>1, <4>2, <4>3 DEF SpendingTopic, SpendingBase
    <3> QED
      BY <3>1, <3>2, <3>3, <3>4, <3>5 DEF Spe!Next
  <2> QED
    BY <2>6, <2>7
<1> QED
  BY <1>1, <1>2, PTL DEF DomainSpec

\* A process is found with every commitment of it, and no commitment of another is
\* listed as of it, whatever is loaded meanwhile.
LEMMA ProcessesHold ==
  ASSUME SpendingTopic, topic = "spending"
  PROVE  Spe!ProcessHasAllItsCommitments
<1> SUFFICES ASSUME NEW r \in beside, r.of = "payments", r.q.key # Spe!Unsaid
             PROVE  /\ r \in Spe!Told("payments") /\ r.q = [Spe!Anything EXCEPT !.key = r.q.key] =>
                         r.totals = Spe!SpendingSums({d \in Spe!commitments : d.process.key = r.q.key})
                    /\ \A i \in DOMAIN r.page : r.page[i].process.key = r.q.key
  BY Zenon DEF Spe!ProcessHasAllItsCommitments
<1>1. SpendingBase /\ PaymentsForm(r)
  BY DEF SpendingTopic, SpendingForm
<1>2. \A i \in DOMAIN r.page : r.page[i].process.key = r.q.key
  BY <1>1 DEF PaymentsForm
<1>3. ASSUME r \in Spe!Told("payments"), r.q = [Spe!Anything EXCEPT !.key = r.q.key]
      PROVE  r.totals = Spe!SpendingSums({d \in Spe!commitments : d.process.key = r.q.key})
  <2>1. r.at = "told" /\ SaysOfTheBase(r)
    BY <1>3 DEF Spe!Told, SpendingTopic
  <2>2. r.keys = Spe!ProcessSpellings(r.q.key) /\ r.totals = Spe!SpendingSums(Spe!Paid(r.q, r.keys))
    BY <2>1 DEF SaysOfTheBase
  <2>3. r.q.cnpj = 0 /\ r.q.entity = 0 /\ r.q.text = Spe!Unsaid /\ r.q.from = 0 /\ r.q.to = 0
    BY <1>3 DEF Spe!Anything
  <2>4. Spe!Paid(r.q, r.keys) = {d \in Spe!commitments : d.process.spelled \in r.keys}
    BY <2>3 DEF Spe!Paid, Spe!InYears
  <2>5. ASSUME NEW d \in Spe!commitments PROVE d.process.spelled \in r.keys <=> d.process.key = r.q.key
    <3>1. d.process.key = r.q.key => d.process.spelled \in r.keys
      BY <2>2 DEF Spe!ProcessSpellings
    <3>2. d \in PaidRows
      BY <1>1, CommitmentsAre
    <3>3. SpelledFor(r.keys, r.q.key)
      BY <1>1 DEF PaymentsForm
    <3> QED
      BY <3>1, <3>2, <3>3, SpelledOnce
  <2>6. Spe!Paid(r.q, r.keys) = {d \in Spe!commitments : d.process.key = r.q.key}
    BY <2>4, <2>5
  <2> QED
    BY <2>2, <2>6
<1> QED
  BY <1>2, <1>3

\* What stands beside the sum of a year is of all that was paid in it.
LEMMA ControlHolds ==
  ASSUME SpendingTopic, topic = "spending"
  PROVE  Spe!ControlIsOfTheWholeYear
<1> SUFFICES ASSUME NEW r \in Spe!Told("payments"), NEW control \in r.control
             PROVE  r.years[control[1]] = Spe!SpendingSums({c \in Spe!commitments : c.year = control[1]})
  BY Zenon DEF Spe!ControlIsOfTheWholeYear
<1> DEFINE S == Spe!Paid(r.q, r.keys)
           year == control[1]
<1>1. SaysOfTheBase(r) /\ PaymentsForm(r)
  BY DEF Spe!Told, SpendingTopic, SpendingForm
<1>2. Spe!OnlyYears(r.q) /\ r.years = Spe!PaymentYears(S) /\ year \in DOMAIN r.years
  BY <1>1 DEF SaysOfTheBase, PaymentsForm
<1>3. PICK d \in S : d.year = year
  BY <1>2 DEF Spe!PaymentYears
<1>4. r.years[year] = Spe!SpendingSums({c \in S : c.year = year})
  BY <1>2 DEF Spe!PaymentYears
<1>5. r.q.cnpj = 0 /\ r.q.entity = 0 /\ r.q.text = Spe!Unsaid /\ r.q.key = Spe!Unsaid
  BY <1>2 DEF Spe!OnlyYears, Spe!Anything
<1>6. S = {c \in Spe!commitments : Spe!InYears(c.year, r.q)}
  BY <1>5 DEF Spe!Paid
<1>7. {c \in S : c.year = year} = {c \in Spe!commitments : c.year = year}
  BY <1>3, <1>6
<1> QED
  BY <1>4, <1>7

-----------------------------------------------------------------------------
(***************************************************************************)
(* Reports.  As long as no save disturbed it, a report tells of the acts   *)
(* that are there.                                                         *)
(***************************************************************************)
LEMMA RepCardinality == \A S : Rep!Cardinality(S) = Cardinality(S)
  BY ZenonT(30) DEF Rep!Cardinality, Cardinality

SourcesIn(S) == {a.source : a \in S}
OrgansIn(S) == {Rep!PrincipalOrgan(a.organ) : a \in S}

ToldFields == {"q", "at", "changes", "certainty", "sources", "acts", "types", "total", "organs", "phases",
               "related", "processes", "without", "count", "sum", "cents"}
BeforeOrgans == {"acts", "types", "organs"}
AfterOrgans == {"related", "processes", "totals", "cents", "told"}

ReportForm(r) ==
  /\ DOMAIN r = ToldFields /\ r.at \in BeforeOrgans \cup AfterOrgans
  /\ r.q.kind = "cnpj" => r.certainty # "fraca"

\* What a report says of the acts S that are asked for.
Tells(r, S) ==
  /\ r.acts \subseteq S
  /\ r.acts # {} \/ r.at # "told" => r.sources = Cardinality(SourcesIn(S))
  /\ r.acts # {} /\ r.at \in AfterOrgans => DOMAIN r.organs = OrgansIn(S)

ReportsTopic ==
  topic = "reports" =>
    /\ IsFiniteSet(given)
    /\ \A r \in beside : ReportForm(r) /\ (r.changes = "none" => Tells(r, Rep!ActsOf(r.q)))

\* What the next statement leaves as it was, and what it says.
LEMMA NextStatement ==
  ASSUME NEW r, ReportForm(r), r.at # "told"
  PROVE  LET s == Rep!ReadNext(r)
         IN  /\ DOMAIN s = ToldFields /\ s.at \in BeforeOrgans \cup AfterOrgans
             /\ s.q = r.q /\ s.changes = r.changes /\ s.certainty = r.certainty /\ s.sources = r.sources
             /\ s.acts = IF r.at = "acts" THEN Rep!Newest(Rep!ActsOf(r.q), Rep!ReportActsLimit(r.q.kind)) ELSE r.acts
             /\ s.organs = IF r.at = "organs" THEN Rep!CountBy(LAMBDA a : Rep!PrincipalOrgan(a.organ), Rep!Links(r.q))
                           ELSE r.organs
             /\ s.at \in AfterOrgans => r.at = "organs" \/ r.at \in AfterOrgans
<1>1. CASE r.at = "acts"
  <2>1. Rep!ReadNext(r) = [r EXCEPT !.acts = Rep!Newest(Rep!ActsOf(r.q), Rep!ReportActsLimit(r.q.kind)), !.at = "types"]
    BY <1>1, Zenon DEF Rep!ReadNext
  <2> QED
    BY <1>1, <2>1 DEF ReportForm, ToldFields, BeforeOrgans, AfterOrgans
<1>2. CASE r.at = "types"
  <2>1. \E types, total : Rep!ReadNext(r) = [r EXCEPT !.types = types, !.total = total, !.at = "organs"]
    BY <1>2, Zenon DEF Rep!ReadNext
  <2> QED
    BY <1>2, <2>1 DEF ReportForm, ToldFields, BeforeOrgans, AfterOrgans
<1>3. CASE r.at = "organs"
  <2>1. \E phases : \E at \in {"processes", "related"} : Rep!ReadNext(r) =
          [r EXCEPT !.organs = Rep!CountBy(LAMBDA a : Rep!PrincipalOrgan(a.organ), Rep!Links(r.q)),
                    !.phases = phases, !.at = at]
    BY <1>3, Zenon DEF Rep!ReadNext
  <2> QED
    BY <1>3, <2>1 DEF ReportForm, ToldFields, BeforeOrgans, AfterOrgans
<1>4. CASE r.at = "related"
  <2>1. \E related : \E at \in {"processes", "cents"} : Rep!ReadNext(r) = [r EXCEPT !.related = related, !.at = at]
    BY <1>4, Zenon DEF Rep!ReadNext
  <2> QED
    BY <1>4, <2>1 DEF ReportForm, ToldFields, BeforeOrgans, AfterOrgans
<1>5. CASE r.at = "processes"
  <2>1. \E processes, without : \E at \in {"totals", "cents"} :
          Rep!ReadNext(r) = [r EXCEPT !.processes = processes, !.without = without, !.at = at]
    BY <1>5, Zenon DEF Rep!ReadNext
  <2> QED
    BY <1>5, <2>1 DEF ReportForm, ToldFields, BeforeOrgans, AfterOrgans
<1>6. CASE r.at = "totals"
  <2>1. \E count, sum : Rep!ReadNext(r) = [r EXCEPT !.count = count, !.sum = sum, !.at = "cents"]
    BY <1>6, Zenon DEF Rep!ReadNext
  <2> QED
    BY <1>6, <2>1 DEF ReportForm, ToldFields, BeforeOrgans, AfterOrgans
<1>7. CASE r.at = "cents"
  <2>1. \E cents : Rep!ReadNext(r) = [r EXCEPT !.cents = cents, !.at = "told"]
    BY <1>7, Zenon DEF Rep!ReadNext
  <2> QED
    BY <1>7, <2>1 DEF ReportForm, ToldFields, BeforeOrgans, AfterOrgans
<1> QED
  BY <1>1, <1>2, <1>3, <1>4, <1>5, <1>6, <1>7 DEF ReportForm, BeforeOrgans, AfterOrgans

LEMMA StatementTells ==
  ASSUME NEW r, ReportForm(r), r.at # "told"
  PROVE  LET s == Rep!ReadNext(r)
         IN  /\ ReportForm(s)
             /\ s.q = r.q /\ s.changes = r.changes
             /\ Tells(r, Rep!ActsOf(r.q)) => Tells(s, Rep!ActsOf(s.q))
<1> DEFINE s == Rep!ReadNext(r)
           S == Rep!ActsOf(r.q)
<1>1. /\ DOMAIN s = ToldFields /\ s.at \in BeforeOrgans \cup AfterOrgans
      /\ s.q = r.q /\ s.changes = r.changes /\ s.certainty = r.certainty /\ s.sources = r.sources
      /\ s.acts = IF r.at = "acts" THEN Rep!Newest(S, Rep!ReportActsLimit(r.q.kind)) ELSE r.acts
      /\ s.organs = IF r.at = "organs" THEN Rep!CountBy(LAMBDA a : Rep!PrincipalOrgan(a.organ), Rep!Links(r.q))
                    ELSE r.organs
      /\ s.at \in AfterOrgans => r.at = "organs" \/ r.at \in AfterOrgans
  BY NextStatement
<1>2. \A n : Rep!Newest(S, n) \subseteq S
  BY DEF Rep!Newest
<1>3. DOMAIN Rep!CountBy(LAMBDA a : Rep!PrincipalOrgan(a.organ), Rep!Links(r.q)) = OrgansIn(S)
  BY DEF Rep!CountBy, OrgansIn, Rep!ActsOf
<1> HIDE DEF s, S
<1>4. ReportForm(s)
  BY <1>1 DEF ReportForm
<1>5. ASSUME Tells(r, S) PROVE Tells(s, S)
  BY <1>1, <1>2, <1>3, <1>5 DEF Tells, AfterOrgans
<1> QED
  BY <1>1, <1>4, <1>5 DEF s, S

LEMMA ReportsHold == DomainSpec => []ReportsTopic
<1>1. DomainInit => ReportsTopic
  BY FS_EmptySet DEF DomainInit, ReportsTopic
<1>2. ReportsTopic /\ [DomainNext]_DomainVars => ReportsTopic'
  <2> SUFFICES ASSUME ReportsTopic, [DomainNext]_DomainVars, topic' = "reports" PROVE ReportsTopic'
    BY DEF ReportsTopic
  <2>1. topic = "reports"
    BY SameTopic
  <2>2. /\ IsFiniteSet(given)
        /\ \A r \in beside : ReportForm(r) /\ (r.changes = "none" => Tells(r, Rep!ActsOf(r.q)))
    BY <2>1 DEF ReportsTopic
  <2>3. CASE UNCHANGED DomainVars
    BY <2>2, <2>3 DEF ReportsTopic, DomainVars, Rep!ActsOf, Rep!Links
  <2>4. CASE DomainNext
    <3>1. Rep!Next
      BY <2>1, <2>4 DEF DomainNext
    <3>2. CASE \E e \in IndexedEditions : Rep!SaveEdition(e)
      <4>1. PICK e \in IndexedEditions : Rep!SaveEdition(e)
        BY <3>2
      <4>2. IsFiniteSet(given')
        <5>1. IsFiniteSet({a \in given : a.gazette # e.gazette}) /\ IsFiniteSet(e.acts)
          BY <2>2, FS_Subset, AnswersAssumption
        <5> QED
          BY <4>1, <5>1, FS_Union DEF Rep!SaveEdition
      <4>3. ASSUME NEW r \in beside' PROVE ReportForm(r) /\ r.changes # "none"
        <5>1. PICK s \in beside : r = Rep!Changed(s, e)
          BY <4>1, <4>3 DEF Rep!SaveEdition
        <5> DEFINE became == IF \E a \in given : a.gazette = e.gazette THEN "redone"
                             ELSE IF s.changes = "none" THEN "grew" ELSE s.changes
        <5>2. r = [s EXCEPT !.changes = became] /\ became # "none"
          BY <5>1 DEF Rep!Changed
        <5> HIDE DEF became
        <5>3. ReportForm(s)
          BY <2>2
        <5> QED
          BY <5>2, <5>3 DEF ReportForm, ToldFields
      <4> QED
        BY <4>2, <4>3 DEF ReportsTopic
    <3>3. CASE \E q \in Questions : Rep!Ask(q)
      <4>1. PICK q \in Questions : Rep!Ask(q)
        BY <3>3
      <4> DEFINE sources == Cardinality(SourcesIn(Rep!ActsOf(q)))
                 asked == [Rep!NothingTold(q) EXCEPT !.at = "acts", !.sources = sources,
                                                    !.certainty = Rep!ReportCertainty(q, sources)]
      <4>2. given' = given /\ (beside' = {Rep!NothingTold(q)} \/ beside' = {asked})
        BY <4>1, RepCardinality, Zenon DEF Rep!Ask, SourcesIn
      <4>3. ReportForm(Rep!NothingTold(q)) /\ Rep!NothingTold(q).q = q /\ Tells(Rep!NothingTold(q), Rep!ActsOf(q))
        <5>1. Rep!NothingTold(q).certainty # "fraca"
          BY Zenon DEF Rep!NothingTold, Rep!Unsaid
        <5> QED
          BY <5>1 DEF ReportForm, Tells, Rep!NothingTold, ToldFields, BeforeOrgans, AfterOrgans
      <4>4. ReportForm(asked) /\ asked.q = q /\ Tells(asked, Rep!ActsOf(q))
        <5>1. q.kind = "cnpj" => Rep!ReportCertainty(q, sources) # "fraca"
          BY DEF Rep!ReportCertainty, Rep!LinkCertainty
        <5>2. /\ DOMAIN asked = ToldFields /\ asked.at = "acts" /\ asked.q = q /\ asked.sources = sources
              /\ asked.certainty = Rep!ReportCertainty(q, sources) /\ asked.acts = {}
          BY DEF Rep!NothingTold, ToldFields
        <5> HIDE DEF asked
        <5> QED
          BY <5>1, <5>2 DEF ReportForm, Tells, BeforeOrgans, AfterOrgans
      <4> HIDE DEF asked
      <4>5. Rep!ActsOf(q)' = Rep!ActsOf(q)
        BY <4>2 DEF Rep!ActsOf, Rep!Links
      <4> QED
        BY <2>2, <4>2, <4>3, <4>4, <4>5 DEF ReportsTopic
    <3>4. CASE Rep!Read
      <4>1. PICK r \in beside : r.at # "told" /\ beside' = {Rep!ReadNext(r)}
        BY <3>4 DEF Rep!Read
      <4>s. PICK s : s = Rep!ReadNext(r) /\ beside' = {s}
        BY <4>1
      <4>2. /\ ReportForm(s) /\ s.q = r.q /\ s.changes = r.changes
            /\ Tells(r, Rep!ActsOf(r.q)) => Tells(s, Rep!ActsOf(s.q))
        BY <2>2, <4>1, <4>s, StatementTells
      <4>3. given' = given
        BY <3>4 DEF Rep!Read
      <4>4. Rep!ActsOf(s.q)' = Rep!ActsOf(s.q)
        BY <4>3 DEF Rep!ActsOf, Rep!Links
      <4> QED
        BY <2>2, <4>s, <4>2, <4>3, <4>4 DEF ReportsTopic
    <3> QED
      BY <3>1, <3>2, <3>3, <3>4 DEF Rep!Next
  <2> QED
    BY <2>3, <2>4
<1> QED
  BY <1>1, <1>2, PTL DEF DomainSpec

LEMMA SaidAreFinite ==
  ASSUME NEW S, IsFiniteSet(S)
  PROVE  IsFiniteSet(SourcesIn(S)) /\ IsFiniteSet(OrgansIn(S))
<1> DEFINE source == [a \in S |-> a.source]
           organ == [a \in S |-> Rep!PrincipalOrgan(a.organ)]
<1>1. IsFiniteSet({source[a] : a \in S}) /\ IsFiniteSet({organ[a] : a \in S})
  BY ImagesAreFinite
<1>2. SourcesIn(S) = {source[a] : a \in S} /\ OrgansIn(S) = {organ[a] : a \in S}
  BY DEF SourcesIn, OrgansIn
<1> QED
  BY <1>1, <1>2

\* A number that acts of two organs, or of two gazettes, have is told with a warning.
LEMMA WarningsHold ==
  ASSUME ReportsTopic, topic = "reports"
  PROVE  Rep!SharedNumbersAreWarned
<1> SUFFICES ASSUME NEW r \in Rep!Told("none")
             PROVE  /\ r.q.kind = "cnpj" => Rep!EntityWarnings(r) = {}
                    /\ /\ r.q.kind # "cnpj"
                       /\ \/ Rep!Cardinality({a.source : a \in r.acts}) > 1
                          \/ Rep!Cardinality({Rep!PrincipalOrgan(a.organ) : a \in r.acts} \ {Rep!Unsaid}) > 1
                       => Rep!EntityWarnings(r) # {}
  BY DEF Rep!SharedNumbersAreWarned
<1> DEFINE S == Rep!ActsOf(r.q)
<1>0. r \in beside /\ r.at = "told" /\ r.changes = "none"
  BY DEF Rep!Told
<1>1. ReportForm(r) /\ Tells(r, S) /\ IsFiniteSet(S)
  <2>1. S \subseteq given
    BY DEF Rep!ActsOf, Rep!Links
  <2> QED
    BY <1>0, <2>1, FS_Subset DEF ReportsTopic
<1> HIDE DEF S
<1>2. ASSUME r.q.kind = "cnpj" PROVE Rep!EntityWarnings(r) = {}
  BY <1>1, <1>2 DEF Rep!EntityWarnings, ReportForm
<1>3. ASSUME r.q.kind # "cnpj", Cardinality(SourcesIn(r.acts)) > 1 PROVE Rep!EntityWarnings(r) # {}
  <2>1. IsFiniteSet(SourcesIn(S)) /\ SourcesIn(r.acts) \subseteq SourcesIn(S)
    BY <1>1, SaidAreFinite DEF SourcesIn, Tells
  <2>2. Cardinality(SourcesIn(r.acts)) <= Cardinality(SourcesIn(S)) /\ Cardinality(SourcesIn(S)) \in Nat
        /\ Cardinality(SourcesIn(r.acts)) \in Nat
    BY <2>1, FS_Subset, FS_CardinalityType
  <2>3. r.acts # {}
    BY <1>3, FS_EmptySet DEF SourcesIn
  <2>4. r.sources > 1
    BY <1>0, <1>1, <1>3, <2>2, <2>3 DEF Tells
  <2> QED
    BY <1>3, <2>4, Zenon DEF Rep!EntityWarnings
<1>4. ASSUME r.q.kind # "cnpj", Cardinality(OrgansIn(r.acts) \ {Rep!Unsaid}) > 1 PROVE Rep!EntityWarnings(r) # {}
  <2>1. r.acts # {}
    BY <1>4, FS_EmptySet DEF OrgansIn
  <2>2. DOMAIN r.organs = OrgansIn(S)
    BY <1>0, <1>1, <2>1 DEF Tells, AfterOrgans
  <2>3. IsFiniteSet(OrgansIn(S)) /\ OrgansIn(r.acts) \subseteq OrgansIn(S)
    BY <1>1, SaidAreFinite DEF OrgansIn, Tells
  <2>4. Cardinality(OrgansIn(r.acts) \ {Rep!Unsaid}) <= Cardinality(OrgansIn(S) \ {Rep!Unsaid})
        /\ Cardinality(OrgansIn(r.acts) \ {Rep!Unsaid}) \in Nat /\ Cardinality(OrgansIn(S) \ {Rep!Unsaid}) \in Nat
    <3>1. IsFiniteSet(OrgansIn(S) \ {Rep!Unsaid})
          /\ OrgansIn(r.acts) \ {Rep!Unsaid} \subseteq OrgansIn(S) \ {Rep!Unsaid}
      BY <2>3, FS_Subset
    <3> QED
      BY <3>1, FS_Subset, FS_CardinalityType
  <2>5. Rep!Cardinality(DOMAIN r.organs \ {Rep!Unsaid}) > 1
    BY <1>4, <2>2, <2>4, RepCardinality
  <2> QED
    BY <1>4, <2>5, Zenon DEF Rep!EntityWarnings
<1> QED
  BY <1>2, <1>3, <1>4, RepCardinality DEF SourcesIn, OrgansIn

-----------------------------------------------------------------------------
(***************************************************************************)
(* The search of acts and its groups.                                      *)
(***************************************************************************)
LEMMA SchCardinality == \A S : Sch!Cardinality(S) = Cardinality(S)
  BY ZenonT(30) DEF Sch!Cardinality, Cardinality

FilterFields == {"text", "name", "source", "type", "organ", "modality", "theme", "gazette", "from", "to", "min", "max",
                 "mainMin", "mainMax", "entity", "includeLists", "recent", "limit", "offset"}

Fresh(f) == DOMAIN f = FilterFields /\ f.limit = 0 /\ f.offset = 0

LEMMA FiltersAre == \A f \in Sch!Filters : DOMAIN f = FilterFields /\ f.offset = 0 /\ f.limit \in Nat \ {0}
<1>1. Fresh(Sch!Everything)
  BY DEF Fresh, Sch!Everything, FilterFields
<1>2. ASSUME NEW f, Fresh(f), NEW x \in FilterFields \ {"limit", "offset"}, NEW v PROVE Fresh([f EXCEPT ![x] = v])
  BY <1>2 DEF Fresh, FilterFields
<1>3. ASSUME NEW a, NEW f \in Sch!FiltersOf(a) PROVE Fresh(f)
  <2> DEFINE shape ==
        <<[Sch!Everything EXCEPT !.type = a.type], [Sch!Everything EXCEPT !.organ = a.organ, !.from = a.day],
          [Sch!Everything EXCEPT !.gazette = a.gazette], [Sch!Everything EXCEPT !.name = "ana", !.to = a.day],
          [Sch!Everything EXCEPT !.text = "obra", !.name = "ana", !.includeLists = TRUE],
          [Sch!Everything EXCEPT !.text = "obra", !.theme = a.theme, !.modality = a.modality],
          [Sch!Everything EXCEPT !.min = 20, !.max = 50, !.source = a.source],
          [Sch!Everything EXCEPT !.mainMin = a.main]>>
  <2>1. Fresh(shape[1]) /\ Fresh(shape[2]) /\ Fresh(shape[3]) /\ Fresh(shape[4])
    BY <1>1, <1>2 DEF FilterFields
  <2>2. Fresh(shape[5]) /\ Fresh(shape[6]) /\ Fresh(shape[7]) /\ Fresh(shape[8])
    BY <1>1, <1>2 DEF FilterFields
  <2>3. \E i \in 1..8 : f = shape[i]
    BY <1>3 DEF Sch!FiltersOf
  <2> HIDE DEF shape, Fresh
  <2> QED
    BY <2>1, <2>2, <2>3
<1>4. ASSUME NEW k PROVE Fresh([Sch!Everything EXCEPT !.entity = k])
  BY <1>1, <1>2 DEF FilterFields
<1>5. ASSUME NEW f \in Sch!Asked PROVE Fresh(f)
  BY <1>1, <1>3, <1>4, <1>5 DEF Sch!Asked
<1>6. ASSUME NEW f, Fresh(f)
      PROVE  LET g == Sch!Normalize(f)
             IN  DOMAIN g = FilterFields /\ g.offset = 0 /\ g.limit \in Nat \ {0}
  <2>1. DefaultLimit \in Nat \ {0} /\ MaxLimit \in Nat \ {0}
    BY AnswersAssumption
  <2> QED
    BY <1>6, <2>1 DEF Fresh, FilterFields, Sch!Normalize
<1>7. ASSUME NEW f \in Sch!Asked PROVE Fresh([f EXCEPT !.recent = TRUE])
  BY <1>2, <1>5 DEF FilterFields
<1> SUFFICES ASSUME NEW g \in Sch!Filters
             PROVE  DOMAIN g = FilterFields /\ g.offset = 0 /\ g.limit \in Nat \ {0}
  OBVIOUS
<1> HIDE DEF Fresh
<1>8. PICK f \in Sch!Asked : g = Sch!Normalize(f) \/ g = Sch!Normalize([f EXCEPT !.recent = TRUE])
  BY DEF Sch!Filters
<1> QED
  BY <1>5, <1>6, <1>7, <1>8

\* The order of a search is one.
LEMMA ScoresAre ==
  ASSUME NEW a \in IndexedActs, NEW text
  PROVE  \E x \in {0, 1}, y \in Nat : Sch!Score(a, text) = <<x, y>>
<1>1. a.rank \in Nat
  BY AnswersAssumption
<1> QED
  BY <1>1 DEF Sch!Score

LEMMA SearchOrder ==
  ASSUME NEW f
  PROVE  /\ \A a \in IndexedActs : ~Sch!Before(f, a, a)
         /\ \A a, b, c \in IndexedActs : Sch!Before(f, a, b) /\ Sch!Before(f, b, c) => Sch!Before(f, a, c)
<1>1. ASSUME NEW a \in IndexedActs
      PROVE  a.day \in Nat /\ a.url \in Nat /\ a.position \in Nat
  BY AnswersAssumption DEF Identified
<1>2. ASSUME NEW a \in IndexedActs, NEW text PROVE ~Sch!RelevantBefore(a, a, text)
  <2>1. PICK x \in {0, 1}, y \in Nat : Sch!Score(a, text) = <<x, y>>
    BY ScoresAre
  <2> QED
    BY <1>1, <2>1 DEF Sch!RelevantBefore
<1>3. ASSUME NEW a \in IndexedActs, NEW b \in IndexedActs, NEW c \in IndexedActs, NEW text,
             Sch!RelevantBefore(a, b, text), Sch!RelevantBefore(b, c, text)
      PROVE  Sch!RelevantBefore(a, c, text)
  <2>1. PICK x1 \in {0, 1}, y1 \in Nat : Sch!Score(a, text) = <<x1, y1>>
    BY ScoresAre
  <2>2. PICK x2 \in {0, 1}, y2 \in Nat : Sch!Score(b, text) = <<x2, y2>>
    BY ScoresAre
  <2>3. PICK x3 \in {0, 1}, y3 \in Nat : Sch!Score(c, text) = <<x3, y3>>
    BY ScoresAre
  <2> QED
    BY <1>1, <1>3, <2>1, <2>2, <2>3 DEF Sch!RelevantBefore
<1>4. ASSUME NEW a \in IndexedActs, NEW b \in IndexedActs, NEW c \in IndexedActs
      PROVE  /\ ~Sch!RecentBefore(a, a)
             /\ Sch!RecentBefore(a, b) /\ Sch!RecentBefore(b, c) => Sch!RecentBefore(a, c)
  BY <1>1 DEF Sch!RecentBefore
<1> QED
  BY <1>2, <1>3, <1>4 DEF Sch!Before

\* A search that finds something counts it.
LEMMA TotalsHold ==
  ASSUME given \subseteq IndexedActs, IsFiniteSet(given), NEW f, f.offset = 0, f.limit \in Nat \ {0}
  PROVE  Sch!Search(f).total = Sch!Cardinality(Sch!Matched(f))
<1> DEFINE S == Sch!Matched(f)
           R == {p \in S \X S : Sch!Before(f, p[1], p[2])}
<1>1. S \subseteq given /\ IsFiniteSet(S)
  BY FS_Subset DEF Sch!Matched
<1>2. Sch!Search(f).total = IF Sch!Page(f) = {} THEN 0 ELSE Sch!Cardinality(S)
  BY DEF Sch!Search
<1>3. CASE S = {}
  BY <1>2, <1>3, FS_EmptySet, SchCardinality
<1>4. CASE S # {}
  <2>1. /\ \A a \in S : <<a, a>> \notin R
        /\ \A a, b, c \in S : <<a, b>> \in R /\ <<b, c>> \in R => <<a, c>> \in R
    <3>1. ASSUME NEW a \in S, NEW b \in S PROVE <<a, b>> \in R <=> Sch!Before(f, a, b)
      OBVIOUS
    <3> HIDE DEF R
    <3> QED
      BY <1>1, <3>1, SearchOrder
  <2> HIDE DEF R, S
  <2>2. PICK m \in S : \A b \in S : <<b, m>> \notin R
    BY <1>1, <1>4, <2>1, MinimalExists
  <2>3. {b \in S : Sch!Before(f, b, m)} = {}
    BY <2>2 DEF R
  <2>4. Cardinality({b \in S : Sch!Before(f, m, b)}) < Cardinality(S)
        /\ Cardinality({b \in S : Sch!Before(f, m, b)}) \in Nat /\ Cardinality(S) \in Nat
    <3>1. ~Sch!Before(f, m, m)
      BY <1>1, SearchOrder
    <3>2. {b \in S : Sch!Before(f, m, b)} \in SUBSET (S \ {m})
      BY <3>1
    <3>3. IsFiniteSet(S \ {m}) /\ Cardinality(S \ {m}) = Cardinality(S) - 1
      BY <1>1, FS_RemoveElement
    <3> QED
      BY <1>1, <3>2, <3>3, FS_Subset, FS_CardinalityType
  <2>5. m \in Sch!Page(f)
    <3>1. Cardinality({b \in S : Sch!Before(f, b, m)}) = 0
      BY <2>3, FS_EmptySet
    <3> QED
      BY <2>4, <3>1, SchCardinality DEF Sch!Page, S
  <2> QED
    BY <1>2, <2>5 DEF S
<1> QED
  BY <1>3, <1>4

\* A group shows an act at least.
LEMMA ExamplesHold ==
  ASSUME NEW S, S \subseteq IndexedActs, IsFiniteSet(S), S # {}
  PROVE  {a \in S : Sch!Cardinality({b \in S : b.day > a.day \/ (b.day = a.day /\ b.id < a.id)}) < GroupExamples} # {}
<1> DEFINE R == {p \in S \X S : p[1].day > p[2].day \/ (p[1].day = p[2].day /\ p[1].id < p[2].id)}
<1>1. /\ \A a \in S : <<a, a>> \notin R
      /\ \A a, b, c \in S : <<a, b>> \in R /\ <<b, c>> \in R => <<a, c>> \in R
  <2>1. ASSUME NEW a \in S, NEW b \in S
        PROVE  /\ a.day \in Nat /\ a.id \in Nat
               /\ <<a, b>> \in R <=> a.day > b.day \/ (a.day = b.day /\ a.id < b.id)
    BY AnswersAssumption DEF Identified
  <2> HIDE DEF R
  <2>2. ASSUME NEW a \in S PROVE <<a, a>> \notin R
    BY <2>1
  <2>3. ASSUME NEW a \in S, NEW b \in S, NEW c \in S, <<a, b>> \in R, <<b, c>> \in R PROVE <<a, c>> \in R
    <3>1. /\ a.day \in Nat /\ a.id \in Nat /\ b.day \in Nat /\ b.id \in Nat /\ c.day \in Nat /\ c.id \in Nat
          /\ a.day > b.day \/ (a.day = b.day /\ a.id < b.id)
          /\ b.day > c.day \/ (b.day = c.day /\ b.id < c.id)
      BY <2>1, <2>3
    <3>2. a.day > c.day \/ (a.day = c.day /\ a.id < c.id)
      BY <3>1
    <3> QED
      BY <2>1, <3>2
  <2> QED
    BY <2>2, <2>3
<1> HIDE DEF R
<1>2. PICK m \in S : \A b \in S : <<b, m>> \notin R
  BY <1>1, MinimalExists
<1>3. {b \in S : b.day > m.day \/ (b.day = m.day /\ b.id < m.id)} = {}
  BY <1>2 DEF R
<1>4. Sch!Cardinality({b \in S : b.day > m.day \/ (b.day = m.day /\ b.id < m.id)}) < GroupExamples
  <2>1. Sch!Cardinality({}) = 0 /\ GroupExamples \in Nat \ {0}
    BY FS_EmptySet, SchCardinality, AnswersAssumption
  <2> QED
    BY <1>3, <2>1
<1> QED
  BY <1>4

\* Following a group finds its acts.
LEMMA MatchedWithin ==
  ASSUME NEW f, DOMAIN f = FilterFields, NEW k
  PROVE  /\ f.type = Sch!Unsaid /\ k # Sch!Unsaid =>
              Sch!Matched([f EXCEPT !.type = k]) = {a \in Sch!Matched(f) : a.type = k}
         /\ f.organ = Sch!Unsaid =>
              Sch!Matched([f EXCEPT !.organ = k]) =
                {a \in Sch!Matched(f) : k # Sch!Unsaid => a.organ \in Sch!OrganAcronyms(k)}
         /\ f.entity = Sch!NoEntity /\ k # Sch!NoEntity =>
              Sch!Matched([f EXCEPT !.entity = k]) = {a \in Sch!Matched(f) : k \in a.keys}
<1> DEFINE same(g, x) == \A y \in FilterFields \ {x} : g[y] = f[y]
<1>1. ASSUME NEW x \in FilterFields PROVE same([f EXCEPT ![x] = k], x) /\ [f EXCEPT ![x] = k][x] = k
  OBVIOUS
<1>2. ASSUME NEW g, same(g, "type"), g.type = k, f.type = Sch!Unsaid, k # Sch!Unsaid
      PROVE  Sch!Matched(g) = {a \in Sch!Matched(f) : a.type = k}
  BY <1>2 DEF FilterFields, Sch!Matched, Sch!TextQuery, Sch!ExcludesNameLists, Sch!WithValue
<1>3. ASSUME NEW g, same(g, "organ"), g.organ = k, f.organ = Sch!Unsaid
      PROVE  Sch!Matched(g) = {a \in Sch!Matched(f) : k # Sch!Unsaid => a.organ \in Sch!OrganAcronyms(k)}
  BY <1>3 DEF FilterFields, Sch!Matched, Sch!TextQuery, Sch!ExcludesNameLists, Sch!WithValue
<1>4. ASSUME NEW g, same(g, "entity"), g.entity = k, f.entity = Sch!NoEntity, k # Sch!NoEntity
      PROVE  Sch!Matched(g) = {a \in Sch!Matched(f) : k \in a.keys}
  BY <1>4 DEF FilterFields, Sch!Matched, Sch!TextQuery, Sch!ExcludesNameLists, Sch!WithValue
<1>5. {"type", "organ", "entity"} \subseteq FilterFields
  BY DEF FilterFields
<1> HIDE DEF same
<1> QED
  BY <1>1, <1>2, <1>3, <1>4, <1>5

\* The keys a group counts an act under.
LEMMA KeysAre ==
  ASSUME NEW a \in IndexedActs, NEW q, q.by \in {"orgao", "tipo", "cnpj", "processo"}
  PROVE  /\ q.by = "orgao" => Sch!KeysOf(a, q) = {a.organ}
         /\ q.by = "tipo" => Sch!KeysOf(a, q) = {a.type}
         /\ q.by \notin {"orgao", "tipo"} =>
              \A k : k \in Sch!KeysOf(a, q) <=> [kind |-> q.by, key |-> k] \in a.keys /\ k \notin Sch!ExcludedKeys(q)
<1>1. q.by = "orgao" => Sch!KeysOf(a, q) = {a.organ}
  BY ZenonT(30) DEF Sch!KeysOf
<1>2. q.by = "tipo" => Sch!KeysOf(a, q) = {a.type}
  BY ZenonT(30) DEF Sch!KeysOf
<1>3. ASSUME q.by \notin {"orgao", "tipo"}, NEW k
      PROVE  k \in Sch!KeysOf(a, q) <=> [kind |-> q.by, key |-> k] \in a.keys /\ k \notin Sch!ExcludedKeys(q)
  <2>1. Sch!KeysOf(a, q) = {e.key : e \in {x \in a.keys : x.kind = q.by}} \ Sch!ExcludedKeys(q)
    BY <1>3, ZenonT(30) DEF Sch!KeysOf
  <2>2. a.keys \subseteq [kind : STRING, key : Nat]
    BY AnswersAssumption
  <2> QED
    BY <2>1, <2>2
<1> QED
  BY <1>1, <1>2, <1>3

LEMMA UnsaidIsNoName == Sch!Unsaid \notin {"orgao", "tipo", "cnpj", "processo"}
  BY Zenon DEF Sch!Unsaid

\* The acts of a group.
ActsUnder(f, q, k) == {b \in Sch!Matched(f) : k \in Sch!KeysOf(b, q)}

\* What follows a group finds its acts.
LEMMA GroupHolds ==
  ASSUME given \subseteq IndexedActs, IsFiniteSet(given),
         NEW f, DOMAIN f = FilterFields,
         NEW q, q.filter = f, q.by \in {"orgao", "tipo", "cnpj", "processo"},
         NEW k, NEW a \in Sch!Matched(f), k \in Sch!KeysOf(a, q),
         NEW S, S = ActsUnder(f, q, k)
  PROVE  /\ S \subseteq IndexedActs /\ IsFiniteSet(S) /\ S # {}
         /\ q.by = "tipo" /\ f.type = Sch!Unsaid => S = Sch!Matched([f EXCEPT !.type = k])
         /\ q.by = "orgao" /\ f.organ = Sch!Unsaid /\ k # Sch!Unsaid =>
              LET T == Sch!Matched([f EXCEPT !.organ = Sch!PrincipalOrgan(k)])
              IN  S \subseteq T /\ Sch!Cardinality(S) <= Sch!Cardinality(T)
         /\ q.by \notin {"orgao", "tipo"} /\ f.entity = Sch!NoEntity =>
              S = Sch!Matched([f EXCEPT !.entity = [kind |-> q.by, key |-> k]])
<1>0. S = {b \in Sch!Matched(f) : k \in Sch!KeysOf(b, q)}
  BY DEF ActsUnder
<1>1. Sch!Matched(f) \subseteq given /\ IsFiniteSet(Sch!Matched(f))
  BY FS_Subset DEF Sch!Matched
<1>2. S \subseteq IndexedActs /\ IsFiniteSet(S) /\ a \in S
  BY <1>0, <1>1, FS_Subset
<1>3. ASSUME q.by = "tipo", f.type = Sch!Unsaid PROVE S = Sch!Matched([f EXCEPT !.type = k])
  <2>1. k # Sch!Unsaid
    BY <1>1, <1>3, KeysAre, AnswersAssumption
  <2>2. S = {b \in Sch!Matched(f) : b.type = k}
    BY <1>0, <1>1, <1>3, KeysAre
  <2>3. Sch!Matched([f EXCEPT !.type = k]) = {b \in Sch!Matched(f) : b.type = k}
    BY <1>3, <2>1, MatchedWithin
  <2> QED
    BY <2>2, <2>3
<1>4. ASSUME q.by = "orgao", f.organ = Sch!Unsaid, k # Sch!Unsaid,
             NEW T, T = Sch!Matched([f EXCEPT !.organ = Sch!PrincipalOrgan(k)])
      PROVE  S \subseteq T /\ Sch!Cardinality(S) <= Sch!Cardinality(T)
  <2>1. k \in Sch!OrganAcronyms(Sch!PrincipalOrgan(k))
    BY DEF Sch!OrganAcronyms, Sch!PrincipalOrgan
  <2>2. T = {b \in Sch!Matched(f) : Sch!PrincipalOrgan(k) # Sch!Unsaid
                                       => b.organ \in Sch!OrganAcronyms(Sch!PrincipalOrgan(k))}
    BY <1>4, MatchedWithin
  <2>3. S = {b \in Sch!Matched(f) : b.organ = k}
    BY <1>0, <1>1, <1>4, KeysAre
  <2>4. S \subseteq T /\ T \subseteq Sch!Matched(f)
    BY <2>1, <2>2, <2>3
  <2>5. Cardinality(S) <= Cardinality(T)
    BY <1>1, <2>4, FS_Subset
  <2> QED
    BY <2>4, <2>5, SchCardinality
<1>5. ASSUME q.by \notin {"orgao", "tipo"}, f.entity = Sch!NoEntity
      PROVE  S = Sch!Matched([f EXCEPT !.entity = [kind |-> q.by, key |-> k]])
  <2> DEFINE e == [kind |-> q.by, key |-> k]
  <2>1. e # Sch!NoEntity
    <3>1. e.kind = q.by /\ Sch!NoEntity.kind = Sch!Unsaid
      BY DEF Sch!NoEntity
    <3> QED
      BY <3>1, UnsaidIsNoName
  <2>2. k \notin Sch!ExcludedKeys(q)
    <3>1. a \in IndexedActs
      BY <1>1
    <3>2. \A x : x \in Sch!KeysOf(a, q) <=> [kind |-> q.by, key |-> x] \in a.keys /\ x \notin Sch!ExcludedKeys(q)
      BY <1>5, <3>1, KeysAre
    <3> QED
      BY <3>2
  <2>3. \A b \in Sch!Matched(f) : k \in Sch!KeysOf(b, q) <=> e \in b.keys
    BY <1>1, <1>5, <2>2, KeysAre
  <2> HIDE DEF e
  <2>4. Sch!Matched([f EXCEPT !.entity = e]) = {b \in Sch!Matched(f) : e \in b.keys}
    BY <1>5, <2>1, MatchedWithin
  <2>5. S = Sch!Matched([f EXCEPT !.entity = e])
    BY <1>0, <2>3, <2>4
  <2> QED
    BY <2>5 DEF e
<1> QED
  BY <1>2, <1>3, <1>4, <1>5

LEMMA ActGroupsHold ==
  ASSUME given \subseteq IndexedActs, IsFiniteSet(given)
  PROVE  Sch!GroupsHaveTheirActs
<1> DEFINE within(f, by, k) == IF by = "tipo" THEN [f EXCEPT !.type = k]
                               ELSE IF by = "orgao" THEN [f EXCEPT !.organ = Sch!PrincipalOrgan(k)]
                               ELSE [f EXCEPT !.entity = [kind |-> by, key |-> k]]
           free(f, by) == IF by = "tipo" THEN f.type = Sch!Unsaid
                          ELSE IF by = "orgao" THEN f.organ = Sch!Unsaid ELSE f.entity = Sch!NoEntity
           followed(f, by, k, g) ==
             LET T == Sch!Matched(within(f, by, k))
             IN  /\ g.examples \subseteq T
                 /\ IF by = "orgao" THEN g.acts <= Sch!Cardinality(T)
                    ELSE /\ g.acts = Sch!Cardinality(T)
                         /\ g.first = Sch!Min({a.day : a \in T}) /\ g.last = Sch!Max({a.day : a \in T})
           holds(f, by, q) ==
             /\ Sch!GroupActs(q).matched = Sch!Search(f).total
             /\ \A k \in DOMAIN Sch!GroupActs(q).groups :
                  /\ Sch!GroupActs(q).groups[k].examples # {}
                  /\ free(f, by) /\ (by # "orgao" \/ k # Sch!Unsaid) => followed(f, by, k, Sch!GroupActs(q).groups[k])
<1> SUFFICES ASSUME NEW f \in Sch!Filters, NEW by \in {"orgao", "tipo", "cnpj", "processo"}, NEW public \in BOOLEAN
             PROVE  holds(f, by, [filter |-> f, by |-> by, includePublic |-> public])
  BY Zenon DEF Sch!GroupsHaveTheirActs
<1> DEFINE q == [filter |-> f, by |-> by, includePublic |-> public]
<1>0. DOMAIN f = FilterFields /\ f.offset = 0 /\ f.limit \in Nat \ {0}
  BY FiltersAre
<1>q. q.filter = f /\ q.by = by
  OBVIOUS
<1> HIDE DEF q
<1>1. Sch!GroupActs(q).matched = Sch!Search(f).total
  BY <1>0, <1>q, TotalsHold DEF Sch!GroupActs
<1>2. ASSUME NEW k \in DOMAIN Sch!GroupActs(q).groups
      PROVE  \E S, a :
               /\ a \in Sch!Matched(f) /\ k \in Sch!KeysOf(a, q)
               /\ S = ActsUnder(f, q, k)
               /\ Sch!GroupActs(q).groups[k] = Sch!ActGroup(q, k)
  BY <1>2, <1>q DEF Sch!GroupActs, ActsUnder
<1>3. ASSUME NEW k, NEW S, S = ActsUnder(f, q, k),
             NEW g, g = Sch!ActGroup(q, k)
      PROVE  /\ g.acts = Sch!Cardinality(S)
             /\ g.first = Sch!Min({a.day : a \in S}) /\ g.last = Sch!Max({a.day : a \in S})
             /\ g.examples = {a \in S : Sch!Cardinality({b \in S : b.day > a.day \/ (b.day = a.day /\ b.id < a.id)})
                                          < GroupExamples}
  BY <1>3, <1>q, ZenonT(30) DEF Sch!ActGroup, ActsUnder
<1>4. ASSUME NEW k \in DOMAIN Sch!GroupActs(q).groups, NEW g, g = Sch!GroupActs(q).groups[k]
      PROVE  g.examples # {} /\ (free(f, by) /\ (by # "orgao" \/ k # Sch!Unsaid) => followed(f, by, k, g))
  <2>1. PICK S, a :
               /\ a \in Sch!Matched(f) /\ k \in Sch!KeysOf(a, q)
               /\ S = ActsUnder(f, q, k)
               /\ g = Sch!ActGroup(q, k)
    BY <1>2, <1>4
  <2>2. /\ S \subseteq IndexedActs /\ IsFiniteSet(S) /\ S # {}
        /\ by = "tipo" /\ f.type = Sch!Unsaid => S = Sch!Matched([f EXCEPT !.type = k])
        /\ by = "orgao" /\ f.organ = Sch!Unsaid /\ k # Sch!Unsaid =>
             LET U == Sch!Matched([f EXCEPT !.organ = Sch!PrincipalOrgan(k)])
             IN  S \subseteq U /\ Sch!Cardinality(S) <= Sch!Cardinality(U)
        /\ by \notin {"orgao", "tipo"} /\ f.entity = Sch!NoEntity =>
             S = Sch!Matched([f EXCEPT !.entity = [kind |-> by, key |-> k]])
    <3>1. /\ S \subseteq IndexedActs /\ IsFiniteSet(S) /\ S # {}
          /\ q.by = "tipo" /\ f.type = Sch!Unsaid => S = Sch!Matched([f EXCEPT !.type = k])
          /\ q.by = "orgao" /\ f.organ = Sch!Unsaid /\ k # Sch!Unsaid =>
               LET U == Sch!Matched([f EXCEPT !.organ = Sch!PrincipalOrgan(k)])
               IN  S \subseteq U /\ Sch!Cardinality(S) <= Sch!Cardinality(U)
          /\ q.by \notin {"orgao", "tipo"} /\ f.entity = Sch!NoEntity =>
               S = Sch!Matched([f EXCEPT !.entity = [kind |-> q.by, key |-> k]])
      BY <1>0, <1>q, <2>1, GroupHolds
    <3> QED
      BY <1>q, <3>1
  <2>3. /\ g.acts = Sch!Cardinality(S)
        /\ g.first = Sch!Min({b.day : b \in S}) /\ g.last = Sch!Max({b.day : b \in S})
        /\ g.examples = {b \in S : Sch!Cardinality({c \in S : c.day > b.day \/ (c.day = b.day /\ c.id < b.id)})
                                     < GroupExamples}
    BY <1>3, <2>1
  <2>4. g.examples # {} /\ g.examples \subseteq S
    BY <2>2, <2>3, ExamplesHold
  <2>5. CASE by = "tipo"
    <3>1. f.type = Sch!Unsaid => S = Sch!Matched(within(f, by, k))
      BY <2>2, <2>5
    <3> QED
      BY <2>3, <2>4, <2>5, <3>1
  <2>6. CASE by = "orgao"
    <3>1. f.organ = Sch!Unsaid /\ k # Sch!Unsaid =>
            /\ S \subseteq Sch!Matched(within(f, by, k))
            /\ Sch!Cardinality(S) <= Sch!Cardinality(Sch!Matched(within(f, by, k)))
      BY <2>2, <2>6
    <3> QED
      BY <2>3, <2>4, <2>6, <3>1
  <2>7. CASE by \notin {"orgao", "tipo"}
    <3>1. f.entity = Sch!NoEntity => S = Sch!Matched(within(f, by, k))
      BY <2>2, <2>7
    <3> QED
      BY <2>3, <2>4, <2>7, <3>1
  <2> QED
    BY <2>4, <2>5, <2>6, <2>7
<1> HIDE DEF followed, free
<1>5. holds(f, by, q)
  BY <1>1, <1>4
<1> QED
  BY <1>5 DEF q

-----------------------------------------------------------------------------
(***************************************************************************)
(* The answers.                                                            *)
(***************************************************************************)
AnswersTopic ==
  topic = "acts" => given \subseteq IndexedActs /\ IsFiniteSet(given)

LEMMA AnswersHold == DomainSpec => []AnswersTopic
<1>1. DomainInit => AnswersTopic
  BY FS_EmptySet DEF DomainInit, AnswersTopic
<1>2. AnswersTopic /\ [DomainNext]_DomainVars => AnswersTopic'
  <2> SUFFICES ASSUME AnswersTopic, [DomainNext]_DomainVars PROVE AnswersTopic'
    OBVIOUS
  <2>1. topic' = topic
    BY SameTopic
  <2>2. CASE UNCHANGED DomainVars
    BY <2>2 DEF AnswersTopic, DomainVars
  <2>3. CASE DomainNext
    <3>1. topic = "acts" => given' \subseteq IndexedActs /\ IsFiniteSet(given')
      BY <2>3, FS_AddElement DEF AnswersTopic, DomainNext, Sch!Next, Sch!IndexAct
    <3> QED
      BY <2>1, <3>1 DEF AnswersTopic
  <2> QED
    BY <2>2, <2>3
<1> QED
  BY <1>1, <1>2, PTL DEF DomainSpec

\* What the queries answer agrees with what is in the database: a law knows the bill
\* it came of, a report of a process no load disturbed has every commitment of it, a group
\* of acts is followed to as many acts as it says, and a number that two organs or
\* two gazettes have is told with a warning.
THEOREM AnswersAreTrue == DomainSpec => []AnswersSafe
<1>1. SearchTopic /\ AnswersTopic /\ ReportsTopic /\ SpendingTopic => AnswersSafe
  BY LawsAndBills, ProcessesHold, ControlHolds, ActGroupsHold, WarningsHold DEF AnswersTopic, AnswersSafe
<1> QED
  BY <1>1, SearchHolds, AnswersHold, ReportsHold, SpendingHolds, PTL

-----------------------------------------------------------------------------
(***************************************************************************)
(* The patterns of purchases.                                              *)
(***************************************************************************)

\* The acts of a topic are those its editions bring, the payments those the loads
\* bring, and some finite number of them.
PurchasesTopic ==
  /\ topic = "splits" => given \subseteq Dispensas /\ IsFiniteSet(given)
  /\ topic = "renewals" => given \subseteq Emergencies /\ IsFiniteSet(given)
  /\ topic = "addenda" => given \subseteq Addenda /\ IsFiniteSet(given)
  /\ topic = "panel" =>
       /\ given \subseteq PanelActs /\ IsFiniteSet(given)
       /\ beside \subseteq PanelPayments /\ IsFiniteSet(beside)

LEMMA PurchasesHold == DomainSpec => []PurchasesTopic
<1>1. DomainInit => PurchasesTopic
  BY FS_EmptySet DEF DomainInit, PurchasesTopic
<1>2. PurchasesTopic /\ [DomainNext]_DomainVars => PurchasesTopic'
  <2> SUFFICES ASSUME PurchasesTopic, [DomainNext]_DomainVars PROVE PurchasesTopic'
    OBVIOUS
  <2>1. topic' = topic
    BY SameTopic
  <2>2. CASE UNCHANGED DomainVars
    BY <2>2 DEF PurchasesTopic, DomainVars
  <2>3. CASE DomainNext
    <3>1. topic = "splits" => given' \subseteq Dispensas /\ IsFiniteSet(given')
      BY <2>3, FS_AddElement DEF PurchasesTopic, DomainNext, Spl!Next, Spl!Publish
    <3>2. topic = "renewals" => given' \subseteq Emergencies /\ IsFiniteSet(given')
      BY <2>3, FS_AddElement DEF PurchasesTopic, DomainNext, Ren!Next, Ren!Publish
    <3>3. topic = "addenda" => given' \subseteq Addenda /\ IsFiniteSet(given')
      BY <2>3, FS_AddElement DEF PurchasesTopic, DomainNext, Exc!Next, Exc!Publish
    <3>4. topic = "panel" => /\ given' \subseteq PanelActs /\ IsFiniteSet(given')
                             /\ beside' \subseteq PanelPayments /\ IsFiniteSet(beside')
      BY <2>3, FS_AddElement DEF PurchasesTopic, DomainNext, Pan!Next, Pan!Publish, Pan!Pay
    <3> QED
      BY <2>1, <3>1, <3>2, <3>3, <3>4 DEF PurchasesTopic
  <2> QED
    BY <2>2, <2>3
<1> QED
  BY <1>1, <1>2, PTL DEF DomainSpec

\* What each pattern says of purchases is true of the acts it was read from; the panel
\* of suppliers counts different contracts, and adds up by year, by organ and by row.
THEOREM PurchasesAreTrue == DomainSpec => []PurchasesSafe
<1>1. PurchasesTopic => PurchasesSafe
  BY SplitsDiffer, ActsCountOnce, RenewalsHold, AmbiguousHold, AddendaHold, PanelContractsDiffer, PanelHolds
     DEF PurchasesTopic, PurchasesSafe
<1> QED
  BY <1>1, PurchasesHold, PTL
=============================================================================
