----------------------------- MODULE PanelProof -----------------------------
(***************************************************************************)
(* What the patterns of suppliers accuse, and the panel they compare it    *)
(* with, for all the constants: the acts read in order, their groups, the  *)
(* contracts they join and the sums over them; and the addenda of          *)
(* contracts.  The proofs of the other patterns of purchases, in           *)
(* DomainProof, use the same facts of orders, groups and sums.             *)
(***************************************************************************)
EXTENDS Domain, TLAPS, FiniteSetTheorems, WellFoundedInduction

LEMMA SameTopic == [DomainNext]_DomainVars => topic' = topic
  BY DEF DomainNext, DomainVars

LEMMA LeastNatural ==
  ASSUME NEW S, S \subseteq Nat, S # {}
  PROVE  \E n \in S : \A m \in S : n <= m
<1>1. PICK n \in S : \A m \in S : ~(<<m, n>> \in OpToRel(<, Nat))
  BY WFMin, NatLessThanWellFounded, Zenon
<1>2. \A m \in S : ~(m < n)
  BY <1>1 DEF OpToRel
<1> QED
  BY <1>2

LEMMA ImagesAreFinite ==
  ASSUME NEW S, IsFiniteSet(S), NEW f
  PROVE  IsFiniteSet({f[x] : x \in S})
<1> DEFINE T == {f[x] : x \in S}
           g == [x \in S |-> f[x]]
<1>1. g \in Surjection(S, T)
  <2>1. g \in [S -> T]
    OBVIOUS
  <2>2. \A y \in T : \E x \in S : g[x] = y
    OBVIOUS
  <2> HIDE DEF g, T
  <2> QED
    BY <2>1, <2>2 DEF Surjection
<1> QED
  BY <1>1, FS_Surjection

-----------------------------------------------------------------------------
(***************************************************************************)
(* Reading in order.  A pattern reads acts one by one, the last one after *)
(* the others have been read: a fold is a function of the sets of acts     *)
(* read so far, and induction is over those sets.                          *)
(***************************************************************************)

\* What holds of a set whenever it holds of the set without any one of its
\* members holds of every subset of a finite set.
LEMMA SubsetInduction ==
  ASSUME NEW S, IsFiniteSet(S), NEW Good,
         \A T \in SUBSET S : (\A x \in T : T \ {x} \in Good) => T \in Good
  PROVE  S \in Good /\ \A T \in SUBSET S : T \in Good
<1> DEFINE bad == {T \in SUBSET S : T \notin Good}
           sizes == {Cardinality(T) : T \in bad}
<1>1. ASSUME NEW T \in SUBSET S
      PROVE  /\ IsFiniteSet(T) /\ Cardinality(T) \in Nat
             /\ \A x \in T : Cardinality(T \ {x}) = Cardinality(T) - 1
  BY FS_Subset, FS_CardinalityType, FS_RemoveElement
<1>2. SUFFICES ASSUME bad # {} PROVE FALSE
  OBVIOUS
<1>3. sizes \subseteq Nat /\ sizes # {}
  BY <1>1, <1>2
<1>4. PICK n \in sizes : \A m \in sizes : n <= m
  BY <1>3, LeastNatural
<1>5. PICK T \in bad : Cardinality(T) = n
  BY <1>4
<1>6. PICK x \in T : T \ {x} \notin Good
  BY <1>5
<1>7. T \ {x} \in bad
  BY <1>5, <1>6
<1>8. n <= Cardinality(T \ {x}) /\ Cardinality(T \ {x}) = n - 1 /\ n \in Nat
  BY <1>1, <1>4, <1>5, <1>6, <1>7
<1> QED
  BY <1>8

\* last chooses a member of every set that has one.
Chooses(last, S) == \A T \in SUBSET S : T # {} => last[T] \in T

\* h[T] is what is known once T was read, from base, by rule.
Reads(h, S, last, base, rule) ==
  h = [T \in SUBSET S |-> IF T = {} THEN base ELSE rule[<<h[T \ {last[T]}], last[T]>>]]

\* There is such a function: a recursive definition over the subsets of a
\* finite set defines one, whose values are those of the rule.
LEMMA ReadingExists ==
  ASSUME NEW S, IsFiniteSet(S), NEW last, Chooses(last, S), NEW V, NEW base \in V,
         NEW rule \in [V \X S -> V]
  PROVE  \E h \in [SUBSET S -> V] : Reads(h, S, last, base, rule)
<1> DEFINE value(h, T) == IF T = {} THEN base ELSE rule[<<h[T \ {last[T]}], last[T]>>]
           upTo(h, n) == \A T \in SUBSET S : Cardinality(T) <= n => h[T] = value(h, T)
           reached == {n \in Nat : \E h \in [SUBSET S -> V] : upTo(h, n)}
<1>1. ASSUME NEW T \in SUBSET S
      PROVE  /\ IsFiniteSet(T) /\ Cardinality(T) \in Nat /\ (Cardinality(T) = 0 <=> T = {})
             /\ \A x \in T : Cardinality(T \ {x}) = Cardinality(T) - 1
  BY FS_Subset, FS_CardinalityType, FS_RemoveElement, FS_EmptySet
<1>2. ASSUME NEW T \in SUBSET S, T # {} PROVE last[T] \in T /\ T \ {last[T]} \in SUBSET S
  BY <1>2 DEF Chooses
<1>3. ASSUME NEW h \in [SUBSET S -> V] PROVE [T \in SUBSET S |-> value(h, T)] \in [SUBSET S -> V]
  BY <1>2
<1>4. 0 \in reached
  <2> DEFINE h == [T \in SUBSET S |-> base]
  <2>1. h \in [SUBSET S -> V]
    OBVIOUS
  <2>2. \A T \in SUBSET S : Cardinality(T) <= 0 => h[T] = value(h, T)
    BY <1>1
  <2> QED
    BY <2>1, <2>2
<1>5. ASSUME NEW n \in reached PROVE n + 1 \in reached
  <2>1. PICK g \in [SUBSET S -> V] : upTo(g, n)
    OBVIOUS
  <2> DEFINE h == [T \in SUBSET S |-> value(g, T)]
  <2>2. h \in [SUBSET S -> V]
    BY <1>3
  <2>3. ASSUME NEW T \in SUBSET S, Cardinality(T) <= n PROVE h[T] = g[T]
    BY <2>1, <2>3
  <2>4. ASSUME NEW T \in SUBSET S, Cardinality(T) <= n + 1 PROVE h[T] = value(h, T)
    <3>1. CASE T = {}
      BY <3>1
    <3>2. CASE T # {}
      <4> DEFINE U == T \ {last[T]}
      <4>1. U \in SUBSET S /\ Cardinality(U) <= n
        BY <1>1, <1>2, <2>4, <3>2
      <4>2. h[U] = g[U]
        BY <2>3, <4>1
      <4> QED
        BY <3>2, <4>2
    <3> QED
      BY <3>1, <3>2
  <2>5. upTo(h, n + 1)
    BY <2>4
  <2> HIDE DEF h, upTo
  <2> QED
    BY <2>2, <2>5
<1>6. reached = Nat
  <2> HIDE DEF reached
  <2>0. reached \subseteq Nat
    BY DEF reached
  <2>1. SUFFICES ASSUME Nat \ reached # {} PROVE FALSE
    BY <2>0
  <2>2. PICK n \in Nat \ reached : \A m \in Nat \ reached : n <= m
    BY <2>0, <2>1, LeastNatural
  <2>3. n - 1 \in reached /\ n - 1 + 1 = n
    BY <1>4, <2>2
  <2> QED
    BY <1>5, <2>2, <2>3
<1>7. PICK h \in [SUBSET S -> V] : upTo(h, Cardinality(S))
  BY <1>1, <1>6
<1>8. ASSUME NEW T \in SUBSET S PROVE h[T] = value(h, T)
  <2>1. Cardinality(T) <= Cardinality(S)
    BY FS_Subset
  <2> QED
    BY <1>7, <2>1
<1>9. h = [T \in SUBSET S |-> value(h, T)]
  BY <1>8
<1> QED
  BY <1>9 DEF Reads

\* An order leaves some member of a finite set with none before it.
LEMMA MinimalExists ==
  ASSUME NEW S, IsFiniteSet(S), S # {}, NEW R,
         \A a \in S : <<a, a>> \notin R,
         \A a, b, c \in S : <<a, b>> \in R /\ <<b, c>> \in R => <<a, c>> \in R
  PROVE  \E m \in S : \A b \in S : <<b, m>> \notin R
<1> DEFINE good == {T \in SUBSET S : T # {} => \E m \in T : \A b \in T : <<b, m>> \notin R}
<1>1. ASSUME NEW T \in SUBSET S, \A x \in T : T \ {x} \in good PROVE T \in good
  <2>1. CASE T = {}
    BY <2>1
  <2>2. CASE \E x \in T : T = {x}
    BY <2>2
  <2>3. CASE T # {} /\ ~\E x \in T : T = {x}
    <3>1. PICK x \in T : T \ {x} # {}
      BY <2>3
    <3>2. PICK m \in T \ {x} : \A b \in T \ {x} : <<b, m>> \notin R
      BY <1>1, <3>1
    <3>3. CASE <<x, m>> \notin R
      BY <3>2, <3>3
    <3>4. CASE <<x, m>> \in R
      <4>1. \A b \in T : <<b, x>> \notin R
        BY <3>2, <3>4
      <4> QED
        BY <4>1
    <3> QED
      BY <3>3, <3>4
  <2> QED
    BY <2>1, <2>2, <2>3
<1>2. \A T \in SUBSET S : (\A x \in T : T \ {x} \in good) => T \in good
  BY <1>1
<1> HIDE DEF good
<1>3. S \in good
  BY <1>2, SubsetInduction
<1> QED
  BY <1>3 DEF good

-----------------------------------------------------------------------------
(***************************************************************************)
(* The order of the acts.                                                  *)
(***************************************************************************)
Precedes(a, b) == a.day < b.day \/ (a.day = b.day /\ a.id < b.id)
Last(S) == CHOOSE a \in S : \A b \in S \ {a} : Precedes(b, a)
First(S) == CHOOSE a \in S : \A b \in S \ {a} : Precedes(a, b)

LEMMA OrderIsTotal ==
  ASSUME NEW S, Identified(S)
  PROVE  /\ \A a, b \in S : a # b => Precedes(a, b) \/ Precedes(b, a)
         /\ \A a, b \in S : ~(Precedes(a, b) /\ Precedes(b, a))
         /\ \A a, b, c \in S : Precedes(a, b) /\ Precedes(b, c) => Precedes(a, c)
<1>1. ASSUME NEW a \in S, NEW b \in S
      PROVE  /\ a.day \in Nat /\ a.id \in Nat /\ b.day \in Nat /\ b.id \in Nat
             /\ a.id = b.id => a = b
  BY DEF Identified
<1>2. ASSUME NEW a \in S, NEW b \in S
      PROVE  /\ a # b => Precedes(a, b) \/ Precedes(b, a)
             /\ ~(Precedes(a, b) /\ Precedes(b, a))
  BY <1>1 DEF Precedes
<1>3. ASSUME NEW a \in S, NEW b \in S, NEW c \in S, Precedes(a, b), Precedes(b, c)
      PROVE  Precedes(a, c)
  BY <1>1, <1>3 DEF Precedes
<1> QED
  BY <1>2, <1>3

LEMMA LastIs ==
  ASSUME NEW S, IsFiniteSet(S), Identified(S), NEW T \in SUBSET S, T # {}
  PROVE  /\ Last(T) \in T /\ \A b \in T \ {Last(T)} : Precedes(b, Last(T))
         /\ First(T) \in T /\ \A b \in T \ {First(T)} : Precedes(First(T), b)
<1> DEFINE good == {U \in SUBSET S : U # {} =>
                      /\ \E a \in U : \A b \in U \ {a} : Precedes(b, a)
                      /\ \E a \in U : \A b \in U \ {a} : Precedes(a, b)}
<1>1. ASSUME NEW U \in SUBSET S, \A x \in U : U \ {x} \in good PROVE U \in good
  <2>1. CASE U = {}
    BY <2>1
  <2>2. CASE U # {}
    <3>1. PICK x : x \in U
      BY <2>2
    <3>2. CASE U = {x}
      BY <3>2
    <3>3. CASE U # {x}
      <4>1. U \ {x} # {} /\ U \ {x} \in good
        BY <1>1, <3>1, <3>3
      <4>2. PICK l \in U \ {x} : \A b \in (U \ {x}) \ {l} : Precedes(b, l)
        BY <4>1
      <4>3. PICK f \in U \ {x} : \A b \in (U \ {x}) \ {f} : Precedes(f, b)
        BY <4>1
      <4>4. \E a \in U : \A b \in U \ {a} : Precedes(b, a)
        <5>1. CASE Precedes(x, l)
          BY <4>2, <5>1
        <5>2. CASE Precedes(l, x)
          BY <3>1, <4>2, <5>2, OrderIsTotal
        <5> QED
          BY <3>1, <5>1, <5>2, OrderIsTotal
      <4>5. \E a \in U : \A b \in U \ {a} : Precedes(a, b)
        <5>1. CASE Precedes(f, x)
          BY <4>3, <5>1
        <5>2. CASE Precedes(x, f)
          BY <3>1, <4>3, <5>2, OrderIsTotal
        <5> QED
          BY <3>1, <5>1, <5>2, OrderIsTotal
      <4> QED
        BY <4>4, <4>5
    <3> QED
      BY <3>2, <3>3
  <2> QED
    BY <2>1, <2>2
<1>2. T \in good
  <2>1. \A U \in SUBSET S : (\A x \in U : U \ {x} \in good) => U \in good
    BY <1>1
  <2> HIDE DEF good
  <2>2. \A U \in SUBSET S : U \in good
    BY <2>1, SubsetInduction, Zenon
  <2> QED
    BY <2>2
<1>3. /\ \E a \in T : \A b \in T \ {a} : Precedes(b, a)
      /\ \E a \in T : \A b \in T \ {a} : Precedes(a, b)
  BY <1>2
<1> QED
  BY <1>3 DEF Last, First

\* The order of reading is that of the days.
LEMMA LastIsLatest ==
  ASSUME NEW S, IsFiniteSet(S), Identified(S), NEW T \in SUBSET S, NEW a \in T
  PROVE  a.day <= Last(T).day /\ First(T).day <= a.day
<1>1. /\ Last(T) \in T /\ \A b \in T \ {Last(T)} : Precedes(b, Last(T))
      /\ First(T) \in T /\ \A b \in T \ {First(T)} : Precedes(First(T), b)
  BY LastIs
<1>2. a.day \in Nat /\ Last(T).day \in Nat /\ First(T).day \in Nat
  BY <1>1 DEF Identified
<1>3. a = Last(T) \/ Precedes(a, Last(T))
  BY <1>1
<1>4. a = First(T) \/ Precedes(First(T), a)
  BY <1>1
<1> QED
  BY <1>2, <1>3, <1>4 DEF Precedes

\* The first of a set is the first of any part of it that has it.
LEMMA FirstOfPart ==
  ASSUME NEW S, IsFiniteSet(S), Identified(S), NEW T \in SUBSET S, NEW U \in SUBSET T, First(T) \in U
  PROVE  First(U) = First(T)
<1>1. U # {} /\ U \in SUBSET S /\ T # {}
  OBVIOUS
<1>2. First(U) \in U /\ \A b \in U \ {First(U)} : Precedes(First(U), b)
  BY <1>1, LastIs
<1>3. \A b \in T \ {First(T)} : Precedes(First(T), b)
  BY <1>1, LastIs
<1> QED
  BY <1>2, <1>3, OrderIsTotal

\* Reading from the last: the last of what was read is always one of it.
LastOf(S) == [T \in SUBSET S |-> Last(T)]

LEMMA LastChooses ==
  ASSUME NEW S, IsFiniteSet(S), Identified(S)
  PROVE  Chooses(LastOf(S), S)
  BY LastIs DEF Chooses, LastOf

\* Reading the acts in their order, from base, by rule.
OrderedReads(h, S, base, rule) ==
  h = [T \in SUBSET S |-> IF T = {} THEN base ELSE rule[<<h[T \ {Last(T)}], Last(T)>>]]

LEMMA OrderedReadingExists ==
  ASSUME NEW S, IsFiniteSet(S), Identified(S), NEW V, NEW base \in V, NEW rule \in [V \X S -> V]
  PROVE  \E h \in [SUBSET S -> V] : OrderedReads(h, S, base, rule)
<1>1. PICK h \in [SUBSET S -> V] : Reads(h, S, LastOf(S), base, rule)
  BY ReadingExists, LastChooses
<1>2. \A T \in SUBSET S : LastOf(S)[T] = Last(T)
  BY DEF LastOf
<1> QED
  BY <1>1, <1>2 DEF Reads, OrderedReads

-----------------------------------------------------------------------------
(***************************************************************************)
(* Groups of acts.                                                         *)
(***************************************************************************)
Partition(G, S) ==
  /\ UNION G = S /\ {} \notin G
  /\ \A g, h \in G : g # h => g \cap h = {}

Together(G, a, b) == \E g \in G : a \in g /\ b \in g

Merge(G, R) ==
  LET touched == {g \in G : g \cap R # {}}
  IN  (G \ touched) \cup {UNION touched}

LEMMA TogetherIs ==
  ASSUME NEW S, NEW G, Partition(G, S)
  PROVE  /\ \A b : \A g \in G : \A a \in g : Together(G, a, b) => b \in g
         /\ \A a, b, c : Together(G, a, b) /\ Together(G, b, c) => Together(G, a, c)
         /\ \A a, b : Together(G, a, b) => Together(G, b, a)
         /\ \A a \in S : Together(G, a, a)
<1>1. ASSUME NEW g \in G, NEW a \in g, NEW b, Together(G, a, b) PROVE b \in g
  <2>1. PICK f \in G : a \in f /\ b \in f
    BY <1>1 DEF Together
  <2>2. f = g
    BY <2>1 DEF Partition
  <2> QED
    BY <2>1, <2>2
<1>2. ASSUME NEW a, NEW b, NEW c, Together(G, a, b), Together(G, b, c) PROVE Together(G, a, c)
  <2>1. PICK f \in G : a \in f /\ b \in f
    BY <1>2 DEF Together
  <2>2. c \in f
    BY <1>1, <1>2, <2>1
  <2> QED
    BY <2>1, <2>2 DEF Together
<1>3. \A a, b : Together(G, a, b) => Together(G, b, a)
  BY DEF Together
<1>4. \A a \in S : Together(G, a, a)
  BY DEF Together, Partition
<1> QED
  BY <1>1, <1>2, <1>3, <1>4

LEMMA MergeParts ==
  ASSUME NEW S, NEW G, Partition(G, S), NEW R \in SUBSET S, R # {}
  PROVE  /\ Partition(Merge(G, R), S)
         /\ \A a, b : Together(G, a, b) => Together(Merge(G, R), a, b)
         /\ \A a, b \in R : Together(Merge(G, R), a, b)
         /\ \A g \in G : g \cap R = {} => g \in Merge(G, R)
         /\ \A a \in R : Merge(G, {a}) = G
<1> DEFINE touched == {g \in G : g \cap R # {}}
           M == Merge(G, R)
<1>1. M = (G \ touched) \cup {UNION touched}
  BY DEF Merge
<1>2. \A a \in R : \E g \in touched : a \in g
  BY DEF Partition
<1> HIDE DEF M
<1>3. Partition(M, S)
  <2>1. UNION M = S
    <3>1. UNION M \subseteq S
      BY <1>1 DEF Partition
    <3>2. ASSUME NEW a \in S PROVE a \in UNION M
      <4>1. PICK g \in G : a \in g
        BY DEF Partition
      <4>2. g \in touched \/ g \in M
        BY <1>1
      <4> QED
        BY <1>1, <4>1, <4>2
    <3> QED
      BY <3>1, <3>2
  <2>2. {} \notin M
    BY <1>1, <1>2 DEF Partition
  <2>3. ASSUME NEW g \in M, NEW h \in M, g # h PROVE g \cap h = {}
    <3>1. CASE g \in G \ touched /\ h \in G \ touched
      BY <2>3, <3>1 DEF Partition
    <3>2. \A f \in G \ touched : f \cap (UNION touched) = {}
      BY DEF Partition
    <3> QED
      BY <1>1, <2>3, <3>1, <3>2
  <2> QED
    BY <2>1, <2>2, <2>3 DEF Partition
<1>4. ASSUME NEW a, NEW b, Together(G, a, b) PROVE Together(M, a, b)
  <2>1. PICK g \in G : a \in g /\ b \in g
    BY <1>4 DEF Together
  <2>2. CASE g \in touched
    BY <1>1, <2>1, <2>2 DEF Together
  <2>3. CASE g \notin touched
    BY <1>1, <2>1, <2>3 DEF Together
  <2> QED
    BY <2>2, <2>3
<1>5. ASSUME NEW a \in R, NEW b \in R PROVE Together(M, a, b)
  <2>1. a \in UNION touched /\ b \in UNION touched
    BY <1>2
  <2> QED
    BY <1>1, <2>1 DEF Together
<1>6. \A g \in G : g \cap R = {} => g \in M
  BY <1>1
<1>7. ASSUME NEW a \in R PROVE Merge(G, {a}) = G
  <2>1. PICK g \in G : a \in g
    BY DEF Partition
  <2>2. {f \in G : f \cap {a} # {}} = {g}
    BY <2>1 DEF Partition
  <2>3. UNION {g} = g
    OBVIOUS
  <2> QED
    BY <2>2, <2>3 DEF Merge
<1> QED
  BY <1>3, <1>4, <1>5, <1>6, <1>7 DEF M

\* Acts that share a key are together, those that share none are alone.
Grouping(G, S, K) ==
  /\ Partition(G, S)
  /\ \A a, b \in S : K[a] \cap K[b] # {} => Together(G, a, b)
  /\ \A a \in S : (\A b \in S \ {a} : K[a] \cap K[b] = {}) => {a} \in G

Singles(S) == [groups |-> {{a} : a \in S}, first |-> <<>>]
KeyStep(K, r, a) ==
  [groups |-> Merge(r.groups, {a} \cup {r.first[k] : k \in K[a] \cap DOMAIN r.first}),
   first |-> [k \in K[a] \cup DOMAIN r.first |-> IF k \in DOMAIN r.first THEN r.first[k] ELSE a]]
KeyReads(h, S, K) ==
  h = [T \in SUBSET S |-> IF T = {} THEN Singles(S) ELSE KeyStep(K, h[T \ {Last(T)}], Last(T))]

LEMMA KeyReadingExists ==
  ASSUME NEW S, IsFiniteSet(S), Identified(S), NEW K
  PROVE  \E h : KeyReads(h, S, K)
<1> DEFINE keys == UNION {K[a] : a \in S}
           firsts == UNION {[D -> S] : D \in SUBSET keys}
           V == [groups : SUBSET SUBSET S, first : firsts]
           rule == [p \in V \X S |-> KeyStep(K, p[1], p[2])]
<1>1. Singles(S) \in V
  <2>1. <<>> \in [{} -> S]
    OBVIOUS
  <2>2. <<>> \in firsts
    BY <2>1
  <2>3. {{a} : a \in S} \in SUBSET SUBSET S
    OBVIOUS
  <2> HIDE DEF firsts
  <2> QED
    BY <2>2, <2>3 DEF Singles
<1>2. ASSUME NEW r \in V, NEW a \in S PROVE KeyStep(K, r, a) \in V
  <2> DEFINE f == [k \in K[a] \cup DOMAIN r.first |-> IF k \in DOMAIN r.first THEN r.first[k] ELSE a]
             R == {a} \cup {r.first[k] : k \in K[a] \cap DOMAIN r.first}
  <2>1. PICK D \in SUBSET keys : r.first \in [D -> S]
    OBVIOUS
  <2>2. K[a] \cup D \in SUBSET keys
    OBVIOUS
  <2>3. f \in [K[a] \cup D -> S]
    BY <2>1
  <2>4. f \in firsts
    <3> DEFINE own == [K[a] \cup D -> S]
    <3> HIDE DEF f, keys
    <3>1. own \in {[E -> S] : E \in SUBSET keys}
      BY <2>2
    <3>2. f \in own
      BY <2>3
    <3> HIDE DEF own
    <3> QED
      BY <3>1, <3>2
  <2>5. r.groups \in SUBSET SUBSET S
    OBVIOUS
  <2>6. Merge(r.groups, R) \in SUBSET SUBSET S
    BY <2>5 DEF Merge
  <2> HIDE DEF firsts
  <2> QED
    BY <2>4, <2>6 DEF KeyStep
<1> HIDE DEF V
<1>3. rule \in [V \X S -> V]
  BY <1>2
<1>4. PICK h \in [SUBSET S -> V] : Reads(h, S, LastOf(S), Singles(S), rule)
  <2> HIDE DEF rule
  <2> QED
    BY <1>1, <1>3, ReadingExists, LastChooses
<1>5. ASSUME NEW T \in SUBSET S, T # {}
      PROVE  rule[<<h[T \ {LastOf(S)[T]}], LastOf(S)[T]>>] = KeyStep(K, h[T \ {Last(T)}], Last(T))
  <2>1. LastOf(S)[T] = Last(T) /\ Last(T) \in S
    BY <1>5, LastIs DEF LastOf
  <2>2. h[T \ {Last(T)}] \in V
    OBVIOUS
  <2> QED
    BY <2>1, <2>2
<1> HIDE DEF rule
<1> QED
  BY <1>4, <1>5 DEF Reads, KeyReads

LEMMA KeyGroups ==
  ASSUME NEW S, IsFiniteSet(S), Identified(S), NEW K, NEW h, KeyReads(h, S, K)
  PROVE  Grouping(h[S].groups, S, K)
<1> DEFINE alone == {a \in S : \A b \in S \ {a} : K[a] \cap K[b] = {}}
           known(T, r) ==
             /\ Partition(r.groups, S)
             /\ DOMAIN r.first = UNION {K[b] : b \in T}
             /\ \A k \in DOMAIN r.first : r.first[k] \in T /\ k \in K[r.first[k]]
             /\ \A b \in T : \A k \in K[b] : Together(r.groups, b, r.first[k])
             /\ \A a \in alone : {a} \in r.groups
           good == {T \in SUBSET S : known(T, h[T])}
<1>1. ASSUME NEW T \in SUBSET S, \A x \in T : T \ {x} \in good PROVE known(T, h[T])
  <2>1. CASE T = {}
    <3>1. h[T] = Singles(S)
      BY <2>1 DEF KeyReads
    <3>2. Partition({{a} : a \in S}, S)
      BY DEF Partition
    <3> QED
      BY <2>1, <3>1, <3>2 DEF Singles
  <2>2. CASE T # {}
    <3> DEFINE a == Last(T)
               r == h[T \ {a}]
               R == {a} \cup {r.first[k] : k \in K[a] \cap DOMAIN r.first}
               f == [k \in K[a] \cup DOMAIN r.first |-> IF k \in DOMAIN r.first THEN r.first[k] ELSE a]
    <3>1. a \in T /\ a \in S
      BY <2>2, LastIs
    <3>2. known(T \ {a}, r)
      BY <1>1, <3>1, Zenon
    <3>3. h[T] = [groups |-> Merge(r.groups, R), first |-> f]
      BY <2>2, Zenon DEF KeyReads, KeyStep
    <3> HIDE DEF a, r
    <3>4. R \in SUBSET S /\ R # {}
      BY <3>1, <3>2
    <3> HIDE DEF R
    <3>5. /\ Partition(Merge(r.groups, R), S)
          /\ \A b, c : Together(r.groups, b, c) => Together(Merge(r.groups, R), b, c)
          /\ \A b, c \in R : Together(Merge(r.groups, R), b, c)
          /\ \A g \in r.groups : g \cap R = {} => g \in Merge(r.groups, R)
      BY <3>2, <3>4, MergeParts
    <3>6. DOMAIN f = UNION {K[b] : b \in T}
      BY <3>1, <3>2
    <3>7. \A k \in DOMAIN f : f[k] \in T /\ k \in K[f[k]]
      BY <3>1, <3>2
    <3>8. ASSUME NEW b \in T, NEW k \in K[b] PROVE Together(Merge(r.groups, R), b, f[k])
      <4>1. CASE b # a
        <5>1. k \in DOMAIN r.first /\ f[k] = r.first[k]
          BY <3>2, <4>1
        <5> QED
          BY <3>2, <3>5, <4>1, <5>1
      <4>2. CASE b = a
        <5>1. f[k] \in R /\ a \in R
          BY <4>2 DEF R
        <5> QED
          BY <3>5, <4>2, <5>1
      <4> QED
        BY <4>1, <4>2
    <3>9. ASSUME NEW b \in alone PROVE {b} \in Merge(r.groups, R)
      <4>1. CASE b \notin R
        BY <3>2, <3>5, <4>1
      <4>2. CASE b \in R
        <5>1. ASSUME NEW k \in K[a] \cap DOMAIN r.first PROVE r.first[k] # a /\ K[a] \cap K[r.first[k]] # {} /\ r.first[k] \in S
          BY <3>2
        <5>2. b = a
          BY <3>1, <4>2, <5>1 DEF R
        <5>3. R = {a}
          BY <5>1, <5>2 DEF R
        <5>4. Merge(r.groups, R) = r.groups
          BY <3>2, <3>4, <5>3, MergeParts
        <5> QED
          BY <3>2, <5>4
      <4> QED
        BY <4>1, <4>2
    <3> HIDE DEF f
    <3> QED
      BY <3>3, <3>5, <3>6, <3>7, <3>8, <3>9
  <2> QED
    BY <2>1, <2>2
<1>2. known(S, h[S])
  <2> HIDE DEF known
  <2>1. \A T \in SUBSET S : (\A x \in T : T \ {x} \in good) => T \in good
    BY <1>1
  <2> HIDE DEF good
  <2>2. S \in good
    BY <2>1, SubsetInduction
  <2> QED
    BY <2>2 DEF good
<1>3. ASSUME NEW a \in S, NEW b \in S, K[a] \cap K[b] # {} PROVE Together(h[S].groups, a, b)
  <2>1. PICK k : k \in K[a] /\ k \in K[b]
    BY <1>3
  <2>2. Together(h[S].groups, a, h[S].first[k]) /\ Together(h[S].groups, b, h[S].first[k])
    BY <1>2, <2>1
  <2> QED
    BY <1>2, <2>2, TogetherIs
<1> QED
  BY <1>2, <1>3 DEF Grouping

\* An act joins the first act of its class in another group.
GroupIn(G, a) == CHOOSE g \in G : a \in g
Others(S, Alike, G, a) == {b \in S : b \notin GroupIn(G, a) /\ Alike[b] = Alike[a]}
JoinClass(S, Alike, G, a) ==
  IF Others(S, Alike, G, a) = {} THEN G ELSE Merge(G, {a, First(Others(S, Alike, G, a))})
FirstOfClass(S, Alike, a) == First({b \in S : Alike[b] = Alike[a]})

LEMMA JoinClassParts ==
  ASSUME NEW S, IsFiniteSet(S), Identified(S), NEW Alike, NEW G, Partition(G, S), NEW a \in S
  PROVE  /\ Partition(JoinClass(S, Alike, G, a), S)
         /\ \A b, c : Together(G, b, c) => Together(JoinClass(S, Alike, G, a), b, c)
         /\ Together(JoinClass(S, Alike, G, a), a, FirstOfClass(S, Alike, a))
         /\ \A b \in S : {b} \in G => \/ {b} \in JoinClass(S, Alike, G, a)
                                      \/ Together(JoinClass(S, Alike, G, a), b, FirstOfClass(S, Alike, b))
<1> DEFINE M == JoinClass(S, Alike, G, a)
           class(b) == {c \in S : Alike[c] = Alike[b]}
           first(b) == FirstOfClass(S, Alike, b)
           same == Others(S, Alike, G, a)
<1>0. ASSUME NEW b \in S
      PROVE  /\ class(b) \in SUBSET S /\ b \in class(b)
             /\ first(b) = First(class(b)) /\ first(b) \in class(b)
  <2>1. class(b) \in SUBSET S /\ b \in class(b)
    OBVIOUS
  <2>2. First(class(b)) \in class(b)
    BY <2>1, LastIs
  <2> QED
    BY <2>1, <2>2 DEF FirstOfClass
<1>1. GroupIn(G, a) \in G /\ a \in GroupIn(G, a)
  <2>1. \E g \in G : a \in g
    BY DEF Partition
  <2> QED
    BY <2>1 DEF GroupIn
<1>2. same \in SUBSET class(a) /\ \A b \in class(a) : b \in same \/ Together(G, a, b)
  <2>1. same \in SUBSET class(a)
    BY DEF Others
  <2>2. ASSUME NEW b \in class(a), b \notin same PROVE b \in GroupIn(G, a)
    BY <2>2 DEF Others
  <2> QED
    BY <1>1, <2>1, <2>2 DEF Together
<1>3. ASSUME NEW b \in S, first(b) \in same, Alike[b] = Alike[a] PROVE First(same) = first(b)
  <2>1. class(b) = class(a)
    BY <1>3
  <2> HIDE DEF same, class
  <2>2. same \in SUBSET class(b) /\ first(b) = First(class(b)) /\ class(b) \in SUBSET S
    BY <1>0, <1>2, <2>1
  <2> QED
    BY <1>3, <2>2, FirstOfPart
<1>4. CASE same = {}
  <2>1. M = G
    BY <1>4 DEF JoinClass
  <2>2. Together(G, a, first(a))
    BY <1>0, <1>2, <1>4
  <2> QED
    BY <2>1, <2>2
<1>5. CASE same # {}
  <2> DEFINE R == {a, First(same)}
  <2>1. M = Merge(G, R)
    BY <1>5 DEF JoinClass
  <2>2. First(same) \in same
    <3> HIDE DEF same
    <3>1. same \in SUBSET S
      BY <1>2
    <3> QED
      BY <1>5, <3>1, LastIs
  <2>3. R \in SUBSET S /\ R # {}
    BY <1>2, <2>2
  <2> HIDE DEF R, M, same, first, class
  <2>4. /\ Partition(M, S)
        /\ \A b, c : Together(G, b, c) => Together(M, b, c)
        /\ \A b, c \in R : Together(M, b, c)
        /\ \A g \in G : g \cap R = {} => g \in M
    BY <2>1, <2>3, MergeParts
  <2>5. Together(M, a, first(a))
    <3>1. CASE first(a) \in same
      <4>1. first(a) = First(same)
        BY <1>3, <3>1
      <4>2. a \in R /\ first(a) \in R
        BY <4>1 DEF R
      <4> QED
        BY <2>4, <4>2
    <3>2. CASE first(a) \notin same
      BY <1>0, <1>2, <2>4, <3>2
    <3> QED
      BY <3>1, <3>2
  <2>6. ASSUME NEW b \in S, {b} \in G, {b} \notin M PROVE Together(M, b, first(b))
    <3>1. b \in R
      BY <2>4, <2>6
    <3>2. CASE b = a
      BY <2>5, <3>2
    <3>3. CASE b = First(same)
      <4>1. b \in class(a)
        BY <1>2, <2>2, <3>3
      <4>2. class(b) = class(a) /\ Alike[b] = Alike[a]
        BY <4>1 DEF class
      <4>3. first(b) \in class(a)
        BY <1>0, <4>2
      <4>4. CASE first(b) \in same
        <5>1. first(b) = b
          BY <1>3, <3>3, <4>2, <4>4
        <5> QED
          BY <2>4, <5>1, TogetherIs
      <4>5. CASE first(b) \notin same
        <5>1. Together(M, a, first(b))
          BY <1>2, <2>4, <4>3, <4>5
        <5>2. Together(M, b, a)
          BY <2>4, <3>3 DEF R
        <5> QED
          BY <2>4, <5>1, <5>2, TogetherIs
      <4> QED
        BY <4>4, <4>5
    <3> QED
      BY <3>1, <3>2, <3>3 DEF R
  <2> QED
    BY <2>4, <2>5, <2>6 DEF M, first
<1> QED
  BY <1>4, <1>5

\* Acts that share no key with another.
Keyless(N, S, K) == \A a \in N, b \in S : a # b => K[a] \cap K[b] = {}

\* Acts of the set N, each alone at first, are with the others of their class in
\* the end, and those that share a key still are together.
LinkReads(h, S, Alike, N, base) ==
  /\ h[{}] = base
  /\ \A T \in SUBSET S : T # {} /\ Partition(h[T \ {Last(T)}], S) =>
       \/ h[T] = JoinClass(S, Alike, h[T \ {Last(T)}], Last(T))
       \/ h[T] = h[T \ {Last(T)}] /\ ~(Last(T) \in N /\ {Last(T)} \in h[T \ {Last(T)}])

LEMMA LinkGroups ==
  ASSUME NEW S, IsFiniteSet(S), Identified(S), NEW Alike, NEW base, NEW K, Grouping(base, S, K),
         NEW N \in SUBSET S, Keyless(N, S, K),
         NEW h, LinkReads(h, S, Alike, N, base)
  PROVE  /\ Partition(h[S], S)
         /\ \A a, b \in S : K[a] \cap K[b] # {} => Together(h[S], a, b)
         /\ \A a, b \in N : Alike[a] = Alike[b] => Together(h[S], a, b)
<1> DEFINE linked(T, G) ==
             /\ Partition(G, S)
             /\ \A a, b : Together(base, a, b) => Together(G, a, b)
             /\ \A a \in N : {a} \in G \/ Together(G, a, FirstOfClass(S, Alike, a))
             /\ \A a \in N \cap T : Together(G, a, FirstOfClass(S, Alike, a))
           good == {T \in SUBSET S : linked(T, h[T])}
<1>0. Partition(base, S) /\ \A a \in N : {a} \in base
  BY DEF Grouping, Keyless
<1>1. ASSUME NEW T \in SUBSET S, \A x \in T : T \ {x} \in good PROVE linked(T, h[T])
  <2>1. CASE T = {}
    BY <1>0, <2>1 DEF LinkReads
  <2>2. CASE T # {}
    <3> DEFINE a == Last(T)
               G == h[T \ {a}]
    <3>1. a \in T /\ a \in S
      BY <2>2, LastIs
    <3>2. linked(T \ {a}, G)
      BY <1>1, <3>1
    <3>3. h[T] = JoinClass(S, Alike, G, a) \/ (h[T] = G /\ ~(a \in N /\ {a} \in G))
      BY <2>2, <3>2 DEF LinkReads
    <3> HIDE DEF a, G
    <3>4. CASE h[T] = JoinClass(S, Alike, G, a)
      <4>1. /\ Partition(h[T], S)
            /\ \A b, c : Together(G, b, c) => Together(h[T], b, c)
            /\ Together(h[T], a, FirstOfClass(S, Alike, a))
            /\ \A b \in S : {b} \in G => {b} \in h[T] \/ Together(h[T], b, FirstOfClass(S, Alike, b))
        BY <3>1, <3>2, <3>4, JoinClassParts
      <4> QED
        BY <3>1, <3>2, <4>1
    <3>5. CASE h[T] = G /\ ~(a \in N /\ {a} \in G)
      BY <3>1, <3>2, <3>5
    <3> QED
      BY <3>3, <3>4, <3>5
  <2> QED
    BY <2>1, <2>2
<1>2. linked(S, h[S])
  <2> HIDE DEF linked
  <2>1. \A T \in SUBSET S : (\A x \in T : T \ {x} \in good) => T \in good
    BY <1>1
  <2> HIDE DEF good
  <2>2. S \in good
    BY <2>1, SubsetInduction
  <2> QED
    BY <2>2 DEF good
<1>3. ASSUME NEW a \in N, NEW b \in N, Alike[a] = Alike[b] PROVE Together(h[S], a, b)
  <2>1. FirstOfClass(S, Alike, a) = FirstOfClass(S, Alike, b)
    BY <1>3 DEF FirstOfClass
  <2>2. Together(h[S], a, FirstOfClass(S, Alike, a)) /\ Together(h[S], b, FirstOfClass(S, Alike, a))
    BY <1>2, <2>1
  <2> QED
    BY <1>2, <2>2, TogetherIs
<1>4. ASSUME NEW a \in S, NEW b \in S, K[a] \cap K[b] # {} PROVE Together(h[S], a, b)
  BY <1>2, <1>4 DEF Grouping
<1> QED
  BY <1>2, <1>3, <1>4

LEMMA PartitionIsFinite ==
  ASSUME NEW S, IsFiniteSet(S), NEW G, Partition(G, S)
  PROVE  IsFiniteSet(G) /\ \A g \in G : g \subseteq S /\ IsFiniteSet(g) /\ g # {}
<1>1. G \subseteq SUBSET S
  BY DEF Partition
<1>2. IsFiniteSet(SUBSET S)
  BY FS_SUBSET
<1>3. IsFiniteSet(G)
  BY <1>1, <1>2, FS_Subset
<1>4. \A g \in G : IsFiniteSet(g)
  BY <1>1, FS_Subset
<1>5. \A g \in G : g # {}
  BY DEF Partition
<1> QED
  BY <1>1, <1>3, <1>4, <1>5

-----------------------------------------------------------------------------
(***************************************************************************)
(* Sums.                                                                   *)
(***************************************************************************)
AnyOf(T) == CHOOSE a \in T : TRUE
SumReads(h, S, f) == h = [T \in SUBSET S |-> IF T = {} THEN 0 ELSE f[AnyOf(T)] + h[T \ {AnyOf(T)}]]
Total(f, S) == (CHOOSE h : SumReads(h, S, f))[S]

LEMMA SumReadingExists ==
  ASSUME NEW S, IsFiniteSet(S), NEW f, \A a \in S : f[a] \in Int
  PROVE  /\ SumReads(CHOOSE h : SumReads(h, S, f), S, f)
         /\ \A T \in SUBSET S : (CHOOSE h : SumReads(h, S, f))[T] \in Int
<1> DEFINE any == [T \in SUBSET S |-> AnyOf(T)]
           rule == [p \in Int \X S |-> f[p[2]] + p[1]]
<1>1. ASSUME NEW T \in SUBSET S, T # {} PROVE any[T] = AnyOf(T) /\ AnyOf(T) \in T
  BY <1>1 DEF AnyOf
<1>2. Chooses(any, S)
  BY <1>1 DEF Chooses
<1>3. rule \in [Int \X S -> Int]
  OBVIOUS
<1>4. PICK h \in [SUBSET S -> Int] : Reads(h, S, any, 0, rule)
  <2> DEFINE V == Int
  <2>1. 0 \in V /\ rule \in [V \X S -> V]
    BY <1>3
  <2> HIDE DEF any, rule, V
  <2>2. \E h \in [SUBSET S -> V] : Reads(h, S, any, 0, rule)
    BY <1>2, <2>1, ReadingExists
  <2> QED
    BY <2>2 DEF V
<1>5. ASSUME NEW T \in SUBSET S, T # {}
      PROVE  rule[<<h[T \ {any[T]}], any[T]>>] = f[AnyOf(T)] + h[T \ {AnyOf(T)}]
  <2>1. AnyOf(T) \in S /\ h[T \ {AnyOf(T)}] \in Int
    BY <1>1, <1>5
  <2> QED
    BY <1>1, <1>5, <2>1
<1>6. SumReads(h, S, f)
  <2> HIDE DEF any, rule
  <2> QED
    BY <1>4, <1>5 DEF Reads, SumReads
<1> DEFINE g == CHOOSE k : SumReads(k, S, f)
<1>7. SumReads(g, S, f)
  BY <1>6
<1> HIDE DEF g
<1> DEFINE good == {T \in SUBSET S : g[T] \in Int}
<1>8. ASSUME NEW T \in SUBSET S, \A x \in T : T \ {x} \in good PROVE g[T] \in Int
  <2>1. CASE T = {}
    BY <1>7, <2>1 DEF SumReads
  <2>2. CASE T # {}
    <3>1. g[T] = f[AnyOf(T)] + g[T \ {AnyOf(T)}] /\ AnyOf(T) \in T
      BY <1>1, <1>7, <2>2 DEF SumReads
    <3>2. g[T \ {AnyOf(T)}] \in Int /\ f[AnyOf(T)] \in Int
      BY <1>8, <3>1
    <3> QED
      BY <3>1, <3>2
  <2> QED
    BY <2>1, <2>2
<1>9. \A T \in SUBSET S : T \in good
  <2>1. \A T \in SUBSET S : (\A x \in T : T \ {x} \in good) => T \in good
    BY <1>8
  <2> HIDE DEF good
  <2> QED
    BY <2>1, SubsetInduction
<1> QED
  BY <1>7, <1>9 DEF g

LEMMA TotalIs ==
  ASSUME NEW S, IsFiniteSet(S), NEW f, \A a \in S : f[a] \in Int
  PROVE  /\ Total(f, {}) = 0 /\ Total(f, S) \in Int
         /\ \A T \in SUBSET S : Total(f, T) = (CHOOSE h : SumReads(h, S, f))[T]
         /\ \A a \in S : Total(f, S) = f[a] + Total(f, S \ {a})
<1> DEFINE sums(T) == CHOOSE h : SumReads(h, T, f)
<1>1. ASSUME NEW T \in SUBSET S
      PROVE  /\ IsFiniteSet(T) /\ Total(f, T) = sums(T)[T]
             /\ SumReads(sums(T), T, f) /\ \A U \in SUBSET T : sums(T)[U] \in Int
  <2>1. IsFiniteSet(T) /\ \A a \in T : f[a] \in Int
    BY FS_Subset
  <2> QED
    BY <2>1, SumReadingExists DEF Total
<1> HIDE DEF sums
<1>2. ASSUME NEW T \in SUBSET S PROVE sums(T)[T] = sums(S)[T]
  <2> DEFINE good == {U \in SUBSET T : sums(T)[U] = sums(S)[U]}
  <2>1. ASSUME NEW U \in SUBSET T, \A x \in U : U \ {x} \in good PROVE sums(T)[U] = sums(S)[U]
    <3>1. CASE U = {}
      BY <1>1, <3>1 DEF SumReads
    <3>2. CASE U # {}
      <4>1. AnyOf(U) \in U
        BY <3>2 DEF AnyOf
      <4>2. sums(T)[U] = f[AnyOf(U)] + sums(T)[U \ {AnyOf(U)}]
        BY <1>1, <3>2 DEF SumReads
      <4>3. sums(S)[U] = f[AnyOf(U)] + sums(S)[U \ {AnyOf(U)}]
        BY <1>1, <3>2 DEF SumReads
      <4> QED
        BY <2>1, <4>1, <4>2, <4>3
    <3> QED
      BY <3>1, <3>2
  <2>2. \A U \in SUBSET T : (\A x \in U : U \ {x} \in good) => U \in good
    BY <2>1
  <2>3. T \in good
    <3> HIDE DEF good
    <3> QED
      BY <1>1, <2>2, SubsetInduction
  <2> QED
    BY <2>3
<1>3. \A T \in SUBSET S : Total(f, T) = sums(S)[T] /\ Total(f, T) \in Int
  BY <1>1, <1>2
<1>4. Total(f, {}) = 0
  BY <1>1, <1>3 DEF SumReads
<1>5. ASSUME NEW T \in SUBSET S, T # {}
      PROVE  AnyOf(T) \in T /\ Total(f, T) = f[AnyOf(T)] + Total(f, T \ {AnyOf(T)})
  <2>1. AnyOf(T) \in T
    BY <1>5 DEF AnyOf
  <2>2. sums(S)[T] = f[AnyOf(T)] + sums(S)[T \ {AnyOf(T)}]
    BY <1>1, <1>5 DEF SumReads
  <2> QED
    BY <1>3, <2>1, <2>2
<1> DEFINE good == {T \in SUBSET S : \A a \in T : Total(f, T) = f[a] + Total(f, T \ {a})}
<1>6. ASSUME NEW T \in SUBSET S, \A x \in T : T \ {x} \in good, NEW a \in T
      PROVE  Total(f, T) = f[a] + Total(f, T \ {a})
  <2> DEFINE c == AnyOf(T)
  <2>1. c \in T /\ Total(f, T) = f[c] + Total(f, T \ {c})
    BY <1>5
  <2> HIDE DEF c
  <2>2. CASE a = c
    BY <2>1, <2>2
  <2>3. CASE a # c
    <3>1. Total(f, T \ {c}) = f[a] + Total(f, (T \ {c}) \ {a})
      BY <1>6, <2>1, <2>3
    <3>2. Total(f, T \ {a}) = f[c] + Total(f, (T \ {a}) \ {c})
      BY <1>6, <2>1, <2>3
    <3> DEFINE rest == Total(f, (T \ {c}) \ {a})
    <3>3. (T \ {c}) \ {a} = (T \ {a}) \ {c}
      OBVIOUS
    <3>4. rest \in Int /\ f[a] \in Int /\ f[c] \in Int
      BY <1>3, <2>1
    <3>5. Total(f, T \ {c}) = f[a] + rest /\ Total(f, T \ {a}) = f[c] + rest
      BY <3>1, <3>2, <3>3
    <3> HIDE DEF rest
    <3> QED
      BY <2>1, <3>4, <3>5
  <2> QED
    BY <2>2, <2>3
<1>7. S \in good
  <2>1. \A T \in SUBSET S : (\A x \in T : T \ {x} \in good) => T \in good
    BY <1>6
  <2> HIDE DEF good
  <2> QED
    BY <2>1, SubsetInduction, Zenon
<1> QED
  BY <1>3, <1>4, <1>7 DEF sums

\* Any reading of a sum reads the same.
LEMMA TotalOfReading ==
  ASSUME NEW S, IsFiniteSet(S), NEW f, \A a \in S : f[a] \in Int, NEW h, SumReads(h, S, f)
  PROVE  h[S] = Total(f, S)
<1> DEFINE g == CHOOSE k : SumReads(k, S, f)
           good == {T \in SUBSET S : h[T] = g[T]}
<1>1. SumReads(g, S, f)
  BY SumReadingExists
<1> HIDE DEF g
<1>2. ASSUME NEW T \in SUBSET S, \A x \in T : T \ {x} \in good PROVE h[T] = g[T]
  <2>1. CASE T = {}
    BY <1>1, <2>1 DEF SumReads
  <2>2. CASE T # {}
    <3>1. AnyOf(T) \in T
      BY <2>2 DEF AnyOf
    <3>2. h[T] = f[AnyOf(T)] + h[T \ {AnyOf(T)}]
      BY <2>2 DEF SumReads
    <3>3. g[T] = f[AnyOf(T)] + g[T \ {AnyOf(T)}]
      BY <1>1, <2>2 DEF SumReads
    <3> QED
      BY <1>2, <3>1, <3>2, <3>3
  <2> QED
    BY <2>1, <2>2
<1>3. \A T \in SUBSET S : (\A x \in T : T \ {x} \in good) => T \in good
  BY <1>2
<1>4. S \in good
  <2> HIDE DEF good
  <2> QED
    BY <1>3, SubsetInduction, Zenon
<1> QED
  BY <1>4 DEF g, Total

\* Totals of values that are the same are the same.
LEMMA TotalsAgree ==
  ASSUME NEW S, IsFiniteSet(S), NEW f, NEW g, \A a \in S : f[a] \in Int /\ f[a] = g[a]
  PROVE  Total(f, S) = Total(g, S)
<1> DEFINE h == CHOOSE k : SumReads(k, S, f)
<1>1. SumReads(h, S, f)
  BY SumReadingExists
<1> HIDE DEF h
<1>2. \A T \in SUBSET S : T # {} => AnyOf(T) \in S
  BY DEF AnyOf
<1>3. SumReads(h, S, g)
  BY <1>1, <1>2 DEF SumReads
<1> QED
  BY <1>1, <1>3, TotalOfReading

\* Of the values of the members of a set, one more and the rest.
LEMMA TotalSteps ==
  ASSUME NEW S, IsFiniteSet(S), NEW f, \A a \in S : f[a] \in Int
  PROVE  /\ Total(f, {}) = 0
         /\ \A T \in SUBSET S : Total(f, T) \in Int
         /\ \A T \in SUBSET S : \A a \in T : Total(f, T) = f[a] + Total(f, T \ {a})
<1>1. ASSUME NEW T \in SUBSET S PROVE IsFiniteSet(T) /\ \A a \in T : f[a] \in Int
  BY FS_Subset
<1> QED
  BY <1>1, TotalIs

\* What holds of no members, and of a set if of the set without one of them.
LEMMA OneByOne ==
  ASSUME NEW S, IsFiniteSet(S), NEW Good, {} \in Good,
         \A T \in SUBSET S : \A a \in T : T \ {a} \in Good => T \in Good
  PROVE  S \in Good
<1>1. ASSUME NEW T \in SUBSET S, \A a \in T : T \ {a} \in Good PROVE T \in Good
  <2>1. CASE T = {}
    BY <2>1
  <2>2. CASE T # {}
    BY <1>1, <2>2
  <2> QED
    BY <2>1, <2>2
<1> QED
  BY <1>1, SubsetInduction

\* The total of sums is the sum of the totals.
LEMMA TotalAdds ==
  ASSUME NEW S, IsFiniteSet(S), NEW f, NEW g, NEW h,
         \A a \in S : f[a] \in Int /\ g[a] \in Int /\ h[a] = f[a] + g[a]
  PROVE  Total(h, S) = Total(f, S) + Total(g, S)
<1> DEFINE good == {T \in SUBSET S : Total(h, T) = Total(f, T) + Total(g, T)}
<1>1. \A a \in S : h[a] \in Int
  OBVIOUS
<1>2. {} \in good
  BY TotalSteps, <1>1
<1>3. ASSUME NEW T \in SUBSET S, NEW a \in T, T \ {a} \in good PROVE T \in good
  <2>1. Total(h, T) = h[a] + Total(h, T \ {a}) /\ Total(h, T \ {a}) \in Int
    BY TotalSteps, <1>1
  <2>2. Total(f, T) = f[a] + Total(f, T \ {a}) /\ Total(f, T \ {a}) \in Int
    BY TotalSteps
  <2>3. Total(g, T) = g[a] + Total(g, T \ {a}) /\ Total(g, T \ {a}) \in Int
    BY TotalSteps
  <2>4. Total(h, T \ {a}) = Total(f, T \ {a}) + Total(g, T \ {a})
    BY <1>3
  <2>5. f[a] \in Int /\ g[a] \in Int /\ h[a] = f[a] + g[a]
    OBVIOUS
  <2> QED
    BY <2>1, <2>2, <2>3, <2>4, <2>5
<1> HIDE DEF good
<1>4. S \in good
  BY <1>2, <1>3, OneByOne
<1> QED
  BY <1>4 DEF good

\* Of values that are nothing outside a part, the total is that of the part.
LEMMA TotalOfPart ==
  ASSUME NEW S, IsFiniteSet(S), NEW f, \A a \in S : f[a] \in Int,
         NEW P \in SUBSET S, \A a \in S \ P : f[a] = 0
  PROVE  Total(f, S) = Total(f, P)
<1> DEFINE good == {T \in SUBSET S : Total(f, T) = Total(f, T \cap P)}
<1>1. {} \in good
  BY TotalSteps
<1>2. ASSUME NEW T \in SUBSET S, NEW a \in T, T \ {a} \in good PROVE T \in good
  <2>1. Total(f, T) = f[a] + Total(f, T \ {a}) /\ Total(f, T \ {a}) \in Int
    BY TotalSteps
  <2>2. Total(f, T \ {a}) = Total(f, (T \ {a}) \cap P)
    BY <1>2
  <2>3. CASE a \in P
    <3>1. a \in T \cap P /\ (T \cap P) \ {a} = (T \ {a}) \cap P
      BY <2>3
    <3>2. Total(f, T \cap P) = f[a] + Total(f, (T \cap P) \ {a})
      BY <3>1, TotalSteps
    <3> QED
      BY <2>1, <2>2, <3>1, <3>2
  <2>4. CASE a \notin P
    <3>1. f[a] = 0
      BY <2>4
    <3>2. (T \ {a}) \cap P = T \cap P
      BY <2>4
    <3>3. Total(f, T) = Total(f, T \ {a})
      BY <2>1, <3>1
    <3> QED
      BY <2>2, <3>2, <3>3
  <2> QED
    BY <2>3, <2>4
<1> HIDE DEF good
<1>3. S \in good
  BY <1>1, <1>2, OneByOne
<1> QED
  BY <1>3 DEF good

\* A table of values, F[a][k], read by rows and by columns.
IsTable(S, K, F, column) ==
  /\ IsFiniteSet(S) /\ IsFiniteSet(K)
  /\ \A a \in S : \A k \in K : F[a][k] \in Int /\ column[k][a] = F[a][k]
RowTotals(S, K, F) == [a \in S |-> Total(F[a], K)]

\* A total over members by rows is the total by columns.
LEMMA TotalSwaps ==
  ASSUME NEW S, NEW K, NEW F, NEW column, IsTable(S, K, F, column)
  PROVE  Total(RowTotals(S, K, F), S) = Total(RowTotals(K, S, column), K)
<1>2. ASSUME NEW k \in K
      PROVE  /\ Total(column[k], {}) = 0
             /\ \A T \in SUBSET S : Total(column[k], T) \in Int
             /\ \A T \in SUBSET S : \A a \in T : Total(column[k], T) = F[a][k] + Total(column[k], T \ {a})
  <2>1. \A a \in S : column[k][a] \in Int /\ column[k][a] = F[a][k]
    BY DEF IsTable
  <2>2. PICK f : f = column[k]
    OBVIOUS
  <2>3. (\A a \in S : f[a] \in Int) /\ IsFiniteSet(S)
    BY <2>1, <2>2 DEF IsTable
  <2>4. /\ Total(f, {}) = 0
        /\ \A T \in SUBSET S : Total(f, T) \in Int
        /\ \A T \in SUBSET S : \A a \in T : Total(f, T) = f[a] + Total(f, T \ {a})
    BY <2>3, TotalSteps
  <2> QED
    BY <2>1, <2>2, <2>4
<1> DEFINE by(T) == [k \in K |-> Total(column[k], T)]
           rows == RowTotals(S, K, F)
           good == {T \in SUBSET S : Total(rows, T) = Total(by(T), K)}
<1>0. IsFiniteSet(S) /\ IsFiniteSet(K) /\ \A a \in S : \A k \in K : F[a][k] \in Int
  BY DEF IsTable
<1>1. ASSUME NEW a \in S PROVE rows[a] = Total(F[a], K) /\ rows[a] \in Int
  <2>1. PICK f : f = F[a]
    OBVIOUS
  <2>2. \A k \in K : f[k] \in Int
    BY <1>0, <2>1
  <2> QED
    BY <1>0, <2>1, <2>2, TotalIs DEF RowTotals
<1> HIDE DEF rows
<1>3. {} \in good
  <2>1. PICK f : f = by({})
    OBVIOUS
  <2>2. \A k \in K : f[k] = 0
    BY <1>2, <2>1
  <2>3. Total(f, K) = Total(f, {})
    BY <1>0, <2>2, TotalOfPart
  <2>4. Total(f, {}) = 0
    BY <1>0, <2>2, TotalSteps
  <2>5. Total(rows, {}) = 0
    BY <1>0, <1>1, TotalSteps
  <2> QED
    BY <2>1, <2>3, <2>4, <2>5
<1>4. ASSUME NEW T \in SUBSET S, NEW a \in T, T \ {a} \in good PROVE T \in good
  <2>1. Total(rows, T) = rows[a] + Total(rows, T \ {a})
    BY <1>0, <1>1, TotalSteps
  <2>2. Total(rows, T \ {a}) = Total(by(T \ {a}), K)
    BY <1>4
  <2>3. PICK e : e = F[a]
    OBVIOUS
  <2>4. PICK f : f = by(T \ {a})
    OBVIOUS
  <2>5. PICK g : g = by(T)
    OBVIOUS
  <2>6. \A k \in K : g[k] = e[k] + f[k] /\ e[k] \in Int /\ f[k] \in Int
    <3> SUFFICES ASSUME NEW k \in K PROVE g[k] = e[k] + f[k] /\ e[k] \in Int /\ f[k] \in Int
      OBVIOUS
    <3>1. e[k] = F[a][k] /\ f[k] = Total(column[k], T \ {a}) /\ g[k] = Total(column[k], T)
      BY <2>3, <2>4, <2>5
    <3>2. Total(column[k], T) = F[a][k] + Total(column[k], T \ {a}) /\ Total(column[k], T \ {a}) \in Int
      <4>1. T \ {a} \in SUBSET S
        OBVIOUS
      <4> HIDE DEF good, by
      <4> QED
        BY <1>2, <4>1
    <3>3. F[a][k] \in Int
      BY <1>0
    <3> QED
      BY <3>1, <3>2, <3>3
  <2>7. Total(g, K) = Total(e, K) + Total(f, K)
    BY <1>0, <2>6, TotalAdds
  <2> QED
    BY <1>1, <2>1, <2>2, <2>3, <2>4, <2>5, <2>7
<1> HIDE DEF good
<1>5. S \in good
  BY <1>0, <1>3, <1>4, OneByOne
<1>6. by(S) = RowTotals(K, S, column)
  BY DEF RowTotals
<1> HIDE DEF by
<1>7. Total(rows, S) = Total(by(S), K)
  BY <1>5 DEF good
<1> QED
  BY <1>6, <1>7 DEF rows

\* The total over a set is the total, over some keys, of those of each key.
LEMMA TotalByKey ==
  ASSUME NEW S, IsFiniteSet(S), NEW K, IsFiniteSet(K), NEW f, NEW key,
         \A a \in S : f[a] \in Int /\ key[a] \in K
  PROVE  Total(f, S) = Total([k \in K |-> Total(f, {a \in S : key[a] = k})], K)
<1> DEFINE F == [a \in S |-> [k \in K |-> IF key[a] = k THEN f[a] ELSE 0]]
           column == [k \in K |-> [a \in S |-> F[a][k]]]
<1>1. ASSUME NEW a \in S PROVE Total(F[a], K) = f[a]
  <2>1. PICK e : e = F[a]
    OBVIOUS
  <2>2. key[a] \in K /\ f[a] \in Int /\ \A k \in K : e[k] = IF key[a] = k THEN f[a] ELSE 0
    BY <2>1
  <2>3. \A k \in K : e[k] \in Int
    BY <2>2
  <2>4. Total(e, K) = Total(e, {key[a]})
    BY <2>2, <2>3, TotalOfPart
  <2>5. Total(e, {key[a]}) = e[key[a]] + Total(e, {key[a]} \ {key[a]})
    BY <2>2, <2>3, TotalSteps
  <2>6. {key[a]} \ {key[a]} = {} /\ Total(e, {}) = 0
    BY <2>3, TotalSteps
  <2>7. e[key[a]] = f[a]
    BY <2>2
  <2>8. Total(e, {key[a]}) = f[a] + 0
    BY <2>5, <2>6, <2>7
  <2> QED
    BY <2>1, <2>2, <2>4, <2>8
<1>2. ASSUME NEW k \in K PROVE Total(column[k], S) = Total(f, {a \in S : key[a] = k})
  <2>1. PICK e : e = column[k]
    OBVIOUS
  <2>2. PICK P : P = {a \in S : key[a] = k}
    OBVIOUS
  <2>3. P \in SUBSET S /\ (\A a \in P : e[a] = f[a]) /\ (\A a \in S \ P : e[a] = 0) /\ \A a \in S : e[a] \in Int
    BY <2>1, <2>2
  <2>4. Total(e, S) = Total(e, P)
    BY <2>3, TotalOfPart
  <2>5. IsFiniteSet(P)
    BY <2>3, FS_Subset
  <2>6. Total(e, P) = Total(f, P)
    BY <2>3, <2>5, TotalsAgree
  <2> QED
    BY <2>1, <2>2, <2>4, <2>6
<1>3. IsTable(S, K, F, column)
  BY DEF IsTable
<1> HIDE DEF F, column
<1>4. Total(RowTotals(S, K, F), S) = Total(RowTotals(K, S, column), K)
  BY <1>3, TotalSwaps
<1>5. Total(RowTotals(S, K, F), S) = Total(f, S)
  <2>1. \A a \in S : RowTotals(S, K, F)[a] = f[a]
    BY <1>1 DEF RowTotals
  <2> QED
    BY <2>1, TotalsAgree
<1>6. Total(RowTotals(K, S, column), K) = Total([k \in K |-> Total(f, {a \in S : key[a] = k})], K)
  <2>1. RowTotals(K, S, column) = [k \in K |-> Total(f, {a \in S : key[a] = k})]
    BY <1>2 DEF RowTotals
  <2> QED
    BY <2>1
<1> QED
  BY <1>4, <1>5, <1>6

\* The sums of the models are totals.
LEMMA SumsAre ==
  /\ \A f : Pan!SumFunction(f) = Total(f, DOMAIN f)
  /\ \A f : Sup!SumFunction(f) = Total(f, DOMAIN f)
  /\ \A f : Exc!SumFunction(f) = Total(f, DOMAIN f)
<1>1. \A f : Pan!SumFunction(f) = Total(f, DOMAIN f)
  BY DEF Pan!SumFunction, Pan!SumFunctionOnSet, Pan!FoldFunctionOnSet, Pan!MapThenFoldSet, Total, SumReads, AnyOf
<1>2. \A f : Sup!SumFunction(f) = Total(f, DOMAIN f)
  BY DEF Sup!SumFunction, Sup!SumFunctionOnSet, Sup!FoldFunctionOnSet, Sup!MapThenFoldSet, Total, SumReads, AnyOf
<1>3. \A f : Exc!SumFunction(f) = Total(f, DOMAIN f)
  BY DEF Exc!SumFunction, Exc!SumFunctionOnSet, Exc!FoldFunctionOnSet, Exc!MapThenFoldSet, Total, SumReads, AnyOf
<1> QED
  BY <1>1, <1>2, <1>3

\* What an only member is worth is the total.
LEMMA TotalAtOne ==
  ASSUME NEW K, IsFiniteSet(K), NEW f, NEW k \in K, f[k] \in Int, \A j \in K \ {k} : f[j] = 0
  PROVE  Total(f, K) = f[k]
<1>1. \A j \in K : f[j] \in Int
  OBVIOUS
<1>2. Total(f, K) = Total(f, {k})
  BY <1>1, TotalOfPart
<1>3. Total(f, {k}) = f[k] + Total(f, {k} \ {k})
  BY <1>1, TotalSteps
<1>4. {k} \ {k} = {} /\ Total(f, {}) = 0
  BY <1>1, TotalSteps
<1>5. Total(f, {k}) = f[k] + 0
  BY <1>3, <1>4
<1> QED
  BY <1>2, <1>5

\* A total of ones counts.
LEMMA TotalOfOnes ==
  ASSUME NEW S, IsFiniteSet(S), NEW f, \A a \in S : f[a] = 1
  PROVE  Total(f, S) = Cardinality(S)
<1> DEFINE good == {T \in SUBSET S : Total(f, T) = Cardinality(T)}
<1>0. \A a \in S : f[a] \in Int
  OBVIOUS
<1>1. {} \in good
  BY <1>0, TotalSteps, FS_EmptySet
<1>2. ASSUME NEW T \in SUBSET S, NEW a \in T, T \ {a} \in good PROVE T \in good
  <2>1. Total(f, T) = f[a] + Total(f, T \ {a})
    BY <1>0, TotalSteps
  <2>2. IsFiniteSet(T) /\ Cardinality(T \ {a}) = Cardinality(T) - 1 /\ Cardinality(T) \in Nat
    BY FS_Subset, FS_RemoveElement, FS_CardinalityType
  <2>3. f[a] = 1 /\ Total(f, T \ {a}) = Cardinality(T \ {a})
    BY <1>2
  <2> QED
    BY <2>1, <2>2, <2>3
<1> HIDE DEF good
<1>3. S \in good
  BY <1>1, <1>2, OneByOne
<1> QED
  BY <1>3 DEF good

\* A total of no less than nothing is no less than that of a part.
LEMMA TotalGrows ==
  ASSUME NEW S, IsFiniteSet(S), NEW f, \A a \in S : f[a] \in Nat, NEW P \in SUBSET S
  PROVE  Total(f, S) \in Nat /\ Total(f, P) \in Nat /\ Total(f, P) <= Total(f, S)
<1> DEFINE good == {T \in SUBSET S : Total(f, T) \in Nat /\ Total(f, T \cap P) \in Nat /\ Total(f, T \cap P) <= Total(f, T)}
<1>0. \A a \in S : f[a] \in Int
  OBVIOUS
<1>1. {} \in good
  <2>1. Total(f, {}) = 0 /\ {} \cap P = {}
    BY <1>0, TotalSteps
  <2> QED
    BY <2>1
<1>2. ASSUME NEW T \in SUBSET S, NEW a \in T, T \ {a} \in good PROVE T \in good
  <2>1. Total(f, T) = f[a] + Total(f, T \ {a}) /\ f[a] \in Nat
    BY <1>0, TotalSteps
  <2>2. /\ Total(f, T \ {a}) \in Nat /\ Total(f, (T \ {a}) \cap P) \in Nat
        /\ Total(f, (T \ {a}) \cap P) <= Total(f, T \ {a})
    BY <1>2
  <2>3. CASE a \in P
    <3>1. a \in T \cap P /\ (T \cap P) \ {a} = (T \ {a}) \cap P
      BY <2>3
    <3>2. Total(f, T \cap P) = f[a] + Total(f, (T \cap P) \ {a})
      BY <1>0, <3>1, TotalSteps
    <3>3. Total(f, T \cap P) = f[a] + Total(f, (T \ {a}) \cap P)
      BY <3>1, <3>2
    <3>4. Total(f, T) \in Nat /\ Total(f, T \cap P) \in Nat /\ Total(f, T \cap P) <= Total(f, T)
      <4> HIDE DEF good
      <4> QED
        BY <2>1, <2>2, <3>3
    <3> QED
      BY <3>4
  <2>4. CASE a \notin P
    <3>1. (T \ {a}) \cap P = T \cap P
      BY <2>4
    <3>2. Total(f, T) \in Nat /\ Total(f, T \cap P) \in Nat /\ Total(f, T \cap P) <= Total(f, T)
      <4> HIDE DEF good
      <4> QED
        BY <2>1, <2>2, <3>1
    <3> QED
      BY <3>2
  <2> QED
    BY <2>3, <2>4
<1> HIDE DEF good
<1>3. S \in good
  BY <1>1, <1>2, OneByOne
<1>4. S \cap P = P
  OBVIOUS
<1> QED
  BY <1>3, <1>4 DEF good

\* The total over what different keys stand for is that over the keys.
LEMMA TotalOfImage ==
  ASSUME NEW K, IsFiniteSet(K), NEW of, NEW f, NEW g,
         \A k \in K : g[k] \in Int /\ f[of[k]] = g[k],
         \A j, k \in K : of[j] = of[k] => j = k
  PROVE  Total(f, {of[k] : k \in K}) = Total(g, K)
<1> DEFINE S == {of[k] : k \in K}
           all(T) == {of[k] : k \in T}
           good == {T \in SUBSET K : Total(f, all(T)) = Total(g, T)}
<1>1. IsFiniteSet(S) /\ \A a \in S : f[a] \in Int
  BY ImagesAreFinite
<1>2. {} \in good
  <2>1. all({}) = {}
    OBVIOUS
  <2> HIDE DEF all
  <2>2. Total(f, {}) = 0 /\ Total(g, {}) = 0
    BY <1>1, TotalSteps
  <2> QED
    BY <2>1, <2>2
<1>3. ASSUME NEW T \in SUBSET K, NEW k \in T, T \ {k} \in good PROVE T \in good
  <2>1. all(T) \in SUBSET S /\ of[k] \in all(T) /\ all(T) \ {of[k]} = all(T \ {k})
    OBVIOUS
  <2>2. Total(f, all(T \ {k})) = Total(g, T \ {k})
    BY <1>3
  <2> HIDE DEF all, S, good
  <2>3. Total(f, all(T)) = f[of[k]] + Total(f, all(T) \ {of[k]})
    BY <1>1, <2>1, TotalSteps
  <2>4. Total(g, T) = g[k] + Total(g, T \ {k})
    BY TotalSteps
  <2>5. f[of[k]] = g[k]
    OBVIOUS
  <2>6. Total(f, all(T)) = Total(g, T)
    BY <2>1, <2>2, <2>3, <2>4, <2>5
  <2> QED
    BY <2>6 DEF good
<1> HIDE DEF good
<1>4. K \in good
  BY <1>2, <1>3, OneByOne
<1> QED
  BY <1>4 DEF good

-----------------------------------------------------------------------------
(***************************************************************************)
(* The patterns of suppliers.                                              *)
(***************************************************************************)

LEMMA GreatestExists ==
  ASSUME NEW S, IsFiniteSet(S), S \subseteq Nat, S # {}
  PROVE  \E n \in S : \A k \in S : k <= n
<1> DEFINE above(n) == {m \in S : m > n}
           counts == {Cardinality(above(n)) : n \in S}
<1>1. \A n : IsFiniteSet(above(n)) /\ Cardinality(above(n)) \in Nat
  BY FS_Subset, FS_CardinalityType
<1>2. PICK n \in S : \A m \in S : Cardinality(above(n)) <= Cardinality(above(m))
  <2>1. counts \subseteq Nat /\ counts # {}
    BY <1>1
  <2>2. PICK c \in counts : \A d \in counts : c <= d
    BY <2>1, LeastNatural
  <2> QED
    BY <2>2
<1>3. ASSUME NEW k \in S, k > n PROVE FALSE
  <2>1. above(k) \subseteq above(n) /\ k \in above(n) /\ k \notin above(k)
    <3>1. \A m \in S : m \in Nat
      OBVIOUS
    <3>2. \A m \in S : m > k => m > n
      BY <1>3, <3>1
    <3>3. ~(k > k)
      BY <3>1
    <3> QED
      BY <1>3, <3>2, <3>3
  <2>2. Cardinality(above(k)) <= Cardinality(above(n))
        /\ (Cardinality(above(k)) = Cardinality(above(n)) => above(k) = above(n))
    BY <1>1, <2>1, FS_Subset
  <2>3. Cardinality(above(n)) <= Cardinality(above(k))
    BY <1>2
  <2>4. Cardinality(above(n)) \in Nat /\ Cardinality(above(k)) \in Nat
    BY <1>1
  <2> HIDE DEF above
  <2> QED
    BY <2>1, <2>2, <2>3, <2>4
<1>4. \A k \in S : k <= n
  BY <1>3
<1> QED
  BY <1>4

LEMMA GreatestOfFinite ==
  ASSUME NEW S, IsFiniteSet(S), S \subseteq Nat, S # {}
  PROVE  Sup!Greatest(S) \in S /\ \A n \in S : n <= Sup!Greatest(S)
  BY GreatestExists DEF Sup!Greatest

SuppliersTopic ==
  topic = "suppliers" =>
    /\ given \subseteq SupplierActs /\ IsFiniteSet(given)
    /\ beside \subseteq SupplierPayments /\ IsFiniteSet(beside)

LEMMA SuppliersHold == DomainSpec => []SuppliersTopic
<1>1. DomainInit => SuppliersTopic
  BY FS_EmptySet DEF DomainInit, SuppliersTopic
<1>2. SuppliersTopic /\ [DomainNext]_DomainVars => SuppliersTopic'
  <2> SUFFICES ASSUME SuppliersTopic, [DomainNext]_DomainVars, topic = "suppliers"
               PROVE  /\ given' \subseteq SupplierActs /\ IsFiniteSet(given')
                      /\ beside' \subseteq SupplierPayments /\ IsFiniteSet(beside')
    BY SameTopic DEF SuppliersTopic
  <2>1. CASE Sup!Next
    BY <2>1, FS_AddElement DEF SuppliersTopic, Sup!Next, Sup!Publish, Sup!Pay
  <2>2. CASE UNCHANGED DomainVars
    BY <2>2 DEF SuppliersTopic, DomainVars
  <2> QED
    BY <2>1, <2>2 DEF DomainNext
<1> QED
  BY <1>1, <1>2, PTL DEF DomainSpec

LEMMA OneOfEachBaseIs ==
  ASSUME NEW S, S \subseteq Nat
  PROVE  /\ Sup!OneOfEachBase(S) \subseteq S
         /\ \A c, d \in Sup!OneOfEachBase(S) : c # d => Sup!Base(c) # Sup!Base(d)
  BY DEF Sup!OneOfEachBase

\* The suppliers of a group share its key, and are of different companies.
LEMMA GroupsShare ==
  /\ \A g \in Sup!SharedGroups(Sup!NamedPartners) :
       /\ \A c \in g.suppliers : c \in Sup!SuppliersAnnounced /\ g.key \in Profiles[c].partners
       /\ \A c, d \in g.suppliers : c # d => Sup!Base(c) # Sup!Base(d)
  /\ \A g \in Sup!SharedGroups(Sup!AddressKeys) :
       /\ \A c \in g.suppliers : c \in Sup!SuppliersAnnounced
       /\ \A c, d \in g.suppliers : c # d => Sup!Base(c) # Sup!Base(d)
<1> DEFINE known == {c \in Sup!SuppliersAnnounced : Sup!Known(c)}
<1>1. ASSUME NEW S, S \subseteq known
      PROVE  /\ Sup!OneOfEachBase(S) \subseteq S
             /\ \A c, d \in Sup!OneOfEachBase(S) : c # d => Sup!Base(c) # Sup!Base(d)
  BY <1>1, OneOfEachBaseIs, SuppliersAssumption DEF Sup!Known
<1>2. ASSUME NEW g \in Sup!SharedGroups(Sup!NamedPartners)
      PROVE  g.suppliers = Sup!OneOfEachBase({c \in known : g.key \in Sup!NamedPartners(Profiles[c])})
  <2>1. PICK k : g = [key |-> k, suppliers |-> Sup!OneOfEachBase({c \in known : k \in Sup!NamedPartners(Profiles[c])})]
    BY Zenon DEF Sup!SharedGroups
  <2>2. g.key = k /\ g.suppliers = Sup!OneOfEachBase({c \in known : k \in Sup!NamedPartners(Profiles[c])})
    BY <2>1
  <2> QED
    BY <2>2, Zenon
<1>3. ASSUME NEW g \in Sup!SharedGroups(Sup!AddressKeys)
      PROVE  g.suppliers = Sup!OneOfEachBase({c \in known : g.key \in Sup!AddressKeys(Profiles[c])})
  <2>1. PICK k : g = [key |-> k, suppliers |-> Sup!OneOfEachBase({c \in known : k \in Sup!AddressKeys(Profiles[c])})]
    BY Zenon DEF Sup!SharedGroups
  <2>2. g.key = k /\ g.suppliers = Sup!OneOfEachBase({c \in known : k \in Sup!AddressKeys(Profiles[c])})
    BY <2>1
  <2> QED
    BY <2>2, Zenon
<1> HIDE DEF known
<1>4. \A g \in Sup!SharedGroups(Sup!NamedPartners) :
        /\ \A c \in g.suppliers : c \in known /\ g.key \in Profiles[c].partners
        /\ \A c, d \in g.suppliers : c # d => Sup!Base(c) # Sup!Base(d)
  BY <1>1, <1>2, Zenon DEF Sup!NamedPartners
<1>5. \A g \in Sup!SharedGroups(Sup!AddressKeys) :
        /\ \A c \in g.suppliers : c \in known
        /\ \A c, d \in g.suppliers : c # d => Sup!Base(c) # Sup!Base(d)
  BY <1>1, <1>3
<1> QED
  BY <1>4, <1>5 DEF known

LEMMA GroupsHold == Sup!GroupsAreOfDifferentCompanies
<1>1. ASSUME NEW g \in Sup!FindSharedPartners
      PROVE  /\ g.partners # {}
             /\ \A c \in g.suppliers : c \in Sup!SuppliersAnnounced /\ g.partners \subseteq Profiles[c].partners
             /\ \A c, d \in g.suppliers : c # d => Sup!Base(c) # Sup!Base(d)
             /\ g = [suppliers |-> g.suppliers,
                     partners |-> {h.key : h \in {i \in Sup!SharedGroups(Sup!NamedPartners) : i.suppliers = g.suppliers}}]
  <2> DEFINE same(s) == {i \in Sup!SharedGroups(Sup!NamedPartners) : i.suppliers = s}
  <2>1. PICK f \in Sup!SharedGroups(Sup!NamedPartners) :
          g = [suppliers |-> f.suppliers, partners |-> {h.key : h \in same(f.suppliers)}]
    BY Zenon DEF Sup!FindSharedPartners
  <2> HIDE DEF same
  <2>2. g.suppliers = f.suppliers /\ g.partners = {h.key : h \in same(f.suppliers)}
    BY <2>1
  <2>3. f \in same(f.suppliers)
    BY <2>1 DEF same
  <2>4. \A h \in same(f.suppliers) : h \in Sup!SharedGroups(Sup!NamedPartners) /\ h.suppliers = g.suppliers
    BY <2>2 DEF same
  <2>5. \A c \in g.suppliers : g.partners \subseteq Profiles[c].partners
    BY <2>2, <2>4, GroupsShare
  <2>6. g.partners # {}
    BY <2>2, <2>3
  <2>7. /\ \A c \in g.suppliers : c \in Sup!SuppliersAnnounced
        /\ \A c, d \in g.suppliers : c # d => Sup!Base(c) # Sup!Base(d)
    BY <2>1, <2>2, GroupsShare
  <2>8. g = [suppliers |-> g.suppliers, partners |-> {h.key : h \in same(g.suppliers)}]
    BY <2>1, <2>2
  <2> QED
    BY <2>5, <2>6, <2>7, <2>8 DEF same
<1>2. \A c \in Sup!SuppliersAnnounced : Sup!ContractsOf(c) # {}
  BY DEF Sup!SuppliersAnnounced, Sup!ContractsOf
<1>3. ASSUME NEW g \in Sup!FindSharedAddresses
      PROVE  /\ \A c \in g.suppliers : c \in Sup!SuppliersAnnounced
             /\ \A c, d \in g.suppliers : c # d => Sup!Base(c) # Sup!Base(d)
  BY GroupsShare DEF Sup!FindSharedAddresses
<1>4. ASSUME NEW g \in Sup!FindSharedPartners, NEW h \in Sup!FindSharedPartners, h.suppliers = g.suppliers
      PROVE  h = g
  BY <1>1, <1>4
<1> QED
  BY <1>1, <1>2, <1>3, <1>4 DEF Sup!GroupsAreOfDifferentCompanies

LEMMA UnpaidHold ==
  ASSUME beside \subseteq SupplierPayments, IsFiniteSet(beside)
  PROVE  Sup!UnpaidWasNeverPaid
<1> SUFFICES ASSUME NEW c \in Sup!FindUnpaidContracts
             PROVE  /\ \A p \in Sup!CreditorPayments(c.cnpj) :
                         Sup!CreditorCents(c.cnpj) > 0 /\ p.cents > 0 =>
                           p.year \notin {Sup!Year(c.day), Sup!Year(c.day) + 1}
                    /\ \E p \in beside : p.year >= Sup!Year(c.day) + 1
  BY DEF Sup!UnpaidWasNeverPaid
<1>1. ASSUME NEW p \in Sup!CreditorPayments(c.cnpj), Sup!CreditorCents(c.cnpj) > 0, p.cents > 0
      PROVE  p.year \notin {Sup!Year(c.day), Sup!Year(c.day) + 1}
  <2>1. p \in beside /\ p.cnpj = c.cnpj
    BY DEF Sup!CreditorPayments
  <2>2. c.cnpj \in Sup!PaidCreditors
    BY <1>1, <2>1 DEF Sup!PaidCreditors
  <2>3. p.year \in Sup!PaidYears(c.cnpj)
    BY <1>1 DEF Sup!PaidYears
  <2> QED
    BY <2>2, <2>3 DEF Sup!FindUnpaidContracts
<1>2. \E p \in beside : p.year >= Sup!Year(c.day) + 1
  <2>1. Sup!PaymentsCoverage # {} /\ Sup!Year(c.day) + 1 <= Sup!Greatest(Sup!PaymentsCoverage)
    BY DEF Sup!FindUnpaidContracts
  <2>2. Sup!PaymentsCoverage \subseteq Nat
    BY SuppliersAssumption DEF Sup!PaymentsCoverage
  <2>3. IsFiniteSet(Sup!PaymentsCoverage)
    <3>1. IsFiniteSet({q \in beside : q.cents # 0})
      BY FS_Subset
    <3> DEFINE S == {q \in beside : q.cents # 0}
               f == [p \in S |-> p.year]
    <3>0. f \in [S -> Nat]
      BY SuppliersAssumption
    <3>2. IsFiniteSet({f[p] : p \in S})
      BY <3>1, ImagesAreFinite, Zenon
    <3>3. {f[p] : p \in S} = {p.year : p \in S}
      OBVIOUS
    <3> QED
      BY <3>2, <3>3 DEF Sup!PaymentsCoverage
  <2>4. Sup!Greatest(Sup!PaymentsCoverage) \in Sup!PaymentsCoverage
    BY <2>1, <2>2, <2>3, GreatestOfFinite
  <2>5. PICK p \in beside : p.year = Sup!Greatest(Sup!PaymentsCoverage)
    BY <2>4 DEF Sup!PaymentsCoverage
  <2> QED
    BY <2>1, <2>5
<1> QED
  BY <1>1, <1>2

LEMMA UncitedHold ==
  ASSUME given \subseteq SupplierActs, IsFiniteSet(given)
  PROVE  Sup!PNCPContractsAreUncited
<1> SUFFICES ASSUME NEW c \in Sup!FindPNCPWithoutExtract
             PROVE  /\ \A a \in given : c.cnpj \notin a.cnpjs /\ c.process \notin a.refs
                    /\ \A a \in Sup!UnnamedActs("prefeitura") :
                         a.name \notin {c.name, Sup!NameOf(c.cnpj)} \/ a.name = ""
                    /\ \E a \in given : a.day >= c.day + Sup!PNCPExtractGraceDays
  BY Zenon DEF Sup!PNCPContractsAreUncited
<1>1. \A a \in given : c.cnpj \notin a.cnpjs /\ c.process \notin a.refs
  BY DEF Sup!FindPNCPWithoutExtract, Sup!CitedInDiario, Sup!CitedProcesses
<1>2. \A a \in Sup!UnnamedActs("prefeitura") : a.name \notin {c.name, Sup!NameOf(c.cnpj)} \/ a.name = ""
  BY Zenon DEF Sup!FindPNCPWithoutExtract, Sup!PNCPCitedNames
<1>3. \E a \in given : a.day >= c.day + Sup!PNCPExtractGraceDays
  <2>1. /\ c \in Contracts /\ Sup!Editions # {} /\ c.day # nodate
        /\ c.day <= Sup!Greatest(Sup!Editions) - Sup!PNCPExtractGraceDays
    BY DEF Sup!FindPNCPWithoutExtract
  <2>2. Sup!Editions \subseteq Nat
    BY SuppliersAssumption DEF Sup!Editions, Identified
  <2>3. IsFiniteSet(Sup!Editions)
    <3>1. IsFiniteSet({b \in given : b.source = "prefeitura"})
      BY FS_Subset
    <3> DEFINE S == {b \in given : b.source = "prefeitura"}
               f == [a \in S |-> a.day]
    <3>0. f \in [S -> Nat]
      BY SuppliersAssumption DEF Identified
    <3>2. IsFiniteSet({f[a] : a \in S})
      BY <3>1, ImagesAreFinite
    <3>3. {f[a] : a \in S} = {a.day : a \in S}
      OBVIOUS
    <3> QED
      BY <3>2, <3>3 DEF Sup!Editions
  <2>4. Sup!Greatest(Sup!Editions) \in Sup!Editions
    BY <2>1, <2>2, <2>3, GreatestOfFinite
  <2>5. PICK a \in given : a.day = Sup!Greatest(Sup!Editions) /\ a.day \in Nat
    BY <2>2, <2>4 DEF Sup!Editions
  <2>6. c.day \in Nat
    BY <2>1, SuppliersAssumption
  <2> QED
    BY <2>1, <2>5, <2>6 DEF Sup!PNCPExtractGraceDays
<1> QED
  BY <1>1, <1>2, <1>3, Zenon

LEMMA CitingStep == Sup!Next => Sup!CitingAbsolves
<1> SUFFICES ASSUME Sup!Next, NEW a \in given' \ given
             PROVE  /\ Sup!FindPaidWithoutPublication' \subseteq Sup!FindPaidWithoutPublication
                    /\ \A c \in a.cnpjs : c \notin Sup!FindPaidWithoutPublication'
  BY DEF Sup!CitingAbsolves
<1>1. given \subseteq given' /\ beside' = beside
  BY DEF Sup!Next, Sup!Publish, Sup!Pay
<1>2. \A c : Sup!CreditorPayments(c)' = Sup!CreditorPayments(c)
  BY <1>1 DEF Sup!CreditorPayments
<1>3. \A c : Sup!CreditorCents(c)' = Sup!CreditorCents(c)
  BY <1>2 DEF Sup!CreditorCents
<1>4. Sup!PaidCreditors' = Sup!PaidCreditors
  BY <1>1, <1>3 DEF Sup!PaidCreditors
<1>5. Sup!CitedInDiario \subseteq Sup!CitedInDiario' /\ a.cnpjs \subseteq Sup!CitedInDiario'
  BY <1>1 DEF Sup!CitedInDiario
<1> QED
  BY <1>3, <1>4, <1>5 DEF Sup!FindPaidWithoutPublication

LEMMA CitingAcquits == DomainSpec => [][topic = "suppliers" => Sup!CitingAbsolves]_DomainVars
<1>1. [DomainNext]_DomainVars => [topic = "suppliers" => Sup!CitingAbsolves]_DomainVars
  BY CitingStep DEF DomainNext
<1> QED
  BY <1>1, PTL DEF DomainSpec

-----------------------------------------------------------------------------
(***************************************************************************)
(* The panel of suppliers.                                                 *)
(***************************************************************************)
LEMMA PanLatest ==
  /\ \A T : Pan!Latest(T) = Last(T)
  /\ \A T : Pan!Earliest(T) = First(T)
  BY DEF Pan!Latest, Pan!Earliest, Pan!Before, Last, First, Precedes

\* The acts read by their references.
NumberRead(h, T) ==
  CHOOSE v \in {Pan!JoinByRef(q, b) : q \in {h[T \ {Pan!Latest(T)}]}, b \in {Pan!Latest(T)}} : TRUE
NumberFold(h, S) == h = [T \in SUBSET S |-> IF T = {} THEN Pan!Apart(S) ELSE NumberRead(h, T)]

LEMMA NumberReadIs == \A h, T : NumberRead(h, T) = Pan!JoinByRef(h[T \ {Last(T)}], Last(T))
<1> SUFFICES ASSUME NEW h, NEW T PROVE NumberRead(h, T) = Pan!JoinByRef(h[T \ {Last(T)}], Last(T))
  OBVIOUS
<1>1. {Pan!JoinByRef(q, b) : q \in {h[T \ {Pan!Latest(T)}]}, b \in {Pan!Latest(T)}}
        = {Pan!JoinByRef(h[T \ {Last(T)}], Last(T))}
  BY PanLatest
<1> QED
  BY <1>1 DEF NumberRead

LEMMA NumberFolds ==
  ASSUME NEW S
  PROVE  Pan!GroupedByRef(S) = (CHOOSE h : NumberFold(h, S))[S].groups
<1>1. Pan!ReadInOrder(Pan!JoinByRef, Pan!Apart(S), S) = (CHOOSE h : NumberFold(h, S))[S]
  BY DEF Pan!ReadInOrder, Pan!MapThenFoldSet, NumberFold, NumberRead
<1>2. Pan!GroupedByRef(S) = Pan!ReadInOrder(Pan!JoinByRef, Pan!Apart(S), S).groups
  BY Zenon DEF Pan!GroupedByRef
<1> QED
  BY <1>1, <1>2

NumbersOf(S) == [a \in S |-> a.refs]

LEMMA NumberGroups ==
  ASSUME NEW S, IsFiniteSet(S), Identified(S)
  PROVE  Grouping(Pan!GroupedByRef(S), S, NumbersOf(S))
<1> DEFINE K == NumbersOf(S)
<1>1. ASSUME NEW T \in SUBSET S, T # {}, NEW h
      PROVE  NumberRead(h, T) = KeyStep(K, h[T \ {Last(T)}], Last(T))
  <2>1. Last(T) \in S
    BY <1>1, LastIs
  <2>2. K[Last(T)] = Last(T).refs
    BY <2>1 DEF NumbersOf
  <2>3. NumberRead(h, T) = Pan!JoinByRef(h[T \ {Last(T)}], Last(T))
    BY NumberReadIs
  <2> QED
    BY <2>2, <2>3 DEF Pan!JoinByRef, Pan!JoinFirst, Pan!Joined, KeyStep, Merge
<1>2. Pan!Apart(S) = Singles(S)
  BY DEF Pan!Apart, Pan!Alone, Singles
<1> HIDE DEF K
<1>3. ASSUME NEW h PROVE NumberFold(h, S) <=> KeyReads(h, S, K)
  BY <1>1, <1>2 DEF NumberFold, KeyReads
<1>4. KeyReads(CHOOSE h : NumberFold(h, S), S, K)
  <2>1. \E h : NumberFold(h, S)
    BY <1>3, KeyReadingExists
  <2> QED
    BY <1>3, <2>1
<1>5. Grouping((CHOOSE h : NumberFold(h, S))[S].groups, S, K)
  BY <1>4, KeyGroups
<1> QED
  BY <1>5, NumberFolds DEF K

\* Then those without one, by their values.
LinkStep(S, G, a) == IF a.refs # {} THEN G ELSE Pan!JoinSameValue(S, G, a)
LinkRead(S, h, T) ==
  CHOOSE v \in {IF b.refs # {} THEN q ELSE Pan!JoinSameValue(S, q, b) :
                  q \in {h[T \ {Pan!Latest(T)}]}, b \in {Pan!Latest(T)}} : TRUE
LinkFold(h, S) == h = [T \in SUBSET S |-> IF T = {} THEN Pan!GroupedByRef(S) ELSE LinkRead(S, h, T)]

LEMMA LinkReadIs == \A S, h, T : LinkRead(S, h, T) = LinkStep(S, h[T \ {Last(T)}], Last(T))
<1> SUFFICES ASSUME NEW S, NEW h, NEW T
             PROVE  LinkRead(S, h, T) = LinkStep(S, h[T \ {Last(T)}], Last(T))
  OBVIOUS
<1>1. {LinkStep(S, q, b) : q \in {h[T \ {Pan!Latest(T)}]}, b \in {Pan!Latest(T)}}
        = {LinkStep(S, h[T \ {Last(T)}], Last(T))}
  BY PanLatest
<1> QED
  BY <1>1 DEF LinkRead, LinkStep

LEMMA LinkFolds == \A S : Pan!JoinPanelActs(S) = (CHOOSE h : LinkFold(h, S))[S]
  BY DEF Pan!JoinPanelActs, Pan!ReadInOrder, Pan!MapThenFoldSet, LinkFold, LinkRead

WorthAndYear(S) == [a \in S |-> <<a.value, Pan!Year(a.day)>>]
WithoutNumber(S) == {a \in S : a.refs = {}}

LEMMA LinkStepIs ==
  ASSUME NEW S, IsFiniteSet(S), Identified(S), NEW G, Partition(G, S), NEW a \in S
  PROVE  /\ Partition(LinkStep(S, G, a), S)
         /\ \/ LinkStep(S, G, a) = JoinClass(S, WorthAndYear(S), G, a)
            \/ LinkStep(S, G, a) = G /\ ~(a \in WithoutNumber(S) /\ {a} \in G)
<1>1. Pan!JoinSameValue(S, G, a) = JoinClass(S, WorthAndYear(S), G, a)
  <2>1. Pan!SameValueSameYear(S, G, a) = Others(S, WorthAndYear(S), G, a)
    BY DEF Pan!SameValueSameYear, Pan!GroupOf, Others, GroupIn, WorthAndYear
  <2>2. \A R : Pan!Joined(G, R) = Merge(G, R)
    BY DEF Pan!Joined, Merge
  <2> QED
    BY <2>1, <2>2, PanLatest DEF Pan!JoinSameValue, JoinClass
<1>2. CASE a.refs # {}
  BY <1>2 DEF LinkStep, WithoutNumber
<1>3. CASE a.refs = {}
  <2>1. LinkStep(S, G, a) = JoinClass(S, WorthAndYear(S), G, a)
    BY <1>1, <1>3 DEF LinkStep
  <2> QED
    BY <2>1, JoinClassParts
<1> QED
  BY <1>2, <1>3

LEMMA LinkFoldIs ==
  ASSUME NEW S, IsFiniteSet(S), Identified(S)
  PROVE  LinkFold(CHOOSE h : LinkFold(h, S), S)
<1> DEFINE V == {G \in SUBSET SUBSET S : Partition(G, S)}
           base == Pan!GroupedByRef(S)
           rule == [p \in V \X S |-> LinkStep(S, p[1], p[2])]
<1>1. \A G : G \in V <=> Partition(G, S)
  BY DEF Partition
<1>2. base \in V
  BY <1>1, NumberGroups DEF Grouping
<1>3. ASSUME NEW G \in V, NEW a \in S PROVE LinkStep(S, G, a) \in V
  BY <1>1, LinkStepIs
<1> HIDE DEF V, base
<1>4. rule \in [V \X S -> V]
  BY <1>3
<1>5. PICK h \in [SUBSET S -> V] : OrderedReads(h, S, base, rule)
  <2> HIDE DEF rule
  <2> QED
    BY <1>2, <1>4, OrderedReadingExists
<1>6. ASSUME NEW T \in SUBSET S, T # {}
      PROVE  rule[<<h[T \ {Last(T)}], Last(T)>>] = LinkRead(S, h, T)
  <2>1. Last(T) \in S /\ h[T \ {Last(T)}] \in V
    BY <1>6, LastIs
  <2> QED
    BY <2>1, LinkReadIs
<1> HIDE DEF rule
<1>7. LinkFold(h, S)
  BY <1>5, <1>6 DEF LinkFold, OrderedReads, base
<1> QED
  BY <1>7

\* The groups of the panel: a partition, with the acts that share a number together
\* and those without one together with the others of their value and year.
LEMMA JoinedActs ==
  ASSUME NEW S, IsFiniteSet(S), Identified(S)
  PROVE  /\ Partition(Pan!JoinPanelActs(S), S)
         /\ \A a, b \in S : a.refs \cap b.refs # {} => Together(Pan!JoinPanelActs(S), a, b)
         /\ \A a, b \in WithoutNumber(S) :
              a.value = b.value /\ Pan!Year(a.day) = Pan!Year(b.day) => Together(Pan!JoinPanelActs(S), a, b)
<1> DEFINE h == CHOOSE k : LinkFold(k, S)
           base == Pan!GroupedByRef(S)
           K == NumbersOf(S)
           Alike == WorthAndYear(S)
           N == WithoutNumber(S)
<1>1. LinkFold(h, S) /\ Grouping(base, S, K)
  BY LinkFoldIs, NumberGroups
<1>2. Pan!JoinPanelActs(S) = h[S]
  BY LinkFolds
<1> HIDE DEF h, base
<1>3. LinkReads(h, S, Alike, N, base)
  <2>1. h[{}] = base
    BY <1>1 DEF LinkFold, base
  <2>2. ASSUME NEW T \in SUBSET S, T # {}
        PROVE  h[T] = LinkStep(S, h[T \ {Last(T)}], Last(T)) /\ Last(T) \in S
    BY <1>1, <2>2, LinkReadIs, LastIs DEF LinkFold
  <2>3. ASSUME NEW T \in SUBSET S, T # {}, Partition(h[T \ {Last(T)}], S)
        PROVE  \/ h[T] = JoinClass(S, Alike, h[T \ {Last(T)}], Last(T))
               \/ h[T] = h[T \ {Last(T)}] /\ ~(Last(T) \in N /\ {Last(T)} \in h[T \ {Last(T)}])
    <3>1. h[T] = LinkStep(S, h[T \ {Last(T)}], Last(T)) /\ Last(T) \in S
      BY <2>2, <2>3
    <3> QED
      BY <2>3, <3>1, LinkStepIs
  <2> QED
    BY <2>1, <2>3 DEF LinkReads
<1>4. N \in SUBSET S /\ Keyless(N, S, K)
  BY DEF WithoutNumber, NumbersOf, Keyless
<1>5. \A a, b \in S : a.refs \cap b.refs # {} => K[a] \cap K[b] # {}
  BY DEF NumbersOf
<1>6. \A a, b \in N : a.value = b.value /\ Pan!Year(a.day) = Pan!Year(b.day) => Alike[a] = Alike[b]
  BY <1>4 DEF WorthAndYear
<1> HIDE DEF Alike, N, K
<1>7. /\ Partition(h[S], S)
      /\ \A a, b \in S : K[a] \cap K[b] # {} => Together(h[S], a, b)
      /\ \A a, b \in N : Alike[a] = Alike[b] => Together(h[S], a, b)
  BY <1>1, <1>3, <1>4, LinkGroups
<1> QED
  BY <1>2, <1>5, <1>6, <1>7 DEF N

\* The acts of one private company, and what a contract of its is.
ActsFor(S, cnpj) == {a \in {b \in S : b.value > 0 \/ b.increase > 0} : Pan!PrivateCNPJs(a.cnpjs) = {cnpj}}
ContractFor(S, c) ==
  /\ c.acts \in Pan!JoinPanelActs(ActsFor(S, c.cnpj))
  /\ c = Pan!PanelContractOf(c.cnpj, c.acts)

LEMMA PanelContractsAre ==
  ASSUME NEW S
  PROVE  \A c \in Pan!PanelContracts(S) : ContractFor(S, c)
<1> SUFFICES ASSUME NEW c \in Pan!PanelContracts(S) PROVE ContractFor(S, c)
  OBVIOUS
<1>1. PICK cnpj : \E g \in Pan!JoinPanelActs(ActsFor(S, cnpj)) : c = Pan!PanelContractOf(cnpj, g)
  BY DEF Pan!PanelContracts, ActsFor
<1>2. PICK g \in Pan!JoinPanelActs(ActsFor(S, cnpj)) : c = Pan!PanelContractOf(cnpj, g)
  BY <1>1
<1>3. c.cnpj = cnpj /\ c.acts = g
  BY <1>2 DEF Pan!PanelContractOf
<1> QED
  BY <1>2, <1>3 DEF ContractFor

\* The acts a panel reads are some of those given, as are those of one company.
LEMMA PanelActsAre ==
  ASSUME given \subseteq PanelActs, IsFiniteSet(given), NEW cnpj
  PROVE  LET S == ActsFor(Pan!ActsOfSource("prefeitura"), cnpj)
         IN  S \subseteq given /\ IsFiniteSet(S) /\ Identified(S)
<1>1. ActsFor(Pan!ActsOfSource("prefeitura"), cnpj) \subseteq given
  BY DEF ActsFor, Pan!ActsOfSource
<1> QED
  BY <1>1, FS_Subset, PurchasesAssumption DEF Identified

LEMMA PanelContractsDiffer ==
  ASSUME given \subseteq PanelActs, IsFiniteSet(given)
  PROVE  Pan!PanelContractsAreDifferent
<1> DEFINE panel == Pan!ActsOfSource("prefeitura")
<1> SUFFICES ASSUME NEW c \in Pan!PanelContracts(panel), NEW d \in Pan!PanelContracts(panel), c.cnpj = d.cnpj, c # d
             PROVE  /\ c.acts \cap d.acts = {}
                    /\ (UNION {a.refs : a \in c.acts}) \cap (UNION {a.refs : a \in d.acts}) = {}
                    /\ \A a \in c.acts, b \in d.acts :
                         ~(a.refs = {} /\ b.refs = {} /\ a.value = b.value /\ Pan!Year(a.day) = Pan!Year(b.day))
  BY DEF Pan!PanelContractsAreDifferent
<1> DEFINE S == ActsFor(panel, c.cnpj)
           G == Pan!JoinPanelActs(S)
<1>1. /\ c.acts \in G /\ d.acts \in G /\ c.acts # d.acts
  BY PanelContractsAre DEF ContractFor
<1>2. IsFiniteSet(S) /\ Identified(S)
  BY PanelActsAre
<1> HIDE DEF S
<1>3. /\ Partition(G, S)
      /\ \A a, b \in S : a.refs \cap b.refs # {} => Together(G, a, b)
      /\ \A a, b \in WithoutNumber(S) :
           a.value = b.value /\ Pan!Year(a.day) = Pan!Year(b.day) => Together(G, a, b)
  BY <1>2, JoinedActs
<1> HIDE DEF G
<1>4. ASSUME NEW a \in c.acts, NEW b \in d.acts PROVE a \in S /\ b \in S /\ ~Together(G, a, b)
  BY <1>1, <1>3 DEF Partition, Together
<1>5. c.acts \cap d.acts = {}
  BY <1>1, <1>3 DEF Partition
<1>6. (UNION {a.refs : a \in c.acts}) \cap (UNION {a.refs : a \in d.acts}) = {}
  BY <1>3, <1>4
<1>7. ASSUME NEW a \in c.acts, NEW b \in d.acts
      PROVE  ~(a.refs = {} /\ b.refs = {} /\ a.value = b.value /\ Pan!Year(a.day) = Pan!Year(b.day))
  BY <1>3, <1>4 DEF WithoutNumber
<1> QED
  BY <1>5, <1>6, <1>7

-----------------------------------------------------------------------------
(***************************************************************************)
(* The contracts of a panel: each of one company, named by its largest act, *)
(* with the amendments it counts.                                          *)
(***************************************************************************)
LEMMA SupCardinality == \A S : Sup!Cardinality(S) = Cardinality(S)
  BY ZenonT(30) DEF Sup!Cardinality, Cardinality

LEMMA SameOrder ==
  /\ \A T : Sup!Latest(T) = Pan!Latest(T)
  /\ \A T : Sup!Earliest(T) = Pan!Earliest(T)
  BY Zenon DEF Sup!Latest, Sup!Earliest, Sup!Before, Pan!Latest, Pan!Earliest, Pan!Before

LEMMA SameNumbers == \A S : Sup!GroupedByRef(S) = Pan!GroupedByRef(S)
  BY DEF Sup!GroupedByRef, Pan!GroupedByRef, Sup!ReadInOrder, Pan!ReadInOrder, Sup!MapThenFoldSet, Pan!MapThenFoldSet,
     Sup!Latest, Sup!Before, Pan!Latest, Pan!Before, Sup!Apart, Pan!Apart, Sup!Alone, Pan!Alone,
     Sup!JoinByRef, Pan!JoinByRef, Sup!JoinFirst, Pan!JoinFirst, Sup!Joined, Pan!Joined

LinksFrom(base, S) == CHOOSE h : h = [T \in SUBSET S |-> IF T = {} THEN base ELSE LinkRead(S, h, T)]
LEMMA SameGroups == \A S : Sup!JoinPanelActs(S) = Pan!JoinPanelActs(S)
<1>1. \A S : Pan!JoinPanelActs(S) = LinksFrom(Pan!GroupedByRef(S), S)[S]
  BY LinkFolds DEF LinkFold, LinksFrom
<1>2. \A S : Sup!JoinPanelActs(S) = LinksFrom(Sup!GroupedByRef(S), S)[S]
  BY DEF LinksFrom, LinkRead, Sup!JoinPanelActs, Sup!ReadInOrder, Sup!MapThenFoldSet,
     Sup!Latest, Sup!Before, Pan!Latest, Pan!Before, Sup!JoinSameValue, Pan!JoinSameValue,
     Sup!SameValueSameYear, Pan!SameValueSameYear, Sup!GroupOf, Pan!GroupOf, Sup!Year, Pan!Year,
     Sup!Earliest, Pan!Earliest, Sup!Joined, Pan!Joined
<1> QED
  BY <1>1, <1>2, SameNumbers

LEMMA SameRules ==
  /\ \A a : Sup!PanelValueRoleOf(a) = Pan!PanelValueRoleOf(a)
  /\ \A a, n : Sup!AmendmentValueCents(a, n) = Pan!AmendmentValueCents(a, n)
  /\ \A S : Sup!OrgansOf(S) = Pan!OrgansOf(S)
  /\ \A S : Sup!LargestOf(S) = Pan!LargestOf(S)
<1>1. \A a : Sup!PanelValueRoleOf(a) = Pan!PanelValueRoleOf(a)
  <2>1. \A a : Sup!PhaseOf(a) = Pan!PhaseOf(a)
    BY Zenon DEF Sup!PhaseOf, Pan!PhaseOf, Sup!PhaseOrder, Pan!PhaseOrder, Sup!Least, Pan!Least
  <2>2. Sup!ValuelessPhases = Pan!ValuelessPhases
    BY Zenon DEF Sup!ValuelessPhases, Pan!ValuelessPhases
  <2> QED
    BY <2>1, <2>2, Zenon DEF Sup!PanelValueRoleOf, Pan!PanelValueRoleOf
<1>2. \A a, n : Sup!AmendmentValueCents(a, n) = Pan!AmendmentValueCents(a, n)
  BY ZenonT(60) DEF Sup!AmendmentValueCents, Pan!AmendmentValueCents, Sup!NoIncrease, Pan!NoIncrease
<1>3. \A S : Sup!OrgansOf(S) = Pan!OrgansOf(S)
  BY Zenon DEF Sup!OrgansOf, Pan!OrgansOf, Sup!PrincipalOrgan, Pan!PrincipalOrgan
<1>4. \A S : Sup!LargestOf(S) = Pan!LargestOf(S)
  BY Zenon DEF Sup!LargestOf, Pan!LargestOf, Sup!Earliest, Pan!Earliest, Sup!Before, Pan!Before
<1> QED
  BY <1>1, <1>2, <1>3, <1>4

AmendRead(h, T, n) ==
  CHOOSE v \in {Pan!KeepAmendment(n, q, b) : q \in {h[T \ {Pan!Latest(T)}]}, b \in {Pan!Latest(T)}} : TRUE
AmendFold(h, S, n) == h = [T \in SUBSET S |-> IF T = {} THEN {} ELSE AmendRead(h, T, n)]

LEMMA AmendFolds ==
  /\ \A S, n : Pan!AmendmentsOf(S, n) = (CHOOSE h : AmendFold(h, S, n))[S]
  /\ \A S, n : Sup!AmendmentsOf(S, n) = Pan!AmendmentsOf(S, n)
<1>1. \A n, q, b : Sup!KeepAmendment(n, q, b) = Pan!KeepAmendment(n, q, b)
  BY SameRules DEF Sup!KeepAmendment, Pan!KeepAmendment, Sup!AmendmentRepublicationDays, Pan!AmendmentRepublicationDays
<1>2. \A S, n : Pan!AmendmentsOf(S, n) = (CHOOSE h : AmendFold(h, S, n))[S]
  BY DEF Pan!AmendmentsOf, Pan!ReadInOrder, Pan!MapThenFoldSet, AmendFold, AmendRead
<1>3. \A S, n : Sup!AmendmentsOf(S, n) = (CHOOSE h : AmendFold(h, S, n))[S]
  <2> DEFINE read(h, T, n) ==
               CHOOSE v \in {Sup!KeepAmendment(n, q, b) : q \in {h[T \ {Sup!Latest(T)}]}, b \in {Sup!Latest(T)}} : TRUE
             from(S, n) == CHOOSE h : h = [T \in SUBSET S |-> IF T = {} THEN {} ELSE read(h, T, n)]
  <2>1. \A S, n : Sup!AmendmentsOf(S, n) = from(S, n)[S]
    BY DEF Sup!AmendmentsOf, Sup!ReadInOrder, Sup!MapThenFoldSet
  <2>2. ASSUME NEW h, NEW T, NEW n PROVE read(h, T, n) = AmendRead(h, T, n)
    <3>1. {Sup!KeepAmendment(n, q, b) : q \in {h[T \ {Sup!Latest(T)}]}, b \in {Sup!Latest(T)}}
            = {Pan!KeepAmendment(n, q, b) : q \in {h[T \ {Pan!Latest(T)}]}, b \in {Pan!Latest(T)}}
      BY <1>1, SameOrder
    <3> QED
      BY <3>1 DEF AmendRead
  <2> HIDE DEF read
  <2>3. \A S, n : from(S, n) = CHOOSE h : AmendFold(h, S, n)
    BY <2>2 DEF AmendFold
  <2> HIDE DEF from
  <2> QED
    BY <2>1, <2>3, Zenon
<1> QED
  BY <1>2, <1>3

\* What the contracts of a panel are.
IsContractOf(S, c) ==
  /\ \E cnpj \in UNION {Pan!PrivateCNPJs(a.cnpjs) : a \in {b \in S : b.value > 0 \/ b.increase > 0}} :
       \E g \in Pan!JoinPanelActs(ActsFor(S, cnpj)) : c = Pan!PanelContractOf(cnpj, g)
  /\ Pan!HasContractValue(c) \/ c.amendments # {}

LEMMA SameContracts ==
  /\ \A cnpj, g : Sup!PanelContractOf(cnpj, g) = Pan!PanelContractOf(cnpj, g)
  /\ \A S, c : c \in Pan!PanelContracts(S) <=> IsContractOf(S, c)
  /\ \A S : Sup!PanelContracts(S) = Pan!PanelContracts(S)
<1>1. \A cnpj, g : Sup!PanelContractOf(cnpj, g) = Pan!PanelContractOf(cnpj, g)
  BY SameRules, AmendFolds, SameOrder DEF Sup!PanelContractOf, Pan!PanelContractOf
<1>2. \A S, c : c \in Pan!PanelContracts(S) <=> IsContractOf(S, c)
  <2>1. \A S : Pan!PanelContracts(S) =
          {c \in UNION {{Pan!PanelContractOf(cnpj, g) : g \in Pan!JoinPanelActs(ActsFor(S, cnpj))} :
                          cnpj \in UNION {Pan!PrivateCNPJs(a.cnpjs) : a \in {b \in S : b.value > 0 \/ b.increase > 0}}} :
             Pan!HasContractValue(c) \/ c.amendments # {}}
    BY Zenon DEF Pan!PanelContracts, ActsFor
  <2> QED
    BY <2>1 DEF IsContractOf
<1>3. \A S, c : c \in Sup!PanelContracts(S) <=> IsContractOf(S, c)
  <2>1. \A cnpjs : Sup!PrivateCNPJs(cnpjs) = Pan!PrivateCNPJs(cnpjs)
    BY Zenon DEF Sup!PrivateCNPJs, Pan!PrivateCNPJs, Sup!PublicBody, Pan!PublicBody, Sup!Base, Pan!Base
  <2>2. \A c : Sup!HasContractValue(c) = Pan!HasContractValue(c)
    BY Zenon DEF Sup!HasContractValue, Pan!HasContractValue
  <2> QED
    <3> DEFINE own(S, cnpj) == {a \in {b \in S : b.value > 0 \/ b.increase > 0} : Sup!PrivateCNPJs(a.cnpjs) = {cnpj}}
    <3>1. \A S : Sup!PanelContracts(S) =
            {c \in UNION {{Sup!PanelContractOf(cnpj, g) : g \in Sup!JoinPanelActs(own(S, cnpj))} :
                            cnpj \in UNION {Sup!PrivateCNPJs(a.cnpjs) : a \in {b \in S : b.value > 0 \/ b.increase > 0}}} :
               Sup!HasContractValue(c) \/ c.amendments # {}}
      BY Zenon DEF Sup!PanelContracts
    <3>2. \A S, cnpj : own(S, cnpj) = ActsFor(S, cnpj)
      BY <2>1 DEF ActsFor
    <3> HIDE DEF own
    <3> QED
      BY <1>1, <2>1, <2>2, <3>1, <3>2, SameGroups DEF IsContractOf
<1>4. \A S : (Sup!PanelContracts(S) \subseteq Pan!PanelContracts(S)) /\ (Pan!PanelContracts(S) \subseteq Sup!PanelContracts(S))
  BY <1>2, <1>3
<1> QED
  BY <1>1, <1>2, <1>4

\* Acts read from the base: some finite number of its rows.
ActsRead(S) == IsFiniteSet(S) /\ Identified(S) /\ S \subseteq Announcements

LEMMA PartsAreRead ==
  ASSUME NEW S, ActsRead(S), NEW T \in SUBSET S
  PROVE  ActsRead(T)
  BY FS_Subset DEF ActsRead, Identified

LEMMA AnnouncementIs ==
  ASSUME NEW a \in Announcements
  PROVE  /\ a.id \in Nat /\ a.day \in Nat /\ a.value \in Nat /\ a.explicit \in Int /\ a.increase \in Nat
         /\ a.cnpjs \subseteq Nat
  BY DEF Announcements

LEMMA LargestOfRead ==
  ASSUME NEW S, ActsRead(S), S # {}
  PROVE  Pan!LargestOf(S) \in S
<1> DEFINE value == [a \in S |-> a.value]
           most == {a \in S : \A b \in S : b.value <= a.value}
<1>1. \E n \in {value[a] : a \in S} : \A k \in {value[a] : a \in S} : k <= n
  <2>1. {value[a] : a \in S} \subseteq Nat /\ {value[a] : a \in S} # {}
    BY AnnouncementIs DEF ActsRead
  <2> HIDE DEF value
  <2>2. IsFiniteSet({value[a] : a \in S})
    BY ImagesAreFinite DEF ActsRead
  <2> QED
    BY <2>1, <2>2, GreatestExists
<1>2. PICK a \in S : \A b \in S : value[b] <= value[a]
  BY <1>1
<1>3. most \in SUBSET S /\ most # {}
  BY <1>2
<1>4. Pan!LargestOf(S) = First(most)
  BY PanLatest DEF Pan!LargestOf
<1> HIDE DEF most
<1> QED
  BY <1>3, <1>4, LastIs DEF ActsRead

LEMMA AmendReadIs == \A h, T, n : AmendRead(h, T, n) = Pan!KeepAmendment(n, h[T \ {Last(T)}], Last(T))
<1> SUFFICES ASSUME NEW h, NEW T, NEW n
             PROVE  AmendRead(h, T, n) = Pan!KeepAmendment(n, h[T \ {Last(T)}], Last(T))
  OBVIOUS
<1>1. {Pan!KeepAmendment(n, q, b) : q \in {h[T \ {Pan!Latest(T)}]}, b \in {Pan!Latest(T)}}
        = {Pan!KeepAmendment(n, h[T \ {Last(T)}], Last(T))}
  BY PanLatest
<1> QED
  BY <1>1 DEF AmendRead

\* The amendments of a contract are some finite number, with the days of its acts.
LEMMA AmendmentsAre ==
  ASSUME NEW S, ActsRead(S), NEW n \in Nat
  PROVE  /\ IsFiniteSet(Pan!AmendmentsOf(S, n))
         /\ \A m \in Pan!AmendmentsOf(S, n) : m.cents \in Nat /\ \E a \in S : m.day = a.day
<1> DEFINE kinds == [id : Nat, cents : Nat, day : {a.day : a \in S}]
           V == {R \in SUBSET kinds : IsFiniteSet(R)}
           rule == [p \in V \X S |-> Pan!KeepAmendment(n, p[1], p[2])]
           g == CHOOSE h : AmendFold(h, S, n)
<1>1. {} \in V
  BY FS_EmptySet
<1>2. ASSUME NEW R \in V, NEW a \in S PROVE Pan!KeepAmendment(n, R, a) \in V
  <2>1. a \in Announcements
    BY DEF ActsRead
  <2>2. Pan!AmendmentValueCents(a, n) \in Int
    <3>1. (n * a.increase) \div 10000 \in Int /\ a.explicit \in Int /\ a.value \in Int
      BY <2>1, AnnouncementIs
    <3> QED
      BY <3>1 DEF Pan!AmendmentValueCents, Pan!NoIncrease
  <2> DEFINE cents == Pan!AmendmentValueCents(a, n)
             kept == [id |-> a.id, cents |-> cents, day |-> a.day]
  <2>3. ASSUME cents > 0 PROVE R \cup {kept} \in V
    <3>1. kept \in kinds
      <4>1. cents \in Nat
        BY <2>2, <2>3
      <4> HIDE DEF cents
      <4> QED
        BY <2>1, <4>1, AnnouncementIs
    <3> HIDE DEF kept, kinds
    <3> QED
      BY <3>1, FS_AddElement
  <2>4. \/ Pan!KeepAmendment(n, R, a) = R
        \/ cents > 0 /\ Pan!KeepAmendment(n, R, a) = R \cup {kept}
    BY DEF Pan!KeepAmendment
  <2> HIDE DEF cents, kept, V
  <2> QED
    BY <2>3, <2>4
<1>3. \A R \in V : IsFiniteSet(R) /\ \A m \in R : m.cents \in Nat /\ \E a \in S : m.day = a.day
  OBVIOUS
<1> HIDE DEF V
<1>4. rule \in [V \X S -> V]
  BY <1>2
<1>5. PICK h \in [SUBSET S -> V] : OrderedReads(h, S, {}, rule)
  <2> HIDE DEF rule
  <2> QED
    BY <1>1, <1>4, OrderedReadingExists DEF ActsRead
<1>7. ASSUME NEW T \in SUBSET S, T # {} PROVE Last(T) \in T
  BY <1>7, LastIs DEF ActsRead
<1>8. ASSUME NEW T \in SUBSET S, T # {}
      PROVE  rule[<<h[T \ {Last(T)}], Last(T)>>] = AmendRead(h, T, n)
  <2>1. Last(T) \in S /\ h[T \ {Last(T)}] \in V
    BY <1>7, <1>8
  <2> QED
    BY <2>1, AmendReadIs
<1> HIDE DEF rule
<1>9. AmendFold(h, S, n)
  BY <1>5, <1>8 DEF AmendFold, OrderedReads
<1>10. AmendFold(g, S, n)
  BY <1>9
<1> HIDE DEF g
<1> DEFINE good == {T \in SUBSET S : g[T] \in V}
<1>11. ASSUME NEW T \in SUBSET S, \A x \in T : T \ {x} \in good PROVE T \in good
  <2>1. CASE T = {}
    BY <1>1, <1>10, <2>1 DEF AmendFold
  <2>2. CASE T # {}
    <3>1. g[T] = Pan!KeepAmendment(n, g[T \ {Last(T)}], Last(T)) /\ Last(T) \in T
      BY <1>7, <1>10, <2>2, AmendReadIs DEF AmendFold
    <3> QED
      BY <1>2, <1>11, <3>1
  <2> QED
    BY <2>1, <2>2
<1>12. S \in good
  <2> HIDE DEF good
  <2> QED
    BY <1>11, SubsetInduction, Zenon DEF ActsRead
<1> QED
  BY <1>3, <1>12, AmendFolds DEF g

\* The acts of one company, and their groups.
LEMMA CompanyGroups ==
  ASSUME NEW S, ActsRead(S), NEW cnpj
  PROVE  /\ ActsFor(S, cnpj) \subseteq S /\ ActsRead(ActsFor(S, cnpj))
         /\ Partition(Pan!JoinPanelActs(ActsFor(S, cnpj)), ActsFor(S, cnpj))
         /\ IsFiniteSet(Pan!JoinPanelActs(ActsFor(S, cnpj)))
         /\ \A g \in Pan!JoinPanelActs(ActsFor(S, cnpj)) : g \subseteq S /\ ActsRead(g) /\ g # {}
<1> DEFINE T == ActsFor(S, cnpj)
<1>1. T \in SUBSET S
  BY DEF ActsFor
<1> HIDE DEF T
<1>2. ActsRead(T)
  BY <1>1, PartsAreRead
<1>3. Partition(Pan!JoinPanelActs(T), T)
  BY <1>2, JoinedActs DEF ActsRead
<1>4. /\ IsFiniteSet(Pan!JoinPanelActs(T))
      /\ \A g \in Pan!JoinPanelActs(T) : g \subseteq T /\ g # {}
  BY <1>2, <1>3, PartitionIsFinite DEF ActsRead
<1>5. \A g \in Pan!JoinPanelActs(T) : ActsRead(g)
  BY <1>2, <1>4, PartsAreRead
<1> QED
  BY <1>1, <1>2, <1>3, <1>4, <1>5 DEF T

\* A contract of a panel is a group of the acts of a company; it has the day of the
\* first of them, and the identifier of one, the largest.
LEMMA ContractsAre ==
  ASSUME NEW S, ActsRead(S), NEW c \in Pan!PanelContracts(S)
  PROVE  /\ ContractFor(S, c)
         /\ c.acts \in SUBSET S /\ ActsRead(c.acts) /\ c.acts # {}
         /\ First(c.acts) \in c.acts /\ c.day = First(c.acts).day /\ c.day \in Nat
         /\ c.contracted \in Nat /\ c.registered \in Nat /\ c.cnpj \in Nat
         /\ Pan!HasContractValue(c) => \E a \in c.acts : c.largest = a.id
         /\ IsFiniteSet(c.amendments)
         /\ \A m \in c.amendments : m.cents \in Nat /\ \E a \in c.acts : m.day = a.day
         /\ c.organs = Pan!OrgansOf(c.acts)
<1> DEFINE of(role) == {a \in c.acts : Pan!PanelValueRoleOf(a) = role /\ a.value > 0}
           amended == {a \in c.acts : Pan!PanelValueRoleOf(a) = "amended"}
<1>1. ContractFor(S, c)
  BY PanelContractsAre
<1>2. c.acts \in SUBSET S /\ ActsRead(c.acts) /\ c.acts # {}
  BY <1>1, CompanyGroups DEF ContractFor
<1>3. First(c.acts) \in c.acts /\ First(c.acts).day \in Nat
  <2>1. First(c.acts) \in c.acts
    BY <1>2, LastIs DEF ActsRead
  <2> QED
    BY <1>2, <2>1 DEF ActsRead, Identified
<1>4. ASSUME NEW role, of(role) # {} PROVE Pan!LargestOf(of(role)) \in c.acts
  <2>1. of(role) \in SUBSET c.acts
    OBVIOUS
  <2> HIDE DEF of
  <2>2. ActsRead(of(role))
    BY <1>2, <2>1, PartsAreRead
  <2> QED
    BY <1>4, <2>1, <2>2, LargestOfRead
<1>5. ASSUME NEW role, of(role) = {} PROVE Pan!LargestOf(of(role)).value = 0
  BY <1>5 DEF Pan!LargestOf
<1>6. /\ c.day = Pan!Earliest(c.acts).day
      /\ c.contracted = Pan!LargestOf(of("contracted")).value
      /\ c.registered = IF c.contracted = 0 THEN Pan!LargestOf(of("registered")).value ELSE 0
      /\ c.largest = IF c.contracted = 0 THEN Pan!LargestOf(of("registered")).id
                     ELSE Pan!LargestOf(of("contracted")).id
      /\ c.amendments = Pan!AmendmentsOf(amended, c.contracted)
      /\ c.organs = Pan!OrgansOf(c.acts)
  BY <1>1 DEF ContractFor, Pan!PanelContractOf
<1> HIDE DEF of
<1>7. \A role : Pan!LargestOf(of(role)).value \in Nat
  <2>1. \A a \in c.acts : a.value \in Nat
    BY <1>2, AnnouncementIs DEF ActsRead
  <2> QED
    BY <1>4, <1>5, <2>1
<1>8. c.contracted \in Nat /\ c.registered \in Nat
  BY <1>6, <1>7
<1>9. ASSUME Pan!HasContractValue(c) PROVE \E a \in c.acts : c.largest = a.id
  <2>1. CASE c.contracted = 0
    <3>1. Pan!LargestOf(of("registered")).value # 0
      BY <1>6, <1>9, <2>1 DEF Pan!HasContractValue
    <3> QED
      BY <1>4, <1>5, <1>6, <2>1, <3>1
  <2>2. CASE c.contracted # 0
    BY <1>4, <1>5, <1>6, <2>2
  <2> QED
    BY <2>1, <2>2
<1>10. c.cnpj \in Nat
  <2>1. PICK a \in ActsFor(S, c.cnpj) : TRUE
    BY <1>1, <1>2, CompanyGroups DEF ContractFor, Partition
  <2>2. a \in S /\ c.cnpj \in a.cnpjs
    BY <2>1 DEF ActsFor, Pan!PrivateCNPJs
  <2> QED
    BY <2>2, AnnouncementIs DEF ActsRead
<1>11. /\ IsFiniteSet(c.amendments)
       /\ \A m \in c.amendments : m.cents \in Nat /\ \E a \in c.acts : m.day = a.day
  <2>1. amended \in SUBSET c.acts
    OBVIOUS
  <2> HIDE DEF amended
  <2>2. ActsRead(amended)
    BY <1>2, <2>1, PartsAreRead
  <2>3. /\ IsFiniteSet(c.amendments)
        /\ \A m \in c.amendments : m.cents \in Nat /\ \E a \in amended : m.day = a.day
    BY <1>6, <1>8, <2>2, AmendmentsAre
  <2> QED
    BY <2>1, <2>3
<1> QED
  BY <1>1, <1>2, <1>3, <1>6, <1>8, <1>9, <1>10, <1>11, PanLatest

\* There is a finite number of them, different groups of acts.
LEMMA ContractsAreFinite ==
  ASSUME NEW S, ActsRead(S)
  PROVE  /\ IsFiniteSet(Pan!PanelContracts(S))
         /\ \A c, d \in Pan!PanelContracts(S) : c.cnpj = d.cnpj /\ c # d => c.acts \cap d.acts = {}
<1> DEFINE company(g) == CHOOSE n : \A a \in g : Pan!PrivateCNPJs(a.cnpjs) = {n}
           of == [g \in SUBSET S |-> Pan!PanelContractOf(company(g), g)]
<1>1. ASSUME NEW c \in Pan!PanelContracts(S) PROVE c.acts \in SUBSET S /\ c = of[c.acts]
  <2>1. ContractFor(S, c) /\ c.acts \in SUBSET S /\ c.acts # {}
    BY ContractsAre
  <2>2. \A a \in c.acts : Pan!PrivateCNPJs(a.cnpjs) = {c.cnpj}
    <3>1. c.acts \subseteq ActsFor(S, c.cnpj)
      BY <2>1, CompanyGroups DEF ContractFor, Partition
    <3> QED
      BY <3>1 DEF ActsFor
  <2>3. \A n : (\A a \in c.acts : Pan!PrivateCNPJs(a.cnpjs) = {n}) => n = c.cnpj
    <3>1. PICK a \in c.acts : TRUE
      BY <2>1
    <3> QED
      BY <2>2, <3>1
  <2>4. company(c.acts) = c.cnpj
    BY <2>2, <2>3
  <2> QED
    BY <2>1, <2>4 DEF ContractFor
<1> HIDE DEF of
<1>2. IsFiniteSet({of[g] : g \in SUBSET S})
  BY FS_SUBSET, ImagesAreFinite DEF ActsRead
<1>3. Pan!PanelContracts(S) \subseteq {of[g] : g \in SUBSET S}
  BY <1>1
<1>4. ASSUME NEW c \in Pan!PanelContracts(S), NEW d \in Pan!PanelContracts(S), c.cnpj = d.cnpj, c # d
      PROVE  c.acts \cap d.acts = {}
  <2>1. ContractFor(S, c) /\ ContractFor(S, d)
    BY PanelContractsAre
  <2>2. c.acts # d.acts
    BY <1>4, <2>1 DEF ContractFor
  <2> QED
    BY <1>4, <2>1, <2>2, CompanyGroups DEF ContractFor, Partition
<1> QED
  BY <1>2, <1>3, <1>4, FS_Subset

-----------------------------------------------------------------------------
(***************************************************************************)
(* What the panel totals: the years, the organs and the rows, in order.    *)
(***************************************************************************)
LEMMA PanCardinality == \A S : Pan!Cardinality(S) = Cardinality(S)
  BY ZenonT(30) DEF Pan!Cardinality, Cardinality

\* Contracts that can be totalled, and what each is worth.
ContractsRead(K) ==
  /\ IsFiniteSet(K)
  /\ \A c \in K : /\ c.contracted \in Nat /\ c.registered \in Nat /\ IsFiniteSet(c.amendments)
                  /\ \A m \in c.amendments : m.cents \in Nat

LEMMA ContractsAreRead ==
  ASSUME NEW S, ActsRead(S), NEW K \in SUBSET Pan!PanelContracts(S)
  PROVE  ContractsRead(K)
<1>1. IsFiniteSet(K)
  BY ContractsAreFinite, FS_Subset
<1>2. ASSUME NEW c \in K
      PROVE  /\ c.contracted \in Nat /\ c.registered \in Nat /\ IsFiniteSet(c.amendments)
             /\ \A m \in c.amendments : m.cents \in Nat
  <2>1. c \in Pan!PanelContracts(S)
    OBVIOUS
  <2> QED
    BY <2>1, ContractsAre
<1> QED
  BY <1>1, <1>2 DEF ContractsRead

CentsIn(c) == [m \in c.amendments |-> m.cents]
AmendmentsIn(c, y) == {m \in c.amendments : y \in {0, Pan!Year(m.day)}}

LEMMA AmendedIs ==
  ASSUME NEW K, ContractsRead(K), NEW c \in K, NEW y
  PROVE  /\ Pan!AmendedIn(c, y) = Total(CentsIn(c), AmendmentsIn(c, y))
         /\ Pan!AmendedIn(c, y) \in Nat
         /\ Sup!AmendedIn(c, y) = Pan!AmendedIn(c, y)
<1> DEFINE M == AmendmentsIn(c, y)
           f == [m \in M |-> m.cents]
<1>1. Pan!AmendedIn(c, y) = Total(f, M)
  BY SumsAre DEF Pan!AmendedIn, Pan!SumOf, AmendmentsIn, Pan!EveryYear
<1>2. Sup!AmendedIn(c, y) = Total(f, M)
  BY SumsAre DEF Sup!AmendedIn, Sup!SumOf, AmendmentsIn, Sup!EveryYear, Sup!Year, Pan!Year
<1>3. IsFiniteSet(c.amendments) /\ M \in SUBSET c.amendments /\ \A m \in c.amendments : m.cents \in Nat
  BY DEF ContractsRead, AmendmentsIn
<1> HIDE DEF M
<1>4. IsFiniteSet(M)
  BY <1>3, FS_Subset
<1>5. Total(f, M) = Total(CentsIn(c), M)
  <2>1. \A m \in M : f[m] \in Int /\ f[m] = CentsIn(c)[m]
    BY <1>3 DEF CentsIn
  <2> HIDE DEF f
  <2> QED
    BY <1>4, <2>1, TotalsAgree
<1>6. Total(f, M) \in Nat
  <2>1. \A m \in M : f[m] \in Nat
    BY <1>3
  <2> HIDE DEF f
  <2> QED
    BY <1>4, <2>1, TotalGrows
<1> QED
  BY <1>1, <1>2, <1>5, <1>6 DEF M

Counting(K, y) == [c \in K |-> IF Pan!Counted(c, y) THEN 1 ELSE 0]
Contracting(K, y) == [c \in K |-> IF Pan!Counted(c, y) THEN c.contracted ELSE 0]
Registering(K, y) == [c \in K |-> IF Pan!Counted(c, y) THEN c.registered ELSE 0]
Amending(K, y) == [c \in K |-> Pan!AmendedIn(c, y)]

LEMMA WorthIs ==
  ASSUME NEW K, ContractsRead(K), NEW y
  PROVE  \A c \in K : /\ Counting(K, y)[c] \in Nat /\ Contracting(K, y)[c] \in Nat
                      /\ Registering(K, y)[c] \in Nat /\ Amending(K, y)[c] \in Nat
<1> SUFFICES ASSUME NEW c \in K
             PROVE  /\ Counting(K, y)[c] \in Nat /\ Contracting(K, y)[c] \in Nat
                    /\ Registering(K, y)[c] \in Nat /\ Amending(K, y)[c] \in Nat
  OBVIOUS
<1>1. c.contracted \in Nat /\ c.registered \in Nat
  BY DEF ContractsRead
<1>2. Pan!AmendedIn(c, y) \in Nat
  BY AmendedIs
<1> QED
  BY <1>1, <1>2 DEF Counting, Contracting, Registering, Amending

\* A total of what counts is one of what is nothing when it does not count.
LEMMA TotalOfCounted ==
  ASSUME NEW K, IsFiniteSet(K), NEW f, \A c \in K : f[c] \in Nat,
         NEW D \in SUBSET K, NEW N \in SUBSET D, \A c \in D \ N : f[c] = 0,
         NEW g, \A c \in N : g[c] = f[c]
  PROVE  Total(g, N) = Total(f, D)
<1>1. IsFiniteSet(D) /\ IsFiniteSet(N)
  BY FS_Subset
<1>2. \A c \in D : f[c] \in Int
  OBVIOUS
<1>3. Total(f, D) = Total(f, N)
  BY <1>1, <1>2, TotalOfPart
<1>4. \A c \in N : g[c] \in Int /\ g[c] = f[c]
  BY <1>2
<1>5. Total(g, N) = Total(f, N)
  BY <1>1, <1>4, TotalsAgree
<1> QED
  BY <1>3, <1>5

LEMMA TotalOfIs ==
  ASSUME NEW K, ContractsRead(K), NEW D \in SUBSET K, NEW y
  PROVE  /\ Pan!TotalOf(D, y) = [contracts |-> Total(Counting(K, y), D), contracted |-> Total(Contracting(K, y), D),
                                 registered |-> Total(Registering(K, y), D), amended |-> Total(Amending(K, y), D)]
         /\ Sup!TotalOf(D, y) = Pan!TotalOf(D, y)
<1> DEFINE N == {c \in D : Pan!Counted(c, y)}
           contracted == [c \in N |-> c.contracted]
           registered == [c \in N |-> c.registered]
           amended == [c \in D |-> Pan!AmendedIn(c, y)]
<1>1. Pan!TotalOf(D, y) = [contracts |-> Cardinality(N), contracted |-> Total(contracted, N),
                           registered |-> Total(registered, N), amended |-> Total(amended, D)]
  BY PanCardinality, SumsAre DEF Pan!TotalOf, Pan!SumOf
<1>2. Sup!TotalOf(D, y) = [contracts |-> Cardinality(N), contracted |-> Total(contracted, N),
                           registered |-> Total(registered, N), amended |-> Total(amended, D)]
  <2>1. {c \in D : Sup!Counted(c, y)} = N
    BY DEF Sup!Counted, Pan!Counted, Sup!MatchesYear, Pan!MatchesYear, Sup!HasContractValue, Pan!HasContractValue,
       Sup!EveryYear, Pan!EveryYear, Sup!Year, Pan!Year
  <2>2. [c \in D |-> Sup!AmendedIn(c, y)] = amended
    BY AmendedIs
  <2> HIDE DEF N, amended
  <2> QED
    BY <2>1, <2>2, SupCardinality, SumsAre DEF Sup!TotalOf, Sup!SumOf
<1>3. IsFiniteSet(K) /\ IsFiniteSet(D) /\ N \in SUBSET D /\ IsFiniteSet(N)
  BY FS_Subset DEF ContractsRead
<1>4. Cardinality(N) = Total(Counting(K, y), D)
  <2> DEFINE one == [c \in N |-> 1]
  <2>1. Total(one, N) = Cardinality(N)
    BY <1>3, TotalOfOnes
  <2>2. /\ \A c \in D \ N : Counting(K, y)[c] = 0
        /\ \A c \in N : one[c] = Counting(K, y)[c]
    BY DEF Counting
  <2>3. Total(one, N) = Total(Counting(K, y), D)
    <3> HIDE DEF one, N
    <3> QED
      BY <1>3, <2>2, WorthIs, TotalOfCounted
  <2> QED
    BY <2>1, <2>3
<1>5. Total(contracted, N) = Total(Contracting(K, y), D)
  <2>1. /\ \A c \in D \ N : Contracting(K, y)[c] = 0
        /\ \A c \in N : contracted[c] = Contracting(K, y)[c]
    BY DEF Contracting
  <2> HIDE DEF contracted, N
  <2> QED
    BY <1>3, <2>1, WorthIs, TotalOfCounted
<1>6. Total(registered, N) = Total(Registering(K, y), D)
  <2>1. /\ \A c \in D \ N : Registering(K, y)[c] = 0
        /\ \A c \in N : registered[c] = Registering(K, y)[c]
    BY DEF Registering
  <2> HIDE DEF registered, N
  <2> QED
    BY <1>3, <2>1, WorthIs, TotalOfCounted
<1>7. Total(amended, D) = Total(Amending(K, y), D)
  <2>1. \A c \in D : amended[c] = Amending(K, y)[c]
    BY DEF Amending
  <2> HIDE DEF amended
  <2> QED
    BY <1>3, <2>1, WorthIs, TotalOfCounted
<1> HIDE DEF N, contracted, registered, amended
<1> QED
  BY <1>1, <1>2, <1>4, <1>5, <1>6, <1>7

\* Those before a member, and the members with few before them.
Above(S, R, x) == {y \in S : <<y, x>> \in R}
TopOf(S, R, n) == {x \in S : Cardinality(Above(S, R, x)) < n}

\* In a total order, as many are shown as fit.
LEMMA TopFits ==
  ASSUME NEW S, IsFiniteSet(S), NEW R,
         \A a \in S : <<a, a>> \notin R,
         \A a, b, c \in S : <<a, b>> \in R /\ <<b, c>> \in R => <<a, c>> \in R,
         \A a, b \in S : a # b => <<a, b>> \in R \/ <<b, a>> \in R,
         NEW n \in Nat, n <= Cardinality(S)
  PROVE  Cardinality(TopOf(S, R, n)) = n
<1> DEFINE good == {T \in SUBSET S : \A k \in Nat : k <= Cardinality(T) => Cardinality(TopOf(T, R, k)) = k}
<1>1. ASSUME NEW T \in SUBSET S, \A x \in T : T \ {x} \in good, NEW k \in Nat, k <= Cardinality(T)
      PROVE  Cardinality(TopOf(T, R, k)) = k
  <2>1. IsFiniteSet(T) /\ Cardinality(T) \in Nat
    BY FS_Subset, FS_CardinalityType
  <2>2. CASE T = {}
    <3>1. TopOf(T, R, k) = {} /\ Cardinality({}) = 0
      BY <2>2, FS_EmptySet DEF TopOf
    <3>2. k = 0
      BY <1>1, <2>2, <3>1
    <3> QED
      BY <3>1, <3>2
  <2>3. CASE T # {}
    <3> DEFINE Q == {p \in T \X T : <<p[2], p[1]>> \in R}
    <3>1. PICK m \in T : \A b \in T : <<m, b>> \notin R
      <4>1. \A a, b \in T : <<a, b>> \in Q <=> <<b, a>> \in R
        OBVIOUS
      <4> HIDE DEF Q
      <4>2. /\ \A a \in T : <<a, a>> \notin Q
            /\ \A a, b, c \in T : <<a, b>> \in Q /\ <<b, c>> \in Q => <<a, c>> \in Q
        BY <4>1
      <4>3. \E m \in T : \A b \in T : <<b, m>> \notin Q
        BY <2>1, <2>3, <4>2, MinimalExists
      <4> QED
        BY <4>1, <4>3
    <3> DEFINE U == T \ {m}
    <3>2. IsFiniteSet(U) /\ Cardinality(U) = Cardinality(T) - 1
      BY <2>1, FS_RemoveElement
    <3>3. \A x \in U : Above(T, R, x) = Above(U, R, x)
      BY <3>1 DEF Above
    <3>4. Above(T, R, m) = U
      <4>1. \A y \in U : <<y, m>> \in R
        BY <3>1
      <4>2. <<m, m>> \notin R
        OBVIOUS
      <4> QED
        BY <4>1, <4>2 DEF Above
    <3>5. CASE k = Cardinality(T)
      <4>1. ASSUME NEW x \in T PROVE Cardinality(Above(T, R, x)) < k
        <5>1. Above(T, R, x) \subseteq T \ {x}
          BY DEF Above
        <5>2. IsFiniteSet(T \ {x}) /\ Cardinality(T \ {x}) = Cardinality(T) - 1
          BY <2>1, FS_RemoveElement
        <5>3. Cardinality(Above(T, R, x)) <= Cardinality(T \ {x}) /\ Cardinality(Above(T, R, x)) \in Nat
          BY <5>1, <5>2, FS_Subset, FS_CardinalityType
        <5> QED
          BY <2>1, <3>5, <5>2, <5>3
      <4>2. TopOf(T, R, k) = T
        BY <4>1 DEF TopOf
      <4> QED
        BY <3>5, <4>2
    <3>6. CASE k # Cardinality(T)
      <4>1. k <= Cardinality(U) /\ ~(Cardinality(U) < k)
        BY <1>1, <2>1, <3>2, <3>6
      <4>2. TopOf(T, R, k) = TopOf(U, R, k)
        <5>1. m \notin TopOf(T, R, k)
          BY <3>4, <4>1 DEF TopOf
        <5>2. \A x \in U : x \in TopOf(T, R, k) <=> x \in TopOf(U, R, k)
          BY <3>3 DEF TopOf
        <5>3. TopOf(T, R, k) \subseteq T /\ TopOf(U, R, k) \subseteq U
          BY DEF TopOf
        <5> HIDE DEF Q
        <5> QED
          BY <5>1, <5>2, <5>3
      <4>3. U \in good
        BY <1>1
      <4> QED
        BY <4>1, <4>2, <4>3
    <3> QED
      BY <3>5, <3>6
  <2> QED
    BY <2>2, <2>3
<1>2. S \in good
  <2>1. \A T \in SUBSET S : (\A x \in T : T \ {x} \in good) => T \in good
    BY <1>1
  <2> HIDE DEF good
  <2> QED
    BY <2>1, SubsetInduction
<1> QED
  BY <1>2

\* None left out is before one shown.
LEMMA TopIsFirst ==
  ASSUME NEW S, IsFiniteSet(S), NEW R,
         \A a \in S : <<a, a>> \notin R,
         \A a, b, c \in S : <<a, b>> \in R /\ <<b, c>> \in R => <<a, c>> \in R,
         \A a, b \in S : a # b => <<a, b>> \in R \/ <<b, a>> \in R,
         NEW n \in Nat, NEW a \in TopOf(S, R, n), NEW b \in S \ TopOf(S, R, n)
  PROVE  <<a, b>> \in R
<1>1. a \in S /\ Cardinality(Above(S, R, a)) < n /\ ~(Cardinality(Above(S, R, b)) < n)
  BY DEF TopOf
<1>2. ASSUME <<b, a>> \in R PROVE FALSE
  <2>1. Above(S, R, b) \subseteq Above(S, R, a) /\ IsFiniteSet(Above(S, R, a))
    <3>1. Above(S, R, a) \subseteq S
      BY DEF Above
    <3> QED
      BY <1>1, <1>2, <3>1, FS_Subset DEF Above
  <2>2. /\ Cardinality(Above(S, R, b)) <= Cardinality(Above(S, R, a))
        /\ Cardinality(Above(S, R, a)) \in Nat /\ Cardinality(Above(S, R, b)) \in Nat
    BY <2>1, FS_Subset, FS_CardinalityType
  <2> QED
    BY <1>1, <2>2
<1> QED
  BY <1>1, <1>2

LEMMA TopIsAll ==
  ASSUME NEW S, IsFiniteSet(S), NEW R, \A a \in S : <<a, a>> \notin R,
         NEW n \in Nat, Cardinality(S) <= n
  PROVE  TopOf(S, R, n) = S
<1>1. ASSUME NEW x \in S PROVE Cardinality(Above(S, R, x)) < n
  <2>1. Above(S, R, x) \subseteq S \ {x}
    BY DEF Above
  <2>2. IsFiniteSet(S \ {x}) /\ Cardinality(S \ {x}) = Cardinality(S) - 1 /\ Cardinality(S) \in Nat
    BY FS_RemoveElement, FS_CardinalityType
  <2>3. Cardinality(Above(S, R, x)) <= Cardinality(S \ {x}) /\ Cardinality(Above(S, R, x)) \in Nat
    BY <2>1, <2>2, FS_Subset, FS_CardinalityType
  <2> QED
    BY <2>2, <2>3
<1> QED
  BY <1>1 DEF TopOf

\* What is shown is all that is of the organ, but for what is worth nothing.
LEMMA ShownAddsUp ==
  ASSUME NEW K, ContractsRead(K), NEW o, NEW y
  PROVE  Pan!TotalOf(Pan!Shown(K, y, o), y) = Pan!YearLine(K, o, y)
<1> DEFINE D == {c \in K : Pan!MatchesOrgan(c, o)}
           P == Pan!Shown(K, y, o)
<1>1. Pan!YearLine(K, o, y) = Pan!TotalOf(D, y)
  BY DEF Pan!YearLine
<1>2. P \in SUBSET D /\ D \in SUBSET K
  BY DEF Pan!Shown
<1>3. \A c \in D \ P : ~Pan!Counted(c, y) /\ Pan!AmendedIn(c, y) = 0
  BY DEF Pan!Shown
<1>4. IsFiniteSet(D)
  BY FS_Subset DEF ContractsRead
<1> HIDE DEF P, D
<1>5. \A c \in D \ P : /\ Counting(K, y)[c] = 0 /\ Contracting(K, y)[c] = 0
                       /\ Registering(K, y)[c] = 0 /\ Amending(K, y)[c] = 0
  BY <1>2, <1>3 DEF Counting, Contracting, Registering, Amending
<1>6. \A c \in D : /\ Counting(K, y)[c] \in Int /\ Contracting(K, y)[c] \in Int
                   /\ Registering(K, y)[c] \in Int /\ Amending(K, y)[c] \in Int
  BY <1>2, WorthIs
<1>7. /\ Total(Counting(K, y), D) = Total(Counting(K, y), P)
      /\ Total(Contracting(K, y), D) = Total(Contracting(K, y), P)
      /\ Total(Registering(K, y), D) = Total(Registering(K, y), P)
      /\ Total(Amending(K, y), D) = Total(Amending(K, y), P)
  BY <1>2, <1>4, <1>5, <1>6, TotalOfPart
<1>8. Pan!TotalOf(D, y) = Pan!TotalOf(P, y)
  BY <1>2, <1>7, TotalOfIs
<1> QED
  BY <1>1, <1>8 DEF P

\* What is the same for each member, year by year or whole, is the same for all.
SameByYear(K, Y, table, whole) ==
  \A c \in K : /\ \A y \in Y : table[y][c] \in Int
               /\ whole[c] \in Int /\ Total([y \in Y |-> table[y][c]], Y) = whole[c]

LEMMA ByYear ==
  ASSUME NEW K, IsFiniteSet(K), NEW Y, IsFiniteSet(Y), NEW table, NEW whole, SameByYear(K, Y, table, whole)
  PROVE  Total(RowTotals(Y, K, table), Y) = Total(whole, K)
<1> DEFINE F == [c \in K |-> [y \in Y |-> table[y][c]]]
<1>1. IsTable(K, Y, F, table)
  BY DEF IsTable, SameByYear
<1>2. \A c \in K : F[c] = [y \in Y |-> table[y][c]]
  OBVIOUS
<1> HIDE DEF F
<1>3. Total(RowTotals(K, Y, F), K) = Total(RowTotals(Y, K, table), Y)
  BY <1>1, TotalSwaps
<1>4. \A c \in K : RowTotals(K, Y, F)[c] \in Int /\ RowTotals(K, Y, F)[c] = whole[c]
  BY <1>2 DEF RowTotals, SameByYear
<1>5. Total(RowTotals(K, Y, F), K) = Total(whole, K)
  BY <1>4, TotalsAgree
<1> QED
  BY <1>3, <1>5

\* Contracts and amendments of some years.
OfYears(K, Y) ==
  /\ IsFiniteSet(Y) /\ Y \subseteq Nat \ {0}
  /\ \A c \in K : Pan!Year(c.day) \in Y /\ \A m \in c.amendments : Pan!Year(m.day) \in Y

\* What is counted is counted in one year.
LEMMA CountedInOne ==
  ASSUME NEW K, NEW Y, OfYears(K, Y), NEW c \in K, NEW n \in Nat, NEW line,
         \A y \in Y : line[y] = IF Pan!Counted(c, y) THEN n ELSE 0
  PROVE  Total(line, Y) = IF Pan!Counted(c, 0) THEN n ELSE 0
<1>1. PICK own : own = Pan!Year(c.day)
  OBVIOUS
<1>2. own \in Y /\ 0 \notin Y /\ IsFiniteSet(Y)
  BY <1>1 DEF OfYears
<1>3. \A y \in Y \ {own} : line[y] = 0
  BY <1>1, <1>2 DEF Pan!Counted, Pan!MatchesYear, Pan!EveryYear
<1>4. line[own] = IF Pan!Counted(c, 0) THEN n ELSE 0
  BY <1>1, <1>2 DEF Pan!Counted, Pan!MatchesYear, Pan!EveryYear
<1>5. line[own] \in Int
  BY <1>4
<1>6. Total(line, Y) = line[own]
  BY <1>2, <1>3, <1>5, TotalAtOne
<1> QED
  BY <1>4, <1>6

LEMMA AmendedByYear ==
  ASSUME NEW K, ContractsRead(K), NEW Y, OfYears(K, Y), NEW c \in K, NEW line,
         \A y \in Y : line[y] = Pan!AmendedIn(c, y)
  PROVE  Total(line, Y) = Pan!AmendedIn(c, 0)
<1> DEFINE M == c.amendments
           cents == CentsIn(c)
           year == [m \in M |-> Pan!Year(m.day)]
           byYear == [y \in Y |-> Total(cents, {m \in M : year[m] = y})]
<1>1. IsFiniteSet(M) /\ IsFiniteSet(Y) /\ \A m \in M : cents[m] \in Int /\ year[m] \in Y
  BY DEF ContractsRead, CentsIn, OfYears
<1>2. ASSUME NEW y \in Y PROVE line[y] \in Int /\ line[y] = byYear[y]
  <2>1. AmendmentsIn(c, y) = {m \in M : year[m] = y}
    BY DEF OfYears, AmendmentsIn
  <2> HIDE DEF M, cents, year
  <2>2. byYear[y] = Total(cents, {m \in M : year[m] = y})
    OBVIOUS
  <2> HIDE DEF byYear
  <2> QED
    BY <2>1, <2>2, AmendedIs DEF cents
<1>3. AmendmentsIn(c, 0) = M
  BY DEF AmendmentsIn
<1> HIDE DEF M, cents, year
<1>4. Total(cents, M) = Total(byYear, Y)
  BY <1>1, TotalByKey
<1> HIDE DEF byYear
<1>5. Total(line, Y) = Total(byYear, Y)
  BY <1>1, <1>2, TotalsAgree
<1> QED
  BY <1>3, <1>4, <1>5, AmendedIs DEF cents

\* The years add up to the whole.
LEMMA YearsAddUp ==
  ASSUME NEW K, ContractsRead(K), NEW Y, OfYears(K, Y)
  PROVE  /\ Total([y \in Y |-> Total(Counting(K, y), K)], Y) = Total(Counting(K, 0), K)
         /\ Total([y \in Y |-> Total(Contracting(K, y), K)], Y) = Total(Contracting(K, 0), K)
         /\ Total([y \in Y |-> Total(Registering(K, y), K)], Y) = Total(Registering(K, 0), K)
         /\ Total([y \in Y |-> Total(Amending(K, y), K)], Y) = Total(Amending(K, 0), K)
<1>1. IsFiniteSet(K) /\ IsFiniteSet(Y)
  BY DEF ContractsRead, OfYears
<1>2. Total([y \in Y |-> Total(Counting(K, y), K)], Y) = Total(Counting(K, 0), K)
  <2> DEFINE table == [y \in Y |-> Counting(K, y)]
  <2>1. ASSUME NEW c \in K
        PROVE  /\ \A y \in Y : table[y][c] \in Int
               /\ Counting(K, 0)[c] \in Int /\ Total([y \in Y |-> table[y][c]], Y) = Counting(K, 0)[c]
    <3>1. PICK line : line = [y \in Y |-> table[y][c]]
      OBVIOUS
    <3>2. /\ \A y \in Y : line[y] = table[y][c] /\ table[y][c] = IF Pan!Counted(c, y) THEN 1 ELSE 0
          /\ Counting(K, 0)[c] = IF Pan!Counted(c, 0) THEN 1 ELSE 0
      BY <3>1 DEF Counting
    <3>3. Total(line, Y) = IF Pan!Counted(c, 0) THEN 1 ELSE 0
      BY <3>2, CountedInOne
    <3> QED
      BY <3>1, <3>2, <3>3
  <2>2. RowTotals(Y, K, table) = [y \in Y |-> Total(Counting(K, y), K)]
    BY DEF RowTotals
  <2> HIDE DEF table
  <2>3. SameByYear(K, Y, table, Counting(K, 0))
    BY <2>1 DEF SameByYear
  <2> QED
    BY <1>1, <2>2, <2>3, ByYear
<1>3. Total([y \in Y |-> Total(Contracting(K, y), K)], Y) = Total(Contracting(K, 0), K)
  <2> DEFINE table == [y \in Y |-> Contracting(K, y)]
  <2>1. ASSUME NEW c \in K
        PROVE  /\ \A y \in Y : table[y][c] \in Int
               /\ Contracting(K, 0)[c] \in Int /\ Total([y \in Y |-> table[y][c]], Y) = Contracting(K, 0)[c]
    <3>1. PICK line : line = [y \in Y |-> table[y][c]]
      OBVIOUS
    <3>2. /\ \A y \in Y : line[y] = table[y][c] /\ table[y][c] = IF Pan!Counted(c, y) THEN c.contracted ELSE 0
          /\ Contracting(K, 0)[c] = IF Pan!Counted(c, 0) THEN c.contracted ELSE 0
          /\ c.contracted \in Nat
      BY <3>1 DEF Contracting, ContractsRead
    <3>3. Total(line, Y) = IF Pan!Counted(c, 0) THEN c.contracted ELSE 0
      BY <3>2, CountedInOne
    <3> QED
      BY <3>1, <3>2, <3>3
  <2>2. RowTotals(Y, K, table) = [y \in Y |-> Total(Contracting(K, y), K)]
    BY DEF RowTotals
  <2> HIDE DEF table
  <2>3. SameByYear(K, Y, table, Contracting(K, 0))
    BY <2>1 DEF SameByYear
  <2> QED
    BY <1>1, <2>2, <2>3, ByYear
<1>4. Total([y \in Y |-> Total(Registering(K, y), K)], Y) = Total(Registering(K, 0), K)
  <2> DEFINE table == [y \in Y |-> Registering(K, y)]
  <2>1. ASSUME NEW c \in K
        PROVE  /\ \A y \in Y : table[y][c] \in Int
               /\ Registering(K, 0)[c] \in Int /\ Total([y \in Y |-> table[y][c]], Y) = Registering(K, 0)[c]
    <3>1. PICK line : line = [y \in Y |-> table[y][c]]
      OBVIOUS
    <3>2. /\ \A y \in Y : line[y] = table[y][c] /\ table[y][c] = IF Pan!Counted(c, y) THEN c.registered ELSE 0
          /\ Registering(K, 0)[c] = IF Pan!Counted(c, 0) THEN c.registered ELSE 0
          /\ c.registered \in Nat
      BY <3>1 DEF Registering, ContractsRead
    <3>3. Total(line, Y) = IF Pan!Counted(c, 0) THEN c.registered ELSE 0
      BY <3>2, CountedInOne
    <3> QED
      BY <3>1, <3>2, <3>3
  <2>2. RowTotals(Y, K, table) = [y \in Y |-> Total(Registering(K, y), K)]
    BY DEF RowTotals
  <2> HIDE DEF table
  <2>3. SameByYear(K, Y, table, Registering(K, 0))
    BY <2>1 DEF SameByYear
  <2> QED
    BY <1>1, <2>2, <2>3, ByYear
<1>5. Total([y \in Y |-> Total(Amending(K, y), K)], Y) = Total(Amending(K, 0), K)
  <2> DEFINE table == [y \in Y |-> Amending(K, y)]
  <2>1. ASSUME NEW c \in K
        PROVE  /\ \A y \in Y : table[y][c] \in Int
               /\ Amending(K, 0)[c] \in Int /\ Total([y \in Y |-> table[y][c]], Y) = Amending(K, 0)[c]
    <3>1. PICK line : line = [y \in Y |-> table[y][c]]
      OBVIOUS
    <3>2. /\ \A y \in Y : line[y] = table[y][c] /\ table[y][c] = Pan!AmendedIn(c, y)
          /\ Amending(K, 0)[c] = Pan!AmendedIn(c, 0)
      BY <3>1 DEF Amending
    <3>3. Total(line, Y) = Pan!AmendedIn(c, 0)
      BY <3>2, AmendedByYear
    <3>4. /\ \A y \in Y : Pan!AmendedIn(c, y) \in Nat
          /\ Pan!AmendedIn(c, 0) \in Nat
      BY AmendedIs
    <3> QED
      BY <3>1, <3>2, <3>3, <3>4
  <2>2. RowTotals(Y, K, table) = [y \in Y |-> Total(Amending(K, y), K)]
    BY DEF RowTotals
  <2> HIDE DEF table
  <2>3. SameByYear(K, Y, table, Amending(K, 0))
    BY <2>1 DEF SameByYear
  <2> QED
    BY <1>1, <2>2, <2>3, ByYear
<1> QED
  BY <1>2, <1>3, <1>4, <1>5

WithKey(K, key, k) == {c \in K : key[c] = k}

\* A row for each key, worth what those of the key are worth.
AreRows(K, N, f, key, row, v) ==
  /\ \A c \in K : f[c] \in Int /\ key[c] \in N
  /\ \A j, k \in N : row[j] = row[k] => j = k
  /\ \A k \in N : v[row[k]] = Total(f, WithKey(K, key, k))

\* The rows of different keys add up to the whole.
LEMMA RowsTotal ==
  ASSUME NEW K, IsFiniteSet(K), NEW N, IsFiniteSet(N), NEW f, NEW key, NEW row, NEW v, AreRows(K, N, f, key, row, v)
  PROVE  Total(v, {row[k] : k \in N}) = Total(f, K)
<1> DEFINE g == [k \in N |-> Total(f, {c \in K : key[c] = k})]
<1>0. /\ \A c \in K : f[c] \in Int /\ key[c] \in N
      /\ \A j, k \in N : row[j] = row[k] => j = k
      /\ \A k \in N : v[row[k]] = Total(f, WithKey(K, key, k))
  BY DEF AreRows
<1>1. Total(f, K) = Total(g, N)
  BY <1>0, TotalByKey
<1>2. \A k \in N : g[k] \in Int /\ v[row[k]] = g[k]
  <2>1. \A k \in N : WithKey(K, key, k) \in SUBSET K /\ g[k] = Total(f, WithKey(K, key, k))
    BY DEF WithKey
  <2> HIDE DEF g
  <2> QED
    BY <1>0, <2>1, TotalSteps
<1> HIDE DEF g
<1>3. Total(v, {row[k] : k \in N}) = Total(g, N)
  <2>1. \A j, k \in N : row[j] = row[k] => j = k
    BY <1>0
  <2>2. \A k \in N : g[k] \in Int /\ v[row[k]] = g[k]
    BY <1>2
  <2> QED
    BY <2>1, <2>2, TotalOfImage
<1> QED
  BY <1>1, <1>3

\* The rows of a panel, one for each company.
CompanyOf(K) == [c \in K |-> c.cnpj]
Companies(K) == {c.cnpj : c \in K}
RowFor(K, y) == [k \in Companies(K) |-> Pan!RowOf(k, {c \in K : c.cnpj = k}, y)]

LEMMA RowsAre ==
  ASSUME NEW K, IsFiniteSet(K), NEW y
  PROVE  /\ Pan!RowsOf(K, y) = {RowFor(K, y)[k] : k \in Companies(K)}
         /\ IsFiniteSet(Companies(K)) /\ \A c \in K : CompanyOf(K)[c] \in Companies(K)
         /\ \A k \in Companies(K) : /\ RowFor(K, y)[k].cnpj = k
                                    /\ RowFor(K, y)[k].total = Pan!TotalOf(WithKey(K, CompanyOf(K), k), y)
         /\ \A j, k \in Companies(K) : RowFor(K, y)[j] = RowFor(K, y)[k] => j = k
<1>1. Pan!RowsOf(K, y) = {RowFor(K, y)[k] : k \in Companies(K)}
  BY DEF Pan!RowsOf, RowFor, Companies
<1>2. IsFiniteSet(Companies(K)) /\ \A c \in K : CompanyOf(K)[c] \in Companies(K)
  <2>1. PICK f : f = CompanyOf(K)
    OBVIOUS
  <2>2. IsFiniteSet({f[c] : c \in K})
    BY ImagesAreFinite
  <2>3. {f[c] : c \in K} = Companies(K) /\ \A c \in K : CompanyOf(K)[c] \in Companies(K)
    BY <2>1 DEF CompanyOf, Companies
  <2> QED
    BY <2>2, <2>3
<1>3. ASSUME NEW k \in Companies(K)
      PROVE  RowFor(K, y)[k].cnpj = k /\ RowFor(K, y)[k].total = Pan!TotalOf(WithKey(K, CompanyOf(K), k), y)
  <2>1. \A D : Pan!RowOf(k, D, y).cnpj = k /\ Pan!RowOf(k, D, y).total = Pan!TotalOf(D, y)
    BY DEF Pan!RowOf
  <2>2. {c \in K : c.cnpj = k} = WithKey(K, CompanyOf(K), k)
    BY DEF WithKey, CompanyOf
  <2>3. RowFor(K, y)[k] = Pan!RowOf(k, WithKey(K, CompanyOf(K), k), y)
    BY <2>2 DEF RowFor
  <2> QED
    BY <2>1, <2>3
<1>4. ASSUME NEW j \in Companies(K), NEW k \in Companies(K), RowFor(K, y)[j] = RowFor(K, y)[k] PROVE j = k
  <2>1. RowFor(K, y)[j].cnpj = j /\ RowFor(K, y)[k].cnpj = k
    BY <1>3
  <2> QED
    BY <1>4, <2>1
<1> QED
  BY <1>1, <1>2, <1>3, <1>4

LEMMA SumRowsIs ==
  ASSUME NEW R
  PROVE  Pan!SumRows(R) = [contracts |-> Total([r \in R |-> r.total.contracts], R),
                           contracted |-> Total([r \in R |-> r.total.contracted], R),
                           registered |-> Total([r \in R |-> r.total.registered], R),
                           amended |-> Total([r \in R |-> r.total.amended], R)]
  BY SumsAre DEF Pan!SumRows, Pan!SumOf

\* A row's total, beside what its contracts are worth.
LEMMA RowWorth ==
  ASSUME NEW K, ContractsRead(K), NEW y, NEW k \in Companies(K)
  PROVE  LET D == WithKey(K, CompanyOf(K), k)
             total == RowFor(K, y)[k].total
         IN  /\ total.contracts = Total(Counting(K, y), D) /\ total.contracted = Total(Contracting(K, y), D)
             /\ total.registered = Total(Registering(K, y), D) /\ total.amended = Total(Amending(K, y), D)
             /\ total.contracted \in Nat /\ total.registered \in Nat /\ total.amended \in Nat
<1> DEFINE D == WithKey(K, CompanyOf(K), k)
<1>1. IsFiniteSet(K) /\ D \in SUBSET K
  BY DEF ContractsRead, WithKey
<1> HIDE DEF D
<1>2. RowFor(K, y)[k].total = Pan!TotalOf(D, y)
  BY <1>1, RowsAre DEF D
<1>3. Pan!TotalOf(D, y) = [contracts |-> Total(Counting(K, y), D), contracted |-> Total(Contracting(K, y), D),
                           registered |-> Total(Registering(K, y), D), amended |-> Total(Amending(K, y), D)]
  BY <1>1, TotalOfIs
<1>4. /\ Total(Contracting(K, y), D) \in Nat /\ Total(Registering(K, y), D) \in Nat
      /\ Total(Amending(K, y), D) \in Nat
  BY <1>1, WorthIs, TotalGrows
<1> QED
  BY <1>2, <1>3, <1>4 DEF D

LEMMA RowsAddUp ==
  ASSUME NEW K, ContractsRead(K), NEW y
  PROVE  Pan!SumRows(Pan!RowsOf(K, y)) = Pan!TotalOf(K, y)
<1> DEFINE R == Pan!RowsOf(K, y)
           N == Companies(K)
<1>1. PICK row : row = RowFor(K, y)
  OBVIOUS
<1>2. PICK key : key = CompanyOf(K)
  OBVIOUS
<1>3. IsFiniteSet(K) /\ K \in SUBSET K
  BY DEF ContractsRead
<1>4. /\ R = {row[k] : k \in N} /\ IsFiniteSet(N) /\ \A c \in K : key[c] \in N
      /\ \A j, k \in N : row[j] = row[k] => j = k
  BY <1>1, <1>2, <1>3, RowsAre
<1>5. \A k \in N : /\ row[k].total.contracts = Total(Counting(K, y), WithKey(K, key, k))
                   /\ row[k].total.contracted = Total(Contracting(K, y), WithKey(K, key, k))
                   /\ row[k].total.registered = Total(Registering(K, y), WithKey(K, key, k))
                   /\ row[k].total.amended = Total(Amending(K, y), WithKey(K, key, k))
  BY <1>1, <1>2, RowWorth
<1>6. \A c \in K : /\ Counting(K, y)[c] \in Int /\ Contracting(K, y)[c] \in Int
                   /\ Registering(K, y)[c] \in Int /\ Amending(K, y)[c] \in Int
  BY WorthIs
<1> HIDE DEF R, N
<1>7. Total([r \in R |-> r.total.contracts], R) = Total(Counting(K, y), K)
  <2>1. PICK v : v = [r \in R |-> r.total.contracts]
    OBVIOUS
  <2>2. \A k \in N : v[row[k]] = Total(Counting(K, y), WithKey(K, key, k))
    BY <1>4, <1>5, <2>1
  <2>3. PICK f : f = Counting(K, y)
    OBVIOUS
  <2>4. \A c \in K : f[c] \in Int /\ key[c] \in N
    BY <1>4, <1>6, <2>3
  <2>5. AreRows(K, N, f, key, row, v)
    BY <1>4, <2>2, <2>3, <2>4 DEF AreRows
  <2>6. Total(v, {row[k] : k \in N}) = Total(f, K)
    BY <1>3, <1>4, <2>5, RowsTotal
  <2> QED
    BY <1>4, <2>1, <2>3, <2>6
<1>8. Total([r \in R |-> r.total.contracted], R) = Total(Contracting(K, y), K)
  <2>1. PICK v : v = [r \in R |-> r.total.contracted]
    OBVIOUS
  <2>2. \A k \in N : v[row[k]] = Total(Contracting(K, y), WithKey(K, key, k))
    BY <1>4, <1>5, <2>1
  <2>3. PICK f : f = Contracting(K, y)
    OBVIOUS
  <2>4. \A c \in K : f[c] \in Int /\ key[c] \in N
    BY <1>4, <1>6, <2>3
  <2>5. AreRows(K, N, f, key, row, v)
    BY <1>4, <2>2, <2>3, <2>4 DEF AreRows
  <2>6. Total(v, {row[k] : k \in N}) = Total(f, K)
    BY <1>3, <1>4, <2>5, RowsTotal
  <2> QED
    BY <1>4, <2>1, <2>3, <2>6
<1>9. Total([r \in R |-> r.total.registered], R) = Total(Registering(K, y), K)
  <2>1. PICK v : v = [r \in R |-> r.total.registered]
    OBVIOUS
  <2>2. \A k \in N : v[row[k]] = Total(Registering(K, y), WithKey(K, key, k))
    BY <1>4, <1>5, <2>1
  <2>3. PICK f : f = Registering(K, y)
    OBVIOUS
  <2>4. \A c \in K : f[c] \in Int /\ key[c] \in N
    BY <1>4, <1>6, <2>3
  <2>5. AreRows(K, N, f, key, row, v)
    BY <1>4, <2>2, <2>3, <2>4 DEF AreRows
  <2>6. Total(v, {row[k] : k \in N}) = Total(f, K)
    BY <1>3, <1>4, <2>5, RowsTotal
  <2> QED
    BY <1>4, <2>1, <2>3, <2>6
<1>10. Total([r \in R |-> r.total.amended], R) = Total(Amending(K, y), K)
  <2>1. PICK v : v = [r \in R |-> r.total.amended]
    OBVIOUS
  <2>2. \A k \in N : v[row[k]] = Total(Amending(K, y), WithKey(K, key, k))
    BY <1>4, <1>5, <2>1
  <2>3. PICK f : f = Amending(K, y)
    OBVIOUS
  <2>4. \A c \in K : f[c] \in Int /\ key[c] \in N
    BY <1>4, <1>6, <2>3
  <2>5. AreRows(K, N, f, key, row, v)
    BY <1>4, <2>2, <2>3, <2>4 DEF AreRows
  <2>6. Total(v, {row[k] : k \in N}) = Total(f, K)
    BY <1>3, <1>4, <2>5, RowsTotal
  <2> QED
    BY <1>4, <2>1, <2>3, <2>6
<1>11. Pan!SumRows(R) = Pan!TotalOf(K, y)
  BY <1>3, <1>7, <1>8, <1>9, <1>10, SumRowsIs, TotalOfIs
<1> QED
  BY <1>11 DEF R

\* The order of the rows: by what is contracted, registered, amended, then by company.
LEMMA RowBeforeIs ==
  ASSUME NEW r, NEW s, r.total.contracted \in Nat, r.total.registered \in Nat, r.total.amended \in Nat, r.cnpj \in Nat,
         s.total.contracted \in Nat, s.total.registered \in Nat, s.total.amended \in Nat, s.cnpj \in Nat
  PROVE  Pan!RowBefore(r, s) <=>
           \/ r.total.contracted > s.total.contracted
           \/ r.total.contracted = s.total.contracted /\ r.total.registered > s.total.registered
           \/ /\ r.total.contracted = s.total.contracted /\ r.total.registered = s.total.registered
              /\ r.total.amended > s.total.amended
           \/ /\ r.total.contracted = s.total.contracted /\ r.total.registered = s.total.registered
              /\ r.total.amended = s.total.amended /\ r.cnpj < s.cnpj
<1> DEFINE key(x) == <<-x.total.contracted, -x.total.registered, -x.total.amended, x.cnpj>>
<1>1. Pan!RowBefore(r, s) <=> \E i \in 1 .. 4 : key(r)[i] < key(s)[i] /\ \A j \in 1 .. i - 1 : key(r)[j] = key(s)[j]
  BY DEF Pan!RowBefore
<1>2. /\ key(r)[1] = -r.total.contracted /\ key(r)[2] = -r.total.registered
      /\ key(r)[3] = -r.total.amended /\ key(r)[4] = r.cnpj
      /\ key(s)[1] = -s.total.contracted /\ key(s)[2] = -s.total.registered
      /\ key(s)[3] = -s.total.amended /\ key(s)[4] = s.cnpj
  OBVIOUS
<1> HIDE DEF key
<1>3. Pan!RowBefore(r, s) <=>
        \/ key(r)[1] < key(s)[1]
        \/ key(r)[1] = key(s)[1] /\ key(r)[2] < key(s)[2]
        \/ key(r)[1] = key(s)[1] /\ key(r)[2] = key(s)[2] /\ key(r)[3] < key(s)[3]
        \/ key(r)[1] = key(s)[1] /\ key(r)[2] = key(s)[2] /\ key(r)[3] = key(s)[3] /\ key(r)[4] < key(s)[4]
  <2>1. 1 .. 4 = {1, 2, 3, 4} /\ 1 .. 1 - 1 = {} /\ 1 .. 2 - 1 = {1} /\ 1 .. 3 - 1 = {1, 2} /\ 1 .. 4 - 1 = {1, 2, 3}
    OBVIOUS
  <2> QED
    BY <1>1, <2>1
<1> QED
  BY <1>2, <1>3

RowOrder(R) == {p \in R \X R : Pan!RowBefore(p[1], p[2])}

LEMMA RowsAreOrdered ==
  ASSUME NEW K, ContractsRead(K), \A c \in K : c.cnpj \in Nat, NEW y, NEW R, R = Pan!RowsOf(K, y)
  PROVE  /\ IsFiniteSet(R)
         /\ \A a \in R : <<a, a>> \notin RowOrder(R)
         /\ \A a, b, c \in R : <<a, b>> \in RowOrder(R) /\ <<b, c>> \in RowOrder(R) => <<a, c>> \in RowOrder(R)
         /\ \A a, b \in R : a # b => <<a, b>> \in RowOrder(R) \/ <<b, a>> \in RowOrder(R)
<1>0. IsFiniteSet(K)
  BY DEF ContractsRead
<1>1. IsFiniteSet(R)
  <2>1. PICK row : row = RowFor(K, y)
    OBVIOUS
  <2>2. IsFiniteSet({row[k] : k \in Companies(K)})
    BY <1>0, RowsAre, ImagesAreFinite
  <2> QED
    BY <1>0, <2>1, <2>2, RowsAre
<1>2. ASSUME NEW r \in R
      PROVE  /\ r.total.contracted \in Nat /\ r.total.registered \in Nat /\ r.total.amended \in Nat /\ r.cnpj \in Nat
             /\ r = RowFor(K, y)[r.cnpj]
  <2>1. PICK k \in Companies(K) : r = RowFor(K, y)[k]
    <3>1. PICK row : row = RowFor(K, y)
      OBVIOUS
    <3>2. R = {row[k] : k \in Companies(K)}
      BY <1>0, <3>1, RowsAre
    <3> QED
      BY <3>1, <3>2
  <2>2. r.cnpj = k /\ k \in Nat
    <3>1. k \in Nat
      BY DEF Companies
    <3> QED
      BY <1>0, <2>1, <3>1, RowsAre
  <2> QED
    BY <2>1, <2>2, RowWorth
<1>3. \A a, b \in R : <<a, b>> \in RowOrder(R) <=> Pan!RowBefore(a, b)
  BY DEF RowOrder
<1>4. ASSUME NEW a \in R PROVE ~Pan!RowBefore(a, a)
  BY <1>2, RowBeforeIs
<1>5. ASSUME NEW a \in R, NEW b \in R, NEW c \in R, Pan!RowBefore(a, b), Pan!RowBefore(b, c) PROVE Pan!RowBefore(a, c)
  BY <1>2, <1>5, RowBeforeIs
<1>6. ASSUME NEW a \in R, NEW b \in R, a # b PROVE Pan!RowBefore(a, b) \/ Pan!RowBefore(b, a)
  <2>1. a.cnpj # b.cnpj
    BY <1>2, <1>6
  <2> QED
    BY <1>2, <2>1, RowBeforeIs
<1> QED
  BY <1>1, <1>3, <1>4, <1>5, <1>6

\* The contracts of the panel, their years and their organs.
PanelOf == Pan!PanelContracts(Pan!ActsOfSource("prefeitura"))

LEMMA OrgansAre ==
  ASSUME NEW S, NEW o \in Pan!OrgansOf(S)
  PROVE  o # Pan!EveryOrgan /\ Pan!PrincipalOrgan(o) = o
<1>1. o # Pan!EveryOrgan /\ \E a \in S : o = Pan!PrincipalOrgan(a.organ)
  BY Zenon DEF Pan!OrgansOf, Pan!EveryOrgan
<1> QED
  BY <1>1, PurchasesAssumption DEF Pan!PrincipalOrgan

LEMMA PanelIsRead ==
  ASSUME given \subseteq PanelActs, IsFiniteSet(given)
  PROVE  /\ ContractsRead(PanelOf) /\ OfYears(PanelOf, Pan!Years)
         /\ \A c \in PanelOf : c.cnpj \in Nat
         /\ \A c, d \in PanelOf : \A o \in c.organs : Pan!MatchesOrgan(d, o) <=> o \in d.organs
<1> DEFINE S == Pan!ActsOfSource("prefeitura")
<1>1. S \in SUBSET given
  BY DEF Pan!ActsOfSource
<1>2. ActsRead(given)
  BY PurchasesAssumption DEF ActsRead, Identified
<1> HIDE DEF S
<1>3. ActsRead(S)
  BY <1>1, <1>2, PartsAreRead
<1>4. ASSUME NEW c \in PanelOf
      PROVE  /\ c.cnpj \in Nat /\ c.acts \in SUBSET given /\ c.organs = Pan!OrgansOf(c.acts)
             /\ \E a \in c.acts : c.day = a.day
             /\ \A m \in c.amendments : \E a \in c.acts : m.day = a.day
  <2>1. c \in Pan!PanelContracts(S)
    BY DEF PanelOf, S
  <2> QED
    BY <1>1, <1>3, <2>1, ContractsAre
<1>5. ContractsRead(PanelOf)
  BY <1>3, ContractsAreRead DEF PanelOf, S
<1>6. Pan!Years = {Pan!Year(a.day) : a \in given}
  BY DEF Pan!Years
<1>7. IsFiniteSet(Pan!Years) /\ Pan!Years \subseteq Nat \ {0}
  <2>1. PICK f : f = [a \in given |-> Pan!Year(a.day)]
    OBVIOUS
  <2>2. Pan!Years = {f[a] : a \in given}
    BY <1>6, <2>1
  <2>3. \A a \in given : Pan!Year(a.day) \in Nat \ {0}
    <3> SUFFICES ASSUME NEW a \in given PROVE Pan!Year(a.day) \in Nat \ {0}
      OBVIOUS
    <3>1. a.day \in Nat /\ a.day >= 365
      BY <1>2, PurchasesAssumption DEF ActsRead, Identified
    <3>2. \A n \in Nat : n >= 365 => n \div 365 \in Nat \ {0}
      OBVIOUS
    <3> QED
      BY <3>1, <3>2 DEF Pan!Year
  <2>4. IsFiniteSet({f[a] : a \in given})
    BY ImagesAreFinite
  <2>5. IsFiniteSet(Pan!Years)
    BY <2>2, <2>4
  <2>6. Pan!Years \subseteq Nat \ {0}
    BY <1>6, <2>3
  <2> QED
    BY <2>5, <2>6
<1>8. OfYears(PanelOf, Pan!Years)
  BY <1>4, <1>6, <1>7 DEF OfYears
<1>9. ASSUME NEW c \in PanelOf, NEW d \in PanelOf, NEW o \in c.organs PROVE Pan!MatchesOrgan(d, o) <=> o \in d.organs
  BY <1>4, OrgansAre DEF Pan!MatchesOrgan
<1> QED
  BY <1>4, <1>5, <1>8, <1>9

\* What was paid, and what of it to the companies of the rows.
PaidCents == [p \in beside |-> p.cents]

LEMMA CentsAre ==
  ASSUME beside \subseteq PanelPayments, IsFiniteSet(beside), NEW T \in SUBSET beside
  PROVE  Pan!CentsOf(T) = Total(PaidCents, T)
<1>1. PICK f : f = [p \in T |-> p.cents]
  OBVIOUS
<1>2. Pan!CentsOf(T) = Total(f, T)
  BY <1>1, SumsAre DEF Pan!CentsOf, Pan!SumOf
<1>3. IsFiniteSet(T) /\ \A p \in T : f[p] \in Int /\ f[p] = PaidCents[p]
  BY <1>1, FS_Subset, PurchasesAssumption DEF PaidCents
<1> QED
  BY <1>2, <1>3, TotalsAgree

LEMMA RowsArePaid ==
  ASSUME beside \subseteq PanelPayments, IsFiniteSet(beside), NEW K, IsFiniteSet(K), NEW y, NEW R, R = Pan!RowsOf(K, y)
  PROVE  Total([r \in R |-> Pan!PaidTo("prefeitura", r.cnpj, Pan!EveryYear)], R)
           = Pan!CentsOf({p \in Pan!PaidBy("prefeitura") : p.cnpj \in {r.cnpj : r \in R}})
<1> DEFINE N == Companies(K)
           P == {p \in Pan!PaidBy("prefeitura") : p.cnpj \in {r.cnpj : r \in R}}
<1>1. PICK row : row = RowFor(K, y)
  OBVIOUS
<1>2. PICK key : key = [p \in P |-> p.cnpj]
  OBVIOUS
<1>3. PICK v : v = [r \in R |-> Pan!PaidTo("prefeitura", r.cnpj, Pan!EveryYear)]
  OBVIOUS
<1>4. /\ R = {row[k] : k \in N} /\ IsFiniteSet(N) /\ \A k \in N : row[k].cnpj = k
      /\ \A j, k \in N : row[j] = row[k] => j = k
  BY <1>1, RowsAre
<1>5. {r.cnpj : r \in R} = N
  BY <1>4
<1>6. P \in SUBSET beside /\ IsFiniteSet(P)
  BY FS_Subset DEF Pan!PaidBy
<1>7. \A p \in P : PaidCents[p] \in Int /\ key[p] \in N
  BY <1>2, <1>5, <1>6, PurchasesAssumption DEF PaidCents
<1>8. ASSUME NEW k \in N PROVE v[row[k]] = Total(PaidCents, WithKey(P, key, k))
  <2>1. v[row[k]] = Pan!PaidTo("prefeitura", k, Pan!EveryYear)
    BY <1>3, <1>4
  <2>2. {p \in Pan!PaidBy("prefeitura") : p.cnpj = k /\ Pan!EveryYear \in {Pan!EveryYear, p.year}} = WithKey(P, key, k)
    BY <1>2, <1>5 DEF WithKey
  <2>3. WithKey(P, key, k) \in SUBSET beside
    BY <1>6 DEF WithKey
  <2> QED
    BY <2>1, <2>2, <2>3, CentsAre DEF Pan!PaidTo
<1>9. Pan!CentsOf(P) = Total(PaidCents, P)
  BY <1>6, CentsAre
<1> HIDE DEF P, N
<1>10. PICK f : f = PaidCents
  OBVIOUS
<1>11. Total(v, {row[k] : k \in N}) = Total(f, P)
  <2>1. \A p \in P : f[p] \in Int /\ key[p] \in N
    BY <1>7, <1>10
  <2>2. \A k \in N : v[row[k]] = Total(f, WithKey(P, key, k))
    BY <1>8, <1>10
  <2>3. IsFiniteSet(P) /\ IsFiniteSet(N)
    BY <1>4, <1>6
  <2>4. AreRows(P, N, f, key, row, v)
    BY <1>4, <2>1, <2>2 DEF AreRows
  <2> QED
    BY <2>3, <2>4, RowsTotal
<1>12. Total(v, R) = Pan!CentsOf(P)
  BY <1>4, <1>9, <1>10, <1>11
<1> QED
  BY <1>3, <1>12 DEF P

\* What the panel is made of.
RowsShown(y, o) == Pan!RowsOf(Pan!Shown(PanelOf, y, o), y)
YearLines(K, o) == [n \in Pan!Years |-> Pan!YearLine(K, o, n)]
OrganLines(K, y) == [n \in UNION {c.organs : c \in K} |-> Pan!OrganLine(K, n, y)]

LEMMA PanelBuilt ==
  ASSUME NEW y, NEW o
  PROVE  LET built == Pan!BuildSupplierPanel("prefeitura", y, o)
             R == RowsShown(y, o)
         IN  /\ built.total = Pan!TotalOf(Pan!Shown(PanelOf, y, o), y)
             /\ built.suppliers = Cardinality(R) /\ built.rows = TopOf(R, RowOrder(R), SupplierPanelLimit)
             /\ built.rowsPaid = Total([r \in R |-> Pan!PaidTo("prefeitura", r.cnpj, y)], R)
             /\ built.years = YearLines(PanelOf, o) /\ built.organs = OrganLines(PanelOf, y)
<1> DEFINE built == Pan!BuildSupplierPanel("prefeitura", y, o)
           R == RowsShown(y, o)
<1>1. built = [total |-> Pan!TotalOf(Pan!Shown(PanelOf, y, o), y), suppliers |-> Pan!Cardinality(R),
               rows |-> {r \in R : Pan!Cardinality({s \in R : Pan!RowBefore(s, r)}) < SupplierPanelLimit},
               paid |-> Pan!PaidIn("prefeitura", y),
               rowsPaid |-> Pan!SumOf(LAMBDA r : Pan!PaidTo("prefeitura", r.cnpj, y), R),
               years |-> [n \in {Pan!Year(a.day) : a \in given} |-> Pan!YearLine(PanelOf, o, n)],
               organs |-> [n \in UNION {c.organs : c \in PanelOf} |-> Pan!OrganLine(PanelOf, n, y)],
               paidYears |-> [n \in {p.year : p \in beside} |-> Pan!PaidIn("prefeitura", n)]]
  BY Zenon DEF Pan!BuildSupplierPanel, RowsShown, PanelOf
<1> HIDE DEF R, built
<1>2. {r \in R : Pan!Cardinality({s \in R : Pan!RowBefore(s, r)}) < SupplierPanelLimit}
        = TopOf(R, RowOrder(R), SupplierPanelLimit)
  <2>1. \A r \in R : {s \in R : Pan!RowBefore(s, r)} = Above(R, RowOrder(R), r)
    BY DEF Above, RowOrder
  <2> QED
    BY <2>1, PanCardinality DEF TopOf
<1>3. Pan!SumOf(LAMBDA r : Pan!PaidTo("prefeitura", r.cnpj, y), R)
        = Total([r \in R |-> Pan!PaidTo("prefeitura", r.cnpj, y)], R)
  BY SumsAre DEF Pan!SumOf
<1>4. /\ built.total = Pan!TotalOf(Pan!Shown(PanelOf, y, o), y) /\ built.suppliers = Pan!Cardinality(R)
      /\ built.rows = {r \in R : Pan!Cardinality({s \in R : Pan!RowBefore(s, r)}) < SupplierPanelLimit}
      /\ built.rowsPaid = Pan!SumOf(LAMBDA r : Pan!PaidTo("prefeitura", r.cnpj, y), R)
      /\ built.years = [n \in {Pan!Year(a.day) : a \in given} |-> Pan!YearLine(PanelOf, o, n)]
      /\ built.organs = [n \in UNION {c.organs : c \in PanelOf} |-> Pan!OrganLine(PanelOf, n, y)]
  BY <1>1
<1>5. built.years = YearLines(PanelOf, o) /\ built.organs = OrganLines(PanelOf, y)
  BY <1>4, Zenon DEF YearLines, OrganLines, Pan!Years
<1> QED
  BY <1>2, <1>3, <1>4, <1>5, PanCardinality DEF R, built

\* The lines of the years add up to the panel's total.
AddedUp(whole) == [field \in DOMAIN whole.total |-> Pan!SumOf(LAMBDA y : whole.years[y][field], Pan!Years)]

LEMMA YearsAdded ==
  ASSUME NEW K, ContractsRead(K), OfYears(K, Pan!Years),
         NEW whole, whole.total = Pan!TotalOf(K, 0), \A n \in Pan!Years : whole.years[n] = Pan!TotalOf(K, n),
         NEW added, added = AddedUp(whole)
  PROVE  Pan!Amounts(added) = Pan!Amounts(whole.total)
<1> DEFINE Y == Pan!Years
<1>1. K \in SUBSET K
  OBVIOUS
<1>2. \A y : Pan!TotalOf(K, y) = [contracts |-> Total(Counting(K, y), K), contracted |-> Total(Contracting(K, y), K),
                                  registered |-> Total(Registering(K, y), K), amended |-> Total(Amending(K, y), K)]
  BY <1>1, TotalOfIs
<1>3. DOMAIN whole.total = {"contracts", "contracted", "registered", "amended"}
  BY <1>2
<1>4. \A field \in DOMAIN whole.total : added[field] = Total([y \in Y |-> whole.years[y][field]], Y)
  BY SumsAre DEF Pan!SumOf, AddedUp
<1> HIDE DEF Y
<1>5. /\ added.contracts = Total([y \in Y |-> whole.years[y].contracts], Y)
      /\ added.contracted = Total([y \in Y |-> whole.years[y].contracted], Y)
      /\ added.registered = Total([y \in Y |-> whole.years[y].registered], Y)
      /\ added.amended = Total([y \in Y |-> whole.years[y].amended], Y)
  BY <1>3, <1>4
<1>6. /\ [y \in Y |-> whole.years[y].contracts] = [y \in Y |-> Total(Counting(K, y), K)]
      /\ [y \in Y |-> whole.years[y].contracted] = [y \in Y |-> Total(Contracting(K, y), K)]
      /\ [y \in Y |-> whole.years[y].registered] = [y \in Y |-> Total(Registering(K, y), K)]
      /\ [y \in Y |-> whole.years[y].amended] = [y \in Y |-> Total(Amending(K, y), K)]
  <2>1. \A y \in Y : whole.years[y] = Pan!TotalOf(K, y)
    BY DEF Y
  <2> QED
    BY <1>2, <2>1
<1>7. /\ added.contracts = whole.total.contracts /\ added.contracted = whole.total.contracted
      /\ added.registered = whole.total.registered /\ added.amended = whole.total.amended
  <2>1. /\ Total([y \in Y |-> Total(Counting(K, y), K)], Y) = Total(Counting(K, 0), K)
        /\ Total([y \in Y |-> Total(Contracting(K, y), K)], Y) = Total(Contracting(K, 0), K)
        /\ Total([y \in Y |-> Total(Registering(K, y), K)], Y) = Total(Registering(K, 0), K)
        /\ Total([y \in Y |-> Total(Amending(K, y), K)], Y) = Total(Amending(K, 0), K)
    BY YearsAddUp DEF Y
  <2>2. /\ added.contracts = Total(Counting(K, 0), K) /\ added.contracted = Total(Contracting(K, 0), K)
        /\ added.registered = Total(Registering(K, 0), K) /\ added.amended = Total(Amending(K, 0), K)
    BY <1>5, <1>6, <2>1, Zenon
  <2>3. /\ whole.total.contracts = Total(Counting(K, 0), K) /\ whole.total.contracted = Total(Contracting(K, 0), K)
        /\ whole.total.registered = Total(Registering(K, 0), K) /\ whole.total.amended = Total(Amending(K, 0), K)
    BY <1>2
  <2> QED
    BY <2>2, <2>3
<1> QED
  BY <1>7 DEF Pan!Amounts

\* The rows shown, when they all fit and when they do not.
LEMMA RowsHold ==
  ASSUME NEW K, ContractsRead(K), \A c \in K : c.cnpj \in Nat, NEW y, NEW R, R = Pan!RowsOf(K, y),
         NEW n \in Nat, NEW T, T = TopOf(R, RowOrder(R), n)
  PROVE  /\ Cardinality(R) <= n => T = R
         /\ ~(Cardinality(R) <= n) =>
              /\ Cardinality(T) = n /\ Pan!SumRows(T).contracted <= Pan!TotalOf(K, y).contracted
              /\ \A r \in T, s \in R \ T : Pan!RowBefore(r, s)
<1>1. /\ IsFiniteSet(R) /\ Cardinality(R) \in Nat
      /\ \A a \in R : <<a, a>> \notin RowOrder(R)
      /\ \A a, b, c \in R : <<a, b>> \in RowOrder(R) /\ <<b, c>> \in RowOrder(R) => <<a, c>> \in RowOrder(R)
      /\ \A a, b \in R : a # b => <<a, b>> \in RowOrder(R) \/ <<b, a>> \in RowOrder(R)
  BY RowsAreOrdered, FS_CardinalityType
<1>2. PICK order : order = RowOrder(R)
  OBVIOUS
<1>3. ASSUME Cardinality(R) <= n PROVE T = R
  BY <1>1, <1>2, <1>3, TopIsAll
<1>4. ASSUME ~(Cardinality(R) <= n) PROVE Cardinality(T) = n
  BY <1>1, <1>2, <1>4, TopFits
<1>5. ASSUME NEW r \in T, NEW s \in R \ T PROVE Pan!RowBefore(r, s)
  <2>1. <<r, s>> \in RowOrder(R)
    BY <1>1, <1>2, TopIsFirst
  <2> QED
    BY <2>1 DEF RowOrder
<1>6. Pan!SumRows(T).contracted <= Pan!TotalOf(K, y).contracted
  <2>1. T \in SUBSET R /\ IsFiniteSet(T)
    BY <1>1, FS_Subset DEF TopOf
  <2>2. PICK f : f = [r \in R |-> r.total.contracted]
    OBVIOUS
  <2>3. PICK g : g = [r \in T |-> r.total.contracted]
    OBVIOUS
  <2>4. \A r \in R : f[r] \in Nat
    <3> SUFFICES ASSUME NEW r \in R PROVE r.total.contracted \in Nat
      BY <2>2
    <3>1. IsFiniteSet(K)
      BY DEF ContractsRead
    <3>2. PICK k \in Companies(K) : r = RowFor(K, y)[k]
      <4>1. PICK row : row = RowFor(K, y)
        OBVIOUS
      <4>2. R = {row[k] : k \in Companies(K)}
        BY <3>1, <4>1, RowsAre
      <4> QED
        BY <4>1, <4>2
    <3> QED
      BY <3>2, RowWorth
  <2>5. Total(f, T) <= Total(f, R)
    BY <1>1, <2>1, <2>4, TotalGrows
  <2>6. Total(g, T) = Total(f, T)
    <3>1. \A r \in T : g[r] \in Int /\ g[r] = f[r]
      BY <2>1, <2>2, <2>3, <2>4
    <3> QED
      BY <2>1, <3>1, TotalsAgree
  <2>7. Pan!SumRows(T).contracted = Total(g, T) /\ Pan!SumRows(R).contracted = Total(f, R)
    BY <2>2, <2>3, SumRowsIs
  <2>8. Pan!SumRows(R) = Pan!TotalOf(K, y)
    BY RowsAddUp
  <2> QED
    BY <2>5, <2>6, <2>7, <2>8
<1> QED
  BY <1>3, <1>4, <1>5, <1>6

LEMMA PanelHolds ==
  ASSUME given \subseteq PanelActs, IsFiniteSet(given), beside \subseteq PanelPayments, IsFiniteSet(beside)
  PROVE  Pan!PanelAddsUp
<1> DEFINE K == PanelOf
           Built(y, o) == Pan!BuildSupplierPanel("prefeitura", y, o)
           whole == Built(Pan!EveryYear, Pan!EveryOrgan)
           W == Pan!Shown(K, Pan!EveryYear, Pan!EveryOrgan)
           R == Pan!RowsOf(W, Pan!EveryYear)
<1>1. /\ ContractsRead(K) /\ OfYears(K, Pan!Years) /\ \A c \in K : c.cnpj \in Nat
      /\ \A c, d \in K : \A o \in c.organs : Pan!MatchesOrgan(d, o) <=> o \in d.organs
  BY PanelIsRead
<1> HIDE DEF K
<1>2. ASSUME NEW y, NEW o
      PROVE  /\ Built(y, o).total = Pan!YearLine(K, o, y)
             /\ Built(y, o).years = YearLines(K, o) /\ Built(y, o).organs = OrganLines(K, y)
  <2>1. /\ Built(y, o).total = Pan!TotalOf(Pan!Shown(K, y, o), y)
        /\ Built(y, o).years = YearLines(K, o) /\ Built(y, o).organs = OrganLines(K, y)
    BY PanelBuilt DEF K
  <2> HIDE DEF Built
  <2> QED
    BY <1>1, <2>1, ShownAddsUp
<1>3. /\ \A o : \A n \in Pan!Years : YearLines(K, o)[n] = Pan!YearLine(K, o, n)
      /\ \A y : \A o \in UNION {c.organs : c \in K} : OrganLines(K, y)[o] = Pan!OrganLine(K, o, y)
  BY DEF YearLines, OrganLines
<1>4. ASSUME NEW y PROVE Pan!YearLine(K, Pan!EveryOrgan, y) = Pan!TotalOf(K, y)
  <2>1. {c \in K : Pan!MatchesOrgan(c, Pan!EveryOrgan)} = K
    BY Zenon DEF Pan!MatchesOrgan
  <2> QED
    BY <2>1 DEF Pan!YearLine
<1>5. /\ whole.suppliers = Cardinality(R) /\ whole.rows = TopOf(R, RowOrder(R), SupplierPanelLimit)
      /\ whole.rowsPaid = Total([r \in R |-> Pan!PaidTo("prefeitura", r.cnpj, Pan!EveryYear)], R)
  BY PanelBuilt DEF RowsShown, K
<1> HIDE DEF Built
<1>6. Pan!Amounts(AddedUp(whole)) = Pan!Amounts(whole.total)
  <2>1. whole.total = Pan!TotalOf(K, 0)
    BY <1>2, <1>4 DEF Pan!EveryYear
  <2>2. \A n \in Pan!Years : whole.years[n] = Pan!TotalOf(K, n)
    BY <1>2, <1>4, <1>3
  <2> QED
    BY <1>1, <2>1, <2>2, YearsAdded
<1>7. ASSUME NEW y \in Pan!Years PROVE Built(y, Pan!EveryOrgan).total = whole.years[y]
  BY <1>2, <1>3
<1>8. ASSUME NEW o \in DOMAIN whole.organs
      PROVE  /\ Built(Pan!EveryYear, o).total = whole.organs[o]
             /\ \A y \in Pan!Years : Built(y, o).total = Built(Pan!EveryYear, o).years[y]
  <2>1. o \in UNION {c.organs : c \in K}
    BY <1>2 DEF OrganLines
  <2>2. {d \in K : Pan!MatchesOrgan(d, o)} = {d \in K : o \in d.organs}
    BY <1>1, <2>1
  <2>3. Pan!YearLine(K, o, Pan!EveryYear) = Pan!OrganLine(K, o, Pan!EveryYear)
    BY <2>2 DEF Pan!YearLine, Pan!OrganLine
  <2>4. Built(Pan!EveryYear, o).total = Pan!YearLine(K, o, Pan!EveryYear)
    BY <1>2
  <2>5. whole.organs[o] = Pan!OrganLine(K, o, Pan!EveryYear)
    <3>1. whole.organs = OrganLines(K, Pan!EveryYear)
      BY <1>2
    <3>2. OrganLines(K, Pan!EveryYear)[o] = Pan!OrganLine(K, o, Pan!EveryYear)
      BY <2>1 DEF OrganLines
    <3> QED
      BY <3>1, <3>2
  <2>6. ASSUME NEW y \in Pan!Years PROVE Built(y, o).total = Built(Pan!EveryYear, o).years[y]
    BY <1>2, <1>3
  <2> QED
    BY <2>3, <2>4, <2>5, <2>6
<1>9. /\ W \in SUBSET K /\ ContractsRead(W) /\ \A c \in W : c.cnpj \in Nat
      /\ Pan!TotalOf(W, Pan!EveryYear) = whole.total
  <2>1. W \in SUBSET K
    BY DEF Pan!Shown
  <2>2. ContractsRead(W)
    BY <1>1, <2>1, FS_Subset DEF ContractsRead
  <2>3. Pan!TotalOf(W, Pan!EveryYear) = Pan!YearLine(K, Pan!EveryOrgan, Pan!EveryYear)
    BY <1>1, ShownAddsUp
  <2> QED
    BY <1>1, <1>2, <2>1, <2>2, <2>3
<1> HIDE DEF W
<1>10. PICK shown : shown = whole.rows
  OBVIOUS
<1>11. PICK rows : rows = R
  OBVIOUS
<1>12. /\ Cardinality(rows) <= SupplierPanelLimit => shown = rows
       /\ ~(Cardinality(rows) <= SupplierPanelLimit) =>
            /\ Cardinality(shown) = SupplierPanelLimit
            /\ Pan!SumRows(shown).contracted <= Pan!TotalOf(W, Pan!EveryYear).contracted
            /\ \A r \in shown, s \in rows \ shown : Pan!RowBefore(r, s)
  <2>1. shown = TopOf(rows, RowOrder(rows), SupplierPanelLimit) /\ rows = Pan!RowsOf(W, Pan!EveryYear)
    BY <1>5, <1>10, <1>11
  <2>2. SupplierPanelLimit \in Nat
    BY PurchasesAssumption
  <2> QED
    BY <1>9, <2>1, <2>2, RowsHold
<1>13. Pan!SumRows(R) = whole.total
  BY <1>9, RowsAddUp
<1>14. whole.rowsPaid = Pan!CentsOf({p \in Pan!PaidBy("prefeitura") : p.cnpj \in {r.cnpj : r \in R}})
  <2>1. IsFiniteSet(W)
    BY <1>9 DEF ContractsRead
  <2> QED
    BY <1>5, <2>1, RowsArePaid
<1>15. IF whole.suppliers <= SupplierPanelLimit
       THEN /\ Pan!SumRows(whole.rows) = whole.total
            /\ whole.rowsPaid =
                 Pan!CentsOf({p \in Pan!PaidBy("prefeitura") : p.cnpj \in {r.cnpj : r \in whole.rows}})
       ELSE /\ Pan!Cardinality(whole.rows) = SupplierPanelLimit
            /\ Pan!SumRows(whole.rows).contracted <= whole.total.contracted
            /\ \A r \in whole.rows, s \in R \ whole.rows : Pan!RowBefore(r, s)
  <2>1. CASE Cardinality(R) <= SupplierPanelLimit
    <3>1. Cardinality(rows) <= SupplierPanelLimit
      BY <1>11, <2>1
    <3>2. whole.rows = R
      BY <1>10, <1>11, <1>12, <3>1
    <3> QED
      BY <1>5, <1>13, <1>14, <2>1, <3>2, Zenon
  <2>2. CASE ~(Cardinality(R) <= SupplierPanelLimit)
    <3>1. ~(Cardinality(rows) <= SupplierPanelLimit)
      BY <1>11, <2>2
    <3>2. /\ Cardinality(shown) = SupplierPanelLimit
          /\ Pan!SumRows(shown).contracted <= Pan!TotalOf(W, Pan!EveryYear).contracted
          /\ \A r \in shown, s \in rows \ shown : Pan!RowBefore(r, s)
      BY <1>12, <3>1
    <3> QED
      BY <1>5, <1>9, <1>10, <1>11, <2>2, <3>2, PanCardinality
  <2> QED
    BY <2>1, <2>2
<1> HIDE DEF R
<1>16. R = Pan!RowsOf(Pan!Shown(Pan!PanelContracts(Pan!ActsOfSource("prefeitura")), Pan!EveryYear, Pan!EveryOrgan),
                      Pan!EveryYear)
  BY Zenon DEF R, W, K, PanelOf
<1> QED
  BY <1>6, <1>7, <1>8, <1>15, <1>16, Zenon DEF Pan!PanelAddsUp, AddedUp, Built

-----------------------------------------------------------------------------
(***************************************************************************)
(* What is announced for a supplier: its contracts are those of the panel, *)
(* one of them is listed first, and the panel totals them.                 *)
(***************************************************************************)
\* What is announced for a supplier are contracts of the panel, different ones.
LEMMA SupplierActsRead ==
  ASSUME given \subseteq SupplierActs, IsFiniteSet(given)
  PROVE  /\ Identified(given)
         /\ Sup!ActsOfSource("prefeitura") \in SUBSET given /\ ActsRead(Sup!ActsOfSource("prefeitura"))
<1>1. Sup!ActsOfSource("prefeitura") \in SUBSET given
  BY DEF Sup!ActsOfSource
<1>2. ActsRead(given)
  BY SuppliersAssumption DEF ActsRead, Identified
<1> QED
  BY <1>1, <1>2, PartsAreRead DEF ActsRead

LEMMA AnnouncedAre ==
  ASSUME given \subseteq SupplierActs, IsFiniteSet(given), NEW c \in Sup!Announced
  PROVE  /\ c \in Pan!PanelContracts(Sup!ActsOfSource("prefeitura"))
         /\ c.acts \in SUBSET given /\ c.acts # {} /\ First(c.acts) \in c.acts
         /\ c.day = First(c.acts).day /\ c.contracted \in Nat
         /\ \E a \in c.acts : c.largest = a.id
<1> DEFINE S == Sup!ActsOfSource("prefeitura")
<1>1. c \in Pan!PanelContracts(S) /\ Pan!HasContractValue(c)
  BY SameContracts DEF Sup!Announced, Sup!SupplierContracts, Sup!HasContractValue, Pan!HasContractValue
<1>2. S \in SUBSET given /\ ActsRead(S)
  BY SupplierActsRead
<1> HIDE DEF S
<1>3. /\ c.acts \in SUBSET S /\ c.acts # {} /\ First(c.acts) \in c.acts
      /\ c.day = First(c.acts).day /\ c.contracted \in Nat
      /\ \E a \in c.acts : c.largest = a.id
  BY <1>1, <1>2, ContractsAre
<1> QED
  BY <1>1, <1>2, <1>3 DEF S

LEMMA CompanyContractsAre ==
  ASSUME given \subseteq SupplierActs, IsFiniteSet(given), NEW cnpj
  PROVE  /\ IsFiniteSet(Sup!ContractsOf(cnpj))
         /\ \A c \in Sup!ContractsOf(cnpj) : c \in Sup!Announced /\ c.cnpj = cnpj
         /\ \A c, d \in Sup!ContractsOf(cnpj) : c # d => c.acts \cap d.acts = {}
<1> DEFINE panel == Pan!PanelContracts(Sup!ActsOfSource("prefeitura"))
<1>1. \A c \in Sup!ContractsOf(cnpj) : c \in Sup!Announced /\ c.cnpj = cnpj
  BY DEF Sup!ContractsOf
<1>2. Sup!ContractsOf(cnpj) \subseteq panel
  BY <1>1, AnnouncedAre
<1>3. IsFiniteSet(panel) /\ \A c, d \in panel : c.cnpj = d.cnpj /\ c # d => c.acts \cap d.acts = {}
  BY SupplierActsRead, ContractsAreFinite
<1> HIDE DEF panel
<1> QED
  BY <1>1, <1>2, <1>3, FS_Subset

\* Of some contracts of a company, one is listed first, whose day is the first.
LEMMA FirstListedIs ==
  ASSUME given \subseteq SupplierActs, IsFiniteSet(given), NEW cnpj,
         NEW S \in SUBSET Sup!ContractsOf(cnpj), S # {}
  PROVE  Sup!FirstListed(S) \in S /\ \A c \in S : Sup!FirstListed(S).day <= c.day
<1> DEFINE R == {p \in S \X S : Sup!ListedBefore(p[1], p[2])}
<1>1. IsFiniteSet(S)
  BY CompanyContractsAre, FS_Subset
<1>2. ASSUME NEW c \in S
      PROVE  c.day \in Nat /\ \E a \in given : a \in c.acts /\ c.largest = a.id /\ a.id \in Nat
  <2>1. c \in Sup!Announced
    BY CompanyContractsAre
  <2>2. c.acts \in SUBSET given /\ First(c.acts) \in c.acts /\ c.day = First(c.acts).day
    BY <2>1, AnnouncedAre
  <2>3. PICK a \in c.acts : c.largest = a.id
    BY <2>1, AnnouncedAre
  <2> QED
    BY <2>2, <2>3, SuppliersAssumption DEF Identified
<1>3. ASSUME NEW c \in S, NEW d \in S, c # d
      PROVE  c.largest # d.largest
  <2>1. c.acts \cap d.acts = {}
    BY <1>3, CompanyContractsAre
  <2>2. PICK a \in given : a \in c.acts /\ c.largest = a.id
    BY <1>2
  <2>3. PICK b \in given : b \in d.acts /\ d.largest = b.id
    BY <1>2
  <2> QED
    BY <2>1, <2>2, <2>3, SuppliersAssumption DEF Identified
<1>4. ASSUME NEW c \in S, NEW d \in S
      PROVE  /\ <<c, d>> \in R <=> c.day < d.day \/ (c.day = d.day /\ c.largest < d.largest)
             /\ c.day \in Nat /\ c.largest \in Nat /\ d.day \in Nat /\ d.largest \in Nat
  BY <1>2 DEF Sup!ListedBefore
<1> HIDE DEF R
<1>5. /\ \A c \in S : <<c, c>> \notin R
      /\ \A c, d, e \in S : <<c, d>> \in R /\ <<d, e>> \in R => <<c, e>> \in R
  <2>1. ASSUME NEW c \in S PROVE <<c, c>> \notin R
    BY <1>4
  <2>2. ASSUME NEW c \in S, NEW d \in S, NEW e \in S, <<c, d>> \in R, <<d, e>> \in R PROVE <<c, e>> \in R
    <3>1. /\ c.day < d.day \/ (c.day = d.day /\ c.largest < d.largest)
          /\ d.day < e.day \/ (d.day = e.day /\ d.largest < e.largest)
          /\ c.day \in Nat /\ c.largest \in Nat /\ d.day \in Nat /\ d.largest \in Nat
          /\ e.day \in Nat /\ e.largest \in Nat
      BY <1>4, <2>2
    <3>2. c.day < e.day \/ (c.day = e.day /\ c.largest < e.largest)
      BY <3>1
    <3> QED
      BY <1>4, <3>2
  <2> QED
    BY <2>1, <2>2
<1>6. PICK m \in S : \A c \in S : <<c, m>> \notin R
  BY <1>1, <1>5, MinimalExists
<1>7. ASSUME NEW c \in S, c # m PROVE Sup!ListedBefore(m, c) /\ m.day <= c.day
  <2>1. m.largest # c.largest /\ <<c, m>> \notin R
    BY <1>3, <1>6, <1>7
  <2>2. m.day < c.day \/ (m.day = c.day /\ m.largest < c.largest)
    BY <1>4, <2>1
  <2>3. m.day \in Nat /\ c.day \in Nat
    BY <1>2
  <2>4. m.day <= c.day
    BY <2>2, <2>3
  <2> QED
    BY <2>2, <2>4 DEF Sup!ListedBefore
<1>8. /\ Sup!FirstListed(S) \in S
      /\ \A c \in S \ {Sup!FirstListed(S)} : Sup!ListedBefore(Sup!FirstListed(S), c)
  BY <1>7, Zenon DEF Sup!FirstListed
<1>9. ASSUME NEW c \in S, NEW d \in S, Sup!ListedBefore(c, d) PROVE c.day <= d.day
  <2>1. c.day \in Nat /\ d.day \in Nat
    BY <1>2
  <2> QED
    BY <1>9, <2>1 DEF Sup!ListedBefore
<1>10. \A c \in S : Sup!FirstListed(S).day <= c.day
  <2>1. \A c \in S : c.day <= c.day
    <3>1. \A c \in S : c.day \in Nat
      BY <1>2
    <3> QED
      BY <3>1
  <2> QED
    BY <1>8, <1>9, <2>1
<1> QED
  BY <1>8, <1>10

LEMMA FirstHold ==
  ASSUME given \subseteq SupplierActs, IsFiniteSet(given)
  PROVE  Sup!FirstIsTheFirst
<1>1. ASSUME NEW c \in Sup!FindNewCompanyContracts, NEW d \in Sup!Announced, d.cnpj = c.cnpj PROVE c.day <= d.day
  <2>1. PICK cnpj \in Sup!SuppliersAnnounced : c = Sup!FirstListed(Sup!ContractsOf(cnpj))
    BY DEF Sup!FindNewCompanyContracts
  <2>2. Sup!ContractsOf(cnpj) # {}
    BY DEF Sup!SuppliersAnnounced, Sup!ContractsOf
  <2>3. c \in Sup!ContractsOf(cnpj) /\ \A e \in Sup!ContractsOf(cnpj) : c.day <= e.day
    BY <2>1, <2>2, FirstListedIs
  <2>4. d \in Sup!ContractsOf(cnpj)
    BY <1>1, <2>3 DEF Sup!ContractsOf
  <2> QED
    BY <2>3, <2>4
<1>2. ASSUME NEW l \in Sup!FindNewCompanyLicenses, NEW k \in l.acts PROVE l.first.day <= k.day
  <2>1. PICK m \in Licenses : l = [cnpj |-> m.cnpj, first |-> Sup!Earliest(Sup!Granted(m.cnpj)), acts |-> Sup!Granted(m.cnpj)]
    BY DEF Sup!FindNewCompanyLicenses
  <2>2. l.acts \in SUBSET Licenses /\ l.first = First(l.acts)
    BY <2>1, PanLatest, SameOrder DEF Sup!Granted
  <2> QED
    BY <2>2, LastIsLatest, SuppliersAssumption
<1>3. ASSUME NEW f \in Sup!FindSanctionedContracts, NEW s \in f.sanctions
      PROVE  \E a \in f.contract.acts : Sup!CoversDay(s, a.day) /\ \A b \in f.contract.acts : a.day <= b.day
  <2>1. PICK c \in Sup!Announced : f.contract = c /\ \A t \in f.sanctions : Sup!CoversDay(t, c.day)
    BY DEF Sup!FindSanctionedContracts
  <2>2. c.acts \in SUBSET given /\ c.acts # {} /\ c.day = First(c.acts).day
    BY AnnouncedAre
  <2>3. Identified(given)
    BY SuppliersAssumption DEF Identified
  <2>4. First(c.acts) \in c.acts /\ \A b \in c.acts : First(c.acts).day <= b.day
    BY <2>2, <2>3, LastIs, LastIsLatest
  <2> QED
    BY <2>1, <2>2, <2>4
<1> QED
  BY <1>1, <1>2, <1>3 DEF Sup!FirstIsTheFirst

\* How many acts name the partners of a company.
LEMMA AppointmentsAre ==
  ASSUME NEW cnpj \in DOMAIN Profiles
  PROVE  Sup!PartnerAgentOf(cnpj).appointments \in Int
<1> DEFINE S == Sup!Persons(cnpj)
           naming == [k \in S |-> Sup!Cardinality(Sup!ActsNaming(k.name))]
<1>1. IsFiniteSet(S)
  BY SuppliersAssumption, FS_Subset DEF Sup!Persons
<1>2. ASSUME NEW k \in S PROVE naming[k] \in Int
  <2>1. IsFiniteSet(Sup!ActsNaming(k.name))
    BY SuppliersAssumption, FS_Subset DEF Sup!ActsNaming
  <2> QED
    BY <2>1, FS_CardinalityType, SupCardinality
<1>3. Sup!PartnerAgentOf(cnpj).appointments = Total(naming, S)
  BY SumsAre DEF Sup!PartnerAgentOf, Sup!SumOf
<1> HIDE DEF S, naming
<1> QED
  BY <1>1, <1>2, <1>3, TotalIs

LEMMA OneFindingHold ==
  ASSUME given \subseteq SupplierActs, IsFiniteSet(given)
  PROVE  Sup!OneFindingPerCNPJ
<1> DEFINE most(cnpj) == {d \in Sup!ContractsOf(cnpj) : \A e \in Sup!ContractsOf(cnpj) : e.contracted <= d.contracted}
<1>1. ASSUME NEW c \in Sup!FindUndercapitalizedContracts
      PROVE  /\ c = Sup!FirstListed(most(c.cnpj))
             /\ \A d \in Sup!ContractsOf(c.cnpj) : d.contracted <= c.contracted
  <2>1. PICK cnpj \in Sup!SuppliersAnnounced : c = Sup!FirstListed(most(cnpj))
    BY DEF Sup!FindUndercapitalizedContracts
  <2> DEFINE S == Sup!ContractsOf(cnpj)
             amount == [d \in S |-> d.contracted]
  <2>2. S # {} /\ IsFiniteSet(S)
    BY CompanyContractsAre DEF Sup!SuppliersAnnounced, Sup!ContractsOf
  <2>3. \A d \in S : amount[d] \in Nat /\ d.cnpj = cnpj
    BY CompanyContractsAre, AnnouncedAre
  <2>4. \E n \in {amount[d] : d \in S} : \A k \in {amount[d] : d \in S} : k <= n
    <3>1. {amount[d] : d \in S} \subseteq Nat /\ {amount[d] : d \in S} # {}
      BY <2>2, <2>3
    <3> HIDE DEF amount, S
    <3>2. IsFiniteSet({amount[d] : d \in S})
      BY <2>2, ImagesAreFinite
    <3> QED
      BY <3>1, <3>2, GreatestExists
  <2>5. \E d \in S : \A e \in S : amount[e] <= amount[d]
    BY <2>4
  <2>6. most(cnpj) # {} /\ most(cnpj) \in SUBSET Sup!ContractsOf(cnpj)
    BY <2>5
  <2>7. c \in most(cnpj)
    <3> HIDE DEF most
    <3> QED
      BY <2>1, <2>6, FirstListedIs
  <2>8. c.cnpj = cnpj
    BY <2>3, <2>7
  <2> QED
    BY <2>1, <2>7, <2>8
<1>2. ASSUME NEW l \in Sup!FindNewCompanyLicenses
      PROVE  l = [cnpj |-> l.cnpj, first |-> Sup!Earliest(Sup!Granted(l.cnpj)), acts |-> Sup!Granted(l.cnpj)]
  BY DEF Sup!FindNewCompanyLicenses
<1>3. ASSUME NEW f \in Sup!FindPartnerPublicAgents
      PROVE  /\ f = Sup!PartnerAgentOf(f.cnpj)
             /\ f.cnpj \in Sup!OneOfEachBase({d \in Sup!ContractingCNPJs : Sup!Known(d)})
  <2>1. PICK c \in Sup!OneOfEachBase({d \in Sup!ContractingCNPJs : Sup!Known(d)}) : f = Sup!PartnerAgentOf(c)
    BY DEF Sup!FindPartnerPublicAgents
  <2>2. f.cnpj = c
    BY <2>1 DEF Sup!PartnerAgentOf
  <2> QED
    BY <2>1, <2>2
<1>4. /\ Sup!OneOfEachBase({d \in Sup!ContractingCNPJs : Sup!Known(d)}) \subseteq DOMAIN Profiles
      /\ \A c, d \in Sup!OneOfEachBase({d \in Sup!ContractingCNPJs : Sup!Known(d)}) : c # d => Sup!Base(c) # Sup!Base(d)
  <2>1. {d \in Sup!ContractingCNPJs : Sup!Known(d)} \subseteq DOMAIN Profiles
    BY DEF Sup!Known
  <2> QED
    BY <2>1, OneOfEachBaseIs, SuppliersAssumption
<1>5. ASSUME NEW f \in Sup!FindPartnerPublicAgents
      PROVE  f.shown <= Sup!MaxAppointmentActs /\ f.shown <= f.appointments
  <2>1. f.appointments \in Int
    BY <1>3, <1>4, AppointmentsAre
  <2>2. f.shown = Sup!Least({Sup!MaxAppointmentActs, f.appointments})
    <3>1. \A cnpj : Sup!PartnerAgentOf(cnpj).shown = Sup!Least({Sup!MaxAppointmentActs, Sup!PartnerAgentOf(cnpj).appointments})
      BY Zenon DEF Sup!PartnerAgentOf
    <3>2. f = Sup!PartnerAgentOf(f.cnpj)
      BY <1>3
    <3> QED
      BY <3>1, <3>2
  <2>3. \E n \in {5, f.appointments} : \A k \in {5, f.appointments} : n <= k
    BY <2>1
  <2> QED
    BY <2>2, <2>3 DEF Sup!Least, Sup!MaxAppointmentActs
<1> QED
  BY <1>1, <1>2, <1>3, <1>4, <1>5 DEF Sup!OneFindingPerCNPJ

\* The creditors of a name of one company are of that company.
LEMMA NamesOfOne ==
  ASSUME beside \subseteq SupplierPayments, IsFiniteSet(beside), NEW name, Sup!NamesOneCompany(name),
         NEW c \in Sup!CreditorsNamed(name), NEW d \in Sup!CreditorsNamed(name)
  PROVE  Sup!Base(c) = Sup!Base(d)
<1> DEFINE base == [p \in beside |-> Sup!Base(p.cnpj)]
           bases == {Sup!Base(e) : e \in Sup!CreditorsNamed(name)}
<1>1. Cardinality(bases) = 1
  BY SupCardinality, Zenon DEF Sup!NamesOneCompany
<1>2. IsFiniteSet({base[p] : p \in beside})
  <2> HIDE DEF base
  <2> QED
    BY ImagesAreFinite
<1>3. bases \subseteq {base[p] : p \in beside}
  <2> SUFFICES ASSUME NEW e \in Sup!CreditorsNamed(name) PROVE Sup!Base(e) \in {base[p] : p \in beside}
    OBVIOUS
  <2>1. PICK p \in beside : p.cnpj = e
    BY DEF Sup!CreditorsNamed, Sup!PaidCreditors
  <2> QED
    BY <2>1
<1>4. IsFiniteSet(bases)
  BY <1>2, <1>3, FS_Subset
<1>5. Sup!Base(c) \in bases /\ Sup!Base(d) \in bases
  OBVIOUS
<1> HIDE DEF bases
<1>6. PICK b : bases = {b}
  BY <1>1, <1>4, FS_Singleton
<1> QED
  BY <1>5, <1>6

\* An act found by its name is one without a company, of the creditor of that name.
LEMMA AttributedIs ==
  ASSUME given \subseteq SupplierActs, NEW f \in Sup!Attributions, NEW a \in Sup!AttributeByName(f)
  PROVE  /\ a.name \in DOMAIN f /\ a.cnpjs = {f[a.name]} /\ Sup!NamesOneCompany(a.name)
         /\ f[a.name] \in Sup!CreditorsNamed(a.name)
<1>1. PICK b \in Sup!UnnamedActs("prefeitura") : b.name \in DOMAIN f /\ a = [b EXCEPT !.cnpjs = {f[b.name]}]
  BY DEF Sup!AttributeByName
<1>2. b \in Announcements
  BY SuppliersAssumption DEF Sup!UnnamedActs, Sup!ActsOfSource
<1>3. a.name = b.name /\ a.cnpjs = {f[b.name]}
  BY <1>1, <1>2 DEF Announcements
<1>4. ASSUME NEW n \in DOMAIN f PROVE Sup!NamesOneCompany(n) /\ f[n] \in Sup!CreditorsNamed(n)
  BY DEF Sup!Attributions
<1> QED
  BY <1>1, <1>3, <1>4

\* The contracts of a company to which no act was attributed are those of the acts
\* that name it.
LEMMA OwnContracts ==
  ASSUME NEW S, ActsRead(S), NEW R, NEW cnpj, ActsFor(S \cup R, cnpj) = ActsFor(S, cnpj)
  PROVE  \A c : c \in Pan!PanelContracts(S \cup R) /\ c.cnpj = cnpj <=> c \in Pan!PanelContracts(S) /\ c.cnpj = cnpj
<1> DEFINE names(T) == UNION {Pan!PrivateCNPJs(a.cnpjs) : a \in {b \in T : b.value > 0 \/ b.increase > 0}}
           G == Pan!JoinPanelActs(ActsFor(S, cnpj))
<1>1. ASSUME NEW T, ActsFor(T, cnpj) = ActsFor(S, cnpj), NEW c
      PROVE  c \in Pan!PanelContracts(T) /\ c.cnpj = cnpj <=>
               /\ cnpj \in names(T) /\ \E g \in G : c = Pan!PanelContractOf(cnpj, g)
               /\ Pan!HasContractValue(c) \/ c.amendments # {}
  <2>1. \A n, g : Pan!PanelContractOf(n, g).cnpj = n
    BY DEF Pan!PanelContractOf
  <2> HIDE DEF names
  <2> QED
    BY <1>1, <2>1, SameContracts DEF IsContractOf, names
<1>2. (\E g \in G : TRUE) => cnpj \in names(S)
  <2> SUFFICES ASSUME NEW g \in G PROVE cnpj \in names(S)
    OBVIOUS
  <2>1. PICK a : a \in ActsFor(S, cnpj)
    BY CompanyGroups DEF Partition
  <2> QED
    BY <2>1 DEF ActsFor
<1>3. cnpj \in names(S) => cnpj \in names(S \cup R)
  OBVIOUS
<1> HIDE DEF names, G
<1> QED
  BY <1>1, <1>2, <1>3

\* What is announced for a company is what the panel totals for it.
LEMMA AnnouncedIsTotal ==
  ASSUME NEW K, ContractsRead(K)
  PROVE  LET row == Sup!TotalOf(K, Sup!EveryYear)
         IN  Sup!SumOf(LAMBDA c : c.contracted + c.registered + Sup!AmendedIn(c, Sup!EveryYear), K)
               = row.contracted + row.registered + row.amended
<1> DEFINE y == Sup!EveryYear
           all == [c \in K |-> c.contracted + c.registered + Sup!AmendedIn(c, y)]
           signed == [c \in K |-> c.contracted + c.registered]
<1>1. Sup!SumOf(LAMBDA c : c.contracted + c.registered + Sup!AmendedIn(c, Sup!EveryYear), K) = Total(all, K)
  BY SumsAre DEF Sup!SumOf
<1>2. Sup!TotalOf(K, y) = [contracts |-> Total(Counting(K, y), K), contracted |-> Total(Contracting(K, y), K),
                           registered |-> Total(Registering(K, y), K), amended |-> Total(Amending(K, y), K)]
  <2>1. K \in SUBSET K
    OBVIOUS
  <2> HIDE DEF y
  <2> QED
    BY <2>1, TotalOfIs
<1>3. ASSUME NEW c \in K
      PROVE  /\ Contracting(K, y)[c] \in Int /\ Registering(K, y)[c] \in Int /\ Amending(K, y)[c] \in Int
             /\ signed[c] \in Int /\ signed[c] = Contracting(K, y)[c] + Registering(K, y)[c]
             /\ all[c] = signed[c] + Amending(K, y)[c]
  <2>1. c.contracted \in Nat /\ c.registered \in Nat
    BY DEF ContractsRead
  <2>2. Pan!Counted(c, y) \/ (c.contracted = 0 /\ c.registered = 0)
    BY <2>1 DEF Pan!Counted, Pan!MatchesYear, Pan!HasContractValue, Pan!EveryYear, Sup!EveryYear
  <2>3. Sup!AmendedIn(c, y) = Pan!AmendedIn(c, y) /\ Pan!AmendedIn(c, y) \in Nat
    BY AmendedIs
  <2> HIDE DEF y
  <2>4. /\ Contracting(K, y)[c] = c.contracted /\ Registering(K, y)[c] = c.registered
        /\ Amending(K, y)[c] = Pan!AmendedIn(c, y)
    BY <2>2 DEF Contracting, Registering, Amending
  <2>5. signed[c] = c.contracted + c.registered /\ all[c] = c.contracted + c.registered + Sup!AmendedIn(c, y)
    OBVIOUS
  <2> HIDE DEF signed, all
  <2> QED
    BY <2>1, <2>3, <2>4, <2>5
<1>4. IsFiniteSet(K)
  BY DEF ContractsRead
<1> HIDE DEF y, all, signed
<1>5. Total(signed, K) = Total(Contracting(K, y), K) + Total(Registering(K, y), K)
  BY <1>3, <1>4, TotalAdds
<1>6. Total(all, K) = Total(signed, K) + Total(Amending(K, y), K)
  BY <1>3, <1>4, TotalAdds
<1>7. Total(all, K) = Sup!TotalOf(K, y).contracted + Sup!TotalOf(K, y).registered + Sup!TotalOf(K, y).amended
  BY <1>2, <1>5, <1>6
<1> QED
  BY <1>1, <1>7, Zenon DEF y

LEMMA AnnouncedHold ==
  ASSUME given \subseteq SupplierActs, IsFiniteSet(given), beside \subseteq SupplierPayments, IsFiniteSet(beside)
  PROVE  Sup!AnnouncedIsThePanels
<1> SUFFICES ASSUME NEW f \in Sup!Attributions
             PROVE  /\ \A a \in Sup!AttributeByName(f) : \A c \in Sup!PaidCreditors :
                         Sup!NameOf(c) = a.name => \A d \in a.cnpjs : Sup!Base(c) = Sup!Base(d)
                    /\ \A cnpj \in Sup!PaidCreditors : (\A n \in DOMAIN f : f[n] # cnpj) =>
                         LET row == Sup!TotalOf({c \in Sup!PanelContracts(Sup!ActsOfSource("prefeitura")) : c.cnpj = cnpj},
                                                Sup!EveryYear)
                         IN  Sup!AnnouncedTo(cnpj, Sup!ActsOfSource("prefeitura") \cup Sup!AttributeByName(f))
                               = row.contracted + row.registered + row.amended
  BY DEF Sup!AnnouncedIsThePanels
<1>1. ASSUME NEW a \in Sup!AttributeByName(f), NEW c \in Sup!PaidCreditors, Sup!NameOf(c) = a.name, NEW d \in a.cnpjs
      PROVE  Sup!Base(c) = Sup!Base(d)
  <2>1. Sup!NamesOneCompany(a.name) /\ d \in Sup!CreditorsNamed(a.name)
    BY AttributedIs
  <2>2. c \in Sup!CreditorsNamed(a.name)
    BY <1>1 DEF Sup!CreditorsNamed
  <2> QED
    BY <2>1, <2>2, NamesOfOne
<1>2. ASSUME NEW cnpj, \A n \in DOMAIN f : f[n] # cnpj
      PROVE  LET row == Sup!TotalOf({c \in Sup!PanelContracts(Sup!ActsOfSource("prefeitura")) : c.cnpj = cnpj},
                                    Sup!EveryYear)
             IN  Sup!AnnouncedTo(cnpj, Sup!ActsOfSource("prefeitura") \cup Sup!AttributeByName(f))
                   = row.contracted + row.registered + row.amended
  <2> DEFINE S == Sup!ActsOfSource("prefeitura")
             R == Sup!AttributeByName(f)
             K == {c \in Pan!PanelContracts(S) : c.cnpj = cnpj}
  <2>1. ActsRead(S)
    BY SupplierActsRead
  <2>2. \A a \in R : Pan!PrivateCNPJs(a.cnpjs) # {cnpj}
    BY <1>2, AttributedIs DEF Pan!PrivateCNPJs
  <2>3. ActsFor(S \cup R, cnpj) = ActsFor(S, cnpj)
    BY <2>2 DEF ActsFor
  <2> HIDE DEF S, R
  <2>4. {c \in Pan!PanelContracts(S \cup R) : c.cnpj = cnpj} = K
    <3>1. \A c : c \in Pan!PanelContracts(S \cup R) /\ c.cnpj = cnpj <=> c \in Pan!PanelContracts(S) /\ c.cnpj = cnpj
      BY <2>1, <2>3, OwnContracts
    <3> QED
      BY <3>1
  <2>5. Sup!AnnouncedTo(cnpj, S \cup R)
          = Sup!SumOf(LAMBDA c : c.contracted + c.registered + Sup!AmendedIn(c, Sup!EveryYear), K)
    BY <2>4, SameContracts, Zenon DEF Sup!AnnouncedTo
  <2>6. ContractsRead(K)
    BY <2>1, ContractsAreRead
  <2>7. {c \in Sup!PanelContracts(S) : c.cnpj = cnpj} = K
    BY SameContracts
  <2> HIDE DEF K
  <2> QED
    BY <2>5, <2>6, <2>7, AnnouncedIsTotal, Zenon DEF S, R
<1> QED
  BY <1>1, <1>2

\* What the patterns of suppliers accuse is true of the acts and payments read, and what
\* they compare is what the panel announces for the supplier.
THEOREM AccusationsAreTrue == DomainSpec => []SuppliersSafe
<1>1. SuppliersTopic => SuppliersSafe
  BY GroupsHold, UnpaidHold, UncitedHold, FirstHold, OneFindingHold, AnnouncedHold
     DEF SuppliersTopic, SuppliersSafe
<1> QED
  BY <1>1, SuppliersHold, PTL

-----------------------------------------------------------------------------
(***************************************************************************)
(* The addenda: each counts once, and the total is that of those counted.  *)
(***************************************************************************)

LEMMA ExcLatest == \A T : Exc!Latest(T) = Last(T)
  BY DEF Exc!Latest, Exc!Before, Last, Precedes

\* What an addendum is counted from, and how one that is read counts.
CountBase == [total |-> 0, acts |-> {}, ordinals |-> {}, increases |-> {}, unnumbered |-> {}]
CountRead(h, T) ==
  CHOOSE v \in {Exc!CountAddendum(q, b) : q \in {h[T \ {Exc!Latest(T)}]}, b \in {Exc!Latest(T)}} : TRUE
CountFold(h, S) == h = [T \in SUBSET S |-> IF T = {} THEN CountBase ELSE CountRead(h, T)]

LEMMA CountReadIs == \A h, T : CountRead(h, T) = Exc!CountAddendum(h[T \ {Last(T)}], Last(T))
<1> SUFFICES ASSUME NEW h, NEW T PROVE CountRead(h, T) = Exc!CountAddendum(h[T \ {Last(T)}], Last(T))
  OBVIOUS
<1>1. {Exc!CountAddendum(q, b) : q \in {h[T \ {Exc!Latest(T)}]}, b \in {Exc!Latest(T)}}
        = {Exc!CountAddendum(h[T \ {Last(T)}], Last(T))}
  BY ExcLatest
<1> QED
  BY <1>1 DEF CountRead

LEMMA CountFolds ==
  ASSUME NEW S
  PROVE  Exc!ReadInOrder(Exc!CountAddendum, CountBase, S) = (CHOOSE h : CountFold(h, S))[S]
  BY DEF Exc!ReadInOrder, Exc!MapThenFoldSet, CountFold, CountRead

\* A sum of increases is the total of them.
LEMMA IncreaseIsTotal ==
  ASSUME NEW S, IsFiniteSet(S), NEW f, \A a \in S : f[a] = a.increase /\ f[a] \in Int
  PROVE  Exc!IncreaseOf(S) = Total(f, S)
<1> DEFINE g == [a \in S |-> a.increase]
<1>1. Exc!IncreaseOf(S) = Total(g, S)
  BY SumsAre DEF Exc!IncreaseOf, Exc!SumOf
<1>2. \A a \in S : f[a] \in Int /\ f[a] = g[a]
  OBVIOUS
<1> QED
  BY <1>1, <1>2, TotalsAgree

\* What a count keeps to while the addenda of a contract are read: its sum is of
\* the addenda it counted, which are different addenda.
Increases(S) == [a \in S |-> a.increase]
Counts(e, T, S) ==
  /\ e.acts \subseteq T
  /\ e.total = Total(Increases(S), e.acts)
  /\ e.ordinals = {a.ordinal : a \in e.acts} \ {0}
  /\ e.increases = {a.increase : a \in e.acts}
  /\ e.unnumbered = {a.increase : a \in {b \in e.acts : b.ordinal = 0}}
  /\ \A a, b \in e.acts : a # b =>
       /\ a.ordinal # b.ordinal \/ a.ordinal = 0
       /\ a.increase # b.increase \/ (a.ordinal > 0 /\ b.ordinal > 0)

Numbered(S) == \A a \in S : a.ordinal \in Nat /\ a.increase \in Nat

\* One more addendum counts, or leaves the count as it was.
LEMMA CountStep ==
  ASSUME NEW S, IsFiniteSet(S), Numbered(S), NEW T \in SUBSET S, NEW a \in S, a \notin T,
         NEW e, Counts(e, T, S)
  PROVE  Counts(Exc!CountAddendum(e, a), T \cup {a}, S)
<1> DEFINE counted == [total |-> e.total + a.increase,
                       acts |-> e.acts \cup {a},
                       ordinals |-> e.ordinals \cup ({a.ordinal} \ {0}),
                       increases |-> e.increases \cup {a.increase},
                       unnumbered |-> IF a.ordinal = 0 THEN e.unnumbered \cup {a.increase} ELSE e.unnumbered]
           told == IF a.ordinal > 0 THEN a.ordinal \in e.ordinals \/ a.increase \in e.unnumbered
                   ELSE a.increase \in e.increases
<1>0. Exc!CountAddendum(e, a) = IF told THEN e ELSE counted
  BY DEF Exc!CountAddendum
<1>1. CASE told
  BY <1>0, <1>1 DEF Counts
<1>2. CASE ~told
  <2>0. /\ a.ordinal \in Nat /\ a.increase \in Nat
        /\ \A b \in e.acts : b \in S /\ b # a /\ b.ordinal \in Nat /\ b.increase \in Nat
    BY DEF Counts, Numbered
  <2>1. counted.acts \subseteq T \cup {a}
    BY DEF Counts
  <2>2. counted.total = Total(Increases(S), counted.acts)
    <3>1. e.acts \cup {a} \in SUBSET S
      BY <2>0
    <3>2. IsFiniteSet(e.acts \cup {a}) /\ \A b \in e.acts \cup {a} : Increases(S)[b] = b.increase /\ Increases(S)[b] \in Int
      BY <2>0, <3>1, FS_Subset DEF Increases
    <3>3. IsFiniteSet(e.acts)
      BY <3>2, FS_Subset
    <3>4. (e.acts \cup {a}) \ {a} = e.acts
      BY <2>0
    <3>5. Total(Increases(S), e.acts \cup {a}) = a.increase + Total(Increases(S), e.acts)
      BY <3>2, <3>4, TotalIs
    <3>6. Total(Increases(S), e.acts) \in Int
      BY <3>2, <3>3, TotalIs
    <3> QED
      BY <2>0, <3>5, <3>6 DEF Counts
  <2>3. counted.ordinals = {b.ordinal : b \in counted.acts} \ {0}
    BY DEF Counts
  <2>4. counted.increases = {b.increase : b \in counted.acts}
    BY DEF Counts
  <2>5. counted.unnumbered = {b.increase : b \in {c \in counted.acts : c.ordinal = 0}}
    BY DEF Counts
  <2>6. ASSUME NEW b \in e.acts
        PROVE  /\ a.ordinal # b.ordinal \/ (a.ordinal = 0 /\ b.ordinal = 0)
               /\ a.increase # b.increase \/ (a.ordinal > 0 /\ b.ordinal > 0)
    <3>1. CASE a.ordinal > 0
      <4>1. a.ordinal \notin e.ordinals /\ a.increase \notin e.unnumbered
        BY <1>2, <3>1
      <4>2. b.ordinal # a.ordinal
        BY <2>0, <3>1, <4>1 DEF Counts
      <4>3. b.ordinal = 0 => b.increase # a.increase
        BY <4>1 DEF Counts
      <4> QED
        BY <2>0, <3>1, <4>2, <4>3
    <3>2. CASE ~(a.ordinal > 0)
      <4>1. a.increase \notin e.increases
        BY <1>2, <3>2
      <4>2. b.increase # a.increase
        BY <4>1 DEF Counts
      <4>3. a.ordinal = 0
        BY <2>0, <3>2
      <4> QED
        BY <4>2, <4>3
    <3> QED
      BY <3>1, <3>2
  <2>7. ASSUME NEW b \in counted.acts, NEW c \in counted.acts, b # c
        PROVE  /\ b.ordinal # c.ordinal \/ b.ordinal = 0
               /\ b.increase # c.increase \/ (b.ordinal > 0 /\ c.ordinal > 0)
    BY <2>0, <2>6, <2>7 DEF Counts
  <2> HIDE DEF counted
  <2>8. Counts(counted, T \cup {a}, S)
    BY <2>1, <2>2, <2>3, <2>4, <2>5, <2>7 DEF Counts
  <2> QED
    BY <1>0, <1>2, <2>8
<1> QED
  BY <1>1, <1>2

LEMMA CountFoldIs ==
  ASSUME NEW S, IsFiniteSet(S), Identified(S), Numbered(S)
  PROVE  CountFold(CHOOSE h : CountFold(h, S), S)
<1> DEFINE V == [total : Int, acts : SUBSET S, ordinals : SUBSET Nat, increases : SUBSET Nat, unnumbered : SUBSET Nat]
           rule == [p \in V \X S |-> Exc!CountAddendum(p[1], p[2])]
<1>1. CountBase \in V
  BY DEF CountBase
<1>2. ASSUME NEW e \in V, NEW a \in S PROVE Exc!CountAddendum(e, a) \in V
  <2>1. a.ordinal \in Nat /\ a.increase \in Nat
    BY DEF Numbered
  <2>2. e.total + a.increase \in Int
    BY <2>1
  <2>3. [total |-> e.total + a.increase,
         acts |-> e.acts \cup {a},
         ordinals |-> e.ordinals \cup ({a.ordinal} \ {0}),
         increases |-> e.increases \cup {a.increase},
         unnumbered |-> IF a.ordinal = 0 THEN e.unnumbered \cup {a.increase} ELSE e.unnumbered] \in V
    BY <2>1, <2>2
  <2> HIDE DEF V
  <2> QED
    BY <2>3 DEF Exc!CountAddendum
<1> HIDE DEF V
<1>3. rule \in [V \X S -> V]
  BY <1>2
<1>4. PICK h \in [SUBSET S -> V] : OrderedReads(h, S, CountBase, rule)
  <2> HIDE DEF rule
  <2> QED
    BY <1>1, <1>3, OrderedReadingExists
<1>5. ASSUME NEW T \in SUBSET S, T # {}
      PROVE  rule[<<h[T \ {Last(T)}], Last(T)>>] = CountRead(h, T)
  <2>1. Last(T) \in S /\ h[T \ {Last(T)}] \in V
    BY <1>5, LastIs
  <2> QED
    BY <2>1, CountReadIs
<1> HIDE DEF rule
<1>6. CountFold(h, S)
  BY <1>4, <1>5 DEF CountFold, OrderedReads
<1> QED
  BY <1>6

LEMMA CountsAll ==
  ASSUME NEW S, IsFiniteSet(S), Identified(S), Numbered(S)
  PROVE  Counts(Exc!ReadInOrder(Exc!CountAddendum, CountBase, S), S, S)
<1> DEFINE h == CHOOSE k : CountFold(k, S)
           good == {T \in SUBSET S : Counts(h[T], T, S)}
<1>1. CountFold(h, S)
  BY CountFoldIs
<1>2. Exc!ReadInOrder(Exc!CountAddendum, CountBase, S) = h[S]
  BY CountFolds
<1> HIDE DEF h
<1>3. ASSUME NEW T \in SUBSET S, \A x \in T : T \ {x} \in good PROVE Counts(h[T], T, S)
  <2>1. CASE T = {}
    <3>1. h[T] = CountBase
      BY <1>1, <2>1 DEF CountFold
    <3>2. Total(Increases(S), {}) = 0
      BY FS_EmptySet, TotalIs
    <3> QED
      BY <3>1, <3>2 DEF Counts, CountBase
  <2>2. CASE T # {}
    <3> DEFINE a == Last(T)
    <3>1. a \in T /\ a \in S
      BY <2>2, LastIs
    <3>2. h[T] = Exc!CountAddendum(h[T \ {a}], a)
      BY <1>1, <2>2, CountReadIs DEF CountFold
    <3>3. Counts(h[T \ {a}], T \ {a}, S)
      BY <1>3, <3>1
    <3> HIDE DEF a
    <3>4. (T \ {a}) \cup {a} = T /\ T \ {a} \in SUBSET S /\ a \notin T \ {a}
      BY <3>1
    <3>5. Counts(Exc!CountAddendum(h[T \ {a}], a), (T \ {a}) \cup {a}, S)
      BY <3>1, <3>3, <3>4, CountStep
    <3> QED
      BY <3>2, <3>4, <3>5
  <2> QED
    BY <2>1, <2>2
<1>4. S \in good
  <2>1. \A T \in SUBSET S : (\A x \in T : T \ {x} \in good) => T \in good
    BY <1>3
  <2> HIDE DEF good
  <2> QED
    BY <2>1, SubsetInduction
<1> QED
  BY <1>2, <1>4

\* What is kept of the addenda read, republications left out, are addenda read.
AddendumBase == [first |-> <<>>, kept |-> {}]
AddendumRead(h, T) ==
  CHOOSE v \in {Exc!ReadAddendum(q, b) : q \in {h[T \ {Exc!Latest(T)}]}, b \in {Exc!Latest(T)}} : TRUE
AddendumFold(h, S) == h = [T \in SUBSET S |-> IF T = {} THEN AddendumBase ELSE AddendumRead(h, T)]

LEMMA AddendumReadIs == \A h, T : AddendumRead(h, T) = Exc!ReadAddendum(h[T \ {Last(T)}], Last(T))
<1> SUFFICES ASSUME NEW h, NEW T PROVE AddendumRead(h, T) = Exc!ReadAddendum(h[T \ {Last(T)}], Last(T))
  OBVIOUS
<1>1. {Exc!ReadAddendum(q, b) : q \in {h[T \ {Exc!Latest(T)}]}, b \in {Exc!Latest(T)}}
        = {Exc!ReadAddendum(h[T \ {Last(T)}], Last(T))}
  BY ExcLatest
<1> QED
  BY <1>1 DEF AddendumRead

LEMMA AddendumFolds ==
  ASSUME NEW S
  PROVE  Exc!ReadInOrder(Exc!ReadAddendum, AddendumBase, S) = (CHOOSE h : AddendumFold(h, S))[S]
  BY DEF Exc!ReadInOrder, Exc!MapThenFoldSet, AddendumFold, AddendumRead

LEMMA AddendumFoldIs ==
  ASSUME NEW S, IsFiniteSet(S), Identified(S)
  PROVE  AddendumFold(CHOOSE h : AddendumFold(h, S), S)
<1> DEFINE ids(a) == {<<k, a.ordinal, a.increase>> : k \in a.keys}
           all == UNION {ids(a) : a \in S}
           firsts == UNION {[D -> Nat] : D \in SUBSET all}
           V == [first : firsts, kept : SUBSET S]
           rule == [p \in V \X S |-> Exc!ReadAddendum(p[1], p[2])]
<1>1. AddendumBase \in V
  <2>1. <<>> \in [{} -> Nat]
    OBVIOUS
  <2>2. <<>> \in firsts
    BY <2>1
  <2> HIDE DEF firsts
  <2> QED
    BY <2>2 DEF AddendumBase
<1>2. ASSUME NEW r \in V, NEW a \in S PROVE Exc!ReadAddendum(r, a) \in V
  <2> DEFINE f == [i \in ids(a) \cup DOMAIN r.first |-> IF i \in DOMAIN r.first THEN r.first[i] ELSE a.day]
  <2>1. PICK D \in SUBSET all : r.first \in [D -> Nat]
    OBVIOUS
  <2>2. ids(a) \cup D \in SUBSET all
    <3> HIDE DEF ids
    <3> QED
      OBVIOUS
  <2>3. a.day \in Nat
    BY DEF Identified
  <2>4. f \in [ids(a) \cup D -> Nat]
    <3> HIDE DEF ids, all, firsts
    <3> QED
      BY <2>1, <2>3
  <2>5. f \in firsts
    <3> DEFINE own == [ids(a) \cup D -> Nat]
    <3> HIDE DEF f, all, ids
    <3>1. own \in {[E -> Nat] : E \in SUBSET all}
      BY <2>2
    <3>2. f \in own
      BY <2>4
    <3> HIDE DEF own
    <3> QED
      BY <3>1, <3>2
  <2>6. r.kept \cup {a} \in SUBSET S /\ r.kept \in SUBSET S
    OBVIOUS
  <2>7. /\ Exc!ReadAddendum(r, a).first = f
        /\ Exc!ReadAddendum(r, a).kept \in {r.kept, r.kept \cup {a}}
        /\ Exc!ReadAddendum(r, a) = [first |-> Exc!ReadAddendum(r, a).first, kept |-> Exc!ReadAddendum(r, a).kept]
    BY DEF Exc!ReadAddendum
  <2> HIDE DEF firsts, f
  <2> QED
    BY <2>5, <2>6, <2>7
<1> HIDE DEF V
<1>3. rule \in [V \X S -> V]
  BY <1>2
<1>4. PICK h \in [SUBSET S -> V] : OrderedReads(h, S, AddendumBase, rule)
  <2> HIDE DEF rule
  <2> QED
    BY <1>1, <1>3, OrderedReadingExists
<1>5. ASSUME NEW T \in SUBSET S, T # {}
      PROVE  rule[<<h[T \ {Last(T)}], Last(T)>>] = AddendumRead(h, T)
  <2>1. Last(T) \in S /\ h[T \ {Last(T)}] \in V
    BY <1>5, LastIs
  <2> QED
    BY <2>1, AddendumReadIs
<1> HIDE DEF rule
<1>6. AddendumFold(h, S)
  BY <1>4, <1>5 DEF AddendumFold, OrderedReads
<1> QED
  BY <1>6

LEMMA AddendaKept ==
  ASSUME NEW S, IsFiniteSet(S), Identified(S)
  PROVE  Exc!ReadInOrder(Exc!ReadAddendum, AddendumBase, S).kept \subseteq S
<1> DEFINE h == CHOOSE k : AddendumFold(k, S)
           good == {T \in SUBSET S : h[T].kept \subseteq T}
<1>1. AddendumFold(h, S)
  BY AddendumFoldIs
<1>2. Exc!ReadInOrder(Exc!ReadAddendum, AddendumBase, S) = h[S]
  BY AddendumFolds
<1> HIDE DEF h
<1>3. ASSUME NEW T \in SUBSET S, \A x \in T : T \ {x} \in good PROVE h[T].kept \subseteq T
  <2>1. CASE T = {}
    BY <1>1, <2>1 DEF AddendumFold, AddendumBase
  <2>2. CASE T # {}
    <3> DEFINE a == Last(T)
    <3>1. a \in T
      BY <2>2, LastIs
    <3>2. h[T] = Exc!ReadAddendum(h[T \ {a}], a)
      BY <1>1, <2>2, AddendumReadIs DEF AddendumFold
    <3>3. h[T \ {a}].kept \subseteq T \ {a}
      BY <1>3, <3>1
    <3> HIDE DEF a
    <3>4. h[T].kept \in {h[T \ {a}].kept, h[T \ {a}].kept \cup {a}}
      BY <3>2 DEF Exc!ReadAddendum
    <3> QED
      BY <3>1, <3>3, <3>4
  <2> QED
    BY <2>1, <2>2
<1>4. S \in good
  <2>1. \A T \in SUBSET S : (\A x \in T : T \ {x} \in good) => T \in good
    BY <1>3
  <2> HIDE DEF good
  <2> QED
    BY <2>1, SubsetInduction
<1> QED
  BY <1>2, <1>4

LEMMA AddendaHold ==
  ASSUME given \subseteq Addenda, IsFiniteSet(given)
  PROVE  Exc!AddendaCountOnce
<1> DEFINE W == Exc!WithoutRepublications
<1>1. W \subseteq given
  <2>1. Exc!AddendumActs \subseteq given
    BY DEF Exc!AddendumActs
  <2>2. IsFiniteSet(Exc!AddendumActs) /\ Identified(Exc!AddendumActs)
    BY <2>1, FS_Subset, PurchasesAssumption DEF Identified
  <2> QED
    BY <2>1, <2>2, AddendaKept DEF Exc!WithoutRepublications, AddendumBase
<1> HIDE DEF W
<1>2. ASSUME NEW e \in Exc!FindExcessiveAddenda
      PROVE  /\ e.total = Exc!IncreaseOf(e.acts)
             /\ e.total > Exc!LimitBP(\E a \in e.acts : a.renovation)
             /\ \A a, b \in e.acts : a # b =>
                  /\ a.ordinal # b.ordinal \/ a.ordinal = 0
                  /\ a.increase # b.increase \/ (a.ordinal > 0 /\ b.ordinal > 0)
             /\ \A a \in e.acts : e.key \in a.keys /\ Exc!PrincipalOrgan(a.organ) = e.organ
  <2>1. PICK key, organ : e = Exc!ExcessiveAddendumOf(key, organ) /\ e.total > e.limit
    BY <1>2 DEF Exc!FindExcessiveAddenda
  <2> DEFINE list == Exc!AddendaOf(key, organ)
             counted == Exc!ReadInOrder(Exc!CountAddendum, CountBase, list)
  <2>2. list \subseteq given /\ \A a \in list : key \in a.keys /\ Exc!PrincipalOrgan(a.organ) = organ
    BY <1>1 DEF Exc!AddendaOf, W
  <2>3. IsFiniteSet(list) /\ Identified(list) /\ Numbered(list)
    BY <2>2, FS_Subset, PurchasesAssumption DEF Identified, Numbered
  <2>4. /\ e.key = key /\ e.organ = organ
        /\ e.total = counted.total /\ e.acts = counted.acts
        /\ e.limit = Exc!LimitBP(\E a \in list : a.renovation)
    BY <2>1 DEF Exc!ExcessiveAddendumOf, CountBase
  <2> HIDE DEF list
  <2>5. Counts(counted, list, list)
    BY <2>3, CountsAll
  <2> HIDE DEF counted
  <2>6. e.acts \subseteq list /\ IsFiniteSet(e.acts)
    BY <2>3, <2>4, <2>5, FS_Subset DEF Counts
  <2>7. \A a \in e.acts : Increases(list)[a] = a.increase /\ Increases(list)[a] \in Int
    BY <2>3, <2>6 DEF Increases, Numbered
  <2>8. e.total = Exc!IncreaseOf(e.acts)
    BY <2>4, <2>5, <2>6, <2>7, IncreaseIsTotal DEF Counts
  <2>9. e.total > Exc!LimitBP(\E a \in e.acts : a.renovation)
    <3>1. e.total \in Int
      BY <2>6, <2>7, <2>8, IncreaseIsTotal, TotalIs
    <3> QED
      BY <2>1, <2>4, <2>6, <3>1 DEF Exc!LimitBP
  <2> QED
    BY <2>2, <2>4, <2>5, <2>6, <2>8, <2>9 DEF Counts
<1> QED
  BY <1>2 DEF Exc!AddendaCountOnce
=============================================================================
