-------------------------- MODULE ExcessiveAddenda --------------------------
(***************************************************************************)
(* The pattern "addenda that increase a contract more than the law lets":  *)
(* which addenda are the same one published again and what the others add  *)
(* up to.  An act is [id, day, keys, organ, ordinal, increase, renovation, *)
(* source]: the contracts it names, the number the addendum has in them (0 *)
(* when the text says none) and the increase it declares, in basis points. *)
(***************************************************************************)
EXTENDS DomainActs

CONSTANT Addenda  \* the acts the editions bring, in whatever order

VARIABLE acts

Init == acts = {}
Publish(a) == a \notin acts /\ acts' = acts \cup {a}
Next == \E a \in Addenda : Publish(a)

AddendumActs == {a \in acts : a.increase > 0 /\ a.source = "prefeitura"}

AddendumRepublicationGap == 30
LimitBP(renovation) == IF renovation THEN 5000 ELSE 2500

\* An act that repeats, for any of its contracts, an addendum first read up to
\* 30 days before is left out of all of them.
ReadAddendum(r, a) ==
  LET ids == {<<k, a.ordinal, a.increase>> : k \in a.keys}
      republished == \E i \in ids \cap DOMAIN r.first : a.day - r.first[i] <= AddendumRepublicationGap
  IN  [first |-> [i \in ids \cup DOMAIN r.first |-> IF i \in DOMAIN r.first THEN r.first[i] ELSE a.day],
       kept |-> IF republished THEN r.kept ELSE r.kept \cup {a}]

WithoutRepublications ==
  ReadInOrder(ReadAddendum, [first |-> <<>>, kept |-> {}], AddendumActs).kept

CountAddendum(e, a) ==
  IF IF a.ordinal > 0 THEN a.ordinal \in e.ordinals \/ a.increase \in e.unnumbered
     ELSE a.increase \in e.increases
  THEN e
  ELSE [total |-> e.total + a.increase,
        acts |-> e.acts \cup {a},
        ordinals |-> e.ordinals \cup ({a.ordinal} \ {0}),
        increases |-> e.increases \cup {a.increase},
        unnumbered |-> IF a.ordinal = 0 THEN e.unnumbered \cup {a.increase} ELSE e.unnumbered]

AddendaOf(key, organ) ==
  {a \in WithoutRepublications : key \in a.keys /\ PrincipalOrgan(a.organ) = organ}

ExcessiveAddendumOf(key, organ) ==
  LET list == AddendaOf(key, organ)
      counted == ReadInOrder(CountAddendum,
                   [total |-> 0, acts |-> {}, ordinals |-> {}, increases |-> {}, unnumbered |-> {}], list)
  IN  [key |-> key, organ |-> organ, total |-> counted.total, acts |-> counted.acts,
       limit |-> LimitBP(\E a \in list : a.renovation)]

\* An addendum that names no organ is of no contract.
Keys == UNION {a.keys : a \in acts}
Organs == {PrincipalOrgan(a.organ) : a \in acts} \ {""}

FindExcessiveAddenda ==
  {e \in {ExcessiveAddendumOf(key, organ) : key \in Keys, organ \in Organs} : e.total > e.limit}

-----------------------------------------------------------------------------
IncreaseOf(S) == SumOf(LAMBDA a : a.increase, S)

\* The sum of a finding is over the limit and counts every addendum once: no
\* two acts of one number, none of the same increase unless both have numbers,
\* all of the finding's contract and organ.
AddendaCountOnce ==
  \A e \in FindExcessiveAddenda :
    /\ e.total = IncreaseOf(e.acts)
    /\ e.total > LimitBP(\E a \in e.acts : a.renovation)
    /\ \A a, b \in e.acts : a # b =>
         /\ a.ordinal # b.ordinal \/ a.ordinal = 0
         /\ a.increase # b.increase \/ (a.ordinal > 0 /\ b.ordinal > 0)
    /\ \A a \in e.acts : e.key \in a.keys /\ PrincipalOrgan(a.organ) = e.organ

RepublishedFrom(a, b) ==
  a # b /\ Before(a, b) /\ [b EXCEPT !.id = a.id, !.day = a.day] = a

Totals == {<<e.key, e.organ, e.total>> : e \in FindExcessiveAddenda}

\* Publishing again an addendum that was read adds nothing to any contract.
RepublishingAddsNothing ==
  \A a \in WithoutRepublications, b \in acts' \ acts :
    RepublishedFrom(a, b) => Totals' = Totals
=============================================================================
