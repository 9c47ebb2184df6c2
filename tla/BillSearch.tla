----------------------------- MODULE BillSearch -----------------------------
(***************************************************************************)
(* How the bills of the Câmara are found: their phase, the time they have  *)
(* been idle, the pages of a list, and which law came of which bill.  A    *)
(* bill is [key, kind, doc, badge, archived, presented, events], where doc *)
(* is [kind, number, year], badge the law its page shows and an event      *)
(* [day, says] names the phases its text speaks of; a norm is [law,        *)
(* suffix, cites], where cites is the doc its author names.  NoLaw, NoDoc  *)
(* and 0 stand for what is not said.                                       *)
(***************************************************************************)
EXTENDS Integers, SequencesExt

CONSTANTS
  Readings, \* the bills a run of the job may save
  Norms,    \* the norms a load may bring
  Today

VARIABLES bills, norms

Init == bills = {} /\ norms = {}
SaveBill(b) == b \notin bills /\ bills' = {c \in bills : c.key # b.key} \cup {b} /\ UNCHANGED norms
AddNorm(n) ==
  /\ \A m \in norms : <<m.law, m.suffix>> # <<n.law, n.suffix>>
  /\ norms' = norms \cup {n}
  /\ UNCHANGED bills
Next == (\E b \in Readings : SaveBill(b)) \/ (\E n \in Norms : AddNorm(n))

NoLaw == [kind |-> "", number |-> 0, year |-> 0]
NoDoc == NoLaw

-----------------------------------------------------------------------------
BillPhasesInOrder ==
  <<"virou_norma", "vetado", "rejeitado", "retirado", "arquivado", "enviado_ao_executivo",
    "aprovado", "em_votacao", "em_comissao", "apresentado">>

Said(b) == (UNION {e.says : e \in b.events}) \cup (IF b.archived THEN {"arquivado"} ELSE {})

\* The strongest phase that the badge, the situation or an event tells of.
BillPhaseOf(b) ==
  IF b.badge.number > 0 THEN "virou_norma"
  ELSE BillPhasesInOrder[Min({i \in 1 .. 9 : BillPhasesInOrder[i] \in Said(b)} \cup {10})]

\* Days since the last event, none if it is yet to come.
DaysIdle(b) ==
  LET last == Max({e.day : e \in b.events} \cup {0})
  IN  IF last = 0 \/ Today < last THEN 0 ELSE Today - last

NormativeKinds == {"projeto de lei", "projeto de lei complementar", "mensagem"}

\* A query: kinds (all of them when empty), a phase or "", days idle, a day from
\* which the bill was presented, or 0.
Candidates(q) ==
  {b \in bills : /\ q.kinds # {} => b.kind \in q.kinds
                 /\ q.from > 0 => b.presented >= q.from}

\* Presented last first, undated at the end, then by process.
ListedBefore(b, c) == b.presented > c.presented \/ (b.presented = c.presented /\ b.key > c.key)

\* The bills idle for longer come first, when the query is about idle ones.
KeptBefore(q, b, c) ==
  IF q.idle > 0 /\ DaysIdle(b) # DaysIdle(c) THEN DaysIdle(b) > DaysIdle(c) ELSE ListedBefore(b, c)

Keep(q, b) == (q.phase = "" \/ BillPhaseOf(b) = q.phase) /\ DaysIdle(b) >= q.idle

Kept(q) == SetToSortSeq({b \in Candidates(q) : Keep(q, b)}, LAMBDA b, c : KeptBefore(q, b, c))

PageOf(items, offset, limit) ==
  SubSeq(items, offset + 1, IF offset + limit < Len(items) THEN offset + limit ELSE Len(items))

List(q, offset, limit) ==
  LET idle == {b \in Candidates(q) : DaysIdle(b) >= q.idle}
  IN  [total |-> Len(Kept(q)),
       byPhase |-> [p \in {BillPhaseOf(b) : b \in idle} |-> Cardinality({b \in idle : BillPhaseOf(b) = p})],
       items |-> PageOf(Kept(q), offset, limit)]

-----------------------------------------------------------------------------
InSIAPEGOV == {"lei", "lei_complementar", "lei_organica", "decreto"}

NormsByNumber(law) == {n \in norms : n.law = law}
FirstNorm(S) == CHOOSE n \in S : \A m \in S : n.suffix <= m.suffix

BillsByLaw(law) == {b \in bills : b.badge = law}
BillsByDoc(doc) == {b \in bills : b.doc = doc}
FirstBill(S) == CHOOSE b \in S : \A c \in S : b.key <= c.key

\* The norm of a badge as the base has it, or as the badge names it.
BadgeNorm(b) ==
  IF b.badge.kind \in InSIAPEGOV /\ NormsByNumber(b.badge) # {} THEN FirstNorm(NormsByNumber(b.badge))
  ELSE [law |-> b.badge, suffix |-> 0, cites |-> NoDoc]

CitedBy(doc) == {n \in norms : n.cites = doc /\ n.cites # NoDoc}

\* What became of a bill: the law its page shows, or the norms that cite it.
Laws(b) ==
  IF b.badge.number > 0 THEN {[norm |-> BadgeNorm(b), certainty |-> "exata"]}
  ELSE {[norm |-> n, certainty |-> "forte"] : n \in CitedBy(b.doc)}

\* Only of a law is the page of its bill looked for.
IsLaw(n) == n.law.kind \in {"lei", "lei_complementar"}

\* Mutant: the author of a norm counts before the page of the bill.
CitedFirst(n) ==
  IF n.cites # NoDoc /\ BillsByDoc(n.cites) # {} THEN {[bill |-> FirstBill(BillsByDoc(n.cites)), certainty |-> "forte"]}
  ELSE IF IsLaw(n) /\ BillsByLaw(n.law) # {}
       THEN {[bill |-> FirstBill(BillsByLaw(n.law)), certainty |-> "exata"]}
       ELSE {}

\* The bill a norm came from, if any.
ForNorm(n) ==
  IF IsLaw(n) /\ BillsByLaw(n.law) # {}
  THEN {[bill |-> FirstBill(BillsByLaw(n.law)), certainty |-> "exata"]}
  ELSE IF n.cites # NoDoc /\ BillsByDoc(n.cites) # {}
       THEN {[bill |-> FirstBill(BillsByDoc(n.cites)), certainty |-> "forte"]}
       ELSE {}

-----------------------------------------------------------------------------
Queries ==
  [kinds : {{}, NormativeKinds}, phase : {""} \cup ToSet(BillPhasesInOrder), idle : {0, 30}, from : {0, Today - 50}]

\* Whatever the query, its phases add up to the list without a phase, each is the
\* list of that phase, and the pages of a list, put together, have every bill once.
ListsAddUp ==
  \A q \in Queries :
    LET all == List([q EXCEPT !.phase = ""], 0, 1)
        whole == Kept(q)
    IN  /\ List(q, 0, 1).byPhase = all.byPhase
        /\ IF q.phase = "" THEN FoldFunction(+, 0, all.byPhase) = all.total
           ELSE Len(whole) = IF q.phase \in DOMAIN all.byPhase THEN all.byPhase[q.phase] ELSE 0
        /\ IsInjective(whole)
        /\ FlattenSeq([i \in 1 .. Len(whole) + 1 |-> List(q, 2 * (i - 1), 2).items]) = whole

\* A bill and its law know each other: a law the bill's page shows came from a bill
\* that shows it, a norm that cites the bill from one of that document unless
\* another shows it, and the other way round unless the bill shows its own.
LawsKnowTheirBills ==
  /\ \A b \in bills : \A l \in Laws(b) :
       l.norm \in norms =>
         IF l.certainty = "exata"
         THEN IsLaw(l.norm) => \E origin \in ForNorm(l.norm) : origin.bill.badge = b.badge
         ELSE \E origin \in ForNorm(l.norm) : origin.bill.badge = l.norm.law \/ origin.bill.doc = b.doc
  /\ \A n \in norms : \A origin \in ForNorm(n) :
       LET b == origin.bill
       IN  IF origin.certainty = "exata"
           THEN \E l \in Laws(b) : l.certainty = "exata" /\ l.norm \in NormsByNumber(n.law)
           ELSE b.badge # NoLaw \/ [norm |-> n, certainty |-> "forte"] \in Laws(b)

\* What came of a bill outlives the end of the term, when every bill is archived.
OutcomeOutlivesTheTerm ==
  \A b \in bills :
    BillPhaseOf(b) \in {"virou_norma", "vetado", "rejeitado", "retirado"} =>
      BillPhaseOf([b EXCEPT !.archived = TRUE]) = BillPhaseOf(b)
=============================================================================
