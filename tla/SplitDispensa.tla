---------------------------- MODULE SplitDispensa ----------------------------
(***************************************************************************)
(* The pattern "dispensas of one supplier that together pass the limit":   *)
(* which acts are one contract, what a contract is worth and which         *)
(* contracts of a year add up to more than the law lets go without a bid.  *)
(* An act is [id, day, cnpjs, processes, organ, value, type, modality,     *)
(* source, marks], its marks what the patterns find in its text.           *)
(***************************************************************************)
EXTENDS DomainActs

CONSTANT Dispensas  \* the acts the editions bring, in whatever order

VARIABLE acts

Init == acts = {}

\* An edition is indexed, at any time: old editions come late.
Publish(a) == a \notin acts /\ acts' = acts \cup {a}

Next == \E a \in Dispensas : Publish(a)

DispensaActs ==
  {a \in acts :
     /\ a.type = "dispensa" \/ a.modality = "dispensa"
     /\ a.type # "aditivo"
     /\ a.value > 0
     /\ a.source = "prefeitura"}

\* The acts that count for a supplier: no emergency, no one else to share it.
ActsOf(cnpj) ==
  {a \in DispensaActs :
     /\ cnpj \in a.cnpjs
     /\ PrivateCNPJs(a.cnpjs \ {cnpj}) = {}
     /\ "emergency" \notin a.marks}

JoinByProcess(r, a) == JoinFirst(r, a, a.processes)
GroupedByProcess(S) == ReadInOrder(JoinByProcess, Apart(S), S).groups

\* Mutant: a republication without the number of its process stays apart.
LinkUnnumbered(S, groups, a) ==
  IF a.processes # {} THEN groups ELSE JoinSameValue(S, groups, a)

\* An act without a process, or a republication no act shares a process with,
\* is the contract of the first act of its value and year.
LinkByValue(S, groups, a) ==
  IF a.processes # {} /\ ("republication" \notin a.marks \/ Cardinality(GroupOf(groups, a)) > 1)
  THEN groups ELSE JoinSameValue(S, groups, a)

Grouped(S) ==
  ReadInOrder(LAMBDA groups, a : LinkByValue(S, groups, a), GroupedByProcess(S), S)

Limits ==
  [old |-> [compras |-> {<<Date(2018, 199), 1760000>>, <<0, 800000>>},
            obras |-> {<<Date(2018, 199), 3300000>>, <<0, 1500000>>}],
   new |-> [compras |-> {<<Date(2026, 0), 6549211>>, <<Date(2025, 0), 6272559>>, <<Date(2024, 0), 5990602>>,
                         <<Date(2023, 0), 5720833>>, <<0, 5000000>>},
            obras |-> {<<Date(2026, 0), 13098420>>, <<Date(2025, 0), 12545115>>, <<Date(2024, 0), 11981202>>,
                       <<Date(2023, 0), 11441665>>, <<0, 10000000>>}]]

Lei14133Start == Date(2021, 90)
Lei8666End == Date(2023, 363)

DispensaLimitCents(day, citesLei14133, category) ==
  LET law == IF day >= Lei8666End \/ (citesLei14133 /\ day >= Lei14133Start) THEN "new" ELSE "old"
      started == {l \in Limits[law][category] : l[1] <= day}
  IN  (CHOOSE l \in started : \A k \in started : k[1] <= l[1])[2]

CategoryOf(members) ==
  IF \E a \in members : "goods" \in a.marks THEN "compras"
  ELSE IF \E a \in members : "works" \in a.marks THEN "obras" ELSE ""

ContractOf(members) ==
  LET first == Earliest(members).day
  IN  [acts |-> members, first |-> first, category |-> CategoryOf(members),
       value |-> Greatest({a.value : a \in members}),
       processes |-> UNION {a.processes : a \in members},
       limit |-> IF CategoryOf(members) = "" THEN 0
                 ELSE DispensaLimitCents(first, \E a \in members : "lei14133" \in a.marks, CategoryOf(members))]

\* The contracts each below its own limit.
ValueDispensaContracts(cnpj) ==
  {c \in {ContractOf(g) : g \in Grouped(ActsOf(cnpj))} : c.category # "" /\ c.value < c.limit}

SplitOf(cnpj, year, category) ==
  LET chosen == {c \in ValueDispensaContracts(cnpj) : Year(c.first) = year /\ c.category = category}
  IN  [cnpj |-> cnpj, year |-> year, category |-> category, contracts |-> chosen,
       total |-> SumOf(LAMBDA c : c.value, chosen),
       limit |-> Greatest({0} \cup {c.limit : c \in chosen})]

Suppliers == {c \in UNION {a.cnpjs : a \in DispensaActs} : ~PublicBody(c)}

FindSplitDispensas ==
  {s \in {SplitOf(cnpj, year, category) :
            cnpj \in Suppliers, year \in {Year(a.day) : a \in acts}, category \in {"compras", "obras"}} :
     Cardinality(s.contracts) >= 2 /\ s.total > s.limit}

-----------------------------------------------------------------------------
Numberless(a, cnpj) ==
  \/ a.processes = {}
  \/ "republication" \in a.marks /\ \A b \in ActsOf(cnpj) \ {a} : a.processes \cap b.processes = {}

\* The contracts a finding adds up are different contracts: no act and no
\* process in two of them, and no two acts of the same value and year told apart
\* when neither has a process, or has one no other act knows because it is a
\* republication; each is below a limit the sum passes.
SplitsAreOfDifferentContracts ==
  \A s \in FindSplitDispensas :
    /\ s.total > s.limit
    /\ \A c \in s.contracts : c.value < s.limit
    /\ \A c, d \in s.contracts : c # d =>
         /\ c.acts \cap d.acts = {} /\ c.processes \cap d.processes = {}
         /\ \A a \in c.acts, b \in d.acts :
              ~(Numberless(a, s.cnpj) /\ Numberless(b, s.cnpj) /\ a.value = b.value /\ Year(a.day) = Year(b.day))

\* No act counts in two findings: it has one supplier, one year, one category.
ActsCountInOneSplit ==
  \A s, t \in FindSplitDispensas : s # t =>
    (UNION {c.acts : c \in s.contracts}) \cap (UNION {c.acts : c \in t.contracts}) = {}

\* What b says that a has said, later in the same year: the same contract
\* published again.
RepublishedFrom(a, b) ==
  /\ a # b /\ Before(a, b) /\ Year(a.day) = Year(b.day)
  /\ a.cnpjs = b.cnpjs /\ a.processes = b.processes /\ a.value = b.value
  /\ a.type = b.type /\ a.modality = b.modality /\ a.source = b.source
  /\ a.marks = b.marks \ {"republication"}

SplitAmounts == {<<s.cnpj, s.year, s.category, Cardinality(s.contracts), s.total>> : s \in FindSplitDispensas}

\* Publishing a contract again neither makes a finding nor changes its sum.
RepublishingSplitsNothing ==
  \A a \in acts, b \in acts' \ acts : RepublishedFrom(a, b) => SplitAmounts' = SplitAmounts
=============================================================================
