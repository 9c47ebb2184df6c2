---------------------------- MODULE EntityReport ----------------------------
(***************************************************************************)
(* What the API tells of a number of process or contract or of a CNPJ: nine *)
(* statements, of no one transaction, over the acts linked to it while      *)
(* editions are indexed and indexed again.  An act is [id, gazette, type,   *)
(* says, organ, day, source, cites, values]; says are the words of its      *)
(* title, and cites has one [kind, key, spelled] for each spelling.         *)
(***************************************************************************)
EXTENDS Integers, FiniteSets, FiniteSetsExt

CONSTANTS
  Editions,      \* [gazette, acts] that may be indexed, more than one of a gazette
  Questions,     \* [kind, key, source] that may be asked, source "" when any will do
  NumbersAlone,  \* keys of contracts without an acronym
  OrganVariants, \* acronym an organ once used |-> acronym it has now
  CompanyActs, NumberActs, \* acts of a report
  ListLimit      \* processes, or related entities of a kind, of a report

VARIABLES acts, reports

Init == acts = {} /\ reports = {}

\* What is not said.
Unsaid == ""

\* What the saves did to the acts since a report was asked for.
Changed(r, e) ==
  [r EXCEPT !.changes = IF \E a \in acts : a.gazette = e.gazette THEN "redone"
                        ELSE IF @ = "none" THEN "grew" ELSE @]

\* SaveWithActs and ReplaceActs
SaveEdition(e) ==
  /\ ~(e.acts \subseteq acts)
  /\ acts' = {a \in acts : a.gazette # e.gazette} \cup e.acts
  /\ reports' = {Changed(r, e) : r \in reports}

-----------------------------------------------------------------------------
PrincipalOrgan(acronym) == IF acronym \in DOMAIN OrganVariants THEN OrganVariants[acronym] ELSE acronym

PhaseRules ==
  LET rule(phase, types) == [phase |-> phase, types |-> types]
  IN  <<rule("rescisao", {}), rule("aditivo", {"aditivo"}), rule("ajuste_contas", {}), rule("fiscal", {}),
        rule("homologacao", {}), rule("ata_registro_precos", {}), rule("dispensa", {"dispensa"}),
        rule("contrato", {"contrato"}), rule("licitacao", {"licitacao", "edital", "ata"})>>

\* The first rule whose words the title says, or whose types have the act's.
PhaseOf(a) ==
  LET of == {i \in DOMAIN PhaseRules : PhaseRules[i].phase \in a.says \/ a.type \in PhaseRules[i].types}
  IN  IF of = {} THEN "outro" ELSE PhaseRules[Min(of)].phase

\* Mutant: each spelling of a number is a link.
EverySpelling(q) ==
  UNION {{<<a, c>> : c \in {d \in a.cites : d.kind = q.kind /\ d.key = q.key}} :
           a \in {b \in acts : q.source = Unsaid \/ b.source = q.source}}

\* entity_links: one for each act that cites a key, however it spells it.
Links(q) ==
  {<<a, [kind |-> q.kind, key |-> q.key]>> :
     a \in {b \in acts : /\ \E c \in b.cites : c.kind = q.kind /\ c.key = q.key
                         /\ q.source = Unsaid \/ b.source = q.source}}

LinkCertainty(q) ==
  IF q.kind = "cnpj" THEN "exata" ELSE IF q.kind = "contrato" /\ q.key \in NumbersAlone THEN "fraca" ELSE "forte"

ReportCertainty(q, sources) == IF q.kind # "cnpj" /\ sources > 1 THEN "fraca" ELSE LinkCertainty(q)

\* How many links have each value of f, of their acts.
CountBy(f(_), links) == [v \in {f(l[1]) : l \in links} |-> Cardinality({l \in links : f(l[1]) = v})]
Sum(counts) == FoldSet(LAMBDA v, sum : counts[v] + sum, 0, DOMAIN counts)

ActsOf(q) == {l[1] : l \in Links(q)}
Newest(S, n) == {a \in S : Cardinality({b \in S : b.day > a.day \/ (b.day = a.day /\ b.id < a.id)}) < n}
ReportActsLimit(kind) == IF kind = "cnpj" THEN CompanyActs ELSE NumberActs

RelatedKinds(kind) == IF kind = "contrato" THEN {"processo", "cnpj"} ELSE {"contrato", "cnpj"}
KeysIn(a, kind) == {c.key : c \in {d \in a.cites : d.kind = kind}}
Citing(S, kind, key) == {a \in S : key \in KeysIn(a, kind)}

\* The keys most acts of S cite, then by the key.
MostCited(S, kind) ==
  LET count(k) == Cardinality(Citing(S, kind, k))
      keys == UNION {KeysIn(a, kind) : a \in S}
  IN  {k \in keys : Cardinality({l \in keys : count(l) > count(k) \/ (count(l) = count(k) /\ l < k)}) < ListLimit}

LinkedRelated(S, kind) ==
  UNION {{[kind |-> k, key |-> n, acts |-> Cardinality(Citing(S, k, n))] : n \in MostCited(S, k)} : k \in RelatedKinds(kind)}

MaxValue(a) == Max({0} \cup a.values)
SumOf(values(_), S) == FoldSet(LAMBDA a, sum : values(a) + sum, 0, S)
AllValues(a) == FoldSet(+, 0, a.values)

ProcessesOf(S) ==
  {LET P == Citing(S, "processo", k)
   IN  [key |-> k, acts |-> Cardinality(P), max |-> Max({MaxValue(a) : a \in P}),
        first |-> Min({a.day : a \in P}), last |-> Max({a.day : a \in P})] : k \in MostCited(S, "processo")}

\* Each process gives the act of its greatest value, and each act counts once.
ProcessMax(S) ==
  LET keys == UNION {KeysIn(a, "processo") : a \in S}
      best(k) == CHOOSE a \in Citing(S, "processo", k) : \A b \in Citing(S, "processo", k) \ {a} :
                   MaxValue(a) > MaxValue(b) \/ (MaxValue(a) = MaxValue(b) /\ a.id < b.id)
  IN  {best(k) : k \in keys}

-----------------------------------------------------------------------------
\* ReportByKey: the report as each statement leaves it, and the next one.
NothingTold(q) ==
  [q |-> q, at |-> "told", changes |-> "none", certainty |-> Unsaid, sources |-> 0, acts |-> {}, types |-> <<>>, total |-> 0,
   organs |-> <<>>, phases |-> <<>>, related |-> {}, processes |-> {}, without |-> 0, count |-> 0, sum |-> 0, cents |-> 0]

Ask(q) ==
  LET sources == Cardinality({a.source : a \in ActsOf(q)})
  IN  /\ \A r \in reports : r.at = "told"
      /\ reports' = {IF Links(q) = {} THEN NothingTold(q)
                     ELSE [NothingTold(q) EXCEPT !.at = "acts", !.sources = sources, !.certainty = ReportCertainty(q, sources)]}
      /\ UNCHANGED acts

ReadNext(r) ==
  LET S == ActsOf(r.q) IN
  CASE r.at = "acts" -> [r EXCEPT !.acts = Newest(S, ReportActsLimit(r.q.kind)), !.at = "types"]
    [] r.at = "types" ->
         LET types == CountBy(LAMBDA a : a.type, Links(r.q)) IN [r EXCEPT !.types = types, !.total = Sum(types), !.at = "organs"]
    [] r.at = "organs" ->
         [r EXCEPT !.organs = CountBy(LAMBDA a : PrincipalOrgan(a.organ), Links(r.q)),
                   !.phases = CountBy(PhaseOf, Links(r.q)),
                   !.at = IF r.q.kind = "cnpj" THEN "processes" ELSE "related"]
    [] r.at = "related" ->
         [r EXCEPT !.related = LinkedRelated(S, r.q.kind), !.at = IF r.q.kind = "processo" THEN "cents" ELSE "processes"]
    [] r.at = "processes" ->
         [r EXCEPT !.processes = ProcessesOf(S),
                   !.without = IF ProcessesOf(S) = {} THEN r.total ELSE Cardinality({a \in S : KeysIn(a, "processo") = {}}),
                   !.at = IF ProcessesOf(S) = {} THEN "cents" ELSE "totals"]
    [] r.at = "totals" ->
         [r EXCEPT !.count = Cardinality(UNION {KeysIn(a, "processo") : a \in S}), !.sum = SumOf(MaxValue, ProcessMax(S)), !.at = "cents"]
    [] r.at = "cents" -> [r EXCEPT !.cents = SumOf(AllValues, S), !.at = "told"]

Read ==
  /\ \E r \in reports : r.at # "told" /\ reports' = {ReadNext(r)}
  /\ UNCHANGED acts

\* The company's page reads act_entities, not the links.
ReportByEntity(cnpj) ==
  LET S == {a \in acts : cnpj \in KeysIn(a, "cnpj")}
  IN  [acts |-> Newest(S, CompanyActs), types |-> CountBy(LAMBDA a : a.type, {<<a, cnpj>> : a \in S}), cents |-> SumOf(AllValues, S)]

EntityWarnings(r) ==
  LET number == r.q.kind # "cnpj"
  IN  IF number /\ r.sources > 1 THEN {"two gazettes"}
      ELSE IF r.certainty = "fraca" THEN {"no acronym"}
      ELSE IF number /\ Cardinality(DOMAIN r.organs \ {Unsaid}) > 1 THEN {"organs"} ELSE {}

Next == (\E e \in Editions : SaveEdition(e)) \/ (\E q \in Questions : Ask(q)) \/ Read

-----------------------------------------------------------------------------
Told(changes) == {r \in reports : r.at = "told" /\ r.changes = changes}

\* The statements of a report share no transaction, and one that a save interrupted
\* need not add up: of those only ReportsGrow speaks.
\* A report no save disturbed tells of the acts it was asked for: by type, by organ
\* and by phase they add up to the total, which the acts without a process and
\* those of its processes share; it lists the newest, and what its processes are
\* worth is no more than its acts' values and no less than any process's; and the
\* page of the company says the same.
ReportAddsUp ==
  \A r \in Told("none") :
    /\ r.total = Sum(r.types) /\ r.total = Sum(r.organs) /\ r.total = Sum(r.phases)
    /\ r.acts # {} => Cardinality(r.acts) = Min({r.total, ReportActsLimit(r.q.kind)})
    /\ \A x \in r.related \cup r.processes : x.acts \in 1 .. r.total
    /\ \A p \in r.processes : p.max <= r.sum /\ p.first <= p.last /\ p.acts + r.without <= r.total
    /\ r.sum <= r.cents /\ r.count >= Cardinality(r.processes)
    /\ r.q.kind # "processo" => r.without = r.total \/ r.processes # {}
    /\ r.q.kind = "cnpj" /\ r.q.source = Unsaid =>
         ReportByEntity(r.q.key) = [acts |-> r.acts, types |-> r.types, cents |-> r.cents]

\* While editions only arrive, a later statement counts no fewer acts than an
\* earlier one: a report read meanwhile shows a part of what it adds up.
ReportsGrow ==
  \A r \in Told("grew") :
    /\ r.total <= Sum(r.organs) /\ Cardinality(r.acts) <= r.total /\ Sum(r.organs) = Sum(r.phases)
    /\ r.sources <= r.total
    /\ \A p \in r.processes : p.max <= r.sum /\ r.sum <= r.cents

\* A number that acts of two organs, or of two gazettes, have is never told
\* without a warning; a CNPJ never has one.
SharedNumbersAreWarned ==
  \A r \in Told("none") :
    IF r.q.kind = "cnpj" THEN EntityWarnings(r) = {}
    ELSE Cardinality({a.source : a \in r.acts}) > 1 \/ Cardinality({PrincipalOrgan(a.organ) : a \in r.acts} \ {Unsaid}) > 1
           => EntityWarnings(r) # {}
=============================================================================
