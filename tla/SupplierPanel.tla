---------------------------- MODULE SupplierPanel ----------------------------
(***************************************************************************)
(* The panel of suppliers: what the acts of one source announce for each   *)
(* supplier, by year and by organ, beside what was paid.  An act is [id,   *)
(* day, cnpjs, name, refs, organ, value, type, phases, marks, explicit,    *)
(* increase, source]: the phases its title names, the marks its head shows *)
(* and the increase it states in money (NoIncrease: none) and in basis     *)
(* points.  A payment is [cnpj, year, chamber, cents].                     *)
(***************************************************************************)
EXTENDS DomainActs

CONSTANTS
  PanelActs,          \* the acts the editions bring
  Payments,           \* the totals the loads of payments bring
  SupplierPanelLimit  \* rows the panel shows

VARIABLES acts, paid

NoIncrease == -1
EveryYear == 0
EveryOrgan == ""

Init == acts = {} /\ paid = {}
Publish(a) == a \notin acts /\ acts' = acts \cup {a} /\ UNCHANGED paid
Pay(p) == p \notin paid /\ paid' = paid \cup {p} /\ UNCHANGED acts
Next == (\E a \in PanelActs : Publish(a)) \/ (\E p \in Payments : Pay(p))

PanelActTypes == {"contrato", "dispensa", "licitacao", "ata", "aditivo"}
ActsOfSource(source) ==
  {a \in acts : a.source = source /\ a.type \in PanelActTypes /\ (a.value > 0 \/ a.increase > 0)}

PhaseOrder == <<"rescisao", "aditivo", "ajuste_contas", "fiscal", "homologacao", "ata_registro_precos",
                "dispensa", "contrato", "licitacao">>

PhaseOf(a) ==
  LET named == a.phases \cup (IF a.type = "ata" THEN {"licitacao"} ELSE {a.type})
  IN  PhaseOrder[Least({i \in DOMAIN PhaseOrder : PhaseOrder[i] \in named})]

ValuelessPhases == {"homologacao", "aditivo", "rescisao", "ajuste_contas", "fiscal"}

PanelValueRoleOf(a) ==
  CASE a.marks \cap {"valueless", "notNew"} # {} -> "none"
    [] "award" \in a.marks /\ a.type # "dispensa" /\ "direct" \notin a.marks -> "none"
    [] OTHER ->
         IF a.type = "aditivo" \/ PhaseOf(a) = "aditivo" \/ "amendment" \in a.marks THEN "amended"
         ELSE IF PhaseOf(a) \in ValuelessPhases THEN "none"
         ELSE IF "registry" \in a.marks \/ (PhaseOf(a) = "ata_registro_precos" /\ "parties" \notin a.marks)
           THEN "registered"
         ELSE "contracted"

AmendmentValueCents(a, contracted) ==
  CASE a.explicit # NoIncrease -> a.explicit
    [] a.explicit = NoIncrease /\ "suppression" \in a.marks -> 0
    [] OTHER ->
         IF "prorrogation" \in a.marks /\ a.marks \cap {"withoutCost", "short"} = {} THEN a.value
         ELSE (contracted * a.increase) \div 10000

AmendmentRepublicationDays == 90

\* Mutant: an amendment published again counts again.
KeepRepublished(contracted, kept, a) ==
  LET cents == AmendmentValueCents(a, contracted)
  IN  IF cents > 0 THEN kept \cup {[id |-> a.id, cents |-> cents, day |-> a.day]} ELSE kept

KeepAmendment(contracted, kept, a) ==
  LET cents == AmendmentValueCents(a, contracted)
  IN  IF cents > 0 /\ ~\E k \in kept : k.cents = cents /\ a.day - k.day <= AmendmentRepublicationDays
      THEN kept \cup {[id |-> a.id, cents |-> cents, day |-> a.day]}
      ELSE kept

AmendmentsOf(S, contracted) ==
  ReadInOrder(LAMBDA kept, a : KeepAmendment(contracted, kept, a), {}, S)

\* The first act of the greatest value there is among acts.
LargestOf(S) ==
  IF S = {} THEN [id |-> 0, value |-> 0]
  ELSE Earliest({a \in S : \A b \in S : b.value <= a.value})

\* The organs that acts name.
OrgansOf(S) == {PrincipalOrgan(a.organ) : a \in S} \ {""}

PanelContractOf(cnpj, members) ==
  LET contracted == LargestOf({a \in members : PanelValueRoleOf(a) = "contracted" /\ a.value > 0})
      registered == LargestOf({a \in members : PanelValueRoleOf(a) = "registered" /\ a.value > 0})
      largest == IF contracted.value = 0 THEN registered ELSE contracted
  IN  [cnpj |-> cnpj, acts |-> members,
       id |-> Earliest(members).id, day |-> Earliest(members).day, last |-> Latest(members).day,
       contracted |-> contracted.value,
       registered |-> IF contracted.value = 0 THEN registered.value ELSE 0,
       largest |-> largest.id,
       amendments |-> AmendmentsOf({a \in members : PanelValueRoleOf(a) = "amended"}, contracted.value),
       organs |-> OrgansOf(members)]

JoinByRef(r, a) == JoinFirst(r, a, a.refs)
GroupedByRef(S) == ReadInOrder(JoinByRef, Apart(S), S).groups

\* Mutant: an act without a number is of no other act's contract.
JoinNumbered(S) == GroupedByRef(S)

JoinPanelActs(S) ==
  ReadInOrder(LAMBDA groups, a : IF a.refs # {} THEN groups ELSE JoinSameValue(S, groups, a),
              GroupedByRef(S), S)

HasContractValue(c) == c.contracted > 0 \/ c.registered > 0

\* The contracts of acts that each name one private company, the public bodies
\* beside it left aside.
PanelContracts(S) ==
  LET counted == {a \in S : a.value > 0 \/ a.increase > 0}
      ofSupplier(cnpj) == {a \in counted : PrivateCNPJs(a.cnpjs) = {cnpj}}
  IN  {c \in UNION {{PanelContractOf(cnpj, g) : g \in JoinPanelActs(ofSupplier(cnpj))} :
                      cnpj \in UNION {PrivateCNPJs(a.cnpjs) : a \in counted}} :
         HasContractValue(c) \/ c.amendments # {}}

AmendedIn(c, year) ==
  SumOf(LAMBDA a : a.cents, {a \in c.amendments : year \in {EveryYear, Year(a.day)}})

MatchesYear(c, year) == year \in {EveryYear, Year(c.day)}
MatchesOrgan(c, organ) == organ = EveryOrgan \/ PrincipalOrgan(organ) \in c.organs
Counted(c, year) == MatchesYear(c, year) /\ HasContractValue(c)

TotalOf(contracts, year) ==
  LET counted == {c \in contracts : Counted(c, year)}
  IN  [contracts |-> Cardinality(counted),
       contracted |-> SumOf(LAMBDA c : c.contracted, counted),
       registered |-> SumOf(LAMBDA c : c.registered, counted),
       amended |-> SumOf(LAMBDA c : AmendedIn(c, year), contracts)]

\* Mutant: a contract of an earlier year is not shown for its amendments.
ShownOnlyCounted(contracts, year, organ) ==
  {c \in contracts : MatchesOrgan(c, organ) /\ Counted(c, year)}

Shown(contracts, year, organ) ==
  {c \in contracts : MatchesOrgan(c, organ) /\ (Counted(c, year) \/ AmendedIn(c, year) # 0)}

\* A row: its first contract opens it, the counted ones extend it.
RowOf(cnpj, contracts, year) ==
  LET counted == {c \in contracts : Counted(c, year)}
      reached == counted \cup {Earliest(contracts)}
  IN  [cnpj |-> cnpj, total |-> TotalOf(contracts, year),
       first |-> Least({c.day : c \in reached}), last |-> Greatest({c.last : c \in reached}),
       organs |-> UNION {c.organs : c \in counted}]

RowBefore(r, s) ==
  LET key(x) == <<-x.total.contracted, -x.total.registered, -x.total.amended, x.cnpj>>
  IN  \E i \in 1 .. 4 : key(r)[i] < key(s)[i] /\ \A j \in 1 .. i - 1 : key(r)[j] = key(s)[j]

RowsOf(contracts, year) ==
  {RowOf(cnpj, {c \in contracts : c.cnpj = cnpj}, year) : cnpj \in {c.cnpj : c \in contracts}}

\* The line of a year, whatever the filter's year; that of an organ, whatever
\* the filter's organ.
YearLine(contracts, organ, year) ==
  LET ofOrgan == {c \in contracts : MatchesOrgan(c, organ)}
  IN  TotalOf(ofOrgan, year)
OrganLine(contracts, organ, year) == TotalOf({c \in contracts : organ \in c.organs}, year)

PaidBy(source) == {p \in paid : ~PublicBody(p.cnpj) /\ p.chamber = (source = "camara")}
CentsOf(S) == SumOf(LAMBDA p : p.cents, S)
PaidIn(source, year) == CentsOf({p \in PaidBy(source) : year \in {EveryYear, p.year}})
PaidTo(source, cnpj, year) == CentsOf({p \in PaidBy(source) : p.cnpj = cnpj /\ year \in {EveryYear, p.year}})

BuildSupplierPanel(source, year, organ) ==
  LET contracts == PanelContracts(ActsOfSource(source))
      shown == Shown(contracts, year, organ)
      rows == RowsOf(shown, year)
  IN  [total |-> TotalOf(shown, year), suppliers |-> Cardinality(rows),
       rows |-> {r \in rows : Cardinality({s \in rows : RowBefore(s, r)}) < SupplierPanelLimit},
       paid |-> PaidIn(source, year),
       rowsPaid |-> SumOf(LAMBDA r : PaidTo(source, r.cnpj, year), rows),
       years |-> [y \in {Year(a.day) : a \in acts} |-> YearLine(contracts, organ, y)],
       organs |-> [o \in UNION {c.organs : c \in contracts} |-> OrganLine(contracts, o, year)],
       paidYears |-> [y \in {p.year : p \in paid} |-> PaidIn(source, y)]]

-----------------------------------------------------------------------------
Years == {Year(a.day) : a \in acts}
Amounts(total) == <<total.contracts, total.contracted, total.registered, total.amended>>
SumRows(rows) ==
  [contracts |-> SumOf(LAMBDA r : r.total.contracts, rows),
   contracted |-> SumOf(LAMBDA r : r.total.contracted, rows),
   registered |-> SumOf(LAMBDA r : r.total.registered, rows),
   amended |-> SumOf(LAMBDA r : r.total.amended, rows)]

\* The line of a year, or of an organ, is what the panel filtered by it totals;
\* the years add up to the whole; the rows, unless cut, add up to the totals, each
\* payment to a supplier in the row of that one; and no row left out is above one
\* shown.
PanelAddsUp ==
  LET whole == BuildSupplierPanel("prefeitura", EveryYear, EveryOrgan)
      every == RowsOf(Shown(PanelContracts(ActsOfSource("prefeitura")), EveryYear, EveryOrgan), EveryYear)
      added == [field \in DOMAIN whole.total |-> SumOf(LAMBDA y : whole.years[y][field], Years)]
  IN  /\ Amounts(added) = Amounts(whole.total)
      /\ \A y \in Years : BuildSupplierPanel("prefeitura", y, EveryOrgan).total = whole.years[y]
      /\ \A o \in DOMAIN whole.organs :
           LET ofOrgan == BuildSupplierPanel("prefeitura", EveryYear, o)
           IN  /\ ofOrgan.total = whole.organs[o]
               /\ \A y \in Years :
                    BuildSupplierPanel("prefeitura", y, o).total = ofOrgan.years[y]
      /\ IF whole.suppliers <= SupplierPanelLimit
         THEN /\ SumRows(whole.rows) = whole.total
              /\ whole.rowsPaid =
                   CentsOf({p \in PaidBy("prefeitura") : p.cnpj \in {r.cnpj : r \in whole.rows}})
         ELSE /\ Cardinality(whole.rows) = SupplierPanelLimit
              /\ SumRows(whole.rows).contracted <= whole.total.contracted
              /\ \A r \in whole.rows, s \in every \ whole.rows : RowBefore(r, s)

\* A supplier's value in the panel is the value of different contracts: no act
\* in two of them, none with a number another has.
PanelContractsAreDifferent ==
  \A c, d \in PanelContracts(ActsOfSource("prefeitura")) : c.cnpj = d.cnpj /\ c # d =>
    /\ c.acts \cap d.acts = {}
    /\ (UNION {a.refs : a \in c.acts}) \cap (UNION {a.refs : a \in d.acts}) = {}
    /\ \A a \in c.acts, b \in d.acts :
         ~(a.refs = {} /\ b.refs = {} /\ a.value = b.value /\ Year(a.day) = Year(b.day))

\* b publishes again, in the same year and up to 90 days later, what a said; an
\* amendment, if a is the one that counts.
RepublishedFrom(a, b) ==
  /\ a # b /\ Before(a, b) /\ Year(a.day) = Year(b.day)
  /\ b.day - a.day <= AmendmentRepublicationDays
  /\ [b EXCEPT !.id = a.id, !.day = a.day] = a
  /\ PanelValueRoleOf(a) = "amended" =>
       \E c \in PanelContracts(acts) : \E m \in c.amendments : m.id = a.id

\* Publishing again what the panel counts changes no total of it.
RepublishingPanelNothing ==
  \A a \in acts, b \in acts' \ acts :
    RepublishedFrom(a, b) =>
      TotalOf(PanelContracts(ActsOfSource("prefeitura")), EveryYear)'
        = TotalOf(PanelContracts(ActsOfSource("prefeitura")), EveryYear)
=============================================================================
