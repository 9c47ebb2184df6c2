------------------------------ MODULE Spending ------------------------------
(***************************************************************************)
(* The queries of what the town commits and pays and of its procurements:   *)
(* reports of several statements, of no one transaction, over tables that   *)
(* the loads replace.  A row of the base is a commitment, [is, year,        *)
(* entity, id, day, cnpj, words, process, committed, liquidated, paid], its *)
(* process [spelled, key], key "" when the spelling is not a number and a   *)
(* year; or it is of the mural, [is, id, list, opens, words, organ, key,    *)
(* year, cents], a "tender", its opens 0 when it has no day, or a           *)
(* "contract", id its position and list its tender's.                      *)
(***************************************************************************)
EXTENDS Integers, SequencesExt

CONSTANTS
  YearLoads,   \* [year, rows]: commitments a load may read
  Murals,      \* sets of tenders and contracts a load may read
  Totals,      \* [year, period, paid]: what the town told the Treasury
  PageSize,    \* commitments, tenders or contracts of a page
  TopSuppliers \* suppliers of a report

VARIABLES
  base,    \* the rows of the three tables
  reports  \* the report that is being read, or was last

Init == base = {} /\ reports = {}

commitments == {r \in base : r.is = "commitment"}
mural == base \ commitments

\* A report that was told before a load is done with; one under way goes on.
Disturbing(kinds) ==
  {[r EXCEPT !.disturbed = @ \/ r.of \in kinds] : r \in {s \in reports : s.at # "told"}}

\* The transaction that deletes a year and copies it again.
ReplaceMunicipalYear(load) ==
  /\ base' = (base \ {c \in commitments : c.year = load.year}) \cup load.rows
  /\ base' # base
  /\ reports' = Disturbing({"payments", "procurements"})

\* The transaction that deletes the mural and copies it again.
ReplaceMural(rows) ==
  /\ base' = commitments \cup rows
  /\ base' # base
  /\ reports' = Disturbing({"procurements"})

-----------------------------------------------------------------------------
\* What is not said.
Unsaid == ""

\* A query says nothing of what is 0 or "".
Anything == [cnpj |-> 0, entity |-> 0, text |-> Unsaid, key |-> Unsaid, organ |-> Unsaid, from |-> 0, to |-> 0]
OnlyYears(q) == [Anything EXCEPT !.from = q.from, !.to = q.to] = q
InYears(year, q) == (q.from # 0 => q.from <= year) /\ (q.to # 0 => year <= q.to)

\* Mutant: only the processes spelled as their key.
OnlyTheKey(key) == {key}

ProcessSpellings(key) == {p.spelled : p \in {c.process : c \in {d \in commitments : d.process.key = key}}}

\* The commitments a query asks for, once the spellings of its process were read.
Paid(q, spellings) ==
  {c \in commitments :
     /\ q.cnpj # 0 => c.cnpj = q.cnpj
     /\ q.entity # 0 => c.entity = q.entity
     /\ q.text # Unsaid => q.text \in c.words
     /\ InYears(c.year, q)
     /\ q.key # Unsaid => c.process.spelled \in spellings}

SpendingSums(S) ==
  [commitments |-> Cardinality(S),
   committed |-> FoldSet(LAMBDA c, sum : c.committed + sum, 0, S),
   liquidated |-> FoldSet(LAMBDA c, sum : c.liquidated + sum, 0, S),
   paid |-> FoldSet(LAMBDA c, sum : c.paid + sum, 0, S)]

PaymentYears(S) == [y \in {c.year : c \in S} |-> SpendingSums({c \in S : c.year = y})]
PaymentEntities(S) == [e \in {c.entity : c \in S} |-> SpendingSums({c \in S : c.entity = e})]
PaymentSuppliers(S) == [s \in {c.cnpj : c \in S} |-> SpendingSums({c \in S : c.cnpj = s})]

\* ORDER BY the sum paid, then the CNPJ, LIMIT TopSuppliers.
TopOf(groups) ==
  LET sorted == SetToSortSeq(DOMAIN groups, LAMBDA a, b :
                  groups[a].paid > groups[b].paid \/ (groups[a].paid = groups[b].paid /\ a < b))
  IN  SubSeq(sorted, 1, IF Len(sorted) < TopSuppliers THEN Len(sorted) ELSE TopSuppliers)

\* The pages a LIMIT and OFFSET may give: where Before leaves a tie, any order.
PagesOf(S, Before(_, _), offset) ==
  {SubSeq(s, offset + 1, IF offset + PageSize < Len(s) THEN offset + PageSize ELSE Len(s)) :
     s \in {r \in SetToSeqs(S) : \A i \in DOMAIN r : \A j \in 1 .. i - 1 : ~Before(r[i], r[j])}}

\* Mutant: no last column that tells two commitments apart.
ByDayAndEntity(c, d) ==
  c.day > d.day \/ (c.day = d.day /\ (c.year > d.year \/ (c.year = d.year /\ c.entity < d.entity)))

CommitmentBefore(c, d) ==
  \/ c.day > d.day
  \/ c.day = d.day /\ c.year > d.year
  \/ c.day = d.day /\ c.year = d.year /\ c.entity < d.entity
  \/ c.day = d.day /\ c.year = d.year /\ c.entity = d.entity /\ c.id > d.id

\* What the town told of a year that is over, beside the line of that year.
LastRREOPeriod == 6
WithFiscalControl(years) ==
  {<<t.year, t.paid>> : t \in {u \in Totals : u.period = LastRREOPeriod /\ u.year \in DOMAIN years}}

-----------------------------------------------------------------------------
CommitmentProcessKeys(cnpj) == {c.process.key : c \in {d \in commitments : d.cnpj = cnpj}} \ {Unsaid}

\* What the mural has for a query, once the processes of its supplier were read.
Found(is, q, keys) ==
  {p \in mural :
     /\ p.is = is
     /\ q.cnpj # 0 => p.key \in keys
     /\ q.key # Unsaid => p.key = q.key
     /\ q.text # Unsaid => q.text \in p.words
     /\ q.organ # Unsaid => p.organ = q.organ
     /\ q.from # 0 \/ q.to # 0 => p.year # 0 /\ InYears(p.year, q)}

MuralSums(S) == [count |-> Cardinality(S), cents |-> FoldSet(LAMBDA p, sum : p.cents + sum, 0, S)]

\* ORDER BY opens_at DESC NULLS LAST, id DESC: two lists may use the same id.
TenderBefore(p, r) == p.opens > r.opens \/ (p.opens = r.opens /\ p.id > r.id)
ContractBefore(p, r) == p.list > r.list \/ (p.list = r.list /\ p.id < r.id)

-----------------------------------------------------------------------------
\* A report as it is asked for; at says what its next statement reads.
Asked(of, q, offset, at) ==
  [of |-> of, q |-> q, offset |-> offset, at |-> at, disturbed |-> FALSE, keys |-> {},
   totals |-> SpendingSums({}), years |-> <<>>, entities |-> <<>>, suppliers |-> <<>>, page |-> <<>>, control |-> {},
   tenders |-> 0, contracts |-> MuralSums({}), contractPage |-> <<>>]

AskPayments(q, offset) == Asked("payments", q, offset, IF q.key # Unsaid THEN "spellings" ELSE "totals")
AskProcurements(q, offset) == Asked("procurements", q, offset, IF q.cnpj # 0 THEN "keys" ELSE "tenders")

\* QueryPayments: the report after each statement.
PaymentStatements(r) ==
  LET S == Paid(r.q, r.keys) IN
  CASE r.at = "spellings" -> {[r EXCEPT !.keys = ProcessSpellings(r.q.key), !.at = "totals"]}
    [] r.at = "totals" ->
         {[r EXCEPT !.totals = SpendingSums(S), !.at = IF SpendingSums(S).commitments = 0 THEN "told" ELSE "years"]}
    [] r.at = "years" -> {[r EXCEPT !.years = PaymentYears(S), !.at = "entities"]}
    [] r.at = "entities" -> {[r EXCEPT !.entities = PaymentEntities(S), !.at = "suppliers"]}
    [] r.at = "suppliers" -> {[r EXCEPT !.suppliers = TopOf(PaymentSuppliers(S)), !.at = "page"]}
    [] r.at = "page" ->
         {[r EXCEPT !.page = page, !.at = IF OnlyYears(r.q) THEN "control" ELSE "told"] :
            page \in PagesOf(S, CommitmentBefore, r.offset)}
    [] r.at = "control" -> {[r EXCEPT !.control = WithFiscalControl(r.years), !.at = "told"]}

\* QueryProcurements, but for what it reads of the PNCP.
ProcurementStatements(r) ==
  LET tenders == Found("tender", r.q, r.keys)
      contracts == Found("contract", r.q, r.keys)
  IN
  CASE r.at = "keys" ->
         LET keys == CommitmentProcessKeys(r.q.cnpj)
         IN  {[r EXCEPT !.keys = keys, !.at = IF keys = {} THEN "told" ELSE "tenders"]}
    [] r.at = "tenders" -> {[r EXCEPT !.tenders = Cardinality(tenders), !.at = "page"]}
    [] r.at = "page" ->
         {[r EXCEPT !.page = page, !.at = "contracts"] : page \in PagesOf(tenders, TenderBefore, r.offset)}
    [] r.at = "contracts" -> {[r EXCEPT !.contracts = MuralSums(contracts), !.at = "contract page"]}
    [] r.at = "contract page" ->
         {[r EXCEPT !.contractPage = page, !.at = "told"] : page \in PagesOf(contracts, ContractBefore, r.offset)}

Years == {c.year : c \in commitments}
PaymentQueries ==
  {[Anything EXCEPT !.from = y[1], !.to = y[2]] :
     y \in {z \in ({0} \cup Years) \X ({0} \cup Years) : z # <<0, 0>> /\ (z[1] = 0 \/ z[2] = 0 \/ z[1] <= z[2])}}
  \cup {[Anything EXCEPT !.cnpj = c.cnpj] : c \in commitments}
  \cup {[Anything EXCEPT !.key = c.process.key] : c \in {d \in commitments : d.process.key # Unsaid}}
  \cup {[Anything EXCEPT !.text = w, !.entity = e] : w \in UNION {c.words : c \in commitments}, e \in {c.entity : c \in commitments}}

ProcurementQueries ==
  {[Anything EXCEPT !.cnpj = c.cnpj] : c \in commitments}
  \cup {[Anything EXCEPT !.organ = p.organ, !.from = p.year] : p \in mural}

\* One report at a time; an offset is of one of the first pages.
Ask ==
  /\ \A r \in reports : r.at = "told"
  /\ \E offset \in {0, PageSize} :
       \/ \E q \in PaymentQueries : reports' = {AskPayments(q, offset)}
       \/ \E q \in ProcurementQueries : reports' = {AskProcurements(q, offset)}
  /\ UNCHANGED base

Read ==
  /\ \E r \in reports :
       /\ r.at # "told"
       /\ \E s \in (IF r.of = "payments" THEN PaymentStatements(r) ELSE ProcurementStatements(r)) : reports' = {s}
  /\ UNCHANGED base

Next ==
  \/ \E load \in YearLoads : ReplaceMunicipalYear(load)
  \/ \E rows \in Murals : ReplaceMural(rows)
  \/ Ask
  \/ Read

-----------------------------------------------------------------------------
AddedUp(groups) ==
  [f \in {"commitments", "committed", "liquidated", "paid"} |-> FoldSet(LAMBDA g, sum : groups[g][f] + sum, 0, DOMAIN groups)]

\* A report told of one state of the base: no load replaced what it reads while it
\* was read.  One that a load disturbed may not add up: its statements are of no
\* one transaction.
Told(of) == {r \in reports : r.of = of /\ r.at = "told" /\ ~r.disturbed}

\* The rows of the page that begins after offset rows of n.
OnPage(n, offset) == IF n <= offset THEN 0 ELSE IF n - offset < PageSize THEN n - offset ELSE PageSize

\* The years and the entities of a report add up to its totals, the suppliers it
\* lists were paid at least what any other was, its page is as long as the totals
\* say, and the pages of reports with no load between have every commitment once
\* (they are looked at where no report is open: they are of the base alone).
PaymentsAddUp ==
  /\ \A r \in Told("payments") :
       LET suppliers == PaymentSuppliers(Paid(r.q, r.keys))
       IN  /\ AddedUp(r.years) = r.totals /\ AddedUp(r.entities) = r.totals
           /\ \A s \in DOMAIN suppliers \ ToSet(r.suppliers) : \A t \in ToSet(r.suppliers) :
                suppliers[s].paid <= suppliers[t].paid
           /\ Len(r.page) = OnPage(r.totals.commitments, r.offset)
  /\ reports = {} => \A q \in PaymentQueries :
       LET S == Paid(q, ProcessSpellings(q.key))
           page(k) == PagesOf(S, CommitmentBefore, k * PageSize)
       IN  \A one \in page(0) : \A two \in page(1) : \A three \in page(2) :
             ToSet(one \o two \o three) = S /\ Len(one \o two \o three) = Cardinality(S)

\* A process is found however its number is spelled, with every commitment of it;
\* and whatever is loaded between two statements, no commitment of another process
\* is listed as of it.
ProcessHasAllItsCommitments ==
  \A r \in {s \in reports : s.of = "payments" /\ s.q.key # Unsaid} :
    /\ r \in Told("payments") /\ r.q = [Anything EXCEPT !.key = r.q.key] =>
         r.totals = SpendingSums({d \in commitments : d.process.key = r.q.key})
    /\ \A i \in DOMAIN r.page : r.page[i].process.key = r.q.key

\* The sum the town told the Treasury only stands beside all that it paid in the year.
ControlIsOfTheWholeYear ==
  \A r \in Told("payments") : \A control \in r.control :
    r.years[control[1]] = SpendingSums({c \in commitments : c.year = control[1]})

\* A tender or contract found for a supplier is of a process its payments have;
\* what is listed is as much as is counted; and the pages of reports with no load
\* between have each once, unless the mural gave two tenders the same day and number.
ProcurementsAreOfThePaid ==
  /\ \A r \in Told("procurements") :
       /\ r.q.cnpj # 0 => \A p \in ToSet(r.page) \cup ToSet(r.contractPage) :
            \E c \in commitments : c.cnpj = r.q.cnpj /\ c.process.key = p.key
       /\ Len(r.page) = OnPage(r.tenders, r.offset)
       /\ Len(r.contractPage) = OnPage(r.contracts.count, r.offset)
  /\ reports = {} => \A q \in ProcurementQueries :
       LET found(is) == Found(is, q, CommitmentProcessKeys(q.cnpj))
           tenders(k) == PagesOf(found("tender"), TenderBefore, k * PageSize)
           contracts(k) == PagesOf(found("contract"), ContractBefore, k * PageSize)
       IN  /\ (\A p, r \in found("tender") : <<p.opens, p.id>> = <<r.opens, r.id>> => p = r) =>
                \A one \in tenders(0) : \A two \in tenders(1) : ToSet(one \o two) = found("tender")
           /\ \A one \in contracts(0) : \A two \in contracts(1) :
                ToSet(one \o two) = found("contract") /\ IsInjective(one \o two)
=============================================================================
