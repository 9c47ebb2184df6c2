----------------------------- MODULE StaffPanel -----------------------------
(***************************************************************************)
(* The people the town pays, month by month, as the TCE publishes them,    *)
(* beside the appointments and dismissals of the Diário; and the months    *)
(* before a municipal election in which the Diário appointed, or dismissed, *)
(* more than it does in that month of other years.  A row is [month, unit, *)
(* situation, group, people, cents]; a load of a year is [year, rows], the *)
(* rows as the TCE lists them.  An act is [id, type, month, source].  Months *)
(* are counted from year 0.                                                *)
(***************************************************************************)
EXTENDS Integers, SequencesExt

CONSTANTS
  HiringActs,  \* the acts that may be published
  ThisMonth,   \* the month the report is read in
  StaffLoads,  \* the years as the TCE may answer them
  CamaraUnits  \* the units whose name says Câmara

VARIABLES acts, staff

Init == acts = {} /\ staff = {}

Publish(a) == a \notin acts /\ acts' = acts \cup {a}

PeopleOf(rows) == FoldSeq(LAMBDA r, sum : r.people + sum, 0, rows)
CentsOf(rows) == FoldSeq(LAMBDA r, sum : r.cents + sum, 0, rows)

\* Mutant: of two rows of a situation, the first.
KeepFirst(rows) ==
  {rows[i] : i \in {j \in DOMAIN rows : \A k \in 1 .. j - 1 :
     <<rows[k].month, rows[k].unit, rows[k].situation>> # <<rows[j].month, rows[j].unit, rows[j].situation>>}}

\* The rows of one month, unit and situation are one, in the group of the first.
MergeStaffRows(rows) ==
  {LET same == SelectSeq(rows, LAMBDA q : <<q.month, q.unit, q.situation>> = <<r.month, r.unit, r.situation>>)
   IN  [same[1] EXCEPT !.people = PeopleOf(same), !.cents = CentsOf(same)] : r \in ToSet(rows)}

\* A year without rows is left as it was.
ReplaceStaffYear(l) ==
  /\ l.rows # <<>>
  /\ staff' = {r \in staff : r.month \div 12 # l.year} \cup MergeStaffRows(l.rows)
  /\ UNCHANGED acts

Next ==
  \/ \E l \in StaffLoads : ReplaceStaffYear(l)
  \/ \E a \in HiringActs : Publish(a) /\ UNCHANGED staff

-----------------------------------------------------------------------------
MunicipalElections == [y \in {2012, 2016, 2020, 2024} |-> IF y = 2020 THEN 12 * y + 10 ELSE 12 * y + 9]
ElectionWindowMonths == 6

\* How many acts of a type the Diário of a source published in a month that is over.
MonthlyActCount(type, source, month) ==
  IF month >= ThisMonth THEN 0
  ELSE Cardinality({a \in acts : a.type = type /\ a.source = source /\ a.month = month})

\* Mutant: the Diário of the Câmara counts too.
OfBothDiarios(type, month) ==
  MonthlyActCount(type, "prefeitura", month) + MonthlyActCount(type, "camara", month)

ActsIn(type, month) == MonthlyActCount(type, "prefeitura", month)

\* The same month of the years without an election that have such acts.
BaselineMonths(type, month) ==
  {k \in {a.month : a \in acts} :
     /\ k % 12 = month % 12 /\ ActsIn(type, k) > 0
     /\ (k \div 12) \notin DOMAIN MunicipalElections}

\* Twice the median of the acts of those months.
TwiceMedian(type, months) ==
  LET sorted == SetToSortSeq(months, LAMBDA j, k : ActsIn(type, j) < ActsIn(type, k) \/ (ActsIn(type, j) = ActsIn(type, k) /\ j < k))
      n == Len(sorted)
  IN  ActsIn(type, sorted[(n + 1) \div 2]) + ActsIn(type, sorted[n \div 2 + 1])

Window(year) == {MunicipalElections[year] - k : k \in 1 .. ElectionWindowMonths}

\* At least once and a half the median.
IsPeak(type, month) ==
  LET baseline == BaselineMonths(type, month)
  IN  baseline # {} /\ ActsIn(type, month) > 0 /\ 4 * ActsIn(type, month) >= 3 * TwiceMedian(type, baseline)

FindElectionPeaks ==
  {p \in {a.type : a \in acts} \X UNION {Window(y) : y \in DOMAIN MunicipalElections} : IsPeak(p[1], p[2])}

-----------------------------------------------------------------------------
StaffRows(unit) == {r \in staff : unit = "" \/ r.unit = unit}
StaffUnits == {r.unit : r \in staff}
StaffDiarioSource(unit) == IF unit \in CamaraUnits THEN "camara" ELSE "prefeitura"

\* Efetivo, Efetivo (com cargo ou função), Comissionado, Contratado, Agente Político,
\* Outros and Inativos; any other group is a number after them, by its name.
StaffGroupOrder == <<1, 2, 3, 4, 5, 6, 7>>

\* The groups there are, in their order; those without a place come last, by name.
StaffGroupsOf(rows) ==
  LET present == {r.group : r \in rows}
  IN  SelectSeq(StaffGroupOrder, LAMBDA g : g \in present) \o SetToSortSeq(present \ ToSet(StaffGroupOrder), <)

SumRows(rows) ==
  FoldSet(LAMBDA r, sum : [people |-> r.people + sum.people, cents |-> r.cents + sum.cents], [people |-> 0, cents |-> 0], rows)

StaffMonth(rows, month, source) ==
  LET ofMonth == {r \in rows : r.month = month}
  IN  [groups |-> [i \in DOMAIN StaffGroupsOf(rows) |-> SumRows({r \in ofMonth : r.group = StaffGroupsOf(rows)[i]})],
       total |-> SumRows(ofMonth),
       appointments |-> MonthlyActCount("nomeacao", source, month),
       dismissals |-> MonthlyActCount("exoneracao", source, month)]

\* The panel of a unit, or of all of them: month by month.
BuildStaffPanel(unit) ==
  [month \in {r.month : r \in StaffRows(unit)} |-> StaffMonth(StaffRows(unit), month, StaffDiarioSource(unit))]

-----------------------------------------------------------------------------
\* One more act in a month is one more reason to call it a peak; one more in a year
\* without an election that already had some only clears peaks, and an act of the
\* Câmara changes none.
ActsCountOneWay ==
  \A a \in acts' \ acts :
    LET ofBaseline == (a.month \div 12) \notin DOMAIN MunicipalElections
    IN  /\ a.source # "prefeitura" \/ a.month >= ThisMonth => FindElectionPeaks' = FindElectionPeaks
        /\ a.source = "prefeitura" /\ ~ofBaseline => FindElectionPeaks \subseteq FindElectionPeaks'
        /\ a.source = "prefeitura" /\ ofBaseline /\ ActsIn(a.type, a.month) > 0 => FindElectionPeaks' \subseteq FindElectionPeaks

AddedUp(S, Of(_)) ==
  FoldSet(LAMBDA x, sum : [people |-> Of(x).people + sum.people, cents |-> Of(x).cents + sum.cents], [people |-> 0, cents |-> 0], S)

\* In every month the groups of a panel add up to its total, the panels of the units
\* to that of the whole, and the years to what the TCE listed in their loads.
StaffAddsUp ==
  LET whole == BuildStaffPanel("")
  IN  /\ \A unit \in {""} \cup StaffUnits : \A month \in DOMAIN BuildStaffPanel(unit) :
           LET m == BuildStaffPanel(unit)[month]
           IN  m.total = AddedUp(DOMAIN m.groups, LAMBDA i : m.groups[i])
      /\ \A month \in DOMAIN whole :
           whole[month].total =
             AddedUp({u \in StaffUnits : month \in DOMAIN BuildStaffPanel(u)}, LAMBDA u : BuildStaffPanel(u)[month].total)
      /\ \A y \in {r.month \div 12 : r \in staff} : \E l \in StaffLoads :
           /\ l.year = y
           /\ LET year == SumRows({r \in staff : r.month \div 12 = y})
              IN  year.people = PeopleOf(l.rows) /\ year.cents = CentsOf(l.rows)

\* The months of a panel have an act of the Diário at most once: what all the months
\* of a unit count is never more than its Diário published.
ActsOfThePanel ==
  \A unit \in {""} \cup StaffUnits :
    LET panel == BuildStaffPanel(unit)
        published == {a \in acts : a.source = StaffDiarioSource(unit)}
    IN  FoldSet(LAMBDA m, sum : panel[m].appointments + panel[m].dismissals + sum, 0, DOMAIN panel) <= Cardinality(published)
=============================================================================
