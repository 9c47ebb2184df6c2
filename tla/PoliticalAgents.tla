-------------------------- MODULE PoliticalAgents --------------------------
(***************************************************************************)
(* What the prefeito, the secretaries and the councillors are paid.  A row *)
(* of the payroll is [body, month, name, role, office, gross, discount],   *)
(* its month counted from year 0, office what is left of it without the    *)
(* title VEREADOR, discount -1 when it is not told.  A councillor of the   *)
(* Câmara is [legislature, name, parliamentary, party].  Names and offices *)
(* are numbers, in the order of the alphabet without accents.              *)
(***************************************************************************)
EXTENDS Integers, SequencesExt

CONSTANT PayLoads \* the loads of a body: [body, from, to, rows, councillors]

VARIABLES pay, councillors

Init == pay = {} /\ councillors = {}

-----------------------------------------------------------------------------
KeyOf(r) == <<r.body, r.month, r.name, r.role, r.office>>
Untold == -1
AddOptional(a, b) == IF a = Untold THEN b ELSE IF b = Untold THEN a ELSE a + b

GrossOf(rows) == FoldSeq(LAMBDA r, sum : r.gross + sum, 0, rows)
DiscountOf(rows) == FoldSeq(LAMBDA r, sum : AddOptional(r.discount, sum), Untold, rows)

\* The rows of one person, month, role and office are one.
MergeAgentPay(rows) ==
  {LET same == SelectSeq(rows, LAMBDA q : KeyOf(q) = KeyOf(r))
   IN  [r EXCEPT !.gross = GrossOf(same), !.discount = DiscountOf(same)] : r \in ToSet(rows)}

InMonths(p, l) == {r \in p : r.body = l.body /\ l.from <= r.month /\ r.month <= l.to}

\* One transaction: the months of the load are replaced, the councillors updated.
After(p, l) == (p \ InMonths(p, l)) \cup MergeAgentPay(l.rows)

SavePoliticalAgents(l) ==
  /\ pay' = After(pay, l)
  /\ councillors' =
       {c \in councillors : \A d \in l.councillors : <<c.legislature, c.name>> # <<d.legislature, d.name>>} \cup l.councillors
Next == \E l \in PayLoads : SavePoliticalAgents(l)

-----------------------------------------------------------------------------
RoleOrder == <<"prefeito", "vice_prefeito", "secretario", "procurador_geral", "vereador">>
LegislatureOf(month) == ((month \div 12) - 2013) \div 4 + 1

\* Councillors() : by legislature, then by name.
ListedFirst(c, d) == c.legislature < d.legislature \/ (c.legislature = d.legislature /\ c.name < d.name)

Matching(a) == {c \in councillors : c.name = a.name \/ c.parliamentary \in a.offices}
Serving(a) == {c \in Matching(a) : c.legislature = LegislatureOf(a.last)}

\* Mutant: whoever matches first, whatever the legislature.
FirstMatching(a) == {c \in Matching(a) : \A d \in Matching(a) : d = c \/ ListedFirst(c, d)}

\* The last who matches in the legislature of the last month, or the first at all.
CouncillorOf(a) ==
  IF Serving(a) # {} THEN {c \in Serving(a) : \A d \in Serving(a) : d = c \/ ListedFirst(d, c)}
  ELSE {c \in Matching(a) : \A d \in Matching(a) : d = c \/ ListedFirst(c, d)}

AgentOf(rows) ==
  LET r == CHOOSE r \in rows : TRUE
  IN  [body |-> r.body, role |-> r.role, name |-> r.name, months |-> rows,
       offices |-> {q.office : q \in rows}, last |-> Max({q.month : q \in rows})]

WithParty(a) ==
  [agent |-> a, party |-> IF a.role = "vereador" THEN {c.party : c \in CouncillorOf(a)} ELSE {},
   parliamentary |-> IF a.role = "vereador" THEN {c.parliamentary : c \in CouncillorOf(a)} ELSE {}]

RoleIndex(x) == CHOOSE i \in DOMAIN RoleOrder : RoleOrder[i] = x.agent.role
AgentBefore(x, y) ==
  \/ RoleIndex(x) < RoleIndex(y)
  \/ RoleIndex(x) = RoleIndex(y) /\ x.agent.last > y.agent.last
  \/ RoleIndex(x) = RoleIndex(y) /\ x.agent.last = y.agent.last /\ x.agent.name < y.agent.name

BuildPoliticalAgents ==
  LET people == {{q \in pay : <<q.body, q.role, q.name>> = <<r.body, r.role, r.name>>} : r \in pay}
  IN  SetToSortSeq({WithParty(AgentOf(rows)) : rows \in people}, AgentBefore)

\* A search finds a name, a parliamentary name or an office; 0 finds everyone.
Matches(x, query) == query = 0 \/ query \in {x.agent.name} \cup x.parliamentary \cup x.agent.offices

Report(role, query) ==
  SelectSeq(BuildPoliticalAgents, LAMBDA x : (role = "" \/ x.agent.role = role) /\ Matches(x, query))

PayCoverageOf(body) ==
  LET months == {r.month : r \in {q \in pay : q.body = body}}
  IN  IF months = {} THEN {} ELSE Min(months) .. Max(months)

-----------------------------------------------------------------------------
SumOfRows(rows) == FoldSet(LAMBDA r, sum : r.gross + sum, 0, rows)

\* A load puts into its months what the source pays in them, to the cent, however
\* the rows repeat, leaves the other months and the other body alone, and changes
\* nothing the second time.
LoadsReplaceTheirMonths ==
  \A l \in PayLoads :
    LET after == After(pay, l)
    IN  /\ SumOfRows(InMonths(after, l)) = GrossOf(l.rows)
        /\ after \ InMonths(after, l) = pay \ InMonths(pay, l)
        /\ After(after, l) = after
        /\ \A r, s \in after : KeyOf(r) = KeyOf(s) => r = s

\* Every row paid is of exactly one agent of the report, within the months its body
\* covers, and the reports of the roles, put together, are the whole report.
AgentsAddUp ==
  LET all == Report("", 0)
  IN  /\ IsInjective([i \in DOMAIN all |-> <<all[i].agent.body, all[i].agent.role, all[i].agent.name>>])
      /\ FoldSeq(LAMBDA x, sum : SumOfRows(x.agent.months) + sum, 0, all) = SumOfRows(pay)
      /\ \A i \in DOMAIN all : \A r \in all[i].agent.months : r.month \in PayCoverageOf(all[i].agent.body)
      /\ FlattenSeq([i \in DOMAIN RoleOrder |-> Report(RoleOrder[i], 0)]) = all

\* A councillor has the party of the legislature of the last pay, not that of an
\* earlier one, when those found are all found by the name.  Where one is found by the
\* name and another by the office (political_agents.go:307) nothing is said: the design
\* puts the name first, and the code takes the last of the list.
PartyIsOfTheLegislature ==
  \A i \in DOMAIN BuildPoliticalAgents :
    LET x == BuildPoliticalAgents[i]
        own == {c \in councillors : c.name = x.agent.name /\ c.legislature = LegislatureOf(x.agent.last)}
    IN  x.agent.role = "vereador" /\ own # {} /\ (\A c \in Matching(x.agent) : c.name = x.agent.name) =>
          x.party = {c.party : c \in own}
=============================================================================
