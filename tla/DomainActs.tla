----------------------------- MODULE DomainActs -----------------------------
(***************************************************************************)
(* What the rules of the domain share: acts read from the base, in the     *)
(* order of their editions, groups of acts, and who is who.  A day is a    *)
(* number of a calendar of 365-day years, a CNPJ a number whose last four  *)
(* digits are the branch, and "" is what the text does not say.            *)
(***************************************************************************)
EXTENDS Integers, Sequences, FiniteSets, Folds, Functions, TLC

CONSTANTS
  PublicBodies,  \* CNPJs of public bodies known one by one
  PublicRoots,   \* bases that are public with all their branches
  OrganVariants  \* acronym an organ once used |-> acronym it has now

Date(year, dayOfYear) == year * 365 + dayOfYear
Year(day) == day \div 365

Base(cnpj) == cnpj \div 10000
PublicBody(cnpj) == cnpj \in PublicBodies \/ Base(cnpj) \in PublicRoots
PrivateCNPJs(cnpjs) == {c \in cnpjs : ~PublicBody(c)}

PrincipalOrgan(acronym) ==
  IF acronym \in DOMAIN OrganVariants THEN OrganVariants[acronym] ELSE acronym

\* The order in which every rule reads acts: by edition, then by identifier.
Before(a, b) == a.day < b.day \/ (a.day = b.day /\ a.id < b.id)
Earliest(S) == CHOOSE a \in S : \A b \in S \ {a} : Before(a, b)
Latest(S) == CHOOSE a \in S : \A b \in S \ {a} : Before(b, a)

\* op(... op(op(base, first), second) ..., last) over acts in that order; the
\* sets of one member have TLC compute what was read so far only once.
ReadInOrder(op(_, _), base, S) ==
  MapThenFoldSet(LAMBDA a, r : CHOOSE v \in {op(q, b) : q \in {r}, b \in {a}} : TRUE,
                 base, LAMBDA a : a, Latest, S)

SumOf(f(_), S) == SumFunction([a \in S |-> f(a)])
Greatest(S) == CHOOSE n \in S : \A k \in S : k <= n
Least(S) == CHOOSE n \in S : \A k \in S : n <= k

\* The union-find of the acts, as the partition its roots stand for.
Alone(S) == {{a} : a \in S}
GroupOf(groups, a) == CHOOSE g \in groups : a \in g
Joined(groups, S) ==
  LET touched == {g \in groups : g \cap S # {}}
  IN  (groups \ touched) \cup {UNION touched}

\* Each act joins the first act read with any of its keys.
JoinFirst(r, a, keys) ==
  [groups |-> Joined(r.groups, {a} \cup {r.first[k] : k \in keys \cap DOMAIN r.first}),
   first |-> [k \in keys \cup DOMAIN r.first |-> IF k \in DOMAIN r.first THEN r.first[k] ELSE a]]

\* Before the first is read.
Apart(S) == [groups |-> Alone(S), first |-> <<>>]

\* The other groups' acts that could be the same contract as an act without a
\* number.
SameValueSameYear(S, groups, a) ==
  {b \in S : /\ b \notin GroupOf(groups, a)
             /\ b.value = a.value
             /\ Year(b.day) = Year(a.day)}

JoinSameValue(S, groups, a) ==
  LET same == SameValueSameYear(S, groups, a)
  IN  IF same = {} THEN groups ELSE Joined(groups, {a, Earliest(same)})
=============================================================================
