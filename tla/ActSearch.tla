------------------------------ MODULE ActSearch ------------------------------
(***************************************************************************)
(* The queries over the acts: search and its pages, groups, months, organs, *)
(* export and feed.  An act is [id, gazette, url, position, type, organ,    *)
(* modality, main, day, source, keys, values, list, theme, says, exact,     *)
(* rank]: url its edition's place in the order of the addresses, list       *)
(* whether it is a list of names, says the texts it matches and exact those *)
(* it has word for word.                                                    *)
(***************************************************************************)
EXTENDS Integers, FiniteSets, FiniteSetsExt

CONSTANTS
  Acts,          \* that may be indexed
  OrganVariants, \* acronym an organ once used |-> acronym it has now
  PublicCNPJs,   \* CNPJs the groups leave out, unless asked
  AlphabetOrder, \* acronym or type |-> its place in the alphabet
  DefaultLimit, MaxLimit, GroupLimit, ExportLimit, FeedLimit, GroupExamples

VARIABLE acts

Init == acts = {}
IndexAct(a) == a \notin acts /\ acts' = acts \cup {a}
Next == \E a \in Acts : IndexAct(a)

-----------------------------------------------------------------------------
\* What is not said.
Unsaid == ""

PrincipalOrgan(acronym) == IF acronym \in DOMAIN OrganVariants THEN OrganVariants[acronym] ELSE acronym

\* Mutant: the variants of an acronym are not looked for.
OnlyThePrincipal(principal) == {principal}

OrganAcronyms(principal) == {principal} \cup {v \in DOMAIN OrganVariants : OrganVariants[v] = principal}

\* A filter says nothing of what is 0 or "".
NoEntity == [kind |-> Unsaid, key |-> 0]
Everything ==
  [text |-> Unsaid, name |-> Unsaid, source |-> Unsaid, type |-> Unsaid, organ |-> Unsaid, modality |-> Unsaid, theme |-> FALSE, gazette |-> 0,
   from |-> 0, to |-> 0, min |-> 0, max |-> 0, mainMin |-> 0, mainMax |-> 0, entity |-> NoEntity,
   includeLists |-> FALSE, recent |-> FALSE, limit |-> 0, offset |-> 0]

ValidFilter(f) ==
  /\ f.min >= 0 /\ f.max >= 0 /\ (f.max > 0 => f.min <= f.max)
  /\ f.mainMin >= 0 /\ f.mainMax >= 0 /\ (f.mainMax > 0 => f.mainMin <= f.mainMax)
  /\ f.from # 0 /\ f.to # 0 => f.from <= f.to

Normalize(f) ==
  [f EXCEPT !.limit = IF @ <= 0 THEN DefaultLimit ELSE IF @ > MaxLimit THEN MaxLimit ELSE @,
            !.offset = IF @ < 0 THEN 0 ELSE @,
            !.organ = PrincipalOrgan(@)]

\* A name alone is the text searched; beside a text it is one more condition.
TextQuery(f) == IF f.text = Unsaid THEN f.name ELSE f.text
ExcludesNameLists(f) == f.name # Unsaid /\ ~f.includeLists

WithValue(a, f) == \E v \in a.values : (f.min > 0 => v >= f.min) /\ (f.max > 0 => v <= f.max)

Matched(f) ==
  {a \in acts :
     /\ TextQuery(f) # Unsaid => TextQuery(f) \in a.says
     /\ f.gazette # 0 => a.gazette = f.gazette
     /\ f.source # Unsaid => a.source = f.source
     /\ f.type # Unsaid => a.type = f.type
     /\ f.organ # Unsaid => a.organ \in OrganAcronyms(f.organ)
     /\ f.theme => a.theme
     /\ f.from # 0 => a.day >= f.from
     /\ f.to # 0 => a.day <= f.to
     /\ f.modality # Unsaid => a.modality = f.modality
     /\ f.mainMin > 0 => a.main >= f.mainMin
     /\ f.mainMax > 0 => a.main <= f.mainMax
     /\ f.name # Unsaid /\ f.text # Unsaid => f.name \in a.says
     /\ ExcludesNameLists(f) => ~a.list
     /\ f.entity # NoEntity => f.entity \in a.keys
     /\ f.min > 0 \/ f.max > 0 => WithValue(a, f)}

-----------------------------------------------------------------------------
RecentBefore(a, b) ==
  \/ a.day > b.day
  \/ a.day = b.day /\ a.url > b.url
  \/ a.day = b.day /\ a.url = b.url /\ a.position < b.position

\* Word for word first, then by rank, which only counts where the words are apart.
Score(a, text) == IF text = Unsaid THEN <<0, 0>> ELSE IF text \in a.exact THEN <<1, 0>> ELSE <<0, a.rank>>
RelevantBefore(a, b, text) ==
  LET s == Score(a, text)  t == Score(b, text)
  IN  \/ s[1] > t[1]
      \/ s[1] = t[1] /\ s[2] > t[2]
      \/ s = t /\ a.day > b.day
      \/ s = t /\ a.day = b.day /\ a.position < b.position

\* orderSQL
Before(f, a, b) == IF f.recent THEN RecentBefore(a, b) ELSE RelevantBefore(a, b, TextQuery(f))

\* Acts a LIMIT and OFFSET may give: where the order leaves a tie, any of the tied.
Page(f) ==
  LET S == Matched(f)
  IN  {a \in S : /\ Cardinality({b \in S : Before(f, b, a)}) < f.offset + f.limit
                 /\ Cardinality(S) - Cardinality({b \in S : Before(f, a, b)}) > f.offset}

\* The total comes with the rows; past the last page it is counted apart.
Search(f) ==
  [hits |-> Page(f),
   total |-> IF Page(f) = {} /\ f.offset = 0 THEN 0 ELSE Cardinality(Matched(f))]

Export(f) == Search([Normalize(f) EXCEPT !.limit = ExportLimit, !.offset = 0])
ActFeed(f) == Search([Normalize(f) EXCEPT !.recent = TRUE, !.limit = FeedLimit, !.offset = 0]).hits

\* ActStats: the matched acts by month.
Month(day) == day \div 30
CountByMonth(f) == [m \in {Month(a.day) : a \in Matched(f)} |-> Cardinality({a \in Matched(f) : Month(a.day) = m})]

ListOrgans ==
  [o \in {PrincipalOrgan(a.organ) : a \in {b \in acts : b.organ # Unsaid}} |->
     Cardinality({a \in acts : a.organ # Unsaid /\ PrincipalOrgan(a.organ) = o})]

-----------------------------------------------------------------------------
ExcludedKeys(q) == IF q.by # "cnpj" \/ q.includePublic THEN {} ELSE PublicCNPJs

KeysOf(a, q) ==
  CASE q.by = "orgao" -> {a.organ}
    [] q.by = "tipo" -> {a.type}
    [] OTHER -> {k.key : k \in {e \in a.keys : e.kind = q.by}} \ ExcludedKeys(q)

KeyBefore(q, k, l) == IF q.by \in {"orgao", "tipo"} THEN AlphabetOrder[k] < AlphabetOrder[l] ELSE k < l

ActGroup(q, key) ==
  LET S == {a \in Matched(q.filter) : key \in KeysOf(a, q)}
  IN  [acts |-> Cardinality(S), first |-> Min({a.day : a \in S}), last |-> Max({a.day : a \in S}),
       max |-> Max({0} \cup UNION {a.values : a \in S}),
       examples |-> {a \in S : Cardinality({b \in S : b.day > a.day \/ (b.day = a.day /\ b.id < a.id)}) < GroupExamples}]

GroupActs(q) ==
  LET keys == UNION {KeysOf(a, q) : a \in Matched(q.filter)}
      count(k) == Cardinality({a \in Matched(q.filter) : k \in KeysOf(a, q)})
      ahead(k) == {l \in keys : count(l) > count(k) \/ (count(l) = count(k) /\ KeyBefore(q, l, k))}
  IN  [matched |-> Cardinality(Matched(q.filter)),
       groups |-> [k \in {l \in keys : Cardinality(ahead(l)) < GroupLimit} |-> ActGroup(q, k)]]

-----------------------------------------------------------------------------
\* The filters asked of the acts that are there.
FiltersOf(a) ==
  {[Everything EXCEPT !.type = a.type], [Everything EXCEPT !.organ = a.organ, !.from = a.day],
   [Everything EXCEPT !.gazette = a.gazette], [Everything EXCEPT !.name = "ana", !.to = a.day],
   [Everything EXCEPT !.text = "obra", !.name = "ana", !.includeLists = TRUE],
   [Everything EXCEPT !.text = "obra", !.theme = a.theme, !.modality = a.modality],
   [Everything EXCEPT !.min = 20, !.max = 50, !.source = a.source],
   [Everything EXCEPT !.mainMin = a.main]}
Asked ==
  {Everything} \cup (UNION {FiltersOf(a) : a \in acts})
    \cup {[Everything EXCEPT !.entity = k] : k \in UNION {a.keys : a \in acts}}
Filters ==
  UNION {{Normalize(f), Normalize([f EXCEPT !.recent = TRUE])} : f \in {g \in Asked : ValidFilter(g)}}

Tied(f, a) == \E b \in Matched(f) \ {a} : ~Before(f, a, b) /\ ~Before(f, b, a)

\* A search's pages have every act it counts, each on one page, unless two acts of
\* editions of one day tie for relevance; past the last page the total is the same.
PagesHaveEachActOnce ==
  \A f \in Filters :
    LET at(k) == [f EXCEPT !.limit = 2, !.offset = 2 * k]
        on(a) == {k \in 0 .. 2 : a \in Search(at(k)).hits}
    IN  /\ \A a \in Matched(f) : Cardinality(on(a)) = 1 \/ (on(a) # {} /\ ~f.recent /\ Tied(f, a))
        /\ \A k \in 0 .. 3 : Search(at(k)).total = Cardinality(Matched(f))

\* Following a group to its acts finds as many as it said, of the days it said; a
\* group of an acronym is a part of what its organ has.
GroupsHaveTheirActs ==
  \A f \in {g \in Filters : ~g.recent} : \A by \in {"orgao", "tipo", "cnpj", "processo"} : \A public \in BOOLEAN :
    LET q == [filter |-> f, by |-> by, includePublic |-> public]
        groups == GroupActs(q).groups
        within(k) == IF by = "tipo" THEN [f EXCEPT !.type = k]
                     ELSE IF by = "orgao" THEN [f EXCEPT !.organ = PrincipalOrgan(k)]
                     ELSE [f EXCEPT !.entity = [kind |-> by, key |-> k]]
        free == IF by = "tipo" THEN f.type = Unsaid ELSE IF by = "orgao" THEN f.organ = Unsaid ELSE f.entity = NoEntity
    IN  /\ GroupActs(q).matched = Search(f).total
        /\ \A k \in DOMAIN groups :
             /\ groups[k].examples # {}
             /\ free /\ (by # "orgao" \/ k # Unsaid) =>
                  LET S == Matched(within(k))
                  IN  /\ groups[k].examples \subseteq S
                      /\ IF by = "orgao"
                         THEN groups[k].acts <= Cardinality(S)
                         ELSE /\ groups[k].acts = Cardinality(S)
                              /\ groups[k].first = Min({a.day : a \in S}) /\ groups[k].last = Max({a.day : a \in S})

\* The months add up to the total, the export has what the search has, the list of
\* organs counts what each organ's filter finds, and the feed has nothing older
\* than what it leaves out.
ListingsAgree ==
  /\ \A f \in Filters :
       /\ FoldSet(LAMBDA m, sum : CountByMonth(f)[m] + sum, 0, DOMAIN CountByMonth(f)) = Search(f).total
       /\ Export(f).total = Search(f).total
       /\ \A a \in ActFeed(f) : \A b \in Matched(f) \ ActFeed(f) : a.day >= b.day
  /\ \A o \in DOMAIN ListOrgans : ListOrgans[o] = Search(Normalize([Everything EXCEPT !.organ = o])).total
=============================================================================
