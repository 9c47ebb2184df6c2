-------------------------- MODULE RenewedEmergency --------------------------
(***************************************************************************)
(* The pattern "emergency contract of the same company, one after another":*)
(* who the company of an act is, which acts are one contract, and which    *)
(* contracts follow each other.  An act is [id, day, cnpjs, name, parties, *)
(* refs, organ, type, basis, source]: the name and the parties are what the *)
(* extraction reads of its text, the refs its processes and contracts.     *)
(***************************************************************************)
EXTENDS DomainActs

CONSTANT Emergencies  \* the acts the editions bring, in whatever order

VARIABLE acts

Init == acts = {}
Publish(a) == a \notin acts /\ acts' = acts \cup {a}
Next == \E a \in Emergencies : Publish(a)

EmergencyActs ==
  {a \in acts : /\ a.basis \cap {"art. 24, IV", "art. 75, VIII"} # {}
                /\ a.type \in {"dispensa", "contrato", "outro", "licitacao"}
                /\ a.source = "prefeitura"}

\* The CNPJs a name was read beside.
AliasCandidates(name) ==
  {p.cnpj : p \in {q \in UNION {a.parties : a \in EmergencyActs} : q.name = name /\ ~PublicBody(q.cnpj)}}
  \cup UNION {PrivateCNPJs(a.cnpjs) :
                a \in {b \in EmergencyActs : b.name = name /\ Cardinality(PrivateCNPJs(b.cnpjs)) = 1}}

Nobody == <<"", "">>

\* A name stands for a CNPJ only if it was read beside no other.
EmergencySupplierOf(a) ==
  LET private == PrivateCNPJs(a.cnpjs)
      alias == AliasCandidates(a.name)
  IN  CASE Cardinality(private) = 1 -> <<"cnpj", Least(private)>>
        [] Cardinality(private) # 1 /\ (private # {} \/ a.name = "") -> Nobody
        [] private = {} /\ a.name # "" /\ Cardinality(alias) = 1 -> <<"cnpj", Least(alias)>>
        [] private = {} /\ a.name # "" /\ Cardinality(alias) # 1 -> <<"nome", a.name>>

EmergencyRefOrgans(ref) == {PrincipalOrgan(a.organ) : a \in {b \in EmergencyActs : ref \in b.refs}} \ {""}

\* A number is the number of one organ; an act that names no organ is of the
\* only organ that uses it.
ScopedRefs(a) ==
  IF PrincipalOrgan(a.organ) # "" THEN {PrincipalOrgan(a.organ)} \X a.refs
  ELSE UNION {EmergencyRefOrgans(r) \X {r} : r \in {s \in a.refs : Cardinality(EmergencyRefOrgans(s)) = 1}}

ContractOf(members) ==
  LET named == {a \in members : PrincipalOrgan(a.organ) # ""}
  IN  [id |-> Earliest(members).id, day |-> Earliest(members).day, acts |-> members,
       suppliers |-> {EmergencySupplierOf(a) : a \in members} \ {Nobody},
       organ |-> IF named = {} THEN "" ELSE PrincipalOrgan(Earliest(named).organ)]

JoinByRef(r, a) == JoinFirst(r, a, ScopedRefs(a))
GroupedByRef(S) == ReadInOrder(JoinByRef, Apart(S), S).groups

EmergencyContracts ==
  {c \in {ContractOf(g) : g \in GroupedByRef(EmergencyActs)} :
     Cardinality(c.suppliers) = 1 /\ c.organ # ""}

MinEmergencyRenewalGap == 30
MaxEmergencyRenewalGap == 730

\* The next contract of a supplier and organ: of the same emergency (left out),
\* a renewal, or the start of another run.
Follow(r, c) ==
  LET gap == c.day - r.run[Len(r.run)].day
  IN  IF r.run = <<>> THEN [r EXCEPT !.run = <<c>>]
      ELSE IF gap < MinEmergencyRenewalGap THEN r
      ELSE IF gap > MaxEmergencyRenewalGap THEN [runs |-> r.runs \cup {r.run}, run |-> <<c>>]
      ELSE [r EXCEPT !.run = Append(@, c)]

RenewalsOf(contracts) ==
  LET r == ReadInOrder(Follow, [runs |-> {}, run |-> <<>>], contracts)
  IN  {run \in r.runs \cup {r.run} : Len(run) >= 2}

FindRenewedEmergencies ==
  UNION {RenewalsOf({d \in EmergencyContracts : d.suppliers = c.suppliers /\ d.organ = c.organ}) :
           c \in EmergencyContracts}

-----------------------------------------------------------------------------
ActsOf(run) == UNION {run[i].acts : i \in DOMAIN run}

\* Each contract of a finding starts 30 to 730 days after the one before, all
\* are of one organ and of the one company their acts name, no act counts twice
\* and two findings of the same company and organ are further apart.
RenewalsAreSuccessive ==
  \A r \in FindRenewedEmergencies :
    /\ \A i \in 1 .. Len(r) - 1 :
         r[i + 1].day - r[i].day \in MinEmergencyRenewalGap .. MaxEmergencyRenewalGap
    /\ \A i, j \in DOMAIN r : i # j => r[i].acts \cap r[j].acts = {}
    /\ \A a, b \in ActsOf(r) :
         Cardinality(PrivateCNPJs(a.cnpjs)) = 1 /\ Cardinality(PrivateCNPJs(b.cnpjs)) = 1
           => PrivateCNPJs(a.cnpjs) = PrivateCNPJs(b.cnpjs)
    /\ \A s \in FindRenewedEmergencies : s # r =>
         /\ ActsOf(s) \cap ActsOf(r) = {}
         /\ s[1].suppliers = r[1].suppliers /\ s[1].organ = r[1].organ =>
              \/ r[1].day - s[Len(s)].day > MaxEmergencyRenewalGap
              \/ s[1].day - r[Len(r)].day > MaxEmergencyRenewalGap

\* A name two CNPJs were read beside accuses neither of them.
AmbiguousNamesAccuseNobody ==
  \A r \in FindRenewedEmergencies : \A a \in ActsOf(r) :
    PrivateCNPJs(a.cnpjs) = {} /\ a.name # "" /\ Cardinality(AliasCandidates(a.name)) > 1
      => r[1].suppliers = {<<"nome", a.name>>}

\* What b says that a has said: the same contract published again.
RepublishedFrom(a, b) ==
  /\ a # b /\ Before(a, b) /\ a.refs # {} /\ a.organ # ""
  /\ [b EXCEPT !.id = a.id, !.day = a.day] = a

Renewals == {[i \in DOMAIN r |-> <<r[i].day, r[i].suppliers>>] : r \in FindRenewedEmergencies}

\* Publishing a contract again makes no renewal.
RepublishingRenewsNothing ==
  \A a \in acts, b \in acts' \ acts : RepublishedFrom(a, b) => Renewals' = Renewals
=============================================================================
