-------------------------- MODULE SupplierPatterns --------------------------
(***************************************************************************)
(* The patterns that join what the acts announce with who the companies    *)
(* are (Receita), what was paid (TCE), the sanctions (CGU), the contracts  *)
(* of the PNCP and the names of public agents.  The records of the other   *)
(* sources are fixed in a behaviour, acts and payments come one by one.    *)
(***************************************************************************)
EXTENDS SupplierPanel

CONSTANTS
  Profiles,      \* CNPJ |-> [name, headquarters, opened, capital, nature, address, partners]
  Sanctions,     \* [cnpj, register, reach, starts, ends]
  Licenses,      \* [id, day, cnpj, grant]
  Contracts,     \* those of the PNCP: [id, cnpj, name, process, day, cents]
  AgentNames,    \* names on the payroll of political agents
  Appointments,  \* [name, id]: acts that name a partner in or out of office
  Undated        \* no date

Known(cnpj) == cnpj \in DOMAIN Profiles

SupplierContracts(S) == {c \in PanelContracts(S) : HasContractValue(c)}
Announced == SupplierContracts(ActsOfSource("prefeitura"))
ContractsOf(cnpj) == {c \in Announced : c.cnpj = cnpj}
SuppliersAnnounced == {c.cnpj : c \in Announced}

\* Contracts in the order of the listing: by first act, then by largest act.
ListedBefore(c, d) == c.day < d.day \/ (c.day = d.day /\ c.largest < d.largest)
FirstListed(S) == CHOOSE c \in S : \A d \in S \ {c} : ListedBefore(c, d)

NewCompanyDays == 180
FindNewCompanyContracts ==
  {c \in {FirstListed(ContractsOf(cnpj)) : cnpj \in SuppliersAnnounced} :
     /\ Known(c.cnpj) /\ Profiles[c.cnpj].headquarters /\ Profiles[c.cnpj].opened # Undated
     /\ c.day - Profiles[c.cnpj].opened \in 0 .. NewCompanyDays - 1}

MinUndercapitalizedCents == 10000000
CapitalShare == 10  \* a tenth: 1000 of 10000 basis points
FindUndercapitalizedContracts ==
  {c \in {FirstListed({d \in ContractsOf(cnpj) : \A e \in ContractsOf(cnpj) : e.contracted <= d.contracted}) :
            cnpj \in SuppliersAnnounced} :
     /\ Known(c.cnpj) /\ Profiles[c.cnpj].capital > 0 /\ Profiles[c.cnpj].nature = "company"
     /\ c.contracted >= MinUndercapitalizedCents
     /\ Profiles[c.cnpj].capital * CapitalShare < c.contracted}

\* Mutant: a branch with contracts of its own is a company of the group.
EveryBranch(cnpjs) == cnpjs

\* One CNPJ of each company, the lowest.
OneOfEachBase(cnpjs) == {c \in cnpjs : \A d \in cnpjs : Base(d) = Base(c) => c <= d}

\* The companies with contracts that share a key, two at least.
SharedGroups(keysOf(_)) ==
  LET known == {c \in SuppliersAnnounced : Known(c)}
      members(k) == OneOfEachBase({c \in known : k \in keysOf(Profiles[c])})
  IN  {g \in {[key |-> k, suppliers |-> members(k)] : k \in UNION {keysOf(Profiles[c]) : c \in known}} :
         Cardinality(g.suppliers) >= 2}

NamedPartners(profile) == {k \in profile.partners : k.name # ""}
AddressKeys(profile) == {profile.address} \ {""}

\* Groups of the same companies are one, with all the partners they share.
FindSharedPartners ==
  LET groups == SharedGroups(NamedPartners)
  IN  {[suppliers |-> g.suppliers, partners |-> {h.key : h \in {i \in groups : i.suppliers = g.suppliers}}] : g \in groups}

FindSharedAddresses == SharedGroups(AddressKeys)

\* CEPIM is of agreements; "everywhere" covers inidoneidade and the sanctions
\* for all spheres.
ReachesSaoGoncalo(s) == s.register # "CEPIM" /\ s.reach \in {"everywhere", "sao goncalo"}
CoversDay(s, day) == (s.starts = Undated \/ s.starts <= day) /\ (s.ends = Undated \/ day <= s.ends)

FindSanctionedContracts ==
  {f \in {[contract |-> c,
           sanctions |-> {s \in Sanctions : ReachesSaoGoncalo(s) /\ Base(s.cnpj) = Base(c.cnpj) /\ CoversDay(s, c.day)}] :
            c \in Announced} : f.sanctions # {}}

-----------------------------------------------------------------------------
\* Payments: those of the prefeitura, but for debt and pensions.
CreditorPayments(cnpj) == {p \in paid : p.cnpj = cnpj /\ ~p.chamber /\ ~p.charge}
CreditorCents(cnpj) == CentsOf(CreditorPayments(cnpj))
PaidYears(cnpj) == {p.year : p \in {q \in CreditorPayments(cnpj) : q.cents > 0}}
PaidCreditors == {c \in {p.cnpj : p \in paid} : CreditorCents(c) > 0}
PaymentsCoverage == {p.year : p \in {q \in paid : q.cents # 0}}

\* Mutant: an act of several companies cites none of them.
CitedAlone == UNION {a.cnpjs : a \in {b \in acts : Cardinality(b.cnpjs) = 1}}

CitedInDiario == UNION {a.cnpjs : a \in acts}
CitedProcesses == UNION {a.refs : a \in acts}

IsPublicCreditor(cnpj) == PublicBody(cnpj) \/ (Known(cnpj) /\ Profiles[cnpj].nature = "public")

MinPaidWithoutPublicationCents == 10000000
FindPaidWithoutPublication ==
  {c \in PaidCreditors :
     c \notin CitedInDiario /\ CreditorCents(c) >= MinPaidWithoutPublicationCents /\ ~IsPublicCreditor(c)}

MinUnpaidContractCents == 10000000
FindUnpaidContracts ==
  {c \in Announced :
     /\ PaymentsCoverage # {}
     /\ c.contracted >= MinUnpaidContractCents
     /\ Year(c.day) >= Least(PaymentsCoverage) /\ Year(c.day) + 1 <= Greatest(PaymentsCoverage)
     /\ ~PublicBody(c.cnpj)
     /\ c.cnpj \in PaidCreditors => {Year(c.day), Year(c.day) + 1} \cap PaidYears(c.cnpj) = {}}

UnnamedActs(source) == {a \in ActsOfSource(source) : a.cnpjs = {}}
NameOf(cnpj) == IF Known(cnpj) THEN Profiles[cnpj].name ELSE ""
CreditorsNamed(name) == {c \in PaidCreditors : NameOf(c) = name}

\* A name is of a creditor if all the creditors it may be are of one company.
NamesOneCompany(name) == name # "" /\ Cardinality({Base(c) : c \in CreditorsNamed(name)}) = 1

\* Of the branches of the company, the one the base returns last: any of them.
Attributions ==
  LET names == {n \in {a.name : a \in UnnamedActs("prefeitura")} : NamesOneCompany(n)}
  IN  {f \in [names -> PaidCreditors] : \A n \in names : f[n] \in CreditorsNamed(n)}

AttributeByName(f) ==
  {[a EXCEPT !.cnpjs = {f[a.name]}] : a \in {b \in UnnamedActs("prefeitura") : b.name \in DOMAIN f}}

AnnouncedTo(cnpj, S) ==
  LET own == {c \in PanelContracts(S) : c.cnpj = cnpj}
  IN  SumOf(LAMBDA c : c.contracted + c.registered + AmendedIn(c, EveryYear), own)

MinPaidAboveAnnouncedCents == 100000000
PaidAboveAnnouncedRatio == 2
FindPaidAboveAnnounced(f) ==
  LET announced == ActsOfSource("prefeitura") \cup AttributeByName(f)
  IN  {c \in PaidCreditors :
         /\ \E d \in SupplierContracts(announced) : d.cnpj = c
         /\ CreditorCents(c) - AnnouncedTo(c, announced) >= MinPaidAboveAnnouncedCents
         /\ CreditorCents(c) >= PaidAboveAnnouncedRatio * AnnouncedTo(c, announced)
         /\ ~IsPublicCreditor(c)}

PNCPExtractGraceDays == 30
MinPNCPWithoutExtractCents == 10000000
Editions == {a.day : a \in {b \in acts : b.source = "prefeitura"}}
PNCPCitedNames == {a.name : a \in UnnamedActs("prefeitura") \cup UnnamedActs("camara")} \ {""}
FindPNCPWithoutExtract ==
  {c \in Contracts :
     /\ Editions # {} /\ c.day # Undated
     /\ c.day <= Greatest(Editions) - PNCPExtractGraceDays
     /\ c.cents >= MinPNCPWithoutExtractCents
     /\ c.cnpj \notin CitedInDiario /\ c.process \notin CitedProcesses
     /\ {c.name, NameOf(c.cnpj)} \cap PNCPCitedNames = {}}

-----------------------------------------------------------------------------
NewCompanyLicenseDays == 730
Granted(cnpj) ==
  {l \in Licenses : /\ l.cnpj = cnpj /\ l.grant /\ Known(cnpj) /\ Profiles[cnpj].headquarters
                    /\ Profiles[cnpj].opened # Undated
                    /\ l.day - Profiles[cnpj].opened \in 0 .. NewCompanyLicenseDays - 1}
FindNewCompanyLicenses ==
  {[cnpj |-> l.cnpj, first |-> Earliest(Granted(l.cnpj)), acts |-> Granted(l.cnpj)] :
     l \in {k \in Licenses : Granted(k.cnpj) # {}}}

ContractingTypes == {"contrato", "aditivo", "dispensa", "licitacao"}
ContractingCNPJs ==
  (UNION {a.cnpjs : a \in {b \in acts : b.type \in ContractingTypes}}) \cup {l.cnpj : l \in Licenses}

MaxAppointmentActs == 5
ActsNaming(name) == {a \in Appointments : a.name = name}
Persons(cnpj) == {k \in Profiles[cnpj].partners : k.kind = "person" /\ k.distinctive}

\* Each partner read adds the acts that name it; the finding shows a few.
PartnerAgentOf(cnpj) ==
  [cnpj |-> cnpj,
   agents |-> {k.name : k \in Persons(cnpj)} \cap AgentNames,
   appointments |-> SumOf(LAMBDA k : Cardinality(ActsNaming(k.name)), Persons(cnpj)),
   shown |-> Least({MaxAppointmentActs, SumOf(LAMBDA k : Cardinality(ActsNaming(k.name)), Persons(cnpj))})]
FindPartnerPublicAgents ==
  {f \in {PartnerAgentOf(c) : c \in OneOfEachBase({d \in ContractingCNPJs : Known(d)})} :
     f.agents # {} \/ f.appointments > 0}

-----------------------------------------------------------------------------
\* A group of companies that share a partner or an address is of different
\* companies, each with a contract, each with all the partners shown, and no
\* two groups are the same companies.
GroupsAreOfDifferentCompanies ==
  /\ \A g \in FindSharedPartners :
       /\ g.partners # {} /\ \A c \in g.suppliers : g.partners \subseteq Profiles[c].partners
       /\ \A h \in FindSharedPartners : h.suppliers = g.suppliers => h = g
  /\ \A g \in FindSharedPartners \cup FindSharedAddresses :
       /\ \A c, d \in g.suppliers : c # d => Base(c) # Base(d)
       /\ \A c \in g.suppliers : ContractsOf(c) # {}

\* What a supplier was paid is compared with what the panel announces for it,
\* and with no more than one company's unnamed acts.
AnnouncedIsThePanels ==
  \A f \in Attributions :
    /\ \A a \in AttributeByName(f) : \A c \in PaidCreditors :
         NameOf(c) = a.name => \A d \in a.cnpjs : Base(c) = Base(d)
    /\ \A cnpj \in PaidCreditors : (\A n \in DOMAIN f : f[n] # cnpj) =>
         LET row == TotalOf({c \in PanelContracts(ActsOfSource("prefeitura")) : c.cnpj = cnpj}, EveryYear)
         IN  AnnouncedTo(cnpj, ActsOfSource("prefeitura") \cup AttributeByName(f))
               = row.contracted + row.registered + row.amended

\* A contract found unpaid was paid nothing by the prefeitura in either year,
\* and payments of both years, or later ones, were read.
UnpaidWasNeverPaid ==
  \A c \in FindUnpaidContracts :
    /\ \A p \in CreditorPayments(c.cnpj) :
         CreditorCents(c.cnpj) > 0 /\ p.cents > 0 => p.year \notin {Year(c.day), Year(c.day) + 1}
    /\ \E p \in paid : p.year >= Year(c.day) + 1

\* The first contract of a new company is the first of its CNPJ, and so is the
\* license; a contract is found sanctioned only if the sanction covers the day
\* of its first act.
FirstIsTheFirst ==
  /\ \A c \in FindNewCompanyContracts : \A d \in Announced : d.cnpj = c.cnpj => c.day <= d.day
  /\ \A l \in FindNewCompanyLicenses : \A k \in l.acts : l.first.day <= k.day
  /\ \A f \in FindSanctionedContracts : \A s \in f.sanctions :
       \E a \in f.contract.acts : CoversDay(s, a.day) /\ \A b \in f.contract.acts : a.day <= b.day

\* A CNPJ has one finding of its capital, for its largest contract, and one of
\* its licenses; a company has one of its partners, whose acts are not all
\* shown.  The rule of the capital says the largest contract of the company: one
\* with contracts of two branches is found for each of them.
OneFindingPerCNPJ ==
  /\ \A c, d \in FindUndercapitalizedContracts : c.cnpj = d.cnpj => c = d
  /\ \A c \in FindUndercapitalizedContracts : \A d \in ContractsOf(c.cnpj) : d.contracted <= c.contracted
  /\ \A l, k \in FindNewCompanyLicenses : l.cnpj = k.cnpj => l = k
  /\ \A f, g \in FindPartnerPublicAgents : f # g => Base(f.cnpj) # Base(g.cnpj)
  /\ \A f \in FindPartnerPublicAgents : f.shown <= MaxAppointmentActs /\ f.shown <= f.appointments

\* A contract of the PNCP found without an extract has none: no act names its
\* company or process, nor did any in the month after it.
PNCPContractsAreUncited ==
  \A c \in FindPNCPWithoutExtract :
    /\ \A a \in acts : c.cnpj \notin a.cnpjs /\ c.process \notin a.refs
    /\ \A a \in UnnamedActs("prefeitura") : a.name \notin {c.name, NameOf(c.cnpj)} \/ a.name = ""
    /\ \E a \in acts : a.day >= c.day + PNCPExtractGraceDays

\* Once an act cites a creditor, no payment to it is without publication again:
\* an act takes findings away, it adds none.
CitingAbsolves ==
  \A a \in acts' \ acts :
    /\ FindPaidWithoutPublication' \subseteq FindPaidWithoutPublication
    /\ \A c \in a.cnpjs : c \notin FindPaidWithoutPublication'
=============================================================================
