------------------------------ MODULE Domain --------------------------------
(***************************************************************************)
(* The rules of the domain and the job that reads the bills, side by side. *)
(* A behaviour is one of a single topic, chosen by the initial state; the  *)
(* records of a rule come one by one, in every order.  They are constants, *)
(* whose values for TLC, the few that make the cases of a rule happen, are *)
(* in the last section.                                                    *)
(***************************************************************************)
EXTENDS Integers, FiniteSets, Sequences, TLC

CONSTANTS
  MaxActs,      \* the most acts a behaviour publishes
  MaxBeside,    \* the most totals of payments, or norms, beside them
  nodate,       \* no date
  PublicBodies, PublicRoots, OrganVariants,
  Dispensas, Emergencies, Addenda,                 \* SplitDispensa, RenewedEmergency, ExcessiveAddenda
  PanelActs, PanelPayments, SupplierPanelLimit,    \* SupplierPanel
  SupplierActs, SupplierPayments, Profiles, Sanctions, Licenses, Contracts, AgentNames, Appointments, \* SupplierPatterns
  PayLoads,                                        \* PoliticalAgents
  HiringActs, ThisMonth, StaffLoads, CamaraUnits,  \* StaffPanel
  YearLoads, Murals, TreasuryTotals, PageSize, TopSuppliers, \* Spending
  IndexedActs, AlphabetOrder, DefaultLimit, MaxLimit, GroupLimit, ExportLimit, FeedLimit, GroupExamples, \* ActSearch
  IndexedEditions, Questions, NumbersAlone, CompanyActs, NumberActs, ListLimit, \* EntityReport
  Readings, Norms, Today,                                                      \* BillSearch
  Reported, Loaded, Collectors, MaxDeliveries,                                 \* FetchRuns
  Processes, MaxPages, BatchSize, MaxConsecutive, FirstAnswers, MaxChanges, MaxFaults \* Bills

VARIABLES
  topic, given, beside,
  site, bills, readAt, archived, step, queue, batch, failing, run, changes, faults \* Bills

Date(year, dayOfYear) == year * 365 + dayOfYear

Spl == INSTANCE SplitDispensa WITH acts <- given
Ren == INSTANCE RenewedEmergency WITH acts <- given
Exc == INSTANCE ExcessiveAddenda WITH acts <- given
Pan == INSTANCE SupplierPanel WITH acts <- given, paid <- beside, Payments <- PanelPayments
Sup == INSTANCE SupplierPatterns WITH acts <- given, paid <- beside,
  PanelActs <- SupplierActs, Payments <- SupplierPayments, Undated <- nodate

Laws == [kind : STRING, number : Nat, year : Nat]
Fnd == INSTANCE BillSearch WITH bills <- given, norms <- beside
Agt == INSTANCE PoliticalAgents WITH pay <- given, councillors <- beside
Stf == INSTANCE StaffPanel WITH acts <- given, staff <- beside
Spe == INSTANCE Spending WITH base <- given, reports <- beside, Totals <- TreasuryTotals
Sch == INSTANCE ActSearch WITH acts <- given, Acts <- IndexedActs, PublicCNPJs <- PublicBodies
Rep == INSTANCE EntityReport WITH acts <- given, reports <- beside, Editions <- IndexedEditions

Run == INSTANCE FetchRuns WITH runs <- given, messages <- beside

Bil == INSTANCE Bills WITH None <- nodate

\* The processes of the sitemap are numbered, and a batch, a run and its patience
\* have room for a page.
ASSUME BillsAssumption ==
  /\ IsFiniteSet(Processes) /\ Processes = 1 .. Cardinality(Processes)
  /\ MaxPages \in Nat /\ BatchSize \in Nat \ {0} /\ MaxConsecutive \in Nat \ {0}
  /\ FirstAnswers \subseteq Bil!Answers
  /\ MaxChanges \in Nat
  /\ nodate \notin Bil!Pages

\* Norms are loaded by category and none has the number zero.
ASSUME SearchAssumption ==
  /\ Readings \subseteq [key : Nat, kind : STRING, doc : Laws, badge : Laws, archived : BOOLEAN, presented : Nat,
                         events : SUBSET [day : Nat, says : SUBSET STRING]]
  /\ Norms \subseteq [law : [kind : Fnd!InSIAPEGOV, number : Nat \ {0}, year : Nat], suffix : Nat, cites : Laws]

\* An act is a row of the base: its identifier is its own.
Identified(S) ==
  /\ \A a \in S : a.id \in Nat /\ a.day \in Nat
  /\ \A a, b \in S : a.id = b.id => a = b

\* What an act of the panels announces.
Announcements ==
  [id : Nat, day : Nat, cnpjs : SUBSET Nat, name : STRING, refs : SUBSET STRING, organ : STRING, value : Nat, type : STRING,
   phases : SUBSET STRING, marks : SUBSET STRING, explicit : Int, increase : Nat, source : STRING]

\* Companies, days and years are numbers, the records have a finite number of acts,
\* and a profile a finite number of partners.
ASSUME SuppliersAssumption ==
  /\ DOMAIN Profiles \subseteq Nat
  /\ SupplierActs \subseteq Announcements /\ Identified(SupplierActs)
  /\ Identified(Licenses) /\ IsFiniteSet(Licenses) /\ IsFiniteSet(Appointments)
  /\ \A c \in DOMAIN Profiles : IsFiniteSet(Profiles[c].partners)
  /\ \A p \in SupplierPayments : p.year \in Nat
  /\ \A c \in Contracts : c.day # nodate => c.day \in Nat

\* Values, CNPJs, payments and what the text numbers are numbers, an act names a
\* finite number of CNPJs, no edition is of the year 0, and the organ an acronym
\* became did not become another.
ASSUME PurchasesAssumption ==
  /\ Identified(Dispensas) /\ Identified(Emergencies) /\ Identified(Addenda) /\ Identified(PanelActs)
  /\ \A a \in Dispensas : a.value \in Nat
  /\ \A a \in Emergencies : IsFiniteSet(a.cnpjs) /\ a.cnpjs \subseteq Nat
  /\ \A a \in Addenda : a.ordinal \in Nat /\ a.increase \in Nat
  /\ PanelActs \subseteq Announcements /\ \A a \in PanelActs : a.day >= 365
  /\ \A p \in PanelPayments : p.cents \in Int
  /\ SupplierPanelLimit \in Nat
  /\ \A acronym \in DOMAIN OrganVariants : OrganVariants[acronym] \notin DOMAIN OrganVariants

\* The key of a process is read from its spelling, a load or an edition brings a
\* finite number of rows or acts, and a page has room for one; the type of an act is
\* always said.
ASSUME AnswersAssumption ==
  /\ \A load \in YearLoads : IsFiniteSet(load.rows) /\ \A c \in load.rows : c.is = "commitment"
  /\ \A rows \in Murals : IsFiniteSet(rows) /\ \A p \in rows : p.is # "commitment"
  /\ PageSize \in Nat \ {0}
  /\ \A c, d \in UNION {load.rows : load \in YearLoads} : c.process.spelled = d.process.spelled => c.process.key = d.process.key
  /\ \A e \in IndexedEditions : IsFiniteSet(e.acts)
  /\ Identified(IndexedActs)
  /\ \A a \in IndexedActs :
       /\ a.url \in Nat /\ a.position \in Nat /\ a.rank \in Nat
       /\ a.type # Sch!Unsaid /\ a.keys \subseteq [kind : STRING, key : Nat]
  /\ DefaultLimit \in Nat \ {0} /\ MaxLimit \in Nat \ {0} /\ GroupExamples \in Nat \ {0}

reading == <<site, bills, readAt, archived, step, queue, batch, failing, run, changes, faults>>
DomainVars == <<topic, given, beside, reading>>

NoReading ==
  /\ site = 0 /\ bills = 0 /\ readAt = 0 /\ archived = 0 /\ step = 0 /\ queue = 0
  /\ batch = 0 /\ failing = 0 /\ run = 0 /\ changes = 0 /\ faults = 0

DomainInit ==
  /\ topic \in {"splits", "renewals", "addenda", "panel", "suppliers", "bills", "search", "agents", "staff", "spending", "acts", "reports", "collections"}
  /\ IF topic = "bills" THEN Bil!Init ELSE NoReading
  /\ given = {}
  /\ beside = {}

DomainNext ==
  /\ UNCHANGED topic
  /\ \/ topic = "splits" /\ Spl!Next /\ UNCHANGED beside
     \/ topic = "renewals" /\ Ren!Next /\ UNCHANGED beside
     \/ topic = "addenda" /\ Exc!Next /\ UNCHANGED beside
     \/ topic = "panel" /\ Pan!Next
     \/ topic = "suppliers" /\ Sup!Next
     \/ topic = "search" /\ Fnd!Next
     \/ topic = "agents" /\ Agt!Next
     \/ topic = "staff" /\ Stf!Next
     \/ topic = "spending" /\ Spe!Next
     \/ topic = "acts" /\ Sch!Next /\ UNCHANGED beside
     \/ topic = "reports" /\ Rep!Next
     \/ topic = "collections" /\ Run!Next
     \/ topic = "bills" /\ Bil!Next /\ UNCHANGED <<given, beside>>
  /\ topic # "bills" => UNCHANGED reading
  /\ topic \notin {"agents", "spending"} => Cardinality(given') <= MaxActs
  /\ topic \notin {"agents", "staff"} => Cardinality(beside') <= MaxBeside

DomainSpec ==
  /\ DomainInit /\ [][DomainNext]_DomainVars
  /\ WF_DomainVars(topic = "bills" /\ Bil!Work /\ UNCHANGED <<topic, given, beside>>)

-----------------------------------------------------------------------------
\* What each pattern says of purchases is true of the acts it was read from, and
\* what the panel announces for a supplier is of different contracts and adds up
\* whichever way it is filtered: see SplitsAreOfDifferentContracts,
\* RenewalsAreSuccessive, AddendaCountOnce, PanelContractsAreDifferent and PanelAddsUp.
PurchasesSafe ==
  /\ topic = "splits" => Spl!SplitsAreOfDifferentContracts /\ Spl!ActsCountInOneSplit
  /\ topic = "renewals" => Ren!RenewalsAreSuccessive /\ Ren!AmbiguousNamesAccuseNobody
  /\ topic = "addenda" => Exc!AddendaCountOnce
  /\ topic = "panel" => Pan!PanelContractsAreDifferent /\ Pan!PanelAddsUp

\* Each act counts once and one way: publishing again what was published changes no
\* finding of purchases, an appointment before an election clears no peak and one
\* of another year makes none.
PublishedCountsOnce ==
  [][/\ topic = "splits" => Spl!RepublishingSplitsNothing
     /\ topic = "renewals" => Ren!RepublishingRenewsNothing
     /\ topic = "addenda" => Exc!RepublishingAddsNothing
     /\ topic = "panel" => Pan!RepublishingPanelNothing
     /\ topic = "staff" => Stf!ActsCountOneWay]_DomainVars

\* What is counted adds up whichever way it is filtered: the agents' and the staff's
\* panels over every row that was loaded, the payments over every commitment, the
\* lists of bills, searches and reports over what they are lists of.
PanelSafe ==
  /\ topic = "agents" => Agt!LoadsReplaceTheirMonths /\ Agt!AgentsAddUp /\ Agt!PartyIsOfTheLegislature
  /\ topic = "staff" => Stf!StaffAddsUp /\ Stf!ActsOfThePanel
  /\ topic = "spending" => Spe!PaymentsAddUp /\ Spe!ProcurementsAreOfThePaid
  /\ topic = "search" => Fnd!ListsAddUp
  /\ topic = "reports" => Rep!ReportAddsUp /\ Rep!ReportsGrow
  /\ topic = "acts" => Sch!PagesHaveEachActOnce /\ Sch!ListingsAgree

\* What the patterns of suppliers accuse is true of the acts, payments and records:
\* groups are of different companies, a contract found unpaid was never paid, one
\* of the PNCP found without an extract is cited nowhere, the first contract of a
\* CNPJ is its first, a CNPJ is found once, for its largest, and what is compared
\* of it is what the panel announces.
SuppliersSafe ==
  topic = "suppliers" =>
    /\ Sup!GroupsAreOfDifferentCompanies /\ Sup!UnpaidWasNeverPaid /\ Sup!PNCPContractsAreUncited
    /\ Sup!FirstIsTheFirst /\ Sup!OneFindingPerCNPJ /\ Sup!AnnouncedIsThePanels

\* What was overtaken does not come back: an act that cites creditors only takes away
\* payments without publication, and a report that comes late or again does not
\* take the place of a newer one.
OvertakenStaysSo ==
  [][/\ topic = "suppliers" => Sup!CitingAbsolves
     /\ topic = "collections" => Run!ShownNeverGoesBack]_DomainVars

\* What is found answers what was asked: a bill and its law know each other, and what
\* came of a bill outlives the term; a process is found however it is spelled, and a
\* year is compared with all that was paid in it; following a group finds its acts;
\* a number that two organs or two gazettes use is told with a warning.
AnswersSafe ==
  /\ topic = "search" => Fnd!LawsKnowTheirBills /\ Fnd!OutcomeOutlivesTheTerm
  /\ topic = "spending" => Spe!ProcessHasAllItsCommitments /\ Spe!ControlIsOfTheWholeYear
  /\ topic = "acts" => Sch!GroupsHaveTheirActs
  /\ topic = "reports" => Rep!SharedNumbersAreWarned

\* A run of the job of the bills accounts for every process it took on, saves the
\* pages of bills only, and never one older than what was saved or archived; and a
\* collection whose report was acknowledged is in the record.
CollectionsSafe ==
  /\ topic = "bills" => Bil!TypeOK /\ Bil!RunAddsUp /\ Bil!BillsAreOfTheirProcess
  /\ topic = "collections" => Run!AckedIsRecorded

\* New processes and open bills are read again, as long as what cannot be read
\* neither fills a run of the job nor makes it give up.
BillsAreRead == \A k \in Processes : <>[](IF topic = "bills" THEN Bil!CaughtUp(k) ELSE TRUE)

-----------------------------------------------------------------------------
(***************************************************************************)
(* The values TLC gives the constants.                                     *)
(***************************************************************************)
\* Suppliers A (two branches), B and C; the prefeitura.
A == 110001  A2 == 110002  B == 220001  C == 330001  City == 990001

Dispensa(id, day, cnpjs, processes, value, marks) ==
  [id |-> id, day |-> day, cnpjs |-> cnpjs, processes |-> processes, organ |-> "SEMED", value |-> value,
   type |-> "dispensa", modality |-> "", source |-> "prefeitura", marks |-> {"goods", "lei14133"} \cup marks]

MCDispensas == {
  Dispensa(1, Date(2022, 10), {A}, {"p1"}, 3000000, {}),
  Dispensa(2, Date(2022, 40), {A}, {"p2"}, 3000000, {}),
  Dispensa(3, Date(2022, 40), {A}, {}, 3000000, {}),
  Dispensa(4, Date(2022, 80), {A}, {"p2"}, 3000000, {"republication"}),
  Dispensa(5, Date(2022, 90), {A, B}, {}, 3000000, {}),
  Dispensa(6, Date(2022, 95), {A, City}, {"p1", "p3"}, 2500000, {}),
  Dispensa(7, Date(2022, 97), {A}, {"p3"}, 2500000, {}),
  Dispensa(8, Date(2022, 120), {A}, {"p4"}, 3000000, {"republication"}),
  Dispensa(9, Date(2022, 130), {A}, {}, 3000000, {"republication"}),
  Dispensa(10, Date(2023, 5), {A}, {}, 2500000, {}),
  [Dispensa(11, Date(2022, 200), {A}, {}, 2500000, {"emergency"}) EXCEPT !.type = "contrato", !.modality = "dispensa"],
  [Dispensa(12, Date(2022, 60), {A}, {"p5"}, 1700000, {}) EXCEPT !.marks = {"goods"}]}

Emergency(id, day, cnpjs, name, refs, organ) ==
  [id |-> id, day |-> day, cnpjs |-> cnpjs, name |-> name, parties |-> {}, refs |-> refs, organ |-> organ,
   type |-> "dispensa", basis |-> {"art. 24, IV"}, source |-> "prefeitura"]

MCEmergencies == {
  Emergency(1, Date(2019, 10), {A}, "alfa", {"n1"}, "SEMGOV"),
  Emergency(2, Date(2019, 30), {A}, "", {"n2"}, "SEMGOV"),
  Emergency(3, Date(2019, 60), {}, "alfa", {"n3"}, "SECGOV"),
  Emergency(4, Date(2019, 80), {}, "alfa", {"n3"}, ""),
  Emergency(5, Date(2019, 90), {B}, "alfa", {"n3"}, "SEMED"),
  Emergency(6, Date(2021, 100), {A}, "", {"n4"}, "SEMGOV"),
  Emergency(7, Date(2021, 200), {A, B}, "alfa", {"n5"}, "SEMGOV"),
  Emergency(8, Date(2021, 220), {}, "alfa", {"n5"}, "SEMGOV"),
  Emergency(11, Date(2019, 20), {}, "", {"n1", "n8"}, ""),
  Emergency(12, Date(2019, 140), {B}, "", {"n8"}, "SEMED"),
  [Emergency(9, Date(2019, 70), {}, "alfa", {"n3"}, "SECGOV") EXCEPT !.day = Date(2019, 75)],
  [Emergency(10, Date(2021, 230), {City}, "alfa", {"n6"}, "SEMGOV") EXCEPT
     !.parties = {[name |-> "alfa", cnpj |-> A], [name |-> "cidade", cnpj |-> City]}]}

Addendum(id, day, keys, organ, ordinal, increase) ==
  [id |-> id, day |-> day, keys |-> keys, organ |-> organ, ordinal |-> ordinal, increase |-> increase,
   renovation |-> FALSE, source |-> "prefeitura"]

MCAddenda == {
  Addendum(1, Date(2020, 10), {"k1"}, "SEMGOV", 1, 1500),
  Addendum(2, Date(2020, 30), {"k1"}, "SECGOV", 1, 1500),
  Addendum(3, Date(2020, 60), {"k1"}, "SEMGOV", 1, 1500),
  Addendum(4, Date(2020, 90), {"k1"}, "SEMGOV", 2, 1500),
  Addendum(5, Date(2020, 95), {"k1"}, "SEMGOV", 0, 1500),
  Addendum(6, Date(2020, 99), {"k1", "k2"}, "SEMGOV", 0, 1200),
  Addendum(7, Date(2020, 20), {"k1"}, "SEMED", 1, 1500),
  Addendum(8, Date(2020, 100), {"k1"}, "SEMED", 2, 2600),
  [Addendum(9, Date(2020, 200), {"k1"}, "SEMGOV", 3, 2000) EXCEPT !.renovation = TRUE],
  [Addendum(10, Date(2020, 210), {"k1"}, "SEMGOV", 3, 2000) EXCEPT !.renovation = TRUE],
  Addendum(11, Date(2020, 110), {"k1"}, "", 4, 2600)}

Announcing(id, day, cnpjs, refs, value, type) ==
  [id |-> id, day |-> day, cnpjs |-> cnpjs, name |-> "", refs |-> refs, organ |-> "SEMED", value |-> value,
   type |-> type, phases |-> {}, marks |-> {}, explicit |-> -1, increase |-> 0, source |-> "prefeitura"]

MCPanelActs == {
  Announcing(1, Date(2021, 10), {A}, {"k1"}, 20000, "contrato"),
  [Announcing(2, Date(2021, 20), {A}, {"k1"}, 30000, "ata") EXCEPT !.phases = {"ata_registro_precos"}],
  [Announcing(3, Date(2022, 300), {A}, {"k1"}, 20000, "aditivo") EXCEPT !.marks = {"prorrogation"}],
  [Announcing(4, Date(2022, 340), {A}, {"k1"}, 20000, "aditivo") EXCEPT !.marks = {"prorrogation"}],
  [Announcing(5, Date(2022, 350), {A, City}, {"k1", "k2"}, 0, "aditivo") EXCEPT !.increase = 2500, !.organ = "SECGOV"],
  [Announcing(6, Date(2021, 40), {A}, {"k2"}, 20000, "dispensa") EXCEPT !.organ = "SEMGOV"],
  Announcing(7, Date(2021, 50), {A}, {}, 20000, "dispensa"),
  Announcing(8, Date(2022, 60), {B}, {"k1"}, 70000, "contrato"),
  [Announcing(9, Date(2022, 70), {C}, {"k3"}, 5000, "aditivo") EXCEPT !.explicit = 4000],
  [Announcing(10, Date(2022, 80), {A, B}, {"k3"}, 90000, "contrato") EXCEPT !.phases = {"homologacao"}],
  Announcing(11, Date(2021, 60), {A}, {}, 20000, "dispensa")}

Payment(cnpj, year, cents) == [cnpj |-> cnpj, year |-> year, chamber |-> FALSE, charge |-> FALSE, cents |-> cents]
MCPanelPayments == {Payment(A, 2021, 100), Payment(City, 2022, 500)}

\* December 2024 and January 2025: two legislatures.
Pay(body, month, name, role, office, gross, discount) ==
  [body |-> body, month |-> month, name |-> name, role |-> role, office |-> office, gross |-> gross, discount |-> discount]
Payroll(body, from, to, rows, councillors) ==
  [body |-> body, from |-> from, to |-> to, rows |-> rows, councillors |-> councillors]
Councillor(legislature, name, parliamentary, party) ==
  [legislature |-> legislature, name |-> name, parliamentary |-> parliamentary, party |-> party]

MCPayLoads == {
  Payroll("prefeitura", 24299, 24300,
    <<Pay("prefeitura", 24299, 1, "prefeito", 90, 10, -1), Pay("prefeitura", 24300, 2, "prefeito", 90, 10, -1),
      Pay("prefeitura", 24300, 1, "secretario", 91, 7, -1), Pay("prefeitura", 24300, 1, "secretario", 91, 3, -1),
      Pay("prefeitura", 24300, 1, "secretario", 92, 2, -1)>>, {}),
  Payroll("prefeitura", 24300, 24300, <<Pay("prefeitura", 24300, 2, "prefeito", 90, 11, -1)>>, {}),
  Payroll("camara", 24299, 24300,
    <<Pay("camara", 24299, 3, "vereador", 50, 5, 1), Pay("camara", 24299, 3, "vereador", 50, 5, -1),
      Pay("camara", 24300, 3, "vereador", 50, 6, -1), Pay("camara", 24299, 4, "vereador", 51, 5, 2)>>,
    {Councillor(3, 3, 50, "a"), Councillor(4, 3, 50, "b"), Councillor(3, 4, 51, "c")}),
  Payroll("camara", 24300, 24300, <<Pay("camara", 24300, 5, "vereador", 51, 6, 0)>>,
    {Councillor(4, 4, 52, "d"), Councillor(4, 3, 50, "e")}),
  Payroll("camara", 24299, 24299, <<>>, {})}

Hiring(id, type, year, source) == [id |-> id, type |-> type, month |-> 12 * year + 3, source |-> source]
MCHiringActs ==
  [id : {1, 2, 3}, type : {"nomeacao"}, month : {24291}, source : {"prefeitura"}]
  \cup {Hiring(4, "nomeacao", 2023, "prefeitura"), Hiring(5, "nomeacao", 2023, "prefeitura"),
        Hiring(6, "nomeacao", 2022, "prefeitura"), Hiring(7, "exoneracao", 2024, "prefeitura"),
        Hiring(8, "nomeacao", 2024, "camara"), Hiring(9, "nomeacao", 2025, "prefeitura")}

Staffed(year, unit, situation, group, people) ==
  [month |-> 12 * year + 3, unit |-> unit, situation |-> situation, group |-> group, people |-> people, cents |-> 10 * people]
MCStaffLoads == {
  [year |-> 2023, rows |-> <<Staffed(2023, "prefeitura", "s1", 1, 5), Staffed(2023, "camara", "s1", 1, 2)>>],
  [year |-> 2024, rows |-> <<Staffed(2024, "prefeitura", "s1", 1, 5), Staffed(2024, "prefeitura", "s1", 9, 4),
                             Staffed(2024, "fundo", "s2", 8, 3), Staffed(2024, "camara", "s1", 3, 2)>>],
  [year |-> 2024, rows |-> <<Staffed(2024, "fundo", "s2", 8, 1), [Staffed(2024, "fundo", "s2", 8, 1) EXCEPT !.month = 24295]>>],
  [year |-> 2024, rows |-> <<>>]}

Spelled(text, key) == [spelled |-> text, key |-> key]
Commitment(id, year, entity, cnpj, process, paid) ==
  [is |-> "commitment", year |-> year, entity |-> entity, id |-> id, day |-> 10 * year, cnpj |-> cnpj,
   words |-> IF cnpj = A THEN {"obra"} ELSE {"obra", "merenda"}, process |-> process,
   committed |-> 2 * paid, liquidated |-> paid + 1, paid |-> paid]
MCYearLoads == {
  [year |-> 2023, rows |-> {Commitment(1, 2023, 1, A, Spelled("7/2023", "7/2023"), 10),
                            Commitment(3, 2023, 1, B, Spelled("7/2023", "7/2023"), 10)}],
  [year |-> 2023, rows |-> {Commitment(1, 2023, 1, A, Spelled("7/2023", "7/2023"), 10),
                            Commitment(2, 2023, 2, A, Spelled("007/23", "7/2023"), 30),
                            Commitment(3, 2023, 1, B, Spelled("7/2023", "7/2023"), 20)}],
  [year |-> 2024, rows |-> {Commitment(1, 2024, 1, B, Spelled("s/n", ""), 50),
                            Commitment(2, 2024, 2, C, Spelled("8/2024-PMSG", "8/2024"), 0)}]}
Tender(id, list) ==
  [is |-> "tender", id |-> id, list |-> list, opens |-> 1, words |-> {"obra"}, organ |-> "PMSG", key |-> "7/2023", year |-> 2023, cents |-> 0]
MuralContract(id, key) ==
  [is |-> "contract", id |-> id, list |-> 1, opens |-> 0, words |-> {"obra"}, organ |-> "PMSG", key |-> key, year |-> 2023, cents |-> 5]
MCMurals == {
  {Tender(1, 1), Tender(2, 1), Tender(3, 1)} \cup {MuralContract(id, "7/2023") : id \in {1, 2, 3}},
  {Tender(1, 1), Tender(1, 2), Tender(2, 2)} \cup {MuralContract(1, "8/2024")}}

MCTotals == {[year |-> 2023, period |-> 6, paid |-> 60], [year |-> 2024, period |-> 4, paid |-> 30]}

\* Editions 1 and 2 are of one day; acts 1 and 3 are at the same place of theirs.
Indexed(id, gazette, position, type, organ, keys, values, says) ==
  [id |-> id, gazette |-> gazette, url |-> gazette, position |-> position, type |-> type, organ |-> organ, modality |-> "",
   main |-> Cardinality(values), day |-> IF gazette = 3 THEN 130 ELSE 100, source |-> IF gazette = 2 THEN "camara" ELSE "prefeitura",
   keys |-> keys, values |-> values, list |-> FALSE, theme |-> FALSE, says |-> says, exact |-> {}, rank |-> id % 2]
Proc(key) == [kind |-> "processo", key |-> key]
Company(key) == [kind |-> "cnpj", key |-> key]
MCIndexedActs == {
  Indexed(1, 1, 1, "contrato", "SECGOV", {Proc(5), Company(A)}, {30}, {"obra"}),
  [Indexed(2, 1, 2, "contrato", "SEMGOV", {Proc(5), Proc(6), Company(City), Company(A)}, {10, 70}, {"obra", "ana"}) EXCEPT !.theme = TRUE],
  Indexed(3, 2, 1, "contrato", "", {Proc(5)}, {20, 30}, {"obra"}),
  [Indexed(4, 2, 2, "nomeacao", "SEMGOV", {}, {}, {"ana"}) EXCEPT !.list = TRUE],
  [Indexed(5, 3, 1, "dispensa", "SECGOV", {Proc(6), Company(B)}, {50}, {"obra", "ana"}) EXCEPT !.exact = {"obra"}, !.modality = "dispensa"],
  Indexed(6, 3, 2, "dispensa", "SEMED", {Proc(7), Company(B), Company(C)}, {}, {}),
  Indexed(7, 2, 3, "nomeacao", "", {}, {}, {"ana"})}

MCAlphabetOrder ==
  "" :> 1 @@ "SECGOV" :> 2 @@ "SEMED" :> 3 @@ "SEMGOV" :> 4 @@ "contrato" :> 5 @@ "dispensa" :> 6 @@ "nomeacao" :> 7

Cite(kind, key, spelled) == [kind |-> kind, key |-> key, spelled |-> spelled]
Linked(id, gazette, type, says, organ, cites, values) ==
  [id |-> id, gazette |-> gazette, type |-> type, says |-> says, organ |-> organ, day |-> 10 * gazette,
   source |-> IF gazette = 2 THEN "camara" ELSE "prefeitura", cites |-> cites, values |-> values]
Edition(gazette, found) == [gazette |-> gazette, acts |-> found]
MCEditions == {
  Edition(1, {Linked(1, 1, "contrato", {}, "SEMGOV", {Cite("processo", 5, "5"), Cite("contrato", 9, "9"), Cite("contrato", 9, "009"), Cite("cnpj", A, "A")}, {30}),
              Linked(2, 1, "contrato", {"aditivo", "fiscal"}, "SECGOV", {Cite("processo", 5, "5"), Cite("processo", 6, "6"), Cite("contrato", 8, "8")}, {30, 10})}),
  Edition(1, {Linked(3, 1, "contrato", {}, "SEMED", {Cite("processo", 5, "5"), Cite("contrato", 9, "9")}, {})}),
  Edition(2, {Linked(4, 2, "licitacao", {"homologacao"}, "", {Cite("processo", 5, "5"), Cite("contrato", 9, "9")}, {20})}),
  Edition(3, {Linked(5, 3, "dispensa", {}, "SEMED", {Cite("processo", 7, "7"), Cite("processo", 6, "6"), Cite("contrato", 9, "9"), Cite("cnpj", A, "A"), Cite("contrato", 8, "8")}, {50})}),
  Edition(4, {Linked(6, 4, "ata", {}, "SEMED", {Cite("cnpj", A, "A"), Cite("contrato", 8, "8")}, {70})})}

MCQuestions ==
  [kind : {"processo"}, key : {5}, source : {"", "prefeitura"}]
    \cup [kind : {"contrato"}, key : {8, 9}, source : {""}] \cup [kind : {"cnpj"}, key : {A}, source : {""}]

MCOrganVariants == [x \in {"SECGOV"} |-> "SEMGOV"]

MCPublicBodies == {City}
MCPublicRoots == {88}

\* Contracts of 15, 12 and 6 million cents; acts that only name the company.
MCSupplierActs == {
  Announcing(1, Date(2021, 100), {A}, {"k1"}, 15000000, "contrato"),
  Announcing(2, Date(2021, 200), {A2}, {"k2"}, 12000000, "contrato"),
  Announcing(3, Date(2022, 10), {B}, {"k3"}, 6000000, "contrato"),
  Announcing(4, Date(2021, 60), {C}, {"k4"}, 12000000, "dispensa"),
  [Announcing(5, Date(2022, 20), {}, {"k1"}, 10000000, "contrato") EXCEPT !.name = "alfa"],
  [Announcing(6, Date(2022, 30), {}, {"k5"}, 10000000, "contrato") EXCEPT !.name = "comum"],
  Announcing(7, Date(2021, 90), {A, B}, {"k6"}, 9000000, "contrato")}

MCSupplierPayments == {Payment(A, 2021, 150000000), Payment(A2, 2022, 120000000), Payment(B, 2022, 130000000),
                     Payment(C, 2023, 140000000), [Payment(C, 2021, 500) EXCEPT !.charge = TRUE]}

Partner(name) == [kind |-> "person", name |-> name, distinctive |-> TRUE]
Profile(name, headquarters, opened, partners) ==
  [name |-> name, headquarters |-> headquarters, opened |-> opened, capital |-> 100, nature |-> "company",
   address |-> "rua 1", partners |-> partners]
MCProfiles ==
  A :> Profile("alfa", TRUE, Date(2021, 50), {Partner("ana"), Partner("rui")})
  @@ A2 :> Profile("alfa", FALSE, nodate, {Partner("ana"), Partner("rui")})
  @@ B :> Profile("comum", TRUE, Date(2020, 1), {Partner("ana"), Partner("rui"), Partner("")})
  @@ C :> [Profile("comum", TRUE, Date(2021, 1), {Partner("ana")}) EXCEPT !.address = ""]

MCSanctions == {
  [cnpj |-> A2, register |-> "CEIS", reach |-> "everywhere", starts |-> Date(2021, 90), ends |-> Date(2021, 150)],
  [cnpj |-> B, register |-> "CEPIM", reach |-> "everywhere", starts |-> nodate, ends |-> nodate]}
MCLicenses == {[id |-> 1, day |-> Date(2022, 5), cnpj |-> A, grant |-> TRUE], [id |-> 2, day |-> Date(2021, 55), cnpj |-> A, grant |-> TRUE]}
MCContracts == {[id |-> 1, cnpj |-> C, name |-> "comum", process |-> "k3", day |-> Date(2021, 150), cents |-> 20000000]}

MCAppointments == [name : {"rui"}, id : 1 .. 6]

Law(kind, number) == [kind |-> kind, number |-> number, year |-> 2022]
Unsaid == [kind |-> "", number |-> 0, year |-> 0]
PL == [kind |-> "projeto de lei", number |-> 7, year |-> 2021]

Read(key, doc, badge, closed, presented, events) ==
  [key |-> key, kind |-> IF doc = Unsaid THEN "indicação" ELSE doc.kind, doc |-> doc, badge |-> badge,
   archived |-> closed, presented |-> presented, events |-> events]
Event(day, says) == [day |-> day, says |-> says]

\* Two processes of one document, one of them a law; an idle one, and what came of it.
MCReadings == {
  Read(1, PL, Unsaid, FALSE, 500, {Event(510, {"em_comissao"}), Event(590, {})}),
  Read(1, PL, Law("lei", 9), FALSE, 500, {Event(510, {"em_comissao"}), Event(598, {"aprovado"})}),
  Read(2, PL, Unsaid, TRUE, 500, {Event(530, {"vetado", "em_comissao"})}),
  Read(3, [PL EXCEPT !.number = 8], Law("lei", 9), TRUE, 560, {Event(560, {"apresentado"})}),
  Read(4, [PL EXCEPT !.kind = "mensagem"], Law("resolucao", 9), FALSE, 0, {}),
  Read(4, [PL EXCEPT !.kind = "mensagem"], Law("decreto", 9), FALSE, 0, {}),
  Read(5, Unsaid, Unsaid, TRUE, 580, {Event(580, {"retirado", "enviado_ao_executivo"}), Event(610, {"em_votacao"})}),
  Read(6, [PL EXCEPT !.kind = "projeto de lei complementar"], Law("lei_complementar", 9), FALSE, 570, {Event(575, {"em_comissao"})})}

MCNorms == {
  [law |-> Law("lei", 9), suffix |-> 0, cites |-> PL], [law |-> Law("lei", 9), suffix |-> 1, cites |-> Unsaid],
  [law |-> Law("lei", 4), suffix |-> 0, cites |-> PL], [law |-> Law("decreto", 9), suffix |-> 0, cites |-> Unsaid],
  [law |-> Law("lei_complementar", 9), suffix |-> 0, cites |-> [PL EXCEPT !.kind = "projeto de lei complementar"]]}

RunOf(id, source, started, finished) == [id |-> id, source |-> source, started |-> started, finished |-> finished, from |-> 1, to |-> 2]
MCReported == {RunOf(1, "prefeitura", 1, 5), RunOf(2, "prefeitura", 6, 9), RunOf(3, "camara", 7, 4)}
MCLoaded == {RunOf(4, "bills", 2, 3), RunOf(5, "bills", 4, 8)}

MCProcesses == 1 .. 3
=============================================================================
