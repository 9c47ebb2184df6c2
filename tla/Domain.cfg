CONSTANT
  MaxActs = 4
  MaxBeside = 3
  nodate = nodate
  PublicBodies <- MCPublicBodies
  PublicRoots <- MCPublicRoots
  OrganVariants <- MCOrganVariants
  Dispensas <- MCDispensas
  Emergencies <- MCEmergencies
  Addenda <- MCAddenda
  PanelActs <- MCPanelActs
  PanelPayments <- MCPanelPayments
  SupplierPanelLimit = 2
  PayLoads <- MCPayLoads
  HiringActs <- MCHiringActs
  ThisMonth = 24303
  StaffLoads <- MCStaffLoads
  CamaraUnits = {"camara"}
  YearLoads <- MCYearLoads
  Murals <- MCMurals
  TreasuryTotals <- MCTotals
  PageSize = 2
  TopSuppliers = 2
  IndexedActs <- MCIndexedActs
  AlphabetOrder <- MCAlphabetOrder
  DefaultLimit = 2
  MaxLimit = 3
  GroupLimit = 2
  ExportLimit = 5
  FeedLimit = 2
  GroupExamples = 2
  IndexedEditions <- MCEditions
  Questions <- MCQuestions
  NumbersAlone = {8}
  CompanyActs = 2
  NumberActs = 3
  ListLimit = 2
  SupplierActs <- MCSupplierActs
  SupplierPayments <- MCSupplierPayments
  Profiles <- MCProfiles
  Sanctions <- MCSanctions
  Licenses <- MCLicenses
  Contracts <- MCContracts
  AgentNames = {"ana"}
  Appointments <- MCAppointments
  Readings <- MCReadings
  Norms <- MCNorms
  Today = 600
  Reported <- MCReported
  Loaded <- MCLoaded
  Collectors = {"bills"}
  MaxDeliveries = 2
  Processes <- MCProcesses
  MaxPages = 2
  BatchSize = 2
  MaxConsecutive = 2
  FirstAnswers = {"open", "missing", "down"}
  MaxChanges = 2
  MaxFaults = 1
SPECIFICATION DomainSpec
INVARIANTS
  PurchasesSafe PanelSafe SuppliersSafe AnswersSafe CollectionsSafe
PROPERTIES
  PublishedCountsOnce OvertakenStaysSo BillsAreRead
CHECK_DEADLOCK FALSE
