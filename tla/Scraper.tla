------------------------------ MODULE Scraper ------------------------------
(***************************************************************************)
(* The scraper on its own: its runs over the bucket, and the listings of   *)
(* its sources.  A behaviour is of one of them, chosen by the initial      *)
(* state: "overlap", runs that may overlap over a bucket that stays;       *)
(* "single", one run after another with a bucket that may be emptied in     *)
(* between; "pages" and "days", the listings.  The last section has the     *)
(* values TLC gives the constants.                                          *)
(***************************************************************************)
EXTENDS Collection, Sequences, TLC

CONSTANTS
  TheRun,       \* the run of "single"
  FirstSites,   \* what the source may serve at first to runs that overlap
  AloneSites,   \* and to a single run
  FirstPages, Old, ToPublish, PageSize, Reach, Period, MaxPages, Days, MaxTries, Failures

VARIABLES
  mode,
  listing, pending, visited, seen, served, day, tries, out, present, outcome, failures

Single == INSTANCE Collection WITH
  Runs <- {TheRun}, Backfills <- {}, KeepsBucket <- FALSE, MaxFaults <- Failures.single, Lookback <- Failures.single + 1

Sources == INSTANCE EditionSources WITH site <- listing, faults <- failures, MaxFaults <- Failures

ASSUME SourcesAssumption ==
  /\ FirstPages \subseteq Seq(Old)
  /\ PageSize \in Nat \ {0} /\ Reach \in Nat \ {0}
  /\ MaxPages \in Nat /\ Days \in Nat
  /\ MaxTries \in Nat \ {0}
  /\ \A source \in {"single", "pmsg", "cmsg"} : Failures[source] \in Nat

walkOfPages == <<listing, pending, visited, seen>>
walkOfDays  == <<served, day, tries, out>>
walk == <<walkOfPages, walkOfDays, present, outcome, failures>>
ScraperVars == <<vars, mode, walk>>

NoPages == listing = <<>> /\ pending = <<>> /\ visited = {} /\ seen = {}
NoDays == served = {} /\ day = 1 /\ tries = 0 /\ out = {}

ScraperInit ==
  \/ /\ \/ mode = "overlap" /\ Init /\ site \in FirstSites
        \/ mode = "single" /\ Single!Init /\ site \in AloneSites
     /\ NoPages /\ NoDays /\ present = {} /\ outcome = "listed" /\ failures = 0
  \/ /\ Init /\ site = [e \in Editions |-> Absent]
     /\ \/ mode = "pages" /\ Sources!InitPages /\ NoDays
        \/ mode = "days" /\ Sources!InitDays /\ NoPages

ScraperNext ==
  /\ UNCHANGED mode
  /\ \/ mode = "overlap" /\ Next /\ UNCHANGED walk
     \/ mode = "single" /\ Single!Next /\ UNCHANGED walk
     \/ mode = "pages" /\ Sources!NextPages /\ UNCHANGED vars
     \/ mode = "days" /\ Sources!NextDays /\ UNCHANGED vars

ScraperSpec ==
  /\ ScraperInit /\ [][ScraperNext]_ScraperVars
  /\ WF_ScraperVars(mode = "single" /\ Single!Work(TheRun) /\ UNCHANGED <<mode, walk>>)

\* While runs do not overlap, the stored PDF is the one its marker names; and a listing
\* that succeeds leaves out no edition the site had all along.
NothingIsLost ==
  /\ mode = "single" => MarkerNamesThePdf
  /\ mode = "pages" => Sources!WalkIsComplete
  /\ mode = "days" => Sources!NoDayIsMissed

\* An edition the source serves is announced when more scheduled runs will still ask
\* for its day than calls may still fail.
SingleEveryEditionAnnounced ==
  \A e \in Editions :
    (mode = "single" /\ site[e] # Absent /\ Failures.single - faults < Failures.single + 1 - listings[e])
      ~> \E c \in Sums : <<PathOf[e], c>> \in announced

-----------------------------------------------------------------------------
CONSTANTS e1, e2, p1, p2, c1, c2, r1, r2

\* Each edition has a path of its own.
MCPathOf == [e \in Editions |-> IF e = e1 THEN p1 ELSE p2]

\* Editions and PDFs are interchangeable: one order of them is enough.
MCFirstSites == {s \in [Editions -> Sums \cup {Absent}] : s[e1] = c1}
MCAloneSites == {s \in [Editions -> Sums \cup {Absent}] : s[e1] # c2}

\* An operator asks for the days of both.
MCPeriods == {{e1, e2}}

\* Two editions of a day, and days before and after the period.
Gazette(path, date) == [path |-> path, day |-> date]
MCOld == {Gazette("5", 5), Gazette("4_1", 4), Gazette("4", 4), Gazette("3", 3), Gazette("2", 2)}
Listing == <<Gazette("5", 5), Gazette("4_1", 4), Gazette("4", 4), Gazette("3", 3), Gazette("2", 2)>>
MCFirstPages == {SubSeq(Listing, 1, n) : n \in 0..5}
MCToPublish == {Gazette("6", 6), Gazette("7", 7), Gazette("3_1", 3)}
MCPeriod == 2..6
MCFailures == [single |-> 2, pmsg |-> 1, cmsg |-> 4]
=============================================================================
