--------------------------- MODULE EditionSources ---------------------------
(***************************************************************************)
(* The two listings of editions, of a site that may publish meanwhile.     *)
(* ListEditions of the source pmsg (the Prefeitura) follows the links       *)
(* between the pages of the site's search; there an edition has a day.      *)
(* ListEditions of cmsg (the Camara) asks for the PDF of each day of the     *)
(* period with a HEAD, tried again when it fails.                           *)
(***************************************************************************)
EXTENDS Naturals, FiniteSets, Sequences, FiniteSetsExt, SequencesExt

CONSTANTS
  FirstPages,  \* what the search of the Prefeitura may show at first, the newest first
  Old,         \* the editions in it
  ToPublish,   \* editions the Prefeitura may still publish
  PageSize,    \* editions on a page
  Reach,       \* how far the links of a page go
  Period,      \* days asked for
  MaxPages,    \* pages a walk visits at most
  Days,        \* last day asked of the Camara; the first is 1
  MaxTries,    \* the HEAD and the waits of retryWaits
  MaxFaults    \* bound on calls that fail, by source

VARIABLES
  site,     \* the editions the Prefeitura lists, the newest first
  pending,  \* links to follow, in order
  visited,  \* pages read
  seen,     \* editions of the period read so far
  served,   \* days with a PDF on the site of the Camara
  day,      \* the day of this turn of the loop
  tries,    \* HEADs of this day that failed
  out,      \* days listed
  present,  \* editions, or days, on the site since the listing began
  outcome,  \* "walking", "listed", "overflow" or "failed"
  faults

pages == <<site, pending, visited, seen>>
days  == <<served, day, tries, out>>

Fault(source) == faults < MaxFaults[source] /\ faults' = faults + 1

-----------------------------------------------------------------------------
(***************************************************************************)
(* pmsg.                                                                   *)
(***************************************************************************)

StartPages ==
  /\ pending' = <<1>> /\ visited' = {} /\ seen' = {} /\ present' = ToSet(site) /\ outcome' = "walking"

InitPages ==
  /\ site \in FirstPages
  /\ pending = <<1>> /\ visited = {} /\ seen = {} /\ present = ToSet(site) /\ outcome = "walking"
  /\ faults = 0

\* The site: the pages of its search, with the newest edition beside it on every page.
LastPage == IF site = <<>> THEN 1 ELSE (Len(site) + PageSize - 1) \div PageSize
Listed(page) ==
  {site[i] : i \in {j \in DOMAIN site : j = 1 \/ ((page - 1) * PageSize < j /\ j <= page * PageSize)}}
Links(page) == {p \in 1..LastPage : p # page /\ p <= page + Reach /\ page <= p + Reach}

PublishEdition(e) ==
  /\ e \in ToPublish /\ e \notin ToSet(site)
  /\ \E i \in 1..(Len(site) + 1) : site' = InsertAt(site, i, e)
  /\ UNCHANGED <<pending, visited, seen, present, outcome, faults>>

Walking == outcome = "walking" /\ pending # <<>> /\ Cardinality(visited) < MaxPages

Skip ==
  /\ Walking /\ Head(pending) \in visited
  /\ pending' = Tail(pending)
  /\ UNCHANGED <<site, visited, seen, present, outcome, faults>>

\* The links the page shows to some pages, in their order.
LinksTo(some) ==
  {links \in [1..Cardinality(some) -> some] :
     /\ \A i, j \in DOMAIN links : i < j => links[i] < links[j]
     /\ \A p \in some : \E i \in DOMAIN links : links[i] = p}

\* Mutant: only the links of the first page are followed.
FollowFromTheFirst(page) ==
  \E links \in LinksTo(IF page = 1 THEN Links(page) ELSE {}) : pending' = Tail(pending) \o links

\* The links to pages not visited yet go to the end of the queue.
Follow(page) ==
  \E links \in LinksTo(Links(page) \ (visited \cup {page})) : pending' = Tail(pending) \o links

ListingPage ==
  LET page == Head(pending) IN
  /\ Walking /\ page \notin visited
  /\ visited' = visited \cup {page}
  /\ seen' = seen \cup {e \in Listed(page) : e.day \in Period}
  /\ Follow(page)
  /\ UNCHANGED <<site, present, outcome, faults>>

\* A page does not answer: the listing fails as a whole.
ListingFails ==
  /\ Walking /\ Head(pending) \notin visited
  /\ Fault("pmsg")
  /\ outcome' = "failed"
  /\ UNCHANGED <<site, pending, visited, seen, present>>

ListPages ==
  /\ outcome = "walking" /\ ~Walking
  /\ outcome' = IF pending # <<>> THEN "overflow" ELSE "listed"
  /\ UNCHANGED <<site, pending, visited, seen, present, faults>>

NextPages ==
  /\ \/ \E e \in ToPublish : PublishEdition(e)
     \/ Skip \/ ListingPage \/ ListingFails \/ ListPages
     \/ outcome # "walking" /\ StartPages /\ UNCHANGED <<site, faults>>
  /\ UNCHANGED days

-----------------------------------------------------------------------------
(***************************************************************************)
(* cmsg.                                                                   *)
(***************************************************************************)

StartDays == day' = 1 /\ tries' = 0 /\ out' = {} /\ present' = served /\ outcome' = "walking"

InitDays ==
  /\ served \in SUBSET (1..Days)
  /\ day = 1 /\ tries = 0 /\ out = {} /\ present = served /\ outcome = "walking"
  /\ faults = 0

PublishDay(d) ==
  /\ d \notin served /\ served' = served \cup {d}
  /\ UNCHANGED <<day, tries, out, present, outcome, faults>>

Asking == outcome = "walking" /\ day <= Days

\* 200 is found, 404 is not.
Exists ==
  /\ Asking
  /\ out' = IF day \in served THEN out \cup {day} ELSE out
  /\ day' = day + 1 /\ tries' = 0
  /\ UNCHANGED <<served, present, outcome, faults>>

\* Mutant: a day whose HEAD fails three times is left out.
GiveUpOn(d) == UNCHANGED out

\* In doubt the day is listed.
InDoubt(d) == out' = out \cup {d}

\* No answer, or a status that is neither.
HeadFails ==
  /\ Asking /\ Fault("cmsg")
  /\ IF tries + 1 < MaxTries
     THEN tries' = tries + 1 /\ UNCHANGED <<day, out>>
     ELSE tries' = 0 /\ day' = day + 1 /\ InDoubt(day)
  /\ UNCHANGED <<served, present, outcome>>

\* The context ends: the listing fails, whatever it had found.
Cancel ==
  /\ Asking /\ Fault("cmsg")
  /\ outcome' = "failed"
  /\ UNCHANGED <<served, day, tries, out, present>>

ListDays ==
  /\ outcome = "walking" /\ day > Days
  /\ outcome' = "listed"
  /\ UNCHANGED <<served, day, tries, out, present, faults>>

NextDays ==
  /\ \/ \E d \in 1..Days : PublishDay(d)
     \/ Exists \/ HeadFails \/ Cancel \/ ListDays
     \/ outcome # "walking" /\ StartDays /\ UNCHANGED <<served, faults>>
  /\ UNCHANGED pages

-----------------------------------------------------------------------------
\* A walk that succeeds has every edition of the period the site listed all along,
\* whatever it published between two pages; one cut at MaxPages is never taken for whole.
WalkIsComplete ==
  outcome = "listed" => {e \in present : e.day \in Period} \subseteq seen

\* A listing that succeeds has every day the site served all along, and lists a day the
\* site does not serve only after it did not answer MaxTries times.
NoDayIsMissed ==
  outcome = "listed" =>
    /\ present \subseteq out
    /\ MaxTries * Cardinality(out \ served) <= faults
=============================================================================
