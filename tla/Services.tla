------------------------------ MODULE Services ------------------------------
(***************************************************************************)
(* The services of the API side by side: the subscriptions, the keys with  *)
(* their OAuth flow, the limiter, the cache of the patterns, the cache of   *)
(* the OCR and the sanctions.  They share no table, so a behaviour is one   *)
(* of a single service, chosen by the initial state; the variables of the   *)
(* others are not looked at.  The last section has the values TLC gives the *)
(* constants.                                                              *)
(***************************************************************************)
EXTENDS Subscriptions, Integers, Sequences, TLC

CONSTANTS
  Clients, Codes, Keys, Uris, Registered, Verifiers, Resources, Resource, NoResource,
  Callers, PerClient, Total, Window, MaxTime,
  Rows, Instances, MaxXid,
  Pages, Pdfs, Scanned, Readers,
  Registers, Listed, RegisterOf(_), EndsAt(_), MaxDay,
  None, Failures

VARIABLES
  service,
  client, code, row, key, grant, on, minted, held,
  now, windowStart, counts, used, admitted, everyone,
  xmin, open, nextXid, store, reports, known, fresh, draft, checked, changed, past, repeated,
  stored, entry, kind, pdf, asked, cached, out, spent, alone,
  today, file, cited, rows, at, load, saved, loaded,
  step       \* of a refresh of the patterns, a reader of a PDF or a load

subscription == <<status, confirmed, invited, alerted, opened, op, sub, copy>>
access   == <<client, code, row, key, grant, on, minted, held>>
limiter  == <<now, windowStart, counts, used, admitted, everyone>>
patterns == <<xmin, open, nextXid, store, reports, known, fresh, draft, checked,
              changed, past, repeated>>
ocr      == <<stored, entry, kind, pdf, asked, cached, out, spent, alone>>
sanctions == <<today, file, cited, rows, at, load, saved, loaded>>
ServiceVars == <<service, subscription, access, limiter, patterns, ocr, sanctions, step, pc, faults>>

Acc == INSTANCE Access WITH MaxFaults <- Failures

Lim == INSTANCE RateLimit

Pat == INSTANCE PatternCache WITH MaxFaults <- Failures

Ocr == INSTANCE OcrCache WITH MaxFaults <- Failures

San == INSTANCE Sanctions WITH
  Codes <- Listed, stored <- loaded, table <- rows, MaxFaults <- Failures

\* The absent value is none of the others; a redirect URI has four parts.
ASSUME AccessAssumption ==
  /\ None \notin Codes \union Keys \union Acc!Columns
  /\ \A u \in Uris : u = [scheme |-> u.scheme, host |-> u.host, port |-> u.port, path |-> u.path]
  /\ Registered \in [Clients -> SUBSET Uris]

\* A limiter lets something through, and its window is not empty.
ASSUME LimiterAssumption ==
  PerClient \in Nat \ {0} /\ Total \in Nat \ {0} /\ Window \in Nat \ {0} /\ MaxTime \in Nat

\* A page to be read by the OCR is a page of its PDF.
ASSUME OcrAssumption == None \notin Pdfs /\ Scanned \in [Pdfs -> SUBSET Pages]

\* The tables are finite, and no fingerprint is the absent value.
ASSUME PatternsAssumption ==
  IsFiniteSet(Rows) /\ MaxXid \in Nat /\ None \notin [count : Nat, latest : Nat]

\* Each sanction is of one of the registers, which a load reads once each.
ASSUME SanctionsAssumption ==
  /\ IsFiniteSet(Listed) /\ MaxDay \in Nat \ {0}
  /\ Registers \in Seq(San!RegisterSet) /\ Registers # << >>
  /\ \A i, j \in DOMAIN Registers : Registers[i] = Registers[j] => i = j
  /\ \A c \in Listed : RegisterOf(c) \in San!RegisterSet
  /\ None \notin [first : Nat, last : Nat]

NoSubscription ==
  /\ status = 0 /\ confirmed = 0 /\ invited = 0 /\ alerted = 0 /\ opened = 0
  /\ op = 0 /\ sub = 0 /\ copy = 0

NoAccess ==
  /\ client = 0 /\ code = 0 /\ row = 0 /\ key = 0 /\ grant = 0
  /\ on = 0 /\ minted = 0 /\ held = 0

NoLimiter == now = 0 /\ windowStart = 0 /\ counts = 0 /\ used = 0 /\ admitted = 0 /\ everyone = 0

NoPatterns ==
  /\ xmin = 0 /\ open = 0 /\ nextXid = 0 /\ store = 0 /\ reports = 0
  /\ known = 0 /\ fresh = 0 /\ draft = 0 /\ checked = 0 /\ changed = 0
  /\ past = 0 /\ repeated = 0

NoOcr ==
  /\ stored = 0 /\ entry = 0 /\ kind = 0 /\ pdf = 0 /\ asked = 0
  /\ cached = 0 /\ out = 0 /\ spent = 0 /\ alone = 0

NoSanctions ==
  /\ today = 0 /\ file = 0 /\ cited = 0 /\ rows = 0 /\ at = 0
  /\ load = 0 /\ saved = 0 /\ loaded = 0

ServicesInit ==
  /\ service \in {"subscriptions", "access", "limiter", "patterns", "ocr", "sanctions"}
  /\ IF service = "subscriptions" THEN Init ELSE NoSubscription
  /\ IF service = "access" THEN Acc!Init ELSE NoAccess
  /\ IF service = "limiter" THEN Lim!Init ELSE NoLimiter
  /\ IF service = "patterns" THEN Pat!Init ELSE NoPatterns
  /\ IF service = "ocr" THEN Ocr!Init ELSE NoOcr
  /\ IF service = "sanctions" THEN San!Init ELSE NoSanctions
  /\ IF service \in {"patterns", "ocr", "sanctions"} THEN pc = 0 ELSE step = 0
  /\ service = "limiter" => pc = 0 /\ faults = 0

ServicesNext ==
  /\ UNCHANGED service
  /\ IF service = "subscriptions" THEN Next ELSE UNCHANGED subscription
  /\ IF service = "access" THEN Acc!Next ELSE UNCHANGED access
  /\ IF service = "limiter" THEN Lim!Next ELSE UNCHANGED limiter
  /\ IF service = "patterns" THEN Pat!Next ELSE UNCHANGED patterns
  /\ IF service = "ocr" THEN Ocr!Next ELSE UNCHANGED ocr
  /\ IF service = "sanctions" THEN San!Next ELSE UNCHANGED sanctions
  /\ IF service \in {"patterns", "ocr", "sanctions"} THEN UNCHANGED pc ELSE UNCHANGED step
  /\ service = "limiter" => UNCHANGED <<pc, faults>>

ServicesSpec == ServicesInit /\ [][ServicesNext]_ServiceVars

\* Nothing is sent without confirmation.
SubsActiveWasConfirmed == service = "subscriptions" => TypeOK /\ ActiveWasConfirmed

\* Only a confirmation already under way can undo a cancellation.
SubsSettledIsFinal == [][service = "subscriptions" => StaysSettled]_ServiceVars

\* A code is worth at most one key, of a client that is registered, for an address
\* it consented to.
AccessSafe ==
  service = "access" =>
    Acc!TypeOK /\ Acc!OneKeyPerCode /\ Acc!KeyWasConsented /\ Acc!CodeHasClient

\* The exchange of codes is a one-time grant, and nothing removes a client once its
\* exchange was marked.
ImplementsGrant ==
  /\ service = "access" => Acc!Grant!Init
  /\ [][service = "access" => [Acc!Grant!Next]_(Acc!Grant!vars) /\ Acc!UsedClientsStay]_ServiceVars

\* No stretch as long as a window lets through more than twice a limit, and a caller
\* is refused only for calls of the last window.
LimiterSafe ==
  service = "limiter" => Lim!TypeOK /\ Lim!BurstIsBounded /\ Lim!RefusedForRecentCalls

\* Fresh reports of the patterns are current, unless two states of the tables had
\* the fingerprint they are kept under.
ServedIsCurrent == service = "patterns" => Pat!TypeOK /\ Pat!ServedIsCurrent

\* Nobody is handed the text of another version of the edition, and a reindexing
\* that ends well has read every scanned page.
OcrSafe == service = "ocr" => Ocr!TypeOK /\ Ocr!TextIsOfItsPdf /\ Ocr!ReindexLeavesNothing

\* Nothing that failed or is late makes a sanction look removed, and what a report
\* skips is what the base does not cite.
SanctionsSafe == service = "sanctions" => San!TypeOK /\ San!DelistedIsGone /\ San!SkippedIsUncited

\* The cache of the OCR loses pages only to a failed load or to readers of one PDF,
\* and the history of the sanctions only grows.
StoredIsKept ==
  [][/\ service = "ocr" => Ocr!LosesOnlyToRaces
     /\ service = "sanctions" => San!HistoryGrows]_ServiceVars

-----------------------------------------------------------------------------
\* Only clients that never exchanged a code are removed: one that was answered
\* with a key is still registered.
ExchangedClientStays == service = "access" => Acc!ExchangedClientStays

\* A sanction that is shown as in its register is in the last file the base took of it.
ListedIsInTheFile == service = "sanctions" => San!ListedIsInTheFile


-----------------------------------------------------------------------------
CONSTANTS c1, c2, d1, d2, k1, k2, q1, q2, own, none, a, b

Local(port) == [scheme |-> "http", host |-> "localhost", port |-> port, path |-> "/cb"]
Remote(path) == [scheme |-> "https", host |-> "host", port |-> "", path |-> path]

MCUris == {Local("1"), Local("2"), Remote("/cb"), Remote("/x")}
MCRegistered == c1 :> {Local("1")} @@ c2 :> {Remote("/cb")}

MCScanned == a :> {1, 2} @@ b :> {2}

MCRegisters == <<"CEIS", "CEPIM">>
MCRegisterOf(c) == IF c = b THEN "CEPIM" ELSE "CEIS"
MCEndsAt(c) == IF c = b THEN 2 ELSE 3

MCSymmetry ==
  Permutations({q1, q2}) \union Permutations({d1, d2}) \union Permutations({k1, k2})
=============================================================================
