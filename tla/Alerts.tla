------------------------------- MODULE Alerts -------------------------------
(***************************************************************************)
(* Delivery of e-mail alerts: the handler of gazette.indexed               *)
(* (MatchSubscriptions), the table notifications_sent it reserves alerts   *)
(* in, the push subscription that redelivers the event, and the e-mail     *)
(* provider with its idempotency keys.                                     *)
(*                                                                         *)
(* A delivery is one execution of the handler.  It lists the active        *)
(* subscriptions once and then, for each of them, reserves the pair        *)
(* (subscription, edition), searches the edition, sends and records.       *)
(* Several deliveries of one event, or of two events about one edition,    *)
(* run at the same time, and any of them may die between two steps.        *)
(***************************************************************************)
EXTENDS Naturals, FiniteSets, TLC

CONSTANTS
  Subs,          \* subscriptions
  Gazettes,      \* indexed editions
  Messages,      \* gazette.indexed messages the publishers may send
  EventOf,       \* the edition each message is about
  Deliveries,    \* executions of the push handler that may run together
  BrokenFilters, \* subscriptions whose stored filter no longer normalizes
  Bodies,        \* contents an alert may have
  NoHits,        \* the search found nothing to send
  Matches,       \* [key -> [index version -> Bodies \union {NoHits}]]
  NoBody,        \* the provider remembers no body for a key
  NoOne,         \* the reservation has no owner
  SlowHolders,   \* TRUE: a running delivery may outlive its reservation
  MaxAttempts,   \* max_delivery_attempts of the push subscription
  MaxFaults,     \* bound on failed calls and crashes
  MaxReindex,    \* bound on reindexations of an edition
  MaxForgets     \* bound on keys the provider drops after 24 hours

Keys == Subs \X Gazettes

ASSUME AlertsAssumption ==
  /\ IsFiniteSet(Subs)
  /\ Subs # {} /\ Messages # {}
  /\ BrokenFilters \subseteq Subs
  /\ EventOf \in [Messages -> Gazettes]
  /\ NoHits \notin Bodies
  /\ NoBody \notin Bodies \union {NoHits}
  /\ NoOne \notin Deliveries
  /\ SlowHolders \in BOOLEAN
  /\ MaxAttempts \in Nat \ {0}
  /\ MaxFaults \in Nat
  /\ MaxReindex \in Nat
  /\ MaxForgets \in Nat
  /\ Matches \in [Keys -> [0..MaxReindex -> Bodies \union {NoHits}]]

VARIABLES
  active,     \* subscriptions with status 'active'
  version,    \* version[g]: how many times the acts of g were replaced
  row,        \* row[k]: status of k in notifications_sent, "none" if absent
  expired,    \* expired[k]: claimed_at is older than the lease
  owner,      \* owner[k]: delivery that reserved k (the table does not say)
  msg,        \* msg[m]: the message in the push subscription
  attempts,   \* attempts[m]: deliveries of m so far
  pc,         \* pc[d]: the call delivery d makes next
  event,      \* event[d]: the message d is handling
  todo,       \* todo[d]: subscriptions of the loop not yet visited
  sub,        \* sub[d]: the subscription being notified
  body,       \* body[d]: what the search of d returned
  failed,     \* failed[d]: the loop has collected an error
  remembered, \* remembered[k]: body the provider keeps under the key of k
  emails,     \* emails[k]: e-mails that reached the subscriber
  forgets,    \* forgets[k]: times the provider dropped the key of k
  faults      \* failed calls and crashes so far

table    == <<row, expired, owner>>
queue    == <<msg, attempts>>
local    == <<event, todo, sub, body, failed>>
provider == <<remembered, emails, forgets>>
index    == <<active, version>>
vars == <<active, version, row, expired, owner, msg, attempts, pc, event, todo,
          sub, body, failed, remembered, emails, forgets, faults>>

Rows   == {"none", "pending", "sent"}
States == {"unpublished", "queued", "acked", "dead"}
Steps  == {"idle", "list", "loop", "search", "send", "mark", "release"}
Holding == {"search", "send", "mark", "release"}

\* The key of the alert delivery d is working on.
Key(d) == <<sub[d], EventOf[event[d]]>>

\* What the variables of an idle delivery hold.
AnyMessage == CHOOSE m \in Messages : TRUE
AnySub == CHOOSE s \in Subs : TRUE

Init ==
  /\ active \in SUBSET Subs
  /\ version = [g \in Gazettes |-> 0]
  /\ row = [k \in Keys |-> "none"]
  /\ expired = [k \in Keys |-> FALSE]
  /\ owner = [k \in Keys |-> NoOne]
  /\ msg = [m \in Messages |-> "unpublished"]
  /\ attempts = [m \in Messages |-> 0]
  /\ pc = [d \in Deliveries |-> "idle"]
  /\ event = [d \in Deliveries |-> AnyMessage]
  /\ todo = [d \in Deliveries |-> {}]
  /\ sub = [d \in Deliveries |-> AnySub]
  /\ body = [d \in Deliveries |-> NoHits]
  /\ failed = [d \in Deliveries |-> FALSE]
  /\ remembered = [k \in Keys |-> NoBody]
  /\ emails = [k \in Keys |-> 0]
  /\ forgets = [k \in Keys |-> 0]
  /\ faults = 0

-----------------------------------------------------------------------------
(***************************************************************************)
(* The rest of the system, as the handler sees it.                         *)
(***************************************************************************)

\* IndexGazette announces an edition, for the first time or once more.
Publish(m) ==
  /\ msg[m] = "unpublished"
  /\ msg' = [msg EXCEPT ![m] = "queued"]
  /\ UNCHANGED <<index, table, attempts, pc, local, provider, faults>>

\* A subscriber leaves while editions are being matched.
Unsubscribe(s) ==
  /\ s \in active
  /\ active' = active \ {s}
  /\ UNCHANGED <<version, table, queue, pc, local, provider, faults>>

\* ReindexGazettes replaces the acts: later searches may find other hits.
Reindex(g) ==
  /\ version[g] < MaxReindex
  /\ version' = [version EXCEPT ![g] = @ + 1]
  /\ UNCHANGED <<active, table, queue, pc, local, provider, faults>>

\* Two minutes go by since claimed_at.
LeaseExpires(k) ==
  /\ row[k] = "pending" /\ ~expired[k]
  /\ SlowHolders \/ \A d \in Deliveries :
                      ~(pc[d] \in Holding /\ Key(d) = k /\ owner[k] = d)
  /\ expired' = [expired EXCEPT ![k] = TRUE]
  /\ UNCHANGED <<index, row, owner, queue, pc, local, provider, faults>>

\* The provider keeps a key for 24 hours.
ForgetKey(k) ==
  /\ remembered[k] # NoBody
  /\ forgets[k] < MaxForgets
  /\ remembered' = [remembered EXCEPT ![k] = NoBody]
  /\ forgets' = [forgets EXCEPT ![k] = @ + 1]
  /\ UNCHANGED <<index, table, queue, pc, local, emails, faults>>

\* The push subscription gives up and moves the message to the dead letters.
DeadLetter(m) ==
  /\ msg[m] = "queued"
  /\ attempts[m] = MaxAttempts
  /\ \A d \in Deliveries : pc[d] = "idle" \/ event[d] # m
  /\ msg' = [msg EXCEPT ![m] = "dead"]
  /\ UNCHANGED <<index, table, attempts, pc, local, provider, faults>>

-----------------------------------------------------------------------------
(***************************************************************************)
(* One delivery.                                                           *)
(***************************************************************************)

\* Mutant: deliveries are not limited.
StartUnlimited(d, m) ==
  /\ pc[d] = "idle"
  /\ msg[m] \in {"queued", "acked"}
  /\ attempts' = [attempts EXCEPT ![m] = @ + 1]
  /\ pc' = [pc EXCEPT ![d] = "list"]
  /\ event' = [event EXCEPT ![d] = m]
  /\ UNCHANGED <<index, table, msg, todo, sub, body, failed, provider, faults>>

\* At-least-once: a message is pushed again while another delivery of it is
\* running, and even after it was acknowledged.
Start(d, m) ==
  /\ pc[d] = "idle"
  /\ msg[m] \in {"queued", "acked"}
  /\ attempts[m] < MaxAttempts
  /\ attempts' = [attempts EXCEPT ![m] = @ + 1]
  /\ pc' = [pc EXCEPT ![d] = "list"]
  /\ event' = [event EXCEPT ![d] = m]
  /\ UNCHANGED <<index, table, msg, todo, sub, body, failed, provider, faults>>

ListActive(d) ==
  /\ pc[d] = "list"
  /\ todo' = [todo EXCEPT ![d] = active]
  /\ pc' = [pc EXCEPT ![d] = "loop"]
  /\ UNCHANGED <<index, table, queue, event, sub, body, failed, provider, faults>>

Fault == faults < MaxFaults /\ faults' = faults + 1

\* Mutant: the upsert takes a row of any status whose lease is over.
FreeWhenExpired(k) == row[k] = "none" \/ expired[k]

\* Mutant: the upsert does not look at the lease.
FreeUnlessSent(k) == row[k] # "sent"

Free(k) == row[k] = "none" \/ (row[k] = "pending" /\ expired[k])

Reserve(d, k) ==
  /\ row' = [row EXCEPT ![k] = "pending"]
  /\ expired' = [expired EXCEPT ![k] = FALSE]
  /\ owner' = [owner EXCEPT ![k] = d]

Visit(d, s) ==
  /\ pc[d] = "loop"
  /\ s \in todo[d]
  /\ todo' = [todo EXCEPT ![d] = @ \ {s}]

\* Claim answers ClaimAcquired.
Acquire(d, s) ==
  LET k == <<s, EventOf[event[d]]>> IN
  /\ Visit(d, s)
  /\ Free(k)
  /\ Reserve(d, k)
  /\ sub' = [sub EXCEPT ![d] = s]
  /\ pc' = [pc EXCEPT ![d] = "search"]
  /\ UNCHANGED <<index, queue, event, body, failed, provider, faults>>

\* Claim answers ClaimAlreadySent: nothing left to do for this subscription.
FindSent(d, s) ==
  /\ Visit(d, s)
  /\ row[<<s, EventOf[event[d]]>>] = "sent"
  /\ UNCHANGED <<index, table, queue, pc, event, sub, body, failed, provider, faults>>

\* Mutant: a reservation of another delivery is not an error.
FindInProgressAndPass(d, s) ==
  LET k == <<s, EventOf[event[d]]>> IN
  /\ Visit(d, s)
  /\ row[k] = "pending" /\ ~expired[k]
  /\ UNCHANGED <<index, table, queue, pc, event, sub, body, failed, provider, faults>>

\* Claim answers ClaimInProgress: the event has to come back.
FindInProgress(d, s) ==
  LET k == <<s, EventOf[event[d]]>> IN
  /\ Visit(d, s)
  /\ row[k] = "pending" /\ ~expired[k]
  /\ failed' = [failed EXCEPT ![d] = TRUE]
  /\ UNCHANGED <<index, table, queue, pc, event, sub, body, provider, faults>>

\* Claim returns an error, its statement committed or not.
ClaimFails(d, s) ==
  LET k == <<s, EventOf[event[d]]>> IN
  /\ Visit(d, s)
  /\ Fault
  /\ failed' = [failed EXCEPT ![d] = TRUE]
  /\ \/ Free(k) /\ Reserve(d, k)
     \/ UNCHANGED table
  /\ UNCHANGED <<index, queue, pc, event, sub, body, provider>>

\* hitsFor answers: with hits the alert is sent, without it is given up.
Search(d) ==
  LET found == Matches[Key(d)][version[EventOf[event[d]]]] IN
  /\ pc[d] = "search"
  /\ sub[d] \notin BrokenFilters
  /\ body' = [body EXCEPT ![d] = found]
  /\ pc' = [pc EXCEPT ![d] = IF found = NoHits THEN "release" ELSE "send"]
  /\ UNCHANGED <<index, table, queue, event, todo, sub, failed, provider, faults>>

\* Mutant: the first error ends the loop.
SearchFailsAndStops(d) ==
  /\ pc[d] = "search"
  /\ IF sub[d] \in BrokenFilters THEN UNCHANGED faults ELSE Fault
  /\ failed' = [failed EXCEPT ![d] = TRUE]
  /\ pc' = [pc EXCEPT ![d] = "release"]
  /\ todo' = [todo EXCEPT ![d] = {}]
  /\ UNCHANGED <<index, table, queue, event, sub, body, provider>>

\* hitsFor returns an error: always for a filter that no longer normalizes.
SearchFails(d) ==
  /\ pc[d] = "search"
  /\ IF sub[d] \in BrokenFilters THEN UNCHANGED faults ELSE Fault
  /\ failed' = [failed EXCEPT ![d] = TRUE]
  /\ pc' = [pc EXCEPT ![d] = "release"]
  /\ UNCHANGED <<index, table, queue, event, todo, sub, body, provider>>

\* Mutant: alerts are sent without an idempotency key.
DeliverWithoutKey(k, b) ==
  /\ emails' = [emails EXCEPT ![k] = @ + 1]
  /\ remembered' = [remembered EXCEPT ![k] = b]
  /\ UNCHANGED forgets

\* The provider accepts a body under a key it does not remember, answers as
\* before to the same body, and refuses another body with a 409.
Deliver(k, b) ==
  IF remembered[k] = NoBody
  THEN /\ emails' = [emails EXCEPT ![k] = @ + 1]
       /\ remembered' = [remembered EXCEPT ![k] = b]
       /\ UNCHANGED forgets
  ELSE UNCHANGED provider

\* SendMatches succeeds, or fails with ErrAlreadyNotified, which counts as sent.
Send(d) ==
  /\ pc[d] = "send"
  /\ Deliver(Key(d), body[d])
  /\ pc' = [pc EXCEPT ![d] = "mark"]
  /\ UNCHANGED <<index, table, queue, local, faults>>

\* Mutant: any error of the provider counts as sent.
SendFailsAndMarks(d) ==
  /\ pc[d] = "send"
  /\ Fault
  /\ Deliver(Key(d), body[d]) \/ UNCHANGED provider
  /\ pc' = [pc EXCEPT ![d] = "mark"]
  /\ UNCHANGED <<index, table, queue, local>>

\* SendMatches fails: refused, or accepted with the answer lost.
SendFails(d) ==
  /\ pc[d] = "send"
  /\ Fault
  /\ Deliver(Key(d), body[d]) \/ UNCHANGED provider
  /\ failed' = [failed EXCEPT ![d] = TRUE]
  /\ pc' = [pc EXCEPT ![d] = "release"]
  /\ UNCHANGED <<index, table, queue, event, todo, sub, body>>

RecordSent(k) ==
  /\ row' = [row EXCEPT ![k] = "sent"]
  /\ UNCHANGED <<expired, owner>>

MarkSent(d) ==
  /\ pc[d] = "mark"
  /\ RecordSent(Key(d))
  /\ pc' = [pc EXCEPT ![d] = "loop"]
  /\ UNCHANGED <<index, queue, local, provider, faults>>

MarkSentFails(d) ==
  /\ pc[d] = "mark"
  /\ Fault
  /\ RecordSent(Key(d)) \/ UNCHANGED table
  /\ failed' = [failed EXCEPT ![d] = TRUE]
  /\ pc' = [pc EXCEPT ![d] = "loop"]
  /\ UNCHANGED <<index, queue, event, todo, sub, body, provider>>

\* Mutant: the DELETE does not look at the status.
DeleteAny(k) ==
  /\ row' = [row EXCEPT ![k] = "none"]
  /\ expired' = [expired EXCEPT ![k] = FALSE]
  /\ owner' = [owner EXCEPT ![k] = NoOne]

\* The DELETE asks for a pending row, not for the reservation of this delivery.
DeletePending(k) ==
  IF row[k] = "pending"
  THEN /\ row' = [row EXCEPT ![k] = "none"]
       /\ expired' = [expired EXCEPT ![k] = FALSE]
       /\ owner' = [owner EXCEPT ![k] = NoOne]
  ELSE UNCHANGED table

Release(d) ==
  /\ pc[d] = "release"
  /\ DeletePending(Key(d))
  /\ pc' = [pc EXCEPT ![d] = "loop"]
  /\ UNCHANGED <<index, queue, local, provider, faults>>

ReleaseFails(d) ==
  /\ pc[d] = "release"
  /\ Fault
  /\ DeletePending(Key(d)) \/ UNCHANGED table
  /\ failed' = [failed EXCEPT ![d] = TRUE]
  /\ pc' = [pc EXCEPT ![d] = "loop"]
  /\ UNCHANGED <<index, queue, event, todo, sub, body, provider>>

GoIdle(d) ==
  /\ pc' = [pc EXCEPT ![d] = "idle"]
  /\ event' = [event EXCEPT ![d] = AnyMessage]
  /\ todo' = [todo EXCEPT ![d] = {}]
  /\ sub' = [sub EXCEPT ![d] = AnySub]
  /\ body' = [body EXCEPT ![d] = NoHits]
  /\ failed' = [failed EXCEPT ![d] = FALSE]

\* 204 when no subscription failed, 500 otherwise.
Reply(d) ==
  LET m == event[d] IN
  /\ pc[d] = "loop"
  /\ todo[d] = {}
  /\ msg' = IF failed[d] \/ msg[m] # "queued" THEN msg ELSE [msg EXCEPT ![m] = "acked"]
  /\ GoIdle(d)
  /\ UNCHANGED <<index, table, attempts, provider, faults>>

\* The process dies, the push times out, or FindByID or ListActive fails.
Abort(d) ==
  /\ pc[d] # "idle"
  /\ Fault
  /\ GoIdle(d)
  /\ UNCHANGED <<index, table, queue, provider>>

-----------------------------------------------------------------------------
Work(d) ==
  \/ ListActive(d)
  \/ \E s \in Subs : Acquire(d, s) \/ FindSent(d, s) \/ FindInProgress(d, s)
  \/ Search(d)
  \/ sub[d] \in BrokenFilters /\ SearchFails(d)
  \/ Send(d)
  \/ MarkSent(d)
  \/ Release(d)
  \/ Reply(d)

Next ==
  \/ \E m \in Messages : Publish(m) \/ DeadLetter(m)
  \/ \E s \in Subs : Unsubscribe(s)
  \/ \E g \in Gazettes : Reindex(g)
  \/ \E k \in Keys : LeaseExpires(k) \/ ForgetKey(k)
  \/ \E d \in Deliveries, m \in Messages : Start(d, m)
  \/ \E d \in Deliveries :
       \/ ListActive(d)
       \/ \E s \in Subs : \/ Acquire(d, s)
                          \/ FindSent(d, s)
                          \/ FindInProgress(d, s)
                          \/ ClaimFails(d, s)
       \/ Search(d) \/ SearchFails(d)
       \/ Send(d) \/ SendFails(d)
       \/ MarkSent(d) \/ MarkSentFails(d)
       \/ Release(d) \/ ReleaseFails(d)
       \/ Reply(d) \/ Abort(d)

Spec == Init /\ [][Next]_vars

-----------------------------------------------------------------------------
(***************************************************************************)
(* Properties.                                                             *)
(***************************************************************************)

\* The variables hold values of the kinds the code gives them.
TypeOK ==
  /\ active \subseteq Subs
  /\ version \in [Gazettes -> 0..MaxReindex]
  /\ row \in [Keys -> Rows]
  /\ expired \in [Keys -> BOOLEAN]
  /\ owner \in [Keys -> Deliveries \union {NoOne}]
  /\ msg \in [Messages -> States]
  /\ attempts \in [Messages -> 0..MaxAttempts]
  /\ pc \in [Deliveries -> Steps]
  /\ event \in [Deliveries -> Messages]
  /\ todo \in [Deliveries -> SUBSET Subs]
  /\ sub \in [Deliveries -> Subs]
  /\ body \in [Deliveries -> Bodies \union {NoHits}]
  /\ failed \in [Deliveries -> BOOLEAN]
  /\ remembered \in [Keys -> Bodies \union {NoHits, NoBody}]
  /\ emails \in [Keys -> Nat]
  /\ forgets \in [Keys -> Nat]
  /\ faults \in Nat

\* While the provider remembers its key, an alert reaches the subscriber once,
\* however the deliveries of the event overlap, fail and outlive their
\* reservations: a second e-mail takes a key dropped in between.
OneEmailPerKeyLife == \A k \in Keys : emails[k] <= 1 + forgets[k]

\* A row says 'sent' only if the provider has accepted an e-mail for it.
SentWasAccepted == \A k \in Keys : row[k] = "sent" => emails[k] >= 1

\* Every search for s in g, in whatever version of the index, finds hits.
AlwaysFound(s, g) ==
  /\ s \notin BrokenFilters
  /\ \A v \in 0..MaxReindex : Matches[<<s, g>>][v] # NoHits

\* An acknowledged event leaves no alert behind: whoever is active and has hits
\* in every version of the index has received the e-mail and is recorded.  A
\* delivery that lost a reservation, or one of whose calls failed, must not
\* have answered 204.
AckLeavesNoAlertBehind ==
  \A m \in Messages : \A s \in active :
    msg[m] = "acked" /\ AlwaysFound(s, EventOf[m])
      => row[<<s, EventOf[m]>>] = "sent" /\ emails[<<s, EventOf[m]>>] >= 1

\* Deliveries that were told ClaimAcquired for k and have not finished with it.
Holders(k) == {d \in Deliveries : pc[d] \in Holding /\ Key(d) = k}

\* Only the delivery that reserved an alert searches and sends it, as long as
\* the two minutes of the reservation cover both (SlowHolders = FALSE).
OneHolder == \A k \in Keys : Cardinality(Holders(k)) <= 1

\* 'sent' is final: neither a late Release nor a late Claim takes it back.
SentIsFinal ==
  [][\A k \in Keys : row[k] = "sent" => row'[k] = "sent"]_vars

\* The deliveries implement what the alerts promise: every step of theirs is an
\* e-mail under a new key, a recording, a dropped key, or nothing at all to the
\* subscriber.
Promise == INSTANCE AlertPromise WITH
  recorded <- [k \in Keys |-> row[k] = "sent"],
  keyed <- [k \in Keys |-> remembered[k] # NoBody]

ImplementsPromise == Promise!Spec

\* The table promises one alert for each subscription and edition.
AtMostOneAlert == \A k \in Keys : emails[k] <= 1

\* A queued event reaches whoever has hits, even when another subscription
\* fails on every delivery; it may be missed only if the subscriber leaves or
\* if a call failed and the deliveries of a message ran out.
AlertArrives ==
  \A m \in Messages, s \in Subs :
    msg[m] = "queued" /\ s \in active /\ AlwaysFound(s, EventOf[m])
      ~> \/ emails[<<s, EventOf[m]>>] >= 1
         \/ s \notin active
         \/ faults > 0 /\ \E n \in Messages : msg[n] = "dead"

-----------------------------------------------------------------------------
(***************************************************************************)
(* The values TLC gives the constants.                                     *)
(***************************************************************************)
CONSTANTS s1, s2, g1, m1, m2, d1, d2, b1, b2

\* Both messages announce the same edition: a republication.
MCEventOf == [m \in Messages |-> g1]

\* s1 has hits that a reindexation changes; s2 has hits only before it.
MCMatches ==
  [k \in Keys |-> [v \in 0..MaxReindex |->
    IF v = 0 THEN b1 ELSE IF k[1] = s1 THEN b2 ELSE NoHits]]

DeliverySymmetry == Permutations(Deliveries)
=============================================================================
