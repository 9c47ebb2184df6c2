--------------------------- MODULE Subscriptions ----------------------------
(***************************************************************************)
(* The life of a subscription: creation with its confirmation e-mail, and  *)
(* the two links a subscriber opens.  Confirm and Unsubscribe read the row, *)
(* change the copy and write its status back with an UPDATE by id, so the   *)
(* row may have changed in between.                                        *)
(***************************************************************************)
EXTENDS Naturals, FiniteSets

CONSTANTS
  Subs,      \* subscriptions
  Requests,  \* requests the API serves at the same time
  MaxFaults  \* bound on failed calls and dead requests

ASSUME SubscriptionsAssumption ==
  /\ Subs # {}
  /\ MaxFaults \in Nat

VARIABLES
  status,    \* status[s]: column status of the row, "none" without a row
  confirmed, \* subscriptions whose confirmed_at is set
  invited,   \* subscriptions whose confirmation e-mail reached the subscriber
  alerted,   \* subscriptions that received an alert, with its link to leave
  opened,    \* subscriptions whose confirmation link was opened
  pc,        \* pc[q]: the call request q makes next
  op,        \* op[q]: what q was asked
  sub,       \* sub[q]: the subscription q is about
  copy,      \* copy[q]: the status q will write
  faults     \* failed calls and dead requests so far

table   == <<status, confirmed>>
mailbox == <<invited, alerted, opened>>
request == <<pc, op, sub, copy>>
vars == <<status, confirmed, invited, alerted, opened, pc, op, sub, copy, faults>>

Statuses == {"none", "pending", "active", "cancelled"}
Calls == {"idle", "mail", "find", "update"}
Operations == {"none", "create", "confirm", "unsubscribe"}

AnySub == CHOOSE s \in Subs : TRUE

Init ==
  /\ status = [s \in Subs |-> "none"]
  /\ confirmed = {}
  /\ invited = {}
  /\ alerted = {}
  /\ opened = {}
  /\ pc = [q \in Requests |-> "idle"]
  /\ op = [q \in Requests |-> "none"]
  /\ sub = [q \in Requests |-> AnySub]
  /\ copy = [q \in Requests |-> "none"]
  /\ faults = 0

Fault == faults < MaxFaults /\ faults' = faults + 1

Answer(q) ==
  /\ pc' = [pc EXCEPT ![q] = "idle"]
  /\ op' = [op EXCEPT ![q] = "none"]
  /\ sub' = [sub EXCEPT ![q] = AnySub]
  /\ copy' = [copy EXCEPT ![q] = "none"]

Serve(q, what, s, call) ==
  /\ pc[q] = "idle"
  /\ op' = [op EXCEPT ![q] = what]
  /\ sub' = [sub EXCEPT ![q] = s]
  /\ pc' = [pc EXCEPT ![q] = call]
  /\ UNCHANGED copy

-----------------------------------------------------------------------------
\* Mutant: a subscription is active from the start.
CreateActive(q, s) ==
  /\ status[s] = "none"
  /\ Serve(q, "create", s, "mail")
  /\ status' = [status EXCEPT ![s] = "active"]
  /\ UNCHANGED <<confirmed, mailbox, faults>>

\* NewSubscription and the INSERT.
Create(q, s) ==
  /\ status[s] = "none"
  /\ Serve(q, "create", s, "mail")
  /\ status' = [status EXCEPT ![s] = "pending"]
  /\ UNCHANGED <<confirmed, mailbox, faults>>

\* SendConfirmation; nothing undoes the INSERT if it fails.
SendConfirmation(q) ==
  /\ pc[q] = "mail"
  /\ invited' = invited \union {sub[q]}
  /\ Answer(q)
  /\ UNCHANGED <<table, alerted, opened, faults>>

\* The alerts of an active subscription carry the link to leave.
Alert(s) ==
  /\ status[s] = "active"
  /\ alerted' = alerted \union {s}
  /\ UNCHANGED <<table, invited, opened, request, faults>>

\* A link can be opened any number of times, once it has been received.
OpenConfirm(q, s) ==
  /\ s \in invited
  /\ opened' = opened \union {s}
  /\ Serve(q, "confirm", s, "find")
  /\ UNCHANGED <<table, invited, alerted, faults>>

OpenUnsubscribe(q, s) ==
  /\ s \in alerted
  /\ Serve(q, "unsubscribe", s, "find")
  /\ UNCHANGED <<table, mailbox, faults>>

\* Mutant: Confirm does not refuse a cancelled subscription.
FindToConfirmAny(q) ==
  /\ pc[q] = "find" /\ op[q] = "confirm"
  /\ copy' = [copy EXCEPT ![q] = "active"]
  /\ pc' = [pc EXCEPT ![q] = "update"]
  /\ UNCHANGED <<table, mailbox, op, sub, faults>>

\* Confirm of the copy: it refuses a cancelled subscription, and an active one
\* stays active and is written all the same.
FindToConfirm(q) ==
  /\ pc[q] = "find" /\ op[q] = "confirm"
  /\ IF status[sub[q]] = "cancelled"
     THEN Answer(q)
     ELSE /\ copy' = [copy EXCEPT ![q] = "active"]
          /\ pc' = [pc EXCEPT ![q] = "update"]
          /\ UNCHANGED <<op, sub>>
  /\ UNCHANGED <<table, mailbox, faults>>

FindToCancel(q) ==
  /\ pc[q] = "find" /\ op[q] = "unsubscribe"
  /\ copy' = [copy EXCEPT ![q] = "cancelled"]
  /\ pc' = [pc EXCEPT ![q] = "update"]
  /\ UNCHANGED <<table, mailbox, op, sub, faults>>

\* UPDATE subscriptions SET status, confirmed_at WHERE id.
Write(q) ==
  /\ status' = [status EXCEPT ![sub[q]] = copy[q]]
  /\ confirmed' = IF copy[q] = "active" THEN confirmed \union {sub[q]} ELSE confirmed

Update(q) ==
  /\ pc[q] = "update"
  /\ Write(q)
  /\ Answer(q)
  /\ UNCHANGED <<mailbox, faults>>

\* A call fails, its effect done or not, or the request dies.
Fail(q) ==
  /\ pc[q] # "idle"
  /\ Fault
  /\ \/ UNCHANGED <<table, mailbox>>
     \/ pc[q] = "mail" /\ invited' = invited \union {sub[q]}
                       /\ UNCHANGED <<table, alerted, opened>>
     \/ pc[q] = "update" /\ Write(q) /\ UNCHANGED mailbox
  /\ Answer(q)

Next ==
  \/ \E s \in Subs : Alert(s)
  \/ \E q \in Requests, s \in Subs :
       Create(q, s) \/ OpenConfirm(q, s) \/ OpenUnsubscribe(q, s)
  \/ \E q \in Requests :
       \/ SendConfirmation(q)
       \/ FindToConfirm(q) \/ FindToCancel(q) \/ Update(q)
       \/ Fail(q)

Spec == Init /\ [][Next]_vars

-----------------------------------------------------------------------------
\* The variables hold values of the kinds the code gives them.
TypeOK ==
  /\ status \in [Subs -> Statuses]
  /\ confirmed \subseteq Subs
  /\ invited \subseteq Subs
  /\ alerted \subseteq Subs
  /\ opened \subseteq Subs
  /\ pc \in [Requests -> Calls]
  /\ op \in [Requests -> Operations]
  /\ sub \in [Requests -> Subs]
  /\ copy \in [Requests -> {"none", "active", "cancelled"}]
  /\ faults \in Nat

\* Nothing is sent without confirmation: an active subscription, and every
\* subscription that ever had an alert, is one whose link was opened, and its
\* confirmation is dated, however requests overlap and fail.
ActiveWasConfirmed ==
  \A s \in Subs : status[s] = "active" \/ s \in alerted
    => s \in opened /\ s \in confirmed

\* Cancelled, and no confirmation that found it otherwise is still under way.
Settled(s) ==
  /\ status[s] = "cancelled"
  /\ \A q \in Requests : pc[q] = "update" /\ sub[q] = s => copy[q] # "active"

StaysSettled == \A s \in Subs : Settled(s) => Settled(s)'

\* Once the confirmations that overlapped a cancellation are over, no link and
\* no failure brings the subscription back.
SettledIsFinal == [][StaysSettled]_vars

\* A cancelled subscription cannot be confirmed again.
CancelledIsFinal ==
  [][\A s \in Subs : status[s] = "cancelled" => status'[s] = "cancelled"]_vars
=============================================================================
