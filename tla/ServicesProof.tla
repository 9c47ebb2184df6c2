---------------------------- MODULE ServicesProof ----------------------------
(***************************************************************************)
(* Proofs about the services of the API, one section for each, and about   *)
(* the composition that the runs check, for any values of the constants.   *)
(***************************************************************************)
EXTENDS Services, TLAPS, FiniteSetTheorems, WellFoundedInduction

LEMMA AnySubType == AnySub \in Subs
  BY SubscriptionsAssumption DEF AnySub

LEMMA TypeInit == Init => TypeOK
  BY AnySubType DEF Init, TypeOK, Statuses, Calls, Operations

\* The requests keep their types: the steps below change nothing else of them.
RequestType ==
  /\ pc \in [Requests -> Calls]
  /\ op \in [Requests -> Operations]
  /\ sub \in [Requests -> Subs]
  /\ copy \in [Requests -> {"none", "active", "cancelled"}]

LEMMA AnswerType ==
  ASSUME RequestType, NEW q \in Requests, Answer(q)
  PROVE  RequestType'
  BY AnySubType DEF RequestType, Answer, Calls, Operations

LEMMA ServeType ==
  ASSUME RequestType, NEW q \in Requests, NEW s \in Subs,
         NEW what \in Operations, NEW call \in Calls, Serve(q, what, s, call)
  PROVE  RequestType'
  BY DEF RequestType, Serve

LEMMA WriteType ==
  ASSUME TypeOK, NEW q \in Requests, Write(q)
  PROVE  status' \in [Subs -> Statuses] /\ confirmed' \subseteq Subs
  BY DEF TypeOK, Write, Statuses

LEMMA TypeStep == TypeOK /\ [Next]_vars => TypeOK'
<1> SUFFICES ASSUME TypeOK, [Next]_vars PROVE TypeOK'
  OBVIOUS
<1>a. RequestType
  BY DEF TypeOK, RequestType
<1>1. ASSUME NEW s \in Subs, Alert(s) PROVE TypeOK'
  BY <1>1 DEF Alert, TypeOK, table, request
<1>2. ASSUME NEW q \in Requests, NEW s \in Subs, Create(q, s) PROVE TypeOK'
  <2>1. Serve(q, "create", s, "mail")
    BY <1>2 DEF Create
  <2>2. RequestType'
    BY <1>a, <2>1, ServeType DEF Operations, Calls
  <2> QED
    BY <1>2, <2>2 DEF Create, TypeOK, RequestType, Statuses, mailbox
<1>3. ASSUME NEW q \in Requests, SendConfirmation(q) PROVE TypeOK'
  <2>1. RequestType'
    BY <1>a, <1>3, AnswerType DEF SendConfirmation
  <2> QED
    BY <1>3, <2>1 DEF SendConfirmation, TypeOK, RequestType, table
<1>4. ASSUME NEW q \in Requests, NEW s \in Subs, OpenConfirm(q, s) PROVE TypeOK'
  <2>1. Serve(q, "confirm", s, "find")
    BY <1>4 DEF OpenConfirm
  <2>2. RequestType'
    BY <1>a, <2>1, ServeType DEF Operations, Calls
  <2> QED
    BY <1>4, <2>2 DEF OpenConfirm, TypeOK, RequestType, table
<1>5. ASSUME NEW q \in Requests, NEW s \in Subs, OpenUnsubscribe(q, s) PROVE TypeOK'
  <2>1. Serve(q, "unsubscribe", s, "find")
    BY <1>5 DEF OpenUnsubscribe
  <2>2. RequestType'
    BY <1>a, <2>1, ServeType DEF Operations, Calls
  <2> QED
    BY <1>5, <2>2 DEF OpenUnsubscribe, TypeOK, RequestType, table, mailbox
<1>6. ASSUME NEW q \in Requests, FindToConfirm(q) PROVE TypeOK'
  <2>1. CASE status[sub[q]] = "cancelled"
    <3>1. RequestType'
      BY <1>a, <1>6, <2>1, AnswerType DEF FindToConfirm
    <3> QED
      BY <1>6, <3>1 DEF FindToConfirm, TypeOK, RequestType, table, mailbox
  <2>2. CASE status[sub[q]] # "cancelled"
    BY <1>6, <2>2 DEF FindToConfirm, TypeOK, Calls, table, mailbox
  <2> QED
    BY <2>1, <2>2
<1>7. ASSUME NEW q \in Requests, FindToCancel(q) PROVE TypeOK'
  BY <1>7 DEF FindToCancel, TypeOK, Calls, table, mailbox
<1>8. ASSUME NEW q \in Requests, Update(q) PROVE TypeOK'
  <2>1. RequestType'
    BY <1>a, <1>8, AnswerType DEF Update
  <2>2. status' \in [Subs -> Statuses] /\ confirmed' \subseteq Subs
    BY <1>8, WriteType DEF Update
  <2> QED
    BY <1>8, <2>1, <2>2 DEF Update, TypeOK, RequestType, mailbox
<1>9. ASSUME NEW q \in Requests, Fail(q) PROVE TypeOK'
  <2>1. RequestType'
    BY <1>a, <1>9, AnswerType DEF Fail
  <2>2. status' \in [Subs -> Statuses] /\ confirmed' \subseteq Subs
    BY <1>9, WriteType DEF Fail, TypeOK, table
  <2>3. invited' \subseteq Subs /\ alerted' \subseteq Subs /\ opened' \subseteq Subs
    BY <1>9 DEF Fail, TypeOK, mailbox
  <2>4. faults' \in Nat
    BY <1>9 DEF Fail, Fault, TypeOK
  <2> QED
    BY <2>1, <2>2, <2>3, <2>4 DEF TypeOK, RequestType
<1>10. CASE UNCHANGED vars
  BY <1>10 DEF vars, TypeOK
<1> QED
  BY <1>1, <1>2, <1>3, <1>4, <1>5, <1>6, <1>7, <1>8, <1>9, <1>10 DEF Next

\* Rows, mailboxes and requests keep the values the code gives them.
THEOREM TypeCorrect == Spec => []TypeOK
  BY TypeInit, TypeStep, PTL DEF Spec

-----------------------------------------------------------------------------
(***************************************************************************)
(* Double opt-in.  ActiveWasConfirmed is not inductive: it does not say     *)
(* that a request about to write "active" is of an opened link.             *)
(***************************************************************************)

\* A request that may yet confirm is of a link its subscriber opened, and a request
\* about to write has decided what.
OpenedInv ==
  \A q \in Requests :
    /\ pc[q] = "find" /\ op[q] = "confirm" => sub[q] \in opened
    /\ pc[q] = "update" /\ copy[q] = "active" => sub[q] \in opened
    /\ pc[q] = "update" => copy[q] # "none"

LEMMA OpenedInit == Init => OpenedInv /\ ActiveWasConfirmed
  BY DEF Init, OpenedInv, ActiveWasConfirmed

\* A request of another is not touched by a step of q, and no link is ever unopened.
LEMMA OpenedStep == TypeOK /\ OpenedInv /\ [Next]_vars => OpenedInv'
<1> SUFFICES ASSUME TypeOK, OpenedInv, [Next]_vars PROVE OpenedInv'
  OBVIOUS
<1> USE DEF TypeOK, OpenedInv
<1>1. ASSUME NEW s \in Subs, Alert(s) PROVE OpenedInv'
  BY <1>1 DEF Alert, request
<1>2. ASSUME NEW q \in Requests, NEW s \in Subs, Create(q, s) PROVE OpenedInv'
  BY <1>2 DEF Create, Serve, mailbox
<1>3. ASSUME NEW q \in Requests, SendConfirmation(q) PROVE OpenedInv'
  BY <1>3 DEF SendConfirmation, Answer
<1>4. ASSUME NEW q \in Requests, NEW s \in Subs, OpenConfirm(q, s) PROVE OpenedInv'
  BY <1>4 DEF OpenConfirm, Serve
<1>5. ASSUME NEW q \in Requests, NEW s \in Subs, OpenUnsubscribe(q, s) PROVE OpenedInv'
  BY <1>5 DEF OpenUnsubscribe, Serve, mailbox
<1>6. ASSUME NEW q \in Requests, FindToConfirm(q) PROVE OpenedInv'
  BY <1>6 DEF FindToConfirm, Answer, mailbox
<1>7. ASSUME NEW q \in Requests, FindToCancel(q) PROVE OpenedInv'
  BY <1>7 DEF FindToCancel, mailbox
<1>8. ASSUME NEW q \in Requests, Update(q) PROVE OpenedInv'
  BY <1>8 DEF Update, Answer, mailbox
<1>9. ASSUME NEW q \in Requests, Fail(q) PROVE OpenedInv'
  <2>1. Answer(q) /\ opened' = opened
    BY <1>9 DEF Fail, mailbox
  <2> QED
    BY <2>1 DEF Answer
<1>10. CASE UNCHANGED vars
  BY <1>10 DEF vars
<1> QED
  BY <1>1, <1>2, <1>3, <1>4, <1>5, <1>6, <1>7, <1>8, <1>9, <1>10 DEF Next

LEMMA WriteConfirmed ==
  ASSUME TypeOK, OpenedInv, ActiveWasConfirmed,
         NEW q \in Requests, pc[q] = "update", Write(q), UNCHANGED mailbox
  PROVE  ActiveWasConfirmed'
  BY DEF TypeOK, OpenedInv, ActiveWasConfirmed, Write, mailbox

LEMMA ConfirmedStep ==
  TypeOK /\ OpenedInv /\ ActiveWasConfirmed /\ [Next]_vars => ActiveWasConfirmed'
<1> SUFFICES ASSUME TypeOK, OpenedInv, ActiveWasConfirmed, [Next]_vars
             PROVE  ActiveWasConfirmed'
  OBVIOUS
<1>1. ASSUME NEW s \in Subs, Alert(s) PROVE ActiveWasConfirmed'
  BY <1>1 DEF Alert, ActiveWasConfirmed, TypeOK, table
<1>2. ASSUME NEW q \in Requests, NEW s \in Subs, Create(q, s) PROVE ActiveWasConfirmed'
  BY <1>2 DEF Create, ActiveWasConfirmed, TypeOK, mailbox
<1>3. ASSUME NEW q \in Requests, NEW s \in Subs,
             SendConfirmation(q) \/ OpenConfirm(q, s) \/ OpenUnsubscribe(q, s)
      PROVE  ActiveWasConfirmed'
  BY <1>3 DEF SendConfirmation, OpenConfirm, OpenUnsubscribe, ActiveWasConfirmed, table, mailbox
<1>4. ASSUME NEW q \in Requests, FindToConfirm(q) \/ FindToCancel(q) PROVE ActiveWasConfirmed'
  BY <1>4 DEF FindToConfirm, FindToCancel, ActiveWasConfirmed, table, mailbox
<1>5. ASSUME NEW q \in Requests, Update(q) PROVE ActiveWasConfirmed'
  BY <1>5, WriteConfirmed DEF Update
<1>6. ASSUME NEW q \in Requests, Fail(q) PROVE ActiveWasConfirmed'
  <2>1. CASE UNCHANGED <<table, mailbox>>
    BY <2>1 DEF table, mailbox, ActiveWasConfirmed
  <2>2. CASE UNCHANGED <<table, alerted, opened>>
    BY <2>2 DEF table, ActiveWasConfirmed
  <2>3. CASE pc[q] = "update" /\ Write(q) /\ UNCHANGED mailbox
    BY <2>3, WriteConfirmed
  <2> QED
    BY <1>6, <2>1, <2>2, <2>3 DEF Fail
<1>7. CASE UNCHANGED vars
  BY <1>7 DEF vars, ActiveWasConfirmed
<1> QED
  BY <1>1, <1>2, <1>3, <1>4, <1>5, <1>6, <1>7, SubscriptionsAssumption DEF Next

\* Nothing is sent without confirmation: whoever is active, or was ever sent an
\* alert, opened the link, however requests overlap and fail.
THEOREM OptIn == Spec => []ActiveWasConfirmed
  BY TypeCorrect, OpenedInit, OpenedStep, ConfirmedStep, PTL DEF Spec

-----------------------------------------------------------------------------
\* A write about another subscription, or of anything but "active", leaves a settled
\* cancellation as it is.
LEMMA WriteSettled ==
  ASSUME TypeOK, OpenedInv, NEW s \in Subs, Settled(s),
         NEW q \in Requests, pc[q] = "update", Write(q)
  PROVE  status'[s] = "cancelled"
  BY DEF TypeOK, OpenedInv, Settled, Write

LEMMA SettledStep == TypeOK /\ OpenedInv /\ [Next]_vars => StaysSettled
<1> SUFFICES ASSUME TypeOK, OpenedInv, [Next]_vars, NEW s \in Subs, Settled(s)
             PROVE  Settled(s)'
  BY DEF StaysSettled
<1> USE DEF Settled
<1>1. ASSUME NEW t \in Subs, Alert(t) PROVE Settled(s)'
  BY <1>1 DEF Alert, table, request
<1>2. ASSUME NEW q \in Requests, NEW t \in Subs, Create(q, t) PROVE Settled(s)'
  BY <1>2 DEF Create, Serve, TypeOK
<1>3. ASSUME NEW q \in Requests, SendConfirmation(q) PROVE Settled(s)'
  BY <1>3 DEF SendConfirmation, Answer, TypeOK, table
<1>4. ASSUME NEW q \in Requests, NEW t \in Subs, OpenConfirm(q, t) \/ OpenUnsubscribe(q, t)
      PROVE  Settled(s)'
  BY <1>4 DEF OpenConfirm, OpenUnsubscribe, Serve, TypeOK, table
<1>5. ASSUME NEW q \in Requests, FindToConfirm(q) PROVE Settled(s)'
  BY <1>5 DEF FindToConfirm, Answer, TypeOK, table
<1>6. ASSUME NEW q \in Requests, FindToCancel(q) PROVE Settled(s)'
  BY <1>6 DEF FindToCancel, TypeOK, table
<1>7. ASSUME NEW q \in Requests, Update(q) PROVE Settled(s)'
  <2>1. status'[s] = "cancelled"
    BY <1>7, WriteSettled DEF Update
  <2> QED
    BY <1>7, <2>1 DEF Update, Answer, TypeOK
<1>8. ASSUME NEW q \in Requests, Fail(q) PROVE Settled(s)'
  <2>1. status'[s] = "cancelled"
    BY <1>8, WriteSettled DEF Fail, table
  <2> QED
    BY <1>8, <2>1 DEF Fail, Answer, TypeOK
<1>9. CASE UNCHANGED vars
  BY <1>9 DEF vars
<1> QED
  BY <1>1, <1>2, <1>3, <1>4, <1>5, <1>6, <1>7, <1>8, <1>9 DEF Next

\* Once the confirmations that overlapped a cancellation are over, no link, no
\* failure and no later request brings the subscription back.
THEOREM CancellationHolds == Spec => SettledIsFinal
<1>1. TypeOK /\ OpenedInv /\ [Next]_vars => [StaysSettled]_vars
  BY SettledStep
<1> QED
  BY TypeCorrect, OpenedInit, OpenedStep, <1>1, PTL DEF Spec, SettledIsFinal

-----------------------------------------------------------------------------
(***************************************************************************)
(* A behaviour of the composition is one of its service.                   *)
(***************************************************************************)

LEMMA SameService == [ServicesNext]_ServiceVars => service' = service
  BY DEF ServicesNext, ServiceVars

LEMMA RunsSubscriptions ==
  ServicesSpec => \/ []~(service = "subscriptions")
                  \/ [](service = "subscriptions") /\ Spec
<1>1. ServicesInit /\ service = "subscriptions" => Init
  BY DEF ServicesInit
<1>2. service = "subscriptions" /\ [ServicesNext]_ServiceVars =>
        [Next]_vars /\ (service = "subscriptions")'
  BY SameService DEF ServicesNext, ServiceVars, subscription, vars, table, mailbox, request
<1>3. ~(service = "subscriptions") /\ [ServicesNext]_ServiceVars => (~(service = "subscriptions"))'
  BY SameService
<1> QED
  BY <1>1, <1>2, <1>3, PTL DEF ServicesSpec, Spec

\* The run checks this of two subscriptions.
THEOREM SubscriptionsOptIn == ServicesSpec => []SubsActiveWasConfirmed
<1>1. ~(service = "subscriptions") => SubsActiveWasConfirmed
  BY DEF SubsActiveWasConfirmed
<1>2. TypeOK /\ ActiveWasConfirmed => SubsActiveWasConfirmed
  BY DEF SubsActiveWasConfirmed
<1> QED
  BY <1>1, <1>2, RunsSubscriptions, TypeCorrect, OptIn, PTL

\* Only a confirmation already under way undoes a cancellation, in the run's terms.
THEOREM SubscriptionsStayCancelled == ServicesSpec => SubsSettledIsFinal
<1>1. ~(service = "subscriptions") => [service = "subscriptions" => StaysSettled]_ServiceVars
  OBVIOUS
<1>2. [StaysSettled]_vars => [service = "subscriptions" => StaysSettled]_ServiceVars
  BY DEF StaysSettled, Settled, vars, table, mailbox, request
<1> QED
  BY <1>1, <1>2, RunsSubscriptions, CancellationHolds, PTL
  DEF SubsSettledIsFinal, SettledIsFinal

-----------------------------------------------------------------------------
(***************************************************************************)
(* The limiter.  A history h of n calls in the window that began at ws,    *)
(* under the limit L, at time t0: the window and the one before it let     *)
(* through L calls each, and nothing was let through after the window.     *)
(***************************************************************************)
Counted(h, n, L, t0, ws) ==
  /\ h \in Lim!Histories
  /\ \A t, u \in -1..MaxTime : t <= u => h[t] <= h[u]
  /\ \A t \in t0..MaxTime : h[t] = h[t0]
  /\ n \in 0..L
  /\ ws < 0 => n = 0 /\ h[t0] = h[-1]
  /\ ws >= 0 => n = h[t0] - h[ws - 1]
  /\ ws >= 0 => \A t \in 0..ws : ws - Window < t => h[ws - 1] - h[t - 1] <= L
  /\ t0 - ws >= Window => h[t0] = h[t0 - 1]
  /\ \A t, u \in 0..MaxTime : t <= u /\ u < t + Window => h[u] - h[t - 1] <= 2 * L

Clock(t0, ws) == t0 \in 0..MaxTime /\ ws \in {-Window} \union 0..t0

LimiterInv ==
  /\ Clock(now, windowStart)
  /\ admitted \in [Callers -> Lim!Histories]
  /\ counts \in [Callers -> 0..PerClient]
  /\ \A k \in Callers : Counted(admitted[k], counts[k], PerClient, now, windowStart)
  /\ Counted(everyone, used, Total, now, windowStart)

LEMMA TickCounted ==
  ASSUME NEW h, NEW n, NEW L \in Nat, NEW t0, NEW ws, Clock(t0, ws), t0 < MaxTime,
         Counted(h, n, L, t0, ws)
  PROVE  Clock(t0 + 1, ws) /\ Counted(h, n, L, t0 + 1, ws)
<1> USE LimiterAssumption DEF Clock
<1>1. h[t0 + 1] = h[t0]
  BY DEF Counted
<1>2. ws <= t0
  OBVIOUS
<1>3. \A t \in (t0 + 1)..MaxTime : h[t] = h[t0 + 1]
  BY <1>1 DEF Counted
<1> QED
  BY <1>1, <1>2, <1>3 DEF Counted

\* The window a call is counted in, and the calls counted in it before.
WindowFor(t0, ws) == IF t0 - ws >= Window THEN t0 ELSE ws
CountFor(n, t0, ws) == IF t0 - ws >= Window THEN 0 ELSE n

LEMMA WindowCounted ==
  ASSUME NEW h, NEW n, NEW L \in Nat, NEW t0, NEW ws, Clock(t0, ws), Counted(h, n, L, t0, ws)
  PROVE  LET v == WindowFor(t0, ws) IN
         Clock(t0, v) /\ v >= 0 /\ t0 - v < Window /\ Counted(h, CountFor(n, t0, ws), L, t0, v)
<1> USE LimiterAssumption DEF Clock, WindowFor, CountFor
<1>1. CASE t0 - ws < Window
  BY <1>1
<1>2. CASE t0 - ws >= Window
  <2>1. h \in [-1..MaxTime -> Nat]
    BY DEF Counted, Lim!Histories
  <2>2. h[t0] = h[t0 - 1]
    BY <1>2 DEF Counted
  <2>3. ASSUME NEW t \in 0..t0, t0 - Window < t PROVE h[t0 - 1] - h[t - 1] <= L
    <3>1. CASE ws >= 0
      <4>1. h[ws - 1] <= h[t - 1]
        BY <1>2, <2>3, <3>1 DEF Counted
      <4>2. h[t0] - h[ws - 1] <= L
        BY <3>1 DEF Counted
      <4> QED
        BY <2>1, <2>2, <3>1, <4>1, <4>2
    <3>2. CASE ws < 0
      <4>1. h[-1] <= h[t - 1] /\ h[t0] = h[-1]
        BY <3>2 DEF Counted
      <4> QED
        BY <2>1, <2>2, <4>1
    <3> QED
      BY <3>1, <3>2
  <2> QED
    BY <1>2, <2>1, <2>2, <2>3 DEF Counted
<1> QED
  BY <1>1, <1>2

\* A history in which a call at t0 counts.
CallAt(h, t0) == [t \in -1..MaxTime |-> IF t < t0 THEN h[t] ELSE h[t] + 1]

LEMMA OneMoreCall == \A h : Lim!OneMore(h) = CallAt(h, now)
  BY DEF Lim!OneMore, CallAt

LEMMA CallCounted ==
  ASSUME NEW h, NEW n, NEW L \in Nat, NEW t0, NEW ws, Clock(t0, ws), ws >= 0, t0 - ws < Window,
         Counted(h, n, L, t0, ws), n < L,
         NEW g, g = CallAt(h, t0)
  PROVE  Counted(g, n + 1, L, t0, ws)
<1> USE LimiterAssumption DEF Clock
<1>1. h \in [-1..MaxTime -> Nat] /\ n \in Nat
  BY DEF Counted, Lim!Histories
<1>2. g \in [-1..MaxTime -> Nat]
  BY <1>1 DEF CallAt
<1>3. /\ \A t \in -1..MaxTime : t < t0 => g[t] = h[t]
      /\ \A t \in -1..MaxTime : t >= t0 => g[t] = h[t] + 1 /\ h[t] = h[t0]
  BY DEF Counted, CallAt
<1>4. ASSUME NEW t \in -1..MaxTime, NEW u \in -1..MaxTime, t <= u PROVE g[t] <= g[u]
  <2>1. h[t] <= h[u]
    BY <1>4 DEF Counted
  <2>2. h[t] \in Nat /\ h[u] \in Nat
    BY <1>1
  <2>3. CASE t < t0
    BY <1>3, <2>1, <2>2, <2>3
  <2>4. CASE t >= t0
    BY <1>3, <1>4, <2>1, <2>2, <2>4
  <2> QED
    BY <2>3, <2>4
<1>5. n = h[t0] - h[ws - 1] /\ g[t0] = h[t0] + 1 /\ g[ws - 1] = h[ws - 1]
  BY <1>3 DEF Counted
<1>a. h[t0] \in Nat /\ h[ws - 1] \in Nat
  BY <1>1
<1>b. n + 1 = (h[t0] + 1) - h[ws - 1] /\ n + 1 <= L
  BY <1>1, <1>5, <1>a, SMTT(30)
<1>6. ASSUME NEW t \in 0..ws, ws - Window < t PROVE g[ws - 1] - g[t - 1] <= L
  BY <1>1, <1>3, <1>6, SMTT(30) DEF Counted
<1>7. ASSUME NEW t \in 0..MaxTime, NEW u \in 0..MaxTime, t <= u, u < t + Window
      PROVE  g[u] - g[t - 1] <= 2 * L
  <2>0. h[t0] \in Nat /\ h[t - 1] \in Nat /\ h[u] \in Nat /\ h[ws - 1] \in Nat
    BY <1>1
  <2>1. CASE u < t0
    <3>1. g[u] = h[u] /\ g[t - 1] = h[t - 1]
      BY <1>3, <1>7, <2>1
    <3> QED
      BY <1>7, <3>1 DEF Counted
  <2>2. CASE u >= t0 /\ t > t0
    <3>1. g[u] = h[t0] + 1 /\ g[t - 1] = h[t0] + 1
      BY <1>3, <2>2
    <3> QED
      BY <2>0, <3>1
  <2>3. CASE u >= t0 /\ t <= t0
    <3>1. g[u] = h[t0] + 1 /\ g[t - 1] = h[t - 1]
      BY <1>3, <2>3
    <3>2. (h[t0] + 1) - h[ws - 1] <= L
      BY <1>b
    <3>3. CASE t >= ws
      <4>1. h[ws - 1] <= h[t - 1]
        BY <3>3 DEF Counted
      <4> QED
        BY <2>0, <3>1, <3>2, <4>1
    <3>4. CASE t < ws
      <4>1. h[ws - 1] - h[t - 1] <= L
        BY <1>7, <2>3, <3>4 DEF Counted
      <4> QED
        BY <2>0, <3>1, <3>2, <4>1
    <3> QED
      BY <3>3, <3>4
  <2> QED
    BY <2>1, <2>2, <2>3
<1>8. g \in Lim!Histories /\ n + 1 \in 0..L
  BY <1>1, <1>2 DEF Lim!Histories
<1>9. n + 1 = g[t0] - g[ws - 1]
  <2>1. g[t0] - g[ws - 1] = (h[t0] + 1) - h[ws - 1]
    BY <1>5
  <2> QED
    BY <1>b, <2>1
<1>10. \A t \in t0..MaxTime : g[t] = g[t0]
  BY <1>3
<1> QED
  BY <1>4, <1>6, <1>7, <1>8, <1>9, <1>10 DEF Counted

LEMMA LimiterInit == Lim!Init => LimiterInv
<1> SUFFICES ASSUME Lim!Init PROVE LimiterInv
  OBVIOUS
<1> USE LimiterAssumption
<1> DEFINE flat == [t \in -1..MaxTime |-> 0]
<1>1. \A L \in Nat : Counted(flat, 0, L, 0, -Window)
  BY DEF Counted, Lim!Histories
<1>2. admitted = [k \in Callers |-> flat] /\ everyone = flat
  BY DEF Lim!Init
<1>3. flat \in Lim!Histories
  BY DEF Lim!Histories
<1> QED
  BY <1>1, <1>2, <1>3 DEF Lim!Init, Lim!NoCalls, LimiterInv, Clock

LEMMA AcceptStep ==
  ASSUME LimiterInv, NEW k \in Callers, Lim!Accept(k)
  PROVE  LimiterInv'
<1> USE LimiterAssumption
<1> DEFINE v == WindowFor(now, windowStart)
<1>0. now' = now /\ windowStart' = v
  BY DEF Lim!Accept, Lim!Over, WindowFor
<1>1. Clock(now, windowStart) /\ Clock(now, v) /\ v >= 0 /\ now - v < Window
  BY WindowCounted DEF LimiterInv
<1>2. ASSUME NEW j \in Callers
      PROVE  Counted(admitted[j], CountFor(counts[j], now, windowStart), PerClient, now, v)
  BY WindowCounted DEF LimiterInv
<1>3. Counted(everyone, CountFor(used, now, windowStart), Total, now, v)
  BY WindowCounted DEF LimiterInv
<1>4. /\ CountFor(counts[k], now, windowStart) < PerClient
      /\ CountFor(used, now, windowStart) < Total
  <2>1. counts[k] \in 0..PerClient /\ used \in 0..Total
    BY DEF LimiterInv, Counted
  <2> QED
    BY <1>1, <2>1 DEF Lim!Accept, Lim!Full, Lim!Over, CountFor, Clock
<1>5. /\ counts' = [j \in Callers |-> CountFor(counts[j], now, windowStart) + IF j = k THEN 1 ELSE 0]
      /\ used' = CountFor(used, now, windowStart) + 1
      /\ admitted' = [admitted EXCEPT ![k] = Lim!OneMore(@)]
      /\ everyone' = Lim!OneMore(everyone)
  <2>1. counts \in [Callers -> 0..PerClient] /\ used \in 0..Total
    BY DEF LimiterInv, Counted
  <2> QED
    BY <2>1 DEF Lim!Accept, Lim!Over, CountFor, Lim!NoCalls
<1>6. Counted(Lim!OneMore(everyone), used', Total, now, v)
  BY <1>1, <1>3, <1>4, <1>5, OneMoreCall, CallCounted
<1>7. ASSUME NEW j \in Callers
      PROVE  /\ Counted(admitted'[j], counts'[j], PerClient, now, v)
             /\ admitted'[j] \in Lim!Histories
  <2>1. CASE j = k
    <3>1. Counted(Lim!OneMore(admitted[j]), counts'[j], PerClient, now, v)
      <4>1. counts'[j] = CountFor(counts[j], now, windowStart) + 1
        BY <1>5, <2>1
      <4> QED
        BY <1>1, <1>2, <1>4, <2>1, <4>1, OneMoreCall, CallCounted
    <3>2. admitted'[j] = Lim!OneMore(admitted[j])
      BY <1>5, <2>1 DEF LimiterInv
    <3> QED
      BY <3>1, <3>2 DEF Counted
  <2>2. CASE j # k
    <3>1. CountFor(counts[j], now, windowStart) \in Nat
      BY <1>2 DEF Counted
    <3>2. admitted'[j] = admitted[j] /\ counts'[j] = CountFor(counts[j], now, windowStart)
      BY <1>5, <2>2, <3>1 DEF LimiterInv
    <3> QED
      BY <1>2, <3>2 DEF Counted
  <2> QED
    BY <2>1, <2>2
<1>8. admitted' \in [Callers -> Lim!Histories]
  BY <1>5, <1>7 DEF LimiterInv
<1>9. counts' \in [Callers -> 0..PerClient]
  BY <1>5, <1>7 DEF Counted
<1>10. /\ \A j \in Callers : Counted(admitted'[j], counts'[j], PerClient, now', windowStart')
       /\ Counted(everyone', used', Total, now', windowStart')
       /\ Clock(now', windowStart')
  BY <1>0, <1>1, <1>5, <1>6, <1>7
<1> QED
  BY <1>8, <1>9, <1>10 DEF LimiterInv

LEMMA LimiterStep == LimiterInv /\ [Lim!Next]_(Lim!vars) => LimiterInv'
<1> SUFFICES ASSUME LimiterInv, [Lim!Next]_(Lim!vars) PROVE LimiterInv'
  OBVIOUS
<1>1. ASSUME Lim!Tick PROVE LimiterInv'
  <2>1. Clock(now, windowStart) /\ now < MaxTime /\ PerClient \in Nat /\ Total \in Nat
    BY <1>1, LimiterAssumption DEF LimiterInv, Lim!Tick
  <2>2. Counted(everyone, used, Total, now + 1, windowStart) /\ Clock(now + 1, windowStart)
    BY <2>1, TickCounted DEF LimiterInv
  <2>3. \A k \in Callers : Counted(admitted[k], counts[k], PerClient, now + 1, windowStart)
    BY <2>1, TickCounted DEF LimiterInv
  <2> QED
    BY <1>1, <2>2, <2>3 DEF LimiterInv, Lim!Tick
<1>2. ASSUME UNCHANGED Lim!vars PROVE LimiterInv'
  BY <1>2 DEF LimiterInv, Lim!vars
<1>3. ASSUME NEW k \in Callers, Lim!Refuse(k) PROVE LimiterInv'
  BY <1>2, <1>3 DEF Lim!Refuse
<1> QED
  BY <1>1, <1>2, <1>3, AcceptStep DEF Lim!Next

LEMMA LimiterIsSafe == LimiterInv => LimiterSafe
<1> SUFFICES ASSUME LimiterInv PROVE Lim!TypeOK /\ Lim!BurstIsBounded /\ Lim!RefusedForRecentCalls
  BY DEF LimiterSafe
<1> USE LimiterAssumption
<1>1. Lim!TypeOK
  BY DEF Lim!TypeOK, LimiterInv, Clock, Counted, Lim!Times
<1>2. Lim!BurstIsBounded
  BY DEF Lim!BurstIsBounded, Lim!Stretches, Lim!Within, Lim!Times, LimiterInv, Counted
<1>3. ASSUME NEW k \in Callers, Lim!Full(k)
      PROVE  \E t \in Lim!Times :
               /\ now - Window < t /\ t <= now
               /\ \/ Lim!Within(admitted[k], t, now) >= PerClient
                  \/ Lim!Within(everyone, t, now) >= Total
  <2>1. windowStart >= 0 /\ windowStart \in Lim!Times /\ now - Window < windowStart /\ windowStart <= now
    BY <1>3 DEF LimiterInv, Clock, Lim!Times, Lim!Full, Lim!Over
  <2>2. /\ counts[k] = admitted[k][now] - admitted[k][windowStart - 1]
        /\ used = everyone[now] - everyone[windowStart - 1]
    BY <2>1 DEF LimiterInv, Counted
  <2> QED
    BY <1>3, <2>1, <2>2 DEF Lim!Full, Lim!Within
<1> QED
  BY <1>1, <1>2, <1>3 DEF Lim!RefusedForRecentCalls

LEMMA RunsLimiter ==
  ServicesSpec => \/ []~(service = "limiter")
                  \/ [](service = "limiter") /\ Lim!Spec
<1>1. ServicesInit /\ service = "limiter" => Lim!Init
  BY DEF ServicesInit
<1>2. service = "limiter" /\ [ServicesNext]_ServiceVars =>
        [Lim!Next]_(Lim!vars) /\ (service = "limiter")'
  BY SameService DEF ServicesNext, ServiceVars, limiter, Lim!vars
<1>3. ~(service = "limiter") /\ [ServicesNext]_ServiceVars => (~(service = "limiter"))'
  BY SameService
<1> QED
  BY <1>1, <1>2, <1>3, PTL DEF ServicesSpec, Lim!Spec

\* Whatever the calls and the limits, no stretch as long as a window lets through
\* more than twice a limit, and nobody is refused for calls of an older window.
THEOREM LimiterIsFair == ServicesSpec => []LimiterSafe
<1>1. ~(service = "limiter") => LimiterSafe
  BY DEF LimiterSafe
<1> QED
  BY <1>1, RunsLimiter, LimiterInit, LimiterStep, LimiterIsSafe, PTL DEF Lim!Spec

-----------------------------------------------------------------------------
(***************************************************************************)
(* The keys.  A code a request took is spent and has no key yet, no two    *)
(* requests have one code in hand, and a row names an address its client    *)
(* registered.                                                             *)
(***************************************************************************)

Busy == {"purgeCodes", "insertCode", "issue"}

\* What a request holds: a draft of its own, a spent code without a key, or the
\* key it minted.
HandInv ==
  \A q \in Requests :
    /\ pc[q] \in {"purgeCodes", "insertCode"} => on[q] \in Codes /\ code[on[q]] = "draft"
    /\ pc[q] = "issue" =>
         on[q] \in Codes /\ code[on[q]] = "gone" /\ \A k \in Keys : grant[k] # on[q]
    /\ pc[q] = "markUsed" => on[q] \in Codes /\ minted[q] \in Keys

AloneInv ==
  \A q, r \in Requests : pc[q] \in Busy /\ pc[r] \in Busy /\ on[q] = on[r] => q = r

RowInv ==
  \A d \in Codes : code[d] # "none" => row[d] \in Acc!Columns /\ Acc!Allows(row[d].client, row[d].uri)

KeyInv ==
  \A k \in Keys :
    /\ key[k] = "none" => grant[k] = None
    /\ grant[k] # None => code[grant[k]] = "gone"

AccessInv ==
  Acc!TypeOK /\ HandInv /\ AloneInv /\ RowInv /\ KeyInv /\ Acc!OneKeyPerCode /\ Acc!CodeHasClient

LEMMA AccessTypeStep == Acc!TypeOK /\ HandInv /\ [Acc!Next]_(Acc!vars) => Acc!TypeOK'
<1> SUFFICES ASSUME Acc!TypeOK, HandInv, [Acc!Next]_(Acc!vars) PROVE Acc!TypeOK'
  OBVIOUS
<1> USE DEF Acc!TypeOK, Acc!ClientStates, Acc!CodeStates, Acc!Steps, Acc!GoTo, Acc!Answer, Acc!requests, Acc!tables
<1>1. ASSUME NEW q \in Requests, Acc!Register(q) PROVE Acc!TypeOK'
  BY <1>1 DEF Acc!Register, Acc!PurgeClients
<1>2. ASSUME NEW q \in Requests, NEW c \in Clients, Acc!InsertClient(q, c) PROVE Acc!TypeOK'
  BY <1>2 DEF Acc!InsertClient
<1>3. ASSUME NEW q \in Requests, NEW d \in Codes, NEW r \in Acc!Columns, Acc!Authorize(q, d, r)
      PROVE  Acc!TypeOK'
  BY <1>3 DEF Acc!Authorize
<1>4. ASSUME NEW q \in Requests, Acc!PurgeCodes(q) PROVE Acc!TypeOK'
  BY <1>4 DEF Acc!PurgeCodes
<1>5. ASSUME NEW q \in Requests, Acc!InsertCode(q) PROVE Acc!TypeOK'
  BY <1>5 DEF Acc!InsertCode
<1>6. ASSUME NEW q \in Requests, NEW d \in Codes, NEW r \in Acc!ExchangeRequests, Acc!Exchange(q, d, r)
      PROVE  Acc!TypeOK'
  BY <1>6 DEF Acc!Exchange, Acc!TakeCode
<1>7. ASSUME NEW q \in Requests, NEW k \in Keys, Acc!Issue(q, k) PROVE Acc!TypeOK'
  BY <1>7 DEF Acc!Issue
<1>8. ASSUME NEW q \in Requests, Acc!MarkUsed(q) PROVE Acc!TypeOK'
  BY <1>8 DEF HandInv, Acc!MarkUsed, Acc!MarkClientUsed, Acc!Known
<1>9. ASSUME NEW q \in Requests, Acc!Fail(q) PROVE Acc!TypeOK'
  BY <1>9 DEF Acc!Fail, Acc!MarkClientUsed, Acc!Known
<1>10. ASSUME NEW c \in Clients, Acc!Age(c) PROVE Acc!TypeOK'
  BY <1>10 DEF Acc!Age
<1>11. ASSUME NEW d \in Codes, Acc!Expire(d) PROVE Acc!TypeOK'
  BY <1>11 DEF Acc!Expire
<1>12. ASSUME NEW k \in Keys, Acc!IssueDirect(k) \/ Acc!Revoke(k) PROVE Acc!TypeOK'
  BY <1>12 DEF Acc!IssueDirect, Acc!Revoke
<1>13. CASE UNCHANGED Acc!vars
  BY <1>13 DEF Acc!vars
<1> QED
  BY <1>1, <1>2, <1>3, <1>4, <1>5, <1>6, <1>7, <1>8, <1>9, <1>10, <1>11, <1>12, <1>13 DEF Acc!Next

\* The part of the invariant about what requests hold.
RequestInv == HandInv /\ AloneInv

\* A step of one request that neither drafts a code nor mints a key.
LEMMA RequestMoves ==
  ASSUME Acc!TypeOK, RequestInv, NEW q \in Requests, NEW to \in Acc!Steps, NEW d, NEW k,
         Acc!GoTo(q, to, d, k), grant' = grant,
         to \in Busy => pc[q] \in Busy /\ d = on[q],
         to \in {"purgeCodes", "insertCode"} => d \in Codes /\ code'[d] = "draft",
         to = "issue" => FALSE,
         to = "markUsed" => FALSE,
         \A r \in Requests : r # q /\ pc[r] \in Busy => code'[on[r]] = code[on[r]]
  PROVE  RequestInv'
<1>1. HandInv'
  BY DEF Acc!TypeOK, RequestInv, HandInv, Acc!GoTo, Busy
<1>2. AloneInv'
  BY DEF Acc!TypeOK, RequestInv, AloneInv, Acc!GoTo
<1> QED
  BY <1>1, <1>2 DEF RequestInv

LEMMA RequestStep ==
  AccessInv /\ [Acc!Next]_(Acc!vars) => RequestInv'
<1> SUFFICES ASSUME AccessInv, [Acc!Next]_(Acc!vars) PROVE RequestInv'
  OBVIOUS
<1>a. Acc!TypeOK /\ RequestInv /\ RowInv /\ KeyInv
  BY DEF AccessInv, RequestInv
<1>b. /\ client \in [Clients -> Acc!ClientStates] /\ code \in [Codes -> Acc!CodeStates]
      /\ pc \in [Requests -> Acc!Steps]
  BY <1>a DEF Acc!TypeOK
<1>c. \A q \in Requests : pc[q] \in Busy => on[q] \in Codes /\ code[on[q]] \in {"draft", "gone"}
  BY <1>a DEF RequestInv, HandInv, Busy
<1>0. ASSUME UNCHANGED <<Acc!requests, grant>>,
             \A d \in Codes : code[d] \in {"draft", "gone"} => code'[d] = code[d]
      PROVE  RequestInv'
  BY <1>0, <1>a, <1>c DEF Acc!requests, RequestInv, HandInv, AloneInv, Busy
<1>1. ASSUME NEW q \in Requests, Acc!Register(q) PROVE RequestInv'
  <2>1. /\ Acc!GoTo(q, "insertClient", None, None) /\ grant' = grant
        /\ \A d \in Codes : code[d] \in {"draft", "gone"} => code'[d] = code[d]
    BY <1>1 DEF Acc!Register, Acc!PurgeClients, Acc!Stored
  <2> QED
    BY <1>a, <1>c, <2>1, RequestMoves DEF Busy, Acc!Steps
<1>2. ASSUME NEW q \in Requests, NEW c \in Clients, Acc!InsertClient(q, c) PROVE RequestInv'
  BY <1>a, <1>2, RequestMoves DEF Acc!InsertClient, Acc!Answer, Busy, Acc!Steps
<1>3. ASSUME NEW q \in Requests, NEW d \in Codes, NEW r \in Acc!Columns, Acc!Authorize(q, d, r)
      PROVE  RequestInv'
  <2>1. /\ pc[q] = "idle" /\ code[d] = "none" /\ code' = [code EXCEPT ![d] = "draft"]
        /\ Acc!GoTo(q, "purgeCodes", d, None) /\ grant' = grant
    BY <1>3 DEF Acc!Authorize
  <2>2. \A v \in Requests : pc[v] \in Busy => on[v] # d
    BY <1>c, <2>1
  <2>3. HandInv'
    BY <1>a, <2>1, <2>2 DEF Acc!TypeOK, RequestInv, HandInv, Acc!GoTo, Busy
  <2>4. AloneInv'
    BY <1>a, <2>1, <2>2 DEF Acc!TypeOK, RequestInv, AloneInv, Acc!GoTo
  <2> QED
    BY <2>3, <2>4 DEF RequestInv
<1>4. ASSUME NEW q \in Requests, Acc!PurgeCodes(q) PROVE RequestInv'
  <2>1. /\ pc[q] = "purgeCodes" /\ Acc!GoTo(q, "insertCode", on[q], None) /\ grant' = grant
        /\ \A d \in Codes : code[d] \in {"draft", "gone"} => code'[d] = code[d]
    BY <1>4 DEF Acc!PurgeCodes
  <2>2. on[q] \in Codes /\ code[on[q]] = "draft"
    BY <1>a, <2>1 DEF RequestInv, HandInv
  <2> QED
    BY <1>a, <1>c, <2>1, <2>2, RequestMoves DEF Busy, Acc!Steps
<1>5. ASSUME NEW q \in Requests, Acc!InsertCode(q) \/ Acc!Fail(q), pc[q] # "issue" PROVE RequestInv'
  <2>1. /\ pc[q] # "idle" /\ Acc!GoTo(q, "idle", None, None) /\ grant' = grant
        /\ UNCHANGED code \/ (pc[q] \in Busy /\ code' = [code EXCEPT ![on[q]] = code'[on[q]]])
    BY <1>5, <1>c DEF Acc!InsertCode, Acc!Fail, Acc!Answer, Busy
  <2>2. \A r \in Requests : r # q /\ pc[r] \in Busy => code'[on[r]] = code[on[r]]
    BY <1>a, <1>b, <1>c, <2>1 DEF RequestInv, AloneInv
  <2> QED
    BY <1>a, <2>1, <2>2, RequestMoves DEF Busy, Acc!Steps
<1>6. ASSUME NEW q \in Requests, NEW k \in Keys,
             pc[q] = "issue", key[k] = "none", grant' = [grant EXCEPT ![k] = on[q]],
             UNCHANGED code,
             Acc!GoTo(q, "markUsed", on[q], k) \/ Acc!GoTo(q, "idle", None, None)
      PROVE  RequestInv'
  <2>1. on[q] \in Codes /\ \A r \in Requests : r # q /\ pc[r] \in Busy => on[r] # on[q]
    BY <1>a, <1>6 DEF RequestInv, HandInv, AloneInv, Busy
  <2>2. HandInv'
    BY <1>a, <1>6, <2>1 DEF Acc!TypeOK, RequestInv, HandInv, Acc!GoTo, Busy
  <2>3. AloneInv'
    BY <1>a, <1>6, <2>1 DEF Acc!TypeOK, RequestInv, AloneInv, Acc!GoTo, Busy
  <2> QED
    BY <2>2, <2>3 DEF RequestInv
<1>7. ASSUME NEW q \in Requests, NEW k \in Keys, Acc!Issue(q, k) PROVE RequestInv'
  BY <1>6, <1>7 DEF Acc!Issue
<1>8. ASSUME NEW q \in Requests, Acc!Fail(q), pc[q] = "issue" PROVE RequestInv'
  <2>1. CASE grant' = grant
    <3>1. Acc!GoTo(q, "idle", None, None) /\ UNCHANGED code
      BY <1>8 DEF Acc!Fail, Acc!Answer
    <3> QED
      BY <1>a, <2>1, <3>1, RequestMoves DEF Busy, Acc!Steps
  <2>2. CASE grant' # grant
    BY <1>6, <1>8, <2>2 DEF Acc!Fail, Acc!Answer
  <2> QED
    BY <2>1, <2>2
<1>9. ASSUME NEW q \in Requests, NEW d \in Codes, NEW r \in Acc!ExchangeRequests, Acc!Exchange(q, d, r)
      PROVE  RequestInv'
  <2>1. /\ Acc!Stored(d) /\ pc[q] = "idle" /\ code' = [code EXCEPT ![d] = "gone"] /\ grant' = grant
        /\ Acc!GoTo(q, "issue", d, None) \/ Acc!GoTo(q, "idle", None, None)
    BY <1>9 DEF Acc!Exchange, Acc!TakeCode, Acc!Answer
  <2>2. /\ \A v \in Requests : pc[v] \in Busy => on[v] # d
        /\ \A k \in Keys : grant[k] # d
    BY <1>a, <1>c, <2>1, AccessAssumption DEF Acc!Stored, KeyInv
  <2>3. HandInv'
    BY <1>a, <2>1, <2>2 DEF Acc!TypeOK, RequestInv, HandInv, Acc!GoTo, Busy
  <2>4. AloneInv'
    BY <1>a, <2>1, <2>2 DEF Acc!TypeOK, RequestInv, AloneInv, Acc!GoTo, Busy
  <2> QED
    BY <2>3, <2>4 DEF RequestInv
<1>10. ASSUME NEW q \in Requests, Acc!MarkUsed(q) PROVE RequestInv'
  BY <1>a, <1>10, RequestMoves DEF Acc!MarkUsed, Acc!Answer, Busy, Acc!Steps
<1>11. ASSUME NEW c \in Clients, Acc!Age(c) PROVE RequestInv'
  BY <1>0, <1>11 DEF Acc!Age
<1>12. ASSUME NEW d \in Codes, Acc!Expire(d) PROVE RequestInv'
  BY <1>0, <1>12 DEF Acc!Expire
<1>13. ASSUME NEW k \in Keys, Acc!IssueDirect(k) \/ Acc!Revoke(k) PROVE RequestInv'
  BY <1>0, <1>13 DEF Acc!IssueDirect, Acc!Revoke
<1>14. CASE UNCHANGED Acc!vars
  BY <1>0, <1>14 DEF Acc!vars, Acc!requests
<1>15. ASSUME NEW q \in Requests, Acc!InsertCode(q) \/ Acc!Fail(q) PROVE RequestInv'
  BY <1>5, <1>8, <1>15 DEF Acc!InsertCode
<1> QED
  BY <1>1, <1>2, <1>3, <1>4, <1>7, <1>15, <1>9, <1>10, <1>11, <1>12, <1>13, <1>14 DEF Acc!Next

-----------------------------------------------------------------------------
(***************************************************************************)
(* Codes, their columns and the keys.                                      *)
(***************************************************************************)

\* A spent code stays spent and a drawn one stays drawn, with its columns.
LEMMA CodeStep ==
  AccessInv /\ [Acc!Next]_(Acc!vars) =>
    /\ RowInv'
    /\ \A d \in Codes : code[d] = "gone" => code'[d] = "gone"
    /\ \A d \in Codes : code[d] # "none" => row'[d] = row[d]
<1> SUFFICES ASSUME AccessInv, [Acc!Next]_(Acc!vars)
             PROVE  /\ RowInv'
                    /\ \A d \in Codes : code[d] = "gone" => code'[d] = "gone"
                    /\ \A d \in Codes : code[d] # "none" => row'[d] = row[d]
  OBVIOUS
<1> DEFINE Goal == /\ RowInv'
                   /\ \A d \in Codes : code[d] = "gone" => code'[d] = "gone"
                   /\ \A d \in Codes : code[d] # "none" => row'[d] = row[d]
<1>a. /\ code \in [Codes -> Acc!CodeStates] /\ row \in [Codes -> Acc!Columns \union {None}] /\ RowInv
      /\ \A q \in Requests : pc[q] \in {"purgeCodes", "insertCode"} =>
           on[q] \in Codes /\ code[on[q]] = "draft"
  BY DEF AccessInv, Acc!TypeOK, HandInv
<1>1. ASSUME UNCHANGED row,
             \A d \in Codes : code[d] \in {"none", "gone"} => code'[d] = code[d]
      PROVE  Goal
  BY <1>1, <1>a DEF RowInv
<1>2. ASSUME NEW q \in Requests, Acc!Register(q) PROVE Goal
  BY <1>1, <1>2, <1>a DEF Acc!Register, Acc!PurgeClients, Acc!Stored
<1>3. ASSUME NEW q \in Requests, NEW d \in Codes, NEW r \in Acc!Columns, Acc!Authorize(q, d, r) PROVE Goal
  <2>1. /\ code[d] = "none" /\ Acc!Allows(r.client, r.uri)
        /\ code' = [code EXCEPT ![d] = "draft"] /\ row' = [row EXCEPT ![d] = r]
    BY <1>3 DEF Acc!Authorize, Acc!CheckAuthorization
  <2> QED
    BY <1>a, <2>1 DEF RowInv
<1>4. ASSUME NEW q \in Requests, Acc!PurgeCodes(q) PROVE Goal
  BY <1>1, <1>4, <1>a DEF Acc!PurgeCodes
<1>5. ASSUME NEW q \in Requests, Acc!InsertCode(q) \/ Acc!Fail(q) PROVE Goal
  <2>1. /\ UNCHANGED row
        /\ \/ UNCHANGED code
           \/ /\ pc[q] \in {"purgeCodes", "insertCode"}
              /\ code' = [code EXCEPT ![on[q]] = code'[on[q]]]
    BY <1>5, <1>a DEF Acc!InsertCode, Acc!Fail
  <2> QED
    BY <1>1, <1>a, <2>1
<1>6. ASSUME NEW q \in Requests, NEW d \in Codes, NEW r \in Acc!ExchangeRequests, Acc!Exchange(q, d, r)
      PROVE  Goal
  BY <1>1, <1>6, <1>a DEF Acc!Exchange, Acc!TakeCode, Acc!Stored
<1>7. ASSUME NEW d \in Codes, Acc!Expire(d) PROVE Goal
  BY <1>1, <1>7, <1>a DEF Acc!Expire
<1>8. ASSUME UNCHANGED <<code, row>> PROVE Goal
  BY <1>1, <1>8
<1>9. ASSUME NEW q \in Requests, NEW c \in Clients, Acc!InsertClient(q, c) PROVE Goal
  BY <1>8, <1>9 DEF Acc!InsertClient
<1>10. ASSUME NEW q \in Requests, NEW k \in Keys, Acc!Issue(q, k) PROVE Goal
  BY <1>8, <1>10 DEF Acc!Issue
<1>11. ASSUME NEW q \in Requests, Acc!MarkUsed(q) PROVE Goal
  BY <1>8, <1>11 DEF Acc!MarkUsed
<1>12. ASSUME NEW c \in Clients, Acc!Age(c) PROVE Goal
  BY <1>8, <1>12 DEF Acc!Age
<1>13. ASSUME NEW k \in Keys, Acc!IssueDirect(k) \/ Acc!Revoke(k) PROVE Goal
  BY <1>8, <1>13 DEF Acc!IssueDirect, Acc!Revoke
<1>14. CASE UNCHANGED Acc!vars
  BY <1>8, <1>14 DEF Acc!vars
<1> QED
  BY <1>2, <1>3, <1>4, <1>5, <1>6, <1>7, <1>9, <1>10, <1>11, <1>12, <1>13, <1>14 DEF Acc!Next

\* A key comes of a spent code without one, or of no code.
LEMMA KeyStep == AccessInv /\ [Acc!Next]_(Acc!vars) => KeyInv' /\ Acc!OneKeyPerCode'
<1> SUFFICES ASSUME AccessInv, [Acc!Next]_(Acc!vars) PROVE KeyInv' /\ Acc!OneKeyPerCode'
  OBVIOUS
<1>a. /\ key \in [Keys -> {"none", "active", "revoked"}] /\ grant \in [Keys -> Codes \union {None}]
      /\ KeyInv /\ Acc!OneKeyPerCode /\ None \notin Codes
  BY AccessAssumption DEF AccessInv, Acc!TypeOK
<1>b. \A d \in Codes : code[d] = "gone" => code'[d] = "gone"
  BY CodeStep
<1>1. ASSUME UNCHANGED grant,
             \A k \in Keys : key'[k] = "none" => key[k] = "none"
      PROVE  KeyInv' /\ Acc!OneKeyPerCode'
  BY <1>1, <1>a, <1>b DEF KeyInv, Acc!OneKeyPerCode
<1>2. ASSUME NEW q \in Requests, NEW k \in Keys, pc[q] = "issue", key[k] = "none",
             key' = [key EXCEPT ![k] = "active"], grant' = [grant EXCEPT ![k] = on[q]]
      PROVE  KeyInv' /\ Acc!OneKeyPerCode'
  <2>1. /\ on[q] \in Codes /\ code'[on[q]] = "gone" /\ \A j \in Keys : grant[j] # on[q]
    BY <1>2, <1>b DEF AccessInv, HandInv
  <2> QED
    BY <1>2, <1>a, <1>b, <2>1 DEF KeyInv, Acc!OneKeyPerCode
<1>3. ASSUME NEW q \in Requests, NEW k \in Keys, Acc!Issue(q, k) PROVE KeyInv' /\ Acc!OneKeyPerCode'
  BY <1>2, <1>3 DEF Acc!Issue
<1>4. ASSUME NEW q \in Requests, Acc!Fail(q) PROVE KeyInv' /\ Acc!OneKeyPerCode'
  <2>1. CASE UNCHANGED <<key, grant>>
    BY <1>1, <2>1
  <2>2. CASE ~UNCHANGED <<key, grant>>
    BY <1>2, <1>4, <2>2 DEF Acc!Fail
  <2> QED
    BY <2>1, <2>2
<1>5. ASSUME NEW k \in Keys, Acc!IssueDirect(k) \/ Acc!Revoke(k) PROVE KeyInv' /\ Acc!OneKeyPerCode'
  BY <1>1, <1>5, <1>a DEF Acc!IssueDirect, Acc!Revoke
<1>6. ASSUME UNCHANGED <<key, grant>> PROVE KeyInv' /\ Acc!OneKeyPerCode'
  BY <1>1, <1>6
<1>7. ASSUME NEW q \in Requests,
             \/ Acc!Register(q) \/ Acc!PurgeCodes(q) \/ Acc!InsertCode(q) \/ Acc!MarkUsed(q)
             \/ \E c \in Clients : Acc!InsertClient(q, c)
             \/ \E d \in Codes, r \in Acc!Columns : Acc!Authorize(q, d, r)
             \/ \E d \in Codes, r \in Acc!ExchangeRequests : Acc!Exchange(q, d, r)
      PROVE  KeyInv' /\ Acc!OneKeyPerCode'
  BY <1>6, <1>7 DEF Acc!Register, Acc!PurgeCodes, Acc!InsertCode, Acc!MarkUsed, Acc!InsertClient, Acc!Authorize, Acc!Exchange
<1>8. ASSUME NEW c \in Clients, Acc!Age(c) PROVE KeyInv' /\ Acc!OneKeyPerCode'
  BY <1>6, <1>8 DEF Acc!Age, Acc!tables
<1>9. ASSUME NEW d \in Codes, Acc!Expire(d) PROVE KeyInv' /\ Acc!OneKeyPerCode'
  BY <1>6, <1>9 DEF Acc!Expire
<1>10. CASE UNCHANGED Acc!vars
  BY <1>6, <1>10 DEF Acc!vars
<1> QED
  BY <1>3, <1>4, <1>5, <1>7, <1>8, <1>9, <1>10 DEF Acc!Next

-----------------------------------------------------------------------------
(***************************************************************************)
(* Clients.                                                                *)
(***************************************************************************)

\* A client goes away only in a purge, which takes its codes along, and only if
\* it has not exchanged any.
LEMMA ClientStep ==
  ASSUME Acc!TypeOK, [Acc!Next]_(Acc!vars), NEW c \in Clients
  PROVE  /\ client[c] = "used" => client'[c] = "used"
         /\ Acc!Known(c) => Acc!Known(c)' \/ (client[c] = "old" /\ Acc!PurgeClients)
<1> USE DEF Acc!TypeOK, Acc!Known, Acc!ClientStates
<1>1. ASSUME UNCHANGED client
      PROVE  /\ client[c] = "used" => client'[c] = "used"
             /\ Acc!Known(c) => Acc!Known(c)'
  BY <1>1
<1>2. ASSUME NEW x \in Clients, Acc!MarkClientUsed(x)
      PROVE  /\ client[c] = "used" => client'[c] = "used"
             /\ Acc!Known(c) => Acc!Known(c)'
  BY <1>2 DEF Acc!MarkClientUsed
<1>3. ASSUME Acc!PurgeClients
      PROVE  /\ client[c] = "used" => client'[c] = "used"
             /\ Acc!Known(c) => Acc!Known(c)' \/ client[c] = "old"
  BY <1>3 DEF Acc!PurgeClients
<1>4. ASSUME NEW x \in Clients, Acc!Age(x) \/ \E q \in Requests : Acc!InsertClient(q, x)
      PROVE  /\ client[c] = "used" => client'[c] = "used"
             /\ Acc!Known(c) => Acc!Known(c)'
  BY <1>4 DEF Acc!Age, Acc!InsertClient
<1>5. ASSUME NEW x, x \notin Clients, Acc!MarkClientUsed(x) PROVE UNCHANGED client
  BY <1>5 DEF Acc!MarkClientUsed
<1>6. \/ UNCHANGED client \/ Acc!PurgeClients \/ \E x : Acc!MarkClientUsed(x)
      \/ \E x \in Clients : Acc!Age(x) \/ \E q \in Requests : Acc!InsertClient(q, x)
  BY DEF Acc!Next, Acc!vars, Acc!tables, Acc!Register, Acc!Authorize, Acc!PurgeCodes, Acc!InsertCode, Acc!Exchange, Acc!Issue,
     Acc!MarkUsed, Acc!Fail, Acc!Expire, Acc!IssueDirect, Acc!Revoke
<1> QED
  BY <1>1, <1>2, <1>3, <1>4, <1>5, <1>6

LEMMA CodeHasClientStep == AccessInv /\ [Acc!Next]_(Acc!vars) => Acc!CodeHasClient'
<1> SUFFICES ASSUME AccessInv, [Acc!Next]_(Acc!vars), NEW d \in Codes, Acc!Stored(d)'
             PROVE  Acc!Known(row[d].client)'
  BY DEF Acc!CodeHasClient
<1>a. /\ Acc!TypeOK /\ RowInv /\ Acc!CodeHasClient
      /\ \A q \in Requests : pc[q] \in {"purgeCodes", "insertCode"} =>
           on[q] \in Codes /\ code[on[q]] = "draft"
  BY DEF AccessInv, HandInv
<1>1. CASE Acc!Stored(d)
  <2>1. /\ row'[d] = row[d] /\ row[d].client \in Clients /\ Acc!Known(row[d].client)
    BY <1>1, <1>a, CodeStep DEF Acc!Stored, RowInv, Acc!CodeHasClient, Acc!Columns
  <2>2. ~(client[row[d].client] = "old" /\ Acc!PurgeClients)
    BY <1>1 DEF Acc!PurgeClients, Acc!Stored
  <2>3. Acc!Known(row[d].client)' \/ client'[row[d].client] \in {"fresh", "old", "used"}
    BY <1>a, <2>1, <2>2, ClientStep DEF Acc!Known
  <2> QED
    BY <2>1, <2>3 DEF Acc!Known
<1>2. CASE ~Acc!Stored(d)
  <2>1. PICK q \in Requests :
          /\ pc[q] = "insertCode" /\ on[q] = d /\ Acc!Known(row[d].client)
          /\ UNCHANGED <<client, row>>
    BY <1>2, <1>a
    DEF Acc!Next, Acc!vars, Acc!tables, Acc!requests, Acc!Stored, Acc!TypeOK, Acc!CodeStates, Acc!Register, Acc!PurgeClients, Acc!InsertClient,
        Acc!Authorize, Acc!PurgeCodes, Acc!InsertCode, Acc!Exchange, Acc!TakeCode, Acc!Issue, Acc!MarkUsed, Acc!Fail, Acc!Age, Acc!Expire,
        Acc!IssueDirect, Acc!Revoke
  <2> QED
    BY <2>1 DEF Acc!Known
<1> QED
  BY <1>1, <1>2

LEMMA AccessInvHolds == Acc!Spec => []AccessInv
<1>1. Acc!Init => AccessInv
  BY DEF Acc!Init, AccessInv, Acc!TypeOK, Acc!ClientStates, Acc!CodeStates, Acc!Steps, HandInv, AloneInv, Busy, RowInv,
     KeyInv, Acc!OneKeyPerCode, Acc!CodeHasClient, Acc!Stored
<1>2. AccessInv /\ [Acc!Next]_(Acc!vars) => AccessInv'
  <2> SUFFICES ASSUME AccessInv, [Acc!Next]_(Acc!vars) PROVE AccessInv'
    OBVIOUS
  <2>1. Acc!TypeOK'
    BY AccessTypeStep DEF AccessInv
  <2>2. HandInv' /\ AloneInv'
    BY RequestStep DEF RequestInv
  <2> QED
    BY <2>1, <2>2, CodeStep, KeyStep, CodeHasClientStep DEF AccessInv
<1> QED
  BY <1>1, <1>2, PTL DEF Acc!Spec

\* A code is worth at most one key, however its exchanges overlap and fail.
THEOREM OneKey == Acc!Spec => []Acc!OneKeyPerCode
<1>1. AccessInv => Acc!OneKeyPerCode
  BY DEF AccessInv
<1> QED
  BY <1>1, AccessInvHolds, PTL

\* A key that came of a code was consented for an address of its client, and the
\* code is spent.
THEOREM Consented == Acc!Spec => []Acc!KeyWasConsented
<1>1. AccessInv => Acc!KeyWasConsented
  <2> SUFFICES ASSUME AccessInv, NEW k \in Keys, grant[k] # None
               PROVE  LET r == row[grant[k]] IN
                      /\ code[grant[k]] = "gone"
                      /\ \E u \in Registered[r.client] :
                           \/ u = r.uri
                           \/ /\ u.scheme = "http" /\ u.host \in Acc!Loopback
                              /\ [u EXCEPT !.port = r.uri.port] = r.uri
    BY DEF Acc!KeyWasConsented
  <2> DEFINE r == row[grant[k]]
  <2>1. grant[k] \in Codes /\ code[grant[k]] = "gone"
    BY DEF AccessInv, Acc!TypeOK, KeyInv
  <2>2. r \in Acc!Columns /\ Acc!Allows(r.client, r.uri)
    BY <2>1 DEF AccessInv, RowInv
  <2>3. PICK u \in Registered[r.client] : u = r.uri \/ Acc!SameLoopbackURI(u, r.uri)
    BY <2>2 DEF Acc!Allows
  <2>4. u \in Uris /\ r.uri \in Uris
    BY <2>2, <2>3, AccessAssumption DEF Acc!Columns
  <2> DEFINE v == r.uri
  <2>5. /\ u = [scheme |-> u.scheme, host |-> u.host, port |-> u.port, path |-> u.path]
        /\ v = [scheme |-> v.scheme, host |-> v.host, port |-> v.port, path |-> v.path]
    BY <2>4, AccessAssumption
  <2>6. Acc!SameLoopbackURI(u, v) =>
          u.scheme = "http" /\ u.host \in Acc!Loopback /\ [u EXCEPT !.port = v.port] = v
    <3> HIDE DEF v
    <3> QED
      BY <2>5 DEF Acc!SameLoopbackURI
  <2> QED
    BY <2>1, <2>3, <2>6
<1> QED
  BY <1>1, AccessInvHolds, PTL

\* A code in the table belongs to a registered client, whatever purge runs between
\* the check and the INSERT.
THEOREM CodesHaveClients == Acc!Spec => []Acc!CodeHasClient
<1>1. AccessInv => Acc!CodeHasClient
  BY DEF AccessInv
<1> QED
  BY <1>1, AccessInvHolds, PTL

\* No purge removes a client whose exchange was marked.
THEOREM UsedStays == Acc!Spec => Acc!UsedClientStays
<1>1. AccessInv /\ [Acc!Next]_(Acc!vars) => [Acc!UsedClientsStay]_(Acc!vars)
  BY ClientStep DEF AccessInv, Acc!UsedClientsStay
<1> QED
  BY <1>1, AccessInvHolds, PTL DEF Acc!Spec, Acc!UsedClientStays

-----------------------------------------------------------------------------
(***************************************************************************)
(* The refinement of OneTimeGrant: a step opens a grant, closes some, or   *)
(* mints its key.                                                          *)
(***************************************************************************)

StateOf(d) ==
  IF Acc!Stored(d) \/ Acc!Redeeming(d) THEN "open"
  ELSE IF code[d] \in {"none", "draft"} THEN "new" ELSE "over"

LEMMA States ==
  /\ Acc!GrantState = [d \in Codes |-> StateOf(d)]
  /\ Acc!GrantState' = [d \in Codes |-> StateOf(d)']
  BY DEF Acc!GrantState, StateOf

KeyIn(g) ==
  [d \in Codes |-> IF \E k \in Keys : g[k] = d THEN CHOOSE k \in Keys : g[k] = d ELSE None]

LEMMA KeysIn == Acc!GrantKey = KeyIn(grant) /\ Acc!GrantKey' = KeyIn(grant')
  BY DEF Acc!GrantKey, KeyIn

\* OneKeyPerCode, of a value of the ghost.
OneKeyIn(g) == \A j1, j2 \in Keys : g[j1] # None /\ g[j1] = g[j2] => j1 = j2

\* The key of a grant is the one that names its code.
LEMMA KeyOf ==
  ASSUME NEW g, NEW d \in Codes, OneKeyIn(g)
  PROVE  /\ \A k \in Keys : KeyIn(g)[d] = k <=> g[k] = d
         /\ (\A k \in Keys : g[k] # d) => KeyIn(g)[d] = None
<1>0. d # None /\ None \notin Keys
  BY AccessAssumption
<1>1. CASE \E k \in Keys : g[k] = d
  <2>1. KeyIn(g)[d] = CHOOSE k \in Keys : g[k] = d
    BY <1>1 DEF KeyIn
  <2>2. KeyIn(g)[d] \in Keys /\ g[KeyIn(g)[d]] = d
    BY <1>1, <2>1
  <2> QED
    BY <1>0, <1>1, <2>2 DEF OneKeyIn
<1>2. CASE \A k \in Keys : g[k] # d
  BY <1>0, <1>2 DEF KeyIn
<1> QED
  BY <1>1, <1>2

LEMMA CloseStep ==
  ASSUME grant' = grant,
         \A d \in Codes : StateOf(d)' = StateOf(d) \/ StateOf(d)' = "over"
  PROVE  Acc!Grant!Next
<1> DEFINE S == {d \in Codes : StateOf(d) # "over" /\ StateOf(d)' = "over"}
<1>1. Acc!GrantState' = [d \in Codes |-> IF d \in S THEN "over" ELSE Acc!GrantState[d]]
  BY States
<1>2. \A d \in S : Acc!GrantState[d] # "over"
  BY States
<1>3. Acc!GrantKey' = Acc!GrantKey
  BY KeysIn
<1> HIDE DEF S
<1>4. S \in SUBSET Codes
  BY DEF S
<1> QED
  BY <1>1, <1>2, <1>3, <1>4 DEF Acc!Grant!Next, Acc!Grant!Close

LEMMA OpenStep ==
  ASSUME grant' = grant, NEW d \in Codes,
         StateOf(d) = "new", StateOf(d)' = "open",
         \A e \in Codes \ {d} : StateOf(e)' = StateOf(e)
  PROVE  Acc!Grant!Next
<1>1. Acc!GrantState[d] = "new" /\ Acc!GrantState' = [Acc!GrantState EXCEPT ![d] = "open"]
  BY States
<1>2. Acc!GrantKey' = Acc!GrantKey
  BY KeysIn
<1> QED
  BY <1>1, <1>2 DEF Acc!Grant!Next, Acc!Grant!Open

\* From g to h the ghost gains a first key k of code d.
FirstKey(g, h, d, k) ==
  /\ OneKeyIn(g) /\ g[k] = None /\ \A j \in Keys : g[j] # d
  /\ h[k] = d /\ \A j \in Keys \ {k} : h[j] = g[j]

\* From old to new the grant d is given a key no grant had.
NewKey(old, new, d, k) == new = [old EXCEPT ![d] = k] /\ \A e \in Codes : old[e] # k

\* What a minted key changes, for any two values of the ghost.
LEMMA KeyMinted ==
  ASSUME NEW g, NEW h,
         NEW d \in Codes, NEW k \in Keys, FirstKey(g, h, d, k)
  PROVE  NewKey(KeyIn(g), KeyIn(h), d, k)
<1>0. None \notin Codes \union Keys
  BY AccessAssumption
<1> USE DEF FirstKey
<1>1. OneKeyIn(h)
  BY DEF OneKeyIn
<1>2. \A e \in Codes : /\ \A j \in Keys : KeyIn(g)[e] = j <=> g[j] = e
                       /\ (\A j \in Keys : g[j] # e) => KeyIn(g)[e] = None
  BY KeyOf
<1>3. \A e \in Codes : /\ \A j \in Keys : KeyIn(h)[e] = j <=> h[j] = e
                       /\ (\A j \in Keys : h[j] # e) => KeyIn(h)[e] = None
  BY <1>1, KeyOf
<1>4. ASSUME NEW e \in Codes, e # d PROVE KeyIn(h)[e] = KeyIn(g)[e]
  <2>1. \A j \in Keys : h[j] = e <=> g[j] = e
    BY <1>0, <1>4
  <2>2. ASSUME NEW j \in Keys, g[j] = e PROVE KeyIn(h)[e] = KeyIn(g)[e]
    <3>1. KeyIn(g)[e] = j
      BY <1>2, <2>2
    <3>2. KeyIn(h)[e] = j
      BY <1>3, <2>1, <2>2
    <3> QED
      BY <3>1, <3>2
  <2>3. CASE \A j \in Keys : g[j] # e
    BY <1>2, <1>3, <2>1, <2>3
  <2> QED
    BY <2>2, <2>3
<1>5. KeyIn(h)[d] = k
  BY <1>3
<1>6. /\ KeyIn(h) = [e \in Codes |-> KeyIn(h)[e]]
      /\ KeyIn(g) = [e \in Codes |-> KeyIn(g)[e]]
  BY DEF KeyIn
<1>7. KeyIn(h) = [KeyIn(g) EXCEPT ![d] = k]
  BY <1>4, <1>5, <1>6
<1>8. \A e \in Codes : KeyIn(g)[e] # k
  BY <1>0, <1>2
<1> QED
  BY <1>7, <1>8 DEF NewKey

LEMMA MintStep ==
  ASSUME AccessInv, NEW d \in Codes, NEW k \in Keys,
         grant[k] = None, \A j \in Keys : grant[j] # d, grant' = [grant EXCEPT ![k] = d],
         StateOf(d) = "open", StateOf(d)' = "over",
         \A e \in Codes \ {d} : StateOf(e)' = StateOf(e)
  PROVE  Acc!Grant!Next
<1>1. Acc!GrantState[d] = "open" /\ Acc!GrantState' = [Acc!GrantState EXCEPT ![d] = "over"]
  BY States
<1>2. grant \in [Keys -> Codes \union {None}] /\ OneKeyIn(grant)
  BY DEF AccessInv, Acc!TypeOK, Acc!OneKeyPerCode, OneKeyIn
<1>3. PICK h : h[k] = d /\ (\A j \in Keys \ {k} : h[j] = grant[j]) /\ Acc!GrantKey' = KeyIn(h)
  <2>1. grant'[k] = d /\ \A j \in Keys \ {k} : grant'[j] = grant[j]
    BY <1>2
  <2> QED
    BY <2>1, KeysIn
<1>4. NewKey(KeyIn(grant), KeyIn(h), d, k)
  <2>1. FirstKey(grant, h, d, k)
    BY <1>2, <1>3 DEF FirstKey
  <2> QED
    BY <2>1, KeyMinted
<1>5. Acc!GrantKey' = [Acc!GrantKey EXCEPT ![d] = k] /\ \A e \in Codes : Acc!GrantKey[e] # k
  BY <1>3, <1>4, KeysIn DEF NewKey
<1> QED
  BY <1>1, <1>5 DEF Acc!Grant!Next, Acc!Grant!Mint

LEMMA SameRedeeming ==
  ASSUME Acc!TypeOK, NEW q \in Requests, NEW to, NEW d, NEW k, Acc!GoTo(q, to, d, k),
         pc[q] # "issue", to # "issue", NEW e \in Codes
  PROVE  Acc!Redeeming(e)' <=> Acc!Redeeming(e)
  BY DEF Acc!TypeOK, Acc!GoTo, Acc!Redeeming

\* A step that stores no code and ends no redemption leaves each grant as it is
\* or closes it.
LEMMA QuietRequest ==
  ASSUME AccessInv, grant' = grant,
         \A e \in Codes : Acc!Redeeming(e)' <=> Acc!Redeeming(e),
         \A e \in Codes :
           \/ code'[e] = code[e]
           \/ code[e] = "none" /\ code'[e] = "draft"
           \/ code[e] \in {"draft", "live", "expired"} /\ code'[e] \in {"expired", "gone"}
                /\ (code[e] = "draft" => code'[e] = "gone")
  PROVE  Acc!Grant!Next
<1>1. ASSUME NEW e \in Codes PROVE StateOf(e)' = StateOf(e) \/ StateOf(e)' = "over"
  <2>1. Acc!Redeeming(e) => code[e] = "gone"
    BY DEF AccessInv, HandInv, Acc!Redeeming
  <2>2. \/ code'[e] = code[e]
        \/ code[e] = "none" /\ code'[e] = "draft"
        \/ code[e] \in {"draft", "live", "expired"} /\ code'[e] \in {"expired", "gone"}
             /\ (code[e] = "draft" => code'[e] = "gone")
    OBVIOUS
  <2>3. Acc!Redeeming(e)' <=> Acc!Redeeming(e)
    OBVIOUS
  <2> QED
    BY <2>1, <2>2, <2>3 DEF StateOf, Acc!Stored
<1> QED
  BY <1>1, CloseStep

\* The redemption of a code ends once, and only one request redeems it.
LEMMA RedemptionEnds ==
  ASSUME AccessInv, NEW q \in Requests, NEW to, NEW d, NEW k, Acc!GoTo(q, to, d, k),
         pc[q] = "issue", to # "issue", code' = code, NEW c \in Codes, on[q] = c
  PROVE  /\ \A j \in Keys : grant[j] # c
         /\ StateOf(c) = "open" /\ StateOf(c)' = "over"
         /\ \A e \in Codes \ {c} : StateOf(e)' = StateOf(e)
<1>1. code[c] = "gone" /\ \A j \in Keys : grant[j] # c
  BY DEF AccessInv, HandInv
<1>2. Acc!Redeeming(c) /\ ~Acc!Redeeming(c)'
  BY DEF AccessInv, Acc!TypeOK, AloneInv, Busy, Acc!GoTo, Acc!Redeeming
<1>3. ASSUME NEW e \in Codes, e # c PROVE Acc!Redeeming(e)' <=> Acc!Redeeming(e)
  BY <1>3 DEF AccessInv, Acc!TypeOK, Acc!GoTo, Acc!Redeeming
<1>4. StateOf(c) = "open" /\ StateOf(c)' = "over"
  BY <1>1, <1>2 DEF StateOf, Acc!Stored
<1>5. \A e \in Codes \ {c} : StateOf(e)' = StateOf(e)
  BY <1>3 DEF StateOf, Acc!Stored
<1> QED
  BY <1>1, <1>4, <1>5

\* A code that a request inserts opens its grant.
LEMMA CodeInserted ==
  ASSUME AccessInv, NEW q \in Requests, pc[q] = "insertCode", Acc!Answer(q), grant' = grant,
         NEW c \in Codes, on[q] = c, code' = [code EXCEPT ![c] = "live"]
  PROVE  Acc!Grant!Next
<1>1. code[c] = "draft" /\ code \in [Codes -> Acc!CodeStates]
  BY DEF AccessInv, Acc!TypeOK, HandInv
<1>2. \A e \in Codes : Acc!Redeeming(e)' <=> Acc!Redeeming(e)
  BY SameRedeeming DEF AccessInv, Acc!Answer
<1>3. ~Acc!Redeeming(c)
  BY <1>1 DEF AccessInv, HandInv, Acc!Redeeming
<1>4. StateOf(c) = "new" /\ StateOf(c)' = "open"
  BY <1>1, <1>3 DEF StateOf, Acc!Stored
<1>5. \A e \in Codes \ {c} : StateOf(e)' = StateOf(e)
  BY <1>1, <1>2 DEF StateOf, Acc!Stored
<1> QED
  BY <1>4, <1>5, OpenStep

\* A code that is taken goes on being redeemed, or its grant is over.
LEMMA ExchangeStep ==
  ASSUME AccessInv, NEW q \in Requests, NEW d \in Codes, NEW r, Acc!Exchange(q, d, r)
  PROVE  Acc!Grant!Next
<1>1. /\ pc[q] = "idle" /\ Acc!Stored(d) /\ code' = [code EXCEPT ![d] = "gone"]
      /\ grant' = grant /\ code \in [Codes -> Acc!CodeStates]
  BY DEF Acc!Exchange, Acc!TakeCode, AccessInv, Acc!TypeOK
<1>2. CASE Acc!GoTo(q, "issue", d, None)
  <2>1. Acc!Redeeming(d)'
    BY <1>2 DEF AccessInv, Acc!TypeOK, Acc!GoTo, Acc!Redeeming
  <2>2. ASSUME NEW e \in Codes, e # d PROVE Acc!Redeeming(e)' <=> Acc!Redeeming(e)
    BY <1>1, <1>2, <2>2 DEF AccessInv, Acc!TypeOK, Acc!GoTo, Acc!Redeeming
  <2>3. ASSUME NEW e \in Codes PROVE StateOf(e)' = StateOf(e) \/ StateOf(e)' = "over"
    BY <1>1, <2>1, <2>2 DEF StateOf, Acc!Stored
  <2> QED
    BY <1>1, <2>3, CloseStep
<1>3. CASE Acc!Answer(q)
  <2>1. \A e \in Codes : Acc!Redeeming(e)' <=> Acc!Redeeming(e)
    BY <1>1, <1>3, SameRedeeming DEF AccessInv, Acc!Answer
  <2> QED
    BY <1>1, <2>1, QuietRequest DEF Acc!Stored
<1> QED
  BY <1>2, <1>3 DEF Acc!Exchange

\* A failed step loses a code, stores it, or redeems it without an answer.
LEMMA FailStep ==
  ASSUME AccessInv, NEW q \in Requests, Acc!Fail(q)
  PROVE  Acc!Grant!Next
<1>1. Acc!Answer(q) /\ pc[q] # "idle" /\ code \in [Codes -> Acc!CodeStates]
  BY DEF Acc!Fail, AccessInv, Acc!TypeOK
<1>2. pc[q] # "issue" => \A e \in Codes : Acc!Redeeming(e)' <=> Acc!Redeeming(e)
  BY <1>1, SameRedeeming DEF AccessInv, Acc!Answer
<1>3. CASE /\ pc[q] \in {"purgeCodes", "insertCode"}
           /\ code' = [code EXCEPT ![on[q]] = "gone"] /\ grant' = grant
  <2>1. on[q] \in Codes /\ code[on[q]] = "draft"
    BY <1>3 DEF AccessInv, HandInv
  <2> QED
    BY <1>1, <1>2, <1>3, <2>1, QuietRequest
<1>4. CASE /\ pc[q] = "insertCode" /\ code' = [code EXCEPT ![on[q]] = "live"] /\ grant' = grant
  <2>1. PICK c \in Codes : on[q] = c
    BY <1>4 DEF AccessInv, HandInv
  <2> QED
    BY <1>1, <1>4, <2>1, CodeInserted
<1>5. CASE pc[q] # "issue" /\ code' = code /\ grant' = grant
  BY <1>2, <1>5, QuietRequest
<1>6. CASE pc[q] = "issue" /\ code' = code
  <2>1. PICK c \in Codes : on[q] = c
    BY <1>6 DEF AccessInv, HandInv
  <2>2. /\ \A j \in Keys : grant[j] # c
        /\ StateOf(c) = "open" /\ StateOf(c)' = "over"
        /\ \A e \in Codes \ {c} : StateOf(e)' = StateOf(e)
    BY <1>1, <1>6, <2>1, RedemptionEnds DEF Acc!Answer
  <2>3. CASE grant' = grant
    BY <2>2, <2>3, CloseStep
  <2>4. CASE \E k \in Keys : key[k] = "none" /\ grant' = [grant EXCEPT ![k] = on[q]]
    <3>1. PICK k \in Keys : key[k] = "none" /\ grant' = [grant EXCEPT ![k] = c]
      BY <2>1, <2>4
    <3>2. grant[k] = None
      BY <3>1 DEF AccessInv, KeyInv
    <3> QED
      BY <2>2, <3>1, <3>2, MintStep
  <2> QED
    BY <1>6, <2>3, <2>4 DEF Acc!Fail
<1> QED
  BY <1>1, <1>3, <1>4, <1>5, <1>6 DEF Acc!Fail

LEMMA GrantStep ==
  ASSUME AccessInv, Acc!Next
  PROVE  Acc!Grant!Next
<1>0. code \in [Codes -> Acc!CodeStates]
  BY DEF AccessInv, Acc!TypeOK
<1>1. ASSUME NEW q \in Requests, pc[q] # "issue", grant' = grant,
             NEW to, to # "issue", NEW d, NEW k, Acc!GoTo(q, to, d, k),
             \A e \in Codes :
               \/ code'[e] = code[e]
               \/ code[e] = "none" /\ code'[e] = "draft"
               \/ code[e] \in {"live", "expired"} /\ code'[e] = "gone"
      PROVE  Acc!Grant!Next
  <2>1. \A e \in Codes : Acc!Redeeming(e)' <=> Acc!Redeeming(e)
    BY <1>1, SameRedeeming DEF AccessInv
  <2> QED
    BY <1>1, <2>1, QuietRequest
<1>2. ASSUME grant' = grant, pc' = pc, on' = on,
             \A e \in Codes : code'[e] = code[e] \/ (code[e] = "live" /\ code'[e] = "expired")
      PROVE  Acc!Grant!Next
  BY <1>2, QuietRequest DEF Acc!Redeeming
<1>3. ASSUME NEW q \in Requests, Acc!Register(q) PROVE Acc!Grant!Next
  BY <1>0, <1>1, <1>3 DEF Acc!Register, Acc!PurgeClients, Acc!Stored
<1>4. ASSUME NEW q \in Requests, NEW c \in Clients, Acc!InsertClient(q, c) PROVE Acc!Grant!Next
  BY <1>1, <1>4 DEF Acc!InsertClient, Acc!Answer
<1>5. ASSUME NEW q \in Requests, NEW d \in Codes, NEW r \in Acc!Columns, Acc!Authorize(q, d, r)
      PROVE  Acc!Grant!Next
  BY <1>0, <1>1, <1>5 DEF Acc!Authorize
<1>6. ASSUME NEW q \in Requests, Acc!PurgeCodes(q) PROVE Acc!Grant!Next
  BY <1>0, <1>1, <1>6 DEF Acc!PurgeCodes
<1>7. ASSUME NEW q \in Requests, Acc!InsertCode(q) PROVE Acc!Grant!Next
  <2>1. PICK c \in Codes : on[q] = c /\ code[c] = "draft"
    BY <1>7 DEF Acc!InsertCode, AccessInv, HandInv
  <2>2. CASE code' = [code EXCEPT ![c] = "live"]
    BY <1>7, <2>1, <2>2, CodeInserted DEF Acc!InsertCode
  <2>3. CASE code' = [code EXCEPT ![c] = "gone"]
    <3>1. \A e \in Codes : Acc!Redeeming(e)' <=> Acc!Redeeming(e)
      BY <1>7, SameRedeeming DEF Acc!InsertCode, Acc!Answer, AccessInv
    <3> QED
      BY <1>0, <1>7, <2>1, <2>3, <3>1, QuietRequest DEF Acc!InsertCode
  <2> QED
    BY <1>7, <2>1, <2>2, <2>3 DEF Acc!InsertCode
<1>8. ASSUME NEW q \in Requests, NEW k \in Keys, Acc!Issue(q, k) PROVE Acc!Grant!Next
  <2>1. PICK c \in Codes : on[q] = c
    BY <1>8 DEF Acc!Issue, AccessInv, HandInv
  <2>2. /\ \A j \in Keys : grant[j] # c
        /\ StateOf(c) = "open" /\ StateOf(c)' = "over"
        /\ \A e \in Codes \ {c} : StateOf(e)' = StateOf(e)
    BY <1>8, <2>1, RedemptionEnds DEF Acc!Issue
  <2>3. grant[k] = None /\ grant' = [grant EXCEPT ![k] = c]
    BY <1>8, <2>1 DEF Acc!Issue, AccessInv, KeyInv
  <2> QED
    BY <2>2, <2>3, MintStep
<1>9. ASSUME NEW q \in Requests, Acc!MarkUsed(q) PROVE Acc!Grant!Next
  BY <1>1, <1>9 DEF Acc!MarkUsed, Acc!Answer
<1>10. ASSUME NEW c \in Clients, Acc!Age(c) PROVE Acc!Grant!Next
  <2>1. grant' = grant /\ pc' = pc /\ on' = on /\ code' = code
    BY <1>10 DEF Acc!Age, Acc!requests
  <2> QED
    BY <1>2, <2>1
<1>11. ASSUME NEW d \in Codes, Acc!Expire(d) PROVE Acc!Grant!Next
  <2>1. /\ grant' = grant /\ pc' = pc /\ on' = on
        /\ \A e \in Codes : code'[e] = code[e] \/ (code[e] = "live" /\ code'[e] = "expired")
    BY <1>0, <1>11 DEF Acc!Expire, Acc!requests
  <2> QED
    BY <1>2, <2>1
<1>12. ASSUME NEW k \in Keys, Acc!IssueDirect(k) \/ Acc!Revoke(k) PROVE Acc!Grant!Next
  <2>1. grant' = grant /\ pc' = pc /\ on' = on /\ code' = code
    BY <1>12 DEF Acc!IssueDirect, Acc!Revoke, Acc!requests
  <2> QED
    BY <1>2, <2>1
<1> QED
  BY <1>3, <1>4, <1>5, <1>6, <1>7, <1>8, <1>9, <1>10, <1>11, <1>12, ExchangeStep, FailStep
  DEF Acc!Next

\* The exchange of codes is a one-time grant, whatever requests overlap and fail.
THEOREM Implements == Acc!Spec => Acc!ImplementsGrant
<1>1. Acc!Init => Acc!Grant!Init
  BY AccessAssumption DEF Acc!Init, Acc!Grant!Init, Acc!GrantState, Acc!GrantKey, Acc!Stored, Acc!Redeeming
<1>2. AccessInv /\ [Acc!Next]_(Acc!vars) => [Acc!Grant!Next]_(Acc!Grant!vars)
  <2> SUFFICES ASSUME AccessInv, [Acc!Next]_(Acc!vars) PROVE [Acc!Grant!Next]_(Acc!Grant!vars)
    OBVIOUS
  <2>1. CASE Acc!Next
    BY <2>1, GrantStep
  <2>2. CASE UNCHANGED Acc!vars
    BY <2>2 DEF Acc!vars, Acc!requests, Acc!tables, Acc!Grant!vars, Acc!GrantState, Acc!GrantKey, Acc!Stored, Acc!Redeeming
  <2> QED
    BY <2>1, <2>2
<1> QED
  BY <1>1, <1>2, AccessInvHolds, PTL DEF Acc!Spec, Acc!Grant!Spec, Acc!ImplementsGrant

LEMMA RunsAccess ==
  ServicesSpec => \/ []~(service = "access")
                  \/ [](service = "access") /\ Acc!Spec
<1>1. ServicesInit /\ service = "access" => Acc!Init
  BY DEF ServicesInit
<1>2. service = "access" /\ [ServicesNext]_ServiceVars =>
        [Acc!Next]_(Acc!vars) /\ (service = "access")'
  BY SameService DEF ServicesNext, ServiceVars, access, Acc!vars, Acc!tables, Acc!requests
<1>3. ~(service = "access") /\ [ServicesNext]_ServiceVars => (~(service = "access"))'
  BY SameService
<1> QED
  BY <1>1, <1>2, <1>3, PTL DEF ServicesSpec, Acc!Spec

\* A code is worth at most one key, of a registered client, for an address it
\* consented to, whatever requests overlap and fail.
THEOREM AccessIsGuarded == ServicesSpec => []AccessSafe
<1>1. ~(service = "access") => AccessSafe
  BY DEF AccessSafe
<1>2. AccessInv => Acc!TypeOK
  BY DEF AccessInv
<1>3. Acc!TypeOK /\ Acc!OneKeyPerCode /\ Acc!KeyWasConsented /\ Acc!CodeHasClient => AccessSafe
  BY DEF AccessSafe
<1> QED
  BY <1>1, <1>2, <1>3, AccessInvHolds, OneKey, Consented, CodesHaveClients, RunsAccess, PTL

\* The composition implements a one-time grant, and a client whose exchange was
\* marked is never removed.
THEOREM AccessGrants == ServicesSpec => ImplementsGrant
<1> DEFINE kept == service = "access" =>
                     [Acc!Grant!Next]_(Acc!Grant!vars) /\ Acc!UsedClientsStay
<1>1. Acc!Spec => Acc!Grant!Init /\ [][Acc!Grant!Next]_(Acc!Grant!vars)
  BY Implements, PTL DEF Acc!ImplementsGrant, Acc!Grant!Spec
<1>2. Acc!Spec => [][Acc!UsedClientsStay]_(Acc!vars)
  BY UsedStays DEF Acc!UsedClientStays
<1>3. ServicesInit => (service = "access" => Acc!Grant!Init)
  BY AccessAssumption
  DEF ServicesInit, Acc!Init, Acc!Grant!Init, Acc!GrantState, Acc!GrantKey,
      Acc!Stored, Acc!Redeeming
<1>4. ~(service = "access") => [kept]_ServiceVars
  OBVIOUS
<1>5. [Acc!Grant!Next]_(Acc!Grant!vars) /\ [Acc!UsedClientsStay]_(Acc!vars) => [kept]_ServiceVars
  BY DEF Acc!UsedClientsStay, Acc!vars, Acc!tables, Acc!requests
<1>6. (service = "access" => Acc!Grant!Init) /\ [][kept]_ServiceVars => ImplementsGrant
  BY PTL DEF ImplementsGrant
<1> HIDE DEF kept
<1> QED
  BY <1>1, <1>2, <1>3, <1>4, <1>5, <1>6, RunsAccess, PTL DEF ServicesSpec

-----------------------------------------------------------------------------
(***************************************************************************)
(* The cache of the OCR.  What a reader loaded and returns is of its PDF,   *)
(* and while it is alone the object it loaded is still the one stored.      *)
(***************************************************************************)
HoldsItsPdf(r) ==
  step[r] # "idle" => pdf[r] \in Pdfs /\ \A p \in Pages : out[r][p] \in {None, pdf[r]}

LoadedItsPdf(r) ==
  step[r] \in {"read", "save"} =>
    /\ \A p \in Pages : cached[r][p] \in {None, pdf[r]}
    /\ alone[r] => cached[r] = entry[pdf[r]]

ReadItAll(r) ==
  kind[r] = "reindex" /\ step[r] # "idle" =>
    /\ asked[r] = Pages
    /\ step[r] \in {"save", "done"} => \A p \in Scanned[pdf[r]] : out[r][p] # None

EntriesOfTheirPdf == \A s \in Pdfs : \A p \in Pages : entry[s][p] \in {None, s}

ReaderInv(r) == HoldsItsPdf(r) /\ LoadedItsPdf(r) /\ ReadItAll(r)

OcrInv == Ocr!TypeOK /\ EntriesOfTheirPdf /\ \A r \in Readers : ReaderInv(r)

LEMMA OcrInit == Ocr!Init => OcrInv
  BY DEF Ocr!Init, Ocr!Nothing, Ocr!TypeOK, Ocr!Texts, Ocr!Kinds, OcrInv, EntriesOfTheirPdf,
         ReaderInv, HoldsItsPdf, LoadedItsPdf, ReadItAll

LEMMA OcrTypeStep == OcrInv /\ [Ocr!Next]_(Ocr!vars) => Ocr!TypeOK'
<1> SUFFICES ASSUME OcrInv, [Ocr!Next]_(Ocr!vars) PROVE Ocr!TypeOK'
  OBVIOUS
<1> USE OcrAssumption DEF Ocr!TypeOK, Ocr!Texts, Ocr!Kinds, Ocr!reader
<1>0. Ocr!TypeOK /\ \A r \in Readers : step[r] # "idle" => pdf[r] \in Pdfs
  BY DEF OcrInv, ReaderInv, HoldsItsPdf
<1>1. ASSUME NEW s \in Pdfs, Ocr!Replace(s) PROVE Ocr!TypeOK'
  BY <1>0, <1>1 DEF Ocr!Replace
<1>2. ASSUME NEW r \in Readers, NEW k \in Ocr!Kinds, NEW ps \in SUBSET Pages, Ocr!Open(r, k, ps)
      PROVE  Ocr!TypeOK'
  BY <1>0, <1>2 DEF Ocr!Open, Ocr!Nothing
<1>3. ASSUME NEW r \in Readers, Ocr!Load(r) PROVE Ocr!TypeOK'
  <2>1. Ocr!Nothing \in Ocr!Texts /\ entry[pdf[r]] \in Ocr!Texts
    BY <1>0, <1>3 DEF Ocr!Nothing, Ocr!Load
  <2>2. PICK t \in Ocr!Texts, lonely \in BOOLEAN :
          cached' = [cached EXCEPT ![r] = t] /\ alone' = [alone EXCEPT ![r] = lonely]
    BY <1>3, <2>1 DEF Ocr!Load, Ocr!Key
  <2>3. /\ step' = [step EXCEPT ![r] = "read"]
        /\ UNCHANGED <<stored, entry, kind, pdf, asked, out, spent>>
    BY <1>3 DEF Ocr!Load
  <2> QED
    BY <1>0, <2>2, <2>3
<1>4. ASSUME NEW r \in Readers, NEW p \in Pages, Ocr!TakeCached(r, p) PROVE Ocr!TypeOK'
  BY <1>0, <1>4 DEF Ocr!TakeCached
<1>5. ASSUME NEW r \in Readers, NEW p \in Pages, Ocr!ReadPage(r, p) PROVE Ocr!TypeOK'
  BY <1>0, <1>5 DEF Ocr!ReadPage
<1>6. ASSUME NEW r \in Readers, Ocr!Close(r) PROVE Ocr!TypeOK'
  BY <1>0, <1>6 DEF Ocr!Close
<1>7. ASSUME NEW r \in Readers, Ocr!Save(r) PROVE Ocr!TypeOK'
  <2>1. Ocr!Merged(r) \in Ocr!Texts
    BY <1>0 DEF Ocr!Merged
  <2> QED
    BY <1>0, <1>7, <2>1 DEF Ocr!Save, Ocr!Key
<1>8. ASSUME NEW r \in Readers, Ocr!SaveFails(r) \/ Ocr!Fail(r) PROVE Ocr!TypeOK'
  BY <1>0, <1>8 DEF Ocr!SaveFails, Ocr!Fail
<1>9. ASSUME UNCHANGED Ocr!vars PROVE Ocr!TypeOK'
  BY <1>0, <1>9 DEF Ocr!vars
<1> QED
  BY <1>1, <1>2, <1>3, <1>4, <1>5, <1>6, <1>7, <1>8, <1>9 DEF Ocr!Next

LEMMA EntriesStep == OcrInv /\ [Ocr!Next]_(Ocr!vars) => EntriesOfTheirPdf'
<1> SUFFICES ASSUME OcrInv, [Ocr!Next]_(Ocr!vars) PROVE EntriesOfTheirPdf'
  OBVIOUS
<1>1. CASE UNCHANGED entry
  BY <1>1 DEF OcrInv, EntriesOfTheirPdf
<1>2. ASSUME NEW r \in Readers, Ocr!Save(r) PROVE EntriesOfTheirPdf'
  <2>1. \A p \in Pages : Ocr!Merged(r)[p] \in {None, pdf[r]}
    BY <1>2 DEF OcrInv, ReaderInv, HoldsItsPdf, LoadedItsPdf, Ocr!Merged, Ocr!Save
  <2> QED
    BY <1>2, <2>1 DEF Ocr!Save, Ocr!Key, OcrInv, EntriesOfTheirPdf, Ocr!TypeOK
<1>3. (\E r \in Readers : Ocr!Save(r)) \/ UNCHANGED entry
  BY DEF Ocr!Next, Ocr!Replace, Ocr!Open, Ocr!Load, Ocr!TakeCached, Ocr!ReadPage, Ocr!Close,
         Ocr!SaveFails, Ocr!Fail, Ocr!vars
<1> QED
  BY <1>1, <1>2, <1>3

\* A reader is not disturbed by the steps of the others, unless they save.
LEMMA OthersStep ==
  ASSUME OcrInv, NEW q \in Readers,
         step'[q] = step[q], kind'[q] = kind[q], pdf'[q] = pdf[q], asked'[q] = asked[q],
         cached'[q] = cached[q], out'[q] = out[q],
         alone'[q] => alone[q] /\ entry'[pdf[q]] = entry[pdf[q]]
  PROVE  ReaderInv(q)'
  BY DEF OcrInv, ReaderInv, HoldsItsPdf, LoadedItsPdf, ReadItAll

LEMMA ReaderStep == OcrInv /\ [Ocr!Next]_(Ocr!vars) => \A q \in Readers : ReaderInv(q)'
<1> SUFFICES ASSUME OcrInv, [Ocr!Next]_(Ocr!vars), NEW q \in Readers PROVE ReaderInv(q)'
  OBVIOUS
<1> USE OcrAssumption
<1>t. /\ step \in [Readers -> {"idle", "load", "read", "save", "done"}]
      /\ kind \in [Readers -> Ocr!Kinds]
      /\ pdf \in [Readers -> Pdfs \union {None}]
      /\ asked \in [Readers -> SUBSET Pages]
      /\ cached \in [Readers -> Ocr!Texts] /\ out \in [Readers -> Ocr!Texts]
      /\ spent \in [Readers -> BOOLEAN] /\ alone \in [Readers -> BOOLEAN]
      /\ entry \in [Pdfs -> Ocr!Texts]
  BY DEF OcrInv, Ocr!TypeOK
<1>i. ReaderInv(q)
  BY DEF OcrInv
<1>0. ASSUME UNCHANGED entry, UNCHANGED step, UNCHANGED kind, UNCHANGED pdf, UNCHANGED asked,
             UNCHANGED cached, UNCHANGED out, UNCHANGED alone
      PROVE  ReaderInv(q)'
  BY <1>0, OthersStep
<1>1. ASSUME NEW s \in Pdfs, Ocr!Replace(s) PROVE ReaderInv(q)'
  BY <1>0, <1>1 DEF Ocr!Replace, Ocr!reader
<1>2. ASSUME NEW r \in Readers, NEW k \in Ocr!Kinds, NEW ps \in SUBSET Pages, Ocr!Open(r, k, ps)
      PROVE  ReaderInv(q)'
  <2>1. CASE q # r
    BY <1>t, <1>2, <2>1, OthersStep DEF Ocr!Open
  <2>2. CASE q = r
    <3>1. stored \in Pdfs
      BY DEF OcrInv, Ocr!TypeOK
    <3>2. /\ pdf'[q] = stored /\ out'[q] = Ocr!Nothing /\ asked'[q] = ps /\ kind'[q] = k
          /\ step'[q] = IF Scanned[stored] \intersect ps = {} THEN "done" ELSE "load"
      BY <1>t, <1>2, <2>2 DEF Ocr!Open
    <3>3. k = "reindex" => ps = Pages
      BY <1>2 DEF Ocr!Open
    <3> QED
      BY <3>1, <3>2, <3>3 DEF ReaderInv, HoldsItsPdf, LoadedItsPdf, ReadItAll, Ocr!Nothing
  <2> QED
    BY <2>1, <2>2
<1>3. ASSUME NEW r \in Readers, Ocr!Load(r) PROVE ReaderInv(q)'
  <2>1. CASE q # r
    BY <1>t, <1>3, <2>1, OthersStep DEF Ocr!Load
  <2>2. CASE q = r
    <3>1. /\ step[q] = "load" /\ step'[q] = "read" /\ pdf'[q] = pdf[q] /\ out'[q] = out[q]
          /\ kind'[q] = kind[q] /\ asked'[q] = asked[q] /\ entry' = entry
          /\ \/ cached'[q] = entry[pdf[q]]
             \/ cached'[q] = Ocr!Nothing /\ alone'[q] = FALSE
      BY <1>t, <1>3, <2>2 DEF Ocr!Load, Ocr!Key
    <3> QED
      BY <1>i, <3>1 DEF OcrInv, EntriesOfTheirPdf, ReaderInv, HoldsItsPdf, LoadedItsPdf, ReadItAll,
                        Ocr!Nothing
  <2> QED
    BY <2>1, <2>2
<1>4. ASSUME NEW r \in Readers, NEW p \in Pages, Ocr!TakeCached(r, p) \/ Ocr!ReadPage(r, p)
      PROVE  ReaderInv(q)'
  <2>1. CASE q # r
    BY <1>t, <1>4, <2>1, OthersStep DEF Ocr!TakeCached, Ocr!ReadPage
  <2>2. CASE q = r
    <3>1. /\ step[q] = "read" /\ step' = step /\ pdf' = pdf /\ kind' = kind /\ asked' = asked
          /\ cached' = cached /\ alone' = alone /\ entry' = entry
          /\ \A o \in Pages : out'[q][o] = out[q][o] \/ out'[q][o] \in {cached[q][o], pdf[q]}
      BY <1>t, <1>4, <2>2 DEF Ocr!TakeCached, Ocr!ReadPage, Ocr!IsNext, Ocr!Texts
    <3> QED
      BY <1>i, <3>1 DEF ReaderInv, HoldsItsPdf, LoadedItsPdf, ReadItAll
  <2> QED
    BY <2>1, <2>2
<1>5. ASSUME NEW r \in Readers, Ocr!Close(r) PROVE ReaderInv(q)'
  <2>1. CASE q # r
    BY <1>t, <1>5, <2>1, OthersStep DEF Ocr!Close
  <2>2. CASE q = r
    <3>1. /\ step[q] = "read" /\ step'[q] \in {"save", "done"} /\ pdf' = pdf /\ kind' = kind
          /\ asked' = asked /\ cached' = cached /\ out' = out /\ alone' = alone /\ entry' = entry
      BY <1>t, <1>5, <2>2 DEF Ocr!Close
    <3>2. kind[q] = "reindex" => \A p \in Ocr!Candidates(q) : out[q][p] # None
      BY <1>5, <2>2 DEF Ocr!Close, Ocr!BudgetIsOver
    <3>3. kind[q] = "reindex" => Ocr!Candidates(q) = Scanned[pdf[q]]
      BY <1>i, <3>1 DEF ReaderInv, HoldsItsPdf, ReadItAll, Ocr!Candidates
    <3> QED
      BY <1>i, <3>1, <3>2, <3>3 DEF ReaderInv, HoldsItsPdf, LoadedItsPdf, ReadItAll
  <2> QED
    BY <2>1, <2>2
<1>6. ASSUME NEW r \in Readers, Ocr!Save(r) PROVE ReaderInv(q)'
  <2>1. CASE q # r
    <3>1. alone'[q] => alone[q] /\ pdf[q] # pdf[r]
      BY <1>6, <2>1 DEF Ocr!Save
    <3>2. pdf[q] # pdf[r] => entry'[pdf[q]] = entry[pdf[q]]
      BY <1>t, <1>6 DEF Ocr!Save, Ocr!Key
    <3> QED
      BY <1>t, <1>6, <2>1, <3>1, <3>2, OthersStep DEF Ocr!Save
  <2>2. CASE q = r
    <3>1. /\ step[q] = "save" /\ step'[q] = "done" /\ pdf' = pdf /\ kind' = kind
          /\ asked' = asked /\ out' = out
      BY <1>t, <1>6, <2>2 DEF Ocr!Save
    <3> QED
      BY <1>i, <3>1 DEF ReaderInv, HoldsItsPdf, LoadedItsPdf, ReadItAll
  <2> QED
    BY <2>1, <2>2
<1>7. ASSUME NEW r \in Readers, Ocr!SaveFails(r) \/ Ocr!Fail(r) PROVE ReaderInv(q)'
  <2>1. CASE q # r
    BY <1>t, <1>7, <2>1, OthersStep DEF Ocr!SaveFails, Ocr!Fail
  <2>2. CASE q = r
    <3>1. /\ (step[q] = "save" /\ step'[q] = "done") \/ step'[q] = "idle"
          /\ pdf' = pdf /\ kind' = kind /\ asked' = asked /\ out' = out
      BY <1>t, <1>7, <2>2 DEF Ocr!SaveFails, Ocr!Fail
    <3> QED
      BY <1>i, <3>1 DEF ReaderInv, HoldsItsPdf, LoadedItsPdf, ReadItAll
  <2> QED
    BY <2>1, <2>2
<1>8. ASSUME UNCHANGED Ocr!vars PROVE ReaderInv(q)'
  BY <1>0, <1>8 DEF Ocr!vars, Ocr!reader
<1> QED
  BY <1>1, <1>2, <1>3, <1>4, <1>5, <1>6, <1>7, <1>8 DEF Ocr!Next

LEMMA OcrStep == OcrInv /\ [Ocr!Next]_(Ocr!vars) => OcrInv'
  BY OcrTypeStep, EntriesStep, ReaderStep DEF OcrInv

LEMMA RunsOcr ==
  ServicesSpec => \/ []~(service = "ocr")
                  \/ [](service = "ocr") /\ Ocr!Spec
<1>1. ServicesInit /\ service = "ocr" => Ocr!Init
  BY DEF ServicesInit
<1>2. service = "ocr" /\ [ServicesNext]_ServiceVars => [Ocr!Next]_(Ocr!vars) /\ (service = "ocr")'
  BY SameService DEF ServicesNext, ServiceVars, ocr, Ocr!vars, Ocr!reader
<1>3. ~(service = "ocr") /\ [ServicesNext]_ServiceVars => (~(service = "ocr"))'
  BY SameService
<1> QED
  BY <1>1, <1>2, <1>3, PTL DEF ServicesSpec, Ocr!Spec

\* Nobody is handed the text of another version of the edition, and a reindexing
\* that ends well has read every scanned page, however the readers overlap and fail.
THEOREM OcrIsRight == ServicesSpec => []OcrSafe
<1>1. ~(service = "ocr") => OcrSafe
  BY DEF OcrSafe
<1>2. OcrInv => OcrSafe
  BY DEF OcrInv, OcrSafe, ReaderInv, HoldsItsPdf, ReadItAll, Ocr!TextIsOfItsPdf,
         Ocr!ReindexLeavesNothing
<1> QED
  BY <1>1, <1>2, RunsOcr, OcrInit, OcrStep, PTL DEF Ocr!Spec

\* The cache loses pages only to a failed load or to readers of one PDF.
LEMMA OcrObjectsGrow == ServicesSpec => [][service = "ocr" => Ocr!LosesOnlyToRaces]_ServiceVars
<1> DEFINE kept == service = "ocr" => Ocr!LosesOnlyToRaces
<1>1. ~(service = "ocr") => [kept]_ServiceVars
  OBVIOUS
<1>2. OcrInv /\ [Ocr!Next]_(Ocr!vars) => [kept]_ServiceVars
  <2> SUFFICES ASSUME OcrInv, [Ocr!Next]_(Ocr!vars), NEW s \in Pdfs, NEW p \in Pages,
                      entry[s][p] # None, entry'[s][p] = None
               PROVE  \E r \in Readers : /\ step[r] = "save" /\ step'[r] = "done"
                                         /\ pdf[r] = s /\ ~alone[r]
    BY DEF Ocr!LosesOnlyToRaces
  <2>1. PICK r \in Readers : Ocr!Save(r)
    BY DEF Ocr!Next, Ocr!Replace, Ocr!Open, Ocr!Load, Ocr!TakeCached, Ocr!ReadPage, Ocr!Close,
           Ocr!SaveFails, Ocr!Fail, Ocr!vars
  <2>2. step \in [Readers -> {"idle", "load", "read", "save", "done"}] /\ entry \in [Pdfs -> Ocr!Texts]
    BY DEF OcrInv, Ocr!TypeOK
  <2>3. step[r] = "save" /\ step'[r] = "done" /\ pdf[r] = s /\ Ocr!Merged(r)[p] = None
    BY <2>1, <2>2 DEF Ocr!Save, Ocr!Key
  <2>4. cached[r][p] = None
    BY <2>3 DEF Ocr!Merged
  <2>5. ~alone[r]
    BY <2>3, <2>4 DEF OcrInv, ReaderInv, LoadedItsPdf
  <2> QED
    BY <2>3, <2>5
<1> QED
  BY <1>1, <1>2, RunsOcr, OcrInit, OcrStep, PTL DEF Ocr!Spec

-----------------------------------------------------------------------------
(***************************************************************************)
(* The reports of the patterns.  A fingerprint that the tables had only      *)
(* once is that of one of their states: reports kept under it are those of   *)
(* that state while the tables have it, and reports kept under the one that  *)
(* an instance last read differ from now only in rows changed since then.    *)
(***************************************************************************)
Prints == [count : Nat, latest : Nat]
Reports == [Rows -> 0..MaxXid]
Partial == UNION {[S -> 0..MaxXid] : S \in SUBSET Rows}
Writes == [writes : SUBSET Rows, deletes : SUBSET Rows]

PatternTypes ==
  /\ xmin \in Reports /\ nextXid \in 1..(MaxXid + 1)
  /\ open \in [Pat!Xids -> Writes \union {None}]
  /\ store \in [fingerprint : Prints, reports : Reports] \union {None}
  /\ reports \in [Instances -> Reports \union {None}]
  /\ known \in [Instances -> Prints \union {None}]
  /\ fresh \in [Instances -> BOOLEAN]
  /\ step \in [Instances -> {"idle", "load", "compute"}]
  /\ draft \in [Instances -> Partial \union {None}]
  /\ checked \in [Instances -> Prints \union {None}]
  /\ changed \in [Instances -> SUBSET Rows]

\* What each instance holds at each step of a refresh.
Holds(i) ==
  /\ fresh[i] => known[i] # None /\ step[i] = "idle"
  /\ known[i] # None => reports[i] \in Reports
  /\ step[i] # "idle" => checked[i] \in Prints
  /\ step[i] = "compute" => draft[i] \in Partial

\* A transaction that has not committed wrote nothing yet.
Uncommitted ==
  /\ \A r \in Rows : xmin[r] < nextXid
  /\ \A x \in Pat!Xids : open[x] # None => x < nextXid /\ \A r \in Rows : xmin[r] # x

Watches(i, f) == \/ step[i] # "idle" /\ checked[i] = f
                 \/ fresh[i] /\ known[i] = f

\* Reports R, whole or begun, under fingerprint f.
Fits(f, R) ==
  /\ f \in past
  /\ f \notin repeated =>
       /\ f = Pat!Fingerprint(xmin) => \A r \in DOMAIN R : R[r] = xmin[r]
       /\ \A i \in Instances :
            Watches(i, f) => \A r \in DOMAIN R \ changed[i] : R[r] = xmin[r]

\* The reports kept in the store, in memory or in a refresh under way.
Kept(f, R) ==
  \/ store # None /\ f = store.fingerprint /\ R = store.reports
  \/ \E i \in Instances : known[i] # None /\ f = known[i] /\ R = reports[i]
  \/ \E i \in Instances : step[i] = "compute" /\ f = checked[i] /\ R = draft[i]

AllFit ==
  /\ \A f \in Prints, R \in Partial : Kept(f, R) => Fits(f, R)
  /\ \A i \in Instances : step[i] # "idle" => checked[i] \in past
  /\ Pat!Fingerprint(xmin) \in past

PatternInv ==
  /\ PatternTypes /\ Uncommitted
  /\ \A i \in Instances : Holds(i)
  /\ AllFit

\* A set of naturals has a least element, so a bounded one has a greatest.
LEMMA LeastNatural ==
  ASSUME NEW T, T \subseteq Nat, T # {}
  PROVE  \E x \in T : \A y \in T : x <= y
<1>1. PICK x \in T : \A y \in T : ~(<<y, x>> \in OpToRel(<, Nat))
  BY NatLessThanWellFounded, WFMin
<1>2. \A y \in T : ~(y < x)
  BY <1>1 DEF OpToRel
<1> QED
  BY <1>2

LEMMA LatestIsGreatest ==
  ASSUME NEW t \in Reports
  PROVE  /\ Pat!Latest(t) \in 0..MaxXid
         /\ \A r \in Rows : t[r] <= Pat!Latest(t)
         /\ Pat!Latest(t) # 0 => \E r \in Rows : t[r] = Pat!Latest(t)
<1> DEFINE S == {t[r] : r \in Rows} \union {0}
           T == {MaxXid - y : y \in S}
<1>0. MaxXid \in Nat
  BY PatternsAssumption
<1>1. S \subseteq 0..MaxXid /\ 0 \in S
  BY <1>0 DEF Reports
<1>2. T \subseteq Nat /\ T # {}
  BY <1>0, <1>1
<1>3. PICK x \in T : \A y \in T : x <= y
  <2> HIDE DEF T
  <2> QED
    BY <1>2, LeastNatural
<1>4. MaxXid - x \in S /\ \A y \in S : MaxXid - x >= y
  <2>1. PICK z \in S : x = MaxXid - z
    BY <1>3
  <2>2. ASSUME NEW y \in S PROVE x <= MaxXid - y
    BY <1>3
  <2> HIDE DEF S, T
  <2>3. z \in 0..MaxXid /\ MaxXid - x = z
    BY <1>0, <1>1, <2>1
  <2>4. ASSUME NEW y \in S PROVE z >= y
    BY <1>0, <1>1, <2>1, <2>2, <2>3
  <2> QED
    BY <2>3, <2>4
<1>5. Pat!Latest(t) \in S /\ \A y \in S : Pat!Latest(t) >= y
  <2> HIDE DEF S, T
  <2>1. \E m \in S : \A y \in S : m >= y
    BY <1>4
  <2>2. Pat!Latest(t) = CHOOSE m \in S : \A y \in S : m >= y
    BY DEF Pat!Latest, Pat!Max, S
  <2> QED
    BY <2>1, <2>2
<1> QED
  BY <1>1, <1>5

LEMMA FingerprintType ==
  ASSUME NEW t \in Reports
  PROVE  Pat!Fingerprint(t) \in Prints /\ Pat!Fingerprint(t).latest = Pat!Latest(t)
<1>1. Pat!Cardinality({r \in Rows : t[r] # 0}) = Cardinality({r \in Rows : t[r] # 0})
  BY DEF Pat!Cardinality, Cardinality
<1>2. Cardinality({r \in Rows : t[r] # 0}) \in Nat
  BY PatternsAssumption, FS_Subset, FS_CardinalityType
<1> QED
  BY <1>1, <1>2, LatestIsGreatest, PatternsAssumption DEF Pat!Fingerprint, Pat!Count, Prints

LEMMA NoPrintIsNone == None \notin Prints
  BY PatternsAssumption DEF Prints

LEMMA PatternInit == Pat!Init => PatternInv
<1> SUFFICES ASSUME Pat!Init PROVE PatternInv
  OBVIOUS
<1> USE PatternsAssumption DEF Pat!Init
<1>1. PatternTypes
  <2>1. xmin \in Reports /\ nextXid \in 1..(MaxXid + 1)
    BY DEF Reports
  <2>2. changed \in [Instances -> SUBSET Rows] /\ fresh \in [Instances -> BOOLEAN]
    OBVIOUS
  <2> QED
    BY <2>1, <2>2 DEF PatternTypes
<1>2. Uncommitted /\ \A i \in Instances : Holds(i)
  BY DEF Uncommitted, Holds
<1>3. AllFit
  BY DEF AllFit, Kept, Pat!Fingerprint, Pat!Size
<1> QED
  BY <1>1, <1>2, <1>3 DEF PatternInv

LEMMA WholePartial ==
  ASSUME NEW d \in Partial
  PROVE  DOMAIN d = Rows => d \in Reports
  BY DEF Partial, Reports

LEMMA PartialGrows ==
  ASSUME NEW d \in Partial, NEW r \in Rows, NEW v \in 0..MaxXid,
         NEW e, e = [q \in DOMAIN d \union {r} |-> IF q = r THEN v ELSE d[q]]
  PROVE  e \in Partial
<1>1. PICK S \in SUBSET Rows : d \in [S -> 0..MaxXid]
  BY DEF Partial
<1>2. e \in [S \union {r} -> 0..MaxXid] /\ S \union {r} \in SUBSET Rows
  BY <1>1
<1> QED
  BY <1>2 DEF Partial

LEMMA PatternTypeStep ==
  ASSUME PatternInv, [Pat!Next]_(Pat!vars)
  PROVE  PatternTypes' /\ Uncommitted' /\ \A i \in Instances : Holds(i)'
<1> DEFINE Goal == PatternTypes' /\ Uncommitted' /\ \A i \in Instances : Holds(i)'
<1> USE PatternsAssumption DEF Pat!tables, Pat!cache
<1>t. PatternTypes /\ Uncommitted /\ \A i \in Instances : Holds(i)
  BY DEF PatternInv
<1>1. ASSUME NEW w \in SUBSET Rows, NEW d \in SUBSET Rows, Pat!Begin(w, d) PROVE Goal
  <2>1. nextXid \in Pat!Xids /\ nextXid' = nextXid + 1 /\ nextXid' \in 1..(MaxXid + 1)
    BY <1>t, <1>1 DEF Pat!Begin, Pat!Xids, PatternTypes
  <2>2. open' = [open EXCEPT ![nextXid] = [writes |-> w, deletes |-> d]]
    BY <1>1 DEF Pat!Begin
  <2>3. PatternTypes'
    BY <1>t, <1>1, <2>1, <2>2 DEF Pat!Begin, PatternTypes, Writes
  <2>4. Uncommitted'
    BY <1>t, <1>1, <2>1, <2>2 DEF Pat!Begin, PatternTypes, Uncommitted, Pat!Xids, Reports
  <2>5. \A i \in Instances : Holds(i)'
    BY <1>t, <1>1 DEF Pat!Begin, Holds
  <2> QED
    BY <2>3, <2>4, <2>5
<1>2. ASSUME NEW x \in Pat!Xids, Pat!Commit(x) PROVE Goal
  <2>1. /\ xmin' = [r \in Rows |-> IF r \in open[x].writes THEN x
                                   ELSE IF r \in open[x].deletes THEN 0 ELSE xmin[r]]
        /\ open' = [open EXCEPT ![x] = None]
        /\ open[x] \in Writes /\ x \in 1..MaxXid /\ x < nextXid
        /\ UNCHANGED <<nextXid, store, reports, known, fresh, step, draft, checked>>
    BY <1>t, <1>2 DEF Pat!Commit, PatternTypes, Uncommitted, Pat!Xids
  <2>2. changed' \in [Instances -> SUBSET Rows]
    BY <1>t, <1>2, <2>1 DEF Pat!Commit, PatternTypes, Writes
  <2>3. xmin' \in Reports
    BY <1>t, <2>1 DEF PatternTypes, Reports
  <2>4. PatternTypes'
    BY <1>t, <2>1, <2>2, <2>3 DEF PatternTypes
  <2>5. Uncommitted'
    BY <1>t, <2>1 DEF Uncommitted, PatternTypes, Pat!Xids
  <2>6. \A i \in Instances : Holds(i)'
    BY <1>t, <2>1 DEF Holds
  <2> QED
    BY <2>4, <2>5, <2>6
<1>3. ASSUME UNCHANGED <<xmin, open, nextXid>>, PatternTypes', \A i \in Instances : Holds(i)'
      PROVE  Goal
  BY <1>t, <1>3 DEF Uncommitted
<1>p. Pat!Fingerprint(xmin) \in Prints
  BY <1>t, FingerprintType DEF PatternTypes
<1>k. ASSUME NEW i \in Instances, NEW R \in Reports, NEW f \in Prints, Pat!Keep(i, R, f),
             UNCHANGED <<xmin, open, nextXid>>, changed' \in [Instances -> SUBSET Rows],
             store' \in [fingerprint : Prints, reports : Reports] \union {None}
      PROVE  PatternTypes' /\ \A j \in Instances : Holds(j)'
  <2>1. /\ reports' = [reports EXCEPT ![i] = R] /\ known' = [known EXCEPT ![i] = f]
        /\ fresh' = [fresh EXCEPT ![i] = TRUE] /\ step' = [step EXCEPT ![i] = "idle"]
        /\ draft' = [draft EXCEPT ![i] = None] /\ checked' = [checked EXCEPT ![i] = None]
    BY <1>k DEF Pat!Keep, Pat!Leave
  <2>2. f # None
    BY NoPrintIsNone
  <2>3. PatternTypes'
    BY <1>t, <1>k, <2>1 DEF PatternTypes
  <2>4. Holds(i)'
    BY <1>t, <2>1, <2>2 DEF PatternTypes, Holds
  <2>5. ASSUME NEW j \in Instances, j # i PROVE Holds(j)'
    <3>1. /\ reports'[j] = reports[j] /\ known'[j] = known[j] /\ fresh'[j] = fresh[j]
          /\ step'[j] = step[j] /\ draft'[j] = draft[j] /\ checked'[j] = checked[j]
      BY <1>t, <2>1, <2>5 DEF PatternTypes
    <3> QED
      BY <1>t, <3>1 DEF Holds
  <2> QED
    BY <2>3, <2>4, <2>5
<1>4. ASSUME NEW i \in Instances, Pat!Check(i) PROVE Goal
  <2>1. PatternTypes' /\ \A j \in Instances : Holds(j)'
    <3>1. CASE Pat!Fingerprint(xmin) = known[i]
      <4>1. known[i] \in Prints /\ reports[i] \in Reports
        BY <1>t, <1>p, <3>1, NoPrintIsNone DEF Holds
      <4>2. Pat!Keep(i, reports[i], known[i]) /\ UNCHANGED <<xmin, open, nextXid, store>>
        BY <1>4, <3>1 DEF Pat!Check
      <4>3. changed' \in [Instances -> SUBSET Rows]
        BY <1>t, <1>4 DEF Pat!Check, PatternTypes
      <4>4. store' \in [fingerprint : Prints, reports : Reports] \union {None}
        BY <1>t, <4>2 DEF PatternTypes
      <4> QED
        BY <1>k, <4>1, <4>2, <4>3, <4>4
    <3>2. CASE Pat!Fingerprint(xmin) # known[i]
      <4>1. /\ step[i] = "idle" /\ ~fresh[i]
            /\ step' = [step EXCEPT ![i] = "load"]
            /\ checked' = [checked EXCEPT ![i] = Pat!Fingerprint(xmin)]
            /\ changed' = [changed EXCEPT ![i] = {}]
            /\ UNCHANGED <<reports, known, fresh, draft, xmin, open, nextXid, store>>
        BY <1>4, <3>2 DEF Pat!Check
      <4>2. PatternTypes'
        BY <1>t, <1>p, <4>1 DEF PatternTypes
      <4>3. Holds(i)'
        BY <1>t, <1>p, <4>1 DEF PatternTypes, Holds
      <4>4. \A j \in Instances \ {i} : step'[j] = step[j] /\ checked'[j] = checked[j]
        BY <1>t, <4>1 DEF PatternTypes
      <4> QED
        BY <1>t, <4>1, <4>2, <4>3, <4>4 DEF Holds
    <3> QED
      BY <3>1, <3>2
  <2> QED
    BY <1>3, <1>4, <2>1 DEF Pat!Check
<1>5. ASSUME NEW i \in Instances, Pat!Load(i) PROVE Goal
  <2>0. [r \in {} |-> 0] \in Partial
    <3>1. [r \in {} |-> 0] \in [{} -> 0..MaxXid]
      OBVIOUS
    <3>2. {} \in SUBSET Rows
      OBVIOUS
    <3> HIDE PatternsAssumption
    <3> QED
      BY <3>1, <3>2 DEF Partial
  <2>1. PatternTypes' /\ \A j \in Instances : Holds(j)'
    <3>1. CASE Pat!StartComputing(i)
      <4>1. /\ step[i] = "load" /\ step' = [step EXCEPT ![i] = "compute"]
            /\ draft' = [draft EXCEPT ![i] = [r \in {} |-> 0]]
            /\ UNCHANGED <<reports, known, fresh, checked, changed, xmin, open, nextXid, store>>
        BY <1>5, <3>1 DEF Pat!Load, Pat!StartComputing
      <4>2. PatternTypes'
        BY <1>t, <2>0, <4>1 DEF PatternTypes
      <4>3. Holds(i)'
        BY <1>t, <2>0, <4>1 DEF PatternTypes, Holds
      <4>4. \A j \in Instances \ {i} : step'[j] = step[j] /\ draft'[j] = draft[j]
        BY <1>t, <4>1 DEF PatternTypes
      <4> QED
        BY <1>t, <4>1, <4>2, <4>3, <4>4 DEF Holds
    <3>2. CASE Pat!Stored(i) /\ Pat!Keep(i, store.reports, checked[i])
      <4>1. store.reports \in Reports /\ checked[i] \in Prints /\ checked[i] # None
        BY <1>t, <1>5, <3>2, NoPrintIsNone DEF Pat!Load, Pat!Stored, PatternTypes, Holds
      <4>2. UNCHANGED <<xmin, open, nextXid, store, changed>>
        BY <1>5 DEF Pat!Load
      <4>3. /\ changed' \in [Instances -> SUBSET Rows]
            /\ store' \in [fingerprint : Prints, reports : Reports] \union {None}
        BY <1>t, <4>2 DEF PatternTypes
      <4> QED
        BY <1>k, <3>2, <4>1, <4>2, <4>3
    <3> QED
      BY <1>5, <3>1, <3>2 DEF Pat!Load
  <2> QED
    BY <1>3, <1>5, <2>1 DEF Pat!Load
<1>6. ASSUME NEW i \in Instances, NEW r \in Rows, Pat!Read(i, r) PROVE Goal
  <2>0. draft[i] \in Partial /\ xmin[r] \in 0..MaxXid
    BY <1>t, <1>6 DEF Pat!Read, PatternTypes, Holds, Reports
  <2> DEFINE e == [q \in DOMAIN draft[i] \union {r} |-> IF q = r THEN xmin[r] ELSE draft[i][q]]
  <2>a. e \in Partial
    BY <2>0, PartialGrows
  <2>b. draft' = [draft EXCEPT ![i] = e]
    BY <1>6 DEF Pat!Read
  <2> HIDE DEF e
  <2>1. draft'[i] \in Partial /\ \A j \in Instances : j # i => draft'[j] = draft[j]
    BY <1>t, <2>a, <2>b DEF PatternTypes
  <2>2. draft' \in [Instances -> Partial \union {None}]
    BY <1>t, <2>a, <2>b DEF PatternTypes
  <2>3. PatternTypes' /\ \A j \in Instances : Holds(j)'
    BY <1>t, <1>6, <2>1, <2>2 DEF Pat!Read, PatternTypes, Holds
  <2> QED
    BY <1>3, <1>6, <2>3 DEF Pat!Read
<1>7. ASSUME NEW i \in Instances, Pat!Save(i) PROVE Goal
  <2>1. draft[i] \in Reports /\ checked[i] \in Prints /\ checked[i] # None
    BY <1>t, <1>7, NoPrintIsNone, WholePartial DEF Pat!Save, Holds
  <2>2. store' \in [fingerprint : Prints, reports : Reports] \union {None}
    BY <1>t, <1>7, <2>1 DEF Pat!Save, PatternTypes
  <2>3. PatternTypes' /\ \A j \in Instances : Holds(j)'
    <3>1. Pat!Keep(i, draft[i], checked[i]) /\ UNCHANGED <<xmin, open, nextXid, changed>>
      BY <1>7 DEF Pat!Save
    <3>2. changed' \in [Instances -> SUBSET Rows]
      BY <1>t, <3>1 DEF PatternTypes
    <3> QED
      BY <1>k, <2>1, <2>2, <3>1, <3>2
  <2> QED
    BY <1>3, <1>7, <2>3 DEF Pat!Save
<1>8. ASSUME NEW i \in Instances, Pat!RefreshFails(i) \/ Pat!Expire(i) \/ Pat!Restart(i) PROVE Goal
  <2>1. PatternTypes' /\ \A j \in Instances : Holds(j)'
    <3>1. CASE Pat!RefreshFails(i)
      BY <1>t, <3>1 DEF Pat!RefreshFails, Pat!Leave, PatternTypes, Holds
    <3>2. CASE Pat!Expire(i)
      BY <1>t, <3>2 DEF Pat!Expire, PatternTypes, Holds
    <3>3. CASE Pat!Restart(i)
      BY <1>t, <3>3 DEF Pat!Restart, Pat!Leave, PatternTypes, Holds
    <3> QED
      BY <1>8, <3>1, <3>2, <3>3
  <2> QED
    BY <1>3, <1>8, <2>1 DEF Pat!RefreshFails, Pat!Expire, Pat!Restart
<1>9. ASSUME UNCHANGED Pat!vars PROVE Goal
  BY <1>t, <1>9 DEF Pat!vars, PatternTypes, Uncommitted, Holds
<1> QED
  BY <1>1, <1>2, <1>4, <1>5, <1>6, <1>7, <1>8, <1>9 DEF Pat!Next, Pat!Refresh

LEMMA FitsStep ==
  ASSUME PatternInv, AllFit, [Pat!Next]_(Pat!vars), NEW f \in Prints, NEW R \in Partial, Fits(f, R)
  PROVE  Fits(f, R)'
<1> USE DEF Pat!tables, Pat!cache
<1>t. PatternTypes /\ \A i \in Instances : Holds(i)
  BY DEF PatternInv
<1>d. DOMAIN R \subseteq Rows
  BY DEF Partial
<1>1. ASSUME NEW x \in Pat!Xids, Pat!Commit(x) PROVE Fits(f, R)'
  <2>1. past' = past \union {Pat!Size(xmin')}
        /\ repeated' = repeated \union ({Pat!Size(xmin')} \intersect past)
    BY <1>1 DEF Pat!Commit
  <2>2. Pat!Fingerprint(xmin') = Pat!Size(xmin')
    BY DEF Pat!Fingerprint, Pat!Size
  <2>3. f \in past' /\ (f \notin repeated' => f \notin repeated /\ f # Pat!Fingerprint(xmin'))
    BY <2>1, <2>2 DEF Fits
  <2>4. ASSUME f \notin repeated', NEW i \in Instances, Watches(i, f)',
               NEW r \in DOMAIN R, r \notin changed'[i]
        PROVE  R[r] = xmin'[r]
    <3>1. Watches(i, f)
      BY <1>1, <2>4 DEF Watches, Pat!Commit
    <3>2. changed'[i] = changed[i] \union open[x].writes \union open[x].deletes
      BY <1>1, <3>1 DEF Watches, Pat!Commit
    <3>3. r \in Rows /\ r \notin changed[i] /\ xmin'[r] = xmin[r]
      BY <1>1, <1>d, <2>4, <3>2 DEF Pat!Commit
    <3> QED
      BY <2>3, <2>4, <3>1, <3>3 DEF Fits
  <2>5. Pat!Fingerprint(xmin)' = Pat!Fingerprint(xmin')
    OBVIOUS
  <2> QED
    BY <2>3, <2>4, <2>5 DEF Fits
<1>2. ASSUME xmin' = xmin, past' = past, repeated' = repeated,
             \A i \in Instances : Watches(i, f)' => \/ Watches(i, f) /\ changed'[i] = changed[i]
                                                    \/ f = Pat!Fingerprint(xmin)
      PROVE  Fits(f, R)'
  <2>1. Pat!Fingerprint(xmin)' = Pat!Fingerprint(xmin)
    BY <1>2
  <2> QED
    BY <1>2, <2>1 DEF Fits
<1>3. ASSUME NEW w \in SUBSET Rows, NEW d \in SUBSET Rows, Pat!Begin(w, d) PROVE Fits(f, R)'
  BY <1>2, <1>3 DEF Pat!Begin, Watches
<1>4. ASSUME NEW i \in Instances, Pat!Check(i) PROVE Fits(f, R)'
  <2>1. ASSUME NEW j \in Instances, Watches(j, f)'
        PROVE  (Watches(j, f) /\ changed'[j] = changed[j]) \/ f = Pat!Fingerprint(xmin)
    <3>1. CASE j = i
      BY <1>t, <1>4, <2>1, <3>1 DEF Pat!Check, Pat!Keep, Pat!Leave, Watches, PatternTypes
    <3>2. CASE j # i
      BY <1>t, <1>4, <2>1, <3>2 DEF Pat!Check, Pat!Keep, Pat!Leave, Watches, PatternTypes
    <3> QED
      BY <3>1, <3>2
  <2> QED
    BY <1>2, <1>4, <2>1 DEF Pat!Check
<1>5. ASSUME NEW i \in Instances, Pat!Load(i) \/ Pat!Save(i) \/ \E r \in Rows : Pat!Read(i, r)
      PROVE  Fits(f, R)'
  <2>1. /\ changed' = changed /\ xmin' = xmin /\ past' = past /\ repeated' = repeated
        /\ step[i] # "idle"
    BY <1>5 DEF Pat!Load, Pat!Save, Pat!Read
  <2>2. ASSUME NEW j \in Instances, Watches(j, f)' PROVE Watches(j, f)
    <3>1. CASE Pat!Load(i)
      BY <1>t, <2>1, <2>2, <3>1
      DEF Pat!Load, Pat!Keep, Pat!Leave, Pat!StartComputing, Watches, PatternTypes
    <3>2. CASE Pat!Save(i)
      BY <1>t, <2>1, <2>2, <3>2 DEF Pat!Save, Pat!Keep, Pat!Leave, Watches, PatternTypes
    <3>3. CASE \E r \in Rows : Pat!Read(i, r)
      BY <2>2, <3>3 DEF Pat!Read, Watches
    <3> QED
      BY <1>5, <3>1, <3>2, <3>3
  <2> QED
    BY <1>2, <2>1, <2>2
<1>6. ASSUME NEW i \in Instances, Pat!RefreshFails(i) \/ Pat!Expire(i) \/ Pat!Restart(i)
      PROVE  Fits(f, R)'
  <2>1. ASSUME NEW j \in Instances, Watches(j, f)' PROVE Watches(j, f) /\ changed'[j] = changed[j]
    BY <1>t, <1>6, <2>1
    DEF Pat!RefreshFails, Pat!Expire, Pat!Restart, Pat!Leave, Watches, PatternTypes, Holds
  <2> QED
    BY <1>2, <1>6, <2>1 DEF Pat!RefreshFails, Pat!Expire, Pat!Restart
<1>7. ASSUME UNCHANGED Pat!vars PROVE Fits(f, R)'
  BY <1>2, <1>7 DEF Pat!vars, Watches
<1> QED
  BY <1>1, <1>3, <1>4, <1>5, <1>6, <1>7 DEF Pat!Next, Pat!Refresh

\* Reports that are kept after a step were kept before it, unless an instance has
\* just begun to read the tables or has read one row more.
LEMMA KeptStep ==
  ASSUME PatternInv, [Pat!Next]_(Pat!vars), NEW f, NEW R, Kept(f, R)'
  PROVE  \/ Kept(f, R)
         \/ \E i \in Instances : step[i] = "load" /\ f = checked[i] /\ R = [r \in {} |-> 0]
                                 /\ UNCHANGED <<xmin, past, repeated>>
         \/ \E i \in Instances : /\ step[i] = "compute" /\ f = checked[i]
                                 /\ \E r \in Rows : Pat!Read(i, r) /\ R = draft'[i]
<1> USE DEF Pat!tables, Pat!cache
<1>t. PatternTypes
  BY DEF PatternInv
<1>1. ASSUME UNCHANGED <<store, reports, known, step, checked, draft>> PROVE Kept(f, R)
  BY <1>1 DEF Kept
<1>2. ASSUME NEW i \in Instances, Pat!Check(i) PROVE Kept(f, R)
  BY <1>t, <1>2 DEF Pat!Check, Pat!Keep, Pat!Leave, PatternTypes, Kept
<1>3. ASSUME NEW i \in Instances, Pat!Load(i), Pat!Keep(i, store.reports, checked[i]), Pat!Stored(i)
      PROVE  Kept(f, R)
  BY <1>t, <1>3 DEF Pat!Load, Pat!Stored, Pat!Keep, Pat!Leave, PatternTypes, Kept
<1>4. ASSUME NEW i \in Instances, Pat!Load(i), Pat!StartComputing(i), ~Kept(f, R)
      PROVE  step[i] = "load" /\ f = checked[i] /\ R = [r \in {} |-> 0]
             /\ UNCHANGED <<xmin, past, repeated>>
  BY <1>t, <1>4 DEF Pat!Load, Pat!StartComputing, PatternTypes, Kept
<1>5. ASSUME NEW i \in Instances, NEW r \in Rows, Pat!Read(i, r), ~Kept(f, R)
      PROVE  step[i] = "compute" /\ f = checked[i] /\ R = draft'[i]
  BY <1>t, <1>5 DEF Pat!Read, PatternTypes, Kept
<1>6. ASSUME NEW i \in Instances, Pat!Save(i) PROVE Kept(f, R)
  BY <1>t, <1>6 DEF Pat!Save, Pat!Keep, Pat!Leave, PatternTypes, Kept
<1>7. ASSUME NEW i \in Instances, Pat!RefreshFails(i) \/ Pat!Expire(i) \/ Pat!Restart(i)
      PROVE  Kept(f, R)
  BY <1>t, <1>7 DEF Pat!RefreshFails, Pat!Expire, Pat!Restart, Pat!Leave, PatternTypes, Kept
<1>8. ASSUME NEW i \in Instances, Pat!Load(i)
      PROVE  \/ Pat!Keep(i, store.reports, checked[i]) /\ Pat!Stored(i)
             \/ Pat!StartComputing(i)
  BY <1>8 DEF Pat!Load
<1>9. CASE \/ UNCHANGED Pat!vars
           \/ \E w, d \in SUBSET Rows : Pat!Begin(w, d)
           \/ \E x \in Pat!Xids : Pat!Commit(x)
  BY <1>1, <1>9 DEF Pat!vars, Pat!Begin, Pat!Commit
<1> QED
  BY <1>2, <1>3, <1>4, <1>5, <1>6, <1>7, <1>8, <1>9 DEF Pat!Next, Pat!Refresh

LEMMA PastStep ==
  ASSUME PatternInv, [Pat!Next]_(Pat!vars)
  PROVE  Pat!Fingerprint(xmin') \in past' /\ past \subseteq past'
<1> USE DEF Pat!tables, Pat!cache
<1>1. CASE \E x \in Pat!Xids : Pat!Commit(x)
  BY <1>1 DEF Pat!Commit, Pat!Fingerprint, Pat!Size
<1>2. CASE UNCHANGED <<xmin, past>>
  BY <1>2 DEF PatternInv, AllFit
<1> QED
  BY <1>1, <1>2
  DEF Pat!Next, Pat!Begin, Pat!Refresh, Pat!Check, Pat!Load, Pat!Read, Pat!Save,
      Pat!RefreshFails, Pat!Expire, Pat!Restart, Pat!vars

LEMMA CheckedStep ==
  ASSUME PatternInv, [Pat!Next]_(Pat!vars), NEW i \in Instances, step'[i] # "idle"
  PROVE  checked'[i] \in past'
<1> USE DEF Pat!tables, Pat!cache
<1>t. PatternTypes /\ Holds(i)
  BY DEF PatternInv
<1>1. past \subseteq past' /\ Pat!Fingerprint(xmin) \in past
  BY PastStep DEF PatternInv, AllFit
<1>2. CASE step[i] # "idle" /\ checked'[i] = checked[i]
  BY <1>1, <1>2 DEF PatternInv, AllFit
<1>3. CASE checked'[i] = Pat!Fingerprint(xmin)
  BY <1>1, <1>3
<1>4. ASSUME NEW j \in Instances, Pat!Check(j)
      PROVE  (step[i] # "idle" /\ checked'[i] = checked[i]) \/ checked'[i] = Pat!Fingerprint(xmin)
  BY <1>t, <1>4 DEF Pat!Check, Pat!Keep, Pat!Leave, PatternTypes
<1>5. ASSUME NEW j \in Instances,
             \/ Pat!Load(j) \/ Pat!Save(j) \/ Pat!RefreshFails(j) \/ Pat!Expire(j) \/ Pat!Restart(j)
             \/ \E r \in Rows : Pat!Read(j, r)
      PROVE  step[i] # "idle" /\ checked'[i] = checked[i]
  BY <1>t, <1>5
  DEF Pat!Load, Pat!Keep, Pat!StartComputing, Pat!Leave, Pat!Save, Pat!RefreshFails, Pat!Expire,
      Pat!Restart, Pat!Read, PatternTypes
<1>6. ASSUME \/ UNCHANGED Pat!vars
             \/ \E w, d \in SUBSET Rows : Pat!Begin(w, d)
             \/ \E x \in Pat!Xids : Pat!Commit(x)
      PROVE  step[i] # "idle" /\ checked'[i] = checked[i]
  BY <1>6 DEF Pat!vars, Pat!Begin, Pat!Commit
<1> QED
  BY <1>2, <1>3, <1>4, <1>5, <1>6 DEF Pat!Next, Pat!Refresh

LEMMA AllFitStep ==
  ASSUME PatternInv, [Pat!Next]_(Pat!vars)
  PROVE  AllFit'
<1> USE DEF Pat!tables, Pat!cache
<1>0. AllFit
  BY DEF PatternInv
<1>1. ASSUME NEW f \in Prints, NEW R \in Partial, Kept(f, R)' PROVE Fits(f, R)'
  <2>1. CASE Kept(f, R)
    BY <1>0, <2>1, FitsStep DEF AllFit
  <2>2. ASSUME NEW i \in Instances, step[i] = "load", f = checked[i], R = [r \in {} |-> 0],
               UNCHANGED <<xmin, past, repeated>>
        PROVE  Fits(f, R)'
    BY <1>0, <2>2 DEF AllFit, Fits
  <2>3. ASSUME NEW i \in Instances, NEW r \in Rows, step[i] = "compute", f = checked[i],
               Pat!Read(i, r), R = draft'[i]
        PROVE  Fits(f, R)'
    <3>1. draft[i] \in Partial /\ f \in Prints
      BY <2>3 DEF PatternInv, Holds
    <3>2. Fits(f, draft[i])
      BY <1>0, <2>3, <3>1 DEF AllFit, Kept
    <3>3. /\ DOMAIN R = DOMAIN draft[i] \union {r}
          /\ \A q \in DOMAIN R : R[q] = IF q = r THEN xmin[r] ELSE draft[i][q]
      BY <2>3 DEF Pat!Read, PatternInv, PatternTypes
    <3>4. /\ UNCHANGED <<xmin, changed, past, repeated>>
          /\ \A j \in Instances : Watches(j, f)' <=> Watches(j, f)
      BY <2>3 DEF Pat!Read, Watches
    <3> QED
      BY <3>2, <3>3, <3>4 DEF Fits
  <2> QED
    BY <1>1, <2>1, <2>2, <2>3, KeptStep
<1> QED
  <2>1. Pat!Fingerprint(xmin)' = Pat!Fingerprint(xmin')
    OBVIOUS
  <2> QED
    BY <1>1, <2>1, CheckedStep, PastStep DEF AllFit

LEMMA PatternStep == PatternInv /\ [Pat!Next]_(Pat!vars) => PatternInv'
  BY PatternTypeStep, AllFitStep DEF PatternInv

LEMMA RunsPatterns ==
  ServicesSpec => \/ []~(service = "patterns")
                  \/ [](service = "patterns") /\ Pat!Spec
<1>1. ServicesInit /\ service = "patterns" => Pat!Init
  BY DEF ServicesInit
<1>2. service = "patterns" /\ [ServicesNext]_ServiceVars =>
        [Pat!Next]_(Pat!vars) /\ (service = "patterns")'
  BY SameService
  DEF ServicesNext, ServiceVars, patterns, Pat!vars, Pat!tables, Pat!cache
<1>3. ~(service = "patterns") /\ [ServicesNext]_ServiceVars => (~(service = "patterns"))'
  BY SameService
<1> QED
  BY <1>1, <1>2, <1>3, PTL DEF ServicesSpec, Pat!Spec

\* Fresh reports of the patterns are current, whatever transactions, refreshes and
\* restarts overlap, unless the tables had their count and their newest transaction
\* more than once.
THEOREM PatternsAreCurrent == ServicesSpec => []ServedIsCurrent
<1>1. ~(service = "patterns") => ServedIsCurrent
  BY DEF ServedIsCurrent
<1>2. PatternInv => ServedIsCurrent
  <2> SUFFICES ASSUME PatternInv PROVE Pat!TypeOK /\ Pat!ServedIsCurrent
    BY DEF ServedIsCurrent
  <2>1. Pat!TypeOK
    BY DEF PatternInv, PatternTypes, Reports, Holds, Uncommitted, Pat!TypeOK
  <2>2. ASSUME NEW i \in Instances, fresh[i], known[i] \notin repeated, NEW r \in Rows \ changed[i]
        PROVE  reports[i][r] = xmin[r]
    <3>1. known[i] # None /\ known[i] \in Prints /\ reports[i] \in Reports
      BY <2>2 DEF PatternInv, PatternTypes, Holds
    <3>2. reports[i] \in Partial /\ DOMAIN reports[i] = Rows
      BY <3>1 DEF Reports, Partial
    <3>3. Fits(known[i], reports[i])
      BY <2>2, <3>1, <3>2 DEF PatternInv, AllFit, Kept
    <3> QED
      BY <2>2, <3>2, <3>3 DEF Fits, Watches
  <2> QED
    BY <2>1, <2>2 DEF Pat!ServedIsCurrent, Pat!Current
<1> QED
  BY <1>1, <1>2, RunsPatterns, PatternInit, PatternStep, PTL DEF Pat!Spec

-----------------------------------------------------------------------------
(***************************************************************************)
(* The sanctions.  A load holds what the files of the registers it has read *)
(* list of the companies cited when it began; the table holds, of every     *)
(* sanction once seen, a last day that is the one of the last file stored   *)
(* if it is in that file.                                                  *)
(***************************************************************************)
FileType(r) == [day : Nat, rows : [San!CodesOf(r) -> {"absent", "good", "bad"}]]
LoadType == [bases : SUBSET Listed, days : SUBSET San!RegisterSet,
             rows : UNION {[S -> Nat] : S \in SUBSET Listed},
             found : Nat, failed : Nat, error : BOOLEAN]

SanctionTypes ==
  /\ today \in 1..MaxDay /\ cited \subseteq Listed
  /\ \A r \in San!RegisterSet : file[r] \in FileType(r) /\ file[r].day \in 1..today
  /\ rows \in [Listed -> [first : Nat, last : Nat] \union {None}]
  /\ step \in {"idle", "read", "save", "report"} /\ at \in DOMAIN Registers
  /\ load \in LoadType
  /\ step = "read" => \A i \in DOMAIN Registers : i >= at => Registers[i] \notin load.days

\* The sanctions of the registers D that their files list with a value of V.
Listing(D, V) == {c \in Listed : RegisterOf(c) \in D /\ file[RegisterOf(c)].rows[c] \in V}

Totals ==
  /\ DOMAIN load.rows = Listing(load.days, {"good"}) \intersect load.bases
  /\ load.found = Cardinality(Listing(load.days, {"good", "bad"}))
  /\ load.failed = Cardinality(Listing(load.days, {"bad"}) \intersect load.bases)
  /\ \A c \in DOMAIN load.rows : load.rows[c] = file[RegisterOf(c)].day

Known(c) == rows[c] # None

InLoad == \A c \in Listed : Known(c) => c \in load.bases

Entry(c) ==
  LET f == loaded[RegisterOf(c)] IN
  /\ c \in cited
  /\ rows[c].first \in 1..rows[c].last
  /\ f \in FileType(RegisterOf(c)) /\ f.day <= file[RegisterOf(c)].day
  /\ rows[c].last <= f.day
  /\ f.rows[c] = "good" => rows[c].last = f.day

SanctionInv ==
  /\ SanctionTypes
  /\ step # "idle" => Totals /\ InLoad /\ load.bases \subseteq cited
  /\ DOMAIN load.rows \subseteq load.bases
  /\ \A c \in Listed : Known(c) => Entry(c)
  /\ San!SkippedIsUncited

LEMMA SameCardinality == \A S : San!Cardinality(S) = Cardinality(S)
  BY DEF San!Cardinality, Cardinality

LEMMA DisjointSum ==
  ASSUME NEW S, NEW T, IsFiniteSet(S), IsFiniteSet(T), S \intersect T = {}
  PROVE  /\ Cardinality(S \union T) = Cardinality(S) + Cardinality(T)
         /\ Cardinality(S) \in Nat /\ Cardinality(T) \in Nat
<1>1. Cardinality(S) \in Nat /\ Cardinality(T) \in Nat
  BY FS_CardinalityType
<1>2. Cardinality(S \intersect T) = 0
  BY FS_EmptySet
<1>3. Cardinality(S \union T) = Cardinality(S) + Cardinality(T) - Cardinality(S \intersect T)
  BY FS_Union
<1> QED
  BY <1>1, <1>2, <1>3

LEMMA ListingFinite == \A D, V, S : IsFiniteSet(Listing(D, V)) /\ IsFiniteSet(Listing(D, V) \intersect S)
  BY SanctionsAssumption, FS_Subset DEF Listing

LEMMA TwoDays ==
  ASSUME NEW m \in Nat, NEW n \in Nat
  PROVE  /\ San!Max({m, n}) = IF m >= n THEN m ELSE n
         /\ San!Min({m, n}) = IF m <= n THEN m ELSE n
<1>1. San!Max({m, n}) \in {m, n} /\ \A y \in {m, n} : San!Max({m, n}) >= y
  <2>1. \E x \in {m, n} : \A y \in {m, n} : x >= y
    OBVIOUS
  <2> QED
    BY <2>1 DEF San!Max
<1>2. San!Min({m, n}) \in {m, n} /\ \A y \in {m, n} : San!Min({m, n}) <= y
  <2>1. \E x \in {m, n} : \A y \in {m, n} : x <= y
    OBVIOUS
  <2> QED
    BY <2>1 DEF San!Min
<1> QED
  BY <1>1, <1>2

LEMMA SanctionInit == San!Init => SanctionInv
<1> SUFFICES ASSUME San!Init PROVE SanctionInv
  OBVIOUS
<1> USE SanctionsAssumption DEF San!Init
<1>1. 1 \in DOMAIN Registers
  OBVIOUS
<1>2. load \in LoadType
  <2>1. [c \in {} |-> 0] \in [{} -> Nat]
    OBVIOUS
  <2>2. [c \in {} |-> 0] \in UNION {[S -> Nat] : S \in SUBSET Listed}
    BY <2>1
  <2> QED
    BY <2>2 DEF LoadType, San!NoLoad
<1>3. \A r \in San!RegisterSet : file[r] \in FileType(r) /\ file[r].day \in 1..today
  BY DEF FileType
<1>4. SanctionTypes
  BY <1>1, <1>2, <1>3 DEF SanctionTypes
<1> QED
  BY <1>4 DEF SanctionInv, Known, San!SkippedIsUncited, San!NoLoad

\* The load after the register at hand was read to the end, without its name and
\* with it.
ReadRows == San!Taking(load, file[Registers[at]], San!CodesOf(Registers[at]))
ReadAll == [ReadRows EXCEPT !.days = @ \union {Registers[at]}]

LEMMA Reading ==
  ASSUME SanctionInv, step = "read"
  PROVE  /\ ReadAll \in LoadType /\ ReadAll.bases = load.bases
         /\ ReadAll.days = load.days \union {Registers[at]}
         /\ DOMAIN ReadAll.rows = Listing(ReadAll.days, {"good"}) \intersect ReadAll.bases
         /\ ReadAll.found = Cardinality(Listing(ReadAll.days, {"good", "bad"}))
         /\ ReadAll.failed = Cardinality(Listing(ReadAll.days, {"bad"}) \intersect ReadAll.bases)
         /\ \A c \in DOMAIN ReadAll.rows : ReadAll.rows[c] = file[RegisterOf(c)].day
<1> DEFINE r == Registers[at]
           f == file[r]
           taken == (San!With(f, "good") \intersect San!CodesOf(r)) \intersect load.bases
           listed == (DOMAIN f.rows \ San!With(f, "absent")) \intersect San!CodesOf(r)
           bad == (San!With(f, "bad") \intersect San!CodesOf(r)) \intersect load.bases
           taking == [c \in DOMAIN load.rows \union taken |-> IF c \in taken THEN f.day ELSE load.rows[c]]
<1>1. /\ load \in LoadType /\ r \in San!RegisterSet /\ r \notin load.days
      /\ f \in FileType(r) /\ Totals
  <2>1. at \in DOMAIN Registers /\ at >= at
    BY SanctionsAssumption DEF SanctionInv, SanctionTypes
  <2> QED
    BY <2>1 DEF SanctionInv, SanctionTypes, San!RegisterSet
<1>2. /\ ReadAll.bases = load.bases /\ ReadAll.days = load.days \union {r}
      /\ ReadAll.rows = taking
      /\ ReadAll.found = load.found + San!Cardinality(listed)
      /\ ReadAll.failed = load.failed + San!Cardinality(bad)
  <2>1. /\ ReadRows.bases = load.bases /\ ReadRows.days = load.days /\ ReadRows.rows = taking
        /\ ReadRows.found = load.found + San!Cardinality(listed)
        /\ ReadRows.failed = load.failed + San!Cardinality(bad)
    BY DEF ReadRows, San!Taking
  <2> HIDE DEF taking, listed, bad
  <2>2. /\ ReadAll.bases = ReadRows.bases /\ ReadAll.days = ReadRows.days \union {r}
        /\ ReadAll.rows = ReadRows.rows
        /\ ReadAll.found = ReadRows.found /\ ReadAll.failed = ReadRows.failed
    BY DEF ReadAll
  <2> QED
    BY <2>1, <2>2
<1>3. /\ taken = Listing({r}, {"good"}) \intersect load.bases
      /\ listed = Listing({r}, {"good", "bad"})
      /\ bad = Listing({r}, {"bad"}) \intersect load.bases
  BY <1>1 DEF Listing, San!With, San!CodesOf, FileType
<1>4. \A V : /\ Listing(load.days \union {r}, V) = Listing(load.days, V) \union Listing({r}, V)
             /\ Listing(load.days, V) \intersect Listing({r}, V) = {}
  BY <1>1 DEF Listing
<1> HIDE DEF r, f, taken, listed, bad
<1>5. ReadAll.found = Cardinality(Listing(ReadAll.days, {"good", "bad"})) /\ ReadAll.found \in Nat
  <2> DEFINE old == Listing(load.days, {"good", "bad"})
  <2>1. /\ IsFiniteSet(old) /\ IsFiniteSet(listed) /\ old \intersect listed = {}
        /\ Listing(ReadAll.days, {"good", "bad"}) = old \union listed
    BY <1>2, <1>3, <1>4, ListingFinite
  <2>2. load.found = Cardinality(old)
    BY <1>1 DEF Totals
  <2>3. ReadAll.found = load.found + Cardinality(listed)
    BY <1>2, SameCardinality
  <2> HIDE DEF old
  <2>4. /\ Cardinality(old \union listed) = Cardinality(old) + Cardinality(listed)
        /\ Cardinality(old) \in Nat /\ Cardinality(listed) \in Nat
    BY <2>1, DisjointSum
  <2> QED
    BY <2>1, <2>2, <2>3, <2>4
<1>6. ReadAll.failed = Cardinality(Listing(ReadAll.days, {"bad"}) \intersect ReadAll.bases) /\ ReadAll.failed \in Nat
  <2> DEFINE old == Listing(load.days, {"bad"}) \intersect load.bases
             new == Listing(ReadAll.days, {"bad"}) \intersect ReadAll.bases
  <2>1. /\ IsFiniteSet(old) /\ IsFiniteSet(bad) /\ old \intersect bad = {}
        /\ new = old \union bad
    <3>1. IsFiniteSet(old) /\ IsFiniteSet(bad)
      BY <1>3, ListingFinite
    <3>2. /\ Listing(ReadAll.days, {"bad"}) = Listing(load.days, {"bad"}) \union Listing({r}, {"bad"})
          /\ Listing(load.days, {"bad"}) \intersect Listing({r}, {"bad"}) = {}
      BY <1>2, <1>4
    <3> QED
      BY <1>2, <1>3, <3>1, <3>2
  <2>2. load.failed = Cardinality(old)
    BY <1>1 DEF Totals
  <2>3. ReadAll.failed = load.failed + Cardinality(bad)
    BY <1>2, SameCardinality
  <2> HIDE DEF old, new
  <2>4. /\ Cardinality(old \union bad) = Cardinality(old) + Cardinality(bad)
        /\ Cardinality(old) \in Nat /\ Cardinality(bad) \in Nat
    BY <2>1, DisjointSum
  <2>5. ReadAll.failed = Cardinality(new) /\ ReadAll.failed \in Nat
    BY <2>1, <2>2, <2>3, <2>4
  <2> QED
    BY <2>5 DEF new
<1>7. DOMAIN ReadAll.rows = Listing(ReadAll.days, {"good"}) \intersect ReadAll.bases
  <2>1. DOMAIN load.rows = Listing(load.days, {"good"}) \intersect load.bases
    BY <1>1 DEF Totals
  <2>2. Listing(ReadAll.days, {"good"}) = Listing(load.days, {"good"}) \union Listing({r}, {"good"})
    BY <1>2, <1>4
  <2>3. DOMAIN ReadAll.rows = DOMAIN load.rows \union taken
    BY <1>2
  <2> QED
    BY <1>2, <1>3, <2>1, <2>2, <2>3
<1>8. \A c \in DOMAIN ReadAll.rows : ReadAll.rows[c] = file[RegisterOf(c)].day
  <2>1. \A c \in taken : f = file[RegisterOf(c)]
    BY <1>3 DEF Listing, f
  <2>2. \A c \in DOMAIN load.rows : load.rows[c] = file[RegisterOf(c)].day
    BY <1>1 DEF Totals
  <2> QED
    BY <1>2, <2>1, <2>2
<1>9. ReadAll.rows \in UNION {[S -> Nat] : S \in SUBSET Listed}
  <2>1. DOMAIN ReadAll.rows \subseteq Listed
    BY <1>7 DEF Listing
  <2>2. \A c \in DOMAIN ReadAll.rows : ReadAll.rows[c] \in Nat
    <3>1. \A c \in DOMAIN ReadAll.rows : RegisterOf(c) \in San!RegisterSet
      BY <2>1, SanctionsAssumption
    <3> QED
      BY <1>8, <3>1 DEF SanctionInv, SanctionTypes, FileType
  <2>3. ReadAll.rows = [c \in DOMAIN ReadAll.rows |-> ReadAll.rows[c]]
    BY <1>2
  <2> QED
    BY <2>1, <2>2, <2>3
<1>10. ReadAll \in LoadType
  <2>1. /\ load.found + San!Cardinality(listed) \in Nat
        /\ load.failed + San!Cardinality(bad) \in Nat
        /\ taking \in UNION {[S -> Nat] : S \in SUBSET Listed}
    BY <1>2, <1>5, <1>6, <1>9
  <2>2. ReadRows \in LoadType
    <3>1. ReadRows = [load EXCEPT !.rows = taking, !.found = load.found + San!Cardinality(listed),
                                  !.failed = load.failed + San!Cardinality(bad)]
      BY DEF ReadRows, San!Taking, taken, listed, bad, r, f
    <3> HIDE DEF taking
    <3> QED
      BY <1>1, <2>1, <3>1, Zenon DEF LoadType
  <2>3. ReadRows.days \union {Registers[at]} \in SUBSET San!RegisterSet
    BY <1>1, <2>2 DEF LoadType, r
  <2> QED
    BY <2>2, <2>3, Zenon DEF LoadType, ReadAll
<1> QED
  BY <1>2, <1>5, <1>6, <1>7, <1>8, <1>10 DEF r

\* The load when it begins, and once something of it has failed.
Begun == [San!NoLoad EXCEPT !.bases = cited]
Erred == [load EXCEPT !.error = TRUE]

LEMMA BegunLoad ==
  ASSUME SanctionTypes
  PROVE  /\ Begun \in LoadType /\ Begun.bases = cited /\ Begun.days = {}
         /\ Begun.rows = [c \in {} |-> 0] /\ Begun.found = 0 /\ Begun.failed = 0
<1>1. Begun.rows = [c \in {} |-> 0]
  BY DEF Begun, San!NoLoad
<1>2. Begun.bases = cited /\ Begun.days = {} /\ Begun.found = 0 /\ Begun.failed = 0
  BY DEF Begun, San!NoLoad
<1>3. San!NoLoad \in LoadType /\ cited \in SUBSET Listed
  <2>1. [c \in {} |-> 0] \in [{} -> Nat]
    OBVIOUS
  <2>2. [c \in {} |-> 0] \in UNION {[S -> Nat] : S \in SUBSET Listed}
    BY <2>1
  <2> QED
    BY <2>2 DEF LoadType, San!NoLoad, SanctionTypes
<1>4. Begun \in LoadType
  BY <1>3, Zenon DEF Begun, LoadType
<1> QED
  BY <1>1, <1>2, <1>4

LEMMA ErredLoad ==
  ASSUME SanctionTypes
  PROVE  /\ Erred \in LoadType /\ Erred.bases = load.bases /\ Erred.days = load.days
         /\ Erred.rows = load.rows /\ Erred.found = load.found /\ Erred.failed = load.failed
<1>1. Erred \in LoadType
  <2>1. load \in LoadType /\ TRUE \in BOOLEAN
    BY DEF SanctionTypes
  <2> QED
    BY <2>1, Zenon DEF Erred, LoadType
<1>2. /\ Erred.bases = load.bases /\ Erred.days = load.days
      /\ Erred.rows = load.rows /\ Erred.found = load.found /\ Erred.failed = load.failed
  BY DEF Erred
<1> QED
  BY <1>1, <1>2

\* A load takes up what was read: its totals are those of the files.
LEMMA SameTotals ==
  ASSUME Totals, file' = file,
         load'.days = load.days, load'.bases = load.bases, load'.rows = load.rows,
         load'.found = load.found, load'.failed = load.failed
  PROVE  Totals'
<1>1. \A D, V : Listing(D, V)' = Listing(D, V)
  BY DEF Listing
<1> QED
  BY <1>1 DEF Totals

\* What the table says of a sanction holds on while only files and citations move.
LEMMA SameEntries ==
  ASSUME SanctionInv, rows' = rows, loaded' = loaded, cited \subseteq cited',
         \A r \in San!RegisterSet : file[r].day <= file'[r].day /\ file'[r].day \in Nat
  PROVE  \A c \in Listed : Known(c)' => Entry(c)'
<1> SUFFICES ASSUME NEW c \in Listed, Known(c) PROVE Entry(c)'
  BY DEF Known
<1>1. Entry(c)
  BY DEF SanctionInv
<1>2. RegisterOf(c) \in San!RegisterSet
  BY SanctionsAssumption
<1>3. file[RegisterOf(c)].day \in Nat /\ loaded[RegisterOf(c)].day \in Nat
  BY <1>1, <1>2 DEF SanctionInv, SanctionTypes, FileType, Entry
<1> QED
  BY <1>1, <1>2, <1>3 DEF Entry

LEMMA DayStep ==
  ASSUME SanctionInv, step = "idle", San!NextDay
  PROVE  SanctionInv'
<1>1. \A r \in San!RegisterSet :
        file'[r] \in FileType(r) /\ file'[r].day \in 1..today' /\ file[r].day <= file'[r].day
  <2> SUFFICES ASSUME NEW r \in San!RegisterSet
               PROVE  /\ file'[r] \in FileType(r) /\ file'[r].day \in 1..today'
                      /\ file[r].day <= file'[r].day
    OBVIOUS
  <2>1. file[r] \in FileType(r) /\ file[r].day \in 1..today /\ today \in 1..MaxDay /\ today' = today + 1
    BY DEF SanctionInv, SanctionTypes, San!NextDay
  <2>2. DOMAIN file'[r].rows = San!CodesOf(r) /\ file'[r] \in {file[r]} \union San!Files(today + 1)
    BY DEF San!NextDay
  <2>3. CASE file'[r] = file[r]
    BY <2>1, <2>3, SanctionsAssumption
  <2>4. CASE file'[r] \in San!Files(today + 1)
    <3>1. PICK s \in San!RegisterSet :
            file'[r] \in [day : {today + 1}, rows : [San!CodesOf(s) -> {"absent", "good", "bad"}]]
      BY <2>4 DEF San!Files
    <3>2. San!CodesOf(s) = San!CodesOf(r)
      BY <2>2, <3>1
    <3> QED
      BY <2>1, <3>1, <3>2, SanctionsAssumption DEF FileType
  <2> QED
    BY <2>2, <2>3, <2>4
<1>2. SanctionTypes'
  BY <1>1, SanctionsAssumption DEF SanctionInv, SanctionTypes, San!NextDay
<1>3. \A c \in Listed : Known(c)' => Entry(c)'
  BY <1>1, SameEntries DEF San!NextDay, FileType
<1> QED
  BY <1>2, <1>3 DEF SanctionInv, San!NextDay, San!SkippedIsUncited

\* The steps that change neither the table nor the files.
LEMMA QuietStep ==
  ASSUME SanctionInv, SanctionTypes', file' = file, rows' = rows, loaded' = loaded,
         cited \subseteq cited', saved' = saved,
         step' = "idle" => load' = load,
         step' # "idle" => Totals' /\ InLoad' /\ load'.bases \subseteq cited'
  PROVE  SanctionInv'
<1>1. \A c \in Listed : Known(c)' => Entry(c)'
  BY SameEntries DEF SanctionInv, SanctionTypes, FileType
<1>2. San!SkippedIsUncited'
  BY DEF SanctionInv, San!SkippedIsUncited
<1>3. (DOMAIN load.rows \subseteq load.bases)'
  BY DEF SanctionInv, Totals
<1> QED
  BY <1>1, <1>2, <1>3 DEF SanctionInv

LEMMA CiteStep == ASSUME SanctionInv, NEW c \in Listed, San!Cite(c) PROVE SanctionInv'
<1>1. SanctionTypes'
  BY DEF SanctionInv, SanctionTypes, San!Cite
<1>2. step' # "idle" => Totals' /\ InLoad' /\ load'.bases \subseteq cited'
  BY SameTotals DEF SanctionInv, San!Cite, InLoad, Known
<1> QED
  BY <1>1, <1>2, QuietStep DEF San!Cite

LEMMA BeginStep == ASSUME SanctionInv, San!Begin PROVE SanctionInv'
<1>1. load' = Begun /\ file' = file /\ rows' = rows /\ cited' = cited
  BY DEF San!Begin, Begun
<1>2. SanctionTypes
  BY DEF SanctionInv
<1>3. 1 \in DOMAIN Registers
  BY SanctionsAssumption
<1>4. SanctionTypes'
  BY <1>1, <1>2, <1>3, BegunLoad DEF SanctionTypes, San!Begin
<1>5. Totals'
  <2>1. \A V : (Listing({}, V) = {})'
    BY DEF Listing
  <2>2. \A V, S : (Listing({}, V) \intersect S = {})'
    BY <2>1
  <2> QED
    BY <1>1, <1>2, <2>1, <2>2, BegunLoad, FS_EmptySet DEF Totals
<1>6. InLoad' /\ load'.bases \subseteq cited'
  BY <1>1, <1>2, BegunLoad DEF SanctionInv, InLoad, Known, Entry
<1> QED
  BY <1>1, <1>4, <1>5, <1>6, QuietStep DEF San!Begin

\* After a register the next one is read, or the load is saved.
LEMMA NextRegister ==
  ASSUME SanctionInv, step = "read", San!GoOn,
         load'.days \subseteq load.days \union {Registers[at]}
  PROVE  /\ at' \in DOMAIN Registers /\ step' \in {"read", "save", "report"}
         /\ step' = "read" => \A i \in DOMAIN Registers : i >= at' => Registers[i] \notin load'.days
<1>1. at \in DOMAIN Registers /\ DOMAIN Registers = 1..Len(Registers) /\ Len(Registers) \in Nat
  BY SanctionsAssumption DEF SanctionInv, SanctionTypes
<1>2. CASE at < Len(Registers)
  <2>1. at' = at + 1 /\ step' = "read"
    BY <1>2 DEF San!GoOn
  <2>2. ASSUME NEW i \in DOMAIN Registers, i >= at + 1 PROVE Registers[i] \notin load'.days
    <3>1. Registers[i] \notin load.days
      BY <1>1, <2>2 DEF SanctionInv, SanctionTypes
    <3>2. Registers[i] # Registers[at]
      BY <1>1, <2>2, SanctionsAssumption
    <3> QED
      BY <3>1, <3>2
  <2> QED
    BY <1>1, <1>2, <2>1, <2>2
<1>3. CASE ~(at < Len(Registers))
  BY <1>1, <1>3 DEF San!GoOn
<1> QED
  BY <1>2, <1>3

LEMMA ReadStep == ASSUME SanctionInv, San!ReadRegister PROVE SanctionInv'
<1>1. load' = ReadAll /\ step = "read" /\ file' = file /\ rows' = rows /\ cited' = cited
  BY DEF San!ReadRegister, ReadAll, ReadRows
<1>2. SanctionTypes'
  BY <1>1, Reading, NextRegister DEF SanctionInv, SanctionTypes, San!ReadRegister
<1>3. Totals'
  <2>1. \A D, V : Listing(D, V)' = Listing(D, V)
    BY <1>1 DEF Listing
  <2> QED
    BY <1>1, <2>1, Reading DEF Totals
<1>4. InLoad' /\ load'.bases \subseteq cited'
  BY <1>1, Reading DEF SanctionInv, InLoad, Known
<1> QED
  BY <1>1, <1>2, <1>3, <1>4, QuietStep DEF San!ReadRegister, San!GoOn

LEMMA ReadFailsStep ==
  ASSUME SanctionInv, San!ReadRegisterFails \/ San!SaveFails PROVE SanctionInv'
<1>1. /\ load' = Erred /\ step # "idle" /\ file' = file /\ rows' = rows /\ cited' = cited
      /\ loaded' = loaded /\ saved' = saved /\ today' = today
      /\ step' # "idle"
  BY DEF San!ReadRegisterFails, San!SaveFails, San!GiveUp, San!GoOn, Erred
<1>2. SanctionTypes
  BY DEF SanctionInv
<1>3. SanctionTypes'
  BY <1>1, <1>2, ErredLoad, NextRegister DEF SanctionTypes, San!ReadRegisterFails, San!SaveFails
<1>4. Totals'
  BY <1>1, <1>2, ErredLoad, SameTotals DEF SanctionInv
<1>5. InLoad' /\ load'.bases \subseteq cited'
  BY <1>1, <1>2, ErredLoad DEF SanctionInv, InLoad, Known
<1> QED
  BY <1>1, <1>3, <1>4, <1>5, QuietStep

\* What a save writes of a sanction that the load took.
LEMMA SavedRow ==
  ASSUME SanctionInv, San!Save, NEW c \in DOMAIN load.rows
  PROVE  LET d == file[RegisterOf(c)].day IN
         /\ c \in Listed /\ c \in load.bases /\ RegisterOf(c) \in load.days
         /\ file[RegisterOf(c)].rows[c] = "good"
         /\ d \in Nat /\ d >= 1
         /\ rows'[c] \in [first : Nat, last : Nat]
         /\ rows'[c].last = d
         /\ rows'[c].first \in 1..d
         /\ Known(c) => rows'[c].first <= rows[c].first /\ rows[c].last <= d
<1> DEFINE d == file[RegisterOf(c)].day
<1>1. /\ c \in Listed /\ c \in load.bases /\ RegisterOf(c) \in load.days
      /\ file[RegisterOf(c)].rows[c] = "good" /\ load.rows[c] = d
  BY DEF SanctionInv, Totals, Listing, San!Save
<1>2. RegisterOf(c) \in San!RegisterSet
  BY <1>1, SanctionsAssumption
<1>3. d \in Nat /\ d >= 1
  BY <1>2 DEF SanctionInv, SanctionTypes
<1>4. rows'[c] = San!Upsert(rows[c], d)
  BY <1>1 DEF San!Save
<1> HIDE DEF d
<1>5. CASE rows[c] = None
  <2>1. rows'[c] = [first |-> d, last |-> d]
    BY <1>4, <1>5 DEF San!Upsert
  <2> QED
    BY <1>1, <1>3, <1>5, <2>1 DEF Known, d
<1>6. CASE rows[c] # None
  <2>1. rows'[c] = [first |-> San!Min({rows[c].first, d}), last |-> San!Max({rows[c].last, d})]
    BY <1>4, <1>6 DEF San!Upsert
  <2>2. /\ rows[c].first \in 1..rows[c].last /\ rows[c].last <= loaded[RegisterOf(c)].day
        /\ loaded[RegisterOf(c)].day <= d /\ loaded[RegisterOf(c)].day \in Nat
    BY <1>1, <1>6 DEF SanctionInv, Entry, Known, FileType, d
  <2>3. rows[c].first \in Nat /\ rows[c].last \in Nat
    BY <1>1, <1>6 DEF SanctionInv, SanctionTypes
  <2>4. San!Min({rows[c].first, d}) = rows[c].first /\ San!Max({rows[c].last, d}) = d
    <3> DEFINE f == rows[c].first
               l == rows[c].last
    <3>1. f \in Nat /\ l \in Nat /\ f <= d /\ l <= d
      BY <1>3, <2>2, <2>3
    <3> HIDE DEF f, l
    <3>2. San!Min({f, d}) = IF f <= d THEN f ELSE d
      BY <1>3, <3>1, TwoDays
    <3>3. San!Max({l, d}) = IF l >= d THEN l ELSE d
      BY <1>3, <3>1, TwoDays
    <3>4. San!Min({f, d}) = f /\ San!Max({l, d}) = d
      BY <1>3, <3>1, <3>2, <3>3
    <3> QED
      BY <3>4 DEF f, l
  <2> QED
    BY <1>1, <1>3, <2>1, <2>2, <2>3, <2>4 DEF d
<1> QED
  BY <1>5, <1>6

LEMMA SaveStep == ASSUME SanctionInv, San!Save PROVE SanctionInv'
<1>1. /\ \A c \in Listed : c \notin DOMAIN load.rows => rows'[c] = rows[c]
      /\ \A r \in San!RegisterSet : loaded'[r] = IF r \in load.days THEN file[r] ELSE loaded[r]
      /\ step = "save" /\ step' = "report" /\ file' = file /\ load' = load /\ cited' = cited
      /\ saved' = saved /\ today' = today /\ at' = at
  BY DEF San!Save
<1>2. SanctionTypes'
  <2>1. rows' \in [Listed -> [first : Nat, last : Nat] \union {None}]
    <3>1. \A c \in Listed : rows'[c] \in [first : Nat, last : Nat] \union {None}
      BY <1>1, SavedRow DEF SanctionInv, SanctionTypes
    <3>2. rows' = [c \in Listed |-> rows'[c]]
      BY DEF San!Save
    <3> QED
      BY <3>1, <3>2
  <2> QED
    BY <1>1, <2>1 DEF SanctionInv, SanctionTypes
<1>3. Totals' /\ load'.bases \subseteq cited'
  BY <1>1, SameTotals DEF SanctionInv
<1>4. InLoad'
  BY <1>1, SavedRow DEF SanctionInv, InLoad, Known
<1>5. ASSUME NEW c \in Listed, Known(c)' PROVE Entry(c)'
  <2>1. RegisterOf(c) \in San!RegisterSet
    BY SanctionsAssumption
  <2>2. file[RegisterOf(c)] \in FileType(RegisterOf(c)) /\ file[RegisterOf(c)].day \in Nat
    BY <2>1 DEF SanctionInv, SanctionTypes
  <2>3. CASE c \in DOMAIN load.rows
    <3>1. loaded'[RegisterOf(c)] = file[RegisterOf(c)] /\ c \in cited
      BY <1>1, <2>1, <2>3, SavedRow DEF SanctionInv
    <3> QED
      BY <1>1, <2>2, <2>3, <3>1, SavedRow DEF Entry
  <2>4. CASE c \notin DOMAIN load.rows
    <3>1. rows'[c] = rows[c] /\ Known(c) /\ c \in load.bases /\ Entry(c)
      BY <1>1, <1>5, <2>4 DEF SanctionInv, InLoad, Known
    <3>2. CASE RegisterOf(c) \in load.days
      <4>1. file[RegisterOf(c)].rows[c] # "good"
        BY <1>1, <2>4, <3>1, <3>2 DEF SanctionInv, Totals, Listing
      <4>2. loaded'[RegisterOf(c)] = file[RegisterOf(c)]
        BY <1>1, <2>1, <3>2
      <4>3. rows[c].last <= file[RegisterOf(c)].day
        <5>1. rows[c].last \in Nat /\ loaded[RegisterOf(c)].day \in Nat
          BY <3>1 DEF SanctionInv, SanctionTypes, Known, Entry, FileType
        <5> QED
          BY <2>2, <3>1, <5>1 DEF Entry
      <4> QED
        BY <1>1, <2>2, <3>1, <4>1, <4>2, <4>3 DEF Entry
    <3>3. CASE RegisterOf(c) \notin load.days
      <4>1. loaded'[RegisterOf(c)] = loaded[RegisterOf(c)]
        BY <1>1, <2>1, <3>3
      <4> QED
        BY <1>1, <3>1, <4>1 DEF Entry
    <3> QED
      BY <3>2, <3>3
  <2> QED
    BY <2>3, <2>4
<1>6. San!SkippedIsUncited' /\ (DOMAIN load.rows \subseteq load.bases)'
  BY <1>1 DEF SanctionInv, San!SkippedIsUncited
<1>7. \A c \in Listed : Known(c)' => Entry(c)'
  BY <1>5
<1> QED
  BY <1>2, <1>3, <1>4, <1>6, <1>7 DEF SanctionInv

\* The rows that the files read list are those taken, those that could not be read
\* and those of companies that are not cited.
LEMMA SkippedRows ==
  ASSUME SanctionInv, step # "idle"
  PROVE  load.found - San!Cardinality(DOMAIN load.rows) - load.failed
           = San!Cardinality(Listing(load.days, {"good", "bad"}) \ load.bases)
<1> DEFINE all == Listing(load.days, {"good", "bad"})
           good == Listing(load.days, {"good"}) \intersect load.bases
           bad == Listing(load.days, {"bad"}) \intersect load.bases
           rest == all \ load.bases
<1>1. IsFiniteSet(all) /\ IsFiniteSet(good) /\ IsFiniteSet(bad) /\ IsFiniteSet(rest)
  BY ListingFinite, FS_Subset
<1>2. /\ all = (good \union bad) \union rest
      /\ good \intersect bad = {} /\ (good \union bad) \intersect rest = {}
  BY DEF Listing
<1>3. /\ load.found = Cardinality(all) /\ load.failed = Cardinality(bad)
      /\ DOMAIN load.rows = good
  BY DEF SanctionInv, Totals
<1> HIDE DEF all, good, bad, rest
<1>4. /\ Cardinality(good \union bad) = Cardinality(good) + Cardinality(bad)
      /\ Cardinality(good) \in Nat /\ Cardinality(bad) \in Nat
  BY <1>1, <1>2, DisjointSum
<1>5. IsFiniteSet(good \union bad)
  BY <1>1, FS_Union
<1>6. /\ Cardinality(all) = Cardinality(good \union bad) + Cardinality(rest)
      /\ Cardinality(rest) \in Nat
  BY <1>1, <1>2, <1>5, DisjointSum
<1>7. San!Cardinality(DOMAIN load.rows) = Cardinality(good) /\ San!Cardinality(rest) = Cardinality(rest)
  BY <1>3, SameCardinality
<1>8. load.found - San!Cardinality(DOMAIN load.rows) - load.failed = San!Cardinality(rest)
  BY <1>3, <1>4, <1>6, <1>7
<1> QED
  BY <1>8 DEF rest, all

LEMMA ReportStep == ASSUME SanctionInv, San!Report PROVE SanctionInv'
<1>1. /\ step = "report" /\ step' = "idle" /\ file' = file /\ rows' = rows /\ loaded' = loaded
      /\ cited' = cited /\ load' = load /\ at' = at /\ today' = today
      /\ saved'.skipped = load.found - San!Cardinality(DOMAIN load.rows) - load.failed
      /\ saved'.of = [r \in load.days |-> file[r]] /\ saved'.bases = load.bases
  BY DEF San!Report
<1>2. SanctionTypes'
  BY <1>1 DEF SanctionInv, SanctionTypes
<1>3. \A c \in Listed : Known(c)' => Entry(c)'
  BY <1>1 DEF SanctionInv, Known, Entry
<1>4. San!SkippedIsUncited'
  <2> DEFINE uncited == UNION {San!UncitedOf(saved'.of[r], saved'.bases) : r \in DOMAIN saved'.of}
             rest == Listing(load.days, {"good", "bad"}) \ load.bases
  <2>1. \A r \in load.days : San!UncitedOf(saved'.of[r], saved'.bases)
                               = {c \in Listed : /\ RegisterOf(c) = r /\ c \notin load.bases
                                                 /\ file[r].rows[c] \in {"good", "bad"}}
    <3> SUFFICES ASSUME NEW r \in load.days
                 PROVE  San!UncitedOf(saved'.of[r], saved'.bases)
                          = {c \in Listed : /\ RegisterOf(c) = r /\ c \notin load.bases
                                            /\ file[r].rows[c] \in {"good", "bad"}}
      OBVIOUS
    <3>1. file[r] \in FileType(r)
      BY DEF SanctionInv, SanctionTypes, LoadType
    <3>2. saved'.of[r] = file[r] /\ saved'.bases = load.bases
      BY <1>1
    <3> QED
      BY <3>1, <3>2 DEF San!UncitedOf, San!With, San!CodesOf, FileType
  <2>2. uncited = rest
    <3>1. DOMAIN saved'.of = load.days
      BY <1>1
    <3> QED
      BY <2>1, <3>1 DEF Listing
  <2>3. saved'.skipped = San!Cardinality(rest)
    BY <1>1, SkippedRows
  <2> HIDE DEF rest, uncited
  <2>4. saved'.skipped = San!Cardinality(uncited)
    BY <2>2, <2>3
  <2> QED
    BY <2>4 DEF San!SkippedIsUncited, uncited
<1> QED
  BY <1>1, <1>2, <1>3, <1>4 DEF SanctionInv

LEMMA SanctionStep == SanctionInv /\ [San!Next]_(San!vars) => SanctionInv'
<1> SUFFICES ASSUME SanctionInv, [San!Next]_(San!vars) PROVE SanctionInv'
  OBVIOUS
<1>1. CASE UNCHANGED San!vars
  BY <1>1 DEF San!vars, SanctionInv, SanctionTypes, Totals, Listing, InLoad, Known, Entry,
              San!SkippedIsUncited
<1>2. CASE step = "idle" /\ San!NextDay
  BY <1>2, DayStep
<1>3. CASE \E c \in Listed : San!Cite(c)
  BY <1>3, CiteStep
<1>4. CASE San!Begin
  BY <1>4, BeginStep
<1>5. CASE San!ReadRegister
  BY <1>5, ReadStep
<1>6. CASE San!ReadRegisterFails \/ San!SaveFails
  BY <1>6, ReadFailsStep
<1>7. CASE San!Save
  BY <1>7, SaveStep
<1>8. CASE San!Report
  BY <1>8, ReportStep
<1> QED
  BY <1>1, <1>2, <1>3, <1>4, <1>5, <1>6, <1>7, <1>8 DEF San!Next

LEMMA RunsSanctions ==
  ServicesSpec => \/ []~(service = "sanctions")
                  \/ [](service = "sanctions") /\ San!Spec
<1>1. ServicesInit /\ service = "sanctions" => San!Init
  BY DEF ServicesInit
<1>2. service = "sanctions" /\ [ServicesNext]_ServiceVars =>
        [San!Next]_(San!vars) /\ (service = "sanctions")'
  BY SameService DEF ServicesNext, ServiceVars, sanctions, San!vars
<1>3. ~(service = "sanctions") /\ [ServicesNext]_ServiceVars => (~(service = "sanctions"))'
  BY SameService
<1> QED
  BY <1>1, <1>2, <1>3, PTL DEF ServicesSpec, San!Spec

\* The last day a sanction was seen is the one its register was seen, if it is in
\* the last file stored: nobody was seen later.
LEMMA InTheFileIsListed ==
  ASSUME SanctionInv, NEW c \in Listed, Known(c), loaded[RegisterOf(c)].rows[c] = "good"
  PROVE  San!ListedOn(RegisterOf(c)) = rows[c].last
<1> DEFINE days == {rows[d].last : d \in {e \in San!CodesOf(RegisterOf(c)) : rows[e] # None}}
<1>1. rows[c].last \in days
  BY DEF San!CodesOf, Known
<1>2. \A n \in days : n \in Nat /\ rows[c].last >= n
  <2>1. \A d \in San!CodesOf(RegisterOf(c)) : d \in Listed /\ RegisterOf(d) = RegisterOf(c)
    BY DEF San!CodesOf
  <2>2. \A d \in Listed : Known(d) => rows[d].last \in Nat /\ rows[d].last <= loaded[RegisterOf(d)].day
    BY DEF SanctionInv, SanctionTypes, Known, Entry
  <2>3. rows[c].last = loaded[RegisterOf(c)].day
    BY DEF SanctionInv, Entry
  <2> QED
    BY <2>1, <2>2, <2>3 DEF Known
<1>3. San!ListedOn(RegisterOf(c)) = San!Max(days)
  BY DEF San!ListedOn
<1> HIDE DEF days
<1>4. San!Max(days) \in days /\ \A y \in days : San!Max(days) >= y
  <2>1. \E x \in days : \A y \in days : x >= y
    BY <1>1, <1>2
  <2> QED
    BY <2>1 DEF San!Max
<1> QED
  BY <1>1, <1>2, <1>3, <1>4

LEMMA SanctionsHold == SanctionInv => San!TypeOK /\ San!DelistedIsGone /\ San!SkippedIsUncited
<1> SUFFICES ASSUME SanctionInv PROVE San!TypeOK /\ San!DelistedIsGone
  BY DEF SanctionInv
<1>1. San!TypeOK
  <2>1. ASSUME NEW c \in Listed, Known(c)
        PROVE  rows[c].first \in 1..today /\ rows[c].last \in rows[c].first..today
    <3>1. rows[c].first \in 1..rows[c].last /\ rows[c].last \in Nat /\ rows[c].last <= loaded[RegisterOf(c)].day
      BY <2>1 DEF SanctionInv, SanctionTypes, Entry, Known
    <3>2. /\ loaded[RegisterOf(c)].day \in Nat /\ loaded[RegisterOf(c)].day <= file[RegisterOf(c)].day
          /\ file[RegisterOf(c)].day \in 1..today /\ today \in Nat
      BY <2>1, SanctionsAssumption DEF SanctionInv, SanctionTypes, Entry, FileType
    <3> QED
      BY <3>1, <3>2
  <2>2. DOMAIN load.rows \subseteq load.bases
    BY DEF SanctionInv
  <2> QED
    BY <2>1, <2>2 DEF San!TypeOK, SanctionInv, SanctionTypes, Known
<1>2. San!DelistedIsGone
  <2> SUFFICES ASSUME NEW c \in Listed, Known(c), San!State(c) = "fora_do_cadastro",
                      loaded[RegisterOf(c)].rows[c] = "good"
               PROVE  FALSE
    BY DEF San!DelistedIsGone, Known
  <2>1. San!ListedOn(RegisterOf(c)) = rows[c].last /\ rows[c].last \in Nat
    BY InTheFileIsListed DEF SanctionInv, SanctionTypes, Known
  <2> QED
    BY <2>1 DEF San!State
<1> QED
  BY <1>1, <1>2

LEMMA HistoryStep == SanctionInv /\ [San!Next]_(San!vars) => San!HistoryGrows
<1> SUFFICES ASSUME SanctionInv, [San!Next]_(San!vars), NEW c \in Listed, rows[c] # None
             PROVE  rows'[c] # None /\ rows'[c].first <= rows[c].first /\ rows'[c].last >= rows[c].last
  BY DEF San!HistoryGrows
<1>1. rows[c].first \in Nat /\ rows[c].last \in Nat
  BY DEF SanctionInv, SanctionTypes
<1>2. CASE San!Save
  <2>1. CASE c \in DOMAIN load.rows
    BY <1>1, <1>2, <2>1, SavedRow, SanctionsAssumption DEF Known
  <2>2. CASE c \notin DOMAIN load.rows
    BY <1>1, <1>2, <2>2 DEF San!Save
  <2> QED
    BY <2>1, <2>2
<1>3. CASE ~San!Save
  <2>1. rows' = rows
    BY <1>3 DEF San!Next, San!vars, San!NextDay, San!Cite, San!Begin, San!ReadRegister,
                San!ReadRegisterFails, San!SaveFails, San!Report
  <2> QED
    BY <1>1, <2>1
<1> QED
  BY <1>2, <1>3

\* A sanction shown as out of its register is not in the last file stored of it,
\* whatever failed or came late, and what a report counts as skipped is what the
\* base does not cite.
THEOREM SanctionsAreRight == ServicesSpec => []SanctionsSafe
<1>1. ~(service = "sanctions") => SanctionsSafe
  BY DEF SanctionsSafe
<1>2. SanctionInv => SanctionsSafe
  BY SanctionsHold DEF SanctionsSafe
<1>3. San!Spec => []SanctionInv
  BY SanctionInit, SanctionStep, PTL DEF San!Spec
<1> QED
  BY <1>1, <1>2, <1>3, RunsSanctions, PTL

\* The history only grows: the first day never moves forward, the last never back.
LEMMA SanctionHistoryKept == ServicesSpec => [][service = "sanctions" => San!HistoryGrows]_ServiceVars
<1> DEFINE kept == service = "sanctions" => San!HistoryGrows
<1>1. San!Spec => []SanctionInv
  BY SanctionInit, SanctionStep, PTL DEF San!Spec
<1>2. SanctionInv /\ [San!Next]_(San!vars) => kept
  BY HistoryStep
<1>3. ~(service = "sanctions") => kept
  OBVIOUS
<1> QED
  BY <1>1, <1>2, <1>3, RunsSanctions, PTL DEF San!Spec

\* A page of the cache is lost only to a failed load or to another reader, the first
\* day a sanction was seen never moves forward and the last never back.
THEOREM StoresAreKept == ServicesSpec => StoredIsKept
  BY OcrObjectsGrow, SanctionHistoryKept, PTL DEF StoredIsKept
=============================================================================
