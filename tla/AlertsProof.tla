---------------------------- MODULE AlertsProof -----------------------------
(***************************************************************************)
(* Proofs about Alerts: its type invariant, and what the deliveries never  *)
(* do to a subscriber, for any number of subscriptions, editions, messages *)
(* and deliveries and any number of faults.                                *)
(***************************************************************************)
EXTENDS Alerts, FiniteSetTheorems, TLAPS

LEMMA AnyType == AnyMessage \in Messages /\ AnySub \in Subs
  BY AlertsAssumption DEF AnyMessage, AnySub

LEMMA KeyType ==
  ASSUME TypeOK, NEW d \in Deliveries
  PROVE  /\ Key(d) \in Keys
         /\ EventOf[event[d]] \in Gazettes
         /\ \A s \in Subs : <<s, EventOf[event[d]]>> \in Keys
  BY AlertsAssumption DEF TypeOK, Key, Keys

\* The parts of the type invariant about the table and about the provider.
TableType ==
  /\ row \in [Keys -> Rows]
  /\ expired \in [Keys -> BOOLEAN]
  /\ owner \in [Keys -> Deliveries \union {NoOne}]

ProviderType ==
  /\ remembered \in [Keys -> Bodies \union {NoHits, NoBody}]
  /\ emails \in [Keys -> Nat]
  /\ forgets \in [Keys -> Nat]

LEMMA ClaimFailsTable ==
  ASSUME TableType, NEW k \in Keys, NEW d \in Deliveries,
         (Free(k) /\ Reserve(d, k)) \/ UNCHANGED table
  PROVE  TableType'
<1>1. CASE Reserve(d, k)
  BY <1>1 DEF Reserve, TableType, Rows
<1>2. CASE UNCHANGED table
  BY <1>2 DEF TableType, table
<1> QED
  BY <1>1, <1>2

LEMMA RecordSentType ==
  ASSUME TableType, NEW k \in Keys, RecordSent(k) \/ UNCHANGED table
  PROVE  TableType'
  BY DEF RecordSent, TableType, Rows, table

LEMMA DeletePendingType ==
  ASSUME TableType, NEW k \in Keys, DeletePending(k) \/ UNCHANGED table
  PROVE  TableType'
<1>1. CASE UNCHANGED table
  BY <1>1 DEF TableType, table
<1>2. CASE DeletePending(k) /\ row[k] = "pending"
  BY <1>2 DEF DeletePending, TableType, Rows
<1>3. CASE DeletePending(k) /\ row[k] # "pending"
  BY <1>1, <1>3 DEF DeletePending
<1> QED
  BY <1>1, <1>2, <1>3

LEMMA DeliverType ==
  ASSUME ProviderType, NEW k \in Keys, NEW b \in Bodies \union {NoHits},
         Deliver(k, b) \/ UNCHANGED provider
  PROVE  ProviderType'
<1>1. CASE UNCHANGED provider
  BY <1>1 DEF ProviderType, provider
<1>2. CASE Deliver(k, b) /\ remembered[k] = NoBody
  BY <1>2 DEF Deliver, ProviderType
<1>3. CASE Deliver(k, b) /\ remembered[k] # NoBody
  BY <1>1, <1>3 DEF Deliver
<1> QED
  BY <1>1, <1>2, <1>3

LEMMA TypeInit == Init => TypeOK
  BY AlertsAssumption, AnyType
  DEF Init, TypeOK, Rows, States, Steps

LEMMA TypeStep == TypeOK /\ [Next]_vars => TypeOK'
<1> SUFFICES ASSUME TypeOK, [Next]_vars PROVE TypeOK'
  OBVIOUS
<1> USE AlertsAssumption DEF TypeOK, Rows, States, Steps, table, queue, local, provider, index
<1>1. ASSUME NEW m \in Messages, Publish(m) PROVE TypeOK'
  BY <1>1 DEF Publish
<1>2. ASSUME NEW m \in Messages, DeadLetter(m) PROVE TypeOK'
  BY <1>2 DEF DeadLetter
<1>3. ASSUME NEW s \in Subs, Unsubscribe(s) PROVE TypeOK'
  BY <1>3 DEF Unsubscribe
<1>4. ASSUME NEW g \in Gazettes, Reindex(g) PROVE TypeOK'
  BY <1>4 DEF Reindex
<1>5. ASSUME NEW k \in Keys, LeaseExpires(k) PROVE TypeOK'
  BY <1>5 DEF LeaseExpires
<1>6. ASSUME NEW k \in Keys, ForgetKey(k) PROVE TypeOK'
  BY <1>6 DEF ForgetKey
<1>7. ASSUME NEW d \in Deliveries, NEW m \in Messages, Start(d, m) PROVE TypeOK'
  BY <1>7 DEF Start
<1>8. ASSUME NEW d \in Deliveries, ListActive(d) PROVE TypeOK'
  BY <1>8 DEF ListActive
<1>9. ASSUME NEW d \in Deliveries, NEW s \in Subs, Acquire(d, s) PROVE TypeOK'
  BY <1>9, KeyType DEF Acquire, Visit, Reserve
<1>10. ASSUME NEW d \in Deliveries, NEW s \in Subs, FindSent(d, s) PROVE TypeOK'
  BY <1>10 DEF FindSent, Visit
<1>11. ASSUME NEW d \in Deliveries, NEW s \in Subs, FindInProgress(d, s) PROVE TypeOK'
  BY <1>11 DEF FindInProgress, Visit
<1>12. ASSUME NEW d \in Deliveries, NEW s \in Subs, ClaimFails(d, s) PROVE TypeOK'
  <2>1. TableType'
    BY <1>12, KeyType, ClaimFailsTable DEF ClaimFails, TableType
  <2>2. /\ faults' = faults + 1
        /\ todo' = [todo EXCEPT ![d] = @ \ {s}]
        /\ failed' = [failed EXCEPT ![d] = TRUE]
        /\ UNCHANGED <<index, queue, pc, event, sub, body, provider>>
    BY <1>12 DEF ClaimFails, Visit, Fault
  <2> QED
    BY <2>1, <2>2 DEF TableType
<1>13. ASSUME NEW d \in Deliveries, Search(d) PROVE TypeOK'
  BY <1>13, KeyType DEF Search
<1>14. ASSUME NEW d \in Deliveries, SearchFails(d) PROVE TypeOK'
  BY <1>14 DEF SearchFails, Fault
<1>15. ASSUME NEW d \in Deliveries, Send(d) PROVE TypeOK'
  <2>1. ProviderType'
    BY <1>15, KeyType, DeliverType DEF Send, ProviderType
  <2>2. /\ pc' = [pc EXCEPT ![d] = "mark"]
        /\ UNCHANGED <<index, table, queue, local, faults>>
    BY <1>15 DEF Send
  <2> QED
    BY <2>1, <2>2 DEF ProviderType
<1>16. ASSUME NEW d \in Deliveries, SendFails(d) PROVE TypeOK'
  <2>1. ProviderType'
    BY <1>16, KeyType, DeliverType DEF SendFails, ProviderType
  <2>2. /\ faults' = faults + 1
        /\ failed' = [failed EXCEPT ![d] = TRUE]
        /\ pc' = [pc EXCEPT ![d] = "release"]
        /\ UNCHANGED <<index, table, queue, event, todo, sub, body>>
    BY <1>16 DEF SendFails, Fault
  <2> QED
    BY <2>1, <2>2 DEF ProviderType
<1>17. ASSUME NEW d \in Deliveries, MarkSent(d) PROVE TypeOK'
  <2>1. TableType'
    BY <1>17, KeyType, RecordSentType DEF MarkSent, TableType
  <2> QED
    BY <1>17, <2>1 DEF MarkSent, TableType
<1>18. ASSUME NEW d \in Deliveries, MarkSentFails(d) PROVE TypeOK'
  <2>1. TableType'
    BY <1>18, KeyType, RecordSentType DEF MarkSentFails, TableType
  <2> QED
    BY <1>18, <2>1 DEF MarkSentFails, Fault, TableType
<1>19. ASSUME NEW d \in Deliveries, Release(d) PROVE TypeOK'
  <2>1. TableType'
    BY <1>19, KeyType, DeletePendingType DEF Release, TableType
  <2> QED
    BY <1>19, <2>1 DEF Release, TableType
<1>20. ASSUME NEW d \in Deliveries, ReleaseFails(d) PROVE TypeOK'
  <2>1. TableType'
    BY <1>20, KeyType, DeletePendingType DEF ReleaseFails, TableType
  <2> QED
    BY <1>20, <2>1 DEF ReleaseFails, Fault, TableType
<1>21. ASSUME NEW d \in Deliveries, Reply(d) PROVE TypeOK'
  BY <1>21, AnyType DEF Reply, GoIdle
<1>22. ASSUME NEW d \in Deliveries, Abort(d) PROVE TypeOK'
  BY <1>22, AnyType DEF Abort, GoIdle, Fault
<1>23. CASE UNCHANGED vars
  BY <1>23 DEF vars
<1> QED
  BY <1>1, <1>2, <1>3, <1>4, <1>5, <1>6, <1>7, <1>8, <1>9, <1>10, <1>11, <1>12,
     <1>13, <1>14, <1>15, <1>16, <1>17, <1>18, <1>19, <1>20, <1>21, <1>22, <1>23
  DEF Next

\* Every state of every behaviour is of the types the code gives its data.
THEOREM TypeCorrect == Spec => []TypeOK
  BY TypeInit, TypeStep, PTL DEF Spec

-----------------------------------------------------------------------------
(***************************************************************************)
(* The provider.  Its key and the e-mails move together.                   *)
(***************************************************************************)

\* A remembered key accounts for one e-mail, a dropped key for one at most.
ProviderInv ==
  \A k \in Keys :
    /\ remembered[k] = NoBody => emails[k] <= forgets[k]
    /\ remembered[k] # NoBody => emails[k] >= 1 /\ emails[k] <= 1 + forgets[k]

\* What a step may do to the provider.
ProviderStep ==
  \/ UNCHANGED provider
  \/ \E k \in Keys, b \in Bodies \union {NoHits} : Deliver(k, b)
  \/ \E k \in Keys : /\ remembered[k] # NoBody
                     /\ remembered' = [remembered EXCEPT ![k] = NoBody]
                     /\ forgets' = [forgets EXCEPT ![k] = @ + 1]
                     /\ UNCHANGED emails

LEMMA NextProvider == TypeOK /\ [Next]_vars => ProviderStep
<1> SUFFICES ASSUME TypeOK, [Next]_vars PROVE ProviderStep
  OBVIOUS
<1>1. ASSUME NEW k \in Keys, ForgetKey(k) PROVE ProviderStep
  BY <1>1 DEF ForgetKey, ProviderStep
<1>2. ASSUME NEW d \in Deliveries, Send(d) \/ SendFails(d) PROVE ProviderStep
  <2>1. Deliver(Key(d), body[d]) \/ UNCHANGED provider
    BY <1>2 DEF Send, SendFails
  <2>2. Key(d) \in Keys /\ body[d] \in Bodies \union {NoHits}
    BY KeyType DEF TypeOK
  <2> QED
    BY <2>1, <2>2 DEF ProviderStep
<1>3. CASE UNCHANGED vars
  BY <1>3 DEF vars, provider, ProviderStep
<1>4. ASSUME NEW m \in Messages,
             Publish(m) \/ DeadLetter(m) \/ \E d \in Deliveries : Start(d, m)
      PROVE  ProviderStep
  BY <1>4 DEF Publish, DeadLetter, Start, ProviderStep
<1>5. ASSUME NEW s \in Subs,
             \/ Unsubscribe(s)
             \/ \E d \in Deliveries : \/ Acquire(d, s) \/ FindSent(d, s)
                                      \/ FindInProgress(d, s) \/ ClaimFails(d, s)
      PROVE  ProviderStep
  BY <1>5 DEF Unsubscribe, Acquire, FindSent, FindInProgress, ClaimFails, ProviderStep
<1>6. ASSUME NEW g \in Gazettes, Reindex(g) PROVE ProviderStep
  BY <1>6 DEF Reindex, ProviderStep
<1>7. ASSUME NEW k \in Keys, LeaseExpires(k) PROVE ProviderStep
  BY <1>7 DEF LeaseExpires, ProviderStep
<1>8. ASSUME NEW d \in Deliveries,
             \/ ListActive(d) \/ Search(d) \/ SearchFails(d) \/ MarkSent(d)
             \/ MarkSentFails(d) \/ Release(d) \/ ReleaseFails(d) \/ Reply(d) \/ Abort(d)
      PROVE  ProviderStep
  BY <1>8 DEF ListActive, Search, SearchFails, MarkSent, MarkSentFails, Release,
     ReleaseFails, Reply, Abort, ProviderStep
<1> QED
  BY <1>1, <1>2, <1>3, <1>4, <1>5, <1>6, <1>7, <1>8 DEF Next

LEMMA ProviderInvStep == TypeOK /\ TypeOK' /\ ProviderInv /\ ProviderStep => ProviderInv'
<1> SUFFICES ASSUME TypeOK, TypeOK', ProviderInv, ProviderStep PROVE ProviderInv'
  OBVIOUS
<1> USE AlertsAssumption DEF TypeOK
<1>1. CASE UNCHANGED provider
  BY <1>1 DEF provider, ProviderInv
<1>2. ASSUME NEW k \in Keys, NEW b \in Bodies \union {NoHits}, Deliver(k, b)
      PROVE  ProviderInv'
  <2>1. CASE remembered[k] = NoBody
    <3>1. /\ emails' = [emails EXCEPT ![k] = @ + 1]
          /\ remembered' = [remembered EXCEPT ![k] = b]
          /\ UNCHANGED forgets
      BY <1>2, <2>1 DEF Deliver
    <3>2. b # NoBody
      OBVIOUS
    <3>3. emails[k] <= forgets[k]
      BY <2>1 DEF ProviderInv
    <3> SUFFICES ASSUME NEW j \in Keys
                 PROVE  /\ remembered'[j] = NoBody => emails'[j] <= forgets'[j]
                        /\ remembered'[j] # NoBody =>
                             emails'[j] >= 1 /\ emails'[j] <= 1 + forgets'[j]
      BY DEF ProviderInv
    <3> QED
      BY <3>1, <3>2, <3>3 DEF ProviderInv
  <2>2. CASE remembered[k] # NoBody
    BY <1>1, <1>2, <2>2 DEF Deliver
  <2> QED
    BY <2>1, <2>2
<1>3. ASSUME NEW k \in Keys,
             remembered[k] # NoBody,
             remembered' = [remembered EXCEPT ![k] = NoBody],
             forgets' = [forgets EXCEPT ![k] = @ + 1],
             UNCHANGED emails
      PROVE  ProviderInv'
  BY <1>3 DEF ProviderInv
<1> QED
  BY <1>1, <1>2, <1>3 DEF ProviderStep

\* While the provider remembers its key an alert reaches the subscriber once:
\* overlapping, failed and repeated deliveries send no second e-mail.
THEOREM OneEmail == Spec => []OneEmailPerKeyLife
<1>1. Init => ProviderInv
  BY DEF Init, ProviderInv
<1>2. TypeOK /\ TypeOK' /\ ProviderInv /\ [Next]_vars => ProviderInv'
  BY NextProvider, ProviderInvStep
<1>3. TypeOK /\ ProviderInv => OneEmailPerKeyLife
  BY DEF TypeOK, ProviderInv, OneEmailPerKeyLife
<1> QED
  BY TypeCorrect, <1>1, <1>2, <1>3, PTL DEF Spec

-----------------------------------------------------------------------------
(***************************************************************************)
(* The table.  A row becomes 'sent' only in a delivery whose e-mail the    *)
(* provider has accepted, and stays so.                                    *)
(***************************************************************************)

\* A delivery about to record an alert has had its e-mail accepted.
MarkInv == \A d \in Deliveries : pc[d] = "mark" => emails[Key(d)] >= 1

LEMMA EmailsGrow ==
  ASSUME TypeOK, ProviderStep, NEW k \in Keys
  PROVE  emails'[k] >= emails[k]
<1> USE DEF TypeOK
<1>1. CASE UNCHANGED provider
  BY <1>1 DEF provider
<1>2. ASSUME NEW j \in Keys, NEW b \in Bodies \union {NoHits}, Deliver(j, b)
      PROVE  emails'[k] >= emails[k]
  <2>1. emails' = [emails EXCEPT ![j] = @ + 1] \/ UNCHANGED emails
    BY <1>2 DEF Deliver, provider
  <2> QED
    BY <2>1
<1> QED
  BY <1>1, <1>2 DEF ProviderStep

\* How a delivery comes to record an alert, or goes on being about to.
LEMMA AtMark ==
  ASSUME TypeOK, [Next]_vars, NEW d \in Deliveries, pc'[d] = "mark"
  PROVE  \/ Send(d)
         \/ pc[d] = "mark" /\ sub'[d] = sub[d] /\ event'[d] = event[d]
<1> DEFINE Goal == \/ Send(d)
                   \/ pc[d] = "mark" /\ sub'[d] = sub[d] /\ event'[d] = event[d]
<1> USE DEF TypeOK, local
<1>1. ASSUME NEW m \in Messages, Publish(m) \/ DeadLetter(m) PROVE Goal
  BY <1>1 DEF Publish, DeadLetter
<1>2. ASSUME NEW s \in Subs, Unsubscribe(s) PROVE Goal
  BY <1>2 DEF Unsubscribe
<1>3. ASSUME NEW g \in Gazettes, Reindex(g) PROVE Goal
  BY <1>3 DEF Reindex
<1>4. ASSUME NEW k \in Keys, LeaseExpires(k) \/ ForgetKey(k) PROVE Goal
  BY <1>4 DEF LeaseExpires, ForgetKey
<1>5. ASSUME NEW e \in Deliveries, NEW m \in Messages, Start(e, m) PROVE Goal
  BY <1>5 DEF Start
<1>6. ASSUME NEW e \in Deliveries, ListActive(e) PROVE Goal
  BY <1>6 DEF ListActive
<1>7. ASSUME NEW e \in Deliveries, NEW s \in Subs, Acquire(e, s) PROVE Goal
  BY <1>7 DEF Acquire
<1>8. ASSUME NEW e \in Deliveries, NEW s \in Subs,
             FindSent(e, s) \/ FindInProgress(e, s) \/ ClaimFails(e, s)
      PROVE  Goal
  BY <1>8 DEF FindSent, FindInProgress, ClaimFails
<1>9. ASSUME NEW e \in Deliveries, Search(e) \/ SearchFails(e) PROVE Goal
  <2>1. /\ pc' = [pc EXCEPT ![e] = pc'[e]] /\ pc'[e] # "mark"
        /\ UNCHANGED <<event, sub>>
    BY <1>9 DEF Search, SearchFails
  <2> QED
    BY <2>1
<1>10. ASSUME NEW e \in Deliveries, Send(e) PROVE Goal
  <2>1. pc' = [pc EXCEPT ![e] = "mark"] /\ UNCHANGED <<event, sub>>
    BY <1>10 DEF Send
  <2> QED
    BY <1>10, <2>1
<1>11. ASSUME NEW e \in Deliveries, SendFails(e) PROVE Goal
  <2>1. pc' = [pc EXCEPT ![e] = "release"] /\ UNCHANGED <<event, sub>>
    BY <1>11 DEF SendFails
  <2> QED
    BY <2>1
<1>12. ASSUME NEW e \in Deliveries,
              MarkSent(e) \/ MarkSentFails(e) \/ Release(e) \/ ReleaseFails(e)
       PROVE  Goal
  <2>1. pc' = [pc EXCEPT ![e] = "loop"] /\ UNCHANGED <<event, sub>>
    BY <1>12 DEF MarkSent, MarkSentFails, Release, ReleaseFails
  <2> QED
    BY <2>1
<1>13. ASSUME NEW e \in Deliveries, Reply(e) \/ Abort(e) PROVE Goal
  <2>1. GoIdle(e)
    BY <1>13 DEF Reply, Abort
  <2> QED
    BY <2>1 DEF GoIdle
<1>14. CASE UNCHANGED vars
  BY <1>14 DEF vars
<1> QED
  BY <1>1, <1>2, <1>3, <1>4, <1>5, <1>6, <1>7, <1>8, <1>9, <1>10, <1>11, <1>12,
     <1>13, <1>14 DEF Next

LEMMA MarkInvStep ==
  TypeOK /\ TypeOK' /\ ProviderInv /\ MarkInv /\ [Next]_vars => MarkInv'
<1> SUFFICES ASSUME TypeOK, TypeOK', ProviderInv, MarkInv, [Next]_vars,
                    NEW d \in Deliveries, pc'[d] = "mark"
             PROVE  emails'[Key(d)'] >= 1
  BY DEF MarkInv
<1>1. Key(d) \in Keys
  BY KeyType
<1>2. emails[Key(d)] \in Nat /\ emails'[Key(d)] \in Nat
  BY <1>1 DEF TypeOK
<1>3. emails'[Key(d)] >= emails[Key(d)]
  BY <1>1, NextProvider, EmailsGrow
<1>4. CASE Send(d)
  <2>1. Key(d)' = Key(d)
    BY <1>4 DEF Send, local, Key
  <2>2. CASE remembered[Key(d)] = NoBody
    <3>1. emails' = [emails EXCEPT ![Key(d)] = @ + 1]
      BY <1>4, <2>2 DEF Send, Deliver
    <3> QED
      BY <1>1, <1>2, <2>1, <3>1 DEF TypeOK
  <2>3. CASE remembered[Key(d)] # NoBody
    BY <1>1, <1>2, <1>3, <2>1, <2>3 DEF ProviderInv
  <2> QED
    BY <2>2, <2>3
<1>5. CASE pc[d] = "mark" /\ sub'[d] = sub[d] /\ event'[d] = event[d]
  BY <1>2, <1>3, <1>5 DEF MarkInv, Key
<1> QED
  BY <1>4, <1>5, AtMark

\* What a step may do to what a subscriber can notice: an e-mail or a dropped
\* key, or one alert recorded after its e-mail.
SentRows == {k \in Keys : row[k] = "sent"}

AlertStep ==
  \/ ProviderStep /\ SentRows' = SentRows
  \/ /\ UNCHANGED provider
     /\ \E k \in Keys : emails[k] >= 1 /\ SentRows' = SentRows \union {k}

LEMMA RecordedRow ==
  ASSUME TypeOK, NEW k \in Keys, emails[k] >= 1, UNCHANGED provider,
         RecordSent(k) \/ UNCHANGED table
  PROVE  AlertStep
<1>1. CASE RecordSent(k)
  <2>1. SentRows' = SentRows \union {k}
    BY <1>1 DEF RecordSent, SentRows, TypeOK
  <2> QED
    BY <2>1 DEF AlertStep
<1>2. CASE UNCHANGED table
  <2>1. SentRows' = SentRows
    BY <1>2 DEF table, SentRows
  <2> QED
    BY <2>1 DEF AlertStep, ProviderStep
<1> QED
  BY <1>1, <1>2

LEMMA ReleasedRow ==
  ASSUME TypeOK, NEW k \in Keys, DeletePending(k) \/ UNCHANGED table
  PROVE  SentRows' = SentRows
<1>1. CASE UNCHANGED table
  BY <1>1 DEF table, SentRows
<1>2. CASE row[k] = "pending" /\ DeletePending(k)
  BY <1>2 DEF DeletePending, SentRows, TypeOK
<1>3. CASE row[k] # "pending" /\ DeletePending(k)
  BY <1>1, <1>3 DEF DeletePending
<1> QED
  BY <1>1, <1>2, <1>3

LEMMA ReservedRow ==
  ASSUME TypeOK, NEW d \in Deliveries, NEW k \in Keys,
         (Free(k) /\ Reserve(d, k)) \/ UNCHANGED table
  PROVE  SentRows' = SentRows
<1>1. CASE UNCHANGED table
  BY <1>1 DEF table, SentRows
<1>2. CASE Free(k) /\ Reserve(d, k)
  BY <1>2 DEF Free, Reserve, SentRows, TypeOK
<1> QED
  BY <1>1, <1>2

LEMMA NextAlert == TypeOK /\ MarkInv /\ [Next]_vars => AlertStep
<1> SUFFICES ASSUME TypeOK, MarkInv, [Next]_vars PROVE AlertStep
  OBVIOUS
<1>1. ProviderStep
  BY NextProvider
<1>2. ASSUME UNCHANGED row PROVE AlertStep
  BY <1>1, <1>2 DEF AlertStep, SentRows
<1>3. ASSUME NEW m \in Messages,
             Publish(m) \/ DeadLetter(m) \/ \E d \in Deliveries : Start(d, m)
      PROVE  AlertStep
  BY <1>2, <1>3 DEF Publish, DeadLetter, Start, table
<1>4. ASSUME NEW s \in Subs, Unsubscribe(s) PROVE AlertStep
  BY <1>2, <1>4 DEF Unsubscribe, table
<1>5. ASSUME NEW g \in Gazettes, Reindex(g) PROVE AlertStep
  BY <1>2, <1>5 DEF Reindex, table
<1>6. ASSUME NEW k \in Keys, LeaseExpires(k) \/ ForgetKey(k) PROVE AlertStep
  BY <1>2, <1>6 DEF LeaseExpires, ForgetKey, table
<1>7. ASSUME NEW d \in Deliveries, NEW s \in Subs, Acquire(d, s) \/ ClaimFails(d, s)
      PROVE  AlertStep
  <2>1. <<s, EventOf[event[d]]>> \in Keys
    BY KeyType
  <2>2. \/ Free(<<s, EventOf[event[d]]>>) /\ Reserve(d, <<s, EventOf[event[d]]>>)
        \/ UNCHANGED table
    BY <1>7 DEF Acquire, ClaimFails
  <2> QED
    BY <1>1, <2>1, <2>2, ReservedRow DEF AlertStep
<1>8. ASSUME NEW d \in Deliveries, NEW s \in Subs, FindSent(d, s) \/ FindInProgress(d, s)
      PROVE  AlertStep
  BY <1>2, <1>8 DEF FindSent, FindInProgress, table
<1>9. ASSUME NEW d \in Deliveries,
             \/ ListActive(d) \/ Search(d) \/ SearchFails(d) \/ Send(d)
             \/ SendFails(d) \/ Reply(d) \/ Abort(d)
      PROVE  AlertStep
  BY <1>2, <1>9 DEF ListActive, Search, SearchFails, Send, SendFails, Reply, Abort, table
<1>10. ASSUME NEW d \in Deliveries, MarkSent(d) \/ MarkSentFails(d) PROVE AlertStep
  <2>1. pc[d] = "mark" /\ UNCHANGED provider /\ (RecordSent(Key(d)) \/ UNCHANGED table)
    BY <1>10 DEF MarkSent, MarkSentFails
  <2>2. Key(d) \in Keys /\ emails[Key(d)] >= 1
    BY <2>1, KeyType DEF MarkInv
  <2> QED
    BY <2>1, <2>2, RecordedRow
<1>11. ASSUME NEW d \in Deliveries, Release(d) \/ ReleaseFails(d) PROVE AlertStep
  <2>1. DeletePending(Key(d)) \/ UNCHANGED table
    BY <1>11 DEF Release, ReleaseFails
  <2> QED
    BY <1>1, <2>1, KeyType, ReleasedRow DEF AlertStep
<1>12. CASE UNCHANGED vars
  BY <1>2, <1>12 DEF vars
<1> QED
  BY <1>3, <1>4, <1>5, <1>6, <1>7, <1>8, <1>9, <1>10, <1>11, <1>12 DEF Next

\* What has to hold with the types for the rows to say what happened.
AlertInv == TypeOK /\ ProviderInv /\ MarkInv /\ SentWasAccepted

LEMMA AlertInvInit == Init => AlertInv
  BY TypeInit DEF Init, AlertInv, ProviderInv, MarkInv, SentWasAccepted

LEMMA SentStep == TypeOK /\ TypeOK' /\ SentWasAccepted /\ AlertStep => SentWasAccepted'
<1> SUFFICES ASSUME TypeOK, TypeOK', SentWasAccepted, AlertStep,
                    NEW k \in Keys, row'[k] = "sent"
             PROVE  emails'[k] >= 1
  BY DEF SentWasAccepted
<1>1. emails[k] \in Nat /\ emails'[k] \in Nat /\ k \in SentRows'
  BY DEF TypeOK, SentRows
<1>2. CASE ProviderStep /\ SentRows' = SentRows
  <2>1. emails[k] >= 1
    BY <1>1, <1>2 DEF SentRows, SentWasAccepted
  <2> QED
    BY <1>1, <1>2, <2>1, EmailsGrow
<1>3. ASSUME UNCHANGED provider, NEW j \in Keys, emails[j] >= 1,
             SentRows' = SentRows \union {j}
      PROVE  emails'[k] >= 1
  BY <1>1, <1>3 DEF provider, SentRows, SentWasAccepted
<1> QED
  BY <1>2, <1>3 DEF AlertStep

LEMMA AlertInvStep == AlertInv /\ [Next]_vars => AlertInv'
<1> SUFFICES ASSUME AlertInv, [Next]_vars PROVE AlertInv'
  OBVIOUS
<1>1. TypeOK /\ TypeOK' /\ ProviderInv /\ MarkInv /\ SentWasAccepted
  BY TypeStep DEF AlertInv
<1>2. ProviderInv'
  BY <1>1, NextProvider, ProviderInvStep
<1>3. MarkInv'
  BY <1>1, MarkInvStep
<1>4. SentWasAccepted'
  BY <1>1, NextAlert, SentStep
<1> QED
  BY <1>1, <1>2, <1>3, <1>4 DEF AlertInv

LEMMA AlertInvHolds == Spec => []AlertInv
  BY AlertInvInit, AlertInvStep, PTL DEF Spec

\* A row says 'sent' only about an alert whose e-mail the provider accepted.
THEOREM SentAccepted == Spec => []SentWasAccepted
<1>1. AlertInv => SentWasAccepted
  BY DEF AlertInv
<1> QED
  BY <1>1, AlertInvHolds, PTL

\* No claim, release or failure takes a sent row back.
THEOREM SentFinal == Spec => SentIsFinal
<1>1. AlertInv /\ [Next]_vars => [\A k \in Keys : row[k] = "sent" => row'[k] = "sent"]_vars
  <2> SUFFICES ASSUME AlertInv, [Next]_vars, NEW k \in Keys, row[k] = "sent"
               PROVE  row'[k] = "sent"
    OBVIOUS
  <2>1. AlertStep
    BY NextAlert DEF AlertInv
  <2>2. k \in SentRows'
    BY <2>1 DEF AlertStep, SentRows
  <2> QED
    BY <2>2 DEF SentRows
<1> QED
  BY <1>1, AlertInvHolds, PTL DEF Spec, SentIsFinal

-----------------------------------------------------------------------------
(***************************************************************************)
(* Refinement: the deliveries implement AlertPromise.                      *)
(***************************************************************************)

LEMMA PromiseInit == Init => Promise!Init
  BY DEF Init, Promise!Init

LEMMA PromiseStep == AlertInv /\ [Next]_vars => [Promise!Next]_Promise!vars
<1> SUFFICES ASSUME AlertInv, [Next]_vars PROVE [Promise!Next]_Promise!vars
  OBVIOUS
<1> USE DEF TypeOK
<1>1. TypeOK /\ TypeOK' /\ AlertStep
  BY TypeStep, NextAlert DEF AlertInv
<1> DEFINE rec == [k \in Keys |-> row[k] = "sent"]
           keyd == [k \in Keys |-> remembered[k] # NoBody]
<1>2. ASSUME SentRows' = SentRows PROVE rec' = rec
  <2> SUFFICES ASSUME NEW k \in Keys PROVE (row'[k] = "sent") = (row[k] = "sent")
    OBVIOUS
  <2>1. (k \in SentRows') = (k \in SentRows)
    BY <1>2
  <2> QED
    BY <2>1 DEF SentRows
<1>3. ASSUME UNCHANGED provider PROVE UNCHANGED <<emails, keyd>>
  BY <1>3 DEF provider
<1>4. ASSUME UNCHANGED provider, SentRows' = SentRows PROVE UNCHANGED Promise!vars
  BY <1>2, <1>3, <1>4 DEF Promise!vars
<1>5. ASSUME NEW k \in Keys, NEW b \in Bodies \union {NoHits}, Deliver(k, b),
             SentRows' = SentRows
      PROVE  [Promise!Next]_Promise!vars
  <2>1. CASE remembered[k] = NoBody
    <3>1. /\ emails' = [emails EXCEPT ![k] = @ + 1]
          /\ remembered' = [remembered EXCEPT ![k] = b]
      BY <1>5, <2>1 DEF Deliver
    <3>2. b # NoBody
      BY AlertsAssumption
    <3>3. ~keyd[k] /\ keyd' = [keyd EXCEPT ![k] = TRUE]
      BY <1>1, <2>1, <3>1, <3>2
    <3>4. rec' = rec
      BY <1>2, <1>5
    <3> QED
      BY <3>1, <3>3, <3>4 DEF Promise!Next, Promise!Email
  <2>2. CASE remembered[k] # NoBody
    BY <1>4, <1>5, <2>2 DEF Deliver
  <2> QED
    BY <2>1, <2>2
<1>6. ASSUME NEW k \in Keys, remembered[k] # NoBody,
             remembered' = [remembered EXCEPT ![k] = NoBody], UNCHANGED emails,
             SentRows' = SentRows
      PROVE  [Promise!Next]_Promise!vars
  <2>1. keyd[k] /\ keyd' = [keyd EXCEPT ![k] = FALSE]
    BY <1>1, <1>6
  <2>2. rec' = rec
    BY <1>2, <1>6
  <2> QED
    BY <1>6, <2>1, <2>2 DEF Promise!Next, Promise!DropKey
<1>7. ASSUME UNCHANGED provider, NEW k \in Keys, emails[k] >= 1,
             SentRows' = SentRows \union {k}
      PROVE  [Promise!Next]_Promise!vars
  <2>1. rec' = [rec EXCEPT ![k] = TRUE]
    <3> SUFFICES ASSUME NEW j \in Keys
                 PROVE  (row'[j] = "sent") = (IF j = k THEN TRUE ELSE row[j] = "sent")
      OBVIOUS
    <3>1. (j \in SentRows') = (j = k \/ j \in SentRows)
      BY <1>7
    <3> QED
      BY <3>1 DEF SentRows
  <2>2. emails[k] > 0
    BY <1>1, <1>7
  <2>3. UNCHANGED <<emails, keyd>>
    BY <1>3, <1>7
  <2> QED
    BY <2>1, <2>2, <2>3 DEF Promise!Next, Promise!Record
<1> QED
  BY <1>1, <1>4, <1>5, <1>6, <1>7 DEF AlertStep, ProviderStep

\* What the deliveries do to a subscriber is what the alerts promise.
THEOREM Implements == Spec => ImplementsPromise
  BY PromiseInit, PromiseStep, AlertInvHolds, PTL
  DEF Spec, ImplementsPromise, Promise!Spec

-----------------------------------------------------------------------------
(***************************************************************************)
(* Acknowledgement.  A delivery that has met no error has, for each active *)
(* subscription with hits, recorded the alert, has it in hand, or has it    *)
(* still to visit; so one that answers 204 leaves none behind.             *)
(***************************************************************************)

Covers(d, s) ==
  LET g == EventOf[event[d]] IN
  \/ s \in todo[d]
  \/ row[<<s, g>>] = "sent"
  \/ s = sub[d] /\ pc[d] \in {"search", "send", "mark"}

Covered(d) ==
  pc[d] \notin {"idle", "list"} /\ ~failed[d] =>
    \A s \in active : AlwaysFound(s, EventOf[event[d]]) => Covers(d, s)

CoverInv == \A d \in Deliveries : Covered(d)

AckInv ==
  \A m \in Messages : \A s \in active :
    msg[m] = "acked" /\ AlwaysFound(s, EventOf[m]) => row[<<s, EventOf[m]>>] = "sent"

\* Subscribers only leave while editions are matched, and a sent row stays.
LEMMA ActiveShrinks ==
  ASSUME [Next]_vars
  PROVE  active' \subseteq active
  BY DEF Next, vars, index, Publish, DeadLetter, Unsubscribe, Reindex, LeaseExpires, ForgetKey,
     Start, ListActive, Acquire, FindSent, FindInProgress, ClaimFails, Search, SearchFails, Send,
     SendFails, MarkSent, MarkSentFails, Release, ReleaseFails, Reply, Abort

LEMMA SentStays ==
  ASSUME AlertInv, [Next]_vars, NEW k \in Keys, row[k] = "sent"
  PROVE  row'[k] = "sent"
<1>1. AlertStep
  BY NextAlert DEF AlertInv
<1>2. k \in SentRows'
  BY <1>1 DEF AlertStep, SentRows
<1> QED
  BY <1>2 DEF SentRows

\* What a delivery has covered stays so while it does not move.
LEMMA Unmoved ==
  ASSUME AlertInv, [Next]_vars, NEW d \in Deliveries, Covered(d),
         pc'[d] = pc[d], event'[d] = event[d], todo'[d] = todo[d], sub'[d] = sub[d],
         failed'[d] = failed[d]
  PROVE  Covered(d)'
<1> SUFFICES ASSUME pc[d] \notin {"idle", "list"}, ~failed[d], NEW s \in active',
                    AlwaysFound(s, EventOf[event[d]])
             PROVE  Covers(d, s)'
  BY DEF Covered
<1>1. s \in active /\ Covers(d, s)
  BY ActiveShrinks DEF Covered
<1>2. <<s, EventOf[event[d]]>> \in Keys
  BY <1>1, KeyType DEF AlertInv, TypeOK
<1>3. row[<<s, EventOf[event[d]]>>] = "sent" => row'[<<s, EventOf[event[d]]>>] = "sent"
  BY <1>2, SentStays
<1> QED
  BY <1>1, <1>3 DEF Covers

\* A delivery that goes on without an error passes over nobody.
LEMMA Moved ==
  ASSUME AlertInv, [Next]_vars, NEW d \in Deliveries, Covered(d),
         failed' = failed, event' = event, pc[d] \notin {"idle", "list"},
         \A s \in active : Covers(d, s) /\ AlwaysFound(s, EventOf[event[d]]) =>
           \/ row'[<<s, EventOf[event[d]]>>] = "sent"
           \/ s \in todo'[d]
           \/ s = sub'[d] /\ pc'[d] \in {"search", "send", "mark"}
  PROVE  Covered(d)'
<1> SUFFICES ASSUME ~failed[d], NEW s \in active', AlwaysFound(s, EventOf[event[d]])
             PROVE  Covers(d, s)'
  BY DEF Covered
<1>1. s \in active /\ Covers(d, s)
  BY ActiveShrinks DEF Covered
<1> QED
  BY <1>1 DEF Covers

LEMMA CoverStep == AlertInv /\ CoverInv /\ [Next]_vars => CoverInv'
<1> SUFFICES ASSUME AlertInv, CoverInv, [Next]_vars, NEW d \in Deliveries PROVE Covered(d)'
  BY DEF CoverInv
<1>a. TypeOK /\ Covered(d)
  BY DEF AlertInv, CoverInv
<1>b. /\ pc \in [Deliveries -> Steps] /\ event \in [Deliveries -> Messages]
      /\ todo \in [Deliveries -> SUBSET Subs] /\ sub \in [Deliveries -> Subs]
      /\ failed \in [Deliveries -> BOOLEAN]
  BY <1>a DEF TypeOK
<1>c. \A s \in Subs : row[<<s, EventOf[event[d]]>>] = "sent" => row'[<<s, EventOf[event[d]]>>] = "sent"
  BY <1>a, KeyType, SentStays
<1>d. active \subseteq Subs
  BY <1>a DEF TypeOK
<1>1. ASSUME UNCHANGED <<pc, event, todo, sub, failed>> PROVE Covered(d)'
  BY <1>1, <1>a, Unmoved
<1>2. ASSUME NEW m \in Messages, Publish(m) \/ DeadLetter(m) PROVE Covered(d)'
  BY <1>1, <1>2 DEF Publish, DeadLetter, local
<1>3. ASSUME NEW s \in Subs, Unsubscribe(s) PROVE Covered(d)'
  BY <1>1, <1>3 DEF Unsubscribe, local
<1>4. ASSUME NEW g \in Gazettes, Reindex(g) PROVE Covered(d)'
  BY <1>1, <1>4 DEF Reindex, local
<1>5. ASSUME NEW k \in Keys, LeaseExpires(k) \/ ForgetKey(k) PROVE Covered(d)'
  BY <1>1, <1>5 DEF LeaseExpires, ForgetKey, local
<1>6. ASSUME NEW e \in Deliveries, NEW m \in Messages, Start(e, m) PROVE Covered(d)'
  <2>1. CASE e = d
    BY <1>6, <1>b, <2>1 DEF Start, Covered
  <2>2. CASE e # d
    <3>1. pc'[d] = pc[d] /\ event'[d] = event[d] /\ UNCHANGED <<todo, sub, failed>>
      BY <1>6, <1>b, <2>2 DEF Start
    <3> QED
      BY <1>a, <3>1, Unmoved
  <2> QED
    BY <2>1, <2>2
\* A step of another delivery: nothing of d moves.
<1>7. ASSUME NEW e \in Deliveries, e # d,
             \/ ListActive(e) \/ Search(e) \/ SearchFails(e) \/ Send(e) \/ SendFails(e)
             \/ MarkSent(e) \/ MarkSentFails(e) \/ Release(e) \/ ReleaseFails(e)
             \/ Reply(e) \/ Abort(e)
             \/ \E s \in Subs : \/ Acquire(e, s) \/ FindSent(e, s)
                                \/ FindInProgress(e, s) \/ ClaimFails(e, s)
      PROVE  Covered(d)'
  <2>1. /\ pc'[d] = pc[d] /\ event'[d] = event[d] /\ todo'[d] = todo[d]
        /\ sub'[d] = sub[d] /\ failed'[d] = failed[d]
    BY <1>7, <1>b DEF ListActive, Search, SearchFails, Send, SendFails, MarkSent, MarkSentFails,
       Release, ReleaseFails, Reply, Abort, GoIdle, Acquire, FindSent, FindInProgress, ClaimFails,
       Visit, local
  <2> QED
    BY <1>a, <2>1, Unmoved
<1>8. CASE ListActive(d)
  <2>1. todo'[d] = active /\ active' = active
    BY <1>8, <1>b DEF ListActive, index
  <2> QED
    BY <2>1 DEF Covered, Covers
<1>9. ASSUME NEW s \in Subs, Acquire(d, s) PROVE Covered(d)'
  <2>1. /\ todo'[d] = todo[d] \ {s} /\ sub'[d] = s /\ pc'[d] = "search" /\ pc[d] = "loop"
        /\ failed' = failed /\ event' = event
    BY <1>9, <1>b DEF Acquire, Visit
  <2> QED
    BY <1>a, <1>c, <1>d, <2>1, Moved DEF Covers
<1>10. ASSUME NEW s \in Subs, FindSent(d, s) PROVE Covered(d)'
  <2>1. /\ todo'[d] = todo[d] \ {s} /\ pc[d] = "loop" /\ row[<<s, EventOf[event[d]]>>] = "sent"
        /\ failed' = failed /\ event' = event
    BY <1>10, <1>b DEF FindSent, Visit
  <2> QED
    BY <1>a, <1>c, <1>d, <2>1, Moved DEF Covers
<1>11. CASE failed'[d] = TRUE
  BY <1>11 DEF Covered
<1>12. ASSUME \/ SearchFails(d) \/ SendFails(d) \/ MarkSentFails(d) \/ ReleaseFails(d)
              \/ \E s \in Subs : FindInProgress(d, s) \/ ClaimFails(d, s)
       PROVE  Covered(d)'
  <2>1. failed'[d] = TRUE
    BY <1>12, <1>b DEF SearchFails, SendFails, MarkSentFails, ReleaseFails, FindInProgress, ClaimFails
  <2> QED
    BY <1>11, <2>1
<1>13. CASE Search(d)
  <2>1. /\ pc[d] = "search" /\ failed' = failed /\ event' = event /\ todo' = todo /\ sub' = sub
        /\ pc'[d] = IF Matches[Key(d)][version[EventOf[event[d]]]] = NoHits THEN "release" ELSE "send"
    BY <1>13, <1>b DEF Search
  <2>2. version[EventOf[event[d]]] \in 0..MaxReindex
    BY <1>a, KeyType DEF TypeOK
  <2>3. AlwaysFound(sub[d], EventOf[event[d]]) => pc'[d] = "send"
    BY <2>1, <2>2 DEF AlwaysFound, Key
  <2> QED
    BY <1>a, <1>c, <1>d, <2>1, <2>3, Moved DEF Covers
<1>14. CASE Send(d)
  <2>1. /\ pc[d] = "send" /\ pc'[d] = "mark" /\ failed' = failed /\ event' = event /\ todo' = todo
        /\ sub' = sub
    BY <1>14, <1>b DEF Send, local
  <2> QED
    BY <1>a, <1>c, <1>d, <2>1, Moved DEF Covers
<1>15. CASE MarkSent(d)
  <2>1. /\ pc[d] = "mark" /\ failed' = failed /\ event' = event /\ todo' = todo /\ sub' = sub
        /\ RecordSent(Key(d))
    BY <1>15 DEF MarkSent, local
  <2>2. row'[<<sub[d], EventOf[event[d]]>>] = "sent"
    BY <1>a, <2>1, KeyType DEF RecordSent, Key, TypeOK
  <2> QED
    BY <1>a, <1>c, <1>d, <2>1, <2>2, Moved DEF Covers
<1>16. CASE Release(d)
  <2>1. /\ pc[d] = "release" /\ failed' = failed /\ event' = event /\ todo' = todo /\ sub' = sub
    BY <1>16 DEF Release, local
  <2> QED
    BY <1>a, <1>c, <1>d, <2>1, Moved DEF Covers
<1>17. CASE Reply(d) \/ Abort(d)
  <2>1. pc'[d] = "idle"
    BY <1>17, <1>b DEF Reply, Abort, GoIdle
  <2> QED
    BY <2>1 DEF Covered
<1>18. CASE UNCHANGED vars
  BY <1>1, <1>18 DEF vars
<1> QED
  BY <1>2, <1>3, <1>4, <1>5, <1>6, <1>7, <1>8, <1>9, <1>10, <1>12, <1>13, <1>14, <1>15, <1>16,
     <1>17, <1>18 DEF Next

\* Only a delivery that covered everybody and has nothing left acknowledges.
LEMMA AckStep == AlertInv /\ CoverInv /\ AckInv /\ [Next]_vars => AckInv'
<1> SUFFICES ASSUME AlertInv, CoverInv, AckInv, [Next]_vars, NEW m \in Messages, NEW s \in active',
                    msg'[m] = "acked", AlwaysFound(s, EventOf[m])
             PROVE  row'[<<s, EventOf[m]>>] = "sent"
  BY DEF AckInv
<1>1. TypeOK /\ s \in active /\ s \in Subs
  BY ActiveShrinks DEF AlertInv, TypeOK
<1>2. <<s, EventOf[m]>> \in Keys
  BY <1>1, AlertsAssumption DEF Keys
<1>3. CASE msg[m] = "acked"
  BY <1>1, <1>2, <1>3, SentStays DEF AckInv
<1>4. ASSUME NEW d \in Deliveries, Reply(d), event[d] = m, ~failed[d]
      PROVE  row'[<<s, EventOf[m]>>] = "sent"
  <2>1. pc[d] = "loop" /\ todo[d] = {}
    BY <1>4 DEF Reply
  <2>2. Covers(d, s)
    BY <1>1, <1>4, <2>1 DEF CoverInv, Covered
  <2> QED
    BY <1>2, <1>4, <2>1, <2>2, SentStays DEF Covers
<1>5. msg[m] = "acked" \/ \E d \in Deliveries : Reply(d) /\ event[d] = m /\ ~failed[d]
  <2>1. msg \in [Messages -> States] /\ event \in [Deliveries -> Messages] /\ failed \in [Deliveries -> BOOLEAN]
    BY <1>1 DEF TypeOK
  <2>2. ASSUME NEW n \in Messages, Publish(n) \/ DeadLetter(n) PROVE msg[m] = "acked"
    BY <2>1, <2>2 DEF Publish, DeadLetter
  <2>3. ASSUME NEW d \in Deliveries, Reply(d), msg[m] # "acked"
        PROVE  event[d] = m /\ ~failed[d]
    BY <2>1, <2>3 DEF Reply
  <2>4. msg' = msg \/ (\E n \in Messages : Publish(n) \/ DeadLetter(n)) \/ \E d \in Deliveries : Reply(d)
    BY DEF Next, vars, queue, Unsubscribe, Reindex, LeaseExpires, ForgetKey, Start, ListActive,
       Acquire, FindSent, FindInProgress, ClaimFails, Search, SearchFails, Send, SendFails, MarkSent,
       MarkSentFails, Release, ReleaseFails, Abort
  <2> QED
    BY <2>2, <2>3, <2>4
<1> QED
  BY <1>3, <1>4, <1>5

\* An acknowledged event leaves no alert behind: whoever is active and has hits in
\* every version of the index has been sent the e-mail and is recorded.
THEOREM NoAlertLeftBehind == Spec => []AckLeavesNoAlertBehind
<1>1. Init => CoverInv /\ AckInv
  BY AlertsAssumption DEF Init, CoverInv, Covered, AckInv
<1>2. AlertInv /\ AckInv => AckLeavesNoAlertBehind
  <2> SUFFICES ASSUME AlertInv, AckInv, NEW m \in Messages, NEW s \in active,
                      msg[m] = "acked", AlwaysFound(s, EventOf[m])
               PROVE  row[<<s, EventOf[m]>>] = "sent" /\ emails[<<s, EventOf[m]>>] >= 1
    BY DEF AckLeavesNoAlertBehind
  <2>1. <<s, EventOf[m]>> \in Keys
    BY AlertsAssumption DEF AlertInv, TypeOK, Keys
  <2> QED
    BY <2>1 DEF AckInv, AlertInv, SentWasAccepted
<1> QED
  BY <1>1, <1>2, AlertInvHolds, CoverStep, AckStep, PTL DEF Spec

-----------------------------------------------------------------------------
(***************************************************************************)
(* Reservations.  When no delivery outlives its lease, the delivery that   *)
(* works on an alert owns the live pending row of that alert.              *)
(***************************************************************************)

Owns(d) == row[Key(d)] = "pending" /\ ~expired[Key(d)] /\ owner[Key(d)] = d

HolderInv == \A d \in Deliveries : pc[d] \in Holding => Owns(d)

\* A delivery that is not disturbed keeps what it owns.
LEMMA KeepsOwning ==
  ASSUME HolderInv, NEW d \in Deliveries, pc[d] \in Holding,
         sub'[d] = sub[d], event'[d] = event[d],
         row'[Key(d)] = row[Key(d)], expired'[Key(d)] = expired[Key(d)],
         owner'[Key(d)] = owner[Key(d)]
  PROVE  Owns(d)'
<1>1. Key(d)' = Key(d)
  BY DEF Key
<1> QED
  BY <1>1 DEF HolderInv, Owns

LEMMA HolderStep == ~SlowHolders /\ TypeOK /\ HolderInv /\ [Next]_vars => HolderInv'
<1> SUFFICES ASSUME ~SlowHolders, TypeOK, HolderInv, [Next]_vars,
                    NEW d \in Deliveries, pc'[d] \in Holding
             PROVE  Owns(d)'
  BY DEF HolderInv
<1> USE DEF TypeOK
<1>1. ASSUME UNCHANGED table, pc[d] \in Holding, sub'[d] = sub[d], event'[d] = event[d]
      PROVE  Owns(d)'
  BY <1>1, KeepsOwning DEF table
<1>2. ASSUME NEW m \in Messages, Publish(m) \/ DeadLetter(m) PROVE Owns(d)'
  BY <1>1, <1>2 DEF Publish, DeadLetter, local
<1>3. ASSUME NEW s \in Subs, Unsubscribe(s) PROVE Owns(d)'
  BY <1>1, <1>3 DEF Unsubscribe, local
<1>4. ASSUME NEW g \in Gazettes, Reindex(g) PROVE Owns(d)'
  BY <1>1, <1>4 DEF Reindex, local
<1>5. ASSUME NEW k \in Keys, ForgetKey(k) PROVE Owns(d)'
  BY <1>1, <1>5 DEF ForgetKey, local
<1>6. ASSUME NEW k \in Keys, LeaseExpires(k) PROVE Owns(d)'
  <2>1. /\ pc[d] \in Holding /\ k # Key(d)
        /\ expired' = [expired EXCEPT ![k] = TRUE] /\ UNCHANGED <<row, owner, sub, event>>
    BY <1>6 DEF LeaseExpires, HolderInv, Owns, local
  <2>2. expired'[Key(d)] = expired[Key(d)]
    BY <2>1, KeyType
  <2> QED
    BY <2>1, <2>2, KeepsOwning
<1>7. ASSUME NEW e \in Deliveries, NEW m \in Messages, Start(e, m) PROVE Owns(d)'
  <2>1. d # e
    BY <1>7 DEF Start, Holding
  <2> QED
    BY <1>1, <1>7, <2>1 DEF Start
<1>8. ASSUME NEW e \in Deliveries, ListActive(e) PROVE Owns(d)'
  <2>1. d # e
    BY <1>8 DEF ListActive, Holding
  <2> QED
    BY <1>1, <1>8, <2>1 DEF ListActive
<1>9. ASSUME NEW e \in Deliveries, NEW s \in Subs, Free(<<s, EventOf[event[e]]>>)
      PROVE  pc[d] \in Holding => Key(d) # <<s, EventOf[event[e]]>>
  BY <1>9 DEF HolderInv, Owns, Free
<1>10. ASSUME NEW e \in Deliveries, NEW s \in Subs, Acquire(e, s) PROVE Owns(d)'
  <2> DEFINE k == <<s, EventOf[event[e]]>>
  <2>1. k \in Keys
    BY KeyType
  <2>2. /\ Free(k) /\ Reserve(e, k) /\ UNCHANGED event
        /\ sub' = [sub EXCEPT ![e] = s] /\ pc' = [pc EXCEPT ![e] = "search"]
    BY <1>10 DEF Acquire
  <2>3. CASE d = e
    <3>1. Key(d)' = k
      BY <2>2, <2>3 DEF Key
    <3> QED
      BY <2>1, <2>2, <2>3, <3>1 DEF Reserve, Owns
  <2>4. CASE d # e
    <3>1. /\ pc[d] \in Holding /\ sub'[d] = sub[d] /\ event'[d] = event[d]
          /\ Key(d) # k
      BY <1>9, <2>2, <2>4
    <3> QED
      BY <2>2, <3>1, KeyType, KeepsOwning DEF Reserve
  <2> QED
    BY <2>3, <2>4
<1>11. ASSUME NEW e \in Deliveries, NEW s \in Subs, ClaimFails(e, s) PROVE Owns(d)'
  <2> DEFINE k == <<s, EventOf[event[e]]>>
  <2>1. /\ (Free(k) /\ Reserve(e, k)) \/ UNCHANGED table
        /\ pc[d] \in Holding /\ sub'[d] = sub[d] /\ event'[d] = event[d]
    BY <1>11 DEF ClaimFails
  <2>2. CASE Free(k) /\ Reserve(e, k)
    <3>1. Key(d) # k
      BY <1>9, <2>1, <2>2
    <3> QED
      BY <2>1, <2>2, <3>1, KeyType, KeepsOwning DEF Reserve
  <2> QED
    BY <1>1, <2>1, <2>2
<1>12. ASSUME NEW e \in Deliveries, NEW s \in Subs, FindSent(e, s) \/ FindInProgress(e, s)
       PROVE  Owns(d)'
  BY <1>1, <1>12 DEF FindSent, FindInProgress
<1>13. ASSUME NEW e \in Deliveries, Search(e) \/ SearchFails(e) \/ Send(e) \/ SendFails(e)
       PROVE  Owns(d)'
  <2>1. /\ UNCHANGED <<table, sub, event>>
        /\ pc[e] \in {"search", "send"} /\ pc' = [pc EXCEPT ![e] = pc'[e]]
    BY <1>13 DEF Search, SearchFails, Send, SendFails, local
  <2>2. pc[d] \in Holding
    BY <2>1 DEF Holding
  <2> QED
    BY <1>1, <2>1, <2>2
<1>14. ASSUME NEW e \in Deliveries,
              MarkSent(e) \/ MarkSentFails(e) \/ Release(e) \/ ReleaseFails(e)
       PROVE  Owns(d)'
  <2>1. /\ RecordSent(Key(e)) \/ DeletePending(Key(e)) \/ UNCHANGED table
        /\ UNCHANGED <<sub, event>>
        /\ pc[e] \in {"mark", "release"} /\ pc' = [pc EXCEPT ![e] = "loop"]
    BY <1>14 DEF MarkSent, MarkSentFails, Release, ReleaseFails, local
  <2>2. d # e /\ pc[d] \in Holding
    BY <2>1 DEF Holding
  <2>3. Owns(d) /\ Owns(e)
    BY <2>1, <2>2 DEF HolderInv, Holding
  <2>4. Key(d) # Key(e)
    BY <2>2, <2>3 DEF Owns
  <2>5. /\ row'[Key(d)] = row[Key(d)] /\ expired'[Key(d)] = expired[Key(d)]
        /\ owner'[Key(d)] = owner[Key(d)]
    BY <2>1, <2>4, KeyType DEF RecordSent, DeletePending, table
  <2> QED
    BY <2>1, <2>2, <2>5, KeepsOwning
<1>15. ASSUME NEW e \in Deliveries, Reply(e) \/ Abort(e) PROVE Owns(d)'
  <2>1. GoIdle(e) /\ UNCHANGED table
    BY <1>15 DEF Reply, Abort
  <2>2. d # e
    BY <2>1 DEF GoIdle, Holding
  <2> QED
    BY <1>1, <2>1, <2>2 DEF GoIdle
<1>16. CASE UNCHANGED vars
  BY <1>1, <1>16 DEF vars, table
<1> QED
  BY <1>2, <1>3, <1>4, <1>5, <1>6, <1>7, <1>8, <1>10, <1>11, <1>12, <1>13, <1>14,
     <1>15, <1>16 DEF Next

\* As long as the reservation of two minutes covers a search and a send, no
\* two deliveries ever work on the same alert.
THEOREM Exclusive == ~SlowHolders => (Spec => []OneHolder)
<1> SUFFICES ASSUME ~SlowHolders PROVE Spec => []OneHolder
  OBVIOUS
<1>1. Init => HolderInv
  BY DEF Init, HolderInv, Holding
<1>2. TypeOK /\ HolderInv /\ [Next]_vars => HolderInv'
  BY HolderStep
<1>3. HolderInv => OneHolder
  <2> SUFFICES ASSUME HolderInv, NEW k \in Keys PROVE Cardinality(Holders(k)) <= 1
    BY DEF OneHolder
  <2>1. \A d, e \in Holders(k) : d = e
    BY DEF HolderInv, Owns, Holders
  <2>2. CASE Holders(k) = {}
    BY <2>2, FS_EmptySet
  <2>3. CASE Holders(k) # {}
    <3>1. PICK d : d \in Holders(k)
      BY <2>3
    <3>2. Holders(k) = {d}
      BY <2>1, <3>1
    <3> QED
      BY <3>2, FS_Singleton
  <2> QED
    BY <2>2, <2>3
<1> QED
  BY TypeCorrect, <1>1, <1>2, <1>3, PTL DEF Spec
=============================================================================
