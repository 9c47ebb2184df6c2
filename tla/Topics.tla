------------------------------- MODULE Topics -------------------------------
(***************************************************************************)
(* The two topics, side by side: gazette.fetched, which takes an edition   *)
(* from the scraper to the index (Pipeline), and gazette.indexed, which    *)
(* takes it to the subscribers (Alerts).  They share no table, so that a   *)
(* behaviour is one of a single topic, chosen by the initial state, and    *)
(* the variables of the other stay still.  What is asked is whether what   *)
(* was published is settled in the end.                                    *)
(***************************************************************************)
EXTENDS Pipeline

CONSTANTS
  Subs, Gazettes, Messages, EventOf, Deliveries, BrokenFilters, Bodies, NoHits,
  Matches, NoBody, NoOne,
  AlertAttempts, Reindexations  \* MaxAttempts and MaxReindex of Alerts

VARIABLES
  mode,    \* the topic of this behaviour: "fetched" or "indexed"
  active, version, row, expired, owner, msg, attempts, sub, body, failed,
  remembered, emails, forgets,
  alertPc, alertEvent, alertTodo  \* pc, event and todo of Alerts

alerting == <<active, version, row, expired, owner, msg, attempts, sub, body, failed,
              remembered, emails, forgets, alertPc, alertEvent, alertTodo>>
TopicVars == <<mode, PipelineVars, alerting>>

\* The values TLC gives the constants of Alerts.
CONSTANTS s1, s2, g1, m1, m2, d1, d2, b1, b2

\* Leases are not outlived and keys are not forgotten.
Alr == INSTANCE Alerts WITH
  pc <- alertPc, event <- alertEvent, todo <- alertTodo,
  MaxAttempts <- AlertAttempts, MaxReindex <- Reindexations, MaxForgets <- 0,
  SlowHolders <- FALSE

TopicInit ==
  /\ mode \in {"fetched", "indexed"}
  /\ PipelineInit /\ Alr!Init
  /\ mode = "fetched" => active = {}
  /\ mode = "indexed" => site = [e \in Editions |-> Absent]

\* What stays still beside a step of either topic; failures are counted together.
Others ==
  /\ UNCHANGED mode
  /\ mode = "fetched" => UNCHANGED alerting
  /\ mode = "indexed" => UNCHANGED <<pdf, queue, scraper, worker>>

TopicNext ==
  \/ mode = "fetched" /\ PipelineNext /\ Others
  \/ mode = "indexed" /\ Alr!Next /\ Others

\* The schedule starts run after run, the push subscriptions deliver what is
\* queued, and the processes go on while their calls answer.
TopicFairness ==
  /\ \A r \in Runs : WF_TopicVars(mode = "fetched" /\ Work(r) /\ UNCHANGED worker /\ Others)
  /\ \A w \in Workers :
       WF_TopicVars(mode = "fetched" /\ X!Work(w) /\ UNCHANGED scraper /\ Others)
  /\ \A ev \in Events :
       /\ WF_TopicVars(/\ mode = "fetched" /\ queue[ev].state = "queued"
                       /\ \E w \in Workers : X!Start(w, ev)
                       /\ UNCHANGED scraper /\ Others)
       /\ WF_TopicVars(mode = "fetched" /\ X!DeadLetter(ev) /\ UNCHANGED scraper /\ Others)
  /\ \A d \in Deliveries : WF_TopicVars(mode = "indexed" /\ Alr!Work(d) /\ Others)
  /\ \A m \in Messages :
       /\ WF_TopicVars(/\ mode = "indexed" /\ msg[m] = "queued"
                       /\ \E d \in Deliveries : Alr!Start(d, m)
                       /\ Others)
       /\ WF_TopicVars(mode = "indexed" /\ Alr!DeadLetter(m) /\ Others)
  /\ \A k \in Alr!Keys : WF_TopicVars(mode = "indexed" /\ Alr!LeaseExpires(k) /\ Others)

TopicSpec == TopicInit /\ [][TopicNext]_TopicVars /\ TopicFairness

-----------------------------------------------------------------------------
\* Only the delivery that reserved an alert searches and sends it, as long as
\* the two minutes of the reservation cover both.
OneHolder == Alr!OneHolder

\* A queued event reaches whoever has hits, even when another subscription fails
\* on every delivery; it may be missed only if the subscriber leaves or if a call
\* failed and the deliveries of a message ran out.
AlertArrives == Alr!AlertArrives

-----------------------------------------------------------------------------
(***************************************************************************)
(* The values TLC gives the constants of Alerts.                           *)
(***************************************************************************)
MCEventOf == [m \in Messages |-> g1]

\* s1 has hits that a reindexation changes; s2 has hits only before it.
MCMatches ==
  [k \in Subs \X Gazettes |-> [v \in 0..Reindexations |->
    IF v = 0 THEN b1 ELSE IF k[1] = s1 THEN b2 ELSE NoHits]]
=============================================================================
