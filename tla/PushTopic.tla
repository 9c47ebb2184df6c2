----------------------------- MODULE PushTopic ------------------------------
(***************************************************************************)
(* One message of a topic with a push subscription, as its publisher, its  *)
(* handler and the subscription see it.  A message is queued until the     *)
(* handler answers 2xx, counts the deliveries it was given, and after      *)
(* MaxAttempts of them goes to the dead letters.                           *)
(***************************************************************************)
EXTENDS Naturals

CONSTANT MaxAttempts \* max_delivery_attempts of the subscription

MessageStates == {"unpublished", "queued", "acked", "dead"}

Message == [state : MessageStates, attempts : 0..MaxAttempts]

Unpublished == [state |-> "unpublished", attempts |-> 0]

\* Publishing the same content again is a new message.
Published == [state |-> "queued", attempts |-> 0]

\* At-least-once: a message may be pushed while an earlier push of it is still
\* running, and also after it was acknowledged.
CanDeliver(q) == q.state \in {"queued", "acked"} /\ q.attempts < MaxAttempts

Delivered(q) == [q EXCEPT !.attempts = @ + 1]

Acked(q) == IF q.state = "queued" THEN [q EXCEPT !.state = "acked"] ELSE q

CanGiveUp(q) == q.state = "queued" /\ q.attempts = MaxAttempts

GivenUp(q) == [q EXCEPT !.state = "dead"]
=============================================================================
