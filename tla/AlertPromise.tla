---------------------------- MODULE AlertPromise ----------------------------
(***************************************************************************)
(* What the alerts promise a subscriber, without deliveries, reservations  *)
(* or redeliveries.  For each alert (a subscription and an edition) an     *)
(* e-mail goes out only when the provider holds no key for it, the alert   *)
(* is recorded as sent only after an e-mail, and recording is for good.    *)
(***************************************************************************)
EXTENDS Naturals

CONSTANT Keys      \* the alerts

VARIABLES
  emails,          \* e-mails that reached the subscriber
  recorded,        \* the alert is recorded as sent
  keyed            \* the provider holds the key of the alert

vars == <<emails, recorded, keyed>>

Init ==
  /\ emails = [k \in Keys |-> 0]
  /\ recorded = [k \in Keys |-> FALSE]
  /\ keyed = [k \in Keys |-> FALSE]

Email(k) ==
  /\ ~keyed[k]
  /\ emails' = [emails EXCEPT ![k] = @ + 1]
  /\ keyed' = [keyed EXCEPT ![k] = TRUE]
  /\ UNCHANGED recorded

Record(k) ==
  /\ emails[k] > 0
  /\ recorded' = [recorded EXCEPT ![k] = TRUE]
  /\ UNCHANGED <<emails, keyed>>

DropKey(k) ==
  /\ keyed[k]
  /\ keyed' = [keyed EXCEPT ![k] = FALSE]
  /\ UNCHANGED <<emails, recorded>>

Next == \E k \in Keys : Email(k) \/ Record(k) \/ DropKey(k)

Spec == Init /\ [][Next]_vars
=============================================================================
