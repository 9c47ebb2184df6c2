---------------------------- MODULE OneTimeGrant ----------------------------
(***************************************************************************)
(* What a consent gives: a grant is opened once, and ends without a key or *)
(* with exactly one, never with two and never after it ended.  There is no  *)
(* handler, no table and no failure here.                                  *)
(***************************************************************************)
CONSTANTS Grants, Keys, None

VARIABLES
  state, \* state[g]: "new", "open" or "over"
  key    \* key[g]: the key minted for g, None without one

vars == <<state, key>>

Init ==
  /\ state = [g \in Grants |-> "new"]
  /\ key = [g \in Grants |-> None]

Open(g) ==
  /\ state[g] = "new"
  /\ state' = [state EXCEPT ![g] = "open"]
  /\ UNCHANGED key

\* A step may close several grants: expired ones, those of a deleted client.
Close(S) ==
  /\ \A g \in S : state[g] # "over"
  /\ state' = [g \in Grants |-> IF g \in S THEN "over" ELSE state[g]]
  /\ UNCHANGED key

\* The key is one no other grant was given.
Mint(g, k) ==
  /\ state[g] = "open"
  /\ \A other \in Grants : key[other] # k
  /\ state' = [state EXCEPT ![g] = "over"]
  /\ key' = [key EXCEPT ![g] = k]

Next ==
  \/ \E g \in Grants : Open(g)
  \/ \E S \in SUBSET Grants : Close(S)
  \/ \E g \in Grants, k \in Keys : Mint(g, k)

Spec == Init /\ [][Next]_vars
=============================================================================
