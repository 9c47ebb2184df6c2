----------------------------- MODULE RateLimit ------------------------------
(***************************************************************************)
(* The fixed-window limiter of one instance of the API.  Allow runs under  *)
(* a mutex, so it is one step; the clock is monotonic.                     *)
(***************************************************************************)
EXTENDS Integers

CONSTANTS
  Callers,   \* client keys
  PerClient, \* calls of one caller in a window
  Total,     \* calls of all callers in a window
  Window,    \* length of a window
  MaxTime    \* bound on the clock

VARIABLES
  now,         \* the clock
  windowStart, \* when the current window began
  counts,      \* counts[k]: calls of k in it
  used,        \* calls in it
  admitted,    \* admitted[k][t]: ghost, calls of k let through up to time t
  everyone     \* everyone[t]: ghost, calls of all callers let through up to time t

vars == <<now, windowStart, counts, used, admitted, everyone>>

Times == 0..MaxTime
Histories == [-1..MaxTime -> Nat]
NoCalls == [k \in Callers |-> 0]

\* The zero time is further back than any window.
Init ==
  /\ now = 0
  /\ windowStart = -Window
  /\ counts = NoCalls
  /\ used = 0
  /\ admitted = [k \in Callers |-> [t \in -1..MaxTime |-> 0]]
  /\ everyone = [t \in -1..MaxTime |-> 0]

Tick ==
  /\ now < MaxTime
  /\ now' = now + 1
  /\ UNCHANGED <<windowStart, counts, used, admitted, everyone>>

Over == now - windowStart >= Window

\* Mutant: the calls of all callers are not looked at.
FullForOne(k) == ~Over /\ counts[k] >= PerClient

Full(k) == ~Over /\ (used >= Total \/ counts[k] >= PerClient)

\* A history with one more call, now.
OneMore(h) == [t \in -1..MaxTime |-> IF t < now THEN h[t] ELSE h[t] + 1]

Accept(k) ==
  /\ ~Full(k)
  /\ windowStart' = IF Over THEN now ELSE windowStart
  /\ counts' = [(IF Over THEN NoCalls ELSE counts) EXCEPT ![k] = @ + 1]
  /\ used' = IF Over THEN 1 ELSE used + 1
  /\ admitted' = [admitted EXCEPT ![k] = OneMore(@)]
  /\ everyone' = OneMore(everyone)
  /\ UNCHANGED now

\* 429; nothing is counted.
Refuse(k) ==
  /\ Full(k)
  /\ UNCHANGED vars

Next == Tick \/ \E k \in Callers : Accept(k) \/ Refuse(k)

Spec == Init /\ [][Next]_vars

-----------------------------------------------------------------------------
\* The variables hold values of the kinds the code gives them.
TypeOK ==
  /\ now \in Times
  /\ windowStart \in -Window..now
  /\ counts \in [Callers -> 0..PerClient]
  /\ used \in 0..Total
  /\ admitted \in [Callers -> Histories] /\ everyone \in Histories

\* The calls of a history at times t..u.
Within(h, t, u) == h[u] - h[t - 1]

\* Stretches no longer than a window.
Stretches == {s \in Times \X Times : s[1] <= s[2] /\ s[2] < s[1] + Window}

\* Whatever the arrival of calls, no stretch as long as a window lets through
\* more than twice the limit of a caller, or twice that of the instance.
BurstIsBounded ==
  \A s \in Stretches :
    /\ \A k \in Callers : Within(admitted[k], s[1], s[2]) <= 2 * PerClient
    /\ Within(everyone, s[1], s[2]) <= 2 * Total

\* A caller is refused only after the limit went out within the last window: a
\* window that is over never holds anyone back.
RefusedForRecentCalls ==
  \A k \in Callers : Full(k) =>
    \E t \in Times :
      /\ now - Window < t /\ t <= now
      /\ Within(admitted[k], t, now) >= PerClient \/ Within(everyone, t, now) >= Total
=============================================================================
