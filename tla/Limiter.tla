-------------------------------- MODULE Limiter --------------------------------
(***************************************************************************)
(* The limiter of the authentication routes: a table in the memory of one  *)
(* process, a counter and the end of its window for each address and path. *)
(***************************************************************************)
EXTENDS Integers, FiniteSets

CONSTANTS
  Keys,         \* address and path
  Limit,        \* policy.limit
  TTL,          \* policy.ttl
  MaxBuckets,   \* the size of the table that calls for a sweep (10 000)
  Horizon,      \* the last moment, a bound for TLC
  MaxAttempts   \* attempts of one moment, a bound for TLC

VARIABLES
  now,            \* Date.now()
  authAttempts,   \* the table
  passed,         \* what was let through since the process started, up to each moment
  tried           \* attempts of this moment

vars == <<now, authAttempts, passed, tried>>

Quiet == [k \in Keys |-> [t \in 0 .. Horizon |-> 0]]
NoBucket == [count |-> 0, resetAt |-> 0]

Init ==
  /\ now = 1
  /\ authAttempts = [k \in {} |-> NoBucket]
  /\ passed = Quiet
  /\ tried = 0

\* The bucket of this attempt, before it counts.
Bucket(k) ==
  IF k \notin DOMAIN authAttempts \/ authAttempts[k].resetAt <= now
  THEN [count |-> 0, resetAt |-> now + TTL]
  ELSE authAttempts[k]

\* Mutant: the sweep keeps what has ended and drops what has not.
Swept_Live(table) ==
  LET kept == {k \in DOMAIN table : table[k].resetAt <= now}
  IN IF Cardinality(DOMAIN table) <= MaxBuckets THEN table ELSE [k \in kept |-> table[k]]

\* A table that is too large loses the buckets whose window has ended.
Swept(table) ==
  LET kept == {k \in DOMAIN table : table[k].resetAt > now}
  IN IF Cardinality(DOMAIN table) <= MaxBuckets THEN table ELSE [k \in kept |-> table[k]]

\* authRateLimit(): the attempt counts whether it passes or not.
Attempt(k) ==
  LET bucket == [Bucket(k) EXCEPT !.count = @ + 1]
      table == [j \in DOMAIN authAttempts \cup {k} |->
                  IF j = k THEN bucket ELSE authAttempts[j]]
  IN /\ tried < MaxAttempts /\ tried' = tried + 1
     /\ authAttempts' = Swept(table)
     /\ passed' = IF bucket.count <= Limit
                  THEN [passed EXCEPT ![k] = [t \in 0 .. Horizon |->
                                                IF t < now THEN @[t] ELSE @[t] + 1]]
                  ELSE passed
     /\ UNCHANGED now

Tick ==
  /\ now < Horizon /\ now' = now + 1
  /\ tried' = 0
  /\ UNCHANGED <<authAttempts, passed>>

\* A restart forgets the table.
Restart ==
  /\ authAttempts' = [k \in {} |-> NoBucket]
  /\ passed' = Quiet
  /\ UNCHANGED <<now, tried>>

Next ==
  \/ \E k \in Keys : Attempt(k)
  \/ Tick \/ Restart

Spec == Init /\ [][Next]_vars

\* What a key was let through from s on, within the length of one window.
Within(k, s) ==
  LET end == s + TTL - 1
  IN passed[k][IF end > Horizon THEN Horizon ELSE end] - passed[k][s - 1]

\* However attempts, sweeps and windows fall, an address passes at most twice the
\* limit in the length of one window, which touches two buckets and no third; and
\* it is refused only once Limit of its own attempts passed in its bucket: those of
\* others, and the sweep, are never charged to it.
LimitHolds ==
  /\ \A k \in Keys, s \in 1 .. Horizon : Within(k, s) <= 2 * Limit
  /\ \A k \in DOMAIN authAttempts :
       LET bucket == authAttempts[k]
           got == Within(k, bucket.resetAt - TTL)
       IN bucket.resetAt > now =>
            got = IF bucket.count < Limit THEN bucket.count ELSE Limit

------------------------------------------------------------------------------
(* The inductive invariant behind the theorem of BackstageProofs *)

\* The counts P of one key up to each moment only grow, and not beyond the present n.
Counted(P, n) ==
  /\ P \in [0 .. Horizon -> Nat]
  /\ \A t \in 0 .. Horizon :
       /\ \A s \in 0 .. t : P[s] <= P[t]
       /\ t >= n => P[t] = P[n]

\* Of any window, over or not, at most twice the limit.
Twice(P) ==
  \A s \in 1 .. Horizon :
    P[IF s + TTL - 1 > Horizon THEN Horizon ELSE s + TTL - 1] - P[s - 1] <= 2 * Limit

\* A bucket counts what passed since it began, and in less than a window before that
\* at most Limit attempts passed.
InBucket(P, n, b) ==
  LET start == b.resetAt - TTL
  IN /\ start \in 1 .. n
     /\ P[n] - P[start - 1] = IF b.count < Limit THEN b.count ELSE Limit
     /\ \A s \in 1 .. start : s > start - TTL => P[start - 1] - P[s - 1] <= Limit

\* Without a bucket nothing passed at this moment, and at most Limit in the last window.
Unbucketed(P, n) ==
  /\ P[n] = P[n - 1]
  /\ \A s \in 1 .. n : s > n - TTL => P[n] - P[s - 1] <= Limit

Live(table, n, k) == k \in DOMAIN table /\ table[k].resetAt > n

Held(table, P, n, k) ==
  /\ Counted(P, n) /\ Twice(P)
  /\ Live(table, n, k) => InBucket(P, n, table[k])
  /\ ~Live(table, n, k) => Unbucketed(P, n)

LimiterInv ==
  /\ now \in 1 .. Horizon
  /\ DOMAIN authAttempts \subseteq Keys
  /\ \A k \in DOMAIN authAttempts : authAttempts[k] \in [count : Nat, resetAt : Int]
  /\ DOMAIN passed = Keys
  /\ \A k \in Keys : Held(authAttempts, passed[k], now, k)
===============================================================================
