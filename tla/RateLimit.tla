------------------------------- MODULE RateLimit -------------------------------
(***************************************************************************)
(* RateLimitStore of the API server: a fixed window per key, and a lockout *)
(* whose length doubles from one lockout to the next.  The guard calls     *)
(* check once per request, synchronously; its four outcomes are the four   *)
(* actions on a key.  A key is the guard's string of endpoint, address and *)
(* identity, and an endpoint's limit and window are constants.             *)
(*                                                                         *)
(* granted and lockout are not in the code: they record what the store has *)
(* answered, so that the properties speak of requests and not of counters. *)
(***************************************************************************)
EXTENDS Naturals, Sequences

CONSTANTS
  Keys,           \* keys of buckets
  Limit,          \* requests per window
  Window,         \* length of a window
  MaxExponent,    \* the largest exponent of the backoff (10 in the code)
  Horizon         \* bound: the clock

ASSUME RateAssumption ==
  /\ Limit \in Nat \ {0} /\ Window \in Nat \ {0}
  /\ MaxExponent \in Nat \ {0} /\ Horizon \in Nat

VARIABLES
  now,            \* Date.now()
  bucket,         \* the bucket of each key, or NoBucket
  granted,        \* per key, when its last 2 * Limit allowed requests came, since the
                  \* last reset of the key or restart
  lockout         \* per key, the last lockout since then and the windows opened after it

vars == <<now, bucket, granted, lockout>>

Time     == 0 .. Horizon
NoBucket == [count |-> 0]
Never    == 0      \* blockedUntil is undefined
NoLockout == [until |-> 0, length |-> 0, windows |-> 0]

\* 2 ** n.
Doublings[n \in Nat] == IF n = 0 THEN 1 ELSE 2 * Doublings[n - 1]

Backoff(streak) ==
  Window * Doublings[IF streak < MaxExponent THEN streak ELSE MaxExponent]

Bucket == [count : 1 .. Limit + 1, windowStartedAt : Time, blockedUntil : Nat,
           violationStreak : Nat]

TypeOK ==
  /\ now \in Time
  /\ bucket \in [Keys -> Bucket \cup {NoBucket}]
  /\ granted \in [Keys -> Seq(Time)]
  /\ lockout \in [Keys -> [until : Nat, length : Nat, windows : Nat]]

Init ==
  /\ now = 0
  /\ bucket = [k \in Keys |-> NoBucket]
  /\ granted = [k \in Keys |-> << >>]
  /\ lockout = [k \in Keys |-> NoLockout]

-------------------------------------------------------------------------------
\* check(key, limit, windowMs, now).

Blocked(k) == bucket[k] # NoBucket /\ bucket[k].blockedUntil > now

WindowExpired(k) ==
  bucket[k] # NoBucket => now >= bucket[k].windowStartedAt + Window

\* The record with one more granted request; the oldest goes when it is full.
Recorded(g, t) == Append(IF Len(g) < 2 * Limit THEN g ELSE Tail(g), t)

Grant(k) == granted' = [granted EXCEPT ![k] = Recorded(@, now)]

\* Locked out: the bucket is left as it is.
Refuse(k) ==
  /\ Blocked(k)
  /\ UNCHANGED vars

\* Operators named Bug_ are faulty variants of the definition that follows them:
\* a slip the code could have, which a property must notice.  No action uses them.
\* Here: the memory of earlier lockouts ends with the window.
Bug_ForgetStreak(k) ==
  /\ ~Blocked(k) /\ WindowExpired(k)
  /\ bucket' = [bucket EXCEPT ![k] =
       [count |-> 1, windowStartedAt |-> now, blockedUntil |-> Never,
        violationStreak |-> 0]]
  /\ Grant(k)
  /\ lockout' = [lockout EXCEPT ![k].windows = IF @ < 2 THEN @ + 1 ELSE @]
  /\ UNCHANGED now

\* The first request of a window is not counted.
Bug_OpenAtZero(k) ==
  /\ ~Blocked(k) /\ WindowExpired(k)
  /\ LET clean == bucket[k] # NoBucket => bucket[k].blockedUntil = Never IN
     bucket' = [bucket EXCEPT ![k] =
       [count |-> 0, windowStartedAt |-> now, blockedUntil |-> Never,
        violationStreak |-> IF clean THEN 0 ELSE bucket[k].violationStreak]]
  /\ Grant(k)
  /\ lockout' = [lockout EXCEPT ![k].windows = IF @ < 2 THEN @ + 1 ELSE @]
  /\ UNCHANGED now

\* A new window; the streak survives unless the previous window was clean.
OpenWindow(k) ==
  /\ ~Blocked(k) /\ WindowExpired(k)
  /\ LET clean == bucket[k] # NoBucket => bucket[k].blockedUntil = Never IN
     bucket' = [bucket EXCEPT ![k] =
       [count |-> 1, windowStartedAt |-> now, blockedUntil |-> Never,
        violationStreak |-> IF clean THEN 0 ELSE bucket[k].violationStreak]]
  /\ Grant(k)
  /\ lockout' = [lockout EXCEPT ![k].windows = IF @ < 2 THEN @ + 1 ELSE @]
  /\ UNCHANGED now

CountRequest(k) ==
  /\ ~Blocked(k) /\ ~WindowExpired(k) /\ bucket[k].count < Limit
  /\ bucket' = [bucket EXCEPT ![k].count = @ + 1]
  /\ Grant(k)
  /\ UNCHANGED <<now, lockout>>

\* blockedUntil is set from the start of the window.
Bug_LockFromWindow(k) ==
  /\ ~Blocked(k) /\ ~WindowExpired(k) /\ bucket[k].count >= Limit
  /\ LET streak == bucket[k].violationStreak + 1 IN
     /\ bucket' = [bucket EXCEPT ![k] =
          [bucket[k] EXCEPT !.count = @ + 1,
                            !.violationStreak = streak,
                            !.blockedUntil = bucket[k].windowStartedAt + Backoff(streak)]]
     /\ lockout' = [lockout EXCEPT ![k] =
          [until |-> now + Backoff(streak), length |-> Backoff(streak), windows |-> 0]]
  /\ UNCHANGED <<now, granted>>

\* One request too many: the streak grows and decides the length of the lockout.
LockOut(k) ==
  /\ ~Blocked(k) /\ ~WindowExpired(k) /\ bucket[k].count >= Limit
  /\ LET streak == bucket[k].violationStreak + 1 IN
     /\ bucket' = [bucket EXCEPT ![k] =
          [bucket[k] EXCEPT !.count = @ + 1,
                            !.violationStreak = streak,
                            !.blockedUntil = now + Backoff(streak)]]
     /\ lockout' = [lockout EXCEPT ![k] =
          [until |-> now + Backoff(streak), length |-> Backoff(streak), windows |-> 0]]
  /\ UNCHANGED <<now, granted>>

-------------------------------------------------------------------------------
\* reset(key), and the restart of the process, which empties the store.
Forget(S) ==
  /\ bucket' = [k \in Keys |-> IF k \in S THEN NoBucket ELSE bucket[k]]
  /\ granted' = [k \in Keys |-> IF k \in S THEN << >> ELSE granted[k]]
  /\ lockout' = [k \in Keys |-> IF k \in S THEN NoLockout ELSE lockout[k]]
  /\ UNCHANGED now

Reset(k) == bucket[k] # NoBucket /\ Forget({k})
Restart  == (\E k \in Keys : bucket[k] # NoBucket) /\ Forget(Keys)

\* Time passes.
Tick ==
  /\ now < Horizon
  /\ now' = now + 1
  /\ UNCHANGED <<bucket, granted, lockout>>

Next ==
  \/ \E k \in Keys :
       \/ Refuse(k) \/ OpenWindow(k) \/ CountRequest(k) \/ LockOut(k) \/ Reset(k)
  \/ Restart
  \/ Tick

Spec == Init /\ [][Next]_vars

-------------------------------------------------------------------------------
\* Fixed windows let a client gather two of them around a boundary, but no more: of
\* any 2 * Limit granted requests in a row with no reset of the key and no restart
\* between them, the last comes a window's length or more after the first, however
\* requests and lockouts are spread (rate-limit.store.ts:60-83).  A reset or a restart
\* empties the bucket, and another 2 * Limit may follow at once.
BurstBound ==
  \A k \in Keys : Len(granted[k]) = 2 * Limit =>
    granted[k][1] + Window <= granted[k][2 * Limit]

\* No request is granted before the end of the last lockout that was announced for
\* the key since its last reset or a restart, and a client that waits as long as it
\* was told is granted its next request: until it has asked at that moment, the window
\* is over (rate-limit.store.ts:56-60, retryAfterMs).
RetryAfterHolds ==
  \A k \in Keys : lockout[k].until > 0 =>
    /\ now < lockout[k].until => Blocked(k)
    /\ now = lockout[k].until =>
         ~Blocked(k) /\ (WindowExpired(k) \/ granted[k][Len(granted[k])] = now)

\* A lockout that follows another with no clean window, reset or restart in between is
\* twice as long, up to the cap; otherwise the length starts over.
Proportionate(k) ==
  lockout'[k].length =
    IF lockout[k].length # 0 /\ lockout[k].windows = 1
      THEN IF lockout[k].length = Backoff(MaxExponent) THEN lockout[k].length
           ELSE 2 * lockout[k].length
      ELSE 2 * Window

\* Only a client that exceeds the limit is locked out: at that moment it has had Limit
\* requests granted in less than a window's length, none of them before a reset or a
\* restart; and the lockout is proportionate (rate-limit.store.ts:33-41, 60-75, "it
\* only resets when a window completes WITHOUT any violation").
LockoutsFair ==
  [][\A k \in Keys : lockout'[k].length # 0 /\ lockout'[k].until # lockout[k].until =>
       /\ Len(granted[k]) >= Limit
       /\ granted[k][Len(granted[k]) - Limit + 1] + Window > now
       /\ Proportionate(k)]_vars
===============================================================================
