---------------------------- MODULE RateLimit_proofs ----------------------------
(***************************************************************************)
(* Proofs about RateLimit: for every limit, window, cap of the backoff and *)
(* number of keys, what the store grants is bounded, and a lockout has a   *)
(* cause, a fair length and the end that was announced.                    *)
(***************************************************************************)
EXTENDS RateLimit, WellFoundedInduction, SequenceTheorems, TLAPS

\* Induction, for sets: a set that has 0 and the successor of each of its members
\* has every natural number.
LEMMA Inductive ==
  ASSUME NEW S, 0 \in S, \A n \in Nat : n \in S => n + 1 \in S
  PROVE  Nat \subseteq S
<1> DEFINE less == {p \in Nat \X Nat : p[1] < p[2]}
           T == Nat \ S
<1>1. IsWellFoundedOn(less, Nat)
  BY NatLessThanWellFounded DEF OpToRel
<1>2. SUFFICES ASSUME T # {} PROVE FALSE
  BY DEF T
<1>3. PICK x \in T : \A y \in T : ~ (<<y, x>> \in less)
  <2> HIDE DEF T, less
  <2>1. T \subseteq Nat
    BY DEF T
  <2> QED
    BY <1>1, <1>2, <2>1, WFMin
<1>4. x - 1 \in Nat /\ <<x - 1, x>> \in less
  BY <1>3
<1>5. x - 1 \in S
  BY <1>3, <1>4
<1> QED
  BY <1>3, <1>4, <1>5

-------------------------------------------------------------------------------
\* Doublings is a recursive function, so its equation is proved from approximations:
\* the functions on 0 .. n that satisfy it.
Approx(n) == {f \in [0 .. n -> Nat] :
                f[0] = 1 /\ \A i \in 1 .. n : f[i] = 2 * f[i - 1]}

LEMMA ApproxExists == \A n \in Nat : Approx(n) # {}
<1> DEFINE S == {n \in Nat : Approx(n) # {}}
<1>1. 0 \in S
  <2>1. [i \in 0 .. 0 |-> 1] \in Approx(0)
    BY DEF Approx
  <2> QED
    BY <2>1
<1>2. ASSUME NEW n \in Nat, n \in S
      PROVE  n + 1 \in S
  <2>1. PICK f \in Approx(n) : TRUE
    BY <1>2
  <2> DEFINE g == [i \in 0 .. n + 1 |-> IF i = n + 1 THEN 2 * f[n] ELSE f[i]]
  <2>2. f \in [0 .. n -> Nat] /\ f[0] = 1 /\ \A i \in 1 .. n : f[i] = 2 * f[i - 1]
    BY <2>1 DEF Approx
  <2>3. g \in [0 .. n + 1 -> Nat]
    BY <2>2
  <2>4. g[0] = 1
    BY <2>2
  <2>5. ASSUME NEW i \in 1 .. n + 1
        PROVE  g[i] = 2 * g[i - 1]
    BY <2>2
  <2>6. g \in Approx(n + 1)
    <3> HIDE DEF g
    <3> QED
      BY <2>3, <2>4, <2>5 DEF Approx
  <2> QED
    BY <2>6
<1>3. Nat \subseteq S
  <2> HIDE DEF S
  <2> QED
    BY <1>1, <1>2, Inductive
<1> QED
  BY <1>3

\* Two approximations agree where both are defined.
LEMMA ApproxAgree ==
  ASSUME NEW m \in Nat, NEW n \in Nat, NEW f \in Approx(m), NEW g \in Approx(n)
  PROVE  \A i \in Nat : i <= m /\ i <= n => f[i] = g[i]
<1> DEFINE S == {i \in Nat : i <= m /\ i <= n => f[i] = g[i]}
<1>1. /\ f \in [0 .. m -> Nat] /\ f[0] = 1 /\ \A i \in 1 .. m : f[i] = 2 * f[i - 1]
      /\ g \in [0 .. n -> Nat] /\ g[0] = 1 /\ \A i \in 1 .. n : g[i] = 2 * g[i - 1]
  BY DEF Approx
<1>2. 0 \in S
  BY <1>1
<1>3. ASSUME NEW i \in Nat, i \in S
      PROVE  i + 1 \in S
  BY <1>1, <1>3
<1>4. Nat \subseteq S
  <2> HIDE DEF S
  <2> QED
    BY <1>2, <1>3, Inductive
<1> QED
  BY <1>4

LEMMA DoublingsDef ==
  Doublings = [n \in Nat |-> IF n = 0 THEN 1 ELSE 2 * Doublings[n - 1]]
<1> DEFINE a(n) == CHOOSE f \in Approx(n) : TRUE
           h == [n \in Nat |-> a(n)[n]]
<1>1. \A n \in Nat : a(n) \in Approx(n)
  BY ApproxExists
<1>2. ASSUME NEW n \in Nat
      PROVE  h[n] = IF n = 0 THEN 1 ELSE 2 * h[n - 1]
  <2>1. CASE n = 0
    BY <1>1, <2>1 DEF Approx
  <2>2. CASE n # 0
    <3>1. n - 1 \in Nat /\ n \in 1 .. n
      BY <2>2
    <3>2. a(n)[n] = 2 * a(n)[n - 1]
      <4> HIDE DEF a
      <4> QED
        BY <1>1, <3>1 DEF Approx
    <3>3. a(n)[n - 1] = a(n - 1)[n - 1]
      <4> HIDE DEF a
      <4>1. a(n) \in Approx(n) /\ a(n - 1) \in Approx(n - 1)
        BY <1>1, <3>1
      <4>2. \A i \in Nat : i <= n /\ i <= n - 1 => a(n)[i] = a(n - 1)[i]
        BY <3>1, <4>1, ApproxAgree
      <4> QED
        BY <3>1, <4>2
    <3>4. h[n] = a(n)[n] /\ h[n - 1] = a(n - 1)[n - 1]
      BY <3>1
    <3> HIDE DEF h, a
    <3> QED
      BY <2>2, <3>2, <3>3, <3>4
  <2> QED
    BY <2>1, <2>2
<1>3. h = [n \in Nat |-> IF n = 0 THEN 1 ELSE 2 * h[n - 1]]
  <2>1. h = [n \in Nat |-> h[n]]
    OBVIOUS
  <2> HIDE DEF h
  <2> QED
    BY <1>2, <2>1
<1> HIDE DEF h
<1> QED
  BY <1>3 DEF Doublings

LEMMA DoublingsType == Doublings \in [Nat -> Nat \ {0}]
<1> DEFINE S == {n \in Nat : Doublings[n] \in Nat \ {0}}
<1>1. \A n \in Nat : Doublings[n] = IF n = 0 THEN 1 ELSE 2 * Doublings[n - 1]
  BY DoublingsDef
<1>2. 0 \in S
  BY <1>1
<1>3. ASSUME NEW n \in Nat, n \in S
      PROVE  n + 1 \in S
  BY <1>1, <1>3
<1>4. Nat \subseteq S
  <2> HIDE DEF S
  <2> QED
    BY <1>2, <1>3, Inductive
<1>5. Doublings = [n \in Nat |-> Doublings[n]]
  BY DoublingsDef
<1> QED
  BY <1>4, <1>5

LEMMA DoublingsStep ==
  ASSUME NEW n \in Nat
  PROVE  Doublings[n + 1] = 2 * Doublings[n]
BY DoublingsDef

LEMMA DoublingsGrow ==
  ASSUME NEW m \in Nat
  PROVE  \A n \in Nat : m < n => Doublings[m] < Doublings[n]
<1> DEFINE S == {n \in Nat : m < n => Doublings[m] < Doublings[n]}
<1>1. 0 \in S
  OBVIOUS
<1>2. ASSUME NEW n \in Nat, n \in S
      PROVE  n + 1 \in S
  <2>1. Doublings[n + 1] = 2 * Doublings[n]
    BY DoublingsStep
  <2>2. Doublings[n] \in Nat \ {0} /\ Doublings[m] \in Nat
    BY DoublingsType
  <2>3. m < n + 1 => m < n \/ m = n
    OBVIOUS
  <2>4. m < n => Doublings[m] < Doublings[n]
    BY <1>2
  <2>5. m < n + 1 => Doublings[m] < Doublings[n + 1]
    BY <2>1, <2>2, <2>3, <2>4
  <2> QED
    BY <2>5
<1>3. Nat \subseteq S
  <2> HIDE DEF S
  <2> QED
    BY <1>1, <1>2, Inductive
<1> QED
  BY <1>3

-------------------------------------------------------------------------------
\* Longer streaks have longer lockouts, up to the cap.
LEMMA BackoffType ==
  ASSUME NEW n \in Nat
  PROVE  Backoff(n) \in Nat /\ Backoff(n) >= Window
<1> DEFINE e == IF n < MaxExponent THEN n ELSE MaxExponent
<1>1. e \in Nat
  BY RateAssumption
<1>2. Doublings[e] \in Nat \ {0}
  BY <1>1, DoublingsType
<1>3. \A w, d \in Nat \ {0} : w * d \in Nat /\ w * d >= w
  OBVIOUS
<1> HIDE DEF e
<1>4. Window * Doublings[e] \in Nat /\ Window * Doublings[e] >= Window
  BY <1>2, <1>3, RateAssumption
<1> QED
  BY <1>4 DEF Backoff, e

LEMMA BackoffDoubles ==
  ASSUME NEW n \in Nat, n < MaxExponent
  PROVE  Backoff(n + 1) = 2 * Backoff(n) /\ Backoff(n) # Backoff(MaxExponent)
<1>1. Doublings[n] \in Nat \ {0} /\ Doublings[MaxExponent] \in Nat \ {0}
  BY DoublingsType, RateAssumption
<1>2. Doublings[n + 1] = 2 * Doublings[n]
  BY DoublingsStep
<1>3. Doublings[n] < Doublings[MaxExponent]
  BY DoublingsGrow, RateAssumption
<1>4. /\ Backoff(n) = Window * Doublings[n]
      /\ Backoff(n + 1) = Window * Doublings[n + 1]
      /\ Backoff(MaxExponent) = Window * Doublings[MaxExponent]
  <2>1. n + 1 < MaxExponent \/ n + 1 = MaxExponent
    BY RateAssumption
  <2>2. ~ (MaxExponent < MaxExponent)
    BY RateAssumption
  <2> QED
    BY <2>1, <2>2 DEF Backoff
<1>5. \A w, c, d \in Nat \ {0} :
        w * (2 * c) = 2 * (w * c) /\ (c < d => w * c # w * d)
  OBVIOUS
<1> QED
  BY <1>1, <1>2, <1>3, <1>4, <1>5, RateAssumption

LEMMA BackoffCapped ==
  ASSUME NEW n \in Nat, ~ (n < MaxExponent)
  PROVE  Backoff(n) = Backoff(MaxExponent) /\ Backoff(n + 1) = Backoff(MaxExponent)
BY RateAssumption DEF Backoff

LEMMA BackoffFirst == Backoff(1) = 2 * Window
<1>1. Doublings[0] = 1 /\ Doublings[1] = 2 * Doublings[0]
  BY DoublingsDef
<1>2. (IF 1 < MaxExponent THEN 1 ELSE MaxExponent) = 1
  BY RateAssumption
<1> QED
  BY <1>1, <1>2, RateAssumption DEF Backoff

-------------------------------------------------------------------------------
\* The invariant, key by key.  Of the grants in the record, the last m came in the
\* window that started at s and opened it at s; what came before came no later than
\* s, and all but the last Limit - 1 of that at least a window's length before s.
Fits(g, m, s) ==
  /\ Len(g) <= 2 * Limit /\ m \in 1 .. Limit /\ m <= Len(g)
  /\ \A i \in DOMAIN g :
       /\ i <= Len(g) - m + 1 => g[i] <= s
       /\ i <= Len(g) - m - Limit + 1 => g[i] + Window <= s
       /\ i > Len(g) - m => s <= g[i]

\* The count goes past Limit with the request that starts a lockout.
Counted(k) == IF bucket[k].count <= Limit THEN bucket[k].count ELSE Limit

Windowed(k) ==
  /\ bucket[k] = NoBucket => granted[k] = << >> /\ lockout[k] = NoLockout
  /\ bucket[k] # NoBucket =>
       /\ bucket[k].windowStartedAt <= now
       /\ Fits(granted[k], Counted(k), bucket[k].windowStartedAt)
       /\ \A i \in DOMAIN granted[k] : granted[k][i] <= now
       /\ bucket[k].blockedUntil = Never => bucket[k].count <= Limit

\* What the bucket remembers of the last lockout: its end while no window has been
\* opened since, its length (as a streak) as long as the next window is not over.
Remembered(k) ==
  bucket[k] # NoBucket =>
    /\ lockout[k].length = 0 =>
         /\ lockout[k].until = 0 /\ bucket[k].blockedUntil = Never
         /\ bucket[k].violationStreak = 0
    /\ lockout[k].length # 0 =>
         /\ lockout[k].until # 0
         /\ lockout[k].windows = 0 =>
              /\ bucket[k].blockedUntil = lockout[k].until
              /\ bucket[k].windowStartedAt + Window <= lockout[k].until
         /\ lockout[k].windows # 0 =>
              /\ bucket[k].blockedUntil = Never
              /\ lockout[k].until <= bucket[k].windowStartedAt
         /\ lockout[k].windows < 2 => lockout[k].length = Backoff(bucket[k].violationStreak)
         /\ lockout[k].windows >= 2 => bucket[k].violationStreak = 0

IInv == TypeOK /\ \A k \in Keys : Windowed(k) /\ Remembered(k)

\* What Recorded returns: the old record moved by d places, and the new entry.
Moved(g, t, d, S) ==
  /\ Recorded(g, t) \in Seq(S)
  /\ Len(Recorded(g, t)) = Len(g) + 1 - d
  /\ Len(Recorded(g, t)) <= 2 * Limit
  /\ d = 1 => Len(g) = 2 * Limit
  /\ Recorded(g, t)[Len(g) + 1 - d] = t
  /\ \A i \in 1 .. Len(g) - d : Recorded(g, t)[i] = g[i + d]

LEMMA RecordedEntries ==
  ASSUME NEW S, NEW g \in Seq(S), NEW t \in S, Len(g) <= 2 * Limit
  PROVE  \E d \in {0, 1} : Moved(g, t, d, S)
<1>1. Len(g) \in Nat /\ 2 * Limit \in Nat \ {0}
  BY RateAssumption
<1>2. CASE Len(g) < 2 * Limit
  <2>1. Recorded(g, t) = Append(g, t)
    BY <1>2 DEF Recorded
  <2>2. Moved(g, t, 0, S)
    BY <1>1, <1>2, <2>1 DEF Moved
  <2> QED
    BY <2>2
<1>3. CASE ~ (Len(g) < 2 * Limit)
  <2>1. Len(g) = 2 * Limit /\ g # << >>
    BY <1>1, <1>3
  <2>2. Recorded(g, t) = Append(Tail(g), t)
    BY <1>3 DEF Recorded
  <2>3. /\ Tail(g) \in Seq(S) /\ Len(Tail(g)) = Len(g) - 1
        /\ \A i \in 1 .. Len(g) - 1 : Tail(g)[i] = g[i + 1]
    BY <2>1
  <2>4. /\ Append(Tail(g), t) \in Seq(S) /\ Len(Append(Tail(g), t)) = Len(g)
        /\ Append(Tail(g), t)[Len(g)] = t
        /\ \A i \in 1 .. Len(g) - 1 : Append(Tail(g), t)[i] = g[i + 1]
    BY <1>1, <2>3
  <2>5. Moved(g, t, 1, S)
    BY <1>1, <2>1, <2>2, <2>4 DEF Moved
  <2> QED
    BY <2>5
<1> QED
  BY <1>2, <1>3

\* The first request of a key, the first of a later window, and one more in a window.
LEMMA FitsFirst ==
  ASSUME NEW t \in Nat
  PROVE  Fits(Recorded(<< >>, t), 1, t)
<1>1. Recorded(<< >>, t) = <<t>>
  BY RateAssumption DEF Recorded
<1>2. 1 <= 2 * Limit /\ 1 \in 1 .. Limit /\ 1 - 1 - Limit + 1 < 1
  BY RateAssumption
<1> DEFINE r == <<t>>
<1>3. Len(r) = 1 /\ DOMAIN r = {1} /\ r[1] = t
  OBVIOUS
<1> HIDE DEF r
<1>4. Fits(r, 1, t)
  BY <1>2, <1>3, RateAssumption DEF Fits
<1> QED
  BY <1>1, <1>4 DEF r

LEMMA FitsOpened ==
  ASSUME NEW g \in Seq(Nat), NEW m \in Nat, NEW s \in Nat, Fits(g, m, s),
         NEW t \in Nat, s + Window <= t, \A i \in DOMAIN g : g[i] <= t
  PROVE  Fits(Recorded(g, t), 1, t)
<1>1. /\ Len(g) \in Nat /\ Len(g) <= 2 * Limit /\ m \in 1 .. Limit
      /\ \A i \in 1 .. Len(g) : g[i] \in Nat /\ g[i] <= t
      /\ \A i \in 1 .. Len(g) : i <= Len(g) - m + 1 => g[i] <= s
  BY DEF Fits
<1>a. PICK d \in {0, 1} : Moved(g, t, d, Nat)
  BY <1>1, RecordedEntries
<1> DEFINE r == Recorded(g, t)
<1>2. /\ r \in Seq(Nat) /\ Len(r) \in Nat
      /\ Len(r) = Len(g) + 1 - d /\ Len(r) <= 2 * Limit
      /\ d = 1 => Len(g) = 2 * Limit
      /\ r[Len(r)] = t
      /\ \A i \in 1 .. Len(g) - d : r[i] = g[i + d]
  BY <1>a DEF Moved
<1> HIDE DEF r
<1>3. Len(r) <= 2 * Limit /\ 1 <= Len(r) /\ 1 \in 1 .. Limit
  BY <1>1, <1>2, RateAssumption
<1>4. ASSUME NEW i \in 1 .. Len(r)
      PROVE  /\ r[i] <= t
             /\ i <= Len(r) - Limit => r[i] + Window <= t
             /\ i > Len(r) - 1 => t <= r[i]
  <2>1. CASE i = Len(r)
    BY <1>2, <2>1, RateAssumption
  <2>2. CASE i < Len(r)
    <3> DEFINE n == Len(g)
               l == Len(r)
    <3>a. n \in Nat /\ d \in Nat /\ l = n + 1 - d /\ i \in Nat /\ 1 <= i /\ i < l
      BY <1>1, <1>2, <2>2
    <3> HIDE DEF n, l
    <3>b. i \in 1 .. n - d /\ i + d \in 1 .. n
      BY <3>a
    <3>1. i \in 1 .. Len(g) - d /\ i + d \in 1 .. Len(g)
      BY <3>b DEF n
    <3>2. r[i] = g[i + d] /\ g[i + d] \in Nat /\ g[i + d] <= t
      BY <1>1, <1>2, <3>1
    <3>3. i <= Len(r) - Limit => i + d <= Len(g) - m + 1
      <4>1. m \in Nat /\ m <= Limit
        BY <1>1, RateAssumption
      <4>2. i <= l - Limit => i + d <= n - m + 1
        BY <3>a, <4>1, RateAssumption
      <4> QED
        BY <4>2 DEF l, n
    <3>4. i + d <= Len(g) - m + 1 => g[i + d] <= s
      BY <1>1, <3>1
    <3>c. g[i + d] <= s => g[i + d] + Window <= t
      BY <3>2, RateAssumption
    <3>5. i <= Len(r) - Limit => g[i + d] + Window <= t
      BY <3>3, <3>4, <3>c
    <3>6. ~ (i > Len(r) - 1)
      BY <1>2, <2>2
    <3> QED
      BY <3>2, <3>5, <3>6
  <2> QED
    BY <1>2, <2>1, <2>2
<1>5. DOMAIN r = 1 .. Len(r) /\ Len(r) \in Nat
  BY <1>2
<1>6. Len(r) - 1 + 1 = Len(r) /\ Len(r) - 1 - Limit + 1 = Len(r) - Limit
  BY <1>5, RateAssumption
<1> HIDE DEF r
<1> QED
  BY <1>3, <1>4, <1>5, <1>6 DEF Fits, r

LEMMA FitsCounted ==
  ASSUME NEW g \in Seq(Nat), NEW m \in Nat, NEW s \in Nat, Fits(g, m, s), m < Limit,
         NEW t \in Nat, s <= t
  PROVE  Fits(Recorded(g, t), m + 1, s)
<1>1. /\ Len(g) \in Nat /\ Len(g) <= 2 * Limit /\ m \in 1 .. Limit /\ m <= Len(g)
      /\ \A i \in 1 .. Len(g) :
           /\ g[i] \in Nat
           /\ i <= Len(g) - m + 1 => g[i] <= s
           /\ i <= Len(g) - m - Limit + 1 => g[i] + Window <= s
           /\ i > Len(g) - m => s <= g[i]
  BY DEF Fits
<1>a. PICK d \in {0, 1} : Moved(g, t, d, Nat)
  BY <1>1, RecordedEntries
<1> DEFINE r == Recorded(g, t)
<1>2. /\ r \in Seq(Nat) /\ Len(r) \in Nat
      /\ Len(r) = Len(g) + 1 - d /\ Len(r) <= 2 * Limit
      /\ d = 1 => Len(g) = 2 * Limit
      /\ r[Len(r)] = t
      /\ \A i \in 1 .. Len(g) - d : r[i] = g[i + d]
  BY <1>a DEF Moved
<1> HIDE DEF r
<1>3. Len(r) <= 2 * Limit /\ m + 1 <= Len(r) /\ m + 1 \in 1 .. Limit
  BY <1>1, <1>2, RateAssumption
<1>4. ASSUME NEW i \in 1 .. Len(r)
      PROVE  /\ i <= Len(r) - (m + 1) + 1 => r[i] <= s
             /\ i <= Len(r) - (m + 1) - Limit + 1 => r[i] + Window <= s
             /\ i > Len(r) - (m + 1) => s <= r[i]
  <2> DEFINE n == Len(g)
             l == Len(r)
  <2>a. /\ n \in Nat /\ d \in Nat /\ l = n + 1 - d /\ m \in Nat /\ 1 <= m
        /\ i \in Nat /\ 1 <= i /\ i <= l
    BY <1>1, <1>2
  <2> HIDE DEF n, l
  <2>1. CASE i = Len(r)
    <3>1. r[i] = t
      BY <1>2, <2>1
    <3>2. i = l
      BY <2>1 DEF l
    <3>3. ~ (i <= l - (m + 1) + 1) /\ ~ (i <= l - (m + 1) - Limit + 1)
      BY <2>a, <3>2, RateAssumption
    <3> QED
      BY <3>1, <3>3 DEF l
  <2>2. CASE i < Len(r)
    <3>a. i < l
      BY <2>2 DEF l
    <3>b. i \in 1 .. n - d /\ i + d \in 1 .. n
      BY <2>a, <3>a
    <3>1. i \in 1 .. Len(g) - d /\ i + d \in 1 .. Len(g)
      BY <3>b DEF n
    <3>2. r[i] = g[i + d]
      BY <1>2, <3>1
    <3>3. /\ i + d <= Len(g) - m + 1 => g[i + d] <= s
          /\ i + d <= Len(g) - m - Limit + 1 => g[i + d] + Window <= s
          /\ i + d > Len(g) - m => s <= g[i + d]
      BY <1>1, <3>1
    <3>4. /\ i <= l - (m + 1) + 1 => i + d <= n - m + 1
          /\ i <= l - (m + 1) - Limit + 1 => i + d <= n - m - Limit + 1
          /\ i > l - (m + 1) => i + d > n - m
      BY <2>a, RateAssumption
    <3> QED
      BY <3>2, <3>3, <3>4 DEF l, n
  <2> QED
    BY <1>2, <2>1, <2>2
<1>5. DOMAIN r = 1 .. Len(r)
  BY <1>2
<1> HIDE DEF r
<1> QED
  BY <1>3, <1>4, <1>5 DEF Fits, r

-------------------------------------------------------------------------------
\* A bucket that exists has its fields.
LEMMA Fields ==
  ASSUME TypeOK, NEW k \in Keys, bucket[k] # NoBucket
  PROVE  /\ bucket[k] \in Bucket
         /\ bucket[k].count \in 1 .. Limit + 1 /\ bucket[k].count \in Nat
         /\ bucket[k].windowStartedAt \in Time /\ bucket[k].windowStartedAt \in Nat
         /\ bucket[k].blockedUntil \in Nat
         /\ bucket[k].violationStreak \in Nat
<1>1. bucket[k] \in Bucket
  BY DEF TypeOK
<1> QED
  BY <1>1, RateAssumption DEF Bucket, Time

LEMMA BucketExists ==
  ASSUME NEW b \in Bucket
  PROVE  b # NoBucket
<1>1. b.count # 0
  BY RateAssumption DEF Bucket
<1>2. NoBucket.count = 0
  BY DEF NoBucket
<1> QED
  BY <1>1, <1>2

LEMMA Records ==
  ASSUME TypeOK, NEW k \in Keys
  PROVE  /\ now \in Nat
         /\ granted[k] \in Seq(Time) /\ granted[k] \in Seq(Nat)
         /\ lockout[k] \in [until : Nat, length : Nat, windows : Nat]
         /\ lockout[k].until \in Nat /\ lockout[k].length \in Nat /\ lockout[k].windows \in Nat
<1>1. now \in Nat
  BY RateAssumption DEF TypeOK, Time
<1>2. granted[k] \in Seq(Time)
  BY DEF TypeOK
<1>3. granted[k] \in Seq(Nat)
  <2>1. Len(granted[k]) \in Nat /\ DOMAIN granted[k] = 1 .. Len(granted[k])
    BY <1>2
  <2>2. \A i \in 1 .. Len(granted[k]) : granted[k][i] \in Nat
    BY <1>2, RateAssumption DEF Time
  <2>3. granted[k] = [i \in 1 .. Len(granted[k]) |-> granted[k][i]]
    BY <1>2
  <2> QED
    BY <2>1, <2>2, <2>3
<1>4. lockout[k] \in [until : Nat, length : Nat, windows : Nat]
  BY DEF TypeOK
<1> QED
  BY <1>1, <1>2, <1>3, <1>4

\* A record is a bucket when it has a bucket's fields, and then it is not NoBucket.
LEMMA IsBucket ==
  ASSUME NEW c \in 1 .. Limit + 1, NEW s \in Time, NEW u \in Nat, NEW v \in Nat
  PROVE  LET b == [count |-> c, windowStartedAt |-> s, blockedUntil |-> u,
                   violationStreak |-> v]
         IN  b \in Bucket /\ b # NoBucket
<1> DEFINE b == [count |-> c, windowStartedAt |-> s, blockedUntil |-> u,
                 violationStreak |-> v]
<1>1. b \in Bucket
  BY DEF Bucket
<1>3. b # NoBucket
  BY <1>1, BucketExists
<1> QED
  BY <1>1, <1>3 DEF b

\* A request that comes after a lockout finds its window over, so a window that counts
\* has not had a lockout.
LEMMA NotLocked ==
  ASSUME IInv, NEW k \in Keys, ~ Blocked(k), ~ WindowExpired(k)
  PROVE  /\ bucket[k] # NoBucket /\ bucket[k].blockedUntil = Never
         /\ bucket[k].count <= Limit
         /\ now < bucket[k].windowStartedAt + Window
<1>1. bucket[k] # NoBucket /\ ~ (now >= bucket[k].windowStartedAt + Window)
  BY DEF WindowExpired
<1>2. bucket[k].blockedUntil <= now
  BY <1>1, Fields, Records DEF Blocked, IInv
<1>3. bucket[k].blockedUntil = Never
  <2>1. Windowed(k) /\ Remembered(k)
    BY DEF IInv
  <2>2. lockout[k].length # 0 /\ lockout[k].windows = 0 => FALSE
    BY <1>1, <1>2, <2>1, Fields, Records, RateAssumption DEF Remembered, IInv
  <2> QED
    BY <1>1, <2>1, <2>2 DEF Remembered
<1>4. bucket[k].count <= Limit
  BY <1>1, <1>3 DEF Windowed, IInv
<1>5. now < bucket[k].windowStartedAt + Window
  BY <1>1, Fields, Records, RateAssumption DEF IInv
<1> QED
  BY <1>1, <1>3, <1>4, <1>5

\* The entries of a record never come from the future.
LEMMA RecordedUntil ==
  ASSUME NEW g \in Seq(Nat), NEW t \in Nat, Len(g) <= 2 * Limit,
         \A i \in DOMAIN g : g[i] <= t
  PROVE  \A i \in DOMAIN Recorded(g, t) : Recorded(g, t)[i] <= t
<1> DEFINE r == Recorded(g, t)
<1>1. PICK d \in {0, 1} : Moved(g, t, d, Nat)
  BY RecordedEntries
<1>2. /\ Len(g) \in Nat /\ DOMAIN g = 1 .. Len(g)
      /\ DOMAIN r = 1 .. Len(g) + 1 - d
      /\ r[Len(g) + 1 - d] = t
      /\ \A i \in 1 .. Len(g) - d : r[i] = g[i + d]
  BY <1>1 DEF Moved
<1> HIDE DEF r
<1>3. ASSUME NEW i \in DOMAIN r
      PROVE  r[i] <= t
  <2>1. CASE i = Len(g) + 1 - d
    BY <1>2, <2>1
  <2>2. CASE i # Len(g) + 1 - d
    <3>1. i \in 1 .. Len(g) - d /\ i + d \in 1 .. Len(g)
      BY <1>2, <1>3, <2>2
    <3> QED
      BY <1>2, <3>1
  <2> QED
    BY <2>1, <2>2
<1> QED
  BY <1>3 DEF r

LEMMA RecordLength ==
  ASSUME IInv, NEW k \in Keys
  PROVE  /\ Len(granted[k]) <= 2 * Limit
         /\ \A i \in DOMAIN granted[k] : granted[k][i] <= now
<1>1. Windowed(k)
  BY DEF IInv
<1>2. CASE bucket[k] = NoBucket
  <2>1. granted[k] = << >>
    BY <1>1, <1>2 DEF Windowed
  <2> QED
    BY <2>1, RateAssumption
<1>3. CASE bucket[k] # NoBucket
  BY <1>1, <1>3 DEF Windowed, Fits
<1> QED
  BY <1>2, <1>3

\* A request changes one key; the invariant of the others stays.
LEMMA OneKey ==
  ASSUME IInv, NEW k \in Keys, now' = now,
         NEW b \in Bucket, bucket' = [bucket EXCEPT ![k] = b],
         NEW r \in Seq(Time), granted' = [granted EXCEPT ![k] = r],
         NEW l \in [until : Nat, length : Nat, windows : Nat],
         lockout' = [lockout EXCEPT ![k] = l],
         Windowed(k)', Remembered(k)'
  PROVE  IInv'
<1>1. TypeOK'
  <2>1. bucket' \in [Keys -> Bucket \cup {NoBucket}]
    BY DEF IInv, TypeOK
  <2>2. granted' \in [Keys -> Seq(Time)]
    BY DEF IInv, TypeOK
  <2>3. lockout' \in [Keys -> [until : Nat, length : Nat, windows : Nat]]
    BY DEF IInv, TypeOK
  <2> QED
    BY <2>1, <2>2, <2>3 DEF IInv, TypeOK
<1>2. ASSUME NEW j \in Keys
      PROVE  Windowed(j)' /\ Remembered(j)'
  <2>1. CASE j = k
    BY <2>1
  <2>2. CASE j # k
    <3>1. bucket'[j] = bucket[j] /\ granted'[j] = granted[j] /\ lockout'[j] = lockout[j]
      BY <2>2 DEF IInv, TypeOK
    <3>2. Windowed(j) /\ Remembered(j)
      BY DEF IInv
    <3>3. Windowed(j)'
      BY <3>1, <3>2 DEF Windowed, Counted
    <3>4. Remembered(j)'
      BY <3>1, <3>2 DEF Remembered
    <3> QED
      BY <3>3, <3>4
  <2> QED
    BY <2>1, <2>2
<1> QED
  BY <1>1, <1>2 DEF IInv

\* OpenWindow.
LEMMA Opens ==
  ASSUME IInv, NEW k \in Keys, OpenWindow(k)
  PROVE  IInv'
<1> DEFINE clean == bucket[k] # NoBucket => bucket[k].blockedUntil = Never
           v == IF clean THEN 0 ELSE bucket[k].violationStreak
           b == [count |-> 1, windowStartedAt |-> now, blockedUntil |-> Never,
                 violationStreak |-> v]
           r == Recorded(granted[k], now)
           w == IF lockout[k].windows < 2 THEN lockout[k].windows + 1
                ELSE lockout[k].windows
           l == [lockout[k] EXCEPT !.windows = w]
<1>1. TypeOK /\ Windowed(k) /\ Remembered(k)
  BY DEF IInv
<1>2. /\ ~ Blocked(k) /\ WindowExpired(k)
      /\ bucket' = [bucket EXCEPT ![k] = b]
      /\ granted' = [granted EXCEPT ![k] = r]
      /\ now' = now
  BY DEF OpenWindow, Grant
<1>3. lockout' = [lockout EXCEPT ![k] = l]
  BY DEF OpenWindow
<1>4. v \in Nat
  BY <1>1, Fields
<1>5. now \in Time /\ now \in Nat
  BY <1>1, Records DEF TypeOK
<1>6. b \in Bucket /\ b # NoBucket
  <2>1. 1 \in 1 .. Limit + 1 /\ Never \in Nat
    BY RateAssumption DEF Never
  <2> HIDE DEF v
  <2> QED
    BY <1>4, <1>5, <2>1, IsBucket
<1>7. r \in Seq(Time)
  <2>1. PICK d \in {0, 1} : Moved(granted[k], now, d, Time)
    BY <1>1, <1>5, Records, RecordLength, RecordedEntries
  <2> QED
    BY <2>1 DEF Moved
<1>8. /\ l \in [until : Nat, length : Nat, windows : Nat]
      /\ l.until = lockout[k].until /\ l.length = lockout[k].length /\ l.windows = w
  BY <1>1, Records
<1>9. bucket'[k] = b /\ granted'[k] = r /\ lockout'[k] = l
  BY <1>1, <1>2, <1>3 DEF TypeOK
<1>10. b.count = 1 /\ b.windowStartedAt = now /\ b.blockedUntil = Never /\ b.violationStreak = v
  OBVIOUS
<1>11. Windowed(k)'
  <2>1. Counted(k)' = 1
    BY <1>9, <1>10, RateAssumption DEF Counted
  <2>2. Fits(r, 1, now)
    <3>1. CASE bucket[k] = NoBucket
      <4>1. granted[k] = << >>
        BY <1>1, <3>1 DEF Windowed
      <4> QED
        BY <1>5, <4>1, FitsFirst
    <3>2. CASE bucket[k] # NoBucket
      <4>1. Fits(granted[k], Counted(k), bucket[k].windowStartedAt)
        BY <1>1, <3>2 DEF Windowed
      <4>2. Counted(k) \in Nat
        BY <1>1, <3>2, Fields, RateAssumption DEF Counted
      <4>3. bucket[k].windowStartedAt \in Nat /\ granted[k] \in Seq(Nat)
        BY <1>1, <3>2, Fields, Records
      <4>4. bucket[k].windowStartedAt + Window <= now
        BY <1>2, <1>5, <3>2, <4>3, RateAssumption DEF WindowExpired
      <4>5. \A i \in DOMAIN granted[k] : granted[k][i] <= now
        BY RecordLength
      <4> QED
        BY <1>5, <4>1, <4>2, <4>3, <4>4, <4>5, FitsOpened
    <3> QED
      BY <3>1, <3>2
  <2>3. \A i \in DOMAIN r : r[i] <= now
    BY <1>1, <1>5, Records, RecordLength, RecordedUntil
  <2>4. bucket'[k] # NoBucket /\ bucket'[k].windowStartedAt <= now /\ bucket'[k].count <= Limit
    BY <1>5, <1>6, <1>9, <1>10, RateAssumption
  <2> HIDE DEF b, r, l
  <2> QED
    BY <1>2, <1>9, <1>10, <2>1, <2>2, <2>3, <2>4 DEF Windowed
<1>12. Remembered(k)'
  <2> HIDE DEF b, l
  <2>1. CASE bucket[k] = NoBucket
    <3>1. lockout[k] = NoLockout
      BY <1>1, <2>1 DEF Windowed
    <3>2. l.length = 0 /\ l.until = 0 /\ v = 0
      BY <1>8, <2>1, <3>1 DEF NoLockout
    <3> QED
      BY <1>9, <1>10, <3>2 DEF Remembered
  <2>2. CASE bucket[k] # NoBucket /\ lockout[k].length = 0
    <3>1. l.length = 0 /\ l.until = 0 /\ v = 0
      BY <1>1, <1>8, <2>2 DEF Remembered
    <3> QED
      BY <1>9, <1>10, <3>1 DEF Remembered
  <2>3. CASE bucket[k] # NoBucket /\ lockout[k].length # 0 /\ lockout[k].windows = 0
    <3>1. /\ lockout[k].until # 0 /\ bucket[k].blockedUntil = lockout[k].until
          /\ lockout[k].length = Backoff(bucket[k].violationStreak)
      BY <1>1, <2>3 DEF Remembered
    <3>2. v = bucket[k].violationStreak /\ w = 1
      BY <2>3, <3>1 DEF Never
    <3>3. lockout[k].until <= now
      BY <1>1, <1>2, <1>5, <2>3, <3>1, Fields, Records DEF Blocked
    <3> HIDE DEF v, w
    <3> QED
      BY <1>8, <1>9, <1>10, <2>3, <3>1, <3>2, <3>3 DEF Remembered
  <2>4. CASE bucket[k] # NoBucket /\ lockout[k].length # 0 /\ lockout[k].windows # 0
    <3>1. /\ lockout[k].until # 0 /\ bucket[k].blockedUntil = Never
          /\ lockout[k].until <= bucket[k].windowStartedAt
      BY <1>1, <2>4 DEF Remembered
    <3>2. v = 0 /\ w >= 2 /\ w \in Nat
      BY <1>1, <2>4, <3>1, Records
    <3>3. bucket[k].windowStartedAt <= now
      BY <1>1, <2>4 DEF Windowed
    <3>4. lockout[k].until <= now
      BY <1>1, <1>5, <2>4, <3>1, <3>3, Fields, Records
    <3> HIDE DEF v, w
    <3>5. w # 0 /\ ~ (w < 2)
      BY <3>2
    <3>6. /\ bucket'[k].blockedUntil = Never /\ bucket'[k].windowStartedAt = now
          /\ bucket'[k].violationStreak = 0
      BY <1>9, <1>10, <3>2
    <3>7. /\ lockout'[k].until = lockout[k].until /\ lockout'[k].until # 0
          /\ lockout'[k].length # 0 /\ lockout'[k].windows # 0
          /\ ~ (lockout'[k].windows < 2)
      BY <1>8, <1>9, <2>4, <3>1, <3>5
    <3> QED
      BY <3>4, <3>6, <3>7 DEF Remembered
  <2> QED
    BY <2>1, <2>2, <2>3, <2>4
<1> HIDE DEF b, r, l
<1> QED
  BY <1>2, <1>3, <1>6, <1>7, <1>8, <1>11, <1>12, OneKey

\* CountRequest.
LEMMA Counts ==
  ASSUME IInv, NEW k \in Keys, CountRequest(k)
  PROVE  IInv'
<1> DEFINE b == [bucket[k] EXCEPT !.count = bucket[k].count + 1]
           r == Recorded(granted[k], now)
           l == lockout[k]
<1>1. TypeOK /\ Windowed(k) /\ Remembered(k)
  BY DEF IInv
<1>2. /\ ~ Blocked(k) /\ ~ WindowExpired(k) /\ bucket[k].count < Limit
      /\ bucket' = [bucket EXCEPT ![k] = b]
      /\ granted' = [granted EXCEPT ![k] = r]
      /\ now' = now /\ lockout' = lockout
  BY DEF CountRequest, Grant
<1>3. /\ bucket[k] # NoBucket /\ bucket[k].blockedUntil = Never
      /\ bucket[k].count <= Limit
  BY <1>2, NotLocked
<1>4. now \in Time /\ now \in Nat
  BY <1>1, Records DEF TypeOK
<1>5. /\ bucket[k] \in Bucket /\ bucket[k].count \in 1 .. Limit + 1
      /\ bucket[k].count \in Nat /\ bucket[k].windowStartedAt \in Nat
  BY <1>1, <1>3, Fields
<1>6. /\ b \in Bucket /\ b # NoBucket
      /\ b.count = bucket[k].count + 1
      /\ b.windowStartedAt = bucket[k].windowStartedAt
      /\ b.blockedUntil = bucket[k].blockedUntil
      /\ b.violationStreak = bucket[k].violationStreak
  <2>1. bucket[k].count + 1 \in 1 .. Limit + 1
    BY <1>2, <1>5, RateAssumption
  <2>2. b \in Bucket /\ b.count = bucket[k].count + 1
    BY <1>5, <2>1 DEF Bucket
  <2>4. b # NoBucket
    BY <2>2, BucketExists
  <2> QED
    BY <1>5, <2>2, <2>4 DEF Bucket
<1>7. r \in Seq(Time)
  <2>1. PICK d \in {0, 1} : Moved(granted[k], now, d, Time)
    BY <1>1, <1>4, Records, RecordLength, RecordedEntries
  <2> QED
    BY <2>1 DEF Moved
<1>8. l \in [until : Nat, length : Nat, windows : Nat]
  BY <1>1, Records
<1>9. bucket'[k] = b /\ granted'[k] = r /\ lockout'[k] = lockout[k]
  BY <1>1, <1>2 DEF TypeOK
<1>10. Windowed(k)'
  <2>1. Counted(k) = bucket[k].count /\ Counted(k) \in Nat /\ Counted(k) < Limit
    BY <1>2, <1>3, <1>5 DEF Counted
  <2>a. bucket'[k].count = bucket[k].count + 1 /\ bucket[k].count + 1 <= Limit
    <3>1. bucket'[k].count = bucket[k].count + 1
      <4> HIDE DEF b
      <4> QED
        BY <1>6, <1>9
    <3>2. bucket[k].count + 1 <= Limit
      BY <1>2, <1>5, RateAssumption
    <3> QED
      BY <3>1, <3>2
  <2>2. Counted(k)' = Counted(k) + 1 /\ bucket'[k].count <= Limit
    BY <2>1, <2>a DEF Counted
  <2>3. /\ Fits(granted[k], Counted(k), bucket[k].windowStartedAt)
        /\ bucket[k].windowStartedAt <= now
    BY <1>1, <1>3 DEF Windowed
  <2>4. Fits(r, Counted(k) + 1, bucket[k].windowStartedAt)
    BY <1>1, <1>4, <1>5, <2>1, <2>3, Records, FitsCounted
  <2>5. \A i \in DOMAIN r : r[i] <= now
    BY <1>1, <1>4, Records, RecordLength, RecordedUntil
  <2> HIDE DEF b, r
  <2> QED
    BY <1>2, <1>6, <1>9, <2>2, <2>3, <2>4, <2>5 DEF Windowed
<1>11. Remembered(k)'
  <2> HIDE DEF b
  <2> QED
    BY <1>1, <1>3, <1>6, <1>9 DEF Remembered
<1>12. lockout' = [lockout EXCEPT ![k] = l]
  BY <1>1, <1>2 DEF TypeOK
<1> HIDE DEF b, r, l
<1> QED
  BY <1>2, <1>6, <1>7, <1>8, <1>10, <1>11, <1>12, OneKey

\* LockOut.
LEMMA Locks ==
  ASSUME IInv, NEW k \in Keys, LockOut(k)
  PROVE  IInv'
<1> DEFINE v == bucket[k].violationStreak + 1
           b == [bucket[k] EXCEPT !.count = bucket[k].count + 1, !.violationStreak = v,
                                  !.blockedUntil = now + Backoff(v)]
           r == granted[k]
           l == [until |-> now + Backoff(v), length |-> Backoff(v), windows |-> 0]
<1>1. TypeOK /\ Windowed(k) /\ Remembered(k)
  BY DEF IInv
<1>2. /\ ~ Blocked(k) /\ ~ WindowExpired(k) /\ bucket[k].count >= Limit
      /\ bucket' = [bucket EXCEPT ![k] = b]
      /\ lockout' = [lockout EXCEPT ![k] = l]
      /\ now' = now /\ granted' = granted
  BY DEF LockOut
<1>3. /\ bucket[k] # NoBucket /\ bucket[k].blockedUntil = Never
      /\ bucket[k].count <= Limit
  BY <1>2, NotLocked
<1>4. now \in Nat
  BY <1>1, Records
<1>5. /\ bucket[k] \in Bucket /\ bucket[k].count \in 1 .. Limit + 1
      /\ bucket[k].count \in Nat /\ bucket[k].windowStartedAt \in Nat
      /\ bucket[k].violationStreak \in Nat
  BY <1>1, <1>3, Fields
<1>6. v \in Nat /\ v >= 1
  BY <1>5
<1>7. Backoff(v) \in Nat /\ Backoff(v) >= Window
  BY <1>6, BackoffType
<1>8. /\ now + Backoff(v) \in Nat /\ now + Backoff(v) # Never /\ Backoff(v) # 0
      /\ now + Backoff(v) >= now + Window
  BY <1>4, <1>7, RateAssumption DEF Never
<1>9. bucket[k].count = Limit /\ bucket[k].count + 1 \in 1 .. Limit + 1
  BY <1>2, <1>3, <1>5, RateAssumption
<1>10. /\ b \in Bucket /\ b # NoBucket
       /\ b.count = bucket[k].count + 1
       /\ b.windowStartedAt = bucket[k].windowStartedAt
       /\ b.blockedUntil = now + Backoff(v)
       /\ b.violationStreak = v
  <2> DEFINE u == now + Backoff(v)
  <2> HIDE DEF u, v
  <2>1. b \in Bucket /\ b.count = bucket[k].count + 1
    BY <1>5, <1>6, <1>8, <1>9 DEF Bucket, u
  <2>3. b # NoBucket
    BY <2>1, BucketExists
  <2> QED
    BY <1>5, <2>1, <2>3 DEF Bucket
<1>11. bucket'[k] = b /\ granted'[k] = granted[k] /\ lockout'[k] = l
  BY <1>1, <1>2 DEF TypeOK
<1>12. Windowed(k)'
  <2>1. Counted(k)' = Limit /\ Counted(k) = Limit
    BY <1>3, <1>5, <1>9, <1>10, <1>11, RateAssumption DEF Counted
  <2>2. /\ Fits(granted[k], Limit, bucket[k].windowStartedAt)
        /\ bucket[k].windowStartedAt <= now
        /\ \A i \in DOMAIN granted[k] : granted[k][i] <= now
    BY <1>1, <1>3, <2>1 DEF Windowed
  <2> HIDE DEF b, l
  <2> QED
    BY <1>2, <1>8, <1>10, <1>11, <2>1, <2>2 DEF Windowed
<1>13. Remembered(k)'
  <2>1. bucket[k].windowStartedAt <= now
    BY <1>1, <1>3 DEF Windowed
  <2>2. bucket[k].windowStartedAt + Window <= now + Backoff(v)
    BY <1>4, <1>5, <1>7, <2>1, RateAssumption
  <2>3. l.until = now + Backoff(v) /\ l.length = Backoff(v) /\ l.windows = 0
    OBVIOUS
  <2> HIDE DEF b, l, v
  <2>4. /\ lockout'[k].length # 0 /\ lockout'[k].until # 0 /\ lockout'[k].windows = 0
        /\ bucket'[k].blockedUntil = lockout'[k].until
        /\ bucket'[k].windowStartedAt + Window <= lockout'[k].until
        /\ lockout'[k].length = Backoff(bucket'[k].violationStreak)
    BY <1>8, <1>10, <1>11, <2>2, <2>3 DEF Never
  <2> QED
    BY <2>4 DEF Remembered
<1>14. /\ granted' = [granted EXCEPT ![k] = r] /\ r \in Seq(Time)
       /\ l \in [until : Nat, length : Nat, windows : Nat]
  BY <1>1, <1>2, <1>7, <1>8, Records DEF TypeOK
<1> HIDE DEF b, r, l
<1> QED
  BY <1>2, <1>10, <1>12, <1>13, <1>14, OneKey

\* Reset and Restart.
LEMMA Forgets ==
  ASSUME IInv, NEW S, Forget(S)
  PROVE  IInv'
<1>1. /\ bucket' = [k \in Keys |-> IF k \in S THEN NoBucket ELSE bucket[k]]
      /\ granted' = [k \in Keys |-> IF k \in S THEN << >> ELSE granted[k]]
      /\ lockout' = [k \in Keys |-> IF k \in S THEN NoLockout ELSE lockout[k]]
      /\ now' = now
  BY DEF Forget
<1>2. TypeOK'
  <2>1. << >> \in Seq(Time)
    OBVIOUS
  <2>2. NoLockout \in [until : Nat, length : Nat, windows : Nat]
    BY DEF NoLockout
  <2> QED
    BY <1>1, <2>1, <2>2 DEF IInv, TypeOK
<1>3. ASSUME NEW k \in Keys
      PROVE  Windowed(k)' /\ Remembered(k)'
  <2>1. CASE k \in S
    <3>1. bucket'[k] = NoBucket /\ granted'[k] = << >> /\ lockout'[k] = NoLockout
      BY <1>1, <2>1
    <3> QED
      BY <3>1 DEF Windowed, Remembered
  <2>2. CASE k \notin S
    <3>1. bucket'[k] = bucket[k] /\ granted'[k] = granted[k] /\ lockout'[k] = lockout[k]
      BY <1>1, <2>2
    <3>2. Windowed(k) /\ Remembered(k)
      BY DEF IInv
    <3>3. Windowed(k)'
      BY <1>1, <3>1, <3>2 DEF Windowed, Counted
    <3>4. Remembered(k)'
      BY <3>1, <3>2 DEF Remembered
    <3> QED
      BY <3>3, <3>4
  <2> QED
    BY <2>1, <2>2
<1> QED
  BY <1>2, <1>3 DEF IInv

LEMMA Ticks ==
  ASSUME IInv, Tick
  PROVE  IInv'
<1>1. /\ now' = now + 1 /\ now < Horizon
      /\ UNCHANGED <<bucket, granted, lockout>>
  BY DEF Tick
<1>2. TypeOK'
  BY <1>1, RateAssumption DEF IInv, TypeOK, Time
<1>3. ASSUME NEW k \in Keys
      PROVE  Windowed(k)' /\ Remembered(k)'
  <2>1. Windowed(k) /\ Remembered(k) /\ TypeOK
    BY DEF IInv
  <2>2. Remembered(k)'
    BY <1>1, <2>1 DEF Remembered
  <2>3. now \in Nat /\ granted[k] \in Seq(Nat)
    BY <2>1, Records
  <2>4. bucket[k] # NoBucket => bucket[k].windowStartedAt <= now'
    BY <1>1, <2>1, <2>3, Fields DEF Windowed
  <2>5. bucket[k] # NoBucket => \A i \in DOMAIN granted[k] : granted[k][i] <= now'
    BY <1>1, <2>1, <2>3 DEF Windowed
  <2>6. Windowed(k)'
    BY <1>1, <2>1, <2>4, <2>5 DEF Windowed, Counted
  <2> QED
    BY <2>2, <2>6
<1> QED
  BY <1>2, <1>3 DEF IInv

LEMMA Invariance == Spec => []IInv
<1>1. Init => IInv
  <2> SUFFICES ASSUME Init PROVE IInv
    OBVIOUS
  <2>1. << >> \in Seq(Time) /\ 0 \in Time
    BY RateAssumption DEF Time
  <2>2. NoLockout \in [until : Nat, length : Nat, windows : Nat]
    BY DEF NoLockout
  <2>3. TypeOK
    BY <2>1, <2>2 DEF Init, TypeOK
  <2>4. \A k \in Keys : Windowed(k) /\ Remembered(k)
    BY DEF Init, Windowed, Remembered
  <2> QED
    BY <2>3, <2>4 DEF IInv
<1>2. IInv /\ [Next]_vars => IInv'
  <2> SUFFICES ASSUME IInv, [Next]_vars PROVE IInv'
    OBVIOUS
  <2>1. CASE UNCHANGED vars
    BY <2>1 DEF vars, IInv, TypeOK, Windowed, Remembered, Counted
  <2>2. ASSUME NEW k \in Keys, Refuse(k) PROVE IInv'
    BY <2>2 DEF Refuse, vars, IInv, TypeOK, Windowed, Remembered, Counted
  <2>3. ASSUME NEW k \in Keys, OpenWindow(k) PROVE IInv'
    BY <2>3, Opens
  <2>4. ASSUME NEW k \in Keys, CountRequest(k) PROVE IInv'
    BY <2>4, Counts
  <2>5. ASSUME NEW k \in Keys, LockOut(k) PROVE IInv'
    BY <2>5, Locks
  <2>6. ASSUME NEW k \in Keys, Reset(k) PROVE IInv'
    BY <2>6, Forgets DEF Reset
  <2>7. CASE Restart
    BY <2>7, Forgets DEF Restart
  <2>8. CASE Tick
    BY <2>8, Ticks
  <2> QED
    BY <2>1, <2>2, <2>3, <2>4, <2>5, <2>6, <2>7, <2>8 DEF Next
<1> QED
  BY <1>1, <1>2, PTL DEF Spec

-------------------------------------------------------------------------------
\* The variables keep their types: in particular the count never passes Limit + 1
\* (rate-limit.store.ts:73-74), whatever lockouts come between.
THEOREM Typing == Spec => []TypeOK
<1>1. IInv => TypeOK
  BY DEF IInv
<1> QED
  BY <1>1, Invariance, PTL

\* Of any 2 * Limit granted requests in a row, with no reset of the key and no restart
\* between them, the last comes Window or more after the first, for every limit, window
\* and spread of requests (rate-limit.store.ts:60-83).
THEOREM BurstBounded == Spec => []BurstBound
<1>1. IInv => BurstBound
  <2> SUFFICES ASSUME IInv, NEW k \in Keys, Len(granted[k]) = 2 * Limit
               PROVE  granted[k][1] + Window <= granted[k][2 * Limit]
    BY DEF BurstBound
  <2> DEFINE g == granted[k]
             s == bucket[k].windowStartedAt
             m == Counted(k)
  <2>1. TypeOK /\ Windowed(k) /\ g \in Seq(Nat)
    BY Records DEF IInv
  <2>2. 2 * Limit \in Nat /\ 1 <= 2 * Limit
    BY RateAssumption
  <2>3. bucket[k] # NoBucket
    BY <2>1, <2>2 DEF Windowed
  <2>4. s \in Nat /\ Fits(g, m, s)
    BY <2>1, <2>3, Fields DEF Windowed
  <2> HIDE DEF g, s, m
  <2>5. /\ m \in 1 .. Limit /\ DOMAIN g = 1 .. 2 * Limit
        /\ \A i \in 1 .. 2 * Limit :
             /\ i <= 2 * Limit - m - Limit + 1 => g[i] + Window <= s
             /\ i > 2 * Limit - m => s <= g[i]
    BY <2>1, <2>4 DEF Fits, g
  <2>6. g[1] + Window <= s /\ s <= g[2 * Limit]
    BY <2>2, <2>5, RateAssumption
  <2>7. g[1] \in Nat /\ g[2 * Limit] \in Nat
    BY <2>1, <2>2, <2>5
  <2> QED
    BY <2>4, <2>6, <2>7, RateAssumption DEF g
<1> QED
  BY <1>1, Invariance, PTL

\* Unless the key is reset or the server restarts, no request is granted before the
\* announced end of a lockout, and whoever asks at that moment is granted
\* (rate-limit.store.ts:56-60).
THEOREM RetryHolds == Spec => []RetryAfterHolds
<1>1. IInv => RetryAfterHolds
  <2> SUFFICES ASSUME IInv, NEW k \in Keys, lockout[k].until > 0
               PROVE  /\ now < lockout[k].until => Blocked(k)
                      /\ now = lockout[k].until =>
                           /\ ~ Blocked(k)
                           /\ WindowExpired(k) \/ granted[k][Len(granted[k])] = now
    BY DEF RetryAfterHolds
  <2>1. TypeOK /\ Windowed(k) /\ Remembered(k)
    BY DEF IInv
  <2>2. /\ now \in Nat /\ lockout[k].until \in Nat /\ lockout[k].until # 0
        /\ granted[k] \in Seq(Nat)
    BY <2>1, Records
  <2>3. bucket[k] # NoBucket
    <3>1. NoLockout.until = 0
      BY DEF NoLockout
    <3> QED
      BY <2>1, <2>2, <3>1 DEF Windowed
  <2>4. bucket[k].windowStartedAt \in Nat /\ bucket[k].blockedUntil \in Nat
    BY <2>1, <2>3, Fields
  <2>5. lockout[k].length # 0
    BY <2>1, <2>2, <2>3 DEF Remembered
  <2>6. CASE lockout[k].windows = 0
    <3>1. /\ bucket[k].blockedUntil = lockout[k].until
          /\ bucket[k].windowStartedAt + Window <= lockout[k].until
      BY <2>1, <2>3, <2>5, <2>6 DEF Remembered
    <3> QED
      BY <2>2, <2>3, <2>4, <3>1, RateAssumption DEF Blocked, WindowExpired
  <2>7. CASE lockout[k].windows # 0
    <3>1. bucket[k].blockedUntil = Never /\ lockout[k].until <= bucket[k].windowStartedAt
      BY <2>1, <2>3, <2>5, <2>7 DEF Remembered
    <3>2. /\ bucket[k].windowStartedAt <= now
          /\ Fits(granted[k], Counted(k), bucket[k].windowStartedAt)
          /\ \A i \in DOMAIN granted[k] : granted[k][i] <= now
      BY <2>1, <2>3 DEF Windowed
    <3>3. lockout[k].until <= now /\ ~ Blocked(k)
      BY <2>2, <2>4, <3>1, <3>2 DEF Blocked, Never
    <3> DEFINE n == Len(granted[k])
    <3>a. n \in Nat /\ 1 <= n
      BY <2>2, <3>2, RateAssumption DEF Fits
    <3>b. n \in DOMAIN granted[k]
      BY <2>2, <3>a
    <3>4. n \in Nat /\ n \in DOMAIN granted[k] /\ granted[k][n] \in Nat
      BY <2>2, <3>a, <3>b
    <3>5. bucket[k].windowStartedAt <= granted[k][n] /\ granted[k][n] <= now
      BY <3>2, <3>4, RateAssumption DEF Fits
    <3> QED
      BY <2>2, <2>4, <3>1, <3>3, <3>4, <3>5
  <2> QED
    BY <2>6, <2>7
<1> QED
  BY <1>1, Invariance, PTL

\* A lockout has a cause in the requests granted since the last reset or restart, and a
\* length that follows from the lockout before, if none of these has come in between,
\* for every cap of the backoff (rate-limit.store.ts:60-80).
THEOREM LockoutsAreFair == Spec => LockoutsFair
<1> DEFINE Fair(k) ==
      lockout'[k].length # 0 /\ lockout'[k].until # lockout[k].until =>
        /\ Len(granted[k]) >= Limit
        /\ granted[k][Len(granted[k]) - Limit + 1] + Window > now
        /\ Proportionate(k)
<1>1. ASSUME IInv, NEW k \in Keys, LockOut(k)
      PROVE  Fair(k)
  <2> DEFINE g == granted[k]
             n == Len(g)
             s == bucket[k].windowStartedAt
             v == bucket[k].violationStreak
  <2>1. TypeOK /\ Windowed(k) /\ Remembered(k)
    BY <1>1 DEF IInv
  <2>2. /\ ~ Blocked(k) /\ ~ WindowExpired(k) /\ bucket[k].count >= Limit
        /\ lockout' = [lockout EXCEPT ![k] = [until |-> now + Backoff(v + 1),
                          length |-> Backoff(v + 1), windows |-> 0]]
    BY <1>1 DEF LockOut
  <2>3. /\ bucket[k] # NoBucket /\ bucket[k].blockedUntil = Never
        /\ bucket[k].count <= Limit /\ now < s + Window
    BY <1>1, <2>2, NotLocked
  <2>4. s \in Nat /\ v \in Nat /\ bucket[k].count \in Nat /\ now \in Nat /\ g \in Seq(Nat)
    BY <2>1, <2>3, Fields, Records
  <2>5. Counted(k) = Limit
    BY <2>2, <2>3, <2>4, RateAssumption DEF Counted
  <2>6. Fits(g, Limit, s)
    BY <2>1, <2>3, <2>5 DEF Windowed
  <2>c. n \in Nat /\ Limit <= n
    BY <2>4, <2>6 DEF Fits
  <2>7. n \in Nat /\ n >= Limit /\ n - Limit + 1 \in 1 .. n
    BY <2>c, RateAssumption
  <2> HIDE DEF g
  <2>a. g[n - Limit + 1] \in Nat
    BY <2>4, <2>7
  <2>b. n - Limit + 1 \in DOMAIN g /\ n - Limit + 1 > n - Limit
    <3>1. DOMAIN g = 1 .. n
      BY <2>4
    <3> QED
      BY <2>c, <2>7, <3>1, RateAssumption
  <2>8. s <= g[n - Limit + 1] /\ g[n - Limit + 1] \in Nat
    BY <2>6, <2>a, <2>b DEF Fits
  <2>9. g[n - Limit + 1] + Window > now
    <3> DEFINE x == g[n - Limit + 1]
    <3> HIDE DEF x, s
    <3>1. x \in Nat /\ s <= x /\ s \in Nat /\ now < s + Window /\ now \in Nat
      BY <2>3, <2>4, <2>8 DEF x
    <3>2. x + Window > now
      BY <3>1, RateAssumption
    <3> QED
      BY <3>2 DEF x
  <2>10. lockout'[k].length = Backoff(v + 1)
    BY <2>1, <2>2 DEF TypeOK
  <2>11. Proportionate(k)
    <3>1. CASE lockout[k].length # 0 /\ lockout[k].windows = 1
      <4>1. lockout[k].length = Backoff(v)
        BY <2>1, <2>3, <3>1 DEF Remembered
      <4>2. CASE v < MaxExponent
        <5>1. Backoff(v + 1) = 2 * Backoff(v) /\ Backoff(v) # Backoff(MaxExponent)
          BY <2>4, <4>2, BackoffDoubles
        <5> QED
          BY <2>10, <3>1, <4>1, <5>1 DEF Proportionate
      <4>3. CASE ~ (v < MaxExponent)
        <5>1. Backoff(v) = Backoff(MaxExponent) /\ Backoff(v + 1) = Backoff(MaxExponent)
          BY <2>4, <4>3, BackoffCapped
        <5> QED
          BY <2>10, <3>1, <4>1, <5>1 DEF Proportionate
      <4> QED
        BY <4>2, <4>3
    <3>2. CASE ~ (lockout[k].length # 0 /\ lockout[k].windows = 1)
      <4>1. lockout[k].length # 0 => lockout[k].windows # 0
        BY <2>1, <2>3 DEF Remembered, Never
      <4>2. lockout[k].windows \in Nat
        BY <2>1, Records
      <4>3. v = 0
        BY <2>1, <2>3, <3>2, <4>1, <4>2 DEF Remembered
      <4> QED
        BY <2>10, <3>2, <4>3, BackoffFirst DEF Proportionate
    <3> QED
      BY <3>1, <3>2
  <2> QED
    BY <2>7, <2>9, <2>11 DEF g
<1>2. ASSUME IInv, [Next]_vars, NEW k \in Keys, ~ LockOut(k)
      PROVE  lockout'[k].length # 0 => lockout'[k].until = lockout[k].until
  <2> TypeOK
    BY <1>2 DEF IInv
  <2>1. CASE UNCHANGED vars
    BY <2>1 DEF vars
  <2>2. ASSUME NEW j \in Keys, OpenWindow(j)
        PROVE  lockout'[k].until = lockout[k].until
    BY <2>2, Records DEF OpenWindow, TypeOK
  <2>3. ASSUME NEW j \in Keys, CountRequest(j)
        PROVE  lockout' = lockout
    BY <2>3 DEF CountRequest
  <2>4. ASSUME NEW j \in Keys, LockOut(j)
        PROVE  lockout'[k] = lockout[k]
    <3>1. j # k
      BY <1>2, <2>4
    <3> QED
      BY <2>4, <3>1 DEF LockOut, TypeOK
  <2>5. ASSUME NEW S, Forget(S)
        PROVE  lockout'[k] = NoLockout \/ lockout'[k] = lockout[k]
    BY <2>5 DEF Forget
  <2>6. NoLockout.length = 0
    BY DEF NoLockout
  <2>7. CASE Tick
    BY <2>7 DEF Tick
  <2>8. ASSUME NEW j \in Keys, Refuse(j)
        PROVE  lockout' = lockout
    BY <2>8 DEF Refuse, vars
  <2>9. ASSUME NEW j \in Keys, Reset(j)
        PROVE  lockout'[k].length # 0 => lockout'[k] = lockout[k]
    BY <2>5, <2>6, <2>9 DEF Reset
  <2>10. CASE Restart
    BY <2>5, <2>6, <2>10 DEF Restart
  <2> QED
    BY <1>2, <2>1, <2>2, <2>3, <2>4, <2>7, <2>8, <2>9, <2>10 DEF Next
<1>3. ASSUME IInv, [Next]_vars
      PROVE  \A k \in Keys : Fair(k)
  <2> SUFFICES ASSUME NEW k \in Keys PROVE Fair(k)
    OBVIOUS
  <2>1. CASE LockOut(k)
    BY <1>1, <1>3, <2>1
  <2>2. CASE ~ LockOut(k)
    BY <1>2, <1>3, <2>2
  <2> QED
    BY <2>1, <2>2
<1>4. IInv /\ [Next]_vars => [\A k \in Keys : Fair(k)]_vars
  BY <1>3
<1> QED
  BY <1>4, Invariance, PTL DEF Spec, LockoutsFair

===============================================================================
