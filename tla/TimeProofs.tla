------------------------------- MODULE TimeProofs -------------------------------
(* The macros of include/ckit/time.h compute what they say, for every unit.    *)
EXTENDS TimeOps, TLAPS

\* Products with the unit, as far as the provers need them.
LEMMA Products ==
  ASSUME NEW P \in Nat \ {0}, NEW a \in Int, NEW b \in Int
  PROVE  /\ a * P \in Int
         /\ (a + b) * P = a * P + b * P
         /\ (a - b) * P = a * P - b * P
         /\ (a + 1) * P = a * P + P
         /\ (a - 1) * P = a * P - P
         /\ P * a = a * P
         /\ (-a) * P = -(a * P)
         /\ a < b => a * P + P <= b * P
OBVIOUS

\* What truncation leaves is less than a second, on either side of zero.
LEMMA Truncation ==
  ASSUME NEW P \in Nat \ {0}, NEW n \in Int
  PROVE  /\ CDiv(n, P) \in Int /\ CMod(n, P) \in Int
         /\ CDiv(n, P) * P + CMod(n, P) = n
         /\ -P < CMod(n, P) /\ CMod(n, P) < P
<1>1. ASSUME NEW m \in Nat
      PROVE  /\ m \div P \in Nat
             /\ (m \div P) * P <= m /\ m < (m \div P) * P + P
  OBVIOUS
<1>2. CASE n >= 0
  BY <1>1, <1>2, Products DEF CDiv, CMod
<1>3. CASE n < 0
  <2>1. -n \in Nat /\ (-n) \div P \in Nat
    BY <1>1, <1>3
  <2>2. ((-n) \div P) * P <= -n /\ -n < ((-n) \div P) * P + P
    BY <1>1, <2>1
  <2>3. CDiv(n, P) = -((-n) \div P) /\ CMod(n, P) = n + ((-n) \div P) * P
    BY <1>3, <2>1, Products DEF CDiv, CMod
  <2>4. CDiv(n, P) * P = -(((-n) \div P) * P)
    BY <2>1, <2>3, Products
  <2>5. ((-n) \div P) * P \in Int
    BY <2>1, Products
  <2>6. QED
    BY <1>3, <2>1, <2>2, <2>3, <2>4, <2>5
<1>4. QED
  BY <1>2, <1>3

\* A record of seconds and a fraction is the time it adds up to.
LEMMA MakesTime ==
  ASSUME NEW s \in Int, NEW f \in 0..(PER_SEC - 1), NEW n, s * PER_SEC + f = n
  PROVE  Is([sec |-> s, frac |-> f], n)
BY DEF Is, Time, Units

\* One carry or borrow normalises a fraction that is less than a second off.
LEMMA Normalized ==
  ASSUME PER_SEC \in Nat \ {0}, NEW s \in Int, NEW f \in Int,
         -PER_SEC <= f, f < 2 * PER_SEC
  PROVE  Is(normalize([sec |-> s, frac |-> f]), s * PER_SEC + f)
<1> DEFINE t == [sec |-> s, frac |-> f]
<1>0. t.sec = s /\ t.frac = f
  OBVIOUS
<1>1. CASE f >= PER_SEC
  <2>1. normalize(t) = [sec |-> s + 1, frac |-> f - PER_SEC]
    BY <1>0, <1>1 DEF normalize
  <2>2. (s + 1) * PER_SEC + (f - PER_SEC) = s * PER_SEC + f
    BY Products
  <2>3. QED
    BY <1>1, <2>1, <2>2, MakesTime, s + 1 \in Int, f - PER_SEC \in 0..(PER_SEC - 1)
<1>2. CASE f < 0
  <2>1. normalize(t) = [sec |-> s - 1, frac |-> f + PER_SEC]
    BY <1>0, <1>2 DEF normalize
  <2>2. (s - 1) * PER_SEC + (f + PER_SEC) = s * PER_SEC + f
    BY Products
  <2>3. QED
    BY <1>2, <2>1, <2>2, MakesTime, s - 1 \in Int, f + PER_SEC \in 0..(PER_SEC - 1)
<1>3. CASE ~(f >= PER_SEC) /\ ~(f < 0)
  <2>1. normalize(t) = t
    BY <1>0, <1>3 DEF normalize
  <2>2. QED
    BY <1>3, <2>1, MakesTime, f \in 0..(PER_SEC - 1)
<1>4. QED
  BY <1>1, <1>2, <1>3

\* The macros of time.h are exact and normalise their results, for every unit,
\* all normalised times and all signed amounts, and timespec_lt orders times
\* as the numbers they stand for.
THEOREM TimeIsExact ==
  ASSUME PER_SEC \in Nat \ {0}, NEW t \in Time, NEW u \in Time, NEW n \in Int
  PROVE  Exact(t, u, n)
<1>0. /\ t.sec \in Int /\ t.frac \in 0..(PER_SEC - 1)
      /\ u.sec \in Int /\ u.frac \in 0..(PER_SEC - 1)
      /\ t.sec * PER_SEC \in Int /\ u.sec * PER_SEC \in Int
  BY Products DEF Time
<1>1. Is(add(t, u), Units(t) + Units(u))
  <2>1. Is(add(t, u), (t.sec + u.sec) * PER_SEC + (t.frac + u.frac))
    BY <1>0, Normalized DEF add
  <2>2. (t.sec + u.sec) * PER_SEC = t.sec * PER_SEC + u.sec * PER_SEC
    BY <1>0, Products
  <2>3. QED
    BY <1>0, <2>1, <2>2 DEF Units
<1>2. Is(sub(t, u), Units(t) - Units(u))
  <2>1. Is(sub(t, u), (t.sec - u.sec) * PER_SEC + (t.frac - u.frac))
    BY <1>0, Normalized DEF sub
  <2>2. (t.sec - u.sec) * PER_SEC = t.sec * PER_SEC - u.sec * PER_SEC
    BY <1>0, Products
  <2>3. QED
    BY <1>0, <2>1, <2>2 DEF Units
<1> DEFINE d == CDiv(n, PER_SEC)
           m == CMod(n, PER_SEC)
<1>3. d \in Int /\ m \in Int /\ d * PER_SEC + m = n /\ -PER_SEC < m /\ m < PER_SEC
  BY Truncation
<1>4. d * PER_SEC \in Int
  BY <1>3, Products
<1>5. Is(add_units(t, n), Units(t) + n)
  <2>1. Is(add_units(t, n), (t.sec + d) * PER_SEC + (t.frac + m))
    BY <1>0, <1>3, Normalized DEF add_units
  <2>2. (t.sec + d) * PER_SEC = t.sec * PER_SEC + d * PER_SEC
    BY <1>0, <1>3, Products
  <2> HIDE DEF d, m
  <2>3. QED
    BY <1>0, <1>3, <1>4, <2>1, <2>2 DEF Units
<1>6. Is(sub_units(t, n), Units(t) - n)
  <2>1. Is(sub_units(t, n), (t.sec - d) * PER_SEC + (t.frac - m))
    BY <1>0, <1>3, Normalized DEF sub_units
  <2>2. (t.sec - d) * PER_SEC = t.sec * PER_SEC - d * PER_SEC
    BY <1>0, <1>3, Products
  <2> HIDE DEF d, m
  <2>3. QED
    BY <1>0, <1>3, <1>4, <2>1, <2>2 DEF Units
<1>7. lt(t, u) <=> Units(t) < Units(u)
  <2>1. t.sec < u.sec => t.sec * PER_SEC + PER_SEC <= u.sec * PER_SEC
    BY <1>0, Products
  <2>2. u.sec < t.sec => u.sec * PER_SEC + PER_SEC <= t.sec * PER_SEC
    BY <1>0, Products
  <2>3. QED
    BY <1>0, <2>1, <2>2 DEF lt, Units
<1>8. QED
  BY <1>1, <1>2, <1>5, <1>6, <1>7 DEF Exact
================================================================================
