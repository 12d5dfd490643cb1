------------------------- MODULE ConsoleReadProofs -------------------------
(***************************************************************************)
(* Proofs about reading in module Console: the ring, the loop that maps    *)
(* scancodes to bytes, the cursors and the lock of open_files.             *)
(***************************************************************************)
EXTENDS Console, WellFoundedInduction, TLAPS

\* Steps are proved by SMT unless they name another prover.
USE SMTT(30)

-----------------------------------------------------------------------------
(* Induction and recursion on natural numbers, stated with sets.           *)

\* Every set of natural numbers that is not empty has a least element.
LEMMA LeastNat ==
    ASSUME NEW T, T \subseteq Nat, T # {}
    PROVE  \E x \in T : \A y \in T : x <= y
<1> DEFINE R == OpToRel(<, Nat)
<1>1. IsWellFoundedOn(R, Nat)
  BY NatLessThanWellFounded, Zenon
<1>2. \A x, y \in Nat : y < x => <<y, x>> \in R
  BY Zenon DEF OpToRel
<1> HIDE DEF R
<1>3. PICK x \in T : \A y \in T : ~(<<y, x>> \in R)
  BY <1>1, WFMin, Zenon
<1>4. \A y \in T : ~(y < x)
  BY <1>2, <1>3, Zenon
<1> QED
  BY <1>4

\* A set that holds 0, and with each number the next one, holds all of them.
LEMMA SetInduction ==
    ASSUME NEW G, 0 \in G, \A n \in Nat : n \in G => n + 1 \in G
    PROVE  \A n \in Nat : n \in G
<1> DEFINE T == Nat \ G
<1>1. SUFFICES ASSUME T # {} PROVE FALSE
  BY Zenon
<1>2. PICK n \in T : \A y \in T : n <= y
  BY <1>1, LeastNat, Zenon
<1>3. n \in Nat /\ n # 0 /\ n \notin G
  BY <1>2, Zenon
<1>4. n - 1 \in Nat /\ n - 1 \notin T
  BY <1>2, <1>3
<1>5. (n - 1) + 1 \in G
  BY <1>4, Zenon
<1> QED
  BY <1>3, <1>5

-----------------------------------------------------------------------------
(* Remainders                                                              *)

\* A number is its quotient times the divisor, and its remainder.
LEMMA DivRest ==
    ASSUME NEW a \in Nat, NEW n \in Nat \ {0}
    PROVE  a \div n \in Nat /\ a % n \in 0..(n - 1) /\ a = n * (a \div n) + (a % n)
<1>1. a % n \in 0..(n - 1)
  OBVIOUS
<1>2. a \div n \in Nat
  OBVIOUS
<1>3. a = n * (a \div n) + (a % n)
  OBVIOUS
<1> QED
  BY <1>1, <1>2, <1>3, Zenon

\* Between -n and n there is no multiple of n but 0.
LEMMA SmallMultiple ==
    ASSUME NEW n \in Nat \ {0}, NEW q \in Int, n * q < n, 0 - n < n * q
    PROVE  q = 0
<1>1. q >= 1 => n * q >= n
  OBVIOUS
<1>2. q <= 0 - 1 => n * q <= 0 - n
  OBVIOUS
<1> QED
  BY <1>1, <1>2

\* A number has one remainder.
LEMMA SameRest ==
    ASSUME NEW n \in Nat \ {0}, NEW q1 \in Int, NEW q2 \in Int,
           NEW r1 \in 0..(n - 1), NEW r2 \in 0..(n - 1),
           n * q1 + r1 = n * q2 + r2
    PROVE  r1 = r2
<1> DEFINE d == q1 - q2
<1>1. d \in Int /\ n * d = r2 - r1
  OBVIOUS
<1>2. n * d < n /\ 0 - n < n * d
  BY <1>1
<1> HIDE DEF d
<1>3. d = 0
  BY <1>1, <1>2, SmallMultiple, Zenon
<1> QED
  BY <1>1, <1>3

\* Adding multiples of the ring's size leads to the same slot.
LEMMA ModShift ==
    ASSUME NEW a \in Nat, NEW q \in Nat, NEW n \in Nat \ {0}
    PROVE  (a + n * q) % n = a % n
<1> DEFINE b == a + n * q
           da == a \div n
           db == b \div n
           ra == a % n
           rb == b % n
<1>1. b \in Nat
  OBVIOUS
<1>2. da \in Nat /\ ra \in 0..(n - 1) /\ a = n * da + ra
  BY DivRest, Zenon
<1>3. b = a + n * q
  BY Zenon
<1> HIDE DEF b
<1>4. db \in Nat /\ rb \in 0..(n - 1) /\ b = n * db + rb
  BY <1>1, DivRest, Zenon
<1> HIDE DEF da, db, ra, rb
<1>5. n * (da + q) + ra = n * db + rb /\ da + q \in Int
  BY <1>2, <1>3, <1>4
<1>6. ra = rb
  BY <1>2, <1>4, <1>5, SameRest
<1> QED
  BY <1>6, Zenon DEF ra, rb, b

\* Two numbers less than n apart, with the same remainder, are equal.
LEMMA ModUnique ==
    ASSUME NEW a \in Nat, NEW b \in Nat, NEW n \in Nat \ {0}, a % n = b % n,
           a < b + n, b < a + n
    PROVE  a = b
<1> DEFINE da == a \div n
           db == b \div n
           ra == a % n
           d == da - db
<1>1. da \in Nat /\ ra \in 0..(n - 1) /\ a = n * da + ra
  BY DivRest, Zenon
<1>2. db \in Nat /\ b = n * db + ra
  BY DivRest, Zenon
<1> HIDE DEF da, db, ra
<1>3. d \in Int /\ n * d = a - b
  BY <1>1, <1>2
<1> HIDE DEF d
<1>4. d = 0
  BY <1>3, SmallMultiple
<1> QED
  BY <1>3, <1>4

-----------------------------------------------------------------------------
(* The ring                                                                *)
LEMMA CountIsNat ==
    ASSUME typed \in Seq(Keys)
    PROVE  count \in Nat
  BY DEF count

\* The slot of a cursor that has been written holds a key that was pressed.
LEMMA SlotHoldsKey ==
    ASSUME typed \in Seq(Keys), NEW c \in Nat, c < count
    PROVE  /\ Slot(c) \in 1..count
           /\ (Slot(c) - 1) % SIZE = c % SIZE /\ Slot(c) + SIZE > count
<1> DEFINE Is(k) == (k - 1) % SIZE = c % SIZE /\ k + SIZE > count
           a == (count - 1) - c
           q == a \div SIZE
           r == a % SIZE
           k0 == c + SIZE * q + 1
<1>0. count \in Nat /\ SIZE \in Nat \ {0}
  BY CountIsNat, ConsoleAssumption, Zenon
<1>1. a \in Nat
  BY <1>0
<1> HIDE DEF a
<1>2. q \in Nat /\ r \in 0..(SIZE - 1) /\ a = SIZE * q + r
  BY <1>0, <1>1, DivRest, Zenon
<1> HIDE DEF q, r
<1>3. SIZE * q \in Nat
  BY <1>0, <1>2
<1>4. k0 = count - r /\ k0 \in 1..count
  BY <1>0, <1>2, <1>3 DEF a
<1>5. (c + SIZE * q) % SIZE = c % SIZE
  BY <1>0, <1>2, ModShift, Zenon
<1>6. k0 - 1 = c + SIZE * q
  BY <1>0, <1>3
<1>7. k0 + SIZE > count
  BY <1>0, <1>2, <1>4
<1>8. Is(k0)
  BY <1>5, <1>6, <1>7, Zenon
<1> HIDE DEF k0
<1>9. \E k \in 1..count : Is(k)
  BY <1>4, <1>8, Zenon
<1>10. Slot(c) = CHOOSE k \in 1..count : Is(k)
  BY Zenon DEF Slot
<1> HIDE DEF Is
<1>11. Slot(c) \in 1..count /\ Is(Slot(c))
  BY <1>9, <1>10, Zenon
<1> QED
  BY <1>11, Zenon DEF Is

\* A cursor that the ring has not overtaken finds the key it is waiting for.
LEMMA SlotIsNextKey ==
    ASSUME typed \in Seq(Keys), NEW c \in Nat, c < count, count <= c + SIZE
    PROVE  Slot(c) = c + 1
<1> DEFINE k == Slot(c)
<1>0. count \in Nat /\ SIZE \in Nat \ {0}
  BY CountIsNat, ConsoleAssumption, Zenon
<1>1. k \in 1..count /\ (k - 1) % SIZE = c % SIZE /\ k + SIZE > count
  BY SlotHoldsKey, Zenon
<1> HIDE DEF k
<1> DEFINE j == k - 1
<1>2. j \in Nat /\ j % SIZE = c % SIZE /\ j < c + SIZE /\ c < j + SIZE
  BY <1>0, <1>1
<1> HIDE DEF j
<1>3. j = c
  BY <1>0, <1>2, ModUnique, Zenon
<1>4. k = c + 1
  BY <1>0, <1>1, <1>3 DEF j
<1> QED
  BY <1>4, Zenon DEF k

-----------------------------------------------------------------------------
(* The loop that maps scancodes                                            *)

\* The loop over the keys is what its body says of the previous round.
LEMMA MapLoopIs ==
    ASSUME NEW keys \in Seq(Nat), NEW len
    PROVE  MapLoop(keys, len) =
             [i \in 0..Len(keys) |->
                 IF i = 0 THEN MapNone ELSE MapNext(MapLoop(keys, len)[i - 1], keys[i], len)]
<1> DEFINE Is(f, n) == f = [i \in 0..n |-> IF i = 0 THEN MapNone ELSE MapNext(f[i - 1], keys[i], len)]
           G == {n \in Nat : \E f : Is(f, n)}
<1>1. 0 \in G
  <2> DEFINE g == [i \in 0..0 |-> MapNone]
  <2>1. Is(g, 0)
    OBVIOUS
  <2> QED
    BY <2>1, Zenon
<1>2. ASSUME NEW n \in Nat, n \in G
      PROVE  n + 1 \in G
  <2>1. PICK f : Is(f, n)
    BY <1>2, Zenon
  <2> DEFINE g == [i \in 0..(n + 1) |-> IF i = n + 1 THEN MapNext(f[n], keys[n + 1], len) ELSE f[i]]
  <2>2. ASSUME NEW i \in 0..(n + 1)
        PROVE  g[i] = IF i = 0 THEN MapNone ELSE MapNext(g[i - 1], keys[i], len)
    <3>1. i # 0 => g[i - 1] = f[i - 1]
      OBVIOUS
    <3>2. CASE i = n + 1
      BY <3>1, <3>2
    <3>3. CASE i # n + 1
      <4>1. i \in 0..n
        BY <3>3
      <4>2. f[i] = IF i = 0 THEN MapNone ELSE MapNext(f[i - 1], keys[i], len)
        BY <4>1, <2>1, Zenon
      <4> QED
        BY <4>1, <4>2, <3>1, <3>3, Zenon
    <3> QED
      BY <3>2, <3>3, Zenon
  <2>3. g = [i \in 0..(n + 1) |-> g[i]]
    BY Zenon
  <2> HIDE DEF g
  <2>4. Is(g, n + 1)
    BY <2>2, <2>3, Zenon
  <2> HIDE DEF Is
  <2>5. n + 1 \in Nat
    OBVIOUS
  <2> QED
    BY <2>4, <2>5, Zenon
<1>3. \A n \in Nat : n \in G
  <2> HIDE DEF G
  <2> QED
    BY <1>1, <1>2, SetInduction, Zenon
<1>4. \E f : Is(f, Len(keys))
  BY <1>3
<1>5. Is(CHOOSE f : Is(f, Len(keys)), Len(keys))
  BY <1>4, Zenon
<1>6. MapLoop(keys, len) = CHOOSE f : Is(f, Len(keys))
  BY Zenon DEF MapLoop
<1> QED
  BY <1>5, <1>6, Zenon

\* The sum of the bytes of the first keys.
LEMMA BytesUpToIs ==
    ASSUME NEW keys \in Seq(Nat)
    PROVE  BytesUpTo(keys) =
             [i \in 0..Len(keys) |->
                 IF i = 0 THEN 0 ELSE BytesUpTo(keys)[i - 1] + Bytes(typed[keys[i]])]
<1> DEFINE Is(f, n) == f = [i \in 0..n |-> IF i = 0 THEN 0 ELSE f[i - 1] + Bytes(typed[keys[i]])]
           G == {n \in Nat : \E f : Is(f, n)}
<1>1. 0 \in G
  <2> DEFINE g == [i \in 0..0 |-> 0]
  <2>1. Is(g, 0)
    OBVIOUS
  <2> QED
    BY <2>1, Zenon
<1>2. ASSUME NEW n \in Nat, n \in G
      PROVE  n + 1 \in G
  <2>1. PICK f : Is(f, n)
    BY <1>2, Zenon
  <2> DEFINE g == [i \in 0..(n + 1) |-> IF i = n + 1 THEN f[n] + Bytes(typed[keys[n + 1]]) ELSE f[i]]
  <2>2. ASSUME NEW i \in 0..(n + 1)
        PROVE  g[i] = IF i = 0 THEN 0 ELSE g[i - 1] + Bytes(typed[keys[i]])
    <3>1. i # 0 => g[i - 1] = f[i - 1]
      OBVIOUS
    <3>2. CASE i = n + 1
      BY <3>1, <3>2
    <3>3. CASE i # n + 1
      <4>1. i \in 0..n
        BY <3>3
      <4>2. f[i] = IF i = 0 THEN 0 ELSE f[i - 1] + Bytes(typed[keys[i]])
        BY <4>1, <2>1, Zenon
      <4> QED
        BY <4>1, <4>2, <3>1, <3>3, Zenon
    <3> QED
      BY <3>2, <3>3, Zenon
  <2>3. g = [i \in 0..(n + 1) |-> g[i]]
    BY Zenon
  <2> HIDE DEF g
  <2>4. Is(g, n + 1)
    BY <2>2, <2>3, Zenon
  <2> HIDE DEF Is
  <2>5. n + 1 \in Nat
    OBVIOUS
  <2> QED
    BY <2>4, <2>5
<1>3. \A n \in Nat : n \in G
  <2> HIDE DEF G
  <2> QED
    BY <1>1, <1>2, SetInduction, Zenon
<1>4. \E f : Is(f, Len(keys))
  BY <1>3
<1>5. Is(CHOOSE f : Is(f, Len(keys)), Len(keys))
  BY <1>4, Zenon
<1>6. BytesUpTo(keys) = CHOOSE f : Is(f, Len(keys))
  BY Zenon DEF BytesUpTo
<1> QED
  BY <1>5, <1>6, Zenon


\* One more key adds its own bytes.
LEMMA BytesOfAppend ==
    ASSUME NEW s \in Seq(Nat), NEW k \in Nat
    PROVE  BytesUpTo(Append(s, k))[Len(s) + 1] = BytesUpTo(s)[Len(s)] + Bytes(typed[k])
<1> DEFINE a == Append(s, k)
           f == BytesUpTo(s)
           g == BytesUpTo(a)
           G == {n \in Nat : n <= Len(s) => g[n] = f[n]}
<1>1. a \in Seq(Nat) /\ Len(a) = Len(s) + 1 /\ a[Len(s) + 1] = k
  OBVIOUS
<1>2. \A i \in 1..Len(s) : a[i] = s[i]
  OBVIOUS
<1>3. f = [i \in 0..Len(s) |-> IF i = 0 THEN 0 ELSE f[i - 1] + Bytes(typed[s[i]])]
  BY BytesUpToIs, Zenon
<1> HIDE DEF a
<1>4. g = [i \in 0..Len(a) |-> IF i = 0 THEN 0 ELSE g[i - 1] + Bytes(typed[a[i]])]
  BY <1>1, BytesUpToIs, Zenon
<1> HIDE DEF f, g
<1>5. Len(s) \in Nat
  OBVIOUS
<1>6. 0 \in G
  BY <1>1, <1>3, <1>4, <1>5
<1>7. ASSUME NEW n \in Nat, n \in G
      PROVE  n + 1 \in G
  <2>1. SUFFICES ASSUME n + 1 <= Len(s) PROVE g[n + 1] = f[n + 1]
    OBVIOUS
  <2>2. g[n] = f[n]
    BY <1>5, <1>7, <2>1
  <2>3. f[n + 1] = f[n] + Bytes(typed[s[n + 1]])
    BY <1>3, <1>5, <2>1
  <2>4. g[n + 1] = g[n] + Bytes(typed[a[n + 1]])
    BY <1>1, <1>4, <1>5, <2>1
  <2>5. a[n + 1] = s[n + 1]
    BY <1>2, <1>5, <2>1
  <2> QED
    BY <2>2, <2>3, <2>4, <2>5, Zenon
<1>8. Len(s) \in G
  <2> HIDE DEF G
  <2> QED
    BY <1>5, <1>6, <1>7, SetInduction, Zenon
<1>9. g[Len(s)] = f[Len(s)]
  BY <1>5, <1>8
<1>10. g[Len(s) + 1] = g[Len(s)] + Bytes(typed[k])
  BY <1>1, <1>4, <1>5
<1> QED
  BY <1>9, <1>10, Zenon DEF f, g, a

\* A call that has mapped the first i of its keys: whole keys, of those it has read
\* and in their order, that fit into the buffer.
MappedOK(r, keys, len, i) ==
    /\ r.keys \in Seq(Nat) /\ r.bytes \in Nat /\ r.bytes <= len
    /\ \A j \in DOMAIN r.keys : \E m \in 1..i : r.keys[j] = keys[m]
    /\ Increasing(keys) => Increasing(r.keys)
    /\ r.bytes = BytesUpTo(r.keys)[Len(r.keys)]

\* One round of the loop keeps that.
LEMMA MapNextOK ==
    ASSUME typed \in Seq(Keys), NEW keys \in Seq(Nat), NEW len \in Nat, NEW n \in Nat,
           \A i \in DOMAIN keys : keys[i] \in 1..count,
           n + 1 <= Len(keys), NEW r, MappedOK(r, keys, len, n)
    PROVE  MappedOK(MapNext(r, keys[n + 1], len), keys, len, n + 1)
<1> DEFINE k == keys[n + 1]
           m == MapKey(typed[k], len - r.bytes)
           x == MapNext(r, k, len)
           s == r.keys
<1> SUFFICES MappedOK(x, keys, len, n + 1)
  BY Zenon
<1>0. Len(keys) \in Nat /\ n + 1 \in 1..Len(keys) /\ DOMAIN keys = 1..Len(keys)
  OBVIOUS
<1>1. k \in 1..count /\ k \in Nat /\ typed[k] \in Keys
  BY <1>0 DEF count
<1>2. s \in Seq(Nat) /\ r.bytes \in Nat /\ r.bytes <= len /\ r.bytes = BytesUpTo(s)[Len(s)]
  BY Zenon DEF MappedOK
<1>3. \A j \in DOMAIN s : \E i \in 1..n : s[j] = keys[i]
  BY Zenon DEF MappedOK
<1>4. Increasing(keys) => Increasing(s)
  BY Zenon DEF MappedOK
<1>5. \A j \in DOMAIN s : \E i \in 1..(n + 1) : s[j] = keys[i]
  BY <1>3
<1>6. MappedOK(r, keys, len, n + 1)
  BY <1>2, <1>4, <1>5, Zenon DEF MappedOK
<1>7. Bytes(typed[k]) \in 0..3
  BY <1>1 DEF Bytes, Keys
<1>8. m \in {NoSpace, Panics} \/ (m = Bytes(typed[k]) /\ m <= len - r.bytes)
  BY <1>2, <1>7 DEF MapKey
<1>9. CASE x = r \/ x = [keys |-> s, bytes |-> r.bytes, end |-> m]
  <2>1. x.keys = s /\ x.bytes = r.bytes
    BY <1>9
  <2> QED
    BY <1>6, <2>1, Zenon DEF MappedOK
<1>10. CASE m \notin {NoSpace, Panics} /\ x = [keys |-> IF m = 0 THEN s ELSE Append(s, k), bytes |-> r.bytes + m, end |-> 0]
  <2>1. m = Bytes(typed[k]) /\ m \in 0..3 /\ m <= len - r.bytes
    BY <1>7, <1>8, <1>10, Zenon
  <2>2. CASE m = 0
    <3>1. x.keys = s /\ x.bytes = r.bytes
      BY <1>2, <1>10, <2>2
    <3> QED
      BY <1>6, <3>1 DEF MappedOK
  <2>3. CASE m # 0
    <3> DEFINE a == Append(s, k)
    <3>1. x.keys = a /\ x.bytes = r.bytes + m
      BY <1>10, <2>3
    <3>2. a \in Seq(Nat) /\ Len(a) = Len(s) + 1 /\ a[Len(s) + 1] = k /\ \A j \in 1..Len(s) : a[j] = s[j]
      BY <1>1, <1>2
    <3>d. DOMAIN a = 1..(Len(s) + 1) /\ DOMAIN s = 1..Len(s) /\ Len(s) \in Nat
      BY <1>1, <1>2
    <3>3. BytesUpTo(a)[Len(s) + 1] = BytesUpTo(s)[Len(s)] + Bytes(typed[k])
      BY <1>1, <1>2, BytesOfAppend, Zenon
    <3> HIDE DEF a, s, x, k, m
    <3>4. \A j \in DOMAIN a : \E i \in 1..(n + 1) : a[j] = keys[i]
      <4> TAKE j \in DOMAIN a
      <4>1. CASE j = Len(s) + 1
        BY <3>2, <4>1 DEF k
      <4>2. CASE j \in DOMAIN s
        BY <1>5, <3>2, <3>d, <4>2, Zenon
      <4> QED
        BY <3>d, <4>1, <4>2
    <3>5. ASSUME Increasing(keys) PROVE Increasing(a)
      <4>1. ASSUME NEW j \in DOMAIN s PROVE s[j] < k
        <5>1. PICK i \in 1..n : s[j] = keys[i]
          BY <1>3, Zenon
        <5>a. i \in DOMAIN keys /\ n + 1 \in DOMAIN keys /\ i < n + 1
          BY <1>0
        <5>2. keys[i] < keys[n + 1]
          BY <5>a, <3>5, Zenon DEF Increasing
        <5> QED
          BY <5>1, <5>2, Zenon DEF k
      <4>2. Increasing(s)
        BY <1>4, <3>5, Zenon
      <4>3. ASSUME NEW i \in DOMAIN a, NEW j \in DOMAIN a, i < j PROVE a[i] < a[j]
        <5>a. i \in 1..(Len(s) + 1) /\ j \in 1..(Len(s) + 1)
          BY <3>d, Zenon
        <5>b. i \in 1..Len(s)
          BY <3>d, <4>3, <5>a
        <5>1. i \in DOMAIN s /\ a[i] = s[i]
          BY <3>2, <3>d, <5>b, Zenon
        <5>2. CASE j = Len(s) + 1
          BY <3>2, <4>1, <5>1, <5>2, Zenon
        <5>3. CASE j \in DOMAIN s
          BY <3>2, <3>d, <4>2, <4>3, <5>1, <5>3, Zenon DEF Increasing
        <5> QED
          BY <3>d, <5>2, <5>3
      <4> QED
        BY <4>3, Zenon DEF Increasing
    <3>6. x.bytes \in Nat /\ x.bytes <= len
      <4>1. r.bytes \in Nat /\ m \in Nat /\ m <= len - r.bytes
        BY <1>2, <2>1
      <4>2. r.bytes + m \in Nat /\ r.bytes + m <= len
        BY <4>1
      <4> QED
        BY <3>1, <4>2, Zenon
    <3>7. x.bytes = BytesUpTo(a)[Len(a)]
      BY <1>2, <2>1, <3>1, <3>2, <3>3, Zenon
    <3> QED
      BY <3>1, <3>2, <3>4, <3>5, <3>6, <3>7, Zenon DEF MappedOK
  <2> QED
    BY <2>2, <2>3, Zenon
<1> QED
  BY <1>9, <1>10, Zenon DEF MapNext

\* What a whole call returns.
LEMMA MappedIsOK ==
    ASSUME typed \in Seq(Keys), NEW keys \in Seq(Nat), NEW len \in Nat,
           \A i \in DOMAIN keys : keys[i] \in 1..count
    PROVE  MappedOK(Mapped(keys, len), keys, len, Len(keys))
<1> DEFINE f == MapLoop(keys, len)
           G == {n \in Nat : n <= Len(keys) => MappedOK(f[n], keys, len, n)}
<1>0. Len(keys) \in Nat
  OBVIOUS
<1>1. f = [i \in 0..Len(keys) |-> IF i = 0 THEN MapNone ELSE MapNext(f[i - 1], keys[i], len)]
  BY MapLoopIs, Zenon
<1> HIDE DEF f
<1>2. MappedOK(MapNone, keys, len, 0)
  <2> DEFINE e == <<>>
             f0 == BytesUpTo(e)
  <2>1. e \in Seq(Nat) /\ Len(e) = 0
    OBVIOUS
  <2> HIDE DEF e
  <2>2. f0 = [i \in 0..Len(e) |-> IF i = 0 THEN 0 ELSE f0[i - 1] + Bytes(typed[e[i]])]
    BY <2>1, BytesUpToIs, Zenon
  <2> HIDE DEF f0
  <2>3. f0[0] = 0
    BY <2>1, <2>2
  <2>4. BytesUpTo(<<>>)[Len(<<>>)] = 0
    BY <2>3, <2>1, Zenon DEF f0, e
  <2> QED
    BY <2>4 DEF MappedOK, MapNone, Increasing
<1>3. 0 \in G
  BY <1>0, <1>1, <1>2
<1>4. ASSUME NEW n \in Nat, n \in G
      PROVE  n + 1 \in G
  <2>1. SUFFICES ASSUME n + 1 <= Len(keys) PROVE MappedOK(f[n + 1], keys, len, n + 1)
    OBVIOUS
  <2>2. MappedOK(f[n], keys, len, n)
    BY <1>0, <1>4, <2>1
  <2>3. f[n + 1] = MapNext(f[n], keys[n + 1], len)
    BY <1>0, <1>1, <2>1
  <2> QED
    BY <2>1, <2>2, <2>3, MapNextOK, Zenon
<1>5. Len(keys) \in G
  <2> HIDE DEF G
  <2> QED
    BY <1>0, <1>3, <1>4, SetInduction, Zenon
<1> QED
  BY <1>0, <1>5 DEF Mapped, f

-----------------------------------------------------------------------------
(* Types, cursors and guards                                               *)
Pcs == {"idle", "check", "insert", "load", "echo", "dead"} \cup UnderGuard
CallSet == [pc : Pcs, len : Nat, at : Nat, off : Nat, keys : Seq(Nat)]

Types ==
    /\ proc \in [Threads -> Procs]
    /\ typed \in Seq(Keys) /\ count <= MaxKeys
    /\ stdin \in [Procs -> SUBSET Nat] /\ off \in [Procs -> Nat]
    /\ wrt \in Threads \cup {None} /\ rdr \in SUBSET Threads /\ (wrt # None => rdr = {})
    /\ th \in [Threads -> CallSet]
    /\ got \in [Procs -> Seq(Nat)] /\ steady \in SUBSET Procs

\* Every process has at most one cursor, and it is a usize.
Cursors == \A p \in Procs : stdin[p] = {} \/ \E c \in 0..(WordSize - 1) : stdin[p] = {c}

\* A call that reads has a cursor; its keys were pressed and fit into its buffer.
CallOK(t) ==
    /\ \A i \in DOMAIN th[t].keys : th[t].keys[i] \in 1..count
    /\ th[t].pc = "echo" \/ Len(th[t].keys) <= th[t].len
    /\ th[t].pc \in UnderGuard \cup {"load"} => stdin[P(t)] # {}
    /\ th[t].pc = "fetch" => th[t].at < count /\ Len(th[t].keys) < th[t].len
    /\ th[t].pc = "echo" => th[t].keys # <<>>

ReadInv == Types /\ Cursors /\ (\A t \in Threads : CallOK(t)) /\ GuardsAreLive

\* The cursor of a process that has one.
LEMMA CursorIs ==
    ASSUME Types, Cursors, NEW t \in Threads, stdin[P(t)] # {}
    PROVE  Cursor(t) \in 0..(WordSize - 1) /\ stdin[P(t)] = {Cursor(t)}
<1>1. P(t) \in Procs
  BY Zenon DEF Types, P
<1>2. PICK c \in 0..(WordSize - 1) : stdin[P(t)] = {c}
  BY <1>1, Zenon DEF Cursors
<1>3. Cursor(t) \in stdin[P(t)]
  BY <1>2, Zenon DEF Cursor
<1> QED
  BY <1>2, <1>3, Zenon

\* No call is open at the start.
LEMMA InitReadInv == Init => ReadInv
<1> SUFFICES ASSUME Init PROVE ReadInv
  BY Zenon
<1> USE ConsoleAssumption DEF Init
<1>1. Types
  BY DEF Types, count, CallSet, Pcs, Idle, Call, UnderGuard
<1>2. Cursors
  BY Zenon DEF Cursors
<1>3. ASSUME NEW t \in Threads PROVE CallOK(t)
  <2>1. th[t].pc = "idle" /\ th[t].len = 0 /\ th[t].keys = <<>>
    BY DEF Idle, Call
  <2>2. DOMAIN th[t].keys = {} /\ Len(th[t].keys) <= th[t].len
    BY <2>1
  <2>3. th[t].pc \notin UnderGuard \cup {"load", "fetch", "echo"}
    BY <2>1 DEF UnderGuard
  <2> QED BY <2>2, <2>3, Zenon DEF CallOK
<1>4. GuardsAreLive
  BY Zenon DEF GuardsAreLive, Idle, Call, UnderGuard
<1> QED
  BY <1>1, <1>2, <1>3, <1>4, Zenon DEF ReadInv

\* A step of thread t in its call leaves the other calls alone.
Only(t) == \A u \in Threads \ {t} : th'[u] = th[u]

\* What a call has to keep when t moves: the others see the same ring, and lose
\* no cursor.
LEMMA OthersOK ==
    ASSUME ReadInv, NEW t \in Threads, Only(t), typed' = typed, proc' = proc,
           \A p \in Procs : stdin[p] # {} => stdin'[p] # {}, CallOK(t)'
    PROVE  \A u \in Threads : CallOK(u)'
<1>1. ASSUME NEW u \in Threads, u # t PROVE CallOK(u)'
  <2>1. CallOK(u) /\ th'[u] = th[u] /\ count' = count /\ P(u)' = P(u) /\ P(u) \in Procs
    BY <1>1, Zenon DEF ReadInv, Only, count, P, Types
  <2> QED
    BY <2>1, Zenon DEF CallOK
<1> QED
  BY <1>1, Zenon

\* What the lock of open_files has to keep when t moves and keeps or drops its guard.
LEMMA OthersGuards ==
    ASSUME ReadInv, NEW t \in Threads, Only(t),
           rdr' \in SUBSET Threads, \A u \in Threads \ {t} : u \in rdr' <=> u \in rdr,
           th'[t].pc \in UnderGuard => t \in rdr',
           t \in rdr' => th'[t].pc \in UnderGuard \cup {"dead"},
           wrt' = wrt \/ (wrt' = t /\ th'[t].pc = "dead"),
           th[t].pc # "dead"
    PROVE  GuardsAreLive'
<1>1. ASSUME NEW u \in Threads
      PROVE  (th'[u].pc \in UnderGuard => u \in rdr') /\ (u \in rdr' => th'[u].pc \in UnderGuard \cup {"dead"})
  BY Zenon DEF ReadInv, GuardsAreLive, Only
<1>2. wrt' # None => th'[wrt'].pc = "dead"
  BY Zenon DEF ReadInv, Types, GuardsAreLive, Only
<1> QED
  BY <1>1, <1>2, Zenon DEF GuardsAreLive

\* The steps of a call keep the invariant, one lemma per step.
LEMMA KeyPressInv ==
    ASSUME ReadInv, NEW k \in Keys, KeyPress(k)
    PROVE  ReadInv'
<1>0. ConsoleAssumption /\ Types /\ Cursors /\ GuardsAreLive
  BY ConsoleAssumption, Zenon DEF ReadInv
<1>1. UNCHANGED <<proc, stdin, off, wrt, rdr, got, th>> /\ typed' = Append(typed, k) /\ steady' \subseteq steady
  BY Zenon DEF KeyPress, world, output
<1>2. count \in Nat /\ count' = count + 1
  BY <1>0, <1>1 DEF Types, count
<1>3. count' <= MaxKeys
  <2>1. PICK x \in Texts : count < Len(x)
    BY Zenon DEF KeyPress
  <2> QED
    BY <1>0, <1>2, <2>1 DEF ConsoleAssumption
<1>4. Types'
  BY <1>0, <1>1, <1>3 DEF Types
<1>5. Cursors' /\ GuardsAreLive'
  BY <1>0, <1>1, Zenon DEF Cursors, GuardsAreLive
<1>6. \A t \in Threads : CallOK(t)'
  <2> TAKE t \in Threads
  <2>1. CallOK(t) /\ th[t] \in CallSet /\ P(t)' = P(t)
    BY <1>0, <1>1, Zenon DEF ReadInv, Types, P
  <2> QED
    BY <1>1, <1>2, <2>1 DEF CallOK, CallSet
<1> QED
  BY <1>4, <1>5, <1>6, Zenon DEF ReadInv

\* A call starts with nothing read.
LEMMA ReadStepInv ==
    ASSUME ReadInv, NEW t \in Threads, NEW len \in Lens, Read(t, len)
    PROVE  ReadInv'
<1>0. ConsoleAssumption /\ Types /\ Cursors /\ GuardsAreLive /\ P(t) \in Procs
  BY ConsoleAssumption, Zenon DEF ReadInv, Types, P
<1>1. UNCHANGED <<proc, typed, stdin, off, wrt, rdr, got>> /\ steady' \subseteq steady
  BY Zenon DEF Read, world, output
<1>2. th' = [th EXCEPT ![t] = Call("check", len, off[P(t)], <<>>)] /\ th[t].pc = "idle"
  BY Zenon DEF Read, At
<1>3. Call("check", len, off[P(t)], <<>>) \in CallSet
  BY <1>0 DEF Call, CallSet, Pcs, Types, ConsoleAssumption
<1>4. Types'
  BY <1>0, <1>1, <1>2, <1>3, Zenon DEF Types, count
<1>5. Only(t) /\ th'[t] = Call("check", len, off[P(t)], <<>>)
  BY <1>0, <1>2, Zenon DEF Only, Types
<1>6. Cursors'
  BY <1>0, <1>1, Zenon DEF Cursors
<1>7. CallOK(t)'
  BY <1>0, <1>5 DEF CallOK, Call, UnderGuard, ConsoleAssumption
<1>8. \A u \in Threads : CallOK(u)'
  BY <1>1, <1>5, <1>7, OthersOK, Zenon
<1>9. GuardsAreLive'
  <2>1. t \notin rdr /\ th'[t].pc = "check"
    BY <1>0, <1>2, <1>5 DEF GuardsAreLive, UnderGuard, Call
  <2> QED
    BY <1>0, <1>1, <1>2, <1>5, <2>1, OthersGuards, Zenon DEF Types, UnderGuard
<1> QED
  BY <1>4, <1>6, <1>8, <1>9, Zenon DEF ReadInv

\* sys_seek only sets the offset.
LEMMA SeekInv ==
    ASSUME ReadInv, NEW t \in Threads, Seek(t)
    PROVE  ReadInv'
<1>1. UNCHANGED <<proc, typed, stdin, wrt, rdr, got, steady, th>> /\ off' = [off EXCEPT ![P(t)] = 0]
  BY Zenon DEF Seek, world, output
<1>2. Types'
  BY <1>1, Zenon DEF ReadInv, Types, count
<1>3. Cursors' /\ GuardsAreLive' /\ \A u \in Threads : CallOK(u)'
  BY <1>1, Zenon DEF ReadInv, Cursors, GuardsAreLive, CallOK, P, count
<1> QED
  BY <1>2, <1>3, Zenon DEF ReadInv

\* A step that only changes where t is, and what it notes.
LEMMA LocalInv ==
    ASSUME ReadInv, NEW t \in Threads, UNCHANGED <<proc, input>>,
           NEW r \in CallSet, th' = [th EXCEPT ![t] = r],
           \A i \in DOMAIN r.keys : r.keys[i] \in 1..count,
           r.pc # "echo" /\ Len(r.keys) <= r.len,
           r.pc \in UnderGuard \cup {"load"} => stdin[P(t)] # {},
           r.pc = "fetch" => r.at < count /\ Len(r.keys) < r.len,
           th[t].pc # "dead" /\ r.pc # "dead", r.pc \in UnderGuard <=> th[t].pc \in UnderGuard
    PROVE  ReadInv'
<1>0. Types /\ Cursors /\ GuardsAreLive
  BY Zenon DEF ReadInv
<1>1. UNCHANGED <<proc, typed, stdin, off, wrt, rdr, got, steady>>
  BY Zenon DEF input
<1>2. Types'
  BY <1>0, <1>1, Zenon DEF Types, count
<1>3. Only(t) /\ th'[t] = r
  BY <1>0, Zenon DEF Types, Only
<1>4. Cursors'
  BY <1>0, <1>1, Zenon DEF Cursors
<1>5. CallOK(t)'
  BY <1>1, <1>3, Zenon DEF CallOK, count, P
<1>6. \A u \in Threads : CallOK(u)'
  BY <1>1, <1>3, <1>5, OthersOK, Zenon
<1>7. (t \in rdr => r.pc \in UnderGuard) /\ (r.pc \in UnderGuard => t \in rdr)
  BY <1>0, Zenon DEF GuardsAreLive
<1>8. GuardsAreLive'
  BY <1>0, <1>1, <1>3, <1>7, OthersGuards, Zenon DEF Types
<1> QED
  BY <1>2, <1>4, <1>6, <1>8, Zenon DEF ReadInv

\* ensure_init's test: the cursor it finds is there for good.
LEMMA CheckInv ==
    ASSUME ReadInv, NEW t \in Threads, Check(t)
    PROVE  ReadInv'
<1> DEFINE l == IF stdin[P(t)] # {} THEN "load" ELSE "insert"
           r == [th[t] EXCEPT !.pc = l]
<1>1. th[t] \in CallSet /\ CallOK(t) /\ th[t].pc = "check" /\ UNCHANGED <<proc, input>>
  BY Zenon DEF ReadInv, Types, Check, At, world
<1>2. th' = [th EXCEPT ![t] = r]
  BY <1>1, Zenon DEF Check, Goto
<1>3. r \in CallSet /\ r.pc = l /\ r.keys = th[t].keys /\ r.len = th[t].len
  BY <1>1, Zenon DEF CallSet, Pcs
<1> HIDE DEF r
<1>4. r.pc = "load" => stdin[P(t)] # {}
  BY <1>3, Zenon
<1> QED
  BY <1>1, <1>2, <1>3, <1>4, LocalInv, Zenon DEF CallOK, UnderGuard

\* The call takes the cursor it was left with.
LEMMA StartInv ==
    ASSUME ReadInv, NEW t \in Threads, Start(t)
    PROVE  ReadInv'
<1> DEFINE r == [th[t] EXCEPT !.pc = "test", !.at = Cursor(t)]
<1>1. th[t] \in CallSet /\ CallOK(t) /\ th[t].pc = "start" /\ UNCHANGED <<proc, input>>
  BY Zenon DEF ReadInv, Types, Start, At, world
<1>2. th' = [th EXCEPT ![t] = r]
  BY <1>1, Zenon DEF Start
<1>3. stdin[P(t)] # {} /\ Cursor(t) \in Nat
  BY <1>1, CursorIs DEF ReadInv, CallOK, UnderGuard
<1>4. r \in CallSet /\ r.pc = "test" /\ r.keys = th[t].keys /\ r.len = th[t].len
  BY <1>1, <1>3, Zenon DEF CallSet, Pcs, UnderGuard
<1> HIDE DEF r
<1> QED
  BY <1>1, <1>2, <1>3, <1>4, LocalInv, Zenon DEF CallOK, UnderGuard

\* The test of readn bounds the fetch that follows.
LEMMA TestInv ==
    ASSUME ReadInv, NEW t \in Threads, Test(t)
    PROVE  ReadInv'
<1> DEFINE l == IF cursor_is_valid(th[t].at) /\ Len(th[t].keys) < th[t].len THEN "fetch" ELSE "advance"
           r == [th[t] EXCEPT !.pc = l]
<1>1. th[t] \in CallSet /\ CallOK(t) /\ th[t].pc = "test" /\ UNCHANGED <<proc, input>>
  BY Zenon DEF ReadInv, Types, Test, At, world
<1>2. th' = [th EXCEPT ![t] = r]
  BY <1>1, Zenon DEF Test, Goto
<1>3. r \in CallSet /\ r.pc = l /\ r.keys = th[t].keys /\ r.len = th[t].len /\ r.at = th[t].at
  BY <1>1, Zenon DEF CallSet, Pcs, UnderGuard
<1>4. l = "fetch" => th[t].at < count /\ Len(th[t].keys) < th[t].len
  BY Zenon DEF cursor_is_valid
<1>5. l \in {"fetch", "advance"}
  BY Zenon
<1> HIDE DEF r, l
<1> QED
  BY <1>1, <1>2, <1>3, <1>4, <1>5, LocalInv, Zenon DEF CallOK, UnderGuard

\* The slot that is read holds a key, even if presses came after the test.
LEMMA FetchInv ==
    ASSUME ReadInv, NEW t \in Threads, Fetch(t)
    PROVE  ReadInv'
<1> DEFINE k == Slot(th[t].at)
           ks == Append(th[t].keys, k)
           r == [th[t] EXCEPT !.pc = "test", !.at = @ + 1, !.keys = ks]
<1>1. th[t] \in CallSet /\ CallOK(t) /\ th[t].pc = "fetch" /\ UNCHANGED <<proc, input>>
  BY Zenon DEF ReadInv, Types, Fetch, At, world
<1>2. th[t].at \in Nat /\ th[t].keys \in Seq(Nat) /\ th[t].at < count /\ Len(th[t].keys) < th[t].len /\ th[t].len \in Nat
  BY <1>1, Zenon DEF CallOK, CallSet
<1>3. k \in 1..count /\ count \in Nat
  BY <1>2, SlotHoldsKey, CountIsNat, Zenon DEF ReadInv, Types
<1>4. th' = [th EXCEPT ![t] = r]
  BY <1>1, Zenon DEF Fetch
<1> HIDE DEF k
<1>5. ks \in Seq(Nat) /\ Len(ks) = Len(th[t].keys) + 1 /\ Len(ks) <= th[t].len
  BY <1>2, <1>3
<1>6. \A i \in DOMAIN ks : ks[i] \in 1..count
  BY <1>1, <1>2, <1>3 DEF CallOK
<1> HIDE DEF ks
<1>7. r.pc = "test" /\ r.keys = ks /\ r.len = th[t].len
  BY <1>1, Zenon DEF CallSet
<1>a. th[t].at + 1 \in Nat /\ "test" \in Pcs
  BY <1>2 DEF Pcs, UnderGuard
<1>b. r \in CallSet
  BY <1>1, <1>5, <1>a, Zenon DEF CallSet
<1> HIDE DEF r
<1>8. stdin[P(t)] # {}
  BY <1>1, Zenon DEF CallOK, UnderGuard
<1> QED
  BY <1>1, <1>4, <1>5, <1>6, <1>7, <1>8, <1>b, LocalInv, Zenon DEF UnderGuard

\* A step that also sets the cursor of its process.
LEMMA CursorStepInv ==
    ASSUME ReadInv, NEW t \in Threads, UNCHANGED <<proc, typed, off, wrt, rdr, got>>, steady' \subseteq steady,
           NEW l \in Pcs, Goto(t, l), NEW c \in 0..(WordSize - 1),
           stdin' = stdin \/ stdin' = [stdin EXCEPT ![P(t)] = {c}],
           l \in {"load", "start", "map"}, th[t].pc \in {"insert", "valid", "advance"},
           stdin'[P(t)] # {},
           l \in UnderGuard <=> th[t].pc \in UnderGuard
    PROVE  ReadInv'
<1>0. Types /\ Cursors /\ GuardsAreLive /\ CallOK(t) /\ th[t] \in CallSet /\ P(t) \in Procs
  BY Zenon DEF ReadInv, Types, P
<1>1. th' = [th EXCEPT ![t] = [th[t] EXCEPT !.pc = l]]
  BY <1>0, Zenon DEF Goto, Types
<1>2. [th[t] EXCEPT !.pc = l] \in CallSet
  BY <1>0, Zenon DEF CallSet
<1>3. \A p \in Procs : stdin'[p] = stdin[p] \/ stdin'[p] = {c}
  BY <1>0 DEF Types
<1>4. Types'
  <2>a. {c} \in SUBSET Nat
    BY ConsoleAssumption DEF ConsoleAssumption
  <2>1. stdin' \in [Procs -> SUBSET Nat]
    <3>1. stdin \in [Procs -> SUBSET Nat]
      BY <1>0, Zenon DEF Types
    <3>2. [stdin EXCEPT ![P(t)] = {c}] \in [Procs -> SUBSET Nat]
      BY <2>a, <3>1, Zenon
    <3> QED
      BY <3>1, <3>2, Zenon
  <2> QED
    BY <1>0, <1>1, <1>2, <2>1, Zenon DEF Types, count
<1>5. Only(t) /\ th'[t] = [th[t] EXCEPT !.pc = l]
  BY <1>0, <1>1 DEF Types, Only
<1>6. th'[t].pc = l /\ th'[t].keys = th[t].keys /\ th'[t].len = th[t].len
  BY <1>0, <1>5, Zenon DEF CallSet
<1>7. Cursors'
  BY <1>0, <1>3, Zenon DEF Cursors
<1>8. CallOK(t)'
  BY <1>0, <1>6, Zenon DEF CallOK, count, P
<1>9. \A u \in Threads : CallOK(u)'
  BY <1>3, <1>5, <1>8, OthersOK, Zenon
<1>10. (t \in rdr => l \in UnderGuard) /\ (l \in UnderGuard => t \in rdr)
  BY <1>0, Zenon DEF GuardsAreLive
<1>11. GuardsAreLive'
  BY <1>0, <1>5, <1>6, <1>10, OthersGuards, Zenon DEF Types
<1> QED
  BY <1>4, <1>7, <1>9, <1>11, Zenon DEF ReadInv

\* get_current wraps around, and stays a usize.
LEMMA CurrentIsWord ==
    ASSUME typed \in Seq(Keys)
    PROVE  get_current \in 0..(WordSize - 1)
<1>1. count \in Nat /\ WordSize \in Nat \ {0} /\ count + WordSize - 1 \in Nat
  BY CountIsNat, ConsoleAssumption DEF ConsoleAssumption
<1> QED
  BY <1>1, DivRest, Zenon DEF get_current

\* The first read of a process inserts its cursor, or is killed with the lock.
LEMMA InsertCursorInv ==
    ASSUME ReadInv, NEW t \in Threads, InsertCursor(t)
    PROVE  ReadInv'
<1>0. Types /\ Cursors /\ GuardsAreLive /\ CallOK(t) /\ th[t] \in CallSet /\ P(t) \in Procs
  BY Zenon DEF ReadInv, Types, P
<1>1. th[t].pc = "insert" /\ wrt = None /\ rdr = {} /\ UNCHANGED <<proc, typed, off, rdr, got>>
  BY Zenon DEF InsertCursor, At, world
<1>2. CASE Goto(t, "dead") /\ wrt' = t /\ UNCHANGED <<stdin, steady>>
  <2>1. th' = [th EXCEPT ![t] = [th[t] EXCEPT !.pc = "dead"]] /\ [th[t] EXCEPT !.pc = "dead"] \in CallSet
    BY <1>0, <1>2, Zenon DEF Goto, Types, CallSet, Pcs
  <2>2. Types'
    BY <1>0, <1>1, <1>2, <2>1, Zenon DEF Types, count
  <2>3. Only(t) /\ th'[t] = [th[t] EXCEPT !.pc = "dead"]
    BY <1>0, <2>1, Zenon DEF Types, Only
  <2>4. th'[t].pc = "dead" /\ th'[t].keys = th[t].keys /\ th'[t].len = th[t].len
    BY <1>0, <2>3, Zenon DEF CallSet
  <2>5. Cursors'
    BY <1>0, <1>2, Zenon DEF Cursors
  <2>6. CallOK(t)'
    BY <1>0, <1>1, <2>4, Zenon DEF CallOK, count, P, UnderGuard
  <2>7. \A u \in Threads : CallOK(u)'
    BY <1>1, <1>2, <2>3, <2>6, OthersOK, Zenon
  <2>8. GuardsAreLive'
    BY <1>0, <1>1, <1>2, <2>3, <2>4, OthersGuards, Zenon DEF Types, UnderGuard
  <2> QED
    BY <2>2, <2>5, <2>7, <2>8, Zenon DEF ReadInv
<1>3. CASE /\ stdin' = [stdin EXCEPT ![P(t)] = {get_current}]
           /\ Goto(t, "load") /\ UNCHANGED wrt
           /\ steady' = IF count > 0 /\ stdin[P(t)] = {} THEN steady ELSE steady \ {P(t)}
  <2>1. get_current \in 0..(WordSize - 1) /\ stdin'[P(t)] # {} /\ steady' \subseteq steady
    BY <1>0, <1>3, CurrentIsWord, Zenon DEF Types
  <2>2. "load" \in Pcs /\ ("load" \in UnderGuard <=> th[t].pc \in UnderGuard)
    BY <1>1, Zenon DEF Pcs, UnderGuard
  <2> QED
    BY <1>1, <1>3, <2>1, <2>2, CursorStepInv, Zenon
<1> QED
  BY <1>2, <1>3, Zenon DEF InsertCursor

\* A cursor that is set anew is a usize.
LEMMA ValidateInv ==
    ASSUME ReadInv, NEW t \in Threads, Validate(t)
    PROVE  ReadInv'
<1> DEFINE c == SatSub(get_current, IF th[t].len < SIZE THEN th[t].len ELSE SIZE)
<1>0. Types /\ CallOK(t) /\ th[t] \in CallSet /\ P(t) \in Procs
  BY Zenon DEF ReadInv, Types, P
<1>1. th[t].pc = "valid" /\ Goto(t, "start") /\ UNCHANGED <<proc, typed, off, wrt, rdr, got, steady>>
  BY Zenon DEF Validate, At, world
<1>2. stdin' = stdin \/ stdin' = [stdin EXCEPT ![P(t)] = {c}]
  BY Zenon DEF Validate
<1>3. c \in 0..(WordSize - 1)
  <2>1. get_current \in 0..(WordSize - 1) /\ WordSize \in Nat /\ SIZE \in Nat /\ th[t].len \in Nat
    BY <1>0, CurrentIsWord, ConsoleAssumption, Zenon DEF Types, CallSet, ConsoleAssumption
  <2> DEFINE d == IF th[t].len < SIZE THEN th[t].len ELSE SIZE
  <2>2. d \in Nat
    BY <2>1, Zenon
  <2> HIDE DEF d
  <2>3. SatSub(get_current, d) \in 0..(WordSize - 1)
    BY <2>1, <2>2 DEF SatSub
  <2> QED
    BY <2>3, Zenon DEF d
<1>4. stdin'[P(t)] # {}
  <2>1. stdin[P(t)] # {}
    BY <1>0, <1>1, Zenon DEF CallOK, UnderGuard
  <2> HIDE DEF c
  <2>2. stdin'[P(t)] = stdin[P(t)] \/ stdin'[P(t)] = {c}
    BY <1>0, <1>2 DEF Types
  <2> QED
    BY <2>1, <2>2, Zenon
<1>5. "start" \in Pcs /\ ("start" \in UnderGuard <=> th[t].pc \in UnderGuard)
  BY <1>1, Zenon DEF Pcs, UnderGuard
<1> HIDE DEF c
<1> QED
  BY <1>1, <1>2, <1>3, <1>4, <1>5, CursorStepInv, Zenon

\* The cursor that has moved is a usize.
LEMMA AdvanceInv ==
    ASSUME ReadInv, NEW t \in Threads, Advance(t)
    PROVE  ReadInv'
<1> DEFINE c == (Cursor(t) + Len(th[t].keys)) % WordSize
<1>0. Types /\ Cursors /\ CallOK(t) /\ th[t] \in CallSet /\ P(t) \in Procs
  BY Zenon DEF ReadInv, Types, P
<1>1. th[t].pc = "advance" /\ Goto(t, "map") /\ UNCHANGED <<proc, typed, off, wrt, rdr, got, steady>>
  BY Zenon DEF Advance, At, world
<1>2. stdin' = [stdin EXCEPT ![P(t)] = {c}]
  BY Zenon DEF Advance
<1>3. Cursor(t) \in Nat /\ Len(th[t].keys) \in Nat /\ WordSize \in Nat \ {0}
  BY <1>0, <1>1, CursorIs, ConsoleAssumption, SMTT(30) DEF CallOK, UnderGuard, CallSet, ConsoleAssumption
<1>4. c \in 0..(WordSize - 1)
  <2> DEFINE x == Cursor(t) + Len(th[t].keys)
  <2>1. x \in Nat
    BY <1>3
  <2> HIDE DEF x
  <2>2. x % WordSize \in 0..(WordSize - 1)
    BY <1>3, <2>1, DivRest, Zenon
  <2> QED
    BY <2>2, Zenon DEF x
<1>5. stdin'[P(t)] # {}
  BY <1>0, <1>2, Zenon DEF Types
<1>6. "map" \in Pcs /\ ("map" \in UnderGuard <=> th[t].pc \in UnderGuard)
  BY <1>1, Zenon DEF Pcs, UnderGuard
<1> HIDE DEF c
<1> QED
  BY <1>1, <1>2, <1>4, <1>5, <1>6, CursorStepInv, Zenon

\* A call that returns keys it has read.
LEMMA ReturnInv ==
    ASSUME ReadInv, NEW t \in Threads, NEW keys \in Seq(Nat), NEW bytes \in Nat, Return(t, keys, bytes),
           UNCHANGED <<proc, typed, stdin, wrt, steady>>, th[t].pc # "dead",
           \A i \in DOMAIN keys : keys[i] \in 1..count
    PROVE  ReadInv'
<1> DEFINE r == Call(IF keys = <<>> THEN "idle" ELSE "echo", 0, 0, keys)
<1>0. Types /\ Cursors /\ GuardsAreLive /\ P(t) \in Procs
  BY Zenon DEF ReadInv, Types, P
<1>1. /\ rdr' = rdr \ {t}
      /\ got' = [got EXCEPT ![P(t)] = @ \o keys]
      /\ off' = [off EXCEPT ![P(t)] = @ + bytes]
      /\ th' = [th EXCEPT ![t] = r]
  BY Zenon DEF Return
<1>2. r \in CallSet /\ r.pc = (IF keys = <<>> THEN "idle" ELSE "echo") /\ r.keys = keys
  BY Zenon DEF CallSet, Pcs, Call
<1> HIDE DEF r
<1>3. got' \in [Procs -> Seq(Nat)] /\ off' \in [Procs -> Nat]
  BY <1>0, <1>1 DEF Types
<1>4. Types'
  BY <1>0, <1>1, <1>2, <1>3, Zenon DEF Types, count
<1>5. Only(t) /\ th'[t] = r
  BY <1>0, <1>1, Zenon DEF Types, Only
<1>6. Cursors'
  BY <1>0, Zenon DEF Cursors
<1>7. CallOK(t)'
  BY <1>2, <1>5 DEF CallOK, count, UnderGuard, r, Call
<1>8. \A u \in Threads : CallOK(u)'
  BY <1>5, <1>7, OthersOK, Zenon
<1>9. r.pc \notin UnderGuard
  BY <1>2, Zenon DEF UnderGuard
<1>10. GuardsAreLive'
  BY <1>0, <1>1, <1>5, <1>9, OthersGuards, Zenon DEF Types
<1> QED
  BY <1>4, <1>6, <1>8, <1>10, Zenon DEF ReadInv

\* delegate takes the read lock, or returns at once.
LEMMA LoadCursorInv ==
    ASSUME ReadInv, NEW t \in Threads, LoadCursor(t)
    PROVE  ReadInv'
<1> DEFINE x == Cursor(t) + th[t].off
           a == x % WordSize
           r == [th[t] EXCEPT !.pc = "valid", !.at = a, !.off = 0]
<1>0. Types /\ Cursors /\ GuardsAreLive /\ CallOK(t) /\ th[t] \in CallSet /\ P(t) \in Procs
  BY DEF ReadInv, Types, P
<1>1. th[t].pc = "load" /\ wrt = None /\ UNCHANGED <<proc, typed, stdin, wrt, steady>>
  BY Zenon DEF LoadCursor, At, world
<1>2. CASE Return(t, <<>>, 0)
  <2>1. <<>> \in Seq(Nat) /\ \A i \in DOMAIN <<>> : <<>>[i] \in 1..count
    OBVIOUS
  <2> QED
    BY <1>1, <1>2, <2>1, ReturnInv, Zenon
<1>3. CASE /\ rdr' = rdr \cup {t} /\ UNCHANGED <<off, got>>
           /\ th' = [th EXCEPT ![t].pc = "valid", ![t].at = a, ![t].off = 0]
  <2>1. x \in Nat /\ WordSize \in Nat \ {0}
    BY <1>0, <1>1, CursorIs, ConsoleAssumption DEF CallOK, CallSet, ConsoleAssumption
  <2> HIDE DEF x
  <2>2. a \in Nat
    BY <2>1, DivRest
  <2> HIDE DEF a
  <2>3. th' = [th EXCEPT ![t] = r]
    BY <1>0, <1>3, Zenon DEF Types
  <2>4. r \in CallSet /\ r.pc = "valid" /\ r.keys = th[t].keys /\ r.len = th[t].len
    BY <1>0, <2>2, Zenon DEF CallSet, Pcs, UnderGuard
  <2> HIDE DEF r
  <2>5. Types'
    BY <1>0, <1>1, <1>3, <2>3, <2>4, ZenonT(40) DEF Types, count
  <2>6. Only(t) /\ th'[t] = r
    BY <1>0, <2>3, Zenon DEF Types, Only
  <2>7. Cursors'
    BY <1>0, <1>1, Zenon DEF Cursors
  <2>8. CallOK(t)'
    BY <1>0, <1>1, <2>4, <2>6, Zenon DEF CallOK, count, P
  <2>9. \A u \in Threads : CallOK(u)'
    BY <1>1, <2>6, <2>8, OthersOK, Zenon
  <2>10. GuardsAreLive'
    BY <1>0, <1>1, <1>3, <2>4, <2>6, OthersGuards, Zenon DEF Types, UnderGuard
  <2> QED
    BY <2>5, <2>7, <2>9, <2>10 DEF ReadInv
<1> QED
  BY <1>2, <1>3, Zenon DEF LoadCursor

\* The keys that a call returns, or its end in a panic.
LEMMA MapKeysInv ==
    ASSUME ReadInv, NEW t \in Threads, MapKeys(t)
    PROVE  ReadInv'
<1> DEFINE ks == th[t].keys
           m == Mapped(ks, th[t].len)
<1>0. Types /\ Cursors /\ GuardsAreLive /\ CallOK(t) /\ th[t] \in CallSet /\ P(t) \in Procs
  BY DEF ReadInv, Types, P
<1>1. th[t].pc = "map" /\ UNCHANGED <<proc, typed, stdin, wrt, steady>>
  BY Zenon DEF MapKeys, At, world
<1>2. CASE Return(t, m.keys, m.bytes)
  <2>1. ks \in Seq(Nat) /\ th[t].len \in Nat /\ typed \in Seq(Keys) /\ \A i \in DOMAIN ks : ks[i] \in 1..count
    BY <1>0, Zenon DEF CallSet, CallOK, Types
  <2>2. MappedOK(m, ks, th[t].len, Len(ks))
    BY <2>1, MappedIsOK, Zenon
  <2> HIDE DEF m, ks
  <2>3. m.keys \in Seq(Nat) /\ m.bytes \in Nat /\ \A j \in DOMAIN m.keys : m.keys[j] \in 1..count
    <3>1. DOMAIN ks = 1..Len(ks)
      BY <2>1
    <3> QED
      BY <2>1, <2>2, <3>1, Zenon DEF MappedOK
  <2> QED
    BY <1>1, <1>2, <2>3, ReturnInv, Zenon
<1>3. CASE Goto(t, "dead") /\ UNCHANGED <<rdr, got, off>>
  <2> DEFINE r == [th[t] EXCEPT !.pc = "dead"]
  <2>1. th' = [th EXCEPT ![t] = r]
    BY <1>0, <1>3, Zenon DEF Goto, Types
  <2>2. r \in CallSet /\ r.pc = "dead" /\ r.keys = th[t].keys /\ r.len = th[t].len
    BY <1>0, Zenon DEF CallSet, Pcs
  <2> HIDE DEF r
  <2>3. Types'
    BY <1>0, <1>1, <1>3, <2>1, <2>2, Zenon DEF Types, count
  <2>4. Only(t) /\ th'[t] = r
    BY <1>0, <2>1, Zenon DEF Types, Only
  <2>5. Cursors'
    BY <1>0, <1>1, Zenon DEF Cursors
  <2>6. CallOK(t)'
    BY <1>0, <1>1, <2>2, <2>4, Zenon DEF CallOK, count, P, UnderGuard
  <2>7. \A u \in Threads : CallOK(u)'
    BY <1>1, <2>4, <2>6, OthersOK, Zenon
  <2>8. GuardsAreLive'
    BY <1>0, <1>1, <1>3, <2>2, <2>4, OthersGuards, Zenon DEF Types, UnderGuard
  <2> QED
    BY <2>3, <2>5, <2>7, <2>8 DEF ReadInv
<1> QED
  BY <1>2, <1>3, Zenon DEF MapKeys

\* Echoing uses up the keys of the call.
LEMMA EchoInv ==
    ASSUME ReadInv, NEW t \in Threads, Echo(t)
    PROVE  ReadInv'
<1> DEFINE ks == th[t].keys
           l == IF Len(ks) = 1 THEN "idle" ELSE "echo"
           r == [th[t] EXCEPT !.keys = Tail(ks), !.pc = l]
<1>0. Types /\ Cursors /\ GuardsAreLive /\ CallOK(t) /\ th[t] \in CallSet /\ P(t) \in Procs
  BY DEF ReadInv, Types, P
<1>1. th[t].pc = "echo" /\ UNCHANGED <<proc, typed, stdin, off, wrt, rdr, got, steady>>
  BY Zenon DEF Echo, At, world, input
<1>2. ks \in Seq(Nat) /\ ks # <<>> /\ \A i \in DOMAIN ks : ks[i] \in 1..count
  BY <1>0, <1>1, Zenon DEF CallSet, CallOK
<1>3. th' = [th EXCEPT ![t] = r]
  BY <1>0, Zenon DEF Echo, Types
<1>4. Tail(ks) \in Seq(Nat) /\ \A i \in DOMAIN Tail(ks) : Tail(ks)[i] \in 1..count
  BY <1>2
<1>5. (l = "idle" /\ Tail(ks) = <<>>) \/ (l = "echo" /\ Tail(ks) # <<>>)
  <2>1. Len(ks) \in Nat /\ Len(ks) # 0 /\ Len(Tail(ks)) = Len(ks) - 1
    BY <1>2
  <2>2. CASE Len(ks) = 1
    BY <1>4, <2>1, <2>2
  <2>3. CASE Len(ks) # 1
    <3>1. Len(Tail(ks)) # 0 /\ Len(<<>>) = 0
      BY <2>1, <2>3
    <3>2. Tail(ks) # <<>>
      BY <3>1, Zenon
    <3> QED
      BY <2>3, <3>2, Zenon
  <2> QED
    BY <2>2, <2>3, Zenon
<1>6. r \in CallSet /\ r.pc = l /\ r.keys = Tail(ks) /\ r.len = th[t].len
  BY <1>0, <1>4, <1>5, Zenon DEF CallSet, Pcs
<1> HIDE DEF r, l, ks
<1>7. Types'
  BY <1>0, <1>1, <1>3, <1>6, Zenon DEF Types, count
<1>8. Only(t) /\ th'[t] = r
  BY <1>0, <1>3 DEF Types, Only
<1>9. Cursors'
  BY <1>0, <1>1, Zenon DEF Cursors
<1>10. CallOK(t)'
  <2>1. th[t].len \in Nat /\ Len(<<>>) = 0
    BY <1>0, Zenon DEF CallSet
  <2>2. th'[t].pc = l /\ th'[t].keys = Tail(ks) /\ th'[t].len = th[t].len /\ count' = count
    BY <1>1, <1>6, <1>8, Zenon DEF count
  <2>3. CASE l = "idle" /\ Tail(ks) = <<>>
    <3>a. Len(th'[t].keys) = 0 /\ th'[t].len \in Nat
      BY <2>1, <2>2, <2>3, Zenon
    <3>1. Len(th'[t].keys) <= th'[t].len
      BY <3>a
    <3> QED
      BY <1>4, <2>2, <2>3, <3>1, Zenon DEF CallOK, UnderGuard
  <2>4. CASE l = "echo" /\ Tail(ks) # <<>>
    BY <1>4, <2>2, <2>4, Zenon DEF CallOK, UnderGuard
  <2> QED
    BY <1>5, <2>3, <2>4, Zenon
<1>11. \A u \in Threads : CallOK(u)'
  BY <1>1, <1>8, <1>10, OthersOK, Zenon
<1>12. GuardsAreLive'
  <2>1. t \notin rdr /\ r.pc \notin UnderGuard
    BY <1>0, <1>1, <1>5, <1>6, Zenon DEF GuardsAreLive, UnderGuard
  <2> QED
    BY <1>0, <1>1, <1>8, <2>1, OthersGuards, Zenon DEF Types
<1> QED
  BY <1>7, <1>9, <1>11, <1>12 DEF ReadInv

\* Nothing else touches what the calls use.
LEMMA SameReadInv ==
    ASSUME ReadInv, UNCHANGED <<proc, input, th>>
    PROVE  ReadInv'
  BY Zenon DEF ReadInv, Types, Cursors, CallOK, GuardsAreLive, input, count, P

\* Every step keeps the invariant of the reads.
LEMMA NextReadInv ==
    ASSUME ReadInv, [Next]_vars
    PROVE  ReadInv'
<1>1. ASSUME NEW k \in Keys, KeyPress(k) PROVE ReadInv'
  BY <1>1, KeyPressInv, Zenon
<1>2. ASSUME NEW t \in Threads, Reading(t) PROVE ReadInv'
  BY <1>2, CheckInv, InsertCursorInv, LoadCursorInv, ValidateInv, StartInv, TestInv, FetchInv,
     AdvanceInv, MapKeysInv, EchoInv, Zenon DEF Reading
<1>3. ASSUME NEW t \in Threads, Seek(t) PROVE ReadInv'
  BY <1>3, SeekInv, Zenon
<1>4. ASSUME NEW t \in Threads, NEW len \in Lens, Read(t, len) PROVE ReadInv'
  BY <1>4, ReadStepInv, Zenon
<1>5. CASE Driver \/ UNCHANGED vars
  BY <1>5, SameReadInv, Zenon DEF Driver, Flush, NextSink, vars, world
<1> QED
  BY <1>1, <1>2, <1>3, <1>4, <1>5, Zenon DEF Next

\* The parts of a reader's state that the types follow from.
THEOREM ReadInvariance == Spec => []ReadInv
<1>1. Init => ReadInv
  BY InitReadInv, Zenon
<1>2. ReadInv /\ [Next]_vars => ReadInv'
  BY NextReadInv, Zenon
<1> QED
  BY <1>1, <1>2, PTL DEF Spec

\* Whoever waits for the lock of open_files holds no part of it (StdInFileFactory):
\* ensure_init and delegate take it one after the other, never one inside the other.
THEOREM GuardsLive == Spec => []GuardsAreLive
<1>1. ReadInv => GuardsAreLive
  BY Zenon DEF ReadInv
<1> QED
  BY <1>1, ReadInvariance, PTL

\* A read returns whole keys, and never more than its buffer holds (read_buf).
THEOREM WholeKeys == Spec => []KeysAreWhole
<1>1. ReadInv => KeysAreWhole
  <2> SUFFICES ASSUME ReadInv, NEW t \in Threads
               PROVE  LET r == Mapped(th[t].keys, th[t].len)
                      IN  r.bytes = BytesUpTo(r.keys)[Len(r.keys)] /\ r.bytes <= th[t].len
    BY Zenon DEF KeysAreWhole
  <2>1. /\ th[t].keys \in Seq(Nat) /\ th[t].len \in Nat /\ typed \in Seq(Keys)
        /\ \A i \in DOMAIN th[t].keys : th[t].keys[i] \in 1..count
    BY Zenon DEF ReadInv, Types, CallSet, CallOK
  <2>2. MappedOK(Mapped(th[t].keys, th[t].len), th[t].keys, th[t].len, Len(th[t].keys))
    BY <2>1, MappedIsOK, Zenon
  <2> QED
    BY <2>2, Zenon DEF MappedOK
<1> QED
  BY <1>1, ReadInvariance, PTL

=============================================================================
