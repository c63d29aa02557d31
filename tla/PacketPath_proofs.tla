-------------------------- MODULE PacketPath_proofs --------------------------
(***************************************************************************)
(* Proofs about PacketPath, and about the functions on bytes it is built   *)
(* from: what ValueCodec and Checksums compute, for messages of any        *)
(* length, and what becomes of any packet.                                 *)
(***************************************************************************)
EXTENDS PacketPath, SequenceTheorems, FiniteSetTheorems, WellFoundedInduction, TLAPS

-----------------------------------------------------------------------------
(* Loops. Induction is on a set, the numbers for which the claim holds: the *)
(* well-founded order of the numbers gives the smallest one outside.        *)

LEMMA Induction ==
  ASSUME NEW S, 0 \in S, \A n \in Nat : n \in S => n + 1 \in S
  PROVE  Nat \subseteq S
  <1> DEFINE T == {n \in Nat : n \notin S}
             R == OpToRel(<, Nat)
  <1>1. IsWellFoundedOn(R, Nat)
    BY NatLessThanWellFounded
  <1>2. \A m, n \in Nat : m < n => <<m, n>> \in R
    BY DEF OpToRel
  <1> HIDE DEF R
  <1>3. SUFFICES ASSUME T # {} PROVE FALSE
    OBVIOUS
  <1>4. PICK n \in T : \A m \in T : ~(<<m, n>> \in R)
    BY <1>1, <1>3, WFMin
  <1>5. n - 1 \in Nat /\ n - 1 < n
    BY <1>4
  <1>6. n - 1 \notin T
    BY <1>2, <1>4, <1>5
  <1>7. n - 1 \in S /\ (n - 1) + 1 = n
    BY <1>5, <1>6
  <1> QED BY <1>4, <1>5, <1>7

\* f is what a loop of n rounds computes, round i taking x to step[i][x].
Computes(f, T, base, n, step) ==
    /\ f \in [0..n -> T]
    /\ f[0] = base
    /\ \A i \in 1..n : f[i] = step[i][f[i - 1]]
Terminates(T, base, n, step) == \E f : Computes(f, T, base, n, step)

LEMMA LoopsTerminate ==
  ASSUME NEW T, NEW base, NEW n, NEW step,
         base \in T, n \in Nat, step \in [1..n -> [T -> T]]
  PROVE  Terminates(T, base, n, step)
  <1> DEFINE S == {k \in Nat : k <= n => Terminates(T, base, k, step)}
  <1>1. 0 \in S
    <2> DEFINE g == [i \in 0..0 |-> base]
    <2>1. g \in [0..0 -> T] /\ g[0] = base
      OBVIOUS
    <2> HIDE DEF g
    <2> QED BY <2>1 DEF Terminates, Computes
  <1>2. ASSUME NEW k \in Nat, k \in S, k + 1 <= n
        PROVE  Terminates(T, base, k + 1, step)
    <2>1. PICK f : Computes(f, T, base, k, step)
      BY <1>2 DEF Terminates
    <2> DEFINE g == [i \in 0..(k + 1) |-> IF i <= k THEN f[i] ELSE step[k + 1][f[k]]]
    <2>2. step[k + 1][f[k]] \in T
      BY <1>2, <2>1 DEF Computes
    <2>3. g \in [0..(k + 1) -> T]
      BY <2>1, <2>2 DEF Computes
    <2>4. g[0] = base
      BY <2>1 DEF Computes
    <2>5. ASSUME NEW i \in 1..(k + 1)
          PROVE  g[i] = step[i][g[i - 1]]
      BY <2>1, <2>5 DEF Computes
    <2> HIDE DEF g
    <2> QED BY <2>3, <2>4, <2>5 DEF Terminates, Computes
  <1>3. n \in S
    <2>1. \A k \in Nat : k \in S => k + 1 \in S
      BY <1>2
    <2> HIDE DEF S
    <2> QED BY <1>1, <2>1, Induction
  <1> QED BY <1>3

\* A loop computes one thing only.
LEMMA LoopsAreFunctions ==
  ASSUME NEW T, NEW base, NEW n \in Nat, NEW m \in 0..n, NEW step, NEW f, NEW g,
         Computes(f, T, base, n, step), Computes(g, T, base, m, step)
  PROVE  \A i \in 0..m : f[i] = g[i]
  <1> DEFINE S == {i \in Nat : i <= m => f[i] = g[i]}
  <1>1. 0 \in S
    BY DEF Computes
  <1>2. ASSUME NEW i \in Nat, i \in S PROVE i + 1 \in S
    BY <1>2 DEF Computes
  <1>3. Nat \subseteq S
    <2> HIDE DEF S
    <2> QED BY <1>1, <1>2, Induction
  <1> QED BY <1>3

-----------------------------------------------------------------------------
(* Sums. *)

AddStep(seq, n) == [i \in 1..n |-> [x \in Int |-> x + seq[i]]]

LEMMA SumComputes ==
  ASSUME NEW n \in Nat, NEW seq, \A i \in 1..n : seq[i] \in Int
  PROVE  \E sum : Computes(sum, Int, 0, n, AddStep(seq, n)) /\ SumTo(seq, n) = sum[n]
  <1>1. AddStep(seq, n) \in [1..n -> [Int -> Int]]
    BY DEF AddStep
  <1>2. PICK f : Computes(f, Int, 0, n, AddStep(seq, n))
    <2>1. 0 \in Int /\ n \in Nat
      OBVIOUS
    <2>2. Terminates(Int, 0, n, AddStep(seq, n))
      BY <1>1, <2>1, LoopsTerminate
    <2> QED BY <2>2 DEF Terminates
  <1>3. ASSUME NEW i \in 1..n, NEW x \in Int
        PROVE  AddStep(seq, n)[i][x] = x + seq[i]
    BY DEF AddStep
  <1> DEFINE Eq(t) == t = [i \in 0..n |-> IF i = 0 THEN 0 ELSE t[i - 1] + seq[i]]
             sum == CHOOSE t : Eq(t)
  <1>4. Eq(f)
    <2>1. f \in [0..n -> Int] /\ f[0] = 0
      BY <1>2 DEF Computes
    <2>2. ASSUME NEW i \in 1..n PROVE f[i] = f[i - 1] + seq[i]
      <3>1. f[i - 1] \in Int
        BY <2>1
      <3>2. f[i] = AddStep(seq, n)[i][f[i - 1]]
        BY <1>2 DEF Computes
      <3> QED BY <1>3, <3>1, <3>2
    <2> DEFINE t == [i \in 0..n |-> IF i = 0 THEN 0 ELSE f[i - 1] + seq[i]]
    <2>3. \A i \in 0..n : f[i] = t[i]
      BY <2>1, <2>2
    <2> QED BY <2>1, <2>3
  <1>5. Eq(sum)
    BY <1>4
  <1>6. SumTo(seq, n) = sum[n]
    BY DEF SumTo
  <1> HIDE DEF sum
  <1>7. /\ sum[0] = 0 /\ DOMAIN sum = 0..n
        /\ \A i \in 1..n : sum[i] = sum[i - 1] + seq[i]
    BY <1>5
  <1>8. \A i \in 0..n : sum[i] \in Int
    <2> DEFINE S == {i \in Nat : i <= n => sum[i] \in Int}
    <2>1. 0 \in S
      BY <1>7
    <2>2. ASSUME NEW i \in Nat, i \in S PROVE i + 1 \in S
      BY <1>7, <2>2
    <2>3. Nat \subseteq S
      <3> HIDE DEF S
      <3> QED BY <2>1, <2>2, Induction
    <2> QED BY <2>3
  <1>9. sum \in [0..n -> Int]
    <2>1. sum = [i \in 0..n |-> sum[i]]
      BY <1>5
    <2> QED BY <1>8, <2>1
  <1>10. ASSUME NEW i \in 1..n PROVE sum[i] = AddStep(seq, n)[i][sum[i - 1]]
    <2>1. sum[i - 1] \in Int
      BY <1>9
    <2> QED BY <1>3, <1>7, <2>1
  <1>11. Computes(sum, Int, 0, n, AddStep(seq, n))
    BY <1>7, <1>9, <1>10 DEF Computes
  <1> QED BY <1>6, <1>11

LEMMA SumZero ==
  ASSUME NEW seq PROVE SumTo(seq, 0) = 0
  <1>1. \A i \in 1..0 : seq[i] \in Int
    OBVIOUS
  <1>2. 0 \in Nat
    OBVIOUS
  <1>3. PICK sum : Computes(sum, Int, 0, 0, AddStep(seq, 0)) /\ SumTo(seq, 0) = sum[0]
    BY <1>1, <1>2, SumComputes
  <1> QED BY <1>3 DEF Computes

LEMMA SumNext ==
  ASSUME NEW n \in Nat, NEW seq, \A i \in 1..(n + 1) : seq[i] \in Int
  PROVE  /\ SumTo(seq, n) \in Int
         /\ SumTo(seq, n + 1) = SumTo(seq, n) + seq[n + 1]
  <1>1. n + 1 \in Nat /\ n \in 0..(n + 1) /\ \A i \in 1..n : seq[i] \in Int
    OBVIOUS
  <1>2. PICK f : Computes(f, Int, 0, n + 1, AddStep(seq, n + 1)) /\ SumTo(seq, n + 1) = f[n + 1]
    BY <1>1, SumComputes
  <1>3. PICK g : Computes(g, Int, 0, n, AddStep(seq, n)) /\ SumTo(seq, n) = g[n]
    BY <1>1, SumComputes
  <1>4. \A i \in 1..n : AddStep(seq, n)[i] = AddStep(seq, n + 1)[i]
    BY DEF AddStep
  <1>5. Computes(g, Int, 0, n, AddStep(seq, n + 1))
    BY <1>3, <1>4 DEF Computes
  <1>6. \A i \in 0..n : f[i] = g[i]
    BY <1>1, <1>2, <1>5, LoopsAreFunctions
  <1>7. f[n] = g[n] /\ g[n] \in Int
    BY <1>3, <1>6 DEF Computes
  <1>8. f[n + 1] = AddStep(seq, n + 1)[n + 1][f[n]]
    BY <1>2 DEF Computes
  <1>9. AddStep(seq, n + 1)[n + 1][f[n]] = f[n] + seq[n + 1]
    BY <1>7 DEF AddStep
  <1> QED BY <1>2, <1>3, <1>7, <1>8, <1>9

LEMMA SumInt ==
  ASSUME NEW n \in Nat, NEW seq, \A i \in 1..n : seq[i] \in Int
  PROVE  SumTo(seq, n) \in Int
  <1>1. PICK sum : Computes(sum, Int, 0, n, AddStep(seq, n)) /\ SumTo(seq, n) = sum[n]
    BY SumComputes
  <1> QED BY <1>1 DEF Computes

LEMMA SumAgree ==
  ASSUME NEW n \in Nat, NEW a, NEW b, \A i \in 1..n : a[i] \in Int /\ b[i] = a[i]
  PROVE  SumTo(b, n) = SumTo(a, n)
  <1> DEFINE S == {k \in Nat : k <= n => SumTo(b, k) = SumTo(a, k)}
  <1>1. 0 \in S
    BY SumZero
  <1>2. ASSUME NEW k \in Nat, k \in S PROVE k + 1 \in S
    <2>1. SUFFICES ASSUME k + 1 <= n PROVE SumTo(b, k + 1) = SumTo(a, k + 1)
      OBVIOUS
    <2>2. \A i \in 1..(k + 1) : a[i] \in Int /\ b[i] \in Int
      BY <2>1
    <2>3. SumTo(a, k + 1) = SumTo(a, k) + a[k + 1]
      BY <2>2, SumNext
    <2>4. SumTo(b, k + 1) = SumTo(b, k) + b[k + 1]
      BY <2>2, SumNext
    <2> QED BY <1>2, <2>1, <2>3, <2>4
  <1>3. Nat \subseteq S
    <2> HIDE DEF S
    <2> QED BY <1>1, <1>2, Induction
  <1> QED BY <1>3

\* A sum of 16-bit words.
LEMMA SumBound ==
  ASSUME NEW n \in Nat, NEW seq, \A i \in 1..n : seq[i] \in Nat /\ seq[i] <= 65535
  PROVE  SumTo(seq, n) \in Nat /\ SumTo(seq, n) <= 65535 * n
  <1> DEFINE S == {k \in Nat : k <= n => SumTo(seq, k) \in Nat /\ SumTo(seq, k) <= 65535 * k}
  <1>1. 0 \in S
    BY SumZero
  <1>2. ASSUME NEW k \in Nat, k \in S PROVE k + 1 \in S
    <2>1. SUFFICES ASSUME k + 1 <= n
                   PROVE  SumTo(seq, k + 1) \in Nat /\ SumTo(seq, k + 1) <= 65535 * (k + 1)
      OBVIOUS
    <2>2. \A i \in 1..(k + 1) : seq[i] \in Int
      BY <2>1
    <2>3. SumTo(seq, k + 1) = SumTo(seq, k) + seq[k + 1]
      BY <2>2, SumNext
    <2>4. /\ SumTo(seq, k) \in Nat /\ SumTo(seq, k) <= 65535 * k
          /\ seq[k + 1] \in Nat /\ seq[k + 1] <= 65535
      BY <1>2, <2>1
    <2> HIDE DEF S
    <2> QED BY <2>3, <2>4
  <1>3. Nat \subseteq S
    <2> HIDE DEF S
    <2> QED BY <1>1, <1>2, Induction
  <1> QED BY <1>3

LEMMA SumSplit ==
  ASSUME NEW m \in Nat, NEW n \in Nat, NEW seq, \A i \in 1..(m + n) : seq[i] \in Int
  PROVE  SumTo(seq, m + n) = SumTo(seq, m) + SumTo([i \in 1..n |-> seq[m + i]], n)
  <1> DEFINE rest == [i \in 1..n |-> seq[m + i]]
             S == {k \in Nat : k <= n => SumTo(seq, m + k) = SumTo(seq, m) + SumTo(rest, k)}
  <1>1. SumTo(seq, m) \in Int
    BY SumInt
  <1>2. \A i \in 1..n : rest[i] = seq[m + i] /\ rest[i] \in Int
    OBVIOUS
  <1> HIDE DEF rest
  <1>3. 0 \in S
    <2>1. SumTo(rest, 0) = 0
      BY SumZero
    <2> QED BY <1>1, <2>1
  <1>4. ASSUME NEW k \in Nat, k \in S PROVE k + 1 \in S
    <2>1. SUFFICES ASSUME k + 1 <= n
                   PROVE  SumTo(seq, m + (k + 1)) = SumTo(seq, m) + SumTo(rest, k + 1)
      OBVIOUS
    <2>2. m + k \in Nat /\ (m + k) + 1 = m + (k + 1) /\ \A i \in 1..((m + k) + 1) : seq[i] \in Int
      BY <2>1
    <2>3. SumTo(seq, (m + k) + 1) = SumTo(seq, m + k) + seq[(m + k) + 1]
      BY <2>2, SumNext
    <2>4. \A i \in 1..(k + 1) : rest[i] \in Int
      BY <1>2, <2>1
    <2>5. SumTo(rest, k) \in Int /\ SumTo(rest, k + 1) = SumTo(rest, k) + rest[k + 1]
      BY <2>4, SumNext
    <2>6. rest[k + 1] = seq[m + (k + 1)] /\ rest[k + 1] \in Int
      BY <1>2, <2>1
    <2>7. SumTo(seq, m + k) = SumTo(seq, m) + SumTo(rest, k)
      BY <1>4, <2>1
    <2> HIDE DEF S
    <2> QED BY <1>1, <2>2, <2>3, <2>5, <2>6, <2>7
  <1>5. Nat \subseteq S
    <2> HIDE DEF S
    <2> QED BY <1>3, <1>4, Induction
  <1>6. n \in S
    BY <1>5
  <1> QED BY <1>6 DEF rest

\* The carries of a sum below 2^32 are gone after two rounds, and what they leave
\* differs from it by a multiple of 2^16 - 1.
MaxSum == 4294836225
Folds(x, y) ==
    y \in Nat /\ y <= 65535 /\ (\E k \in Nat : x = 65535 * k + y) /\ (y = 0 => x = 0)

LEMMA FoldTwice ==
  ASSUME NEW x \in Nat, x <= MaxSum
  PROVE  Folds(x, FoldCarry(FoldCarry(x)))
  <1> DEFINE q == x \div 65536
             r == x % 65536
  <1>1. q \in Nat /\ q <= 65535 /\ r \in Nat /\ r <= 65535 /\ x = 65536 * q + r
    BY SMT DEF MaxSum
  <1>2. FoldCarry(x) = q + r
    BY <1>1, SMT DEF FoldCarry, HalfMod
  <1> HIDE DEF q, r
  <1> DEFINE y == q + r
             p == y \div 65536
             s == y % 65536
  <1>3. y \in Nat /\ y <= 131070
    BY <1>1, SMT
  <1> HIDE DEF y
  <1>4. p \in Nat /\ p <= 1 /\ s \in Nat /\ s <= 65535 /\ y = 65536 * p + s
    BY <1>3, SMT
  <1>5. FoldCarry(y) = p + s
    BY <1>3, <1>4, SMT DEF FoldCarry, HalfMod
  <1> HIDE DEF p, s
  <1>6. x = 65535 * (q + p) + (p + s) /\ q + p \in Nat
    BY <1>1, <1>4, SMT DEF y
  <1>7. p + s \in Nat /\ p + s <= 65535
    BY <1>3, <1>4, SMT
  <1>8. p + s = 0 => x = 0
    BY <1>1, <1>4, SMT DEF y
  <1>9. FoldCarry(FoldCarry(x)) = p + s
    BY <1>2, <1>5 DEF y
  <1> HIDE DEF y
  <1>10. \E k \in Nat : x = 65535 * k + (p + s)
    BY <1>6
  <1> QED BY <1>7, <1>8, <1>9, <1>10 DEF Folds

-----------------------------------------------------------------------------
(* Checksums. *)

LEMMA BytesAreSmall == \A b : b \in Bytes <=> b \in Nat /\ b < 256
  BY DEF Bytes

\* What the entry of a byte at place i counts.
Weight(i) == IF i % 2 = 1 THEN 256 ELSE 1

LEMMA WeightedIs ==
  ASSUME NEW msg \in Seq(Bytes)
  PROVE  \A i \in 1..Len(msg) :
            /\ msg[i] \in Nat /\ msg[i] < 256
            /\ Weighted(msg)[i] \in Nat /\ Weighted(msg)[i] = Weight(i) * msg[i]
  <1>1. TAKE i \in 1..Len(msg)
  <1>2. msg[i] \in Nat /\ msg[i] < 256
    BY BytesAreSmall
  <1>3. Weighted(msg)[i] = IF i % 2 = 1 THEN 256 * msg[i] ELSE msg[i]
    BY DEF Weighted
  <1> QED BY <1>2, <1>3, SMT DEF Weight

LEMMA WordsSum ==
  ASSUME NEW msg \in Seq(Bytes), NEW behind \in Bytes
  PROVE  LET words == Words(msg, behind)
         IN  /\ SumTo(words, Len(words)) =
                   BytesSum(msg) + (IF Len(msg) % 2 = 1 THEN behind ELSE 0)
             /\ SumTo(words, Len(words)) \in Nat
             /\ SumTo(words, Len(words)) <= 65535 * ((Len(msg) + 1) \div 2)
             /\ BytesSum(msg) \in Nat
  <1> DEFINE W == Words(msg, behind)
             V == Weighted(msg)
             m == (Len(msg) + 1) \div 2
             S == {k \in Nat : 2 * k <= Len(msg) => SumTo(W, k) = SumTo(V, 2 * k)}
  <1>1. behind \in Nat /\ behind < 256 /\ Len(msg) \in Nat /\ m \in Nat
    BY BytesAreSmall
  <1>2. \A i \in 1..Len(msg) : msg[i] \in Nat /\ msg[i] < 256 /\ V[i] \in Nat
                               /\ V[i] = Weight(i) * msg[i]
    BY WeightedIs
  <1>3. ASSUME NEW i \in 1..m
        PROVE  /\ W[i] \in Nat /\ W[i] <= 65535
               /\ 2 * i <= Len(msg) => W[i] = 256 * msg[2 * i - 1] + msg[2 * i]
               /\ 2 * i > Len(msg) => W[i] = 256 * msg[2 * i - 1] + behind
    <2>1. 2 * i - 1 \in 1..Len(msg)
      BY <1>1
    <2>2. msg[2 * i - 1] \in Nat /\ msg[2 * i - 1] < 256
      BY <1>2, <2>1
    <2>3. 2 * i <= Len(msg) => msg[2 * i] \in Nat /\ msg[2 * i] < 256
      BY <1>2
    <2>4. W[i] = 256 * msg[2 * i - 1] + (IF 2 * i <= Len(msg) THEN msg[2 * i] ELSE behind)
      BY DEF Words
    <2> HIDE DEF W, V, S, m
    <2> DEFINE high == msg[2 * i - 1]
               low  == msg[2 * i]
    <2>5. W[i] = 256 * high + (IF 2 * i <= Len(msg) THEN low ELSE behind)
      BY <2>4
    <2>6. high \in Nat /\ high < 256 /\ (2 * i <= Len(msg) => low \in Nat /\ low < 256)
      BY <2>2, <2>3
    <2> HIDE DEF high, low
    <2>7. i \in Nat
      OBVIOUS
    <2>8. CASE 2 * i <= Len(msg)
      <3>1. W[i] = 256 * high + low /\ low \in Nat /\ low < 256
        BY <2>5, <2>6, <2>8
      <3>2. W[i] \in Nat /\ W[i] <= 65535
        BY <2>6, <3>1
      <3> QED BY <1>1, <2>7, <2>8, <3>1, <3>2 DEF high, low
    <2>9. CASE ~(2 * i <= Len(msg))
      <3>1. W[i] = 256 * high + behind
        BY <2>5, <2>9
      <3>2. W[i] \in Nat /\ W[i] <= 65535
        BY <1>1, <2>6, <3>1
      <3> QED BY <1>1, <2>7, <2>9, <3>1, <3>2 DEF high, low
    <2> QED BY <2>8, <2>9
  <1>4. Len(W) = m
    BY <1>1 DEF Words
  <1>5. BytesSum(msg) = SumTo(V, Len(msg))
    BY DEF BytesSum
  <1> HIDE DEF W, V
  <1>6. 0 \in S
    BY SumZero
  <1>7. ASSUME NEW k \in Nat, k \in S PROVE k + 1 \in S
    <2>1. SUFFICES ASSUME 2 * (k + 1) <= Len(msg)
                   PROVE  SumTo(W, k + 1) = SumTo(V, 2 * (k + 1))
      OBVIOUS
    <2>2. k + 1 \in 1..m /\ \A i \in 1..(k + 1) : i \in 1..m
      BY <1>1, <2>1
    <2>3. SumTo(W, k) \in Int /\ SumTo(W, k + 1) = SumTo(W, k) + W[k + 1]
      BY <1>3, <2>2, SumNext
    <2>4. /\ 2 * k \in Nat /\ 2 * k + 1 \in Nat
          /\ \A i \in 1..((2 * k + 1) + 1) : V[i] \in Int
          /\ \A i \in 1..(2 * k + 1) : V[i] \in Int
      BY <1>2, <2>1
    <2>5. SumTo(V, 2 * k) \in Int /\ SumTo(V, 2 * k + 1) = SumTo(V, 2 * k) + V[2 * k + 1]
      BY <2>4, SumNext
    <2>6. SumTo(V, (2 * k + 1) + 1) = SumTo(V, 2 * k + 1) + V[(2 * k + 1) + 1]
      BY <2>4, SumNext
    <2>7. W[k + 1] = 256 * msg[2 * (k + 1) - 1] + msg[2 * (k + 1)]
      BY <1>3, <2>1, <2>2
    <2>8. (2 * k + 1) + 1 = 2 * (k + 1) /\ 2 * (k + 1) - 1 = 2 * k + 1
      BY SMT
    <2>9. V[2 * k + 1] = 256 * msg[2 * k + 1]
      BY <1>2, <2>1, SMT DEF Weight
    <2>10. V[2 * (k + 1)] = msg[2 * (k + 1)] /\ msg[2 * (k + 1)] \in Nat
      BY <1>2, <2>1, SMT DEF Weight
    <2>11. msg[2 * k + 1] \in Nat
      BY <1>2, <2>1
    <2>12. SumTo(W, k) = SumTo(V, 2 * k)
      BY <1>7, <2>1
    <2> HIDE DEF S
    <2>13. SumTo(V, 2 * (k + 1)) = (SumTo(V, 2 * k) + 256 * msg[2 * k + 1]) + msg[2 * (k + 1)]
      BY <2>5, <2>6, <2>8, <2>9, <2>10
    <2> QED BY <2>3, <2>5, <2>7, <2>8, <2>10, <2>11, <2>12, <2>13
  <1>8. Nat \subseteq S
    <2> HIDE DEF S
    <2> QED BY <1>6, <1>7, Induction
  <1>9. SumTo(V, Len(msg)) \in Int
    BY <1>1, <1>2, SumInt
  <1>10. SumTo(W, m) = SumTo(V, Len(msg)) + (IF Len(msg) % 2 = 1 THEN behind ELSE 0)
    <2>1. CASE Len(msg) % 2 = 0
      <3>1. 2 * m = Len(msg)
        BY <1>1, <2>1
      <3>2. SumTo(W, m) = SumTo(V, 2 * m)
        BY <1>1, <1>8, <3>1
      <3> HIDE DEF m
      <3> QED BY <1>9, <2>1, <3>1, <3>2
    <2>2. CASE Len(msg) % 2 = 1
      <3>1. PICK k \in Nat : Len(msg) = 2 * k + 1 /\ m = k + 1
        BY <1>1, <2>2
      <3> HIDE DEF m
      <3>2. SumTo(W, k) = SumTo(V, 2 * k)
        BY <1>8, <3>1
      <3>3. SumTo(W, k) \in Int /\ SumTo(W, k + 1) = SumTo(W, k) + W[k + 1]
        <4>1. \A i \in 1..(k + 1) : W[i] \in Int
          BY <1>3, <3>1
        <4> QED BY <4>1, SumNext
      <3>4. \A i \in 1..(2 * k + 1) : V[i] \in Int
        BY <1>2, <3>1
      <3>5. SumTo(V, 2 * k + 1) = SumTo(V, 2 * k) + V[2 * k + 1]
        BY <3>4, SumNext
      <3>6. V[2 * k + 1] = 256 * msg[2 * k + 1] /\ msg[2 * k + 1] \in Nat
        BY <1>2, <3>1, SMT DEF Weight
      <3>7. W[k + 1] = 256 * msg[2 * k + 1] + behind
        <4>1. k + 1 \in 1..m /\ 2 * (k + 1) > Len(msg) /\ 2 * (k + 1) - 1 = 2 * k + 1
          BY <3>1
        <4> QED BY <1>3, <4>1
      <3> QED BY <1>1, <2>2, <3>1, <3>2, <3>3, <3>5, <3>6, <3>7
    <2> QED BY <1>1, <2>1, <2>2
  <1>11. SumTo(W, m) \in Nat /\ SumTo(W, m) <= 65535 * m
    <2> HIDE DEF m
    <2> QED BY <1>1, <1>3, SumBound
  <1>12. BytesSum(msg) \in Nat
    <2>1. \A i \in 1..Len(msg) : V[i] \in Nat /\ V[i] <= 65535
      BY <1>2, SMT DEF Weight
    <2> QED BY <1>1, <1>5, <2>1, SumBound
  <1> QED BY <1>4, <1>5, <1>10, <1>11, <1>12 DEF W

\* A sum after one of its members has changed.
LEMMA SumChange ==
  ASSUME NEW n \in Nat, NEW j \in 1..n, NEW a, NEW b,
         \A i \in 1..n : a[i] \in Int /\ b[i] \in Int,
         \A i \in 1..n : i # j => b[i] = a[i]
  PROVE  SumTo(b, n) = SumTo(a, n) + (b[j] - a[j])
  <1> DEFINE S == {k \in Nat : k <= n => SumTo(b, k) = SumTo(a, k)
                                                       + (IF j <= k THEN b[j] - a[j] ELSE 0)}
  <1>1. 0 \in S
    BY SumZero
  <1>2. ASSUME NEW k \in Nat, k \in S PROVE k + 1 \in S
    <2>1. SUFFICES ASSUME k + 1 <= n
                   PROVE  SumTo(b, k + 1) = SumTo(a, k + 1)
                                             + (IF j <= k + 1 THEN b[j] - a[j] ELSE 0)
      OBVIOUS
    <2>2. \A i \in 1..(k + 1) : a[i] \in Int /\ b[i] \in Int
      BY <2>1
    <2>3. SumTo(a, k) \in Int /\ SumTo(a, k + 1) = SumTo(a, k) + a[k + 1]
      BY <2>2, SumNext
    <2>4. SumTo(b, k) \in Int /\ SumTo(b, k + 1) = SumTo(b, k) + b[k + 1]
      BY <2>2, SumNext
    <2>5. SumTo(b, k) = SumTo(a, k) + (IF j <= k THEN b[j] - a[j] ELSE 0)
      BY <1>2, <2>1
    <2>6. k + 1 # j => b[k + 1] = a[k + 1]
      BY <2>1
    <2>7. a[k + 1] \in Int /\ b[k + 1] \in Int /\ a[j] \in Int /\ b[j] \in Int
      BY <2>2
    <2> HIDE DEF S
    <2>8. CASE k + 1 = j
      BY <2>3, <2>4, <2>5, <2>7, <2>8
    <2>9. CASE k + 1 # j
      BY <2>3, <2>4, <2>5, <2>6, <2>7, <2>9
    <2> QED BY <2>8, <2>9
  <1>3. Nat \subseteq S
    <2> HIDE DEF S
    <2> QED BY <1>1, <1>2, Induction
  <1>4. n \in S
    BY <1>3
  <1> QED BY <1>4

\* to is msg with b at place j.
Sets(to, msg, j, b) ==
    /\ to \in Seq(Bytes) /\ Len(to) = Len(msg) /\ to[j] = b
    /\ \A i \in 1..Len(msg) : i # j => to[i] = msg[i]
    /\ BytesSum(to) = BytesSum(msg) + (Weight(j) * b - Weight(j) * msg[j])

LEMMA ByteSet ==
  ASSUME NEW msg \in Seq(Bytes), NEW j \in 1..Len(msg), NEW b \in Bytes
  PROVE  Sets([msg EXCEPT ![j] = b], msg, j, b)
  <1> DEFINE set == [msg EXCEPT ![j] = b]
  <1>1. /\ set \in Seq(Bytes) /\ Len(set) = Len(msg) /\ set[j] = b
        /\ \A i \in 1..Len(msg) : i # j => set[i] = msg[i]
    OBVIOUS
  <1> HIDE DEF Sets, set
  <1>2. \A i \in 1..Len(msg) : /\ Weighted(msg)[i] \in Int
                               /\ Weighted(msg)[i] = Weight(i) * msg[i]
    BY WeightedIs
  <1>3. \A i \in 1..Len(msg) : /\ Weighted(set)[i] \in Int
                               /\ Weighted(set)[i] = Weight(i) * set[i]
    BY <1>1, WeightedIs
  <1>4. \A i \in 1..Len(msg) : i # j => Weighted(set)[i] = Weighted(msg)[i]
    BY <1>1, <1>2, <1>3
  <1>5. SumTo(Weighted(set), Len(msg)) =
           SumTo(Weighted(msg), Len(msg)) + (Weighted(set)[j] - Weighted(msg)[j])
    <2>1. \A i \in 1..Len(msg) : Weighted(msg)[i] \in Int /\ Weighted(set)[i] \in Int
      BY <1>1, <1>2, <1>3
    <2>2. Len(msg) \in Nat
      OBVIOUS
    <2> QED BY <1>4, <2>1, <2>2, SumChange
  <1>6. BytesSum(set) = BytesSum(msg) + (Weight(j) * b - Weight(j) * msg[j])
    BY <1>1, <1>2, <1>3, <1>5 DEF BytesSum
  <1> QED BY <1>1, <1>6 DEF Sets, set
LEMMA BytesSumNat == \A m \in Seq(Bytes) : BytesSum(m) \in Nat
  <1>1. 0 \in Bytes
    BY BytesAreSmall
  <1> QED BY <1>1, WordsSum

\* The sum from an even place on is a sum of its own.
LEMMA BytesSplit ==
  ASSUME NEW msg \in Seq(Bytes), NEW h \in Nat, h % 2 = 0, h <= Len(msg)
  PROVE  BytesSum(msg) = SumTo(Weighted(msg), h) + BytesSum(SubSeq(msg, h + 1, Len(msg)))
  <1> DEFINE rest == SubSeq(msg, h + 1, Len(msg))
             n == Len(msg) - h
             tail == [i \in 1..n |-> Weighted(msg)[h + i]]
  <1>1. n \in Nat /\ h + n = Len(msg) /\ Len(msg) \in Nat
    OBVIOUS
  <1>2. rest \in Seq(Bytes) /\ Len(rest) = n /\ \A i \in 1..n : rest[i] = msg[h + i]
    OBVIOUS
  <1> HIDE DEF rest
  <1>3. \A i \in 1..Len(msg) : Weighted(msg)[i] \in Int /\ Weighted(msg)[i] = Weight(i) * msg[i]
    BY WeightedIs
  <1>4. \A i \in 1..n : Weighted(rest)[i] \in Int /\ Weighted(rest)[i] = Weight(i) * rest[i]
    BY <1>2, WeightedIs
  <1>5. ASSUME NEW i \in 1..n
        PROVE  tail[i] \in Int /\ Weighted(rest)[i] = tail[i]
    <2>1. h + i \in 1..Len(msg) /\ tail[i] = Weighted(msg)[h + i]
      BY <1>1
    <2>2. Weight(h + i) = Weight(i)
      BY SMT DEF Weight
    <2> QED BY <1>2, <1>3, <1>4, <2>1, <2>2
  <1>6. SumTo(Weighted(msg), h + n) = SumTo(Weighted(msg), h) + SumTo(tail, n)
    <2>1. \A i \in 1..(h + n) : Weighted(msg)[i] \in Int
      BY <1>1, <1>3
    <2> HIDE DEF n
    <2> QED BY <1>1, <2>1, SumSplit
  <1> HIDE DEF tail
  <1>7. SumTo(Weighted(rest), n) = SumTo(tail, n)
    <2> HIDE DEF n
    <2> QED BY <1>1, <1>5, SumAgree
  <1> QED BY <1>1, <1>2, <1>6, <1>7 DEF BytesSum, rest

Option(msg) == BytesSum(SubSeq(msg, NaHeader + 1, Len(msg)))

\* Messages that differ behind the header of an advertisement alone.
LEMMA OptionSum ==
  ASSUME NaHeader \in Nat, NaHeader % 2 = 0,
         NEW a \in Seq(Bytes), NEW b \in Seq(Bytes), Len(a) = Len(b),
         \A i \in 1..Len(a) : i <= NaHeader => a[i] = b[i]
  PROVE  BytesSum(b) - BytesSum(a) = Option(b) - Option(a)
  <1>1. \A i \in 1..Len(a) : Weighted(a)[i] \in Int /\ Weighted(a)[i] = Weight(i) * a[i]
    BY WeightedIs
  <1>2. \A i \in 1..Len(b) : Weighted(b)[i] \in Int /\ Weighted(b)[i] = Weight(i) * b[i]
    BY WeightedIs
  <1>3. Len(a) \in Nat /\ Len(b) \in Nat
    OBVIOUS
  <1>4. CASE NaHeader <= Len(a)
    <2>1. BytesSum(a) = SumTo(Weighted(a), NaHeader) + Option(a)
      BY <1>4, BytesSplit DEF Option
    <2>2. BytesSum(b) = SumTo(Weighted(b), NaHeader) + Option(b)
      BY <1>4, BytesSplit DEF Option
    <2>3. ASSUME NEW i \in 1..NaHeader
          PROVE  Weighted(a)[i] \in Int /\ Weighted(b)[i] = Weighted(a)[i]
      <3>1. i \in 1..Len(a) /\ i \in 1..Len(b) /\ i <= NaHeader
        BY <1>3, <1>4
      <3>2. a[i] = b[i]
        BY <3>1
      <3> QED BY <1>1, <1>2, <3>1, <3>2
    <2>4. SumTo(Weighted(b), NaHeader) = SumTo(Weighted(a), NaHeader)
      BY <2>3, SumAgree
    <2>5. SumTo(Weighted(a), NaHeader) \in Int
      BY <2>3, SumInt
    <2>6. Option(a) \in Nat /\ Option(b) \in Nat
      <3>1. /\ SubSeq(a, NaHeader + 1, Len(a)) \in Seq(Bytes)
            /\ SubSeq(b, NaHeader + 1, Len(b)) \in Seq(Bytes)
        BY <1>3, <1>4
      <3> QED BY <3>1, BytesSumNat DEF Option
    <2> QED BY <2>1, <2>2, <2>4, <2>5, <2>6
  <1>5. CASE ~(NaHeader <= Len(a))
    <2>1. SubSeq(a, NaHeader + 1, Len(a)) = SubSeq(b, NaHeader + 1, Len(b))
      BY <1>3, <1>5
    <2>2. a = b
      BY <1>3, <1>5
    <2>3. BytesSum(a) \in Nat /\ Option(a) \in Nat
      <3>1. SubSeq(a, NaHeader + 1, Len(a)) \in Seq(Bytes)
        BY <1>3, <1>5
      <3> QED BY <3>1, BytesSumNat DEF Option
    <2> QED BY <2>2, <2>3
  <1> QED BY <1>4, <1>5

Ones == 65535
Multiple(x) == \E k \in Int : x = Ones * k

LEMMA MultipleOf == ASSUME NEW k \in Int PROVE Multiple(Ones * k)
  BY DEF Multiple

Short(msg) == Len(msg) <= 65535

\* The checksum is right when the whole sum is a multiple of 2^16 - 1.
LEMMA VerifiesIff ==
  ASSUME NEW msg \in Seq(Bytes), Short(msg), BytesSum(msg) > 0
  PROVE  Verifies(msg) <=> Multiple(BytesSum(msg))
  <1>1. 0 \in Bytes
    BY BytesAreSmall
  <1> DEFINE x == BytesSum(msg)
             y == FoldCarry(FoldCarry(x))
  <1>2. x \in Nat /\ x <= 65535 * ((Len(msg) + 1) \div 2)
    <2>1. LET words == Words(msg, 0)
          IN  /\ SumTo(words, Len(words)) = BytesSum(msg) + (IF Len(msg) % 2 = 1 THEN 0 ELSE 0)
              /\ SumTo(words, Len(words)) <= 65535 * ((Len(msg) + 1) \div 2)
              /\ BytesSum(msg) \in Nat
      BY <1>1, WordsSum
    <2> QED BY <2>1
  <1>3. Len(msg) \in Nat
    OBVIOUS
  <1> HIDE DEF x
  <1>4. x <= 65535 * 32768
    BY <1>2, <1>3, SMT DEF Short
  <1>5. x <= MaxSum
    BY <1>2, <1>4, SMT DEF MaxSum
  <1>6. y \in Nat /\ y <= 65535 /\ (\E k \in Nat : x = 65535 * k + y) /\ (y = 0 => x = 0)
    <2>1. Folds(x, y)
      BY <1>2, <1>5, FoldTwice
    <2> HIDE DEF y
    <2> QED BY <2>1, SMT DEF Folds
  <1> HIDE DEF y
  <1>7. PICK j \in Nat : x = 65535 * j + y
    BY <1>6
  <1>8. x > 0
    BY DEF x
  <1>9. y = 65535 <=> Multiple(x)
    <2>1. ASSUME y = 65535 PROVE Multiple(x)
      <3>1. x = Ones * (j + 1) /\ j + 1 \in Int
        BY <1>7, <2>1, SMT DEF Ones
      <3>2. Multiple(Ones * (j + 1))
        BY <3>1, MultipleOf, Zenon
      <3> QED BY <3>1, <3>2, Zenon
    <2>2. ASSUME Multiple(x) PROVE y = 65535
      <3>1. PICK k \in Int : x = 65535 * k
        BY <2>2, SMT DEF Multiple, Ones
      <3> QED BY <1>2, <1>6, <1>7, <1>8, <3>1, SMT
    <2> QED BY <2>1, <2>2
  <1>10. Verifies(msg) <=> y = 65535
    BY SMT DEF Verifies, HalfMod, y, x
  <1>11. Verifies(msg) <=> Multiple(x)
    BY <1>9, <1>10
  <1> QED BY <1>11, Zenon DEF x

\* What the loop adds too much.
Added(l4) == IF Len(l4.msg) % 2 = 1 THEN l4.behind ELSE 0

\* z as the two bytes that are stored.
Halved(z, high, low) ==
    high \in Nat /\ high < 256 /\ low \in Nat /\ low < 256 /\ z = 256 * high + low

LEMMA TwoBytes == ASSUME NEW z \in Nat, z <= 65535 PROVE Halved(z, z \div 256, z % 256)
  <1> DEFINE high == z \div 256
             low == z % 256
  <1>1. high \in Nat /\ low \in Nat /\ low < 256 /\ z = 256 * high + low
    BY SMT
  <1> HIDE DEF high, low
  <1>2. high < 256
    BY <1>1, SMT
  <1>3. Halved(z, high, low)
    BY <1>1, <1>2 DEF Halved
  <1> QED BY <1>3 DEF high, low

LEMMA CheckSumIs ==
  ASSUME NEW msg \in Seq(Bytes), Len(msg) <= 65535, NEW behind \in Bytes
  PROVE  LET c == CheckSum(msg, behind)
             added == IF Len(msg) % 2 = 1 THEN behind ELSE 0
         IN  /\ c[1] \in Bytes /\ c[2] \in Bytes
             /\ \E k \in Nat : BytesSum(msg) + added = 65535 * k + (65535 - (256 * c[1] + c[2]))
  <1> DEFINE W == Words(msg, behind)
             x == SumTo(W, Len(W))
             y == FoldCarry(FoldCarry(x))
             z == HalfMod - 1 - y
             c == CheckSum(msg, behind)
             added == IF Len(msg) % 2 = 1 THEN behind ELSE 0
  <1>1. /\ x = BytesSum(msg) + added /\ x \in Nat /\ BytesSum(msg) \in Nat
        /\ x <= 65535 * ((Len(msg) + 1) \div 2)
    BY WordsSum
  <1>2. c = <<z \div 256, z % 256>>
    BY DEF CheckSum, OnesSum
  <1> HIDE DEF x, c, W
  <1>3. x <= MaxSum
    <2>1. Len(msg) \in Nat
      OBVIOUS
    <2>2. x <= 65535 * 32768
      BY <1>1, <2>1, SMT
    <2> QED BY <1>1, <2>2, SMT DEF MaxSum
  <1>4. y \in Nat /\ y <= 65535 /\ (\E k \in Nat : x = 65535 * k + y) /\ (y = 0 => x = 0)
    <2>1. x \in Nat /\ x <= MaxSum
      BY <1>1, <1>3
    <2>2. Folds(x, y)
      BY <2>1, FoldTwice
    <2> HIDE DEF y, z, added
    <2> QED BY <2>2 DEF Folds
  <1> HIDE DEF y
  <1>5. z = 65535 - y /\ z \in Nat /\ z <= 65535
    BY <1>4, SMT DEF HalfMod
  <1> HIDE DEF z
  <1>6. /\ c[1] \in Nat /\ c[1] < 256 /\ c[2] \in Nat /\ c[2] < 256 /\ z = 256 * c[1] + c[2]
    <2> DEFINE high == z \div 256
               low == z % 256
    <2>1. z \in Nat /\ z <= 65535
      BY <1>5
    <2>2. Halved(z, high, low)
      BY <2>1, TwoBytes
    <2>3. c[1] = high /\ c[2] = low
      BY <1>2
    <2> HIDE DEF high, low
    <2> QED BY <2>2, <2>3 DEF Halved
  <1>7. x = BytesSum(msg) + added /\ y = 65535 - z /\ y = 65535 - (256 * c[1] + c[2])
    BY <1>1, <1>4, <1>5, <1>6
  <1>8. c[1] \in Bytes /\ c[2] \in Bytes
    BY <1>6, BytesAreSmall
  <1>9. \E k \in Nat : BytesSum(msg) + added = 65535 * k + (65535 - (256 * c[1] + c[2]))
    <2>1. PICK k \in Nat : x = 65535 * k + y
      BY <1>4
    <2>2. BytesSum(msg) + added = 65535 * k + (65535 - (256 * c[1] + c[2]))
      BY <1>7, <2>1
    <2> QED BY <2>2
  <1> QED BY <1>8, <1>9 DEF c

\* Behind the header of the message the loop's sum is all that is changed; the sum of
\* what is sent lacks what was added to it.
LEMMA SummedIs ==
  ASSUME NEW l4 \in IcmpMessage
  PROVE  LET s == Summed(l4)
         IN  /\ s \in IcmpMessage /\ s.behind = l4.behind /\ Len(s.msg) = Len(l4.msg)
             /\ \A i \in 1..Len(l4.msg) : i \notin {3, 4} => s.msg[i] = l4.msg[i]
             /\ BytesSum(s.msg) > 0
             /\ Multiple(BytesSum(s.msg) + Added(l4))
  <1> DEFINE m == l4.msg
             n == Len(m)
             behind == l4.behind
             first == [m EXCEPT ![3] = 0]
             blank == [first EXCEPT ![4] = 0]
             c == CheckSum(blank, behind)
             c1 == c[1]
             c2 == c[2]
             high == [blank EXCEPT ![3] = c1]
             out == [high EXCEPT ![4] = c2]
             s == Summed(l4)
  <1>1. m \in Seq(Bytes) /\ n >= 4 /\ n <= 65535 /\ n \in Nat /\ behind \in Bytes
        /\ 3 \in 1..n /\ 4 \in 1..n
    BY DEF IcmpMessage
  <1>2. s = [l4 EXCEPT !.msg = out]
    BY DEF Summed
  <1>3. s.msg = out /\ s.behind = behind
    BY <1>2 DEF IcmpMessage
  <1>4. 0 \in Bytes /\ Weight(3) = 256 /\ Weight(4) = 1
    BY SMT DEF Bytes, Weight
  <1>5. /\ first \in Seq(Bytes) /\ Len(first) = n /\ first[3] = 0
        /\ \A i \in 1..n : i # 3 => first[i] = m[i]
    <2>1. Sets(first, m, 3, 0)
      BY <1>1, <1>4, ByteSet
    <2> HIDE DEF m, first
    <2> QED BY <1>1, <2>1 DEF Sets
  <1> HIDE DEF first
  <1>6. /\ blank \in Seq(Bytes) /\ Len(blank) = n /\ blank[4] = 0
        /\ \A i \in 1..n : i # 4 => blank[i] = first[i]
    <2>1. 4 \in 1..Len(first)
      BY <1>1, <1>5
    <2>2. Sets(blank, first, 4, 0)
      BY <1>4, <1>5, <2>1, ByteSet
    <2> HIDE DEF n, blank
    <2> QED BY <1>5, <2>2 DEF Sets
  <1> HIDE DEF blank
  <1>7. /\ c1 \in Bytes /\ c2 \in Bytes
        /\ \E k \in Nat : BytesSum(blank) + Added(l4) = 65535 * k + (65535 - (256 * c1 + c2))
    <2> HIDE DEF n, behind
    <2>1. Len(blank) <= 65535
      BY <1>1, <1>6
    <2>2. Added(l4) = IF Len(blank) % 2 = 1 THEN behind ELSE 0
      BY <1>6 DEF Added, n, behind
    <2> QED BY <1>1, <1>6, <2>1, <2>2, CheckSumIs
  <1> HIDE DEF c1, c2
  <1>8. /\ high \in Seq(Bytes) /\ Len(high) = n /\ high[3] = c1
        /\ \A i \in 1..n : i # 3 => high[i] = blank[i]
        /\ BytesSum(high) = BytesSum(blank) + (Weight(3) * c1 - Weight(3) * blank[3])
    <2> HIDE DEF n
    <2>1. 3 \in 1..Len(blank)
      BY <1>1, <1>6
    <2>2. Sets(high, blank, 3, c1)
      <3>1. blank \in Seq(Bytes) /\ c1 \in Bytes
        BY <1>6, <1>7
      <3> QED BY <2>1, <3>1, ByteSet
    <2> HIDE DEF high
    <2> QED BY <1>6, <2>2 DEF Sets
  <1> HIDE DEF high
  <1>9. /\ out \in Seq(Bytes) /\ Len(out) = n /\ out[4] = c2
        /\ \A i \in 1..n : i # 4 => out[i] = high[i]
        /\ BytesSum(out) = BytesSum(high) + (Weight(4) * c2 - Weight(4) * high[4])
    <2> HIDE DEF n
    <2>1. 4 \in 1..Len(high)
      BY <1>1, <1>8
    <2>2. Sets(out, high, 4, c2)
      <3>1. high \in Seq(Bytes) /\ c2 \in Bytes
        BY <1>7, <1>8
      <3> QED BY <2>1, <3>1, ByteSet
    <2> HIDE DEF out
    <2> QED BY <1>8, <2>2 DEF Sets
  <1> HIDE DEF out
  <1>10. \A i \in 1..n : i \notin {3, 4} => out[i] = m[i]
    BY <1>5, <1>6, <1>8, <1>9
  <1>11. BytesSum(out) = BytesSum(blank) + (256 * c1 + c2)
    <2>1. blank[3] = 0 /\ high[4] = 0
      BY <1>1, <1>5, <1>6, <1>8
    <2>2. BytesSum(blank) \in Nat /\ BytesSum(high) \in Nat /\ BytesSum(out) \in Nat
      BY <1>6, <1>8, <1>9, BytesSumNat
    <2>3. c1 \in Nat /\ c2 \in Nat
      BY <1>7, BytesAreSmall
    <2> QED BY <1>4, <1>8, <1>9, <2>1, <2>2, <2>3, SMT
  <1>12. Added(l4) \in Nat /\ Added(l4) < 256
    <2>1. Added(l4) = 0 \/ Added(l4) = behind
      BY DEF Added
    <2>2. behind \in Nat /\ behind < 256
      BY <1>1, BytesAreSmall
    <2> HIDE DEF behind
    <2> QED BY <2>1, <2>2
  <1>13. c1 \in Nat /\ c1 < 256 /\ c2 \in Nat /\ c2 < 256 /\ BytesSum(blank) \in Nat
    BY <1>6, <1>7, BytesAreSmall, BytesSumNat
  <1>14. PICK k \in Nat : BytesSum(blank) + Added(l4) = 65535 * k + (65535 - (256 * c1 + c2))
    BY <1>7
  <1> HIDE DEF m, n, behind, s
  <1>15. BytesSum(out) + Added(l4) = 65535 * (k + 1) /\ BytesSum(out) \in Int /\ k + 1 \in Int
    BY <1>11, <1>12, <1>13, <1>14, SMT
  <1>16. BytesSum(out) > 0
    BY <1>12, <1>15, SMT
  <1>17. s \in IcmpMessage
    <2>1. Len(out) >= 4 /\ Len(out) <= 65535
      BY <1>1, <1>9 DEF n, m
    <2>2. s = [msg |-> out, behind |-> l4.behind] /\ l4.behind \in Bytes
      BY <1>1, <1>2 DEF IcmpMessage, behind
    <2>3. out \in Seq(Bytes)
      BY <1>9
    <2> QED BY <2>1, <2>2, <2>3 DEF IcmpMessage
  <1>18. Multiple(BytesSum(s.msg) + Added(l4))
    <2>1. k + 1 \in Int
      OBVIOUS
    <2>2. Multiple(Ones * (k + 1))
      BY <2>1, MultipleOf, Zenon
    <2>3. BytesSum(out) + Added(l4) = Ones * (k + 1)
      BY <1>15, SMT DEF Ones
    <2> QED BY <1>3, <2>2, <2>3, Zenon
  <1>19. /\ s \in IcmpMessage /\ s.behind = l4.behind /\ Len(s.msg) = Len(l4.msg)
         /\ \A i \in 1..Len(l4.msg) : i \notin {3, 4} => s.msg[i] = l4.msg[i]
         /\ BytesSum(s.msg) > 0
    BY <1>3, <1>9, <1>10, <1>16, <1>17 DEF m, n, behind
  <1> QED BY <1>18, <1>19 DEF s

\* An answer to an ICMP message whose sum is off by `left - added'.
SumOff(out, msg, added, left) ==
    /\ out \in Seq(Bytes) /\ Len(out) = Len(msg) /\ BytesSum(out) > 0
    /\ left \in Int
    /\ Multiple((BytesSum(out) - left) + added)

\* The two errors cancel.
Cancel(left, added) == (left - added) % (HalfMod - 1) = 0

LEMMA MultiplesDiffer ==
  ASSUME NEW x \in Int, NEW left \in Int, NEW added \in Int, Multiple((x - left) + added)
  PROVE  Multiple(x) <=> Cancel(left, added)
  <1>1. PICK j \in Int : (x - left) + added = 65535 * j
    BY SMT DEF Multiple, Ones
  <1> DEFINE d == left - added
             q == d \div 65535
             r == d % 65535
  <1>2. d \in Int /\ x = 65535 * j + d
    BY <1>1, SMT
  <1>3. Cancel(left, added) <=> r = 0
    BY SMT DEF Cancel, HalfMod
  <1> HIDE DEF d
  <1>4. q \in Int /\ r \in Nat /\ r <= 65534 /\ d = 65535 * q + r
    BY <1>2, SMT
  <1> HIDE DEF q, r
  <1>5. ASSUME r = 0 PROVE Multiple(x)
    <2>1. x = Ones * (j + q) /\ j + q \in Int
      BY <1>2, <1>4, <1>5, SMT DEF Ones
    <2>2. Multiple(Ones * (j + q))
      BY <2>1, MultipleOf, Zenon
    <2> QED BY <2>1, <2>2, Zenon
  <1>6. ASSUME Multiple(x) PROVE r = 0
    <2>1. PICK k \in Int : x = 65535 * k
      BY <1>6, SMT DEF Multiple, Ones
    <2>2. r = 65535 * ((k - j) - q)
      BY <1>2, <1>4, <2>1, SMT
    <2> QED BY <1>4, <2>1, <2>2, SMT
  <1> QED BY <1>3, <1>5, <1>6, Zenon

LEMMA VerifiesWhenErrorsCancel ==
  ASSUME NEW out, NEW msg \in Seq(Bytes), NEW added \in Nat, NEW left,
         Short(msg), SumOff(out, msg, added, left)
  PROVE  Verifies(out) <=> Cancel(left, added)
  <1>1. out \in Seq(Bytes) /\ Short(out) /\ BytesSum(out) > 0
    BY DEF SumOff, Short
  <1>2. BytesSum(out) \in Int /\ left \in Int /\ added \in Int
    BY <1>1, BytesSumNat DEF SumOff
  <1>3. Multiple((BytesSum(out) - left) + added)
    BY DEF SumOff
  <1>4. Verifies(out) <=> Multiple(BytesSum(out))
    BY <1>1, VerifiesIff
  <1>5. Multiple(BytesSum(out)) <=> Cancel(left, added)
    BY <1>2, <1>3, MultiplesDiffer
  <1> QED BY <1>4, <1>5

LEMMA AddedIs == ASSUME NEW l4 \in IcmpMessage PROVE Added(l4) \in Nat
  <1>1. l4.behind \in Bytes
    BY DEF IcmpMessage
  <1>2. l4.behind \in Nat
    BY <1>1, BytesAreSmall
  <1> QED BY <1>2 DEF Added

\* A message with another type, which is what the sum is taken of.
LEMMA Retyped ==
  ASSUME NEW l4 \in IcmpMessage, NEW t \in Bytes
  PROVE  LET r == Summed([l4 EXCEPT !.msg[1] = t])
         IN  /\ r \in IcmpMessage /\ r.msg[1] = t
             /\ SumOff(r.msg, l4.msg, Added(l4), 0)
  <1> DEFINE in == [l4 EXCEPT !.msg[1] = t]
             r == Summed(in)
  <1>1. l4.msg \in Seq(Bytes) /\ Len(l4.msg) >= 4 /\ Len(l4.msg) <= 65535 /\ l4.behind \in Bytes
    BY DEF IcmpMessage
  <1>2. /\ in.msg = [l4.msg EXCEPT ![1] = t] /\ in.behind = l4.behind
        /\ in = [msg |-> in.msg, behind |-> in.behind]
    BY DEF IcmpMessage
  <1>3. in.msg \in Seq(Bytes) /\ Len(in.msg) = Len(l4.msg) /\ in.msg[1] = t
    BY <1>1, <1>2
  <1> HIDE DEF in
  <1>4. in \in IcmpMessage
    BY <1>1, <1>2, <1>3 DEF IcmpMessage
  <1>5. /\ r \in IcmpMessage /\ Len(r.msg) = Len(in.msg)
        /\ \A i \in 1..Len(in.msg) : i \notin {3, 4} => r.msg[i] = in.msg[i]
        /\ BytesSum(r.msg) > 0 /\ Multiple(BytesSum(r.msg) + Added(in))
    BY <1>4, SummedIs, Zenon
  <1> HIDE DEF r
  <1>6. r.msg[1] = t
    BY <1>1, <1>3, <1>5
  <1>7. Added(in) = Added(l4)
    BY <1>2, <1>3 DEF Added
  <1>8. r.msg \in Seq(Bytes)
    BY <1>5 DEF IcmpMessage
  <1>9. (BytesSum(r.msg) - 0) + Added(l4) = BytesSum(r.msg) + Added(l4)
    BY <1>8, BytesSumNat
  <1>10. SumOff(r.msg, l4.msg, Added(l4), 0)
    BY <1>3, <1>5, <1>7, <1>8, <1>9 DEF SumOff
  <1> QED BY <1>5, <1>6, <1>10 DEF r, in

LEMMA EntrySet ==
  ASSUME NEW S, NEW msg \in Seq(S), NEW j \in Nat, NEW b \in S
  PROVE  /\ [msg EXCEPT ![j] = b] \in Seq(S)
         /\ Len([msg EXCEPT ![j] = b]) = Len(msg)
         /\ \A i \in 1..Len(msg) : [msg EXCEPT ![j] = b][i] = IF i = j THEN b ELSE msg[i]
  <1> DEFINE t == [msg EXCEPT ![j] = b]
  <1>1. Len(msg) \in Nat /\ DOMAIN msg = 1..Len(msg) /\ \A i \in 1..Len(msg) : msg[i] \in S
    OBVIOUS
  <1>2. t = [i \in 1..Len(msg) |-> IF i = j THEN b ELSE msg[i]]
    BY <1>1
  <1> HIDE DEF t
  <1>3. \A i \in 1..Len(msg) : t[i] = IF i = j THEN b ELSE msg[i]
    BY <1>2
  <1>4. \A i \in 1..Len(msg) : t[i] \in S
    BY <1>1, <1>3
  <1>5. t = [i \in 1..Len(msg) |-> t[i]]
    BY <1>2
  <1>6. t \in Seq(S) /\ Len(t) = Len(msg)
    BY <1>1, <1>4, <1>5
  <1> QED BY <1>3, <1>6 DEF t

LEMMA SameTail ==
  ASSUME NEW S, NEW a \in Seq(S), NEW b \in Seq(S), NEW h \in Nat, Len(a) = Len(b),
         \A i \in 1..Len(a) : i > h => a[i] = b[i]
  PROVE  SubSeq(a, h + 1, Len(a)) = SubSeq(b, h + 1, Len(b))
  <1>1. CASE h + 1 > Len(a)
    BY <1>1
  <1>2. CASE h + 1 <= Len(a)
    <2> DEFINE n == Len(a) - h
               s == SubSeq(a, h + 1, Len(a))
               t == SubSeq(b, h + 1, Len(b))
    <2>1. n \in Nat /\ Len(s) = n /\ Len(t) = n /\ s \in Seq(S) /\ t \in Seq(S)
      BY <1>2
    <2>2. \A i \in 1..n : s[i] = a[h + i] /\ t[i] = b[h + i]
      BY <1>2
    <2>3. ASSUME NEW i \in 1..n PROVE s[i] = t[i]
      <3>1. h + i \in 1..Len(a) /\ h + i > h
        BY <1>2
      <3> HIDE DEF n, s, t
      <3> QED BY <2>2, <3>1
    <2> HIDE DEF n, s, t
    <2>4. s = t
      BY <2>1, <2>3
    <2> QED BY <2>4 DEF s, t
  <1> QED BY <1>1, <1>2

LEMMA OptionNat ==
  ASSUME NaHeader \in Nat, NEW msg \in Seq(Bytes)
  PROVE  Option(msg) \in Nat
  <1>1. SubSeq(msg, NaHeader + 1, Len(msg)) \in Seq(Bytes)
    OBVIOUS
  <1> QED BY <1>1, BytesSumNat DEF Option

\* The advertisement, whose option is written after the sum was taken.
LEMMA Advertised ==
  ASSUME FrameAssumption, NEW l4 \in IcmpMessage
  PROVE  LET r == Advertise(l4)
         IN  /\ r.msg[1] = ND_NEIGHBOR_ADVERT
             /\ SumOff(r.msg, l4.msg, Added(l4), Option(r.msg) - Option(l4.msg))
  <1> DEFINE m == l4.msg
             n == Len(m)
             flags == <<96, 0, 0, 0>>
             base == Copy(m, 5, flags)
             one == [base EXCEPT ![1] = 136]
             head == [one EXCEPT ![2] = 0]
             in == [l4 EXCEPT !.msg = head]
             na == Summed(in)
             opt == <<2, 1>> \o OwnMac
             out == Copy(na.msg, NaHeader + 1, opt)
             r == Advertise(l4)
  <1>1. /\ m \in Seq(Bytes) /\ n >= 4 /\ n <= 65535 /\ n \in Nat /\ l4.behind \in Bytes
        /\ l4 = [msg |-> l4.msg, behind |-> l4.behind]
    BY DEF IcmpMessage
  <1>2. NaHeader \in Nat /\ NaHeader % 2 = 0 /\ NaHeader >= 8 /\ OwnMac \in Seq(Bytes)
    BY DEF FrameAssumption
  <1>3. r = [na EXCEPT !.msg = out]
    BY DEF Advertise, ND_NEIGHBOR_ADVERT, NA_FLAGS
  <1>4. 136 \in Bytes /\ 0 \in Bytes /\ 96 \in Bytes /\ 2 \in Bytes /\ 1 \in Bytes
    BY SMT DEF Bytes
  <1> HIDE DEF m
  <1>5. /\ head \in Seq(Bytes) /\ Len(head) = n /\ head[1] = 136
        /\ \A i \in 1..n : i > 8 => head[i] = m[i]
    <2>0. flags[1] \in Bytes /\ flags[2] \in Bytes /\ flags[3] \in Bytes /\ flags[4] \in Bytes
      BY <1>4
    <2>1. DOMAIN m = 1..n /\ n \in Nat /\ Len(flags) = 4
          /\ n >= 4 /\ \A i \in 1..n : m[i] \in Bytes
      BY <1>1, <1>4 DEF m
    <2> HIDE DEF n, flags
    <2>2. base = [i \in 1..n |-> IF i \in 5..8 THEN flags[i - 4] ELSE m[i]]
      <3>1. base = [i \in DOMAIN m |-> IF i \in 5..(5 + Len(flags) - 1) THEN flags[i - 5 + 1] ELSE m[i]]
        BY DEF Copy
      <3>2. 5 + Len(flags) - 1 = 8 /\ \A i \in 1..n : i - 5 + 1 = i - 4
        BY <2>1
      <3>3. base = [i \in 1..n |-> IF i \in 5..8 THEN flags[i - 5 + 1] ELSE m[i]]
        BY <2>1, <3>1, <3>2, Zenon
      <3> HIDE DEF base
      <3> QED BY <3>2, <3>3, Zenon
    <2>3. \A i \in 1..n : (IF i \in 5..8 THEN flags[i - 4] ELSE m[i]) \in Bytes
      <3> SUFFICES ASSUME NEW i \in 1..n
                   PROVE  (IF i \in 5..8 THEN flags[i - 4] ELSE m[i]) \in Bytes
        OBVIOUS
      <3>1. CASE i \in 5..8
        <4>1. i - 4 \in 1..4
          BY <3>1
        <4> QED BY <2>0, <3>1, <4>1
      <3>2. CASE i \notin 5..8
        BY <2>1, <3>2
      <3> QED BY <3>1, <3>2
    <2> HIDE DEF base
    <2>4. base \in Seq(Bytes) /\ Len(base) = n /\ \A i \in 1..n : i > 8 => base[i] = m[i]
      <3>1. base \in [1..n -> Bytes]
        BY <2>2, <2>3, Zenon
      <3>2. base \in Seq(Bytes) /\ Len(base) = n
        BY <2>1, <3>1
      <3>3. ASSUME NEW i \in 1..n, i > 8 PROVE base[i] = m[i]
        BY <2>1, <2>2, <3>3
      <3> QED BY <3>2, <3>3
    <2>5. /\ one \in Seq(Bytes) /\ Len(one) = n
          /\ \A i \in 1..n : one[i] = IF i = 1 THEN 136 ELSE base[i]
      BY <1>4, <2>1, <2>4, EntrySet
    <2> HIDE DEF one
    <2>6. /\ head \in Seq(Bytes) /\ Len(head) = n
          /\ \A i \in 1..n : head[i] = IF i = 2 THEN 0 ELSE one[i]
      BY <1>4, <2>1, <2>5, EntrySet
    <2> HIDE DEF head
    <2> QED BY <2>1, <2>4, <2>5, <2>6
  <1> HIDE DEF flags, base, one, head
  <1>6. in = [msg |-> head, behind |-> l4.behind] /\ in.msg = head /\ in.behind = l4.behind
    BY <1>1
  <1> HIDE DEF r, in
  <1>7. in \in IcmpMessage
    BY <1>1, <1>5, <1>6 DEF IcmpMessage
  <1>8. /\ na \in IcmpMessage /\ Len(na.msg) = Len(in.msg)
        /\ \A i \in 1..Len(in.msg) : i \notin {3, 4} => na.msg[i] = in.msg[i]
        /\ Multiple(BytesSum(na.msg) + Added(in))
    BY <1>7, SummedIs, Zenon
  <1>9. Added(in) = Added(l4)
    BY <1>5, <1>6 DEF Added, m
  <1>10. na = [msg |-> na.msg, behind |-> na.behind] /\ na.msg \in Seq(Bytes)
    BY <1>8 DEF IcmpMessage
  <1> HIDE DEF na
  <1>11. Len(na.msg) = n /\ na.msg[1] = 136 /\ \A i \in 1..n : i > 8 => na.msg[i] = m[i]
    <2>1. /\ Len(na.msg) = n /\ Len(in.msg) = n /\ in.msg[1] = 136
          /\ \A i \in 1..n : i > 8 => in.msg[i] = m[i]
      BY <1>5, <1>6, <1>8
    <2>2. \A i \in 1..n : i = 1 \/ i > 8 => na.msg[i] = in.msg[i]
      BY <1>8, <2>1
    <2>3. 1 \in 1..n
      BY <1>1
    <2> HIDE DEF n
    <2>4. na.msg[1] = 136
      BY <2>1, <2>2, <2>3
    <2>5. ASSUME NEW i \in 1..n, i > 8 PROVE na.msg[i] = m[i]
      BY <2>1, <2>2, <2>5
    <2> QED BY <2>1, <2>4, <2>5
  <1>12. opt \in Seq(Bytes)
    <2>1. <<2, 1>> \in Seq(Bytes)
      BY <1>4
    <2> QED BY <1>2, <2>1
  <1>13. r.msg = out
    BY <1>3, <1>10
  <1> DEFINE a == na.msg
  <1> HIDE DEF opt, a
  <1>14. a \in Seq(Bytes) /\ Len(a) = n /\ a[1] = 136 /\ \A i \in 1..n : i > 8 => a[i] = m[i]
    BY <1>10, <1>11 DEF a
  <1>15. DOMAIN a = 1..n
    BY <1>1, <1>14
  <1>16. out = [i \in 1..n |-> IF i \in (NaHeader + 1)..((NaHeader + 1) + Len(opt) - 1)
                               THEN opt[i - (NaHeader + 1) + 1] ELSE a[i]]
    BY <1>15 DEF Copy, a
  <1>17. \A i \in 1..n : i <= NaHeader => out[i] = a[i]
    BY <1>1, <1>2, <1>12, <1>16
  <1>18. \A i \in 1..n : out[i] \in Bytes
    <2> SUFFICES ASSUME NEW i \in 1..n PROVE out[i] \in Bytes
      OBVIOUS
    <2>1. n \in Nat /\ a[i] \in Bytes /\ Len(opt) \in Nat
      BY <1>1, <1>12, <1>14
    <2> DEFINE k == i - (NaHeader + 1) + 1
    <2>2. out[i] = a[i] \/ (k \in 1..Len(opt) /\ out[i] = opt[k])
      <3> HIDE DEF n, out
      <3> QED BY <1>2, <1>16, <2>1
    <2> HIDE DEF out, k, n
    <2> QED BY <1>12, <2>1, <2>2
  <1>19. out \in Seq(Bytes) /\ Len(out) = n
    <2>1. out = [i \in 1..n |-> out[i]]
      BY <1>16
    <2>2. n \in Nat
      BY <1>1
    <2> HIDE DEF out, n
    <2> QED BY <1>18, <2>1, <2>2
  <1> HIDE DEF out
  <1>20. out[1] = 136
    <2>1. 1 \in 1..n /\ 1 <= NaHeader
      BY <1>1, <1>2
    <2>2. a[1] = 136
      BY <1>14
    <2> HIDE DEF n
    <2> QED BY <1>17, <2>1, <2>2
  <1>21. BytesSum(out) > 0
    <2> DEFINE z == [out EXCEPT ![1] = 0]
    <2>1. 1 \in 1..Len(out)
      BY <1>1, <1>19
    <2>2. Sets(z, out, 1, 0)
      BY <1>4, <1>19, <2>1, ByteSet
    <2> HIDE DEF z
    <2>3. z \in Seq(Bytes) /\ BytesSum(z) = BytesSum(out) + (Weight(1) * 0 - Weight(1) * out[1])
      BY <2>2 DEF Sets
    <2>4. Weight(1) = 256
      BY SMT DEF Weight
    <2>5. BytesSum(z) \in Nat /\ BytesSum(out) \in Nat
      BY <1>19, <2>3, BytesSumNat
    <2> QED BY <1>20, <2>3, <2>4, <2>5
  <1>22. BytesSum(out) - BytesSum(a) = Option(out) - Option(a)
    BY <1>2, <1>14, <1>17, <1>19, OptionSum
  <1>23. Option(a) = Option(m)
    <2>1. \A i \in 1..Len(a) : i > NaHeader => a[i] = m[i]
      BY <1>2, <1>14
    <2>2. SubSeq(a, NaHeader + 1, Len(a)) = SubSeq(m, NaHeader + 1, Len(m))
      <3>1. m \in Seq(Bytes) /\ Len(a) = Len(m) /\ a \in Seq(Bytes) /\ NaHeader \in Nat
        BY <1>1, <1>2, <1>14
      <3> HIDE DEF n
      <3> QED BY <2>1, <3>1, SameTail
    <2> QED BY <2>2 DEF Option
  <1>24. Option(out) \in Int /\ Option(m) \in Int
    BY <1>1, <1>2, <1>19, OptionNat
  <1>25. BytesSum(out) \in Int /\ BytesSum(a) \in Int /\ Added(l4) \in Int
    BY <1>14, <1>19, BytesSumNat, AddedIs
  <1>26. (BytesSum(out) - (Option(out) - Option(m))) + Added(l4) = BytesSum(a) + Added(l4)
    BY <1>22, <1>23, <1>24, <1>25
  <1>27. Multiple(BytesSum(a) + Added(l4))
    BY <1>8, <1>9 DEF a
  <1>28. SumOff(out, m, Added(l4), Option(out) - Option(m))
    BY <1>19, <1>21, <1>24, <1>26, <1>27 DEF SumOff
  <1> QED BY <1>13, <1>20, <1>28 DEF ND_NEIGHBOR_ADVERT, r, m

-----------------------------------------------------------------------------
(* Values. *)

\* A loop is known by its equations.
LEMMA IsLoop ==
  ASSUME NEW T, NEW base \in T, NEW n \in Nat, NEW step \in [1..n -> [T -> T]], NEW f,
         f = [i \in 0..n |-> f[i]], f[0] = base,
         \A i \in 1..n : f[i - 1] \in T => f[i] = step[i][f[i - 1]]
  PROVE  Computes(f, T, base, n, step)
  <1> DEFINE S == {i \in Nat : i <= n => f[i] \in T}
  <1>1. 0 \in S
    OBVIOUS
  <1>2. ASSUME NEW i \in Nat, i \in S PROVE i + 1 \in S
    <2>1. SUFFICES ASSUME i + 1 <= n PROVE f[i + 1] \in T
      OBVIOUS
    <2>2. i + 1 \in 1..n /\ f[(i + 1) - 1] \in T
      BY <1>2, <2>1
    <2>3. f[i + 1] = step[i + 1][f[(i + 1) - 1]]
      BY <2>2
    <2> QED BY <2>2, <2>3
  <1>3. Nat \subseteq S
    <2> HIDE DEF S
    <2> QED BY <1>1, <1>2, Induction
  <1>4. \A i \in 0..n : f[i] \in T
    BY <1>3
  <1>5. f \in [0..n -> T]
    BY <1>4
  <1>6. \A i \in 1..n : f[i] = step[i][f[i - 1]]
    <2>1. \A i \in 1..n : f[i - 1] \in T
      BY <1>4
    <2> QED BY <2>1
  <1> QED BY <1>5, <1>6 DEF Computes

LEMMA Cat ==
  ASSUME NEW S, NEW s \in Seq(S), NEW t \in Seq(S)
  PROVE  /\ s \o t \in Seq(S) /\ Len(s \o t) = Len(s) + Len(t)
         /\ \A i \in 1..Len(s) : (s \o t)[i] = s[i]
         /\ \A i \in 1..Len(t) : (s \o t)[Len(s) + i] = t[i]
  OBVIOUS

LEMMA CatAssociates ==
  ASSUME NEW s \in Seq(Nat), NEW t \in Seq(Nat), NEW u \in Seq(Nat)
  PROVE  (s \o t) \o u = s \o (t \o u)
  BY ConcatAssociative, SMTT(30)

LEMMA HexByteIs ==
  ASSUME NEW p \in Nat
  PROVE  /\ HexOfByte(p) \in Seq(Nat)
         /\ p < 16 => Len(HexOfByte(p)) = 1 /\ HexOfByte(p)[1] = p
         /\ p >= 16 => /\ Len(HexOfByte(p)) = 2
                       /\ HexOfByte(p)[1] = p \div 16 /\ HexOfByte(p)[2] = p % 16
  <1>1. CASE p < 16
    BY <1>1 DEF HexOfByte
  <1>2. CASE p >= 16
    <2>1. HexOfByte(p) = <<p \div 16, p % 16>>
      BY <1>2 DEF HexOfByte
    <2>2. p \div 16 \in Nat /\ p % 16 \in Nat
      BY SMT
    <2> QED BY <1>2, <2>1, <2>2
  <1> QED BY <1>1, <1>2

HexStep(v) == [i \in 1..Len(v) |-> [x \in Seq(Nat) |-> x \o HexOfByte(v[i])]]

LEMMA HexComputes ==
  ASSUME NEW v \in Seq(Nat)
  PROVE  \E f : Computes(f, Seq(Nat), <<>>, Len(v), HexStep(v)) /\ Bin2Hex(v) = f[Len(v)]
  <1> DEFINE n == Len(v)
             T == Seq(Nat)
  <1>1. n \in Nat /\ <<>> \in T /\ \A i \in 1..n : v[i] \in Nat
    OBVIOUS
  <1>2. \A i \in 1..n : HexOfByte(v[i]) \in T
    BY <1>1, HexByteIs
  <1>3. ASSUME NEW i \in 1..n, NEW x \in T
        PROVE  HexStep(v)[i][x] = x \o HexOfByte(v[i]) /\ x \o HexOfByte(v[i]) \in T
    BY <1>2, Cat DEF HexStep
  <1>4. HexStep(v) \in [1..n -> [T -> T]]
    <2>1. ASSUME NEW i \in 1..n PROVE HexStep(v)[i] \in [T -> T]
      <3>1. HexStep(v)[i] = [x \in T |-> x \o HexOfByte(v[i])]
        BY DEF HexStep
      <3>2. \A x \in T : x \o HexOfByte(v[i]) \in T
        BY <1>3
      <3> HIDE DEF T
      <3> QED BY <3>1, <3>2
    <2>2. HexStep(v) = [i \in 1..n |-> HexStep(v)[i]]
      BY DEF HexStep
    <2> HIDE DEF T, n
    <2> QED BY <2>1, <2>2
  <1>5. PICK f : Computes(f, T, <<>>, n, HexStep(v))
    <2> HIDE DEF T, n
    <2>1. Terminates(T, <<>>, n, HexStep(v))
      BY <1>1, <1>4, LoopsTerminate
    <2> QED BY <2>1 DEF Terminates
  <1> DEFINE Eq(t) == t = [i \in 0..n |-> IF i = 0 THEN <<>> ELSE t[i - 1] \o HexOfByte(v[i])]
             ret == CHOOSE t : Eq(t)
  <1>6. Eq(f)
    <2>1. f \in [0..n -> T] /\ f[0] = <<>>
      BY <1>5 DEF Computes
    <2>2. ASSUME NEW i \in 1..n PROVE f[i] = f[i - 1] \o HexOfByte(v[i])
      <3>1. f[i - 1] \in T
        <4> HIDE DEF n, T
        <4>1. i - 1 \in 0..n
          BY <1>1
        <4> QED BY <2>1, <4>1
      <3>2. f[i] = HexStep(v)[i][f[i - 1]]
        BY <1>5 DEF Computes
      <3> QED BY <1>3, <3>1, <3>2
    <2> DEFINE t == [i \in 0..n |-> IF i = 0 THEN <<>> ELSE f[i - 1] \o HexOfByte(v[i])]
    <2> HIDE DEF n, T
    <2>3. ASSUME NEW i \in 0..n PROVE f[i] = t[i]
      <3>1. CASE i = 0
        <4>1. t[i] = <<>>
          BY <1>1, <3>1
        <4> QED BY <2>1, <3>1, <4>1
      <3>2. CASE i # 0
        <4>1. i \in 1..n
          BY <1>1, <3>2
        <4>2. t[i] = f[i - 1] \o HexOfByte(v[i])
          BY <1>1, <3>2
        <4> QED BY <2>2, <4>1, <4>2
      <3> QED BY <3>1, <3>2
    <2> QED BY <2>1, <2>3
  <1>7. Eq(ret)
    BY <1>6, Zenon
  <1>8. Bin2Hex(v) = ret[n]
    BY Zenon DEF Bin2Hex
  <1> HIDE DEF ret
  <1>9. ret[0] = <<>> /\ ret = [i \in 0..n |-> ret[i]]
    <2> HIDE DEF n
    <2> QED BY <1>1, <1>7
  <1>10. \A i \in 1..n : ret[i - 1] \in T => ret[i] = HexStep(v)[i][ret[i - 1]]
    <2>1. ASSUME NEW i \in 1..n PROVE ret[i] = ret[i - 1] \o HexOfByte(v[i])
      <3> DEFINE t == [j \in 0..n |-> IF j = 0 THEN <<>> ELSE ret[j - 1] \o HexOfByte(v[j])]
      <3> HIDE DEF n
      <3>1. i \in 0..n /\ i # 0
        BY <1>1
      <3>2. t[i] = ret[i - 1] \o HexOfByte(v[i])
        BY <3>1
      <3>3. ret = t
        BY <1>7
      <3> QED BY <3>2, <3>3
    <2> HIDE DEF n, T
    <2> QED BY <1>3, <2>1
  <1>11. Computes(ret, T, <<>>, n, HexStep(v))
    <2> HIDE DEF T, n
    <2> QED BY <1>1, <1>4, <1>9, <1>10, IsLoop
  <1> QED BY <1>8, <1>11

\* No byte below 16 behind the first one.
Clean(v, n) == \A k \in 2..n : v[k] >= 16

\* The digit that the database puts in front of a number of digits that is odd.
Pad(v) == IF v[1] < 16 THEN <<0>> ELSE <<>>

\* e is the two digits of each of the first n bytes.
Pairs(e, v, n) ==
    /\ e \in Seq(Nat) /\ Len(e) = 2 * n
    /\ \A j \in 1..n : e[2 * j - 1] = v[j] \div 16 /\ e[2 * j] = v[j] % 16

\* g is the text of the first n bytes: a byte below 16 makes it a digit shorter.
Digits(g, v, n) ==
    /\ g \in Seq(Nat) /\ Len(g) <= 2 * n
    /\ v[1] >= 16 => Len(g) >= 1 /\ g[1] = v[1] \div 16
    /\ ~Clean(v, n) => Len(g) <= 2 * n - 1
    /\ v[1] < 16 => Len(g) <= 2 * n - 1
    /\ ~Clean(v, n) /\ v[1] < 16 => Len(g) <= 2 * n - 2
    /\ Clean(v, n) => Pairs(Pad(v) \o g, v, n)

LEMMA PadIs ==
  ASSUME NEW v
  PROVE  Pad(v) \in Seq(Nat) /\ (v[1] < 16 => Pad(v) = <<0>>) /\ (~(v[1] < 16) => Pad(v) = <<>>)
  <1>1. <<0>> \in Seq(Nat) /\ <<>> \in Seq(Nat)
    OBVIOUS
  <1> QED BY <1>1 DEF Pad

LEMMA DigitsBase ==
  ASSUME NEW v, v[1] \in Nat
  PROVE  Digits(HexOfByte(v[1]), v, 1)
  <1> DEFINE g == HexOfByte(v[1])
             p == v[1]
  <1>1. /\ g \in Seq(Nat)
        /\ p < 16 => Len(g) = 1 /\ g[1] = p
        /\ p >= 16 => Len(g) = 2 /\ g[1] = p \div 16 /\ g[2] = p % 16
    BY HexByteIs
  <1>2. p \in Nat
    OBVIOUS
  <1> HIDE DEF g
  <1>3. Clean(v, 1)
    BY DEF Clean
  <1>4. CASE p < 16
    <2>1. Pad(v) = <<0>> /\ Len(g) = 1 /\ g[1] = p
      BY <1>1, <1>4, PadIs
    <2> DEFINE e == <<0>> \o g
    <2>2. e \in Seq(Nat) /\ Len(e) = 2 /\ e[1] = 0 /\ e[2] = p
      <3>1. <<0>> \in Seq(Nat) /\ Len(<<0>>) = 1
        OBVIOUS
      <3>2. /\ e \in Seq(Nat) /\ Len(e) = 1 + 1
            /\ \A i \in 1..1 : e[i] = <<0>>[i]
            /\ \A i \in 1..1 : e[1 + i] = g[i]
        BY <1>1, <2>1, <3>1, Cat
      <3> HIDE DEF e
      <3>3. e[1] = <<0>>[1] /\ e[1 + 1] = g[1]
        BY <3>2
      <3> QED BY <2>1, <3>2, <3>3
    <2> HIDE DEF e
    <2>3. p \div 16 = 0 /\ p % 16 = p
      BY <1>2, <1>4
    <2>4. Pairs(e, v, 1)
      <3>1. ASSUME NEW j \in 1..1 PROVE e[2 * j - 1] = v[j] \div 16 /\ e[2 * j] = v[j] % 16
        <4>1. j = 1 /\ 2 * j - 1 = 1 /\ 2 * j = 2
          OBVIOUS
        <4> QED BY <2>2, <2>3, <4>1
      <3> QED BY <2>2, <3>1 DEF Pairs
    <2>5. Pairs(Pad(v) \o g, v, 1)
      BY <2>1, <2>4 DEF e
    <2> QED BY <1>1, <1>3, <1>4, <2>1, <2>5 DEF Digits, g
  <1>5. CASE ~(p < 16)
    <2>1. p >= 16 /\ Pad(v) = <<>> /\ Len(g) = 2 /\ g[1] = p \div 16 /\ g[2] = p % 16
      <3>1. p >= 16
        BY <1>2, <1>5
      <3>2. Pad(v) = <<>>
        BY <1>2, <1>5, PadIs
      <3> HIDE DEF g
      <3> QED BY <1>1, <3>1, <3>2
    <2>2. <<>> \o g = g
      BY <1>1, ConcatEmptySeq
    <2>3. Pairs(g, v, 1)
      <3>1. ASSUME NEW j \in 1..1 PROVE g[2 * j - 1] = v[j] \div 16 /\ g[2 * j] = v[j] % 16
        <4>1. j = 1 /\ 2 * j - 1 = 1 /\ 2 * j = 2
          OBVIOUS
        <4> QED BY <2>1, <4>1
      <3> QED BY <1>1, <2>1, <3>1 DEF Pairs
    <2> QED BY <1>1, <1>2, <1>3, <1>5, <2>1, <2>2, <2>3 DEF Digits, g
  <1> QED BY <1>4, <1>5

LEMMA DigitsStep ==
  ASSUME NEW v, NEW n \in Nat, n >= 1, v[1] \in Nat, v[n + 1] \in Nat,
         NEW g, Digits(g, v, n)
  PROVE  Digits(g \o HexOfByte(v[n + 1]), v, n + 1)
  <1> DEFINE p == v[n + 1]
             h == HexOfByte(p)
             gh == g \o h
  <1>1. /\ h \in Seq(Nat)
        /\ p < 16 => Len(h) = 1 /\ h[1] = p
        /\ p >= 16 => Len(h) = 2 /\ h[1] = p \div 16 /\ h[2] = p % 16
    BY HexByteIs
  <1> HIDE DEF h
  <1>2. g \in Seq(Nat) /\ Len(g) \in Nat /\ Len(h) \in Nat /\ p \in Nat
    BY <1>1 DEF Digits
  <1>3. /\ gh \in Seq(Nat) /\ Len(gh) = Len(g) + Len(h)
        /\ \A i \in 1..Len(g) : gh[i] = g[i]
    BY <1>1, <1>2, Cat
  <1> HIDE DEF gh
  <1>4. Clean(v, n + 1) <=> Clean(v, n) /\ p >= 16
    <2>1. 2..(n + 1) = (2..n) \cup {n + 1}
      OBVIOUS
    <2> QED BY <2>1 DEF Clean
  <1> HIDE DEF p
  <1>5. Len(h) <= 2 /\ (~(p >= 16) => Len(h) = 1)
    <2>1. p < 16 \/ p >= 16
      BY <1>2
    <2>2. (p < 16 => Len(h) = 1) /\ (p >= 16 => Len(h) = 2)
      BY <1>1
    <2>3. CASE p < 16
      <3>1. Len(h) = 1
        BY <2>2, <2>3
      <3> QED BY <3>1
    <2>4. CASE p >= 16
      <3>1. Len(h) = 2
        BY <2>2, <2>4
      <3> QED BY <2>4, <3>1
    <2> QED BY <2>1, <2>3, <2>4
  <1>6. v[1] >= 16 => Len(gh) >= 1 /\ gh[1] = v[1] \div 16
    BY <1>2, <1>3 DEF Digits
  <1>7. /\ Len(gh) <= 2 * (n + 1)
        /\ v[1] < 16 => Len(gh) <= 2 * (n + 1) - 1
    BY <1>2, <1>3, <1>5 DEF Digits
  <1>8. /\ Len(g) <= 2 * n
        /\ ~Clean(v, n) => Len(g) <= 2 * n - 1
        /\ v[1] < 16 => Len(g) <= 2 * n - 1
        /\ ~Clean(v, n) /\ v[1] < 16 => Len(g) <= 2 * n - 2
    BY DEF Digits
  <1>9. /\ ~Clean(v, n + 1) => Len(gh) <= 2 * (n + 1) - 1
        /\ ~Clean(v, n + 1) /\ v[1] < 16 => Len(gh) <= 2 * (n + 1) - 2
    <2>1. Len(gh) = Len(g) + Len(h)
      BY <1>3
    <2>2. CASE Clean(v, n)
      <3>1. ~Clean(v, n + 1) => Len(h) = 1
        BY <1>4, <1>5, <2>2
      <3>2. Len(h) <= 2 /\ Len(g) <= 2 * n /\ (v[1] < 16 => Len(g) <= 2 * n - 1)
        BY <1>5, <1>8
      <3>3. Len(g) \in Nat /\ Len(h) \in Nat
        BY <1>2
      <3>4. ASSUME ~Clean(v, n + 1) PROVE Len(gh) <= 2 * (n + 1) - 1
        <4>1. Len(h) = 1 /\ Len(g) <= 2 * n
          BY <3>1, <3>2, <3>4
        <4> QED BY <2>1, <3>3, <4>1
      <3>5. ASSUME ~Clean(v, n + 1), v[1] < 16 PROVE Len(gh) <= 2 * (n + 1) - 2
        <4>1. Len(h) = 1 /\ Len(g) <= 2 * n - 1
          BY <3>1, <3>2, <3>5
        <4> QED BY <2>1, <3>3, <4>1
      <3> QED BY <3>4, <3>5
    <2>3. CASE ~Clean(v, n)
      <3>1. Len(h) <= 2 /\ Len(g) <= 2 * n - 1 /\ (v[1] < 16 => Len(g) <= 2 * n - 2)
        BY <1>5, <1>8, <2>3
      <3>2. Len(g) \in Nat /\ Len(h) \in Nat
        BY <1>2
      <3> QED BY <2>1, <3>1, <3>2
    <2> QED BY <2>2, <2>3
  <1>10. ASSUME Clean(v, n + 1) PROVE Pairs(Pad(v) \o gh, v, n + 1)
    <2> DEFINE e == Pad(v) \o g
               eh == e \o h
    <2>1. Pairs(e, v, n) /\ p >= 16
      BY <1>4, <1>10 DEF Digits
    <2>2. Len(h) = 2 /\ h[1] = p \div 16 /\ h[2] = p % 16
      BY <1>1, <2>1
    <2>3. Pad(v) \o gh = eh
      <3>1. Pad(v) \in Seq(Nat) /\ g \in Seq(Nat) /\ h \in Seq(Nat)
        BY <1>1, <1>2, PadIs
      <3>2. (Pad(v) \o g) \o h = Pad(v) \o (g \o h)
        BY <3>1, CatAssociates
      <3> QED BY <3>2 DEF gh
    <2> HIDE DEF e
    <2>4. /\ eh \in Seq(Nat) /\ Len(eh) = Len(e) + Len(h) /\ Len(e) = 2 * n
          /\ \A i \in 1..Len(e) : eh[i] = e[i]
          /\ \A i \in 1..Len(h) : eh[Len(e) + i] = h[i]
      <3>1. e \in Seq(Nat) /\ Len(e) = 2 * n
        BY <2>1 DEF Pairs
      <3>2. h \in Seq(Nat)
        BY <1>1
      <3> HIDE DEF eh
      <3>3. \A s, t \in Seq(Nat) :
               /\ s \o t \in Seq(Nat) /\ Len(s \o t) = Len(s) + Len(t)
               /\ \A i \in 1..Len(s) : (s \o t)[i] = s[i]
               /\ \A i \in 1..Len(t) : (s \o t)[Len(s) + i] = t[i]
        <4>1. ASSUME NEW S, NEW s \in Seq(S), NEW t \in Seq(S)
              PROVE  /\ s \o t \in Seq(S) /\ Len(s \o t) = Len(s) + Len(t)
                     /\ \A i \in 1..Len(s) : (s \o t)[i] = s[i]
                     /\ \A i \in 1..Len(t) : (s \o t)[Len(s) + i] = t[i]
          BY Cat
        <4> QED BY <4>1
      <3>4. /\ e \o h \in Seq(Nat) /\ Len(e \o h) = Len(e) + Len(h)
            /\ \A i \in 1..Len(e) : (e \o h)[i] = e[i]
            /\ \A i \in 1..Len(h) : (e \o h)[Len(e) + i] = h[i]
        BY <3>1, <3>2, <3>3, Zenon
      <3> QED BY <3>1, <3>4, Zenon DEF eh
    <2> HIDE DEF eh
    <2>5. ASSUME NEW j \in 1..(n + 1)
          PROVE  eh[2 * j - 1] = v[j] \div 16 /\ eh[2 * j] = v[j] % 16
      <3>1. CASE j <= n
        <4>1. 2 * j - 1 \in 1..(2 * n) /\ 2 * j \in 1..(2 * n) /\ j \in 1..n
          BY <3>1
        <4>2. eh[2 * j - 1] = e[2 * j - 1] /\ eh[2 * j] = e[2 * j]
          BY <2>4, <4>1
        <4>3. e[2 * j - 1] = v[j] \div 16 /\ e[2 * j] = v[j] % 16
          BY <2>1, <4>1 DEF Pairs
        <4> QED BY <4>2, <4>3
      <3>2. CASE ~(j <= n)
        <4>1. j = n + 1 /\ 2 * j - 1 = 2 * n + 1 /\ 2 * j = 2 * n + 2
          BY <3>2
        <4>2. eh[2 * n + 1] = h[1] /\ eh[2 * n + 2] = h[2]
          BY <2>2, <2>4
        <4> QED BY <2>2, <4>1, <4>2 DEF p
      <3> QED BY <3>1, <3>2
    <2>6. Len(eh) = 2 * (n + 1)
      BY <2>2, <2>4
    <2>7. Pairs(eh, v, n + 1)
      BY <2>4, <2>5, <2>6 DEF Pairs
    <2> QED BY <2>3, <2>7
  <1>11. Digits(gh, v, n + 1)
    BY <1>3, <1>6, <1>7, <1>9, <1>10 DEF Digits
  <1> QED BY <1>11 DEF gh, h, p

LEMMA HexDigits ==
  ASSUME NEW v \in Seq(Nat), v # <<>>
  PROVE  Digits(Bin2Hex(v), v, Len(v))
  <1> DEFINE n == Len(v)
  <1>1. PICK f : Computes(f, Seq(Nat), <<>>, n, HexStep(v)) /\ Bin2Hex(v) = f[n]
    BY HexComputes
  <1>2. n \in Nat /\ n >= 1 /\ \A i \in 1..n : v[i] \in Nat
    OBVIOUS
  <1>3. ASSUME NEW i \in 1..n
        PROVE  f[i - 1] \in Seq(Nat) /\ f[i] = f[i - 1] \o HexOfByte(v[i])
    <2> HIDE DEF n
    <2>1. i - 1 \in 0..n
      BY <1>2
    <2>2. f[i - 1] \in Seq(Nat)
      BY <1>1, <2>1 DEF Computes
    <2>3. f[i] = HexStep(v)[i][f[i - 1]]
      BY <1>1 DEF Computes
    <2>4. HexStep(v)[i] = [x \in Seq(Nat) |-> x \o HexOfByte(v[i])]
      BY DEF HexStep, n
    <2> QED BY <2>2, <2>3, <2>4
  <1> HIDE DEF n
  <1> DEFINE S == {i \in Nat : i + 1 <= n => Digits(f[i + 1], v, i + 1)}
  <1>4. 0 \in S
    <2>1. f[0] = <<>>
      BY <1>1 DEF Computes
    <2>2. 1 \in 1..n /\ 1 - 1 = 0 /\ 0 + 1 = 1
      BY <1>2
    <2>3. f[1] = f[0] \o HexOfByte(v[1])
      BY <1>3, <2>2
    <2>4. HexOfByte(v[1]) \in Seq(Nat) /\ v[1] \in Nat
      BY <1>2, <2>2, HexByteIs
    <2>5. f[1] = HexOfByte(v[1])
      BY <2>1, <2>3, <2>4, ConcatEmptySeq
    <2>6. Digits(f[1], v, 1)
      BY <2>4, <2>5, DigitsBase
    <2> QED BY <2>2, <2>6
  <1>5. ASSUME NEW i \in Nat, i \in S PROVE i + 1 \in S
    <2>1. SUFFICES ASSUME (i + 1) + 1 <= n PROVE Digits(f[(i + 1) + 1], v, (i + 1) + 1)
      OBVIOUS
    <2> DEFINE k == i + 1
    <2>2. /\ k \in Nat /\ k >= 1 /\ k + 1 \in 1..n /\ (k + 1) - 1 = k /\ 1 \in 1..n
          /\ Digits(f[k], v, k)
      BY <1>2, <1>5, <2>1
    <2> HIDE DEF k
    <2>3. v[1] \in Nat /\ v[k + 1] \in Nat
      BY <1>2, <2>2
    <2>4. f[k + 1] = f[k] \o HexOfByte(v[k + 1])
      BY <1>3, <2>2
    <2>5. Digits(f[k] \o HexOfByte(v[k + 1]), v, k + 1)
      BY <2>2, <2>3, DigitsStep
    <2> QED BY <2>4, <2>5 DEF k
  <1>6. Nat \subseteq S
    <2> HIDE DEF S
    <2> QED BY <1>4, <1>5, Induction
  <1>7. n - 1 \in Nat /\ (n - 1) + 1 = n
    BY <1>2
  <1>8. Digits(f[n], v, n)
    BY <1>6, <1>7
  <1> QED BY <1>1, <1>8 DEF n

\* What the database makes of v is s.
Restores(s, v) ==
    /\ s \in Seq(Nat) /\ Len(s) <= Len(v)
    /\ s = v <=> Clean(v, Len(v))

LEMMA PairsRead ==
  ASSUME NEW v \in Seq(Nat), NEW e, Pairs(e, v, Len(v))
  PROVE  [i \in 1..(Len(e) \div 2) |-> 16 * e[2 * i - 1] + e[2 * i]] = v
  <1> DEFINE n == Len(v)
             s == [i \in 1..n |-> 16 * e[2 * i - 1] + e[2 * i]]
  <1>1. n \in Nat /\ Len(e) = 2 * n
    BY DEF Pairs
  <1>2. Len(e) \div 2 = n
    BY <1>1
  <1>3. ASSUME NEW i \in 1..n PROVE 16 * e[2 * i - 1] + e[2 * i] = v[i]
    <2>1. v[i] \in Nat
      OBVIOUS
    <2>2. e[2 * i - 1] = v[i] \div 16 /\ e[2 * i] = v[i] % 16
      BY DEF Pairs
    <2> QED BY <2>1, <2>2
  <1>4. v = [i \in 1..n |-> v[i]]
    OBVIOUS
  <1>5. s = [i \in 1..n |-> v[i]]
    BY <1>3
  <1> QED BY <1>2, <1>4, <1>5

LEMMA EvenIs ==
  ASSUME NEW d \in Seq(Nat)
  PROVE  LET even == IF Len(d) % 2 = 0 THEN d ELSE <<0>> \o d
         IN  /\ even \in Seq(Nat)
             /\ Len(even) = IF Len(d) % 2 = 0 THEN Len(d) ELSE Len(d) + 1
             /\ Len(d) % 2 = 1 => \A i \in 1..Len(d) : even[1 + i] = d[i]
             /\ Len(d) % 2 = 1 => even[1] = 0
  <1>1. <<0>> \in Seq(Nat) /\ Len(<<0>>) = 1 /\ <<0>>[1] = 0 /\ Len(d) \in Nat
    OBVIOUS
  <1> DEFINE e == <<0>> \o d
  <1>2. /\ e \in Seq(Nat) /\ Len(e) = Len(<<0>>) + Len(d)
        /\ \A i \in 1..Len(<<0>>) : e[i] = <<0>>[i]
        /\ \A i \in 1..Len(d) : e[Len(<<0>>) + i] = d[i]
    BY <1>1, Cat
  <1> HIDE DEF e
  <1>3. /\ e \in Seq(Nat) /\ Len(e) = Len(d) + 1 /\ e[1] = 0
        /\ \A i \in 1..Len(d) : e[1 + i] = d[i]
    BY <1>1, <1>2
  <1>4. CASE Len(d) % 2 = 0
    BY <1>4
  <1>5. CASE ~(Len(d) % 2 = 0)
    BY <1>1, <1>3, <1>5 DEF e
  <1> QED BY <1>4, <1>5

LEMMA StoredIs ==
  ASSUME NEW v \in Seq(Nat), v # <<>>
  PROVE  Restores(Stored(v), v)
  <1> DEFINE n == Len(v)
             d == Bin2Hex(v)
             even == IF Len(d) % 2 = 0 THEN d ELSE <<0>> \o d
             s == [i \in 1..(Len(even) \div 2) |-> 16 * even[2 * i - 1] + even[2 * i]]
  <1>1. Stored(v) = s
    BY DEF Stored, HexLiteral
  <1>2. Digits(d, v, n)
    BY HexDigits
  <1>3. n \in Nat /\ n >= 1 /\ v[1] \in Nat /\ 1 \in 1..n
    OBVIOUS
  <1> HIDE DEF d
  <1>4. d \in Seq(Nat) /\ Len(d) \in Nat /\ Len(d) <= 2 * n
    BY <1>2 DEF Digits
  <1>5. /\ even \in Seq(Nat)
        /\ Len(even) = IF Len(d) % 2 = 0 THEN Len(d) ELSE Len(d) + 1
        /\ Len(d) % 2 = 1 => \A i \in 1..Len(d) : even[1 + i] = d[i]
        /\ Len(d) % 2 = 1 => even[1] = 0
    BY <1>4, EvenIs
  <1>6. CASE Clean(v, n)
    <2>1. Pairs(Pad(v) \o d, v, n)
      BY <1>2, <1>6 DEF Digits
    <2>2. even = Pad(v) \o d
      <3>1. CASE v[1] < 16
        <4>1. Pad(v) = <<0>>
          BY <3>1, PadIs
        <4>2. Len(<<0>> \o d) = 2 * n
          BY <2>1, <4>1 DEF Pairs
        <4>3. Len(<<0>> \o d) = 1 + Len(d)
          BY <1>4
        <4>4. Len(d) % 2 = 1
          <5>1. n \in Nat /\ Len(d) \in Nat /\ Len(d) = 2 * n - 1
            BY <1>3, <1>4, <4>2, <4>3
          <5> HIDE DEF n
          <5> QED BY <5>1
        <4> QED BY <4>1, <4>4
      <3>2. CASE ~(v[1] < 16)
        <4>1. Pad(v) = <<>> /\ <<>> \o d = d
          BY <1>4, <3>2, PadIs, ConcatEmptySeq
        <4>2. Len(d) = 2 * n
          BY <2>1, <4>1 DEF Pairs
        <4>3. Len(d) % 2 = 0
          BY <1>3, <4>2
        <4> QED BY <4>1, <4>3
      <3> QED BY <3>1, <3>2
    <2> HIDE DEF even
    <2>3. Pairs(even, v, n)
      BY <2>1, <2>2
    <2>4. s = v
      BY <2>3, PairsRead
    <2>5. Stored(v) = v
      BY <1>1, <2>4
    <2> HIDE DEF s
    <2> QED BY <1>3, <1>6, <2>5 DEF Restores
  <1>7. CASE ~Clean(v, n)
    <2>1. Len(d) <= 2 * n - 1 /\ (v[1] < 16 => Len(d) <= 2 * n - 2)
      BY <1>2, <1>7 DEF Digits
    <2>2. v[1] >= 16 => Len(d) >= 1 /\ d[1] = v[1] \div 16
      BY <1>2 DEF Digits
    <2>4. even \in Seq(Nat) /\ Len(even) \in Nat
      BY <1>5
    <2>3. \A i \in 1..Len(even) : even[i] \in Nat
      <3> HIDE DEF even
      <3> QED BY <2>4
    <2>5. Len(even) = IF Len(d) % 2 = 0 THEN Len(d) ELSE Len(d) + 1
      BY <1>5
    <2>6. Len(d) % 2 = 1 => even[1] = 0 /\ (Len(d) >= 1 => even[2] = d[1])
      <3>1. ASSUME Len(d) % 2 = 1, Len(d) >= 1 PROVE even[2] = d[1]
        <4>1. 1 \in 1..Len(d) /\ 1 + 1 = 2
          BY <1>4, <3>1
        <4> QED BY <1>5, <3>1, <4>1
      <3> QED BY <1>5, <3>1
    <2> HIDE DEF even
    <2> DEFINE m == Len(even) \div 2
    <2>7. m \in Nat /\ 2 * m <= Len(even) /\ Len(even) <= 2 * n
      <3>1. Len(even) <= 2 * n
        <4>1. Len(d) <= 2 * n - 1 /\ (Len(even) = Len(d) \/ Len(even) = Len(d) + 1)
          BY <2>1, <2>5
        <4> QED BY <1>3, <1>4, <4>1
      <3>2. m \in Nat /\ 2 * m <= Len(even)
        BY <2>4
      <3> QED BY <3>1, <3>2
    <2>8. \A i \in 1..m : 16 * even[2 * i - 1] + even[2 * i] \in Nat
      <3>1. ASSUME NEW i \in 1..m PROVE 16 * even[2 * i - 1] + even[2 * i] \in Nat
        <4>1. 2 * i - 1 \in 1..Len(even) /\ 2 * i \in 1..Len(even)
          <5>1. Len(even) \in Nat /\ m \in Nat /\ 2 * m <= Len(even)
            BY <2>4, <2>7
          <5> HIDE DEF m
          <5> QED BY <5>1
        <4>2. PICK x \in Nat, y \in Nat : x = even[2 * i - 1] /\ y = even[2 * i]
          BY <2>3, <4>1
        <4>3. 16 * x + y \in Nat
          OBVIOUS
        <4> QED BY <4>2, <4>3
      <3> QED BY <3>1
    <2>9. s \in Seq(Nat) /\ Len(s) = m
      <3>1. s \in [1..m -> Nat]
        BY <2>8
      <3> HIDE DEF m
      <3>2. s = [i \in 1..m |-> 16 * even[2 * i - 1] + even[2 * i]]
        BY DEF m
      <3> HIDE DEF s
      <3>3. s \in Seq(Nat) /\ DOMAIN s = 1..m
        BY <2>7, <3>1
      <3> QED BY <2>7, <3>3
    <2>10. m <= n /\ s # v
      <3>1. CASE Len(d) <= 2 * n - 2
        <4>1. Len(even) <= 2 * n - 2
          <5> DEFINE k == Len(d)
          <5>1. /\ n \in Nat /\ k \in Nat /\ k <= 2 * n - 2
                /\ Len(even) = IF k % 2 = 0 THEN k ELSE k + 1
            BY <1>3, <1>4, <2>5, <3>1
          <5> HIDE DEF n, k
          <5> QED BY <5>1
        <4>2. m <= n - 1
          BY <1>3, <2>4, <4>1
        <4>3. Len(s) # Len(v)
          BY <1>3, <2>7, <2>9, <4>2
        <4> HIDE DEF s
        <4> QED BY <1>3, <2>7, <4>2, <4>3
      <3>2. CASE ~(Len(d) <= 2 * n - 2)
        <4>1. Len(d) = 2 * n - 1 /\ ~(v[1] < 16)
          <5>1. n \in Nat /\ Len(d) \in Nat
            BY <1>3, <1>4
          <5> HIDE DEF n
          <5> QED BY <2>1, <3>2, <5>1
        <4>2. Len(d) % 2 = 1 /\ Len(d) >= 1 /\ v[1] >= 16
          BY <1>3, <4>1
        <4>3. Len(even) = 2 * n
          BY <1>3, <2>5, <4>1, <4>2
        <4>4. m = n
          BY <1>3, <4>3
        <4>5. even[1] = 0 /\ even[2] = v[1] \div 16
          BY <2>2, <2>6, <4>2
        <4>6. s[1] = 16 * even[1] + even[2]
          <5>1. 1 \in 1..m /\ 2 * 1 - 1 = 1 /\ 2 * 1 = 2
            BY <1>3, <4>4
          <5> QED BY <5>1
        <4> HIDE DEF s, m
        <4>7. s[1] = v[1] \div 16 /\ v[1] \div 16 # v[1]
          BY <1>3, <4>2, <4>5, <4>6
        <4> QED BY <1>3, <4>4, <4>7
      <3> QED BY <3>1, <3>2
    <2> HIDE DEF m, s
    <2> QED BY <1>1, <1>7, <2>9, <2>10 DEF Restores
  <1> QED BY <1>6, <1>7

\* An item that holds v as far as it can: what a GET makes of it is v exactly if v is
\* short enough and has no byte below 16 behind the first one.
Kept(item, v) ==
    /\ item.len \in Nat /\ item.len < DatalenMod
    /\ item.data \in Seq(Nat) /\ Len(item.data) <= ItemLen
    /\ Len(v) <= ItemLen /\ Clean(v, Len(v)) => item.len = Len(v)
    /\ ReplyData(item) = v <=> Len(v) <= ItemLen /\ Clean(v, Len(v))

LEMMA Clipped ==
  ASSUME NEW s \in Seq(Nat), NEW k \in Nat, k <= Len(s)
  PROVE  /\ SubSeq(s, 1, k) \in Seq(Nat) /\ Len(SubSeq(s, 1, k)) = k
         /\ \A i \in 1..k : SubSeq(s, 1, k)[i] = s[i]
  OBVIOUS

LEMMA Whole == ASSUME NEW s \in Seq(Nat) PROVE SubSeq(s, 1, Len(s)) = s
  <1> DEFINE n == Len(s)
             t == SubSeq(s, 1, n)
  <1>1. n \in Nat /\ n <= n
    OBVIOUS
  <1>2. t \in Seq(Nat) /\ Len(t) = n /\ \A i \in 1..n : t[i] = s[i]
    BY <1>1, Clipped
  <1> HIDE DEF t
  <1>3. t = [i \in 1..n |-> t[i]] /\ s = [i \in 1..n |-> s[i]]
    BY <1>2
  <1> HIDE DEF n
  <1>4. t = s
    BY <1>2, <1>3
  <1> QED BY <1>4 DEF n, t

\* A value that fits is read back as it is in the item.
LEMMA ShortRead ==
  ASSUME LengthAssumption, NEW s \in Seq(Nat), Len(s) <= ItemLen
  PROVE  /\ RowBody(s).len = Len(s)
         /\ RowBody(s).data = s
         /\ ReplyData(RowBody(s)) = s
  <1> DEFINE n == Len(s)
             b == RowBody(s)
  <1>1. n \in Nat /\ n <= ItemLen /\ ItemLen \in Nat /\ DatalenMod \in Nat /\ n < DatalenMod
    BY DEF LengthAssumption
  <1>2. n % DatalenMod = n
    <2> HIDE DEF n
    <2> QED BY <1>1
  <1>3. (IF n < ItemLen THEN n ELSE ItemLen) = n
    BY <1>1
  <1>4. SubSeq(s, 1, n) = s
    BY Whole
  <1>5. b = [len |-> n, data |-> s]
    BY <1>2, <1>3, <1>4, Zenon DEF RowBody, Datalen
  <1>6. b.len = n /\ b.data = s
    BY <1>5
  <1> HIDE DEF b
  <1>7. ReplyData(b) = [i \in 1..n |-> s[i]]
    <2>1. ReplyData(b) = [i \in 1..n |-> CASE i <= Len(s) -> s[i]
                             [] i \in (Len(s) + 1)..ItemLen -> 0
                             [] OTHER -> BehindItem]
      BY <1>6 DEF ReplyData
    <2>2. ASSUME NEW i \in 1..n
          PROVE  (CASE i <= Len(s) -> s[i]
                    [] i \in (Len(s) + 1)..ItemLen -> 0
                    [] OTHER -> BehindItem) = s[i]
      <3>1. i <= Len(s) /\ i \notin (Len(s) + 1)..ItemLen
        BY <1>1
      <3> QED BY <3>1
    <2> QED BY <2>1, <2>2
  <1>8. s = [i \in 1..n |-> s[i]]
    OBVIOUS
  <1> QED BY <1>6, <1>7, <1>8 DEF b

\* Of one that does not fit, the item has the beginning, and another length if it is
\* longer than the field of the length can tell.
LEMMA LongRead ==
  ASSUME LengthAssumption, NEW s \in Seq(Nat), Len(s) > ItemLen
  PROVE  LET b == RowBody(s)
         IN  /\ b.len = Len(s) % DatalenMod
             /\ b.data \in Seq(Nat) /\ Len(b.data) = ItemLen
             /\ ReplyData(b) \in Seq(Nat) /\ Len(ReplyData(b)) = b.len
             /\ b.len > ItemLen => ReplyData(b)[b.len] = BehindItem
  <1> DEFINE n == Len(s)
             b == RowBody(s)
             data == SubSeq(s, 1, ItemLen)
  <1>1. n \in Nat /\ ItemLen < n /\ ItemLen \in Nat /\ DatalenMod \in Nat /\ DatalenMod > 0
    BY DEF LengthAssumption
  <1>2. n % DatalenMod \in Nat
    <2> HIDE DEF n
    <2> QED BY <1>1
  <1>3. (IF n < ItemLen THEN n ELSE ItemLen) = ItemLen
    BY <1>1
  <1>4. /\ data \in Seq(Nat) /\ Len(data) = ItemLen
        /\ \A i \in 1..ItemLen : data[i] = s[i]
    BY <1>1, Clipped
  <1> HIDE DEF data
  <1>5. b = [len |-> n % DatalenMod, data |-> data]
    BY <1>3 DEF RowBody, Datalen, data
  <1>6. b.len = n % DatalenMod /\ b.data = data
    BY <1>5
  <1> HIDE DEF b
  <1> DEFINE byte(i) == CASE i <= Len(data) -> data[i]
                          [] i \in (Len(data) + 1)..ItemLen -> 0
                          [] OTHER -> BehindItem
             reply == [i \in 1..b.len |-> byte(i)]
  <1>7. ReplyData(b) = reply
    BY <1>6 DEF ReplyData
  <1>8. ASSUME NEW i \in 1..b.len
        PROVE  byte(i) \in Nat /\ (i > ItemLen => byte(i) = BehindItem)
    <2>1. i \in Nat /\ i >= 1
      BY <1>2, <1>6
    <2>2. CASE i <= ItemLen
      <3>1. data[i] \in Nat
        BY <1>4, <2>1, <2>2
      <3>2. byte(i) = data[i]
        BY <1>4, <2>2, <1>1, <2>1
      <3>3. ~(i > ItemLen)
        BY <1>1, <2>1, <2>2
      <3> HIDE DEF byte
      <3> QED BY <3>1, <3>2, <3>3
    <2>3. CASE ~(i <= ItemLen)
      <3>1. i \notin (Len(data) + 1)..ItemLen /\ ~(i <= Len(data))
        BY <1>1, <1>4, <2>1, <2>3
      <3>2. byte(i) = BehindItem
        BY <3>1
      <3> QED BY <3>2 DEF BehindItem
    <2> QED BY <2>2, <2>3
  <1> HIDE DEF byte
  <1>9. reply \in Seq(Nat) /\ Len(reply) = b.len
    <2> DEFINE k == b.len
    <2>1. k \in Nat
      BY <1>2, <1>6
    <2>2. reply \in [1..k -> Nat]
      BY <1>8
    <2> HIDE DEF reply, k
    <2>3. reply \in Seq(Nat) /\ DOMAIN reply = 1..k
      BY <2>1, <2>2
    <2>4. Len(reply) = k
      BY <2>1, <2>3
    <2> QED BY <2>3, <2>4 DEF k
  <1>10. b.len > ItemLen => reply[b.len] = BehindItem
    <2>1. b.len \in Nat
      BY <1>2, <1>6
    <2>2. ASSUME b.len > ItemLen PROVE b.len \in 1..b.len
      BY <1>1, <2>1, <2>2
    <2> QED BY <1>8, <2>2
  <1> HIDE DEF reply
  <1> QED BY <1>4, <1>6, <1>7, <1>9, <1>10 DEF b

LEMMA CodecExact ==
  ASSUME LengthAssumption, NEW v \in Seq(Content), v # <<>>
  PROVE  Kept(RowBody(Stored(v)), v)
  <1> DEFINE s == Stored(v)
             b == RowBody(s)
  <1>1. Content \subseteq Nat /\ BehindItem \notin Content
    BY DEF Content, Bytes, Stale, BehindItem
  <1>2. v \in Seq(Nat) /\ Len(v) \in Nat /\ Len(v) >= 1
    <2>1. ASSUME NEW S, NEW T, S \subseteq T, NEW t \in Seq(S) PROVE t \in Seq(T)
      BY <2>1
    <2>2. v \in Seq(Nat)
      BY <1>1, <2>1
    <2> QED BY <2>2
  <1>3. \A i \in 1..Len(v) : v[i] # BehindItem
    BY <1>1
  <1>4. Restores(s, v)
    BY <1>2, StoredIs
  <1> HIDE DEF s
  <1>5. s \in Seq(Nat) /\ Len(s) \in Nat /\ Len(s) <= Len(v) /\ (s = v <=> Clean(v, Len(v)))
    BY <1>4 DEF Restores
  <1>6. ItemLen \in Nat /\ DatalenMod \in Nat /\ ItemLen < DatalenMod
    BY DEF LengthAssumption
  <1>7. CASE Len(s) <= ItemLen
    <2>1. b.len = Len(s) /\ b.data = s /\ ReplyData(b) = s
      BY <1>5, <1>7, ShortRead
    <2> HIDE DEF b
    <2>2. b.len \in Nat /\ b.len < DatalenMod /\ b.data \in Seq(Nat) /\ Len(b.data) <= ItemLen
      BY <1>5, <1>6, <1>7, <2>1
    <2>3. Clean(v, Len(v)) => Len(s) = Len(v) /\ Len(v) <= ItemLen
      BY <1>5, <1>7
    <2>4. ReplyData(b) = v <=> Clean(v, Len(v))
      BY <1>5, <2>1
    <2>5. Len(v) <= ItemLen /\ Clean(v, Len(v)) => b.len = Len(v)
      BY <2>1, <2>3
    <2>6. ReplyData(b) = v <=> Len(v) <= ItemLen /\ Clean(v, Len(v))
      BY <2>3, <2>4
    <2>7. Kept(b, v)
      BY <2>2, <2>5, <2>6 DEF Kept
    <2> QED BY <2>7 DEF b, s
  <1>8. CASE ~(Len(s) <= ItemLen)
    <2>1. Len(s) > ItemLen
      BY <1>5, <1>6, <1>8
    <2>2. /\ b.len = Len(s) % DatalenMod
          /\ b.data \in Seq(Nat) /\ Len(b.data) = ItemLen
          /\ ReplyData(b) \in Seq(Nat) /\ Len(ReplyData(b)) = b.len
          /\ b.len > ItemLen => ReplyData(b)[b.len] = BehindItem
      BY <1>5, <2>1, LongRead
    <2> HIDE DEF b
    <2>3. b.len \in Nat /\ b.len < DatalenMod /\ b.len <= Len(s)
      <3> DEFINE k == Len(s)
      <3>1. k \in Nat /\ b.len = k % DatalenMod
        BY <1>5, <2>2
      <3> HIDE DEF k
      <3>2. DatalenMod > 0
        BY <1>6
      <3>3. k % DatalenMod \in Nat /\ k % DatalenMod < DatalenMod /\ k % DatalenMod <= k
        BY <1>6, <3>1, <3>2
      <3> QED BY <3>1, <3>3 DEF k
    <2>4. ~(Len(v) <= ItemLen)
      BY <1>2, <1>5, <1>6, <2>1
    <2>5. ReplyData(b) # v
      <3>1. SUFFICES ASSUME ReplyData(b) = v PROVE FALSE
        OBVIOUS
      <3>2. b.len = Len(v)
        BY <2>2, <3>1
      <3>3. b.len > ItemLen /\ Len(v) \in 1..Len(v)
        BY <1>2, <1>6, <2>4, <3>2
      <3>4. v[Len(v)] = BehindItem
        BY <2>2, <3>1, <3>2, <3>3
      <3> QED BY <1>3, <3>3, <3>4
    <2>6. Len(b.data) <= ItemLen
      BY <1>6, <2>2
    <2>7. Kept(b, v)
      <3>1. b.len \in Nat /\ b.len < DatalenMod /\ b.data \in Seq(Nat)
        BY <2>2, <2>3
      <3> QED BY <2>4, <2>5, <2>6, <3>1 DEF Kept
    <2> QED BY <2>7 DEF b, s
  <1> QED BY <1>7, <1>8

-----------------------------------------------------------------------------
(* Routes. *)

Hash == [high: Int, low: Int]

LEMMA XorIs == ASSUME NEW a \in Int, NEW b \in Int PROVE XorByte(a, b) \in Int
  <1> DEFINE bit(i) == ((a \div Powers[i]) + (b \div Powers[i])) % 2
             bits == [i \in 1..8 |-> Powers[i] * bit(i)]
  <1>1. ASSUME NEW i \in 1..8 PROVE Powers[i] \in Nat /\ Powers[i] > 0
    BY DEF Powers
  <1>2. ASSUME NEW i \in 1..8 PROVE bits[i] \in Int
    <2>1. PICK k \in Nat : k = Powers[i] /\ k > 0
      BY <1>1
    <2>2. a \div k \in Int /\ b \div k \in Int
      BY <2>1
    <2>3. ((a \div k) + (b \div k)) % 2 \in Int
      BY <2>2
    <2>4. bit(i) \in Int
      BY <2>1, <2>3
    <2>5. bits[i] = k * bit(i)
      BY <2>1
    <2> HIDE DEF bits, bit
    <2> QED BY <2>1, <2>4, <2>5
  <1> HIDE DEF bits
  <1>3. SumTo(bits, 8) \in Int
    BY <1>2, SumInt
  <1> QED BY <1>3 DEF XorByte, bits

LEMMA HashByteIs ==
  ASSUME NEW byte \in Int, NEW hash \in Hash PROVE HashByte(byte, hash) \in Hash
  <1> DEFINE low == 33 * hash.low
             high == (33 * hash.high + (low \div HalfMod)) % HalfMod
             xor == XorByte(low % 256, byte)
             mid == 256 * ((low % HalfMod) \div 256)
  <1>1. hash.low \in Int /\ hash.high \in Int
    BY DEF Hash
  <1>2. low \in Int /\ low \div HalfMod \in Int /\ low % HalfMod \in Int
    BY <1>1, SMT DEF HalfMod
  <1> HIDE DEF low
  <1>3. high \in Int
    BY <1>1, <1>2, SMT DEF HalfMod
  <1>4. xor \in Int
    <2>1. low % 256 \in Int
      BY <1>2
    <2> QED BY <2>1, XorIs
  <1>5. mid \in Int
    <2> DEFINE x == low % HalfMod
    <2>1. x \in Int
      BY <1>2
    <2> HIDE DEF x
    <2>2. x \div 256 \in Int
      BY <2>1
    <2>3. 256 * (x \div 256) \in Int
      BY <2>2
    <2> QED BY <2>3 DEF x
  <1>6. HashByte(byte, hash) = [high |-> high, low |-> mid + xor]
    BY Zenon DEF HashByte, low
  <1> HIDE DEF high, mid, xor
  <1> QED BY <1>3, <1>4, <1>5, <1>6 DEF Hash

HashStep(key) == [i \in 1..Len(key) |-> [h \in Hash |-> HashByte(key[Len(key) + 1 - i], h)]]

LEMMA HashIs == ASSUME NEW key \in Seq(Int) PROVE Hash32(key) \in Hash
  <1> DEFINE n == Len(key)
             base == [high |-> 0, low |-> 5381]
             step == HashStep(key)
             byte(i) == key[n + 1 - i]
  <1>1. n \in Nat /\ base \in Hash
    BY DEF Hash
  <1>2. ASSUME NEW i \in 1..n PROVE byte(i) \in Int
    <2>1. n + 1 - i \in 1..n
      BY <1>1
    <2> QED BY <2>1
  <1>3. ASSUME NEW i \in 1..n, NEW h \in Hash
        PROVE  step[i][h] = HashByte(byte(i), h) /\ HashByte(byte(i), h) \in Hash
    <2>1. step[i] = [x \in Hash |-> HashByte(byte(i), x)]
      BY DEF HashStep
    <2> HIDE DEF byte, step
    <2> QED BY <1>2, <2>1, HashByteIs
  <1>4. step \in [1..n -> [Hash -> Hash]]
    <2>1. ASSUME NEW i \in 1..n PROVE step[i] \in [Hash -> Hash]
      <3>1. step[i] = [h \in Hash |-> HashByte(byte(i), h)]
        BY DEF HashStep
      <3>2. \A h \in Hash : HashByte(byte(i), h) \in Hash
        BY <1>3
      <3> HIDE DEF byte, step
      <3> QED BY <3>1, <3>2
    <2>2. step = [i \in 1..n |-> step[i]]
      BY DEF HashStep
    <2> HIDE DEF n, step
    <2> QED BY <2>1, <2>2
  <1> HIDE DEF n, byte, step, base
  <1>5. PICK f : Computes(f, Hash, base, n, step)
    <2>1. Terminates(Hash, base, n, step)
      BY <1>1, <1>4, LoopsTerminate
    <2> QED BY <2>1 DEF Terminates
  <1> DEFINE Round(t) == [i \in 0..n |-> IF i = 0 THEN base ELSE HashByte(byte(i), t[i - 1])]
             Eq(t) == t = Round(t)
             hash == CHOOSE t : Eq(t)
  <1>6. Eq(f)
    <2>1. f \in [0..n -> Hash] /\ f[0] = base
      BY <1>5 DEF Computes
    <2>2. ASSUME NEW i \in 1..n PROVE f[i] = HashByte(byte(i), f[i - 1])
      <3>1. i - 1 \in 0..n
        BY <1>1
      <3>2. f[i - 1] \in Hash
        BY <2>1, <3>1
      <3>3. f[i] = step[i][f[i - 1]]
        BY <1>5 DEF Computes
      <3> QED BY <1>3, <3>2, <3>3
    <2>3. ASSUME NEW i \in 0..n PROVE f[i] = Round(f)[i]
      <3>1. CASE i = 0
        BY <2>1, <3>1
      <3>2. CASE i # 0
        <4>1. i \in 1..n
          BY <1>1, <3>2
        <4>2. Round(f)[i] = HashByte(byte(i), f[i - 1])
          BY <3>2
        <4> QED BY <2>2, <4>1, <4>2
      <3> QED BY <3>1, <3>2
    <2> QED BY <2>1, <2>3
  <1>7. Eq(hash)
    BY <1>6
  <1>8. Hash32(key) = hash[n]
    BY DEF Hash32, n, base, byte
  <1> HIDE DEF hash
  <1>9. hash[0] = base /\ hash = [i \in 0..n |-> hash[i]]
    BY <1>1, <1>7
  <1>10. \A i \in 1..n : hash[i - 1] \in Hash => hash[i] = step[i][hash[i - 1]]
    <2>1. ASSUME NEW i \in 1..n PROVE hash[i] = HashByte(byte(i), hash[i - 1])
      <3>1. i \in 0..n /\ i # 0
        BY <1>1
      <3>2. Round(hash)[i] = HashByte(byte(i), hash[i - 1])
        BY <3>1
      <3> QED BY <1>7, <3>2
    <2> QED BY <1>3, <2>1
  <1>11. Computes(hash, Hash, base, n, step)
    BY <1>1, <1>4, <1>9, <1>10, IsLoop
  <1>12. hash[n] \in Hash
    <2>1. hash \in [0..n -> Hash]
      BY <1>11 DEF Computes
    <2> QED BY <1>1, <2>1
  <1> QED BY <1>8, <1>12

\* Every route is to an internal address.
LEMMA RouteIs ==
  ASSUME NEW p, p.body \in Seq(Int), p.keylen \in Nat, p.keylen <= Len(p.body)
  PROVE  Route(p) \in Nat /\ Route(p) >= INTERNAL_IP_OCT3
  <1> DEFINE key == SubSeq(p.body, 1, p.keylen)
             h == Hash32(key)
             x == (h.high % 12) * (HalfMod % 12) + h.low
  <1>1. key \in Seq(Int)
    OBVIOUS
  <1> HIDE DEF key
  <1>2. h \in Hash
    BY <1>1, HashIs
  <1> HIDE DEF h
  <1>3. h.high \in Int /\ h.low \in Int
    BY <1>2 DEF Hash
  <1>4. h.high % 12 \in Int /\ HalfMod % 12 = 4
    BY <1>3, SMT DEF HalfMod
  <1>5. x \in Int
    BY <1>3, <1>4
  <1>6. Route(p) = INTERNAL_IP_OCT3 + (x % 12)
    BY Zenon DEF Route, HashMod, USECORE_COUNT, h, key
  <1> HIDE DEF x
  <1>7. x % 12 \in Nat
    BY <1>5
  <1> QED BY <1>6, <1>7 DEF INTERNAL_IP_OCT3

-----------------------------------------------------------------------------
(* Replies. *)

RequestWith(magic, opcode, keylen, extlen, datatype, status, bodylen, opaque, body) ==
    [magic |-> magic, opcode |-> opcode, keylen |-> keylen, extlen |-> extlen,
     datatype |-> datatype, status |-> status, bodylen |-> bodylen, opaque |-> opaque,
     body |-> body]

ReplyPacket(opcode, extlen, status, bodylen, opaque, body) ==
    RequestWith(MAGIC_RESPONSE, opcode, 0, extlen, 0, status, bodylen, opaque, body)

LEMMA RequestIs ==
  ASSUME NEW p \in AnyRequest
  PROVE  /\ p = RequestWith(p.magic, p.opcode, p.keylen, p.extlen, p.datatype, p.status,
                            p.bodylen, p.opaque, p.body)
         /\ p.keylen \in Nat /\ p.extlen \in Nat /\ p.bodylen \in Nat
         /\ p.body \in Seq(Content)
  <1>1. \A b \in Bytes : b \in Nat
    BY BytesAreSmall
  <1>2. Halves \subseteq Nat
    BY DEF Halves
  <1> QED BY <1>1, <1>2 DEF AnyRequest, RequestWith

LEMMA ResponseIs ==
  ASSUME NEW p \in AnyRequest, NEW e, NEW s, NEW b
  PROVE  Response(p, e, s, b) = ReplyPacket(p.opcode, e, s, b, p.opaque, p.body)
  <1> DEFINE m == MAGIC_RESPONSE
             r1 == [p EXCEPT !.magic = m]
             r2 == [r1 EXCEPT !.keylen = 0]
             r3 == [r2 EXCEPT !.extlen = e]
             r4 == [r3 EXCEPT !.datatype = 0]
             r5 == [r4 EXCEPT !.status = s]
             r6 == [r5 EXCEPT !.bodylen = b]
  <1>1. p = RequestWith(p.magic, p.opcode, p.keylen, p.extlen, p.datatype, p.status,
                        p.bodylen, p.opaque, p.body)
    BY RequestIs
  <1>2. Response(p, e, s, b) = r6
    BY DEF Response
  <1> HIDE DEF m, r1, r2, r3, r4, r5, r6
  <1>3. r1 = RequestWith(m, p.opcode, p.keylen, p.extlen, p.datatype, p.status,
                         p.bodylen, p.opaque, p.body)
    BY <1>1, SMT DEF r1, RequestWith
  <1>4. r2 = RequestWith(m, p.opcode, 0, p.extlen, p.datatype, p.status,
                         p.bodylen, p.opaque, p.body)
    BY <1>3, SMT DEF r2, RequestWith
  <1>5. r3 = RequestWith(m, p.opcode, 0, e, p.datatype, p.status, p.bodylen, p.opaque, p.body)
    BY <1>4, SMT DEF r3, RequestWith
  <1>6. r4 = RequestWith(m, p.opcode, 0, e, 0, p.status, p.bodylen, p.opaque, p.body)
    BY <1>5, SMT DEF r4, RequestWith
  <1>7. r5 = RequestWith(m, p.opcode, 0, e, 0, s, p.bodylen, p.opaque, p.body)
    BY <1>6, SMT DEF r5, RequestWith
  <1>8. r6 = RequestWith(m, p.opcode, 0, e, 0, s, b, p.opaque, p.body)
    BY <1>7, SMT DEF r6, RequestWith
  <1> QED BY <1>2, <1>8 DEF ReplyPacket, m

\* c is body with the bytes at one place.
Written(c, body, at, bytes) ==
    /\ c \in Seq(Nat) /\ Len(c) = Len(body)
    /\ SubSeq(c, at, at + Len(bytes) - 1) = bytes

LEMMA CopyIs ==
  ASSUME NEW body \in Seq(Nat), NEW bytes \in Seq(Nat), NEW at \in Nat, at >= 1,
         at + Len(bytes) - 1 <= Len(body)
  PROVE  Written(Copy(body, at, bytes), body, at, bytes)
  <1> DEFINE n == Len(body)
             k == Len(bytes)
             byte(i) == IF i \in at..(at + k - 1) THEN bytes[i - at + 1] ELSE body[i]
             c == [i \in 1..n |-> byte(i)]
  <1>1. n \in Nat /\ k \in Nat /\ at + k - 1 <= n /\ DOMAIN body = 1..n
    OBVIOUS
  <1>2. Copy(body, at, bytes) = c
    BY <1>1 DEF Copy
  <1>3. \A i \in 1..n : body[i] \in Nat
    OBVIOUS
  <1>4. \A i \in 1..k : bytes[i] \in Nat
    OBVIOUS
  <1>5. ASSUME NEW i \in 1..n PROVE byte(i) \in Nat
    <2>1. CASE i \in at..(at + k - 1)
      <3>1. i - at + 1 \in 1..k
        BY <1>1, <2>1
      <3> QED BY <1>4, <2>1, <3>1
    <2>2. CASE i \notin at..(at + k - 1)
      BY <1>3, <2>2
    <2> QED BY <2>1, <2>2
  <1> HIDE DEF n
  <1>6. c \in [1..n -> Nat]
    <2> HIDE DEF byte
    <2> QED BY <1>5
  <1>7. \A i \in 1..k : c[at + i - 1] = bytes[i]
    <2>1. ASSUME NEW i \in 1..k PROVE c[at + i - 1] = bytes[i]
      <3>1. at + i - 1 \in 1..n /\ at + i - 1 \in at..(at + k - 1) /\ (at + i - 1) - at + 1 = i
        BY <1>1
      <3>2. byte(at + i - 1) = bytes[(at + i - 1) - at + 1]
        BY <3>1
      <3> HIDE DEF byte
      <3> QED BY <3>1, <3>2
    <2> QED BY <2>1
  <1> HIDE DEF c
  <1>8. c \in Seq(Nat) /\ DOMAIN c = 1..n
    BY <1>1, <1>6
  <1>9. Len(c) = n
    BY <1>1, <1>8
  <1> DEFINE s == SubSeq(c, at, at + k - 1)
  <1>10. Len(s) = k /\ s \in Seq(Nat) /\ \A i \in 1..k : s[i] = c[at + i - 1]
    <2> HIDE DEF k
    <2> DEFINE last == at + k - 1
    <2>1. last \in Int /\ at \in Int
      BY <1>1
    <2>5. \A i \in at..last : c[i] \in Nat
      BY <1>1, <1>6
    <2> HIDE DEF last
    <2>6. /\ SubSeq(c, at, last) \in Seq(Nat)
          /\ Len(SubSeq(c, at, last)) = IF at <= last THEN last - at + 1 ELSE 0
          /\ \A i \in 1..(last - at + 1) : SubSeq(c, at, last)[i] = c[at + i - 1]
      BY <2>1, <2>5, SubSeqProperties
    <2>2. (at + k - 1) - at + 1 = k
      BY <1>1
    <2>3. /\ s \in Seq(Nat)
          /\ Len(s) = IF at <= at + k - 1 THEN (at + k - 1) - at + 1 ELSE 0
          /\ \A i \in 1..((at + k - 1) - at + 1) : s[i] = c[at + i - 1]
      BY <2>6 DEF last
    <2>4. ~(at <= at + k - 1) => k = 0
      BY <1>1
    <2> QED BY <1>1, <2>2, <2>3, <2>4
  <1> HIDE DEF s
  <1>11. s = bytes
    <2>1. \A i \in 1..k : s[i] = bytes[i]
      BY <1>7, <1>10
    <2> HIDE DEF k
    <2>2. s = [i \in 1..k |-> s[i]] /\ bytes = [i \in 1..k |-> bytes[i]]
      BY <1>10 DEF k
    <2> QED BY <2>1, <2>2
  <1>12. Written(c, body, at, bytes)
    BY <1>8, <1>9, <1>11 DEF Written, s, n
  <1> QED BY <1>2, <1>12

LEMMA ReplyDataIs ==
  ASSUME NEW item, item.len \in Nat, item.data \in Seq(Nat)
  PROVE  ReplyData(item) \in Seq(Nat) /\ Len(ReplyData(item)) = item.len
  <1> DEFINE n == item.len
             data == item.data
             byte(i) == CASE i <= Len(data) -> data[i]
                          [] i \in (Len(data) + 1)..ItemLen -> 0
                          [] OTHER -> BehindItem
             reply == [i \in 1..n |-> byte(i)]
  <1>1. ReplyData(item) = reply
    BY DEF ReplyData
  <1>2. ASSUME NEW i \in 1..n PROVE byte(i) \in Nat
    <2>1. i \in Nat /\ i >= 1
      OBVIOUS
    <2>2. CASE i <= Len(data)
      <3>1. data[i] \in Nat
        BY <2>1, <2>2
      <3>2. i \notin (Len(data) + 1)..ItemLen
        BY <2>1, <2>2
      <3> QED BY <2>2, <3>1, <3>2
    <2>3. CASE ~(i <= Len(data)) /\ i \in (Len(data) + 1)..ItemLen
      BY <2>3
    <2>4. CASE ~(i <= Len(data)) /\ i \notin (Len(data) + 1)..ItemLen
      BY <2>4 DEF BehindItem
    <2> QED BY <2>2, <2>3, <2>4
  <1> HIDE DEF byte
  <1>3. reply \in [1..n -> Nat]
    BY <1>2
  <1> HIDE DEF reply
  <1>4. reply \in Seq(Nat) /\ DOMAIN reply = 1..n
    BY <1>3
  <1>5. Len(reply) = n
    BY <1>4
  <1> QED BY <1>1, <1>4, <1>5

\* r is a reply to p, as long as its own header says.
Replies(r, p) ==
    /\ r.ret = 1 /\ r.len = HeaderLen + r.pkt.bodylen
    /\ r.pkt.magic = MAGIC_RESPONSE /\ r.pkt.opcode = p.opcode

\* A buffer with room for every reply.
Buffer(p) ==
    /\ p \in AnyRequest
    /\ Len(p.body) >= DatalenMod + 4 /\ Len(p.body) >= Len(NotFound)

LEMMA BufferIs ==
  ASSUME NEW p, Buffer(p)
  PROVE  p \in AnyRequest /\ p.body \in Seq(Nat) /\ Len(p.body) \in Nat
  <1>1. p \in AnyRequest
    BY DEF Buffer
  <1>2. p.body \in Seq(Content)
    BY <1>1, RequestIs
  <1>3. Content \subseteq Nat
    <2>1. Bytes \subseteq Nat
      BY BytesAreSmall
    <2> QED BY <2>1 DEF Content, Stale
  <1>4. ASSUME NEW S, NEW T, S \subseteq T, NEW t \in Seq(S) PROVE t \in Seq(T)
    BY <1>4
  <1>5. p.body \in Seq(Nat)
    BY <1>2, <1>3, <1>4
  <1> QED BY <1>1, <1>5

LEMMA HitIs ==
  ASSUME DatalenMod \in Nat, NEW p, Buffer(p), NEW item, item.data \in Seq(Nat),
         item.len \in Nat, item.len < DatalenMod
  PROVE  LET r == HitReply(p, item)
         IN  /\ Replies(r, p) /\ r.writes = {}
             /\ r.pkt.status = STATUS_OK /\ r.pkt.opaque = p.opaque
             /\ Value(r.pkt) = ReplyData(item)
  <1> DEFINE n == item.len
             data == ReplyData(item)
             q == Response(p, 4, STATUS_OK, n + 4)
             extras == Copy(p.body, 1, <<0, 0, 0, 0>>)
             body == Copy(extras, 5, data)
             pkt == ReplyPacket(p.opcode, 4, STATUS_OK, n + 4, p.opaque, body)
             r == HitReply(p, item)
  <1>1. p \in AnyRequest /\ n \in Nat
    BY DEF Buffer
  <1>2. q = ReplyPacket(p.opcode, 4, STATUS_OK, n + 4, p.opaque, p.body)
    BY <1>1, ResponseIs
  <1>3. q.extlen = 4 /\ q.keylen = 0 /\ q.body = p.body
    BY <1>2 DEF ReplyPacket, RequestWith
  <1>4. ValueAt(q) = 5
    BY <1>3 DEF ValueAt
  <1>5. [q EXCEPT !.body = body] = pkt
    <2> HIDE DEF body
    <2> QED BY <1>2, SMT DEF ReplyPacket, RequestWith
  <1>6. r = Send(pkt, HeaderLen + n + 4, {})
    <2> DEFINE out == [q EXCEPT !.body = Copy(Copy(@, 1, <<0, 0, 0, 0>>), ValueAt(q), data)]
    <2>1. r = Send(out, HeaderLen + n + 4, {})
      BY Zenon DEF HitReply
    <2>2. out = [q EXCEPT !.body = Copy(Copy(q.body, 1, <<0, 0, 0, 0>>), ValueAt(q), data)]
      OBVIOUS
    <2>3. Copy(Copy(q.body, 1, <<0, 0, 0, 0>>), ValueAt(q), data) = body
      BY <1>3, <1>4
    <2> HIDE DEF body, q, pkt, out, data
    <2> QED BY <1>5, <2>1, <2>2, <2>3
  <1>7. p.body \in Seq(Nat) /\ Len(p.body) >= DatalenMod + 4
    BY BufferIs DEF Buffer
  <1>8. data \in Seq(Nat) /\ Len(data) = n
    BY ReplyDataIs
  <1> HIDE DEF data
  <1>9. extras \in Seq(Nat) /\ Len(extras) = Len(p.body)
    <2> DEFINE zeros == <<0, 0, 0, 0>>
    <2>1. zeros \in Seq(Nat) /\ Len(zeros) = 4
      OBVIOUS
    <2>2. Len(p.body) \in Nat
      BY <1>7
    <2> HIDE DEF zeros
    <2>3. 1 + Len(zeros) - 1 <= Len(p.body)
      BY <1>7, <2>1, <2>2
    <2>4. p.body \in Seq(Nat) /\ zeros \in Seq(Nat) /\ 1 \in Nat /\ 1 >= 1
      BY <1>7, <2>1
    <2>5. Written(Copy(p.body, 1, zeros), p.body, 1, zeros)
      BY <2>3, <2>4, CopyIs
    <2>6. extras = Copy(p.body, 1, zeros)
      BY DEF zeros
    <2> HIDE DEF extras
    <2> QED BY <2>5, <2>6 DEF Written
  <1> HIDE DEF extras
  <1>10. SubSeq(body, 5, 5 + n - 1) = data
    <2>1. Len(p.body) \in Nat
      BY <1>7
    <2>2. 5 + Len(data) - 1 <= Len(extras)
      <3>1. Len(data) = n /\ Len(extras) = Len(p.body) /\ Len(p.body) >= DatalenMod + 4
        BY <1>7, <1>8, <1>9
      <3>2. n \in Nat /\ n < DatalenMod
        BY <1>1
      <3> HIDE DEF n
      <3> QED BY <2>1, <3>1, <3>2
    <2>3. extras \in Seq(Nat) /\ data \in Seq(Nat) /\ 5 \in Nat /\ 5 >= 1
      BY <1>8, <1>9
    <2>4. Written(body, extras, 5, data)
      BY <2>2, <2>3, CopyIs
    <2> HIDE DEF body
    <2>5. SubSeq(body, 5, 5 + Len(data) - 1) = data
      BY <2>4 DEF Written
    <2> QED BY <1>8, <2>5
  <1> HIDE DEF body
  <1>11. /\ pkt.extlen = 4 /\ pkt.keylen = 0 /\ pkt.bodylen = n + 4 /\ pkt.body = body
         /\ pkt.magic = MAGIC_RESPONSE /\ pkt.opcode = p.opcode /\ pkt.opaque = p.opaque
         /\ pkt.status = STATUS_OK
    BY DEF ReplyPacket, RequestWith
  <1> HIDE DEF pkt
  <1>12. ValueAt(pkt) = 5 /\ ValueLen(pkt) = n
    BY <1>1, <1>11 DEF ValueAt, ValueLen
  <1>13. Value(pkt) = data
    BY <1>10, <1>11, <1>12 DEF Value
  <1>14. r.ret = 1 /\ r.pkt = pkt /\ r.len = HeaderLen + n + 4 /\ r.writes = {}
    BY <1>6 DEF Send
  <1> HIDE DEF r
  <1>15. r.len = HeaderLen + r.pkt.bodylen
    BY <1>1, <1>11, <1>14 DEF HeaderLen
  <1> QED BY <1>11, <1>13, <1>14, <1>15 DEF Replies, r, data

LEMMA MissIs ==
  ASSUME NEW p, Buffer(p)
  PROVE  LET r == MissReply(p)
         IN  /\ Replies(r, p) /\ r.writes = {}
             /\ r.pkt.status = STATUS_ERR /\ Value(r.pkt) = NotFound
  <1> DEFINE z == [p EXCEPT !.opaque = 0]
             n == Len(NotFound)
             q == Response(z, 0, STATUS_ERR, n)
             body == Copy(p.body, 1, NotFound)
             pkt == ReplyPacket(p.opcode, 0, STATUS_ERR, n, 0, body)
             r == MissReply(p)
  <1>1. p \in AnyRequest /\ p.body \in Seq(Nat) /\ Len(p.body) \in Nat
    BY BufferIs
  <1>2. z \in AnyRequest /\ z.opcode = p.opcode /\ z.opaque = 0 /\ z.body = p.body
    <2>1. p = RequestWith(p.magic, p.opcode, p.keylen, p.extlen, p.datatype, p.status,
                          p.bodylen, p.opaque, p.body)
      BY <1>1, RequestIs
    <2>2. z = RequestWith(p.magic, p.opcode, p.keylen, p.extlen, p.datatype, p.status,
                          p.bodylen, 0, p.body)
      BY <2>1, SMT DEF RequestWith
    <2>3. /\ p.magic \in Bytes /\ p.opcode \in Bytes /\ p.keylen \in Halves /\ p.extlen \in Bytes
          /\ p.datatype \in Bytes /\ p.status \in Halves /\ p.bodylen \in Nat
          /\ p.body \in Seq(Content)
      BY <1>1, SMT DEF AnyRequest
    <2> HIDE DEF z
    <2>4. z \in AnyRequest
      BY <2>2, <2>3, SMT DEF AnyRequest, RequestWith
    <2> QED BY <2>2, <2>4 DEF RequestWith
  <1>3. n = 9
    BY DEF NotFound
  <1> HIDE DEF z, n
  <1>4. q = ReplyPacket(p.opcode, 0, STATUS_ERR, n, 0, p.body)
    <2>1. q = ReplyPacket(z.opcode, 0, STATUS_ERR, n, z.opaque, z.body)
      BY <1>2, ResponseIs
    <2> HIDE DEF q
    <2> QED BY <1>2, <2>1
  <1>5. q.extlen = 0 /\ q.keylen = 0 /\ q.body = p.body
    <2> HIDE DEF q
    <2> QED BY <1>4 DEF ReplyPacket, RequestWith
  <1>6. ValueAt(q) = 1
    BY <1>5 DEF ValueAt
  <1>7. [q EXCEPT !.body = body] = pkt
    <2> HIDE DEF body, q
    <2> QED BY <1>4, SMT DEF ReplyPacket, RequestWith
  <1>8. r = Send(pkt, HeaderLen + n, {})
    <2> DEFINE out == [q EXCEPT !.body = Copy(@, ValueAt(q), NotFound)]
    <2>1. r = Send(out, HeaderLen + n, {})
      BY Zenon DEF MissReply, z, n
    <2>2. out = [q EXCEPT !.body = Copy(q.body, ValueAt(q), NotFound)]
      OBVIOUS
    <2>3. Copy(q.body, ValueAt(q), NotFound) = body
      BY <1>5, <1>6
    <2> HIDE DEF body, q, pkt, out
    <2> QED BY <1>7, <2>1, <2>2, <2>3
  <1>9. SubSeq(body, 1, 1 + n - 1) = NotFound
    <2>1. NotFound \in Seq(Nat) /\ Len(NotFound) = n
      BY DEF NotFound, n
    <2>2. 1 + Len(NotFound) - 1 <= Len(p.body)
      BY <1>1, <1>3, <2>1 DEF Buffer
    <2>3. p.body \in Seq(Nat) /\ NotFound \in Seq(Nat) /\ 1 \in Nat /\ 1 >= 1
      BY <1>1, <2>1
    <2>4. Written(body, p.body, 1, NotFound)
      BY <2>2, <2>3, CopyIs
    <2> HIDE DEF body
    <2>5. SubSeq(body, 1, 1 + Len(NotFound) - 1) = NotFound
      BY <2>4 DEF Written
    <2> QED BY <2>1, <2>5
  <1> HIDE DEF body
  <1>10. /\ pkt.extlen = 0 /\ pkt.keylen = 0 /\ pkt.bodylen = n /\ pkt.body = body
         /\ pkt.magic = MAGIC_RESPONSE /\ pkt.opcode = p.opcode /\ pkt.status = STATUS_ERR
    BY DEF ReplyPacket, RequestWith
  <1> HIDE DEF pkt
  <1>11. ValueAt(pkt) = 1 /\ ValueLen(pkt) = n
    BY <1>3, <1>10 DEF ValueAt, ValueLen
  <1>12. Value(pkt) = NotFound
    BY <1>9, <1>10, <1>11 DEF Value
  <1>13. r.ret = 1 /\ r.pkt = pkt /\ r.len = HeaderLen + n /\ r.writes = {}
    BY <1>8 DEF Send
  <1> HIDE DEF r
  <1>14. r.len = HeaderLen + r.pkt.bodylen
    BY <1>10, <1>13
  <1> QED BY <1>10, <1>12, <1>13, <1>14 DEF Replies, r

LEMMA SetIs ==
  ASSUME NEW p, Buffer(p), NEW id, NEW dbOk \in BOOLEAN
  PROVE  LET r == OnRecieveSet(p, id, dbOk)
             done == ValueLen(p) > 0 /\ dbOk
         IN  /\ Replies(r, p)
             /\ r.pkt.status = IF done THEN STATUS_OK ELSE STATUS_ERR
             /\ r.writes = IF done THEN {[key |-> id, sent |-> Value(p)]} ELSE {}
  <1> DEFINE done == ValueLen(p) > 0 /\ dbOk
             status == IF done THEN STATUS_OK ELSE STATUS_ERR
             row == [key |-> id, sent |-> Value(p)]
             writes == IF done THEN {row} ELSE {}
             pkt == ReplyPacket(p.opcode, 0, status, 0, p.opaque, p.body)
             r == OnRecieveSet(p, id, dbOk)
  <1>1. p \in AnyRequest
    BY DEF Buffer
  <1>2. r = Send(Response(p, 0, status, 0), HeaderLen, writes)
    BY Zenon DEF OnRecieveSet
  <1>3. Response(p, 0, status, 0) = pkt
    <2> HIDE DEF status
    <2> QED BY <1>1, ResponseIs
  <1> HIDE DEF done, row, status, writes
  <1>4. /\ pkt.bodylen = 0 /\ pkt.magic = MAGIC_RESPONSE /\ pkt.opcode = p.opcode
        /\ pkt.status = status
    BY DEF ReplyPacket, RequestWith
  <1> HIDE DEF pkt
  <1>5. r.ret = 1 /\ r.pkt = pkt /\ r.len = HeaderLen /\ r.writes = writes
    BY <1>2, <1>3 DEF Send
  <1> HIDE DEF r
  <1>6. r.len = HeaderLen + r.pkt.bodylen
    BY <1>4, <1>5 DEF HeaderLen
  <1>7. /\ Replies(r, p) /\ r.pkt.status = status /\ r.writes = writes
    BY <1>4, <1>5, <1>6 DEF Replies
  <1> QED BY <1>7, Zenon DEF r, status, writes, row, done

-----------------------------------------------------------------------------
(* Frames. *)

AddressOf(net, host) == [net |-> net, host |-> host]
IpOf(v, hl, proto, ttl, src, dst) ==
    [v |-> v, hl |-> hl, proto |-> proto, ttl |-> ttl, src |-> src, dst |-> dst]
FrameOf(dhost, shost, tags, type, ip, l4, len) ==
    [link |-> "netmap", dhost |-> dhost, shost |-> shost, tags |-> tags, type |-> type,
     ip |-> ip, l4 |-> l4, len |-> len]

\* f has the fields of a frame.
Shaped(f) ==
    /\ f = FrameOf(f.dhost, f.shost, f.tags, f.type, f.ip, f.l4, f.len)
    /\ f.ip = IpOf(f.ip.v, f.ip.hl, f.ip.proto, f.ip.ttl, f.ip.src, f.ip.dst)
    /\ f.ip.src = AddressOf(f.ip.src.net, f.ip.src.host)
    /\ f.ip.dst = AddressOf(f.ip.dst.net, f.ip.dst.host)

LEMMA FrameIsShaped ==
  ASSUME NEW f, f \in FrameWith({f.l4}) PROVE Shaped(f)
  <1>1. f.ip \in IpHeader
    BY DEF FrameWith
  <1>2. f = FrameOf(f.dhost, f.shost, f.tags, f.type, f.ip, f.l4, f.len)
    BY SMT DEF FrameWith, FrameOf
  <1>3. /\ f.ip = IpOf(f.ip.v, f.ip.hl, f.ip.proto, f.ip.ttl, f.ip.src, f.ip.dst)
        /\ f.ip.src \in Address /\ f.ip.dst \in Address
    BY <1>1, SMT DEF IpHeader, IpOf
  <1>4. /\ f.ip.src = AddressOf(f.ip.src.net, f.ip.src.host)
        /\ f.ip.dst = AddressOf(f.ip.dst.net, f.ip.dst.host)
    BY <1>3, SMT DEF Address, AddressOf
  <1> QED BY <1>2, <1>3, <1>4 DEF Shaped

LEMMA SwapIs ==
  ASSUME NEW d, NEW s, NEW t, NEW y, NEW i, NEW l, NEW n, NEW f,
         f = FrameOf(d, s, t, y, i, l, n)
  PROVE  SwapMac(f) = FrameOf(s, d, t, y, i, l, n)
  <1> DEFINE g == [f EXCEPT !.dhost = f.shost]
             h == [g EXCEPT !.shost = f.dhost]
  <1>1. f.shost = s /\ f.dhost = d
    BY DEF FrameOf
  <1>2. SwapMac(f) = h
    BY DEF SwapMac
  <1> HIDE DEF g, h
  <1>3. g = FrameOf(s, s, t, y, i, l, n)
    BY <1>1, SMT DEF g, FrameOf
  <1>4. h = FrameOf(s, d, t, y, i, l, n)
    BY <1>1, <1>3, SMT DEF h, FrameOf
  <1> QED BY <1>2, <1>4

LEMMA IpIsSet ==
  ASSUME NEW d, NEW s, NEW t, NEW y, NEW i, NEW l, NEW n, NEW x, NEW f,
         f = FrameOf(d, s, t, y, i, l, n)
  PROVE  [f EXCEPT !.ip = x] = FrameOf(d, s, t, y, x, l, n)
  BY SMT DEF FrameOf

LEMMA L4IsSet ==
  ASSUME NEW d, NEW s, NEW t, NEW y, NEW i, NEW l, NEW n, NEW x, NEW f,
         f = FrameOf(d, s, t, y, i, l, n)
  PROVE  [f EXCEPT !.l4 = x] = FrameOf(d, s, t, y, i, x, n)
  BY SMT DEF FrameOf

LEMMA LenIsSet ==
  ASSUME NEW d, NEW s, NEW t, NEW y, NEW i, NEW l, NEW n, NEW x, NEW f,
         f = FrameOf(d, s, t, y, i, l, n)
  PROVE  [f EXCEPT !.len = x] = FrameOf(d, s, t, y, i, l, x)
  BY SMT DEF FrameOf

LEMMA HostIsSet ==
  ASSUME NEW d, NEW s, NEW t, NEW y, NEW i, NEW l, NEW n, NEW x, NEW f,
         f = FrameOf(d, s, t, y, i, l, n)
  PROVE  [f EXCEPT !.shost = x] = FrameOf(d, x, t, y, i, l, n)
  BY SMT DEF FrameOf

LEMMA SrcIsSet ==
  ASSUME NEW v, NEW h, NEW p, NEW t, NEW s, NEW d, NEW x, NEW i, i = IpOf(v, h, p, t, s, d)
  PROVE  [i EXCEPT !.src = x] = IpOf(v, h, p, t, x, d)
  BY SMT DEF IpOf

LEMMA DstIsSet ==
  ASSUME NEW v, NEW h, NEW p, NEW t, NEW s, NEW d, NEW x, NEW i, i = IpOf(v, h, p, t, s, d)
  PROVE  [i EXCEPT !.dst = x] = IpOf(v, h, p, t, s, x)
  BY SMT DEF IpOf

\* g is what f is to Type.
SameType(f, g) ==
    /\ g.link = "netmap" /\ g.tags = f.tags /\ g.type = f.type
    /\ g.ip.proto = f.ip.proto /\ g.ip.ttl = f.ip.ttl

LEMMA TypeKept ==
  ASSUME NEW f, NEW g, SameType(f, g)
  PROVE  Type(g) = Type(f) /\ TypeSeen(g) = TypeSeen(f)
  BY Zenon DEF SameType, Type, TypeSeen

\* A frame to another worker: only addresses change.
LEMMA SpreadIs ==
  ASSUME NEW f, Shaped(f), NEW net
  PROVE  LET g == SetDstNet(SwapMac(f), net)
         IN  /\ Shaped(g) /\ SameType(f, g) /\ g.l4 = f.l4 /\ g.len = f.len
             /\ DstNet(g) = net
  <1> DEFINE i == f.ip
             src == IF i.v = 4 THEN i.src ELSE AddressOf(net, i.src.host)
             dst == IF i.v = 4 THEN AddressOf(net, i.dst.host) ELSE i.dst
             ip == IpOf(i.v, i.hl, i.proto, i.ttl, src, dst)
             w == SwapMac(f)
             g == SetDstNet(w, net)
  <1>1. w = FrameOf(f.shost, f.dhost, f.tags, f.type, i, f.l4, f.len)
    BY SwapIs DEF Shaped
  <1> HIDE DEF w
  <1>2. w.ip = i /\ w.ip.v = i.v
    BY <1>1 DEF FrameOf
  <1>3. i = IpOf(i.v, i.hl, i.proto, i.ttl, i.src, i.dst)
    BY DEF Shaped
  <1>4. /\ [i.src EXCEPT !.net = net] = AddressOf(net, i.src.host)
        /\ [i.dst EXCEPT !.net = net] = AddressOf(net, i.dst.host)
    <2>1. ASSUME NEW n, NEW h, NEW x, x = AddressOf(n, h)
          PROVE  [x EXCEPT !.net = net] = AddressOf(net, h)
      BY <2>1, SMT DEF AddressOf
    <2> QED BY <2>1 DEF Shaped
  <1>5. g = FrameOf(f.shost, f.dhost, f.tags, f.type, ip, f.l4, f.len)
    <2>1. CASE i.v = 4
      <3>1. g = [w EXCEPT !.ip = [w.ip EXCEPT !.dst = [w.ip.dst EXCEPT !.net = net]]]
        BY <1>2, <2>1 DEF SetDstNet
      <3>2. [w.ip EXCEPT !.dst = [w.ip.dst EXCEPT !.net = net]] =
               [i EXCEPT !.dst = AddressOf(net, i.dst.host)]
        BY <1>2, <1>4
      <3>3. [i EXCEPT !.dst = AddressOf(net, i.dst.host)] = ip
        <4>1. [i EXCEPT !.dst = AddressOf(net, i.dst.host)] =
                 IpOf(i.v, i.hl, i.proto, i.ttl, i.src, AddressOf(net, i.dst.host))
          BY <1>3, DstIsSet
        <4> QED BY <2>1, <4>1
      <3> HIDE DEF i, ip, g
      <3>4. g = [w EXCEPT !.ip = ip]
        BY <3>1, <3>2, <3>3
      <3> QED BY <1>1, <3>4, IpIsSet
    <2>2. CASE i.v # 4
      <3>1. g = [w EXCEPT !.ip = [w.ip EXCEPT !.src = [w.ip.src EXCEPT !.net = net]]]
        BY <1>2, <2>2 DEF SetDstNet
      <3>2. [w.ip EXCEPT !.src = [w.ip.src EXCEPT !.net = net]] =
               [i EXCEPT !.src = AddressOf(net, i.src.host)]
        BY <1>2, <1>4
      <3>3. [i EXCEPT !.src = AddressOf(net, i.src.host)] = ip
        <4>1. [i EXCEPT !.src = AddressOf(net, i.src.host)] =
                 IpOf(i.v, i.hl, i.proto, i.ttl, AddressOf(net, i.src.host), i.dst)
          BY <1>3, SrcIsSet
        <4> QED BY <2>2, <4>1
      <3> HIDE DEF i, ip, g
      <3>4. g = [w EXCEPT !.ip = ip]
        BY <3>1, <3>2, <3>3
      <3> QED BY <1>1, <3>4, IpIsSet
    <2> QED BY <2>1, <2>2
  <1> HIDE DEF g
  <1>6. /\ src = AddressOf(src.net, src.host) /\ dst = AddressOf(dst.net, dst.host)
        /\ (IF i.v = 4 THEN dst.net ELSE src.net) = net
    BY DEF Shaped, AddressOf
  <1> HIDE DEF src, dst
  <1>7. /\ g.link = "netmap" /\ g.dhost = f.shost /\ g.shost = f.dhost /\ g.tags = f.tags
        /\ g.type = f.type /\ g.ip = ip /\ g.l4 = f.l4 /\ g.len = f.len
    BY <1>5 DEF FrameOf
  <1>8. /\ ip.v = i.v /\ ip.hl = i.hl /\ ip.proto = i.proto /\ ip.ttl = i.ttl
        /\ ip.src = src /\ ip.dst = dst
    BY DEF IpOf
  <1>9. Shaped(g)
    BY <1>5, <1>6, <1>7, <1>8 DEF Shaped
  <1>10. SameType(f, g)
    BY <1>7, <1>8 DEF SameType
  <1>11. DstNet(g) = net
    BY <1>6, <1>7, <1>8 DEF DstNet
  <1> QED BY <1>7, <1>9, <1>10, <1>11 DEF g, w

\* A reply in the frame of its request.
LEMMA AnsweredIs ==
  ASSUME NEW f, Shaped(f), NEW r
  PROVE  LET g == Answered(f, r).frame
         IN  /\ Shaped(g) /\ SameType(f, g) /\ DstNet(g) = DstNet(f)
             /\ g.l4 = r.pkt /\ g.len = r.len
             /\ Answered(f, r).ret = r.ret /\ Answered(f, r).writes = r.writes
  <1> DEFINE w == SwapMac(f)
             x == [w EXCEPT !.l4 = r.pkt]
             y == [x EXCEPT !.len = r.len]
  <1>1. w = FrameOf(f.shost, f.dhost, f.tags, f.type, f.ip, f.l4, f.len)
    BY SwapIs DEF Shaped
  <1> HIDE DEF w
  <1>2. x = FrameOf(f.shost, f.dhost, f.tags, f.type, f.ip, r.pkt, f.len)
    BY <1>1, L4IsSet
  <1> HIDE DEF x
  <1>3. y = FrameOf(f.shost, f.dhost, f.tags, f.type, f.ip, r.pkt, r.len)
    BY <1>2, LenIsSet
  <1>4. Answered(f, r) = [ret |-> r.ret, frame |-> y, writes |-> r.writes]
    BY DEF Answered, x, w
  <1> HIDE DEF y
  <1>5. /\ y.link = "netmap" /\ y.tags = f.tags /\ y.type = f.type /\ y.ip = f.ip
        /\ y.l4 = r.pkt /\ y.len = r.len /\ y.dhost = f.shost /\ y.shost = f.dhost
    BY <1>3 DEF FrameOf
  <1>6. /\ Answered(f, r).frame = y /\ Answered(f, r).ret = r.ret
        /\ Answered(f, r).writes = r.writes
    BY <1>4
  <1>7. SameType(f, y) /\ DstNet(y) = DstNet(f)
    BY <1>5 DEF SameType, DstNet
  <1>8. Shaped(y)
    BY <1>3, <1>5 DEF Shaped
  <1> QED BY <1>5, <1>6, <1>7, <1>8

LEMMA ArpIs ==
  ASSUME NEW f, Shaped(f)
  PROVE  LET r == OnArp(f)
             g == r.frame
         IN  /\ r.ret = 1 /\ r.writes = {} /\ SameType(f, g)
             /\ g.dhost = f.shost /\ g.shost = OwnMac
             /\ g.l4 = [op |-> 2, sha |-> OwnMac, spa |-> f.l4.tpa,
                        tha |-> f.l4.sha, tpa |-> f.l4.spa]
  <1> DEFINE l4 == [op |-> 2, sha |-> OwnMac, spa |-> f.l4.tpa,
                    tha |-> f.l4.sha, tpa |-> f.l4.spa]
             w == SwapMac(f)
             x == [w EXCEPT !.shost = OwnMac]
             g == [x EXCEPT !.l4 = l4]
  <1>1. OnArp(f) = Reflect(g)
    BY DEF OnArp
  <1> HIDE DEF l4
  <1>2. w = FrameOf(f.shost, f.dhost, f.tags, f.type, f.ip, f.l4, f.len)
    BY SwapIs DEF Shaped
  <1> HIDE DEF w
  <1>3. x = FrameOf(f.shost, OwnMac, f.tags, f.type, f.ip, f.l4, f.len)
    BY <1>2, HostIsSet
  <1> HIDE DEF x
  <1>4. g = FrameOf(f.shost, OwnMac, f.tags, f.type, f.ip, l4, f.len)
    BY <1>3, L4IsSet
  <1> HIDE DEF g
  <1>5. /\ g.link = "netmap" /\ g.dhost = f.shost /\ g.shost = OwnMac /\ g.tags = f.tags
        /\ g.type = f.type /\ g.ip = f.ip /\ g.l4 = l4
    BY <1>4 DEF FrameOf
  <1>6. OnArp(f).frame = g /\ OnArp(f).ret = 1 /\ OnArp(f).writes = {}
    BY <1>1 DEF Reflect
  <1>7. SameType(f, g)
    BY <1>5 DEF SameType
  <1> QED BY <1>5, <1>6, <1>7 DEF l4

\* What OnIcmp makes of a message.
Retype(l4, t) == Summed([l4 EXCEPT !.msg[1] = t])
IcmpAnswer(f, l4) ==
    IF TypeSeen(f) = ETHERTYPE_IP THEN Retype(f.l4, ICMP_ECHOREPLY)
    ELSE CASE l4.msg[1] = ICMP6_ECHO_REQUEST  -> Retype(f.l4, ICMP6_ECHO_REPLY)
           [] l4.msg[1] = ND_NEIGHBOR_SOLICIT -> Advertise(l4)
           [] OTHER -> l4

LEMMA IcmpIs ==
  ASSUME NEW f, Shaped(f)
  PROVE  LET r == OnIcmp(f)
             g == r.frame
         IN  /\ r.ret = 1 /\ r.writes = {} /\ SameType(f, g)
             /\ g.dhost = f.shost /\ g.ip.src = f.ip.dst /\ g.ip.dst = f.ip.src
             /\ g.l4 = IcmpAnswer(f, f.l4)
  <1> DEFINE i == f.ip
             w == SwapMac(f)
             x == [w EXCEPT !.ip.src = i.dst]
             y == [x EXCEPT !.ip.dst = i.src]
             g == [y EXCEPT !.l4 = IcmpAnswer(f, @)]
  <1>1. OnIcmp(f) = Reflect(g)
    BY DEF OnIcmp, IcmpAnswer, Retype
  <1>2. w = FrameOf(f.shost, f.dhost, f.tags, f.type, i, f.l4, f.len)
    BY SwapIs DEF Shaped
  <1> DEFINE ip1 == IpOf(i.v, i.hl, i.proto, i.ttl, i.dst, i.dst)
             ip2 == IpOf(i.v, i.hl, i.proto, i.ttl, i.dst, i.src)
  <1>3. [i EXCEPT !.src = i.dst] = ip1
    <2>1. i = IpOf(i.v, i.hl, i.proto, i.ttl, i.src, i.dst)
      BY DEF Shaped
    <2> HIDE DEF i
    <2> QED BY <2>1, SrcIsSet
  <1>4. [ip1 EXCEPT !.dst = i.src] = ip2
    <2>1. ip1 = IpOf(i.v, i.hl, i.proto, i.ttl, i.dst, i.dst)
      OBVIOUS
    <2> HIDE DEF i, ip1
    <2> QED BY <2>1, DstIsSet
  <1> HIDE DEF w
  <1>5. x = FrameOf(f.shost, f.dhost, f.tags, f.type, ip1, f.l4, f.len)
    <2>1. w.ip = i
      BY <1>2 DEF FrameOf
    <2>2. x = [w EXCEPT !.ip = [w.ip EXCEPT !.src = i.dst]]
      OBVIOUS
    <2>3. x = [w EXCEPT !.ip = ip1]
      BY <1>3, <2>1, <2>2
    <2> HIDE DEF x, ip1, i
    <2> QED BY <1>2, <2>3, IpIsSet
  <1> HIDE DEF x
  <1>6. y = FrameOf(f.shost, f.dhost, f.tags, f.type, ip2, f.l4, f.len)
    <2>1. x.ip = ip1
      BY <1>5 DEF FrameOf
    <2>2. y = [x EXCEPT !.ip = [x.ip EXCEPT !.dst = i.src]]
      OBVIOUS
    <2>3. y = [x EXCEPT !.ip = ip2]
      BY <1>4, <2>1, <2>2
    <2> HIDE DEF y, ip1, ip2, i
    <2> QED BY <1>5, <2>3, IpIsSet
  <1> HIDE DEF y
  <1>7. g = FrameOf(f.shost, f.dhost, f.tags, f.type, ip2, IcmpAnswer(f, f.l4), f.len)
    <2>1. y.l4 = f.l4
      BY <1>6 DEF FrameOf
    <2>2. g = [y EXCEPT !.l4 = IcmpAnswer(f, y.l4)]
      OBVIOUS
    <2>3. g = [y EXCEPT !.l4 = IcmpAnswer(f, f.l4)]
      BY <2>1, <2>2
    <2> HIDE DEF g, ip2, i
    <2> QED BY <1>6, <2>3, L4IsSet
  <1> HIDE DEF g
  <1>8. /\ g.link = "netmap" /\ g.dhost = f.shost /\ g.tags = f.tags
        /\ g.type = f.type /\ g.ip = ip2 /\ g.l4 = IcmpAnswer(f, f.l4)
    BY <1>7 DEF FrameOf
  <1>9. /\ ip2.proto = i.proto /\ ip2.ttl = i.ttl /\ ip2.src = i.dst /\ ip2.dst = i.src
    BY DEF IpOf
  <1>10. OnIcmp(f).frame = g /\ OnIcmp(f).ret = 1 /\ OnIcmp(f).writes = {}
    BY <1>1 DEF Reflect
  <1> HIDE DEF ip2
  <1>11. SameType(f, g)
    BY <1>8, <1>9 DEF SameType
  <1> QED BY <1>8, <1>9, <1>10, <1>11

-----------------------------------------------------------------------------
(* What OnRecieve does with a packet, by the table of the server. *)

HeldGood ==
    /\ \A g, h \in held : g = h
    /\ \A h \in held : /\ h.item.data \in Seq(Nat)
                       /\ h.item.len \in Nat /\ h.item.len < DatalenMod

Refused(r) == r.ret = 0 /\ r.writes = {}

GetDone(r, p) ==
    /\ Replies(r, p) /\ r.writes = {} /\ p.opcode = OPCODE_GET
    /\ \/ \E h \in held : /\ h.key = KeyId(p) /\ h.item.len > 0
                          /\ r.pkt.status = STATUS_OK /\ r.pkt.opaque = p.opaque
                          /\ Value(r.pkt) = ReplyData(h.item)
       \/ /\ \A h \in held : h.key = KeyId(p) => h.item.len = 0
          /\ r.pkt.status = STATUS_ERR /\ Value(r.pkt) = NotFound

SetDone(r, p) ==
    /\ Replies(r, p) /\ p.opcode = OPCODE_SET /\ p.keylen = KeyLen
    /\ \/ /\ ValueLen(p) > 0 /\ r.pkt.status = STATUS_OK
          /\ r.writes = {[key |-> KeyId(p), sent |-> Value(p)]}
       \/ r.pkt.status = STATUS_ERR /\ r.writes = {}

LEMMA GetIs ==
  ASSUME DatalenMod \in Nat, HeldGood, NEW p, Buffer(p), p.opcode = OPCODE_GET
  PROVE  GetDone(OnRecieveGet(p, {h.item : h \in {x \in held : x.key = KeyId(p)}}), p)
  <1> DEFINE found == {h.item : h \in {x \in held : x.key = KeyId(p)}}
             r == OnRecieveGet(p, found)
  <1>1. CASE \E item \in found : item.len # 0
    <2>1. PICK h \in held : h.key = KeyId(p) /\ h.item.len # 0
      BY <1>1
    <2>2. \A item \in found : item = h.item
      BY <2>1 DEF HeldGood
    <2>3. h.item \in found
      BY <2>1
    <2> HIDE DEF found
    <2>4. (CHOOSE item \in found : TRUE) = h.item
      BY <2>2, <2>3
    <2>5. r = HitReply(p, h.item)
      BY <1>1, <2>4 DEF OnRecieveGet
    <2>6. h.item.data \in Seq(Nat) /\ h.item.len \in Nat /\ h.item.len < DatalenMod
      BY DEF HeldGood
    <2>7. /\ Replies(r, p) /\ r.writes = {}
          /\ r.pkt.status = STATUS_OK /\ r.pkt.opaque = p.opaque
          /\ Value(r.pkt) = ReplyData(h.item)
      BY <2>5, <2>6, HitIs
    <2>8. h.item.len > 0
      BY <2>1, <2>6
    <2> HIDE DEF r
    <2>9. GetDone(r, p)
      BY <2>1, <2>7, <2>8 DEF GetDone
    <2> QED BY <2>9 DEF r, found
  <1>2. CASE ~(\E item \in found : item.len # 0)
    <2>1. \A h \in held : h.key = KeyId(p) => h.item.len = 0
      BY <1>2
    <2> HIDE DEF found
    <2>2. r = MissReply(p)
      BY <1>2 DEF OnRecieveGet
    <2>3. /\ Replies(r, p) /\ r.writes = {}
          /\ r.pkt.status = STATUS_ERR /\ Value(r.pkt) = NotFound
      BY <2>2, MissIs
    <2> HIDE DEF r
    <2>4. GetDone(r, p)
      BY <2>1, <2>3 DEF GetDone
    <2> QED BY <2>4 DEF r, found
  <1> QED BY <1>1, <1>2

LEMMA Received ==
  ASSUME DatalenMod \in Nat, HeldGood, NEW p, Buffer(p), NEW ln, NEW dbOk \in BOOLEAN
  PROVE  LET r == OnRecieve(p, ln, held, dbOk)
         IN  \/ Refused(r)
             \/ /\ p.magic = MAGIC_REQUEST /\ p.bodylen + HeaderLen = ln
                /\ GetDone(r, p) \/ SetDone(r, p)
  <1> DEFINE r == OnRecieve(p, ln, held, dbOk)
             id == KeyId(p)
             found == {h.item : h \in {x \in held : x.key = id}}
  <1>1. CASE ~validate_header(p, ln) \/ p.keylen # KeyLen
    <2>1. r = Ignored(p, ln)
      BY <1>1 DEF OnRecieve
    <2> HIDE DEF r
    <2>2. Refused(r)
      BY <2>1 DEF Refused, Ignored
    <2> QED BY <2>2 DEF r
  <1>2. CASE ~(~validate_header(p, ln) \/ p.keylen # KeyLen)
    <2>1. /\ p.magic = MAGIC_REQUEST /\ p.bodylen + HeaderLen = ln /\ p.keylen = KeyLen
          /\ p.opcode = OPCODE_GET \/ p.opcode = OPCODE_SET
      BY <1>2 DEF validate_header
    <2>2. CASE p.opcode = OPCODE_GET
      <3>1. r = OnRecieveGet(p, found)
        BY <1>2, <2>2 DEF OnRecieve
      <3>2. GetDone(OnRecieveGet(p, found), p)
        BY <2>2, GetIs
      <3> HIDE DEF r, found
      <3>3. GetDone(r, p)
        BY <3>1, <3>2
      <3> QED BY <2>1, <3>3 DEF r
    <2>3. CASE p.opcode # OPCODE_GET
      <3>1. r = OnRecieveSet(p, id, dbOk)
        BY <1>2, <2>3 DEF OnRecieve
      <3> HIDE DEF id
      <3>2. /\ Replies(r, p)
            /\ r.pkt.status = IF ValueLen(p) > 0 /\ dbOk THEN STATUS_OK ELSE STATUS_ERR
            /\ r.writes = IF ValueLen(p) > 0 /\ dbOk THEN {[key |-> id, sent |-> Value(p)]} ELSE {}
        BY <3>1, SetIs
      <3> HIDE DEF r
      <3>3. SetDone(r, p)
        BY <2>1, <2>3, <3>2, Zenon DEF SetDone, id
      <3> QED BY <2>1, <3>3 DEF r
    <2> QED BY <2>2, <2>3
  <1> QED BY <1>1, <1>2

-----------------------------------------------------------------------------
(* Packets. *)

LEMMA InMemoryIs ==
  ASSUME NEW p \in AnyRequest, NEW ln, NEW own, InMemory(p, ln, own)
  PROVE  /\ Buffer(p) /\ Len(p.body) >= p.keylen /\ Len(p.body) >= ln - HeaderLen
         /\ \A i \in DOMAIN p.body : p.body[i] = Stale <=> i > own
  <1> DEFINE room == Len(p.body)
  <1>1. \A n \in {p.keylen, ln - HeaderLen, DatalenMod + 4, Len(NotFound)} : room >= n
    BY DEF InMemory
  <1> HIDE DEF room
  <1>2. /\ room >= p.keylen /\ room >= ln - HeaderLen /\ room >= DatalenMod + 4
        /\ room >= Len(NotFound)
    BY <1>1, Zenon
  <1>3. Buffer(p)
    BY <1>2 DEF Buffer, room
  <1> QED BY <1>2, <1>3 DEF room, InMemory

LEMMA DatagramIs ==
  ASSUME NEW a, IsDatagram(a)
  PROVE  /\ a = [link |-> "socket", l4 |-> a.l4, len |-> a.len] /\ a.link = "socket"
         /\ a.l4 \in AnyRequest /\ a.len \in Nat /\ Buffer(a.l4)
         /\ Len(a.l4.body) >= a.len - HeaderLen
         /\ \A i \in DOMAIN a.l4.body : a.l4.body[i] = Stale <=> i > a.len - HeaderLen
  <1>1. /\ a \in [link: {"socket"}, l4: AnyRequest, len: Nat]
        /\ InMemory(a.l4, a.len, a.len - HeaderLen)
    BY DEF IsDatagram
  <1>2. /\ a = [link |-> "socket", l4 |-> a.l4, len |-> a.len] /\ a.link = "socket"
        /\ a.l4 \in AnyRequest /\ a.len \in Nat
    BY <1>1
  <1> QED BY <1>1, <1>2, InMemoryIs

LEMMA FrameIs ==
  ASSUME NEW a, IsFrame(a)
  PROVE  /\ Shaped(a) /\ a.link = "netmap" /\ a.len \in Nat
         /\ PayloadAt(a) \in Nat /\ PayloadAt(a) > 0
         /\ Type(a) = "UDP" =>
               /\ a.l4 \in AnyRequest /\ Buffer(a.l4)
               /\ Len(a.l4.body) >= a.l4.keylen /\ Len(a.l4.body) >= a.len - HeaderLen
               /\ \A i \in DOMAIN a.l4.body :
                     a.l4.body[i] = Stale <=> i > a.len - PayloadAt(a) - HeaderLen
         /\ Type(a) = "ICMP" => a.l4 \in IcmpMessage
  <1>1. a \in FrameWith({a.l4})
    BY DEF IsFrame
  <1>2. Shaped(a)
    BY <1>1, FrameIsShaped
  <1>3. a.link = "netmap" /\ a.len \in Nat /\ a.tags \in Seq(Nat) /\ a.ip \in IpHeader
    BY <1>1, SMT DEF FrameWith
  <1>4. PayloadAt(a) \in Nat /\ PayloadAt(a) > 0
    <2>1. Len(a.tags) \in Nat
      BY <1>3
    <2>2. a.ip.hl \in 0..15
      BY <1>3, SMT DEF IpHeader
    <2>3. a.ip.hl \in Nat
      BY <2>2
    <2> DEFINE ip == IF a.ip.v = 4 THEN 4 * a.ip.hl ELSE 40
               tags == Len(a.tags)
    <2>4. ip \in Nat
      BY <2>3
    <2>5. PayloadAt(a) = 14 + 4 * tags + ip + 8
      BY DEF PayloadAt
    <2> HIDE DEF ip, tags
    <2>6. tags \in Nat
      BY <2>1 DEF tags
    <2> QED BY <2>4, <2>5, <2>6
  <1>5. Type(a) = "UDP" =>
           a.l4 \in AnyRequest /\ InMemory(a.l4, a.len, a.len - PayloadAt(a) - HeaderLen)
    BY Zenon DEF IsFrame
  <1>6. Type(a) = "ICMP" => a.l4 \in IcmpMessage
    BY Zenon DEF IsFrame
  <1> QED BY <1>2, <1>3, <1>4, <1>5, <1>6, InMemoryIs

-----------------------------------------------------------------------------
(* Steps. *)

\* What becomes of a frame.
LEMMA FrameHandled ==
  ASSUME NEW f, Shaped(f), NEW dbOk
  PROVE  LET r == Handle(f, dbOk)
         IN  \/ /\ Type(f) = "UDP" /\ f.l4.bodylen + HeaderLen = f.len
                /\ DstNet(f) = EXTERNAL_IP_OCT3
                /\ r.ret = 1 /\ r.writes = {}
                /\ r.frame = SetDstNet(SwapMac(f), Route(f.l4))
             \/ /\ Type(f) = "UDP" /\ DstNet(f) = INTERNAL_IP_OCT3
                /\ r = Answered(f, OnRecieve(f.l4, f.len, held, dbOk))
             \/ Type(f) = "ARP" /\ r = OnArp(f)
             \/ Type(f) = "ICMP" /\ r = OnIcmp(f)
             \/ Type(f) \notin {"ARP", "ICMP"} /\ Refused(r)
  <1> DEFINE r == Handle(f, dbOk)
  <1>1. r = Process(f, held, dbOk)
    <2>1. f.link = "netmap"
      BY DEF Shaped, FrameOf
    <2>2. f.link # "socket"
      BY <2>1
    <2> QED BY <2>2 DEF Handle
  <1> HIDE DEF r
  <1>2. CASE Type(f) = "UDP"
    <2>1. r = OnUdp(f, held, dbOk)
      BY <1>1, <1>2 DEF Process
    <2>2. CASE DstNet(f) = EXTERNAL_IP_OCT3 /\ f.len > HeaderLen /\ f.l4.bodylen + HeaderLen = f.len
      <3>1. r = Reflect(SetDstNet(SwapMac(f), Route(f.l4)))
        BY <2>1, <2>2 DEF OnUdp, Length, EXTERNAL_IP_OCT3, INTERNAL_IP_OCT3
      <3>2. r.ret = 1 /\ r.writes = {} /\ r.frame = SetDstNet(SwapMac(f), Route(f.l4))
        BY <3>1 DEF Reflect
      <3> QED BY <1>2, <2>2, <3>2 DEF r
    <2>3. CASE ~( /\ DstNet(f) = EXTERNAL_IP_OCT3 /\ f.len > HeaderLen
                  /\ f.l4.bodylen + HeaderLen = f.len )
      <3>1. CASE DstNet(f) = INTERNAL_IP_OCT3
        <4>1. r = Answered(f, OnRecieve(f.l4, f.len, held, dbOk))
          BY <2>1, <2>3, <3>1 DEF OnUdp, Length
        <4> QED BY <1>2, <3>1, <4>1 DEF r
      <3>2. CASE DstNet(f) # INTERNAL_IP_OCT3
        <4>1. r = Dropped(f)
          BY <2>1, <2>3, <3>2 DEF OnUdp, Length
        <4>2. Refused(r)
          BY <4>1 DEF Dropped, Refused
        <4> QED BY <1>2, <4>2 DEF r
      <3> QED BY <3>1, <3>2
    <2> QED BY <2>2, <2>3
  <1>3. CASE Type(f) = "ARP"
    <2>1. r = OnArp(f)
      BY <1>1, <1>3 DEF Process
    <2> QED BY <1>3, <2>1 DEF r
  <1>4. CASE Type(f) = "ICMP"
    <2>1. r = OnIcmp(f)
      BY <1>1, <1>4 DEF Process
    <2> QED BY <1>4, <2>1 DEF r
  <1>5. CASE Type(f) \notin {"UDP", "ARP", "ICMP"}
    <2>1. r = Dropped(f)
      BY <1>1, <1>5 DEF Process
    <2>2. Refused(r)
      BY <2>1 DEF Dropped, Refused
    <2> QED BY <1>5, <2>2 DEF r
  <1> QED BY <1>2, <1>3, <1>4, <1>5

\* What becomes of a datagram.
LEMMA DatagramHandled ==
  ASSUME NEW a, IsDatagram(a), NEW dbOk
  PROVE  LET r == Handle(a, dbOk)
             o == OnRecieve(a.l4, a.len, held, dbOk)
         IN  /\ r.ret = o.ret /\ r.writes = o.writes
             /\ r.frame.link = "socket" /\ r.frame.l4 = o.pkt /\ r.frame.len = o.len
  <1> DEFINE r == Handle(a, dbOk)
             o == OnRecieve(a.l4, a.len, held, dbOk)
             x == [a EXCEPT !.l4 = o.pkt]
             y == [x EXCEPT !.len = o.len]
  <1>1. a = [link |-> "socket", l4 |-> a.l4, len |-> a.len] /\ a.link = "socket"
    BY DatagramIs
  <1>2. r = OnRecv(a, dbOk)
    BY <1>1 DEF Handle
  <1>3. r = [ret |-> o.ret, frame |-> y, writes |-> o.writes]
    BY <1>2 DEF OnRecv
  <1> HIDE DEF r, o
  <1> HIDE DEF x, y
  <1>4. x = [link |-> "socket", l4 |-> o.pkt, len |-> a.len]
    BY <1>1, SMT DEF x
  <1>5. y = [link |-> "socket", l4 |-> o.pkt, len |-> o.len]
    BY <1>4, SMT DEF y
  <1>6. y.link = "socket" /\ y.l4 = o.pkt /\ y.len = o.len
    BY <1>5
  <1> QED BY <1>3, <1>6 DEF r, o

LEMMA TypedTable == ASSUME TypeOK PROVE HeldGood
  <1>1. \A h \in held : h.item \in Item
    BY DEF TypeOK
  <1>2. DatalenMod \in Nat
    BY LengthAssumption DEF LengthAssumption
  <1>3. \A h \in held : h.item.data \in Seq(Nat) /\ h.item.len \in Nat /\ h.item.len < DatalenMod
    BY <1>1, <1>2 DEF Item
  <1>4. \A g, h \in held : g = h
    BY DEF TypeOK
  <1> QED BY <1>3, <1>4 DEF HeldGood

\* The key and the value of a SET, where they are in its body.
ValueAsIn(p) ==
    /\ KeyId(p) \in Nat
    /\ Value(p) \in Seq(Content) /\ Len(Value(p)) = ValueLen(p) /\ Value(p) # <<>>
    /\ \A i \in 1..ValueLen(p) : Value(p)[i] = p.body[p.extlen + 4 + i]

LEMMA ValueIs ==
  ASSUME NEW p \in AnyRequest, p.keylen = KeyLen, p.bodylen <= Len(p.body), ValueLen(p) > 0
  PROVE  ValueAsIn(p)
  <1> DEFINE b == p.body
             n == ValueLen(p)
             from == p.extlen + 5
             to == p.bodylen
  <1>1. /\ p.extlen \in Nat /\ p.bodylen \in Nat /\ b \in Seq(Content) /\ Len(b) \in Nat
        /\ to <= Len(b)
    BY RequestIs
  <1>2. n \in Nat /\ n > 0 /\ n = p.bodylen - p.extlen - 4
    BY <1>1 DEF ValueLen, KeyLen
  <1>3. ValueAt(p) = from /\ ValueAt(p) + ValueLen(p) - 1 = to /\ KeyAt(p) = p.extlen + 1
    <2>1. p.extlen \in Nat /\ p.bodylen \in Nat
      BY <1>1
    <2> QED BY <1>2, <2>1 DEF ValueAt, KeyLen, KeyAt
  <1>4. \A i \in 1..Len(b) : b[i] \in Content
    BY <1>1
  <1> HIDE DEF b, n
  <1>5. KeyId(p) \in Nat
    <2>1. Content \subseteq Nat
      <3>1. Bytes \subseteq Nat
        BY BytesAreSmall
      <3> QED BY <3>1 DEF Content, Stale
    <2>2. /\ (p.extlen + 1) + 1 \in 1..Len(b) /\ (p.extlen + 1) + 2 \in 1..Len(b)
          /\ (p.extlen + 1) + 3 \in 1..Len(b)
      <3> DEFINE e == p.extlen
                 k == Len(b)
      <3>1. e \in Nat /\ k \in Nat /\ e + 4 < k
        <4>1. e \in Nat /\ k \in Nat /\ to \in Nat /\ to <= k
          BY <1>1
        <4>2. to - e - 4 > 0
          BY <1>2
        <4> HIDE DEF e, k, to
        <4> QED BY <4>1, <4>2
      <3> HIDE DEF e, k
      <3>2. (e + 1) + 1 \in 1..k /\ (e + 1) + 2 \in 1..k /\ (e + 1) + 3 \in 1..k
        BY <3>1
      <3> QED BY <3>2 DEF e, k
    <2>3. /\ b[(p.extlen + 1) + 1] \in Nat /\ b[(p.extlen + 1) + 2] \in Nat
          /\ b[(p.extlen + 1) + 3] \in Nat
      BY <1>4, <2>1, <2>2
    <2>4. PICK x \in Nat, y \in Nat, z \in Nat :
             /\ x = b[(p.extlen + 1) + 1] /\ y = b[(p.extlen + 1) + 2]
             /\ z = b[(p.extlen + 1) + 3]
      BY <2>3
    <2> DEFINE w == x % 16
    <2>5. KeyId(p) = w * 65536 + y * 256 + z
      BY <1>3, <2>4, SMT DEF KeyId, b
    <2>6. w \in Nat
      BY <2>4
    <2> HIDE DEF w
    <2> QED BY <2>5, <2>6, SMT
  <1> DEFINE s == SubSeq(b, from, to)
  <1>6. s \in Seq(Content) /\ Len(s) = n /\ \A i \in 1..n : s[i] = b[from + i - 1]
    <2>1. from \in Int /\ to \in Int
      BY <1>1
    <2>2. \A i \in from..to : b[i] \in Content
      BY <1>1, <1>4
    <2>3. from <= to /\ to - from + 1 = n
      BY <1>1, <1>2
    <2> HIDE DEF from, to
    <2>4. /\ SubSeq(b, from, to) \in Seq(Content)
          /\ Len(SubSeq(b, from, to)) = IF from <= to THEN to - from + 1 ELSE 0
          /\ \A i \in 1..(to - from + 1) : SubSeq(b, from, to)[i] = b[from + i - 1]
      BY <2>1, <2>2, SubSeqProperties
    <2> QED BY <2>3, <2>4
  <1>7. Value(p) = s
    BY <1>3 DEF Value, b
  <1> HIDE DEF s
  <1>8. s # <<>>
    BY <1>2, <1>6
  <1>9. \A i \in 1..n : s[i] = b[p.extlen + 4 + i]
    <2>1. \A i \in 1..n : from + i - 1 = p.extlen + 4 + i
      BY <1>1, <1>2
    <2> QED BY <1>6, <2>1
  <1> QED BY <1>5, <1>6, <1>7, <1>8, <1>9 DEF ValueAsIn, b, n

\* The rows that a request has written.
RowOf(p, ln, row) ==
    /\ row = [key |-> KeyId(p), sent |-> Value(p)] /\ ValueAsIn(p)
    /\ p.opcode = OPCODE_SET /\ p.keylen = KeyLen /\ p.bodylen + HeaderLen = ln
    /\ ValueLen(p) > 0

LEMMA WritesAre ==
  ASSUME HeldGood, NEW p \in AnyRequest, Buffer(p), NEW ln \in Nat,
         Len(p.body) >= ln - HeaderLen, NEW dbOk \in BOOLEAN,
         NEW row \in OnRecieve(p, ln, held, dbOk).writes
  PROVE  RowOf(p, ln, row)
  <1> DEFINE r == OnRecieve(p, ln, held, dbOk)
  <1>1. DatalenMod \in Nat
    BY LengthAssumption DEF LengthAssumption
  <1>2. \/ Refused(r)
        \/ /\ p.magic = MAGIC_REQUEST /\ p.bodylen + HeaderLen = ln
           /\ GetDone(r, p) \/ SetDone(r, p)
    BY <1>1, Received
  <1> HIDE DEF r
  <1>3. row \in r.writes
    BY DEF r
  <1>4. p.bodylen + HeaderLen = ln /\ SetDone(r, p)
    BY <1>2, <1>3 DEF Refused, GetDone
  <1>5. /\ p.opcode = OPCODE_SET /\ p.keylen = KeyLen /\ ValueLen(p) > 0
        /\ row = [key |-> KeyId(p), sent |-> Value(p)]
    BY <1>3, <1>4 DEF SetDone
  <1>6. p.bodylen <= Len(p.body)
    <2>1. p.bodylen \in Nat
      BY RequestIs
    <2>2. Len(p.body) \in Nat
      BY BufferIs
    <2> QED BY <1>4, <2>1, <2>2 DEF HeaderLen
  <1>7. ValueAsIn(p)
    BY <1>5, <1>6, ValueIs
  <1> QED BY <1>4, <1>5, <1>7 DEF RowOf

LEMMA ResponsesRefused ==
  ASSUME NEW p, p.magic = MAGIC_RESPONSE, NEW ln, NEW dbOk
  PROVE  Refused(OnRecieve(p, ln, held, dbOk))
  <1>1. ~validate_header(p, ln)
    BY DEF validate_header, MAGIC_REQUEST, MAGIC_RESPONSE
  <1>2. OnRecieve(p, ln, held, dbOk) = Ignored(p, ln)
    BY <1>1 DEF OnRecieve
  <1> QED BY <1>2 DEF Ignored, Refused

-----------------------------------------------------------------------------
(* The inductive invariant. A packet is under way for at most three workers: the first  *)
(* may spread it, the second may answer it, and a third drops the answer.               *)

Came(r) == flight = (IF r.ret = 1 THEN {r.frame} ELSE {}) /\ rows = r.writes

\* An answer in a frame of the internal network, which no worker takes for a request.
Answer(f) ==
    /\ Shaped(f) /\ Type(f) = "UDP"
    /\ DstNet(f) = INTERNAL_IP_OCT3
    /\ f.l4.magic = MAGIC_RESPONSE

FlightOK ==
    /\ hops = 0 => flight = asked
    /\ asked # {} /\ hops = 0 => rows = {}
    /\ hops = 1 => \E a \in asked : \E dbOk \in BOOLEAN : Came(Handle(a, dbOk))
    /\ hops = 2 => \A f \in flight, a \in asked :
                      Answer(f) /\ a.link = "netmap" /\ a.l4.bodylen + HeaderLen = a.len
    /\ hops > 2 => flight = {}

RowsOK ==
    \A row \in rows :
       /\ row.sent # <<>>
       /\ \A a \in asked :
             (a.link = "netmap" => Type(a) = "UDP") /\ RowOf(a.l4, a.len, row)

HeldOK ==
    \A h \in held : h.item = IF h.sent = <<>> THEN ZeroBody ELSE RowBody(Stored(h.sent))

Inv == TypeOK /\ FlightOK /\ RowsOK /\ HeldOK

LEMMA RowsTyped ==
  ASSUME NEW p, NEW ln, NEW row, RowOf(p, ln, row)
  PROVE  row \in [key: Nat, sent: Seq(Content)] /\ row.sent # <<>>
  <1>1. row = [key |-> KeyId(p), sent |-> Value(p)]
    BY DEF RowOf
  <1>2. KeyId(p) \in Nat /\ Value(p) \in Seq(Content) /\ Value(p) # <<>>
    BY DEF RowOf, ValueAsIn
  <1> QED BY <1>1, <1>2

\* The rows of the first worker.
LEMMA FirstWrites ==
  ASSUME HeldGood, NEW a, IsPacket(a), NEW dbOk \in BOOLEAN,
         NEW row \in Handle(a, dbOk).writes
  PROVE  (a.link = "netmap" => Type(a) = "UDP") /\ RowOf(a.l4, a.len, row)
  <1> DEFINE r == Handle(a, dbOk)
             o == OnRecieve(a.l4, a.len, held, dbOk)
  <1>1. row \in r.writes
    OBVIOUS
  <1>2. CASE IsDatagram(a)
    <2>1. r.writes = o.writes
      BY <1>2, DatagramHandled
    <2>2. /\ a.link = "socket" /\ a.l4 \in AnyRequest /\ Buffer(a.l4) /\ a.len \in Nat
          /\ Len(a.l4.body) >= a.len - HeaderLen
      BY <1>2, DatagramIs
    <2> HIDE DEF r
    <2>3. row \in o.writes
      BY <1>1, <2>1
    <2>4. RowOf(a.l4, a.len, row)
      BY <2>2, <2>3, WritesAre
    <2> QED BY <2>2, <2>4
  <1>3. CASE IsFrame(a)
    <2>1. Shaped(a) /\ a.link = "netmap" /\ a.len \in Nat
      BY <1>3, FrameIs
    <2>2. Type(a) = "UDP" =>
             /\ a.l4 \in AnyRequest /\ Buffer(a.l4) /\ Len(a.l4.body) >= a.len - HeaderLen
      BY <1>3, FrameIs
    <2>3. \/ r.writes = {}
          \/ Type(a) = "UDP" /\ r = Answered(a, o)
          \/ r = OnArp(a)
          \/ r = OnIcmp(a)
          \/ Refused(r)
      BY <2>1, FrameHandled
    <2> HIDE DEF r
    <2>4. Type(a) = "UDP" /\ row \in o.writes
      <3>1. OnArp(a).writes = {}
        BY <2>1, ArpIs
      <3>2. OnIcmp(a).writes = {}
        BY <2>1, IcmpIs
      <3>3. Answered(a, o).writes = o.writes
        BY <2>1, AnsweredIs
      <3> QED BY <1>1, <2>3, <3>1, <3>2, <3>3 DEF Refused
    <2>5. RowOf(a.l4, a.len, row)
      BY <2>1, <2>2, <2>4, WritesAre
    <2> QED BY <2>4, <2>5
  <1> QED BY <1>2, <1>3 DEF IsPacket

\* What the first worker may hand on to a second: the packet itself under another
\* address, or an answer.
HandsOn(a, f) ==
    /\ Shaped(f) /\ Type(a) = "UDP" /\ a.link = "netmap"
    /\ a.l4.bodylen + HeaderLen = a.len
    /\ \/ DstNet(f) # EXTERNAL_IP_OCT3 /\ f.l4 = a.l4 /\ f.len = a.len
       \/ Answer(f)

LEMMA FirstHop ==
  ASSUME HeldGood, NEW a, IsPacket(a), NEW dbOk \in BOOLEAN,
         Handle(a, dbOk).ret = 1, Handle(a, dbOk).frame.link # "socket",
         Type(Handle(a, dbOk).frame) = "UDP"
  PROVE  /\ HandsOn(a, Handle(a, dbOk).frame)
         /\ ~Answer(Handle(a, dbOk).frame) => Handle(a, dbOk).writes = {}
  <1> DEFINE r == Handle(a, dbOk)
             f == r.frame
             o == OnRecieve(a.l4, a.len, held, dbOk)
  <1>1. r.ret = 1 /\ f.link # "socket" /\ Type(f) = "UDP"
    OBVIOUS
  <1>2. ~IsDatagram(a)
    <2>1. ASSUME IsDatagram(a) PROVE f.link = "socket"
      BY <2>1, DatagramHandled
    <2> QED BY <1>1, <2>1
  <1>3. IsFrame(a)
    BY <1>2 DEF IsPacket
  <1>4. /\ Shaped(a) /\ a.link = "netmap"
        /\ Type(a) = "UDP" => /\ a.l4 \in AnyRequest /\ Buffer(a.l4)
                              /\ Len(a.l4.body) >= a.l4.keylen
    BY <1>3, FrameIs
  <1>5. \/ /\ Type(a) = "UDP" /\ a.l4.bodylen + HeaderLen = a.len
           /\ r.writes = {} /\ f = SetDstNet(SwapMac(a), Route(a.l4))
        \/ /\ Type(a) = "UDP" /\ DstNet(a) = INTERNAL_IP_OCT3 /\ r = Answered(a, o)
        \/ Type(a) = "ARP" /\ r = OnArp(a)
        \/ Type(a) = "ICMP" /\ r = OnIcmp(a)
        \/ Refused(r)
    BY <1>4, FrameHandled
  <1> HIDE DEF r, f, o
  <1>6. CASE /\ Type(a) = "UDP" /\ a.l4.bodylen + HeaderLen = a.len
             /\ r.writes = {} /\ f = SetDstNet(SwapMac(a), Route(a.l4))
    <2>1. Shaped(f) /\ f.l4 = a.l4 /\ f.len = a.len /\ DstNet(f) = Route(a.l4)
      BY <1>4, <1>6, SpreadIs
    <2>2. Route(a.l4) \in Nat /\ Route(a.l4) >= INTERNAL_IP_OCT3
      <3>1. a.l4.body \in Seq(Int)
        <4>1. a.l4.body \in Seq(Nat)
          BY <1>4, <1>6, BufferIs
        <4>2. ASSUME NEW S, NEW T, S \subseteq T, NEW t \in Seq(S) PROVE t \in Seq(T)
          BY <4>2
        <4>3. Nat \subseteq Int
          OBVIOUS
        <4> QED BY <4>1, <4>2, <4>3
      <3>2. a.l4.keylen \in Nat /\ Len(a.l4.body) >= a.l4.keylen
        BY <1>4, <1>6, RequestIs
      <3>3. Len(a.l4.body) \in Nat
        BY <1>4, <1>6, BufferIs
      <3>4. a.l4.keylen <= Len(a.l4.body)
        BY <3>2, <3>3
      <3> QED BY <3>1, <3>2, <3>4, RouteIs
    <2>3. DstNet(f) # EXTERNAL_IP_OCT3
      BY <2>1, <2>2 DEF EXTERNAL_IP_OCT3, INTERNAL_IP_OCT3
    <2>4. HandsOn(a, f)
      BY <1>4, <1>6, <2>1, <2>3 DEF HandsOn
    <2> QED BY <1>6, <2>4 DEF r, f
  <1>7. CASE Type(a) = "UDP" /\ DstNet(a) = INTERNAL_IP_OCT3 /\ r = Answered(a, o)
    <2>1. /\ Shaped(f) /\ SameType(a, f) /\ DstNet(f) = DstNet(a)
          /\ f.l4 = o.pkt /\ r.ret = o.ret
      BY <1>4, <1>7, AnsweredIs DEF f
    <2>2. DatalenMod \in Nat
      BY LengthAssumption DEF LengthAssumption
    <2>3. \/ Refused(o)
          \/ /\ a.l4.magic = MAGIC_REQUEST /\ a.l4.bodylen + HeaderLen = a.len
             /\ GetDone(o, a.l4) \/ SetDone(o, a.l4)
      BY <1>4, <1>7, <2>2, Received DEF o
    <2>4. a.l4.bodylen + HeaderLen = a.len /\ Replies(o, a.l4)
      BY <1>1, <2>1, <2>3 DEF Refused, GetDone, SetDone
    <2>5. f.l4.magic = MAGIC_RESPONSE
      BY <2>1, <2>4 DEF Replies
    <2>6. Answer(f)
      BY <1>1, <1>7, <2>1, <2>5 DEF Answer
    <2>7. HandsOn(a, f)
      BY <1>4, <1>7, <2>1, <2>4, <2>6 DEF HandsOn
    <2> QED BY <2>6, <2>7 DEF r, f
  <1>8. ~(Type(a) = "ARP" /\ r = OnArp(a))
    <2>1. ASSUME Type(a) = "ARP", r = OnArp(a) PROVE FALSE
      <3>1. SameType(a, f)
        BY <1>4, <2>1, ArpIs DEF f
      <3>2. Type(f) = "ARP"
        BY <2>1, <3>1, TypeKept
      <3> QED BY <1>1, <3>2
    <2> QED BY <2>1
  <1>9. ~(Type(a) = "ICMP" /\ r = OnIcmp(a))
    <2>1. ASSUME Type(a) = "ICMP", r = OnIcmp(a) PROVE FALSE
      <3>1. SameType(a, f)
        BY <1>4, <2>1, IcmpIs DEF f
      <3>2. Type(f) = "ICMP"
        BY <2>1, <3>1, TypeKept
      <3> QED BY <1>1, <3>2
    <2> QED BY <2>1
  <1>10. ~Refused(r)
    BY <1>1 DEF Refused
  <1> QED BY <1>5, <1>6, <1>7, <1>8, <1>9, <1>10

\* The second worker answers the packet, or drops it; an answer is always dropped.
LEMMA SecondHop ==
  ASSUME HeldGood, NEW a, IsPacket(a), NEW f, HandsOn(a, f), Type(f) = "UDP",
         NEW dbOk \in BOOLEAN
  PROVE  LET r == Handle(f, dbOk)
         IN  /\ Answer(f) => Refused(r)
             /\ r.ret = 1 => Answer(r.frame)
             /\ \A row \in r.writes : RowOf(a.l4, a.len, row)
  <1> DEFINE r == Handle(f, dbOk)
             o == OnRecieve(f.l4, f.len, held, dbOk)
  <1>1. Shaped(f) /\ Type(a) = "UDP" /\ a.link = "netmap" /\ DstNet(f) # EXTERNAL_IP_OCT3
    BY DEF HandsOn, Answer, INTERNAL_IP_OCT3, EXTERNAL_IP_OCT3
  <1>2. \/ DstNet(f) = INTERNAL_IP_OCT3 /\ r = Answered(f, o)
        \/ Refused(r)
    BY <1>1, FrameHandled
  <1> HIDE DEF r, o
  <1>3. CASE Refused(r)
    BY <1>3 DEF Refused, r
  <1>4. CASE DstNet(f) = INTERNAL_IP_OCT3 /\ r = Answered(f, o)
    <2>1. /\ Shaped(r.frame) /\ SameType(f, r.frame) /\ DstNet(r.frame) = DstNet(f)
          /\ r.frame.l4 = o.pkt /\ r.ret = o.ret /\ r.writes = o.writes
      BY <1>1, <1>4, AnsweredIs
    <2>2. CASE Answer(f)
      <3>1. Refused(o)
        BY <2>2, ResponsesRefused DEF Answer, o
      <3>2. Refused(r)
        BY <2>1, <3>1 DEF Refused
      <3> QED BY <3>2 DEF Refused, r
    <2>3. CASE ~Answer(f)
      <3>1. f.l4 = a.l4 /\ f.len = a.len
        BY <2>3 DEF HandsOn
      <3>2. IsFrame(a)
        BY <1>1, DatagramIs DEF IsPacket
      <3>3. /\ a.l4 \in AnyRequest /\ Buffer(a.l4) /\ Len(a.l4.body) >= a.len - HeaderLen
            /\ a.len \in Nat
        BY <1>1, <3>2, FrameIs
      <3>4. DatalenMod \in Nat
        BY LengthAssumption DEF LengthAssumption
      <3>5. Refused(o) \/ GetDone(o, a.l4) \/ SetDone(o, a.l4)
        BY <3>1, <3>3, <3>4, Received DEF o
      <3>6. r.ret = 1 => o.pkt.magic = MAGIC_RESPONSE
        BY <2>1, <3>5 DEF Refused, GetDone, SetDone, Replies
      <3>7. Type(r.frame) = "UDP"
        BY <2>1, TypeKept
      <3>8. r.ret = 1 => Answer(r.frame)
        BY <1>4, <2>1, <3>6, <3>7 DEF Answer
      <3>9. ASSUME NEW row \in r.writes PROVE RowOf(a.l4, a.len, row)
        <4>1. row \in OnRecieve(a.l4, a.len, held, dbOk).writes
          BY <2>1, <3>1 DEF o
        <4> QED BY <3>3, <4>1, WritesAre
      <3> QED BY <2>3, <3>8, <3>9 DEF r
    <2> QED BY <2>2, <2>3
  <1> QED BY <1>2, <1>3, <1>4

\* Primed, Handle is what it was: it depends on the table alone.
LEMMA HandleKept ==
  ASSUME held' = held, NEW f, NEW dbOk
  PROVE  Handle(f, dbOk)' = Handle(f, dbOk)
  BY DEF Handle, OnRecv

LEMMA InitInv == Init => Inv
  <1> SUFFICES ASSUME Init PROVE Inv
    OBVIOUS
  <1> USE DEF Init
  <1>1. ItemLen \in Nat /\ DatalenMod \in Nat /\ DatalenMod > 0 /\ MaxHops \in Nat
    BY LengthAssumption, PacketAssumption DEF LengthAssumption
  <1>2. ZeroBody \in Item
    BY <1>1 DEF ZeroBody, Item
  <1> DEFINE h0 == [key |-> IdOf(TheKey), item |-> ZeroBody, sent |-> <<>>]
  <1>3. h0 \in [key: {IdOf(TheKey)}, item: Item, sent: Seq(Content)]
    <2>1. <<>> \in Seq(Content)
      OBVIOUS
    <2> QED BY <1>2, <2>1
  <1>4. held = {h0}
    OBVIOUS
  <1>5. TypeOK
    <2> HIDE DEF h0
    <2>1. held \in SUBSET [key: {IdOf(TheKey)}, item: Item, sent: Seq(Content)]
      BY <1>3, <1>4
    <2>2. \A g, h \in held : g = h
      BY <1>4
    <2>3. hops \in 0..MaxHops
      BY <1>1
    <2> QED BY <2>1, <2>2, <2>3 DEF TypeOK
  <1>6. HeldOK
    <2>1. h0.sent = <<>> /\ h0.item = ZeroBody
      OBVIOUS
    <2> HIDE DEF h0
    <2> QED BY <1>4, <2>1 DEF HeldOK
  <1> QED BY <1>5, <1>6 DEF Inv, FlightOK, RowsOK

LEMMA LaunchInv ==
  ASSUME Inv, NEW packet \in Packets, Launch(packet)
  PROVE  Inv'
  <1> USE DEF Launch
  <1>1. TypeOK /\ HeldOK
    BY DEF Inv
  <1>2. IsPacket(packet)
    BY PacketAssumption
  <1>3. /\ asked' = {packet} /\ flight' = {packet} /\ hops' = hops /\ rows' = rows
        /\ held' = held /\ hops = 0 /\ rows = {}
    BY <1>1 DEF TypeOK
  <1>4. TypeOK'
    <2>1. \A a, b \in asked' : IsPacket(a) /\ a = b
      BY <1>2, <1>3
    <2>2. \A f, g \in flight' : f = g
      BY <1>3
    <2>3. asked' # {}
      BY <1>3
    <2> QED BY <1>1, <1>3, <2>1, <2>2, <2>3, Zenon DEF TypeOK
  <1>5. FlightOK'
    BY <1>3 DEF FlightOK
  <1>6. RowsOK' /\ HeldOK'
    BY <1>1, <1>3, Zenon DEF RowsOK, HeldOK
  <1> QED BY <1>4, <1>5, <1>6 DEF Inv

LEMMA FinishInv ==
  ASSUME Inv, Finish
  PROVE  Inv'
  <1> USE DEF Finish
  <1>1. TypeOK /\ HeldOK /\ RowsOK
    BY DEF Inv
  <1>2. /\ asked' = {} /\ flight' = {} /\ hops' = 0 /\ rows' = rows /\ held' = held
    OBVIOUS
  <1>3. MaxHops \in Nat
    BY PacketAssumption
  <1>4. TypeOK'
    <2>1. hops' \in 0..MaxHops
      BY <1>2, <1>3
    <2> QED BY <1>1, <1>2, <2>1 DEF TypeOK
  <1>5. FlightOK'
    BY <1>2 DEF FlightOK
  <1>6. RowsOK' /\ HeldOK'
    BY <1>1, <1>2 DEF RowsOK, HeldOK
  <1> QED BY <1>4, <1>5, <1>6 DEF Inv

\* The item of a row is of the type of an item.
LEMMA RowItem ==
  ASSUME NEW v \in Seq(Content), v # <<>>
  PROVE  RowBody(Stored(v)) \in Item
  <1> DEFINE b == RowBody(Stored(v))
  <1>1. Kept(b, v)
    BY LengthAssumption, CodecExact
  <1>2. b = [len |-> b.len, data |-> b.data]
    BY DEF RowBody
  <1> HIDE DEF b
  <1>3. b.len \in Nat /\ b.len < DatalenMod /\ b.data \in Seq(Nat) /\ Len(b.data) <= ItemLen
    BY <1>1 DEF Kept
  <1>4. DatalenMod \in Nat
    BY LengthAssumption DEF LengthAssumption
  <1>5. b.len \in 0..(DatalenMod - 1)
    BY <1>3, <1>4
  <1>6. b.data \in {d \in Seq(Nat) : Len(d) <= ItemLen}
    BY <1>3
  <1>7. b \in Item
    BY <1>2, <1>5, <1>6 DEF Item
  <1> QED BY <1>7 DEF b

LEMMA RowEventInv ==
  ASSUME Inv, RowEvent
  PROVE  Inv'
  <1>1. TypeOK /\ HeldOK /\ RowsOK /\ FlightOK
    BY DEF Inv
  <1>2. PICK row \in rows :
          /\ asked = {} /\ rows' = {}
          /\ \/ row.key = IdOf(TheKey) /\ held' = {}
             \/ /\ row.key = IdOf(TheKey)
                /\ held' = {[key |-> row.key, item |-> RowBody(Stored(row.sent)),
                             sent |-> row.sent]}
             \/ row.key # IdOf(TheKey) /\ UNCHANGED held
          /\ UNCHANGED <<asked, flight, hops>>
    BY DEF RowEvent
  <1>3. row.sent \in Seq(Content) /\ row.sent # <<>>
    BY <1>1, <1>2 DEF TypeOK, RowsOK
  <1>4. asked' = {} /\ flight' = {} /\ hops' = 0 /\ rows' = {}
    BY <1>1, <1>2 DEF TypeOK
  <1>5. /\ held' \in SUBSET [key: {IdOf(TheKey)}, item: Item, sent: Seq(Content)]
        /\ \A g, h \in held' : g = h
        /\ HeldOK'
    <2>1. CASE held' = {}
      BY <2>1 DEF HeldOK
    <2>2. CASE /\ row.key = IdOf(TheKey)
               /\ held' = {[key |-> row.key, item |-> RowBody(Stored(row.sent)),
                            sent |-> row.sent]}
      <3> DEFINE b == RowBody(Stored(row.sent))
                 h1 == [key |-> row.key, item |-> b, sent |-> row.sent]
      <3>1. b \in Item
        BY <1>3, RowItem
      <3>2. held' = {h1}
        BY <2>2
      <3> HIDE DEF b
      <3>3. h1 \in [key: {IdOf(TheKey)}, item: Item, sent: Seq(Content)]
        BY <1>3, <2>2, <3>1
      <3>4. h1.sent = row.sent /\ h1.item = b
        OBVIOUS
      <3> HIDE DEF h1
      <3>5. HeldOK'
        BY <1>3, <3>2, <3>4 DEF HeldOK, b
      <3> QED BY <3>2, <3>3, <3>5
    <2>3. CASE held' = held
      BY <1>1, <2>3 DEF TypeOK, HeldOK
    <2> QED BY <1>2, <2>1, <2>2, <2>3
  <1>6. TypeOK'
    <2>1. hops' \in 0..MaxHops
      BY <1>4, PacketAssumption
    <2> QED BY <1>4, <1>5, <2>1 DEF TypeOK
  <1>7. FlightOK'
    BY <1>4 DEF FlightOK
  <1>8. RowsOK'
    BY <1>4 DEF RowsOK
  <1> QED BY <1>5, <1>6, <1>7, <1>8 DEF Inv

LEMMA WorkInv ==
  ASSUME Inv, NEW dbOk \in BOOLEAN, Work(dbOk)
  PROVE  Inv'
  <1>1. TypeOK /\ HeldOK /\ RowsOK /\ FlightOK /\ HeldGood
    BY TypedTable DEF Inv
  <1>2. PICK f \in flight :
          LET r == Handle(f, dbOk)
          IN  /\ ToWorker(f) /\ hops < MaxHops
              /\ flight' = (IF r.ret = 1 THEN {r.frame} ELSE {})
              /\ rows' = rows \cup r.writes
              /\ hops' = hops + 1
              /\ UNCHANGED <<asked, held>>
    BY DEF Work
  <1> DEFINE r == Handle(f, dbOk)
  <1>3. /\ ToWorker(f) /\ hops < MaxHops
        /\ flight' = (IF r.ret = 1 THEN {r.frame} ELSE {})
        /\ rows' = rows \cup r.writes
        /\ hops' = hops + 1 /\ asked' = asked /\ held' = held
    BY <1>2
  <1> HIDE DEF r
  <1>4. PICK a \in asked : asked = {a} /\ IsPacket(a)
    BY <1>1, <1>2 DEF TypeOK
  <1>5. hops \in Nat /\ MaxHops \in Nat
    BY <1>1, PacketAssumption DEF TypeOK
  <1>6. /\ \A row \in r.writes :
                 (a.link = "netmap" => Type(a) = "UDP") /\ RowOf(a.l4, a.len, row)
        /\ FlightOK'
    <2>1. CASE hops = 0
      <3>1. f = a /\ rows = {}
        BY <1>1, <1>2, <1>4, <2>1 DEF FlightOK
      <3>2. \A row \in r.writes :
               (a.link = "netmap" => Type(a) = "UDP") /\ RowOf(a.l4, a.len, row)
        BY <1>1, <1>4, <3>1, FirstWrites DEF r
      <3>3. Handle(a, dbOk)' = r
        BY <1>3, <3>1, HandleKept DEF r
      <3>4. Came(Handle(a, dbOk))'
        BY <1>3, <3>1, <3>3 DEF Came
      <3>5. hops' = 1 /\ a \in asked'
        BY <1>3, <1>4, <2>1
      <3>6. FlightOK'
        BY <3>4, <3>5 DEF FlightOK
      <3> QED BY <3>2, <3>6
    <2>2. CASE hops = 1
      <3>1. PICK ok \in BOOLEAN : Came(Handle(a, ok))
        BY <1>1, <1>4, <2>2 DEF FlightOK
      <3> DEFINE first == Handle(a, ok)
      <3>2. first.ret = 1 /\ f = first.frame /\ rows = first.writes
        BY <1>2, <3>1 DEF Came
      <3>3. f.link # "socket" /\ Type(f) = "UDP"
        BY <1>3, <2>2 DEF ToWorker
      <3>4. HandsOn(a, f)
        BY <1>1, <1>4, <3>2, <3>3, FirstHop
      <3> HIDE DEF first
      <3>5. /\ r.ret = 1 => Answer(r.frame)
            /\ \A row \in r.writes : RowOf(a.l4, a.len, row)
        BY <1>1, <1>4, <3>3, <3>4, SecondHop DEF r
      <3>6. a.link = "netmap" /\ Type(a) = "UDP" /\ a.l4.bodylen + HeaderLen = a.len
        BY <3>4 DEF HandsOn
      <3>7. hops' = 2 /\ asked' = {a}
        BY <1>3, <1>4, <2>2
      <3>8. \A g \in flight' : Answer(g)
        BY <1>3, <3>5
      <3>9. FlightOK'
        BY <3>6, <3>7, <3>8 DEF FlightOK
      <3> QED BY <3>5, <3>6, <3>9
    <2>3. CASE hops = 2
      <3>1. Answer(f)
        BY <1>1, <1>2, <1>4, <2>3 DEF FlightOK
      <3>2. Refused(r)
        <4> DEFINE o == OnRecieve(f.l4, f.len, held, dbOk)
        <4>1. Shaped(f) /\ Type(f) = "UDP" /\ DstNet(f) = INTERNAL_IP_OCT3
          BY <3>1 DEF Answer
        <4>2. DstNet(f) # EXTERNAL_IP_OCT3
          BY <4>1 DEF INTERNAL_IP_OCT3, EXTERNAL_IP_OCT3
        <4>3. r = Answered(f, o) \/ Refused(r)
          BY <4>1, <4>2, FrameHandled DEF r
        <4>4. Refused(o)
          BY <3>1, ResponsesRefused DEF Answer
        <4> HIDE DEF o
        <4>5. Answered(f, o).ret = o.ret /\ Answered(f, o).writes = o.writes
          BY <4>1, AnsweredIs
        <4> QED BY <4>3, <4>4, <4>5 DEF Refused
      <3>3. hops' = 3 /\ flight' = {} /\ r.writes = {}
        BY <1>3, <2>3, <3>2 DEF Refused
      <3> QED BY <3>3 DEF FlightOK
    <2>4. CASE hops > 2
      BY <1>1, <1>2, <2>4 DEF FlightOK
    <2> QED BY <1>5, <2>1, <2>2, <2>3, <2>4
  <1>7. RowsOK'
    <2>1. ASSUME NEW row \in rows'
          PROVE  /\ row.sent # <<>>
                 /\ \A b \in asked' : /\ b.link = "netmap" => Type(b) = "UDP"
                                      /\ RowOf(b.l4, b.len, row)
      <3>1. CASE row \in rows
        BY <1>1, <1>3, <3>1 DEF RowsOK
      <3>2. CASE row \in r.writes
        <4>1. (a.link = "netmap" => Type(a) = "UDP") /\ RowOf(a.l4, a.len, row)
          BY <1>6, <3>2
        <4>2. row.sent # <<>>
          BY <4>1, RowsTyped
        <4>3. asked' = {a}
          BY <1>3, <1>4
        <4> QED BY <4>1, <4>2, <4>3
      <3> QED BY <1>3, <3>1, <3>2
    <2> QED BY <2>1 DEF RowsOK
  <1>8. HeldOK'
    BY <1>1, <1>3 DEF HeldOK
  <1>9. TypeOK'
    <2>1. \A x, y \in flight' : x = y
      BY <1>3
    <2>2. rows' \in SUBSET [key: Nat, sent: Seq(Content)]
      <3>1. \A row \in r.writes : row \in [key: Nat, sent: Seq(Content)]
        BY <1>6, RowsTyped
      <3>2. \A row \in rows : row \in [key: Nat, sent: Seq(Content)]
        BY <1>1 DEF TypeOK
      <3> QED BY <1>3, <3>1, <3>2
    <2>3. hops' \in 0..MaxHops
      BY <1>3, <1>5
    <2>4. asked' # {}
      BY <1>3, <1>4
    <2> QED BY <1>1, <1>3, <2>1, <2>2, <2>3, <2>4, Zenon DEF TypeOK
  <1> QED BY <1>6, <1>7, <1>8, <1>9 DEF Inv

\* The invariant holds in every state, whichever handler a packet goes through (OnRecv,
\* ProcessRing) and whatever the row events do to the item.
THEOREM Invariance == Spec => []Inv
  <1>1. Init => Inv
    BY InitInv
  <1>2. Inv /\ [Next]_vars => Inv'
    <2>1. SUFFICES ASSUME Inv, [Next]_vars PROVE Inv'
      OBVIOUS
    <2>2. CASE \E packet \in Packets : Launch(packet)
      BY <2>1, <2>2, LaunchInv
    <2>3. CASE \E dbOk \in BOOLEAN : Work(dbOk)
      BY <2>1, <2>3, WorkInv
    <2>4. CASE Finish
      BY <2>1, <2>4, FinishInv
    <2>5. CASE RowEvent
      BY <2>1, <2>5, RowEventInv
    <2>6. CASE UNCHANGED vars
      <3>1. asked' = asked /\ flight' = flight /\ hops' = hops /\ rows' = rows /\ held' = held
        BY <2>6 DEF vars
      <3>2. TypeOK' /\ RowsOK' /\ HeldOK'
        BY <2>1, <3>1 DEF Inv, TypeOK, RowsOK, HeldOK
      <3>3. FlightOK'
        <4>1. ASSUME NEW a \in asked, NEW dbOk \in BOOLEAN, Came(Handle(a, dbOk))
              PROVE  Came(Handle(a, dbOk))'
          <5>1. Handle(a, dbOk)' = Handle(a, dbOk)
            BY <3>1, HandleKept
          <5> QED BY <3>1, <4>1, <5>1 DEF Came
        <4> QED BY <2>1, <3>1, <4>1 DEF Inv, FlightOK
      <3> QED BY <3>2, <3>3 DEF Inv
    <2> QED BY <2>1, <2>2, <2>3, <2>4, <2>5, <2>6 DEF Next
  <1> QED BY <1>1, <1>2, PTL DEF Spec

-----------------------------------------------------------------------------
(* Frames and probes. *)

\* A request in a frame gets through only if it declares the length of the frame.
LEMMA GetsThrough ==
  ASSUME HeldGood, NEW a, IsFrame(a), Type(a) = "UDP", NEW dbOk \in BOOLEAN,
         Handle(a, dbOk).ret = 1
  PROVE  a.l4.bodylen + HeaderLen = a.len
  <1> DEFINE r == Handle(a, dbOk)
             o == OnRecieve(a.l4, a.len, held, dbOk)
  <1>1. r.ret = 1
    OBVIOUS
  <1>2. Shaped(a) /\ a.l4 \in AnyRequest /\ Buffer(a.l4)
    BY FrameIs
  <1>3. a.l4.bodylen + HeaderLen = a.len \/ r = Answered(a, o) \/ Refused(r)
    BY <1>2, FrameHandled
  <1> HIDE DEF r, o
  <1>4. ASSUME r = Answered(a, o) PROVE a.l4.bodylen + HeaderLen = a.len
    <2>1. o.ret = 1
      BY <1>1, <1>2, <1>4, AnsweredIs
    <2>2. DatalenMod \in Nat
      BY LengthAssumption DEF LengthAssumption
    <2> QED BY <1>2, <2>1, <2>2, Received DEF Refused, o
  <1> QED BY <1>1, <1>3, <1>4 DEF Refused

\* What the first worker has done with the packet.
LEMMA FirstDone ==
  ASSUME Inv, hops = 1
  PROVE  /\ HeldGood
         /\ \E a \in asked, dbOk \in BOOLEAN :
               asked = {a} /\ IsPacket(a) /\ Came(Handle(a, dbOk))
  BY TypedTable DEF Inv, TypeOK, FlightOK

LEMMA Hops == ASSUME Inv PROVE hops \in Nat
  BY DEF Inv, TypeOK

\* A whole request in a frame goes no further than its first worker: validate_header is
\* given the length of the frame (OnUdp).
THEOREM WholeRequests == Spec => []WholeRequestsAreDropped
  <1>1. ASSUME Inv PROVE WholeRequestsAreDropped
    <2>1. SUFFICES ASSUME NEW a \in asked, NEW f \in flight, a.link = "netmap",
                          Type(a) = "UDP",
                          a.len = PayloadAt(a) + HeaderLen + a.l4.bodylen, hops # 0
                   PROVE  FALSE
      BY Zenon DEF WholeRequestsAreDropped
    <2>2. IsPacket(a)
      BY <1>1 DEF Inv, TypeOK
    <2>3. IsFrame(a)
      <3>1. IsDatagram(a) => a.link = "socket"
        BY DatagramIs
      <3> QED BY <2>1, <2>2, <3>1 DEF IsPacket
    <2>4. a.l4.bodylen + HeaderLen = a.len
      <3>1. CASE hops = 1
        <4>1. PICK dbOk \in BOOLEAN : Came(Handle(a, dbOk))
          BY <1>1, <3>1, FirstDone
        <4>2. HeldGood
          BY <1>1, <3>1, FirstDone
        <4> DEFINE r == Handle(a, dbOk)
        <4>3. flight = IF r.ret = 1 THEN {r.frame} ELSE {}
          BY <4>1 DEF Came
        <4> HIDE DEF r
        <4>4. r.ret = 1
          BY <4>3
        <4> QED BY <2>1, <2>3, <4>2, <4>4, GetsThrough DEF r
      <3>2. CASE hops = 2
        BY <1>1, <3>2 DEF Inv, FlightOK
      <3>3. CASE hops > 2
        BY <1>1, <3>3 DEF Inv, FlightOK
      <3>4. hops \in Nat
        BY <1>1, Hops
      <3> QED BY <2>1, <3>1, <3>2, <3>3, <3>4
    <2>5. PayloadAt(a) \in Nat /\ PayloadAt(a) > 0 /\ a.l4.bodylen \in Nat
      <3>1. a.l4 \in AnyRequest
        BY <2>1, <2>3, FrameIs
      <3> QED BY <2>3, <3>1, FrameIs, RequestIs
    <2> QED BY <2>1, <2>4, <2>5 DEF HeaderLen
  <1> QED BY <1>1, Invariance, PTL

\* No frame is passed from worker to worker for ever: OnUdp spreads what has an external
\* address, answers what has an internal one, and takes no answer for a request.
THEOREM FramesEnd == Spec => []FramesDieOut
  <1>1. ASSUME Inv PROVE FramesDieOut
    <2>1. hops \in Nat
      BY <1>1, Hops
    <2>2. hops > 2 => flight = {}
      BY <1>1 DEF Inv, FlightOK
    <2> QED BY <2>1, <2>2 DEF FramesDieOut
  <1> QED BY <1>1, Invariance, PTL

\* What a probe is taken for.
LEMMA ProbeType ==
  ASSUME NEW a, IsProbe(a)
  PROVE  /\ TypeSeen(a) \notin {ETHERTYPE_ARP, ETHERTYPE_IP, ETHERTYPE_IPV6} => Type(a) = "DC"
         /\ TypeSeen(a) = a.type =>
               Type(a) = IF a.type = ETHERTYPE_ARP THEN "ARP" ELSE "ICMP"
  <1>1. TypeSeen(a) \notin {ETHERTYPE_ARP, ETHERTYPE_IP, ETHERTYPE_IPV6} => Type(a) = "DC"
    BY DEF Type
  <1>2. ASSUME TypeSeen(a) = a.type, a.type = ETHERTYPE_ARP PROVE Type(a) = "ARP"
    BY <1>2 DEF Type, ETHERTYPE_ARP, ETHERTYPE_IP, ETHERTYPE_IPV6
  <1>3. ASSUME TypeSeen(a) = a.type, a.type # ETHERTYPE_ARP PROVE Type(a) = "ICMP"
    <2>1. /\ a.ip.ttl # 0
          /\ \/ a.type = ETHERTYPE_IP /\ a.ip.proto = IPPROTO_ICMP
             \/ a.type = ETHERTYPE_IPV6 /\ a.ip.proto = IPPROTO_ICMPV6
      BY <1>3 DEF IsProbe
    <2> QED BY <1>3, <2>1 DEF Type, ETHERTYPE_ARP, ETHERTYPE_IP, ETHERTYPE_IPV6, IPPROTO_ICMP,
                              IPPROTO_ICMPV6, IPPROTO_UDP
  <1> QED BY <1>1, <1>2, <1>3

\* What has become of a probe.
LEMMA ProbeDone ==
  ASSUME Inv, NEW a \in asked, IsProbe(a), hops = 1
  PROVE  /\ IsFrame(a) /\ Shaped(a)
         /\ TypeSeen(a) \notin {ETHERTYPE_ARP, ETHERTYPE_IP, ETHERTYPE_IPV6} => flight = {}
         /\ TypeSeen(a) = a.type /\ a.type = ETHERTYPE_ARP => flight = {OnArp(a).frame}
         /\ TypeSeen(a) = a.type /\ a.type # ETHERTYPE_ARP => flight = {OnIcmp(a).frame}
  <1>1. PICK dbOk \in BOOLEAN : IsPacket(a) /\ Came(Handle(a, dbOk))
    BY FirstDone
  <1> DEFINE r == Handle(a, dbOk)
  <1>2. a.link = "netmap"
    BY DEF IsProbe
  <1>3. IsFrame(a) /\ Shaped(a)
    <2>1. IsDatagram(a) => a.link = "socket"
      BY DatagramIs
    <2>2. IsFrame(a)
      BY <1>1, <1>2, <2>1 DEF IsPacket
    <2> QED BY <2>2, FrameIs
  <1>4. /\ Type(a) = "ARP"  => r = OnArp(a)
        /\ Type(a) = "ICMP" => r = OnIcmp(a)
        /\ Type(a) = "DC" => Refused(r)
    BY <1>3, FrameHandled
  <1>5. flight = IF r.ret = 1 THEN {r.frame} ELSE {}
    BY <1>1 DEF Came
  <1> HIDE DEF r
  <1>6. OnArp(a).ret = 1 /\ OnIcmp(a).ret = 1
    BY <1>3, ArpIs, IcmpIs
  <1>7. Type(a) = "DC" => flight = {}
    BY <1>4, <1>5 DEF Refused
  <1>8. Type(a) = "ARP" => flight = {OnArp(a).frame}
    BY <1>4, <1>5, <1>6
  <1>9. Type(a) = "ICMP" => flight = {OnIcmp(a).frame}
    BY <1>4, <1>5, <1>6
  <1> QED BY <1>3, <1>7, <1>8, <1>9, ProbeType

\* Every live probe is answered to who sent it (OnArp, OnIcmp), unless its VLAN tags
\* hide it (CHK_ETHERTYPE).
THEOREM Probes == Spec => []ProbesAnswered
  <1>1. ASSUME Inv PROVE ProbesAnswered
    <2>1. SUFFICES ASSUME NEW a \in asked, IsProbe(a), hops = 1
                   PROVE  /\ TypeSeen(a) \notin {ETHERTYPE_ARP, ETHERTYPE_IP, ETHERTYPE_IPV6}
                             => flight = {}
                          /\ TypeSeen(a) = a.type =>
                                \E f \in flight :
                                   /\ f.dhost = a.shost
                                   /\ f.type = ETHERTYPE_ARP =>
                                         /\ f.l4.sha = f.shost /\ f.l4.spa = a.l4.tpa
                                         /\ f.l4.tha = a.l4.sha /\ f.l4.tpa = a.l4.spa
                                   /\ f.type # ETHERTYPE_ARP =>
                                         f.ip.dst = a.ip.src /\ f.ip.src = a.ip.dst
      BY Zenon DEF ProbesAnswered
    <2>2. Shaped(a)
      BY <1>1, <2>1, ProbeDone
    <2>3. TypeSeen(a) \notin {ETHERTYPE_ARP, ETHERTYPE_IP, ETHERTYPE_IPV6} => flight = {}
      BY <1>1, <2>1, ProbeDone
    <2>4. ASSUME TypeSeen(a) = a.type, a.type = ETHERTYPE_ARP
          PROVE  \E f \in flight :
                    /\ f.dhost = a.shost /\ f.type = a.type
                    /\ f.l4.sha = f.shost /\ f.l4.spa = a.l4.tpa
                    /\ f.l4.tha = a.l4.sha /\ f.l4.tpa = a.l4.spa
      <3> DEFINE f == OnArp(a).frame
      <3>1. f \in flight
        BY <1>1, <2>1, <2>4, ProbeDone
      <3>2. /\ SameType(a, f) /\ f.dhost = a.shost /\ f.shost = OwnMac
            /\ f.l4 = [op |-> 2, sha |-> OwnMac, spa |-> a.l4.tpa,
                       tha |-> a.l4.sha, tpa |-> a.l4.spa]
        BY <2>2, ArpIs
      <3> HIDE DEF f
      <3>3. f.l4.sha = OwnMac /\ f.l4.spa = a.l4.tpa /\ f.l4.tha = a.l4.sha /\ f.l4.tpa = a.l4.spa
        BY <3>2
      <3>4. f.type = a.type
        BY <3>2 DEF SameType
      <3> QED BY <3>1, <3>2, <3>3, <3>4
    <2>5. ASSUME TypeSeen(a) = a.type, a.type # ETHERTYPE_ARP
          PROVE  \E f \in flight :
                    /\ f.dhost = a.shost /\ f.type = a.type
                    /\ f.ip.dst = a.ip.src /\ f.ip.src = a.ip.dst
      <3> DEFINE f == OnIcmp(a).frame
      <3>1. f \in flight
        BY <1>1, <2>1, <2>5, ProbeDone
      <3>2. SameType(a, f) /\ f.dhost = a.shost /\ f.ip.src = a.ip.dst /\ f.ip.dst = a.ip.src
        BY <2>2, IcmpIs
      <3> HIDE DEF f
      <3>3. f.type = a.type
        BY <3>2 DEF SameType
      <3> QED BY <3>1, <3>2, <3>3
    <2> QED BY <2>3, <2>4, <2>5, Zenon
  <1> QED BY <1>1, Invariance, PTL

\* What OnIcmp leaves of the checksum: the sum of what it sends back is off by two errors.
LEMMA AnswerSum ==
  ASSUME NEW f, NEW l4 \in IcmpMessage, f.l4 = l4, IcmpAnswer(f, l4) # l4
  PROVE  LET r == IcmpAnswer(f, l4)
             left == IF r.msg[1] = ND_NEIGHBOR_ADVERT THEN Option(r.msg) - Option(l4.msg) ELSE 0
         IN  SumOff(r.msg, l4.msg, Added(l4), left)
  <1> DEFINE r == IcmpAnswer(f, l4)
             left == IF r.msg[1] = ND_NEIGHBOR_ADVERT THEN Option(r.msg) - Option(l4.msg) ELSE 0
  <1>1. ASSUME NEW t \in Bytes, t # ND_NEIGHBOR_ADVERT, r = Retype(l4, t)
        PROVE  SumOff(r.msg, l4.msg, Added(l4), left)
    <2>1. r.msg[1] = t /\ SumOff(r.msg, l4.msg, Added(l4), 0)
      BY <1>1, Retyped DEF Retype
    <2>2. left = 0
      BY <1>1, <2>1
    <2> QED BY <2>1, <2>2
  <1>2. ASSUME r = Advertise(l4)
        PROVE  SumOff(r.msg, l4.msg, Added(l4), left)
    <2>1. /\ r.msg[1] = ND_NEIGHBOR_ADVERT
          /\ SumOff(r.msg, l4.msg, Added(l4), Option(r.msg) - Option(l4.msg))
      BY <1>2, FrameAssumption, Advertised
    <2> QED BY <2>1
  <1>3. \/ r = Retype(l4, ICMP_ECHOREPLY)
        \/ r = Retype(l4, ICMP6_ECHO_REPLY)
        \/ r = Advertise(l4)
    <2>1. CASE TypeSeen(f) = ETHERTYPE_IP
      BY <2>1 DEF IcmpAnswer
    <2>2. CASE TypeSeen(f) # ETHERTYPE_IP /\ l4.msg[1] = ICMP6_ECHO_REQUEST
      BY <2>2 DEF IcmpAnswer, ICMP6_ECHO_REQUEST, ND_NEIGHBOR_SOLICIT
    <2>3. CASE TypeSeen(f) # ETHERTYPE_IP /\ l4.msg[1] # ICMP6_ECHO_REQUEST
      BY <2>3 DEF IcmpAnswer
    <2> QED BY <2>1, <2>2, <2>3
  <1>4. /\ ICMP_ECHOREPLY \in Bytes /\ ICMP_ECHOREPLY # ND_NEIGHBOR_ADVERT
        /\ ICMP6_ECHO_REPLY \in Bytes /\ ICMP6_ECHO_REPLY # ND_NEIGHBOR_ADVERT
    BY DEF Bytes, ICMP_ECHOREPLY, ICMP6_ECHO_REPLY, ND_NEIGHBOR_ADVERT
  <1> HIDE DEF r, left
  <1>5. SumOff(r.msg, l4.msg, Added(l4), left)
    BY <1>1, <1>2, <1>3, <1>4
  <1> QED BY <1>5 DEF r, left

\* The checksum OnIcmp gives an answer, of any length, is right exactly if its two errors
\* cancel: the byte behind an odd message and the option written after the sum.
THEOREM Checks == Spec => []ChecksumsExactlyIf
  <1>1. ASSUME Inv PROVE ChecksumsExactlyIf
    <2> DEFINE left(a, f) == IF f.l4.msg[1] = ND_NEIGHBOR_ADVERT
                             THEN Option(f.l4.msg) - Option(a.l4.msg) ELSE 0
    <2>1. SUFFICES ASSUME NEW a \in asked, NEW f \in flight, IsProbe(a), TypeSeen(a) = a.type,
                          hops = 1, f.type # ETHERTYPE_ARP, f.l4 # a.l4
                   PROVE  Verifies(f.l4.msg) <=> Cancel(left(a, f), Added(a.l4))
      BY Zenon DEF ChecksumsExactlyIf, Cancel, Added, Option
    <2>2. IsFrame(a) /\ Shaped(a)
      BY <1>1, <2>1, ProbeDone
    <2>3. a.type # ETHERTYPE_ARP
      <3>1. SUFFICES ASSUME a.type = ETHERTYPE_ARP PROVE FALSE
        OBVIOUS
      <3>2. f = OnArp(a).frame
        BY <1>1, <2>1, <3>1, ProbeDone
      <3>3. SameType(a, f)
        BY <2>2, <3>2, ArpIs
      <3> QED BY <2>1, <3>1, <3>3 DEF SameType
    <2>4. f = OnIcmp(a).frame
      BY <1>1, <2>1, <2>3, ProbeDone
    <2>5. f.l4 = IcmpAnswer(a, a.l4)
      BY <2>2, <2>4, IcmpIs
    <2>6. a.l4 \in IcmpMessage
      BY <2>1, <2>2, <2>3, ProbeType, FrameIs
    <2>7. SumOff(f.l4.msg, a.l4.msg, Added(a.l4), left(a, f))
      BY <2>1, <2>5, <2>6, AnswerSum
    <2>8. a.l4.msg \in Seq(Bytes) /\ Short(a.l4.msg)
      BY <2>6 DEF IcmpMessage, Short
    <2>9. Added(a.l4) \in Nat
      BY <2>6, AddedIs
    <2> HIDE DEF left
    <2> QED BY <2>7, <2>8, <2>9, VerifiesWhenErrorsCancel
  <1> QED BY <1>1, Invariance, PTL

\* The variables keep their types: packets are what clients can send, values have the
\* bytes of a request or of the buffer behind it, an item fits its two fields.
THEOREM TypeCorrect == Spec => []TypeOK
  <1>1. Inv => TypeOK
    BY DEF Inv
  <1> QED BY <1>1, Invariance, PTL

-----------------------------------------------------------------------------
(* Replies over the socket. *)

\* A frame never becomes a datagram.
LEMMA FrameStays ==
  ASSUME NEW f, Shaped(f), NEW dbOk, Handle(f, dbOk).ret = 1
  PROVE  Handle(f, dbOk).frame.link = "netmap"
  <1> DEFINE r == Handle(f, dbOk)
             o == OnRecieve(f.l4, f.len, held, dbOk)
  <1>1. r.ret = 1
    OBVIOUS
  <1>2. \/ r.frame = SetDstNet(SwapMac(f), Route(f.l4))
        \/ r = Answered(f, o)
        \/ r = OnArp(f)
        \/ r = OnIcmp(f)
        \/ Refused(r)
    BY FrameHandled
  <1> HIDE DEF r, o
  <1>3. SameType(f, SetDstNet(SwapMac(f), Route(f.l4)))
    BY SpreadIs
  <1>4. SameType(f, Answered(f, o).frame)
    BY AnsweredIs
  <1>5. SameType(f, OnArp(f).frame)
    BY ArpIs
  <1>6. SameType(f, OnIcmp(f).frame)
    BY IcmpIs
  <1>7. ~Refused(r)
    BY <1>1 DEF Refused
  <1>8. SameType(f, r.frame)
    BY <1>2, <1>3, <1>4, <1>5, <1>6, <1>7
  <1> QED BY <1>8 DEF SameType, r

\* A reply is what OnRecieve has made of the datagram.
LEMMA ReplyDone ==
  ASSUME Inv, NEW a \in asked, NEW f \in flight, IsReply(f)
  PROVE  /\ IsDatagram(a) /\ HeldGood
         /\ \E r : /\ GetDone(r, a.l4) \/ SetDone(r, a.l4)
                   /\ f.l4 = r.pkt /\ f.len = r.len /\ rows = r.writes
  <1>1. hops = 1 /\ f.link = "socket"
    BY DEF IsReply
  <1>2. PICK dbOk \in BOOLEAN : IsPacket(a) /\ Came(Handle(a, dbOk))
    BY <1>1, FirstDone
  <1>3. HeldGood
    BY <1>1, FirstDone
  <1> DEFINE h == Handle(a, dbOk)
             r == OnRecieve(a.l4, a.len, held, dbOk)
  <1>4. flight = (IF h.ret = 1 THEN {h.frame} ELSE {}) /\ rows = h.writes
    BY <1>2 DEF Came
  <1> HIDE DEF h
  <1>5. h.ret = 1 /\ f = h.frame
    BY <1>4
  <1>6. IsDatagram(a)
    <2>1. SUFFICES ASSUME IsFrame(a) PROVE FALSE
      BY <1>2 DEF IsPacket
    <2>2. Shaped(a)
      BY <2>1, FrameIs
    <2>3. h.frame.link = "netmap"
      BY <1>5, <2>2, FrameStays DEF h
    <2> QED BY <1>1, <1>5, <2>3
  <1>7. h.ret = r.ret /\ h.writes = r.writes /\ h.frame.l4 = r.pkt /\ h.frame.len = r.len
    BY <1>6, DatagramHandled DEF h
  <1>8. \/ Refused(r)
        \/ /\ a.l4.magic = MAGIC_REQUEST /\ a.l4.bodylen + HeaderLen = a.len
           /\ GetDone(r, a.l4) \/ SetDone(r, a.l4)
    <2>1. Buffer(a.l4)
      BY <1>6, DatagramIs
    <2>2. DatalenMod \in Nat
      BY LengthAssumption DEF LengthAssumption
    <2> QED BY <1>3, <2>1, <2>2, Received
  <1> HIDE DEF r
  <1>9. GetDone(r, a.l4) \/ SetDone(r, a.l4)
    BY <1>5, <1>7, <1>8 DEF Refused
  <1> QED BY <1>3, <1>4, <1>5, <1>6, <1>7, <1>9

LEMMA OpcodesDiffer == OPCODE_GET # OPCODE_SET /\ STATUS_OK # STATUS_ERR
  BY DEF OPCODE_GET, OPCODE_SET, STATUS_OK, STATUS_ERR

\* A reply of OnRecv is a complete packet that says what the table or the database says
\* (OnRecieveGet, OnRecieveSet).
THEOREM Replied == Spec => []RepliesTellTheRow
  <1>1. ASSUME Inv PROVE RepliesTellTheRow
    <2> DEFINE found(a) == {h \in held : h.key = KeyId(a.l4) /\ h.item.len > 0}
    <2>1. SUFFICES ASSUME NEW a \in asked, NEW f \in flight, IsReply(f)
                   PROVE  /\ f.len = HeaderLen + f.l4.bodylen /\ f.l4.opcode = a.l4.opcode
                          /\ f.l4.opcode = OPCODE_SET =>
                                (f.l4.status = STATUS_OK
                                    <=> \E row \in rows : row.key = KeyId(a.l4))
                          /\ f.l4.opcode = OPCODE_GET =>
                                IF found(a) = {}
                                THEN f.l4.status = STATUS_ERR /\ Value(f.l4) = NotFound
                                ELSE f.l4.status = STATUS_OK /\ f.l4.opaque = a.l4.opaque
                                     /\ \A h \in found(a) : Value(f.l4) = ReplyData(h.item)
      BY Zenon DEF RepliesTellTheRow
    <2>2. HeldGood
      BY <1>1, <2>1, ReplyDone
    <2>3. PICK r : /\ GetDone(r, a.l4) \/ SetDone(r, a.l4)
                   /\ f.l4 = r.pkt /\ f.len = r.len /\ rows = r.writes
      BY <1>1, <2>1, ReplyDone
    <2>4. f.len = HeaderLen + f.l4.bodylen /\ f.l4.opcode = a.l4.opcode
      BY <2>3 DEF GetDone, SetDone, Replies
    <2>5. ASSUME f.l4.opcode = OPCODE_SET
          PROVE  f.l4.status = STATUS_OK <=> \E row \in rows : row.key = KeyId(a.l4)
      <3>1. SetDone(r, a.l4)
        BY <2>3, <2>4, <2>5, OpcodesDiffer DEF GetDone
      <3>2. \/ /\ f.l4.status = STATUS_OK
               /\ rows = {[key |-> KeyId(a.l4), sent |-> Value(a.l4)]}
            \/ f.l4.status = STATUS_ERR /\ rows = {}
        BY <2>3, <3>1 DEF SetDone
      <3>3. CASE f.l4.status = STATUS_OK
                 /\ rows = {[key |-> KeyId(a.l4), sent |-> Value(a.l4)]}
        <4>1. [key |-> KeyId(a.l4), sent |-> Value(a.l4)] \in rows
          BY <3>3
        <4> QED BY <3>3, <4>1
      <3>4. CASE f.l4.status = STATUS_ERR /\ rows = {}
        <4>1. f.l4.status # STATUS_OK
          BY <3>4, OpcodesDiffer
        <4> QED BY <3>4, <4>1
      <3> QED BY <3>2, <3>3, <3>4
    <2>6. ASSUME f.l4.opcode = OPCODE_GET
          PROVE  IF found(a) = {}
                 THEN f.l4.status = STATUS_ERR /\ Value(f.l4) = NotFound
                 ELSE f.l4.status = STATUS_OK /\ f.l4.opaque = a.l4.opaque
                      /\ \A h \in found(a) : Value(f.l4) = ReplyData(h.item)
      <3>1. GetDone(r, a.l4)
        BY <2>3, <2>4, <2>6, OpcodesDiffer DEF SetDone
      <3>2. CASE \E h \in held : /\ h.key = KeyId(a.l4) /\ h.item.len > 0
                                 /\ f.l4.status = STATUS_OK /\ f.l4.opaque = a.l4.opaque
                                 /\ Value(f.l4) = ReplyData(h.item)
        <4>1. PICK h \in held : /\ h.key = KeyId(a.l4) /\ h.item.len > 0
                                /\ f.l4.status = STATUS_OK /\ f.l4.opaque = a.l4.opaque
                                /\ Value(f.l4) = ReplyData(h.item)
          BY <3>2
        <4>2. h \in found(a) /\ \A g \in found(a) : g = h
          BY <2>2, <4>1 DEF HeldGood
        <4> QED BY <4>1, <4>2
      <3>3. CASE /\ \A h \in held : h.key = KeyId(a.l4) => h.item.len = 0
                 /\ f.l4.status = STATUS_ERR /\ Value(f.l4) = NotFound
        <4>1. found(a) = {}
          BY <3>3
        <4> QED BY <3>3, <4>1
      <3> QED BY <2>3, <3>1, <3>2, <3>3 DEF GetDone
    <2> QED BY <2>4, <2>5, <2>6
  <1> QED BY <1>1, Invariance, PTL

\* Which values, of any length, come back from a GET as they were SET: through the SQL
\* literal and Bin2Hex, the item and the two clips of its length (BinLogLoop).
THEOREM Survives == Spec => []SurvivesExactlyIf
  <1>1. ASSUME Inv PROVE SurvivesExactlyIf
    <2>1. SUFFICES ASSUME NEW f \in flight, NEW a \in asked, NEW h \in held, IsReply(f),
                          a.l4.opcode = OPCODE_GET, KeyId(a.l4) = h.key, h.sent # <<>>
                   PROVE  f.l4.status = STATUS_OK /\ Value(f.l4) = h.sent
                          <=> Len(h.sent) <= ItemLen /\ Clean(h.sent, Len(h.sent))
      BY Zenon DEF SurvivesExactlyIf, Clean
    <2>2. h.sent \in Seq(Content)
      BY <1>1 DEF Inv, TypeOK
    <2>3. h.item = RowBody(Stored(h.sent))
      BY <1>1, <2>1 DEF Inv, HeldOK
    <2>4. Kept(h.item, h.sent)
      BY <2>1, <2>2, <2>3, LengthAssumption, CodecExact
    <2>5. HeldGood
      BY <1>1, <2>1, ReplyDone
    <2>6. PICK r : /\ GetDone(r, a.l4) \/ SetDone(r, a.l4)
                   /\ f.l4 = r.pkt /\ f.len = r.len /\ rows = r.writes
      BY <1>1, <2>1, ReplyDone
    <2>7. GetDone(r, a.l4)
      BY <2>1, <2>6, OpcodesDiffer DEF SetDone
    <2> DEFINE good == Len(h.sent) <= ItemLen /\ Clean(h.sent, Len(h.sent))
    <2>8. (good => h.item.len = Len(h.sent)) /\ (ReplyData(h.item) = h.sent <=> good)
      BY <2>4 DEF Kept
    <2> HIDE DEF good
    <2>9. CASE \E g \in held : /\ g.key = KeyId(a.l4) /\ g.item.len > 0
                               /\ f.l4.status = STATUS_OK /\ Value(f.l4) = ReplyData(g.item)
      <3>1. f.l4.status = STATUS_OK /\ Value(f.l4) = ReplyData(h.item)
        BY <2>5, <2>9 DEF HeldGood
      <3> QED BY <2>8, <3>1 DEF good
    <2>10. CASE f.l4.status = STATUS_ERR /\ h.item.len = 0
      <3>1. Len(h.sent) # 0
        BY <2>1, <2>2
      <3>2. ~good
        BY <2>8, <2>10, <3>1
      <3> QED BY <2>10, <3>2, OpcodesDiffer DEF good
    <2> QED BY <2>1, <2>6, <2>7, <2>9, <2>10 DEF GetDone
  <1> QED BY <1>1, Invariance, PTL

-----------------------------------------------------------------------------
(* Whose bytes a row has. *)

\* As many stale bytes, at the end, as there are between the value and the packet's end.
LEMMA CountStale ==
  ASSUME NEW s \in Seq(Content), NEW beyond \in Nat,
         \A i \in 1..Len(s) : s[i] = Stale <=> i > Len(s) - beyond
  PROVE  Cardinality({i \in DOMAIN s : s[i] = Stale})
            = IF beyond < Len(s) THEN beyond ELSE Len(s)
  <1> DEFINE n == Len(s)
             from == IF beyond < n THEN (n - beyond) + 1 ELSE 1
  <1>1. n \in Nat /\ DOMAIN s = 1..n
    OBVIOUS
  <1>2. {i \in DOMAIN s : s[i] = Stale} = {i \in 1..n : i > n - beyond}
    BY <1>1
  <1> HIDE DEF n
  <1>3. {i \in 1..n : i > n - beyond} = from..n /\ from \in Int
    BY <1>1
  <1>4. Cardinality(from..n) = IF from > n THEN 0 ELSE n - from + 1
    <2>1. from \in Int /\ n \in Int
      BY <1>1, <1>3
    <2> HIDE DEF from
    <2> QED BY <2>1, FS_Interval
  <1>5. (IF from > n THEN 0 ELSE n - from + 1) = IF beyond < n THEN beyond ELSE n
    <2>1. CASE beyond < n
      BY <1>1, <2>1
    <2>2. CASE ~(beyond < n)
      BY <1>1, <2>2
    <2> QED BY <2>1, <2>2
  <1> HIDE DEF from
  <1>6. Cardinality(from..n) = IF beyond < n THEN beyond ELSE n
    BY <1>4, <1>5
  <1> QED BY <1>2, <1>3, <1>6 DEF n

\* The bytes of a row that are not those of the packet: all that are stale.
LEMMA StaleOfRow ==
  ASSUME NEW p \in AnyRequest, NEW ln \in Nat, NEW row, RowOf(p, ln, row), NEW beyond \in Int,
         Len(p.body) >= ln - HeaderLen,
         \A i \in DOMAIN p.body : p.body[i] = Stale <=> i > ln - beyond - HeaderLen
  PROVE  /\ row.sent \in Seq(Content)
         /\ \A i \in 1..Len(row.sent) : row.sent[i] = Stale <=> i > Len(row.sent) - beyond
         /\ KeyAt(p) + 3 <= ln - HeaderLen
  <1> DEFINE e == p.extlen
             n == ValueLen(p)
             v == Value(p)
             b == p.body
  <1>1. /\ row.sent = v /\ v \in Seq(Content) /\ Len(v) = n
        /\ \A i \in 1..n : v[i] = b[e + 4 + i]
        /\ n > 0 /\ p.keylen = 4 /\ p.bodylen + 24 = ln
    BY DEF RowOf, ValueAsIn, KeyLen, HeaderLen
  <1>2. e \in Nat /\ p.bodylen \in Nat /\ b \in Seq(Content) /\ Len(b) \in Nat
    BY RequestIs
  <1>3. n = (p.bodylen - e) - 4 /\ KeyAt(p) = e + 1
    BY <1>1 DEF ValueLen, KeyAt
  <1>4. n \in Nat /\ ln - 24 = (n + e) + 4
    <2>1. n > 0 /\ p.bodylen + 24 = ln
      BY <1>1
    <2>2. e \in Nat /\ p.bodylen \in Nat /\ n = (p.bodylen - e) - 4
      BY <1>2, <1>3
    <2> HIDE DEF n, e
    <2> QED BY <2>1, <2>2, SMTT(30)
  <1>5. Len(b) >= (n + e) + 4 /\ DOMAIN b = 1..Len(b)
    BY <1>2, <1>4 DEF HeaderLen
  <1>6. \A i \in DOMAIN b : b[i] = Stale <=> i > ((n + e) + 4) - beyond
    <2>1. ln - beyond - HeaderLen = ((n + e) + 4) - beyond
      <3> HIDE DEF n, e
      <3> QED BY <1>2, <1>4 DEF HeaderLen
    <2> QED BY <2>1
  <1> HIDE DEF n, e, v, b
  <1>7. ASSUME NEW i \in 1..n PROVE v[i] = Stale <=> i > n - beyond
    <2> DEFINE j == e + 4 + i
               k == Len(b)
    <2>1. k \in Nat /\ k >= (n + e) + 4 /\ DOMAIN b = 1..k
      BY <1>2, <1>5
    <2> HIDE DEF k
    <2>2. j \in 1..k
      BY <1>2, <1>4, <2>1
    <2>3. j > ((n + e) + 4) - beyond <=> i > n - beyond
      BY <1>2, <1>4
    <2>4. v[i] = b[j]
      BY <1>1
    <2> HIDE DEF j
    <2> QED BY <1>6, <2>1, <2>2, <2>3, <2>4
  <1>8. KeyAt(p) + 3 <= ln - HeaderLen
    <2>1. e \in Nat /\ KeyAt(p) = e + 1
      BY <1>2, <1>3
    <2> HIDE DEF e
    <2> QED BY <1>4, <2>1 DEF HeaderLen
  <1> QED BY <1>1, <1>7, <1>8

\* A SET takes its value from its own datagram, or from as many bytes behind its frame as
\* the frame has in front of the payload, whatever lengths it declares (KEY, REQ_VAL).
THEOREM OwnBytes == Spec => []OwnBytesExactlyIf
  <1>1. ASSUME Inv PROVE OwnBytesExactlyIf
    <2> DEFINE others(row) == {i \in DOMAIN row.sent : row.sent[i] = Stale}
    <2>1. SUFFICES ASSUME NEW row \in rows, NEW a \in asked
                   PROVE  IF a.link = "socket"
                          THEN others(row) = {} /\ KeyAt(a.l4) + 3 <= a.len - HeaderLen
                          ELSE Cardinality(others(row)) =
                                  IF PayloadAt(a) < Len(row.sent) THEN PayloadAt(a)
                                                                  ELSE Len(row.sent)
      BY Zenon DEF OwnBytesExactlyIf
    <2>2. /\ a.link = "netmap" => Type(a) = "UDP"
          /\ RowOf(a.l4, a.len, row)
      BY <1>1 DEF Inv, RowsOK
    <2>3. IsPacket(a)
      BY <1>1 DEF Inv, TypeOK
    <2>4. CASE IsDatagram(a)
      <3>1. /\ a.link = "socket" /\ a.l4 \in AnyRequest /\ a.len \in Nat
            /\ Len(a.l4.body) >= a.len - HeaderLen
            /\ \A i \in DOMAIN a.l4.body : a.l4.body[i] = Stale <=> i > a.len - HeaderLen
        BY <2>4, DatagramIs
      <3>2. PICK none \in Int : none = 0
        OBVIOUS
      <3>3. \A i \in DOMAIN a.l4.body :
               a.l4.body[i] = Stale <=> i > a.len - none - HeaderLen
        BY <3>1, <3>2
      <3>4. /\ row.sent \in Seq(Content)
            /\ \A i \in 1..Len(row.sent) : row.sent[i] = Stale <=> i > Len(row.sent) - none
            /\ KeyAt(a.l4) + 3 <= a.len - HeaderLen
        BY <2>2, <3>1, <3>3, StaleOfRow
      <3>5. others(row) = {}
        BY <3>2, <3>4
      <3> QED BY <3>1, <3>4, <3>5
    <2>5. CASE IsFrame(a)
      <3>1. /\ a.link = "netmap" /\ a.len \in Nat /\ PayloadAt(a) \in Nat
        BY <2>5, FrameIs
      <3>2. /\ a.l4 \in AnyRequest
            /\ Len(a.l4.body) >= a.len - HeaderLen
            /\ \A i \in DOMAIN a.l4.body :
                  a.l4.body[i] = Stale <=> i > a.len - PayloadAt(a) - HeaderLen
        BY <2>2, <2>5, <3>1, FrameIs
      <3>3. PayloadAt(a) \in Int
        BY <3>1
      <3>4. /\ row.sent \in Seq(Content)
            /\ \A i \in 1..Len(row.sent) :
                  row.sent[i] = Stale <=> i > Len(row.sent) - PayloadAt(a)
        BY <2>2, <3>1, <3>2, <3>3, StaleOfRow
      <3>5. Cardinality(others(row)) =
               IF PayloadAt(a) < Len(row.sent) THEN PayloadAt(a) ELSE Len(row.sent)
        BY <3>1, <3>4, CountStale
      <3>6. a.link # "socket"
        BY <3>1
      <3> QED BY <3>5, <3>6
    <2> QED BY <2>3, <2>4, <2>5 DEF IsPacket
  <1> QED BY <1>1, Invariance, PTL
===============================================================================
