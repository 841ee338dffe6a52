-------------------------- MODULE AlgorithmProofs ---------------------------
(***************************************************************************)
(* The algorithms against what they are meant to compute, for each width   *)
(* of a word and all operands: the integer instructions, what the trace    *)
(* says of the registers of an instruction, and the PC-stride prefetcher.  *)
(*                                                                         *)
(* Words are sets of bits and the reference is arithmetic in integers.     *)
(* Between them stands Value(w, k), the number of the k low bits of w:     *)
(* sums by an induction over k that carries the carry along, shifts and    *)
(* bytes by splitting a word at a bit, comparisons by the highest bit in   *)
(* which two words differ, products and quotients by the uniqueness of     *)
(* division with remainder.                                                *)
(***************************************************************************)
EXTENDS MCAlgorithms, FiniteSetTheorems, SequenceTheorems, WellFoundedInduction, TLAPS

-----------------------------------------------------------------------------
(* Recursive functions over 0 .. N                                         *)

NatLess == OpToRel(<, Nat)

\* What holds of zero, and of a number if of the one before it, holds up to N.
LEMMA UpTo ==
  ASSUME NEW N \in Nat, NEW T, 0 \in T, \A n \in 1 .. N : n - 1 \in T => n \in T
  PROVE  0 .. N \subseteq T
<1>. DEFINE Rest == {n \in 0 .. N : n \notin T}
<1>. SUFFICES ASSUME Rest # {} PROVE FALSE
  OBVIOUS
<1>1. PICK x \in Rest : \A y \in Rest : <<y, x>> \notin NatLess
  <2>1. Rest \subseteq Nat
    OBVIOUS
  <2>. HIDE DEF Rest
  <2>. QED  BY <2>1, NatLessThanWellFounded, WFMin DEF NatLess
<1>2. \A m, n \in Nat : m < n => <<m, n>> \in NatLess
  BY DEF NatLess, OpToRel
<1>3. x \in 1 .. N /\ x - 1 \in 0 .. N
  OBVIOUS
<1>4. <<x - 1, x>> \in NatLess
  BY <1>2, <1>3
<1>5. x - 1 \notin Rest
  BY <1>1, <1>4
<1>. QED  BY <1>3, <1>5

\* f is given at zero, and by a step from the value before it.
Follows(f, m, base, step) ==
  f[0] = base /\ \A n \in 1 .. m : f[n] = step[n][f[n - 1]]

\* There is such a function: what the recursive definitions rest on.
LEMMA Recursion ==
  ASSUME NEW N \in Nat, NEW S, NEW base \in S, NEW step \in [1 .. N -> [S -> S]]
  PROVE  \E f \in [0 .. N -> S] : Follows(f, N, base, step)
<1>. DEFINE T == {m \in 0 .. N : \E f \in [0 .. m -> S] : Follows(f, m, base, step)}
<1>1. 0 \in T
  <2>. DEFINE g == [n \in 0 .. 0 |-> base]
  <2>1. g \in [0 .. 0 -> S] /\ Follows(g, 0, base, step)
    BY DEF Follows
  <2>. HIDE DEF g
  <2>. QED  BY <2>1
<1>2. ASSUME NEW m \in 1 .. N, m - 1 \in T
      PROVE  m \in T
  <2>1. PICK f \in [0 .. m - 1 -> S] : Follows(f, m - 1, base, step)
    BY <1>2
  <2>. DEFINE g == [n \in 0 .. m |-> IF n = m THEN step[m][f[m - 1]] ELSE f[n]]
  <2>2. m \in Nat /\ m - 1 \in 0 .. m - 1 /\ step[m][f[m - 1]] \in S
    OBVIOUS
  <2>3. g \in [0 .. m -> S]
    BY <2>2
  <2>4. Follows(g, m, base, step)
    BY <2>1, <2>2 DEF Follows
  <2>. HIDE DEF g
  <2>. QED  BY <2>3, <2>4
<1>. HIDE DEF T
<1>3. 0 .. N \subseteq T
  BY <1>1, <1>2, UpTo
<1>. QED  BY <1>3 DEF T

-----------------------------------------------------------------------------
(* Powers of two and division                                              *)

\* The powers of two that occur, by DoublingAssumption.
LEMMA Powers ==
  /\ Width \in Nat \ {0} /\ 2 ^ 0 = 1
  /\ \A k \in 0 .. 2 * Width : 2 ^ k \in Nat \ {0}
  /\ \A k \in 0 .. 2 * Width - 1 : 2 ^ (k + 1) = 2 * 2 ^ k
<1>1. Width \in Nat \ {0} /\ 2 ^ 0 = 1
  BY WidthAssumption
<1>. DEFINE T == {k \in 0 .. 2 * Width : 2 ^ k \in Nat \ {0}}
<1>2. 0 \in T
  BY <1>1
<1>3. ASSUME NEW k \in 1 .. 2 * Width, k - 1 \in T PROVE k \in T
  BY <1>1, <1>3, DoublingAssumption
<1>. HIDE DEF T
<1>4. 0 .. 2 * Width \subseteq T
  BY <1>1, <1>2, <1>3, UpTo
<1>5. ASSUME NEW k \in 0 .. 2 * Width - 1 PROVE 2 ^ (k + 1) = 2 * 2 ^ k
  <2>1. k + 1 \in 1 .. 2 * Width /\ k + 1 - 1 = k
    BY <1>1
  <2>. QED  BY <2>1, DoublingAssumption
<1>. QED  BY <1>1, <1>4, <1>5 DEF T

\* The product of two powers is the power of the sum.
LEMMA PowerSum ==
  ASSUME NEW j \in 0 .. 2 * Width, NEW k \in 0 .. 2 * Width - j
  PROVE  2 ^ (j + k) = 2 ^ j * 2 ^ k
<1>. DEFINE T == {m \in 0 .. 2 * Width - j : 2 ^ (j + m) = 2 ^ j * 2 ^ m}
<1>0. 2 * Width - j \in Nat /\ 2 ^ j \in Nat /\ 2 ^ 0 = 1 /\ j \in Nat /\ Width \in Nat
  BY Powers
<1>1. 0 \in T
  BY <1>0
<1>2. ASSUME NEW m \in 1 .. 2 * Width - j, m - 1 \in T PROVE m \in T
  <2>1. 2 ^ (j + m) = 2 * 2 ^ (j + (m - 1)) /\ 2 ^ m = 2 * 2 ^ (m - 1) /\ 2 ^ (m - 1) \in Nat
    <3>1. /\ j + m - 1 \in 0 .. 2 * Width - 1 /\ m - 1 \in 0 .. 2 * Width - 1
          /\ j + m - 1 + 1 = j + m /\ m - 1 + 1 = m /\ j + (m - 1) = j + m - 1
      BY <1>0
    <3>. QED  BY <3>1, Powers
  <2>2. 2 ^ (j + (m - 1)) = 2 ^ j * 2 ^ (m - 1)
    BY <1>2
  <2>3. \A x, y \in Nat : 2 * (x * y) = x * (2 * y)
    OBVIOUS
  <2>. QED  BY <1>0, <2>1, <2>2, <2>3
<1>. HIDE DEF T
<1>3. 0 .. 2 * Width - j \subseteq T
  BY <1>0, <1>1, <1>2, UpTo
<1>. QED  BY <1>3 DEF T

\* Division with remainder,
LEMMA Division ==
  ASSUME NEW n \in Int, NEW d \in Nat \ {0}
  PROVE  /\ n \div d \in Int /\ (n % d) \in 0 .. d - 1
         /\ n = d * (n \div d) + (n % d)
OBVIOUS

\* of which there is only one.
LEMMA DivisionUnique ==
  ASSUME NEW n \in Int, NEW d \in Nat \ {0}, NEW q \in Int, NEW r \in 0 .. d - 1,
         n = d * q + r
  PROVE  n \div d = q /\ n % d = r
<1>. DEFINE p == n \div d
            s == n % d
<1>1. p \in Int /\ s \in 0 .. d - 1 /\ n = d * p + s
  BY Division
<1>. HIDE DEF p, s
<1>2. \A x, y \in Int : x < y => d * x + d <= d * y
  OBVIOUS
<1>3. ~ (p < q) /\ ~ (q < p)
  BY <1>1, <1>2
<1>4. p = q /\ s = r
  BY <1>1, <1>3
<1>. QED  BY <1>4 DEF p, s

-----------------------------------------------------------------------------
(* The number a word stands for                                            *)

Sums(w) ==
  LET sum[k \in 0 .. Width] ==
        IF k = 0 THEN 0 ELSE sum[k - 1] + (IF k - 1 \in w THEN 2 ^ (k - 1) ELSE 0)
  IN  sum

\* The number that the n low bits of w stand for.
Value(w, n) == Sums(w)[n]

Bit(w, k) == IF k \in w THEN 2 ^ k ELSE 0

\* A bit contributes zero or its power.
LEMMA BitNat ==
  ASSUME NEW w, NEW k \in 0 .. 2 * Width
  PROVE  Bit(w, k) \in Nat /\ Bit(w, k) \in {0, 2 ^ k}
BY Powers DEF Bit

\* Value, bit by bit, and Number as the value of all bits.
LEMMA ValueSteps ==
  ASSUME NEW w
  PROVE  /\ Value(w, 0) = 0 /\ Number(w) = Value(w, Width)
         /\ \A n \in 0 .. Width : Value(w, n) \in Nat
         /\ \A n \in 0 .. Width - 1 : Value(w, n + 1) = Value(w, n) + Bit(w, n)
<1>. DEFINE Eq(f) == f = [k \in 0 .. Width |-> IF k = 0 THEN 0
                  ELSE f[k - 1] + (IF k - 1 \in w THEN 2 ^ (k - 1) ELSE 0)]
            sum[k \in 0 .. Width] == IF k = 0 THEN 0
                  ELSE sum[k - 1] + (IF k - 1 \in w THEN 2 ^ (k - 1) ELSE 0)
<1>1. Sums(w) = sum /\ Number(w) = sum[Width]
  BY DEF Sums, Number
<1>2. ASSUME NEW f, Eq(f) PROVE Eq(sum)
  BY <1>2
<1>. DEFINE step == [k \in 1 .. Width |-> [b0 \in Nat |-> b0 + Bit(w, k - 1)]]
<1>3. Width \in Nat \ {0}
  BY Powers
<1>4. \A k \in 1 .. Width : Bit(w, k - 1) \in Nat
  <2>1. \A k \in 1 .. Width : k - 1 \in 0 .. 2 * Width
    BY <1>3
  <2>. QED  BY <2>1, BitNat
<1>5. step \in [1 .. Width -> [Nat -> Nat]]
  BY <1>4
<1>6. PICK f \in [0 .. Width -> Nat] : Follows(f, Width, 0, step)
  <2>. HIDE DEF step
  <2>. QED  BY <1>3, <1>5, Recursion
<1>7. Eq(f)
  <2>1. ASSUME NEW k \in 1 .. Width
        PROVE  k - 1 \in 0 .. Width /\ f[k] = step[k][f[k - 1]]
    <3>. HIDE DEF step
    <3>. QED  BY <1>3, <1>6 DEF Follows
  <2>2. ASSUME NEW k \in 1 .. Width
        PROVE  f[k] = f[k - 1] + Bit(w, k - 1)
    BY <1>6, <2>1
  <2>3. \A k \in 0 .. Width :
          f[k] = IF k = 0 THEN 0 ELSE f[k - 1] + (IF k - 1 \in w THEN 2 ^ (k - 1) ELSE 0)
    <3>1. f[0] = 0
      <4>. HIDE DEF step
      <4>. QED  BY <1>6 DEF Follows
    <3>2. \A k \in 0 .. Width : k # 0 => k \in 1 .. Width
      BY <1>3
    <3>. QED  BY <2>2, <3>1, <3>2 DEF Bit
  <2>. QED  BY <1>6, <2>3
<1>8. Eq(sum)
  BY <1>2, <1>7
<1>. HIDE DEF sum
<1>9. /\ sum[0] = 0
      /\ \A k \in 1 .. Width : sum[k] = sum[k - 1] + Bit(w, k - 1)
  <2>1. sum[0] = 0
    BY <1>3, <1>8
  <2>2. ASSUME NEW k \in 1 .. Width
        PROVE  sum[k] = sum[k - 1] + Bit(w, k - 1)
    <3>1. k \in 0 .. Width /\ k # 0
      BY <1>3
    <3>2. sum[k] = sum[k - 1] + (IF k - 1 \in w THEN 2 ^ (k - 1) ELSE 0)
      BY <1>8, <3>1
    <3>. QED  BY <3>2 DEF Bit
  <2>. QED  BY <2>1, <2>2
<1>. DEFINE T == {k \in 0 .. Width : sum[k] \in Nat}
<1>10. 0 .. Width \subseteq T
  <2>1. ASSUME NEW k \in 1 .. Width, k - 1 \in T
        PROVE  k \in T
    BY <1>4, <1>9, <2>1
  <2>2. 0 \in T
    BY <1>3, <1>9
  <2>. HIDE DEF T
  <2>. QED  BY <1>3, <2>1, <2>2, UpTo
<1>11. ASSUME NEW n \in 0 .. Width - 1 PROVE sum[n + 1] = sum[n] + Bit(w, n)
  <2>1. n + 1 \in 1 .. Width /\ n + 1 - 1 = n
    BY <1>3
  <2>. QED  BY <1>9, <2>1
<1>. QED  BY <1>1, <1>9, <1>10, <1>11 DEF Value

\* The prefix of a word is a digit smaller than the next power.
LEMMA ValueBound ==
  ASSUME NEW w
  PROVE  \A n \in 0 .. Width : Value(w, n) \in 0 .. 2 ^ n - 1
<1>. DEFINE T == {n \in 0 .. Width : Value(w, n) \in 0 .. 2 ^ n - 1}
<1>1. Width \in Nat /\ 0 \in T
  BY ValueSteps, Powers
<1>2. ASSUME NEW n \in 1 .. Width, n - 1 \in T PROVE n \in T
  <2>1. n - 1 \in 0 .. Width - 1 /\ n - 1 \in 0 .. 2 * Width - 1 /\ n - 1 + 1 = n
        /\ n - 1 \in 0 .. 2 * Width
    BY <1>1
  <2>2. Value(w, n) = Value(w, n - 1) + Bit(w, n - 1) /\ Bit(w, n - 1) \in {0, 2 ^ (n - 1)}
    BY <2>1, ValueSteps, BitNat
  <2>3. 2 ^ n = 2 * 2 ^ (n - 1) /\ 2 ^ (n - 1) \in Nat
    BY <2>1, Powers
  <2>. QED  BY <1>2, <2>2, <2>3
<1>. HIDE DEF T
<1>3. 0 .. Width \subseteq T
  BY <1>1, <1>2, UpTo
<1>. QED  BY <1>3 DEF T

\* Two words, or a word and a sum of words: equal steps, equal numbers.
\* To show that a relation of sums holds, it is enough to follow it bit by bit.
LEMMA Prefixes ==
  ASSUME NEW N \in 0 .. Width, NEW T, 0 \in T,
         \A n \in 0 .. N - 1 : n \in T => n + 1 \in T
  PROVE  \A n \in 0 .. N : n \in T
<1>1. N \in Nat
  BY Powers
<1>2. ASSUME NEW n \in 1 .. N, n - 1 \in T PROVE n \in T
  <2>1. n - 1 \in 0 .. N - 1 /\ n - 1 + 1 = n
    BY <1>1
  <2>. QED  BY <1>2, <2>1
<1>. QED  BY <1>1, <1>2, UpTo

-----------------------------------------------------------------------------
(* Addition                                                                *)

\* The carry, one position further.
LEMMA CarryStep ==
  ASSUME NEW x, NEW y, NEW k \in Nat
  PROVE  /\ ~Carry(x, y, 0)
         /\ Carry(x, y, k + 1) <=> k \in x \cap y \/ (k \in x \cup y /\ Carry(x, y, k))
<1>1. ~Carry(x, y, 0)
  BY DEF Carry
<1>2. ASSUME Carry(x, y, k + 1), k \notin x \cap y
      PROVE  k \in x \cup y /\ Carry(x, y, k)
  <2>1. PICK j \in 0 .. k + 1 - 1 : j \in x \cap y /\ \A i \in j + 1 .. k + 1 - 1 : i \in x \cup y
    BY <1>2 DEF Carry
  <2>2. j # k
    BY <1>2, <2>1
  <2>3. j \in 0 .. k - 1 /\ k \in j + 1 .. k + 1 - 1 /\ \A i \in j + 1 .. k - 1 : i \in j + 1 .. k + 1 - 1
    BY <2>1, <2>2
  <2>. QED  BY <2>1, <2>3 DEF Carry
<1>3. ASSUME k \in x \cap y PROVE Carry(x, y, k + 1)
  <2>1. k \in 0 .. k + 1 - 1 /\ k + 1 .. k + 1 - 1 = {}
    OBVIOUS
  <2>. QED  BY <1>3, <2>1 DEF Carry
<1>4. ASSUME k \in x \cup y, Carry(x, y, k) PROVE Carry(x, y, k + 1)
  <2>1. PICK j \in 0 .. k - 1 : j \in x \cap y /\ \A i \in j + 1 .. k - 1 : i \in x \cup y
    BY <1>4 DEF Carry
  <2>2. j \in 0 .. k + 1 - 1 /\ \A i \in j + 1 .. k + 1 - 1 : i = k \/ i \in j + 1 .. k - 1
    BY <2>1
  <2>. QED  BY <1>4, <2>1, <2>2 DEF Carry
<1>. QED  BY <1>1, <1>2, <1>3, <1>4

\* In every prefix the sum and its carry are the sum of the prefixes.
LEMMA PlusPrefix ==
  ASSUME NEW x, NEW y
  PROVE  \A n \in 0 .. Width :
           Value(Plus(x, y), n) + (IF Carry(x, y, n) THEN 2 ^ n ELSE 0)
             = Value(x, n) + Value(y, n)
<1>. DEFINE over(n) == IF Carry(x, y, n) THEN 2 ^ n ELSE 0
            p == Plus(x, y)
            T == {n \in 0 .. Width : Value(p, n) + over(n) = Value(x, n) + Value(y, n)}
<1>1. Width \in Nat /\ Width \in 0 .. Width /\ 0 \in T
  <2>1. ~Carry(x, y, 0) /\ Width \in Nat
    BY CarryStep, Powers
  <2>. QED  BY <2>1, ValueSteps
<1>2. ASSUME NEW n \in 0 .. Width - 1, n \in T PROVE n + 1 \in T
  <2>1. n \in Nat /\ n + 1 \in 0 .. Width /\ n \in 0 .. Width /\ n \in BitIndices
        /\ n \in 0 .. 2 * Width - 1 /\ n \in 0 .. 2 * Width
    BY <1>1 DEF BitIndices
  <2>2. 2 ^ (n + 1) = 2 * 2 ^ n /\ 2 ^ n \in Nat
    BY <2>1, Powers
  <2>3. /\ Value(p, n + 1) = Value(p, n) + Bit(p, n)
        /\ Value(x, n + 1) = Value(x, n) + Bit(x, n)
        /\ Value(y, n + 1) = Value(y, n) + Bit(y, n)
        /\ Value(p, n) \in Nat /\ Value(x, n) \in Nat /\ Value(y, n) \in Nat
    <3>. HIDE DEF p
    <3>. QED  BY <2>1, ValueSteps
  <2>4. n \in p <=> ~(n \in (x \ y) \cup (y \ x) <=> Carry(x, y, n))
    <3>. DEFINE u == n \in (x \ y) \cup (y \ x)
                v == Carry(x, y, n)
    <3>1. u \in BOOLEAN /\ v \in BOOLEAN
      BY DEF Carry
    <3>2. n \in p <=> u # v
      BY <2>1 DEF Plus, Xor
    <3>. HIDE DEF p, u, v
    <3>3. n \in p <=> ~(u <=> v)
      BY <3>1, <3>2
    <3>. QED  BY <3>3 DEF u, v
  <2>5. Carry(x, y, n + 1) <=> n \in x \cap y \/ (n \in x \cup y /\ Carry(x, y, n))
    BY <2>1, CarryStep
  <2>6. Bit(p, n) + over(n + 1) = Bit(x, n) + Bit(y, n) + over(n)
    <3>. HIDE DEF p
    <3>. DEFINE c == Carry(x, y, n)
                d == Carry(x, y, n + 1)
    <3>1. CASE n \in x /\ n \in y
      <4>1. (n \in p <=> c) /\ d
        BY <2>4, <2>5, <3>1
      <4>. QED  BY <2>2, <3>1, <4>1 DEF Bit
    <3>2. CASE n \notin x /\ n \notin y
      <4>1. (n \in p <=> c) /\ ~d
        BY <2>4, <2>5, <3>2
      <4>. QED  BY <2>2, <3>2, <4>1 DEF Bit
    <3>3. CASE (n \in x /\ n \notin y) \/ (n \notin x /\ n \in y)
      <4>1. (n \in p <=> ~c) /\ (d <=> c)
        BY <2>4, <2>5, <3>3
      <4>. QED  BY <2>2, <3>3, <4>1 DEF Bit
    <3>. QED  BY <3>1, <3>2, <3>3
  <2>7. over(n) \in Nat /\ over(n + 1) \in Nat /\ Bit(p, n) \in Nat /\ Bit(x, n) \in Nat /\ Bit(y, n) \in Nat
    BY <2>1, <2>2, BitNat
  <2>. HIDE DEF p, over
  <2>8. Value(p, n) + over(n) = Value(x, n) + Value(y, n)
    BY <1>2
  <2>9. Value(p, n + 1) + over(n + 1) = Value(x, n + 1) + Value(y, n + 1)
    BY <2>3, <2>6, <2>7, <2>8
  <2>. QED  BY <2>1, <2>9
<1>. HIDE DEF T
<1>3. \A n \in 0 .. Width : n \in T
  BY <1>1, <1>2, Prefixes
<1>. QED  BY <1>3 DEF T

\* A word is less than 2^Width.
LEMMA NumberBound ==
  ASSUME NEW w
  PROVE  Number(w) \in 0 .. 2 ^ Width - 1 /\ 2 ^ Width \in Nat \ {0}
<1>1. Width \in 0 .. Width /\ Width \in 0 .. 2 * Width
  BY Powers
<1>. QED  BY <1>1, ValueSteps, ValueBound, Powers

\* Plus adds modulo 2^Width.
LEMMA PlusExact ==
  ASSUME NEW x, NEW y
  PROVE  Number(Plus(x, y)) = (Number(x) + Number(y)) % 2 ^ Width
<1>. DEFINE S == 2 ^ Width
            p == Number(Plus(x, y))
            X == Number(x)
            Y == Number(y)
            q == IF Carry(x, y, Width) THEN 1 ELSE 0
<1>1. S \in Nat \ {0} /\ p \in 0 .. S - 1 /\ X \in 0 .. S - 1 /\ Y \in 0 .. S - 1
  BY NumberBound
<1>2. p + (IF Carry(x, y, Width) THEN S ELSE 0) = X + Y
  <2>1. Width \in 0 .. Width
    BY Powers
  <2>. QED  BY <2>1, PlusPrefix, ValueSteps
<1>3. q \in Int /\ S * q = (IF Carry(x, y, Width) THEN S ELSE 0)
  BY <1>1
<1>. HIDE DEF S, p, X, Y, q
<1>4. X + Y = S * q + p
  BY <1>1, <1>2, <1>3
<1>. QED  BY <1>1, <1>3, <1>4, DivisionUnique DEF S, p, X, Y

-----------------------------------------------------------------------------
(* Shifting and cutting                                                    *)

\* Words that agree in their low bits agree in the prefix.
LEMMA ValueAgree ==
  ASSUME NEW x, NEW y, NEW N \in 0 .. Width, \A k \in 0 .. N - 1 : k \in x <=> k \in y
  PROVE  Value(x, N) = Value(y, N)
<1>. DEFINE T == {n \in 0 .. N : Value(x, n) = Value(y, n)}
<1>1. Width \in Nat /\ N \in 0 .. N /\ 0 \in T
  BY ValueSteps, Powers
<1>2. ASSUME NEW n \in 0 .. N - 1, n \in T PROVE n + 1 \in T
  <2>1. n \in 0 .. Width - 1 /\ n + 1 \in 0 .. N
    BY <1>1
  <2>2. Value(x, n + 1) = Value(x, n) + Bit(x, n) /\ Value(y, n + 1) = Value(y, n) + Bit(y, n)
    BY <2>1, ValueSteps
  <2>3. Bit(x, n) = Bit(y, n)
    BY DEF Bit
  <2>. QED  BY <1>2, <2>1, <2>2, <2>3
<1>. HIDE DEF T
<1>3. \A n \in 0 .. N : n \in T
  BY <1>1, <1>2, Prefixes
<1>. QED  BY <1>1, <1>3 DEF T

\* No bit set is zero.
LEMMA EmptyValue ==
  \A n \in 0 .. Width : Value({}, n) = 0
<1>. DEFINE T == {n \in 0 .. Width : Value({}, n) = 0}
<1>1. Width \in Nat /\ Width \in 0 .. Width /\ 0 \in T
  BY ValueSteps, Powers
<1>2. ASSUME NEW n \in 0 .. Width - 1, n \in T PROVE n + 1 \in T
  <2>1. Value({}, n + 1) = Value({}, n) + Bit({}, n) /\ n + 1 \in 0 .. Width
    BY <1>1, ValueSteps
  <2>. QED  BY <1>2, <2>1 DEF Bit
<1>. HIDE DEF T
<1>3. \A n \in 0 .. Width : n \in T
  BY <1>1, <1>2, Prefixes
<1>. QED  BY <1>3 DEF T

\* All bits set is one less than a power.
LEMMA FullValue ==
  \A n \in 0 .. Width : Value(BitIndices, n) = 2 ^ n - 1
<1>. DEFINE T == {n \in 0 .. Width : Value(BitIndices, n) = 2 ^ n - 1}
<1>1. Width \in Nat /\ Width \in 0 .. Width /\ 0 \in T
  BY ValueSteps, Powers
<1>2. ASSUME NEW n \in 0 .. Width - 1, n \in T PROVE n + 1 \in T
  <2>1. /\ Value(BitIndices, n + 1) = Value(BitIndices, n) + Bit(BitIndices, n)
        /\ n + 1 \in 0 .. Width /\ n \in 0 .. 2 * Width /\ n \in 0 .. 2 * Width - 1
    BY <1>1, ValueSteps
  <2>2. Bit(BitIndices, n) = 2 ^ n
    BY DEF Bit, BitIndices
  <2>3. 2 ^ (n + 1) = 2 * 2 ^ n /\ 2 ^ n \in Nat
    BY <2>1, Powers
  <2>. QED  BY <1>2, <2>1, <2>2, <2>3
<1>. HIDE DEF T
<1>3. \A n \in 0 .. Width : n \in T
  BY <1>1, <1>2, Prefixes
<1>. QED  BY <1>3 DEF T

\* A word is its low bits and, a power of two higher, what a shift leaves.
LEMMA Split ==
  ASSUME NEW w \in SUBSET Nat, NEW n \in 0 .. Width, NEW m \in 0 .. Width - n
  PROVE  Value(w, n + m) = Value(w, n) + 2 ^ n * Value(Right(w, n), m)
<1>. DEFINE v == Right(w, n)
            T == {i \in 0 .. Width - n : Value(w, n + i) = Value(w, n) + 2 ^ n * Value(v, i)}
<1>1. Width \in Nat /\ n \in 0 .. 2 * Width /\ 2 ^ n \in Nat /\ Value(w, n) \in Nat
  BY Powers, ValueSteps
<1>2. 0 \in T
  <2>1. Value(v, 0) = 0 /\ n + 0 = n
    BY ValueSteps
  <2>. HIDE DEF v
  <2>. QED  BY <1>1, <2>1
<1>3. ASSUME NEW i \in 0 .. Width - n - 1, i \in T PROVE i + 1 \in T
  <2>1. n + i \in 0 .. Width - 1 /\ i \in 0 .. Width - 1 /\ i + 1 \in 0 .. Width - n /\ i \in 0 .. Width
        /\ n + (i + 1) = n + i + 1
    BY <1>1
  <2>2. /\ Value(w, n + i + 1) = Value(w, n + i) + Bit(w, n + i)
        /\ Value(v, i + 1) = Value(v, i) + Bit(v, i) /\ Value(v, i) \in Nat
    BY <2>1, ValueSteps
  <2>3. n + i \in w <=> i \in v
    BY <1>1, <2>1 DEF Right
  <2>4. 2 ^ (n + i) = 2 ^ n * 2 ^ i /\ 2 ^ i \in Nat
    <3>1. i \in 0 .. 2 * Width - n /\ i \in 0 .. 2 * Width
      BY <1>1
    <3>. QED  BY <1>1, <3>1, PowerSum, Powers
  <2>5. Bit(w, n + i) = 2 ^ n * Bit(v, i) /\ Bit(v, i) \in Nat
    BY <1>1, <2>3, <2>4 DEF Bit
  <2>6. \A p, x, y \in Nat : p * (x + y) = p * x + p * y /\ p * x \in Nat
    OBVIOUS
  <2>. HIDE DEF v
  <2>7. Value(w, n + i) = Value(w, n) + 2 ^ n * Value(v, i)
    BY <1>3
  <2>8. Value(w, n + (i + 1)) = Value(w, n) + 2 ^ n * Value(v, i + 1)
    BY <1>1, <2>1, <2>2, <2>5, <2>6, <2>7
  <2>. QED  BY <2>1, <2>8
<1>4. Width - n \in 0 .. Width /\ Width - n - 1 = (Width - n) - 1
  BY <1>1
<1>. HIDE DEF T
<1>5. \A i \in 0 .. Width - n : i \in T
  BY <1>2, <1>3, <1>4, Prefixes
<1>. QED  BY <1>5 DEF T

\* A word with no high bits is its prefix.
LEMMA ValueTop ==
  ASSUME NEW w \in SUBSET Nat, NEW n \in 0 .. Width, w \subseteq 0 .. n - 1
  PROVE  Number(w) = Value(w, n)
<1>1. Width \in Nat /\ Width - n \in 0 .. Width - n /\ n + (Width - n) = Width
      /\ n \in 0 .. 2 * Width /\ Width - n \in 0 .. Width
  BY Powers
<1>2. Value(w, Width) = Value(w, n) + 2 ^ n * Value(Right(w, n), Width - n)
  BY <1>1, Split
<1>3. Right(w, n) = {}
  <2>1. \A j \in w : ~(j >= n)
    <3>. SUFFICES ASSUME NEW j \in w PROVE ~(j >= n)
      OBVIOUS
    <3>1. j \in 0 .. n - 1
      OBVIOUS
    <3>. QED  BY <1>1, <3>1
  <2>. QED  BY <2>1 DEF Right
<1>. QED  BY <1>1, <1>2, <1>3, EmptyValue, ValueSteps, Powers

\* Shifting to the right divides, and what it drops is the remainder.
LEMMA RightExact ==
  ASSUME NEW w \in Words, NEW n \in 0 .. Width
  PROVE  /\ Number(Right(w, n)) = Number(w) \div 2 ^ n
         /\ Value(w, n) = Number(w) % 2 ^ n
         /\ Right(w, n) \in Words
<1>1. Width \in Nat /\ Width - n \in 0 .. Width - n /\ n + (Width - n) = Width
      /\ n \in 0 .. 2 * Width /\ Width - n \in 0 .. Width /\ w \in SUBSET Nat
  BY Powers DEF Words, BitIndices
<1>. DEFINE v == Right(w, n)
<1>2. v \in SUBSET Nat /\ v \subseteq 0 .. Width - n - 1 /\ v \in Words
  BY <1>1 DEF Right, Words, BitIndices
<1>3. Value(w, Width) = Value(w, n) + 2 ^ n * Value(v, Width - n)
  BY <1>1, Split
<1>. HIDE DEF v
<1>4. Number(v) = Value(v, Width - n)
  BY <1>1, <1>2, ValueTop
<1>5. /\ Number(w) \in Nat /\ 2 ^ n \in Nat \ {0} /\ Value(w, n) \in 0 .. 2 ^ n - 1
      /\ Number(v) \in Nat /\ Number(w) = 2 ^ n * Number(v) + Value(w, n)
  <2>1. Number(w) \in Nat /\ 2 ^ n \in Nat \ {0} /\ Value(w, n) \in 0 .. 2 ^ n - 1
        /\ Number(v) \in Nat
    BY <1>1, NumberBound, ValueBound, Powers
  <2>. QED  BY <1>3, <1>4, <2>1, ValueSteps
<1>6. Number(w) \div 2 ^ n = Number(v) /\ Number(w) % 2 ^ n = Value(w, n)
  <2>. DEFINE A0 == Number(w)
              D == 2 ^ n
              q == Number(v)
              r == Value(w, n)
  <2>1. A0 \in Int /\ D \in Nat \ {0} /\ q \in Int /\ r \in 0 .. D - 1 /\ A0 = D * q + r
    BY <1>5
  <2>. HIDE DEF A0, D, q, r
  <2>2. A0 \div D = q /\ A0 % D = r
    BY <2>1, DivisionUnique
  <2>. QED  BY <2>2 DEF A0, D, q, r
<1>. QED  BY <1>2, <1>6 DEF v

\* The low n bits are the remainder.
LEMMA LowExact ==
  ASSUME NEW w \in Words, NEW n \in 0 .. Width
  PROVE  Number(Low(w, n)) = Number(w) % 2 ^ n /\ Low(w, n) \in Words
<1>1. Low(w, n) \in SUBSET Nat /\ Low(w, n) \subseteq 0 .. n - 1 /\ Low(w, n) \in Words
  BY Powers DEF Low, Words, BitIndices
<1>2. Value(Low(w, n), n) = Value(w, n)
  <2>1. \A k \in 0 .. n - 1 : k \in Low(w, n) <=> k \in w
    BY DEF Low
  <2>. QED  BY <2>1, ValueAgree
<1>. QED  BY <1>1, <1>2, ValueTop, RightExact

\* A bit of a word is the digit of its number.
LEMMA BitExact ==
  ASSUME NEW w \in Words, NEW k \in BitIndices
  PROVE  k \in w <=> (Number(w) \div 2 ^ k) % 2 = 1
<1>. DEFINE v == Right(w, k)
<1>1. Width \in Nat \ {0} /\ k \in 0 .. Width /\ 1 \in 0 .. Width /\ 2 ^ 1 = 2 /\ 2 ^ 0 = 1 /\ 0 \in 0 .. Width - 1
      /\ 0 + 1 = 1
  <2>1. Width \in Nat \ {0} /\ 0 \in 0 .. 2 * Width - 1 /\ 2 ^ 0 = 1 /\ 0 + 1 = 1
    BY Powers
  <2>2. 2 ^ 1 = 2 * 2 ^ 0
    BY <2>1, Powers
  <2>. QED  BY <2>1, <2>2 DEF BitIndices
<1>2. v \in Words /\ Number(v) = Number(w) \div 2 ^ k
  BY <1>1, RightExact
<1>3. k \in w <=> 0 \in v
  BY <1>1 DEF Right, Words, BitIndices
<1>. HIDE DEF v
<1>4. Value(v, 1) = Number(v) % 2
  BY <1>1, <1>2, RightExact
<1>5. Value(v, 1) = Bit(v, 0)
  <2>1. Value(v, 0 + 1) = Value(v, 0) + Bit(v, 0) /\ Value(v, 0) = 0 /\ Bit(v, 0) \in Nat
    <3>1. 0 \in 0 .. 2 * Width
      BY <1>1
    <3>. QED  BY <1>1, <3>1, ValueSteps, BitNat
  <2>. QED  BY <1>1, <2>1
<1>6. Bit(v, 0) = IF 0 \in v THEN 1 ELSE 0
  BY <1>1 DEF Bit
<1>. QED  BY <1>2, <1>3, <1>4, <1>5, <1>6

\* A word is known by its number.
LEMMA NumberInjective ==
  ASSUME NEW x \in Words, NEW y \in Words, Number(x) = Number(y)
  PROVE  x = y
<1>1. \A k \in BitIndices : k \in x <=> k \in y
  BY BitExact
<1>. QED  BY <1>1 DEF Words

\* A word is the conversion of its number.
LEMMA WordOfNumber ==
  ASSUME NEW w \in Words
  PROVE  Word(Number(w)) = w
<1>1. \A k \in BitIndices : k \in w <=> (Number(w) \div 2 ^ k) % 2 = 1
  BY BitExact
<1>. QED  BY <1>1 DEF Word, Words

\* The low bits of a conversion, by induction over their count.
LEMMA WordPrefix ==
  ASSUME NEW n \in Int
  PROVE  \A k \in 0 .. Width : Value(Word(n), k) = n % 2 ^ k
<1>. DEFINE w == Word(n)
            T == {k \in 0 .. Width : Value(w, k) = n % 2 ^ k}
<1>1. Width \in Nat /\ Width \in 0 .. Width /\ 0 \in T
  <2>1. Width \in Nat /\ Value(w, 0) = 0 /\ 2 ^ 0 = 1
    BY ValueSteps, Powers
  <2>2. n % 1 = 0
    OBVIOUS
  <2>. QED  BY <2>1, <2>2
<1>2. ASSUME NEW k \in 0 .. Width - 1, k \in T PROVE k + 1 \in T
  <2>. DEFINE p == 2 ^ k
              q == n \div p
              r == n % p
              h == q \div 2
              o == q % 2
  <2>1. /\ Value(w, k + 1) = Value(w, k) + Bit(w, k) /\ k + 1 \in 0 .. Width /\ k \in BitIndices
        /\ p \in Nat \ {0} /\ 2 ^ (k + 1) = 2 * p
    <3>1. k \in 0 .. 2 * Width /\ k \in 0 .. 2 * Width - 1 /\ k + 1 \in 0 .. Width
      BY <1>1
    <3>. QED  BY <3>1, ValueSteps, Powers DEF BitIndices
  <2>2. k \in w <=> o = 1
    BY <2>1 DEF Word
  <2>. HIDE DEF p
  <2>3. q \in Int /\ r \in 0 .. p - 1 /\ n = p * q + r
    BY <2>1, Division
  <2>. HIDE DEF q
  <2>4. h \in Int /\ o \in {0, 1} /\ q = 2 * h + o
    BY <2>3
  <2>. HIDE DEF h, o, r, w
  <2>5. Bit(w, k) = p * o
    BY <2>1, <2>2, <2>4 DEF Bit, p
  <2>6. p * o + r \in 0 .. 2 * p - 1
    BY <2>1, <2>3, <2>4
  <2>7. n = (2 * p) * h + (p * o + r)
    <3>1. p * (2 * h + o) = (2 * p) * h + p * o
      BY <2>1, <2>4
    <3>. QED  BY <2>1, <2>3, <2>4, <2>6, <3>1
  <2>8. n % (2 * p) = p * o + r
    <3>1. 2 * p \in Nat \ {0}
      BY <2>1
    <3>. QED  BY <2>4, <2>6, <2>7, <3>1, DivisionUnique
  <2>9. Value(w, k) = r
    BY <1>2 DEF r, p
  <2>10. Value(w, k + 1) = n % 2 ^ (k + 1)
    BY <2>1, <2>3, <2>4, <2>5, <2>6, <2>8, <2>9
  <2>. QED  BY <2>1, <2>10
<1>. HIDE DEF T
<1>3. \A k \in 0 .. Width : k \in T
  BY <1>1, <1>2, Prefixes
<1>. QED  BY <1>3 DEF T

\* A conversion to a word keeps the number modulo 2^Width.
LEMMA WordExact ==
  ASSUME NEW n \in Int
  PROVE  Number(Word(n)) = n % 2 ^ Width /\ Word(n) \in Words
<1>1. Width \in 0 .. Width
  BY Powers
<1>. QED  BY <1>1, WordPrefix, ValueSteps DEF Word, Words

\* Shifting to the left multiplies, modulo 2^Width.
LEMMA LeftExact ==
  ASSUME NEW w \in Words, NEW s \in 0 .. Width
  PROVE  /\ Number(Left(w, s)) = (Number(w) * 2 ^ s) % 2 ^ Width
         /\ Number(Left(w, s)) = 2 ^ s * Value(w, Width - s)
         /\ Left(w, s) \in Words
<1>. DEFINE v == Left(w, s)
            m == Width - s
<1>1. /\ Width \in Nat /\ m \in 0 .. Width /\ m \in 0 .. Width - s /\ s + m = Width /\ m + s = Width
      /\ s \in 0 .. 2 * Width /\ s \in 0 .. Width - m /\ m \in 0 .. 2 * Width /\ s \in 0 .. 2 * Width - m
      /\ w \in SUBSET Nat /\ v \in Words /\ v \in SUBSET Nat
  BY Powers DEF Words, BitIndices, Left
<1>2. Number(v) = Value(v, s) + 2 ^ s * Value(Right(v, s), m)
  <2>. HIDE DEF v
  <2>. QED  BY <1>1, Split, ValueSteps
<1>3. Value(v, s) = 0
  <2>1. \A k \in 0 .. s - 1 : k \in v <=> k \in {}
    BY <1>1 DEF Left
  <2>. HIDE DEF v
  <2>. QED  BY <2>1, ValueAgree, EmptyValue
<1>4. Value(Right(v, s), m) = Value(w, m)
  <2>1. ASSUME NEW k \in 0 .. m - 1 PROVE k \in Right(v, s) <=> k \in w
    <3>1. k \in Nat /\ k + s \in BitIndices /\ k + s >= s
      BY <1>1 DEF BitIndices
    <3>2. k \in Right(v, s) <=> k + s \in v
      <4>1. \A j \in v : j \in Nat
        BY <1>1
      <4>. HIDE DEF v
      <4>. QED  BY <1>1, <3>1, <4>1 DEF Right
    <3>3. k + s \in v <=> k \in w
      BY <1>1, <3>1 DEF Left
    <3>. QED  BY <3>2, <3>3
  <2>. HIDE DEF v, m
  <2>. QED  BY <1>1, <2>1, ValueAgree
<1>. DEFINE q == Value(Right(w, m), s)
            low == Value(w, m)
<1>5. Number(w) = low + 2 ^ m * q
  <2>. HIDE DEF m
  <2>. QED  BY <1>1, Split, ValueSteps
<1>6. /\ 2 ^ Width = 2 ^ m * 2 ^ s /\ 2 ^ m \in Nat \ {0} /\ 2 ^ s \in Nat \ {0}
      /\ low \in 0 .. 2 ^ m - 1 /\ q \in Nat /\ 2 ^ Width \in Nat \ {0}
  <2>1. s \in 0 .. Width /\ Width \in 0 .. 2 * Width
    BY <1>1
  <2>. HIDE DEF m
  <2>. QED  BY <1>1, <2>1, PowerSum, Powers, ValueBound, ValueSteps
<1>7. ASSUME NEW P \in Nat \ {0}, NEW R \in Nat \ {0}, NEW x \in 0 .. P - 1, NEW y \in Nat
      PROVE  /\ (x + P * y) * R = (P * R) * y + R * x
             /\ R * x \in 0 .. P * R - 1 /\ (x + P * y) * R \in Int
  <2>1. (x + P * y) * R = (P * R) * y + R * x /\ R * x \in Nat /\ (x + P * y) * R \in Int
    OBVIOUS
  <2>2. R * x <= R * (P - 1) /\ R * (P - 1) = P * R - R
    OBVIOUS
  <2>. QED  BY <2>1, <2>2
<1>. HIDE DEF low, q, m
<1>8. /\ Number(w) * 2 ^ s = 2 ^ Width * q + 2 ^ s * low
      /\ 2 ^ s * low \in 0 .. 2 ^ Width - 1 /\ Number(w) * 2 ^ s \in Int
  BY <1>5, <1>6, <1>7
<1>9. (Number(w) * 2 ^ s) % 2 ^ Width = 2 ^ s * low
  <2>. DEFINE N == Number(w) * 2 ^ s
              D == 2 ^ Width
              r == 2 ^ s * low
  <2>1. N \in Int /\ D \in Nat \ {0} /\ q \in Int /\ r \in 0 .. D - 1 /\ N = D * q + r
    BY <1>6, <1>8
  <2>. HIDE DEF N, D, r
  <2>2. N % D = r
    BY <2>1, DivisionUnique
  <2>. QED  BY <2>2 DEF N, D, r
<1>. HIDE DEF v
<1>10. Number(v) = 2 ^ s * low
  BY <1>2, <1>3, <1>4, <1>6 DEF low
<1>. QED  BY <1>1, <1>9, <1>10 DEF v, low, m

-----------------------------------------------------------------------------
(* Sums                                                                    *)

\* What a remainder forgets it may forget early.
LEMMA RemainderSum ==
  ASSUME NEW m \in Int, NEW n \in Int, NEW d \in Nat \ {0}
  PROVE  ((m % d) + n) % d = (m + n) % d
<1>. DEFINE q == m \div d
            r == m % d
            p == (r + n) \div d
            s == (r + n) % d
<1>1. q \in Int /\ r \in Int /\ m = d * q + r
  BY Division
<1>2. p \in Int /\ s \in 0 .. d - 1 /\ r + n = d * p + s
  <2>. HIDE DEF r
  <2>. QED  BY <1>1, Division
<1>. HIDE DEF q, r, p, s
<1>3. m + n = d * (q + p) + s
  <2>1. d * (q + p) = d * q + d * p
    BY <1>1, <1>2
  <2>. QED  BY <1>1, <1>2, <2>1
<1>4. q + p \in Int /\ m + n \in Int
  BY <1>1, <1>2
<1>5. (m + n) % d = s
  BY <1>2, <1>3, <1>4, DivisionUnique
<1>. QED  BY <1>5 DEF s, r

\* What is less than the divisor is the remainder.
LEMMA SmallRemainder ==
  ASSUME NEW d \in Nat \ {0}, NEW n \in 0 .. d - 1
  PROVE  n % d = n /\ n \div d = 0
<1>1. n = d * 0 + n
  OBVIOUS
<1>. QED  BY <1>1, DivisionUnique

\* Equal up to a multiple.
LEMMA SameRemainder ==
  ASSUME NEW m \in Int, NEW q \in Int, NEW d \in Nat \ {0}
  PROVE  (m + d * q) % d = m % d
<1>. DEFINE p == m \div d
            r == m % d
<1>1. p \in Int /\ r \in 0 .. d - 1 /\ m = d * p + r
  BY Division
<1>. HIDE DEF p, r
<1>2. m + d * q = d * (p + q) + r
  <2>1. d * (p + q) = d * p + d * q
    BY <1>1
  <2>. QED  BY <1>1, <2>1
<1>3. (m + d * q) % d = r
  BY <1>1, <1>2, DivisionUnique
<1>. QED  BY <1>3 DEF r

\* Adding the divisor changes no remainder.
LEMMA Wraps ==
  ASSUME NEW m \in Int, NEW d \in Nat \ {0}
  PROVE  (m + d) % d = m % d
<1>. DEFINE p == m \div d
            r == m % d
<1>1. p \in Int /\ r \in 0 .. d - 1 /\ m = d * p + r
  BY Division
<1>. HIDE DEF p, r
<1>2. m + d = d * (p + 1) + r /\ p + 1 \in Int /\ m + d \in Int
  BY <1>1
<1>3. (m + d) % d = r
  BY <1>1, <1>2, DivisionUnique
<1>. QED  BY <1>3 DEF r

\* Words whose bits add up alike are numbers that add up alike.
LEMMA Balanced ==
  ASSUME NEW x, NEW y, NEW u, NEW v,
         \A k \in BitIndices : Bit(x, k) + Bit(y, k) = Bit(u, k) + Bit(v, k)
  PROVE  Number(x) + Number(y) = Number(u) + Number(v)
<1>. DEFINE T == {n \in 0 .. Width : Value(x, n) + Value(y, n) = Value(u, n) + Value(v, n)}
<1>1. Width \in Nat /\ Width \in 0 .. Width /\ 0 \in T
  BY ValueSteps, Powers
<1>2. ASSUME NEW n \in 0 .. Width - 1, n \in T PROVE n + 1 \in T
  <2>1. n + 1 \in 0 .. Width /\ n \in 0 .. Width /\ n \in BitIndices /\ n \in 0 .. 2 * Width
    BY <1>1 DEF BitIndices
  <2>2. /\ Value(x, n + 1) = Value(x, n) + Bit(x, n) /\ Value(y, n + 1) = Value(y, n) + Bit(y, n)
        /\ Value(u, n + 1) = Value(u, n) + Bit(u, n) /\ Value(v, n + 1) = Value(v, n) + Bit(v, n)
        /\ Value(x, n) \in Nat /\ Value(y, n) \in Nat /\ Value(u, n) \in Nat /\ Value(v, n) \in Nat
        /\ Bit(x, n) \in Nat /\ Bit(y, n) \in Nat /\ Bit(u, n) \in Nat /\ Bit(v, n) \in Nat
    BY <2>1, ValueSteps, BitNat
  <2>3. Bit(x, n) + Bit(y, n) = Bit(u, n) + Bit(v, n)
    BY <2>1
  <2>4. Value(x, n) + Value(y, n) = Value(u, n) + Value(v, n)
    BY <1>2
  <2>5. Value(x, n + 1) + Value(y, n + 1) = Value(u, n + 1) + Value(v, n + 1)
    BY <2>2, <2>3, <2>4
  <2>. QED  BY <2>1, <2>5
<1>. HIDE DEF T
<1>3. \A n \in 0 .. Width : n \in T
  BY <1>1, <1>2, Prefixes
<1>4. Width \in T
  BY <1>1, <1>3
<1>. QED  BY <1>4, ValueSteps DEF T

\* Some numbers.
LEMMA Numbers ==
  /\ Number({}) = 0 /\ Number(BitIndices) = 2 ^ Width - 1
  /\ \A k \in BitIndices : Number({k}) = 2 ^ k
<1>1. Width \in 0 .. Width /\ Width \in Nat \ {0}
  BY Powers
<1>2. Number({}) = 0 /\ Number(BitIndices) = 2 ^ Width - 1
  BY <1>1, EmptyValue, FullValue, ValueSteps
<1>3. ASSUME NEW k \in BitIndices PROVE Number({k}) = 2 ^ k
  <2>1. k \in 0 .. Width - 1 /\ k + 1 \in 0 .. Width /\ k \in 0 .. Width /\ k \in Nat /\ k \in 0 .. 2 * Width
    BY <1>1 DEF BitIndices
  <2>2. {k} \subseteq 0 .. k + 1 - 1 /\ {k} \in SUBSET Nat
    BY <2>1
  <2>3. Number({k}) = Value({k}, k + 1)
    BY <2>1, <2>2, ValueTop
  <2>4. Value({k}, k + 1) = Value({k}, k) + Bit({k}, k)
    BY <2>1, ValueSteps
  <2>5. Value({k}, k) = Value({}, k)
    <3>1. \A j \in 0 .. k - 1 : j \in {k} <=> j \in {}
      BY <2>1
    <3>. QED  BY <2>1, <3>1, ValueAgree
  <2>6. Value({}, k) = 0 /\ Bit({k}, k) = 2 ^ k /\ 2 ^ k \in Nat
    BY <2>1, EmptyValue, Powers DEF Bit
  <2>. QED  BY <2>3, <2>4, <2>5, <2>6
<1>. QED  BY <1>2, <1>3

\* The complement.
LEMMA NotExact ==
  ASSUME NEW x
  PROVE  Number(Not(x)) = 2 ^ Width - 1 - Number(x)
<1>1. ASSUME NEW k \in BitIndices
      PROVE  Bit(x, k) + Bit(Not(x), k) = Bit(BitIndices, k) + Bit({}, k)
  <2>1. 2 ^ k \in Nat
    BY Powers DEF BitIndices
  <2>. QED  BY <2>1 DEF Bit, Not
<1>2. Number(x) + Number(Not(x)) = Number(BitIndices) + Number({})
  BY <1>1, Balanced
<1>3. Number(x) \in Nat /\ Number(Not(x)) \in Nat /\ 2 ^ Width \in Nat
  BY NumberBound
<1>. QED  BY <1>2, <1>3, Numbers

\* The operands of a behaviour, as words and as numbers.
Operands == a \in Words /\ b \in Words

\* The numbers of the two operands.
LEMMA OperandNumbers ==
  ASSUME Operands
  PROVE  /\ Size \in Nat \ {0} /\ A \in 0 .. Size - 1 /\ B \in 0 .. Size - 1
         /\ Size = 2 ^ Width /\ A = Number(a) /\ B = Number(b)
BY NumberBound DEF Size, A, B

\* Sums are taken modulo 2^Width, differences too.
LEMMA SumsAreExact ==
  ASSUME Operands
  PROVE  SumsExact
<1>1. Size \in Nat \ {0} /\ A \in Int /\ B \in Int /\ A \in 0 .. Size - 1 /\ B \in 0 .. Size - 1
      /\ Size = 2 ^ Width
  BY OperandNumbers
<1>2. ASSUME NEW x, NEW y
      PROVE  Number(Plus(x, y)) = (Number(x) + Number(y)) % Size /\ Number(x) \in Nat
  BY PlusExact, NumberBound DEF Size
<1>3. Number(AddLike("add", a, b)) = (A + B) % Size
  BY <1>2 DEF AddLike, A, B
<1>4. Number(AddLike("sub", a, b)) = (A - B) % Size
  <2>1. Number({0}) = 1
    <3>1. 0 \in BitIndices /\ 2 ^ 0 = 1
      BY Powers DEF BitIndices
    <3>. QED  BY <3>1, Numbers
  <2>2. Number(Not(b)) = Size - 1 - B
    BY NotExact DEF Size, B
  <2>. DEFINE d == Plus(Not(b), {0})
  <2>3. Number(d) = (Size - B) % Size /\ Number(d) \in Nat
    <3>1. Size - 1 - B + 1 = Size - B
      BY <1>1
    <3>. QED  BY <1>2, <2>1, <2>2, <3>1
  <2>. HIDE DEF d
  <2>4. Number(Plus(a, d)) = (A + Number(d)) % Size
    BY <1>2 DEF A
  <2>5. Number(Plus(a, d)) = (((Size - B) % Size) + A) % Size
    BY <1>1, <2>3, <2>4
  <2>6. (((Size - B) % Size) + A) % Size = ((Size - B) + A) % Size
    <3>1. Size - B \in Int
      BY <1>1
    <3>. HIDE DEF Size, A, B
    <3>. QED  BY <1>1, <3>1, RemainderSum
  <2>7. (Size - B) + A = (A - B) + Size /\ A - B \in Int
    BY <1>1
  <2>8. ((A - B) + Size) % Size = (A - B) % Size
    BY <1>1, <2>7, Wraps
  <2>. QED  BY <2>5, <2>6, <2>7, <2>8 DEF AddLike, d
<1>5. ASSUME NEW s \in 0 .. Width
      PROVE  Number(Plus(b, Left(a, s))) = (A * 2 ^ s + B) % Size
  <2>1. Number(Left(a, s)) = (A * 2 ^ s) % Size
    BY LeftExact DEF Operands, A, Size
  <2>2. Number(Plus(b, Left(a, s))) = (B + ((A * 2 ^ s) % Size)) % Size
    BY <1>2, <2>1 DEF B
  <2>3. A * 2 ^ s \in Int
    <3>1. s \in 0 .. 2 * Width
      BY Powers
    <3>. QED  BY <1>1, <3>1, Powers
  <2>. DEFINE m == A * 2 ^ s
              r == m % Size
  <2>4. r \in Int
    BY <1>1, <2>3
  <2>5. B + r = r + B
    BY <1>1, <2>4
  <2>6. (r + B) % Size = (m + B) % Size
    <3>. HIDE DEF m
    <3>. QED  BY <1>1, <2>3, RemainderSum DEF m
  <2>. QED  BY <2>2, <2>5, <2>6
<1>6. /\ 1 \in 0 .. Width /\ 2 \in 0 .. Width /\ 3 \in 0 .. Width
      /\ 2 ^ 1 = 2 /\ 2 ^ 2 = 4 /\ 2 ^ 3 = 8
  <2>1. Width \in 4 .. 32
    BY AluAssumption
  <2>2. /\ 0 \in 0 .. 2 * Width - 1 /\ 1 \in 0 .. 2 * Width - 1 /\ 2 \in 0 .. 2 * Width - 1
    BY <2>1
  <2>3. 2 ^ (0 + 1) = 2 * 2 ^ 0 /\ 2 ^ (1 + 1) = 2 * 2 ^ 1 /\ 2 ^ (2 + 1) = 2 * 2 ^ 2 /\ 2 ^ 0 = 1
    BY <2>2, Powers
  <2>4. 0 + 1 = 1 /\ 1 + 1 = 2 /\ 2 + 1 = 3
    OBVIOUS
  <2>. QED  BY <2>1, <2>3, <2>4
<1>7. /\ Number(AddLike("sh1add", a, b)) = (2 * A + B) % Size
      /\ Number(AddLike("sh2add", a, b)) = (4 * A + B) % Size
      /\ Number(AddLike("sh3add", a, b)) = (8 * A + B) % Size
  <2>1. A * 2 = 2 * A /\ A * 4 = 4 * A /\ A * 8 = 8 * A
    BY <1>1
  <2>. QED  BY <1>5, <1>6, <2>1 DEF AddLike
<1>. QED  BY <1>3, <1>4, <1>7 DEF SumsExact

-----------------------------------------------------------------------------
(* Order                                                                   *)

\* Words that differ have a highest bit in which they do.
LEMMA HighestDifference ==
  ASSUME NEW x \in Words, NEW y \in Words, x # y
  PROVE  Below(x, y) \/ Below(y, x)
<1>. DEFINE D == {k \in BitIndices : ~(k \in x <=> k \in y)}
            U == {Width - 1 - k : k \in D}
<1>1. Width \in Nat /\ D # {} /\ U # {} /\ U \subseteq Nat
  <2>1. Width \in Nat
    BY Powers
  <2>2. D # {}
    BY DEF Words
  <2>3. U # {}
    <3>. HIDE DEF D
    <3>. QED  BY <2>2
  <2>4. \A k \in D : Width - 1 - k \in Nat
    BY <2>1 DEF BitIndices
  <2>5. U \subseteq Nat
    <3>. HIDE DEF D
    <3>. QED  BY <2>4
  <2>. QED  BY <2>1, <2>2, <2>3, <2>5
<1>2. PICK u \in U : \A v \in U : <<v, u>> \notin NatLess
  <2>. HIDE DEF U
  <2>. QED  BY <1>1, NatLessThanWellFounded, WFMin DEF NatLess
<1>3. PICK k \in D : u = Width - 1 - k
  OBVIOUS
<1>4. \A j \in k + 1 .. Width - 1 : j \in x <=> j \in y
  <2>. SUFFICES ASSUME NEW j \in k + 1 .. Width - 1, j \in D PROVE FALSE
    <3>1. k + 1 .. Width - 1 \subseteq BitIndices
      BY <1>1 DEF BitIndices
    <3>. QED  BY <3>1
  <2>1. Width - 1 - j \in U /\ Width - 1 - j \in Nat /\ u \in Nat /\ Width - 1 - j < u
    BY <1>1, <1>3 DEF BitIndices
  <2>2. <<Width - 1 - j, u>> \in NatLess
    BY <2>1 DEF NatLess, OpToRel
  <2>. HIDE DEF U, D
  <2>. QED  BY <1>2, <2>1, <2>2
<1>. QED  BY <1>4 DEF Below

\* The order of the highest bit is the order of the numbers.
LEMMA BelowLess ==
  ASSUME NEW x \in Words, NEW y \in Words, Below(x, y)
  PROVE  Number(x) < Number(y)
<1>1. PICK k \in y \ x : \A j \in k + 1 .. Width - 1 : j \in x <=> j \in y
  BY DEF Below
<1>2. /\ Width \in Nat /\ k \in 0 .. Width - 1 /\ k \in 0 .. Width /\ k + 1 \in 0 .. Width
      /\ k \in 0 .. 2 * Width /\ x \in SUBSET Nat /\ y \in SUBSET Nat
      /\ Width - (k + 1) \in 0 .. Width - (k + 1) /\ k + 1 + (Width - (k + 1)) = Width
      /\ Width - (k + 1) \in 0 .. Width /\ k + 1 \in 0 .. 2 * Width
  BY Powers DEF Words, BitIndices
<1>. DEFINE m == Width - (k + 1)
            P == 2 ^ (k + 1)
            u == Value(Right(x, k + 1), m)
            v == Value(Right(y, k + 1), m)
<1>3. /\ Number(x) = Value(x, k + 1) + P * u
      /\ Number(y) = Value(y, k + 1) + P * v
  BY <1>2, Split, ValueSteps
<1>4. u = v
  <2>1. ASSUME NEW i \in 0 .. m - 1 PROVE i \in Right(x, k + 1) <=> i \in Right(y, k + 1)
    <3>1. i + (k + 1) \in k + 1 .. Width - 1 /\ i \in Nat /\ i + (k + 1) - (k + 1) = i
      BY <1>2
    <3>2. /\ i \in Right(x, k + 1) <=> i + (k + 1) \in x
          /\ i \in Right(y, k + 1) <=> i + (k + 1) \in y
      BY <1>2, <3>1 DEF Right
    <3>. QED  BY <1>1, <3>1, <3>2
  <2>. HIDE DEF m
  <2>. QED  BY <1>2, <2>1, ValueAgree DEF m
<1>5. /\ Value(x, k + 1) = Value(x, k) + Bit(x, k) /\ Value(x, k) \in 0 .. 2 ^ k - 1
      /\ Value(y, k + 1) = Value(y, k) + Bit(y, k) /\ Value(y, k) \in 0 .. 2 ^ k - 1
      /\ Bit(x, k) = 0 /\ Bit(y, k) = 2 ^ k /\ 2 ^ k \in Nat
  BY <1>1, <1>2, ValueSteps, ValueBound, Powers DEF Bit
<1>6. P \in Nat /\ u \in Nat
  BY <1>2, ValueSteps, Powers
<1>. HIDE DEF P, u, v
<1>7. P * u \in Nat
  BY <1>6
<1>. QED  BY <1>3, <1>4, <1>5, <1>7

\* Below compares unsigned numbers.
LEMMA BelowExact ==
  ASSUME NEW x \in Words, NEW y \in Words
  PROVE  /\ Below(x, y) <=> Number(x) < Number(y)
         /\ Below(x, y) \in BOOLEAN
<1>1. Number(x) \in Nat /\ Number(y) \in Nat
  BY NumberBound
<1>2. Below(x, y) \in BOOLEAN
  BY DEF Below
<1>3. Below(x, y) => Number(x) < Number(y)
  BY BelowLess
<1>4. ASSUME Number(x) < Number(y) PROVE Below(x, y)
  <2>1. x # y
    BY <1>1, <1>4
  <2>2. ~Below(y, x)
    BY <1>1, <1>4, BelowLess
  <2>. QED  BY <2>1, <2>2, HighestDifference
<1>. QED  BY <1>2, <1>3, <1>4

\* To take a word as signed is to flip its sign and count from the least one.
LEMMA SignFlipped ==
  ASSUME NEW x \in Words
  PROVE  /\ Xor(x, {Width - 1}) \in Words
         /\ Signed(x) = Number(Xor(x, {Width - 1})) - 2 ^ (Width - 1)
         /\ 2 ^ Width = 2 * 2 ^ (Width - 1) /\ 2 ^ (Width - 1) \in Nat \ {0}
<1>. DEFINE t == Width - 1
            y == Xor(x, {t})
<1>1. t \in BitIndices /\ t \in 0 .. 2 * Width - 1 /\ t \in 0 .. 2 * Width /\ t + 1 = Width
      /\ Width \in Nat
  BY Powers DEF BitIndices
<1>2. y \in Words
  BY <1>1 DEF Words, Xor
<1>3. 2 ^ Width = 2 * 2 ^ t /\ 2 ^ t \in Nat \ {0}
  BY <1>1, Powers
<1>4. Number({t}) = 2 ^ t /\ Number({}) = 0
  BY <1>1, Numbers
<1>5. Number(x) \in Nat /\ Number(y) \in Nat
  BY NumberBound
<1>6. ASSUME NEW k \in BitIndices
      PROVE  2 ^ k \in Nat
  BY Powers DEF BitIndices
<1>7. CASE t \in x
  <2>1. ASSUME NEW k \in BitIndices PROVE Bit(y, k) + Bit({t}, k) = Bit(x, k) + Bit({}, k)
    BY <1>6, <1>7 DEF Bit, Xor
  <2>2. Number(y) + Number({t}) = Number(x) + Number({})
    BY <2>1, Balanced
  <2>3. Signed(x) = Number(x) - 2 ^ Width
    BY <1>7 DEF Signed
  <2>. HIDE DEF t, y
  <2>4. Signed(x) = Number(y) - 2 ^ t
    BY <1>3, <1>4, <1>5, <2>2, <2>3
  <2>. QED  BY <1>2, <1>3, <2>4 DEF t, y
<1>8. CASE t \notin x
  <2>1. ASSUME NEW k \in BitIndices PROVE Bit(x, k) + Bit({t}, k) = Bit(y, k) + Bit({}, k)
    BY <1>6, <1>8 DEF Bit, Xor
  <2>2. Number(x) + Number({t}) = Number(y) + Number({})
    BY <2>1, Balanced
  <2>3. Signed(x) = Number(x)
    BY <1>5, <1>8 DEF Signed
  <2>. HIDE DEF t, y
  <2>4. Signed(x) = Number(y) - 2 ^ t
    BY <1>3, <1>4, <1>5, <2>2, <2>3
  <2>. QED  BY <1>2, <1>3, <2>4 DEF t, y
<1>. QED  BY <1>7, <1>8

\* The range of signed numbers.
LEMMA SignedBound ==
  ASSUME NEW x \in Words
  PROVE  /\ Signed(x) \in -(2 ^ (Width - 1)) .. 2 ^ (Width - 1) - 1 /\ Signed(x) \in Int
         /\ Signed(x) = Number(x) \/ Signed(x) = Number(x) - 2 ^ Width
         /\ Signed(x) < 0 <=> Width - 1 \in x
<1>. DEFINE h == 2 ^ (Width - 1)
            n == Number(Xor(x, {Width - 1}))
<1>1. Signed(x) = n - h /\ 2 ^ Width = 2 * h /\ h \in Nat \ {0}
  BY SignFlipped
<1>2. n \in 0 .. 2 * h - 1 /\ Number(x) \in 0 .. 2 * h - 1
  BY <1>1, NumberBound
<1>3. Signed(x) = Number(x) - (IF Width - 1 \in x THEN 2 ^ Width ELSE 0)
  BY DEF Signed
<1>. HIDE DEF n, h
<1>. QED  BY <1>1, <1>2, <1>3 DEF h

\* SignedBelow compares signed numbers.
LEMMA SignedBelowExact ==
  ASSUME NEW x \in Words, NEW y \in Words
  PROVE  /\ SignedBelow(x, y) <=> Signed(x) < Signed(y)
         /\ SignedBelow(x, y) \in BOOLEAN
<1>. DEFINE u == Xor(x, {Width - 1})
            v == Xor(y, {Width - 1})
            h == 2 ^ (Width - 1)
<1>1. /\ u \in Words /\ v \in Words /\ Signed(x) = Number(u) - h /\ Signed(y) = Number(v) - h
      /\ h \in Nat
  BY SignFlipped
<1>2. SignedBelow(x, y) = Below(u, v)
  BY DEF SignedBelow
<1>. HIDE DEF u, v, h
<1>3. Number(u) \in Nat /\ Number(v) \in Nat
  BY NumberBound
<1>. QED  BY <1>1, <1>2, <1>3, BelowExact

\* Words with the same signed number are the same.
LEMMA SignedInjective ==
  ASSUME NEW x \in Words, NEW y \in Words, Signed(x) = Signed(y)
  PROVE  x = y
<1>1. ~Below(Xor(x, {Width - 1}), Xor(y, {Width - 1})) /\ ~Below(Xor(y, {Width - 1}), Xor(x, {Width - 1}))
  <2>1. ~SignedBelow(x, y) /\ ~SignedBelow(y, x)
    <3>1. Signed(x) \in Int
      BY SignedBound
    <3>. QED  BY <3>1, SignedBelowExact
  <2>. QED  BY <2>1 DEF SignedBelow
<1>2. Xor(x, {Width - 1}) = Xor(y, {Width - 1})
  BY <1>1, SignFlipped, HighestDifference
<1>. QED  BY <1>2 DEF Xor

\* Comparisons, minima and maxima, branches and the atomic instructions order
\* words as the numbers they stand for.
LEMMA OrderIsExact ==
  ASSUME Operands
  PROVE  OrderExact
<1>1. a \in Words /\ b \in Words /\ A \in Int /\ B \in Int /\ SA \in Int /\ SB \in Int
      /\ A = Number(a) /\ B = Number(b) /\ SA = Signed(a) /\ SB = Signed(b)
  BY OperandNumbers, SignedBound DEF Operands, SA, SB
<1>2. /\ SignedBelow(a, b) <=> SA < SB
      /\ SignedBelow(b, a) <=> SB < SA
      /\ SignedBelow(a, b) \in BOOLEAN
      /\ Below(a, b) <=> A < B
      /\ Below(b, a) <=> B < A
      /\ Below(a, b) \in BOOLEAN
  BY <1>1, SignedBelowExact, BelowExact
<1>3. (SA = SB => a = b) /\ (A = B => a = b)
  BY <1>1, SignedInjective, NumberInjective
<1>4. AddLike("slt", a, b) = Truth(SA < SB) /\ AddLike("sltu", a, b) = Truth(A < B)
  BY <1>2 DEF AddLike, Truth
<1>5. /\ AddLike("min", a, b) = IF SA < SB THEN a ELSE b
      /\ AddLike("max", a, b) = IF SB < SA THEN a ELSE b
      /\ AddLike("minu", a, b) = IF A < B THEN a ELSE b
      /\ AddLike("maxu", a, b) = IF B < A THEN a ELSE b
  BY <1>2 DEF AddLike
<1>6. /\ {AddLike("min", a, b), AddLike("max", a, b)} = {a, b}
      /\ {AddLike("minu", a, b), AddLike("maxu", a, b)} = {a, b}
  <2>1. {a, b} = {b, a}
    OBVIOUS
  <2>. QED  BY <1>1, <1>3, <1>5, <2>1
<1>7. /\ Signed(AddLike("min", a, b)) <= Signed(AddLike("max", a, b))
      /\ Number(AddLike("minu", a, b)) <= Number(AddLike("maxu", a, b))
  BY <1>1, <1>5
<1>8. /\ Taken("beq", a, b) = (A = B) /\ Taken("bne", a, b) = (A # B)
      /\ Taken("blt", a, b) = (SA < SB) /\ Taken("bge", a, b) = (SA >= SB)
      /\ Taken("bltu", a, b) = (A < B) /\ Taken("bgeu", a, b) = (A >= B)
  BY <1>1, <1>2, <1>3 DEF Taken
<1>9. ASSUME NEW kind \in {"min", "max", "minu", "maxu"}
      PROVE  Computed(kind, a, b) = AddLike(kind, a, b)
  BY <1>1, <1>2, <1>3, <1>5 DEF Computed
<1>. QED  BY <1>4, <1>6, <1>7, <1>8, <1>9 DEF OrderExact

-----------------------------------------------------------------------------
(* Bits and halves                                                         *)

\* Words with no bit in common add up to their union.
LEMMA DisjointUnion ==
  ASSUME NEW x, NEW y, x \cap y = {}
  PROVE  Number(x \cup y) = Number(x) + Number(y)
<1>1. ASSUME NEW k \in BitIndices
      PROVE  Bit(x, k) + Bit(y, k) = Bit(x \cup y, k) + Bit({}, k)
  <2>1. 2 ^ k \in Nat
    BY Powers DEF BitIndices
  <2>. QED  BY <2>1 DEF Bit
<1>2. Number(x) + Number(y) = Number(x \cup y) + Number({})
  BY <1>1, Balanced
<1>3. Number(x) \in Nat /\ Number(y) \in Nat /\ Number(x \cup y) \in Nat
  BY NumberBound
<1>. QED  BY <1>2, <1>3, Numbers

\* A word has four bytes.
LEMMA Quarters ==
  /\ Byte \in Nat \ {0} /\ Width = 4 * Byte /\ Width \in Nat \ {0}
  /\ Byte \in 0 .. Width /\ 2 * Byte \in 0 .. Width /\ 3 * Byte \in 0 .. Width
<1>1. CASE Width = 4
  BY <1>1 DEF Byte
<1>2. CASE Width = 8
  BY <1>2 DEF Byte
<1>3. CASE Width = 16
  BY <1>3 DEF Byte
<1>4. CASE Width = 32
  BY <1>4 DEF Byte
<1>. QED  BY <1>1, <1>2, <1>3, <1>4, AluAssumption

\* Bit by bit, a union and an intersection are two words as before.
LEMMA UnionAndIntersection ==
  ASSUME NEW x, NEW y
  PROVE  /\ Number(x \cup y) + Number(x \cap y) = Number(x) + Number(y)
         /\ Number(x \cup Not(y)) + Number(y) = Number(x \cap y) + Number(BitIndices)
<1>1. \A k \in BitIndices : 2 ^ k \in Nat
  BY Powers DEF BitIndices
<1>. DEFINE u == x \cup y
            v == x \cap y
            w == x \cup Not(y)
<1>2. ASSUME NEW k \in BitIndices PROVE Bit(u, k) + Bit(v, k) = Bit(x, k) + Bit(y, k)
  BY <1>1 DEF Bit
<1>3. ASSUME NEW k \in BitIndices PROVE Bit(w, k) + Bit(y, k) = Bit(v, k) + Bit(BitIndices, k)
  BY <1>1 DEF Bit, Not
<1>. HIDE DEF u, v, w
<1>4. Number(u) + Number(v) = Number(x) + Number(y)
  BY <1>2, Balanced
<1>5. Number(w) + Number(y) = Number(v) + Number(BitIndices)
  BY <1>3, Balanced
<1>. QED  BY <1>4, <1>5 DEF u, v, w

\* What the words of Zbb that combine bits stand for.
LEMMA BitwiseIsExact ==
  ASSUME Operands
  PROVE  BitwiseExact
<1>1. /\ a \in Words /\ b \in Words /\ A \in Nat /\ B \in Nat /\ Size \in Nat \ {0}
      /\ A = Number(a) /\ B = Number(b) /\ Size = 2 ^ Width
  BY OperandNumbers DEF Operands
<1>2. \A op : Bits(op) = Number(Bitwise(op, a, b)) /\ Bits(op) \in Nat
  BY NumberBound DEF Bits
<1>3. \A k \in BitIndices : 2 ^ k \in Nat
  BY Powers DEF BitIndices
<1>4. Number({}) = 0 /\ Number(BitIndices) = Size - 1
  BY <1>1, Numbers
<1>5. /\ Bits("xor") = Number(Xor(a, b)) /\ Bits("and") = Number(a \cap b)
      /\ Bits("or") = Number(a \cup b) /\ Bits("xnor") = Number(Not(Xor(a, b)))
      /\ Bits("orn") = Number(a \cup Not(b)) /\ Bits("andn") = Number(a \ b)
      /\ Bits("pack") = Number(Low(a, 2 * Byte) \cup Left(b, 2 * Byte))
      /\ Bits("packh") = Number(Low(a, Byte) \cup Left(Low(b, Byte), Byte))
  BY <1>2 DEF Bitwise
<1>6. Bits("or") + Bits("and") = A + B
  BY <1>1, <1>5, UnionAndIntersection
<1>7. Bits("xor") + 2 * Bits("and") = A + B
  <2>1. ASSUME NEW k \in BitIndices
        PROVE  Bit(Xor(a, b), k) + Bit(a \cap b, k) = Bit(a \cup b, k) + Bit({}, k)
    BY <1>3 DEF Bit, Xor
  <2>2. Bits("xor") + Bits("and") = Bits("or") + 0
    BY <1>4, <1>5, <2>1, Balanced
  <2>. QED  BY <1>1, <1>2, <1>6, <2>2
<1>8. Bits("xor") + Bits("xnor") = Size - 1
  <2>1. Bits("xnor") = Size - 1 - Bits("xor")
    BY <1>1, <1>5, NotExact
  <2>. QED  BY <1>1, <1>2, <2>1
<1>9. Bits("andn") + Bits("and") = A
  <2>1. (a \ b) \cap (a \cap b) = {} /\ (a \ b) \cup (a \cap b) = a
    OBVIOUS
  <2>. QED  BY <1>1, <1>5, <2>1, DisjointUnion
<1>10. Bits("orn") - Bits("and") = Size - 1 - B
  <2>1. Number(a \cup Not(b)) + Number(b) = Number(a \cap b) + Number(BitIndices)
    BY UnionAndIntersection
  <2>2. Bits("orn") + B = Bits("and") + (Size - 1)
    BY <1>1, <1>4, <1>5, <2>1
  <2>. QED  BY <1>1, <1>2, <2>2
<1>11. Bits("pack") = (A % 2 ^ (2 * Byte)) + 2 ^ (2 * Byte) * (B % 2 ^ (2 * Byte))
  <2>. DEFINE h == 2 * Byte
  <2>1. h \in 0 .. Width /\ Width - h = h /\ h \in Nat
    BY Quarters
  <2>2. Low(a, h) \cap Left(b, h) = {}
    BY <2>1 DEF Low, Left, Operands, Words, BitIndices
  <2>. HIDE DEF h
  <2>3. Number(Low(a, h)) = A % 2 ^ h
    BY <1>1, <2>1, LowExact
  <2>4. Number(Left(b, h)) = 2 ^ h * (B % 2 ^ h)
    BY <1>1, <2>1, LeftExact, RightExact
  <2>. QED  BY <1>5, <2>2, <2>3, <2>4, DisjointUnion DEF h
<1>12. Bits("packh") = (A % 2 ^ Byte) + 2 ^ Byte * (B % 2 ^ Byte)
  <2>. DEFINE low == Low(b, Byte)
  <2>1. /\ Byte \in 0 .. Width /\ Width - Byte \in 0 .. Width /\ Byte \in Nat
        /\ Byte <= Width - Byte
    BY Quarters
  <2>2. Low(a, Byte) \cap Left(low, Byte) = {}
    BY <2>1 DEF Low, Left, Operands, Words, BitIndices
  <2>3. low \in Words /\ Number(low) = B % 2 ^ Byte /\ Number(Low(a, Byte)) = A % 2 ^ Byte
    BY <1>1, <2>1, LowExact
  <2>4. low \in SUBSET Nat /\ low \subseteq 0 .. Width - Byte - 1
    BY <2>1, Quarters DEF Low, Words, Operands, BitIndices
  <2>. HIDE DEF low
  <2>5. Value(low, Width - Byte) = Number(low)
    BY <2>1, <2>4, ValueTop
  <2>6. Number(Left(low, Byte)) = 2 ^ Byte * (B % 2 ^ Byte)
    BY <2>1, <2>3, <2>5, LeftExact
  <2>. QED  BY <1>5, <2>2, <2>3, <2>6, DisjointUnion DEF low
<1>. QED  BY <1>6, <1>7, <1>8, <1>9, <1>10, <1>11, <1>12 DEF BitwiseExact

-----------------------------------------------------------------------------
(* Products                                                                *)

\* The quotient of a number between two multiples.
LEMMA QuotientBetween ==
  ASSUME NEW n \in Int, NEW d \in Nat \ {0}, NEW low \in Int, NEW high \in Int,
         d * low <= n, n < d * high
  PROVE  n \div d \in low .. high - 1
<1>. DEFINE q == n \div d
            r == n % d
<1>1. q \in Int /\ r \in 0 .. d - 1 /\ n = d * q + r
  BY Division
<1>. HIDE DEF q, r
<1>2. ASSUME NEW x \in Int, NEW y \in Int, x < y PROVE d * x + d <= d * y
  <2>1. d * (x + 1) <= d * y /\ d * (x + 1) = d * x + d
    BY <1>2
  <2>. QED  BY <2>1
<1>3. ~(q < low)
  BY <1>1, <1>2
<1>4. ~(high <= q)
  <2>1. high <= q => d * high <= d * q
    BY <1>1
  <2>. QED  BY <1>1, <2>1
<1>5. q \in low .. high - 1
  BY <1>1, <1>3, <1>4
<1>. QED  BY <1>5 DEF q

\* A number in range is the signed value of its word.
LEMMA SignedWord ==
  ASSUME NEW n \in -(2 ^ (Width - 1)) .. 2 ^ (Width - 1) - 1
  PROVE  Signed(Word(n)) = n
<1>. DEFINE h == 2 ^ (Width - 1)
            S == 2 ^ Width
            w == Word(n)
<1>1. h \in Nat \ {0} /\ S = 2 * h
  <2>1. {} \in Words
    BY DEF Words
  <2>. QED  BY <2>1, SignFlipped
<1>2. n \in Int /\ n \in -h .. h - 1
  BY <1>1
<1>3. w \in Words /\ Number(w) = n % S
  BY <1>2, WordExact
<1>4. Signed(w) \in -h .. h - 1 /\ (Signed(w) = Number(w) \/ Signed(w) = Number(w) - S)
  BY <1>3, SignedBound
<1>. HIDE DEF w, S, h
<1>5. CASE n >= 0
  <2>1. n \in 0 .. S - 1
    BY <1>1, <1>2, <1>5
  <2>2. n % S = n
    BY <1>1, <2>1, SmallRemainder
  <2>. QED  BY <1>1, <1>2, <1>3, <1>4, <1>5, <2>2 DEF w
<1>6. CASE n < 0
  <2>1. n + S \in 0 .. S - 1 /\ S \in Nat \ {0}
    BY <1>1, <1>2, <1>6
  <2>2. (n + S) % S = n + S
    BY <2>1, SmallRemainder
  <2>3. (n + S) % S = n % S
    BY <1>2, <2>1, Wraps
  <2>. QED  BY <1>1, <1>2, <1>3, <1>4, <1>6, <2>2, <2>3 DEF w
<1>. QED  BY <1>2, <1>5, <1>6

\* The product of two words is its high half and its low half, whichever
\* operands are signed.
LEMMA ProductsAreExact ==
  ASSUME Operands
  PROVE  ProductsExact
<1>. DEFINE h == 2 ^ (Width - 1)
<1>1. /\ a \in Words /\ b \in Words /\ Size = 2 * h /\ h \in Nat \ {0} /\ Size = 2 ^ Width
      /\ A \in 0 .. Size - 1 /\ B \in 0 .. Size - 1 /\ Size \in Nat \ {0}
      /\ SA \in -h .. h - 1 /\ (SA = A \/ SA = A - Size)
      /\ SB \in -h .. h - 1 /\ (SB = B \/ SB = B - Size)
  BY OperandNumbers, SignFlipped, SignedBound DEF Operands, SA, SB, Size, A, B
<1>. DEFINE low == Number(MulDiv("mul", a, b))
<1>2. A * B \in Int /\ SA * B \in Int /\ SA * SB \in Int /\ A \in Int /\ B \in Int
  BY <1>1
<1>3. low = (A * B) % Size
  <2>1. MulDiv("mul", a, b) = Word(A * B)
    BY DEF MulDiv, A, B
  <2>. QED  BY <1>1, <1>2, <2>1, WordExact
<1>. HIDE DEF low, h
<1>4. Number(MulDiv("mulhu", a, b)) * Size + low = A * B
  <2>. DEFINE P == A * B
              q == P \div Size
  <2>1. MulDiv("mulhu", a, b) = Word(q)
    BY DEF MulDiv, High, A, B, Size
  <2>2. Size * 0 <= P /\ P < Size * Size /\ P \in Int
    <3>1. ASSUME NEW s \in Nat \ {0}, NEW x \in 0 .. s - 1, NEW y \in 0 .. s - 1
          PROVE  0 <= x * y /\ x * y < s * s
      <4>1. 0 <= x * y /\ x * y <= x * s /\ x * s < s * s
        BY <3>1
      <4>. QED  BY <4>1
    <3>. QED  BY <1>1, <3>1
  <2>. HIDE DEF P
  <2>0. Size \in Nat \ {0} /\ Size \in Int /\ 0 \in Int /\ P \in Int
    BY <1>1, <2>2
  <2>3. q \in 0 .. Size - 1
    BY <2>0, <2>2, QuotientBetween, Zenon
  <2>4. P = Size * q + (P % Size) /\ (P % Size) \in Int
    BY <2>0, Division
  <2>. HIDE DEF q
  <2>5. Number(Word(q)) = q % Size /\ q % Size = q
    BY <1>1, <2>3, WordExact, SmallRemainder
  <2>6. low = P % Size /\ q * Size = Size * q
    BY <1>1, <1>3, <2>3 DEF P
  <2>7. q * Size + low = P
    BY <1>1, <2>3, <2>4, <2>6
  <2>. QED  BY <2>1, <2>5, <2>7 DEF P
<1>5. ASSUME NEW P \in Int, Size * (-h) <= P, P < Size * h, P % Size = low
      PROVE  Signed(High(P)) * Size + low = P
  <2>. DEFINE q == P \div Size
  <2>1. High(P) = Word(q)
    BY DEF High, Size
  <2>0. Size \in Nat \ {0} /\ h \in Int /\ -h \in Int
    BY <1>1
  <2>2. q \in -h .. h - 1
    BY <1>5, <2>0, QuotientBetween, Zenon
  <2>3. P = Size * q + (P % Size) /\ (P % Size) \in Int
    BY <2>0, Division
  <2>. HIDE DEF q
  <2>4. Signed(Word(q)) = q
    BY <2>2, SignedWord DEF h
  <2>5. q * Size = Size * q /\ q \in Int
    BY <1>1, <2>2
  <2>. QED  BY <1>1, <1>5, <2>1, <2>3, <2>4, <2>5
<1>6. ASSUME NEW s \in Nat \ {0}, NEW g \in Nat \ {0}, s = 2 * g,
             NEW x \in -g .. g - 1, NEW y \in -s .. s - 1
      PROVE  x * y <= s * g /\ s * (-g) <= x * y /\ (y # -s => x * y < s * g)
  <2>1. \A m \in 0 .. g, n \in 0 .. s : 0 <= m * n /\ m * n <= g * s /\ (n < s => m * n < g * s)
    <3>. SUFFICES ASSUME NEW m \in 0 .. g, NEW n \in 0 .. s
                  PROVE  0 <= m * n /\ m * n <= g * s /\ (n < s => m * n < g * s)
      OBVIOUS
    <3>1. m * n <= g * n /\ 0 <= m * n
      OBVIOUS
    <3>2. g * n <= g * s /\ (n < s => g * n < g * s)
      BY <1>6
    <3>. QED  BY <3>1, <3>2
  <2>2. s * g = g * s /\ s * (-g) = -(g * s)
    OBVIOUS
  <2>3. CASE x >= 0 /\ y >= 0
    BY <1>6, <2>1, <2>2, <2>3
  <2>4. CASE x < 0 /\ y < 0
    <3>1. x * y = (-x) * (-y) /\ -x \in 0 .. g /\ -y \in 0 .. s
      BY <1>6, <2>4
    <3>. QED  BY <1>6, <2>1, <2>2, <2>4, <3>1
  <2>5. CASE x >= 0 /\ y < 0
    <3>1. x * y = -(x * (-y)) /\ x \in 0 .. g /\ -y \in 0 .. s
      BY <1>6, <2>5
    <3>2. 0 <= x * (-y) /\ x * (-y) <= g * s /\ 0 < g * s
      BY <1>6, <2>1, <3>1
    <3>. QED  BY <2>2, <3>1, <3>2
  <2>6. CASE x < 0 /\ y >= 0
    <3>1. x * y = -((-x) * y) /\ -x \in 0 .. g /\ y \in 0 .. s
      BY <1>6, <2>6
    <3>2. 0 <= (-x) * y /\ (-x) * y <= g * s /\ 0 < g * s
      BY <1>6, <2>1, <3>1
    <3>. QED  BY <2>2, <3>1, <3>2
  <2>. QED  BY <1>6, <2>3, <2>4, <2>5, <2>6
<1>7. Signed(MulDiv("mulhsu", a, b)) * Size + low = SA * B
  <2>1. MulDiv("mulhsu", a, b) = High(SA * B)
    BY DEF MulDiv, SA, B
  <2>2. B \in -Size .. Size - 1 /\ B # -Size
    BY <1>1
  <2>3. Size * (-h) <= SA * B /\ SA * B < Size * h
    BY <1>1, <1>6, <2>2
  <2>4. (SA * B) % Size = low
    <3>1. SA * B = A * B \/ SA * B = A * B + Size * (-B)
      BY <1>1
    <3>2. (A * B + Size * (-B)) % Size = (A * B) % Size
      <4>. DEFINE m == A * B
                  q == -B
      <4>1. m \in Int /\ q \in Int
        BY <1>2
      <4>. HIDE DEF m, q
      <4>2. (m + Size * q) % Size = m % Size
        BY <1>1, <4>1, SameRemainder
      <4>. QED  BY <4>2 DEF m, q
    <3>. QED  BY <1>3, <3>1, <3>2
  <2>. QED  BY <1>2, <1>5, <2>1, <2>3, <2>4
<1>8. Signed(MulDiv("mulh", a, b)) * Size + low = SA * SB
  <2>1. MulDiv("mulh", a, b) = High(SA * SB)
    BY DEF MulDiv, SA, SB
  <2>2. SB \in -Size .. Size - 1 /\ SB # -Size /\ SA \in Int /\ SB \in Int
    BY <1>1
  <2>3. Size * (-h) <= SA * SB /\ SA * SB < Size * h
    BY <1>1, <1>6, <2>2
  <2>4. (SA * SB) % Size = low
    <3>1. PICK q \in Int : SA * SB = A * B + Size * q
      <4>1. \A s, x, y \in Int : /\ (x - s) * y = x * y + s * (-y)
                                 /\ x * (y - s) = x * y + s * (-x)
                                 /\ (x - s) * (y - s) = x * y + s * (s - x - y)
                                 /\ x * y = x * y + s * 0
        OBVIOUS
      <4>2. -A \in Int /\ -B \in Int /\ Size - A - B \in Int /\ 0 \in Int
        BY <1>1
      <4>3. \/ SA * SB = A * B + Size * 0
            \/ SA * SB = A * B + Size * (-B)
            \/ SA * SB = A * B + Size * (-A)
            \/ SA * SB = A * B + Size * (Size - A - B)
        BY <1>1, <4>1
      <4>. QED  BY <4>2, <4>3
    <3>. DEFINE m == A * B
    <3>2. m \in Int
      BY <1>2
    <3>. HIDE DEF m
    <3>3. (m + Size * q) % Size = m % Size
      BY <1>1, <3>2, SameRemainder
    <3>. QED  BY <1>3, <3>1, <3>3 DEF m
  <2>. QED  BY <1>2, <1>5, <2>1, <2>3, <2>4
<1>. QED  BY <1>4, <1>7, <1>8 DEF ProductsExact, low

-----------------------------------------------------------------------------
(* Quotients                                                               *)

\* Absolute values.
LEMMA AbsProperties ==
  ASSUME NEW n \in Int
  PROVE  /\ Abs(n) \in Nat /\ (n = Abs(n) \/ n = -Abs(n))
         /\ (n < 0 => n = -Abs(n)) /\ (n >= 0 => n = Abs(n))
         /\ Abs(n) = 0 <=> n = 0
BY DEF Abs

\* Truncated division: the remainder has the sign of the dividend, and the
\* quotient is as large as the dividend only for a divisor of one or minus one.
LEMMA Truncated ==
  ASSUME NEW x \in Int, NEW y \in Int, y # 0
  PROVE  /\ Quotient(x, y) \in Int /\ Remainder(x, y) \in Int
         /\ x = y * Quotient(x, y) + Remainder(x, y)
         /\ Abs(Remainder(x, y)) < Abs(y) /\ Abs(Remainder(x, y)) <= Abs(x)
         /\ Remainder(x, y) * x >= 0 /\ (x >= 0 => Remainder(x, y) >= 0)
         /\ (x < 0 => Remainder(x, y) <= 0)
         /\ Abs(Quotient(x, y)) <= Abs(x)
         /\ y \notin {1, -1} => 2 * Abs(Quotient(x, y)) <= Abs(x)
         /\ y = 1 => Quotient(x, y) = x
         /\ y = -1 => Quotient(x, y) = -x
<1>. DEFINE m == Abs(x)
            d == Abs(y)
            p == m \div d
            s == m % d
            q == Quotient(x, y)
            r == Remainder(x, y)
<1>1. /\ m \in Nat /\ d \in Nat \ {0}
      /\ (x < 0 => x = -m) /\ (x >= 0 => x = m) /\ (y < 0 => y = -d) /\ (y >= 0 => y = d)
  BY AbsProperties
<1>2. q = (IF (x < 0) = (y < 0) THEN p ELSE -p) /\ r = x - y * q
  BY DEF Quotient, Remainder
<1>. HIDE DEF m, d
<1>3. p \in Int /\ s \in 0 .. d - 1 /\ m = d * p + s
  <2>1. m \in Int
    BY <1>1
  <2>. QED  BY <1>1, <2>1, Division
<1>. HIDE DEF p, s, q, r
<1>4. p \in Nat /\ d * p \in Nat
  <2>1. ASSUME p <= -1 PROVE d * p <= -d
    BY <1>1, <1>3, <2>1
  <2>2. p >= 0
    BY <1>1, <1>3, <2>1
  <2>. QED  BY <1>1, <1>3, <2>2
<1>5. \A u, v \in Int : (-u) * v = -(u * v) /\ u * (-v) = -(u * v) /\ (-u) * (-v) = u * v
  OBVIOUS
<1>6. q \in Int /\ y * q = (IF x < 0 THEN -(d * p) ELSE d * p)
  <2>1. CASE x < 0 /\ y < 0
    BY <1>1, <1>2, <1>4, <1>5, <2>1
  <2>2. CASE x < 0 /\ y >= 0
    BY <1>1, <1>2, <1>4, <1>5, <2>2
  <2>3. CASE x >= 0 /\ y < 0
    BY <1>1, <1>2, <1>4, <1>5, <2>3
  <2>4. CASE x >= 0 /\ y >= 0
    BY <1>1, <1>2, <1>4, <1>5, <2>4
  <2>. QED  BY <2>1, <2>2, <2>3, <2>4
<1>7. r = (IF x < 0 THEN -s ELSE s) /\ r \in Int /\ x = y * q + r
  BY <1>1, <1>2, <1>3, <1>4, <1>6
<1>8. Abs(r) = s /\ s < d /\ s <= m
  BY <1>1, <1>3, <1>4, <1>7 DEF Abs
<1>9. r * x >= 0 /\ (x >= 0 => r >= 0) /\ (x < 0 => r <= 0)
  <2>1. r * x = s * m
    BY <1>1, <1>3, <1>5, <1>7
  <2>2. s * m >= 0
    BY <1>1, <1>3
  <2>. QED  BY <1>3, <1>7, <2>1, <2>2
<1>10. Abs(q) = p
  BY <1>2, <1>4 DEF Abs
<1>11. p <= m /\ (d >= 2 => 2 * p <= m)
  <2>1. p <= d * p /\ (d >= 2 => 2 * p <= d * p)
    BY <1>1, <1>4
  <2>. QED  BY <1>1, <1>3, <1>4, <2>1
<1>12. y \notin {1, -1} => d >= 2
  BY <1>1
<1>13. (y = 1 => q = x) /\ (y = -1 => q = -x)
  <2>1. y \in {1, -1} => d = 1
    BY <1>1
  <2>2. ASSUME d = 1 PROVE p = m
    BY <1>1, <1>3, <2>2
  <2>. QED  BY <1>1, <1>2, <2>1, <2>2
<1>14. /\ q \in Int /\ r \in Int /\ x = y * q + r /\ Abs(r) < d /\ Abs(r) <= m
       /\ r * x >= 0 /\ (x >= 0 => r >= 0) /\ (x < 0 => r <= 0)
       /\ Abs(q) <= m /\ (y \notin {1, -1} => 2 * Abs(q) <= m)
       /\ (y = 1 => q = x) /\ (y = -1 => q = -x)
  BY <1>6, <1>7, <1>8, <1>9, <1>10, <1>11, <1>12, <1>13
<1>. QED  BY <1>14 DEF q, r, m, d

\* Division is that of C++ but where C++ leaves it undefined: by zero, and
\* of the least number by minus one.
LEMMA DivisionIsExact ==
  ASSUME Operands
  PROVE  DivisionExact
<1>. DEFINE h == 2 ^ (Width - 1)
            q == Signed(MulDiv("div", a, b))
            r == Signed(MulDiv("rem", a, b))
            uq == Number(MulDiv("divu", a, b))
            ur == Number(MulDiv("remu", a, b))
<1>1. /\ a \in Words /\ b \in Words /\ Size = 2 * h /\ h \in Nat \ {0} /\ Size = 2 ^ Width
      /\ A \in 0 .. Size - 1 /\ B \in 0 .. Size - 1 /\ Size \in Nat \ {0}
      /\ SA \in -h .. h - 1 /\ SB \in -h .. h - 1 /\ SA \in Int /\ SB \in Int
      /\ A \in Int /\ B \in Int
      /\ A = Number(a) /\ B = Number(b) /\ SA = Signed(a) /\ SB = Signed(b)
  BY OperandNumbers, SignFlipped, SignedBound DEF Operands, SA, SB, Size, A, B
<1>2. /\ MulDiv("div", a, b) = div(a, b) /\ MulDiv("rem", a, b) = rem(a, b)
      /\ MulDiv("divu", a, b) = divu(a, b) /\ MulDiv("remu", a, b) = remu(a, b)
  BY DEF MulDiv
<1>3. {} \in Words /\ BitIndices \in Words /\ INT_MIN \in Words /\ Width - 1 \in BitIndices
      /\ Width \in Nat \ {0}
  BY Powers DEF Words, BitIndices, INT_MIN
<1>4. /\ Number({}) = 0 /\ Signed({}) = 0 /\ Signed(BitIndices) = -1 /\ Signed(INT_MIN) = -h
      /\ Number(BitIndices) = Size - 1
  <2>1. Number({}) = 0 /\ Number(BitIndices) = Size - 1 /\ Number(INT_MIN) = h
    BY <1>1, <1>3, Numbers DEF INT_MIN
  <2>2. Signed({}) = Number({}) - 0 /\ Signed(BitIndices) = Number(BitIndices) - Size
        /\ Signed(INT_MIN) = Number(INT_MIN) - Size
    BY <1>1, <1>3 DEF Signed, INT_MIN
  <2>. HIDE DEF h
  <2>. QED  BY <1>1, <2>1, <2>2
<1>5. CASE b = {}
  <2>1. /\ div(a, b) = BitIndices /\ rem(a, b) = a /\ divu(a, b) = BitIndices /\ remu(a, b) = a
    BY <1>5 DEF div, rem, divu, remu
  <2>2. q = -1 /\ r = SA /\ uq = Size - 1 /\ ur = A
    BY <1>1, <1>2, <1>4, <2>1
  <2>. QED  BY <1>5, <2>2 DEF DivisionExact
<1>6. CASE b # {}
  <2>1. B # 0 /\ SB # 0
    <3>1. B # 0
      BY <1>1, <1>3, <1>4, <1>6, NumberInjective
    <3>2. SB # 0
      BY <1>1, <1>3, <1>4, <1>6, SignedInjective
    <3>. QED  BY <3>1, <3>2
  <2>2. uq * B + ur = A /\ ur < B
    <3>. DEFINE p == A \div B
                s == A % B
    <3>1. B \in Nat \ {0}
      BY <1>1, <2>1
    <3>2. p \in Int /\ s \in 0 .. B - 1 /\ A = B * p + s
      BY <1>1, <3>1, Division
    <3>3. divu(a, b) = Word(p) /\ remu(a, b) = Word(s)
      BY <1>1, <1>6 DEF divu, remu
    <3>. HIDE DEF p, s
    <3>4. p \in 0 .. Size - 1 /\ s \in 0 .. Size - 1
      <4>1. p <= -1 => B * p <= -B
        BY <3>1, <3>2
      <4>2. p >= 0
        BY <1>1, <3>1, <3>2, <4>1
      <4>3. p <= B * p
        BY <3>1, <3>2, <4>2
      <4>4. B * p \in Nat
        BY <3>1, <3>2, <4>2
      <4>. QED  BY <1>1, <3>1, <3>2, <4>2, <4>3, <4>4
    <3>5. uq = p /\ ur = s
      <4>1. Number(Word(p)) = p % Size /\ Number(Word(s)) = s % Size
        BY <1>1, <3>2, <3>4, WordExact
      <4>2. p % Size = p /\ s % Size = s
        BY <1>1, <3>4, SmallRemainder
      <4>. QED  BY <1>2, <3>3, <4>1, <4>2
    <3>6. p * B = B * p
      BY <3>1, <3>2
    <3>. HIDE DEF uq, ur
    <3>. QED  BY <3>1, <3>2, <3>5, <3>6
  <2>3. Overflows(a, b) <=> SA = -h /\ SB = -1
    <3>1. SA = -h <=> a = INT_MIN
      BY <1>1, <1>3, <1>4, SignedInjective
    <3>2. SB = -1 <=> b = BitIndices
      BY <1>1, <1>3, <1>4, SignedInjective
    <3>. QED  BY <3>1, <3>2 DEF Overflows
  <2>4. Size \div 2 = h
    <3>. HIDE DEF h
    <3>. QED  BY <1>1
  <2>5. CASE Overflows(a, b)
    <3>1. div(a, b) = INT_MIN /\ rem(a, b) = {}
      BY <1>6, <2>5 DEF div, rem
    <3>2. q = SA /\ r = 0 /\ SB = -1 /\ SA = -h
      BY <1>2, <1>4, <2>3, <2>5, <3>1
    <3>3. r * SA >= 0 /\ Abs(r) < Abs(SB)
      <4>. HIDE DEF r, q, h
      <4>0. Abs(r) = 0 /\ SB = -Abs(SB) /\ Abs(SB) \in Nat
        BY <1>1, <3>2, AbsProperties
      <4>1. r * SA = 0 /\ Abs(r) = 0 /\ Abs(SB) = 1
        BY <1>1, <3>2, <4>0
      <4>. QED  BY <3>2, <4>1
    <3>4. SB = -1 /\ SA = -(Size \div 2) /\ q = SA
      BY <2>4, <3>2
    <3>. HIDE DEF q, r, uq, ur
    <3>5. uq * B + ur = A /\ ur < B /\ r * SA >= 0 /\ Abs(r) < Abs(SB)
          /\ IF SB = -1 /\ SA = -(Size \div 2) THEN q = SA ELSE q * SB + r = SA
      BY <2>2, <3>3, <3>4
    <3>. QED  BY <1>6, <3>5 DEF DivisionExact, q, r, uq, ur
  <2>6. CASE ~Overflows(a, b)
    <3>. DEFINE Q == Quotient(SA, SB)
                R == Remainder(SA, SB)
    <3>1. div(a, b) = Word(Q) /\ rem(a, b) = Word(R)
      BY <1>1, <1>6, <2>6 DEF div, rem
    <3>2. /\ Q \in Int /\ R \in Int /\ SA = SB * Q + R
          /\ Abs(R) < Abs(SB) /\ Abs(R) <= Abs(SA) /\ R * SA >= 0
          /\ (SA >= 0 => R >= 0) /\ (SA < 0 => R <= 0)
          /\ Abs(Q) <= Abs(SA) /\ (SB \notin {1, -1} => 2 * Abs(Q) <= Abs(SA))
          /\ (SB = 1 => Q = SA) /\ (SB = -1 => Q = -SA)
      BY <1>1, <2>1, Truncated
    <3>. HIDE DEF Q, R, h
    <3>3. Q \in -h .. h - 1
      <4>1. CASE SB = 1
        BY <1>1, <3>2, <4>1
      <4>2. CASE SB = -1
        BY <1>1, <2>3, <2>6, <3>2, <4>2
      <4>3. CASE SB \notin {1, -1}
        <5>1. 2 * Abs(Q) <= h /\ Abs(Q) \in Nat /\ (Q = Abs(Q) \/ Q = -Abs(Q))
          <6>1. Abs(SA) <= h
            BY <1>1 DEF Abs
          <6>2. Abs(Q) \in Nat /\ (Q = Abs(Q) \/ Q = -Abs(Q)) /\ Abs(SA) \in Nat
            BY <1>1, <3>2, AbsProperties
          <6>. QED  BY <1>1, <3>2, <4>3, <6>1, <6>2
        <5>. QED  BY <1>1, <3>2, <5>1
      <4>. QED  BY <4>1, <4>2, <4>3
    <3>4. R \in -h .. h - 1
      <4>1. Abs(R) \in Nat /\ Abs(SA) \in Nat
        BY <1>1, <3>2, AbsProperties
      <4>2. CASE SA >= 0
        <5>1. R = Abs(R) /\ SA = Abs(SA)
          BY <1>1, <3>2, <4>2, AbsProperties
        <5>. QED  BY <1>1, <3>2, <4>1, <4>2, <5>1
      <4>3. CASE SA < 0
        <5>1. SA = -Abs(SA)
          BY <1>1, <4>3, AbsProperties
        <5>2. R = -Abs(R)
          BY <3>2, <4>3, AbsProperties
        <5>. QED  BY <1>1, <3>2, <4>1, <4>3, <5>1, <5>2
      <4>. QED  BY <1>1, <4>2, <4>3
    <3>5. q = Q /\ r = R
      <4>1. Signed(Word(Q)) = Q /\ Signed(Word(R)) = R
        BY <3>3, <3>4, SignedWord DEF h
      <4>. QED  BY <1>2, <3>1, <4>1
    <3>6. Q * SB + R = SA
      <4>1. Q * SB = SB * Q
        BY <1>1, <3>2
      <4>. QED  BY <3>2, <4>1
    <3>7. ~(SB = -1 /\ SA = -(Size \div 2))
      BY <2>3, <2>4, <2>6
    <3>. HIDE DEF q, r, uq, ur
    <3>8. uq * B + ur = A /\ ur < B /\ r * SA >= 0 /\ Abs(r) < Abs(SB)
          /\ IF SB = -1 /\ SA = -(Size \div 2) THEN q = SA ELSE q * SB + r = SA
      BY <2>2, <3>2, <3>5, <3>6, <3>7
    <3>. QED  BY <1>6, <3>8 DEF DivisionExact, q, r, uq, ur
  <2>. QED  BY <2>5, <2>6
<1>. QED  BY <1>5, <1>6

-----------------------------------------------------------------------------
(* Products without carries                                                *)

\* The terms of one digit, counted by the digits of either factor.
LEMMA Pairs ==
  ASSUME NEW x \in Words, NEW y \in Words, NEW n \in Int
  PROVE  Cardinality({i \in x : n - i \in y}) = Cardinality({i \in y : n - i \in x})
<1>. DEFINE P == {i \in x : n - i \in y}
            Q == {i \in y : n - i \in x}
            f == [i \in P |-> n - i]
<1>1. x \subseteq Int /\ y \subseteq Int /\ IsFiniteSet(BitIndices)
  BY Powers, FS_Interval DEF Words, BitIndices
<1>2. IsFiniteSet(P)
  BY <1>1, FS_Subset DEF Words
<1>3. f \in [P -> Q]
  <2>1. \A i \in P : n - i \in y /\ n - (n - i) = i
    BY <1>1
  <2>. QED  BY <2>1
<1>4. \A i, j \in P : f[i] = f[j] => i = j
  BY <1>1
<1>5. \A j \in Q : \E i \in P : f[i] = j
  <2>. SUFFICES ASSUME NEW j \in Q PROVE \E i \in P : f[i] = j
    OBVIOUS
  <2>1. n - j \in P /\ n - (n - j) = j
    BY <1>1
  <2>. QED  BY <2>1
<1>6. f \in Bijection(P, Q)
  <2>. HIDE DEF P, Q, f
  <2>. QED  BY <1>3, <1>4, <1>5 DEF Bijection, Injection, Surjection, IsInjective
<1>. HIDE DEF P, Q, f
<1>7. Cardinality(Q) = Cardinality(P)
  BY <1>2, <1>6, FS_Bijection DEF ExistsBijection
<1>. QED  BY <1>7 DEF P, Q

\* The low part, the high part and the reversed one are parts of the same
\* product of polynomials.
LEMMA CarrylessIsExact ==
  ASSUME Operands
  PROVE  CarrylessExact
<1>1. Width \in Nat \ {0} /\ a \in Words /\ b \in Words /\ a \subseteq BitIndices /\ b \subseteq BitIndices
  BY Powers DEF Operands, Words
<1>2. \A n \in Int : Cardinality({i \in a : n - i \in b}) = Cardinality({i \in b : n - i \in a})
  BY <1>1, Pairs
<1>. DEFINE Odd(n) == Cardinality({i \in b : n - i \in a}) % 2 = 1
<1>3. \A k : k \in Polynomial <=> k \in 0 .. 2 * Width - 2 /\ Odd(k)
  BY <1>1, <1>2 DEF Polynomial
<1>4. clmul(a, b) = Polynomial \cap BitIndices
  <2>1. ASSUME NEW k \in BitIndices
        PROVE  {i \in DOMAIN [i \in b |-> Left(a, i)] : k \in [j \in b |-> Left(a, j)][i]}
                 = {i \in b : k - i \in a}
    <3>1. \A i \in b : k \in Left(a, i) <=> k - i \in a
      BY <1>1 DEF Left, BitIndices
    <3>. QED  BY <3>1
  <2>2. clmul(a, b) = {k \in BitIndices : Odd(k)}
    BY <2>1 DEF clmul, CarrylessSum
  <2>3. BitIndices \subseteq 0 .. 2 * Width - 2
    BY <1>1 DEF BitIndices
  <2>. HIDE DEF Odd
  <2>. QED  BY <1>3, <2>2, <2>3
<1>5. clmulr(a, b) = {k - Width + 1 : k \in {j \in Polynomial : j >= Width - 1}}
  <2>1. ASSUME NEW k \in BitIndices
        PROVE  {i \in DOMAIN [i \in b |-> Right(a, Width - 1 - i)] : k \in [j \in b |-> Right(a, Width - 1 - j)][i]}
                 = {i \in b : (k + Width - 1) - i \in a}
    <3>1. ASSUME NEW i \in b PROVE k \in Right(a, Width - 1 - i) <=> (k + Width - 1) - i \in a
      BY <1>1 DEF Right, BitIndices
    <3>. QED  BY <3>1
  <2>2. clmulr(a, b) = {k \in BitIndices : Odd(k + Width - 1)}
    BY <2>1 DEF clmulr, CarrylessSum
  <2>. HIDE DEF Odd
  <2>3. ASSUME NEW k, k \in BitIndices, Odd(k + Width - 1)
        PROVE  k \in {m - Width + 1 : m \in {j \in Polynomial : j >= Width - 1}}
    <3>1. k + Width - 1 \in Polynomial /\ k + Width - 1 >= Width - 1 /\ (k + Width - 1) - Width + 1 = k
      BY <1>1, <1>3, <2>3 DEF BitIndices
    <3>. QED  BY <3>1
  <2>4. ASSUME NEW m \in Polynomial, m >= Width - 1
        PROVE  m - Width + 1 \in BitIndices /\ Odd((m - Width + 1) + Width - 1)
    <3>1. m \in 0 .. 2 * Width - 2 /\ Odd(m) /\ (m - Width + 1) + Width - 1 = m
      BY <1>1, <1>3
    <3>. QED  BY <1>1, <2>4, <3>1 DEF BitIndices
  <2>. QED  BY <2>2, <2>3, <2>4
<1>6. clmulh(a, b) = {k - Width : k \in {j \in Polynomial : j >= Width}}
  <2>1. ASSUME NEW k \in BitIndices
        PROVE  {i \in DOMAIN [i \in b \ {0} |-> Right(a, Width - i)] :
                   k \in [j \in b \ {0} |-> Right(a, Width - j)][i]}
                 = {i \in b : (k + Width) - i \in a}
    <3>1. ASSUME NEW i \in b PROVE k \in Right(a, Width - i) <=> (k + Width) - i \in a
      <4>1. /\ i \in Nat /\ k \in Nat /\ Width - i \in Int /\ k + (Width - i) >= Width - i
            /\ k + (Width - i) = (k + Width) - i /\ \A j \in a : j \in Nat
        BY <1>1 DEF BitIndices
      <4>2. \A j \in a : k = j - (Width - i) <=> j = k + (Width - i)
        BY <4>1
      <4>. QED  BY <4>1, <4>2 DEF Right
    <3>2. (k + Width) - 0 \notin a
      BY <1>1 DEF BitIndices
    <3>3. \A i \in b : (k + Width) - i \in a => i \in b \ {0}
      BY <3>2
    <3>. HIDE DEF Odd
    <3>. QED  BY <3>1, <3>3
  <2>2. clmulh(a, b) = {k \in BitIndices : Odd(k + Width)}
    BY <2>1 DEF clmulh, CarrylessSum
  <2>2a. ~Odd(2 * Width - 1)
    <3>1. ASSUME NEW i \in b PROVE (2 * Width - 1) - i \notin a
      BY <1>1 DEF BitIndices
    <3>2. {i \in b : (2 * Width - 1) - i \in a} = {}
      BY <3>1
    <3>3. Cardinality({i \in b : (2 * Width - 1) - i \in a}) = 0
      BY <3>2, FS_EmptySet
    <3>4. 0 % 2 = 0
      OBVIOUS
    <3>. QED  BY <3>3, <3>4
  <2>. HIDE DEF Odd
  <2>3. ASSUME NEW k, k \in BitIndices, Odd(k + Width)
        PROVE  k \in {m - Width : m \in {j \in Polynomial : j >= Width}}
    <3>1. k + Width # 2 * Width - 1
      BY <2>2a, <2>3
    <3>2. k + Width \in Polynomial /\ k + Width >= Width /\ (k + Width) - Width = k
      BY <1>1, <1>3, <2>3, <3>1 DEF BitIndices
    <3>. QED  BY <3>2
  <2>4. ASSUME NEW m \in Polynomial, m >= Width
        PROVE  m - Width \in BitIndices /\ Odd((m - Width) + Width)
    <3>1. m \in 0 .. 2 * Width - 2 /\ Odd(m) /\ (m - Width) + Width = m
      BY <1>1, <1>3
    <3>. QED  BY <1>1, <2>4, <3>1 DEF BitIndices
  <2>. QED  BY <2>2, <2>3, <2>4
<1>. QED  BY <1>4, <1>5, <1>6 DEF CarrylessExact

-----------------------------------------------------------------------------
(* Shifts and rotations                                                    *)

\* The numbers of full words: the low bits, and the high ones.
LEMMA FullParts ==
  ASSUME NEW n \in 0 .. Width
  PROVE  /\ Number(0 .. n - 1) = 2 ^ n - 1 /\ Number(n .. Width - 1) = 2 ^ Width - 2 ^ n
         /\ 2 ^ n \in Nat \ {0}
<1>. DEFINE low == 0 .. n - 1
            high == n .. Width - 1
<1>1. /\ Width \in Nat /\ n \in Nat /\ n \in 0 .. 2 * Width /\ low \in SUBSET Nat
      /\ \A k \in 0 .. n - 1 : k \in low <=> k \in BitIndices
      /\ low \cap high = {} /\ low \cup high = BitIndices
  BY Powers DEF BitIndices
<1>. HIDE DEF low, high
<1>2. Number(low) = 2 ^ n - 1
  <2>1. Number(low) = Value(low, n)
    BY <1>1, ValueTop DEF low
  <2>2. Value(low, n) = Value(BitIndices, n)
    BY <1>1, ValueAgree
  <2>. QED  BY <2>1, <2>2, FullValue
<1>3. Number(BitIndices) = Number(low) + Number(high)
  BY <1>1, DisjointUnion
<1>4. Number(BitIndices) = 2 ^ Width - 1 /\ 2 ^ Width \in Nat /\ 2 ^ n \in Nat \ {0} /\ Number(high) \in Nat
  BY <1>1, Numbers, NumberBound, Powers
<1>5. Number(high) = 2 ^ Width - 2 ^ n
  BY <1>2, <1>3, <1>4
<1>. QED  BY <1>2, <1>4, <1>5 DEF low, high

\* An arithmetic shift to the right divides the signed number.
LEMMA ArithmeticExactly ==
  ASSUME NEW w \in Words, NEW s \in 0 .. Width - 1
  PROVE  Signed(Arithmetic(w, s)) = Signed(w) \div 2 ^ s
<1>. DEFINE t == Width - 1
            v == Right(w, s)
            P == 2 ^ s
            N == Number(w)
            q == N \div P
            r == N % P
<1>1. /\ Width \in Nat \ {0} /\ s \in 0 .. Width /\ s \in 0 .. 2 * Width /\ Width - s \in 0 .. Width
      /\ t \in Nat /\ w \subseteq 0 .. t /\ Width - s \in 0 .. 2 * Width - s /\ s + (Width - s) = Width
  BY Powers DEF Words, BitIndices
<1>2. P \in Nat \ {0} /\ N \in Nat /\ N \in Int
  BY <1>1, Powers, NumberBound
<1>3. v \in Words /\ Number(v) = q
  BY <1>1, RightExact
<1>4. q \in Int /\ r \in 0 .. P - 1 /\ N = P * q + r
  <2>. HIDE DEF N, P
  <2>. QED  BY <1>2, Division
<1>5. CASE t \in w
  <2>. DEFINE T == Width - s .. t
  <2>1. /\ Arithmetic(w, s) = v \cup T /\ v \cap T = {}
    BY <1>1, <1>5 DEF Arithmetic, Right
  <2>2. t \in v \cup T
    <3>1. CASE s = 0
      <4>1. t - 0 = t /\ t >= 0
        BY <1>1
      <4>. QED  BY <1>5, <3>1, <4>1 DEF Right
    <3>2. CASE s # 0
      BY <1>1, <3>2
    <3>. QED  BY <3>1, <3>2
  <2>3. Number(T) = 2 ^ Width - 2 ^ (Width - s) /\ 2 ^ (Width - s) \in Nat
    BY <1>1, FullParts
  <2>. DEFINE u == v \cup T
  <2>. HIDE DEF T, v, q
  <2>4. Number(u) = q + (2 ^ Width - 2 ^ (Width - s))
    BY <1>3, <2>1, <2>3, DisjointUnion
  <2>5. Signed(u) = Number(u) - 2 ^ Width
    BY <2>2 DEF Signed
  <2>6. Signed(u) = q - 2 ^ (Width - s)
    BY <1>4, <2>3, <2>4, <2>5, NumberBound
  <2>7. Signed(w) = N - 2 ^ Width
    BY <1>5 DEF Signed
  <2>8. 2 ^ Width = P * 2 ^ (Width - s)
    BY <1>1, PowerSum
  <2>. DEFINE M == 2 ^ (Width - s)
  <2>9. Signed(w) = P * (q - M) + r /\ q - M \in Int /\ Signed(w) \in Int
    <3>. HIDE DEF M, P, N, r
    <3>1. M \in Nat
      BY <2>3 DEF M
    <3>2. P * (q - M) = P * q - P * M
      BY <1>2, <1>4, <3>1
    <3>3. P * q \in Int /\ P * M \in Int
      BY <1>2, <1>4, <3>1
    <3>. QED  BY <1>2, <1>4, <2>7, <2>8, <3>1, <3>2, <3>3 DEF M
  <2>10. Signed(w) \div P = q - M
    <3>. HIDE DEF M, P, r
    <3>. QED  BY <1>2, <1>4, <2>9, DivisionUnique
  <2>. QED  BY <2>1, <2>6, <2>10
<1>6. CASE t \notin w
  <2>1. Arithmetic(w, s) = v
    BY <1>6 DEF Arithmetic
  <2>2. t \notin v
    BY <1>1, <1>6 DEF Right
  <2>3. Signed(v) = Number(v) - 0 /\ Signed(w) = N - 0
    BY <1>6, <2>2 DEF Signed
  <2>4. Signed(v) = q /\ Signed(w) = N
    <3>. HIDE DEF q, v, N
    <3>. QED  BY <1>2, <1>3, <1>4, <2>3
  <2>. QED  BY <2>1, <2>4
<1>. QED  BY <1>5, <1>6

\* The bits of a rotation by a proper distance.
LEMMA RotatedBits ==
  ASSUME NEW w \in Words, NEW s \in 1 .. Width - 1, NEW k \in BitIndices
  PROVE  k \in Rotated(w, s) <=> IF k >= s THEN k - s \in w ELSE k + (Width - s) \in w
<1>1. /\ Width \in Nat /\ s \in Nat /\ Width - s \in 1 .. Width - 1 /\ k \in Nat /\ k < Width
      /\ \A j \in w : j \in Nat /\ j < Width
  BY Powers DEF Words, BitIndices
<1>2. (Width - s) % Width = Width - s
  <2>1. Width \in Nat \ {0} /\ Width - s \in 0 .. Width - 1
    BY <1>1
  <2>. QED  BY <2>1, SmallRemainder
<1>3. k \in Left(w, s) <=> k - s \in w
  <2>1. \A j \in w : j + s = k <=> j = k - s
    BY <1>1
  <2>. QED  BY <2>1 DEF Left
<1>4. k \in Right(w, Width - s) <=> k + (Width - s) \in w
  <2>1. \A j \in w : k = j - (Width - s) <=> j = k + (Width - s)
    BY <1>1
  <2>2. k + (Width - s) >= Width - s
    BY <1>1
  <2>. QED  BY <2>1, <2>2 DEF Right
<1>5. k \in Rotated(w, s) <=> k - s \in w \/ k + (Width - s) \in w
  BY <1>2, <1>3, <1>4 DEF Rotated
<1>6. (k >= s => k + (Width - s) \notin w) /\ (~(k >= s) => k - s \notin w)
  BY <1>1
<1>. QED  BY <1>5, <1>6

\* By zero nothing moves.
LEMMA NotRotated ==
  ASSUME NEW w \in Words
  PROVE  Rotated(w, 0) = w /\ Rotated(w, (Width - 0) % Width) = w
<1>1. Width \in Nat \ {0} /\ w \subseteq BitIndices /\ \A j \in w : j \in Nat
  BY Powers DEF Words, BitIndices
<1>2. (Width - 0) % Width = 0
  <2>1. Width - 0 = Width * 1 + 0 /\ Width - 0 \in Int /\ 0 \in 0 .. Width - 1 /\ 1 \in Int
    BY <1>1
  <2>. QED  BY <1>1, <2>1, DivisionUnique
<1>3. Left(w, 0) = w
  <2>1. \A j \in w : j + 0 = j
    BY <1>1
  <2>. QED  BY <1>1, <2>1 DEF Left
<1>4. Right(w, 0) = w
  <2>1. \A j \in w : j - 0 = j /\ j >= 0
    BY <1>1
  <2>. QED  BY <1>1, <2>1 DEF Right
<1>. QED  BY <1>2, <1>3, <1>4 DEF Rotated

\* A rotation and its opposite.
LEMMA RotationsReturn ==
  ASSUME NEW w \in Words, NEW s \in 0 .. Width - 1
  PROVE  Rotated(Rotated(w, s), (Width - s) % Width) = w
<1>0. Width \in Nat \ {0} /\ s \in Nat
  BY Powers
<1>1. CASE s = 0
  BY <1>1, NotRotated
<1>2. CASE s # 0
  <2>. DEFINE u == Rotated(w, s)
              z == Width - s
  <2>1. s \in 1 .. Width - 1 /\ z \in 1 .. Width - 1 /\ z \in 0 .. Width - 1 /\ Width - z = s
    BY <1>0, <1>2
  <2>2. z % Width = z
    <3>. HIDE DEF z
    <3>. QED  BY <1>0, <2>1, SmallRemainder
  <2>3. (Width - z) % Width = s /\ z % Width = z
    <3>1. s % Width = s
      BY <1>0, SmallRemainder
    <3>. QED  BY <2>1, <2>2, <3>1
  <2>4. u \in Words
    BY <1>0, <2>1, <2>2 DEF Rotated, Left, Right, Words, BitIndices
  <2>5. ASSUME NEW k \in BitIndices PROVE k \in Rotated(u, z) <=> k \in w
    <3>. HIDE DEF u, z
    <3>0. k \in Nat /\ k < Width
      BY <1>0 DEF BitIndices
    <3>1. k \in Rotated(u, z) <=> IF k >= z THEN k - z \in u ELSE k + s \in u
      BY <2>1, <2>4, RotatedBits
    <3>2. CASE k >= z
      <4>1. k - z \in BitIndices /\ ~(k - z >= s) /\ (k - z) + (Width - s) = k
        BY <1>0, <2>1, <3>0, <3>2 DEF BitIndices, z
      <4>2. k - z \in u <=> k \in w
        BY <2>1, <4>1, RotatedBits DEF u
      <4>. QED  BY <3>1, <3>2, <4>2
    <3>3. CASE ~(k >= z)
      <4>1. k + s \in BitIndices /\ k + s >= s /\ (k + s) - s = k
        BY <1>0, <2>1, <3>0, <3>3 DEF BitIndices, z
      <4>2. k + s \in u <=> k \in w
        BY <2>1, <4>1, RotatedBits DEF u
      <4>. QED  BY <3>1, <3>3, <4>2
    <3>. QED  BY <3>2, <3>3
  <2>6. Rotated(u, z) \subseteq BitIndices /\ w \subseteq BitIndices
    BY <1>0, <2>1, <2>3, <2>4 DEF Rotated, Left, Right, Words, BitIndices
  <2>. QED  BY <2>2, <2>5, <2>6
<1>. QED  BY <1>1, <1>2

\* A rotation multiplies modulo 2^Width - 1.
LEMMA RotationMultiplies ==
  ASSUME NEW w \in Words, NEW s \in 0 .. Width - 1
  PROVE  Number(Rotated(w, s)) % (2 ^ Width - 1) = (Number(w) * 2 ^ s) % (2 ^ Width - 1)
<1>0. Width \in Nat \ {0} /\ s \in Nat /\ Number(w) \in Nat /\ 2 ^ 0 = 1
  BY Powers, NumberBound
<1>1. CASE s = 0
  <2>1. Rotated(w, s) = w /\ Number(w) * 1 = Number(w)
    BY <1>0, <1>1, NotRotated
  <2>. QED  BY <1>0, <1>1, <2>1
<1>2. CASE s # 0
  <2>. DEFINE z == Width - s
              low == Value(w, z)
              q == Number(w) \div 2 ^ z
              left == Left(w, s)
              right == Right(w, z)
              d == 2 ^ Width - 1
  <2>1. s \in 1 .. Width - 1 /\ z \in 1 .. Width - 1 /\ z \in 0 .. Width - 1 /\ s \in 0 .. Width
        /\ z \in 0 .. Width /\ z \in 0 .. 2 * Width /\ s \in 0 .. 2 * Width - z /\ z + s = Width
        /\ s \in 0 .. 2 * Width
    BY <1>0, <1>2
  <2>2. z % Width = z
    <3>. HIDE DEF z
    <3>. QED  BY <1>0, <2>1, SmallRemainder
  <2>3. Rotated(w, s) = left \cup right
    BY <2>2 DEF Rotated
  <2>4. left \cap right = {}
    BY <1>0, <2>1 DEF Left, Right, Words, BitIndices
  <2>5. Number(left) = 2 ^ s * low /\ Number(right) = q /\ low = Number(w) % 2 ^ z
    <3>. HIDE DEF z
    <3>. QED  BY <2>1, LeftExact, RightExact DEF z
  <2>6. 2 ^ Width = 2 ^ z * 2 ^ s /\ 2 ^ z \in Nat \ {0} /\ 2 ^ s \in Nat \ {0} /\ 2 <= 2 ^ Width
    <3>1. 2 ^ Width = 2 ^ z * 2 ^ s /\ 2 ^ z \in Nat \ {0} /\ 2 ^ s \in Nat \ {0}
      <4>. HIDE DEF z
      <4>. QED  BY <2>1, PowerSum, Powers
    <3>2. 2 <= 2 ^ Width
      <4>1. 2 ^ Width = 2 * 2 ^ (Width - 1) /\ 2 ^ (Width - 1) \in Nat \ {0}
        BY SignFlipped
      <4>. QED  BY <4>1
    <3>. QED  BY <3>1, <3>2
  <2>. HIDE DEF left, right, z
  <2>7. Number(w) = 2 ^ z * q + low /\ q \in Int /\ low \in Int
    <3>. DEFINE N == Number(w)
                D == 2 ^ z
    <3>1. N \in Int /\ D \in Nat \ {0}
      BY <1>0, <2>6
    <3>. HIDE DEF N, D
    <3>2. N \div D \in Int /\ N % D \in Int /\ N = D * (N \div D) + (N % D)
      BY <3>1, Division
    <3>. QED  BY <2>5, <3>2 DEF N, D
  <2>. HIDE DEF low, q
  <2>8. Number(left \cup right) = 2 ^ s * low + q
    BY <2>4, <2>5, DisjointUnion
  <2>9. ASSUME NEW P \in Nat \ {0}, NEW R \in Nat \ {0}
        PROVE  (P * q + low) * R = (R * low + q) + (P * R - 1) * q
    <3>1. \A x, y, u, v \in Int : (x * y + u) * v = (v * u + y) + (x * v - 1) * y
      <4>. SUFFICES ASSUME NEW x \in Int, NEW y \in Int, NEW u \in Int, NEW v \in Int
                    PROVE  (x * y + u) * v = (v * u + y) + (x * v - 1) * y
        OBVIOUS
      <4>1. (x * y + u) * v = x * y * v + u * v /\ (x * v - 1) * y = x * v * y - y
        OBVIOUS
      <4>2. x * y * v = x * v * y /\ u * v = v * u /\ x * v * y \in Int /\ v * u \in Int
        OBVIOUS
      <4>. QED  BY <4>1, <4>2
    <3>. QED  BY <2>7, <3>1
  <2>10. Number(w) * 2 ^ s = Number(left \cup right) + d * q
    BY <2>6, <2>7, <2>8, <2>9
  <2>11. d \in Nat \ {0} /\ Number(left \cup right) \in Int
    BY <2>6, NumberBound
  <2>. DEFINE m == Number(left \cup right)
  <2>. HIDE DEF d, m
  <2>12. (m + d * q) % d = m % d
    BY <2>7, <2>11, SameRemainder DEF m
  <2>. QED  BY <2>3, <2>10, <2>12 DEF m, d
<1>. QED  BY <1>1, <1>2

\* Shifts by the low bits of the other operand multiply and divide, and the
\* instructions on single bits reach the one it names.
LEMMA ShiftsAreExact ==
  ASSUME Operands
  PROVE  ShiftsExact
<1>. DEFINE s == B % Width
<1>1. /\ Width \in Nat \ {0} /\ a \in Words /\ A \in Nat /\ B \in Nat
      /\ A = Number(a) /\ B = Number(b) /\ Size = 2 ^ Width /\ SA = Signed(a)
  BY OperandNumbers, Powers DEF Operands, SA
<1>2. s \in 0 .. Width - 1 /\ s \in 0 .. Width /\ s \in BitIndices /\ s \in 0 .. 2 * Width
  BY <1>1 DEF BitIndices
<1>3. shift(b) = s
  BY <1>1 DEF shift
<1>. HIDE DEF s
<1>4. /\ ShiftLike("sll", a, b) = Left(a, s) /\ ShiftLike("srl", a, b) = Right(a, s)
      /\ ShiftLike("sra", a, b) = Arithmetic(a, s) /\ ShiftLike("rol", a, b) = Rotated(a, s)
      /\ \A w : ShiftLike("ror", w, b) = Rotated(w, (Width - s) % Width)
      /\ ShiftLike("bset", a, b) = a \cup {s} /\ ShiftLike("bclr", a, b) = a \ {s}
      /\ ShiftLike("binv", a, b) = Xor(a, {s}) /\ ShiftLike("bext", a, b) = Truth(s \in a)
  BY <1>3 DEF ShiftLike
<1>5. Number(Left(a, s)) = (A * 2 ^ s) % Size
  BY <1>1, <1>2, LeftExact
<1>6. Number(Right(a, s)) = A \div 2 ^ s
  BY <1>1, <1>2, RightExact
<1>7. Signed(Arithmetic(a, s)) = SA \div 2 ^ s
  BY <1>1, <1>2, ArithmeticExactly
<1>8. Number(Rotated(a, s)) % (Size - 1) = (A * 2 ^ s) % (Size - 1)
  BY <1>1, <1>2, RotationMultiplies
<1>9. Rotated(Rotated(a, s), (Width - s) % Width) = a
  BY <1>1, <1>2, RotationsReturn
<1>10. Number(a \cup {s}) - Number(a \ {s}) = 2 ^ s
  <2>1. (a \ {s}) \cap {s} = {} /\ (a \ {s}) \cup {s} = a \cup {s}
    OBVIOUS
  <2>2. Number(a \cup {s}) = Number(a \ {s}) + Number({s})
    BY <2>1, DisjointUnion
  <2>3. Number(a \ {s}) \in Nat /\ Number({s}) = 2 ^ s /\ 2 ^ s \in Nat
    BY <1>2, NumberBound, Numbers, Powers
  <2>. QED  BY <2>2, <2>3
<1>11. {Xor(a, {s}), a} = {a \cup {s}, a \ {s}}
  <2>1. CASE s \in a
    <3>1. Xor(a, {s}) = a \ {s} /\ a \cup {s} = a
      BY <2>1 DEF Xor
    <3>. QED  BY <3>1
  <2>2. CASE s \notin a
    <3>1. Xor(a, {s}) = a \cup {s} /\ a \ {s} = a
      BY <2>2 DEF Xor
    <3>. QED  BY <3>1
  <2>. QED  BY <2>1, <2>2
<1>12. Number(Truth(s \in a)) = (A \div 2 ^ s) % 2
  <2>1. s \in a <=> (A \div 2 ^ s) % 2 = 1
    BY <1>1, <1>2, BitExact
  <2>2. (A \div 2 ^ s) % 2 \in {0, 1}
    <3>1. A \div 2 ^ s \in Nat
      BY <1>6, NumberBound
    <3>. QED  BY <3>1
  <2>3. Number({}) = 0 /\ Number({0}) = 1
    <3>1. 0 \in BitIndices /\ 2 ^ 0 = 1
      BY Powers DEF BitIndices
    <3>. QED  BY <3>1, Numbers
  <2>. QED  BY <2>1, <2>2, <2>3 DEF Truth
<1>. QED  BY <1>4, <1>5, <1>6, <1>7, <1>8, <1>9, <1>10, <1>11, <1>12 DEF ShiftsExact, s

-----------------------------------------------------------------------------
(* Zeros, extensions and bytes                                             *)

\* A power of two exceeds its exponent.
LEMMA PowerExceeds ==
  \A k \in 0 .. Width : k < 2 ^ k
<1>. DEFINE T == {k \in 0 .. Width : k < 2 ^ k}
<1>1. Width \in Nat /\ Width \in 0 .. Width /\ 0 \in T
  BY Powers
<1>2. ASSUME NEW k \in 0 .. Width - 1, k \in T PROVE k + 1 \in T
  <2>1. k + 1 \in 0 .. Width /\ k \in 0 .. 2 * Width - 1 /\ k \in 0 .. 2 * Width
    BY <1>1
  <2>2. 2 ^ (k + 1) = 2 * 2 ^ k /\ 2 ^ k \in Nat \ {0} /\ k < 2 ^ k
    BY <1>2, <2>1, Powers
  <2>. QED  BY <2>1, <2>2
<1>. HIDE DEF T
<1>3. \A k \in 0 .. Width : k \in T
  BY <1>1, <1>2, Prefixes
<1>. QED  BY <1>3 DEF T

\* A count of bits fits in a word.
LEMMA CountFits ==
  ASSUME NEW n \in 0 .. Width
  PROVE  Number(Word(n)) = n
<1>1. Width \in Nat /\ Width < 2 ^ Width /\ 2 ^ Width \in Nat \ {0}
  BY PowerExceeds, NumberBound, Powers
<1>2. n \in 0 .. 2 ^ Width - 1 /\ n \in Int
  BY <1>1
<1>3. n % 2 ^ Width = n
  <2>. DEFINE D == 2 ^ Width
  <2>. HIDE DEF D
  <2>1. n % D = n
    BY <1>1, <1>2, SmallRemainder DEF D
  <2>. QED  BY <2>1 DEF D
<1>. QED  BY <1>2, <1>3, WordExact

\* Some bit is the lowest, and one is the highest.
LEMMA ExtremeBits ==
  ASSUME NEW w \in Words, w # {}
  PROVE  /\ \E k \in w : \A j \in w : j >= k
         /\ \E k \in w : \A j \in w : j <= k
<1>. DEFINE U == {Width - 1 - k : k \in w}
<1>1. Width \in Nat /\ w \subseteq Nat /\ \A k \in w : k < Width
  BY Powers DEF Words, BitIndices
<1>2. U \subseteq Nat /\ U # {}
  <2>1. \A k \in w : Width - 1 - k \in Nat
    BY <1>1
  <2>2. PICK k \in w : TRUE
    OBVIOUS
  <2>3. Width - 1 - k \in U
    OBVIOUS
  <2>. QED  BY <2>1, <2>3
<1>3. PICK k \in w : \A j \in w : <<j, k>> \notin NatLess
  BY <1>1, NatLessThanWellFounded, WFMin DEF NatLess
<1>4. ASSUME NEW j \in w PROVE j >= k
  <2>1. <<j, k>> \notin NatLess /\ j \in Nat /\ k \in Nat
    BY <1>1, <1>3
  <2>. QED  BY <2>1 DEF NatLess, OpToRel
<1>5. PICK u \in U : \A v \in U : <<v, u>> \notin NatLess
  <2>. HIDE DEF U
  <2>. QED  BY <1>2, NatLessThanWellFounded, WFMin DEF NatLess
<1>6. PICK h \in w : u = Width - 1 - h
  OBVIOUS
<1>7. ASSUME NEW j \in w PROVE j <= h
  <2>1. Width - 1 - j \in U /\ Width - 1 - j \in Nat /\ u \in Nat
    BY <1>2
  <2>2. ~(Width - 1 - j < u)
    <3>1. <<Width - 1 - j, u>> \notin NatLess
      <4>. HIDE DEF U
      <4>. QED  BY <1>5, <2>1
    <3>. QED  BY <2>1, <3>1 DEF NatLess, OpToRel
  <2>. QED  BY <1>1, <1>6, <2>1, <2>2
<1>. QED  BY <1>4, <1>7

\* Leading and trailing zeros.
LEMMA ZerosExact ==
  ASSUME NEW w \in Words
  PROVE  /\ clz(w) \in 0 .. Width /\ ctz(w) \in 0 .. Width
         /\ w = {} => clz(w) = Width /\ ctz(w) = Width
         /\ w # {} => /\ Number(w) \div 2 ^ (Width - 1 - clz(w)) = 1
                      /\ Number(w) % 2 ^ ctz(w) = 0
                      /\ (Number(w) \div 2 ^ ctz(w)) % 2 = 1
<1>1. Width \in Nat \ {0} /\ w \subseteq BitIndices /\ \A k \in w : k \in Nat /\ k < Width
  BY Powers DEF Words, BitIndices
<1>2. \A m, n \in Int : Cardinality(m .. n) = IF m > n THEN 0 ELSE n - m + 1
  BY FS_Interval
<1>3. CASE w = {}
  <2>1. {k \in BitIndices : \A j \in w : j < k} = BitIndices /\ {k \in BitIndices : \A j \in w : j > k} = BitIndices
    BY <1>3
  <2>2. Cardinality(BitIndices) = Width
    BY <1>1, <1>2 DEF BitIndices
  <2>3. clz(w) = Width /\ ctz(w) = Width
    BY <2>1, <2>2 DEF clz, ctz
  <2>. QED  BY <1>1, <1>3, <2>3
<1>4. CASE w # {}
  <2>1. PICK l \in w : \A j \in w : j >= l
    BY <1>4, ExtremeBits
  <2>2. PICK h \in w : \A j \in w : j <= h
    BY <1>4, ExtremeBits
  <2>3. l \in 0 .. Width - 1 /\ h \in 0 .. Width - 1 /\ l \in 0 .. Width /\ h \in 0 .. Width
        /\ l \in BitIndices
    BY <1>1
  <2>4. clz(w) = Width - 1 - h
    <3>1. {k \in BitIndices : \A j \in w : j < k} = h + 1 .. Width - 1
      BY <1>1, <2>2, <2>3 DEF BitIndices
    <3>2. Cardinality(h + 1 .. Width - 1) = Width - 1 - h
      <4>1. h + 1 \in Int /\ Width - 1 \in Int
        BY <1>1, <2>3
      <4>2. Cardinality(h + 1 .. Width - 1) = IF h + 1 > Width - 1 THEN 0 ELSE (Width - 1) - (h + 1) + 1
        BY <1>2, <4>1
      <4>. QED  BY <1>1, <2>3, <4>2
    <3>. QED  BY <3>1, <3>2 DEF clz
  <2>5. ctz(w) = l
    <3>1. {k \in BitIndices : \A j \in w : j > k} = 0 .. l - 1
      BY <1>1, <2>1, <2>3 DEF BitIndices
    <3>2. Cardinality(0 .. l - 1) = l
      BY <1>1, <1>2, <2>3
    <3>. QED  BY <3>1, <3>2 DEF ctz
  <2>6. Number(w) \div 2 ^ h = 1
    <3>1. Right(w, h) = {0}
      <4>1. \A j \in w : j >= h => j = h
        BY <1>1, <2>2, <2>3
      <4>2. h - h = 0 /\ h >= h
        BY <2>3
      <4>. QED  BY <4>1, <4>2 DEF Right
    <3>2. Number({0}) = 1
      <4>1. 0 \in BitIndices /\ 2 ^ 0 = 1
        BY Powers DEF BitIndices
      <4>. QED  BY <4>1, Numbers
    <3>. QED  BY <2>3, <3>1, <3>2, RightExact
  <2>7. Number(w) % 2 ^ l = 0
    <3>1. \A k \in 0 .. l - 1 : k \in w <=> k \in {}
      BY <2>1, <2>3
    <3>2. Value(w, l) = Value({}, l)
      BY <2>3, <3>1, ValueAgree
    <3>. QED  BY <2>3, <3>2, EmptyValue, RightExact
  <2>8. (Number(w) \div 2 ^ l) % 2 = 1
    BY <2>3, BitExact
  <2>9. Width - 1 - clz(w) = h /\ clz(w) \in 0 .. Width /\ ctz(w) \in 0 .. Width
    BY <1>1, <2>3, <2>4, <2>5
  <2>. QED  BY <1>4, <2>5, <2>6, <2>7, <2>8, <2>9
<1>. QED  BY <1>3, <1>4

\* The n low bits of a word, taken as signed.
LEMMA ExtendedExact ==
  ASSUME NEW w \in Words, NEW n \in 1 .. Width - 1
  PROVE  LET low == Number(w) % 2 ^ n
             half == 2 ^ (n - 1)
             extended == Signed(SignExtended(w, n))
         IN  /\ half \in Nat \ {0} /\ 2 ^ n = 2 * half /\ low \in 0 .. 2 * half - 1
             /\ extended = low - (IF low >= half THEN 2 ^ n ELSE 0)
             /\ extended \in -half .. half - 1
             /\ (extended - Number(w)) % 2 ^ n = 0
<1>. DEFINE N == Number(w)
            L == Low(w, n)
            low == N % 2 ^ n
            q == N \div 2 ^ n
            half == 2 ^ (n - 1)
            P == 2 ^ n
            e == Signed(SignExtended(w, n))
            t == Width - 1
<1>1. /\ Width \in Nat \ {0} /\ n \in 0 .. Width /\ n - 1 \in 0 .. Width - 1 /\ n - 1 \in 0 .. 2 * Width - 1
      /\ n - 1 \in 0 .. 2 * Width /\ n - 1 + 1 = n /\ n - 1 \in 0 .. Width /\ n \in Nat
  BY Powers
<1>2. half \in Nat \ {0} /\ P = 2 * half
  BY <1>1, Powers
<1>3. Number(L) = low /\ L \in Words
  BY <1>1, LowExact
<1>4. N \in Nat /\ N \in Int /\ P \in Nat \ {0}
  BY <1>2, NumberBound
<1>5. q \in Int /\ low \in 0 .. P - 1 /\ N = P * q + low
  <2>. HIDE DEF N, P
  <2>1. (N \div P) \in Int /\ (N % P) \in 0 .. P - 1 /\ N = P * (N \div P) + (N % P)
    BY <1>4, Division
  <2>. QED  BY <2>1 DEF P
<1>6. n - 1 \in w <=> low >= half
  <2>1. Value(w, n) = low
    BY <1>1, RightExact
  <2>2. Value(w, n) = Value(w, n - 1) + Bit(w, n - 1) /\ Value(w, n - 1) \in 0 .. half - 1
    BY <1>1, ValueSteps, ValueBound
  <2>. HIDE DEF low
  <2>. QED  BY <1>2, <2>1, <2>2 DEF Bit
<1>7. e = low - (IF low >= half THEN P ELSE 0)
  <2>1. CASE n - 1 \in w
    <3>. DEFINE T == n .. t
    <3>1. SignExtended(w, n) = L \cup T /\ L \cap T = {} /\ t \in L \cup T
      BY <1>1, <2>1 DEF SignExtended, Low
    <3>2. Number(T) = 2 ^ Width - P
      BY <1>1, FullParts
    <3>3. 2 ^ Width \in Nat
      BY NumberBound
    <3>. HIDE DEF L, T, low, P
    <3>4. Number(L \cup T) = low + (2 ^ Width - P)
      BY <1>3, <3>1, <3>2, DisjointUnion
    <3>5. Signed(L \cup T) = Number(L \cup T) - 2 ^ Width
      BY <3>1 DEF Signed
    <3>6. e = low - P
      BY <1>4, <1>5, <3>1, <3>3, <3>4, <3>5
    <3>. QED  BY <1>6, <2>1, <3>6
  <2>2. CASE n - 1 \notin w
    <3>1. SignExtended(w, n) = L /\ t \notin L
      BY <1>1, <2>2 DEF SignExtended, Low
    <3>2. Signed(L) = Number(L) - 0
      BY <3>1 DEF Signed
    <3>. HIDE DEF L, low
    <3>3. e = low - 0
      BY <1>3, <3>1, <3>2
    <3>. QED  BY <1>6, <2>2, <3>3
  <2>. QED  BY <2>1, <2>2
<1>. HIDE DEF e, low, q, N, P, half
<1>8. e \in -half .. half - 1
  BY <1>2, <1>5, <1>7
<1>9. (e - N) % P = 0
  <2>1. PICK p \in Int : e - N = P * p
    <3>1. e - N = P * (-q) \/ e - N = P * (-q - 1)
      <4>1. P * (-q) = -(P * q) /\ P * (-q - 1) = -(P * q) - P /\ P * q \in Int
        BY <1>4, <1>5
      <4>. QED  BY <1>4, <1>5, <1>7, <4>1
    <3>2. -q \in Int /\ -q - 1 \in Int
      BY <1>5
    <3>. QED  BY <3>1, <3>2
  <2>2. e - N \in Int /\ e - N = P * p + 0 /\ 0 \in 0 .. P - 1
    BY <1>4, <2>1
  <2>. QED  BY <1>4, <2>2, DivisionUnique
<1>. QED  BY <1>2, <1>5, <1>7, <1>8, <1>9 DEF e, low, N, P, half

\* The bits of byte k.
LEMMA ByteBits ==
  ASSUME NEW k \in 0 .. 3
  PROVE  /\ k * Byte \in 0 .. Width /\ k * Byte \in Nat
         /\ \A i \in 0 .. Byte - 1 : /\ i + k * Byte \in BitIndices
                                     /\ (i + k * Byte) \div Byte = k
                                     /\ (i + k * Byte) % Byte = i
<1>1. Byte \in Nat \ {0} /\ Width = 4 * Byte
  BY Quarters
<1>2. k * Byte \in Nat /\ k * Byte <= 3 * Byte /\ Byte * k = k * Byte
  <2>1. CASE k = 0
    BY <1>1, <2>1
  <2>2. CASE k = 1
    BY <1>1, <2>2
  <2>3. CASE k = 2
    BY <1>1, <2>3
  <2>4. CASE k = 3
    BY <1>1, <2>4
  <2>. QED  BY <2>1, <2>2, <2>3, <2>4
<1>3. ASSUME NEW i \in 0 .. Byte - 1
      PROVE  i + k * Byte \in BitIndices /\ (i + k * Byte) \div Byte = k /\ (i + k * Byte) % Byte = i
  <2>. DEFINE n == i + k * Byte
  <2>1. n \in BitIndices /\ n \in Int /\ n = Byte * k + i
    BY <1>1, <1>2 DEF BitIndices
  <2>. HIDE DEF n
  <2>2. n \div Byte = k /\ n % Byte = i
    BY <1>1, <2>1, DivisionUnique
  <2>. QED  BY <2>1, <2>2 DEF n
<1>. QED  BY <1>1, <1>2, <1>3

\* Byte k of a word, as a word and as a digit of its number.
LEMMA ByteExact ==
  ASSUME NEW w \in Words, NEW k \in 0 .. 3
  PROVE  /\ Low(Right(w, k * Byte), Byte) \in Words
         /\ Number(Low(Right(w, k * Byte), Byte)) = (Number(w) \div 2 ^ (k * Byte)) % 2 ^ Byte
         /\ \A i : i \in Low(Right(w, k * Byte), Byte) <=> i \in 0 .. Byte - 1 /\ i + k * Byte \in w
<1>1. k * Byte \in 0 .. Width /\ k * Byte \in Nat /\ Byte \in 0 .. Width /\ Byte \in Nat
  BY ByteBits, Quarters
<1>. DEFINE v == Right(w, k * Byte)
<1>2. v \in Words /\ Number(v) = Number(w) \div 2 ^ (k * Byte)
  BY <1>1, RightExact
<1>3. Low(v, Byte) \in Words /\ Number(Low(v, Byte)) = Number(v) % 2 ^ Byte
  <2>. HIDE DEF v
  <2>. QED  BY <1>1, <1>2, LowExact
<1>4. ASSUME NEW i \in 0 .. Byte - 1 PROVE i \in v <=> i + k * Byte \in w
  <2>. DEFINE s == k * Byte
  <2>1. w \subseteq Nat /\ s \in Nat /\ i \in Nat
    BY <1>1 DEF Words, BitIndices
  <2>. HIDE DEF s
  <2>2. \A j \in w : i = j - s <=> j = i + s
    BY <2>1
  <2>3. i + s >= s
    BY <2>1
  <2>4. i \in Right(w, s) <=> i + s \in w
    BY <2>2, <2>3 DEF Right
  <2>. QED  BY <2>4 DEF s
<1>. HIDE DEF v
<1>5. \A i : i \in Low(v, Byte) <=> i \in 0 .. Byte - 1 /\ i \in v
  BY DEF Low
<1>. QED  BY <1>2, <1>3, <1>4, <1>5 DEF v

\* Zbb's unary instructions: zeros before the first bit and after the last,
\* extensions of the sign, bytes in reverse, and bytes that are not zero.
LEMMA UnaryIsExact ==
  ASSUME Operands
  PROVE  UnaryExact
<1>. DEFINE byte == 2 ^ Byte
            Digit(n, k) == (n \div 2 ^ (k * Byte)) % byte
            n(op) == Number(Unary(op, a))
<1>1. /\ a \in Words /\ A = Number(a) /\ A \in Nat
      /\ Byte \in Nat \ {0} /\ Width = 4 * Byte /\ Byte \in 1 .. Width - 1 /\ 2 * Byte \in 1 .. Width - 1
      /\ Width \in Nat \ {0}
  BY OperandNumbers, Quarters DEF Operands
<1>2. /\ Unary("clz", a) = Word(clz(a)) /\ Unary("ctz", a) = Word(ctz(a))
      /\ Unary("sext.b", a) = SignExtended(a, Byte) /\ Unary("sext.h", a) = SignExtended(a, 2 * Byte)
      /\ Unary("rev8", a) = rev8(a) /\ Unary("orcb", a) = orcb(a)
  BY DEF Unary
<1>3. IF A = 0 THEN n("clz") = Width /\ n("ctz") = Width
      ELSE /\ A \div 2 ^ (Width - 1 - n("clz")) = 1
           /\ A % 2 ^ n("ctz") = 0 /\ (A \div 2 ^ n("ctz")) % 2 = 1
  <2>1. n("clz") = clz(a) /\ n("ctz") = ctz(a)
    BY <1>1, <1>2, ZerosExact, CountFits
  <2>2. A = 0 <=> a = {}
    <3>1. {} \in Words
      BY DEF Words
    <3>. QED  BY <1>1, <3>1, Numbers, NumberInjective
  <2>. HIDE DEF n
  <2>. QED  BY <1>1, <2>1, <2>2, ZerosExact
<1>4. ASSUME NEW m \in 1 .. Width - 1, NEW P, P = 2 ^ m
      PROVE  /\ (Signed(SignExtended(a, m)) - A) % P = 0
             /\ Signed(SignExtended(a, m)) \in -(P \div 2) .. (P \div 2) - 1
  <2>. DEFINE e == Signed(SignExtended(a, m))
              half == 2 ^ (m - 1)
  <2>1. half \in Nat \ {0} /\ P = 2 * half /\ e \in -half .. half - 1 /\ (e - A) % P = 0
    BY <1>1, <1>4, ExtendedExact
  <2>. HIDE DEF e, half
  <2>2. P \div 2 = half
    BY <2>1
  <2>. QED  BY <2>1, <2>2 DEF e
<1>5. 2 ^ (2 * Byte) = byte * byte
  <2>1. Byte \in 0 .. 2 * Width /\ Byte \in 0 .. 2 * Width - Byte /\ Byte + Byte = 2 * Byte
    BY <1>1
  <2>. QED  BY <2>1, PowerSum
<1>6. ASSUME NEW w \in Words, NEW k \in 0 .. 3
      PROVE  Digit(Number(w), k) = Number(Low(Right(w, k * Byte), Byte))
  BY ByteExact
<1>7. ASSUME NEW k \in 0 .. 3 PROVE Digit(n("rev8"), k) = Digit(A, 3 - k)
  <2>. DEFINE v == rev8(a)
  <2>1. 3 - k \in 0 .. 3 /\ 3 - (3 - k) = k
    OBVIOUS
  <2>2. a \subseteq BitIndices /\ BitIndices \subseteq Nat
    BY <1>1 DEF Words, BitIndices
  <2>3. ASSUME NEW j \in BitIndices
        PROVE  /\ j \div Byte \in 0 .. 3 /\ j % Byte \in 0 .. Byte - 1
               /\ j = (j % Byte) + (j \div Byte) * Byte
    <3>. DEFINE d == j \div Byte
                r == j % Byte
    <3>1. j \in Int /\ 0 <= j /\ j < 4 * Byte
      BY <1>1 DEF BitIndices
    <3>2. d \in Int /\ r \in 0 .. Byte - 1 /\ j = Byte * d + r
      BY <1>1, <3>1, Division
    <3>. HIDE DEF d, r
    <3>3. (d <= -1 => Byte * d <= -Byte) /\ (d >= 4 => Byte * d >= 4 * Byte)
      BY <1>1, <3>2
    <3>4. d \in 0 .. 3 /\ d * Byte = Byte * d
      BY <1>1, <3>1, <3>2, <3>3
    <3>5. d * Byte \in Int
      BY <1>1, <3>4
    <3>. QED  BY <1>1, <3>2, <3>4, <3>5 DEF d, r
  <2>4. v \in Words
    <3>1. ASSUME NEW j \in a PROVE (3 - (j \div Byte)) * Byte + (j % Byte) \in BitIndices
      <4>1. 3 - (j \div Byte) \in 0 .. 3 /\ j % Byte \in 0 .. Byte - 1
        BY <2>2, <2>3
      <4>. DEFINE d == 3 - (j \div Byte)
                  r == j % Byte
      <4>. HIDE DEF d, r
      <4>2. d \in 0 .. 3 /\ r \in 0 .. Byte - 1
        BY <4>1 DEF d, r
      <4>3. d * Byte + r = r + d * Byte
        BY <1>1, <4>2, ByteBits
      <4>. QED  BY <4>2, <4>3, ByteBits DEF d, r
    <3>. QED  BY <3>1 DEF rev8, Words
  <2>5. ASSUME NEW i \in 0 .. Byte - 1
        PROVE  i + k * Byte \in v <=> i + (3 - k) * Byte \in a
    <3>1. ASSUME NEW j \in a, i + k * Byte = (3 - (j \div Byte)) * Byte + (j % Byte)
          PROVE  i + (3 - k) * Byte \in a
      <4>. DEFINE d == j \div Byte
                  r == j % Byte
      <4>1. d \in 0 .. 3 /\ r \in 0 .. Byte - 1 /\ j = r + d * Byte /\ 3 - d \in 0 .. 3
        BY <2>2, <2>3
      <4>2. i + k * Byte = (3 - d) * Byte + r
        BY <3>1
      <4>. HIDE DEF d, r
      <4>3. (3 - d) * Byte + r = r + (3 - d) * Byte
        BY <1>1, <4>1, ByteBits
      <4>4. (i + k * Byte) \div Byte = k /\ (i + k * Byte) % Byte = i
        BY ByteBits
      <4>5. (r + (3 - d) * Byte) \div Byte = 3 - d /\ (r + (3 - d) * Byte) % Byte = r
        BY <4>1, ByteBits
      <4>6. k = 3 - d /\ i = r
        BY <4>2, <4>3, <4>4, <4>5
      <4>7. 3 - k = d
        BY <4>1, <4>6
      <4>. QED  BY <4>1, <4>6, <4>7
    <3>2. ASSUME i + (3 - k) * Byte \in a PROVE i + k * Byte \in v
      <4>. DEFINE j == i + (3 - k) * Byte
      <4>1. j \div Byte = 3 - k /\ j % Byte = i
        BY <2>1, ByteBits
      <4>. HIDE DEF j
      <4>2. (3 - (j \div Byte)) * Byte + (j % Byte) = k * Byte + i
        BY <2>1, <4>1
      <4>3. k * Byte + i = i + k * Byte
        BY <1>1, ByteBits
      <4>. QED  BY <3>2, <4>2, <4>3 DEF rev8, j
    <3>. QED  BY <3>1, <3>2 DEF rev8
  <2>. HIDE DEF v
  <2>6. Low(Right(v, k * Byte), Byte) = Low(Right(a, (3 - k) * Byte), Byte)
    <3>1. \A i : i \in Low(Right(v, k * Byte), Byte) <=> i \in 0 .. Byte - 1 /\ i + k * Byte \in v
      BY <2>4, ByteExact
    <3>2. \A i : i \in Low(Right(a, (3 - k) * Byte), Byte) <=> i \in 0 .. Byte - 1 /\ i + (3 - k) * Byte \in a
      BY <1>1, <2>1, ByteExact
    <3>. QED  BY <2>5, <3>1, <3>2
  <2>7. Digit(Number(v), k) = Number(Low(Right(v, k * Byte), Byte))
    BY <1>6, <2>4
  <2>8. Digit(Number(a), 3 - k) = Number(Low(Right(a, (3 - k) * Byte), Byte))
    BY <1>1, <1>6, <2>1
  <2>. QED  BY <1>1, <1>2, <2>6, <2>7, <2>8 DEF v
<1>8. ASSUME NEW k \in 0 .. 3
      PROVE  Digit(n("orcb"), k) = IF Digit(A, k) = 0 THEN 0 ELSE byte - 1
  <2>. DEFINE v == orcb(a)
              u == Low(Right(v, k * Byte), Byte)
              x == Low(Right(a, k * Byte), Byte)
  <2>1. v \in Words /\ {} \in Words
    BY DEF orcb, Words
  <2>2. ASSUME NEW i \in 0 .. Byte - 1
        PROVE  i + k * Byte \in v <=> x # {}
    <3>1. (i + k * Byte) \div Byte = k /\ i + k * Byte \in BitIndices
      BY ByteBits
    <3>2. i + k * Byte \in v <=> \E j \in a : j \div Byte = k
      BY <3>1 DEF orcb
    <3>3. \A j : j \in x <=> j \in 0 .. Byte - 1 /\ j + k * Byte \in a
      BY <1>1, ByteExact
    <3>4. ASSUME NEW j \in a, j \div Byte = k PROVE x # {}
      <4>. DEFINE r == j % Byte
      <4>1. r \in 0 .. Byte - 1 /\ j = Byte * k + r
        <5>1. j \in Int
          BY <1>1 DEF Words, BitIndices
        <5>. QED  BY <1>1, <3>4, <5>1, Division
      <4>. HIDE DEF r
      <4>2. r + k * Byte = j
        BY <1>1, <4>1
      <4>. HIDE DEF x
      <4>. QED  BY <3>3, <4>1, <4>2
    <3>5. ASSUME NEW j \in x PROVE \E m \in a : m \div Byte = k
      <4>. HIDE DEF x
      <4>1. j \in 0 .. Byte - 1 /\ j + k * Byte \in a
        BY <3>3
      <4>2. (j + k * Byte) \div Byte = k
        BY <4>1, ByteBits
      <4>. QED  BY <4>1, <4>2
    <3>. HIDE DEF x, v
    <3>. QED  BY <3>2, <3>4, <3>5
  <2>3. \A i : i \in u <=> i \in 0 .. Byte - 1 /\ i + k * Byte \in v
    <3>. HIDE DEF v
    <3>. QED  BY <2>1, ByteExact
  <2>4. Digit(Number(v), k) = Number(u) /\ Digit(Number(a), k) = Number(x)
    <3>. HIDE DEF v
    <3>. QED  BY <1>1, <1>6, <2>1
  <2>5. x \in Words
    BY <1>1, ByteExact
  <2>. HIDE DEF u, x, v
  <2>6. Number(x) = 0 <=> x = {}
    BY <2>1, <2>5, Numbers, NumberInjective
  <2>7. x = {} => u = {}
    BY <2>2, <2>3
  <2>8. x # {} => u = 0 .. Byte - 1
    BY <2>2, <2>3
  <2>9. Number({}) = 0 /\ Number(0 .. Byte - 1) = byte - 1
    <3>1. Byte \in 0 .. Width
      BY <1>1
    <3>. QED  BY <3>1, Numbers, FullParts
  <2>. HIDE DEF byte
  <2>10. Number(u) = IF Number(x) = 0 THEN 0 ELSE byte - 1
    BY <2>6, <2>7, <2>8, <2>9
  <2>. HIDE DEF Digit
  <2>. QED  BY <1>1, <1>2, <2>4, <2>10 DEF v
<1>9. /\ (Signed(Unary("sext.b", a)) - A) % byte = 0
      /\ Signed(Unary("sext.b", a)) \in -(byte \div 2) .. (byte \div 2) - 1
  BY <1>1, <1>2, <1>4
<1>10. /\ (Signed(Unary("sext.h", a)) - A) % (byte * byte) = 0
       /\ Signed(Unary("sext.h", a)) \in -((byte * byte) \div 2) .. ((byte * byte) \div 2) - 1
  <2>. DEFINE P == byte * byte
  <2>1. P = 2 ^ (2 * Byte)
    BY <1>5
  <2>. HIDE DEF P
  <2>2. /\ (Signed(Unary("sext.h", a)) - A) % P = 0
        /\ Signed(Unary("sext.h", a)) \in -(P \div 2) .. (P \div 2) - 1
    BY <1>1, <1>2, <1>4, <2>1
  <2>. QED  BY <2>2 DEF P
<1>. QED  BY <1>3, <1>7, <1>8, <1>9, <1>10 DEF UnaryExact

-----------------------------------------------------------------------------
(* Stores and loads                                                        *)

\* The bits that lie a distance of whole bytes up.
LEMMA ShiftedBit ==
  ASSUME NEW w \in Words, NEW s \in Nat, NEW i \in Nat
  PROVE  i \in Right(w, s) <=> i + s \in w
<1>1. w \subseteq Nat
  BY Powers DEF Words, BitIndices
<1>2. \A j \in w : i = j - s <=> j = i + s
  BY <1>1
<1>3. i + s >= s
  OBVIOUS
<1>. QED  BY <1>2, <1>3 DEF Right

\* A store reaches the bytes from its offset on, and no other.
LEMMA StoredBits ==
  ASSUME NEW old \in Words, NEW data \in Words, NEW size \in 1 .. 4, NEW offset \in 0 .. 4 - size
  PROVE  /\ Stored(old, data, size, offset) \in Words
         /\ \A i \in 0 .. size * Byte - 1 :
              i + offset * Byte \in Stored(old, data, size, offset) <=> i \in data
         /\ \A k \in 0 .. 3 \ offset .. offset + size - 1 : \A i \in 0 .. Byte - 1 :
              i + k * Byte \in Stored(old, data, size, offset) <=> i + k * Byte \in old
<1>. DEFINE lanes == {k \in BitIndices : k \div Byte \in offset .. offset + size - 1}
            o == offset * Byte
            moved == Left(Low(data, size * Byte), o)
            word == (old \ lanes) \cup (moved \cap lanes)
<1>1. Stored(old, data, size, offset) = word
  BY DEF Stored
<1>2. Byte \in Nat \ {0} /\ Width = 4 * Byte /\ data \subseteq Nat /\ size \in Nat /\ offset \in Nat
      /\ old \subseteq BitIndices
  BY Quarters DEF Words, BitIndices
<1>3. o \in Nat /\ size * Byte \in Nat /\ o + size * Byte <= Width
  <2>1. offset * Byte + size * Byte = (offset + size) * Byte /\ (offset + size) * Byte <= 4 * Byte
    <3>1. \A m \in 0 .. 4 : m * Byte <= 4 * Byte
      BY <1>2
    <3>. QED  BY <1>2, <3>1
  <2>. QED  BY <1>2, <2>1
<1>4. ASSUME NEW i \in 0 .. size * Byte - 1
      PROVE  i + o \in word <=> i \in data
  <2>1. i + o \in lanes
    <3>. DEFINE n == i + o
                d == n \div Byte
                r == n % Byte
    <3>1. n \in Int /\ n \in BitIndices
      BY <1>2, <1>3 DEF BitIndices
    <3>2. n >= Byte * offset /\ n < Byte * (offset + size) /\ offset + size \in Int /\ offset \in Int
      <4>1. Byte * offset = offset * Byte /\ Byte * (offset + size) = offset * Byte + size * Byte
        BY <1>2
      <4>. QED  BY <1>2, <1>3, <4>1
    <3>. HIDE DEF n
    <3>3. n \div Byte \in offset .. offset + size - 1
      BY <1>2, <3>1, <3>2, QuotientBetween
    <3>. QED  BY <3>1, <3>3 DEF n
  <2>2. i + o \in moved <=> i \in data
    <3>. HIDE DEF o
    <3>1. i \in Nat /\ i + o \in BitIndices /\ i \in 0 .. size * Byte - 1
      BY <1>2, <1>3 DEF BitIndices
    <3>2. \A j \in Low(data, size * Byte) : j + o = i + o <=> j = i
      BY <1>2, <1>3, <3>1 DEF Low
    <3>3. i + o \in Left(Low(data, size * Byte), o) <=> i \in Low(data, size * Byte)
      BY <3>1, <3>2 DEF Left
    <3>. QED  BY <3>1, <3>3 DEF Low
  <2>. QED  BY <2>1, <2>2
<1>5. ASSUME NEW k \in 0 .. 3 \ offset .. offset + size - 1, NEW i \in 0 .. Byte - 1
      PROVE  i + k * Byte \in word <=> i + k * Byte \in old
  <2>1. (i + k * Byte) \div Byte = k
    BY ByteBits
  <2>2. i + k * Byte \notin lanes
    BY <2>1
  <2>. QED  BY <2>2
<1>6. word \in Words
  BY <1>2 DEF Words
<1>. HIDE DEF word, o
<1>. QED  BY <1>1, <1>4, <1>5, <1>6 DEF o

\* What is stored is loaded again, with its sign or without, and the other
\* bytes of the word keep.
LEMMA MemoryIsExact ==
  ASSUME Operands
  PROVE  MemoryExact
<1>. SUFFICES ASSUME NEW size \in {1, 2, 4}, NEW offset \in {o \in 0 .. 3 : o % size = 0}
              PROVE  LET word == Stored(a, b, size, offset)
                         range == 2 ^ (size * Byte)
                         low == Number(Loaded(word, size, offset, FALSE))
                         extended == Signed(Loaded(word, size, offset, TRUE))
                     IN  /\ low = B % range
                         /\ size < 4 => extended = low - (IF 2 * low >= range THEN range ELSE 0)
                         /\ \A k \in 0 .. 3 \ offset .. offset + size - 1 :
                              Loaded(word, 1, k, FALSE) = Loaded(a, 1, k, FALSE)
  BY DEF MemoryExact
<1>. DEFINE word == Stored(a, b, size, offset)
            n == size * Byte
            o == offset * Byte
            v == Right(word, o)
            low == Number(Loaded(word, size, offset, FALSE))
            extended == Signed(Loaded(word, size, offset, TRUE))
<1>1. /\ a \in Words /\ b \in Words /\ B = Number(b) /\ Byte \in Nat \ {0} /\ Width = 4 * Byte
      /\ size \in 1 .. 4 /\ offset \in 0 .. 4 - size /\ offset \in 0 .. 3 /\ Width \in Nat
  <2>1. offset \in 0 .. 4 - size
    <3>1. CASE size = 1
      BY <3>1
    <3>2. CASE size = 2
      <4>1. 3 % 2 = 1
        OBVIOUS
      <4>2. offset \in 0 .. 3 /\ offset % 2 = 0
        BY <3>2
      <4>. QED  BY <3>2, <4>1, <4>2
    <3>3. CASE size = 4
      <4>1. 1 % 4 = 1 /\ 2 % 4 = 2 /\ 3 % 4 = 3
        OBVIOUS
      <4>2. offset \in 0 .. 3 /\ offset % 4 = 0
        BY <3>3
      <4>. QED  BY <3>3, <4>1, <4>2
    <3>. QED  BY <3>1, <3>2, <3>3
  <2>. QED  BY <2>1, OperandNumbers, Quarters DEF Operands
<1>2. /\ word \in Words
      /\ \A i \in 0 .. n - 1 : i + o \in word <=> i \in b
      /\ \A k \in 0 .. 3 \ offset .. offset + size - 1 : \A i \in 0 .. Byte - 1 :
           i + k * Byte \in word <=> i + k * Byte \in a
  BY <1>1, StoredBits
<1>3. n \in 1 .. Width /\ n \in 0 .. Width /\ (size < 4 => n \in 1 .. Width - 1) /\ o \in Nat /\ o \in 0 .. Width
  <2>1. o \in 0 .. Width
    BY <1>1, ByteBits
  <2>2. n \in 1 .. Width /\ (size < 4 => n \in 1 .. Width - 1)
    <3>1. CASE size = 1
      BY <1>1, <3>1
    <3>2. CASE size = 2
      BY <1>1, <3>2
    <3>3. CASE size = 4
      BY <1>1, <3>3
    <3>. QED  BY <3>1, <3>2, <3>3
  <2>. QED  BY <1>1, <2>1, <2>2
<1>4. v \in Words
  <2>. HIDE DEF word, o
  <2>. QED  BY <1>2, <1>3, RightExact
<1>5. Low(v, n) = Low(b, n)
  <2>1. ASSUME NEW i \in 0 .. n - 1 PROVE i \in v <=> i \in b
    <3>1. i \in Nat
      BY <1>3
    <3>2. i \in v <=> i + o \in word
      <4>. HIDE DEF word, o
      <4>. QED  BY <1>2, <1>3, <3>1, ShiftedBit
    <3>. QED  BY <1>2, <3>2
  <2>. HIDE DEF v, n
  <2>. QED  BY <2>1 DEF Low
<1>6. Loaded(word, size, offset, FALSE) = Low(v, n) /\ Loaded(word, size, offset, TRUE) = SignExtended(v, n)
  BY DEF Loaded
<1>7. low = B % 2 ^ n
  <2>. HIDE DEF n, v, word
  <2>. QED  BY <1>1, <1>3, <1>5, <1>6, LowExact
<1>8. ASSUME size < 4
      PROVE  extended = low - (IF 2 * low >= 2 ^ n THEN 2 ^ n ELSE 0)
  <2>. HIDE DEF n, v, word
  <2>1. n \in 1 .. Width - 1
    BY <1>3, <1>8
  <2>. DEFINE half == 2 ^ (n - 1)
              m == Number(v) % 2 ^ n
              e == Signed(SignExtended(v, n))
  <2>2. half \in Nat \ {0} /\ 2 ^ n = 2 * half /\ m \in 0 .. 2 * half - 1
        /\ e = m - (IF m >= half THEN 2 ^ n ELSE 0)
    BY <1>4, <2>1, ExtendedExact
  <2>3. low = m
    BY <1>3, <1>4, <1>6, LowExact
  <2>4. extended = e
    BY <1>6
  <2>. HIDE DEF half, m, e, low, extended
  <2>. QED  BY <2>2, <2>3, <2>4
<1>9. ASSUME NEW k \in 0 .. 3 \ offset .. offset + size - 1
      PROVE  Loaded(word, 1, k, FALSE) = Loaded(a, 1, k, FALSE)
  <2>1. 1 * Byte = Byte /\ k \in 0 .. 3
    BY <1>1
  <2>2. /\ Loaded(word, 1, k, FALSE) = Low(Right(word, k * Byte), Byte)
        /\ Loaded(a, 1, k, FALSE) = Low(Right(a, k * Byte), Byte)
    BY <2>1 DEF Loaded
  <2>. HIDE DEF word
  <2>3. \A i : i \in Low(Right(word, k * Byte), Byte) <=> i \in 0 .. Byte - 1 /\ i + k * Byte \in word
    BY <1>2, <2>1, ByteExact
  <2>4. \A i : i \in Low(Right(a, k * Byte), Byte) <=> i \in 0 .. Byte - 1 /\ i + k * Byte \in a
    BY <1>1, <2>1, ByteExact
  <2>5. Low(Right(word, k * Byte), Byte) = Low(Right(a, k * Byte), Byte)
    BY <1>2, <2>3, <2>4
  <2>. QED  BY <2>2, <2>5
<1>. HIDE DEF low, extended, word
<1>10. /\ low = B % 2 ^ n
       /\ size < 4 => extended = low - (IF 2 * low >= 2 ^ n THEN 2 ^ n ELSE 0)
       /\ \A k \in 0 .. 3 \ offset .. offset + size - 1 :
            Loaded(word, 1, k, FALSE) = Loaded(a, 1, k, FALSE)
  BY <1>7, <1>8, <1>9
<1>. QED  BY <1>10 DEF low, extended, word

-----------------------------------------------------------------------------
(* The instructions                                                        *)

\* The subject of a behaviour stays what it is.
LEMMA OperandsStay ==
  AlgorithmSpec => [](subject.about = "operands" => Operands)
<1>. DEFINE OI == subject.about = "operands" => Operands
<1>1. AlgorithmInit => OI
  <2>1. ASSUME subject \in [about : {"operands"}, a : Words, b : Words] PROVE Operands
    BY <2>1 DEF Operands, a, b
  <2>2. ASSUME subject = [about |-> "accesses"] PROVE subject.about # "operands"
    BY <2>2
  <2>3. ASSUME subject \in [about : {"instruction"}, i : Instructions] PROVE subject.about # "operands"
    BY <2>3
  <2>. QED  BY <2>1, <2>2, <2>3 DEF AlgorithmInit
<1>2. OI /\ [AlgorithmNext]_algorithmVars => OI'
  <2>1. ASSUME subject' = subject PROVE OI => OI'
    BY <2>1 DEF Operands, a, b
  <2>. QED  BY <2>1 DEF AlgorithmNext, algorithmVars
<1>. QED  BY <1>1, <1>2, PTL DEF AlgorithmSpec

\* For each width that the code could be built for, the 32 bits it has
\* included, and for all operands, the instructions compute what they are
\* meant to: products, quotients, sums, comparisons, shifts, bits, bytes, and
\* what a load finds after a store (exec.cpp:986-1466, 1490-1523).
THEOREM InstructionsCompute == AlgorithmSpec => []ArithmeticExact
<1>1. (subject.about = "operands" => Operands) => ArithmeticExact
  BY ProductsAreExact, CarrylessIsExact, DivisionIsExact, SumsAreExact, OrderIsExact,
     ShiftsAreExact, BitwiseIsExact, UnaryIsExact, MemoryIsExact DEF ArithmeticExact
<1>. QED  BY <1>1, OperandsStay, PTL

-----------------------------------------------------------------------------
(* Operands that tell                                                      *)

\* The samples, their numbers and the distances they stand for.
LEMMA SampleWords ==
  /\ Width \in Nat /\ Width >= 4 /\ {0, 1, 2, 3, Width - 1} \subseteq BitIndices
  /\ Samples \subseteq Words
  /\ {} \in Samples /\ {0} \in Samples /\ {1, 2} \in Samples /\ {Width - 1} \in Samples
  /\ Number({}) = 0 /\ Number({0}) = 1
  /\ Signed({}) = 0 /\ Signed({0}) = 1
  /\ Word(0) = {} /\ Word(1) = {0} /\ shift({}) = 0 /\ shift({0}) = 1
<1>1. Width \in Nat /\ Width >= 4
  BY AluAssumption
<1>2. {0, 1, 2, 3, Width - 1} \subseteq BitIndices
  BY <1>1 DEF BitIndices
<1>3. {} \in Samples /\ {0} \in Samples /\ {1, 2} \in Samples /\ {Width - 1} \in Samples
  BY DEF Samples
<1>4. Samples \subseteq Words
  BY <1>2 DEF Samples, Words
<1>5. Number({}) = 0 /\ Number({0}) = 1
  BY <1>2, Numbers, Powers
<1>6. Signed({}) = 0 /\ Signed({0}) = 1
  <2>1. Width - 1 \notin {0}
    BY <1>1
  <2>. QED  BY <1>5, <2>1 DEF Signed
<1>7. Word(0) = {} /\ Word(1) = {0}
  BY <1>3, <1>4, <1>5, WordOfNumber
<1>8. shift({}) = 0 /\ shift({0}) = 1
  <2>1. 0 \in 0 .. Width - 1 /\ 1 \in 0 .. Width - 1 /\ Width \in Nat \ {0}
    BY <1>1
  <2>2. 0 % Width = 0 /\ 1 % Width = 1
    BY <2>1, SmallRemainder
  <2>. QED  BY <1>5, <2>2 DEF shift
<1>. QED  BY <1>1, <1>2, <1>3, <1>4, <1>5, <1>6, <1>7, <1>8

\* Nothing added, nothing shifted.
LEMMA Unchanging ==
  ASSUME NEW x \in Words
  PROVE  /\ Plus(x, {}) = x /\ Plus({}, x) = x
         /\ Left(x, 0) = x /\ Right(x, 0) = x /\ Arithmetic(x, 0) = x
         /\ Rotated(x, 0) = x /\ Rotated(x, (Width - 0) % Width) = x
<1>1. x \subseteq BitIndices /\ BitIndices \subseteq Nat /\ Width \in Nat
  BY Powers DEF Words, BitIndices
<1>2. \A k : ~Carry(x, {}, k) /\ ~Carry({}, x, k)
  BY DEF Carry
<1>3. Plus(x, {}) = x /\ Plus({}, x) = x
  <2>1. ASSUME NEW k PROVE (k \in Plus(x, {}) <=> k \in x) /\ (k \in Plus({}, x) <=> k \in x)
    <3>1. Carry(x, {}, k) = FALSE /\ Carry({}, x, k) = FALSE
      BY DEF Carry
    <3>2. /\ (k \in Xor(x, {})) = (k \in x) /\ (k \in Xor({}, x)) = (k \in x)
      BY DEF Xor
    <3>3. /\ k \in Plus(x, {}) <=> k \in BitIndices /\ (k \in Xor(x, {})) # Carry(x, {}, k)
          /\ k \in Plus({}, x) <=> k \in BitIndices /\ (k \in Xor({}, x)) # Carry({}, x, k)
      BY DEF Plus
    <3>4. k \in x => k \in BitIndices
      BY <1>1
    <3>5. CASE k \in x
      <4>1. (k \in x) = TRUE /\ TRUE # FALSE
        BY <3>5, Zenon
      <4>. QED  BY <3>1, <3>2, <3>3, <3>4, <3>5, <4>1, Zenon
    <3>6. CASE k \notin x
      <4>1. (k \in x) = FALSE
        BY <3>6
      <4>. QED  BY <3>1, <3>2, <3>3, <3>6, <4>1, Zenon
    <3>. QED  BY <3>5, <3>6
  <2>. QED  BY <2>1
<1>4. Left(x, 0) = x
  <2>1. \A j \in x : j + 0 = j
    BY <1>1
  <2>. QED  BY <1>1, <2>1 DEF Left
<1>5. Right(x, 0) = x
  <2>1. \A j \in x : j - 0 = j /\ j >= 0
    BY <1>1
  <2>. QED  BY <1>1, <2>1 DEF Right
<1>6. Arithmetic(x, 0) = x
  <2>1. Width - 0 .. Width - 1 = {}
    BY <1>1
  <2>. QED  BY <1>5, <2>1 DEF Arithmetic
<1>. QED  BY <1>3, <1>4, <1>5, <1>6, NotRotated

\* Of a product without carries by a single bit there is one term.
LEMMA OneTerm ==
  ASSUME NEW j, NEW f, DOMAIN f = {j}
  PROVE  CarrylessSum(f) = {k \in BitIndices : k \in f[j]}
<1>1. ASSUME NEW k
      PROVE  Cardinality({i \in DOMAIN f : k \in f[i]}) % 2 = 1 <=> k \in f[j]
  <2>1. CASE k \in f[j]
    <3>1. {i \in DOMAIN f : k \in f[i]} = {j}
      BY <2>1
    <3>2. Cardinality({j}) = 1
      BY FS_Singleton
    <3>3. 1 % 2 = 1
      OBVIOUS
    <3>4. Cardinality({i \in DOMAIN f : k \in f[i]}) = 1
      BY <3>1, <3>2
    <3>. QED  BY <2>1, <3>3, <3>4
  <2>2. CASE k \notin f[j]
    <3>1. {i \in DOMAIN f : k \in f[i]} = {}
      BY <2>2
    <3>2. Cardinality({}) = 0 /\ 0 % 2 = 0
      BY FS_EmptySet
    <3>3. Cardinality({i \in DOMAIN f : k \in f[i]}) % 2 = 0
      BY <3>1, <3>2
    <3>. QED  BY <2>2, <3>3
  <2>. QED  BY <2>1, <2>2
<1>. QED  BY <1>1 DEF CarrylessSum

\* Of a product without carries by zero there is none.
LEMMA NoTerm ==
  ASSUME NEW f, \A i \in DOMAIN f : f[i] = {}
  PROVE  CarrylessSum(f) = {}
<1>1. ASSUME NEW k PROVE Cardinality({i \in DOMAIN f : k \in f[i]}) % 2 # 1
  <2>1. {i \in DOMAIN f : k \in f[i]} = {}
    OBVIOUS
  <2>2. Cardinality({}) = 0 /\ 0 % 2 = 0
    BY FS_EmptySet
  <2>3. Cardinality({i \in DOMAIN f : k \in f[i]}) % 2 = 0
    BY <2>1, <2>2
  <2>. QED  BY <2>3
<1>. QED  BY <1>1 DEF CarrylessSum

\* Products.
LEMMA ProductsTell ==
  LET top == {Width - 1}
  IN  /\ MulDiv("mul", {}, {0}) # MulDiv("mul", {0}, {0})
      /\ MulDiv("mul", {0}, {}) # MulDiv("mul", {0}, {0})
      /\ \A op \in {"mulh", "mulhsu", "mulhu"} :
           MulDiv(op, {}, top) # MulDiv(op, top, top) /\ MulDiv(op, top, {}) # MulDiv(op, top, top)
<1>. DEFINE top == {Width - 1}
            h == 2 ^ (Width - 1)
            g == 2 ^ (Width - 2)
<1>1. /\ Number({}) = 0 /\ Number({0}) = 1 /\ Signed({}) = 0 /\ Word(0) = {} /\ Word(1) = {0}
      /\ Width \in Nat /\ Width >= 4 /\ Width - 1 \in BitIndices /\ top \in Words
  BY SampleWords
<1>2. Number(top) = h /\ Signed(top) = -h
  <2>1. Number(top) = h
    BY <1>1, Numbers
  <2>2. Signed(top) = Number(top) - 2 ^ Width
    BY DEF Signed
  <2>3. 2 ^ Width = 2 * h /\ h \in Nat
    BY <1>1, SignFlipped
  <2>. HIDE DEF h, top
  <2>. QED  BY <2>1, <2>2, <2>3
<1>3. g \in Nat \ {0} /\ h = 2 * g /\ 2 ^ Width = 4 * g
  <2>1. /\ Width - 2 \in 0 .. 2 * Width - 1 /\ Width - 2 + 1 = Width - 1 /\ Width - 2 \in 0 .. 2 * Width
    BY <1>1
  <2>2. g \in Nat \ {0} /\ h = 2 * g
    BY <2>1, Powers
  <2>3. 2 ^ Width = 2 * h
    BY <1>1, SignFlipped
  <2>. HIDE DEF g, h
  <2>. QED  BY <2>2, <2>3
<1>. HIDE DEF g, h, top
<1>4. (h * h) \div 2 ^ Width = g /\ ((-h) * h) \div 2 ^ Width = -g /\ (-h) * (-h) = h * h
      /\ 0 \div 2 ^ Width = 0
  <2>. DEFINE S == 2 ^ Width
  <2>1. S \in Nat \ {0}
    BY <1>3
  <2>. HIDE DEF S
  <2>2. h * h = S * g + 0 /\ (-h) * h = S * (-g) + 0 /\ (-h) * (-h) = h * h /\ 0 = S * 0 + 0
    <3>1. \A u \in Nat : /\ (2 * u) * (2 * u) = (4 * u) * u + 0
                         /\ (-(2 * u)) * (2 * u) = (4 * u) * (-u) + 0
                         /\ (-(2 * u)) * (-(2 * u)) = (2 * u) * (2 * u)
      OBVIOUS
    <3>. QED  BY <1>3, <2>1, <3>1 DEF S
  <2>3. h * h \in Int /\ (-h) * h \in Int /\ -g \in Int /\ g \in Int /\ 0 \in 0 .. S - 1
    BY <1>3, <2>1
  <2>4. (h * h) \div S = g
    <3>. DEFINE p == h * h
    <3>1. p \in Int /\ p = S * g + 0
      BY <2>2, <2>3
    <3>. HIDE DEF p
    <3>2. p \div S = g
      BY <2>1, <2>3, <3>1, DivisionUnique
    <3>. QED  BY <3>2 DEF p
  <2>5. ((-h) * h) \div S = -g
    <3>. DEFINE p == (-h) * h
                m == -g
    <3>1. p \in Int /\ p = S * m + 0 /\ m \in Int
      BY <2>2, <2>3
    <3>. HIDE DEF p, m
    <3>2. p \div S = m
      BY <2>1, <2>3, <3>1, DivisionUnique
    <3>. QED  BY <3>2 DEF p, m
  <2>6. 0 \div S = 0
    BY <2>1, <2>3, SmallRemainder
  <2>. QED  BY <2>2, <2>4, <2>5, <2>6 DEF S
<1>5. Word(g) # {} /\ Word(-g) # {}
  <2>1. g \in -h .. h - 1 /\ -g \in -h .. h - 1 /\ g # 0 /\ -g # 0
    BY <1>3
  <2>2. Signed(Word(g)) = g /\ Signed(Word(-g)) = -g
    BY <2>1, SignedWord DEF h
  <2>. QED  BY <1>1, <2>1, <2>2
<1>6. 0 * 1 = 0 /\ 1 * 1 = 1 /\ 1 * 0 = 0 /\ 0 * h = 0 /\ h * 0 = 0 /\ 0 * (-h) = 0 /\ (-h) * 0 = 0
  BY <1>3
<1>7. /\ MulDiv("mul", {}, {0}) = {} /\ MulDiv("mul", {0}, {0}) = {0} /\ MulDiv("mul", {0}, {}) = {}
  BY <1>1, <1>6 DEF MulDiv
<1>8. /\ MulDiv("mulh", {}, top) = {} /\ MulDiv("mulh", top, {}) = {} /\ MulDiv("mulh", top, top) = Word(g)
  BY <1>1, <1>2, <1>4, <1>6 DEF MulDiv, High
<1>9. /\ MulDiv("mulhu", {}, top) = {} /\ MulDiv("mulhu", top, {}) = {} /\ MulDiv("mulhu", top, top) = Word(g)
  BY <1>1, <1>2, <1>4, <1>6 DEF MulDiv, High
<1>10. /\ MulDiv("mulhsu", {}, top) = {} /\ MulDiv("mulhsu", top, {}) = {} /\ MulDiv("mulhsu", top, top) = Word(-g)
  BY <1>1, <1>2, <1>4, <1>6 DEF MulDiv, High
<1>. QED  BY <1>5, <1>7, <1>8, <1>9, <1>10 DEF top

\* Quotients, where the divisor may be zero.
LEMMA QuotientsTell ==
  \A op \in {"div", "divu", "rem", "remu"} :
     /\ \E y \in {{}, {0}} : MulDiv(op, {}, y) # MulDiv(op, {0}, y)
     /\ MulDiv(op, {0}, {}) # MulDiv(op, {0}, {0})
<1>1. /\ Number({}) = 0 /\ Number({0}) = 1 /\ Signed({}) = 0 /\ Signed({0}) = 1
      /\ Word(0) = {} /\ Word(1) = {0} /\ 1 \in BitIndices /\ 0 \in BitIndices
  BY SampleWords
<1>2. ~Overflows({}, {0}) /\ ~Overflows({0}, {0})
  <2>1. {0} # BitIndices
    BY <1>1
  <2>. QED  BY <2>1 DEF Overflows
<1>3. Quotient(0, 1) = 0 /\ Quotient(1, 1) = 1 /\ Remainder(1, 1) = 0
  <2>1. Quotient(0, 1) = 0 /\ Quotient(1, 1) = 1 /\ 1 = 1 * Quotient(1, 1) + Remainder(1, 1)
        /\ Remainder(1, 1) \in Int
    BY Truncated
  <2>2. Remainder(1, 1) = 0
    <3>1. 1 * 1 = 1
      OBVIOUS
    <3>2. 1 = 1 + Remainder(1, 1)
      BY <2>1, <3>1
    <3>. DEFINE r == Remainder(1, 1)
    <3>3. r \in Int /\ 1 = 1 + r
      BY <2>1, <3>2
    <3>. HIDE DEF r
    <3>4. r = 0
      BY <3>3
    <3>. QED  BY <3>4 DEF r
  <2>. QED  BY <2>1, <2>2
<1>4. 0 \div 1 = 0 /\ 1 \div 1 = 1 /\ 1 % 1 = 0
  OBVIOUS
<1>5. /\ div({}, {0}) = {} /\ div({0}, {0}) = {0} /\ div({0}, {}) = BitIndices
      /\ rem({0}, {0}) = {} /\ rem({0}, {}) = {0} /\ rem({}, {}) = {}
      /\ divu({}, {0}) = {} /\ divu({0}, {0}) = {0} /\ divu({0}, {}) = BitIndices
      /\ remu({0}, {0}) = {} /\ remu({0}, {}) = {0} /\ remu({}, {}) = {}
  BY <1>1, <1>2, <1>3, <1>4 DEF div, rem, divu, remu
<1>6. BitIndices # {0}
  BY <1>1
<1>7. /\ MulDiv("div", {}, {0}) # MulDiv("div", {0}, {0}) /\ MulDiv("div", {0}, {}) # MulDiv("div", {0}, {0})
      /\ MulDiv("divu", {}, {0}) # MulDiv("divu", {0}, {0}) /\ MulDiv("divu", {0}, {}) # MulDiv("divu", {0}, {0})
      /\ MulDiv("rem", {}, {}) # MulDiv("rem", {0}, {}) /\ MulDiv("rem", {0}, {}) # MulDiv("rem", {0}, {0})
      /\ MulDiv("remu", {}, {}) # MulDiv("remu", {0}, {}) /\ MulDiv("remu", {0}, {}) # MulDiv("remu", {0}, {0})
  BY <1>5, <1>6 DEF MulDiv
<1>. QED  BY <1>7

\* Shifts, rotations, single bits and products without carries.
LEMMA ShiftsTell ==
  \A op \in ShiftOps :
     /\ \E x, w, y \in Samples : ShiftLike(op, x, y) # ShiftLike(op, w, y)
     /\ \E x, y, v \in Samples : ShiftLike(op, x, y) # ShiftLike(op, x, v)
<1>. DEFINE top == {Width - 1}
<1>1. /\ Width \in Nat /\ Width >= 4 /\ 0 \in BitIndices /\ 1 \in BitIndices /\ Width - 1 \in BitIndices
      /\ {} \in Samples /\ {0} \in Samples /\ {1, 2} \in Samples /\ top \in Samples
      /\ {} \in Words /\ {0} \in Words /\ {1, 2} \in Words
      /\ shift({}) = 0 /\ shift({0}) = 1
  BY SampleWords
<1>2. ASSUME NEW x \in Words
      PROVE  /\ ShiftLike("sll", x, {}) = x /\ ShiftLike("srl", x, {}) = x /\ ShiftLike("sra", x, {}) = x
             /\ ShiftLike("rol", x, {}) = x /\ ShiftLike("ror", x, {}) = x
             /\ ShiftLike("bclr", x, {}) = x \ {0} /\ ShiftLike("bset", x, {}) = x \cup {0}
             /\ ShiftLike("binv", x, {}) = Xor(x, {0}) /\ ShiftLike("bext", x, {}) = Truth(0 \in x)
  BY <1>1, Unchanging DEF ShiftLike
<1>3. /\ Left({0}, 1) = {1} /\ Right({0}, 1) = {} /\ Arithmetic({0}, 1) = {}
      /\ Rotated({0}, 1) = {1} /\ Rotated({0}, (Width - 1) % Width) = top
  <2>1. Left({0}, 1) = {1}
    BY <1>1 DEF Left
  <2>2. Right({0}, 1) = {} /\ Right({0}, Width - 1) = {}
    BY <1>1 DEF Right
  <2>3. Width - 1 \notin {0}
    BY <1>1
  <2>4. Arithmetic({0}, 1) = {}
    BY <2>2, <2>3 DEF Arithmetic
  <2>5. (Width - 1) % Width = Width - 1
    BY <1>1, SmallRemainder
  <2>6. Width - (Width - 1) = 1 /\ 1 % Width = 1
    BY <1>1, SmallRemainder
  <2>7. Left({0}, Width - 1) = top
    BY <1>1 DEF Left
  <2>8. Rotated({0}, 1) = {1}
    BY <2>1, <2>2, <2>5 DEF Rotated
  <2>9. Rotated({0}, Width - 1) = top
    BY <2>2, <2>6, <2>7 DEF Rotated
  <2>. QED  BY <2>1, <2>2, <2>4, <2>5, <2>8, <2>9
<1>4. /\ ShiftLike("sll", {0}, {0}) = {1} /\ ShiftLike("srl", {0}, {0}) = {}
      /\ ShiftLike("sra", {0}, {0}) = {} /\ ShiftLike("rol", {0}, {0}) = {1}
      /\ ShiftLike("ror", {0}, {0}) = top
      /\ ShiftLike("bclr", {0}, {0}) = {0} \ {1} /\ ShiftLike("bset", {}, {0}) = {} \cup {1}
      /\ ShiftLike("binv", {}, {0}) = Xor({}, {1}) /\ ShiftLike("bext", {0}, {0}) = Truth(1 \in {0})
  BY <1>1, <1>3 DEF ShiftLike
<1>5. ASSUME NEW x \in Words
      PROVE  clmul(x, {0}) = x /\ clmulr(x, top) = x /\ clmulh(x, top) = Right(x, 1)
  <2>1. x \subseteq BitIndices
    BY DEF Words
  <2>2. clmul(x, {0}) = x
    <3>. DEFINE f == [i \in {0} |-> Left(x, i)]
    <3>1. DOMAIN f = {0} /\ f[0] = x
      BY Unchanging
    <3>. HIDE DEF f
    <3>2. CarrylessSum(f) = {k \in BitIndices : k \in f[0]}
      BY <3>1, OneTerm
    <3>. QED  BY <2>1, <3>1, <3>2 DEF clmul, f
  <2>3. clmulr(x, top) = x
    <3>. DEFINE f == [i \in top |-> Right(x, Width - 1 - i)]
    <3>1. DOMAIN f = {Width - 1} /\ f[Width - 1] = x
      <4>1. Width - 1 - (Width - 1) = 0
        BY <1>1
      <4>. QED  BY <4>1, Unchanging
    <3>2. clmulr(x, top) = CarrylessSum(f)
      BY DEF clmulr
    <3>. HIDE DEF f
    <3>3. CarrylessSum(f) = {k \in BitIndices : k \in f[Width - 1]}
      BY <3>1, OneTerm
    <3>. QED  BY <2>1, <3>1, <3>2, <3>3
  <2>4. clmulh(x, top) = Right(x, 1)
    <3>. DEFINE f == [i \in top \ {0} |-> Right(x, Width - i)]
    <3>1. DOMAIN f = {Width - 1} /\ f[Width - 1] = Right(x, 1)
      <4>1. Width - (Width - 1) = 1 /\ Width - 1 # 0
        BY <1>1
      <4>. QED  BY <4>1
    <3>2. clmulh(x, top) = CarrylessSum(f)
      BY DEF clmulh
    <3>. HIDE DEF f
    <3>3. CarrylessSum(f) = {k \in BitIndices : k \in f[Width - 1]}
      BY <3>1, OneTerm
    <3>4. \A k \in Right(x, 1) : k \in BitIndices
      BY <1>1, <2>1 DEF Right, BitIndices
    <3>. QED  BY <3>1, <3>2, <3>3, <3>4
  <2>. QED  BY <2>2, <2>3, <2>4
<1>6. ASSUME NEW x
      PROVE  clmul(x, {}) = {} /\ clmulr(x, {}) = {} /\ clmulh(x, {}) = {}
  <2>1. CarrylessSum([i \in {} |-> Left(x, i)]) = {}
    BY NoTerm
  <2>2. CarrylessSum([i \in {} |-> Right(x, Width - 1 - i)]) = {}
    BY NoTerm
  <2>3. CarrylessSum([i \in {} \ {0} |-> Right(x, Width - i)]) = {}
    BY NoTerm
  <2>. QED  BY <2>1, <2>2, <2>3 DEF clmul, clmulr, clmulh
<1>7. 0 \in Right({1, 2}, 1) /\ Right({}, 1) = {}
  BY DEF Right
<1>8. /\ ShiftLike("clmul", {}, {0}) = {} /\ ShiftLike("clmul", {0}, {0}) = {0} /\ ShiftLike("clmul", {0}, {}) = {}
      /\ ShiftLike("clmulr", {}, top) = {} /\ ShiftLike("clmulr", {0}, top) = {0} /\ ShiftLike("clmulr", {0}, {}) = {}
      /\ ShiftLike("clmulh", {}, top) = {} /\ ShiftLike("clmulh", {1, 2}, top) # {}
      /\ ShiftLike("clmulh", {1, 2}, {}) = {}
  BY <1>1, <1>5, <1>6, <1>7 DEF ShiftLike
<1>. HIDE DEF top
<1>9. ASSUME NEW op \in {"sll", "srl", "sra", "rol", "ror", "bext"}
      PROVE  /\ ShiftLike(op, {}, {}) # ShiftLike(op, {0}, {})
             /\ ShiftLike(op, {0}, {}) # ShiftLike(op, {0}, {0})
  <2>1. Truth(0 \in {}) = {} /\ Truth(0 \in {0}) = {0} /\ Truth(1 \in {0}) = {}
    BY DEF Truth
  <2>2. top # {0}
    BY <1>1 DEF top
  <2>. QED  BY <1>1, <1>2, <1>4, <2>1, <2>2
<1>10. ASSUME NEW op \in {"bset", "binv"}
       PROVE  /\ ShiftLike(op, {}, {}) # ShiftLike(op, {1, 2}, {})
              /\ ShiftLike(op, {}, {}) # ShiftLike(op, {}, {0})
  BY <1>1, <1>2, <1>4 DEF Xor
<1>11. /\ ShiftLike("bclr", {}, {}) # ShiftLike("bclr", {1, 2}, {})
       /\ ShiftLike("bclr", {0}, {}) # ShiftLike("bclr", {0}, {0})
  BY <1>1, <1>2, <1>4
<1>. QED  BY <1>1, <1>8, <1>9, <1>10, <1>11 DEF ShiftOps

\* The order of the first two samples.
LEMMA SampleOrder ==
  /\ SignedBelow({}, {0}) /\ ~SignedBelow({0}, {}) /\ ~SignedBelow({}, {}) /\ ~SignedBelow({0}, {0})
  /\ Below({}, {0}) /\ ~Below({0}, {}) /\ ~Below({}, {}) /\ ~Below({0}, {0})
<1>1. /\ {} \in Words /\ {0} \in Words
      /\ Number({}) = 0 /\ Number({0}) = 1 /\ Signed({}) = 0 /\ Signed({0}) = 1
  BY SampleWords
<1>2. \A x, y \in {{}, {0}} : /\ SignedBelow(x, y) <=> Signed(x) < Signed(y)
                              /\ Below(x, y) <=> Number(x) < Number(y)
  BY <1>1, SignedBelowExact, BelowExact
<1>. QED  BY <1>1, <1>2

\* Sums and comparisons.
LEMMA SumsTell ==
  \A op \in AddOps :
     /\ \E x, w, y \in Samples : AddLike(op, x, y) # AddLike(op, w, y)
     /\ \E x, y, v \in Samples : AddLike(op, x, y) # AddLike(op, x, v)
<1>1. /\ Width \in Nat /\ Width >= 4 /\ {0, 1, 2, 3} \subseteq BitIndices
      /\ {} \in Samples /\ {0} \in Samples
      /\ {} \in Words /\ {0} \in Words
      /\ Number({}) = 0 /\ Number({0}) = 1 /\ Signed({}) = 0 /\ Signed({0}) = 1
  BY SampleWords DEF Words
<1>2. \A x \in Words : Plus(x, {}) = x /\ Plus({}, x) = x
  BY Unchanging
<1>3. ASSUME NEW s \in {1, 2, 3} PROVE Left({}, s) = {} /\ Left({0}, s) = {s} /\ {s} \in Words
  BY <1>1 DEF Left, Words
<1>4. /\ SignedBelow({}, {0}) /\ ~SignedBelow({0}, {}) /\ ~SignedBelow({}, {}) /\ ~SignedBelow({0}, {0})
      /\ Below({}, {0}) /\ ~Below({0}, {}) /\ ~Below({}, {}) /\ ~Below({0}, {0})
  BY SampleOrder
<1>5. /\ AddLike("add", {}, {}) # AddLike("add", {0}, {})
      /\ AddLike("add", {}, {}) # AddLike("add", {}, {0})
  BY <1>1, <1>2 DEF AddLike
<1>6. /\ AddLike("sub", {}, {}) # AddLike("sub", {0}, {})
      /\ AddLike("sub", {}, {}) # AddLike("sub", {}, {0})
  <2>. DEFINE minus(y) == Plus(Not(y), {0})
  <2>1. minus({}) = {}
    <3>1. 2 ^ Width \in Nat \ {0} /\ Number(Not({})) = 2 ^ Width - 1
      <4>1. Not({}) = BitIndices
        BY DEF Not
      <4>. QED  BY <4>1, Numbers, NumberBound
    <3>. DEFINE S == 2 ^ Width
    <3>2. Number(minus({})) = ((S - 1) + 1) % S
      BY <1>1, <3>1, PlusExact
    <3>3. S \in Nat \ {0}
      BY <3>1
    <3>. HIDE DEF S
    <3>4. (S - 1) + 1 = S * 1 + 0 /\ (S - 1) + 1 \in Int /\ 0 \in 0 .. S - 1
      BY <3>3
    <3>5. ((S - 1) + 1) % S = 0
      BY <3>3, <3>4, DivisionUnique
    <3>6. Number(minus({})) = 0
      BY <3>2, <3>5
    <3>7. minus({}) \in Words
      BY DEF Plus, Words
    <3>. QED  BY <1>1, <3>6, <3>7, NumberInjective
  <2>2. 1 \in minus({0})
    <3>1. ~Carry(Not({0}), {0}, 1)
      BY DEF Carry, Not
    <3>2. Carry(Not({0}), {0}, 1) = FALSE
      BY <3>1 DEF Carry
    <3>3. 1 \in Xor(Not({0}), {0}) /\ 1 \in BitIndices
      BY <1>1 DEF Xor, Not
    <3>4. (1 \in Xor(Not({0}), {0})) = TRUE
      BY <3>3 DEF Xor
    <3>. QED  BY <3>2, <3>3, <3>4, Zenon DEF Plus
  <2>3. minus({0}) \in Words
    BY DEF Plus, Words
  <2>4. \A x, y : AddLike("sub", x, y) = Plus(x, minus(y))
    BY DEF AddLike
  <2>. HIDE DEF minus
  <2>. QED  BY <1>1, <1>2, <2>1, <2>2, <2>3, <2>4
<1>7. /\ \A x, y : AddLike("sh1add", x, y) = Plus(y, Left(x, 1))
      /\ \A x, y : AddLike("sh2add", x, y) = Plus(y, Left(x, 2))
      /\ \A x, y : AddLike("sh3add", x, y) = Plus(y, Left(x, 3))
  BY DEF AddLike
<1>8. ASSUME NEW op \in {"sh1add", "sh2add", "sh3add"}
      PROVE  /\ AddLike(op, {}, {}) # AddLike(op, {0}, {})
             /\ AddLike(op, {}, {}) # AddLike(op, {}, {0})
  <2>1. PICK s \in {1, 2, 3} : \A x, y : AddLike(op, x, y) = Plus(y, Left(x, s))
    <3>1. CASE op = "sh1add"
      BY <1>7, <3>1
    <3>2. CASE op = "sh2add"
      BY <1>7, <3>2
    <3>3. CASE op = "sh3add"
      BY <1>7, <3>3
    <3>. QED  BY <3>1, <3>2, <3>3
  <2>. QED  BY <1>1, <1>2, <1>3, <2>1
<1>9. ASSUME NEW op \in {"slt", "sltu"}
      PROVE  /\ AddLike(op, {}, {0}) # AddLike(op, {0}, {0})
             /\ AddLike(op, {}, {0}) # AddLike(op, {}, {})
  BY <1>4 DEF AddLike, Truth
<1>10. ASSUME NEW op \in {"min", "minu"}
       PROVE  /\ AddLike(op, {}, {0}) # AddLike(op, {0}, {0})
              /\ AddLike(op, {0}, {}) # AddLike(op, {0}, {0})
  BY <1>4 DEF AddLike
<1>11. ASSUME NEW op \in {"max", "maxu"}
       PROVE  /\ AddLike(op, {}, {}) # AddLike(op, {0}, {})
              /\ AddLike(op, {}, {}) # AddLike(op, {}, {0})
  BY <1>4 DEF AddLike
<1>. QED  BY <1>1, <1>5, <1>6, <1>8, <1>9, <1>10, <1>11 DEF AddOps

\* Operations bit by bit.
LEMMA BitsTell ==
  \A op \in BitOps :
     /\ \E x, w, y \in Samples : Bitwise(op, x, y) # Bitwise(op, w, y)
     /\ \E x, y, v \in Samples : Bitwise(op, x, y) # Bitwise(op, x, v)
<1>1. /\ {0, 1} \subseteq BitIndices /\ {} \in Samples /\ {0} \in Samples
      /\ Byte \in Nat \ {0} /\ Width = 4 * Byte
  BY SampleWords, Quarters
<1>2. ASSUME NEW op \in {"xor", "or", "xnor"}
      PROVE  /\ Bitwise(op, {}, {}) # Bitwise(op, {0}, {})
             /\ Bitwise(op, {}, {}) # Bitwise(op, {}, {0})
  BY <1>1 DEF Bitwise, Xor, Not
<1>3. /\ Bitwise("and", {}, {0}) # Bitwise("and", {0}, {0})
      /\ Bitwise("and", {0}, {}) # Bitwise("and", {0}, {0})
  BY DEF Bitwise
<1>4. /\ Bitwise("orn", {}, {0}) # Bitwise("orn", {0}, {0})
      /\ Bitwise("orn", {}, {}) # Bitwise("orn", {}, {0})
  BY <1>1 DEF Bitwise, Not
<1>5. /\ Bitwise("andn", {}, {}) # Bitwise("andn", {0}, {})
      /\ Bitwise("andn", {0}, {}) # Bitwise("andn", {0}, {0})
  BY DEF Bitwise
<1>6. ASSUME NEW n \in {Byte, 2 * Byte}
      PROVE  Low({0}, n) = {0} /\ Low({}, n) = {} /\ Left({}, n) = {} /\ Left({0}, n) = {n}
  BY <1>1 DEF Low, Left, BitIndices
<1>7. ASSUME NEW op \in {"pack", "packh"}
      PROVE  /\ Bitwise(op, {}, {}) # Bitwise(op, {0}, {})
             /\ Bitwise(op, {}, {}) # Bitwise(op, {}, {0})
  BY <1>6 DEF Bitwise
<1>. QED  BY <1>1, <1>2, <1>3, <1>4, <1>5, <1>7 DEF BitOps

\* Each operation on two registers, or on a register and an immediate.
LEMMA BothOperandsTell ==
  \A op \in RegisterOps :
     /\ \E x, w, y \in Samples : Binary(op, x, y) # Binary(op, w, y)
     /\ \E x, y, v \in Samples : Binary(op, x, y) # Binary(op, x, v)
<1>1. /\ {} \in Samples /\ {0} \in Samples /\ {Width - 1} \in Samples
  BY SampleWords
<1>2. ASSUME NEW op \in MulDivOps
      PROVE  /\ \E x, w, y \in Samples : MulDiv(op, x, y) # MulDiv(op, w, y)
             /\ \E x, y, v \in Samples : MulDiv(op, x, y) # MulDiv(op, x, v)
  <2>1. CASE op \in {"mul", "mulh", "mulhsu", "mulhu"}
    BY <1>1, <2>1, ProductsTell
  <2>2. CASE op \in {"div", "divu", "rem", "remu"}
    BY <1>1, <2>2, QuotientsTell
  <2>. QED  BY <2>1, <2>2 DEF MulDivOps
<1>3. /\ \A op \in MulDivOps : \A x, y : Binary(op, x, y) = MulDiv(op, x, y)
      /\ \A op \in ShiftOps : \A x, y : Binary(op, x, y) = ShiftLike(op, x, y)
      /\ \A op \in AddOps : \A x, y : Binary(op, x, y) = AddLike(op, x, y)
      /\ \A op \in BitOps : \A x, y : Binary(op, x, y) = Bitwise(op, x, y)
  BY DEF Binary, MulDivOps, ShiftOps, AddOps, BitOps
<1>4. ASSUME NEW op \in RegisterOps
      PROVE  /\ \E x, w, y \in Samples : Binary(op, x, y) # Binary(op, w, y)
             /\ \E x, y, v \in Samples : Binary(op, x, y) # Binary(op, x, v)
  <2>1. CASE op \in MulDivOps
    BY <1>2, <1>3, <2>1
  <2>2. CASE op \in ShiftOps
    BY ShiftsTell, <1>3, <2>2
  <2>3. CASE op \in AddOps
    BY SumsTell, <1>3, <2>3
  <2>4. CASE op \in BitOps
    BY BitsTell, <1>3, <2>4
  <2>. QED  BY <2>1, <2>2, <2>3, <2>4 DEF RegisterOps
<1>. QED  BY <1>4

\* Operations on one register.
LEMMA UnaryTells ==
  \A op \in UnaryOps : Unary(op, {}) # Unary(op, {0})
<1>1. /\ Width \in Nat /\ Width >= 4 /\ 0 \in BitIndices
      /\ Byte \in Nat \ {0} /\ Width = 4 * Byte
      /\ {} \in Words /\ {0} \in Words
  BY SampleWords, Quarters DEF Words
<1>2. \A m, n \in 0 .. Width : m # n => Word(m) # Word(n)
  BY CountFits
<1>3. clz({}) = Width /\ ctz({}) = Width
  BY <1>1, ZerosExact
<1>4. clz({0}) = Width - 1
  <2>1. {k \in BitIndices : \A j \in {0} : j < k} = 1 .. Width - 1
    BY <1>1 DEF BitIndices
  <2>2. Cardinality(1 .. Width - 1) = Width - 1
    <3>1. 1 \in Int /\ Width - 1 \in Int
      BY <1>1
    <3>2. Cardinality(1 .. Width - 1) = IF 1 > Width - 1 THEN 0 ELSE (Width - 1) - 1 + 1
      BY <3>1, FS_Interval
    <3>. QED  BY <1>1, <3>2
  <2>. QED  BY <2>1, <2>2 DEF clz
<1>5. ctz({0}) = 0
  <2>1. {k \in BitIndices : \A j \in {0} : j > k} = {}
    BY <1>1 DEF BitIndices
  <2>. QED  BY <2>1, FS_EmptySet DEF ctz
<1>6. Cardinality({}) = 0 /\ Cardinality({0}) = 1
  BY FS_EmptySet, FS_Singleton
<1>7. Unary("clz", {}) # Unary("clz", {0}) /\ Unary("ctz", {}) # Unary("ctz", {0})
      /\ Unary("pcnt", {}) # Unary("pcnt", {0})
  <2>1. /\ Unary("clz", {}) = Word(Width) /\ Unary("clz", {0}) = Word(Width - 1)
        /\ Unary("ctz", {}) = Word(Width) /\ Unary("ctz", {0}) = Word(0)
        /\ Unary("pcnt", {}) = Word(0) /\ Unary("pcnt", {0}) = Word(1)
    BY <1>3, <1>4, <1>5, <1>6 DEF Unary
  <2>2. {0, 1, Width - 1, Width} \subseteq 0 .. Width /\ Width # Width - 1 /\ Width # 0
    BY <1>1
  <2>. QED  BY <1>2, <2>1, <2>2
<1>8. ASSUME NEW n \in {Byte, 2 * Byte}
      PROVE  0 \in SignExtended({0}, n) /\ 0 \notin SignExtended({}, n)
  BY <1>1 DEF SignExtended, Low
<1>9. rev8({}) = {} /\ rev8({0}) # {}
  BY DEF rev8
<1>10. orcb({}) = {} /\ 0 \in orcb({0})
  BY <1>1 DEF orcb
<1>. QED  BY <1>7, <1>8, <1>9, <1>10 DEF UnaryOps, Unary

\* Branches.
LEMMA BranchesTell ==
  ASSUME NEW op \in BranchOps
  PROVE  /\ \E x, w, y \in Samples : Taken(op, x, y) /\ ~Taken(op, w, y)
         /\ \E x, y, v \in Samples : Taken(op, x, y) /\ ~Taken(op, x, v)
<1>1. /\ {} \in Samples /\ {0} \in Samples /\ {} \in Words /\ {0} \in Words
      /\ Number({}) = 0 /\ Number({0}) = 1 /\ Signed({}) = 0 /\ Signed({0}) = 1
  BY SampleWords
<1>2. /\ SignedBelow({}, {0}) /\ ~SignedBelow({0}, {}) /\ ~SignedBelow({}, {}) /\ ~SignedBelow({0}, {0})
      /\ Below({}, {0}) /\ ~Below({0}, {}) /\ ~Below({}, {}) /\ ~Below({0}, {0})
  BY SampleOrder
<1>. QED  BY <1>1, <1>2 DEF BranchOps, Taken

\* What an atomic instruction stores depends on its operand.
LEMMA AtomicsTell ==
  ASSUME NEW kind \in AmoKinds
  PROVE  \E held, y, v \in Samples : Computed(kind, held, y) # Computed(kind, held, v)
<1>1. /\ {} \in Samples /\ {0} \in Samples /\ {} \in Words /\ {0} \in Words
      /\ Number({}) = 0 /\ Number({0}) = 1 /\ Signed({}) = 0 /\ Signed({0}) = 1
  BY SampleWords
<1>2. /\ SignedBelow({}, {0}) /\ ~SignedBelow({0}, {}) /\ ~SignedBelow({}, {}) /\ ~SignedBelow({0}, {0})
      /\ Below({}, {0}) /\ ~Below({0}, {}) /\ ~Below({}, {}) /\ ~Below({0}, {0})
  BY SampleOrder
<1>3. Plus({}, {}) = {} /\ Plus({}, {0}) = {0}
  BY <1>1, Unchanging
<1>4. CASE kind \in {"add", "swap", "xor", "or"}
  <2>1. Computed(kind, {}, {}) # Computed(kind, {}, {0})
    BY <1>3, <1>4 DEF Computed, Xor
  <2>. QED  BY <1>1, <2>1
<1>5. CASE kind \in {"and", "min", "minu"}
  <2>1. Computed(kind, {0}, {}) # Computed(kind, {0}, {0})
    BY <1>2, <1>5 DEF Computed
  <2>. QED  BY <1>1, <2>1
<1>6. CASE kind \in {"max", "maxu"}
  <2>1. Computed(kind, {}, {}) # Computed(kind, {}, {0})
    BY <1>2, <1>6 DEF Computed
  <2>. QED  BY <1>1, <2>1
<1>. QED  BY <1>4, <1>5, <1>6 DEF AmoKinds

-----------------------------------------------------------------------------
(* The registers that the trace reports                                    *)

\* Registers 1 and 2, where register r holds v and the other one y.
File(r, v, y) == [q \in {0, 1, 2} |-> IF q = 0 THEN {} ELSE IF q = r THEN v ELSE y]

\* The register files that File makes are among those RegistersExact ranges over.
LEMMA Filed ==
  ASSUME NEW r \in {1, 2}, NEW v \in Samples, NEW w \in Samples, NEW y \in Samples
  PROVE  /\ File(r, v, y) \in RegisterFiles
         /\ [File(r, v, y) EXCEPT ![r] = w] = File(r, w, y)
         /\ File(r, v, y)[0] = {} /\ File(r, v, y)[r] = v
         /\ \A q \in {1, 2} \ {r} : File(r, v, y)[q] = y
<1>1. {} \in Samples
  BY SampleWords
<1>. QED  BY <1>1 DEF File, RegisterFiles

\* Two register files that differ in one register, and have another effect.
LEMMA Tells ==
  ASSUME NEW i, NEW r \in {1, 2}, NEW x \in Samples, NEW w \in Samples, NEW y \in Samples,
         NEW imm \in Samples, NEW held \in Samples,
         Effect(i, imm, held, File(r, x, y)) # Effect(i, imm, held, File(r, w, y))
  PROVE  r \in Depends(i)
<1>. DEFINE gpr == File(r, w, y)
<1>1. gpr \in RegisterFiles /\ [gpr EXCEPT ![r] = x] = File(r, x, y)
  BY Filed
<1>2. Effect(i, imm, held, [gpr EXCEPT ![r] = x]) # Effect(i, imm, held, gpr)
  BY <1>1
<1>. DEFINE Differs(g, v, m, h) == Effect(i, m, h, [g EXCEPT ![r] = v]) # Effect(i, m, h, g)
<1>3. Differs(gpr, x, imm, held)
  BY <1>2
<1>. HIDE DEF gpr, Differs
<1>4. \E g \in RegisterFiles, v, m, h \in Samples : Differs(g, v, m, h)
  BY <1>1, <1>3
<1>. QED  BY <1>4 DEF Depends, Differs

\* What each instruction does, field by field.
LEMMA EffectOf ==
  ASSUME NEW i, NEW imm, NEW held, NEW gpr
  PROVE  LET e == Effect(i, imm, held, gpr)
             x == gpr[i.rs1]
             y == gpr[i.rs2]
         IN  /\ i.case \in {"lui", "auipc", "jal", "jalr", "immediate", "unary", "register",
                            "load", "atomic", "csr", "csri"} => e.rd = i.rd
             /\ i.case \in {"branch", "store", "fence"} => e.rd = 0
             /\ i.case = "jalr" => e.pc = Plus(x, imm) \ {0, 1}
             /\ i.case = "branch" => e.pc = IF Taken(i.op, x, y) THEN imm ELSE {2}
             /\ i.case = "load" => e.address = Plus(x, imm)
             /\ i.case = "store" => e.address = Plus(x, imm) /\ e.data = y
             /\ i.case = "immediate" => e.value = Binary(i.op, x, imm)
             /\ i.case = "unary" => e.value = Unary(i.op, x)
             /\ i.case = "register" => e.value = Binary(i.op, x, y)
             /\ i.case = "atomic" => e.address = x /\ e.data = Computed(i.op, held, y)
             /\ i.case = "csr" => e.data = x
<1>1. CASE i.case \in {"lui", "auipc", "jal", "fence"}
  BY <1>1 DEF Effect, Nothing
<1>2. CASE i.case \in {"jalr", "branch"}
  BY <1>2 DEF Effect, Nothing
<1>3. CASE i.case \in {"load", "store", "csr", "csri"}
  BY <1>3 DEF Effect, Nothing
<1>4. CASE i.case \in {"immediate", "unary", "register", "atomic"}
  BY <1>4 DEF Effect, Nothing
<1>. QED  BY <1>1, <1>2, <1>3, <1>4

Cases == {"lui", "auipc", "jal", "jalr", "load", "store", "csr", "csri", "fence", "branch",
          "immediate", "unary", "register", "atomic"}

\* The fields of an instruction.
LEMMA InstructionFields ==
  ASSUME NEW i \in Instructions
  PROVE  /\ i.case \in Cases /\ i.rd \in {0, 1} /\ i.rs1 \in {0, 1, 2} /\ i.rs2 \in {0, 1, 2}
         /\ i.case = "branch" => i.op \in BranchOps
         /\ i.case = "immediate" => i.op \in RegisterOps
         /\ i.case = "unary" => i.op \in UnaryOps
         /\ i.case = "register" => i.op \in RegisterOps
         /\ i.case = "atomic" => i.op \in AmoKinds
<1>1. ImmediateOps \subseteq RegisterOps
  BY DEF ImmediateOps, RegisterOps, AddOps, BitOps, ShiftOps
<1>2. ASSUME NEW cases, NEW ops, i \in Instruction(cases, ops)
      PROVE  /\ i.case \in cases /\ i.op \in ops /\ i.rd \in {0, 1}
             /\ i.rs1 \in {0, 1, 2} /\ i.rs2 \in {0, 1, 2}
  BY <1>2 DEF Instruction
<1>3. CASE i \in Instruction({"lui", "auipc", "jal", "jalr", "load", "store", "csr", "csri", "fence"}, {""})
  <2>1. /\ i.case \in {"lui", "auipc", "jal", "jalr", "load", "store", "csr", "csri", "fence"}
        /\ i.rd \in {0, 1} /\ i.rs1 \in {0, 1, 2} /\ i.rs2 \in {0, 1, 2}
    BY <1>2, <1>3
  <2>. QED  BY <2>1 DEF Cases
<1>4. CASE i \in Instruction({"branch"}, BranchOps)
  BY <1>2, <1>4 DEF Cases
<1>5. CASE i \in Instruction({"immediate"}, ImmediateOps)
  BY <1>1, <1>2, <1>5 DEF Cases
<1>6. CASE i \in Instruction({"unary"}, UnaryOps)
  BY <1>2, <1>6 DEF Cases
<1>7. CASE i \in Instruction({"register"}, RegisterOps)
  BY <1>2, <1>7 DEF Cases
<1>8. CASE i \in Instruction({"atomic"}, AmoKinds)
  BY <1>2, <1>8 DEF Cases
<1>. QED  BY <1>3, <1>4, <1>5, <1>6, <1>7, <1>8 DEF Instructions

\* The register written is the one reported, or none.
LEMMA WritesReported ==
  ASSUME NEW i \in Instructions, NEW imm, NEW held, NEW gpr
  PROVE  Effect(i, imm, held, gpr).rd = Reported(i).rd
<1>1. i.case \in Cases
  BY InstructionFields
<1>. QED  BY <1>1, EffectOf DEF Reported, Cases

\* A register that is not reported makes no difference.
LEMMA UnreportedUnused ==
  ASSUME NEW i \in Instructions, NEW imm, NEW held, NEW gpr, NEW h,
         NEW r \in {1, 2}, r # Reported(i).rs1, r # Reported(i).rs2,
         \A q \in {0, 1, 2} : q # r => h[q] = gpr[q]
  PROVE  Effect(i, imm, held, h) = Effect(i, imm, held, gpr)
<1>1. i.case \in Cases /\ i.rs1 \in {0, 1, 2} /\ i.rs2 \in {0, 1, 2}
  BY InstructionFields
<1>3. (r # i.rs1 => h[i.rs1] = gpr[i.rs1]) /\ (r # i.rs2 => h[i.rs2] = gpr[i.rs2])
  BY <1>1
<1>4. CASE i.case \in {"lui", "auipc", "jal", "csri", "fence"}
  BY <1>4 DEF Effect
<1>5. CASE i.case \in {"jalr", "load", "immediate", "unary", "csr"}
  <2>1. h[i.rs1] = gpr[i.rs1]
    BY <1>3, <1>5 DEF Reported
  <2>. QED  BY <1>5, <2>1 DEF Effect
<1>6. CASE i.case \in {"store", "branch", "register", "atomic"}
  <2>1. h[i.rs1] = gpr[i.rs1] /\ h[i.rs2] = gpr[i.rs2]
    BY <1>3, <1>6 DEF Reported
  <2>. QED  BY <1>6, <2>1 DEF Effect
<1>. QED  BY <1>1, <1>4, <1>5, <1>6 DEF Cases

\* A register that is reported makes a difference.
LEMMA ReportedUsed ==
  ASSUME NEW i \in Instructions, ~MayCancel(i),
         NEW r \in {1, 2}, r \in {Reported(i).rs1, Reported(i).rs2}
  PROVE  r \in Depends(i)
<1>. DEFINE E(imm, held, v, y) == Effect(i, imm, held, File(r, v, y))
<1>1. /\ i.case \in Cases /\ i.rs1 \in {0, 1, 2} /\ i.rs2 \in {0, 1, 2}
      /\ i.case = "branch" => i.op \in BranchOps
      /\ i.case = "immediate" => i.op \in RegisterOps
      /\ i.case = "unary" => i.op \in UnaryOps
      /\ i.case = "register" => i.op \in RegisterOps
      /\ i.case = "atomic" => i.op \in AmoKinds
  BY InstructionFields
<1>2. /\ {} \in Samples /\ {0} \in Samples /\ {1, 2} \in Samples
      /\ {} \in Words /\ {0} \in Words /\ {1, 2} \in Words
  BY SampleWords
<1>3. \A x \in Words : Plus(x, {}) = x
  BY Unchanging
<1>4. ASSUME NEW x \in Samples, NEW w \in Samples, NEW y \in Samples, NEW imm \in Samples,
             NEW held \in Samples, E(imm, held, x, y) # E(imm, held, w, y)
      PROVE  r \in Depends(i)
  BY <1>4, Tells
<1>5. ASSUME NEW v \in Samples, NEW y \in Samples
      PROVE  File(r, v, y)[r] = v /\ \A q \in {1, 2} \ {r} : File(r, v, y)[q] = y
  BY Filed
<1>6. CASE i.case \in {"lui", "auipc", "jal", "csri", "fence"}
  BY <1>6 DEF Reported
<1>7. CASE i.case \in {"jalr", "load", "immediate", "unary", "csr"}
  <2>1. r = i.rs1
    BY <1>7 DEF Reported
  <2>2. CASE i.case = "jalr"
    <3>1. E({}, {}, {1, 2}, {}).pc = {1, 2} \ {0, 1} /\ E({}, {}, {}, {}).pc = {} \ {0, 1}
      BY <1>2, <1>3, <1>5, <2>1, <2>2, EffectOf
    <3>. HIDE DEF E
    <3>. QED  BY <1>2, <1>4, <3>1
  <2>3. CASE i.case = "load"
    <3>1. E({}, {}, {0}, {}).address = {0} /\ E({}, {}, {}, {}).address = {}
      BY <1>2, <1>3, <1>5, <2>1, <2>3, EffectOf
    <3>. HIDE DEF E
    <3>. QED  BY <1>2, <1>4, <3>1
  <2>4. CASE i.case = "immediate"
    <3>1. PICK x \in Samples, w \in Samples, y \in Samples : Binary(i.op, x, y) # Binary(i.op, w, y)
      BY <1>1, <2>4, BothOperandsTell
    <3>2. E(y, {}, x, {}).value = Binary(i.op, x, y) /\ E(y, {}, w, {}).value = Binary(i.op, w, y)
      BY <1>2, <1>5, <2>1, <2>4, EffectOf
    <3>. HIDE DEF E
    <3>. QED  BY <1>2, <1>4, <3>1, <3>2
  <2>5. CASE i.case = "unary"
    <3>1. E({}, {}, {}, {}).value = Unary(i.op, {}) /\ E({}, {}, {0}, {}).value = Unary(i.op, {0})
      BY <1>2, <1>5, <2>1, <2>5, EffectOf
    <3>2. Unary(i.op, {}) # Unary(i.op, {0})
      BY <1>1, <2>5, UnaryTells
    <3>. HIDE DEF E
    <3>. QED  BY <1>2, <1>4, <3>1, <3>2
  <2>6. CASE i.case = "csr"
    <3>1. E({}, {}, {0}, {}).data = {0} /\ E({}, {}, {}, {}).data = {}
      BY <1>2, <1>5, <2>1, <2>6, EffectOf
    <3>. HIDE DEF E
    <3>. QED  BY <1>2, <1>4, <3>1
  <2>. QED  BY <1>7, <2>2, <2>3, <2>4, <2>5, <2>6
<1>8. CASE i.case \in {"store", "atomic"}
  <2>1. CASE r = i.rs1
    <3>1. E({}, {}, {0}, {}).address = {0} /\ E({}, {}, {}, {}).address = {}
      BY <1>2, <1>3, <1>5, <1>8, <2>1, EffectOf
    <3>. HIDE DEF E
    <3>. QED  BY <1>2, <1>4, <3>1
  <2>2. CASE r = i.rs2 /\ i.case = "store"
    <3>1. E({}, {}, {0}, {}).data = {0} /\ E({}, {}, {}, {}).data = {}
      BY <1>2, <1>5, <2>2, EffectOf
    <3>. HIDE DEF E
    <3>. QED  BY <1>2, <1>4, <3>1
  <2>3. CASE r = i.rs2 /\ i.case = "atomic"
    <3>1. PICK held \in Samples, y \in Samples, v \in Samples :
            Computed(i.op, held, y) # Computed(i.op, held, v)
      BY <1>1, <2>3, AtomicsTell
    <3>2. /\ E({}, held, y, {}).data = Computed(i.op, held, y)
          /\ E({}, held, v, {}).data = Computed(i.op, held, v)
      BY <1>2, <1>5, <2>3, EffectOf
    <3>. HIDE DEF E
    <3>. QED  BY <1>2, <1>4, <3>1, <3>2
  <2>4. r = i.rs1 \/ r = i.rs2
    BY <1>8 DEF Reported
  <2>. QED  BY <1>8, <2>1, <2>2, <2>3, <2>4
<1>9. CASE i.case \in {"register", "branch"}
  <2>1. {i.rs1, i.rs2} = {1, 2}
    BY <1>9 DEF MayCancel
  <2>2. CASE r = i.rs1
    <3>1. i.rs2 \in {1, 2} \ {r}
      BY <2>1, <2>2
    <3>2. CASE i.case = "register"
      <4>1. PICK x \in Samples, w \in Samples, y \in Samples : Binary(i.op, x, y) # Binary(i.op, w, y)
        BY <1>1, <3>2, BothOperandsTell
      <4>2. E({}, {}, x, y).value = Binary(i.op, x, y) /\ E({}, {}, w, y).value = Binary(i.op, w, y)
        BY <1>2, <1>5, <2>2, <3>1, <3>2, EffectOf
      <4>. HIDE DEF E
      <4>. QED  BY <1>2, <1>4, <4>1, <4>2
    <3>3. CASE i.case = "branch"
      <4>1. PICK x \in Samples, w \in Samples, y \in Samples : Taken(i.op, x, y) /\ ~Taken(i.op, w, y)
        BY <1>1, <3>3, BranchesTell
      <4>2. E({}, {}, x, y).pc = {} /\ E({}, {}, w, y).pc = {2}
        BY <1>2, <1>5, <2>2, <3>1, <3>3, <4>1, EffectOf
      <4>. HIDE DEF E
      <4>3. E({}, {}, x, y) # E({}, {}, w, y)
        BY <4>2
      <4>. QED  BY <1>2, <1>4, <4>3
    <3>. QED  BY <1>9, <3>2, <3>3
  <2>3. CASE r = i.rs2
    <3>1. i.rs1 \in {1, 2} \ {r}
      BY <2>1, <2>3
    <3>2. CASE i.case = "register"
      <4>1. PICK x \in Samples, y \in Samples, v \in Samples : Binary(i.op, x, y) # Binary(i.op, x, v)
        BY <1>1, <3>2, BothOperandsTell
      <4>2. E({}, {}, y, x).value = Binary(i.op, x, y) /\ E({}, {}, v, x).value = Binary(i.op, x, v)
        BY <1>2, <1>5, <2>3, <3>1, <3>2, EffectOf
      <4>. HIDE DEF E
      <4>. QED  BY <1>2, <1>4, <4>1, <4>2
    <3>3. CASE i.case = "branch"
      <4>1. PICK x \in Samples, y \in Samples, v \in Samples : Taken(i.op, x, y) /\ ~Taken(i.op, x, v)
        BY <1>1, <3>3, BranchesTell
      <4>2. E({}, {}, y, x).pc = {} /\ E({}, {}, v, x).pc = {2}
        BY <1>2, <1>5, <2>3, <3>1, <3>3, <4>1, EffectOf
      <4>. HIDE DEF E
      <4>3. E({}, {}, y, x) # E({}, {}, v, x)
        BY <4>2
      <4>. QED  BY <1>2, <1>4, <4>3
    <3>. QED  BY <1>9, <3>2, <3>3
  <2>. QED  BY <1>9, <2>2, <2>3 DEF Reported
<1>. QED  BY <1>1, <1>6, <1>7, <1>8, <1>9 DEF Cases

\* What RegistersExact says of one instruction.
LEMMA ReportsExactly ==
  ASSUME NEW i \in Instructions
  PROVE  LET sources == {Reported(i).rs1, Reported(i).rs2} \ {0}
             written == {Effect(i, imm, held, gpr).rd :
                           gpr \in RegisterFiles, imm, held \in Samples}
         IN  /\ written \subseteq {Reported(i).rd}
             /\ Depends(i) \subseteq sources
             /\ ~MayCancel(i) => Depends(i) = sources
<1>. DEFINE sources == {Reported(i).rs1, Reported(i).rs2} \ {0}
            written == {Effect(i, imm, held, gpr).rd :
                          gpr \in RegisterFiles, imm, held \in Samples}
<1>1. written \subseteq {Reported(i).rd}
  BY WritesReported
<1>2. sources \subseteq {1, 2}
  <2>1. i.case \in Cases /\ i.rs1 \in {0, 1, 2} /\ i.rs2 \in {0, 1, 2}
    BY InstructionFields
  <2>. QED  BY <2>1 DEF Reported, Cases
<1>3. Depends(i) \subseteq sources
  <2>1. ASSUME NEW r \in Depends(i), r \notin sources PROVE FALSE
    <3>1. PICK gpr \in RegisterFiles, w \in Samples, imm \in Samples, held \in Samples :
            Effect(i, imm, held, [gpr EXCEPT ![r] = w]) # Effect(i, imm, held, gpr)
      BY DEF Depends
    <3>2. r \in {1, 2}
      BY DEF Depends
    <3>3. r # Reported(i).rs1 /\ r # Reported(i).rs2
      BY <2>1, <3>2
    <3>. DEFINE h == [gpr EXCEPT ![r] = w]
    <3>4. /\ \A q \in {0, 1, 2} : q # r => h[q] = gpr[q]
          /\ Effect(i, imm, held, h) # Effect(i, imm, held, gpr)
      BY <3>1 DEF RegisterFiles
    <3>. HIDE DEF h, sources, written
    <3>5. Effect(i, imm, held, h) = Effect(i, imm, held, gpr)
      BY <3>2, <3>3, <3>4, UnreportedUnused
    <3>. QED  BY <3>4, <3>5
  <2>. QED  BY <2>1
<1>4. ASSUME ~MayCancel(i) PROVE sources \subseteq Depends(i)
  <2>1. ASSUME NEW r \in sources PROVE r \in Depends(i)
    <3>1. r \in {1, 2}
      BY <1>2
    <3>2. r \in {Reported(i).rs1, Reported(i).rs2}
      OBVIOUS
    <3>. HIDE DEF sources
    <3>. QED  BY <1>4, <3>1, <3>2, ReportedUsed
  <2>. QED  BY <2>1
<1>. HIDE DEF sources, written
<1>5. ~MayCancel(i) => Depends(i) = sources
  BY <1>3, <1>4
<1>. QED  BY <1>1, <1>3, <1>5 DEF sources, written

\* The registers in the trace are the ones an instruction reads and writes,
\* no fewer and no more, for every form of every instruction and for words of
\* every width (exec.cpp:505-508 and where each case fills current_trace).
THEOREM RegistersReported == AlgorithmSpec => []RegistersExact
<1>. DEFINE Form == subject.about = "instruction" => subject.i \in Instructions
<1>1. AlgorithmInit => Form
  <2>1. ASSUME subject \in [about : {"operands"}, a : Words, b : Words]
        PROVE  subject.about # "instruction"
    BY <2>1
  <2>2. ASSUME subject = [about |-> "accesses"] PROVE subject.about # "instruction"
    BY <2>2
  <2>3. ASSUME subject \in [about : {"instruction"}, i : Instructions] PROVE subject.i \in Instructions
    BY <2>3
  <2>. QED  BY <2>1, <2>2, <2>3 DEF AlgorithmInit
<1>2. Form /\ [AlgorithmNext]_algorithmVars => Form'
  <2>1. ASSUME subject' = subject PROVE Form => Form'
    BY <2>1
  <2>. QED  BY <2>1 DEF AlgorithmNext, algorithmVars
<1>3. Form => RegistersExact
  <2>. SUFFICES ASSUME Form, subject.about = "instruction" PROVE RegistersExact
    BY DEF RegistersExact
  <2>. DEFINE j == subject.i
  <2>1. j \in Instructions
    OBVIOUS
  <2>. HIDE DEF j
  <2>2. LET sources == {Reported(j).rs1, Reported(j).rs2} \ {0}
            written == {Effect(j, imm, held, gpr).rd :
                          gpr \in RegisterFiles, imm, held \in Samples}
        IN  /\ written \subseteq {Reported(j).rd}
            /\ Depends(j) \subseteq sources
            /\ ~MayCancel(j) => Depends(j) = sources
    BY <2>1, ReportsExactly
  <2>. QED  BY <2>2 DEF RegistersExact, j
<1>. QED  BY <1>1, <1>2, <1>3, PTL DEF AlgorithmSpec

-----------------------------------------------------------------------------
(* The PC-stride prefetcher: distances modulo the address space             *)

\* A distance is a line number, and is zero only between equal lines.
LEMMA Distance ==
  ASSUME NEW m \in Lines, NEW n \in Lines
  PROVE  /\ (m - n) % NumLines \in Lines
         /\ (m - n) % NumLines = 0 <=> m = n
<1>0. /\ NumLines \in Nat \ {0} /\ m \in Nat /\ n \in Nat /\ m < NumLines /\ n < NumLines
  BY PrefetcherAssumption DEF Lines
<1>1. CASE m >= n
  <2>1. m - n \in 0 .. NumLines - 1
    BY <1>0, <1>1
  <2>2. (m - n) % NumLines = m - n
    BY ONLY <1>0, <2>1
  <2>. QED  BY <1>0, <2>1, <2>2 DEF Lines
<1>2. CASE m < n
  <2>1. m - n + NumLines \in 1 .. NumLines - 1
    BY <1>0, <1>2
  <2>2. (m - n) % NumLines = m - n + NumLines
    BY ONLY <1>0, <2>1
  <2>. QED  BY <1>0, <1>2, <2>1, <2>2 DEF Lines
<1>. QED  BY <1>0, <1>1, <1>2

-----------------------------------------------------------------------------
(* An entry of the table and the lines of its pc                           *)

\* What the entry says of the lines: the latest one, the latest distance,
\* and whether one or two distances before it were the same.
Describes(entry, lines) ==
  /\ entry \in StrideEntry /\ lines \in Seq(Lines)
  /\ entry.valid <=> Len(lines) > 0
  /\ Len(lines) > 0 => entry.last_line_addr = lines[Len(lines)]
  /\ \A k \in 1 .. Len(lines) - 1 : lines[k] # lines[k + 1]
  /\ Len(lines) <= 1 => entry.last_stride = 0 /\ entry.confidence = 0
  /\ Len(lines) >= 2 => entry.last_stride = Step(lines, 0)
  /\ entry.confidence >= 1 <=> Len(lines) >= 3 /\ Step(lines, 0) = Step(lines, 1)
  /\ entry.confidence >= 2 <=> Regular(lines)

Extends(more, lines, line) == more = Append(lines, line)

\* The lines and their distances after one more line.
LEMMA OneMore ==
  ASSUME NEW lines \in Seq(Lines), NEW line \in Lines, NEW more, Extends(more, lines, line)
  PROVE  /\ more \in Seq(Lines) /\ Len(more) = Len(lines) + 1 /\ Len(lines) \in Nat
         /\ \A k \in 1 .. Len(lines) : more[k] = lines[k]
         /\ more[Len(more)] = line
         /\ Len(lines) > 0 => Step(more, 0) = (line - lines[Len(lines)]) % NumLines
         /\ Len(lines) > 1 => Step(more, 1) = Step(lines, 0)
         /\ Len(lines) > 2 => Step(more, 2) = Step(lines, 1)
<1>. DEFINE n == Len(lines)
<1>1. /\ more \in Seq(Lines) /\ Len(more) = n + 1 /\ n \in Nat
      /\ \A k \in 1 .. n : more[k] = lines[k]
      /\ more[n + 1] = line
  BY AppendProperties DEF Extends
<1>. HIDE DEF n
<1>2. \A k \in 0 .. 2 : Step(more, k) = (more[n + 1 - k] - more[n + 1 - k - 1]) % NumLines
  BY ONLY <1>1 DEF Step
<1>3. \A k \in 0 .. 1 : Step(lines, k) = (lines[n - k] - lines[n - k - 1]) % NumLines
  BY DEF Step, n
<1>4. ASSUME n > 0 PROVE Step(more, 0) = (line - lines[n]) % NumLines
  <2>1. n + 1 - 0 = n + 1 /\ n + 1 - 0 - 1 = n /\ n \in 1 .. n
    BY <1>1, <1>4
  <2>. QED  BY <1>1, <1>2, <2>1
<1>5. ASSUME n > 1 PROVE Step(more, 1) = Step(lines, 0)
  <2>1. /\ n + 1 - 1 = n /\ n + 1 - 1 - 1 = n - 1 /\ n - 0 = n /\ n - 0 - 1 = n - 1
        /\ n \in 1 .. n /\ n - 1 \in 1 .. n
    BY <1>1, <1>5
  <2>. QED  BY <1>1, <1>2, <1>3, <2>1
<1>6. ASSUME n > 2 PROVE Step(more, 2) = Step(lines, 1)
  <2>1. /\ n + 1 - 2 = n - 1 /\ n + 1 - 2 - 1 = n - 2 /\ n - 1 - 1 = n - 2
        /\ n - 1 \in 1 .. n /\ n - 2 \in 1 .. n
    BY <1>1, <1>6
  <2>. QED  BY <1>1, <1>2, <1>3, <2>1
<1>. QED  BY <1>1, <1>4, <1>5, <1>6 DEF n

\* on_access trains the entry to describe the lines with the new one, and
\* triggers exactly at the fourth line of a progression and after.
LEMMA AccessDescribes ==
  ASSUME NEW entry, NEW lines, Describes(entry, lines), NEW line \in Lines,
         NEW more, more = Remember(lines, line)
  PROVE  /\ Describes(Trained(entry, line), more)
         /\ Triggers(entry, line) <=> more # lines /\ Regular(more)
         /\ Triggers(entry, line) => Stride(entry, line) = Step(more, 0)
<1>. DEFINE n == Len(lines)
            s == Stride(entry, line)
            new == Trained(entry, line)
<1>0. /\ entry \in StrideEntry /\ lines \in Seq(Lines) /\ n \in Nat
      /\ entry.confidence \in 0 .. 3 /\ entry.last_line_addr \in Lines
      /\ 0 \in Lines
  BY PrefetcherAssumption DEF Describes, StrideEntry, Lines, kMaxConfidence
<1>1. CASE n = 0
  <2>1. lines = <<>> /\ ~entry.valid
    BY <1>0, <1>1, EmptySeq DEF Describes
  <2>2. more = Append(lines, line)
    BY <2>1 DEF Remember
  <2>3. more \in Seq(Lines) /\ Len(more) = 1 /\ more[1] = line
    BY <1>0, <1>1, <2>2
  <2>4. /\ new.valid /\ new.last_line_addr = line /\ new.last_stride = 0
        /\ new.confidence = 0 /\ new \in StrideEntry
    <3>1. new = [valid |-> TRUE, last_line_addr |-> line, last_stride |-> 0,
                 confidence |-> 0]
      BY <2>1 DEF Trained, NoEntry
    <3>. HIDE DEF new
    <3>. QED  BY <1>0, <3>1 DEF StrideEntry, kMaxConfidence
  <2>. HIDE DEF new
  <2>5. Describes(new, more) /\ ~Regular(more)
    BY <2>3, <2>4 DEF Describes, Regular
  <2>. QED  BY <2>1, <2>5 DEF Triggers, new
<1>2. ASSUME n > 0
      PROVE  /\ lines # <<>> /\ entry.valid /\ lines[n] = entry.last_line_addr
             /\ lines[n] \in Lines
             /\ s \in Lines /\ s = (line - lines[n]) % NumLines
             /\ s = 0 <=> line = lines[n]
  <2>1. lines # <<>> /\ entry.valid /\ lines[n] = entry.last_line_addr
    BY <1>0, <1>2, EmptySeq DEF Describes
  <2>2. s = (line - lines[n]) % NumLines
    BY <2>1 DEF Stride
  <2>3. lines[n] \in Lines
    BY <1>0, <2>1
  <2>. HIDE DEF s, n
  <2>. QED  BY <2>1, <2>2, <2>3, Distance
<1>3. CASE n > 0 /\ line = lines[n]
  <2>1. more = lines
    BY <1>2, <1>3 DEF Remember
  <2>2. s = 0 /\ entry.valid
    BY <1>2, <1>3
  <2>3. new = entry
    BY <2>2 DEF Trained
  <2>. QED  BY <2>1, <2>2, <2>3 DEF Triggers
<1>4. CASE n > 0 /\ line # lines[n]
  <2>1. more = Append(lines, line)
    BY <1>4 DEF Remember
  <2>2. /\ more \in Seq(Lines) /\ Len(more) = n + 1
        /\ \A k \in 1 .. n : more[k] = lines[k]
        /\ more[n + 1] = line
        /\ Step(more, 0) = s
        /\ n > 1 => Step(more, 1) = Step(lines, 0)
        /\ n > 2 => Step(more, 2) = Step(lines, 1)
    <3>1. /\ more \in Seq(Lines) /\ Len(more) = n + 1
          /\ \A k \in 1 .. n : more[k] = lines[k]
          /\ more[Len(more)] = line
          /\ n > 0 => Step(more, 0) = (line - lines[n]) % NumLines
          /\ n > 1 => Step(more, 1) = Step(lines, 0)
          /\ n > 2 => Step(more, 2) = Step(lines, 1)
      <4>1. lines \in Seq(Lines) /\ line \in Lines /\ Extends(more, lines, line)
        BY <1>0, <2>1 DEF Extends
      <4>. QED  BY ONLY <4>1, OneMore DEF n
    <3>2. s = (line - lines[n]) % NumLines
      BY <1>2, <1>4
    <3>. HIDE DEF s, n
    <3>. QED  BY <1>4, <3>1, <3>2
  <2>3. entry.valid /\ s # 0 /\ s \in Lines
    BY <1>2, <1>4
  <2>4. /\ new.valid /\ new.last_line_addr = line /\ new.last_stride = s
        /\ new.confidence = Confidence(entry, line)
        /\ Confidence(entry, line) \in 0 .. 3 /\ new \in StrideEntry
    <3>1. Confidence(entry, line) \in 0 .. 3
      BY <1>0 DEF Confidence, Smaller, kMaxConfidence
    <3>. QED  BY <1>0, <2>3, <3>1 DEF Trained, StrideEntry, kMaxConfidence
  <2>5. /\ s = entry.last_stride =>
             /\ Confidence(entry, line) >= 1
             /\ Confidence(entry, line) >= 2 <=> entry.confidence >= 1
        /\ s # entry.last_stride => Confidence(entry, line) = 0
    BY <1>0 DEF Confidence, Smaller, kMaxConfidence
  <2>6. Triggers(entry, line) <=> Confidence(entry, line) >= 2
    BY <2>3 DEF Triggers, kTriggerConfidence
  <2>. DEFINE conf == Confidence(entry, line)
  <2>7. /\ n = 1 => entry.last_stride = 0
        /\ n > 1 => entry.last_stride = Step(lines, 0)
        /\ entry.confidence >= 1 <=> n > 2 /\ Step(lines, 0) = Step(lines, 1)
    BY <1>0 DEF Describes
  <2>. HIDE DEF new, s, conf, n
  <2>8. conf >= 1 <=> n + 1 >= 3 /\ Step(more, 0) = Step(more, 1)
    BY <1>0, <1>4, <2>2, <2>3, <2>4, <2>5, <2>7 DEF conf
  <2>9. conf >= 2 <=> Regular(more)
    <3>1. conf >= 2 <=> s = entry.last_stride /\ entry.confidence >= 1
      BY <2>5 DEF conf
    <3>2. Regular(more) <=> n > 2 /\ s = Step(lines, 0) /\ Step(lines, 0) = Step(lines, 1)
      BY <1>0, <2>2 DEF Regular
    <3>. QED  BY <1>0, <2>7, <3>1, <3>2
  <2>10. \A k \in 1 .. Len(more) - 1 : more[k] # more[k + 1]
    <3>. SUFFICES ASSUME NEW k \in 1 .. n PROVE more[k] # more[k + 1]
      BY <1>0, <2>2
    <3>1. CASE k = n
      BY <1>0, <1>4, <2>2, <3>1
    <3>2. CASE k # n
      <4>1. k \in 1 .. n - 1 /\ k + 1 \in 1 .. n
        BY <1>0, <3>2
      <4>2. lines[k] # lines[k + 1]
        BY <4>1 DEF Describes, n
      <4>. QED  BY <2>2, <4>1, <4>2
    <3>. QED  BY <3>1, <3>2
  <2>11. Describes(new, more)
    BY <1>0, <1>4, <2>2, <2>4, <2>8, <2>9, <2>10 DEF Describes, conf
  <2>12. more # lines
    BY <1>0, <2>2 DEF n
  <2>. QED  BY <2>2, <2>6, <2>9, <2>11, <2>12 DEF conf, new, s
<1>. QED  BY <1>0, <1>1, <1>3, <1>4
-----------------------------------------------------------------------------
(* The prefetcher under any sequence of accesses                           *)

IInv == /\ DOMAIN table = Pcs /\ table \in [Pcs -> StrideEntry]
        /\ touched \in [Pcs -> Seq(Lines)]
        /\ \A pc \in Pcs : pc # 0 => Describes(table[pc], touched[pc])

\* Initially no entry is valid and no line touched.
LEMMA InitDescribes == Init => IInv
<1>. SUFFICES ASSUME Init PROVE IInv
  OBVIOUS
<1>1. NoEntry \in StrideEntry
  BY PrefetcherAssumption DEF NoEntry, StrideEntry, Lines, kMaxConfidence
<1>2. Describes(NoEntry, <<>>)
  <2>1. /\ NoEntry.valid = FALSE /\ NoEntry.last_stride = 0 /\ NoEntry.confidence = 0
        /\ <<>> \in Seq(Lines) /\ Len(<<>>) = 0
    BY EmptySeq DEF NoEntry
  <2>. QED  BY <1>1, <2>1 DEF Describes, Regular
<1>. QED  BY <1>1, <1>2, EmptySeq DEF Init, IInv

\* An access preserves the invariant.
LEMMA AccessStep ==
  ASSUME IInv, NEW pc \in Pcs, NEW line \in Lines, Access(pc, line)
  PROVE  /\ IInv'
         /\ issued' = IF pc # 0 /\ touched'[pc] # touched[pc] /\ Regular(touched'[pc])
                      THEN {(line + Step(touched'[pc], 0)) % NumLines} ELSE {}
<1>. DEFINE entry == table[pc]
            lines == touched[pc]
            more == Remember(lines, line)
<1>1. /\ issued' = StrideCandidates(table, pc, line)
      /\ table' = StrideTable(table, pc, line)
      /\ touched' = [touched EXCEPT ![pc] = more]
  BY DEF Access
<1>2. /\ entry \in StrideEntry /\ lines \in Seq(Lines)
      /\ touched'[pc] = more /\ more \in Seq(Lines)
      /\ \A p \in Pcs : p # pc => touched'[p] = touched[p]
  <2>1. entry \in StrideEntry /\ lines \in Seq(Lines)
    BY DEF IInv
  <2>2. more \in Seq(Lines)
    BY <2>1, AppendProperties DEF Remember
  <2>. HIDE DEF more
  <2>. QED  BY <1>1, <2>1, <2>2 DEF IInv
<1>3. touched' \in [Pcs -> Seq(Lines)]
  <2>. HIDE DEF more
  <2>. QED  BY <1>1, <1>2 DEF IInv
<1>4. CASE pc = 0
  <2>1. table' = table /\ issued' = {}
    BY <1>1, <1>4 DEF StrideTable, StrideCandidates
  <2>2. \A p \in Pcs : p # 0 => Describes(table'[p], touched'[p])
    BY <1>2, <1>4, <2>1 DEF IInv
  <2>. QED  BY <1>3, <1>4, <2>1, <2>2 DEF IInv
<1>5. CASE pc # 0
  <2>1. Describes(entry, lines)
    BY <1>5 DEF IInv
  <2>. DEFINE new == Trained(entry, line)
  <2>2. /\ Describes(new, more)
        /\ Triggers(entry, line) <=> more # lines /\ Regular(more)
        /\ Triggers(entry, line) => Stride(entry, line) = Step(more, 0)
    BY <2>1, AccessDescribes
  <2>3. new \in StrideEntry
    BY <2>2 DEF Describes
  <2>4. table' = [table EXCEPT ![pc] = new]
    BY <1>1, <1>5 DEF StrideTable
  <2>5. issued' = IF Triggers(entry, line)
                  THEN {(line + Stride(entry, line)) % NumLines} ELSE {}
    BY <1>1, <1>5 DEF StrideCandidates
  <2>. HIDE DEF new, more
  <2>6. DOMAIN table' = Pcs /\ table' \in [Pcs -> StrideEntry]
    BY <2>3, <2>4 DEF IInv
  <2>7. \A p \in Pcs : p # 0 => Describes(table'[p], touched'[p])
    <3>1. table'[pc] = new /\ \A p \in Pcs : p # pc => table'[p] = table[p]
      BY <2>4 DEF IInv
    <3>. QED  BY <1>2, <2>2, <3>1 DEF IInv
  <2>. QED  BY <1>2, <1>3, <1>5, <2>2, <2>5, <2>6, <2>7 DEF IInv
<1>. QED  BY <1>4, <1>5

\* For every address space, and any sequence of accesses by any pcs, a pc
\* prefetches exactly when its last three moves were of equal length, and then
\* the next line of the progression: confidence, its limit and the lines that
\* repeat make no difference to that.
THEOREM ProgressionsOnly == Spec => PrefetchesProgressions
<1>. DEFINE Rightly == \A pc \in Pcs, line \in Lines :
               Access(pc, line) =>
                 issued' = LET lines == touched'[pc]
                           IN  IF pc # 0 /\ touched'[pc] # touched[pc] /\ Regular(lines)
                               THEN {(line + Step(lines, 0)) % NumLines} ELSE {}
<1>1. IInv /\ [Next]_<<table, issued, touched>> => IInv'
  <2>1. CASE UNCHANGED <<table, issued, touched>>
    BY <2>1 DEF IInv
  <2>2. ASSUME IInv, Next PROVE IInv'
    BY <2>2, AccessStep DEF Next
  <2>. QED  BY <2>1, <2>2
<1>2. IInv => Rightly
  BY AccessStep
<1>. HIDE DEF Rightly
<1>3. Spec => [][Rightly]_<<table, issued, touched>>
  BY <1>1, <1>2, InitDescribes, PTL DEF Spec
<1>. QED  BY <1>3 DEF PrefetchesProgressions, Rightly
=============================================================================
