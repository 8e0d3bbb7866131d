--------------------------- MODULE MatchingProofs ---------------------------
(***************************************************************************)
(* What the operators of Matching do, for all memories and queries:        *)
(* numbers in their order, parts of sequences, keys and the order they     *)
(* make, and quotas.  The proofs about the context lane and about searches *)
(* cite them.                                                              *)
(***************************************************************************)
EXTENDS Matching, FiniteSetTheorems, SequenceTheorems, WellFoundedInduction, TLAPS

-----------------------------------------------------------------------------
(***************************************************************************)
(* Numbers in their order.                                                 *)
(***************************************************************************)

\* Every set of naturals has a least element.
LEMMA LeastNumber ==
  ASSUME NEW T \in SUBSET Nat, T # {}
  PROVE  \E x \in T : \A y \in T : x <= y
<1> DEFINE R == {ss \in Nat \X Nat : ss[1] < ss[2]}
<1>1. IsWellFoundedOn(R, Nat)
  BY NatLessThanWellFounded DEF OpToRel
<1>2. PICK x \in T : \A y \in T : ~(<<y, x>> \in R)
  <2> HIDE DEF R
  <2> QED BY <1>1, WFMin
<1>3. ASSUME NEW y \in T PROVE x <= y
  <2>1. <<y, x>> \in Nat \X Nat
    OBVIOUS
  <2>2. ~(<<y, x>>[1] < <<y, x>>[2])
    BY <1>2, <2>1, Zenon
  <2> QED BY <2>2
<1> QED BY <1>3

\* What holds of 0 and of the successor of each number it holds of holds of all.
LEMMA NaturalsIn ==
  ASSUME NEW S, 0 \in S, \A n \in Nat : n \in S => n + 1 \in S
  PROVE  Nat \subseteq S
<1> DEFINE T == Nat \ S
<1>1. SUFFICES ASSUME T # {} PROVE FALSE
  OBVIOUS
<1>2. T \in SUBSET Nat
  OBVIOUS
<1> HIDE DEF T
<1>3. PICK x \in T : \A y \in T : x <= y
  BY <1>1, <1>2, LeastNumber
<1>4. x \in Nat /\ x \notin S /\ x # 0
  BY DEF T
<1>5. x - 1 \in Nat /\ ~(x <= x - 1) /\ (x - 1) + 1 = x
  BY <1>4
<1>6. x - 1 \in S
  BY <1>3, <1>5 DEF T
<1>7. (x - 1) + 1 \in S
  BY <1>5, <1>6
<1> QED BY <1>4, <1>5, <1>7

\* What a bounded set of naturals has at its end.
LEMMA GreatestNumber ==
  ASSUME NEW b \in Nat, NEW S \in SUBSET (0 .. b), S # {}
  PROVE  Max(S) \in S /\ \A x \in S : x <= Max(S)
<1> DEFINE U == {u \in Nat : \A x \in S : x <= u}
<1>0. \A x \in S : x \in Nat /\ x <= b
  OBVIOUS
<1>1. U \in SUBSET Nat /\ b \in U
  BY <1>0
<1>2. PICK u \in U : \A v \in U : u <= v
  <2> HIDE DEF U
  <2>1. U # {}
    BY <1>1
  <2> QED BY <1>1, <2>1, LeastNumber
<1>3. u \in Nat /\ \A x \in S : x <= u
  OBVIOUS
<1>4. u \in S
  <2>1. SUFFICES ASSUME u \notin S PROVE FALSE
    OBVIOUS
  <2>2. PICK y \in S : TRUE
    OBVIOUS
  <2>3. y \in Nat /\ y <= u /\ y # u
    BY <1>0, <1>3, <2>1
  <2>4. u - 1 \in Nat /\ ~(u <= u - 1)
    BY <1>3, <2>3
  <2>5. \A x \in S : x <= u - 1
    <3>1. TAKE x \in S
    <3>2. x \in Nat /\ x <= u /\ x # u
      BY <1>0, <1>3, <2>1
    <3> QED BY <1>3, <3>2
  <2>6. u - 1 \in U
    BY <2>4, <2>5
  <2> HIDE DEF U
  <2> QED BY <1>2, <2>4, <2>6
<1>5. \E x \in S : \A y \in S : x >= y
  BY <1>0, <1>3, <1>4
<1>6. Max(S) = CHOOSE x \in S : \A y \in S : x >= y
  BY DEF Max
<1>7. Max(S) \in S /\ \A y \in S : Max(S) >= y
  BY <1>5, <1>6
<1> QED BY <1>0, <1>7

Below(S, a) == {b \in S : b < a}

\* The i-th number of a set in its order has i - 1 others below it.
LEMMA InOrderIs ==
  ASSUME NEW S
  PROVE  InOrder(S) = [i \in 1 .. Cardinality(S) |-> CHOOSE a \in S : Cardinality(Below(S, a)) = i - 1]
BY DEF InOrder, Sorted, Below

\* What lies below a number.
LEMMA BelowAre ==
  ASSUME NEW S, NEW a
  PROVE  \A x : x \in Below(S, a) <=> x \in S /\ x < a
BY DEF Below

\* Of a finite set, finitely many lie below a number.
LEMMA BelowFinite ==
  ASSUME NEW S, IsFiniteSet(S), NEW a
  PROVE  IsFiniteSet(Below(S, a)) /\ Cardinality(Below(S, a)) \in Nat
BY FS_Subset, FS_CardinalityType DEF Below

\* A greater element has more below it.
LEMMA BelowLess ==
  ASSUME NEW S \in SUBSET Nat, IsFiniteSet(S), NEW a \in S, NEW b \in S, a < b
  PROVE  Cardinality(Below(S, a)) < Cardinality(Below(S, b))
<1>0. \A x \in S : x \in Nat
  OBVIOUS
<1>1. a \in Nat /\ b \in Nat /\ ~(a < a) /\ \A x \in S : x < a => x < b
  BY <1>0
<1>2. Below(S, a) \subseteq Below(S, b) /\ a \in Below(S, b) /\ a \notin Below(S, a)
  BY <1>1, BelowAre
<1>3. Below(S, a) # Below(S, b)
  BY <1>2
<1>4. IsFiniteSet(Below(S, b))
  BY BelowFinite
<1>5. Cardinality(Below(S, a)) <= Cardinality(Below(S, b))
      /\ (Cardinality(Below(S, a)) = Cardinality(Below(S, b)) => Below(S, a) = Below(S, b))
  BY <1>2, <1>4, FS_Subset
<1> QED BY <1>3, <1>5, BelowFinite

\* Each place is taken by an element.
LEMMA EveryPlace ==
  ASSUME NEW S \in SUBSET Nat, IsFiniteSet(S), NEW i \in 1 .. Cardinality(S)
  PROVE  \E a \in S : Cardinality(Below(S, a)) = i - 1
<1> DEFINE T == {k \in 1 .. Cardinality(S) : \A a \in S : Cardinality(Below(S, a)) # k - 1}
<1>0. Cardinality(S) \in Nat /\ \A x \in S : x \in Nat
  BY FS_CardinalityType
<1>1. SUFFICES ASSUME T # {} PROVE FALSE
  OBVIOUS
<1>2. T \in SUBSET Nat
  BY <1>0
<1>3. PICK k \in T : \A y \in T : k <= y
  <2> HIDE DEF T
  <2> QED BY <1>1, <1>2, LeastNumber
<1>4. k \in 1 .. Cardinality(S) /\ \A a \in S : Cardinality(Below(S, a)) # k - 1
  OBVIOUS
<1>5. CASE k = 1
  <2>1. S # {}
    BY <1>0, <1>4, FS_EmptySet
  <2>2. PICK a \in S : \A b \in S : a <= b
    BY <2>1, LeastNumber
  <2>3. \A b \in S : ~(b < a)
    BY <1>0, <2>2
  <2>4. Below(S, a) = {}
    BY <2>3, BelowAre
  <2>5. Cardinality(Below(S, a)) = 0
    BY <2>4, FS_EmptySet
  <2> QED BY <1>4, <1>5, <2>5
<1>6. CASE k # 1
  <2>1. k - 1 \in 1 .. Cardinality(S) /\ ~(k <= k - 1)
    BY <1>0, <1>4, <1>6
  <2>2. k - 1 \notin T
    BY <1>3, <2>1
  <2>3. PICK a \in S : Cardinality(Below(S, a)) = k - 1 - 1
    BY <2>1, <2>2
  <2> DEFINE U == {b \in S : a < b}
             L == Below(S, a) \cup {a}
  <2>4. a \notin Below(S, a)
    BY <1>0 DEF Below
  <2>5. Cardinality(L) = k - 1
    <3>1. IsFiniteSet(Below(S, a))
      BY BelowFinite
    <3>2. Cardinality(L) = Cardinality(Below(S, a)) + 1
      BY <2>4, <3>1, FS_AddElement
    <3> QED BY <1>0, <1>4, <2>3, <3>2
  <2>6. U # {}
    <3>1. SUFFICES ASSUME U = {} PROVE FALSE
      OBVIOUS
    <3>2. \A b \in S : b = a \/ b < a
      BY <1>0, <3>1
    <3>3. S = L
      BY <3>2, BelowAre
    <3> QED BY <1>0, <1>4, <2>5, <3>3
  <2>7. U \in SUBSET Nat
    OBVIOUS
  <2>8. PICK b \in U : \A c \in U : b <= c
    <3> HIDE DEF U
    <3> QED BY <2>6, <2>7, LeastNumber
  <2>9. Below(S, b) = L
    <3>1. b \in S /\ b \in Nat /\ a \in Nat /\ a < b /\ \A c \in S : a < c => b <= c
      BY <1>0, <2>8
    <3>2. \A c \in S : c < b <=> c < a \/ c = a
      BY <1>0, <3>1
    <3> QED BY <3>2 DEF Below
  <2> QED BY <1>4, <2>5, <2>9
<1> QED BY <1>5, <1>6

\* InOrder lists a set of numbers, increasing, each once.
LEMMA InOrderLists ==
  ASSUME NEW S \in SUBSET Nat, IsFiniteSet(S)
  PROVE  /\ InOrder(S) \in Seq(S) /\ Len(InOrder(S)) = Cardinality(S)
         /\ DOMAIN InOrder(S) = 1 .. Cardinality(S) /\ Cardinality(S) \in Nat
         /\ \A i \in 1 .. Cardinality(S) : InOrder(S)[i] \in S
         /\ \A i, j \in 1 .. Cardinality(S) : i < j => InOrder(S)[i] < InOrder(S)[j]
         /\ \A a \in S : \E i \in 1 .. Cardinality(S) : InOrder(S)[i] = a
         /\ \A i \in 1 .. Cardinality(S) : Cardinality(Below(S, InOrder(S)[i])) = i - 1
<1> DEFINE f == InOrder(S)
           n == Cardinality(S)
<1>1. n \in Nat
  BY FS_CardinalityType
<1>2. ASSUME NEW i \in 1 .. n PROVE f[i] \in S /\ Cardinality(Below(S, f[i])) = i - 1
  <2>1. f[i] = CHOOSE a \in S : Cardinality(Below(S, a)) = i - 1
    BY InOrderIs
  <2>2. \E a \in S : Cardinality(Below(S, a)) = i - 1
    BY EveryPlace
  <2> QED BY <2>1, <2>2
<1>3. DOMAIN f = 1 .. n /\ f = [i \in 1 .. n |-> f[i]]
  <2> HIDE DEF n
  <2>1. f = [i \in 1 .. n |-> CHOOSE a \in S : Cardinality(Below(S, a)) = i - 1]
    BY InOrderIs DEF n
  <2> HIDE DEF f
  <2> QED BY <2>1
<1> HIDE DEF f
<1>4. f \in [1 .. n -> S]
  BY <1>2, <1>3
<1>5. f \in Seq(S) /\ Len(f) = n
  BY <1>1, <1>4
<1>6. ASSUME NEW i \in 1 .. n, NEW j \in 1 .. n, i < j PROVE f[i] < f[j]
  <2>1. f[i] \in Nat /\ f[j] \in Nat /\ f[i] \in S /\ f[j] \in S
    BY <1>2
  <2>2. f[i] # f[j]
    BY <1>1, <1>2, <1>6
  <2>3. ~(f[j] < f[i])
    <3>1. SUFFICES ASSUME f[j] < f[i] PROVE FALSE
      OBVIOUS
    <3>2. Cardinality(Below(S, f[j])) < Cardinality(Below(S, f[i]))
      BY <2>1, <3>1, BelowLess
    <3> QED BY <1>1, <1>2, <1>6, <3>2
  <2> QED BY <2>1, <2>2, <2>3
<1>7. ASSUME NEW a \in S PROVE \E i \in 1 .. n : f[i] = a
  <2> DEFINE r == Cardinality(Below(S, a))
  <2>1. r \in Nat
    BY BelowFinite
  <2>2. Below(S, a) \subseteq S /\ a \notin Below(S, a)
    BY DEF Below
  <2>3. r < n
    <3>1. r <= n /\ (r = n => Below(S, a) = S)
      BY <2>2, FS_Subset
    <3> QED BY <1>1, <2>1, <2>2, <3>1
  <2> HIDE DEF r, n
  <2>4. r + 1 \in 1 .. n /\ (r + 1) - 1 = r
    BY <1>1, <2>1, <2>3
  <2>5. f[r + 1] \in S /\ Cardinality(Below(S, f[r + 1])) = r
    BY <1>2, <2>4
  <2>6. f[r + 1] = a
    <3>1. f[r + 1] < a => Cardinality(Below(S, f[r + 1])) < r
      BY <2>5, BelowLess DEF r
    <3>2. a < f[r + 1] => r < Cardinality(Below(S, f[r + 1]))
      BY <2>5, BelowLess DEF r
    <3>3. a \in Nat /\ f[r + 1] \in Nat
      BY <2>5
    <3> QED BY <2>1, <2>5, <3>1, <3>2, <3>3
  <2> QED BY <2>4, <2>6
<1> QED BY <1>1, <1>2, <1>3, <1>5, <1>6, <1>7 DEF f

\* And it is the only increasing list of them.
LEMMA InOrderUnique ==
  ASSUME NEW S \in SUBSET Nat, NEW n \in Nat, NEW g \in [1 .. n -> S],
         \A i, j \in 1 .. n : i < j => g[i] < g[j],
         \A a \in S : \E i \in 1 .. n : g[i] = a
  PROVE  IsFiniteSet(S) /\ Cardinality(S) = n /\ g = InOrder(S)
<1>0. \A x \in S : x \in Nat
  OBVIOUS
<1>1. \A i, j \in 1 .. n : g[i] = g[j] => i = j
  <2> TAKE i, j \in 1 .. n
  <2>1. g[i] \in Nat /\ g[j] \in Nat
    BY <1>0
  <2>2. g[i] = g[j] => ~(i < j) /\ ~(j < i)
    BY <2>1
  <2> QED BY <2>2
<1>2. ASSUME NEW k \in 0 .. n PROVE LET P == {g[j] : j \in 1 .. k} IN IsFiniteSet(P) /\ Cardinality(P) = k
  <2> DEFINE P == {g[j] : j \in 1 .. k}
             h == [j \in 1 .. k |-> g[j]]
  <2>1. h \in Bijection(1 .. k, P)
    BY <1>1 DEF Bijection, Injection, Surjection, IsInjective
  <2>2. IsFiniteSet(1 .. k) /\ Cardinality(1 .. k) = k
    BY FS_Interval
  <2>3. ExistsBijection(1 .. k, P)
    BY <2>1 DEF ExistsBijection
  <2> HIDE DEF P, h
  <2>4. IsFiniteSet(P) /\ Cardinality(P) = Cardinality(1 .. k)
    BY <2>2, <2>3, FS_Bijection
  <2>5. IsFiniteSet(P) /\ Cardinality(P) = k
    BY <2>2, <2>4
  <2> QED BY <2>5 DEF P
<1>3. S = {g[j] : j \in 1 .. n}
  OBVIOUS
<1>4. IsFiniteSet(S) /\ Cardinality(S) = n
  <2>1. n \in 0 .. n
    OBVIOUS
  <2> QED BY <1>2, <1>3, <2>1
<1>5. ASSUME NEW i \in 1 .. n PROVE g[i] = InOrder(S)[i]
  <2>1. Below(S, g[i]) = {g[j] : j \in 1 .. i - 1}
    <3>1. ASSUME NEW b \in Below(S, g[i]) PROVE \E j \in 1 .. i - 1 : b = g[j]
      <4>1. b \in S /\ b < g[i]
        BY DEF Below
      <4>2. PICK j \in 1 .. n : g[j] = b
        BY <4>1
      <4>3. j < i
        <5>1. g[i] \in Nat /\ g[j] \in Nat
          BY <1>0
        <5>2. i < j => g[i] < g[j]
          OBVIOUS
        <5> QED BY <4>1, <4>2, <5>1, <5>2
      <4> QED BY <4>2, <4>3
    <3>2. ASSUME NEW j \in 1 .. i - 1 PROVE g[j] \in Below(S, g[i])
      BY DEF Below
    <3> QED BY <3>1, <3>2
  <2>2. i - 1 \in 0 .. n
    OBVIOUS
  <2>3. Cardinality(Below(S, g[i])) = i - 1
    BY <1>2, <2>1, <2>2
  <2>4. InOrder(S)[i] \in S /\ Cardinality(Below(S, InOrder(S)[i])) = i - 1
    BY <1>4, InOrderLists
  <2> DEFINE o == InOrder(S)[i]
  <2> HIDE DEF o
  <2>5. g[i] \in S /\ o \in S /\ Cardinality(Below(S, o)) = i - 1
    BY <2>4 DEF o
  <2>6. g[i] < o => Cardinality(Below(S, g[i])) < Cardinality(Below(S, o))
    BY <1>4, <2>5, BelowLess
  <2>7. o < g[i] => Cardinality(Below(S, o)) < Cardinality(Below(S, g[i]))
    BY <1>4, <2>5, BelowLess
  <2>8. g[i] \in Nat /\ o \in Nat
    BY <1>0, <2>5
  <2>9. g[i] = o
    BY <2>3, <2>5, <2>6, <2>7, <2>8
  <2> QED BY <2>9 DEF o
<1>6. DOMAIN InOrder(S) = 1 .. n /\ InOrder(S) = [i \in 1 .. n |-> InOrder(S)[i]]
  BY <1>4, InOrderIs
<1> QED BY <1>4, <1>5, <1>6

-----------------------------------------------------------------------------
(***************************************************************************)
(* Parts of sequences.                                                     *)
(***************************************************************************)

\* The smaller of two numbers.
LEMMA SmallerOf ==
  ASSUME NEW a \in Nat, NEW b \in Nat
  PROVE  Min({a, b}) = IF a <= b THEN a ELSE b
<1> DEFINE m == IF a <= b THEN a ELSE b
<1>1. m \in {a, b} /\ \A y \in {a, b} : m <= y
  OBVIOUS
<1>2. \A x \in {a, b} : (\A y \in {a, b} : x <= y) => x = m
  OBVIOUS
<1>3. Min({a, b}) = CHOOSE x \in {a, b} : \A y \in {a, b} : x <= y
  BY DEF Min
<1> HIDE DEF m
<1>4. Min({a, b}) \in {a, b} /\ \A y \in {a, b} : Min({a, b}) <= y
  BY <1>1, <1>3
<1>5. Min({a, b}) = m
  BY <1>2, <1>4
<1> QED BY <1>5 DEF m

\* The greater of two numbers.
LEMMA LargerOf ==
  ASSUME NEW a \in Int, NEW b \in Int
  PROVE  Max({a, b}) = IF a >= b THEN a ELSE b
<1> DEFINE m == IF a >= b THEN a ELSE b
<1>1. m \in {a, b} /\ \A y \in {a, b} : m >= y
  OBVIOUS
<1>2. \A x \in {a, b} : (\A y \in {a, b} : x >= y) => x = m
  OBVIOUS
<1>3. Max({a, b}) = CHOOSE x \in {a, b} : \A y \in {a, b} : x >= y
  BY DEF Max
<1> HIDE DEF m
<1>4. Max({a, b}) \in {a, b} /\ \A y \in {a, b} : Max({a, b}) >= y
  BY <1>1, <1>3
<1>5. Max({a, b}) = m
  BY <1>2, <1>4
<1> QED BY <1>5 DEF m

\* What Reverse answers.
LEMMA ReverseIs ==
  ASSUME NEW S, NEW seq \in Seq(S)
  PROVE  /\ Reverse(seq) \in Seq(S) /\ Len(Reverse(seq)) = Len(seq)
         /\ \A i \in 1 .. Len(seq) : Reverse(seq)[i] = seq[Len(seq) - i + 1]
<1>1. Reverse(seq) = [i \in 1 .. Len(seq) |-> seq[(Len(seq) - i) + 1]]
  BY DEF Reverse
<1> DEFINE r == Reverse(seq)
<1>2. Len(seq) \in Nat /\ \A i \in 1 .. Len(seq) : (Len(seq) - i) + 1 \in 1 .. Len(seq)
  OBVIOUS
<1>3. \A i \in 1 .. Len(seq) : seq[(Len(seq) - i) + 1] \in S
  BY <1>2
<1> HIDE DEF r
<1>4. r \in [1 .. Len(seq) -> S] /\ \A i \in 1 .. Len(seq) : r[i] = seq[(Len(seq) - i) + 1]
  BY <1>1, <1>3 DEF r
<1>5. r \in Seq(S) /\ Len(r) = Len(seq)
  BY <1>2, <1>4
<1> QED BY <1>4, <1>5 DEF r

\* What is reversed twice is as it was.
LEMMA ReverseTwice ==
  ASSUME NEW S, NEW seq \in Seq(S)
  PROVE  Reverse(Reverse(seq)) = seq
<1> DEFINE r == Reverse(seq)
           t == Reverse(r)
<1>1. r \in Seq(S) /\ Len(r) = Len(seq) /\ \A i \in 1 .. Len(seq) : r[i] = seq[Len(seq) - i + 1]
  BY ReverseIs
<1>2. t \in Seq(S) /\ Len(t) = Len(r) /\ \A i \in 1 .. Len(r) : t[i] = r[Len(r) - i + 1]
  BY <1>1, ReverseIs
<1> HIDE DEF r, t
<1>3. ASSUME NEW i \in 1 .. Len(seq) PROVE t[i] = seq[i]
  <2>1. Len(seq) - i + 1 \in 1 .. Len(seq) /\ Len(seq) - (Len(seq) - i + 1) + 1 = i
    OBVIOUS
  <2> QED BY <1>1, <1>2, <2>1
<1>4. t = seq
  BY <1>1, <1>2, <1>3
<1> QED BY <1>4 DEF r, t

\* What a sequence is made of.
LEMMA RangeIs ==
  ASSUME NEW S, NEW seq \in Seq(S)
  PROVE  /\ \A x : x \in Range(seq) <=> \E i \in 1 .. Len(seq) : x = seq[i]
         /\ Range(seq) \subseteq S
BY DEF Range

\* A sequence over a set is one over any larger set.
LEMMA SeqInto ==
  ASSUME NEW S, NEW T, S \subseteq T, NEW seq \in Seq(S)
  PROVE  seq \in Seq(T) /\ Len(seq) \in Nat
<1>1. Len(seq) \in Nat /\ seq \in [1 .. Len(seq) -> S]
  OBVIOUS
<1>2. seq \in [1 .. Len(seq) -> T]
  BY <1>1
<1> QED BY <1>1, <1>2

\* What is wanted of a sequence, and nothing else.
LEMMA ThoseAre ==
  ASSUME NEW n \in Nat, NEW seq, DOMAIN seq = 1 .. n, NEW wanted
  PROVE  /\ Those(seq, wanted) \in Seq(wanted) /\ Len(Those(seq, wanted)) <= n
         /\ \A x : x \in Range(Those(seq, wanted)) <=> x \in wanted /\ \E i \in 1 .. n : x = seq[i]
<1> DEFINE I == {i \in 1 .. n : seq[i] \in wanted}
           at == InOrder(I)
           k == Cardinality(I)
           t == Those(seq, wanted)
<1>1. I \in SUBSET Nat /\ IsFiniteSet(I) /\ k <= n
  <2>1. IsFiniteSet(1 .. n) /\ Cardinality(1 .. n) = n /\ I \subseteq 1 .. n
    BY FS_Interval
  <2> QED BY <2>1, FS_Subset
<1>2. /\ DOMAIN at = 1 .. k /\ k \in Nat /\ \A i \in 1 .. k : at[i] \in I
      /\ \A a \in I : \E i \in 1 .. k : at[i] = a
  BY <1>1, InOrderLists
<1>3. t = [i \in 1 .. k |-> seq[at[i]]]
  BY <1>2 DEF Those, At
<1>4. \A i \in I : i \in 1 .. n /\ seq[i] \in wanted
  OBVIOUS
<1>5. \A i \in 1 .. n : seq[i] \in wanted => i \in I
  OBVIOUS
<1> HIDE DEF I, at, k, t
<1>6. t \in [1 .. k -> wanted] /\ \A i \in 1 .. k : t[i] = seq[at[i]]
  BY <1>2, <1>3, <1>4
<1>7. t \in Seq(wanted) /\ Len(t) = k
  BY <1>2, <1>6
<1>8. \A x : x \in Range(t) <=> x \in wanted /\ \E i \in 1 .. n : x = seq[i]
  BY <1>2, <1>4, <1>5, <1>6 DEF Range
<1> QED BY <1>1, <1>2, <1>7, <1>8 DEF t

\* What is wanted of a sequence over S is a sequence over S, and what is
\* among its first elements is among the first of those wanted.
LEMMA ThoseOf ==
  ASSUME NEW S, NEW seq \in Seq(S), NEW wanted
  PROVE  /\ Those(seq, wanted) \in Seq(S) /\ Len(Those(seq, wanted)) <= Len(seq)
         /\ Range(Those(seq, wanted)) \subseteq wanted
         /\ \A i \in 1 .. Len(seq) : seq[i] \in wanted =>
              \E j \in 1 .. Len(Those(seq, wanted)) : j <= i /\ Those(seq, wanted)[j] = seq[i]
<1> DEFINE n == Len(seq)
           I == {i \in 1 .. n : seq[i] \in wanted}
           at == InOrder(I)
           k == Cardinality(I)
           t == Those(seq, wanted)
<1>0. n \in Nat /\ DOMAIN seq = 1 .. n /\ \A i \in 1 .. n : seq[i] \in S
  OBVIOUS
<1> HIDE DEF n
<1>1. I \in SUBSET Nat /\ IsFiniteSet(I) /\ k <= n
  <2>1. IsFiniteSet(1 .. n) /\ Cardinality(1 .. n) = n
    BY <1>0, FS_Interval
  <2>2. I \subseteq 1 .. n /\ I \in SUBSET Nat
    BY <1>0
  <2> HIDE DEF I
  <2>3. IsFiniteSet(I) /\ Cardinality(I) <= n
    BY <2>1, <2>2, FS_Subset
  <2> QED BY <2>2, <2>3 DEF k
<1>2. /\ DOMAIN at = 1 .. k /\ k \in Nat /\ \A i \in 1 .. k : at[i] \in I
      /\ \A a \in I : \E i \in 1 .. k : at[i] = a
      /\ \A i \in 1 .. k : Cardinality(Below(I, at[i])) = i - 1
  BY <1>1, InOrderLists
<1>3. t = [i \in 1 .. k |-> seq[at[i]]]
  BY <1>0, <1>2 DEF Those, At, n
<1>4. \A i \in I : i \in 1 .. n /\ seq[i] \in wanted
  OBVIOUS
<1>5. \A i \in 1 .. n : seq[i] \in wanted => i \in I
  OBVIOUS
<1> HIDE DEF I, at, k, t
<1>6. \A i \in 1 .. k : t[i] = seq[at[i]] /\ t[i] \in S /\ t[i] \in wanted
  BY <1>0, <1>2, <1>3, <1>4
<1>7. t \in [1 .. k -> S]
  BY <1>3, <1>6
<1>8. t \in Seq(S) /\ Len(t) = k
  BY <1>2, <1>7
<1>9. Range(t) \subseteq wanted
  <2>1. \A x : x \in Range(t) <=> \E i \in 1 .. k : x = t[i]
    <3>1. \A x : x \in Range(t) <=> \E i \in 1 .. Len(t) : x = t[i]
      BY <1>8, RangeIs
    <3> QED BY <1>8, <3>1
  <2> QED BY <1>6, <2>1
<1>10. ASSUME NEW i \in 1 .. n, seq[i] \in wanted PROVE \E j \in 1 .. k : j <= i /\ t[j] = seq[i]
  <2>1. i \in I
    BY <1>5, <1>10
  <2>2. PICK j \in 1 .. k : at[j] = i
    BY <1>2, <2>1
  <2>3. Cardinality(Below(I, i)) = j - 1
    BY <1>2, <2>2
  <2>4. i \in Nat /\ i - 1 \in Nat /\ IsFiniteSet(1 .. (i - 1)) /\ Cardinality(1 .. (i - 1)) = i - 1
    <3>1. i \in Nat /\ i - 1 \in Nat
      BY <1>0, <1>10
    <3>2. \A a, b \in Int : IsFiniteSet(a .. b) /\ Cardinality(a .. b) = IF a > b THEN 0 ELSE b - a + 1
      BY FS_Interval
    <3>3. IsFiniteSet(1 .. (i - 1)) /\ Cardinality(1 .. (i - 1)) = IF 1 > i - 1 THEN 0 ELSE (i - 1) - 1 + 1
      BY <3>1, <3>2
    <3> QED BY <3>1, <3>3
  <2>5. Below(I, i) \subseteq 1 .. (i - 1)
    <3>1. SUFFICES ASSUME NEW x \in Below(I, i) PROVE x \in 1 .. (i - 1)
      OBVIOUS
    <3>2. x \in I /\ x < i
      BY BelowAre
    <3>3. x \in 1 .. n
      BY <1>4, <3>2
    <3> QED BY <1>0, <2>4, <3>2, <3>3
  <2>6. Cardinality(Below(I, i)) <= i - 1
    BY <2>4, <2>5, FS_Subset
  <2>7. j <= i
    BY <1>2, <2>3, <2>4, <2>6
  <2> QED BY <1>6, <2>2, <2>7
<1> QED BY <1>1, <1>8, <1>9, <1>10 DEF t, n

\* Within its quota, an answer is some of the hits, and all that come before
\* both limits are reached.
LEMMA QuotaIs ==
  ASSUME NEW S, NEW ranked \in Seq(S), NEW limit \in Nat, NEW identityLimit \in Nat
  PROVE  /\ WithinQuota(ranked, limit, identityLimit) \in Seq(S)
         /\ \A i \in 1 .. Len(ranked) : i <= limit /\ i <= identityLimit =>
              ranked[i] \in Range(WithinQuota(ranked, limit, identityLimit))
<1> DEFINE N == Len(ranked)
           Bypasses(h) == IdentityKind(Facts[h.m].kind) /\ h.class >= OfSubject
           Before(i) == Cardinality({j \in 1 .. i - 1 : Bypasses(ranked[j]) = Bypasses(ranked[i])})
           Kept(i) == Before(i) < IF Bypasses(ranked[i]) THEN identityLimit ELSE limit
           I == {i \in DOMAIN ranked : Kept(i)}
           kept == InOrder(I)
           k == Cardinality(I)
           w == WithinQuota(ranked, limit, identityLimit)
<1>0. N \in Nat /\ DOMAIN ranked = 1 .. N /\ \A i \in 1 .. N : ranked[i] \in S
  OBVIOUS
<1> HIDE DEF N
<1>1. w = [n \in DOMAIN kept |-> ranked[kept[n]]]
  BY DEF WithinQuota, At
<1>2. I \in SUBSET Nat /\ IsFiniteSet(I) /\ \A i \in I : i \in 1 .. N
  <2>1. IsFiniteSet(1 .. N)
    BY <1>0, FS_Interval
  <2> HIDE DEF Kept
  <2>2. I \subseteq 1 .. N /\ I \in SUBSET Nat
    BY <1>0
  <2> HIDE DEF I
  <2>3. IsFiniteSet(I)
    BY <2>1, <2>2, FS_Subset
  <2> QED BY <2>2, <2>3
<1>3. ASSUME NEW i \in 1 .. N, i <= limit, i <= identityLimit PROVE i \in I
  <2> DEFINE J == {j \in 1 .. i - 1 : Bypasses(ranked[j]) = Bypasses(ranked[i])}
  <2>1. IsFiniteSet(1 .. i - 1) /\ Cardinality(1 .. i - 1) = i - 1
    <3>1. i \in Nat /\ i - 1 \in Nat
      BY <1>0
    <3>2. \A a, b \in Int : IsFiniteSet(a .. b) /\ Cardinality(a .. b) = IF a > b THEN 0 ELSE b - a + 1
      BY FS_Interval
    <3>3. IsFiniteSet(1 .. (i - 1)) /\ Cardinality(1 .. (i - 1)) = IF 1 > i - 1 THEN 0 ELSE (i - 1) - 1 + 1
      BY <3>1, <3>2
    <3> QED BY <3>1, <3>3
  <2>2. J \subseteq 1 .. i - 1
    OBVIOUS
  <2>3. Cardinality(J) \in Nat /\ Cardinality(J) <= i - 1
    <3> HIDE DEF J
    <3>1. IsFiniteSet(J) /\ Cardinality(J) <= Cardinality(1 .. i - 1)
      BY <2>1, <2>2, FS_Subset
    <3> QED BY <2>1, <3>1, FS_CardinalityType
  <2>4. Before(i) = Cardinality(J)
    OBVIOUS
  <2> HIDE DEF J, Before
  <2>5. Before(i) < limit /\ Before(i) < identityLimit
    BY <1>0, <1>3, <2>3, <2>4
  <2> HIDE DEF Bypasses
  <2>6. Kept(i)
    BY <2>5
  <2> HIDE DEF Kept
  <2> QED BY <1>0, <2>6
<1>4. /\ DOMAIN kept = 1 .. k /\ k \in Nat /\ \A i \in 1 .. k : kept[i] \in I
      /\ \A a \in I : \E i \in 1 .. k : kept[i] = a
  <2> HIDE DEF I
  <2> QED BY <1>2, InOrderLists
<1> HIDE DEF I, kept, k, w
<1>5. w \in [1 .. k -> S] /\ \A n \in 1 .. k : w[n] = ranked[kept[n]]
  BY <1>0, <1>1, <1>2, <1>4
<1>6. w \in Seq(S) /\ Len(w) = k
  BY <1>4, <1>5
<1>7. ASSUME NEW i \in 1 .. N, i <= limit, i <= identityLimit PROVE ranked[i] \in Range(w)
  <2>1. i \in I
    BY <1>3, <1>7
  <2>2. PICK n \in 1 .. k : kept[n] = i
    BY <1>4, <2>1
  <2>3. w[n] = ranked[i] /\ n \in 1 .. Len(w)
    BY <1>5, <1>6, <2>2
  <2> QED BY <1>6, <2>3, RangeIs
<1> QED BY <1>6, <1>7 DEF w, N

-----------------------------------------------------------------------------
(***************************************************************************)
(* Places of a sequence.                                                   *)
(***************************************************************************)

\* What At answers: the elements at the places, one for each, in their order.
LEMMA AtIs ==
  ASSUME NEW S, NEW seq \in Seq(S), NEW I \in SUBSET (1 .. Len(seq))
  PROVE  LET k == Cardinality(I) IN
         /\ IsFiniteSet(I) /\ k \in Nat /\ k <= Len(seq)
         /\ At(seq, I) \in Seq(S) /\ Len(At(seq, I)) = k
         /\ \E o \in [1 .. k -> I] :
              /\ \A n \in 1 .. k : At(seq, I)[n] = seq[o[n]]
              /\ \A n, l \in 1 .. k : n < l => o[n] < o[l]
              /\ \A i \in I : \E n \in 1 .. k : o[n] = i
<1> DEFINE N == Len(seq)
           k == Cardinality(I)
           o == InOrder(I)
           t == At(seq, I)
<1>1. N \in Nat /\ DOMAIN seq = 1 .. N /\ \A i \in 1 .. N : seq[i] \in S
  OBVIOUS
<1>2. I \subseteq 1 .. N
  OBVIOUS
<1> HIDE DEF N
<1>3. IsFiniteSet(1 .. N) /\ Cardinality(1 .. N) = N /\ I \in SUBSET Nat
  BY <1>1, <1>2, FS_Interval
<1>4. IsFiniteSet(I) /\ k <= N
  BY <1>2, <1>3, FS_Subset
<1>5. /\ o \in Seq(I) /\ DOMAIN o = 1 .. k /\ k \in Nat
      /\ \A i \in 1 .. k : o[i] \in I
      /\ \A i, j \in 1 .. k : i < j => o[i] < o[j]
      /\ \A a \in I : \E i \in 1 .. k : o[i] = a
  BY <1>3, <1>4, InOrderLists
<1>6. t = [n \in DOMAIN o |-> seq[o[n]]]
  BY DEF At
<1> HIDE DEF o, t, k
<1>7. t \in [1 .. k -> S] /\ \A n \in 1 .. k : t[n] = seq[o[n]]
  BY <1>1, <1>2, <1>5, <1>6
<1>8. t \in Seq(S) /\ Len(t) = k
  BY <1>5, <1>7
<1>9. o \in [1 .. k -> I]
  BY <1>5
<1>10. \E p \in [1 .. k -> I] :
         /\ \A n \in 1 .. k : t[n] = seq[p[n]]
         /\ \A n, l \in 1 .. k : n < l => p[n] < p[l]
         /\ \A i \in I : \E n \in 1 .. k : p[n] = i
  BY <1>5, <1>7, <1>9
<1> QED BY <1>1, <1>4, <1>5, <1>8, <1>10 DEF k, t, N

\* A beginning.
LEMMA BeginningIs ==
  ASSUME NEW S, NEW seq \in Seq(S), NEW n \in 0 .. Len(seq)
  PROVE  /\ SubSeq(seq, 1, n) \in Seq(S) /\ Len(SubSeq(seq, 1, n)) = n
         /\ \A i \in 1 .. n : SubSeq(seq, 1, n)[i] = seq[i]
OBVIOUS

-----------------------------------------------------------------------------
(***************************************************************************)
(* What is sorted by an order.  Before is a parameter of Sorted; the       *)
(* lemmas name the relation it decides.                                    *)
(***************************************************************************)

\* A relation that orders all of a set strictly.
StrictOrder(R, S) ==
  /\ \A a \in S : <<a, a>> \notin R
  /\ \A a, b, c \in S : <<a, b>> \in R /\ <<b, c>> \in R => <<a, c>> \in R
  /\ \A a, b \in S : a # b => <<a, b>> \in R \/ <<b, a>> \in R

Under(R, S, a) == {b \in S : <<b, a>> \in R}

\* What a sorted list of S is: each place has the element with as many before it.
Lists(o, R, S) ==
  o = [i \in 1 .. Cardinality(S) |-> CHOOSE a \in S : Cardinality(Under(R, S, a)) = i - 1]

\* What is made of it: every element once, each before those it is before.
Orders(o, R, S) ==
  /\ Cardinality(S) \in Nat /\ o \in [1 .. Cardinality(S) -> S]
  /\ o \in Seq(S) /\ Len(o) = Cardinality(S)
  /\ \A i \in 1 .. Cardinality(S) : Cardinality(Under(R, S, o[i])) = i - 1
  /\ \A i, j \in 1 .. Cardinality(S) : i < j <=> <<o[i], o[j]>> \in R
  /\ \A i, j \in 1 .. Cardinality(S) : o[i] = o[j] => i = j
  /\ \A a \in S : \E i \in 1 .. Cardinality(S) : o[i] = a

\* What comes first has fewer before it.
LEMMA UnderLess ==
  ASSUME NEW S, IsFiniteSet(S), NEW R, StrictOrder(R, S), NEW a \in S, NEW b \in S, <<a, b>> \in R
  PROVE  Cardinality(Under(R, S, a)) < Cardinality(Under(R, S, b))
<1>1. \A x : x \in Under(R, S, a) <=> x \in S /\ <<x, a>> \in R
  BY DEF Under
<1>2. \A x : x \in Under(R, S, b) <=> x \in S /\ <<x, b>> \in R
  BY DEF Under
<1>3. Under(R, S, a) \subseteq Under(R, S, b) /\ a \in Under(R, S, b) /\ a \notin Under(R, S, a)
  BY <1>1, <1>2 DEF StrictOrder
<1>4. IsFiniteSet(Under(R, S, b)) /\ IsFiniteSet(Under(R, S, a))
  BY <1>1, <1>2, FS_Subset
<1>5. Cardinality(Under(R, S, a)) <= Cardinality(Under(R, S, b))
      /\ (Cardinality(Under(R, S, a)) = Cardinality(Under(R, S, b)) => Under(R, S, a) = Under(R, S, b))
  BY <1>3, <1>4, FS_Subset
<1>6. Cardinality(Under(R, S, a)) \in Nat /\ Cardinality(Under(R, S, b)) \in Nat
  BY <1>4, FS_CardinalityType
<1> QED BY <1>3, <1>5, <1>6

\* Each place of a finite set in a strict order is taken by one element.
LEMMA Ranks ==
  ASSUME NEW S, IsFiniteSet(S), NEW R, StrictOrder(R, S)
  PROVE  /\ Cardinality(S) \in Nat
         /\ \A a \in S : Cardinality(Under(R, S, a)) \in 0 .. Cardinality(S) - 1
         /\ \A i \in 1 .. Cardinality(S) : \E a \in S : Cardinality(Under(R, S, a)) = i - 1
<1> DEFINE n == Cardinality(S)
           rank == [a \in S |-> Cardinality(Under(R, S, a))]
           T == {rank[a] : a \in S}
<1>1. n \in Nat
  BY FS_CardinalityType
<1>2. ASSUME NEW a \in S PROVE rank[a] \in 0 .. n - 1
  <2>1. Under(R, S, a) \subseteq S /\ a \notin Under(R, S, a)
    BY DEF Under, StrictOrder
  <2>2. IsFiniteSet(Under(R, S, a)) /\ Cardinality(Under(R, S, a)) <= n
        /\ (Cardinality(Under(R, S, a)) = n => Under(R, S, a) = S)
    BY <2>1, FS_Subset
  <2>3. Cardinality(Under(R, S, a)) \in Nat
    BY <2>2, FS_CardinalityType
  <2> QED BY <1>1, <2>1, <2>2, <2>3
<1>3. ASSUME NEW a \in S, NEW b \in S, a # b PROVE rank[a] # rank[b]
  <2>1. rank[a] \in Nat /\ rank[b] \in Nat
    BY <1>1, <1>2
  <2>2. CASE <<a, b>> \in R
    BY <2>1, <2>2, UnderLess
  <2>3. CASE <<b, a>> \in R
    BY <2>1, <2>3, UnderLess
  <2> QED BY <1>3, <2>2, <2>3 DEF StrictOrder
<1>4. T = 0 .. n - 1
  <2>1. rank \in Bijection(S, T)
    BY <1>3 DEF Bijection, Injection, Surjection, IsInjective
  <2>2. ExistsBijection(S, T)
    BY <2>1 DEF ExistsBijection
  <2>3. T \subseteq 0 .. n - 1
    BY <1>2
  <2> HIDE DEF T, rank, n
  <2>4. Cardinality(T) = n
    BY <2>2, FS_Bijection DEF n
  <2>5. IsFiniteSet(0 .. n - 1) /\ Cardinality(0 .. n - 1) = n
    BY <1>1, FS_Interval
  <2> QED BY <2>3, <2>4, <2>5, FS_Subset
<1>5. ASSUME NEW i \in 1 .. n PROVE \E a \in S : rank[a] = i - 1
  <2> HIDE DEF rank, n
  <2>1. i - 1 \in 0 .. n - 1
    BY <1>1
  <2> QED BY <1>4, <2>1
<1> QED BY <1>1, <1>2, <1>5

\* Sorting lists every element once, each before those it is before.
LEMMA SortedAre ==
  ASSUME NEW S, IsFiniteSet(S), NEW R, StrictOrder(R, S), NEW o, Lists(o, R, S)
  PROVE  Orders(o, R, S)
<1> DEFINE n == Cardinality(S)
           rank(a) == Cardinality(Under(R, S, a))
<1>1. n \in Nat /\ \A a \in S : rank(a) \in 0 .. n - 1
  BY Ranks
<1>2. ASSUME NEW i \in 1 .. n PROVE o[i] \in S /\ rank(o[i]) = i - 1
  <2>1. o[i] = CHOOSE a \in S : Cardinality(Under(R, S, a)) = i - 1
    BY DEF Lists
  <2>2. \E a \in S : Cardinality(Under(R, S, a)) = i - 1
    BY Ranks
  <2> QED BY <2>1, <2>2
<1>3. o = [i \in 1 .. n |-> o[i]]
  BY DEF Lists
<1>4. o \in [1 .. n -> S]
  BY <1>2, <1>3
<1>5. o \in Seq(S) /\ Len(o) = n
  BY <1>1, <1>4
<1>6. \A a, b \in S : <<a, b>> \in R => rank(a) < rank(b)
  BY UnderLess
<1>7. \A a, b \in S : a # b => <<a, b>> \in R \/ <<b, a>> \in R
  BY DEF StrictOrder
<1>8. \A a \in S : <<a, a>> \notin R
  BY DEF StrictOrder
<1> HIDE DEF n, rank
<1>9. ASSUME NEW i \in 1 .. n, NEW j \in 1 .. n PROVE (i < j <=> <<o[i], o[j]>> \in R) /\ (o[i] = o[j] => i = j)
  <2>1. o[i] \in S /\ o[j] \in S /\ rank(o[i]) = i - 1 /\ rank(o[j]) = j - 1
    BY <1>2
  <2>2. o[i] = o[j] => i = j
    BY <1>1, <2>1
  <2>3. <<o[i], o[j]>> \in R => i < j
    BY <1>1, <1>6, <2>1
  <2>4. i < j => <<o[i], o[j]>> \in R
    <3>1. SUFFICES ASSUME i < j PROVE <<o[i], o[j]>> \in R
      OBVIOUS
    <3>2. <<o[j], o[i]>> \in R => rank(o[j]) < rank(o[i])
      BY <1>6, <2>1
    <3>3. o[i] # o[j] /\ ~(j - 1 < i - 1)
      BY <1>1, <2>1, <3>1
    <3>4. <<o[j], o[i]>> \notin R
      BY <2>1, <3>2, <3>3
    <3> QED BY <1>7, <2>1, <3>3, <3>4
  <2> QED BY <2>2, <2>3, <2>4
<1>10. ASSUME NEW a \in S PROVE \E i \in 1 .. n : o[i] = a
  <2> DEFINE i == rank(a) + 1
  <2>1. i \in 1 .. n /\ i - 1 = rank(a)
    BY <1>1
  <2> HIDE DEF i
  <2>2. o[i] \in S /\ rank(o[i]) = rank(a)
    BY <1>2, <2>1
  <2>3. o[i] = a
    <3>1. \A b \in S : rank(b) \in Nat
      BY <1>1
    <3>2. \A x, y \in S : rank(x) < rank(y) => rank(x) # rank(y)
      BY <3>1
    <3>3. \A b \in S : <<a, b>> \in R \/ <<b, a>> \in R => rank(b) # rank(a)
      BY <1>6, <3>2
    <3> QED BY <1>7, <2>2, <3>3
  <2> QED BY <2>1, <2>3
<1> QED BY <1>1, <1>2, <1>4, <1>5, <1>9, <1>10 DEF n, rank, Orders

-----------------------------------------------------------------------------
(***************************************************************************)
(* Keys.                                                                   *)
(***************************************************************************)
Keys == [1 .. 9 -> Int]

\* Keys are compared at the first place in which they differ.
LEMMA LessKeyIs ==
  ASSUME NEW a \in Keys, NEW b
  PROVE  LessKey(a, b) <=> \E i \in 1 .. 9 : a[i] > b[i] /\ \A j \in 1 .. i - 1 : a[j] = b[j]
BY DEF LessKey, Keys

LEMMA KeysDiffer ==
  ASSUME NEW a \in Keys, NEW b \in Keys, a # b
  PROVE  LessKey(a, b) \/ LessKey(b, a)
<1> DEFINE T == {i \in 1 .. 9 : a[i] # b[i]}
<1>1. T # {} /\ T \in SUBSET Nat
  BY DEF Keys
<1>2. PICK i \in T : \A j \in T : i <= j
  <2> HIDE DEF T
  <2> QED BY <1>1, LeastNumber
<1>3. i \in 1 .. 9 /\ a[i] # b[i] /\ a[i] \in Int /\ b[i] \in Int
  BY DEF Keys
<1>4. \A j \in 1 .. i - 1 : a[j] = b[j]
  <2> SUFFICES ASSUME NEW j \in 1 .. i - 1 PROVE a[j] = b[j]
    OBVIOUS
  <2>1. j \in 1 .. 9 /\ ~(i <= j)
    BY <1>3
  <2> QED BY <1>2, <2>1
<1>5. a[i] > b[i] \/ b[i] > a[i]
  BY <1>3
<1>6. \A j \in 1 .. i - 1 : b[j] = a[j]
  BY <1>4
<1>7. a[i] > b[i] => LessKey(a, b)
  BY <1>3, <1>4, LessKeyIs
<1>8. b[i] > a[i] => LessKey(b, a)
  BY <1>3, <1>6, LessKeyIs
<1> QED BY <1>5, <1>7, <1>8

LEMMA KeysSelf ==
  ASSUME NEW a \in Keys
  PROVE  ~LessKey(a, a)
<1>1. \A i \in 1 .. 9 : a[i] \in Int /\ ~(a[i] > a[i])
  BY DEF Keys
<1> QED BY <1>1, LessKeyIs

LEMMA KeysChain ==
  ASSUME NEW a \in Keys, NEW b \in Keys, NEW c \in Keys, LessKey(a, b), LessKey(b, c)
  PROVE  LessKey(a, c)
<1>1. PICK i \in 1 .. 9 : a[i] > b[i] /\ \A k \in 1 .. i - 1 : a[k] = b[k]
  BY LessKeyIs
<1>2. PICK j \in 1 .. 9 : b[j] > c[j] /\ \A k \in 1 .. j - 1 : b[k] = c[k]
  BY LessKeyIs
<1>3. \A k \in 1 .. 9 : a[k] \in Int /\ b[k] \in Int /\ c[k] \in Int
  BY DEF Keys
<1>4. CASE i < j
  <2>1. i \in 1 .. j - 1 /\ \A k \in 1 .. i - 1 : k \in 1 .. j - 1
    BY <1>4
  <2>2. b[i] = c[i] /\ \A k \in 1 .. i - 1 : a[k] = c[k]
    BY <1>1, <1>2, <2>1
  <2> QED BY <1>1, <2>2, LessKeyIs
<1>5. CASE i = j
  <2>1. a[i] > c[i]
    BY <1>1, <1>2, <1>3, <1>5
  <2>2. \A k \in 1 .. i - 1 : a[k] = c[k]
    BY <1>1, <1>2, <1>5
  <2> QED BY <2>1, <2>2, LessKeyIs
<1>6. CASE j < i
  <2>1. j \in 1 .. i - 1 /\ \A k \in 1 .. j - 1 : k \in 1 .. i - 1
    BY <1>6
  <2>2. a[j] = b[j] /\ \A k \in 1 .. j - 1 : a[k] = c[k]
    BY <1>1, <1>2, <2>1
  <2>3. a[j] > c[j]
    BY <1>2, <2>2
  <2> QED BY <2>2, <2>3, LessKeyIs
<1> QED BY <1>4, <1>5, <1>6

\* The order SortedByKey lists places in: by key, and equal keys as they come.
ByKey(seq, i, j) == LessKey(seq[i].key, seq[j].key) \/ (seq[i].key = seq[j].key /\ i < j)
KeyOrder(seq) == {p \in (DOMAIN seq) \X (DOMAIN seq) : ByKey(seq, p[1], p[2])}

LEMMA KeyOrderStrict ==
  ASSUME NEW n \in Nat, NEW seq, DOMAIN seq = 1 .. n, \A i \in 1 .. n : seq[i].key \in Keys
  PROVE  StrictOrder(KeyOrder(seq), 1 .. n)
<1> DEFINE R == KeyOrder(seq)
<1>1. \A i, j \in 1 .. n : <<i, j>> \in R <=> ByKey(seq, i, j)
  BY DEF KeyOrder
<1> HIDE DEF R
<1>2. \A i \in 1 .. n : <<i, i>> \notin R
  BY <1>1, KeysSelf DEF ByKey
<1>3. ASSUME NEW i \in 1 .. n, NEW j \in 1 .. n, NEW k \in 1 .. n, ByKey(seq, i, j), ByKey(seq, j, k)
      PROVE  ByKey(seq, i, k)
  <2>1. i < j /\ j < k => i < k
    OBVIOUS
  <2>2. LessKey(seq[i].key, seq[j].key) /\ LessKey(seq[j].key, seq[k].key) => LessKey(seq[i].key, seq[k].key)
    BY KeysChain
  <2> QED BY <1>3, <2>1, <2>2 DEF ByKey
<1>4. ASSUME NEW i \in 1 .. n, NEW j \in 1 .. n, i # j PROVE ByKey(seq, i, j) \/ ByKey(seq, j, i)
  <2>1. i < j \/ j < i
    BY <1>4
  <2>2. seq[i].key = seq[j].key \/ LessKey(seq[i].key, seq[j].key) \/ LessKey(seq[j].key, seq[i].key)
    BY KeysDiffer
  <2> QED BY <2>1, <2>2 DEF ByKey
<1> QED BY <1>1, <1>2, <1>3, <1>4 DEF R, StrictOrder

\* What SortedByKey answers: every element once, in the order of the keys.
LEMMA SortedByKeyIs ==
  ASSUME NEW S, NEW seq \in Seq(S), \A h \in S : h.key \in Keys
  PROVE  LET n == Len(seq) IN
         /\ n \in Nat /\ SortedByKey(seq) \in Seq(S) /\ Len(SortedByKey(seq)) = n
         /\ \E o \in [1 .. n -> 1 .. n] :
              /\ \A i \in 1 .. n : SortedByKey(seq)[i] = seq[o[i]]
              /\ \A i, j \in 1 .. n : o[i] = o[j] => i = j
              /\ \A a \in 1 .. n : \E i \in 1 .. n : o[i] = a
              /\ \A i, j \in 1 .. n : i < j <=> ByKey(seq, o[i], o[j])
<1> DEFINE n == Len(seq)
           R == KeyOrder(seq)
           o == Sorted(DOMAIN seq, LAMBDA i, j : ByKey(seq, i, j))
           s == SortedByKey(seq)
<1>1. n \in Nat /\ DOMAIN seq = 1 .. n /\ \A i \in 1 .. n : seq[i] \in S
  OBVIOUS
<1> HIDE DEF n
<1>2. StrictOrder(R, 1 .. n)
  BY <1>1, KeyOrderStrict
<1>3. IsFiniteSet(1 .. n) /\ Cardinality(1 .. n) = n
  BY <1>1, FS_Interval
<1>4. \A i, j \in 1 .. n : <<i, j>> \in R <=> ByKey(seq, i, j)
  BY <1>1 DEF KeyOrder
<1> HIDE DEF R
<1>5. ASSUME NEW a \in 1 .. n
      PROVE  {b \in 1 .. n : ByKey(seq, b, a)} = Under(R, 1 .. n, a)
  BY <1>4 DEF Under
<1>6. o = [i \in 1 .. Cardinality(1 .. n) |->
             CHOOSE a \in 1 .. n : Cardinality({b \in 1 .. n : ByKey(seq, b, a)}) = i - 1]
  BY <1>1 DEF Sorted
<1>7. ASSUME NEW i
      PROVE  (CHOOSE a \in 1 .. n : Cardinality({b \in 1 .. n : ByKey(seq, b, a)}) = i - 1)
               = CHOOSE a \in 1 .. n : Cardinality(Under(R, 1 .. n, a)) = i - 1
  BY <1>5
<1>8. Lists(o, R, 1 .. n)
  BY <1>6, <1>7 DEF Lists
<1>9. s = [k \in DOMAIN o |-> seq[o[k]]]
  BY DEF SortedByKey, ByKey
<1> HIDE DEF o, s
<1>10. /\ o \in [1 .. n -> 1 .. n] /\ DOMAIN o = 1 .. n
       /\ \A i, j \in 1 .. n : i < j <=> <<o[i], o[j]>> \in R
       /\ \A i, j \in 1 .. n : o[i] = o[j] => i = j
       /\ \A a \in 1 .. n : \E i \in 1 .. n : o[i] = a
  <2> DEFINE D == 1 .. n
  <2>1. IsFiniteSet(D) /\ StrictOrder(R, D) /\ Lists(o, R, D) /\ Cardinality(D) = n
    BY <1>2, <1>3, <1>8
  <2> HIDE DEF D
  <2>2. Orders(o, R, D)
    BY <2>1, SortedAre
  <2>3. /\ o \in [1 .. n -> D]
        /\ \A i, j \in 1 .. n : i < j <=> <<o[i], o[j]>> \in R
        /\ \A i, j \in 1 .. n : o[i] = o[j] => i = j
        /\ \A a \in D : \E i \in 1 .. n : o[i] = a
    BY <2>1, <2>2 DEF Orders
  <2> QED BY <2>3 DEF D
<1>11. s \in [1 .. n -> S] /\ \A i \in 1 .. n : s[i] = seq[o[i]]
  BY <1>1, <1>9, <1>10
<1>12. s \in Seq(S) /\ Len(s) = n
  BY <1>1, <1>11
<1>13. \A i, j \in 1 .. n : i < j <=> ByKey(seq, o[i], o[j])
  BY <1>4, <1>10
<1>14. \E p \in [1 .. n -> 1 .. n] :
         /\ \A i \in 1 .. n : s[i] = seq[p[i]]
         /\ \A i, j \in 1 .. n : p[i] = p[j] => i = j
         /\ \A a \in 1 .. n : \E i \in 1 .. n : p[i] = a
         /\ \A i, j \in 1 .. n : i < j <=> ByKey(seq, p[i], p[j])
  BY <1>10, <1>11, <1>13
<1> QED BY <1>1, <1>12, <1>14 DEF n, s

-----------------------------------------------------------------------------
(***************************************************************************)
(* Matches and keys are numbers.                                           *)
(***************************************************************************)
Text == Seq(STRING)

\* The images of a finite set, of which the library speaks with an operator.
LEMMA ImageFinite ==
  ASSUME NEW D, IsFiniteSet(D), NEW f, DOMAIN f = D
  PROVE  IsFiniteSet({f[x] : x \in D})
<1> DEFINE T == {f[x] : x \in D}
           g == [x \in D |-> f[x]]
<1>1. g \in Surjection(D, T)
  BY DEF Surjection
<1> HIDE DEF g, T
<1>2. IsFiniteSet(T)
  BY <1>1, FS_Surjection
<1> QED BY <1>2 DEF T

LEMMA RangeFinite ==
  ASSUME NEW S, NEW seq \in Seq(S)
  PROVE  IsFiniteSet(Range(seq)) /\ IsFiniteSet(DOMAIN seq)
<1>1. DOMAIN seq = 1 .. Len(seq) /\ Len(seq) \in Nat
  OBVIOUS
<1>2. IsFiniteSet(DOMAIN seq)
  BY <1>1, FS_Interval
<1>3. IsFiniteSet({seq[i] : i \in DOMAIN seq})
  BY <1>2, ImageFinite
<1> QED BY <1>2, <1>3 DEF Range

LEMMA CJKRunsFinite ==
  ASSUME NEW text \in Text
  PROVE  IsFiniteSet(CJKRuns(text))
<1> DEFINE D == DOMAIN text
           P == {p \in D \X D : /\ p[1] <= p[2] /\ \A k \in p[1] .. p[2] : text[k] \in CJK
                                /\ p[1] = 1 \/ text[p[1] - 1] \notin CJK
                                /\ p[2] = Len(text) \/ text[p[2] + 1] \notin CJK}
           f == [p \in P |-> SubSeq(text, p[1], p[2])]
<1>1. IsFiniteSet(D)
  BY RangeFinite DEF Text
<1>2. IsFiniteSet(D \X D)
  <2> HIDE DEF D
  <2> QED BY <1>1, FS_Product
<1>3. P \subseteq D \X D
  OBVIOUS
<1>4. CJKRuns(text) = {f[p] : p \in P}
  BY DEF CJKRuns
<1> HIDE DEF P, D
<1>5. IsFiniteSet(P) /\ DOMAIN f = P
  BY <1>2, <1>3, FS_Subset
<1> HIDE DEF f
<1>6. IsFiniteSet({f[p] : p \in P})
  BY <1>5, ImageFinite
<1> QED BY <1>4, <1>6

\* The tokens of a text.
LEMMA TokensFinite ==
  ASSUME NEW text \in Text
  PROVE  IsFiniteSet(Tokens(text))
<1> DEFINE W == Range(text) \ CJK
           f == [a \in W |-> <<a>>]
           R == {r \in CJKRuns(text) : Len(r) >= 2}
           A == {f[a] : a \in W}
<1>1. IsFiniteSet(Range(text))
  BY RangeFinite DEF Text
<1>2. IsFiniteSet(W)
  BY <1>1, FS_Subset
<1>3. IsFiniteSet(CJKRuns(text))
  BY CJKRunsFinite
<1>4. IsFiniteSet(R)
  BY <1>3, FS_Subset
<1>5. Tokens(text) = A \cup R
  BY DEF Tokens
<1>6. DOMAIN f = W
  OBVIOUS
<1> HIDE DEF W, R, f
<1>7. IsFiniteSet(A)
  BY <1>2, <1>6, ImageFinite
<1> HIDE DEF A
<1> QED BY <1>4, <1>5, <1>7, FS_Union

\* And the terms made of them.
LEMMA TermsFinite ==
  ASSUME NEW tokens, IsFiniteSet(tokens)
  PROVE  IsFiniteSet(Terms(tokens))
<1> DEFINE kept == tokens \ {<<a>> : a \in Stop}
           K == {a \in DOMAIN Synonyms : <<a>> \in kept}
           g == [a \in K |-> <<a>>]
           U == UNION {Synonyms[a] : a \in K}
           f == [b \in U |-> <<b>>]
           M == {f[b] : b \in U}
<1>1. IsFiniteSet(kept)
  BY FS_Subset
<1>2. g \in Injection(K, kept)
  BY DEF Injection, IsInjective
<1>3. \A a \in K : IsFiniteSet(Synonyms[a])
  BY MatchingAssumption
<1>4. Terms(tokens) = IF kept = {} THEN tokens
                      ELSE kept \cup (IF \E a \in Numbered : <<a>> \in tokens THEN M ELSE {})
  BY DEF Terms
<1>5. DOMAIN f = U
  OBVIOUS
<1> DEFINE H == [a \in K |-> Synonyms[a]]
<1>6. {Synonyms[a] : a \in K} = {H[a] : a \in K} /\ DOMAIN H = K /\ \A a \in K : H[a] = Synonyms[a]
  OBVIOUS
<1> HIDE DEF kept, K, g, H
<1>7. IsFiniteSet(K)
  BY <1>1, <1>2, FS_Injection
<1>8. IsFiniteSet({H[a] : a \in K})
  BY <1>6, <1>7, ImageFinite
<1>9. IsFiniteSet(U)
  <2> DEFINE V == {H[a] : a \in K}
  <2>1. \A T \in V : IsFiniteSet(T)
    BY <1>3, <1>6
  <2> HIDE DEF V
  <2>2. IsFiniteSet(UNION V)
    BY <1>8, <2>1, FS_UNION DEF V
  <2> QED BY <1>6, <2>2 DEF V
<1> HIDE DEF U, f
<1>10. IsFiniteSet(M)
  BY <1>5, <1>9, ImageFinite
<1> HIDE DEF M
<1>11. IsFiniteSet(kept \cup M) /\ IsFiniteSet(kept \cup {})
  BY <1>1, <1>10, FS_Union
<1> QED BY <1>4, <1>11

LEMMA TermsOfText ==
  ASSUME NEW text \in Text
  PROVE  /\ IsFiniteSet(Terms(Tokens(text)))
         /\ \A S : Cardinality(S \cap Terms(Tokens(text))) \in Nat /\ Cardinality(Terms(Tokens(text)) \cap S) \in Nat
<1> DEFINE T == Terms(Tokens(text))
<1>1. IsFiniteSet(T)
  BY TokensFinite, TermsFinite
<1> HIDE DEF T
<1>2. ASSUME NEW S PROVE Cardinality(S \cap T) \in Nat /\ Cardinality(T \cap S) \in Nat
  <2>1. IsFiniteSet(S \cap T) /\ IsFiniteSet(T \cap S)
    BY <1>1, FS_Subset
  <2> QED BY <2>1, FS_CardinalityType
<1> QED BY <1>1, <1>2 DEF T

\* A share in thousandths.
LEMMA PermilleIs ==
  ASSUME NEW part \in Nat, NEW whole \in Nat
  PROVE  Permille(part, whole) \in Nat
BY DEF Permille

LEMMA FactsAre ==
  ASSUME NEW m \in Ids
  PROVE  /\ Facts[m].subject \in Text /\ Facts[m].content \in Text
         /\ Facts[m].importance \in Nat /\ Facts[m].updated \in Nat /\ m \in Nat
         /\ Facts[m].importance \in 0 .. 1000
<1> DEFINE Grades == 0 .. 1000
           Fact == [kind : STRING, project : STRING, subject : Text, content : Text,
                    importance : Grades, updated : Nat, tainted : BOOLEAN]
<1>1. Facts \in Seq(Fact)
  BY MatchingAssumption DEF Text
<1>2. \A i \in Grades : i \in Nat
  OBVIOUS
<1> HIDE DEF Grades
<1>3. \A f \in Fact : /\ f.subject \in Text /\ f.content \in Text
                     /\ f.importance \in Grades /\ f.updated \in Nat
  OBVIOUS
<1> HIDE DEF Fact
<1>4. m \in Nat /\ Facts[m] \in Fact
  BY <1>1 DEF Ids
<1>5. /\ Facts[m].subject \in Text /\ Facts[m].content \in Text
      /\ Facts[m].importance \in Grades /\ Facts[m].updated \in Nat
  BY <1>3, <1>4
<1>6. Facts[m].importance \in Nat
  BY <1>2, <1>5
<1> QED BY <1>4, <1>5, <1>6 DEF Grades

LEMMA MatchStrengthIs ==
  ASSUME NEW query \in Text, NEW field \in Text
  PROVE  MatchStrength(query, field) \in Nat
<1> DEFINE terms == Terms(Tokens(query))
           hit == {t \in terms : Within(field, t)}
           ratio == Permille(Cardinality(hit), Cardinality(terms))
           p == Permille(Len(query), Len(field))
           share == IF Cardinality(terms) = 1 /\ HasCJK(query) THEN 0 ELSE Min({100, p})
<1>1. IsFiniteSet(terms)
  BY TermsOfText
<1>2. IsFiniteSet(hit)
  <2> HIDE DEF terms
  <2> QED BY <1>1, FS_Subset
<1>3. MatchStrength(query, field) = IF ratio = 0 THEN 0 ELSE (9 * ratio + share) \div 10
  BY DEF MatchStrength
<1> HIDE DEF terms, hit
<1>4. Cardinality(hit) \in Nat /\ Cardinality(terms) \in Nat
  BY <1>1, <1>2, FS_CardinalityType
<1>5. Len(query) \in Nat /\ Len(field) \in Nat
  BY DEF Text
<1>6. ratio \in Nat /\ p \in Nat
  BY <1>4, <1>5, PermilleIs
<1> HIDE DEF ratio, p
<1>7. share \in Nat
  BY <1>6, SmallerOf
<1> HIDE DEF share
<1> QED BY <1>3, <1>6, <1>7

LEMMA SimilarityIs ==
  ASSUME NEW query \in Text, NEW m \in Ids
  PROVE  Similarity(query, m) \in Nat
<1> DEFINE A == Range(Facts[m].subject) \cup Range(Facts[m].content)
           Q == Range(query)
<1>1. IsFiniteSet(Range(Facts[m].subject)) /\ IsFiniteSet(Range(Facts[m].content)) /\ IsFiniteSet(Q)
  BY FactsAre, RangeFinite DEF Text
<1>2. IsFiniteSet(A)
  BY <1>1, FS_Union
<1>3. Similarity(query, m) = Permille(Cardinality(Q \cap A), Cardinality(Q \cup A))
  BY DEF Similarity
<1> HIDE DEF A, Q
<1>4. IsFiniteSet(Q \cap A) /\ IsFiniteSet(Q \cup A)
  BY <1>1, <1>2, FS_Union, FS_Subset
<1>5. Cardinality(Q \cap A) \in Nat /\ Cardinality(Q \cup A) \in Nat
  BY <1>4, FS_CardinalityType
<1> QED BY <1>3, <1>5, PermilleIs

LEMMA OverlapIs ==
  ASSUME NEW query \in Text, NEW m \in Ids
  PROVE  Overlap(query, m) \in Nat
<1> DEFINE terms == Terms(Tokens(query))
           of == Terms(Tokens(Facts[m].subject) \cup Tokens(Facts[m].content))
           inside(r) == Len(r) >= 2 /\ (Within(Facts[m].subject, r) \/ Within(Facts[m].content, r))
<1>1. IsFiniteSet(terms) /\ Cardinality(terms \cap of) \in Nat
  BY TermsOfText
<1>2. Overlap(query, m) = IF terms \cap of # {} THEN Permille(Cardinality(terms \cap of), Cardinality(terms))
                          ELSE IF \E r \in CJKRuns(query) : inside(r) THEN 600 ELSE 0
  BY DEF Overlap
<1> HIDE DEF terms, of, inside
<1>3. Cardinality(terms) \in Nat
  BY <1>1, FS_CardinalityType
<1>4. Permille(Cardinality(terms \cap of), Cardinality(terms)) \in Nat
  BY <1>1, <1>3, PermilleIs
<1> QED BY <1>2, <1>4

\* A match is a class and a strength.
AMatch == [class : Classes, strength : Nat]

LEMMA ClassifyMatchIs ==
  ASSUME NEW m \in Ids, NEW query \in Text
  PROVE  ClassifyMatch(m, query) \in AMatch
<1> DEFINE s == Facts[m].subject
           c == Facts[m].content
           o == Overlap(query, m)
           i == Similarity(query, m)
           ps == MatchStrength(query, s)
           pc == MatchStrength(query, c)
           As(class, strength) == [class |-> class, strength |-> strength]
<1>1. s \in Text /\ c \in Text
  BY FactsAre
<1>2. o \in Nat /\ i \in Nat /\ ps \in Nat /\ pc \in Nat
  BY <1>1, OverlapIs, SimilarityIs, MatchStrengthIs
<1>3. 400 + (2 * o) \div 5 \in Nat
  <2> HIDE DEF o
  <2> QED BY <1>2
<1>4. ClassifyMatch(m, query) =
        CASE query = <<>> -> NoMatch
          [] s = query -> As(Exact, 1000)
          [] Within(s, query) -> As(OfSubject, ps)
          [] Within(c, query) -> As(Phrase, pc)
          [] HasCJK(query) /\ MixedSubject(s, query) -> As(OfSubject, ps)
          [] i >= 300 -> As(Fuzzy, i)
          [] o > 0 -> As(Fuzzy, 400 + (2 * o) \div 5)
          [] OTHER -> NoMatch
  BY DEF ClassifyMatch
<1> HIDE DEF s, c, o, i, ps, pc
<1>5. /\ NoMatch \in AMatch /\ As(Exact, 1000) \in AMatch /\ As(OfSubject, ps) \in AMatch
      /\ As(Phrase, pc) \in AMatch /\ As(Fuzzy, i) \in AMatch
      /\ As(Fuzzy, 400 + (2 * o) \div 5) \in AMatch
  BY <1>2, <1>3 DEF AMatch, Classes, NoMatch, Exact, OfSubject, Phrase, Fuzzy
<1> DEFINE a == 400 + (2 * o) \div 5
<1> HIDE DEF a, As
<1> QED BY <1>4, <1>5 DEF a

LEMMA ActivationIs ==
  ASSUME NEW m \in Ids, NEW activation \in Nat, NEW since \in Int
  PROVE  ActivationFor(m, activation, since) \in Int
<1> DEFINE tau == Tau(Facts[m].importance)
<1>1. tau \in {15, 30, 45, 60, 90}
  <2>1. Facts[m].importance \in Nat
    BY FactsAre
  <2> QED BY <2>1 DEF Tau
<1> HIDE DEF tau
<1>2. ActivationFor(m, activation, since) =
        IF IdentityKind(Facts[m].kind) \/ since <= 0 THEN activation
        ELSE IF since >= tau THEN 0 ELSE (activation * (tau - since)) \div tau
  BY DEF ActivationFor, tau
<1>3. activation * (tau - since) \in Int /\ tau \in Nat \ {0}
  BY <1>1
<1>4. \A x \in Int, y \in Nat \ {0} : x \div y \in Int
  OBVIOUS
<1>5. (activation * (tau - since)) \div tau \in Int
  BY <1>3, <1>4
<1> QED BY <1>2, <1>5

\* What Merged and the sort rely on: a key is nine numbers, and names its memory.
LEMMA RankKeyIs ==
  ASSUME NEW m \in Ids, NEW row, row.activation \in Nat, row.confidence \in Nat,
         NEW match \in AMatch, NEW since \in Int
  PROVE  /\ RankKey(m, row, match, since) \in Keys
         /\ RankKey(m, row, match, since)[1] = match.class
         /\ RankKey(m, row, match, since)[9] = -m
<1> DEFINE k2 == IF ~IdentityKind(Facts[m].kind) THEN 0 ELSE IF Facts[m].project = "" THEN 2 ELSE 1
           k4 == ConfidenceFactor(row)
           k5 == Validity(row)
           k6 == ActivationFor(m, row.activation, since)
           k7 == Facts[m].importance
           k8 == Facts[m].updated
<1>1. RankKey(m, row, match, since) = <<match.class, k2, match.strength, k4, k5, k6, k7, k8, -m>>
  BY DEF RankKey
<1>2. match.class \in Int /\ match.strength \in Int
  BY DEF AMatch, Classes
<1>3. k2 \in Int
  OBVIOUS
<1>4. k4 \in Int /\ k5 \in Int
  BY DEF ConfidenceFactor, Validity
<1>5. k6 \in Int /\ k7 \in Int /\ k8 \in Int /\ -m \in Int
  BY ActivationIs, FactsAre
<1> HIDE DEF k2, k4, k5, k6, k7, k8
<1> QED BY <1>1, <1>2, <1>3, <1>4, <1>5 DEF Keys

-----------------------------------------------------------------------------
(***************************************************************************)
(* Members in falling order, and the texts a query stands for.             *)
(***************************************************************************)
Falls(f, a, b) == f[a] > f[b] \/ (f[a] = f[b] /\ a < b)
Falling(f, S) == {p \in S \X S : Falls(f, p[1], p[2])}

\* Numbers sorted by what a function makes of them, the greatest first.
LEMMA SortedFalling ==
  ASSUME NEW S \in SUBSET Nat, IsFiniteSet(S), NEW f, \A a \in S : f[a] \in Int, NEW o,
         o = [i \in 1 .. Cardinality(S) |->
                CHOOSE a \in S : Cardinality({b \in S : f[b] > f[a] \/ (f[b] = f[a] /\ b < a)}) = i - 1]
  PROVE  Orders(o, Falling(f, S), S)
<1> DEFINE R == Falling(f, S)
<1>1. \A a, b \in S : <<a, b>> \in R <=> Falls(f, a, b)
  BY DEF Falling
<1> HIDE DEF R
<1>2. \A a \in S : a \in Nat /\ f[a] \in Int
  OBVIOUS
<1>3. StrictOrder(R, S)
  <2>1. \A a \in S : <<a, a>> \notin R
    BY <1>1, <1>2 DEF Falls
  <2>2. \A a, b, c \in S : <<a, b>> \in R /\ <<b, c>> \in R => <<a, c>> \in R
    BY <1>1, <1>2 DEF Falls
  <2>3. \A a, b \in S : a # b => <<a, b>> \in R \/ <<b, a>> \in R
    BY <1>1, <1>2 DEF Falls
  <2> QED BY <2>1, <2>2, <2>3 DEF StrictOrder
<1>4. ASSUME NEW a \in S
      PROVE  {b \in S : f[b] > f[a] \/ (f[b] = f[a] /\ b < a)} = Under(R, S, a)
  BY <1>1 DEF Under, Falls
<1>5. ASSUME NEW i
      PROVE  (CHOOSE a \in S : Cardinality({b \in S : f[b] > f[a] \/ (f[b] = f[a] /\ b < a)}) = i - 1)
               = CHOOSE a \in S : Cardinality(Under(R, S, a)) = i - 1
  BY <1>4
<1>6. Lists(o, R, S)
  <2> DEFINE C(i) == CHOOSE a \in S : Cardinality(Under(R, S, a)) = i - 1
             B(i) == CHOOSE a \in S : Cardinality({b \in S : f[b] > f[a] \/ (f[b] = f[a] /\ b < a)}) = i - 1
  <2>1. \A i : B(i) = C(i)
    BY <1>5
  <2>2. o = [i \in 1 .. Cardinality(S) |-> B(i)]
    OBVIOUS
  <2> HIDE DEF B
  <2>3. o = [i \in 1 .. Cardinality(S) |-> C(i)]
    BY <2>1, <2>2
  <2> QED BY <2>3 DEF Lists
<1> QED BY <1>3, <1>6, SortedAre DEF R

LEMMA AliasesAre ==
  ASSUME NEW i \in DOMAIN Aliases
  PROVE  /\ Aliases[i].canonical \in Text /\ Aliases[i].canonical # <<>>
         /\ Aliases[i].aliases \in Seq(Text)
<1> DEFINE E == [canonical : Seq(STRING) \ {<<>>}, aliases : Seq(Seq(STRING))]
<1>1. Aliases \in Seq(E)
  BY MatchingAssumption
<1> HIDE DEF E
<1>2. Aliases[i] \in E
  BY <1>1
<1> DEFINE e == Aliases[i]
<1>3. e \in E
  BY <1>2
<1> HIDE DEF e
<1>4. e.canonical \in Seq(STRING) /\ e.canonical # <<>> /\ e.aliases \in Seq(Seq(STRING))
  BY <1>3 DEF E
<1> QED BY <1>4 DEF e, Text

\* The texts a query is asked as: itself first, no text twice.
LEMMA ExpandIs ==
  ASSUME NEW query \in Text
  PROVE  /\ Expand(query) \in Seq(Text) /\ Len(Expand(query)) > 0 /\ Expand(query)[1] = query
         /\ \A i, j \in 1 .. Len(Expand(query)) : Expand(query)[i] = Expand(query)[j] => i = j
<1> DEFINE Back(e) == At(e.aliases, {i \in DOMAIN e.aliases :
                                      Len(e.aliases[i]) >= IF AllCJK(e.aliases[i]) THEN 6 ELSE 2})
           Of(i) == LET e == Aliases[i] IN
             CASE AliasMatches(query, e) -> <<e.canonical>>
               [] ~AliasMatches(query, e) /\ i \in Named(query) ->
                    <<e.canonical>> \o (IF query = e.canonical THEN Back(e) ELSE <<>>)
               [] OTHER -> <<>>
           places == UNION {{i} \X DOMAIN Of(i) : i \in DOMAIN Aliases}
           o == Sorted(places, LAMBDA p, q : p[1] < q[1] \/ (p[1] = q[1] /\ p[2] < q[2]))
           all == <<query>> \o [n \in DOMAIN o |-> Of(o[n][1])[o[n][2]]]
           P == {n \in DOMAIN all : \A k \in 1 .. n - 1 : all[k] # all[n]}
<1>1. Expand(query) = At(all, P)
  BY DEF Expand
<1>2. ASSUME NEW i \in DOMAIN Aliases PROVE Of(i) \in Seq(Text)
  <2> DEFINE e == Aliases[i]
  <2>1. e.canonical \in Text /\ e.aliases \in Seq(Text)
    BY AliasesAre
  <2>2. Back(e) \in Seq(Text)
    <3> DEFINE I == {k \in DOMAIN e.aliases :
                      Len(e.aliases[k]) >= IF AllCJK(e.aliases[k]) THEN 6 ELSE 2}
    <3>1. I \in SUBSET (1 .. Len(e.aliases))
      BY <2>1
    <3> HIDE DEF I
    <3> QED BY <2>1, <3>1, AtIs DEF I
  <2> HIDE DEF e, Back
  <2>3. <<e.canonical>> \in Seq(Text) /\ <<>> \in Seq(Text)
    BY <2>1
  <2>4. <<e.canonical>> \o Back(e) \in Seq(Text) /\ <<e.canonical>> \o <<>> \in Seq(Text)
    BY <2>2, <2>3
  <2> QED BY <2>3, <2>4 DEF e
<1> HIDE DEF Of
<1>3. \A p \in places : p[1] \in DOMAIN Aliases /\ p[2] \in DOMAIN Of(p[1]) /\ p[1] \in Nat /\ p[2] \in Nat
  <2> SUFFICES ASSUME NEW p \in places PROVE p[1] \in DOMAIN Aliases /\ p[2] \in DOMAIN Of(p[1]) /\ p[1] \in Nat /\ p[2] \in Nat
    OBVIOUS
  <2>1. PICK i \in DOMAIN Aliases : p \in {i} \X DOMAIN Of(i)
    OBVIOUS
  <2>2. p[1] = i /\ p[2] \in DOMAIN Of(i)
    BY <2>1
  <2>3. i \in Nat
    BY MatchingAssumption
  <2>4. DOMAIN Of(i) \subseteq Nat
    BY <1>2
  <2> QED BY <2>2, <2>3, <2>4
<1>4. IsFiniteSet(places)
  <2> DEFINE D == DOMAIN Aliases
             f == [i \in D |-> {i} \X DOMAIN Of(i)]
             F == {f[i] : i \in D}
  <2>1. IsFiniteSet(D)
    BY MatchingAssumption, RangeFinite
  <2>2. ASSUME NEW i \in D PROVE IsFiniteSet(f[i])
    <3>1. IsFiniteSet({i}) /\ IsFiniteSet(DOMAIN Of(i))
      BY <1>2, FS_Singleton, RangeFinite
    <3>2. IsFiniteSet({i} \X DOMAIN Of(i))
      BY <3>1, FS_Product
    <3> QED BY <3>2
  <2>3. DOMAIN f = D
    OBVIOUS
  <2>4. places = UNION F
    OBVIOUS
  <2> HIDE DEF D, f
  <2>5. IsFiniteSet(F)
    BY <2>1, <2>3, ImageFinite
  <2>6. \A T \in F : IsFiniteSet(T)
    BY <2>2
  <2> HIDE DEF F
  <2> QED BY <2>4, <2>5, <2>6, FS_UNION
<1> HIDE DEF places
<1> DEFINE R == {p \in places \X places : p[1][1] < p[2][1] \/ (p[1][1] = p[2][1] /\ p[1][2] < p[2][2])}
<1>5. Orders(o, R, places)
  <2>1. \A p, q \in places : <<p, q>> \in R <=> p[1] < q[1] \/ (p[1] = q[1] /\ p[2] < q[2])
    OBVIOUS
  <2>2. \A p, q \in places : p[1] = q[1] /\ p[2] = q[2] => p = q
    <3> SUFFICES ASSUME NEW p \in places, NEW q \in places, p[1] = q[1], p[2] = q[2] PROVE p = q
      OBVIOUS
    <3>1. \A x \in places : x = <<x[1], x[2]>>
      BY DEF places
    <3>2. p = <<p[1], p[2]>> /\ q = <<q[1], q[2]>>
      BY <3>1
    <3> QED BY <3>2
  <2>3. ASSUME NEW a \in places
        PROVE  {b \in places : b[1] < a[1] \/ (b[1] = a[1] /\ b[2] < a[2])} = Under(R, places, a)
    BY <2>1 DEF Under
  <2>4. o = [i \in 1 .. Cardinality(places) |->
               CHOOSE a \in places :
                 Cardinality({b \in places : b[1] < a[1] \/ (b[1] = a[1] /\ b[2] < a[2])}) = i - 1]
    BY DEF Sorted
  <2>5. ASSUME NEW i
        PROVE  (CHOOSE a \in places :
                 Cardinality({b \in places : b[1] < a[1] \/ (b[1] = a[1] /\ b[2] < a[2])}) = i - 1)
                 = CHOOSE a \in places : Cardinality(Under(R, places, a)) = i - 1
    BY <2>3
  <2> HIDE DEF R, o
  <2>6. Lists(o, R, places)
    BY <2>4, <2>5 DEF Lists
  <2>7. StrictOrder(R, places)
    <3>1. \A a \in places : <<a, a>> \notin R
      BY <1>3, <2>1
    <3>2. \A a, b, c \in places : <<a, b>> \in R /\ <<b, c>> \in R => <<a, c>> \in R
      BY <1>3, <2>1
    <3>3. \A a, b \in places : a # b => <<a, b>> \in R \/ <<b, a>> \in R
      BY <1>3, <2>1, <2>2
    <3> QED BY <3>1, <3>2, <3>3 DEF StrictOrder
  <2> QED BY <1>4, <2>6, <2>7, SortedAre
<1> HIDE DEF o, R
<1> DEFINE L == Cardinality(places)
           t == [n \in DOMAIN o |-> Of(o[n][1])[o[n][2]]]
<1>6. L \in Nat /\ DOMAIN o = 1 .. L /\ \A n \in 1 .. L : o[n] \in places
  BY <1>5 DEF Orders
<1>7. t \in Seq(Text)
  <2>1. ASSUME NEW n \in 1 .. L PROVE Of(o[n][1])[o[n][2]] \in Text
    <3>1. o[n][1] \in DOMAIN Aliases /\ o[n][2] \in DOMAIN Of(o[n][1])
      BY <1>3, <1>6
    <3>2. Of(o[n][1]) \in Seq(Text)
      BY <1>2, <3>1
    <3> QED BY <3>1, <3>2
  <2>2. t \in [1 .. L -> Text]
    BY <1>6, <2>1
  <2> HIDE DEF t, L
  <2> QED BY <1>6, <2>2
<1> HIDE DEF t
<1>8. all \in Seq(Text) /\ Len(all) > 0 /\ all[1] = query
  BY <1>7 DEF t
<1> HIDE DEF all
<1>9. P \in SUBSET (1 .. Len(all)) /\ 1 \in P
  BY <1>8
<1> DEFINE k == Cardinality(P)
           x == At(all, P)
<1>9b. \A i \in P : i \in Nat /\ i >= 1
  <2> DEFINE l == Len(all)
  <2>1. l \in Nat /\ P \subseteq 1 .. l
    BY <1>8, <1>9
  <2> HIDE DEF l, P
  <2> QED BY <2>1
<1>9a. \A n \in P : \A i \in 1 .. n - 1 : all[i] # all[n]
  OBVIOUS
<1> HIDE DEF P
<1>10. /\ k \in Nat /\ x \in Seq(Text) /\ Len(x) = k
       /\ \E p \in [1 .. k -> P] :
            /\ \A n \in 1 .. k : x[n] = all[p[n]]
            /\ \A n, l \in 1 .. k : n < l => p[n] < p[l]
            /\ \A i \in P : \E n \in 1 .. k : p[n] = i
  BY <1>8, <1>9, AtIs
<1> HIDE DEF x, k
<1>11. PICK p \in [1 .. k -> P] :
            /\ \A n \in 1 .. k : x[n] = all[p[n]]
            /\ \A n, l \in 1 .. k : n < l => p[n] < p[l]
            /\ \A i \in P : \E n \in 1 .. k : p[n] = i
  BY <1>10
<1>12. ASSUME NEW n \in 1 .. k PROVE p[n] \in P /\ p[n] \in Nat /\ p[n] >= 1
  <2>1. p[n] \in P
    OBVIOUS
  <2> QED BY <1>9b, <2>1
<1>13. PICK n \in 1 .. k : p[n] = 1
  BY <1>9, <1>11
<1>14. k > 0 /\ p[1] = 1
  <2>1. k > 0 /\ 1 \in 1 .. k
    BY <1>10
  <2>2. 1 < n => p[1] < p[n]
    BY <1>11, <2>1
  <2>3. p[1] \in Nat /\ p[1] >= 1
    BY <1>12, <2>1
  <2>4. n \in Nat /\ n >= 1
    BY <1>10
  <2>5. n = 1 \/ 1 < n
    BY <2>4
  <2> QED BY <1>13, <2>1, <2>2, <2>3, <2>5
<1>15. x[1] = query
  <2>1. 1 \in 1 .. k
    BY <1>10, <1>14
  <2> QED BY <1>8, <1>11, <1>14, <2>1
<1>16. ASSUME NEW i \in 1 .. k, NEW j \in 1 .. k, x[i] = x[j] PROVE i = j
  <2>1. p[i] \in P /\ p[j] \in P /\ p[i] \in Nat /\ p[j] \in Nat /\ p[i] >= 1 /\ p[j] >= 1
    BY <1>12
  <2>2. all[p[i]] = all[p[j]]
    BY <1>11, <1>16
  <2>3. ~(p[i] < p[j])
    <3> SUFFICES ASSUME p[i] < p[j] PROVE FALSE
      OBVIOUS
    <3>1. p[i] \in 1 .. p[j] - 1
      BY <2>1
    <3> QED BY <1>9a, <2>1, <2>2, <3>1
  <2>4. ~(p[j] < p[i])
    <3> SUFFICES ASSUME p[j] < p[i] PROVE FALSE
      OBVIOUS
    <3>1. p[j] \in 1 .. p[i] - 1
      BY <2>1
    <3> QED BY <1>9a, <2>1, <2>2, <3>1
  <2>5. i < j => p[i] < p[j]
    BY <1>11
  <2>6. j < i => p[j] < p[i]
    BY <1>11
  <2> QED BY <2>3, <2>4, <2>5, <2>6
<1> QED BY <1>1, <1>10, <1>14, <1>15, <1>16 DEF x

\* The beginnings of a query are texts, and one of more than two characters
\* and nothing else has some.
LEMMA BeginningsAre ==
  ASSUME NEW query \in Text
  PROVE  /\ Prefixes2(query) \in Seq(Text)
         /\ AllCJK(query) /\ Len(query) > 2 => Prefixes2(query) # <<>>
<1> DEFINE c == Chars(query)
           I == {i \in DOMAIN query : query[i] \in CJK}
<1>1. c = At(query, I) /\ query \in Seq(STRING)
  BY DEF Chars, Those, Text
<1>2. I \in SUBSET (1 .. Len(query)) /\ Len(query) \in Nat
  BY <1>1
<1>3. AllCJK(query) => I = 1 .. Len(query)
  BY <1>1 DEF AllCJK, Range
<1> HIDE DEF I, c
<1>4. c \in Seq(STRING) /\ Len(c) = Cardinality(I)
  BY <1>1, <1>2, AtIs
<1>5. AllCJK(query) => Len(c) = Len(query)
  <2> DEFINE l == Len(query)
  <2>1. l \in Int /\ 1 \in Int /\ l >= 0
    BY <1>2
  <2> HIDE DEF l
  <2>2. Cardinality(1 .. l) = IF 1 > l THEN 0 ELSE l - 1 + 1
    BY <2>1, FS_Interval
  <2>3. Cardinality(1 .. l) = l
    BY <2>1, <2>2
  <2> QED BY <1>3, <1>4, <2>3 DEF l
<1> DEFINE p == [k \in 1 .. Len(c) - 2 |-> SubSeq(c, 1, Len(c) - k)]
<1>6. Prefixes2(query) = IF Len(c) < 3 THEN <<>> ELSE p
  BY DEF Prefixes2, c
<1>7. Len(c) >= 3 => p \in Seq(Text) /\ Len(p) = Len(c) - 2
  <2> SUFFICES ASSUME Len(c) >= 3 PROVE p \in Seq(Text) /\ Len(p) = Len(c) - 2
    OBVIOUS
  <2> DEFINE l == Len(c) - 2
  <2>1. l \in Nat /\ Len(c) \in Nat
    BY <1>4
  <2>2. ASSUME NEW k \in 1 .. l PROVE SubSeq(c, 1, Len(c) - k) \in Text
    <3>1. Len(c) - k \in 0 .. Len(c)
      BY <2>1
    <3> QED BY <1>4, <3>1, BeginningIs DEF Text
  <2>3. p \in [1 .. l -> Text]
    BY <2>2
  <2> HIDE DEF p, l
  <2>4. p \in Seq(Text) /\ Len(p) = l
    BY <2>1, <2>3
  <2> QED BY <2>4 DEF l
<1> HIDE DEF p
<1>8. <<>> \in Seq(Text)
  OBVIOUS
<1>9. Len(c) \in Nat /\ (Len(c) >= 3 => p # <<>>)
  BY <1>4, <1>7
<1> QED BY <1>2, <1>5, <1>6, <1>7, <1>8, <1>9

=============================================================================
