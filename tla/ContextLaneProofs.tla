-------------------------- MODULE ContextLaneProofs --------------------------
(***************************************************************************)
(* What a session of the daemon relies on, for all sets of sessions,       *)
(* projects and calls, all memories, queries and limits, and without the   *)
(* bounds of the runs: whoever follows a cursor is told every change once  *)
(* and in order, a wake-up packet and its cursor leave no gap, what was    *)
(* shown is not injected again, and nothing that a search recalled and the *)
(* session was not shown is left out in silence.                           *)
(*                                                                         *)
(* The argument has two layers.  Below, what the operators of an answer    *)
(* do (on those of Matching, see MatchingProofs): a packet with a budget   *)
(* (Packed), the log (Continues, ReadBackIs) and the hits of a search      *)
(* (RankingsAre).  Some are defined by functions on the numbers up to a    *)
(* length, so what they do follows from the least number at which it would *)
(* not.  Above, the invariant ContextInv: what a cursor and the told       *)
(* changes have to do with each other (ChainInv), and for each handler at  *)
(* work where it can be (PathInv), what its answer costs so far (CostInv), *)
(* what a packet may leave out (GapInv) and what an injection must hold    *)
(* (InjectInv).  Commits happen between any two steps of a handler, so     *)
(* each part is stated of what the handler has read.                       *)
(***************************************************************************)
EXTENDS ContextLane, MatchingProofs

-----------------------------------------------------------------------------
(***************************************************************************)
(* Parts of sequences.                                                     *)
(***************************************************************************)

\* What FirstN answers: as much of the beginning as there is.
LEMMA FirstNIs ==
  ASSUME NEW S, NEW seq \in Seq(S), NEW n \in Nat
  PROVE  /\ FirstN(seq, n) \in Seq(S)
         /\ Len(FirstN(seq, n)) = IF n <= Len(seq) THEN n ELSE Len(seq)
         /\ \A i \in 1 .. Len(FirstN(seq, n)) : FirstN(seq, n)[i] = seq[i]
<1> DEFINE m == IF n <= Len(seq) THEN n ELSE Len(seq)
<1>1. Len(seq) \in Nat /\ m \in 0 .. Len(seq)
  OBVIOUS
<1>2. FirstN(seq, n) = SubSeq(seq, 1, m)
  BY <1>1, SmallerOf DEF FirstN
<1> HIDE DEF m
<1>3. SubSeq(seq, 1, m) \in Seq(S) /\ Len(SubSeq(seq, 1, m)) = m
      /\ \A i \in 1 .. m : SubSeq(seq, 1, m)[i] = seq[i]
  BY <1>1
<1> QED BY <1>2, <1>3 DEF m

\* The end of a sequence.
IsEnd(new, seq, n) ==
  /\ Len(new) = IF n <= Len(seq) THEN n ELSE Len(seq)
  /\ \A i \in 1 .. Len(new) : new[i] = seq[Len(seq) - Len(new) + i]

\* What Newest answers: as much of the end as there is.
LEMMA NewestIs ==
  ASSUME NEW S, NEW seq \in Seq(S), NEW n \in Nat
  PROVE  Newest(seq, n) \in Seq(S) /\ IsEnd(Newest(seq, n), seq, n)
<1> DEFINE m == IF n <= Len(seq) THEN n ELSE Len(seq)
           b == Len(seq) - m + 1
<1>0. Len(seq) \in Nat /\ m \in 0 .. Len(seq)
  OBVIOUS
<1>1. Len(seq) \in Nat /\ m \in 0 .. Len(seq) /\ b \in 1 .. Len(seq) + 1
  <2> HIDE DEF m
  <2> QED BY <1>0
<1>2. Max({1, Len(seq) - n + 1}) = b
  <2> DEFINE c == Len(seq) - n + 1
  <2>0. c \in Int /\ 1 \in Int
    OBVIOUS
  <2>1. c \in Int /\ 1 \in Int /\ b = IF 1 >= c THEN 1 ELSE c
    <3>1. CASE n <= Len(seq)
      BY <1>0, <2>0, <3>1
    <3>2. CASE ~(n <= Len(seq))
      <4>1. b = 1 /\ 1 >= c
        BY <1>0, <3>2
      <4> QED BY <2>0, <4>1
    <3> QED BY <3>1, <3>2
  <2> HIDE DEF c
  <2>2. Max({1, c}) = IF 1 >= c THEN 1 ELSE c
    BY <2>1, LargerOf
  <2>3. Max({1, c}) = b
    BY <2>1, <2>2
  <2> QED BY <2>3 DEF c
<1>3. Newest(seq, n) = SubSeq(seq, b, Len(seq))
  BY <1>2 DEF Newest
<1> HIDE DEF m
<1>4. SubSeq(seq, b, Len(seq)) \in Seq(S) /\ Len(SubSeq(seq, b, Len(seq))) = m
      /\ \A i \in 1 .. m : SubSeq(seq, b, Len(seq))[i] = seq[Len(seq) - m + i]
  BY <1>1
<1> HIDE DEF b
<1>5. IsEnd(SubSeq(seq, b, Len(seq)), seq, n)
  BY <1>4 DEF IsEnd, m
<1> QED BY <1>3, <1>4, <1>5

-----------------------------------------------------------------------------
(***************************************************************************)
(* What fits.                                                              *)
(***************************************************************************)
Empty(budget) == [kept |-> <<>>, left |-> budget, cut |-> FALSE]

\* The recursion of Packing defines a function.
LEMMA PackingIs ==
  ASSUME NEW list, NEW L \in Nat, L = Len(list), NEW skipped, NEW budget, NEW most, NEW cost
  PROVE  Packing(list, skipped, budget, most, cost) =
           [n \in 0 .. L |->
              IF n = 0 THEN Empty(budget)
              ELSE Taken(Packing(list, skipped, budget, most, cost)[n - 1], list[n], skipped, most, cost)]
<1> DEFINE Of(f, n) == IF n = 0 THEN Empty(budget) ELSE Taken(f[n - 1], list[n], skipped, most, cost)
           S == {k \in Nat : \E f : f = [n \in 0 .. k |-> Of(f, n)]}
<1>1. 0 \in S
  <2> DEFINE f == [n \in 0 .. 0 |-> Empty(budget)]
  <2>1. f = [n \in 0 .. 0 |-> Of(f, n)]
    <3>1. \A n \in 0 .. 0 : Of(f, n) = Empty(budget)
      OBVIOUS
    <3> HIDE DEF Of
    <3> QED BY <3>1
  <2> HIDE DEF f, Of
  <2> QED BY <2>1
<1>2. ASSUME NEW k \in Nat, k \in S PROVE k + 1 \in S
  <2>1. PICK f : f = [n \in 0 .. k |-> Of(f, n)]
    BY <1>2
  <2> DEFINE g == [n \in 0 .. k + 1 |-> IF n = k + 1 THEN Taken(f[k], list[k + 1], skipped, most, cost) ELSE f[n]]
  <2>2. ASSUME NEW n \in 0 .. k + 1 PROVE g[n] = Of(g, n)
    <3>1. CASE n = k + 1
      <4>1. n - 1 = k /\ k \in 0 .. k + 1 /\ k # k + 1 /\ n # 0
        BY <3>1
      <4>2. g[n] = Taken(f[k], list[n], skipped, most, cost) /\ g[k] = f[k]
        BY <3>1, <4>1
      <4> HIDE DEF g
      <4> QED BY <4>1, <4>2
    <3>2. CASE n # k + 1
      <4>1. n \in 0 .. k /\ (n # 0 => n - 1 \in 0 .. k + 1 /\ n - 1 # k + 1)
        BY <3>2
      <4>2. g[n] = f[n] /\ (n # 0 => g[n - 1] = f[n - 1])
        BY <3>2, <4>1
      <4>3. f[n] = Of(f, n)
        <5> HIDE DEF Of
        <5> QED BY <2>1, <4>1
      <4> HIDE DEF g
      <4> QED BY <4>2, <4>3
    <3> QED BY <3>1, <3>2
  <2>3. g = [n \in 0 .. k + 1 |-> g[n]]
    OBVIOUS
  <2> HIDE DEF g, Of
  <2>4. g = [n \in 0 .. k + 1 |-> Of(g, n)]
    BY <2>2, <2>3
  <2> QED BY <2>4
<1>3. L \in S
  <2> HIDE DEF S
  <2>1. Nat \subseteq S
    BY <1>1, <1>2, NaturalsIn
  <2> QED BY <2>1
<1> DEFINE p == Packing(list, skipped, budget, most, cost)
<1>4. p = CHOOSE f : f = [n \in 0 .. L |-> Of(f, n)]
  BY DEF Packing, Empty
<1>5. p = [n \in 0 .. L |-> Of(p, n)]
  <2> HIDE DEF p, Of
  <2>1. \E f : f = [n \in 0 .. L |-> Of(f, n)]
    BY <1>3
  <2> QED BY <1>4, <2>1
<1> QED BY <1>5

\* A packet under way holds items of T, most of them at most.
Tray(T, most, a) == a \in [kept : Seq(T), left : Nat, cut : BOOLEAN] /\ Len(a.kept) <= most

\* The first n items of a list are skipped, kept or admitted to be left out,
\* and nothing else is kept.
Holds(list, n, skipped, a) ==
  \A i \in 1 .. n : list[i] \in skipped \/ \E j \in 1 .. Len(a.kept) : a.kept[j] = list[i]
IsFrom(list, n, a) == \A j \in 1 .. Len(a.kept) : \E i \in 1 .. n : a.kept[j] = list[i]
Packs(list, n, skipped, a) ==
  Len(a.kept) <= n /\ (a.cut \/ Holds(list, n, skipped, a)) /\ IsFrom(list, n, a)

\* How an item changes a packet: it is left out, or comes last.
Moves(a, b, x, skipped, cost) ==
  \/ b.kept = a.kept /\ b.left = a.left /\ (b.cut \/ (x \in skipped /\ b.cut = a.cut))
  \/ b.kept = Append(a.kept, x) /\ x \notin skipped /\ b.cut = a.cut /\ b.left = a.left - cost[x]

\* One item more or less.
LEMMA TakenKeeps ==
  ASSUME NEW T, NEW most \in Nat, NEW skipped, NEW cost, NEW x, x \in T \/ x \in skipped,
         x \notin skipped => cost[x] \in Nat,
         NEW a, Tray(T, most, a), NEW b, b = Taken(a, x, skipped, most, cost)
  PROVE  Tray(T, most, b) /\ Moves(a, b, x, skipped, cost)
<1>0. a \in [kept : Seq(T), left : Nat, cut : BOOLEAN] /\ Len(a.kept) <= most
  BY DEF Tray, Moves
<1>1. CASE Len(a.kept) = most
  <2>1. b = [a EXCEPT !.cut = TRUE]
    BY <1>1 DEF Taken
  <2> QED BY <1>0, <2>1 DEF Tray, Moves
<1>2. CASE Len(a.kept) # most /\ x \in skipped
  <2>1. b = a
    BY <1>2 DEF Taken
  <2> QED BY <1>0, <1>2, <2>1 DEF Tray, Moves
<1>3. CASE Len(a.kept) # most /\ x \notin skipped /\ cost[x] > a.left
  <2>1. b = [a EXCEPT !.cut = TRUE]
    BY <1>3 DEF Taken
  <2> QED BY <1>0, <2>1 DEF Tray, Moves
<1>4. CASE Len(a.kept) # most /\ x \notin skipped /\ ~(cost[x] > a.left)
  <2>1. b = [a EXCEPT !.kept = Append(@, x), !.left = @ - cost[x]]
    BY <1>4 DEF Taken
  <2>2. b = [kept |-> Append(a.kept, x), left |-> a.left - cost[x], cut |-> a.cut]
    BY <1>0, <2>1
  <2>3. Append(a.kept, x) \in Seq(T) /\ Len(Append(a.kept, x)) = Len(a.kept) + 1 /\ Len(a.kept) \in Nat
    BY <1>0, <1>4
  <2>4. a.left - cost[x] \in Nat
    BY <1>0, <1>4
  <2> QED BY <1>0, <1>4, <2>2, <2>3, <2>4 DEF Tray, Moves
<1> QED BY <1>1, <1>2, <1>3, <1>4

\* What Packed keeps of a list, within both bounds, and what the answer
\* admits when it leaves an item out.
LEMMA PackingKeeps ==
  ASSUME NEW S, NEW list \in Seq(S), NEW skipped, NEW budget \in Nat, NEW most \in Nat, NEW cost,
         \A x \in S : cost[x] \in Nat,
         NEW n \in 0 .. Len(list)
  PROVE  /\ Tray(S \ skipped, most, Packing(list, skipped, budget, most, cost)[n])
         /\ Packs(list, n, skipped, Packing(list, skipped, budget, most, cost)[n])
<1> DEFINE p == Packing(list, skipped, budget, most, cost)
           T == S \ skipped
           Good(a, k) == Tray(T, most, a) /\ Packs(list, k, skipped, a)
           Ks == {k \in Nat : k <= Len(list) => Good(p[k], k)}
<1>0. Len(list) \in Nat /\ \A k \in 1 .. Len(list) : list[k] \in S
  OBVIOUS
<1>1. p = [k \in 0 .. Len(list) |->
             IF k = 0 THEN Empty(budget) ELSE Taken(p[k - 1], list[k], skipped, most, cost)]
  BY <1>0, PackingIs
<1>2. p[0] = Empty(budget)
  <2> HIDE DEF p
  <2> QED BY <1>0, <1>1
<1>3. ASSUME NEW k \in Nat, k + 1 <= Len(list)
      PROVE  p[k + 1] = Taken(p[k], list[k + 1], skipped, most, cost)
  <2> HIDE DEF p
  <2>1. k + 1 \in 0 .. Len(list) /\ k + 1 # 0 /\ (k + 1) - 1 = k
    BY <1>0, <1>3
  <2> QED BY <1>1, <2>1
<1>4. 0 \in Ks
  <2>1. Empty(budget).kept = <<>> /\ Empty(budget).left = budget /\ Empty(budget).cut = FALSE
    BY DEF Empty
  <2>2. Empty(budget) = [kept |-> <<>>, left |-> budget, cut |-> FALSE] /\ <<>> \in Seq(T) /\ Len(<<>>) = 0
    BY DEF Empty
  <2>3. Tray(T, most, Empty(budget))
    BY <2>2 DEF Tray
  <2>4. Packs(list, 0, skipped, Empty(budget))
    BY <2>1, <2>2 DEF Packs, Holds, IsFrom
  <2> HIDE DEF p
  <2> QED BY <1>2, <2>3, <2>4
<1>5. ASSUME NEW k \in Nat, k \in Ks PROVE k + 1 \in Ks
  <2>1. SUFFICES ASSUME k + 1 <= Len(list) PROVE Good(p[k + 1], k + 1)
    OBVIOUS
  <2> DEFINE a == p[k]
             b == p[k + 1]
             x == list[k + 1]
  <2>2. Good(a, k)
    <3> HIDE DEF Good, p
    <3>1. k <= Len(list)
      BY <1>0, <2>1
    <3> QED BY <1>5, <3>1
  <2>3. x \in S /\ (x \notin skipped => x \in T) /\ cost[x] \in Nat
    BY <1>0, <2>1
  <2>4. b = Taken(a, x, skipped, most, cost)
    BY <1>3, <2>1
  <2> HIDE DEF p, a, b, x, T
  <2>5. Tray(T, most, b) /\ Moves(a, b, x, skipped, cost)
    <3>1. Tray(T, most, a)
      BY <2>2
    <3>2. x \in T \/ x \in skipped
      BY <2>3
    <3>3. x \notin skipped => cost[x] \in Nat
      BY <2>3
    <3> QED BY ONLY most \in Nat, <2>4, <3>1, <3>2, <3>3, TakenKeeps
  <2>6. a.kept \in Seq(T) /\ Len(a.kept) \in Nat /\ Len(a.kept) <= k
    BY <2>2 DEF Tray, Packs
  <2>9. (a.cut \/ Holds(list, k, skipped, a)) /\ IsFrom(list, k, a)
    BY <2>2 DEF Packs
  <2>7. ASSUME b.kept = a.kept, b.cut \/ (x \in skipped /\ b.cut = a.cut) PROVE Packs(list, k + 1, skipped, b)
    <3>1. Len(b.kept) <= k + 1
      BY <2>6, <2>7
    <3>2. IsFrom(list, k + 1, b)
      BY <2>7, <2>9 DEF IsFrom
    <3>3. ~b.cut => Holds(list, k + 1, skipped, b)
      <4>1. SUFFICES ASSUME ~b.cut, NEW i \in 1 .. k + 1
                     PROVE  list[i] \in skipped \/ \E j \in 1 .. Len(b.kept) : b.kept[j] = list[i]
        BY DEF Holds
      <4>2. Holds(list, k, skipped, a) /\ x \in skipped
        BY <2>7, <2>9, <4>1
      <4>3. i = k + 1 \/ i \in 1 .. k
        BY <4>1
      <4> QED BY <2>7, <4>2, <4>3 DEF x, Holds
    <3> QED BY <3>1, <3>2, <3>3 DEF Packs
  <2>8. ASSUME b.kept = Append(a.kept, x), b.cut = a.cut PROVE Packs(list, k + 1, skipped, b)
    <3>0. /\ Len(b.kept) = Len(a.kept) + 1 /\ b.kept[Len(a.kept) + 1] = x
          /\ \A j \in 1 .. Len(a.kept) : b.kept[j] = a.kept[j]
      BY <2>6, <2>8
    <3>1. Len(b.kept) <= k + 1
      BY <2>6, <3>0
    <3>2. IsFrom(list, k + 1, b)
      <4>1. SUFFICES ASSUME NEW j \in 1 .. Len(b.kept) PROVE \E i \in 1 .. k + 1 : b.kept[j] = list[i]
        BY DEF IsFrom
      <4>2. CASE j = Len(a.kept) + 1
        BY <3>0, <4>2 DEF x
      <4>3. CASE j \in 1 .. Len(a.kept)
        <5>1. PICK i \in 1 .. k : a.kept[j] = list[i]
          BY <2>9, <4>3 DEF IsFrom
        <5>2. i \in 1 .. k + 1
          BY <5>1
        <5> QED BY <3>0, <4>3, <5>1, <5>2
      <4> QED BY <2>6, <3>0, <4>1, <4>2, <4>3
    <3>3. ~b.cut => Holds(list, k + 1, skipped, b)
      <4>1. SUFFICES ASSUME ~b.cut, NEW i \in 1 .. k + 1
                     PROVE  list[i] \in skipped \/ \E j \in 1 .. Len(b.kept) : b.kept[j] = list[i]
        BY DEF Holds
      <4>2. Holds(list, k, skipped, a)
        BY <2>8, <2>9, <4>1
      <4>3. CASE i = k + 1
        <5>1. Len(a.kept) + 1 \in 1 .. Len(b.kept)
          BY <2>6, <3>0
        <5> QED BY <3>0, <4>3, <5>1 DEF x
      <4>4. CASE i \in 1 .. k
        <5>1. CASE list[i] \notin skipped
          <6>1. PICK j \in 1 .. Len(a.kept) : a.kept[j] = list[i]
            BY <4>2, <4>4, <5>1 DEF Holds
          <6>2. j \in 1 .. Len(b.kept)
            BY <2>6, <3>0, <6>1
          <6> QED BY <3>0, <6>1, <6>2
        <5> QED BY <5>1
      <4> QED BY <4>1, <4>3, <4>4
    <3> QED BY <3>1, <3>2, <3>3 DEF Packs
  <2>10. Packs(list, k + 1, skipped, b)
    BY <2>5, <2>7, <2>8 DEF Moves
  <2> QED BY <2>5, <2>10 DEF b
<1>6. n \in Ks /\ n <= Len(list)
  <2> HIDE DEF Ks
  <2>1. Nat \subseteq Ks
    BY <1>4, <1>5, NaturalsIn
  <2> QED BY <1>0, <2>1
<1>7. Good(p[n], n)
  <2> HIDE DEF p
  <2> QED BY <1>6
<1> QED BY <1>7

\* The same of a packed list.
Keeps(packed, S, list, skipped, most) ==
  /\ packed.kept \in Seq(S \ skipped) /\ packed.cut \in BOOLEAN
  /\ Len(packed.kept) <= most /\ Len(packed.kept) <= Len(list)
  /\ packed.cut \/ \A x \in Range(list) : x \in skipped \/ x \in Range(packed.kept)
  /\ Range(packed.kept) \subseteq Range(list) \ skipped

\* What a packed list keeps.
LEMMA PackedKeeps ==
  ASSUME NEW S, NEW list \in Seq(S), NEW skipped, NEW budget \in Nat, NEW most \in Nat, NEW cost,
         \A x \in S : cost[x] \in Nat,
         NEW packed, packed = Packed(list, skipped, budget, most, cost)
  PROVE  Keeps(packed, S, list, skipped, most)
<1> DEFINE a == Packing(list, skipped, budget, most, cost)[Len(list)]
<1>1. Len(list) \in Nat /\ Len(list) \in 0 .. Len(list)
  OBVIOUS
<1> HIDE DEF a
<1>0. a = Packing(list, skipped, budget, most, cost)[Len(list)]
  BY DEF a
<1>2. Tray(S \ skipped, most, a) /\ Packs(list, Len(list), skipped, a)
  BY <1>0, <1>1, PackingKeeps
<1>3. packed = [kept |-> a.kept, cut |-> a.cut]
  BY <1>0 DEF Packed
<1>4. packed.kept = a.kept /\ packed.cut = a.cut
  BY <1>3
<1>5. \A x : x \in Range(list) <=> \E i \in 1 .. Len(list) : x = list[i]
  BY RangeIs
<1>6. a.kept \in Seq(S \ skipped)
  BY <1>2 DEF Tray
<1>7. /\ \A x : x \in Range(a.kept) <=> \E i \in 1 .. Len(a.kept) : x = a.kept[i]
      /\ Range(a.kept) \subseteq S \ skipped
  BY <1>6, RangeIs
<1>8. Range(a.kept) \subseteq Range(list) \ skipped
  <2>1. \A j \in 1 .. Len(a.kept) : \E i \in 1 .. Len(list) : a.kept[j] = list[i]
    BY <1>2 DEF Packs, IsFrom
  <2>2. ASSUME NEW x \in Range(a.kept) PROVE x \in Range(list)
    <3>1. PICK j \in 1 .. Len(a.kept) : x = a.kept[j]
      BY <1>7
    <3>2. PICK i \in 1 .. Len(list) : a.kept[j] = list[i]
      BY <2>1
    <3> QED BY <1>5, <3>1, <3>2
  <2> QED BY <1>7, <2>2
<1>9. a.cut \/ \A x \in Range(list) : x \in skipped \/ x \in Range(a.kept)
  <2>1. a.cut \/ \A i \in 1 .. Len(list) : list[i] \in skipped \/ \E j \in 1 .. Len(a.kept) : a.kept[j] = list[i]
    BY <1>2 DEF Packs, Holds
  <2> QED BY <1>5, <1>7, <2>1
<1>10. a.cut \in BOOLEAN /\ Len(a.kept) <= most /\ Len(a.kept) <= Len(list)
  BY <1>2 DEF Tray, Packs
<1> QED BY <1>4, <1>6, <1>8, <1>9, <1>10 DEF Keeps

\* Every memory has a size.
LEMMA SizesAre ==
  /\ \A m \in Ids : Size[m] \in Nat
  /\ \A m \in Ids : Facts[m].project \in STRING
  /\ Ids = 1 .. Len(Facts) /\ Len(Facts) \in Nat
<1> DEFINE Fact == [kind : STRING, project : STRING, subject : Seq(STRING), content : Seq(STRING),
                    importance : 0 .. 1000, updated : Nat, tainted : BOOLEAN]
<1>0. Facts \in Seq(Fact)
  BY MatchingAssumption
<1> HIDE DEF Fact
<1>1. Len(Facts) \in Nat /\ Ids = 1 .. Len(Facts) /\ \A m \in Ids : Facts[m] \in Fact
  BY <1>0 DEF Ids
<1>2. ASSUME NEW m \in Ids PROVE Size[m] \in Nat /\ Facts[m].project \in STRING
  <2>1. Facts[m].project \in STRING /\ Facts[m].subject \in Seq(STRING) /\ Facts[m].content \in Seq(STRING)
    BY <1>1 DEF Fact
  <2>2. Len(Facts[m].subject) \in Nat /\ Len(Facts[m].content) \in Nat
    BY <2>1
  <2> DEFINE size(x) == Len(Facts[x].subject) + Len(Facts[x].content)
  <2>3. Size = [x \in Ids |-> size(x)]
    BY DEF Size
  <2>4. size(m) \in Nat
    <3>1. \A a, b \in Nat : a + b \in Nat
      OBVIOUS
    <3> QED BY <2>2, <3>1, Zenon
  <2> HIDE DEF size
  <2>5. Size[m] = size(m)
    BY <2>3
  <2> QED BY <2>1, <2>4, <2>5
<1> QED BY <1>1, <1>2

\* The recursion of Sums defines a function.
LEMMA SumsIs ==
  ASSUME NEW list, NEW L \in Nat, L = Len(list)
  PROVE  Sums(list) = [n \in 0 .. L |-> IF n = 0 THEN 0 ELSE Sums(list)[n - 1] + Size[list[n]]]
<1> DEFINE Of(f, n) == IF n = 0 THEN 0 ELSE f[n - 1] + Size[list[n]]
           S == {k \in Nat : \E f : f = [n \in 0 .. k |-> Of(f, n)]}
<1>1. 0 \in S
  <2> DEFINE f == [n \in 0 .. 0 |-> 0]
  <2>1. f = [n \in 0 .. 0 |-> Of(f, n)]
    <3>1. \A n \in 0 .. 0 : Of(f, n) = 0
      OBVIOUS
    <3> HIDE DEF Of
    <3> QED BY <3>1
  <2> HIDE DEF f, Of
  <2> QED BY <2>1
<1>2. ASSUME NEW k \in Nat, k \in S PROVE k + 1 \in S
  <2>1. PICK f : f = [n \in 0 .. k |-> Of(f, n)]
    BY <1>2
  <2> DEFINE g == [n \in 0 .. k + 1 |-> IF n = k + 1 THEN f[k] + Size[list[k + 1]] ELSE f[n]]
  <2>2. ASSUME NEW n \in 0 .. k + 1 PROVE g[n] = Of(g, n)
    <3>1. CASE n = k + 1
      <4>1. n - 1 = k /\ k \in 0 .. k + 1 /\ k # k + 1 /\ n # 0
        BY <3>1
      <4>2. g[n] = f[k] + Size[list[n]] /\ g[k] = f[k]
        BY <3>1, <4>1
      <4> HIDE DEF g
      <4> QED BY <4>1, <4>2
    <3>2. CASE n # k + 1
      <4>1. n \in 0 .. k /\ (n # 0 => n - 1 \in 0 .. k + 1 /\ n - 1 # k + 1)
        BY <3>2
      <4>2. g[n] = f[n] /\ (n # 0 => g[n - 1] = f[n - 1])
        BY <3>2, <4>1
      <4>3. f[n] = Of(f, n)
        <5> HIDE DEF Of
        <5> QED BY <2>1, <4>1
      <4> HIDE DEF g
      <4> QED BY <4>2, <4>3
    <3> QED BY <3>1, <3>2
  <2>3. g = [n \in 0 .. k + 1 |-> g[n]]
    OBVIOUS
  <2> HIDE DEF g, Of
  <2>4. g = [n \in 0 .. k + 1 |-> Of(g, n)]
    BY <2>2, <2>3
  <2> QED BY <2>4
<1>3. L \in S
  <2> HIDE DEF S
  <2>1. Nat \subseteq S
    BY <1>1, <1>2, NaturalsIn
  <2> QED BY <2>1
<1> DEFINE p == Sums(list)
<1>4. p = CHOOSE f : f = [n \in 0 .. L |-> Of(f, n)]
  BY DEF Sums
<1>5. p = [n \in 0 .. L |-> Of(p, n)]
  <2> HIDE DEF p, Of
  <2>1. \E f : f = [n \in 0 .. L |-> Of(f, n)]
    BY <1>3
  <2> QED BY <1>4, <2>1
<1> QED BY <1>5

\* Nothing costs nothing.
LEMMA SumOfNone == SumOf(<<>>) = 0
<1>1. Len(<<>>) = 0 /\ 0 \in 0 .. 0 /\ 0 \in Nat
  OBVIOUS
<1>2. Sums(<<>>) = [n \in 0 .. 0 |-> IF n = 0 THEN 0 ELSE Sums(<<>>)[n - 1] + Size[<<>>[n]]]
  BY <1>1, SumsIs
<1> QED BY <1>1, <1>2 DEF SumOf

\* What one more memory adds.
LEMMA SumAppend ==
  ASSUME NEW list \in Seq(Ids), NEW x \in Ids
  PROVE  SumOf(Append(list, x)) = SumOf(list) + Size[x]
<1> DEFINE L == Len(list)
           long == Append(list, x)
           f == Sums(list)
           g == Sums(long)
           S == {n \in Nat : n <= L => g[n] = f[n]}
<1>1. L \in Nat /\ Len(long) = L + 1 /\ long[L + 1] = x /\ \A n \in 1 .. L : long[n] = list[n]
  OBVIOUS
<1>2. f = [n \in 0 .. L |-> IF n = 0 THEN 0 ELSE f[n - 1] + Size[list[n]]]
  BY <1>1, SumsIs
<1>3. g = [n \in 0 .. L + 1 |-> IF n = 0 THEN 0 ELSE g[n - 1] + Size[long[n]]]
  <2> HIDE DEF long
  <2>1. L + 1 \in Nat
    BY <1>1
  <2> QED BY <1>1, <2>1, SumsIs
<1> HIDE DEF f, g, long, L
<1>4. 0 \in S
  <2>1. 0 \in 0 .. L /\ 0 \in 0 .. L + 1
    BY <1>1
  <2> QED BY <1>2, <1>3, <2>1
<1>5. ASSUME NEW k \in Nat, k \in S PROVE k + 1 \in S
  <2>1. SUFFICES ASSUME k + 1 <= L PROVE g[k + 1] = f[k + 1]
    OBVIOUS
  <2>2. k + 1 \in 0 .. L /\ k + 1 \in 0 .. L + 1 /\ k + 1 # 0 /\ (k + 1) - 1 = k /\ k <= L /\ k + 1 \in 1 .. L
    BY <1>1, <2>1
  <2>3. g[k] = f[k] /\ long[k + 1] = list[k + 1]
    BY <1>1, <1>5, <2>2
  <2>4. f[k + 1] = f[k] + Size[list[k + 1]]
    BY <1>2, <2>2
  <2>5. g[k + 1] = g[k] + Size[long[k + 1]]
    BY <1>3, <2>2
  <2> QED BY <2>3, <2>4, <2>5
<1>6. L \in S
  <2> HIDE DEF S
  <2>1. Nat \subseteq S
    BY <1>4, <1>5, NaturalsIn
  <2> QED BY <1>1, <2>1
<1>7. g[L + 1] = g[L] + Size[x]
  <2>1. L + 1 \in 0 .. L + 1 /\ L + 1 # 0 /\ (L + 1) - 1 = L
    BY <1>1
  <2> QED BY <1>1, <1>3, <2>1
<1>8. g[L] = f[L]
  BY <1>1, <1>6
<1>9. SumOf(long) = g[L + 1] /\ SumOf(list) = f[L]
  BY <1>1 DEF SumOf, f, g, L
<1> QED BY <1>7, <1>8, <1>9 DEF long

\* What an answer costs is paid for.
LEMMA PackedPays ==
  ASSUME NEW list \in Seq(Ids), NEW skipped, NEW budget \in Nat, NEW most \in Nat
  PROVE  SumOf(Packed(list, skipped, budget, most, Size).kept) <= budget
<1> DEFINE p == Packing(list, skipped, budget, most, Size)
           T == Ids \ skipped
           Pays(a) == SumOf(a.kept) = budget - a.left
           Ks == {k \in Nat : k <= Len(list) => Pays(p[k])}
<1>0. Len(list) \in Nat /\ \A k \in 1 .. Len(list) : list[k] \in Ids
  OBVIOUS
<1>1. p = [k \in 0 .. Len(list) |->
             IF k = 0 THEN Empty(budget) ELSE Taken(p[k - 1], list[k], skipped, most, Size)]
  BY <1>0, PackingIs
<1>2. \A m \in Ids : Size[m] \in Nat
  BY SizesAre
<1>3. ASSUME NEW k \in 0 .. Len(list) PROVE Tray(T, most, p[k])
  BY <1>2, <1>3, PackingKeeps
<1> HIDE DEF p
<1>4. 0 \in Ks
  <2>1. p[0] = Empty(budget)
    BY <1>0, <1>1
  <2>2. p[0].kept = <<>> /\ p[0].left = budget
    BY <2>1 DEF Empty
  <2>3. Pays(p[0])
    BY <2>2, SumOfNone
  <2> QED BY <2>3
<1>5. ASSUME NEW k \in Nat, k \in Ks PROVE k + 1 \in Ks
  <2>1. SUFFICES ASSUME k + 1 <= Len(list) PROVE Pays(p[k + 1])
    OBVIOUS
  <2> DEFINE a == p[k]
             b == p[k + 1]
             x == list[k + 1]
  <2>2. k \in 0 .. Len(list) /\ k <= Len(list) /\ k + 1 \in 0 .. Len(list) /\ k + 1 # 0 /\ (k + 1) - 1 = k
    BY <1>0, <2>1
  <2>3. Tray(T, most, a) /\ Tray(T, most, b)
    BY <1>3, <2>2
  <2>4. SumOf(a.kept) = budget - a.left
    BY <1>5, <2>2
  <2>5. x \in Ids /\ Size[x] \in Nat /\ (x \in T \/ x \in skipped)
    BY <1>0, <1>2, <2>1
  <2>6. b = Taken(a, x, skipped, most, Size)
    BY <1>1, <2>2
  <2> HIDE DEF a, b, x, T
  <2>7. Moves(a, b, x, skipped, Size)
    BY <2>3, <2>5, <2>6, TakenKeeps
  <2>8. a.kept \in Seq(T) /\ a.left \in Nat
    BY <2>3 DEF Tray
  <2>9. a.kept \in Seq(Ids)
    BY <2>8 DEF T
  <2>10. CASE b.kept = a.kept /\ b.left = a.left
    BY <2>4, <2>10 DEF b
  <2>11. CASE b.kept = Append(a.kept, x) /\ b.left = a.left - Size[x]
    <3>1. SumOf(b.kept) = SumOf(a.kept) + Size[x]
      BY <2>5, <2>9, <2>11, SumAppend
    <3>2. SumOf(b.kept) = budget - b.left
      BY <2>4, <2>5, <2>8, <2>11, <3>1
    <3> QED BY <3>2 DEF b
  <2> QED BY <2>7, <2>10, <2>11 DEF Moves
<1>6. SumOf(p[Len(list)].kept) = budget - p[Len(list)].left
  <2> HIDE DEF Ks
  <2>1. Nat \subseteq Ks
    BY <1>4, <1>5, NaturalsIn
  <2>2. Len(list) \in Ks
    BY <1>0, <2>1
  <2> QED BY <1>0, <2>2 DEF Ks
<1>7. p[Len(list)].left \in Nat
  <2>1. Len(list) \in 0 .. Len(list)
    BY <1>0
  <2>2. Tray(T, most, p[Len(list)])
    BY <1>3, <2>1
  <2> QED BY <2>2 DEF Tray
<1>8. Packed(list, skipped, budget, most, Size) = [kept |-> p[Len(list)].kept, cut |-> p[Len(list)].cut]
  BY DEF Packed, p
<1> QED BY <1>6, <1>7, <1>8

-----------------------------------------------------------------------------
(***************************************************************************)
(* The inductive invariant.                                                *)
(***************************************************************************)
Steps == {"head", "global", "important", "delta", "search", "project", "recent", "compose", "mark", "answered"}
Done == {"mark", "answered"}
Kinds == {"reflex", "context", "recents"} \cup Unasked
Known == {InProject(p) : p \in Projects}
Names == Projects \cup {NoProject}
Changes == [target : Ids, project : {Facts[m].project : m \in Ids}]
Cursors == [version : Nat, session : Sessions \cup {"any"}, project : Names, revision : Nat]
Chains == [cursor : Cursors, told : Seq(Nat), from : Nat]
CallRecords ==
  [pc : Steps, kind : Kinds, session : Sessions, cursor : Cursors, list : Seq(Ids), core : Seq(Ids),
   delta : Seq(Nat), read : Seq(Nat), cut : BOOLEAN, wanted : SUBSET Ids, before : SUBSET Ids]

\* What has a session and what a cursor leads back to.
Types ==
  /\ continuity \in Seq(Changes)
  /\ alive \in SUBSET Ids /\ gone \in SUBSET Ids /\ alive \cap gone = {}
  /\ unwritten \subseteq Sessions /\ lost \subseteq Sessions
  /\ sessions \in [Sessions -> {NoSession} \cup Known]
  /\ surfaced \in [Sessions -> SUBSET Ids] /\ shown = surfaced
  /\ calls \in [Calls -> {Idle} \cup CallRecords]
  /\ chain \in [Sessions -> Chains]
  /\ events \in 0 .. MaxEvents

\* A cursor that was signed for a session.
Signed(s, cursor) == Accepts(s, cursor) /\ cursor.revision <= Len(continuity)

\* The chain of a session.  That of one that a start did not find is still a
\* chain, but the session need not accept its cursor.
Sound(s, link) ==
  /\ s \notin lost => sessions[s].known /\ Accepts(s, link.cursor)
  /\ link.cursor.revision <= Len(continuity) /\ link.from <= link.cursor.revision
  /\ link.told = InOrder(Between(link.cursor.project, link.from, link.cursor.revision))
ChainInv == \A s \in Sessions : chain[s] # Nothing => Sound(s, chain[s])

\* Which handler is where.
PathInv(me) ==
  /\ sessions[me.session].known
  /\ me.kind \in Unasked => me.pc \in {"search", "compose"} \cup Done /\ me.cursor = NoCursor
  /\ me.pc = "compose" => me.kind \in Unasked /\ me.read \in Seq(Ids)
  /\ me.pc \in {"global", "important", "delta"} => me.kind = "reflex"
  /\ me.kind = "reflex" => me.pc \in {"head", "global", "important", "delta"} \cup Done
  /\ me.pc = "head" => me.cursor = NoCursor
  /\ me.cursor # NoCursor => Signed(me.session, me.cursor)
  /\ me.kind = "reflex" /\ me.pc # "head" => me.cursor # NoCursor

\* What an answer costs.
CostInv(me) ==
  /\ me.kind = "reflex" =>
       /\ Len(me.core) <= ItemsMax /\ Len(me.list) <= ItemsMax /\ Len(me.delta) <= DeltaMax
       /\ SumOf(me.core) <= ItemBudget /\ SumOf(me.list) <= ItemBudget
  /\ me.kind # "reflex" => me.core = <<>>
  /\ me.pc \in {"head", "project"} => me.list = <<>>
  /\ me.pc = "recent" => Len(me.list) <= 2 * PacketMax
  /\ me.kind \in {"context", "recents"} /\ me.pc \in Done =>
       Len(me.list) <= 3 * PacketMax /\ SumOf(me.list) <= TextBudget
  /\ me.kind \in Unasked /\ me.pc \in Done => Len(me.list) <= InjectMax /\ SumOf(me.list) <= TextBudget

\* What a wake-up packet leaves out.
GapInv(me) ==
  me.kind = "reflex" /\ me.pc \in Done =>
    \A r \in VisibleTo(me.cursor.project) : r <= me.cursor.revision =>
      \/ r \in Range(me.delta)
      \/ continuity[r].target \in Range(me.core \o me.list)
      \/ me.cut
      \/ Len(me.read) = DeltaRows /\ r < me.read[1]

\* What a request of the host injects.
InjectInv(me) ==
  me.kind \in Unasked =>
    /\ me.before \subseteq surfaced[me.session]
    /\ me.pc \in Done => Range(me.list) \cap me.before = {}
    /\ 2 * InjectMax <= IdentityMax =>
         /\ me.pc = "compose" => me.wanted \subseteq Range(me.read)
         /\ me.pc \in Done /\ ~me.cut => me.wanted \subseteq Range(me.list) \cup surfaced[me.session]

Good(me) == PathInv(me) /\ CostInv(me) /\ GapInv(me) /\ InjectInv(me)
CallInv(c) == calls[c] # Idle => Good(calls[c])
ContextInv == Types /\ ChainInv /\ \A c \in Calls : CallInv(c)

-----------------------------------------------------------------------------
(***************************************************************************)
(* Changes in their order.                                                 *)
(***************************************************************************)

\* The next cursor is at the last change it is given for, or where it was.
LEMMA HighestIs ==
  ASSUME NEW b \in Nat, NEW after \in 0 .. b, NEW changes \in Seq(0 .. b)
  PROVE  /\ Highest(after, changes) \in {after} \cup Range(changes)
         /\ Highest(after, changes) \in 0 .. b /\ after <= Highest(after, changes)
         /\ \A x \in Range(changes) : x <= Highest(after, changes)
<1> DEFINE S == {after} \cup Range(changes)
<1>1. Range(changes) \subseteq 0 .. b
  BY RangeIs
<1>2. S \in SUBSET (0 .. b) /\ S # {}
  BY <1>1
<1>3. Max(S) \in S /\ \A x \in S : x <= Max(S)
  <2> HIDE DEF S
  <2> QED BY <1>2, GreatestNumber
<1> QED BY <1>2, <1>3 DEF Highest

\* The changes a project sees are revisions of the log.
LEMMA BetweenAre ==
  ASSUME NEW D, continuity \in Seq(D), NEW project, NEW after \in Nat, NEW upto \in Nat
  PROVE  /\ Len(continuity) \in Nat
         /\ VisibleTo(project) \in SUBSET (1 .. Len(continuity)) /\ IsFiniteSet(VisibleTo(project))
         /\ VisibleTo(project) \in SUBSET Nat
         /\ \A x : x \in Between(project, after, upto) <=> x \in VisibleTo(project) /\ after < x /\ x <= upto
         /\ IsFiniteSet(Between(project, after, upto)) /\ Between(project, after, upto) \in SUBSET Nat
         /\ \A x \in Between(project, after, upto) : x \in 1 .. Len(continuity)
<1>1. Len(continuity) \in Nat /\ DOMAIN continuity = 1 .. Len(continuity)
  OBVIOUS
<1>2. VisibleTo(project) \in SUBSET (1 .. Len(continuity))
  BY <1>1 DEF VisibleTo
<1>3. IsFiniteSet(1 .. Len(continuity))
  BY <1>1, FS_Interval
<1>4. IsFiniteSet(VisibleTo(project))
  BY <1>2, <1>3, FS_Subset
<1>5. \A x : x \in Between(project, after, upto) <=> x \in VisibleTo(project) /\ after < x /\ x <= upto
  BY DEF Between
<1>6. Between(project, after, upto) \subseteq VisibleTo(project)
  BY <1>5
<1>7. IsFiniteSet(Between(project, after, upto))
  BY <1>4, <1>6, FS_Subset
<1> QED BY <1>1, <1>2, <1>4, <1>5, <1>6, <1>7

\* What ContinuityChanges answers are revisions of the log.
LEMMA ChangesAre ==
  ASSUME NEW D, continuity \in Seq(D), NEW project, NEW after \in Nat, NEW limit \in Nat, NEW recent \in BOOLEAN
  PROVE  ContinuityChanges(after, project, limit, recent) \in Seq(0 .. Len(continuity))
<1> DEFINE H == Len(continuity)
<1>1. H \in Nat
  OBVIOUS
<1>2. CASE recent
  <2> DEFINE V == VisibleTo(project)
  <2>1. V \in SUBSET Nat /\ IsFiniteSet(V) /\ V \in SUBSET (0 .. H)
    <3>1. V \in SUBSET Nat /\ IsFiniteSet(V) /\ V \in SUBSET (1 .. H)
      BY <1>1, BetweenAre
    <3> QED BY <1>1, <3>1
  <2> HIDE DEF V
  <2>2. InOrder(V) \in Seq(V)
    BY <2>1, InOrderLists
  <2>3. InOrder(V) \in Seq(0 .. H)
    <3>1. V \subseteq 0 .. H
      BY <2>1
    <3> QED BY <2>2, <3>1, SeqInto
  <2>4. Newest(InOrder(V), limit) \in Seq(0 .. H)
    BY <2>3, NewestIs
  <2>5. Reverse(Newest(InOrder(V), limit)) \in Seq(0 .. H)
    BY <2>4, ReverseIs
  <2> QED BY <1>2, <2>5 DEF ContinuityChanges, V
<1>3. CASE ~recent
  <2> DEFINE V == Between(project, after, H)
  <2>1. V \in SUBSET Nat /\ IsFiniteSet(V) /\ V \in SUBSET (0 .. H)
    <3>1. V \in SUBSET Nat /\ IsFiniteSet(V) /\ \A x \in V : x \in 1 .. H
      BY <1>1, BetweenAre
    <3> QED BY <1>1, <3>1
  <2> HIDE DEF V
  <2>2. InOrder(V) \in Seq(V)
    BY <2>1, InOrderLists
  <2>3. InOrder(V) \in Seq(0 .. H)
    <3>1. V \subseteq 0 .. H
      BY <2>1
    <3> QED BY <2>2, <3>1, SeqInto
  <2>4. FirstN(InOrder(V), limit) \in Seq(0 .. H)
    BY <2>3, FirstNIs
  <2> QED BY <1>3, <2>4 DEF ContinuityChanges, ContinuityHead, V
<1> QED BY <1>2, <1>3

\* One sequence after another.
Joined(c, a, b) ==
  /\ Len(c) = Len(a) + Len(b) /\ Len(a) \in Nat /\ Len(b) \in Nat
  /\ \A i \in 1 .. Len(a) : c[i] = a[i]
  /\ \A i \in 1 .. Len(b) : c[Len(a) + i] = b[i]
  /\ Range(a) \cup Range(b) \subseteq Range(c)

\* What \o does.
LEMMA ConcatIs ==
  ASSUME NEW S, NEW a \in Seq(S), NEW b \in Seq(S)
  PROVE  a \o b \in Seq(S) /\ Joined(a \o b, a, b)
<1> DEFINE c == a \o b
<1>1. c \in Seq(S) /\ Len(c) = Len(a) + Len(b) /\ Len(a) \in Nat /\ Len(b) \in Nat
  OBVIOUS
<1>2. \A i \in 1 .. Len(a) : c[i] = a[i]
  OBVIOUS
<1>3. \A i \in 1 .. Len(b) : c[Len(a) + i] = b[i]
  OBVIOUS
<1> HIDE DEF c
<1>4. \A x : x \in Range(c) <=> \E i \in 1 .. Len(c) : x = c[i]
  BY <1>1, RangeIs
<1>5. \A x : x \in Range(a) <=> \E i \in 1 .. Len(a) : x = a[i]
  BY RangeIs
<1>6. \A x : x \in Range(b) <=> \E i \in 1 .. Len(b) : x = b[i]
  BY RangeIs
<1>7. ASSUME NEW x \in Range(a) PROVE x \in Range(c)
  <2>1. PICK i \in 1 .. Len(a) : x = a[i]
    BY <1>5
  <2>2. i \in 1 .. Len(c) /\ x = c[i]
    BY <1>1, <1>2, <2>1
  <2> QED BY <1>4, <2>2
<1>8. ASSUME NEW x \in Range(b) PROVE x \in Range(c)
  <2>1. PICK i \in 1 .. Len(b) : x = b[i]
    BY <1>6
  <2>2. Len(a) + i \in 1 .. Len(c) /\ x = c[Len(a) + i]
    BY <1>1, <1>3, <2>1
  <2> QED BY <1>4, <2>2
<1>9. Joined(c, a, b)
  BY <1>1, <1>2, <1>3, <1>7, <1>8 DEF Joined
<1> QED BY <1>1, <1>9 DEF c

\* Numbers up to one.
Upto(V, H) == V \in SUBSET Nat /\ H \in Nat /\ \A x \in V : x <= H

\* The numbers of V between two.
Part(S, V, after, upto) == S \in SUBSET Nat /\ \A x : x \in S <=> x \in V /\ after < x /\ x <= upto

\* The first m numbers of B, of which the last, if any, is upto.
Firsts(changes, m, B, after, upto) ==
  /\ m \in Nat /\ m <= Cardinality(B) /\ changes \in Seq(B) /\ Len(changes) = m
  /\ \A i \in 1 .. m : changes[i] = InOrder(B)[i]
  /\ (\A x \in Range(changes) : x <= upto) /\ (upto = after \/ upto \in Range(changes))

\* The first of what lies behind comes after all that lies before.
LEMMA Joins ==
  ASSUME NEW V, NEW H, Upto(V, H), NEW from \in Nat, NEW after \in Nat, from <= after,
         NEW upto \in Nat, after <= upto,
         NEW A, IsFiniteSet(A), Part(A, V, from, after),
         NEW B, IsFiniteSet(B), Part(B, V, after, H), NEW C, Part(C, V, from, upto),
         NEW m, NEW changes, Firsts(changes, m, B, after, upto)
  PROVE  InOrder(A) \o changes = InOrder(C)
<1> DEFINE a == InOrder(A)
           b == InOrder(B)
           k == Cardinality(A)
           l == Cardinality(B)
           g == a \o changes
<1>30. upto \in Nat /\ after <= upto
  OBVIOUS
<1>31. \A x \in Range(changes) : x <= upto
  BY DEF Firsts
<1>32. upto = after \/ upto \in Range(changes)
  BY DEF Firsts
<1>4. /\ A \in SUBSET Nat /\ IsFiniteSet(A)
      /\ \A x : x \in A <=> x \in V /\ from < x /\ x <= after
  BY DEF Part
<1>5. /\ B \in SUBSET Nat /\ IsFiniteSet(B)
      /\ \A x : x \in B <=> x \in V /\ after < x /\ x <= H
  BY DEF Part
<1>6. C \in SUBSET Nat /\ \A x : x \in C <=> x \in V /\ from < x /\ x <= upto
  BY DEF Part
<1>7. \A x \in V : x \in Nat /\ x <= H
  BY DEF Upto
<1>11. changes \in Seq(B) /\ Len(changes) = m /\ m \in 0 .. l /\ \A i \in 1 .. m : changes[i] = b[i]
  <2>0. /\ m \in Nat /\ m <= Cardinality(B) /\ changes \in Seq(B) /\ Len(changes) = m
        /\ \A i \in 1 .. m : changes[i] = InOrder(B)[i]
    BY DEF Firsts
  <2>1. l \in Nat /\ m <= l
    BY <2>0, FS_CardinalityType
  <2>2. m \in 0 .. l
    BY <2>0, <2>1
  <2> HIDE DEF b, l
  <2>3. \A i \in 1 .. m : changes[i] = b[i]
    BY <2>0 DEF b
  <2> QED BY <2>0, <2>2, <2>3
<1>8. /\ a \in Seq(A) /\ Len(a) = k /\ k \in Nat /\ \A i \in 1 .. k : a[i] \in A
      /\ \A i, j \in 1 .. k : i < j => a[i] < a[j]
      /\ \A x \in A : \E i \in 1 .. k : a[i] = x
  BY <1>4, InOrderLists
<1>9. /\ b \in Seq(B) /\ Len(b) = l /\ l \in Nat /\ \A i \in 1 .. l : b[i] \in B
      /\ \A i, j \in 1 .. l : i < j => b[i] < b[j]
      /\ \A x \in B : \E i \in 1 .. l : b[i] = x
  BY <1>5, InOrderLists
<1> HIDE DEF a, b, k, l
<1>12. \A x : x \in Range(changes) <=> \E i \in 1 .. m : x = changes[i]
  <2>1. Len(changes) = m /\ changes \in Seq(B)
    BY <1>11
  <2> QED BY <2>1, RangeIs
<1>13. \A x \in B : x <= upto => \E i \in 1 .. m : b[i] = x
  <2>1. SUFFICES ASSUME NEW x \in B, x <= upto PROVE \E i \in 1 .. m : b[i] = x
    OBVIOUS
  <2>2. PICK i \in 1 .. l : b[i] = x
    BY <1>9
  <2>3. x \in Nat /\ after < x
    BY <1>5, <1>7
  <2>4. upto # after
    BY <1>30, <2>1, <2>3
  <2>5. PICK j \in 1 .. m : upto = changes[j]
    BY <1>12, <1>32, <2>4
  <2>6. upto = b[j] /\ j \in 1 .. l /\ m \in Nat /\ m <= l
    <3>1. m \in 0 .. l /\ changes[j] = b[j]
      BY <1>11, <2>5
    <3> QED BY <1>9, <2>5, <3>1
  <2>7. ~(j < i)
    <3>1. SUFFICES ASSUME j < i PROVE FALSE
      OBVIOUS
    <3>2. b[j] < b[i]
      BY <1>9, <2>6, <3>1
    <3>3. upto \in Nat
      BY <1>30
    <3>4. b[j] < x /\ b[j] = upto
      BY <2>2, <2>6, <3>2
    <3> QED BY <2>1, <2>3, <3>3, <3>4
  <2>8. i \in 1 .. m
    BY <1>9, <2>6, <2>7
  <2> QED BY <2>2, <2>8
<1>14. Len(g) = k + m /\ (\A i \in 1 .. k : g[i] = a[i]) /\ \A i \in 1 .. m : g[k + i] = changes[i]
  <2>1. a \in Seq(Nat) /\ Len(a) = k
    BY <1>4, <1>8, SeqInto
  <2>2. changes \in Seq(Nat) /\ Len(changes) = m
    BY <1>5, <1>11, SeqInto
  <2>4. Joined(g, a, changes)
    BY <2>1, <2>2, ConcatIs
  <2> HIDE DEF g
  <2>3. /\ Len(g) = Len(a) + Len(changes) /\ \A i \in 1 .. Len(a) : g[i] = a[i]
        /\ \A i \in 1 .. Len(changes) : g[Len(a) + i] = changes[i]
    BY <2>4 DEF Joined
  <2> QED BY ONLY <2>1, <2>2, <2>3
<1>15. m \in Nat /\ k + m \in Nat /\ g \in [1 .. k + m -> Nat]
  <2>1. a \in Seq(Nat)
    BY <1>4, <1>8, SeqInto
  <2>2. changes \in Seq(Nat) /\ m \in 0 .. l
    BY <1>5, <1>11, SeqInto
  <2>3. g \in Seq(Nat)
    BY <2>1, <2>2, ConcatIs
  <2>4. m \in Nat /\ k + m \in Nat
    BY <1>8, <1>9, <1>11, <2>2
  <2> HIDE DEF g
  <2>5. g \in [1 .. Len(g) -> Nat] /\ Len(g) = k + m
    BY <1>14, <2>3
  <2> QED BY <2>4, <2>5
<1> HIDE DEF g
<1>16. \A i \in 1 .. k : g[i] \in C /\ g[i] \in Nat /\ g[i] <= after
  <2>1. TAKE i \in 1 .. k
  <2>2. g[i] \in A
    BY <1>8, <1>14
  <2>3. g[i] \in V /\ from < g[i] /\ g[i] <= after /\ g[i] \in Nat
    BY <1>4, <1>7, <2>2
  <2>4. g[i] <= upto
    BY <1>30, <2>3
  <2> QED BY <1>6, <2>3, <2>4
<1>17. \A i \in 1 .. m : g[k + i] \in C /\ g[k + i] \in Nat /\ after < g[k + i] /\ g[k + i] = b[i] /\ i \in 1 .. l
  <2>1. TAKE i \in 1 .. m
  <2>2. g[k + i] = changes[i] /\ changes[i] \in B /\ changes[i] = b[i] /\ i \in 1 .. l
    <3>1. g[k + i] = changes[i] /\ changes[i] = b[i] /\ m \in 0 .. l
      BY <1>11, <1>14
    <3>2. i \in 1 .. l
      BY <1>9, <3>1
    <3> QED BY <1>9, <3>1, <3>2
  <2>3. changes[i] \in Range(changes)
    BY <1>12
  <2>4. changes[i] <= upto
    BY <1>31, <2>3
  <2>5. changes[i] \in V /\ after < changes[i] /\ changes[i] \in Nat
    BY <1>5, <1>7, <2>2
  <2>6. from < changes[i]
    <3>1. \A x \in Nat : after < x => from < x
      OBVIOUS
    <3> QED BY <2>5, <3>1
  <2> QED BY <1>6, <2>2, <2>4, <2>5, <2>6
<1>18. \A i \in 1 .. k + m : (i \in 1 .. k) \/ (i - k \in 1 .. m /\ i = k + (i - k))
  BY <1>8, <1>15
<1> HIDE DEF g
<1>19. \A i \in 1 .. k + m : g[i] \in C
  <2>1. TAKE i \in 1 .. k + m
  <2> QED BY <1>16, <1>17, <1>18
<1>20. \A i, j \in 1 .. k + m : i < j => g[i] < g[j]
  <2>1. SUFFICES ASSUME NEW i \in 1 .. k + m, NEW j \in 1 .. k + m, i < j PROVE g[i] < g[j]
    OBVIOUS
  <2>2. CASE i \in 1 .. k /\ j \in 1 .. k
    BY <1>8, <1>14, <2>1, <2>2
  <2>3. CASE i \in 1 .. k /\ j \notin 1 .. k
    <3>1. g[i] \in Nat /\ g[i] <= after
      BY <1>16, <2>3
    <3>2. g[j] \in Nat /\ after < g[j]
      BY <1>17, <1>18, <2>3
    <3> QED BY <3>1, <3>2
  <2>4. CASE i \notin 1 .. k
    <3>1. j \notin 1 .. k
      BY <1>8, <1>15, <2>1, <2>4
    <3> DEFINE x == i - k
               y == j - k
    <3>2. x \in 1 .. m /\ y \in 1 .. m /\ i = k + x /\ j = k + y /\ x < y
      BY <1>8, <1>15, <1>18, <2>1, <2>4, <3>1
    <3> HIDE DEF x, y
    <3>3. g[i] = b[x] /\ g[j] = b[y] /\ x \in 1 .. l /\ y \in 1 .. l
      BY <1>17, <3>2
    <3> QED BY <1>9, <3>2, <3>3
  <2> QED BY <2>2, <2>3, <2>4
<1>21. \A x \in C : \E i \in 1 .. k + m : g[i] = x
  <2>1. SUFFICES ASSUME NEW x \in C PROVE \E i \in 1 .. k + m : g[i] = x
    OBVIOUS
  <2>2. x \in V /\ from < x /\ x <= upto /\ x \in Nat /\ x <= H
    BY <1>6, <1>7
  <2>3. CASE x <= after
    <3>1. PICK i \in 1 .. k : a[i] = x
      BY <1>4, <1>8, <2>2, <2>3
    <3>2. i \in 1 .. k + m /\ g[i] = x
      BY <1>8, <1>14, <1>15, <3>1
    <3> QED BY <3>2
  <2>4. CASE after < x
    <3>1. PICK i \in 1 .. m : b[i] = x
      BY <1>5, <1>13, <2>2, <2>4
    <3>2. k + i \in 1 .. k + m /\ g[k + i] = x
      BY <1>8, <1>15, <1>17, <3>1
    <3> QED BY <3>2
  <2> QED BY <2>2, <2>3, <2>4
<1>22. g = InOrder(C)
  <2>1. g \in [1 .. k + m -> C]
    BY <1>15, <1>19
  <2>2. C \in SUBSET Nat /\ k + m \in Nat
    BY <1>6, <1>15
  <2> QED BY <1>20, <1>21, <2>1, <2>2, InOrderUnique
<1> QED BY <1>22 DEF g, a

\* What follows a revision takes up where it ended, and ends at a revision.
Follows(project, from, after, limit) ==
  LET changes == ContinuityChanges(after, project, limit, FALSE)
      upto == Highest(after, changes)
  IN  /\ after <= upto /\ upto <= Len(continuity) /\ upto \in Nat
      /\ InOrder(Between(project, from, after)) \o changes = InOrder(Between(project, from, upto))

\* What follows a cursor continues what was told up to it.
LEMMA Continues ==
  ASSUME NEW D, continuity \in Seq(D), NEW project, NEW from \in Nat, NEW after \in Nat,
         from <= after, after <= Len(continuity),
         NEW limit \in Nat \ {0}
  PROVE  Follows(project, from, after, limit)
<1> DEFINE H == Len(continuity)
           changes == ContinuityChanges(after, project, limit, FALSE)
           upto == Highest(after, changes)
           A == Between(project, from, after)
           B == Between(project, after, H)
           C == Between(project, from, upto)
           b == InOrder(B)
           l == Cardinality(B)
           m == IF limit <= l THEN limit ELSE l
<1>1. H \in Nat /\ after \in 0 .. H
  OBVIOUS
<1>2. changes \in Seq(0 .. H)
  BY ChangesAre
<1> HIDE DEF changes
<1>3. /\ upto \in {after} \cup Range(changes) /\ upto \in 0 .. H /\ after <= upto
      /\ \A x \in Range(changes) : x <= upto
  BY <1>1, <1>2, HighestIs
<1> HIDE DEF upto
<1>30. upto \in Nat /\ upto <= H /\ after <= upto
  <2>1. upto \in 0 .. H /\ after <= upto
    BY <1>3
  <2> QED BY <1>1, <2>1
<1>31. \A x \in Range(changes) : x <= upto
  BY <1>3
<1>32. upto = after \/ upto \in Range(changes)
  BY <1>3
<1>4. /\ A \in SUBSET Nat /\ IsFiniteSet(A)
      /\ \A x : x \in A <=> x \in VisibleTo(project) /\ from < x /\ x <= after
  BY BetweenAre
<1>5. /\ B \in SUBSET Nat /\ IsFiniteSet(B)
      /\ \A x : x \in B <=> x \in VisibleTo(project) /\ after < x /\ x <= H
  BY <1>1, BetweenAre
<1>6. /\ C \in SUBSET Nat
      /\ \A x : x \in C <=> x \in VisibleTo(project) /\ from < x /\ x <= upto
  BY <1>30, BetweenAre
<1>7. \A x \in VisibleTo(project) : x \in Nat /\ x <= H
  BY BetweenAre
<1> HIDE DEF A, B, C
<1>9. b \in Seq(B) /\ Len(b) = l /\ l \in Nat
  BY <1>5, InOrderLists
<1>10. changes = FirstN(b, limit)
  BY DEF ContinuityChanges, ContinuityHead, b, B, changes
<1> HIDE DEF b, l
<1>11. /\ FirstN(b, limit) \in Seq(B) /\ Len(FirstN(b, limit)) = IF limit <= Len(b) THEN limit ELSE Len(b)
       /\ \A i \in 1 .. Len(FirstN(b, limit)) : FirstN(b, limit)[i] = b[i]
  BY <1>9, FirstNIs
<1>12. m \in Nat /\ m <= l
  BY <1>9
<1>13. changes \in Seq(B) /\ Len(changes) = m /\ \A i \in 1 .. m : changes[i] = b[i]
  BY <1>9, <1>10, <1>11
<1> HIDE DEF m
<1>14. VisibleTo(project) \in SUBSET Nat /\ \A x \in VisibleTo(project) : x <= H
  BY <1>7
<1>15. m <= Cardinality(B) /\ \A i \in 1 .. m : changes[i] = InOrder(B)[i]
  BY <1>12, <1>13 DEF b, l
<1>16. InOrder(A) \o changes = InOrder(C)
  <2>1. Part(A, VisibleTo(project), from, after)
    BY <1>4 DEF Part
  <2>2. Part(B, VisibleTo(project), after, H)
    BY <1>5 DEF Part
  <2>3. Part(C, VisibleTo(project), from, upto)
    BY <1>6 DEF Part
  <2>4. IsFiniteSet(A) /\ IsFiniteSet(B) /\ H \in Nat
    BY <1>1, <1>4, <1>5
  <2>5. Firsts(changes, m, B, after, upto)
    BY <1>12, <1>13, <1>15, <1>31, <1>32 DEF Firsts
  <2>6. Upto(VisibleTo(project), H)
    BY <1>1, <1>14 DEF Upto
  <2> QED BY ONLY <2>1, <2>2, <2>3, <2>4, <2>5, <2>6, <1>30,
              from \in Nat, after \in Nat, from <= after, Joins
<1> QED BY <1>30, <1>16 DEF Follows, A, C, changes, upto

-----------------------------------------------------------------------------
(***************************************************************************)
(* What the packets are made of.                                           *)
(***************************************************************************)

\* Of changes that cost the same, as many are kept as the budget pays for.
LEMMA PackedCounts ==
  ASSUME NEW S, NEW list \in Seq(S), NEW skipped, NEW budget \in Nat, NEW most \in Nat, NEW cost,
         \A x \in S : cost[x] = 1
  PROVE  Len(Packed(list, skipped, budget, most, cost).kept) <= budget
<1> DEFINE p == Packing(list, skipped, budget, most, cost)
           T == S \ skipped
           Pays(a) == Len(a.kept) = budget - a.left
           Ks == {k \in Nat : k <= Len(list) => Pays(p[k])}
<1>0. Len(list) \in Nat /\ \A k \in 1 .. Len(list) : list[k] \in S
  OBVIOUS
<1>1. p = [k \in 0 .. Len(list) |->
             IF k = 0 THEN Empty(budget) ELSE Taken(p[k - 1], list[k], skipped, most, cost)]
  BY <1>0, PackingIs
<1>2. \A x \in S : cost[x] \in Nat
  OBVIOUS
<1>3. ASSUME NEW k \in 0 .. Len(list) PROVE Tray(T, most, p[k])
  BY <1>2, <1>3, PackingKeeps
<1> HIDE DEF p
<1>4. 0 \in Ks
  <2>1. p[0] = Empty(budget)
    BY <1>0, <1>1
  <2>2. p[0].kept = <<>> /\ p[0].left = budget
    BY <2>1 DEF Empty
  <2>3. Pays(p[0])
    BY <2>2
  <2> QED BY <2>3
<1>5. ASSUME NEW k \in Nat, k \in Ks PROVE k + 1 \in Ks
  <2>1. SUFFICES ASSUME k + 1 <= Len(list) PROVE Pays(p[k + 1])
    OBVIOUS
  <2> DEFINE a == p[k]
             b == p[k + 1]
             x == list[k + 1]
  <2>2. k \in 0 .. Len(list) /\ k <= Len(list) /\ k + 1 \in 0 .. Len(list) /\ k + 1 # 0 /\ (k + 1) - 1 = k
    BY <1>0, <2>1
  <2>3. Tray(T, most, a) /\ Tray(T, most, b)
    BY <1>3, <2>2
  <2>4. Len(a.kept) = budget - a.left
    BY <1>5, <2>2
  <2>5. x \in S /\ cost[x] \in Nat /\ cost[x] = 1 /\ (x \in T \/ x \in skipped)
    BY <1>0, <1>2, <2>1
  <2>6. b = Taken(a, x, skipped, most, cost)
    BY <1>1, <2>2
  <2> HIDE DEF a, b, x, T
  <2>7. Moves(a, b, x, skipped, cost)
    BY <2>3, <2>5, <2>6, TakenKeeps
  <2>8. a.kept \in Seq(T) /\ a.left \in Nat
    BY <2>3 DEF Tray
  <2>10. CASE b.kept = a.kept /\ b.left = a.left
    BY <2>4, <2>10 DEF b
  <2>11. CASE b.kept = Append(a.kept, x) /\ b.left = a.left - cost[x]
    <3>1. Len(b.kept) = Len(a.kept) + 1 /\ Len(a.kept) \in Nat
      BY <2>8, <2>11
    <3>2. Len(b.kept) = budget - b.left
      BY <2>4, <2>5, <2>8, <2>11, <3>1
    <3> QED BY <3>2 DEF b
  <2> QED BY <2>7, <2>10, <2>11 DEF Moves
<1>6. Len(p[Len(list)].kept) = budget - p[Len(list)].left
  <2> HIDE DEF Ks
  <2>1. Nat \subseteq Ks
    BY <1>4, <1>5, NaturalsIn
  <2>2. Len(list) \in Ks
    BY <1>0, <2>1
  <2> QED BY <1>0, <2>2 DEF Ks
<1>7. p[Len(list)].left \in Nat
  <2>1. Len(list) \in 0 .. Len(list)
    BY <1>0
  <2>2. Tray(T, most, p[Len(list)])
    BY <1>3, <2>1
  <2> QED BY <2>2 DEF Tray
<1>8. Packed(list, skipped, budget, most, cost) = [kept |-> p[Len(list)].kept, cut |-> p[Len(list)].cut]
  BY DEF Packed, p
<1> QED BY <1>6, <1>7, <1>8

\* The hits among some rows.
HitsOf(rows) == [m : rows, class : Classes, key : Keys]
ByKeys(S) == {p \in S \X S : LessKey(p[1].key, p[2].key)}

\* Hits whose keys differ are listed by their keys.
LEMMA SortedHits ==
  ASSUME NEW S, IsFiniteSet(S), \A a \in S : a.key \in Keys, \A a, b \in S : a.key = b.key => a = b, NEW o,
         o = [i \in 1 .. Cardinality(S) |->
                CHOOSE a \in S : Cardinality({b \in S : LessKey(b.key, a.key)}) = i - 1]
  PROVE  o \in Seq(S)
<1> DEFINE R == ByKeys(S)
<1>1. \A a, b \in S : <<a, b>> \in R <=> LessKey(a.key, b.key)
  BY DEF ByKeys
<1> HIDE DEF R
<1>2. StrictOrder(R, S)
  <2>1. ASSUME NEW a \in S PROVE ~LessKey(a.key, a.key)
    BY KeysSelf
  <2>2. ASSUME NEW a \in S, NEW b \in S, NEW c \in S, LessKey(a.key, b.key), LessKey(b.key, c.key)
        PROVE  LessKey(a.key, c.key)
    BY <2>2, KeysChain
  <2>3. ASSUME NEW a \in S, NEW b \in S, a # b PROVE LessKey(a.key, b.key) \/ LessKey(b.key, a.key)
    BY <2>3, KeysDiffer
  <2> QED BY <1>1, <2>1, <2>2, <2>3 DEF StrictOrder
<1>3. ASSUME NEW a \in S PROVE {b \in S : LessKey(b.key, a.key)} = Under(R, S, a)
  BY <1>1 DEF Under
<1>4. Lists(o, R, S)
  <2> DEFINE C(i) == CHOOSE a \in S : Cardinality(Under(R, S, a)) = i - 1
             B(i) == CHOOSE a \in S : Cardinality({b \in S : LessKey(b.key, a.key)}) = i - 1
  <2>1. \A i : B(i) = C(i)
    BY <1>3
  <2>2. o = [i \in 1 .. Cardinality(S) |-> B(i)]
    OBVIOUS
  <2> HIDE DEF B
  <2>3. o = [i \in 1 .. Cardinality(S) |-> C(i)]
    BY <2>1, <2>2
  <2> QED BY <2>3 DEF Lists
<1> QED BY <1>2, <1>4, SortedAre DEF Orders

\* What the index recalled is ranked by keys, whatever it says of the rows.
LEMMA HitsAre ==
  ASSUME NEW rows \in SUBSET Ids, NEW recalled \in Recalled(rows)
  PROVE  Hits(recalled) \in Seq(HitsOf(rows))
<1> DEFINE match(m) == MatchOf(recalled, m)
           hit(m) == [m |-> m, class |-> Matches[m].class, key |-> RankKey(m, Fresh, match(m), 0)]
           M == {m \in DOMAIN recalled : Matches[m].class > 0}
           S == {hit(m) : m \in M}
<1>1. DOMAIN recalled \in SUBSET rows /\ \A m \in DOMAIN recalled : recalled[m] \in Nat
  <2>1. PICK some \in SUBSET rows : recalled \in [some -> Evidence]
    BY DEF Recalled
  <2> QED BY <2>1, ContextAssumption
<1>2. \A m \in Ids : Matches[m] \in AMatch
  <2>1. Query \in Text
    BY ContextAssumption DEF Text
  <2> QED BY <2>1, ClassifyMatchIs DEF Matches
<1>3. ASSUME NEW m \in M
      PROVE  /\ m \in rows /\ hit(m) \in HitsOf(rows) /\ hit(m).key[9] = -m /\ hit(m).m = m
  <2>1. m \in Ids /\ m \in rows /\ recalled[m] \in Nat /\ Matches[m] \in AMatch
    BY <1>1, <1>2
  <2>2. match(m) \in AMatch
    BY <2>1 DEF MatchOf, AMatch
  <2> HIDE DEF match
  <2>3. Fresh.activation \in Nat /\ Fresh.confidence \in Nat /\ 0 \in Int
    BY DEF Fresh
  <2>4. RankKey(m, Fresh, match(m), 0) \in Keys /\ RankKey(m, Fresh, match(m), 0)[9] = -m
    BY <2>1, <2>2, <2>3, RankKeyIs
  <2>5. Matches[m].class \in Classes
    BY <2>1 DEF AMatch
  <2> QED BY <2>1, <2>4, <2>5 DEF HitsOf
<1>4. IsFiniteSet(S)
  <2>1. Ids = 1 .. Len(Facts) /\ Len(Facts) \in Nat
    BY SizesAre
  <2>2. M \subseteq Ids
    BY <1>1
  <2>3. IsFiniteSet(M)
    <3>1. IsFiniteSet(Ids)
      BY <2>1, FS_Interval
    <3> HIDE DEF M
    <3> QED BY <2>2, <3>1, FS_Subset
  <2> DEFINE f == [m \in M |-> hit(m)]
  <2> HIDE DEF hit, M
  <2>4. IsFiniteSet({f[m] : m \in M})
    <3>1. DOMAIN f = M
      OBVIOUS
    <3> HIDE DEF f
    <3> QED BY <2>3, <3>1, ImageFinite
  <2>5. {f[m] : m \in M} = S
    OBVIOUS
  <2> QED BY <2>4, <2>5
<1>5. \A a \in S : a \in HitsOf(rows) /\ a.key \in Keys
  BY <1>3 DEF HitsOf
<1>6. \A a, b \in S : a.key = b.key => a = b
  <2>1. SUFFICES ASSUME NEW m \in M, NEW n \in M, hit(m).key = hit(n).key PROVE hit(m) = hit(n)
    OBVIOUS
  <2>2. -m = -n /\ m \in Int /\ n \in Int
    <3>1. Ids = 1 .. Len(Facts) /\ Len(Facts) \in Nat
      BY SizesAre
    <3>2. m \in Ids /\ n \in Ids
      BY <1>3
    <3>3. hit(m).key[9] = -m /\ hit(n).key[9] = -n
      BY <1>3
    <3> HIDE DEF hit
    <3> QED BY <2>1, <3>1, <3>2, <3>3
  <2> HIDE DEF hit
  <2>3. m = n
    BY <2>2
  <2> QED BY <2>3
<1>7. Hits(recalled) = [i \in 1 .. Cardinality(S) |->
                          CHOOSE a \in S : Cardinality({b \in S : LessKey(b.key, a.key)}) = i - 1]
  BY DEF Hits, Sorted
<1> HIDE DEF S
<1>8. Hits(recalled) \in Seq(S)
  BY <1>4, <1>5, <1>6, <1>7, SortedHits
<1> QED BY <1>5, <1>8, SeqInto

\* The memories of hits.
LEMMA IdsAre ==
  ASSUME NEW H, NEW hits \in Seq(H), \A h \in H : h.m \in Ids
  PROVE  /\ IdsOf(hits) \in Seq(Ids) /\ Len(IdsOf(hits)) = Len(hits)
         /\ \A x : x \in Range(IdsOf(hits)) <=> \E h \in Range(hits) : x = h.m
<1>1. Len(hits) \in Nat /\ DOMAIN hits = 1 .. Len(hits) /\ \A i \in 1 .. Len(hits) : hits[i] \in H
  OBVIOUS
<1>2. IdsOf(hits) = [i \in 1 .. Len(hits) |-> hits[i].m]
  BY <1>1 DEF IdsOf
<1>3. IdsOf(hits) \in [1 .. Len(hits) -> Ids] /\ \A i \in 1 .. Len(hits) : IdsOf(hits)[i] = hits[i].m
  BY <1>1, <1>2
<1>4. IdsOf(hits) \in Seq(Ids) /\ Len(IdsOf(hits)) = Len(hits)
  BY <1>1, <1>3
<1>5. \A x : x \in Range(IdsOf(hits)) <=> \E i \in 1 .. Len(hits) : x = hits[i].m
  BY <1>3, <1>4, RangeIs
<1>6. \A h : h \in Range(hits) <=> \E i \in 1 .. Len(hits) : h = hits[i]
  BY <1>1, RangeIs
<1> QED BY <1>4, <1>5, <1>6

\* What a search may come to, for a session of a project.
LEMMA RankingsAre ==
  ASSUME alive \in SUBSET Ids, NEW project, NEW ranking \in Rankings(project), NEW limit \in Nat
  PROVE  LET H == HitsOf(EligibleIn(project))
         IN  /\ ranking \in Seq(H) /\ Searched(ranking, limit) \in Seq(H) /\ \A h \in H : h.m \in Ids
             /\ \A i \in 1 .. Len(ranking) : i <= limit /\ i <= IdentityMax =>
                  ranking[i] \in Range(Searched(ranking, limit))
<1> DEFINE H == HitsOf(EligibleIn(project))
<1>1. EligibleIn(project) \in SUBSET Ids
  BY DEF EligibleIn
<1>2. PICK recalled \in Recalled(EligibleIn(project)) : ranking = Hits(recalled)
  BY DEF Rankings
<1>3. ranking \in Seq(H)
  BY <1>1, <1>2, HitsAre
<1>4. \A h \in H : h.m \in Ids
  BY <1>1 DEF HitsOf
<1>5. IdentityMax \in Nat
  BY ContextAssumption
<1> HIDE DEF H
<1>6. /\ Searched(ranking, limit) \in Seq(H)
      /\ \A i \in 1 .. Len(ranking) : i <= limit /\ i <= IdentityMax =>
           ranking[i] \in Range(Searched(ranking, limit))
  BY <1>3, <1>5, QuotaIs DEF Searched
<1> QED BY <1>3, <1>4, <1>6 DEF H

\* Recent memories.
LEMMA RecentAre ==
  ASSUME alive \in SUBSET Ids, NEW project, NEW ofProject
  PROVE  Recent(project, ofProject) \in Seq(Ids)
<1> DEFINE S == {m \in EligibleIn(project) : (Facts[m].project # NoProject) = ofProject}
<1>1. S \subseteq Ids
  BY DEF EligibleIn
<1>2. Ids = 1 .. Len(Facts) /\ Len(Facts) \in Nat
  BY SizesAre
<1> HIDE DEF S
<1>3. IsFiniteSet(Ids) /\ Ids \subseteq Nat
  BY <1>2, FS_Interval
<1>4. IsFiniteSet(S) /\ S \in SUBSET Nat
  BY <1>1, <1>3, FS_Subset
<1>5. InOrder(S) \in Seq(S)
  BY <1>4, InOrderLists
<1>6. InOrder(S) \in Seq(Ids)
  BY <1>1, <1>5, SeqInto
<1> QED BY <1>6 DEF Recent, S

\* A packet of memories.
Fits(packed, most, budget) ==
  /\ packed.kept \in Seq(Ids) /\ packed.cut \in BOOLEAN
  /\ Len(packed.kept) <= most /\ SumOf(packed.kept) <= budget

\* A packet of memories keeps both of its bounds, and admits what it leaves out.
LEMMA PacketFits ==
  ASSUME NEW list \in Seq(Ids), NEW skipped, NEW budget \in Nat, NEW most \in Nat
  PROVE  /\ Fits(Packed(list, skipped, budget, most, Size), most, budget)
         /\ Len(Packed(list, skipped, budget, most, Size).kept) <= Len(list)
         /\ Range(Packed(list, skipped, budget, most, Size).kept) \cap skipped = {}
         /\ Packed(list, skipped, budget, most, Size).cut \/
              Range(list) \subseteq skipped \cup Range(Packed(list, skipped, budget, most, Size).kept)
<1> DEFINE p == Packed(list, skipped, budget, most, Size)
<1>1. \A m \in Ids : Size[m] \in Nat
  BY SizesAre
<1>2. /\ p.kept \in Seq(Ids \ skipped) /\ p.cut \in BOOLEAN
      /\ Len(p.kept) <= most /\ Len(p.kept) <= Len(list)
      /\ p.cut \/ \A x \in Range(list) : x \in skipped \/ x \in Range(p.kept)
      /\ Range(p.kept) \subseteq Range(list) \ skipped
  <2>1. Keeps(p, Ids, list, skipped, most)
    BY <1>1, PackedKeeps
  <2> HIDE DEF p
  <2> QED BY <2>1 DEF Keeps
<1>3. SumOf(p.kept) <= budget
  BY PackedPays
<1> HIDE DEF p
<1>4. p.kept \in Seq(Ids)
  <2>1. Ids \ skipped \subseteq Ids
    OBVIOUS
  <2>2. p.kept \in Seq(Ids \ skipped)
    BY <1>2
  <2> QED BY <2>1, <2>2, SeqInto
<1>5. Fits(p, most, budget)
  BY <1>2, <1>3, <1>4 DEF Fits
<1> QED BY <1>2, <1>5 DEF p

\* The identity and what matters in a project.
LEMMA CoreFits ==
  ASSUME NEW list \in Seq(Ids)
  PROVE  Fits(Core(list), ItemsMax, ItemBudget) /\ Fits(Important(list), ItemsMax, ItemBudget)
<1>1. ItemsMax \in Nat /\ ItemBudget \in Nat
  BY ContextAssumption
<1> DEFINE a == Those(list, {m \in Ids : IdentityKind(Facts[m].kind)})
           b == Those(list, {m \in Ids : ImportantKind(Facts[m].kind)})
<1>2. a \in Seq(Ids) /\ b \in Seq(Ids)
  BY ThoseOf
<1>3. Core(list) = Packed(a, {}, ItemBudget, ItemsMax, Size)
  BY DEF Core
<1>4. Important(list) = Packed(b, {}, ItemBudget, ItemsMax, Size)
  BY DEF Important
<1> HIDE DEF a, b
<1>5. Fits(Packed(a, {}, ItemBudget, ItemsMax, Size), ItemsMax, ItemBudget)
  BY <1>1, <1>2, PacketFits
<1>6. Fits(Packed(b, {}, ItemBudget, ItemsMax, Size), ItemsMax, ItemBudget)
  BY <1>1, <1>2, PacketFits
<1> QED BY <1>3, <1>4, <1>5, <1>6

\* What a wake-up packet looks back on, what of it the packet shows anyway,
\* and what it says of the rest.
ReadBack(project) == Reverse(ContinuityChanges(0, project, DeltaRows, TRUE))
ShownAnyway(read, ids) == {r \in Range(read) : continuity[r].target \in ids}
Delta(read, ids) ==
  Packed(read, ShownAnyway(read, ids), DeltaMax, DeltaRows, [r \in DOMAIN continuity |-> 1])

\* What a wake-up packet looks back on: the end of what its project sees.
LEMMA ReadBackIs ==
  ASSUME NEW D, continuity \in Seq(D), NEW project
  PROVE  LET read == ReadBack(project) IN
         /\ read \in Seq(VisibleTo(project)) /\ Len(read) <= DeltaRows
         /\ \A r \in VisibleTo(project) : r \in Range(read) \/ (Len(read) = DeltaRows /\ r < read[1])
<1> DEFINE V == VisibleTo(project)
           v == InOrder(V)
           n == Len(v)
           read == ReadBack(project)
           m == IF DeltaRows <= n THEN DeltaRows ELSE n
<1>0. DeltaRows \in Nat /\ DeltaRows # 0
  BY ContextAssumption
<1>1. V \in SUBSET Nat /\ IsFiniteSet(V)
  <2>1. 0 \in Nat
    OBVIOUS
  <2> QED BY <2>1, BetweenAre
<1> HIDE DEF V
<1>2. /\ v \in Seq(V) /\ n \in Nat /\ \A i \in 1 .. n : v[i] \in V
      /\ \A i, j \in 1 .. n : i < j => v[i] < v[j]
      /\ \A a \in V : \E i \in 1 .. n : v[i] = a
  BY <1>1, InOrderLists
<1> HIDE DEF v, n
<1>3. Newest(v, DeltaRows) \in Seq(V) /\ IsEnd(Newest(v, DeltaRows), v, DeltaRows)
  BY <1>0, <1>2, NewestIs
<1>4. read = Newest(v, DeltaRows)
  <2>1. ContinuityChanges(0, project, DeltaRows, TRUE) = Reverse(Newest(v, DeltaRows))
    BY DEF ContinuityChanges, v, V
  <2>2. Reverse(Reverse(Newest(v, DeltaRows))) = Newest(v, DeltaRows)
    BY <1>3, ReverseTwice
  <2> QED BY <2>1, <2>2 DEF ReadBack
<1> HIDE DEF read
<1>5. m \in Nat /\ m <= n /\ m <= DeltaRows /\ (m = n \/ m = DeltaRows)
  BY <1>0, <1>2
<1> HIDE DEF m
<1>6. read \in Seq(V) /\ Len(read) = m /\ \A i \in 1 .. m : read[i] = v[n - m + i]
  <2>1. IsEnd(read, v, DeltaRows)
    BY <1>3, <1>4
  <2>2. Len(read) = m /\ \A i \in 1 .. Len(read) : read[i] = v[Len(v) - Len(read) + i]
    BY <2>1 DEF IsEnd, m, n
  <2>3. Len(v) = n
    BY DEF n
  <2> QED BY <1>3, <1>4, <2>2, <2>3
<1>7. ASSUME NEW r \in V PROVE r \in Range(read) \/ (Len(read) = DeltaRows /\ r < read[1])
  <2>1. PICK k \in 1 .. n : v[k] = r
    BY <1>2
  <2>2. CASE n - m < k
    <3>1. k - (n - m) \in 1 .. m /\ n - m + (k - (n - m)) = k
      BY <1>2, <1>5, <2>2
    <3>2. read[k - (n - m)] = r
      BY <1>6, <2>1, <3>1
    <3> QED BY <1>6, <3>1, <3>2, RangeIs
  <2>3. CASE ~(n - m < k)
    <3>1. m = DeltaRows /\ 1 \in 1 .. m /\ n - m + 1 \in 1 .. n /\ k < n - m + 1
      BY <1>0, <1>2, <1>5, <2>3
    <3>2. read[1] = v[n - m + 1]
      BY <1>6, <3>1
    <3>3. v[k] < v[n - m + 1]
      BY <1>2, <3>1
    <3> QED BY <1>6, <2>1, <3>1, <3>2, <3>3
  <2> QED BY <2>2, <2>3
<1> QED BY <1>5, <1>6, <1>7 DEF read, V

\* What a wake-up packet says of the changes.
LEMMA DeltaTells ==
  ASSUME NEW D, continuity \in Seq(D), NEW project, NEW ids
  PROVE  LET read == ReadBack(project)
             delta == Delta(read, ids)
         IN  /\ read \in Seq(Nat) /\ delta.kept \in Seq(Nat) /\ delta.cut \in BOOLEAN
             /\ Len(delta.kept) <= DeltaMax
             /\ \A r \in VisibleTo(project) :
                  \/ r \in Range(delta.kept) \/ continuity[r].target \in ids \/ delta.cut
                  \/ (Len(read) = DeltaRows /\ r < read[1])
<1> DEFINE V == VisibleTo(project)
           read == ReadBack(project)
           delta == Delta(read, ids)
           skipped == ShownAnyway(read, ids)
           cost == [r \in DOMAIN continuity |-> 1]
<1>0. DeltaMax \in Nat /\ DeltaRows \in Nat
  BY ContextAssumption
<1>1. V \in SUBSET Nat /\ V \subseteq DOMAIN continuity
  <2>1. 0 \in Nat
    OBVIOUS
  <2> QED BY <2>1, BetweenAre DEF VisibleTo
<1>2. /\ read \in Seq(V)
      /\ \A r \in V : r \in Range(read) \/ (Len(read) = DeltaRows /\ r < read[1])
  BY ReadBackIs
<1> HIDE DEF V, read
<1>3. \A r \in V : cost[r] = 1
  BY <1>1
<1>4. delta = Packed(read, skipped, DeltaMax, DeltaRows, cost)
  BY DEF Delta
<1> HIDE DEF delta, skipped, cost
<1>5. Keeps(delta, V, read, skipped, DeltaRows)
  <2>1. \A r \in V : cost[r] \in Nat
    BY <1>3
  <2> QED BY <1>0, <1>2, <1>4, <2>1, PackedKeeps
<1>6. Len(delta.kept) <= DeltaMax
  BY <1>0, <1>2, <1>3, <1>4, PackedCounts
<1>7. read \in Seq(Nat) /\ delta.kept \in Seq(Nat) /\ delta.cut \in BOOLEAN
  <2>1. delta.kept \in Seq(V \ skipped) /\ V \ skipped \subseteq Nat /\ V \subseteq Nat
    BY <1>1, <1>5 DEF Keeps
  <2>2. delta.kept \in Seq(Nat)
    BY <2>1, SeqInto
  <2>3. read \in Seq(Nat)
    BY <1>2, <2>1, SeqInto
  <2> QED BY <1>5, <2>2, <2>3 DEF Keeps
<1>8. ASSUME NEW r \in V
      PROVE  \/ r \in Range(delta.kept) \/ continuity[r].target \in ids \/ delta.cut
             \/ (Len(read) = DeltaRows /\ r < read[1])
  <2>1. CASE r \in Range(read)
    <3>1. delta.cut \/ r \in skipped \/ r \in Range(delta.kept)
      BY <1>5, <2>1 DEF Keeps
    <3>2. r \in skipped => continuity[r].target \in ids
      BY DEF skipped, ShownAnyway
    <3> QED BY <3>1, <3>2
  <2>2. CASE r \notin Range(read)
    BY <1>2, <2>2
  <2> QED BY <2>1, <2>2
<1> QED BY <1>6, <1>7, <1>8 DEF V, read, delta

-----------------------------------------------------------------------------
(***************************************************************************)
(* Every step keeps the invariant.                                         *)
(***************************************************************************)

\* An idle handler is told from one at work.
LEMMA IdleIs ==
  /\ Idle.pc = "idle"
  /\ \A me \in CallRecords : me.pc # "idle" /\ me # Idle
<1>1. Idle.pc = "idle"
  BY DEF Idle
<1>2. ASSUME NEW me \in CallRecords PROVE me.pc # "idle"
  BY DEF CallRecords, Steps
<1> QED BY <1>1, <1>2

\* A handler at work is what the invariant says.
LEMMA AtWork ==
  ASSUME ContextInv, NEW c \in Calls, calls[c].pc # "idle"
  PROVE  calls[c] \in CallRecords /\ Good(calls[c])
<1>1. calls[c] \in {Idle} \cup CallRecords
  BY DEF ContextInv, Types
<1>2. calls[c] # Idle
  BY IdleIs
<1>3. CallInv(c)
  BY DEF ContextInv
<1> QED BY <1>1, <1>2, <1>3 DEF CallInv

\* No session, and no cursor.
LEMMA NothingIs ==
  /\ NoSession.known = FALSE /\ NoSession.project \in Names
  /\ \A p \in Projects : InProject(p).known = TRUE /\ InProject(p).project = p /\ InProject(p) \in Known
  /\ NoCursor \in Cursors /\ NoCursor.version = 0 /\ NoCursor.revision = 0
  /\ Nothing \in Chains /\ Nothing.cursor = NoCursor
<1>1. NoSession.known = FALSE /\ NoSession.project \in Names
  BY DEF NoSession, Names
<1>2. ASSUME NEW p \in Projects
      PROVE  InProject(p).known = TRUE /\ InProject(p).project = p /\ InProject(p) \in Known
  BY DEF InProject, Known
<1>3. NoCursor \in Cursors /\ NoCursor.version = 0 /\ NoCursor.revision = 0
  <2>1. NoProject \in Names
    BY DEF Names
  <2> QED BY <2>1 DEF NoCursor, Cursors
<1>4. Nothing \in Chains /\ Nothing.cursor = NoCursor
  <2>1. <<>> \in Seq(Nat) /\ 0 \in Nat
    OBVIOUS
  <2> QED BY <1>3, <2>1 DEF Nothing, Chains
<1> QED BY <1>1, <1>2, <1>3, <1>4

\* The project of a session, and a cursor for it.
LEMMA CursorIs ==
  ASSUME sessions \in [Sessions -> {NoSession} \cup Known], NEW s \in Sessions, NEW version \in {1, 2},
         NEW revision \in Nat
  PROVE  /\ Project(s) \in Names /\ sessions[s].known \in BOOLEAN
         /\ Cursor(version, s, revision) \in Cursors /\ Accepts(s, Cursor(version, s, revision))
         /\ Cursor(version, s, revision).revision = revision
         /\ Cursor(version, s, revision).project = Project(s)
         /\ Cursor(version, s, revision) # NoCursor
<1>1. sessions[s] \in {NoSession} \cup Known
  OBVIOUS
<1>2. Project(s) \in Names /\ sessions[s].known \in BOOLEAN
  <2>1. CASE sessions[s] = NoSession
    BY <2>1, NothingIs DEF Project
  <2>2. CASE sessions[s] \in Known
    <3>1. PICK p \in Projects : sessions[s] = InProject(p)
      BY <2>2 DEF Known
    <3>2. sessions[s].known = TRUE /\ sessions[s].project = p
      BY <3>1, NothingIs
    <3> QED BY <3>2 DEF Project, Names
  <2> QED BY <1>1, <2>1, <2>2
<1> DEFINE cursor == Cursor(version, s, revision)
<1>3. /\ cursor = [version |-> version, session |-> IF version = 1 THEN s ELSE "any",
                   project |-> Project(s), revision |-> revision]
      /\ cursor.version = version /\ cursor.project = Project(s) /\ cursor.revision = revision
      /\ (version = 1 => cursor.session = s)
  BY DEF Cursor
<1> HIDE DEF cursor
<1>4. cursor \in Cursors
  BY <1>2, <1>3 DEF Cursors
<1>5. Accepts(s, cursor)
  BY <1>3 DEF Accepts
<1>6. cursor # NoCursor
  <2>1. cursor.version # 0
    BY <1>3
  <2>2. NoCursor.version = 0
    BY NothingIs
  <2> QED BY <2>1, <2>2
<1> QED BY <1>2, <1>3, <1>4, <1>5, <1>6 DEF cursor

\* Whether a chain is sound depends on the log, on its session and on what was lost.
LEMMA SoundStays ==
  ASSUME NEW s \in Sessions, NEW link \in Chains, Sound(s, link), continuity' = continuity, lost' = lost,
         sessions[s].known => sessions'[s] = sessions[s]
  PROVE  Sound(s, link)'
<1>1. Between(link.cursor.project, link.from, link.cursor.revision)' =
        Between(link.cursor.project, link.from, link.cursor.revision)
  BY DEF Between, VisibleTo, Sees
<1>2. s \notin lost' => sessions'[s].known /\ Accepts(s, link.cursor)'
  BY DEF Sound, Accepts, Project
<1> QED BY <1>1, <1>2 DEF Sound

\* A chain that no one touches stays sound.
LEMMA ChainsStay ==
  ASSUME ContextInv, continuity' = continuity, lost' = lost, chain' = chain,
         \A s \in Sessions : sessions[s].known => sessions'[s] = sessions[s]
  PROVE  ChainInv'
<1>1. SUFFICES ASSUME NEW s \in Sessions, chain[s] # Nothing PROVE Sound(s, chain[s])'
  BY DEF ChainInv
<1>2. PICK link \in Chains : link = chain[s]
  BY DEF ContextInv, Types
<1>3. Sound(s, link)
  BY <1>1, <1>2 DEF ContextInv, ChainInv
<1>4. Sound(s, link)'
  BY <1>3, SoundStays
<1> QED BY <1>2, <1>4

\* What a handler does for itself touches nothing else.
LEMMA CallKeeps ==
  ASSUME ContextInv, NEW c \in Calls, NEW call \in CallRecords, Good(call),
         calls' = [calls EXCEPT ![c] = call], UNCHANGED <<store, sessions, surfaced, chain, shown>>,
         events' \in 0 .. MaxEvents
  PROVE  ContextInv'
<1>1. /\ continuity' = continuity /\ alive' = alive /\ gone' = gone /\ sessions' = sessions
      /\ surfaced' = surfaced /\ chain' = chain /\ shown' = shown /\ events' \in 0 .. MaxEvents
      /\ unwritten' = unwritten /\ lost' = lost
      /\ calls' = [calls EXCEPT ![c] = call]
  BY DEF store
<1>2. calls \in [Calls -> {Idle} \cup CallRecords]
  BY DEF ContextInv, Types
<1>3. Types'
  <2>1. calls' \in [Calls -> {Idle} \cup CallRecords]
    BY <1>1, <1>2
  <2> QED BY <1>1, <2>1 DEF ContextInv, Types
<1>4. ChainInv'
  BY <1>1, ChainsStay
<1>5. \A me : Good(me)' = Good(me)
  <2>1. TAKE me
  <2>2. PathInv(me)' = PathInv(me)
    BY <1>1 DEF PathInv, Signed, Accepts, Project
  <2>3. CostInv(me)' = CostInv(me)
    BY DEF CostInv
  <2>4. GapInv(me)' = GapInv(me)
    BY <1>1 DEF GapInv, VisibleTo, Sees
  <2>5. InjectInv(me)' = InjectInv(me)
    BY <1>1 DEF InjectInv
  <2> QED BY <2>2, <2>3, <2>4, <2>5 DEF Good
<1>6. ASSUME NEW d \in Calls PROVE CallInv(d)'
  <2>1. CallInv(d)
    BY DEF ContextInv
  <2>2. CASE d = c
    BY <1>1, <1>2, <1>5, <2>2 DEF CallInv
  <2>3. CASE d # c
    <3>1. calls'[d] = calls[d]
      BY <1>1, <1>2, <2>3
    <3> QED BY <1>5, <2>1, <3>1 DEF CallInv
  <2> QED BY <2>2, <2>3
<1> QED BY <1>3, <1>4, <1>6 DEF ContextInv

\* One step of a handler that only reads keeps the invariant if it leaves a good handler.
LEMMA BecomesKeeps ==
  ASSUME ContextInv, NEW c \in Calls, NEW from, NEW call \in CallRecords, Good(call), Becomes(c, from, call)
  PROVE  ContextInv'
<1>1. /\ calls' = [calls EXCEPT ![c] = call] /\ events' = events
      /\ UNCHANGED <<store, sessions, surfaced, chain, shown>>
  BY DEF Becomes
<1>2. events' \in 0 .. MaxEvents
  BY <1>1 DEF ContextInv, Types
<1> QED BY <1>1, <1>2, CallKeeps

\* What the constants are.
LEMMA BoundsAre ==
  /\ IdentityMax \in Nat /\ ItemsMax \in Nat /\ PacketMax \in Nat /\ ItemBudget \in Nat
  /\ TextBudget \in Nat /\ DeltaRows \in Nat /\ DeltaRows # 0 /\ DeltaMax \in Nat /\ InjectMax \in Nat
  /\ MaxEvents \in Nat /\ DiffLimits \subseteq Nat \ {0} /\ Born \subseteq Ids
BY ContextAssumption

\* Reading the head of the continuity log keeps the invariant.
LEMMA ReadHeadKeeps ==
  ASSUME ContextInv, NEW c \in Calls, ReadHead(c)
  PROVE  ContextInv'
<1> DEFINE me == calls[c]
           version == IF me.kind = "reflex" THEN 2 ELSE 1
           cursor == Cursor(version, me.session, ContinuityHead)
           pc == CASE me.kind = "reflex" -> "global" [] me.kind = "context" -> "search" [] OTHER -> "project"
           call == [me EXCEPT !.cursor = cursor, !.pc = pc]
<1>1. Becomes(c, "head", call) /\ me.pc = "head"
  BY DEF ReadHead, Becomes
<1>2. me \in CallRecords /\ Good(me)
  BY <1>1, AtWork
<1>3. /\ sessions \in [Sessions -> {NoSession} \cup Known] /\ Len(continuity) \in Nat
      /\ me.session \in Sessions /\ version \in {1, 2}
  <2>1. continuity \in Seq(Changes) /\ sessions \in [Sessions -> {NoSession} \cup Known]
    BY DEF ContextInv, Types
  <2>2. me.session \in Sessions
    BY <1>2 DEF CallRecords
  <2> QED BY <2>1, <2>2
<1> HIDE DEF version
<1>4. /\ cursor \in Cursors /\ Accepts(me.session, cursor) /\ cursor.revision = Len(continuity)
      /\ cursor # NoCursor
  BY <1>3, CursorIs DEF ContinuityHead
<1> HIDE DEF me, cursor
<1>5. me.kind \in {"reflex", "context", "recents"} /\ me.list = <<>>
  BY <1>1, <1>2 DEF Good, PathInv, CostInv, CallRecords, Kinds, Done
<1>6. /\ (me.kind = "reflex" => pc = "global") /\ (me.kind = "context" => pc = "search")
      /\ (me.kind = "recents" => pc = "project")
  BY <1>5
<1> HIDE DEF pc
<1>7. /\ call.pc = pc /\ call.cursor = cursor /\ call.kind = me.kind /\ call.session = me.session
      /\ call.list = me.list /\ call.core = me.core /\ call.delta = me.delta /\ call.read = me.read
      /\ call.cut = me.cut /\ call.before = me.before /\ call.wanted = me.wanted
  BY <1>2 DEF CallRecords
<1>8. call \in CallRecords
  <2>1. pc \in Steps
    BY <1>5, <1>6 DEF Steps
  <2> QED BY <1>2, <1>4, <2>1 DEF CallRecords
<1> HIDE DEF call
<1>9. PathInv(call)
  BY <1>2, <1>3, <1>4, <1>5, <1>6, <1>7 DEF Good, PathInv, Signed, Unasked, Done
<1>10. CostInv(call)
  BY <1>2, <1>5, <1>6, <1>7 DEF Good, CostInv, Unasked, Done
<1>11. GapInv(call)
  BY <1>5, <1>6, <1>7 DEF GapInv, Done
<1>12. InjectInv(call)
  BY <1>5, <1>7 DEF InjectInv, Unasked
<1>13. Good(call)
  BY <1>9, <1>10, <1>11, <1>12 DEF Good
<1> QED BY <1>1, <1>8, <1>13, BecomesKeeps

\* Reading the identity of the user keeps the invariant.
LEMMA ReadGlobalKeeps ==
  ASSUME ContextInv, NEW c \in Calls, ReadGlobal(c)
  PROVE  ContextInv'
<1> DEFINE me == calls[c]
           core == Core(Recent(Project(me.session), FALSE))
           call == [me EXCEPT !.pc = "important", !.core = core.kept, !.cut = core.cut]
<1>1. Becomes(c, "global", call) /\ me.pc = "global"
  BY DEF ReadGlobal
<1>2. me \in CallRecords /\ Good(me)
  BY <1>1, AtWork
<1>3. core.kept \in Seq(Ids) /\ core.cut \in BOOLEAN /\ Len(core.kept) <= ItemsMax /\ SumOf(core.kept) <= ItemBudget
  <2>1. alive \in SUBSET Ids
    BY DEF ContextInv, Types
  <2>2. Recent(Project(me.session), FALSE) \in Seq(Ids)
    BY <2>1, RecentAre
  <2>3. Fits(core, ItemsMax, ItemBudget)
    BY <2>2, CoreFits
  <2> HIDE DEF core
  <2> QED BY <2>3 DEF Fits
<1> HIDE DEF me, core
<1>4. me.kind = "reflex"
  BY <1>1, <1>2 DEF Good, PathInv
<1>5. /\ call.pc = "important" /\ call.core = core.kept /\ call.cut = core.cut
      /\ call.cursor = me.cursor /\ call.kind = me.kind /\ call.session = me.session
      /\ call.list = me.list /\ call.delta = me.delta /\ call.read = me.read
      /\ call.before = me.before /\ call.wanted = me.wanted
  BY <1>2 DEF CallRecords
<1>6. call \in CallRecords
  BY <1>2, <1>3 DEF CallRecords, Steps
<1> HIDE DEF call
<1>7. PathInv(call)
  BY <1>1, <1>2, <1>4, <1>5 DEF Good, PathInv, Unasked, Done
<1>8. CostInv(call)
  BY <1>2, <1>3, <1>4, <1>5 DEF Good, CostInv, Unasked, Done
<1>9. GapInv(call) /\ InjectInv(call)
  BY <1>4, <1>5 DEF GapInv, InjectInv, Unasked, Done
<1>10. Good(call)
  BY <1>7, <1>8, <1>9 DEF Good
<1> QED BY <1>1, <1>6, <1>10, BecomesKeeps

\* Reading what matters in the project keeps the invariant.
LEMMA ReadImportantKeeps ==
  ASSUME ContextInv, NEW c \in Calls, ReadImportant(c)
  PROVE  ContextInv'
<1> DEFINE me == calls[c]
           important == Important(Recent(Project(me.session), TRUE))
           call == [me EXCEPT !.pc = "delta", !.list = important.kept, !.cut = @ \/ important.cut]
<1>1. Becomes(c, "important", call) /\ me.pc = "important"
  BY DEF ReadImportant
<1>2. me \in CallRecords /\ Good(me)
  BY <1>1, AtWork
<1>3. /\ important.kept \in Seq(Ids) /\ important.cut \in BOOLEAN
      /\ Len(important.kept) <= ItemsMax /\ SumOf(important.kept) <= ItemBudget
  <2>1. alive \in SUBSET Ids
    BY DEF ContextInv, Types
  <2>2. Recent(Project(me.session), TRUE) \in Seq(Ids)
    BY <2>1, RecentAre
  <2>3. Fits(important, ItemsMax, ItemBudget)
    BY <2>2, CoreFits
  <2> HIDE DEF important
  <2> QED BY <2>3 DEF Fits
<1> HIDE DEF me, important
<1>4. me.kind = "reflex"
  BY <1>1, <1>2 DEF Good, PathInv
<1>5. /\ call.pc = "delta" /\ call.list = important.kept /\ call.cut = (me.cut \/ important.cut)
      /\ call.cursor = me.cursor /\ call.kind = me.kind /\ call.session = me.session
      /\ call.core = me.core /\ call.delta = me.delta /\ call.read = me.read
      /\ call.before = me.before /\ call.wanted = me.wanted
  BY <1>2 DEF CallRecords
<1>6. call \in CallRecords
  <2>1. (me.cut \/ important.cut) \in BOOLEAN
    OBVIOUS
  <2> QED BY <1>2, <1>3, <2>1 DEF CallRecords, Steps
<1> HIDE DEF call
<1>7. PathInv(call)
  BY <1>1, <1>2, <1>4, <1>5 DEF Good, PathInv, Unasked, Done
<1>8. CostInv(call)
  BY <1>2, <1>3, <1>4, <1>5 DEF Good, CostInv, Unasked, Done
<1>9. GapInv(call) /\ InjectInv(call)
  BY <1>4, <1>5 DEF GapInv, InjectInv, Unasked, Done
<1>10. Good(call)
  BY <1>7, <1>8, <1>9 DEF Good
<1> QED BY <1>1, <1>6, <1>10, BecomesKeeps

\* Reading the changes since the last packet keeps the invariant.
LEMMA ReadDeltaKeeps ==
  ASSUME ContextInv, NEW c \in Calls, ReadDelta(c)
  PROVE  ContextInv'
<1> DEFINE me == calls[c]
           ids == Range(me.core \o me.list)
           read == ReadBack(Project(me.session))
           delta == Delta(read, ids)
           call == [me EXCEPT !.pc = "mark", !.delta = delta.kept, !.read = read, !.cut = @ \/ delta.cut]
<1>1. Becomes(c, "delta", call) /\ me.pc = "delta"
  BY DEF ReadDelta, ReadBack, Delta, ShownAnyway
<1>2. me \in CallRecords /\ Good(me)
  BY <1>1, AtWork
<1>3. /\ read \in Seq(Nat) /\ delta.kept \in Seq(Nat) /\ delta.cut \in BOOLEAN
      /\ Len(delta.kept) <= DeltaMax
      /\ \A r \in VisibleTo(Project(me.session)) :
           \/ r \in Range(delta.kept) \/ continuity[r].target \in ids \/ delta.cut
           \/ (Len(read) = DeltaRows /\ r < read[1])
  <2>1. continuity \in Seq(Changes)
    BY DEF ContextInv, Types
  <2> HIDE DEF ids
  <2> QED BY <2>1, DeltaTells
<1> HIDE DEF me, read, delta
<1>4. me.kind = "reflex" /\ me.cursor.project = Project(me.session)
  BY <1>1, <1>2 DEF Good, PathInv, Signed, Accepts
<1>5. /\ call.pc = "mark" /\ call.delta = delta.kept /\ call.read = read /\ call.cut = (me.cut \/ delta.cut)
      /\ call.cursor = me.cursor /\ call.kind = me.kind /\ call.session = me.session
      /\ call.core = me.core /\ call.list = me.list
      /\ call.before = me.before /\ call.wanted = me.wanted
  BY <1>2 DEF CallRecords
<1>6. call \in CallRecords
  <2>1. (me.cut \/ delta.cut) \in BOOLEAN
    OBVIOUS
  <2> QED BY <1>2, <1>3, <2>1 DEF CallRecords, Steps
<1> HIDE DEF call
<1>7. PathInv(call)
  BY <1>1, <1>2, <1>4, <1>5 DEF Good, PathInv, Unasked, Done
<1>8. CostInv(call)
  BY <1>2, <1>3, <1>4, <1>5 DEF Good, CostInv, Unasked, Done
<1>9. GapInv(call)
  <2>1. SUFFICES ASSUME NEW r \in VisibleTo(call.cursor.project)
                 PROVE  \/ r \in Range(call.delta) \/ continuity[r].target \in Range(call.core \o call.list)
                        \/ call.cut \/ (Len(call.read) = DeltaRows /\ r < call.read[1])
    BY DEF GapInv
  <2>2. r \in VisibleTo(Project(me.session))
    BY <1>4, <1>5
  <2>3. \/ r \in Range(delta.kept) \/ continuity[r].target \in ids \/ delta.cut
        \/ (Len(read) = DeltaRows /\ r < read[1])
    BY <1>3, <2>2
  <2> QED BY <1>5, <2>3
<1>10. InjectInv(call)
  BY <1>4, <1>5 DEF InjectInv, Unasked
<1>11. Good(call)
  BY <1>7, <1>8, <1>9, <1>10 DEF Good
<1> QED BY <1>1, <1>6, <1>11, BecomesKeeps

\* A context packet that is read, or a part of it.
LEMMA ListKeeps ==
  ASSUME ContextInv, NEW c \in Calls, calls[c].pc \in {"search", "project", "recent"},
         calls[c].kind \in {"context", "recents"}, NEW list \in Seq(Ids), NEW cut \in BOOLEAN,
         NEW pc \in {"recent", "mark"},
         pc = "mark" => Len(list) <= 3 * PacketMax /\ SumOf(list) <= TextBudget,
         pc = "recent" => Len(list) <= 2 * PacketMax
  PROVE  LET call == [calls[c] EXCEPT !.pc = pc, !.list = list, !.cut = cut]
         IN  call \in CallRecords /\ Good(call)
<1> DEFINE me == calls[c]
           call == [me EXCEPT !.pc = pc, !.list = list, !.cut = cut]
<1>2. me \in CallRecords /\ Good(me)
  BY AtWork
<1>3. me.kind \in {"context", "recents"} /\ me.pc \in {"search", "project", "recent"}
  OBVIOUS
<1> HIDE DEF me
<1>4. me.core = <<>>
  BY <1>2, <1>3 DEF Good, CostInv
<1>5. /\ call.pc = pc /\ call.list = list /\ call.cut = cut
      /\ call.cursor = me.cursor /\ call.kind = me.kind /\ call.session = me.session
      /\ call.core = me.core /\ call.delta = me.delta /\ call.read = me.read
      /\ call.before = me.before /\ call.wanted = me.wanted
  BY <1>2 DEF CallRecords
<1>6. call \in CallRecords
  BY <1>2 DEF CallRecords, Steps
<1> HIDE DEF call
<1>7. PathInv(call)
  BY <1>2, <1>3, <1>5 DEF Good, PathInv, Unasked, Done
<1>8. CostInv(call)
  <2>1. call.pc = "recent" \/ (call.pc = "mark" /\ Len(call.list) <= 3 * PacketMax /\ SumOf(call.list) <= TextBudget)
    BY <1>5
  <2>2. call.pc = "recent" => Len(call.list) <= 2 * PacketMax
    BY <1>5
  <2>3. call.kind \in {"context", "recents"} /\ call.core = <<>>
    BY <1>3, <1>4, <1>5
  <2> QED BY <2>1, <2>2, <2>3 DEF CostInv, Unasked, Done
<1>9. GapInv(call) /\ InjectInv(call)
  BY <1>3, <1>5 DEF GapInv, InjectInv, Unasked
<1> QED BY <1>6, <1>7, <1>8, <1>9 DEF Good, call, me

\* Hits of the query of a context request keep the invariant.
LEMMA ReadContextKeeps ==
  ASSUME ContextInv, NEW c \in Calls, ReadContext(c)
  PROVE  ContextInv'
<1>0. PICK ranking \in Rankings(Project(calls[c].session)) :
        LET hits == IdsOf(Searched(ranking, 12))
            list == FirstN(OfProject(hits), 2 * PacketMax) \o FirstN(OfNone(hits), PacketMax)
            packed == Packed(list, {}, TextBudget, Len(list), Size)
        IN  Becomes(c, "search", [calls[c] EXCEPT !.pc = "mark", !.list = packed.kept, !.cut = packed.cut])
  BY DEF ReadContext
<1> DEFINE me == calls[c]
           hits == IdsOf(Searched(ranking, 12))
           a == FirstN(OfProject(hits), 2 * PacketMax)
           b == FirstN(OfNone(hits), PacketMax)
           list == a \o b
           packed == Packed(list, {}, TextBudget, Len(list), Size)
           call == [me EXCEPT !.pc = "mark", !.list = packed.kept, !.cut = packed.cut]
<1>1. Becomes(c, "search", call) /\ me.pc = "search" /\ me.kind = "context"
  BY <1>0 DEF ReadContext
<1>2. PacketMax \in Nat /\ 2 * PacketMax \in Nat /\ TextBudget \in Nat /\ IdentityMax \in Nat
  BY BoundsAre
<1>3. hits \in Seq(Ids)
  <2>1. alive \in SUBSET Ids /\ 12 \in Nat
    BY DEF ContextInv, Types
  <2> DEFINE H == HitsOf(EligibleIn(Project(me.session)))
  <2>2. Searched(ranking, 12) \in Seq(H) /\ \A h \in H : h.m \in Ids
    BY <2>1, RankingsAre
  <2> HIDE DEF H
  <2> QED BY <2>2, IdsAre
<1> HIDE DEF hits
<1>4. a \in Seq(Ids) /\ Len(a) <= 2 * PacketMax
  <2> DEFINE x == OfProject(hits)
  <2>1. x \in Seq(Ids)
    BY <1>3, ThoseOf DEF OfProject
  <2> HIDE DEF x
  <2>2. Len(x) \in Nat
    BY <2>1
  <2>3. FirstN(x, 2 * PacketMax) \in Seq(Ids) /\
        Len(FirstN(x, 2 * PacketMax)) = IF 2 * PacketMax <= Len(x) THEN 2 * PacketMax ELSE Len(x)
    BY <1>2, <2>1, FirstNIs
  <2> QED BY <1>2, <2>2, <2>3 DEF x
<1>5. b \in Seq(Ids) /\ Len(b) <= PacketMax
  <2> DEFINE x == OfNone(hits)
  <2>1. x \in Seq(Ids)
    BY <1>3, ThoseOf DEF OfNone
  <2> HIDE DEF x
  <2>2. Len(x) \in Nat
    BY <2>1
  <2>3. FirstN(x, PacketMax) \in Seq(Ids) /\
        Len(FirstN(x, PacketMax)) = IF PacketMax <= Len(x) THEN PacketMax ELSE Len(x)
    BY <1>2, <2>1, FirstNIs
  <2> QED BY <1>2, <2>2, <2>3 DEF x
<1> HIDE DEF a, b
<1>6. list \in Seq(Ids) /\ Len(list) \in Nat /\ Len(list) <= 3 * PacketMax
  BY <1>2, <1>4, <1>5
<1> HIDE DEF list
<1>7. Fits(packed, Len(list), TextBudget)
  BY <1>2, <1>6, PacketFits
<1> HIDE DEF packed
<1>8. /\ packed.kept \in Seq(Ids) /\ packed.cut \in BOOLEAN /\ Len(packed.kept) <= 3 * PacketMax
      /\ SumOf(packed.kept) <= TextBudget
  <2>1. packed.kept \in Seq(Ids) /\ packed.cut \in BOOLEAN /\ Len(packed.kept) <= Len(list)
        /\ SumOf(packed.kept) <= TextBudget
    BY <1>7 DEF Fits
  <2>2. Len(packed.kept) \in Nat
    BY <2>1
  <2> QED BY <1>2, <1>6, <2>1, <2>2
<1>9. call \in CallRecords /\ Good(call)
  BY <1>1, <1>8, ListKeeps
<1> HIDE DEF call
<1> QED BY <1>1, <1>9, BecomesKeeps

\* A call that keeps a field is one that writes it as it is.
LEMMA SameCall ==
  ASSUME NEW me \in CallRecords, NEW pc, NEW list
  PROVE  /\ [me EXCEPT !.pc = pc, !.list = list] = [me EXCEPT !.pc = pc, !.list = list, !.cut = me.cut]
         /\ [me EXCEPT !.pc = pc] = [me EXCEPT !.pc = pc, !.list = me.list, !.cut = me.cut]
BY DEF CallRecords

\* Reading what is recent in the project keeps the invariant.
LEMMA ReadProjectKeeps ==
  ASSUME ContextInv, NEW c \in Calls, ReadProject(c)
  PROVE  ContextInv'
<1> DEFINE me == calls[c]
           list == FirstN(Recent(Project(me.session), TRUE), 2 * PacketMax)
           found == [me EXCEPT !.pc = "recent", !.list = list]
           failed == [me EXCEPT !.pc = "mark"]
<1>1. (Becomes(c, "project", found) \/ Becomes(c, "project", failed)) /\ me.pc = "project"
  BY DEF ReadProject, Becomes
<1>2. me \in CallRecords /\ Good(me)
  BY <1>1, AtWork
<1>3. PacketMax \in Nat /\ 2 * PacketMax \in Nat /\ TextBudget \in Nat
  BY BoundsAre
<1>4. list \in Seq(Ids) /\ Len(list) <= 2 * PacketMax
  <2> DEFINE x == Recent(Project(me.session), TRUE)
  <2>1. alive \in SUBSET Ids
    BY DEF ContextInv, Types
  <2>2. x \in Seq(Ids)
    BY <2>1, RecentAre
  <2> HIDE DEF x
  <2>3. Len(x) \in Nat
    BY <2>2
  <2>4. FirstN(x, 2 * PacketMax) \in Seq(Ids) /\
        Len(FirstN(x, 2 * PacketMax)) = IF 2 * PacketMax <= Len(x) THEN 2 * PacketMax ELSE Len(x)
    BY <1>3, <2>2, FirstNIs
  <2>5. Len(FirstN(x, 2 * PacketMax)) <= 2 * PacketMax
    BY <1>3, <2>3, <2>4
  <2> QED BY <2>4, <2>5 DEF x
<1> HIDE DEF list
<1>5. me.kind \in {"context", "recents"} /\ me.cut \in BOOLEAN /\ me.list = <<>>
  <2> HIDE DEF me
  <2> QED BY <1>1, <1>2 DEF Good, PathInv, CostInv, CallRecords, Kinds, Unasked, Done
<1>6. found \in CallRecords /\ Good(found)
  <2>1. found = [me EXCEPT !.pc = "recent", !.list = list, !.cut = me.cut]
    BY <1>2, SameCall, Zenon
  <2> HIDE DEF found
  <2>2. LET call == [calls[c] EXCEPT !.pc = "recent", !.list = list, !.cut = me.cut]
        IN  call \in CallRecords /\ Good(call)
    BY <1>1, <1>4, <1>5, ListKeeps
  <2> QED BY <2>1, <2>2
<1>7. failed \in CallRecords /\ Good(failed)
  <2>1. failed = [me EXCEPT !.pc = "mark", !.list = <<>>, !.cut = me.cut]
    BY <1>2, <1>5, SameCall, Zenon
  <2> HIDE DEF failed
  <2>2. <<>> \in Seq(Ids) /\ Len(<<>>) <= 3 * PacketMax /\ SumOf(<<>>) <= TextBudget
    BY <1>3, SumOfNone
  <2>3. LET call == [calls[c] EXCEPT !.pc = "mark", !.list = <<>>, !.cut = me.cut]
        IN  call \in CallRecords /\ Good(call)
    BY <1>1, <1>5, <2>2, ListKeeps
  <2> QED BY <2>1, <2>3
<1> HIDE DEF found, failed
<1>8. CASE Becomes(c, "project", found)
  BY <1>6, <1>8, BecomesKeeps
<1>9. CASE Becomes(c, "project", failed)
  BY <1>7, <1>9, BecomesKeeps
<1> QED BY <1>1, <1>8, <1>9

\* Reading what is recent elsewhere keeps the invariant.
LEMMA ReadRecentKeeps ==
  ASSUME ContextInv, NEW c \in Calls, ReadRecent(c)
  PROVE  ContextInv'
<1> DEFINE me == calls[c]
           b == FirstN(Recent(Project(me.session), FALSE), PacketMax)
           list == me.list \o b
           packed == Packed(list, {}, TextBudget, Len(list), Size)
           found == [me EXCEPT !.pc = "mark", !.list = packed.kept, !.cut = packed.cut]
           failed == [me EXCEPT !.pc = "mark", !.list = <<>>]
<1>1. (Becomes(c, "recent", found) \/ Becomes(c, "recent", failed)) /\ me.pc = "recent"
  BY DEF ReadRecent
<1>2. me \in CallRecords /\ Good(me)
  BY <1>1, AtWork
<1>3. PacketMax \in Nat /\ 2 * PacketMax \in Nat /\ TextBudget \in Nat
  BY BoundsAre
<1>4. b \in Seq(Ids) /\ Len(b) <= PacketMax
  <2> DEFINE x == Recent(Project(me.session), FALSE)
  <2>1. alive \in SUBSET Ids
    BY DEF ContextInv, Types
  <2>2. x \in Seq(Ids)
    BY <2>1, RecentAre
  <2> HIDE DEF x
  <2>3. Len(x) \in Nat
    BY <2>2
  <2>4. FirstN(x, PacketMax) \in Seq(Ids) /\
        Len(FirstN(x, PacketMax)) = IF PacketMax <= Len(x) THEN PacketMax ELSE Len(x)
    BY <1>3, <2>2, FirstNIs
  <2>5. Len(FirstN(x, PacketMax)) <= PacketMax
    BY <1>3, <2>3, <2>4
  <2> QED BY <2>4, <2>5 DEF x
<1> HIDE DEF b
<1>5. /\ me.kind \in {"context", "recents"} /\ me.cut \in BOOLEAN
      /\ me.list \in Seq(Ids) /\ Len(me.list) <= 2 * PacketMax
  <2> HIDE DEF me
  <2> QED BY <1>1, <1>2 DEF Good, PathInv, CostInv, CallRecords, Kinds, Unasked, Done
<1>6. list \in Seq(Ids) /\ Len(list) \in Nat /\ Len(list) <= 3 * PacketMax
  <2> HIDE DEF me
  <2> QED BY <1>3, <1>4, <1>5
<1> HIDE DEF list
<1>7. Fits(packed, Len(list), TextBudget)
  BY <1>3, <1>6, PacketFits
<1> HIDE DEF packed
<1>8. /\ packed.kept \in Seq(Ids) /\ packed.cut \in BOOLEAN /\ Len(packed.kept) <= 3 * PacketMax
      /\ SumOf(packed.kept) <= TextBudget
  <2>1. packed.kept \in Seq(Ids) /\ packed.cut \in BOOLEAN /\ Len(packed.kept) <= Len(list)
        /\ SumOf(packed.kept) <= TextBudget
    BY <1>7 DEF Fits
  <2>2. Len(packed.kept) \in Nat
    BY <2>1
  <2> QED BY <1>3, <1>6, <2>1, <2>2
<1>9. found \in CallRecords /\ Good(found)
  BY <1>1, <1>5, <1>8, ListKeeps
<1>10. failed \in CallRecords /\ Good(failed)
  <2>1. failed = [me EXCEPT !.pc = "mark", !.list = <<>>, !.cut = me.cut]
    BY <1>2, SameCall, Zenon
  <2> HIDE DEF failed
  <2>2. <<>> \in Seq(Ids) /\ Len(<<>>) <= 3 * PacketMax /\ SumOf(<<>>) <= TextBudget
    BY <1>3, SumOfNone
  <2>3. LET call == [calls[c] EXCEPT !.pc = "mark", !.list = <<>>, !.cut = me.cut]
        IN  call \in CallRecords /\ Good(call)
    BY <1>1, <1>5, <2>2, ListKeeps
  <2> QED BY <2>1, <2>3
<1> HIDE DEF found, failed
<1>11. CASE Becomes(c, "recent", found)
  BY <1>9, <1>11, BecomesKeeps
<1>12. CASE Becomes(c, "recent", failed)
  BY <1>10, <1>12, BecomesKeeps
<1> QED BY <1>1, <1>11, <1>12

\* Which hits are asked for.
LEMMA AskedAre ==
  ASSUME NEW H, NEW hits \in Seq(H), NEW me
  PROVE  /\ Asked(me, hits) \in Seq(H)
         /\ \A h : h \in Range(Asked(me, hits)) <=>
              h \in Range(hits) /\ (me.kind = "strong" => StrongAutomaticMatch(h, Query))
<1> DEFINE asked == {h \in Range(hits) : me.kind = "strong" => StrongAutomaticMatch(h, Query)}
<1>1. Asked(me, hits) = Those(hits, asked)
  BY DEF Asked
<1>2. \A h : h \in asked <=> h \in Range(hits) /\ (me.kind = "strong" => StrongAutomaticMatch(h, Query))
  OBVIOUS
<1>3. PICK n \in Nat : n = Len(hits) /\ DOMAIN hits = 1 .. n
  OBVIOUS
<1> HIDE DEF asked
<1>4. Those(hits, asked) \in Seq(H)
  BY ThoseOf
<1>5. \A h : h \in Range(Those(hits, asked)) <=> h \in asked /\ \E i \in 1 .. n : h = hits[i]
  <2>1. DOMAIN hits = 1 .. n
    BY <1>3
  <2> QED BY <2>1, ThoseAre
<1>6. \A h : h \in Range(hits) <=> \E i \in 1 .. n : h = hits[i]
  BY <1>3, RangeIs
<1> QED BY <1>1, <1>2, <1>4, <1>5, <1>6

\* Searching for a request of the host keeps the invariant.
LEMMA RelevanceKeeps ==
  ASSUME ContextInv, NEW c \in Calls, Relevance(c)
  PROVE  ContextInv'
<1>0. PICK ranking \in Rankings(Project(calls[c].session)) :
        Becomes(c, "search",
          [calls[c] EXCEPT !.pc = "compose",
                           !.read = IdsOf(Asked(calls[c], Searched(ranking, 2 * InjectMax))),
                           !.wanted = Range(IdsOf(Asked(calls[c], Reach(ranking))))])
  BY DEF Relevance
<1> DEFINE me == calls[c]
           H == HitsOf(EligibleIn(Project(me.session)))
           hits == Searched(ranking, 2 * InjectMax)
           reach == Reach(ranking)
           read == IdsOf(Asked(me, hits))
           wanted == Range(IdsOf(Asked(me, reach)))
           call == [me EXCEPT !.pc = "compose", !.read = read, !.wanted = wanted]
<1>1. Becomes(c, "search", call) /\ me.pc = "search" /\ me.kind \in Unasked
  BY <1>0 DEF Relevance
<1>2. me \in CallRecords /\ Good(me)
  BY <1>1, AtWork
<1>3. 2 * InjectMax \in Nat /\ alive \in SUBSET Ids
  BY BoundsAre DEF ContextInv, Types
<1>4. /\ ranking \in Seq(H) /\ hits \in Seq(H) /\ \A h \in H : h.m \in Ids
      /\ \A i \in 1 .. Len(ranking) : i <= 2 * InjectMax /\ i <= IdentityMax => ranking[i] \in Range(hits)
  BY <1>3, RankingsAre
<1> HIDE DEF H, hits
<1>5. /\ reach \in Seq(H) /\ \A i \in 1 .. Len(reach) : reach[i] = ranking[i]
      /\ Len(reach) = IF 2 * InjectMax <= Len(ranking) THEN 2 * InjectMax ELSE Len(ranking)
  BY <1>3, <1>4, FirstNIs DEF Reach
<1> HIDE DEF reach
<1>6. /\ Asked(me, hits) \in Seq(H) /\ Asked(me, reach) \in Seq(H)
      /\ \A h : h \in Range(Asked(me, hits)) <=>
           h \in Range(hits) /\ (me.kind = "strong" => StrongAutomaticMatch(h, Query))
      /\ \A h : h \in Range(Asked(me, reach)) <=>
           h \in Range(reach) /\ (me.kind = "strong" => StrongAutomaticMatch(h, Query))
  BY <1>4, <1>5, AskedAre
<1> HIDE DEF me
<1>7. 2 * InjectMax <= IdentityMax => Range(reach) \subseteq Range(hits)
  <2>1. SUFFICES ASSUME 2 * InjectMax <= IdentityMax, NEW h \in Range(reach) PROVE h \in Range(hits)
    OBVIOUS
  <2>2. PICK i \in 1 .. Len(reach) : h = reach[i]
    BY <1>5, RangeIs
  <2>3. Len(ranking) \in Nat /\ IdentityMax \in Nat
    BY <1>4, BoundsAre
  <2>4. i \in 1 .. Len(ranking) /\ i <= 2 * InjectMax /\ i <= IdentityMax /\ h = ranking[i]
    BY <1>3, <1>5, <2>1, <2>2, <2>3
  <2> QED BY <1>4, <2>4
<1>8. /\ read \in Seq(Ids) /\ wanted \in SUBSET Ids
      /\ 2 * InjectMax <= IdentityMax => wanted \subseteq Range(read)
  <2> DEFINE a == Asked(me, hits)
             b == Asked(me, reach)
  <2>1. a \in Seq(H) /\ b \in Seq(H)
    BY <1>6
  <2>2. 2 * InjectMax <= IdentityMax => Range(b) \subseteq Range(a)
    BY <1>6, <1>7
  <2> HIDE DEF a, b
  <2>3. /\ IdsOf(a) \in Seq(Ids) /\ IdsOf(b) \in Seq(Ids)
        /\ \A x : x \in Range(IdsOf(a)) <=> \E h \in Range(a) : x = h.m
        /\ \A x : x \in Range(IdsOf(b)) <=> \E h \in Range(b) : x = h.m
    BY <1>4, <2>1, IdsAre
  <2>4. Range(IdsOf(b)) \subseteq Ids
    BY <2>3, RangeIs
  <2> QED BY <2>2, <2>3, <2>4 DEF a, b
<1> HIDE DEF read, wanted
<1>9. /\ call.pc = "compose" /\ call.read = read /\ call.wanted = wanted
      /\ call.cursor = me.cursor /\ call.kind = me.kind /\ call.session = me.session
      /\ call.core = me.core /\ call.list = me.list /\ call.delta = me.delta /\ call.cut = me.cut
      /\ call.before = me.before
  BY <1>2 DEF CallRecords
<1>10. call \in CallRecords
  <2>1. Ids \subseteq Nat
    BY SizesAre
  <2>2. read \in Seq(Nat)
    BY <1>8, <2>1, SeqInto
  <2> QED BY <1>2, <1>8, <2>2 DEF CallRecords, Steps
<1> HIDE DEF call
<1>12. PathInv(call)
  BY <1>1, <1>2, <1>8, <1>9 DEF Good, PathInv, Unasked, Done
<1>13. CostInv(call)
  <2>1. me.kind # "reflex" /\ me.core = <<>> /\ call.pc = "compose"
    BY <1>1, <1>2, <1>9 DEF Good, CostInv, Unasked
  <2> QED BY <1>1, <1>9, <2>1 DEF CostInv, Unasked, Done
<1>14. GapInv(call)
  BY <1>9 DEF GapInv, Done
<1>15. InjectInv(call)
  <2>1. me.before \subseteq surfaced[me.session]
    BY <1>1, <1>2 DEF Good, InjectInv
  <2>2. 2 * InjectMax <= IdentityMax => call.wanted \subseteq Range(call.read)
    BY <1>8, <1>9
  <2> QED BY <1>9, <2>1, <2>2 DEF InjectInv, Done
<1>16. Good(call)
  BY <1>12, <1>13, <1>14, <1>15 DEF Good
<1> QED BY <1>1, <1>10, <1>16, BecomesKeeps

\* Composing an injection keeps the invariant.
LEMMA ComposeKeeps ==
  ASSUME ContextInv, NEW c \in Calls, Compose(c)
  PROVE  ContextInv'
<1> DEFINE me == calls[c]
           seen == surfaced[me.session]
           packed == Packed(me.read, seen, TextBudget, InjectMax, Size)
           call == [me EXCEPT !.pc = "mark", !.list = packed.kept, !.cut = packed.cut, !.read = <<>>]
<1>1. Becomes(c, "compose", call) /\ me.pc = "compose"
  BY DEF Compose, SurfacedIn
<1>2. me \in CallRecords /\ Good(me)
  BY <1>1, AtWork
<1>3. TextBudget \in Nat /\ InjectMax \in Nat
  BY BoundsAre
<1>4. me.kind \in Unasked /\ me.read \in Seq(Ids) /\ me.cursor = NoCursor /\ me.core = <<>> /\ me.before \subseteq seen
  <2> HIDE DEF me
  <2>1. me.kind \in Unasked /\ me.read \in Seq(Ids) /\ me.cursor = NoCursor
    BY <1>1, <1>2 DEF Good, PathInv
  <2>2. me.kind # "reflex"
    BY <2>1 DEF Unasked
  <2>3. me.core = <<>>
    BY <1>2, <2>2 DEF Good, CostInv
  <2>4. me.before \subseteq surfaced[me.session]
    BY <1>2, <2>1 DEF Good, InjectInv
  <2> QED BY <2>1, <2>3, <2>4 DEF me
<1> HIDE DEF seen
<1>5. /\ Fits(packed, InjectMax, TextBudget) /\ Range(packed.kept) \cap seen = {}
      /\ packed.cut \/ Range(me.read) \subseteq seen \cup Range(packed.kept)
  BY <1>3, <1>4, PacketFits
<1> HIDE DEF packed, me
<1>6. /\ packed.kept \in Seq(Ids) /\ packed.cut \in BOOLEAN
      /\ Len(packed.kept) <= InjectMax /\ SumOf(packed.kept) <= TextBudget
  BY <1>5 DEF Fits
<1>7. /\ call.pc = "mark" /\ call.list = packed.kept /\ call.cut = packed.cut
      /\ call.cursor = me.cursor /\ call.kind = me.kind /\ call.session = me.session
      /\ call.core = me.core /\ call.delta = me.delta /\ call.read = <<>>
      /\ call.before = me.before /\ call.wanted = me.wanted
  BY <1>2 DEF CallRecords
<1>8. call \in CallRecords
  <2>1. <<>> \in Seq(Nat)
    OBVIOUS
  <2> QED BY <1>2, <1>6, <2>1 DEF CallRecords, Steps
<1> HIDE DEF call
<1>9. PathInv(call)
  BY <1>2, <1>4, <1>7 DEF Good, PathInv, Unasked, Done
<1>10. CostInv(call)
  BY <1>4, <1>6, <1>7 DEF CostInv, Unasked, Done
<1>11. GapInv(call)
  BY <1>4, <1>7 DEF GapInv, Unasked
<1>12. InjectInv(call)
  <2>1. call.before \subseteq surfaced[call.session] /\ Range(call.list) \cap call.before = {}
    BY <1>4, <1>5, <1>7 DEF seen, me
  <2>2. ASSUME 2 * InjectMax <= IdentityMax, ~call.cut
        PROVE  call.wanted \subseteq Range(call.list) \cup surfaced[call.session]
    <3>1. me.wanted \subseteq Range(me.read)
      BY <1>1, <1>2, <1>4, <2>2 DEF Good, InjectInv
    <3>2. Range(me.read) \subseteq seen \cup Range(packed.kept)
      BY <1>5, <1>7, <2>2
    <3>3. seen = surfaced[call.session] /\ call.list = packed.kept /\ call.wanted = me.wanted
      BY <1>7 DEF seen, me
    <3> QED BY <3>1, <3>2, <3>3
  <2> QED BY <1>7, <2>1, <2>2 DEF InjectInv, Done
<1>13. Good(call)
  BY <1>9, <1>10, <1>11, <1>12 DEF Good
<1> QED BY <1>1, <1>8, <1>13, BecomesKeeps

\* A request keeps the invariant.
LEMMA BeginKeeps ==
  ASSUME ContextInv, NEW c \in Calls, Begin(c)
  PROVE  ContextInv'
<1>1. PICK s \in Sessions, kind \in {"reflex", "context", "recents"} \cup Unasked :
        /\ sessions[s].known
        /\ calls' = [calls EXCEPT ![c] =
             [pc |-> IF kind \in Unasked THEN "search" ELSE "head", kind |-> kind, session |-> s,
              cursor |-> NoCursor, list |-> <<>>, core |-> <<>>, delta |-> <<>>, read |-> <<>>,
              cut |-> FALSE, wanted |-> {},
              before |-> IF kind \in Unasked THEN shown[s] ELSE {}]]
        /\ Event /\ UNCHANGED <<store, sessions, surfaced, chain, shown>>
  BY DEF Begin
<1> DEFINE pc == IF kind \in Unasked THEN "search" ELSE "head"
           before == IF kind \in Unasked THEN shown[s] ELSE {}
           call == [pc |-> pc, kind |-> kind, session |-> s,
                    cursor |-> NoCursor, list |-> <<>>, core |-> <<>>, delta |-> <<>>, read |-> <<>>,
                    cut |-> FALSE, wanted |-> {}, before |-> before]
<1>2. calls' = [calls EXCEPT ![c] = call]
  BY <1>1
<1>3. shown[s] \in SUBSET Ids /\ shown[s] = surfaced[s]
  BY DEF ContextInv, Types
<1>4. before \in SUBSET Ids
  BY <1>3
<1>5. pc = IF kind \in Unasked THEN "search" ELSE "head"
  OBVIOUS
<1>6. kind \in Unasked => before = shown[s]
  OBVIOUS
<1> HIDE DEF pc, before
<1>7. /\ call.pc = pc /\ call.kind = kind /\ call.session = s /\ call.cursor = NoCursor
      /\ call.list = <<>> /\ call.core = <<>> /\ call.delta = <<>> /\ call.read = <<>>
      /\ call.cut = FALSE /\ call.wanted = {} /\ call.before = before
  OBVIOUS
<1>8. call \in CallRecords
  <2>1. NoCursor \in Cursors
    BY NothingIs
  <2>2. <<>> \in Seq(Ids) /\ <<>> \in Seq(Nat) /\ FALSE \in BOOLEAN
    OBVIOUS
  <2>3. pc \in Steps /\ kind \in Kinds
    BY <1>5 DEF Steps, Kinds
  <2> QED BY <1>4, <2>1, <2>2, <2>3 DEF CallRecords
<1> HIDE DEF call
<1>9. PathInv(call)
  BY <1>1, <1>4, <1>5, <1>7 DEF PathInv, Unasked, Done
<1>10. CostInv(call)
  <2>1. Len(<<>>) = 0 /\ SumOf(<<>>) = 0
    BY SumOfNone
  <2>2. ItemsMax \in Nat /\ DeltaMax \in Nat /\ ItemBudget \in Nat
    BY BoundsAre
  <2>3. call.pc \in {"search", "head"} /\ call.list = <<>> /\ call.core = <<>> /\ call.delta = <<>>
    BY <1>5, <1>7
  <2> HIDE DEF call
  <2> QED BY <2>1, <2>2, <2>3 DEF CostInv, Done
<1>11. GapInv(call)
  BY <1>5, <1>7 DEF GapInv, Done
<1>12. InjectInv(call)
  BY <1>3, <1>5, <1>6, <1>7 DEF InjectInv, Done
<1>13. Good(call)
  BY <1>9, <1>10, <1>11, <1>12 DEF Good
<1>14. events' \in 0 .. MaxEvents
  <2>1. events \in 0 .. MaxEvents /\ MaxEvents \in Nat
    BY BoundsAre DEF ContextInv, Types
  <2> QED BY <1>1, <2>1 DEF Event
<1> QED BY <1>1, <1>2, <1>8, <1>13, <1>14, CallKeeps

\* Nothing, in its order.
LEMMA NoneInOrder == InOrder({}) = <<>>
<1>1. {} \in SUBSET Nat /\ IsFiniteSet({}) /\ Cardinality({}) = 0
  BY FS_EmptySet
<1>2. InOrder({}) \in Seq({}) /\ Len(InOrder({})) = Cardinality({})
  BY <1>1, InOrderLists
<1> QED BY <1>1, <1>2

\* A chain that starts at a cursor that was signed for its session.
LEMMA ChainStarts ==
  ASSUME continuity \in Seq(Changes), NEW s \in Sessions, NEW cursor \in Cursors, sessions[s].known,
         Signed(s, cursor)
  PROVE  /\ [cursor |-> cursor, from |-> cursor.revision, told |-> <<>>] \in Chains
         /\ <<>> = InOrder(Between(cursor.project, cursor.revision, cursor.revision))
<1>1. cursor.revision \in Nat
  BY DEF Cursors
<1>2. [cursor |-> cursor, from |-> cursor.revision, told |-> <<>>] \in Chains
  <2>1. <<>> \in Seq(Nat)
    OBVIOUS
  <2> QED BY <1>1, <2>1 DEF Chains
<1>3. Between(cursor.project, cursor.revision, cursor.revision) = {}
  <2>1. Len(continuity) \in Nat
    OBVIOUS
  <2>2. \A x \in Between(cursor.project, cursor.revision, cursor.revision) :
          x \in Nat /\ cursor.revision < x /\ x <= cursor.revision
    BY <1>1, BetweenAre
  <2> QED BY <1>1, <2>2
<1> QED BY <1>2, <1>3, NoneInOrder

\* Answering keeps the invariant.
LEMMA MarkKeeps ==
  ASSUME ContextInv, NEW c \in Calls, Mark(c)
  PROVE  ContextInv'
<1> DEFINE me == calls[c]
           s == me.session
           now == Range(me.core \o me.list)
           call == [me EXCEPT !.pc = "answered", !.cursor = me.cursor]
           start == [cursor |-> me.cursor, from |-> me.cursor.revision, told |-> <<>>]
<1>1. /\ me.pc = "mark"
      /\ surfaced' = [surfaced EXCEPT ![s] = @ \cup now] /\ shown' = [shown EXCEPT ![s] = @ \cup now]
      /\ calls' = [calls EXCEPT ![c] = call]
      /\ chain' = IF me.cursor = NoCursor THEN chain ELSE [chain EXCEPT ![s] = start]
      /\ continuity' = continuity /\ alive' = alive /\ gone' = gone /\ sessions' = sessions /\ events' = events
      /\ unwritten' = unwritten /\ lost' = lost
  BY DEF Mark, MarkSurfaced, Issued, store
<1>2. me \in CallRecords /\ Good(me)
  BY <1>1, AtWork
<1>3. /\ continuity \in Seq(Changes) /\ surfaced \in [Sessions -> SUBSET Ids] /\ shown = surfaced
      /\ calls \in [Calls -> {Idle} \cup CallRecords] /\ chain \in [Sessions -> Chains]
  BY DEF ContextInv, Types
<1>4. s \in Sessions /\ me.cursor \in Cursors /\ me.core \in Seq(Ids) /\ me.list \in Seq(Ids)
  <2> HIDE DEF me
  <2> QED BY <1>2 DEF CallRecords
<1>5. now \subseteq Ids
  <2> DEFINE a == me.core
             b == me.list
  <2>1. a \in Seq(Ids) /\ b \in Seq(Ids)
    BY <1>4
  <2> HIDE DEF a, b
  <2>2. a \o b \in Seq(Ids)
    BY <2>1
  <2>3. Range(a \o b) \subseteq Ids
    BY <2>2, RangeIs
  <2> QED BY <2>3 DEF a, b
<1> HIDE DEF now
<1>6. /\ surfaced' \in [Sessions -> SUBSET Ids] /\ shown' = surfaced'
      /\ \A t \in Sessions : surfaced[t] \subseteq surfaced'[t]
  <2> HIDE DEF s
  <2> QED BY <1>1, <1>3, <1>4, <1>5
<1>7. /\ call.pc = "answered" /\ call.cursor = me.cursor /\ call.kind = me.kind /\ call.session = me.session
      /\ call.core = me.core /\ call.list = me.list /\ call.delta = me.delta /\ call.read = me.read
      /\ call.cut = me.cut /\ call.before = me.before /\ call.wanted = me.wanted
  <2> HIDE DEF me
  <2> QED BY <1>2 DEF CallRecords
<1>8. call \in CallRecords
  <2> HIDE DEF me
  <2> QED BY <1>2 DEF CallRecords, Steps
<1>9. me.cursor # NoCursor => /\ sessions[s].known /\ Signed(s, me.cursor) /\ start \in Chains
                              /\ <<>> = InOrder(Between(me.cursor.project, me.cursor.revision, me.cursor.revision))
  <2>1. ASSUME me.cursor # NoCursor PROVE sessions[s].known /\ Signed(s, me.cursor)
    <3> HIDE DEF me
    <3> QED BY <1>2, <2>1 DEF Good, PathInv
  <2> DEFINE cursor == me.cursor
  <2>2. ASSUME me.cursor # NoCursor
        PROVE  start \in Chains /\ <<>> = InOrder(Between(cursor.project, cursor.revision, cursor.revision))
    <3>1. cursor \in Cursors /\ sessions[s].known /\ Signed(s, cursor)
      BY <1>4, <2>1, <2>2
    <3>2. start = [cursor |-> cursor, from |-> cursor.revision, told |-> <<>>]
      OBVIOUS
    <3> HIDE DEF cursor, s, start
    <3> QED BY <1>3, <1>4, <3>1, <3>2, ChainStarts
  <2> QED BY <2>1, <2>2
<1>10. start.cursor = me.cursor /\ start.from = me.cursor.revision /\ start.told = <<>>
  OBVIOUS
<1> HIDE DEF start, call, s
<1>11. chain' \in [Sessions -> Chains]
  BY <1>1, <1>3, <1>4, <1>9
<1>12. Types'
  <2>1. calls' \in [Calls -> {Idle} \cup CallRecords]
    BY <1>1, <1>3, <1>8
  <2> QED BY <1>1, <1>6, <1>11, <2>1 DEF ContextInv, Types
<1>13. ChainInv'
  <2>1. SUFFICES ASSUME NEW t \in Sessions, chain'[t] # Nothing PROVE Sound(t, chain[t])'
    BY DEF ChainInv
  <2>2. CASE me.cursor # NoCursor /\ t = s
    <3>1. PICK link \in Chains : link = start
      BY <1>9, <2>2
    <3>2. chain'[t] = link
      BY <1>1, <1>3, <2>2, <3>1
    <3>3. me.cursor.revision \in Nat /\ link.cursor = me.cursor /\ link.from = me.cursor.revision /\ link.told = <<>>
      BY <1>4, <1>10, <3>1 DEF Cursors
    <3>4. Sound(t, link)
      BY <1>9, <2>2, <3>3 DEF Sound, Signed
    <3>5. Sound(t, link)'
      BY <1>1, <3>4, SoundStays
    <3> QED BY <3>2, <3>5
  <2>3. CASE ~(me.cursor # NoCursor /\ t = s)
    <3>1. PICK link \in Chains : link = chain[t]
      BY <1>3
    <3>2. chain'[t] = link
      BY <1>1, <1>3, <1>4, <2>3, <3>1
    <3>3. Sound(t, link)
      BY <2>1, <3>1, <3>2 DEF ContextInv, ChainInv
    <3>4. Sound(t, link)'
      BY <1>1, <3>3, SoundStays
    <3> QED BY <3>2, <3>4
  <2> QED BY <2>2, <2>3
<1>14. ASSUME NEW d \in CallRecords, Good(d) PROVE Good(d)'
  <2>1. PathInv(d)'
    BY <1>1, <1>14 DEF Good, PathInv, Signed, Accepts, Project
  <2>2. CostInv(d)'
    BY <1>14 DEF Good, CostInv
  <2>3. GapInv(d)'
    BY <1>1, <1>14 DEF Good, GapInv, VisibleTo, Sees
  <2>4. InjectInv(d)'
    <3>1. InjectInv(d)
      BY <1>14 DEF Good
    <3>2. surfaced[d.session] \subseteq surfaced'[d.session]
      BY <1>6, <1>14 DEF CallRecords
    <3> QED BY <3>1, <3>2 DEF InjectInv
  <2> QED BY <2>1, <2>2, <2>3, <2>4 DEF Good
<1>15. Good(call)
  <2> HIDE DEF me
  <2>1. PathInv(call)
    BY <1>1, <1>2, <1>7 DEF Good, PathInv, Unasked, Done
  <2>2. CostInv(call)
    BY <1>1, <1>2, <1>7 DEF Good, CostInv, Unasked, Done
  <2>3. GapInv(call)
    BY <1>1, <1>2, <1>7 DEF Good, GapInv, Done
  <2>4. InjectInv(call)
    BY <1>1, <1>2, <1>7 DEF Good, InjectInv, Done
  <2> QED BY <2>1, <2>2, <2>3, <2>4 DEF Good
<1>16. PICK k \in CallRecords : k = call
  BY <1>8
<1>17. calls' = [calls EXCEPT ![c] = k] /\ Good(k)
  BY <1>1, <1>15, <1>16
<1>18. ASSUME NEW d \in Calls PROVE CallInv(d)'
  <2>1. CASE d = c
    <3>1. Good(k)'
      BY <1>14, <1>17
    <3>2. calls'[d] = k
      BY <1>3, <1>17, <2>1
    <3> QED BY <3>1, <3>2 DEF CallInv
  <2>2. CASE d # c /\ calls[d] # Idle
    <3>1. PICK e \in CallRecords : e = calls[d]
      BY <1>3, <2>2
    <3>2. Good(e)
      BY <2>2, <3>1 DEF ContextInv, CallInv
    <3>3. Good(e)'
      BY <1>14, <3>2
    <3>4. calls'[d] = e
      BY <1>3, <1>17, <2>2, <3>1
    <3> QED BY <3>3, <3>4 DEF CallInv
  <2>3. CASE d # c /\ calls[d] = Idle
    <3>1. calls'[d] = Idle
      BY <1>3, <1>17, <2>3
    <3> QED BY <3>1 DEF CallInv
  <2> QED BY <2>1, <2>2, <2>3
<1> QED BY <1>12, <1>13, <1>18 DEF ContextInv

\* A commit adds to the log, and leaves all that was in it.
LEMMA LogGrows ==
  ASSUME continuity \in Seq(Changes), NEW change \in Changes, continuity' = Append(continuity, change)
  PROVE  /\ continuity' \in Seq(Changes) /\ Len(continuity) \in Nat /\ Len(continuity') = Len(continuity) + 1
         /\ \A project, r : r <= Len(continuity) =>
              (r \in VisibleTo(project)' <=> r \in VisibleTo(project))
         /\ \A r \in 1 .. Len(continuity) : continuity'[r] = continuity[r]
<1> DEFINE H == Len(continuity)
<1>1. /\ continuity' \in Seq(Changes) /\ H \in Nat /\ Len(continuity') = H + 1
      /\ DOMAIN continuity = 1 .. H /\ DOMAIN continuity' = 1 .. H + 1
      /\ \A r \in 1 .. H : continuity'[r] = continuity[r]
  OBVIOUS
<1> HIDE DEF H
<1>2. ASSUME NEW project, NEW r, r <= H
      PROVE  r \in VisibleTo(project)' <=> r \in VisibleTo(project)
  <2>1. r \in 1 .. H + 1 /\ r <= H <=> r \in 1 .. H /\ r <= H
    BY <1>1
  <2>2. r \in 1 .. H + 1 <=> r \in 1 .. H
    BY <1>2, <2>1
  <2>3. CASE r \in 1 .. H
    <3>1. continuity'[r] = continuity[r]
      BY <1>1, <2>3
    <3> QED BY <1>1, <2>2, <2>3, <3>1 DEF VisibleTo, Sees
  <2>4. CASE r \notin 1 .. H
    BY <1>1, <2>2, <2>4 DEF VisibleTo
  <2> QED BY <2>3, <2>4
<1> QED BY <1>1, <1>2 DEF H

\* What was between two revisions stays.
LEMMA BetweenStays ==
  ASSUME continuity \in Seq(Changes), NEW change \in Changes, continuity' = Append(continuity, change),
         NEW project, NEW after, NEW upto \in Nat, upto <= Len(continuity)
  PROVE  Between(project, after, upto)' = Between(project, after, upto)
<1>1. \A x : x \in Between(project, after, upto)' <=> x \in VisibleTo(project)' /\ after < x /\ x <= upto
  BY DEF Between
<1>2. \A x : x \in Between(project, after, upto) <=> x \in VisibleTo(project) /\ after < x /\ x <= upto
  BY DEF Between
<1>3. continuity' \in Seq(Changes) /\ Len(continuity) \in Nat
  BY LogGrows
<1>4. \A x \in VisibleTo(project)' : x \in Nat
  <2>1. DOMAIN continuity' = 1 .. Len(continuity')
    BY <1>3
  <2>2. \A x \in DOMAIN continuity' : x \in Nat
    BY <1>3, <2>1
  <2> QED BY <2>2 DEF VisibleTo
<1>5. \A x \in VisibleTo(project) : x \in Nat
  BY DEF VisibleTo
<1>6. \A x \in Nat : x <= upto => x <= Len(continuity)
  BY <1>3
<1>7. \A x : x <= Len(continuity) => (x \in VisibleTo(project)' <=> x \in VisibleTo(project))
  BY LogGrows
<1> HIDE DEF Between
<1>8. \A x : x \in Between(project, after, upto)' <=> x \in Between(project, after, upto)
  BY <1>1, <1>2, <1>4, <1>5, <1>6, <1>7
<1> QED BY <1>8

\* A handler at work does not notice a commit.
LEMMA CallStays ==
  ASSUME ContextInv, NEW change \in Changes, continuity' = Append(continuity, change),
         UNCHANGED <<sessions, surfaced>>, NEW me \in CallRecords, Good(me)
  PROVE  Good(me)'
<1>1. /\ continuity \in Seq(Changes) /\ Len(continuity) \in Nat /\ Len(continuity') = Len(continuity) + 1
      /\ sessions' = sessions /\ surfaced' = surfaced
  BY LogGrows DEF ContextInv, Types
<1>2. me.cursor.revision \in Nat /\ me.cursor.revision <= Len(continuity)
  <2>1. me.cursor.revision \in Nat
    BY DEF CallRecords, Cursors
  <2>2. CASE me.cursor = NoCursor
    BY <1>1, <2>2, NothingIs
  <2>3. CASE me.cursor # NoCursor
    BY <2>1, <2>3 DEF Good, PathInv, Signed
  <2> QED BY <2>1, <2>2, <2>3
<1>3. me.cursor.revision <= Len(continuity')
  BY <1>1, <1>2
<1>4. PathInv(me)'
  <2>1. me.cursor # NoCursor => Signed(me.session, me.cursor)'
    BY <1>1, <1>3 DEF Good, PathInv, Signed, Accepts, Project
  <2> QED BY <1>1, <2>1 DEF Good, PathInv
<1>5. CostInv(me)'
  BY DEF Good, CostInv
<1>6. GapInv(me)'
  <2>1. SUFFICES ASSUME me.kind = "reflex", me.pc \in Done,
                        NEW r \in VisibleTo(me.cursor.project)', r <= me.cursor.revision
                 PROVE  \/ r \in Range(me.delta)
                        \/ continuity'[r].target \in Range(me.core \o me.list)
                        \/ me.cut
                        \/ Len(me.read) = DeltaRows /\ r < me.read[1]
    BY DEF GapInv
  <2>2. r \in 1 .. Len(continuity')
    BY DEF VisibleTo
  <2>3. r \in 1 .. Len(continuity) /\ r <= Len(continuity)
    BY <1>1, <1>2, <2>1, <2>2
  <2>4. r \in VisibleTo(me.cursor.project) /\ continuity'[r] = continuity[r]
    BY <1>1, <2>3, LogGrows
  <2> QED BY <2>1, <2>4 DEF Good, GapInv
<1>7. InjectInv(me)'
  BY <1>1 DEF Good, InjectInv
<1> QED BY <1>4, <1>5, <1>6, <1>7 DEF Good

\* A commit keeps the invariant.
LEMMA CommitKeeps ==
  ASSUME ContextInv, NEW target \in Ids, NEW rows \in SUBSET Ids, rows \cap gone = {}, Commit(target, rows)
  PROVE  ContextInv'
<1>1. /\ continuity' = Append(continuity, Created(target)) /\ alive' = rows /\ gone' = gone \cup (alive \ rows)
      /\ Event /\ sessions' = sessions /\ surfaced' = surfaced /\ chain' = chain /\ shown' = shown
      /\ calls' = calls /\ unwritten' = unwritten /\ lost' = lost
  BY DEF Commit
<1>2. /\ continuity \in Seq(Changes) /\ alive \in SUBSET Ids /\ gone \in SUBSET Ids
      /\ calls \in [Calls -> {Idle} \cup CallRecords] /\ chain \in [Sessions -> Chains]
  BY DEF ContextInv, Types
<1>3. PICK change \in Changes : change = Created(target)
  BY DEF Created, Changes
<1>4. continuity' = Append(continuity, change)
  BY <1>1, <1>3
<1>5. /\ continuity' \in Seq(Changes) /\ Len(continuity) \in Nat /\ Len(continuity') = Len(continuity) + 1
  BY <1>2, <1>4, LogGrows
<1>6. events' \in 0 .. MaxEvents
  <2>1. events \in 0 .. MaxEvents /\ MaxEvents \in Nat
    BY BoundsAre DEF ContextInv, Types
  <2> QED BY <1>1, <2>1 DEF Event
<1>7. ASSUME NEW c \in Calls PROVE CallInv(c)'
  <2>1. CASE calls[c] = Idle
    BY <1>1, <2>1 DEF CallInv
  <2>2. CASE calls[c] # Idle
    <3>1. PICK me \in CallRecords : me = calls[c]
      BY <1>2, <2>2
    <3>2. Good(me)
      BY <2>2, <3>1 DEF ContextInv, CallInv
    <3>3. Good(me)'
      BY <1>1, <1>4, <3>2, CallStays
    <3>4. calls'[c] = me
      BY <1>1, <3>1
    <3> QED BY <3>3, <3>4 DEF CallInv
  <2> QED BY <2>1, <2>2
<1>8. Types'
  <2>1. alive' \in SUBSET Ids /\ gone' \in SUBSET Ids /\ alive' \cap gone' = {}
    BY <1>1, <1>2
  <2> QED BY <1>1, <1>5, <1>6, <2>1 DEF ContextInv, Types
<1>9. ChainInv'
  <2>1. SUFFICES ASSUME NEW s \in Sessions, chain[s] # Nothing PROVE Sound(s, chain[s])'
    BY <1>1 DEF ChainInv
  <2>2. PICK k \in Chains : k = chain[s]
    BY <1>2
  <2>3. Sound(s, k)
    BY <2>1, <2>2 DEF ContextInv, ChainInv
  <2>4. k.cursor.revision \in Nat /\ k.cursor.revision <= Len(continuity)
    BY <2>3 DEF Chains, Cursors, Sound
  <2>5. Between(k.cursor.project, k.from, k.cursor.revision)' = Between(k.cursor.project, k.from, k.cursor.revision)
    BY <1>2, <1>4, <2>4, BetweenStays
  <2>6. k.cursor.revision <= Len(continuity')
    BY <1>5, <2>4
  <2>7. Accepts(s, k.cursor)' = Accepts(s, k.cursor)
    BY <1>1 DEF Accepts, Project
  <2>8. Sound(s, k)'
    BY <1>1, <2>3, <2>5, <2>6, <2>7 DEF Sound
  <2>9. chain'[s] = k
    BY <1>1, <2>2
  <2> QED BY <2>8, <2>9
<1> QED BY <1>7, <1>8, <1>9 DEF ContextInv

\* Remembering, forgetting, reinforcing and correcting keep the invariant.
LEMMA MutationsKeep ==
  ASSUME ContextInv, Remember \/ Forget \/ Reinforce \/ Correct
  PROVE  ContextInv'
<1>1. alive \in SUBSET Ids /\ gone \in SUBSET Ids /\ alive \cap gone = {}
  BY DEF ContextInv, Types
<1>2. CASE Remember
  <2>1. PICK m \in Ids \ (alive \cup gone) : Commit(m, alive \cup {m})
    BY <1>2 DEF Remember
  <2>2. PICK rows \in SUBSET Ids : rows = alive \cup {m}
    BY <1>1
  <2>3. rows \cap gone = {} /\ Commit(m, rows)
    BY <1>1, <2>1, <2>2
  <2> QED BY <2>3, CommitKeeps
<1>3. CASE Forget
  <2>1. PICK m \in alive : Commit(m, alive \ {m})
    BY <1>3 DEF Forget
  <2>2. PICK rows \in SUBSET Ids : rows = alive \ {m}
    BY <1>1
  <2>3. rows \cap gone = {} /\ Commit(m, rows) /\ m \in Ids
    BY <1>1, <2>1, <2>2
  <2> QED BY <2>3, CommitKeeps
<1>4. CASE Reinforce
  <2>1. PICK m \in alive : Commit(m, alive)
    BY <1>4 DEF Reinforce
  <2>2. PICK rows \in SUBSET Ids : rows = alive
    BY <1>1
  <2>3. rows \cap gone = {} /\ Commit(m, rows) /\ m \in Ids
    BY <1>1, <2>1, <2>2
  <2> QED BY <2>3, CommitKeeps
<1>5. CASE Correct
  <2>1. PICK m \in alive, n \in Ids \ (alive \cup gone) : Commit(n, (alive \ {m}) \cup {n})
    BY <1>5 DEF Correct
  <2>2. PICK rows \in SUBSET Ids : rows = (alive \ {m}) \cup {n}
    BY <1>1
  <2>3. rows \cap gone = {} /\ Commit(n, rows) /\ n \in Ids
    BY <1>1, <2>1, <2>2
  <2> QED BY <2>3, CommitKeeps
<1> QED BY <1>2, <1>3, <1>4, <1>5

\* A message checkpoint keeps the invariant: it gives a project to a session
\* that has none of anything yet, whether or not that is written.
LEMMA CheckpointKeeps ==
  ASSUME ContextInv, Checkpoint
  PROVE  ContextInv'
<1>1. PICK s \in Sessions, project \in Projects :
        /\ sessions' = [sessions EXCEPT ![s] = Upserted(@, project)]
        /\ \/ unwritten' = {} /\ UNCHANGED events
           \/ unwritten' = unwritten \cup {s} /\ Event
        /\ UNCHANGED <<continuity, alive, gone, lost, surfaced, calls, chain, shown>>
  BY DEF Checkpoint
<1>2. /\ continuity' = continuity /\ alive' = alive /\ gone' = gone /\ surfaced' = surfaced
      /\ calls' = calls /\ chain' = chain /\ shown' = shown /\ lost' = lost
  BY <1>1
<1>3. /\ sessions \in [Sessions -> {NoSession} \cup Known] /\ calls \in [Calls -> {Idle} \cup CallRecords]
      /\ unwritten \subseteq Sessions /\ events \in 0 .. MaxEvents /\ MaxEvents \in Nat
  BY BoundsAre DEF ContextInv, Types
<1>4. sessions' = [sessions EXCEPT ![s] = IF sessions[s].known THEN sessions[s] ELSE InProject(project)]
  BY <1>1, <1>3 DEF Upserted
<1>5. sessions' \in [Sessions -> {NoSession} \cup Known]
  BY <1>3, <1>4, NothingIs
<1>6. unwritten' \subseteq Sessions /\ events' \in 0 .. MaxEvents
  BY <1>1, <1>3 DEF Event
<1>7. \A t \in Sessions : sessions[t].known => sessions'[t] = sessions[t]
  BY <1>3, <1>4
<1>8. Types'
  BY <1>2, <1>5, <1>6 DEF ContextInv, Types
<1>9. ChainInv'
  BY <1>2, <1>7, ChainsStay
<1>10. ASSUME NEW me \in CallRecords, Good(me) PROVE Good(me)'
  <2>1. sessions'[me.session] = sessions[me.session]
    BY <1>7, <1>10 DEF Good, PathInv, CallRecords
  <2>2. PathInv(me)'
    BY <1>2, <1>10, <2>1 DEF Good, PathInv, Signed, Accepts, Project
  <2>3. CostInv(me)'
    BY <1>10 DEF Good, CostInv
  <2>4. GapInv(me)'
    BY <1>2, <1>10 DEF Good, GapInv, VisibleTo, Sees
  <2>5. InjectInv(me)'
    BY <1>2, <1>10 DEF Good, InjectInv
  <2> QED BY <2>2, <2>3, <2>4, <2>5 DEF Good
<1>11. ASSUME NEW c \in Calls PROVE CallInv(c)'
  <2>1. CASE calls[c] = Idle
    BY <1>2, <2>1 DEF CallInv
  <2>2. CASE calls[c] # Idle
    <3>1. PICK me \in CallRecords : me = calls[c]
      BY <1>3, <2>2
    <3>2. Good(me)
      BY <2>2, <3>1 DEF ContextInv, CallInv
    <3>3. Good(me)'
      BY <1>10, <3>2
    <3>4. calls'[c] = me
      BY <1>2, <3>1
    <3> QED BY <3>3, <3>4 DEF CallInv
  <2> QED BY <2>1, <2>2
<1> QED BY <1>8, <1>9, <1>11 DEF ContextInv

\* A diff keeps the invariant if it leaves a sound chain.
LEMMA ChainKeeps ==
  ASSUME ContextInv, NEW s \in Sessions, NEW link \in Chains, Sound(s, link),
         chain' = [chain EXCEPT ![s] = link], Event, UNCHANGED <<store, sessions, surfaced, calls, shown>>
  PROVE  ContextInv'
<1>1. /\ continuity' = continuity /\ alive' = alive /\ gone' = gone /\ sessions' = sessions
      /\ surfaced' = surfaced /\ calls' = calls /\ shown' = shown /\ unwritten' = unwritten /\ lost' = lost
  BY DEF store
<1>2. chain \in [Sessions -> Chains]
  BY DEF ContextInv, Types
<1>3. Types'
  <2>1. chain' \in [Sessions -> Chains]
    BY <1>2
  <2>2. events' \in 0 .. MaxEvents
    <3>1. events \in 0 .. MaxEvents /\ MaxEvents \in Nat
      BY BoundsAre DEF ContextInv, Types
    <3> QED BY <3>1 DEF Event
  <2> QED BY <1>1, <2>1, <2>2 DEF ContextInv, Types
<1>4. ChainInv'
  <2>1. SUFFICES ASSUME NEW t \in Sessions, chain'[t] # Nothing PROVE Sound(t, chain[t])'
    BY DEF ChainInv
  <2>2. PICK k \in Chains : k = chain'[t]
    BY <1>2
  <2>3. Sound(t, k)
    <3>1. CASE t = s
      BY <1>2, <2>2, <3>1
    <3>2. CASE t # s
      <4>1. chain'[t] = chain[t]
        BY <1>2, <3>2
      <4> QED BY <2>1, <2>2, <4>1 DEF ContextInv, ChainInv
    <3> QED BY <3>1, <3>2
  <2>4. Sound(t, k)'
    BY <1>1, <2>3, SoundStays
  <2> QED BY <2>2, <2>4
<1>5. \A me : Good(me)' = Good(me)
  <2>1. TAKE me
  <2>2. PathInv(me)' = PathInv(me)
    BY <1>1 DEF PathInv, Signed, Accepts, Project
  <2>3. CostInv(me)' = CostInv(me)
    BY DEF CostInv
  <2>4. GapInv(me)' = GapInv(me)
    BY <1>1 DEF GapInv, VisibleTo, Sees
  <2>5. InjectInv(me)' = InjectInv(me)
    BY <1>1 DEF InjectInv
  <2> QED BY <2>2, <2>3, <2>4, <2>5 DEF Good
<1>6. ASSUME NEW c \in Calls PROVE CallInv(c)'
  BY <1>1, <1>5 DEF ContextInv, CallInv
<1> QED BY <1>3, <1>4, <1>6 DEF ContextInv

\* A diff without a cursor keeps the invariant.
LEMMA DiffRecentKeeps ==
  ASSUME ContextInv, DiffRecent
  PROVE  ContextInv'
<1>1. PICK s \in Sessions, limit \in DiffLimits :
        LET changes == ContinuityChanges(0, Project(s), limit, TRUE)
            next == Highest(0, changes)
        IN  /\ sessions[s].known
            /\ chain' = [chain EXCEPT ![s] = [cursor |-> Cursor(2, s, next), from |-> next, told |-> <<>>]]
            /\ Event /\ UNCHANGED <<store, sessions, surfaced, calls, shown>>
  BY DEF DiffRecent
<1> DEFINE H == Len(continuity)
           changes == ContinuityChanges(0, Project(s), limit, TRUE)
           next == Highest(0, changes)
           cursor == Cursor(2, s, next)
           link == [cursor |-> cursor, from |-> next, told |-> <<>>]
<1>2. continuity \in Seq(Changes) /\ sessions \in [Sessions -> {NoSession} \cup Known] /\ H \in Nat
  BY DEF ContextInv, Types
<1>3. limit \in Nat /\ 0 \in Nat /\ TRUE \in BOOLEAN
  BY BoundsAre
<1>4. changes \in Seq(0 .. H)
  BY <1>2, <1>3, ChangesAre
<1>5. chain' = [chain EXCEPT ![s] = link] /\ sessions[s].known /\ Event /\ UNCHANGED <<store, sessions, surfaced, calls, shown>>
  BY <1>1
<1> HIDE DEF changes
<1>6. next \in 0 .. H
  <2>1. 0 \in 0 .. H
    BY <1>2
  <2> QED BY <1>2, <1>4, <2>1, HighestIs
<1> HIDE DEF next
<1>7. next \in Nat /\ next <= H
  BY <1>2, <1>6
<1>8. cursor \in Cursors /\ Accepts(s, cursor) /\ cursor.revision = next
  BY <1>2, <1>7, CursorIs
<1> HIDE DEF cursor
<1>9. Signed(s, cursor)
  BY <1>7, <1>8 DEF Signed
<1>10. /\ [cursor |-> cursor, from |-> cursor.revision, told |-> <<>>] \in Chains
       /\ <<>> = InOrder(Between(cursor.project, cursor.revision, cursor.revision))
  BY <1>2, <1>5, <1>8, <1>9, ChainStarts
<1>11. link \in Chains /\ link.cursor = cursor /\ link.from = cursor.revision /\ link.told = <<>>
  BY <1>8, <1>10
<1> HIDE DEF link
<1>12. /\ link.from <= link.cursor.revision
       /\ link.told = InOrder(Between(link.cursor.project, link.from, link.cursor.revision))
  <2>1. cursor.revision <= cursor.revision
    BY <1>7, <1>8
  <2> QED BY <1>10, <1>11, <2>1
<1>13. Sound(s, link)
  BY <1>5, <1>9, <1>11, <1>12 DEF Sound, Signed
<1> QED BY <1>5, <1>11, <1>13, ChainKeeps

\* A diff that follows a cursor keeps the invariant, whoever comes with it.
LEMMA DiffKeeps ==
  ASSUME ContextInv, Diff
  PROVE  ContextInv'
<1>1. PICK s \in Sessions, t \in Sessions, limit \in DiffLimits :
        /\ sessions[s].known /\ chain[t] # Nothing /\ Accepts(s, chain[t].cursor)
        /\ LET after == chain[t].cursor.revision
               changes == ContinuityChanges(after, Project(s), limit, FALSE)
           IN  chain' = [chain EXCEPT ![s] =
                           [chain[t] EXCEPT !.cursor = Cursor(2, s, Highest(after, changes)),
                                            !.told = @ \o changes]]
        /\ Event /\ UNCHANGED <<store, sessions, surfaced, calls, shown>>
  BY DEF Diff
<1> DEFINE H == Len(continuity)
<1>2. /\ continuity \in Seq(Changes) /\ sessions \in [Sessions -> {NoSession} \cup Known] /\ H \in Nat
      /\ chain \in [Sessions -> Chains]
  BY DEF ContextInv, Types
<1>3. PICK k \in Chains : k = chain[t]
  BY <1>2
<1>4. PICK p : p = Project(s)
  OBVIOUS
<1>5. PICK after \in Nat : after = k.cursor.revision
  BY DEF Chains, Cursors
<1>6. /\ after <= H /\ k.from <= after /\ k.from \in Nat
      /\ k.told = InOrder(Between(k.cursor.project, k.from, after))
  BY <1>1, <1>3, <1>5 DEF ContextInv, ChainInv, Sound, Chains
<1>7. k.cursor.project = p
  BY <1>1, <1>3, <1>4 DEF Accepts
<1> DEFINE changes == ContinuityChanges(after, p, limit, FALSE)
           upto == Highest(after, changes)
           cursor == Cursor(2, s, upto)
           link == [k EXCEPT !.cursor = cursor, !.told = k.told \o changes]
<1>8. /\ chain' = [chain EXCEPT ![s] = link] /\ sessions[s].known /\ Event
      /\ UNCHANGED <<store, sessions, surfaced, calls, shown>>
  BY <1>1, <1>3, <1>4, <1>5
<1>9. limit \in Nat \ {0} /\ limit \in Nat
  BY BoundsAre
<1>10. changes \in Seq(0 .. H)
  BY <1>2, <1>9, ChangesAre
<1>11. /\ after <= upto /\ upto <= H /\ upto \in Nat
       /\ InOrder(Between(p, k.from, after)) \o changes = InOrder(Between(p, k.from, upto))
  <2>1. PICK from \in Nat : from = k.from /\ from <= after /\ after <= Len(continuity)
    BY <1>6
  <2>2. Follows(p, from, after, limit)
    BY <1>2, <1>9, <2>1, Continues
  <2> QED BY <2>1, <2>2 DEF Follows
<1>12. changes \in Seq(Nat)
  <2>1. 0 .. H \subseteq Nat
    BY <1>2
  <2> QED BY <1>10, <2>1, SeqInto
<1> HIDE DEF changes, upto
<1>13. cursor \in Cursors /\ Accepts(s, cursor) /\ cursor.revision = upto /\ cursor.project = p
  BY <1>2, <1>4, <1>11, CursorIs
<1> HIDE DEF cursor
<1>14. k.told \o changes \in Seq(Nat)
  <2>1. k.told \in Seq(Nat)
    BY DEF Chains
  <2> QED BY <1>12, <2>1
<1>15. link.cursor = cursor /\ link.from = k.from /\ link.told = k.told \o changes
  BY DEF Chains
<1>16. link \in Chains
  BY <1>13, <1>14 DEF Chains
<1> HIDE DEF link
<1>17. link.from <= link.cursor.revision /\ link.cursor.revision <= H
  BY <1>6, <1>11, <1>13, <1>15
<1>18. link.told = InOrder(Between(link.cursor.project, link.from, link.cursor.revision))
  BY <1>6, <1>7, <1>11, <1>13, <1>15
<1>19. Sound(s, link)
  BY <1>8, <1>13, <1>15, <1>17, <1>18 DEF Sound
<1> QED BY <1>8, <1>16, <1>19, ChainKeeps

\* A restart keeps the invariant: of a session that it does not find, no more
\* is asked than that its chain of diffs has no gap.
LEMMA RestartKeeps ==
  ASSUME ContextInv, Restart
  PROVE  ContextInv'
<1>1. PICK forgotten \in {{}, unwritten} :
        /\ sessions' = [s \in Sessions |-> IF s \in forgotten THEN NoSession ELSE sessions[s]]
        /\ chain' = [s \in Sessions |-> IF s \in forgotten /\ chain[s].cursor.version = 1 THEN Nothing
                                        ELSE chain[s]]
        /\ lost' = lost \cup forgotten /\ unwritten' = {}
        /\ surfaced' = [s \in Sessions |-> {}] /\ shown' = [s \in Sessions |-> {}]
        /\ calls' = [c \in Calls |-> Idle]
        /\ continuity' = continuity /\ alive' = alive /\ gone' = gone /\ events' = events
  BY DEF Restart
<1>2. /\ sessions \in [Sessions -> {NoSession} \cup Known] /\ chain \in [Sessions -> Chains]
      /\ forgotten \subseteq Sessions /\ lost \subseteq Sessions
  BY <1>1 DEF ContextInv, Types
<1>3. Types'
  <2>1. sessions' \in [Sessions -> {NoSession} \cup Known] /\ lost' \subseteq Sessions
    BY <1>1, <1>2
  <2>2. chain' \in [Sessions -> Chains]
    BY <1>1, <1>2, NothingIs
  <2> QED BY <1>1, <2>1, <2>2 DEF ContextInv, Types
<1>4. ChainInv'
  <2>1. SUFFICES ASSUME NEW s \in Sessions, chain'[s] # Nothing PROVE Sound(s, chain[s])'
    BY DEF ChainInv
  <2>2. PICK k \in Chains : k = chain[s]
    BY <1>2
  <2>3. chain'[s] = k
    BY <1>1, <2>1, <2>2
  <2>4. Sound(s, k)
    BY <2>1, <2>2, <2>3 DEF ContextInv, ChainInv
  <2>5. Between(k.cursor.project, k.from, k.cursor.revision)' = Between(k.cursor.project, k.from, k.cursor.revision)
    BY <1>1 DEF Between, VisibleTo, Sees
  <2>6. ASSUME s \notin lost' PROVE sessions'[s].known /\ Accepts(s, k.cursor)'
    <3>1. s \notin lost /\ sessions'[s] = sessions[s]
      BY <1>1, <2>6
    <3>2. sessions[s].known /\ Accepts(s, k.cursor)
      BY <2>4, <3>1 DEF Sound
    <3> QED BY <3>1, <3>2 DEF Accepts, Project
  <2>7. Sound(s, k)'
    BY <1>1, <2>4, <2>5, <2>6 DEF Sound
  <2> QED BY <2>3, <2>7
<1>5. \A c \in Calls : CallInv(c)'
  BY <1>1 DEF CallInv
<1> QED BY <1>3, <1>4, <1>5 DEF ContextInv

\* A start has the invariant.
LEMMA StartsWell ==
  ASSUME Init
  PROVE  ContextInv
<1> DEFINE n == Cardinality(Born)
<1>1. /\ continuity = [i \in 1 .. n |-> Created(InOrder(Born)[i])] /\ alive = Born /\ gone = {}
      /\ sessions \in [Sessions -> {NoSession} \cup Known] /\ surfaced = [s \in Sessions |-> {}]
      /\ calls = [c \in Calls |-> Idle]
      /\ chain = [s \in Sessions |-> IF sessions[s].known
                                     THEN [cursor |-> Cursor(2, s, 0), from |-> 0, told |-> <<>>] ELSE Nothing]
      /\ shown = [s \in Sessions |-> {}] /\ events = 0 /\ unwritten = {} /\ lost = {}
  BY DEF Init, Known
<1>2. Born \in SUBSET Ids /\ MaxEvents \in Nat
  BY BoundsAre
<1>3. Born \in SUBSET Nat /\ IsFiniteSet(Born)
  <2>1. Ids = 1 .. Len(Facts) /\ Len(Facts) \in Nat
    BY SizesAre
  <2>2. IsFiniteSet(Ids) /\ Ids \subseteq Nat
    BY <2>1, FS_Interval
  <2> QED BY <1>2, <2>2, FS_Subset
<1>4. continuity \in Seq(Changes)
  <2>1. n \in Nat /\ \A i \in 1 .. n : InOrder(Born)[i] \in Born
    BY <1>3, InOrderLists
  <2>2. \A m \in Ids : Created(m) \in Changes
    BY DEF Created, Changes
  <2>3. \A i \in 1 .. n : Created(InOrder(Born)[i]) \in Changes
    BY <1>2, <2>1, <2>2
  <2> HIDE DEF n
  <2>4. continuity \in [1 .. n -> Changes]
    BY <1>1, <2>3
  <2> QED BY <2>1, <2>4
<1>5. ASSUME NEW s \in Sessions
      PROVE  chain[s] \in Chains /\ (chain[s] # Nothing => Sound(s, chain[s]))
  <2>1. CASE ~sessions[s].known
    BY <1>1, <2>1, NothingIs
  <2>2. CASE sessions[s].known
    <3> DEFINE cursor == Cursor(2, s, 0)
    <3>1. cursor \in Cursors /\ Accepts(s, cursor) /\ cursor.revision = 0
      BY <1>1, CursorIs
    <3>2. chain[s] = [cursor |-> cursor, from |-> 0, told |-> <<>>]
      BY <1>1, <2>2
    <3> HIDE DEF cursor
    <3>3. Signed(s, cursor)
      <4>1. 0 <= Len(continuity)
        BY <1>4
      <4> QED BY <3>1, <4>1 DEF Signed
    <3>4. /\ [cursor |-> cursor, from |-> cursor.revision, told |-> <<>>] \in Chains
          /\ <<>> = InOrder(Between(cursor.project, cursor.revision, cursor.revision))
      BY <1>4, <2>2, <3>1, <3>3, ChainStarts
    <3>5. chain[s].cursor = cursor /\ chain[s].from = 0 /\ chain[s].told = <<>> /\ chain[s] \in Chains
      BY <3>1, <3>2, <3>4
    <3>6. 0 <= 0 /\ chain[s].from <= chain[s].cursor.revision
      BY <3>1, <3>5
    <3> QED BY <2>2, <3>1, <3>3, <3>4, <3>5, <3>6 DEF Sound, Signed
  <2> QED BY <2>1, <2>2
<1>6. Types
  <2>1. chain \in [Sessions -> Chains]
    BY <1>1, <1>5
  <2>2. surfaced \in [Sessions -> SUBSET Ids] /\ shown = surfaced /\ calls \in [Calls -> {Idle} \cup CallRecords]
    BY <1>1
  <2>3. events \in 0 .. MaxEvents
    BY <1>1, <1>2
  <2> QED BY <1>1, <1>2, <1>4, <2>1, <2>2, <2>3 DEF Types
<1>7. ChainInv
  BY <1>5 DEF ChainInv
<1>8. \A c \in Calls : CallInv(c)
  BY <1>1 DEF CallInv
<1> QED BY <1>6, <1>7, <1>8 DEF ContextInv

\* A step that changes nothing keeps the invariant.
LEMMA StutterKeeps ==
  ASSUME ContextInv, UNCHANGED vars
  PROVE  ContextInv'
<1>1. /\ continuity' = continuity /\ alive' = alive /\ gone' = gone /\ sessions' = sessions
      /\ surfaced' = surfaced /\ calls' = calls /\ chain' = chain /\ shown' = shown /\ events' = events
      /\ unwritten' = unwritten /\ lost' = lost
  BY DEF vars
<1>2. Types'
  BY <1>1 DEF ContextInv, Types
<1>3. ChainInv'
  BY <1>1, ChainsStay
<1>4. \A me : Good(me)' = Good(me)
  <2>1. TAKE me
  <2>2. PathInv(me)' = PathInv(me)
    BY <1>1 DEF PathInv, Signed, Accepts, Project
  <2>3. CostInv(me)' = CostInv(me)
    BY DEF CostInv
  <2>4. GapInv(me)' = GapInv(me)
    BY <1>1 DEF GapInv, VisibleTo, Sees
  <2>5. InjectInv(me)' = InjectInv(me)
    BY <1>1 DEF InjectInv
  <2> QED BY <2>2, <2>3, <2>4, <2>5 DEF Good
<1>5. ASSUME NEW c \in Calls PROVE CallInv(c)'
  BY <1>1, <1>4 DEF ContextInv, CallInv
<1> QED BY <1>2, <1>3, <1>5 DEF ContextInv

\* Every step keeps the invariant.
LEMMA StepKeeps ==
  ASSUME ContextInv, [Next]_vars
  PROVE  ContextInv'
<1>1. CASE Checkpoint
  BY <1>1, CheckpointKeeps
<1>2. CASE Remember \/ Forget \/ Reinforce \/ Correct
  BY <1>2, MutationsKeep
<1>3. ASSUME NEW c \in Calls, Serve(c) PROVE ContextInv'
  <2>1. CASE Begin(c)
    BY <2>1, BeginKeeps
  <2>2. CASE ReadHead(c)
    BY <2>2, ReadHeadKeeps
  <2>3. CASE ReadGlobal(c)
    BY <2>3, ReadGlobalKeeps
  <2>4. CASE ReadImportant(c)
    BY <2>4, ReadImportantKeeps
  <2>5. CASE ReadDelta(c)
    BY <2>5, ReadDeltaKeeps
  <2>6. CASE ReadContext(c)
    BY <2>6, ReadContextKeeps
  <2>7. CASE ReadProject(c)
    BY <2>7, ReadProjectKeeps
  <2>8. CASE ReadRecent(c)
    BY <2>8, ReadRecentKeeps
  <2>9. CASE Relevance(c)
    BY <2>9, RelevanceKeeps
  <2>10. CASE Compose(c)
    BY <2>10, ComposeKeeps
  <2>11. CASE Mark(c)
    BY <2>11, MarkKeeps
  <2> QED BY <1>3, <2>1, <2>2, <2>3, <2>4, <2>5, <2>6, <2>7, <2>8, <2>9, <2>10, <2>11 DEF Serve
<1>4. CASE DiffRecent
  BY <1>4, DiffRecentKeeps
<1>5. CASE Diff
  BY <1>5, DiffKeeps
<1>6. CASE Restart
  BY <1>6, RestartKeeps
<1>7. CASE UNCHANGED vars
  BY <1>7, StutterKeeps
<1> QED BY <1>1, <1>2, <1>3, <1>4, <1>5, <1>6, <1>7 DEF Next

\* Whatever requests, commits, diffs and restarts there were, the invariant holds.
THEOREM ContextInvariant == Spec => []ContextInv
<1>1. Init => ContextInv
  BY StartsWell
<1>2. ContextInv /\ [Next]_vars => ContextInv'
  BY StepKeeps
<1> QED BY <1>1, <1>2, PTL DEF Spec

-----------------------------------------------------------------------------
(***************************************************************************)
(* What sessions can rely on.                                              *)
(***************************************************************************)

\* The state that handlers, sessions and cursors leave has its types, and
\* every answer of composeReflex, contextPacket and relevance keeps the
\* limits on its items and on its text, for all limits.
THEOREM ContextTypes == Spec => []TypeOK
<1>1. ContextInv => TypeOK
  <2>1. SUFFICES ASSUME ContextInv PROVE TypeOK
    OBVIOUS
  <2>2. /\ continuity \in Seq(Changes) /\ alive \in SUBSET Ids /\ gone \in SUBSET Ids /\ alive \cap gone = {}
        /\ sessions \in [Sessions -> {NoSession} \cup Known] /\ surfaced \in [Sessions -> SUBSET Ids]
        /\ events \in 0 .. MaxEvents /\ calls \in [Calls -> {Idle} \cup CallRecords]
        /\ unwritten \subseteq Sessions /\ lost \subseteq Sessions
    BY <2>1 DEF ContextInv, Types
  <2>3. \A r \in DOMAIN continuity : continuity[r] \in [target : Ids, project : {Facts[m].project : m \in Ids}]
    <3>1. \A r \in DOMAIN continuity : continuity[r] \in Changes
      <4> HIDE DEF Changes
      <4> QED BY <2>2
    <3> QED BY <3>1 DEF Changes
  <2>4. \A s \in Sessions : surfaced[s] \subseteq Ids /\ sessions[s].known \in BOOLEAN
    <3>1. SUFFICES ASSUME NEW s \in Sessions PROVE sessions[s].known \in BOOLEAN
      BY <2>2
    <3>2. 1 \in {1, 2} /\ 0 \in Nat
      OBVIOUS
    <3> QED BY <2>2, <3>2, CursorIs
  <2>5. ASSUME NEW c \in Answered
        PROVE  LET me == calls[c] IN
               CASE me.kind = "reflex" ->
                      /\ Len(me.core) <= ItemsMax /\ Len(me.list) <= ItemsMax /\ Len(me.delta) <= DeltaMax
                      /\ SumOf(me.core) <= ItemBudget /\ SumOf(me.list) <= ItemBudget
                 [] me.kind \in {"context", "recents"} -> Len(me.list) <= 3 * PacketMax /\ SumOf(me.list) <= TextBudget
                 [] OTHER -> Len(me.list) <= InjectMax /\ SumOf(me.list) <= TextBudget
    <3>1. c \in Calls /\ calls[c].pc = "answered"
      BY DEF Answered
    <3>2. PICK me \in CallRecords : me = calls[c] /\ me.pc = "answered" /\ CostInv(me)
      BY <2>1, <3>1, AtWork DEF Good
    <3>3. me.kind \in {"reflex", "context", "recents"} \cup Unasked
      BY DEF CallRecords, Kinds
    <3>4. CASE me.kind = "reflex"
      BY <3>2, <3>4 DEF CostInv
    <3>5. CASE me.kind \in {"context", "recents"}
      BY <3>2, <3>5 DEF CostInv, Done
    <3>6. CASE me.kind \in Unasked
      <4>1. me.kind # "reflex" /\ me.kind \notin {"context", "recents"}
        BY <3>6 DEF Unasked
      <4> QED BY <3>2, <3>6, <4>1 DEF CostInv, Done
    <3> QED BY <3>3, <3>4, <3>5, <3>6
  <2> QED BY <2>2, <2>3, <2>4, <2>5 DEF TypeOK
<1> QED BY <1>1, ContextInvariant, PTL

\* Whoever follows a cursor through ContinuityChanges is told every change
\* its project may see, once and in order, and nothing else, whatever
\* sessions, limits, commits and restarts lie between two of its diffs.
THEOREM ToldInOrder == Spec => []ToldOnceInOrder
<1>1. ContextInv => ToldOnceInOrder
  BY DEF ContextInv, ChainInv, Sound, ToldOnceInOrder
<1> QED BY <1>1, ContextInvariant, PTL

\* The cursor that a session was last given is accepted from it, if no start
\* failed to find the session: no checkpoint moves a session that has a cursor
\* to another project.
THEOREM CursorsAccepted == Spec => []CursorStaysGood
<1>1. ContextInv => CursorStaysGood
  BY DEF ContextInv, ChainInv, Sound, CursorStaysGood
<1> QED BY <1>1, ContextInvariant, PTL

\* A wake-up packet and the diffs that follow its cursor leave no gap: the
\* packet signs the head it read before it reads anything else, and admits
\* what its budgets cut.
THEOREM NoGap == Spec => []WakeUpLeavesNoGap
<1>1. ContextInv => WakeUpLeavesNoGap
  <2>1. SUFFICES ASSUME ContextInv, NEW c \in Answered, calls[c].kind = "reflex"
                 PROVE  LET me == calls[c] IN
                        \A r \in VisibleTo(me.cursor.project) : r <= me.cursor.revision =>
                          \/ r \in Range(me.delta)
                          \/ continuity[r].target \in Range(me.core \o me.list)
                          \/ me.cut
                          \/ Len(me.read) = DeltaRows /\ r < me.read[1]
    BY DEF WakeUpLeavesNoGap
  <2>2. c \in Calls /\ calls[c].pc = "answered"
    BY DEF Answered
  <2>3. GapInv(calls[c])
    BY <2>1, <2>2, AtWork DEF Good
  <2> QED BY <2>1, <2>2, <2>3 DEF GapInv, Done
<1> QED BY <1>1, ContextInvariant, PTL

\* What an answer showed a session before a relevance request was made is
\* not injected by that request, whatever else the session asks for: the
\* surfaced set only grows between two starts.
THEOREM NothingTwice == Spec => []NotShownAgain
<1>1. ContextInv => NotShownAgain
  <2>1. SUFFICES ASSUME ContextInv, NEW c \in Answered, calls[c].kind \in Unasked
                 PROVE  Range(calls[c].list) \cap calls[c].before = {}
    BY DEF NotShownAgain
  <2>2. c \in Calls /\ calls[c].pc = "answered"
    BY DEF Answered
  <2>3. InjectInv(calls[c])
    BY <2>1, <2>2, AtWork DEF Good
  <2> QED BY <2>1, <2>2, <2>3 DEF InjectInv, Done
<1> QED BY <1>1, ContextInvariant, PTL

\* What the search of a relevance request recalled within the reach of the
\* request is injected, unless the session was shown it or the answer says that
\* it is truncated, whatever the search missed and however it ranked the rest.
\* A request for so many memories that twice the number exceeds the quota of
\* identity hits may leave out some of those.
THEOREM InjectedIfNew ==
  ASSUME 2 * InjectMax <= IdentityMax
  PROVE  Spec => []NewIsInjected
<1>1. ContextInv => NewIsInjected
  <2>1. SUFFICES ASSUME ContextInv, NEW c \in Answered, calls[c].kind \in Unasked, ~calls[c].cut
                 PROVE  calls[c].wanted \subseteq Range(calls[c].list) \cup shown[calls[c].session]
    BY DEF NewIsInjected
  <2>2. c \in Calls /\ calls[c].pc = "answered"
    BY DEF Answered
  <2>3. InjectInv(calls[c])
    BY <2>1, <2>2, AtWork DEF Good
  <2>4. shown = surfaced
    BY <2>1 DEF ContextInv, Types
  <2> QED BY <2>1, <2>2, <2>3, <2>4 DEF InjectInv, Done
<1> QED BY <1>1, ContextInvariant, PTL
=============================================================================
