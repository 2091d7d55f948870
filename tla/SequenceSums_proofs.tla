------------------------- MODULE SequenceSums_proofs -------------------------
(***************************************************************************)
(* What SumSeq computes for every sequence of natural numbers, and what    *)
(* FlattenSeq makes of a sequence of parts.  The proofs by induction use   *)
(* the least-element principle, stated over sets, instead of an induction  *)
(* theorem over predicates.                                                *)
(***************************************************************************)
EXTENDS SequenceSums, SequencesExt, SequenceTheorems, WellFoundedInduction, TLAPS

NatLess == {ss \in Nat \X Nat : ss[1] < ss[2]}

LEMMA NatLessWellFounded == IsWellFoundedOn(NatLess, Nat)
<1>1. OpToRel(<, Nat) = NatLess
  BY Zenon DEF OpToRel, NatLess
<1> QED
  BY Zenon, <1>1, NatLessThanWellFounded

\* Every nonempty set of natural numbers has a least element.
LEMMA LeastElement ==
  ASSUME NEW T \in SUBSET Nat, T # {}
  PROVE  \E x \in T : \A y \in T : x <= y
<1>1. PICK x \in T : \A y \in T : <<y, x>> \notin NatLess
  BY NatLessWellFounded, WFMin
<1>2. ASSUME NEW y \in T, y < x  PROVE FALSE
  <2>1. <<y, x>> \in Nat \X Nat /\ <<y, x>>[1] = y /\ <<y, x>>[2] = x
    OBVIOUS
  <2>2. <<y, x>> \in NatLess
    BY <2>1, <1>2, Zenon DEF NatLess
  <2> QED
    BY <2>2, <1>1
<1> QED
  BY <1>2

\* Induction over the naturals for a set.
LEMMA SetInduction ==
  ASSUME NEW S, 0 \in S, \A n \in Nat : n \in S => n + 1 \in S
  PROVE  Nat \subseteq S
<1> DEFINE T == Nat \ S
<1>1. SUFFICES ASSUME T # {} PROVE FALSE
  OBVIOUS
<1>2. PICK x \in T : \A y \in T : x <= y
  BY <1>1, LeastElement
<1>3. x # 0 /\ x - 1 \in Nat /\ x - 1 \notin T
  BY <1>2
<1> QED
  BY <1>2, <1>3

\* A recursion over 0 .. n has a solution.  Its step is a function, not an
\* operator, so that the lemma can be cited.
Steps(n, D) == [1 .. n -> [D -> D]]

IsRecursion(run, n, D, init, step) ==
  /\ run \in [0 .. n -> D]
  /\ run[0] = init
  /\ \A i \in 1 .. n : run[i] = step[i][run[i - 1]]

LEMMA RecursionExists ==
  ASSUME NEW D, NEW init \in D, NEW n \in Nat, NEW step \in Steps(n, D)
  PROVE  \E run : IsRecursion(run, n, D, init, step)
<1> DEFINE Good(k) == \E run \in [0 .. k -> D] :
                        /\ run[0] = init
                        /\ \A i \in 1 .. k : run[i] = step[i][run[i - 1]]
           S == {k \in Nat : k <= n => Good(k)}
<1>1. Good(0)
  <2> DEFINE g == [i \in 0 .. 0 |-> init]
  <2>1. g \in [0 .. 0 -> D] /\ g[0] = init
    OBVIOUS
  <2>2. \A i \in 1 .. 0 : g[i] = step[i][g[i - 1]]
    OBVIOUS
  <2> HIDE DEF g
  <2> QED
    BY <2>1, <2>2
<1>2. ASSUME NEW k \in Nat, k + 1 <= n, Good(k)  PROVE Good(k + 1)
  <2>1. PICK f \in [0 .. k -> D] :
              f[0] = init /\ \A i \in 1 .. k : f[i] = step[i][f[i - 1]]
    BY <1>2
  <2>2. PICK d \in D : d = step[k + 1][f[k]]
    <3>1. step[k + 1] \in [D -> D] /\ f[k] \in D
      BY <1>2 DEF Steps
    <3> QED
      BY <3>1
  <2> DEFINE g == [i \in 0 .. k + 1 |-> IF i = k + 1 THEN d ELSE f[i]]
  <2>3. g \in [0 .. k + 1 -> D]
    BY <1>2
  <2>4. g[0] = init /\ g[k + 1] = step[k + 1][g[k]]
    <3>1. g[0] = f[0] /\ g[k] = f[k] /\ g[k + 1] = d
      OBVIOUS
    <3> HIDE DEF g
    <3> QED
      BY <2>1, <2>2, <3>1
  <2>5. ASSUME NEW i \in 1 .. k  PROVE g[i] = step[i][g[i - 1]]
    <3>1. g[i] = f[i] /\ g[i - 1] = f[i - 1]
      OBVIOUS
    <3> QED
      BY <3>1, <2>1
  <2>6. \A i \in 1 .. k + 1 : g[i] = step[i][g[i - 1]]
    <3> HIDE DEF g
    <3>1. (k + 1) - 1 = k
      OBVIOUS
    <3>2. ASSUME NEW i \in 1 .. k + 1, i # k + 1  PROVE i \in 1 .. k
      BY <3>2
    <3> QED
      BY <2>4, <2>5, <3>1, <3>2
  <2> QED
    BY <2>3, <2>4, <2>6
<1>3. Good(n)
  <2> HIDE DEF Good
  <2>1. 0 \in S
    BY <1>1
  <2>2. ASSUME NEW k \in Nat, k \in S  PROVE k + 1 \in S
    BY <2>2, <1>2
  <2>3. Nat \subseteq S
    <3> HIDE DEF S
    <3> QED
      BY <2>1, <2>2, SetInduction
  <2> QED
    BY <2>3
<1> QED
  BY <1>3 DEF IsRecursion

-----------------------------------------------------------------------------

\* f satisfies the recursion equation of PartialSums(s).
IsPartialSums(f, s) ==
  f = [i \in 0 .. Len(s) |-> IF i = 0 THEN 0 ELSE f[i - 1] + s[i]]

\* A function with the recursion equation exists for every sequence ...
LEMMA PartialSumsExist ==
  ASSUME NEW s \in Seq(Nat)
  PROVE  \E f \in [0 .. Len(s) -> Nat] : IsPartialSums(f, s)
<1>0. PICK n \in Nat : n = Len(s) /\ \A i \in 1 .. n : s[i] \in Nat
  OBVIOUS
<1>1. PICK step \in Steps(n, Nat) : \A i \in 1 .. n, d \in Nat : step[i][d] = d + s[i]
  <2> DEFINE t == [i \in 1 .. n |-> [d \in Nat |-> d + s[i]]]
  <2>1. t \in [1 .. n -> [Nat -> Nat]]
    BY <1>0
  <2>2. \A i \in 1 .. n, d \in Nat : t[i][d] = d + s[i]
    OBVIOUS
  <2> HIDE DEF t
  <2> QED
    BY <2>1, <2>2 DEF Steps
<1>2. 0 \in Nat
  OBVIOUS
<1>3. PICK f : IsRecursion(f, n, Nat, 0, step)
  BY <1>2, RecursionExists
<1>4. ASSUME NEW i \in 1 .. n  PROVE f[i] = f[i - 1] + s[i]
  <2>1. f[i - 1] \in Nat /\ f[i] = step[i][f[i - 1]]
    BY <1>3 DEF IsRecursion
  <2> QED
    BY <1>1, <2>1
<1>5. f \in [0 .. n -> Nat] /\ f[0] = 0
  BY <1>3 DEF IsRecursion
<1>6. IsPartialSums(f, s)
  BY <1>0, <1>4, <1>5 DEF IsPartialSums
<1> QED
  BY <1>0, <1>5, <1>6

\* ... and it is unique.
LEMMA PartialSumsUnique ==
  ASSUME NEW s \in Seq(Nat), NEW f, NEW g,
         IsPartialSums(f, s), IsPartialSums(g, s)
  PROVE  f = g
<1> DEFINE S == {n \in Nat : n <= Len(s) => f[n] = g[n]}
<1>0. Len(s) \in Nat
  OBVIOUS
<1>1. 0 \in S
  BY <1>0 DEF IsPartialSums
<1>2. ASSUME NEW n \in Nat, n \in S  PROVE n + 1 \in S
  BY <1>2, <1>0 DEF IsPartialSums
<1>3. Nat \subseteq S
  <2> HIDE DEF S
  <2> QED
    BY <1>1, <1>2, SetInduction
<1>4. \A i \in 0 .. Len(s) : f[i] = g[i]
  BY <1>3, <1>0
<1> QED
  BY <1>4, <1>0 DEF IsPartialSums

\* PartialSums(s) satisfies its own recursion equation.
LEMMA PartialSumsDef ==
  ASSUME NEW s \in Seq(Nat)
  PROVE  /\ IsPartialSums(PartialSums(s), s)
         /\ PartialSums(s) \in [0 .. Len(s) -> Nat]
<1>1. PartialSums(s) = CHOOSE f : IsPartialSums(f, s)
  BY Zenon DEF PartialSums, IsPartialSums
<1>2. PICK f \in [0 .. Len(s) -> Nat] : IsPartialSums(f, s)
  BY PartialSumsExist
<1>3. IsPartialSums(PartialSums(s), s)
  BY <1>1, <1>2, Zenon
<1>4. PartialSums(s) = f
  BY <1>2, <1>3, PartialSumsUnique
<1> QED
  BY <1>2, <1>3, <1>4

\* The same, one element at a time.
LEMMA PartialSumsStep ==
  ASSUME NEW s \in Seq(Nat)
  PROVE  /\ PartialSums(s) \in [0 .. Len(s) -> Nat]
         /\ PartialSums(s)[0] = 0
         /\ \A i \in 1 .. Len(s) : PartialSums(s)[i] = PartialSums(s)[i - 1] + s[i]
<1>1. /\ IsPartialSums(PartialSums(s), s)
      /\ PartialSums(s) \in [0 .. Len(s) -> Nat]
  BY PartialSumsDef
<1> DEFINE p == PartialSums(s)
<1>2. p = [i \in 0 .. Len(s) |-> IF i = 0 THEN 0 ELSE p[i - 1] + s[i]]
  BY <1>1 DEF IsPartialSums
<1> HIDE DEF p
<1>3. p[0] = 0 /\ \A i \in 1 .. Len(s) : p[i] = p[i - 1] + s[i]
  <2>1. Len(s) \in Nat
    OBVIOUS
  <2> QED
    BY <1>2, <2>1
<1> QED
  BY <1>1, <1>3 DEF p

\* A function that starts at 0 and adds one element at a time is PartialSums(s).
LEMMA PartialSumsAre ==
  ASSUME NEW s \in Seq(Nat), NEW f \in [0 .. Len(s) -> Nat],
         f[0] = 0, \A i \in 1 .. Len(s) : f[i] = f[i - 1] + s[i]
  PROVE  PartialSums(s) = f
<1>1. IsPartialSums(f, s)
  BY DEF IsPartialSums
<1> QED
  BY <1>1, PartialSumsDef, PartialSumsUnique

LEMMA SumSeqType ==
  ASSUME NEW s \in Seq(Nat)
  PROVE  SumSeq(s) \in Nat
<1>1. Len(s) \in 0 .. Len(s)
  OBVIOUS
<1> QED
  BY <1>1, PartialSumsDef DEF SumSeq

LEMMA SumSeqEmpty == SumSeq(<<>>) = 0
<1>1. <<>> \in Seq(Nat) /\ Len(<<>>) = 0
  OBVIOUS
<1> QED
  BY <1>1, PartialSumsStep DEF SumSeq

\* Appending an element adds it to the sum.
LEMMA SumSeqAppend ==
  ASSUME NEW s \in Seq(Nat), NEW e \in Nat
  PROVE  SumSeq(Append(s, e)) = SumSeq(s) + e
<1> DEFINE t == Append(s, e)
           p == PartialSums(s)
           f == [i \in 0 .. Len(t) |-> IF i = Len(t) THEN p[Len(s)] + e ELSE p[i]]
<1>1. /\ Len(s) \in Nat /\ t \in Seq(Nat) /\ Len(t) = Len(s) + 1
      /\ t[Len(t)] = e /\ \A i \in 1 .. Len(s) : t[i] = s[i]
  OBVIOUS
<1>2. /\ p \in [0 .. Len(s) -> Nat] /\ p[0] = 0
      /\ \A i \in 1 .. Len(s) : p[i] = p[i - 1] + s[i]
  BY PartialSumsStep
<1>a. Len(s) \in 0 .. Len(s)
  BY <1>1
<1>b. p[Len(s)] \in Nat
  BY <1>a, PartialSumsStep
<1> HIDE DEF t, p
<1>3. f \in [0 .. Len(t) -> Nat] /\ f[0] = 0 /\ f[Len(t)] = p[Len(s)] + e
  <2>1. /\ 0 \in 0 .. Len(t) /\ 0 # Len(t) /\ Len(t) \in 0 .. Len(t)
        /\ \A i \in 0 .. Len(t) : i # Len(t) => i \in 0 .. Len(s)
    BY <1>1
  <2>2. p[Len(s)] + e \in Nat
    BY <1>b
  <2>3. \A i \in 0 .. Len(t) : (IF i = Len(t) THEN p[Len(s)] + e ELSE p[i]) \in Nat
    BY <2>1, <2>2, <1>2
  <2> QED
    BY <2>1, <2>3, <1>2
<1>4. ASSUME NEW i \in 1 .. Len(t)  PROVE f[i] = f[i - 1] + t[i]
  <2>1. CASE i = Len(t)
    BY <2>1, <1>1, <1>2
  <2>2. CASE i # Len(t)
    <3>1. i \in 1 .. Len(s) /\ i - 1 \in 0 .. Len(t) /\ i - 1 # Len(t)
      BY <2>2, <1>1
    <3> QED
      BY <2>2, <3>1, <1>1, <1>2
  <2> QED
    BY <2>1, <2>2
<1> HIDE DEF f
<1>5. PartialSums(t) = f
  BY <1>1, <1>3, <1>4, PartialSumsAre
<1> QED
  BY <1>3, <1>5 DEF SumSeq, t, p

\* Partial sums never decrease.
LEMMA PartialSumsMonotone ==
  ASSUME NEW s \in Seq(Nat), NEW i \in 0 .. Len(s), NEW j \in i .. Len(s)
  PROVE  PartialSums(s)[i] <= PartialSums(s)[j]
<1>0. PICK L \in Nat : L = Len(s)
  OBVIOUS
<1>a. \A m \in 1 .. Len(s) : s[m] \in Nat
  OBVIOUS
<1>1. PICK p \in [0 .. L -> Nat] :
           p = PartialSums(s) /\ \A m \in 1 .. L : p[m] = p[m - 1] + s[m] /\ s[m] \in Nat
  BY <1>0, <1>a, PartialSumsStep, Zenon
<1> DEFINE S == {n \in Nat : i + n <= L => p[i] <= p[i + n]}
<1>2. /\ i \in 0 .. L /\ j \in i .. L /\ i \in Nat
      /\ j - i \in Nat /\ i + (j - i) = j /\ j <= L /\ i + 0 = i
  BY <1>0
<1>3. p[i] \in Nat
  BY <1>2
<1>4. 0 \in S
  BY <1>2, <1>3
<1>5. ASSUME NEW n \in Nat, n \in S  PROVE n + 1 \in S
  <2>1. SUFFICES ASSUME i + (n + 1) <= L PROVE p[i] <= p[i + (n + 1)]
    OBVIOUS
  <2>2. /\ i + (n + 1) \in 1 .. L /\ (i + (n + 1)) - 1 = i + n
        /\ i + n \in 0 .. L
    BY <2>1, <1>2
  <2>3. p[i + (n + 1)] = p[i + n] + s[i + (n + 1)] /\ s[i + (n + 1)] \in Nat
    BY <2>2, <1>1
  <2>4. p[i] <= p[i + n]
    BY <1>5, <2>2
  <2>5. p[i + n] \in Nat
    BY <2>2
  <2> QED
    BY <2>3, <2>4, <2>5, <1>3, SMTT(30)
<1>6. Nat \subseteq S
  <2> HIDE DEF S
  <2> QED
    BY <1>4, <1>5, SetInduction
<1> QED
  BY <1>1, <1>2, <1>6

\* Dropping the first k elements subtracts their sum from every partial sum.
LEMMA PartialSumsDrop ==
  ASSUME NEW s \in Seq(Nat), NEW k \in 0 .. Len(s)
  PROVE  \E t \in Seq(Nat) :
           /\ t = SubSeq(s, k + 1, Len(s))
           /\ Len(t) = Len(s) - k
           /\ \A i \in 0 .. Len(t) :
                PartialSums(t)[i] = PartialSums(s)[k + i] - PartialSums(s)[k]
<1> PICK t : t = SubSeq(s, k + 1, Len(s))
  OBVIOUS
<1>0. PICK L \in Nat : L = Len(s)
  OBVIOUS
<1>1. k \in Nat /\ k \in 0 .. L /\ k <= L /\ L - k \in Nat
  BY <1>0
<1>2. t \in Seq(Nat) /\ Len(t) = L - k /\ \A i \in 1 .. L - k : t[i] = s[k + i]
  <2>1. \A i \in k + 1 .. Len(s) : s[i] \in Nat
    OBVIOUS
  <2>2. k + 1 \in Int /\ Len(s) \in Int /\ Len(s) \in Nat
    OBVIOUS
  <2>3. /\ t \in Seq(Nat)
        /\ Len(t) = IF k + 1 <= Len(s) THEN Len(s) - (k + 1) + 1 ELSE 0
        /\ \A i \in 1 .. Len(s) - (k + 1) + 1 : t[i] = s[(k + 1) + i - 1]
    BY <2>1, <2>2, SubSeqProperties
  <2>4. Len(t) = L - k /\ Len(s) - (k + 1) + 1 = L - k
    BY <1>0, <1>1, <2>3
  <2>5. \A i \in 1 .. L - k : (k + 1) + i - 1 = k + i
    BY <1>1
  <2> QED
    BY <2>3, <2>4, <2>5
<1>a. \A i \in 1 .. Len(s) : s[i] \in Nat
  OBVIOUS
<1>3. PICK p \in [0 .. L -> Nat] :
           p = PartialSums(s) /\ \A i \in 1 .. L : p[i] = p[i - 1] + s[i] /\ s[i] \in Nat
  BY <1>0, <1>a, PartialSumsStep, Zenon
<1>4. \A i \in k .. L : p[k] <= p[i]
  BY <1>0, <1>1, <1>3, PartialSumsMonotone
<1> DEFINE f == [i \in 0 .. L - k |-> p[k + i] - p[k]]
<1>5. p[k] \in Nat
  BY <1>1
<1>6. f \in [0 .. L - k -> Nat]
  <2>1. ASSUME NEW i \in 0 .. L - k  PROVE p[k + i] - p[k] \in Nat
    <3>1. k + i \in k .. L /\ k + i \in 0 .. L
      BY <1>1
    <3>2. p[k + i] \in Nat /\ p[k] <= p[k + i]
      BY <3>1, <1>4
    <3> QED
      BY <3>2, <1>5
  <2> QED
    BY <2>1
<1>7. f[0] = 0
  <2>1. 0 \in 0 .. L - k /\ k + 0 = k
    BY <1>1
  <2> QED
    BY <2>1, <1>5
<1>8. ASSUME NEW i \in 1 .. L - k  PROVE f[i] = f[i - 1] + t[i]
  <2>1. /\ k + i \in 1 .. L /\ k + (i - 1) = (k + i) - 1 /\ k + (i - 1) \in 0 .. L
        /\ i - 1 \in 0 .. L - k /\ i \in 0 .. L - k
    BY <1>1
  <2>2. p[k + i] = p[k + (i - 1)] + t[i] /\ t[i] \in Nat
    BY <1>2, <1>3, <2>1
  <2>3. p[k + (i - 1)] \in Nat
    BY <2>1
  <2>4. (p[k + (i - 1)] + t[i]) - p[k] = (p[k + (i - 1)] - p[k]) + t[i]
    <3>1. \A a, b, c \in Nat : (a + b) - c = (a - c) + b
      OBVIOUS
    <3> QED
      BY <2>2, <2>3, <1>5, <3>1, Zenon
  <2>5. f[i] = p[k + i] - p[k] /\ f[i - 1] = p[k + (i - 1)] - p[k]
    BY <2>1
  <2> HIDE DEF f
  <2> QED
    BY <2>2, <2>4, <2>5, Zenon
<1>9. PartialSums(t) = f
  <2> HIDE DEF f
  <2> QED
    BY <1>2, <1>6, <1>7, <1>8, PartialSumsAre
<1> QED
  BY <1>0, <1>2, <1>3, <1>9

\* Removing the head subtracts it from the sum.
LEMMA SumSeqTail ==
  ASSUME NEW s \in Seq(Nat), s # <<>>
  PROVE  SumSeq(s) = Head(s) + SumSeq(Tail(s))
<1>0. PICK L \in Nat \ {0} : L = Len(s)
  OBVIOUS
<1>1. Head(s) = s[1] /\ s[1] \in Nat
  OBVIOUS
<1>2. PICK t : t = Tail(s) /\ t = SubSeq(s, 1 + 1, Len(s))
  <2>1. Tail(s) = SubSeq(s, 2, Len(s))
    BY TailIsSubSeq, Zenon
  <2>2. 1 + 1 = 2
    OBVIOUS
  <2> QED
    BY <2>1, <2>2, Zenon
<1>3. /\ Len(t) = L - 1
      /\ \A i \in 0 .. Len(t) :
           PartialSums(t)[i] = PartialSums(s)[1 + i] - PartialSums(s)[1]
  <2>1. 1 \in 0 .. Len(s)
    BY <1>0
  <2>2. PICK k \in 0 .. Len(s) : k = 1
    BY <2>1
  <2>3. t = SubSeq(s, k + 1, Len(s))
    BY <1>2, <2>2, Zenon
  <2>4. PICK u \in Seq(Nat) :
              /\ u = SubSeq(s, k + 1, Len(s))
              /\ Len(u) = Len(s) - k
              /\ \A i \in 0 .. Len(u) :
                   PartialSums(u)[i] = PartialSums(s)[k + i] - PartialSums(s)[k]
    BY PartialSumsDrop, Zenon
  <2>5. u = t
    BY <2>3, <2>4
  <2> QED
    BY <1>0, <2>2, <2>4, <2>5, Zenon
<1>4. Len(t) \in 0 .. Len(t) /\ 1 + Len(t) = L
  BY <1>0, <1>3
<1>5. SumSeq(t) = PartialSums(s)[L] - PartialSums(s)[1]
  BY <1>3, <1>4 DEF SumSeq
<1>6. PartialSums(s)[1] = s[1] /\ PartialSums(s)[L] \in Nat
  <2>1. 1 \in 1 .. L /\ 1 - 1 = 0 /\ L \in 0 .. L
    BY <1>0
  <2>2. PICK p \in [0 .. L -> Nat] :
             p = PartialSums(s) /\ p[0] = 0 /\ \A m \in 1 .. L : p[m] = p[m - 1] + s[m]
    BY <1>0, PartialSumsStep
  <2> QED
    BY <2>1, <2>2, <1>1
<1> QED
  BY <1>0, <1>1, <1>2, <1>5, <1>6 DEF SumSeq

\* A sequence that is another one with an element more.
LEMMA SumSeqExtended ==
  ASSUME NEW s \in Seq(Nat), NEW t \in Seq(Nat), Len(t) = Len(s) + 1,
         \A i \in 1 .. Len(s) : t[i] = s[i]
  PROVE  SumSeq(t) = SumSeq(s) + t[Len(s) + 1]
<1>0. PICK L \in Nat : L = Len(s)
  OBVIOUS
<1>1. PICK e \in Nat : e = t[L + 1]
  BY <1>0
<1> DEFINE u == Append(s, e)
<1>2. u \in Seq(Nat) /\ Len(u) = L + 1 /\ u[L + 1] = e /\ \A i \in 1 .. L : u[i] = s[i]
  BY <1>0
<1>3. SumSeq(u) = SumSeq(s) + e
  BY SumSeqAppend
<1> HIDE DEF u
<1>4. ASSUME NEW i \in 1 .. L + 1  PROVE t[i] = u[i]
  <2>1. i = L + 1 \/ i \in 1 .. L
    OBVIOUS
  <2> QED
    BY <1>0, <1>1, <1>2, <2>1
<1>5. t = u
  BY <1>0, <1>2, <1>4, SeqEqual
<1> QED
  BY <1>0, <1>1, <1>3, <1>5

\* A sequence that is another one without its first element.
LEMMA SumSeqShortened ==
  ASSUME NEW s \in Seq(Nat), NEW t \in Seq(Nat), Len(s) = Len(t) + 1,
         \A i \in 1 .. Len(t) : t[i] = s[i + 1]
  PROVE  SumSeq(s) = s[1] + SumSeq(t)
<1>0. PICK L \in Nat : L = Len(t)
  OBVIOUS
<1>1. s # <<>> /\ Head(s) = s[1] /\ Tail(s) \in Seq(Nat) /\ Len(Tail(s)) = L
      /\ \A i \in 1 .. L : Tail(s)[i] = s[i + 1]
  BY <1>0
<1>2. Tail(s) = t
  BY <1>0, <1>1, SeqEqual
<1> QED
  BY <1>1, <1>2, SumSeqTail

LEMMA SumSeqZero ==
  ASSUME NEW s \in Seq(Nat), \A i \in 1 .. Len(s) : s[i] = 0
  PROVE  SumSeq(s) = 0
<1>0. PICK L \in Nat : L = Len(s)
  OBVIOUS
<1> DEFINE f == [i \in 0 .. L |-> 0]
<1>1. f \in [0 .. L -> Nat] /\ f[0] = 0 /\ \A i \in 1 .. L : f[i] = f[i - 1] + s[i]
  BY <1>0
<1>2. f[L] = 0
  OBVIOUS
<1> HIDE DEF f
<1>3. PartialSums(s) = f
  BY <1>0, <1>1, PartialSumsAre
<1> QED
  BY <1>0, <1>2, <1>3 DEF SumSeq

-----------------------------------------------------------------------------
\* Sequences of anything.

IsSeq(q) == \E S : q \in Seq(S)

LEMMA SeqEmpty == IsSeq(<<>>) /\ Len(<<>>) = 0
<1>1. <<>> \in Seq({})
  OBVIOUS
<1> QED
  BY <1>1 DEF IsSeq

LEMMA SeqAppend ==
  ASSUME NEW q, IsSeq(q), NEW e
  PROVE  /\ IsSeq(Append(q, e)) /\ Len(q) \in Nat
         /\ Len(Append(q, e)) = Len(q) + 1
         /\ Append(q, e)[Len(q) + 1] = e
         /\ \A i \in 1 .. Len(q) : Append(q, e)[i] = q[i]
<1>1. PICK S : q \in Seq(S)
  BY DEF IsSeq
<1>2. q \in Seq(S \cup {e})
  BY <1>1
<1>3. Append(q, e) \in Seq(S \cup {e})
  BY <1>2
<1> QED
  BY <1>2, <1>3 DEF IsSeq

LEMMA SeqTail ==
  ASSUME NEW q, IsSeq(q), q # <<>>
  PROVE  /\ IsSeq(Tail(q)) /\ Len(q) \in Nat \ {0}
         /\ Head(q) = q[1]
         /\ Len(Tail(q)) = Len(q) - 1
         /\ \A i \in 1 .. Len(q) - 1 : Tail(q)[i] = q[i + 1]
<1>1. PICK S : q \in Seq(S)
  BY DEF IsSeq
<1>2. Tail(q) \in Seq(S)
  BY <1>1
<1> QED
  BY <1>1, <1>2 DEF IsSeq

LEMMA SeqConcat ==
  ASSUME NEW q, IsSeq(q), NEW r, IsSeq(r)
  PROVE  /\ IsSeq(q \o r) /\ Len(q) \in Nat /\ Len(r) \in Nat
         /\ Len(q \o r) = Len(q) + Len(r)
         /\ \A i \in 1 .. Len(q) : (q \o r)[i] = q[i]
         /\ \A i \in 1 .. Len(r) : (q \o r)[Len(q) + i] = r[i]
<1>1. PICK S : q \in Seq(S)
  BY DEF IsSeq
<1>2. PICK T : r \in Seq(T)
  BY DEF IsSeq
<1>3. q \in Seq(S \cup T) /\ r \in Seq(S \cup T)
  BY <1>1, <1>2
<1>4. q \o r \in Seq(S \cup T)
  BY <1>3
<1> QED
  BY <1>3, <1>4 DEF IsSeq

LEMMA NothingMore == ASSUME NEW q, IsSeq(q)  PROVE q \o <<>> = q /\ <<>> \o q = q
<1>1. PICK S : q \in Seq(S)
  BY DEF IsSeq
<1> QED
  BY <1>1

LEMMA SeqOne == ASSUME NEW e PROVE IsSeq(<<e>>) /\ Len(<<e>>) = 1 /\ <<e>>[1] = e
<1>1. <<e>> \in Seq({e})
  OBVIOUS
<1> QED
  BY <1>1 DEF IsSeq

LEMMA SeqPrepend ==
  ASSUME NEW e, NEW q, IsSeq(q)
  PROVE  /\ IsSeq(<<e>> \o q) /\ Len(q) \in Nat
         /\ Len(<<e>> \o q) = 1 + Len(q)
         /\ (<<e>> \o q)[1] = e
         /\ \A i \in 1 .. Len(q) : (<<e>> \o q)[1 + i] = q[i]
<1>1. PICK one : one = <<e>> /\ IsSeq(one) /\ Len(one) = 1 /\ one[1] = e
  BY SeqOne
<1>2. /\ IsSeq(one \o q) /\ Len(q) \in Nat
      /\ Len(one \o q) = Len(one) + Len(q)
      /\ \A i \in 1 .. Len(one) : (one \o q)[i] = one[i]
      /\ \A i \in 1 .. Len(q) : (one \o q)[Len(one) + i] = q[i]
  BY <1>1, SeqConcat
<1>3. one \o q = <<e>> \o q /\ 1 \in 1 .. Len(one)
  BY <1>1
<1> QED
  BY <1>1, <1>2, <1>3

\* A function on 1 .. n is a sequence.
LEMMA SeqFunction ==
  ASSUME NEW n \in Nat, NEW q, q = [i \in 1 .. n |-> q[i]]
  PROVE  IsSeq(q) /\ Len(q) = n
<1> DEFINE S == {q[i] : i \in 1 .. n}
<1>1. \A i \in 1 .. n : q[i] \in S
  OBVIOUS
<1> HIDE DEF S
<1>2. q \in Seq(S) /\ Len(q) = n
  BY <1>1
<1> QED
  BY <1>2 DEF IsSeq

LEMMA SeqTwo ==
  ASSUME NEW d, NEW e
  PROVE  IsSeq(<<d, e>>) /\ Len(<<d, e>>) = 2 /\ <<d, e>>[1] = d /\ <<d, e>>[2] = e
<1>1. <<d, e>> \in Seq({d, e})
  OBVIOUS
<1> QED
  BY <1>1 DEF IsSeq

\* What is between two sequences.
LEMMA MiddleOf ==
  ASSUME NEW a, IsSeq(a), NEW S, NEW b \in Seq(S), NEW c, IsSeq(c)
  PROVE  SubSeq((a \o b) \o c, Len(a) + 1, Len((a \o b) \o c) - Len(c)) = b
<1>1. IsSeq(b)
  BY DEF IsSeq
<1>2. PICK k \in Nat, m \in Nat, n \in Nat : k = Len(a) /\ m = Len(b) /\ n = Len(c)
  BY <1>1, SeqConcat
<1> DEFINE ab == a \o b
           abc == ab \o c
           d == SubSeq(abc, k + 1, k + m)
<1>3. IsSeq(ab) /\ Len(ab) = k + m /\ \A i \in 1 .. m : ab[k + i] = b[i]
  BY <1>1, <1>2, SeqConcat
<1> HIDE DEF ab
<1>4. IsSeq(abc) /\ Len(abc) = (k + m) + n /\ \A i \in 1 .. k + m : abc[i] = ab[i]
  <2>1. /\ IsSeq(abc) /\ Len(abc) = Len(ab) + Len(c)
        /\ \A i \in 1 .. Len(ab) : abc[i] = ab[i]
    BY <1>3, SeqConcat
  <2> QED
    BY <1>2, <1>3, <2>1
<1> HIDE DEF abc
<1>5. ASSUME NEW i \in 1 .. m  PROVE k + i \in 1 .. k + m /\ abc[k + i] = b[i]
  <2>1. k + i \in 1 .. k + m
    OBVIOUS
  <2> QED
    BY <1>3, <1>4, <2>1
<1>6. PICK T : abc \in Seq(T)
  BY <1>4 DEF IsSeq
<1>7. Len(abc) - n = k + m /\ k + 1 \in Nat \ {0} /\ k + m <= Len(abc)
  BY <1>4
<1>8. d \in Seq(T) /\ Len(d) = m /\ \A i \in 1 .. m : d[i] = abc[k + i]
  <2>1. PICK l \in Nat : l = k + m
    OBVIOUS
  <2>2. /\ SubSeq(abc, k + 1, l) \in Seq(T) /\ Len(SubSeq(abc, k + 1, l)) = l - k
        /\ \A i \in 1 .. l - k : SubSeq(abc, k + 1, l)[i] = abc[k + i]
    BY <1>6, <1>7, <2>1
  <2> QED
    BY <2>1, <2>2
<1> HIDE DEF d
<1>9. d = b
  <2>1. d \in Seq(T) /\ Len(d) = m /\ \A i \in 1 .. m : d[i] = b[i]
    BY <1>5, <1>8
  <2> QED
    BY <1>2, <2>1, SeqEqual
<1> QED
  BY <1>2, <1>7, <1>9 DEF ab, abc, d

-----------------------------------------------------------------------------
\* Sequences that consist of parts.

\* joined[i] is what the first i parts make together.
IsJoin(joined, parts, E) ==
  /\ joined \in [0 .. Len(parts) -> Seq(E)]
  /\ joined[0] = <<>>
  /\ \A i \in 1 .. Len(parts) : joined[i] = joined[i - 1] \o parts[i]

\* The beginnings of a block can be listed.
LEMMA JoinExists ==
  ASSUME NEW E, NEW parts \in Seq(Seq(E))
  PROVE  \E joined : IsJoin(joined, parts, E)
<1>1. PICK n \in Nat : n = Len(parts) /\ \A i \in 1 .. n : parts[i] \in Seq(E)
  OBVIOUS
<1> DEFINE t == [i \in 1 .. n |-> [q \in Seq(E) |-> q \o parts[i]]]
<1>2. PICK step \in Steps(n, Seq(E)) : \A i \in 1 .. n, q \in Seq(E) : step[i][q] = q \o parts[i]
  <2>1. \A i \in 1 .. n, q \in Seq(E) : q \o parts[i] \in Seq(E)
    BY <1>1
  <2>2. t \in [1 .. n -> [Seq(E) -> Seq(E)]]
    BY <2>1, Zenon
  <2>3. \A i \in 1 .. n, q \in Seq(E) : t[i][q] = q \o parts[i]
    BY Zenon
  <2> HIDE DEF t
  <2> QED
    BY <2>2, <2>3 DEF Steps
<1> HIDE DEF t
<1>3. <<>> \in Seq(E)
  OBVIOUS
<1>4. PICK run : IsRecursion(run, n, Seq(E), <<>>, step)
  BY <1>3, RecursionExists
<1>5. run \in [0 .. n -> Seq(E)] /\ run[0] = <<>>
  BY <1>4 DEF IsRecursion
<1>6. ASSUME NEW i \in 1 .. n  PROVE run[i] = run[i - 1] \o parts[i]
  <2>1. run[i - 1] \in Seq(E) /\ run[i] = step[i][run[i - 1]]
    BY <1>4 DEF IsRecursion
  <2> QED
    BY <1>2, <2>1
<1> QED
  BY <1>1, <1>5, <1>6 DEF IsJoin

\* All the parts make the block.
LEMMA FlattenIsJoin ==
  ASSUME NEW E, NEW parts \in Seq(Seq(E)), NEW joined, IsJoin(joined, parts, E)
  PROVE  FlattenSeq(parts) = joined[Len(parts)]
<1>1. PICK n \in Nat : n = Len(parts) /\ \A i \in 1 .. n : parts[i] \in Seq(E)
  OBVIOUS
<1>2. /\ joined \in [0 .. n -> Seq(E)] /\ joined[0] = <<>>
      /\ \A i \in 1 .. n : joined[i] = joined[i - 1] \o parts[i]
  BY <1>1 DEF IsJoin
<1>3. CASE n = 0
  <2>1. parts = <<>>
    <3>1. Len(parts) = 0
      BY <1>1, <1>3
    <3> QED
      BY <3>1, EmptySeq
  <2>2. FlattenSeq(parts) = parts
    BY <1>1, <1>3 DEF FlattenSeq
  <2> QED
    BY <1>1, <1>2, <1>3, <2>1, <2>2
<1>4. CASE n # 0
  <2> DEFINE Eq(f) == f = [i \in 1 .. Len(parts) |->
                             IF i = 1 THEN parts[i] ELSE f[i - 1] \o parts[i]]
             g == [i \in 1 .. n |-> joined[i]]
  <2>1. FlattenSeq(parts) = (CHOOSE f : Eq(f))[Len(parts)]
    BY <1>1, <1>4, Zenon DEF FlattenSeq
  <2>2. Eq(g)
    <3>1. joined[1] = parts[1]
      <4>1. joined[1] = <<>> \o parts[1] /\ parts[1] \in Seq(E)
        <5>1. 1 \in 1 .. n /\ 1 - 1 = 0
          BY <1>4
        <5> QED
          BY <1>1, <1>2, <5>1
      <4> QED
        BY <4>1
    <3>2. \A i \in 1 .. n : i # 1 => g[i - 1] = joined[i - 1] /\ joined[i] = g[i - 1] \o parts[i]
      <4>1. \A i \in 1 .. n : i # 1 => i - 1 \in 1 .. n
        OBVIOUS
      <4> QED
        BY <1>2, <4>1
    <3>3. \A i \in 1 .. n : joined[i] = IF i = 1 THEN parts[i] ELSE g[i - 1] \o parts[i]
      <4> HIDE DEF g
      <4> QED
        BY <3>1, <3>2, Zenon
    <3> HIDE DEF g
    <3>4. [i \in 1 .. n |-> joined[i]]
            = [i \in 1 .. n |-> IF i = 1 THEN parts[i] ELSE g[i - 1] \o parts[i]]
      BY <3>3, Zenon
    <3> QED
      BY <1>1, <3>4, Zenon DEF g
  <2>3. PICK f : FlattenSeq(parts) = f[Len(parts)] /\ Eq(f)
    <3> HIDE DEF Eq, g
    <3> QED
      BY <2>1, <2>2, Zenon
  <2>4. \A i \in 1 .. n : f[i] = IF i = 1 THEN parts[i] ELSE f[i - 1] \o parts[i]
    BY <1>1, <2>3, Zenon
  <2> DEFINE N == {i \in Nat : i + 1 <= n => f[i + 1] = joined[i + 1]}
  <2>5. 0 \in N
    <3>1. 1 \in 1 .. n
      BY <1>4
    <3>2. joined[1] = parts[1]
      <4>1. 1 \in 1 .. n /\ 1 - 1 = 0
        BY <3>1
      <4>2. joined[1] = <<>> \o parts[1] /\ parts[1] \in Seq(E)
        BY <1>1, <1>2, <4>1
      <4> QED
        BY <4>2
    <3>3. f[1] = parts[1]
      BY <2>4, <3>1
    <3> QED
      BY <3>2, <3>3
  <2>6. ASSUME NEW i \in Nat, i \in N  PROVE i + 1 \in N
    <3>1. SUFFICES ASSUME (i + 1) + 1 <= n  PROVE f[(i + 1) + 1] = joined[(i + 1) + 1]
      OBVIOUS
    <3>2. /\ (i + 1) + 1 \in 1 .. n /\ (i + 1) + 1 # 1 /\ ((i + 1) + 1) - 1 = i + 1
          /\ i + 1 <= n
      BY <3>1
    <3>3. f[(i + 1) + 1] = f[i + 1] \o parts[(i + 1) + 1]
      BY <2>4, <3>2
    <3>4. joined[(i + 1) + 1] = joined[i + 1] \o parts[(i + 1) + 1]
      BY <1>2, <3>2
    <3> QED
      BY <2>6, <3>2, <3>3, <3>4
  <2>7. Nat \subseteq N
    <3> HIDE DEF N
    <3> QED
      BY <2>5, <2>6, SetInduction
  <2>8. n - 1 \in Nat /\ (n - 1) + 1 = n
    BY <1>4
  <2>9. f[n] = joined[n]
    <3>1. n - 1 \in N
      BY <2>7, <2>8
    <3> QED
      BY <2>8, <3>1
  <2> QED
    BY <1>1, <2>3, <2>9
<1> QED
  BY <1>3, <1>4

\* The first i parts make joined[i].
LEMMA FlattenPrefix ==
  ASSUME NEW E, NEW parts \in Seq(Seq(E)), NEW joined, IsJoin(joined, parts, E),
         NEW i \in 0 .. Len(parts)
  PROVE  FlattenSeq(SubSeq(parts, 1, i)) = joined[i]
<1>1. PICK n \in Nat : n = Len(parts) /\ \A j \in 1 .. n : parts[j] \in Seq(E)
  OBVIOUS
<1>2. PICK p : p = SubSeq(parts, 1, i)
  OBVIOUS
<1>3. p \in Seq(Seq(E)) /\ Len(p) = i /\ \A j \in 1 .. i : p[j] = parts[j]
  BY <1>1, <1>2
<1> DEFINE g == [j \in 0 .. i |-> joined[j]]
<1>4. /\ joined \in [0 .. n -> Seq(E)] /\ joined[0] = <<>>
      /\ \A j \in 1 .. n : joined[j] = joined[j - 1] \o parts[j]
  BY <1>1 DEF IsJoin
<1>5. g \in [0 .. i -> Seq(E)] /\ g[0] = <<>> /\ g[i] = joined[i]
  BY <1>1, <1>4
<1>6. \A j \in 1 .. i : g[j] = g[j - 1] \o p[j]
  <2>1. \A j \in 1 .. i : j \in 0 .. i /\ j - 1 \in 0 .. i /\ j \in 1 .. n
    BY <1>1
  <2> QED
    BY <1>3, <1>4, <2>1
<1> HIDE DEF g
<1>7. IsJoin(g, p, E)
  BY <1>3, <1>5, <1>6 DEF IsJoin
<1>8. FlattenSeq(p) = g[Len(p)]
  BY <1>3, <1>7, FlattenIsJoin
<1> QED
  BY <1>2, <1>3, <1>5, <1>8

\* What the parts make together grows at its end.
LEMMA JoinGrows ==
  ASSUME NEW E, NEW parts \in Seq(Seq(E)), NEW joined, IsJoin(joined, parts, E),
         NEW i \in 0 .. Len(parts), NEW m \in i .. Len(parts)
  PROVE  /\ Len(joined[i]) \in Nat /\ Len(joined[m]) \in Nat
         /\ Len(joined[i]) <= Len(joined[m])
         /\ \A j \in 1 .. Len(joined[i]) : joined[m][j] = joined[i][j]
<1>1. PICK n \in Nat : n = Len(parts) /\ \A j \in 1 .. n : parts[j] \in Seq(E)
  OBVIOUS
<1>2. /\ joined \in [0 .. n -> Seq(E)] /\ joined[0] = <<>>
      /\ \A j \in 1 .. n : joined[j] = joined[j - 1] \o parts[j]
  BY <1>1 DEF IsJoin
<1>3. PICK a \in Seq(E) : a = joined[i]
  BY <1>1, <1>2
<1> DEFINE Good(b) == /\ b \in Seq(E) /\ Len(b) \in Nat /\ Len(a) <= Len(b)
                      /\ \A j \in 1 .. Len(a) : b[j] = a[j]
           N == {k \in Nat : i + k <= n => Good(joined[i + k])}
<1>4. 0 \in N
  <2>1. Good(a)
    BY <1>3
  <2>2. i + 0 = i
    OBVIOUS
  <2> QED
    BY <1>3, <2>1, <2>2
<1>5. ASSUME NEW k \in Nat, k \in N  PROVE k + 1 \in N
  <2>1. SUFFICES ASSUME i + (k + 1) <= n  PROVE Good(joined[i + (k + 1)])
    OBVIOUS
  <2>2. i + (k + 1) \in 1 .. n /\ (i + (k + 1)) - 1 = i + k /\ i + k <= n
    BY <2>1
  <2>3. PICK b : b = joined[i + k] /\ Good(b)
    BY <1>5, <2>2
  <2>4. PICK c \in Seq(E) : c = parts[i + (k + 1)]
    BY <1>1, <2>2
  <2>5. joined[i + (k + 1)] = b \o c
    BY <1>2, <2>2, <2>3, <2>4
  <2>6. /\ b \o c \in Seq(E) /\ Len(b \o c) = Len(b) + Len(c) /\ Len(c) \in Nat
        /\ \A j \in 1 .. Len(b) : (b \o c)[j] = b[j]
    <3>1. IsSeq(b) /\ IsSeq(c)
      BY <2>3, <2>4 DEF IsSeq
    <3>2. b \o c \in Seq(E)
      BY <2>3, <2>4
    <3> QED
      BY <3>1, <3>2, SeqConcat
  <2>7. PICK x \in Nat, y \in Nat, z \in Nat : x = Len(a) /\ y = Len(b) /\ z = Len(c)
    BY <1>3, <2>3, <2>6
  <2>8. Len(b \o c) \in Nat /\ x <= Len(b \o c) /\ \A j \in 1 .. x : j \in 1 .. y
    BY <2>3, <2>6, <2>7
  <2>9. Good(b \o c)
    BY <2>3, <2>6, <2>7, <2>8
  <2> QED
    BY <2>5, <2>9
<1>6. Nat \subseteq N
  <2> HIDE DEF N
  <2> QED
    BY <1>4, <1>5, SetInduction
<1>7. m - i \in Nat /\ i + (m - i) = m /\ m <= n
  BY <1>1
<1>8. Good(joined[m])
  <2>1. m - i \in N
    BY <1>6, <1>7
  <2> HIDE DEF Good
  <2> QED
    BY <1>7, <2>1
<1>9. Len(a) \in Nat
  OBVIOUS
<1> QED
  BY <1>3, <1>8, <1>9

==============================================================================
