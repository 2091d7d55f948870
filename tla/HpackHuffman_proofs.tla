------------------------ MODULE HpackHuffman_proofs ------------------------
(***************************************************************************)
(* Theorems of HpackHuffman, for every canonical prefix code and for every *)
(* text that the peer may encode with it.                                  *)
(***************************************************************************)
EXTENDS HpackHuffman, SequenceSums_proofs

-----------------------------------------------------------------------------
\* Powers of two.

\* A code has up to 30 bits; p lists the powers that this takes.
IsPowers(p) ==
  /\ p \in [0 .. 31 -> Nat \ {0}]
  /\ \A k \in 0 .. 31 : p[k] = 2^k
  /\ p[0] = 1
  /\ \A k \in 0 .. 30 : p[k + 1] = 2 * p[k]

\* Each power is twice the one before.
LEMMA PowerDoubles ==
  ASSUME NEW k \in 0 .. 30
  PROVE  2^k \in Nat \ {0} /\ 2^(k + 1) = 2 * 2^k
<1>0. ASSUME k = 0  PROVE 2^k \in Nat \ {0} /\ 2^(k + 1) = 2 * 2^k
  BY <1>0, SMT
<1>1. ASSUME k = 1  PROVE 2^k \in Nat \ {0} /\ 2^(k + 1) = 2 * 2^k
  BY <1>1, SMT
<1>2. ASSUME k = 2  PROVE 2^k \in Nat \ {0} /\ 2^(k + 1) = 2 * 2^k
  BY <1>2, SMT
<1>3. ASSUME k = 3  PROVE 2^k \in Nat \ {0} /\ 2^(k + 1) = 2 * 2^k
  BY <1>3, SMT
<1>4. ASSUME k = 4  PROVE 2^k \in Nat \ {0} /\ 2^(k + 1) = 2 * 2^k
  BY <1>4, SMT
<1>5. ASSUME k = 5  PROVE 2^k \in Nat \ {0} /\ 2^(k + 1) = 2 * 2^k
  BY <1>5, SMT
<1>6. ASSUME k = 6  PROVE 2^k \in Nat \ {0} /\ 2^(k + 1) = 2 * 2^k
  BY <1>6, SMT
<1>7. ASSUME k = 7  PROVE 2^k \in Nat \ {0} /\ 2^(k + 1) = 2 * 2^k
  BY <1>7, SMT
<1>8. ASSUME k = 8  PROVE 2^k \in Nat \ {0} /\ 2^(k + 1) = 2 * 2^k
  BY <1>8, SMT
<1>9. ASSUME k = 9  PROVE 2^k \in Nat \ {0} /\ 2^(k + 1) = 2 * 2^k
  BY <1>9, SMT
<1>10. ASSUME k = 10  PROVE 2^k \in Nat \ {0} /\ 2^(k + 1) = 2 * 2^k
  BY <1>10, SMT
<1>11. ASSUME k = 11  PROVE 2^k \in Nat \ {0} /\ 2^(k + 1) = 2 * 2^k
  BY <1>11, SMT
<1>12. ASSUME k = 12  PROVE 2^k \in Nat \ {0} /\ 2^(k + 1) = 2 * 2^k
  BY <1>12, SMT
<1>13. ASSUME k = 13  PROVE 2^k \in Nat \ {0} /\ 2^(k + 1) = 2 * 2^k
  BY <1>13, SMT
<1>14. ASSUME k = 14  PROVE 2^k \in Nat \ {0} /\ 2^(k + 1) = 2 * 2^k
  BY <1>14, SMT
<1>15. ASSUME k = 15  PROVE 2^k \in Nat \ {0} /\ 2^(k + 1) = 2 * 2^k
  BY <1>15, SMT
<1>16. ASSUME k = 16  PROVE 2^k \in Nat \ {0} /\ 2^(k + 1) = 2 * 2^k
  BY <1>16, SMT
<1>17. ASSUME k = 17  PROVE 2^k \in Nat \ {0} /\ 2^(k + 1) = 2 * 2^k
  BY <1>17, SMT
<1>18. ASSUME k = 18  PROVE 2^k \in Nat \ {0} /\ 2^(k + 1) = 2 * 2^k
  BY <1>18, SMT
<1>19. ASSUME k = 19  PROVE 2^k \in Nat \ {0} /\ 2^(k + 1) = 2 * 2^k
  BY <1>19, SMT
<1>20. ASSUME k = 20  PROVE 2^k \in Nat \ {0} /\ 2^(k + 1) = 2 * 2^k
  BY <1>20, SMT
<1>21. ASSUME k = 21  PROVE 2^k \in Nat \ {0} /\ 2^(k + 1) = 2 * 2^k
  BY <1>21, SMT
<1>22. ASSUME k = 22  PROVE 2^k \in Nat \ {0} /\ 2^(k + 1) = 2 * 2^k
  BY <1>22, SMT
<1>23. ASSUME k = 23  PROVE 2^k \in Nat \ {0} /\ 2^(k + 1) = 2 * 2^k
  BY <1>23, SMT
<1>24. ASSUME k = 24  PROVE 2^k \in Nat \ {0} /\ 2^(k + 1) = 2 * 2^k
  BY <1>24, SMT
<1>25. ASSUME k = 25  PROVE 2^k \in Nat \ {0} /\ 2^(k + 1) = 2 * 2^k
  BY <1>25, SMT
<1>26. ASSUME k = 26  PROVE 2^k \in Nat \ {0} /\ 2^(k + 1) = 2 * 2^k
  BY <1>26, SMT
<1>27. ASSUME k = 27  PROVE 2^k \in Nat \ {0} /\ 2^(k + 1) = 2 * 2^k
  BY <1>27, SMT
<1>28. ASSUME k = 28  PROVE 2^k \in Nat \ {0} /\ 2^(k + 1) = 2 * 2^k
  BY <1>28, SMT
<1>29. ASSUME k = 29  PROVE 2^k \in Nat \ {0} /\ 2^(k + 1) = 2 * 2^k
  BY <1>29, SMT
<1>30. ASSUME k = 30  PROVE 2^k \in Nat \ {0} /\ 2^(k + 1) = 2 * 2^k
  BY <1>30, SMT
<1> QED
  BY <1>0, <1>1, <1>2, <1>3, <1>4, <1>5, <1>6, <1>7, <1>8, <1>9, <1>10,
     <1>11, <1>12, <1>13, <1>14, <1>15, <1>16, <1>17, <1>18, <1>19, <1>20,
     <1>21, <1>22, <1>23, <1>24, <1>25, <1>26, <1>27, <1>28, <1>29, <1>30

\* There are such powers.
LEMMA PowersExist == \E p : IsPowers(p)
<1> DEFINE p == [k \in 0 .. 31 |-> 2^k]
<1>1. \A k \in 0 .. 31 : p[k] = 2^k
  OBVIOUS
<1>2. 2^0 = 1
  BY SMT
<1>3. ASSUME NEW k \in 0 .. 31  PROVE p[k] \in Nat \ {0}
  <2>1. CASE k = 0
    BY <1>1, <1>2, <2>1
  <2>2. CASE k # 0
    <3>1. PICK j \in 0 .. 30 : k = j + 1
      <4>1. k - 1 \in 0 .. 30 /\ k = (k - 1) + 1
        BY <2>2
      <4> QED
        BY <4>1
    <3>2. PICK x \in Nat \ {0} : x = 2^j /\ 2^(j + 1) = 2 * x
      BY PowerDoubles
    <3> QED
      BY <1>1, <3>1, <3>2
  <2> QED
    BY <2>1, <2>2
<1>4. ASSUME NEW k \in 0 .. 30  PROVE p[k + 1] = 2 * p[k]
  <2>1. k + 1 \in 0 .. 31 /\ k \in 0 .. 31
    OBVIOUS
  <2>2. p[k + 1] = 2^(k + 1) /\ p[k] = 2^k
    BY <1>1, <2>1
  <2> HIDE DEF p
  <2> QED
    BY <2>2, PowerDoubles
<1>5. p = [k \in 0 .. 31 |-> p[k]]
  BY Zenon
<1> HIDE DEF p
<1>6. p[0] = 1
  BY <1>1, <1>2
<1> QED
  BY <1>1, <1>3, <1>4, <1>5, <1>6 DEF IsPowers

\* Powers grow.
LEMMA PowersGrow ==
  ASSUME NEW p, IsPowers(p), NEW i \in 0 .. 31, NEW j \in 0 .. 31, i < j
  PROVE  2 * p[i] <= p[j]
<1> DEFINE N == {k \in Nat : (i + 1) + k <= 31 => 2 * p[i] <= p[(i + 1) + k]}
<1>1. p \in [0 .. 31 -> Nat \ {0}] /\ \A k \in 0 .. 30 : p[k + 1] = 2 * p[k]
  BY DEF IsPowers
<1>2. 0 \in N
  <2>1. i \in 0 .. 30 /\ (i + 1) + 0 = i + 1
    OBVIOUS
  <2>2. p[i + 1] = 2 * p[i] /\ p[i] \in Nat
    BY <1>1, <2>1
  <2> QED
    BY <2>1, <2>2
<1>3. ASSUME NEW k \in Nat, k \in N  PROVE k + 1 \in N
  <2>1. SUFFICES ASSUME (i + 1) + (k + 1) <= 31
                 PROVE  2 * p[i] <= p[(i + 1) + (k + 1)]
    OBVIOUS
  <2>2. PICK m \in 0 .. 30 : m = (i + 1) + k /\ (i + 1) + (k + 1) = m + 1
    BY <2>1
  <2>3. 2 * p[i] <= p[m]
    BY <1>3, <2>2
  <2>4. p[m + 1] = 2 * p[m] /\ p[m] \in Nat /\ p[i] \in Nat
    BY <1>1
  <2> QED
    BY <2>2, <2>3, <2>4
<1>4. Nat \subseteq N
  <2> HIDE DEF N
  <2> QED
    BY <1>2, <1>3, SetInduction
<1>5. j - (i + 1) \in Nat /\ (i + 1) + (j - (i + 1)) = j
  OBVIOUS
<1>6. j - (i + 1) \in N
  BY <1>4, <1>5
<1> QED
  BY <1>5, <1>6

-----------------------------------------------------------------------------
\* The codes, and the nodes on the way to their ends.

\* The places in the table; that of a symbol is behind it.
Rows == 1 .. EOS + 1

Length(c) == Codes[c][1]

\* Bit i of a code, and the node behind its first i bits.
Bit(c, i) == Start(Codes[c], i) % 2
Node(c, i) == NodeAt(Codes[c], i)

\* The parts of the assumption on the table.
LEMMA CodeType ==
  ASSUME NEW c \in Rows
  PROVE  /\ Length(c) \in 1 .. 30 /\ Codes[c][2] \in Nat
         /\ Codes[c][2] < 2^Length(c)
<1>1. Codes[c] \in (1 .. 30) \X Nat /\ Codes[c][2] < 2^Codes[c][1]
  BY CodesAssumption DEF Rows
<1> QED
  BY <1>1 DEF Length

\* Halving a quotient.
LEMMA Halves ==
  ASSUME NEW x \in Nat, NEW m \in Nat \ {0}
  PROVE  /\ x \div m \in Nat /\ (x \div m) \div 2 = x \div (2 * m)
         /\ x \div m = 2 * (x \div (2 * m)) + ((x \div m) % 2)
         /\ (x \div m) % 2 \in {0, 1}
<1>1. (x \div m) \div 2 = x \div (2 * m)
  OBVIOUS
<1>2. PICK y \in Nat : y = x \div m
  OBVIOUS
<1>3. y = 2 * (y \div 2) + (y % 2) /\ y % 2 \in {0, 1}
  OBVIOUS
<1> QED
  BY <1>1, <1>2, <1>3

\* Starts of a code: each has the next bit behind the one before.
LEMMA StartSteps ==
  ASSUME NEW c \in Rows, NEW i \in 0 .. Length(c) - 1
  PROVE  /\ Start(Codes[c], i + 1) = 2 * Start(Codes[c], i) + Bit(c, i + 1)
         /\ Bit(c, i + 1) \in {0, 1}
         /\ Start(Codes[c], i) \in Nat
         /\ Start(Codes[c], i + 1) \div 2 = Start(Codes[c], i)
<1>1. PICK n \in 1 .. 30, b \in Nat : n = Length(c) /\ b = Codes[c][2]
  BY CodeType
<1>2. PICK p : IsPowers(p)
  BY PowersExist
<1>3. n - (i + 1) \in 0 .. 30 /\ n - i = (n - (i + 1)) + 1 /\ n - i \in 0 .. 31
  BY <1>1
<1>4. PICK m \in Nat \ {0} : m = 2^(n - (i + 1)) /\ 2 * m = 2^(n - i)
  <2>1. PICK k \in 0 .. 30 : k = n - (i + 1) /\ n - i = k + 1
    BY <1>3
  <2>2. 2^k \in Nat \ {0} /\ 2^(k + 1) = 2 * 2^k
    BY PowerDoubles
  <2> QED
    BY <2>1, <2>2
<1>5. Start(Codes[c], i) = b \div (2 * m) /\ Start(Codes[c], i + 1) = b \div m
  BY <1>1, <1>4 DEF Start, Length
<1>6. /\ b \div (2 * m) \in Nat /\ (b \div m) \div 2 = b \div (2 * m)
      /\ b \div m = 2 * (b \div (2 * m)) + ((b \div m) % 2)
      /\ (b \div m) % 2 \in {0, 1}
  <2>1. 2 * m \in Nat \ {0}
    OBVIOUS
  <2> QED
    BY <2>1, Halves
<1> QED
  BY <1>5, <1>6 DEF Bit

\* The whole of a code starts it, and so does nothing.
LEMMA StartEnds ==
  ASSUME NEW c \in Rows
  PROVE  Start(Codes[c], 0) = 0 /\ Start(Codes[c], Length(c)) = Codes[c][2]
<1>1. PICK n \in 1 .. 30, b \in Nat : n = Length(c) /\ b = Codes[c][2] /\ b < 2^n
  BY CodeType
<1>2. Start(Codes[c], 0) = b \div 2^n
  <2>1. Codes[c][1] - 0 = n
    BY <1>1 DEF Length
  <2> QED
    BY <1>1, <2>1 DEF Start
<1>3. Start(Codes[c], n) = b \div 2^0
  <2>1. Codes[c][1] - n = 0
    BY <1>1 DEF Length
  <2> QED
    BY <1>1, <2>1 DEF Start
<1>4. PICK m \in Nat \ {0} : m = 2^n
  <2>1. n \in 0 .. 30
    BY <1>1
  <2> QED
    BY <2>1, PowerDoubles
<1>5. b \div m = 0
  BY <1>1, <1>4
<1>6. 2^0 = 1 /\ b \div 1 = b
  BY SMT
<1> QED
  BY <1>1, <1>2, <1>3, <1>4, <1>5, <1>6

\* The first i bits of a code fit into i bits.
LEMMA StartFits ==
  ASSUME NEW c \in Rows, NEW p, IsPowers(p), NEW i \in 0 .. Length(c)
  PROVE  Start(Codes[c], i) \in 0 .. p[i] - 1
<1> DEFINE S(k) == Start(Codes[c], k)
           N == {k \in Nat : k <= Length(c) => S(k) \in 0 .. p[k] - 1}
<1>1. Length(c) \in 1 .. 30
  BY CodeType
<1>2. /\ p \in [0 .. 31 -> Nat \ {0}] /\ p[0] = 1
      /\ \A k \in 0 .. 30 : p[k + 1] = 2 * p[k]
  BY DEF IsPowers
<1>3. 0 \in N
  BY <1>2, StartEnds
<1>4. ASSUME NEW k \in Nat, k \in N  PROVE k + 1 \in N
  <2>1. SUFFICES ASSUME k + 1 <= Length(c)  PROVE S(k + 1) \in 0 .. p[k + 1] - 1
    OBVIOUS
  <2>2. k \in 0 .. Length(c) - 1 /\ k \in 0 .. 30
    BY <1>1, <2>1
  <2>3. PICK x \in Nat, bit \in {0, 1} : x = S(k) /\ S(k + 1) = 2 * x + bit
    BY <2>2, StartSteps
  <2>4. x \in 0 .. p[k] - 1
    BY <1>1, <1>4, <2>2, <2>3
  <2>5. p[k] \in Nat /\ p[k + 1] = 2 * p[k]
    BY <1>2, <2>2
  <2> QED
    BY <2>3, <2>4, <2>5
<1>5. Nat \subseteq N
  <2> HIDE DEF N
  <2> QED
    BY <1>3, <1>4, SetInduction
<1>6. i \in Nat /\ i <= Length(c)
  BY <1>1
<1> QED
  BY <1>5, <1>6

\* No bits lead to the root.
LEMMA NodeRoot == ASSUME NEW c \in Rows  PROVE Node(c, 0) = 1
<1>1. 2^0 = 1
  BY SMT
<1> QED
  BY <1>1, StartEnds DEF Node, NodeAt

\* The nodes of one depth lie between two powers.
LEMMA NodeRange ==
  ASSUME NEW c \in Rows, NEW p, IsPowers(p), NEW i \in 0 .. Length(c)
  PROVE  Node(c, i) \in Nat /\ p[i] <= Node(c, i) /\ Node(c, i) < 2 * p[i]
<1>1. i \in 0 .. 31
  BY CodeType
<1>2. PICK m \in Nat \ {0} : m = p[i] /\ m = 2^i
  BY <1>1 DEF IsPowers
<1>3. PICK x \in 0 .. m - 1 : x = Start(Codes[c], i)
  BY <1>2, StartFits
<1>4. Node(c, i) = m + x
  BY <1>2, <1>3 DEF Node, NodeAt
<1> QED
  BY <1>2, <1>4

\* The next bit of a code leads to a child of the node, and dividing leads back.
LEMMA NodeChild ==
  ASSUME NEW c \in Rows, NEW i \in 0 .. Length(c) - 1
  PROVE  /\ Node(c, i) \in Nat
         /\ Bit(c, i + 1) \in {0, 1}
         /\ Node(c, i + 1) = Child(Node(c, i), Bit(c, i + 1))
         /\ Node(c, i + 1) \div 2 = Node(c, i)
<1>1. PICK x \in Nat, bit \in {0, 1} :
           x = Start(Codes[c], i) /\ bit = Bit(c, i + 1) /\ Start(Codes[c], i + 1) = 2 * x + bit
  BY StartSteps
<1>2. i \in 0 .. 30
  BY CodeType
<1>3. PICK m \in Nat : m = 2^i /\ 2^(i + 1) = 2 * m
  BY <1>2, PowerDoubles
<1>4. Node(c, i) = m + x /\ Node(c, i + 1) = (2 * m) + ((2 * x) + bit)
  BY <1>1, <1>3 DEF Node, NodeAt
<1>5. ((2 * m) + ((2 * x) + bit)) = (2 * (m + x)) + bit
  OBVIOUS
<1>6. ((2 * (m + x)) + bit) \div 2 = m + x
  OBVIOUS
<1> QED
  BY <1>1, <1>4, <1>5, <1>6 DEF Child

\* A node is at one depth only.
LEMMA NodeLevel ==
  ASSUME NEW c \in Rows, NEW d \in Rows,
         NEW i \in 0 .. Length(c), NEW j \in 0 .. Length(d), Node(c, i) = Node(d, j)
  PROVE  i = j
<1>1. PICK p : IsPowers(p)
  BY PowersExist
<1>2. i \in 0 .. 31 /\ j \in 0 .. 31
  BY CodeType
<1>3. /\ p[i] <= Node(c, i) /\ Node(c, i) < 2 * p[i]
      /\ p[j] <= Node(d, j) /\ Node(d, j) < 2 * p[j]
      /\ Node(c, i) \in Nat
  BY <1>1, NodeRange
<1>4. p[i] \in Nat /\ p[j] \in Nat
  BY <1>1, <1>2 DEF IsPowers
<1>5. /\ i < j => 2 * p[i] <= p[j]
      /\ j < i => 2 * p[j] <= p[i]
  BY <1>1, <1>2, PowersGrow
<1>6. PICK x \in Nat, u \in Nat, v \in Nat : x = Node(c, i) /\ u = p[i] /\ v = p[j]
  BY <1>3, <1>4
<1>7. u <= x /\ x < 2 * u /\ v <= x /\ x < 2 * v
  BY <1>3, <1>6
<1>8. ~(i < j) /\ ~(j < i)
  BY <1>5, <1>6, <1>7
<1> QED
  BY <1>2, <1>8

\* No code is the start of another.
LEMMA PrefixFree ==
  ASSUME NEW c \in Rows, NEW d \in Rows, NEW i \in 0 .. Length(c),
         Node(c, i) = Node(d, Length(d))
  PROVE  c = d /\ i = Length(c)
<1>1. Length(d) \in 1 .. 30 /\ Length(c) \in 1 .. 30
  BY CodeType
<1>2. i = Length(d)
  BY <1>1, NodeLevel
<1>3. PICK x, y : /\ x = Start(Codes[c], i) /\ y = Start(Codes[d], i)
                  /\ x \in Nat /\ y \in Nat
  <2>1. PICK p : IsPowers(p)
    BY PowersExist
  <2>2. \A k \in 0 .. 31 : p[k] \in Nat
    BY <2>1 DEF IsPowers
  <2>3. /\ Start(Codes[c], i) \in 0 .. p[i] - 1
        /\ Start(Codes[d], i) \in 0 .. p[i] - 1
    BY <1>1, <1>2, <2>1, StartFits
  <2>4. i \in 0 .. 31
    BY <1>1, <1>2
  <2>5. Start(Codes[c], i) \in Nat /\ Start(Codes[d], i) \in Nat
    BY <2>2, <2>3, <2>4
  <2> QED
    BY <2>5
<1>4. x = y
  <2>1. PICK m \in Nat : m = 2^i
    <3>1. i \in 0 .. 30
      BY <1>1, <1>2
    <3> QED
      BY <3>1, PowerDoubles
  <2>2. m + x = m + y
    BY <1>2, <1>3, <2>1 DEF Node, NodeAt
  <2> QED
    BY <1>3, <2>1, <2>2
<1>5. Codes[d][2] = x
  BY <1>2, <1>3, <1>4, StartEnds
<1>6. Length(c) = Length(d)
  <2>1. SUFFICES ASSUME Length(d) < Length(c)  PROVE FALSE
    BY <1>1, <1>2
  <2>2. Codes[d][2] < Start(Codes[c], Codes[d][1])
    BY <2>1, CodesAssumption DEF Rows, Length
  <2>3. x < x
    BY <1>2, <1>3, <1>5, <2>2 DEF Length
  <2> QED
    BY <1>3, <2>3
<1>7. Codes[c][2] = x
  BY <1>2, <1>3, <1>6, StartEnds
<1>8. c = d
  <2>1. /\ c < d => Codes[c][2] < Codes[d][2]
        /\ d < c => Codes[d][2] < Codes[c][2]
    BY <1>6, CodesAssumption DEF Rows, Length
  <2>2. ~(c < d) /\ ~(d < c)
    BY <1>3, <1>5, <1>7, <2>1
  <2> QED
    BY <2>2 DEF Rows, EOS
<1> QED
  BY <1>2, <1>6, <1>8

\* Depth counts the bits that lead to a node.
LEMMA DepthIs ==
  ASSUME NEW c \in Rows, NEW i \in 0 .. Length(c)
  PROVE  Depth(Node(c, i)) = i
<1>1. PICK p : IsPowers(p)
  BY PowersExist
<1>2. i \in 0 .. 30
  BY CodeType
<1>3. \A k \in 0 .. 31 : p[k] \in Nat \ {0} /\ p[k] = 2^k
  BY <1>1 DEF IsPowers
<1>4. PICK n \in Nat : n = Node(c, i) /\ p[i] <= n /\ n < 2 * p[i]
  BY <1>1, NodeRange
<1>5. ASSUME NEW d \in 0 .. 30  PROVE (n \div 2^d = 1) <=> (d = i)
  <2>0. d \in 0 .. 31 /\ i \in 0 .. 31
    BY <1>2
  <2>1. PICK m \in Nat \ {0}, k \in Nat \ {0} : m = p[d] /\ k = p[i] /\ m = 2^d
    <3>1. p[d] \in Nat \ {0} /\ p[d] = 2^d /\ p[i] \in Nat \ {0}
      BY <1>3, <2>0
    <3> QED
      BY <3>1
  <2>2. /\ d < i => 2 * m <= k
        /\ i < d => 2 * k <= m
    <3>1. d < i => 2 * p[d] <= p[i]
      BY <1>1, <2>0, PowersGrow
    <3>2. i < d => 2 * p[i] <= p[d]
      BY <1>1, <2>0, PowersGrow
    <3> QED
      BY <2>1, <3>1, <3>2
  <2>3. k <= n /\ n < 2 * k
    BY <1>4, <2>1
  <2>4. CASE d = i
    <3>1. m = k
      BY <2>1, <2>4
    <3>2. n \div m = 1
      BY <2>3, <3>1
    <3> QED
      BY <2>1, <2>4, <3>2
  <2>5. CASE d < i
    <3>1. 2 * m <= n
      BY <2>2, <2>3, <2>5
    <3>2. n \div m # 1
      BY <3>1
    <3> QED
      BY <2>1, <2>5, <3>2
  <2>6. CASE i < d
    <3>1. n < m
      BY <2>2, <2>3, <2>6
    <3>2. n \div m = 0
      BY <3>1
    <3> QED
      BY <2>1, <2>6, <3>2
  <2> QED
    BY <1>2, <2>4, <2>5, <2>6
<1>6. (CHOOSE d \in 0 .. 30 : n \div 2^d = 1) = i
  BY <1>2, <1>5
<1> QED
  BY <1>4, <1>6 DEF Depth

\* Going up k levels from a node of a code.
LEMMA NodeAncestor ==
  ASSUME NEW c \in Rows, NEW i \in 0 .. Length(c), NEW k \in 0 .. i
  PROVE  Node(c, i) \div 2^k = Node(c, i - k)
<1>0. i \in 0 .. 30 /\ Length(c) \in 1 .. 30
  BY CodeType
<1>1. PICK p : IsPowers(p)
  BY PowersExist
<1>2. PICK n \in Nat : n = Node(c, i)
  BY <1>1, NodeRange
<1> DEFINE N == {j \in Nat : j <= i => n \div 2^j = Node(c, i - j)}
<1>3. 0 \in N
  <2>1. 2^0 = 1 /\ n \div 1 = n /\ i - 0 = i
    BY SMT
  <2> QED
    BY <1>2, <2>1
<1>4. ASSUME NEW j \in Nat, j \in N  PROVE j + 1 \in N
  <2>1. SUFFICES ASSUME j + 1 <= i  PROVE n \div 2^(j + 1) = Node(c, i - (j + 1))
    OBVIOUS
  <2>2. j \in 0 .. 30 /\ j <= i
    BY <1>0, <2>1
  <2>3. PICK m \in Nat \ {0} : m = 2^j /\ 2^(j + 1) = 2 * m
    BY <2>2, PowerDoubles
  <2>4. n \div m = Node(c, i - j)
    BY <1>4, <2>2, <2>3
  <2>5. (n \div m) \div 2 = n \div (2 * m)
    BY <2>3, Halves
  <2>6. Node(c, i - j) \div 2 = Node(c, i - (j + 1))
    <3>1. PICK h \in 0 .. Length(c) - 1 : h = i - (j + 1) /\ i - j = h + 1
      <4>1. i - (j + 1) \in 0 .. Length(c) - 1 /\ i - j = (i - (j + 1)) + 1
        BY <1>0, <2>1
      <4> QED
        BY <4>1
    <3>2. Node(c, h + 1) \div 2 = Node(c, h)
      BY NodeChild
    <3> QED
      BY <3>1, <3>2
  <2> QED
    BY <2>3, <2>4, <2>5, <2>6
<1>5. Nat \subseteq N
  <2> HIDE DEF N
  <2> QED
    BY <1>3, <1>4, SetInduction
<1>6. k \in Nat /\ k <= i
  BY <1>0
<1> QED
  BY <1>2, <1>5, <1>6

\* The digits of a node are the bits that lead to it.
LEMMA NodeDigits ==
  ASSUME NEW c \in Rows, NEW d \in 0 .. Length(c), NEW i \in 1 .. d
  PROVE  (Node(c, d) \div 2^(d - i)) % 2 = Bit(c, i)
<1>0. d \in 0 .. 30 /\ Length(c) \in 1 .. 30
  BY CodeType
<1>1. Node(c, d) \div 2^(d - i) = Node(c, i)
  <2>1. d - i \in 0 .. d /\ d - (d - i) = i
    BY <1>0
  <2>2. Node(c, d) \div 2^(d - i) = Node(c, d - (d - i))
    BY <2>1, NodeAncestor
  <2> QED
    BY <2>1, <2>2
<1>2. PICK h \in 0 .. Length(c) - 1 : i = h + 1
  <2>1. i - 1 \in 0 .. Length(c) - 1 /\ i = (i - 1) + 1
    BY <1>0
  <2> QED
    BY <2>1
<1>3. PICK x \in Nat, b \in {0, 1} :
           x = Node(c, h) /\ b = Bit(c, i) /\ Node(c, i) = (2 * x) + b
  BY <1>2, NodeChild DEF Child
<1>4. ((2 * x) + b) % 2 = b
  OBVIOUS
<1> QED
  BY <1>1, <1>3, <1>4

\* EOS is written with ones only.
LEMMA EndIsOnes ==
  ASSUME NEW i \in 1 .. Length(EOS + 1)
  PROVE  Bit(EOS + 1, i) = 1
<1>0. EOS + 1 \in Rows
  BY DEF Rows, EOS
<1>a. PICK n \in 1 .. 30 : n = Length(EOS + 1)
  BY <1>0, CodeType
<1> DEFINE S(k) == Start(Codes[EOS + 1], k)
<1>1. PICK p : IsPowers(p)
  BY PowersExist
<1>2. /\ \A k \in 0 .. 31 : p[k] \in Nat \ {0} /\ p[k] = 2^k
      /\ \A k \in 0 .. 30 : p[k + 1] = 2 * p[k]
  BY <1>1 DEF IsPowers
<1> DEFINE N == {j \in Nat : j <= n => S(n - j) = p[n - j] - 1}
<1>3. 0 \in N
  <2>1. S(n) = 2^n - 1
    <3>1. S(n) = Codes[EOS + 1][2]
      BY <1>0, <1>a, StartEnds
    <3>2. Codes[EOS + 1][2] = 2^Codes[EOS + 1][1] - 1
      BY CodesAssumption
    <3> QED
      BY <1>a, <3>1, <3>2 DEF Length
  <2>2. n - 0 = n /\ p[n] = 2^n
    <3>1. n \in 0 .. 31 /\ n - 0 = n
      OBVIOUS
    <3> HIDE DEF S
    <3> QED
      BY <1>2, <3>1
  <2> HIDE DEF S
  <2> QED
    BY <2>1, <2>2
<1>4. ASSUME NEW j \in Nat, j \in N  PROVE j + 1 \in N
  <2>1. SUFFICES ASSUME j + 1 <= n  PROVE S(n - (j + 1)) = p[n - (j + 1)] - 1
    OBVIOUS
  <2>2. PICK h \in 0 .. n - 1 : h = n - (j + 1) /\ n - j = h + 1 /\ h \in 0 .. 30
    <3>1. /\ n - (j + 1) \in 0 .. n - 1 /\ n - j = (n - (j + 1)) + 1
          /\ n - (j + 1) \in 0 .. 30
      BY <1>0, <2>1
    <3> QED
      BY <3>1
  <2>3. PICK m \in Nat \ {0} : m = p[h] /\ p[h + 1] = 2 * m
    BY <1>2, <2>2
  <2>4. S(h + 1) = (2 * m) - 1
    <3>1. j <= n
      BY <1>0, <2>1
    <3> QED
      BY <1>4, <2>2, <2>3, <3>1
  <2>5. S(h + 1) \div 2 = S(h)
    BY <1>0, <1>a, <2>2, StartSteps
  <2>6. ((2 * m) - 1) \div 2 = m - 1
    OBVIOUS
  <2> HIDE DEF S
  <2> QED
    BY <2>2, <2>3, <2>4, <2>5, <2>6
<1>5. Nat \subseteq N
  <2> HIDE DEF N
  <2> QED
    BY <1>3, <1>4, SetInduction
<1>6. S(i) = p[i] - 1
  <2>1. n - i \in Nat /\ n - i <= n /\ n - (n - i) = i
    BY <1>0, <1>a
  <2>2. n - i \in N
    BY <1>5, <2>1
  <2> HIDE DEF S
  <2> QED
    BY <2>1, <2>2
<1>7. PICK m \in Nat \ {0} : p[i] = 2 * m
  <2>1. PICK h \in 0 .. 30 : i = h + 1
    <3>1. i - 1 \in 0 .. 30 /\ i = (i - 1) + 1
      BY <1>0, <1>a
    <3> QED
      BY <3>1
  <2>2. p[h] \in Nat \ {0} /\ p[h + 1] = 2 * p[h]
    BY <1>2
  <2> QED
    BY <2>1, <2>2
<1>8. ((2 * m) - 1) % 2 = 1
  OBVIOUS
<1> QED
  BY <1>6, <1>7, <1>8 DEF Bit

-----------------------------------------------------------------------------
\* The inductive invariant.

\* The tree is that of the first codes of the table.
Built ==
  /\ next \in 0 .. EOS + 1
  /\ pc = "building" <=> next < EOS + 1
  /\ nodes = {1} \cup UNION {{Node(c, i) : i \in 1 .. Length(c)} : c \in 1 .. next}
  /\ DOMAIN values = {Node(c, Length(c)) : c \in 1 .. next}
  /\ \A c \in 1 .. next : values[Node(c, Length(c))] = c - 1

\* Nothing is decoded before a string arrives.
Waiting ==
  pc \in {"building", "idle"} =>
    text = <<>> /\ decoded = <<>> /\ offset = 0 /\ node = 1

\* The row of the symbol behind the first k of a text; padding is read as the
\* beginning of EOS.
RowBehind(s, k) == (IF k < Len(s) THEN s[k + 1] ELSE EOS) + 1

\* Where the bits of that symbol begin.
BitsBefore(s, k) == Len(TextBits(SubSeq(s, 1, k)))

\* The symbols decoded are the first of the text, and the walk has begun the
\* code of the next one.
Walking ==
  pc = "decoding" =>
    /\ text \in Seq(0 .. EOS) /\ input = Encoded(text)
    /\ Len(decoded) \in 0 .. Len(text) /\ decoded = SubSeq(text, 1, Len(decoded))
    /\ offset <= Len(input)
    /\ \E d \in 0 .. Length(RowBehind(text, Len(decoded))) - 1 :
         /\ offset = BitsBefore(text, Len(decoded)) + d
         /\ node = Node(RowBehind(text, Len(decoded)), d)

\* All of it; TextRecovered alone says nothing of a walk in progress.
IInv ==
  /\ pc \in {"building", "idle", "decoding", "done"}
  /\ Built
  /\ Waiting
  /\ Walking
  /\ TextRecovered

-----------------------------------------------------------------------------
\* Encoded texts.

\* What a sequence over a set is.
LEMMA SeqElements ==
  ASSUME NEW S, NEW s \in Seq(S)
  PROVE  Len(s) \in Nat /\ \A i \in 1 .. Len(s) : s[i] \in S
OBVIOUS

\* Every symbol of a text has a row, and so has what is read behind it.
LEMMA RowsOfSymbols ==
  ASSUME NEW s \in Seq(0 .. EOS), NEW k \in Nat
  PROVE  RowBehind(s, k) \in Rows
<1>0. Len(s) \in Nat /\ \A i \in 1 .. Len(s) : s[i] \in 0 .. EOS
  BY SeqElements
<1>1. CASE k < Len(s)
  <2>1. k + 1 \in 1 .. Len(s)
    BY <1>0, <1>1
  <2>2. s[k + 1] \in 0 .. EOS
    BY <1>0, <2>1
  <2>3. PICK v \in 0 .. EOS : v = s[k + 1]
    BY <2>2
  <2>4. RowBehind(s, k) = v + 1
    BY <1>1, <2>3, Zenon DEF RowBehind
  <2> QED
    BY <2>4 DEF Rows, EOS
<1>2. CASE ~(k < Len(s))
  BY <1>2 DEF RowBehind, Rows, EOS
<1> QED
  BY <1>1, <1>2

\* The bits of one symbol.
LEMMA CodeBitsAre ==
  ASSUME NEW v \in 0 .. EOS
  PROVE  /\ CodeBits(v) \in Seq({0, 1}) /\ Len(CodeBits(v)) = Length(v + 1)
         /\ \A i \in 1 .. Length(v + 1) : CodeBits(v)[i] = Bit(v + 1, i)
<1>1. v + 1 \in Rows
  BY DEF Rows, EOS
<1>2. PICK n \in 1 .. 30 : n = Length(v + 1)
  BY <1>1, CodeType
<1>3. CodeBits(v) = [i \in 1 .. n |-> Bit(v + 1, i)]
  BY <1>2, Zenon DEF CodeBits, Length, Bit
<1>4. ASSUME NEW i \in 1 .. n  PROVE Bit(v + 1, i) \in {0, 1}
  <2>1. PICK h \in 0 .. n - 1 : i = h + 1
    <3>1. i - 1 \in 0 .. n - 1 /\ i = (i - 1) + 1
      OBVIOUS
    <3> QED
      BY <3>1
  <2> QED
    BY <1>1, <1>2, <2>1, StartSteps
<1> DEFINE b == [i \in 1 .. n |-> Bit(v + 1, i)]
<1>5. b \in [1 .. n -> {0, 1}]
  BY <1>4
<1>6. b \in Seq({0, 1}) /\ Len(b) = n
  BY <1>5
<1> QED
  BY <1>2, <1>3, <1>6

\* The bits of a text, symbol by symbol.
LEMMA TextBitsJoin ==
  ASSUME NEW s \in Seq(0 .. EOS)
  PROVE  \E joined :
           /\ joined \in [0 .. Len(s) -> Seq({0, 1})]
           /\ joined[0] = <<>>
           /\ \A k \in 1 .. Len(s) : joined[k] = joined[k - 1] \o CodeBits(s[k])
           /\ \A k \in 0 .. Len(s) : TextBits(SubSeq(s, 1, k)) = joined[k]
           /\ TextBits(s) = joined[Len(s)]
<1>1. PICK n \in Nat : n = Len(s) /\ \A i \in 1 .. n : s[i] \in 0 .. EOS
  <2>1. Len(s) \in Nat /\ \A i \in 1 .. Len(s) : s[i] \in 0 .. EOS
    BY SeqElements
  <2> QED
    BY <2>1
<1> DEFINE parts == [i \in 1 .. n |-> CodeBits(s[i])]
<1>2. parts \in Seq(Seq({0, 1})) /\ Len(parts) = n /\ \A i \in 1 .. n : parts[i] = CodeBits(s[i])
  <2>1. \A i \in 1 .. n : CodeBits(s[i]) \in Seq({0, 1})
    BY <1>1, CodeBitsAre
  <2>2. parts \in [1 .. n -> Seq({0, 1})]
    BY <2>1
  <2> QED
    BY <2>2
<1> HIDE DEF parts
<1>3. PICK joined : IsJoin(joined, parts, {0, 1})
  BY <1>2, JoinExists
<1>4. /\ joined \in [0 .. n -> Seq({0, 1})] /\ joined[0] = <<>>
      /\ \A k \in 1 .. n : joined[k] = joined[k - 1] \o CodeBits(s[k])
  BY <1>2, <1>3 DEF IsJoin
<1>5. ASSUME NEW k \in 0 .. n  PROVE TextBits(SubSeq(s, 1, k)) = joined[k]
  <2>1. PICK t : t = SubSeq(s, 1, k)
    OBVIOUS
  <2>2. Len(t) = k /\ \A i \in 1 .. k : t[i] = s[i]
    BY <1>1, <2>1
  <2>3. PICK u : u = SubSeq(parts, 1, k)
    OBVIOUS
  <2>4. u = [i \in 1 .. k |-> parts[i]]
    <3>1. k - 1 + 1 = k /\ \A i \in 1 .. k : i + 1 - 1 = i /\ i \in 1 .. n
      OBVIOUS
    <3> QED
      BY <1>2, <2>3, <3>1
  <2>5. [i \in 1 .. Len(t) |-> CodeBits(t[i])] = u
    <3>1. \A i \in 1 .. k : CodeBits(t[i]) = parts[i]
      BY <1>2, <2>2
    <3>2. [i \in 1 .. k |-> CodeBits(t[i])] = [i \in 1 .. k |-> parts[i]]
      BY <3>1, Zenon
    <3> QED
      BY <2>2, <2>4, <3>2
  <2>6. TextBits(t) = FlattenSeq(u)
    BY <2>5, Zenon DEF TextBits
  <2>7. FlattenSeq(u) = joined[k]
    BY <1>2, <1>3, <2>3, FlattenPrefix
  <2> QED
    BY <2>1, <2>6, <2>7
<1>6. TextBits(s) = joined[n]
  <2>1. TextBits(s) = FlattenSeq(parts)
    BY <1>1, Zenon DEF TextBits, parts
  <2> QED
    BY <1>2, <1>3, <2>1, FlattenIsJoin
<1> QED
  BY <1>1, <1>4, <1>5, <1>6

\* Bits behind bits.
LEMMA BitsConcat ==
  ASSUME NEW a \in Seq({0, 1}), NEW b \in Seq({0, 1})
  PROVE  /\ Len(a) \in Nat /\ Len(b) \in Nat /\ Len(a \o b) = Len(a) + Len(b)
         /\ a \o b \in Seq({0, 1})
         /\ \A i \in 1 .. Len(a) : (a \o b)[i] = a[i]
         /\ \A i \in 1 .. Len(b) : (a \o b)[Len(a) + i] = b[i]
<1>1. IsSeq(a) /\ IsSeq(b)
  BY DEF IsSeq
<1>2. a \o b \in Seq({0, 1})
  OBVIOUS
<1> QED
  BY <1>1, <1>2, SeqConcat

\* The bits behind the first k symbols of a text.
LEMMA TextBitsStep ==
  ASSUME NEW s \in Seq(0 .. EOS), NEW k \in 0 .. Len(s) - 1
  PROVE  /\ BitsBefore(s, k) \in Nat
         /\ BitsBefore(s, k + 1) = BitsBefore(s, k) + Length(s[k + 1] + 1)
         /\ \A i \in 1 .. BitsBefore(s, k) :
              TextBits(SubSeq(s, 1, k + 1))[i] = TextBits(SubSeq(s, 1, k))[i]
         /\ \A i \in 1 .. Length(s[k + 1] + 1) :
              TextBits(SubSeq(s, 1, k + 1))[BitsBefore(s, k) + i] = Bit(s[k + 1] + 1, i)
<1>1. PICK joined :
           /\ joined \in [0 .. Len(s) -> Seq({0, 1})]
           /\ \A m \in 1 .. Len(s) : joined[m] = joined[m - 1] \o CodeBits(s[m])
           /\ \A m \in 0 .. Len(s) : TextBits(SubSeq(s, 1, m)) = joined[m]
  BY TextBitsJoin
<1>2. PICK n \in Nat : n = Len(s) /\ \A i \in 1 .. n : s[i] \in 0 .. EOS
  <2>1. Len(s) \in Nat /\ \A i \in 1 .. Len(s) : s[i] \in 0 .. EOS
    BY SeqElements
  <2> QED
    BY <2>1
<1>3. k \in 0 .. n /\ k + 1 \in 1 .. n /\ k + 1 \in 0 .. n /\ (k + 1) - 1 = k
  BY <1>2
<1>4. PICK v \in 0 .. EOS : v = s[k + 1]
  BY <1>2, <1>3
<1>5. PICK a, b : a \in Seq({0, 1}) /\ a = joined[k] /\ b = CodeBits(v)
  BY <1>1, <1>2, <1>3
<1>6. /\ b \in Seq({0, 1}) /\ Len(b) = Length(v + 1)
      /\ \A i \in 1 .. Length(v + 1) : b[i] = Bit(v + 1, i)
  BY <1>5, CodeBitsAre
<1>7. joined[k + 1] = a \o b
  BY <1>1, <1>2, <1>3, <1>4, <1>5
<1>8. /\ Len(a) \in Nat /\ Len(a \o b) = Len(a) + Len(b)
      /\ \A i \in 1 .. Len(a) : (a \o b)[i] = a[i]
      /\ \A i \in 1 .. Len(b) : (a \o b)[Len(a) + i] = b[i]
  BY <1>5, <1>6, BitsConcat
<1>9. TextBits(SubSeq(s, 1, k)) = a /\ TextBits(SubSeq(s, 1, k + 1)) = a \o b
  BY <1>1, <1>2, <1>3, <1>5, <1>7
<1>10. BitsBefore(s, k) = Len(a) /\ BitsBefore(s, k + 1) = Len(a \o b)
  BY <1>9 DEF BitsBefore
<1> QED
  BY <1>4, <1>6, <1>8, <1>9, <1>10, Zenon

\* The first k symbols of a text begin its bits.
LEMMA TextBitsGrow ==
  ASSUME NEW s \in Seq(0 .. EOS), NEW k \in 0 .. Len(s)
  PROVE  /\ TextBits(s) \in Seq({0, 1}) /\ TextBits(SubSeq(s, 1, k)) \in Seq({0, 1})
         /\ BitsBefore(s, k) \in Nat /\ BitsBefore(s, k) <= Len(TextBits(s))
         /\ BitsBefore(s, Len(s)) = Len(TextBits(s))
         /\ \A i \in 1 .. BitsBefore(s, k) : TextBits(s)[i] = TextBits(SubSeq(s, 1, k))[i]
<1>1. PICK n \in Nat : n = Len(s) /\ \A i \in 1 .. n : s[i] \in 0 .. EOS
  <2>1. Len(s) \in Nat /\ \A i \in 1 .. Len(s) : s[i] \in 0 .. EOS
    BY SeqElements
  <2> QED
    BY <2>1
<1>2. PICK joined :
           /\ joined \in [0 .. n -> Seq({0, 1})]
           /\ joined[0] = <<>>
           /\ \A m \in 1 .. n : joined[m] = joined[m - 1] \o CodeBits(s[m])
           /\ \A m \in 0 .. n : TextBits(SubSeq(s, 1, m)) = joined[m]
           /\ TextBits(s) = joined[n]
  BY <1>1, TextBitsJoin
<1> DEFINE parts == [i \in 1 .. n |-> CodeBits(s[i])]
<1>3. parts \in Seq(Seq({0, 1})) /\ Len(parts) = n /\ \A i \in 1 .. n : parts[i] = CodeBits(s[i])
  <2>1. \A i \in 1 .. n : CodeBits(s[i]) \in Seq({0, 1})
    BY <1>1, CodeBitsAre
  <2>2. parts \in [1 .. n -> Seq({0, 1})]
    BY <2>1
  <2> QED
    BY <2>2
<1> HIDE DEF parts
<1>4. IsJoin(joined, parts, {0, 1})
  BY <1>2, <1>3 DEF IsJoin
<1>5. k \in 0 .. n /\ n \in k .. n /\ n \in 0 .. n
  BY <1>1
<1>6. /\ Len(joined[k]) \in Nat /\ Len(joined[k]) <= Len(joined[n])
      /\ \A i \in 1 .. Len(joined[k]) : joined[n][i] = joined[k][i]
  <2>1. k \in 0 .. Len(parts) /\ n \in k .. Len(parts)
    BY <1>3, <1>5
  <2>2. parts \in Seq(Seq({0, 1}))
    BY <1>3
  <2> QED
    BY <1>4, <2>1, <2>2, JoinGrows
<1>7. /\ joined[k] \in Seq({0, 1}) /\ joined[n] \in Seq({0, 1})
      /\ TextBits(SubSeq(s, 1, k)) = joined[k] /\ TextBits(SubSeq(s, 1, n)) = joined[n]
  BY <1>2, <1>5
<1> QED
  BY <1>1, <1>2, <1>6, <1>7, Zenon DEF BitsBefore

\* An encoded text is a row of bits.
LEMMA EncodedType == ASSUME NEW s \in Seq(0 .. EOS)  PROVE Encoded(s) \in Seq({0, 1})
<1>1. PICK t \in Seq({0, 1}), l \in Nat : t = TextBits(s) /\ l = Len(t)
  <2>1. Len(s) \in 0 .. Len(s)
    <3>1. Len(s) \in Nat
      BY SeqElements
    <3> QED
      BY <3>1
  <2>2. TextBits(s) \in Seq({0, 1})
    BY <2>1, TextBitsGrow
  <2> QED
    BY <2>2
<1>2. PICK m \in 0 .. 7 : m = (8 - (l % 8)) % 8
  OBVIOUS
<1>3. PICK pad \in Seq({0, 1}) : pad = [i \in 1 .. m |-> 1]
  <2> DEFINE ones == [i \in 1 .. m |-> 1]
  <2>1. ones \in [1 .. m -> {0, 1}]
    OBVIOUS
  <2>2. ones \in Seq({0, 1})
    BY <2>1
  <2> QED
    BY <2>2
<1>4. Encoded(s) = t \o pad
  BY <1>1, <1>2, <1>3, Zenon DEF Encoded
<1> QED
  BY <1>4, BitsConcat

\* What the decoder finds behind the first k symbols: the code of the next
\* symbol or, behind the last one, fewer bits than EOS has, which are all ones.
LEMMA EncodedBits ==
  ASSUME NEW s \in Seq(0 .. EOS), NEW k \in 0 .. Len(s)
  PROVE  /\ Len(Encoded(s)) \in Nat /\ BitsBefore(s, k) \in Nat
         /\ BitsBefore(s, k) <= Len(Encoded(s))
         /\ TextBits(SubSeq(s, 1, k)) \in Seq({0, 1})
         /\ \A i \in 1 .. BitsBefore(s, k) :
              Encoded(s)[i] = TextBits(SubSeq(s, 1, k))[i]
         /\ k < Len(s) =>
              /\ BitsBefore(s, k + 1) = BitsBefore(s, k) + Length(RowBehind(s, k))
              /\ BitsBefore(s, k + 1) <= Len(Encoded(s))
         /\ k = Len(s) => Len(Encoded(s)) < BitsBefore(s, k) + Length(RowBehind(s, k))
         /\ \A d \in 0 .. Length(RowBehind(s, k)) - 1 :
              BitsBefore(s, k) + d < Len(Encoded(s)) =>
                Encoded(s)[(BitsBefore(s, k) + d) + 1] = Bit(RowBehind(s, k), d + 1)
<1>1. PICK n \in Nat : n = Len(s)
  BY SeqElements
<1>2. PICK t \in Seq({0, 1}), l \in Nat : t = TextBits(s) /\ l = Len(t)
  <2>1. TextBits(s) \in Seq({0, 1})
    BY TextBitsGrow
  <2> QED
    BY <2>1
<1>3. PICK m \in 0 .. 7 : m = (8 - (l % 8)) % 8
  OBVIOUS
<1>4. PICK pad : pad = [i \in 1 .. m |-> 1]
  OBVIOUS
<1>5. pad \in Seq({0, 1}) /\ Len(pad) = m /\ \A i \in 1 .. m : pad[i] = 1
  <2>1. pad \in [1 .. m -> {0, 1}]
    BY <1>4
  <2> QED
    BY <1>4, <2>1
<1>6. PICK e : e = Encoded(s) /\ e = t \o pad
  BY <1>2, <1>3, <1>4, Zenon DEF Encoded
<1>7. /\ Len(e) = l + m
      /\ \A i \in 1 .. l : e[i] = t[i]
      /\ \A i \in 1 .. m : e[l + i] = 1
  BY <1>2, <1>5, <1>6, BitsConcat
<1>8. PICK at \in Nat : at = BitsBefore(s, k) /\ at <= l
  BY <1>2, TextBitsGrow
<1>9. PICK u \in Seq({0, 1}) :
        u = TextBits(SubSeq(s, 1, k)) /\ \A i \in 1 .. at : t[i] = u[i]
  BY <1>2, <1>8, TextBitsGrow
<1>10. PICK c \in Rows : c = RowBehind(s, k)
  <2>1. k \in Nat
    BY <1>1
  <2> QED
    BY <2>1, RowsOfSymbols
<1>11. PICK len \in 1 .. 30 : len = Length(c)
  BY CodeType
<1> DEFINE Goal == /\ Len(e) \in Nat /\ at <= Len(e)
                   /\ \A i \in 1 .. at : e[i] = u[i]
                   /\ k < n => /\ BitsBefore(s, k + 1) = at + len
                               /\ BitsBefore(s, k + 1) <= Len(e)
                   /\ k = n => Len(e) < at + len
                   /\ \A d \in 0 .. len - 1 :
                        at + d < Len(e) => e[(at + d) + 1] = Bit(c, d + 1)
<1>12. ASSUME k < n  PROVE Goal
  <2>1. k \in 0 .. Len(s) - 1 /\ k + 1 \in 0 .. Len(s)
    BY <1>1, <1>12
  <2>2. c = s[k + 1] + 1
    BY <1>1, <1>10, <1>12 DEF RowBehind
  <2>3. PICK w : w = TextBits(SubSeq(s, 1, k + 1))
    OBVIOUS
  <2>4. /\ BitsBefore(s, k + 1) = at + len
        /\ \A i \in 1 .. len : w[at + i] = Bit(c, i)
    BY <1>8, <1>11, <2>1, <2>2, <2>3, TextBitsStep
  <2>5. at + len <= l /\ \A i \in 1 .. at + len : t[i] = w[i]
    <3>1. /\ BitsBefore(s, k + 1) <= Len(TextBits(s))
          /\ \A i \in 1 .. BitsBefore(s, k + 1) : TextBits(s)[i] = w[i]
      BY <2>1, <2>3, TextBitsGrow
    <3> QED
      BY <1>2, <2>4, <3>1
  <2>6. ASSUME NEW d \in 0 .. len - 1  PROVE e[(at + d) + 1] = Bit(c, d + 1)
    <3>1. /\ (at + d) + 1 = at + (d + 1) /\ d + 1 \in 1 .. len
          /\ (at + d) + 1 \in 1 .. at + len /\ (at + d) + 1 \in 1 .. l
      BY <2>5
    <3>2. e[(at + d) + 1] = t[(at + d) + 1] /\ t[(at + d) + 1] = w[(at + d) + 1]
      BY <1>7, <2>5, <3>1
    <3>3. w[at + (d + 1)] = Bit(c, d + 1)
      BY <2>4, <3>1
    <3> QED
      BY <3>1, <3>2, <3>3
  <2>7. Len(e) \in Nat /\ at <= Len(e) /\ at + len <= Len(e)
    BY <1>7, <1>8, <2>5
  <2>8. \A i \in 1 .. at : e[i] = u[i]
    BY <1>7, <1>8, <1>9
  <2>9. k # n /\ BitsBefore(s, k + 1) <= Len(e)
    BY <1>1, <1>12, <2>4, <2>7
  <2> QED
    BY <2>4, <2>6, <2>7, <2>8, <2>9
<1>13. ASSUME k = n  PROVE Goal
  <2>1. at = l
    <3>1. BitsBefore(s, Len(s)) = Len(TextBits(s))
      BY TextBitsGrow
    <3> QED
      BY <1>1, <1>2, <1>8, <1>13, <3>1
  <2>2. c = EOS + 1 /\ len >= 8
    <3>1. c = EOS + 1
      BY <1>1, <1>10, <1>13 DEF RowBehind
    <3>2. Codes[EOS + 1][1] >= 8
      BY CodesAssumption
    <3> QED
      BY <1>11, <3>1, <3>2 DEF Length
  <2>3. ASSUME NEW d \in 0 .. len - 1, at + d < l + m  PROVE e[(at + d) + 1] = Bit(c, d + 1)
    <3>1. (at + d) + 1 = l + (d + 1) /\ d + 1 \in 1 .. m /\ d + 1 \in 1 .. len
      BY <2>1, <2>3
    <3>2. Bit(c, d + 1) = 1
      BY <1>11, <2>2, <3>1, EndIsOnes
    <3> QED
      BY <1>7, <3>1, <3>2
  <2>4. Len(e) \in Nat /\ at <= Len(e) /\ Len(e) < at + len
    BY <1>7, <2>1, <2>2
  <2>5. \A i \in 1 .. at : e[i] = u[i]
    BY <1>7, <1>8, <1>9
  <2> QED
    BY <1>1, <1>7, <1>13, <2>3, <2>4, <2>5
<1>14. k < n \/ k = n
  BY <1>1
<1>15. Goal
  <2> HIDE DEF Goal
  <2> QED
    BY <1>12, <1>13, <1>14
<1> QED
  BY <1>1, <1>6, <1>8, <1>9, <1>10, <1>11, <1>15, Zenon

-----------------------------------------------------------------------------
\* The tree.

\* A code can be added to the tree of the codes before it.
LEMMA CodeFits ==
  ASSUME Built, next < EOS + 1
  PROVE  ~ Incorrect(Codes[next + 1])
<1> DEFINE c == next + 1
<1>1. c \in Rows /\ \A a \in 1 .. next : a \in Rows /\ a # c
  BY DEF Built, Rows, EOS
<1>2. SUFFICES ASSUME NEW i \in 1 .. Length(c), Node(c, i - 1) \in DOMAIN values
               PROVE  FALSE
  BY Zenon DEF Incorrect, Length, Node
<1>3. PICK a \in 1 .. next : Node(c, i - 1) = Node(a, Length(a))
  BY <1>2 DEF Built
<1>4. i - 1 \in 0 .. Length(c)
  <2> HIDE DEF c
  <2>1. Length(c) \in 1 .. 30
    BY <1>1, CodeType
  <2> QED
    BY <2>1
<1> HIDE DEF c
<1>5. a = c
  BY <1>1, <1>3, <1>4, PrefixFree
<1> QED
  BY <1>1, <1>5

\* Once built, the tree leads to every symbol, and to none on the way.
LEMMA WholeTree ==
  ASSUME Built, pc # "building", NEW c \in Rows, NEW i \in 0 .. Length(c)
  PROVE  /\ Node(c, i) \in nodes
         /\ Node(c, i) \in DOMAIN values <=> i = Length(c)
         /\ values[Node(c, Length(c))] = c - 1
<1>1. next = EOS + 1 /\ 1 .. next = Rows
  <2>1. next \in 0 .. EOS + 1 /\ ~(next < EOS + 1)
    BY DEF Built
  <2> QED
    BY <2>1 DEF Rows, EOS
<1>2. Length(c) \in 1 .. 30
  BY CodeType
<1>3. Node(c, i) \in nodes
  <2>1. CASE i = 0
    BY <2>1, NodeRoot DEF Built
  <2>2. CASE i # 0
    <3>1. i \in 1 .. Length(c)
      BY <1>2, <2>2
    <3> QED
      BY <1>1, <3>1 DEF Built
  <2> QED
    BY <2>1, <2>2
<1>4. DOMAIN values = {Node(a, Length(a)) : a \in Rows}
  BY <1>1 DEF Built
<1>5. ASSUME Node(c, i) \in DOMAIN values  PROVE i = Length(c)
  <2>1. PICK a \in Rows : Node(c, i) = Node(a, Length(a))
    BY <1>4, <1>5
  <2> QED
    BY <2>1, PrefixFree
<1>6. values[Node(c, Length(c))] = c - 1
  BY <1>1 DEF Built
<1> QED
  BY <1>3, <1>4, <1>5, <1>6

\* At first the tree is the root alone.
LEMMA InitInvariant == Init => IInv
<1> SUFFICES ASSUME Init PROVE IInv
  OBVIOUS
<1>1. Built
  <2>1. next = 0 /\ 1 .. next = {} /\ EOS + 1 = 257
    BY DEF Init, EOS
  <2>2. DOMAIN values = {}
    BY DEF Init
  <2>3. nodes = {1} /\ pc = "building"
    BY DEF Init
  <2> QED
    BY <2>1, <2>2, <2>3 DEF Built
<1>2. Waiting /\ Walking /\ pc = "building"
  BY DEF Init, Waiting, Walking
<1>3. TextRecovered
  <2>1. decoded = <<>> /\ text = <<>> /\ Len(decoded) = 0 /\ Len(text) = 0
    BY DEF Init
  <2> QED
    BY <1>2, <2>1 DEF TextRecovered, IsPrefix
<1> QED
  BY <1>1, <1>2, <1>3 DEF IInv

\* A code is inserted: none is the start of another, so that nothing is thrown.
LEMMA InsertStep == ASSUME IInv, insert_code  PROVE IInv'
<1> DEFINE c == next + 1
           code == Codes[next + 1]
<1>1. /\ pc = "building" /\ Built /\ Waiting /\ TextRecovered /\ next \in 0 .. EOS
      /\ UNCHANGED <<text, input, offset, node, decoded>>
  BY DEF IInv, Built, insert_code, EOS
<1>2. c \in Rows /\ 1 .. c = (1 .. next) \cup {c} /\ c \notin 1 .. next
  BY <1>1 DEF Rows, EOS
<1>3. ~ Incorrect(code)
  <2>1. next < EOS + 1
    BY <1>1 DEF EOS
  <2> QED
    BY <1>1, <2>1, CodeFits
<1>4. /\ nodes' = nodes \cup {NodeAt(code, i) : i \in 1 .. code[1]}
      /\ values' = [n \in DOMAIN values \cup {NodeAt(code, code[1])} |->
                      IF n = NodeAt(code, code[1]) THEN next ELSE values[n]]
      /\ next' = next + 1
      /\ pc' = IF next' = Len(Codes) THEN "idle" ELSE pc
  BY <1>3 DEF insert_code
<1>5. Len(Codes) = EOS + 1
  <2>1. PICK S : Codes \in [1 .. 257 -> S]
    <3>1. EOS + 1 = 257
      BY DEF EOS
    <3> QED
      BY <3>1, CodesAssumption
  <2> QED
    BY <2>1 DEF EOS
<1>6. /\ nodes' = nodes \cup {Node(c, i) : i \in 1 .. Length(c)}
      /\ values' = [n \in DOMAIN values \cup {Node(c, Length(c))} |->
                      IF n = Node(c, Length(c)) THEN next ELSE values[n]]
  BY <1>4, Zenon DEF Node, Length
<1> HIDE DEF c, code
<1>c. c = next + 1
  BY DEF c
<1>7. nodes' = {1} \cup UNION {{Node(a, i) : i \in 1 .. Length(a)} : a \in 1 .. c}
  <2> DEFINE F(a) == {Node(a, i) : i \in 1 .. Length(a)}
             N(S) == UNION {F(a) : a \in S}
  <2>1. nodes = {1} \cup N(1 .. next) /\ nodes' = nodes \cup F(c)
    BY <1>1, <1>6 DEF Built
  <2>2. ASSUME NEW S  PROVE N(S \cup {c}) = N(S) \cup F(c)
    <3> HIDE DEF F
    <3> QED
      OBVIOUS
  <2>3. N(1 .. c) = N(1 .. next) \cup F(c)
    <3> HIDE DEF N
    <3> QED
      BY <1>2, <2>2
  <2>4. nodes' = {1} \cup N(1 .. c)
    <3> HIDE DEF N, F
    <3> QED
      BY <2>1, <2>3
  <2> QED
    BY <2>4
<1>8. /\ DOMAIN values' = {Node(a, Length(a)) : a \in 1 .. c}
      /\ \A a \in 1 .. c : values'[Node(a, Length(a))] = a - 1
  <2>1. /\ DOMAIN values = {Node(a, Length(a)) : a \in 1 .. next}
        /\ \A a \in 1 .. next : values[Node(a, Length(a))] = a - 1
    BY <1>1 DEF Built
  <2>2. PICK leaf : leaf = Node(c, Length(c))
    OBVIOUS
  <2>3. values' = [n \in DOMAIN values \cup {leaf} |-> IF n = leaf THEN next ELSE values[n]]
    BY <1>6, <2>2
  <2>4. DOMAIN values' = {Node(a, Length(a)) : a \in 1 .. c}
    <3>1. DOMAIN values' = DOMAIN values \cup {leaf}
      BY <2>3
    <3> QED
      BY <1>2, <2>1, <2>2, <3>1
  <2>5. ASSUME NEW a \in 1 .. c  PROVE values'[Node(a, Length(a))] = a - 1
    <3>1. CASE a = c
      <4>1. values'[leaf] = next
        BY <2>3
      <4>2. c - 1 = next
        BY <1>1, <1>c
      <4> QED
        BY <2>2, <3>1, <4>1, <4>2
    <3>2. CASE a # c
      <4>1. a \in 1 .. next
        BY <1>2, <3>2
      <4>2. a \in Rows /\ Length(a) \in 0 .. Length(a)
        <5>1. a \in Rows
          BY <1>1, <4>1 DEF Rows, EOS
        <5>2. Length(a) \in 1 .. 30
          BY <5>1, CodeType
        <5> QED
          BY <5>1, <5>2
      <4>3. Node(a, Length(a)) # leaf
        BY <1>2, <2>2, <3>2, <4>2, PrefixFree
      <4>4. Node(a, Length(a)) \in DOMAIN values
        BY <2>1, <4>1
      <4>5. values'[Node(a, Length(a))] = values[Node(a, Length(a))]
        BY <2>3, <4>3, <4>4
      <4> QED
        BY <2>1, <4>1, <4>5
    <3> QED
      BY <3>1, <3>2
  <2> QED
    BY <2>4, <2>5
<1>9. /\ next' = c /\ next' \in 0 .. EOS + 1
      /\ pc' = "building" <=> next' < EOS + 1
      /\ pc' \in {"building", "idle"}
  BY <1>1, <1>4, <1>5, <1>c DEF EOS
<1>10. Built'
  BY <1>7, <1>8, <1>9 DEF Built
<1>11. Waiting' /\ Walking'
  BY <1>1, <1>9 DEF Waiting, Walking
<1>12. TextRecovered'
  BY <1>1, <1>9 DEF TextRecovered
<1> QED
  BY <1>9, <1>10, <1>11, <1>12 DEF IInv

-----------------------------------------------------------------------------
\* The walk.

\* Beginnings of a text.
LEMMA Beginnings ==
  ASSUME NEW s \in Seq(0 .. EOS), NEW k \in 0 .. Len(s)
  PROVE  /\ Len(s) \in Nat /\ Len(SubSeq(s, 1, k)) = k
         /\ IsPrefix(SubSeq(s, 1, k), s)
         /\ SubSeq(s, 1, Len(s)) = s
         /\ k < Len(s) => Append(SubSeq(s, 1, k), s[k + 1]) = SubSeq(s, 1, k + 1)
<1>1. PICK S : s \in Seq(S)
  OBVIOUS
<1>2. PICK n \in Nat : n = Len(s) /\ k \in 0 .. n /\ \A i \in 1 .. n : s[i] \in S
  BY <1>1, SeqElements
<1>3. PICK t : t = SubSeq(s, 1, k)
  OBVIOUS
<1>4. t \in Seq(S) /\ Len(t) = k /\ \A i \in 1 .. k : t[i] = s[i]
  BY <1>1, <1>2, <1>3
<1>5. SubSeq(t, 1, k) = t
  BY <1>2, <1>4
<1>6. IsPrefix(t, s)
  BY <1>2, <1>3, <1>4, <1>5 DEF IsPrefix
<1>7. SubSeq(s, 1, n) = s
  BY <1>1, <1>2
<1>8. ASSUME k < n  PROVE Append(t, s[k + 1]) = SubSeq(s, 1, k + 1)
  <2>1. PICK v \in S : v = s[k + 1]
    BY <1>2, <1>8
  <2>2. PICK w : w = SubSeq(s, 1, k + 1)
    OBVIOUS
  <2>3. w \in Seq(S) /\ Len(w) = k + 1 /\ \A i \in 1 .. k + 1 : w[i] = s[i]
    BY <1>1, <1>2, <1>8, <2>2
  <2>4. Append(t, v) \in Seq(S) /\ Len(Append(t, v)) = k + 1
    BY <1>4
  <2>5. ASSUME NEW i \in 1 .. k + 1  PROVE Append(t, v)[i] = w[i]
    BY <1>2, <1>4, <2>1, <2>3
  <2>6. Append(t, v) = w
    BY <2>3, <2>4, <2>5, SeqEqual
  <2> QED
    BY <2>1, <2>2, <2>6
<1> QED
  BY <1>2, <1>3, <1>4, <1>6, <1>7, <1>8

\* A string arrives: the walk stands at the root, before the first code.
LEMMA SendStep == ASSUME IInv, NEW s \in Texts, Send(s)  PROVE IInv'
<1>1. /\ Built /\ Waiting /\ pc = "idle" /\ pc' = "decoding"
      /\ text' = s /\ input' = Encoded(s)
      /\ UNCHANGED <<next, nodes, values, offset, node, decoded>>
  BY DEF IInv, Send, tree
<1>2. decoded = <<>> /\ offset = 0 /\ node = 1 /\ Len(decoded) = 0
  BY <1>1 DEF Waiting
<1>3. s \in Seq(0 .. EOS) /\ Len(s) \in Nat
  <2>1. s \in Seq(0 .. EOS)
    BY TextsAssumption
  <2> QED
    BY <2>1, SeqElements
<1>4. SubSeq(s, 1, 0) = <<>>
  BY <1>3
<1>5. BitsBefore(s, 0) = 0
  <2>1. PICK joined : joined[0] = <<>> /\ \A k \in 0 .. Len(s) : TextBits(SubSeq(s, 1, k)) = joined[k]
    BY <1>3, TextBitsJoin
  <2>2. 0 \in 0 .. Len(s)
    BY <1>3
  <2>3. TextBits(SubSeq(s, 1, 0)) = <<>>
    BY <2>1, <2>2
  <2> QED
    BY <2>3 DEF BitsBefore
<1>6. 0 <= Len(input') /\ Len(input') \in Nat
  <2>1. 0 \in 0 .. Len(s)
    BY <1>3
  <2>2. Len(Encoded(s)) \in Nat
    BY <1>3, <2>1, EncodedBits
  <2> QED
    BY <1>1, <2>2
<1>7. /\ 0 \in 0 .. Length(RowBehind(s, 0)) - 1
      /\ Node(RowBehind(s, 0), 0) = 1
  <2>1. RowBehind(s, 0) \in Rows
    BY <1>3, RowsOfSymbols
  <2>2. Length(RowBehind(s, 0)) \in 1 .. 30
    BY <2>1, CodeType
  <2> QED
    BY <2>1, <2>2, NodeRoot
<1>8. Walking'
  <2>1. /\ decoded' = <<>> /\ Len(decoded') = 0 /\ offset' = 0 /\ node' = 1
        /\ 0 \in 0 .. Len(s) /\ 0 = 0 + 0
    BY <1>1, <1>2, <1>3
  <2>2. \E d \in 0 .. Length(RowBehind(s, 0)) - 1 :
          offset' = BitsBefore(s, 0) + d /\ node' = Node(RowBehind(s, 0), d)
    BY <1>5, <1>7, <2>1
  <2> QED
    BY <1>1, <1>3, <1>4, <1>6, <2>1, <2>2 DEF Walking
<1>9. Built' /\ Waiting'
  BY <1>1 DEF Built, Waiting
<1>10. TextRecovered'
  <2>1. IsPrefix(SubSeq(s, 1, 0), s)
    <3>1. 0 \in 0 .. Len(s)
      BY <1>3
    <3> QED
      BY <1>3, <3>1, Beginnings
  <2>2. decoded' = SubSeq(s, 1, 0) /\ text' = s
    BY <1>1, <1>2, <1>4
  <2>3. IsPrefix(decoded', text')
    BY <2>1, <2>2
  <2> QED
    BY <1>1, <2>3 DEF TextRecovered
<1> QED
  BY <1>1, <1>8, <1>9, <1>10 DEF IInv

\* Where a walk in progress stands.
Stands(k, c, at, d) ==
  /\ k \in 0 .. Len(text) /\ k = Len(decoded) /\ decoded = SubSeq(text, 1, k)
  /\ c \in Rows /\ c = RowBehind(text, k)
  /\ at \in Nat /\ at = BitsBefore(text, k)
  /\ d \in 0 .. Length(c) - 1
  /\ offset = at + d /\ offset <= Len(input) /\ Len(input) \in Nat
  /\ node = Node(c, d)

\* A walk in progress stands somewhere.
LEMMA StandsSomewhere ==
  ASSUME IInv, pc = "decoding"
  PROVE  /\ text \in Seq(0 .. EOS) /\ input = Encoded(text)
         /\ \E k, c, at, d : Stands(k, c, at, d)
<1>1. Walking
  BY DEF IInv
<1>2. /\ text \in Seq(0 .. EOS) /\ input = Encoded(text)
      /\ offset <= Len(input)
  BY <1>1 DEF Walking
<1>3. PICK k \in 0 .. Len(text) : k = Len(decoded) /\ decoded = SubSeq(text, 1, k)
  BY <1>1 DEF Walking
<1>4. Len(text) \in Nat /\ k \in Nat
  <2>1. Len(text) \in Nat
    BY <1>2, SeqElements
  <2> QED
    BY <2>1
<1>5. PICK c \in Rows : c = RowBehind(text, k)
  BY <1>2, <1>4, RowsOfSymbols
<1>6. PICK at \in Nat : at = BitsBefore(text, k)
  BY <1>2, EncodedBits
<1>7. PICK d \in 0 .. Length(c) - 1 : offset = at + d /\ node = Node(c, d)
  BY <1>1, <1>3, <1>5, <1>6 DEF Walking
<1>8. Len(input) \in Nat
  BY <1>2, EncodedBits
<1>9. Stands(k, c, at, d)
  BY <1>2, <1>3, <1>5, <1>6, <1>7, <1>8 DEF Stands
<1> QED
  BY <1>2, <1>9

\* The bit that is fetched is the next one of the code the walk has begun.
LEMMA NextNode ==
  ASSUME IInv, pc = "decoding", offset < Len(input),
         NEW k, NEW c, NEW at, NEW d, Stands(k, c, at, d)
  PROVE  /\ Child(node, FetchedBit) = Node(c, d + 1)
         /\ Node(c, d + 1) \in nodes
         /\ Node(c, d + 1) \in DOMAIN values <=> d + 1 = Length(c)
         /\ d + 1 = Length(c) => values[Node(c, d + 1)] = c - 1
<1>1. /\ k \in 0 .. Len(text) /\ c \in Rows /\ c = RowBehind(text, k)
      /\ at \in Nat /\ at = BitsBefore(text, k)
      /\ d \in 0 .. Length(c) - 1 /\ offset = at + d /\ node = Node(c, d)
  BY DEF Stands
<1>2. text \in Seq(0 .. EOS) /\ input = Encoded(text)
  BY StandsSomewhere
<1>3. FetchedBit = Bit(c, d + 1)
  <2>1. input[(at + d) + 1] = Bit(c, d + 1)
    BY <1>1, <1>2, EncodedBits
  <2> QED
    BY <1>1, <2>1 DEF FetchedBit
<1>4. Node(c, d + 1) = Child(Node(c, d), Bit(c, d + 1))
  BY <1>1, NodeChild
<1>5. Length(c) \in 1 .. 30
  BY <1>1, CodeType
<1>6. d + 1 \in 0 .. Length(c)
  <2>1. PICK len \in 1 .. 30 : len = Length(c) /\ d \in 0 .. len - 1
    BY <1>1, <1>5
  <2>2. d + 1 \in 0 .. len
    BY <2>1
  <2> QED
    BY <2>1, <2>2
<1>7. Built /\ pc # "building"
  BY DEF IInv
<1>8. /\ Node(c, d + 1) \in nodes
      /\ Node(c, d + 1) \in DOMAIN values <=> d + 1 = Length(c)
      /\ values[Node(c, Length(c))] = c - 1
  BY <1>1, <1>6, <1>7, WholeTree
<1> QED
  BY <1>1, <1>3, <1>4, <1>8

\* One turn of the loop: the walk goes on, a symbol is found, or EOS is.
LEMMA WalkStep == ASSUME IInv, WalkBit  PROVE IInv'
<1>1. /\ pc = "decoding" /\ offset < Len(input) /\ Built /\ TextRecovered
      /\ UNCHANGED <<next, nodes, values, text, input>>
  BY DEF IInv, WalkBit, tree
<1>2. text \in Seq(0 .. EOS) /\ input = Encoded(text)
  BY <1>1, StandsSomewhere
<1>3. PICK k, c, at, d : Stands(k, c, at, d)
  BY <1>1, StandsSomewhere
<1>4. /\ k \in 0 .. Len(text) /\ k = Len(decoded) /\ decoded = SubSeq(text, 1, k)
      /\ c \in Rows /\ c = RowBehind(text, k)
      /\ at \in Nat /\ at = BitsBefore(text, k)
      /\ d \in 0 .. Length(c) - 1
      /\ offset = at + d /\ Len(input) \in Nat
  BY <1>3 DEF Stands
<1>5. PICK child : /\ child = Child(node, FetchedBit) /\ child = Node(c, d + 1)
                   /\ child \in nodes
                   /\ child \in DOMAIN values <=> d + 1 = Length(c)
                   /\ d + 1 = Length(c) => values[child] = c - 1
  BY <1>1, <1>3, NextNode
<1>6. PICK n \in Nat : n = Len(text) /\ \A i \in 1 .. n : text[i] \in 0 .. EOS
  <2>1. Len(text) \in Nat /\ \A i \in 1 .. Len(text) : text[i] \in 0 .. EOS
    BY <1>2, SeqElements
  <2> QED
    BY <2>1
<1>7. PICK len \in 1 .. 30 : len = Length(c)
  BY <1>4, CodeType
<1>8. IsPrefix(decoded, text)
  BY <1>1 DEF TextRecovered
<1>9. CASE child \notin DOMAIN values
  <2>1. node' = child /\ offset' = offset + 1 /\ UNCHANGED <<pc, decoded>>
    BY <1>5, <1>9, Zenon DEF WalkBit
  <2>2. /\ d + 1 \in 0 .. Length(c) - 1 /\ offset' = at + (d + 1) /\ offset' <= Len(input)
    BY <1>1, <1>4, <1>5, <1>7, <1>9, <2>1
  <2>3. Walking'
    <3>1. /\ text' = text /\ input' = input /\ decoded' = decoded /\ pc' = pc
          /\ Len(decoded) \in 0 .. Len(text) /\ decoded = SubSeq(text, 1, Len(decoded))
          /\ RowBehind(text, Len(decoded)) = c /\ BitsBefore(text, Len(decoded)) = at
      BY <1>1, <1>4, <2>1
    <3>2. \E e \in 0 .. Length(c) - 1 : offset' = at + e /\ node' = Node(c, e)
      BY <1>5, <2>1, <2>2
    <3> QED
      BY <1>2, <2>2, <3>1, <3>2, Zenon DEF Walking
  <2>4. Built' /\ Waiting' /\ TextRecovered'
    BY <1>1, <2>1 DEF Built, Waiting, TextRecovered
  <2> QED
    BY <1>1, <2>1, <2>3, <2>4 DEF IInv
<1>10. CASE child \in DOMAIN values /\ values[child] = EOS
  <2>1. pc' = "done" /\ UNCHANGED <<decoded, offset>>
    <3>1. Found(child)
      BY <1>5, <1>10, Zenon DEF WalkBit
    <3> QED
      BY <1>10, <3>1, Zenon DEF Found
  <2>2. c = EOS + 1
    BY <1>4, <1>5, <1>10 DEF Rows, EOS
  <2>3. decoded = text \/ text[Len(decoded) + 1] = EOS
    <3>1. CASE k < n
      <4>1. PICK v \in 0 .. EOS : v = text[k + 1]
        BY <1>4, <1>6, <3>1
      <4>2. v + 1 = EOS + 1
        BY <1>4, <1>6, <2>2, <3>1, <4>1 DEF RowBehind
      <4>3. v = EOS
        BY <4>2 DEF EOS
      <4> QED
        BY <1>4, <4>1, <4>3
    <3>2. CASE ~(k < n)
      <4>1. k = Len(text)
        BY <1>4, <1>6, <3>2
      <4>2. SubSeq(text, 1, Len(text)) = text
        BY <1>2, <1>4, Beginnings
      <4> QED
        BY <1>4, <4>1, <4>2
    <3> QED
      BY <3>1, <3>2
  <2>4. TextRecovered'
    <3>1. text' = text /\ decoded' = decoded
      BY <1>1, <2>1
    <3> QED
      BY <1>8, <2>1, <2>3, <3>1, Zenon DEF TextRecovered
  <2>5. Built' /\ Waiting' /\ Walking'
    BY <1>1, <2>1 DEF Built, Waiting, Walking
  <2> QED
    BY <2>1, <2>4, <2>5 DEF IInv
<1>11. CASE child \in DOMAIN values /\ values[child] # EOS
  <2>1. /\ decoded' = Append(decoded, values[child])
        /\ node' = 1 /\ offset' = offset + 1 /\ UNCHANGED pc
    <3>1. Found(child)
      BY <1>5, <1>11, Zenon DEF WalkBit
    <3> QED
      BY <1>11, <3>1, Zenon DEF Found
  <2>2. d + 1 = len /\ values[child] = c - 1 /\ c # EOS + 1
    BY <1>5, <1>7, <1>11 DEF EOS
  <2>3. k < n
    BY <1>4, <1>6, <2>2 DEF RowBehind
  <2>4. PICK v \in 0 .. EOS : v = text[k + 1] /\ c = v + 1
    <3>1. text[k + 1] \in 0 .. EOS
      BY <1>4, <1>6, <2>3
    <3>2. c = text[k + 1] + 1
      BY <1>4, <1>6, <2>3 DEF RowBehind
    <3> QED
      BY <3>1, <3>2
  <2>5. values[child] = text[k + 1]
    <3>1. (v + 1) - 1 = v
      BY DEF EOS
    <3> QED
      BY <2>2, <2>4, <3>1
  <2>6. decoded' = SubSeq(text, 1, k + 1)
    <3>1. k < Len(text)
      BY <1>6, <2>3
    <3>2. Append(SubSeq(text, 1, k), text[k + 1]) = SubSeq(text, 1, k + 1)
      BY <1>2, <1>4, <3>1, Beginnings
    <3> QED
      BY <1>4, <2>1, <2>5, <3>2
  <2>7. k + 1 \in 0 .. Len(text) /\ k + 1 \in Nat
    BY <1>4, <1>6, <2>3
  <2>8. Len(decoded') = k + 1 /\ IsPrefix(decoded', text)
    BY <1>2, <2>6, <2>7, Beginnings
  <2>9. offset' = BitsBefore(text, k + 1) /\ offset' <= Len(input)
    <3>1. /\ BitsBefore(text, k + 1) = BitsBefore(text, k) + Length(RowBehind(text, k))
          /\ BitsBefore(text, k + 1) <= Len(Encoded(text))
      <4>1. k < Len(text)
        BY <1>6, <2>3
      <4> QED
        BY <1>2, <1>4, <4>1, EncodedBits
    <3>2. (at + d) + 1 = at + len
      BY <1>4, <1>7, <2>2
    <3>3. offset' = at + len
      BY <1>4, <2>1, <3>2
    <3> QED
      BY <1>2, <1>4, <1>7, <3>1, <3>3
  <2>10. PICK b \in Rows : b = RowBehind(text, k + 1) /\ 0 \in 0 .. Length(b) - 1
    <3>1. PICK b \in Rows : b = RowBehind(text, k + 1)
      BY <1>2, <2>7, RowsOfSymbols
    <3>2. Length(b) \in 1 .. 30
      BY CodeType
    <3> QED
      BY <3>1, <3>2
  <2>11. node' = Node(b, 0)
    BY <2>1, NodeRoot
  <2>12. offset' = BitsBefore(text, k + 1) + 0
    <3>1. BitsBefore(text, k + 1) \in Nat
      BY <1>2, <2>7, EncodedBits
    <3> QED
      BY <2>9, <3>1
  <2>13. Walking'
    <3>1. \E e \in 0 .. Length(RowBehind(text, k + 1)) - 1 :
            /\ offset' = BitsBefore(text, k + 1) + e
            /\ node' = Node(RowBehind(text, k + 1), e)
      BY <2>10, <2>11, <2>12, Zenon
    <3>2. /\ text' = text /\ input' = input /\ pc' = pc
      BY <1>1, <2>1
    <3> QED
      BY <1>2, <2>6, <2>7, <2>8, <2>9, <3>1, <3>2, Zenon DEF Walking
  <2>14. TextRecovered'
    <3>1. text' = text /\ pc' = "decoding"
      BY <1>1, <2>1
    <3> QED
      BY <2>8, <3>1 DEF TextRecovered
  <2>15. Built' /\ Waiting'
    BY <1>1, <2>1 DEF Built, Waiting
  <2> QED
    BY <1>1, <2>1, <2>13, <2>14, <2>15 DEF IInv
<1> QED
  BY <1>9, <1>10, <1>11

\* The input ends: every code lies within it, so that a walk that is not over is one
\* through the padding.
LEMMA EndStep == ASSUME IInv, InputEnds  PROVE IInv'
<1>1. /\ pc = "decoding" /\ offset = Len(input) /\ Built /\ TextRecovered
      /\ UNCHANGED <<next, nodes, values, text, input, offset, node, decoded>>
      /\ pc' = "done"
  BY DEF IInv, InputEnds, tree
<1>2. text \in Seq(0 .. EOS) /\ input = Encoded(text)
  BY <1>1, StandsSomewhere
<1>3. PICK k, c, at, d : Stands(k, c, at, d)
  BY <1>1, StandsSomewhere
<1>4. /\ k \in 0 .. Len(text) /\ decoded = SubSeq(text, 1, k)
      /\ c \in Rows /\ c = RowBehind(text, k)
      /\ at \in Nat /\ at = BitsBefore(text, k)
      /\ d \in 0 .. Length(c) - 1 /\ offset = at + d
  BY <1>3 DEF Stands
<1>5. Len(text) \in Nat
  BY <1>2, SeqElements
<1>6. ~(k < Len(text))
  <2>1. SUFFICES ASSUME k < Len(text)  PROVE FALSE
    OBVIOUS
  <2>2. /\ BitsBefore(text, k + 1) = BitsBefore(text, k) + Length(RowBehind(text, k))
        /\ BitsBefore(text, k + 1) <= Len(Encoded(text))
    BY <1>2, <1>4, <2>1, EncodedBits
  <2>3. at + Length(c) <= at + d
    BY <1>1, <1>2, <1>4, <2>2
  <2>4. PICK len \in 1 .. 30 : len = Length(c) /\ d \in 0 .. len - 1
    BY <1>4, CodeType
  <2>5. at + len <= at + d
    BY <2>3, <2>4
  <2> QED
    BY <1>4, <2>4, <2>5
<1>7. decoded = text
  <2>1. k = Len(text)
    BY <1>4, <1>5, <1>6
  <2>2. SubSeq(text, 1, Len(text)) = text
    BY <1>2, <1>4, Beginnings
  <2> QED
    BY <1>4, <2>1, <2>2
<1>8. TextRecovered'
  <2>1. text' = text /\ decoded' = decoded /\ IsPrefix(decoded, text)
    BY <1>1 DEF TextRecovered
  <2> QED
    BY <1>1, <1>7, <2>1 DEF TextRecovered
<1>9. Built' /\ Waiting' /\ Walking'
  BY <1>1 DEF Built, Waiting, Walking
<1> QED
  BY <1>1, <1>8, <1>9 DEF IInv

\* Nothing happens.
LEMMA StutterStep == ASSUME IInv, UNCHANGED vars  PROVE IInv'
BY DEF IInv, Built, Waiting, Walking, TextRecovered, vars, tree

\* No step leaves the invariant.
\* Every step keeps the invariant.
LEMMA StepInvariant == IInv /\ [Next]_vars => IInv'
<1> SUFFICES ASSUME IInv, [Next]_vars  PROVE IInv'
  OBVIOUS
<1>1. CASE insert_code
  BY <1>1, InsertStep
<1>2. CASE \E s \in Texts : Send(s)
  BY <1>2, SendStep
<1>3. CASE WalkBit
  BY <1>3, WalkStep
<1>4. CASE InputEnds
  BY <1>4, EndStep
<1>5. CASE Terminated \/ UNCHANGED vars
  BY <1>5, StutterStep DEF Terminated
<1> QED
  BY <1>1, <1>2, <1>3, <1>4, <1>5 DEF Next

\* The invariant holds in every state.
LEMMA InvariantAlways == Spec => []IInv
<1> QED
  BY InitInvariant, StepInvariant, PTL DEF Spec

\* Whatever text the peer encodes, the decoder throws nothing and returns the
\* text, or what precedes EOS in it (decode_huffman).
THEOREM TextRecoveredAlways == Spec => []TextRecovered
<1>1. IInv => TextRecovered
  BY DEF IInv
<1> QED
  BY <1>1, InvariantAlways, PTL

\* The bits that were read are those of the symbols decoded and of the walk in
\* progress, whatever the table and the text (decode_huffman's loop).
THEOREM BitsAccountedAlways == Spec => []BitsAccounted
<1>1. IInv => BitsAccounted
  <2>1. SUFFICES ASSUME IInv, pc = "decoding"
        PROVE  /\ node \in nodes \ DOMAIN values
               /\ TextBits(decoded)
                    \o [i \in 1 .. Depth(node) |-> (node \div 2^(Depth(node) - i)) % 2]
                  = SubSeq(input, 1, offset)
    BY DEF BitsAccounted
  <2>2. text \in Seq(0 .. EOS) /\ input = Encoded(text)
    BY <2>1, StandsSomewhere
  <2>3. PICK k, c, at, d : Stands(k, c, at, d)
    BY <2>1, StandsSomewhere
  <2>4. /\ k \in 0 .. Len(text) /\ decoded = SubSeq(text, 1, k)
        /\ c \in Rows /\ c = RowBehind(text, k)
        /\ at \in Nat /\ at = BitsBefore(text, k)
        /\ d \in 0 .. Length(c) - 1
        /\ offset = at + d /\ offset <= Len(input) /\ Len(input) \in Nat
        /\ node = Node(c, d)
    BY <2>3 DEF Stands
  <2>5. PICK len \in 1 .. 30 : len = Length(c) /\ d \in 0 .. len - 1 /\ d \in 0 .. len
    <3>1. Length(c) \in 1 .. 30
      BY <2>4, CodeType
    <3>2. PICK len : len = Length(c)
      OBVIOUS
    <3>3. len \in 1 .. 30 /\ d \in 0 .. len - 1
      BY <2>4, <3>1, <3>2
    <3>4. d \in 0 .. len
      BY <3>3
    <3> QED
      BY <3>2, <3>3, <3>4
  <2>6. node \in nodes \ DOMAIN values
    <3>1. Built /\ pc # "building"
      BY <2>1 DEF IInv
    <3>2. /\ Node(c, d) \in nodes
          /\ Node(c, d) \in DOMAIN values <=> d = Length(c)
      BY <2>4, <2>5, <3>1, WholeTree
    <3>3. d # len
      BY <2>5
    <3> QED
      BY <2>4, <2>5, <3>2, <3>3
  <2>7. Depth(node) = d
    BY <2>4, <2>5, DepthIs
  <2>8. PICK walked : walked = [i \in 1 .. d |-> Bit(c, i)]
    OBVIOUS
  <2>9. [i \in 1 .. Depth(node) |-> (node \div 2^(Depth(node) - i)) % 2] = walked
    <3>1. ASSUME NEW i \in 1 .. d  PROVE (node \div 2^(d - i)) % 2 = Bit(c, i)
      BY <2>4, <2>5, NodeDigits
    <3>2. [i \in 1 .. d |-> (node \div 2^(d - i)) % 2] = [i \in 1 .. d |-> Bit(c, i)]
      BY <3>1, Zenon
    <3> QED
      BY <2>7, <2>8, <3>2, Zenon
  <2>10. walked \in Seq({0, 1}) /\ Len(walked) = d /\ \A i \in 1 .. d : walked[i] = Bit(c, i)
    <3>1. ASSUME NEW i \in 1 .. d  PROVE Bit(c, i) \in {0, 1}
      <4>1. PICK h \in 0 .. len - 1 : i = h + 1
        <5>1. i - 1 \in 0 .. len - 1 /\ i = (i - 1) + 1
          BY <2>5
        <5> QED
          BY <5>1
      <4> QED
        BY <2>4, <2>5, <4>1, StartSteps
    <3>2. walked \in [1 .. d -> {0, 1}]
      BY <2>8, <3>1
    <3>3. d \in Nat
      BY <2>5
    <3> QED
      BY <2>8, <3>2, <3>3
  <2>11. PICK u \in Seq({0, 1}) :
             /\ u = TextBits(decoded) /\ Len(u) = at
             /\ \A i \in 1 .. at : input[i] = u[i]
    <3>1. /\ TextBits(SubSeq(text, 1, k)) \in Seq({0, 1})
          /\ \A i \in 1 .. at : Encoded(text)[i] = TextBits(SubSeq(text, 1, k))[i]
      BY <2>2, <2>4, EncodedBits
    <3>2. Len(TextBits(SubSeq(text, 1, k))) = at
      BY <2>4 DEF BitsBefore
    <3> QED
      BY <2>2, <2>4, <3>1, <3>2
  <2>12. ASSUME NEW i \in 1 .. d  PROVE input[at + i] = walked[i]
    <3>1. PICK h \in 0 .. len - 1 : i = h + 1 /\ at + h < Len(input) /\ at + i = (at + h) + 1
      <4>1. /\ i - 1 \in 0 .. len - 1 /\ i = (i - 1) + 1 /\ at + (i - 1) < Len(input)
            /\ at + i = (at + (i - 1)) + 1
        BY <2>4, <2>5
      <4> QED
        BY <4>1
    <3>2. input[(at + h) + 1] = Bit(c, h + 1)
      BY <2>2, <2>4, <2>5, <3>1, EncodedBits
    <3> QED
      BY <2>10, <3>1, <3>2
  <2>13. u \o walked = SubSeq(input, 1, offset)
    <3>1. input \in Seq({0, 1})
      BY <2>2, EncodedType
    <3>2. PICK w : w = SubSeq(input, 1, offset)
      OBVIOUS
    <3>3. offset \in Nat /\ offset = at + d /\ d \in Nat
      BY <2>4, <2>5
    <3>4. w \in Seq({0, 1}) /\ Len(w) = offset /\ \A i \in 1 .. offset : w[i] = input[i]
      BY <2>4, <3>1, <3>2, <3>3
    <3>5. PICK x : x = u \o walked
      OBVIOUS
    <3>6. /\ x \in Seq({0, 1}) /\ Len(x) = at + d
          /\ \A i \in 1 .. at : x[i] = u[i]
          /\ \A i \in 1 .. d : x[at + i] = walked[i]
      BY <2>10, <2>11, <3>5, BitsConcat
    <3>7. ASSUME NEW i \in 1 .. offset  PROVE x[i] = w[i]
      <4>1. CASE i <= at
        <5>1. i \in 1 .. at
          BY <4>1
        <5> QED
          BY <2>11, <3>4, <3>6, <5>1
      <4>2. CASE ~(i <= at)
        <5>1. PICK j \in 1 .. d : i = at + j
          <6>1. i - at \in 1 .. d /\ i = at + (i - at)
            BY <2>4, <3>3, <4>2
          <6> QED
            BY <6>1
        <5> QED
          BY <2>12, <3>4, <3>6, <5>1
      <4> QED
        BY <4>1, <4>2
    <3>8. x = w
      BY <3>3, <3>4, <3>6, <3>7, SeqEqual
    <3> QED
      BY <3>2, <3>5, <3>8
  <2> QED
    BY <2>6, <2>9, <2>11, <2>13
<1> QED
  BY <1>1, InvariantAlways, PTL

-----------------------------------------------------------------------------
\* The tree as a whole.

\* Beside every node of a code, below the root, there is another: the table is
\* complete.
LEMMA BothChildren ==
  ASSUME NEW c \in Rows, NEW i \in 0 .. Length(c) - 1, NEW bit \in {0, 1}
  PROVE  \E b \in Rows : i + 1 \in 0 .. Length(b) /\ Node(b, i + 1) = 2 * Node(c, i) + bit
<1>1. PICK len \in 1 .. 30 : len = Length(c) /\ i \in 0 .. len - 1
  BY CodeType
<1>2. Node(c, i + 1) = 2 * Node(c, i) + Bit(c, i + 1) /\ Bit(c, i + 1) \in {0, 1}
  BY NodeChild DEF Child
<1>3. CASE bit = Bit(c, i + 1)
  <2>1. i + 1 \in 0 .. Length(c)
    BY <1>1
  <2> QED
    BY <1>2, <1>3, <2>1
<1>4. CASE bit # Bit(c, i + 1)
  <2>1. PICK j \in 1 .. Codes[c][1] : j = i + 1
    <3>1. i + 1 \in 1 .. len
      BY <1>1
    <3> QED
      BY <1>1, <3>1 DEF Length
  <2>2. PICK b \in Rows : /\ j <= Codes[b][1]
                          /\ Start(Codes[c], j) \div 2 = Start(Codes[b], j) \div 2
                          /\ Start(Codes[c], j) # Start(Codes[b], j)
    BY CodesAssumption DEF Rows
  <2>3. PICK n \in 1 .. 30 : n = Length(b) /\ j <= n
    BY <2>2, CodeType DEF Length
  <2>4. i \in 0 .. Length(b) - 1 /\ i + 1 \in 0 .. Length(b)
    <3>1. i \in 0 .. n - 1 /\ i + 1 \in 0 .. n
      BY <1>1, <2>1, <2>3
    <3> QED
      BY <2>3, <3>1
  <2>5. /\ Start(Codes[c], i + 1) = 2 * Start(Codes[c], i) + Bit(c, i + 1)
        /\ Start(Codes[c], i + 1) \div 2 = Start(Codes[c], i)
    BY StartSteps
  <2>6. /\ Start(Codes[b], i + 1) = 2 * Start(Codes[b], i) + Bit(b, i + 1)
        /\ Start(Codes[b], i + 1) \div 2 = Start(Codes[b], i)
        /\ Bit(b, i + 1) \in {0, 1}
    BY <2>4, StartSteps
  <2>7. Start(Codes[b], i) = Start(Codes[c], i)
    BY <2>1, <2>2, <2>5, <2>6
  <2>8. Bit(b, i + 1) # Bit(c, i + 1)
    BY <2>1, <2>2, <2>5, <2>6, <2>7
  <2>9. Bit(b, i + 1) = bit
    BY <1>2, <1>4, <2>6, <2>8
  <2>10. Node(b, i) = Node(c, i)
    BY <2>7 DEF Node, NodeAt
  <2>11. Node(b, i + 1) = 2 * Node(b, i) + Bit(b, i + 1)
    BY <2>4, NodeChild DEF Child
  <2> QED
    BY <2>4, <2>9, <2>10, <2>11
<1> QED
  BY <1>3, <1>4

\* The leaves of two codes are in order of length and then of symbol.
LEMMA LeavesInOrder ==
  ASSUME NEW a \in Rows, NEW b \in Rows, NEW m, NEW n,
         m = Node(a, Length(a)), n = Node(b, Length(b)), m < n
  PROVE  /\ Length(a) = Length(b) => a < b
         /\ Length(a) < Length(b) => m < n \div 2^(Length(b) - Length(a))
<1>1. PICK k \in 1 .. 30, l \in 1 .. 30 : k = Length(a) /\ l = Length(b)
  BY CodeType
<1>2. PICK w \in Nat : w = 2^k
  <2>1. k \in 0 .. 30
    OBVIOUS
  <2> QED
    BY <2>1, PowerDoubles
<1>3. PICK x \in Nat : x = Codes[a][2] /\ m = w + x
  <2>1. Codes[a][2] \in Nat /\ m = 2^k + Codes[a][2]
    BY <1>1, CodeType, StartEnds DEF Node, NodeAt
  <2> QED
    BY <1>2, <2>1
<1>4. ASSUME k = l  PROVE a < b
  <2>1. PICK y \in Nat : y = Codes[b][2] /\ n = w + y
    <3>1. Codes[b][2] \in Nat /\ n = 2^l + Codes[b][2]
      BY <1>1, CodeType, StartEnds DEF Node, NodeAt
    <3> QED
      BY <1>2, <1>4, <3>1
  <2>2. x < y
    BY <1>3, <2>1
  <2>3. b < a => y < x
    BY <1>1, <1>3, <1>4, <2>1, CodesAssumption DEF Rows, Length
  <2>4. a # b
    BY <1>3, <2>1, <2>2
  <2>5. ~(b < a)
    BY <2>2, <2>3
  <2> QED
    BY <2>4, <2>5 DEF Rows, EOS
<1>5. ASSUME k < l  PROVE m < n \div 2^(l - k)
  <2>1. l \in 0 .. Length(b) /\ l - k \in 0 .. l /\ l - (l - k) = k
    BY <1>1, <1>5
  <2>2. n \div 2^(l - k) = Node(b, k)
    BY <1>1, <2>1, NodeAncestor
  <2>3. PICK y \in Nat : y = Start(Codes[b], k) /\ Node(b, k) = w + y
    <3>1. k \in 0 .. Length(b) - 1
      BY <1>1, <1>5
    <3>2. Start(Codes[b], k) \in Nat
      BY <3>1, StartSteps
    <3> QED
      BY <1>2, <3>2 DEF Node, NodeAt
  <2>4. x < y
    BY <1>1, <1>3, <1>5, <2>3, CodesAssumption DEF Rows, Length
  <2>5. m < w + y
    BY <1>3, <2>4
  <2> QED
    BY <2>2, <2>3, <2>5
<1> QED
  BY <1>1, <1>4, <1>5

\* The tree that create_huffman_tree leaves behind is complete, has a leaf for
\* every symbol, and is in the canonical order, whatever the table.
THEOREM CanonicalTreeAlways == Spec => []CanonicalTree
<1>1. IInv => CanonicalTree
  <2>1. SUFFICES ASSUME IInv, pc = "idle"  PROVE CanonicalTree
    BY DEF CanonicalTree
  <2>2. Built /\ pc # "building" /\ next = EOS + 1 /\ 1 .. next = Rows
    <3>1. Built /\ pc # "building"
      BY <2>1 DEF IInv
    <3>2. next \in 0 .. EOS + 1 /\ ~(next < EOS + 1)
      BY <3>1 DEF Built
    <3> QED
      BY <3>1, <3>2 DEF Rows, EOS
  <2>3. ASSUME NEW n \in nodes \ DOMAIN values
        PROVE  {2 * n, 2 * n + 1} \subseteq nodes
    <3>1. PICK c, i : c \in Rows /\ i \in 0 .. Length(c) /\ n = Node(c, i)
      <4>1. CASE n = 1
        <5>1. 1 \in Rows
          BY DEF Rows, EOS
        <5>2. 0 \in 0 .. Length(1) /\ Node(1, 0) = 1
          BY <5>1, CodeType, NodeRoot
        <5> QED
          BY <4>1, <5>1, <5>2
      <4>2. CASE n # 1
        <5>1. PICK c, i : c \in Rows /\ i \in 1 .. Length(c) /\ n = Node(c, i)
          BY <2>2, <4>2 DEF Built
        <5>2. i \in 0 .. Length(c)
          BY <5>1, CodeType
        <5> QED
          BY <5>1, <5>2
      <4> QED
        BY <4>1, <4>2
    <3>2. i # Length(c)
      BY <2>2, <3>1, WholeTree
    <3>3. i \in 0 .. Length(c) - 1
      BY <3>1, <3>2, CodeType
    <3>4. ASSUME NEW bit \in {0, 1}  PROVE 2 * n + bit \in nodes
      <4>1. PICK b \in Rows : /\ i + 1 \in 0 .. Length(b)
                              /\ Node(b, i + 1) = 2 * Node(c, i) + bit
        BY <3>1, <3>3, BothChildren
      <4>2. Node(b, i + 1) \in nodes
        BY <2>2, <4>1, WholeTree
      <4> QED
        BY <3>1, <4>1, <4>2
    <3>5. n \in Nat
      BY <3>1, <3>3, NodeChild
    <3>6. 2 * n + 0 \in nodes /\ 2 * n + 1 \in nodes /\ 2 * n + 0 = 2 * n
      BY <3>4, <3>5
    <3> QED
      BY <3>6
  <2>4. ASSUME NEW n \in DOMAIN values
        PROVE  \E c \in Rows : /\ n = Node(c, Length(c)) /\ values[n] = c - 1
                               /\ Depth(n) = Length(c)
    <3>1. PICK c \in Rows : n = Node(c, Length(c)) /\ values[n] = c - 1
      BY <2>2 DEF Built
    <3>2. Length(c) \in 0 .. Length(c)
      BY CodeType
    <3> QED
      BY <3>1, <3>2, DepthIs
  <2>5. {values[n] : n \in DOMAIN values} = 0 .. EOS
    <3>1. ASSUME NEW n \in DOMAIN values  PROVE values[n] \in 0 .. EOS
      BY <2>4 DEF Rows, EOS
    <3>2. ASSUME NEW v \in 0 .. EOS  PROVE \E n \in DOMAIN values : values[n] = v
      <4>1. PICK c \in Rows : c - 1 = v
        <5>1. v + 1 \in Rows /\ (v + 1) - 1 = v
          BY DEF Rows, EOS
        <5> QED
          BY <5>1
      <4>2. Length(c) \in 0 .. Length(c)
        BY CodeType
      <4>3. Node(c, Length(c)) \in DOMAIN values /\ values[Node(c, Length(c))] = v
        BY <2>2, <4>1, <4>2, WholeTree
      <4> QED
        BY <4>3
    <3> QED
      BY <3>1, <3>2
  <2>6. PICK depth : depth = [n \in DOMAIN values |-> Depth(n)]
    OBVIOUS
  <2>7. ASSUME NEW m \in DOMAIN values, NEW n \in DOMAIN values, m < n
        PROVE  /\ depth[m] = depth[n] => values[m] < values[n]
               /\ depth[m] < depth[n] => m < n \div 2^(depth[n] - depth[m])
    <3>1. PICK a \in Rows : /\ m = Node(a, Length(a)) /\ values[m] = a - 1
                            /\ depth[m] = Length(a)
      BY <2>4, <2>6
    <3>2. PICK b \in Rows : /\ n = Node(b, Length(b)) /\ values[n] = b - 1
                            /\ depth[n] = Length(b)
      BY <2>4, <2>6
    <3>3. /\ Length(a) = Length(b) => a < b
          /\ Length(a) < Length(b) => m < n \div 2^(Length(b) - Length(a))
      BY <2>7, <3>1, <3>2, LeavesInOrder
    <3>4. a < b => a - 1 < b - 1
      BY DEF Rows
    <3> QED
      BY <3>1, <3>2, <3>3, <3>4
  <2> QED
    BY <2>3, <2>5, <2>6, <2>7 DEF CanonicalTree
<1> QED
  BY <1>1, InvariantAlways, PTL

=============================================================================
