---------------------------- MODULE ConsoleProofs ---------------------------
(***************************************************************************)
(* Proofs about Console for every size of the text buffer and of the       *)
(* framebuffer console, any messages, and any number of calls and          *)
(* interrupts.                                                             *)
(***************************************************************************)
EXTENDS Console, WellFoundedInduction, FiniteSetTheorems, TLAPS

-----------------------------------------------------------------------------
(* Lines and columns of a text.                                            *)

(* A non-empty set of naturals has a least element.                        *)
LEMMA LeastOf ==
  ASSUME NEW T, T \subseteq Nat, T # {}
  PROVE  \E x \in T : \A y \in T : x <= y
<1> DEFINE R == OpToRel(<, Nat)
<1>1. IsWellFoundedOn(R, Nat)
  BY NatLessThanWellFounded, Zenon
<1>2. \A x, y \in Nat : x < y => <<x, y>> \in R
  BY Zenon DEF OpToRel
<1> HIDE DEF R
<1>3. PICK x \in T : \A y \in T : ~(<<y, x>> \in R)
  BY <1>1, WFMin, Zenon
<1>4. ASSUME NEW y \in T PROVE x <= y
  <2>1. x \in Nat /\ y \in Nat /\ ~(y < x)
    BY <1>2, <1>3, Zenon
  <2> QED
    BY <2>1
<1> QED
  BY Zenon, <1>4

(* Position s is the start of the line of position g in text t.            *)
StartsLine(t, g, s) ==
  s \in 0 .. g /\ (s = 0 \/ t[s] = "nl") /\ \A k \in s + 1 .. g : t[k] # "nl"

(* Every position has one start of its line.                               *)
LEMMA LineStartIs ==
  ASSUME NEW t, NEW g \in Nat
  PROVE  /\ StartsLine(t, g, LineStart(t, g))
         /\ \A s : StartsLine(t, g, s) => LineStart(t, g) = s
<1>1. \E s \in 0 .. g : StartsLine(t, g, s)
  <2> DEFINE T == {d \in 0 .. g : g - d = 0 \/ t[g - d] = "nl"}
  <2>1. T \subseteq Nat /\ g \in T
    OBVIOUS
  <2>2. PICK m \in T : \A y \in T : m <= y
    <3> HIDE DEF T
    <3> QED
      BY <2>1, LeastOf, Zenon
  <2>3. m \in 0 .. g /\ (g - m = 0 \/ t[g - m] = "nl")
    BY Zenon
  <2>4. ASSUME NEW k \in g - m + 1 .. g, t[k] = "nl" PROVE FALSE
    <3>1. g - k \in 0 .. g /\ g - (g - k) = k /\ g - k < m /\ g - k \in Nat
      BY <2>3, <2>4
    <3>2. g - k \in T
      BY Zenon, <3>1, <2>4
    <3> HIDE DEF T
    <3>3. m <= g - k
      BY Zenon, <2>2, <3>2
    <3> QED
      BY <3>1, <3>3, <2>3
  <2>5. g - m \in 0 .. g
    BY <2>3
  <2>6. StartsLine(t, g, g - m)
    BY <2>3, <2>4, <2>5, Zenon DEF StartsLine
  <2> QED
    BY Zenon, <2>5, <2>6
<1>2. StartsLine(t, g, LineStart(t, g))
  BY <1>1, Zenon DEF StartsLine, LineStart
<1>3. ASSUME NEW s, NEW u, StartsLine(t, g, s), StartsLine(t, g, u), s < u PROVE FALSE
  <2>1. u \in s + 1 .. g /\ u # 0
    BY <1>3 DEF StartsLine
  <2> QED
    BY <1>3, <2>1, Zenon DEF StartsLine
<1>4. ASSUME NEW s, StartsLine(t, g, s) PROVE LineStart(t, g) = s
  <2>1. s \in Nat /\ LineStart(t, g) \in Nat
    BY <1>2, <1>4 DEF StartsLine
  <2>2. ~(s < LineStart(t, g)) /\ ~(LineStart(t, g) < s)
    BY <1>2, <1>3, <1>4, Zenon
  <2> QED
    BY <2>1, <2>2
<1> QED
  BY Zenon, <1>2, <1>4

(* A byte behind a position leaves its line alone, and the next position   *)
(* starts a line exactly behind a newline.                                 *)
LEMMA LineStartStep ==
  ASSUME NEW t, NEW g \in Nat
  PROVE  /\ LineStart(t, g) \in 0 .. g
         /\ LineStart(t, g) = g => g = 0 \/ t[g] = "nl"
         /\ t[g] = "nl" => LineStart(t, g) = g
         /\ LineStart(t, 0) = 0
         /\ LineStart(t, g + 1) = IF t[g + 1] = "nl" THEN g + 1 ELSE LineStart(t, g)
         /\ \A u : (\A k \in 1 .. g : t[k] = u[k]) => LineStart(u, g) = LineStart(t, g)
<1> DEFINE s == LineStart(t, g)
<1>1. StartsLine(t, g, s)
  BY LineStartIs, Zenon
<1>2. t[g] = "nl" => StartsLine(t, g, g)
  BY DEF StartsLine
<1>3. StartsLine(t, 0, 0)
  BY DEF StartsLine
<1>4. t[g + 1] = "nl" => StartsLine(t, g + 1, g + 1)
  BY DEF StartsLine
<1> HIDE DEF s
<1>5. t[g + 1] # "nl" => StartsLine(t, g + 1, s)
  BY <1>1 DEF StartsLine
<1>6. ASSUME NEW u, \A k \in 1 .. g : t[k] = u[k] PROVE StartsLine(u, g, s)
  <2>1. s \in 0 .. g /\ (s # 0 => s \in 1 .. g) /\ \A k \in s + 1 .. g : k \in 1 .. g
    BY <1>1 DEF StartsLine
  <2> QED
    BY <1>1, <1>6, <2>1, Zenon DEF StartsLine
<1>7. g + 1 \in Nat /\ 0 \in Nat
  OBVIOUS
<1>8. s \in 0 .. g /\ (s = g => g = 0 \/ t[g] = "nl")
  BY <1>1, Zenon DEF StartsLine
<1>9. /\ t[g] = "nl" => LineStart(t, g) = g
      /\ LineStart(t, 0) = 0
  BY <1>2, <1>3, <1>7, LineStartIs, Zenon
<1>10. LineStart(t, g + 1) = IF t[g + 1] = "nl" THEN g + 1 ELSE s
  BY <1>4, <1>5, <1>7, LineStartIs, Zenon
<1>11. \A u : (\A k \in 1 .. g : t[k] = u[k]) => LineStart(u, g) = s
  BY <1>6, LineStartIs, Zenon
<1> QED
  BY <1>8, <1>9, <1>10, <1>11, Zenon DEF s

(* The remainder of the next number.                                       *)
LEMMA ModSucc ==
  ASSUME NEW a \in Nat, NEW w \in Nat \ {0}
  PROVE  /\ a % w \in 0 .. w - 1
         /\ (a + 1) % w = IF a % w = w - 1 THEN 0 ELSE (a % w) + 1
         /\ 0 % w = 0
<1> DEFINE q == a \div w
           r == a % w
           p == (a + 1) \div w
           z == (a + 1) % w
<1>1. /\ a = w * q + r /\ q \in Nat /\ r \in 0 .. w - 1
      /\ a + 1 = w * p + z /\ p \in Nat /\ z \in 0 .. w - 1
  OBVIOUS
<1>2. 0 % w = 0
  OBVIOUS
<1> HIDE DEF q, r, p, z
<1>3. ASSUME NEW m \in Nat, NEW l \in Nat, NEW x \in 0 .. w - 1, NEW y \in 0 .. w - 1,
             w * m + x = w * l + y, m < l
      PROVE  FALSE
  <2>1. PICK e \in Nat : l = m + 1 + e
    <3>1. l - m - 1 \in Nat /\ l = m + 1 + (l - m - 1)
      BY <1>3
    <3> QED
      BY Zenon, <3>1
  <2>2. w * l = w * m + w + w * e /\ w * e \in Nat /\ w * m \in Nat /\ w * l \in Nat
    BY <2>1
  <2> QED
    BY <1>3, <2>2
<1>4. ASSUME NEW m \in Nat, NEW l \in Nat, NEW x \in 0 .. w - 1, NEW y \in 0 .. w - 1,
             w * m + x = w * l + y
      PROVE  x = y
  <2>1. m = l
    BY <1>3, <1>4
  <2>2. w * m \in Nat
    OBVIOUS
  <2> QED
    BY <1>4, <2>1, <2>2
<1>5. CASE r = w - 1
  <2>1. w * (q + 1) = w * q + w /\ w * q \in Nat
    BY <1>1
  <2>2. w * (q + 1) + 0 = w * p + z /\ q + 1 \in Nat /\ 0 \in 0 .. w - 1
    BY <1>1, <1>5, <2>1
  <2>3. z = 0
    BY Zenon, <1>1, <1>4, <2>2
  <2> QED
    BY Zenon, <1>1, <1>2, <1>5, <2>3 DEF r, z
<1>6. CASE r # w - 1
  <2>1. w * q \in Nat
    BY <1>1
  <2>2. w * q + (r + 1) = w * p + z /\ r + 1 \in 0 .. w - 1
    BY <1>1, <1>6, <2>1
  <2>3. z = r + 1
    BY Zenon, <1>1, <1>4, <2>2
  <2> QED
    BY Zenon, <1>1, <1>2, <1>6, <2>3 DEF r, z
<1> QED
  BY Zenon, <1>5, <1>6

(* The column of the next position, and of a position of a longer text.    *)
LEMMA ColumnStep ==
  ASSUME NEW t, NEW g \in Nat, NEW w \in Nat \ {0}
  PROVE  /\ Column(t, w, g) \in 0 .. w - 1
         /\ LineStart(t, g) = g => Column(t, w, g) = 0
         /\ Column(t, w, g + 1) =
              IF t[g + 1] = "nl" \/ Column(t, w, g) = w - 1 THEN 0
              ELSE Column(t, w, g) + 1
         /\ \A u : (\A k \in 1 .. g : t[k] = u[k]) => Column(u, w, g) = Column(t, w, g)
<1>1. PICK s : s = LineStart(t, g)
  BY Zenon
<1>2. s \in 0 .. g
  BY Zenon, <1>1, LineStartStep
<1>3. PICK a \in Nat : a = g - s
  BY <1>2
<1>4. Column(t, w, g) = a % w
  BY Zenon, <1>1, <1>3 DEF Column
<1>5. a % w \in 0 .. w - 1 /\ 0 % w = 0
  BY Zenon, ModSucc
<1>6. s = g => a = 0
  BY <1>2, <1>3
<1>7. t[g + 1] = "nl" => Column(t, w, g + 1) = 0
  <2>1. t[g + 1] = "nl" => LineStart(t, g + 1) = g + 1
    BY Zenon, LineStartStep
  <2>2. (g + 1) - (g + 1) = 0
    OBVIOUS
  <2> QED
    BY <1>5, <2>1, <2>2, Zenon DEF Column
<1>8. t[g + 1] # "nl" => Column(t, w, g + 1) = IF a % w = w - 1 THEN 0 ELSE (a % w) + 1
  <2>1. t[g + 1] # "nl" => LineStart(t, g + 1) = s
    BY Zenon, <1>1, LineStartStep
  <2>2. (g + 1) - s = a + 1
    BY <1>2, <1>3
  <2>3. (a + 1) % w = IF a % w = w - 1 THEN 0 ELSE (a % w) + 1
    BY Zenon, ModSucc
  <2> QED
    BY <2>1, <2>2, <2>3, Zenon DEF Column
<1>9. \A u : (\A k \in 1 .. g : t[k] = u[k]) => Column(u, w, g) = Column(t, w, g)
  <2>1. \A u : (\A k \in 1 .. g : t[k] = u[k]) => LineStart(u, g) = LineStart(t, g)
    BY LineStartStep, Zenon
  <2> QED
    BY <2>1, Zenon DEF Column
<1>10. LineStart(t, g) = g => Column(t, w, g) = 0
  BY <1>1, <1>4, <1>5, <1>6, Zenon
<1>11. Column(t, w, g + 1) =
         IF t[g + 1] = "nl" \/ Column(t, w, g) = w - 1 THEN 0 ELSE Column(t, w, g) + 1
  BY <1>4, <1>7, <1>8, Zenon
<1> QED
  BY <1>4, <1>5, <1>9, <1>10, <1>11, Zenon

LEMMA NextColumn ==
  ASSUME NEW t, NEW g \in Nat, NEW w \in Nat \ {0}
  PROVE  Column(t, w, g + 1) = IF t[g + 1] = "nl" \/ Column(t, w, g) = w - 1 THEN 0
                               ELSE Column(t, w, g) + 1
  BY ColumnStep, Zenon

-----------------------------------------------------------------------------
(* Rows of a text.                                                         *)

(* A text with one more byte.                                              *)
LEMMA AppendText ==
  ASSUME NEW t \in Seq(Byte), NEW b \in Byte, NEW w \in Nat \ {0}
  PROVE  LET u == Append(t, b)
             n == Len(t)
         IN /\ n \in Nat /\ u \in Seq(Byte) /\ Len(u) = n + 1 /\ u[n + 1] = b
            /\ \A k \in 1 .. n : u[k] = t[k]
            /\ \A g \in 0 .. n : /\ LineStart(u, g) = LineStart(t, g)
                                 /\ Column(u, w, g) = Column(t, w, g)
<1> DEFINE u == Append(t, b)
           n == Len(t)
<1>1. n \in Nat /\ u \in Seq(Byte) /\ Len(u) = n + 1 /\ u[n + 1] = b
  OBVIOUS
<1>2. \A k \in 1 .. n : u[k] = t[k]
  OBVIOUS
<1> HIDE DEF u, n
<1>3. ASSUME NEW g \in 0 .. n
      PROVE  LineStart(u, g) = LineStart(t, g) /\ Column(u, w, g) = Column(t, w, g)
  <2>1. g \in Nat /\ \A k \in 1 .. g : k \in 1 .. n
    BY <1>1
  <2>2. \A k \in 1 .. g : t[k] = u[k]
    BY <1>2, <2>1, Zenon
  <2>3. \A v : (\A k \in 1 .. g : t[k] = v[k]) => LineStart(v, g) = LineStart(t, g)
    BY <2>1, LineStartStep, Zenon
  <2>4. \A v : (\A k \in 1 .. g : t[k] = v[k]) => Column(v, w, g) = Column(t, w, g)
    BY <2>1, ColumnStep, Zenon
  <2> QED
    BY <2>2, <2>3, <2>4, Zenon
<1> QED
  BY <1>1, <1>2, <1>3, Zenon DEF u, n

(* Where wrapping is immediate, one more byte starts a row behind it if it *)
(* is a newline or fills its row.                                          *)
LEMMA RowStartsImmediate ==
  ASSUME NEW t \in Seq(Byte), NEW b \in Byte, NEW w \in Nat \ {0}
  PROVE  LET u == Append(t, b)
             n == Len(t)
         IN RowStarts(u, w, TRUE) =
              RowStarts(t, w, TRUE) \union
                (IF Column(u, w, n + 1) = 0 THEN {n + 1} ELSE {})
<1>1. PICK u, n : u = Append(t, b) /\ n = Len(t)
  BY Zenon
<1>2. /\ n \in Nat /\ Len(u) = n + 1 /\ \A k \in 1 .. n : u[k] = t[k]
      /\ \A g \in 0 .. n : /\ LineStart(u, g) = LineStart(t, g)
                           /\ Column(u, w, g) = Column(t, w, g)
  BY <1>1, AppendText, Zenon
<1>3. n + 1 = LineStart(u, n + 1) => Column(u, w, n + 1) = 0
  BY <1>2, ColumnStep
<1>4. \A g : g \in 0 .. n + 1 <=> g \in 0 .. n \/ g = n + 1
  BY <1>2
<1>5. \A g : g \in RowStarts(u, w, TRUE) <=>
               g \in RowStarts(t, w, TRUE) \/ (g = n + 1 /\ Column(u, w, n + 1) = 0)
  BY <1>1, <1>2, <1>3, <1>4, Zenon DEF RowStarts
<1>6. RowStarts(u, w, TRUE) =
        RowStarts(t, w, TRUE) \union (IF Column(u, w, n + 1) = 0 THEN {n + 1} ELSE {})
  BY <1>5, Zenon
<1> QED
  BY <1>1, <1>6, Zenon

(* Where wrapping waits, a newline starts a row behind it, and another     *)
(* byte before it if the row is full.                                      *)
LEMMA RowStartsWaiting ==
  ASSUME NEW t \in Seq(Byte), NEW b \in Byte, NEW w \in Nat \ {0}
  PROVE  LET u == Append(t, b)
             n == Len(t)
         IN RowStarts(u, w, FALSE) =
              RowStarts(t, w, FALSE) \union
                (IF b = "nl" THEN {n + 1}
                 ELSE IF Column(t, w, n) = 0 THEN {n} ELSE {})
<1>1. PICK u, n : u = Append(t, b) /\ n = Len(t)
  BY Zenon
<1>2. /\ n \in Nat /\ Len(u) = n + 1 /\ u[n + 1] = b /\ \A k \in 1 .. n : u[k] = t[k]
      /\ \A g \in 0 .. n : /\ LineStart(u, g) = LineStart(t, g)
                           /\ Column(u, w, g) = Column(t, w, g)
  BY <1>1, AppendText, Zenon
<1>3. /\ LineStart(u, n + 1) = IF b = "nl" THEN n + 1 ELSE LineStart(u, n)
      /\ LineStart(u, n) \in 0 .. n
  BY Zenon, <1>2, LineStartStep
<1>4. n + 1 = LineStart(u, n + 1) <=> b = "nl"
  BY <1>2, <1>3
<1>5. ~(n + 1 < n + 1) /\ n < n + 1 /\ ~(n < n) /\ n \in 0 .. n
  BY <1>2
<1>6. \A g : g \in 0 .. n + 1 <=> g = n + 1 \/ g = n \/ (g \in 0 .. n /\ g < n)
  BY <1>2
<1>7. \A g \in 0 .. n : g < n => g + 1 \in 1 .. n /\ g < n + 1
  BY <1>2
<1>8. \A g : g \in 0 .. n /\ g < n =>
               (g \in RowStarts(u, w, FALSE) <=> g \in RowStarts(t, w, FALSE))
  BY <1>1, <1>2, <1>6, <1>7, Zenon DEF RowStarts
<1>9. n \in RowStarts(u, w, FALSE) <=>
        n \in RowStarts(t, w, FALSE) \/ (b # "nl" /\ Column(t, w, n) = 0)
  BY <1>1, <1>2, <1>5, <1>6, Zenon DEF RowStarts
<1>10. n + 1 \in RowStarts(u, w, FALSE) <=> b = "nl"
  BY <1>1, <1>2, <1>4, <1>5, <1>6, Zenon DEF RowStarts
<1>11. \A g : /\ g \in RowStarts(u, w, FALSE) => g \in 0 .. n + 1
              /\ g \in RowStarts(t, w, FALSE) => g \in 0 .. n
  BY <1>1, <1>2, Zenon DEF RowStarts
<1>12. n + 1 \notin 0 .. n /\ n + 1 # n /\ \A g \in 0 .. n : g \in 0 .. n + 1
  BY <1>2
<1>13. \A g : g \in RowStarts(u, w, FALSE) <=>
                \/ g \in RowStarts(t, w, FALSE)
                \/ g = n + 1 /\ b = "nl"
                \/ g = n /\ b # "nl" /\ Column(t, w, n) = 0
  BY <1>6, <1>8, <1>9, <1>10, <1>11, <1>12, Zenon
<1>14. RowStarts(u, w, FALSE) =
        RowStarts(t, w, FALSE) \union
          (IF b = "nl" THEN {n + 1} ELSE IF Column(t, w, n) = 0 THEN {n} ELSE {})
  BY <1>13, Zenon
<1> QED
  BY <1>1, <1>14, Zenon

(* Counting rows: a new row start counts for the positions before it.      *)
LEMMA RowsBelowFacts ==
  ASSUME NEW S, IsFiniteSet(S), S \subseteq Nat, NEW g \in Nat
  PROVE  /\ RowsBelow(S, g) \in Nat
         /\ (\A s \in S : s <= g) => RowsBelow(S, g) = 0
         /\ \A p \in Nat \ S :
              RowsBelow(S \union {p}, g) =
                IF p > g THEN RowsBelow(S, g) + 1 ELSE RowsBelow(S, g)
<1> DEFINE A == {s \in S : s > g}
<1>1. IsFiniteSet(A) /\ A \subseteq S
  BY FS_Subset, Zenon
<1>2. Cardinality(A) \in Nat
  BY Zenon, <1>1, FS_CardinalityType
<1>3. (\A s \in S : s <= g) => A = {}
  <2>1. \A s \in S : s <= g => ~(s > g)
    OBVIOUS
  <2> QED
    BY <2>1, Zenon
<1>4. (\A s \in S : s <= g) => Cardinality(A) = 0
  BY Zenon, <1>3, FS_EmptySet
<1>5. ASSUME NEW p \in Nat \ S
      PROVE  Cardinality({s \in S \union {p} : s > g}) =
               IF p > g THEN Cardinality(A) + 1 ELSE Cardinality(A)
  <2>1. {s \in S \union {p} : s > g} = IF p > g THEN A \union {p} ELSE A
    BY Zenon
  <2>2. p \notin A
    BY Zenon
  <2>3. Cardinality(A \union {p}) = Cardinality(A) + 1
    <3> HIDE DEF A
    <3> QED
      BY <1>1, <2>2, FS_AddElement, Zenon
  <2> HIDE DEF A
  <2> QED
    BY <2>1, <2>3, Zenon
<1> QED
  BY <1>2, <1>4, <1>5, Zenon DEF RowsBelow

(* As many rows below two positions: no row starts between them.           *)
LEMMA SameRow ==
  ASSUME NEW S, IsFiniteSet(S), S \subseteq Nat, NEW g \in Nat, NEW k \in Nat, g <= k,
         RowsBelow(S, g) = RowsBelow(S, k), NEW s \in S, g < s
  PROVE  k < s
<1> DEFINE A == {z \in S : z > g}
           B == {z \in S : z > k}
<1>1. IsFiniteSet(A) /\ B \subseteq A
  <2>1. IsFiniteSet(A)
    BY FS_Subset, Zenon
  <2>2. \A z \in S : z > k => z > g
    OBVIOUS
  <2> QED
    BY <2>1, <2>2, Zenon
<1>2. Cardinality(A) = Cardinality(B)
  BY Zenon DEF RowsBelow
<1>3. s \in A
  BY Zenon
<1>4. A = B
  <2> HIDE DEF A, B
  <2> QED
    BY <1>1, <1>2, FS_Subset, Zenon
<1>5. s > k
  BY <1>3, <1>4, Zenon
<1> QED
  BY Zenon, <1>5

(* The row starts of a text.                                               *)
LEMMA RowStartsFacts ==
  ASSUME NEW t \in Seq(Byte), NEW w \in Nat \ {0}, NEW imm
  PROVE  LET S == RowStarts(t, w, imm)
         IN  /\ IsFiniteSet(S) /\ S \subseteq 0 .. Len(t) /\ S \subseteq Nat
             /\ \A p \in 1 .. Len(t) : t[p] = "nl" => p \in S
             /\ \A p \in 0 .. Len(t) - 1 :
                  t[p + 1] # "nl" /\ Column(t, w, p) = 0 => p \in S
<1>1. Len(t) \in Nat
  OBVIOUS
<1>2. IsFiniteSet(0 .. Len(t))
  BY <1>1, FS_Interval
<1>3. RowStarts(t, w, imm) \subseteq 0 .. Len(t)
  BY Zenon DEF RowStarts
<1>4. IsFiniteSet(RowStarts(t, w, imm))
  BY <1>2, <1>3, FS_Subset, Zenon
<1>5. 0 .. Len(t) \subseteq Nat
  BY <1>1
<1>6. ASSUME NEW p \in 1 .. Len(t), t[p] = "nl" PROVE p \in RowStarts(t, w, imm)
  <2>1. p \in Nat /\ p \in 0 .. Len(t)
    BY <1>1
  <2>2. LineStart(t, p) = p
    BY Zenon, <1>6, <2>1, LineStartStep
  <2> QED
    BY <2>1, <2>2, Zenon DEF RowStarts
<1>7. ASSUME NEW p \in 0 .. Len(t) - 1, t[p + 1] # "nl", Column(t, w, p) = 0
      PROVE  p \in RowStarts(t, w, imm)
  <2>1. p \in 0 .. Len(t) /\ p < Len(t)
    BY <1>1
  <2> QED
    BY <1>7, <2>1, Zenon DEF RowStarts
<1> QED
  BY <1>3, <1>4, <1>5, <1>6, <1>7, Zenon

(* Two bytes in the same row are in different columns.                     *)
LEMMA OneByteACell ==
  ASSUME NEW t \in Seq(Byte), NEW w \in Nat \ {0}, NEW imm,
         NEW g \in 0 .. Len(t) - 1, NEW k \in 0 .. Len(t) - 1, g < k,
         t[k + 1] # "nl",
         RowsBelow(RowStarts(t, w, imm), g) = RowsBelow(RowStarts(t, w, imm), k)
  PROVE  Column(t, w, g) < Column(t, w, k)
<1>1. PICK S : S = RowStarts(t, w, imm)
  BY Zenon
<1>2. Len(t) \in Nat /\ g \in Nat /\ k \in Nat /\ k < Len(t) /\ g <= k
  OBVIOUS
<1>3. IsFiniteSet(S) /\ S \subseteq Nat
  BY <1>1, RowStartsFacts, Zenon
<1>4. \A s \in S : g < s => k < s
  BY <1>1, <1>2, <1>3, SameRow, Zenon
<1>5. ASSUME NEW p \in g + 1 .. k PROVE p \notin S
  <2>1. p \in Nat /\ g < p /\ ~(k < p)
    BY <1>2
  <2> QED
    BY <1>4, <2>1, Zenon
<1>6. ASSUME NEW p \in g + 1 .. k PROVE t[p] # "nl" /\ t[p + 1] # "nl"
  <2>1. p \in 1 .. Len(t)
    BY <1>2
  <2>2. p = k \/ p + 1 \in g + 1 .. k
    BY <1>2
  <2>3. \A z \in g + 1 .. k : z \in 1 .. Len(t)
    BY <1>2
  <2>4. \A z \in g + 1 .. k : t[z] # "nl"
    BY <1>1, <1>5, <2>3, RowStartsFacts, Zenon
  <2> QED
    BY <2>2, <2>4, Zenon
<1>7. ASSUME NEW p \in g + 1 .. k PROVE Column(t, w, p) # 0
  <2>1. p \in 0 .. Len(t) - 1
    BY <1>2
  <2> QED
    BY <1>1, <1>5, <1>6, <2>1, RowStartsFacts, Zenon
<1>8. ASSUME NEW p \in g .. k - 1 PROVE Column(t, w, p + 1) = Column(t, w, p) + 1
  <2>1. p \in Nat /\ p + 1 \in g + 1 .. k
    BY <1>2
  <2> QED
    BY <2>1, <1>6, <1>7, ColumnStep, Zenon
<1> DEFINE D == {p \in g .. k : Column(t, w, p) # Column(t, w, g) + (p - g)}
<1>9. \A p \in g .. k : p \in Nat
  BY <1>2
<1>10. ASSUME NEW p \in Nat PROVE Column(t, w, p) \in Nat
  <2>1. Column(t, w, p) \in 0 .. w - 1
    BY ColumnStep, Zenon
  <2> QED
    BY <2>1
<1>11. D = {}
  <2> SUFFICES ASSUME D # {} PROVE FALSE
    BY Zenon
  <2>1. D \subseteq Nat
    BY <1>9, Zenon
  <2>2. PICK m \in D : \A y \in D : m <= y
    <3> HIDE DEF D
    <3> QED
      BY <2>1, LeastOf, Zenon
  <2>3. m \in g .. k /\ Column(t, w, m) # Column(t, w, g) + (m - g) /\ m \in Nat
    BY <1>9, Zenon
  <2>4. Column(t, w, g) \in Nat
    BY Zenon, <1>2, <1>10
  <2>5. m # g
    BY <1>2, <2>3, <2>4
  <2>6. m - 1 \in g .. k - 1 /\ m - 1 \in g .. k /\ ~(m <= m - 1) /\ (m - 1) + 1 = m
    BY <1>2, <2>3, <2>5
  <2>7. m - 1 \notin D
    <3> HIDE DEF D
    <3> QED
      BY <2>2, <2>6, Zenon
  <2>8. Column(t, w, m - 1) = Column(t, w, g) + ((m - 1) - g)
    BY <2>6, <2>7, Zenon
  <2>9. Column(t, w, m) = Column(t, w, m - 1) + 1
    BY Zenon, <1>8, <2>6
  <2>10. (Column(t, w, g) + ((m - 1) - g)) + 1 = Column(t, w, g) + (m - g)
    BY <1>2, <2>3, <2>4
  <2> QED
    BY <2>3, <2>8, <2>9, <2>10, Zenon
<1>12. k \in g .. k
  BY <1>2
<1>13. Column(t, w, k) = Column(t, w, g) + (k - g)
  BY <1>11, <1>12, Zenon
<1>14. Column(t, w, g) \in Nat
  BY Zenon, <1>2, <1>10
<1> QED
  BY <1>2, <1>13, <1>14

-----------------------------------------------------------------------------
(* What a screen of w by h shows of the text.                              *)

RightCell(t, here, cell) ==
  (\A g \in here : cell = VgaGlyph(t[g + 1])) /\ (here = {} => cell = "blank")

Painted(v, w, h, t, S) ==
  \A r \in 0 .. h - 1, c \in 0 .. w - 1 :
    RightCell(t, Here(t, w, S, v.y, r, c), v.cells[r][c])

(* Cells s are cells f moved up by a row.                                  *)
MovedUp(f, s, w, h) ==
  \A r \in 0 .. h - 1, c \in 0 .. w - 1 :
    s[r][c] = IF r < h - 1 THEN f[r + 1][c] ELSE "blank"

(* Screen v1 is v after a line feed: one row down, or scrolled.            *)
Fed(v, v1, w, h) ==
  \/ v.y < h - 1 /\ v1.y = v.y + 1 /\ v1.cells = v.cells
  \/ v.y = h - 1 /\ v1.y = v.y /\ MovedUp(v.cells, v1.cells, w, h)

(* A row that starts behind every byte moves the text up by one row.       *)
LEMMA FeedPaints ==
  ASSUME NEW t \in Seq(Byte), NEW w \in Nat, NEW h \in Nat, NEW v, NEW v1,
         NEW S, IsFiniteSet(S), S \subseteq Nat, NEW p \in Nat \ S, p >= Len(t),
         v.y \in Nat, Painted(v, w, h, t, S), Fed(v, v1, w, h)
  PROVE  Painted(v1, w, h, t, S \union {p})
<1> DEFINE T == S \union {p}
<1>1. Len(t) \in Nat
  OBVIOUS
<1>2. ASSUME NEW g \in 0 .. Len(t) - 1
      PROVE  RowsBelow(S, g) \in Nat /\ RowsBelow(T, g) = RowsBelow(S, g) + 1
  <2>1. g \in Nat /\ p > g
    BY <1>1
  <2> QED
    BY <2>1, RowsBelowFacts, Zenon
<1> HIDE DEF T
<1>3. CASE v.y < h - 1 /\ v1.y = v.y + 1 /\ v1.cells = v.cells
  <2>1. ASSUME NEW r \in 0 .. h - 1, NEW c \in 0 .. w - 1
        PROVE  Here(t, w, T, v1.y, r, c) = Here(t, w, S, v.y, r, c)
    <3>1. ASSUME NEW g \in 0 .. Len(t) - 1
          PROVE  r + RowsBelow(T, g) = v1.y <=> r + RowsBelow(S, g) = v.y
      <4>1. PICK z \in Nat : z = RowsBelow(S, g) /\ RowsBelow(T, g) = z + 1
        BY <1>2, Zenon
      <4>2. r \in Nat /\ v.y \in Nat /\ v1.y = v.y + 1
        BY <1>3
      <4>3. r + (z + 1) = v.y + 1 <=> r + z = v.y
        BY <4>2
      <4> QED
        BY <4>1, <4>2, <4>3, Zenon
    <3> QED
      BY <3>1, Zenon DEF Here
  <2>2. ASSUME NEW r \in 0 .. h - 1, NEW c \in 0 .. w - 1
        PROVE  RightCell(t, Here(t, w, T, v1.y, r, c), v1.cells[r][c])
    <3>1. RightCell(t, Here(t, w, S, v.y, r, c), v.cells[r][c])
      BY Zenon DEF Painted
    <3> QED
      BY <1>3, <2>1, <3>1, Zenon
  <2> QED
    BY <2>2, Zenon DEF Painted, T
<1>4. CASE v.y = h - 1 /\ v1.y = v.y /\ MovedUp(v.cells, v1.cells, w, h)
  <2>1. ASSUME NEW r \in 0 .. h - 1, NEW c \in 0 .. w - 1, r < h - 1
        PROVE  /\ Here(t, w, T, v1.y, r, c) = Here(t, w, S, v.y, r + 1, c)
               /\ r + 1 \in 0 .. h - 1 /\ v1.cells[r][c] = v.cells[r + 1][c]
    <3>1. ASSUME NEW g \in 0 .. Len(t) - 1
          PROVE  r + RowsBelow(T, g) = v1.y <=> (r + 1) + RowsBelow(S, g) = v.y
      <4>1. PICK z \in Nat : z = RowsBelow(S, g) /\ RowsBelow(T, g) = z + 1
        BY <1>2, Zenon
      <4>2. r + (z + 1) = (r + 1) + z
        OBVIOUS
      <4> QED
        BY <1>4, <4>1, <4>2, Zenon
    <3>2. Here(t, w, T, v1.y, r, c) = Here(t, w, S, v.y, r + 1, c)
      BY <3>1, Zenon DEF Here
    <3>3. r + 1 \in 0 .. h - 1
      BY <2>1
    <3> QED
      BY <1>4, <2>1, <3>2, <3>3, Zenon DEF MovedUp
  <2>2. ASSUME NEW r \in 0 .. h - 1, NEW c \in 0 .. w - 1, ~(r < h - 1)
        PROVE  Here(t, w, T, v1.y, r, c) = {} /\ v1.cells[r][c] = "blank"
    <3>1. ASSUME NEW g \in 0 .. Len(t) - 1 PROVE r + RowsBelow(T, g) # v1.y
      <4>1. PICK z \in Nat : RowsBelow(T, g) = z + 1
        BY <1>2, Zenon
      <4>2. PICK q \in Nat : q = v1.y /\ q = h - 1
        BY <1>4, Zenon
      <4>3. r + (z + 1) # q
        BY <2>2, <4>2
      <4> QED
        BY <4>1, <4>2, <4>3, Zenon
    <3>2. Here(t, w, T, v1.y, r, c) = {}
      BY <3>1, Zenon DEF Here
    <3> QED
      BY <1>4, <2>2, <3>2, Zenon DEF MovedUp
  <2>3. ASSUME NEW r \in 0 .. h - 1, NEW c \in 0 .. w - 1
        PROVE  RightCell(t, Here(t, w, T, v1.y, r, c), v1.cells[r][c])
    <3>1. CASE r < h - 1
      <4>1. RightCell(t, Here(t, w, S, v.y, r + 1, c), v.cells[r + 1][c])
        BY <2>1, <3>1, Zenon DEF Painted
      <4> QED
        BY <2>1, <3>1, <4>1, Zenon
    <3>2. CASE ~(r < h - 1)
      BY <2>2, <3>2, Zenon DEF RightCell
    <3> QED
      BY <3>1, <3>2, Zenon
  <2> QED
    BY <2>3, Zenon DEF Painted, T
<1> QED
  BY <1>3, <1>4, Zenon DEF Fed

(* A newline byte has no place of its own.                                 *)
LEMMA NewlinePaints ==
  ASSUME NEW t \in Seq(Byte), NEW w \in Nat \ {0}, NEW h \in Nat, NEW v, NEW S,
         Painted(v, w, h, t, S)
  PROVE  Painted(v, w, h, Append(t, "nl"), S)
<1>1. "nl" \in Byte
  BY Zenon DEF Byte
<1>2. PICK u, n : u = Append(t, "nl") /\ n = Len(t)
  BY Zenon
<1>3. /\ n \in Nat /\ Len(u) = n + 1 /\ u[n + 1] = "nl" /\ \A k \in 1 .. n : u[k] = t[k]
      /\ \A g \in 0 .. n : Column(u, w, g) = Column(t, w, g)
  BY <1>1, <1>2, AppendText, Zenon
<1>4. /\ \A g : g \in 0 .. (n + 1) - 1 <=> g \in 0 .. n - 1 \/ g = n
      /\ \A g \in 0 .. n - 1 : g \in 0 .. n /\ g + 1 \in 1 .. n
  BY <1>3
<1>5. ASSUME NEW r, NEW c
      PROVE  /\ Here(u, w, S, v.y, r, c) = Here(t, w, S, v.y, r, c)
             /\ \A g \in Here(t, w, S, v.y, r, c) : u[g + 1] = t[g + 1]
  BY <1>2, <1>3, <1>4, Zenon DEF Here
<1>6. ASSUME NEW r \in 0 .. h - 1, NEW c \in 0 .. w - 1
      PROVE  RightCell(u, Here(u, w, S, v.y, r, c), v.cells[r][c])
  <2>1. RightCell(t, Here(t, w, S, v.y, r, c), v.cells[r][c])
    BY Zenon DEF Painted
  <2> QED
    BY <1>5, <2>1, Zenon DEF RightCell
<1>7. Painted(v, w, h, u, S)
  BY <1>6, Zenon DEF Painted
<1> QED
  BY <1>2, <1>7, Zenon

(* No byte has the place of the end of the text.                           *)
EndIsFree(t, w, S) ==
  /\ \A s \in S : s <= Len(t)
  /\ \A g \in 0 .. Len(t) - 1 :
       t[g + 1] # "nl" /\ RowsBelow(S, g) = 0 => Column(t, w, g) # Column(t, w, Len(t))

(* Screen v1 is v with one cell of its row changed.                        *)
OneChanged(f, s, w, h, y, x, cell) ==
  \A r \in 0 .. h - 1, c \in 0 .. w - 1 :
    s[r][c] = IF r = y /\ c = x THEN cell ELSE f[r][c]

Drawn(v, v1, w, h, col, cell) ==
  v1.y = v.y /\ OneChanged(v.cells, v1.cells, w, h, v.y, col, cell)

(* Another byte takes that place and leaves the others: u is t with byte b *)
(* at the end, n the length of t.                                          *)
TakesEnd(t, u, n, b, w, S, y, r, c) ==
  /\ r = y /\ c = Column(t, w, n) =>
       Here(u, w, S, y, r, c) = {n} /\ Here(t, w, S, y, r, c) = {} /\ u[n + 1] = b
  /\ ~(r = y /\ c = Column(t, w, n)) =>
       /\ Here(u, w, S, y, r, c) = Here(t, w, S, y, r, c)
       /\ \A g \in Here(t, w, S, y, r, c) : u[g + 1] = t[g + 1]

LEMMA HereAppend ==
  ASSUME NEW t \in Seq(Byte), NEW b \in Byte \ {"nl"}, NEW w \in Nat \ {0},
         NEW S, IsFiniteSet(S), S \subseteq Nat, EndIsFree(t, w, S),
         NEW y \in Nat, NEW r \in Nat, NEW c
  PROVE  TakesEnd(t, Append(t, b), Len(t), b, w, S, y, r, c)
<1>1. b \in Byte /\ b # "nl"
  BY Zenon
<1>2. PICK u, n : u = Append(t, b) /\ n = Len(t)
  BY Zenon
<1>3. /\ n \in Nat /\ Len(u) = n + 1 /\ u[n + 1] = b /\ \A k \in 1 .. n : u[k] = t[k]
      /\ \A g \in 0 .. n : Column(u, w, g) = Column(t, w, g)
  BY <1>1, <1>2, AppendText, Zenon
<1>4. /\ \A g : g \in 0 .. (n + 1) - 1 <=> g \in 0 .. n - 1 \/ g = n
      /\ \A g \in 0 .. n - 1 : g \in 0 .. n /\ g + 1 \in 1 .. n /\ g # n
      /\ n \in 0 .. n
  BY <1>3
<1>5. RowsBelow(S, n) = 0
  BY <1>2, <1>3, RowsBelowFacts, Zenon DEF EndIsFree
<1>6. r + RowsBelow(S, n) = y <=> r = y
  BY <1>5
<1>7. \A g \in 0 .. n - 1 : RowsBelow(S, g) \in Nat
  <2>1. \A g \in 0 .. n - 1 : g \in Nat
    BY <1>3
  <2> QED
    BY <2>1, RowsBelowFacts, Zenon
<1>8. ASSUME ~(r = y /\ c = Column(t, w, n))
      PROVE  /\ Here(u, w, S, y, r, c) = Here(t, w, S, y, r, c)
             /\ \A g \in Here(t, w, S, y, r, c) : u[g + 1] = t[g + 1]
  <2>1. ~(r + RowsBelow(S, n) = y /\ Column(t, w, n) = c)
    BY <1>6, <1>8, Zenon
  <2>2. \A g \in 0 .. n - 1 : Column(u, w, g) = Column(t, w, g) /\ u[g + 1] = t[g + 1]
    BY <1>3, <1>4, Zenon
  <2>3. Column(u, w, n) = Column(t, w, n)
    BY <1>3, <1>4, Zenon
  <2>4. \A g : g \in Here(u, w, S, y, r, c) <=> g \in Here(t, w, S, y, r, c)
    BY <1>2, <1>3, <1>4, <2>1, <2>2, <2>3, Zenon DEF Here
  <2>5. \A g \in Here(t, w, S, y, r, c) : u[g + 1] = t[g + 1]
    BY <1>2, <2>2, Zenon DEF Here
  <2>6. Here(u, w, S, y, r, c) = Here(t, w, S, y, r, c)
    BY <2>4, Zenon
  <2> QED
    BY <2>5, <2>6, Zenon
<1>9. ASSUME r = y, c = Column(t, w, n)
      PROVE  Here(u, w, S, y, r, c) = {n} /\ Here(t, w, S, y, r, c) = {}
  <2>1. ASSUME NEW g \in 0 .. n - 1, t[g + 1] # "nl", Column(t, w, g) = c
        PROVE  r + RowsBelow(S, g) # y
    <3>1. RowsBelow(S, g) # 0
      BY <1>2, <1>9, <2>1, Zenon DEF EndIsFree
    <3>2. RowsBelow(S, g) \in Nat
      BY <1>7, Zenon
    <3> QED
      BY <1>9, <3>1, <3>2
  <2>2. \A g \in 0 .. n - 1 : Column(u, w, g) = Column(t, w, g) /\ u[g + 1] = t[g + 1]
    BY <1>3, <1>4, Zenon
  <2>3. r + RowsBelow(S, n) = y /\ Column(u, w, n) = c /\ u[n + 1] # "nl"
    BY <1>1, <1>3, <1>4, <1>6, <1>9, Zenon
  <2>4. \A g : g \in Here(u, w, S, y, r, c) <=> g = n
    BY <1>3, <1>4, <2>1, <2>2, <2>3, Zenon DEF Here
  <2>5. \A g : g \notin Here(t, w, S, y, r, c)
    BY <1>2, <2>1, Zenon DEF Here
  <2> QED
    BY <2>4, <2>5, Zenon
<1>10. TakesEnd(t, u, n, b, w, S, y, r, c)
  BY <1>3, <1>8, <1>9, Zenon DEF TakesEnd
<1> QED
  BY <1>2, <1>10, Zenon

LEMMA BytePaints ==
  ASSUME NEW t \in Seq(Byte), NEW b \in Byte \ {"nl"}, NEW w \in Nat \ {0}, NEW h \in Nat,
         NEW v, NEW v1, NEW S, IsFiniteSet(S), S \subseteq Nat, v.y \in Nat,
         EndIsFree(t, w, S), Painted(v, w, h, t, S),
         Drawn(v, v1, w, h, Column(t, w, Len(t)), VgaGlyph(b))
  PROVE  Painted(v1, w, h, Append(t, b), S)
<1>1. PICK u, n : u = Append(t, b) /\ n = Len(t)
  BY Zenon
<1>2. ASSUME NEW r \in 0 .. h - 1, NEW c \in 0 .. w - 1
      PROVE  RightCell(u, Here(u, w, S, v1.y, r, c), v1.cells[r][c])
  <2>1. v1.y = v.y /\ r \in Nat
    BY DEF Drawn
  <2>4. TakesEnd(t, u, n, b, w, S, v.y, r, c)
    BY <1>1, <2>1, HereAppend, Zenon
  <2>2. CASE r = v.y /\ c = Column(t, w, n)
    <3>1. Here(u, w, S, v.y, r, c) = {n} /\ u[n + 1] = b
      BY <2>2, <2>4, Zenon DEF TakesEnd
    <3>2. v1.cells[r][c] = VgaGlyph(b)
      BY <1>1, <2>2, Zenon DEF Drawn, OneChanged
    <3> QED
      BY <2>1, <3>1, <3>2, Zenon DEF RightCell
  <2>3. CASE ~(r = v.y /\ c = Column(t, w, n))
    <3>1. /\ Here(u, w, S, v.y, r, c) = Here(t, w, S, v.y, r, c)
          /\ \A g \in Here(t, w, S, v.y, r, c) : u[g + 1] = t[g + 1]
      BY <2>3, <2>4, Zenon DEF TakesEnd
    <3>2. v1.cells[r][c] = v.cells[r][c]
      BY <1>1, <2>3, Zenon DEF Drawn, OneChanged
    <3>3. RightCell(t, Here(t, w, S, v.y, r, c), v.cells[r][c])
      BY Zenon DEF Painted
    <3>4. RightCell(u, Here(t, w, S, v.y, r, c), v.cells[r][c])
      BY <3>1, <3>3, Zenon DEF RightCell
    <3> QED
      BY <2>1, <3>1, <3>2, <3>4, Zenon
  <2> QED
    BY <2>2, <2>3, Zenon
<1> QED
  BY <1>1, <1>2, Zenon DEF Painted

(* Taking the last byte back empties its place.                            *)
LEMMA EraseUnpaints ==
  ASSUME NEW t \in Seq(Byte), NEW b \in Byte \ {"nl"}, NEW w \in Nat \ {0}, NEW h \in Nat,
         NEW v, NEW v1, NEW S, IsFiniteSet(S), S \subseteq Nat, v.y \in Nat,
         EndIsFree(t, w, S), Painted(v, w, h, Append(t, b), S),
         Drawn(v, v1, w, h, Column(t, w, Len(t)), "blank")
  PROVE  Painted(v1, w, h, t, S)
<1>1. PICK u, n : u = Append(t, b) /\ n = Len(t)
  BY Zenon
<1>2. ASSUME NEW r \in 0 .. h - 1, NEW c \in 0 .. w - 1
      PROVE  RightCell(t, Here(t, w, S, v1.y, r, c), v1.cells[r][c])
  <2>1. v1.y = v.y /\ r \in Nat
    BY DEF Drawn
  <2>4. TakesEnd(t, u, n, b, w, S, v.y, r, c)
    BY <1>1, <2>1, HereAppend, Zenon
  <2>2. CASE r = v.y /\ c = Column(t, w, n)
    <3>1. Here(t, w, S, v.y, r, c) = {}
      BY <2>2, <2>4, Zenon DEF TakesEnd
    <3>2. v1.cells[r][c] = "blank"
      BY <1>1, <2>2, Zenon DEF Drawn, OneChanged
    <3> QED
      BY <2>1, <3>1, <3>2, Zenon DEF RightCell
  <2>3. CASE ~(r = v.y /\ c = Column(t, w, n))
    <3>1. /\ Here(u, w, S, v.y, r, c) = Here(t, w, S, v.y, r, c)
          /\ \A g \in Here(t, w, S, v.y, r, c) : u[g + 1] = t[g + 1]
      BY <2>3, <2>4, Zenon DEF TakesEnd
    <3>2. v1.cells[r][c] = v.cells[r][c]
      BY <1>1, <2>3, Zenon DEF Drawn, OneChanged
    <3>3. RightCell(u, Here(u, w, S, v.y, r, c), v.cells[r][c])
      BY <1>1, Zenon DEF Painted
    <3>4. RightCell(t, Here(t, w, S, v.y, r, c), v.cells[r][c])
      BY <3>1, <3>3, Zenon DEF RightCell
    <3> QED
      BY <2>1, <3>2, <3>4, Zenon
  <2> QED
    BY <2>2, <2>3, Zenon
<1> QED
  BY <1>2, Zenon DEF Painted

(* Without the row start behind every byte the text ends a row higher.     *)
LEMMA UnfeedPaints ==
  ASSUME NEW t \in Seq(Byte), NEW w \in Nat, NEW h \in Nat, NEW v, NEW v1,
         NEW S, IsFiniteSet(S), S \subseteq Nat, NEW p \in Nat \ S, p >= Len(t),
         v1.y \in Nat, v.y = v1.y + 1, v1.cells = v.cells,
         Painted(v, w, h, t, S \union {p})
  PROVE  Painted(v1, w, h, t, S)
<1> DEFINE T == S \union {p}
<1>1. Len(t) \in Nat
  OBVIOUS
<1>2. ASSUME NEW g \in 0 .. Len(t) - 1
      PROVE  RowsBelow(S, g) \in Nat /\ RowsBelow(T, g) = RowsBelow(S, g) + 1
  <2>1. g \in Nat /\ p > g
    BY <1>1
  <2> QED
    BY <2>1, RowsBelowFacts, Zenon
<1> HIDE DEF T
<1>3. ASSUME NEW r \in 0 .. h - 1, NEW c \in 0 .. w - 1
      PROVE  Here(t, w, S, v1.y, r, c) = Here(t, w, T, v.y, r, c)
  <2>1. ASSUME NEW g \in 0 .. Len(t) - 1
        PROVE  r + RowsBelow(T, g) = v.y <=> r + RowsBelow(S, g) = v1.y
    <3>1. PICK z \in Nat : z = RowsBelow(S, g) /\ RowsBelow(T, g) = z + 1
      BY <1>2, Zenon
    <3>2. r + (z + 1) = v1.y + 1 <=> r + z = v1.y
      OBVIOUS
    <3> QED
      BY <3>1, <3>2, Zenon
  <2> QED
    BY <2>1, Zenon DEF Here
<1>4. ASSUME NEW r \in 0 .. h - 1, NEW c \in 0 .. w - 1
      PROVE  RightCell(t, Here(t, w, S, v1.y, r, c), v1.cells[r][c])
  <2>1. RightCell(t, Here(t, w, T, v.y, r, c), v.cells[r][c])
    BY Zenon DEF Painted, T
  <2> QED
    BY <1>3, <2>1, Zenon
<1> QED
  BY <1>4, Zenon DEF Painted

-----------------------------------------------------------------------------
(* The VGA writer.                                                         *)

LEMMA ScreenSizes ==
  /\ BufferWidth \in Nat \ {0} /\ BufferHeight \in Nat \ {0}
  /\ Cols \in Nat \ {0} /\ Rows \in Nat \ {0} /\ Rows > 1 /\ TabWidth \in Nat \ {0}
  /\ Wide("con") = Cols /\ High("con") = Rows
  /\ Wide("vga") = BufferWidth /\ High("vga") = BufferHeight
  BY Zenon, SizesOK DEF Wide, High

Grid(w, h) == [0 .. h - 1 -> [0 .. w - 1 -> Cells]]

LEMMA ScrollFacts ==
  ASSUME NEW d, NEW w \in Nat \ {0}, NEW h \in Nat \ {0}, w = Wide(d), h = High(d),
         NEW f \in Grid(w, h)
  PROVE  Scroll(f, d) \in Grid(w, h) /\ MovedUp(f, Scroll(f, d), w, h)
<1>1. "blank" \in Cells
  BY Zenon DEF Cells
<1>2. \A r \in 0 .. h - 1 : r < h - 1 => r + 1 \in 0 .. h - 1
  OBVIOUS
<1> QED
  BY Zenon, <1>1, <1>2 DEF Scroll, Grid, MovedUp

LEMMA NewLineFeeds ==
  ASSUME NEW v \in VgaScreens
  PROVE  /\ NewLine(v) \in VgaScreens /\ NewLine(v).x = 0
         /\ NewLine(v).y <= v.y + 1
         /\ Fed(v, NewLine(v), BufferWidth, BufferHeight)
<1>2. PICK s : s = Scroll(v.cells, "vga")
  BY Zenon
<1>3. v.cells \in Grid(BufferWidth, BufferHeight)
  BY Zenon DEF VgaScreens, Grid
<1>4. s \in Grid(BufferWidth, BufferHeight) /\ MovedUp(v.cells, s, BufferWidth, BufferHeight)
  BY <1>2, <1>3, ScrollFacts, ScreenSizes, Zenon
<1>5. NewLine(v) = IF v.y < BufferHeight - 1 THEN [v EXCEPT !.x = 0, !.y = v.y + 1]
                   ELSE [v EXCEPT !.x = 0, !.cells = s]
  BY <1>2, Zenon DEF NewLine
<1>6. CASE v.y < BufferHeight - 1
  <2>1. NewLine(v) = [v EXCEPT !.x = 0, !.y = v.y + 1]
    BY <1>5, <1>6, Zenon
  <2>2. v.y + 1 \in 0 .. BufferHeight - 1 /\ v.y + 1 <= v.y + 1 /\ 0 \in 0 .. BufferWidth
    BY <1>6, ScreenSizes DEF VgaScreens
  <2>3. NewLine(v) \in VgaScreens /\ NewLine(v).x = 0 /\ NewLine(v).y = v.y + 1
        /\ NewLine(v).cells = v.cells
    BY Zenon, <2>1, <2>2 DEF VgaScreens
  <2> QED
    BY <1>6, <2>2, <2>3, Zenon DEF Fed
<1>7. CASE ~(v.y < BufferHeight - 1)
  <2>1. NewLine(v) = [v EXCEPT !.x = 0, !.cells = s]
    BY <1>5, <1>7, Zenon
  <2>2. v.y = BufferHeight - 1 /\ v.y <= v.y + 1 /\ 0 \in 0 .. BufferWidth
    BY <1>7, ScreenSizes DEF VgaScreens
  <2>3. NewLine(v) \in VgaScreens /\ NewLine(v).x = 0 /\ NewLine(v).y = v.y
        /\ NewLine(v).cells = s
    BY Zenon, <1>4, <2>1, <2>2 DEF VgaScreens, Grid
  <2> QED
    BY <1>4, <2>2, <2>3, Zenon DEF Fed
<1> QED
  BY Zenon, <1>6, <1>7

(* One cell is replaced.                                                   *)
LEMMA PutCell ==
  ASSUME NEW w \in Nat \ {0}, NEW h \in Nat \ {0}, NEW cell \in Cells, NEW f \in Grid(w, h),
         NEW y \in 0 .. h - 1, NEW x \in 0 .. w - 1
  PROVE  /\ [f EXCEPT ![y][x] = cell] \in Grid(w, h)
         /\ OneChanged(f, [f EXCEPT ![y][x] = cell], w, h, y, x, cell)
  BY Zenon DEF Grid, OneChanged

LEMMA WriteByteTypes ==
  ASSUME NEW v \in VgaScreens, NEW b \in Byte
  PROVE  /\ WriteByte(v, b) \in VgaScreens
         /\ b = "nl" => WriteByte(v, b) = NewLine(v)
         /\ b # "nl" =>
              LET z == IF v.x >= BufferWidth THEN NewLine(v) ELSE v
              IN /\ z \in VgaScreens /\ z.x \in 0 .. BufferWidth - 1
                 /\ WriteByte(v, b).x = z.x + 1
                 /\ Drawn(z, WriteByte(v, b), BufferWidth, BufferHeight, z.x, VgaGlyph(b))
<1>1. b = "nl" => WriteByte(v, b) = NewLine(v)
  BY Zenon DEF WriteByte
<1>2. ASSUME b # "nl"
      PROVE  LET z == IF v.x >= BufferWidth THEN NewLine(v) ELSE v
             IN /\ z \in VgaScreens /\ z.x \in 0 .. BufferWidth - 1
                /\ WriteByte(v, b) \in VgaScreens
                /\ WriteByte(v, b).x = z.x + 1
                /\ Drawn(z, WriteByte(v, b), BufferWidth, BufferHeight, z.x, VgaGlyph(b))
  <2>1. PICK z : z = IF v.x >= BufferWidth THEN NewLine(v) ELSE v
    BY Zenon
  <2>2. z \in VgaScreens /\ z.x \in 0 .. BufferWidth - 1
    <3>1. CASE v.x >= BufferWidth
      <4>1. z \in VgaScreens /\ z.x = 0
        BY Zenon, <2>1, <3>1, NewLineFeeds
      <4> QED
        BY <4>1, ScreenSizes
    <3>2. CASE ~(v.x >= BufferWidth)
      <4>1. z = v
        BY <2>1, <3>2, Zenon
      <4>2. v.x \in 0 .. BufferWidth
        BY Zenon DEF VgaScreens
      <4> QED
        BY <3>2, <4>1, <4>2, ScreenSizes
    <3> QED
      BY Zenon, <3>1, <3>2
  <2>3. PICK s : s = [z.cells EXCEPT ![z.y][z.x] = VgaGlyph(b)]
    BY Zenon
  <2>4. WriteByte(v, b) = [z EXCEPT !.x = z.x + 1, !.cells = s]
    BY Zenon, <1>2, <2>1, <2>3 DEF WriteByte
  <2>5. VgaGlyph(b) \in Cells
    BY Zenon DEF VgaGlyph, Cells, Byte
  <2>6. z.cells \in Grid(BufferWidth, BufferHeight) /\ z.y \in 0 .. BufferHeight - 1
    BY Zenon, <2>2 DEF VgaScreens, Grid
  <2>7. /\ s \in Grid(BufferWidth, BufferHeight)
        /\ OneChanged(z.cells, s, BufferWidth, BufferHeight, z.y, z.x, VgaGlyph(b))
    BY <2>2, <2>3, <2>5, <2>6, ScreenSizes, PutCell, Zenon
  <2>8. z.x + 1 \in 0 .. BufferWidth
    BY <2>2, ScreenSizes
  <2>9. /\ WriteByte(v, b) \in VgaScreens
        /\ WriteByte(v, b).x = z.x + 1 /\ WriteByte(v, b).y = z.y
        /\ WriteByte(v, b).cells = s
    BY Zenon, <2>2, <2>4, <2>7, <2>8 DEF VgaScreens, Grid
  <2> QED
    BY <2>1, <2>2, <2>7, <2>9, Zenon DEF Drawn
<1>3. NewLine(v) \in VgaScreens
  BY NewLineFeeds, Zenon
<1> QED
  BY <1>1, <1>2, <1>3, Zenon

(* Shows, in terms of the row starts and of what is painted.               *)
ShowsAt(v, w, h, t, S) ==
  /\ v.y < h /\ v.y <= RowsBelow(S, 0)
  /\ v.x = IF Column(t, w, Len(t)) = 0 /\ Len(t) \notin S THEN w ELSE Column(t, w, Len(t))
  /\ Painted(v, w, h, t, S)

LEMMA ShowsVga ==
  ASSUME NEW v, NEW t
  PROVE  Shows(v, "vga", t, FALSE) <=>
           ShowsAt(v, BufferWidth, BufferHeight, t, RowStarts(t, BufferWidth, FALSE))
  BY ScreenSizes, ZenonT(60) DEF Shows, ShowsAt, Painted, RightCell

LEMMA ShowsCon ==
  ASSUME NEW v, NEW t
  PROVE  Shows(v, "con", t, TRUE) <=> ShowsAt(v, Cols, Rows, t, RowStarts(t, Cols, TRUE))
  BY ScreenSizes, ZenonT(60) DEF Shows, ShowsAt, Painted, RightCell

(* A newline: the text continues at the start of the next row.             *)
LEMMA ShowsNewline ==
  ASSUME NEW t \in Seq(Byte), NEW w \in Nat \ {0}, NEW h \in Nat \ {0}, NEW v, NEW v1,
         NEW S, IsFiniteSet(S), S \subseteq 0 .. Len(t), v.y \in Nat, v1.y \in Nat,
         ShowsAt(v, w, h, t, S), v1.x = 0, Fed(v, v1, w, h)
  PROVE  ShowsAt(v1, w, h, Append(t, "nl"), S \union {Len(t) + 1})
<1>1. PICK u, n : u = Append(t, "nl") /\ n = Len(t)
  BY Zenon
<1>2. "nl" \in Byte
  BY Zenon DEF Byte
<1>3. n \in Nat /\ u \in Seq(Byte) /\ Len(u) = n + 1 /\ u[n + 1] = "nl"
  BY <1>1, <1>2, AppendText, Zenon
<1>4. /\ S \subseteq Nat /\ n + 1 \in Nat \ S /\ n + 1 > 0 /\ n + 1 >= n + 1
      /\ 0 \in Nat
  BY <1>1, <1>3
<1>5. Painted(v, w, h, u, S)
  <2>1. h \in Nat /\ Painted(v, w, h, t, S)
    BY Zenon DEF ShowsAt
  <2> QED
    BY <1>1, <2>1, NewlinePaints, Zenon
<1>6. Painted(v1, w, h, u, S \union {n + 1})
  <2>1. w \in Nat /\ h \in Nat /\ n + 1 >= Len(u)
    BY Zenon, <1>3, <1>4
  <2> QED
    BY <1>3, <1>4, <1>5, <2>1, FeedPaints, Zenon
<1>7. /\ RowsBelow(S, 0) \in Nat
      /\ RowsBelow(S \union {n + 1}, 0) = RowsBelow(S, 0) + 1
  BY <1>4, RowsBelowFacts, Zenon
<1>8. v.y < h /\ v.y <= RowsBelow(S, 0)
  BY Zenon DEF ShowsAt
<1>9. v1.y < h /\ v1.y <= RowsBelow(S \union {n + 1}, 0)
  <2>1. (v1.y = v.y + 1 /\ v.y < h - 1) \/ v1.y = v.y
    BY Zenon DEF Fed
  <2> QED
    BY <1>7, <1>8, <2>1
<1>10. Column(u, w, n + 1) = 0
  <2>1. n \in Nat
    BY Zenon, <1>3
  <2>2. Column(u, w, n + 1) = IF u[n + 1] = "nl" \/ Column(u, w, n) = w - 1 THEN 0
                              ELSE Column(u, w, n) + 1
    BY <2>1, NextColumn, ZenonT(40)
  <2> QED
    BY <1>3, <2>2, Zenon
<1>11. ShowsAt(v1, w, h, u, S \union {n + 1})
  BY <1>3, <1>6, <1>9, <1>10, Zenon DEF ShowsAt
<1> QED
  BY <1>1, <1>11, Zenon

(* The place of the end of a text is free before a byte goes there.        *)
LEMMA FreeBefore ==
  ASSUME NEW t \in Seq(Byte), NEW b \in Byte \ {"nl"}, NEW w \in Nat \ {0}, NEW imm,
         NEW S, IsFiniteSet(S), S \subseteq 0 .. Len(t),
         RowStarts(Append(t, b), w, imm) \in {S, S \union {Len(t) + 1}}
  PROVE  EndIsFree(t, w, S)
<1>1. PICK u, n, T : u = Append(t, b) /\ n = Len(t) /\ T = RowStarts(u, w, imm)
  BY Zenon
<1>2. b \in Byte /\ b # "nl"
  BY Zenon
<1>3. /\ n \in Nat /\ u \in Seq(Byte) /\ Len(u) = n + 1 /\ u[n + 1] = b
      /\ \A g \in 0 .. n : Column(u, w, g) = Column(t, w, g)
  BY <1>1, <1>2, AppendText, Zenon
<1>4. S \subseteq Nat /\ n + 1 \in Nat \ S /\ \A s \in S : s <= n
  BY <1>1, <1>3
<1>5. RowsBelow(S, n) = 0
  BY <1>3, <1>4, RowsBelowFacts, Zenon
<1>6. ASSUME NEW g \in 0 .. n - 1, RowsBelow(S, g) = 0
      PROVE  Column(t, w, g) # Column(t, w, n)
  <2>1. g \in Nat /\ g < n /\ n + 1 > g /\ n + 1 > n /\ g \in 0 .. n /\ n \in 0 .. n
    BY <1>3
  <2>2. g \in 0 .. Len(u) - 1 /\ n \in 0 .. Len(u) - 1
    BY <1>3
  <2>3. /\ RowsBelow(S \union {n + 1}, g) = RowsBelow(S, g) + 1
        /\ RowsBelow(S \union {n + 1}, n) = RowsBelow(S, n) + 1
    BY <1>3, <1>4, <2>1, RowsBelowFacts, Zenon
  <2>4. T = S \/ T = S \union {n + 1}
    BY <1>1, Zenon
  <2>5. RowsBelow(T, g) = RowsBelow(T, n)
    BY <1>5, <1>6, <2>3, <2>4, Zenon
  <2>6. Column(u, w, g) < Column(u, w, n)
    BY <1>1, <1>2, <1>3, <2>1, <2>2, <2>5, OneByteACell, Zenon
  <2>7. Column(u, w, g) \in 0 .. w - 1 /\ Column(u, w, n) \in 0 .. w - 1
    BY <1>3, <2>1, ColumnStep, Zenon
  <2>8. Column(u, w, g) # Column(u, w, n)
    BY <2>6, <2>7
  <2> QED
    BY <1>3, <2>1, <2>8, Zenon
<1> QED
  BY <1>1, <1>4, <1>6, Zenon DEF EndIsFree

(* A byte goes to the place of the end of the text, if that is in the row. *)
LEMMA ShowsByte ==
  ASSUME NEW t \in Seq(Byte), NEW b \in Byte \ {"nl"}, NEW w \in Nat \ {0},
         NEW h \in Nat \ {0}, NEW v, NEW v1, NEW imm, NEW S, IsFiniteSet(S),
         S \subseteq 0 .. Len(t), v.y \in Nat, v.y < h,
         RowStarts(Append(t, b), w, imm) \in {S, S \union {Len(t) + 1}},
         Painted(v, w, h, t, S),
         Drawn(v, v1, w, h, Column(t, w, Len(t)), VgaGlyph(b))
  PROVE  Painted(v1, w, h, Append(t, b), S)
<1>1. EndIsFree(t, w, S)
  BY FreeBefore, Zenon
<1>2. S \subseteq Nat /\ h \in Nat
  OBVIOUS
<1> QED
  BY <1>1, <1>2, BytePaints, Zenon

(* write_byte shows one byte more of the text.                             *)
LEMMA WriteByteShows ==
  ASSUME NEW v \in VgaScreens, NEW t \in Seq(Byte), NEW b \in Byte,
         Shows(v, "vga", t, FALSE)
  PROVE  Shows(WriteByte(v, b), "vga", Append(t, b), FALSE)
<1>1. PICK w, h, n, u, S, v1 :
        /\ w = BufferWidth /\ h = BufferHeight /\ n = Len(t) /\ u = Append(t, b)
        /\ S = RowStarts(t, w, FALSE) /\ v1 = WriteByte(v, b)
  BY Zenon
<1>2. /\ w \in Nat \ {0} /\ h \in Nat \ {0} /\ v.y \in 0 .. h - 1 /\ v1 \in VgaScreens
      /\ v1.y \in 0 .. h - 1
  <2>1. v1 \in VgaScreens
    BY <1>1, WriteByteTypes, Zenon
  <2> QED
    BY Zenon, <1>1, <2>1, ScreenSizes DEF VgaScreens
<1>3. IsFiniteSet(S) /\ S \subseteq 0 .. n
  BY <1>1, <1>2, RowStartsFacts, Zenon
<1>4. ShowsAt(v, w, h, t, S)
  BY <1>1, ShowsVga, Zenon
<1>5. /\ n \in Nat /\ u \in Seq(Byte) /\ Len(u) = n + 1 /\ u[n + 1] = b
      /\ \A g \in 0 .. n : Column(u, w, g) = Column(t, w, g)
  BY <1>1, <1>2, AppendText, Zenon
<1>6. CASE b = "nl"
  <2>1. v1 = NewLine(v)
    BY <1>1, <1>6, WriteByteTypes, Zenon
  <2>2. v1.x = 0 /\ Fed(v, v1, w, h)
    BY <1>1, <2>1, NewLineFeeds, Zenon
  <2>3. RowStarts(u, w, FALSE) = S \union {n + 1}
    BY <1>1, <1>2, <1>6, RowStartsWaiting, Zenon
  <2>4. v.y \in Nat /\ v1.y \in Nat
    BY <1>2
  <2>5. ShowsAt(v1, w, h, u, S \union {n + 1})
    BY <1>1, <1>2, <1>3, <1>4, <1>6, <2>2, <2>4, ShowsNewline, Zenon
  <2> QED
    BY <1>1, <2>3, <2>5, ShowsVga, Zenon
<1>7. CASE b # "nl"
  <2>1. PICK z, T : /\ z = IF v.x >= w THEN NewLine(v) ELSE v
                    /\ T = RowStarts(u, w, FALSE)
    BY Zenon
  <2>2. /\ z \in VgaScreens /\ z.x \in 0 .. w - 1 /\ v1.x = z.x + 1
        /\ Drawn(z, v1, w, h, z.x, VgaGlyph(b))
    BY <1>1, <1>7, <2>1, WriteByteTypes, Zenon
  <2>3. T = S \union (IF Column(t, w, n) = 0 THEN {n} ELSE {})
    BY <1>1, <1>2, <1>7, <2>1, RowStartsWaiting, Zenon
  <2>4. /\ v.x = IF Column(t, w, n) = 0 /\ n \notin S THEN w ELSE Column(t, w, n)
        /\ v.y < h /\ v.y <= RowsBelow(S, 0) /\ Painted(v, w, h, t, S)
    BY <1>1, <1>4, Zenon DEF ShowsAt
  <2>5. Column(t, w, n) \in 0 .. w - 1
    BY <1>2, <1>5, ColumnStep, Zenon
  <2>6. /\ z.x = Column(t, w, n) /\ Painted(z, w, h, t, T) /\ z.y <= RowsBelow(T, 0)
    <3>1. CASE Column(t, w, n) = 0 /\ n \notin S
      <4>1. v.x = w /\ w >= w
        BY <1>2, <2>4, <3>1
      <4>2. z = NewLine(v)
        BY <2>1, <4>1, Zenon
      <4>3. z.x = 0 /\ z.y <= v.y + 1 /\ Fed(v, z, w, h)
        BY <1>1, <4>2, NewLineFeeds, Zenon
      <4>4. T = S \union {n}
        BY <2>3, <3>1, Zenon
      <4>5. 0 \in S
        <5>1. LineStart(t, 0) = 0
          BY <1>5, LineStartStep, Zenon
        <5>2. 0 \in 0 .. n
          BY <1>5
        <5> QED
          BY <1>1, <5>1, <5>2, Zenon DEF RowStarts
      <4>6. n # 0
        BY <3>1, <4>5, Zenon
      <4>7. S \subseteq Nat /\ n \in Nat \ S /\ n > 0 /\ n >= n /\ w \in Nat /\ h \in Nat
            /\ v.y \in Nat /\ 0 \in Nat
        BY <1>2, <1>3, <1>5, <3>1, <4>6
      <4>8. Painted(z, w, h, t, S \union {n})
        BY <1>1, <1>3, <2>4, <4>3, <4>7, FeedPaints, Zenon
      <4>9. /\ RowsBelow(S \union {n}, 0) = RowsBelow(S, 0) + 1
            /\ RowsBelow(S, 0) \in Nat
        BY <1>3, <4>7, RowsBelowFacts, Zenon
      <4>10. z.y \in Nat
        BY <1>1, <2>2, ScreenSizes DEF VgaScreens
      <4>11. z.y <= RowsBelow(T, 0)
        BY <2>4, <4>3, <4>4, <4>7, <4>9, <4>10
      <4> QED
        BY <3>1, <4>3, <4>4, <4>8, <4>11, Zenon
    <3>2. CASE ~(Column(t, w, n) = 0 /\ n \notin S)
      <4>1. v.x = Column(t, w, n)
        BY <2>4, <3>2, Zenon
      <4>2. ~(v.x >= w)
        BY <1>2, <2>5, <4>1
      <4>3. z = v
        BY <2>1, <4>2, Zenon
      <4>4. T = S
        BY <2>3, <3>2, Zenon
      <4> QED
        BY <2>4, <4>1, <4>3, <4>4, Zenon
    <3> QED
      BY <3>1, <3>2, Zenon
  <2>7. IsFiniteSet(T) /\ T \subseteq 0 .. n
    <3>1. n \in 0 .. n
      BY <1>5
    <3>2. T \subseteq 0 .. n
      BY <1>3, <2>3, <3>1, Zenon
    <3>3. IsFiniteSet(T)
      BY <1>2, <1>5, <2>1, RowStartsFacts, Zenon
    <3> QED
      BY Zenon, <3>2, <3>3
  <2>8. z.y \in Nat /\ z.y < h /\ b \in Byte \ {"nl"}
    <3>1. z.y \in 0 .. h - 1
      BY Zenon, <1>1, <2>2 DEF VgaScreens
    <3> QED
      BY <1>2, <1>7, <3>1
  <2>9. Painted(v1, w, h, u, T)
    BY <1>1, <1>2, <2>1, <2>2, <2>6, <2>7, <2>8, ShowsByte, Zenon
  <2>10. v1.y = z.y
    BY <2>2, Zenon DEF Drawn, OneChanged
  <2>11. Column(u, w, n + 1) = IF Column(t, w, n) = w - 1 THEN 0 ELSE Column(t, w, n) + 1
    <3>1. n \in 0 .. n
      BY <1>5
    <3>2. Column(u, w, n) = Column(t, w, n)
      BY <1>5, <3>1, Zenon
    <3>3. Column(u, w, n + 1) = IF u[n + 1] = "nl" \/ Column(u, w, n) = w - 1 THEN 0
                                ELSE Column(u, w, n) + 1
      BY <1>2, <1>5, NextColumn, Zenon
    <3> QED
      BY <1>5, <1>7, <3>2, <3>3, Zenon
  <2>12. n + 1 \notin T
    BY <1>5, <2>7
  <2>13. v1.x = IF Column(u, w, n + 1) = 0 /\ n + 1 \notin T THEN w ELSE Column(u, w, n + 1)
    BY <1>2, <2>2, <2>5, <2>6, <2>11, <2>12
  <2>14. ShowsAt(v1, w, h, u, T)
    BY <1>5, <2>6, <2>8, <2>9, <2>10, <2>13, Zenon DEF ShowsAt
  <2> QED
    BY <1>1, <2>1, <2>14, ShowsVga, Zenon
<1> QED
  BY <1>6, <1>7, Zenon

-----------------------------------------------------------------------------
(* The framebuffer console.                                                *)

(* A screen before the check of its column.                                *)
LooseScreens == [x : Nat, y : Nat, cells : Grid(Cols, Rows)]

LEMMA LooseTypes == ConScreens \subseteq LooseScreens
<1>1. 0 .. Cols - 1 \subseteq Nat
  OBVIOUS
<1> QED
  BY Zenon, <1>1 DEF ConScreens, LooseScreens, Grid

LEMMA ConNewLineFeeds ==
  ASSUME NEW v \in LooseScreens
  PROVE  /\ ConNewLine(v) \in ConScreens /\ ConNewLine(v).x = 0
         /\ v.y < Rows => Fed(v, ConNewLine(v), Cols, Rows)
<1>1. PICK s : s = Scroll(v.cells, "con")
  BY Zenon
<1>2. v.cells \in Grid(Cols, Rows)
  BY Zenon DEF LooseScreens
<1>3. s \in Grid(Cols, Rows) /\ MovedUp(v.cells, s, Cols, Rows)
  BY <1>1, <1>2, ScrollFacts, ScreenSizes, Zenon
<1>4. ConNewLine(v) = IF v.y + 1 >= Rows
                      THEN [v EXCEPT !.x = 0, !.y = Rows - 1, !.cells = s]
                      ELSE [v EXCEPT !.x = 0, !.y = v.y + 1]
  BY <1>1, Zenon DEF ConNewLine
<1>5. CASE ~(v.y + 1 >= Rows)
  <2>1. ConNewLine(v) = [v EXCEPT !.x = 0, !.y = v.y + 1]
    BY <1>4, <1>5, Zenon
  <2>2. v.y + 1 \in Nat /\ v.y < Rows - 1 /\ 0 \in 0 .. Cols - 1
    BY <1>5, ScreenSizes DEF LooseScreens
  <2>3. ConNewLine(v) \in ConScreens /\ ConNewLine(v).x = 0 /\ ConNewLine(v).y = v.y + 1
        /\ ConNewLine(v).cells = v.cells
    BY Zenon, <2>1, <2>2 DEF ConScreens, LooseScreens, Grid
  <2> QED
    BY <2>2, <2>3, Zenon DEF Fed
<1>6. CASE v.y + 1 >= Rows
  <2>1. ConNewLine(v) = [v EXCEPT !.x = 0, !.y = Rows - 1, !.cells = s]
    BY <1>4, <1>6, Zenon
  <2>2. Rows - 1 \in Nat /\ 0 \in 0 .. Cols - 1
    BY ScreenSizes
  <2>3. ConNewLine(v) \in ConScreens /\ ConNewLine(v).x = 0 /\ ConNewLine(v).y = Rows - 1
        /\ ConNewLine(v).cells = s
    BY Zenon, <1>3, <2>1, <2>2 DEF ConScreens, LooseScreens, Grid
  <2>4. v.y < Rows => v.y = Rows - 1
    BY <1>6, ScreenSizes DEF LooseScreens
  <2> QED
    BY <1>3, <2>3, <2>4, Zenon DEF Fed
<1> QED
  BY Zenon, <1>5, <1>6

(* One cell of the console is replaced at its position.                    *)
LEMMA PutConCell ==
  ASSUME NEW v \in ConScreens, v.y < Rows, NEW cell \in Cells, NEW v1
  PROVE  v1 = [v EXCEPT !.cells[v.y][v.x] = cell] =>
           v1 \in ConScreens /\ v1.x = v.x /\ Drawn(v, v1, Cols, Rows, v.x, cell)
<1>1. PICK s : s = [v.cells EXCEPT ![v.y][v.x] = cell]
  BY Zenon
<1>2. v.cells \in Grid(Cols, Rows) /\ v.y \in 0 .. Rows - 1 /\ v.x \in 0 .. Cols - 1
  BY ScreenSizes DEF ConScreens, Grid
<1>3. s \in Grid(Cols, Rows) /\ OneChanged(v.cells, s, Cols, Rows, v.y, v.x, cell)
  BY <1>1, <1>2, ScreenSizes, PutCell, Zenon
<1>4. v1 = [v EXCEPT !.cells[v.y][v.x] = cell] => v1 = [v EXCEPT !.cells = s]
  BY Zenon, <1>1
<1>5. v1 = [v EXCEPT !.cells = s] =>
        v1 \in ConScreens /\ v1.x = v.x /\ v1.y = v.y /\ v1.cells = s
  BY Zenon, <1>3 DEF ConScreens, Grid
<1> QED
  BY <1>3, <1>4, <1>5, Zenon DEF Drawn

(* draw_char_at; on a blank cell it shows the byte.                        *)
Plain == {"a", "b", "sp", "del", "other"}

LEMMA DrawCharFacts ==
  ASSUME NEW v \in ConScreens, NEW b \in Byte
  PROVE  /\ DrawChar(v, b) \in ConScreens
         /\ DrawChar(v, b).x = v.x /\ DrawChar(v, b).y = v.y
         /\ b \in Plain /\ v.y < Rows /\ v.cells[v.y][v.x] = "blank" =>
              Drawn(v, DrawChar(v, b), Cols, Rows, v.x, VgaGlyph(b))
<1>1. v.y \in Nat /\ Rows \in Nat
  BY Zenon, ScreenSizes DEF ConScreens
<1>2. CASE v.y >= Rows
  <2>1. DrawChar(v, b) = v /\ ~(v.y < Rows)
    BY <1>1, <1>2 DEF DrawChar
  <2> QED
    BY <2>1, Zenon
<1>3. CASE ~(v.y >= Rows) /\ b = "sp"
  <2>1. DrawChar(v, b) = v
    BY <1>3, Zenon DEF DrawChar
  <2>2. VgaGlyph(b) = "blank"
    BY Zenon, <1>3 DEF VgaGlyph
  <2> QED
    BY <2>1, <2>2, Zenon DEF Drawn, OneChanged
<1>4. CASE ~(v.y >= Rows) /\ b # "sp"
  <2>1. PICK cell : cell = IF v.cells[v.y][v.x] \in {"blank", Glyph(b)} THEN Glyph(b)
                           ELSE "junk"
    BY Zenon
  <2>2. DrawChar(v, b) = [v EXCEPT !.cells[v.y][v.x] = cell]
    BY Zenon, <1>4, <2>1 DEF DrawChar
  <2>3. cell \in Cells
    BY Zenon, <2>1 DEF Glyph, Cells
  <2>4. v.y < Rows
    BY <1>1, <1>4
  <2>5. /\ DrawChar(v, b) \in ConScreens /\ DrawChar(v, b).x = v.x
        /\ Drawn(v, DrawChar(v, b), Cols, Rows, v.x, cell)
    BY <2>2, <2>3, <2>4, PutConCell, Zenon
  <2>6. b \in Plain => Glyph(b) = VgaGlyph(b)
    BY Zenon, <1>4 DEF Plain, Glyph, VgaGlyph
  <2>7. b \in Plain /\ v.cells[v.y][v.x] = "blank" => cell = VgaGlyph(b)
    BY <2>1, <2>6, Zenon
  <2>8. DrawChar(v, b).y = v.y
    BY <2>5, Zenon DEF Drawn, OneChanged
  <2> QED
    BY <2>5, <2>7, <2>8, Zenon
<1> QED
  BY <1>2, <1>3, <1>4, Zenon

(* The position one back, and what Backspace makes of it.                  *)
Back(v) ==
  IF v.x > 0 THEN [v EXCEPT !.x = @ - 1]
  ELSE IF v.y > 0 THEN [v EXCEPT !.x = Cols - 1, !.y = @ - 1]
  ELSE v

LEMMA BackspaceFacts ==
  ASSUME NEW v \in ConScreens
  PROVE  /\ Back(v) \in ConScreens /\ Backspace(v) \in ConScreens
         /\ Back(v).cells = v.cells
         /\ v.x > 0 => Back(v).x = v.x - 1 /\ Back(v).y = v.y
         /\ v.x = 0 /\ v.y > 0 => Back(v).x = Cols - 1 /\ Back(v).y = v.y - 1
         /\ Back(v).y < Rows =>
              /\ Backspace(v).x = Back(v).x
              /\ Drawn(Back(v), Backspace(v), Cols, Rows, Back(v).x, "blank")
<1>1. v.y \in Nat /\ v.x \in 0 .. Cols - 1 /\ Rows \in Nat \ {0} /\ Cols \in Nat \ {0}
  BY Zenon, ScreenSizes DEF ConScreens
<1>2. /\ v.x > 0 => v.x - 1 \in 0 .. Cols - 1
      /\ v.y > 0 => v.y - 1 \in Nat
      /\ Cols - 1 \in 0 .. Cols - 1
      /\ v.x = 0 => ~(v.x > 0)
  BY <1>1
<1>3. /\ Back(v) \in ConScreens /\ Back(v).cells = v.cells
      /\ v.x > 0 => Back(v).x = v.x - 1 /\ Back(v).y = v.y
      /\ v.x = 0 /\ v.y > 0 => Back(v).x = Cols - 1 /\ Back(v).y = v.y - 1
  BY Zenon, <1>2 DEF Back, ConScreens
<1>4. PICK d : d = Back(v)
  BY Zenon
<1>5. Backspace(v) = IF d.y >= Rows THEN d ELSE [d EXCEPT !.cells[d.y][d.x] = "blank"]
  BY <1>4 DEF Backspace, Back
<1>6. d \in ConScreens /\ d.y \in Nat /\ "blank" \in Cells
  BY Zenon, <1>3, <1>4 DEF ConScreens, Cells
<1>7. d.y >= Rows <=> ~(d.y < Rows)
  BY <1>1, <1>6
<1>8. CASE d.y < Rows
  <2>1. Backspace(v) = [d EXCEPT !.cells[d.y][d.x] = "blank"]
    BY <1>5, <1>7, <1>8, Zenon
  <2>2. /\ Backspace(v) \in ConScreens /\ Backspace(v).x = d.x
        /\ Drawn(d, Backspace(v), Cols, Rows, d.x, "blank")
    BY <1>6, <1>8, <2>1, PutConCell, Zenon
  <2> QED
    BY <1>3, <1>4, <2>2, Zenon
<1>9. CASE ~(d.y < Rows)
  <2>1. Backspace(v) = d
    BY <1>5, <1>7, <1>9, Zenon
  <2> QED
    BY <1>3, <1>4, <1>9, <2>1, Zenon
<1> QED
  BY <1>8, <1>9, Zenon

LEMMA TabTypes ==
  ASSUME NEW v \in ConScreens
  PROVE  Tab(v) \in ConScreens
<1>1. v.x \in Nat /\ v.y \in Nat /\ v.y + 1 \in Nat /\ TabWidth \in Nat \ {0}
      /\ Cols \in Nat \ {0} /\ 0 \in 0 .. Cols - 1
  BY ScreenSizes DEF ConScreens
<1>2. v.x \div TabWidth \in Nat
  BY <1>1
<1>3. PICK next \in Nat : next = ((v.x \div TabWidth) + 1) * TabWidth
  BY <1>1, <1>2
<1>4. Tab(v) = IF next >= Cols THEN [v EXCEPT !.x = 0, !.y = v.y + 1]
               ELSE [v EXCEPT !.x = next]
  BY <1>3, Zenon DEF Tab
<1>5. ~(next >= Cols) => next \in 0 .. Cols - 1
  BY <1>1
<1> QED
  BY Zenon, <1>1, <1>4, <1>5 DEF ConScreens

LEMMA AdvanceTypes ==
  ASSUME NEW v \in ConScreens, NEW e, e = [v EXCEPT !.x = v.x + 1]
  PROVE  /\ e \in LooseScreens /\ e.x = v.x + 1 /\ e.y = v.y /\ e.cells = v.cells
         /\ e.x < Cols => e \in ConScreens
         /\ e.x >= Cols <=> ~(e.x < Cols)
<1>1. v.x \in 0 .. Cols - 1 /\ Cols \in Nat \ {0}
  BY Zenon, ScreenSizes DEF ConScreens
<1>2. e \in LooseScreens /\ e.x = v.x + 1 /\ e.y = v.y /\ e.cells = v.cells
  BY <1>1 DEF ConScreens, LooseScreens, Grid
<1>3. v.x + 1 < Cols => v.x + 1 \in 0 .. Cols - 1
  BY <1>1
<1>4. e.x < Cols => e \in ConScreens
  BY Zenon, <1>2, <1>3 DEF ConScreens
<1> QED
  BY <1>1, <1>2, <1>4

LEMMA ConByteTypes ==
  ASSUME NEW v \in ConScreens, NEW b \in Byte
  PROVE  ConByte(v, b) \in ConScreens
<1>1. CASE b = "nl"
  <2>1. ConByte(v, b) = ConNewLine(v)
    BY Zenon, <1>1 DEF ConByte
  <2> QED
    BY <2>1, LooseTypes, ConNewLineFeeds, Zenon
<1>2. CASE b = "cr"
  <2>1. ConByte(v, b) = [v EXCEPT !.x = 0] /\ 0 \in 0 .. Cols - 1
    BY <1>2, ScreenSizes DEF ConByte
  <2> QED
    BY Zenon, <2>1 DEF ConScreens
<1>3. CASE b = "bs"
  <2>1. ConByte(v, b) = Backspace(v)
    BY Zenon, <1>3 DEF ConByte
  <2> QED
    BY <2>1, BackspaceFacts, Zenon
<1>4. CASE b = "tab"
  <2>1. ConByte(v, b) = Tab(v)
    BY Zenon, <1>4 DEF ConByte
  <2> QED
    BY <2>1, TabTypes, Zenon
<1>5. CASE b \notin {"nl", "cr", "bs", "tab"}
  <2>1. PICK d : d = DrawChar(v, b)
    BY Zenon
  <2>2. d \in ConScreens
    BY <2>1, DrawCharFacts, Zenon
  <2>3. PICK e : e = [d EXCEPT !.x = d.x + 1]
    BY Zenon
  <2>4. ConByte(v, b) = IF e.x >= Cols THEN ConNewLine(e) ELSE e
    BY Zenon, <1>5, <2>1, <2>3 DEF ConByte
  <2>5. /\ e \in LooseScreens /\ (e.x < Cols => e \in ConScreens)
        /\ e.x >= Cols <=> ~(e.x < Cols)
    BY <2>2, <2>3, AdvanceTypes, Zenon
  <2> QED
    BY <2>4, <2>5, ConNewLineFeeds, Zenon
<1> QED
  BY <1>1, <1>2, <1>3, <1>4, <1>5, Zenon

(* console_print_first shows one byte more of the text.                    *)
LEMMA ConByteShows ==
  ASSUME NEW v \in ConScreens, NEW t \in Seq(Byte), NEW b \in Byte \ {"cr", "tab", "bs"},
         Shows(v, "con", t, TRUE)
  PROVE  Shows(ConByte(v, b), "con", Append(t, b), TRUE)
<1>1. PICK w, h, n, u, S, T, v1 :
        /\ w = Cols /\ h = Rows /\ n = Len(t) /\ u = Append(t, b)
        /\ S = RowStarts(t, w, TRUE) /\ T = RowStarts(u, w, TRUE) /\ v1 = ConByte(v, b)
  BY Zenon
<1>2. /\ w \in Nat \ {0} /\ h \in Nat \ {0} /\ v.y \in Nat /\ v1 \in ConScreens
      /\ v1.y \in Nat /\ b \in Byte
  <2>1. v1 \in ConScreens
    BY <1>1, ConByteTypes, Zenon
  <2> QED
    BY Zenon, <1>1, <2>1, ScreenSizes DEF ConScreens
<1>3. IsFiniteSet(S) /\ S \subseteq 0 .. n
  BY <1>1, <1>2, RowStartsFacts, Zenon
<1>4. ShowsAt(v, w, h, t, S)
  BY <1>1, ShowsCon, Zenon
<1>5. /\ n \in Nat /\ u \in Seq(Byte) /\ Len(u) = n + 1 /\ u[n + 1] = b
      /\ \A g \in 0 .. n : Column(u, w, g) = Column(t, w, g)
  BY <1>1, <1>2, AppendText, Zenon
<1>6. T = S \union (IF Column(u, w, n + 1) = 0 THEN {n + 1} ELSE {})
  BY <1>1, <1>2, RowStartsImmediate, Zenon
<1>7. Column(u, w, n + 1) = IF b = "nl" \/ Column(t, w, n) = w - 1 THEN 0
                            ELSE Column(t, w, n) + 1
  <2>1. n \in Nat /\ n \in 0 .. n
    BY <1>5
  <2>2. Column(u, w, n + 1) = IF u[n + 1] = "nl" \/ Column(u, w, n) = w - 1 THEN 0
                              ELSE Column(u, w, n) + 1
    BY <1>2, <2>1, NextColumn, Zenon
  <2> QED
    BY <1>5, <2>1, <2>2, Zenon
<1>8. CASE b = "nl"
  <2>1. v1 = ConNewLine(v)
    BY Zenon, <1>1, <1>8 DEF ConByte
  <2>2. v.y < Rows
    BY <1>1, <1>4, Zenon DEF ShowsAt
  <2>3. v1.x = 0 /\ Fed(v, v1, w, h)
    BY <1>1, <2>1, <2>2, LooseTypes, ConNewLineFeeds, Zenon
  <2>4. T = S \union {n + 1}
    BY <1>6, <1>7, <1>8, Zenon
  <2>5. ShowsAt(v1, w, h, u, S \union {n + 1})
    BY <1>1, <1>2, <1>3, <1>4, <1>8, <2>3, ShowsNewline, Zenon
  <2> QED
    BY <1>1, <2>4, <2>5, ShowsCon, Zenon
<1>9. CASE b # "nl"
  <2>1. /\ v.y < h /\ v.y <= RowsBelow(S, 0) /\ Painted(v, w, h, t, S)
        /\ v.x = IF Column(t, w, n) = 0 /\ n \notin S THEN w ELSE Column(t, w, n)
    BY <1>1, <1>4, Zenon DEF ShowsAt
  <2>2. v.x = Column(t, w, n) /\ Column(t, w, n) \in 0 .. w - 1
    <3>1. Column(t, w, n) \in 0 .. w - 1
      BY <1>2, <1>5, ColumnStep, Zenon
    <3>2. v.x # w
      BY <1>1, <1>2 DEF ConScreens
    <3> QED
      BY <2>1, <3>1, <3>2, Zenon
  <2>3. /\ b \in Byte \ {"nl"} /\ S \subseteq Nat /\ n + 1 \in Nat \ S
        /\ n + 1 >= Len(u) /\ n + 1 > 0 /\ 0 \in Nat /\ w \in Nat /\ h \in Nat
    BY <1>2, <1>3, <1>5, <1>9
  <2>4. T \in {S, S \union {n + 1}}
    BY <1>6, Zenon
  <2>5. EndIsFree(t, w, S)
    BY <1>1, <1>2, <1>3, <2>3, <2>4, FreeBefore, Zenon
  <2>6. v.cells[v.y][v.x] = "blank"
    <3>1. TakesEnd(t, u, n, b, w, S, v.y, v.y, v.x)
      BY <1>1, <1>2, <1>3, <2>3, <2>5, HereAppend, Zenon
    <3>2. Here(t, w, S, v.y, v.y, v.x) = {}
      BY <2>2, <3>1, Zenon DEF TakesEnd
    <3>3. v.y \in 0 .. h - 1 /\ v.x \in 0 .. w - 1
      BY <1>2, <2>1, <2>2
    <3> QED
      BY <2>1, <3>2, <3>3, Zenon DEF Painted, RightCell
  <2>7. PICK d, e : d = DrawChar(v, b) /\ e = [d EXCEPT !.x = d.x + 1]
    BY Zenon
  <2>8. b \in Plain
    BY Zenon, <1>9 DEF Byte, Plain
  <2>9. /\ d \in ConScreens /\ d.x = v.x /\ d.y = v.y
        /\ Drawn(v, d, w, h, v.x, VgaGlyph(b))
    BY <1>1, <1>2, <2>1, <2>6, <2>7, <2>8, DrawCharFacts, Zenon
  <2>10. /\ e \in LooseScreens /\ e.x = v.x + 1 /\ e.y = v.y /\ e.cells = d.cells
         /\ e.x >= Cols <=> ~(e.x < Cols)
    <3>1. d \in ConScreens /\ e = [d EXCEPT !.x = d.x + 1]
      BY <2>7, <2>9, Zenon
    <3>2. /\ e \in LooseScreens /\ e.x = d.x + 1 /\ e.y = d.y /\ e.cells = d.cells
          /\ e.x >= Cols <=> ~(e.x < Cols)
      BY <3>1, AdvanceTypes, Zenon
    <3> QED
      BY <2>9, <3>2, Zenon
  <2>11. Drawn(v, e, w, h, Column(t, w, n), VgaGlyph(b))
    BY <2>2, <2>9, <2>10, Zenon DEF Drawn
  <2>12. Painted(e, w, h, u, S)
    BY <1>1, <1>2, <1>3, <2>1, <2>3, <2>4, <2>11, ShowsByte, Zenon
  <2>13. v1 = IF e.x >= Cols THEN ConNewLine(e) ELSE e
    BY Zenon, <1>1, <1>9, <2>7 DEF ConByte
  <2>14. RowsBelow(S, 0) \in Nat /\ RowsBelow(S \union {n + 1}, 0) = RowsBelow(S, 0) + 1
    BY <1>3, <2>3, RowsBelowFacts, Zenon
  <2>a. /\ e.x = Column(t, w, n) + 1 /\ Column(t, w, n) \in 0 .. w - 1
        /\ w = Cols /\ w \in Nat \ {0}
    BY <1>1, <1>2, <2>2, <2>10, Zenon
  <2>15. CASE Column(t, w, n) = w - 1
    <3>1. e.x >= Cols
      BY <2>a, <2>15
    <3>2. v1 = ConNewLine(e)
      BY <2>13, <3>1, Zenon
    <3>3. v1.x = 0 /\ Fed(e, v1, w, h)
      BY <1>1, <2>1, <2>10, <3>2, ConNewLineFeeds, Zenon
    <3>4. T = S \union {n + 1} /\ Column(u, w, n + 1) = 0
      BY <1>6, <1>7, <2>15, Zenon
    <3>5. Painted(v1, w, h, u, S \union {n + 1})
      BY <1>2, <1>3, <1>5, <2>3, <2>10, <2>12, <3>3, FeedPaints, Zenon
    <3>6. v1.y < h /\ v1.y <= RowsBelow(T, 0)
      <4>1. (v1.y = v.y + 1 /\ v.y < h - 1) \/ v1.y = v.y
        BY <2>10, <3>3, Zenon DEF Fed
      <4> QED
        BY <1>2, <2>1, <2>14, <3>4, <4>1
    <3>7. ShowsAt(v1, w, h, u, T)
      BY <1>5, <3>3, <3>4, <3>5, <3>6, Zenon DEF ShowsAt
    <3> QED
      BY <1>1, <3>7, ShowsCon, Zenon
  <2>16. CASE Column(t, w, n) # w - 1
    <3>1. ~(e.x >= Cols) /\ Column(t, w, n) + 1 # 0
      BY <2>a, <2>16
    <3>2. v1 = e
      BY <2>13, <3>1, Zenon
    <3>3. Column(u, w, n + 1) = Column(t, w, n) + 1
      BY <1>7, <1>9, <2>16, Zenon
    <3>4. T = S
      BY <1>6, <3>1, <3>3, Zenon
    <3>5. ShowsAt(v1, w, h, u, T)
      BY <1>5, <2>1, <2>2, <2>10, <2>12, <3>1, <3>2, <3>3, <3>4, Zenon DEF ShowsAt
    <3> QED
      BY <1>1, <3>5, ShowsCon, Zenon
  <2> QED
    BY <2>15, <2>16, Zenon
<1> QED
  BY <1>8, <1>9, Zenon

(* An erased byte leaves the screen as it was before the byte.             *)
LEMMA BackspaceShows ==
  ASSUME NEW v \in ConScreens, NEW t \in Seq(Byte), NEW b \in Byte \ {"nl"},
         v.x > 0 \/ v.y > 0, Shows(v, "con", Append(t, b), TRUE)
  PROVE  Shows(Backspace(v), "con", t, TRUE)
<1>1. PICK w, h, n, u, S, T, d, v1 :
        /\ w = Cols /\ h = Rows /\ n = Len(t) /\ u = Append(t, b)
        /\ S = RowStarts(t, w, TRUE) /\ T = RowStarts(u, w, TRUE)
        /\ d = Back(v) /\ v1 = Backspace(v)
  BY Zenon
<1>2. /\ w \in Nat \ {0} /\ h \in Nat \ {0} /\ w \in Nat /\ h \in Nat
      /\ v.x \in 0 .. w - 1 /\ v.y \in Nat /\ b \in Byte /\ b # "nl"
  BY Zenon, <1>1, ScreenSizes DEF ConScreens
<1>3. IsFiniteSet(S) /\ S \subseteq 0 .. n
  BY <1>1, <1>2, RowStartsFacts, Zenon
<1>4. ShowsAt(v, w, h, u, T)
  BY <1>1, ShowsCon, Zenon
<1>5. /\ n \in Nat /\ u \in Seq(Byte) /\ Len(u) = n + 1 /\ u[n + 1] = b
      /\ \A g \in 0 .. n : Column(u, w, g) = Column(t, w, g)
  BY <1>1, <1>2, AppendText, Zenon
<1>6. T = S \union (IF Column(u, w, n + 1) = 0 THEN {n + 1} ELSE {})
  BY <1>1, <1>2, RowStartsImmediate, Zenon
<1>7. Column(u, w, n + 1) = IF Column(t, w, n) = w - 1 THEN 0 ELSE Column(t, w, n) + 1
  <2>1. n \in Nat /\ n \in 0 .. n
    BY <1>5
  <2>2. Column(u, w, n + 1) = IF u[n + 1] = "nl" \/ Column(u, w, n) = w - 1 THEN 0
                              ELSE Column(u, w, n) + 1
    BY <1>2, <2>1, NextColumn, Zenon
  <2> QED
    BY <1>2, <1>5, <2>1, <2>2, Zenon
<1>8. Column(t, w, n) \in 0 .. w - 1
  BY <1>2, <1>5, ColumnStep, Zenon
<1>9. S \subseteq Nat /\ n + 1 \in Nat \ S /\ n + 1 >= Len(u) /\ n + 1 > 0 /\ 0 \in Nat
  BY <1>3, <1>5
<1>10. T \in {S, S \union {n + 1}}
  BY <1>6, Zenon
<1>11. EndIsFree(t, w, S)
  BY <1>1, <1>2, <1>3, <1>10, FreeBefore, Zenon
<1>12. RowsBelow(S, 0) \in Nat /\ RowsBelow(S \union {n + 1}, 0) = RowsBelow(S, 0) + 1
  BY <1>3, <1>9, RowsBelowFacts, Zenon
<1>13. Column(t, w, n) = 0 => n \in S
  <2>1. n \in 0 .. n
    BY <1>5
  <2> QED
    BY <1>1, <2>1, Zenon DEF RowStarts
<1>14. /\ d \in ConScreens /\ d.cells = v.cells
       /\ v.x > 0 => d.x = v.x - 1 /\ d.y = v.y
       /\ v.x = 0 /\ v.y > 0 => d.x = w - 1 /\ d.y = v.y - 1
       /\ d.y < h => v1.x = d.x /\ Drawn(d, v1, w, h, d.x, "blank")
  BY <1>1, BackspaceFacts, Zenon
<1>15. /\ v.y < h /\ v.y <= RowsBelow(T, 0) /\ Painted(v, w, h, u, T)
       /\ v.x = IF Column(u, w, n + 1) = 0 /\ n + 1 \notin T THEN w ELSE Column(u, w, n + 1)
  BY <1>4, <1>5, Zenon DEF ShowsAt
<1>16. v.x = Column(u, w, n + 1)
  BY <1>2, <1>15
<1>17. d.x = Column(t, w, n) /\ d.y \in Nat /\ d.y < h /\ d.y <= RowsBelow(S, 0)
       /\ Painted(d, w, h, u, S)
  <2>1. CASE Column(t, w, n) = w - 1
    <3>1. T = S \union {n + 1} /\ v.x = 0
      BY <1>6, <1>7, <1>16, <2>1, Zenon
    <3>2. d.x = w - 1 /\ d.y = v.y - 1 /\ v.y > 0
      BY <1>2, <1>14, <3>1
    <3>3. d.y \in Nat /\ v.y = d.y + 1 /\ d.y < h /\ d.y <= RowsBelow(S, 0)
      BY <1>2, <1>12, <1>15, <3>1, <3>2
    <3>4. Painted(d, w, h, u, S)
      BY <1>2, <1>3, <1>5, <1>9, <1>14, <1>15, <3>1, <3>3, UnfeedPaints, Zenon
    <3> QED
      BY <2>1, <3>2, <3>3, <3>4, Zenon
  <2>2. CASE Column(t, w, n) # w - 1
    <3>1. v.x = Column(t, w, n) + 1
      BY <1>7, <1>16, <2>2, Zenon
    <3>2. v.x > 0 /\ v.x # 0 /\ v.x - 1 = Column(t, w, n)
      BY <1>8, <3>1
    <3>3. T = S
      BY <1>6, <1>16, <3>2, Zenon
    <3>4. Painted(d, w, h, u, S)
      BY <1>14, <1>15, <3>2, <3>3, Zenon DEF Painted
    <3> QED
      BY <1>2, <1>14, <1>15, <3>2, <3>3, <3>4, Zenon
  <2> QED
    BY <2>1, <2>2, Zenon
<1>18. v1.x = Column(t, w, n) /\ Drawn(d, v1, w, h, Column(t, w, n), "blank")
  BY <1>14, <1>17, Zenon
<1>19. Painted(v1, w, h, t, S)
  BY <1>1, <1>2, <1>3, <1>9, <1>11, <1>17, <1>18, EraseUnpaints, Zenon
<1>20. v1.y = d.y
  BY <1>18, Zenon DEF Drawn
<1>21. ShowsAt(v1, w, h, t, S)
  BY <1>1, <1>13, <1>17, <1>18, <1>19, <1>20, Zenon DEF ShowsAt
<1> QED
  BY <1>1, <1>21, ShowsCon, Zenon

(* A text that is not empty is what was there before its last byte, and    *)
(* that byte.                                                              *)
LEMMA LastByte ==
  ASSUME NEW t \in Seq(Byte), t # <<>>
  PROVE  LET s == SubSeq(t, 1, Len(t) - 1)
         IN s \in Seq(Byte) /\ t[Len(t)] \in Byte /\ t = Append(s, t[Len(t)])
  OBVIOUS

(* A device that was cleared shows the empty text.                         *)
LEMMA ClearedShows ==
  ASSUME NEW w \in Nat \ {0}, NEW h \in Nat \ {0}, NEW v, NEW imm, v.x = 0, v.y = 0,
         v.cells = [r \in 0 .. h - 1 |-> [c \in 0 .. w - 1 |-> "blank"]]
  PROVE  ShowsAt(v, w, h, <<>>, RowStarts(<<>>, w, imm))
<1>1. PICK t, S : t = <<>> /\ S = RowStarts(t, w, imm)
  BY Zenon
<1>2. t \in Seq(Byte) /\ Len(t) = 0 /\ 0 .. Len(t) - 1 = {} /\ 0 \in Nat
      /\ 0 \in 0 .. 0 /\ 0 \in 0 .. Len(t) /\ w \in Nat /\ h \in Nat
  BY <1>1
<1>3. LineStart(t, 0) = 0 /\ Column(t, w, 0) = 0
  <2>1. LineStart(t, 0) \in 0 .. 0
    BY Zenon, <1>2, LineStartIs DEF StartsLine
  <2>2. LineStart(t, 0) = 0
    BY <2>1
  <2> QED
    BY <2>2 DEF Column
<1>4. 0 \in S
  BY <1>1, <1>2, <1>3, Zenon DEF RowStarts
<1>5. RowsBelow(S, 0) = 0
  <2>1. IsFiniteSet(S) /\ S \subseteq 0 .. Len(t)
    BY <1>1, <1>2, RowStartsFacts, Zenon
  <2>2. S \subseteq Nat /\ \A s \in S : s <= 0
    BY <1>2, <2>1
  <2> QED
    BY <1>2, <2>1, <2>2, RowsBelowFacts, Zenon
<1>6. Painted(v, w, h, t, S)
  <2>1. ASSUME NEW r \in 0 .. h - 1, NEW c \in 0 .. w - 1
        PROVE  RightCell(t, Here(t, w, S, v.y, r, c), v.cells[r][c])
    <3>1. Here(t, w, S, v.y, r, c) = {}
      BY <1>2, Zenon DEF Here
    <3>2. v.cells[r][c] = "blank"
      OBVIOUS
    <3> QED
      BY <3>1, <3>2, Zenon DEF RightCell
  <2> QED
    BY <2>1, Zenon DEF Painted
<1>7. 0 < h /\ 0 <= 0
  BY <1>2
<1>8. ShowsAt(v, w, h, t, S)
  BY <1>2, <1>3, <1>4, <1>5, <1>6, <1>7, Zenon DEF ShowsAt
<1> QED
  BY <1>1, <1>8, Zenon

-----------------------------------------------------------------------------
(* What a list takes, it gives back later.                                 *)
Paired(s) ==
  \A i \in 1 .. Len(s) :
    s[i].do = "take" => \E j \in 1 .. Len(s) : j > i /\ s[j] = Give(s[i].on)

(* The invariant: the three properties together, with the lists of the     *)
(* calls well formed, are inductive.                                       *)
ConsoleInv ==
  /\ ConsoleTypeOK /\ VgaShowsText /\ ConsoleShowsText
  /\ \A t \in Threads : Paired(todo[t])

(* The two halves of the type invariant, and what a screen shows.          *)
ShownOK ==
  /\ DOMAIN screen = Devices
  /\ screen["con"] \in ConScreens /\ screen["vga"] \in VgaScreens
  /\ hw \in [x : 0 .. BufferWidth, y : 0 .. BufferHeight - 1]
  /\ text \in [Devices -> Seq(Byte)] /\ plain \in [Devices -> BOOLEAN]

CallsOK ==
  /\ todo \in [Threads -> Seq(Ops)] /\ locks \in [Threads -> SUBSET Locks]
  /\ locks["kernel"] \intersect locks["irq"] = {}
  /\ panicked \/ \A t \in Threads : Owes(todo[t], locks[t])
  /\ \A t \in Threads : Paired(todo[t])

CountsOK ==
  /\ vbe \in BOOLEAN /\ known \in BOOLEAN /\ panicked \in BOOLEAN
  /\ calls \in 0 .. MaxCalls /\ irqs \in 0 .. MaxIrqs

ShownInv == ShownOK /\ VgaShowsText /\ ConsoleShowsText

LEMMA ConsoleInvParts == ConsoleInv <=> ShownInv /\ CallsOK /\ CountsOK
  BY Zenon DEF ConsoleInv, ConsoleTypeOK, ShownInv, ShownOK, CallsOK, CountsOK

LEMMA ConsoleInvParts2 == ConsoleInv' <=> ShownInv' /\ CallsOK' /\ CountsOK'
  BY Zenon DEF ConsoleInv, ConsoleTypeOK, ShownInv, ShownOK, CallsOK, CountsOK

LEMMA ShownKept ==
  ASSUME ShownInv, UNCHANGED shown
  PROVE  ShownInv'
<1>1. screen' = screen /\ hw' = hw /\ text' = text /\ plain' = plain
  BY Zenon DEF shown
<1> QED
  BY <1>1, Zenon DEF ShownInv, ShownOK, VgaShowsText, ConsoleShowsText

(* A filled screen is a screen of its device.                              *)
LEMMA FilledTypes ==
  ASSUME NEW cell \in Cells
  PROVE  /\ [x |-> 0, y |-> 0, cells |-> Filled("con", cell)] \in ConScreens
         /\ \A r \in 0 .. BufferHeight - 1 :
              [x |-> 0, y |-> r, cells |-> Filled("vga", cell)] \in VgaScreens
<1>1. /\ Filled("con", cell) \in [0 .. Rows - 1 -> [0 .. Cols - 1 -> Cells]]
      /\ Filled("vga", cell) \in [0 .. BufferHeight - 1 -> [0 .. BufferWidth - 1 -> Cells]]
  BY Zenon DEF Filled, High, Wide
<1>2. 0 \in 0 .. Cols - 1 /\ 0 \in Nat /\ 0 \in 0 .. BufferWidth
  BY ScreenSizes
<1> QED
  BY Zenon, <1>1, <1>2 DEF ConScreens, VgaScreens

(* clear_screen and console_clear_first.                                   *)
LEMMA ClearKeeps ==
  ASSUME ShownInv, NEW d \in Devices, Clear(d)
  PROVE  ShownInv'
<1>1. PICK v : v = [x |-> 0, y |-> 0, cells |-> Filled(d, "blank")]
  BY Zenon
<1>2. /\ screen' = [screen EXCEPT ![d] = v] /\ text' = [text EXCEPT ![d] = <<>>]
      /\ plain' = [plain EXCEPT ![d] = TRUE] /\ hw' = hw
  BY Zenon, <1>1 DEF Clear
<1>3. /\ DOMAIN screen = Devices /\ screen["con"] \in ConScreens
      /\ screen["vga"] \in VgaScreens
      /\ hw \in [x : 0 .. BufferWidth, y : 0 .. BufferHeight - 1]
      /\ text \in [Devices -> Seq(Byte)] /\ plain \in [Devices -> BOOLEAN]
  BY Zenon DEF ShownInv, ShownOK
<1>4. /\ text' \in [Devices -> Seq(Byte)] /\ plain' \in [Devices -> BOOLEAN]
      /\ text'[d] = <<>> /\ \A e \in Devices \ {d} : text'[e] = text[e] /\ plain'[e] = plain[e]
  BY <1>2, <1>3
<1>5. /\ DOMAIN screen' = Devices /\ screen'[d] = v
      /\ \A e \in Devices \ {d} : screen'[e] = screen[e]
  BY Zenon, <1>2, <1>3
<1>6. v.x = 0 /\ v.y = 0 /\ v.cells = Filled(d, "blank")
  BY Zenon, <1>1
<1>7. Devices = {"con", "vga"}
  BY Zenon DEF Devices
<1>8. CASE d = "con"
  <2>1. v \in ConScreens
    BY Zenon, <1>1, <1>8, FilledTypes DEF Cells
  <2>2. ShownOK'
    BY Zenon, <1>2, <1>3, <1>4, <1>5, <1>7, <1>8, <2>1 DEF ShownOK
  <2>3. v.cells = [r \in 0 .. Rows - 1 |-> [c \in 0 .. Cols - 1 |-> "blank"]]
    BY Zenon, <1>6, <1>8 DEF Filled, High, Wide
  <2>4. Shows(v, "con", <<>>, TRUE)
    BY <1>6, <2>3, ScreenSizes, ClearedShows, ShowsCon, Zenon
  <2>5. ConsoleShowsText'
    BY <1>4, <1>5, <1>8, <2>4, Zenon DEF ConsoleShowsText
  <2>6. "vga" \in Devices \ {d}
    BY Zenon, <1>7, <1>8
  <2>7. VgaShowsText'
    BY <1>2, <1>4, <1>5, <2>6, Zenon DEF VgaShowsText, ShownInv
  <2> QED
    BY <2>2, <2>5, <2>7, Zenon DEF ShownInv
<1>9. CASE d = "vga"
  <2>1. v \in VgaScreens
    <3>1. 0 \in 0 .. BufferHeight - 1
      BY ScreenSizes
    <3> QED
      BY Zenon, <1>1, <1>9, <3>1, FilledTypes DEF Cells
  <2>2. ShownOK'
    BY Zenon, <1>2, <1>3, <1>4, <1>5, <1>7, <1>9, <2>1 DEF ShownOK
  <2>3. v.cells = [r \in 0 .. BufferHeight - 1 |-> [c \in 0 .. BufferWidth - 1 |-> "blank"]]
    BY Zenon, <1>6, <1>9 DEF Filled, High, Wide
  <2>4. Shows(v, "vga", <<>>, FALSE)
    BY <1>6, <2>3, ScreenSizes, ClearedShows, ShowsVga, Zenon
  <2>5. VgaShowsText'
    BY <1>4, <1>5, <1>9, <2>4, Zenon DEF VgaShowsText
  <2>6. "con" \in Devices \ {d}
    BY Zenon, <1>7, <1>9
  <2>7. ConsoleShowsText'
    BY <1>4, <1>5, <2>6, Zenon DEF ConsoleShowsText, ShownInv
  <2> QED
    BY <2>2, <2>5, <2>7, Zenon DEF ShownInv
<1> QED
  BY Zenon, <1>7, <1>8, <1>9

(* A byte to the console keeps what is said of the console's screen.       *)
LEMMA ConWriteShows ==
  ASSUME ShownInv, NEW b \in Byte, PlainAfter("con", b)
  PROVE  Shows(ConByte(screen["con"], b), "con", TextAfter("con", b), TRUE)
<1>1. PICK v, t : v = screen["con"] /\ t = text["con"]
  BY Zenon
<1>2. /\ v \in ConScreens /\ t \in Seq(Byte)
      /\ plain["con"] /\ b \notin {"cr", "tab"} /\ (b = "bs" => Erasable)
  <2>1. "con" \in Devices
    BY Zenon DEF Devices
  <2> QED
    BY <1>1, <2>1, Zenon DEF ShownInv, ShownOK, PlainAfter
<1>3. Shows(v, "con", t, TRUE)
  BY <1>1, <1>2, Zenon DEF ShownInv, ConsoleShowsText
<1>4. CASE b # "bs"
  <2>1. TextAfter("con", b) = Append(t, b)
    BY <1>1, <1>4, Zenon DEF TextAfter
  <2>2. b \in Byte \ {"cr", "tab", "bs"}
    BY <1>2, <1>4, Zenon
  <2> QED
    BY <1>1, <1>2, <1>3, <2>1, <2>2, ConByteShows, Zenon
<1>5. CASE b = "bs"
  <2>1. PICK s, c : s = SubSeq(t, 1, Len(t) - 1) /\ c = t[Len(t)]
    BY Zenon
  <2>2. t # <<>> /\ c # "nl" /\ (v.x > 0 \/ v.y > 0)
    BY <1>1, <1>2, <1>5, <2>1, Zenon DEF Erasable
  <2>3. s \in Seq(Byte) /\ c \in Byte /\ t = Append(s, c)
    BY <1>2, <2>1, <2>2, LastByte, Zenon
  <2>4. TextAfter("con", b) = s
    BY <1>1, <1>5, <2>1, Zenon DEF TextAfter
  <2>5. ConByte(v, b) = Backspace(v)
    BY Zenon, <1>5 DEF ConByte
  <2>6. c \in Byte \ {"nl"} /\ Shows(v, "con", Append(s, c), TRUE)
    BY <1>3, <2>2, <2>3, Zenon
  <2>7. Shows(Backspace(v), "con", s, TRUE)
    BY <1>2, <2>2, <2>3, <2>6, BackspaceShows, Zenon
  <2> QED
    BY <1>1, <2>4, <2>5, <2>7, Zenon
<1> QED
  BY <1>4, <1>5, Zenon

LEMMA TextAfterTypes ==
  ASSUME ShownInv, NEW d \in Devices, NEW b \in Byte
  PROVE  TextAfter(d, b) \in Seq(Byte) /\ PlainAfter(d, b) \in BOOLEAN
<1>1. text[d] \in Seq(Byte) /\ plain[d] \in BOOLEAN
  BY Zenon DEF ShownInv, ShownOK
<1>2. Append(text[d], b) \in Seq(Byte) /\ <<>> \in Seq(Byte)
  BY <1>1
<1>3. PlainAfter(d, b) \in BOOLEAN
  BY <1>1, Zenon DEF PlainAfter
<1>4. PlainAfter(d, b) /\ d = "con" /\ b = "bs" => text[d] # <<>>
  BY Zenon DEF PlainAfter, Erasable
<1>5. text[d] # <<>> => SubSeq(text[d], 1, Len(text[d]) - 1) \in Seq(Byte)
  BY <1>1, LastByte, Zenon
<1> QED
  BY <1>2, <1>3, <1>4, <1>5, Zenon DEF TextAfter

(* A byte to a device (console_print_first, write_byte).                   *)
LEMMA WriteKeeps ==
  ASSUME ShownInv, NEW d \in Devices, NEW b \in Byte, WriteTo(d, b)
  PROVE  ShownInv'
<1>1. PICK v, t, p :
        /\ v = IF d = "con" THEN ConByte(screen[d], b) ELSE WriteByte(screen[d], b)
        /\ t = TextAfter(d, b) /\ p = PlainAfter(d, b)
  BY Zenon
<1>2. /\ screen' = [screen EXCEPT ![d] = v] /\ text' = [text EXCEPT ![d] = t]
      /\ plain' = [plain EXCEPT ![d] = p]
      /\ hw' = IF d = "vga" THEN [x |-> v.x, y |-> v.y] ELSE hw
  BY <1>1, Zenon DEF WriteTo
<1>3. /\ DOMAIN screen = Devices /\ screen["con"] \in ConScreens
      /\ screen["vga"] \in VgaScreens
      /\ hw \in [x : 0 .. BufferWidth, y : 0 .. BufferHeight - 1]
      /\ text \in [Devices -> Seq(Byte)] /\ plain \in [Devices -> BOOLEAN]
  BY Zenon DEF ShownInv, ShownOK
<1>10. t \in Seq(Byte) /\ p \in BOOLEAN
  BY <1>1, TextAfterTypes, Zenon
<1>4. /\ text' \in [Devices -> Seq(Byte)] /\ plain' \in [Devices -> BOOLEAN]
      /\ text'[d] = t /\ plain'[d] = p
      /\ \A e \in Devices \ {d} : text'[e] = text[e] /\ plain'[e] = plain[e]
  BY Zenon, <1>2, <1>3, <1>10
<1>5. /\ DOMAIN screen' = Devices /\ screen'[d] = v
      /\ \A e \in Devices \ {d} : screen'[e] = screen[e]
  BY Zenon, <1>2, <1>3
<1>7. Devices = {"con", "vga"}
  BY Zenon DEF Devices
<1>8. CASE d = "con"
  <2>1. v = ConByte(screen["con"], b) /\ hw' = hw
    BY Zenon, <1>1, <1>2, <1>8
  <2>2. v \in ConScreens
    BY <1>3, <2>1, ConByteTypes, Zenon
  <2>3. ShownOK'
    BY Zenon, <1>3, <1>4, <1>5, <1>7, <1>8, <2>1, <2>2 DEF ShownOK
  <2>4. p => Shows(v, "con", t, TRUE)
    BY <1>1, <1>8, <2>1, ConWriteShows, Zenon
  <2>5. ConsoleShowsText'
    BY <1>4, <1>5, <1>8, <2>4, Zenon DEF ConsoleShowsText
  <2>6. "vga" \in Devices \ {d}
    BY Zenon, <1>7, <1>8
  <2>7. VgaShowsText'
    BY <1>4, <1>5, <2>1, <2>6, Zenon DEF VgaShowsText, ShownInv
  <2> QED
    BY <2>3, <2>5, <2>7, Zenon DEF ShownInv
<1>9. CASE d = "vga"
  <2>1. v = WriteByte(screen["vga"], b) /\ hw' = [x |-> v.x, y |-> v.y]
    BY Zenon, <1>1, <1>2, <1>9
  <2>2. v \in VgaScreens
    BY <1>3, <2>1, WriteByteTypes, Zenon
  <2>8. hw' \in [x : 0 .. BufferWidth, y : 0 .. BufferHeight - 1]
    BY Zenon, <2>1, <2>2 DEF VgaScreens
  <2>3. ShownOK'
    BY Zenon, <1>3, <1>4, <1>5, <1>7, <1>9, <2>8, <2>2 DEF ShownOK
  <2>4. p => Shows(v, "vga", t, FALSE)
    <3>1. p => plain["vga"] /\ t = Append(text["vga"], b)
      <4>1. d # "con"
        BY Zenon, <1>9
      <4> QED
        BY <1>1, <1>9, <4>1, Zenon DEF PlainAfter, TextAfter
    <3>2. plain["vga"] => Shows(screen["vga"], "vga", text["vga"], FALSE)
      BY Zenon DEF ShownInv, VgaShowsText
    <3>3. text["vga"] \in Seq(Byte)
      BY <1>3, <1>9, Zenon
    <3> QED
      BY <1>3, <2>1, <3>1, <3>2, <3>3, WriteByteShows, Zenon
  <2>5. VgaShowsText'
    BY <1>4, <1>5, <1>9, <2>1, <2>4, Zenon DEF VgaShowsText
  <2>6. "con" \in Devices \ {d}
    BY Zenon, <1>7, <1>9
  <2>7. ConsoleShowsText'
    BY <1>4, <1>5, <2>6, Zenon DEF ConsoleShowsText, ShownInv
  <2> QED
    BY <2>3, <2>5, <2>7, Zenon DEF ShownInv
<1> QED
  BY Zenon, <1>7, <1>8, <1>9

-----------------------------------------------------------------------------
(* The calls and their locks.                                              *)

(* What an entry of a list is, by what it does.                            *)
LEMMA OpKinds ==
  /\ \A l \in Locks : Take(l) \in Ops /\ Give(l) \in Ops
  /\ \A d \in Devices, b \in Byte \union {"clear"} : Put(d, b) \in Ops
  /\ Find \in Ops
  /\ \A o \in Ops :
       /\ o.do \in {"take", "give"} => o.on \in Locks
       /\ o.do = "take" => o = Take(o.on)
       /\ o.do = "give" => o = Give(o.on)
       /\ o.do = "put" => o.on \in Devices /\ o.byte \in Byte \union {"clear"}
<1>1. /\ \A l \in Locks : Take(l) \in Ops /\ Give(l) \in Ops
      /\ \A d \in Devices, b \in Byte \union {"clear"} : Put(d, b) \in Ops
      /\ Find \in Ops
  <2>1. /\ \A l \in Locks : Take(l) \in Ops /\ Give(l) \in Ops
        /\ Find \in Ops
    BY SMT DEF Ops
  <2>2. ASSUME NEW d \in Devices, NEW b \in Byte \union {"clear"} PROVE Put(d, b) \in Ops
    BY SMT DEF Ops
  <2> QED
    BY <2>1, <2>2, Zenon
<1>2. ASSUME NEW o \in Ops
      PROVE  /\ o.do \in {"take", "give"} => o.on \in Locks
             /\ o.do = "take" => o = Take(o.on)
             /\ o.do = "give" => o = Give(o.on)
             /\ o.do = "put" => o.on \in Devices /\ o.byte \in Byte \union {"clear"}
  <2>1. \/ \E l \in Locks : o = Take(l) \/ o = Give(l)
        \/ \E d \in Devices, b \in Byte \union {"clear"} : o = Put(d, b)
        \/ o = Find
    BY SMT, <1>2 DEF Ops
  <2>2. ASSUME NEW l \in Locks, o = Take(l) PROVE o.do = "take" /\ o.on = l
    BY <2>2 DEF Take
  <2>3. ASSUME NEW l \in Locks, o = Give(l) PROVE o.do = "give" /\ o.on = l
    BY <2>3 DEF Give
  <2>4. ASSUME NEW d \in Devices, NEW b \in Byte \union {"clear"}, o = Put(d, b)
        PROVE  o.do = "put" /\ o.on = d /\ o.byte = b
    BY <2>4 DEF Put
  <2>5. o = Find => o.do = "find"
    BY DEF Find
  <2>6. "take" # "give" /\ "take" # "put" /\ "give" # "put" /\ "find" \notin {"take", "give", "put"}
    BY Zenon
  <2> QED
    BY <2>1, <2>2, <2>3, <2>4, <2>5, <2>6, Zenon
<1> QED
  BY <1>1, <1>2, Zenon

(* A list of a call.                                                       *)
List(s) == s \in Seq(Ops) /\ Paired(s)

LEMMA NothingIsList == List(<<>>)
  BY DEF List, Paired

LEMMA BothAreList ==
  ASSUME NEW a, NEW b, List(a), List(b)
  PROVE  List(a \o b)
<1>1. a \in Seq(Ops) /\ b \in Seq(Ops)
  BY Zenon DEF List
<1>2. PICK s : s = a \o b
  BY Zenon
<1>3. s \in Seq(Ops) /\ Len(s) = Len(a) + Len(b) /\ Len(a) \in Nat /\ Len(b) \in Nat
  BY <1>1, <1>2
<1>4. /\ \A i \in 1 .. Len(a) : s[i] = a[i] /\ i \in 1 .. Len(s)
      /\ \A i \in 1 .. Len(b) : s[i + Len(a)] = b[i] /\ i + Len(a) \in 1 .. Len(s)
      /\ \A i \in 1 .. Len(s) : i \notin 1 .. Len(a) => i - Len(a) \in 1 .. Len(b)
  BY <1>1, <1>2, <1>3
<1>5. ASSUME NEW i \in 1 .. Len(s), s[i].do = "take"
      PROVE  \E j \in 1 .. Len(s) : j > i /\ s[j] = Give(s[i].on)
  <2>1. CASE i \in 1 .. Len(a)
    <3>1. PICK j \in 1 .. Len(a) : j > i /\ a[j] = Give(a[i].on)
      BY <1>4, <1>5, <2>1, Zenon DEF List, Paired
    <3> QED
      BY <1>4, <2>1, <3>1, Zenon
  <2>2. CASE i \notin 1 .. Len(a)
    <3>1. PICK k \in 1 .. Len(b) : k = i - Len(a)
      BY <1>4, <2>2, Zenon
    <3>2. i = k + Len(a)
      BY <1>3, <3>1
    <3>3. PICK j \in 1 .. Len(b) : j > k /\ b[j] = Give(b[k].on)
      BY <1>4, <1>5, <3>2, Zenon DEF List, Paired
    <3>4. j + Len(a) > i
      BY <1>3, <3>2, <3>3
    <3> QED
      BY <1>4, <3>2, <3>3, <3>4, Zenon
  <2> QED
    BY <2>1, <2>2, Zenon
<1> QED
  BY <1>2, <1>3, <1>5, Zenon DEF List, Paired

(* A list between a lock and the drop of its guard.                        *)
LEMMA GuardedIsList ==
  ASSUME NEW l \in Locks, NEW s, List(s)
  PROVE  List(Under(l, s))
<1>1. PICK t, g, r : t = Take(l) /\ g = Give(l) /\ r = Under(l, s)
  BY Zenon
<1>2. t \in Ops /\ g \in Ops /\ s \in Seq(Ops) /\ t.on = l /\ g.do # "take"
  BY <1>1, OpKinds DEF List, Take, Give
<1>3. r = <<t>> \o s \o <<g>>
  BY <1>1, Zenon DEF Under
<1>4. /\ r \in Seq(Ops) /\ Len(r) = Len(s) + 2 /\ Len(s) \in Nat
      /\ r[1] = t /\ r[Len(r)] = g
      /\ \A i \in 1 .. Len(s) : r[i + 1] = s[i]
  BY <1>2, <1>3
<1>5. ASSUME NEW i \in 1 .. Len(r), r[i].do = "take"
      PROVE  \E j \in 1 .. Len(r) : j > i /\ r[j] = Give(r[i].on)
  <2>1. CASE i = 1
    <3>1. Len(r) \in 1 .. Len(r) /\ Len(r) > i
      BY <1>4, <2>1
    <3>2. r[Len(r)] = Give(r[i].on)
      BY <1>1, <1>2, <1>4, <2>1, Zenon
    <3> QED
      BY <3>1, <3>2, Zenon
  <2>2. CASE i = Len(r)
    BY <1>2, <1>4, <1>5, <2>2, Zenon
  <2>3. CASE i # 1 /\ i # Len(r)
    <3>1. PICK k \in 1 .. Len(s) : i = k + 1
      <4>1. i - 1 \in 1 .. Len(s) /\ i = (i - 1) + 1
        BY <1>4, <2>3
      <4> QED
        BY <4>1, Zenon
    <3>2. r[i] = s[k]
      BY <1>4, <3>1, Zenon
    <3>3. PICK j \in 1 .. Len(s) : j > k /\ s[j] = Give(s[k].on)
      BY <1>5, <3>2, Zenon DEF List, Paired
    <3>4. j + 1 \in 1 .. Len(r) /\ j + 1 > i
      BY <1>4, <3>1, <3>3
    <3>5. r[j + 1] = s[j]
      BY <1>4, Zenon
    <3> QED
      BY <3>2, <3>3, <3>4, <3>5, Zenon
  <2> QED
    BY <2>1, <2>2, <2>3, Zenon
<1> QED
  BY <1>1, <1>4, <1>5, Zenon DEF List, Paired

(* A list that takes nothing.                                              *)
LEMMA NoTakeIsList ==
  ASSUME NEW s \in Seq(Ops), \A i \in 1 .. Len(s) : s[i].do # "take"
  PROVE  List(s)
  BY Zenon DEF List, Paired

LEMMA PartLists ==
  /\ List(UseHeap) /\ List(ReadInfo) /\ List(GetAddrs) /\ List(GetOrCreate)
  /\ \A d \in Devices, m \in Seq(Byte \union {"clear"}) : List(WriteAll(d, m))
<1>1. {"heap", "mappings", "fb_info", "con", "vga"} \subseteq Locks /\ Devices \subseteq Locks
  BY Zenon DEF Locks, Devices
<1>2. List(UseHeap) /\ List(ReadInfo)
  BY <1>1, NothingIsList, GuardedIsList, Zenon DEF UseHeap, ReadInfo
<1>3. List(GetAddrs)
  BY <1>1, <1>2, GuardedIsList, Zenon DEF GetAddrs
<1>4. List(<<Find>>)
  <2>1. Find \in Ops /\ Find.do # "take"
    BY OpKinds DEF Find
  <2>2. PICK f : f = Find
    BY Zenon
  <2>3. <<f>> \in Seq(Ops) /\ \A i \in 1 .. Len(<<f>>) : <<f>>[i].do # "take"
    BY <2>1, <2>2
  <2> QED
    BY <2>2, <2>3, NoTakeIsList, Zenon
<1>5. List(GetOrCreate)
  BY <1>1, <1>4, GuardedIsList, Zenon DEF GetOrCreate
<1>6. ASSUME NEW d \in Devices, NEW m \in Seq(Byte \union {"clear"})
      PROVE  List(WriteAll(d, m))
  <2>1. PICK s : s = [i \in 1 .. Len(m) |-> Put(d, m[i])]
    BY Zenon
  <2>2. \A i \in 1 .. Len(m) : m[i] \in Byte \union {"clear"}
    BY <1>6
  <2>3. \A i \in 1 .. Len(m) : s[i] \in Ops /\ s[i].do # "take"
    <3>1. \A b : Put(d, b).do # "take"
      BY DEF Put
    <3> QED
      BY <2>1, <2>2, <3>1, OpKinds, Zenon
  <2>4. s \in [1 .. Len(m) -> Ops] /\ Len(m) \in Nat
    <3>1. s \in [1 .. Len(m) -> Ops]
      BY <2>1, <2>3, Zenon
    <3> QED
      BY <1>6, <3>1
  <2>5. s \in Seq(Ops) /\ Len(s) = Len(m)
    BY <2>4
  <2>6. List(s)
    BY <2>3, <2>5, NoTakeIsList, Zenon
  <2> QED
    BY <1>1, <2>1, <2>6, GuardedIsList, Zenon DEF WriteAll
<1> QED
  BY <1>2, <1>3, <1>5, <1>6, Zenon

(* What a call hands over.                                                 *)
LEMMA CallLists ==
  ASSUME NEW m \in Seq(Byte), NEW fb \in BOOLEAN
  PROVE  List(FirstOps(m, fb)) /\ List(PrintOps(m, fb)) /\ List(ClearOps(fb))
<1>1. m \in Seq(Byte \union {"clear"}) /\ <<"clear">> \in Seq(Byte \union {"clear"})
  OBVIOUS
<1>2. "con" \in Devices /\ "vga" \in Devices
  BY Zenon DEF Devices
<1>3. ASSUME NEW q \in Seq(Byte \union {"clear"}) PROVE List(FirstOps(q, fb))
  <2>1. List(WriteAll("con", q)) /\ List(WriteAll("vga", q))
    BY <1>2, PartLists, Zenon
  <2>2. List(GetAddrs \o GetOrCreate)
    BY PartLists, BothAreList, Zenon
  <2>3. List(GetAddrs \o GetOrCreate \o WriteAll("con", q))
    BY <2>1, <2>2, BothAreList, Zenon
  <2>4. List(GetAddrs \o GetOrCreate \o WriteAll("con", q) \o UseHeap)
    BY <2>3, PartLists, BothAreList, Zenon
  <2> QED
    BY <2>1, <2>4, Zenon DEF FirstOps
<1>4. List(FirstOps(m, fb)) /\ List(FirstOps(<<"clear">>, fb))
  BY <1>1, <1>3, Zenon
<1>5. List(ClearOps(fb))
  BY <1>1, <1>2, <1>4, PartLists, BothAreList, Zenon DEF ClearOps
<1>6. List(PrintOps(m, fb))
  <2>1. PICK r : r = IF fb THEN <<>> ELSE WriteAll("vga", m)
    BY Zenon
  <2>2. List(r)
    BY <1>1, <1>2, <2>1, NothingIsList, PartLists, Zenon
  <2>3. List(UseHeap \o FirstOps(m, fb))
    BY <1>4, PartLists, BothAreList, Zenon
  <2>4. List(UseHeap \o FirstOps(m, fb) \o UseHeap)
    BY <2>3, PartLists, BothAreList, Zenon
  <2>5. List(UseHeap \o FirstOps(m, fb) \o UseHeap \o r)
    BY <2>2, <2>4, BothAreList, Zenon
  <2> QED
    BY <2>1, <2>5, Zenon DEF PrintOps
<1> QED
  BY <1>4, <1>5, <1>6, Zenon

(* The rest of a list, behind what a step has added to it.                 *)
LEMMA RestOfList ==
  ASSUME NEW s, List(s), s # <<>>, NEW more, List(more), NEW r, r = more \o Tail(s)
  PROVE  /\ List(r) /\ Head(s) \in Ops
         /\ \A l : Head(s) # Give(l) /\ Gives(s, l) =>
              Gives(r, l)
         /\ Head(s).do = "take" => Gives(r, Head(s).on)
<1>1. PICK u : u = Tail(s) /\ r = more \o u
  BY Zenon
<1>2. s \in Seq(Ops) /\ more \in Seq(Ops)
  BY Zenon DEF List
<1>3. /\ u \in Seq(Ops) /\ Len(s) = Len(u) + 1 /\ Len(u) \in Nat
      /\ Head(s) = s[1] /\ s[1] \in Ops /\ 1 \in 1 .. Len(s)
      /\ \A i \in 1 .. Len(u) : u[i] = s[i + 1] /\ i + 1 \in 1 .. Len(s)
      /\ \A i \in 1 .. Len(s) : i > 1 => i - 1 \in 1 .. Len(u) /\ (i - 1) + 1 = i
      /\ \A i \in 1 .. Len(s) : i = 1 \/ i > 1
  BY <1>1, <1>2
<1>4. List(u)
  <2>1. ASSUME NEW i \in 1 .. Len(u), u[i].do = "take"
        PROVE  \E j \in 1 .. Len(u) : j > i /\ u[j] = Give(u[i].on)
    <3>1. PICK j \in 1 .. Len(s) : j > i + 1 /\ s[j] = Give(s[i + 1].on)
      BY <1>3, <2>1, Zenon DEF List, Paired
    <3>2. j - 1 \in 1 .. Len(u) /\ j - 1 > i /\ (j - 1) + 1 = j
      BY <1>3, <3>1
    <3> QED
      BY <1>3, <3>1, <3>2, Zenon
  <2> QED
    BY <1>3, <2>1, Zenon DEF List, Paired
<1>5. List(r)
  BY <1>1, <1>4, BothAreList, Zenon
<1>6. \A i \in 1 .. Len(u) : r[i + Len(more)] = u[i] /\ i + Len(more) \in 1 .. Len(r)
  BY <1>1, <1>2, <1>3
<1>7. ASSUME NEW i \in 1 .. Len(s), i > 1
      PROVE  \E k \in 1 .. Len(r) : r[k] = s[i]
  <2>1. i - 1 \in 1 .. Len(u) /\ u[i - 1] = s[i]
    BY <1>3, <1>7, Zenon
  <2> QED
    BY <1>6, <2>1, Zenon
<1>8. ASSUME NEW l, Head(s) # Give(l), Gives(s, l)
      PROVE  Gives(r, l)
  <2>1. PICK i \in 1 .. Len(s) : s[i] = Give(l)
    BY <1>8, Zenon DEF Gives
  <2>2. i > 1
    BY <1>3, <1>8, <2>1, Zenon
  <2> QED
    BY <1>7, <2>1, <2>2, Zenon DEF Gives
<1>9. ASSUME Head(s).do = "take" PROVE Gives(r, Head(s).on)
  <2>1. PICK j \in 1 .. Len(s) : j > 1 /\ s[j] = Give(s[1].on)
    BY <1>3, <1>9, Zenon DEF List, Paired
  <2> QED
    BY <1>3, <1>7, <2>1, Zenon DEF Gives
<1> QED
  BY <1>1, <1>3, <1>5, <1>8, <1>9, Zenon

LEMMA ThreadFacts ==
  ASSUME CallsOK, NEW t \in Threads
  PROVE  /\ List(todo[t]) /\ locks[t] \in SUBSET Locks
         /\ panicked \/ Owes(todo[t], locks[t])
         /\ \A u \in Threads \ {t} : locks[u] \intersect locks[t] = {}
         /\ locks[t] \subseteq Held
<1>1. \A u \in Threads : u = "kernel" \/ u = "irq"
  BY Zenon DEF Threads
<1> QED
  BY <1>1, Zenon DEF CallsOK, List, Held

(* One thread goes on with list s and locks h.                             *)
LEMMA ThreadMoves ==
  ASSUME CallsOK, NEW t \in Threads, NEW s, List(s), NEW h \in SUBSET Locks,
         todo' = [todo EXCEPT ![t] = s], locks' = [locks EXCEPT ![t] = h],
         \A u \in Threads \ {t} : locks[u] \intersect h = {},
         panicked' \/ Owes(s, h), panicked => panicked'
  PROVE  CallsOK'
<1>1. /\ todo \in [Threads -> Seq(Ops)] /\ locks \in [Threads -> SUBSET Locks]
      /\ locks["kernel"] \intersect locks["irq"] = {}
      /\ panicked \/ \A u \in Threads : Owes(todo[u], locks[u])
      /\ \A u \in Threads : Paired(todo[u])
  BY Zenon DEF CallsOK
<1>2. s \in Seq(Ops) /\ Paired(s)
  BY Zenon DEF List
<1>3. /\ todo' \in [Threads -> Seq(Ops)] /\ locks' \in [Threads -> SUBSET Locks]
      /\ todo'[t] = s /\ locks'[t] = h
      /\ \A u \in Threads \ {t} : todo'[u] = todo[u] /\ locks'[u] = locks[u]
  BY <1>1, <1>2, Zenon
<1>4. Threads = {"kernel", "irq"} /\ "kernel" # "irq"
  BY Zenon DEF Threads
<1>5. locks'["kernel"] \intersect locks'["irq"] = {}
  <2>1. CASE t = "kernel"
    <3>1. locks'["kernel"] = h /\ locks'["irq"] = locks["irq"] /\ locks["irq"] \intersect h = {}
      BY <1>3, <1>4, <2>1, Zenon
    <3> QED
      BY <3>1, Zenon
  <2>2. CASE t = "irq"
    <3>1. locks'["irq"] = h /\ locks'["kernel"] = locks["kernel"]
          /\ locks["kernel"] \intersect h = {}
      BY <1>3, <1>4, <2>2, Zenon
    <3> QED
      BY <3>1, Zenon
  <2> QED
    BY <1>4, <2>1, <2>2, Zenon
<1>6. panicked' \/ \A u \in Threads : Owes(todo'[u], locks'[u])
  BY <1>1, <1>3, Zenon
<1>7. \A u \in Threads : Paired(todo'[u])
  BY <1>1, <1>2, <1>3, Zenon
<1> QED
  BY <1>3, <1>5, <1>6, <1>7, Zenon DEF CallsOK

(* A thread that is not in a call holds no lock, and may start one.        *)
LEMMA BeginKeeps ==
  ASSUME CallsOK, NEW t \in Threads, todo[t] = <<>>, NEW s, List(s),
         todo' = [todo EXCEPT ![t] = s], locks' = locks, panicked' = panicked
  PROVE  CallsOK'
<1>1. /\ locks[t] \in SUBSET Locks /\ locks \in [Threads -> SUBSET Locks]
      /\ panicked \/ Owes(todo[t], locks[t])
      /\ \A u \in Threads \ {t} : locks[u] \intersect locks[t] = {}
  BY ThreadFacts, Zenon DEF CallsOK
<1>2. locks' = [locks EXCEPT ![t] = locks[t]]
  BY <1>1, Zenon
<1>3. panicked \/ locks[t] = {}
  <2>1. \A l : ~Gives(<<>>, l)
    BY DEF Gives
  <2> QED
    BY <1>1, <2>1, Zenon DEF Owes
<1>4. panicked' \/ Owes(s, locks[t])
  BY <1>3, Zenon DEF Owes
<1> QED
  BY <1>1, <1>2, <1>4, ThreadMoves, Zenon

(* A step of a thread that takes and gives back nothing.                   *)
LEMMA GoesKeeps ==
  ASSUME CallsOK, NEW t \in Threads, todo[t] # <<>>, Head(todo[t]).do # "give",
         NEW more, List(more), Goes(t, more), locks' = locks, panicked' = panicked
  PROVE  CallsOK'
<1>1. PICK s, r, h : s = todo[t] /\ r = more \o Tail(todo[t]) /\ h = locks[t]
  BY Zenon
<1>2. /\ List(s) /\ h \in SUBSET Locks /\ locks \in [Threads -> SUBSET Locks]
      /\ panicked \/ Owes(s, h)
      /\ \A u \in Threads \ {t} : locks[u] \intersect h = {}
  BY <1>1, ThreadFacts, Zenon DEF CallsOK
<1>3. locks' = [locks EXCEPT ![t] = h] /\ todo' = [todo EXCEPT ![t] = r]
  BY <1>1, <1>2, Zenon DEF Goes
<1>4. \A l : Head(s) # Give(l)
  <2>1. \A l : Give(l).do = "give"
    BY DEF Give
  <2> QED
    BY <1>1, <2>1, Zenon
<1>5. /\ List(r)
      /\ \A l : Gives(s, l) => Gives(r, l)
  <2>1. s # <<>> /\ r = more \o Tail(s)
    BY <1>1, Zenon
  <2>2. /\ List(r)
        /\ \A l : Head(s) # Give(l) /\ Gives(s, l) =>
             Gives(r, l)
    BY <1>2, <2>1, RestOfList, Zenon
  <2> QED
    BY <1>4, <2>2, Zenon
<1>6. panicked \/ Owes(r, h)
  BY <1>2, <1>5, Zenon DEF Owes
<1> QED
  BY <1>2, <1>3, <1>5, <1>6, ThreadMoves, Zenon

LEMMA AcquireKeeps ==
  ASSUME CallsOK, NEW t \in Threads, Acquire(t)
  PROVE  CallsOK'
<1>1. PICK s, r, h, l :
        s = todo[t] /\ h = locks[t] /\ l = Head(todo[t]).on /\ r = <<>> \o Tail(s)
  BY Zenon
<1>2. /\ s # <<>> /\ Head(s).do = "take" /\ l = Head(s).on /\ l \notin Held
      /\ todo' = [todo EXCEPT ![t] = r] /\ locks' = [locks EXCEPT ![t] = h \union {l}]
      /\ panicked' = panicked
  BY <1>1, Zenon DEF Acquire, At, On, Goes
<1>3. /\ List(s) /\ h \in SUBSET Locks
      /\ panicked \/ Owes(s, h)
      /\ \A u \in Threads \ {t} : locks[u] \intersect h = {}
  BY <1>1, ThreadFacts, Zenon
<1>4. /\ List(r) /\ Head(s) \in Ops /\ Head(s).do \in {"take", "give"}
      /\ \A k : Head(s) # Give(k) /\ Gives(s, k) =>
           Gives(r, k)
      /\ Gives(r, l)
  BY <1>1, <1>2, <1>3, NothingIsList, RestOfList, Zenon
<1>5. \A k : Head(s) # Give(k)
  <2>1. \A k : Give(k).do = "give"
    BY DEF Give
  <2> QED
    BY <1>2, <2>1, Zenon
<1>6. l \in Locks /\ h \union {l} \in SUBSET Locks
  <2>1. l \in Locks
    BY <1>2, <1>4, OpKinds, Zenon
  <2> QED
    BY <1>3, <2>1, Zenon
<1>7. panicked \/ Owes(r, h \union {l})
  BY <1>3, <1>4, <1>5, Zenon DEF Owes
<1>8. \A u \in Threads \ {t} : locks[u] \intersect (h \union {l}) = {}
  <2>1. \A u \in Threads : l \notin locks[u]
    BY <1>2, ThreadFacts, Zenon
  <2> QED
    BY <1>3, <2>1, Zenon
<1> QED
  BY <1>2, <1>4, <1>6, <1>7, <1>8, ThreadMoves, Zenon

LEMMA ReleaseKeeps ==
  ASSUME CallsOK, NEW t \in Threads, Release(t)
  PROVE  CallsOK'
<1>1. PICK s, r, h, l :
        s = todo[t] /\ h = locks[t] /\ l = Head(todo[t]).on /\ r = <<>> \o Tail(s)
  BY Zenon
<1>2. /\ s # <<>> /\ Head(s).do = "give" /\ l = Head(s).on
      /\ todo' = [todo EXCEPT ![t] = r] /\ locks' = [locks EXCEPT ![t] = h \ {l}]
      /\ panicked' = panicked
  BY <1>1, Zenon DEF Release, At, On, Goes
<1>3. /\ List(s) /\ h \in SUBSET Locks
      /\ panicked \/ Owes(s, h)
      /\ \A u \in Threads \ {t} : locks[u] \intersect h = {}
  BY <1>1, ThreadFacts, Zenon
<1>4. /\ List(r)
      /\ \A k : Head(s) # Give(k) /\ Gives(s, k) =>
           Gives(r, k)
  BY <1>1, <1>2, <1>3, NothingIsList, RestOfList, Zenon
<1>5. \A k : k # l => Head(s) # Give(k)
  <2>1. \A k : Give(k).on = k
    BY DEF Give
  <2> QED
    BY <1>2, <2>1, Zenon
<1>6. h \ {l} \in SUBSET Locks /\ \A u \in Threads \ {t} : locks[u] \intersect (h \ {l}) = {}
  BY <1>3, Zenon
<1>7. panicked \/ Owes(r, h \ {l})
  BY <1>3, <1>4, <1>5, Zenon DEF Owes
<1> QED
  BY <1>2, <1>4, <1>6, <1>7, ThreadMoves, Zenon

LEMMA SearchKeeps ==
  ASSUME CallsOK, NEW t \in Threads, Search(t)
  PROVE  CallsOK'
<1>1. PICK more : more = IF known THEN <<>> ELSE ReadInfo \o UseHeap
  BY Zenon
<1>2. List(more)
  BY <1>1, NothingIsList, PartLists, BothAreList, Zenon
<1>3. /\ todo[t] # <<>> /\ Head(todo[t]).do # "give" /\ Goes(t, more)
      /\ locks' = locks /\ panicked' = panicked
  BY <1>1, Zenon DEF Search, At
<1> QED
  BY <1>2, <1>3, GoesKeeps, Zenon

LEMMA WriteCallKeeps ==
  ASSUME CallsOK, NEW t \in Threads, Write(t)
  PROVE  CallsOK' /\ On(t) \in Devices /\ Head(todo[t]).byte \in Byte \union {"clear"}
<1>1. PICK more :
        more = IF On(t) = "con" /\ Draws(Head(todo[t]).byte) THEN ReadInfo ELSE <<>>
  BY Zenon
<1>2. List(more)
  BY <1>1, NothingIsList, PartLists, Zenon
<1>3. /\ todo[t] # <<>> /\ Head(todo[t]).do = "put" /\ Goes(t, more)
      /\ locks' = locks /\ panicked' = panicked
  BY <1>1, Zenon DEF Write, At
<1>4. Head(todo[t]) \in Ops
  BY <1>3, ThreadFacts, NothingIsList, RestOfList, Zenon
<1>5. CallsOK'
  BY <1>2, <1>3, GoesKeeps, Zenon
<1> QED
  BY <1>3, <1>4, <1>5, OpKinds, Zenon DEF On

LEMMA PanicKeeps ==
  ASSUME CallsOK, NEW t \in Threads, Panic(t)
  PROVE  CallsOK'
<1>1. PICK s, h : s = PrintOps(<<>>, TRUE) /\ h = locks[t]
  BY Zenon
<1>2. List(s)
  <2>1. <<>> \in Seq(Byte)
    OBVIOUS
  <2> QED
    BY <1>1, <2>1, CallLists, Zenon
<1>3. /\ h \in SUBSET Locks /\ locks \in [Threads -> SUBSET Locks]
      /\ \A u \in Threads \ {t} : locks[u] \intersect h = {}
  BY <1>1, ThreadFacts, Zenon DEF CallsOK
<1>4. todo' = [todo EXCEPT ![t] = s] /\ locks' = [locks EXCEPT ![t] = h] /\ panicked' = TRUE
  BY <1>1, <1>3, Zenon DEF Panic
<1> QED
  BY <1>2, <1>3, <1>4, ThreadMoves, Zenon

-----------------------------------------------------------------------------
LEMMA ConsoleInitInv == ConsoleInit => ConsoleInv
<1> SUFFICES ASSUME ConsoleInit PROVE ConsoleInv
  BY Zenon
<1>1. /\ screen["con"] = [x |-> 0, y |-> 0, cells |-> Filled("con", "junk")]
      /\ screen["vga"] = [x |-> 0, y |-> BufferHeight - 1, cells |-> Filled("vga", "junk")]
      /\ DOMAIN screen = Devices
  BY Zenon DEF ConsoleInit, Devices
<1>2. BufferHeight - 1 \in 0 .. BufferHeight - 1 /\ 0 \in 0 .. BufferWidth
  BY ScreenSizes
<1>3. screen["con"] \in ConScreens /\ screen["vga"] \in VgaScreens
  BY Zenon, <1>1, <1>2, FilledTypes DEF Cells
<1>4. ~plain["con"] /\ ~plain["vga"]
  BY Zenon DEF ConsoleInit, Devices
<1>5. /\ hw \in [x : 0 .. BufferWidth, y : 0 .. BufferHeight - 1]
      /\ text \in [Devices -> Seq(Byte)] /\ plain \in [Devices -> BOOLEAN]
  BY <1>2 DEF ConsoleInit
<1>6. ShownInv
  BY <1>1, <1>3, <1>4, <1>5, Zenon DEF ShownInv, ShownOK, VgaShowsText, ConsoleShowsText
<1>7. /\ todo = [t \in Threads |-> <<>>] /\ locks = [t \in Threads |-> {}]
      /\ Threads = {"kernel", "irq"}
  BY Zenon DEF ConsoleInit, Threads
<1>8. CallsOK
  <2>1. <<>> \in Seq(Ops) /\ Paired(<<>>)
    BY NothingIsList, Zenon DEF List
  <2>2. \A t \in Threads : todo[t] = <<>> /\ locks[t] = {}
    BY Zenon, <1>7
  <2>3. todo \in [Threads -> Seq(Ops)] /\ locks \in [Threads -> SUBSET Locks]
    BY Zenon, <1>7, <2>1
  <2>4. locks["kernel"] \intersect locks["irq"] = {}
    BY Zenon, <1>7, <2>2
  <2>5. \A t \in Threads : Owes(todo[t], locks[t])
    BY <2>2, Zenon DEF Owes
  <2> QED
    BY <2>1, <2>2, <2>3, <2>4, <2>5, Zenon DEF CallsOK
<1>9. CountsOK
  <2>1. vbe = FALSE /\ known = FALSE /\ panicked = FALSE /\ calls = 0 /\ irqs = 0
    BY Zenon DEF ConsoleInit
  <2>2. 0 \in 0 .. MaxCalls /\ 0 \in 0 .. MaxIrqs
    BY SizesOK
  <2> QED
    BY <2>1, <2>2, Zenon DEF CountsOK
<1> QED
  BY <1>6, <1>8, <1>9, ConsoleInvParts, Zenon

LEMMA CallKeeps ==
  ASSUME ConsoleInv, NEW list, List(list), Call(list)
  PROVE  ConsoleInv'
<1>1. ShownInv /\ CallsOK /\ CountsOK
  BY ConsoleInvParts, Zenon
<1>2. /\ todo["kernel"] = <<>> /\ "kernel" \in Threads
      /\ todo' = [todo EXCEPT !["kernel"] = list] /\ locks' = locks /\ panicked' = panicked
      /\ calls < MaxCalls /\ calls' = calls + 1 /\ irqs' = irqs
      /\ vbe' = vbe /\ known' = known /\ UNCHANGED shown
  BY Zenon DEF Call, Threads
<1>3. CallsOK'
  BY <1>1, <1>2, BeginKeeps, Zenon
<1>4. CountsOK'
  BY <1>1, <1>2, SizesOK DEF CountsOK
<1>5. ShownInv'
  BY <1>1, <1>2, ShownKept, Zenon
<1> QED
  BY <1>3, <1>4, <1>5, ConsoleInvParts2, Zenon

(* A step that shows nothing and leaves the counts alone.                  *)
LEMMA QuietKeeps ==
  ASSUME ConsoleInv, CallsOK', UNCHANGED shown, vbe' = vbe, calls' = calls, irqs' = irqs,
         known' \in BOOLEAN, panicked' \in BOOLEAN
  PROVE  ConsoleInv'
<1>1. ShownInv /\ CountsOK
  BY ConsoleInvParts, Zenon
<1>2. ShownInv' /\ CountsOK'
  BY <1>1, ShownKept, Zenon DEF CountsOK
<1> QED
  BY <1>2, ConsoleInvParts2, Zenon

LEMMA ConsoleStepInv == ConsoleInv /\ [ConsoleNext]_cvars => ConsoleInv'
<1> SUFFICES ASSUME ConsoleInv, [ConsoleNext]_cvars PROVE ConsoleInv'
  BY Zenon
<1>1. ShownInv /\ CallsOK /\ CountsOK /\ vbe \in BOOLEAN /\ known \in BOOLEAN /\ panicked \in BOOLEAN
  BY ConsoleInvParts, Zenon DEF CountsOK
<1>2. CASE UNCHANGED cvars
  <2>1. /\ screen' = screen /\ hw' = hw /\ text' = text /\ plain' = plain /\ vbe' = vbe
        /\ known' = known /\ todo' = todo /\ locks' = locks /\ panicked' = panicked
        /\ calls' = calls /\ irqs' = irqs
    BY Zenon, <1>2 DEF cvars, shown, control
  <2> QED
    BY <2>1, Zenon DEF ConsoleInv, ConsoleTypeOK, VgaShowsText, ConsoleShowsText
<1>3. ASSUME NEW m \in Messages, PrintLine(m) \/ ConsolePrintFirst(m) PROVE ConsoleInv'
  <2>1. List(PrintOps(m, vbe)) /\ List(FirstOps(m, vbe))
    BY <1>1, SizesOK, CallLists, Zenon
  <2> QED
    BY <1>3, <2>1, CallKeeps, Zenon DEF PrintLine, ConsolePrintFirst
<1>4. CASE Cls
  <2>1. List(ClearOps(vbe))
    BY <1>1, SizesOK, CallLists, Zenon
  <2> QED
    BY <1>4, <2>1, CallKeeps, Zenon DEF Cls
<1>5. CASE Framebuffer
  <2>1. /\ vbe' = ~vbe /\ text' = [text EXCEPT !["con"] = <<>>]
        /\ plain' = [plain EXCEPT !["con"] = FALSE]
        /\ screen' = screen /\ hw' = hw /\ known' = known /\ todo' = todo /\ locks' = locks
        /\ panicked' = panicked /\ calls' = calls /\ irqs' = irqs
    BY Zenon, <1>5 DEF Framebuffer
  <2>2. CallsOK' /\ CountsOK'
    <3>1. CallsOK'
      BY <1>1, <2>1, Zenon DEF CallsOK
    <3>2. CountsOK'
      BY <1>1, <2>1, Zenon DEF CountsOK
    <3> QED
      BY Zenon, <3>1, <3>2
  <2>3. /\ text \in [Devices -> Seq(Byte)] /\ plain \in [Devices -> BOOLEAN]
    BY <1>1, Zenon DEF ShownInv, ShownOK
  <2>4. /\ text' \in [Devices -> Seq(Byte)] /\ plain' \in [Devices -> BOOLEAN]
        /\ ~plain'["con"] /\ text'["vga"] = text["vga"] /\ plain'["vga"] = plain["vga"]
    BY <2>1, <2>3 DEF Devices
  <2>5. ShownInv'
    BY <1>1, <2>1, <2>4, Zenon DEF ShownInv, ShownOK, VgaShowsText, ConsoleShowsText
  <2> QED
    BY <2>2, <2>5, ConsoleInvParts2, Zenon
<1>6. CASE UnhandledIrq
  <2>1. /\ irqs < MaxIrqs /\ irqs' = irqs + 1 /\ calls' = calls
        /\ todo' = [todo EXCEPT !["irq"] = PrintOps(IrqMessage, vbe)]
        /\ locks' = locks /\ panicked' = panicked /\ vbe' = vbe /\ known' = known
        /\ UNCHANGED shown
    BY Zenon, <1>6 DEF UnhandledIrq
  <2>2. "irq" \in Threads /\ todo["irq"] = <<>>
    BY Zenon, <1>6 DEF Threads, Runs, UnhandledIrq
  <2>3. List(PrintOps(IrqMessage, vbe))
    BY <1>1, SizesOK, CallLists, Zenon
  <2>4. CallsOK'
    BY <1>1, <2>1, <2>2, <2>3, BeginKeeps, Zenon
  <2>5. CountsOK'
    BY <1>1, <2>1, SizesOK DEF CountsOK
  <2> QED
    BY <1>1, <2>1, <2>4, <2>5, ShownKept, ConsoleInvParts2, Zenon
<1>7. ASSUME NEW t \in Threads, Step(t) PROVE ConsoleInv'
  <2>1. CASE Acquire(t)
    <3>1. /\ UNCHANGED shown /\ vbe' = vbe /\ calls' = calls /\ irqs' = irqs
          /\ known' = known /\ panicked' = panicked
      BY Zenon, <2>1 DEF Acquire
    <3> QED
      BY <1>1, <2>1, <3>1, AcquireKeeps, QuietKeeps, Zenon
  <2>2. CASE Release(t)
    <3>1. /\ UNCHANGED shown /\ vbe' = vbe /\ calls' = calls /\ irqs' = irqs
          /\ known' = known /\ panicked' = panicked
      BY Zenon, <2>2 DEF Release
    <3> QED
      BY <1>1, <2>2, <3>1, ReleaseKeeps, QuietKeeps, Zenon
  <2>3. CASE Search(t)
    <3>1. /\ UNCHANGED shown /\ vbe' = vbe /\ calls' = calls /\ irqs' = irqs
          /\ known' = TRUE /\ panicked' = panicked
      BY Zenon, <2>3 DEF Search
    <3> QED
      BY <1>1, <2>3, <3>1, SearchKeeps, QuietKeeps, Zenon
  <2>4. CASE Panic(t)
    <3>1. /\ UNCHANGED shown /\ vbe' = vbe /\ calls' = calls /\ irqs' = irqs
          /\ known' = known /\ panicked' = TRUE
      BY Zenon, <2>4 DEF Panic
    <3> QED
      BY <1>1, <2>4, <3>1, PanicKeeps, QuietKeeps, Zenon
  <2>5. CASE Write(t)
    <3>1. PICK d, b : d = On(t) /\ b = Head(todo[t]).byte
      BY Zenon
    <3>2. CallsOK' /\ d \in Devices /\ b \in Byte \union {"clear"}
      BY <1>1, <2>5, <3>1, WriteCallKeeps, Zenon
    <3>3. IF b = "clear" THEN Clear(d) ELSE WriteTo(d, b)
      BY <2>5, <3>1, Zenon DEF Write
    <3>4. ShownInv'
      BY <1>1, <3>2, <3>3, ClearKeeps, WriteKeeps, Zenon
    <3>5. CountsOK'
      BY Zenon, <1>1, <2>5 DEF CountsOK, Write
    <3> QED
      BY <3>2, <3>4, <3>5, ConsoleInvParts2, Zenon
  <2> QED
    BY <1>7, <2>1, <2>2, <2>3, <2>4, <2>5, Zenon DEF Step
<1>8. ASSUME NEW t \in Threads, Spin(t) PROVE ConsoleInv'
  <2>1. UNCHANGED cvars
    BY Zenon, <1>8 DEF Spin
  <2> QED
    BY <1>2, <2>1, Zenon
<1> QED
  BY <1>2, <1>3, <1>4, <1>5, <1>6, <1>7, <1>8, Zenon DEF ConsoleNext

(* What the screens show and who holds which lock, after any interleaving  *)
(* of calls, interrupts and framebuffers that come and go.                 *)
THEOREM ConsoleInvariant == ConsoleSpec => []ConsoleInv
<1>1. ConsoleInit => ConsoleInv
  BY Zenon, ConsoleInitInv
<1>2. ConsoleInv /\ [ConsoleNext]_cvars => ConsoleInv'
  BY Zenon, ConsoleStepInv
<1> QED
  BY <1>1, <1>2, PTL DEF ConsoleSpec

(* Whatever is printed, cleared and interrupted, WRITER's position stays   *)
(* inside its buffer, the console's column on the screen, and a lock is    *)
(* held by one of the two threads, never by both, and given back by the    *)
(* call that took it (write_byte, new_line, console_print_first).          *)
THEOREM ConsoleTypes == ConsoleSpec => []ConsoleTypeOK
<1>1. ConsoleInv => ConsoleTypeOK
  BY Zenon DEF ConsoleInv
<1> QED
  BY <1>1, ConsoleInvariant, PTL

(* After a clear, the VGA buffer of any size shows the end of whatever was *)
(* written to it, each byte in its row and column and blanks elsewhere,    *)
(* with the hardware cursor behind it (write_byte, new_line, shift_up).    *)
THEOREM VgaText == ConsoleSpec => []VgaShowsText
<1>1. ConsoleInv => VgaShowsText
  BY Zenon DEF ConsoleInv
<1> QED
  BY <1>1, ConsoleInvariant, PTL

(* After a clear, the framebuffer console of any size shows the end of     *)
(* whatever was printed less what backspaces took back, over wraps and     *)
(* scrolls (console_print_first, console_scroll_mut).                      *)
THEOREM ConsoleText == ConsoleSpec => []ConsoleShowsText
<1>1. ConsoleInv => ConsoleShowsText
  BY Zenon DEF ConsoleInv
<1> QED
  BY <1>1, ConsoleInvariant, PTL

=============================================================================
