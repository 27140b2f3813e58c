--------------------------- MODULE FirmwareProofs ---------------------------
(***************************************************************************)
(* Proofs about what the boot sequence does with the firmware beside the   *)
(* PCI scan: the ACPI parser stores the MADT that the firmware declares,   *)
(* and the timer's period is the right one up to the stated error.         *)
(***************************************************************************)
EXTENDS AcpiTables, TscTimer, FiniteSetTheorems, WellFoundedInduction, TLAPS

-----------------------------------------------------------------------------
(* Numbers, and the structures listed in order.                            *)

(* A nonempty set of numbers has a least element.                          *)
LEMMA LeastOf ==
  ASSUME NEW T, T \subseteq Nat, T # {}
  PROVE  \E x \in T : \A y \in T : x <= y
<1> DEFINE R == OpToRel(<, Nat)
<1>1. IsWellFoundedOn(R, Nat)
  BY NatLessThanWellFounded, Zenon
<1>2. \A x, y \in Nat : x < y => <<x, y>> \in R
  BY Zenon DEF OpToRel
<1> HIDE DEF R
<1>3. PICK x \in T : \A y \in T : ~(<<y, x>> \in R)
  BY <1>1, WFMin, Zenon
<1>4. ASSUME NEW y \in T PROVE x <= y
  <2>1. x \in Nat /\ y \in Nat /\ ~(y < x)
    BY <1>2, <1>3, Zenon
  <2> QED
    BY <2>1
<1> QED
  BY Zenon, <1>4

(* The structures with an index in a set, and one more at the end.         *)
LEMMA ListedNone == \A t : Listed(t, {}) = <<>>
  BY FS_EmptySet DEF Listed

(* The ranks in a set do not change when a larger number is added to it.   *)
LEMMA Ranks ==
  ASSUME NEW k \in Nat \ {0}, NEW S \in SUBSET (1 .. k - 1)
  PROVE  /\ IsFiniteSet(S) /\ Cardinality(S) \in Nat
         /\ Cardinality(S \union {k}) = Cardinality(S) + 1
         /\ \A j \in S : /\ Rank(S \union {k}, j) = Rank(S, j)
                         /\ Rank(S, j) \in Nat /\ Rank(S, j) <= Cardinality(S)
         /\ Rank(S \union {k}, k) = Cardinality(S) + 1
<1>1. IsFiniteSet(S) /\ k \notin S
  <2>1. IsFiniteSet(1 .. k - 1)
    BY FS_Interval
  <2>2. k \notin 1 .. k - 1
    OBVIOUS
  <2> QED
    BY <2>1, <2>2, FS_Subset, Zenon
<1>2. Cardinality(S) \in Nat /\ Cardinality(S \union {k}) = Cardinality(S) + 1
  BY Zenon, <1>1, FS_CardinalityType, FS_AddElement
<1>3. ASSUME NEW j \in S
      PROVE  /\ Rank(S \union {k}, j) = Rank(S, j)
             /\ Rank(S, j) \in Nat /\ Rank(S, j) <= Cardinality(S)
  <2> DEFINE A == {x \in S : x <= j}
  <2>1. {x \in S \union {k} : x <= j} = A
    OBVIOUS
  <2>2. A \subseteq S
    BY Zenon
  <2>3. IsFiniteSet(A) /\ Cardinality(A) <= Cardinality(S)
    BY <1>1, <2>2, FS_Subset, Zenon
  <2>4. Cardinality(A) \in Nat
    BY <2>3, FS_CardinalityType, Zenon
  <2> QED
    BY <2>1, <2>3, <2>4, Zenon DEF Rank
<1>4. {x \in S \union {k} : x <= k} = S \union {k}
  <2>1. k <= k /\ \A x \in 1 .. k - 1 : x <= k
    OBVIOUS
  <2> QED
    BY <2>1, Zenon
<1> QED
  BY <1>1, <1>2, <1>3, <1>4, Zenon DEF Rank

(* The structure with the largest index comes last.                        *)
LEMMA ListedMore ==
  ASSUME NEW t, NEW k \in Nat \ {0}, NEW S \in SUBSET (1 .. k - 1)
  PROVE  Listed(t, S \union {k}) = Append(Listed(t, S), t.entries[k].info)
<1> DEFINE n == Cardinality(S)
           U == S \union {k}
           e == t.entries[k].info
           f == Listed(t, S)
           g == Listed(t, U)
           Item(T, x) == t.entries[CHOOSE j \in {l \in T : Rank(T, l) = x} : TRUE].info
           X == {f[x] : x \in 1 .. n} \union {e}
<1>1. n \in Nat /\ Cardinality(U) = n + 1
  BY Ranks, Zenon
<1>2. ASSUME NEW x \in 1 .. n PROVE {j \in U : Rank(U, j) = x} = {j \in S : Rank(S, j) = x}
  <2>1. x # n + 1
    BY <1>1
  <2> QED
    BY <2>1, Ranks, Zenon
<1>3. {j \in U : Rank(U, j) = n + 1} = {k}
  <2>1. \A j \in S : Rank(U, j) # n + 1
    BY <1>1, Ranks
  <2>2. Rank(U, k) = n + 1
    BY Ranks, Zenon
  <2> QED
    BY <2>1, <2>2, Zenon
<1>a. f = [x \in 1 .. n |-> Item(S, x)] /\ g = [x \in 1 .. n + 1 |-> Item(U, x)]
  <2>1. f = [x \in 1 .. Cardinality(S) |-> Item(S, x)]
    BY Zenon DEF Listed
  <2>2. g = [x \in 1 .. Cardinality(U) |-> Item(U, x)]
    BY Zenon DEF Listed
  <2> QED
    BY <1>1, <2>1, <2>2, Zenon
<1>b. \A x \in 1 .. n : Item(U, x) = Item(S, x)
  BY <1>2, Zenon
<1>c. Item(U, n + 1) = e
  <2>1. (CHOOSE j \in {k} : TRUE) = k
    BY Zenon
  <2> QED
    BY <1>3, <2>1, Zenon
<1> HIDE DEF f, g, e, n, U, Item
<1>4. /\ f = [x \in 1 .. n |-> f[x]] /\ DOMAIN f = 1 .. n
      /\ g = [x \in 1 .. n + 1 |-> g[x]] /\ DOMAIN g = 1 .. n + 1
  BY Zenon, <1>a
<1>5. ASSUME NEW x \in 1 .. n PROVE g[x] = f[x]
  <2>1. x \in 1 .. n + 1
    BY <1>1
  <2> QED
    BY <1>a, <1>b, <2>1, Zenon
<1>6. g[n + 1] = e
  <2>1. n + 1 \in 1 .. n + 1
    BY <1>1
  <2> QED
    BY <1>a, <1>c, <2>1, Zenon
<1>7. f \in Seq(X) /\ Len(f) = n /\ e \in X
  <2>1. f \in [1 .. n -> X] /\ e \in X
    BY <1>4, Zenon
  <2> HIDE DEF X
  <2> QED
    BY <1>1, <2>1
<1>8. /\ Append(f, e) \in Seq(X) /\ Len(Append(f, e)) = n + 1
      /\ \A x \in 1 .. n : Append(f, e)[x] = f[x]
      /\ Append(f, e)[n + 1] = e
  <2> HIDE DEF X
  <2> QED
    BY <1>1, <1>7
<1>9. g \in Seq(X) /\ Len(g) = n + 1
  <2>1. \A x \in 1 .. n + 1 : g[x] \in X
    <3>1. \A x \in 1 .. n + 1 : x \in 1 .. n \/ x = n + 1
      BY <1>1
    <3> QED
      BY <3>1, <1>5, <1>6, Zenon
  <2>2. g \in [1 .. n + 1 -> X]
    BY <2>1, <1>4, Zenon
  <2> HIDE DEF X
  <2> QED
    BY <1>1, <2>2
<1>10. g = Append(f, e)
  <2> HIDE DEF X
  <2>1. \A x \in 1 .. n + 1 : g[x] = Append(f, e)[x]
    <3>1. \A x \in 1 .. n + 1 : x \in 1 .. n \/ x = n + 1
      BY <1>1
    <3> QED
      BY <3>1, <1>5, <1>6, <1>8, Zenon
  <2> QED
    BY <1>1, <1>8, <1>9, <2>1
<1> QED
  BY <1>10, Zenon DEF f, g, e, U

-----------------------------------------------------------------------------
(* The structures of a MADT.                                               *)

(* A later structure starts where an earlier one ends or after that.       *)
LEMMA LaterStart ==
  ASSUME NEW t, MadtOK(t), NEW j \in 1 .. Len(t.entries), NEW k \in 1 .. Len(t.entries),
         j < k
  PROVE  t.entries[j].start + t.entries[j].len <= t.entries[k].start
<1> DEFINE n == Len(t.entries)
           s(x) == t.entries[x].start
           l(x) == t.entries[x].len
           T == {x \in 1 .. n : j < x /\ s(x) < s(j) + l(j)}
<1>1. /\ n \in Nat
      /\ \A x \in 1 .. n : l(x) \in Nat /\ s(x) \in Nat
      /\ \A x \in 1 .. n : x # 1 => s(x) = s(x - 1) + l(x - 1)
  <2>1. /\ n \in Nat
        /\ \A x \in 1 .. n : /\ l(x) \in Nat /\ s(x) \in Nat
                             /\ s(x) = IF x - 1 = 0 THEN PrefixSize ELSE s(x - 1) + l(x - 1)
    BY Zenon DEF MadtOK
  <2> HIDE DEF s, l
  <2>2. \A x \in 1 .. n : x # 1 => x - 1 # 0
    BY <2>1
  <2> QED
    BY <2>1, <2>2, Zenon
<1> HIDE DEF s, l, n
<1>2. CASE T # {}
  <2>1. T \subseteq Nat
    BY <1>1
  <2>2. PICK x \in T : \A y \in T : x <= y
    BY <1>2, <2>1, LeastOf, Zenon
  <2>3. /\ x \in 1 .. n /\ j \in 1 .. n /\ j < x /\ s(x) < s(j) + l(j)
        /\ x # 1 /\ x - 1 \in 1 .. n
    BY <1>1, <2>2 DEF n
  <2>4. s(x) = s(x - 1) + l(x - 1)
    BY <1>1, <2>3, Zenon
  <2>5. x - 1 \notin T
    BY <2>2, <2>3
  <2>6. x - 1 = j \/ s(x - 1) >= s(j) + l(j)
    BY <1>1, <2>3, <2>5
  <2>7. s(x - 1) \in Nat /\ l(x - 1) \in Nat /\ s(j) \in Nat /\ l(j) \in Nat
    BY <1>1, <2>3, Zenon
  <2>8. s(j) + l(j) <= s(x)
    <3>1. CASE x - 1 = j
      <4>1. s(x) = s(j) + l(j)
        BY <2>4, <3>1, Zenon
      <4> QED
        BY <2>7, <4>1
    <3>2. CASE s(x - 1) >= s(j) + l(j)
      BY <2>4, <2>7, <3>2
    <3> QED
      BY Zenon, <2>6, <3>1, <3>2
  <2>9. s(x) \in Nat /\ s(x) < s(j) + l(j)
    BY <1>1, <2>3, Zenon
  <2> QED
    BY <2>7, <2>8, <2>9
<1>3. CASE T = {}
  <2>1. ~(s(k) < s(j) + l(j))
    BY <1>3, Zenon DEF n
  <2>2. s(k) \in Nat /\ s(j) \in Nat /\ l(j) \in Nat
    BY <1>1, Zenon DEF n
  <2>3. s(j) + l(j) <= s(k)
    BY <2>1, <2>2
  <2> QED
    BY <2>3, Zenon DEF s, l
<1> QED
  BY Zenon, <1>2, <1>3

(* Where the walk is: a structure starts at its offset if that lies inside *)
(* the table, and it is the one the code reads there.                      *)
LEMMA WalkAt ==
  ASSUME NEW t, MadtOK(t), NEW k, NEW o, NEW m, Taken(t, k, o, m)
  PROVE  /\ k \in Nat \ {0} /\ o \in Nat /\ t.len \in Nat
         /\ k - 1 \in Nat /\ 1 .. k - 1 \subseteq 1 .. Len(t.entries)
         /\ o < t.len => /\ k \in 1 .. Len(t.entries) /\ t.entries[k].start = o
                         /\ t.entries[k].len \in Nat /\ EntryAt(t, o) = t.entries[k]
         /\ o >= t.len =>
              \A x \in 1 .. Len(t.entries) : x >= k => t.entries[x].start >= t.len
<1> DEFINE n == Len(t.entries)
           s(x) == t.entries[x].start
           l(x) == t.entries[x].len
<1>1. /\ n \in Nat /\ t.len \in Nat /\ DOMAIN t.entries = 1 .. n
      /\ t.len <= IF n = 0 THEN PrefixSize ELSE s(n) + l(n)
      /\ \A x \in 1 .. n : l(x) \in Nat /\ s(x) \in Nat
      /\ \A x \in 1 .. n : s(x) = IF x - 1 = 0 THEN PrefixSize ELSE s(x - 1) + l(x - 1)
  BY Zenon DEF MadtOK
<1>2. /\ k \in 1 .. n + 1 /\ o = IF k = 1 THEN PrefixSize ELSE s(k - 1) + l(k - 1)
      /\ \A x \in 1 .. k - 1 : \A y \in 1 .. x : l(y) > 0
  BY Zenon DEF Taken, Readable
<1>3. \A x, y \in 1 .. n : x < y => s(x) + l(x) <= s(y)
  BY LaterStart, Zenon
<1>4. EntryAt(t, o) = t.entries[Min({x \in 1 .. n : s(x) = o})]
  BY <1>1, Zenon DEF EntryAt
<1> HIDE DEF s, l, n
<1>5. /\ k \in Nat \ {0} /\ k - 1 \in Nat /\ 1 .. k - 1 \subseteq 1 .. n
      /\ k # 1 => k - 1 \in 1 .. n
      /\ \A x \in 1 .. k - 1 : x \in 1 .. x
  BY <1>1, <1>2
<1>6. o \in Nat
  <2>1. k # 1 => s(k - 1) \in Nat /\ l(k - 1) \in Nat
    BY <1>1, <1>5, Zenon
  <2> QED
    BY <1>2, <2>1 DEF PrefixSize
<1>7. ASSUME o < t.len
      PROVE  k \in 1 .. n /\ s(k) = o /\ l(k) \in Nat /\ EntryAt(t, o) = t.entries[k]
  <2>1. k # n + 1
    <3>1. SUFFICES ASSUME k = n + 1 PROVE FALSE
      BY Zenon
    <3>2. k - 1 = n /\ (k = 1 <=> n = 0)
      BY <1>1, <3>1
    <3>3. t.len <= o
      BY <1>1, <1>2, <3>2, Zenon
    <3> QED
      BY <1>1, <1>6, <1>7, <3>3
  <2>2. k \in 1 .. n /\ (k - 1 = 0 <=> k = 1)
    BY <1>1, <1>2, <2>1
  <2>3. s(k) = o /\ l(k) \in Nat /\ s(k) \in Nat
    BY <1>1, <1>2, <2>2, Zenon
  <2>4. ASSUME NEW x \in 1 .. n, s(x) = o PROVE k <= x
    <3>1. SUFFICES ASSUME x < k PROVE FALSE
      BY <2>2
    <3>2. x \in 1 .. k - 1
      BY <1>1, <2>2, <3>1
    <3>3. l(x) > 0 /\ s(x) + l(x) <= s(k) /\ l(x) \in Nat /\ s(x) \in Nat
      BY <1>1, <1>2, <1>3, <1>5, <2>2, <3>1, <3>2, Zenon
    <3> QED
      BY <2>3, <2>4, <3>3
  <2> DEFINE M == {x \in 1 .. n : s(x) = o}
  <2>5. k \in M /\ \A y \in M : k <= y
    BY <2>2, <2>3, <2>4, Zenon
  <2>6. \A x \in M : (\A y \in M : x <= y) => x = k
    <3>1. \A x \in M : k <= x
      BY <2>5, Zenon
    <3> QED
      BY <1>1, <2>2, <2>5, <3>1
  <2> HIDE DEF M
  <2>7. Min(M) = k
    BY <2>5, <2>6, Zenon DEF Min
  <2> QED
    BY <1>4, <2>2, <2>3, <2>7, Zenon DEF M
<1>8. ASSUME o >= t.len, NEW x \in 1 .. n, x >= k PROVE s(x) >= t.len
  <2>1. k \in 1 .. n /\ (k - 1 = 0 <=> k = 1)
    BY <1>1, <1>2, <1>8
  <2>2. s(k) = o /\ s(k) \in Nat /\ l(k) \in Nat /\ s(x) \in Nat
    BY <1>1, <1>2, <2>1, Zenon
  <2>3. k < x => s(k) + l(k) <= s(x)
    BY <1>3, <2>1, Zenon
  <2>4. k < x \/ k = x
    BY <1>8, <2>1
  <2> QED
    BY <1>1, <1>6, <1>8, <2>2, <2>3, <2>4
<1> QED
  BY <1>1, <1>5, <1>6, <1>7, <1>8, Zenon DEF s, l, n

(* What a MADT holds, as DeclaredMadt reads it.                            *)
MadtOf(t) ==
  [isos |-> Infos(t, "iso", IsoSize), ioapics |-> Infos(t, "ioapic", IoApicSize),
   lapic |-> t.lapic # 0]

(* At the end of the table, and at a structure of length zero, the walk    *)
(* has taken everything that can be read.                                  *)
LEMMA WalkEnds ==
  ASSUME NEW t, MadtOK(t), NEW k, NEW o, NEW m, Taken(t, k, o, m),
         o < t.len => EntryAt(t, o).len = 0
  PROVE  m = MadtOf(t)
<1>1. /\ k \in Nat \ {0} /\ o \in Nat /\ t.len \in Nat
      /\ o < t.len => k \in 1 .. Len(t.entries) /\ t.entries[k].len = 0
      /\ o >= t.len => \A x \in 1 .. Len(t.entries) : x >= k => t.entries[x].start >= t.len
  BY WalkAt, Zenon
<1>2. /\ DOMAIN t.entries = 1 .. Len(t.entries) /\ Len(t.entries) \in Nat
      /\ \A x \in 1 .. Len(t.entries) : t.entries[x].start \in Nat
  BY Zenon DEF MadtOK
<1>3. ASSUME NEW x \in Readable(t) PROVE x \in 1 .. k - 1
  <2>1. x \in 1 .. Len(t.entries) /\ t.entries[x].start < t.len
    BY <1>2, Zenon DEF Readable
  <2>2. \A j \in 1 .. x : t.entries[j].len > 0
    BY Zenon DEF Readable
  <2>3. SUFFICES ASSUME x >= k PROVE FALSE
    BY <1>1, <1>2, <2>1
  <2>4. CASE o < t.len
    <3>1. k \in 1 .. x /\ ~(0 > 0)
      BY <1>1, <2>1, <2>3
    <3> QED
      BY <1>1, <2>2, <2>4, <3>1, Zenon
  <2>5. CASE ~(o < t.len)
    <3>1. o >= t.len
      BY <1>1, <2>5
    <3>2. t.entries[x].start >= t.len /\ t.entries[x].start \in Nat
      BY <1>1, <1>2, <2>1, <2>3, <3>1, Zenon
    <3> QED
      BY <1>1, <2>1, <3>2
  <2> QED
    BY Zenon, <2>4, <2>5
<1>4. Readable(t) = 1 .. k - 1
  <2>1. 1 .. k - 1 \subseteq Readable(t)
    BY Zenon DEF Taken
  <2> QED
    BY <1>3, <2>1, Zenon
<1> QED
  BY <1>4, Zenon DEF Taken, MadtOf, Infos

(* One structure more.                                                     *)
More(t, k, type, size, q) ==
  IF t.entries[k].type = type /\ t.entries[k].len >= size
  THEN Append(q, t.entries[k].info) ELSE q

(* The structures of one type among the first k, from those before.        *)
LEMMA ListedNext ==
  ASSUME NEW t, NEW k \in Nat \ {0}, k \in DOMAIN t.entries, NEW type, NEW size
  PROVE  Listed(t, Such(t, type, size) \cap (1 .. k))
           = More(t, k, type, size, Listed(t, Such(t, type, size) \cap (1 .. k - 1)))
<1> DEFINE S == Such(t, type, size) \cap (1 .. k - 1)
<1>1. 1 .. k = (1 .. k - 1) \union {k}
  OBVIOUS
<1>2. S \in SUBSET (1 .. k - 1)
  BY Zenon
<1>3. CASE k \in Such(t, type, size)
  <2>1. Such(t, type, size) \cap (1 .. k) = S \union {k}
    BY <1>1, <1>3, Zenon
  <2>2. Listed(t, S \union {k}) = Append(Listed(t, S), t.entries[k].info)
    BY <1>2, ListedMore, Zenon
  <2>3. t.entries[k].type = type /\ t.entries[k].len >= size
    BY <1>3, Zenon DEF Such
  <2> QED
    BY <2>1, <2>2, <2>3, Zenon DEF More
<1>4. CASE k \notin Such(t, type, size)
  <2>1. Such(t, type, size) \cap (1 .. k) = S
    BY <1>1, <1>4, Zenon
  <2>2. ~(t.entries[k].type = type /\ t.entries[k].len >= size)
    BY <1>4, Zenon DEF Such
  <2> QED
    BY <2>1, <2>2, Zenon DEF More
<1> QED
  BY <1>3, <1>4, Zenon

(* A structure that the walk takes.                                        *)
LEMMA WalkGoes ==
  ASSUME NEW t, MadtOK(t), NEW k, NEW o, NEW m, Taken(t, k, o, m),
         o < t.len, EntryAt(t, o).len > 0, NEW m2,
         m2 = [isos |-> More(t, k, "iso", IsoSize, m.isos),
               ioapics |-> More(t, k, "ioapic", IoApicSize, m.ioapics),
               lapic |-> m.lapic]
  PROVE  /\ EntryAt(t, o) = t.entries[k]
         /\ k + 1 \in 1 .. Len(t.entries) + 1
         /\ Taken(t, k + 1, o + EntryAt(t, o).len, m2)
<1>1. /\ k \in Nat \ {0} /\ o \in Nat /\ t.len \in Nat
      /\ k \in 1 .. Len(t.entries) /\ t.entries[k].start = o
      /\ EntryAt(t, o) = t.entries[k]
      /\ t.entries[k].len > 0
  BY WalkAt, Zenon
<1>2. DOMAIN t.entries = 1 .. Len(t.entries) /\ Len(t.entries) \in Nat
  BY Zenon DEF MadtOK
<1>3. /\ 1 .. k - 1 \subseteq Readable(t)
      /\ m = [isos |-> Listed(t, Such(t, "iso", IsoSize) \cap (1 .. k - 1)),
              ioapics |-> Listed(t, Such(t, "ioapic", IoApicSize) \cap (1 .. k - 1)),
              lapic |-> t.lapic # 0]
  BY Zenon DEF Taken
<1>4. /\ k + 1 \in 1 .. Len(t.entries) + 1 /\ k + 1 # 1 /\ (k + 1) - 1 = k
      /\ 1 .. k = (1 .. k - 1) \union {k}
  BY <1>1, <1>2
<1>5. k \in Readable(t)
  <2>1. ASSUME NEW j \in 1 .. k PROVE t.entries[j].len > 0
    <3>1. j \in 1 .. k - 1 \/ j = k
      BY <1>4, Zenon
    <3>2. j \in 1 .. j
      BY <1>1
    <3> QED
      BY <1>1, <1>3, <3>1, <3>2, Zenon DEF Readable
  <2> QED
    BY <1>1, <1>2, <2>1, Zenon DEF Readable
<1>6. 1 .. k \subseteq Readable(t)
  BY <1>3, <1>4, <1>5, Zenon
<1>7. m2 = [isos |-> Listed(t, Such(t, "iso", IsoSize) \cap (1 .. k)),
            ioapics |-> Listed(t, Such(t, "ioapic", IoApicSize) \cap (1 .. k)),
            lapic |-> t.lapic # 0]
  <2>1. /\ m.isos = Listed(t, Such(t, "iso", IsoSize) \cap (1 .. k - 1))
        /\ m.ioapics = Listed(t, Such(t, "ioapic", IoApicSize) \cap (1 .. k - 1))
        /\ m.lapic = (t.lapic # 0)
    BY <1>3, Zenon
  <2>2. \A type, size :
          Listed(t, Such(t, type, size) \cap (1 .. k))
            = More(t, k, type, size, Listed(t, Such(t, type, size) \cap (1 .. k - 1)))
    BY <1>1, <1>2, ListedNext, Zenon
  <2> QED
    BY <2>1, <2>2, Zenon
<1> QED
  BY <1>1, <1>4, <1>6, <1>7, Zenon DEF Taken

-----------------------------------------------------------------------------
(* What a firmware declares.                                               *)

(* Without a root table to trust, or without a MADT among its tables,      *)
(* nothing; else what the one MADT holds.                                  *)
LEMMA Declares ==
  ASSUME NEW f \in Firmwares
  PROVE  /\ Rsdps(f) = {} \/ ~Sound(Root(f)) => DeclaredMadt(f) = NoMadt
         /\ Rsdps(f) # {} /\ Sound(Root(f)) =>
              /\ EntryCount(Root(f)) \in Nat
              /\ (\A k \in 1 .. EntryCount(Root(f)) : ~IsMadt(Named(f, k)))
                   => DeclaredMadt(f) = NoMadt
              /\ \A k \in 1 .. EntryCount(Root(f)) : IsMadt(Named(f, k)) =>
                   /\ MadtOK(Named(f, k)) /\ DeclaredMadt(f) = MadtOf(Named(f, k))
                   /\ \A j \in 1 .. EntryCount(Root(f)) : IsMadt(Named(f, j)) => j = k
<1> DEFINE madts == {t \in SoundTables(f) : IsMadt(t)}
<1>1. /\ madts = {} => DeclaredMadt(f) = NoMadt
      /\ madts # {} => DeclaredMadt(f) = MadtOf(CHOOSE t \in madts : TRUE)
  BY Zenon DEF DeclaredMadt, MadtOf
<1>2. CASE Rsdps(f) = {} \/ ~Sound(Root(f))
  <2>1. SoundTables(f) = {}
    BY <1>2, Zenon DEF SoundTables
  <2>2. madts = {}
    BY <2>1, Zenon
  <2> QED
    BY <1>1, <1>2, <2>2, Zenon
<1>3. CASE Rsdps(f) # {} /\ Sound(Root(f))
  <2>1. PICK n : n = EntryCount(Root(f))
    BY Zenon
  <2>2. /\ n \in Nat /\ DOMAIN Root(f).ptrs = 1 .. n
        /\ \A j, k \in 1 .. n : IsMadt(Named(f, j)) /\ IsMadt(Named(f, k)) => j = k
        /\ \A k \in 1 .. n : IsMadt(Named(f, k)) => MadtOK(Named(f, k))
    BY <1>3, <2>1, FirmwaresOK, Zenon DEF RootOK
  <2>3. SoundTables(f) = {t \in {Named(f, k) : k \in 1 .. n} : t.sum}
    BY <1>3, <2>2, Zenon DEF SoundTables
  <2>4. \A t : t \in madts <=> \E k \in 1 .. n : t = Named(f, k) /\ IsMadt(t)
    BY <2>3, Zenon DEF IsMadt
  <2>5. ASSUME \A k \in 1 .. n : ~IsMadt(Named(f, k)) PROVE DeclaredMadt(f) = NoMadt
    <3>1. madts = {}
      BY <2>4, <2>5, Zenon
    <3> QED
      BY <1>1, <3>1, Zenon
  <2>6. ASSUME NEW k \in 1 .. n, IsMadt(Named(f, k))
        PROVE  DeclaredMadt(f) = MadtOf(Named(f, k))
    <3>1. madts = {Named(f, k)}
      BY <2>2, <2>4, <2>6, Zenon
    <3>2. (CHOOSE t \in {Named(f, k)} : TRUE) = Named(f, k) /\ madts # {}
      BY <3>1, Zenon
    <3> QED
      BY <1>1, <3>1, <3>2, Zenon
  <2> QED
    BY <1>3, <2>1, <2>2, <2>5, <2>6, Zenon
<1> QED
  BY <1>2, <1>3, Zenon

-----------------------------------------------------------------------------
(* The parser.                                                             *)

(* Where it is while it walks over the tables.                             *)
LEMMA Walking ==
  ASSUME AcpiInv, apc \notin {"find", "root", "done", "handed_over"}
  PROVE  /\ fw \in Firmwares /\ declared = DeclaredMadt(fw)
         /\ Rsdps(fw) # {} /\ fw.mem[root] = Root(fw) /\ Sound(Root(fw))
         /\ EntryCount(Root(fw)) \in Nat /\ entry \in 0 .. EntryCount(Root(fw))
         /\ Table = Named(fw, entry + 1)
         /\ apc # "table" => /\ entry < EntryCount(Root(fw)) /\ Table.sum
                             /\ Table.sig = IF apc = "sci" THEN "FACP" ELSE apc
         /\ apc = "APIC" => \E k : Taken(Table, k, off, Stored)
         /\ apc # "APIC" => Passed(fw, entry, Stored)
<1>1. /\ fw \in Firmwares /\ declared = DeclaredMadt(fw)
      /\ Rsdps(fw) # {} /\ fw.mem[root] = Root(fw) /\ Sound(Root(fw))
      /\ entry \in 0 .. EntryCount(Root(fw))
      /\ apc # "table" => /\ entry < EntryCount(Root(fw)) /\ Table.sum
                          /\ Table.sig = IF apc = "sci" THEN "FACP" ELSE apc
      /\ apc = "APIC" => \E k : Taken(Table, k, off, Stored)
      /\ apc # "APIC" => Passed(fw, entry, Stored)
  BY Zenon DEF AcpiInv
<1>2. EntryCount(Root(fw)) \in Nat
  BY <1>1, Declares, Zenon
<1> QED
  BY <1>1, <1>2, Zenon DEF Table, Named

(* A table that is no MADT changes nothing.                                *)
LEMMA PassedNext ==
  ASSUME NEW f, NEW e \in Nat, NEW m, Passed(f, e, m), ~IsMadt(Named(f, e + 1))
  PROVE  Passed(f, e + 1, m)
<1>1. 1 .. e + 1 = (1 .. e) \union {e + 1}
  OBVIOUS
<1> QED
  BY <1>1, Zenon DEF Passed

(* Going on to the next table.                                             *)
LEMMA ToNextTable ==
  ASSUME AcpiInv, apc \notin {"find", "root", "done", "handed_over"},
         fw' = fw, declared' = declared, root' = root, NextTable,
         entry < EntryCount(Root(fw)), Passed(fw, entry + 1, Stored')
  PROVE  AcpiInv'
<1>1. /\ fw \in Firmwares /\ declared = DeclaredMadt(fw)
      /\ Rsdps(fw) # {} /\ fw.mem[root] = Root(fw) /\ Sound(Root(fw))
      /\ EntryCount(Root(fw)) \in Nat /\ entry \in 0 .. EntryCount(Root(fw))
  BY Walking, Zenon
<1>2. entry' = entry + 1 /\ apc' = "table" /\ entry + 1 \in 0 .. EntryCount(Root(fw))
  BY <1>1 DEF NextTable
<1>3. /\ apc' \notin {"find", "root", "done", "handed_over", "APIC"} /\ ~(apc' # "table")
  BY <1>2, Zenon
<1> QED
  BY <1>1, <1>2, <1>3, Zenon DEF AcpiInv

(* Staying with a table that is no MADT.                                   *)
LEMMA SameTable ==
  ASSUME AcpiInv, apc \notin {"find", "root", "done", "handed_over", "APIC"},
         fw' = fw, declared' = declared, root' = root, entry' = entry,
         Stored' = Stored, entry < EntryCount(Root(fw)), Table.sum,
         apc' \in {"FACP", "sci", "HPET", "MCFG"},
         Table.sig = IF apc' = "sci" THEN "FACP" ELSE apc'
  PROVE  AcpiInv'
<1>1. /\ fw \in Firmwares /\ declared = DeclaredMadt(fw)
      /\ Rsdps(fw) # {} /\ fw.mem[root] = Root(fw) /\ Sound(Root(fw))
      /\ entry \in 0 .. EntryCount(Root(fw)) /\ Passed(fw, entry, Stored)
  BY Walking, Zenon
<1>2. apc' \notin {"find", "root", "done", "handed_over", "APIC"}
  BY Zenon
<1>3. Table' = Table
  BY Zenon DEF Table
<1> QED
  BY <1>1, <1>2, <1>3, Zenon DEF AcpiInv

(* A step that leaves alone what the invariant is about.                   *)
LEMMA AcpiSame ==
  ASSUME AcpiInv,
         UNCHANGED <<fw, declared, apc, root, entry, off, local_apic, ioapics, isos>>
  PROVE  AcpiInv'
<1>1. Stored' = Stored /\ Table' = Table
  BY Zenon DEF Stored, Table
<1> QED
  BY <1>1, Zenon DEF AcpiInv

(* The search for the RSDP.                                                *)
LEMMA FindRsdpKeeps == AcpiInv /\ FindRsdp => AcpiInv'
<1> SUFFICES ASSUME AcpiInv, FindRsdp PROVE AcpiInv'
  BY Zenon
<1>1. fw \in Firmwares /\ declared = DeclaredMadt(fw) /\ Stored = NoMadt
  BY Zenon DEF AcpiInv, FindRsdp
<1>2. /\ fw' = fw /\ declared' = declared
      /\ local_apic' = local_apic /\ ioapics' = ioapics /\ isos' = isos
  BY Zenon DEF FindRsdp, firmware
<1>3. Stored' = NoMadt
  BY <1>1, <1>2, Zenon DEF Stored
<1>4. CASE Rsdps(fw) = {}
  <2>1. apc' = "done" /\ declared = NoMadt
    BY <1>1, <1>4, Declares, Zenon DEF FindRsdp
  <2> QED
    BY Zenon, <1>1, <1>2, <1>3, <2>1 DEF AcpiInv
<1>5. CASE Rsdps(fw) # {}
  <2>1. apc' = "root" /\ fw.mem[root'] = Root(fw)
    BY <1>5, Zenon DEF FindRsdp, Root
  <2> QED
    BY Zenon, <1>1, <1>2, <1>3, <1>5, <2>1 DEF AcpiInv
<1> QED
  BY Zenon, <1>4, <1>5

(* The root table.                                                         *)
LEMMA ParseRootKeeps == AcpiInv /\ ParseRoot => AcpiInv'
<1> SUFFICES ASSUME AcpiInv, ParseRoot PROVE AcpiInv'
  BY Zenon
<1>1. /\ fw \in Firmwares /\ declared = DeclaredMadt(fw) /\ Stored = NoMadt
      /\ Rsdps(fw) # {} /\ fw.mem[root] = Root(fw)
  BY Zenon DEF AcpiInv, ParseRoot
<1>2. /\ fw' = fw /\ declared' = declared /\ root' = root /\ entry' = 0
      /\ apc' = (IF Sound(Root(fw)) THEN "table" ELSE "done")
      /\ local_apic' = local_apic /\ ioapics' = ioapics /\ isos' = isos
  BY <1>1, Zenon DEF ParseRoot, firmware
<1>3. Stored' = NoMadt
  BY <1>1, <1>2, Zenon DEF Stored
<1>4. CASE Sound(Root(fw))
  <2>1. EntryCount(Root(fw)) \in Nat
    BY <1>1, <1>4, Declares, Zenon
  <2>2. 0 \in 0 .. EntryCount(Root(fw)) /\ 1 .. 0 = {}
    BY <2>1
  <2>3. Passed(fw, 0, NoMadt)
    BY <2>2, Zenon DEF Passed
  <2>4. apc' = "table"
    BY <1>2, <1>4, Zenon
  <2> QED
    BY Zenon, <1>1, <1>2, <1>3, <1>4, <2>2, <2>3, <2>4 DEF AcpiInv
<1>5. CASE ~Sound(Root(fw))
  <2>1. apc' = "done" /\ declared = NoMadt
    BY <1>1, <1>2, <1>5, Declares, Zenon
  <2> QED
    BY Zenon, <1>1, <1>2, <1>3, <2>1 DEF AcpiInv
<1> QED
  BY Zenon, <1>4, <1>5

(* The next table: passed over, or begun.                                  *)
LEMMA TableInfoKeeps == AcpiInv /\ TableInfo => AcpiInv'
<1> SUFFICES ASSUME AcpiInv, TableInfo PROVE AcpiInv'
  BY Zenon
<1>1. apc = "table" /\ apc \notin {"find", "root", "done", "handed_over", "APIC"}
  BY Zenon DEF TableInfo
<1>2. /\ fw \in Firmwares /\ declared = DeclaredMadt(fw)
      /\ Rsdps(fw) # {} /\ fw.mem[root] = Root(fw) /\ Sound(Root(fw))
      /\ EntryCount(Root(fw)) \in Nat /\ entry \in 0 .. EntryCount(Root(fw))
      /\ Table = Named(fw, entry + 1) /\ Passed(fw, entry, Stored)
  BY <1>1, Walking, Zenon
<1>3. /\ fw' = fw /\ declared' = declared /\ root' = root /\ off' = PrefixSize
      /\ ioapics' = ioapics /\ isos' = isos
      /\ local_apic' = (IF apc' = "APIC" THEN Table.lapic ELSE local_apic)
      /\ entry < EntryCount(Root(fw))
  BY <1>2, Zenon DEF TableInfo, firmware
<1>4. apc' # "APIC" => Stored' = Stored
  BY <1>3, Zenon DEF Stored
<1>5. entry \in Nat /\ entry + 1 \in 1 .. EntryCount(Root(fw))
  BY <1>2, <1>3
<1>6. CASE ~Table.sum \/ Table.sig \notin {"FACP", "APIC", "HPET", "MCFG"}
  <2>1. NextTable
    BY <1>6, Zenon DEF TableInfo
  <2>2. apc' # "APIC"
    BY Zenon, <2>1 DEF NextTable
  <2>3. ~IsMadt(Table)
    BY Zenon, <1>6 DEF IsMadt
  <2>4. Passed(fw, entry + 1, Stored')
    BY <1>2, <1>4, <1>5, <2>2, <2>3, PassedNext, Zenon
  <2> QED
    BY <1>1, <1>3, <2>1, <2>4, ToNextTable, Zenon
<1>7. CASE Table.sum /\ Table.sig \in {"FACP", "HPET", "MCFG"}
  <2>1. apc' = Table.sig /\ entry' = entry
    BY Zenon, <1>7 DEF TableInfo
  <2>2. apc' # "APIC" /\ apc' # "sci" /\ apc' \in {"FACP", "sci", "HPET", "MCFG"}
    BY Zenon, <1>7, <2>1
  <2> QED
    BY <1>1, <1>3, <1>4, <1>7, <2>1, <2>2, SameTable, Zenon
<1>8. CASE Table.sum /\ Table.sig = "APIC"
  <2>1. apc' = "APIC" /\ entry' = entry
    BY Zenon, <1>8 DEF TableInfo
  <2>2. IsMadt(Table) /\ MadtOK(Table)
    BY <1>2, <1>5, <1>8, Declares, Zenon DEF IsMadt
  <2>3. Stored = NoMadt
    <3>1. \A k \in 1 .. entry : k \in 1 .. EntryCount(Root(fw)) /\ k # entry + 1
      BY <1>2, <1>5
    <3>2. \A k \in 1 .. entry : ~IsMadt(Named(fw, k))
      BY <1>2, <1>5, <2>2, <3>1, Declares, Zenon
    <3> QED
      BY <1>2, <3>2, Zenon DEF Passed
  <2>4. Len(Table.entries) \in Nat
    BY <2>2, Zenon DEF MadtOK
  <2>5. 1 \in 1 .. Len(Table.entries) + 1 /\ 1 .. 1 - 1 = {}
    BY <2>4
  <2>6. isos' = <<>> /\ ioapics' = <<>>
    <3>1. isos = Stored.isos /\ ioapics = Stored.ioapics
      BY Zenon DEF Stored
    <3>2. NoMadt.isos = <<>> /\ NoMadt.ioapics = <<>>
      BY Zenon DEF NoMadt
    <3> QED
      BY <1>3, <2>3, <3>1, <3>2, Zenon
  <2>7. Taken(Table, 1, off', Stored')
    <3>1. \A S : Listed(Table, S \cap (1 .. 1 - 1)) = <<>>
      <4>1. \A S : S \cap (1 .. 1 - 1) = {}
        BY <2>5, Zenon
      <4> QED
        BY <4>1, ListedNone, Zenon
    <3>2. Stored' = [isos |-> <<>>, ioapics |-> <<>>, lapic |-> Table.lapic # 0]
      BY <1>3, <2>1, <2>6, Zenon DEF Stored
    <3>3. 1 .. 1 - 1 \subseteq Readable(Table)
      BY <2>5, Zenon
    <3> QED
      BY <1>3, <2>5, <3>1, <3>2, <3>3, Zenon DEF Taken
  <2>8. Table' = Table
    BY <1>3, <2>1, Zenon DEF Table
  <2>9. /\ apc' \notin {"find", "root", "done", "handed_over"}
        /\ apc' # "sci" /\ ~(apc' # "APIC")
    BY <2>1, Zenon
  <2> QED
    BY <1>2, <1>3, <1>8, <2>1, <2>5, <2>7, <2>8, <2>9, Zenon DEF AcpiInv
<1> QED
  BY Zenon, <1>6, <1>7, <1>8

(* Past the last table.                                                    *)
LEMMA TablesDoneKeeps == AcpiInv /\ TablesDone => AcpiInv'
<1> SUFFICES ASSUME AcpiInv, TablesDone PROVE AcpiInv'
  BY Zenon
<1>1. apc = "table" /\ apc \notin {"find", "root", "done", "handed_over", "APIC"}
  BY Zenon DEF TablesDone
<1>2. /\ fw \in Firmwares /\ declared = DeclaredMadt(fw)
      /\ Rsdps(fw) # {} /\ fw.mem[root] = Root(fw) /\ Sound(Root(fw))
      /\ EntryCount(Root(fw)) \in Nat /\ entry \in 0 .. EntryCount(Root(fw))
      /\ Passed(fw, entry, Stored)
  BY <1>1, Walking, Zenon
<1>3. /\ fw' = fw /\ declared' = declared /\ apc' = "done"
      /\ local_apic' = local_apic /\ ioapics' = ioapics /\ isos' = isos
      /\ entry >= EntryCount(Root(fw))
  BY <1>2, Zenon DEF TablesDone, firmware
<1>4. Stored' = Stored
  BY <1>3, Zenon DEF Stored
<1>5. entry = EntryCount(Root(fw))
  BY <1>2, <1>3
<1>6. Stored = DeclaredMadt(fw)
  BY <1>2, <1>5, Declares, Zenon DEF Passed
<1> QED
  BY Zenon, <1>2, <1>3, <1>4, <1>6 DEF AcpiInv

(* The MADT has been walked to its end.                                    *)
LEMMA MadtPassed ==
  ASSUME AcpiInv, apc = "APIC", off < Table.len => EntryAt(Table, off).len = 0
  PROVE  entry < EntryCount(Root(fw)) /\ Passed(fw, entry + 1, Stored)
<1>1. apc \notin {"find", "root", "done", "handed_over", "table", "sci"}
  BY Zenon
<1>2. /\ fw \in Firmwares /\ Rsdps(fw) # {} /\ Sound(Root(fw))
      /\ EntryCount(Root(fw)) \in Nat /\ entry \in 0 .. EntryCount(Root(fw))
      /\ Table = Named(fw, entry + 1) /\ entry < EntryCount(Root(fw))
      /\ Table.sum /\ Table.sig = apc /\ \E k : Taken(Table, k, off, Stored)
  BY <1>1, Walking, Zenon
<1>3. /\ entry \in Nat /\ entry + 1 \in 1 .. EntryCount(Root(fw))
      /\ entry + 1 \in 1 .. entry + 1
  BY <1>2
<1>4. IsMadt(Table)
  BY <1>2, Zenon DEF IsMadt
<1>5. MadtOK(Table) /\ DeclaredMadt(fw) = MadtOf(Table)
  BY <1>2, <1>3, <1>4, Declares, Zenon
<1>6. Stored = MadtOf(Table)
  BY <1>2, <1>5, WalkEnds, Zenon
<1> QED
  BY <1>2, <1>3, <1>4, <1>5, <1>6, Zenon DEF Passed

(* The end of the MADT.                                                    *)
LEMMA MadtDoneKeeps == AcpiInv /\ MadtDone => AcpiInv'
<1> SUFFICES ASSUME AcpiInv, MadtDone PROVE AcpiInv'
  BY Zenon
<1>1. /\ apc = "APIC" /\ off >= Table.len /\ NextTable
      /\ fw' = fw /\ declared' = declared /\ root' = root
      /\ local_apic' = local_apic /\ ioapics' = ioapics /\ isos' = isos
  BY Zenon DEF MadtDone, firmware
<1>2. apc \notin {"find", "root", "done", "handed_over"}
  BY Zenon, <1>1
<1>3. ~(off < Table.len)
  <2>1. /\ fw \in Firmwares /\ Rsdps(fw) # {} /\ Sound(Root(fw))
        /\ EntryCount(Root(fw)) \in Nat /\ entry \in 0 .. EntryCount(Root(fw))
        /\ Table = Named(fw, entry + 1) /\ entry < EntryCount(Root(fw))
        /\ Table.sum /\ Table.sig = "APIC" /\ \E k : Taken(Table, k, off, Stored)
    BY Zenon, <1>1, <1>2, Walking
  <2>2. entry + 1 \in 1 .. EntryCount(Root(fw)) /\ IsMadt(Table)
    BY <2>1 DEF IsMadt
  <2>3. MadtOK(Table)
    BY <2>1, <2>2, Declares, Zenon
  <2>4. off \in Nat /\ Table.len \in Nat
    BY <2>1, <2>3, WalkAt, Zenon
  <2> QED
    BY <1>1, <2>4
<1>4. Stored' = Stored
  BY <1>1, Zenon DEF Stored
<1>5. entry < EntryCount(Root(fw)) /\ Passed(fw, entry + 1, Stored')
  BY <1>1, <1>3, <1>4, MadtPassed, Zenon
<1> QED
  BY <1>1, <1>2, <1>5, ToNextTable, Zenon

(* A structure of the MADT.                                                *)
LEMMA MadtEntryKeeps == AcpiInv /\ MadtEntry => AcpiInv'
<1> SUFFICES ASSUME AcpiInv, MadtEntry PROVE AcpiInv'
  BY Zenon
<1>1. /\ apc = "APIC" /\ off < Table.len
      /\ fw' = fw /\ declared' = declared /\ root' = root /\ local_apic' = local_apic
  BY Zenon DEF MadtEntry, firmware
<1>2. /\ apc \notin {"find", "root", "done", "handed_over"}
      /\ ~(apc # "APIC") /\ apc # "sci" /\ apc # "table"
  BY Zenon, <1>1
<1>3. CASE EntryAt(Table, off).len = 0
  <2>1. NextTable /\ ioapics' = ioapics /\ isos' = isos
    <3>1. ~(0 > 0)
      OBVIOUS
    <3> QED
      BY <1>3, <3>1, Zenon DEF MadtEntry
  <2>2. Stored' = Stored
    BY <1>1, <2>1, Zenon DEF Stored
  <2>3. entry < EntryCount(Root(fw)) /\ Passed(fw, entry + 1, Stored')
    BY <1>1, <1>3, <2>2, MadtPassed, Zenon
  <2> QED
    BY <1>1, <1>2, <2>1, <2>3, ToNextTable, Zenon
<1>4. CASE EntryAt(Table, off).len # 0
  <2>1. PICK t, e : t = Table /\ e = EntryAt(t, off)
    BY Zenon
  <2>2. /\ e.len > 0 /\ TakeEntry(e) /\ off' = off + e.len /\ apc' = apc /\ entry' = entry
    BY <1>4, <2>1, Zenon DEF MadtEntry
  <2>3. /\ fw \in Firmwares /\ declared = DeclaredMadt(fw)
        /\ Rsdps(fw) # {} /\ fw.mem[root] = Root(fw) /\ Sound(Root(fw))
        /\ EntryCount(Root(fw)) \in Nat /\ entry \in 0 .. EntryCount(Root(fw))
        /\ t = Named(fw, entry + 1) /\ entry < EntryCount(Root(fw))
        /\ t.sum /\ t.sig = apc /\ \E k : Taken(t, k, off, Stored)
    BY <1>2, <2>1, Walking, Zenon
  <2>4. entry + 1 \in 1 .. EntryCount(Root(fw)) /\ IsMadt(t)
    BY <1>1, <2>3 DEF IsMadt
  <2>5. MadtOK(t)
    BY <2>3, <2>4, Declares, Zenon
  <2>6. PICK k : Taken(t, k, off, Stored)
    BY <2>3, Zenon
  <2>7. PICK m2 : m2 = [isos |-> More(t, k, "iso", IsoSize, isos),
                        ioapics |-> More(t, k, "ioapic", IoApicSize, ioapics),
                        lapic |-> local_apic # 0]
    BY Zenon
  <2>8. Stored.isos = isos /\ Stored.ioapics = ioapics /\ Stored.lapic = (local_apic # 0)
    BY Zenon DEF Stored
  <2>9. /\ e = t.entries[k] /\ k + 1 \in 1 .. Len(t.entries) + 1
        /\ Taken(t, k + 1, off + e.len, m2)
    <3>1. off < t.len /\ EntryAt(t, off).len > 0
      BY <1>1, <2>1, <2>2, Zenon
    <3>2. m2 = [isos |-> More(t, k, "iso", IsoSize, Stored.isos),
                ioapics |-> More(t, k, "ioapic", IoApicSize, Stored.ioapics),
                lapic |-> Stored.lapic]
      BY <2>7, <2>8, Zenon
    <3>3. /\ EntryAt(t, off) = t.entries[k] /\ k + 1 \in 1 .. Len(t.entries) + 1
          /\ Taken(t, k + 1, off + EntryAt(t, off).len, m2)
      BY <2>5, <2>6, <3>1, <3>2, WalkGoes, Zenon
    <3> QED
      BY <2>1, <3>3, Zenon
  <2>10. e.len \in Nat
    BY <1>1, <2>1, <2>5, <2>6, <2>9, WalkAt, Zenon
  <2>11. /\ isos' = More(t, k, "iso", IsoSize, isos)
         /\ ioapics' = More(t, k, "ioapic", IoApicSize, ioapics)
    <3>1. /\ e.len < IoApicSize => ~(e.len >= IoApicSize)
          /\ e.len < IsoSize => ~(e.len >= IsoSize)
      BY <2>10 DEF IoApicSize, IsoSize
    <3>2. \/ /\ e.type = "ioapic" /\ e.len >= IoApicSize
             /\ ioapics' = Append(ioapics, e.info) /\ isos' = isos
          \/ /\ e.type = "iso" /\ e.len >= IsoSize
             /\ isos' = Append(isos, e.info) /\ ioapics' = ioapics
          \/ /\ e.type = "ioapic" => e.len < IoApicSize
             /\ e.type = "iso" => e.len < IsoSize
             /\ ioapics' = ioapics /\ isos' = isos
      BY <2>2, Zenon DEF TakeEntry
    <3>3. "iso" # "ioapic"
      BY Zenon
    <3> QED
      BY <2>9, <3>1, <3>2, <3>3, Zenon DEF More
  <2>12. Stored' = m2
    BY <1>1, <2>7, <2>11, Zenon DEF Stored
  <2>13. Table' = t
    BY <1>1, <2>1, <2>2, Zenon DEF Table
  <2>14. Taken(t, k + 1, off', Stored')
    BY <2>2, <2>9, <2>12, Zenon
  <2> QED
    BY <1>1, <1>2, <2>2, <2>3, <2>9, <2>13, <2>14, Zenon DEF AcpiInv
<1> QED
  BY Zenon, <1>3, <1>4

(* The tables that are no MADT.                                            *)
LEMMA OtherTableKeeps ==
  AcpiInv /\ (ParseHpet \/ McfgEntry \/ McfgDone \/ EnableAcpi \/ PollSci) => AcpiInv'
<1> SUFFICES ASSUME AcpiInv, ParseHpet \/ McfgEntry \/ McfgDone \/ EnableAcpi \/ PollSci
             PROVE  AcpiInv'
  BY Zenon
<1>1. /\ apc \in {"FACP", "sci", "HPET", "MCFG"}
      /\ fw' = fw /\ declared' = declared /\ root' = root
      /\ local_apic' = local_apic /\ ioapics' = ioapics /\ isos' = isos
      /\ NextTable \/ (entry' = entry /\ apc' = IF apc = "FACP" THEN "sci" ELSE apc)
  BY Zenon DEF ParseHpet, McfgEntry, McfgDone, EnableAcpi, PollSci, firmware
<1>2. apc \notin {"find", "root", "done", "handed_over", "APIC", "table"}
  BY Zenon, <1>1
<1>3. /\ EntryCount(Root(fw)) \in Nat /\ entry \in 0 .. EntryCount(Root(fw))
      /\ Table = Named(fw, entry + 1) /\ entry < EntryCount(Root(fw))
      /\ Table.sum /\ Table.sig = IF apc = "sci" THEN "FACP" ELSE apc
      /\ Passed(fw, entry, Stored)
  BY <1>2, Walking, Zenon
<1>4. Stored' = Stored
  BY <1>1, Zenon DEF Stored
<1>5. CASE NextTable
  <2>1. ~IsMadt(Table) /\ entry \in Nat
    BY <1>1, <1>3 DEF IsMadt
  <2>2. Passed(fw, entry + 1, Stored')
    BY <1>3, <1>4, <2>1, PassedNext, Zenon
  <2> QED
    BY <1>1, <1>2, <1>3, <1>5, <2>2, ToNextTable, Zenon
<1>6. CASE entry' = entry /\ apc' = IF apc = "FACP" THEN "sci" ELSE apc
  <2>1. /\ apc' \in {"FACP", "sci", "HPET", "MCFG"}
        /\ (IF apc = "sci" THEN "FACP" ELSE apc) = IF apc' = "sci" THEN "FACP" ELSE apc'
    BY Zenon, <1>1, <1>6
  <2> QED
    BY <1>1, <1>2, <1>3, <1>4, <1>6, <2>1, SameTable, Zenon
<1> QED
  BY Zenon, <1>1, <1>5, <1>6

(* Every step of the parser keeps its invariant.                           *)
LEMMA ParseAcpiKeeps == AcpiInv /\ InitAcpi => AcpiInv'
  BY FindRsdpKeeps, ParseRootKeeps, TableInfoKeeps, TablesDoneKeeps, MadtEntryKeeps,
     MadtDoneKeeps, OtherTableKeeps, Zenon DEF InitAcpi

-----------------------------------------------------------------------------
(* Arithmetic.                                                             *)

(* Quotient and remainder.                                                 *)
LEMMA Division ==
  ASSUME NEW x \in Nat, NEW m \in Nat \ {0}
  PROVE  /\ x \div m \in Nat /\ x % m \in 0 .. m - 1
         /\ x = m * (x \div m) + (x % m)
  OBVIOUS

(* They are the only ones.                                                 *)
LEMMA DivisionUnique ==
  ASSUME NEW q \in Nat, NEW m \in Nat \ {0}, NEW r \in 0 .. m - 1
  PROVE  (m * q + r) % m = r /\ (m * q + r) \div m = q
<1> DEFINE x == m * q + r
           d == x \div m
           e == x % m
<1>1. x \in Nat
  OBVIOUS
<1>2. d \in Nat /\ e \in 0 .. m - 1 /\ x = m * d + e
  BY <1>1, Division, Zenon
<1>3. m * q + r = m * d + e
  BY Zenon, <1>2
<1> HIDE DEF x, d, e
<1>4. m * (q - d) = e - r /\ e - r < m /\ e - r > 0 - m
  BY <1>2, <1>3
<1>5. q - d < 1
  <2>1. SUFFICES ASSUME q - d >= 1 PROVE FALSE
    BY <1>2
  <2>2. PICK k \in Nat : q - d = k + 1
    <3>1. q - d - 1 \in Nat /\ q - d = (q - d - 1) + 1
      BY <1>2, <2>1
    <3> QED
      BY Zenon, <3>1
  <2>3. m * (k + 1) = m * k + m /\ m * k >= 0
    OBVIOUS
  <2> QED
    BY <1>4, <2>2, <2>3
<1>6. d - q < 1
  <2>1. SUFFICES ASSUME d - q >= 1 PROVE FALSE
    BY <1>2
  <2>2. PICK k \in Nat : d - q = k + 1
    <3>1. d - q - 1 \in Nat /\ d - q = (d - q - 1) + 1
      BY <1>2, <2>1
    <3> QED
      BY Zenon, <3>1
  <2>3. m * (k + 1) = m * k + m /\ m * k >= 0
    OBVIOUS
  <2>4. q - d = 0 - (k + 1)
    BY <1>2, <2>2
  <2>5. m * (q - d) = 0 - m * (k + 1)
    BY <2>4
  <2> QED
    BY <1>4, <2>3, <2>5
<1>7. q = d
  BY <1>2, <1>5, <1>6
<1>8. e = r
  BY <1>2, <1>3, <1>7
<1> QED
  BY Zenon, <1>7, <1>8 DEF x, d, e

(* A product of factors that are not smaller is not smaller.               *)
LEMMA MulMono ==
  ASSUME NEW x \in Nat, NEW y \in Nat, NEW p \in Nat, x <= y
  PROVE  x * p <= y * p /\ x * p \in Nat /\ y * p \in Nat
<1>1. PICK d \in Nat : y = x + d
  <2>1. y - x \in Nat /\ y = x + (y - x)
    OBVIOUS
  <2> QED
    BY Zenon, <2>1
<1>2. y * p = x * p + d * p /\ d * p \in Nat /\ x * p \in Nat
  BY <1>1
<1> QED
  BY <1>2

-----------------------------------------------------------------------------
(* The timer: counters.                                                    *)

(* What the differences of the two counters say of one another: between    *)
(* two reads at s and u the HPET ticks n times, and the code computes n    *)
(* unless the counter wrapped and is narrower than a word.                 *)
LEMMA CounterDelta ==
  ASSUME fw \in Firmwares, fw.timer.counts,
         NEW s \in Nat, NEW u \in Nat, s <= u, u - s + Ratio <= HpetWidth * Ratio
  PROVE  \E n \in Nat :
           /\ n < HpetWidth
           /\ n * Ratio < u - s + Ratio /\ u - s < n * Ratio + Ratio
           /\ n = (u \div Ratio) - (s \div Ratio)
           /\ Minus(Counter(u), Counter(s)) =
                IF Counter(s) + n < HpetWidth THEN n ELSE TimeWord - HpetWidth + n
<1>1. /\ Ratio \in Nat \ {0} /\ HpetWidth \in Nat \ {0} /\ TimeWord \in Nat \ {0}
      /\ HpetWidth <= TimeWord /\ fw.timer.phase \in Nat
  BY Zenon, TimerOK
<1> DEFINE a == s \div Ratio
           b == u \div Ratio
           n == b - a
<1>2. PICK rs \in 0 .. Ratio - 1 : a \in Nat /\ s = Ratio * a + rs
  <2>1. a \in Nat /\ s % Ratio \in 0 .. Ratio - 1 /\ s = Ratio * a + (s % Ratio)
    BY <1>1, Division, Zenon
  <2> QED
    BY <2>1, Zenon
<1>3. PICK ru \in 0 .. Ratio - 1 : b \in Nat /\ u = Ratio * b + ru
  <2>1. b \in Nat /\ u % Ratio \in 0 .. Ratio - 1 /\ u = Ratio * b + (u % Ratio)
    BY <1>1, Division, Zenon
  <2> QED
    BY <2>1, Zenon
<1> HIDE DEF a, b
<1>4. Ratio * b - Ratio * a = n * Ratio /\ n \in Int
  BY <1>1, <1>2, <1>3
<1>5. n * Ratio < u - s + Ratio /\ u - s < n * Ratio + Ratio
  BY <1>1, <1>2, <1>3, <1>4
<1>6. n >= 0
  <2>1. SUFFICES ASSUME n < 0 PROVE FALSE
    BY <1>4
  <2>2. PICK k \in Nat : n = 0 - (k + 1)
    <3>1. 0 - n - 1 \in Nat /\ n = 0 - ((0 - n - 1) + 1)
      BY <1>4, <2>1
    <3> QED
      BY Zenon, <3>1
  <2>3. n * Ratio = 0 - k * Ratio - Ratio /\ k * Ratio \in Nat
    BY <1>1, <2>2
  <2> QED
    BY <1>1, <1>5, <2>3
<1>7. n < HpetWidth
  <2>1. SUFFICES ASSUME HpetWidth <= n PROVE FALSE
    BY <1>1, <1>4
  <2>2. HpetWidth * Ratio <= n * Ratio
    BY <1>1, <1>4, <1>6, <2>1, MulMono
  <2> QED
    BY <1>1, <1>4, <1>5, <2>2
<1> DEFINE c == (fw.timer.phase + a) % HpetWidth
           d == (fw.timer.phase + b) % HpetWidth
<1>8. Counter(s) = c /\ Counter(u) = d
  BY Zenon DEF Counter, a, b
<1>9. PICK q \in Nat : fw.timer.phase + a = HpetWidth * q + c /\ c \in 0 .. HpetWidth - 1
  <2>1. fw.timer.phase + a \in Nat
    BY <1>1, <1>2
  <2>2. /\ (fw.timer.phase + a) \div HpetWidth \in Nat /\ c \in 0 .. HpetWidth - 1
        /\ fw.timer.phase + a = HpetWidth * ((fw.timer.phase + a) \div HpetWidth) + c
    BY <1>1, <2>1, Division, Zenon
  <2> QED
    BY <2>2, Zenon
<1> HIDE DEF c, n
<1>a. n \in Nat
  BY <1>4, <1>6
<1>b. /\ n \in Nat /\ n < HpetWidth /\ c \in 0 .. HpetWidth - 1
      /\ HpetWidth \in Nat \ {0} /\ TimeWord \in Nat \ {0} /\ HpetWidth <= TimeWord
  BY <1>1, <1>7, <1>9, <1>a, Zenon
<1>10. d = IF c + n < HpetWidth THEN c + n ELSE c + n - HpetWidth
  <2>1. fw.timer.phase + b = HpetWidth * q + (c + n)
    <3> DEFINE e == fw.timer.phase
               w == HpetWidth * q
    <3>1. e \in Nat /\ w \in Nat /\ e + a = w + c
      BY <1>1, <1>9
    <3> HIDE DEF e, w
    <3>2. e + b = w + (c + n)
      BY <1>2, <1>3, <1>9, <3>1 DEF n
    <3> QED
      BY Zenon, <3>2 DEF e, w
  <2>2. CASE c + n < HpetWidth
    <3>1. c + n \in 0 .. HpetWidth - 1
      BY <1>b, <2>2
    <3>2. (HpetWidth * q + (c + n)) % HpetWidth = c + n
      BY <1>1, <3>1, DivisionUnique, Zenon
    <3> QED
      BY <2>1, <2>2, <3>2, Zenon
  <2>3. CASE ~(c + n < HpetWidth)
    <3>1. c + n - HpetWidth \in 0 .. HpetWidth - 1
      BY <1>b, <2>3
    <3>2. fw.timer.phase + b = HpetWidth * (q + 1) + (c + n - HpetWidth) /\ q + 1 \in Nat
      BY <1>1, <1>4, <1>9, <2>1
    <3>3. (HpetWidth * (q + 1) + (c + n - HpetWidth)) % HpetWidth = c + n - HpetWidth
      BY <1>1, <3>1, <3>2, DivisionUnique, Zenon
    <3> QED
      BY <2>3, <3>2, <3>3, Zenon
  <2> QED
    BY <2>2, <2>3, Zenon
<1> HIDE DEF d
<1>11. (d - c) % TimeWord = IF c + n < HpetWidth THEN n ELSE TimeWord - HpetWidth + n
  <2>1. CASE c + n < HpetWidth
    <3>1. d - c = n /\ n \in 0 .. TimeWord - 1
      <4>1. d = c + n
        BY <1>10, <2>1, Zenon
      <4> QED
        BY <1>b, <2>1, <4>1
    <3>2. n % TimeWord = n
      BY <1>1, <3>1
    <3> QED
      BY Zenon, <2>1, <3>1, <3>2
  <2>2. CASE ~(c + n < HpetWidth)
    <3> DEFINE x == TimeWord - HpetWidth + n
    <3>1. d - c = x - TimeWord /\ x \in 0 .. TimeWord - 1
      <4>1. d = c + n - HpetWidth
        BY <1>10, <2>2, Zenon
      <4> QED
        BY <1>b, <2>2, <4>1
    <3>2. (x - TimeWord) % TimeWord = x
      <4> HIDE DEF x
      <4> QED
        BY SMTT(30), <1>1, <3>1
    <3> QED
      BY Zenon, <2>2, <3>1, <3>2
  <2> QED
    BY Zenon, <2>1, <2>2
<1>12. n \in Nat /\ n = (u \div Ratio) - (s \div Ratio)
  BY <1>4, <1>6 DEF n, a, b
<1> QED
  BY Zenon, <1>5, <1>7, <1>8, <1>11, <1>12 DEF Minus

-----------------------------------------------------------------------------
(* The timer: the error of a calibration.                                  *)

(* A positive factor can be cancelled.                                     *)
LEMMA Cancel ==
  ASSUME NEW N \in Nat \ {0}, NEW x \in Int, NEW y \in Int, N * x < N * y
  PROVE  x < y
<1>1. SUFFICES ASSUME y <= x PROVE FALSE
  OBVIOUS
<1>2. PICK d \in Nat : x = y + d
  <2>1. x - y \in Nat /\ x = y + (x - y)
    BY <1>1
  <2> QED
    BY <2>1, Zenon
<1>3. N * x = N * y + N * d /\ N * d \in Nat
  BY <1>2
<1> QED
  BY <1>3

(* A quotient rounded down, as two inequalities.                           *)
LEMMA Rounded ==
  ASSUME NEW x \in Nat, NEW m \in Nat \ {0}, NEW q, q = x \div m
  PROVE  q \in Nat /\ m * q <= x /\ x < m * (q + 1)
<1>1. q \in Nat /\ x % m \in 0 .. m - 1 /\ x = m * q + (x % m)
  BY Zenon, Division
<1>2. m * (q + 1) = m * q + m
  BY <1>1
<1> QED
  BY <1>1, <1>2

(* The cycles td counted in n ticks are those of the ticks up to g; the    *)
(* period computed from them is then as good as MinTicks make it.          *)
LEMMA CalibrationError ==
  ASSUME NEW n \in Nat, NEW td \in Nat, NEW P \in Nat \ {0}, NEW g \in Nat,
         NEW R \in Nat \ {0}, NEW S \in Nat \ {0}, NEW I \in Nat \ {0},
         NEW M \in Nat \ {0},
         M <= n, td <= n * R + g, n * R <= td + g
  PROVE  ((td * S) \div (n * P)) \div I \in
           ((R * S) \div (P * I)) - ((g * S) \div (M * P * I)) - 1
             .. ((R * S) \div (P * I)) + ((g * S) \div (M * P * I)) + 1
<1> DEFINE x == (td * S) \div (n * P)
           q == x \div I
           e == (R * S) \div (P * I)
           k == (g * S) \div (M * P * I)
           D == P * I
           N == n * D
<1>1. /\ n \in Nat \ {0} /\ D \in Nat \ {0} /\ n * P \in Nat \ {0} /\ M * D \in Nat \ {0}
      /\ td * S \in Nat /\ R * S \in Nat /\ g * S \in Nat
  OBVIOUS
<1>2. x \in Nat /\ (n * P) * x <= td * S /\ td * S < (n * P) * (x + 1)
  BY <1>1, Rounded, Zenon
<1>3. e \in Nat /\ D * e <= R * S /\ R * S < D * (e + 1)
  BY <1>1, Rounded, Zenon
<1>4. k \in Nat /\ g * S < (M * D) * (k + 1)
  <2>1. M * P * I = M * D
    OBVIOUS
  <2>2. k = (g * S) \div (M * D)
    BY <2>1, Zenon
  <2> HIDE DEF k, D
  <2> QED
    BY <1>1, <2>2, Rounded, Zenon
<1>5. q \in Nat /\ I * q <= x /\ x < I * (q + 1)
  BY <1>2, Rounded, Zenon
<1> HIDE DEF x, q, e, k, D
<1>6. N \in Nat \ {0}
  BY <1>1
<1>7. N * q <= td * S /\ td * S < N * (q + 1)
  <2>1. (n * P) * (I * q) = N * q /\ (n * P) * (I * (q + 1)) = N * (q + 1)
    BY <1>1, <1>5 DEF D
  <2>2. (I * q) * (n * P) <= x * (n * P) /\ (x + 1) * (n * P) <= (I * (q + 1)) * (n * P)
    <3>1. I * q \in Nat /\ I * (q + 1) \in Nat /\ x + 1 \in Nat /\ x + 1 <= I * (q + 1)
      BY <1>2, <1>5
    <3> QED
      BY Zenon, <1>1, <1>2, <1>5, <3>1, MulMono
  <2>3. /\ (I * q) * (n * P) = N * q /\ x * (n * P) = (n * P) * x
        /\ (x + 1) * (n * P) = (n * P) * (x + 1)
        /\ (I * (q + 1)) * (n * P) = N * (q + 1)
    BY <1>1, <1>2, <1>5, <2>1
  <2>4. N * q \in Nat /\ N * (q + 1) \in Nat /\ (n * P) * x \in Nat /\ (n * P) * (x + 1) \in Nat
    BY <1>1, <1>2, <1>5, <1>6
  <2> HIDE DEF N
  <2> DEFINE v1 == N * q
             v2 == (n * P) * x
             v3 == (n * P) * (x + 1)
             v4 == N * (q + 1)
             v5 == td * S
  <2>5. /\ v1 \in Nat /\ v2 \in Nat /\ v3 \in Nat /\ v4 \in Nat /\ v5 \in Nat
        /\ v1 <= v2 /\ v3 <= v4 /\ v2 <= v5 /\ v5 < v3
    BY <1>1, <1>2, <2>2, <2>3, <2>4, Zenon
  <2> HIDE DEF v1, v2, v3, v4, v5
  <2>6. v1 <= v5 /\ v5 < v4
    BY <2>5
  <2> QED
    BY Zenon, <2>6 DEF v1, v4, v5
<1> DEFINE A == n * (R * S)
           B == g * S
<1>8. A \in Nat /\ B \in Nat /\ td * S <= A + B /\ A <= td * S + B
  <2>1. (n * R + g) * S = A + B /\ (td + g) * S = td * S + B
    BY <1>1
  <2>2. n * R + g \in Nat /\ td + g \in Nat /\ n * R \in Nat
    BY <1>1
  <2>3. td * S <= (n * R + g) * S
    BY Zenon, <2>2, MulMono
  <2>4. (n * R) * S <= (td + g) * S
    BY Zenon, <2>2, MulMono
  <2>5. (n * R) * S = A /\ A \in Nat /\ B \in Nat
    BY <1>1
  <2> QED
    BY Zenon, <2>1, <2>3, <2>4, <2>5
<1>9. N * e <= A /\ A < N * (e + 1)
  <2>1. (D * e) * n <= (R * S) * n
    BY <1>1, <1>3, MulMono
  <2>2. (R * S + 1) * n <= (D * (e + 1)) * n
    <3>1. R * S + 1 \in Nat /\ D * (e + 1) \in Nat /\ R * S + 1 <= D * (e + 1)
      BY <1>1, <1>3
    <3> QED
      BY Zenon, <3>1, MulMono
  <2>3. /\ (D * e) * n = N * e /\ (R * S) * n = A /\ (R * S + 1) * n = A + n
        /\ (D * (e + 1)) * n = N * (e + 1)
    BY <1>1, <1>3
  <2>4. N * e \in Nat /\ N * (e + 1) \in Nat
    BY <1>3, <1>6
  <2> QED
    BY <1>1, <1>8, <2>1, <2>2, <2>3, <2>4, SMTT(30)
<1>10. B < N * (k + 1)
  <2>1. M * (D * (k + 1)) <= n * (D * (k + 1))
    <3>1. D * (k + 1) \in Nat
      BY <1>1, <1>4
    <3> QED
      BY Zenon, <3>1, MulMono
  <2>2. (M * D) * (k + 1) = M * (D * (k + 1)) /\ N * (k + 1) = n * (D * (k + 1))
    BY <1>1, <1>4
  <2>3. (M * D) * (k + 1) \in Nat /\ N * (k + 1) \in Nat
    BY <1>1, <1>4, <1>6
  <2> QED
    BY <1>1, <1>4, <1>8, <2>1, <2>2, <2>3, SMTT(30)
<1> HIDE DEF N, A, B
<1>11. N * q < N * (e + k + 2)
  <2>1. N * (e + k + 2) = N * (e + 1) + N * (k + 1)
    BY <1>3, <1>4, <1>6
  <2>2. N * (e + 1) \in Nat /\ N * (k + 1) \in Nat /\ N * q \in Nat
    BY <1>3, <1>4, <1>5, <1>6
  <2>3. N * q < N * (e + 1) + N * (k + 1)
    BY <1>1, <1>7, <1>8, <1>9, <1>10, <2>2
  <2> QED
    BY <2>1, <2>3, Zenon
<1>12. N * (e - k - 1) < N * (q + 1)
  <2>1. N * (e - k - 1) = N * e - N * (k + 1)
    BY <1>3, <1>4, <1>6
  <2>2. N * e \in Nat /\ N * (k + 1) \in Nat /\ N * (q + 1) \in Nat
    BY <1>3, <1>4, <1>5, <1>6
  <2> QED
    BY <1>1, <1>7, <1>8, <1>9, <1>10, <2>1, <2>2, SMTT(30)
<1>13. q < e + k + 2 /\ e - k - 1 < q + 1
  <2>1. e + k + 2 \in Int /\ e - k - 1 \in Int /\ q + 1 \in Int /\ q \in Int
    BY <1>3, <1>4, <1>5
  <2> QED
    BY Zenon, <1>6, <1>11, <1>12, <2>1, Cancel
<1>14. q \in e - k - 1 .. e + k + 1
  BY <1>3, <1>4, <1>5, <1>13
<1> QED
  BY Zenon, <1>14 DEF q, x, e, k

-----------------------------------------------------------------------------
(* The timer: its steps.                                                   *)

(* The constants, and the readings of the counter.                         *)
LEMMA TimerFacts ==
  ASSUME fw \in Firmwares
  PROVE  /\ Ratio \in Nat \ {0} /\ Gap \in Nat \ {0} /\ MinTicks \in Nat \ {0}
         /\ HpetWidth \in Nat \ {0} /\ TimeWord \in Nat \ {0}
         /\ Second \in Nat \ {0} /\ Interval \in Nat \ {0}
         /\ DefaultPeriod \in Nat \ {0} /\ HpetWidth <= TimeWord
         /\ MinTicks * Ratio \in Nat /\ HpetWidth * Ratio \in Nat
         /\ Longest = MinTicks * Ratio + Ratio + 4 * Gap
         /\ Longest <= HpetWidth * Ratio /\ Longest < TimeWord
         /\ fw.timer.phase \in Nat /\ fw.timer.period \in Nat \ {0}
         /\ fw.timer.counts \in BOOLEAN
         /\ \A t \in Nat : Counter(t) \in Nat
<1>1. /\ {Ratio, Gap, HpetWidth, TimeWord, MinTicks, Second, Interval, DefaultPeriod}
           \subseteq Nat \ {0}
      /\ HpetWidth <= TimeWord
      /\ Longest <= HpetWidth * Ratio /\ Longest < TimeWord
      /\ fw.timer.phase \in Nat /\ fw.timer.period \in Nat \ {0}
      /\ fw.timer.counts \in BOOLEAN
  BY TimerOK, Zenon
<1>2. /\ Ratio \in Nat \ {0} /\ Gap \in Nat \ {0} /\ MinTicks \in Nat \ {0}
      /\ HpetWidth \in Nat \ {0} /\ TimeWord \in Nat \ {0}
      /\ Second \in Nat \ {0} /\ Interval \in Nat \ {0}
      /\ DefaultPeriod \in Nat \ {0}
  BY <1>1, Zenon
<1>3. MinTicks * Ratio \in Nat /\ HpetWidth * Ratio \in Nat
  BY <1>2
<1>4. Longest = MinTicks * Ratio + Ratio + 4 * Gap
  BY <1>2 DEF Longest
<1>5. ASSUME NEW t \in Nat PROVE Counter(t) \in Nat
  <2>1. t \div Ratio \in Nat
    BY Zenon, <1>2, Division
  <2>2. fw.timer.phase + (t \div Ratio) \in Nat
    BY <1>1, <2>1
  <2>3. (fw.timer.phase + (t \div Ratio)) % HpetWidth \in 0 .. HpetWidth - 1
    BY <1>2, <2>2, Division, Zenon
  <2>4. \A x \in 0 .. HpetWidth - 1 : x \in Nat
    BY <1>2
  <2> QED
    BY <1>1, <2>3, <2>4, Zenon DEF Counter
<1> QED
  BY <1>1, <1>2, <1>3, <1>4, <1>5, Zenon

(* Where a sample is taken, the first one is not long ago.                 *)
LEMMA Elapsed ==
  ASSUME fw \in Firmwares, TimerInv, Elapses, fw.timer.counts,
         tpc \in {"wait", "h2", "t2"}
  PROVE  /\ tsc \in Nat /\ tsc' \in tsc + 1 .. tsc + Gap
         /\ \E s \in 0 .. tsc :
              /\ h1 = Counter(s)
              /\ t1 \in s + 1 .. s + Gap /\ t1 <= tsc
              /\ tsc - s <= MinTicks * Ratio + Reads * Gap
              /\ tsc' - s <= MinTicks * Ratio + Reads * Gap + Gap
              /\ tsc' - s <= Longest - Ratio
              /\ tsc' - s + Ratio <= HpetWidth * Ratio
              /\ tsc - s + Ratio <= HpetWidth * Ratio
<1>1. tsc \in Nat /\ tsc' \in tsc + 1 .. tsc + Gap
  BY Zenon DEF TimerInv, Elapses
<1>2. PICK s \in 0 .. tsc :
        /\ h1 = Counter(s)
        /\ t1 \in s + 1 .. s + Gap /\ t1 <= tsc
        /\ tsc - s <= MinTicks * Ratio + Reads * Gap
  BY Zenon DEF TimerInv
<1>3. /\ Ratio \in Nat \ {0} /\ Gap \in Nat \ {0}
      /\ MinTicks * Ratio \in Nat /\ HpetWidth * Ratio \in Nat
      /\ Longest = MinTicks * Ratio + Ratio + 4 * Gap /\ Longest <= HpetWidth * Ratio
  BY TimerFacts, Zenon
<1>4. Reads * Gap \in Nat /\ Reads * Gap <= 3 * Gap
  <2>1. Reads \in {1, 2, 3}
    BY Zenon DEF Reads
  <2> QED
    BY <1>3, <2>1
<1>5. PICK m \in Nat, w \in Nat, g \in Nat, L \in Nat, u \in Nat :
        /\ m = MinTicks * Ratio /\ w = HpetWidth * Ratio /\ g = Reads * Gap
        /\ L = Longest /\ u = tsc'
  <2>1. Longest \in Nat
    BY <1>3
  <2>2. tsc' \in Nat
    BY <1>1, <1>3
  <2> QED
    BY <1>3, <1>4, <2>1, <2>2, Zenon
<1>6. /\ u <= tsc + Gap /\ tsc - s <= m + g /\ g <= 3 * Gap
      /\ L = m + Ratio + 4 * Gap /\ L <= w
      /\ Ratio \in Nat /\ Gap \in Nat /\ tsc \in Nat /\ s \in Nat
  <2>1. tsc' <= tsc + Gap /\ s \in Nat
    BY <1>1, <1>2, <1>3
  <2> QED
    BY <1>1, <1>2, <1>3, <1>4, <1>5, <2>1, Zenon
<1>7. /\ u - s <= m + g + Gap /\ u - s <= L - Ratio
      /\ u - s + Ratio <= w /\ tsc - s + Ratio <= w
  BY <1>6
<1> QED
  BY <1>1, <1>2, <1>5, <1>7, Zenon

(* The wait goes on for less than MinTicks ticks, and ends when the        *)
(* counter has moved.                                                      *)
LEMMA WaitInv ==
  ASSUME fw \in Firmwares, TimerInv, WaitForTicks, fw' = fw
  PROVE  TimerInv'
<1>1. /\ tpc = "wait" /\ Elapses /\ h1' = h1 /\ t1' = t1 /\ period_cycles' = period_cycles
      /\ tpc' = IF Minus(Counter(tsc'), h1) < MinTicks THEN "wait" ELSE "h2"
  BY Zenon DEF WaitForTicks
<1>2. /\ Ratio \in Nat \ {0} /\ Gap \in Nat \ {0} /\ MinTicks \in Nat \ {0}
      /\ HpetWidth \in Nat \ {0} /\ TimeWord \in Nat \ {0} /\ HpetWidth <= TimeWord
      /\ fw.timer.phase \in Nat /\ fw.timer.counts \in BOOLEAN
  BY TimerFacts, Zenon
<1>a. PICK m \in Nat : m = MinTicks * Ratio
  BY TimerFacts, Zenon
<1>3. period_cycles' = DefaultPeriod /\ tpc' \in {"wait", "h2"} /\ tsc \in Nat
  BY Zenon, <1>1 DEF TimerInv
<1>4. \A t : Counter(t)' = Counter(t')
  BY Zenon DEF Counter
<1>5. CASE ~fw.timer.counts
  <2>1. tsc' = tsc
    BY Zenon, <1>1, <1>5 DEF Elapses
  <2>2. PICK s \in 0 .. tsc : h1 = Counter(s)
    BY Zenon, <1>1 DEF TimerInv
  <2>3. Counter(s) = fw.timer.phase /\ Counter(tsc') = fw.timer.phase
    BY <1>5, Zenon DEF Counter
  <2>4. Minus(Counter(tsc'), h1) = 0
    BY <1>2, <2>2, <2>3 DEF Minus
  <2>5. tpc' = "wait"
    BY <1>1, <1>2, <2>4, SMTT(30)
  <2>6. \E z \in 0 .. tsc' : h1' = (IF fw'.timer.counts
                                      THEN (fw'.timer.phase + (z \div Ratio)) % HpetWidth
                                      ELSE fw'.timer.phase)
    BY <1>1, <2>1, <2>2, Zenon DEF Counter
  <2> QED
    BY <1>3, <1>5, <2>1, <2>5, <2>6, Zenon DEF TimerInv, Counter
<1>6. CASE fw.timer.counts
  <2>1. PICK s \in 0 .. tsc :
          /\ h1 = Counter(s)
          /\ t1 \in s + 1 .. s + Gap /\ t1 <= tsc
          /\ tsc' - s <= MinTicks * Ratio + Reads * Gap + Gap
          /\ tsc' - s + Ratio <= HpetWidth * Ratio
    BY <1>1, <1>6, Elapsed, Zenon
  <2>2. tsc' \in tsc + 1 .. tsc + Gap
    BY Zenon, <1>1, <1>6 DEF Elapses
  <2>a. tsc' \in Nat
    BY <1>2, <1>3, <2>2
  <2>b. PICK u \in Nat : u = tsc'
    BY <2>a, Zenon
  <2>c. t1 \in s + 1 .. s + Gap /\ t1 <= tsc /\ u \in tsc + 1 .. tsc + Gap
    BY <2>1, <2>2, <2>b, Zenon
  <2>d. s \in Nat /\ s <= u /\ s \in 0 .. u /\ t1 <= u /\ t1 \in Nat /\ Gap \in Nat
    BY <1>2, <1>3, <2>c, SMTT(30)
  <2>3. s \in Nat /\ tsc' \in Nat /\ s <= tsc' /\ s \in 0 .. tsc' /\ t1 <= tsc' /\ t1 \in Nat
    BY <2>b, <2>d, Zenon
  <2>4. PICK n \in Nat :
          /\ tsc' - s < n * Ratio + Ratio /\ n < HpetWidth
          /\ Minus(Counter(tsc'), Counter(s)) =
               IF Counter(s) + n < HpetWidth THEN n ELSE TimeWord - HpetWidth + n
    BY <1>6, <2>1, <2>3, CounterDelta, Zenon
  <2>e. PICK x \in Nat : x = Minus(Counter(tsc'), h1) /\ n <= x
    <3>1. PICK y \in Nat : y = TimeWord - HpetWidth + n /\ n <= y
      <4>1. TimeWord - HpetWidth + n \in Nat /\ n <= TimeWord - HpetWidth + n
        BY <1>2, SMTT(30)
      <4> QED
        BY <4>1, Zenon
    <3>2. Minus(Counter(tsc'), h1) = n \/ Minus(Counter(tsc'), h1) = y
      BY <2>1, <2>4, <3>1, Zenon
    <3>3. n <= n
      OBVIOUS
    <3> QED
      BY <3>1, <3>2, <3>3, Zenon
  <2>6. Reads = 1 /\ 1 * Gap = Gap /\ 2 * Gap = Gap + Gap
    BY <1>1, <1>2 DEF Reads
  <2>7. tpc' = "wait" => tsc' - s <= MinTicks * Ratio + 1 * Gap
    <3> SUFFICES ASSUME tpc' = "wait" PROVE u - s <= m + Gap
      BY <1>a, <2>b, <2>6, Zenon
    <3>1. n + 1 <= MinTicks
      <4>1. x < MinTicks
        BY Zenon, <1>1, <2>e
      <4>2. n <= x /\ MinTicks \in Nat
        BY <1>2, <2>e, Zenon
      <4> QED
        BY <4>1, <4>2
    <3>2. (n + 1) * Ratio <= MinTicks * Ratio
      BY <1>2, <3>1, MulMono, SMTT(30)
    <3>3. PICK k \in Nat : k = n * Ratio
      BY <1>2, SMTT(30)
    <3>4. k + Ratio <= m
      BY <1>2, <1>a, <3>2, <3>3, SMTT(30)
    <3>5. u - s < k + Ratio
      BY <2>b, <2>4, <3>3, Zenon
    <3> QED
      BY <1>2, <2>d, <3>4, <3>5, SMTT(30)
  <2>8. tpc' = "h2" => tsc' - s <= MinTicks * Ratio + 2 * Gap /\ Minus(Counter(tsc'), h1) >= MinTicks
    <3> SUFFICES ASSUME tpc' = "h2" PROVE u - s <= m + (Gap + Gap) /\ x >= MinTicks
      BY <1>a, <2>b, <2>e, <2>6, Zenon
    <3>1. ~(x < MinTicks)
      BY Zenon, <1>1, <2>e
    <3>2. u - s <= m + Gap + Gap
      BY <1>a, <2>1, <2>b, <2>6, Zenon
    <3> QED
      BY <1>2, <2>d, <3>1, <3>2, SMTT(30)
  <2>9. tsc' - s <= MinTicks * Ratio + Reads' * Gap
    BY Zenon, <1>3, <2>7, <2>8 DEF Reads
  <2>10. tpc' = "h2" => Minus(Counter(tsc)', h1') >= MinTicks
    BY <1>1, <1>4, <2>8, Zenon
  <2>11. h1' = Counter(s)'
    BY <1>1, <1>4, <2>1, Zenon DEF Counter
  <2>12. t1' \in s + 1 .. s + Gap /\ t1' <= tsc' /\ fw'.timer.counts
    BY <1>1, <1>6, <2>1, <2>3, Zenon
  <2> QED
    BY <1>3, <2>3, <2>9, <2>10, <2>11, <2>12, Zenon DEF TimerInv, Minus
<1> QED
  BY <1>2, <1>5, <1>6, Zenon

(* The second sample of the HPET is not behind the reading that ended the  *)
(* wait, wrapped or not.                                                   *)
LEMMA SecondSample ==
  ASSUME fw \in Firmwares, TimerInv, SampleHpetAgain
  PROVE  Minus(Counter(tsc'), h1) >= MinTicks
<1>1. tpc = "h2" /\ Elapses
  BY Zenon DEF SampleHpetAgain
<1>2. fw.timer.counts /\ Minus(Counter(tsc), h1) >= MinTicks
  BY <1>1, Zenon DEF TimerInv
<1>3. /\ Ratio \in Nat \ {0} /\ MinTicks \in Nat \ {0} /\ Gap \in Nat \ {0}
      /\ HpetWidth \in Nat \ {0} /\ TimeWord \in Nat \ {0} /\ HpetWidth <= TimeWord
      /\ \A t \in Nat : Counter(t) \in Nat
  BY TimerFacts, Zenon
<1>4. tsc \in Nat /\ tsc' \in Nat /\ tsc <= tsc'
  <2>1. tsc \in Nat /\ tsc' \in tsc + 1 .. tsc + Gap
    BY <1>1, <1>2, Elapsed, Zenon
  <2> QED
    BY <1>3, <2>1
<1>5. PICK s \in 0 .. tsc :
        /\ h1 = Counter(s) /\ tsc' - s + Ratio <= HpetWidth * Ratio
        /\ tsc - s + Ratio <= HpetWidth * Ratio
  BY <1>1, <1>2, Elapsed, Zenon
<1>6. s \in Nat /\ s <= tsc /\ s <= tsc'
  BY <1>4, <1>5
<1> DEFINE c == Counter(s)
<1>7. c \in Nat
  BY <1>3, <1>6, Zenon
<1>8. PICK n \in Nat :
        /\ n = (tsc \div Ratio) - (s \div Ratio)
        /\ Minus(Counter(tsc), c) =
             IF c + n < HpetWidth THEN n ELSE TimeWord - HpetWidth + n
  BY <1>2, <1>4, <1>5, <1>6, CounterDelta, Zenon
<1>9. PICK p \in Nat :
        /\ p = (tsc' \div Ratio) - (s \div Ratio)
        /\ Minus(Counter(tsc'), c) =
             IF c + p < HpetWidth THEN p ELSE TimeWord - HpetWidth + p
  BY <1>2, <1>4, <1>5, <1>6, CounterDelta, Zenon
<1>10. n <= p
  <2>1. PICK x \in Nat, y \in Nat, z \in Nat :
          x = tsc \div Ratio /\ y = tsc' \div Ratio /\ z = s \div Ratio
    BY <1>3, <1>4, <1>6, Division, Zenon
  <2>2. Ratio * x <= tsc /\ tsc' < Ratio * (y + 1)
    BY <1>3, <1>4, <2>1, Rounded, Zenon
  <2>3. Ratio * x < Ratio * (y + 1)
    <3>1. Ratio * x \in Nat /\ Ratio * (y + 1) \in Nat
      BY <1>3
    <3> QED
      BY <1>4, <2>2, <3>1
  <2>4. x < y + 1
    <3>1. x \in Int /\ y + 1 \in Int
      OBVIOUS
    <3> QED
      BY Zenon, <1>3, <2>3, <3>1, Cancel
  <2>5. n = x - z /\ p = y - z
    BY <1>8, <1>9, <2>1, Zenon
  <2> QED
    BY <2>4, <2>5
<1> HIDE DEF c
<1>11. (IF c + n < HpetWidth THEN n ELSE TimeWord - HpetWidth + n) >= MinTicks
  BY <1>2, <1>5, <1>8, Zenon DEF c
<1>12. (IF c + p < HpetWidth THEN p ELSE TimeWord - HpetWidth + p) >= MinTicks
  BY <1>3, <1>7, <1>10, <1>11, SMTT(30)
<1> QED
  BY <1>5, <1>9, <1>12, Zenon DEF c

(* Each step of init keeps the invariant.                                  *)
LEMMA InitTimerInv ==
  ASSUME fw \in Firmwares, TimerInv, InitTimer, fw' = fw
  PROVE  TimerInv'
<1>1. /\ Ratio \in Nat \ {0} /\ Gap \in Nat \ {0} /\ MinTicks \in Nat \ {0}
      /\ fw.timer.counts \in BOOLEAN
  BY TimerFacts, Zenon
<1>a. PICK m \in Nat : m = MinTicks * Ratio
  BY TimerFacts, Zenon
<1>2. tsc \in Nat
  BY Zenon DEF TimerInv
<1>3. Elapses => tsc' \in Nat /\ tsc <= tsc' /\ (fw.timer.counts => tsc' \in tsc + 1 .. tsc + Gap)
  <2>1. Elapses => tsc' = tsc \/ tsc' \in tsc + 1 .. tsc + Gap
    BY Zenon DEF Elapses
  <2>2. \A u \in tsc + 1 .. tsc + Gap : u \in Nat /\ tsc <= u
    BY <1>1, <1>2
  <2>3. tsc <= tsc
    BY <1>2
  <2> QED
    BY <1>2, <2>1, <2>2, <2>3, Zenon DEF Elapses
<1>4. CASE NoTimer \/ SkipCalibration
  <2>1. tpc' \in {"arm", "done"} /\ tsc' = tsc
    BY Zenon, <1>4 DEF NoTimer, SkipCalibration
  <2> QED
    BY <1>2, <2>1, Zenon DEF TimerInv
<1>5. CASE Calibrate \/ Arm
  <2>1. tpc' \in {"arm", "done"} /\ Elapses
    BY Zenon, <1>5 DEF Calibrate, Arm
  <2>2. tsc' \in Nat
    BY Zenon, <1>3, <2>1
  <2> QED
    BY <2>1, <2>2, Zenon DEF TimerInv
<1>6. CASE SampleHpet
  <2>1. /\ tpc' = "t1" /\ Elapses /\ period_cycles' = period_cycles
        /\ h1' = Counter(tsc') /\ tpc = "start"
    BY Zenon, <1>6 DEF SampleHpet
  <2>2. h1' = Counter(tsc)'
    BY <2>1, Zenon DEF Counter
  <2>3. period_cycles' = DefaultPeriod
    BY <2>1, Zenon DEF TimerInv
  <2> QED
    BY <1>3, <2>1, <2>2, <2>3, Zenon DEF TimerInv
<1>7. CASE SampleTsc
  <2>1. /\ tpc = "t1" /\ Elapses /\ t1' = tsc' /\ tpc' = "wait"
        /\ h1' = h1 /\ period_cycles' = period_cycles
    BY Zenon, <1>7 DEF SampleTsc
  <2>2. h1 = Counter(tsc) /\ period_cycles = DefaultPeriod
    BY <2>1, Zenon DEF TimerInv
  <2>3. h1' = IF fw'.timer.counts THEN (fw'.timer.phase + (tsc \div Ratio)) % HpetWidth
              ELSE fw'.timer.phase
    BY <2>1, <2>2, Zenon DEF Counter
  <2>4. tsc \in 0 .. tsc' /\ Reads' = 1 /\ 1 * Gap = Gap
    BY <1>1, <1>2, <1>3, <2>1 DEF Reads
  <2>5. fw'.timer.counts => t1' \in tsc + 1 .. tsc + Gap /\ t1' <= tsc'
                            /\ tsc' - tsc <= MinTicks * Ratio + Reads' * Gap
    <3> SUFFICES ASSUME fw.timer.counts
                 PROVE  /\ tsc' \in tsc + 1 .. tsc + Gap /\ tsc' <= tsc'
                        /\ tsc' - tsc <= m + Gap
      BY <1>a, <2>1, <2>4, Zenon
    <3>1. PICK u \in Nat : u = tsc' /\ u \in tsc + 1 .. tsc + Gap
      BY <1>3, <2>1, Zenon
    <3>a. u \in tsc + 1 .. tsc + Gap /\ Gap \in Nat
      BY <1>1, <3>1, Zenon
    <3>2. u <= u /\ u - tsc <= m + Gap
      BY <1>2, <3>a
    <3> QED
      BY <3>1, <3>2, Zenon
  <2> QED
    BY <1>3, <2>1, <2>2, <2>3, <2>4, <2>5, Zenon DEF TimerInv, Counter
<1>8. CASE WaitForTicks
  BY Zenon, <1>8, WaitInv
<1>9. CASE SampleHpetAgain
  <2>1. /\ tpc = "h2" /\ Elapses /\ h2' = Counter(tsc') /\ tpc' = "t2"
        /\ h1' = h1 /\ t1' = t1 /\ period_cycles' = period_cycles
    BY Zenon, <1>9 DEF SampleHpetAgain
  <2>2. fw.timer.counts /\ period_cycles = DefaultPeriod
    BY <2>1, Zenon DEF TimerInv
  <2>3. PICK s \in 0 .. tsc :
          /\ h1 = Counter(s) /\ t1 \in s + 1 .. s + Gap /\ t1 <= tsc
          /\ tsc' - s <= MinTicks * Ratio + Reads * Gap + Gap
    BY <2>1, <2>2, Elapsed, Zenon
  <2>4. s \in 0 .. tsc' /\ t1 <= tsc' /\ tsc' \in Nat
    <3>1. PICK u \in Nat : u = tsc' /\ u \in tsc + 1 .. tsc + Gap
      BY <1>3, <2>1, <2>2, Zenon
    <3>2. t1 \in s + 1 .. s + Gap /\ t1 <= tsc
      BY <2>3, Zenon
    <3>3. s \in 0 .. u /\ t1 <= u
      BY <1>1, <1>2, <3>1, <3>2, SMTT(30)
    <3> QED
      BY <3>1, <3>3, Zenon
  <2>5. Reads = 2 /\ Reads' = 3 /\ 2 * Gap + Gap = 3 * Gap
    BY <1>1, <2>1 DEF Reads
  <2>6. tsc' - s <= MinTicks * Ratio + Reads' * Gap
    <3>1. tsc' - s <= MinTicks * Ratio + 2 * Gap + Gap
      BY Zenon, <2>3, <2>5
    <3>2. MinTicks * Ratio + 2 * Gap + Gap = MinTicks * Ratio + 3 * Gap
      BY <1>1, SMTT(30)
    <3> QED
      BY Zenon, <2>5, <3>1, <3>2
  <2>7. h1' = Counter(s)' /\ h2' = Counter(tsc)'
    BY <2>1, <2>3, Zenon DEF Counter
  <2>8. Minus(Counter(tsc)', h1') >= MinTicks
    <3>1. Minus(Counter(tsc'), h1) >= MinTicks
      BY Zenon, <1>9, SecondSample
    <3> QED
      BY <2>1, <2>7, <3>1, Zenon
  <2>9. t1' \in s + 1 .. s + Gap /\ t1' <= tsc' /\ fw'.timer.counts
    BY <2>1, <2>2, <2>3, <2>4, Zenon
  <2> QED
    BY <2>1, <2>2, <2>4, <2>6, <2>7, <2>8, <2>9, Zenon DEF TimerInv, Minus
<1> QED
  BY Zenon, <1>4, <1>5, <1>6, <1>7, <1>8, <1>9 DEF InitTimer

(* A difference so large that the counter must have wrapped leaves no      *)
(* cycles.                                                                 *)
LEMMA WrapLeavesNone ==
  ASSUME NEW td \in Nat, NEW hd \in Nat, NEW P \in Nat \ {0}, NEW S \in Nat,
         NEW I \in Nat \ {0}, NEW L \in Nat, NEW w \in Nat \ {0},
         td <= L, w <= hd, L * S < (w * P) * I
  PROVE  ((td * S) \div (hd * P)) \div I = 0
<1> DEFINE x == (td * S) \div (hd * P)
           q == x \div I
           m == hd * P
<1>1. m \in Nat \ {0} /\ td * S \in Nat /\ L * S \in Nat
  OBVIOUS
<1>2. x \in Nat /\ m * x <= td * S
  BY <1>1, Rounded, Zenon
<1>3. td * S <= L * S
  BY Zenon, MulMono
<1>4. (w * P) * I <= m * I /\ (w * P) * I \in Nat /\ m * I \in Nat
  <2>1. w * P <= hd * P /\ w * P \in Nat /\ hd * P \in Nat
    BY Zenon, MulMono
  <2> QED
    BY <2>1, MulMono, Zenon
<1> HIDE DEF x, m
<1>5. m * x < m * I
  <2>1. m * x \in Nat
    BY <1>1, <1>2
  <2> QED
    BY <1>1, <1>2, <1>3, <1>4, <2>1, SMTT(30)
<1>6. x < I
  <2>1. x \in Int /\ I \in Int
    BY <1>2
  <2> QED
    BY Zenon, <1>1, <1>5, <2>1, Cancel
<1>7. q = 0
  BY <1>2, <1>6
<1> QED
  BY Zenon, <1>7 DEF q, x, m

(* The period that Calibrate computes.                                     *)
LEMMA CalibrateSound ==
  ASSUME fw \in Firmwares, TimerInv, Calibrate
  PROVE  hpet.period = fw.timer.period /\ Cycles(tsc') > 0 =>
           Cycles(tsc') \in
             ((Ratio * Second) \div (fw.timer.period * Interval))
               - (((Ratio + Gap) * Second) \div (MinTicks * fw.timer.period * Interval)) - 1
             .. ((Ratio * Second) \div (fw.timer.period * Interval))
               + (((Ratio + Gap) * Second) \div (MinTicks * fw.timer.period * Interval)) + 1
<1>1. tpc = "t2" /\ Elapses
  BY Zenon DEF Calibrate
<1>2. fw.timer.counts /\ Minus(h2, h1) >= MinTicks /\ h2 = Counter(tsc)
  BY <1>1, Zenon DEF TimerInv
<1>3. /\ Ratio \in Nat \ {0} /\ Gap \in Nat \ {0} /\ MinTicks \in Nat \ {0}
      /\ HpetWidth \in Nat \ {0} /\ TimeWord \in Nat \ {0}
      /\ Second \in Nat \ {0} /\ Interval \in Nat \ {0}
      /\ HpetWidth <= TimeWord /\ fw.timer.period \in Nat \ {0}
  BY TimerFacts, Zenon
<1>a. PICK L \in Nat : L = Longest /\ L < TimeWord
  <2>1. Longest < TimeWord /\ Longest = MinTicks * Ratio + Ratio + 4 * Gap
    BY TimerFacts, Zenon
  <2>2. MinTicks * Ratio + Ratio + 4 * Gap \in Nat
    BY <1>3, SMTT(30)
  <2> QED
    BY <2>1, <2>2, Zenon
<1>4. tsc \in Nat /\ tsc' \in tsc + 1 .. tsc + Gap
  BY <1>1, <1>2, Elapsed, Zenon
<1>5. PICK s \in 0 .. tsc :
        /\ h1 = Counter(s) /\ t1 \in s + 1 .. s + Gap /\ t1 <= tsc
        /\ tsc' - s <= Longest - Ratio /\ tsc - s + Ratio <= HpetWidth * Ratio
  BY <1>1, <1>2, Elapsed, Zenon
<1>b. t1 \in s + 1 .. s + Gap /\ t1 <= tsc /\ tsc' - s <= L - Ratio
  BY <1>5, <1>a, Zenon
<1>6. s \in Nat /\ s <= tsc /\ t1 \in Nat /\ tsc' \in Nat
  BY <1>3, <1>4, <1>b, SMTT(30)
<1>7. PICK n \in Nat :
        /\ n < HpetWidth
        /\ n * Ratio < tsc - s + Ratio /\ tsc - s < n * Ratio + Ratio
        /\ Minus(Counter(tsc), Counter(s)) =
             IF Counter(s) + n < HpetWidth THEN n ELSE TimeWord - HpetWidth + n
  BY <1>2, <1>4, <1>5, <1>6, CounterDelta, Zenon
<1>c. PICK u \in Nat : u = tsc'
  BY <1>6, Zenon
<1>d. /\ u \in tsc + 1 .. tsc + Gap /\ u - s <= L - Ratio
      /\ t1 \in s + 1 .. s + Gap /\ t1 <= tsc
  BY <1>4, <1>b, <1>c, Zenon
<1>e. /\ tsc \in Nat /\ s \in Nat /\ t1 \in Nat /\ Ratio \in Nat /\ Gap \in Nat
      /\ u >= tsc + 1 /\ u <= tsc + Gap /\ t1 >= s + 1 /\ t1 <= s + Gap /\ t1 <= tsc
      /\ u - s <= L - Ratio
  <2>1. tsc \in Nat /\ s \in Nat /\ t1 \in Nat /\ Ratio \in Nat /\ Gap \in Nat
    BY <1>3, <1>4, <1>6, Zenon
  <2> QED
    BY <2>1, <1>d
<1>8. PICK td \in Nat : td = u - t1
  <2>1. u - t1 \in Nat
    BY <1>e
  <2> QED
    BY <2>1, Zenon
<1>9. td <= L /\ td < TimeWord
  <2>1. td <= L
    BY <1>e, <1>8
  <2>2. L < TimeWord /\ TimeWord \in Nat
    BY <1>3, <1>a, Zenon
  <2> QED
    BY <2>1, <2>2
<1>10. Minus(tsc', t1) = td
  <2>1. td % TimeWord = td
    BY <1>3, <1>9, SMTT(30)
  <2> QED
    BY <1>8, <1>c, <2>1, Zenon DEF Minus
<1>11. td <= n * Ratio + (Ratio + Gap) /\ n * Ratio <= td + (Ratio + Gap)
  <2>1. PICK m \in Nat : m = n * Ratio
    <3>1. n * Ratio \in Nat
      BY <1>3, SMTT(30)
    <3> QED
      BY <3>1, Zenon
  <2>2. m < tsc - s + Ratio /\ tsc - s < m + Ratio
    BY <1>7, <2>1, Zenon
  <2>3. td <= m + (Ratio + Gap) /\ m <= td + (Ratio + Gap)
    BY <1>e, <1>8, <2>2
  <2> QED
    BY <2>1, <2>3, Zenon
<1>12. PICK hd \in Nat :
         /\ hd = Minus(h2, h1) /\ hd >= MinTicks
         /\ hd = n \/ (HpetWidth < TimeWord /\ TimeWord - HpetWidth <= hd)
  <2>1. Minus(h2, h1) = n \/ Minus(h2, h1) = TimeWord - HpetWidth + n
    BY <1>2, <1>5, <1>7, Zenon
  <2>2. PICK x \in Nat : x = TimeWord - HpetWidth + n
    <3>1. TimeWord \in Nat /\ HpetWidth \in Nat /\ HpetWidth <= TimeWord
      BY <1>3, Zenon
    <3>2. TimeWord - HpetWidth + n \in Nat
      BY <3>1
    <3> QED
      BY <3>2, Zenon
  <2>3. PICK hd \in Nat : hd = Minus(h2, h1) /\ (hd = n \/ hd = x)
    BY <2>1, <2>2, Zenon
  <2>4. hd >= MinTicks
    BY <1>2, <2>3, Zenon
  <2>5. x = n \/ (HpetWidth < TimeWord /\ TimeWord - HpetWidth <= x)
    BY <1>3, <2>2, SMTT(30)
  <2> QED
    BY <2>3, <2>4, <2>5, Zenon
<1> DEFINE P == fw.timer.period
<1>13. hpet.period = P => Cycles(tsc') = ((td * Second) \div (hd * P)) \div Interval
  BY <1>10, <1>12, Zenon DEF Cycles
<1>14. CASE hd = n
  <2>a. hd >= MinTicks /\ MinTicks \in Nat /\ Ratio \in Nat /\ Gap \in Nat
    BY <1>3, <1>12, Zenon
  <2>1. MinTicks <= n /\ Ratio + Gap \in Nat
    BY <1>14, <2>a
  <2> HIDE DEF P
  <2>2. P \in Nat \ {0}
    BY <1>3, Zenon DEF P
  <2>3. ((td * Second) \div (n * P)) \div Interval \in
          ((Ratio * Second) \div (P * Interval))
            - (((Ratio + Gap) * Second) \div (MinTicks * P * Interval)) - 1
          .. ((Ratio * Second) \div (P * Interval))
            + (((Ratio + Gap) * Second) \div (MinTicks * P * Interval)) + 1
    BY <1>3, <1>11, <2>1, <2>2, CalibrationError, Zenon
  <2> QED
    BY <1>13, <1>14, <2>3, Zenon DEF P
<1>15. CASE HpetWidth < TimeWord /\ TimeWord - HpetWidth <= hd
  <2>1. Longest * Second < ((TimeWord - HpetWidth) * P) * Interval
    BY <1>15, TimerOK, Zenon
  <2>a. TimeWord \in Nat /\ HpetWidth \in Nat
    BY <1>3, Zenon
  <2>2. TimeWord - HpetWidth \in Nat \ {0}
    BY <1>15, <2>a
  <2> HIDE DEF P
  <2>3. P \in Nat \ {0} /\ Second \in Nat
    BY <1>3, Zenon DEF P
  <2>4. ((td * Second) \div (hd * P)) \div Interval = 0
    <3>1. PICK w \in Nat \ {0} : w = TimeWord - HpetWidth
      BY <2>2, Zenon
    <3>2. td <= L /\ w <= hd /\ L * Second < (w * P) * Interval
      BY <1>a, <1>9, <1>15, <2>1, <3>1, Zenon
    <3>3. Interval \in Nat \ {0}
      BY <1>3, Zenon
    <3> QED
      BY <2>3, <3>2, <3>3, WrapLeavesNone, SMTT(30)
  <2>5. hpet.period = P => Cycles(tsc') = 0
    BY <1>13, <2>4, Zenon
  <2>6. ~(0 > 0)
    OBVIOUS
  <2> QED
    BY <2>5, <2>6, Zenon DEF P
<1> QED
  BY <1>12, <1>14, <1>15, Zenon

(* The period stays sound through init.                                    *)
LEMMA InitTimerSound ==
  ASSUME fw \in Firmwares, TimerInv, CalibrationSound, InitTimer, fw' = fw, hpet' = hpet
  PROVE  CalibrationSound'
<1>1. DefaultPeriod > 0
  <2>1. DefaultPeriod \in Nat \ {0}
    BY TimerFacts, Zenon
  <2> QED
    BY <2>1
<1>2. CASE NoTimer \/ SkipCalibration
  <2>1. period_cycles' = DefaultPeriod
    BY <1>2, Zenon DEF NoTimer, SkipCalibration, TimerInv
  <2> QED
    BY <1>1, <2>1, Zenon DEF CalibrationSound
<1>3. CASE SampleHpet \/ SampleTsc \/ WaitForTicks \/ SampleHpetAgain
  <2>1. tpc' \notin {"arm", "done"}
    BY <1>3, Zenon DEF SampleHpet, SampleTsc, WaitForTicks, SampleHpetAgain
  <2> QED
    BY <2>1, Zenon DEF CalibrationSound
<1>4. CASE Arm
  <2>1. tpc = "arm" /\ period_cycles' = period_cycles
    BY Zenon, <1>4 DEF Arm
  <2> QED
    BY <2>1, Zenon DEF CalibrationSound
<1>5. CASE Calibrate
  <2>1. CASE Minus(h2, h1) # 0 /\ Cycles(tsc') > 0
    <3>1. period_cycles' = Cycles(tsc')
      BY <1>5, <2>1, Zenon DEF Calibrate
    <3> QED
      BY <1>5, <2>1, <3>1, CalibrateSound, Zenon DEF CalibrationSound
  <2>2. CASE ~(Minus(h2, h1) # 0 /\ Cycles(tsc') > 0)
    <3>1. period_cycles' = period_cycles /\ tpc = "t2"
      BY <1>5, <2>2, Zenon DEF Calibrate
    <3>2. period_cycles' = DefaultPeriod
      BY <3>1, Zenon DEF TimerInv
    <3> QED
      BY <1>1, <3>2, Zenon DEF CalibrationSound
  <2> QED
    BY <2>1, <2>2, Zenon
<1> QED
  BY Zenon, <1>2, <1>3, <1>4, <1>5 DEF InitTimer

=============================================================================
