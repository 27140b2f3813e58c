----------------------------- MODULE PciProofs ------------------------------
(***************************************************************************)
(* Proofs about the PCI scan: sizing BARs leaves the registers as they     *)
(* were and finds each BAR's address and size, the walk of a capability    *)
(* list finds each capability of it, and the functions passed so far are   *)
(* the ones in the registry.                                               *)
(***************************************************************************)
EXTENDS PciScan, FiniteSetTheorems, TLAPS

-----------------------------------------------------------------------------
(* Arithmetic.                                                             *)

(* Quotient and remainder.                                                 *)
LEMMA Quotient ==
  ASSUME NEW x \in Nat, NEW m \in Nat \ {0}
  PROVE  /\ x \div m \in Nat /\ x % m \in 0 .. m - 1
         /\ x = m * (x \div m) + (x % m)
  OBVIOUS

(* They are the only ones.                                                 *)
LEMMA QuotientUnique ==
  ASSUME NEW q \in Nat, NEW m \in Nat \ {0}, NEW r \in 0 .. m - 1
  PROVE  (m * q + r) % m = r /\ (m * q + r) \div m = q
<1> DEFINE x == m * q + r
           d == x \div m
           e == x % m
<1>1. x \in Nat
  OBVIOUS
<1>2. d \in Nat /\ e \in 0 .. m - 1 /\ x = m * d + e
  BY <1>1, Quotient, Zenon
<1>3. m * q + r = m * d + e
  BY Zenon, <1>2
<1> HIDE DEF x, d, e
<1>4. m * (q - d) = e - r /\ e - r < m /\ e - r > 0 - m
  BY <1>2, <1>3
<1>5. q - d < 1
  <2>1. SUFFICES ASSUME q - d >= 1 PROVE FALSE
    BY <1>2
  <2>2. PICK k \in Nat : q - d = k + 1
    <3>1. q - d - 1 \in Nat /\ q - d = (q - d - 1) + 1
      BY <1>2, <2>1
    <3> QED
      BY Zenon, <3>1
  <2>3. m * (k + 1) = m * k + m /\ m * k >= 0
    OBVIOUS
  <2> QED
    BY <1>4, <2>2, <2>3
<1>6. d - q < 1
  <2>1. SUFFICES ASSUME d - q >= 1 PROVE FALSE
    BY <1>2
  <2>2. PICK k \in Nat : d - q = k + 1
    <3>1. d - q - 1 \in Nat /\ d - q = (d - q - 1) + 1
      BY <1>2, <2>1
    <3> QED
      BY Zenon, <3>1
  <2>3. m * (k + 1) = m * k + m /\ m * k >= 0
    OBVIOUS
  <2>4. q - d = 0 - (k + 1)
    BY <1>2, <2>2
  <2>5. m * (q - d) = 0 - m * (k + 1)
    BY <2>4
  <2> QED
    BY <1>4, <2>3, <2>5
<1>7. q = d
  BY <1>2, <1>5, <1>6
<1>8. e = r
  BY <1>2, <1>3, <1>7
<1> QED
  BY Zenon, <1>7, <1>8 DEF x, d, e

(* A number without remainder is a multiple.                               *)
LEMMA Multiple ==
  ASSUME NEW x \in Nat, NEW m \in Nat \ {0}, x % m = 0
  PROVE  \E q \in Nat : x = m * q
<1>1. x \div m \in Nat /\ x = m * (x \div m) + (x % m)
  BY Quotient, Zenon
<1>2. x = m * (x \div m)
  BY <1>1
<1> QED
  BY <1>1, <1>2, Zenon

(* A product of factors that are not smaller is not smaller.               *)
LEMMA ProductsGrow ==
  ASSUME NEW x \in Nat, NEW y \in Nat, NEW p \in Nat, x <= y
  PROVE  x * p <= y * p /\ x * p \in Nat /\ y * p \in Nat
<1>1. PICK d \in Nat : y = x + d
  <2>1. y - x \in Nat /\ y = x + (y - x)
    OBVIOUS
  <2> QED
    BY Zenon, <2>1
<1>2. y * p = x * p + d * p /\ d * p \in Nat /\ x * p \in Nat
  BY <1>1
<1> QED
  BY <1>2

-----------------------------------------------------------------------------
(* Registers.                                                              *)

(* The smaller and the larger of two numbers.                              *)
LEMMA MinMaxOfTwo ==
  ASSUME NEW a \in Nat, NEW b \in Nat
  PROVE  /\ Min({a, b}) = IF a <= b THEN a ELSE b
         /\ Max({a, b}) = IF a >= b THEN a ELSE b
<1> DEFINE m == IF a <= b THEN a ELSE b
           n == IF a >= b THEN a ELSE b
<1>1. m \in {a, b} /\ \A y \in {a, b} : m <= y
  OBVIOUS
<1>2. \A x \in {a, b} : (\A y \in {a, b} : x <= y) => x = m
  OBVIOUS
<1>3. n \in {a, b} /\ \A y \in {a, b} : n >= y
  OBVIOUS
<1>4. \A x \in {a, b} : (\A y \in {a, b} : x >= y) => x = n
  OBVIOUS
<1> HIDE DEF m, n
<1>5. Min({a, b}) = m
  BY <1>1, <1>2, Zenon DEF Min
<1>6. Max({a, b}) = n
  BY <1>3, <1>4, Zenon DEF Max
<1> QED
  BY Zenon, <1>5, <1>6 DEF m, n

(* The register of a BAR: the part of it that cannot be written holds the  *)
(* flags.                                                                  *)
LEMMA LowRegister ==
  ASSUME NEW b, BarOK(b), Word \in Nat \ {0}
  PROVE  LET part == Min({b.len, Word})
             val == (b.addr % Word) + b.flags
         IN  val \in Nat /\ part \in Nat \ {0} /\ val % part = b.flags
<1>1. /\ b.len \in Nat \ {0} /\ b.addr \in Nat /\ b.flags \in Nat
      /\ b.addr % b.len = 0 /\ b.flags < b.len /\ b.flags < Word
      /\ Word % b.len = 0 \/ b.len % Word = 0
  BY Zenon DEF BarOK
<1> DEFINE len == b.len
           addr == b.addr
           flags == b.flags
<1>2. /\ len \in Nat \ {0} /\ addr \in Nat /\ flags \in Nat
      /\ addr % len = 0 /\ flags < len /\ flags < Word
      /\ Word % len = 0 \/ len % Word = 0
  BY Zenon, <1>1
<1> HIDE DEF len, addr, flags
<1>3. PICK q \in Nat : addr = len * q
  BY <1>2, Multiple, Zenon
<1>4. Min({len, Word}) = IF len <= Word THEN len ELSE Word
  BY Zenon, <1>2, MinMaxOfTwo
<1>5. ((addr % Word) + flags) \in Nat
  BY <1>2, Quotient
<1>6. CASE Word % len = 0
  <2>1. PICK p \in Nat : Word = len * p
    BY <1>2, <1>6, Multiple, Zenon
  <2>2. Min({len, Word}) = len
    <3>1. p >= 1
      BY <1>2, <2>1
    <3>2. 1 * len <= p * len
      BY Zenon, <1>2, <3>1, ProductsGrow
    <3> QED
      BY <1>2, <1>4, <2>1, <3>2
  <2>3. PICK e \in Nat : addr = Word * e + (addr % Word)
    BY <1>2, Quotient, Zenon
  <2>4. (addr % Word) \in Nat
    BY <1>2, Quotient
  <2> DEFINE r == addr % Word
  <2> HIDE DEF r
  <2>5. r = len * (q - p * e)
    BY <1>2, <1>3, <2>1, <2>3, <2>4 DEF r
  <2>6. q - p * e \in Nat
    <3>1. q - p * e \in Int
      OBVIOUS
    <3>2. ASSUME q - p * e < 0 PROVE FALSE
      <4>1. PICK k \in Nat : q - p * e = 0 - (k + 1)
        <5>1. 0 - (q - p * e) - 1 \in Nat
          BY <3>1, <3>2
        <5> QED
          BY <3>1, <5>1
      <4>2. r = 0 - (len * k + len) /\ len * k \in Nat
        BY <1>2, <2>5, <4>1
      <4> QED
        BY <1>2, <2>4, <4>2 DEF r
    <3> QED
      BY <3>1, <3>2
  <2>7. (len * (q - p * e) + flags) % len = flags
    BY <1>2, <2>6, QuotientUnique
  <2> QED
    BY Zenon, <1>2, <1>5, <2>2, <2>5, <2>7 DEF r, len, addr, flags
<1>7. CASE len % Word = 0
  <2>1. PICK p \in Nat : len = Word * p
    BY <1>2, <1>7, Multiple, Zenon
  <2>2. addr = Word * (p * q) + 0
    BY <1>3, <2>1
  <2>3. addr % Word = 0
    <3>1. p * q \in Nat /\ 0 \in 0 .. Word - 1
      OBVIOUS
    <3> QED
      BY Zenon, <2>2, <3>1, QuotientUnique
  <2>4. Min({len, Word}) = Word
    <3>1. p >= 1
      BY <1>2, <2>1
    <3>2. 1 * Word <= p * Word
      BY Zenon, <1>2, <3>1, ProductsGrow
    <3> QED
      BY <1>2, <1>4, <2>1, <3>2
  <2>5. flags % Word = flags
    BY <1>2
  <2> QED
    BY <1>2, <1>5, <2>3, <2>4, <2>5 DEF len, addr, flags
<1> QED
  BY Zenon, <1>2, <1>6, <1>7

(* The register behind a 64-bit BAR: the part that cannot be written, if   *)
(* the BAR is so long that there is one, is zero.                          *)
LEMMA HighRegister ==
  ASSUME NEW b, BarOK(b), Word \in Nat \ {0}
  PROVE  LET part == Max({b.len \div Word, 1})
             val == b.addr \div Word
         IN  val \in Nat /\ part \in Nat \ {0} /\ val % part = 0
<1>1. /\ b.len \in Nat \ {0} /\ b.addr \in Nat /\ b.flags \in Nat
      /\ b.addr % b.len = 0
      /\ Word % b.len = 0 \/ b.len % Word = 0
  BY Zenon DEF BarOK
<1> DEFINE len == b.len
           addr == b.addr
           d == len \div Word
           v == addr \div Word
<1>2. /\ len \in Nat \ {0} /\ addr \in Nat /\ addr % len = 0
      /\ Word % len = 0 \/ len % Word = 0
  BY Zenon, <1>1
<1> HIDE DEF len, addr
<1>3. d \in Nat /\ v \in Nat
  BY Zenon, <1>2, Quotient
<1>a. len = Word * d + (len % Word) /\ (len % Word) \in Nat
  BY <1>2, Quotient
<1>4. Max({d, 1}) = IF d >= 1 THEN d ELSE 1
  BY Zenon, <1>3, MinMaxOfTwo
<1>5. CASE d <= 1
  <2>1. Max({d, 1}) = 1
    BY <1>3, <1>4, <1>5
  <2>2. v % 1 = 0
    BY <1>3
  <2> QED
    BY <1>3, <2>1, <2>2 DEF len, addr
<1>6. CASE d > 1
  <2> HIDE DEF d
  <2>1. len % Word = 0
    <3>1. SUFFICES ASSUME Word % len = 0 PROVE FALSE
      BY Zenon, <1>2
    <3>2. PICK p \in Nat : Word = len * p
      BY <1>2, <3>1, Multiple, Zenon
    <3>3. 1 * len <= p * len
      BY <1>2, <3>2, ProductsGrow
    <3>4. 2 * Word <= d * Word
      BY <1>3, <1>6, ProductsGrow
    <3>5. p * len = Word /\ d * Word = Word * d
      BY <1>2, <1>3, <3>2
    <3> DEFINE dw == d * Word
    <3>6. len >= dw /\ dw >= 2 * Word /\ len <= Word
      BY <1>2, <1>3, <1>a, <3>3, <3>4, <3>5
    <3> QED
      BY <1>2, <1>3, <3>6
  <2>2. len = Word * d
    BY <1>2, <1>3, <1>a, <2>1
  <2>3. PICK q \in Nat : addr = len * q
    BY <1>2, Multiple, Zenon
  <2>4. addr = Word * (d * q) + 0 /\ d * q \in Nat /\ 0 \in 0 .. Word - 1
    BY <1>3, <2>2, <2>3
  <2>5. v = d * q
    BY Zenon, <2>4, QuotientUnique DEF d
  <2>6. (d * q + 0) % d = 0
    <3>1. d \in Nat \ {0} /\ 0 \in 0 .. d - 1
      BY <1>3, <1>6
    <3> QED
      BY Zenon, <3>1, QuotientUnique
  <2>7. v % d = 0
    BY <1>3, <2>5, <2>6
  <2> QED
    BY <1>3, <1>4, <1>6, <2>7 DEF len, addr, d
<1> QED
  BY <1>3, <1>5, <1>6

(* A register takes back the value it had.                                 *)
LEMMA WriteBack ==
  ASSUME NEW m \in Firmwares, NEW a \in DOMAIN m.pci, NEW k \in 0 .. NBars
  PROVE  Written(m.pci[a], k, Reg(m.pci[a], k).val) = Reg(m.pci[a], k).val
<1> DEFINE f == m.pci[a]
           r == Reg(f, k)
<1>1. /\ Word \in Nat \ {0}
      /\ \A j \in DOMAIN f.bars : BarOK(f.bars[j])
      /\ \A j \in DOMAIN f.windows :
           f.windows[j] \in [part : Nat \ {0}, val : 0 .. Word - 1]
  BY Zenon, FunctionsOK
<1> HIDE DEF f
<1> SUFFICES r.val \in Nat /\ r.part \in Nat \ {0} /\ r.val % r.part = r.fixed
  BY Quotient DEF Written, f
<1>2. CASE k \in DOMAIN f.bars
  <2> DEFINE b == f.bars[k]
  <2>1. /\ r.part = Min({b.len, Word}) /\ r.fixed = b.flags
        /\ r.val = (b.addr % Word) + b.flags
    BY <1>2, Zenon DEF Reg
  <2>2. BarOK(b)
    BY Zenon, <1>1, <1>2
  <2> HIDE DEF b, r
  <2> QED
    BY Zenon, <1>1, <2>1, <2>2, LowRegister
<1>3. CASE k \notin DOMAIN f.bars /\ k - 1 \in DOMAIN f.bars /\ f.bars[k - 1].kind = "mem64"
  <2> DEFINE b == f.bars[k - 1]
  <2>1. /\ r.part = Max({b.len \div Word, 1}) /\ r.fixed = 0
        /\ r.val = b.addr \div Word
    BY <1>3, Zenon DEF Reg
  <2>2. BarOK(b)
    BY Zenon, <1>1, <1>3
  <2> HIDE DEF b, r
  <2> QED
    BY Zenon, <1>1, <2>1, <2>2, HighRegister
<1>4. CASE /\ k \notin DOMAIN f.bars
           /\ ~(k - 1 \in DOMAIN f.bars /\ f.bars[k - 1].kind = "mem64")
  <2>1. CASE k \in DOMAIN f.windows
    <3>1. /\ r.part = f.windows[k].part /\ r.val = f.windows[k].val
          /\ r.fixed = f.windows[k].val % f.windows[k].part
      BY <1>4, <2>1, Zenon DEF Reg
    <3>2. r.val \in 0 .. Word - 1 /\ r.part \in Nat \ {0} /\ r.val % r.part = r.fixed
      BY <1>1, <2>1, <3>1, Zenon
    <3> HIDE DEF r
    <3> QED
      BY <1>1, <3>2
  <2>2. CASE k \notin DOMAIN f.windows
    <3>1. r.part = Word /\ r.fixed = 0 /\ r.val = 0
      BY <1>4, <2>2, Zenon DEF Reg
    <3> HIDE DEF r
    <3> QED
      BY <1>1, <3>1
  <2> QED
    BY Zenon, <2>1, <2>2
<1> QED
  BY Zenon, <1>2, <1>3, <1>4

-----------------------------------------------------------------------------
(* What sizing a BAR tells.                                                *)

(* Divisibility goes from a multiple to its multiples, and to remainders.  *)
LEMMA Aligned ==
  ASSUME NEW x \in Nat, NEW m \in Nat \ {0}, NEW g \in Nat \ {0}, x % m = 0, m % g = 0
  PROVE  x % g = 0
<1>1. PICK q \in Nat : x = m * q
  BY Multiple, Zenon
<1>2. PICK p \in Nat : m = g * p
  BY Multiple, Zenon
<1>3. x = g * (p * q) + 0 /\ p * q \in Nat /\ 0 \in 0 .. g - 1
  BY <1>1, <1>2
<1>4. (g * (p * q) + 0) % g = 0
  BY <1>3, QuotientUnique, ZenonT(30)
<1> QED
  BY <1>3, <1>4, Zenon

LEMMA AlignedRest ==
  ASSUME NEW x \in Nat, NEW m \in Nat \ {0}, NEW g \in Nat \ {0}, x % g = 0, m % g = 0
  PROVE  (x % m) \in Nat /\ (x % m) % g = 0
<1>1. PICK a \in Nat : x = g * a
  BY Multiple, Zenon
<1>2. PICK b \in Nat : m = g * b
  BY Multiple, Zenon
<1>3. /\ x \div m \in Nat /\ x = m * (x \div m) + (x % m)
      /\ (x % m) \in Nat
  BY Quotient
<1> DEFINE e == x \div m
           r == x % m
<1>4. e \in Nat /\ r \in Nat /\ x = m * e + r
  BY Zenon, <1>3
<1> HIDE DEF e, r
<1>5. b * e \in Nat /\ m * e = g * (b * e)
  BY <1>2, <1>4
<1>6. r = g * (a - b * e)
  BY <1>1, <1>4, <1>5
<1>7. a - b * e \in Nat
  <2>1. a - b * e \in Int
    BY <1>5
  <2>2. ASSUME a - b * e < 0 PROVE FALSE
    <3>1. PICK k \in Nat : a - b * e = 0 - (k + 1)
      <4>1. 0 - (a - b * e) - 1 \in Nat
        BY <2>1, <2>2
      <4> QED
        BY <2>1, <4>1
    <3>2. r = 0 - (g * k + g) /\ g * k \in Nat
      BY <1>6, <3>1
    <3> QED
      BY <1>4, <3>2
  <2> QED
    BY <2>1, <2>2
<1>8. r = g * (a - b * e) + 0 /\ 0 \in 0 .. g - 1
  BY <1>4, <1>6
<1>9. r % g = 0
  BY <1>7, <1>8, QuotientUnique, Zenon
<1> QED
  BY Zenon, <1>4, <1>9 DEF r

(* Flags below an aligned address.                                         *)
LEMMA Flagged ==
  ASSUME NEW x \in Nat, NEW g \in Nat \ {0}, NEW e \in 0 .. g - 1, x % g = 0
  PROVE  (x + e) % g = e /\ (x + e) - ((x + e) % g) = x
<1>1. PICK q \in Nat : x = g * q
  BY Multiple, Zenon
<1>2. (g * q + e) % g = e
  BY QuotientUnique, Zenon
<1>3. (x + e) % g = e
  BY Zenon, <1>1, <1>2
<1> QED
  BY <1>3

(* What the mask of a BAR tells of its length.                             *)
LEMMA MaskTells ==
  ASSUME NEW n \in Nat \ {0}, NEW g \in Nat \ {0}, NEW len \in Nat \ {0},
         NEW e \in 0 .. g - 1, n % g = 0, len % g = 0, len < n
  PROVE  SizeOf(n - len + e, g, n) = len
<1>1. PICK a \in Nat : n = g * a
  BY Multiple, Zenon
<1>2. PICK b \in Nat : len = g * b
  BY Multiple, Zenon
<1> DEFINE x == n - len
<1>3. x \in Nat /\ x = g * (a - b)
  BY <1>1, <1>2
<1>4. a - b \in Nat
  <2>1. CASE a < b
    <3>1. a * g <= b * g
      BY <2>1, ProductsGrow
    <3> QED
      BY <1>1, <1>2, <3>1
  <2> QED
    BY <2>1
<1>5. x % g = 0
  <2>1. x = g * (a - b) + 0 /\ 0 \in 0 .. g - 1
    BY <1>3
  <2>2. (g * (a - b) + 0) % g = 0
    BY <1>4, <2>1, QuotientUnique, ZenonT(30)
  <2> QED
    BY <2>1, <2>2, Zenon
<1>6. (x + e) - ((x + e) % g) = x
  <2> HIDE DEF x
  <2> QED
    BY <1>3, <1>5, Flagged, Zenon
<1>7. n - x = len /\ len % n = len
  BY <1>3
<1> QED
  BY Zenon, <1>6, <1>7 DEF SizeOf

(* All ones, less what cannot be written of them.                          *)
LEMMA OnesRest ==
  ASSUME NEW m \in Nat \ {0}, NEW p \in Nat, NEW w \in Nat \ {0}, w = m * p
  PROVE  (w - 1) % m = m - 1
<1>1. p >= 1
  BY SMT
<1>2. PICK k \in Nat : p = k + 1
  <2>1. p - 1 \in Nat /\ p = (p - 1) + 1
    BY <1>1
  <2> QED
    BY Zenon, <2>1
<1>3. w - 1 = m * k + (m - 1) /\ m - 1 \in 0 .. m - 1
  BY <1>2
<1> QED
  BY <1>3, QuotientUnique

(* All ones written to the register of a BAR.                              *)
LEMMA LowMask ==
  ASSUME NEW f, NEW k \in DOMAIN f.bars, BarOK(f.bars[k]), Word \in Nat \ {0}
  PROVE  Written(f, k, Ones) =
           (IF f.bars[k].len <= Word THEN Word - f.bars[k].len ELSE 0) + f.bars[k].flags
<1> DEFINE len == f.bars[k].len
           e == f.bars[k].flags
           part == Min({len, Word})
<1>1. len \in Nat \ {0} /\ e \in Nat /\ (Word % len = 0 \/ len % Word = 0)
  BY Zenon DEF BarOK
<1>2. Written(f, k, Ones) = Ones - (Ones % part) + e
  BY Zenon DEF Written, Reg
<1> HIDE DEF len, e
<1>3. part = IF len <= Word THEN len ELSE Word
  BY Zenon, <1>1, MinMaxOfTwo
<1> HIDE DEF part
<1>4. CASE len <= Word
  <2>1. \E p \in Nat : Word = len * p
    <3>1. CASE Word % len = 0
      BY <1>1, <3>1, Multiple, Zenon
    <3>2. CASE len % Word = 0
      <4>1. PICK q \in Nat : len = Word * q
        BY <1>1, <3>2, Multiple, Zenon
      <4>2. q >= 1
        BY <1>1, <4>1
      <4>3. q < 2
        <5>1. SUFFICES ASSUME 2 <= q PROVE FALSE
          OBVIOUS
        <5>2. 2 * Word <= q * Word
          BY Zenon, <5>1, ProductsGrow
        <5> QED
          BY <1>1, <1>4, <4>1, <5>2
      <4>4. q = 1
        BY <4>2, <4>3
      <4>5. Word = len * 1
        BY <1>1, <4>1, <4>4
      <4> QED
        BY <4>5, Zenon
    <3> QED
      BY Zenon, <1>1, <3>1, <3>2
  <2>2. (Word - 1) % len = len - 1
    BY <1>1, <2>1, OnesRest, Zenon
  <2> QED
    BY <1>1, <1>2, <1>3, <1>4, <2>2 DEF Ones, len, e
<1>5. CASE ~(len <= Word)
  <2>1. Ones % Word = Ones /\ Ones \in Nat
    BY DEF Ones
  <2> QED
    BY <1>1, <1>2, <1>3, <1>5, <2>1 DEF len, e
<1> QED
  BY Zenon, <1>4, <1>5

(* And to the one behind a 64-bit BAR.                                     *)
LEMMA UpperHalf ==
  ASSUME NEW f, NEW k \in DOMAIN f.bars, f.bars[k].kind = "mem64", NEW j,
         j \notin DOMAIN f.bars, j - 1 = k
  PROVE  /\ Reg(f, j).part = Max({f.bars[k].len \div Word, 1}) /\ Reg(f, j).fixed = 0
         /\ Reg(f, j).val = f.bars[k].addr \div Word
  BY Zenon DEF Reg

LEMMA HighMask ==
  ASSUME NEW f, NEW k \in DOMAIN f.bars, BarOK(f.bars[k]), Word \in Nat \ {0},
         k \in Nat, Encoded(f, k), f.bars[k].kind = "mem64"
  PROVE  Written(f, k + 1, Ones) =
           IF f.bars[k].len <= Word THEN Ones ELSE Word - (f.bars[k].len \div Word)
<1> DEFINE len == f.bars[k].len
           d == len \div Word
           part == Max({d, 1})
<1>1. /\ len \in Nat \ {0} /\ (Word % len = 0 \/ len % Word = 0)
      /\ (Word * Word) % len = 0 /\ k + 1 \notin DOMAIN f.bars
  BY Zenon DEF BarOK, Encoded
<1>2. (k + 1) - 1 = k /\ k + 1 \notin DOMAIN f.bars
  BY <1>1
<1>3. Written(f, k + 1, Ones) = Ones - (Ones % part) + 0
  <2>1. Reg(f, k + 1).part = part /\ Reg(f, k + 1).fixed = 0
    <3>1. PICK j : j = k + 1 /\ j - 1 = k /\ j \notin DOMAIN f.bars
      BY <1>2, Zenon
    <3>2. Reg(f, j).part = part /\ Reg(f, j).fixed = 0
      BY <3>1, UpperHalf, Zenon
    <3> QED
      BY <3>1, <3>2, Zenon
  <2> QED
    BY <2>1, Zenon DEF Written
<1> HIDE DEF len
<1>4. d \in Nat /\ (len % Word) \in Nat /\ len = Word * d + (len % Word) /\ len % Word < Word
  BY <1>1, Quotient
<1>5. part = IF d >= 1 THEN d ELSE 1
  BY <1>4, MinMaxOfTwo, Zenon
<1> HIDE DEF part, d
<1>6. Ones \in Nat /\ Ones = Word - 1
  BY DEF Ones
<1>7. CASE len <= Word
  <2>1. d < 2
    <3>1. SUFFICES ASSUME 2 <= d PROVE FALSE
      BY <1>4
    <3>2. 2 * Word <= d * Word
      BY Zenon, <1>4, <3>1, ProductsGrow
    <3>3. d * Word = Word * d
      BY <1>4
    <3> QED
      BY <1>1, <1>4, <1>7, <3>2, <3>3
  <2>2. part = 1
    BY <1>4, <1>5, <2>1
  <2>3. Ones % 1 = 0
    BY <1>6
  <2> QED
    BY <1>3, <1>6, <1>7, <2>2, <2>3 DEF len
<1>8. CASE ~(len <= Word)
  <2>1. len % Word = 0
    <3>1. SUFFICES ASSUME Word % len = 0 PROVE FALSE
      BY Zenon, <1>1
    <3>2. Word % len = Word
      BY <1>1, <1>8
    <3> QED
      BY Zenon, <3>1, <3>2
  <2>2. len = Word * d /\ d \in Nat \ {0}
    BY <1>1, <1>4, <2>1
  <2>3. PICK m \in Nat : Word * Word = len * m
    <3>1. Word * Word \in Nat
      OBVIOUS
    <3> QED
      BY <1>1, <3>1, Multiple, Zenon
  <2>4. Word = d * m
    <3>1. Word * Word = Word * (d * m) /\ d * m \in Nat
      BY <2>2, <2>3
    <3>2. (Word * Word + 0) \div Word = Word /\ (Word * (d * m) + 0) \div Word = d * m
      <4>1. 0 \in 0 .. Word - 1
        OBVIOUS
      <4> QED
        BY <3>1, <4>1, QuotientUnique, Zenon
    <3> QED
      BY <3>1, <3>2, Zenon
  <2>5. (Word - 1) % d = d - 1
    BY <2>2, <2>4, OnesRest, Zenon
  <2>6. part = d
    BY <1>4, <1>5, <2>2
  <2> QED
    BY <1>3, <1>4, <1>6, <1>8, <2>5, <2>6 DEF len, d
<1> QED
  BY Zenon, <1>7, <1>8

(* The register of a BAR: its address and, below it, its flags.            *)
LEMMA BarValue ==
  ASSUME NEW f, NEW k \in DOMAIN f.bars, BarOK(f.bars[k]), Word \in Nat \ {0},
         NEW g \in Nat \ {0}, f.bars[k].len % g = 0, Word % g = 0, f.bars[k].flags < g
  PROVE  \E x \in Nat :
           /\ x = f.bars[k].addr % Word /\ x % g = 0
           /\ Reg(f, k).val = x + f.bars[k].flags
           /\ Reg(f, k).val % g = f.bars[k].flags
<1> DEFINE addr == f.bars[k].addr
           len == f.bars[k].len
           e == f.bars[k].flags
           x == addr % Word
<1>1. addr \in Nat /\ len \in Nat \ {0} /\ addr % len = 0 /\ e \in 0 .. g - 1
  BY DEF BarOK
<1>2. Reg(f, k).val = x + e
  BY Zenon DEF Reg
<1> HIDE DEF addr, e, len
<1>3. addr % g = 0
  BY <1>1, Aligned, Zenon DEF len
<1>4. x \in Nat /\ x % g = 0
  BY <1>1, <1>3, AlignedRest, Zenon
<1> HIDE DEF x
<1>5. (x + e) % g = e
  BY <1>1, <1>4, Flagged, Zenon
<1>6. /\ x = addr % Word /\ x % g = 0 /\ Reg(f, k).val = x + e
      /\ Reg(f, k).val % g = e
  BY <1>2, <1>4, <1>5, Zenon DEF x
<1> QED
  BY <1>4, <1>6, Zenon DEF addr, e

(* The low bits of a register tell the kind of its BAR.                    *)
LEMMA Sixteenths ==
  ASSUME NEW x \in Nat, x % 16 = 0, NEW e \in {0, 2, 4, 8, 10, 12}, NEW w \in Nat,
         w % 16 = 0
  PROVE  /\ x + e # w - 1 /\ (x + e) % 2 = 0
         /\ ((x + e) \div 2) % 4 = IF e \in {4, 12} THEN 2 ELSE IF e \in {0, 8} THEN 0 ELSE 1
<1>1. PICK c \in Nat : x = 16 * c
  BY Multiple, 16 \in Nat \ {0}
<1>2. PICK d \in Nat : w = 16 * d
  BY Multiple, 16 \in Nat \ {0}
<1>3. e = 0 \/ e = 2 \/ e = 4 \/ e = 8 \/ e = 10 \/ e = 12
  BY Zenon
<1>4. x + e # w - 1
  BY <1>1, <1>2, <1>3
<1>5. (x + e) % 2 = 0 /\ (x + e) \div 2 = 8 * c + (e \div 2)
  BY <1>1, <1>3
<1>6. (8 * c + (e \div 2)) % 4 = (e \div 2) % 4
  BY <1>3
<1> QED
  BY <1>3, <1>4, <1>5, <1>6

(* An I/O BAR.                                                             *)
LEMMA BarIo ==
  ASSUME NEW f, NEW k \in DOMAIN f.bars, BarOK(f.bars[k]), Word \in Nat \ {0},
         Word % 16 = 0, Encoded(f, k), f.bars[k].kind = "io"
  PROVE  LET v == Reg(f, k).val
         IN  /\ v \notin {0, Ones} /\ v % 2 = 1
             /\ v - (v % 4) = f.bars[k].addr
             /\ SizeOf(Written(f, k, Ones), 4, Word) = f.bars[k].len
<1> DEFINE addr == f.bars[k].addr
           len == f.bars[k].len
           e == f.bars[k].flags
           v == Reg(f, k).val
<1>1. /\ e = 1 /\ len % 4 = 0 /\ len < Word /\ addr < Word
      /\ len \in Nat \ {0} /\ addr \in Nat
  BY Zenon DEF Encoded, BarOK
<1>2. Word % 4 = 0 /\ 4 \in Nat \ {0} /\ e \in 0 .. 4 - 1 /\ e < 4
  BY <1>1
<1>3. PICK x \in Nat : x = addr % Word /\ x % 4 = 0 /\ v = x + e /\ v % 4 = e
  <2>1. ASSUME NEW g \in Nat \ {0}, len % g = 0, Word % g = 0, e < g
        PROVE  \E x \in Nat : x = addr % Word /\ x % g = 0 /\ v = x + e /\ v % g = e
    BY <2>1, BarValue, ZenonT(30)
  <2> HIDE DEF v, addr, len, e
  <2> QED
    BY <1>1, <1>2, <2>1, Zenon
<1>4. Written(f, k, Ones) = Word - len + e
  <2>1. len <= Word
    BY <1>1
  <2> QED
    BY <2>1, LowMask, Zenon
<1> HIDE DEF v, addr, len, e
<1>5. x = addr
  BY <1>1, <1>3
<1>6. v \notin {0, Ones} /\ v % 2 = 1 /\ v - (v % 4) = addr
  BY <1>1, <1>2, <1>3, <1>5 DEF Ones
<1>7. SizeOf(Word - len + e, 4, Word) = len
  BY <1>1, <1>2, MaskTells, Zenon
<1> QED
  BY <1>4, <1>6, <1>7, Zenon DEF v, addr, len

(* A memory BAR of 32 bits.                                                *)
LEMMA BarMem32 ==
  ASSUME NEW f, NEW k \in DOMAIN f.bars, BarOK(f.bars[k]), Word \in Nat \ {0},
         Word % 16 = 0, Encoded(f, k), f.bars[k].kind = "mem"
  PROVE  LET v == Reg(f, k).val
         IN  /\ v # Ones /\ v % 2 = 0 /\ (v \div 2) % 4 # 2
             /\ v - (v % 16) = f.bars[k].addr
             /\ SizeOf(Written(f, k, Ones), 16, Word) = f.bars[k].len
<1> DEFINE addr == f.bars[k].addr
           len == f.bars[k].len
           e == f.bars[k].flags
           v == Reg(f, k).val
<1>1. /\ e \in {0, 2, 8, 10} /\ len % 16 = 0 /\ len < Word /\ addr < Word
      /\ len \in Nat \ {0} /\ addr \in Nat
  BY Zenon DEF Encoded, BarOK
<1>2. 16 \in Nat \ {0} /\ e \in 0 .. 16 - 1 /\ e < 16
  BY <1>1
<1>3. PICK x \in Nat : x = addr % Word /\ x % 16 = 0 /\ v = x + e /\ v % 16 = e
  BY <1>1, <1>2, BarValue, Zenon
<1>4. Written(f, k, Ones) = Word - len + e
  <2>1. len <= Word
    BY <1>1
  <2> QED
    BY <2>1, LowMask, Zenon
<1> HIDE DEF v, addr, len, e
<1>5. x = addr
  BY <1>1, <1>3
<1>6. v # Ones /\ v % 2 = 0 /\ (v \div 2) % 4 # 2 /\ v - (v % 16) = addr
  <2>1. /\ x + e # Word - 1 /\ (x + e) % 2 = 0
        /\ ((x + e) \div 2) % 4 = IF e \in {4, 12} THEN 2 ELSE IF e \in {0, 8} THEN 0 ELSE 1
    <3>1. e \in {0, 2, 4, 8, 10, 12} /\ Word \in Nat
      BY Zenon, <1>1
    <3> QED
      BY <1>3, <3>1, Sixteenths, Zenon
  <2>2. ((x + e) \div 2) % 4 # 2
    BY <1>1, <2>1
  <2>3. v # Ones /\ v % 2 = 0 /\ (v \div 2) % 4 # 2
    BY <1>3, <2>1, <2>2, Zenon DEF Ones
  <2> QED
    BY <1>1, <1>3, <1>5, <2>3
<1>7. SizeOf(Word - len + e, 16, Word) = len
  BY <1>1, <1>2, MaskTells, Zenon
<1> QED
  BY <1>4, <1>6, <1>7, Zenon DEF v, addr, len

(* A memory BAR of 64 bits, with the register behind it.                   *)
LEMMA BarMem64 ==
  ASSUME NEW f, NEW k \in DOMAIN f.bars, BarOK(f.bars[k]), Word \in Nat \ {0}, k \in Nat,
         Word % 16 = 0, Encoded(f, k), f.bars[k].kind = "mem64"
  PROVE  LET v == Reg(f, k).val
             high == Reg(f, k + 1).val
             mask == Written(f, k + 1, Ones) * Word + Written(f, k, Ones)
         IN  /\ v \notin {0, Ones} /\ v % 2 = 0 /\ (v \div 2) % 4 = 2
             /\ high * Word + v - (v % 16) = f.bars[k].addr
             /\ SizeOf(mask, 16, Word * Word) = f.bars[k].len
<1> DEFINE addr == f.bars[k].addr
           len == f.bars[k].len
           e == f.bars[k].flags
           v == Reg(f, k).val
           h == Reg(f, k + 1).val
           low == Written(f, k, Ones)
           up == Written(f, k + 1, Ones)
<1>1. /\ e \in {4, 12} /\ len % 16 = 0 /\ len < Word * Word
      /\ len \in Nat \ {0} /\ addr \in Nat /\ k + 1 \notin DOMAIN f.bars
      /\ Word % len = 0 \/ len % Word = 0
  BY Zenon DEF Encoded, BarOK
<1>2. 16 \in Nat \ {0} /\ e \in 0 .. 16 - 1 /\ e < 16 /\ e \in {0, 2, 4, 8, 10, 12}
  BY <1>1
<1>3. PICK x \in Nat : x = addr % Word /\ x % 16 = 0 /\ v = x + e /\ v % 16 = e
  BY <1>1, <1>2, BarValue, Zenon
<1>4. h = addr \div Word
  <2>1. (k + 1) - 1 = k /\ k + 1 \notin DOMAIN f.bars
    BY <1>1
  <2>2. PICK j : j = k + 1 /\ j - 1 = k /\ j \notin DOMAIN f.bars
    BY <2>1, Zenon
  <2>3. Reg(f, j).val = addr \div Word
    BY <2>2, UpperHalf, Zenon
  <2> QED
    BY <2>2, <2>3, Zenon
<1>5. /\ low = (IF len <= Word THEN Word - len ELSE 0) + e
      /\ up = IF len <= Word THEN Ones ELSE Word - (len \div Word)
  BY LowMask, HighMask, Zenon
<1> HIDE DEF v, addr, len, e, h, low, up
<1>6. v \notin {0, Ones} /\ v % 2 = 0 /\ (v \div 2) % 4 = 2
  <2>1. /\ x + e # Word - 1 /\ (x + e) % 2 = 0
        /\ ((x + e) \div 2) % 4 = IF e \in {4, 12} THEN 2 ELSE IF e \in {0, 8} THEN 0 ELSE 1
    <3>1. Word \in Nat
      BY Zenon
    <3> QED
      BY <1>2, <1>3, <3>1, Sixteenths, Zenon
  <2>2. ((x + e) \div 2) % 4 = 2 /\ x + e # 0
    BY <1>1, <2>1
  <2> QED
    BY <1>3, <2>1, <2>2, Zenon DEF Ones
<1>7. h * Word + v - (v % 16) = addr
  <2>1. h \in Nat /\ addr = Word * h + x
    BY <1>1, <1>3, <1>4, Quotient, Zenon
  <2>2. h * Word = Word * h /\ h * Word \in Nat
    BY <2>1
  <2> QED
    BY <1>1, <1>2, <1>3, <2>1, <2>2
<1>8. up * Word + low = Word * Word - len + e
  <2>1. CASE len <= Word
    <3>1. up = Word - 1 /\ low = Word - len + e
      BY Zenon, <1>5, <2>1 DEF Ones
    <3>2. up * Word = Word * Word - Word /\ Word * Word \in Nat
      BY <3>1
    <3> QED
      BY <1>1, <1>2, <3>1, <3>2
  <2>2. CASE ~(len <= Word)
    <3>1. len % Word = 0
      <4>1. SUFFICES ASSUME Word % len = 0 PROVE FALSE
        BY Zenon, <1>1
      <4>2. Word % len = Word
        BY <1>1, <2>2
      <4> QED
        BY Zenon, <4>1, <4>2
    <3> DEFINE d == len \div Word
    <3>2. d \in Nat /\ len = Word * d
      <4>1. d \in Nat /\ len = Word * d + (len % Word)
        BY <1>1, Quotient, Zenon
      <4> QED
        BY <3>1, <4>1
    <3>3. up = Word - d /\ low = 0 + e
      BY <1>5, <2>2, Zenon
    <3> HIDE DEF d
    <3>4. up * Word = Word * Word - Word * d /\ Word * Word \in Nat /\ Word * d \in Nat
      BY <3>2, <3>3
    <3> QED
      BY <1>1, <1>2, <3>2, <3>3, <3>4
  <2> QED
    BY Zenon, <2>1, <2>2
<1>9. SizeOf(Word * Word - len + e, 16, Word * Word) = len
  <2>1. PICK c \in Nat : Word = 16 * c
    BY <1>2, Multiple, Zenon
  <2>2. Word * Word \in Nat \ {0} /\ Word * Word = 16 * (c * Word) + 0 /\ c * Word \in Nat
    BY <2>1
  <2>3. (16 * (c * Word) + 0) % 16 = 0
    BY <2>2
  <2>4. (Word * Word) % 16 = 0
    BY <2>2, <2>3, Zenon
  <2> QED
    BY <1>1, <1>2, <2>2, <2>4, MaskTells, Zenon
<1> QED
  BY <1>6, <1>7, <1>8, <1>9, Zenon DEF v, addr, len, h, low, up

(* One more register.                                                      *)
LEMMA BarsNext ==
  ASSUME NEW f, NEW n \in Nat, DOMAIN f.bars \subseteq Nat
  PROVE  /\ (n \notin DOMAIN f.bars \/ Reg(f, n).val = 0) => Bars(f, n + 1) = Bars(f, n)
         /\ n \in DOMAIN f.bars /\ Reg(f, n).val # 0 =>
              Bars(f, n + 1) = Bars(f, n) \cup
                {Resource(IF f.bars[n].kind = "io" THEN "IO" ELSE "MemoryMapped",
                          f.bars[n].addr, f.bars[n].len)}
<1> DEFINE K(m) == {j \in DOMAIN f.bars : j < m /\ Reg(f, j).val # 0}
           R(k) == Resource(IF f.bars[k].kind = "io" THEN "IO" ELSE "MemoryMapped",
                            f.bars[k].addr, f.bars[k].len)
<1>1. \A m : Bars(f, m) = {R(k) : k \in K(m)}
  BY Zenon DEF Bars
<1>2. \A j \in DOMAIN f.bars : j < n + 1 <=> j < n \/ j = n
  OBVIOUS
<1>3. CASE n \notin DOMAIN f.bars \/ Reg(f, n).val = 0
  <2>1. K(n + 1) = K(n)
    BY <1>2, <1>3, Zenon
  <2> HIDE DEF K, R
  <2> QED
    BY <1>1, <1>3, <2>1, Zenon
<1>4. CASE n \in DOMAIN f.bars /\ Reg(f, n).val # 0
  <2>1. K(n + 1) = K(n) \cup {n}
    BY <1>2, <1>4, Zenon
  <2> HIDE DEF K, R
  <2>2. {R(k) : k \in K(n) \cup {n}} = {R(k) : k \in K(n)} \cup {R(n)}
    BY Zenon
  <2>3. Bars(f, n + 1) = Bars(f, n) \cup {R(n)}
    BY <1>1, <2>1, <2>2, Zenon
  <2> QED
    BY <1>4, <2>3, Zenon DEF R
<1> QED
  BY <1>3, <1>4, Zenon

(* A function as it should be.                                             *)
Sound64(f, n) == n \in DOMAIN f.bars /\ f.bars[n].kind = "mem64"

BarsOK(f) ==
  /\ DOMAIN f.bars \subseteq 0 .. NBars - 1
  /\ \A k \in DOMAIN f.bars : BarOK(f.bars[k]) /\ Encoded(f, k)

(* What the four branches of the loop over the registers find.             *)
LEMMA Sizing ==
  ASSUME NEW f, BarsOK(f), DOMAIN f.windows = {}, NEW n \in Nat, ~Sound64(f, n - 1)
  PROVE  LET v == Reg(f, n).val
             high == Reg(f, n + 1).val
             mask == Written(f, n + 1, Ones) * Word + Written(f, n, Ones)
         IN  /\ v \in {0, Ones} => Bars(f, n + 1) = Bars(f, n) /\ ~Sound64(f, n)
             /\ v \notin {0, Ones} /\ v % 2 = 1 =>
                  /\ Bars(f, n + 1) = Bars(f, n) \cup
                       {Resource("IO", v - (v % 4), SizeOf(Written(f, n, Ones), 4, Word))}
                  /\ ~Sound64(f, n)
             /\ v \notin {0, Ones} /\ v % 2 = 0 /\ (v \div 2) % 4 # 2 =>
                  /\ Bars(f, n + 1) = Bars(f, n) \cup
                       {Resource("MemoryMapped", v - (v % 16),
                                 SizeOf(Written(f, n, Ones), 16, Word))}
                  /\ ~Sound64(f, n)
             /\ v \notin {0, Ones} /\ v % 2 = 0 /\ (v \div 2) % 4 = 2 =>
                  /\ Bars(f, n + 2) = Bars(f, n) \cup
                       {Resource("MemoryMapped", high * Word + v - (v % 16),
                                 SizeOf(mask, 16, Word * Word))}
                  /\ ~Sound64(f, n + 1)
<1> DEFINE v == Reg(f, n).val
<1>1. /\ Word \in Nat \ {0} /\ NBars \in Nat /\ Word % 16 = 0
      /\ DOMAIN f.bars \subseteq Nat
  <2>1. Word \in Nat \ {0} /\ NBars \in Nat /\ Word % 16 = 0
    BY FunctionsOK, LayoutOK, Zenon
  <2> QED
    BY <2>1 DEF BarsOK
<1>2. CASE n \notin DOMAIN f.bars
  <2>1. v = 0
    BY <1>2, Zenon DEF Reg, Sound64
  <2>2. Bars(f, n + 1) = Bars(f, n)
    BY <1>1, <1>2, BarsNext, Zenon
  <2>3. ~Sound64(f, n)
    BY <1>2, Zenon DEF Sound64
  <2> HIDE DEF v
  <2> QED
    BY <2>1, <2>2, <2>3, Zenon DEF v
<1>3. ASSUME n \in DOMAIN f.bars
      PROVE  /\ BarOK(f.bars[n]) /\ Encoded(f, n)
             /\ f.bars[n].kind \in {"io", "mem", "mem64"}
  <2>1. BarOK(f.bars[n]) /\ Encoded(f, n)
    BY <1>3, Zenon DEF BarsOK
  <2> QED
    BY <2>1, Zenon DEF Encoded
<1>4. CASE n \in DOMAIN f.bars /\ f.bars[n].kind = "io"
  <2>1. /\ v \notin {0, Ones} /\ v % 2 = 1
        /\ v - (v % 4) = f.bars[n].addr
        /\ SizeOf(Written(f, n, Ones), 4, Word) = f.bars[n].len
    BY <1>1, <1>3, <1>4, BarIo, Zenon
  <2>2. Bars(f, n + 1) = Bars(f, n) \cup {Resource("IO", f.bars[n].addr, f.bars[n].len)}
    BY <1>1, <1>4, <2>1, BarsNext, Zenon
  <2>3. ~Sound64(f, n)
    BY Zenon, <1>4 DEF Sound64
  <2>4. v % 2 # 0
    BY <2>1
  <2> HIDE DEF v
  <2> QED
    BY <2>1, <2>2, <2>3, <2>4, Zenon DEF v
<1>5. CASE n \in DOMAIN f.bars /\ f.bars[n].kind = "mem"
  <2>1. /\ v # Ones /\ v % 2 = 0 /\ (v \div 2) % 4 # 2
        /\ v - (v % 16) = f.bars[n].addr
        /\ SizeOf(Written(f, n, Ones), 16, Word) = f.bars[n].len
    BY <1>1, <1>3, <1>5, BarMem32, Zenon
  <2>2. /\ v = 0 => Bars(f, n + 1) = Bars(f, n)
        /\ v # 0 => Bars(f, n + 1) = Bars(f, n) \cup
                       {Resource("MemoryMapped", f.bars[n].addr, f.bars[n].len)}
    <3>1. (IF f.bars[n].kind = "io" THEN "IO" ELSE "MemoryMapped") = "MemoryMapped"
      BY Zenon, <1>5
    <3> QED
      BY <1>1, <1>5, <3>1, BarsNext, Zenon
  <2>3. ~Sound64(f, n)
    BY Zenon, <1>5 DEF Sound64
  <2>4. v % 2 # 1
    BY <2>1
  <2> HIDE DEF v
  <2> QED
    BY <2>1, <2>2, <2>3, <2>4, Zenon DEF v
<1>6. CASE n \in DOMAIN f.bars /\ f.bars[n].kind = "mem64"
  <2> DEFINE high == Reg(f, n + 1).val
             mask == Written(f, n + 1, Ones) * Word + Written(f, n, Ones)
  <2>1. /\ v \notin {0, Ones} /\ v % 2 = 0 /\ (v \div 2) % 4 = 2
        /\ high * Word + v - (v % 16) = f.bars[n].addr
        /\ SizeOf(mask, 16, Word * Word) = f.bars[n].len
    BY <1>1, <1>3, <1>6, BarMem64, Zenon
  <2>2. n + 1 \notin DOMAIN f.bars
    BY Zenon, <1>3, <1>6 DEF Encoded
  <2>3. Bars(f, n + 1) = Bars(f, n) \cup
          {Resource("MemoryMapped", f.bars[n].addr, f.bars[n].len)}
    <3>1. (IF f.bars[n].kind = "io" THEN "IO" ELSE "MemoryMapped") = "MemoryMapped"
      BY Zenon, <1>6
    <3> QED
      BY <1>1, <1>6, <2>1, <3>1, BarsNext, Zenon
  <2>4. Bars(f, n + 2) = Bars(f, n + 1)
    <3>1. n + 1 \in Nat /\ (n + 1) + 1 = n + 2
      OBVIOUS
    <3>2. Bars(f, (n + 1) + 1) = Bars(f, n + 1)
      BY <1>1, <2>2, <3>1, BarsNext, Zenon
    <3> QED
      BY <3>1, <3>2, Zenon
  <2>5. ~Sound64(f, n + 1)
    BY <2>2, Zenon DEF Sound64
  <2>6. v % 2 # 1
    BY <2>1
  <2> HIDE DEF v, high, mask
  <2> QED
    BY <2>1, <2>3, <2>4, <2>5, <2>6, Zenon DEF v, high, mask
<1> QED
  BY <1>2, <1>3, <1>4, <1>5, <1>6, Zenon

-----------------------------------------------------------------------------
(* What the scan starts from: the MCFG and the registry under ACPI.        *)

(* A new entry.                                                            *)
LEMMA Appended ==
  ASSUME RegistryOK, NEW e, devices' = Append(devices, e)
  PROVE  /\ RegistryOK' /\ Len(devices) \in Nat /\ DOMAIN devices = 1 .. Len(devices)
         /\ DOMAIN devices' = 1 .. Len(devices) + 1
         /\ \A k \in DOMAIN devices : devices'[k] = devices[k]
         /\ devices'[Len(devices) + 1] = e
<1> DEFINE D == {devices[k] : k \in DOMAIN devices}
<1>1. devices \in Seq(D)
  BY Zenon DEF RegistryOK
<1> HIDE DEF D
<1>2. Len(devices) \in Nat /\ DOMAIN devices = 1 .. Len(devices)
  BY <1>1
<1>3. /\ DOMAIN devices' = 1 .. Len(devices) + 1
      /\ \A k \in DOMAIN devices : devices'[k] = devices[k]
      /\ devices'[Len(devices) + 1] = e
      /\ devices' \in Seq(D \cup {e})
  BY <1>1, <1>2
<1>4. devices' \in Seq({devices'[k] : k \in DOMAIN devices'})
  BY <1>3
<1> QED
  BY <1>2, <1>3, <1>4, Zenon DEF RegistryOK

(* The ranges are read within the table.                                   *)
LEMMA McfgKeeps ==
  ASSUME AcpiInv, McfgInv, InitAcpi
  PROVE  McfgInv'
<1>1. CASE McfgEntry
  <2>1. /\ apc = "MCFG" /\ off + AllocSize <= Table.len /\ off' = off + AllocSize
        /\ mcfgs' = Append(mcfgs, Table.allocs[(off - PrefixSize) \div AllocSize + 1])
    BY <1>1, Zenon DEF McfgEntry
  <2>2. /\ off \in Nat /\ off - PrefixSize \in Nat
        /\ (off - PrefixSize) % AllocSize = 0
    BY <2>1 DEF McfgInv, PrefixSize
  <2>3. PICK q \in Nat : /\ q = (off - PrefixSize) \div AllocSize
                         /\ off - PrefixSize = AllocSize * q
    <3> DEFINE x == off - PrefixSize
    <3>1. x \in Nat /\ x % AllocSize = 0 /\ AllocSize \in Nat \ {0}
      BY <2>2 DEF AllocSize
    <3> HIDE DEF x
    <3>2. x \div AllocSize \in Nat /\ x = AllocSize * (x \div AllocSize) + (x % AllocSize)
      BY <3>1, Quotient, Zenon
    <3>3. x = AllocSize * (x \div AllocSize)
      BY <3>1, <3>2 DEF AllocSize
    <3> QED
      BY <3>2, <3>3, Zenon DEF x
  <2>4. McfgOK(Table)
    <3>1. /\ fw \in Firmwares /\ Rsdps(fw) # {} /\ fw.mem[root] = Root(fw) /\ Sound(Root(fw))
          /\ entry \in 0 .. EntryCount(Root(fw)) /\ entry < EntryCount(Root(fw))
          /\ Table.sum /\ Table.sig = "MCFG"
      BY Zenon, <2>1 DEF AcpiInv
    <3>2. RootOK(fw)
      BY <3>1, FirmwaresOK, Zenon
    <3>3. EntryCount(Root(fw)) \in Nat
      BY Zenon, <3>2 DEF RootOK
    <3>4. entry + 1 \in 1 .. EntryCount(Root(fw))
      BY <3>1, <3>3
    <3>5. Table = Named(fw, entry + 1)
      BY <3>1, Zenon DEF Table, Named
    <3> QED
      BY <3>1, <3>2, <3>4, <3>5, Zenon DEF RootOK
  <2>5. off \in Int /\ off = PrefixSize + AllocSize * q
    BY <2>2, <2>3 DEF PrefixSize, AllocSize
  <2>6. q + 1 \in 1 .. Table.len /\ PrefixSize + AllocSize * (q + 1) <= Table.len
    <3>1. Table.len \in Nat
      BY <2>4, Zenon DEF McfgOK
    <3> QED
      BY <2>1, <2>5, <3>1 DEF PrefixSize, AllocSize
  <2>7. Table.allocs[q + 1] \in EcamRange
    BY <2>4, <2>6, Zenon DEF McfgOK
  <2>8. mcfgs' \in Seq(EcamRange)
    <3>1. mcfgs' = Append(mcfgs, Table.allocs[q + 1])
      BY <2>1, <2>3, Zenon
    <3>2. mcfgs \in Seq(EcamRange)
      BY Zenon DEF McfgInv
    <3> QED
      BY <2>7, <3>1, <3>2
  <2>9. off' \in Nat /\ PrefixSize <= off' /\ (off' - PrefixSize) % AllocSize = 0
    BY <2>1, <2>5 DEF PrefixSize, AllocSize
  <2> QED
    BY <2>8, <2>9, Zenon DEF McfgInv
<1>2. CASE TableInfo
  <2>1. mcfgs' = mcfgs /\ off' = PrefixSize
    BY <1>2, Zenon DEF TableInfo
  <2>2. off' \in Nat /\ PrefixSize <= off' /\ (off' - PrefixSize) % AllocSize = 0
    BY <2>1 DEF PrefixSize, AllocSize
  <2> QED
    BY <2>1, <2>2, Zenon DEF McfgInv
<1>3. CASE ~McfgEntry /\ ~TableInfo
  <2>1. mcfgs' = mcfgs
    BY <1>3, Zenon DEF InitAcpi, FindRsdp, ParseRoot, TablesDone, MadtEntry, MadtDone,
       ParseHpet, McfgDone, EnableAcpi, PollSci
  <2>2. apc' # "MCFG"
    BY Zenon, <1>3 DEF InitAcpi, FindRsdp, ParseRoot, TablesDone, MadtEntry, MadtDone,
       ParseHpet, McfgDone, EnableAcpi, PollSci, NextTable
  <2> QED
    BY <2>1, <2>2, Zenon DEF McfgInv
<1> QED
  BY <1>1, <1>2, <1>3, Zenon

(* What the parser registers has no vendor.                                *)
LEMMA AcpiRegisters ==
  ASSUME RegistryOK, AcpiListed, InitAcpi
  PROVE  RegistryOK' /\ AcpiListed'
<1>1. ASSUME NEW name, RegisterAcpi(name)
      PROVE  RegistryOK' /\ AcpiListed'
  <2> DEFINE e == [id |-> <<"ffff", name>>, resources |-> {}, capabilities |-> {}]
  <2>1. devices' = Append(devices, e)
    BY <1>1, Zenon DEF RegisterAcpi
  <2>2. e.id[1] = "ffff"
    BY Zenon
  <2> HIDE DEF e
  <2>3. /\ RegistryOK' /\ Len(devices) \in Nat /\ DOMAIN devices = 1 .. Len(devices)
        /\ DOMAIN devices' = 1 .. Len(devices) + 1
        /\ \A k \in DOMAIN devices : devices'[k] = devices[k]
        /\ devices'[Len(devices) + 1] = e
    BY <2>1, Appended, Zenon
  <2>4. \A k \in DOMAIN devices' : k \in DOMAIN devices \/ k = Len(devices) + 1
    BY <2>3
  <2> QED
    BY <2>2, <2>3, <2>4, Zenon DEF AcpiListed
<1>2. ASSUME devices' = devices
      PROVE  RegistryOK' /\ AcpiListed'
  BY <1>2, Zenon DEF RegistryOK, AcpiListed
<1>3. devices' = devices \/ \E name : RegisterAcpi(name)
  BY Zenon DEF InitAcpi, FindRsdp, ParseRoot, TableInfo, TablesDone, MadtEntry, TakeEntry,
     MadtDone, ParseHpet, McfgEntry, McfgDone, EnableAcpi, PollSci
<1> QED
  BY <1>1, <1>2, <1>3, Zenon

-----------------------------------------------------------------------------
(* The scan.                                                               *)

(* The scan stays at the function when it does not move on.                *)
LEMMA SameHere ==
  ASSUME mcfgs' = mcfgs, range' = range, bus' = bus, slot' = slot, func' = func
  PROVE  Here' = Here /\ First' = First
BY Zenon DEF Here, First, Alloc

(* Sizing a BAR puts back what it overwrote.                               *)
LEMMA SizingRestores ==
  ASSUME fw \in Firmwares, PciInv, SizeBar
  PROVE  regs' = regs /\ bar' \in Nat
<1>1. ppc = "bars" /\ bar < NBars /\ bar \in Nat /\ NBars \in Nat
  BY FunctionsOK, Zenon DEF SizeBar, SkipBar, SizeIo, SizeMem32, SizeMem64, PciInv
<1>2. Here \in DOMAIN fw.pci
  BY Zenon, <1>1 DEF PciInv
<1>3. regs = [a \in DOMAIN fw.pci |-> [k \in 0 .. NBars |-> Reg(fw.pci[a], k).val]]
  BY Zenon DEF PciInv, Reset
<1>4. ASSUME NEW k \in 0 .. NBars
      PROVE  Written(F, k, regs[Here][k]) = regs[Here][k]
  <2>1. regs[Here][k] = Reg(fw.pci[Here], k).val
    BY Zenon, <1>2, <1>3
  <2> QED
    BY <1>2, <2>1, WriteBack, Zenon DEF F
<1>5. [regs EXCEPT ![Here][bar] = regs[Here][bar]] = regs
  BY <1>3, Zenon
<1>6. bar \in 0 .. NBars /\ bar + 1 \in 0 .. NBars /\ bar + 1 \in Nat /\ bar + 2 \in Nat
  BY <1>1
<1>7. CASE SkipBar
  BY Zenon, <1>6, <1>7 DEF SkipBar
<1>8. CASE SizeIo
  <2>1. regs' = [regs EXCEPT ![Here][bar] = Written(F, bar, regs[Here][bar])]
    BY <1>8, Zenon DEF SizeIo, Orig
  <2> QED
    BY <1>4, <1>5, <1>6, <1>8, <2>1, Zenon DEF SizeIo
<1>9. CASE SizeMem32
  <2>1. regs' = [regs EXCEPT ![Here][bar] = Written(F, bar, regs[Here][bar])]
    BY <1>9, Zenon DEF SizeMem32, Orig
  <2> QED
    BY <1>4, <1>5, <1>6, <1>9, <2>1, Zenon DEF SizeMem32
<1>10. CASE SizeMem64
  <2>1. regs' = [regs EXCEPT ![Here][bar] = Written(F, bar, regs[Here][bar]),
                             ![Here][bar + 1] = Written(F, bar + 1, regs[Here][bar + 1])]
    BY <1>10, Zenon DEF SizeMem64, Orig
  <2>2. [regs EXCEPT ![Here][bar + 1] = regs[Here][bar + 1]] = regs
    BY <1>3, Zenon
  <2>3. /\ Written(F, bar, regs[Here][bar]) = regs[Here][bar]
        /\ Written(F, bar + 1, regs[Here][bar + 1]) = regs[Here][bar + 1]
    BY <1>4, <1>6, Zenon
  <2>4. bar' \in Nat
    BY Zenon, <1>6, <1>10 DEF SizeMem64
  <2> QED
    BY Zenon, <1>5, <2>1, <2>2, <2>3, <2>4
<1> QED
  BY Zenon, <1>7, <1>8, <1>9, <1>10 DEF SizeBar

(* A step of the scan keeps its invariant.                                 *)
LEMMA ScanPciInv ==
  ASSUME fw \in Firmwares, PciInv, ScanPci, fw' = fw, mcfgs' = mcfgs
  PROVE  PciInv'
<1>1. CASE \/ StartScan \/ LegacyScan \/ EnterRange \/ LeaveRange \/ NextBus
           \/ ProbeSlot \/ LeaveSlot \/ InterruptLine \/ CapStep \/ RegisterFunction
  <2>1. regs' = regs /\ bar' = bar /\ ppc' # "bars"
    BY <1>1, Zenon DEF StartScan, LegacyScan, EnterRange, LeaveRange, NextBus, ProbeSlot,
       LeaveSlot, InterruptLine, CapStep, RegisterFunction, found
  <2> QED
    BY Zenon, <2>1 DEF PciInv, Reset
<1>2. CASE ProbeFunc
  <2>1. regs' = regs /\ bar' = 0
    BY Zenon, <1>2 DEF ProbeFunc
  <2>2. ppc' = "bars" => /\ Here \in DOMAIN fw.pci
                         /\ range' = range /\ bus' = bus /\ slot' = slot /\ func' = func
    BY Zenon, <1>2 DEF ProbeFunc
  <2>3. ppc' = "bars" => Here' \in DOMAIN fw.pci
    BY <2>2, SameHere, Zenon
  <2> QED
    BY Zenon, <2>1, <2>3 DEF PciInv, Reset
<1>3. CASE SizeBar
  <2>1. regs' = regs /\ bar' \in Nat
    BY Zenon, <1>3, SizingRestores
  <2>2. range' = range /\ bus' = bus /\ slot' = slot /\ func' = func /\ ppc' = ppc
    BY Zenon, <1>3 DEF SizeBar
  <2>3. Here' = Here
    BY <2>2, SameHere, Zenon
  <2> QED
    BY Zenon, <2>1, <2>2, <2>3 DEF PciInv, Reset
<1> QED
  BY <1>1, <1>2, <1>3, Zenon DEF ScanPci

(* What the assumptions say of a function.                                 *)
LEMMA Layout ==
  ASSUME fw \in Firmwares, NEW a \in DOMAIN fw.pci
  PROVE  /\ BarsOK(fw.pci[a]) /\ CapsOK(fw.pci[a]) /\ fw.pci[a].id[1] # "ffff"
         /\ a \in Nat \X Nat \X (0 .. NSlots - 1) \X (0 .. NFuncs - 1)
BY FunctionsOK, LayoutOK, Zenon DEF BarsOK

(* Sizing a register that is not the upper half of another finds what it   *)
(* describes.                                                              *)
LEMMA SizingFinds ==
  ASSUME fw \in Firmwares, PciInv, BarsInv, SizeBar, fw' = fw, mcfgs' = mcfgs
  PROVE  BarsInv'
<1>1. /\ ppc = "bars" /\ bar < NBars /\ bar \in Nat /\ NBars \in Nat
      /\ capabilities' = capabilities /\ caps_searched' = caps_searched
      /\ range' = range /\ bus' = bus /\ slot' = slot /\ func' = func
  BY FunctionsOK, Zenon DEF SizeBar, SkipBar, SizeIo, SizeMem32, SizeMem64, PciInv
<1>2. Here \in DOMAIN fw.pci /\ Here' = Here /\ F' = F
  BY <1>1, SameHere, Zenon DEF PciInv, F
<1>3. capabilities' = {} /\ caps_searched' = 0
  BY <1>1, Zenon DEF BarsInv
<1>4. SUFFICES ASSUME DOMAIN F.windows = {}
               PROVE  resources' = Bars(F, bar') /\ ~Sound64(F, bar' - 1)
  <2>1. DOMAIN F'.windows = {} => resources' = Bars(F', bar') /\ ~Sound64(F', bar' - 1)
    BY <1>2, <1>4, Zenon
  <2> QED
    BY <1>3, <2>1, Zenon DEF BarsInv, Sound64, Bars
<1>5. resources = Bars(F, bar) /\ ~Sound64(F, bar - 1)
  BY <1>1, <1>4, Zenon DEF BarsInv, Sound64
<1>6. BarsOK(F)
  BY <1>2, Layout, Zenon DEF F
<1> DEFINE v == Reg(F, bar).val
           high == Reg(F, bar + 1).val
<1>7. Orig = v /\ regs[Here][bar + 1] = high
  <2>1. bar \in 0 .. NBars /\ bar + 1 \in 0 .. NBars
    BY <1>1
  <2>2. regs[Here] = Reset(F)
    BY <1>2, Zenon DEF PciInv, F
  <2>3. \A k \in 0 .. NBars : Reset(F)[k] = Reg(F, k).val
    BY Zenon DEF Reset
  <2> QED
    BY <2>1, <2>2, <2>3, Zenon DEF Orig
<1>8. (bar + 1) - 1 = bar /\ (bar + 2) - 1 = bar + 1
  BY <1>1
<1> HIDE DEF v, high
<1>9. CASE SkipBar
  <2>1. v \in {0, Ones} /\ bar' = bar + 1 /\ resources' = resources
    BY <1>7, <1>9, Zenon DEF SkipBar
  <2>2. Bars(F, bar + 1) = Bars(F, bar) /\ ~Sound64(F, bar)
    BY <1>1, <1>4, <1>5, <1>6, <2>1, Sizing, Zenon DEF v
  <2> QED
    BY <1>5, <1>8, <2>1, <2>2, Zenon
<1>10. CASE SizeIo
  <2> DEFINE r == Resource("IO", v - (v % 4), SizeOf(Written(F, bar, Ones), 4, Word))
  <2>1. /\ v \notin {0, Ones} /\ v % 2 = 1 /\ bar' = bar + 1
        /\ resources' = resources \cup {r}
    BY <1>7, <1>10, Zenon DEF SizeIo, MaskOf
  <2>2. Bars(F, bar + 1) = Bars(F, bar) \cup {r} /\ ~Sound64(F, bar)
    BY <1>1, <1>4, <1>5, <1>6, <2>1, Sizing, Zenon DEF v
  <2> HIDE DEF r
  <2> QED
    BY <1>5, <1>8, <2>1, <2>2, Zenon
<1>11. CASE SizeMem32
  <2> DEFINE r == Resource("MemoryMapped", v - (v % 16),
                           SizeOf(Written(F, bar, Ones), 16, Word))
  <2>1. /\ v \notin {0, Ones} /\ v % 2 = 0 /\ (v \div 2) % 4 # 2 /\ bar' = bar + 1
        /\ resources' = resources \cup {r}
    BY <1>7, <1>11, Zenon DEF SizeMem32, MaskOf, Is64
  <2>2. Bars(F, bar + 1) = Bars(F, bar) \cup {r} /\ ~Sound64(F, bar)
    BY <1>1, <1>4, <1>5, <1>6, <2>1, Sizing, Zenon DEF v
  <2> HIDE DEF r
  <2> QED
    BY <1>5, <1>8, <2>1, <2>2, Zenon
<1>12. CASE SizeMem64
  <2> DEFINE r == Resource("MemoryMapped", high * Word + v - (v % 16),
                    SizeOf(Written(F, bar + 1, Ones) * Word + Written(F, bar, Ones), 16,
                           Word * Word))
  <2>1. /\ v \notin {0, Ones} /\ v % 2 = 0 /\ (v \div 2) % 4 = 2 /\ bar' = bar + 2
        /\ resources' = resources \cup {r}
    BY <1>7, <1>12, Zenon DEF SizeMem64, MaskOf, Is64
  <2>2. Bars(F, bar + 2) = Bars(F, bar) \cup {r} /\ ~Sound64(F, bar + 1)
    BY <1>1, <1>4, <1>5, <1>6, <2>1, Sizing, Zenon DEF v, high
  <2> HIDE DEF r
  <2> QED
    BY <1>5, <1>8, <2>1, <2>2, Zenon
<1> QED
  BY <1>9, <1>10, <1>11, <1>12, Zenon DEF SizeBar

-----------------------------------------------------------------------------
(* The walk of a function's capabilities.                                  *)

(* The chain of a function holds its first pointer's target, is closed     *)
(* under `next`, and is the least such set.                                *)
LEMMA ChainLeast ==
  ASSUME NEW f, CapsOK(f)
  PROVE  /\ Chain(f) \subseteq DOMAIN f.caps
         /\ Target(f.cap_ptr) \subseteq Chain(f)
         /\ \A p \in Chain(f) : Target(f.caps[p].next) \subseteq Chain(f)
         /\ \A S \in SUBSET DOMAIN f.caps :
              Target(f.cap_ptr) \subseteq S /\ (\A q \in S : Target(f.caps[q].next) \subseteq S)
              => Chain(f) \subseteq S
<1>1. /\ Target(f.cap_ptr) \subseteq DOMAIN f.caps
      /\ \A p \in DOMAIN f.caps : Target(f.caps[p].next) \subseteq DOMAIN f.caps
  BY Zenon DEF CapsOK
<1>2. Chain(f) \subseteq DOMAIN f.caps
  BY Zenon DEF Chain
<1>3. Target(f.cap_ptr) \subseteq Chain(f)
  BY <1>1, Zenon DEF Chain
<1>4. \A p \in Chain(f) : Target(f.caps[p].next) \subseteq Chain(f)
  <2> SUFFICES ASSUME NEW p \in Chain(f), NEW t \in Target(f.caps[p].next)
               PROVE  t \in Chain(f)
    BY Zenon
  <2>1. t \in DOMAIN f.caps
    BY <1>1, <1>2, Zenon
  <2>2. ASSUME NEW S \in SUBSET DOMAIN f.caps, Target(f.cap_ptr) \subseteq S,
               \A q \in S : Target(f.caps[q].next) \subseteq S
        PROVE  t \in S
    <3>1. p \in S
      BY <2>2, Zenon DEF Chain
    <3> QED
      BY <2>2, <3>1, Zenon
  <2> QED
    BY <2>1, <2>2, Zenon DEF Chain
<1>5. \A S \in SUBSET DOMAIN f.caps :
        Target(f.cap_ptr) \subseteq S /\ (\A q \in S : Target(f.caps[q].next) \subseteq S)
        => Chain(f) \subseteq S
  BY Zenon DEF Chain
<1> QED
  BY <1>2, <1>3, <1>4, <1>5, Zenon

(* A walk that goes on has seen one more.                                  *)
LEMMA WalkGoesOn ==
  ASSUME NEW f, CapsOK(f), NEW V, NEW p, NEW ptr, NEW n \in Nat,
         Walked(f, V, ptr, n), Target(ptr) = {p}
  PROVE  p \in DOMAIN f.caps /\ Walked(f, V \cup {p}, f.caps[p].next, n + 1)
<1> DEFINE W == V \cup {p}
           t == f.caps[p].next
<1>1. p \in Chain(f) /\ p \in DOMAIN f.caps /\ V \subseteq Chain(f)
  BY ChainLeast, Zenon DEF Walked
<1>2. W \subseteq Chain(f) /\ Target(t) \subseteq Chain(f)
  BY <1>1, ChainLeast, Zenon
<1>3. /\ Target(f.cap_ptr) \subseteq W \cup Target(t)
      /\ \A q \in W : Target(f.caps[q].next) \subseteq W \cup Target(t)
  BY Zenon DEF Walked
<1>4. CASE p \in V
  <2>1. Target(t) \subseteq W
    BY <1>4, Zenon DEF Walked
  <2> QED
    BY <1>1, <1>2, <1>3, <2>1, Zenon DEF Walked
<1>5. CASE p \notin V
  <2>1. Cardinality(V) = n
    BY <1>5, Zenon DEF Walked
  <2>2. IsFiniteSet(V)
    BY <1>1, ChainLeast, FS_Subset, Zenon DEF CapsOK
  <2>3. Cardinality(W) = Cardinality(V) + 1
    BY <1>5, <2>2, FS_AddElement, Zenon
  <2>4. Cardinality(W) = n + 1
    BY <2>1, <2>3, Zenon
  <2> QED
    BY <1>1, <1>2, <1>3, <2>4, Zenon DEF Walked
<1> QED
  BY <1>4, <1>5, Zenon

(* One that ends has seen them all.                                        *)
LEMMA WalkHasAll ==
  ASSUME NEW f, CapsOK(f), NEW V, NEW ptr, NEW n \in Nat, Walked(f, V, ptr, n),
         ptr = 0 \/ n >= MaxCaps
  PROVE  V = Chain(f)
<1>1. V \subseteq Chain(f) /\ Chain(f) \subseteq DOMAIN f.caps
  BY ChainLeast, Zenon DEF Walked
<1>2. CASE Target(ptr) \subseteq V
  <2>1. Target(f.cap_ptr) \subseteq V /\ \A q \in V : Target(f.caps[q].next) \subseteq V
    BY <1>2, Zenon DEF Walked
  <2> QED
    BY <1>1, <2>1, ChainLeast, Zenon
<1>3. CASE ~(Target(ptr) \subseteq V)
  <2>1. Cardinality(V) = n
    BY <1>3, Zenon DEF Walked
  <2>2. ptr # 0
    BY <1>3, Zenon DEF Target
  <2>3. n >= MaxCaps
    BY Zenon, <2>2
  <2>4. /\ IsFiniteSet(DOMAIN f.caps) /\ Cardinality(DOMAIN f.caps) <= MaxCaps
        /\ V \subseteq DOMAIN f.caps
    BY <1>1, Zenon DEF CapsOK
  <2>5. Cardinality(V) <= Cardinality(DOMAIN f.caps) /\ Cardinality(DOMAIN f.caps) \in Nat
    BY <2>4, FS_Subset, FS_CardinalityType, Zenon
  <2>6. Cardinality(V) = Cardinality(DOMAIN f.caps)
    BY <2>1, <2>3, <2>4, <2>5, LayoutOK
  <2>7. V = DOMAIN f.caps
    BY <2>4, <2>6, FS_Subset, Zenon
  <2> QED
    BY <1>1, <2>7, Zenon
<1> QED
  BY <1>2, <1>3, Zenon

LEMMA KindsMore ==
  ASSUME NEW f, NEW V, NEW p
  PROVE  /\ Kinds(f, V \cup {p}) = Kinds(f, V) \cup {f.caps[p].kind}
         /\ Messages(Kinds(f, V) \cup {f.caps[p].kind}) =
              Messages(Kinds(f, V)) \cup
                IF f.caps[p].kind \in {"Msi", "Msix"} THEN {Resource(f.caps[p].kind, 0, 0)}
                ELSE {}
<1>1. Kinds(f, V \cup {p}) = Kinds(f, V) \cup {f.caps[p].kind}
  BY Zenon DEF Kinds
<1>2. ASSUME NEW K, NEW k
      PROVE  Messages(K \cup {k}) =
               Messages(K) \cup IF k \in {"Msi", "Msix"} THEN {Resource(k, 0, 0)} ELSE {}
  <2> DEFINE M == {"Msi", "Msix"}
  <2> HIDE DEF M
  <2>1. CASE k \in M
    <3>1. (K \cup {k}) \cap M = (K \cap M) \cup {k}
      BY <2>1, Zenon
    <3>2. Messages(K \cup {k}) = Messages(K) \cup {Resource(k, 0, 0)}
      BY <3>1, Zenon DEF Messages, M
    <3> QED
      BY <2>1, <3>2, Zenon DEF M
  <2>2. CASE k \notin M
    <3>1. (K \cup {k}) \cap M = K \cap M
      BY <2>2, Zenon
    <3>2. Messages(K \cup {k}) = Messages(K)
      BY <3>1, Zenon DEF Messages, M
    <3> QED
      BY <2>2, <3>2, Zenon DEF M
  <2> QED
    BY <2>1, <2>2, Zenon
<1> QED
  BY <1>1, <1>2, Zenon

(* The walk begins with nothing seen.                                      *)
LEMMA WalkBegins ==
  ASSUME fw \in Firmwares, PciInv, BarsInv, InterruptLine, fw' = fw, mcfgs' = mcfgs
  PROVE  CapsInv'
<1>1. /\ ppc = "bars" /\ bar >= NBars /\ bar \in Nat /\ NBars \in Nat
      /\ capabilities' = {} /\ caps_searched' = 0
      /\ range' = range /\ bus' = bus /\ slot' = slot /\ func' = func
  BY FunctionsOK, Zenon DEF InterruptLine, PciInv, BarsInv
<1>2. Here \in DOMAIN fw.pci /\ Here' = Here /\ F' = F
  BY <1>1, SameHere, Zenon DEF PciInv, F
<1>3. SUFFICES ASSUME Here[1] = 0
               PROVE  /\ Walked(F, {}, cap_ptr', caps_searched')
                      /\ DOMAIN F.windows = {} =>
                           resources' = Bars(F, NBars) \cup Line(F) \cup Messages(Kinds(F, {}))
                      /\ capabilities' = Kinds(F, {}) \ {"Msi", "Msix"}
  <2>1. caps_searched' \in Nat /\ {} \in SUBSET DOMAIN F.caps
    BY Zenon, <1>1
  <2>2. ASSUME Here'[1] = 0
        PROVE  /\ Walked(F', {}, cap_ptr', caps_searched')
               /\ DOMAIN F'.windows = {} =>
                    resources' = Bars(F', NBars) \cup Line(F') \cup Messages(Kinds(F', {}))
               /\ capabilities' = Kinds(F', {}) \ {"Msi", "Msix"}
               /\ {} \in SUBSET DOMAIN F'.caps
    BY <1>2, <1>3, <2>1, <2>2, Zenon
  <2> QED
    BY <2>1, <2>2, Zenon DEF CapsInv
<1>4. PortHere = Here
  BY Zenon, <1>3 DEF PortHere, Here
<1>5. cap_ptr' = F.cap_ptr
  BY <1>2, <1>4, Zenon DEF InterruptLine, F
<1>6. CapsOK(F) /\ BarsOK(F)
  BY <1>2, Layout, Zenon DEF F
<1>7. Walked(F, {}, cap_ptr', caps_searched')
  <2>1. Cardinality({}) = 0
    BY FS_EmptySet, Zenon
  <2>2. Target(F.cap_ptr) \subseteq Chain(F)
    BY <1>6, ChainLeast, Zenon
  <2> QED
    BY <1>1, <1>5, <2>1, <2>2, Zenon DEF Walked
<1>8. Kinds(F, {}) = {} /\ Messages({}) = {}
  BY Zenon DEF Kinds, Messages
<1>9. ASSUME DOMAIN F.windows = {}
      PROVE  resources' = Bars(F, NBars) \cup Line(F)
  <2>1. resources = Bars(F, bar)
    BY <1>1, <1>9, Zenon DEF BarsInv
  <2>2. \A j \in DOMAIN F.bars : j < NBars /\ j < bar
    BY <1>1, <1>6 DEF BarsOK
  <2>3. {j \in DOMAIN F.bars : j < NBars /\ Reg(F, j).val # 0} =
          {j \in DOMAIN F.bars : j < bar /\ Reg(F, j).val # 0}
    BY <2>2, Zenon
  <2>4. Bars(F, NBars) = Bars(F, bar)
    BY <2>3, Zenon DEF Bars
  <2>5. resources' = resources \cup Line(F)
    BY Zenon DEF InterruptLine, Line
  <2> QED
    BY <2>1, <2>4, <2>5, Zenon
<1> QED
  BY <1>1, <1>7, <1>8, <1>9, Zenon

(* It goes from capability to capability.                                  *)
LEMMA WalkMoves ==
  ASSUME fw \in Firmwares, PlaceInv, CapsInv, CapStep, fw' = fw, mcfgs' = mcfgs
  PROVE  CapsInv'
<1>1. /\ ppc = "caps" /\ cap_ptr # 0 /\ caps_searched' = caps_searched + 1
      /\ range' = range /\ bus' = bus /\ slot' = slot /\ func' = func
  BY Zenon DEF CapStep
<1>2. Here \in DOMAIN fw.pci /\ Here' = Here /\ F' = F
  BY <1>1, SameHere, Zenon DEF PlaceInv, F
<1>3. SUFFICES ASSUME Here[1] = 0
               PROVE  /\ caps_searched' \in Nat
                      /\ \E W \in SUBSET DOMAIN F.caps :
                           /\ Walked(F, W, cap_ptr', caps_searched')
                           /\ DOMAIN F.windows = {} =>
                                resources' = Bars(F, NBars) \cup Line(F)
                                               \cup Messages(Kinds(F, W))
                           /\ capabilities' = Kinds(F, W) \ {"Msi", "Msix"}
  <2>1. ASSUME Here'[1] = 0
        PROVE  /\ caps_searched' \in Nat
               /\ \E W \in SUBSET DOMAIN F'.caps :
                    /\ Walked(F', W, cap_ptr', caps_searched')
                    /\ DOMAIN F'.windows = {} =>
                         resources' = Bars(F', NBars) \cup Line(F')
                                        \cup Messages(Kinds(F', W))
                    /\ capabilities' = Kinds(F', W) \ {"Msi", "Msix"}
    BY <1>2, <1>3, <2>1, Zenon
  <2> QED
    BY <2>1, Zenon DEF CapsInv
<1>4. caps_searched \in Nat
  BY <1>1, <1>3, Zenon DEF CapsInv
<1>5. PICK V \in SUBSET DOMAIN F.caps :
        /\ Walked(F, V, cap_ptr, caps_searched)
        /\ DOMAIN F.windows = {} =>
             resources = Bars(F, NBars) \cup Line(F) \cup Messages(Kinds(F, V))
        /\ capabilities = Kinds(F, V) \ {"Msi", "Msix"}
  BY <1>1, <1>3, Zenon DEF CapsInv
<1>6. CapsOK(F)
  BY <1>2, Layout, Zenon DEF F
<1>7. PICK p : p = cap_ptr - (cap_ptr % 4)
  BY Zenon
<1>8. Target(cap_ptr) = {p}
  BY <1>1, <1>7, Zenon DEF Target
<1>9. p \in DOMAIN F.caps /\ Walked(F, V \cup {p}, F.caps[p].next, caps_searched + 1)
  BY <1>4, <1>5, <1>6, <1>8, WalkGoesOn, Zenon
<1>10. PortHere = Here
  BY Zenon, <1>3 DEF PortHere, Here
<1>11. Cap(cap_ptr) = F.caps[p]
  BY <1>2, <1>7, <1>9, <1>10, Zenon DEF Cap, F
<1> DEFINE k == F.caps[p].kind
           M == {"Msi", "Msix"}
<1>12. /\ cap_ptr' = F.caps[p].next
       /\ resources' = resources \cup IF k \in M THEN {Resource(k, 0, 0)} ELSE {}
       /\ capabilities' = capabilities \cup IF k \in M THEN {} ELSE {k}
  BY <1>11, Zenon DEF CapStep
<1>13. /\ Kinds(F, V \cup {p}) = Kinds(F, V) \cup {k}
       /\ Messages(Kinds(F, V) \cup {k}) =
            Messages(Kinds(F, V)) \cup IF k \in M THEN {Resource(k, 0, 0)} ELSE {}
  BY KindsMore, Zenon
<1> HIDE DEF k, M
<1>14. Walked(F, V \cup {p}, cap_ptr', caps_searched') /\ V \cup {p} \in SUBSET DOMAIN F.caps
  BY <1>1, <1>9, <1>12, Zenon
<1>15. DOMAIN F.windows = {} =>
         resources' = Bars(F, NBars) \cup Line(F) \cup Messages(Kinds(F, V \cup {p}))
  BY <1>5, <1>12, <1>13, Zenon
<1>16. capabilities' = Kinds(F, V \cup {p}) \ M
  <2>1. capabilities = Kinds(F, V) \ M
    BY <1>5, Zenon DEF M
  <2>2. CASE k \in M
    <3>1. (IF k \in M THEN {} ELSE {k}) = {}
      BY <2>2, Zenon
    <3> QED
      BY <1>12, <1>13, <2>1, <2>2, <3>1, Zenon
  <2>3. CASE k \notin M
    <3>1. (IF k \in M THEN {} ELSE {k}) = {k}
      BY <2>3, Zenon
    <3> QED
      BY <1>12, <1>13, <2>1, <2>3, <3>1, Zenon
  <2> QED
    BY <2>2, <2>3, Zenon
<1>17. caps_searched' \in Nat
  BY <1>1, <1>4
<1> QED
  BY <1>14, <1>15, <1>16, <1>17, Zenon DEF M

-----------------------------------------------------------------------------
(* The loops.                                                              *)

(* The ranges.                                                             *)
LEMMA Ranges ==
  ASSUME mcfgs \in Seq(EcamRange)
  PROVE  /\ Len(mcfgs) \in Nat /\ DOMAIN mcfgs = 1 .. Len(mcfgs)
         /\ \A k \in 1 .. Len(mcfgs) :
              mcfgs[k].seg \in Nat /\ mcfgs[k].start_bus \in Nat /\ mcfgs[k].end_bus \in Nat
<1>1. Len(mcfgs) \in Nat /\ DOMAIN mcfgs = 1 .. Len(mcfgs)
  OBVIOUS
<1>2. \A k \in 1 .. Len(mcfgs) : mcfgs[k] \in EcamRange
  OBVIOUS
<1> QED
  BY Zenon, <1>1, <1>2 DEF EcamRange

LEMMA FuncsOfSlot == MaxFuncs \in Nat \ {0}
BY LayoutOK DEF MaxFuncs

(* The scan stays within its loops.                                        *)
LEMMA PlaceKept ==
  ASSUME fw \in Firmwares, mcfgs \in Seq(EcamRange), PlaceInv, ScanPci,
         fw' = fw, mcfgs' = mcfgs
  PROVE  PlaceInv'
<1>1. /\ Len(mcfgs) \in Nat
      /\ \A k \in 1 .. Len(mcfgs) :
           mcfgs[k].seg \in Nat /\ mcfgs[k].start_bus \in Nat /\ mcfgs[k].end_bus \in Nat
  BY Zenon, Ranges
<1>2. NSlots \in Nat \ {0} /\ NFuncs \in Nat \ {0} /\ MaxFuncs \in Nat \ {0}
  BY Zenon, LayoutOK, FuncsOfSlot
<1>3. range \in Nat \ {0} /\ bus \in Nat /\ slot \in Nat /\ func \in Nat
  BY Zenon DEF PlaceInv
<1>4. CASE StartScan \/ LegacyScan
  <2>1. /\ ppc = "start" /\ range = 1 /\ bus = 0 /\ slot = 0 /\ func = 0
        /\ range' = range /\ bus' = bus /\ slot' = slot /\ func' = func
        /\ ppc' = "range" \/ (ppc' = "done" /\ mcfgs = <<>>)
    BY <1>4, Zenon DEF StartScan, LegacyScan, PlaceInv
  <2>2. mcfgs = <<>> => Len(mcfgs) < range
    BY <2>1
  <2> QED
    BY Zenon, <1>3, <2>1, <2>2 DEF PlaceInv
<1>5. CASE EnterRange
  <2>1. bus = 0 /\ slot = 0 /\ func = 0 /\ range' = range /\ slot' = slot /\ func' = func
    BY <1>5, Zenon DEF EnterRange, PlaceInv
  <2>2. CASE range > Len(mcfgs) /\ ppc' = "done" /\ bus' = bus
    BY Zenon, <1>3, <2>1, <2>2 DEF PlaceInv
  <2>3. CASE range <= Len(mcfgs) /\ ppc' = "slot" /\ bus' = Alloc.start_bus
    <3>1. Alloc' = Alloc /\ Alloc.start_bus \in Nat
      BY <1>1, <1>3, <2>1, <2>3 DEF Alloc
    <3> QED
      BY <1>2, <1>3, <2>1, <2>3, <3>1 DEF PlaceInv
  <2> QED
    BY Zenon, <1>5, <2>2, <2>3 DEF EnterRange
<1>6. CASE LeaveRange
  BY <1>1, <1>3, <1>6 DEF PlaceInv, LeaveRange
<1>7. CASE NextBus
  <2>1. Alloc' = Alloc
    BY Zenon, <1>7 DEF NextBus, Alloc
  <2>2. Alloc.start_bus \in Nat
    BY <1>1, <1>3, <1>7 DEF NextBus, PlaceInv, Alloc
  <2> QED
    BY <1>2, <1>3, <1>7, <2>1, <2>2 DEF PlaceInv, NextBus
<1>8. CASE ProbeSlot
  <2>1. Alloc' = Alloc
    BY Zenon, <1>8 DEF ProbeSlot, Alloc
  <2>2. CASE First \in DOMAIN fw.pci
    <3>1. slot' = slot /\ ppc' = "func" /\ range' = range /\ bus' = bus /\ func' = func
      BY Zenon, <1>8, <2>2 DEF ProbeSlot
    <3>2. First' = First /\ MaxFuncs' = MaxFuncs
      BY <3>1, SameHere, Zenon DEF MaxFuncs
    <3> QED
      BY <1>2, <1>3, <1>8, <2>1, <2>2, <3>1, <3>2 DEF PlaceInv, ProbeSlot
  <2>3. CASE First \notin DOMAIN fw.pci
    BY <1>2, <1>3, <1>8, <2>1, <2>3 DEF PlaceInv, ProbeSlot
  <2> QED
    BY <2>2, <2>3, Zenon
<1>9. CASE LeaveSlot
  <2>1. Alloc' = Alloc
    BY Zenon, <1>9 DEF LeaveSlot, Alloc
  <2> QED
    BY <1>2, <1>3, <1>9, <2>1 DEF PlaceInv, LeaveSlot
<1>10. CASE ProbeFunc
  <2>1. Alloc' = Alloc /\ range' = range /\ bus' = bus /\ slot' = slot
    BY Zenon, <1>10 DEF ProbeFunc, Alloc
  <2>2. First' = First /\ MaxFuncs' = MaxFuncs
    <3>1. First' = First
      BY <2>1, Zenon DEF First
    <3> QED
      BY <3>1, Zenon DEF MaxFuncs
  <2>3. CASE Here \in DOMAIN fw.pci
    <3>1. func' = func /\ ppc' = "bars"
      BY Zenon, <1>10, <2>3 DEF ProbeFunc
    <3>2. Here' = Here
      BY <2>1, <3>1, SameHere, Zenon
    <3> QED
      BY Zenon, <1>2, <1>3, <1>10, <2>1, <2>2, <2>3, <3>1, <3>2 DEF PlaceInv, ProbeFunc
  <2>4. CASE Here \notin DOMAIN fw.pci
    BY <1>2, <1>3, <1>10, <2>1, <2>2, <2>4 DEF PlaceInv, ProbeFunc
  <2> QED
    BY <2>3, <2>4, Zenon
<1>11. CASE SizeBar \/ InterruptLine \/ CapStep
  <2>1. /\ range' = range /\ bus' = bus /\ slot' = slot /\ func' = func
        /\ ppc \in {"bars", "caps"} /\ ppc' \in {"bars", "caps"}
    BY Zenon, <1>11 DEF SizeBar, SkipBar, SizeIo, SizeMem32, SizeMem64, InterruptLine, CapStep
  <2>2. Here' = Here /\ First' = First /\ MaxFuncs' = MaxFuncs /\ Alloc' = Alloc
    BY <2>1, SameHere, Zenon DEF MaxFuncs, Alloc
  <2> QED
    BY Zenon, <1>3, <2>1, <2>2 DEF PlaceInv
<1>12. CASE RegisterFunction
  <2>1. /\ Alloc' = Alloc /\ range' = range /\ bus' = bus /\ slot' = slot
        /\ func' = func + 1 /\ ppc = "caps" /\ ppc' = "func"
    BY Zenon, <1>12 DEF RegisterFunction, Alloc
  <2>2. First' = First
    BY <2>1, Zenon DEF First
  <2>3. MaxFuncs' = MaxFuncs
    BY <2>2, Zenon DEF MaxFuncs
  <2> QED
    BY <1>2, <1>3, <2>1, <2>2, <2>3 DEF PlaceInv
<1> QED
  BY <1>4, <1>5, <1>6, <1>7, <1>8, <1>9, <1>10, <1>11, <1>12, Zenon DEF ScanPci

(* An address, and what the scan can see of a slot.                        *)
LEMMA Address ==
  ASSUME fw \in Firmwares, NEW a \in Seen
  PROVE  /\ a \in DOMAIN fw.pci
         /\ a[1] \in Nat /\ a[2] \in Nat /\ a[3] \in Nat /\ a[4] \in Nat
         /\ a[3] < NSlots /\ a[4] < NFuncs
         /\ a = <<a[1], a[2], a[3], a[4]>>
         /\ <<a[1], a[2], a[3], 0>> \in DOMAIN fw.pci
         /\ a[4] = 0 \/ fw.pci[<<a[1], a[2], a[3], 0>>].multifunction
<1>1. a \in DOMAIN fw.pci
  BY Zenon DEF Seen
<1>2. a \in Nat \X Nat \X (0 .. NSlots - 1) \X (0 .. NFuncs - 1)
  BY <1>1, Layout, Zenon
<1>3. NSlots \in Nat /\ NFuncs \in Nat
  BY Zenon, LayoutOK
<1>4. /\ a[1] \in Nat /\ a[2] \in Nat /\ a[3] \in Nat /\ a[4] \in Nat
      /\ a[3] < NSlots /\ a[4] < NFuncs
      /\ a = <<a[1], a[2], a[3], a[4]>>
  BY <1>2, <1>3
<1>5. a[4] = 0 => a = <<a[1], a[2], a[3], 0>>
  BY <1>4, Zenon
<1>6. \/ a[4] = 0
      \/ /\ <<a[1], a[2], a[3], 0>> \in DOMAIN fw.pci
         /\ fw.pci[<<a[1], a[2], a[3], 0>>].multifunction
  BY Zenon DEF Seen
<1> QED
  BY <1>1, <1>4, <1>5, <1>6, Zenon

(* What is behind the scan changes only when it passes a function.         *)
LEMMA BehindStep ==
  ASSUME fw \in Firmwares, mcfgs \in Seq(EcamRange), PlaceInv, ScanPci,
         fw' = fw, mcfgs' = mcfgs,
         NEW a \in Seen, NEW k \in DOMAIN mcfgs, InRange(a, k)
  PROVE  Behind(a, k)' <=> Behind(a, k) \/ (RegisterFunction /\ k = range /\ a = Here)
<1>1. /\ Len(mcfgs) \in Nat /\ k \in 1 .. Len(mcfgs)
      /\ mcfgs[k].seg \in Nat /\ mcfgs[k].start_bus \in Nat /\ mcfgs[k].end_bus \in Nat
  BY Zenon, Ranges
<1>2. NSlots \in Nat \ {0} /\ NFuncs \in Nat \ {0} /\ MaxFuncs \in Nat \ {0}
  BY Zenon, LayoutOK, FuncsOfSlot
<1>3. range \in Nat \ {0} /\ bus \in Nat /\ slot \in Nat /\ func \in Nat
  BY Zenon DEF PlaceInv
<1>4. PICK a1 \in Nat, a2 \in Nat, a3 \in Nat, a4 \in Nat :
        a = <<a1, a2, a3, a4>> /\ a1 = a[1] /\ a2 = a[2] /\ a3 = a[3] /\ a4 = a[4]
  BY Address, Zenon
<1>5. /\ a \in DOMAIN fw.pci /\ <<a1, a2, a3, 0>> \in DOMAIN fw.pci
      /\ a4 = 0 \/ fw.pci[<<a1, a2, a3, 0>>].multifunction
  BY <1>4, Address, Zenon
<1>6. a3 < NSlots /\ a4 < NFuncs
  BY <1>4, Address, Zenon
<1>7. a1 = mcfgs[k].seg /\ mcfgs[k].start_bus <= a2 /\ a2 <= mcfgs[k].end_bus
  BY <1>4, Zenon DEF InRange
<1> DEFINE B(r, b, s, f) ==
             k < r \/ (k = r /\ (a2 < b \/ (a2 = b /\ a3 < s) \/ (a2 = b /\ a3 = s /\ a4 < f)))
<1>8. /\ Behind(a, k) = B(range, bus, slot, func)
      /\ Behind(a, k)' = B(range', bus', slot', func')
  BY <1>4, Zenon DEF Behind
<1>9. SUFFICES B(range', bus', slot', func') <=>
                 B(range, bus, slot, func) \/ (RegisterFunction /\ k = range /\ a = Here)
  BY <1>8, Zenon
<1>10. RegisterFunction => ppc = "caps"
  BY Zenon DEF RegisterFunction
<1>11. ppc = "caps" /\ ~RegisterFunction => UNCHANGED <<range, bus, slot, func>>
  BY Zenon DEF ScanPci, StartScan, LegacyScan, EnterRange, LeaveRange, NextBus, ProbeSlot,
     LeaveSlot, ProbeFunc, SizeBar, InterruptLine, CapStep
<1>12. CASE RegisterFunction
  <2>1. range' = range /\ bus' = bus /\ slot' = slot /\ func' = func + 1
    BY Zenon, <1>12 DEF RegisterFunction
  <2>2. k = range /\ a2 = bus /\ a3 = slot /\ a4 = func <=> k = range /\ a = Here
    BY Zenon, <1>4, <1>7 DEF Here, Alloc
  <2>3. k \in Nat
    BY <1>1
  <2>4. B(range, bus, slot, func + 1) <=>
          B(range, bus, slot, func) \/ (k = range /\ a2 = bus /\ a3 = slot /\ a4 = func)
    BY <1>3, <2>3
  <2> HIDE DEF B
  <2> QED
    BY <1>12, <2>1, <2>2, <2>4, Zenon
<1>13. CASE UNCHANGED <<range, bus, slot, func>> /\ ~RegisterFunction
  BY <1>13, Zenon
<1>14. CASE EnterRange /\ ~RegisterFunction
  <2>1. bus = 0 /\ slot = 0 /\ func = 0 /\ range' = range /\ slot' = slot /\ func' = func
    BY <1>14, Zenon DEF EnterRange, PlaceInv
  <2>2. bus' = bus \/ bus' = Alloc.start_bus
    BY <1>14, Zenon DEF EnterRange
  <2> QED
    BY <1>1, <1>3, <1>4, <1>7, <1>14, <2>1, <2>2 DEF Alloc
<1>15. CASE LeaveRange /\ ~RegisterFunction
  <2>1. /\ bus > Alloc.end_bus /\ func = 0
        /\ range' = range + 1 /\ bus' = 0 /\ slot' = 0 /\ func' = func
    BY <1>15, Zenon DEF LeaveRange, PlaceInv
  <2>2. k \in Nat /\ (k = range => a2 < bus)
    BY <1>1, <1>3, <1>7, <2>1 DEF Alloc
  <2>3. B(range + 1, 0, 0, 0) <=> B(range, bus, slot, 0)
    BY <1>3, <2>2
  <2> HIDE DEF B
  <2> QED
    BY <1>15, <2>1, <2>3, Zenon
<1>16. CASE NextBus /\ ~RegisterFunction
  <2>1. slot = NSlots /\ func = 0 /\ range' = range /\ bus' = bus + 1 /\ slot' = 0 /\ func' = func
    BY <1>16, Zenon DEF NextBus, PlaceInv
  <2>2. k \in Nat
    BY <1>1
  <2>3. B(range, bus + 1, 0, 0) <=> B(range, bus, NSlots, 0)
    BY <1>2, <1>3, <1>6, <2>2
  <2> HIDE DEF B
  <2> QED
    BY <1>16, <2>1, <2>3, Zenon
<1>17. CASE ProbeSlot /\ slot' = slot + 1 /\ First \notin DOMAIN fw.pci /\ ~RegisterFunction
  <2>1. func = 0 /\ range' = range /\ bus' = bus /\ func' = func
    BY <1>17, Zenon DEF ProbeSlot, PlaceInv
  <2>2. ~(k = range /\ a2 = bus /\ a3 = slot)
    BY <1>5, <1>7, <1>17, Zenon DEF First, Alloc
  <2>3. k \in Nat
    BY <1>1
  <2>4. B(range, bus, slot + 1, 0) <=> B(range, bus, slot, 0)
    BY <1>3, <2>2, <2>3
  <2> HIDE DEF B
  <2> QED
    BY <1>17, <2>1, <2>4, Zenon
<1>18. CASE LeaveSlot /\ ~RegisterFunction
  <2>1. func = MaxFuncs /\ range' = range /\ bus' = bus /\ slot' = slot + 1 /\ func' = 0
    BY <1>18, Zenon DEF LeaveSlot
  <2>2. k = range /\ a2 = bus /\ a3 = slot => a4 < func
    <3>1. SUFFICES ASSUME k = range, a2 = bus, a3 = slot PROVE a4 < MaxFuncs
      BY <2>1, Zenon
    <3>2. <<a1, a2, a3, 0>> = First
      BY <1>7, <3>1, Zenon DEF First, Alloc
    <3>3. a4 = 0 \/ MaxFuncs = NFuncs
      BY <1>5, <3>2, Zenon DEF MaxFuncs
    <3> QED
      BY <1>2, <1>6, <3>3
  <2>3. k \in Nat
    BY <1>1
  <2>4. B(range, bus, slot + 1, 0) <=> B(range, bus, slot, func)
    BY <1>3, <2>2, <2>3
  <2> HIDE DEF B
  <2> QED
    BY <1>18, <2>1, <2>4, Zenon
<1>19. CASE ProbeFunc /\ func' = func + 1 /\ Here \notin DOMAIN fw.pci /\ ~RegisterFunction
  <2>1. range' = range /\ bus' = bus /\ slot' = slot
    BY <1>19, Zenon DEF ProbeFunc
  <2>2. ~(k = range /\ a2 = bus /\ a3 = slot /\ a4 = func)
    BY <1>4, <1>5, <1>7, <1>19, Zenon DEF Here, Alloc
  <2>3. k \in Nat
    BY <1>1
  <2>4. B(range, bus, slot, func + 1) <=> B(range, bus, slot, func)
    BY <1>3, <2>2, <2>3
  <2> HIDE DEF B
  <2> QED
    BY <1>19, <2>1, <2>4, Zenon
<1>20. \/ StartScan \/ LegacyScan \/ SizeBar \/ InterruptLine \/ CapStep
       \/ (ProbeSlot /\ First \in DOMAIN fw.pci) \/ (ProbeFunc /\ Here \in DOMAIN fw.pci)
       => UNCHANGED <<range, bus, slot, func>>
  BY Zenon DEF StartScan, LegacyScan, SizeBar, InterruptLine, CapStep, ProbeSlot, ProbeFunc
<1>21. /\ ProbeSlot /\ First \notin DOMAIN fw.pci => slot' = slot + 1
       /\ ProbeFunc /\ Here \notin DOMAIN fw.pci => func' = func + 1
  BY Zenon DEF ProbeSlot, ProbeFunc
<1> HIDE DEF B
<1> QED
  BY <1>12, <1>13, <1>14, <1>15, <1>16, <1>17, <1>18, <1>19, <1>20, <1>21, Zenon DEF ScanPci

(* The functions passed.                                                   *)
LEMMA ScannedStep ==
  ASSUME fw \in Firmwares, mcfgs \in Seq(EcamRange), PlaceInv, ScanPci,
         fw' = fw, mcfgs' = mcfgs
  PROVE  /\ Seen' = Seen
         /\ ~RegisterFunction => Scanned' = Scanned
         /\ RegisterFunction => Here \in Seen /\ Scanned' = Scanned \cup {Here}
<1>1. Seen' = Seen /\ \A a, k : InRange(a, k)' = InRange(a, k)
  BY Zenon DEF Seen, InRange
<1>2. Scanned' = {a \in Seen : \E k \in DOMAIN mcfgs : InRange(a, k) /\ Behind(a, k)'}
  BY <1>1, Zenon DEF Scanned
<1>3. \A a \in Seen : \A k \in DOMAIN mcfgs : InRange(a, k) =>
        (Behind(a, k)' <=> Behind(a, k) \/ (RegisterFunction /\ k = range /\ a = Here))
  BY BehindStep, Zenon
<1>4. ~RegisterFunction => Scanned' = Scanned
  BY <1>2, <1>3, Zenon DEF Scanned
<1>5. ASSUME RegisterFunction
      PROVE  Here \in Seen /\ Scanned' = Scanned \cup {Here}
  <2>1. /\ ppc = "caps" /\ range \in Nat \ {0} /\ range <= Len(mcfgs)
        /\ Alloc.start_bus <= bus /\ bus <= Alloc.end_bus /\ func < MaxFuncs /\ func \in Nat
        /\ First \in DOMAIN fw.pci /\ Here \in DOMAIN fw.pci
    BY <1>5, Zenon DEF RegisterFunction, PlaceInv
  <2>2. range \in DOMAIN mcfgs
    <3>1. Len(mcfgs) \in Nat /\ DOMAIN mcfgs = 1 .. Len(mcfgs)
      BY Ranges, Zenon
    <3> QED
      BY <2>1, <3>1
  <2>3. Here[1] = Alloc.seg /\ Here[2] = bus /\ Here[3] = slot /\ Here[4] = func
    BY Zenon DEF Here
  <2>4. InRange(Here, range)
    BY <2>1, <2>3, Zenon DEF InRange, Alloc
  <2>5. func = 0 \/ fw.pci[First].multifunction
    BY <2>1 DEF MaxFuncs
  <2>6. <<Here[1], Here[2], Here[3], 0>> = First
    BY <2>3, Zenon DEF First
  <2>7. Here \in Seen
    BY <2>1, <2>2, <2>3, <2>4, <2>5, <2>6, Zenon DEF Seen
  <2>8. \A a \in Seen : a \in Scanned' <=> a \in Scanned \/ a = Here
    BY <1>2, <1>3, <1>5, <2>2, <2>4, Zenon DEF Scanned
  <2>9. Scanned \subseteq Seen /\ Scanned' \subseteq Seen
    BY <1>2, Zenon DEF Scanned
  <2> QED
    BY <2>7, <2>8, <2>9, Zenon
<1> QED
  BY <1>1, <1>4, <1>5, Zenon

-----------------------------------------------------------------------------
(* The registry.                                                           *)

(* An entry that changes.                                                  *)
LEMMA Replaced ==
  ASSUME RegistryOK, NEW i \in DOMAIN devices, NEW e, devices' = [devices EXCEPT ![i] = e]
  PROVE  /\ RegistryOK'
         /\ DOMAIN devices' = DOMAIN devices
         /\ \A k \in DOMAIN devices : k # i => devices'[k] = devices[k]
         /\ devices'[i] = e
<1> DEFINE D == {devices[k] : k \in DOMAIN devices}
           E == {devices'[k] : k \in DOMAIN devices'}
           n == Len(devices)
<1>1. devices \in Seq(D)
  BY Zenon DEF RegistryOK
<1> HIDE DEF D
<1>2. n \in Nat /\ DOMAIN devices = 1 .. n
  BY <1>1
<1>3. /\ DOMAIN devices' = DOMAIN devices
      /\ \A k \in DOMAIN devices : k # i => devices'[k] = devices[k]
      /\ devices'[i] = e
  BY Zenon, <1>1
<1>4. devices' = [k \in 1 .. n |-> devices'[k]]
  BY <1>2, <1>3, Zenon
<1>5. \A k \in 1 .. n : devices'[k] \in E
  BY <1>2, <1>3, Zenon
<1> HIDE DEF E
<1>6. [k \in 1 .. n |-> devices'[k]] \in Seq(E)
  BY <1>2, <1>5
<1>7. devices' \in Seq(E)
  BY <1>4, <1>6, Zenon
<1> QED
  BY <1>3, <1>7, Zenon DEF RegistryOK, E

LEMMA PlainSame ==
  ASSUME fw' = fw, Seen' = Seen, NEW id
  PROVE  Plain(WithId(Seen, id))' = Plain(WithId(Seen, id))
<1>1. WithId(Seen, id)' = WithId(Seen, id)
  BY Zenon DEF WithId
<1>2. ResourcesOf(WithId(Seen, id))' = ResourcesOf(WithId(Seen, id))
  BY Zenon, <1>1 DEF ResourcesOf
<1> QED
  BY <1>1, <1>2 DEF Plain

(* A step that passes no function and leaves the registry alone.           *)
LEMMA ListSame ==
  ASSUME ListInv, fw' = fw, devices' = devices, Seen' = Seen, Scanned' = Scanned
  PROVE  ListInv'
<1>1. \A id : /\ WithId(Seen, id)' = WithId(Seen, id)
              /\ WithId(Scanned, id)' = WithId(Scanned, id)
              /\ SameId(id)' = SameId(id)
  BY Zenon DEF WithId, SameId
<1>2. \A id : /\ ResourcesOf(WithId(Scanned, id))' = ResourcesOf(WithId(Scanned, id))
              /\ CapabilitiesOf(WithId(Scanned, id))' = CapabilitiesOf(WithId(Scanned, id))
  <2> SUFFICES ASSUME NEW id
               PROVE  /\ ResourcesOf(WithId(Scanned, id))' = ResourcesOf(WithId(Scanned, id))
                      /\ CapabilitiesOf(WithId(Scanned, id))' = CapabilitiesOf(WithId(Scanned, id))
    BY Zenon
  <2>1. WithId(Scanned, id)' = WithId(Scanned, id)
    BY <1>1, Zenon
  <2>2. ResourcesOf(WithId(Scanned, id))' = ResourcesOf(WithId(Scanned, id))
    BY Zenon, <2>1 DEF ResourcesOf
  <2>3. CapabilitiesOf(WithId(Scanned, id))' = CapabilitiesOf(WithId(Scanned, id))
    BY <2>1 DEF CapabilitiesOf
  <2> QED
    BY <2>2, <2>3, Zenon
<1>3. \A id : Plain(WithId(Seen, id))' = Plain(WithId(Seen, id))
  BY PlainSame, Zenon
<1>4. {fw.pci[a].id : a \in Seen}' = {fw.pci[a].id : a \in Seen}
  BY Zenon
<1> QED
  BY <1>1, <1>2, <1>3, <1>4, Zenon DEF ListInv

(* When the scan starts, the registry holds no function.                   *)
LEMMA ListStarts ==
  ASSUME fw \in Firmwares, mcfgs \in Seq(EcamRange), PlaceInv, ppc = "start", AcpiListed
  PROVE  ListInv
<1>1. range = 1 /\ bus = 0 /\ slot = 0 /\ func = 0
  BY Zenon DEF PlaceInv
<1>2. Scanned = {}
  <2> SUFFICES ASSUME NEW a \in Seen, NEW k \in DOMAIN mcfgs, Behind(a, k)
               PROVE  FALSE
    BY Zenon DEF Scanned
  <2>1. k \in Nat \ {0}
    BY Ranges
  <2>2. a[2] \in Nat /\ a[3] \in Nat /\ a[4] \in Nat
    BY Address, Zenon
  <2>3. \/ k < 1
        \/ k = 1 /\ (a[2] < 0 \/ (a[2] = 0 /\ a[3] < 0) \/ (a[2] = 0 /\ a[3] = 0 /\ a[4] < 0))
    BY <1>1, Zenon DEF Behind
  <2> QED
    BY <2>1, <2>2, <2>3
<1>3. \A id : WithId(Scanned, id) = {}
  BY <1>2, Zenon DEF WithId
<1>4. \A a \in Seen : SameId(fw.pci[a].id) = {}
  <2> SUFFICES ASSUME NEW a \in Seen, NEW k \in SameId(fw.pci[a].id)
               PROVE  FALSE
    BY Zenon
  <2>1. fw.pci[a].id[1] # "ffff"
    BY Address, Layout, Zenon
  <2>2. devices[k].id[1] = "ffff" /\ devices[k].id = fw.pci[a].id
    BY Zenon DEF SameId, AcpiListed
  <2> QED
    BY <2>1, <2>2, Zenon
<1> QED
  BY <1>3, <1>4, Zenon DEF ListInv

(* What has been found of a function when it is registered.                *)
LEMMA FoundAll ==
  ASSUME fw \in Firmwares, PlaceInv, CapsInv, RegisterFunction, Here[1] = 0
  PROVE  /\ DOMAIN F.windows = {} => resources = Declared(F)
         /\ capabilities = KindsOf(F) \ {"Msi", "Msix"}
<1>1. ppc = "caps" /\ (cap_ptr = 0 \/ caps_searched >= MaxCaps)
  BY Zenon DEF RegisterFunction
<1>2. Here \in DOMAIN fw.pci
  BY <1>1, Zenon DEF PlaceInv
<1>3. caps_searched \in Nat
  BY <1>1, Zenon DEF CapsInv
<1>4. PICK V \in SUBSET DOMAIN F.caps :
        /\ Walked(F, V, cap_ptr, caps_searched)
        /\ DOMAIN F.windows = {} =>
             resources = Bars(F, NBars) \cup Line(F) \cup Messages(Kinds(F, V))
        /\ capabilities = Kinds(F, V) \ {"Msi", "Msix"}
  BY <1>1, Zenon DEF CapsInv
<1>5. CapsOK(F)
  BY <1>2, Layout, Zenon DEF F
<1>6. V = Chain(F)
  BY <1>1, <1>3, <1>4, <1>5, WalkHasAll, Zenon
<1> QED
  BY <1>4, <1>6, Zenon DEF Declared, KindsOf

(* A function is put in the entry of those that share its id.              *)
LEMMA ListRegisters ==
  ASSUME fw \in Firmwares, PlaceInv, CapsInv, ListInv, RegistryOK,
         RegisterFunction, Here \in Seen, Seen' = Seen, Scanned' = Scanned \cup {Here},
         fw' = fw
  PROVE  ListInv' /\ RegistryOK'
<1>0. PICK id0 : id0 = F.id
  BY Zenon
<1>1. id0 = fw.pci[Here].id /\ Here \in WithId(Seen, id0)
  BY <1>0, Zenon DEF F, WithId
<1> DEFINE M == {"Msi", "Msix"}
           W == WithId(Scanned, id0)
<1>2. Scanned \subseteq Seen
  BY Zenon DEF Scanned
<1>3. /\ ResourcesOf(W \cup {Here}) = ResourcesOf(W) \cup Declared(F)
      /\ CapabilitiesOf(W \cup {Here}) = CapabilitiesOf(W) \cup (KindsOf(F) \ M)
      /\ ResourcesOf({Here}) = Declared(F) /\ CapabilitiesOf({Here}) = KindsOf(F) \ M
  <2> HIDE DEF M, W
  <2>1. ResourcesOf(W \cup {Here}) = ResourcesOf(W) \cup Declared(F)
    BY Zenon DEF ResourcesOf, F
  <2>2. (UNION {KindsOf(fw.pci[a]) : a \in W \cup {Here}})
          = (UNION {KindsOf(fw.pci[a]) : a \in W}) \cup KindsOf(F)
    BY Zenon DEF F
  <2>3. CapabilitiesOf(W \cup {Here}) = CapabilitiesOf(W) \cup (KindsOf(F) \ M)
    <3> DEFINE X == UNION {KindsOf(fw.pci[a]) : a \in W \cup {Here}}
               Y == UNION {KindsOf(fw.pci[a]) : a \in W}
    <3>1. X = Y \cup KindsOf(F)
      BY <2>2, Zenon
    <3>2. CapabilitiesOf(W \cup {Here}) = X \ M /\ CapabilitiesOf(W) = Y \ M
      BY Zenon DEF CapabilitiesOf, M
    <3> HIDE DEF X, Y
    <3> QED
      BY <3>1, <3>2, Zenon
  <2>4. ResourcesOf({Here}) = Declared(F)
    BY Zenon DEF ResourcesOf, F
  <2>5. CapabilitiesOf({Here}) = KindsOf(F) \ M
    BY Zenon DEF CapabilitiesOf, F, M
  <2> QED
    BY <2>1, <2>3, <2>4, <2>5, Zenon
<1>4. ASSUME Plain(WithId(Seen, id0))
      PROVE  resources = Declared(F) /\ capabilities = KindsOf(F) \ M
  <2>1. Here[1] = 0 /\ DOMAIN F.windows = {}
    BY <1>1, <1>4, Zenon DEF Plain, F
  <2> QED
    BY <2>1, FoundAll, Zenon
<1>5. /\ W = {} => SameId(id0) = {}
      /\ W # {} => \E k \in DOMAIN devices : SameId(id0) = {k}
      /\ Plain(WithId(Seen, id0)) =>
           \A k \in SameId(id0) : /\ devices[k].resources = ResourcesOf(W)
                                  /\ devices[k].capabilities = CapabilitiesOf(W)
  BY <1>1, Zenon DEF ListInv
<1> HIDE DEF M, W
<1> DEFINE Held(i) ==
             /\ i \in DOMAIN devices' /\ SameId(id0)' = {i}
             /\ \A id : id # id0 =>
                  SameId(id)' = SameId(id) /\ \A k \in SameId(id) : devices'[k] = devices[k]
             /\ Plain(WithId(Seen, id0)) =>
                  /\ devices'[i].resources = ResourcesOf(W \cup {Here})
                  /\ devices'[i].capabilities = CapabilitiesOf(W \cup {Here})
<1>6. ASSUME SameId(id0) = {}
      PROVE  RegistryOK' /\ \E i : Held(i)
  <2> DEFINE e == [id |-> id0, resources |-> resources, capabilities |-> capabilities]
             n == Len(devices) + 1
  <2>1. devices' = Append(devices, e)
    BY <1>0, <1>6, Zenon DEF RegisterFunction
  <2>2. /\ RegistryOK' /\ DOMAIN devices = 1 .. Len(devices) /\ Len(devices) \in Nat
        /\ DOMAIN devices' = 1 .. n
        /\ \A k \in DOMAIN devices : devices'[k] = devices[k]
        /\ devices'[n] = e
    <3> HIDE DEF e
    <3> QED
      BY <2>1, Appended, Zenon
  <2>3. DOMAIN devices' = DOMAIN devices \cup {n}
    BY <2>2
  <2>4. /\ devices'[n].id = id0 /\ devices'[n].resources = resources
        /\ devices'[n].capabilities = capabilities
    BY <2>2
  <2>x. PICK m : m = n
    BY Zenon
  <2> HIDE DEF n
  <2>5. \A id : id # id0 => SameId(id)' = SameId(id)
    BY <2>2, <2>3, <2>4, Zenon DEF SameId
  <2>6. SameId(id0)' = {m}
    BY <1>6, <2>2, <2>3, <2>4, <2>x, Zenon DEF SameId
  <2>7. \A id : \A k \in SameId(id) : devices'[k] = devices[k]
    BY <2>2, Zenon DEF SameId
  <2>8. W = {}
    BY <1>5, <1>6, Zenon
  <2>9. Plain(WithId(Seen, id0)) =>
          /\ devices'[m].resources = ResourcesOf(W \cup {Here})
          /\ devices'[m].capabilities = CapabilitiesOf(W \cup {Here})
    <3>1. W \cup {Here} = {Here}
      BY <2>8, Zenon
    <3> QED
      BY <1>3, <1>4, <2>4, <2>x, <3>1, Zenon
  <2>10. m \in DOMAIN devices'
    BY <2>3, <2>x, Zenon
  <2> QED
    BY <2>2, <2>5, <2>6, <2>7, <2>9, <2>10, Zenon
<1>7. ASSUME SameId(id0) # {}
      PROVE  RegistryOK' /\ \E i : Held(i)
  <2>1. PICK i \in DOMAIN devices : SameId(id0) = {i}
    BY <1>5, <1>7, Zenon
  <2>2. Min(SameId(F.id)) = i
    <3>1. i \in Nat
      <4>1. devices \in Seq({devices[k] : k \in DOMAIN devices})
        BY Zenon DEF RegistryOK
      <4> QED
        BY <4>1
    <3>2. \A x, y \in {i} : x <= y
      BY <3>1
    <3> QED
      BY <1>0, <2>1, <3>2, Zenon DEF Min
  <2> DEFINE d == devices[i]
             R == d.resources \cup {r \in resources :
                       \A e \in d.resources : e.kind # r.kind \/ e.addr # r.addr}
             C == d.capabilities \cup capabilities
  <2>3. d.id = id0
    BY <2>1, Zenon DEF SameId
  <2>4. devices' = [devices EXCEPT ![i] = Merged(d)]
    BY <1>0, <1>7, <2>2, Zenon DEF RegisterFunction
  <2>5. Merged(d) = [id |-> id0, resources |-> R, capabilities |-> C]
    BY <2>3, Zenon DEF Merged
  <2> HIDE DEF R, C
  <2>6. /\ RegistryOK'
        /\ DOMAIN devices' = DOMAIN devices
        /\ \A k \in DOMAIN devices : k # i => devices'[k] = devices[k]
        /\ devices'[i] = [id |-> id0, resources |-> R, capabilities |-> C]
    BY <2>4, <2>5, Replaced, Zenon
  <2>7. devices'[i].id = id0 /\ devices'[i].resources = R /\ devices'[i].capabilities = C
    BY <2>6
  <2>8. \A id : id # id0 => SameId(id)' = SameId(id)
    BY <2>3, <2>6, <2>7, Zenon DEF SameId
  <2>9. SameId(id0)' = {i}
    <3>1. \A k \in DOMAIN devices : devices[k].id = id0 <=> k = i
      BY <2>1, Zenon DEF SameId
    <3> QED
      BY <2>6, <2>7, <3>1, Zenon DEF SameId
  <2>10. \A id : id # id0 => \A k \in SameId(id) : devices'[k] = devices[k]
    BY <2>3, <2>6, Zenon DEF SameId
  <2>11. ASSUME Plain(WithId(Seen, id0))
         PROVE  R = ResourcesOf(W \cup {Here}) /\ C = CapabilitiesOf(W \cup {Here})
    <3>1. d.resources = ResourcesOf(W) /\ d.capabilities = CapabilitiesOf(W)
      BY <1>5, <2>1, <2>11, Zenon
    <3>2. resources = Declared(F) /\ capabilities = KindsOf(F) \ M
      BY <1>4, <2>11, Zenon
    <3>3. C = CapabilitiesOf(W \cup {Here})
      BY <1>3, <3>1, <3>2, Zenon DEF C
    <3>4. d.resources \cup resources \subseteq ResourcesOf(WithId(Seen, id0))
      <4>1. W \cup {Here} \subseteq WithId(Seen, id0)
        BY <1>1, <1>2, Zenon DEF W, WithId
      <4>2. ResourcesOf(W \cup {Here}) \subseteq ResourcesOf(WithId(Seen, id0))
        <5> DEFINE S == W \cup {Here}
                   T == WithId(Seen, id0)
        <5>1. S \subseteq T
          BY <4>1, Zenon
        <5> HIDE DEF S, T
        <5>2. ResourcesOf(S) \subseteq ResourcesOf(T)
          BY <5>1, Zenon DEF ResourcesOf
        <5> QED
          BY <5>2, Zenon DEF S, T
      <4> QED
        BY <1>3, <3>1, <3>2, <4>2, Zenon
    <3>5. \A r, q \in ResourcesOf(WithId(Seen, id0)) :
            r.kind = q.kind /\ r.addr = q.addr => r = q
      BY <2>11, Zenon DEF Plain
    <3>6. R = d.resources \cup resources
      BY <3>4, <3>5, Zenon DEF R
    <3> QED
      BY <1>3, <3>1, <3>2, <3>3, <3>6, Zenon
  <2> QED
    BY <2>1, <2>6, <2>7, <2>8, <2>9, <2>10, <2>11, Zenon
<1>8. PICK i : Held(i)
  BY <1>6, <1>7, Zenon
<1>9. ASSUME NEW id \in {fw.pci[a].id : a \in Seen}', id # id0
      PROVE  /\ IF WithId(Scanned, id)' = {} THEN SameId(id)' = {}
                ELSE \E k \in DOMAIN devices' : SameId(id)' = {k}
             /\ Plain(WithId(Seen, id))' =>
                  \A k \in SameId(id)' :
                    /\ devices'[k].resources = ResourcesOf(WithId(Scanned, id))'
                    /\ devices'[k].capabilities = CapabilitiesOf(WithId(Scanned, id))'
  <2>1. WithId(Scanned, id)' = WithId(Scanned, id)
    BY <1>1, <1>9, Zenon DEF WithId
  <2>2. ResourcesOf(WithId(Scanned, id))' = ResourcesOf(WithId(Scanned, id))
    BY Zenon, <2>1 DEF ResourcesOf
  <2>3. CapabilitiesOf(WithId(Scanned, id))' = CapabilitiesOf(WithId(Scanned, id))
    BY <2>1 DEF CapabilitiesOf
  <2>4. Plain(WithId(Seen, id))' = Plain(WithId(Seen, id))
    BY PlainSame, Zenon
  <2>5. SameId(id)' = SameId(id) /\ \A k \in SameId(id) : devices'[k] = devices[k]
    BY <1>8, <1>9, Zenon
  <2>6. id \in {fw.pci[a].id : a \in Seen}
    BY <1>9, Zenon
  <2>7. SameId(id) \subseteq DOMAIN devices /\ SameId(id)' \subseteq DOMAIN devices'
    BY Zenon DEF SameId
  <2>8. /\ IF WithId(Scanned, id) = {} THEN SameId(id) = {}
           ELSE \E k \in DOMAIN devices : SameId(id) = {k}
        /\ Plain(WithId(Seen, id)) =>
             \A k \in SameId(id) :
               /\ devices[k].resources = ResourcesOf(WithId(Scanned, id))
               /\ devices[k].capabilities = CapabilitiesOf(WithId(Scanned, id))
    BY <2>6, Zenon DEF ListInv
  <2>9. IF WithId(Scanned, id)' = {} THEN SameId(id)' = {}
        ELSE \E k \in DOMAIN devices' : SameId(id)' = {k}
    BY <2>1, <2>5, <2>7, <2>8, Zenon
  <2> QED
    BY <2>2, <2>3, <2>4, <2>5, <2>8, <2>9, Zenon
<1>10. /\ IF WithId(Scanned, id0)' = {} THEN SameId(id0)' = {}
          ELSE \E k \in DOMAIN devices' : SameId(id0)' = {k}
       /\ Plain(WithId(Seen, id0))' =>
            \A k \in SameId(id0)' :
              /\ devices'[k].resources = ResourcesOf(WithId(Scanned, id0))'
              /\ devices'[k].capabilities = CapabilitiesOf(WithId(Scanned, id0))'
  <2>1. WithId(Scanned, id0)' = W \cup {Here}
    <3>1. WithId(Scanned, id0)' = {a \in Scanned \cup {Here} : fw.pci[a].id = id0}
      BY Zenon DEF WithId
    <3> QED
      BY <1>1, <3>1, Zenon DEF W, WithId
  <2>2. ResourcesOf(WithId(Scanned, id0))' = ResourcesOf(W \cup {Here})
    BY <2>1, Zenon DEF ResourcesOf
  <2>3. CapabilitiesOf(WithId(Scanned, id0))' = CapabilitiesOf(W \cup {Here})
    BY Zenon, <2>1 DEF CapabilitiesOf
  <2>4. Plain(WithId(Seen, id0))' = Plain(WithId(Seen, id0))
    BY PlainSame, Zenon
  <2>5. WithId(Scanned, id0)' # {}
    BY <2>1, Zenon
  <2> QED
    BY <1>8, <2>2, <2>3, <2>4, <2>5, Zenon
<1> HIDE DEF Held
<1>11. ListInv'
  BY <1>9, <1>10, Zenon DEF ListInv
<1> QED
  BY <1>6, <1>7, <1>11, Zenon

(* A step of the scan keeps the invariant.                                 *)
LEMMA ScanKeeps ==
  ASSUME fw \in Firmwares, mcfgs \in Seq(EcamRange), PciInv, RegistryOK, ScanInv, ScanPci,
         fw' = fw, mcfgs' = mcfgs
  PROVE  ScanInv' /\ RegistryOK'
<1>1. PlaceInv /\ BarsInv /\ CapsInv /\ ListInv
  <2>1. PlaceInv /\ BarsInv /\ CapsInv
    BY Zenon DEF ScanInv
  <2>2. CASE ppc = "start"
    <3>1. AcpiListed
      BY <2>2, Zenon DEF ScanInv
    <3> QED
      BY <2>1, <2>2, <3>1, ListStarts, Zenon
  <2>3. CASE ppc # "start"
    BY <2>1, <2>3, Zenon DEF ScanInv
  <2> QED
    BY <2>2, <2>3, Zenon
<1>2. PlaceInv'
  BY <1>1, PlaceKept, Zenon
<1>3. ppc' # "start"
  BY Zenon DEF ScanPci, StartScan, LegacyScan, EnterRange, LeaveRange, NextBus, ProbeSlot,
     LeaveSlot, ProbeFunc, SizeBar, SkipBar, SizeIo, SizeMem32, SizeMem64, InterruptLine,
     CapStep, RegisterFunction
<1>4. /\ ppc' = "bars" => ProbeFunc \/ SizeBar
      /\ ppc' = "caps" => InterruptLine \/ CapStep
  BY Zenon DEF ScanPci, StartScan, LegacyScan, EnterRange, LeaveRange, NextBus, ProbeSlot,
     LeaveSlot, ProbeFunc, SizeBar, SkipBar, SizeIo, SizeMem32, SizeMem64, InterruptLine,
     CapStep, RegisterFunction
<1>5. ASSUME ProbeFunc, ppc' = "bars"
      PROVE  BarsInv'
  <2>1. bar' = 0 /\ resources' = {} /\ capabilities' = {} /\ caps_searched' = 0
    BY <1>5, Zenon DEF ProbeFunc
  <2>2. Here' \in DOMAIN fw'.pci
    BY <1>2, <1>5, Zenon DEF PlaceInv
  <2>3. BarsOK(F')
    <3>1. Here' \in DOMAIN fw.pci
      BY <2>2, Zenon
    <3>2. F' = fw.pci[Here']
      BY Zenon DEF F
    <3> QED
      BY <3>1, <3>2, Layout, Zenon
  <2>4. DOMAIN F'.bars \subseteq 0 .. NBars - 1 /\ NBars \in Nat
    BY <2>3, FunctionsOK, Zenon DEF BarsOK
  <2>5. \A j \in DOMAIN F'.bars : ~(j < 0) /\ j # 0 - 1
    BY <2>4
  <2>6. Bars(F', 0) = {}
    BY <2>5, Zenon DEF Bars
  <2> QED
    BY <2>1, <2>5, <2>6, Zenon DEF BarsInv
<1>6. BarsInv'
  <2>1. CASE SizeBar
    BY <1>1, <2>1, SizingFinds, Zenon
  <2>2. CASE ppc' # "bars"
    BY <2>2, Zenon DEF BarsInv
  <2> QED
    BY <1>4, <1>5, <2>1, <2>2, Zenon
<1>7. CapsInv'
  <2>1. CASE InterruptLine
    BY <1>1, <2>1, WalkBegins, Zenon
  <2>2. CASE CapStep
    BY <1>1, <2>2, WalkMoves, Zenon
  <2>3. CASE ppc' # "caps"
    BY <2>3, Zenon DEF CapsInv
  <2> QED
    BY <1>4, <2>1, <2>2, <2>3, Zenon
<1>8. ListInv' /\ RegistryOK'
  <2>1. CASE RegisterFunction
    <3>1. Here \in Seen /\ Seen' = Seen /\ Scanned' = Scanned \cup {Here}
      BY <1>1, <2>1, ScannedStep, Zenon
    <3> QED
      BY <1>1, <2>1, <3>1, ListRegisters, Zenon
  <2>2. CASE ~RegisterFunction
    <3>1. Seen' = Seen /\ Scanned' = Scanned
      BY <1>1, <2>2, ScannedStep, Zenon
    <3>2. devices' = devices
      BY <2>2, Zenon DEF ScanPci, StartScan, LegacyScan, EnterRange, LeaveRange, NextBus,
         ProbeSlot, LeaveSlot, ProbeFunc, SizeBar, InterruptLine, CapStep
    <3> QED
      BY <1>1, <3>1, <3>2, ListSame, Zenon DEF RegistryOK
  <2> QED
    BY <2>1, <2>2, Zenon
<1> QED
  BY <1>2, <1>3, <1>6, <1>7, <1>8, Zenon DEF ScanInv

(* A step that leaves the scan and what it works on alone.                 *)
LEMMA ScanSame ==
  ASSUME ScanInv, fw' = fw, mcfgs' = mcfgs, devices' = devices, pci' = pci
  PROVE  ScanInv'
<1>1. /\ ppc' = ppc /\ range' = range /\ bus' = bus /\ slot' = slot /\ func' = func
      /\ bar' = bar /\ resources' = resources /\ capabilities' = capabilities
      /\ cap_ptr' = cap_ptr /\ caps_searched' = caps_searched
  BY Zenon DEF pci, found
<1>2. Here' = Here /\ First' = First /\ Alloc' = Alloc
  BY <1>1, SameHere, Zenon DEF Alloc
<1>3. F' = F /\ MaxFuncs' = MaxFuncs
  BY <1>2, Zenon DEF F, MaxFuncs
<1>4. PlaceInv /\ BarsInv /\ CapsInv
  BY Zenon DEF ScanInv
<1>5. PlaceInv'
  BY <1>1, <1>2, <1>3, <1>4, Zenon DEF PlaceInv
<1>6. BarsInv'
  BY <1>1, <1>3, <1>4, Zenon DEF BarsInv
<1>7. CapsInv'
  BY <1>1, <1>2, <1>3, <1>4, Zenon DEF CapsInv
<1>8. CASE ppc = "start"
  <2>1. AcpiListed
    BY <1>8, Zenon DEF ScanInv
  <2>2. AcpiListed'
    BY <2>1, Zenon DEF AcpiListed
  <2> QED
    BY <1>1, <1>5, <1>6, <1>7, <1>8, <2>2, Zenon DEF ScanInv
<1>9. CASE ppc # "start"
  <2>1. ListInv
    BY <1>9, Zenon DEF ScanInv
  <2>2. Seen' = Seen /\ \A a, k : InRange(a, k)' = InRange(a, k) /\ Behind(a, k)' = Behind(a, k)
    BY <1>1, Zenon DEF Seen, InRange, Behind
  <2>3. Scanned' = Scanned
    BY <2>2, Zenon DEF Scanned
  <2>4. ListInv'
    BY <2>1, <2>2, <2>3, ListSame, Zenon
  <2> QED
    BY <1>1, <1>5, <1>6, <1>7, <1>9, <2>4, Zenon DEF ScanInv
<1> QED
  BY <1>8, <1>9, Zenon

(* At its end, what has been passed is all there is to see.                *)
LEMMA ScanLists ==
  ASSUME fw \in Firmwares, mcfgs \in Seq(EcamRange), ScanInv
  PROVE  FunctionsListed
<1>1. SUFFICES ASSUME ppc = "done",
                      NEW id \in {fw.pci[a].id : a \in Seen}
               PROVE  /\ Cardinality(SameId(id)) = 1
                      /\ Plain(WithId(Seen, id)) =>
                           \A k \in SameId(id) :
                             /\ devices[k].resources = ResourcesOf(WithId(Seen, id))
                             /\ devices[k].capabilities = CapabilitiesOf(WithId(Seen, id))
  BY Zenon DEF FunctionsListed
<1>2. Len(mcfgs) < range /\ range \in Nat /\ ListInv
  BY Zenon, <1>1 DEF ScanInv, PlaceInv
<1>3. \A k \in DOMAIN mcfgs : k < range
  <2>1. Len(mcfgs) \in Nat /\ DOMAIN mcfgs = 1 .. Len(mcfgs)
    BY Ranges, Zenon
  <2> QED
    BY <1>2, <2>1
<1>4. \A a, k : k < range => Behind(a, k)
  BY Zenon DEF Behind
<1>5. \A a \in Seen : \E k \in DOMAIN mcfgs : InRange(a, k)
  BY Zenon DEF Seen
<1>6. Scanned = Seen
  BY <1>3, <1>4, <1>5, Zenon DEF Scanned
<1>7. WithId(Seen, id) # {}
  BY <1>1, Zenon DEF WithId
<1>8. PICK k : SameId(id) = {k}
  BY <1>1, <1>2, <1>6, <1>7, Zenon DEF ListInv
<1>9. Cardinality(SameId(id)) = 1
  BY <1>8, FS_Singleton, Zenon
<1> QED
  BY <1>1, <1>2, <1>6, <1>9, Zenon DEF ListInv

=============================================================================
