---------------------------- MODULE MemoryProofs ----------------------------
(***************************************************************************)
(* Proofs about FrameAllocator, for every page size, memory map and        *)
(* reserved kernel range; about its composition with init_heap and the     *)
(* callers after boot, for every heap size and number of missing page      *)
(* tables; and about MemRoutines, for every vector width up to 16 bytes,   *)
(* every size of the memory and of the regions, and every content.         *)
(***************************************************************************)
EXTENDS Heap, MemRoutines, WellFoundedInduction, FiniteSetTheorems, TLAPS

-----------------------------------------------------------------------------
(* Minima and maxima of sets of naturals.                                  *)

(* A non-empty set of naturals has a least element.                        *)
LEMMA MinExists ==
  ASSUME NEW T, T \subseteq Nat, T # {}
  PROVE  \E x \in T : \A y \in T : x <= y
<1> DEFINE R == OpToRel(<, Nat)
<1>1. IsWellFoundedOn(R, Nat)
  BY NatLessThanWellFounded, Zenon
<1>2. \A x, y \in Nat : x < y => <<x, y>> \in R
  BY Zenon DEF OpToRel
<1> HIDE DEF R
<1>3. PICK x \in T : \A y \in T : ~(<<y, x>> \in R)
  BY <1>1, WFMin, Zenon
<1>4. ASSUME NEW y \in T PROVE x <= y
  <2>1. x \in Nat /\ y \in Nat /\ ~(y < x)
    BY <1>2, <1>3, Zenon
  <2> QED
    BY <2>1
<1> QED
  BY Zenon, <1>4

(* A non-empty bounded set of naturals has a greatest element.             *)
LEMMA MaxExists ==
  ASSUME NEW T, T \subseteq Nat, T # {}, NEW b \in Nat, \A x \in T : x <= b
  PROVE  \E x \in T : \A y \in T : x >= y
<1> DEFINE U == {b - x : x \in T}
<1>1. U \subseteq Nat /\ U # {}
  <2>1. \A x \in T : x \in Nat /\ x <= b /\ b - x \in Nat
    OBVIOUS
  <2> QED
    BY <2>1, Zenon
<1>2. PICK u \in U : \A v \in U : u <= v
  <2> HIDE DEF U
  <2> QED
    BY <1>1, MinExists, Zenon
<1>3. PICK x \in T : u = b - x
  BY Zenon
<1>4. \A y \in T : b - x <= b - y
  BY Zenon, <1>2, <1>3
<1> QED
  BY <1>4

(* Division rounded down and up, as inequalities between products.         *)
LEMMA Division ==
  ASSUME NEW a \in Nat, NEW p \in Nat \ {0}
  PROVE  /\ a \div p \in Nat
         /\ p * (a \div p) <= a
         /\ a < p * (a \div p) + p
  OBVIOUS

(* Multiplication by a positive number keeps the order.                    *)
LEMMA MulOrder ==
  ASSUME NEW x \in Nat, NEW y \in Nat, NEW p \in Nat \ {0}
  PROVE  /\ x * p \in Nat
         /\ x <= y <=> x * p <= y * p
         /\ x < y <=> x * p < y * p
<1>1. x * p \in Nat /\ y * p \in Nat
  OBVIOUS
<1>2. ASSUME NEW a \in Nat, NEW b \in Nat, a < b PROVE a * p < b * p
  <2>1. PICK d \in Nat \ {0} : b = a + d
    <3>1. b - a \in Nat \ {0} /\ b = a + (b - a)
      BY <1>2
    <3> QED
      BY Zenon, <3>1
  <2>2. b * p = a * p + d * p
    BY <2>1
  <2>3. d * p > 0 /\ a * p \in Nat /\ d * p \in Nat
    OBVIOUS
  <2> QED
    BY <2>2, <2>3
<1>3. x < y => x * p < y * p
  BY Zenon, <1>2
<1>4. y < x => y * p < x * p
  BY Zenon, <1>2
<1>5. x = y => x * p = y * p
  BY Zenon
<1> QED
  BY <1>1, <1>3, <1>4, <1>5

(* (addr + 0xFFF) / 0x1000 counts the frames that start below addr.        *)
LEMMA UpFrame ==
  ASSUME NEW i \in Nat, NEW a \in Nat
  PROVE  /\ FrameUp(a) \in Nat
         /\ i < FrameUp(a) <=> i * PageSize < a
<1> DEFINE p == PageSize
           q == FrameUp(a)
<1>1. p \in Nat \ {0}
  BY Zenon, PageSizeOK
<1>2. a + p - 1 \in Nat
  BY <1>1
<1>3. q \in Nat /\ p * q <= a + p - 1 /\ a + p - 1 < p * q + p
  BY Zenon, <1>1, <1>2, Division DEF FrameUp
<1>4. p * q = q * p /\ q * p \in Nat /\ i * p \in Nat /\ (i + 1) * p = i * p + p
  BY <1>1, <1>3
<1> HIDE DEF p, q
<1>5. ASSUME i < q PROVE i * p < a
  <2>1. i + 1 <= q /\ i + 1 \in Nat
    BY <1>3, <1>5
  <2>2. (i + 1) * p <= q * p
    BY Zenon, <1>1, <1>3, <2>1, MulOrder
  <2> QED
    BY <1>1, <1>3, <1>4, <2>2
<1>6. ASSUME q <= i PROVE ~(i * p < a)
  <2>1. q * p <= i * p
    BY Zenon, <1>1, <1>3, <1>6, MulOrder
  <2> QED
    BY <1>1, <1>3, <1>4, <2>1
<1> QED
  BY <1>3, <1>5, <1>6 DEF p, q

(* addr / 0x1000 is the frame that holds addr.                             *)
LEMMA DownFrame ==
  ASSUME NEW i \in Nat, NEW a \in Nat
  PROVE  /\ FrameOf(a) \in Nat
         /\ FrameOf(a) <= i <=> a < (i + 1) * PageSize
<1> DEFINE p == PageSize
           q == FrameOf(a)
<1>1. p \in Nat \ {0}
  BY Zenon, PageSizeOK
<1>2. q \in Nat /\ p * q <= a /\ a < p * q + p
  BY Zenon, <1>1, Division DEF FrameOf
<1>3. /\ p * q = q * p /\ q * p \in Nat /\ i * p \in Nat
      /\ (i + 1) * p = i * p + p
  BY <1>1, <1>2
<1> HIDE DEF p, q
<1>4. ASSUME q <= i PROVE a < (i + 1) * p
  <2>1. q * p <= i * p
    BY Zenon, <1>1, <1>2, <1>4, MulOrder
  <2> QED
    BY <1>1, <1>2, <1>3, <2>1
<1>5. ASSUME i < q PROVE ~(a < (i + 1) * p)
  <2>1. i + 1 <= q /\ i + 1 \in Nat
    BY <1>2, <1>5
  <2>2. (i + 1) * p <= q * p
    BY Zenon, <1>1, <1>2, <2>1, MulOrder
  <2> QED
    BY <1>1, <1>2, <1>3, <2>2
<1> QED
  BY <1>2, <1>4, <1>5 DEF p, q

-----------------------------------------------------------------------------
(* What init computes.                                                     *)

(* The types of a memory map's parts.                                      *)
LEMMA MapTypes ==
  ASSUME NEW mm \in MemoryMaps
  PROVE  /\ \A k \in Usable(mm) :
              /\ mm[k].first \in Nat \ {0} /\ mm[k].last \in Nat
              /\ mm[k].first < mm[k].last
              /\ StartAddr(mm[k]) \in Nat \ {0} /\ EndAddr(mm[k]) \in Nat
              /\ EndAddr(mm[k]) <= PhysFrames * PageSize
         /\ Usable(mm) \subseteq Nat
         /\ PhysFrames * PageSize \in Nat
<1>0. PageSize \in Nat \ {0} /\ PhysFrames \in Nat
  BY Zenon, PageSizeOK
<1>1. mm \in Seq(Region) /\ DOMAIN mm = 1..Len(mm) /\ Len(mm) \in Nat
  BY MemoryMapsOK
<1>2. ASSUME NEW k \in Usable(mm)
      PROVE  /\ mm[k].first \in Nat \ {0} /\ mm[k].last \in Nat
             /\ mm[k].first < mm[k].last /\ mm[k].last <= PhysFrames
  <2>1. k \in DOMAIN mm /\ mm[k].usable
    BY Zenon DEF Usable
  <2>2. mm[k] \in Region
    BY <1>1, <2>1
  <2>3. mm[k].first \in Nat /\ mm[k].last \in Nat
    BY Zenon, <2>2 DEF Region
  <2>4. mm[k].first < mm[k].last /\ mm[k].last <= PhysFrames /\ mm[k].first > 0
    BY Zenon, <2>1, MemoryMapsOK
  <2> QED
    BY <2>3, <2>4
<1>3. ASSUME NEW k \in Usable(mm)
      PROVE  /\ mm[k].first * PageSize \in Nat \ {0}
             /\ mm[k].last * PageSize \in Nat
             /\ mm[k].last * PageSize <= PhysFrames * PageSize
  <2> DEFINE f == mm[k].first
             l == mm[k].last
  <2>1. f \in Nat \ {0} /\ l \in Nat /\ l <= PhysFrames
    BY Zenon, <1>2
  <2> HIDE DEF f, l
  <2>2. 0 * PageSize < f * PageSize /\ f * PageSize \in Nat
    BY <1>0, <2>1, MulOrder
  <2>3. l * PageSize \in Nat /\ l * PageSize <= PhysFrames * PageSize
    BY Zenon, <1>0, <2>1, MulOrder
  <2> QED
    BY <1>0, <2>2, <2>3 DEF f, l
<1> QED
  BY <1>0, <1>1, <1>2, <1>3 DEF Usable, StartAddr, EndAddr

(* max_addr is the end of the last usable region, or 0.                    *)
LEMMA MaxAddrFacts ==
  ASSUME NEW mm \in MemoryMaps
  PROVE  /\ MaxAddr(mm) \in Nat
         /\ \A k \in Usable(mm) : EndAddr(mm[k]) <= MaxAddr(mm)
<1> DEFINE T == {0} \cup {EndAddr(mm[i]) : i \in Usable(mm)}
<1>1. /\ T \subseteq Nat /\ T # {} /\ PhysFrames * PageSize \in Nat
      /\ \A x \in T : x <= PhysFrames * PageSize
  BY MapTypes
<1>2. \A k \in Usable(mm) : EndAddr(mm[k]) \in T
  BY Zenon
<1>3. MaxAddr(mm) = CHOOSE x \in T : \A y \in T : x >= y
  BY Zenon DEF MaxAddr, Max
<1> HIDE DEF T
<1>4. \E x \in T : \A y \in T : x >= y
  BY <1>1, MaxExists, Zenon
<1>5. MaxAddr(mm) \in T /\ \A y \in T : MaxAddr(mm) >= y
  BY Zenon, <1>3, <1>4
<1> QED
  BY <1>1, <1>2, <1>5, MapTypes, Zenon

(* The sizes of the bitmap.                                                *)
LEMMA SizeTypes ==
  ASSUME NEW mm \in MemoryMaps
  PROVE  NumFrames(mm) \in Nat /\ BitmapBytes(mm) \in Nat
<1>1. NumFrames(mm) \in Nat
  BY Zenon, MaxAddrFacts, UpFrame DEF NumFrames
<1>2. NumFrames(mm) + 7 \in Nat
  BY <1>1
<1> QED
  BY <1>1, <1>2, Division DEF BitmapBytes

(* Rounding up to a page gives an address that is not below.               *)
LEMMA AlignUpFacts ==
  ASSUME NEW a \in Nat
  PROVE  /\ AlignUp(a) \in Nat /\ a <= AlignUp(a)
         /\ \A f \in Nat : a <= f * PageSize => AlignUp(a) <= f * PageSize
<1>0. PageSize \in Nat \ {0}
  BY Zenon, PageSizeOK
<1>1. FrameUp(a) \in Nat /\ AlignUp(a) = FrameUp(a) * PageSize
  BY Zenon, UpFrame DEF AlignUp
<1>2. AlignUp(a) \in Nat
  BY Zenon, <1>0, <1>1, MulOrder
<1>3. ~(FrameUp(a) * PageSize < a)
  <2>1. ~(FrameUp(a) < FrameUp(a))
    BY <1>1
  <2> QED
    BY Zenon, <1>1, <2>1, UpFrame
<1>4. ASSUME NEW f \in Nat, a <= f * PageSize PROVE AlignUp(a) <= f * PageSize
  <2>1. f * PageSize \in Nat
    BY Zenon, <1>0, MulOrder
  <2>2. ~(f < FrameUp(a))
    BY <1>4, <2>1, UpFrame
  <2>3. FrameUp(a) <= f
    BY <1>1, <2>2
  <2> QED
    BY Zenon, <1>0, <1>1, <2>3, MulOrder
<1> QED
  BY <1>1, <1>2, <1>3, <1>4

(* A region's place for the bitmap is the first page past its start and    *)
(* past the kernel.                                                        *)
LEMMA PlaceInFacts ==
  ASSUME NEW mm \in MemoryMaps, NEW k \in Usable(mm), NEW kend \in Nat
  PROVE  /\ PlaceIn(mm[k], kend) \in Nat \ {0}
         /\ StartAddr(mm[k]) <= PlaceIn(mm[k], kend)
         /\ kend <= PlaceIn(mm[k], kend)
         /\ \A f \in Nat : kend <= f * PageSize /\ StartAddr(mm[k]) <= f * PageSize
              => PlaceIn(mm[k], kend) <= f * PageSize
<1> DEFINE s == StartAddr(mm[k])
           a == IF s < kend THEN AlignUp(kend) ELSE s
<1>1. s \in Nat \ {0}
  BY Zenon, MapTypes
<1>2. /\ AlignUp(kend) \in Nat /\ kend <= AlignUp(kend)
      /\ \A f \in Nat : kend <= f * PageSize => AlignUp(kend) <= f * PageSize
  BY Zenon, AlignUpFacts
<1>3. PlaceIn(mm[k], kend) = AlignUp(a)
  BY Zenon DEF PlaceIn
<1>4. /\ a \in Nat /\ s <= a /\ kend <= a
      /\ \A f \in Nat : kend <= f * PageSize /\ s <= f * PageSize => a <= f * PageSize
  BY <1>1, <1>2
<1> HIDE DEF a, s
<1>5. /\ AlignUp(a) \in Nat /\ a <= AlignUp(a)
      /\ \A f \in Nat : a <= f * PageSize => AlignUp(a) <= f * PageSize
  BY Zenon, <1>4, AlignUpFacts
<1>6. AlignUp(a) \in Nat \ {0} /\ s <= AlignUp(a) /\ kend <= AlignUp(a)
  BY <1>1, <1>4, <1>5
<1>7. \A f \in Nat : kend <= f * PageSize /\ s <= f * PageSize
        => AlignUp(a) <= f * PageSize
  BY Zenon, <1>4, <1>5
<1> QED
  BY Zenon, <1>3, <1>6, <1>7 DEF s

(* The first search: no place found means no region has room, and a place  *)
(* found lies in a usable region, past the kernel.                         *)
LEMMA FirstPlaceFacts ==
  ASSUME NEW mm \in MemoryMaps, NEW kend \in Nat
  PROVE  /\ FirstPlace(mm, kend) \in Nat
         /\ FirstPlace(mm, kend) = 0 => Roomy(mm, kend) = {}
         /\ FirstPlace(mm, kend) # 0 =>
              /\ kend <= FirstPlace(mm, kend)
              /\ \E k \in Usable(mm) :
                   /\ StartAddr(mm[k]) <= FirstPlace(mm, kend)
                   /\ FirstPlace(mm, kend) + BitmapBytes(mm) <= EndAddr(mm[k])
<1>1. CASE Roomy(mm, kend) = {}
  BY Zenon, <1>1 DEF FirstPlace
<1>2. CASE Roomy(mm, kend) # {}
  <2> DEFINE R == Roomy(mm, kend)
             m == Min(R)
  <2>1. R \subseteq Usable(mm) /\ R \subseteq Nat
    BY Zenon, MapTypes DEF Roomy
  <2>2. m \in R
    <3> HIDE DEF R
    <3>1. \E x \in R : \A y \in R : x <= y
      BY Zenon, <1>2, <2>1, MinExists DEF R
    <3> QED
      BY Zenon, <3>1 DEF m, Min
  <2>3. FirstPlace(mm, kend) = PlaceIn(mm[m], kend)
    BY Zenon, <1>2 DEF FirstPlace
  <2>4. m \in Usable(mm) /\ PlaceIn(mm[m], kend) + BitmapBytes(mm) <= EndAddr(mm[m])
    BY Zenon, <2>2 DEF Roomy
  <2> HIDE DEF m, R
  <2> QED
    BY Zenon, <2>3, <2>4, PlaceInFacts
<1> QED
  BY Zenon, <1>1, <1>2

(* The frames whose bit init leaves clear.                                 *)
LEMMA InitialBitmapFacts ==
  ASSUME NEW mm \in MemoryMaps, NEW kend \in Nat, NEW start \in Nat,
         NEW i \in 0 .. NumFrames(mm) - 1
  PROVE  i \notin InitialBitmap(mm, kend, start) <=>
           /\ \E k \in Usable(mm) : mm[k].first <= i /\ i < mm[k].last
           /\ ~Overlaps(i, 0, kend)
           /\ ~Overlaps(i, start, start + BitmapBytes(mm))
<1>0. /\ PageSize \in Nat \ {0} /\ i \in Nat /\ BitmapBytes(mm) \in Nat
      /\ NumFrames(mm) \in Nat
  BY PageSizeOK, SizeTypes
<1>1. i \in UsableIdx(mm) <=>
        \E k \in Usable(mm) : mm[k].first <= i /\ i < mm[k].last
  <2>1. ASSUME NEW k \in Usable(mm)
        PROVE  i \in FrameOf(StartAddr(mm[k])) .. FrameUp(EndAddr(mm[k])) - 1
                 <=> mm[k].first <= i /\ i < mm[k].last
    <3> DEFINE f == mm[k].first
               l == mm[k].last
    <3>1. f \in Nat /\ l \in Nat /\ f * PageSize \in Nat /\ l * PageSize \in Nat
      BY Zenon, MapTypes DEF StartAddr, EndAddr
    <3>2. StartAddr(mm[k]) = f * PageSize /\ EndAddr(mm[k]) = l * PageSize
      BY Zenon DEF StartAddr, EndAddr
    <3> HIDE DEF f, l
    <3>3. FrameOf(f * PageSize) \in Nat /\ FrameUp(l * PageSize) \in Nat
      BY Zenon, <1>0, <3>1, UpFrame, DownFrame
    <3>4. FrameOf(f * PageSize) <= i <=> f * PageSize < (i + 1) * PageSize
      BY Zenon, <1>0, <3>1, DownFrame
    <3>5. f * PageSize < (i + 1) * PageSize <=> f < i + 1
      <4>1. i + 1 \in Nat
        BY <1>0
      <4> QED
        BY Zenon, <1>0, <3>1, <4>1, MulOrder
    <3>6. i < FrameUp(l * PageSize) <=> i * PageSize < l * PageSize
      BY Zenon, <1>0, <3>1, UpFrame
    <3>7. i * PageSize < l * PageSize <=> i < l
      BY Zenon, <1>0, <3>1, MulOrder
    <3>8. FrameOf(f * PageSize) <= i <=> f <= i
      BY <1>0, <3>1, <3>4, <3>5
    <3>9. i < FrameUp(l * PageSize) <=> i < l
      BY Zenon, <3>6, <3>7
    <3> QED
      BY <1>0, <3>2, <3>3, <3>8, <3>9 DEF f, l
  <2> QED
    BY Zenon, <2>1 DEF UsableIdx
<1>2. i \in KernelIdx(kend) <=> Overlaps(i, 0, kend)
  <2>1. FrameUp(kend) \in Nat /\ (i < FrameUp(kend) <=> i * PageSize < kend)
    BY Zenon, <1>0, UpFrame
  <2>2. 0 < (i + 1) * PageSize
    <3>1. i + 1 \in Nat /\ 0 < i + 1 /\ 0 * PageSize = 0
      BY <1>0
    <3> QED
      BY Zenon, <1>0, <3>1, MulOrder
  <2>3. i \in KernelIdx(kend) <=> i < FrameUp(kend)
    BY <1>0, <2>1 DEF KernelIdx
  <2> QED
    BY Zenon, <2>1, <2>2, <2>3 DEF Overlaps
<1>3. i \in BitmapIdx(start, BitmapBytes(mm))
        <=> Overlaps(i, start, start + BitmapBytes(mm))
  <2> DEFINE e == start + BitmapBytes(mm)
  <2>1. e \in Nat
    BY <1>0
  <2>2. BitmapIdx(start, BitmapBytes(mm)) = FrameOf(start) .. FrameUp(e) - 1
    BY Zenon DEF BitmapIdx
  <2> HIDE DEF e
  <2>3. FrameUp(e) \in Nat /\ (i < FrameUp(e) <=> i * PageSize < e)
    BY Zenon, <1>0, <2>1, UpFrame
  <2>4. FrameOf(start) \in Nat /\ (FrameOf(start) <= i <=> start < (i + 1) * PageSize)
    BY Zenon, <1>0, DownFrame
  <2>5. i \in FrameOf(start) .. FrameUp(e) - 1
          <=> FrameOf(start) <= i /\ i < FrameUp(e)
    BY <1>0, <2>3, <2>4
  <2> QED
    BY Zenon, <2>2, <2>3, <2>4, <2>5 DEF Overlaps, e
<1> QED
  BY Zenon, <1>1, <1>2, <1>3 DEF InitialBitmap

-----------------------------------------------------------------------------
(* The allocator.                                                          *)

(* The bitmap's place: what Init gives bitmap_phys_start and the rest.     *)
LEMMA InitFacts ==
  ASSUME Init
  PROVE  /\ memory_map \in MemoryMaps /\ kernel_reserved_end \in Nat
         /\ num_frames = NumFrames(memory_map) /\ num_frames \in Nat
         /\ bitmap_phys_start \in Nat
         /\ bitmap_bytes \in {0, BitmapBytes(memory_map)} /\ bitmap_bytes \in Nat
         /\ bitmap_bytes # 0 =>
              /\ bitmap_phys_start # 0
              /\ bitmap_phys_start = Placement(memory_map, kernel_reserved_end)
              /\ bitmap_bytes = BitmapBytes(memory_map)
              /\ bitmap = InitialBitmap(memory_map, kernel_reserved_end,
                                        bitmap_phys_start)
         /\ bitmap \subseteq 0 .. num_frames - 1
<1>1. memory_map \in MemoryMaps /\ kernel_reserved_end \in Nat
  BY Zenon, ReservedEndsOK DEF Init
<1>2. num_frames = NumFrames(memory_map) /\ num_frames \in Nat
  BY Zenon, <1>1, SizeTypes DEF Init
<1>3. Placement(memory_map, kernel_reserved_end) \in Nat
  BY Zenon, <1>1, FirstPlaceFacts DEF Placement
<1>4. bitmap_phys_start \in Nat
  BY Zenon, <1>3 DEF Init
<1>5. BitmapBytes(memory_map) \in Nat
  BY Zenon, <1>1, SizeTypes
<1>6. InitialBitmap(memory_map, kernel_reserved_end, bitmap_phys_start)
        \subseteq 0 .. num_frames - 1
  BY Zenon, <1>2 DEF InitialBitmap
<1>7. /\ bitmap_bytes \in {0, BitmapBytes(memory_map)}
      /\ bitmap_bytes # 0 =>
              /\ bitmap_phys_start # 0
              /\ bitmap_phys_start = Placement(memory_map, kernel_reserved_end)
              /\ bitmap_bytes = BitmapBytes(memory_map)
              /\ bitmap = InitialBitmap(memory_map, kernel_reserved_end,
                                        bitmap_phys_start)
      /\ bitmap \in {{}, InitialBitmap(memory_map, kernel_reserved_end,
                                       bitmap_phys_start)}
  BY Zenon DEF Init
<1> QED
  BY <1>1, <1>2, <1>4, <1>5, <1>6, <1>7

(* The invariant holds when init returns.                                  *)
LEMMA InitFrameInv == Init => FrameInv
<1> SUFFICES ASSUME Init PROVE FrameInv
  BY Zenon
<1>1. TypeOK
  BY InitFacts DEF TypeOK, Init
<1>2. allocated = {} /\ result = "init"
  BY Zenon DEF Init
<1>3. ASSUME bitmap_bytes # 0, NEW i \in 0 .. num_frames - 1
      PROVE  Free(i) <=> i \in Pool
  <2>1. Free(i) <=> i \notin bitmap
    BY <1>3, InitFacts DEF Free
  <2>2. i \in 0 .. NumFrames(memory_map) - 1
    BY Zenon, InitFacts
  <2>3. i \notin bitmap <=> UsableFrame(i) /\ ~InKernel(i) /\ ~InBitmap(i)
    BY Zenon, <1>3, <2>2, InitFacts, InitialBitmapFacts
       DEF UsableFrame, InKernel, InBitmap
  <2> QED
    BY Zenon, <2>1, <2>3 DEF Pool
<1>4. Accounting
  BY Zenon, <1>2, <1>3 DEF Accounting, Pool
<1> QED
  BY Zenon, <1>1, <1>2, <1>4 DEF FrameInv, OwnedFramesSafe, NoneOnlyWhenExhausted

(* The pool does not change: no step touches what it is computed from.     *)
LEMMA PoolConstant == UNCHANGED config => Pool' = Pool
  BY Zenon DEF config, Pool, UsableFrame, InKernel, InBitmap, Usable, Overlaps

(* Handing out a frame whose bit is clear keeps the invariant.             *)
LEMMA TakeFrameInv ==
  ASSUME FrameInv, NEW i \in 0 .. num_frames - 1, Free(i), Take(i)
  PROVE  FrameInv'
<1>1. /\ UNCHANGED config /\ bitmap_bytes # 0 /\ i \in Pool /\ i \notin allocated
      /\ num_frames \in Nat
  BY Zenon DEF FrameInv, TypeOK, Accounting, Free, Take
<1>2. Pool' = Pool
  BY Zenon, <1>1, PoolConstant
<1>3. TypeOK'
  BY <1>1 DEF FrameInv, TypeOK, Take, config
<1>4. \A j : Free(j)' <=> Free(j) /\ j # i
  BY Zenon, <1>1 DEF Free, Take, config
<1>5. Accounting'
  BY Zenon, <1>1, <1>2, <1>4 DEF FrameInv, Accounting, Take, config
<1>6. OwnedFramesSafe' /\ NoneOnlyWhenExhausted'
  BY Zenon, <1>1, <1>2 DEF FrameInv, OwnedFramesSafe, NoneOnlyWhenExhausted, Take
<1> QED
  BY Zenon, <1>1, <1>3, <1>5, <1>6 DEF FrameInv, config

(* allocate_frame and free_frame preserve the invariant.                   *)
LEMMA NextFrameInv == FrameInv /\ [Next]_vars => FrameInv'
<1> SUFFICES ASSUME FrameInv, [Next]_vars PROVE FrameInv'
  BY Zenon
<1>0. num_frames \in Nat /\ next_search \in 0 .. num_frames
  BY Zenon DEF FrameInv, TypeOK
<1>1. CASE AllocateAhead
  <2>1. PICK i \in next_search .. num_frames - 1 : Free(i) /\ Take(i)
    BY Zenon, <1>1 DEF AllocateAhead
  <2>2. i \in 0 .. num_frames - 1
    BY <1>0
  <2> QED
    BY Zenon, <2>1, <2>2, TakeFrameInv
<1>2. CASE AllocateWrapped
  <2>1. PICK i \in 0 .. next_search - 1 : Free(i) /\ Take(i)
    BY Zenon, <1>2 DEF AllocateWrapped
  <2>2. i \in 0 .. num_frames - 1
    BY <1>0
  <2> QED
    BY Zenon, <2>1, <2>2, TakeFrameInv
<1>3. CASE AllocateNone
  <2>1. UNCHANGED <<config, next_search, bitmap, allocated>> /\ result' = "None"
    BY Zenon, <1>3 DEF AllocateNone
  <2>2. Pool' = Pool
    BY Zenon, <2>1, PoolConstant
  <2>3. \A j \in 0 .. num_frames - 1 : ~Free(j)
    <3>1. \A j \in 0 .. num_frames - 1 :
            j \in next_search .. num_frames - 1 \/ j \in 0 .. next_search - 1
      BY <1>0
    <3> QED
      BY Zenon, <1>3, <3>1 DEF AllocateNone
  <2>4. bitmap_bytes # 0 => Pool \subseteq allocated
    BY Zenon, <2>3 DEF FrameInv, Accounting
  <2>5. \A j : Free(j)' <=> Free(j)
    BY Zenon, <2>1 DEF Free, config
  <2>6. Accounting'
    BY Zenon, <2>1, <2>2, <2>5 DEF FrameInv, Accounting, config
  <2>7. TypeOK' /\ OwnedFramesSafe' /\ NoneOnlyWhenExhausted'
    BY Zenon, <2>1, <2>2, <2>4
       DEF FrameInv, TypeOK, OwnedFramesSafe, NoneOnlyWhenExhausted, config
  <2> QED
    BY Zenon, <2>1, <2>6, <2>7 DEF FrameInv, config
<1>4. ASSUME NEW i \in allocated, FreeFrame(i) PROVE FrameInv'
  <2>1. /\ UNCHANGED <<config, next_search>> /\ bitmap' = bitmap \ {i}
        /\ allocated' = allocated \ {i} /\ result' = "freed" /\ bitmap_bytes # 0
    BY Zenon, <1>4 DEF FreeFrame
  <2>2. Pool' = Pool
    BY Zenon, <2>1, PoolConstant
  <2>3. i \in Pool /\ i \in 0 .. num_frames - 1
    BY Zenon DEF FrameInv, OwnedFramesSafe, TypeOK
  <2>4. \A j : Free(j)' <=> Free(j) \/ j = i
    BY <1>0, <2>1, <2>3 DEF Free, config
  <2>5. Accounting'
    BY Zenon, <2>1, <2>2, <2>3, <2>4 DEF FrameInv, Accounting, config
  <2>6. TypeOK' /\ OwnedFramesSafe' /\ NoneOnlyWhenExhausted'
    BY Zenon, <2>1, <2>2
       DEF FrameInv, TypeOK, OwnedFramesSafe, NoneOnlyWhenExhausted, config
  <2> QED
    BY Zenon, <2>1, <2>5, <2>6 DEF FrameInv, config
<1>5. CASE UNCHANGED vars
  <2>1. UNCHANGED config
    BY Zenon, <1>5 DEF vars, config
  <2>2. Pool' = Pool
    BY Zenon, <2>1, PoolConstant
  <2> QED
    BY Zenon, <1>5, <2>2 DEF FrameInv, TypeOK, Accounting, Free, OwnedFramesSafe,
       NoneOnlyWhenExhausted, vars
<1> QED
  BY Zenon, <1>1, <1>2, <1>3, <1>4, <1>5 DEF Next

(* The invariant, for every memory map and every sequence of calls.        *)
THEOREM FrameInductive == Spec => []FrameInv
  BY InitFrameInv, NextFrameInv, PTL DEF Spec

(* Every variable keeps its type: the search hint never passes num_frames. *)
THEOREM FrameTypeCorrect == Spec => []TypeOK
<1>1. FrameInv => TypeOK
  BY Zenon DEF FrameInv
<1> QED
  BY <1>1, FrameInductive, PTL

(* The clear bits are exactly the pool minus the frames handed out.        *)
THEOREM FramesAccounted == Spec => []Accounting
<1>1. FrameInv => Accounting
  BY Zenon DEF FrameInv
<1> QED
  BY <1>1, FrameInductive, PTL

(* A frame handed out is usable memory outside the kernel and the bitmap.  *)
THEOREM FramesSafe == Spec => []OwnedFramesSafe
<1>1. FrameInv => OwnedFramesSafe
  BY Zenon DEF FrameInv
<1> QED
  BY <1>1, FrameInductive, PTL

(* allocate_frame fails only when the pool is exhausted.                   *)
THEOREM NoSpuriousFailure == Spec => []NoneOnlyWhenExhausted
<1>1. FrameInv => NoneOnlyWhenExhausted
  BY Zenon DEF FrameInv
<1> QED
  BY <1>1, FrameInductive, PTL

(* The bitmap lies in one usable region, and overlaps the kernel only when *)
(* no usable region has room for it past kernel_reserved_end.              *)
THEOREM BitmapWellPlaced == Spec => []BitmapPlaced
<1>1. Init => BitmapPlaced
  <2> SUFFICES ASSUME Init, bitmap_bytes # 0 PROVE BitmapPlaced
    BY Zenon DEF BitmapPlaced
  <2> DEFINE mm == memory_map
             kend == kernel_reserved_end
             start == bitmap_phys_start
             bytes == BitmapBytes(mm)
  <2>1. /\ mm \in MemoryMaps /\ kend \in Nat /\ start \in Nat \ {0}
        /\ start = Placement(mm, kend) /\ bitmap_bytes = bytes
        /\ bytes \in Nat \ {0}
    BY Zenon, InitFacts
  <2> HIDE DEF mm, kend, start, bytes
  <2>2. \E k \in Usable(mm) :
          StartAddr(mm[k]) <= start /\ start + bytes <= EndAddr(mm[k])
    <3>1. CASE FirstPlace(mm, kend) # 0
      BY Zenon, <2>1, <3>1, FirstPlaceFacts DEF Placement, bytes
    <3>2. CASE FirstPlace(mm, kend) = 0
      <4>1. start = FirstPlace(mm, 0)
        BY Zenon, <2>1, <3>2 DEF Placement
      <4> QED
        BY Zenon, <2>1, <4>1, FirstPlaceFacts DEF bytes
    <3> QED
      BY Zenon, <3>1, <3>2
  <2>3. ASSUME start < kend, NEW k \in Usable(mm),
               NEW f \in mm[k].first .. mm[k].last,
               f * PageSize >= kend
        PROVE  f * PageSize + bytes > EndAddr(mm[k])
    <3>1. Roomy(mm, kend) = {}
      <4>1. ~(kend <= start)
        BY <2>1, <2>3
      <4>2. FirstPlace(mm, kend) = 0
        BY Zenon, <2>1, <4>1, FirstPlaceFacts DEF Placement
      <4> QED
        BY Zenon, <2>1, <4>2, FirstPlaceFacts
    <3>2. /\ mm[k].first \in Nat /\ mm[k].last \in Nat /\ EndAddr(mm[k]) \in Nat
          /\ PageSize \in Nat \ {0}
      BY Zenon, <2>1, MapTypes, PageSizeOK
    <3>3. f \in Nat /\ mm[k].first <= f
      BY <3>2
    <3>4. StartAddr(mm[k]) <= f * PageSize /\ f * PageSize \in Nat
      BY Zenon, <3>2, <3>3, MulOrder DEF StartAddr
    <3>5. PlaceIn(mm[k], kend) <= f * PageSize /\ PlaceIn(mm[k], kend) \in Nat
      BY Zenon, <2>1, <2>3, <3>3, <3>4, PlaceInFacts
    <3>6. ~(/\ EndAddr(mm[k]) > kend
            /\ PlaceIn(mm[k], kend) + bytes <= EndAddr(mm[k]))
      BY Zenon, <3>1 DEF Roomy, bytes
    <3> QED
      BY <2>1, <2>3, <3>2, <3>4, <3>5, <3>6
  <2> QED
    BY Zenon, <2>1, <2>2, <2>3 DEF BitmapPlaced, mm, kend, start
<1>2. BitmapPlaced /\ [Next]_vars => BitmapPlaced'
  <2> SUFFICES ASSUME BitmapPlaced, [Next]_vars PROVE BitmapPlaced'
    BY Zenon
  <2>1. UNCHANGED config
    BY Zenon DEF Next, AllocateAhead, AllocateWrapped, AllocateNone, FreeFrame, Take,
       vars, config
  <2> QED
    BY Zenon, <2>1 DEF BitmapPlaced, Usable, StartAddr, EndAddr, config
<1> QED
  BY <1>1, <1>2, PTL DEF Spec

-----------------------------------------------------------------------------
(* The allocator as its users see it.                                      *)

(* A successful allocation hands out one frame of the pool that nobody     *)
(* has, and changes nothing else that its users know of.                   *)
LEMMA AllocateFacts ==
  ASSUME FrameInv, Allocate
  PROVE  \E i \in Pool \ allocated : allocated' = allocated \cup {i} /\ NewFrame = {i}
<1>1. PICK i \in 0 .. num_frames - 1 : Free(i) /\ Take(i)
  BY DEF Allocate, AllocateAhead, AllocateWrapped, FrameInv, TypeOK
<1>2. i \in Pool \ allocated
  BY Zenon, <1>1 DEF FrameInv, Accounting, Free
<1>3. allocated' = allocated \cup {i}
  BY Zenon, <1>1 DEF Take
<1>4. NewFrame = {i}
  BY Zenon, <1>2, <1>3 DEF NewFrame
<1> QED
  BY Zenon, <1>2, <1>3, <1>4

(* A step of the heap is one of the allocator, or leaves it alone.         *)
LEMMA HeapStepIsAllocatorStep == [HeapNext]_hvars => [Next]_vars
<1> SUFFICES ASSUME [HeapNext]_hvars PROVE Next \/ UNCHANGED vars
  BY Zenon
<1>1. CASE AllocatePageFrame \/ CreateTable
  BY Zenon, <1>1 DEF AllocatePageFrame, CreateTable, Allocate, Next
<1>2. CASE MapPage \/ MapToRefuses \/ InitAllocator
  BY Zenon, <1>2 DEF MapPage, MapToRefuses, InitAllocator
<1>3. CASE InitHeapFails
  BY Zenon, <1>3 DEF InitHeapFails, Next
<1>4. CASE ClientAllocate
  BY Zenon, <1>4 DEF ClientAllocate, Allocate, Next
<1>5. CASE \E i \in client : ClientFree(i)
  BY Zenon, <1>5 DEF ClientFree, FreeFrame, Next
<1>6. CASE Halted \/ UNCHANGED hvars
  BY Zenon, <1>6 DEF Halted, hvars
<1> QED
  BY Zenon, <1>1, <1>2, <1>3, <1>4, <1>5, <1>6 DEF HeapNext

(* init_heap and the later callers use the allocator as it is meant to be  *)
(* used: no frame is given back that its caller does not have.             *)
THEOREM HeapImplementsAllocator == HeapSpec => Spec
<1>1. HeapInit => Init
  BY Zenon DEF HeapInit
<1> QED
  BY <1>1, HeapStepIsAllocatorStep, PTL DEF HeapSpec, Spec

-----------------------------------------------------------------------------
(* The inductive invariant.                                                *)

LEMMA InitHeapInv == HeapInit => HeapInv
<1> SUFFICES ASSUME HeapInit PROVE HeapInv
  BY Zenon
<1>1. FrameInv /\ allocated = {}
  BY Zenon, InitFrameInv DEF HeapInit, Init
<1>2. /\ pc = "frame" /\ page = 0 /\ frame = {} /\ mapped = <<>>
      /\ tables = {} /\ client = {}
  BY Zenon DEF HeapInit
<1>3. mapped \in Seq(Nat) /\ Len(mapped) = 0 /\ DOMAIN mapped = {}
  BY <1>2
<1>4. MappedFrames = {}
  BY Zenon, <1>3 DEF MappedFrames
<1>5. OneOwner
  BY Zenon, <1>1, <1>2, <1>3, <1>4 DEF OneOwner
<1> QED
  BY Zenon, <1>1, <1>2, <1>3, <1>5 DEF HeapInv

(* Mapping one more page.                                                  *)
LEMMA AppendFacts ==
  ASSUME NEW s \in Seq(Nat), NEW f \in Nat
  PROVE  /\ Append(s, f) \in Seq(Nat) /\ Len(Append(s, f)) = Len(s) + 1
         /\ DOMAIN Append(s, f) = DOMAIN s \cup {Len(s) + 1}
         /\ Len(s) + 1 \notin DOMAIN s
         /\ \A p \in DOMAIN s : Append(s, f)[p] = s[p]
         /\ Append(s, f)[Len(s) + 1] = f
  OBVIOUS

LEMMA NextHeapInv == HeapInv /\ [HeapNext]_hvars => HeapInv'
<1> SUFFICES ASSUME HeapInv, [HeapNext]_hvars PROVE HeapInv'
  BY Zenon
<1>0. FrameInv'
  BY Zenon, HeapStepIsAllocatorStep, NextFrameInv DEF HeapInv
<1>1. /\ page \in Nat /\ mapped \in Seq(Nat) /\ Len(mapped) = page
      /\ OneOwner /\ FrameInv /\ Pool \subseteq Nat
  BY DEF HeapInv, Pool, FrameInv, TypeOK
<1>2. ASSUME UNCHANGED mapped PROVE MappedFrames' = MappedFrames
  BY Zenon, <1>2 DEF MappedFrames
<1>3. MappedFrames \subseteq allocated /\ tables \subseteq allocated
      /\ frame \subseteq allocated /\ client \subseteq allocated
  BY Zenon, <1>1 DEF OneOwner
<1>4. CASE AllocatePageFrame
  <2>1. PICK f \in Pool \ allocated : allocated' = allocated \cup {f} /\ NewFrame = {f}
    BY Zenon, <1>1, <1>4, AllocateFacts DEF AllocatePageFrame
  <2>2. frame = {} /\ frame' = {f} /\ UNCHANGED <<page, mapped, tables, client>> /\ pc' = "map"
    BY Zenon, <1>4, <2>1 DEF AllocatePageFrame, HeapInv
  <2>3. OneOwner'
    BY <1>1, <1>2, <1>3, <2>1, <2>2 DEF OneOwner
  <2> QED
    BY Zenon, <1>0, <1>1, <2>1, <2>2, <2>3 DEF HeapInv
<1>5. CASE CreateTable
  <2>1. PICK f \in Pool \ allocated : allocated' = allocated \cup {f} /\ NewFrame = {f}
    BY Zenon, <1>1, <1>5, AllocateFacts DEF CreateTable
  <2>2. tables' = tables \cup {f} /\ UNCHANGED <<pc, page, frame, mapped, client>> /\ pc = "map"
    BY Zenon, <1>5, <2>1 DEF CreateTable
  <2>3. OneOwner'
    BY <1>1, <1>2, <1>3, <2>1, <2>2 DEF OneOwner
  <2> QED
    BY Zenon, <1>0, <1>1, <2>1, <2>2, <2>3 DEF HeapInv
<1>6. CASE MapPage
  <2>1. PICK f \in frame : mapped' = Append(mapped, f)
    BY Zenon, <1>6 DEF MapPage
  <2>2. frame = {f} /\ f \in Nat /\ f \in allocated
    BY <1>1, <1>3, <1>6, <2>1 DEF MapPage, HeapInv, FrameInv, TypeOK, Accounting
  <2>3. /\ frame' = {} /\ page' = page + 1 /\ pc' = "frame"
        /\ UNCHANGED <<allocated, tables, client>>
    BY Zenon, <1>6 DEF MapPage, vars
  <2>4. /\ mapped' \in Seq(Nat) /\ Len(mapped') = page'
        /\ DOMAIN mapped' = DOMAIN mapped \cup {page + 1}
        /\ page + 1 \notin DOMAIN mapped
        /\ \A p \in DOMAIN mapped : mapped'[p] = mapped[p]
        /\ mapped'[page + 1] = f
    BY <1>1, <2>1, <2>2, <2>3, AppendFacts
  <2>5. MappedFrames' = MappedFrames \cup {f}
    BY <2>4 DEF MappedFrames
  <2>6. f \notin MappedFrames \cup tables \cup client
    BY Zenon, <1>1, <2>2 DEF OneOwner
  <2>7. \A p \in DOMAIN mapped : mapped[p] # f
    BY Zenon, <2>6 DEF MappedFrames
  <2>8. OneOwner'
    <3>1. \A p, q \in DOMAIN mapped' : mapped'[p] = mapped'[q] => p = q
      BY Zenon, <1>1, <2>4, <2>7 DEF OneOwner
    <3> QED
      BY Zenon, <1>1, <2>2, <2>3, <2>5, <2>6, <3>1 DEF OneOwner
  <2> QED
    BY <1>0, <1>1, <2>3, <2>4, <2>8 DEF HeapInv
<1>7. CASE InitHeapFails \/ MapToRefuses \/ InitAllocator \/ Halted \/ UNCHANGED hvars
  <2>1. UNCHANGED <<allocated, page, frame, mapped, tables, client>>
    BY Zenon, <1>7 DEF InitHeapFails, MapToRefuses, InitAllocator, Halted, AllocateNone, hvars, vars, heap
  <2>2. \/ pc' = "panic" \/ UNCHANGED pc
        \/ pc = "frame" /\ pc' = "ready" /\ page > LastPage
    BY Zenon, <1>7 DEF InitHeapFails, MapToRefuses, InitAllocator, Halted, hvars, heap
  <2>3. OneOwner'
    BY Zenon, <1>1, <1>2, <2>1 DEF OneOwner
  <2> QED
    BY Zenon, <1>0, <1>1, <2>1, <2>2, <2>3 DEF HeapInv
<1>8. CASE ClientAllocate
  <2>1. pc = "ready" /\ UNCHANGED <<pc, page, frame, mapped, tables>>
    BY Zenon, <1>8 DEF ClientAllocate
  <2>2. OneOwner'
    <3>1. CASE Allocate
      <4>1. PICK f \in Pool \ allocated : allocated' = allocated \cup {f} /\ NewFrame = {f}
        BY Zenon, <1>1, <3>1, AllocateFacts
      <4>2. client' = client \cup {f}
        BY Zenon, <1>8, <4>1 DEF ClientAllocate
      <4> QED
        BY <1>1, <1>2, <1>3, <2>1, <4>1, <4>2 DEF OneOwner
    <3>2. CASE AllocateNone
      <4>1. UNCHANGED allocated /\ client' = client
        BY Zenon, <1>8, <3>2 DEF ClientAllocate, AllocateNone, NewFrame
      <4> QED
        BY Zenon, <1>1, <1>2, <2>1, <4>1 DEF OneOwner
    <3> QED
      BY Zenon, <1>8, <3>1, <3>2 DEF ClientAllocate
  <2> QED
    BY Zenon, <1>0, <1>1, <2>1, <2>2 DEF HeapInv
<1>9. CASE \E i \in client : ClientFree(i)
  <2>1. PICK i \in client : ClientFree(i)
    BY Zenon, <1>9
  <2>2. /\ pc = "ready" /\ UNCHANGED <<pc, page, frame, mapped, tables>>
        /\ allocated' = allocated \ {i} /\ client' = client \ {i}
    BY Zenon, <2>1 DEF ClientFree, FreeFrame
  <2>3. OneOwner'
    BY Zenon, <1>1, <1>2, <2>1, <2>2 DEF OneOwner
  <2> QED
    BY Zenon, <1>0, <1>1, <2>2, <2>3 DEF HeapInv
<1> QED
  BY Zenon, <1>4, <1>5, <1>6, <1>7, <1>8, <1>9 DEF HeapNext

THEOREM HeapInductive == HeapSpec => []HeapInv
  BY InitHeapInv, NextHeapInv, PTL DEF HeapSpec

-----------------------------------------------------------------------------
(* What the runs check, for every instance.                                *)

(* init_heap, map_to and the later callers never share a frame, and every  *)
(* frame that counts as taken is with exactly one of them: nothing leaks   *)
(* when init_heap fails part of the way.                                   *)
THEOREM FramesHaveOneOwner == HeapSpec => []OneOwner
<1>1. HeapInv => OneOwner
  BY Zenon DEF HeapInv
<1> QED
  BY <1>1, HeapInductive, PTL

(* When ALLOCATOR.init runs, every byte of the heap is mapped to a frame   *)
(* of the pool: the loop of init_heap over Page::range_inclusive leaves    *)
(* out no page, whatever the heap's size and alignment.                    *)
THEOREM HeapIsBacked == HeapSpec => []HeapBacked
<1>1. ASSUME HeapInv, pc = "ready", NEW b \in 0 .. HeapSize - 1
      PROVE  /\ b \div PageSize + 1 \in DOMAIN mapped
             /\ mapped[b \div PageSize + 1] \in Pool
  <2>1. b \in Nat /\ HeapSize - 1 \in Nat /\ b <= HeapSize - 1
    BY HeapOK
  <2>2. LastPage \in Nat /\ HeapSize - 1 < (LastPage + 1) * PageSize
    BY <2>1, DownFrame DEF LastPage, FrameOf
  <2>3. b < (LastPage + 1) * PageSize
    <3>1. (LastPage + 1) * PageSize \in Nat
      BY <2>2, PageSizeOK
    <3> QED
      BY <2>1, <2>2, <3>1
  <2>4. b \div PageSize \in Nat /\ b \div PageSize <= LastPage
    BY Zenon, <2>1, <2>2, <2>3, DownFrame DEF FrameOf
  <2>5. page \in Nat /\ page > LastPage /\ mapped \in Seq(Nat) /\ Len(mapped) = page
    BY Zenon, <1>1 DEF HeapInv
  <2>6. b \div PageSize + 1 \in 1 .. page
    BY <2>2, <2>4, <2>5
  <2>7. DOMAIN mapped = 1 .. page
    BY <2>5
  <2>8. mapped[b \div PageSize + 1] \in allocated
    BY Zenon, <1>1, <2>6, <2>7 DEF HeapInv, OneOwner, MappedFrames
  <2>9. allocated \subseteq Pool
    BY Zenon, <1>1 DEF HeapInv, FrameInv, OwnedFramesSafe
  <2> QED
    BY Zenon, <2>6, <2>7, <2>8, <2>9
<1>2. HeapInv => HeapBacked
  BY Zenon, <1>1 DEF HeapBacked
<1> QED
  BY <1>2, HeapInductive, PTL

-----------------------------------------------------------------------------
(* What init_heap asks for.                                                *)

(* The loop over the pages of the heap is over those that hold a byte.     *)
LEMMA HeapPageFacts ==
  /\ LastPage \in Nat /\ HeapPages = 0 .. LastPage
  /\ \A p \in 0 .. LastPage : NewTables[p] \in Nat
<1>1. HeapSize \in Nat /\ HeapSize - 1 \in Nat /\ PageSize \in Nat \ {0}
  BY HeapOK, PageSizeOK
<1>2. LastPage \in Nat
  BY Zenon, <1>1, DownFrame DEF LastPage, FrameOf
<1>3. ASSUME NEW b \in 0 .. HeapSize - 1 PROVE b \div PageSize \in 0 .. LastPage
  <2>1. b \in Nat /\ b <= HeapSize - 1
    BY <1>1
  <2>2. HeapSize - 1 < (LastPage + 1) * PageSize
    BY <1>1, <1>2, DownFrame DEF LastPage, FrameOf
  <2>3. (LastPage + 1) * PageSize \in Nat
    BY <1>1, <1>2
  <2>4. b < (LastPage + 1) * PageSize
    BY <1>1, <2>1, <2>2, <2>3
  <2>5. b \div PageSize \in Nat /\ b \div PageSize <= LastPage
    BY Zenon, <1>2, <2>1, <2>4, DownFrame DEF FrameOf
  <2> QED
    BY <1>2, <2>5
<1>4. ASSUME NEW p \in 0 .. LastPage
      PROVE  p * PageSize \in 0 .. HeapSize - 1 /\ (p * PageSize) \div PageSize = p
  <2>1. p \in Nat /\ p <= LastPage /\ p * PageSize \in Nat
    BY <1>1, <1>2
  <2>2. p * PageSize < (p + 1) * PageSize
    BY <1>1, <2>1, MulOrder
  <2> DEFINE a == p * PageSize
             q == FrameOf(a)
  <2>3. q \in Nat /\ q <= p
    BY Zenon, <2>1, <2>2, DownFrame
  <2>4. CASE p = 0
    <3>1. a = 0
      BY <1>1, <2>4
    <3>2. q = p
      BY <2>1, <2>3, <2>4
    <3> QED
      BY <1>1, <3>1, <3>2 DEF FrameOf
  <2>5. CASE p # 0
    <3>1. p - 1 \in Nat /\ (p - 1) + 1 = p
      BY <2>1, <2>5
    <3>2. ~(q <= p - 1)
      <4>1. q <= p - 1 <=> a < ((p - 1) + 1) * PageSize
        BY Zenon, <2>1, <3>1, DownFrame
      <4>2. ~(a < a)
        BY <2>1
      <4> QED
        BY <3>1, <4>1, <4>2, Zenon
    <3>3. q = p
      BY <2>1, <2>3, <3>1, <3>2
    <3>4. ~(FrameOf(HeapSize - 1) <= p - 1)
      BY <1>2, <2>1, <3>1 DEF LastPage, FrameOf
    <3>5. ~(HeapSize - 1 < a)
      <4>1. FrameOf(HeapSize - 1) <= p - 1 <=> HeapSize - 1 < ((p - 1) + 1) * PageSize
        BY Zenon, <1>1, <3>1, DownFrame
      <4> QED
        BY <3>1, <3>4, <4>1, Zenon
    <3>6. a \in 0 .. HeapSize - 1
      BY <1>1, <2>1, <3>5
    <3> QED
      BY Zenon, <3>3, <3>6 DEF FrameOf
  <2> QED
    BY Zenon, <2>4, <2>5
<1>5. HeapPages = 0 .. LastPage
  BY <1>3, <1>4, Zenon DEF HeapPages
<1>6. LastPage <= HeapSize \div PageSize /\ HeapSize \div PageSize \in Nat
  <2> DEFINE z == FrameOf(HeapSize)
  <2>1. z \in Nat
    BY Zenon, <1>1, DownFrame
  <2>2. HeapSize < (z + 1) * PageSize
    <3>1. z <= z
      BY <2>1
    <3> QED
      BY Zenon, <1>1, <2>1, <3>1, DownFrame
  <2>3. HeapSize - 1 < (z + 1) * PageSize
    <3>1. (z + 1) * PageSize \in Nat
      BY <1>1, <2>1
    <3> QED
      BY <1>1, <2>2, <3>1
  <2>4. FrameOf(HeapSize - 1) <= z
    BY Zenon, <1>1, <2>1, <2>3, DownFrame
  <2> QED
    BY Zenon, <2>1, <2>4 DEF FrameOf, LastPage
<1>7. ASSUME NEW p \in 0 .. LastPage PROVE NewTables[p] \in Nat
  <2>1. p \in 0 .. HeapSize \div PageSize
    BY <1>2, <1>6
  <2> QED
    BY Zenon, <2>1, HeapOK
<1> QED
  BY Zenon, <1>2, <1>5, <1>7

(* The demands, and that they are finitely many.                           *)
LEMMA DemandFacts ==
  /\ IsFiniteSet(Demands)
  /\ \A p \in 0 .. LastPage : \A t \in 0 .. NewTables[p] : <<p, t>> \in Demands
  /\ \A d \in Demands : /\ d = <<d[1], d[2]>> /\ d[1] \in 0 .. LastPage
                        /\ d[2] \in 0 .. NewTables[d[1]]
<1> DEFINE Of(p) == {p} \X (0 .. NewTables[p])
           P == 0 .. LastPage
           T == {Of(p) : p \in P}
           f == [p \in P |-> Of(p)]
<1>1. Demands = UNION T
  BY HeapPageFacts, Zenon DEF Demands
<1>2. IsFiniteSet(P)
  BY HeapPageFacts, FS_Interval
<1>3. f \in Surjection(P, T)
  <2> HIDE DEF P
  <2> QED
    BY Zenon DEF Surjection
<1>4. ASSUME NEW S \in T PROVE IsFiniteSet(S)
  <2>1. PICK p \in P : S = Of(p)
    BY <1>4, Zenon
  <2>2. IsFiniteSet(0 .. NewTables[p])
    <3>1. NewTables[p] \in Nat
      BY HeapPageFacts, Zenon
    <3>2. 0 \in Int /\ NewTables[p] \in Int
      BY <3>1
    <3> QED
      BY <3>2, FS_Interval, Zenon
  <2>3. IsFiniteSet({p})
    BY Zenon, FS_Singleton
  <2>4. IsFiniteSet({p} \X (0 .. NewTables[p]))
    BY <2>2, <2>3, FS_Product, Zenon
  <2> QED
    BY <2>1, <2>4, Zenon
<1>5. IsFiniteSet(Demands)
  <2>1. IsFiniteSet(T)
    <3> HIDE DEF f, T, P
    <3> QED
      BY Zenon, <1>2, <1>3, FS_Surjection
  <2> HIDE DEF T
  <2> QED
    BY Zenon, <1>1, <1>4, <2>1, FS_UNION
<1>6. ASSUME NEW p \in P, NEW t \in 0 .. NewTables[p] PROVE <<p, t>> \in Demands
  <2>1. <<p, t>> \in Of(p)
    BY Zenon, <1>6
  <2> QED
    BY <1>1, <2>1, Zenon
<1>7. ASSUME NEW d \in Demands
      PROVE  d = <<d[1], d[2]>> /\ d[1] \in P /\ d[2] \in 0 .. NewTables[d[1]]
  <2>1. PICK p \in P : d \in Of(p)
    BY <1>1, <1>7, Zenon
  <2> QED
    BY <2>1
<1> QED
  BY Zenon, <1>5, <1>6, <1>7

-----------------------------------------------------------------------------
(* One frame for every demand met.                                         *)

LEMMA InitDemandInv == HeapInit => DemandInv
<1> SUFFICES ASSUME HeapInit PROVE DemandInv
  BY Zenon
<1>1. pc = "frame" /\ page = 0 /\ allocated = {}
  BY Zenon DEF HeapInit, Init
<1>2. Met = {}
  <2>1. \A d \in Demands : ~(d[1] < page)
    BY <1>1, DemandFacts, HeapPageFacts
  <2> QED
    BY Zenon, <1>1, <2>1 DEF Met
<1>3. \A p \in in_use \cap HeapPages : p >= page
  BY <1>1, HeapPageFacts
<1> QED
  BY <1>1, <1>2, <1>3, Zenon DEF DemandInv, PanicHasCause

(* A frame taken for a demand not met before.                              *)
LEMMA MeetDemand ==
  ASSUME HeapInv, DemandInv, pc \in {"frame", "map"}, Allocate,
         NEW d, d \notin Met, Met' = Met \cup {d}
  PROVE  Cardinality(allocated') = Cardinality(Met')
<1>1. PICK f \in Pool \ allocated : allocated' = allocated \cup {f}
  BY Zenon, AllocateFacts DEF HeapInv
<1>2. IsFiniteSet(allocated)
  <2>1. num_frames \in Nat /\ allocated \subseteq 0 .. num_frames - 1
    BY Zenon DEF HeapInv, FrameInv, TypeOK
  <2>2. IsFiniteSet(0 .. num_frames - 1)
    BY <2>1, FS_Interval
  <2> QED
    BY Zenon, <2>1, <2>2, FS_Subset
<1>3. IsFiniteSet(Met)
  <2>1. Met \in SUBSET Demands
    BY Zenon DEF Met
  <2> QED
    BY Zenon, <2>1, DemandFacts, FS_Subset
<1>4. Cardinality(allocated') = Cardinality(allocated) + 1
  BY Zenon, <1>1, <1>2, FS_AddElement
<1>5. Cardinality(Met') = Cardinality(Met) + 1
  BY Zenon, <1>3, FS_AddElement
<1>6. Cardinality(allocated) = Cardinality(Met)
  BY Zenon DEF DemandInv
<1> QED
  BY <1>4, <1>5, <1>6, Zenon

(* No frame: the pool is used up while a demand is not met.                *)
LEMMA UnmetDemand ==
  ASSUME HeapInv, HeapInv', DemandInv, pc \in {"frame", "map"}, AllocateNone,
         NEW d \in Demands, d \notin Met
  PROVE  bitmap_bytes = 0 \/ Cardinality(Pool) < Needed
<1> SUFFICES ASSUME bitmap_bytes # 0 PROVE Cardinality(Pool) < Needed
  BY Zenon
<1>1. Pool \subseteq allocated
  <2>1. /\ result' = "None" /\ UNCHANGED <<bitmap_bytes, allocated>> /\ UNCHANGED config
    BY Zenon DEF AllocateNone, config
  <2>2. Pool' = Pool
    BY Zenon, <2>1, PoolConstant
  <2> QED
    BY Zenon, <2>1, <2>2 DEF HeapInv, FrameInv, NoneOnlyWhenExhausted
<1>2. IsFiniteSet(allocated)
  <2>1. num_frames \in Nat /\ allocated \subseteq 0 .. num_frames - 1
    BY Zenon DEF HeapInv, FrameInv, TypeOK
  <2>2. IsFiniteSet(0 .. num_frames - 1)
    BY <2>1, FS_Interval
  <2> QED
    BY Zenon, <2>1, <2>2, FS_Subset
<1>3. IsFiniteSet(Pool) /\ Cardinality(Pool) <= Cardinality(allocated)
  BY Zenon, <1>1, <1>2, FS_Subset
<1>4. /\ IsFiniteSet(Met) /\ Cardinality(Met) <= Cardinality(Demands)
      /\ Cardinality(Demands) # Cardinality(Met)
  <2>1. Met \in SUBSET Demands /\ Met # Demands
    BY Zenon DEF Met
  <2> QED
    BY Zenon, <2>1, DemandFacts, FS_Subset
<1>5. Cardinality(allocated) = Cardinality(Met)
  BY Zenon DEF DemandInv
<1>6. /\ Cardinality(Pool) \in Nat /\ Cardinality(allocated) \in Nat
      /\ Cardinality(Met) \in Nat /\ Cardinality(Demands) \in Nat
  BY Zenon, <1>2, <1>3, <1>4, DemandFacts, FS_CardinalityType
<1> QED
  BY <1>3, <1>4, <1>5, <1>6 DEF Needed

LEMMA NextDemandInv ==
  HeapInv /\ HeapInv' /\ DemandInv /\ [HeapNext]_hvars => DemandInv'
<1> SUFFICES ASSUME HeapInv, HeapInv', DemandInv, [HeapNext]_hvars PROVE DemandInv'
  BY Zenon
<1>1. /\ page \in Nat /\ LastPage \in Nat
      /\ \A p \in 0 .. LastPage : NewTables[p] \in Nat
  BY Zenon, HeapPageFacts DEF HeapInv
<1>2. \A d \in Demands : /\ d = <<d[1], d[2]>> /\ d[1] \in Nat /\ d[1] <= LastPage
                         /\ d[2] \in Nat /\ d[2] <= NewTables[d[1]]
                         /\ NewTables[d[1]] \in Nat
  <2>1. SUFFICES ASSUME NEW d \in Demands
                 PROVE  /\ d[1] \in Nat /\ d[1] <= LastPage
                        /\ d[2] \in Nat /\ d[2] <= NewTables[d[1]]
                        /\ NewTables[d[1]] \in Nat
    BY DemandFacts, Zenon
  <2>2. d[1] \in 0 .. LastPage /\ d[2] \in 0 .. NewTables[d[1]]
    BY DemandFacts, Zenon
  <2>3. NewTables[d[1]] \in Nat
    BY <1>1, <2>2, Zenon
  <2> QED
    BY <1>1, <2>2, <2>3
<1>0. in_use' = in_use
  BY Zenon DEF HeapNext, AllocatePageFrame, CreateTable, MapPage, InitHeapFails, MapToRefuses,
               InitAllocator, Halted, ClientAllocate, ClientFree, hvars, heap
<1>3. CASE AllocatePageFrame
  <2>1. /\ pc = "frame" /\ pc' = "map" /\ page <= LastPage /\ Allocate
        /\ missing' = NewTables[page] /\ page' = page
    BY Zenon, <1>3 DEF AllocatePageFrame
  <2>2. page \in 0 .. LastPage /\ NewTables[page] \in Nat
    BY <1>1, <2>1
  <2>3. <<page, 0>> \in Demands
    <3>1. 0 \in 0 .. NewTables[page]
      BY <2>2
    <3> QED
      BY <2>2, <3>1, DemandFacts, Zenon
  <2>4. Met' = Met \cup {<<page, 0>>} /\ <<page, 0>> \notin Met
    <3>1. Met = {d \in Demands : d[1] < page}
      BY Zenon, <2>1 DEF Met
    <3>2. Met' = {d \in Demands : \/ d[1] < page
                                  \/ d[1] = page /\ d[2] + NewTables[page] <= NewTables[page]}
      BY Zenon, <2>1 DEF Met
    <3>3. \A d \in Demands :
            d[1] = page /\ d[2] + NewTables[page] <= NewTables[page] <=> d = <<page, 0>>
      BY <1>2, <2>2
    <3>4. ~(<<page, 0>>[1] < page)
      BY <1>1
    <3> QED
      BY Zenon, <2>3, <3>1, <3>2, <3>3, <3>4
  <2>5. Cardinality(allocated') = Cardinality(Met')
    BY Zenon, <2>1, <2>4, MeetDemand
  <2>6. missing' \in 0 .. NewTables[page']
    BY <2>1, <2>2
  <2> QED
    BY Zenon, <1>0, <2>1, <2>5, <2>6 DEF DemandInv, PanicHasCause
<1>4. CASE CreateTable
  <2>1. /\ pc = "map" /\ pc' = "map" /\ Allocate /\ missing > 0
        /\ missing' = missing - 1 /\ page' = page
    BY Zenon, <1>4 DEF CreateTable
  <2>2. /\ page \in 0 .. LastPage /\ NewTables[page] \in Nat
        /\ missing \in 0 .. NewTables[page] /\ page <= LastPage
    BY <1>1, <2>1 DEF DemandInv
  <2> DEFINE t == NewTables[page] - missing + 1
  <2>3. t \in 0 .. NewTables[page] /\ t \in Nat
    BY <2>1, <2>2
  <2>4. <<page, t>> \in Demands
    BY <2>2, <2>3, DemandFacts, Zenon
  <2>5. Met' = Met \cup {<<page, t>>} /\ <<page, t>> \notin Met
    <3>1. Met = {d \in Demands : \/ d[1] < page
                                 \/ d[1] = page /\ d[2] + missing <= NewTables[page]}
      BY Zenon, <2>1 DEF Met
    <3>2. Met' = {d \in Demands : \/ d[1] < page
                                  \/ d[1] = page /\ d[2] + (missing - 1) <= NewTables[page]}
      BY Zenon, <2>1 DEF Met
    <3>3. \A d \in Demands :
            d[1] = page /\ d[2] + (missing - 1) <= NewTables[page]
              <=> (d[1] = page /\ d[2] + missing <= NewTables[page]) \/ d = <<page, t>>
      BY <1>2, <2>1, <2>2
    <3>4. ~(<<page, t>>[1] < page) /\ ~(<<page, t>>[2] + missing <= NewTables[page])
      BY <1>1, <2>2
    <3> HIDE DEF t
    <3> QED
      BY Zenon, <2>4, <3>1, <3>2, <3>3, <3>4
  <2>6. Cardinality(allocated') = Cardinality(Met')
    BY Zenon, <2>1, <2>5, MeetDemand
  <2>7. missing' \in 0 .. NewTables[page']
    BY <2>1, <2>2
  <2> QED
    BY Zenon, <1>0, <2>1, <2>2, <2>6, <2>7 DEF DemandInv, PanicHasCause
<1>5. CASE MapPage
  <2>1. /\ pc = "map" /\ pc' = "frame" /\ missing = 0 /\ page' = page + 1
        /\ UNCHANGED allocated /\ page \notin in_use
    BY Zenon, <1>5 DEF MapPage, vars
  <2>2. Met' = Met
    <3>1. Met = {d \in Demands : \/ d[1] < page
                                 \/ d[1] = page /\ d[2] + 0 <= NewTables[page]}
      BY Zenon, <2>1 DEF Met
    <3>2. Met' = {d \in Demands : d[1] < page + 1}
      BY Zenon, <2>1 DEF Met
    <3>3. \A d \in Demands :
            d[1] < page + 1 <=> d[1] < page \/ (d[1] = page /\ d[2] + 0 <= NewTables[page])
      BY <1>1, <1>2
    <3> QED
      BY Zenon, <3>1, <3>2, <3>3
  <2> QED
    <3>1. \A p \in in_use \cap HeapPages : p >= page /\ p # page /\ p \in Nat
      BY <2>1, HeapPageFacts DEF DemandInv
    <3>2. \A p \in in_use \cap HeapPages : p >= page + 1
      BY <1>1, <3>1
    <3> QED
      BY Zenon, <1>0, <2>1, <2>2, <3>2 DEF DemandInv, PanicHasCause
<1>6. CASE InitHeapFails
  <2>1. /\ pc' = "panic" /\ AllocateNone
        /\ \/ pc = "frame" /\ page <= LastPage
           \/ pc = "map" /\ missing > 0
    BY Zenon, <1>6 DEF InitHeapFails
  <2>2. page \in 0 .. LastPage /\ NewTables[page] \in Nat
    BY <1>1, <2>1 DEF DemandInv
  <2>3. <<page, NewTables[page]>> \in Demands
    <3>1. NewTables[page] \in 0 .. NewTables[page]
      BY <2>2
    <3> QED
      BY <2>2, <3>1, DemandFacts, Zenon
  <2>4. <<page, NewTables[page]>> \notin Met
    <3>1. ~(page < page)
      BY <1>1
    <3>2. pc = "map" => ~(NewTables[page] + missing <= NewTables[page])
      BY <2>1, <2>2 DEF DemandInv
    <3> QED
      BY Zenon, <3>1, <3>2 DEF Met
  <2>5. bitmap_bytes = 0 \/ Cardinality(Pool) < Needed
    BY <2>1, <2>3, <2>4, UnmetDemand, Zenon
  <2>6. bitmap_bytes' = bitmap_bytes /\ Pool' = Pool
    <3>1. UNCHANGED config
      BY Zenon, <2>1 DEF AllocateNone
    <3> QED
      BY Zenon, <3>1, PoolConstant DEF config
  <2>7. PanicHasCause'
    BY Zenon, <2>1, <2>5, <2>6 DEF PanicHasCause, Needed
  <2> QED
    BY Zenon, <2>1, <2>7 DEF DemandInv
<1>7. CASE InitAllocator \/ ClientAllocate \/ \E i \in client : ClientFree(i)
  <2>1. pc' = "ready" /\ page' = page /\ pc \in {"frame", "ready"}
    BY Zenon, <1>7 DEF InitAllocator, ClientAllocate, ClientFree
  <2>2. \A p \in in_use \cap HeapPages : p >= page
    BY Zenon, <2>1 DEF DemandInv
  <2>3. page > LastPage
    BY Zenon, <2>1 DEF HeapInv
  <2>4. in_use \cap HeapPages = {}
    BY <1>1, <2>2, <2>3, HeapPageFacts
  <2> QED
    BY Zenon, <1>0, <2>1, <2>2, <2>4 DEF DemandInv, PanicHasCause
<1>8. CASE Halted \/ UNCHANGED hvars
  <2>1. UNCHANGED <<pc, page, missing, allocated, bitmap_bytes>> /\ UNCHANGED config
    BY Zenon, <1>8 DEF Halted, hvars, heap, vars, config
  <2>2. Met' = Met /\ Pool' = Pool
    BY Zenon, <2>1, PoolConstant DEF Met
  <2> QED
    BY <1>0, <2>1, <2>2, Zenon DEF DemandInv, PanicHasCause, Needed
<1>9. CASE MapToRefuses
  <2>1. pc = "map" /\ pc' = "panic" /\ page \in in_use
    BY Zenon, <1>9 DEF MapToRefuses
  <2>2. page \in HeapPages
    BY <1>1, <2>1, HeapPageFacts DEF DemandInv
  <2> QED
    BY Zenon, <1>0, <2>1, <2>2 DEF DemandInv, PanicHasCause
<1> QED
  BY Zenon, <1>3, <1>4, <1>5, <1>6, <1>7, <1>8, <1>9 DEF HeapNext

(* The panic "heap initialization failed" comes only where the pool holds  *)
(* fewer frames than the heap's pages and the tables above them, where     *)
(* there is no bitmap, or where the boot loader left a page of the heap's  *)
(* range mapped: no frame is wasted on the way.  And where there is such a *)
(* page, init_heap does not succeed.                                       *)
THEOREM PanicIsJustified == HeapSpec => []PanicHasCause
<1>1. DemandInv => PanicHasCause
  BY Zenon DEF DemandInv
<1> QED
  BY <1>1, HeapInductive, InitDemandInv, NextDemandInv, PTL DEF HeapSpec

-----------------------------------------------------------------------------
(* Minima.                                                                 *)

(* Min of a non-empty set of naturals is its least element.                *)
LEMMA MinOf ==
  ASSUME NEW T, T \subseteq Nat, T # {}
  PROVE  Min(T) \in T /\ \A y \in T : Min(T) <= y
<1> DEFINE R == OpToRel(<, Nat)
<1>1. IsWellFoundedOn(R, Nat)
  BY NatLessThanWellFounded, Zenon
<1>2. \A x, y \in Nat : x < y => <<x, y>> \in R
  BY Zenon DEF OpToRel
<1> HIDE DEF R
<1>3. PICK x \in T : \A y \in T : ~(<<y, x>> \in R)
  BY <1>1, WFMin, Zenon
<1>4. ASSUME NEW y \in T PROVE x <= y
  <2>1. x \in Nat /\ y \in Nat /\ ~(y < x)
    BY <1>2, <1>3, Zenon
  <2> QED
    BY <2>1
<1> QED
  BY <1>4, Zenon DEF Min

(* A least element is the minimum.                                         *)
LEMMA MinIs ==
  ASSUME NEW T, T \subseteq Nat, NEW x \in T, \A y \in T : x <= y
  PROVE  Min(T) = x
<1>1. Min(T) \in T /\ \A y \in T : Min(T) <= y
  BY MinOf, Zenon
<1>2. Min(T) \in Nat /\ x \in Nat /\ Min(T) <= x /\ x <= Min(T)
  BY <1>1, Zenon
<1> QED
  BY <1>2

-----------------------------------------------------------------------------
(* The copying loops.                                                      *)

(* What the memory holds when the addresses in C have been copied.         *)
After(C) ==
  [a \in Addr |-> IF a \in C
                  THEN IF call.fn = "memset" THEN Fill
                       ELSE mem0[call.src + (a - call.dst)]
                  ELSE mem0[a]]

(* The arguments of the call as numbers.                                   *)
LEMMA CallFacts ==
  ASSUME MemInv
  PROVE  /\ call.dst \in Nat /\ call.src \in Nat /\ call.len \in Nat /\ off \in Nat
         /\ MemSize \in Nat /\ W \in Nat /\ W >= 2 /\ W <= 16
         /\ call.dst + call.len <= MemSize /\ call.src + call.len <= MemSize
         /\ off <= call.len
         /\ call.fn \in {"memcpy", "memset", "memmove", "memcmp"}
<1>1. MemSize \in Nat /\ MaxLen \in Nat /\ W \in Nat /\ W >= 2 /\ W <= 16
  BY BoundsOK
<1>2. call.dst \in Addr /\ call.src \in Addr /\ call.len \in 0 .. MaxLen /\ call.fn \in Fns
  BY Zenon DEF MemInv
<1>3. call.fn \in {"memcpy", "memset", "memmove", "memcmp"}
  BY <1>2, BoundsOK, Zenon
<1>4. off \in 0 .. call.len
  BY Zenon DEF MemInv
<1>5. call.dst + call.len <= MemSize /\ call.src + call.len <= MemSize
  BY Zenon DEF MemInv
<1> QED
  BY <1>1, <1>2, <1>3, <1>4, <1>5 DEF Addr

(* A store of n bytes adds them to what was copied before, if the source   *)
(* bytes it loads have not been overwritten.                               *)
LEMMA StoreCopies ==
  ASSUME MemInv, NEW C, C \subseteq Addr, mem = After(C),
         NEW at \in Nat, NEW n \in Nat, at + n <= call.len,
         call.fn # "memset" =>
           \A k \in at .. at + n - 1 : call.src + k \notin C,
         Store(at, n)
  PROVE  mem' = After(C \cup (call.dst + at .. call.dst + at + n - 1))
<1> DEFINE N == call.dst + at .. call.dst + at + n - 1
<1>1. /\ call.dst \in Nat /\ call.src \in Nat /\ call.len \in Nat /\ MemSize \in Nat
      /\ call.dst + call.len <= MemSize /\ call.src + call.len <= MemSize
  BY CallFacts, Zenon
<1>2. ASSUME NEW a \in Addr
      PROVE  mem'[a] = After(C \cup N)[a]
  <2>1. CASE a \in N /\ call.fn # "memset"
    <3>1. /\ call.src + (a - call.dst) \in Addr
          /\ call.src + (a - call.dst) \notin C
      <4>1. a - call.dst \in at .. at + n - 1
        BY <1>1, <2>1 DEF Addr
      <4>2. call.src + (a - call.dst) \in Addr
        BY <1>1, <4>1 DEF Addr
      <4> QED
        BY Zenon, <2>1, <4>1, <4>2
    <3>2. mem'[a] = mem[call.src + (a - call.dst)]
      BY Zenon, <2>1 DEF Store
    <3>3. mem[call.src + (a - call.dst)] = mem0[call.src + (a - call.dst)]
      BY Zenon, <3>1 DEF After
    <3> QED
      BY Zenon, <2>1, <3>2, <3>3 DEF After
  <2>2. CASE a \in N /\ call.fn = "memset"
    BY Zenon, <2>2 DEF Store, After
  <2>3. CASE a \notin N
    <3>1. mem'[a] = mem[a]
      BY Zenon, <2>3 DEF Store
    <3> QED
      BY Zenon, <2>3, <3>1 DEF After
  <2> QED
    BY Zenon, <2>1, <2>2, <2>3
<1>3. mem' = [a \in Addr |-> mem'[a]]
  BY Zenon DEF Store
<1>4. After(C \cup N) = [a \in Addr |-> After(C \cup N)[a]]
  BY Zenon DEF After
<1> QED
  BY Zenon, <1>2, <1>3, <1>4

(* A turn of a loop that copies n bytes from the front.                    *)
LEMMA ForwardInv ==
  ASSUME MemInv, loop \in Loops, NEW n \in Nat \ {0}, n <= Left, Forward(n),
         UNCHANGED <<call, mem0, ret>>
  PROVE  MemInv'
<1> DEFINE C == call.dst .. call.dst + off - 1
<1>1. /\ call.fn \in {"memcpy", "memset", "memmove"}
      /\ call.fn = "memmove" => call.dst < call.src
      /\ loop \notin BackLoops /\ loop \notin CmpLoops /\ loop \notin {"enter", "done"}
  BY Zenon, CallFacts DEF MemInv, Loops, BackLoops, CmpLoops
<1>2. mem = After(C) /\ C \subseteq Addr
  <2>1. Copied = C
    BY <1>1, Zenon DEF Copied
  <2>2. C \subseteq Addr
    BY CallFacts DEF Addr
  <2> QED
    BY <1>1, <2>1, <2>2, Zenon DEF MemInv, After
<1>3. off + n <= call.len /\ off' = off + n /\ loop' = loop /\ Store(off, n)
  BY CallFacts DEF Left, Forward
<1>4. ASSUME call.fn # "memset", NEW k \in off .. off + n - 1
      PROVE  call.src + k \notin C
  <2>1. CASE call.fn = "memcpy"
    <3>1. call.dst + call.len <= call.src \/ call.src + call.len <= call.dst
      BY <2>1, Zenon DEF MemInv, Disjoint
    <3> QED
      BY <1>3, <1>4, <3>1, CallFacts
  <2>2. CASE call.fn = "memmove"
    BY <1>1, <1>4, <2>2, CallFacts
  <2> QED
    BY Zenon, <1>1, <1>4, <2>1, <2>2
<1>5. mem' = After(C \cup (call.dst + off .. call.dst + off + n - 1))
  <2> HIDE DEF C
  <2> QED
    BY <1>2, <1>3, <1>4, CallFacts, StoreCopies, Zenon
<1>6. C \cup (call.dst + off .. call.dst + off + n - 1)
        = call.dst .. call.dst + off' - 1
  BY <1>3, CallFacts
<1>7. mem' = After(Copied)'
  <2>1. Copied' = call.dst .. call.dst + off' - 1
    BY <1>1, <1>3, Zenon DEF Copied
  <2> QED
    BY <1>5, <1>6, <2>1, Zenon DEF After
<1>8. (CopyCorrect /\ CompareSound)'
  BY Zenon, <1>1, <1>3 DEF CopyCorrect, CompareSound
<1>9. off' \in 0 .. call.len
  BY <1>3, CallFacts
<1> HIDE DEF C
<1> QED
  BY Zenon, <1>1, <1>3, <1>7, <1>8, <1>9 DEF MemInv, After, Disjoint

(* A turn of a loop that copies n bytes from the back.                     *)
LEMMA BackwardInv ==
  ASSUME MemInv, loop \in BackLoops, NEW n \in Nat \ {0}, n <= Left, Backward(n),
         UNCHANGED <<call, mem0, ret>>
  PROVE  MemInv'
<1> DEFINE C == call.dst + Left .. call.dst + call.len - 1
           at == Left - n
<1>1. /\ call.fn = "memmove" /\ call.src < call.dst
      /\ loop \notin Loops /\ loop \notin CmpLoops /\ loop \notin {"enter", "done"}
  BY Zenon DEF MemInv, Loops, BackLoops, CmpLoops
<1>2. Left \in Nat /\ Left = call.len - off /\ at \in Nat /\ at + n = Left
  BY CallFacts DEF Left
<1>3. mem = After(C) /\ C \subseteq Addr
  <2>1. Copied = C
    BY <1>1, Zenon DEF Copied
  <2>2. C \subseteq Addr
    BY <1>2, CallFacts DEF Addr
  <2> QED
    BY <1>1, <2>1, <2>2, Zenon DEF MemInv, After
<1>4. off' = off + n /\ loop' = loop /\ Store(at, n)
  BY Zenon DEF Backward
<1>5. \A k \in at .. at + n - 1 : call.src + k \notin C
  BY <1>1, <1>2, CallFacts
<1>6. mem' = After(C \cup (call.dst + at .. call.dst + at + n - 1))
  <2>1. at + n <= call.len
    BY <1>2, CallFacts
  <2> HIDE DEF C, at
  <2> QED
    BY Zenon, <1>2, <1>3, <1>4, <1>5, <2>1, StoreCopies
<1>7. Left' = at
  BY <1>2, <1>4, CallFacts DEF Left
<1>8. C \cup (call.dst + at .. call.dst + at + n - 1)
        = call.dst + Left' .. call.dst + call.len - 1
  BY <1>2, <1>7, CallFacts
<1>9. mem' = After(Copied)'
  <2>1. Copied' = call.dst + Left' .. call.dst + call.len - 1
    BY <1>4, Zenon DEF Copied
  <2> QED
    BY <1>6, <1>8, <2>1, Zenon DEF After
<1>10. (CopyCorrect /\ CompareSound)'
  BY Zenon, <1>1, <1>4 DEF CopyCorrect, CompareSound
<1>11. off' \in 0 .. call.len
  BY <1>2, <1>4, CallFacts
<1> HIDE DEF C, at
<1> QED
  BY Zenon, <1>1, <1>4, <1>9, <1>10, <1>11 DEF MemInv, After, Disjoint

(* A loop that ends for another one of its kind leaves everything else.    *)
LEMMA NextLoop ==
  ASSUME MemInv, UNCHANGED <<call, mem0, mem, off, ret>>,
         \/ loop \in Loops /\ loop' \in Loops
         \/ loop \in BackLoops /\ loop' \in BackLoops
         \/ loop \in CmpLoops /\ loop' \in CmpLoops
  PROVE  MemInv'
<1>1. loop # "done" /\ loop' # "done" /\ loop' # "enter"
  BY Zenon DEF Loops, BackLoops, CmpLoops
<1>2. loop' \in {"enter", "done"} \cup Loops \cup BackLoops \cup CmpLoops
  BY Zenon
<1>3. /\ loop' \in Loops <=> loop \in Loops
      /\ loop' \in BackLoops <=> loop \in BackLoops
      /\ loop' \in CmpLoops <=> loop \in CmpLoops
  BY Zenon DEF Loops, BackLoops, CmpLoops
<1>4. Copied' = Copied
  BY <1>3, Zenon DEF Copied, Left
<1>5. (CopyCorrect /\ CompareSound)'
  BY Zenon, <1>1 DEF CopyCorrect, CompareSound
<1> QED
  BY Zenon, <1>1, <1>2, <1>3, <1>4, <1>5 DEF MemInv, Disjoint

(* A copying loop that ends with nothing left has done what was asked.     *)
LEMMA CopyDone ==
  ASSUME MemInv, UNCHANGED <<call, mem0, mem, off, ret>>,
         loop \in Loops \cup BackLoops, ~(Left > 0), loop' = "done"
  PROVE  MemInv'
<1>1. off = call.len /\ Left = 0
  BY CallFacts DEF Left
<1>2. call.fn # "memcmp"
  BY Zenon DEF MemInv
<1>3. Copied = call.dst .. call.dst + call.len - 1
  BY <1>1, <1>2, CallFacts DEF Copied
<1>4. mem = After(call.dst .. call.dst + call.len - 1)
  <2>1. loop # "done"
    BY Zenon DEF Loops, BackLoops
  <2> QED
    BY <1>3, <2>1, Zenon DEF MemInv, After
<1>5. CopyCorrect' /\ CompareSound'
  BY Zenon, <1>2, <1>4 DEF CopyCorrect, CompareSound, After
<1>6. loop' \notin Loops /\ loop' \notin BackLoops /\ loop' \notin CmpLoops
  BY Zenon DEF Loops, BackLoops, CmpLoops
<1> QED
  BY Zenon, <1>5, <1>6 DEF MemInv, Disjoint

-----------------------------------------------------------------------------
(* memcmp.                                                                 *)

(* The offsets at which the regions of the call differ.                    *)
Differ == {k \in 0 .. call.len - 1 : mem0[call.dst + k] # mem0[call.src + k]}

(* The order is decided by a difference that has none before it.           *)
LEMMA OrderAt ==
  ASSUME MemInv, NEW m \in Differ, \A k \in 0 .. m - 1 : k \notin Differ
  PROVE  Order = Sign(mem0[call.dst + m] - mem0[call.src + m])
<1>1. Differ \subseteq Nat
  BY CallFacts DEF Differ
<1>2. \A k \in Differ : m <= k
  BY <1>1
<1>3. Min(Differ) = m
  BY <1>1, <1>2, MinIs, Zenon
<1>4. Differ # {}
  BY Zenon
<1> QED
  BY <1>3, <1>4, Zenon DEF Order, Differ

(* While memcmp runs the memory is what it was.                            *)
LEMMA CompareReads ==
  ASSUME MemInv, loop \in CmpLoops
  PROVE  /\ mem = mem0 /\ ret = 0 /\ call.fn = "memcmp"
         /\ \A k \in 0 .. off - 1 : k \notin Differ
<1>1. loop # "done" /\ loop \notin BackLoops /\ call.fn = "memcmp"
  BY Zenon DEF MemInv, CmpLoops, BackLoops
<1>2. Copied = {}
  BY <1>1, Zenon DEF Copied
<1>3. mem = [a \in Addr |-> mem0[a]]
  BY Zenon, <1>1, <1>2 DEF MemInv
<1>4. mem = mem0
  BY Zenon, <1>3 DEF MemInv
<1>5. \A k \in 0 .. off - 1 : mem0[call.dst + k] = mem0[call.src + k]
  BY Zenon DEF MemInv
<1> QED
  BY Zenon, <1>1, <1>4, <1>5 DEF MemInv, Differ

(* A return of memcmp with a sound result keeps the invariant.             *)
LEMMA ReturnInv ==
  ASSUME MemInv, loop \in CmpLoops, NEW r, Return(r), UNCHANGED <<call, mem0>>,
         r # 0 \/ Order = 0 => Sign(r) = Order
  PROVE  MemInv'
<1>1. loop' = "done" /\ ret' = r /\ mem' = mem0 /\ off' = off /\ call.fn = "memcmp"
  BY Zenon, CompareReads DEF Return
<1>2. CompareSound'
  BY Zenon, <1>1 DEF CompareSound, Order
<1>3. CopyCorrect'
  <2>1. mem0 = [a \in Addr |-> mem0[a]]
    BY Zenon DEF MemInv
  <2> QED
    BY Zenon, <1>1, <2>1 DEF CopyCorrect
<1>4. loop' \notin Loops /\ loop' \notin BackLoops /\ loop' \notin CmpLoops
  BY Zenon, <1>1 DEF Loops, BackLoops, CmpLoops
<1> QED
  BY Zenon, <1>1, <1>2, <1>3, <1>4 DEF MemInv, Disjoint

(* slow_byte_cmp finds the first difference when there is none before.     *)
LEMMA SlowByteCmpSound ==
  ASSUME MemInv, loop \in CmpLoops, off + W <= call.len
  PROVE  LET r == SlowByteCmp(off, W)
         IN  r # 0 \/ Order = 0 => Sign(r) = Order
<1> DEFINE D == Diffs(off, W)
           r == SlowByteCmp(off, W)
<1>1. mem = mem0 /\ \A k \in 0 .. off - 1 : k \notin Differ
  BY Zenon, CompareReads
<1>2. D = Differ \cap (off .. off + W - 1)
  BY <1>1, CallFacts DEF Diffs, Differ, ByteA, ByteB
<1>3. CASE D = {}
  <2>1. r = 0
    BY <1>3, Zenon DEF SlowByteCmp
  <2> QED
    BY <2>1 DEF Sign
<1>4. CASE D # {}
  <2> DEFINE m == Min(D)
  <2>1. D \subseteq Nat
    BY CallFacts DEF Diffs
  <2>2. m \in D /\ \A k \in D : m <= k
    BY Zenon, <1>4, <2>1, MinOf
  <2>3. r = mem0[call.dst + m] - mem0[call.src + m]
    BY <1>1, <1>4, Zenon DEF SlowByteCmp, ByteA, ByteB
  <2> HIDE DEF m, D, r
  <2>4. ASSUME NEW k \in 0 .. m - 1 PROVE k \notin Differ
    <3>1. m \in off .. off + W - 1 /\ off \in Nat /\ W \in Nat
      BY Zenon, <1>2, <2>2, CallFacts
    <3>2. CASE k < off
      BY <1>1, <3>1, <3>2
    <3>3. CASE ~(k < off)
      <4>1. k \in off .. off + W - 1 /\ ~(m <= k)
        BY <3>1, <3>3
      <4> QED
        BY Zenon, <1>2, <2>2, <4>1
    <3> QED
      BY Zenon, <3>2, <3>3
  <2>5. m \in Differ
    BY Zenon, <1>2, <2>2
  <2>6. Order = Sign(r)
    BY Zenon, <2>3, <2>4, <2>5, OrderAt
  <2> QED
    BY Zenon, <2>6 DEF r
<1> QED
  BY Zenon, <1>3, <1>4

(* A vector of the comparison always ends it: the mask of at most 16 bits  *)
(* is never -1.                                                            *)
LEMMA CompareInv ==
  ASSUME MemInv, loop \in CmpLoops, NEW V, V \subseteq Nat, 0 \in V, Compare(V),
         off + W <= call.len, UNCHANGED <<call, mem0>>
  PROVE  MemInv'
<1> DEFINE stop == {v \in V : Mask(off + v * W) # MinusOne}
<1>1. ASSUME NEW at PROVE Mask(at) # MinusOne
  <2>1. 31 \in MinusOne /\ 31 \notin Mask(at)
    BY CallFacts DEF MinusOne, Mask
  <2> QED
    BY Zenon, <2>1
<1>2. stop = V
  <2> HIDE DEF MinusOne
  <2> QED
    BY Zenon, <1>1
<1>3. Min(stop) = 0
  <2>1. \A v \in V : 0 <= v
    OBVIOUS
  <2> QED
    BY <1>2, <2>1, MinIs, Zenon
<1>4. Return(SlowByteCmp(off + Min(stop) * W, W))
  <2>1. stop # {}
    BY Zenon, <1>2
  <2> QED
    BY <2>1, Zenon DEF Compare
<1>5. off + Min(stop) * W = off
  BY <1>3, CallFacts
<1>6. Return(SlowByteCmp(off, W))
  BY Zenon, <1>4, <1>5
<1> QED
  BY Zenon, <1>6, SlowByteCmpSound, ReturnInv

(* A turn of memcmp's last loop.                                           *)
LEMMA CmpTailInv ==
  ASSUME MemInv, CmpTail
  PROVE  MemInv'
<1>1. loop \in CmpLoops /\ loop = "cmp_tail" /\ UNCHANGED <<call, mem0>>
  BY Zenon DEF CmpTail, CmpLoops
<1>2. mem = mem0 /\ ret = 0 /\ \A k \in 0 .. off - 1 : k \notin Differ
  BY Zenon, <1>1, CompareReads
<1>3. CASE Left = 0
  <2>1. off = call.len
    BY <1>3, CallFacts DEF Left
  <2>2. Differ = {}
    <3>1. Differ \subseteq 0 .. off - 1
      BY Zenon, <2>1 DEF Differ
    <3> QED
      BY Zenon, <1>2, <3>1
  <2>3. Order = 0
    BY <2>2, Zenon DEF Order, Differ
  <2>4. Return(0)
    BY Zenon, <1>3 DEF CmpTail
  <2>5. Sign(0) = Order
    BY <2>3 DEF Sign
  <2> QED
    BY Zenon, <1>1, <2>4, <2>5, ReturnInv
<1>4. CASE Left # 0 /\ ByteA(off) # ByteB(off)
  <2> DEFINE r == ByteA(off) - ByteB(off)
  <2>1. off \in Differ
    BY <1>2, <1>4, CallFacts DEF Differ, Left, ByteA, ByteB
  <2>2. r = mem0[call.dst + off] - mem0[call.src + off]
    BY <1>2, Zenon DEF ByteA, ByteB
  <2>3. Order = Sign(r)
    BY Zenon, <1>2, <2>1, <2>2, OrderAt
  <2>4. Return(r)
    BY Zenon, <1>4 DEF CmpTail
  <2> HIDE DEF r
  <2> QED
    BY Zenon, <1>1, <2>3, <2>4, ReturnInv
<1>5. CASE Left # 0 /\ ByteA(off) = ByteB(off)
  <2>1. off' = off + 1 /\ UNCHANGED <<loop, mem, ret>>
    BY Zenon, <1>5 DEF CmpTail, Advance
  <2>2. off' \in 0 .. call.len
    BY <1>5, <2>1, CallFacts DEF Left
  <2>3. \A k \in 0 .. off' - 1 : mem0[call.dst + k] = mem0[call.src + k]
    <3>1. mem0[call.dst + off] = mem0[call.src + off]
      BY Zenon, <1>2, <1>5 DEF ByteA, ByteB
    <3>2. \A k \in 0 .. off - 1 : mem0[call.dst + k] = mem0[call.src + k]
      BY Zenon, <1>1 DEF MemInv
    <3>3. \A k \in 0 .. off' - 1 : k = off \/ k \in 0 .. off - 1
      BY <2>1, CallFacts
    <3> QED
      BY Zenon, <3>1, <3>2, <3>3
  <2>4. Copied = {} /\ Copied' = {}
    <3>1. call.fn = "memcmp" /\ loop \notin BackLoops
      BY Zenon, <1>1, CompareReads DEF BackLoops
    <3> QED
      BY <1>1, <2>1, <3>1, Zenon DEF Copied
  <2>5. (CopyCorrect /\ CompareSound)'
    BY Zenon, <1>1, <2>1 DEF CopyCorrect, CompareSound
  <2> QED
    BY Zenon, <1>1, <2>1, <2>2, <2>3, <2>4, <2>5
       DEF MemInv, Disjoint, Loops, BackLoops, CmpLoops
<1> QED
  BY Zenon, <1>3, <1>4, <1>5

-----------------------------------------------------------------------------
(* The invariant.                                                          *)

(* A call begins in a state that satisfies the invariant.                  *)
LEMMA InitMemInv == MemInit => MemInv
<1> SUFFICES ASSUME MemInit PROVE MemInv
  BY Zenon
<1>1. mem0 \in [Addr -> Int] /\ mem = mem0 /\ loop = "enter" /\ off = 0 /\ ret = 0
  BY Zenon, BoundsOK DEF MemInit
<1>2. call \in [fn : Fns, dst : Addr, src : Addr, len : 0 .. MaxLen]
  BY Zenon DEF MemInit
<1>3. 0 \in 0 .. call.len
  BY <1>2, BoundsOK
<1>4. Copied = {}
  <2>1. call.dst \in Nat
    BY <1>2, BoundsOK DEF Addr
  <2> QED
    BY <1>1, <2>1 DEF Copied, BackLoops
<1>5. mem = [a \in Addr |-> mem0[a]]
  BY Zenon, <1>1
<1>6. CopyCorrect /\ CompareSound
  BY Zenon, <1>1 DEF CopyCorrect, CompareSound
<1> QED
  BY Zenon, <1>1, <1>2, <1>3, <1>4, <1>5, <1>6
     DEF MemInit, MemInv, Loops, BackLoops, CmpLoops

(* The dispatch at the start of a call.                                    *)
LEMMA EnterInv ==
  ASSUME MemInv, Enter
  PROVE  MemInv'
<1>1. loop = "enter" /\ off = 0 /\ ret = 0 /\ UNCHANGED <<call, mem0, mem, off, ret>>
  BY Zenon DEF Enter, Goto, MemInv
<1>2. mem = mem0
  <2>1. Copied = {}
    BY <1>1, CallFacts DEF Copied, BackLoops
  <2>2. mem = [a \in Addr |-> mem0[a]]
    BY Zenon, <1>1, <2>1 DEF MemInv
  <2> QED
    BY Zenon, <2>2 DEF MemInv
<1>3. mem0 = [a \in Addr |-> mem0[a]]
  BY Zenon DEF MemInv
<1>4. CASE loop' = "done"
  <2>1. call.len = 0 \/ (call.fn = "memmove" /\ call.dst = call.src)
    BY Zenon, <1>4 DEF Enter, Goto
  <2>2. CopyCorrect'
    <3>1. CASE call.len = 0
      <4>1. call.dst .. call.dst + call.len - 1 = {}
        BY <3>1, CallFacts
      <4> QED
        BY Zenon, <1>1, <1>2, <1>3, <4>1 DEF CopyCorrect
    <3>2. CASE call.fn = "memmove" /\ call.dst = call.src
      <4>1. \A a \in Addr : call.src + (a - call.dst) = a
        BY <3>2, CallFacts DEF Addr
      <4> QED
        BY Zenon, <1>1, <1>2, <1>3, <3>2, <4>1 DEF CopyCorrect
    <3> QED
      BY Zenon, <2>1, <3>1, <3>2
  <2>3. CompareSound'
    <3>1. CASE call.fn # "memcmp"
      BY Zenon, <1>1, <3>1 DEF CompareSound
    <3>2. CASE call.fn = "memcmp"
      <4>1. Differ = {}
        BY <2>1, <3>2 DEF Differ
      <4>2. Order = 0
        BY <4>1, Zenon DEF Order, Differ
      <4>3. Order' = 0 /\ ret' = 0
        BY Zenon, <1>1, <4>2 DEF Order
      <4> QED
        BY <4>3 DEF CompareSound, Sign
    <3> QED
      BY Zenon, <3>1, <3>2
  <2> QED
    BY Zenon, <1>1, <1>4, <2>2, <2>3 DEF MemInv, Disjoint, Loops, BackLoops, CmpLoops
<1>5. CASE loop' # "done"
  <2>1. \/ /\ loop' = "align" /\ call.fn # "memcmp"
           /\ call.fn = "memmove" => call.dst < call.src
        \/ loop' = "back_align" /\ call.fn = "memmove" /\ call.src < call.dst
        \/ loop' = "cmp_block" /\ call.fn = "memcmp"
    BY <1>5, CallFacts DEF Enter, Goto
  <2>2. Copied' = {}
    BY <1>1, <2>1, CallFacts DEF Copied, Left, BackLoops
  <2>3. (CopyCorrect /\ CompareSound)'
    BY Zenon, <1>5 DEF CopyCorrect, CompareSound
  <2>4. 0 .. off - 1 = {}
    BY <1>1
  <2> QED
    BY Zenon, <1>1, <1>2, <1>3, <2>1, <2>2, <2>3, <2>4
       DEF MemInv, Disjoint, Loops, BackLoops, CmpLoops
<1> QED
  BY Zenon, <1>4, <1>5

(* Every turn of every loop keeps the invariant.                           *)
LEMMA NextMemInv == MemInv /\ [MemNext]_memvars => MemInv'
<1> SUFFICES ASSUME MemInv, [MemNext]_memvars PROVE MemInv'
  BY Zenon
<1>1. CASE Enter
  BY Zenon, <1>1, EnterInv
<1>2. CASE Align
  <2>1. CASE (call.dst + off) % W # 0 /\ Left > 0
    BY <1>2, <2>1, ForwardInv, CallFacts DEF Align, Left, Loops
  <2>2. CASE ~((call.dst + off) % W # 0 /\ Left > 0)
    BY Zenon, <1>2, <2>2, NextLoop DEF Align, Goto, Loops
  <2> QED
    BY Zenon, <2>1, <2>2
<1>3. CASE Block
  <2>1. CASE Left >= 4 * W
    BY <1>3, <2>1, ForwardInv, CallFacts DEF Block, Left, Loops
  <2>2. CASE ~(Left >= 4 * W)
    BY Zenon, <1>3, <2>2, NextLoop DEF Block, Goto, Loops
  <2> QED
    BY Zenon, <2>1, <2>2
<1>4. CASE Vector
  <2>1. CASE Left >= W
    BY <1>4, <2>1, ForwardInv, CallFacts DEF Vector, Left, Loops
  <2>2. CASE ~(Left >= W)
    BY Zenon, <1>4, <2>2, NextLoop DEF Vector, Goto, Loops
  <2> QED
    BY Zenon, <2>1, <2>2
<1>5. CASE TailBytes
  <2>1. CASE Left > 0
    BY <1>5, <2>1, ForwardInv, CallFacts DEF TailBytes, Left, Loops
  <2>2. CASE ~(Left > 0)
    BY Zenon, <1>5, <2>2, CopyDone DEF TailBytes, Goto, Loops
  <2> QED
    BY Zenon, <2>1, <2>2
<1>6. CASE BackAlign
  <2>1. CASE Left > 0 /\ (call.dst + Left - 1) % W # W - 1
    BY <1>6, <2>1, BackwardInv, CallFacts DEF BackAlign, Left, BackLoops
  <2>2. CASE ~(Left > 0 /\ (call.dst + Left - 1) % W # W - 1)
    BY Zenon, <1>6, <2>2, NextLoop DEF BackAlign, Goto, BackLoops
  <2> QED
    BY Zenon, <2>1, <2>2
<1>7. CASE BackVector
  <2>1. CASE Left >= W
    BY <1>7, <2>1, BackwardInv, CallFacts DEF BackVector, Left, BackLoops
  <2>2. CASE ~(Left >= W)
    BY Zenon, <1>7, <2>2, NextLoop DEF BackVector, Goto, BackLoops
  <2> QED
    BY Zenon, <2>1, <2>2
<1>8. CASE BackTail
  <2>1. CASE Left > 0
    BY <1>8, <2>1, BackwardInv, CallFacts DEF BackTail, Left, BackLoops
  <2>2. CASE ~(Left > 0)
    BY Zenon, <1>8, <2>2, CopyDone DEF BackTail, Goto, BackLoops
  <2> QED
    BY Zenon, <2>1, <2>2
<1>9. CASE CmpBlock
  <2>1. CASE Left >= 4 * W
    <3>1. off + W <= call.len
      BY <2>1, CallFacts DEF Left
    <3> QED
      BY <1>9, <2>1, <3>1, CompareInv DEF CmpBlock, CmpLoops
  <2>2. CASE ~(Left >= 4 * W)
    BY Zenon, <1>9, <2>2, NextLoop DEF CmpBlock, Goto, CmpLoops
  <2> QED
    BY Zenon, <2>1, <2>2
<1>10. CASE CmpVector
  <2>1. CASE Left >= W
    <3>1. off + W <= call.len
      BY <2>1, CallFacts DEF Left
    <3> QED
      BY <1>10, <2>1, <3>1, CompareInv DEF CmpVector, CmpLoops
  <2>2. CASE ~(Left >= W)
    BY Zenon, <1>10, <2>2, NextLoop DEF CmpVector, Goto, CmpLoops
  <2> QED
    BY Zenon, <2>1, <2>2
<1>11. CASE CmpTail
  BY Zenon, <1>11, CmpTailInv
<1>12. CASE UNCHANGED memvars
  <2>1. /\ call' = call /\ mem0' = mem0 /\ mem' = mem
        /\ loop' = loop /\ off' = off /\ ret' = ret
    BY Zenon, <1>12 DEF memvars
  <2>2. Copied' = Copied
    BY Zenon, <2>1 DEF Copied, Left
  <2>3. Order' = Order
    BY <2>1, Zenon DEF Order
  <2>4. CopyCorrect' /\ CompareSound'
    BY <2>1, <2>3, Zenon DEF MemInv, CopyCorrect, CompareSound
  <2> QED
    BY <2>1, <2>2, <2>4, Zenon DEF MemInv
<1> QED
  BY Zenon, <1>1, <1>2, <1>3, <1>4, <1>5, <1>6, <1>7, <1>8, <1>9, <1>10, <1>11, <1>12
     DEF MemNext

(* memcpy, memset, memmove and memcmp keep MemInv: what is copied so far   *)
(* is what the source held before the call, and what is still to be read   *)
(* has not been overwritten.                                               *)
THEOREM MemInvariant == MemSpec => []MemInv
  BY InitMemInv, NextMemInv, PTL DEF MemSpec

(* For every alignment, length and overlap the copying routines leave the  *)
(* memory their contract says.                                             *)
THEOREM CopiesAreCorrect == MemSpec => []CopyCorrect
<1>1. MemInv => CopyCorrect
  BY Zenon DEF MemInv
<1> QED
  BY <1>1, MemInvariant, PTL

(* No block, vector or byte loop runs past the end of its regions.         *)
THEOREM LoopsStayInside == MemSpec => []StaysInside
<1>1. MemInv => StaysInside
  BY Zenon, CallFacts DEF StaysInside
<1> QED
  BY <1>1, MemInvariant, PTL

(* A nonzero result of memcmp has the sign of the first difference, and    *)
(* equal regions compare equal.                                            *)
THEOREM ComparesAreSound == MemSpec => []CompareSound
<1>1. MemInv => CompareSound
  BY Zenon DEF MemInv
<1> QED
  BY <1>1, MemInvariant, PTL

=============================================================================
