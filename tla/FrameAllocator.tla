--------------------------- MODULE FrameAllocator ---------------------------
(***************************************************************************)
(* The bitmap frame allocator of src/memory/frame.rs.                      *)
(*                                                                         *)
(* Addresses are byte addresses.  The boot loader describes memory by      *)
(* frame numbers (FrameRange), so start_addr and end_addr of a region are  *)
(* multiples of the page size.  kernel_reserved_end = 0 stands for None:   *)
(* init treats the two alike.  The bitmap is the set of the frame numbers  *)
(* whose bit is 1.                                                         *)
(***************************************************************************)
EXTENDS Naturals, Sequences, FiniteSetsExt

CONSTANTS
  PageSize,       \* 0x1000 in the code
  PhysFrames,     \* the frames an address of the machine can name
  MemoryMaps,     \* the memory maps a boot loader may report
  ReservedEnds    \* the values of kernel_reserved_end

(* A region holds the frames first..last-1.                                *)
Region == [first : Nat, last : Nat, usable : BOOLEAN]

ASSUME PageSizeOK == PageSize \in Nat \ {0} /\ PhysFrames \in Nat

(* Regions are not empty and end within the address space; the boot loader *)
(* keeps frame zero out of the usable ones.                                *)
ASSUME MemoryMapsOK ==
  \A mm \in MemoryMaps :
    /\ mm \in Seq(Region)
    /\ \A i \in DOMAIN mm : mm[i].first < mm[i].last /\ mm[i].last <= PhysFrames
    /\ \A i \in DOMAIN mm : mm[i].usable => mm[i].first > 0

ASSUME ReservedEndsOK == ReservedEnds \subseteq Nat

VARIABLES
  memory_map, kernel_reserved_end,           \* what init is given
  bitmap_phys_start, bitmap_bytes, num_frames, next_search,
  bitmap,       \* the frames marked used
  allocated,    \* the frames allocate_frame has handed out and not got back
  result        \* what the last call returned

vars == <<memory_map, kernel_reserved_end, bitmap_phys_start, bitmap_bytes,
          num_frames, next_search, bitmap, allocated, result>>

config == <<memory_map, kernel_reserved_end, bitmap_phys_start, bitmap_bytes,
            num_frames>>

-----------------------------------------------------------------------------
(* init                                                                    *)

StartAddr(r) == r.first * PageSize
EndAddr(r) == r.last * PageSize

(* addr / 0x1000, (addr + 0xFFF) / 0x1000, (addr + 0xFFF) & !0xFFF         *)
FrameOf(addr) == addr \div PageSize
FrameUp(addr) == (addr + PageSize - 1) \div PageSize
AlignUp(addr) == FrameUp(addr) * PageSize

Usable(mm) == {i \in DOMAIN mm : mm[i].usable}

MaxAddr(mm) == Max({0} \cup {EndAddr(mm[i]) : i \in Usable(mm)})

NumFrames(mm) == FrameUp(MaxAddr(mm))

BitmapBytes(mm) == (NumFrames(mm) + 7) \div 8

(* Mutant of PlaceIn: does not step over the kernel.                      *)
PlaceIn_IgnoresKernel(r, kend) == AlignUp(StartAddr(r))

(* Where the bitmap would start in region r: past the kernel, page aligned. *)
PlaceIn(r, kend) ==
  AlignUp(IF StartAddr(r) < kend THEN AlignUp(kend) ELSE StartAddr(r))

(* The usable regions that hold the bitmap past address kend.              *)
Roomy(mm, kend) ==
  {i \in Usable(mm) :
     /\ EndAddr(mm[i]) > kend
     /\ PlaceIn(mm[i], kend) + BitmapBytes(mm) <= EndAddr(mm[i])}

(* Address of the first such region's place, 0 when there is none.         *)
FirstPlace(mm, kend) ==
  IF Roomy(mm, kend) = {} THEN 0 ELSE PlaceIn(mm[Min(Roomy(mm, kend))], kend)

(* After the kernel if possible, else anywhere, even over the kernel.      *)
Placement(mm, kend) ==
  IF FirstPlace(mm, kend) # 0 THEN FirstPlace(mm, kend) ELSE FirstPlace(mm, 0)

(* Mutant of UsableIdx: the end frame included.                           *)
UsableIdx_Inclusive(mm) ==
  UNION {FrameOf(StartAddr(mm[i])) .. FrameUp(EndAddr(mm[i])) : i \in Usable(mm)}

UsableIdx(mm) ==
  UNION {FrameOf(StartAddr(mm[i])) .. FrameUp(EndAddr(mm[i])) - 1 :
           i \in Usable(mm)}

KernelIdx(kend) == 0 .. FrameUp(kend) - 1

(* Mutant of BitmapIdx: the last, partly filled page left out.            *)
BitmapIdx_RoundedDown(start, bytes) ==
  FrameOf(start) .. FrameOf(start + bytes) - 1

BitmapIdx(start, bytes) == FrameOf(start) .. FrameUp(start + bytes) - 1

(* All bits set, the usable regions cleared, the kernel and the bitmap set *)
(* again; set_bit ignores an index past num_frames.                        *)
InitialBitmap(mm, kend, start) ==
  LET frames == 0 .. NumFrames(mm) - 1
  IN  (frames \ UsableIdx(mm))
        \cup (frames \cap KernelIdx(kend))
        \cup (frames \cap BitmapIdx(start, BitmapBytes(mm)))

(* With no usable memory, or no place for the bitmap, bitmap_bytes is 0    *)
(* and the allocator fails every request.                                  *)
Init ==
  /\ memory_map \in MemoryMaps
  /\ kernel_reserved_end \in ReservedEnds
  /\ num_frames = NumFrames(memory_map)
  /\ bitmap_phys_start = IF MaxAddr(memory_map) = 0 THEN 0
                         ELSE Placement(memory_map, kernel_reserved_end)
  /\ IF bitmap_phys_start = 0
     THEN bitmap_bytes = 0 /\ bitmap = {}
     ELSE /\ bitmap_bytes = BitmapBytes(memory_map)
          /\ bitmap = InitialBitmap(memory_map, kernel_reserved_end,
                                    bitmap_phys_start)
  /\ next_search = 0
  /\ allocated = {}
  /\ result = "init"

-----------------------------------------------------------------------------
(* allocate_frame and free_frame                                           *)

(* !test_bit(i): in range and not marked used.                             *)
Free(i) == bitmap_bytes # 0 /\ i < num_frames /\ i \notin bitmap

Take(i) ==
  /\ bitmap' = bitmap \cup {i}
  /\ next_search' = i + 1
  /\ allocated' = allocated \cup {i}
  /\ result' = "frame"
  /\ UNCHANGED config

(* First fit from next_search up.                                          *)
AllocateAhead ==
  \E i \in next_search .. num_frames - 1 :
    /\ Free(i)
    /\ \A j \in next_search .. i - 1 : ~Free(j)
    /\ Take(i)

(* Wrap-around: nothing ahead, first fit from 0 up to next_search.         *)
AllocateWrapped ==
  \E i \in 0 .. next_search - 1 :
    /\ \A j \in next_search .. num_frames - 1 : ~Free(j)
    /\ Free(i)
    /\ \A j \in 0 .. i - 1 : ~Free(j)
    /\ Take(i)

(* Mutant of AllocateNone: no wrap-around search.                         *)
AllocateNone_NoWrap ==
  /\ \A j \in next_search .. num_frames - 1 : ~Free(j)
  /\ result' = "None"
  /\ UNCHANGED <<config, next_search, bitmap, allocated>>

(* None: both searches fail, or there is no bitmap.                        *)
AllocateNone ==
  /\ \A j \in next_search .. num_frames - 1 : ~Free(j)
  /\ \A j \in 0 .. next_search - 1 : ~Free(j)
  /\ result' = "None"
  /\ UNCHANGED <<config, next_search, bitmap, allocated>>

(* The caller guarantees that the frame was allocated.  The search hint    *)
(* stays where it is.                                                      *)
FreeFrame(i) ==
  /\ i \in allocated
  /\ bitmap_bytes # 0
  /\ bitmap' = bitmap \ {i}
  /\ allocated' = allocated \ {i}
  /\ result' = "freed"
  /\ UNCHANGED <<config, next_search>>

Next ==
  \/ AllocateAhead
  \/ AllocateWrapped
  \/ AllocateNone
  \/ \E i \in allocated : FreeFrame(i)

Spec == Init /\ [][Next]_vars

-----------------------------------------------------------------------------
(* Properties.  They speak of bytes and regions, not of the index          *)
(* arithmetic of init.                                                     *)

(* Type invariant: the bitmap and the hint stay within num_frames.         *)
TypeOK ==
  /\ memory_map \in MemoryMaps
  /\ kernel_reserved_end \in ReservedEnds
  /\ bitmap_phys_start \in Nat
  /\ bitmap_bytes \in Nat
  /\ num_frames \in Nat
  /\ next_search \in 0 .. num_frames
  /\ bitmap \subseteq 0 .. num_frames - 1
  /\ allocated \subseteq 0 .. num_frames - 1
  /\ result \in {"init", "frame", "None", "freed"}

UsableFrame(i) ==
  \E k \in Usable(memory_map) :
    memory_map[k].first <= i /\ i < memory_map[k].last

(* Frame i holds a byte of lo..hi-1.                                       *)
Overlaps(i, lo, hi) == i * PageSize < hi /\ lo < (i + 1) * PageSize

InKernel(i) == Overlaps(i, 0, kernel_reserved_end)

InBitmap(i) ==
  Overlaps(i, bitmap_phys_start, bitmap_phys_start + bitmap_bytes)

(* The frames the allocator may ever hand out.                             *)
Pool ==
  {i \in 0 .. num_frames - 1 : UsableFrame(i) /\ ~InKernel(i) /\ ~InBitmap(i)}

(* No frame is lost and none is free twice: the frames whose bit is clear  *)
(* are exactly the pool without the frames in the callers' hands, whatever *)
(* sequence of allocations, wrap-arounds and frees came before.            *)
Accounting ==
  bitmap_bytes # 0 =>
    {i \in 0 .. num_frames - 1 : Free(i)} = Pool \ allocated

(* A frame in a caller's hands is usable memory, and holds neither a byte  *)
(* of the reserved kernel range nor one of the bitmap itself.              *)
OwnedFramesSafe == allocated \subseteq Pool

(* allocate_frame returns None only when every frame of the pool is in use *)
(* (or when no bitmap could be built): the wrap-around search finds frames *)
(* freed behind the hint.                                                  *)
NoneOnlyWhenExhausted ==
  result = "None" /\ bitmap_bytes # 0 => Pool \subseteq allocated

(* The inductive invariant behind the properties above: without a bitmap   *)
(* nothing is ever handed out.                                             *)
FrameInv ==
  /\ TypeOK /\ Accounting /\ OwnedFramesSafe /\ NoneOnlyWhenExhausted
  /\ bitmap_bytes = 0 => allocated = {}

(* The bitmap lies inside one usable region, and overlaps the kernel only  *)
(* when no usable region has room for it past kernel_reserved_end.         *)
BitmapPlaced ==
  bitmap_bytes # 0 =>
    /\ \E k \in Usable(memory_map) :
         /\ StartAddr(memory_map[k]) <= bitmap_phys_start
         /\ bitmap_phys_start + bitmap_bytes <= EndAddr(memory_map[k])
    /\ bitmap_phys_start < kernel_reserved_end =>
         \A k \in Usable(memory_map) :
           \A f \in memory_map[k].first .. memory_map[k].last :
             f * PageSize >= kernel_reserved_end =>
               f * PageSize + bitmap_bytes > EndAddr(memory_map[k])

=============================================================================
