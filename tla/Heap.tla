-------------------------------- MODULE Heap --------------------------------
(***************************************************************************)
(* The frame allocator with its first user: init_heap of                   *)
(* src/memory/allocator.rs, which kernel_main calls before anything that   *)
(* allocates.  Every page of the heap gets a frame, and map_to takes the   *)
(* page tables that are missing on its way from the same allocator.  Any   *)
(* of these calls may find no frame, map_to refuses a page that the boot   *)
(* loader left mapped, and either way kernel_main panics.                  *)
(*                                                                         *)
(* A page is numbered by its distance from HEAP_START.  Once the heap is   *)
(* ready the allocator serves other callers, which free only what is       *)
(* theirs.                                                                 *)
(***************************************************************************)
EXTENDS FrameAllocator

CONSTANTS
  HeapSize,    \* HEAP_SIZE, in bytes
  NewTables,   \* the page tables missing when map_to comes to each page
  InUse        \* the possible sets of pages of this range mapped at the start

VARIABLES
  in_use,   \* the pages the boot loader left mapped, alone or by a huge page
  pc,       \* "frame", "map", "ready", "panic"
  page,     \* the page of the loop in init_heap
  missing,  \* the tables map_to still has to take for it
  frame,    \* the frame meant for it, until it is mapped
  mapped,   \* the frames of the pages mapped so far
  tables,   \* the frames that hold page tables
  client    \* the frames of the later callers

heap == <<in_use, pc, page, missing, frame, mapped, tables, client>>
hvars == <<vars, heap>>

(* Mutant of LastPage: heap_end is the first byte past the heap.           *)
LastPage_PastEnd == HeapSize \div PageSize

(* Mutant of LastPage: Page::range, whose end is left out.                 *)
LastPage_Exclusive == (HeapSize - 1) \div PageSize - 1

(* The page that contains heap_start + HEAP_SIZE - 1.                      *)
LastPage == (HeapSize - 1) \div PageSize

ASSUME HeapOK ==
  /\ HeapSize \in Nat \ {0}
  /\ NewTables \in [0 .. HeapSize \div PageSize -> Nat]
  /\ \A u \in InUse : \A p \in u : NewTables[p] = 0

HeapInit ==
  /\ Init
  /\ in_use \in InUse
  /\ pc = "frame" /\ page = 0 /\ missing = 0 /\ frame = {}
  /\ mapped = <<>> /\ tables = {} /\ client = {}

Allocate == AllocateAhead \/ AllocateWrapped

(* The frame the allocation of this step returns, as a singleton.          *)
NewFrame == allocated' \ allocated

-----------------------------------------------------------------------------
(* init_heap                                                               *)

(* Mutant of AllocatePageFrame: the frame is allocated before the loop.    *)
AllocatePageFrame_OneForAll ==
  /\ pc = "frame" /\ page <= LastPage
  /\ IF page = 0 THEN Allocate /\ frame' = NewFrame
     ELSE UNCHANGED vars /\ frame' = {mapped[1]}
  /\ missing' = NewTables[page]
  /\ pc' = "map"
  /\ UNCHANGED <<in_use, page, mapped, tables, client>>

AllocatePageFrame ==
  /\ pc = "frame" /\ page <= LastPage
  /\ Allocate
  /\ frame' = NewFrame
  /\ missing' = NewTables[page]
  /\ pc' = "map"
  /\ UNCHANGED <<in_use, page, mapped, tables, client>>

(* map_to, one level down: an absent entry gets a table of its own.        *)
CreateTable ==
  /\ pc = "map" /\ missing > 0
  /\ Allocate
  /\ tables' = tables \cup NewFrame
  /\ missing' = missing - 1
  /\ UNCHANGED <<in_use, pc, page, frame, mapped, client>>

(* map_to writes the entry of the page, which has to be unused; flush.     *)
MapPage ==
  /\ pc = "map" /\ missing = 0 /\ page \notin in_use
  /\ \E f \in frame : mapped' = Append(mapped, f)
  /\ frame' = {}
  /\ page' = page + 1
  /\ pc' = "frame"
  /\ UNCHANGED <<vars, in_use, missing, tables, client>>

(* No frame for the page or for a table: MapToError::FrameAllocationFailed *)
(* and .expect("heap initialization failed").  What was taken stays taken. *)
InitHeapFails ==
  /\ \/ pc = "frame" /\ page <= LastPage
     \/ pc = "map" /\ missing > 0
  /\ AllocateNone
  /\ pc' = "panic"
  /\ UNCHANGED <<in_use, page, missing, frame, mapped, tables, client>>

(* An entry in use: PageAlreadyMapped, or ParentEntryHugePage from a table *)
(* above, ends in the same expect.  The page's frame stays taken.          *)
MapToRefuses ==
  /\ pc = "map" /\ missing = 0 /\ page \in in_use
  /\ pc' = "panic"
  /\ UNCHANGED <<vars, in_use, page, missing, frame, mapped, tables, client>>

(* ALLOCATOR.init over HEAP_START, HEAP_SIZE.                              *)
InitAllocator ==
  /\ pc = "frame" /\ page > LastPage
  /\ pc' = "ready"
  /\ UNCHANGED <<vars, in_use, page, missing, frame, mapped, tables, client>>

(* The panic handler halts for ever.                                       *)
Halted == pc = "panic" /\ UNCHANGED hvars

-----------------------------------------------------------------------------
(* The callers after boot                                                  *)

ClientAllocate ==
  /\ pc = "ready"
  /\ Allocate \/ AllocateNone
  /\ client' = client \cup NewFrame
  /\ UNCHANGED <<in_use, pc, page, missing, frame, mapped, tables>>

ClientFree(i) ==
  /\ pc = "ready" /\ i \in client
  /\ FreeFrame(i)
  /\ client' = client \ {i}
  /\ UNCHANGED <<in_use, pc, page, missing, frame, mapped, tables>>

HeapNext ==
  \/ AllocatePageFrame \/ CreateTable \/ MapPage
  \/ InitHeapFails \/ MapToRefuses \/ InitAllocator \/ Halted
  \/ ClientAllocate
  \/ \E i \in client : ClientFree(i)

HeapSpec == HeapInit /\ [][HeapNext]_hvars

-----------------------------------------------------------------------------
(* Properties                                                              *)

MappedFrames == {mapped[p] : p \in DOMAIN mapped}

(* Nothing in use is handed out again and nothing is forgotten: the frames *)
(* under the heap, the page tables, the frame in init_heap's hands and the *)
(* other callers' frames are apart and together are what the allocator     *)
(* counts as taken, and two pages of the heap never share a frame, through *)
(* every failure of map_to and every later allocation and free.            *)
OneOwner ==
  /\ allocated = MappedFrames \cup tables \cup frame \cup client
  /\ MappedFrames \cap (tables \cup frame \cup client) = {}
  /\ tables \cap (frame \cup client) = {}
  /\ frame \cap client = {}
  /\ \A p, q \in DOMAIN mapped : mapped[p] = mapped[q] => p = q

(* The inductive invariant behind OneOwner and HeapBacked: init_heap holds *)
(* one frame while map_to runs, or when it failed there, and none between  *)
(* two pages; the pages mapped are those before the page of the loop.      *)
HeapInv ==
  /\ FrameInv /\ OneOwner
  /\ pc \in {"frame", "map", "ready", "panic"}
  /\ page \in Nat /\ mapped \in Seq(Nat) /\ Len(mapped) = page
  /\ pc = "map" => \E f \in allocated : frame = {f}
  /\ pc \in {"frame", "ready"} => frame = {}
  /\ pc = "ready" => page > LastPage

(* When ALLOCATOR gets its region, every byte of it lies in a mapped page, *)
(* whose frame is memory of the pool: neither kernel, nor bitmap, nor a    *)
(* hole of the memory map.                                                 *)
HeapBacked ==
  pc = "ready" =>
    \A b \in 0 .. HeapSize - 1 :
      /\ b \div PageSize + 1 \in DOMAIN mapped
      /\ mapped[b \div PageSize + 1] \in Pool

(* What the pages that hold a byte of the heap take: a frame of their own, *)
(* number 0, and one for every table that is missing.                      *)
HeapPages == {b \div PageSize : b \in 0 .. HeapSize - 1}
Demands == UNION {{p} \X (0 .. NewTables[p]) : p \in HeapPages}
Needed == Cardinality(Demands)

(* "heap initialization failed" is said only of a machine whose pool is    *)
(* too small for the heap's pages and their tables, or whose boot loader   *)
(* left a page of the heap's range mapped; and init_heap never gets past   *)
(* such a page, so that no mapping of the boot loader is replaced.         *)
PanicHasCause ==
  /\ pc = "panic" => \/ bitmap_bytes = 0 \/ Cardinality(Pool) < Needed
                     \/ in_use \cap HeapPages # {}
  /\ pc = "ready" => in_use \cap HeapPages = {}

(* The inductive invariant behind it: until it is done or fails, init_heap *)
(* has taken one frame for every demand it has met, and nothing else.      *)
Met ==
  {d \in Demands : \/ d[1] < page
                   \/ pc = "map" /\ d[1] = page /\ d[2] + missing <= NewTables[page]}
DemandInv ==
  /\ pc \in {"frame", "map"} => Cardinality(allocated) = Cardinality(Met)
  /\ pc = "map" => page <= LastPage /\ missing \in 0 .. NewTables[page]
  /\ pc \in {"frame", "map", "ready"} => \A p \in in_use \cap HeapPages : p >= page
  /\ PanicHasCause

=============================================================================
