----------------------------- MODULE MemRoutines -----------------------------
(***************************************************************************)
(* The memory routines of src/rlib/mem.rs, which every copy and comparison *)
(* the compiler emits calls: memcpy, memset, memmove and memcmp.  A step   *)
(* is one turn of one of their loops: a byte, a vector of W bytes, or a    *)
(* block of four vectors, all of whose loads precede its stores.           *)
(***************************************************************************)
EXTENDS Integers, FiniteSetsExt

CONSTANTS
  W,         \* bytes in a vector (16 in the code)
  MemSize,   \* bound: addresses are 0..MemSize-1
  MaxLen,    \* bound: the longest call
  Fns,       \* the routines called
  Memories   \* what the memory may hold at first

Addr == 0 .. MemSize - 1
Fill == MemSize          \* the byte memset writes

ASSUME BoundsOK ==
  /\ W \in 2 .. 16 /\ MemSize \in Nat \ {0} /\ MaxLen \in 0 .. MemSize
  /\ Fns \subseteq {"memcpy", "memset", "memmove", "memcmp"}
  /\ Memories \subseteq [Addr -> Int]

VARIABLES
  call,     \* the routine and its arguments: dst (a), src (b), len
  mem0,     \* the memory when it was called
  mem,
  loop,     \* the loop that runs, "done" after the return
  off,      \* bytes done: dst, src and len of the code are call's moved by off
  ret       \* what memcmp returned

memvars == <<call, mem0, mem, loop, off, ret>>

Disjoint(c) == c.dst + c.len <= c.src \/ c.src + c.len <= c.dst

(* memcpy's regions do not overlap; that is the caller's obligation.       *)
MemInit ==
  /\ call \in [fn : Fns, dst : Addr, src : Addr, len : 0 .. MaxLen]
  /\ call.dst + call.len <= MemSize /\ call.src + call.len <= MemSize
  /\ call.fn = "memcpy" => Disjoint(call)
  /\ call.fn = "memset" => call.src = 0
  /\ mem0 \in Memories /\ mem = mem0
  /\ loop = "enter" /\ off = 0 /\ ret = 0

Left == call.len - off

(* A load of n bytes at src + at, stored at dst + at.                      *)
Store(at, n) ==
  mem' = [a \in Addr |->
            IF a \in call.dst + at .. call.dst + at + n - 1
            THEN IF call.fn = "memset" THEN Fill
                 ELSE mem[call.src + (a - call.dst)]
            ELSE mem[a]]

Goto(label) == loop' = label /\ UNCHANGED <<mem, off>>

-----------------------------------------------------------------------------
(* memcpy and memset.                                                      *)

Enter ==
  /\ loop = "enter"
  /\ \/ call.fn \in {"memcpy", "memset"} /\ Goto(IF call.len = 0 THEN "done" ELSE "align")
     \/ /\ call.fn = "memmove"
        /\ Goto(IF call.dst = call.src \/ call.len = 0 THEN "done"
                ELSE IF call.dst < call.src THEN "align" ELSE "back_align")
     \/ call.fn = "memcmp" /\ Goto(IF call.len = 0 THEN "done" ELSE "cmp_block")
  /\ UNCHANGED <<call, mem0, ret>>

Forward(n) == Store(off, n) /\ off' = off + n /\ UNCHANGED loop

(* memmove aligns and copies forward as memcpy does, without the blocks.   *)
Align ==
  /\ loop = "align"
  /\ IF (call.dst + off) % W # 0 /\ Left > 0 THEN Forward(1)
     ELSE Goto(IF call.fn = "memmove" THEN "vector" ELSE "block")
  /\ UNCHANGED <<call, mem0, ret>>

(* Mutant of Block: the loop runs while one vector is left.               *)
Block_Greedy ==
  /\ loop = "block"
  /\ IF Left >= W THEN Forward(4 * W) ELSE Goto("vector")
  /\ UNCHANGED <<call, mem0, ret>>

Block ==
  /\ loop = "block"
  /\ IF Left >= 4 * W THEN Forward(4 * W) ELSE Goto("vector")
  /\ UNCHANGED <<call, mem0, ret>>

Vector ==
  /\ loop = "vector"
  /\ IF Left >= W THEN Forward(W) ELSE Goto("tail")
  /\ UNCHANGED <<call, mem0, ret>>

(* Mutant of TailBytes: the length is not decremented.                         *)
TailBytes_NoDecrement ==
  /\ loop = "tail"
  /\ IF Left > 0 THEN Store(off, 1) /\ UNCHANGED <<loop, off>> ELSE Goto("done")
  /\ UNCHANGED <<call, mem0, ret>>

TailBytes ==
  /\ loop = "tail"
  /\ IF Left > 0 THEN Forward(1) ELSE Goto("done")
  /\ UNCHANGED <<call, mem0, ret>>

-----------------------------------------------------------------------------
(* memmove towards higher addresses: off counts from the end.              *)

Backward(n) == Store(Left - n, n) /\ off' = off + n /\ UNCHANGED loop

BackAlign ==
  /\ loop = "back_align"
  /\ IF Left > 0 /\ (call.dst + Left - 1) % W # W - 1 THEN Backward(1)
     ELSE Goto("back_vector")
  /\ UNCHANGED <<call, mem0, ret>>

(* Mutant of BackVector: the vectors are copied from the front.           *)
BackVector_FromFront ==
  /\ loop = "back_vector"
  /\ IF Left >= W
     THEN Store(off, W) /\ off' = off + W /\ UNCHANGED loop
     ELSE Goto("back_tail")
  /\ UNCHANGED <<call, mem0, ret>>

BackVector ==
  /\ loop = "back_vector"
  /\ IF Left >= W THEN Backward(W) ELSE Goto("back_tail")
  /\ UNCHANGED <<call, mem0, ret>>

BackTail ==
  /\ loop = "back_tail"
  /\ IF Left > 0 THEN Backward(1) ELSE Goto("done")
  /\ UNCHANGED <<call, mem0, ret>>

-----------------------------------------------------------------------------
(* memcmp.                                                                 *)

ByteA(k) == mem[call.dst + k]
ByteB(k) == mem[call.src + k]

(* The offsets in at..at+n-1 at which the regions differ.                  *)
Diffs(at, n) == {k \in at .. at + n - 1 : ByteA(k) # ByteB(k)}

(* Mutant of SlowByteCmp: the last difference.                            *)
SlowByteCmp_Last(at, n) ==
  IF Diffs(at, n) = {} THEN 0 ELSE ByteA(Max(Diffs(at, n))) - ByteB(Max(Diffs(at, n)))

(* slow_byte_cmp: the difference of the first bytes that differ.           *)
SlowByteCmp(at, n) ==
  IF Diffs(at, n) = {} THEN 0 ELSE ByteA(Min(Diffs(at, n))) - ByteB(Min(Diffs(at, n)))

(* An i32 is the set of its bits that are set: -1 has all of them.         *)
MinusOne == 0 .. 31

(* _mm_movemask_epi8(_mm_cmpeq_epi8(..)): bit k is set if byte k is equal. *)
Mask(at) == {k \in 0 .. W - 1 : ByteA(at + k) = ByteB(at + k)}

Return(r) == loop' = "done" /\ ret' = r /\ UNCHANGED <<mem, off>>

Advance(n) == off' = off + n /\ UNCHANGED <<loop, mem, ret>>

(* The vectors among v whose mask is not -1 end the comparison.            *)
Compare(vectors) ==
  LET stop == {v \in vectors : Mask(off + v * W) # MinusOne}
  IN IF stop # {} THEN Return(SlowByteCmp(off + Min(stop) * W, W))
     ELSE Advance(W * Cardinality(vectors))

CmpBlock ==
  /\ loop = "cmp_block"
  /\ IF Left >= 4 * W THEN Compare(0 .. 3)
     ELSE Goto("cmp_vector") /\ UNCHANGED ret
  /\ UNCHANGED <<call, mem0>>

CmpVector ==
  /\ loop = "cmp_vector"
  /\ IF Left >= W THEN Compare({0})
     ELSE Goto("cmp_tail") /\ UNCHANGED ret
  /\ UNCHANGED <<call, mem0>>

CmpTail ==
  /\ loop = "cmp_tail"
  /\ IF Left = 0 THEN Return(0)
     ELSE IF ByteA(off) # ByteB(off) THEN Return(ByteA(off) - ByteB(off))
     ELSE Advance(1)
  /\ UNCHANGED <<call, mem0>>

MemNext ==
  \/ Enter
  \/ Align \/ Block \/ Vector \/ TailBytes
  \/ BackAlign \/ BackVector \/ BackTail
  \/ CmpBlock \/ CmpVector \/ CmpTail

MemSpec == MemInit /\ [][MemNext]_memvars /\ WF_memvars(MemNext)

-----------------------------------------------------------------------------
(* Properties.                                                             *)

(* memcpy, memset and memmove leave the memory their contract says, and    *)
(* memmove does so when its regions overlap: every byte of the destination *)
(* is what the source held before the call, every other byte is unchanged. *)
CopyCorrect ==
  loop = "done" =>
    mem = [a \in Addr |->
             IF call.fn # "memcmp" /\ a \in call.dst .. call.dst + call.len - 1
             THEN IF call.fn = "memset" THEN Fill
                  ELSE mem0[call.src + (a - call.dst)]
             ELSE mem0[a]]

(* No loop of memcpy, memset and memmove reads or writes past the end of   *)
(* its regions, and memcmp does not go on past it: the 64-byte blocks and  *)
(* the vectors stop where fewer bytes are left than they take.             *)
StaysInside == off <= call.len

(* Every call returns: each loop moves its pointers and its length on.     *)
Returns == <>(loop = "done")

Sign(n) == IF n > 0 THEN 1 ELSE IF n < 0 THEN -1 ELSE 0

(* The sign memcmp's contract asks for: that of the first difference.      *)
Order ==
  LET d == {k \in 0 .. call.len - 1 : mem0[call.dst + k] # mem0[call.src + k]}
  IN IF d = {} THEN 0
     ELSE Sign(mem0[call.dst + Min(d)] - mem0[call.src + Min(d)])

(* A nonzero result of memcmp has the sign of the first difference, and    *)
(* equal regions compare equal.                                            *)
CompareSound ==
  call.fn = "memcmp" /\ loop = "done" /\ (ret # 0 \/ Order = 0) => Sign(ret) = Order

(* The inductive invariant behind the three: the bytes copied so far, from *)
(* the front or, in the loops towards higher addresses, from the back, are *)
(* those of the source before the call, and the other bytes are untouched, *)
(* the part of the source that is still to be read included; the bytes     *)
(* compared so far are equal.                                              *)
Loops == {"align", "block", "vector", "tail"}
BackLoops == {"back_align", "back_vector", "back_tail"}
CmpLoops == {"cmp_block", "cmp_vector", "cmp_tail"}

Copied ==
  IF loop \in BackLoops THEN call.dst + Left .. call.dst + call.len - 1
  ELSE IF call.fn = "memcmp" THEN {}
  ELSE call.dst .. call.dst + off - 1

MemInv ==
  /\ call \in [fn : Fns, dst : Addr, src : Addr, len : 0 .. MaxLen]
  /\ call.dst + call.len <= MemSize /\ call.src + call.len <= MemSize
  /\ call.fn = "memcpy" => Disjoint(call)
  /\ mem0 \in [Addr -> Int]
  /\ loop \in {"enter", "done"} \cup Loops \cup BackLoops \cup CmpLoops
  /\ off \in 0 .. call.len
  /\ loop = "enter" => off = 0
  /\ loop \in Loops => call.fn # "memcmp" /\ (call.fn = "memmove" => call.dst < call.src)
  /\ loop \in BackLoops => call.fn = "memmove" /\ call.src < call.dst
  /\ loop \in CmpLoops =>
       /\ call.fn = "memcmp"
       /\ \A k \in 0 .. off - 1 : mem0[call.dst + k] = mem0[call.src + k]
  /\ loop # "done" =>
       /\ ret = 0
       /\ mem = [a \in Addr |->
                   IF a \in Copied
                   THEN IF call.fn = "memset" THEN Fill
                        ELSE mem0[call.src + (a - call.dst)]
                   ELSE mem0[a]]
  /\ CopyCorrect /\ CompareSound

(* What memcmp's doc comment says it returns: "0 if equal, <0 if `a < b`,  *)
(* >0 if `a > b`".                                                         *)
CompareCorrect ==
  call.fn = "memcmp" /\ loop = "done" => Sign(ret) = Order

=============================================================================
