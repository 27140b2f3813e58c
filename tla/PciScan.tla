------------------------------- MODULE PciScan -------------------------------
(***************************************************************************)
(* The PCI scan of src/devices/pci.rs over the ECAM ranges that the MCFG   *)
(* names: probing slots and functions, sizing BARs by writing all ones,    *)
(* walking the capability list, and registering each function with the     *)
(* device manager.                                                         *)
(*                                                                         *)
(* fw.pci is the function at each <<segment, bus, slot, func>>.  Its bars  *)
(* say what the device has, by register index: kind, flag bits, address    *)
(* and length (a power of two; the address bits above it can be written).  *)
(* Its windows are the registers of a bridge that lie where other devices  *)
(* have BARs, each with the low part of it that is read-only (the address  *)
(* width of an I/O base; none of a bus number); the status bits that a     *)
(* one clears are left out.  A register holds Word values, 2^32 in the     *)
(* code.                                                                   *)
(***************************************************************************)
EXTENDS AcpiTables, Integers

CONSTANTS
  Word,      \* number of values of a configuration register
  NSlots,    \* slots of a bus (32)
  NFuncs,    \* functions of a multifunction device (8)
  NBars,     \* BAR registers (6)
  MaxCaps    \* capabilities looked at (48)

(* A BAR is aligned to its length, which holds its flags; a length and a   *)
(* register, both powers of two, divide one another.                       *)
BarOK(b) ==
  /\ b.len \in Nat \ {0} /\ b.addr \in Nat /\ b.flags \in Nat
  /\ b.addr % b.len = 0 /\ b.flags < b.len /\ b.flags < Word
  /\ Word % b.len = 0 \/ b.len % Word = 0

ASSUME FunctionsOK ==
  /\ Word \in Nat \ {0} /\ NBars \in Nat
  /\ \A f \in Firmwares : \A a \in DOMAIN f.pci :
       /\ \A k \in DOMAIN f.pci[a].bars : BarOK(f.pci[a].bars[k])
       /\ \A k \in DOMAIN f.pci[a].windows :
            f.pci[a].windows[k] \in [part : Nat \ {0}, val : 0 .. Word - 1]

(* A BAR's kind and its flags go together.  One of 64 bits has a register  *)
(* behind it for its upper half.                                           *)
Encoded(f, k) ==
  LET b == f.bars[k]
  IN  \/ /\ b.kind = "io" /\ b.flags = 1
         /\ b.len % 4 = 0 /\ b.len < Word /\ b.addr < Word
      \/ /\ b.kind = "mem" /\ b.flags \in {0, 2, 8, 10}
         /\ b.len % 16 = 0 /\ b.len < Word /\ b.addr < Word
      \/ /\ b.kind = "mem64" /\ b.flags \in {4, 12}
         /\ b.len % 16 = 0 /\ b.len < Word * Word /\ (Word * Word) % b.len = 0
         /\ k + 1 < NBars /\ k + 1 \notin DOMAIN f.bars

(* Where a pointer to a capability points: its two low bits are dropped,   *)
(* and 0 is none.                                                          *)
Target(ptr) == IF ptr = 0 THEN {} ELSE {ptr - (ptr % 4)}

(* Pointers point to capabilities, of which there are at most as many as   *)
(* the configuration space holds.                                          *)
CapsOK(f) ==
  /\ IsFiniteSet(DOMAIN f.caps) /\ Cardinality(DOMAIN f.caps) <= MaxCaps
  /\ \A ptr \in {f.cap_ptr} \cup {f.caps[p].next : p \in DOMAIN f.caps} :
       Target(ptr) \subseteq DOMAIN f.caps

(* A function lies at an address of its segment and bus, and has a vendor. *)
ASSUME LayoutOK ==
  /\ Word % 16 = 0 /\ NSlots \in Nat \ {0} /\ NFuncs \in Nat \ {0} /\ MaxCaps \in Nat
  /\ \A f \in Firmwares :
       /\ DOMAIN f.pci \subseteq Nat \X Nat \X (0 .. NSlots - 1) \X (0 .. NFuncs - 1)
       /\ \A a \in DOMAIN f.pci :
            /\ f.pci[a].id[1] # "ffff"
            /\ DOMAIN f.pci[a].bars \subseteq 0 .. NBars - 1
            /\ \A k \in DOMAIN f.pci[a].bars : Encoded(f.pci[a], k)
            /\ CapsOK(f.pci[a])

VARIABLES
  ppc,        \* where the scan is
  range,      \* index of the ECAM range
  bus, slot, func,
  bar,        \* bar_index
  resources, capabilities,   \* of the function
  cap_ptr, caps_searched,
  regs        \* the registers from 0x10 on of each function

found == <<bar, resources, capabilities, cap_ptr, caps_searched>>
pci == <<ppc, range, bus, slot, func, found>>

Ones == Word - 1

-----------------------------------------------------------------------------
(* The devices (external).                                                 *)

(* Register k of function f: its low part cannot be written and reads as   *)
(* `fixed`; a part of Word values cannot be written at all.                *)
Reg(f, k) ==
  IF k \in DOMAIN f.bars THEN
    [part |-> Min({f.bars[k].len, Word}), fixed |-> f.bars[k].flags,
     val |-> (f.bars[k].addr % Word) + f.bars[k].flags]
  ELSE IF k - 1 \in DOMAIN f.bars /\ f.bars[k - 1].kind = "mem64" THEN
    [part |-> Max({f.bars[k - 1].len \div Word, 1}), fixed |-> 0,
     val |-> f.bars[k - 1].addr \div Word]
  ELSE IF k \in DOMAIN f.windows THEN
    [part |-> f.windows[k].part, fixed |-> f.windows[k].val % f.windows[k].part,
     val |-> f.windows[k].val]
  ELSE [part |-> Word, fixed |-> 0, val |-> 0]

(* What register k of f holds after v is written.                          *)
Written(f, k, v) == v - (v % Reg(f, k).part) + Reg(f, k).fixed

Reset(f) == [k \in 0 .. NBars |-> Reg(f, k).val]

-----------------------------------------------------------------------------
(* The loops over ranges, buses, slots and functions.  The bus, the slot   *)
(* and the function are 0 outside their loops.                             *)

Alloc == mcfgs[range]

(* The function being looked at, the first of its slot, and the one the    *)
(* ports 0xCF8 and 0xCFC reach under its bus, slot and function: that of   *)
(* segment 0.                                                              *)
Here == <<Alloc.seg, bus, slot, func>>
First == <<Alloc.seg, bus, slot, 0>>
PortHere == <<0, bus, slot, func>>

F == fw.pci[Here]

PciInit ==
  /\ ppc = "start" /\ range = 1 /\ bus = 0 /\ slot = 0 /\ func = 0 /\ bar = 0
  /\ resources = {} /\ capabilities = {} /\ cap_ptr = 0 /\ caps_searched = 0
  /\ regs = [a \in DOMAIN fw.pci |-> Reset(fw.pci[a])]

(* Without ECAM ranges the fallback probes every function over the ports,  *)
(* and registers none.                                                     *)
StartScan ==
  /\ ppc = "start" /\ mcfgs # <<>>
  /\ ppc' = "range"
  /\ UNCHANGED <<range, bus, slot, func, found, regs, devices>>

LegacyScan ==
  /\ ppc = "start" /\ mcfgs = <<>>
  /\ ppc' = "done"
  /\ UNCHANGED <<range, bus, slot, func, found, regs, devices>>

EnterRange ==
  /\ ppc = "range"
  /\ \/ /\ range > Len(mcfgs)
        /\ ppc' = "done" /\ UNCHANGED bus
     \/ /\ range <= Len(mcfgs)
        /\ ppc' = "slot" /\ bus' = Alloc.start_bus
  /\ UNCHANGED <<range, slot, func, found, regs, devices>>

LeaveRange ==
  /\ ppc = "slot" /\ bus > Alloc.end_bus
  /\ ppc' = "range" /\ range' = range + 1 /\ bus' = 0 /\ slot' = 0
  /\ UNCHANGED <<func, found, regs, devices>>

NextBus ==
  /\ ppc = "slot" /\ bus <= Alloc.end_bus /\ slot = NSlots
  /\ bus' = bus + 1 /\ slot' = 0
  /\ UNCHANGED <<ppc, range, func, found, regs, devices>>

(* Function 0 tells whether the slot is used.                              *)
ProbeSlot ==
  /\ ppc = "slot" /\ bus <= Alloc.end_bus /\ slot < NSlots
  /\ IF First \in DOMAIN fw.pci THEN ppc' = "func" /\ UNCHANGED slot
     ELSE slot' = slot + 1 /\ UNCHANGED ppc
  /\ UNCHANGED <<range, bus, func, found, regs, devices>>

MaxFuncs == IF fw.pci[First].multifunction THEN NFuncs ELSE 1

LeaveSlot ==
  /\ ppc = "func" /\ func = MaxFuncs
  /\ ppc' = "slot" /\ slot' = slot + 1 /\ func' = 0
  /\ UNCHANGED <<range, bus, found, regs, devices>>

ProbeFunc ==
  /\ ppc = "func" /\ func < MaxFuncs
  /\ IF Here \in DOMAIN fw.pci THEN ppc' = "bars" /\ UNCHANGED func
     ELSE func' = func + 1 /\ UNCHANGED ppc
  /\ bar' = 0 /\ resources' = {} /\ capabilities' = {}
  /\ cap_ptr' = 0 /\ caps_searched' = 0
  /\ UNCHANGED <<range, bus, slot, regs, devices>>

-----------------------------------------------------------------------------
(* BARs                                                                    *)

Orig == regs[Here][bar]

(* Writing all ones to register k and reading it back.                     *)
MaskOf(k) == Written(F, k, Ones)

(* mask & !(flags - 1), then !mask + 1, in words of n values.              *)
SizeOf(mask, flags, n) == (n - (mask - (mask % flags))) % n

Resource(kind, addr, len) == [kind |-> kind, addr |-> addr, len |-> len]

SkipBar ==
  /\ ppc = "bars" /\ bar < NBars
  /\ Orig \in {0, Ones}
  /\ bar' = bar + 1
  /\ UNCHANGED <<resources, regs>>

SizeIo ==
  /\ ppc = "bars" /\ bar < NBars
  /\ Orig \notin {0, Ones} /\ Orig % 2 = 1
  /\ resources' = resources \cup
       {Resource("IO", Orig - (Orig % 4), SizeOf(MaskOf(bar), 4, Word))}
  /\ regs' = [regs EXCEPT ![Here][bar] = Written(F, bar, Orig)]
  /\ bar' = bar + 1

Is64 == (Orig \div 2) % 4 = 2

SizeMem32 ==
  /\ ppc = "bars" /\ bar < NBars
  /\ Orig \notin {0, Ones} /\ Orig % 2 = 0 /\ ~Is64
  /\ resources' = resources \cup
       {Resource("MemoryMapped", Orig - (Orig % 16), SizeOf(MaskOf(bar), 16, Word))}
  /\ regs' = [regs EXCEPT ![Here][bar] = Written(F, bar, Orig)]
  /\ bar' = bar + 1

(* Mutant of SizeMem64: the upper register is not restored.                *)
SizeMem64_LowOnly ==
  /\ ppc = "bars" /\ bar < NBars
  /\ Orig \notin {0, Ones} /\ Orig % 2 = 0 /\ Is64
  /\ LET high == regs[Here][bar + 1]
         mask == MaskOf(bar + 1) * Word + MaskOf(bar)
     IN  /\ resources' = resources \cup
              {Resource("MemoryMapped", high * Word + Orig - (Orig % 16),
                        SizeOf(mask, 16, Word * Word))}
         /\ regs' = [regs EXCEPT ![Here][bar] = Written(F, bar, Orig),
                                 ![Here][bar + 1] = MaskOf(bar + 1)]
  /\ bar' = bar + 2

(* A 64-bit BAR is sized and restored together with the next register.     *)
SizeMem64 ==
  /\ ppc = "bars" /\ bar < NBars
  /\ Orig \notin {0, Ones} /\ Orig % 2 = 0 /\ Is64
  /\ LET high == regs[Here][bar + 1]
         mask == MaskOf(bar + 1) * Word + MaskOf(bar)
     IN  /\ resources' = resources \cup
              {Resource("MemoryMapped", high * Word + Orig - (Orig % 16),
                        SizeOf(mask, 16, Word * Word))}
         /\ regs' = [regs EXCEPT ![Here][bar] = Written(F, bar, Orig),
                                 ![Here][bar + 1] = Written(F, bar + 1, high)]
  /\ bar' = bar + 2

SizeBar ==
  /\ SkipBar \/ SizeIo \/ SizeMem32 \/ SizeMem64
  /\ UNCHANGED <<ppc, range, bus, slot, func, capabilities, cap_ptr, caps_searched,
                 devices>>

-----------------------------------------------------------------------------
(* The interrupt line and the capability list, which is read through the   *)
(* ports.  A function that is not there reads as all ones.                 *)

InterruptLine ==
  /\ ppc = "bars" /\ bar >= NBars
  /\ resources' = resources \cup
       IF F.irq \notin {0, 255} THEN {Resource("Interrupt", F.irq, 0)} ELSE {}
  /\ cap_ptr' = IF PortHere \notin DOMAIN fw.pci THEN 255
                ELSE fw.pci[PortHere].cap_ptr
  /\ ppc' = "caps"
  /\ UNCHANGED <<range, bus, slot, func, bar, capabilities, caps_searched, regs,
                 devices>>

(* The capability read at a pointer.                                       *)
Cap(ptr) ==
  LET p == ptr - (ptr % 4)
  IN  IF PortHere \notin DOMAIN fw.pci THEN [kind |-> "other", next |-> 255]
      ELSE IF p \notin DOMAIN fw.pci[PortHere].caps
      THEN [kind |-> "other", next |-> 0]
      ELSE fw.pci[PortHere].caps[p]

(* MSI and MSI-X are resources, the other capabilities have a list.  What  *)
(* a capability says of itself is left out: it is told by its kind.        *)
CapStep ==
  /\ ppc = "caps" /\ cap_ptr # 0 /\ caps_searched < MaxCaps
  /\ LET c == Cap(cap_ptr)
     IN  /\ resources' = resources \cup
              IF c.kind \in {"Msi", "Msix"} THEN {Resource(c.kind, 0, 0)} ELSE {}
         /\ capabilities' = capabilities \cup
              IF c.kind \in {"Msi", "Msix"} THEN {} ELSE {c.kind}
         /\ cap_ptr' = c.next
  /\ caps_searched' = caps_searched + 1
  /\ UNCHANGED <<ppc, range, bus, slot, func, bar, regs, devices>>

-----------------------------------------------------------------------------
(* merge_or_register, then register_device.                                *)

SameId(id) == {k \in DOMAIN devices : devices[k].id = id}

(* Mutant of Merged: the resources of the second function are dropped.     *)
Merged_KeepsFirst(d) == d

(* A resource is missing when none has its kind and its address.           *)
Merged(d) ==
  [id |-> d.id,
   resources |-> d.resources \cup
     {r \in resources : \A e \in d.resources : e.kind # r.kind \/ e.addr # r.addr},
   capabilities |-> d.capabilities \cup capabilities]

RegisterFunction ==
  /\ ppc = "caps" /\ (cap_ptr = 0 \/ caps_searched >= MaxCaps)
  /\ devices' =
       IF SameId(F.id) = {}
       THEN Append(devices, [id |-> F.id, resources |-> resources,
                             capabilities |-> capabilities])
       ELSE [devices EXCEPT ![Min(SameId(F.id))] = Merged(@)]
  /\ ppc' = "func" /\ func' = func + 1
  /\ UNCHANGED <<range, bus, slot, found, regs>>

ScanPci ==
  \/ StartScan \/ LegacyScan \/ EnterRange \/ LeaveRange \/ NextBus
  \/ ProbeSlot \/ LeaveSlot \/ ProbeFunc \/ SizeBar \/ InterruptLine
  \/ CapStep \/ RegisterFunction

-----------------------------------------------------------------------------
(* Properties                                                              *)

(* Sizing a BAR leaves no trace: outside it every register from 0x10 on    *)
(* has the value the firmware gave it, the upper halves of 64-bit BARs and *)
(* the windows of a bridge included.                                       *)
ConfigRestored == \A a \in DOMAIN fw.pci : regs[a] = Reset(fw.pci[a])

(* Why: each restoring write is to a function that is there, and writes    *)
(* what a register of it held.                                             *)
PciInv ==
  /\ regs = [a \in DOMAIN fw.pci |-> Reset(fw.pci[a])]
  /\ bar \in Nat
  /\ ppc = "bars" => Here \in DOMAIN fw.pci

InRange(a, k) ==
  a[1] = mcfgs[k].seg /\ mcfgs[k].start_bus <= a[2] /\ a[2] <= mcfgs[k].end_bus

(* The functions the scan can see.                                         *)
Seen ==
  {a \in DOMAIN fw.pci :
     /\ \E k \in DOMAIN mcfgs : InRange(a, k)
     /\ \/ a[4] = 0
        \/ /\ <<a[1], a[2], a[3], 0>> \in DOMAIN fw.pci
           /\ fw.pci[<<a[1], a[2], a[3], 0>>].multifunction}

(* The capabilities reachable from a function's pointer: what lies in      *)
(* every set that holds its target and is closed under `next`.             *)
Chain(f) ==
  {p \in DOMAIN f.caps :
     \A S \in SUBSET DOMAIN f.caps :
       /\ Target(f.cap_ptr) \subseteq S
       /\ \A q \in S : Target(f.caps[q].next) \subseteq S
       => p \in S}

Kinds(f, V) == {f.caps[p].kind : p \in V}
KindsOf(f) == Kinds(f, Chain(f))

(* What a function has: its assigned BARs (those below n), its interrupt,  *)
(* its messages.                                                           *)
Bars(f, n) ==
  {Resource(IF f.bars[k].kind = "io" THEN "IO" ELSE "MemoryMapped",
            f.bars[k].addr, f.bars[k].len) :
     k \in {j \in DOMAIN f.bars : j < n /\ Reg(f, j).val # 0}}

Line(f) == IF f.irq \in {0, 255} THEN {} ELSE {Resource("Interrupt", f.irq, 0)}

Messages(kinds) == {Resource(k, 0, 0) : k \in kinds \cap {"Msi", "Msix"}}

Declared(f) == Bars(f, NBars) \cup Line(f) \cup Messages(KindsOf(f))

WithId(S, id) == {a \in S : fw.pci[a].id = id}
ResourcesOf(S) == UNION {Declared(fw.pci[a]) : a \in S}
CapabilitiesOf(S) == (UNION {KindsOf(fw.pci[a]) : a \in S}) \ {"Msi", "Msix"}

(* No bridges, and nothing outside segment 0, whose capabilities the ports *)
(* do not reach; resources differ in kind or address.                      *)
Plain(S) ==
  /\ \A a \in S : a[1] = 0 /\ DOMAIN fw.pci[a].windows = {}
  /\ \A r, q \in ResourcesOf(S) : r.kind = q.kind /\ r.addr = q.addr => r = q

(* At the end of the scan each id the scan can see has one entry, whose    *)
(* resources and capabilities are those of all its functions, lengths and  *)
(* 64-bit addresses included: no function is missed, no loop of            *)
(* capabilities is cut short.                                              *)
FunctionsListed ==
  ppc = "done" =>
    \A id \in {fw.pci[a].id : a \in Seen} :
      /\ Cardinality(SameId(id)) = 1
      /\ Plain(WithId(Seen, id)) =>
           \A k \in SameId(id) :
             /\ devices[k].resources = ResourcesOf(WithId(Seen, id))
             /\ devices[k].capabilities = CapabilitiesOf(WithId(Seen, id))

-----------------------------------------------------------------------------
(* Why: what the loops have passed is listed.                              *)

Behind(a, k) ==
  \/ k < range
  \/ /\ k = range
     /\ \/ a[2] < bus
        \/ a[2] = bus /\ a[3] < slot
        \/ a[2] = bus /\ a[3] = slot /\ a[4] < func

Scanned == {a \in Seen : \E k \in DOMAIN mcfgs : InRange(a, k) /\ Behind(a, k)}

(* Where the loops can be.                                                 *)
PlaceInv ==
  /\ range \in Nat \ {0} /\ bus \in Nat /\ slot \in Nat /\ func \in Nat
  /\ ppc \in {"start", "range", "slot", "func", "bars", "caps", "done"}
  /\ ppc \in {"start", "range"} => bus = 0 /\ slot = 0 /\ func = 0
  /\ ppc = "start" => range = 1
  /\ ppc \in {"slot", "func", "bars", "caps"} =>
       range <= Len(mcfgs) /\ Alloc.start_bus <= bus /\ slot <= NSlots
  /\ ppc = "slot" => func = 0
  /\ ppc \in {"func", "bars", "caps"} =>
       /\ bus <= Alloc.end_bus /\ slot < NSlots /\ First \in DOMAIN fw.pci
       /\ func <= MaxFuncs
  /\ ppc \in {"bars", "caps"} => Here \in DOMAIN fw.pci /\ func < MaxFuncs
  /\ ppc = "done" => Len(mcfgs) < range

(* The registers before `bar` have been looked at, the next one is not the *)
(* upper half of a 64-bit BAR.                                             *)
BarsInv ==
  ppc = "bars" =>
    /\ capabilities = {} /\ caps_searched = 0
    /\ DOMAIN F.windows = {} =>
         /\ resources = Bars(F, bar)
         /\ bar - 1 \in DOMAIN F.bars => F.bars[bar - 1].kind # "mem64"

(* V is what a walk of f's capabilities has seen when it is at ptr after n *)
(* steps: all that the first pointer and those of V point to, but for what *)
(* ptr points to.  They are n, unless ptr is back at one of them.          *)
Walked(f, V, ptr, n) ==
  /\ V \subseteq Chain(f) /\ Target(ptr) \subseteq Chain(f)
  /\ Target(f.cap_ptr) \subseteq V \cup Target(ptr)
  /\ \A p \in V : Target(f.caps[p].next) \subseteq V \cup Target(ptr)
  /\ Target(ptr) \subseteq V \/ Cardinality(V) = n

CapsInv ==
  ppc = "caps" /\ Here[1] = 0 =>
    /\ caps_searched \in Nat
    /\ \E V \in SUBSET DOMAIN F.caps :
         /\ Walked(F, V, cap_ptr, caps_searched)
         /\ DOMAIN F.windows = {} =>
              resources = Bars(F, NBars) \cup Line(F) \cup Messages(Kinds(F, V))
         /\ capabilities = Kinds(F, V) \ {"Msi", "Msix"}

(* One entry for the functions passed that share an id.                    *)
ListInv ==
  \A id \in {fw.pci[a].id : a \in Seen} :
    /\ IF WithId(Scanned, id) = {} THEN SameId(id) = {}
       ELSE \E k \in DOMAIN devices : SameId(id) = {k}
    /\ Plain(WithId(Seen, id)) =>
         \A k \in SameId(id) :
           /\ devices[k].resources = ResourcesOf(WithId(Scanned, id))
           /\ devices[k].capabilities = CapabilitiesOf(WithId(Scanned, id))

ScanInv ==
  /\ PlaceInv /\ BarsInv /\ CapsInv
  /\ IF ppc = "start" THEN AcpiListed ELSE ListInv

=============================================================================
