------------------------------ MODULE IrqRouting ------------------------------
(***************************************************************************)
(* How kernel_main brings up interrupts: the IOAPIC driver of              *)
(* src/hal/ioapic.rs, called by src/hal/hal.rs and src/main.rs, with the   *)
(* parts of the Local APIC (hal/apic.rs) and of the IDT (arch/idt.rs) it   *)
(* depends on.                                                             *)
(*                                                                         *)
(* A redirection entry is two 32-bit registers, which the driver writes    *)
(* one after the other, the high one (the destination) first.  Every       *)
(* register write is a step, and from `sti` on devices may interrupt       *)
(* between two steps.                                                      *)
(***************************************************************************)
EXTENDS Naturals, Sequences

CONSTANTS
  NLegacy,     \* the legacy ISA interrupts are 0..NLegacy-1 (16 in the code)
  Kbd, Mouse,  \* those of the two PS/2 ports (1 and 12)
  Devices,     \* those that have a device
  ApicId,      \* this CPU's Local APIC id
  Madts        \* what parse_madt may have stored

Legacy == 0 .. NLegacy - 1

(* isos: the overrides of ISA interrupts; ioapics: the first GSI and the   *)
(* number of entries of each IOAPIC; lapic: there is a Local APIC address. *)
Iso == [source : Legacy, gsi : Nat]
IoApicInfo == [gsi_base : Nat, redir_entries : Nat]
Madt == [isos : Seq(Iso), ioapics : Seq(IoApicInfo), lapic : BOOLEAN]

ASSUME LegacyOK ==
  /\ NLegacy \in 1 .. 16
  /\ Devices \subseteq Legacy
  /\ {Kbd, Mouse} \subseteq Devices /\ Kbd # Mouse /\ 0 \notin {Kbd, Mouse}
  /\ ApicId \in Nat

(* Each source has one override at most, and IOAPICs share no GSI.         *)
ASSUME MadtsOK ==
  \A m \in Madts :
    /\ m \in Madt
    /\ \A j, k \in DOMAIN m.isos :
         m.isos[j].source = m.isos[k].source => j = k
    /\ \A j, k \in DOMAIN m.ioapics :
         m.ioapics[j].gsi_base <= m.ioapics[k].gsi_base /\ j # k =>
           m.ioapics[j].gsi_base + m.ioapics[j].redir_entries
             <= m.ioapics[k].gsi_base

VARIABLES
  madt,         \* IOAPICS, ISOS and MADT_LOCAL_APIC_ADDR
  pc, i,        \* the function that runs, and its loop index
  half,         \* the half of the entry it writes next
  table,        \* IOAPIC_TABLE
  redir,        \* the redirection entry of each pin
  idt,          \* the handler of each legacy vector
  intr,         \* RFLAGS.IF
  delivered     \* which handler ran for which device, and whether main was done

vars == <<madt, pc, i, half, table, redir, idt, intr, delivered>>

-----------------------------------------------------------------------------
(* find_ioapic_for_gsi: the pin <<index, local>> of a GSI among ios, if any *)
Pins(ios, gsi) ==
  {<<k, gsi - ios[k].gsi_base>> :
     k \in {j \in DOMAIN ios :
              /\ gsi >= ios[j].gsi_base
              /\ gsi < ios[j].gsi_base + ios[j].redir_entries}}

AllPins(ios) ==
  UNION {{<<k, n>> : n \in 0 .. ios[k].redir_entries - 1} : k \in DOMAIN ios}

(* The GSI a device's interrupt line is wired to, which the overrides tell. *)
Gsi(m, source) ==
  IF \E k \in DOMAIN m.isos : m.isos[k].source = source
  THEN m.isos[CHOOSE k \in DOMAIN m.isos : m.isos[k].source = source].gsi
  ELSE source

Vector(source) == (32 + source) % 256

(* No two devices share a line.                                            *)
LinesApart(m) == \A s, t \in Devices : Gsi(m, s) = Gsi(m, t) => s = t

(* Entries are masked at reset, interrupts are off, and every vector has   *)
(* the default handler.                                                    *)
Init ==
  /\ madt \in {m \in Madts : LinesApart(m)}
  /\ pc = "init_ioapics" /\ i = 1 /\ half = "high"
  /\ table = <<>>
  /\ redir = [p \in AllPins(madt.ioapics) |->
                [vector |-> 0, masked |-> TRUE, dest |-> 0]]
  /\ idt = [v \in {Vector(s) : s \in Legacy} |-> "default"]
  /\ intr = FALSE
  /\ delivered = {}

-----------------------------------------------------------------------------
(* Writing an entry.                                                       *)

Goto(label, index) == pc' = label /\ i' = index

(* Mutant of Program: the low half, with the mask bit, first.             *)
Program_LowFirst(gsi, dest, low) ==
  \/ /\ Pins(table, gsi) = {}
     /\ i' = i + 1
     /\ UNCHANGED <<redir, half>>
  \/ \E p \in Pins(table, gsi) :
       \/ /\ half = "high"
          /\ redir' = [redir EXCEPT ![p].vector = low.vector,
                                    ![p].masked = low.masked]
          /\ half' = "low"
          /\ UNCHANGED i
       \/ /\ half = "low"
          /\ redir' = [redir EXCEPT ![p].dest = dest]
          /\ half' = "high"
          /\ i' = i + 1

(* One turn of a loop that writes the entry of gsi: the high half, then    *)
(* the low one.  A GSI no IOAPIC handles is skipped.                       *)
Program(gsi, dest, low) ==
  \/ /\ Pins(table, gsi) = {}
     /\ i' = i + 1
     /\ UNCHANGED <<redir, half>>
  \/ \E p \in Pins(table, gsi) :
       \/ /\ half = "high"
          /\ redir' = [redir EXCEPT ![p].dest = dest]
          /\ half' = "low"
          /\ UNCHANGED i
       \/ /\ half = "low"
          /\ redir' = [redir EXCEPT ![p].vector = low.vector,
                                    ![p].masked = low.masked]
          /\ half' = "high"
          /\ i' = i + 1

(* The vector an entry has now, for the functions that only clear the mask. *)
Unmasked(gsi) ==
  [vector |-> IF Pins(table, gsi) = {} THEN 0
              ELSE redir[CHOOSE p \in Pins(table, gsi) : TRUE].vector,
   masked |-> FALSE]

-----------------------------------------------------------------------------
(* hal::init_hardware: entries are given a vector and stay masked.         *)

InitIoapics ==
  /\ pc = "init_ioapics"
  /\ table' = madt.ioapics
  /\ Goto("apply_isos", 1)
  /\ UNCHANGED <<madt, half, redir, idt, intr, delivered>>

(* Mutant of ApplyIso: the vector of the GSI, not of the source.          *)
ApplyIso_GsiVector ==
  /\ pc = "apply_isos" /\ i <= Len(madt.isos)
  /\ Program(madt.isos[i].gsi, 0,
             [vector |-> Vector(madt.isos[i].gsi), masked |-> TRUE])
  /\ UNCHANGED <<madt, pc, table, idt, intr, delivered>>

ApplyIso ==
  /\ pc = "apply_isos" /\ i <= Len(madt.isos)
  /\ Program(madt.isos[i].gsi, 0,
             [vector |-> Vector(madt.isos[i].source), masked |-> TRUE])
  /\ UNCHANGED <<madt, pc, table, idt, intr, delivered>>

ApplyIsosDone ==
  /\ pc = "apply_isos" /\ i > Len(madt.isos)
  /\ Goto("legacy_fallback", 0)
  /\ UNCHANGED <<madt, half, table, redir, idt, intr, delivered>>

(* Mutant of LegacyFallback: the vector one too high.                     *)
LegacyFallback_OffByOne ==
  /\ pc = "legacy_fallback" /\ i < NLegacy
  /\ Program(i, 0, [vector |-> IF i + 1 < NLegacy THEN Vector(i + 1) ELSE Vector(0),
                    masked |-> TRUE])
  /\ UNCHANGED <<madt, pc, table, idt, intr, delivered>>

LegacyFallback ==
  /\ pc = "legacy_fallback" /\ i < NLegacy
  /\ Program(i, 0, [vector |-> Vector(i), masked |-> TRUE])
  /\ UNCHANGED <<madt, pc, table, idt, intr, delivered>>

LegacyFallbackDone ==
  /\ pc = "legacy_fallback" /\ i = NLegacy
  /\ Goto("attach_kbd", 0)
  /\ UNCHANGED <<madt, half, table, redir, idt, intr, delivered>>

-----------------------------------------------------------------------------
(* kernel_main: the keyboard driver registers its handler and the legacy   *)
(* PICs are masked, so that interrupts come from the IOAPICs only; then    *)
(* entries are unmasked, if there is a Local APIC and some override.       *)

AttachKbd ==
  /\ pc = "attach_kbd"
  /\ idt' = [idt EXCEPT ![Vector(Kbd)] = "kbd"]
  /\ IF madt.lapic /\ madt.isos # <<>>
     THEN Goto("enable_isos", 1) ELSE Goto("timer", 0)
  /\ UNCHANGED <<madt, half, table, redir, intr, delivered>>

EnableIso ==
  /\ pc = "enable_isos" /\ i <= Len(madt.isos)
  /\ Program(madt.isos[i].gsi, ApicId, Unmasked(madt.isos[i].gsi))
  /\ UNCHANGED <<madt, pc, table, idt, intr, delivered>>

EnableIsosDone ==
  /\ pc = "enable_isos" /\ i > Len(madt.isos)
  /\ Goto("enable_legacy", 0)
  /\ UNCHANGED <<madt, half, table, redir, idt, intr, delivered>>

EnableLegacy ==
  /\ pc = "enable_legacy" /\ i < NLegacy
  /\ Program(i, ApicId, Unmasked(i))
  /\ UNCHANGED <<madt, pc, table, idt, intr, delivered>>

EnableLegacyDone ==
  /\ pc = "enable_legacy" /\ i = NLegacy
  /\ Goto("timer", 0)
  /\ UNCHANGED <<madt, half, table, redir, idt, intr, delivered>>

(* tsc_timer::init, on a CPU that has the timer, registers its handler on  *)
(* the vector of interrupt 0.  Interrupts are enabled next.                *)
EnableInterrupts ==
  /\ pc = "timer"
  /\ \/ madt.lapic /\ idt' = [idt EXCEPT ![Vector(0)] = "timer"]
     \/ UNCHANGED idt
  /\ intr' = TRUE
  /\ Goto("attach_mouse", 0)
  /\ UNCHANGED <<madt, half, table, redir, delivered>>

(* The mouse driver registers its handler; main then unmasks its GSI, the  *)
(* one its override names if it has one, and sets its vector.              *)
AttachMouse ==
  /\ pc = "attach_mouse"
  /\ idt' = [idt EXCEPT ![Vector(Mouse)] = "mouse"]
  /\ Goto(IF madt.lapic THEN "unmask_gsi" ELSE "run", 0)
  /\ UNCHANGED <<madt, half, table, redir, intr, delivered>>

(* Mutant of UnmaskMouse: the legacy number taken for the GSI.            *)
UnmaskMouse_NoOverride ==
  /\ pc = "unmask_gsi" /\ i = 0
  /\ Program(Mouse, ApicId, [vector |-> Vector(Mouse), masked |-> FALSE])
  /\ UNCHANGED <<madt, pc, table, idt, intr, delivered>>

UnmaskMouse ==
  /\ pc = "unmask_gsi" /\ i = 0
  /\ Program(Gsi(madt, Mouse), ApicId, [vector |-> Vector(Mouse), masked |-> FALSE])
  /\ UNCHANGED <<madt, pc, table, idt, intr, delivered>>

UnmaskMouseDone ==
  /\ pc = "unmask_gsi" /\ i = 1
  /\ Goto("run", 0)
  /\ UNCHANGED <<madt, half, table, redir, idt, intr, delivered>>

-----------------------------------------------------------------------------
(* Device s interrupts: its pin's entry, when it is not masked and names   *)
(* this CPU, makes the CPU run the handler of its vector.                  *)
Deliver(s) ==
  /\ intr
  /\ \E p \in Pins(madt.ioapics, Gsi(madt, s)) :
       /\ ~redir[p].masked
       /\ redir[p].dest = ApicId
       /\ delivered' = delivered \cup
            {[source |-> s, handler |-> idt[redir[p].vector], booted |-> pc = "run"]}
  /\ UNCHANGED <<madt, pc, i, half, table, redir, idt, intr>>

Boot ==
  \/ InitIoapics
  \/ ApplyIso \/ ApplyIsosDone \/ LegacyFallback \/ LegacyFallbackDone
  \/ AttachKbd
  \/ EnableIso \/ EnableIsosDone \/ EnableLegacy \/ EnableLegacyDone
  \/ EnableInterrupts
  \/ AttachMouse \/ UnmaskMouse \/ UnmaskMouseDone

Next == Boot \/ \E s \in Devices : Deliver(s)

Spec == Init /\ [][Next]_vars

-----------------------------------------------------------------------------
(* Properties.                                                             *)

Handlers == {"default", "kbd", "timer", "mouse"}
Vectors == {Vector(s) : s \in Legacy}
Entry == [vector : {0} \cup Vectors, masked : BOOLEAN, dest : {0, ApicId}]

(* Type invariant.                                                         *)
TypeOK ==
  /\ madt \in Madt
  /\ pc \in {"init_ioapics", "apply_isos", "legacy_fallback", "attach_kbd",
             "enable_isos", "enable_legacy", "timer", "attach_mouse",
             "unmask_gsi", "run"}
  /\ i \in Nat
  /\ half \in {"high", "low"}
  /\ table \in {<<>>, madt.ioapics}
  /\ redir \in [AllPins(madt.ioapics) -> Entry]
  /\ idt \in [Vectors -> Handlers]
  /\ intr \in BOOLEAN
  /\ delivered \subseteq
       [source : Devices, handler : Handlers, booted : BOOLEAN]

(* An entry that is not masked names this CPU and has a vector of its own, *)
(* also between the two register writes: no interrupt is ever sent to CPU  *)
(* 0 or to an exception vector because it came half way.                   *)
UnmaskedIsComplete ==
  \A p \in DOMAIN redir :
    ~redir[p].masked => redir[p].dest = ApicId /\ redir[p].vector \in DOMAIN idt

(* The keyboard's interrupts run the keyboard driver's handler, from the   *)
(* first one, when its line is not overridden: the fallback restores the   *)
(* vector of GSI 1 even when an override of another source wrote there.    *)
KeyboardHandled ==
  \A d \in delivered :
    d.source = Kbd /\ Gsi(madt, Kbd) = Kbd => d.handler = "kbd"

(* Once main has unmasked it, the mouse's interrupts run the mouse         *)
(* driver's handler, whichever GSI its override names; and its line is     *)
(* open, with or without overrides, whenever an IOAPIC has it.             *)
MouseHandled ==
  /\ \A d \in delivered : d.source = Mouse /\ d.booted => d.handler = "mouse"
  /\ pc = "run" /\ madt.lapic =>
       \A p \in Pins(madt.ioapics, Gsi(madt, Mouse)) : ~redir[p].masked

(* The GSI whose entry is being written, if any.                           *)
Writing ==
  CASE pc \in {"apply_isos", "enable_isos"} ->
         {madt.isos[k].gsi : k \in DOMAIN madt.isos \cap {i}}
    [] pc \in {"legacy_fallback", "enable_legacy"} -> Legacy \cap {i}
    [] pc = "unmask_gsi" /\ i = 0 -> {Gsi(madt, Mouse)}
    [] OTHER -> {}

(* Whether override k, and legacy line g, have had their vectors.          *)
IsoApplied(k) == pc # "init_ioapics" /\ (pc = "apply_isos" => k < i)
FallbackApplied(g) ==
  pc \notin {"init_ioapics", "apply_isos"} /\ (pc = "legacy_fallback" => g < i)

(* The parts of the inductive invariant behind the lines' properties.      *)
(* Where the boot sequence is:                                             *)
ControlInv ==
  /\ madt \in Madts /\ LinesApart(madt)
  /\ pc # "init_ioapics" => table = madt.ioapics
  /\ pc \in {"apply_isos", "enable_isos"} => i > 0
  /\ pc \in {"enable_isos", "enable_legacy", "unmask_gsi"} => madt.lapic
  /\ pc = "unmask_gsi" => i \in {0, 1}
  /\ intr => pc \in {"attach_mouse", "unmask_gsi", "run"}

(* Between the two writes of an entry its destination is set already.      *)
HalfInv ==
  half = "low" =>
    \E g \in Writing : \E p \in Pins(madt.ioapics, g) :
      pc \notin {"apply_isos", "legacy_fallback"} => redir[p].dest = ApicId

(* No entry is unmasked before all of them have their vectors ...          *)
MaskInv ==
  pc \in {"init_ioapics", "apply_isos", "legacy_fallback", "attach_kbd"} \/ ~madt.lapic
    => \A p \in DOMAIN redir : redir[p].masked

(* The last override of its GSI, which decides over the entry.             *)
LastOnLine(k) ==
  \A j \in DOMAIN madt.isos : j > k => madt.isos[j].gsi # madt.isos[k].gsi

(* The entry of GSI g has the vector v since main programmed it last.      *)
MouseHas(g, v) == madt.lapic /\ g = Gsi(madt, Mouse) /\ v = Vector(Mouse)

(* ... from the overrides and then from the fallback, whose vectors last,  *)
(* but for the mouse's line.                                               *)
VectorInv ==
  /\ \A k \in DOMAIN madt.isos : IsoApplied(k) =>
       \A p \in Pins(madt.ioapics, madt.isos[k].gsi) : redir[p].vector # 0
  /\ \A g \in Legacy : FallbackApplied(g) =>
       \A p \in Pins(madt.ioapics, g) :
         redir[p].vector = Vector(g) \/ MouseHas(g, redir[p].vector)
  /\ \A k \in DOMAIN madt.isos :
       IsoApplied(k) /\ LastOnLine(k) /\ madt.isos[k].gsi \notin Legacy =>
         \A p \in Pins(madt.ioapics, madt.isos[k].gsi) :
           \/ redir[p].vector = Vector(madt.isos[k].source)
           \/ MouseHas(madt.isos[k].gsi, redir[p].vector)

(* A handler is in the IDT before its line is opened.                      *)
HandlerInv ==
  /\ pc \in {"enable_isos", "enable_legacy", "timer", "attach_mouse",
             "unmask_gsi", "run"} => idt[Vector(Kbd)] = "kbd"
  /\ pc \in {"unmask_gsi", "run"} => idt[Vector(Mouse)] = "mouse"

(* The mouse's line is open with its vector when main is done with it.     *)
MouseLineInv ==
  (pc = "unmask_gsi" /\ i = 1) \/ (pc = "run" /\ madt.lapic) =>
    \A p \in Pins(madt.ioapics, Gsi(madt, Mouse)) :
      ~redir[p].masked /\ redir[p].vector = Vector(Mouse)

IrqInv ==
  /\ TypeOK /\ UnmaskedIsComplete /\ KeyboardHandled /\ MouseHandled
  /\ ControlInv /\ HalfInv /\ MaskInv /\ VectorInv /\ HandlerInv /\ MouseLineInv

(* apply_isos_from_acpi says "use vector = 0x20 + source (keeps legacy     *)
(* mapping)".  For an override outside the legacy range, if no later one   *)
(* names its GSI, that lasts through the three passes that follow, to the  *)
(* end of boot; only on the mouse's line, which main programs last, is it  *)
(* the mouse's vector.  Inside the legacy range it does not last: the      *)
(* fallback overwrites it.                                                 *)
OverridesKeepSource ==
  pc = "run" =>
    \A k \in DOMAIN madt.isos : LastOnLine(k) /\ madt.isos[k].gsi \notin Legacy =>
      \A p \in Pins(madt.ioapics, madt.isos[k].gsi) :
        \/ redir[p].vector = Vector(madt.isos[k].source)
        \/ MouseHas(madt.isos[k].gsi, redir[p].vector)

=============================================================================
