-------------------------- MODULE KernelBootProofs --------------------------
(***************************************************************************)
(* Proofs about the boot sequence: its order, which makes what             *)
(* FirmwareProofs and PciProofs show of the parts hold of the whole; and   *)
(* that it implements IrqRouting started with the MADT in memory, so that  *)
(* what is proved of IrqRouting holds of it.                               *)
(***************************************************************************)
EXTENDS BootRouting, FirmwareProofs, PciProofs

-----------------------------------------------------------------------------
(* The order of the boot sequence.                                         *)

(* The firmware stays, and what ACPI found does once it is handed over.    *)
LEMMA Handed ==
  ASSUME [KernelNext]_kvars
  PROVE  /\ fw' = fw
         /\ apc = "handed_over" => apc' = apc /\ mcfgs' = mcfgs /\ hpet' = hpet
<1>1. CASE ParseAcpi
  <2>1. InitAcpi /\ apc # "handed_over"
    BY <1>1, Zenon DEF ParseAcpi, InitAcpi, FindRsdp, ParseRoot, TableInfo, TablesDone,
       MadtEntry, MadtDone, ParseHpet, McfgEntry, McfgDone, EnableAcpi, PollSci
  <2>2. fw' = fw
    BY <2>1, Zenon DEF InitAcpi, FindRsdp, ParseRoot, TableInfo, TablesDone, MadtEntry,
       MadtDone, ParseHpet, McfgEntry, McfgDone, EnableAcpi, PollSci, firmware
  <2> QED
    BY Zenon, <2>1, <2>2
<1>2. CASE InitLocalApic
  BY Zenon, <1>2 DEF InitLocalApic, firmware
<1>3. CASE Enumerate \/ StartTimer \/ Route
  BY Zenon, <1>3 DEF Enumerate, StartTimer, Route, firmware, acpi
<1>4. CASE SetSciEn /\ UNCHANGED <<vars, pci, regs, timer>>
  BY Zenon, <1>4 DEF SetSciEn, acpi
<1>5. CASE \E s \in Devices :
             Deliver(s) /\ UNCHANGED <<firmware, acpi, devices, pci, regs, timer>>
  BY Zenon, <1>5 DEF firmware, acpi
<1>6. CASE UNCHANGED kvars
  BY Zenon, <1>6 DEF kvars, firmware, acpi
<1> QED
  BY Zenon, <1>1, <1>2, <1>3, <1>4, <1>5, <1>6 DEF KernelNext, Kernel

(* The PCI scan changes in Enumerate only, the timer in StartTimer only.   *)
LEMMA Others ==
  ASSUME [KernelNext]_kvars
  PROVE  /\ Enumerate \/ UNCHANGED <<pci, regs>>
         /\ StartTimer \/ UNCHANGED timer
<1>1. CASE ParseAcpi \/ InitLocalApic \/ Route
  BY Zenon, <1>1 DEF ParseAcpi, InitLocalApic, Route
<1>2. CASE Enumerate
  BY Zenon, <1>2 DEF Enumerate
<1>3. CASE StartTimer
  BY Zenon, <1>3 DEF StartTimer
<1>4. CASE SetSciEn /\ UNCHANGED <<vars, pci, regs, timer>>
  BY Zenon, <1>4
<1>5. CASE \E s \in Devices :
             Deliver(s) /\ UNCHANGED <<firmware, acpi, devices, pci, regs, timer>>
  BY Zenon, <1>5
<1>6. CASE UNCHANGED kvars
  BY Zenon, <1>6 DEF kvars
<1> QED
  BY Zenon, <1>1, <1>2, <1>3, <1>4, <1>5, <1>6 DEF KernelNext, Kernel

(* Nothing runs ahead of ACPI.                                             *)
LEMMA NextStaged ==
  ASSUME Staged, [KernelNext]_kvars
  PROVE  Staged'
<1>1. CASE apc = "handed_over"
  <2>1. apc' = "handed_over"
    BY Zenon, <1>1, Handed
  <2> QED
    BY Zenon, <2>1 DEF Staged
<1>2. CASE apc # "handed_over"
  <2>1. pc = "init_ioapics" /\ ppc = "start" /\ tpc = "start"
    BY Zenon, <1>2 DEF Staged
  <2>2. CASE InitLocalApic
    BY Zenon, <2>2 DEF InitLocalApic, Staged
  <2>3. ~Enumerate /\ ~StartTimer /\ ~Route
    BY Zenon, <1>2, <2>1 DEF Enumerate, StartTimer, Route
  <2>4. CASE ParseAcpi
    BY Zenon, <2>1, <2>4 DEF ParseAcpi, Staged, vars, pci, timer
  <2>5. CASE SetSciEn /\ UNCHANGED <<vars, pci, regs, timer>>
    BY Zenon, <2>1, <2>5 DEF Staged, vars, pci, timer
  <2>6. CASE \E s \in Devices :
               Deliver(s) /\ UNCHANGED <<firmware, acpi, devices, pci, regs, timer>>
    BY <2>1, <2>6, Zenon DEF Deliver, Staged, pci, timer
  <2>7. CASE UNCHANGED kvars
    BY <2>1, <2>7, Zenon DEF kvars, vars, pci, timer, Staged
  <2> QED
    BY Zenon, <2>2, <2>3, <2>4, <2>5, <2>6, <2>7 DEF KernelNext, Kernel
<1> QED
  BY Zenon, <1>1, <1>2

(* Every step of the boot sequence keeps what is known of the PCI scan.    *)
LEMMA NextPciInv ==
  ASSUME fw \in Firmwares, Staged, PciInv, [KernelNext]_kvars
  PROVE  PciInv'
<1>1. fw' = fw
  BY Zenon, Handed
<1>2. CASE Enumerate
  <2>1. mcfgs' = mcfgs /\ ScanPci
    BY Zenon, <1>2 DEF Enumerate, acpi
  <2> QED
    BY Zenon, <1>1, <2>1, ScanPciInv
<1>3. CASE UNCHANGED <<pci, regs>>
  <2>1. /\ range' = range /\ bus' = bus /\ slot' = slot /\ func' = func
        /\ ppc' = ppc /\ bar' = bar /\ regs' = regs
    BY Zenon, <1>3 DEF pci, found
  <2>2. ppc = "bars" => Here' = Here
    <3>1. ppc = "bars" => mcfgs' = mcfgs
      BY Zenon, Handed DEF Staged
    <3> QED
      BY Zenon, <2>1, <3>1, SameHere
  <2> QED
    BY Zenon, <1>1, <2>1, <2>2 DEF PciInv, Reset
<1> QED
  BY Zenon, <1>2, <1>3, Others

(* Every step of the boot sequence keeps what is known of the timer.       *)
LEMMA NextTimerInv ==
  ASSUME fw \in Firmwares, Staged, TimerInv, CalibrationSound, [KernelNext]_kvars
  PROVE  TimerInv' /\ CalibrationSound'
<1>1. fw' = fw
  BY Zenon, Handed
<1>2. CASE StartTimer
  <2>1. InitTimer /\ hpet' = hpet
    BY Zenon, <1>2 DEF StartTimer, acpi
  <2> QED
    BY <1>1, <2>1, InitTimerInv, InitTimerSound, Zenon
<1>3. CASE UNCHANGED timer
  <2>1. /\ tpc' = tpc /\ tsc' = tsc /\ h1' = h1 /\ t1' = t1 /\ h2' = h2
        /\ period_cycles' = period_cycles
    BY Zenon, <1>3 DEF timer
  <2>2. TimerInv'
    <3>1. Reads' = Reads /\ Counter(tsc)' = Counter(tsc)
      BY <1>1, <2>1, Zenon DEF Reads, Counter
    <3> QED
      BY <1>1, <2>1, <3>1, Zenon DEF TimerInv, Counter, Minus
  <2>3. CalibrationSound'
    <3>1. CASE apc = "handed_over"
      <4>1. hpet' = hpet
        BY Zenon, <3>1, Handed
      <4> QED
        BY <1>1, <2>1, <4>1, Zenon DEF CalibrationSound
    <3>2. CASE apc # "handed_over"
      <4>1. tpc' = "start"
        BY Zenon, <2>1, <3>2 DEF Staged
      <4> QED
        BY <4>1, Zenon DEF CalibrationSound
    <3> QED
      BY <3>1, <3>2, Zenon
  <2> QED
    BY <2>2, <2>3, Zenon
<1> QED
  BY <1>2, <1>3, Others, Zenon

-----------------------------------------------------------------------------
(* The boot sequence.                                                      *)

(* It starts with the registers as the firmware left them and the default  *)
(* period.                                                                 *)
LEMMA InitBootInv == KernelInit => BootInv
<1> SUFFICES ASSUME KernelInit PROVE BootInv
  BY Zenon
<1>1. fw \in Firmwares /\ Staged
  BY Zenon DEF KernelInit, AcpiInit, PciInit, TimerInit, Staged
<1>2. PciInv
  BY Zenon DEF KernelInit, PciInit, PciInv
<1>3. TimerInv /\ CalibrationSound
  BY Zenon DEF KernelInit, TimerInit, TimerInv, CalibrationSound
<1> QED
  BY <1>1, <1>2, <1>3, Zenon DEF BootInv

(* The invariant is inductive.                                             *)
LEMMA NextBootInv == BootInv /\ [KernelNext]_kvars => BootInv'
<1> SUFFICES ASSUME BootInv, [KernelNext]_kvars PROVE BootInv'
  BY Zenon
<1>1. fw \in Firmwares /\ Staged /\ PciInv /\ TimerInv /\ CalibrationSound
  BY Zenon DEF BootInv
<1>2. fw' \in Firmwares
  BY <1>1, Handed, Zenon
<1>3. Staged'
  BY Zenon, <1>1, NextStaged
<1>4. PciInv'
  BY Zenon, <1>1, NextPciInv
<1>5. TimerInv' /\ CalibrationSound'
  BY Zenon, <1>1, NextTimerInv
<1> QED
  BY <1>2, <1>3, <1>4, <1>5, Zenon DEF BootInv

(* What ACPI found is complete and fixed before the PCI scan and the timer *)
(* use it, and each of them is where its invariant says it is.             *)
THEOREM BootInvariant == KernelSpec => []BootInv
  BY InitBootInv, NextBootInv, PTL DEF KernelSpec

(* Sizing BARs leaves no trace: whatever functions, BARs of 32 and 64 bits *)
(* and bridge windows there are, every register from 0x10 on holds what    *)
(* the firmware left there, at every step of the boot sequence.            *)
THEOREM ConfigIsRestored == KernelSpec => []ConfigRestored
<1>1. BootInv => ConfigRestored
  BY Zenon DEF BootInv, PciInv, ConfigRestored
<1> QED
  BY <1>1, BootInvariant, PTL

(* The timer's period is never zero, and if it was calibrated against a    *)
(* counter whose period the table has right it is off by no more than a    *)
(* tick and a gap in MinTicks, whatever the phase of the counter, its      *)
(* width, the length of the wait, and whether it wraps.                    *)
THEOREM CalibrationIsSound == KernelSpec => []CalibrationSound
<1>1. BootInv => CalibrationSound
  BY Zenon DEF BootInv
<1> QED
  BY <1>1, BootInvariant, PTL

-----------------------------------------------------------------------------
(* The boot sequence routes interrupts as the MADT in memory asks.          *)

(* Nothing is stored, nothing handed over at first.                        *)
LEMMA InitHandedOver == KernelInit => HandedOver
<1> SUFFICES ASSUME KernelInit PROVE HandedOver
  BY Zenon
<1>1. /\ fw \in Firmwares /\ declared = DeclaredMadt(fw) /\ apc = "find"
      /\ local_apic = 0 /\ ioapics = <<>> /\ isos = <<>>
      /\ pc = "init_ioapics" /\ intr = FALSE /\ delivered = {}
  BY Zenon DEF KernelInit, AcpiInit
<1>2. Stored = NoMadt
  <2>1. (local_apic # 0) = FALSE
    BY Zenon, <1>1
  <2> QED
    BY <1>1, <2>1, Zenon DEF Stored, NoMadt
<1>3. AcpiInv
  BY Zenon, <1>1, <1>2 DEF AcpiInv
<1> QED
  BY Zenon, <1>1, <1>3 DEF HandedOver

(* The invariant is inductive: the hand-over takes what the parser has     *)
(* stored.                                                                 *)
LEMMA NextHandedOver == HandedOver /\ [KernelNext]_kvars => HandedOver'
<1> SUFFICES ASSUME HandedOver, [KernelNext]_kvars PROVE HandedOver'
  BY Zenon
<1>1. /\ AcpiInv /\ (apc = "handed_over" => madt = declared)
      /\ apc # "handed_over" => pc = "init_ioapics" /\ ~intr /\ delivered = {}
  BY Zenon DEF HandedOver
<1>2. CASE ParseAcpi
  <2>1. AcpiInv' /\ declared' = declared
    BY <1>1, <1>2, ParseAcpiKeeps, Zenon DEF ParseAcpi, InitAcpi, FindRsdp, ParseRoot,
       TableInfo, TablesDone, MadtEntry, MadtDone, ParseHpet, McfgEntry, McfgDone,
       EnableAcpi, PollSci, firmware
  <2>2. apc # "handed_over"
    BY <1>2, Zenon DEF ParseAcpi, InitAcpi, FindRsdp, ParseRoot, TableInfo, TablesDone,
       MadtEntry, MadtDone, ParseHpet, McfgEntry, McfgDone, EnableAcpi, PollSci
  <2>3. apc' # "handed_over"
    BY Zenon, <1>1, <1>2 DEF ParseAcpi, InitAcpi, FindRsdp, ParseRoot, TableInfo, TablesDone,
       MadtEntry, MadtDone, ParseHpet, McfgEntry, McfgDone, EnableAcpi, PollSci, NextTable
  <2>4. pc' = pc /\ intr' = intr /\ delivered' = delivered
    BY <1>2, Zenon DEF ParseAcpi, vars
  <2> QED
    BY <1>1, <2>1, <2>2, <2>3, <2>4, Zenon DEF HandedOver
<1>3. CASE InitLocalApic
  <2>1. /\ apc = "done" /\ apc' = "handed_over" /\ madt' = Stored
        /\ fw' = fw /\ declared' = declared
        /\ local_apic' = local_apic /\ ioapics' = ioapics /\ isos' = isos
    BY <1>3, Zenon DEF InitLocalApic, firmware, Stored
  <2>2. fw \in Firmwares /\ declared = DeclaredMadt(fw) /\ Stored = declared
    BY Zenon, <1>1, <2>1 DEF AcpiInv
  <2>3. Stored' = Stored
    BY <2>1, Zenon DEF Stored
  <2>4. AcpiInv'
    BY Zenon, <2>1, <2>2, <2>3 DEF AcpiInv
  <2> QED
    BY <2>1, <2>2, <2>4, Zenon DEF HandedOver
<1>4. ASSUME UNCHANGED <<fw, declared, apc, root, entry, off, local_apic, ioapics, isos>>,
             UNCHANGED madt, apc = "handed_over" \/ UNCHANGED <<pc, intr, delivered>>
      PROVE  HandedOver'
  <2>1. AcpiInv'
    BY <1>1, <1>4, AcpiSame, Zenon
  <2>2. /\ apc' = apc /\ declared' = declared /\ madt' = madt
        /\ apc # "handed_over" => pc' = pc /\ intr' = intr /\ delivered' = delivered
    BY <1>4, Zenon
  <2>3. CASE apc = "handed_over"
    BY <1>1, <2>1, <2>2, <2>3, Zenon DEF HandedOver
  <2>4. CASE apc # "handed_over"
    <3>1. /\ pc = "init_ioapics" /\ ~intr /\ delivered = {}
          /\ pc' = pc /\ intr' = intr /\ delivered' = delivered
      BY <1>1, <2>2, <2>4, Zenon
    <3> QED
      BY <2>1, <2>2, <2>4, <3>1, Zenon DEF HandedOver
  <2> QED
    BY <2>3, <2>4, Zenon
<1>5. CASE Enumerate \/ StartTimer
  BY <1>4, <1>5, Zenon DEF Enumerate, StartTimer, firmware, acpi, vars
<1>6. CASE Route
  <2>1. madt' = madt
    BY <1>6, Zenon DEF Route, Boot, InitIoapics, ApplyIso, ApplyIsosDone, LegacyFallback,
       LegacyFallbackDone, AttachKbd, EnableIso, EnableIsosDone, EnableLegacy,
       EnableLegacyDone, EnableInterrupts, AttachMouse, UnmaskMouse, UnmaskMouseDone
  <2> QED
    BY <1>4, <1>6, <2>1, Zenon DEF Route, firmware, acpi
<1>7. CASE SetSciEn /\ UNCHANGED <<vars, pci, regs, timer>>
  BY <1>4, <1>7, Zenon DEF SetSciEn, acpi, vars
<1>8. CASE \E s \in Devices :
             Deliver(s) /\ UNCHANGED <<firmware, acpi, devices, pci, regs, timer>>
  BY <1>1, <1>4, <1>8, Zenon DEF Deliver, firmware, acpi
<1>9. CASE UNCHANGED kvars
  BY <1>4, <1>9, Zenon DEF kvars, vars, firmware, acpi
<1> QED
  BY <1>2, <1>3, <1>5, <1>6, <1>7, <1>8, <1>9, Zenon DEF KernelNext, Kernel

(* What the parser hands over is the MADT that the firmware declares, for  *)
(* every firmware: root tables of both kinds, wrong checksums, a MADT      *)
(* anywhere among the tables or none, structures of every type and length. *)
(* Nothing is programmed and no interrupt comes before.                    *)
THEOREM HandOver == KernelSpec => []HandedOver
  BY InitHandedOver, NextHandedOver, PTL DEF KernelSpec

-----------------------------------------------------------------------------
(* The boot sequence lists the functions there are.                        *)

(* No range, no entry and no function at first.                            *)
LEMMA InitEnumInv == KernelInit => EnumInv
<1> SUFFICES ASSUME KernelInit PROVE EnumInv
  BY Zenon
<1>1. /\ mcfgs = <<>> /\ devices = <<>> /\ apc = "find" /\ ppc = "start"
      /\ range = 1 /\ bus = 0 /\ slot = 0 /\ func = 0
  BY Zenon DEF KernelInit, AcpiInit, PciInit
<1>2. McfgInv
  BY <1>1 DEF McfgInv
<1>3. RegistryOK /\ AcpiListed
  BY <1>1 DEF RegistryOK, AcpiListed
<1>4. PlaceInv /\ BarsInv /\ CapsInv
  BY <1>1 DEF PlaceInv, BarsInv, CapsInv
<1> QED
  BY <1>1, <1>2, <1>3, <1>4, Zenon DEF EnumInv, ScanInv

(* The scan has not begun while the parser adds ranges and entries.        *)
LEMMA ParseEnumInv ==
  ASSUME AcpiInv, EnumInv, ParseAcpi, ppc = "start"
  PROVE  EnumInv'
<1>1. InitAcpi /\ pci' = pci
  BY Zenon DEF ParseAcpi
<1>2. McfgInv /\ RegistryOK /\ PlaceInv /\ AcpiListed
  BY Zenon DEF EnumInv, ScanInv
<1>3. McfgInv'
  BY <1>1, <1>2, McfgKeeps, Zenon
<1>4. RegistryOK' /\ AcpiListed'
  BY <1>1, <1>2, AcpiRegisters, Zenon
<1>5. ppc' = "start" /\ range' = range /\ bus' = bus /\ slot' = slot /\ func' = func
  BY Zenon, <1>1 DEF pci
<1>6. PlaceInv' /\ BarsInv' /\ CapsInv'
  BY Zenon, <1>2, <1>5 DEF PlaceInv, BarsInv, CapsInv
<1> QED
  BY <1>3, <1>4, <1>5, <1>6, Zenon DEF EnumInv, ScanInv

(* The scan itself, once there is nothing more to parse.                   *)
LEMMA ScanEnumInv ==
  ASSUME fw \in Firmwares, PciInv, EnumInv, Enumerate
  PROVE  EnumInv'
<1>1. ScanPci /\ fw' = fw /\ mcfgs' = mcfgs /\ apc' = apc /\ off' = off
  BY Zenon DEF Enumerate, firmware, acpi
<1>2. McfgInv /\ RegistryOK /\ ScanInv /\ mcfgs \in Seq(EcamRange)
  BY Zenon DEF EnumInv, McfgInv
<1>3. ScanInv' /\ RegistryOK'
  BY <1>1, <1>2, ScanKeeps, Zenon
<1>4. McfgInv'
  BY <1>1, <1>2, Zenon DEF McfgInv
<1> QED
  BY <1>3, <1>4, Zenon DEF EnumInv

(* The invariant is inductive.                                             *)
LEMMA NextEnumInv ==
  ASSUME BootInv, HandedOver, EnumInv, [KernelNext]_kvars
  PROVE  EnumInv'
<1>1. fw \in Firmwares /\ Staged /\ PciInv /\ AcpiInv
  BY Zenon DEF BootInv, HandedOver
<1>2. CASE ParseAcpi
  <2>1. apc # "handed_over"
    BY <1>2, Zenon DEF ParseAcpi, InitAcpi, FindRsdp, ParseRoot, TableInfo, TablesDone,
       MadtEntry, MadtDone, ParseHpet, McfgEntry, McfgDone, EnableAcpi, PollSci
  <2> QED
    BY <1>1, <1>2, <2>1, ParseEnumInv, Zenon DEF Staged
<1>3. CASE Enumerate
  BY <1>1, <1>3, ScanEnumInv, Zenon
<1>4. ASSUME UNCHANGED <<fw, mcfgs, devices, pci>>,
             apc' # "MCFG" \/ (apc' = apc /\ off' = off)
      PROVE  EnumInv'
  <2>1. McfgInv /\ RegistryOK /\ ScanInv
    BY Zenon DEF EnumInv
  <2>2. fw' = fw /\ mcfgs' = mcfgs /\ devices' = devices /\ pci' = pci
    BY <1>4, Zenon
  <2>3. ScanInv'
    BY <2>1, <2>2, ScanSame, Zenon
  <2>4. McfgInv'
    BY <1>4, <2>1, <2>2, Zenon DEF McfgInv
  <2>5. RegistryOK'
    BY <2>1, <2>2, Zenon DEF RegistryOK
  <2> QED
    BY <2>3, <2>4, <2>5, Zenon DEF EnumInv
<1>5. CASE InitLocalApic
  <2>1. UNCHANGED <<fw, mcfgs, devices, pci>> /\ apc' = "handed_over"
    BY <1>5, Zenon DEF InitLocalApic, firmware
  <2>2. apc' # "MCFG"
    BY Zenon, <2>1
  <2> QED
    BY <1>4, <2>1, <2>2, Zenon
<1>6. CASE StartTimer \/ Route
  BY <1>4, <1>6, Zenon DEF StartTimer, Route, firmware, acpi
<1>7. CASE SetSciEn /\ UNCHANGED <<vars, pci, regs, timer>>
  BY <1>4, <1>7, Zenon DEF SetSciEn, acpi
<1>8. CASE \E s \in Devices :
             Deliver(s) /\ UNCHANGED <<firmware, acpi, devices, pci, regs, timer>>
  BY <1>4, <1>8, Zenon DEF firmware, acpi
<1>9. CASE UNCHANGED kvars
  BY <1>4, <1>9, Zenon DEF kvars, firmware, acpi
<1> QED
  BY <1>2, <1>3, <1>5, <1>6, <1>7, <1>8, <1>9, Zenon DEF KernelNext, Kernel

(* The scan misses no function: whatever ranges the MCFG lists, overlapping*)
(* ones included, and whatever functions, BARs and capabilities there are, *)
(* at its end each vendor and device id that the scan can see has one      *)
(* entry, with the resources and capabilities of all its functions.        *)
THEOREM FunctionsAreListed == KernelSpec => []FunctionsListed
<1>1. BootInv /\ HandedOver /\ EnumInv /\ [KernelNext]_kvars => EnumInv'
  BY Zenon, NextEnumInv
<1>2. BootInv /\ EnumInv => FunctionsListed
  BY ScanLists, Zenon DEF BootInv, EnumInv, McfgInv
<1> QED
  BY <1>1, <1>2, InitEnumInv, BootInvariant, HandOver, PTL DEF KernelSpec

-----------------------------------------------------------------------------
(* IrqRouting inside the boot sequence.                                    *)

(* What the instance of IrqRouting computes without its MADT.              *)
LEMMA RoutingOps ==
  /\ \A ios, g : Routing!Pins(ios, g) = Pins(ios, g)
  /\ \A ios : Routing!AllPins(ios) = AllPins(ios)
  /\ \A m, s : Routing!Gsi(m, s) = Gsi(m, s)
  /\ \A s : Routing!Vector(s) = Vector(s)
  /\ Routing!Legacy = Legacy
  /\ \A m : Routing!LinesApart(m) <=> LinesApart(m)
  BY Zenon DEF Routing!Pins, Routing!AllPins, Routing!Gsi, Routing!Vector, Routing!Legacy,
     Routing!LinesApart, Pins, AllPins, Gsi, Vector, Legacy, LinesApart

(* The boot starts as IrqRouting does for the declared MADT.               *)
LEMMA RoutingInit == KernelInit => Routing!Init
<1> SUFFICES ASSUME KernelInit PROVE Routing!Init
  BY Zenon
<1>1. declared \in Madts /\ Routing!LinesApart(declared)
  BY DeclaredOK, RoutingOps, Zenon DEF KernelInit, AcpiInit
<1> QED
  BY <1>1, RoutingOps, Zenon DEF KernelInit, Routing!Init

(* Writing an entry, likewise.                                             *)
LEMMA RoutingProgram ==
  /\ \A g, d, l : Program(g, d, l) <=> Routing!Program(g, d, l)
  /\ \A g : Routing!Unmasked(g) = Unmasked(g)
  BY RoutingOps, Zenon DEF Program, Unmasked, Routing!Program, Routing!Unmasked

(* A step of main, after the hand-over.                                    *)
LEMMA RoutingBoot ==
  ASSUME madt = declared, declared' = declared, Boot
  PROVE  Routing!Boot
<1>1. CASE InitIoapics
  BY <1>1, Zenon DEF InitIoapics, Routing!InitIoapics, Goto, Routing!Goto, Routing!Boot
<1>2. CASE ApplyIso
  BY <1>2, RoutingOps, RoutingProgram, Zenon DEF ApplyIso, Routing!ApplyIso, Routing!Boot
<1>3. CASE ApplyIsosDone
  BY <1>3, Zenon DEF ApplyIsosDone, Routing!ApplyIsosDone, Goto, Routing!Goto, Routing!Boot
<1>4. CASE LegacyFallback
  BY <1>4, RoutingOps, RoutingProgram, Zenon
     DEF LegacyFallback, Routing!LegacyFallback, Routing!Boot
<1>5. CASE LegacyFallbackDone
  BY <1>5, Zenon DEF LegacyFallbackDone, Routing!LegacyFallbackDone, Goto, Routing!Goto,
     Routing!Boot
<1>6. CASE AttachKbd
  BY <1>6, RoutingOps, Zenon DEF AttachKbd, Routing!AttachKbd, Goto, Routing!Goto,
     Routing!Boot
<1>7. CASE EnableIso
  BY <1>7, RoutingProgram, Zenon DEF EnableIso, Routing!EnableIso, Routing!Boot
<1>8. CASE EnableIsosDone
  BY <1>8, Zenon DEF EnableIsosDone, Routing!EnableIsosDone, Goto, Routing!Goto, Routing!Boot
<1>9. CASE EnableLegacy
  BY <1>9, RoutingProgram, Zenon DEF EnableLegacy, Routing!EnableLegacy, Routing!Boot
<1>10. CASE EnableLegacyDone
  BY <1>10, Zenon DEF EnableLegacyDone, Routing!EnableLegacyDone, Goto, Routing!Goto,
     Routing!Boot
<1>11. CASE EnableInterrupts
  BY <1>11, RoutingOps, Zenon DEF EnableInterrupts, Routing!EnableInterrupts, Goto,
     Routing!Goto, Routing!Boot
<1>12. CASE AttachMouse
  BY <1>12, RoutingOps, Zenon DEF AttachMouse, Routing!AttachMouse, Goto, Routing!Goto,
     Routing!Boot
<1>13. CASE UnmaskMouse
  BY <1>13, RoutingOps, RoutingProgram, Zenon DEF UnmaskMouse, Routing!UnmaskMouse,
     Routing!Boot
<1>14. CASE UnmaskMouseDone
  BY <1>14, Zenon DEF UnmaskMouseDone, Routing!UnmaskMouseDone, Goto, Routing!Goto,
     Routing!Boot
<1> QED
  BY Zenon, <1>1, <1>2, <1>3, <1>4, <1>5, <1>6, <1>7, <1>8, <1>9, <1>10, <1>11, <1>12, <1>13,
     <1>14, Zenon DEF Boot

(* Every other step of the boot is a stuttering step of IrqRouting.        *)
LEMMA RoutingStep == HandedOver /\ [KernelNext]_kvars => [Routing!Next]_(Routing!vars)
<1> SUFFICES ASSUME HandedOver, [KernelNext]_kvars PROVE [Routing!Next]_(Routing!vars)
  BY Zenon
<1>1. /\ apc = "handed_over" => madt = declared
      /\ apc # "handed_over" => ~intr
  BY Zenon DEF HandedOver
<1>2. CASE ParseAcpi
  <2>1. declared' = declared
    BY <1>2, Zenon DEF ParseAcpi, InitAcpi, FindRsdp, ParseRoot,
       TableInfo, TablesDone, MadtEntry, MadtDone, ParseHpet, McfgEntry, McfgDone,
       EnableAcpi, PollSci, firmware
  <2>2. UNCHANGED <<pc, i, half, table, redir, idt, intr, delivered>>
    BY <1>2, Zenon DEF ParseAcpi, vars
  <2> QED
    BY <2>1, <2>2, Zenon DEF Routing!vars
<1>3. CASE InitLocalApic
  BY <1>3, Zenon DEF InitLocalApic, firmware, Routing!vars
<1>4. CASE Enumerate \/ StartTimer
  BY <1>4, Zenon DEF Enumerate, StartTimer, firmware, vars, Routing!vars
<1>5. CASE Route
  BY <1>1, <1>5, RoutingBoot, Zenon DEF Route, firmware, Routing!Next
<1>6. CASE SetSciEn /\ UNCHANGED <<vars, pci, regs, timer>>
  BY <1>6, Zenon DEF SetSciEn, vars, Routing!vars
<1>7. CASE \E s \in Devices :
             Deliver(s) /\ UNCHANGED <<firmware, acpi, devices, pci, regs, timer>>
  <2>1. PICK s \in Devices : Deliver(s) /\ declared' = declared
    BY <1>7, Zenon DEF firmware
  <2>2. madt = declared
    BY <1>1, <2>1, Zenon DEF Deliver
  <2>3. Routing!Deliver(s)
    BY <2>1, <2>2, RoutingOps, Zenon DEF Deliver, Routing!Deliver
  <2> QED
    BY <2>3, Zenon DEF Routing!Next
<1>8. CASE UNCHANGED kvars
  BY <1>8, Zenon DEF kvars, vars, firmware, Routing!vars
<1> QED
  BY <1>2, <1>3, <1>4, <1>5, <1>6, <1>7, <1>8, Zenon DEF KernelNext, Kernel

(* The boot sequence implements IrqRouting, started with the MADT that the *)
(* firmware declares: parsing, PCI scan and timer are stuttering steps of  *)
(* it, and what its steps read is that MADT.                               *)
THEOREM BootRoutes == KernelSpec => RoutingSpec
  BY RoutingInit, HandOver, RoutingStep, PTL DEF KernelSpec, RoutingSpec, Routing!Spec


Lines == INSTANCE IrqRoutingProofs WITH madt <- declared

(* The assumptions of IrqRouting are those of the boot sequence.           *)
LEMMA LinesOK ==
  /\ \A m \in Madts :
       /\ m \in Lines!Madt
       /\ \A j, k \in DOMAIN m.isos :
            m.isos[j].source = m.isos[k].source => j = k
       /\ \A j, k \in DOMAIN m.ioapics :
            m.ioapics[j].gsi_base <= m.ioapics[k].gsi_base /\ j # k =>
              m.ioapics[j].gsi_base + m.ioapics[j].redir_entries
                <= m.ioapics[k].gsi_base
  /\ NLegacy \in 1 .. 16
  /\ Devices \subseteq Lines!Legacy
  /\ {Kbd, Mouse} \subseteq Devices /\ Kbd # Mouse /\ 0 \notin {Kbd, Mouse}
  /\ ApicId \in Nat
<1>1. Lines!Madt = Madt /\ Lines!Legacy = Legacy
  BY Zenon DEF Lines!Madt, Lines!Iso, Lines!IoApicInfo, Lines!Legacy, Madt, Iso, IoApicInfo,
     Legacy
<1> QED
  BY <1>1, LegacyOK, MadtsOK, Zenon

(* IrqRouting's inductive invariant holds in its initial states ...        *)
LEMMA LinesInit == Routing!Init => Lines!IrqInv
<1>1. Routing!Init => Lines!Init
  BY Zenon DEF Routing!Init, Lines!Init, Routing!LinesApart, Lines!LinesApart, Routing!Gsi,
     Lines!Gsi, Routing!AllPins, Lines!AllPins, Routing!Vector, Lines!Vector,
     Routing!Legacy, Lines!Legacy
<1>2. Lines!Init => Lines!IrqInv
  BY LinesOK, Lines!InitIrqInv, Zenon
<1> QED
  BY <1>1, <1>2, Zenon

(* ... and is kept by its steps.                                           *)
LEMMA LinesNext == Lines!IrqInv /\ [Routing!Next]_(Routing!vars) => Lines!IrqInv'
<1>1. [Routing!Next]_(Routing!vars) => [Lines!Next]_(Lines!vars)
  <2>1. Routing!vars = Lines!vars /\ (Routing!vars)' = (Lines!vars)'
    BY Zenon DEF Routing!vars, Lines!vars
  <2>2. Routing!Next => Lines!Next
    BY Zenon
    DEF Routing!Next, Lines!Next, Routing!Boot, Lines!Boot, Routing!Deliver,
        Lines!Deliver, Routing!InitIoapics, Lines!InitIoapics, Routing!ApplyIso,
        Lines!ApplyIso, Routing!ApplyIsosDone, Lines!ApplyIsosDone,
        Routing!LegacyFallback, Lines!LegacyFallback, Routing!LegacyFallbackDone,
        Lines!LegacyFallbackDone, Routing!AttachKbd, Lines!AttachKbd,
        Routing!EnableIso, Lines!EnableIso, Routing!EnableIsosDone,
        Lines!EnableIsosDone, Routing!EnableLegacy, Lines!EnableLegacy,
        Routing!EnableLegacyDone, Lines!EnableLegacyDone, Routing!EnableInterrupts,
        Lines!EnableInterrupts, Routing!AttachMouse, Lines!AttachMouse,
        Routing!UnmaskMouse, Lines!UnmaskMouse, Routing!UnmaskMouseDone,
        Lines!UnmaskMouseDone, Routing!Goto, Lines!Goto, Routing!Program,
        Lines!Program, Routing!Unmasked, Lines!Unmasked, Routing!Pins, Lines!Pins,
        Routing!Gsi, Lines!Gsi, Routing!Vector, Lines!Vector
  <2> QED
    BY <2>1, <2>2, Zenon
<1>2. Lines!IrqInv /\ [Lines!Next]_(Lines!vars) => Lines!IrqInv'
  BY LinesOK, Lines!NextIrqInv, Zenon
<1> QED
  BY <1>1, <1>2, Zenon

(* What IrqRouting's invariant says of the declared MADT holds of the one  *)
(* the getters hand out: before it is handed over no interrupt came.       *)
LEMMA LinesHold ==
  ASSUME HandedOver, Lines!IrqInv
  PROVE  UnmaskedIsComplete /\ KeyboardHandled /\ MouseHandled /\ OverridesKeepSource
<1>1. /\ apc = "handed_over" => madt = declared
      /\ apc # "handed_over" => pc # "run" /\ delivered = {}
  <2>1. "init_ioapics" # "run"
    BY Zenon
  <2> QED
    BY <2>1, Zenon DEF HandedOver
<1>2. /\ Lines!UnmaskedIsComplete /\ Lines!KeyboardHandled /\ Lines!MouseHandled
      /\ Lines!OverridesKeepSource
  <2>1. Lines!IrqInv => Lines!OverridesKeepSource
    BY LinesOK, Lines!InvOverrides, Zenon
  <2> QED
    BY <2>1, Zenon DEF Lines!IrqInv
<1>3. UnmaskedIsComplete
  BY <1>2, Zenon DEF UnmaskedIsComplete, Lines!UnmaskedIsComplete
<1>4. CASE apc = "handed_over"
  <2>1. madt = declared
    BY <1>1, <1>4, Zenon
  <2>2. KeyboardHandled /\ MouseHandled
    BY <1>2, <2>1, Zenon DEF KeyboardHandled, Lines!KeyboardHandled, MouseHandled,
       Lines!MouseHandled, Gsi, Lines!Gsi, Pins, Lines!Pins
  <2>3. OverridesKeepSource
    <3>1. /\ \A ios, g : Lines!Pins(ios, g) = Pins(ios, g)
          /\ \A x : Lines!Vector(x) = Vector(x)
          /\ Lines!Legacy = Legacy
      BY Zenon DEF Pins, Lines!Pins, Vector, Lines!Vector, Legacy, Lines!Legacy
    <3>2. /\ \A k : Lines!LastOnLine(k) <=> LastOnLine(k)
          /\ \A g, v : Lines!MouseHas(g, v) <=> MouseHas(g, v)
      BY <2>1, Zenon DEF LastOnLine, Lines!LastOnLine, MouseHas, Lines!MouseHas,
         Gsi, Lines!Gsi, Vector, Lines!Vector
    <3> QED
      BY <1>2, <2>1, <3>1, <3>2, Zenon DEF OverridesKeepSource, Lines!OverridesKeepSource
  <2> QED
    BY <1>3, <2>2, <2>3, Zenon
<1>5. CASE apc # "handed_over"
  BY <1>1, <1>3, <1>5, Zenon DEF KeyboardHandled, MouseHandled, OverridesKeepSource
<1> QED
  BY Zenon, <1>4, <1>5

(* The boot keeps both invariants.                                         *)
LEMMA BootLines == KernelSpec => [](HandedOver /\ Lines!IrqInv)
<1>1. KernelSpec => []Lines!IrqInv
  BY BootRoutes, LinesInit, LinesNext, PTL DEF RoutingSpec, Routing!Spec
<1> QED
  BY <1>1, HandOver, PTL

(* No interrupt goes astray during the real boot sequence either: whatever *)
(* the firmware's tables look like, an entry that is open is complete.     *)
THEOREM BootUnmasked == KernelSpec => []UnmaskedIsComplete
<1>1. HandedOver /\ Lines!IrqInv => UnmaskedIsComplete
  BY LinesHold, Zenon
<1> QED
  BY <1>1, BootLines, PTL

(* The keyboard's interrupts reach its driver, from the tables that ACPI   *)
(* parses to the handler that runs.                                        *)
THEOREM BootKeyboard == KernelSpec => []KeyboardHandled
<1>1. HandedOver /\ Lines!IrqInv => KeyboardHandled
  BY LinesHold, Zenon
<1> QED
  BY <1>1, BootLines, PTL

(* So do the mouse's, on the line that the firmware's override names.      *)
THEOREM BootMouse == KernelSpec => []MouseHandled
<1>1. HandedOver /\ Lines!IrqInv => MouseHandled
  BY LinesHold, Zenon
<1> QED
  BY <1>1, BootLines, PTL

(* And every override outside the legacy range that no later one overrides *)
(* has given its line the vector of its source.                            *)
THEOREM BootOverrides == KernelSpec => []OverridesKeepSource
<1>1. HandedOver /\ Lines!IrqInv => OverridesKeepSource
  BY LinesHold, Zenon
<1> QED
  BY <1>1, BootLines, PTL

=============================================================================
