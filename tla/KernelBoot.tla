----------------------------- MODULE KernelBoot -----------------------------
(***************************************************************************)
(* The boot sequence of kernel_main (src/main.rs) and hal::init_hardware   *)
(* (src/hal/hal.rs): ACPI is parsed, the IOAPICs are programmed from what  *)
(* it found, PCI is scanned, the keyboard attached, interrupts unmasked,   *)
(* the timer calibrated, interrupts enabled, the mouse attached.           *)
(*                                                                         *)
(* It composes AcpiTables, IrqRouting, PciScan and TscTimer.  One CPU runs *)
(* one step after the other; the firmware's SMI handler and, from `sti`    *)
(* on, the devices' interrupts come in between.                            *)
(***************************************************************************)
EXTENDS IrqRouting, PciScan, TscTimer

kvars == <<vars, firmware, acpi, devices, pci, regs, timer>>

(* The pins the kernel is not told of are never programmed: left out.      *)
KernelInit ==
  /\ AcpiInit /\ PciInit /\ TimerInit
  /\ madt = NoMadt
  /\ pc = "init_ioapics" /\ i = 1 /\ half = "high"
  /\ table = <<>>
  /\ redir = [p \in AllPins(declared.ioapics) |->
                [vector |-> 0, masked |-> TRUE, dest |-> 0]]
  /\ idt = [v \in {Vector(s) : s \in Legacy} |-> "default"]
  /\ intr = FALSE
  /\ delivered = {}

ParseAcpi == InitAcpi /\ UNCHANGED <<vars, pci, regs, timer>>

(* apic::init_from_acpi, with an address that is not 0; from here on the   *)
(* getters hand out what ACPI found.                                       *)
InitLocalApic ==
  /\ apc = "done"
  /\ madt' = [isos |-> isos, ioapics |-> ioapics, lapic |-> local_apic # 0]
  /\ apc' = "handed_over"
  /\ UNCHANGED <<pc, i, half, table, redir, idt, intr, delivered>>
  /\ UNCHANGED <<firmware, root, entry, off, polls, acpi_status, local_apic,
                 ioapics, isos, hpet, mcfgs, devices, pci, regs, timer>>

(* After init_hardware, before the keyboard is attached.                   *)
Enumerate ==
  /\ pc = "attach_kbd"
  /\ ScanPci
  /\ UNCHANGED <<vars, firmware, acpi, timer>>

(* With a Local APIC only.                                                 *)
StartTimer ==
  /\ pc = "timer" /\ madt.lapic
  /\ InitTimer
  /\ UNCHANGED <<vars, firmware, acpi, devices, pci, regs>>

(* A step of IrqRouting, once what comes before it is done.  The timer has *)
(* its handler exactly when its init succeeded.                            *)
Route ==
  /\ apc = "handed_over"
  /\ pc = "attach_kbd" => ppc = "done"
  /\ pc = "timer" => (madt.lapic => tpc = "done")
  /\ Boot
  /\ pc = "timer" => (idt'[Vector(0)] = "timer" <=> enabled)
  /\ UNCHANGED <<firmware, acpi, devices, pci, regs, timer>>

Kernel == ParseAcpi \/ InitLocalApic \/ Enumerate \/ StartTimer \/ Route

KernelNext ==
  \/ Kernel
  \/ SetSciEn /\ UNCHANGED <<vars, pci, regs, timer>>
  \/ \E s \in Devices :
       Deliver(s) /\ UNCHANGED <<firmware, acpi, devices, pci, regs, timer>>

(* default_irq_handler has run.  It prints, and kernel_main prints too, on *)
(* the same spin locks and with interrupts enabled: the handler may never  *)
(* return to it (HandlerEnds in Console).                                  *)
Unhandled == \E d \in delivered : d.handler = "default"

(* The CPU goes on, as long as no interrupt has run the default handler:   *)
(* the drivers' handlers and the SMI handler take no lock of kernel_main's *)
(* and return.  Before `sti` there is no interrupt at all.                 *)
KernelSpec ==
  KernelInit /\ [][KernelNext]_kvars /\ WF_kvars(~Unhandled /\ Kernel)

-----------------------------------------------------------------------------
(* Properties                                                              *)

(* PCI scan and timer find what ACPI found, and it does not change under   *)
(* them.                                                                   *)
Staged ==
  apc # "handed_over" => pc = "init_ioapics" /\ ppc = "start" /\ tpc = "start"

(* IrqRouting is handed the MADT that the firmware declares, and does      *)
(* nothing before.                                                         *)
HandedOver ==
  /\ AcpiInv
  /\ apc = "handed_over" => madt = declared
  /\ apc # "handed_over" => pc = "init_ioapics" /\ ~intr /\ delivered = {}

(* The PCI scan works on the ranges of an MCFG and on a registry that is a *)
(* list, and has listed what it passed.                                    *)
EnumInv == McfgInv /\ RegistryOK /\ ScanInv

BootInv == fw \in Firmwares /\ Staged /\ PciInv /\ TimerInv /\ CalibrationSound


=============================================================================
