---------------------------- MODULE DeviceManager ----------------------------
(***************************************************************************)
(* The driver framework: the registry of src/driver_framework/manager.rs   *)
(* and the start, stop and release of the PS/2 keyboard, PS/2 mouse and    *)
(* VBE drivers, down to what they share with the rest of the kernel: the   *)
(* IDT (arch/idt.rs), the pointers interrupt handlers and the console find *)
(* a driver through, and the pages mapped for framebuffers.                *)
(*                                                                         *)
(* The manager's operations hold the registry lock and do not interleave,  *)
(* but interrupts arrive between their steps, so attach_driver and         *)
(* detach_driver are split where the state others see changes.             *)
(***************************************************************************)
EXTENDS Naturals, Sequences

CONSTANTS
  Infos,       \* device infos: ids (vendor and device id), class, irqs, bars
  Vectors,     \* interrupt vectors
  Pages,       \* pages at which BARs are mapped
  BootPages,   \* those in the boot loader's own map of physical memory
  Box,         \* the pages of the test box, counted from a mapping's first
  MaxDevices,  \* bound on the registry
  MaxDrivers   \* bound on the driver objects ever boxed

(* A device's info: what some discovered info has, or several merged.      *)
Info ==
  [ids : {x.ids : x \in Infos}, class : {"input", "display"},
   irqs : SUBSET Vectors, bars : SUBSET UNION {x.bars : x \in Infos}]

ASSUME InfosOK ==
  /\ Infos \subseteq Info
  /\ MaxDevices \in Nat /\ MaxDrivers \in Nat /\ Pages \subseteq Nat /\ Box \subseteq Nat
  /\ \A x \in Infos :
       /\ \A b \in x.bars : b.first .. b.last \subseteq Pages /\ b.first <= b.last
       /\ \A y \in Infos : y.ids = x.ids =>
            \A b \in x.bars, c \in y.bars : b = c \/ b.last < c.first \/ c.last < b.first

DriverKinds == {"kbd", "mouse", "vbe"}
None == 0

VARIABLES
  devices,   \* the registry: each device's info and driver, ids are indices
  drivers,   \* every driver object boxed so far
  live,      \* those not yet dropped
  idt,       \* the handler of each vector: a driver's kind, or "default"
  instance,  \* GLOBAL_PS2MOUSE_INSTANCE
  active,    \* ACTIVE_VBE_PTR
  mapped,    \* the pages mapped by a driver's start, not unmapped yet
  op         \* what is left of attach_driver or detach_driver

mvars == <<devices, drivers, live, idt, instance, active, mapped, op>>

Idle == [step |-> "none", device |-> 0, driver |-> None]

ManagerInit ==
  /\ devices = <<>> /\ drivers = <<>> /\ live = {}
  /\ idt = [v \in Vectors |-> "default"]
  /\ instance = None /\ active = None /\ mapped = {}
  /\ op = Idle

-----------------------------------------------------------------------------
(* register_device.                                                        *)
Register(info) ==
  /\ op = Idle /\ Len(devices) < MaxDevices
  /\ devices' = Append(devices, [info |-> info, driver |-> None])
  /\ UNCHANGED <<drivers, live, idt, instance, active, mapped, op>>

(* What merge_or_register adds to an info: the resources it lacks.         *)
MergedInfo(old, info) ==
  [old EXCEPT !.irqs = @ \cup info.irqs,
              !.bars = @ \cup {b \in info.bars : \A c \in old.bars : c.first # b.first}]

(* merge_or_register finds a device with the same ids and merges the info  *)
(* into it; a driver already attached is told nothing.  (The caller        *)
(* registers the device when none is found: that is Register.)             *)
Merge(info) ==
  /\ op = Idle
  /\ \E d \in DOMAIN devices :
       /\ devices[d].info.ids = info.ids
       /\ \A e \in 1 .. d - 1 : devices[e].info.ids # info.ids
       /\ devices' = [devices EXCEPT ![d].info = MergedInfo(@, info)]
  /\ UNCHANGED <<drivers, live, idt, instance, active, mapped, op>>

-----------------------------------------------------------------------------
(* attach_driver: probe and start, then the driver is recorded.            *)

Probe(kind, info) ==
  info.class = IF kind = "vbe" THEN "display" ELSE "input"

(* start() of the PS/2 drivers: register_irq_handler for every vector.     *)
RegisterIrqs(info, kind) ==
  idt' = [v \in Vectors |-> IF v \in info.irqs THEN kind ELSE idt[v]]

BarPages(bars) == UNION {b.first .. b.last : b \in bars}

(* start() of the VBE driver: no BAR is an error, and leaves no trace.     *)
(* map_to of a BAR's pages stops at the first that fails, because it is    *)
(* already mapped, lies in a huge page of the boot loader's, or no frame   *)
(* is left for a page table.  The BAR is recorded whole all the same.      *)
MapBars(info) ==
  /\ info.bars # {}
  /\ \E m \in SUBSET (BarPages(info.bars) \ (mapped \cup BootPages)) :
       /\ \A b \in info.bars : \A p \in b.first .. b.last :
            p \in m => b.first .. p \subseteq m
       /\ mapped' = mapped \cup m

Attach(d, kind) ==
  /\ op = Idle /\ Len(drivers) < MaxDrivers
  /\ devices[d].driver = None
  /\ Probe(kind, devices[d].info)
  /\ LET info == devices[d].info
         n == Len(drivers) + 1
     IN /\ live' = live \cup {n}
        /\ IF kind = "vbe"
           THEN MapBars(info) /\ active' = n /\ UNCHANGED <<idt, instance>>
           ELSE /\ RegisterIrqs(info, kind)
                /\ instance' = IF kind = "mouse" THEN n ELSE instance
                /\ UNCHANGED <<mapped, active>>
        /\ drivers' = Append(drivers,
             [kind |-> kind,
              irqs |-> IF kind = "vbe" THEN {} ELSE info.irqs,
              maps |-> IF kind = "vbe" THEN info.bars ELSE {},
              own |-> mapped' \ mapped])
        /\ op' = [step |-> "record", device |-> d, driver |-> n]
  /\ UNCHANGED devices

Record ==
  /\ op.step = "record"
  /\ devices' = [devices EXCEPT ![op.device].driver = op.driver]
  /\ op' = Idle
  /\ UNCHANGED <<drivers, live, idt, instance, active, mapped>>

-----------------------------------------------------------------------------
(* detach_driver: the driver is taken out, stopped, released, dropped.     *)

(* Mutant of UnregisterIrqs: nothing is unregistered.                     *)
UnregisterIrqs_Missing(n) == UNCHANGED idt

(* The vectors registered at start, not those the device has by now.       *)
UnregisterIrqs(n) ==
  idt' = [v \in Vectors |-> IF v \in drivers[n].irqs THEN "default" ELSE idt[v]]

(* stop(): the PS/2 drivers restore the default handlers; the VBE driver,  *)
(* which has none, goes on in the steps below.                             *)
Stop(d) ==
  /\ op = Idle /\ devices[d].driver # None
  /\ LET n == devices[d].driver
     IN /\ devices' = [devices EXCEPT ![d].driver = None]
        /\ UnregisterIrqs(n)
        /\ op' = [step |-> IF drivers[n].kind = "vbe" THEN "clear" ELSE "release",
                  device |-> d, driver |-> n]
  /\ UNCHANGED <<drivers, live, instance, active, mapped>>

BoxPages(bars) == {b.first + k : b \in bars, k \in Box}

(* The test box is cleared through every mapping recorded, whatever its    *)
(* size and however much of it was really mapped.  A write to a page that  *)
(* is not mapped ends in the page fault handler, unless its translation,   *)
(* which unmapping does not flush, is still cached.                        *)
ClearBox ==
  /\ op.step = "clear"
  /\ \/ op' = [op EXCEPT !.step = "unmap"]
     \/ /\ ~(BoxPages(drivers[op.driver].maps) \subseteq mapped \cup BootPages)
        /\ op' = [op EXCEPT !.step = "fault"]
  /\ UNCHANGED <<devices, drivers, live, idt, instance, active, mapped>>

(* pf prints, or spins on the mappings lock that stop holds, and halts.    *)
Faulted == op.step = "fault" /\ UNCHANGED mvars

(* Mutant of UnmapPages: for i in 0..=m.pages.                             *)
UnmapPages_OneMore ==
  /\ op.step = "unmap"
  /\ mapped' = mapped \ UNION {b.first .. b.last + 1 : b \in drivers[op.driver].maps}
  /\ drivers' = [drivers EXCEPT ![op.driver].maps = {}]
  /\ op' = [op EXCEPT !.step = "pointer"]
  /\ UNCHANGED <<devices, live, idt, instance, active>>

(* Every page of every mapping recorded is unmapped, also one that another *)
(* driver mapped; the errors of unmap are ignored, a page of BootPages     *)
(* among them.  The record is emptied and the lock released.               *)
UnmapPages ==
  /\ op.step = "unmap"
  /\ mapped' = mapped \ BarPages(drivers[op.driver].maps)
  /\ drivers' = [drivers EXCEPT ![op.driver].maps = {}]
  /\ op' = [op EXCEPT !.step = "pointer"]
  /\ UNCHANGED <<devices, live, idt, instance, active>>

(* The pointer is cleared if it is this driver's.                          *)
ClearPointer ==
  /\ op.step = "pointer"
  /\ active' = IF active = op.driver THEN None ELSE active
  /\ op' = [op EXCEPT !.step = "release"]
  /\ UNCHANGED <<devices, drivers, live, idt, instance, mapped>>

(* Mutant of Release: the mouse's instance pointer is kept.               *)
Release_KeepsInstance ==
  /\ op.step = "release"
  /\ UnregisterIrqs(op.driver)
  /\ op' = [op EXCEPT !.step = "drop"]
  /\ UNCHANGED <<devices, drivers, live, instance, active, mapped>>

(* release(): the handlers again, and the mouse driver clears the instance *)
(* pointer, whichever driver it points to.  The VBE driver's second stop() *)
(* returns at once.                                                        *)
Release ==
  /\ op.step = "release"
  /\ UnregisterIrqs(op.driver)
  /\ instance' = IF drivers[op.driver].kind = "mouse" THEN None ELSE instance
  /\ op' = [op EXCEPT !.step = "drop"]
  /\ UNCHANGED <<devices, drivers, live, active, mapped>>

Drop ==
  /\ op.step = "drop"
  /\ live' = live \ {op.driver}
  /\ op' = Idle
  /\ UNCHANGED <<devices, drivers, idt, instance, active, mapped>>

ManagerNext ==
  \/ \E info \in Infos : Register(info) \/ Merge(info)
  \/ \E d \in DOMAIN devices, kind \in DriverKinds : Attach(d, kind)
  \/ Record
  \/ \E d \in DOMAIN devices : Stop(d)
  \/ ClearBox \/ Faulted \/ UnmapPages \/ ClearPointer
  \/ Release
  \/ Drop

ManagerSpec == ManagerInit /\ [][ManagerNext]_mvars

-----------------------------------------------------------------------------
(* Properties.                                                             *)

(* The pointers through which the mouse handler and the console reach a    *)
(* driver are null or point to a driver that has not been dropped and is   *)
(* of the right kind, at every point an interrupt may arrive.              *)
NoDanglingPointer ==
  /\ instance # None => instance \in live /\ drivers[instance].kind = "mouse"
  /\ active # None => active \in live /\ drivers[active].kind = "vbe"

(* The driver of device d from its start to its stop: recorded, still in   *)
(* attach_driver's hands, or a display that has not unmapped anything yet. *)
Running(d) ==
  IF op.device = d /\ op.step \in {"record", "clear", "unmap", "fault"}
  THEN op.driver ELSE devices[d].driver

(* Another registered device has vector v, or page p.                      *)
SharedVector(d, v) ==
  \E e \in DOMAIN devices \ {d} : v \in devices[e].info.irqs
SharedPage(d, p) ==
  \E e \in DOMAIN devices \ {d} : p \in BarPages(devices[e].info.bars)

(* A vector has a driver's handler only while a driver of that kind that   *)
(* registered it has not been dropped: no interrupt is taken by the        *)
(* handler of a driver that is gone.  And a running driver is cut off from *)
(* a vector it registered only where another device claims that vector too *)
(* (that device's driver then took it, or set it to default as it left).   *)
HandlersHaveOwner ==
  /\ \A v \in Vectors :
       idt[v] # "default" =>
         \E n \in live : drivers[n].kind = idt[v] /\ v \in drivers[n].irqs
  /\ \A d \in DOMAIN devices :
       Running(d) # None =>
         \A v \in drivers[Running(d)].irqs :
           idt[v] = drivers[Running(d)].kind \/ SharedVector(d, v)

(* Whatever order drivers came and went in, and however little of a BAR    *)
(* start could map: a page stays mapped only while a driver that is there  *)
(* has it recorded, to unmap it; no driver's stop takes a page away that a *)
(* running display mapped, unless the BARs of two devices share it; and    *)
(* stop faults only where the test box reaches out of what the driver      *)
(* itself mapped and the boot loader maps.                                 *)
MappingsFollowDrivers ==
  /\ \A p \in mapped : \E n \in live : p \in BarPages(drivers[n].maps)
  /\ \A d \in DOMAIN devices :
       Running(d) # None =>
         \A p \in drivers[Running(d)].own : p \in mapped \/ SharedPage(d, p)
  /\ op.step = "fault" =>
       \E p \in BoxPages(drivers[op.driver].maps) \ BootPages :
         p \in drivers[op.driver].own => SharedPage(op.device, p)

(* Types, for the proofs.  Every vector always has a handler.              *)
Bars == UNION {x.bars : x \in Infos}
ManagerTypeOK ==
  /\ devices \in Seq([info : Info, driver : Nat])
  /\ drivers \in Seq([kind : DriverKinds, irqs : SUBSET Vectors,
                      maps : SUBSET Bars, own : SUBSET Pages])
  /\ live \subseteq DOMAIN drivers
  /\ idt \in [Vectors -> {"default", "kbd", "mouse"}]
  /\ instance \in Nat /\ active \in Nat /\ mapped \subseteq Pages
  /\ op \in [step : {"none", "record", "clear", "unmap", "fault", "pointer", "release", "drop"},
             device : Nat, driver : Nat]

(* The inductive invariant.  Every driver not dropped is either attached   *)
(* to one device or in the hands of attach_driver or detach_driver, never  *)
(* both.  A running driver has registered only what its device has, and    *)
(* only displays map pages, only the others take vectors.  A driver that   *)
(* was stopped owns no vector and no page any more and is not the active   *)
(* display; one that was released is no mouse instance.                    *)
DeviceInv ==
  /\ ManagerTypeOK /\ NoDanglingPointer /\ HandlersHaveOwner /\ MappingsFollowDrivers
  /\ \A d \in DOMAIN devices : devices[d].driver # None =>
       /\ devices[d].driver \in live /\ devices[d].driver # op.driver
       /\ \A e \in DOMAIN devices : devices[e].driver = devices[d].driver => e = d
  /\ \A d \in DOMAIN devices : Running(d) # None =>
       /\ drivers[Running(d)].irqs \subseteq devices[d].info.irqs
       /\ drivers[Running(d)].maps \subseteq devices[d].info.bars
  /\ \A n \in DOMAIN drivers :
       IF drivers[n].kind = "vbe" THEN drivers[n].irqs = {} ELSE drivers[n].maps = {}
  /\ IF op.step = "none" THEN op = Idle
     ELSE /\ op.device \in DOMAIN devices /\ op.driver \in live
          /\ devices[op.device].driver = None
  /\ op.step \notin {"none", "record"} =>
       \A v \in drivers[op.driver].irqs : idt[v] = "default"
  /\ op.step \in {"clear", "unmap", "fault", "pointer"} => drivers[op.driver].kind = "vbe"
  /\ op.step \in {"pointer", "release", "drop"} => drivers[op.driver].maps = {}
  /\ op.step \in {"release", "drop"} => active # op.driver
  /\ op.step = "drop" => instance # op.driver

=============================================================================
