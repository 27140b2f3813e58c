---------------------------- MODULE DriverProofs ----------------------------
(***************************************************************************)
(* Proofs about the drivers: the framework that attaches and detaches      *)
(* them, and the PS/2 mouse driver.                                        *)
(*                                                                         *)
(* DeviceManager: for every set of devices, vectors and pages, and any     *)
(* number of drivers attached and detached in any order.                   *)
(*                                                                         *)
(* Ps2Mouse: for every number of attempts and of packets.                  *)
(***************************************************************************)
EXTENDS DeviceManager, Ps2Mouse, Integers, TLAPS

-----------------------------------------------------------------------------
(* The driver framework.                                                   *)

Device == [info : Info, driver : Nat]
Driver == [kind : DriverKinds, irqs : SUBSET Vectors, maps : SUBSET Bars, own : SUBSET Pages]
Steps == {"none", "record", "clear", "unmap", "fault", "pointer", "release", "drop"}

(* A record at the end of a sequence, and one changed inside it.           *)
LEMMA SeqFacts ==
  ASSUME NEW S, NEW s \in Seq(S), NEW x \in S
  PROVE  /\ Append(s, x) \in Seq(S) /\ DOMAIN Append(s, x) = DOMAIN s \cup {Len(s) + 1}
         /\ Len(s) \in Nat /\ Len(s) + 1 \notin DOMAIN s /\ DOMAIN s \subseteq Nat \ {0}
         /\ \A k \in DOMAIN s : Append(s, x)[k] = s[k] /\ s[k] \in S
         /\ Append(s, x)[Len(s) + 1] = x
         /\ \A k \in DOMAIN s :
              /\ [s EXCEPT ![k] = x] \in Seq(S) /\ DOMAIN [s EXCEPT ![k] = x] = DOMAIN s
              /\ [s EXCEPT ![k] = x][k] = x
              /\ \A j \in DOMAIN s \ {k} : [s EXCEPT ![k] = x][j] = s[j]
<1>1. \A k \in DOMAIN s : [s EXCEPT ![k] = x] \in Seq(S)
  OBVIOUS
<1> QED
  BY <1>1

(* The types in the words of this module.                                  *)
LEMMA TypeFacts ==
  ASSUME ManagerTypeOK
  PROVE  /\ devices \in Seq(Device) /\ DOMAIN devices \subseteq Nat \ {0}
         /\ \A d \in DOMAIN devices :
              /\ devices[d] \in Device /\ devices[d].driver \in Nat
              /\ devices[d].info \in Info
              /\ devices[d].info.irqs \subseteq Vectors /\ devices[d].info.bars \subseteq Bars
         /\ drivers \in Seq(Driver) /\ DOMAIN drivers \subseteq Nat \ {0}
         /\ \A n \in DOMAIN drivers :
              /\ drivers[n] \in Driver /\ drivers[n].kind \in DriverKinds
              /\ drivers[n].irqs \subseteq Vectors
              /\ drivers[n].maps \subseteq Bars /\ drivers[n].own \subseteq Pages
<1>1. devices \in Seq(Device) /\ drivers \in Seq(Driver)
  BY Zenon DEF ManagerTypeOK, Device, Driver
<1>2. /\ DOMAIN devices \subseteq Nat \ {0} /\ DOMAIN drivers \subseteq Nat \ {0}
      /\ \A d \in DOMAIN devices : devices[d] \in Device
      /\ \A n \in DOMAIN drivers : drivers[n] \in Driver
  BY <1>1
<1>3. \A x \in Info : x.irqs \subseteq Vectors /\ x.bars \subseteq Bars
  BY Zenon DEF Info, Bars
<1> QED
  BY Zenon, <1>1, <1>2, <1>3 DEF Device, Driver

(* The pages of BARs are pages, and more BARs have more of them.           *)
LEMMA BarPagesType ==
  /\ \A B \in SUBSET Bars : BarPages(B) \subseteq Pages
  /\ \A B, C : B \subseteq C => BarPages(B) \subseteq BarPages(C)
  /\ BarPages({}) = {}
<1>1. \A B \in SUBSET Bars : \A b \in B : b.first .. b.last \subseteq Pages
  BY Zenon, InfosOK DEF Bars
<1> QED
  BY Zenon, <1>1 DEF BarPages

(* The driver of device d becomes n.                                       *)
LEMMA SetDriver ==
  ASSUME devices \in Seq(Device), NEW d \in DOMAIN devices, NEW n \in Nat,
         devices' = [devices EXCEPT ![d].driver = n]
  PROVE  /\ devices' \in Seq(Device) /\ DOMAIN devices' = DOMAIN devices
         /\ devices'[d].driver = n
         /\ \A e \in DOMAIN devices \ {d} : devices'[e].driver = devices[e].driver
         /\ \A e \in DOMAIN devices : devices'[e].info = devices[e].info
<1>1. devices[d] \in Device
  BY SeqFacts
<1> DEFINE x == [devices[d] EXCEPT !.driver = n]
<1>2. /\ x \in Device /\ x.driver = n /\ x.info = devices[d].info
      /\ devices' = [devices EXCEPT ![d] = x]
  BY Zenon, <1>1 DEF Device
<1> HIDE DEF x
<1> QED
  BY <1>2, SeqFacts

(* unregister_irq_handler for every vector of driver n.                    *)
LEMMA UnregisterFacts ==
  ASSUME ManagerTypeOK, NEW n \in DOMAIN drivers, UnregisterIrqs(n)
  PROVE  /\ idt' \in [Vectors -> {"default", "kbd", "mouse"}]
         /\ \A v \in drivers[n].irqs : idt'[v] = "default"
         /\ \A v \in Vectors : idt'[v] # "default" =>
              idt'[v] = idt[v] /\ v \notin drivers[n].irqs
         /\ \A v \in Vectors \ drivers[n].irqs : idt'[v] = idt[v]
<1>1. drivers[n].irqs \subseteq Vectors
  BY Zenon, TypeFacts
<1> QED
  BY Zenon, <1>1 DEF UnregisterIrqs, ManagerTypeOK

(* A running driver is one that was not dropped, and no two devices have   *)
(* the same.                                                               *)
LEMMA RunningFacts ==
  ASSUME DeviceInv, NEW d \in DOMAIN devices, Running(d) # None
  PROVE  /\ Running(d) \in live /\ Running(d) \in DOMAIN drivers
         /\ drivers[Running(d)].irqs \subseteq devices[d].info.irqs
         /\ drivers[Running(d)].irqs \subseteq Vectors
         /\ BarPages(drivers[Running(d)].maps) \subseteq BarPages(devices[d].info.bars)
         /\ \A e \in DOMAIN devices : Running(e) = Running(d) => e = d
<1>1. ManagerTypeOK
  BY Zenon DEF DeviceInv
<1>2. Running(d) \in live
  <2>1. CASE op.device = d /\ op.step \in {"record", "clear", "unmap", "fault"}
    BY Zenon, <2>1 DEF DeviceInv, Running
  <2>2. CASE ~(op.device = d /\ op.step \in {"record", "clear", "unmap", "fault"})
    <3>1. Running(d) = devices[d].driver
      BY Zenon, <2>2 DEF Running
    <3> QED
      BY Zenon, <3>1 DEF DeviceInv
  <2> QED
    BY Zenon, <2>1, <2>2
<1>3. Running(d) \in DOMAIN drivers
  BY Zenon, <1>1, <1>2 DEF ManagerTypeOK
<1>4. /\ drivers[Running(d)].irqs \subseteq devices[d].info.irqs
      /\ drivers[Running(d)].maps \subseteq devices[d].info.bars
  BY Zenon DEF DeviceInv
<1>5. drivers[Running(d)].irqs \subseteq Vectors
  BY Zenon, <1>1, <1>3, TypeFacts
<1>6. BarPages(drivers[Running(d)].maps) \subseteq BarPages(devices[d].info.bars)
  BY Zenon, <1>4 DEF BarPages
<1>7. ASSUME NEW e \in DOMAIN devices, Running(e) = Running(d) PROVE e = d
  <2> DEFINE H(a) == op.device = a /\ op.step \in {"record", "clear", "unmap", "fault"}
  <2>1. CASE H(d) /\ H(e)
    BY Zenon, <2>1
  <2>2. CASE H(d) /\ ~H(e)
    <3>1. Running(d) = op.driver /\ Running(e) = devices[e].driver
      BY Zenon, <2>2 DEF Running
    <3>2. devices[e].driver # None /\ devices[e].driver = op.driver
      BY Zenon, <1>7, <3>1
    <3> QED
      BY Zenon, <3>2 DEF DeviceInv
  <2>3. CASE ~H(d) /\ H(e)
    <3>1. Running(e) = op.driver /\ Running(d) = devices[d].driver
      BY Zenon, <2>3 DEF Running
    <3>2. devices[d].driver # None /\ devices[d].driver = op.driver
      BY Zenon, <1>7, <3>1
    <3> QED
      BY Zenon, <3>2 DEF DeviceInv
  <2>4. CASE ~H(d) /\ ~H(e)
    <3>1. Running(e) = devices[e].driver /\ Running(d) = devices[d].driver
      BY Zenon, <2>4 DEF Running
    <3> QED
      <4>1. devices[d].driver # None /\ devices[e].driver = devices[d].driver
        BY Zenon, <1>7, <3>1
      <4> QED
        BY Zenon, <4>1 DEF DeviceInv
  <2> QED
    BY Zenon, <2>1, <2>2, <2>3, <2>4
<1> QED
  BY Zenon, <1>2, <1>3, <1>4, <1>5, <1>6, <1>7

(* What another device has it keeps, and so what is shared stays shared.   *)
LEMMA SharedStays ==
  ASSUME DOMAIN devices \subseteq DOMAIN devices',
         \A e \in DOMAIN devices : /\ devices[e].info.irqs \subseteq devices'[e].info.irqs
                                   /\ devices[e].info.bars \subseteq devices'[e].info.bars,
         NEW d
  PROVE  /\ \A v : SharedVector(d, v) => SharedVector(d, v)'
         /\ \A p : SharedPage(d, p) => SharedPage(d, p)'
<1>1. \A v : SharedVector(d, v) => SharedVector(d, v)'
  BY Zenon DEF SharedVector
<1>2. \A e \in DOMAIN devices : BarPages(devices[e].info.bars) \subseteq BarPages(devices'[e].info.bars)
  BY Zenon DEF BarPages
<1>3. \A p : SharedPage(d, p) => SharedPage(d, p)'
  BY Zenon, <1>2 DEF SharedPage
<1> QED
  BY Zenon, <1>1, <1>3

(* Steps that leave the drivers, the handlers and the pages as they are,   *)
(* and that start and stop no driver.                                      *)
LEMMA NothingStarts ==
  ASSUME DeviceInv, DOMAIN devices \subseteq DOMAIN devices',
         \A e \in DOMAIN devices : /\ devices[e].info.irqs \subseteq devices'[e].info.irqs
                                   /\ devices[e].info.bars \subseteq devices'[e].info.bars,
         \A e \in DOMAIN devices' :
           Running(e)' = None \/ (e \in DOMAIN devices /\ Running(e)' = Running(e)),
         UNCHANGED <<drivers, live, idt, mapped>>, op'.step # "fault"
  PROVE  /\ HandlersHaveOwner' /\ MappingsFollowDrivers'
         /\ \A d \in DOMAIN devices' : Running(d)' # None =>
              /\ drivers'[Running(d)'].irqs \subseteq devices'[d].info.irqs
              /\ drivers'[Running(d)'].maps \subseteq devices'[d].info.bars
<1>1. ASSUME NEW d \in DOMAIN devices', Running(d)' # None
      PROVE  /\ \A v \in drivers'[Running(d)'].irqs :
                  idt'[v] = drivers'[Running(d)'].kind \/ SharedVector(d, v)'
             /\ \A p \in drivers'[Running(d)'].own : p \in mapped' \/ SharedPage(d, p)'
             /\ drivers'[Running(d)'].irqs \subseteq devices'[d].info.irqs
             /\ drivers'[Running(d)'].maps \subseteq devices'[d].info.bars
  <2>1. d \in DOMAIN devices /\ Running(d)' = Running(d) /\ Running(d) # None
    BY Zenon, <1>1
  <2>2. /\ \A v \in drivers[Running(d)].irqs :
             idt[v] = drivers[Running(d)].kind \/ SharedVector(d, v)
        /\ \A p \in drivers[Running(d)].own : p \in mapped \/ SharedPage(d, p)
        /\ drivers[Running(d)].irqs \subseteq devices[d].info.irqs
        /\ drivers[Running(d)].maps \subseteq devices[d].info.bars
    BY Zenon, <2>1 DEF DeviceInv, HandlersHaveOwner, MappingsFollowDrivers
  <2>3. /\ \A v : SharedVector(d, v) => SharedVector(d, v)'
        /\ \A p : SharedPage(d, p) => SharedPage(d, p)'
    BY Zenon, SharedStays
  <2> QED
    BY Zenon, <2>1, <2>2, <2>3
<1>2. HandlersHaveOwner'
  BY Zenon, <1>1 DEF DeviceInv, HandlersHaveOwner
<1>3. MappingsFollowDrivers'
  BY Zenon, <1>1 DEF DeviceInv, MappingsFollowDrivers
<1> QED
  BY Zenon, <1>1, <1>2, <1>3

-----------------------------------------------------------------------------
(* The inductive invariant.                                                *)

LEMMA InitDeviceInv == ManagerInit => DeviceInv
<1> SUFFICES ASSUME ManagerInit PROVE DeviceInv
  BY Zenon
<1>1. /\ devices \in Seq(Device) /\ DOMAIN devices = {}
      /\ drivers \in Seq(Driver) /\ DOMAIN drivers = {}
  BY DEF ManagerInit
<1>2. ManagerTypeOK
  BY Zenon, <1>1 DEF ManagerInit, ManagerTypeOK, Idle, None, Device, Driver
<1> QED
  BY Zenon, <1>1, <1>2 DEF ManagerInit, DeviceInv, NoDanglingPointer, HandlersHaveOwner,
     MappingsFollowDrivers, Idle

(* Steps that leave drivers, pointers, handlers and pages alone.           *)
LEMMA RegistryStep ==
  ASSUME DeviceInv, op = Idle, devices' \in Seq(Device),
         DOMAIN devices \subseteq DOMAIN devices',
         \A e \in DOMAIN devices : /\ devices[e].info.irqs \subseteq devices'[e].info.irqs
                                   /\ devices[e].info.bars \subseteq devices'[e].info.bars,
         UNCHANGED <<drivers, live, idt, instance, active, mapped, op>>,
         \A d \in DOMAIN devices' :
           \/ d \in DOMAIN devices /\ devices'[d].driver = devices[d].driver
           \/ devices'[d].driver = None
  PROVE  DeviceInv'
<1>1. ManagerTypeOK'
  BY Zenon DEF DeviceInv, ManagerTypeOK, Device
<1>2. op.step = "none" /\ op'.step = "none"
  BY Zenon DEF Idle
<1>3. \A d : Running(d) = devices[d].driver /\ Running(d)' = devices'[d].driver
  BY Zenon, <1>2 DEF Running
<1>4. /\ HandlersHaveOwner' /\ MappingsFollowDrivers'
      /\ \A d \in DOMAIN devices' : Running(d)' # None =>
           /\ drivers'[Running(d)'].irqs \subseteq devices'[d].info.irqs
           /\ drivers'[Running(d)'].maps \subseteq devices'[d].info.bars
  BY <1>2, <1>3, NothingStarts, Zenon
<1>5. NoDanglingPointer'
  BY Zenon DEF DeviceInv, NoDanglingPointer
<1>6. \A d \in DOMAIN devices' : devices'[d].driver # None =>
        /\ devices'[d].driver \in live' /\ devices'[d].driver # op'.driver
        /\ \A e \in DOMAIN devices' : devices'[e].driver = devices'[d].driver => e = d
  <2>1. \A d \in DOMAIN devices : devices[d].driver # None =>
          /\ devices[d].driver \in live /\ devices[d].driver # op.driver
          /\ \A e \in DOMAIN devices : devices[e].driver = devices[d].driver => e = d
    BY Zenon DEF DeviceInv
  <2> QED
    BY Zenon, <2>1
<1> QED
  BY Zenon, <1>1, <1>2, <1>4, <1>5, <1>6 DEF DeviceInv

LEMMA RegisterKeepsInv ==
  ASSUME DeviceInv, NEW info \in Infos, Register(info)
  PROVE  DeviceInv'
<1> DEFINE x == [info |-> info, driver |-> None]
<1>1. devices \in Seq(Device) /\ x \in Device /\ x.driver = None
  BY Zenon, InfosOK DEF DeviceInv, ManagerTypeOK, Device, None
<1>2. devices' = Append(devices, x)
  BY Zenon DEF Register
<1> HIDE DEF x
<1>3. /\ devices' \in Seq(Device) /\ DOMAIN devices \subseteq DOMAIN devices'
      /\ \A d \in DOMAIN devices : devices'[d] = devices[d]
      /\ \A d \in DOMAIN devices' :
           \/ d \in DOMAIN devices /\ devices'[d].driver = devices[d].driver
           \/ devices'[d].driver = None
  BY <1>1, <1>2, SeqFacts
<1>4. \A d \in DOMAIN devices : /\ devices[d].info.irqs \subseteq devices'[d].info.irqs
                                /\ devices[d].info.bars \subseteq devices'[d].info.bars
  BY Zenon, <1>3
<1> QED
  BY Zenon, <1>3, <1>4, RegistryStep DEF Register

LEMMA MergeKeepsInv ==
  ASSUME DeviceInv, NEW info \in Infos, Merge(info)
  PROVE  DeviceInv'
<1>1. PICK d \in DOMAIN devices :
        devices' = [devices EXCEPT ![d].info = MergedInfo(@, info)]
  BY Zenon DEF Merge
<1>2. devices \in Seq(Device) /\ devices[d] \in Device
  BY Zenon, TypeFacts DEF DeviceInv
<1> DEFINE old == devices[d].info
           new == MergedInfo(old, info)
           x == [devices[d] EXCEPT !.info = new]
<1>3. old \in Info /\ info \in Info
  BY Zenon, <1>2, InfosOK DEF Device
<1>4. new \in Info /\ old.irqs \subseteq new.irqs /\ old.bars \subseteq new.bars
  <2>1. old.irqs \cup info.irqs \subseteq Vectors
    BY Zenon, <1>3 DEF Info
  <2>2. info.bars \cup old.bars \subseteq UNION {y.bars : y \in Infos}
    BY Zenon, <1>3 DEF Info
  <2> HIDE DEF old
  <2> QED
    BY <1>3, <2>1, <2>2, Zenon DEF Info, MergedInfo
<1>5. devices' = [devices EXCEPT ![d] = x]
  BY Zenon, <1>1
<1> HIDE DEF new, old
<1>6. x \in Device /\ x.driver = devices[d].driver /\ x.info = new
  BY Zenon, <1>2, <1>4 DEF Device
<1> HIDE DEF x
<1>7. /\ devices' \in Seq(Device) /\ DOMAIN devices' = DOMAIN devices
      /\ devices'[d] = x /\ \A e \in DOMAIN devices \ {d} : devices'[e] = devices[e]
  BY Zenon, <1>2, <1>5, <1>6, SeqFacts
<1>8. \A e \in DOMAIN devices : /\ devices'[e].driver = devices[e].driver
                                /\ devices[e].info.irqs \subseteq devices'[e].info.irqs
                                /\ devices[e].info.bars \subseteq devices'[e].info.bars
  <2>1. SUFFICES ASSUME NEW e \in DOMAIN devices
                 PROVE  /\ devices'[e].driver = devices[e].driver
                        /\ devices[e].info.irqs \subseteq devices'[e].info.irqs
                        /\ devices[e].info.bars \subseteq devices'[e].info.bars
    BY Zenon
  <2>2. CASE e = d
    BY Zenon, <1>4, <1>6, <1>7, <2>2 DEF old
  <2>3. CASE e # d
    BY Zenon, <1>7, <2>3
  <2> QED
    BY Zenon, <2>2, <2>3
<1> QED
  BY Zenon, <1>7, <1>8, RegistryStep DEF Merge

LEMMA AttachKeepsInv ==
  ASSUME DeviceInv, NEW d \in DOMAIN devices, NEW kind \in DriverKinds, Attach(d, kind)
  PROVE  DeviceInv'
<1> DEFINE info == devices[d].info
           n == Len(drivers) + 1
           x == [kind |-> kind, irqs |-> IF kind = "vbe" THEN {} ELSE info.irqs,
                 maps |-> IF kind = "vbe" THEN info.bars ELSE {},
                 own |-> mapped' \ mapped]
<1>1. /\ ManagerTypeOK /\ devices \in Seq(Device) /\ drivers \in Seq(Driver)
      /\ info.irqs \subseteq Vectors /\ info.bars \subseteq Bars
      /\ BarPages(info.bars) \subseteq Pages /\ d \in Nat
  <2>1. ManagerTypeOK
    BY Zenon DEF DeviceInv
  <2>2. info.bars \subseteq Bars /\ info.irqs \subseteq Vectors /\ d \in Nat
    BY Zenon, <2>1, TypeFacts
  <2> QED
    BY Zenon, <2>1, <2>2, TypeFacts, BarPagesType
<1>2. op.step = "none"
  BY Zenon DEF Attach, Idle
<1>3. /\ op = Idle /\ devices[d].driver = None /\ UNCHANGED devices
      /\ drivers' = Append(drivers, x) /\ live' = live \cup {n}
      /\ op' = [step |-> "record", device |-> d, driver |-> n]
  BY Zenon DEF Attach
<1>4. /\ kind = "vbe" => /\ active' = n /\ UNCHANGED <<idt, instance>>
                         /\ mapped \subseteq mapped'
                         /\ mapped' \subseteq mapped \cup BarPages(info.bars)
      /\ kind # "vbe" => /\ idt' = [v \in Vectors |-> IF v \in info.irqs THEN kind ELSE idt[v]]
                         /\ instance' = IF kind = "mouse" THEN n ELSE instance
                         /\ UNCHANGED <<mapped, active>>
  BY Zenon DEF Attach, MapBars, RegisterIrqs
<1>5. mapped \subseteq mapped' /\ mapped' \subseteq Pages
  BY Zenon, <1>1, <1>4 DEF ManagerTypeOK
<1>6. x \in Driver
  BY Zenon, <1>1, <1>5 DEF Driver
<1>7. /\ drivers' \in Seq(Driver) /\ DOMAIN drivers' = DOMAIN drivers \cup {n}
      /\ n \in Nat \ {0} /\ n \notin DOMAIN drivers
      /\ \A k \in DOMAIN drivers : drivers'[k] = drivers[k]
      /\ drivers'[n] = x
  BY <1>1, <1>3, <1>6, SeqFacts
<1>8. /\ x.kind = kind /\ x.own = mapped' \ mapped
      /\ kind = "vbe" => x.maps = info.bars /\ x.irqs = {}
      /\ kind # "vbe" => x.irqs = info.irqs /\ x.maps = {}
      /\ x.irqs \subseteq info.irqs /\ x.maps \subseteq info.bars
  BY Zenon
<1>9. live \subseteq DOMAIN drivers
  BY Zenon, <1>1 DEF ManagerTypeOK
<1>10. op'.step = "record" /\ op'.device = d /\ op'.driver = n
  BY Zenon, <1>3
<1>11. /\ Running(d)' = n
       /\ \A e \in DOMAIN devices \ {d} : Running(e)' = Running(e)
  BY Zenon, <1>2, <1>3, <1>10 DEF Running
<1> HIDE DEF x, n
<1>12. ASSUME NEW e \in DOMAIN devices \ {d}, Running(e) # None
       PROVE  /\ Running(e) \in DOMAIN drivers /\ drivers'[Running(e)] = drivers[Running(e)]
              /\ drivers[Running(e)].irqs \subseteq Vectors
              /\ drivers[Running(e)].irqs \subseteq devices[e].info.irqs
              /\ drivers[Running(e)].maps \subseteq devices[e].info.bars
  <2>1. e \in DOMAIN devices
    BY Zenon
  <2>2. /\ Running(e) \in DOMAIN drivers /\ drivers[Running(e)].irqs \subseteq Vectors
    BY Zenon, <1>12, <2>1, RunningFacts
  <2> QED
    BY Zenon, <1>7, <1>12, <2>1, <2>2 DEF DeviceInv
<1>13. \A e, v : SharedVector(e, v)' <=> SharedVector(e, v)
  BY Zenon, <1>3 DEF SharedVector
<1>14. \A e, p : SharedPage(e, p)' <=> SharedPage(e, p)
  BY Zenon, <1>3 DEF SharedPage
<1>15. ManagerTypeOK'
  <2>1. idt' \in [Vectors -> {"default", "kbd", "mouse"}]
    BY Zenon, <1>1, <1>4 DEF ManagerTypeOK, DriverKinds
  <2>2. instance' \in Nat /\ active' \in Nat
    BY Zenon, <1>1, <1>4, <1>7 DEF ManagerTypeOK
  <2> QED
    BY Zenon, <1>1, <1>3, <1>5, <1>7, <1>9, <2>1, <2>2 DEF ManagerTypeOK, Driver
<1>16. NoDanglingPointer'
  BY <1>3, <1>4, <1>7, <1>8, <1>9 DEF DeviceInv, NoDanglingPointer
<1>17. HandlersHaveOwner'
  <2>1. ASSUME NEW v \in Vectors, idt'[v] # "default"
        PROVE  \E k \in live' : drivers'[k].kind = idt'[v] /\ v \in drivers'[k].irqs
    <3>1. CASE kind # "vbe" /\ v \in info.irqs
      <4>1. idt'[v] = kind
        BY Zenon, <1>4, <3>1
      <4>2. n \in live' /\ drivers'[n].kind = kind /\ v \in drivers'[n].irqs
        BY Zenon, <1>3, <1>7, <1>8, <3>1
      <4> QED
        BY Zenon, <4>1, <4>2
    <3>2. CASE ~(kind # "vbe" /\ v \in info.irqs)
      <4>1. idt'[v] = idt[v]
        BY Zenon, <1>4, <3>2
      <4>2. PICK k \in live : drivers[k].kind = idt[v] /\ v \in drivers[k].irqs
        BY Zenon, <2>1, <4>1 DEF DeviceInv, HandlersHaveOwner
      <4> QED
        BY Zenon, <1>3, <1>7, <1>9, <4>1, <4>2
    <3> QED
      BY Zenon, <3>1, <3>2
  <2>2. ASSUME NEW v \in x.irqs PROVE idt'[v] = x.kind
    BY Zenon, <1>1, <1>4, <1>8, <2>2
  <2>3. ASSUME NEW e \in DOMAIN devices \ {d}, Running(e) # None,
               NEW v \in drivers[Running(e)].irqs
        PROVE  idt'[v] = drivers[Running(e)].kind \/ SharedVector(e, v)
    <3>1. CASE v \in info.irqs
      BY Zenon, <3>1 DEF SharedVector
    <3>2. CASE v \notin info.irqs
      <4>1. v \in Vectors
        BY Zenon, <1>12, <2>3
      <4>2. idt'[v] = idt[v]
        BY Zenon, <1>4, <3>2, <4>1
      <4> QED
        BY Zenon, <2>3, <4>2 DEF DeviceInv, HandlersHaveOwner
    <3> QED
      BY Zenon, <3>1, <3>2
  <2>4. ASSUME NEW e \in DOMAIN devices', Running(e)' # None,
               NEW v \in drivers'[Running(e)'].irqs
        PROVE  idt'[v] = drivers'[Running(e)'].kind \/ SharedVector(e, v)'
    <3>1. CASE e = d
      BY Zenon, <1>7, <1>11, <2>2, <2>4, <3>1
    <3>2. CASE e # d
      BY Zenon, <1>3, <1>11, <1>12, <1>13, <2>3, <2>4, <3>2
    <3> QED
      BY Zenon, <3>1, <3>2
  <2> QED
    BY Zenon, <2>1, <2>4 DEF HandlersHaveOwner
<1>18. MappingsFollowDrivers'
  <2>1. ASSUME NEW p \in mapped' PROVE \E k \in live' : p \in BarPages(drivers'[k].maps)
    <3>1. CASE p \in mapped
      <4>1. PICK k \in live : p \in BarPages(drivers[k].maps)
        BY Zenon, <3>1 DEF DeviceInv, MappingsFollowDrivers
      <4> QED
        BY Zenon, <1>3, <1>7, <1>9, <4>1
    <3>2. CASE p \notin mapped
      BY Zenon, <1>3, <1>4, <1>7, <1>8, <2>1, <3>2
    <3> QED
      BY Zenon, <3>1, <3>2
  <2>2. ASSUME NEW e \in DOMAIN devices', Running(e)' # None,
               NEW p \in drivers'[Running(e)'].own
        PROVE  p \in mapped' \/ SharedPage(e, p)'
    <3>1. CASE e = d
      BY Zenon, <1>7, <1>8, <1>11, <2>2, <3>1
    <3>2. CASE e # d
      <4>1. /\ e \in DOMAIN devices /\ Running(e) # None /\ Running(e)' = Running(e)
            /\ p \in drivers[Running(e)].own
        BY Zenon, <1>3, <1>11, <1>12, <2>2, <3>2
      <4>2. p \in mapped \/ SharedPage(e, p)
        BY Zenon, <4>1 DEF DeviceInv, MappingsFollowDrivers
      <4> QED
        BY Zenon, <1>5, <1>14, <4>2
    <3> QED
      BY Zenon, <3>1, <3>2
  <2> QED
    BY Zenon, <1>10, <2>1, <2>2 DEF MappingsFollowDrivers
<1>19. \A e \in DOMAIN devices' : Running(e)' # None =>
         /\ drivers'[Running(e)'].irqs \subseteq devices'[e].info.irqs
         /\ drivers'[Running(e)'].maps \subseteq devices'[e].info.bars
  <2>1. ASSUME NEW e \in DOMAIN devices', Running(e)' # None
        PROVE  /\ drivers'[Running(e)'].irqs \subseteq devices'[e].info.irqs
               /\ drivers'[Running(e)'].maps \subseteq devices'[e].info.bars
    <3>1. CASE e = d
      BY Zenon, <1>3, <1>7, <1>8, <1>11, <3>1
    <3>2. CASE e # d
      BY Zenon, <1>3, <1>11, <1>12, <2>1, <3>2
    <3> QED
      BY Zenon, <3>1, <3>2
  <2> QED
    BY Zenon, <2>1
<1>20. \A k \in DOMAIN drivers' :
         IF drivers'[k].kind = "vbe" THEN drivers'[k].irqs = {} ELSE drivers'[k].maps = {}
  <2>1. IF drivers'[n].kind = "vbe" THEN drivers'[n].irqs = {} ELSE drivers'[n].maps = {}
    BY Zenon, <1>7, <1>8
  <2>2. \A k \in DOMAIN drivers :
          IF drivers'[k].kind = "vbe" THEN drivers'[k].irqs = {} ELSE drivers'[k].maps = {}
    BY Zenon, <1>7 DEF DeviceInv
  <2> QED
    BY Zenon, <1>7, <2>1, <2>2
<1> QED
  BY Zenon, <1>3, <1>7, <1>9, <1>10, <1>15, <1>16, <1>17, <1>18, <1>19, <1>20 DEF DeviceInv

LEMMA RecordKeepsInv ==
  ASSUME DeviceInv, Record
  PROVE  DeviceInv'
<1>1. /\ op.step = "record" /\ op.device \in DOMAIN devices /\ op.driver \in live
      /\ op.driver \in Nat /\ devices \in Seq(Device) /\ op' = Idle
      /\ UNCHANGED <<drivers, live, idt, instance, active, mapped>>
  BY Zenon DEF Record, DeviceInv, ManagerTypeOK, Device
<1>2. /\ devices' \in Seq(Device) /\ DOMAIN devices' = DOMAIN devices
      /\ devices'[op.device].driver = op.driver
      /\ \A e \in DOMAIN devices \ {op.device} : devices'[e].driver = devices[e].driver
      /\ \A e \in DOMAIN devices : devices'[e].info = devices[e].info
  BY <1>1, SetDriver, Zenon DEF Record
<1>3. ManagerTypeOK'
  BY Zenon, <1>1, <1>2 DEF DeviceInv, ManagerTypeOK, Device, Idle, None
<1>4. op'.step = "none" /\ op'.driver = None
  BY Zenon, <1>1 DEF Idle
<1>5. \A e \in DOMAIN devices' : Running(e)' = Running(e) /\ e \in DOMAIN devices
  BY Zenon, <1>1, <1>2, <1>4 DEF Running
<1>6. /\ HandlersHaveOwner' /\ MappingsFollowDrivers'
      /\ \A d \in DOMAIN devices' : Running(d)' # None =>
           /\ drivers'[Running(d)'].irqs \subseteq devices'[d].info.irqs
           /\ drivers'[Running(d)'].maps \subseteq devices'[d].info.bars
  BY <1>1, <1>2, <1>4, <1>5, NothingStarts, Zenon
<1>7. NoDanglingPointer'
  BY Zenon, <1>1 DEF DeviceInv, NoDanglingPointer
<1>8. \A d \in DOMAIN devices' : devices'[d].driver # None =>
        /\ devices'[d].driver \in live' /\ devices'[d].driver # op'.driver
        /\ \A e \in DOMAIN devices' : devices'[e].driver = devices'[d].driver => e = d
  BY <1>1, <1>2, <1>4 DEF DeviceInv
<1> QED
  BY Zenon, <1>1, <1>3, <1>4, <1>6, <1>7, <1>8 DEF DeviceInv

LEMMA StopKeepsInv ==
  ASSUME DeviceInv, NEW d \in DOMAIN devices, Stop(d)
  PROVE  DeviceInv'
<1> DEFINE n == devices[d].driver
           display == drivers[n].kind = "vbe"
<1>1. /\ op = Idle /\ n # None /\ UnregisterIrqs(n)
      /\ devices' = [devices EXCEPT ![d].driver = None]
      /\ op' = [step |-> IF display THEN "clear" ELSE "release", device |-> d, driver |-> n]
      /\ UNCHANGED <<drivers, live, instance, active, mapped>>
  BY Zenon DEF Stop
<1>2. op.step = "none"
  BY Zenon, <1>1 DEF Idle
<1>3. /\ ManagerTypeOK /\ devices \in Seq(Device) /\ n \in live /\ n \in DOMAIN drivers
      /\ n \in Nat /\ d \in Nat
      /\ \A e \in DOMAIN devices : devices[e].driver = n => e = d
  <2>1. ManagerTypeOK /\ n \in live /\ \A e \in DOMAIN devices : devices[e].driver = n => e = d
    BY Zenon, <1>1 DEF DeviceInv
  <2>2. d \in Nat /\ n \in Nat
    BY Zenon, <2>1, TypeFacts
  <2> QED
    BY Zenon, <2>1, <2>2, TypeFacts DEF ManagerTypeOK
<1>4. /\ devices' \in Seq(Device) /\ DOMAIN devices' = DOMAIN devices
      /\ devices'[d].driver = None
      /\ \A e \in DOMAIN devices \ {d} : devices'[e].driver = devices[e].driver
      /\ \A e \in DOMAIN devices : devices'[e].info = devices[e].info
  BY <1>1, <1>3, SetDriver, Zenon DEF None
<1>5. /\ Running(d) = n
      /\ drivers[n].irqs \subseteq devices[d].info.irqs
      /\ drivers[n].maps \subseteq devices[d].info.bars
  <2>1. Running(d) = n
    BY Zenon, <1>2 DEF Running
  <2> QED
    BY Zenon, <1>1, <2>1 DEF DeviceInv
<1>6. IF display THEN drivers[n].irqs = {} ELSE drivers[n].maps = {}
  BY Zenon, <1>3 DEF DeviceInv
<1> HIDE DEF n
<1>7. /\ idt' \in [Vectors -> {"default", "kbd", "mouse"}]
      /\ \A v \in drivers[n].irqs : idt'[v] = "default"
      /\ \A v \in Vectors : idt'[v] # "default" => idt'[v] = idt[v] /\ v \notin drivers[n].irqs
      /\ \A v \in Vectors \ drivers[n].irqs : idt'[v] = idt[v]
  BY Zenon, <1>1, <1>3, UnregisterFacts
<1>8. /\ op'.device = d /\ op'.driver = n
      /\ IF display THEN op'.step = "clear" ELSE op'.step = "release"
  BY Zenon, <1>1
<1>9. /\ \A e \in DOMAIN devices \ {d} : Running(e)' = Running(e)
      /\ Running(d)' = IF display THEN n ELSE None
  BY Zenon, <1>2, <1>4, <1>8 DEF Running
<1>10. ManagerTypeOK'
  BY Zenon, <1>1, <1>3, <1>4, <1>7 DEF ManagerTypeOK, Device, None
<1>11. NoDanglingPointer'
  BY Zenon, <1>1 DEF DeviceInv, NoDanglingPointer
<1>12. \A e : /\ \A v : SharedVector(e, v) => SharedVector(e, v)'
              /\ \A p : SharedPage(e, p) => SharedPage(e, p)'
  BY Zenon, <1>4, SharedStays
<1>13. HandlersHaveOwner'
  <2>1. \A v \in Vectors : idt'[v] # "default" =>
          \E k \in live' : drivers'[k].kind = idt'[v] /\ v \in drivers'[k].irqs
    <3>1. \A v \in Vectors : idt[v] # "default" =>
            \E k \in live : drivers[k].kind = idt[v] /\ v \in drivers[k].irqs
      BY Zenon DEF DeviceInv, HandlersHaveOwner
    <3> QED
      BY Zenon, <1>1, <1>7, <3>1
  <2>2. ASSUME NEW e \in DOMAIN devices \ {d}, Running(e) # None,
               NEW v \in drivers[Running(e)].irqs
        PROVE  idt'[v] = drivers[Running(e)].kind \/ SharedVector(e, v)
    <3>1. CASE v \in drivers[n].irqs
      BY Zenon, <1>5, <3>1 DEF SharedVector
    <3>2. CASE v \notin drivers[n].irqs
      <4>1. e \in DOMAIN devices
        BY Zenon
      <4>2. v \in Vectors
        BY Zenon, <2>2, <4>1, RunningFacts
      <4>3. idt'[v] = idt[v]
        BY Zenon, <1>7, <3>2, <4>2
      <4> QED
        BY Zenon, <2>2, <4>1, <4>3 DEF DeviceInv, HandlersHaveOwner
    <3> QED
      BY Zenon, <3>1, <3>2
  <2>3. ASSUME NEW e \in DOMAIN devices', Running(e)' # None,
               NEW v \in drivers'[Running(e)'].irqs
        PROVE  idt'[v] = drivers'[Running(e)'].kind \/ SharedVector(e, v)'
    <3>1. CASE e = d
      BY Zenon, <1>1, <1>6, <1>9, <2>3, <3>1
    <3>2. CASE e # d
      <4>1. e \in DOMAIN devices \ {d} /\ Running(e)' = Running(e) /\ drivers' = drivers
        BY Zenon, <1>1, <1>4, <1>9, <3>2
      <4>2. idt'[v] = drivers[Running(e)].kind \/ SharedVector(e, v)
        BY Zenon, <2>2, <2>3, <4>1
      <4> QED
        BY Zenon, <1>12, <4>1, <4>2
    <3> QED
      BY Zenon, <3>1, <3>2
  <2> QED
    BY Zenon, <2>1, <2>3 DEF HandlersHaveOwner
<1>14. ASSUME NEW e \in DOMAIN devices', Running(e)' # None
       PROVE  e \in DOMAIN devices /\ Running(e)' = Running(e) /\ Running(e) # None
  <2>1. CASE e = d
    BY Zenon, <1>5, <1>9, <1>14, <2>1
  <2>2. CASE e # d
    BY Zenon, <1>4, <1>9, <1>14, <2>2
  <2> QED
    BY Zenon, <2>1, <2>2
<1>15. MappingsFollowDrivers'
  <2>1. \A e \in DOMAIN devices' : Running(e)' # None =>
          \A p \in drivers'[Running(e)'].own : p \in mapped' \/ SharedPage(e, p)'
    BY Zenon, <1>1, <1>12, <1>14 DEF DeviceInv, MappingsFollowDrivers
  <2>2. op'.step # "fault"
    BY Zenon, <1>8
  <2> QED
    BY Zenon, <1>1, <2>1, <2>2 DEF DeviceInv, MappingsFollowDrivers
<1>16. \A e \in DOMAIN devices' : Running(e)' # None =>
         /\ drivers'[Running(e)'].irqs \subseteq devices'[e].info.irqs
         /\ drivers'[Running(e)'].maps \subseteq devices'[e].info.bars
  BY Zenon, <1>1, <1>4, <1>14 DEF DeviceInv
<1>17. ~display => active' # n
  BY Zenon, <1>1 DEF DeviceInv, NoDanglingPointer
<1>18. \A e \in DOMAIN devices' : devices'[e].driver # None =>
         /\ devices'[e].driver \in live' /\ devices'[e].driver # op'.driver
         /\ \A f \in DOMAIN devices' : devices'[f].driver = devices'[e].driver => f = e
  BY Zenon, <1>1, <1>3, <1>4, <1>8 DEF DeviceInv
<1> QED
  BY Zenon, <1>1, <1>3, <1>4, <1>6, <1>7, <1>8, <1>10, <1>11, <1>13, <1>15, <1>16, <1>17, <1>18
     DEF DeviceInv

(* The step of detach_driver changes, and neither registry, nor drivers,   *)
(* nor handlers, nor pages do.                                             *)
LEMMA OpStep ==
  ASSUME DeviceInv, op.step # "none", NEW t \in Steps, op' = [op EXCEPT !.step = t]
  PROVE  /\ op'.step = t /\ op'.device = op.device /\ op'.driver = op.driver
         /\ op' \in [step : Steps, device : Nat, driver : Nat]
         /\ op.device \in DOMAIN devices /\ op.driver \in live
         /\ op.driver \in DOMAIN drivers /\ devices[op.device].driver = None
         /\ ManagerTypeOK
<1>1. ManagerTypeOK /\ op \in [step : Steps, device : Nat, driver : Nat]
  BY Zenon DEF DeviceInv, ManagerTypeOK, Steps
<1>2. /\ op.device \in DOMAIN devices /\ op.driver \in live /\ op.driver \in DOMAIN drivers
      /\ devices[op.device].driver = None
  BY Zenon, <1>1 DEF DeviceInv, ManagerTypeOK
<1> QED
  BY Zenon, <1>1, <1>2

LEMMA ClearBoxKeepsInv ==
  ASSUME DeviceInv, ClearBox
  PROVE  DeviceInv'
<1>1. PICK t \in {"unmap", "fault"} :
        /\ op' = [op EXCEPT !.step = t]
        /\ t = "fault" =>
             ~(BoxPages(drivers[op.driver].maps) \subseteq mapped \cup BootPages)
  BY Zenon DEF ClearBox
<1>2. /\ op.step = "clear" /\ UNCHANGED <<devices, drivers, live, idt, instance, active, mapped>>
  BY Zenon DEF ClearBox
<1>3. /\ op'.step = t /\ op'.device = op.device /\ op'.driver = op.driver
      /\ op' \in [step : Steps, device : Nat, driver : Nat]
      /\ op.device \in DOMAIN devices /\ op.driver \in live /\ ManagerTypeOK
      /\ op.driver \in DOMAIN drivers /\ devices[op.device].driver = None
  <2>1. t \in Steps /\ op.step # "none"
    BY Zenon, <1>2 DEF Steps
  <2> QED
    BY Zenon, <1>1, <2>1, OpStep
<1>4. \A e : Running(e)' = Running(e)
  BY Zenon, <1>2, <1>3 DEF Running
<1>5. ManagerTypeOK'
  BY Zenon, <1>2, <1>3 DEF ManagerTypeOK, Steps
<1>6. /\ \A e, v : SharedVector(e, v)' <=> SharedVector(e, v)
      /\ \A e, p : SharedPage(e, p)' <=> SharedPage(e, p)
  BY Zenon, <1>2 DEF SharedVector, SharedPage
<1>7. NoDanglingPointer' /\ HandlersHaveOwner'
  BY Zenon, <1>2, <1>4, <1>6 DEF DeviceInv, NoDanglingPointer, HandlersHaveOwner
<1>8. MappingsFollowDrivers'
  <2>1. ASSUME op'.step = "fault"
        PROVE  \E p \in BoxPages(drivers[op.driver].maps) \ BootPages :
                 p \in drivers[op.driver].own => SharedPage(op.device, p)
    <3>1. PICK p \in BoxPages(drivers[op.driver].maps) : p \notin mapped /\ p \notin BootPages
      BY Zenon, <1>1, <1>3, <2>1
    <3>2. Running(op.device) = op.driver
      BY Zenon, <1>2 DEF Running
    <3>3. op.driver # None
      BY Zenon, <1>3, TypeFacts DEF None
    <3>4. p \in drivers[op.driver].own => p \in mapped \/ SharedPage(op.device, p)
      BY Zenon, <1>3, <3>2, <3>3 DEF DeviceInv, MappingsFollowDrivers
    <3> QED
      BY Zenon, <3>1, <3>4
  <2>2. \A e \in DOMAIN devices' : Running(e)' # None =>
          \A p \in drivers'[Running(e)'].own : p \in mapped' \/ SharedPage(e, p)'
    BY Zenon, <1>2, <1>4, <1>6 DEF DeviceInv, MappingsFollowDrivers
  <2>3. (op.step = "fault" =>
           \E p \in BoxPages(drivers[op.driver].maps) \ BootPages :
             p \in drivers[op.driver].own => SharedPage(op.device, p))'
    BY Zenon, <1>2, <1>3, <2>1 DEF SharedPage
  <2>4. (\A p \in mapped : \E n \in live : p \in BarPages(drivers[n].maps))'
    BY Zenon, <1>2 DEF DeviceInv, MappingsFollowDrivers
  <2> QED
    BY Zenon, <2>2, <2>3, <2>4 DEF MappingsFollowDrivers
<1> QED
  BY Zenon, <1>2, <1>3, <1>4, <1>5, <1>7, <1>8 DEF DeviceInv

LEMMA UnmapPagesKeepsInv ==
  ASSUME DeviceInv, UnmapPages
  PROVE  DeviceInv'
<1> DEFINE n == op.driver
           x == [drivers[n] EXCEPT !.maps = {}]
           gone == BarPages(drivers[n].maps)
<1>1. /\ op.step = "unmap" /\ op' = [op EXCEPT !.step = "pointer"]
      /\ mapped' = mapped \ gone /\ drivers' = [drivers EXCEPT ![n] = x]
      /\ UNCHANGED <<devices, live, idt, instance, active>>
  BY Zenon DEF UnmapPages
<1>2. /\ op'.step = "pointer" /\ op'.device = op.device /\ op'.driver = n
      /\ op' \in [step : Steps, device : Nat, driver : Nat]
      /\ op.device \in DOMAIN devices /\ n \in live /\ ManagerTypeOK
      /\ n \in DOMAIN drivers /\ devices[op.device].driver = None
  <2>1. "pointer" \in Steps /\ op.step # "none"
    BY Zenon, <1>1 DEF Steps
  <2> QED
    BY Zenon, <1>1, <2>1, OpStep
<1>3. /\ x \in Driver /\ x.kind = drivers[n].kind /\ x.irqs = drivers[n].irqs
      /\ x.maps = {} /\ x.own = drivers[n].own
  <2>1. drivers[n] \in Driver
    BY Zenon, <1>2, TypeFacts
  <2> QED
    BY Zenon, <2>1 DEF Driver
<1>4. drivers[n].kind = "vbe" /\ drivers[n].irqs = {}
  BY Zenon, <1>1, <1>2 DEF DeviceInv
<1> HIDE DEF x
<1>5. /\ drivers' \in Seq(Driver) /\ DOMAIN drivers' = DOMAIN drivers
      /\ drivers'[n] = x /\ \A k \in DOMAIN drivers \ {n} : drivers'[k] = drivers[k]
  <2>1. drivers \in Seq(Driver)
    BY Zenon, <1>2, TypeFacts
  <2> QED
    BY <1>1, <1>2, <1>3, <2>1, SeqFacts
<1>6. /\ \A k \in DOMAIN drivers : /\ drivers'[k].kind = drivers[k].kind
                                   /\ drivers'[k].irqs = drivers[k].irqs
                                   /\ drivers'[k].own = drivers[k].own
      /\ live \subseteq DOMAIN drivers
  BY Zenon, <1>2, <1>3, <1>5 DEF ManagerTypeOK
<1>7. Running(op.device) = n /\ n # None
  <2>1. n # None
    BY Zenon, <1>2, TypeFacts DEF None
  <2> QED
    BY Zenon, <1>1, <2>1 DEF Running
<1> HIDE DEF n
<1>8. ASSUME NEW e \in DOMAIN devices', Running(e)' # None
      PROVE  /\ e \in DOMAIN devices /\ e # op.device /\ Running(e)' = Running(e)
             /\ Running(e) # None /\ Running(e) \in DOMAIN drivers
             /\ drivers'[Running(e)] = drivers[Running(e)]
             /\ gone \subseteq BarPages(devices[op.device].info.bars)
  <2>1. e = op.device => Running(e)' = None
    BY Zenon, <1>1, <1>2 DEF Running
  <2>2. e # op.device /\ e \in DOMAIN devices
    BY Zenon, <1>1, <1>8, <2>1
  <2>3. Running(e)' = Running(e)
    BY Zenon, <1>1, <1>2, <2>2 DEF Running
  <2>4. /\ Running(e) # None /\ Running(e) \in DOMAIN drivers
        /\ \A f \in DOMAIN devices : Running(f) = Running(e) => f = e
    BY Zenon, <1>8, <2>2, <2>3, RunningFacts
  <2>5. Running(e) # n
    BY Zenon, <1>2, <1>7, <2>2, <2>4
  <2>6. gone \subseteq BarPages(devices[op.device].info.bars)
    BY Zenon, <1>2, <1>7, RunningFacts
  <2> QED
    BY Zenon, <1>5, <2>2, <2>3, <2>4, <2>5, <2>6
<1>9. ManagerTypeOK'
  BY Zenon, <1>1, <1>2, <1>5 DEF ManagerTypeOK, Driver, Steps
<1>10. NoDanglingPointer'
  BY Zenon, <1>1, <1>6 DEF DeviceInv, NoDanglingPointer
<1>11. /\ \A e, v : SharedVector(e, v)' <=> SharedVector(e, v)
       /\ \A e, p : SharedPage(e, p)' <=> SharedPage(e, p)
  BY Zenon, <1>1 DEF SharedVector, SharedPage
<1>12. HandlersHaveOwner'
  <2>1. ASSUME NEW v \in Vectors, idt'[v] # "default"
        PROVE  \E k \in live' : drivers'[k].kind = idt'[v] /\ v \in drivers'[k].irqs
    <3>1. PICK k \in live : drivers[k].kind = idt[v] /\ v \in drivers[k].irqs
      BY Zenon, <1>1, <2>1 DEF DeviceInv, HandlersHaveOwner
    <3>2. k \in live' /\ drivers'[k].kind = idt'[v] /\ v \in drivers'[k].irqs
      BY Zenon, <1>1, <1>6, <3>1
    <3> QED
      BY Zenon, <3>2
  <2>2. ASSUME NEW e \in DOMAIN devices', Running(e)' # None,
               NEW v \in drivers'[Running(e)'].irqs
        PROVE  idt'[v] = drivers'[Running(e)'].kind \/ SharedVector(e, v)'
    <3>1. /\ e \in DOMAIN devices /\ Running(e)' = Running(e) /\ Running(e) # None
          /\ drivers'[Running(e)'] = drivers[Running(e)]
      BY Zenon, <1>8, <2>2
    <3>2. idt[v] = drivers[Running(e)].kind \/ SharedVector(e, v)
      BY Zenon, <2>2, <3>1 DEF DeviceInv, HandlersHaveOwner
    <3> QED
      BY Zenon, <1>1, <1>11, <3>1, <3>2
  <2> QED
    BY Zenon, <2>1, <2>2 DEF HandlersHaveOwner
<1>13. MappingsFollowDrivers'
  <2>1. ASSUME NEW p \in mapped' PROVE \E k \in live' : p \in BarPages(drivers'[k].maps)
    <3>1. p \in mapped /\ p \notin gone
      BY Zenon, <1>1, <2>1
    <3>2. PICK k \in live : p \in BarPages(drivers[k].maps)
      BY Zenon, <3>1 DEF DeviceInv, MappingsFollowDrivers
    <3>3. k # n
      BY Zenon, <3>1, <3>2
    <3> QED
      BY Zenon, <1>1, <1>5, <1>6, <3>2, <3>3
  <2>2. ASSUME NEW e \in DOMAIN devices', Running(e)' # None,
               NEW p \in drivers'[Running(e)'].own
        PROVE  p \in mapped' \/ SharedPage(e, p)'
    <3>1. p \in drivers[Running(e)].own /\ e \in DOMAIN devices /\ Running(e) # None
      BY Zenon, <1>8, <2>2
    <3>2. p \in mapped \/ SharedPage(e, p)
      BY Zenon, <3>1 DEF DeviceInv, MappingsFollowDrivers
    <3>3. p \in gone => SharedPage(e, p)
      <4>1. /\ gone \subseteq BarPages(devices[op.device].info.bars)
            /\ op.device \in DOMAIN devices \ {e}
        BY Zenon, <1>2, <1>8, <2>2
      <4> QED
        BY Zenon, <4>1 DEF SharedPage
    <3> QED
      BY Zenon, <1>1, <1>11, <3>2, <3>3
  <2> QED
    BY Zenon, <1>2, <2>1, <2>2 DEF MappingsFollowDrivers
<1>14. \A e \in DOMAIN devices' : Running(e)' # None =>
         /\ drivers'[Running(e)'].irqs \subseteq devices'[e].info.irqs
         /\ drivers'[Running(e)'].maps \subseteq devices'[e].info.bars
  <2>1. ASSUME NEW e \in DOMAIN devices', Running(e)' # None
        PROVE  /\ drivers'[Running(e)'].irqs \subseteq devices'[e].info.irqs
               /\ drivers'[Running(e)'].maps \subseteq devices'[e].info.bars
    <3>1. /\ e \in DOMAIN devices /\ Running(e)' = Running(e) /\ Running(e) # None
          /\ drivers'[Running(e)'] = drivers[Running(e)]
      BY Zenon, <1>8, <2>1
    <3>2. /\ drivers[Running(e)].irqs \subseteq devices[e].info.irqs
          /\ drivers[Running(e)].maps \subseteq devices[e].info.bars
      BY Zenon, <3>1 DEF DeviceInv
    <3> QED
      BY Zenon, <1>1, <3>1, <3>2
  <2> QED
    BY Zenon, <2>1
<1>15. \A k \in DOMAIN drivers' :
         IF drivers'[k].kind = "vbe" THEN drivers'[k].irqs = {} ELSE drivers'[k].maps = {}
  <2>1. \A k \in DOMAIN drivers \ {n} :
          IF drivers'[k].kind = "vbe" THEN drivers'[k].irqs = {} ELSE drivers'[k].maps = {}
    BY Zenon, <1>5 DEF DeviceInv
  <2> QED
    BY Zenon, <1>3, <1>4, <1>5, <2>1
<1>16. \A d \in DOMAIN devices' : devices'[d].driver # None =>
         /\ devices'[d].driver \in live' /\ devices'[d].driver # op'.driver
         /\ \A e \in DOMAIN devices' : devices'[e].driver = devices'[d].driver => e = d
  BY Zenon, <1>1, <1>2 DEF DeviceInv, n
<1> QED
  BY Zenon, <1>1, <1>2, <1>3, <1>4, <1>5, <1>9, <1>10, <1>12, <1>13, <1>14, <1>15, <1>16
     DEF DeviceInv

LEMMA ClearPointerKeepsInv ==
  ASSUME DeviceInv, ClearPointer
  PROVE  DeviceInv'
<1>1. /\ op.step = "pointer" /\ op' = [op EXCEPT !.step = "release"]
      /\ active' = IF active = op.driver THEN None ELSE active
      /\ UNCHANGED <<devices, drivers, live, idt, instance, mapped>>
  BY Zenon DEF ClearPointer
<1>2. /\ op'.step = "release" /\ op'.device = op.device /\ op'.driver = op.driver
      /\ op' \in [step : Steps, device : Nat, driver : Nat]
      /\ op.device \in DOMAIN devices /\ op.driver \in live /\ ManagerTypeOK
      /\ op.driver \in DOMAIN drivers /\ devices[op.device].driver = None
  <2>1. "release" \in Steps /\ op.step # "none"
    BY Zenon, <1>1 DEF Steps
  <2> QED
    BY Zenon, <1>1, <2>1, OpStep
<1>3. \A e \in DOMAIN devices' : Running(e)' = Running(e) /\ e \in DOMAIN devices
  BY Zenon, <1>1, <1>2 DEF Running
<1>4. ManagerTypeOK'
  BY Zenon, <1>1, <1>2 DEF ManagerTypeOK, Steps, None
<1>5. /\ HandlersHaveOwner' /\ MappingsFollowDrivers'
      /\ \A d \in DOMAIN devices' : Running(d)' # None =>
           /\ drivers'[Running(d)'].irqs \subseteq devices'[d].info.irqs
           /\ drivers'[Running(d)'].maps \subseteq devices'[d].info.bars
  BY <1>1, <1>2, <1>3, NothingStarts, Zenon
<1>6. NoDanglingPointer' /\ active' # op.driver
  <2>1. op.driver # None
    BY Zenon, <1>2, TypeFacts DEF None
  <2> QED
    BY Zenon, <1>1, <2>1 DEF DeviceInv, NoDanglingPointer
<1> QED
  BY Zenon, <1>1, <1>2, <1>4, <1>5, <1>6 DEF DeviceInv

LEMMA ReleaseKeepsInv ==
  ASSUME DeviceInv, Release
  PROVE  DeviceInv'
<1> DEFINE n == op.driver
<1>1. /\ op.step = "release" /\ op' = [op EXCEPT !.step = "drop"] /\ UnregisterIrqs(n)
      /\ instance' = IF drivers[n].kind = "mouse" THEN None ELSE instance
      /\ UNCHANGED <<devices, drivers, live, active, mapped>>
  BY Zenon DEF Release
<1>2. /\ op'.step = "drop" /\ op'.device = op.device /\ op'.driver = n
      /\ op' \in [step : Steps, device : Nat, driver : Nat]
      /\ op.device \in DOMAIN devices /\ n \in live /\ ManagerTypeOK
      /\ n \in DOMAIN drivers /\ devices[op.device].driver = None
  <2>1. "drop" \in Steps /\ op.step # "none"
    BY Zenon, <1>1 DEF Steps
  <2> QED
    BY Zenon, <1>1, <2>1, OpStep
<1>3. idt' = idt
  <2>1. \A v \in drivers[n].irqs : idt[v] = "default"
    BY Zenon, <1>1 DEF DeviceInv
  <2>2. idt' = [v \in Vectors |-> IF v \in drivers[n].irqs THEN "default" ELSE idt[v]]
    BY Zenon, <1>1 DEF UnregisterIrqs
  <2>3. idt = [v \in Vectors |-> idt[v]]
    BY Zenon, <1>2 DEF ManagerTypeOK
  <2> QED
    BY Zenon, <2>1, <2>2, <2>3
<1>4. \A e \in DOMAIN devices' : Running(e)' = Running(e) /\ e \in DOMAIN devices
  BY Zenon, <1>1, <1>2 DEF Running
<1>5. ManagerTypeOK'
  BY Zenon, <1>1, <1>2, <1>3 DEF ManagerTypeOK, Steps, None
<1>6. /\ HandlersHaveOwner' /\ MappingsFollowDrivers'
      /\ \A d \in DOMAIN devices' : Running(d)' # None =>
           /\ drivers'[Running(d)'].irqs \subseteq devices'[d].info.irqs
           /\ drivers'[Running(d)'].maps \subseteq devices'[d].info.bars
  BY <1>1, <1>2, <1>3, <1>4, NothingStarts, Zenon
<1>7. NoDanglingPointer' /\ instance' # n
  <2>1. n # None
    BY Zenon, <1>2, TypeFacts DEF None
  <2> HIDE DEF n
  <2> QED
    BY Zenon, <1>1, <2>1 DEF DeviceInv, NoDanglingPointer
<1> QED
  BY Zenon, <1>1, <1>2, <1>3, <1>5, <1>6, <1>7 DEF DeviceInv

LEMMA DropKeepsInv ==
  ASSUME DeviceInv, Drop
  PROVE  DeviceInv'
<1>1. /\ op.step = "drop" /\ live' = live \ {op.driver} /\ op' = Idle
      /\ UNCHANGED <<devices, drivers, idt, instance, active, mapped>>
  BY Zenon DEF Drop
<1>2. /\ ManagerTypeOK /\ op.driver \in live /\ op.driver \in DOMAIN drivers
      /\ drivers[op.driver].maps = {}
  BY Zenon, <1>1 DEF DeviceInv, ManagerTypeOK
<1>3. ManagerTypeOK'
  BY Zenon, <1>1, <1>2 DEF ManagerTypeOK, Idle, None
<1>4. NoDanglingPointer'
  BY Zenon, <1>1 DEF DeviceInv, NoDanglingPointer
<1>5. op'.step = "none" /\ op'.driver = None
  BY Zenon, <1>1 DEF Idle
<1>6. \A e : Running(e)' = Running(e)
  BY Zenon, <1>1, <1>5 DEF Running
<1>7. /\ \A e, v : SharedVector(e, v)' <=> SharedVector(e, v)
      /\ \A e, p : SharedPage(e, p)' <=> SharedPage(e, p)
  BY Zenon, <1>1 DEF SharedVector, SharedPage
<1>8. HandlersHaveOwner'
  <2>1. ASSUME NEW v \in Vectors, idt'[v] # "default"
        PROVE  \E k \in live' : drivers'[k].kind = idt'[v] /\ v \in drivers'[k].irqs
    <3>1. PICK k \in live : drivers[k].kind = idt[v] /\ v \in drivers[k].irqs
      BY Zenon, <1>1, <2>1 DEF DeviceInv, HandlersHaveOwner
    <3>2. k # op.driver
      BY Zenon, <1>1, <2>1, <3>1 DEF DeviceInv
    <3> QED
      BY Zenon, <1>1, <3>1, <3>2
  <2>2. \A e \in DOMAIN devices' : Running(e)' # None =>
          \A v \in drivers'[Running(e)'].irqs :
            idt'[v] = drivers'[Running(e)'].kind \/ SharedVector(e, v)'
    BY Zenon, <1>1, <1>6, <1>7 DEF DeviceInv, HandlersHaveOwner
  <2> QED
    BY Zenon, <2>1, <2>2 DEF HandlersHaveOwner
<1>9. MappingsFollowDrivers'
  <2>1. ASSUME NEW p \in mapped' PROVE \E k \in live' : p \in BarPages(drivers'[k].maps)
    <3>1. PICK k \in live : p \in BarPages(drivers[k].maps)
      BY Zenon, <1>1, <2>1 DEF DeviceInv, MappingsFollowDrivers
    <3>2. k # op.driver
      BY Zenon, <1>2, <3>1, BarPagesType
    <3> QED
      BY Zenon, <1>1, <3>1, <3>2
  <2>2. \A e \in DOMAIN devices' : Running(e)' # None =>
          \A p \in drivers'[Running(e)'].own : p \in mapped' \/ SharedPage(e, p)'
    BY Zenon, <1>1, <1>6, <1>7 DEF DeviceInv, MappingsFollowDrivers
  <2> QED
    BY Zenon, <1>5, <2>1, <2>2 DEF MappingsFollowDrivers
<1>10. \A d \in DOMAIN devices' : Running(d)' # None =>
         /\ drivers'[Running(d)'].irqs \subseteq devices'[d].info.irqs
         /\ drivers'[Running(d)'].maps \subseteq devices'[d].info.bars
  BY Zenon, <1>1, <1>6 DEF DeviceInv
<1>11. \A d \in DOMAIN devices' : devices'[d].driver # None =>
         /\ devices'[d].driver \in live' /\ devices'[d].driver # op'.driver
         /\ \A e \in DOMAIN devices' : devices'[e].driver = devices'[d].driver => e = d
  BY Zenon, <1>1, <1>5 DEF DeviceInv
<1> QED
  BY Zenon, <1>1, <1>3, <1>4, <1>5, <1>8, <1>9, <1>10, <1>11 DEF DeviceInv

LEMMA NextDeviceInv == DeviceInv /\ [ManagerNext]_mvars => DeviceInv'
<1>1. ASSUME DeviceInv, UNCHANGED mvars PROVE DeviceInv'
  <2>1. UNCHANGED <<devices, drivers, live, idt, instance, active, mapped, op>>
    BY Zenon, <1>1 DEF mvars
  <2>2. ManagerTypeOK' /\ NoDanglingPointer'
    BY Zenon, <1>1, <2>1 DEF DeviceInv, ManagerTypeOK, NoDanglingPointer
  <2>3. /\ \A d : Running(d)' = Running(d)
        /\ \A d, v : SharedVector(d, v)' <=> SharedVector(d, v)
    BY Zenon, <2>1 DEF Running, SharedVector
  <2>4. HandlersHaveOwner'
    BY Zenon, <1>1, <2>1, <2>3 DEF DeviceInv, HandlersHaveOwner
  <2>5. MappingsFollowDrivers'
    BY Zenon, <1>1, <2>1 DEF DeviceInv, MappingsFollowDrivers, Running, SharedPage
  <2> QED
    BY Zenon, <1>1, <2>1, <2>2, <2>3, <2>4, <2>5 DEF DeviceInv
<1> QED
  BY Zenon, <1>1, RegisterKeepsInv, MergeKeepsInv, AttachKeepsInv, RecordKeepsInv, StopKeepsInv,
     ClearBoxKeepsInv, UnmapPagesKeepsInv, ClearPointerKeepsInv, ReleaseKeepsInv, DropKeepsInv
     DEF ManagerNext, Faulted

THEOREM DeviceInductive == ManagerSpec => []DeviceInv
  BY InitDeviceInv, NextDeviceInv, PTL DEF ManagerSpec

-----------------------------------------------------------------------------
(* What the run checks, for every instance.                                *)

(* The mouse handler and the console never follow a pointer to a driver    *)
(* that was dropped: stop() and release() clear both before the Box goes.  *)
THEOREM PointersNeverDangle == ManagerSpec => []NoDanglingPointer
<1>1. DeviceInv => NoDanglingPointer
  BY Zenon DEF DeviceInv
<1> QED
  BY <1>1, DeviceInductive, PTL

(* No vector keeps the handler of a driver that is gone, also when two     *)
(* drivers of one kind registered it or resources were merged in between;  *)
(* and a running driver loses a vector only to a device that claims it too.*)
THEOREM HandlersNeverOrphaned == ManagerSpec => []HandlersHaveOwner
<1>1. DeviceInv => HandlersHaveOwner
  BY Zenon DEF DeviceInv
<1> QED
  BY <1>1, DeviceInductive, PTL

(* No framebuffer page stays mapped without a driver that has it recorded; *)
(* stop() takes no page from another running display unless their BARs     *)
(* overlap; and its clearing of the test box faults only past what the     *)
(* driver mapped and the boot loader maps.                                 *)
THEOREM MappingsNeverLeak == ManagerSpec => []MappingsFollowDrivers
<1>1. DeviceInv => MappingsFollowDrivers
  BY Zenon DEF DeviceInv
<1> QED
  BY <1>1, DeviceInductive, PTL

-----------------------------------------------------------------------------
(* The mouse: types.                                                       *)

(* Bytes are bytes.                                                        *)
LEMMA ByteType ==
  ASSUME NEW k \in Kinds, NEW n \in Nat
  PROVE  Byte(k, n) \in Bytes /\ Byte(k, n).kind = k /\ Byte(k, n).n = n
  BY Zenon DEF Byte, Bytes

(* A write to the controller, the read of its data, and what it does with  *)
(* a command keep its type.                                                *)
LEMMA ControllerType ==
  ASSUME NEW k \in Controllers
  PROVE  /\ \A c \in Commands : [k EXCEPT !.input = <<c>>] \in Controllers
         /\ [k EXCEPT !.full = FALSE] \in Controllers
         /\ [k EXCEPT !.input = <<>>, !.next = "none"] \in Controllers
         /\ [k EXCEPT !.aux = TRUE] \in Controllers
         /\ \A x \in {"config", "mouse"} : [k EXCEPT !.next = x] \in Controllers
         /\ \A b \in Bytes : [k EXCEPT !.full = TRUE, !.data = b] \in Controllers
         /\ \A o \in {"kept", "junk"} :
              [k EXCEPT !.input = <<>>, !.next = "none", !.aux_irq = TRUE,
                        !.others = o] \in Controllers
  BY Zenon DEF Controllers

(* The initial state has the types.                                        *)
LEMMA InitTypeOK == Init => TypeOK
<1> SUFFICES ASSUME Init PROVE TypeOK
  BY Zenon
<1>1. kbc \in Controllers
  <2>1. Byte("scancode", 0) \in Bytes
    BY Zenon, ByteType DEF Kinds
  <2>2. {Byte("scancode", 0)} \subseteq Bytes
    BY Zenon, <2>1
  <2> HIDE DEF Byte
  <2> QED
    BY Zenon, <2>2 DEF Init, Controllers
<1>2. line \in [{1, 12} -> BOOLEAN]
  BY Zenon DEF Init
<1>3. mouse \in [out : Seq(Bytes), reporting : BOOLEAN, moves : 0 .. MaxMoves]
  BY Bounds DEF Init
<1>4. /\ drv \in [state : 0 .. 2, buf : Seq(Bytes)] /\ Len(drv.buf) = drv.state
      /\ queue \in [ready : BOOLEAN, pushed : Seq(Seq(Bytes))]
  BY DEF Init
<1>5. 1 \in 1 .. Retries
  BY Bounds
<1> QED
  BY <1>1, <1>2, <1>3, <1>4, <1>5, Zenon DEF Init, TypeOK, Polling

(* wait_input_clear and its write.                                         *)
LEMMA WriteType ==
  ASSUME TypeOK, NEW c \in Commands, NEW d, NEW f, Write(c, d, f)
  PROVE  kbc' \in Controllers /\ pc' \in {d, f}
<1>1. kbc \in Controllers
  BY Zenon DEF TypeOK
<1>2. kbc' = [kbc EXCEPT !.input = <<c>>] \/ kbc' = kbc
  BY Zenon DEF Write
<1>3. pc' \in {d, f}
  BY Zenon DEF Write, Goto
<1> QED
  BY <1>1, <1>2, <1>3, ControllerType, Zenon

(* start() and main keep the types.                                        *)
LEMMA KernelTypeOK == TypeOK /\ Kernel => TypeOK'
<1> SUFFICES ASSUME TypeOK, Kernel PROVE TypeOK'
  BY Zenon
<1>a. ASSUME kbc' \in Controllers, pc' \in Polling \cup {"started", "spawn", "run"},
             attempt' = attempt, want' \in {"kept", "junk"}, success' \in BOOLEAN,
             UNCHANGED <<driver, outside>>
      PROVE  TypeOK'
  BY <1>a, Zenon DEF TypeOK, driver, outside
<1>r. kbc \in Controllers /\ [kbc EXCEPT !.full = FALSE] \in Controllers
  BY ControllerType, Zenon DEF TypeOK
<1>w. want \in {"kept", "junk"} /\ success \in BOOLEAN
  BY Zenon DEF TypeOK
<1>1. CASE EnableAux
  <2>1. kbc' \in Controllers /\ pc' \in {"flush"}
    BY Zenon, <1>1, WriteType DEF EnableAux, Commands
  <2> QED
    BY <1>1, <1>a, <1>w, <2>1, Zenon DEF EnableAux, Polling
<1>2. CASE Flush
  <2>1. kbc' \in Controllers /\ pc' \in {"flush", "config_cmd"}
    BY <1>2, <1>r, Zenon DEF Flush, ReadData, Goto
  <2> QED
    BY <1>2, <1>a, <1>w, <2>1, Zenon DEF Flush, Polling
<1>3. CASE ConfigCmd
  <2>1. kbc' \in Controllers /\ pc' \in {"config_wait", "mouse_cmd"}
    BY Zenon, <1>3, WriteType DEF ConfigCmd, Commands
  <2> QED
    BY <1>3, <1>a, <1>w, <2>1, Zenon DEF ConfigCmd, Polling
<1>4. CASE ConfigWait
  <2>1. kbc' \in Controllers /\ pc' \in {"config_read", "mouse_cmd"}
    BY <1>4, <1>r, Zenon DEF ConfigWait, Wait, Goto, env
  <2> QED
    BY <1>4, <1>a, <1>w, <2>1, Zenon DEF ConfigWait, Polling, env
<1>5. CASE ConfigRead
  <2>1. kbc' \in Controllers /\ pc' \in {"mouse_cmd", "config_back"}
    BY <1>5, <1>r, Zenon DEF ConfigRead, ReadData, Goto
  <2>2. want' \in {"kept", "junk"}
    BY <1>5, Zenon DEF ConfigRead
  <2> QED
    BY <1>5, <1>a, <1>w, <2>1, <2>2, Zenon DEF ConfigRead, Polling
<1>6. CASE ConfigBack
  <2>1. kbc' \in Controllers /\ pc' \in {"config_data", "mouse_cmd"}
    BY Zenon, <1>6, WriteType DEF ConfigBack, Commands
  <2> QED
    BY <1>6, <1>a, <1>w, <2>1, Zenon DEF ConfigBack, Polling
<1>7. CASE ConfigData
  <2>1. kbc' \in Controllers /\ pc' \in {"mouse_cmd"}
    BY Zenon, <1>7, <1>w, WriteType DEF ConfigData, Commands
  <2> QED
    BY <1>7, <1>a, <1>w, <2>1, Zenon DEF ConfigData, Polling
<1>8. CASE MouseCmd
  <2>1. kbc' \in Controllers /\ pc' \in {"mouse_data", "retry"}
    BY Zenon, <1>8, WriteType DEF MouseCmd, Commands
  <2> QED
    BY <1>8, <1>a, <1>w, <2>1, Zenon DEF MouseCmd, Polling
<1>9. CASE MouseData
  <2>1. kbc' \in Controllers /\ pc' \in {"ack_wait", "retry"}
    BY Zenon, <1>9, WriteType DEF MouseData, Commands
  <2> QED
    BY <1>9, <1>a, <1>w, <2>1, Zenon DEF MouseData, Polling
<1>10. CASE AckWait
  <2>1. kbc' \in Controllers /\ pc' \in {"ack_read", "retry"}
    BY <1>10, <1>r, Zenon DEF AckWait, Wait, Goto, env
  <2> QED
    BY <1>10, <1>a, <1>w, <2>1, Zenon DEF AckWait, Polling, env
<1>11. CASE AckRead
  <2>1. kbc' \in Controllers /\ pc' \in {"started", "retry"} /\ success' \in BOOLEAN
    BY <1>11, <1>r, <1>w, Zenon DEF AckRead, ReadData, Goto
  <2> QED
    BY <1>11, <1>a, <1>w, <2>1, Zenon DEF AckRead, Polling
<1>12. CASE Retry
  <2>1. attempt' \in 1 .. Retries
    <3>1. attempt \in 1 .. Retries
      BY Zenon DEF TypeOK
    <3> QED
      BY <1>12, <3>1, Bounds DEF Retry
  <2>2. pc' \in {"mouse_cmd", "started"}
    BY <1>12, Zenon DEF Retry, Goto
  <2> QED
    BY <1>12, <2>1, <2>2, Zenon DEF Retry, TypeOK, Polling, driver, env, outside
<1>13. CASE UnmaskGsi
  <2>1. line' \in [{1, 12} -> BOOLEAN]
    BY Zenon, <1>13 DEF UnmaskGsi, TypeOK
  <2> QED
    BY <1>13, <2>1, Zenon DEF UnmaskGsi, TypeOK, Goto, driver
<1>14. CASE FirstPoll
  <2>1. queue' \in [ready : BOOLEAN, pushed : Seq(Seq(Bytes))]
    BY <1>14, Zenon DEF FirstPoll, TypeOK
  <2> QED
    BY <1>14, <2>1, Zenon DEF FirstPoll, TypeOK, Goto, env, outside
<1> QED
  BY Zenon, <1>1, <1>2, <1>3, <1>4, <1>5, <1>6, <1>7, <1>8, <1>9, <1>10, <1>11, <1>12,
     <1>13, <1>14, Zenon DEF Kernel

(* The elements of a concatenation.                                        *)
LEMMA Concatenation ==
  ASSUME NEW S, NEW s \in Seq(S), NEW t \in Seq(S)
  PROVE  /\ s \o t \in Seq(S) /\ Len(s \o t) = Len(s) + Len(t)
         /\ DOMAIN (s \o t) = 1 .. (Len(s) + Len(t))
         /\ \A i \in 1 .. Len(s) : (s \o t)[i] = s[i]
         /\ \A i \in (Len(s) + 1) .. (Len(s) + Len(t)) : (s \o t)[i] = t[i - Len(s)]
  OBVIOUS

(* A third element after two.                                              *)
LEMMA ThirdElement ==
  ASSUME NEW S, NEW s \in Seq(S), Len(s) = 2, NEW b \in S
  PROVE  /\ s \o <<b>> \in Seq(S) /\ Len(s \o <<b>>) = 3
         /\ (s \o <<b>>)[1] = s[1] /\ (s \o <<b>>)[2] = s[2] /\ (s \o <<b>>)[3] = b
<1>1. <<b>> \in Seq(S) /\ Len(<<b>>) = 1 /\ <<b>>[1] = b
  OBVIOUS
<1>2. PICK t \in Seq(S) : t = <<b>>
  BY <1>1, Zenon
<1>3. Len(t) = 1 /\ t[1] = b
  BY <1>1, <1>2, Zenon
<1>4. /\ 1 \in 1 .. Len(s) /\ 2 \in 1 .. Len(s) /\ Len(s) + Len(t) = 3
      /\ 3 \in (Len(s) + 1) .. (Len(s) + Len(t)) /\ 3 - Len(s) = 1
  BY <1>3
<1>5. s \o t \in Seq(S) /\ Len(s \o t) = 3
  <2>1. s \o t \in Seq(S) /\ Len(s \o t) = Len(s) + Len(t)
    BY Concatenation, Zenon
  <2> QED
    BY <1>4, <2>1, Zenon
<1>6. (s \o t)[1] = s[1] /\ (s \o t)[2] = s[2] /\ (s \o t)[3] = t[3 - Len(s)]
  BY <1>4, Concatenation, Zenon
<1> QED
  BY <1>2, <1>3, <1>4, <1>5, <1>6, Zenon

(* A packet byte keeps the driver's types.                                 *)
LEMMA CollectType ==
  ASSUME TypeOK, NEW b \in Bytes, Collect(b)
  PROVE  /\ drv' \in [state : 0 .. 2, buf : Seq(Bytes)] /\ Len(drv'.buf) = drv'.state
         /\ queue' \in [ready : BOOLEAN, pushed : Seq(Seq(Bytes))]
<1>1. /\ drv.state \in 0 .. 2 /\ drv.buf \in Seq(Bytes) /\ Len(drv.buf) = drv.state
      /\ drv \in [state : 0 .. 2, buf : Seq(Bytes)]
      /\ queue \in [ready : BOOLEAN, pushed : Seq(Seq(Bytes))]
      /\ queue.pushed \in Seq(Seq(Bytes))
  BY Zenon DEF TypeOK
<1>2. CASE drv.state = 0
  <2>1. \/ drv' = [state |-> 1, buf |-> <<b>>] /\ queue' = queue
        \/ drv' = drv /\ queue' = queue
    <3>1. drv.state # 1 /\ drv.state # 2
      BY <1>2
    <3> QED
      BY <3>1, Zenon DEF Collect
  <2>2. CASE drv' = [state |-> 1, buf |-> <<b>>] /\ queue' = queue
    <3>1. <<b>> \in Seq(Bytes) /\ Len(<<b>>) = 1
      OBVIOUS
    <3>2. drv'.state = 1 /\ drv'.buf = <<b>>
      BY Zenon, <2>2
    <3>3. drv' \in [state : 0 .. 2, buf : Seq(Bytes)]
      BY <2>2, <3>1
    <3> QED
      BY Zenon, <1>1, <2>2, <3>1, <3>2, <3>3
  <2>3. CASE drv' = drv /\ queue' = queue
    BY <1>1, <2>3, Zenon
  <2> QED
    BY Zenon, <2>1, <2>2, <2>3
<1>3. CASE drv.state = 1
  <2>1. drv' = [state |-> 2, buf |-> <<drv.buf[1], b>>] /\ queue' = queue
    BY <1>3 DEF Collect
  <2>2. drv.buf[1] \in Bytes
    BY <1>1, <1>3
  <2> QED
    BY <1>1, <2>1, <2>2
<1>4. CASE drv.state = 2
  <2>1. /\ drv' = [state |-> 0, buf |-> <<>>]
        /\ \/ queue' = queue
           \/ queue' = [queue EXCEPT !.pushed = Append(@, drv.buf \o <<b>>)]
    BY <1>4 DEF Collect
  <2>2. drv.buf \o <<b>> \in Seq(Bytes)
    <3>1. <<b>> \in Seq(Bytes)
      OBVIOUS
    <3> QED
      BY <1>1, <3>1
  <2>3. Append(queue.pushed, drv.buf \o <<b>>) \in Seq(Seq(Bytes))
    <3> DEFINE p == drv.buf \o <<b>>
    <3>1. p \in Seq(Bytes)
      BY Zenon, <2>2
    <3> HIDE DEF p
    <3>2. Append(queue.pushed, p) \in Seq(Seq(Bytes))
      BY <1>1, <3>1
    <3> QED
      BY Zenon, <3>2 DEF p
  <2>4. queue' \in [ready : BOOLEAN, pushed : Seq(Seq(Bytes))]
    <3> DEFINE s == Append(queue.pushed, drv.buf \o <<b>>)
    <3>1. s \in Seq(Seq(Bytes))
      BY Zenon, <2>3
    <3>2. queue' = queue \/ queue' = [queue EXCEPT !.pushed = s]
      BY Zenon, <2>1
    <3> HIDE DEF s
    <3> QED
      BY <1>1, <3>1, <3>2, Zenon
  <2> QED
    BY <2>1, <2>4
<1> QED
  BY <1>1, <1>2, <1>3, <1>4

(* The handlers, the controller and the mouse keep the types.              *)
LEMMA HardwareTypeOK ==
  ASSUME TypeOK, MouseIrq \/ KbdIrq \/ Hardware \/ MouseMove
  PROVE  TypeOK'
<1>k. kbc \in Controllers /\ kbc.data \in Bytes
  BY Zenon DEF TypeOK, Controllers
<1>m. /\ mouse \in [out : Seq(Bytes), reporting : BOOLEAN, moves : 0 .. MaxMoves]
      /\ mouse.out \in Seq(Bytes) /\ mouse.moves \in 0 .. MaxMoves
  BY Zenon DEF TypeOK
<1>b. /\ Byte("ack", 0) \in Bytes /\ Byte("resend", 0) \in Bytes
      /\ Byte("config", 0) \in Bytes
      /\ \A n \in Nat : /\ Byte("header", n) \in Bytes /\ Byte("x", n) \in Bytes
                        /\ Byte("y", n) \in Bytes
  BY Zenon, ByteType DEF Kinds
<1>r. ASSUME NEW i \in {1, 12}, NEW e, Raise(i, e) PROVE pending' \subseteq {1, 12}
  <2>1. pending' = pending \cup {i} \/ pending' = pending
    BY <1>r, Zenon DEF Raise
  <2> QED
    BY <2>1, Zenon DEF TypeOK
<1>1. CASE MouseIrq
  <2>1. kbc' \in Controllers /\ pending' \subseteq {1, 12}
    BY <1>1, <1>k, ControllerType, Zenon DEF MouseIrq, ReadData, TypeOK
  <2>2. /\ drv' \in [state : 0 .. 2, buf : Seq(Bytes)] /\ Len(drv'.buf) = drv'.state
        /\ queue' \in [ready : BOOLEAN, pushed : Seq(Seq(Bytes))]
    BY Zenon, <1>1, <1>k, CollectType DEF MouseIrq
  <2> QED
    BY <1>1, <2>1, <2>2, Zenon DEF MouseIrq, TypeOK
<1>2. CASE KbdIrq
  <2>1. kbc' \in Controllers /\ pending' \subseteq {1, 12}
    BY <1>2, <1>k, ControllerType, Zenon DEF KbdIrq, ReadData, TypeOK
  <2> QED
    BY <1>2, <2>1, Zenon DEF KbdIrq, TypeOK, driver
<1>3. CASE Command
  <2> DEFINE k == [kbc EXCEPT !.input = <<>>, !.next = "none"]
  <2>1. k \in Controllers
    BY <1>k, ControllerType, Zenon
  <2>2. \/ kbc' = [k EXCEPT !.aux = TRUE] /\ pending' = pending
        \/ kbc' = [k EXCEPT !.next = "config"] /\ pending' = pending
        \/ kbc' = [k EXCEPT !.next = "mouse"] /\ pending' = pending
        \/ /\ kbc' = [k EXCEPT !.full = TRUE, !.data = Byte("config", 0)]
           /\ Raise(1, kbc.kbd_irq)
    BY <1>3, Zenon DEF Command
  <2> HIDE DEF k
  <2>3. kbc' \in Controllers
    BY <1>b, <2>1, <2>2, ControllerType, Zenon
  <2>4. pending' \subseteq {1, 12}
    BY Zenon, <1>r, <2>2 DEF TypeOK
  <2> QED
    BY <1>3, <2>3, <2>4, Zenon DEF Command, TypeOK, driver
<1>4. CASE NewConfig
  <2>1. Head(kbc.input) \in {"kept", "junk"}
    BY <1>4 DEF NewConfig
  <2>2. kbc' \in Controllers
    BY <1>4, <1>k, <2>1, ControllerType, Zenon DEF NewConfig
  <2> QED
    BY <1>4, <2>2, Zenon DEF NewConfig, TypeOK, driver, outside
<1>5. CASE ToMouse
  <2>1. kbc' \in Controllers
    BY <1>5, <1>k, ControllerType, Zenon DEF ToMouse
  <2>2. mouse' \in [out : Seq(Bytes), reporting : BOOLEAN, moves : 0 .. MaxMoves]
    <3>1. PICK b \in {Byte("ack", 0), Byte("resend", 0)} :
            \/ mouse' = [mouse EXCEPT !.reporting = TRUE, !.out = Append(@, b)]
            \/ mouse' = [mouse EXCEPT !.out = Append(@, b)]
      BY <1>5, Zenon DEF ToMouse
    <3>2. Append(mouse.out, b) \in Seq(Bytes)
      <4>1. b \in Bytes
        BY Zenon, <1>b, <3>1
      <4> QED
        BY <1>m, <4>1
    <3> QED
      BY <1>m, <3>1, <3>2, Zenon
  <2> QED
    BY <1>5, <2>1, <2>2, Zenon DEF ToMouse, TypeOK, driver
<1>6. CASE MouseSend
  <2>1. mouse.out # <<>> /\ kbc' = [kbc EXCEPT !.full = TRUE, !.data = Head(mouse.out)]
    BY Zenon, <1>6 DEF MouseSend
  <2>2. Head(mouse.out) \in Bytes /\ Tail(mouse.out) \in Seq(Bytes)
    BY <1>m, <2>1
  <2>3. kbc' \in Controllers
    BY <1>k, <2>1, <2>2, ControllerType, Zenon
  <2>4. mouse' \in [out : Seq(Bytes), reporting : BOOLEAN, moves : 0 .. MaxMoves]
    BY <1>6, <1>m, <2>2, Zenon DEF MouseSend
  <2>5. pending' \subseteq {1, 12}
    BY Zenon, <1>6, <1>r DEF MouseSend
  <2> QED
    BY <1>6, <2>3, <2>4, <2>5, Zenon DEF MouseSend, TypeOK, driver
<1>7. CASE MouseMove
  <2> DEFINE p == <<Byte("header", mouse.moves), Byte("x", mouse.moves),
                    Byte("y", mouse.moves)>>
  <2>1. p \in Seq(Bytes)
    <3>1. /\ Byte("header", mouse.moves) \in Bytes /\ Byte("x", mouse.moves) \in Bytes
          /\ Byte("y", mouse.moves) \in Bytes
      BY <1>b, <1>m
    <3> QED
      BY <3>1
  <2>2. mouse.moves + 1 \in 0 .. MaxMoves
    BY <1>7, <1>m, Bounds DEF MouseMove
  <2>3. mouse' = [mouse EXCEPT !.moves = @ + 1, !.out = @ \o p]
    BY <1>7, Zenon DEF MouseMove
  <2> HIDE DEF p
  <2>4. mouse.out \o p \in Seq(Bytes)
    BY <1>m, <2>1
  <2>5. mouse' \in [out : Seq(Bytes), reporting : BOOLEAN, moves : 0 .. MaxMoves]
    BY <1>m, <2>2, <2>3, <2>4, Zenon
  <2> QED
    BY <1>7, <2>5, Zenon DEF MouseMove, TypeOK, driver
<1> QED
  BY <1>1, <1>2, <1>3, <1>4, <1>5, <1>6, <1>7, Zenon DEF Hardware

(* Every step keeps the types.                                             *)
LEMMA NextTypeOK == TypeOK /\ [Next]_vars => TypeOK'
<1>1. TypeOK /\ UNCHANGED vars => TypeOK'
  BY Zenon DEF TypeOK, vars
<1> QED
  BY <1>1, KernelTypeOK, HardwareTypeOK, Zenon DEF Next

(* Every state has the types.                                              *)
THEOREM MouseTypes == Spec => []TypeOK
  BY InitTypeOK, NextTypeOK, PTL DEF Spec

-----------------------------------------------------------------------------
(* The answers that start() takes.                                         *)

(* What a write and a read of the data port leave of the controller.       *)
LEMMA ControllerFields ==
  ASSUME NEW k \in Controllers
  PROVE  /\ \A c : LET n == [k EXCEPT !.input = c]
                   IN n.input = c /\ n.full = k.full /\ n.data = k.data
                      /\ n.others = k.others /\ n.aux = k.aux
         /\ LET n == [k EXCEPT !.full = FALSE]
            IN n.input = k.input /\ ~n.full /\ n.data = k.data
               /\ n.others = k.others /\ n.aux = k.aux
  BY Zenon DEF Controllers

(* A write: the byte is in the input buffer, or nothing has changed.       *)
LEMMA WriteFields ==
  ASSUME TypeOK, NEW c, NEW d, NEW f, Write(c, d, f)
  PROVE  /\ kbc'.full = kbc.full /\ kbc'.data = kbc.data /\ kbc'.others = kbc.others
         /\ kbc'.aux = kbc.aux
         /\ \/ kbc.input = <<>> /\ kbc'.input = <<c>> /\ pc' = d
            \/ kbc.input # <<>> /\ ~prompt /\ kbc' = kbc /\ pc' = f
<1>1. kbc \in Controllers
  BY Zenon DEF TypeOK
<1>2. CASE kbc.input = <<>> /\ kbc' = [kbc EXCEPT !.input = <<c>>] /\ pc' = d
  BY Zenon, <1>1, <1>2, ControllerFields
<1>3. CASE kbc.input # <<>> /\ ~prompt /\ kbc' = kbc /\ pc' = f
  BY Zenon, <1>3
<1> QED
  BY Zenon, <1>2, <1>3 DEF Write, Goto

(* A read: the byte is gone from the port.                                 *)
LEMMA ReadFields ==
  ASSUME TypeOK, ReadData
  PROVE  /\ ~kbc'.full /\ kbc'.data = kbc.data /\ kbc'.others = kbc.others
         /\ kbc'.aux = kbc.aux /\ kbc'.input = kbc.input
<1>1. kbc \in Controllers
  BY Zenon DEF TypeOK
<1> QED
  BY Zenon, <1>1, ControllerFields DEF ReadData

(* No byte starts an answer in the initial state.                          *)
LEMMA InitAnswer == Init => AnswerInv
<1> SUFFICES ASSUME Init PROVE AnswerInv
  BY Zenon
<1>1. Byte("scancode", 0).kind = "scancode"
  BY Zenon DEF Byte
<1>2. /\ kbc.data = Byte("scancode", 0) /\ kbc.input = <<>> /\ kbc.others = "kept"
      /\ mouse.out = <<>> /\ ~mouse.reporting /\ ~success
      /\ pc = "enable_aux" /\ want = "kept"
  BY Zenon DEF Init
<1>3. <<>> # <<"F4">> /\ <<>> # <<"junk">> /\ DOMAIN <<>> = {}
  OBVIOUS
<1> HIDE DEF Byte
<1> QED
  BY Zenon, <1>1, <1>2, <1>3 DEF AnswerInv, Telling, Leftover

(* start() takes only answers: the leftover is flushed, and what it writes *)
(* back is the config byte.                                                *)
LEMMA KernelAnswer == TypeOK /\ AnswerInv /\ Kernel => AnswerInv'
<1> SUFFICES ASSUME TypeOK, AnswerInv, Kernel PROVE AnswerInv'
  BY Zenon
<1> DEFINE early == {"enable_aux", "flush", "config_cmd", "config_wait", "config_read",
                     "config_back", "config_data"}
<1>a. ASSUME mouse' = mouse, kbc'.data = kbc.data, kbc'.others = kbc.others,
             success' => success \/ mouse.reporting,
             kbc'.full => kbc.full /\ (pc' \in {"enable_aux", "flush"} \/
                                       pc \notin {"enable_aux", "flush"}),
             pc' \in {"config_read", "ack_read"} => kbc.full /\ pc \notin {"enable_aux", "flush"},
             pc' \in early => pc \in early /\ kbc'.input # <<"F4">>,
             want' = "kept", kbc'.input # <<"junk">>
      PROVE  AnswerInv'
  BY Zenon, <1>a DEF AnswerInv, Telling, Leftover
<1>f. /\ <<"A8">> # <<"F4">> /\ <<"20">> # <<"F4">> /\ <<"60">> # <<"F4">>
      /\ <<"A8">> # <<"junk">> /\ <<"20">> # <<"junk">> /\ <<"60">> # <<"junk">>
      /\ <<"kept">> # <<"junk">> /\ <<"D4">> # <<"junk">> /\ <<"F4">> # <<"junk">>
  BY Zenon
<1>i. /\ want = "kept" /\ kbc.input # <<"junk">>
      /\ pc \in early => kbc.input # <<"F4">>
      /\ success => mouse.reporting
  BY Zenon DEF AnswerInv
<1> HIDE DEF early
<1>1. CASE EnableAux
  <2>1. Write("A8", "flush", "flush")
    BY Zenon, <1>1 DEF EnableAux
  <2>2. pc = "enable_aux" /\ UNCHANGED <<mouse, success, want>>
    BY Zenon, <1>1 DEF EnableAux, outside
  <2> QED
    BY <1>a, <1>f, <1>i, <2>1, <2>2, WriteFields DEF early
<1>2. CASE Flush
  <2>1. pc = "flush" /\ UNCHANGED <<mouse, success, want>>
    BY Zenon, <1>2 DEF Flush, outside
  <2>2. \/ kbc.full /\ ReadData /\ pc' = pc
        \/ ~kbc.full /\ kbc' = kbc /\ pc' = "config_cmd"
    BY Zenon, <1>2 DEF Flush, Goto
  <2> QED
    BY Zenon, <1>a, <1>i, <2>1, <2>2, ReadFields DEF early
<1>3. CASE ConfigCmd
  <2>1. Write("20", "config_wait", "mouse_cmd")
    BY Zenon, <1>3 DEF ConfigCmd
  <2>2. pc = "config_cmd" /\ UNCHANGED <<mouse, success, want>>
    BY Zenon, <1>3 DEF ConfigCmd, outside
  <2> QED
    BY <1>a, <1>f, <1>i, <2>1, <2>2, WriteFields DEF early
<1>4. CASE ConfigWait
  <2>1. pc = "config_wait" /\ UNCHANGED <<mouse, success, want, kbc>>
    BY Zenon, <1>4 DEF ConfigWait, outside, env
  <2>2. (kbc.full /\ pc' = "config_read") \/ pc' = "mouse_cmd"
    BY Zenon, <1>4 DEF ConfigWait, Wait, Goto
  <2> QED
    BY Zenon, <1>a, <1>i, <2>1, <2>2 DEF early
<1>5. CASE ConfigRead
  <2>1. pc = "config_read" /\ ReadData /\ UNCHANGED <<mouse, success>>
    BY Zenon, <1>5 DEF ConfigRead, outside
  <2>2. kbc.data.kind = "config"
    BY Zenon, <2>1 DEF AnswerInv, Leftover
  <2>3. want' = "kept" /\ pc' \in {"mouse_cmd", "config_back"}
    BY Zenon, <1>5, <2>2 DEF ConfigRead, Goto
  <2> QED
    BY Zenon, <1>a, <1>i, <2>1, <2>3, ReadFields DEF early
<1>6. CASE ConfigBack
  <2>1. Write("60", "config_data", "mouse_cmd")
    BY Zenon, <1>6 DEF ConfigBack
  <2>2. pc = "config_back" /\ UNCHANGED <<mouse, success, want>>
    BY Zenon, <1>6 DEF ConfigBack, outside
  <2> QED
    BY <1>a, <1>f, <1>i, <2>1, <2>2, WriteFields DEF early
<1>7. CASE ConfigData
  <2>1. Write("kept", "mouse_cmd", "mouse_cmd")
    BY Zenon, <1>7, <1>i DEF ConfigData
  <2>2. pc = "config_data" /\ UNCHANGED <<mouse, success, want>>
    BY Zenon, <1>7 DEF ConfigData, outside
  <2> QED
    BY <1>a, <1>f, <1>i, <2>1, <2>2, WriteFields DEF early
<1>8. CASE MouseCmd
  <2>1. Write("D4", "mouse_data", "retry")
    BY Zenon, <1>8 DEF MouseCmd
  <2>2. pc = "mouse_cmd" /\ UNCHANGED <<mouse, success, want>>
    BY Zenon, <1>8 DEF MouseCmd, outside
  <2> QED
    BY <1>a, <1>f, <1>i, <2>1, <2>2, WriteFields DEF early
<1>9. CASE MouseData
  <2>1. Write("F4", "ack_wait", "retry")
    BY Zenon, <1>9 DEF MouseData
  <2>2. pc = "mouse_data" /\ UNCHANGED <<mouse, success, want>>
    BY Zenon, <1>9 DEF MouseData, outside
  <2> QED
    BY <1>a, <1>f, <1>i, <2>1, <2>2, WriteFields DEF early
<1>10. CASE AckWait
  <2>1. pc = "ack_wait" /\ UNCHANGED <<mouse, success, want, kbc>>
    BY Zenon, <1>10 DEF AckWait, outside, env
  <2>2. (kbc.full /\ pc' = "ack_read") \/ pc' = "retry"
    BY Zenon, <1>10 DEF AckWait, Wait, Goto
  <2> QED
    BY Zenon, <1>a, <1>i, <2>1, <2>2 DEF early
<1>11. CASE AckRead
  <2>1. pc = "ack_read" /\ ReadData /\ UNCHANGED <<mouse, want>>
    BY Zenon, <1>11 DEF AckRead, outside
  <2>2. pc' \in {"started", "retry"}
    BY Zenon, <1>11 DEF AckRead, Goto
  <2>3. success' => success \/ Telling(kbc.data)
    <3>1. kbc.data.kind # "scancode"
      BY Zenon, <2>1 DEF AnswerInv, Leftover
    <3> QED
      BY <1>11, <3>1, Zenon DEF AckRead, Telling
  <2>4. success' => success \/ mouse.reporting
    BY Zenon, <2>3 DEF AnswerInv
  <2> QED
    BY Zenon, <1>a, <1>i, <2>1, <2>2, <2>4, ReadFields DEF early
<1>12. CASE Retry
  <2>1. UNCHANGED <<mouse, success, want, kbc>> /\ pc = "retry"
    BY Zenon, <1>12 DEF Retry, outside, env
  <2>2. pc' \in {"mouse_cmd", "started"}
    BY Zenon, <1>12 DEF Retry, Goto
  <2> QED
    BY Zenon, <1>a, <1>i, <2>1, <2>2 DEF early
<1>13. CASE UnmaskGsi
  <2>1. UNCHANGED <<mouse, success, want, kbc>> /\ pc = "started" /\ pc' = "spawn"
    BY Zenon, <1>13 DEF UnmaskGsi, Goto
  <2> QED
    BY Zenon, <1>a, <1>i, <2>1 DEF early
<1>14. CASE FirstPoll
  <2>1. UNCHANGED <<mouse, success, want, kbc>> /\ pc = "spawn" /\ pc' = "run"
    BY Zenon, <1>14 DEF FirstPoll, Goto, outside, env
  <2> QED
    BY Zenon, <1>a, <1>i, <2>1 DEF early
<1> QED
  BY Zenon, <1>1, <1>2, <1>3, <1>4, <1>5, <1>6, <1>7, <1>8, <1>9, <1>10, <1>11, <1>12,
     <1>13, <1>14, Zenon DEF Kernel

(* What the controller makes of a byte in its input buffer.                *)
LEMMA CommandFields ==
  ASSUME TypeOK, Command
  PROVE  /\ kbc.input # <<>> /\ kbc'.input = <<>> /\ kbc'.others = kbc.others
         /\ \/ /\ Head(kbc.input) = "20" /\ ~kbc.full /\ kbc'.full
               /\ kbc'.data = Byte("config", 0) /\ kbc'.aux = kbc.aux
               /\ Raise(1, kbc.kbd_irq)
            \/ /\ Head(kbc.input) # "20" /\ kbc'.full = kbc.full /\ kbc'.data = kbc.data
               /\ pending' = pending
               /\ kbc'.aux = IF Head(kbc.input) = "A8" THEN TRUE ELSE kbc.aux
         /\ kbc.input \in {<<"A8">>, <<"20">>, <<"60">>, <<"D4">>}
         /\ UNCHANGED <<pc, attempt, want, success, driver, mouse, line, lines0, prompt>>
<1> DEFINE k == [kbc EXCEPT !.input = <<>>, !.next = "none"]
<1>1. kbc \in Controllers /\ k \in Controllers
  BY ControllerType, Zenon DEF TypeOK
<1>2. /\ k.input = <<>> /\ k.others = kbc.others /\ k.full = kbc.full
      /\ k.data = kbc.data /\ k.aux = kbc.aux
  BY Zenon, <1>1 DEF Controllers
<1>3. LET c == Head(kbc.input)
      IN \/ c = "A8" /\ kbc' = [k EXCEPT !.aux = TRUE] /\ pending' = pending
         \/ c = "60" /\ kbc' = [k EXCEPT !.next = "config"] /\ pending' = pending
         \/ c = "D4" /\ kbc' = [k EXCEPT !.next = "mouse"] /\ pending' = pending
         \/ /\ c = "20" /\ ~kbc.full
            /\ kbc' = [k EXCEPT !.full = TRUE, !.data = Byte("config", 0)]
            /\ Raise(1, kbc.kbd_irq)
  BY Zenon DEF Command
<1> HIDE DEF k
<1>4. kbc.input # <<>>
      /\ UNCHANGED <<pc, attempt, want, success, driver, mouse, line, lines0, prompt>>
  BY Zenon DEF Command
<1>5. PICK c \in Commands : kbc.input = <<c>>
  BY Zenon, <1>1, <1>4 DEF Controllers
<1>6. Head(kbc.input) = c
  BY <1>5
<1>7. kbc.input \in {<<"A8">>, <<"20">>, <<"60">>, <<"D4">>}
  BY Zenon, <1>3, <1>5, <1>6
<1>8. ASSUME NEW b
      PROVE  LET n == [k EXCEPT !.full = TRUE, !.data = b]
             IN n.input = <<>> /\ n.others = kbc.others /\ n.full /\ n.data = b
                /\ n.aux = kbc.aux
  BY Zenon, <1>1, <1>2 DEF Controllers
<1>9. ASSUME NEW x
      PROVE  LET n == [k EXCEPT !.next = x]
             IN n.input = <<>> /\ n.others = kbc.others /\ n.full = kbc.full
                /\ n.data = kbc.data /\ n.aux = kbc.aux
  BY Zenon, <1>1, <1>2 DEF Controllers
<1>10. LET n == [k EXCEPT !.aux = TRUE]
       IN n.input = <<>> /\ n.others = kbc.others /\ n.full = kbc.full
          /\ n.data = kbc.data /\ n.aux = TRUE
  BY Zenon, <1>1, <1>2 DEF Controllers
<1>11. CASE Head(kbc.input) = "A8" /\ kbc' = [k EXCEPT !.aux = TRUE] /\ pending' = pending
  BY <1>4, <1>7, <1>10, <1>11, Zenon
<1>12. ASSUME NEW x, kbc' = [k EXCEPT !.next = x], pending' = pending,
              Head(kbc.input) \in {"60", "D4"}
       PROVE  /\ Head(kbc.input) # "20" /\ Head(kbc.input) # "A8" /\ kbc'.full = kbc.full
              /\ kbc'.data = kbc.data /\ kbc'.aux = kbc.aux
              /\ kbc'.input = <<>> /\ kbc'.others = kbc.others
  BY Zenon, <1>9, <1>12
<1>13. CASE /\ Head(kbc.input) = "20" /\ ~kbc.full
            /\ kbc' = [k EXCEPT !.full = TRUE, !.data = Byte("config", 0)]
            /\ Raise(1, kbc.kbd_irq)
  <2>1. /\ kbc'.input = <<>> /\ kbc'.others = kbc.others /\ kbc'.full
        /\ kbc'.data = Byte("config", 0) /\ kbc'.aux = kbc.aux
    BY <1>8, <1>13, Zenon
  <2> QED
    BY <1>4, <1>7, <1>13, <2>1, Zenon
<1> QED
  BY <1>3, <1>4, <1>7, <1>11, <1>12, <1>13, Zenon

(* What the mouse sends is an answer or a packet.                          *)
LEMMA HardwareAnswer ==
  ASSUME TypeOK, AnswerInv, MouseIrq \/ KbdIrq \/ Hardware \/ MouseMove
  PROVE  AnswerInv'
<1>k. kbc \in Controllers /\ mouse \in [out : Seq(Bytes), reporting : BOOLEAN, moves : 0 .. MaxMoves]
  BY Zenon DEF TypeOK
<1>o. mouse.out \in Seq(Bytes)
  BY Zenon, <1>k
<1> DEFINE early == {"enable_aux", "flush", "config_cmd", "config_wait", "config_read",
                     "config_back", "config_data"}
<1>b. /\ Byte("ack", 0).kind = "ack" /\ Byte("resend", 0).kind = "resend"
      /\ Byte("config", 0).kind = "config"
      /\ \A n : /\ Byte("header", n).kind = "header" /\ Byte("x", n).kind = "x"
                /\ Byte("y", n).kind = "y"
  BY Zenon DEF Byte
<1>e. <<>> # <<"F4">> /\ <<>> # <<"junk">>
  BY Zenon
<1>1. CASE MouseIrq \/ KbdIrq
  <2>1. ReadData /\ UNCHANGED <<pc, want, success, mouse>>
    BY Zenon, <1>1 DEF MouseIrq, KbdIrq
  <2> QED
    BY Zenon, <2>1, ReadFields DEF AnswerInv, Telling, Leftover
<1>2. CASE Command
  <2>1. /\ kbc'.input = <<>> /\ kbc'.others = kbc.others
        /\ \/ kbc'.full = kbc.full /\ kbc'.data = kbc.data
           \/ kbc'.data = Byte("config", 0)
        /\ UNCHANGED <<pc, want, success, mouse>>
    BY <1>2, CommandFields, Zenon
  <2>2. CASE kbc'.full = kbc.full /\ kbc'.data = kbc.data
    BY Zenon, <1>e, <2>1, <2>2 DEF AnswerInv, Telling, Leftover
  <2>3. CASE kbc'.data = Byte("config", 0)
    <3>1. kbc'.data.kind = "config"
      BY Zenon, <1>b, <2>3
    <3> QED
      BY Zenon, <1>e, <2>1, <3>1 DEF AnswerInv, Telling, Leftover
  <2> QED
    BY Zenon, <2>1, <2>2, <2>3
<1>3. CASE NewConfig
  <2>1. /\ kbc.input = <<"kept">> /\ UNCHANGED <<pc, want, success, mouse>>
        /\ kbc' = [kbc EXCEPT !.input = <<>>, !.next = "none",
                              !.aux_irq = TRUE, !.others = Head(kbc.input)]
    BY Zenon, <1>3 DEF NewConfig, AnswerInv, outside
  <2>2. Head(kbc.input) = "kept"
    BY <2>1
  <2>3. /\ kbc'.input = <<>> /\ kbc'.others = "kept" /\ kbc'.full = kbc.full
        /\ kbc'.data = kbc.data
    BY Zenon, <1>k, <2>1, <2>2 DEF Controllers
  <2> QED
    BY Zenon, <1>e, <2>1, <2>3 DEF AnswerInv, Telling, Leftover
<1>4. CASE ToMouse
  <2>1. /\ kbc.input = <<"F4">> /\ UNCHANGED <<pc, want, success>>
        /\ kbc' = [kbc EXCEPT !.input = <<>>, !.next = "none"]
    BY Zenon, <1>4 DEF ToMouse
  <2>2. pc \notin early
    BY Zenon, <2>1 DEF AnswerInv
  <2>3. /\ kbc'.input = <<>> /\ kbc'.others = kbc.others /\ kbc'.full = kbc.full
        /\ kbc'.data = kbc.data
    BY Zenon, <1>k, <2>1 DEF Controllers
  <2>4. PICK b : /\ \/ b.kind = "ack"
                       /\ mouse' = [mouse EXCEPT !.reporting = TRUE, !.out = Append(@, b)]
                    \/ b.kind = "resend" /\ mouse' = [mouse EXCEPT !.out = Append(@, b)]
    BY <1>4, <1>b, Zenon DEF ToMouse
  <2>5. /\ mouse'.out = Append(mouse.out, b)
        /\ mouse.reporting => mouse'.reporting
        /\ b.kind = "ack" => mouse'.reporting
    BY <1>k, <2>4, Zenon
  <2>6. ASSUME NEW j \in DOMAIN mouse'.out
        PROVE  /\ mouse'.out[j].kind \notin {"scancode", "config"}
               /\ Telling(mouse'.out[j]) => mouse'.reporting
    <3>1. \/ j \in DOMAIN mouse.out /\ mouse'.out[j] = mouse.out[j]
          \/ mouse'.out[j] = b
      BY <1>o, <2>5
    <3> QED
      BY Zenon, <2>4, <2>5, <3>1 DEF AnswerInv, Telling
  <2> QED
    <3>1. /\ success' => mouse'.reporting
          /\ Telling(kbc'.data) => mouse'.reporting
      BY Zenon, <2>1, <2>3, <2>5 DEF AnswerInv
    <3>2. \A j \in DOMAIN mouse'.out :
            /\ mouse'.out[j].kind \notin {"scancode", "config"}
            /\ Telling(mouse'.out[j]) => mouse'.reporting
      BY <2>6, Zenon
    <3>3. /\ kbc'.full /\ pc' \notin {"enable_aux", "flush"} => ~Leftover(kbc'.data)
          /\ pc' \in {"config_read", "ack_read"} => ~Leftover(kbc'.data)
          /\ want' = "kept" /\ kbc'.input # <<"junk">> /\ kbc'.others = "kept"
      BY Zenon, <1>e, <2>1, <2>3 DEF AnswerInv
    <3>4. pc' \notin early
      BY Zenon, <2>1, <2>2
    <3> QED
      BY <3>1, <3>2, <3>3, <3>4, Zenon DEF AnswerInv
<1>5. CASE MouseSend
  <2>1. /\ mouse.out # <<>> /\ UNCHANGED <<pc, want, success>>
        /\ kbc' = [kbc EXCEPT !.full = TRUE, !.data = Head(mouse.out)]
        /\ mouse' = [mouse EXCEPT !.out = Tail(@)]
    BY Zenon, <1>5 DEF MouseSend
  <2>2. pc \notin early
    BY Zenon, <2>1 DEF AnswerInv
  <2>3. /\ kbc'.input = kbc.input /\ kbc'.others = kbc.others
        /\ kbc'.data = Head(mouse.out)
    BY Zenon, <1>k, <2>1 DEF Controllers
  <2>4. mouse'.reporting = mouse.reporting /\ mouse'.out = Tail(mouse.out)
    BY Zenon, <1>k, <2>1
  <2>5. 1 \in DOMAIN mouse.out /\ Head(mouse.out) = mouse.out[1]
    BY <1>o, <2>1
  <2>6. /\ kbc'.data.kind \notin {"scancode", "config"}
        /\ Telling(kbc'.data) => mouse'.reporting
    BY Zenon, <2>3, <2>4, <2>5 DEF AnswerInv
  <2>7. ASSUME NEW j \in DOMAIN mouse'.out
        PROVE  j + 1 \in DOMAIN mouse.out /\ mouse'.out[j] = mouse.out[j + 1]
    BY <1>o, <2>1, <2>4
  <2>8. ASSUME NEW j \in DOMAIN mouse'.out
        PROVE  /\ mouse'.out[j].kind \notin {"scancode", "config"}
               /\ Telling(mouse'.out[j]) => mouse'.reporting
    BY Zenon, <2>4, <2>7 DEF AnswerInv
  <2> QED
    BY Zenon, <2>1, <2>2, <2>3, <2>4, <2>6, <2>8 DEF AnswerInv, Leftover
<1>6. CASE MouseMove
  <2> DEFINE p == <<Byte("header", mouse.moves), Byte("x", mouse.moves),
                    Byte("y", mouse.moves)>>
  <2>1. /\ mouse.reporting /\ UNCHANGED <<pc, want, success, kbc>>
        /\ mouse' = [mouse EXCEPT !.moves = @ + 1, !.out = @ \o p]
    BY <1>6, Zenon DEF MouseMove
  <2>2. /\ Len(p) = 3 /\ DOMAIN p = 1 .. 3 /\ p[1].kind = "header" /\ p[2].kind = "x"
        /\ p[3].kind = "y"
    BY <1>b
  <2>p. p \in Seq(Bytes)
    <3>1. mouse.moves \in Nat
      BY <1>k, Bounds
    <3>2. /\ Byte("header", mouse.moves) \in Bytes /\ Byte("x", mouse.moves) \in Bytes
          /\ Byte("y", mouse.moves) \in Bytes
      BY Zenon, <3>1, ByteType DEF Kinds
    <3> QED
      BY <3>2
  <2> HIDE DEF p
  <2>3. pc \notin early
    BY Zenon, <2>1 DEF AnswerInv
  <2>4. mouse'.reporting /\ mouse'.out = mouse.out \o p
    BY Zenon, <1>k, <2>1
  <2>5. ASSUME NEW j \in DOMAIN mouse'.out
        PROVE  mouse'.out[j].kind \notin {"scancode", "config"}
    <3>1. \/ j \in DOMAIN mouse.out /\ mouse'.out[j] = mouse.out[j]
          \/ \E i \in 1 .. 3 : mouse'.out[j] = p[i]
      <4>1. j \in 1 .. (Len(mouse.out) + 3)
        <5>1. DOMAIN (mouse.out \o p) = 1 .. (Len(mouse.out) + Len(p))
          BY <1>o, <2>p, Concatenation
        <5>2. DOMAIN mouse'.out = 1 .. (Len(mouse.out) + 3)
          BY Zenon, <2>2, <2>4, <5>1
        <5> QED
          BY Zenon, <5>2
      <4>2. CASE j <= Len(mouse.out)
        BY <1>o, <2>4, <2>p, <4>1, <4>2, Concatenation
      <4>3. CASE j > Len(mouse.out)
        <5>1. mouse'.out[j] = p[j - Len(mouse.out)]
          BY <1>o, <2>2, <2>4, <2>p, <4>1, <4>3, Concatenation
        <5> QED
          BY <1>o, <4>1, <4>3, <5>1
      <4> QED
        BY <1>o, <4>1, <4>2, <4>3
    <3> QED
      BY <2>2, <3>1 DEF AnswerInv
  <2> QED
    BY Zenon, <2>1, <2>3, <2>4, <2>5 DEF AnswerInv, Telling, Leftover
<1> QED
  BY <1>1, <1>2, <1>3, <1>4, <1>5, <1>6, Zenon DEF Hardware

(* The inductive invariant of the answers.                                 *)
THEOREM AnswersAreAnswers == Spec => []AnswerInv
<1>1. TypeOK /\ AnswerInv /\ [Next]_vars => AnswerInv'
  <2>1. AnswerInv /\ UNCHANGED vars => AnswerInv'
    <3> SUFFICES ASSUME AnswerInv, UNCHANGED vars PROVE AnswerInv'
      BY Zenon
    <3>1. pc' = pc /\ success' = success /\ want' = want /\ kbc' = kbc /\ mouse' = mouse
      BY Zenon DEF vars
    <3> QED
      BY Zenon, <3>1 DEF AnswerInv, Telling, Leftover
  <2> QED
    BY <2>1, KernelAnswer, HardwareAnswer, Zenon DEF Next
<1> QED
  BY <1>1, InitAnswer, MouseTypes, PTL DEF Spec

(* send_mouse_cmd_with_ack returns true only when the mouse does report.   *)
THEOREM SuccessIsReal == Spec => []SuccessMeansReporting
<1>1. AnswerInv => SuccessMeansReporting
  BY Zenon DEF AnswerInv, SuccessMeansReporting
<1> QED
  BY <1>1, AnswersAreAnswers, PTL

(* start() changes no bit of the config byte but the mouse interrupt's.    *)
THEOREM ConfigIsKept == Spec => []ConfigKept
<1>1. AnswerInv => ConfigKept
  BY Zenon DEF AnswerInv, ConfigKept
<1> QED
  BY <1>1, AnswersAreAnswers, PTL

-----------------------------------------------------------------------------
(* A start with both lines masked and every answer in time.                *)

(* The lines were masked, and the controller is prompt.                    *)
LEMMA InitQuiet == Init => QuietInv
<1> SUFFICES ASSUME Init, ~lines0, prompt PROVE QuietInv
  BY Zenon DEF QuietInv
<1>1. /\ kbc.input = <<>> /\ mouse.out = <<>> /\ ~mouse.reporting /\ mouse.moves = 0
      /\ queue.pushed = <<>> /\ drv.state = 0 /\ pending = {} /\ pc = "enable_aux"
      /\ ~line[1] /\ ~line[12]
  BY Zenon DEF Init
<1>2. <<>> # <<"F4">> /\ <<>> # <<"20">>
  BY Zenon
<1>3. SilentInv
  BY Zenon, <1>1, <1>2 DEF SilentInv
<1> QED
  BY Zenon, <1>1, <1>3 DEF QuietInv

(* start() before the mouse reports: each wait ends with the answer to the *)
(* command just sent, so that the port is empty when the next one is.      *)
LEMMA SilentKernel ==
  ASSUME TypeOK, QuietInv, ~lines0, prompt, ~mouse.reporting, Kernel
  PROVE  QuietInv'
<1>s. SilentInv /\ ~line[1] /\ (line[12] => pc \in {"spawn", "run"})
      /\ (pc # "enable_aux" => kbc.aux \/ kbc.input = <<"A8">>)
  BY Zenon DEF QuietInv
<1>p. pending = {}
  BY Zenon, <1>s DEF SilentInv
<1>a. ASSUME SilentInv', mouse' = mouse, ~line'[1], line'[12] => pc' \in {"spawn", "run"},
             kbc'.aux \/ kbc'.input = <<"A8">>, pending' = pending
      PROVE  QuietInv'
  BY Zenon, <1>a, <1>p DEF QuietInv
<1>f. \A c \in Commands, d \in Commands : c # d => <<c>> # <<d>>
  BY Zenon
<1>e. \A c \in Commands : <<c>> # <<>>
  BY Zenon
<1>c. {"A8", "20", "60", "kept", "junk", "D4", "F4"} = Commands
  BY Zenon DEF Commands
<1>w. want \in {"kept", "junk"}
  BY Zenon DEF TypeOK
<1>1. CASE EnableAux
  <2>1. Write("A8", "flush", "flush")
    BY Zenon, <1>1 DEF EnableAux
  <2>2. pc = "enable_aux" /\ UNCHANGED <<mouse, drv, queue, pending, line>>
    BY Zenon, <1>1 DEF EnableAux, outside, driver
  <2>3. kbc'.input = <<"A8">> /\ pc' = "flush"
    BY Zenon, <2>1, WriteFields
  <2>4. SilentInv'
    BY Zenon, <1>f, <1>c, <1>s, <2>2, <2>3 DEF SilentInv
  <2> QED
    BY Zenon, <1>a, <1>s, <2>2, <2>3, <2>4
<1>2. CASE Flush
  <2>1. pc = "flush" /\ UNCHANGED <<mouse, drv, queue, pending, line>>
    BY Zenon, <1>2 DEF Flush, outside, driver
  <2>2. \/ ReadData /\ pc' = "flush"
        \/ ~kbc.full /\ kbc' = kbc /\ pc' = "config_cmd"
    BY Zenon, <1>2, <2>1 DEF Flush, Goto
  <2>3. /\ kbc'.input = kbc.input /\ kbc'.aux = kbc.aux /\ ~kbc'.full
        /\ pc' \in {"flush", "config_cmd"}
    BY Zenon, <2>2, ReadFields
  <2>4. SilentInv'
    BY Zenon, <1>s, <2>1, <2>3 DEF SilentInv
  <2> QED
    BY Zenon, <1>a, <1>s, <2>1, <2>3, <2>4
<1>3. CASE ConfigCmd
  <2>1. Write("20", "config_wait", "mouse_cmd")
    BY Zenon, <1>3 DEF ConfigCmd
  <2>2. pc = "config_cmd" /\ UNCHANGED <<mouse, drv, queue, pending, line>>
    BY Zenon, <1>3 DEF ConfigCmd, outside, driver
  <2>3. /\ kbc.input = <<>> /\ kbc'.input = <<"20">> /\ pc' = "config_wait"
        /\ kbc'.full = kbc.full /\ kbc'.aux = kbc.aux
    BY Zenon, <2>1, WriteFields
  <2>4. SilentInv'
    BY Zenon, <1>f, <1>c, <1>s, <2>2, <2>3 DEF SilentInv
  <2> QED
    BY Zenon, <1>a, <1>e, <1>c, <1>s, <2>2, <2>3, <2>4
<1>4. CASE ConfigWait
  <2>1. pc = "config_wait" /\ UNCHANGED <<mouse, drv, queue, pending, line, kbc>>
    BY Zenon, <1>4 DEF ConfigWait, outside, env, driver
  <2>2. \/ kbc.full /\ pc' = "config_read"
        \/ ~kbc.full /\ ~Coming
    BY Zenon, <1>4 DEF ConfigWait, Wait, Goto
  <2>3. \/ kbc.input = <<"20">> /\ ~kbc.full
        \/ kbc.input = <<>> /\ kbc.full
    BY Zenon, <1>s, <2>1 DEF SilentInv
  <2>4. kbc.full /\ pc' = "config_read" /\ kbc.input = <<>>
    BY Zenon, <1>c, <1>e, <2>2, <2>3 DEF Coming
  <2>5. SilentInv'
    BY <1>s, <2>1, <2>4 DEF SilentInv
  <2> QED
    BY Zenon, <1>a, <1>s, <2>1, <2>4, <2>5
<1>5. CASE ConfigRead
  <2>1. pc = "config_read" /\ ReadData /\ UNCHANGED <<mouse, drv, queue, pending, line>>
    BY Zenon, <1>5 DEF ConfigRead, outside, driver
  <2>2. pc' \in {"mouse_cmd", "config_back"}
    BY Zenon, <1>5 DEF ConfigRead, Goto
  <2>3. kbc'.input = kbc.input /\ kbc'.aux = kbc.aux /\ ~kbc'.full
    BY Zenon, <2>1, ReadFields
  <2>4. SilentInv'
    BY Zenon, <1>s, <2>1, <2>2, <2>3 DEF SilentInv
  <2> QED
    BY Zenon, <1>a, <1>s, <2>1, <2>2, <2>3, <2>4
<1>6. CASE ConfigBack
  <2>1. Write("60", "config_data", "mouse_cmd")
    BY Zenon, <1>6 DEF ConfigBack
  <2>2. pc = "config_back" /\ UNCHANGED <<mouse, drv, queue, pending, line>>
    BY Zenon, <1>6 DEF ConfigBack, outside, driver
  <2>3. /\ kbc.input = <<>> /\ kbc'.input = <<"60">> /\ pc' = "config_data"
        /\ kbc'.full = kbc.full /\ kbc'.aux = kbc.aux
    BY Zenon, <2>1, WriteFields
  <2>4. SilentInv'
    BY Zenon, <1>f, <1>c, <1>s, <2>2, <2>3 DEF SilentInv
  <2> QED
    BY Zenon, <1>a, <1>e, <1>c, <1>s, <2>2, <2>3, <2>4
<1>7. CASE ConfigData
  <2>1. Write(want, "mouse_cmd", "mouse_cmd")
    BY Zenon, <1>7 DEF ConfigData
  <2>2. pc = "config_data" /\ UNCHANGED <<mouse, drv, queue, pending, line>>
    BY Zenon, <1>7 DEF ConfigData, outside, driver
  <2>3. /\ kbc.input = <<>> /\ kbc'.input = <<want>> /\ pc' = "mouse_cmd"
        /\ kbc'.full = kbc.full /\ kbc'.aux = kbc.aux
    BY Zenon, <2>1, WriteFields
  <2>4. SilentInv'
    BY Zenon, <1>f, <1>c, <1>s, <2>2, <2>3, <1>w DEF SilentInv
  <2> QED
    BY Zenon, <1>a, <1>e, <1>c, <1>s, <2>2, <2>3, <2>4
<1>8. CASE MouseCmd
  <2>1. Write("D4", "mouse_data", "retry")
    BY Zenon, <1>8 DEF MouseCmd
  <2>2. pc = "mouse_cmd" /\ UNCHANGED <<mouse, drv, queue, pending, line>>
    BY Zenon, <1>8 DEF MouseCmd, outside, driver
  <2>3. /\ kbc.input = <<>> /\ kbc'.input = <<"D4">> /\ pc' = "mouse_data"
        /\ kbc'.full = kbc.full /\ kbc'.aux = kbc.aux
    BY Zenon, <2>1, WriteFields
  <2>4. SilentInv'
    BY Zenon, <1>f, <1>c, <1>s, <2>2, <2>3 DEF SilentInv
  <2> QED
    BY Zenon, <1>a, <1>e, <1>c, <1>s, <2>2, <2>3, <2>4
<1>9. CASE MouseData
  <2>1. Write("F4", "ack_wait", "retry")
    BY Zenon, <1>9 DEF MouseData
  <2>2. pc = "mouse_data" /\ UNCHANGED <<mouse, drv, queue, pending, line>>
    BY Zenon, <1>9 DEF MouseData, outside, driver
  <2>3. /\ kbc.input = <<>> /\ kbc'.input = <<"F4">> /\ pc' = "ack_wait"
        /\ kbc'.full = kbc.full /\ kbc'.aux = kbc.aux
    BY Zenon, <2>1, WriteFields
  <2>4. SilentInv'
    BY Zenon, <1>f, <1>c, <1>s, <2>2, <2>3 DEF SilentInv
  <2> QED
    BY Zenon, <1>a, <1>e, <1>c, <1>s, <2>2, <2>3, <2>4
<1>10. CASE AckWait
  <2>1. pc = "ack_wait" /\ UNCHANGED <<mouse, drv, queue, pending, line, kbc>>
    BY Zenon, <1>10 DEF AckWait, outside, env, driver
  <2>2. \/ kbc.full /\ pc' = "ack_read"
        \/ ~kbc.full /\ ~Coming
    BY Zenon, <1>10 DEF AckWait, Wait, Goto
  <2>3. \/ kbc.input = <<"F4">> /\ ~kbc.full
        \/ /\ kbc.input = <<>> /\ kbc.full /\ mouse.out = <<>>
           /\ kbc.data = Byte("resend", 0)
        \/ kbc.input = <<>> /\ ~kbc.full /\ mouse.out = <<Byte("resend", 0)>>
    BY Zenon, <1>s, <2>1 DEF SilentInv
  <2>4. kbc.aux \/ kbc.input # <<>>
    BY Zenon, <1>c, <1>e, <1>s, <2>1
  <2>5. <<Byte("resend", 0)>> # <<>>
    BY Zenon
  <2>6. ~kbc.full => Coming
    BY Zenon, <1>c, <1>e, <2>3, <2>4, <2>5 DEF Coming
  <2>7. /\ kbc.full /\ pc' = "ack_read" /\ kbc.input = <<>> /\ mouse.out = <<>>
        /\ kbc.data = Byte("resend", 0)
    BY Zenon, <2>2, <2>3, <2>6
  <2>8. SilentInv'
    BY Zenon, <1>s, <2>1, <2>7 DEF SilentInv
  <2> QED
    BY Zenon, <1>a, <1>s, <2>1, <2>7, <2>8
<1>11. CASE AckRead
  <2>1. pc = "ack_read" /\ ReadData /\ UNCHANGED <<mouse, drv, queue, pending, line>>
    BY Zenon, <1>11 DEF AckRead, outside, driver
  <2>2. kbc.data = Byte("resend", 0) /\ kbc.input = <<>> /\ mouse.out = <<>>
    BY Zenon, <1>s, <2>1 DEF SilentInv
  <2>3. kbc.data.kind = "resend"
    BY <2>2 DEF Byte
  <2>4. pc' = "retry"
    BY Zenon, <1>11, <2>3 DEF AckRead, Goto
  <2>5. kbc'.input = kbc.input /\ kbc'.aux = kbc.aux /\ ~kbc'.full
    BY Zenon, <2>1, ReadFields
  <2>6. SilentInv'
    BY <1>s, <2>1, <2>2, <2>4, <2>5 DEF SilentInv
  <2> QED
    BY Zenon, <1>a, <1>s, <2>1, <2>4, <2>5, <2>6
<1>12. CASE Retry
  <2>1. pc = "retry" /\ UNCHANGED <<mouse, drv, queue, pending, line, kbc>>
    BY Zenon, <1>12 DEF Retry, outside, env, driver
  <2>2. pc' \in {"mouse_cmd", "started"}
    BY Zenon, <1>12 DEF Retry, Goto
  <2>3. SilentInv'
    BY Zenon, <1>s, <2>1, <2>2 DEF SilentInv
  <2> QED
    BY Zenon, <1>a, <1>s, <2>1, <2>2, <2>3
<1>13. CASE UnmaskGsi
  <2>1. /\ pc = "started" /\ pc' = "spawn" /\ UNCHANGED <<mouse, drv, queue, pending, kbc>>
        /\ line' \in {line, [line EXCEPT ![12] = TRUE]}
    BY Zenon, <1>13 DEF UnmaskGsi, driver, Goto
  <2>2. line'[1] = line[1]
    BY <2>1 DEF TypeOK
  <2>3. SilentInv'
    BY Zenon, <1>s, <2>1 DEF SilentInv
  <2> QED
    BY Zenon, <1>a, <1>s, <2>1, <2>2, <2>3
<1>14. CASE FirstPoll
  <2>1. /\ pc = "spawn" /\ pc' = "run" /\ UNCHANGED <<mouse, drv, pending, kbc, line>>
        /\ queue' = [queue EXCEPT !.ready = TRUE]
    BY Zenon, <1>14 DEF FirstPoll, env, outside, Goto
  <2>2. queue'.pushed = queue.pushed
    BY Zenon, <2>1 DEF TypeOK
  <2>3. SilentInv'
    BY Zenon, <1>s, <2>1, <2>2 DEF SilentInv
  <2> QED
    BY Zenon, <1>a, <1>s, <2>1, <2>3
<1> QED
  BY Zenon, <1>1, <1>2, <1>3, <1>4, <1>5, <1>6, <1>7, <1>8, <1>9, <1>10, <1>11, <1>12,
     <1>13, <1>14, Zenon DEF Kernel

(* The acknowledgement, then header, x and y of each packet.               *)
LEMMA StreamBytes ==
  /\ StreamByte(0) = Byte("ack", 0)
  /\ \A n \in Nat : /\ StreamByte(3 * n + 1) = Byte("header", n)
                    /\ StreamByte(3 * n + 2) = Byte("x", n)
                    /\ StreamByte(3 * n + 3) = Byte("y", n)
<1>1. StreamByte(0) = Byte("ack", 0)
  BY Zenon DEF StreamByte
<1>2. ASSUME NEW n \in Nat, NEW i \in 0 .. 2
      PROVE  StreamByte(3 * n + i + 1) = Byte(<<"header", "x", "y">>[i + 1], n)
  <2>1. 3 * n + i + 1 # 0 /\ (3 * n + i + 1) - 1 = 3 * n + i
    OBVIOUS
  <2>2. (3 * n + i) % 3 = i /\ (3 * n + i) \div 3 = n
    OBVIOUS
  <2> QED
    BY Zenon, <2>1, <2>2 DEF StreamByte
<1>3. ASSUME NEW n \in Nat
      PROVE  /\ StreamByte(3 * n + 1) = Byte("header", n)
             /\ StreamByte(3 * n + 2) = Byte("x", n)
             /\ StreamByte(3 * n + 3) = Byte("y", n)
  <2>1. 3 * n + 0 + 1 = 3 * n + 1 /\ 3 * n + 1 + 1 = 3 * n + 2 /\ 3 * n + 2 + 1 = 3 * n + 3
    OBVIOUS
  <2>2. /\ StreamByte(3 * n + 0 + 1) = Byte(<<"header", "x", "y">>[0 + 1], n)
        /\ StreamByte(3 * n + 1 + 1) = Byte(<<"header", "x", "y">>[1 + 1], n)
        /\ StreamByte(3 * n + 2 + 1) = Byte(<<"header", "x", "y">>[2 + 1], n)
    BY <1>2
  <2>3. /\ <<"header", "x", "y">>[0 + 1] = "header" /\ <<"header", "x", "y">>[1 + 1] = "x"
        /\ <<"header", "x", "y">>[2 + 1] = "y"
    OBVIOUS
  <2> QED
    BY Zenon, <2>1, <2>2, <2>3
<1> QED
  BY Zenon, <1>1, <1>3

(* The bytes read, in the port and with the mouse make up the stream.      *)
LEMMA ConsumedFacts ==
  ASSUME TypeOK
  PROVE  /\ Len(mouse.out) \in Nat /\ mouse.moves \in Nat /\ InPort \in {0, 1}
         /\ Consumed \in Int /\ Consumed + InPort = 3 * mouse.moves + 1 - Len(mouse.out)
         /\ InPort = IF kbc.full THEN 1 ELSE 0
<1>1. Len(mouse.out) \in Nat /\ mouse.moves \in Nat
  BY Bounds DEF TypeOK
<1>2. InPort \in {0, 1} /\ InPort = IF kbc.full THEN 1 ELSE 0
  BY Zenon DEF InPort
<1>3. Consumed = (3 * mouse.moves + 1) - (Len(mouse.out) + InPort)
  BY Zenon DEF Consumed
<1>4. InPort \in Int
  BY <1>2
<1>5. Consumed \in Int /\ Consumed + InPort = 3 * mouse.moves + 1 - Len(mouse.out)
  <2>1. ASSUME NEW m \in Nat, NEW l \in Nat, NEW i \in Int, NEW c,
               c = (3 * m + 1) - (l + i)
        PROVE  c \in Int /\ c + i = 3 * m + 1 - l
    BY <2>1
  <2> QED
    BY <1>1, <1>3, <1>4, <2>1, Zenon
<1> QED
  BY <1>1, <1>2, <1>5, Zenon

(* The same after a step.                                                  *)
LEMMA ConsumedNext ==
  (TypeOK =>
     /\ Len(mouse.out) \in Nat /\ mouse.moves \in Nat /\ Consumed \in Int
     /\ Consumed + InPort = 3 * mouse.moves + 1 - Len(mouse.out))'
<1>1. TypeOK =>
        /\ Len(mouse.out) \in Nat /\ mouse.moves \in Nat /\ Consumed \in Int
        /\ Consumed + InPort = 3 * mouse.moves + 1 - Len(mouse.out)
  BY ConsumedFacts, Zenon
<1> QED
  BY <1>1, PTL

(* The controller and the mouse before it reports: one byte at a time is   *)
(* on its way, and the acknowledgement begins the stream.                  *)
LEMMA SilentHardware ==
  ASSUME TypeOK, TypeOK', QuietInv, ~lines0, prompt, ~mouse.reporting,
         MouseIrq \/ KbdIrq \/ Hardware \/ MouseMove
  PROVE  QuietInv'
<1>s. SilentInv /\ ~line[1] /\ (line[12] => pc \in {"spawn", "run"})
      /\ (pc # "enable_aux" => kbc.aux \/ kbc.input = <<"A8">>)
  BY Zenon DEF QuietInv
<1>p. pending = {} /\ mouse.moves = 0 /\ queue.pushed = <<>> /\ drv.state = 0
  BY Zenon, <1>s DEF SilentInv
<1>a. ASSUME SilentInv', mouse'.reporting = mouse.reporting, UNCHANGED <<line, pc, pending>>,
             pc' # "enable_aux" => kbc'.aux \/ kbc'.input = <<"A8">>
      PROVE  QuietInv'
  BY Zenon, <1>a, <1>s, <1>p DEF QuietInv
<1>f. \A c \in Commands, d \in Commands : c # d => <<c>> # <<d>>
  BY Zenon
<1>e. \A c \in Commands : <<c>> # <<>>
  BY Zenon
<1>c. {"A8", "20", "60", "kept", "junk", "D4", "F4"} = Commands
  BY Zenon DEF Commands
<1>k. kbc \in Controllers /\ mouse \in [out : Seq(Bytes), reporting : BOOLEAN, moves : 0 .. MaxMoves]
  BY Zenon DEF TypeOK
<1>1. CASE Command
  <2>1. /\ kbc'.input = <<>> /\ kbc.input \in {<<"A8">>, <<"20">>, <<"60">>, <<"D4">>}
        /\ UNCHANGED <<pc, mouse, line>> /\ UNCHANGED <<drv, queue>>
    BY Zenon, <1>1, CommandFields DEF driver
  <2>2. \/ kbc.input = <<"20">> /\ ~kbc.full /\ kbc'.full /\ kbc'.aux = kbc.aux
           /\ Raise(1, kbc.kbd_irq)
        \/ kbc.input # <<"20">> /\ kbc'.full = kbc.full /\ pending' = pending
           /\ kbc'.aux = IF kbc.input = <<"A8">> THEN TRUE ELSE kbc.aux
    <3>1. ASSUME NEW c \in Commands, kbc.input = <<c>> PROVE Head(kbc.input) = c
      BY <3>1
    <3>2. /\ kbc.input = <<"20">> <=> Head(kbc.input) = "20"
          /\ kbc.input = <<"A8">> <=> Head(kbc.input) = "A8"
      BY Zenon, <1>c, <2>1, <3>1
    <3> QED
      BY <1>1, <3>2, CommandFields, Zenon
  <2>3. pending' = pending
    BY <1>s, <2>2, Zenon DEF Raise
  <2>4. kbc'.aux \/ pc = "enable_aux"
    BY <1>c, <1>f, <1>s, <2>1, <2>2, Zenon
  <2>5. pc \notin {"ack_wait", "ack_read", "config_read", "retry", "started", "spawn", "run"}
    BY Zenon, <1>c, <1>e, <1>f, <1>s, <2>1 DEF SilentInv
  <2>6. kbc.input = <<"20">> <=> pc = "config_wait"
    BY <1>c, <1>e, <1>s, <2>1, Zenon DEF SilentInv
  <2>7. SilentInv'
    BY <1>c, <1>e, <1>s, <2>1, <2>2, <2>3, <2>5, <2>6, Zenon DEF SilentInv
  <2> QED
    BY Zenon, <1>a, <2>1, <2>3, <2>4, <2>7
<1>2. CASE NewConfig
  <2>1. /\ kbc.input \in {<<"kept">>, <<"junk">>}
        /\ UNCHANGED <<pc, mouse, line, pending>> /\ UNCHANGED <<drv, queue>>
        /\ kbc' = [kbc EXCEPT !.input = <<>>, !.next = "none",
                              !.aux_irq = TRUE, !.others = Head(kbc.input)]
    BY Zenon, <1>2 DEF NewConfig, outside, driver
  <2>2. kbc'.input = <<>> /\ kbc'.full = kbc.full /\ kbc'.aux = kbc.aux
    BY Zenon, <1>k, <2>1 DEF Controllers
  <2>3. pc \notin {"ack_wait", "ack_read", "config_wait", "config_read"}
    BY Zenon, <1>c, <1>e, <1>f, <1>s, <2>1 DEF SilentInv
  <2>4. SilentInv'
    BY Zenon, <1>c, <1>e, <1>s, <2>1, <2>2, <2>3 DEF SilentInv
  <2>5. kbc.input # <<"A8">>
    BY Zenon, <1>c, <1>f, <2>1
  <2> QED
    BY Zenon, <1>a, <1>s, <2>1, <2>2, <2>4, <2>5
<1>3. CASE ToMouse
  <2>1. /\ kbc.input = <<"F4">> /\ UNCHANGED <<pc, line, pending>> /\ UNCHANGED <<drv, queue>>
        /\ kbc' = [kbc EXCEPT !.input = <<>>, !.next = "none"]
    BY Zenon, <1>3 DEF ToMouse, driver
  <2>2. kbc'.input = <<>> /\ kbc'.full = kbc.full /\ kbc'.aux = kbc.aux
    BY Zenon, <1>k, <2>1 DEF Controllers
  <2>3. pc = "ack_wait" /\ ~kbc.full /\ mouse.out = <<>>
    BY Zenon, <1>c, <1>e, <1>s, <2>1 DEF SilentInv
  <2>4. kbc.aux
    BY Zenon, <1>c, <1>f, <1>s, <2>1, <2>3
  <2>5. CASE mouse' = [mouse EXCEPT !.out = Append(@, Byte("resend", 0))]
    <3>1. /\ mouse'.out = <<Byte("resend", 0)>> /\ mouse'.reporting = mouse.reporting
          /\ mouse'.moves = mouse.moves
      <4>1. Append(<<>>, Byte("resend", 0)) = <<Byte("resend", 0)>>
        OBVIOUS
      <4> QED
        BY Zenon, <1>k, <2>3, <2>5, <4>1
    <3>2. SilentInv'
      BY <1>s, <2>1, <2>2, <2>3, <3>1 DEF SilentInv
    <3> QED
      BY Zenon, <1>a, <2>1, <2>2, <2>4, <3>1, <3>2
  <2>6. CASE mouse' = [mouse EXCEPT !.reporting = TRUE, !.out = Append(@, Byte("ack", 0))]
    <3>1. mouse'.out = <<Byte("ack", 0)>> /\ mouse'.reporting /\ mouse'.moves = 0
      <4>1. Append(<<>>, Byte("ack", 0)) = <<Byte("ack", 0)>>
        OBVIOUS
      <4> QED
        BY Zenon, <1>k, <1>p, <2>3, <2>6, <4>1
    <3>2. Len(mouse'.out) = 1 /\ DOMAIN mouse'.out = {1} /\ mouse'.out[1] = Byte("ack", 0)
      BY <3>1
    <3>3. InPort' = 0 /\ Consumed' = 0
      BY <2>2, <2>3, <3>1, <3>2 DEF InPort, Consumed
    <3>4. \A j \in DOMAIN mouse'.out : mouse'.out[j] = StreamByte(Consumed' + InPort' + j - 1)
      <4>1. Consumed' + InPort' + 1 - 1 = 0
        BY <3>3
      <4> QED
        BY <3>2, <4>1, StreamBytes, Zenon
    <3>5. StreamInv'
      <4>1. /\ pc' \in {"ack_wait", "ack_read", "started", "spawn", "run"}
            /\ pc' = "ack_read" => kbc'.full
            /\ kbc'.input = <<>> /\ Consumed' \in Nat
            /\ Consumed' = 0 <=> pc' \in {"ack_wait", "ack_read"}
            /\ Consumed' = 0 => drv'.state = 0 /\ queue'.pushed = <<>>
            /\ ~kbc'.full /\ ~(Consumed' > 0)
        BY <1>p, <2>1, <2>2, <2>3, <3>3
      <4>2. DOMAIN queue'.pushed = {}
        BY <1>p, <2>1
      <4> QED
        BY <3>4, <4>1, <4>2, Zenon DEF StreamInv
    <3> QED
      BY Zenon, <1>p, <1>s, <2>1, <2>2, <2>3, <2>4, <3>1, <3>5 DEF QuietInv
  <2> QED
    BY <1>3, <2>5, <2>6, Zenon DEF ToMouse
<1>4. CASE MouseSend
  <2>1. /\ ~kbc.full /\ kbc.aux /\ mouse.out # <<>>
        /\ kbc' = [kbc EXCEPT !.full = TRUE, !.data = Head(mouse.out)]
        /\ mouse' = [mouse EXCEPT !.out = Tail(@)]
        /\ UNCHANGED <<pc, line>> /\ UNCHANGED <<drv, queue>>
    BY Zenon, <1>4 DEF MouseSend, driver
  <2>2. pc = "ack_wait" /\ kbc.input = <<>> /\ mouse.out = <<Byte("resend", 0)>>
    BY Zenon, <1>c, <1>e, <1>s, <2>1 DEF SilentInv
  <2>3. pending' = pending
    BY Zenon, <1>4, <1>s, <2>2 DEF MouseSend, Raise
  <2>4. Head(mouse.out) = Byte("resend", 0) /\ Tail(mouse.out) = <<>>
    BY <2>2
  <2>5. /\ mouse'.out = <<>> /\ mouse'.reporting = mouse.reporting
        /\ mouse'.moves = mouse.moves
    BY Zenon, <1>k, <2>1, <2>4
  <2>6. /\ kbc'.full /\ kbc'.data = Byte("resend", 0) /\ kbc'.input = <<>> /\ kbc'.aux
    BY Zenon, <1>k, <2>1, <2>2, <2>4 DEF Controllers
  <2>7. SilentInv'
    BY <1>s, <2>1, <2>2, <2>3, <2>5, <2>6, Zenon DEF SilentInv
  <2> QED
    BY Zenon, <1>a, <2>1, <2>3, <2>5, <2>6, <2>7
<1>5. ~MouseMove /\ ~MouseIrq /\ ~KbdIrq
  BY <1>p, Zenon DEF MouseMove, MouseIrq, KbdIrq
<1> QED
  BY <1>1, <1>2, <1>3, <1>4, <1>5, Zenon DEF Hardware

(* start() and main once the mouse reports: start() reads the              *)
(* acknowledgement, and nothing after it.                                  *)
LEMMA StreamKernel ==
  ASSUME TypeOK, TypeOK', QuietInv, ~lines0, prompt, mouse.reporting, Kernel
  PROVE  QuietInv'
<1>s. /\ StreamInv /\ ~line[1] /\ (line[12] => pc \in {"spawn", "run"})
      /\ pending \subseteq {12} /\ (pending # {} => kbc.full /\ pc \in {"spawn", "run"})
      /\ (pc # "enable_aux" => kbc.aux \/ kbc.input = <<"A8">>)
  BY Zenon DEF QuietInv
<1>p. /\ pc \in {"ack_wait", "ack_read", "started", "spawn", "run"}
      /\ kbc.input = <<>> /\ Consumed \in Nat
      /\ Consumed = 0 <=> pc \in {"ack_wait", "ack_read"}
  BY Zenon, <1>s DEF StreamInv
<1>x. kbc.aux
  <2>1. <<>> # <<"A8">>
    BY Zenon
  <2> QED
    BY Zenon, <1>p, <1>s, <2>1
<1>a. ASSUME kbc' = kbc, mouse' = mouse, drv' = drv, queue'.pushed = queue.pushed,
             pc' \in {"ack_wait", "ack_read", "started", "spawn", "run"},
             pc' = "ack_read" => kbc'.full,
             pc' \in {"ack_wait", "ack_read"} <=> pc \in {"ack_wait", "ack_read"}
      PROVE  StreamInv'
  <2>1. InPort' = InPort /\ Consumed' = Consumed
    BY Zenon, <1>a DEF InPort, Consumed
  <2>2. /\ Consumed' \in Nat /\ kbc'.input = <<>>
        /\ Consumed' = 0 <=> pc' \in {"ack_wait", "ack_read"}
    BY <1>a, <1>p, <2>1, Zenon
  <2>3. \A k \in DOMAIN mouse'.out : mouse'.out[k] = StreamByte(Consumed' + InPort' + k - 1)
    BY <1>a, <1>s, <2>1, Zenon DEF StreamInv
  <2>4. /\ kbc'.full => kbc'.data = StreamByte(Consumed')
        /\ Consumed' = 0 => drv'.state = 0 /\ queue'.pushed = <<>>
        /\ Consumed' > 0 =>
             /\ drv'.state = (Consumed' - 1) % 3
             /\ \A k \in 1 .. drv'.state :
                  drv'.buf[k] = StreamByte(Consumed' - drv'.state + k - 1)
    BY <1>a, <1>s, <2>1, Zenon DEF StreamInv
  <2>5. /\ \A k \in DOMAIN queue'.pushed : \E n \in 0 .. mouse'.moves :
             3 * n + 4 <= Consumed' /\ queue'.pushed[k] = Packet(n)
        /\ \A j, k \in DOMAIN queue'.pushed :
             j < k => queue'.pushed[j][1].n < queue'.pushed[k][1].n
    <3>1. queue'.pushed = queue.pushed /\ mouse'.moves = mouse.moves
      BY <1>a, Zenon
    <3>2. /\ \A k \in DOMAIN queue.pushed : \E n \in 0 .. mouse.moves :
               3 * n + 4 <= Consumed /\ queue.pushed[k] = Packet(n)
          /\ \A j, k \in DOMAIN queue.pushed :
               j < k => queue.pushed[j][1].n < queue.pushed[k][1].n
      BY <1>s, Zenon DEF StreamInv
    <3> QED
      BY <2>1, <3>1, <3>2, Zenon
  <2> QED
    BY <1>a, <2>2, <2>3, <2>4, <2>5, Zenon DEF StreamInv
<1>1. CASE AckWait
  <2>1. pc = "ack_wait" /\ UNCHANGED <<mouse, drv, queue, pending, line, kbc>>
    BY Zenon, <1>1 DEF AckWait, outside, env, driver
  <2>2. \/ kbc.full /\ pc' = "ack_read"
        \/ ~kbc.full /\ ~Coming
    BY Zenon, <1>1 DEF AckWait, Wait, Goto
  <2>3. ~kbc.full => Coming
    <3>1. SUFFICES ASSUME ~kbc.full PROVE mouse.out # <<>>
      BY Zenon, <1>x DEF Coming
    <3>2. Len(mouse.out) = 3 * mouse.moves + 1 /\ mouse.moves \in Nat
      BY <1>p, <2>1, <3>1, ConsumedFacts
    <3>3. Len(mouse.out) # 0
      BY <3>2
    <3> QED
      BY <3>3
  <2>4. StreamInv'
    BY Zenon, <1>a, <2>1, <2>2, <2>3
  <2> QED
    BY Zenon, <1>s, <1>x, <2>1, <2>2, <2>3, <2>4 DEF QuietInv
<1>2. CASE AckRead
  <2>1. /\ pc = "ack_read" /\ ReadData /\ UNCHANGED <<mouse, pending, line>>
        /\ UNCHANGED <<drv, queue>>
    BY Zenon, <1>2 DEF AckRead, outside, driver
  <2>2. kbc.full /\ Consumed = 0
    BY Zenon, <1>p, <1>s, <2>1 DEF StreamInv
  <2>3. kbc.data = Byte("ack", 0) /\ drv.state = 0 /\ queue.pushed = <<>>
    BY Zenon, <1>s, <2>2, StreamBytes DEF StreamInv
  <2>4. kbc.data.kind = "ack"
    BY <2>3 DEF Byte
  <2>5. pc' = "started"
    BY Zenon, <1>2, <2>4 DEF AckRead, Goto
  <2>6. ~kbc'.full /\ kbc'.input = <<>> /\ kbc'.aux = kbc.aux
    BY Zenon, <1>p, <2>1, ReadFields
  <2>7. InPort = 1 /\ InPort' = 0 /\ Consumed' = 1
    <3>1. InPort = 1 /\ InPort' = 0
      BY Zenon, <2>2, <2>6 DEF InPort
    <3>2. Consumed' + InPort' = Consumed + InPort /\ Consumed' \in Int
      <4>1. Consumed + InPort = 3 * mouse.moves + 1 - Len(mouse.out)
        BY Zenon, ConsumedFacts
      <4>2. /\ Consumed' \in Int
            /\ Consumed' + InPort' = 3 * mouse'.moves + 1 - Len(mouse'.out)
        BY Zenon, ConsumedNext
      <4> QED
        BY Zenon, <2>1, <4>1, <4>2
    <3>3. Consumed' + 0 = 0 + 1
      BY <2>2, <3>1, <3>2, Zenon
    <3>4. \A c \in Int : c + 0 = 0 + 1 => c = 1
      OBVIOUS
    <3> QED
      BY <3>1, <3>2, <3>3, <3>4, Zenon
  <2>8. \A k \in DOMAIN mouse'.out : mouse'.out[k] = StreamByte(Consumed' + InPort' + k - 1)
    <3>1. Consumed' + InPort' = Consumed + InPort
      BY <2>2, <2>7
    <3> QED
      BY ZenonT(30), <1>s, <2>1, <3>1 DEF StreamInv
  <2>9. /\ drv'.state = (Consumed' - 1) % 3
        /\ \A k \in 1 .. drv'.state :
             drv'.buf[k] = StreamByte(Consumed' - drv'.state + k - 1)
    BY <2>1, <2>3, <2>7
  <2>10. DOMAIN queue'.pushed = {}
    BY <2>1, <2>3
  <2>11. StreamInv'
    <3>1. /\ pc' \in {"ack_wait", "ack_read", "started", "spawn", "run"}
          /\ pc' # "ack_read" /\ Consumed' \in Nat /\ Consumed' # 0
          /\ pc' \notin {"ack_wait", "ack_read"}
      BY <2>5, <2>7
    <3> QED
      BY <2>6, <2>8, <2>9, <2>10, <3>1, Zenon DEF StreamInv
  <2> QED
    BY Zenon, <1>s, <1>x, <2>1, <2>5, <2>6, <2>11 DEF QuietInv
<1>3. CASE UnmaskGsi
  <2>1. /\ pc = "started" /\ pc' = "spawn" /\ UNCHANGED <<mouse, drv, queue, pending, kbc>>
        /\ line' \in {line, [line EXCEPT ![12] = TRUE]}
    BY Zenon, <1>3 DEF UnmaskGsi, driver, Goto
  <2>2. line'[1] = line[1]
    BY <2>1 DEF TypeOK
  <2>3. StreamInv'
    BY Zenon, <1>a, <2>1
  <2> QED
    BY Zenon, <1>s, <1>x, <2>1, <2>2, <2>3 DEF QuietInv
<1>4. CASE FirstPoll
  <2>1. /\ pc = "spawn" /\ pc' = "run" /\ UNCHANGED <<mouse, drv, pending, kbc, line>>
        /\ queue' = [queue EXCEPT !.ready = TRUE]
    BY Zenon, <1>4 DEF FirstPoll, env, outside, Goto
  <2>2. queue'.pushed = queue.pushed
    BY Zenon, <2>1 DEF TypeOK
  <2>3. StreamInv'
    BY Zenon, <1>a, <2>1, <2>2
  <2> QED
    BY Zenon, <1>s, <1>x, <2>1, <2>3 DEF QuietInv
<1>5. /\ ~EnableAux /\ ~Flush /\ ~ConfigCmd /\ ~ConfigWait /\ ~ConfigRead /\ ~ConfigBack
      /\ ~ConfigData /\ ~MouseCmd /\ ~MouseData /\ ~Retry
  BY Zenon, <1>p DEF EnableAux, Flush, ConfigCmd, ConfigWait, ConfigRead, ConfigBack, ConfigData,
              MouseCmd, MouseData, Retry
<1> QED
  BY <1>1, <1>2, <1>3, <1>4, <1>5, Zenon DEF Kernel

(* The handler gets byte c of the stream, in step with the packets: the    *)
(* driver's buffer holds what came before it, and the third byte of a      *)
(* packet makes it whole.                                                  *)
LEMMA CollectStream ==
  ASSUME TypeOK, NEW c \in Nat, c > 0, drv.state = (c - 1) % 3,
         \A k \in 1 .. drv.state : drv.buf[k] = StreamByte(c - drv.state + k - 1),
         NEW b, b = StreamByte(c), Collect(b)
  PROVE  /\ drv'.state = ((c + 1) - 1) % 3
         /\ \A k \in 1 .. drv'.state : drv'.buf[k] = StreamByte((c + 1) - drv'.state + k - 1)
         /\ \/ queue'.pushed = queue.pushed
            \/ \E n \in Nat : c = 3 * n + 3 /\ queue'.pushed = Append(queue.pushed, Packet(n))
<1>n. PICK n \in Nat, i \in 0 .. 2 : c = 3 * n + i + 1
  <2>1. ASSUME NEW d \in Nat, NEW q, q = d \div 3, NEW r, r = d % 3
        PROVE  q \in Nat /\ r \in 0 .. 2 /\ d + 1 = 3 * q + r + 1
    BY <2>1
  <2>2. c - 1 \in Nat /\ c = (c - 1) + 1
    OBVIOUS
  <2>3. \E q \in Nat, r \in 0 .. 2 : (c - 1) + 1 = 3 * q + r + 1
    BY <2>1, <2>2, Zenon
  <2> QED
    BY Zenon, <2>2, <2>3
<1>i. drv.state = i
  BY <1>n
<1>1. CASE i = 0
  <2>1. b = Byte("header", n)
    <3>1. c = 3 * n + 1
      BY <1>n, <1>1
    <3> QED
      BY Zenon, <3>1, StreamBytes
  <2>2. Bit3(b) = {TRUE}
    <3>1. b.kind = "header"
      BY <2>1 DEF Byte
    <3> QED
      BY Zenon, <3>1 DEF Bit3
  <2>3. FALSE \notin Bit3(b)
    BY Zenon, <2>2
  <2>4. drv' = [state |-> 1, buf |-> <<b>>] /\ queue' = queue
    <3>1. drv.state # 1 /\ drv.state # 2
      BY <1>i, <1>1
    <3> QED
      BY <2>3, <3>1, Zenon DEF Collect
  <2>5. drv'.state = 1 /\ drv'.buf[1] = b
    BY Zenon, <2>4
  <2>6. ((c + 1) - 1) % 3 = 1
    BY <1>n, <1>1
  <2>7. ASSUME NEW k \in 1 .. drv'.state
        PROVE  drv'.buf[k] = StreamByte((c + 1) - drv'.state + k - 1)
    <3>1. k = 1 /\ (c + 1) - 1 + 1 - 1 = c
      BY <2>5
    <3> QED
      BY Zenon, <2>5, <3>1
  <2> QED
    BY <2>4, <2>5, <2>6, <2>7, Zenon
<1>2. CASE i = 1
  <2>1. drv' = [state |-> 2, buf |-> <<drv.buf[1], b>>] /\ queue' = queue
    <3>1. drv.state # 0 /\ drv.state # 2
      BY <1>i, <1>2
    <3> QED
      BY <3>1, Zenon DEF Collect
  <2>2. drv'.state = 2 /\ drv'.buf[1] = drv.buf[1] /\ drv'.buf[2] = b
    BY Zenon, <2>1
  <2>3. drv.buf[1] = StreamByte(c - 1)
    <3>1. 1 \in 1 .. drv.state /\ c - drv.state + 1 - 1 = c - 1
      BY <1>i, <1>2
    <3> QED
      BY Zenon, <3>1
  <2>4. ((c + 1) - 1) % 3 = 2
    BY <1>n, <1>2
  <2>5. ASSUME NEW k \in 1 .. drv'.state
        PROVE  drv'.buf[k] = StreamByte((c + 1) - drv'.state + k - 1)
    <3>1. k = 1 \/ k = 2
      BY <2>2
    <3>2. (c + 1) - 2 + 1 - 1 = c - 1 /\ (c + 1) - 2 + 2 - 1 = c
      OBVIOUS
    <3> QED
      BY Zenon, <2>2, <2>3, <3>1, <3>2
  <2> QED
    BY Zenon, <2>1, <2>2, <2>4, <2>5
<1>3. CASE i = 2
  <2>1. /\ drv' = [state |-> 0, buf |-> <<>>]
        /\ queue' = IF queue.ready
                    THEN [queue EXCEPT !.pushed = Append(@, drv.buf \o <<b>>)]
                    ELSE queue
    <3>1. drv.state # 0 /\ drv.state # 1
      BY <1>i, <1>3
    <3> QED
      BY <3>1, Zenon DEF Collect
  <2>2. c = 3 * n + 3 /\ ((c + 1) - 1) % 3 = 0
    BY <1>n, <1>3
  <2>3. drv.buf[1] = Byte("header", n) /\ drv.buf[2] = Byte("x", n) /\ b = Byte("y", n)
    <3>1. /\ 1 \in 1 .. drv.state /\ c - drv.state + 1 - 1 = 3 * n + 1
          /\ 2 \in 1 .. drv.state /\ c - drv.state + 2 - 1 = 3 * n + 2
      BY <1>i, <1>3, <2>2
    <3>2. drv.buf[1] = StreamByte(3 * n + 1) /\ drv.buf[2] = StreamByte(3 * n + 2)
      BY Zenon, <3>1
    <3> QED
      BY <2>2, <3>2, StreamBytes, Zenon
  <2>4. drv.buf \o <<b>> = Packet(n)
    <3>1. drv.buf \in Seq(Bytes) /\ Len(drv.buf) = 2
      BY Zenon, <1>i, <1>3 DEF TypeOK
    <3>2. b \in Bytes
      BY <2>3, ByteType DEF Kinds
    <3> DEFINE p == drv.buf \o <<b>>
               q == Packet(n)
    <3>3. p \in Seq(Bytes) /\ Len(p) = 3 /\ p[1] = drv.buf[1] /\ p[2] = drv.buf[2] /\ p[3] = b
      BY <3>1, <3>2, ThirdElement
    <3>4. /\ q \in Seq(Bytes) /\ Len(q) = 3 /\ q[1] = Byte("header", n)
          /\ q[2] = Byte("x", n) /\ q[3] = Byte("y", n)
      <4>1. Byte("header", n) \in Bytes /\ Byte("x", n) \in Bytes /\ Byte("y", n) \in Bytes
        BY Zenon, ByteType DEF Kinds
      <4> QED
        BY <4>1 DEF Packet
    <3> HIDE DEF p, q
    <3>5. p = q
      BY <2>3, <3>3, <3>4
    <3> QED
      BY Zenon, <3>5 DEF p, q
  <2>5. queue'.pushed = queue.pushed \/ queue'.pushed = Append(queue.pushed, Packet(n))
    <3> DEFINE s == Append(queue.pushed, Packet(n))
    <3>1. queue' = queue \/ queue' = [queue EXCEPT !.pushed = s]
      BY <2>1, <2>4, Zenon
    <3> HIDE DEF s
    <3>2. queue'.pushed = queue.pushed \/ queue'.pushed = s
      BY Zenon, <3>1 DEF TypeOK
    <3> QED
      BY Zenon, <3>2 DEF s
  <2>6. drv'.state = 0
    BY Zenon, <2>1
  <2>7. 1 .. drv'.state = {}
    BY <2>6
  <2> QED
    BY <2>2, <2>5, <2>6, <2>7, Zenon
<1>4. i = 0 \/ i = 1 \/ i = 2
  OBVIOUS
<1> QED
  BY <1>1, <1>2, <1>3, <1>4, Zenon

(* Packet m follows the packets pushed before byte c = 3m + 3: the queue   *)
(* stays in the order of the stream.                                       *)
LEMMA PushInOrder ==
  ASSUME NEW s \in Seq(Seq(Bytes)), NEW c \in Nat, NEW moves \in Nat, NEW m \in Nat,
         c = 3 * m + 3, m <= moves,
         \A k \in DOMAIN s : \E n \in 0 .. moves : 3 * n + 4 <= c /\ s[k] = Packet(n),
         \A j, k \in DOMAIN s : j < k => s[j][1].n < s[k][1].n
  PROVE  LET t == Append(s, Packet(m))
         IN  /\ \A k \in DOMAIN t :
                  \E n \in 0 .. moves : 3 * n + 4 <= c + 1 /\ t[k] = Packet(n)
             /\ \A j, k \in DOMAIN t : j < k => t[j][1].n < t[k][1].n
<1> DEFINE t == Append(s, Packet(m))
<1>p. \A n \in Nat : Packet(n) \in Seq(Bytes) /\ Packet(n)[1].n = n
  <2> SUFFICES ASSUME NEW n \in Nat PROVE Packet(n) \in Seq(Bytes) /\ Packet(n)[1].n = n
    BY Zenon
  <2>1. Byte("header", n) \in Bytes /\ Byte("x", n) \in Bytes /\ Byte("y", n) \in Bytes
        /\ Byte("header", n).n = n
    BY Zenon, ByteType DEF Kinds
  <2> QED
    BY <2>1 DEF Packet
<1>t. /\ DOMAIN t = 1 .. (Len(s) + 1) /\ t[Len(s) + 1] = Packet(m)
      /\ \A k \in 1 .. Len(s) : t[k] = s[k]
      /\ DOMAIN s = 1 .. Len(s) /\ Len(s) \in Nat
  <2> DEFINE p == Packet(m)
  <2>1. p \in Seq(Bytes)
    BY Zenon, <1>p
  <2> HIDE DEF p
  <2>2. /\ DOMAIN Append(s, p) = 1 .. (Len(s) + 1) /\ Append(s, p)[Len(s) + 1] = p
        /\ \A k \in 1 .. Len(s) : Append(s, p)[k] = s[k]
        /\ DOMAIN s = 1 .. Len(s) /\ Len(s) \in Nat
    BY <2>1
  <2> QED
    BY Zenon, <2>2 DEF p
<1> HIDE DEF t
<1>1. ASSUME NEW k \in DOMAIN t
      PROVE  \E n \in 0 .. moves : 3 * n + 4 <= c + 1 /\ t[k] = Packet(n)
  <2>1. CASE k \in 1 .. Len(s)
    <3>1. PICK n \in 0 .. moves : 3 * n + 4 <= c /\ s[k] = Packet(n)
      BY Zenon, <1>t, <2>1
    <3>2. 3 * n + 4 <= c + 1 /\ t[k] = Packet(n)
      BY <1>t, <2>1, <3>1
    <3> QED
      BY Zenon, <3>2
  <2>2. CASE k = Len(s) + 1
    <3>1. m \in 0 .. moves /\ 3 * m + 4 <= c + 1
      OBVIOUS
    <3> QED
      BY Zenon, <1>t, <2>2, <3>1
  <2> QED
    BY <1>t, <2>1, <2>2
<1>2. ASSUME NEW j \in DOMAIN t, NEW k \in DOMAIN t, j < k
      PROVE  t[j][1].n < t[k][1].n
  <2>1. j \in 1 .. Len(s) /\ t[j] = s[j] /\ j \in DOMAIN s
    BY <1>t, <1>2
  <2>2. CASE k \in 1 .. Len(s)
    <3>1. t[k] = s[k] /\ k \in DOMAIN s
      BY Zenon, <1>t, <2>2
    <3> QED
      BY Zenon, <1>2, <2>1, <3>1
  <2>3. CASE k = Len(s) + 1
    <3>1. PICK n \in 0 .. moves : 3 * n + 4 <= c /\ s[j] = Packet(n)
      BY Zenon, <2>1
    <3>2. n < m
      BY <3>1
    <3>3. t[j][1].n = n /\ t[k][1].n = m
      <4>1. n \in Nat /\ t[j] = Packet(n) /\ t[k] = Packet(m)
        BY <1>t, <2>1, <2>3, <3>1
      <4> QED
        BY <1>p, <4>1, Zenon
    <3> QED
      BY Zenon, <3>2, <3>3
  <2>4. k \in 1 .. Len(s) \/ k = Len(s) + 1
    BY <1>t
  <2> QED
    BY <2>2, <2>3, <2>4, Zenon
<1> QED
  BY <1>1, <1>2, Zenon DEF t

(* The controller, the mouse and the handler once the mouse reports: the   *)
(* bytes stay in the order in which the mouse sent them.                   *)
LEMMA StreamHardware ==
  ASSUME TypeOK, TypeOK', QuietInv, ~lines0, prompt, mouse.reporting,
         MouseIrq \/ KbdIrq \/ Hardware \/ MouseMove
  PROVE  QuietInv'
<1>s. /\ StreamInv /\ ~line[1] /\ (line[12] => pc \in {"spawn", "run"})
      /\ pending \subseteq {12} /\ (pending # {} => kbc.full /\ pc \in {"spawn", "run"})
      /\ (pc # "enable_aux" => kbc.aux \/ kbc.input = <<"A8">>)
  BY Zenon DEF QuietInv
<1>p. /\ pc \in {"ack_wait", "ack_read", "started", "spawn", "run"}
      /\ kbc.input = <<>> /\ Consumed \in Nat
      /\ Consumed = 0 <=> pc \in {"ack_wait", "ack_read"}
  BY Zenon, <1>s DEF StreamInv
<1>x. kbc.aux
  <2>1. <<>> # <<"A8">>
    BY Zenon
  <2> QED
    BY Zenon, <1>p, <1>s, <2>1
<1>k. kbc \in Controllers /\ mouse \in [out : Seq(Bytes), reporting : BOOLEAN, moves : 0 .. MaxMoves]
  BY Zenon DEF TypeOK
<1>o. mouse.out \in Seq(Bytes) /\ Len(mouse.out) \in Nat
  BY <1>k
<1>t. /\ mouse.moves \in Nat /\ InPort \in {0, 1}
      /\ Consumed + InPort = 3 * mouse.moves + 1 - Len(mouse.out)
      /\ Consumed' \in Int
      /\ Consumed' + InPort' = 3 * mouse'.moves + 1 - Len(mouse'.out)
  BY Zenon, ConsumedFacts, ConsumedNext
<1>a. ASSUME StreamInv', mouse'.reporting, UNCHANGED <<line, pc>>, pending' \subseteq {12},
             pending' # {} => kbc'.full /\ pc \in {"spawn", "run"}, kbc'.aux
      PROVE  QuietInv'
  BY Zenon, <1>a, <1>s DEF QuietInv
<1>1. CASE MouseIrq
  <2>1. /\ 12 \in pending /\ pending' = pending \ {12} /\ ReadData /\ Collect(kbc.data)
        /\ UNCHANGED <<pc, mouse, line>>
    BY Zenon, <1>1 DEF MouseIrq
  <2>2. kbc.full /\ pc \in {"spawn", "run"} /\ pending' = {}
    BY Zenon, <1>s, <2>1
  <2>3. ~kbc'.full /\ kbc'.input = <<>> /\ kbc'.aux
    BY <1>p, <1>x, <2>1, ReadFields, Zenon
  <2>4. InPort = 1 /\ InPort' = 0
    BY Zenon, <2>2, <2>3 DEF InPort
  <2> DEFINE c == Consumed
  <2>5. c \in Nat /\ c > 0 /\ c + 1 = 3 * mouse.moves + 1 - Len(mouse.out)
    <3>1. c # 0
      BY Zenon, <1>p, <2>2
    <3>2. c + 1 = 3 * mouse.moves + 1 - Len(mouse.out)
      BY <1>t, <2>4, Zenon
    <3>3. c \in Nat
      BY Zenon, <1>p
    <3> HIDE DEF c
    <3> QED
      BY <3>1, <3>2, <3>3
  <2>6. Consumed' = c + 1
    <3>1. Consumed' + 0 = c + 1
      BY <1>t, <2>1, <2>4, <2>5, Zenon
    <3>2. \A x \in Int, y \in Nat : x + 0 = y + 1 => x = y + 1
      OBVIOUS
    <3> QED
      BY <1>t, <2>5, <3>1, <3>2, Zenon
  <2>7. /\ drv.state = (c - 1) % 3
        /\ \A k \in 1 .. drv.state : drv.buf[k] = StreamByte(c - drv.state + k - 1)
        /\ kbc.data = StreamByte(c)
    BY <1>s, <2>2, <2>5, Zenon DEF StreamInv
  <2>8. /\ drv'.state = ((c + 1) - 1) % 3
        /\ \A k \in 1 .. drv'.state : drv'.buf[k] = StreamByte((c + 1) - drv'.state + k - 1)
        /\ \/ queue'.pushed = queue.pushed
           \/ \E n \in Nat : c = 3 * n + 3 /\ queue'.pushed = Append(queue.pushed, Packet(n))
    <3> HIDE DEF c
    <3> QED
      BY <2>1, <2>5, <2>7, CollectStream, Zenon
  <2>9. /\ \A k \in DOMAIN queue'.pushed : \E n \in 0 .. mouse.moves :
             3 * n + 4 <= c + 1 /\ queue'.pushed[k] = Packet(n)
        /\ \A j, k \in DOMAIN queue'.pushed :
             j < k => queue'.pushed[j][1].n < queue'.pushed[k][1].n
    <3> DEFINE s == queue.pushed
    <3>1. /\ \A k \in DOMAIN s : \E n \in 0 .. mouse.moves : 3 * n + 4 <= c /\ s[k] = Packet(n)
          /\ \A j, k \in DOMAIN s : j < k => s[j][1].n < s[k][1].n
      BY <1>s, Zenon DEF StreamInv
    <3>2. s \in Seq(Seq(Bytes))
      BY Zenon DEF TypeOK
    <3> HIDE DEF c, s
    <3>3. CASE queue'.pushed = s
      <4>1. \A n \in 0 .. mouse.moves : 3 * n + 4 <= c => 3 * n + 4 <= c + 1
        BY <1>t, <2>5
      <4> QED
        BY <3>1, <3>3, <4>1, Zenon
    <3>4. ASSUME NEW n \in Nat, c = 3 * n + 3, queue'.pushed = Append(s, Packet(n))
          PROVE  /\ \A k \in DOMAIN queue'.pushed : \E l \in 0 .. mouse.moves :
                      3 * l + 4 <= c + 1 /\ queue'.pushed[k] = Packet(l)
                 /\ \A j, k \in DOMAIN queue'.pushed :
                      j < k => queue'.pushed[j][1].n < queue'.pushed[k][1].n
      <4>1. n <= mouse.moves
        BY SMTT(30), <1>o, <1>t, <2>5, <3>4
      <4> DEFINE u == Append(s, Packet(n))
      <4>2. /\ \A k \in DOMAIN u :
                 \E l \in 0 .. mouse.moves : 3 * l + 4 <= c + 1 /\ u[k] = Packet(l)
            /\ \A j, k \in DOMAIN u : j < k => u[j][1].n < u[k][1].n
        <5>1. mouse.moves \in Nat /\ c \in Nat /\ c = 3 * n + 3
          BY <1>t, <2>5, <3>4, Zenon
        <5> QED
          BY <3>1, <3>2, <4>1, <5>1, PushInOrder, Zenon
      <4>3. queue'.pushed = u
        BY Zenon, <3>4
      <4> HIDE DEF u
      <4> QED
        BY <4>2, <4>3, Zenon
    <3> QED
      BY <2>8, <3>3, <3>4, Zenon DEF s
  <2>10. \A k \in DOMAIN mouse'.out : mouse'.out[k] = StreamByte(Consumed' + InPort' + k - 1)
    <3>1. Consumed' + InPort' = Consumed + InPort
      BY <1>t, <2>1, Zenon
    <3> QED
      BY <1>s, <2>1, <3>1, Zenon DEF StreamInv
  <2>11. StreamInv'
    <3>1. pc' = pc /\ pc \notin {"ack_wait", "ack_read"} /\ pc # "ack_read" /\ mouse' = mouse
      BY Zenon, <2>1, <2>2
    <3>2. Consumed' # 0 /\ Consumed' \in Nat
      <4> HIDE DEF c
      <4> QED
        BY <2>5, <2>6
    <3> HIDE DEF c
    <3> QED
      BY <1>p, <2>3, <2>6, <2>8, <2>9, <2>10, <3>1, <3>2, Zenon DEF StreamInv
  <2> QED
    BY Zenon, <1>a, <2>1, <2>2, <2>3, <2>11
<1>2. CASE MouseSend
  <2>1. /\ ~kbc.full /\ mouse.out # <<>> /\ UNCHANGED <<pc, line, drv, queue>>
        /\ kbc' = [kbc EXCEPT !.full = TRUE, !.data = Head(mouse.out)]
        /\ mouse' = [mouse EXCEPT !.out = Tail(@)]
        /\ Raise(12, kbc.aux_irq)
    BY Zenon, <1>2 DEF MouseSend, driver
  <2>2. /\ kbc'.full /\ kbc'.data = Head(mouse.out) /\ kbc'.input = kbc.input /\ kbc'.aux
    BY Zenon, <1>k, <1>x, <2>1 DEF Controllers
  <2>3. /\ mouse'.out = Tail(mouse.out) /\ mouse'.reporting
        /\ mouse'.moves = mouse.moves
    BY Zenon, <1>k, <2>1
  <2>4. /\ 1 \in DOMAIN mouse.out /\ Head(mouse.out) = mouse.out[1]
        /\ Len(mouse'.out) = Len(mouse.out) - 1
        /\ \A k \in DOMAIN mouse'.out :
             k \in Nat /\ k + 1 \in DOMAIN mouse.out /\ mouse'.out[k] = mouse.out[k + 1]
    BY <1>o, <2>1, <2>3
  <2>5. InPort = 0 /\ InPort' = 1
    BY Zenon, <2>1, <2>2 DEF InPort
  <2>6. Consumed' = Consumed
    <3>1. \A x \in Int, y \in Int, l \in Nat, m \in Nat :
            x + 1 = 3 * m + 1 - (l - 1) /\ y + 0 = 3 * m + 1 - l => x = y
      OBVIOUS
    <3>2. Consumed' + 1 = 3 * mouse.moves + 1 - (Len(mouse.out) - 1)
      BY <1>t, <2>3, <2>4, <2>5, Zenon
    <3>3. Consumed + 0 = 3 * mouse.moves + 1 - Len(mouse.out)
      BY <1>t, <2>5, Zenon
    <3>4. Consumed \in Int
      BY <1>p
    <3> QED
      BY <1>o, <1>t, <3>1, <3>2, <3>3, <3>4, Zenon
  <2> DEFINE c == Consumed
  <2>7. \A k \in DOMAIN mouse.out : mouse.out[k] = StreamByte(c + 0 + k - 1)
    BY <1>s, <2>5, Zenon DEF StreamInv
  <2>8. kbc'.data = StreamByte(Consumed')
    <3>1. c + 0 + 1 - 1 = c
      BY <1>p
    <3> QED
      BY <2>2, <2>4, <2>6, <2>7, <3>1, Zenon
  <2>9. \A k \in DOMAIN mouse'.out : mouse'.out[k] = StreamByte(Consumed' + InPort' + k - 1)
    <3>1. \A x \in Nat, k \in Nat : x + 0 + (k + 1) - 1 = x + 1 + k - 1
      OBVIOUS
    <3>2. ASSUME NEW k \in DOMAIN mouse'.out
          PROVE  mouse'.out[k] = StreamByte(c + 1 + k - 1)
      <4>1. mouse'.out[k] = StreamByte(c + 0 + (k + 1) - 1)
        BY <2>4, <2>7, Zenon
      <4> QED
        BY <1>p, <2>4, <3>1, <4>1, Zenon
    <3> QED
      BY <2>5, <2>6, <3>2, Zenon
  <2>10. StreamInv'
    <3>1. pc' = pc /\ drv' = drv /\ queue' = queue
      BY Zenon, <2>1
    <3> QED
      BY <1>s, <2>2, <2>3, <2>6, <2>8, <2>9, <3>1, Zenon DEF StreamInv
  <2>11. pending' = pending \/ (line[12] /\ pending' = pending \cup {12})
    BY Zenon, <2>1 DEF Raise
  <2> QED
    BY Zenon, <1>a, <1>s, <2>1, <2>2, <2>3, <2>10, <2>11
<1>3. CASE MouseMove
  <2> DEFINE m == mouse.moves
             p == <<Byte("header", m), Byte("x", m), Byte("y", m)>>
  <2>1. /\ UNCHANGED <<pc, line, drv, queue, kbc, pending>>
        /\ mouse' = [mouse EXCEPT !.moves = @ + 1, !.out = @ \o p]
    BY <1>3, Zenon DEF MouseMove, driver
  <2>2. Len(p) = 3 /\ p \in Seq(Bytes)
    <3>1. Byte("header", m) \in Bytes /\ Byte("x", m) \in Bytes /\ Byte("y", m) \in Bytes
      BY Zenon, <1>t, ByteType DEF Kinds
    <3> QED
      BY <3>1
  <2>3. /\ p[1] = StreamByte(3 * m + 1) /\ p[2] = StreamByte(3 * m + 2)
        /\ p[3] = StreamByte(3 * m + 3)
    <3>1. p[1] = Byte("header", m) /\ p[2] = Byte("x", m) /\ p[3] = Byte("y", m)
      BY Zenon
    <3> QED
      BY <1>t, <3>1, StreamBytes, Zenon
  <2> HIDE DEF p
  <2>4. mouse'.out = mouse.out \o p /\ mouse'.moves = m + 1 /\ mouse'.reporting
    BY Zenon, <1>k, <2>1
  <2>5. /\ Len(mouse'.out) = Len(mouse.out) + 3
        /\ DOMAIN mouse'.out = 1 .. (Len(mouse.out) + 3)
        /\ \A i \in 1 .. Len(mouse.out) : mouse'.out[i] = mouse.out[i]
        /\ \A i \in (Len(mouse.out) + 1) .. (Len(mouse.out) + 3) :
             mouse'.out[i] = p[i - Len(mouse.out)]
    <3>1. p \in Seq(Bytes)
      BY Zenon, <2>2
    <3>2. /\ Len(mouse.out \o p) = Len(mouse.out) + Len(p)
          /\ DOMAIN (mouse.out \o p) = 1 .. (Len(mouse.out) + Len(p))
          /\ \A i \in 1 .. Len(mouse.out) : (mouse.out \o p)[i] = mouse.out[i]
          /\ \A i \in (Len(mouse.out) + 1) .. (Len(mouse.out) + Len(p)) :
               (mouse.out \o p)[i] = p[i - Len(mouse.out)]
      BY <1>o, <3>1, Concatenation
    <3> QED
      BY <2>2, <2>4, <3>2, Zenon
  <2>6. InPort' = InPort
    BY Zenon, <2>1 DEF InPort
  <2>7. Consumed' = Consumed
    <3>1. \A x \in Int, y \in Int, i \in {0, 1}, l \in Nat, n \in Nat :
            x + i = 3 * (n + 1) + 1 - (l + 3) /\ y + i = 3 * n + 1 - l => x = y
      OBVIOUS
    <3>2. Consumed' + InPort = 3 * (m + 1) + 1 - (Len(mouse.out) + 3)
      BY <1>t, <2>4, <2>5, <2>6, Zenon
    <3>3. Consumed \in Int
      BY <1>p
    <3> QED
      BY <1>o, <1>t, <3>1, <3>2, <3>3, Zenon
  <2>8. \A k \in DOMAIN mouse'.out : mouse'.out[k] = StreamByte(Consumed + InPort + k - 1)
    <3> DEFINE l == Len(mouse.out)
               q == Consumed + InPort
    <3>1. \A k \in 1 .. l : mouse.out[k] = StreamByte(q + k - 1)
      <4>1. DOMAIN mouse.out = 1 .. l
        BY <1>o
      <4> QED
        BY <1>s, <4>1, Zenon DEF StreamInv
    <3>2. q = 3 * m + 1 - l /\ l \in Nat /\ m \in Nat
      BY <1>o, <1>t, Zenon
    <3> HIDE DEF l, q, m
    <3>3. ASSUME NEW k \in 1 .. (l + 3), k > l
          PROVE  k - l \in 1 .. 3 /\ q + k - 1 = 3 * m + (k - l)
      BY <3>2, <3>3
    <3>4. ASSUME NEW i \in 1 .. 3 PROVE p[i] = StreamByte(3 * m + i)
      BY <2>3
    <3>5. ASSUME NEW k \in 1 .. (l + 3) PROVE mouse'.out[k] = StreamByte(q + k - 1)
      <4>1. CASE k <= l
        <5>1. k \in 1 .. l
          BY <3>2, <4>1
        <5> QED
          BY <2>5, <3>1, <5>1, Zenon DEF l
      <4>2. CASE k > l
        <5>1. k \in (l + 1) .. (l + 3)
          BY <3>2, <4>2
        <5>2. mouse'.out[k] = p[k - l]
          BY <2>5, <5>1, Zenon DEF l
        <5>3. p[k - l] = StreamByte(3 * m + (k - l))
          BY <3>3, <3>4, <4>2, Zenon
        <5> QED
          BY <3>3, <4>2, <5>2, <5>3, Zenon
      <4> QED
        BY <3>2, <4>1, <4>2
    <3> QED
      BY <2>5, <3>5, Zenon DEF l, q
  <2>9. \A x : x \in 0 .. mouse.moves => x \in 0 .. mouse'.moves
    BY <1>t, <2>4
  <2>10. StreamInv'
    <3>1. pc' = pc /\ drv' = drv /\ queue' = queue /\ kbc' = kbc
      BY Zenon, <2>1
    <3> HIDE DEF m
    <3> QED
      BY <1>s, <2>6, <2>7, <2>8, <2>9, <3>1, Zenon DEF StreamInv
  <2> QED
    BY Zenon, <1>a, <1>s, <1>x, <2>1, <2>4, <2>10
<1>4. ~Command /\ ~NewConfig /\ ~ToMouse /\ ~KbdIrq
  <2>1. /\ <<>> # <<"kept">> /\ <<>> # <<"junk">> /\ <<>> # <<"F4">> /\ 1 # 12
    OBVIOUS
  <2>2. 1 \notin pending
    BY Zenon, <1>s, <2>1
  <2> QED
    BY <1>p, <2>1, <2>2, Zenon DEF Command, NewConfig, ToMouse, KbdIrq
<1> QED
  BY <1>1, <1>2, <1>3, <1>4, Zenon DEF Hardware

(* The inductive invariant of a quiet start.                               *)
THEOREM QuietInvariant == Spec => []QuietInv
<1>1. TypeOK /\ TypeOK' /\ QuietInv /\ [Next]_vars => QuietInv'
  <2> SUFFICES ASSUME TypeOK, TypeOK', QuietInv, [Next]_vars PROVE QuietInv'
    BY Zenon
  <2>1. lines0' = lines0 /\ prompt' = prompt
    BY Zenon DEF Next, vars, Kernel, EnableAux, Flush, ConfigCmd, ConfigWait, ConfigRead,
           ConfigBack, ConfigData, MouseCmd, MouseData, AckWait, AckRead, Retry,
           UnmaskGsi, FirstPoll, MouseIrq, KbdIrq, Hardware, Command, NewConfig,
           ToMouse, MouseSend, MouseMove, outside, env
  <2>2. CASE lines0 \/ ~prompt
    BY <2>1, <2>2, Zenon DEF QuietInv
  <2>3. CASE ~lines0 /\ prompt /\ Next
    BY <2>3, SilentKernel, SilentHardware, StreamKernel, StreamHardware, Zenon DEF Next
  <2>4. CASE UNCHANGED vars
    <3>1. /\ pc' = pc /\ kbc' = kbc /\ mouse' = mouse /\ pending' = pending /\ line' = line
          /\ drv' = drv /\ queue' = queue
      BY <2>4, Zenon DEF vars
    <3>2. InPort' = InPort /\ Consumed' = Consumed
      BY Zenon, <3>1 DEF InPort, Consumed
    <3> QED
      BY <2>1, <3>1, <3>2, Zenon DEF QuietInv, SilentInv, StreamInv
  <2> QED
    BY <2>2, <2>3, <2>4, Zenon
<1> QED
  BY <1>1, InitQuiet, MouseTypes, PTL DEF Spec

(* After a start with the lines masked and the answers in time, what the   *)
(* queue holds are packets the mouse sent, in order.                       *)
THEOREM QuietStartIsAligned == Spec => []QuietStartKeepsPackets
<1>1. TypeOK /\ QuietInv => QuietStartKeepsPackets
  <2> SUFFICES ASSUME TypeOK, QuietInv, ~lines0, prompt PROVE QuietStartKeepsPackets
    BY Zenon DEF QuietStartKeepsPackets
  <2>1. CASE ~mouse.reporting
    <3>1. queue.pushed = <<>>
      BY <2>1, Zenon DEF QuietInv, SilentInv
    <3>2. DOMAIN queue.pushed = {}
      BY <3>1
    <3> QED
      BY <3>2, Zenon DEF QuietStartKeepsPackets
  <2>2. CASE mouse.reporting
    <3>1. StreamInv
      BY <2>2, Zenon DEF QuietInv
    <3>2. \A n \in 0 .. mouse.moves : n \in 0 .. MaxMoves
      BY Bounds DEF TypeOK
    <3>3. ASSUME NEW k \in DOMAIN queue.pushed PROVE Aligned(queue.pushed[k])
      BY <3>1, <3>2, Zenon DEF StreamInv, Aligned, Packet
    <3> QED
      BY <3>1, <3>3, Zenon DEF StreamInv, QuietStartKeepsPackets
  <2> QED
    BY Zenon, <2>1, <2>2
<1> QED
  BY <1>1, QuietInvariant, MouseTypes, PTL

=============================================================================
