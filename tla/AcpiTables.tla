----------------------------- MODULE AcpiTables -----------------------------
(***************************************************************************)
(* The ACPI parser of src/devices/acpi/acpi.rs, as hal::init_acpi runs it: *)
(* the search for the RSDP, the walk over the tables the RSDT or XSDT      *)
(* names, and the parsing of MADT, HPET, MCFG and FACP.                    *)
(*                                                                         *)
(* A firmware is a record.  slots: the 16-byte slots of the EBDA and of    *)
(* the BIOS area, in the order of the search; mem: the table at each       *)
(* address.  A table has its signature, whether its bytes sum to zero, its *)
(* length and its contents: the pointers of a root table, the entries of a *)
(* MADT with the offset where each starts, the allocations of an MCFG, the *)
(* fields of the others at the offsets the code reads them from.           *)
(***************************************************************************)
EXTENDS Naturals, Sequences, FiniteSetsExt

CONSTANTS
  Firmwares,   \* the firmwares the machine may have
  MaxPolls     \* how often SCI_EN is read (3000000 in the code)

VARIABLES
  fw,            \* the firmware of this machine
  declared,      \* the MADT it declares (for the properties only)
  apc,           \* where the parser is
  root,          \* address of the RSDT or XSDT
  entry,         \* index into its pointers
  off,           \* offset into the table being parsed
  polls,         \* reads of SCI_EN so far
  requested, sci_en,   \* the SMI command was given; the SCI_EN bit
  acpi_status,
  local_apic, ioapics, isos, hpet, mcfgs,   \* what the statics hold
  devices        \* the registry of the device manager

acpi == <<apc, root, entry, off, polls, acpi_status, local_apic, ioapics,
          isos, hpet, mcfgs>>
firmware == <<fw, declared, requested, sci_en>>

(* Sizes of AcpiTableHeader, Madt and Mcfg, MadtIoApicEntry,               *)
(* MadtInterruptSourceOverride and McfgAllocation.                         *)
HeaderSize == 36
PrefixSize == 44
IoApicSize == 12
IsoSize == 10
AllocSize == 16

(* The slots with the signature and a valid checksum.                      *)
Rsdps(f) == {k \in DOMAIN f.slots : f.slots[k].sig /\ f.slots[k].sum}

TableAddress(rsdp) == IF rsdp.revision >= 2 THEN rsdp.xsdt ELSE rsdp.rsdt

EntryCount(t) == (t.len - HeaderSize) \div (IF t.sig = "RSDT" THEN 4 ELSE 8)

-----------------------------------------------------------------------------
(* What the firmware says, read off its structure and not by a walk: the   *)
(* tables a sound root names, and the structures that begin inside a MADT  *)
(* before one of length zero.                                              *)

Root(f) == f.mem[TableAddress(f.slots[Min(Rsdps(f))])]

Sound(r) == r.sum /\ r.sig \in {"RSDT", "XSDT"}

Named(f, k) == f.mem[Root(f).ptrs[k]]

SoundTables(f) ==
  IF Rsdps(f) = {} THEN {}
  ELSE IF ~Sound(Root(f)) THEN {}
  ELSE {t \in {Named(f, k) : k \in DOMAIN Root(f).ptrs} : t.sum}

Readable(t) ==
  {k \in DOMAIN t.entries :
     t.entries[k].start < t.len /\ \A j \in 1 .. k : t.entries[j].len > 0}

Such(t, type, size) ==
  {k \in DOMAIN t.entries : t.entries[k].type = type /\ t.entries[k].len >= size}

(* What the structures with an index in S hold, in their order.            *)
Rank(S, k) == Cardinality({j \in S : j <= k})

Listed(t, S) ==
  [n \in 1 .. Cardinality(S) |->
     t.entries[CHOOSE k \in {j \in S : Rank(S, j) = n} : TRUE].info]

Infos(t, type, size) == Listed(t, Such(t, type, size) \cap Readable(t))

NoMadt == [isos |-> <<>>, ioapics |-> <<>>, lapic |-> FALSE]

IsMadt(t) == t.sum /\ t.sig = "APIC"

DeclaredMadt(f) ==
  LET madts == {t \in SoundTables(f) : IsMadt(t)}
      t == CHOOSE m \in madts : TRUE
  IN  IF madts = {} THEN NoMadt
      ELSE [isos |-> Infos(t, "iso", IsoSize),
            ioapics |-> Infos(t, "ioapic", IoApicSize),
            lapic |-> t.lapic # 0]

(* The structures of a MADT follow one another and fill it.                *)
MadtOK(t) ==
  LET n == Len(t.entries)
      End(k) == IF k = 0 THEN PrefixSize ELSE t.entries[k].start + t.entries[k].len
  IN  /\ n \in Nat /\ DOMAIN t.entries = 1 .. n
      /\ \A k \in 1 .. n : /\ t.entries[k].len \in Nat /\ t.entries[k].start \in Nat
                          /\ t.entries[k].start = End(k - 1)
      /\ t.len \in Nat /\ t.len <= End(n)

(* An MCFG has the allocations that fit in it.                             *)
EcamRange == [seg : Nat, start_bus : Nat, end_bus : Nat]

McfgOK(t) ==
  /\ t.len \in Nat
  /\ \A k \in 1 .. t.len :
       PrefixSize + AllocSize * k <= t.len => k \in DOMAIN t.allocs /\ t.allocs[k] \in EcamRange

(* A root table has as many pointers as its length tells, and names one    *)
(* MADT at most.                                                           *)
RootOK(f) ==
  LET n == EntryCount(Root(f))
  IN  /\ n \in Nat /\ DOMAIN Root(f).ptrs = 1 .. n
      /\ \A j, k \in 1 .. n : IsMadt(Named(f, j)) /\ IsMadt(Named(f, k)) => j = k
      /\ \A k \in 1 .. n : IsMadt(Named(f, k)) => MadtOK(Named(f, k))
      /\ \A k \in 1 .. n : Named(f, k).sum /\ Named(f, k).sig = "MCFG" => McfgOK(Named(f, k))

ASSUME FirmwaresOK ==
  \A f \in Firmwares : Rsdps(f) # {} => (Sound(Root(f)) => RootOK(f))

-----------------------------------------------------------------------------
AcpiInit ==
  /\ fw \in Firmwares /\ declared = DeclaredMadt(fw)
  /\ apc = "find" /\ root = 0 /\ entry = 0 /\ off = 0 /\ polls = 0
  /\ requested = FALSE /\ sci_en = FALSE
  /\ acpi_status = "none" /\ local_apic = 0
  /\ ioapics = <<>> /\ isos = <<>> /\ hpet = [base |-> 0, period |-> 0]
  /\ mcfgs = <<>> /\ devices = <<>>

(* register_device of a component with vendor id 0xffff.  Nothing reads    *)
(* the memory ranges these entries list: they are left out.                *)
RegisterAcpi(name) ==
  devices' = Append(devices, [id |-> <<"ffff", name>>, resources |-> {},
                              capabilities |-> {}])

-----------------------------------------------------------------------------
(* find_rsdp and parse_rsdt_xsdt                                           *)

(* The first match.  Its being there is all that AcpiStatus tells.         *)
FindRsdp ==
  /\ apc = "find"
  /\ \/ /\ Rsdps(fw) = {}
        /\ apc' = "done" /\ acpi_status' = "NotAvailable"
        /\ UNCHANGED root
     \/ /\ Rsdps(fw) # {}
        /\ root' = TableAddress(fw.slots[Min(Rsdps(fw))])
        /\ apc' = "root" /\ acpi_status' = "Enabled"
  /\ UNCHANGED <<firmware, entry, off, polls, local_apic, ioapics, isos, hpet,
                 mcfgs, devices>>

ParseRoot ==
  /\ apc = "root"
  /\ apc' = IF Sound(fw.mem[root]) THEN "table" ELSE "done"
  /\ entry' = 0
  /\ UNCHANGED <<firmware, root, off, polls, acpi_status, local_apic, ioapics,
                 isos, hpet, mcfgs, devices>>

Table == fw.mem[fw.mem[root].ptrs[entry + 1]]

NextTable == apc' = "table" /\ entry' = entry + 1

(* print_table_info: a table whose checksum is wrong is passed over.       *)
(* parse_madt first stores the address of the Local APIC.                  *)
TableInfo ==
  /\ apc = "table" /\ entry < EntryCount(fw.mem[root])
  /\ off' = PrefixSize
  /\ IF ~Table.sum THEN NextTable /\ UNCHANGED devices
     ELSE /\ RegisterAcpi(Table.sig)
          /\ IF Table.sig \in {"FACP", "APIC", "HPET", "MCFG"}
             THEN apc' = Table.sig /\ UNCHANGED entry ELSE NextTable
  /\ local_apic' = IF apc' = "APIC" THEN Table.lapic ELSE local_apic
  /\ UNCHANGED <<firmware, root, polls, acpi_status, ioapics, isos, hpet, mcfgs>>

TablesDone ==
  /\ apc = "table" /\ entry >= EntryCount(fw.mem[root])
  /\ apc' = "done"
  /\ UNCHANGED <<firmware, root, entry, off, polls, acpi_status, local_apic,
                 ioapics, isos, hpet, mcfgs, devices>>

-----------------------------------------------------------------------------
(* parse_madt: structures of variable length, one after the other.         *)

(* The structure that starts at an offset.                                 *)
EntryAt(t, o) == t.entries[Min({k \in DOMAIN t.entries : t.entries[k].start = o})]

(* Mutant of TakeEntry: the length of an override is not looked at.        *)
TakeEntry_AnyLength(e) ==
  \/ /\ e.type = "ioapic" /\ e.len >= IoApicSize
     /\ ioapics' = Append(ioapics, e.info)
     /\ RegisterAcpi("IOAPIC")
     /\ UNCHANGED isos
  \/ /\ e.type = "iso"
     /\ isos' = Append(isos, e.info)
     /\ UNCHANGED <<ioapics, devices>>
  \/ /\ e.type = "ioapic" => e.len < IoApicSize
     /\ e.type # "iso"
     /\ UNCHANGED <<ioapics, isos, devices>>

(* An IOAPIC is read, recorded and registered.  Structures too short for   *)
(* their type and those of other types are skipped.                        *)
TakeEntry(e) ==
  \/ /\ e.type = "ioapic" /\ e.len >= IoApicSize
     /\ ioapics' = Append(ioapics, e.info)
     /\ RegisterAcpi("IOAPIC")
     /\ UNCHANGED isos
  \/ /\ e.type = "iso" /\ e.len >= IsoSize
     /\ isos' = Append(isos, e.info)
     /\ UNCHANGED <<ioapics, devices>>
  \/ /\ e.type = "ioapic" => e.len < IoApicSize
     /\ e.type = "iso" => e.len < IsoSize
     /\ UNCHANGED <<ioapics, isos, devices>>


(* A structure of length zero ends the walk; one that begins inside the    *)
(* table is taken even if it ends outside.                                 *)
MadtEntry ==
  /\ apc = "APIC" /\ off < Table.len
  /\ LET e == EntryAt(Table, off)
     IN  \/ /\ e.len = 0
            /\ NextTable
            /\ UNCHANGED <<off, ioapics, isos, devices>>
         \/ /\ e.len > 0
            /\ TakeEntry(e)
            /\ off' = off + e.len
            /\ UNCHANGED <<apc, entry>>
  /\ UNCHANGED <<firmware, root, polls, acpi_status, local_apic, hpet, mcfgs>>

MadtDone ==
  /\ apc = "APIC" /\ off >= Table.len
  /\ NextTable
  /\ UNCHANGED <<firmware, root, off, polls, acpi_status, local_apic, ioapics,
                 isos, hpet, mcfgs, devices>>

-----------------------------------------------------------------------------
(* parse_hpet: what lies where struct Hpet has its address and its period. *)
ParseHpet ==
  /\ apc = "HPET"
  /\ NextTable
  /\ IF Table.address # 0
     THEN /\ hpet' = [base |-> Table.address, period |-> Table.period]
          /\ RegisterAcpi("HPET")
     ELSE UNCHANGED <<hpet, devices>>
  /\ UNCHANGED <<firmware, root, off, polls, acpi_status, local_apic, ioapics,
                 isos, mcfgs>>

(* parse_mcfg: an allocation that does not fit in the table is not taken.  *)
McfgEntry ==
  /\ apc = "MCFG" /\ off + AllocSize <= Table.len
  /\ mcfgs' = Append(mcfgs, Table.allocs[(off - PrefixSize) \div AllocSize + 1])
  /\ RegisterAcpi("MCFG")
  /\ off' = off + AllocSize
  /\ UNCHANGED <<firmware, apc, root, entry, polls, acpi_status, local_apic,
                 ioapics, isos, hpet>>

McfgDone ==
  /\ apc = "MCFG" /\ off + AllocSize > Table.len
  /\ NextTable
  /\ UNCHANGED <<firmware, root, off, polls, acpi_status, local_apic, ioapics,
                 isos, hpet, mcfgs, devices>>

-----------------------------------------------------------------------------
(* parse_facp and enable_acpi: the disable command, then the enable        *)
(* command, if there is an SMI command port.                               *)
EnableAcpi ==
  /\ apc = "FACP"
  /\ sci_en' = (sci_en /\ ~(Table.smi_cmd /\ Table.acpi_disable))
  /\ requested' = (Table.smi_cmd /\ Table.acpi_enable)
  /\ polls' = 0
  /\ apc' = "sci"
  /\ UNCHANGED <<fw, declared, root, entry, off, acpi_status, local_apic, ioapics,
                 isos, hpet, mcfgs, devices>>

(* The firmware switches to ACPI mode some time after the command.         *)
SetSciEn ==
  /\ requested /\ ~sci_en
  /\ sci_en' = TRUE
  /\ UNCHANGED <<fw, declared, requested, acpi, devices>>

(* A bounded wait for SCI_EN; nobody learns that it timed out.             *)
PollSci ==
  /\ apc = "sci"
  /\ IF ~Table.pm1a \/ sci_en \/ polls = MaxPolls
     THEN NextTable /\ UNCHANGED polls
     ELSE polls' = polls + 1 /\ UNCHANGED <<apc, entry>>
  /\ UNCHANGED <<firmware, root, off, acpi_status, local_apic, ioapics, isos,
                 hpet, mcfgs, devices>>

InitAcpi ==
  \/ FindRsdp \/ ParseRoot \/ TableInfo \/ TablesDone
  \/ MadtEntry \/ MadtDone \/ ParseHpet \/ McfgEntry \/ McfgDone
  \/ EnableAcpi \/ PollSci

-----------------------------------------------------------------------------
(* What the parser has stored, as a MADT.                                  *)
Stored == [isos |-> isos, ioapics |-> ioapics, lapic |-> local_apic # 0]

(* In a MADT the walk, at offset o, has taken the first k - 1 structures   *)
(* and stored m.                                                           *)
Taken(t, k, o, m) ==
  /\ k \in 1 .. Len(t.entries) + 1
  /\ o = IF k = 1 THEN PrefixSize ELSE t.entries[k - 1].start + t.entries[k - 1].len
  /\ 1 .. k - 1 \subseteq Readable(t)
  /\ m = [isos |-> Listed(t, Such(t, "iso", IsoSize) \cap (1 .. k - 1)),
          ioapics |-> Listed(t, Such(t, "ioapic", IoApicSize) \cap (1 .. k - 1)),
          lapic |-> t.lapic # 0]

(* Past the first e tables, the walk has stored m: nothing until it has    *)
(* passed the MADT, and then what the firmware declares.                   *)
Passed(f, e, m) ==
  m = IF \E k \in 1 .. e : IsMadt(Named(f, k)) THEN DeclaredMadt(f) ELSE NoMadt

AcpiInv ==
  /\ fw \in Firmwares /\ declared = DeclaredMadt(fw)
  /\ apc \in {"find", "root"} => Stored = NoMadt
  /\ apc \notin {"find", "done", "handed_over"} =>
       Rsdps(fw) # {} /\ fw.mem[root] = Root(fw)
  /\ apc \notin {"find", "root", "done", "handed_over"} =>
       /\ Sound(Root(fw)) /\ entry \in 0 .. EntryCount(Root(fw))
       /\ apc # "table" => /\ entry < EntryCount(Root(fw)) /\ Table.sum
                           /\ Table.sig = IF apc = "sci" THEN "FACP" ELSE apc
       /\ apc = "APIC" => \E k \in 1 .. Len(Table.entries) + 1 :
                              Taken(Table, k, off, Stored)
       /\ apc # "APIC" => Passed(fw, entry, Stored)
  /\ apc \in {"done", "handed_over"} => Stored = declared

(* The ECAM ranges are those of an MCFG.                                   *)
McfgInv ==
  /\ mcfgs \in Seq(EcamRange)
  /\ apc = "MCFG" => /\ off \in Nat /\ PrefixSize <= off
                     /\ (off - PrefixSize) % AllocSize = 0

(* The registry is a list.  The parser's entries have no vendor.           *)
RegistryOK == devices \in Seq({devices[k] : k \in DOMAIN devices})

AcpiListed == \A k \in DOMAIN devices : devices[k].id[1] = "ffff"

=============================================================================
