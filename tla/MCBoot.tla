------------------------------- MODULE MCBoot -------------------------------
(* Firmwares that differ from a plain one in one respect at a time.        *)
(* Four legacy interrupts: 0 the timer, 1 the keyboard, 2 the cascade,     *)
(* which has no device, 3 the mouse.  Registers have 256 values, so that a *)
(* 64-bit BAR of 512 bytes reaches into its upper register.                *)
EXTENDS BootRouting, TLC

MCDevices == {0, 1, 3}

-----------------------------------------------------------------------------
(* MADTs: one, two or no IOAPICs, up to two overrides onto a GSI inside or *)
(* outside the legacy range, after the structure of a CPU; two share a GSI *)
(* when one of them is the cascade's.                                      *)

MCEntry(type, len, info) == [type |-> type, len |-> len, info |-> info]
MCCpu == MCEntry("cpu", 8, NoMadt)
MCIso(s, g) == MCEntry("iso", 10, [source |-> s, gsi |-> g])
MCIoApic(b, n) == MCEntry("ioapic", 12, [gsi_base |-> b, redir_entries |-> n])

MCIsos ==
  LET one == {MCIso(s, g) : s \in {0, 1, 3}, g \in {1, 2, 3, 4}}
  IN  {<<>>} \cup {<<a>> : a \in one}
      \cup {s \in one \X one :
              /\ s[1].info.source < s[2].info.source
              /\ s[1].info.gsi # s[2].info.gsi}
      \cup {<<MCIso(s, g), MCIso(2, g)>> : s \in {0, 3}, g \in {2, 4}}
      \cup {<<MCIso(2, g), MCIso(s, g)>> : s \in {0, 3}, g \in {2, 4}}

MCIoApics == {<<>>, <<MCIoApic(0, 5)>>, <<MCIoApic(2, 4), MCIoApic(0, 2)>>}

MCTable(sig) == [sig |-> sig, sum |-> TRUE, len |-> 36]

(* A MADT whose length is `less` short of its structures.                  *)
MCEnd(entries, k) == 44 + MapThenSumSet(LAMBDA j : entries[j].len, 1 .. k)

MCMadt(entries, less, lapic) ==
  [sig |-> "APIC", sum |-> TRUE, lapic |-> lapic,
   entries |-> [k \in DOMAIN entries |-> entries[k] @@ [start |-> MCEnd(entries, k - 1)]],
   len |-> MCEnd(entries, Len(entries)) - less]

(* Structures too short for their type, one of length zero with an         *)
(* override behind it, a last one that begins inside the table only.       *)
MCOddMadts ==
  LET start == <<MCIoApic(0, 5), MCCpu>>
  IN  {MCMadt(start \o <<[MCIso(1, 4) EXCEPT !.len = 9], MCIso(3, 4)>>, 0, 1),
       MCMadt(<<[MCIoApic(0, 5) EXCEPT !.len = 8]>> \o start, 0, 1),
       MCMadt(<<[MCIoApic(0, 5) EXCEPT !.len = 14], MCIso(3, 2)>>, 0, 1),
       MCMadt(start \o <<[MCIso(3, 4) EXCEPT !.len = 12], MCIso(0, 2)>>, 0, 1),
       MCMadt(start \o <<MCEntry("iso", 0, NoMadt), MCIso(3, 2)>>, 0, 1),
       MCMadt(start \o <<MCIso(3, 2)>>, 9, 1),
       MCMadt(start \o <<MCIso(3, 2)>>, 10, 1),
       MCMadt(<<>>, 0, 1)}

MCMadtTables ==
  MCOddMadts \cup
  {MCMadt(<<MCCpu>> \o a \o o, 0, 1) : a \in MCIoApics, o \in MCIsos} \cup
  {MCMadt(a \o <<o>>, 0, 0) : a \in MCIoApics, o \in {MCIso(0, 2), MCIso(3, 4)}}

-----------------------------------------------------------------------------
(* PCI functions, by segment, bus, slot and function.                      *)

MCBar(kind, flags, addr, len) ==
  [kind |-> kind, flags |-> flags, addr |-> addr, len |-> len]

MCFunc(id) ==
  [id |-> <<"1234", id>>, multifunction |-> FALSE, bars |-> <<>>, windows |-> <<>>,
   irq |-> 0, cap_ptr |-> 0, caps |-> <<>>]

MCCap(kind, next) == [kind |-> kind, next |-> next]

MCVga ==
  [MCFunc("vga") EXCEPT
     !.bars = (0 :> MCBar("mem", 8, 64, 32)) @@ (1 :> MCBar("mem64", 4, 1536, 512))
                @@ (3 :> MCBar("io", 1, 96, 8))]
MCNic(base) ==
  [MCFunc("nic") EXCEPT
     !.bars = (0 :> MCBar("io", 1, base, 4)) @@ (2 :> MCBar("mem64", 12, base, 64)),
     !.irq = 11, !.cap_ptr = 64,
     !.caps = (64 :> MCCap("Power", 72)) @@ (72 :> MCCap("Msi", 80))
                @@ (80 :> MCCap("Msix", 0))]
MCLoop ==
  [MCFunc("loop") EXCEPT
     !.irq = 255, !.cap_ptr = 66, !.multifunction = TRUE,
     !.bars = (0 :> MCBar("mem", 0, 0, 16)),
     !.caps = (64 :> MCCap("PciExpress", 72)) @@ (72 :> MCCap("Msi", 64))]
MCBridge ==
  [MCFunc("bridge") EXCEPT
     !.windows = (2 :> [part |-> 1, val |-> 68]) @@ (3 :> [part |-> 16, val |-> 17])]

MCBuses ==
  {<<>>,
   (<<0, 0, 0, 0>> :> MCVga) @@ (<<0, 1, 1, 0>> :> MCNic(128)),
   (<<0, 0, 1, 0>> :> MCNic(64)) @@ (<<0, 1, 0, 0>> :> MCNic(128)),
   (<<0, 0, 0, 0>> :> MCLoop) @@ (<<0, 0, 0, 1>> :> MCVga)
     @@ (<<0, 0, 1, 1>> :> MCNic(64)),
   (<<0, 0, 0, 0>> :> MCBridge) @@ (<<1, 0, 0, 0>> :> MCNic(64))}

MCAlloc(seg, a, b) == [seg |-> seg, start_bus |-> a, end_bus |-> b]

MCMcfg(allocs, extra) ==
  [sig |-> "MCFG", sum |-> TRUE, allocs |-> allocs,
   len |-> 44 + 16 * Len(allocs) + extra]

MCMcfgs ==
  {MCMcfg(<<>>, 8), MCMcfg(<<MCAlloc(0, 0, 1)>>, 0),
   MCMcfg(<<MCAlloc(0, 1, 1), MCAlloc(1, 0, 0)>>, 15)}

-----------------------------------------------------------------------------
(* FACPs, HPETs and timers.                                                *)

MCFacps ==
  [sig : {"FACP"}, sum : {TRUE}, len : {244}, smi_cmd : BOOLEAN,
   acpi_enable : BOOLEAN, acpi_disable : BOOLEAN, pm1a : BOOLEAN]

MCHpet(a, p) ==
  [sig |-> "HPET", sum |-> TRUE, len |-> 56, address |-> a, period |-> p]

MCTimer ==
  [supported |-> TRUE, mappable |-> TRUE, counts |-> TRUE, phase |-> 0,
   period |-> 2]

(* Counters that cannot be used, with and without a period; then every     *)
(* phase of one that can, whose period the table has right or wrong.  With *)
(* no IOAPIC, as no device interrupts before the timer is set.             *)
MCTimers ==
  {<<MCHpet(a, p), t>> :
     a \in {1, 9}, p \in {0, 2},
     t \in {MCTimer, [MCTimer EXCEPT !.supported = FALSE],
           [MCTimer EXCEPT !.mappable = FALSE], [MCTimer EXCEPT !.counts = FALSE]}}
  \cup {<<MCHpet(1, p), [MCTimer EXCEPT !.phase = q]>> : p \in {2, 3}, q \in 0 .. 15}

-----------------------------------------------------------------------------
(* Firmwares.  The root table names a FACP, a table of no interest, a MADT,*)
(* an HPET and an MCFG.                                                    *)

MCFacp == [sig |-> "FACP", sum |-> TRUE, len |-> 244, smi_cmd |-> TRUE,
           acpi_enable |-> TRUE, acpi_disable |-> TRUE, pm1a |-> FALSE]

MCSlot(sig, sum, rev) ==
  [sig |-> sig, sum |-> sum, revision |-> rev, rsdt |-> 2, xsdt |-> 1]

MCRoot(sig, size, n) ==
  [sig |-> sig, sum |-> TRUE, len |-> 36 + size * n, ptrs |-> <<10, 11, 12, 13, 14>>]

MCFirmware ==
  [slots |-> <<MCSlot(FALSE, TRUE, 2), MCSlot(TRUE, TRUE, 2)>>,
   mem |-> (1 :> MCRoot("XSDT", 8, 5)) @@ (2 :> MCRoot("RSDT", 4, 5))
             @@ (10 :> MCFacp) @@ (11 :> MCTable("SSDT"))
             @@ (12 :> MCMadt(<<MCIoApic(0, 5), MCIso(3, 4)>>, 0, 1))
             @@ (13 :> MCHpet(0, 0)) @@ (14 :> MCMcfg(<<>>, 0)),
   pci |-> <<>>,
   timer |-> [MCTimer EXCEPT !.supported = FALSE]]

MCPut(k, t) == [MCFirmware EXCEPT !.mem = (k :> t) @@ @]

MCAll ==
  {MCPut(12, m) : m \in MCMadtTables}
  \cup {MCPut(10, f) : f \in MCFacps}
  \cup {MCPut(k, [MCFirmware.mem[k] EXCEPT !.sum = FALSE]) : k \in {1, 10, 11, 12}}
  \cup {MCPut(1, MCTable("SSDT"))}
  \cup {[MCFirmware EXCEPT !.slots = s] :
          s \in {<<>>, <<MCSlot(TRUE, FALSE, 2)>>,
                 <<MCSlot(TRUE, FALSE, 2), MCSlot(TRUE, TRUE, 0)>>}}
  \cup {[MCPut(14, m) EXCEPT !.pci = b] : m \in MCMcfgs, b \in MCBuses}
  \cup {[MCFirmware EXCEPT !.mem = (12 :> MCMadt(<<>>, 0, 1)) @@ (13 :> t[1]) @@ @,
                            !.timer = t[2]] : t \in MCTimers}
  \cup {[MCFirmware EXCEPT !.timer = MCTimer]}

(* No two devices share a line.                                            *)
MCFirmwares ==
  {f \in MCAll :
     \A s, t \in MCDevices :
       Gsi(DeclaredMadt(f), s) = Gsi(DeclaredMadt(f), t) => s = t}

MCMadts == {NoMadt} \cup {DeclaredMadt(f) : f \in MCFirmwares}

=============================================================================
