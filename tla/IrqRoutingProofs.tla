-------------------------- MODULE IrqRoutingProofs --------------------------
(***************************************************************************)
(* Proofs about IrqRouting for every number of legacy interrupts, every    *)
(* set of devices and every MADT: any number of IOAPICs, in any order,     *)
(* and any overrides, inside and outside the legacy range.                 *)
(***************************************************************************)
EXTENDS IrqRouting, TLAPS

-----------------------------------------------------------------------------
(* Pins, vectors, lines.                                                   *)

(* A GSI has one pin at most, and a pin one GSI.                           *)
LEMMA PinFacts ==
  ASSUME NEW m \in Madts, NEW g \in Nat
  PROVE  /\ Pins(m.ioapics, g) \subseteq AllPins(m.ioapics)
         /\ \A p, q \in Pins(m.ioapics, g) : p = q
         /\ \A h \in Nat : \A p \in Pins(m.ioapics, g) \cap Pins(m.ioapics, h) : g = h
<1> DEFINE ios == m.ioapics
<1>1. /\ ios \in Seq(IoApicInfo)
      /\ \A j, k \in DOMAIN ios :
           ios[j].gsi_base <= ios[k].gsi_base /\ j # k =>
             ios[j].gsi_base + ios[j].redir_entries <= ios[k].gsi_base
  BY Zenon, MadtsOK DEF Madt
<1> HIDE DEF ios
<1>2. ASSUME NEW k \in DOMAIN ios
      PROVE  ios[k].gsi_base \in Nat /\ ios[k].redir_entries \in Nat
  <2>1. ios[k] \in IoApicInfo
    BY <1>1, <1>2
  <2> QED
    BY Zenon, <2>1 DEF IoApicInfo
<1>3. ASSUME NEW h \in Nat, NEW p \in Pins(ios, h)
      PROVE  \E k \in DOMAIN ios : /\ p = <<k, h - ios[k].gsi_base>>
                                  /\ h >= ios[k].gsi_base
                                  /\ h < ios[k].gsi_base + ios[k].redir_entries
  BY Zenon, <1>3 DEF Pins
<1>4. ASSUME NEW p \in Pins(ios, g) PROVE p \in AllPins(ios)
  <2>1. PICK k \in DOMAIN ios : /\ p = <<k, g - ios[k].gsi_base>>
                                /\ g >= ios[k].gsi_base
                                /\ g < ios[k].gsi_base + ios[k].redir_entries
    BY Zenon, <1>3, <1>4
  <2>2. g - ios[k].gsi_base \in 0 .. ios[k].redir_entries - 1
    BY <1>2, <2>1
  <2> QED
    BY <2>1, <2>2 DEF AllPins
<1>5. ASSUME NEW p \in Pins(ios, g), NEW q \in Pins(ios, g) PROVE p = q
  <2>1. PICK j \in DOMAIN ios : /\ p = <<j, g - ios[j].gsi_base>>
                                /\ g >= ios[j].gsi_base
                                /\ g < ios[j].gsi_base + ios[j].redir_entries
    BY Zenon, <1>3, <1>5
  <2>2. PICK k \in DOMAIN ios : /\ q = <<k, g - ios[k].gsi_base>>
                                /\ g >= ios[k].gsi_base
                                /\ g < ios[k].gsi_base + ios[k].redir_entries
    BY Zenon, <1>3, <1>5
  <2>3. j = k
    <3>1. /\ ios[j].gsi_base \in Nat /\ ios[j].redir_entries \in Nat
          /\ ios[k].gsi_base \in Nat /\ ios[k].redir_entries \in Nat
      BY Zenon, <1>2
    <3>2. CASE ios[j].gsi_base <= ios[k].gsi_base
      BY <1>1, <2>1, <2>2, <3>1, <3>2
    <3>3. CASE ios[k].gsi_base <= ios[j].gsi_base
      BY <1>1, <2>1, <2>2, <3>1, <3>3
    <3> QED
      BY <3>1, <3>2, <3>3
  <2> QED
    BY Zenon, <2>1, <2>2, <2>3
<1>6. ASSUME NEW h \in Nat, NEW p \in Pins(ios, g) \cap Pins(ios, h) PROVE g = h
  <2>1. PICK j \in DOMAIN ios : p = <<j, g - ios[j].gsi_base>>
    BY Zenon, <1>3, <1>6
  <2>2. PICK k \in DOMAIN ios : p = <<k, h - ios[k].gsi_base>>
    BY Zenon, <1>3, <1>6
  <2>3. j = k /\ g - ios[j].gsi_base = h - ios[j].gsi_base
    BY <2>1, <2>2
  <2> QED
    BY <1>2, <2>3
<1> QED
  BY Zenon, <1>4, <1>5, <1>6 DEF ios

LEMMA VectorFacts ==
  /\ 0 \notin Vectors
  /\ \A s \in Legacy : Vector(s) \in Vectors
  /\ \A s, t \in Legacy : Vector(s) = Vector(t) => s = t
<1>1. \A s \in Legacy : s \in Nat /\ s < 16
  BY LegacyOK DEF Legacy
<1>2. \A s \in Legacy : Vector(s) = 32 + s
  BY <1>1 DEF Vector
<1> QED
  BY <1>1, <1>2 DEF Vectors

LEMMA LegacyDevices ==
  /\ {0, Kbd, Mouse} \subseteq Legacy /\ {Kbd, Mouse} \subseteq Devices
  /\ Kbd # Mouse /\ Kbd # 0 /\ Mouse # 0 /\ Legacy \subseteq Nat /\ ApicId \in Nat
<1>1. NLegacy \in 1 .. 16 /\ Devices \subseteq Legacy /\ {Kbd, Mouse} \subseteq Devices
  BY Zenon, LegacyOK
<1>2. 0 \in Legacy /\ Legacy \subseteq Nat
  BY <1>1 DEF Legacy
<1> QED
  BY <1>1, <1>2, LegacyOK, Zenon

LEMMA GsiType ==
  ASSUME NEW m \in Madts
  PROVE  /\ \A k \in DOMAIN m.isos : m.isos[k].gsi \in Nat /\ m.isos[k].source \in Legacy
         /\ \A s \in Legacy : Gsi(m, s) \in Nat
<1>1. m.isos \in Seq(Iso)
  BY Zenon, MadtsOK DEF Madt
<1>2. ASSUME NEW k \in DOMAIN m.isos
      PROVE  m.isos[k].gsi \in Nat /\ m.isos[k].source \in Legacy
  <2>1. m.isos[k] \in Iso
    BY <1>1, <1>2
  <2> QED
    BY Zenon, <2>1 DEF Iso
<1> QED
  BY Zenon, <1>2, LegacyDevices DEF Gsi

-----------------------------------------------------------------------------
(* One write of a redirection entry.                                       *)

(* The entry of the pin in P, if there is one, gets dest or low.           *)
Wrote(P, D, dest, low) ==
  /\ redir' \in [D -> Entry]
  /\ \A q \in D \ P : redir'[q] = redir[q]
  /\ \/ P = {} /\ i' = i + 1 /\ half' = half
     \/ /\ P # {} /\ i' = i /\ half = "high" /\ half' = "low"
        /\ \A p \in P : /\ redir'[p].dest = dest
                        /\ redir'[p].vector = redir[p].vector
                        /\ redir'[p].masked = redir[p].masked
     \/ /\ P # {} /\ i' = i + 1 /\ half = "low" /\ half' = "high"
        /\ \A p \in P : /\ redir'[p].dest = redir[p].dest
                        /\ redir'[p].vector = low.vector
                        /\ redir'[p].masked = low.masked

LEMMA ProgramFacts ==
  ASSUME NEW m \in Madts, NEW g \in Nat, NEW dest \in {0, ApicId},
         NEW low \in [vector : {0} \cup Vectors, masked : BOOLEAN],
         redir \in [AllPins(m.ioapics) -> Entry], table = m.ioapics,
         Program(g, dest, low)
  PROVE  Wrote(Pins(m.ioapics, g), AllPins(m.ioapics), dest, low)
<1> DEFINE P == Pins(m.ioapics, g)
           D == AllPins(m.ioapics)
<1>1. P \subseteq D /\ (\A p, q \in P : p = q) /\ redir \in [D -> Entry]
  BY Zenon, PinFacts
<1>2. \/ P = {} /\ i' = i + 1 /\ UNCHANGED <<redir, half>>
      \/ \E p \in P :
           \/ /\ half = "high" /\ half' = "low" /\ UNCHANGED i
              /\ redir' = [redir EXCEPT ![p].dest = dest]
           \/ /\ half = "low" /\ half' = "high" /\ i' = i + 1
              /\ redir' = [redir EXCEPT ![p].vector = low.vector,
                                        ![p].masked = low.masked]
  BY Zenon DEF Program
<1> HIDE DEF P, D
<1>3. ASSUME NEW p \in P, half = "high", half' = "low", UNCHANGED i,
             redir' = [redir EXCEPT ![p].dest = dest]
      PROVE  /\ redir' \in [D -> Entry] /\ P = {p}
             /\ \A q \in D \ P : redir'[q] = redir[q]
             /\ redir'[p].dest = dest /\ redir'[p].vector = redir[p].vector
             /\ redir'[p].masked = redir[p].masked
  <2>1. redir[p] \in Entry /\ p \in D /\ P = {p}
    BY Zenon, <1>1
  <2>2. redir' = [redir EXCEPT ![p] = [redir[p] EXCEPT !.dest = dest]]
    BY Zenon, <1>3
  <2> QED
    BY Zenon, <1>1, <2>1, <2>2 DEF Entry
<1>4. ASSUME NEW p \in P, half = "low", half' = "high", i' = i + 1,
             redir' = [redir EXCEPT ![p].vector = low.vector,
                                    ![p].masked = low.masked]
      PROVE  /\ redir' \in [D -> Entry] /\ P = {p}
             /\ \A q \in D \ P : redir'[q] = redir[q]
             /\ redir'[p].dest = redir[p].dest /\ redir'[p].vector = low.vector
             /\ redir'[p].masked = low.masked
  <2>1. redir[p] \in Entry /\ p \in D /\ P = {p}
    BY Zenon, <1>1
  <2>2. redir' = [redir EXCEPT ![p] = [redir[p] EXCEPT !.vector = low.vector,
                                                       !.masked = low.masked]]
    BY <1>1, <1>4, <2>1, Zenon
  <2> QED
    BY <1>1, <2>1, <2>2, Zenon DEF Entry
<1>5. Wrote(P, D, dest, low)
  <2>1. CASE P = {}
    BY Zenon, <1>1, <1>2, <2>1 DEF Wrote
  <2>2. CASE P # {}
    <3>1. PICK p \in P :
            \/ /\ half = "high" /\ half' = "low" /\ UNCHANGED i
               /\ redir' = [redir EXCEPT ![p].dest = dest]
            \/ /\ half = "low" /\ half' = "high" /\ i' = i + 1
               /\ redir' = [redir EXCEPT ![p].vector = low.vector,
                                         ![p].masked = low.masked]
      BY Zenon, <1>2, <2>2
    <3>2. CASE half = "high"
      BY Zenon, <1>3, <3>1, <3>2 DEF Wrote
    <3>3. CASE half = "low"
      BY <1>4, <3>1, <3>3 DEF Wrote
    <3> QED
      BY Zenon, <3>1, <3>2, <3>3
  <2> QED
    BY Zenon, <2>1, <2>2
<1> QED
  BY Zenon, <1>5 DEF P, D

(* A turn of one of the five loops: what it writes, by the loop.           *)
LEMMA ProgramKeepsInv ==
  ASSUME IrqInv, NEW g, Writing = {g},
         NEW dest \in {0, ApicId},
         NEW low \in [vector : {0} \cup Vectors, masked : BOOLEAN],
         Program(g, dest, low),
         UNCHANGED <<madt, pc, table, idt, intr, delivered>>,
         pc \in {"apply_isos", "legacy_fallback"} => low.masked,
         pc \notin {"apply_isos", "legacy_fallback"} => dest = ApicId /\ ~low.masked,
         Pins(madt.ioapics, g) # {} => low.vector # 0,
         pc = "apply_isos" => low.vector = Vector(madt.isos[i].source),
         pc = "legacy_fallback" => low.vector = Vector(g),
         pc \in {"enable_isos", "enable_legacy"} =>
           \A p \in Pins(madt.ioapics, g) : low.vector = redir[p].vector,
         pc = "unmask_gsi" => low.vector = Vector(Mouse)
  PROVE  IrqInv'
<1> DEFINE P == Pins(madt.ioapics, g)
           D == AllPins(madt.ioapics)
<1>1. /\ madt \in Madts /\ TypeOK /\ i \in Nat /\ DOMAIN redir = D
      /\ redir \in [D -> Entry] /\ half \in {"high", "low"}
  BY Zenon DEF IrqInv, TypeOK, ControlInv
<1>2. /\ pc \in {"apply_isos", "enable_isos", "legacy_fallback", "enable_legacy", "unmask_gsi"}
      /\ pc \in {"apply_isos", "enable_isos"} =>
           i \in DOMAIN madt.isos /\ g = madt.isos[i].gsi
      /\ pc \in {"legacy_fallback", "enable_legacy"} => i \in Legacy /\ g = i
      /\ pc = "unmask_gsi" => i = 0 /\ g = Gsi(madt, Mouse)
  <2>1. CASE pc \in {"apply_isos", "enable_isos"}
    <3>1. {madt.isos[k].gsi : k \in DOMAIN madt.isos \cap {i}} = {g}
      BY Zenon, <2>1 DEF Writing
    <3> QED
      BY <2>1, <3>1
  <2>2. CASE pc \in {"legacy_fallback", "enable_legacy"}
    <3>1. Legacy \cap {i} = {g}
      BY Zenon, <2>2 DEF Writing
    <3> QED
      BY Zenon, <2>2, <3>1
  <2>3. CASE pc = "unmask_gsi"
    BY Zenon, <2>3 DEF Writing
  <2>4. CASE pc \notin {"apply_isos", "enable_isos", "legacy_fallback",
                       "enable_legacy", "unmask_gsi"}
    BY Zenon, <2>4 DEF Writing
  <2> QED
    BY Zenon, <2>1, <2>2, <2>3, <2>4
<1>3. g \in Nat
  BY <1>1, <1>2, GsiType, LegacyDevices, Zenon
<1>4. table = madt.ioapics
  BY Zenon, <1>2 DEF IrqInv, ControlInv
<1>a. Wrote(P, D, dest, low)
  BY Zenon, <1>1, <1>3, <1>4, ProgramFacts
<1>5. /\ redir' \in [D -> Entry]
      /\ \A q \in D \ P : redir'[q] = redir[q]
      /\ \/ P = {} /\ i' = i + 1 /\ half' = half
         \/ /\ P # {} /\ i' = i /\ half = "high" /\ half' = "low"
            /\ \A p \in P : /\ redir'[p].dest = dest
                            /\ redir'[p].vector = redir[p].vector
                            /\ redir'[p].masked = redir[p].masked
         \/ /\ P # {} /\ i' = i + 1 /\ half = "low" /\ half' = "high"
            /\ \A p \in P : /\ redir'[p].dest = redir[p].dest
                            /\ redir'[p].vector = low.vector
                            /\ redir'[p].masked = low.masked
  BY Zenon, <1>a DEF Wrote
<1>6. /\ P \subseteq D /\ \A p, q \in P : p = q
      /\ \A h \in Nat : \A p \in P \cap Pins(madt.ioapics, h) : g = h
      /\ \A h \in Nat : Pins(madt.ioapics, h) \subseteq D
  BY <1>1, <1>3, PinFacts, Zenon
<1> HIDE DEF P, D
<1>7. half = "low" => \A p \in P : pc \notin {"apply_isos", "legacy_fallback"} =>
                                    redir[p].dest = ApicId
  BY Zenon, <1>6 DEF IrqInv, HalfInv, P
<1>8. half = "low" => P # {}
  BY Zenon DEF IrqInv, HalfInv, P
<1>9. madt' = madt /\ pc' = pc /\ table' = table /\ idt' = idt /\ intr' = intr
      /\ delivered' = delivered /\ DOMAIN redir' = D /\ i' \in Nat
      /\ half' \in {"high", "low"} /\ (i' = i \/ i' = i + 1)
  BY <1>1, <1>5
<1> DEFINE Pn(h) == Pins(madt.ioapics, h)
<1>10. TypeOK'
  BY Zenon, <1>1, <1>5, <1>9 DEF TypeOK, D
<1>11. UnmaskedIsComplete'
  <2>1. SUFFICES ASSUME NEW p \in D, ~redir'[p].masked
                 PROVE  redir'[p].dest = ApicId /\ redir'[p].vector \in DOMAIN idt
    BY Zenon, <1>9 DEF UnmaskedIsComplete
  <2>2. ~redir[p].masked => redir[p].dest = ApicId /\ redir[p].vector \in DOMAIN idt
    BY Zenon, <1>1, <2>1 DEF IrqInv, UnmaskedIsComplete
  <2>3. pc \in {"apply_isos", "legacy_fallback"} => redir[p].masked
    BY Zenon, <1>1, <2>1 DEF IrqInv, MaskInv
  <2>4. CASE p \notin P
    BY Zenon, <1>5, <2>1, <2>2, <2>4
  <2>5. CASE p \in P /\ half' = "low"
    BY Zenon, <1>5, <1>8, <2>1, <2>2, <2>3, <2>5
  <2>6. CASE p \in P /\ half' = "high"
    <3>1. pc \notin {"apply_isos", "legacy_fallback"} /\ low.vector # 0 /\ redir'[p].dest = redir[p].dest
          /\ redir'[p].vector = low.vector /\ half = "low"
      BY Zenon, <1>5, <2>1, <2>6 DEF P
    <3>2. low.vector \in DOMAIN idt
      BY Zenon, <1>1, <3>1 DEF TypeOK
    <3> QED
      BY Zenon, <1>7, <2>6, <3>1, <3>2
  <2> QED
    BY Zenon, <1>9, <2>4, <2>5, <2>6
<1>12. KeyboardHandled'
  BY Zenon, <1>9 DEF IrqInv, KeyboardHandled
<1>13. MouseHandled'
  BY Zenon, <1>2, <1>9 DEF IrqInv, MouseHandled
<1>14. ControlInv' /\ HandlerInv'
  BY <1>1, <1>2, <1>9 DEF IrqInv, ControlInv, HandlerInv
<1>15. HalfInv'
  <2>1. SUFFICES ASSUME half' = "low" PROVE
           \E h \in Writing' : \E p \in Pins(madt'.ioapics, h) :
             pc' \notin {"apply_isos", "legacy_fallback"} => redir'[p].dest = ApicId
    BY Zenon DEF HalfInv
  <2>2. i' = i /\ P # {} /\ \A p \in P : redir'[p].dest = dest
    BY Zenon, <1>5, <1>8, <2>1
  <2>3. Writing' = Writing
    BY <1>9, <2>2 DEF Writing
  <2>4. PICK p \in P : TRUE
    BY Zenon, <2>2
  <2> QED
    BY Zenon, <1>9, <2>2, <2>3, <2>4 DEF P
<1>16. MaskInv'
  <2>1. SUFFICES ASSUME pc \in {"apply_isos", "legacy_fallback"}, NEW p \in D
                 PROVE  redir'[p].masked
    BY Zenon, <1>2, <1>9 DEF IrqInv, ControlInv, MaskInv
  <2>2. redir[p].masked /\ low.masked
    BY Zenon, <1>1, <2>1 DEF IrqInv, MaskInv
  <2> QED
    BY <1>5, <1>8, <2>2, Zenon
<1>17. ASSUME NEW k \in DOMAIN madt'.isos, IsoApplied(k)',
              NEW p \in Pins(madt'.ioapics, madt'.isos[k].gsi)
       PROVE  redir'[p].vector # 0
  <2>1. k \in DOMAIN madt.isos /\ p \in Pn(madt.isos[k].gsi) /\ madt.isos[k].gsi \in Nat
    BY Zenon, <1>1, <1>9, <1>17, GsiType
  <2>2. k \in Nat
    BY <1>1, <2>1, MadtsOK DEF Madt
  <2>3. CASE IsoApplied(k)
    <3>1. redir[p].vector # 0 /\ p \in D
      BY Zenon, <1>6, <2>1, <2>3 DEF IrqInv, VectorInv
    <3> QED
      BY Zenon, <1>5, <3>1 DEF P
  <2>4. CASE ~IsoApplied(k)
    <3>1. pc = "apply_isos" /\ k = i /\ i' = i + 1
      BY <1>1, <1>2, <1>9, <1>17, <2>2, <2>4 DEF IsoApplied
    <3>2. p \in P
      BY Zenon, <1>2, <2>1, <3>1 DEF P
    <3> QED
      BY <1>1, <1>5, <3>1, <3>2 DEF P
  <2> QED
    BY Zenon, <2>3, <2>4
<1>18. ASSUME NEW h \in Legacy, FallbackApplied(h)', NEW p \in Pn(h)
       PROVE  \/ redir'[p].vector = Vector(h)
              \/ /\ madt.lapic /\ h = Gsi(madt, Mouse)
                 /\ redir'[p].vector = Vector(Mouse)
  <2>1. h \in Nat /\ p \in D
    BY Zenon, <1>6, LegacyDevices
  <2>2. CASE FallbackApplied(h)
    <3>1. \/ redir[p].vector = Vector(h)
          \/ madt.lapic /\ h = Gsi(madt, Mouse) /\ redir[p].vector = Vector(Mouse)
      BY Zenon, <1>18, <2>2 DEF IrqInv, VectorInv, MouseHas
    <3>2. CASE p \notin P
      BY Zenon, <1>5, <2>1, <3>1, <3>2
    <3>3. CASE p \in P
      <4>1. h = g /\ pc # "apply_isos"
        BY Zenon, <1>6, <1>18, <2>1, <2>2, <3>3 DEF FallbackApplied
      <4>2. pc # "legacy_fallback"
        BY <1>1, <1>2, <2>1, <2>2, <4>1 DEF FallbackApplied
      <4>3. CASE pc = "unmask_gsi"
        <5>1. madt.lapic
          BY Zenon, <4>3 DEF IrqInv, ControlInv
        <5> QED
          BY Zenon, <1>2, <1>5, <3>1, <3>3, <4>1, <4>3, <5>1
      <4>4. CASE pc \in {"enable_isos", "enable_legacy"}
        <5>1. low.vector = redir[p].vector
          BY Zenon, <3>3, <4>4 DEF P
        <5> QED
          BY Zenon, <1>5, <3>1, <3>3, <5>1
      <4> QED
        BY Zenon, <1>2, <4>1, <4>2, <4>3, <4>4
    <3> QED
      BY Zenon, <3>2, <3>3
  <2>3. CASE ~FallbackApplied(h)
    <3>1. pc = "legacy_fallback" /\ h = i /\ i' = i + 1
      BY <1>1, <1>2, <1>9, <1>18, <2>1, <2>3 DEF FallbackApplied
    <3>2. p \in P /\ g = h
      BY Zenon, <1>2, <1>18, <3>1 DEF P
    <3> QED
      BY <1>1, <1>5, <3>1, <3>2
  <2> QED
    BY Zenon, <2>2, <2>3
<1>19. ASSUME (pc' = "unmask_gsi" /\ i' = 1) \/ (pc' = "run" /\ madt'.lapic),
              NEW p \in Pins(madt'.ioapics, Gsi(madt', Mouse))
       PROVE  ~redir'[p].masked /\ redir'[p].vector = Vector(Mouse)
  <2>1. pc = "unmask_gsi" /\ i' = i + 1 /\ p \in P
    BY <1>1, <1>2, <1>9, <1>19 DEF P
  <2> QED
    BY <1>1, <1>5, <2>1
<1>b. ASSUME NEW k \in DOMAIN madt.isos, IsoApplied(k)', LastOnLine(k),
              madt.isos[k].gsi \notin Legacy, NEW p \in Pn(madt.isos[k].gsi)
       PROVE  \/ redir'[p].vector = Vector(madt.isos[k].source)
              \/ /\ madt.lapic /\ madt.isos[k].gsi = Gsi(madt, Mouse)
                 /\ redir'[p].vector = Vector(Mouse)
  <2> DEFINE h == madt.isos[k].gsi
  <2>1. h \in Nat /\ k \in Nat
    BY <1>1, GsiType, MadtsOK DEF Madt
  <2>2. p \in D
    BY Zenon, <1>6, <1>b, <2>1
  <2>3. p \in P => g = h
    BY Zenon, <1>6, <1>b, <2>1
  <2>4. CASE IsoApplied(k)
    <3>1. \/ redir[p].vector = Vector(madt.isos[k].source)
          \/ madt.lapic /\ h = Gsi(madt, Mouse) /\ redir[p].vector = Vector(Mouse)
      BY Zenon, <1>b, <2>4 DEF IrqInv, VectorInv, MouseHas
    <3>2. CASE p \notin P
      BY Zenon, <1>5, <2>2, <3>1, <3>2
    <3>3. CASE p \in P
      <4>1. pc # "legacy_fallback"
        BY Zenon, <1>2, <1>b, <2>3, <3>3
      <4>2. pc # "apply_isos"
        <5>1. SUFFICES ASSUME pc = "apply_isos" PROVE FALSE
          BY Zenon
        <5>2. i \in DOMAIN madt.isos /\ madt.isos[i].gsi = h /\ k < i
          BY Zenon, <1>2, <2>3, <2>4, <3>3, <5>1 DEF IsoApplied
        <5> QED
          BY Zenon, <1>1, <1>b, <2>1, <5>2 DEF LastOnLine
      <4>3. CASE pc = "unmask_gsi"
        <5>1. madt.lapic /\ low.vector = Vector(Mouse) /\ h = Gsi(madt, Mouse)
          BY Zenon, <1>1, <1>2, <2>3, <3>3, <4>3 DEF IrqInv, ControlInv
        <5> QED
          BY Zenon, <1>5, <3>1, <3>3, <5>1
      <4>4. CASE pc \in {"enable_isos", "enable_legacy"}
        <5>1. low.vector = redir[p].vector
          BY Zenon, <3>3, <4>4 DEF P
        <5> QED
          BY Zenon, <1>5, <3>1, <3>3, <5>1
      <4> QED
        BY Zenon, <1>2, <4>1, <4>2, <4>3, <4>4
    <3> QED
      BY Zenon, <3>2, <3>3
  <2>5. CASE ~IsoApplied(k)
    <3>a. pc = "apply_isos" /\ ~(k < i) /\ k < i'
      <4>1. pc # "init_ioapics"
        BY Zenon, <1>2
      <4> QED
        BY <1>9, <1>b, <2>5, <4>1, Zenon DEF IsoApplied
    <3>1. pc = "apply_isos" /\ k = i /\ i' = i + 1
      BY <1>1, <1>9, <2>1, <3>a
    <3>2. p \in P /\ low.vector = Vector(madt.isos[k].source)
      BY Zenon, <1>1, <1>2, <1>b, <3>1 DEF P
    <3> QED
      BY <1>1, <1>5, <3>1, <3>2
  <2> QED
    BY Zenon, <2>4, <2>5
<1>20. VectorInv'
  <2>1. \A k : LastOnLine(k)' <=> LastOnLine(k)
    BY Zenon, <1>9 DEF LastOnLine
  <2>2. \A h, v : MouseHas(h, v)' <=> MouseHas(h, v)
    BY Zenon, <1>9 DEF MouseHas
  <2>3. \A k \in DOMAIN madt.isos :
          IsoApplied(k)' /\ LastOnLine(k) /\ madt.isos[k].gsi \notin Legacy =>
            \A p \in Pn(madt.isos[k].gsi) :
              \/ redir'[p].vector = Vector(madt.isos[k].source)
              \/ MouseHas(madt.isos[k].gsi, redir'[p].vector)
    BY <1>b, Zenon DEF MouseHas
  <2>4. \A h \in Legacy : FallbackApplied(h)' =>
          \A p \in Pn(h) :
            redir'[p].vector = Vector(h) \/ MouseHas(h, redir'[p].vector)
    BY <1>18, Zenon DEF MouseHas
  <2> QED
    BY <1>9, <1>17, <2>1, <2>2, <2>3, <2>4, Zenon DEF VectorInv
<1>21. MouseLineInv'
  BY Zenon, <1>19 DEF MouseLineInv
<1> QED
  BY Zenon, <1>10, <1>11, <1>12, <1>13, <1>14, <1>15, <1>16, <1>20, <1>21 DEF IrqInv

-----------------------------------------------------------------------------
(* The inductive invariant.                                                *)

LEMMA InitIrqInv == Init => IrqInv
<1> SUFFICES ASSUME Init PROVE IrqInv
  BY Zenon
<1>1. /\ madt \in Madts /\ LinesApart(madt) /\ madt \in Madt
      /\ pc = "init_ioapics" /\ i = 1 /\ half = "high" /\ table = <<>>
      /\ idt = [v \in Vectors |-> "default"] /\ intr = FALSE /\ delivered = {}
      /\ redir = [p \in AllPins(madt.ioapics) |->
                    [vector |-> 0, masked |-> TRUE, dest |-> 0]]
  BY Zenon, MadtsOK DEF Init, Vectors
<1>2. redir \in [AllPins(madt.ioapics) -> Entry]
  BY Zenon, <1>1 DEF Entry
<1>3. TypeOK
  BY <1>1, <1>2, Zenon DEF TypeOK, Handlers
<1>4. \A p \in DOMAIN redir : redir[p].masked
  BY Zenon, <1>1
<1>5. UnmaskedIsComplete /\ KeyboardHandled /\ MouseHandled
  BY Zenon, <1>1, <1>4 DEF UnmaskedIsComplete, KeyboardHandled, MouseHandled
<1>6. ControlInv /\ HalfInv /\ MaskInv /\ HandlerInv /\ MouseLineInv
  BY Zenon, <1>1, <1>4 DEF ControlInv, HalfInv, MaskInv, HandlerInv, MouseLineInv
<1>7. VectorInv
  BY <1>1, Zenon DEF VectorInv, IsoApplied, FallbackApplied
<1> QED
  BY Zenon, <1>3, <1>5, <1>6, <1>7 DEF IrqInv

(* A device interrupts: the handler that runs is the right one.            *)
LEMMA DeliverKeepsInv ==
  ASSUME IrqInv, NEW s \in Devices, Deliver(s)
  PROVE  IrqInv'
<1>1. PICK p \in Pins(madt.ioapics, Gsi(madt, s)) :
        /\ ~redir[p].masked /\ redir[p].dest = ApicId
        /\ delivered' = delivered \cup
             {[source |-> s, handler |-> idt[redir[p].vector], booted |-> pc = "run"]}
  BY Zenon DEF Deliver
<1>2. intr /\ UNCHANGED <<madt, pc, i, half, table, redir, idt, intr>>
  BY Zenon DEF Deliver
<1>3. madt \in Madts /\ s \in Legacy /\ Gsi(madt, s) \in Nat /\ TypeOK
  BY Zenon, LegacyOK, GsiType DEF IrqInv, ControlInv
<1>4. p \in DOMAIN redir /\ redir[p].vector \in Vectors
  <2>1. p \in AllPins(madt.ioapics)
    BY Zenon, <1>1, <1>3, PinFacts
  <2> QED
    BY Zenon, <1>1, <1>3, <2>1 DEF IrqInv, TypeOK, UnmaskedIsComplete
<1>5. madt.lapic /\ pc \in {"attach_mouse", "unmask_gsi", "run"}
  BY Zenon, <1>1, <1>2, <1>4 DEF IrqInv, ControlInv, MaskInv
<1> DEFINE d == [source |-> s, handler |-> idt[redir[p].vector], booted |-> pc = "run"]
<1>6. s = Kbd /\ Gsi(madt, Kbd) = Kbd => d.handler = "kbd"
  <2>1. SUFFICES ASSUME s = Kbd, Gsi(madt, Kbd) = Kbd PROVE idt[redir[p].vector] = "kbd"
    BY Zenon
  <2>2. Kbd # Gsi(madt, Mouse) /\ Kbd \in Legacy
    BY Zenon, <2>1, LegacyDevices DEF IrqInv, ControlInv, LinesApart
  <2>3. redir[p].vector = Vector(Kbd)
    BY Zenon, <1>1, <1>5, <2>1, <2>2 DEF IrqInv, VectorInv, FallbackApplied, MouseHas
  <2> QED
    BY Zenon, <1>5, <2>3 DEF IrqInv, HandlerInv
<1>7. s = Mouse /\ d.booted => d.handler = "mouse"
  BY <1>1, <1>5, Zenon DEF IrqInv, HandlerInv, MouseLineInv
<1>8. d \in [source : Devices, handler : Handlers, booted : BOOLEAN]
  BY Zenon, <1>3, <1>4 DEF TypeOK
<1> HIDE DEF d
<1>9. delivered' = delivered \cup {d} /\ d.source = s
  BY Zenon, <1>1 DEF d
<1>10. TypeOK'
  BY Zenon, <1>2, <1>3, <1>8, <1>9 DEF TypeOK
<1>11. KeyboardHandled'
  BY Zenon, <1>2, <1>6, <1>9 DEF IrqInv, KeyboardHandled
<1>12. MouseHandled'
  BY Zenon, <1>2, <1>7, <1>9 DEF IrqInv, MouseHandled
<1>13. UnmaskedIsComplete' /\ ControlInv' /\ MaskInv' /\ HandlerInv' /\ MouseLineInv'
  BY Zenon, <1>2 DEF IrqInv, UnmaskedIsComplete, ControlInv, MaskInv, HandlerInv, MouseLineInv
<1>14. HalfInv' /\ VectorInv'
  BY <1>2 DEF IrqInv, HalfInv, Writing, VectorInv, IsoApplied, FallbackApplied,
       LastOnLine, MouseHas
<1> QED
  BY Zenon, <1>10, <1>11, <1>12, <1>13, <1>14 DEF IrqInv

LEMMA NextIrqInv == IrqInv /\ [Next]_vars => IrqInv'
<1> SUFFICES ASSUME IrqInv, [Next]_vars PROVE IrqInv'
  BY Zenon
<1>1. /\ TypeOK /\ madt \in Madts /\ i \in Nat
      /\ \A k \in DOMAIN madt.isos : madt.isos[k].gsi \in Nat /\ madt.isos[k].source \in Legacy
      /\ DOMAIN madt.isos = 1 .. Len(madt.isos) /\ Len(madt.isos) \in Nat
  <2>1. madt \in Madts /\ TypeOK /\ i \in Nat
    BY Zenon DEF IrqInv, ControlInv, TypeOK
  <2>2. madt.isos \in Seq(Iso)
    BY Zenon, <2>1, MadtsOK DEF Madt
  <2> QED
    BY <2>1, <2>2, GsiType
<1>2. /\ \A s \in Legacy : Vector(s) \in Vectors /\ Vector(s) # 0 /\ s \in Nat
      /\ Mouse \in Legacy /\ Gsi(madt, Mouse) \in Nat /\ Legacy = 0 .. NLegacy - 1
      /\ NLegacy \in Nat
  BY <1>1, VectorFacts, LegacyDevices, GsiType, LegacyOK DEF Legacy
<1>3. CASE ApplyIso
  <2>1. /\ pc = "apply_isos" /\ i \in DOMAIN madt.isos
        /\ Writing = {madt.isos[i].gsi}
    BY <1>1, <1>3 DEF ApplyIso, IrqInv, ControlInv, Writing
  <2>2. [vector |-> Vector(madt.isos[i].source), masked |-> TRUE]
          \in [vector : {0} \cup Vectors, masked : BOOLEAN]
    BY Zenon, <1>1, <1>2, <2>1
  <2> QED
    BY <1>1, <1>2, <1>3, <2>1, <2>2, ProgramKeepsInv, Zenon DEF ApplyIso
<1>4. CASE LegacyFallback
  <2>1. pc = "legacy_fallback" /\ i \in Legacy /\ Writing = {i}
    BY <1>1, <1>2, <1>4 DEF LegacyFallback, Writing
  <2>2. [vector |-> Vector(i), masked |-> TRUE]
          \in [vector : {0} \cup Vectors, masked : BOOLEAN]
    BY Zenon, <1>2, <2>1
  <2> QED
    BY <1>2, <1>4, <2>1, <2>2, ProgramKeepsInv, Zenon DEF LegacyFallback
<1>5. ASSUME NEW g \in Nat, pc \in {"enable_isos", "enable_legacy"},
             \A p \in Pins(madt.ioapics, g) : redir[p].vector # 0
      PROVE  /\ Unmasked(g) \in [vector : {0} \cup Vectors, masked : BOOLEAN]
             /\ ~Unmasked(g).masked
             /\ Pins(madt.ioapics, g) # {} => Unmasked(g).vector # 0
             /\ \A p \in Pins(madt.ioapics, g) : Unmasked(g).vector = redir[p].vector
  <2>1. table = madt.ioapics
    BY Zenon, <1>5 DEF IrqInv, ControlInv
  <2>2. /\ \A p, q \in Pins(madt.ioapics, g) : p = q
        /\ \A p \in Pins(madt.ioapics, g) : redir[p].vector \in {0} \cup Vectors
    <3>1. \A p \in Pins(madt.ioapics, g) : redir[p] \in Entry
      BY Zenon, <1>1, PinFacts DEF TypeOK
    <3> QED
      BY Zenon, <1>1, <3>1, PinFacts DEF Entry
  <2>3. CASE Pins(madt.ioapics, g) = {}
    BY Zenon, <2>1, <2>3 DEF Unmasked
  <2>4. CASE Pins(madt.ioapics, g) # {}
    <3>1. PICK p \in Pins(madt.ioapics, g) : p = CHOOSE q \in Pins(madt.ioapics, g) : TRUE
      BY Zenon, <2>4
    <3>2. Unmasked(g) = [vector |-> redir[p].vector, masked |-> FALSE]
      BY <2>1, <2>4, <3>1, Zenon DEF Unmasked
    <3>3. redir[p].vector \in {0} \cup Vectors /\ redir[p].vector # 0
      BY Zenon, <1>5, <2>2, <3>1
    <3>4. \A q \in Pins(madt.ioapics, g) : q = p
      BY <2>2, <3>1, Zenon
    <3> HIDE DEF Vectors
    <3>5. /\ Unmasked(g) \in [vector : {0} \cup Vectors, masked : BOOLEAN]
          /\ ~Unmasked(g).masked /\ Unmasked(g).vector = redir[p].vector
      BY <3>2, <3>3
    <3> QED
      BY <3>3, <3>4, <3>5, Zenon
  <2> QED
    BY Zenon, <2>3, <2>4
<1>6. CASE EnableIso
  <2>1. /\ pc = "enable_isos" /\ i \in DOMAIN madt.isos
        /\ Writing = {madt.isos[i].gsi} /\ madt.isos[i].gsi \in Nat
    BY <1>1, <1>6 DEF EnableIso, IrqInv, ControlInv, Writing
  <2>2. \A p \in Pins(madt.ioapics, madt.isos[i].gsi) : redir[p].vector # 0
    BY Zenon, <2>1 DEF IrqInv, VectorInv, IsoApplied
  <2> QED
    BY Zenon, <1>5, <1>6, <2>1, <2>2, ProgramKeepsInv DEF EnableIso
<1>7. CASE EnableLegacy
  <2>1. pc = "enable_legacy" /\ i \in Legacy /\ Writing = {i} /\ i \in Nat
    BY <1>1, <1>2, <1>7 DEF EnableLegacy, Writing
  <2>2. \A p \in Pins(madt.ioapics, i) : redir[p].vector # 0
    BY Zenon, <1>2, <2>1 DEF IrqInv, VectorInv, FallbackApplied, MouseHas
  <2> QED
    BY Zenon, <1>5, <1>7, <2>1, <2>2, ProgramKeepsInv DEF EnableLegacy
<1>8. CASE UnmaskMouse
  <2>1. pc = "unmask_gsi" /\ Writing = {Gsi(madt, Mouse)}
    BY Zenon, <1>8 DEF UnmaskMouse, Writing
  <2>2. [vector |-> Vector(Mouse), masked |-> FALSE]
          \in [vector : {0} \cup Vectors, masked : BOOLEAN]
    BY Zenon, <1>2
  <2> QED
    BY <1>2, <1>8, <2>1, <2>2, ProgramKeepsInv, Zenon DEF UnmaskMouse
<1>9. Writing = {} => half = "high"
  BY Zenon, <1>1 DEF IrqInv, TypeOK, HalfInv
<1>a. ASSUME UNCHANGED <<madt, redir>>,
             \A k \in DOMAIN madt.isos : IsoApplied(k)' => IsoApplied(k),
             \A g \in Legacy : FallbackApplied(g)' => FallbackApplied(g)
      PROVE  VectorInv'
  <2>1. madt' = madt /\ redir' = redir
    BY Zenon, <1>a
  <2>2. \A k : LastOnLine(k)' <=> LastOnLine(k)
    BY Zenon, <2>1 DEF LastOnLine
  <2>3. \A h, v : MouseHas(h, v)' <=> MouseHas(h, v)
    BY Zenon, <2>1 DEF MouseHas
  <2> QED
    BY <1>a, <2>1, <2>2, <2>3, Zenon DEF IrqInv, VectorInv
<1>10. CASE InitIoapics
  <2>1. /\ pc = "init_ioapics" /\ pc' = "apply_isos" /\ i' = 1 /\ table' = madt.ioapics
        /\ UNCHANGED <<madt, half, redir, idt, intr, delivered>>
    BY Zenon, <1>10 DEF InitIoapics, Goto
  <2>2. half' = "high"
    BY Zenon, <1>9, <2>1 DEF Writing
  <2>3. TypeOK'
    BY Zenon, <1>1, <2>1 DEF TypeOK
  <2>4. \A k \in DOMAIN madt.isos : ~IsoApplied(k)'
    BY <1>1, <2>1 DEF IsoApplied
  <2>5. \A g \in Legacy : ~FallbackApplied(g)'
    BY Zenon, <2>1 DEF FallbackApplied
  <2>6. VectorInv'
    BY Zenon, <2>1, <2>4, <2>5 DEF IrqInv, VectorInv
  <2>7. UnmaskedIsComplete' /\ KeyboardHandled' /\ MouseHandled'
    BY Zenon, <2>1 DEF IrqInv, UnmaskedIsComplete, KeyboardHandled, MouseHandled
  <2>8. ControlInv' /\ HandlerInv' /\ HalfInv'
    BY <2>1, <2>2 DEF IrqInv, ControlInv, HandlerInv, HalfInv
  <2>9. MaskInv' /\ MouseLineInv'
    BY Zenon, <2>1 DEF IrqInv, MaskInv, MouseLineInv
  <2> QED
    BY Zenon, <2>3, <2>6, <2>7, <2>8, <2>9 DEF IrqInv
<1>11. CASE ApplyIsosDone
  <2>1. /\ pc = "apply_isos" /\ i > Len(madt.isos) /\ pc' = "legacy_fallback" /\ i' = 0
        /\ UNCHANGED <<madt, half, table, redir, idt, intr, delivered>>
    BY Zenon, <1>11 DEF ApplyIsosDone, Goto
  <2>2. half' = "high"
    BY <1>1, <1>9, <2>1 DEF Writing
  <2>3. TypeOK'
    BY Zenon, <1>1, <2>1 DEF TypeOK
  <2>4. \A k \in DOMAIN madt.isos : IsoApplied(k)
    BY <1>1, <2>1 DEF IsoApplied
  <2>5. \A g \in Legacy : ~FallbackApplied(g)'
    BY <1>2, <2>1 DEF FallbackApplied
  <2>6. VectorInv'
    BY <1>a, <2>1, <2>4, <2>5, Zenon
  <2>7. UnmaskedIsComplete' /\ KeyboardHandled' /\ MouseHandled'
    BY Zenon, <2>1 DEF IrqInv, UnmaskedIsComplete, KeyboardHandled, MouseHandled
  <2>8. ControlInv' /\ HandlerInv' /\ HalfInv'
    BY Zenon, <2>1, <2>2 DEF IrqInv, ControlInv, HandlerInv, HalfInv
  <2>9. MaskInv' /\ MouseLineInv'
    BY Zenon, <2>1 DEF IrqInv, MaskInv, MouseLineInv
  <2> QED
    BY Zenon, <2>3, <2>6, <2>7, <2>8, <2>9 DEF IrqInv
<1>12. CASE LegacyFallbackDone
  <2>1. /\ pc = "legacy_fallback" /\ i = NLegacy /\ pc' = "attach_kbd" /\ i' = 0
        /\ UNCHANGED <<madt, half, table, redir, idt, intr, delivered>>
    BY Zenon, <1>12 DEF LegacyFallbackDone, Goto
  <2>2. half' = "high"
    BY <1>2, <1>9, <2>1 DEF Writing
  <2>3. TypeOK'
    BY Zenon, <1>1, <2>1 DEF TypeOK
  <2>4. \A k \in DOMAIN madt.isos : IsoApplied(k)
    BY Zenon, <2>1 DEF IsoApplied
  <2>5. \A g \in Legacy : FallbackApplied(g)
    BY <1>2, <2>1 DEF FallbackApplied
  <2>6. VectorInv'
    BY <1>a, <2>1, <2>4, <2>5, Zenon
  <2>7. UnmaskedIsComplete' /\ KeyboardHandled' /\ MouseHandled'
    BY Zenon, <2>1 DEF IrqInv, UnmaskedIsComplete, KeyboardHandled, MouseHandled
  <2>8. ControlInv' /\ HandlerInv' /\ HalfInv'
    BY Zenon, <2>1, <2>2 DEF IrqInv, ControlInv, HandlerInv, HalfInv
  <2>9. MaskInv' /\ MouseLineInv'
    BY Zenon, <2>1 DEF IrqInv, MaskInv, MouseLineInv
  <2> QED
    BY Zenon, <2>3, <2>6, <2>7, <2>8, <2>9 DEF IrqInv
<1>13. ASSUME pc \notin {"init_ioapics", "apply_isos", "legacy_fallback"},
              UNCHANGED <<madt, redir>>
       PROVE  VectorInv'
  <2>1. /\ \A k \in DOMAIN madt.isos : IsoApplied(k)
        /\ \A g \in Legacy : FallbackApplied(g)
    BY Zenon, <1>13 DEF IsoApplied, FallbackApplied
  <2> QED
    BY <1>a, <1>13, <2>1, Zenon
<1>14. ASSUME NEW s \in Legacy, NEW h \in Handlers, idt' = [idt EXCEPT ![Vector(s)] = h]
       PROVE  /\ idt' \in [Vectors -> Handlers] /\ DOMAIN idt' = DOMAIN idt
              /\ idt'[Vector(s)] = h
              /\ \A t \in Legacy \ {s} : idt'[Vector(t)] = idt[Vector(t)]
  BY Zenon, <1>1, <1>14, VectorFacts DEF TypeOK
<1>15. CASE AttachKbd
  <2>1. /\ pc = "attach_kbd" /\ idt' = [idt EXCEPT ![Vector(Kbd)] = "kbd"]
        /\ \/ madt.lapic /\ pc' = "enable_isos" /\ i' = 1
           \/ pc' = "timer" /\ i' = 0
        /\ UNCHANGED <<madt, half, table, redir, intr, delivered>>
    BY Zenon, <1>15 DEF AttachKbd, Goto
  <2>2. half' = "high"
    BY Zenon, <1>9, <2>1 DEF Writing
  <2>3. idt' \in [Vectors -> Handlers] /\ DOMAIN idt' = DOMAIN idt /\ idt'[Vector(Kbd)] = "kbd"
    BY <1>14, <2>1, LegacyDevices, Zenon DEF Handlers
  <2>4. TypeOK'
    BY <1>1, <2>1, <2>3 DEF TypeOK
  <2>5. \A p \in DOMAIN redir : redir[p].masked
    BY Zenon, <2>1 DEF IrqInv, MaskInv
  <2>6. UnmaskedIsComplete' /\ KeyboardHandled'
    BY Zenon, <2>1, <2>3 DEF IrqInv, UnmaskedIsComplete, KeyboardHandled
  <2>7. MouseHandled' /\ MouseLineInv'
    BY Zenon, <2>1, <2>5 DEF IrqInv, MouseHandled, MouseLineInv
  <2>8. ControlInv' /\ HandlerInv'
    BY <2>1, <2>3 DEF IrqInv, ControlInv, HandlerInv
  <2>9. HalfInv' /\ MaskInv'
    BY Zenon, <2>1, <2>2, <2>5 DEF IrqInv, HalfInv, MaskInv
  <2>10. VectorInv'
    BY Zenon, <1>13, <2>1
  <2> QED
    BY Zenon, <2>4, <2>6, <2>7, <2>8, <2>9, <2>10 DEF IrqInv
<1>16. CASE EnableIsosDone \/ EnableLegacyDone
  <2>1. /\ \/ pc = "enable_isos" /\ i > Len(madt.isos) /\ pc' = "enable_legacy"
           \/ pc = "enable_legacy" /\ i = NLegacy /\ pc' = "timer"
        /\ i' = 0 /\ UNCHANGED <<madt, half, table, redir, idt, intr, delivered>>
    BY Zenon, <1>16 DEF EnableIsosDone, EnableLegacyDone, Goto
  <2>2. half' = "high"
    BY <1>1, <1>2, <1>9, <2>1 DEF Writing
  <2>3. TypeOK'
    BY Zenon, <1>1, <2>1 DEF TypeOK
  <2>4. UnmaskedIsComplete' /\ KeyboardHandled'
    BY Zenon, <2>1 DEF IrqInv, UnmaskedIsComplete, KeyboardHandled
  <2>5. MouseHandled' /\ MouseLineInv'
    BY Zenon, <2>1 DEF IrqInv, MouseHandled, MouseLineInv
  <2>6. ControlInv' /\ HandlerInv'
    BY Zenon, <2>1 DEF IrqInv, ControlInv, HandlerInv
  <2>7. HalfInv' /\ MaskInv'
    BY Zenon, <2>1, <2>2 DEF IrqInv, HalfInv, MaskInv
  <2>8. VectorInv'
    BY Zenon, <1>13, <2>1
  <2> QED
    BY Zenon, <2>3, <2>4, <2>5, <2>6, <2>7, <2>8 DEF IrqInv
<1>17. CASE EnableInterrupts
  <2>1. /\ pc = "timer" /\ intr' = TRUE /\ pc' = "attach_mouse" /\ i' = 0
        /\ \/ idt' = [idt EXCEPT ![Vector(0)] = "timer"]
           \/ UNCHANGED idt
        /\ UNCHANGED <<madt, half, table, redir, delivered>>
    BY Zenon, <1>17 DEF EnableInterrupts, Goto
  <2>2. half' = "high"
    BY Zenon, <1>9, <2>1 DEF Writing
  <2>3. /\ idt' \in [Vectors -> Handlers] /\ DOMAIN idt' = DOMAIN idt
        /\ idt'[Vector(Kbd)] = idt[Vector(Kbd)]
    BY <1>1, <1>14, <2>1, LegacyDevices, Zenon DEF Handlers, TypeOK
  <2>4. TypeOK'
    BY Zenon, <1>1, <2>1, <2>3 DEF TypeOK
  <2>5. UnmaskedIsComplete' /\ KeyboardHandled'
    BY Zenon, <2>1, <2>3 DEF IrqInv, UnmaskedIsComplete, KeyboardHandled
  <2>6. MouseHandled' /\ MouseLineInv'
    BY Zenon, <2>1 DEF IrqInv, MouseHandled, MouseLineInv
  <2>7. ControlInv' /\ HandlerInv'
    BY Zenon, <2>1, <2>3 DEF IrqInv, ControlInv, HandlerInv
  <2>8. HalfInv' /\ MaskInv'
    BY Zenon, <2>1, <2>2 DEF IrqInv, HalfInv, MaskInv
  <2>9. VectorInv'
    BY Zenon, <1>13, <2>1
  <2> QED
    BY Zenon, <2>4, <2>5, <2>6, <2>7, <2>8, <2>9 DEF IrqInv
<1>18. CASE AttachMouse
  <2>1. /\ pc = "attach_mouse" /\ idt' = [idt EXCEPT ![Vector(Mouse)] = "mouse"] /\ i' = 0
        /\ \/ madt.lapic /\ pc' = "unmask_gsi"
           \/ ~madt.lapic /\ pc' = "run"
        /\ UNCHANGED <<madt, half, table, redir, intr, delivered>>
    BY Zenon, <1>18 DEF AttachMouse, Goto
  <2>2. half' = "high"
    BY Zenon, <1>9, <2>1 DEF Writing
  <2>3. /\ idt' \in [Vectors -> Handlers] /\ DOMAIN idt' = DOMAIN idt
        /\ idt'[Vector(Mouse)] = "mouse" /\ idt'[Vector(Kbd)] = idt[Vector(Kbd)]
    BY <1>14, <2>1, LegacyDevices, Zenon DEF Handlers
  <2>4. TypeOK'
    BY Zenon, <1>1, <2>1, <2>3 DEF TypeOK
  <2>5. UnmaskedIsComplete' /\ KeyboardHandled'
    BY Zenon, <2>1, <2>3 DEF IrqInv, UnmaskedIsComplete, KeyboardHandled
  <2>6. MouseHandled' /\ MouseLineInv'
    BY <2>1 DEF IrqInv, MouseHandled, MouseLineInv
  <2>7. ControlInv' /\ HandlerInv'
    BY Zenon, <2>1, <2>3 DEF IrqInv, ControlInv, HandlerInv
  <2>8. HalfInv' /\ MaskInv'
    BY Zenon, <2>1, <2>2 DEF IrqInv, HalfInv, MaskInv
  <2>9. VectorInv'
    BY Zenon, <1>13, <2>1
  <2> QED
    BY Zenon, <2>4, <2>5, <2>6, <2>7, <2>8, <2>9 DEF IrqInv
<1>19. CASE UnmaskMouseDone
  <2>1. /\ pc = "unmask_gsi" /\ i = 1 /\ pc' = "run" /\ i' = 0
        /\ UNCHANGED <<madt, half, table, redir, idt, intr, delivered>>
    BY Zenon, <1>19 DEF UnmaskMouseDone, Goto
  <2>2. half' = "high"
    BY <1>9, <2>1 DEF Writing
  <2>3. TypeOK'
    BY Zenon, <1>1, <2>1 DEF TypeOK
  <2>4. UnmaskedIsComplete' /\ KeyboardHandled'
    BY Zenon, <2>1 DEF IrqInv, UnmaskedIsComplete, KeyboardHandled
  <2>5. MouseHandled' /\ MouseLineInv'
    BY Zenon, <2>1 DEF IrqInv, MouseHandled, MouseLineInv
  <2>6. ControlInv' /\ HandlerInv'
    BY Zenon, <2>1 DEF IrqInv, ControlInv, HandlerInv
  <2>7. HalfInv' /\ MaskInv'
    BY Zenon, <2>1, <2>2 DEF IrqInv, HalfInv, MaskInv
  <2>8. VectorInv'
    BY Zenon, <1>13, <2>1
  <2> QED
    BY Zenon, <2>3, <2>4, <2>5, <2>6, <2>7, <2>8 DEF IrqInv
<1>20. CASE UNCHANGED vars
  <2>1. UNCHANGED <<madt, pc, i, half, table, redir, idt, intr, delivered>>
    BY Zenon, <1>20 DEF vars
  <2>2. TypeOK' /\ UnmaskedIsComplete' /\ KeyboardHandled' /\ MouseHandled'
    BY Zenon, <2>1 DEF IrqInv, TypeOK, UnmaskedIsComplete, KeyboardHandled, MouseHandled
  <2>3. ControlInv' /\ MaskInv' /\ HandlerInv' /\ MouseLineInv'
    BY Zenon, <2>1 DEF IrqInv, ControlInv, MaskInv, HandlerInv, MouseLineInv
  <2>4. HalfInv' /\ VectorInv'
    BY <2>1 DEF IrqInv, HalfInv, Writing, VectorInv, IsoApplied, FallbackApplied,
       LastOnLine, MouseHas
  <2> QED
    BY Zenon, <2>2, <2>3, <2>4 DEF IrqInv
<1> QED
  BY Zenon, <1>3, <1>4, <1>6, <1>7, <1>8, <1>10, <1>11, <1>12, <1>15, <1>16, <1>17, <1>18,
     <1>19, <1>20, DeliverKeepsInv DEF Next, Boot

THEOREM IrqInductive == Spec => []IrqInv
  BY InitIrqInv, NextIrqInv, PTL DEF Spec

-----------------------------------------------------------------------------
(* What the runs check, for every instance.                                *)

(* No interrupt goes to the wrong CPU or to an exception vector because an *)
(* entry was written half way: write_redirection_entry_for_gsi and the     *)
(* enabling functions write the destination before the mask bit.           *)
THEOREM UnmaskedEntriesComplete == Spec => []UnmaskedIsComplete
<1>1. IrqInv => UnmaskedIsComplete
  BY Zenon DEF IrqInv
<1> QED
  BY <1>1, IrqInductive, PTL

(* A keyboard whose line is not overridden interrupts into its driver,     *)
(* whatever the overrides of other sources do to the legacy range.         *)
THEOREM KeyboardReachesDriver == Spec => []KeyboardHandled
<1>1. IrqInv => KeyboardHandled
  BY Zenon DEF IrqInv
<1> QED
  BY <1>1, IrqInductive, PTL

(* After boot the mouse interrupts into its driver on whichever line its   *)
(* override names, and that line is open.                                  *)
THEOREM MouseReachesDriver == Spec => []MouseHandled
<1>1. IrqInv => MouseHandled
  BY Zenon DEF IrqInv
<1> QED
  BY <1>1, IrqInductive, PTL

(* The vectors of the overrides, out of the invariant.                     *)
LEMMA InvOverrides == IrqInv => OverridesKeepSource
<1> SUFFICES ASSUME IrqInv, pc = "run"
             PROVE  OverridesKeepSource
  BY Zenon DEF OverridesKeepSource
<1>1. \A k : IsoApplied(k)
  BY Zenon DEF IsoApplied
<1> QED
  BY <1>1, Zenon DEF IrqInv, VectorInv, OverridesKeepSource

(* Once boot is over, the last override of a GSI outside the legacy range  *)
(* has decided its vector, unless the GSI carries the mouse, whose line    *)
(* main programs last.                                                     *)
THEOREM OverridesKeepVectors == Spec => []OverridesKeepSource
  BY InvOverrides, IrqInductive, PTL

=============================================================================
