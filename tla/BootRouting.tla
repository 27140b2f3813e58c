---------------------------- MODULE BootRouting -----------------------------
(***************************************************************************)
(* What the boot sequence promises of the interrupts: it is IrqRouting for *)
(* the MADT that is in memory, with everything else the boot does left out.*)
(***************************************************************************)
EXTENDS KernelBoot

(* No two devices of the machine share a line.                             *)
ASSUME DeclaredOK ==
  \A f \in Firmwares : DeclaredMadt(f) \in Madts /\ LinesApart(DeclaredMadt(f))

Routing == INSTANCE IrqRouting WITH madt <- declared

(* The boot sequence implements IrqRouting started with the MADT that the  *)
(* firmware declares: whatever root table, checksums, paddings, short or   *)
(* empty structures the tables have, the IOAPICs are programmed as that    *)
(* MADT asks for, and neither the PCI scan nor the timer disturbs it.      *)
RoutingSpec == Routing!Spec

=============================================================================
