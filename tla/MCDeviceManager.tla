--------------------------- MODULE MCDeviceManager ---------------------------
(* A keyboard and a mouse with the same ids, as main.rs registers them, and *)
(* three display controllers: two share a page, one of them with two BARs,  *)
(* and the third lies next to it and in part under the boot loader's map.   *)
(* The test box is the page after a mapping's first, which is not always    *)
(* mapped.                                                                  *)
EXTENDS DeviceManager

MCVectors == {33, 44}
MCPages == 0 .. 4
MCBootPages == {4}
MCBox == {1}

MCBar(a, b) == [first |-> a, last |-> b]

MCDisplay(ids, bars) == [ids |-> ids, class |-> "display", irqs |-> {}, bars |-> bars]

MCInfos ==
  {[ids |-> "ffff", class |-> "input", irqs |-> {33}, bars |-> {}],
   [ids |-> "ffff", class |-> "input", irqs |-> {44}, bars |-> {}],
   MCDisplay("1111", {MCBar(0, 1)}),
   MCDisplay("2222", {MCBar(1, 1), MCBar(2, 2)}),
   MCDisplay("3333", {MCBar(3, 4)})}

=============================================================================
