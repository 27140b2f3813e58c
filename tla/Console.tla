------------------------------- MODULE Console -------------------------------
(***************************************************************************)
(* Text output: print! and cls! (bootvga/vga_helpers.rs), the boot VGA     *)
(* Writer (bootvga/vga_buffer.rs), the framebuffer console (drivers/       *)
(* console.rs) that takes over once a VBE driver is active, and the spin   *)
(* locks they take, which default_irq_handler (arch/idt.rs) takes too.     *)
(*                                                                         *)
(* A call of the kernel thread, or of the handler, becomes the list of the *)
(* locks it takes and gives back, nested as in the code, and of the bytes  *)
(* it writes under them, one a step.  The heap is taken once where the     *)
(* code allocates or frees several times in a row.  The model starts when  *)
(* kernel_main enables interrupts.  Colours are left out.                  *)
(***************************************************************************)
EXTENDS Integers, Sequences, FiniteSets

CONSTANTS
  BufferWidth, BufferHeight,   \* the VGA text buffer, 80 by 25
  Cols, Rows,                  \* the framebuffer console, 113 by 96
  TabWidth,                    \* 8
  Messages,                    \* what the kernel prints
  IrqMessage,                  \* what default_irq_handler prints
  MaxCalls,                    \* bound: prints and clears in all
  MaxIrqs                      \* bound: interrupts without a driver

(* Bytes: two that show, others with a meaning of their own, one that no   *)
(* font has, and 0x7F, which the framebuffer's font lacks.                 *)
Byte == {"a", "b", "sp", "nl", "cr", "tab", "bs", "del", "other"}

ASSUME SizesOK ==
  /\ {BufferWidth, BufferHeight, Cols, Rows, TabWidth} \subseteq Nat \ {0}
  /\ Rows > 1
  /\ MaxCalls \in Nat /\ MaxIrqs \in Nat
  /\ IrqMessage \in Seq(Byte) /\ \A m \in Messages : m \in Seq(Byte)

VARIABLES
  vbe,      \* a VBE driver is active
  screen,   \* each device: its cells and the position of the next byte
  hw,       \* the position last sent to the VGA hardware cursor
  text,     \* history: the text of each device since it was cleared,
  plain,    \* and whether that is all that happened to it
  known,    \* CONSOLES has the Console of the framebuffer
  todo,     \* what is left of the calls of the kernel thread and of
            \* default_irq_handler, nothing when they are not in one
  locks,    \* the spin locks that each of them holds
  panicked, \* a call has panicked
  calls,    \* calls made by the kernel thread
  irqs      \* interrupts taken

shown == <<screen, hw, text, plain>>
control == <<vbe, known, todo, locks, panicked, calls, irqs>>
cvars == <<shown, control>>

Threads == {"kernel", "irq"}

(* The console of the framebuffer, and WRITER.                             *)
Devices == {"con", "vga"}
Wide(d) == IF d = "con" THEN Cols ELSE BufferWidth
High(d) == IF d = "con" THEN Rows ELSE BufferHeight

Filled(d, cell) == [r \in 0 .. High(d) - 1 |-> [c \in 0 .. Wide(d) - 1 |-> cell]]

(* The boot messages have scrolled by: WRITER is in its last row.          *)
ConsoleInit ==
  /\ vbe = FALSE
  /\ screen = [d \in Devices |->
                 [x |-> 0, y |-> IF d = "con" THEN 0 ELSE BufferHeight - 1,
                  cells |-> Filled(d, "junk")]]
  /\ hw = [x |-> 0, y |-> BufferHeight - 1]
  /\ text = [d \in Devices |-> <<>>] /\ plain = [d \in Devices |-> FALSE]
  /\ known = FALSE /\ panicked = FALSE
  /\ todo = [t \in Threads |-> <<>>] /\ locks = [t \in Threads |-> {}]
  /\ calls = 0 /\ irqs = 0

-----------------------------------------------------------------------------
(* The VGA writer.                                                         *)

(* shift_up, console_scroll_mut: rows move up, the last one is cleared.    *)
Scroll(cells, d) ==
  [r \in 0 .. High(d) - 1 |->
     IF r < High(d) - 1 THEN cells[r + 1] ELSE [c \in 0 .. Wide(d) - 1 |-> "blank"]]

NewLine(v) ==
  IF v.y < BufferHeight - 1 THEN [v EXCEPT !.x = 0, !.y = @ + 1]
  ELSE [v EXCEPT !.x = 0, !.cells = Scroll(@, "vga")]

(* write_string maps what is not printable to 0xfe, backspace included.    *)
VgaGlyph(b) ==
  CASE b \in {"a", "b"} -> b [] b = "sp" -> "blank" [] OTHER -> "block"

(* Mutant of WriteByte: a full row is not wrapped.                        *)
WriteByte_NoWrap(v, b) ==
  IF b = "nl" THEN NewLine(v)
  ELSE IF v.x >= BufferWidth THEN v
  ELSE [v EXCEPT !.x = @ + 1, !.cells[v.y][v.x] = VgaGlyph(b)]

(* Mutant of WriteByte: the row wraps one byte late.                      *)
WriteByte_LateWrap(v, b) ==
  IF b = "nl" THEN NewLine(v)
  ELSE LET w == IF v.x > BufferWidth THEN NewLine(v) ELSE v
       IN [w EXCEPT !.x = @ + 1, !.cells[w.y][w.x] = VgaGlyph(b)]

(* write_byte: a full row is wrapped when the next byte comes.             *)
WriteByte(v, b) ==
  IF b = "nl" THEN NewLine(v)
  ELSE LET w == IF v.x >= BufferWidth THEN NewLine(v) ELSE v
       IN [w EXCEPT !.x = @ + 1, !.cells[w.y][w.x] = VgaGlyph(b)]

-----------------------------------------------------------------------------
(* The framebuffer console.                                                *)

(* newline and the check that follows it: scroll when past the last row.   *)
ConNewLine(c) ==
  IF c.y + 1 >= Rows
  THEN [c EXCEPT !.x = 0, !.y = Rows - 1, !.cells = Scroll(@, "con")]
  ELSE [c EXCEPT !.x = 0, !.y = @ + 1]

(* draw_char_at only sets the glyph's pixels: what was in the cell stays   *)
(* under it, and a space draws nothing.  Below the last row nothing shows. *)
(* 0x7F is not drawn: Panic, below.                                        *)
Glyph(b) == IF b \in {"a", "b"} THEN b ELSE "block"

DrawChar(c, b) ==
  IF c.y >= Rows \/ b = "sp" THEN c
  ELSE [c EXCEPT !.cells[c.y][c.x] = IF @ \in {"blank", Glyph(b)} THEN Glyph(b)
                                     ELSE "junk"]

(* Mutant of Backspace: the cell is not cleared.                          *)
Backspace_KeepsCell(c) ==
  IF c.x > 0 THEN [c EXCEPT !.x = @ - 1]
  ELSE IF c.y > 0 THEN [c EXCEPT !.x = Cols - 1, !.y = @ - 1]
  ELSE c

Backspace(c) ==
  LET d == IF c.x > 0 THEN [c EXCEPT !.x = @ - 1]
           ELSE IF c.y > 0 THEN [c EXCEPT !.x = Cols - 1, !.y = @ - 1]
           ELSE c
  IN IF d.y >= Rows THEN d ELSE [d EXCEPT !.cells[d.y][d.x] = "blank"]

(* A tab past the last column starts a new line, and does not scroll.      *)
Tab(c) ==
  LET next == ((c.x \div TabWidth) + 1) * TabWidth
  IN IF next >= Cols THEN [c EXCEPT !.x = 0, !.y = @ + 1]
     ELSE [c EXCEPT !.x = next]

ConByte(c, b) ==
  CASE b = "nl" -> ConNewLine(c)
    [] b = "cr" -> [c EXCEPT !.x = 0]
    [] b = "bs" -> Backspace(c)
    [] b = "tab" -> Tab(c)
    [] OTHER -> LET d == [DrawChar(c, b) EXCEPT !.x = @ + 1]
                IN IF d.x >= Cols THEN ConNewLine(d) ELSE d

-----------------------------------------------------------------------------
(* The text on device d after byte b, kept while `plain' holds.  A         *)
(* backspace on the console takes the last byte back, if it is on the same *)
(* line and still on the screen.                                           *)
Erasable ==
  LET s == text["con"]
  IN /\ s # <<>> /\ s[Len(s)] # "nl"
     /\ screen["con"].x > 0 \/ screen["con"].y > 0

PlainAfter(d, b) ==
  plain[d] /\ (d = "con" => b \notin {"cr", "tab"} /\ (b = "bs" => Erasable))

TextAfter(d, b) ==
  IF ~PlainAfter(d, b) THEN <<>>
  ELSE IF d = "con" /\ b = "bs" THEN SubSeq(text[d], 1, Len(text[d]) - 1)
  ELSE Append(text[d], b)

(* clear_screen, console_clear_first.                                      *)
Clear(d) ==
  /\ screen' = [screen EXCEPT ![d] = [x |-> 0, y |-> 0, cells |-> Filled(d, "blank")]]
  /\ text' = [text EXCEPT ![d] = <<>>]
  /\ plain' = [plain EXCEPT ![d] = TRUE]
  /\ UNCHANGED hw

(* A byte to a device; update_cursor follows WRITER.                       *)
WriteTo(d, b) ==
  LET new == IF d = "con" THEN ConByte(screen[d], b) ELSE WriteByte(screen[d], b)
  IN /\ screen' = [screen EXCEPT ![d] = new]
     /\ hw' = IF d = "vga" THEN [x |-> new.x, y |-> new.y] ELSE hw
     /\ text' = [text EXCEPT ![d] = TextAfter(d, b)]
     /\ plain' = [plain EXCEPT ![d] = PlainAfter(d, b)]

-----------------------------------------------------------------------------
(* Calls, as lists of what they do.                                        *)

(* The spin locks: ALLOCATOR, the driver's mappings and fb_info, CONSOLES  *)
(* ("con") and WRITER ("vga").                                             *)
Locks == {"heap", "mappings", "fb_info"} \union Devices

Take(l) == [do |-> "take", on |-> l, byte |-> "none"]
Give(l) == [do |-> "give", on |-> l, byte |-> "none"]
Put(d, b) == [do |-> "put", on |-> d, byte |-> b]
Find == [do |-> "find", on |-> "con", byte |-> "none"]

Ops ==
  {Take(l) : l \in Locks} \union {Give(l) : l \in Locks} \union {Find}
    \union {Put(d, b) : d \in Devices, b \in Byte \union {"clear"}}

Under(l, s) == <<Take(l)>> \o s \o <<Give(l)>>

UseHeap == Under("heap", <<>>)

(* draw_rect_at, draw_char_at and get_fb_info read fb_info.                *)
ReadInfo == Under("fb_info", <<>>)

WriteAll(d, m) == Under(d, [i \in 1 .. Len(m) |-> Put(d, m[i])])

(* get_framebuffer_addrs fills a Vec while it holds mappings.              *)
GetAddrs == Under("mappings", UseHeap)

(* Mutant of GetOrCreate: its guard lives on in console_print_first.      *)
GetOrCreate_KeepsGuard == <<Take("con"), Find>>

(* get_or_create_console, whose guard of CONSOLES ends with it.            *)
GetOrCreate == Under("con", <<Find>>)

(* console_print_first: to the console of framebuffer fb, under CONSOLES,  *)
(* which is taken again, until the list of framebuffers is freed; or to    *)
(* WRITER if there is none.                                                *)
FirstOps(m, fb) ==
  IF fb THEN GetAddrs \o GetOrCreate \o WriteAll("con", m) \o UseHeap
  ELSE WriteAll("vga", m)

(* _print: vbe_try_print formats into a String and calls                   *)
(* console_print_first, which returns false without a framebuffer, even    *)
(* though it has printed: _print then prints to WRITER again.              *)
PrintOps(m, fb) ==
  UseHeap \o FirstOps(m, fb) \o UseHeap \o (IF fb THEN <<>> ELSE WriteAll("vga", m))

(* console_clear_first, then clear_screen of WRITER.                       *)
ClearOps(fb) == FirstOps(<<"clear">>, fb) \o WriteAll("vga", <<"clear">>)

(* The handler runs with interrupts off: the kernel thread waits for it.   *)
Runs(t) == t = IF todo["irq"] = <<>> THEN "kernel" ELSE "irq"

Call(list) ==
  /\ Runs("kernel") /\ todo["kernel"] = <<>> /\ calls < MaxCalls
  /\ todo' = [todo EXCEPT !["kernel"] = list]
  /\ calls' = calls + 1
  /\ UNCHANGED <<shown, vbe, known, locks, panicked, irqs>>

PrintLine(m) == Call(PrintOps(m, vbe))

ConsolePrintFirst(m) == Call(FirstOps(m, vbe))

Cls == Call(ClearOps(vbe))

(* default_irq_handler, on a vector no driver has: print, then signal the  *)
(* end of the interrupt.                                                   *)
UnhandledIrq ==
  /\ Runs("kernel") /\ irqs < MaxIrqs
  /\ todo' = [todo EXCEPT !["irq"] = PrintOps(IrqMessage, vbe)]
  /\ irqs' = irqs + 1
  /\ UNCHANGED <<shown, vbe, known, locks, panicked, calls>>

(* A VBE driver is started or stopped (DeviceManager): the framebuffer     *)
(* holds what it held, and its Console object stays in CONSOLES.           *)
Framebuffer ==
  /\ Runs("kernel") /\ todo["kernel"] = <<>>
  /\ vbe' = ~vbe
  /\ text' = [text EXCEPT !["con"] = <<>>]
  /\ plain' = [plain EXCEPT !["con"] = FALSE]
  /\ UNCHANGED <<screen, hw, known, todo, locks, panicked, calls, irqs>>

-----------------------------------------------------------------------------
(* The steps of a call of thread t.                                        *)

At(t, do) == Runs(t) /\ todo[t] # <<>> /\ Head(todo[t]).do = do

On(t) == Head(todo[t]).on

(* Thread t has done the first of its list, and has `more' to do before    *)
(* the rest.                                                               *)
Goes(t, more) == todo' = [todo EXCEPT ![t] = more \o Tail(@)]

Held == UNION {locks[t] : t \in Threads}

(* lock(), which spins until the lock is free.                             *)
Acquire(t) ==
  /\ At(t, "take") /\ On(t) \notin Held
  /\ Goes(t, <<>>)
  /\ locks' = [locks EXCEPT ![t] = @ \union {On(t)}]
  /\ UNCHANGED <<shown, vbe, known, panicked, calls, irqs>>

Spins(t) == At(t, "take") /\ On(t) \in Held

Spin(t) == Spins(t) /\ UNCHANGED cvars

(* The drop of a guard.                                                    *)
Release(t) ==
  /\ At(t, "give")
  /\ Goes(t, <<>>)
  /\ locks' = [locks EXCEPT ![t] = @ \ {On(t)}]
  /\ UNCHANGED <<shown, vbe, known, panicked, calls, irqs>>

(* The search in CONSOLES; a Console that is missing is sized from fb_info *)
(* and pushed.                                                             *)
Search(t) ==
  /\ At(t, "find")
  /\ known' = TRUE
  /\ Goes(t, IF known THEN <<>> ELSE ReadInfo \o UseHeap)
  /\ UNCHANGED <<shown, vbe, locks, panicked, calls, irqs>>

(* The bytes that draw, and the newline that scrolls: fb_info is read      *)
(* while CONSOLES is held, so before or after the byte is the same.        *)
Draws(b) ==
  b \notin {"nl", "cr", "tab"} \/ (b = "nl" /\ screen["con"].y + 1 >= Rows)

Write(t) ==
  /\ At(t, "put")
  /\ LET d == On(t)
         b == Head(todo[t]).byte
     IN /\ <<d, b>> # <<"con", "del">>
        /\ IF b = "clear" THEN Clear(d) ELSE WriteTo(d, b)
        /\ Goes(t, IF d = "con" /\ Draws(b) THEN ReadInfo ELSE <<>>)
  /\ UNCHANGED <<vbe, known, locks, panicked, calls, irqs>>

(* get_glyph lets 0x7F through and indexes FONT8X8 past its 95 glyphs: the *)
(* kernel panics with CONSOLES held, and the panic handler prints.  Its    *)
(* message is left out: the print does not get as far.                     *)
Panic(t) ==
  /\ At(t, "put") /\ Head(todo[t]) = Put("con", "del")
  /\ todo' = [todo EXCEPT ![t] = PrintOps(<<>>, TRUE)]
  /\ panicked' = TRUE
  /\ UNCHANGED <<shown, vbe, known, locks, calls, irqs>>

Step(t) == Acquire(t) \/ Release(t) \/ Search(t) \/ Write(t) \/ Panic(t)

ConsoleNext ==
  \/ \E m \in Messages : PrintLine(m) \/ ConsolePrintFirst(m)
  \/ Cls
  \/ Framebuffer
  \/ UnhandledIrq
  \/ \E t \in Threads : Step(t) \/ Spin(t)

ConsoleSpec == ConsoleInit /\ [][ConsoleNext]_cvars

(* The processor goes on, with the handler or else with the call.          *)
ConsoleFairSpec == ConsoleSpec /\ \A t \in Threads : WF_cvars(Step(t))

-----------------------------------------------------------------------------
(* Reference: where a text is on a device w wide.  Position g of text t is *)
(* behind its first g bytes.                                               *)

(* The position where the line of position g starts.                       *)
LineStart(t, g) ==
  CHOOSE s \in 0 .. g : (s = 0 \/ t[s] = "nl") /\ \A k \in s + 1 .. g : t[k] # "nl"

Column(t, w, g) == (g - LineStart(t, g)) % w

(* A row starts with every line, and wherever a line has filled one: at    *)
(* once where wrapping is immediate (console_print_first), with the next   *)
(* byte of the line where it waits (write_byte).                           *)
RowStarts(t, w, immediate) ==
  {g \in 0 .. Len(t) :
     \/ g = LineStart(t, g)
     \/ Column(t, w, g) = 0 /\ (immediate \/ (g < Len(t) /\ t[g + 1] # "nl"))}

(* How many rows the end of the text is below position g, and the bytes    *)
(* that belong in row r and column c when the text ends in row y.          *)
RowsBelow(starts, g) == Cardinality({s \in starts : s > g})

Here(t, w, starts, y, r, c) ==
  {g \in 0 .. Len(t) - 1 :
     t[g + 1] # "nl" /\ Column(t, w, g) = c /\ r + RowsBelow(starts, g) = y}

(* Screen v of device d shows the end of text t, from some row of it on,   *)
(* and nothing else; the next byte goes behind it, or to the next row if   *)
(* the last one is full.                                                   *)
Shows(v, d, t, immediate) ==
  LET w == Wide(d)
      col == Column(t, w, Len(t))
      starts == RowStarts(t, w, immediate)
  IN  /\ v.y < High(d) /\ v.y <= RowsBelow(starts, 0)
      /\ v.x = IF col = 0 /\ Len(t) \notin starts THEN w ELSE col
      /\ \A r \in 0 .. High(d) - 1, c \in 0 .. w - 1 :
           LET here == Here(t, w, starts, v.y, r, c)
           IN  /\ \A g \in here : v.cells[r][c] = VgaGlyph(t[g + 1])
               /\ here = {} => v.cells[r][c] = "blank"

Cells == {"a", "b", "blank", "block", "junk"}
ConScreens ==
  [x : 0 .. Cols - 1, y : Nat, cells : [0 .. Rows - 1 -> [0 .. Cols - 1 -> Cells]]]
VgaScreens ==
  [x : 0 .. BufferWidth, y : 0 .. BufferHeight - 1,
   cells : [0 .. BufferHeight - 1 -> [0 .. BufferWidth - 1 -> Cells]]]

(* List s gives lock l back, and every lock of h.                          *)
Gives(s, l) == \E i \in 1 .. Len(s) : s[i] = Give(l)

Owes(s, h) == \A l \in h : Gives(s, l)

(* Every variable has its type; WRITER's position is inside its buffer,    *)
(* with the one column past the end that write_byte wraps (chars[row][col] *)
(* panics otherwise), and the console's column is on the screen.  A lock   *)
(* is held by one of the two, never by both, and a call that holds one has *)
(* still to give it back, unless it panics, which drops no guard.          *)
ConsoleTypeOK ==
  /\ vbe \in BOOLEAN
  /\ DOMAIN screen = Devices
  /\ screen["con"] \in ConScreens /\ screen["vga"] \in VgaScreens
  /\ hw \in [x : 0 .. BufferWidth, y : 0 .. BufferHeight - 1]
  /\ text \in [Devices -> Seq(Byte)] /\ plain \in [Devices -> BOOLEAN]
  /\ known \in BOOLEAN /\ panicked \in BOOLEAN
  /\ todo \in [Threads -> Seq(Ops)] /\ locks \in [Threads -> SUBSET Locks]
  /\ locks["kernel"] \intersect locks["irq"] = {}
  /\ panicked \/ \A t \in Threads : Owes(todo[t], locks[t])
  /\ calls \in 0 .. MaxCalls /\ irqs \in 0 .. MaxIrqs

(* After a clear, the VGA buffer shows the end of what was written to it,  *)
(* broken into rows and scrolled, and the hardware cursor is behind it     *)
(* (write_byte, new_line, shift_up, update_cursor).                        *)
VgaShowsText ==
  plain["vga"] =>
    /\ Shows(screen["vga"], "vga", text["vga"], FALSE)
    /\ text["vga"] # <<>> => hw = [x |-> screen["vga"].x, y |-> screen["vga"].y]

(* After a clear, the framebuffer console shows the end of what was        *)
(* printed to it less what backspaces took back, over wraps and scrolls,   *)
(* until a carriage return, a tab, or a backspace that follows a newline   *)
(* or leaves the top of the screen (console_print_first,                   *)
(* console_scroll_mut, the echo of getline).                               *)
ConsoleShowsText ==
  plain["con"] => Shows(screen["con"], "con", text["con"], TRUE)

(* Every print and clear returns, unless it is interrupted for good by a   *)
(* handler that spins on a lock of its, or has panicked on 0x7F: no path   *)
(* takes a lock that it holds already (_print, console_print_first,        *)
(* get_or_create_console, cls!).                                           *)
CallsReturn ==
  todo["kernel"] # <<>> ~>
    todo["kernel"] = <<>> \/ (Spins("irq") /\ On("irq") \in locks["kernel"]) \/ panicked

(* "It simply prints a message and issues an EOI so the interrupt line is  *)
(* cleared" (default_irq_handler): the handler always ends.                *)
HandlerEnds == todo["irq"] # <<>> ~> todo["irq"] = <<>>

=============================================================================
