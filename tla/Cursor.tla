------------------------------- MODULE Cursor -------------------------------
(***************************************************************************)
(* The software mouse cursor: mouse_event_loop, set_cursor_pos and         *)
(* redraw_cursor of drivers/ps2mouse.rs, pixel by pixel, over the          *)
(* framebuffer that the console of drivers/console.rs draws on as well.    *)
(*                                                                         *)
(* Tasks print between two packets; the default interrupt handler prints   *)
(* at any point of a redraw.  A character cell is one pixel, so that the   *)
(* shape of the glyphs plays no part.  draw_pixel_at checks no bounds, and *)
(* a framebuffer is a function: a write outside it would not be a step.    *)
(***************************************************************************)
EXTENDS Integers, Sequences

CONSTANTS
  Width, Height,   \* fb_info
  W, H,            \* size of the arrow's box, 12 by 16
  Arrow,           \* the indices of the box whose bit is set in ARROW
  MaxDelta,        \* MOUSE_MAX_DELTA
  Deltas,          \* what a packet may report along an axis
  Start,           \* cursor_x and cursor_y of a new driver, 40
  IntMin, IntMax,  \* the range of i32
  MaxPrints        \* bound: characters printed and lines scrolled

Box == 0 .. W * H - 1

ASSUME ScreenOK ==
  /\ W \in Nat \ {0} /\ H \in Nat \ {0}
  /\ Width \in Nat /\ Height \in Nat /\ W <= Width /\ H <= Height
  /\ Arrow \subseteq Box
  /\ IntMin \in Int /\ IntMax \in Int /\ IntMin <= 0
  /\ Width <= IntMax /\ Height <= IntMax
  /\ Start \in IntMin .. IntMax
  /\ MaxDelta \in Nat /\ Deltas \subseteq Int /\ MaxPrints \in Nat

VARIABLES
  fb,         \* the framebuffer
  cursor_x, cursor_y,
  saved_bg,   \* the place and the pixels saved there, as a sequence of <=1
  cpc,         \* "boot", "idle", "restore", "capture" or "draw"
  place,      \* bx, by of the redraw in progress
  bg,         \* the pixels captured so far
  i,          \* the index of the pixel loop
  page,       \* what the console alone has drawn
  prints,     \* characters and lines printed so far
  damaged     \* where the picture behind the arrow may have suffered

cvars == <<fb, cursor_x, cursor_y, saved_bg, cpc, place, bg, i, page, prints,
          damaged>>

Screen == (0 .. Width - 1) \X (0 .. Height - 1)

(* The pixel of index k in the box at <<x, y>>, row by row.                *)
Pixel(at, k) == <<at[1] + (k % W), at[2] + (k \div W)>>

(* Mutant of Clamp: the far edge of the arrow's box is forgotten.          *)
Clamp_ToScreen(v, size, box) ==
  IF v < 0 THEN 0 ELSE IF v > size - 1 THEN size - 1 ELSE v

(* Where along an axis the box is shown for a cursor at v.                 *)
Clamp(v, size, box) ==
  IF v < 0 THEN 0 ELSE IF v > size - box THEN size - box ELSE v

Bounded(v, lo, hi) == IF v < lo THEN lo ELSE IF v > hi THEN hi ELSE v

(* Colours: every pixel starts with one of its own, its coordinates, so    *)
(* that the picture tells where each pixel came from.                      *)
White == <<-1, 0>>
Ink == <<-2, 0>>
Blank == <<-3, 0>>
Colour == Int \X Int

CursorInit ==
  /\ fb = [p \in Screen |-> p] /\ page = fb
  /\ cursor_x = Start /\ cursor_y = Start
  /\ saved_bg = <<>> /\ cpc = "boot" /\ place = <<0, 0>> /\ bg = <<>> /\ i = 0
  /\ prints = 0 /\ damaged = {}

-----------------------------------------------------------------------------
(* What is behind the arrow.  A pixel is held while its colour lives in    *)
(* the driver and not on the screen.                                       *)

Saved == saved_bg # <<>>

(* The box indices held, where that box is, and the colours.               *)
HeldAt == IF cpc = "capture" \/ ~Saved THEN place ELSE saved_bg[1].at
HeldIdx ==
  CASE cpc = "capture" -> 0 .. i - 1
    [] cpc = "restore" -> i .. W * H - 1
    [] OTHER -> IF Saved THEN Box ELSE {}
HeldColour(k) == IF cpc = "capture" THEN bg[k + 1] ELSE saved_bg[1].bg[k + 1]

Held == {Pixel(HeldAt, k) : k \in HeldIdx}
HeldArrow == {Pixel(HeldAt, k) : k \in HeldIdx \cap Arrow}

(* The screen with the arrow taken away.                                   *)
Behind(p) ==
  IF p \in Held
  THEN HeldColour(CHOOSE k \in HeldIdx : Pixel(HeldAt, k) = p)
  ELSE fb[p]

-----------------------------------------------------------------------------
(* redraw_cursor                                                           *)

(* Mutant of StartRedraw: the new background is captured before the old    *)
(* one is put back.                                                        *)
StartRedraw_CaptureFirst(x, y) ==
  /\ cursor_x' = x /\ cursor_y' = y
  /\ place' = <<Clamp(x, Width, W), Clamp(y, Height, H)>>
  /\ cpc' = "capture"
  /\ i' = 0 /\ bg' = <<>>
  /\ damaged' = IF Saved /\ saved_bg[1].at = place'
                THEN damaged \cup HeldArrow ELSE damaged
  /\ UNCHANGED <<fb, saved_bg, page, prints>>

(* A redraw with the cursor at x, y.  The saved pixels are put back only   *)
(* if the arrow moves; in place the arrow itself becomes the background.   *)
StartRedraw(x, y) ==
  /\ cursor_x' = x /\ cursor_y' = y
  /\ place' = <<Clamp(x, Width, W), Clamp(y, Height, H)>>
  /\ i' = 0 /\ bg' = <<>>
  /\ IF Saved /\ saved_bg[1].at # place'
     THEN cpc' = "restore" /\ damaged' = damaged
     ELSE cpc' = "capture" /\ damaged' = damaged \cup HeldArrow
  /\ UNCHANGED <<fb, saved_bg, page, prints>>

(* Mutant of RestorePixel: the loop ends one row early.                    *)
RestorePixel_ShortLoop ==
  /\ cpc = "restore"
  /\ fb' = [fb EXCEPT ![Pixel(saved_bg[1].at, i)] = saved_bg[1].bg[i + 1]]
  /\ IF i + 1 < W * (H - 1)
     THEN i' = i + 1 /\ UNCHANGED <<cpc, saved_bg>>
     ELSE i' = 0 /\ cpc' = "capture" /\ saved_bg' = <<>>
  /\ UNCHANGED <<cursor_x, cursor_y, place, bg, page, prints, damaged>>

RestorePixel ==
  /\ cpc = "restore"
  /\ fb' = [fb EXCEPT ![Pixel(saved_bg[1].at, i)] = saved_bg[1].bg[i + 1]]
  /\ IF i + 1 < W * H
     THEN i' = i + 1 /\ UNCHANGED <<cpc, saved_bg>>
     ELSE i' = 0 /\ cpc' = "capture" /\ saved_bg' = <<>>
  /\ UNCHANGED <<cursor_x, cursor_y, place, bg, page, prints, damaged>>

CapturePixel ==
  /\ cpc = "capture" /\ i < W * H
  /\ bg' = Append(bg, fb[Pixel(place, i)])
  /\ i' = i + 1
  /\ UNCHANGED <<fb, cursor_x, cursor_y, saved_bg, cpc, place, page, prints,
                 damaged>>

SaveBackground ==
  /\ cpc = "capture" /\ i = W * H
  /\ saved_bg' = <<[at |-> place, bg |-> bg]>>
  /\ cpc' = "draw" /\ i' = 0 /\ bg' = <<>>
  /\ UNCHANGED <<fb, cursor_x, cursor_y, place, page, prints, damaged>>

DrawPixel ==
  /\ cpc = "draw"
  /\ fb' = IF i \in Arrow THEN [fb EXCEPT ![Pixel(place, i)] = White] ELSE fb
  /\ IF i + 1 < W * H THEN i' = i + 1 /\ cpc' = cpc ELSE i' = 0 /\ cpc' = "idle"
  /\ UNCHANGED <<cursor_x, cursor_y, saved_bg, place, bg, page, prints, damaged>>

-----------------------------------------------------------------------------
(* The callers of redraw_cursor                                            *)

(* main.rs centres the cursor once the framebuffer is up.                  *)
CentreCursor == cpc = "boot" /\ StartRedraw(Width \div 2, Height \div 2)

(* mouse_event_loop: the clamped movement is added, saturating; up is      *)
(* towards smaller y.  The position itself may leave the screen.           *)
MovePacket(dx, dy) ==
  /\ cpc = "idle"
  /\ LET x == cursor_x + Bounded(dx, -MaxDelta, MaxDelta)
         y == cursor_y - Bounded(dy, -MaxDelta, MaxDelta)
     IN  StartRedraw(Bounded(x, IntMin, IntMax), Bounded(y, IntMin, IntMax))

-----------------------------------------------------------------------------
(* The console: console_print_first and console_scroll_mut know nothing of *)
(* the cursor and draw on the framebuffer as it is.                        *)

PrintChar(p) ==
  /\ prints < MaxPrints
  /\ prints' = prints + 1
  /\ fb' = [fb EXCEPT ![p] = Ink]
  /\ page' = [page EXCEPT ![p] = Ink]
  /\ damaged' = IF p \in Held THEN damaged \cup {p} ELSE damaged \ {p}
  /\ UNCHANGED <<cursor_x, cursor_y, saved_bg, cpc, place, bg, i>>

(* The lines move up by one and the last one is cleared.                   *)
Scrolled(f) ==
  [p \in Screen |-> IF p[2] + 1 < Height THEN f[<<p[1], p[2] + 1>>] ELSE Blank]

(* The arrow's pixels move up with the text; the held ones stay behind.    *)
ScrollLine ==
  /\ prints < MaxPrints
  /\ prints' = prints + 1
  /\ fb' = Scrolled(fb)
  /\ page' = Scrolled(page)
  /\ damaged' = Held \cup {p \in Screen :
                             <<p[1], p[2] + 1>> \in damaged \cup HeldArrow}
  /\ UNCHANGED <<cursor_x, cursor_y, saved_bg, cpc, place, bg, i>>

Redraw == RestorePixel \/ CapturePixel \/ SaveBackground \/ DrawPixel

ConsoleDraws == ScrollLine \/ \E p \in Screen : PrintChar(p)

CursorNext ==
  \/ CentreCursor
  \/ \E dx, dy \in Deltas : MovePacket(dx, dy)
  \/ Redraw
  \/ ConsoleDraws

CursorSpec == CursorInit /\ [][CursorNext]_cvars

-----------------------------------------------------------------------------
(* Properties                                                              *)

Places == (0 .. Width - W) \X (0 .. Height - H)

(* Type invariant.  The boxes that redraw_cursor reads and writes without  *)
(* a bounds check lie on the screen, however far the position has drifted. *)
CursorTypeOK ==
  /\ fb \in [Screen -> Colour] /\ page \in [Screen -> Colour]
  /\ cursor_x \in IntMin .. IntMax /\ cursor_y \in IntMin .. IntMax
  /\ place \in Places
  /\ saved_bg \in Seq([at : Places, bg : Seq(Colour)])
  /\ Saved => Len(saved_bg) = 1 /\ Len(saved_bg[1].bg) = W * H
  /\ cpc \in {"boot", "idle", "restore", "capture", "draw"}
  /\ i \in 0 .. W * H
  /\ bg \in Seq(Colour) /\ Len(bg) = IF cpc = "capture" THEN i ELSE 0
  /\ prints \in 0 .. MaxPrints
  /\ damaged \subseteq Screen

(* Moving the arrow is invisible: no step of redraw_cursor's loops changes *)
(* what is behind the arrow, where old and new box overlap and whatever an *)
(* interrupt handler printed in between.                                   *)
MovesAreTransparent ==
  [][Redraw => \A p \in Screen : Behind(p)' = Behind(p)]_cvars

(* The picture behind the arrow is the one the console drew, but for the   *)
(* pixels of an arrow redrawn in place, characters printed inside the      *)
(* arrow's box, and lines scrolled past it: two boxes that overlap, a      *)
(* cursor at an edge and a print in the middle of a redraw do no harm.     *)
DamageIsLocal == \A p \in Screen \ damaged : Behind(p) = page[p]

(* The inductive invariant behind the properties above: a pixel held       *)
(* outside the arrow shows its own colour, if it is not damaged, so that   *)
(* the loss of the held colours in an in-place redraw costs the arrow's    *)
(* pixels only; restoring and drawing have the pixels they need.           *)
CursorInv ==
  /\ CursorTypeOK /\ DamageIsLocal
  /\ \A k \in HeldIdx \ Arrow :
       Pixel(HeldAt, k) \notin damaged => fb[Pixel(HeldAt, k)] = HeldColour(k)
  /\ cpc \in {"restore", "draw"} => Saved /\ i < W * H
  /\ cpc = "draw" => saved_bg[1].at = place
  /\ cpc = "boot" => ~Saved

(* Between two packets the arrow is whole and is where the clamped         *)
(* position says, unless something was printed; there is no second arrow   *)
(* but the ghost of one redrawn in place.                                  *)
ArrowPlace == <<Clamp(cursor_x, Width, W), Clamp(cursor_y, Height, H)>>
ArrowShown ==
  cpc = "idle" /\ prints = 0 =>
    LET shown == {Pixel(ArrowPlace, k) : k \in Arrow}
    IN  /\ \A p \in shown : fb[p] = White
        /\ \A p \in Screen \ (damaged \cup shown) : fb[p] # White

(* What ArrowShown needs besides: a redraw is for the present position,    *)
(* leaves its own box saved, and has drawn the arrow up to its index.      *)
ArrowInv ==
  /\ cpc # "boot" => place = ArrowPlace
  /\ cpc = "idle" => Saved /\ saved_bg[1].at = place
  /\ prints = 0 =>
       /\ \A p \in Screen : page[p] # White
       /\ cpc = "draw" => \A k \in Arrow : k < i => fb[Pixel(place, k)] = White
       /\ cpc = "idle" => \A k \in Arrow : fb[Pixel(place, k)] = White

=============================================================================
