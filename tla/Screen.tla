------------------------------- MODULE Screen -------------------------------
(***************************************************************************)
(* The framebuffer of a VNC session (class Framebuffer of console/vnc.ts)  *)
(* and the checks a rectangle passes before it is painted                  *)
(* (parseRectangle of console/rfb.ts, checkScreenSize of console/vnc.ts).  *)
(*                                                                         *)
(* The pixels of a screen lie row by row in one buffer, and a rectangle is *)
(* painted by copying one stretch of the buffer per row.  A step paints a  *)
(* row; the loop is synchronous, so nobody reads the buffer between two.   *)
(* When a rectangle comes, and of which messages it is part, is in Vnc.    *)
(* A pixel stands for its four bytes.  X_Something, commented "Wrong:", is *)
(* a mutant of X.                                                          *)
(***************************************************************************)
EXTENDS Integers

CONSTANTS
  Sizes,      \* modes the server may announce, as <<width, height>>
  MaxPixels,  \* MAX_SCREEN_PIXELS
  Coords,     \* what the fields of a rectangle are taken from
  Colors,     \* values of a pixel
  Black,      \* Buffer.alloc's value
  None

ASSUME ScreenAssumption ==
  /\ Sizes \subseteq Nat \X Nat /\ MaxPixels \in Nat /\ Coords \subseteq Nat
  /\ Black \in Colors

VARIABLES
  width, height,  \* the mode of the framebuffer
  buffer,         \* its pixels, row by row
  rect,           \* the rectangle being painted, or None
  done,           \* how many of its rows are painted
  failed,         \* the session failed over a rectangle
  before          \* the buffer when rect arrived (history)

vars == <<width, height, buffer, rect, done, failed, before>>

Addresses(w, h) == 0..(w * h - 1)
Blank(w, h) == [i \in Addresses(w, h) |-> Black]

Raw == [encoding : {"raw"}, x : Coords, y : Coords, w : Coords, h : Coords]
CopyRect == [encoding : {"copy"}, x : Coords, y : Coords, w : Coords, h : Coords,
             srcX : Coords, srcY : Coords]

\* The new pixels of a raw rectangle, row by row; of the others there are none.
Data(r) == IF r.encoding = "raw" THEN [Addresses(r.w, r.h) -> Colors] ELSE {<<>>}

-----------------------------------------------------------------------------
(* What is checked before a rectangle is painted.                          *)

\* checkBounds()
InBounds(x, y, w, h) == x + w <= width /\ y + h <= height

\* Wrong: only the destination of a CopyRect is checked.
Accepted_Destination(r) == InBounds(r.x, r.y, r.w, r.h)

\* parseRectangle()
Accepted(r) ==
  /\ InBounds(r.x, r.y, r.w, r.h)
  /\ r.encoding = "copy" => InBounds(r.srcX, r.srcY, r.w, r.h)

\* checkScreenSize()
Affordable(s) == s[1] * s[2] <= MaxPixels

-----------------------------------------------------------------------------
(* The rows.                                                               *)

Address(x, y) == y * width + x

\* Buffer.copy: the stretch of n pixels at dst takes the values source has in
\* the one at src, as if it had been read first.
Copied(source, src, dst, n) ==
  [i \in DOMAIN buffer |->
     IF dst <= i /\ i < dst + n THEN source[i - dst + src] ELSE buffer[i]]

\* Wrong: always from the top.
BottomUp_Never(r) == FALSE

BottomUp(r) == r.srcY < r.y \/ (r.srcY = r.y /\ r.srcX < r.x)

\* The row that follows after n rows.
RowAfter(r, n) == IF r.encoding = "copy" /\ BottomUp(r) THEN r.h - 1 - n ELSE n

\* Where a row of a rectangle is read from.
Source(r, row) ==
  IF r.encoding = "raw" THEN row * r.w ELSE Address(r.srcX, r.srcY + row)

-----------------------------------------------------------------------------
Init ==
  /\ \E s \in Sizes : Affordable(s) /\ width = s[1] /\ height = s[2]
  /\ buffer = Blank(width, height)
  /\ rect = None /\ done = 0 /\ failed = FALSE
  /\ before = buffer

Ready == ~failed /\ rect = None

\* A rectangle is checked against the screen as it stands, and then awaited
\* with its data.
Receive(r) ==
  /\ Ready
  /\ IF Accepted(r)
     THEN /\ \E data \in Data(r) : rect' = [shape |-> r, data |-> data]
          /\ UNCHANGED failed
     ELSE failed' = TRUE /\ UNCHANGED rect
  /\ done' = 0
  /\ before' = buffer
  /\ UNCHANGED <<width, height, buffer>>

\* One turn of the loop in applyRaw or applyCopyRect.
PaintRow ==
  /\ rect # None /\ done < rect.shape.h
  /\ LET r == rect.shape
         row == RowAfter(r, done)
     IN  buffer' = Copied(IF r.encoding = "raw" THEN rect.data ELSE buffer,
                          Source(r, row), Address(r.x, r.y + row), r.w)
  /\ done' = done + 1
  /\ UNCHANGED <<width, height, rect, failed, before>>

\* The loop is over; snapshot() shows the rectangle from here on.
Applied ==
  /\ rect # None /\ done = rect.shape.h
  /\ rect' = None
  /\ before' = buffer
  /\ UNCHANGED <<width, height, buffer, done, failed>>

\* The DesktopSize pseudo-encoding.
Resize(s) ==
  /\ Ready
  /\ IF Affordable(s)
     THEN /\ width' = s[1] /\ height' = s[2]
          /\ buffer' = Blank(s[1], s[2])
          /\ UNCHANGED failed
     ELSE failed' = TRUE /\ UNCHANGED <<width, height, buffer>>
  /\ before' = buffer'
  /\ UNCHANGED <<rect, done>>

Next ==
  \/ \E r \in Raw \cup CopyRect : Receive(r)
  \/ PaintRow \/ Applied
  \/ \E s \in Sizes : Resize(s)

Spec == Init /\ [][Next]_vars

-----------------------------------------------------------------------------
(* Properties.                                                             *)

\* Type invariant: the buffer is as long as its mode says, and what is being
\* painted fits, source and destination.
TypeOK ==
  /\ width \in Nat /\ height \in Nat /\ width * height <= MaxPixels
  /\ buffer \in [Addresses(width, height) -> Colors]
  /\ before \in [Addresses(width, height) -> Colors]
  /\ done \in Nat /\ failed \in BOOLEAN
  /\ rect # None =>
       /\ rect.shape \in Raw \cup CopyRect /\ rect.data \in Data(rect.shape)
       /\ InBounds(rect.shape.x, rect.shape.y, rect.shape.w, rect.shape.h)
       /\ rect.shape.encoding = "copy" =>
            InBounds(rect.shape.srcX, rect.shape.srcY, rect.shape.w, rect.shape.h)
       /\ done <= rect.shape.h

\* A buffer seen as a picture, and what a rectangle makes of a picture when
\* all its pixels change at once.
Picture(b) == [p \in (0..(width - 1)) \X (0..(height - 1)) |-> b[Address(p[1], p[2])]]
Inside(r, p) == r.x <= p[1] /\ p[1] < r.x + r.w /\ r.y <= p[2] /\ p[2] < r.y + r.h
Repainted(r, data, old) ==
  [p \in DOMAIN old |->
     IF ~Inside(r, p) THEN old[p]
     ELSE IF r.encoding = "raw" THEN data[(p[2] - r.y) * r.w + (p[1] - r.x)]
     ELSE old[<<p[1] - r.x + r.srcX, p[2] - r.y + r.srcY>>]]

\* A rectangle that was painted row by row makes of the screen what it says,
\* all its pixels at once and no others: no row of a copy is overwritten before
\* it is read, however source and destination overlap, and no row runs over
\* the edge into the next one.  A screen at rest is the one last painted.
RectanglesAreWhole ==
  /\ (rect # None /\ done = rect.shape.h) =>
       Picture(buffer) = Repainted(rect.shape, rect.data, Picture(before))
  /\ rect = None => buffer = before

\* The framebuffer implements Display: what a reader sees is the picture
\* before the rectangle being painted.
D == INSTANCE Display WITH size <- <<width, height>>, picture <- Picture(before)
ImplementsDisplay == D!Spec
=============================================================================
