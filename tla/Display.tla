------------------------------ MODULE Display ------------------------------
(***************************************************************************)
(* What a VNC session promises of a guest's screen: the picture is what    *)
(* the server's rectangles make of it, each applied as a whole.  Screen    *)
(* implements it with rows of bytes (console/vnc.ts, class Framebuffer).   *)
(***************************************************************************)
EXTENDS Naturals

CONSTANTS
  Colors,   \* values of a pixel
  Black     \* a pixel nobody painted, one of them

VARIABLES
  size,     \* <<width, height>>
  picture   \* [Pixels(size) -> Colors]

vars == <<size, picture>>

Pixels(s) == (0..(s[1] - 1)) \X (0..(s[2] - 1))
Area(x, y, w, h) == {p \in Nat \X Nat : x <= p[1] /\ p[1] < x + w /\ y <= p[2] /\ p[2] < y + h}
Fits(s, x, y, w, h) == x + w <= s[1] /\ y + h <= s[2]

Blank(s) == [p \in Pixels(s) |-> Black]

Init == size \in Nat \X Nat /\ picture = Blank(size)

\* A rectangle of new pixels.
Paint(x, y, w, h) ==
  /\ Fits(size, x, y, w, h)
  /\ picture' \in [Pixels(size) -> Colors]
  /\ \A p \in Pixels(size) \ Area(x, y, w, h) : picture'[p] = picture[p]
  /\ UNCHANGED size

\* A rectangle that moves: all its pixels at once, also where it overlaps the
\* place it came from.
Copy(x, y, w, h, srcX, srcY) ==
  /\ Fits(size, x, y, w, h) /\ Fits(size, srcX, srcY, w, h)
  /\ picture' = [p \in Pixels(size) |->
                   IF p \in Area(x, y, w, h)
                   THEN picture[<<p[1] - x + srcX, p[2] - y + srcY>>]
                   ELSE picture[p]]
  /\ UNCHANGED size

\* A new mode begins with a blank screen.
Resize == size' \in Nat \X Nat /\ picture' = Blank(size')

Next ==
  \/ \E x, y, w, h \in Nat : Paint(x, y, w, h)
  \/ \E x, y, w, h, srcX, srcY \in Nat : Copy(x, y, w, h, srcX, srcY)
  \/ Resize

Spec == Init /\ [][Next]_vars
=============================================================================
