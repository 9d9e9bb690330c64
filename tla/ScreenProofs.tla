---------------------------- MODULE ScreenProofs ----------------------------
(* Theorems about Screen: painting row by row is painting at once, for all *)
(* modes, rectangles and pixels.                                           *)
EXTENDS Screen, TLAPS

-----------------------------------------------------------------------------
(* Addresses.                                                              *)

\* Rows do not overlap: what lies in an earlier row lies before the next one.
LEMMA RowsApart ==
  ASSUME NEW w \in Nat, NEW y \in Nat, NEW z \in Nat, y < z
  PROVE  y * w + w <= z * w
<1>1. PICK k \in Nat : z = y + 1 + k
  <2>1. z - (y + 1) \in Nat /\ z = y + 1 + (z - (y + 1))
    OBVIOUS
  <2> QED BY <2>1
<1>2. z * w = y * w + w + k * w
  BY <1>1
<1>3. k * w \in Nat /\ y * w \in Nat
  OBVIOUS
<1> QED BY <1>2, <1>3

\* A pixel of the screen has an address of the buffer.
LEMMA AddressInRange ==
  ASSUME NEW w \in Nat, NEW h \in Nat, NEW x \in 0..(w - 1), NEW y \in 0..(h - 1)
  PROVE  y * w + x \in 0..(w * h - 1)
<1>1. y * w + w <= h * w
  BY RowsApart
<1>2. y * w \in Nat /\ h * w = w * h /\ w * h \in Nat
  OBVIOUS
<1> QED BY <1>1, <1>2

\* A stretch of n pixels that begins in a row and ends in it has no pixels of
\* other rows.
LEMMA StretchOfRow ==
  ASSUME NEW w \in Nat, NEW x \in 0..(w - 1), NEW y \in Nat,
         NEW X \in Nat, NEW Y \in Nat, NEW n \in Nat, X + n <= w
  PROVE  (Y * w + X <= y * w + x /\ y * w + x < Y * w + X + n)
           <=> (y = Y /\ X <= x /\ x < X + n)
<1>1. y * w \in Nat /\ Y * w \in Nat
  OBVIOUS
<1>2. CASE y < Y
  <2>1. y * w + w <= Y * w
    BY <1>2, RowsApart
  <2> QED BY <1>1, <1>2, <2>1
<1>3. CASE Y < y
  <2>1. Y * w + w <= y * w
    BY <1>3, RowsApart
  <2> QED BY <1>1, <1>3, <2>1
<1>4. CASE y = Y
  BY <1>1, <1>4
<1> QED BY <1>2, <1>3, <1>4

-----------------------------------------------------------------------------
(* The inductive invariant: how far a rectangle has come.                  *)

\* Row number row of the rectangle is painted when n rows are.
RowPainted(r, n, row) ==
  IF r.encoding = "copy" /\ BottomUp(r) THEN r.h - n <= row ELSE row < n

\* What a pixel inside the rectangle is to become.
NewPixel(r, data, x, y) ==
  IF r.encoding = "raw" THEN data[(y - r.y) * r.w + (x - r.x)]
  ELSE before[Address(x - r.x + r.srcX, y - r.y + r.srcY)]

\* The painted rows have their new pixels, and nothing else has changed: in
\* particular a row that is still to be read is the one it was.
HalfPainted ==
  rect # None =>
    \A x \in 0..(width - 1), y \in 0..(height - 1) :
      buffer[Address(x, y)] =
        IF Inside(rect.shape, <<x, y>>) /\ RowPainted(rect.shape, done, y - rect.shape.y)
        THEN NewPixel(rect.shape, rect.data, x, y)
        ELSE before[Address(x, y)]

AtRest == rect = None => buffer = before

IInv == TypeOK /\ HalfPainted /\ AtRest

\* A copy of n pixels inside both buffers leaves a buffer of pixels.
LEMMA CopiedIsBuffer ==
  ASSUME NEW source, NEW src \in Nat, NEW dst \in Nat, NEW n \in Nat,
         NEW w \in Nat, NEW h \in Nat,
         buffer \in [Addresses(w, h) -> Colors],
         \A k \in 0..(n - 1) : source[src + k] \in Colors
  PROVE  Copied(source, src, dst, n) \in [Addresses(w, h) -> Colors]
<1>1. SUFFICES ASSUME NEW i \in Addresses(w, h), dst <= i, i < dst + n
               PROVE  source[i - dst + src] \in Colors
  BY DEF Copied
<1>2. i \in Int /\ i - dst \in 0..(n - 1) /\ src + (i - dst) = i - dst + src
  BY <1>1 DEF Addresses
<1> QED BY <1>2

\* The fields of a rectangle are numbers, and a raw one has its data.
LEMMA Shapes ==
  ASSUME NEW r \in Raw \cup CopyRect
  PROVE  /\ r.x \in Nat /\ r.y \in Nat /\ r.w \in Nat /\ r.h \in Nat
         /\ r.encoding \in {"raw", "copy"}
         /\ r.encoding = "copy" => r.srcX \in Nat /\ r.srcY \in Nat
<1>1. Coords \subseteq Nat
  BY ScreenAssumption
<1>2. CASE r \in Raw
  BY <1>1, <1>2 DEF Raw
<1>3. CASE r \in CopyRect
  BY <1>1, <1>3 DEF CopyRect
<1> QED BY <1>2, <1>3

LEMMA InitIInv == Init => IInv
<1> SUFFICES ASSUME Init PROVE IInv
  OBVIOUS
<1>1. width \in Nat /\ height \in Nat /\ width * height <= MaxPixels
  BY ScreenAssumption DEF Init, Affordable
<1>2. Blank(width, height) \in [Addresses(width, height) -> Colors]
  BY ScreenAssumption DEF Blank
<1> QED BY <1>1, <1>2 DEF Init, IInv, TypeOK, HalfPainted, AtRest

LEMMA ReceiveIInv ==
  ASSUME IInv, NEW r \in Raw \cup CopyRect, Receive(r)
  PROVE  IInv'
<1> USE DEF IInv, Receive, Ready
<1>1. r.h \in Nat /\ r.x \in Nat /\ r.y \in Nat /\ r.w \in Nat
  BY Shapes
<1>2. TypeOK'
  <2>1. CASE Accepted(r)
    <3>1. PICK data \in Data(r) : rect' = [shape |-> r, data |-> data]
      BY <2>1
    <3>2. rect'.shape = r /\ rect'.data \in Data(r) /\ done' = 0 /\ failed' = failed
      BY <2>1, <3>1
    <3> QED BY <1>1, <2>1, <3>2 DEF TypeOK, Accepted, InBounds, Data
  <2>2. CASE ~Accepted(r)
    BY <2>2 DEF TypeOK
  <2> QED BY <2>1, <2>2
<1>3. AtRest'
  BY DEF AtRest
<1>4. HalfPainted'
  <2> SUFFICES ASSUME rect' # None,
                      NEW x \in 0..(width' - 1), NEW y \in 0..(height' - 1)
               PROVE  ~(Inside(rect.shape, <<x, y>>)
                        /\ RowPainted(rect.shape, done, y - rect.shape.y))'
    BY DEF HalfPainted, Address
  <2>1. rect'.shape = r /\ done' = 0
    OBVIOUS
  <2>2. y \in Int
    BY DEF TypeOK
  <2> QED BY <1>1, <2>1, <2>2 DEF Inside, RowPainted, BottomUp
<1> QED BY <1>2, <1>3, <1>4

LEMMA AppliedIInv ==
  ASSUME IInv, Applied
  PROVE  IInv'
BY DEF IInv, Applied, TypeOK, HalfPainted, AtRest

LEMMA ResizeIInv ==
  ASSUME IInv, NEW s \in Sizes, Resize(s)
  PROVE  IInv'
<1> USE DEF IInv, Resize, Ready
<1>1. s[1] \in Nat /\ s[2] \in Nat
  BY ScreenAssumption
<1>2. Blank(s[1], s[2]) \in [Addresses(s[1], s[2]) -> Colors]
  BY ScreenAssumption DEF Blank
<1>3. TypeOK'
  BY <1>1, <1>2 DEF TypeOK, Affordable
<1> QED BY <1>3 DEF HalfPainted, AtRest

\* A row still to be painted is read and written inside the buffer.
LEMMA RowBounds ==
  ASSUME TypeOK, rect # None, done < rect.shape.h
  PROVE  LET r == rect.shape
             row == RowAfter(r, done)
         IN  /\ row \in 0..(r.h - 1)
             /\ ~RowPainted(r, done, row)
             /\ \A y \in Int : (y \in 0..(r.h - 1) /\ RowPainted(r, done + 1, y))
                                 <=> (y \in 0..(r.h - 1) /\ (RowPainted(r, done, y) \/ y = row))
<1> DEFINE r == rect.shape
<1>1. r \in Raw \cup CopyRect /\ done \in Nat
  BY DEF TypeOK
<1>2. r.h \in Nat
  BY <1>1, Shapes
<1> QED BY <1>1, <1>2 DEF RowAfter, RowPainted

\* Where the pixels of a row are read from lies in the data or in the buffer.
LEMMA SourceInRange ==
  ASSUME TypeOK, rect # None, NEW row \in 0..(rect.shape.h - 1)
  PROVE  LET r == rect.shape IN
         /\ Source(r, row) \in Nat
         /\ \A k \in 0..(r.w - 1) :
              (IF r.encoding = "raw" THEN rect.data ELSE buffer)[Source(r, row) + k] \in Colors
<1> DEFINE r == rect.shape
<1>1. r \in Raw \cup CopyRect /\ width \in Nat /\ height \in Nat
  BY DEF TypeOK
<1>2. r.w \in Nat /\ r.h \in Nat /\ r.encoding \in {"raw", "copy"}
  BY <1>1, Shapes
<1>3. CASE r.encoding = "raw"
  <2>1. rect.data \in [Addresses(r.w, r.h) -> Colors]
    BY <1>3 DEF TypeOK, Data
  <2>2. row * r.w \in Nat
    BY <1>2
  <2>3. \A k \in 0..(r.w - 1) : row * r.w + k \in Addresses(r.w, r.h)
    BY <1>2, AddressInRange DEF Addresses
  <2> QED BY <1>3, <2>1, <2>2, <2>3 DEF Source
<1>4. CASE r.encoding = "copy"
  <2>1. /\ r.srcX \in Nat /\ r.srcY \in Nat
        /\ r.srcX + r.w <= width /\ r.srcY + r.h <= height
    BY <1>1, <1>4, Shapes DEF TypeOK, InBounds
  <2>2. r.srcY + row \in 0..(height - 1)
    BY <1>1, <1>2, <2>1
  <2>3. (r.srcY + row) * width \in Nat
    BY <1>1, <2>1
  <2>4. \A k \in 0..(r.w - 1) : (r.srcY + row) * width + (r.srcX + k) \in Addresses(width, height)
    <3> TAKE k \in 0..(r.w - 1)
    <3>1. r.srcX + k \in 0..(width - 1)
      BY <1>1, <1>2, <2>1
    <3> QED BY <1>1, <2>2, <3>1, AddressInRange DEF Addresses
  <2>5. \A k \in 0..(r.w - 1) : Source(r, row) + k = (r.srcY + row) * width + (r.srcX + k)
    BY <1>2, <1>4, <2>1, <2>3 DEF Source, Address
  <2>6. Source(r, row) \in Nat
    BY <1>4, <2>1, <2>3 DEF Source, Address
  <2>7. buffer \in [Addresses(width, height) -> Colors]
    BY DEF TypeOK
  <2> QED BY <1>4, <2>4, <2>5, <2>6, <2>7
<1> QED BY <1>2, <1>3, <1>4

LEMMA PaintRowTypeOK ==
  ASSUME TypeOK, PaintRow
  PROVE  TypeOK'
<1> DEFINE r == rect.shape
<1> DEFINE row == RowAfter(r, done)
<1>1. /\ r \in Raw \cup CopyRect /\ width \in Nat /\ height \in Nat /\ done \in Nat
      /\ buffer \in [Addresses(width, height) -> Colors]
  BY DEF TypeOK, PaintRow
<1>2. r.w \in Nat /\ r.h \in Nat /\ r.x \in Nat /\ r.y \in Nat
  BY <1>1, Shapes
<1>3. row \in 0..(r.h - 1)
  BY RowBounds DEF PaintRow
<1>4. Address(r.x, r.y + row) \in Nat
  <2>1. (r.y + row) * width \in Nat
    BY <1>1, <1>2, <1>3
  <2> QED BY <1>2, <2>1 DEF Address
<1>5. buffer' \in [Addresses(width, height) -> Colors]
  <2> DEFINE source == IF r.encoding = "raw" THEN rect.data ELSE buffer
  <2>1. Source(r, row) \in Nat /\ \A k \in 0..(r.w - 1) : source[Source(r, row) + k] \in Colors
    BY <1>3, SourceInRange DEF PaintRow
  <2>2. buffer' = Copied(source, Source(r, row), Address(r.x, r.y + row), r.w)
    BY DEF PaintRow
  <2> HIDE DEF source, row
  <2> QED BY <1>1, <1>2, <1>4, <2>1, <2>2, CopiedIsBuffer
<1>6. done' = done + 1 /\ done' <= r.h /\ UNCHANGED <<width, height, rect, failed, before>>
  BY <1>1, <1>2 DEF PaintRow
<1> QED BY <1>1, <1>5, <1>6 DEF TypeOK, InBounds

\* The row that is painted, pixel by pixel: those of the rectangle take what
\* stands in the source, the others stay.
LEMMA RowPixels ==
  ASSUME TypeOK, PaintRow,
         NEW x \in 0..(width - 1), NEW y \in 0..(height - 1)
  PROVE  LET r == rect.shape
             row == RowAfter(r, done)
             source == IF r.encoding = "raw" THEN rect.data ELSE buffer
         IN  buffer'[Address(x, y)] =
               IF y = r.y + row /\ r.x <= x /\ x < r.x + r.w
               THEN source[Source(r, row) + (x - r.x)]
               ELSE buffer[Address(x, y)]
<1> DEFINE r == rect.shape
<1> DEFINE row == RowAfter(r, done)
<1> DEFINE source == IF r.encoding = "raw" THEN rect.data ELSE buffer
<1> DEFINE dst == Address(r.x, r.y + row)
<1>1. /\ r \in Raw \cup CopyRect /\ width \in Nat /\ height \in Nat
      /\ buffer \in [Addresses(width, height) -> Colors]
      /\ r.x + r.w <= width
  BY DEF TypeOK, PaintRow, InBounds
<1>2. r.w \in Nat /\ r.h \in Nat /\ r.x \in Nat /\ r.y \in Nat
  BY <1>1, Shapes
<1>3. row \in 0..(r.h - 1)
  BY RowBounds DEF PaintRow
<1>4. Source(r, row) \in Nat
  BY <1>3, SourceInRange DEF PaintRow
<1>5. Address(x, y) \in DOMAIN buffer
  BY <1>1, AddressInRange DEF Address, Addresses
<1>6. (dst <= Address(x, y) /\ Address(x, y) < dst + r.w)
        <=> (y = r.y + row /\ r.x <= x /\ x < r.x + r.w)
  <2>1. r.y + row \in Nat
    BY <1>2, <1>3
  <2> HIDE DEF row
  <2> QED BY <1>1, <1>2, <2>1, StretchOfRow DEF Address
<1>7. y = r.y + row => Address(x, y) - dst = x - r.x
  <2> HIDE DEF row
  <2>1. y * width \in Nat
    BY <1>1
  <2> QED BY <1>1, <1>2, <2>1 DEF Address
<1>8. Address(x, y) \in Int /\ dst \in Int
  <2>1. y * width \in Int /\ (r.y + row) * width \in Int
    BY <1>1, <1>2, <1>3
  <2> QED BY <1>2, <2>1 DEF Address
<1>9. buffer' = Copied(source, Source(r, row), dst, r.w)
  BY DEF PaintRow
<1>10. buffer'[Address(x, y)] =
         IF y = r.y + row /\ r.x <= x /\ x < r.x + r.w
         THEN source[Address(x, y) - dst + Source(r, row)]
         ELSE buffer[Address(x, y)]
  <2> HIDE DEF source, row, dst
  <2> QED BY <1>5, <1>6, <1>9 DEF Copied
<1>11. y = r.y + row =>
         Address(x, y) - dst + Source(r, row) = Source(r, row) + (x - r.x)
  <2> HIDE DEF source, row, dst
  <2> QED BY <1>2, <1>4, <1>7, <1>8
<1> HIDE DEF source, row, dst
<1>12. buffer'[Address(x, y)] =
         IF y = r.y + row /\ r.x <= x /\ x < r.x + r.w
         THEN source[Source(r, row) + (x - r.x)]
         ELSE buffer[Address(x, y)]
  BY <1>10, <1>11
<1> QED BY <1>12 DEF source, row

\* What stands in the source is the new pixel: the row that is read now has
\* not been painted over.
LEMMA SourceIsOld ==
  ASSUME TypeOK, HalfPainted, PaintRow, NEW x \in Nat,
         rect.shape.x <= x, x < rect.shape.x + rect.shape.w
  PROVE  LET r == rect.shape
             row == RowAfter(r, done)
             source == IF r.encoding = "raw" THEN rect.data ELSE buffer
         IN  source[Source(r, row) + (x - r.x)] = NewPixel(r, rect.data, x, r.y + row)
<1> DEFINE r == rect.shape
<1> DEFINE row == RowAfter(r, done)
<1>1. /\ r \in Raw \cup CopyRect /\ width \in Nat /\ height \in Nat /\ done \in Nat
      /\ rect # None /\ done < r.h
  BY DEF TypeOK, PaintRow
<1>2. r.w \in Nat /\ r.h \in Nat /\ r.x \in Nat /\ r.y \in Nat /\ r.encoding \in {"raw", "copy"}
  BY <1>1, Shapes
<1>3. row \in 0..(r.h - 1)
  BY <1>1, RowBounds
<1>4. CASE r.encoding = "raw"
  <2>1. (r.y + row) - r.y = row
    BY <1>2, <1>3
  <2> HIDE DEF row
  <2>2. rect.data[Source(r, row) + (x - r.x)] = NewPixel(r, rect.data, x, r.y + row)
    BY <1>4, <2>1 DEF Source, NewPixel
  <2> QED BY <1>4, <2>2 DEF row
<1>5. CASE r.encoding = "copy"
  <2> DEFINE sx == x - r.x + r.srcX
  <2> DEFINE sy == r.srcY + row
  <2>1. /\ r.srcX \in Nat /\ r.srcY \in Nat
        /\ r.srcX + r.w <= width /\ r.srcY + r.h <= height
    BY <1>1, <1>5, Shapes DEF TypeOK, InBounds
  <2>2. sx \in 0..(width - 1) /\ sy \in 0..(height - 1)
    BY <1>1, <1>2, <1>3, <2>1
  <2>3. Source(r, row) + (x - r.x) = Address(sx, sy)
    <3>1. sy * width \in Nat
      BY <1>1, <1>3, <2>1
    <3> HIDE DEF row
    <3> QED BY <1>2, <1>5, <2>1, <3>1 DEF Source, Address
  <2>4. NewPixel(r, rect.data, x, r.y + row) = before[Address(sx, sy)]
    <3>1. (r.y + row) - r.y + r.srcY = sy
      BY <1>2, <1>3, <2>1
    <3> HIDE DEF row
    <3> QED BY <1>5, <3>1 DEF NewPixel
  <2>5. ~(Inside(r, <<sx, sy>>) /\ RowPainted(r, done, sy - r.y))
    BY <1>1, <1>2, <1>5, <2>1 DEF Inside, RowPainted, RowAfter, BottomUp
  <2>6. buffer[Address(sx, sy)] = before[Address(sx, sy)]
    <3> HIDE DEF sx, sy
    <3> QED BY <1>1, <2>2, <2>5 DEF HalfPainted
  <2> HIDE DEF sx, sy, row
  <2>7. buffer[Source(r, row) + (x - r.x)] = NewPixel(r, rect.data, x, r.y + row)
    BY <2>3, <2>4, <2>6
  <2> QED BY <1>5, <2>7 DEF row
<1> QED BY <1>2, <1>4, <1>5

LEMMA PaintRowIInv ==
  ASSUME IInv, PaintRow
  PROVE  IInv'
<1> DEFINE r == rect.shape
<1> DEFINE row == RowAfter(r, done)
<1> USE DEF IInv
<1>1. TypeOK'
  BY PaintRowTypeOK
<1>2. AtRest'
  BY DEF AtRest, PaintRow
<1>3. HalfPainted'
  <2> SUFFICES ASSUME NEW x \in 0..(width - 1), NEW y \in 0..(height - 1)
               PROVE  buffer'[Address(x, y)] =
                        IF Inside(r, <<x, y>>) /\ RowPainted(r, done + 1, y - r.y)
                        THEN NewPixel(r, rect.data, x, y)
                        ELSE before[Address(x, y)]
    BY DEF HalfPainted, PaintRow, NewPixel, Address, RowPainted, BottomUp, Inside
  <2>1. /\ r \in Raw \cup CopyRect /\ width \in Nat /\ height \in Nat /\ done \in Nat
        /\ rect # None /\ done < r.h
    BY DEF TypeOK, PaintRow
  <2>2. r.w \in Nat /\ r.h \in Nat /\ r.x \in Nat /\ r.y \in Nat
    BY <2>1, Shapes
  <2>3. x \in Nat /\ y \in Nat
    OBVIOUS
  <2>4. Inside(r, <<x, y>>) => y - r.y \in 0..(r.h - 1)
    BY <2>2, <2>3 DEF Inside
  <2>5. y - r.y \in Int
    BY <2>2, <2>3
  <2>6. row \in 0..(r.h - 1) /\ ~RowPainted(r, done, row)
        /\ (Inside(r, <<x, y>>) =>
              (RowPainted(r, done + 1, y - r.y) <=> (RowPainted(r, done, y - r.y) \/ y - r.y = row)))
    BY <2>1, <2>4, <2>5, RowBounds
  <2>7. CASE y = r.y + row /\ r.x <= x /\ x < r.x + r.w
    <3>1. buffer'[Address(x, y)] = NewPixel(r, rect.data, x, r.y + row)
      BY <2>3, <2>7, RowPixels, SourceIsOld
    <3>2. Inside(r, <<x, y>>) /\ y - r.y = row
      BY <2>2, <2>3, <2>6, <2>7 DEF Inside
    <3> HIDE DEF row
    <3> QED BY <2>6, <2>7, <3>1, <3>2
  <2>8. CASE ~(y = r.y + row /\ r.x <= x /\ x < r.x + r.w)
    <3>1. buffer'[Address(x, y)] = buffer[Address(x, y)]
      BY <2>8, RowPixels
    <3>2. Inside(r, <<x, y>>) => y - r.y # row
      BY <2>2, <2>3, <2>6, <2>8 DEF Inside
    <3>3. buffer[Address(x, y)] =
            IF Inside(r, <<x, y>>) /\ RowPainted(r, done, y - r.y)
            THEN NewPixel(r, rect.data, x, y) ELSE before[Address(x, y)]
      BY <2>1 DEF HalfPainted
    <3> HIDE DEF row
    <3> QED BY <2>6, <3>1, <3>2, <3>3
  <2> QED BY <2>7, <2>8
<1> QED BY <1>1, <1>2, <1>3

-----------------------------------------------------------------------------
(* The theorems.                                                           *)

LEMMA NextIInv == IInv /\ [Next]_vars => IInv'
<1> SUFFICES ASSUME IInv, [Next]_vars PROVE IInv'
  OBVIOUS
<1>1. CASE \E r \in Raw \cup CopyRect : Receive(r)
  BY <1>1, ReceiveIInv
<1>2. CASE PaintRow
  BY <1>2, PaintRowIInv
<1>3. CASE Applied
  BY <1>3, AppliedIInv
<1>4. CASE \E s \in Sizes : Resize(s)
  BY <1>4, ResizeIInv
<1>5. CASE UNCHANGED vars
  BY <1>5 DEF vars, IInv, TypeOK, HalfPainted, AtRest, NewPixel, Address,
     InBounds, BottomUp, RowPainted, Inside
<1> QED BY <1>1, <1>2, <1>3, <1>4, <1>5 DEF Next

THEOREM Invariance == Spec => []IInv
<1> QED BY InitIInv, NextIInv, PTL DEF Spec

\* Every reachable framebuffer is as long as its mode says, and what is being
\* painted on it fits (checkBounds, checkScreenSize).
THEOREM TypeCorrect == Spec => []TypeOK
<1>1. IInv => TypeOK
  BY DEF IInv
<1> QED BY <1>1, Invariance, PTL

\* A finished rectangle has made of the screen what it says.
LEMMA FinishedIsWhole ==
  ASSUME IInv, rect # None, done = rect.shape.h
  PROVE  Picture(buffer) = Repainted(rect.shape, rect.data, Picture(before))
<1> DEFINE r == rect.shape
<1> DEFINE old == Picture(before)
<1>1. r \in Raw \cup CopyRect /\ width \in Nat /\ height \in Nat
  BY DEF IInv, TypeOK
<1>2. /\ r.w \in Nat /\ r.h \in Nat /\ r.x \in Nat /\ r.y \in Nat
      /\ r.encoding \in {"raw", "copy"}
  BY <1>1, Shapes
<1> DEFINE new == Repainted(r, rect.data, old)
<1> SUFFICES ASSUME NEW x \in 0..(width - 1), NEW y \in 0..(height - 1)
             PROVE  buffer[Address(x, y)] = new[<<x, y>>]
  <2>1. DOMAIN old = (0..(width - 1)) \X (0..(height - 1))
    BY DEF Picture
  <2>2. new = [p \in (0..(width - 1)) \X (0..(height - 1)) |-> new[p]]
    BY <2>1 DEF Repainted
  <2> HIDE DEF new
  <2>3. \A p \in (0..(width - 1)) \X (0..(height - 1)) : buffer[Address(p[1], p[2])] = new[p]
    OBVIOUS
  <2>4. Picture(buffer) = new
    BY <2>2, <2>3 DEF Picture
  <2> QED BY <2>4 DEF new
<1>3. x \in Nat /\ y \in Nat
  BY <1>1
<1>4. Repainted(r, rect.data, old)[<<x, y>>] =
        IF ~Inside(r, <<x, y>>) THEN before[Address(x, y)]
        ELSE IF r.encoding = "raw" THEN rect.data[(y - r.y) * r.w + (x - r.x)]
        ELSE old[<<x - r.x + r.srcX, y - r.y + r.srcY>>]
  BY DEF Repainted, Picture
<1>5. Inside(r, <<x, y>>) => RowPainted(r, done, y - r.y)
  BY <1>1, <1>2, <1>3 DEF Inside, RowPainted
<1>6. buffer[Address(x, y)] =
        IF Inside(r, <<x, y>>) THEN NewPixel(r, rect.data, x, y) ELSE before[Address(x, y)]
  BY <1>5 DEF IInv, HalfPainted
<1>7. CASE ~Inside(r, <<x, y>>)
  BY <1>4, <1>6, <1>7
<1>8. CASE Inside(r, <<x, y>>) /\ r.encoding = "raw"
  BY <1>4, <1>6, <1>8 DEF NewPixel
<1>9. CASE Inside(r, <<x, y>>) /\ r.encoding = "copy"
  <2> DEFINE sx == x - r.x + r.srcX
  <2> DEFINE sy == y - r.y + r.srcY
  <2>1. /\ r.srcX \in Nat /\ r.srcY \in Nat
        /\ r.srcX + r.w <= width /\ r.srcY + r.h <= height
    BY <1>1, <1>9, Shapes DEF IInv, TypeOK, InBounds
  <2>2. sx \in 0..(width - 1) /\ sy \in 0..(height - 1)
    BY <1>1, <1>2, <1>3, <1>9, <2>1 DEF Inside
  <2>3. old[<<sx, sy>>] = before[Address(sx, sy)]
    <3> HIDE DEF sx, sy
    <3> QED BY <2>2 DEF Picture
  <2>4. NewPixel(r, rect.data, x, y) = before[Address(sx, sy)]
    BY <1>9 DEF NewPixel
  <2> QED BY <1>4, <1>6, <1>9, <2>3, <2>4
<1> QED BY <1>2, <1>7, <1>8, <1>9

\* Painting by rows is painting at once, whatever the mode, the rectangle and
\* the overlap of a copy with its source (applyRaw, applyCopyRect).
THEOREM PaintedWhole == Spec => []RectanglesAreWhole
<1>1. IInv => RectanglesAreWhole
  BY FinishedIsWhole DEF IInv, AtRest, RectanglesAreWhole
<1> QED BY <1>1, Invariance, PTL

\* The pixels of Display are those of a picture.
LEMMA PicturePixels ==
  TypeOK =>
    /\ <<width, height>> \in Nat \X Nat
    /\ D!Pixels(<<width, height>>) = (0..(width - 1)) \X (0..(height - 1))
    /\ Picture(before) \in [D!Pixels(<<width, height>>) -> Colors]
<1> SUFFICES ASSUME TypeOK
             PROVE  /\ <<width, height>> \in Nat \X Nat
                    /\ D!Pixels(<<width, height>>) = (0..(width - 1)) \X (0..(height - 1))
                    /\ Picture(before) \in [D!Pixels(<<width, height>>) -> Colors]
  OBVIOUS
<1>1. width \in Nat /\ height \in Nat /\ before \in [Addresses(width, height) -> Colors]
  BY DEF TypeOK
<1>2. \A x \in 0..(width - 1), y \in 0..(height - 1) : Address(x, y) \in Addresses(width, height)
  BY <1>1, AddressInRange DEF Address, Addresses
<1> QED BY <1>1, <1>2 DEF Picture, D!Pixels

LEMMA PictureOfBlank ==
  TypeOK /\ before = Blank(width, height) => Picture(before) = D!Blank(<<width, height>>)
<1> SUFFICES ASSUME TypeOK, before = Blank(width, height)
             PROVE  Picture(before) = D!Blank(<<width, height>>)
  OBVIOUS
<1>1. width \in Nat /\ height \in Nat
  BY DEF TypeOK
<1>2. \A x \in 0..(width - 1), y \in 0..(height - 1) : Address(x, y) \in Addresses(width, height)
  BY <1>1, AddressInRange DEF Address, Addresses
<1> QED BY <1>1, <1>2 DEF Picture, Blank, D!Blank, D!Pixels

\* A rectangle that is done is one step of Display.
LEMMA AppliedIsDisplayStep ==
  ASSUME IInv, IInv', Applied
  PROVE  D!Next
<1> DEFINE r == rect.shape
<1> DEFINE old == Picture(before)
<1> DEFINE new == Repainted(r, rect.data, old)
<1>1. /\ r \in Raw \cup CopyRect /\ width \in Nat /\ height \in Nat
      /\ r.x + r.w <= width /\ r.y + r.h <= height
  BY DEF IInv, TypeOK, Applied, InBounds
<1>2. /\ r.w \in Nat /\ r.h \in Nat /\ r.x \in Nat /\ r.y \in Nat
      /\ r.encoding \in {"raw", "copy"}
  BY <1>1, Shapes
<1>3. Picture(before)' = new
  <2>1. Picture(before)' = Picture(buffer)
    BY DEF Applied, Picture, Address
  <2>2. Picture(buffer) = new
    BY FinishedIsWhole DEF Applied
  <2> QED BY <2>1, <2>2
<1>4. UNCHANGED <<width, height>>
  BY DEF Applied
<1>5. DOMAIN old = D!Pixels(<<width, height>>)
  BY PicturePixels DEF IInv
<1>6. \A p \in D!Pixels(<<width, height>>) : Inside(r, p) <=> p \in D!Area(r.x, r.y, r.w, r.h)
  BY <1>1, <1>2 DEF Inside, D!Area, D!Pixels
<1>7. CASE r.encoding = "raw"
  <2>1. Picture(before)' \in [D!Pixels(<<width, height>>) -> Colors]
    <3>1. TypeOK'
      BY DEF IInv
    <3>2. (Picture(before) \in [D!Pixels(<<width, height>>) -> Colors])'
      BY <3>1, PicturePixels, PTL
    <3> QED BY <1>4, <3>2 DEF D!Pixels
  <2>2. \A p \in D!Pixels(<<width, height>>) \ D!Area(r.x, r.y, r.w, r.h) : new[p] = old[p]
    BY <1>5, <1>6 DEF Repainted
  <2>3. D!Fits(<<width, height>>, r.x, r.y, r.w, r.h)
    BY <1>1 DEF D!Fits
  <2>4. D!Paint(r.x, r.y, r.w, r.h)
    BY <1>3, <1>4, <2>1, <2>2, <2>3 DEF D!Paint, old
  <2> QED BY <1>2, <2>4 DEF D!Next
<1>8. CASE r.encoding = "copy"
  <2>1. /\ r.srcX \in Nat /\ r.srcY \in Nat
        /\ r.srcX + r.w <= width /\ r.srcY + r.h <= height
    BY <1>1, <1>8, Shapes DEF IInv, TypeOK, InBounds, Applied
  <2>2. D!Fits(<<width, height>>, r.x, r.y, r.w, r.h)
        /\ D!Fits(<<width, height>>, r.srcX, r.srcY, r.w, r.h)
    BY <1>1, <2>1 DEF D!Fits
  <2>3. new = [p \in D!Pixels(<<width, height>>) |->
                 IF p \in D!Area(r.x, r.y, r.w, r.h)
                 THEN old[<<p[1] - r.x + r.srcX, p[2] - r.y + r.srcY>>]
                 ELSE old[p]]
    BY <1>5, <1>6, <1>8 DEF Repainted
  <2>4. D!Copy(r.x, r.y, r.w, r.h, r.srcX, r.srcY)
    BY <1>3, <1>4, <2>2, <2>3 DEF D!Copy, old
  <2> QED BY <1>2, <2>1, <2>4 DEF D!Next
<1> QED BY <1>2, <1>7, <1>8

\* The framebuffer implements the screen Display states: each rectangle is one
\* change of the picture, and a new mode a blank one.
THEOREM Refinement == Spec => D!Spec
<1>1. Init => D!Init
  <2> SUFFICES ASSUME Init PROVE D!Init
    OBVIOUS
  <2>1. TypeOK
    BY InitIInv DEF IInv
  <2>2. before = Blank(width, height)
    BY DEF Init
  <2> QED BY <2>1, <2>2, PicturePixels, PictureOfBlank DEF D!Init
<1>2. IInv /\ IInv' /\ [Next]_vars => [D!Next]_(D!vars)
  <2> SUFFICES ASSUME IInv, IInv', [Next]_vars PROVE D!Next \/ UNCHANGED D!vars
    OBVIOUS
  <2>1. CASE \E r \in Raw \cup CopyRect : Receive(r)
    BY <2>1 DEF Receive, Ready, IInv, AtRest, Picture, Address, D!vars
  <2>2. CASE PaintRow
    BY <2>2 DEF PaintRow, Picture, Address, D!vars
  <2>3. CASE Applied
    BY <2>3, AppliedIsDisplayStep
  <2>4. CASE \E s \in Sizes : Resize(s)
    <3>1. PICK s \in Sizes : Resize(s)
      BY <2>4
    <3>2. CASE Affordable(s)
      <4>1. (before = Blank(width, height))'
        BY <3>1, <3>2 DEF Resize, Blank
      <4>2. TypeOK'
        BY DEF IInv
      <4>3. <<width', height'>> \in Nat \X Nat
        BY <4>2 DEF TypeOK
      <4>4. (Picture(before) = D!Blank(<<width, height>>))'
        BY <4>1, <4>2, PictureOfBlank, PTL
      <4> QED BY <4>3, <4>4 DEF D!Next, D!Resize
    <3>3. CASE ~Affordable(s)
      BY <3>1, <3>3 DEF Resize, Ready, IInv, AtRest, Picture, Address, D!vars
    <3> QED BY <3>2, <3>3
  <2>5. CASE UNCHANGED vars
    BY <2>5 DEF vars, Picture, Address, D!vars
  <2> QED BY <2>1, <2>2, <2>3, <2>4, <2>5 DEF Next
<1> QED BY <1>1, <1>2, Invariance, PTL DEF Spec, D!Spec
=============================================================================
