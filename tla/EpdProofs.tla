----------------------------- MODULE EpdProofs -----------------------------
(***************************************************************************)
(* What is proved of the e-paper driver, for any display up to 256 rows,   *)
(* any font, texts and shapes: types, clipping, the decoder, the search    *)
(* for a glyph, the layout of a page of text, and that a picture that was  *)
(* presented is shown whole.                                               *)
(***************************************************************************)
EXTENDS EpdLayout, FiniteSetTheorems, SequenceTheorems, TLAPS

----------------------------------------------------------------------------
(* The index of a pixel *)

At(x, y) == y * EPD_WIDTH + x

(* The index of a pixel is in the frame buffer. *)
LEMMA IndexInRange ==
  ASSUME NEW x \in 0..(EPD_WIDTH - 1), NEW y \in 0..(EPD_HEIGHT - 1)
  PROVE  At(x, y) \in 0..(EPD_WIDTH * EPD_HEIGHT - 1)
<1>1. EPD_WIDTH \in Nat /\ EPD_HEIGHT \in Nat
  BY DisplayAssumption
<1>2. y * EPD_WIDTH \in Nat /\ EPD_WIDTH * EPD_HEIGHT \in Nat
  BY <1>1
<1>3. (y + 1) * EPD_WIDTH <= EPD_HEIGHT * EPD_WIDTH
  BY <1>1
<1>4. (y + 1) * EPD_WIDTH = y * EPD_WIDTH + EPD_WIDTH /\ EPD_HEIGHT * EPD_WIDTH = EPD_WIDTH * EPD_HEIGHT
  BY <1>1
<1>5. QED BY <1>1, <1>2, <1>3, <1>4 DEF At

(* Two pixels of the screen have two indexes. *)
LEMMA IndexIsInjective ==
  ASSUME NEW x1 \in 0..(EPD_WIDTH - 1), NEW y1 \in 0..(EPD_HEIGHT - 1),
         NEW x2 \in 0..(EPD_WIDTH - 1), NEW y2 \in 0..(EPD_HEIGHT - 1),
         At(x1, y1) = At(x2, y2)
  PROVE  x1 = x2 /\ y1 = y2
<1>1. EPD_WIDTH \in Nat /\ EPD_HEIGHT \in Nat
  BY DisplayAssumption
<1>2. ASSUME NEW a \in 0..(EPD_HEIGHT - 1), NEW b \in 0..(EPD_HEIGHT - 1), a < b
      PROVE  a * EPD_WIDTH + EPD_WIDTH <= b * EPD_WIDTH
  <2>1. PICK d \in Nat : b = a + 1 + d
    <3>1. b - a - 1 \in Nat /\ b = a + 1 + (b - a - 1) BY <1>1, <1>2
    <3>2. QED BY <3>1
  <2>2. b * EPD_WIDTH = a * EPD_WIDTH + EPD_WIDTH + d * EPD_WIDTH /\ d * EPD_WIDTH \in Nat
    BY <1>1, <2>1
  <2>3. a * EPD_WIDTH \in Nat /\ b * EPD_WIDTH \in Nat BY <1>1
  <2>4. QED BY <1>1, <2>2, <2>3
<1>3. y1 * EPD_WIDTH \in Nat /\ y2 * EPD_WIDTH \in Nat BY <1>1
<1>4. ~(y1 < y2) BY <1>1, <1>2, <1>3 DEF At
<1>5. ~(y2 < y1) BY <1>1, <1>2, <1>3 DEF At
<1>6. y1 = y2 BY <1>1, <1>4, <1>5
<1>7. QED BY <1>1, <1>3, <1>6 DEF At

(* Painting points stays in the frame buffer. *)
LEMMA SetPixelsInRange ==
  ASSUME NEW f, f \subseteq 0..(EPD_WIDTH * EPD_HEIGHT - 1),
         NEW points \in SUBSET (Int \X Int), NEW black
  PROVE  SetPixels(f, points, black) \subseteq 0..(EPD_WIDTH * EPD_HEIGHT - 1)
<1>1. EPD_WIDTH \in Nat /\ EPD_HEIGHT \in Nat
  BY DisplayAssumption
<1>2. ASSUME NEW q \in points, q[1] >= 0, q[1] < EPD_WIDTH, q[2] >= 0, q[2] < EPD_HEIGHT
      PROVE  q[2] * EPD_WIDTH + q[1] \in 0..(EPD_WIDTH * EPD_HEIGHT - 1)
  BY <1>1, <1>2, IndexInRange DEF At
<1>3. QED BY <1>2 DEF SetPixels

(* Painting points changes them and no other pixel of the screen. *)
LEMMA SetPixelsPaints ==
  ASSUME NEW f, NEW points \in SUBSET (Int \X Int), NEW black \in BOOLEAN,
         NEW x \in 0..(EPD_WIDTH - 1), NEW y \in 0..(EPD_HEIGHT - 1)
  PROVE  At(x, y) \in SetPixels(f, points, black)
           <=> IF <<x, y>> \in points THEN black ELSE At(x, y) \in f
<1> DEFINE inside == {q \in points : q[1] >= 0 /\ q[1] < EPD_WIDTH /\ q[2] >= 0 /\ q[2] < EPD_HEIGHT}
           index == {q[2] * EPD_WIDTH + q[1] : q \in inside}
<1>1. EPD_WIDTH \in Nat /\ EPD_HEIGHT \in Nat
  BY DisplayAssumption
<1>2. ASSUME <<x, y>> \in points PROVE At(x, y) \in index
  BY <1>1, <1>2 DEF At
<1>3. ASSUME At(x, y) \in index PROVE <<x, y>> \in points
  <2>1. PICK q \in inside : At(x, y) = q[2] * EPD_WIDTH + q[1] BY <1>3
  <2>2. q[1] \in 0..(EPD_WIDTH - 1) /\ q[2] \in 0..(EPD_HEIGHT - 1) /\ q = <<q[1], q[2]>> BY <1>1
  <2>3. x = q[1] /\ y = q[2] BY <2>1, <2>2, IndexIsInjective DEF At
  <2>4. QED BY <2>2, <2>3
<1>4. SetPixels(f, points, black) = IF black THEN f \cup index ELSE f \ index
  BY DEF SetPixels
<1>5. QED BY <1>2, <1>3, <1>4

----------------------------------------------------------------------------
(* The primitives *)

(* Lines are sets of points. *)
LEMMA LinesArePoints ==
  ASSUME NEW a \in Int, NEW b \in Int, NEW c \in Int
  PROVE  Hline(a, b, c) \in SUBSET (Int \X Int) /\ Vline(a, b, c) \in SUBSET (Int \X Int)
  BY DisplayAssumption DEF Hline, Vline, Smaller, Larger

(* A horizontal line: its ends in either order, bounded by the screen. *)
LEMMA HlineCovers ==
  ASSUME NEW x0 \in Int, NEW x1 \in Int, NEW v \in Int,
         NEW x \in 0..(EPD_WIDTH - 1), NEW y \in 0..(EPD_HEIGHT - 1)
  PROVE  <<x, y>> \in Hline(x0, x1, v) <=> y = v /\ x >= Smaller(x0, x1) /\ x <= Larger(x0, x1)
  BY DisplayAssumption DEF Hline, Smaller, Larger

(* A vertical one. *)
LEMMA VlineCovers ==
  ASSUME NEW v \in Int, NEW y0 \in Int, NEW y1 \in Int,
         NEW x \in 0..(EPD_WIDTH - 1), NEW y \in 0..(EPD_HEIGHT - 1)
  PROVE  <<x, y>> \in Vline(v, y0, y1) <=> x = v /\ y >= Smaller(y0, y1) /\ y <= Larger(y0, y1)
  BY DisplayAssumption DEF Vline, Smaller, Larger

(* A glyph, moved to where it is drawn. *)
LEMMA MovedCovers ==
  ASSUME NEW glyph \in SUBSET (Int \X Int), NEW gx \in Int, NEW gy \in Int
  PROVE  /\ Moved(glyph, gx, gy) \in SUBSET (Int \X Int)
         /\ \A x, y \in Int : <<x, y>> \in Moved(glyph, gx, gy) <=> <<x - gx, y - gy>> \in glyph
<1>1. Moved(glyph, gx, gy) \in SUBSET (Int \X Int)
  BY DEF Moved
<1>2. ASSUME NEW x \in Int, NEW y \in Int, <<x - gx, y - gy>> \in glyph
      PROVE  <<x, y>> \in Moved(glyph, gx, gy)
  <2>1. <<gx + (x - gx), gy + (y - gy)>> \in Moved(glyph, gx, gy) BY <1>2 DEF Moved
  <2>2. gx + (x - gx) = x /\ gy + (y - gy) = y OBVIOUS
  <2>3. QED BY <2>1, <2>2
<1>3. ASSUME NEW x \in Int, NEW y \in Int, <<x, y>> \in Moved(glyph, gx, gy)
      PROVE  <<x - gx, y - gy>> \in glyph
  <2>1. PICK q \in glyph : <<x, y>> = <<gx + q[1], gy + q[2]>> BY <1>3 DEF Moved
  <2>2. q[1] \in Int /\ q[2] \in Int /\ q = <<q[1], q[2]>> OBVIOUS
  <2>3. x - gx = q[1] /\ y - gy = q[2] BY <2>1, <2>2
  <2>4. QED BY <2>2, <2>3
<1>4. QED BY <1>1, <1>2, <1>3

(* The screen a shape is drawn on has one colour. *)
LEMMA FbClearIsPlain ==
  ASSUME NEW black \in BOOLEAN
  PROVE  /\ FbClear(black) \subseteq 0..(EPD_WIDTH * EPD_HEIGHT - 1)
         /\ \A x \in 0..(EPD_WIDTH - 1), y \in 0..(EPD_HEIGHT - 1) : At(x, y) \in FbClear(black) <=> black
  BY IndexInRange DEF FbClear

(* What a drawn shape is, pixel by pixel. *)
IsDrawn(s, f) ==
  /\ f \subseteq 0..(EPD_WIDTH * EPD_HEIGHT - 1)
  /\ \A x \in 0..(EPD_WIDTH - 1), y \in 0..(EPD_HEIGHT - 1) :
       At(x, y) \in f <=> IF Covers(s, x, y) THEN s.black ELSE s.onBlack

(* A shape of one set of points. *)
LEMMA PaintedIsDrawn ==
  ASSUME NEW s, s.black \in BOOLEAN, s.onBlack \in BOOLEAN,
         NEW points \in SUBSET (Int \X Int),
         \A x \in 0..(EPD_WIDTH - 1), y \in 0..(EPD_HEIGHT - 1) : <<x, y>> \in points <=> Covers(s, x, y)
  PROVE  IsDrawn(s, SetPixels(FbClear(s.onBlack), points, s.black))
<1> DEFINE f == FbClear(s.onBlack)
<1>1. SetPixels(f, points, s.black) \subseteq 0..(EPD_WIDTH * EPD_HEIGHT - 1)
  <2>1. f \subseteq 0..(EPD_WIDTH * EPD_HEIGHT - 1) BY FbClearIsPlain
  <2>2. QED BY <2>1, SetPixelsInRange
<1>2. ASSUME NEW x \in 0..(EPD_WIDTH - 1), NEW y \in 0..(EPD_HEIGHT - 1)
      PROVE  At(x, y) \in SetPixels(f, points, s.black) <=> IF Covers(s, x, y) THEN s.black ELSE s.onBlack
  <2>1. At(x, y) \in f <=> s.onBlack BY FbClearIsPlain
  <2>2. At(x, y) \in SetPixels(f, points, s.black)
          <=> IF <<x, y>> \in points THEN s.black ELSE At(x, y) \in f
    BY SetPixelsPaints
  <2> HIDE DEF f
  <2>3. <<x, y>> \in points <=> Covers(s, x, y) OBVIOUS
  <2>4. QED BY <2>1, <2>2, <2>3
<1>3. QED BY <1>1, <1>2 DEF IsDrawn

(* Lines are clipped. *)
LEMMA LineIsDrawn == \A s \in Lines : IsDrawn(s, Drawn(s))
<1> SUFFICES ASSUME NEW s \in Lines PROVE IsDrawn(s, Drawn(s))
  OBVIOUS
<1> DEFINE f == FbClear(s.onBlack)
<1>1. s.black \in BOOLEAN /\ s.onBlack \in BOOLEAN /\ s.x \in Int /\ s.y \in Int
  BY DEF Lines
<1>2. CASE s.kind = "hline"
  <2>1. s.w \in Int BY <1>2 DEF Lines
  <2>2. Drawn(s) = SetPixels(f, Hline(s.x, s.w, s.y), s.black)
    BY <1>2 DEF Drawn, DrawHline
  <2>3. \A x, y : Covers(s, x, y) <=> y = s.y /\ x >= Smaller(s.x, s.w) /\ x <= Larger(s.x, s.w)
    BY <1>2 DEF Covers
  <2>4. QED
    <3>1. Hline(s.x, s.w, s.y) \in SUBSET (Int \X Int) BY <1>1, <2>1, LinesArePoints
    <3>2. ASSUME NEW x \in 0..(EPD_WIDTH - 1), NEW y \in 0..(EPD_HEIGHT - 1)
          PROVE  <<x, y>> \in Hline(s.x, s.w, s.y) <=> Covers(s, x, y)
      <4>1. <<x, y>> \in Hline(s.x, s.w, s.y) <=> y = s.y /\ x >= Smaller(s.x, s.w) /\ x <= Larger(s.x, s.w)
        <5>1. /\ s.x \in Int /\ s.w \in Int /\ s.y \in Int
              /\ x \in 0..(EPD_WIDTH - 1) /\ y \in 0..(EPD_HEIGHT - 1)
          BY <1>1, <2>1
        <5>2. QED BY ONLY <5>1, HlineCovers
      <4>2. QED BY <2>3, <4>1
    <3>3. QED BY <1>1, <2>2, <3>1, <3>2, PaintedIsDrawn
<1>3. CASE s.kind = "vline"
  <2>1. s.h \in Int BY <1>3 DEF Lines
  <2>2. Drawn(s) = SetPixels(f, Vline(s.x, s.y, s.h), s.black)
    BY <1>3 DEF Drawn, DrawVline
  <2>3. \A x, y : Covers(s, x, y) <=> x = s.x /\ y >= Smaller(s.y, s.h) /\ y <= Larger(s.y, s.h)
    BY <1>3 DEF Covers
  <2>4. QED
    <3>1. Vline(s.x, s.y, s.h) \in SUBSET (Int \X Int) BY <1>1, <2>1, LinesArePoints
    <3>2. ASSUME NEW x \in 0..(EPD_WIDTH - 1), NEW y \in 0..(EPD_HEIGHT - 1)
          PROVE  <<x, y>> \in Vline(s.x, s.y, s.h) <=> Covers(s, x, y)
      BY <1>1, <2>1, <2>3, VlineCovers
    <3>3. QED BY <1>1, <2>2, <3>1, <3>2, PaintedIsDrawn
<1>4. QED BY <1>2, <1>3 DEF Lines

(* Frames and filled boxes too, and those without extent draw nothing. *)
LEMMA BoxIsDrawn == \A s \in Boxes : IsDrawn(s, Drawn(s))
<1> SUFFICES ASSUME NEW s \in Boxes PROVE IsDrawn(s, Drawn(s))
  OBVIOUS
<1> DEFINE f == FbClear(s.onBlack)
           Within(x, y) == x >= s.x /\ x < s.x + s.w /\ y >= s.y /\ y < s.y + s.h
           Inner(x, y) == x > s.x /\ x < s.x + s.w - 1 /\ y > s.y /\ y < s.y + s.h - 1
<1>1. /\ s.black \in BOOLEAN /\ s.onBlack \in BOOLEAN
      /\ s.x \in Int /\ s.y \in Int /\ s.w \in Int /\ s.h \in Int
  BY DEF Boxes
<1> HIDE DEF f
<1>2. /\ f \subseteq 0..(EPD_WIDTH * EPD_HEIGHT - 1)
      /\ \A x \in 0..(EPD_WIDTH - 1), y \in 0..(EPD_HEIGHT - 1) : At(x, y) \in f <=> s.onBlack
  BY <1>1, FbClearIsPlain DEF f
<1>3. CASE s.kind = "fill"
  <2>1. \A x, y : Covers(s, x, y) <=> Within(x, y) BY <1>3 DEF Covers
  <2>2. CASE s.w <= 0 \/ s.h <= 0
    <3>1. Drawn(s) = f BY <1>3, <2>2 DEF Drawn, FillRect, f
    <3>2. \A x, y \in Int : ~Within(x, y) BY <1>1, <2>2
    <3>3. QED BY <1>2, <2>1, <3>1, <3>2, DisplayAssumption DEF IsDrawn
  <2>3. CASE s.w > 0 /\ s.h > 0
    <3> DEFINE points == UNION {Hline(s.x, s.x + s.w - 1, yy) : yy \in s.y..(s.y + s.h - 1)}
    <3>1. Drawn(s) = SetPixels(f, points, s.black)
      BY <1>1, <1>3, <2>3 DEF Drawn, FillRect, f
    <3>2. points \in SUBSET (Int \X Int)
      <4>1. \A yy \in s.y..(s.y + s.h - 1) : Hline(s.x, s.x + s.w - 1, yy) \in SUBSET (Int \X Int)
        <5>1. s.x + s.w - 1 \in Int BY <1>1
        <5>2. QED BY <1>1, <5>1, LinesArePoints
      <4>2. QED BY <4>1
    <3>3. ASSUME NEW x \in 0..(EPD_WIDTH - 1), NEW y \in 0..(EPD_HEIGHT - 1)
          PROVE  <<x, y>> \in points <=> Within(x, y)
      <4>1. <<x, y>> \in points
              <=> \E yy \in s.y..(s.y + s.h - 1) : <<x, y>> \in Hline(s.x, s.x + s.w - 1, yy)
        OBVIOUS
      <4>2. ASSUME NEW yy \in s.y..(s.y + s.h - 1)
            PROVE  <<x, y>> \in Hline(s.x, s.x + s.w - 1, yy)
                     <=> y = yy /\ x >= s.x /\ x <= s.x + s.w - 1
        <5>1. yy \in Int /\ s.x + s.w - 1 \in Int BY <1>1
        <5>2. Smaller(s.x, s.x + s.w - 1) = s.x /\ Larger(s.x, s.x + s.w - 1) = s.x + s.w - 1
          BY <1>1, <2>3 DEF Smaller, Larger
        <5>3. QED BY <1>1, <5>1, <5>2, HlineCovers
      <4>3. QED BY <1>1, <4>1, <4>2, DisplayAssumption
    <3> HIDE DEF points, Within
    <3>4. QED BY <1>1, <2>1, <3>1, <3>2, <3>3, PaintedIsDrawn DEF f
  <2>4. QED BY <1>1, <2>2, <2>3
<1>4. CASE s.kind = "rect"
  <2>1. \A x, y : Covers(s, x, y) <=> Within(x, y) /\ ~Inner(x, y) BY <1>4 DEF Covers
  <2>2. CASE s.w <= 0 \/ s.h <= 0
    <3>1. Drawn(s) = f BY <1>4, <2>2 DEF Drawn, DrawRect, f
    <3>2. \A x, y \in Int : ~Within(x, y) BY <1>1, <2>2
    <3>3. QED BY <1>2, <2>1, <3>1, <3>2, DisplayAssumption DEF IsDrawn
  <2>3. CASE s.w > 0 /\ s.h > 0
    <3> DEFINE top == Hline(s.x, s.x + s.w - 1, s.y)
               bottom == Hline(s.x, s.x + s.w - 1, s.y + s.h - 1)
               left == Vline(s.x, s.y, s.y + s.h - 1)
               right == Vline(s.x + s.w - 1, s.y, s.y + s.h - 1)
               f1 == SetPixels(f, top, s.black)
               f2 == SetPixels(f1, bottom, s.black)
               f3 == SetPixels(f2, left, s.black)
               f4 == SetPixels(f3, right, s.black)
    <3>1. Drawn(s) = f4
      BY <1>1, <1>4, <2>3 DEF Drawn, DrawRect, DrawHline, DrawVline, f
    <3>2. /\ top \in SUBSET (Int \X Int) /\ bottom \in SUBSET (Int \X Int)
          /\ left \in SUBSET (Int \X Int) /\ right \in SUBSET (Int \X Int)
      <4>1. s.x + s.w - 1 \in Int /\ s.y + s.h - 1 \in Int BY <1>1
      <4>2. top \in SUBSET (Int \X Int) /\ bottom \in SUBSET (Int \X Int)
        BY <1>1, <4>1, LinesArePoints
      <4>3. left \in SUBSET (Int \X Int) /\ right \in SUBSET (Int \X Int)
        BY <1>1, <4>1, LinesArePoints
      <4>4. QED BY <4>2, <4>3
    <3>3. ASSUME NEW x \in 0..(EPD_WIDTH - 1), NEW y \in 0..(EPD_HEIGHT - 1)
          PROVE  /\ <<x, y>> \in top <=> y = s.y /\ x >= s.x /\ x <= s.x + s.w - 1
                 /\ <<x, y>> \in bottom <=> y = s.y + s.h - 1 /\ x >= s.x /\ x <= s.x + s.w - 1
                 /\ <<x, y>> \in left <=> x = s.x /\ y >= s.y /\ y <= s.y + s.h - 1
                 /\ <<x, y>> \in right <=> x = s.x + s.w - 1 /\ y >= s.y /\ y <= s.y + s.h - 1
      <4>1. s.x + s.w - 1 \in Int /\ s.y + s.h - 1 \in Int BY <1>1
      <4>2. /\ Smaller(s.x, s.x + s.w - 1) = s.x /\ Larger(s.x, s.x + s.w - 1) = s.x + s.w - 1
            /\ Smaller(s.y, s.y + s.h - 1) = s.y /\ Larger(s.y, s.y + s.h - 1) = s.y + s.h - 1
        BY <1>1, <2>3 DEF Smaller, Larger
      <4>3. /\ <<x, y>> \in top <=> y = s.y /\ x >= s.x /\ x <= s.x + s.w - 1
            /\ <<x, y>> \in bottom <=> y = s.y + s.h - 1 /\ x >= s.x /\ x <= s.x + s.w - 1
        <5>1. /\ s.x \in Int /\ s.x + s.w - 1 \in Int /\ s.y \in Int /\ s.y + s.h - 1 \in Int
              /\ x \in 0..(EPD_WIDTH - 1) /\ y \in 0..(EPD_HEIGHT - 1)
          BY <1>1, <4>1
        <5>2. <<x, y>> \in Hline(s.x, s.x + s.w - 1, s.y)
                <=> y = s.y /\ x >= Smaller(s.x, s.x + s.w - 1) /\ x <= Larger(s.x, s.x + s.w - 1)
          BY ONLY <5>1, DisplayAssumption DEF Hline, Smaller, Larger
        <5>3. <<x, y>> \in Hline(s.x, s.x + s.w - 1, s.y + s.h - 1)
                <=> y = s.y + s.h - 1 /\ x >= Smaller(s.x, s.x + s.w - 1)
                      /\ x <= Larger(s.x, s.x + s.w - 1)
          BY ONLY <5>1, DisplayAssumption DEF Hline, Smaller, Larger
        <5>4. QED BY <4>2, <5>2, <5>3
      <4>4. /\ <<x, y>> \in left <=> x = s.x /\ y >= s.y /\ y <= s.y + s.h - 1
            /\ <<x, y>> \in right <=> x = s.x + s.w - 1 /\ y >= s.y /\ y <= s.y + s.h - 1
        BY <1>1, <4>1, <4>2, VlineCovers
      <4>5. QED BY <4>3, <4>4
    <3> HIDE DEF top, bottom, left, right
    <3>4. f1 \subseteq 0..(EPD_WIDTH * EPD_HEIGHT - 1) BY <1>1, <1>2, <3>2, SetPixelsInRange
    <3>5. f2 \subseteq 0..(EPD_WIDTH * EPD_HEIGHT - 1) BY <1>1, <3>2, <3>4, SetPixelsInRange
    <3>6. f3 \subseteq 0..(EPD_WIDTH * EPD_HEIGHT - 1) BY <1>1, <3>2, <3>5, SetPixelsInRange
    <3>7. f4 \subseteq 0..(EPD_WIDTH * EPD_HEIGHT - 1) BY <1>1, <3>2, <3>6, SetPixelsInRange
    <3>8. ASSUME NEW x \in 0..(EPD_WIDTH - 1), NEW y \in 0..(EPD_HEIGHT - 1)
          PROVE  At(x, y) \in f4
                   <=> IF <<x, y>> \in top \cup bottom \cup left \cup right THEN s.black ELSE s.onBlack
      <4>1. At(x, y) \in f1 <=> IF <<x, y>> \in top THEN s.black ELSE s.onBlack
        BY <1>1, <1>2, <3>2, SetPixelsPaints
      <4>2. At(x, y) \in f2 <=> IF <<x, y>> \in bottom THEN s.black ELSE At(x, y) \in f1
        BY <1>1, <3>2, SetPixelsPaints
      <4>3. At(x, y) \in f3 <=> IF <<x, y>> \in left THEN s.black ELSE At(x, y) \in f2
        BY <1>1, <3>2, SetPixelsPaints
      <4>4. At(x, y) \in f4 <=> IF <<x, y>> \in right THEN s.black ELSE At(x, y) \in f3
        BY <1>1, <3>2, SetPixelsPaints
      <4> HIDE DEF f1, f2, f3, f4
      <4>5. QED BY <1>1, <4>1, <4>2, <4>3, <4>4
    <3>9. ASSUME NEW x \in 0..(EPD_WIDTH - 1), NEW y \in 0..(EPD_HEIGHT - 1)
          PROVE  <<x, y>> \in top \cup bottom \cup left \cup right <=> Covers(s, x, y)
      BY <1>1, <2>1, <2>3, <3>3, DisplayAssumption
    <3> HIDE DEF f4
    <3>10. QED BY <3>1, <3>7, <3>8, <3>9 DEF IsDrawn
  <2>4. QED BY <1>1, <2>2, <2>3
<1>5. QED BY <1>3, <1>4 DEF Boxes

(* So is a line of letters, some of which have no glyph. *)
LEMMA ShortTextIsDrawn == \A s \in ShortTexts : IsDrawn(s, Drawn(s))
<1> SUFFICES ASSUME NEW s \in ShortTexts PROVE IsDrawn(s, Drawn(s))
  OBVIOUS
<1> DEFINE f == FbClear(s.onBlack)
           Glyph(i) == Moved(GetFont5x7(s.chars[i]), s.x + (i - 1) * 6, s.y)
           points == UNION {Glyph(i) : i \in DOMAIN s.chars}
<1>1. /\ s.black \in BOOLEAN /\ s.onBlack \in BOOLEAN /\ s.x \in Int /\ s.y \in Int
      /\ s.kind = "text" /\ DOMAIN s.chars \subseteq Nat
  BY DEF ShortTexts
<1>2. Drawn(s) = SetPixels(f, points, s.black)
  BY <1>1 DEF Drawn, DrawText5x7
<1>3. \A c : GetFont5x7(c) \in SUBSET (Int \X Int)
  BY FontAssumption DEF GetFont5x7
<1>4. points \in SUBSET (Int \X Int)
  <2>1. \A i \in DOMAIN s.chars : Glyph(i) \in SUBSET (Int \X Int)
    <3>1. \A i \in DOMAIN s.chars : s.x + (i - 1) * 6 \in Int BY <1>1
    <3>2. QED BY <1>1, <1>3, <3>1, MovedCovers
  <2> HIDE DEF Glyph
  <2>2. QED BY <2>1
<1>5. ASSUME NEW x \in 0..(EPD_WIDTH - 1), NEW y \in 0..(EPD_HEIGHT - 1)
      PROVE  <<x, y>> \in points <=> Covers(s, x, y)
  <2>1. <<x, y>> \in points <=> \E i \in DOMAIN s.chars : <<x, y>> \in Glyph(i)
    OBVIOUS
  <2>2. ASSUME NEW i \in DOMAIN s.chars
        PROVE  <<x, y>> \in Glyph(i)
                 <=> /\ s.chars[i] \in DOMAIN Font5x7
                     /\ <<x - (s.x + (i - 1) * 6), y - s.y>> \in Font5x7[s.chars[i]]
    <3>1. x \in Int /\ y \in Int /\ s.x + (i - 1) * 6 \in Int BY <1>1, DisplayAssumption
    <3>2. <<x, y>> \in Glyph(i) <=> <<x - (s.x + (i - 1) * 6), y - s.y>> \in GetFont5x7(s.chars[i])
      BY <1>1, <1>3, <3>1, MovedCovers
    <3>3. QED BY <3>2 DEF GetFont5x7
  <2>3. Covers(s, x, y)
          <=> \E i \in DOMAIN s.chars :
                /\ s.chars[i] \in DOMAIN Font5x7
                /\ <<x - (s.x + (i - 1) * 6), y - s.y>> \in Font5x7[s.chars[i]]
    BY <1>1 DEF Covers
  <2> HIDE DEF Glyph, points
  <2>4. QED BY <2>1, <2>2, <2>3
<1> HIDE DEF points
<1>6. QED
  BY <1>1, <1>2, <1>4, <1>5, PaintedIsDrawn

(* Every shape is drawn as far as it is on the screen, and nothing else. *)
LEMMA ShapeIsDrawn == \A s \in Shapes : IsDrawn(s, Drawn(s))
  BY LineIsDrawn, BoxIsDrawn, ShortTextIsDrawn, ShapesAssumption

----------------------------------------------------------------------------
(* The binary search *)

(* Induction, as far as it can be had here: a set of numbers has a least one. *)
LEMMA LeastNumber ==
  ASSUME NEW S \in SUBSET Nat, S # {}
  PROVE  \E m \in S : \A k \in S : m <= k
<1> DEFINE R == StrictSubsetOrdering(Nat)
           T == {0..m : m \in S}
<1>1. IsWellFoundedOn(R, FiniteSubsetsOf(Nat)) BY FS_StrictSubsetOrderingWellFounded
<1>2. T \subseteq FiniteSubsetsOf(Nat) /\ T # {}
  <2>1. \A m \in Nat : IsFiniteSet(0..m) BY FS_Interval
  <2>2. \A m \in Nat : 0..m \subseteq Nat OBVIOUS
  <2> QED BY <2>1, <2>2 DEF FiniteSubsetsOf
<1> HIDE DEF T
<1>3. PICK x \in T : \A y \in T : ~ (<<y, x>> \in R)
  <2> HIDE DEF R
  <2> QED BY <1>1, <1>2, WFMin
<1>4. PICK m \in S : x = 0..m BY <1>3 DEF T
<1>5. ASSUME NEW k \in S, k < m PROVE FALSE
  <2>1. 0..k \in T BY DEF T
  <2>2. 0..k \subseteq 0..m /\ 0..k # 0..m
    <3>1. m \in 0..m /\ m \notin 0..k BY <1>5
    <3> QED BY <3>1, <1>5
  <2>3. <<0..k, x>> \in R BY <2>2, <1>4 DEF R, StrictSubsetOrdering
  <2> QED BY <2>1, <2>3, <1>3
<1> QED BY <1>4, <1>5

(* What the search finds between two positions. *)
Found(cp, l, r) ==
  IF \E i \in (l + 1)..r : Zpix[i].codepoint = cp
    THEN CHOOSE i \in (l + 1)..r : Zpix[i].codepoint = cp
    ELSE 0

(* Where the search looks next. *)
Mid(l, r) == l + (r - l) \div 2

(* What one turn of the search makes of it. *)
Halved(cp, l, r) ==
  LET mid == Mid(l, r)
  IN  /\ mid \in 0..Len(Zpix) /\ mid + 1 \in 0..Len(Zpix) /\ mid >= l /\ mid < r
      /\ Found(cp, l, r) =
           IF Zpix[mid + 1].codepoint = cp THEN mid + 1
           ELSE IF Zpix[mid + 1].codepoint < cp THEN Found(cp, mid + 1, r)
           ELSE Found(cp, l, mid)

(* It halves the interval and keeps the glyph in it. *)
LEMMA SearchHalves ==
  ASSUME NEW cp \in Nat, NEW l \in 0..Len(Zpix), NEW r \in 0..Len(Zpix), l < r
  PROVE  Halved(cp, l, r)
<1> DEFINE mid == Mid(l, r)
<1>1. Len(Zpix) \in Nat /\ DOMAIN Zpix = 1..Len(Zpix)
  BY FontAssumption
<1>2. /\ mid \in 0..Len(Zpix) /\ mid + 1 \in 0..Len(Zpix) /\ mid >= l /\ mid < r
  <2>1. (r - l) \div 2 \in Nat /\ (r - l) \div 2 < r - l BY <1>1
  <2>2. QED BY <1>1, <2>1 DEF Mid
<1> HIDE DEF mid
<1>3. \A i \in 1..Len(Zpix) : Zpix[i].codepoint \in Nat
  <2>1. \A i \in 1..Len(Zpix) : Zpix[i] \in [codepoint : Nat, pixels : SUBSET (Int \X Int)]
    BY FontAssumption, ElementOfSeq
  <2>2. QED BY <2>1
<1>4. \A i, j \in 1..Len(Zpix) : i < j => Zpix[i].codepoint < Zpix[j].codepoint
  BY <1>1, FontAssumption DEF Sorted
<1>5. (l + 1)..r \subseteq 1..Len(Zpix)
  BY <1>1
<1>6. CASE Zpix[mid + 1].codepoint = cp
  <2>1. mid + 1 \in (l + 1)..r BY <1>2
  <2>2. \A i \in (l + 1)..r : Zpix[i].codepoint = cp => i = mid + 1
    BY <1>1, <1>2, <1>3, <1>4, <1>5, <1>6
  <2>3. Found(cp, l, r) = mid + 1 BY <1>6, <2>1, <2>2 DEF Found
  <2>4. QED BY <1>2, <1>6, <2>3 DEF mid, Halved
<1>7. CASE Zpix[mid + 1].codepoint < cp
  <2>1. ASSUME NEW i \in (l + 1)..r, Zpix[i].codepoint = cp PROVE i \in (mid + 2)..r
    <3>1. ~(i < mid + 1) /\ i # mid + 1 BY <1>1, <1>2, <1>3, <1>4, <1>5, <1>7, <2>1
    <3>2. QED BY <1>1, <1>2, <3>1
  <2>2. (mid + 2)..r \subseteq (l + 1)..r BY <1>2
  <2>3. {i \in (l + 1)..r : Zpix[i].codepoint = cp} = {i \in (mid + 2)..r : Zpix[i].codepoint = cp}
    BY <2>1, <2>2
  <2>4. Found(cp, l, r) = Found(cp, mid + 1, r)
    <3>1. mid + 1 + 1 = mid + 2 BY <1>2
    <3>2. \A i : i \in (l + 1)..r /\ Zpix[i].codepoint = cp <=> i \in (mid + 2)..r /\ Zpix[i].codepoint = cp
      BY <2>3
    <3>3. (CHOOSE i : i \in (l + 1)..r /\ Zpix[i].codepoint = cp)
            = CHOOSE i : i \in (mid + 2)..r /\ Zpix[i].codepoint = cp
      BY <3>2, Zenon
    <3>4. QED BY <3>1, <3>2, <3>3 DEF Found
  <2>5. Zpix[mid + 1].codepoint # cp BY <1>1, <1>2, <1>3, <1>7
  <2>6. QED BY <1>2, <1>7, <2>4, <2>5 DEF mid, Halved
<1>8. CASE Zpix[mid + 1].codepoint > cp
  <2>1. ASSUME NEW i \in (l + 1)..r, Zpix[i].codepoint = cp PROVE i \in (l + 1)..mid
    <3>1. ~(mid + 1 < i) /\ i # mid + 1 BY <1>1, <1>2, <1>3, <1>4, <1>5, <1>8, <2>1
    <3>2. QED BY <1>1, <1>2, <3>1
  <2>2. (l + 1)..mid \subseteq (l + 1)..r BY <1>2
  <2>3. {i \in (l + 1)..r : Zpix[i].codepoint = cp} = {i \in (l + 1)..mid : Zpix[i].codepoint = cp}
    BY <2>1, <2>2
  <2>4. Found(cp, l, r) = Found(cp, l, mid)
    <3>2. \A i : i \in (l + 1)..r /\ Zpix[i].codepoint = cp <=> i \in (l + 1)..mid /\ Zpix[i].codepoint = cp
      BY <2>3
    <3>3. (CHOOSE i : i \in (l + 1)..r /\ Zpix[i].codepoint = cp)
            = CHOOSE i : i \in (l + 1)..mid /\ Zpix[i].codepoint = cp
      BY <3>2, Zenon
    <3>4. QED BY <3>2, <3>3 DEF Found
  <2>5. ~(Zpix[mid + 1].codepoint = cp) /\ ~(Zpix[mid + 1].codepoint < cp) BY <1>1, <1>2, <1>3, <1>8
  <2>6. QED BY <1>2, <2>4, <2>5 DEF mid, Halved
<1>9. QED BY <1>1, <1>2, <1>3, <1>6, <1>7, <1>8 DEF mid, Halved

(* The binary search ends with the one glyph of a code point, or with none. *)
LEMMA SearchFinds == \A cp \in Nat : FindGlyph(cp) = Found(cp, 0, Len(Zpix))
<1> SUFFICES ASSUME NEW cp \in Nat PROVE FindGlyph(cp) = Found(cp, 0, Len(Zpix))
  OBVIOUS
<1> DEFINE count == Len(Zpix)
           Spans == (0..count) \X (0..count)
           Turn(f, l, r) ==
             IF l >= r THEN 0
             ELSE IF Zpix[Mid(l, r) + 1].codepoint = cp THEN Mid(l, r) + 1
             ELSE IF Zpix[Mid(l, r) + 1].codepoint < cp THEN f[<<Mid(l, r) + 1, r>>]
             ELSE f[<<l, Mid(l, r)>>]
           Solves(f) == f = [span \in Spans |-> Turn(f, span[1], span[2])]
           Search == CHOOSE f : Solves(f)
           Answer == [span \in Spans |-> Found(cp, span[1], span[2])]
<1>1. count \in Nat BY FontAssumption
<1>2. FindGlyph(cp) = Search[<<0, count>>]
  BY DEF FindGlyph, Mid
<1>3. ASSUME NEW l \in 0..count, NEW r \in 0..count, l >= r PROVE Found(cp, l, r) = 0
  BY <1>1, <1>3 DEF Found
<1>4. Solves(Answer)
  <2>1. ASSUME NEW l \in 0..count, NEW r \in 0..count PROVE Turn(Answer, l, r) = Found(cp, l, r)
    <3>1. CASE l >= r BY <1>3, <3>1
    <3>2. CASE l < r
      <4>1. PICK mid : mid = Mid(l, r) OBVIOUS
      <4>2. /\ mid \in 0..count /\ mid + 1 \in 0..count
            /\ Found(cp, l, r) =
                 IF Zpix[mid + 1].codepoint = cp THEN mid + 1
                 ELSE IF Zpix[mid + 1].codepoint < cp THEN Found(cp, mid + 1, r)
                 ELSE Found(cp, l, mid)
        <5>1. Halved(cp, l, r) BY <3>2, SearchHalves
        <5>2. QED BY <4>1, <5>1 DEF Halved
      <4>3. Answer[<<mid + 1, r>>] = Found(cp, mid + 1, r) /\ Answer[<<l, mid>>] = Found(cp, l, mid)
        BY <4>2
      <4>4. ~(l >= r) BY <1>1, <3>2
      <4> HIDE DEF Answer
      <4>5. QED BY <4>1, <4>2, <4>3, <4>4
    <3>3. QED BY <1>1, <3>1, <3>2
  <2> HIDE DEF Turn
  <2>2. Answer = [span \in Spans |-> Turn(Answer, span[1], span[2])]
    <3>1. \A span \in Spans : span[1] \in 0..count /\ span[2] \in 0..count OBVIOUS
    <3>2. \A span \in Spans : Turn(Answer, span[1], span[2]) = Found(cp, span[1], span[2])
      BY <2>1, <3>1
    <3>3. QED BY <3>2
  <2>3. QED BY <2>2
<1>5. Solves(Search)
  <2> HIDE DEF Solves, Answer
  <2>1. QED BY <1>4
<1> HIDE DEF Search, Answer
<1>6. \A l, r \in 0..count : Search[<<l, r>>] = Turn(Search, l, r)
  <2> HIDE DEF Turn
  <2>1. QED BY <1>5
<1>7. ASSUME NEW n \in Nat,
             \A l, r \in 0..count : r - l < n => Search[<<l, r>>] = Found(cp, l, r)
      PROVE  \A l, r \in 0..count : r - l = n => Search[<<l, r>>] = Found(cp, l, r)
  <2> SUFFICES ASSUME NEW l \in 0..count, NEW r \in 0..count, r - l = n
               PROVE  Search[<<l, r>>] = Found(cp, l, r)
    OBVIOUS
  <2>1. Search[<<l, r>>] = Turn(Search, l, r)
    <3> HIDE DEF Turn
    <3>1. QED BY <1>6
  <2>2. CASE l >= r BY <1>3, <2>1, <2>2
  <2>3. CASE l < r
    <3>1. PICK mid : mid = Mid(l, r) OBVIOUS
    <3>2. /\ mid \in 0..count /\ mid + 1 \in 0..count /\ mid >= l /\ mid < r
          /\ Found(cp, l, r) =
               IF Zpix[mid + 1].codepoint = cp THEN mid + 1
               ELSE IF Zpix[mid + 1].codepoint < cp THEN Found(cp, mid + 1, r)
               ELSE Found(cp, l, mid)
      <4>1. Halved(cp, l, r) BY <2>3, SearchHalves
      <4>2. QED BY <3>1, <4>1 DEF Halved
    <3>3. Search[<<mid + 1, r>>] = Found(cp, mid + 1, r) /\ Search[<<l, mid>>] = Found(cp, l, mid)
      <4>1. r - (mid + 1) < n /\ mid - l < n BY <1>1, <3>2
      <4> HIDE DEF Turn, Solves
      <4>2. QED BY <1>7, <3>2, <4>1
    <3>4. ~(l >= r) BY <1>1, <2>3
    <3>5. QED BY <2>1, <3>1, <3>2, <3>3, <3>4
  <2>4. QED BY <1>1, <2>2, <2>3
<1>8. ASSUME NEW l0 \in 0..count, NEW r0 \in 0..count, Search[<<l0, r0>>] # Found(cp, l0, r0)
      PROVE  FALSE
  <2> DEFINE Wrong == {n \in Nat : \E l, r \in 0..count : r - l = n /\ Search[<<l, r>>] # Found(cp, l, r)}
  <2>1. ASSUME NEW l \in 0..count, NEW r \in 0..count, l >= r PROVE Search[<<l, r>>] = Found(cp, l, r)
    BY <1>3, <1>6, <2>1
  <2> HIDE DEF Turn
  <2>2. r0 - l0 \in Nat BY <1>1, <1>8, <2>1
  <2>3. r0 - l0 \in Wrong BY <1>8, <2>2
  <2>4. Wrong \in SUBSET Nat OBVIOUS
  <2> HIDE DEF Wrong
  <2>5. PICK n \in Wrong : \A k \in Wrong : n <= k BY <2>3, <2>4, LeastNumber
  <2>6. ASSUME NEW l \in 0..count, NEW r \in 0..count, r - l < n PROVE Search[<<l, r>>] = Found(cp, l, r)
    <3>1. CASE l >= r BY <2>1, <3>1
    <3>2. CASE l < r
      <4>1. r - l \in Nat BY <1>1, <3>2
      <4>2. r - l \notin Wrong BY <2>4, <2>5, <2>6, <4>1
      <4>3. QED BY <4>1, <4>2 DEF Wrong
    <3>3. QED BY <1>1, <3>1, <3>2
  <2>7. n \in Nat BY <2>4, <2>5
  <2>8. \A l, r \in 0..count : r - l = n => Search[<<l, r>>] = Found(cp, l, r)
    BY <1>7, <2>6, <2>7
  <2>9. QED BY <2>5, <2>8 DEF Wrong
<1>9. 0 \in 0..count /\ count \in 0..count BY <1>1
<1>10. QED BY <1>2, <1>8, <1>9

(* The search finds the glyph of a code point if the table has it, and nothing
   otherwise: for every sorted table and every code point (epd200x200.c:208-240). *)
THEOREM GlyphIsFound ==
  \A cp \in Nat :
    IF \E i \in DOMAIN Zpix : Zpix[i].codepoint = cp
      THEN FindGlyph(cp) \in DOMAIN Zpix /\ Zpix[FindGlyph(cp)].codepoint = cp
      ELSE FindGlyph(cp) = 0
<1> SUFFICES ASSUME NEW cp \in Nat
             PROVE  IF \E i \in DOMAIN Zpix : Zpix[i].codepoint = cp
                      THEN FindGlyph(cp) \in DOMAIN Zpix /\ Zpix[FindGlyph(cp)].codepoint = cp
                      ELSE FindGlyph(cp) = 0
  OBVIOUS
<1>1. FindGlyph(cp) = Found(cp, 0, Len(Zpix)) BY SearchFinds
<1>2. DOMAIN Zpix = (0 + 1)..Len(Zpix) BY FontAssumption, LenProperties
<1>3. QED BY <1>1, <1>2, Zenon DEF Found

----------------------------------------------------------------------------
(* The scripts *)

(* An operation of a script. *)
Op == [op : {"command", "data"}, byte : Nat] \cup [op : {"wait", "reset", "configure"}]

(* The bytes of the picture: whole ones. *)
LEMMA FrameSize ==
  /\ EPD_WIDTH \div 8 \in Nat \ {0} /\ EPD_WIDTH = 8 * (EPD_WIDTH \div 8)
  /\ EPD_FB_SIZE \in Nat /\ EPD_FB_SIZE = (EPD_WIDTH \div 8) * EPD_HEIGHT
<1>1. EPD_WIDTH \in Nat \ {0} /\ EPD_WIDTH % 8 = 0 /\ EPD_HEIGHT \in Nat
  BY DisplayAssumption
<1>2. EPD_WIDTH \div 8 \in Nat \ {0} /\ EPD_WIDTH = 8 * (EPD_WIDTH \div 8)
  BY <1>1
<1>3. PICK w \in Nat : w = EPD_WIDTH \div 8 BY <1>2
<1>4. EPD_WIDTH * EPD_HEIGHT = 8 * (w * EPD_HEIGHT) /\ w * EPD_HEIGHT \in Nat
  BY <1>1, <1>2, <1>3
<1>5. \A n \in Nat : (8 * n) \div 8 = n OBVIOUS
<1>6. QED BY <1>2, <1>3, <1>4, <1>5 DEF EPD_FB_SIZE

(* What a script is put together from is an operation. *)
LEMMA OpsOfScripts ==
  /\ \A c \in Nat : Command(c) \in Op /\ Byte(c) \in Op
  /\ WaitIdle \in Op /\ ResetSequence \in Op /\ ConfigurePins \in Op
  BY DEF Op, Command, Byte, WaitIdle, ResetSequence, ConfigurePins

(* The size of the display fits the bytes it is sent in: the high byte of a row is 0. *)
LEMMA BytesAreNat ==
  /\ Lo(EPD_HEIGHT - 1) = EPD_HEIGHT - 1 /\ Hi(EPD_HEIGHT - 1) = 0 /\ EPD_HEIGHT - 1 \in Nat
  /\ (EPD_WIDTH \div 8) - 1 \in Nat
<1>1. EPD_HEIGHT - 1 \in 0..255 BY DisplayAssumption
<1>2. \A n \in 0..255 : n % 256 = n /\ (n \div 256) % 256 = 0 OBVIOUS
<1>3. QED BY <1>1, <1>2, FrameSize DEF Lo, Hi

(* The parts of the script of a picture, and how long they are. *)
LEMMA ScriptParts ==
  /\ SetRamFullWindow \in Seq(Op) /\ Len(SetRamFullWindow) = 8
  /\ SetRamCursorOrigin \in Seq(Op) /\ Len(SetRamCursorOrigin) = 5
  /\ UpdateDisplay \in Seq(Op) /\ Len(UpdateDisplay) = 4
  /\ <<Command(\h24)>> \in Seq(Op) /\ Len(<<Command(\h24)>>) = 1
  /\ FrameBytes \in Seq(Op) /\ Len(FrameBytes) = EPD_FB_SIZE
  /\ \A i \in 1..EPD_FB_SIZE : FrameBytes[i] = Byte(i - 1)
<1>1. SetRamFullWindow \in Seq(Op) /\ Len(SetRamFullWindow) = 8
  BY OpsOfScripts, BytesAreNat DEF SetRamFullWindow
<1>2. SetRamCursorOrigin \in Seq(Op) /\ Len(SetRamCursorOrigin) = 5
  BY OpsOfScripts DEF SetRamCursorOrigin
<1>3. UpdateDisplay \in Seq(Op) /\ Len(UpdateDisplay) = 4
  BY OpsOfScripts DEF UpdateDisplay
<1>4. <<Command(\h24)>> \in Seq(Op) /\ Len(<<Command(\h24)>>) = 1
  BY OpsOfScripts
<1>5. /\ FrameBytes \in Seq(Op) /\ Len(FrameBytes) = EPD_FB_SIZE
      /\ \A i \in 1..EPD_FB_SIZE : FrameBytes[i] = Byte(i - 1)
  <2>1. \A i \in 1..EPD_FB_SIZE : Byte(i - 1) \in Op BY FrameSize, OpsOfScripts
  <2>2. FrameBytes \in [1..EPD_FB_SIZE -> Op] BY <2>1 DEF FrameBytes
  <2>3. FrameBytes \in Seq(Op) BY <2>2, FrameSize, SeqDef
  <2>4. QED BY <2>2, <2>3, FrameSize, LenProperties DEF FrameBytes
<1>6. QED BY <1>1, <1>2, <1>3, <1>4, <1>5

(* A script of two. *)
Joins(u, s, t) ==
  /\ u \in Seq(Op) /\ Len(u) = Len(s) + Len(t)
  /\ \A i \in 1..Len(s) : u[i] = s[i]
  /\ \A i \in 1..Len(t) : u[Len(s) + i] = t[i]

(* Two scripts, one after the other. *)
LEMMA Joining ==
  ASSUME NEW s \in Seq(Op), NEW t \in Seq(Op)
  PROVE  Joins(s \o t, s, t)
<1>1. Len(s) \in Nat /\ Len(t) \in Nat
  BY LenProperties
<1>2. s \o t \in Seq(Op) /\ Len(s \o t) = Len(s) + Len(t)
  BY ConcatProperties
<1>3. ASSUME NEW i \in 1..Len(s) PROVE (s \o t)[i] = s[i]
  <2>1. i \in 1..(Len(s) + Len(t)) /\ i <= Len(s) BY <1>1
  <2>2. QED BY <2>1, ConcatProperties
<1>4. ASSUME NEW i \in 1..Len(t) PROVE (s \o t)[Len(s) + i] = t[i]
  <2>1. /\ Len(s) + i \in 1..(Len(s) + Len(t)) /\ ~(Len(s) + i <= Len(s))
        /\ Len(s) + i - Len(s) = i
    BY <1>1
  <2>2. QED BY <2>1, ConcatProperties
<1>5. QED BY <1>2, <1>3, <1>4 DEF Joins

(* Where each part is in the script of epd_present_framebuf. *)
LEMMA PresentScript ==
  /\ PresentFramebuf \in Seq(Op) /\ Len(PresentFramebuf) = EPD_FB_SIZE + 18
  /\ \A i \in 1..8 : PresentFramebuf[i] = SetRamFullWindow[i]
  /\ \A i \in 1..5 : PresentFramebuf[8 + i] = SetRamCursorOrigin[i]
  /\ PresentFramebuf[14] = Command(\h24)
  /\ \A i \in 1..EPD_FB_SIZE : PresentFramebuf[14 + i] = Byte(i - 1)
  /\ \A i \in 1..4 : PresentFramebuf[EPD_FB_SIZE + 14 + i] = UpdateDisplay[i]
<1> DEFINE a == SetRamFullWindow \o SetRamCursorOrigin
           b == a \o <<Command(\h24)>>
           c == b \o FrameBytes
           d == c \o UpdateDisplay
<1>0. EPD_FB_SIZE \in Nat BY FrameSize
<1>1. Joins(a, SetRamFullWindow, SetRamCursorOrigin) BY ScriptParts, Joining
<1>2. a \in Seq(Op) BY <1>1 DEF Joins
<1>3. Joins(b, a, <<Command(\h24)>>) BY <1>2, ScriptParts, Joining
<1>4. b \in Seq(Op) BY <1>3 DEF Joins
<1>5. Joins(c, b, FrameBytes) BY <1>4, ScriptParts, Joining
<1>6. c \in Seq(Op) BY <1>5 DEF Joins
<1>7. Joins(d, c, UpdateDisplay) BY <1>6, ScriptParts, Joining
<1>8. PresentFramebuf = d BY DEF PresentFramebuf
<1> HIDE DEF a, b, c, d
<1>9. /\ Len(a) = 13
      /\ \A i \in 1..8 : a[i] = SetRamFullWindow[i]
      /\ \A i \in 1..5 : a[8 + i] = SetRamCursorOrigin[i]
  BY <1>1, ScriptParts DEF Joins
<1>10. Len(b) = 14 /\ (\A i \in 1..13 : b[i] = a[i]) /\ b[14] = Command(\h24)
  <2>1. Len(b) = 14 /\ (\A i \in 1..13 : b[i] = a[i]) BY <1>3, <1>9, ScriptParts DEF Joins
  <2>2. b[13 + 1] = <<Command(\h24)>>[1] BY <1>3, <1>9, ScriptParts DEF Joins
  <2>3. QED BY <2>1, <2>2
<1>11. /\ Len(c) = EPD_FB_SIZE + 14
       /\ \A i \in 1..14 : c[i] = b[i]
       /\ \A i \in 1..EPD_FB_SIZE : c[14 + i] = Byte(i - 1)
  <2>1. Len(FrameBytes) = EPD_FB_SIZE /\ \A i \in 1..EPD_FB_SIZE : FrameBytes[i] = Byte(i - 1)
    BY ScriptParts
  <2>2. Len(c) = 14 + EPD_FB_SIZE BY <1>5, <1>10, <2>1 DEF Joins
  <2>3. \A i \in 1..14 : c[i] = b[i] BY <1>5, <1>10 DEF Joins
  <2>4. \A i \in 1..EPD_FB_SIZE : c[14 + i] = FrameBytes[i] BY <1>5, <1>10, <2>1 DEF Joins
  <2>5. \A i \in 1..EPD_FB_SIZE : c[14 + i] = Byte(i - 1) BY <2>1, <2>4, Zenon
  <2>6. Len(c) = EPD_FB_SIZE + 14 BY <1>0, <2>2
  <2>7. QED BY <2>3, <2>5, <2>6, Zenon
<1>12. /\ d \in Seq(Op) /\ Len(d) = EPD_FB_SIZE + 18
       /\ \A i \in 1..(EPD_FB_SIZE + 14) : d[i] = c[i]
       /\ \A i \in 1..4 : d[EPD_FB_SIZE + 14 + i] = UpdateDisplay[i]
  <2>1. Len(UpdateDisplay) = 4 BY ScriptParts
  <2>2. d \in Seq(Op) /\ Len(d) = EPD_FB_SIZE + 14 + 4 BY <1>7, <1>11, <2>1 DEF Joins
  <2>3. \A i \in 1..(EPD_FB_SIZE + 14) : d[i] = c[i] BY <1>7, <1>11 DEF Joins
  <2>4. \A i \in 1..4 : d[EPD_FB_SIZE + 14 + i] = UpdateDisplay[i] BY <1>7, <1>11, <2>1 DEF Joins
  <2>5. QED BY <1>0, <2>2, <2>3, <2>4
<1>13. /\ \A i \in 1..8 : d[i] = a[i]
       /\ \A i \in 1..5 : d[8 + i] = a[8 + i]
  <2>1. \A i \in 1..13 : i \in 1..14 /\ i \in 1..(EPD_FB_SIZE + 14) BY <1>0
  <2>2. \A i \in 1..13 : d[i] = a[i] BY <1>10, <1>11, <1>12, <2>1
  <2>3. QED BY <2>2
<1>14. d[14] = b[14] BY <1>11, <1>12, <1>0
<1>15. \A i \in 1..EPD_FB_SIZE : d[14 + i] = Byte(i - 1)
  BY <1>11, <1>12, <1>0
<1>16. QED BY <1>8, <1>9, <1>10, <1>12, <1>13, <1>14, <1>15

(* The script of the initialisation consists of operations, too. *)
LEMMA InitScriptIsOps == InitScript \in Seq(Op)
<1> DEFINE first == <<ConfigurePins, ResetSequence, Command(\h12), WaitIdle,
                      Command(\h01), Byte(Lo(EPD_HEIGHT - 1)), Byte(Hi(EPD_HEIGHT - 1)), Byte(0),
                      Command(\h11), Byte(3)>>
           last == <<Command(\h3C), Byte(5), Command(\h18), Byte(\h80)>>
<1>1. first \in Seq(Op) /\ last \in Seq(Op)
  BY OpsOfScripts, BytesAreNat
<1>2. InitScript = ((first \o SetRamFullWindow) \o SetRamCursorOrigin) \o last
  BY DEF InitScript
<1> HIDE DEF first, last
<1>3. first \o SetRamFullWindow \in Seq(Op)
  BY <1>1, ScriptParts, Joining DEF Joins
<1>4. (first \o SetRamFullWindow) \o SetRamCursorOrigin \in Seq(Op)
  BY <1>3, ScriptParts, Joining DEF Joins
<1>5. QED BY <1>1, <1>2, <1>4, Joining DEF Joins

----------------------------------------------------------------------------
(* Types of the driver and the panel *)

Picture8 == [0..(EPD_FB_SIZE - 1) -> Int]
PanelType == [cmd : Nat, regs : [Registers -> Seq(Nat)], cursor : Int \X Int, busy : BOOLEAN,
              ram : Picture8, shown : Picture8]

(* A panel that has been reset keeps what it shows. *)
LEMMA PanelResetType ==
  /\ AllStale \in Picture8 /\ PanelReset \in PanelType
  /\ \A d \in PanelType : [PanelReset EXCEPT !.shown = d.shown] \in PanelType
<1>1. AllStale \in Picture8 BY DEF AllStale, Stale, Picture8
<1>2. PanelReset \in PanelType
  <2>1. [r \in Registers |-> <<>>] \in [Registers -> Seq(Nat)] OBVIOUS
  <2>2. QED BY <1>1, <2>1 DEF PanelReset, PanelType
<1>3. ASSUME NEW d \in PanelType PROVE [PanelReset EXCEPT !.shown = d.shown] \in PanelType
  BY <1>2 DEF PanelType
<1>4. QED BY <1>1, <1>2, <1>3

(* A command or a byte leaves a panel, whatever registers it has. *)
LEMMA PanelCommandType == \A d \in PanelType, b \in Nat : PanelCommand(d, b) \in PanelType
<1> SUFFICES ASSUME NEW d \in PanelType, NEW b \in Nat PROVE PanelCommand(d, b) \in PanelType
  OBVIOUS
<1>1. CASE d.busy BY <1>1 DEF PanelCommand
<1>2. CASE ~d.busy /\ b = \h12
  <2>1. PanelCommand(d, b) = [[PanelReset EXCEPT !.shown = d.shown] EXCEPT !.busy = TRUE]
    BY <1>2 DEF PanelCommand, PanelReset
  <2>2. QED BY <2>1, PanelResetType DEF PanelType
<1>3. CASE ~d.busy /\ b = \h20
  <2>1. d.ram \in Picture8 /\ d.shown \in Picture8 BY DEF PanelType
  <2> DEFINE s == IF Arg(d, \h22, 1) = \hF7 THEN d.ram ELSE d.shown
  <2>2. PanelCommand(d, b) = [d EXCEPT !.cmd = b, !.busy = TRUE, !.shown = s]
    BY <1>3 DEF PanelCommand
  <2>3. s \in Picture8 BY <2>1
  <2> HIDE DEF s
  <2>4. QED BY <2>2, <2>3 DEF PanelType
<1>4. CASE ~d.busy /\ b # \h12 /\ b # \h20
  <2> DEFINE regs == IF b \in Registers THEN [d.regs EXCEPT ![b] = <<>>] ELSE d.regs
  <2>1. PanelCommand(d, b) = [d EXCEPT !.cmd = b, !.regs = regs]
    BY <1>4 DEF PanelCommand
  <2>2. d.regs \in [Registers -> Seq(Nat)] BY DEF PanelType
  <2>3. <<>> \in Seq(Nat) OBVIOUS
  <2>4. regs \in [Registers -> Seq(Nat)]
    BY <2>2, <2>3
  <2> HIDE DEF regs
  <2>5. QED BY <2>1, <2>4 DEF PanelType
<1>5. QED BY <1>1, <1>2, <1>3, <1>4

(* An argument that a register has not been given reads 0. *)
LEMMA ArgType == \A d \in PanelType, r \in Registers, k \in Nat \ {0} : Arg(d, r, k) \in Nat
<1> SUFFICES ASSUME NEW d \in PanelType, NEW r \in Registers, NEW k \in Nat \ {0}
             PROVE  Arg(d, r, k) \in Nat
  OBVIOUS
<1>1. d.regs[r] \in Seq(Nat) BY DEF PanelType
<1>2. Len(d.regs[r]) \in Nat BY <1>1, LenProperties
<1>3. CASE Len(d.regs[r]) >= k
  <2>1. k \in 1..Len(d.regs[r]) BY <1>2, <1>3
  <2>2. QED BY <1>1, <1>3, <2>1, ElementOfSeq DEF Arg
<1>4. QED BY <1>2, <1>3 DEF Arg

(* The same for a byte: an argument, or a byte of the picture. *)
LEMMA PanelDataType == \A d \in PanelType, b \in Nat : PanelData(d, b) \in PanelType
<1> SUFFICES ASSUME NEW d \in PanelType, NEW b \in Nat PROVE PanelData(d, b) \in PanelType
  OBVIOUS
<1>1. CASE d.busy \/ (d.cmd # \h24 /\ d.cmd \notin Registers)
  BY <1>1 DEF PanelData
<1>2. CASE ~d.busy /\ d.cmd = \h24
  <2>1. PanelData(d, b) = PanelStore(d, b) BY <1>2 DEF PanelData
  <2>2. d.cursor \in Int \X Int /\ d.ram \in Picture8 BY DEF PanelType
  <2>3. /\ Arg(d, \h44, 1) \in Nat /\ Arg(d, \h44, 2) \in Nat
        /\ Arg(d, \h45, 1) \in Nat /\ Arg(d, \h45, 3) \in Nat
    BY ArgType DEF Registers
  <2>4. PICK n \in Int \X Int, m \in Picture8 : PanelStore(d, b) = [d EXCEPT !.ram = m, !.cursor = n]
    <3> DEFINE at == d.cursor[2] * (EPD_WIDTH \div 8) + d.cursor[1]
               next == IF d.cursor[1] # Arg(d, \h44, 2) THEN <<d.cursor[1] + 1, d.cursor[2]>>
                       ELSE <<Arg(d, \h44, 1),
                              IF d.cursor[2] # Arg(d, \h45, 3) THEN d.cursor[2] + 1 ELSE Arg(d, \h45, 1)>>
               ram == IF at \in DOMAIN d.ram THEN [d.ram EXCEPT ![at] = b] ELSE d.ram
    <3>1. next \in Int \X Int BY <2>2, <2>3
    <3>2. ram \in Picture8
      <4> HIDE DEF at
      <4>1. b \in Int OBVIOUS
      <4>2. QED BY <2>2, <4>1 DEF Picture8
    <3>3. PanelStore(d, b) = [d EXCEPT !.ram = ram, !.cursor = next] BY DEF PanelStore
    <3> HIDE DEF next, ram
    <3>4. QED BY <3>1, <3>2, <3>3
  <2>5. QED BY <2>1, <2>4 DEF PanelType
<1>3. CASE ~d.busy /\ d.cmd # \h24 /\ d.cmd \in Registers
  <2> DEFINE e == [d EXCEPT !.regs[d.cmd] = Append(@, b)]
             c == IF d.cmd = \h4E THEN <<b, e.cursor[2]>>
                  ELSE IF d.cmd = \h4F /\ Len(e.regs[\h4F]) = 1 THEN <<e.cursor[1], b>>
                  ELSE e.cursor
  <2>1. PanelData(d, b) = [e EXCEPT !.cursor = c] BY <1>3 DEF PanelData
  <2>2. e \in PanelType
    <3>1. d.regs \in [Registers -> Seq(Nat)] BY DEF PanelType
    <3>2. Append(d.regs[d.cmd], b) \in Seq(Nat) BY <1>3, <3>1
    <3>3. [d.regs EXCEPT ![d.cmd] = Append(@, b)] \in [Registers -> Seq(Nat)] BY <1>3, <3>1, <3>2
    <3>4. e = [d EXCEPT !.regs = [d.regs EXCEPT ![d.cmd] = Append(@, b)]] BY DEF PanelType
    <3>5. QED BY <3>3, <3>4 DEF PanelType
  <2> HIDE DEF e
  <2>3. c \in Int \X Int BY <2>2 DEF PanelType
  <2> HIDE DEF c
  <2>4. QED BY <2>1, <2>2, <2>3 DEF PanelType
<1>4. QED BY <1>1, <1>2, <1>3

(* What the bus carries. *)
IoTypes == ops \in Seq(Op) /\ panel \in PanelType /\ sawBusy \in BOOLEAN

(* The operation a script goes on with. *)
LEMMA NextOp ==
  ASSUME IoTypes, ops # <<>>
  PROVE  /\ Head(ops) \in Op /\ Tail(ops) \in Seq(Op)
         /\ Head(ops).op \in {"command", "data"} => Head(ops).byte \in Nat
<1>1. Head(ops) \in Op /\ Tail(ops) \in Seq(Op) BY HeadTailProperties DEF IoTypes
<1>2. QED BY <1>1 DEF Op

(* The bus, the script and the panel keep their types. *)
LEMMA IoTypesKept == IoTypes /\ [Next]_vars => IoTypes'
<1> SUFFICES ASSUME IoTypes, [Next]_vars PROVE IoTypes'
  OBVIOUS
<1>e. <<>> \in Seq(Op) OBVIOUS
<1>f. ASSUME Forget PROVE panel' \in PanelType
  BY <1>f, PanelResetType DEF Forget, IoTypes, PanelType
<1>1. CASE WriteByte
  <2>1. ops # <<>> /\ Head(ops).op \in {"command", "data"} /\ sawBusy' = sawBusy
    BY <1>1 DEF WriteByte, InScript
  <2>2. Head(ops).byte \in Nat /\ Tail(ops) \in Seq(Op) BY <2>1, NextOp
  <2>3. ops' \in Seq(Op) BY <1>1, <1>e, <2>2 DEF WriteByte, Succeeds, Fails
  <2>4. panel' \in {panel, PanelCommand(panel, Head(ops).byte), PanelData(panel, Head(ops).byte)}
    BY <1>1 DEF WriteByte
  <2>5. QED BY <2>1, <2>2, <2>3, <2>4, PanelCommandType, PanelDataType DEF IoTypes
<1>2. CASE PollBusy \/ PollFails \/ WaitTimesOut \/ PinsConfigured
  <2>1. ops # <<>> /\ panel' = panel /\ sawBusy' \in BOOLEAN
    BY <1>2 DEF PollBusy, PollFails, WaitTimesOut, PinsConfigured, InScript, IoTypes
  <2>2. ops' \in {<<>>, ops, Tail(ops)}
    BY <1>2 DEF PollBusy, PollFails, WaitTimesOut, PinsConfigured, Succeeds, Fails
  <2>3. QED BY <1>e, <2>1, <2>2, NextOp DEF IoTypes
<1>3. CASE ResetPanel
  <2>1. ops # <<>> /\ sawBusy' = sawBusy /\ ops' \in {<<>>, Tail(ops)}
        /\ panel' \in {panel, [PanelReset EXCEPT !.shown = panel.shown]}
    BY <1>3 DEF ResetPanel, InScript, Succeeds, Fails
  <2>2. QED BY <1>e, <2>1, NextOp, PanelResetType DEF IoTypes
<1>4. CASE BeginPage
  BY <1>4, <1>f DEF BeginPage, KeepIo, IoTypes
<1>5. CASE DrawNewLine \/ DrawGlyph \/ DrawShape
  BY <1>5 DEF DrawNewLine, DrawGlyph, DrawShape, KeepIo, IoTypes
<1>6. CASE TextEnds \/ ShapeEnds
  <2>1. ops' = PresentFramebuf /\ UNCHANGED <<sawBusy, panel>>
    BY <1>6 DEF TextEnds, ShapeEnds, Present, KeepIo
  <2>2. QED BY <2>1, PresentScript DEF IoTypes
<1>7. CASE ScriptEnds \/ MainLights \/ Breathe \/ \E line, column \in Spacings : SetSpacing(line, column)
  BY <1>7 DEF ScriptEnds, MainLights, Breathe, SetSpacing, KeepDriver, IoTypes
<1>8. CASE AppCalls \/ MainCalls
  <2>1. ASSUME DriverInit PROVE IoTypes'
    BY <2>1, InitScriptIsOps DEF DriverInit, Calls, IoTypes
  <2>2. ASSUME NEW black, Clear(black) PROVE IoTypes'
    BY <2>2, <1>f, PresentScript DEF Clear, Calls, Present, IoTypes
  <2>3. ASSUME NEW s, ShowDemo(s) PROVE IoTypes'
    BY <2>3, <1>f DEF ShowDemo, Calls, IoTypes
  <2>4. ASSUME ShowGrayscale PROVE IoTypes'
    BY <2>4, <1>f, PresentScript DEF ShowGrayscale, Calls, Present, IoTypes
  <2>5. ASSUME NEW t, ShowChineseDemo(t) PROVE IoTypes'
    BY <2>5 DEF ShowChineseDemo, Calls, IoTypes
  <2>6. QED BY <1>8, <2>1, <2>2, <2>3, <2>4, <2>5 DEF AppCalls, MainCalls
<1>9. CASE PanelIdle
  BY <1>9 DEF PanelIdle, IoTypes, PanelType
<1>10. CASE UNCHANGED vars
  BY <1>10 DEF vars, IoTypes
<1>11. QED
  BY <1>1, <1>2, <1>3, <1>4, <1>5, <1>6, <1>7, <1>8, <1>9, <1>10, Zenon DEF Next, Drive

----------------------------------------------------------------------------
(* The decoder *)

(* The leading bits of a byte. *)
LEMMA LeadingBits ==
  ASSUME NEW b \in 1..255
  PROVE  /\ b \div 32 = 6 <=> b \in 192..223
         /\ b \div 16 = 14 <=> b \in 224..239
         /\ b \div 8 = 30 <=> b \in 240..247
         /\ b \div 64 = 2 <=> b \in 128..191
  OBVIOUS

(* What the first byte of a sequence of k bytes is. *)
Leads(b, k) ==
  \/ k = 1 /\ b < 128
  \/ k = 2 /\ b \in 192..223
  \/ k = 3 /\ b \in 224..239
  \/ k = 4 /\ b \in 240..247

(* And what the others are. *)
Follows(b) == b \in 128..191

(* The bytes of a sequence. *)
LEMMA WholeIs ==
  ASSUME NEW t \in Seq(1..255), NEW i \in DOMAIN t, NEW k \in 1..4
  PROVE  Whole(t, i, k) <=>
           /\ i + k - 1 <= Len(t)
           /\ Leads(t[i], k)
           /\ \A j \in (i + 1)..(i + k - 1) : Follows(t[j])
<1>1. Len(t) \in Nat /\ DOMAIN t = 1..Len(t) /\ i \in 1..Len(t) BY LenProperties
<1>2. \A j \in 1..Len(t) : t[j] \in 1..255 BY ElementOfSeq
<1>3. t[i] \in 1..255 BY <1>1, <1>2
<1> DEFINE lead == \/ k = 1 /\ t[i] < 128
                   \/ k = 2 /\ t[i] \div 32 = 6
                   \/ k = 3 /\ t[i] \div 16 = 14
                   \/ k = 4 /\ t[i] \div 8 = 30
           tail == \A j \in (i + 1)..(i + k - 1) : t[j] \div 64 = 2
           bytes == \A j \in (i + 1)..(i + k - 1) : Follows(t[j])
<1>4. lead <=> Leads(t[i], k)
  <2>1. PICK b : b = t[i] OBVIOUS
  <2>2. b \in 1..255 BY <1>3, <2>1
  <2>3. Leads(b, k) <=> \/ k = 1 /\ b < 128
                        \/ k = 2 /\ b \div 32 = 6
                        \/ k = 3 /\ b \div 16 = 14
                        \/ k = 4 /\ b \div 8 = 30
    BY ONLY <2>2, LeadingBits DEF Leads
  <2>4. QED BY ONLY <2>1, <2>3, Zenon
<1>5. ASSUME i + k - 1 <= Len(t), NEW j \in (i + 1)..(i + k - 1)
      PROVE  t[j] \div 64 = 2 <=> Follows(t[j])
  <2>1. j \in 1..Len(t) BY <1>1, <1>5
  <2>2. PICK b : b = t[j] OBVIOUS
  <2>3. b \in 1..255 BY <1>2, <2>1, <2>2
  <2>4. b \div 64 = 2 <=> Follows(b) BY ONLY <2>3, LeadingBits DEF Follows
  <2>5. QED BY ONLY <2>2, <2>4, Zenon
<1>6. ASSUME i + k - 1 <= Len(t) PROVE tail <=> bytes
  BY ONLY <1>5, <1>6, Zenon
<1>7. Whole(t, i, k) <=> i + k - 1 <= Len(t) /\ lead /\ tail
  BY Zenon DEF Whole
<1> HIDE DEF lead, tail
<1>8. Whole(t, i, k) <=> i + k - 1 <= Len(t) /\ Leads(t[i], k) /\ bytes
  <2> HIDE DEF bytes
  <2> QED BY ONLY <1>4, <1>6, <1>7, Zenon
<1>9. QED BY <1>8, Zenon

(* One by one. *)
LEMMA WholeOne ==
  ASSUME NEW t \in Seq(1..255), NEW i \in DOMAIN t
  PROVE  Whole(t, i, 1) <=> t[i] < 128
<1>1. Len(t) \in Nat /\ DOMAIN t = 1..Len(t) /\ i \in 1..Len(t) BY LenProperties
<1>2. i + 1 - 1 <= Len(t) /\ (i + 1)..(i + 1 - 1) = {} /\ 1 \in 1..4 BY <1>1
<1>3. Leads(t[i], 1) <=> t[i] < 128 BY DEF Leads
<1>4. QED BY ONLY <1>2, <1>3, WholeIs, t \in Seq(1..255), i \in DOMAIN t, Zenon

LEMMA WholeTwo ==
  ASSUME NEW t \in Seq(1..255), NEW i \in DOMAIN t
  PROVE  Whole(t, i, 2) <=> i + 1 <= Len(t) /\ Leads(t[i], 2) /\ Follows(t[i + 1])
<1>1. Len(t) \in Nat /\ DOMAIN t = 1..Len(t) /\ i \in 1..Len(t) BY LenProperties
<1>2. (i + 2 - 1 <= Len(t) <=> i + 1 <= Len(t)) /\ (i + 1)..(i + 2 - 1) = {i + 1} /\ 2 \in 1..4 BY <1>1
<1>4. (\A j \in (i + 1)..(i + 2 - 1) : Follows(t[j]))
        <=> Follows(t[i + 1])
  <2>1. (\A j \in {i + 1} : Follows(t[j])) <=> Follows(t[i + 1])
    BY Zenon
  <2>2. QED BY ONLY <1>2, <2>1, Zenon
<1>5. Whole(t, i, 2) <=> /\ i + 2 - 1 <= Len(t) /\ Leads(t[i], 2)
                         /\ \A j \in (i + 1)..(i + 2 - 1) : Follows(t[j])
  BY ONLY <1>2, WholeIs, t \in Seq(1..255), i \in DOMAIN t, Zenon
<1>6. QED BY ONLY <1>2, <1>4, <1>5, Zenon

LEMMA WholeThree ==
  ASSUME NEW t \in Seq(1..255), NEW i \in DOMAIN t
  PROVE  Whole(t, i, 3) <=> /\ i + 2 <= Len(t) /\ Leads(t[i], 3)
                            /\ Follows(t[i + 1]) /\ Follows(t[i + 2])
<1>1. Len(t) \in Nat /\ DOMAIN t = 1..Len(t) /\ i \in 1..Len(t) BY LenProperties
<1>2. (i + 3 - 1 <= Len(t) <=> i + 2 <= Len(t)) /\ (i + 1)..(i + 3 - 1) = {i + 1, i + 2} /\ 3 \in 1..4 BY <1>1
<1>4. (\A j \in (i + 1)..(i + 3 - 1) : Follows(t[j]))
        <=> Follows(t[i + 1]) /\ Follows(t[i + 2])
  <2>1. (\A j \in {i + 1, i + 2} : Follows(t[j])) <=> Follows(t[i + 1]) /\ Follows(t[i + 2])
    BY Zenon
  <2>2. QED BY ONLY <1>2, <2>1, Zenon
<1>5. Whole(t, i, 3) <=> /\ i + 3 - 1 <= Len(t) /\ Leads(t[i], 3)
                         /\ \A j \in (i + 1)..(i + 3 - 1) : Follows(t[j])
  BY ONLY <1>2, WholeIs, t \in Seq(1..255), i \in DOMAIN t, Zenon
<1>6. QED BY ONLY <1>2, <1>4, <1>5, Zenon

LEMMA WholeFour ==
  ASSUME NEW t \in Seq(1..255), NEW i \in DOMAIN t
  PROVE  Whole(t, i, 4) <=> /\ i + 3 <= Len(t) /\ Leads(t[i], 4)
                            /\ Follows(t[i + 1]) /\ Follows(t[i + 2]) /\ Follows(t[i + 3])
<1>1. Len(t) \in Nat /\ DOMAIN t = 1..Len(t) /\ i \in 1..Len(t) BY LenProperties
<1>2. (i + 4 - 1 <= Len(t) <=> i + 3 <= Len(t)) /\ (i + 1)..(i + 4 - 1) = {i + 1, i + 2, i + 3} /\ 4 \in 1..4 BY <1>1
<1>4. (\A j \in (i + 1)..(i + 4 - 1) : Follows(t[j]))
        <=> Follows(t[i + 1]) /\ Follows(t[i + 2]) /\ Follows(t[i + 3])
  <2>1. (\A j \in {i + 1, i + 2, i + 3} : Follows(t[j])) <=> Follows(t[i + 1]) /\ Follows(t[i + 2]) /\ Follows(t[i + 3])
    BY Zenon
  <2>2. QED BY ONLY <1>2, <2>1, Zenon
<1>5. Whole(t, i, 4) <=> /\ i + 4 - 1 <= Len(t) /\ Leads(t[i], 4)
                         /\ \A j \in (i + 1)..(i + 4 - 1) : Follows(t[j])
  BY ONLY <1>2, WholeIs, t \in Seq(1..255), i \in DOMAIN t, Zenon
<1>6. QED BY ONLY <1>2, <1>4, <1>5, Zenon

(* The code points of sequences, from their bytes. *)
Code2(a, b) == (a % 32) * 64 + (b % 64)
Code3(a, b, c) == ((a % 16) * 64 + (b % 64)) * 64 + (c % 64)
Code4(a, b, c, d) == (((a % 8) * 64 + (b % 64)) * 64 + (c % 64)) * 64 + (d % 64)

(* What the decoder makes of the bytes at i. *)
Decodes(t, i, d) ==
  /\ d.cp = CodePoint(t, i)
  /\ \E k \in 1..4 : /\ d.next = i + k /\ i + k <= Len(t) + 1
                     /\ \A m \in 1..4 : Whole(t, i, m) => m = k
                     /\ Whole(t, i, k) \/ k = 1

(* The decoder takes a whole sequence if there is one, or else one byte for a
   question mark, whatever bytes a text has (epd200x200.c:238-281). *)
THEOREM DecoderDecodes ==
  ASSUME NEW t \in Seq(1..255), NEW i \in DOMAIN t
  PROVE  Decodes(t, i, Utf8DecodeOne(t, i)) /\ Utf8DecodeOne(t, i).cp \in Nat
<1> DEFINE B(k) == IF i + k \in DOMAIN t THEN t[i + k] ELSE 0
<1>1. Len(t) \in Nat /\ DOMAIN t = 1..Len(t) /\ i \in 1..Len(t)
  BY LenProperties
<1>2. \A j \in 1..Len(t) : t[j] \in 1..255
  BY ElementOfSeq
<1>3. ASSUME NEW k \in 0..3
      PROVE  /\ B(k) \in 0..255
             /\ Follows(B(k)) <=> i + k <= Len(t) /\ Follows(t[i + k])
             /\ Follows(B(k)) => B(k) = t[i + k]
  <2>1. PICK v : v = B(k) OBVIOUS
  <2>2. ASSUME i + k \in DOMAIN t PROVE i + k <= Len(t) /\ v = t[i + k] /\ v \in 0..255
    <3>1. v = t[i + k] /\ i + k \in 1..Len(t) BY <1>1, <2>1, <2>2
    <3>2. v \in 1..255 BY <1>2, <3>1
    <3>3. i + k <= Len(t) /\ v \in 0..255 BY <1>1, <3>1, <3>2
    <3>4. QED BY <3>1, <3>3
  <2>3. ASSUME i + k \notin DOMAIN t PROVE ~ (i + k <= Len(t)) /\ v \in 0..255 /\ ~Follows(v)
    <3>1. ~ (i + k <= Len(t)) BY <1>1, <2>3
    <3>2. v = 0 BY <2>1, <2>3
    <3>3. v \in 0..255 /\ ~Follows(v) BY <3>2 DEF Follows
    <3>4. QED BY <3>1, <3>3
  <2>4. v \in 0..255 BY ONLY <2>2, <2>3, Zenon
  <2>5. ASSUME Follows(v) PROVE i + k <= Len(t) /\ Follows(t[i + k]) /\ v = t[i + k]
    BY ONLY <2>2, <2>3, <2>5, Zenon
  <2>6. ASSUME i + k <= Len(t), Follows(t[i + k]) PROVE Follows(v)
    BY ONLY <2>2, <2>3, <2>6, Zenon
  <2> HIDE DEF B
  <2>7. QED BY ONLY <2>1, <2>4, <2>5, <2>6, Zenon
<1>4. B(0) \in 1..255 /\ B(0) = t[i]
  <2>1. i + 0 = i BY <1>1
  <2>2. QED BY <1>1, <1>2, <2>1
<1> HIDE DEF B
<1>5. PICK b0, b1, b2, b3 : b0 = B(0) /\ b1 = B(1) /\ b2 = B(2) /\ b3 = B(3)
  OBVIOUS
<1>6. b0 \in 1..255 /\ b1 \in 0..255 /\ b2 \in 0..255 /\ b3 \in 0..255
  BY <1>3, <1>4, <1>5
<1>7. /\ b0 = t[i]
      /\ Follows(b1) <=> i + 1 <= Len(t) /\ Follows(t[i + 1])
      /\ Follows(b2) <=> i + 2 <= Len(t) /\ Follows(t[i + 2])
      /\ Follows(b3) <=> i + 3 <= Len(t) /\ Follows(t[i + 3])
      /\ Follows(b1) => b1 = t[i + 1]
      /\ Follows(b2) => b2 = t[i + 2]
      /\ Follows(b3) => b3 = t[i + 3]
  <2>1. 1 \in 0..3 /\ 2 \in 0..3 /\ 3 \in 0..3 OBVIOUS
  <2>2. QED BY ONLY <1>3, <1>4, <1>5, <2>1, Zenon
<1>8. PICK d : d = Utf8DecodeOne(t, i)
  OBVIOUS
<1> DEFINE one == b0 < 128
           two == Leads(b0, 2) /\ Follows(b1)
           three == Leads(b0, 3) /\ Follows(b1) /\ Follows(b2)
           four == Leads(b0, 4) /\ Follows(b1) /\ Follows(b2) /\ Follows(b3)
           value2 == (b0 % 32) * 64 + (b1 % 64)
           value3 == (b0 % 16) * 4096 + (b1 % 64) * 64 + (b2 % 64)
           value4 == (b0 % 8) * 262144 + (b1 % 64) * 4096 + (b2 % 64) * 64 + (b3 % 64)
           next(k) == i + k
<1>9. d = IF b0 = 0 THEN [cp |-> 0, next |-> i]
          ELSE IF one THEN [cp |-> b0, next |-> next(1)]
          ELSE IF two THEN [cp |-> value2, next |-> next(2)]
          ELSE IF three THEN [cp |-> value3, next |-> next(3)]
          ELSE IF four THEN [cp |-> value4, next |-> next(4)]
          ELSE [cp |-> QuestionMark, next |-> next(1)]
  BY <1>5, <1>8 DEF Utf8DecodeOne, B, Leads, Follows
<1>10. /\ Whole(t, i, 1) <=> one
       /\ Whole(t, i, 2) <=> two
       /\ Whole(t, i, 3) <=> three
       /\ Whole(t, i, 4) <=> four
  <2>1. (i + 3 <= Len(t) => i + 2 <= Len(t)) /\ (i + 2 <= Len(t) => i + 1 <= Len(t)) BY <1>1
  <2>2. Whole(t, i, 1) <=> one BY ONLY WholeOne, <1>7, t \in Seq(1..255), i \in DOMAIN t, Zenon
  <2>3. Whole(t, i, 2) <=> two
    <3>1. Whole(t, i, 2) <=> i + 1 <= Len(t) /\ Leads(t[i], 2) /\ Follows(t[i + 1]) BY WholeTwo, Zenon
    <3>2. QED BY ONLY <3>1, <1>7, Zenon
  <2>4. Whole(t, i, 3) <=> three
    <3>1. Whole(t, i, 3) <=> /\ i + 2 <= Len(t) /\ Leads(t[i], 3)
                             /\ Follows(t[i + 1]) /\ Follows(t[i + 2])
      BY WholeThree, Zenon
    <3>2. QED BY ONLY <3>1, <1>7, <2>1, Zenon
  <2>5. Whole(t, i, 4) <=> four
    <3>1. Whole(t, i, 4) <=> /\ i + 3 <= Len(t) /\ Leads(t[i], 4)
                             /\ Follows(t[i + 1]) /\ Follows(t[i + 2]) /\ Follows(t[i + 3])
      BY WholeFour, Zenon
    <3>2. QED BY ONLY <3>1, <1>7, <2>1, Zenon
  <2>6. QED BY <2>2, <2>3, <2>4, <2>5
<1>11. CodePoint(t, i) = IF one THEN b0 ELSE IF two THEN value2 ELSE IF three THEN value3
                         ELSE IF four THEN value4 ELSE QuestionMark
  <2>1. CodePoint(t, i) = IF Whole(t, i, 1) THEN t[i] ELSE IF Whole(t, i, 2) THEN Code2(t[i], t[i + 1])
                          ELSE IF Whole(t, i, 3) THEN Code3(t[i], t[i + 1], t[i + 2])
                          ELSE IF Whole(t, i, 4) THEN Code4(t[i], t[i + 1], t[i + 2], t[i + 3]) ELSE QuestionMark
    BY Zenon DEF CodePoint, Code2, Code3, Code4
  <2>2. /\ Code2(b0, b1) = value2
        /\ Code3(b0, b1, b2) = value3
        /\ Code4(b0, b1, b2, b3) = value4
    BY ONLY <1>6 DEF Code2, Code3, Code4
  <2> HIDE DEF value2, value3, value4
  <2>3. two => Code2(t[i], t[i + 1]) = value2 BY ONLY <1>7, <2>2, Zenon
  <2>4. three => Code3(t[i], t[i + 1], t[i + 2]) = value3 BY ONLY <1>7, <2>2, Zenon
  <2>5. four => Code4(t[i], t[i + 1], t[i + 2], t[i + 3]) = value4 BY ONLY <1>7, <2>2, Zenon
  <2> HIDE DEF one, two, three, four
  <2>6. QED BY ONLY <2>1, <2>3, <2>4, <2>5, <1>10, <1>7
<1>12. b0 # 0 /\ b0 \in Nat /\ value2 \in Nat /\ value3 \in Nat /\ value4 \in Nat
       /\ QuestionMark \in Nat
  BY <1>6 DEF QuestionMark
<1>13. /\ two => next(2) <= Len(t) + 1
       /\ three => next(3) <= Len(t) + 1
       /\ four => next(4) <= Len(t) + 1
       /\ next(1) <= Len(t) + 1
  <2>1. /\ i + 1 <= Len(t) => next(2) <= Len(t) + 1
        /\ i + 2 <= Len(t) => next(3) <= Len(t) + 1
        /\ i + 3 <= Len(t) => next(4) <= Len(t) + 1
        /\ next(1) <= Len(t) + 1
    BY <1>1
  <2> HIDE DEF next, value2, value3, value4
  <2>2. QED BY ONLY <1>7, <2>1, Zenon
<1>14. /\ ~ (one /\ two) /\ ~ (one /\ three) /\ ~ (one /\ four)
       /\ ~ (two /\ three) /\ ~ (two /\ four) /\ ~ (three /\ four)
  BY <1>6 DEF Leads
<1> HIDE DEF one, two, three, four, value2, value3, value4
<1>15. d.cp = CodePoint(t, i)
  BY ONLY <1>9, <1>11, <1>12
<1> DEFINE Takes(k) == /\ d.next = next(k) /\ next(k) <= Len(t) + 1
                       /\ \A m \in 1..4 : Whole(t, i, m) => m = k
                       /\ Whole(t, i, k) \/ k = 1
<1>16. \E k \in 1..4 : Takes(k)
  <2>1. \A m \in 1..4 : m = 1 \/ m = 2 \/ m = 3 \/ m = 4 OBVIOUS
  <2>2. 1 \in 1..4 /\ 2 \in 1..4 /\ 3 \in 1..4 /\ 4 \in 1..4 OBVIOUS
  <2> HIDE DEF next
  <2>3. \/ one /\ d.next = next(1)
        \/ two /\ d.next = next(2)
        \/ three /\ d.next = next(3)
        \/ four /\ d.next = next(4)
        \/ ~one /\ ~two /\ ~three /\ ~four /\ d.next = next(1)
    BY ONLY <1>9, <1>12
  <2>4. CASE one
    <3>1. d.next = next(1) /\ ~Whole(t, i, 2) /\ ~Whole(t, i, 3) /\ ~Whole(t, i, 4)
      BY ONLY <2>3, <2>4, <1>10, <1>14
    <3>2. Takes(1) BY ONLY <3>1, <2>1, <1>13
    <3>3. QED BY ONLY <3>2, <2>2
  <2>5. CASE two
    <3>1. d.next = next(2) /\ Whole(t, i, 2) /\ ~Whole(t, i, 1) /\ ~Whole(t, i, 3) /\ ~Whole(t, i, 4)
      BY ONLY <2>3, <2>5, <1>10, <1>14
    <3>2. Takes(2) BY ONLY <3>1, <2>1, <2>5, <1>13
    <3>3. QED BY ONLY <3>2, <2>2
  <2>6. CASE three
    <3>1. d.next = next(3) /\ Whole(t, i, 3) /\ ~Whole(t, i, 1) /\ ~Whole(t, i, 2) /\ ~Whole(t, i, 4)
      BY ONLY <2>3, <2>6, <1>10, <1>14
    <3>2. Takes(3) BY ONLY <3>1, <2>1, <2>6, <1>13
    <3>3. QED BY ONLY <3>2, <2>2
  <2>7. CASE four
    <3>1. d.next = next(4) /\ Whole(t, i, 4) /\ ~Whole(t, i, 1) /\ ~Whole(t, i, 2) /\ ~Whole(t, i, 3)
      BY ONLY <2>3, <2>7, <1>10, <1>14
    <3>2. Takes(4) BY ONLY <3>1, <2>1, <2>7, <1>13
    <3>3. QED BY ONLY <3>2, <2>2
  <2>8. CASE ~one /\ ~two /\ ~three /\ ~four
    <3>1. d.next = next(1) /\ ~Whole(t, i, 1) /\ ~Whole(t, i, 2) /\ ~Whole(t, i, 3) /\ ~Whole(t, i, 4)
      BY ONLY <2>3, <2>8, <1>10
    <3>2. Takes(1) BY ONLY <3>1, <2>1, <1>13
    <3>3. QED BY ONLY <3>2, <2>2
  <2>9. QED BY ONLY <2>4, <2>5, <2>6, <2>7, <2>8
<1>17. Decodes(t, i, d) BY ONLY <1>15, <1>16, Zenon DEF Decodes
<1>18. d.cp \in Nat BY ONLY <1>9, <1>12
<1>19. QED BY ONLY <1>8, <1>17, <1>18, Zenon

----------------------------------------------------------------------------
(* Types of the drawing *)

(* The decoder takes at least one byte, and never passes the end of a text,
   whatever bytes it has (epd200x200.c:238-281). *)
LEMMA DecoderStaysInText ==
  ASSUME NEW t \in Seq(1..255), NEW i \in DOMAIN t
  PROVE  Utf8DecodeOne(t, i).next \in (i + 1)..(Len(t) + 1) /\ Utf8DecodeOne(t, i).cp \in Nat
<1>1. Len(t) \in Nat /\ i \in 1..Len(t) BY LenProperties
<1>2. PICK d : d = Utf8DecodeOne(t, i) OBVIOUS
<1>3. Decodes(t, i, d) /\ d.cp \in Nat BY <1>2, DecoderDecodes
<1>4. PICK k \in 1..4 : d.next = i + k /\ i + k <= Len(t) + 1 BY <1>3, Zenon DEF Decodes
<1>5. d.next \in (i + 1)..(Len(t) + 1) BY <1>1, <1>4
<1>6. QED BY <1>2, <1>3, <1>5

(* A character is drawn with a glyph of the table, or not at all, and what it
   blackens is on the screen. *)
LEMMA GlyphInRange ==
  ASSUME NEW f, f \subseteq 0..(EPD_WIDTH * EPD_HEIGHT - 1),
         NEW gx \in Int, NEW gy \in Int, NEW cp \in Nat
  PROVE  DrawGlyph12(f, gx, gy, GlyphFor(cp), TRUE) \subseteq 0..(EPD_WIDTH * EPD_HEIGHT - 1)
<1>1. \A c \in Nat : FindGlyph(c) \in DOMAIN Zpix \cup {0} BY GlyphIsFound
<1>2. GlyphFor(cp) \in DOMAIN Zpix \cup {0} BY <1>1 DEF GlyphFor, QuestionMark
<1>3. CASE GlyphFor(cp) = 0 BY <1>3 DEF DrawGlyph12
<1>4. CASE GlyphFor(cp) # 0
  <2>1. GlyphFor(cp) \in DOMAIN Zpix BY <1>2, <1>4
  <2>2. Zpix[GlyphFor(cp)].pixels \in SUBSET (Int \X Int)
    BY <2>1, FontAssumption DEF Pixels
  <2>3. Moved(Zpix[GlyphFor(cp)].pixels, gx, gy) \in SUBSET (Int \X Int) BY <2>2, MovedCovers
  <2>4. QED BY <1>4, <2>3, SetPixelsInRange DEF DrawGlyph12
<1>5. QED BY <1>3, <1>4

(* So is the picture of the bands. *)
LEMMA GrayscaleInRange == Grayscale \subseteq 0..(EPD_WIDTH * EPD_HEIGHT - 1)
<1> DEFINE IsBlack(x, y) ==
             LET band == Smaller(x \div BandWidth, Bands - 1)
                 threshold == (Bayer8x8[(y % 8) + 1][(x % 8) + 1] * 256) \div 64
             IN  (band * 255) \div (Bands - 1) > threshold
           screen == (0..(EPD_WIDTH - 1)) \X (0..(EPD_HEIGHT - 1))
           dots == {q \in screen : IsBlack(q[1], q[2])}
           dither == SetPixels(FbClear(FALSE), dots, TRUE)
           bars == UNION {Vline(i * BandWidth, 0, EPD_HEIGHT - 1) : i \in 1..(Bands - 1)}
<1>1. Grayscale = SetPixels(dither, bars, TRUE) BY DEF Grayscale
<1> HIDE DEF IsBlack
<1>2. dots \in SUBSET (Int \X Int) BY DisplayAssumption
<1>3. dither \subseteq 0..(EPD_WIDTH * EPD_HEIGHT - 1)
  BY <1>2, FbClearIsPlain, SetPixelsInRange
<1>4. bars \in SUBSET (Int \X Int)
  <2>1. BandWidth \in Int /\ EPD_HEIGHT - 1 \in Int BY DisplayAssumption DEF BandWidth, Bands
  <2>2. \A i \in 1..(Bands - 1) : i * BandWidth \in Int BY <2>1 DEF Bands
  <2>3. \A i \in 1..(Bands - 1) : Vline(i * BandWidth, 0, EPD_HEIGHT - 1) \in SUBSET (Int \X Int)
    BY <2>1, <2>2, LinesArePoints
  <2>4. QED BY <2>3
<1> HIDE DEF dither, bars
<1>5. QED BY <1>1, <1>3, <1>4, SetPixelsInRange

(* What is drawn, and how far a text has been drawn. *)
DrawTypes ==
  /\ fb \subseteq 0..(EPD_WIDTH * EPD_HEIGHT - 1)
  /\ spacing \in [line : Nat, column : Nat]
  /\ text \in Seq(1..255) /\ p \in 1..(Len(text) + 1) /\ (pc # "text" => p = 1)
  /\ col \in 0..MaxCols /\ row \in 0..MaxRows
  /\ pc \in {"shape", "shaped"} => shape \in Shapes

(* No drawing leaves the frame buffer, and no text is read past its end. *)
LEMMA DrawTypesKept == DrawTypes /\ [Next]_vars => DrawTypes'
<1> SUFFICES ASSUME DrawTypes, [Next]_vars PROVE DrawTypes'
  OBVIOUS
<1> USE DEF DrawTypes
<1>0. \A b \in BOOLEAN : FbClear(b) \subseteq 0..(EPD_WIDTH * EPD_HEIGHT - 1)
  BY FbClearIsPlain
<1>t. <<>> \in Seq(1..255) /\ Len(<<>>) = 0 OBVIOUS
<1>m. MaxCols \in Nat \ {0} /\ MaxRows \in Nat BY TextAssumption
<1>1. ASSUME pc = "io", pc' \in {"io", "idle"}, UNCHANGED drawVars PROVE DrawTypes'
  BY <1>1 DEF drawVars
<1>2. CASE WriteByte \/ PollBusy \/ PollFails \/ WaitTimesOut \/ PinsConfigured \/ ResetPanel
  <2>1. pc = "io" /\ pc' \in {"io", "idle"} /\ UNCHANGED drawVars
    BY <1>2 DEF WriteByte, PollBusy, PollFails, WaitTimesOut, PinsConfigured, ResetPanel,
                InScript, Succeeds, Fails, KeepCall
  <2>2. QED BY <1>1, <2>1
<1>3. CASE BeginPage
  <2>1. fb' = FbClear(FALSE) /\ text' \in {text, NextPage} /\ p' = 1 /\ col' = 0 /\ row' = 0
        /\ pc' = "text" /\ spacing' = spacing /\ shape' = shape
    BY <1>3 DEF BeginPage
  <2>2. text' \in Seq(1..255) BY <2>1, TextAssumption
  <2>3. Len(text') \in Nat BY <2>2, LenProperties
  <2>4. 1 \in 1..(Len(text') + 1) BY <2>3
  <2>5. fb' \subseteq 0..(EPD_WIDTH * EPD_HEIGHT - 1) BY <1>0, <2>1
  <2>6. p' \in 1..(Len(text') + 1) /\ col' \in 0..MaxCols /\ row' \in 0..MaxRows BY <1>m, <2>1, <2>4
  <2>7. QED BY <2>1, <2>2, <2>5, <2>6
<1>4. CASE DrawNewLine
  <2>1. Len(text) \in Nat BY LenProperties
  <2>2. pc = "text" /\ pc' = pc /\ p <= Len(text) /\ row < MaxRows /\ p' = p + 1 /\ col' = 0 /\ row' = row + 1
        /\ UNCHANGED <<fb, spacing, text, shape>>
    BY <1>4 DEF DrawNewLine, TextGoesOn
  <2>3. p' \in 1..(Len(text) + 1) BY <2>1, <2>2
  <2>4. QED BY <1>m, <2>2, <2>3
<1>5. CASE DrawGlyph
  <2> DEFINE wraps == col >= MaxCols
             c == IF wraps THEN 0 ELSE col
             r == IF wraps THEN row + 1 ELSE row
             d == Utf8DecodeOne(text, p)
             gx == TextX + c * ColPitch
             gy == TextY + r * LinePitch
  <2>1. /\ pc = "text" /\ pc' = pc /\ p <= Len(text) /\ row < MaxRows /\ row' = r
        /\ UNCHANGED <<spacing, text, shape>>
    BY <1>5 DEF DrawGlyph, TextGoesOn
  <2>2. \/ r >= MaxRows /\ col' = c /\ fb' = fb /\ p' = p
        \/ /\ ~(r >= MaxRows) /\ fb' = DrawGlyph12(fb, gx, gy, GlyphFor(d.cp), TRUE)
           /\ p' = d.next /\ col' = c + 1
    BY <1>5 DEF DrawGlyph
  <2>3. c \in 0..(MaxCols - 1) /\ r \in 0..MaxRows BY <2>1, TextAssumption
  <2>4. Len(text) \in Nat /\ DOMAIN text = 1..Len(text) BY LenProperties
  <2>5. p \in DOMAIN text BY <2>1, <2>4
  <2> HIDE DEF d, c, r
  <2>6. d.next \in (p + 1)..(Len(text) + 1) /\ d.cp \in Nat BY <2>5, DecoderStaysInText DEF d
  <2>7. d.next \in 1..(Len(text) + 1) BY <2>4, <2>6
  <2>8. gx \in Int /\ gy \in Int
    <3>1. /\ spacing.line \in Nat /\ spacing.column \in Nat /\ CellSize \in Nat
          /\ TextX \in Int /\ TextY \in Int /\ MaxCols \in Nat /\ MaxRows \in Nat
      BY FontAssumption, TextAssumption
    <3>2. ColPitch \in Nat /\ LinePitch \in Nat BY <3>1 DEF ColPitch, LinePitch, Larger
    <3>3. c \in Nat /\ r \in Nat BY <2>3, <3>1
    <3>4. QED BY <3>1, <3>2, <3>3
  <2> HIDE DEF gx, gy
  <2>9. DrawGlyph12(fb, gx, gy, GlyphFor(d.cp), TRUE) \subseteq 0..(EPD_WIDTH * EPD_HEIGHT - 1)
    <3>1. PICK cp \in Nat : cp = d.cp BY <2>6
    <3>2. DrawGlyph12(fb, gx, gy, GlyphFor(cp), TRUE) \subseteq 0..(EPD_WIDTH * EPD_HEIGHT - 1)
      BY <2>8, GlyphInRange
    <3>3. QED BY <3>1, <3>2
  <2>10. p' \in 1..(Len(text) + 1) BY <2>2, <2>7
  <2>11. col' \in 0..MaxCols
    <3>1. col' \in {c, c + 1} BY <2>2, Zenon
    <3>2. QED BY <1>m, <2>3, <3>1
  <2>12. QED BY <2>1, <2>2, <2>3, <2>9, <2>10, <2>11
<1>6. CASE TextEnds
  <2>1. text' = <<>> /\ p' = 1 /\ col' = 0 /\ row' = 0 /\ pc' = "io" /\ UNCHANGED <<fb, spacing, shape>>
    BY <1>6 DEF TextEnds, Present, NoText
  <2>2. QED BY <1>t, <2>1, TextAssumption
<1>7. CASE DrawShape
  <2>1. pc = "shape" /\ fb' = Drawn(shape) /\ pc' = "shaped" /\ UNCHANGED <<spacing, text, p, col, row, shape>>
    BY <1>7 DEF DrawShape
  <2>2. fb' \subseteq 0..(EPD_WIDTH * EPD_HEIGHT - 1) BY <2>1, ShapeIsDrawn DEF IsDrawn
  <2>3. QED BY <2>1, <2>2
<1>8. CASE ShapeEnds \/ ScriptEnds \/ MainLights \/ Breathe
  <2>1. /\ UNCHANGED <<fb, spacing, text, p, col, row>> /\ pc # "text"
        /\ pc' \in {"io", "page", "idle", "led", "stopped"}
    BY <1>8 DEF ShapeEnds, Present, ScriptEnds, MainLights, Breathe, KeepDriver, drawVars, Idle
  <2>2. QED BY <2>1
<1>9. ASSUME NEW line \in Spacings, NEW column \in Spacings, SetSpacing(line, column) PROVE DrawTypes'
  <2>1. /\ spacing' = [line |-> Larger(line, 0), column |-> Larger(column, 0)]
        /\ UNCHANGED <<fb, text, p, col, row, shape, pc>>
    BY <1>9 DEF SetSpacing
  <2>2. Larger(line, 0) \in Nat /\ Larger(column, 0) \in Nat BY TextAssumption DEF Larger
  <2>3. QED BY <2>1, <2>2
<1>10. CASE AppCalls \/ MainCalls
  <2>0. pc = "idle" BY <1>10 DEF AppCalls, MainCalls, Idle
  <2>1. ASSUME DriverInit PROVE DrawTypes'
    BY <2>0, <2>1 DEF DriverInit, Calls
  <2>2. ASSUME NEW black \in BOOLEAN, Clear(black) PROVE DrawTypes'
    BY <1>0, <2>0, <2>2 DEF Clear, Calls, Present
  <2>3. ASSUME NEW s \in Shapes, ShowDemo(s) PROVE DrawTypes'
    BY <1>0, <2>0, <2>3 DEF ShowDemo, Calls
  <2>4. ASSUME ShowGrayscale PROVE DrawTypes'
    BY <2>0, <2>4, GrayscaleInRange DEF ShowGrayscale, Calls, Present
  <2>5. ASSUME NEW t \in FirstTexts \cup {NextPage}, ShowChineseDemo(t) PROVE DrawTypes'
    <3>1. /\ text' = t /\ pc' = "page" /\ UNCHANGED <<fb, spacing, p, col, row, shape>>
      BY <2>5 DEF ShowChineseDemo, Calls
    <3>2. t \in Seq(1..255) BY TextAssumption
    <3>3. Len(t) \in Nat BY <3>2, LenProperties
    <3>4. p' \in 1..(Len(text') + 1) BY <2>0, <3>1, <3>3
    <3>5. QED BY <2>0, <3>1, <3>2, <3>4
  <2>6. QED
    BY <1>10, <2>1, <2>2, <2>3, <2>4, <2>5, Zenon DEF AppCalls, MainCalls
<1>11. CASE PanelIdle \/ UNCHANGED vars
  <2>1. UNCHANGED <<drawVars, pc>> BY <1>11 DEF PanelIdle, vars
  <2>2. QED BY <2>1 DEF drawVars
<1>12. QED
  BY <1>2, <1>3, <1>4, <1>5, <1>6, <1>7, <1>8, <1>9, <1>10, <1>11, Zenon DEF Next, Drive

----------------------------------------------------------------------------
(* The callers and the light *)

(* What is called, and by whom. *)
CallTypes ==
  /\ pc \in {"idle", "page", "text", "shape", "shaped", "io", "led", "stopped"}
  /\ who \in {"main", "app"} /\ ret \in {"none", "ok", "error"} /\ lateStart \in BOOLEAN
  /\ call \in {"none", "init", "clear", "demo", "gray", "chinese"}
  /\ page \in 1..PageCount /\ calls \in 0..MaxCalls
  /\ pc = "idle" /\ ret = "none" => call = "none"
  /\ call = "none" => pc = "idle"
  /\ pc \in {"page", "text"} => call = "chinese"
  /\ pc \in {"shape", "shaped"} => call = "demo"
  /\ who = "main" => (call = "none" => calls = 0) /\ (call = "init" => calls = 1)

(* The callers keep to their order. *)
LEMMA CallTypesKept == CallTypes /\ IoTypes /\ [Next]_vars => CallTypes'
<1> SUFFICES ASSUME CallTypes, IoTypes, [Next]_vars PROVE CallTypes'
  OBVIOUS
<1> USE DEF CallTypes
<1>1. CASE WriteByte \/ PollBusy \/ PollFails \/ WaitTimesOut \/ PinsConfigured \/ ResetPanel
  <2>1. /\ pc = "io" /\ UNCHANGED <<page, who, call, calls, lateStart>>
        /\ UNCHANGED <<pc, ret>> \/ (pc' = "idle" /\ ret' = "error")
    BY <1>1 DEF WriteByte, PollBusy, PollFails, WaitTimesOut, PinsConfigured, ResetPanel,
                InScript, Succeeds, Fails, KeepCall
  <2>2. QED BY <2>1
<1>2. CASE BeginPage \/ DrawNewLine \/ DrawGlyph \/ TextEnds \/ DrawShape \/ ShapeEnds
  <2>1. /\ UNCHANGED <<page, callVars>>
        /\ \/ pc \in {"page", "text"} /\ pc' = "text"
           \/ pc = "shape" /\ pc' = "shaped"
           \/ pc \in {"text", "shaped"} /\ pc' = "io"
    BY <1>2 DEF BeginPage, DrawNewLine, DrawGlyph, TextEnds, DrawShape, ShapeEnds, Present, KeepIo, TextGoesOn
  <2>2. QED BY <2>1 DEF callVars
<1>3. CASE ScriptEnds
  <2>1. /\ pc = "io" /\ UNCHANGED <<who, call, calls, lateStart>>
        /\ \/ call = "chinese" /\ page < PageCount /\ page' = page + 1 /\ pc' = "page" /\ ret' = ret
           \/ page' = page /\ pc' = "idle" /\ ret' = "ok"
    BY <1>3 DEF ScriptEnds
  <2>2. PageCount \in Nat BY CallsAssumption
  <2>3. QED BY <2>1, <2>2
<1>4. ASSUME NEW name \in {"init", "clear", "demo", "gray", "chinese"}, Calls(name), calls < MaxCalls,
             \/ name = "init" /\ pc' = "io" /\ calls = 0
             \/ name \in {"clear", "gray"} /\ pc' = "io" /\ who = "app"
             \/ name = "demo" /\ pc' = "shape" /\ who = "app"
             \/ name = "chinese" /\ pc' = "page"
      PROVE  CallTypes'
  <2>1. /\ call' = name /\ ret' = "none" /\ calls' = calls + 1 /\ lateStart' = panel.busy
        /\ page' = 1 /\ who' = who
    BY <1>4 DEF Calls
  <2>2. panel.busy \in BOOLEAN BY DEF IoTypes, PanelType
  <2>3. PageCount \in Nat \ {0} /\ MaxCalls \in Nat BY CallsAssumption
  <2>4. page' \in 1..PageCount /\ calls' \in 0..MaxCalls BY <1>4, <2>1, <2>3
  <2>5. QED BY <1>4, <2>1, <2>2, <2>4
<1>5. CASE AppCalls
  <2>1. calls < MaxCalls /\ who = "app" BY <1>5 DEF AppCalls
  <2>2. CASE call = "none" /\ DriverInit
    <3>1. Calls("init") /\ pc' = "io" BY <2>2 DEF DriverInit
    <3>2. /\ call' = "init" /\ ret' = "none" /\ calls' = calls + 1 /\ lateStart' = panel.busy
          /\ page' = 1 /\ who' = who
      BY <3>1 DEF Calls
    <3>3. panel.busy \in BOOLEAN BY DEF IoTypes, PanelType
    <3>4. PageCount \in Nat \ {0} /\ MaxCalls \in Nat BY CallsAssumption
    <3>5. page' \in 1..PageCount /\ calls' \in 0..MaxCalls BY <2>1, <3>2, <3>4
    <3>6. QED BY <2>1, <3>1, <3>2, <3>3, <3>5
  <2>3. CASE \E s \in Shapes : ShowDemo(s)
    <3>1. Calls("demo") /\ pc' = "shape" BY <2>3 DEF ShowDemo
    <3>2. QED BY <1>4, <2>1, <3>1
  <2>4. CASE \E black \in BOOLEAN : Clear(black)
    <3>1. Calls("clear") /\ pc' = "io" BY <2>4 DEF Clear, Present
    <3>2. QED BY <1>4, <2>1, <3>1
  <2>5. CASE ShowGrayscale
    <3>1. Calls("gray") /\ pc' = "io" BY <2>5 DEF ShowGrayscale, Present
    <3>2. QED BY <1>4, <2>1, <3>1
  <2>6. CASE \E t : ShowChineseDemo(t)
    <3>1. Calls("chinese") /\ pc' = "page" BY <2>6 DEF ShowChineseDemo
    <3>2. QED BY <1>4, <2>1, <3>1
  <2>7. QED BY <1>5, <2>2, <2>3, <2>4, <2>5, <2>6, Zenon DEF AppCalls
<1>6. CASE MainCalls
  <2>0. MaxCalls \in Nat \ {0, 1} BY CallsAssumption
  <2>1. CASE call = "none" /\ DriverInit
    <3>1. Calls("init") /\ pc' = "io" BY <2>1 DEF DriverInit
    <3>2. calls = 0 BY <1>6, <2>1 DEF MainCalls
    <3>3. calls < MaxCalls BY <2>0, <3>2
    <3>4. QED BY <1>4, <3>1, <3>2, <3>3
  <2>2. CASE call = "init" /\ ShowChineseDemo(NextPage)
    <3>1. Calls("chinese") /\ pc' = "page" BY <2>2 DEF ShowChineseDemo
    <3>2. calls = 1 BY <1>6, <2>2 DEF MainCalls
    <3>3. calls < MaxCalls BY <2>0, <3>2
    <3>4. QED BY <1>4, <3>1, <3>3
  <2>3. QED BY <1>6, <2>1, <2>2 DEF MainCalls
<1>7. CASE MainLights
  <2>1. /\ pc = "idle" /\ call # "none" /\ pc' \in {"led", "stopped"} /\ UNCHANGED <<page, callVars>>
    BY <1>7 DEF MainLights, KeepDriver, Idle
  <2>2. QED BY <2>1 DEF callVars
<1>8. CASE Breathe \/ PanelIdle \/ UNCHANGED vars \/ \E line, column \in Spacings : SetSpacing(line, column)
  <2>1. UNCHANGED <<pc, page, callVars>> BY <1>8 DEF Breathe, PanelIdle, SetSpacing, KeepDriver, vars
  <2>2. QED BY <2>1 DEF callVars
<1>9. QED
  BY <1>1, <1>2, <1>3, <1>5, <1>6, <1>7, <1>8, Zenon DEF Next, Drive

(* The light turns round at its limits. *)
LedTypes ==
  led \in [breath : 0..BREATH_MAX, breath_dir : {-1, 1}, hue : 0..HUE_MAX, hue_dir : {-1, 1}]

(* The light stays between its limits. *)
LEMMA LedTypesKept == LedTypes /\ [Next]_vars => LedTypes'
<1> SUFFICES ASSUME LedTypes, [Next]_vars PROVE LedTypes'
  OBVIOUS
<1>1. CASE Breathe
  <2> DEFINE Bounded(v, max) == IF v >= max THEN max ELSE IF v <= 0 THEN 0 ELSE v
             Turned(v, max, dir) == IF v >= max THEN -1 ELSE IF v <= 0 THEN 1 ELSE dir
  <2>1. BREATH_MAX \in Nat /\ HUE_MAX \in Nat BY CallsAssumption
  <2>2. /\ led.breath \in Int /\ led.hue \in Int
        /\ led.breath_dir \in {-1, 1} /\ led.hue_dir \in {-1, 1}
    BY <2>1 DEF LedTypes
  <2>3. \A max \in Nat, v \in Int : Bounded(v, max) \in 0..max OBVIOUS
  <2>4. \A max, v, dir : dir \in {-1, 1} => Turned(v, max, dir) \in {-1, 1} OBVIOUS
  <2>5. led' = [breath |-> Bounded(led.breath + led.breath_dir, BREATH_MAX),
                breath_dir |-> Turned(led.breath + led.breath_dir, BREATH_MAX, led.breath_dir),
                hue |-> Bounded(led.hue + led.hue_dir, HUE_MAX),
                hue_dir |-> Turned(led.hue + led.hue_dir, HUE_MAX, led.hue_dir)]
    BY <1>1 DEF Breathe
  <2>6. led.breath + led.breath_dir \in Int /\ led.hue + led.hue_dir \in Int BY <2>2
  <2> HIDE DEF Bounded, Turned
  <2>7. QED BY <2>1, <2>2, <2>3, <2>4, <2>5, <2>6 DEF LedTypes
<1>2. CASE ~Breathe
  <2>1. led' = led
    <3> USE DEF KeepCall, KeepIo, Calls, KeepDriver
    <3>1. WriteByte \/ PollBusy \/ PollFails \/ WaitTimesOut \/ PinsConfigured \/ ResetPanel => led' = led
      BY DEF WriteByte, PollBusy, PollFails, WaitTimesOut, PinsConfigured, ResetPanel
    <3>2. BeginPage \/ DrawNewLine \/ DrawGlyph \/ TextEnds \/ DrawShape \/ ShapeEnds \/ ScriptEnds => led' = led
      BY DEF BeginPage, DrawNewLine, DrawGlyph, TextEnds, DrawShape, ShapeEnds, ScriptEnds
    <3>3. AppCalls \/ MainCalls => led' = led
      BY DEF AppCalls, MainCalls, DriverInit, Clear, ShowDemo, ShowGrayscale, ShowChineseDemo
    <3>4. MainLights \/ PanelIdle \/ (\E line, column \in Spacings : SetSpacing(line, column)) => led' = led
      BY DEF MainLights, PanelIdle, SetSpacing
    <3>5. UNCHANGED vars => led' = led BY DEF vars
    <3>6. QED BY <1>2, <3>1, <3>2, <3>3, <3>4, <3>5, Zenon DEF Next, Drive
  <2>2. QED BY <2>1 DEF LedTypes
<1>3. QED BY <1>1, <1>2

(* Green and blue share the brightness between them. *)
LEMMA LightIsShared == LedTypes => Green + Blue <= led.breath
<1> SUFFICES ASSUME LedTypes PROVE Green + Blue <= led.breath
  OBVIOUS
<1>1. HUE_MAX \in Nat \ {0} /\ BREATH_MAX \in Nat BY CallsAssumption
<1>2. led.breath \in Nat /\ led.hue \in 0..HUE_MAX BY <1>1 DEF LedTypes
<1>3. PICK b, h, k, m \in Nat : b = led.breath /\ h = led.hue /\ k = HUE_MAX - h /\ m = HUE_MAX
  BY <1>1, <1>2
<1>4. m = h + k /\ m > 0 BY <1>1, <1>2, <1>3
<1>5. b * k \in Nat /\ b * h \in Nat /\ b * m = b * k + b * h BY <1>4
<1>6. PICK g, u \in Nat : g = (b * k) \div m /\ u = (b * h) \div m BY <1>4, <1>5
<1>7. m * g <= b * k /\ m * u <= b * h BY <1>4, <1>5, <1>6
<1>8. m * (g + u) = m * g + m * u BY <1>4
<1>9. m * (g + u) <= m * b BY <1>5, <1>7, <1>8
<1>10. g + u <= b
  <2>1. SUFFICES ASSUME g + u > b PROVE FALSE OBVIOUS
  <2>2. PICK x \in Nat : g + u = b + 1 + x
    <3>1. g + u - b - 1 \in Nat /\ g + u = b + 1 + (g + u - b - 1) BY <2>1
    <3>2. QED BY <3>1
  <2>3. m * (g + u) = m * b + m + m * x /\ m * x \in Nat BY <2>2
  <2>4. QED BY <1>4, <1>9, <2>3
<1>11. QED BY <1>3, <1>6, <1>10 DEF Green, Blue

(* Every variable keeps its type. *)
Types == IoTypes /\ DrawTypes /\ CallTypes /\ LedTypes

(* All of it, together. *)
LEMMA TypesInvariance == Spec => []Types
<1>1. Init => Types
  <2> SUFFICES ASSUME Init PROVE Types
    OBVIOUS
  <2>1. IoTypes
    <3>1. <<>> \in Seq(Op) OBVIOUS
    <3>2. QED BY <3>1, PanelResetType DEF Init, IoTypes
  <2>2. DrawTypes
    <3>1. Len(<<>>) = 0 /\ <<>> \in Seq(1..255) OBVIOUS
    <3>2. MaxCols \in Nat /\ MaxRows \in Nat /\ LINE_SPACING_DEFAULT \in Nat BY TextAssumption
    <3>3. fb \subseteq 0..(EPD_WIDTH * EPD_HEIGHT - 1) BY FbClearIsPlain DEF Init
    <3>4. spacing \in [line : Nat, column : Nat] BY <3>2 DEF Init
    <3>5. /\ text = <<>> /\ p = 1 /\ p \in 1..(Len(text) + 1)
          /\ col \in 0..MaxCols /\ row \in 0..MaxRows
      BY <3>1, <3>2 DEF Init
    <3>6. QED BY <3>1, <3>3, <3>4, <3>5 DEF Init, DrawTypes
  <2>3. CallTypes
    <3>1. PageCount \in Nat \ {0} /\ MaxCalls \in Nat BY CallsAssumption
    <3>2. page \in 1..PageCount /\ calls \in 0..MaxCalls BY <3>1 DEF Init
    <3>3. QED BY <3>2 DEF Init, CallTypes
  <2>4. LedTypes BY CallsAssumption DEF Init, LedTypes
  <2>5. QED BY <2>1, <2>2, <2>3, <2>4 DEF Types
<1>2. Types /\ [Next]_vars => Types'
  BY IoTypesKept, DrawTypesKept, CallTypesKept, LedTypesKept DEF Types
<1>3. QED BY <1>1, <1>2, PTL DEF Spec

(* The driver, its callers, the panel and the light keep their types, for any display, font and
   text: a pixel drawn is one of the frame buffer's, the text ends where it ends, and
   green and blue share the brightness (epd200x200.c, main_chip_info.c:46-96). *)
THEOREM EpdTypeCorrect == Spec => []EpdTypeOK
<1>1. Types => EpdTypeOK
  <2> SUFFICES ASSUME Types PROVE EpdTypeOK
    OBVIOUS
  <2>1. DOMAIN panel.ram = 0..(EPD_FB_SIZE - 1)
    BY DEF Types, IoTypes, PanelType, Picture8
  <2>2. spacing.line \in Nat /\ spacing.column \in Nat
    BY DEF Types, DrawTypes
  <2>3. led.breath \in 0..BREATH_MAX /\ led.hue \in 0..HUE_MAX /\ Green + Blue <= led.breath
    BY LightIsShared DEF Types, LedTypes
  <2>4. QED BY <2>1, <2>2, <2>3 DEF Types, DrawTypes, CallTypes, EpdTypeOK, Idle
<1>2. QED BY <1>1, TypesInvariance, PTL

----------------------------------------------------------------------------
(* Shapes *)

(* A primitive is done in one step of the model, and then nothing draws. *)
ShapeDone == pc = "shaped" => fb = Drawn(shape)

(* Until the script begins nothing else is drawn. *)
LEMMA ShapeDoneKept == ShapeDone /\ [Next]_vars => ShapeDone'
<1> SUFFICES ASSUME ShapeDone, [Next]_vars, pc' = "shaped" PROVE fb' = Drawn(shape')
  BY DEF ShapeDone
<1>1. DrawShape \/ PanelIdle \/ UNCHANGED vars
  <2>1. WriteByte \/ PollBusy \/ PollFails \/ WaitTimesOut \/ PinsConfigured \/ ResetPanel => pc' \in {"io", "idle"}
    BY DEF WriteByte, PollBusy, PollFails, WaitTimesOut, PinsConfigured, ResetPanel, InScript, Succeeds, Fails
  <2>2. BeginPage \/ DrawNewLine \/ DrawGlyph \/ TextEnds \/ ShapeEnds \/ ScriptEnds => pc' # "shaped"
    BY DEF BeginPage, DrawNewLine, DrawGlyph, TextEnds, TextGoesOn, ShapeEnds, ScriptEnds, Present
  <2>3. AppCalls \/ MainCalls => pc' # "shaped"
    BY DEF AppCalls, MainCalls, DriverInit, Clear, ShowDemo, ShowGrayscale, ShowChineseDemo, Present
  <2>4. MainLights \/ Breathe \/ (\E line, column \in Spacings : SetSpacing(line, column)) => pc' # "shaped"
    BY DEF MainLights, Breathe, SetSpacing, Idle
  <2>5. QED BY <2>1, <2>2, <2>3, <2>4, Zenon DEF Next, Drive
<1>2. CASE DrawShape BY <1>2 DEF DrawShape
<1>3. CASE PanelIdle \/ UNCHANGED vars
  <2>1. UNCHANGED <<drawVars, pc>> BY <1>3 DEF PanelIdle, vars
  <2>2. pc = "shaped" /\ fb' = fb /\ shape' = shape BY <2>1 DEF drawVars
  <2>3. QED BY <2>2 DEF ShapeDone
<1>4. QED BY <1>1, <1>2, <1>3

(* What a primitive paints is the part of its shape that is on the screen, for
   any screen and any coordinates: nothing lands in another row or outside the
   frame buffer. *)
THEOREM ShapesClipped == Spec => []ShapesAreClipped
<1>1. Init => ShapeDone BY DEF Init, ShapeDone
<1>2. Types /\ ShapeDone => ShapesAreClipped
  <2> SUFFICES ASSUME Types, ShapeDone, pc = "shaped",
                      NEW x \in 0..(EPD_WIDTH - 1), NEW y \in 0..(EPD_HEIGHT - 1)
               PROVE  (y * EPD_WIDTH + x \in fb) <=> IF Covers(shape, x, y) THEN shape.black ELSE shape.onBlack
    BY DEF ShapesAreClipped
  <2>1. shape \in Shapes /\ fb = Drawn(shape) BY DEF Types, DrawTypes, ShapeDone
  <2>2. IsDrawn(shape, fb) BY <2>1, ShapeIsDrawn
  <2>3. QED BY <2>2 DEF IsDrawn, At
<1>3. QED BY <1>1, <1>2, TypesInvariance, ShapeDoneKept, PTL DEF Spec

----------------------------------------------------------------------------
(* Where the characters of a text begin *)

(* A byte that follows begins no sequence, and is no line feed. *)
LEMMA FollowersFollow ==
  ASSUME NEW t \in Seq(1..255), NEW j \in DOMAIN t, NEW m \in 1..4, Whole(t, j, m)
  PROVE  /\ ~Follows(t[j]) /\ j + m - 1 <= Len(t)
         /\ \A b \in (j + 1)..(j + m - 1) : Follows(t[b])
<1>1. /\ j + m - 1 <= Len(t) /\ Leads(t[j], m)
      /\ \A b \in (j + 1)..(j + m - 1) : Follows(t[b])
  BY WholeIs, Zenon
<1>2. t[j] \in 1..255 BY ElementOfSeq, LenProperties
<1>3. ~Follows(t[j])
  <2>1. PICK b : b = t[j] OBVIOUS
  <2>2. b \in 1..255 BY <1>2, <2>1
  <2>3. Leads(b, m) => ~Follows(b) BY ONLY <2>2 DEF Leads, Follows
  <2>4. QED BY ONLY <1>1, <2>1, <2>3, Zenon
<1>4. QED BY ONLY <1>1, <1>3, Zenon

(* Where the next character begins. *)
NextIs(t, i, q) ==
  /\ q \in (i + 1)..(Len(t) + 1)
  /\ q <= Len(t) => q \in Begins(t)
  /\ \A j \in Begins(t) : j < q <=> j <= i
  /\ \A b \in (i + 1)..(q - 1) : t[b] # NewLine

(* The decoder goes from the beginning of a character to that of the next. *)
LEMMA NextBegins ==
  ASSUME NEW t \in Seq(1..255), NEW i \in Begins(t)
  PROVE  NextIs(t, i, Utf8DecodeOne(t, i).next)
<1>1. Len(t) \in Nat /\ DOMAIN t = 1..Len(t) /\ i \in 1..Len(t) /\ i \in DOMAIN t
  BY LenProperties DEF Begins
<1>2. PICK d : d = Utf8DecodeOne(t, i) OBVIOUS
<1>3. PICK k \in 1..4 : /\ d.next = i + k /\ i + k <= Len(t) + 1
                        /\ \A m \in 1..4 : Whole(t, i, m) => m = k
                        /\ Whole(t, i, k) \/ k = 1
  BY <1>1, <1>2, DecoderDecodes, Zenon DEF Decodes
<1>4. PICK q : q = d.next OBVIOUS
<1>5. q = i + k /\ q \in (i + 1)..(Len(t) + 1)
  BY <1>1, <1>3, <1>4
<1>6. ASSUME NEW b \in (i + 1)..(q - 1) PROVE Whole(t, i, k) /\ Follows(t[b]) /\ b \in DOMAIN t
  <2>1. k # 1 /\ b \in (i + 1)..(i + k - 1) BY <1>1, <1>5, <1>6
  <2>2. Whole(t, i, k) BY <1>3, <2>1
  <2>3. Follows(t[b]) BY <1>1, <2>1, <2>2, FollowersFollow, Zenon
  <2>4. b \in DOMAIN t BY <1>1, <1>5
  <2>5. QED BY <2>2, <2>3, <2>4
<1>7. ASSUME q <= Len(t) PROVE q \in Begins(t)
  <2>1. q \in DOMAIN t BY <1>1, <1>5, <1>7
  <2>2. ASSUME NEW j \in 1..(q - 1), NEW m \in 1..4, Whole(t, j, m) PROVE j + m <= q
    <3>1. j \in DOMAIN t BY <1>1, <1>5
    <3>2. CASE j < i
      <4>1. j \in 1..(i - 1) BY <1>1, <3>2
      <4>2. j + m <= i BY <2>2, <4>1 DEF Begins
      <4>3. QED BY <1>1, <1>5, <4>2
    <3>3. CASE j = i
      <4>1. m = k BY <1>3, <2>2, <3>3
      <4>2. QED BY <1>1, <1>5, <3>3, <4>1
    <3>4. CASE j > i
      <4>1. j \in (i + 1)..(q - 1) BY <1>1, <3>4
      <4>2. Follows(t[j]) BY <1>6, <4>1
      <4>3. ~Follows(t[j]) BY <2>2, <3>1, FollowersFollow, Zenon
      <4>4. QED BY <4>2, <4>3
    <3>5. QED BY <1>1, <1>5, <3>2, <3>3, <3>4
  <2>3. QED BY <2>1, <2>2 DEF Begins
<1>8. ASSUME NEW j \in Begins(t) PROVE j < q <=> j <= i
  <2>1. j \in 1..Len(t) BY <1>1 DEF Begins
  <2>2. ASSUME j < q, ~(j <= i) PROVE FALSE
    <3>1. j \in (i + 1)..(q - 1) BY <1>1, <1>5, <2>1, <2>2
    <3>2. Whole(t, i, k) BY <1>6, <3>1
    <3>3. i \in 1..(j - 1) BY <1>1, <2>1, <2>2
    <3>4. i + k <= j BY <3>2, <3>3 DEF Begins
    <3>5. QED BY <1>1, <1>5, <2>1, <2>2, <3>4
  <2>3. QED BY <1>1, <1>5, <2>1, <2>2
<1>9. ASSUME NEW b \in (i + 1)..(q - 1) PROVE t[b] # NewLine
  <2>1. Follows(t[b]) BY <1>6
  <2>2. ~Follows(10) BY DEF Follows
  <2>3. QED BY ONLY <2>1, <2>2, Zenon DEF NewLine
<1>10. QED BY ONLY <1>2, <1>4, <1>5, <1>7, <1>8, <1>9, Zenon DEF NextIs

(* A line feed is one byte. *)
LEMMA AfterNewLine ==
  ASSUME NEW t \in Seq(1..255), NEW i \in DOMAIN t, t[i] = NewLine
  PROVE  Utf8DecodeOne(t, i).next = i + 1
<1>1. PICK d : d = Utf8DecodeOne(t, i) OBVIOUS
<1>2. PICK k \in 1..4 : /\ d.next = i + k
                        /\ \A m \in 1..4 : Whole(t, i, m) => m = k
  BY <1>1, DecoderDecodes, Zenon DEF Decodes
<1>3. Whole(t, i, 1)
  <2>1. t[i] < 128 BY DEF NewLine
  <2>2. QED BY <2>1, WholeOne
<1>4. 1 \in 1..4 OBVIOUS
<1>5. QED BY ONLY <1>1, <1>2, <1>3, <1>4, Zenon

(* A text with something in it begins with a character. *)
LEMMA FirstBegins ==
  ASSUME NEW t \in Seq(1..255), Len(t) > 0
  PROVE  1 \in Begins(t)
<1>1. 1 \in DOMAIN t BY LenProperties
<1>2. 1..(1 - 1) = {} OBVIOUS
<1>3. QED BY ONLY <1>1, <1>2 DEF Begins

----------------------------------------------------------------------------
(* The characters of a text, up to one of them *)

(* The characters that have been drawn before i. *)
Before(t, i) == {j \in Begins(t) : j < i}
\* And those of them that end a row.
BreaksBefore(t, i) == {j \in Before(t, i) : t[j] = NewLine \/ Wraps(t, j)}

(* These sets are finite. *)
LEMMA TextIsFinite ==
  ASSUME NEW t \in Seq(1..255), NEW i
  PROVE  /\ IsFiniteSet(Begins(t)) /\ IsFiniteSet(InLine(t, i))
         /\ IsFiniteSet(BreaksBefore(t, i)) /\ IsFiniteSet(Breaks(t, i))
         /\ Index(t, i) \in Nat /\ Row(t, i) \in Nat /\ Cardinality(BreaksBefore(t, i)) \in Nat
<1>1. IsFiniteSet(1..Len(t)) BY LenProperties, FS_Interval
<1>2. Begins(t) \in SUBSET (1..Len(t)) BY LenProperties DEF Begins
<1>3. IsFiniteSet(Begins(t)) BY <1>1, <1>2, FS_Subset
<1>4. InLine(t, i) \in SUBSET Begins(t) BY Zenon DEF InLine
<1>5. BreaksBefore(t, i) \in SUBSET Begins(t) BY Zenon DEF BreaksBefore, Before
<1>6. Breaks(t, i) \in SUBSET Begins(t) BY Zenon DEF Breaks
<1>7. IsFiniteSet(InLine(t, i)) /\ IsFiniteSet(BreaksBefore(t, i)) /\ IsFiniteSet(Breaks(t, i))
  BY <1>3, <1>4, <1>5, <1>6, FS_Subset
<1>8. QED BY <1>3, <1>7, FS_CardinalityType DEF Index, Row

(* The line of the next character. *)
LEMMA LineGoesOn ==
  ASSUME NEW t \in Seq(1..255), NEW i \in Begins(t), NEW q, NextIs(t, i, q)
  PROVE  Index(t, q) = IF t[i] = NewLine THEN 0 ELSE Index(t, i) + 1
<1>1. Len(t) \in Nat /\ DOMAIN t = 1..Len(t) /\ i \in 1..Len(t) /\ q \in (i + 1)..(Len(t) + 1)
  BY LenProperties DEF Begins, NextIs
<1>2. /\ \A j \in Begins(t) : j \in 1..Len(t) /\ (j < q <=> j <= i)
      /\ \A b \in (i + 1)..(q - 1) : t[b] # NewLine
  BY LenProperties DEF Begins, NextIs
<1>3. CASE t[i] = NewLine
  <2>1. ASSUME NEW j \in InLine(t, q) PROVE FALSE
    <3>1. j \in Begins(t) /\ j < q /\ \A b \in j..(q - 1) : t[b] # NewLine BY <2>1, Zenon DEF InLine
    <3>2. i \in j..(q - 1) BY <1>1, <1>2, <3>1
    <3>3. QED BY <1>3, <3>1, <3>2
  <2>2. InLine(t, q) = {} BY <2>1
  <2>3. QED BY <1>3, <2>2, FS_EmptySet DEF Index
<1>4. CASE t[i] # NewLine
  <2>1. i \notin InLine(t, i) BY <1>1 DEF InLine
  <2>2. ASSUME NEW j PROVE j \in InLine(t, q) <=> j \in InLine(t, i) \/ j = i
    <3>1. ASSUME j \in Begins(t), j < i
          PROVE  (\A b \in j..(q - 1) : t[b] # NewLine) <=> (\A b \in j..(i - 1) : t[b] # NewLine)
      <4>1. j \in 1..Len(t) BY <1>2, <3>1
      <4>2. ASSUME NEW b \in j..(q - 1) PROVE b \in j..(i - 1) \/ b = i \/ b \in (i + 1)..(q - 1)
        BY <1>1, <4>1
      <4>3. ASSUME NEW b \in j..(i - 1) PROVE b \in j..(q - 1) BY <1>1, <4>1
      <4>4. QED BY ONLY <1>2, <1>4, <4>2, <4>3, Zenon
    <3>2. i < q /\ \A b \in i..(q - 1) : t[b] # NewLine
      <4>1. i < q BY <1>1
      <4>2. ASSUME NEW b \in i..(q - 1) PROVE b = i \/ b \in (i + 1)..(q - 1) BY <1>1
      <4>3. QED BY ONLY <1>2, <1>4, <4>1, <4>2, Zenon
    <3>3. ASSUME j \in Begins(t) PROVE j < q <=> j < i \/ j = i BY <1>1, <1>2, <3>3
    <3>4. QED BY ONLY <3>1, <3>2, <3>3, i \in Begins(t), Zenon DEF InLine
  <2>3. InLine(t, q) = InLine(t, i) \cup {i} BY <2>2, Zenon
  <2>4. Cardinality(InLine(t, q)) = Cardinality(InLine(t, i)) + 1
    BY <2>1, <2>3, TextIsFinite, FS_AddElement
  <2>5. QED BY <1>4, <2>4 DEF Index
<1>5. QED BY <1>3, <1>4

(* The rows before the next character, and those up to this one. *)
LEMMA RowsGoOn ==
  ASSUME NEW t \in Seq(1..255), NEW i \in Begins(t), NEW q, NextIs(t, i, q)
  PROVE  /\ Cardinality(BreaksBefore(t, q)) =
              Cardinality(BreaksBefore(t, i)) + (IF t[i] = NewLine \/ Wraps(t, i) THEN 1 ELSE 0)
         /\ Row(t, i) = Cardinality(BreaksBefore(t, i)) + (IF Wraps(t, i) THEN 1 ELSE 0)
<1>1. Len(t) \in Nat /\ i \in 1..Len(t) /\ \A j \in Begins(t) : j \in 1..Len(t) /\ (j < q <=> j <= i)
  BY LenProperties DEF Begins, NextIs
<1>2. Before(t, q) = Before(t, i) \cup {i} /\ i \notin Before(t, i)
  <2>1. ~ (i < i) /\ \A j \in Begins(t) : j < q <=> j < i \/ j = i BY <1>1
  <2>2. QED BY ONLY <2>1, i \in Begins(t), Zenon DEF Before
<1>3. BreaksBefore(t, q) = BreaksBefore(t, i) \cup (IF t[i] = NewLine \/ Wraps(t, i) THEN {i} ELSE {})
  BY <1>2, Zenon DEF BreaksBefore
<1>4. i \notin BreaksBefore(t, i) BY <1>2 DEF BreaksBefore
<1>5. Breaks(t, i) = BreaksBefore(t, i) \cup (IF Wraps(t, i) THEN {i} ELSE {})
  <2>1. ASSUME NEW j PROVE j \in Breaks(t, i) <=> j \in BreaksBefore(t, i) \/ (j = i /\ Wraps(t, i))
    <3>1. Wraps(t, j) => t[j] # NewLine BY DEF Wraps
    <3>2. ASSUME j \in Begins(t) PROVE (j <= i <=> j < i \/ j = i) /\ ~ (i < i) BY <1>1, <3>2
    <3>3. CASE j \in Begins(t)
      <4>1. j \in Breaks(t, i) <=> IF t[j] = NewLine THEN j < i ELSE j <= i /\ Wraps(t, j)
        BY <3>3, Zenon DEF Breaks
      <4>2. j \in BreaksBefore(t, i) <=> j < i /\ (t[j] = NewLine \/ Wraps(t, j))
        BY <3>3, Zenon DEF BreaksBefore, Before
      <4>3. QED BY ONLY <3>1, <3>2, <3>3, <4>1, <4>2
    <3>4. CASE j \notin Begins(t)
      BY <3>4, Zenon DEF Breaks, BreaksBefore, Before
    <3>5. QED BY <3>3, <3>4
  <2>2. QED BY ONLY <2>1, Zenon
<1>6. /\ IsFiniteSet(BreaksBefore(t, i)) /\ Cardinality(BreaksBefore(t, i)) \in Nat
      /\ Cardinality(BreaksBefore(t, i) \cup {i}) = Cardinality(BreaksBefore(t, i)) + 1
  BY <1>4, TextIsFinite, FS_AddElement
<1>7. BreaksBefore(t, i) \cup {} = BreaksBefore(t, i) OBVIOUS
<1>8. PICK n \in Nat : n = Cardinality(BreaksBefore(t, i)) BY <1>6
<1>9. n + 0 = n BY <1>8
<1>10. Cardinality(BreaksBefore(t, q)) = n + (IF t[i] = NewLine \/ Wraps(t, i) THEN 1 ELSE 0)
  <2>1. CASE t[i] = NewLine \/ Wraps(t, i) BY ONLY <1>3, <1>6, <1>8, <2>1, Zenon
  <2>2. CASE ~ (t[i] = NewLine \/ Wraps(t, i)) BY ONLY <1>3, <1>7, <1>8, <1>9, <2>2, Zenon
  <2>3. QED BY <2>1, <2>2
<1>11. Row(t, i) = n + (IF Wraps(t, i) THEN 1 ELSE 0)
  <2>1. CASE Wraps(t, i) BY ONLY <1>5, <1>6, <1>8, <2>1, Zenon DEF Row
  <2>2. CASE ~Wraps(t, i) BY ONLY <1>5, <1>7, <1>8, <1>9, <2>2, Zenon DEF Row
  <2>3. QED BY <2>1, <2>2
<1>12. QED BY ONLY <1>8, <1>10, <1>11, Zenon

(* Rows only grow. *)
LEMMA RowsGrow ==
  ASSUME NEW t \in Seq(1..255), NEW i \in Begins(t), NEW j \in Begins(t), i <= j
  PROVE  Cardinality(BreaksBefore(t, i)) <= Row(t, j) /\ Row(t, i) <= Row(t, j)
<1>1. Len(t) \in Nat /\ i \in 1..Len(t) /\ j \in 1..Len(t) /\ \A b \in Begins(t) : b \in 1..Len(t)
  BY LenProperties DEF Begins
<1>2. ASSUME NEW b \in Begins(t) PROVE (b < i => b < j) /\ (b < i => b <= j) /\ (b <= i => b <= j)
  BY <1>1
<1>3. BreaksBefore(t, i) \in SUBSET Breaks(t, j)
  BY ONLY <1>2, Zenon DEF BreaksBefore, Before, Breaks
<1>4. Breaks(t, i) \in SUBSET Breaks(t, j)
  BY ONLY <1>2, Zenon DEF Breaks
<1>5. QED BY <1>3, <1>4, TextIsFinite, FS_Subset DEF Row

(* The place within a row, from that within a line. *)
LEMMA ModIs ==
  ASSUME NEW C \in Nat \ {0}, NEW k \in Nat, NEW r \in 0..(C - 1)
  PROVE  (C * k + r) % C = r
<1>1. PICK a : a = C * k + r OBVIOUS
<1>2. C * k \in Nat OBVIOUS
<1>3. a \in Nat BY <1>1, <1>2
<1>4. PICK q, m : q = a \div C /\ m = a % C OBVIOUS
<1>5. q \in Nat /\ m \in 0..(C - 1) /\ a = C * q + m BY <1>3, <1>4
<1>6. ASSUME NEW x \in Nat, NEW y \in Nat, x < y PROVE C * x + C <= C * y
  <2>1. PICK d \in Nat : y = x + 1 + d
    <3>1. y - x - 1 \in Nat /\ y = x + 1 + (y - x - 1) BY <1>6
    <3>2. QED BY <3>1
  <2>2. C * y = C * x + C + C * d /\ C * d \in Nat BY <2>1
  <2>3. C * x \in Nat /\ C * y \in Nat OBVIOUS
  <2>4. QED BY <2>2, <2>3
<1>7. C * q \in Nat BY <1>5
<1>8. ~ (q < k) BY <1>1, <1>2, <1>5, <1>6, <1>7
<1>9. ~ (k < q) BY <1>1, <1>2, <1>5, <1>6, <1>7
<1>10. q = k BY <1>5, <1>8, <1>9
<1>11. QED BY <1>1, <1>2, <1>4, <1>5, <1>10

(* How the column of the loop counts the characters of a line. *)
Counts(n, c) == \E k \in Nat : n = MaxCols * k + c /\ (n > 0 => c > 0)

(* A row is full when the next character wraps. *)
LEMMA WrapIsFull ==
  ASSUME NEW t \in Seq(1..255), NEW i \in Begins(t), t[i] # NewLine,
         NEW c \in 0..MaxCols, Counts(Index(t, i), c)
  PROVE  /\ Wraps(t, i) <=> c >= MaxCols
         /\ Column(t, i) = IF c >= MaxCols THEN 0 ELSE c
         /\ Counts(Index(t, i) + 1, Column(t, i) + 1) /\ Column(t, i) \in 0..(MaxCols - 1)
<1>1. MaxCols \in Nat \ {0} BY TextAssumption
<1>2. PICK n \in Nat : n = Index(t, i) BY TextIsFinite
<1>3. PICK k \in Nat : n = MaxCols * k + c /\ (n > 0 => c > 0) BY <1>2 DEF Counts
<1>4. MaxCols * k \in Nat BY <1>1
<1>5. CASE c >= MaxCols
  <2>1. c = MaxCols /\ n > 0 BY <1>1, <1>3, <1>4, <1>5
  <2>2. n = MaxCols * (k + 1) + 0 BY <1>1, <1>3, <2>1
  <2>3. k + 1 \in Nat /\ 0 \in 0..(MaxCols - 1) BY <1>1
  <2>4. n % MaxCols = 0 BY <1>1, <2>2, <2>3, ModIs
  <2>5. Column(t, i) = 0 /\ Wraps(t, i) BY <1>2, <2>1, <2>4 DEF Column, Wraps
  <2>6. n + 1 = MaxCols * (k + 1) + (0 + 1) /\ 0 + 1 > 0 BY <1>1, <2>2
  <2>7. Counts(n + 1, 0 + 1) BY <2>3, <2>6 DEF Counts
  <2>8. QED BY <1>2, <1>5, <2>3, <2>5, <2>7
<1>6. CASE c < MaxCols
  <2>1. c \in 0..(MaxCols - 1) BY <1>1, <1>6
  <2>2. n % MaxCols = c BY <1>1, <1>3, <2>1, ModIs
  <2>3. Column(t, i) = c /\ ~Wraps(t, i) BY <1>2, <1>3, <2>1, <2>2 DEF Column, Wraps
  <2>4. n + 1 = MaxCols * k + (c + 1) /\ c + 1 > 0 BY <1>1, <1>3, <1>4, <2>1
  <2>5. Counts(n + 1, c + 1) BY <2>4 DEF Counts
  <2>6. QED BY <1>1, <1>2, <1>6, <2>1, <2>3, <2>5
<1>7. QED BY <1>1, <1>5, <1>6

----------------------------------------------------------------------------
(* What is drawn of a text *)

(* The glyph that is drawn is the picture of the code point. *)
LEMMA PictureIsGlyph ==
  ASSUME NEW cp \in Nat
  PROVE  /\ Picture(cp) = IF GlyphFor(cp) = 0 THEN {} ELSE Zpix[GlyphFor(cp)].pixels
         /\ Picture(cp) \in SUBSET (Int \X Int)
<1> DEFINE Of(c) == {i \in DOMAIN Zpix : Zpix[i].codepoint = c}
<1>1. DOMAIN Zpix = 1..Len(Zpix) /\ Len(Zpix) \in Nat BY FontAssumption, LenProperties
<1>2. \A i \in DOMAIN Zpix : Zpix[i].codepoint \in Nat /\ Zpix[i].pixels \in SUBSET (Int \X Int)
  <2>1. ASSUME NEW i \in DOMAIN Zpix PROVE Zpix[i] \in [codepoint : Nat, pixels : SUBSET (Int \X Int)]
    <3>1. Zpix \in Seq([codepoint : Nat, pixels : SUBSET (Int \X Int)]) BY FontAssumption
    <3>2. i \in 1..Len(Zpix) BY <1>1
    <3>3. QED BY ONLY <3>1, <3>2, ElementOfSeq, Zenon
  <2>2. QED BY <2>1
<1>3. ASSUME NEW i \in DOMAIN Zpix, NEW j \in DOMAIN Zpix, Zpix[i].codepoint = Zpix[j].codepoint
      PROVE  i = j
  <2>1. i < j => Zpix[i].codepoint < Zpix[j].codepoint BY FontAssumption DEF Sorted
  <2>2. j < i => Zpix[j].codepoint < Zpix[i].codepoint BY FontAssumption DEF Sorted
  <2>3. QED BY <1>1, <1>2, <1>3, <2>1, <2>2
<1>4. ASSUME NEW c \in Nat
      PROVE  \/ Of(c) = {} /\ FindGlyph(c) = 0
             \/ Of(c) = {FindGlyph(c)} /\ FindGlyph(c) \in DOMAIN Zpix /\ FindGlyph(c) # 0
  <2>1. CASE \E i \in DOMAIN Zpix : Zpix[i].codepoint = c
    <3>1. FindGlyph(c) \in DOMAIN Zpix /\ Zpix[FindGlyph(c)].codepoint = c BY <2>1, GlyphIsFound
    <3>2. Of(c) = {FindGlyph(c)} BY <1>3, <3>1
    <3>3. FindGlyph(c) # 0 BY <1>1, <3>1
    <3>4. QED BY <3>1, <3>2, <3>3
  <2>2. CASE ~ \E i \in DOMAIN Zpix : Zpix[i].codepoint = c
    <3>1. FindGlyph(c) = 0 BY <2>2, GlyphIsFound
    <3>2. QED BY <2>2, <3>1
  <2>3. QED BY <2>1, <2>2
<1>5. Picture(cp) = UNION {Zpix[i].pixels : i \in IF Of(cp) # {} THEN Of(cp) ELSE Of(QuestionMark)}
  BY DEF Picture
<1> HIDE DEF Of
<1>6. QuestionMark \in Nat BY DEF QuestionMark
<1>7. \A g : UNION {Zpix[i].pixels : i \in {g}} = Zpix[g].pixels OBVIOUS
<1>8. UNION {Zpix[i].pixels : i \in {}} = {} OBVIOUS
<1>9. Picture(cp) = IF GlyphFor(cp) = 0 THEN {} ELSE Zpix[GlyphFor(cp)].pixels
  <2>1. CASE Of(cp) # {}
    <3>1. Of(cp) = {FindGlyph(cp)} /\ FindGlyph(cp) # 0 BY <1>4, <2>1
    <3>2. GlyphFor(cp) = FindGlyph(cp) BY <3>1 DEF GlyphFor
    <3>3. QED BY <1>5, <1>7, <3>1, <3>2
  <2>2. CASE Of(cp) = {}
    <3>1. FindGlyph(cp) = 0 BY <1>4, <2>2
    <3>2. GlyphFor(cp) = FindGlyph(QuestionMark) BY <3>1 DEF GlyphFor
    <3>3. Picture(cp) = UNION {Zpix[i].pixels : i \in Of(QuestionMark)} BY <1>5, <2>2
    <3>4. CASE Of(QuestionMark) = {}
      <4>1. FindGlyph(QuestionMark) = 0 BY <1>4, <1>6, <3>4
      <4>2. QED BY <1>8, <3>2, <3>3, <3>4, <4>1
    <3>5. CASE Of(QuestionMark) # {}
      <4>1. Of(QuestionMark) = {FindGlyph(QuestionMark)} /\ FindGlyph(QuestionMark) # 0 BY <1>4, <1>6, <3>5
      <4>2. QED BY <1>7, <3>2, <3>3, <4>1
    <3>6. QED BY <3>4, <3>5
  <2>3. QED BY <2>1, <2>2
<1>10. GlyphFor(cp) # 0 => GlyphFor(cp) \in DOMAIN Zpix BY <1>4, <1>6 DEF GlyphFor
<1>11. QED BY <1>2, <1>9, <1>10

(* Points painted on a screen. *)
LEMMA PaintedOnScreen ==
  ASSUME NEW S \in SUBSET (Int \X Int), NEW points \in SUBSET (Int \X Int)
  PROVE  SetPixels(OnScreen(S), points, TRUE) = OnScreen(S \cup points)
<1> DEFINE screen == (0..(EPD_WIDTH - 1)) \X (0..(EPD_HEIGHT - 1))
           inside == {q \in points : q[1] >= 0 /\ q[1] < EPD_WIDTH /\ q[2] >= 0 /\ q[2] < EPD_HEIGHT}
           Of(A) == {q[2] * EPD_WIDTH + q[1] : q \in A}
<1>1. EPD_WIDTH \in Nat /\ EPD_HEIGHT \in Nat BY DisplayAssumption
<1>2. inside = points \cap screen
  <2>1. ASSUME NEW q \in points
        PROVE  (q[1] >= 0 /\ q[1] < EPD_WIDTH /\ q[2] >= 0 /\ q[2] < EPD_HEIGHT) <=> q \in screen
    BY <1>1
  <2>2. QED BY <2>1
<1>3. SetPixels(OnScreen(S), points, TRUE) = OnScreen(S) \cup Of(inside) BY DEF SetPixels
<1>4. OnScreen(S) = Of(S \cap screen) /\ OnScreen(S \cup points) = Of((S \cup points) \cap screen)
  BY DEF OnScreen
<1>5. (S \cup points) \cap screen = (S \cap screen) \cup (points \cap screen) OBVIOUS
<1> HIDE DEF screen
<1>6. Of((S \cap screen) \cup (points \cap screen)) = Of(S \cap screen) \cup Of(points \cap screen)
  OBVIOUS
<1> HIDE DEF inside, Of
<1>7. QED BY ONLY <1>2, <1>3, <1>4, <1>5, <1>6, Zenon

\* The pixels of the characters before i.
PageTo(t, i, gap) == UNION {Cell(t, j, gap) : j \in Before(t, i)}

(* How far a page has been laid out when the loop is at byte i: what it has
   drawn, and that it counts columns and rows as the page does.  When the
   next character would be below the last row, so is the rest. *)
Laying(t, i, f, c, r, gap) ==
  /\ i \in Begins(t) \cup {Len(t) + 1}
  /\ f = OnScreen(PageTo(t, i, gap))
  /\ \/ r = Cardinality(BreaksBefore(t, i)) /\ Counts(Index(t, i), c)
     \/ i \in Begins(t) /\ r >= MaxRows /\ Row(t, i) >= MaxRows

(* What is drawn are points. *)
LEMMA CellIsPoints ==
  ASSUME NEW t \in Seq(1..255), NEW i \in Begins(t), NEW gap \in [line : Nat, column : Nat]
  PROVE  Cell(t, i, gap) \in SUBSET (Int \X Int)
<1>1. i \in DOMAIN t BY DEF Begins
<1>2. CodePoint(t, i) \in Nat BY <1>1, DecoderStaysInText, DecoderDecodes DEF Decodes
<1>3. PICK picture \in SUBSET (Int \X Int) : picture = Picture(CodePoint(t, i)) BY <1>2, PictureIsGlyph
<1>4. MaxCols \in Nat \ {0} /\ TextX \in Int /\ TextY \in Int /\ CellSize \in Nat
  BY TextAssumption, FontAssumption
<1>5. PICK c \in Int, r \in Int : c = Column(t, i) /\ r = Row(t, i)
  BY <1>4, TextIsFinite DEF Column
<1>6. gap.line \in Nat /\ gap.column \in Nat OBVIOUS
<1>7. c * (CellSize + gap.column) \in Int /\ r * (CellSize + gap.line) \in Int BY <1>4, <1>5, <1>6
<1>8. TextX + c * (CellSize + gap.column) \in Int /\ TextY + r * (CellSize + gap.line) \in Int BY <1>4, <1>7
<1>9. Moved(picture, TextX + c * (CellSize + gap.column), TextY + r * (CellSize + gap.line)) \in SUBSET (Int \X Int)
  BY <1>8, MovedCovers
<1>10. Cell(t, i, gap) = {}
       \/ Cell(t, i, gap) = Moved(picture, TextX + c * (CellSize + gap.column), TextY + r * (CellSize + gap.line))
  BY <1>3, <1>5, Zenon DEF Cell
<1>11. {} \in SUBSET (Int \X Int) OBVIOUS
<1>12. QED BY ONLY <1>9, <1>10, <1>11, Zenon

(* One more character. *)
LEMMA PageGoesOn ==
  ASSUME NEW t \in Seq(1..255), NEW i \in Begins(t), NEW q, NextIs(t, i, q),
         NEW gap \in [line : Nat, column : Nat]
  PROVE  /\ PageTo(t, q, gap) = PageTo(t, i, gap) \cup Cell(t, i, gap)
         /\ PageTo(t, i, gap) \in SUBSET (Int \X Int)
         /\ q \in Begins(t) \cup {Len(t) + 1}
<1>1. Len(t) \in Nat /\ i \in 1..Len(t) /\ q \in (i + 1)..(Len(t) + 1)
      /\ \A j \in Begins(t) : j \in 1..Len(t) /\ (j < q <=> j <= i)
  BY LenProperties DEF Begins, NextIs
<1>2. Before(t, q) = Before(t, i) \cup {i}
  <2>1. \A j \in Begins(t) : j < q <=> j < i \/ j = i BY <1>1
  <2>2. QED BY ONLY <2>1, i \in Begins(t), Zenon DEF Before
<1>3. PageTo(t, q, gap) = PageTo(t, i, gap) \cup Cell(t, i, gap) BY ONLY <1>2 DEF PageTo
<1>4. Before(t, i) \subseteq Begins(t) BY DEF Before
<1>5. \A j \in Before(t, i) : Cell(t, j, gap) \in SUBSET (Int \X Int) BY <1>4, CellIsPoints
<1>6. PageTo(t, i, gap) \in SUBSET (Int \X Int) BY ONLY <1>5 DEF PageTo
<1>7. q <= Len(t) \/ q = Len(t) + 1 BY <1>1
<1>8. QED BY <1>3, <1>6, <1>7 DEF NextIs

(* A page begins with nothing. *)
LEMMA LayingBegins ==
  ASSUME NEW t \in Seq(1..255), NEW gap
  PROVE  Laying(t, 1, {}, 0, 0, gap)
<1>1. Len(t) \in Nat /\ \A j \in Begins(t) : j \in 1..Len(t) BY LenProperties DEF Begins
<1>2. 1 \in Begins(t) \cup {Len(t) + 1}
  <2>1. CASE Len(t) > 0 BY <2>1, FirstBegins
  <2>2. CASE Len(t) = 0
    <3>1. Len(t) + 1 = 1 BY <2>2
    <3>2. QED BY <3>1
  <2>3. QED BY <1>1, <2>1, <2>2
<1>3. \A j \in Begins(t) : ~ (j < 1) BY <1>1
<1>4. Before(t, 1) = {} /\ BreaksBefore(t, 1) = {} /\ InLine(t, 1) = {}
  BY ONLY <1>3, Zenon DEF Before, BreaksBefore, InLine
<1>5. PageTo(t, 1, gap) = {} /\ OnScreen({}) = {} BY <1>4 DEF PageTo, OnScreen
<1>6. Cardinality(BreaksBefore(t, 1)) = 0 /\ Index(t, 1) = 0 BY <1>4, FS_EmptySet DEF Index
<1>7. Counts(0, 0)
  <2>1. MaxCols \in Nat BY TextAssumption
  <2>2. 0 = MaxCols * 0 + 0 /\ 0 \in Nat /\ ~ (0 > 0) BY <2>1
  <2>3. QED BY <2>2 DEF Counts
<1>8. QED BY ONLY <1>2, <1>5, <1>6, <1>7, Zenon DEF Laying

(* A line feed draws nothing and begins a row. *)
LEMMA LayingNewLine ==
  ASSUME NEW t \in Seq(1..255), NEW i \in Begins(t), t[i] = NewLine, NEW f, NEW c, NEW r \in Nat,
         NEW gap \in [line : Nat, column : Nat], r < MaxRows, Laying(t, i, f, c, r, gap)
  PROVE  Laying(t, i + 1, f, 0, r + 1, gap)
<1>1. MaxRows \in Nat /\ i \in DOMAIN t BY TextAssumption DEF Begins
<1>2. PICK q : q = i + 1 OBVIOUS
<1>3. NextIs(t, i, q) BY <1>1, <1>2, NextBegins, AfterNewLine
<1>4. f = OnScreen(PageTo(t, i, gap)) /\ r = Cardinality(BreaksBefore(t, i)) BY <1>1 DEF Laying
<1>5. Cell(t, i, gap) = {} BY DEF Cell
<1>6. PageTo(t, q, gap) = PageTo(t, i, gap) /\ q \in Begins(t) \cup {Len(t) + 1}
  <2>1. /\ PageTo(t, q, gap) = PageTo(t, i, gap) \cup Cell(t, i, gap)
        /\ q \in Begins(t) \cup {Len(t) + 1}
    BY <1>3, PageGoesOn
  <2>2. QED BY ONLY <1>5, <2>1
<1>7. Cardinality(BreaksBefore(t, q)) = r + 1 BY <1>3, <1>4, RowsGoOn
<1>8. Index(t, q) = 0 BY <1>3, LineGoesOn
<1>9. Counts(0, 0)
  <2>1. MaxCols \in Nat BY TextAssumption
  <2>2. 0 = MaxCols * 0 + 0 /\ 0 \in Nat /\ ~ (0 > 0) BY <2>1
  <2>3. QED BY <2>2 DEF Counts
<1>10. QED BY ONLY <1>2, <1>4, <1>6, <1>7, <1>8, <1>9, Zenon DEF Laying

(* The row and the column where the loop draws a character are those of the page. *)
LEMMA PlaceIsRight ==
  ASSUME NEW t \in Seq(1..255), NEW i \in Begins(t), t[i] # NewLine, NEW f, NEW c \in 0..MaxCols, NEW r \in Nat,
         NEW gap, r < MaxRows, Laying(t, i, f, c, r, gap)
  PROVE  /\ Column(t, i) = IF c >= MaxCols THEN 0 ELSE c
         /\ Row(t, i) = IF c >= MaxCols THEN r + 1 ELSE r
         /\ Counts(Index(t, i) + 1, Column(t, i) + 1)
         /\ \A q : NextIs(t, i, q) => Cardinality(BreaksBefore(t, q)) = Row(t, i) /\ Index(t, q) = Index(t, i) + 1
<1>1. MaxRows \in Nat /\ MaxCols \in Nat BY TextAssumption
<1>2. r = Cardinality(BreaksBefore(t, i)) /\ Counts(Index(t, i), c) BY <1>1 DEF Laying
<1>3. /\ Wraps(t, i) <=> c >= MaxCols
      /\ Column(t, i) = IF c >= MaxCols THEN 0 ELSE c
      /\ Counts(Index(t, i) + 1, Column(t, i) + 1)
  BY <1>2, WrapIsFull
<1>4. NextIs(t, i, Utf8DecodeOne(t, i).next) BY NextBegins
<1>5. Row(t, i) = r + (IF Wraps(t, i) THEN 1 ELSE 0) BY <1>2, <1>4, RowsGoOn
<1>6. Row(t, i) = IF c >= MaxCols THEN r + 1 ELSE r BY <1>3, <1>5
<1>7. ASSUME NEW q, NextIs(t, i, q)
      PROVE  Cardinality(BreaksBefore(t, q)) = Row(t, i) /\ Index(t, q) = Index(t, i) + 1
  BY <1>2, <1>5, <1>7, RowsGoOn, LineGoesOn
<1>8. QED BY ONLY <1>3, <1>6, <1>7, Zenon

(* A character is drawn in its cell. *)
LEMMA LayingGlyph ==
  ASSUME NEW t \in Seq(1..255), NEW i \in Begins(t), t[i] # NewLine, NEW f, NEW c \in 0..MaxCols, NEW r \in Nat,
         NEW gap \in [line : Nat, column : Nat], r < MaxRows, Laying(t, i, f, c, r, gap),
         Row(t, i) < MaxRows, NEW d, d = Utf8DecodeOne(t, i)
  PROVE  Laying(t, d.next,
                DrawGlyph12(f, TextX + Column(t, i) * (CellSize + gap.column),
                            TextY + Row(t, i) * (CellSize + gap.line), GlyphFor(d.cp), TRUE),
                Column(t, i) + 1, Row(t, i), gap)
<1>1. i \in DOMAIN t BY DEF Begins
<1>2. d.cp = CodePoint(t, i) /\ d.cp \in Nat BY <1>1, DecoderStaysInText, DecoderDecodes DEF Decodes
<1>3. PICK q : q = d.next OBVIOUS
<1>4. NextIs(t, i, q) BY <1>3, NextBegins
<1>5. /\ Cardinality(BreaksBefore(t, q)) = Row(t, i) /\ Index(t, q) = Index(t, i) + 1
      /\ Counts(Index(t, i) + 1, Column(t, i) + 1)
  BY <1>4, PlaceIsRight
<1>6. /\ PageTo(t, q, gap) = PageTo(t, i, gap) \cup Cell(t, i, gap)
      /\ PageTo(t, i, gap) \in SUBSET (Int \X Int)
      /\ q \in Begins(t) \cup {Len(t) + 1}
  BY <1>4, PageGoesOn
<1>7. Cell(t, i, gap) \in SUBSET (Int \X Int) BY CellIsPoints
<1>8. f = OnScreen(PageTo(t, i, gap)) BY DEF Laying
<1>9. PICK x, y : x = TextX + Column(t, i) * (CellSize + gap.column) /\ y = TextY + Row(t, i) * (CellSize + gap.line)
  OBVIOUS
<1>10. Cell(t, i, gap) = Moved(Picture(d.cp), x, y)
  <2>1. ~ (Row(t, i) >= MaxRows)
    <3>1. Row(t, i) \in Nat /\ MaxRows \in Nat BY TextIsFinite, TextAssumption
    <3>2. QED BY <3>1
  <2>2. QED BY ONLY <1>2, <1>9, <2>1, t[i] # NewLine, Zenon DEF Cell
<1>11. DrawGlyph12(f, x, y, GlyphFor(d.cp), TRUE) = OnScreen(PageTo(t, i, gap) \cup Cell(t, i, gap))
  <2>1. Picture(d.cp) = IF GlyphFor(d.cp) = 0 THEN {} ELSE Zpix[GlyphFor(d.cp)].pixels
    BY <1>2, PictureIsGlyph
  <2>2. CASE GlyphFor(d.cp) = 0
    <3>1. Cell(t, i, gap) = {} BY <1>10, <2>1, <2>2 DEF Moved
    <3>2. DrawGlyph12(f, x, y, GlyphFor(d.cp), TRUE) = f BY <2>2 DEF DrawGlyph12
    <3>3. QED BY <1>8, <3>1, <3>2
  <2>3. CASE GlyphFor(d.cp) # 0
    <3>1. DrawGlyph12(f, x, y, GlyphFor(d.cp), TRUE) = SetPixels(f, Cell(t, i, gap), TRUE)
      BY <1>10, <2>1, <2>3, Zenon DEF DrawGlyph12
    <3>2. QED BY ONLY <1>6, <1>7, <1>8, <3>1, PaintedOnScreen, Zenon
  <2>4. QED BY <2>2, <2>3
<1>12. Laying(t, q, DrawGlyph12(f, x, y, GlyphFor(d.cp), TRUE), Column(t, i) + 1, Row(t, i), gap)
  BY ONLY <1>5, <1>6, <1>11, Zenon DEF Laying
<1>13. QED BY <1>3, <1>9, <1>12, Zenon

\* The page.
WholePage(t, gap) == OnScreen(UNION {Cell(t, j, gap) : j \in Begins(t)})

(* When the loop ends, the page is there: what it has left out is below the last row. *)
LEMMA LayingEnds ==
  ASSUME NEW t \in Seq(1..255), NEW i, NEW f, NEW c, NEW r \in Nat, NEW gap,
         Laying(t, i, f, c, r, gap), i > Len(t) \/ r >= MaxRows
  PROVE  f = WholePage(t, gap)
<1>1. Len(t) \in Nat /\ MaxRows \in Nat /\ \A j \in Begins(t) : j \in 1..Len(t)
  BY LenProperties, TextAssumption DEF Begins
<1>2. ASSUME NEW j \in Begins(t), j \notin Before(t, i) PROVE Cell(t, j, gap) = {}
  <2>1. ~ (j < i) BY <1>2 DEF Before
  <2>2. i \in Begins(t) /\ i <= j /\ r >= MaxRows
    <3>1. i \in Begins(t) \cup {Len(t) + 1} BY DEF Laying
    <3>2. QED BY <1>1, <2>1, <3>1
  <2>3. Cardinality(BreaksBefore(t, i)) <= Row(t, j) /\ Row(t, i) <= Row(t, j)
    BY <2>2, RowsGrow
  <2>4. r = Cardinality(BreaksBefore(t, i)) \/ Row(t, i) >= MaxRows BY Zenon DEF Laying
  <2>5. Row(t, i) \in Nat /\ Row(t, j) \in Nat /\ Cardinality(BreaksBefore(t, i)) \in Nat BY TextIsFinite
  <2>6. Row(t, j) >= MaxRows BY <1>1, <2>2, <2>3, <2>4, <2>5
  <2>7. QED BY <2>6, Zenon DEF Cell
<1>3. Before(t, i) \subseteq Begins(t) BY DEF Before
<1>4. PageTo(t, i, gap) = UNION {Cell(t, j, gap) : j \in Begins(t)}
  BY ONLY <1>2, <1>3 DEF PageTo
<1>5. QED BY <1>4, Zenon DEF Laying, WholePage

(* What the loop of epd_fb_draw_utf8_text12 keeps. *)
Laid == pc = "text" => Laying(text, p, fb, col, row, spacing)

(* Every turn of it. *)
LEMMA LaidKept == Types /\ Laid /\ [Next]_vars => Laid'
<1> SUFFICES ASSUME Types, Laid, [Next]_vars, pc' = "text"
             PROVE  Laying(text', p', fb', col', row', spacing')
  BY DEF Laid
<1>1. BeginPage \/ DrawNewLine \/ DrawGlyph \/ PanelIdle \/ UNCHANGED vars
  <2>1. WriteByte \/ PollBusy \/ PollFails \/ WaitTimesOut \/ PinsConfigured \/ ResetPanel => pc' \in {"io", "idle"}
    BY DEF WriteByte, PollBusy, PollFails, WaitTimesOut, PinsConfigured, ResetPanel, InScript, Succeeds, Fails
  <2>2. TextEnds \/ DrawShape \/ ShapeEnds \/ ScriptEnds => pc' # "text"
    BY DEF TextEnds, DrawShape, ShapeEnds, ScriptEnds, Present
  <2>3. AppCalls \/ MainCalls => pc' # "text"
    BY DEF AppCalls, MainCalls, DriverInit, Clear, ShowDemo, ShowGrayscale, ShowChineseDemo, Present
  <2>4. MainLights \/ Breathe \/ (\E line, column \in Spacings : SetSpacing(line, column)) => pc' # "text"
    BY DEF MainLights, Breathe, SetSpacing, Idle
  <2>5. QED BY <2>1, <2>2, <2>3, <2>4, Zenon DEF Next, Drive
<1>2. MaxCols \in Nat /\ MaxRows \in Nat BY TextAssumption
<1>3. /\ text \in Seq(1..255) /\ p \in 1..(Len(text) + 1) /\ spacing \in [line : Nat, column : Nat]
      /\ col \in 0..MaxCols /\ row \in 0..MaxRows /\ row \in Nat
  BY <1>2 DEF Types, DrawTypes
<1>4. CASE BeginPage
  <2>1. fb' = FbClear(FALSE) /\ text' \in {text, NextPage} /\ p' = 1 /\ col' = 0 /\ row' = 0
    BY <1>4 DEF BeginPage
  <2>2. text' \in Seq(1..255) BY <1>3, <2>1, TextAssumption
  <2>3. fb' = {} BY <2>1 DEF FbClear
  <2>4. QED BY <2>1, <2>2, <2>3, LayingBegins
<1>5. ASSUME TextGoesOn
      PROVE  /\ Laying(text, p, fb, col, row, spacing) /\ row < MaxRows
             /\ p \in Begins(text)
  <2>1. Laying(text, p, fb, col, row, spacing) BY <1>5 DEF TextGoesOn, Laid
  <2>2. row < MaxRows /\ p <= Len(text) BY <1>5 DEF TextGoesOn
  <2>3. Len(text) \in Nat BY <1>3, LenProperties
  <2>4. QED BY <1>3, <2>1, <2>2, <2>3 DEF Laying
<1>6. CASE DrawNewLine
  <2>1. /\ TextGoesOn /\ text[p] = NewLine /\ p' = p + 1 /\ col' = 0 /\ row' = row + 1
        /\ fb' = fb /\ text' = text /\ spacing' = spacing
    BY <1>6 DEF DrawNewLine
  <2>2. QED BY <1>3, <1>5, <2>1, LayingNewLine
<1>7. CASE DrawGlyph
  <2> DEFINE c == IF col >= MaxCols THEN 0 ELSE col
             r == IF col >= MaxCols THEN row + 1 ELSE row
  <2>1. PICK d : d = Utf8DecodeOne(text, p) OBVIOUS
  <2>2. /\ TextGoesOn /\ text[p] # NewLine /\ row' = r /\ text' = text /\ spacing' = spacing
        /\ IF r >= MaxRows
             THEN col' = c /\ fb' = fb /\ p' = p
             ELSE /\ fb' = DrawGlyph12(fb, TextX + c * ColPitch, TextY + r * LinePitch, GlyphFor(d.cp), TRUE)
                  /\ p' = d.next /\ col' = c + 1
    BY <1>7, <2>1 DEF DrawGlyph
  <2>3. Laying(text, p, fb, col, row, spacing) /\ row < MaxRows /\ p \in Begins(text) BY <1>5, <2>2
  <2>4. Column(text, p) = c /\ Row(text, p) = r BY <1>3, <2>2, <2>3, PlaceIsRight
  <2>5. ColPitch = CellSize + spacing.column /\ LinePitch = CellSize + spacing.line
    BY <1>3 DEF ColPitch, LinePitch, Larger
  <2>6. Row(text, p) \in Nat BY <1>3, TextIsFinite
  <2> HIDE DEF c, r
  <2>7. CASE r >= MaxRows
    <3>1. Laying(text, p, fb, c, r, spacing) BY ONLY <2>3, <2>4, <2>7, Zenon DEF Laying
    <3>2. QED BY <2>2, <2>7, <3>1
  <2>8. CASE ~ (r >= MaxRows)
    <3>1. Row(text, p) < MaxRows BY <1>2, <2>4, <2>6, <2>8
    <3>2. Laying(text, d.next,
                 DrawGlyph12(fb, TextX + Column(text, p) * (CellSize + spacing.column),
                             TextY + Row(text, p) * (CellSize + spacing.line), GlyphFor(d.cp), TRUE),
                 Column(text, p) + 1, Row(text, p), spacing)
      BY ONLY <1>3, <2>1, <2>2, <2>3, <3>1, LayingGlyph, Zenon
    <3>3. QED BY ONLY <2>2, <2>4, <2>5, <2>8, <3>2, Zenon
  <2>9. QED BY <2>7, <2>8
<1>8. CASE PanelIdle \/ UNCHANGED vars
  <2>1. UNCHANGED <<drawVars, pc>> BY <1>8 DEF PanelIdle, vars
  <2>2. pc = "text" /\ fb' = fb /\ text' = text /\ p' = p /\ col' = col /\ row' = row /\ spacing' = spacing
    BY <2>1 DEF drawVars
  <2>3. QED BY <2>2 DEF Laid
<1>9. QED BY <1>1, <1>4, <1>6, <1>7, <1>8

(* A page that has been drawn is the picture of its text, character by character, for
   any text, font, spacing and place of the page: the loop decodes, wraps and clips as
   the whole text demands (epd200x200.c:208-352). *)
THEOREM PageLaidOut == Spec => []TextIsLaidOut
<1>1. Init => Laid BY DEF Init, Laid
<1>2. Types /\ Laid => TextIsLaidOut
  <2> SUFFICES ASSUME Types, Laid, pc = "text", ~TextGoesOn
               PROVE  fb = OnScreen(UNION {Cell(text, i, spacing) : i \in Begins(text)})
    BY DEF TextIsLaidOut
  <2>1. /\ text \in Seq(1..255) /\ p \in 1..(Len(text) + 1) /\ row \in 0..MaxRows /\ MaxRows \in Nat
    BY TextAssumption DEF Types, DrawTypes
  <2>2. Len(text) \in Nat /\ row \in Nat BY <2>1, LenProperties
  <2>3. Laying(text, p, fb, col, row, spacing) BY DEF Laid
  <2>4. p > Len(text) \/ row >= MaxRows BY <2>1, <2>2 DEF TextGoesOn
  <2>5. fb = WholePage(text, spacing) BY ONLY <2>1, <2>2, <2>3, <2>4, LayingEnds
  <2>6. QED BY <2>5, Zenon DEF WholePage
<1>3. QED BY <1>1, <1>2, TypesInvariance, LaidKept, PTL DEF Spec

----------------------------------------------------------------------------
(* The picture that is shown *)

Bytes8 == EPD_WIDTH \div 8                       \* the bytes of a row

(* The operations of epd_present_framebuf, one by one. *)
LEMMA PresentOps ==
  /\ PresentFramebuf[1] = Command(\h44) /\ PresentFramebuf[2] = Byte(0)
  /\ PresentFramebuf[3] = Byte(Bytes8 - 1)
  /\ PresentFramebuf[4] = Command(\h45) /\ PresentFramebuf[5] = Byte(0) /\ PresentFramebuf[6] = Byte(0)
  /\ PresentFramebuf[7] = Byte(EPD_HEIGHT - 1) /\ PresentFramebuf[8] = Byte(0)
  /\ PresentFramebuf[9] = Command(\h4E) /\ PresentFramebuf[10] = Byte(0)
  /\ PresentFramebuf[11] = Command(\h4F) /\ PresentFramebuf[12] = Byte(0) /\ PresentFramebuf[13] = Byte(0)
  /\ PresentFramebuf[14] = Command(\h24)
  /\ \A i \in 0..(EPD_FB_SIZE - 1) : PresentFramebuf[15 + i] = Byte(i)
  /\ PresentFramebuf[EPD_FB_SIZE + 15] = Command(\h22)
  /\ PresentFramebuf[EPD_FB_SIZE + 16] = Byte(\hF7)
  /\ PresentFramebuf[EPD_FB_SIZE + 17] = Command(\h20)
  /\ PresentFramebuf[EPD_FB_SIZE + 18] = WaitIdle
<1>0. EPD_FB_SIZE \in Nat BY FrameSize
<1>1. \A i \in 1..8 : PresentFramebuf[i] = SetRamFullWindow[i] BY PresentScript
<1>2. /\ SetRamFullWindow[1] = Command(\h44) /\ SetRamFullWindow[2] = Byte(0)
      /\ SetRamFullWindow[3] = Byte(Bytes8 - 1)
      /\ SetRamFullWindow[4] = Command(\h45) /\ SetRamFullWindow[5] = Byte(0)
      /\ SetRamFullWindow[6] = Byte(0)
      /\ SetRamFullWindow[7] = Byte(EPD_HEIGHT - 1) /\ SetRamFullWindow[8] = Byte(0)
  BY BytesAreNat DEF SetRamFullWindow, Bytes8
<1>3. \A i \in 1..5 : PresentFramebuf[8 + i] = SetRamCursorOrigin[i] BY PresentScript
<1>4. /\ SetRamCursorOrigin[1] = Command(\h4E) /\ SetRamCursorOrigin[2] = Byte(0)
      /\ SetRamCursorOrigin[3] = Command(\h4F) /\ SetRamCursorOrigin[4] = Byte(0)
      /\ SetRamCursorOrigin[5] = Byte(0)
  BY DEF SetRamCursorOrigin
<1>5. /\ PresentFramebuf[8 + 1] = Command(\h4E) /\ PresentFramebuf[8 + 2] = Byte(0)
      /\ PresentFramebuf[8 + 3] = Command(\h4F) /\ PresentFramebuf[8 + 4] = Byte(0)
      /\ PresentFramebuf[8 + 5] = Byte(0)
  BY <1>3, <1>4
<1>6. ASSUME NEW i \in 0..(EPD_FB_SIZE - 1) PROVE PresentFramebuf[15 + i] = Byte(i)
  <2>1. i + 1 \in 1..EPD_FB_SIZE /\ 14 + (i + 1) = 15 + i /\ (i + 1) - 1 = i BY <1>0
  <2>2. PresentFramebuf[14 + (i + 1)] = Byte((i + 1) - 1) BY <2>1, PresentScript
  <2>3. QED BY <2>1, <2>2
<1>7. \A i \in 1..4 : PresentFramebuf[EPD_FB_SIZE + 14 + i] = UpdateDisplay[i] BY PresentScript
<1>8. /\ UpdateDisplay[1] = Command(\h22) /\ UpdateDisplay[2] = Byte(\hF7)
      /\ UpdateDisplay[3] = Command(\h20) /\ UpdateDisplay[4] = WaitIdle
  BY DEF UpdateDisplay
<1>9. /\ EPD_FB_SIZE + 14 + 1 = EPD_FB_SIZE + 15 /\ EPD_FB_SIZE + 14 + 2 = EPD_FB_SIZE + 16
      /\ EPD_FB_SIZE + 14 + 3 = EPD_FB_SIZE + 17 /\ EPD_FB_SIZE + 14 + 4 = EPD_FB_SIZE + 18
  BY <1>0
<1>10. /\ PresentFramebuf[EPD_FB_SIZE + 15] = Command(\h22)
       /\ PresentFramebuf[EPD_FB_SIZE + 16] = Byte(\hF7)
       /\ PresentFramebuf[EPD_FB_SIZE + 17] = Command(\h20)
       /\ PresentFramebuf[EPD_FB_SIZE + 18] = WaitIdle
  BY <1>7, <1>8, <1>9
<1>11. /\ PresentFramebuf[1] = Command(\h44) /\ PresentFramebuf[2] = Byte(0)
       /\ PresentFramebuf[3] = Byte(Bytes8 - 1)
       /\ PresentFramebuf[4] = Command(\h45) /\ PresentFramebuf[5] = Byte(0)
       /\ PresentFramebuf[6] = Byte(0)
       /\ PresentFramebuf[7] = Byte(EPD_HEIGHT - 1) /\ PresentFramebuf[8] = Byte(0)
  BY <1>1, <1>2
<1>12. /\ PresentFramebuf[9] = Command(\h4E) /\ PresentFramebuf[10] = Byte(0)
       /\ PresentFramebuf[11] = Command(\h4F) /\ PresentFramebuf[12] = Byte(0)
       /\ PresentFramebuf[13] = Byte(0)
  BY <1>5
<1>13. PresentFramebuf[14] = Command(\h24) BY PresentScript
<1>14. QED BY <1>6, <1>10, <1>11, <1>12, <1>13

(* What a panel e has kept of a panel d: everything but the command, the
   arguments of register r and the cursor. *)
KeepsBut(e, d, r) ==
  /\ e.busy = d.busy /\ e.ram = d.ram /\ e.shown = d.shown
  /\ \A q \in Registers \ {r}, j \in Nat \ {0} : Arg(e, q, j) = Arg(d, q, j)

(* A command that is not lost starts a register and disturbs nothing else. *)
LEMMA CommandSent ==
  ASSUME NEW d \in PanelType, ~d.busy, NEW c \in Registers \cup {\h24}, NEW e, e = PanelCommand(d, c)
  PROVE  /\ e.cmd = c /\ e.cursor = d.cursor /\ KeepsBut(e, d, c)
         /\ c \in Registers => Len(e.regs[c]) = 0
<1>1. c # \h12 /\ c # \h20 /\ c \in Nat BY DEF Registers
<1> DEFINE regs == IF c \in Registers THEN [d.regs EXCEPT ![c] = <<>>] ELSE d.regs
<1>2. e = [d EXCEPT !.cmd = c, !.regs = regs] BY <1>1 DEF PanelCommand
<1>3. d.regs \in [Registers -> Seq(Nat)] BY DEF PanelType
<1>4. (\A q \in Registers \ {c} : regs[q] = d.regs[q]) /\ (c \in Registers => regs[c] = <<>>)
  BY <1>3
<1> HIDE DEF regs
<1>5. /\ e.cmd = c /\ e.cursor = d.cursor /\ e.busy = d.busy /\ e.ram = d.ram /\ e.shown = d.shown
      /\ e.regs = regs
  BY <1>2 DEF PanelType
<1>6. \A q \in Registers \ {c}, j \in Nat \ {0} : Arg(e, q, j) = Arg(d, q, j)
  BY <1>4, <1>5 DEF Arg
<1>7. c \in Registers => Len(e.regs[c]) = 0
  <2>1. Len(<<>>) = 0 OBVIOUS
  <2>2. QED BY <1>4, <1>5, <2>1
<1>8. QED BY <1>5, <1>6, <1>7 DEF KeepsBut

(* A byte is the next argument of the register. *)
LEMMA ByteSent ==
  ASSUME NEW d \in PanelType, ~d.busy, d.cmd \in Registers, NEW b \in Nat, NEW e, e = PanelData(d, b)
  PROVE  /\ e.cmd = d.cmd /\ KeepsBut(e, d, d.cmd)
         /\ Len(e.regs[d.cmd]) = Len(d.regs[d.cmd]) + 1
         /\ Arg(e, d.cmd, Len(d.regs[d.cmd]) + 1) = b
         /\ \A j \in 1..Len(d.regs[d.cmd]) : Arg(e, d.cmd, j) = Arg(d, d.cmd, j)
         /\ e.cursor[1] = (IF d.cmd = \h4E THEN b ELSE d.cursor[1])
         /\ e.cursor[2] = (IF d.cmd = \h4F /\ Len(d.regs[\h4F]) = 0 THEN b ELSE d.cursor[2])
<1> DEFINE r == d.cmd
           s == Append(d.regs[r], b)
           regs == [d.regs EXCEPT ![r] = s]
           f == [d EXCEPT !.regs = regs]
           cursor == IF r = \h4E THEN <<b, d.cursor[2]>>
                     ELSE IF r = \h4F /\ Len(regs[\h4F]) = 1 THEN <<d.cursor[1], b>>
                     ELSE d.cursor
<1>1. d.cmd # \h24 BY DEF Registers
<1>2. d.regs \in [Registers -> Seq(Nat)] /\ d.cursor \in Int \X Int BY DEF PanelType
<1>3. d.regs[r] \in Seq(Nat) /\ Len(d.regs[r]) \in Nat BY <1>2, LenProperties
<1>4. /\ s \in Seq(Nat) /\ Len(s) = Len(d.regs[r]) + 1 /\ s[Len(d.regs[r]) + 1] = b
      /\ \A j \in 1..Len(d.regs[r]) : s[j] = d.regs[r][j]
  BY <1>3, AppendProperties
<1>5. regs[r] = s /\ \A q \in Registers \ {r} : regs[q] = d.regs[q] BY <1>2
<1>6. f = [d EXCEPT !.regs[d.cmd] = Append(@, b)] BY DEF PanelType
<1>7. f.regs = regs /\ f.cursor = d.cursor /\ f.cmd = d.cmd BY DEF PanelType
<1>8. e = [f EXCEPT !.cursor = cursor]
  <2> HIDE DEF f, regs
  <2>1. e = [f EXCEPT !.cursor = IF d.cmd = \h4E THEN <<b, f.cursor[2]>>
                                 ELSE IF d.cmd = \h4F /\ Len(f.regs[\h4F]) = 1 THEN <<f.cursor[1], b>>
                                 ELSE f.cursor]
    BY <1>1, <1>6 DEF PanelData
  <2>2. QED BY <1>7, <2>1
<1> HIDE DEF s, regs
<1>9. /\ e.cmd = r /\ e.regs = regs /\ e.cursor = cursor
      /\ e.busy = d.busy /\ e.ram = d.ram /\ e.shown = d.shown
  <2> HIDE DEF cursor
  <2>1. QED BY <1>8 DEF PanelType
<1>10. \A q \in Registers \ {r}, j \in Nat \ {0} : Arg(e, q, j) = Arg(d, q, j)
  BY <1>5, <1>9 DEF Arg
<1>11. /\ Len(e.regs[r]) = Len(d.regs[r]) + 1
       /\ Arg(e, r, Len(d.regs[r]) + 1) = b
       /\ \A j \in 1..Len(d.regs[r]) : Arg(e, r, j) = Arg(d, r, j)
  <2>1. PICK n \in Nat : n = Len(d.regs[r]) BY <1>3
  <2>2. e.regs[r] = s BY <1>5, <1>9
  <2>3. Len(e.regs[r]) = n + 1 /\ e.regs[r][n + 1] = b BY <1>4, <2>1, <2>2
  <2>4. \A j \in 1..n : e.regs[r][j] = d.regs[r][j] BY <1>4, <2>1, <2>2
  <2> HIDE DEF r
  <2>5. Arg(e, r, n + 1) = b BY <2>1, <2>3 DEF Arg
  <2>6. \A j \in 1..n : Arg(e, r, j) = Arg(d, r, j) BY <2>1, <2>3, <2>4 DEF Arg
  <2>7. QED BY <2>1, <2>3, <2>5, <2>6
<1>12. ASSUME r = \h4F PROVE Len(regs[\h4F]) = 1 <=> Len(d.regs[\h4F]) = 0
  <2>1. PICK n \in Nat : n = Len(d.regs[r]) BY <1>3
  <2>2. Len(regs[r]) = n + 1 BY <1>4, <1>5, <2>1
  <2>3. n + 1 = 1 <=> n = 0 BY <2>1
  <2> HIDE DEF r
  <2>4. Len(regs[\h4F]) = n + 1 /\ Len(d.regs[\h4F]) = n BY <1>12, <2>1, <2>2
  <2>5. QED BY <2>3, <2>4
<1>13. /\ cursor[1] = (IF r = \h4E THEN b ELSE d.cursor[1])
       /\ cursor[2] = (IF r = \h4F /\ Len(d.regs[\h4F]) = 0 THEN b ELSE d.cursor[2])
  BY <1>2, <1>12
<1> HIDE DEF cursor
<1>14. QED BY <1>9, <1>10, <1>11, <1>13 DEF KeepsBut

(* A panel that was idle when epd_present_framebuf began, after k of its
   operations: each register has the arguments it has been given, the cursor
   is at the next byte of the picture, the bytes before it are stored, and
   from the update on they are shown. *)
WindowAt(d, k) ==
  /\ k \in 1..3 => d.cmd = \h44 /\ Len(d.regs[\h44]) = k - 1
  /\ k >= 2 => Arg(d, \h44, 1) = 0
  /\ k >= 3 => Arg(d, \h44, 2) = Bytes8 - 1
  /\ k \in 4..8 => d.cmd = \h45 /\ Len(d.regs[\h45]) = k - 4
  /\ k >= 5 => Arg(d, \h45, 1) = 0
  /\ k >= 7 => Arg(d, \h45, 3) = EPD_HEIGHT - 1

CursorAt(d, k) ==
  /\ k \in 9..10 => d.cmd = \h4E
  /\ k \in 10..14 => d.cursor[1] = 0
  /\ k \in 11..13 => d.cmd = \h4F /\ Len(d.regs[\h4F]) = k - 11
  /\ k \in 12..14 => d.cursor[2] = 0

PictureAt(d, k) ==
  /\ k \in 14..(EPD_FB_SIZE + 14) => d.cmd = \h24
  /\ k \in 14..(EPD_FB_SIZE + 13) =>
       /\ d.cursor[1] \in 0..(Bytes8 - 1) /\ d.cursor[2] \in 0..(EPD_HEIGHT - 1)
       /\ d.cursor[2] * Bytes8 + d.cursor[1] = k - 14
  /\ \A i \in 0..(EPD_FB_SIZE - 1) : i < k - 14 => d.ram[i] = i

UpdateAt(d, k) ==
  /\ k \in {EPD_FB_SIZE + 15, EPD_FB_SIZE + 16} =>
       d.cmd = \h22 /\ Len(d.regs[\h22]) = k - (EPD_FB_SIZE + 15)
  /\ k = EPD_FB_SIZE + 16 => Arg(d, \h22, 1) = \hF7
  /\ k >= EPD_FB_SIZE + 17 => \A i \in 0..(EPD_FB_SIZE - 1) : d.shown[i] = i
  /\ k # EPD_FB_SIZE + 17 => ~d.busy

PanelAt(d, k) == WindowAt(d, k) /\ CursorAt(d, k) /\ PictureAt(d, k) /\ UpdateAt(d, k)

(* The operations that are left, and the panel that they find. *)
Sent(s) == EPD_FB_SIZE + 18 - Len(s)
Left(s) == Len(s) <= EPD_FB_SIZE + 18 /\ \A j \in 1..Len(s) : s[j] = PresentFramebuf[Sent(s) + j]
Presenting ==
  pc = "io" /\ call # "init" => Left(ops) /\ (~lateStart => PanelAt(panel, Sent(ops)))

(* Between the scripts of a call the panel is idle, and after them it shows the picture. *)
Shown ==
  ~lateStart =>
    /\ pc \in {"page", "text", "shape", "shaped"} => ~panel.busy
    /\ pc = "idle" /\ ret = "ok" /\ call # "init" =>
         ~panel.busy /\ \A i \in 0..(EPD_FB_SIZE - 1) : panel.shown[i] = i

(* What epd_write_bytes does to the panel. *)
Send(d, o) == IF o.op = "command" THEN PanelCommand(d, o.byte) ELSE PanelData(d, o.byte)

(* A command and a byte, as they are sent. *)
LEMMA SendIs ==
  \A d, b : Send(d, Command(b)) = PanelCommand(d, b) /\ Send(d, Byte(b)) = PanelData(d, b)
  BY DEF Send, Command, Byte

(* The registers and the cursor are set, one operation at a time. *)
LEMMA HeaderSent ==
  ASSUME NEW d \in PanelType, NEW k \in 0..13, PanelAt(d, k),
         NEW e, e = Send(d, PresentFramebuf[k + 1])
  PROVE  PanelAt(e, k + 1)
<1>0. EPD_FB_SIZE \in Nat /\ Bytes8 \in Nat \ {0} /\ EPD_HEIGHT - 1 \in Nat
  BY FrameSize, BytesAreNat DEF Bytes8
<1>1. ~d.busy BY <1>0 DEF PanelAt, UpdateAt
<1>2. WindowAt(d, k) /\ CursorAt(d, k) BY DEF PanelAt
<1>3. ASSUME WindowAt(e, k + 1), CursorAt(e, k + 1), ~e.busy,
             k = 13 => e.cmd = \h24 /\ e.cursor[1] = 0 /\ e.cursor[2] = 0
      PROVE  PanelAt(e, k + 1)
  <2>1. UpdateAt(e, k + 1) BY <1>0, <1>3 DEF UpdateAt
  <2>2. CASE k = 13
    <3>1. 0 * Bytes8 + 0 = 0 BY <1>0
    <3>2. \A i \in 0..(EPD_FB_SIZE - 1) : ~(i < 14 - 14) BY <1>0
    <3>3. /\ e.cmd = \h24 /\ e.cursor[1] \in 0..(Bytes8 - 1) /\ e.cursor[2] \in 0..(EPD_HEIGHT - 1)
          /\ e.cursor[2] * Bytes8 + e.cursor[1] = 14 - 14
      BY <1>0, <1>3, <2>2, <3>1
    <3>4. PictureAt(e, 14) BY <3>2, <3>3 DEF PictureAt
    <3>5. QED BY <1>3, <2>1, <2>2, <3>4 DEF PanelAt
  <2>3. CASE k # 13
    <3>1. PictureAt(e, k + 1) BY <1>0, <2>3 DEF PictureAt
    <3>2. QED BY <1>3, <2>1, <3>1 DEF PanelAt
  <2>4. QED BY <2>2, <2>3
<1>4. CASE k \in {0, 3, 8, 10, 13}
  <2> DEFINE c == IF k = 0 THEN \h44 ELSE IF k = 3 THEN \h45 ELSE IF k = 8 THEN \h4E
                  ELSE IF k = 10 THEN \h4F ELSE \h24
  <2>1. PresentFramebuf[k + 1] = Command(c)
    <3>1. k = 0 => PresentFramebuf[k + 1] = Command(\h44) BY PresentOps
    <3>2. k = 3 => PresentFramebuf[k + 1] = Command(\h45) BY PresentOps
    <3>3. k = 8 => PresentFramebuf[k + 1] = Command(\h4E) BY PresentOps
    <3>4. k = 10 => PresentFramebuf[k + 1] = Command(\h4F) BY PresentOps
    <3>5. k = 13 => PresentFramebuf[k + 1] = Command(\h24) BY PresentOps
    <3>6. QED BY <1>4, <3>1, <3>2, <3>3, <3>4, <3>5
  <2>2. c \in Registers \cup {\h24} BY DEF Registers
  <2>3. e = PanelCommand(d, c) BY <2>1, SendIs
  <2>4. /\ e.cmd = c /\ e.cursor = d.cursor /\ KeepsBut(e, d, c)
        /\ c \in Registers => Len(e.regs[c]) = 0
    <3> HIDE DEF c
    <3>1. QED BY <1>1, <2>2, <2>3, CommandSent
  <2>5. ~e.busy BY <1>1, <2>4 DEF KeepsBut
  <2>6. /\ \A j \in Nat \ {0} : c # \h44 => Arg(e, \h44, j) = Arg(d, \h44, j)
        /\ \A j \in Nat \ {0} : c # \h45 => Arg(e, \h45, j) = Arg(d, \h45, j)
    BY <2>4 DEF KeepsBut, Registers
  <2>7. WindowAt(e, k + 1)
    BY <1>2, <1>4, <2>4, <2>6 DEF WindowAt, Registers
  <2>8. CursorAt(e, k + 1)
    BY <1>2, <1>4, <2>4 DEF CursorAt, Registers
  <2>9. k = 13 => e.cmd = \h24 /\ e.cursor[1] = 0 /\ e.cursor[2] = 0
    BY <1>2, <2>4 DEF CursorAt
  <2>10. QED BY <1>3, <2>5, <2>7, <2>8, <2>9
<1>5. CASE k \in {1, 2, 4, 5, 6, 7, 9, 11, 12}
  <2> DEFINE r == IF k \in {1, 2} THEN \h44 ELSE IF k \in 4..7 THEN \h45
                  ELSE IF k = 9 THEN \h4E ELSE \h4F
             n == IF k \in {1, 2} THEN k - 1 ELSE IF k \in 4..7 THEN k - 4 ELSE k - 11
             b == IF k = 2 THEN Bytes8 - 1 ELSE IF k = 6 THEN EPD_HEIGHT - 1 ELSE 0
  <2>1. PresentFramebuf[k + 1] = Byte(b)
    <3>1. k \in {1, 4, 5, 7, 9, 11, 12} => PresentFramebuf[k + 1] = Byte(0) BY PresentOps
    <3>2. k = 2 => PresentFramebuf[k + 1] = Byte(Bytes8 - 1) BY PresentOps
    <3>3. k = 6 => PresentFramebuf[k + 1] = Byte(EPD_HEIGHT - 1) BY PresentOps
    <3>4. QED BY <1>5, <3>1, <3>2, <3>3
  <2>2. b \in Nat BY <1>0
  <2>3. r \in Registers /\ d.cmd = r /\ (k # 9 => Len(d.regs[r]) = n)
    BY <1>2, <1>5 DEF WindowAt, CursorAt, Registers
  <2>4. e = PanelData(d, b) BY <2>1, SendIs
  <2>5. /\ e.cmd = r /\ KeepsBut(e, d, r)
        /\ Len(e.regs[r]) = Len(d.regs[r]) + 1
        /\ Arg(e, r, Len(d.regs[r]) + 1) = b
        /\ \A j \in 1..Len(d.regs[r]) : Arg(e, r, j) = Arg(d, r, j)
        /\ e.cursor[1] = (IF r = \h4E THEN b ELSE d.cursor[1])
        /\ e.cursor[2] = (IF r = \h4F /\ Len(d.regs[\h4F]) = 0 THEN b ELSE d.cursor[2])
    <3> HIDE DEF r, b, n
    <3>1. d.cmd \in Registers /\ r = d.cmd BY <2>3
    <3>2. /\ e.cmd = d.cmd /\ KeepsBut(e, d, d.cmd)
          /\ Len(e.regs[d.cmd]) = Len(d.regs[d.cmd]) + 1
          /\ Arg(e, d.cmd, Len(d.regs[d.cmd]) + 1) = b
          /\ \A j \in 1..Len(d.regs[d.cmd]) : Arg(e, d.cmd, j) = Arg(d, d.cmd, j)
          /\ e.cursor[1] = (IF d.cmd = \h4E THEN b ELSE d.cursor[1])
          /\ e.cursor[2] = (IF d.cmd = \h4F /\ Len(d.regs[\h4F]) = 0 THEN b ELSE d.cursor[2])
      BY ONLY d \in PanelType, <1>1, <2>2, <2>4, <3>1, ByteSent
    <3>3. QED BY ONLY <3>1, <3>2, Zenon
  <2>6. ~e.busy BY <1>1, <2>5 DEF KeepsBut
  <2>7. k # 9 => /\ Len(e.regs[r]) = n + 1 /\ Arg(e, r, n + 1) = b
                 /\ \A j \in 1..n : Arg(e, r, j) = Arg(d, r, j)
    <3> HIDE DEF r, b, n
    <3>1. QED BY <2>3, <2>5
  <2>8. /\ \A j \in Nat \ {0} : r # \h44 => Arg(e, \h44, j) = Arg(d, \h44, j)
        /\ \A j \in Nat \ {0} : r # \h45 => Arg(e, \h45, j) = Arg(d, \h45, j)
    <3> HIDE DEF r
    <3>1. QED BY <2>5 DEF KeepsBut, Registers
  <2>9. WindowAt(e, k + 1)
    <3>1. CASE k = 1
      <4>1. r = \h44 /\ n + 1 = 1 /\ b = 0 /\ k # 9 BY <3>1
      <4> HIDE DEF r, n, b
      <4>2. Len(e.regs[r]) = 1 /\ Arg(e, r, 1) = b BY <2>7, <4>1
      <4>4. e.cmd = \h44 /\ Len(e.regs[\h44]) = 1 /\ Arg(e, \h44, 1) = 0 BY <2>5, <4>1, <4>2
      <4>5. QED BY <3>1, <4>4 DEF WindowAt
    <3>5. CASE k = 2
      <4>1. r = \h44 /\ n + 1 = 2 /\ 1 \in 1..n /\ b = Bytes8 - 1 /\ k # 9 BY <3>5
      <4> HIDE DEF r, n, b
      <4>2. Len(e.regs[r]) = 2 /\ Arg(e, r, 2) = b /\ Arg(e, r, 1) = Arg(d, r, 1) BY <2>7, <4>1
      <4>4. /\ e.cmd = \h44 /\ Len(e.regs[\h44]) = 2 /\ Arg(e, \h44, 2) = Bytes8 - 1
            /\ Arg(e, \h44, 1) = Arg(d, \h44, 1)
        BY <2>5, <4>1, <4>2
      <4>5. QED BY <1>2, <3>5, <4>4 DEF WindowAt
    <3>2. CASE k \in 4..7 BY <1>2, <2>5, <2>7, <2>8, <3>2 DEF WindowAt
    <3>3. CASE k \in {9, 11, 12} BY <1>2, <2>8, <3>3 DEF WindowAt
    <3>4. QED BY <1>5, <3>1, <3>2, <3>3, <3>5
  <2>10. CursorAt(e, k + 1)
    <3>1. CASE k \in {1, 2, 4, 5, 6, 7} BY <3>1 DEF CursorAt
    <3>2. CASE k = 9 BY <2>5, <3>2 DEF CursorAt
    <3>3. CASE k \in {11, 12}
      <4>1. r = \h4F /\ n = k - 11 /\ b = 0 BY <3>3
      <4>2. Len(d.regs[\h4F]) = k - 11 /\ Len(e.regs[\h4F]) = k - 10 BY <2>3, <2>7, <3>3, <4>1
      <4>3. e.cmd = \h4F /\ e.cursor[1] = d.cursor[1] BY <2>5, <4>1
      <4>4. e.cursor[2] = (IF k = 11 THEN 0 ELSE d.cursor[2]) BY <2>5, <3>3, <4>1, <4>2
      <4>5. QED BY <1>2, <3>3, <4>2, <4>3, <4>4 DEF CursorAt
    <3>4. QED BY <1>5, <3>1, <3>2, <3>3
  <2>11. QED BY <1>3, <1>5, <2>6, <2>9, <2>10
<1>6. QED BY <1>4, <1>5

(* A byte of the picture goes to its place, and the cursor to the next one,
   at the end of a row to the row below. *)
LEMMA ByteStored ==
  ASSUME NEW d \in PanelType, NEW i \in 0..(EPD_FB_SIZE - 1), PanelAt(d, 14 + i),
         NEW e, e = Send(d, PresentFramebuf[15 + i])
  PROVE  PanelAt(e, 15 + i)
<1> DEFINE x == d.cursor[1]
           y == d.cursor[2]
           next == IF x # Arg(d, \h44, 2) THEN <<x + 1, y>>
                   ELSE <<Arg(d, \h44, 1), IF y # Arg(d, \h45, 3) THEN y + 1 ELSE Arg(d, \h45, 1)>>
           ram == [d.ram EXCEPT ![i] = i]
<1>0. /\ EPD_FB_SIZE \in Nat /\ Bytes8 \in Nat \ {0} /\ EPD_HEIGHT \in Nat \ {0}
      /\ EPD_FB_SIZE = Bytes8 * EPD_HEIGHT /\ i \in Nat /\ i < EPD_FB_SIZE
  BY FrameSize, BytesAreNat, DisplayAssumption DEF Bytes8
<1>1. ~d.busy /\ WindowAt(d, 14 + i) /\ CursorAt(d, 14 + i) /\ PictureAt(d, 14 + i)
  BY <1>0 DEF PanelAt, UpdateAt
<1>2. /\ Arg(d, \h44, 1) = 0 /\ Arg(d, \h44, 2) = Bytes8 - 1
      /\ Arg(d, \h45, 1) = 0 /\ Arg(d, \h45, 3) = EPD_HEIGHT - 1
  BY <1>0, <1>1 DEF WindowAt
<1>3. /\ d.cmd = \h24 /\ x \in 0..(Bytes8 - 1) /\ y \in 0..(EPD_HEIGHT - 1) /\ y * Bytes8 + x = i
      /\ \A j \in 0..(EPD_FB_SIZE - 1) : j < i => d.ram[j] = j
  <2>1. 14 + i \in 14..(EPD_FB_SIZE + 14) /\ 14 + i \in 14..(EPD_FB_SIZE + 13) /\ (14 + i) - 14 = i
    BY <1>0
  <2>2. QED BY <1>1, <2>1 DEF PictureAt
<1>4. PresentFramebuf[15 + i] = Byte(i) BY PresentOps
<1>5. e = PanelStore(d, i)
  <2>1. e = PanelData(d, i) BY <1>4, SendIs
  <2>2. QED BY <1>1, <1>3, <2>1 DEF PanelData
<1>6. d.ram \in Picture8 /\ i \in DOMAIN d.ram BY DEF PanelType, Picture8
<1>7. e = [d EXCEPT !.ram = ram, !.cursor = next] BY <1>3, <1>5, <1>6 DEF PanelStore, Bytes8
<1>8. /\ e.busy = d.busy /\ e.cmd = d.cmd /\ e.regs = d.regs /\ e.shown = d.shown
      /\ e.ram = ram /\ e.cursor = next
  <2> HIDE DEF ram, next
  <2>1. QED BY <1>7 DEF PanelType
<1>9. \A j \in 0..(EPD_FB_SIZE - 1) : j < i + 1 => e.ram[j] = j
  <2>1. \A j \in 0..(EPD_FB_SIZE - 1) : ram[j] = IF j = i THEN i ELSE d.ram[j]
    BY <1>6 DEF Picture8
  <2> HIDE DEF ram
  <2>2. QED BY <1>0, <1>3, <1>8, <2>1
<1>10. i + 1 < EPD_FB_SIZE =>
         /\ next[1] \in 0..(Bytes8 - 1) /\ next[2] \in 0..(EPD_HEIGHT - 1)
         /\ next[2] * Bytes8 + next[1] = i + 1
  <2> SUFFICES ASSUME i + 1 < EPD_FB_SIZE
               PROVE  /\ next[1] \in 0..(Bytes8 - 1) /\ next[2] \in 0..(EPD_HEIGHT - 1)
                      /\ next[2] * Bytes8 + next[1] = i + 1
    OBVIOUS
  <2>1. PICK u \in Nat, v \in Nat : u = x /\ v = y BY <1>0, <1>3
  <2>2. u < Bytes8 /\ v < EPD_HEIGHT /\ v * Bytes8 + u = i BY <1>0, <1>3, <2>1
  <2>3. CASE u # Bytes8 - 1
    <3>1. next = <<u + 1, v>> BY <1>2, <2>1, <2>3
    <3> HIDE DEF next
    <3>2. v * Bytes8 \in Nat BY <1>0
    <3>3. QED BY <1>0, <2>2, <2>3, <3>1, <3>2
  <2>4. CASE u = Bytes8 - 1
    <3>1. (v + 1) * Bytes8 = v * Bytes8 + Bytes8 /\ v * Bytes8 \in Nat BY <1>0
    <3>2. (v + 1) * Bytes8 = i + 1 BY <1>0, <2>2, <2>4, <3>1
    <3>3. v # EPD_HEIGHT - 1
      <4>1. SUFFICES ASSUME v = EPD_HEIGHT - 1 PROVE FALSE OBVIOUS
      <4>2. v + 1 = EPD_HEIGHT BY <1>0, <4>1
      <4>3. EPD_HEIGHT * Bytes8 = Bytes8 * EPD_HEIGHT BY <1>0
      <4>4. i + 1 = EPD_FB_SIZE BY <1>0, <3>2, <4>2, <4>3
      <4>5. QED BY <1>0, <4>4
    <3>4. next = <<0, v + 1>> BY <1>2, <2>1, <2>4, <3>3
    <3> HIDE DEF next
    <3>5. QED BY <1>0, <2>2, <3>2, <3>3, <3>4
  <2>5. QED BY <2>3, <2>4
<1> HIDE DEF next, ram, x, y
<1>11. PictureAt(e, 15 + i)
  <2>1. e.cmd = \h24 BY <1>3, <1>8
  <2>2. 15 + i \in 14..(EPD_FB_SIZE + 13) =>
          /\ e.cursor[1] \in 0..(Bytes8 - 1) /\ e.cursor[2] \in 0..(EPD_HEIGHT - 1)
          /\ e.cursor[2] * Bytes8 + e.cursor[1] = (15 + i) - 14
    <3>1. (15 + i) - 14 = i + 1 /\ (15 + i \in 14..(EPD_FB_SIZE + 13) => i + 1 < EPD_FB_SIZE) BY <1>0
    <3>2. QED BY <1>8, <1>10, <3>1
  <2>3. \A j \in 0..(EPD_FB_SIZE - 1) : j < (15 + i) - 14 => e.ram[j] = j BY <1>0, <1>9
  <2>4. QED BY <2>1, <2>2, <2>3, Zenon DEF PictureAt
<1>12. UpdateAt(e, 15 + i)
  <2>1. ~e.busy BY <1>1, <1>8
  <2>2. PICK k : k = 15 + i OBVIOUS
  <2>3. /\ k \notin {EPD_FB_SIZE + 15, EPD_FB_SIZE + 16}
        /\ k # EPD_FB_SIZE + 16 /\ ~(k >= EPD_FB_SIZE + 17)
    BY <1>0, <2>2
  <2>4. UpdateAt(e, k) BY <2>1, <2>3, Zenon DEF UpdateAt
  <2>5. QED BY <2>2, <2>4
<1>13. WindowAt(e, 15 + i)
  <2>1. /\ Arg(e, \h44, 1) = 0 /\ Arg(e, \h44, 2) = Bytes8 - 1
        /\ Arg(e, \h45, 1) = 0 /\ Arg(e, \h45, 3) = EPD_HEIGHT - 1
    BY <1>2, <1>8 DEF Arg
  <2>2. 15 + i > 8 BY <1>0
  <2>3. QED BY <1>0, <2>1, <2>2 DEF WindowAt
<1>14. CursorAt(e, 15 + i) BY <1>0 DEF CursorAt
<1>15. QED BY <1>11, <1>12, <1>13, <1>14 DEF PanelAt

(* The update: the panel shows what it has stored, and is busy with it. *)
LEMMA UpdateSent ==
  ASSUME NEW d \in PanelType, NEW k \in (EPD_FB_SIZE + 14)..(EPD_FB_SIZE + 16), PanelAt(d, k),
         NEW e, e = Send(d, PresentFramebuf[k + 1])
  PROVE  PanelAt(e, k + 1)
<1> DEFINE N == EPD_FB_SIZE
<1>0. N \in Nat BY FrameSize
<1>1. ~d.busy /\ WindowAt(d, k) /\ PictureAt(d, k) /\ UpdateAt(d, k)
  BY <1>0 DEF PanelAt, UpdateAt
<1>2. \A i \in 0..(N - 1) : d.ram[i] = i BY <1>0, <1>1 DEF PictureAt
<1>4. ASSUME e.ram = d.ram, \A j \in Nat \ {0} : Arg(e, \h44, j) = Arg(d, \h44, j),
             \A j \in Nat \ {0} : Arg(e, \h45, j) = Arg(d, \h45, j), UpdateAt(e, k + 1)
      PROVE  PanelAt(e, k + 1)
  <2>1. k + 1 >= 15 /\ k + 1 > N + 14 BY <1>0
  <2>2. WindowAt(e, k + 1) BY <1>0, <1>1, <1>4, <2>1 DEF WindowAt
  <2>3. CursorAt(e, k + 1) BY <2>1 DEF CursorAt
  <2>4. PictureAt(e, k + 1) BY <1>0, <1>2, <1>4, <2>1 DEF PictureAt
  <2>5. QED BY <1>4, <2>2, <2>3, <2>4 DEF PanelAt
<1>5. CASE k = N + 14
  <2>1. k + 1 = N + 15 BY <1>0, <1>5
  <2>2. e = PanelCommand(d, \h22) BY <2>1, PresentOps, SendIs
  <2>3. \h22 \in Registers BY DEF Registers
  <2>4. e.cmd = \h22 /\ KeepsBut(e, d, \h22) /\ Len(e.regs[\h22]) = 0
    BY <1>1, <2>2, <2>3, CommandSent
  <2>5. UpdateAt(e, k + 1) BY <1>0, <1>1, <2>1, <2>4 DEF UpdateAt, KeepsBut
  <2>6. QED BY <1>4, <2>4, <2>5 DEF KeepsBut, Registers
<1>6. CASE k = N + 15
  <2>1. k + 1 = N + 16 BY <1>0, <1>6
  <2>2. e = PanelData(d, \hF7) BY <2>1, PresentOps, SendIs
  <2>3. d.cmd = \h22 /\ Len(d.regs[\h22]) = 0 BY <1>0, <1>1, <1>6 DEF UpdateAt
  <2>4. \h22 \in Registers BY DEF Registers
  <2>5. /\ e.cmd = \h22 /\ KeepsBut(e, d, \h22) /\ Len(e.regs[\h22]) = 1
        /\ Arg(e, \h22, 1) = \hF7
    <3>1. d.cmd \in Registers /\ \hF7 \in Nat BY <2>3, <2>4
    <3>2. /\ e.cmd = d.cmd /\ KeepsBut(e, d, d.cmd)
          /\ Len(e.regs[d.cmd]) = Len(d.regs[d.cmd]) + 1
          /\ Arg(e, d.cmd, Len(d.regs[d.cmd]) + 1) = \hF7
      BY <1>1, <2>2, <3>1, ByteSent
    <3>3. Len(d.regs[d.cmd]) + 1 = 1 BY <2>3
    <3>4. Len(e.regs[d.cmd]) = 1 /\ Arg(e, d.cmd, 1) = \hF7 BY <3>2, <3>3
    <3>5. QED BY <2>3, <3>2, <3>4
  <2>6. UpdateAt(e, k + 1) BY <1>0, <1>1, <2>1, <2>5 DEF UpdateAt, KeepsBut
  <2>7. QED BY <1>4, <2>5, <2>6 DEF KeepsBut, Registers
<1>7. CASE k = N + 16
  <2>1. k + 1 = N + 17 BY <1>0, <1>7
  <2>2. e = PanelCommand(d, \h20) BY <2>1, PresentOps, SendIs
  <2>3. Arg(d, \h22, 1) = \hF7 BY <1>0, <1>1, <1>7 DEF UpdateAt
  <2>4. e = [d EXCEPT !.cmd = \h20, !.busy = TRUE, !.shown = d.ram]
    BY <1>1, <2>2, <2>3 DEF PanelCommand
  <2>5. e.ram = d.ram /\ e.shown = d.ram /\ e.regs = d.regs BY <2>4 DEF PanelType
  <2>6. UpdateAt(e, k + 1) BY <1>0, <1>2, <2>1, <2>5 DEF UpdateAt
  <2>7. QED BY <1>4, <2>5, <2>6 DEF Arg
<1>8. QED BY <1>0, <1>5, <1>6, <1>7

(* Every operation that is sent leaves the panel at the next. *)
LEMMA OperationSent ==
  ASSUME NEW d \in PanelType, NEW k \in 0..(EPD_FB_SIZE + 16), PanelAt(d, k)
  PROVE  PanelAt(Send(d, PresentFramebuf[k + 1]), k + 1)
<1>0. EPD_FB_SIZE \in Nat BY FrameSize
<1>1. CASE k \in 0..13 BY <1>1, HeaderSent
<1>2. CASE k \in 14..(EPD_FB_SIZE + 13)
  <2>1. k - 14 \in 0..(EPD_FB_SIZE - 1) /\ 14 + (k - 14) = k /\ 15 + (k - 14) = k + 1 BY <1>0, <1>2
  <2>2. PICK i : i = k - 14 OBVIOUS
  <2>3. i \in 0..(EPD_FB_SIZE - 1) /\ 14 + i = k /\ 15 + i = k + 1 BY <2>1, <2>2
  <2>4. QED BY <2>3, ByteStored
<1>3. CASE k \in (EPD_FB_SIZE + 14)..(EPD_FB_SIZE + 16) BY <1>3, UpdateSent
<1>4. QED BY <1>0, <1>1, <1>2, <1>3

(* A script is taken from its front. *)
LEMMA LeftBegins == Left(PresentFramebuf) /\ Sent(PresentFramebuf) = 0
<1>1. EPD_FB_SIZE \in Nat /\ Len(PresentFramebuf) = EPD_FB_SIZE + 18 BY FrameSize, PresentScript
<1>2. Sent(PresentFramebuf) = 0 BY <1>1 DEF Sent
<1>3. QED BY <1>1, <1>2 DEF Left

(* The next operation is taken, and the rest is left. *)
LEMMA LeftGoesOn ==
  ASSUME NEW s \in Seq(Op), s # <<>>, Left(s)
  PROVE  /\ Sent(s) \in 0..(EPD_FB_SIZE + 17) /\ Head(s) = PresentFramebuf[Sent(s) + 1]
         /\ Left(Tail(s)) /\ Sent(Tail(s)) = Sent(s) + 1
<1>1. EPD_FB_SIZE \in Nat BY FrameSize
<1>2. /\ Len(s) \in Nat \ {0} /\ Tail(s) \in Seq(Op) /\ Head(s) = s[1] /\ Len(Tail(s)) = Len(s) - 1
      /\ \A j \in 1..Len(Tail(s)) : Tail(s)[j] = s[j + 1]
  BY HeadTailProperties, EmptySeq, LenProperties
<1>3. PICK n \in Nat : n = Len(s) BY <1>2
<1>4. n > 0 /\ n <= EPD_FB_SIZE + 18 BY <1>2, <1>3 DEF Left
<1>5. PICK k \in Nat : k = EPD_FB_SIZE + 18 - n
  <2>1. EPD_FB_SIZE + 18 - n \in Nat BY <1>1, <1>4
  <2>2. QED BY <2>1
<1>6. Sent(s) = k /\ k <= EPD_FB_SIZE + 17 BY <1>1, <1>3, <1>4, <1>5 DEF Sent
<1>7. \A j \in 1..n : s[j] = PresentFramebuf[k + j] BY <1>3, <1>6 DEF Left
<1>8. Head(s) = PresentFramebuf[k + 1] BY <1>2, <1>4, <1>7
<1>9. Len(Tail(s)) = n - 1 /\ Sent(Tail(s)) = k + 1 BY <1>1, <1>2, <1>3, <1>5 DEF Sent
<1>10. \A j \in 1..(n - 1) : Tail(s)[j] = PresentFramebuf[(k + 1) + j]
  <2>1. SUFFICES ASSUME NEW j \in 1..(n - 1) PROVE Tail(s)[j] = PresentFramebuf[(k + 1) + j] OBVIOUS
  <2>2. j + 1 \in 1..n /\ (k + 1) + j = k + (j + 1) /\ j \in 1..Len(Tail(s)) BY <1>4, <1>9
  <2>3. QED BY <1>2, <1>7, <2>2
<1>11. Left(Tail(s)) BY <1>1, <1>4, <1>9, <1>10 DEF Left
<1>12. QED BY <1>1, <1>6, <1>8, <1>9, <1>11

(* The last operation is the wait, and all others are sent. *)
LEMMA KindsOfOps ==
  ASSUME NEW k \in 0..(EPD_FB_SIZE + 17)
  PROVE  /\ k <= EPD_FB_SIZE + 16 => PresentFramebuf[k + 1].op \in {"command", "data"}
         /\ k = EPD_FB_SIZE + 17 => PresentFramebuf[k + 1].op = "wait"
<1>0. EPD_FB_SIZE \in Nat BY FrameSize
<1>1. \A c : Command(c).op \in {"command", "data"} /\ Byte(c).op \in {"command", "data"}
  BY DEF Command, Byte
<1>2. CASE k \in 0..13
  <2>1. \E c : PresentFramebuf[k + 1] = Command(c) \/ PresentFramebuf[k + 1] = Byte(c)
    <3>1. k \in {0, 3, 8, 10, 13} => \E c : PresentFramebuf[k + 1] = Command(c) BY PresentOps
    <3>2. k \in {1, 2, 4, 5, 6, 7, 9, 11, 12} => \E c : PresentFramebuf[k + 1] = Byte(c)
      BY PresentOps
    <3>3. QED BY <1>2, <3>1, <3>2
  <2>2. QED BY <1>0, <1>1, <1>2, <2>1
<1>3. CASE k \in 14..(EPD_FB_SIZE + 13)
  <2>1. k - 14 \in 0..(EPD_FB_SIZE - 1) /\ 15 + (k - 14) = k + 1 BY <1>0, <1>3
  <2>2. PresentFramebuf[15 + (k - 14)] = Byte(k - 14) BY <2>1, PresentOps
  <2>3. QED BY <1>0, <1>1, <1>3, <2>1, <2>2
<1>4. CASE k = EPD_FB_SIZE + 14
  <2>1. k + 1 = EPD_FB_SIZE + 15 BY <1>0, <1>4
  <2>2. QED BY <1>0, <1>1, <1>4, <2>1, PresentOps
<1>5. CASE k = EPD_FB_SIZE + 15
  <2>1. k + 1 = EPD_FB_SIZE + 16 BY <1>0, <1>5
  <2>2. QED BY <1>0, <1>1, <1>5, <2>1, PresentOps
<1>6. CASE k = EPD_FB_SIZE + 16
  <2>1. k + 1 = EPD_FB_SIZE + 17 BY <1>0, <1>6
  <2>2. QED BY <1>0, <1>1, <1>6, <2>1, PresentOps
<1>7. CASE k = EPD_FB_SIZE + 17
  <2>1. k + 1 = EPD_FB_SIZE + 18 BY <1>0, <1>7
  <2>2. QED BY <1>0, <1>7, <2>1, PresentOps DEF WaitIdle
<1>8. QED BY <1>0, <1>2, <1>3, <1>4, <1>5, <1>6, <1>7

(* Where a presentation begins, waits and ends. *)
LEMMA PanelBegins == ASSUME NEW d, ~d.busy PROVE PanelAt(d, 0)
<1>1. EPD_FB_SIZE \in Nat BY FrameSize
<1>2. WindowAt(d, 0) /\ CursorAt(d, 0) BY DEF WindowAt, CursorAt
<1>3. \A i \in 0..(EPD_FB_SIZE - 1) : ~(i < 0 - 14) BY <1>1
<1>4. PictureAt(d, 0) BY <1>1, <1>3 DEF PictureAt
<1>5. UpdateAt(d, 0) BY <1>1 DEF UpdateAt
<1>6. QED BY <1>2, <1>4, <1>5 DEF PanelAt

(* The end of an update disturbs nothing. *)
LEMMA PanelBecomesIdle ==
  ASSUME NEW d \in PanelType, NEW k \in 0..(EPD_FB_SIZE + 18), PanelAt(d, k)
  PROVE  PanelAt([d EXCEPT !.busy = FALSE], k)
<1> DEFINE e == [d EXCEPT !.busy = FALSE]
<1>1. /\ e.cmd = d.cmd /\ e.regs = d.regs /\ e.cursor = d.cursor /\ e.ram = d.ram
      /\ e.shown = d.shown /\ e.busy = FALSE
  BY DEF PanelType
<1> HIDE DEF e
<1>2. \A q, j : Arg(e, q, j) = Arg(d, q, j) BY <1>1 DEF Arg
<1>3. WindowAt(e, k) BY <1>1, <1>2 DEF PanelAt, WindowAt
<1>4. CursorAt(e, k) BY <1>1 DEF PanelAt, CursorAt
<1>5. PictureAt(e, k) BY <1>1 DEF PanelAt, PictureAt
<1>6. UpdateAt(e, k) BY <1>1, <1>2 DEF PanelAt, UpdateAt
<1>7. QED BY <1>3, <1>4, <1>5, <1>6 DEF PanelAt, e

(* Once BUSY is low the presentation is done. *)
LEMMA WaitEnds ==
  ASSUME NEW d, PanelAt(d, EPD_FB_SIZE + 17), ~d.busy
  PROVE  PanelAt(d, EPD_FB_SIZE + 18)
<1>1. EPD_FB_SIZE \in Nat BY FrameSize
<1>2. WindowAt(d, EPD_FB_SIZE + 18) BY <1>1 DEF PanelAt, WindowAt
<1>3. CursorAt(d, EPD_FB_SIZE + 18) BY <1>1 DEF CursorAt
<1>4. PictureAt(d, EPD_FB_SIZE + 18)
  <2>1. \A i \in 0..(EPD_FB_SIZE - 1) : d.ram[i] = i BY <1>1 DEF PanelAt, PictureAt
  <2>2. QED BY <1>1, <2>1 DEF PictureAt
<1>5. UpdateAt(d, EPD_FB_SIZE + 18) BY <1>1 DEF PanelAt, UpdateAt
<1>6. QED BY <1>2, <1>3, <1>4, <1>5 DEF PanelAt

(* No step of the driver, of its callers or of the panel disturbs a picture on its way. *)
LEMMA PresentingKept == Types /\ Presenting /\ Shown /\ [Next]_vars => Presenting' /\ Shown'
<1> SUFFICES ASSUME Types, Presenting, Shown, [Next]_vars PROVE Presenting' /\ Shown'
  OBVIOUS
<1>0. EPD_FB_SIZE \in Nat /\ ops \in Seq(Op) /\ panel \in PanelType
  BY FrameSize DEF Types, IoTypes
<1>1. ASSUME pc' \notin {"page", "text", "shape", "shaped", "io"}, pc' = "idle" => ret' = "error"
      PROVE  Presenting' /\ Shown'
  BY <1>1 DEF Presenting, Shown
<1>2. ASSUME pc' = "io", call' = "init" PROVE Presenting' /\ Shown'
  BY <1>2 DEF Presenting, Shown
<1>3. ASSUME pc' = "io", ops' = PresentFramebuf, ~lateStart' => ~panel'.busy
      PROVE  Presenting' /\ Shown'
  <2>1. ~lateStart' => PanelAt(panel', 0) BY <1>3, PanelBegins
  <2>2. Left(ops') /\ Sent(ops') = 0 BY <1>3, LeftBegins
  <2>3. QED BY <1>3, <2>1, <2>2 DEF Presenting, Shown
<1>4. ASSUME pc' \in {"page", "text", "shape", "shaped"}, ~lateStart' => ~panel'.busy
      PROVE  Presenting' /\ Shown'
  BY <1>4 DEF Presenting, Shown
<1>5. ASSUME Forget PROVE panel'.busy = panel.busy
  BY <1>0, <1>5 DEF Forget, PanelType
<1>6. ASSUME pc = "io", call # "init", ops # <<>>
      PROVE  /\ Sent(ops) \in 0..(EPD_FB_SIZE + 17) /\ Head(ops) = PresentFramebuf[Sent(ops) + 1]
             /\ Left(Tail(ops)) /\ Sent(Tail(ops)) = Sent(ops) + 1
             /\ Sent(ops) <= EPD_FB_SIZE + 16 => Head(ops).op \in {"command", "data"}
             /\ Sent(ops) = EPD_FB_SIZE + 17 => Head(ops).op = "wait"
  <2>1. Left(ops) BY <1>6 DEF Presenting
  <2>2. /\ Sent(ops) \in 0..(EPD_FB_SIZE + 17) /\ Head(ops) = PresentFramebuf[Sent(ops) + 1]
        /\ Left(Tail(ops)) /\ Sent(Tail(ops)) = Sent(ops) + 1
    BY <1>0, <1>6, <2>1, LeftGoesOn
  <2>3. QED BY <2>2, KindsOfOps
<1>7. CASE WriteByte
  <2>1. pc = "io" /\ ops # <<>> /\ Head(ops).op \in {"command", "data"} /\ UNCHANGED <<call, lateStart>>
    BY <1>7 DEF WriteByte, InScript, KeepCall
  <2>2. \/ panel' = Send(panel, Head(ops)) /\ Succeeds
        \/ Fails
    BY <1>7 DEF WriteByte, Send
  <2>3. CASE Fails BY <1>1, <2>3 DEF Fails
  <2>4. CASE call = "init" /\ Succeeds BY <1>2, <2>1, <2>4 DEF Succeeds
  <2>5. CASE call # "init" /\ panel' = Send(panel, Head(ops)) /\ Succeeds
    <3>1. /\ Sent(ops) \in 0..(EPD_FB_SIZE + 16) /\ Head(ops) = PresentFramebuf[Sent(ops) + 1]
          /\ Left(Tail(ops)) /\ Sent(Tail(ops)) = Sent(ops) + 1
      <4>1. Sent(ops) # EPD_FB_SIZE + 17 BY <1>6, <2>1, <2>5
      <4>2. QED BY <1>0, <1>6, <2>1, <2>5, <4>1
    <3>2. ops' = Tail(ops) /\ pc' = "io" BY <2>1, <2>5 DEF Succeeds
    <3>3. ~lateStart => PanelAt(panel, Sent(ops)) BY <2>1, <2>5 DEF Presenting
    <3>4. ~lateStart => PanelAt(Send(panel, PresentFramebuf[Sent(ops) + 1]), Sent(ops) + 1)
      BY <1>0, <3>1, <3>3, OperationSent
    <3>5. ~lateStart' => PanelAt(panel', Sent(ops')) BY <2>1, <2>5, <3>1, <3>2, <3>4
    <3>6. Left(ops') BY <3>1, <3>2
    <3>7. QED BY <3>2, <3>5, <3>6 DEF Presenting, Shown
  <2>6. QED BY <2>2, <2>3, <2>4, <2>5
<1>8. CASE PollBusy
  <2>1. /\ pc = "io" /\ ops # <<>> /\ Head(ops).op = "wait" /\ UNCHANGED <<call, lateStart, panel>>
        /\ pc' = "io" /\ (ops' = ops \/ (~panel.busy /\ ops' = Tail(ops)))
    BY <1>8 DEF PollBusy, InScript, KeepCall, Succeeds
  <2>2. CASE call = "init" BY <1>2, <2>1, <2>2
  <2>3. CASE call # "init" /\ ops' = ops BY <2>1, <2>3 DEF Presenting, Shown
  <2>4. CASE call # "init" /\ ~panel.busy /\ ops' = Tail(ops)
    <3>1. Sent(ops) = EPD_FB_SIZE + 17
      <4>1. ~(Sent(ops) <= EPD_FB_SIZE + 16) BY <1>6, <2>1, <2>4
      <4>2. Sent(ops) \in 0..(EPD_FB_SIZE + 17) BY <1>6, <2>1, <2>4
      <4>3. QED BY <1>0, <4>1, <4>2
    <3>2. Left(Tail(ops)) /\ Sent(Tail(ops)) = EPD_FB_SIZE + 18
      <4>1. Left(Tail(ops)) /\ Sent(Tail(ops)) = Sent(ops) + 1 BY <1>6, <2>1, <2>4
      <4>2. QED BY <1>0, <3>1, <4>1
    <3>3. ~lateStart => PanelAt(panel, EPD_FB_SIZE + 17) BY <2>1, <2>4, <3>1 DEF Presenting
    <3>4. ~lateStart => PanelAt(panel, EPD_FB_SIZE + 18) BY <2>4, <3>3, WaitEnds
    <3>5. QED BY <2>1, <2>4, <3>2, <3>4 DEF Presenting, Shown
  <2>5. QED BY <2>1, <2>2, <2>3, <2>4
<1>9. CASE PollFails \/ WaitTimesOut
  <2>1. Fails BY <1>9 DEF PollFails, WaitTimesOut
  <2>2. QED BY <1>1, <2>1 DEF Fails
<1>10. CASE ResetPanel \/ PinsConfigured
  <2>1. /\ pc = "io" /\ ops # <<>> /\ Head(ops).op \in {"reset", "configure"} /\ call' = call
        /\ Succeeds \/ Fails
    BY <1>10 DEF ResetPanel, PinsConfigured, InScript, KeepCall
  <2>2. CASE Fails BY <1>1, <2>2 DEF Fails
  <2>3. CASE Succeeds
    <3>1. call = "init"
      <4>1. SUFFICES ASSUME call # "init" PROVE FALSE OBVIOUS
      <4>2. Sent(ops) <= EPD_FB_SIZE + 16 \/ Sent(ops) = EPD_FB_SIZE + 17 BY <1>0, <1>6, <2>1, <4>1
      <4>3. Head(ops).op \in {"command", "data", "wait"} BY <1>6, <2>1, <4>1, <4>2
      <4>4. QED BY <2>1, <4>3
    <3>2. QED BY <1>2, <2>1, <2>3, <3>1 DEF Succeeds
  <2>4. QED BY <2>1, <2>2, <2>3
<1>11. CASE BeginPage
  <2>1. pc = "page" /\ pc' = "text" /\ lateStart' = lateStart /\ panel'.busy = panel.busy
    BY <1>5, <1>11 DEF BeginPage, KeepIo, callVars
  <2>2. QED BY <1>4, <2>1 DEF Shown
<1>12. CASE DrawNewLine \/ DrawGlyph \/ DrawShape
  <2>1. /\ pc \in {"text", "shape"} /\ pc' \in {"text", "shaped"}
        /\ lateStart' = lateStart /\ panel' = panel
    BY <1>12 DEF DrawNewLine, DrawGlyph, DrawShape, TextGoesOn, KeepIo, callVars
  <2>2. QED BY <1>4, <2>1 DEF Shown
<1>13. CASE TextEnds \/ ShapeEnds
  <2>1. /\ pc \in {"text", "shaped"} /\ pc' = "io" /\ ops' = PresentFramebuf
        /\ lateStart' = lateStart /\ panel' = panel
    BY <1>13 DEF TextEnds, ShapeEnds, Present, KeepIo, callVars
  <2>2. QED BY <1>3, <2>1 DEF Shown
<1>14. CASE ScriptEnds
  <2>1. /\ pc = "io" /\ ops = <<>> /\ UNCHANGED <<call, lateStart, panel>>
        /\ (call = "chinese" /\ pc' = "page") \/ pc' = "idle"
    BY <1>14 DEF ScriptEnds
  <2>2. CASE call = "init" BY <2>1, <2>2 DEF Presenting, Shown
  <2>3. CASE call # "init"
    <3>1. Sent(ops) = EPD_FB_SIZE + 18
      <4>1. Len(<<>>) = 0 OBVIOUS
      <4>2. QED BY <1>0, <2>1, <4>1 DEF Sent
    <3>2. ~lateStart => PanelAt(panel, EPD_FB_SIZE + 18) BY <2>1, <2>3, <3>1 DEF Presenting
    <3>3. ~lateStart => ~panel.busy /\ \A i \in 0..(EPD_FB_SIZE - 1) : panel.shown[i] = i
      BY <1>0, <3>2 DEF PanelAt, UpdateAt
    <3>4. QED BY <2>1, <3>3 DEF Presenting, Shown
  <2>4. QED BY <2>2, <2>3
<1>15. CASE AppCalls \/ MainCalls
  <2>1. ASSUME DriverInit PROVE Presenting' /\ Shown'
    BY <1>2, <2>1 DEF DriverInit, Calls
  <2>2. ASSUME NEW black, Clear(black) PROVE Presenting' /\ Shown'
    <3>1. pc' = "io" /\ ops' = PresentFramebuf /\ lateStart' = panel.busy /\ panel'.busy = panel.busy
      BY <1>5, <2>2 DEF Clear, Calls, Present
    <3>2. QED BY <1>3, <3>1
  <2>3. ASSUME NEW s, ShowDemo(s) PROVE Presenting' /\ Shown'
    <3>1. pc' = "shape" /\ lateStart' = panel.busy /\ panel'.busy = panel.busy
      BY <1>5, <2>3 DEF ShowDemo, Calls
    <3>2. QED BY <1>4, <3>1
  <2>4. ASSUME ShowGrayscale PROVE Presenting' /\ Shown'
    <3>1. pc' = "io" /\ ops' = PresentFramebuf /\ lateStart' = panel.busy /\ panel'.busy = panel.busy
      BY <1>5, <2>4 DEF ShowGrayscale, Calls, Present
    <3>2. QED BY <1>3, <3>1
  <2>5. ASSUME NEW t, ShowChineseDemo(t) PROVE Presenting' /\ Shown'
    <3>1. pc' = "page" /\ lateStart' = panel.busy /\ panel' = panel
      BY <2>5 DEF ShowChineseDemo, Calls
    <3>2. QED BY <1>4, <3>1
  <2>6. QED BY <1>15, <2>1, <2>2, <2>3, <2>4, <2>5, Zenon DEF AppCalls, MainCalls
<1>16. CASE MainLights \/ Breathe
  <2>1. pc' \in {"led", "stopped"}
    BY <1>16 DEF MainLights, Breathe
  <2>2. QED BY <1>1, <2>1
<1>17. CASE PanelIdle
  <2>1. /\ panel' = [panel EXCEPT !.busy = FALSE] /\ UNCHANGED <<pc, ops, call, ret, lateStart>>
        /\ panel'.busy = FALSE /\ panel'.shown = panel.shown
    BY <1>0, <1>17 DEF PanelIdle, callVars, PanelType
  <2>2. Presenting'
    <3>1. SUFFICES ASSUME pc = "io", call # "init"
                   PROVE  Left(ops) /\ (~lateStart => PanelAt(panel', Sent(ops)))
      BY <2>1 DEF Presenting
    <3>2. Left(ops) /\ (~lateStart => PanelAt(panel, Sent(ops))) BY <3>1 DEF Presenting
    <3>3. Sent(ops) \in 0..(EPD_FB_SIZE + 18) BY <1>0, <3>2, LenProperties DEF Left, Sent
    <3>4. QED BY <1>0, <2>1, <3>2, <3>3, PanelBecomesIdle
  <2>3. Shown' BY <2>1 DEF Shown
  <2>4. QED BY <2>2, <2>3
<1>18. CASE UNCHANGED vars \/ \E line, column \in Spacings : SetSpacing(line, column)
  <2>1. UNCHANGED <<pc, ops, call, ret, lateStart, panel>>
    BY <1>18 DEF vars, SetSpacing, callVars
  <2>2. QED BY <2>1 DEF Presenting, Shown
<1>19. QED
  BY <1>7, <1>8, <1>9, <1>10, <1>11, <1>12, <1>13, <1>14, <1>15, <1>16, <1>17, <1>18, Zenon
  DEF Next, Drive

(* When a function that shows something returns 0, the panel shows the whole
   frame buffer and is idle, whatever failed before: every byte of the picture
   is stored at its place, on a screen of any size, because the registers, the
   cursor and the window are set again for every picture. *)
THEOREM PictureIsShown == Spec => []ShownWhenOk
<1>1. Init => Presenting /\ Shown
  BY DEF Init, Presenting, Shown
<1>2. Shown => ShownWhenOk
  BY DEF Shown, ShownWhenOk, Idle
<1>3. QED BY <1>1, <1>2, TypesInvariance, PresentingKept, PTL DEF Spec
=============================================================================
