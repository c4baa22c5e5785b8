------------------------------ MODULE EpdDraw ------------------------------
(***************************************************************************)
(* The drawing half of src/src/epd200x200.c: the frame buffer and its      *)
(* primitives, the two fonts, the UTF-8 decoder and the dithered picture.  *)
(* A frame buffer is the set of the indexes y * EPD_WIDTH + x of its black *)
(* pixels, which is the order of its bits.  A glyph is its set of pixels.  *)
(***************************************************************************)
EXTENDS Integers, Sequences, FiniteSets

CONSTANTS
  EPD_WIDTH, EPD_HEIGHT,
  CellSize,      \* the height and width of a glyph of the zpix font (12)
  Zpix,          \* zpix12_font_glyphs: a sequence of [codepoint, pixels]
  Font5x7        \* the letters that have a 5x7 glyph: a function to their pixels

Sorted == \A i, j \in DOMAIN Zpix : i < j => Zpix[i].codepoint < Zpix[j].codepoint
Pixels(glyph) == glyph \subseteq ((0..(CellSize - 1)) \X (0..(CellSize - 1)))

\* A row of the picture is a number of whole bytes, and the number of a row fits one.
ASSUME DisplayAssumption ==
  /\ EPD_WIDTH \in Nat \ {0} /\ EPD_WIDTH % 8 = 0
  /\ EPD_HEIGHT \in 1..256
ASSUME FontAssumption ==
  /\ CellSize \in Nat
  /\ Zpix \in Seq([codepoint : Nat, pixels : SUBSET (Int \X Int)])
  /\ Sorted /\ \A i \in DOMAIN Zpix : Pixels(Zpix[i].pixels)
  /\ \A c \in DOMAIN Font5x7 : Font5x7[c] \subseteq (0..4) \X (0..6)

Smaller(a, b) == IF a < b THEN a ELSE b
Larger(a, b) == IF a < b THEN b ELSE a

\* Mutant: only the index is compared with the size of the array, not x with the width.
SetPixelsInArray(fb, points, black) ==
  LET index == {q[2] * EPD_WIDTH + q[1] : q \in points} \cap 0..(EPD_WIDTH * EPD_HEIGHT - 1)
  IN  IF black THEN fb \cup index ELSE fb \ index

\* epd_fb_set_pixel for every point of a set.
SetPixels(fb, points, black) ==
  LET inside == {q \in points : q[1] >= 0 /\ q[1] < EPD_WIDTH /\ q[2] >= 0 /\ q[2] < EPD_HEIGHT}
      index == {q[2] * EPD_WIDTH + q[1] : q \in inside}
  IN  IF black THEN fb \cup index ELSE fb \ index

FbClear(black) == IF black THEN 0..(EPD_WIDTH * EPD_HEIGHT - 1) ELSE {}

\* The points of a line: its ends put in order and bounded by the screen.
Hline(x0, x1, y) ==
  LET from == Larger(Smaller(x0, x1), 0)
      to == Smaller(Larger(x0, x1), EPD_WIDTH - 1)
  IN  IF y < 0 \/ y >= EPD_HEIGHT THEN {} ELSE (from..to) \X {y}

\* Mutant: the lower end is taken as given; only the upper is clipped.
VlineUnordered(x, y0, y1) ==
  LET from == Larger(y0, 0)
      to == Smaller(y1, EPD_HEIGHT - 1)
  IN  IF x < 0 \/ x >= EPD_WIDTH THEN {} ELSE {x} \X (from..to)

Vline(x, y0, y1) ==
  LET from == Larger(Smaller(y0, y1), 0)
      to == Smaller(Larger(y0, y1), EPD_HEIGHT - 1)
  IN  IF x < 0 \/ x >= EPD_WIDTH THEN {} ELSE {x} \X (from..to)

DrawHline(fb, x0, x1, y, black) == SetPixels(fb, Hline(x0, x1, y), black)
DrawVline(fb, x, y0, y1, black) == SetPixels(fb, Vline(x, y0, y1), black)

DrawRect(fb, x, y, w, h, black) ==
  IF w <= 0 \/ h <= 0 THEN fb
  ELSE LET top == DrawHline(fb, x, x + w - 1, y, black)
           bottom == DrawHline(top, x, x + w - 1, y + h - 1, black)
           left == DrawVline(bottom, x, y, y + h - 1, black)
       IN  DrawVline(left, x + w - 1, y, y + h - 1, black)

FillRect(fb, x, y, w, h, black) ==
  IF w <= 0 \/ h <= 0 THEN fb
  ELSE SetPixels(fb, UNION {Hline(x, x + w - 1, yy) : yy \in y..(y + h - 1)}, black)

Moved(pixels, x, y) == {<<x + q[1], y + q[2]>> : q \in pixels}

\* A letter without a glyph leaves a gap.
GetFont5x7(c) == IF c \in DOMAIN Font5x7 THEN Font5x7[c] ELSE {}

\* All letters have one colour, so they may be drawn at once.
DrawText5x7(fb, x, y, t, black) ==
  SetPixels(fb, UNION {Moved(GetFont5x7(t[i]), x + (i - 1) * 6, y) : i \in DOMAIN t}, black)

\* zpix12_find_glyph: the binary search, 0 for NULL.
FindGlyph(codepoint) ==
  LET count == Len(Zpix)
      Search[span \in (0..count) \X (0..count)] ==
        LET left == span[1]
            right == span[2]
            mid == left + (right - left) \div 2
            cp == Zpix[mid + 1].codepoint
        IN  IF left >= right THEN 0
            ELSE IF cp = codepoint THEN mid + 1
            ELSE IF cp < codepoint THEN Search[<<mid + 1, right>>]
            ELSE Search[<<left, mid>>]
  IN  Search[<<0, count>>]

QuestionMark == 63

\* utf8_decode_one at position p of a text that ends with a zero byte: the code point and the next position.
Utf8DecodeOne(t, p) ==
  LET B(k) == IF p + k \in DOMAIN t THEN t[p + k] ELSE 0
      Follows(k) == B(k) \in 128..191
      Low(k) == B(k) % 64
  IN  IF B(0) = 0 THEN [cp |-> 0, next |-> p]
      ELSE IF B(0) < 128 THEN [cp |-> B(0), next |-> p + 1]
      ELSE IF B(0) \in 192..223 /\ Follows(1)
        THEN [cp |-> (B(0) % 32) * 64 + Low(1), next |-> p + 2]
      ELSE IF B(0) \in 224..239 /\ Follows(1) /\ Follows(2)
        THEN [cp |-> (B(0) % 16) * 4096 + Low(1) * 64 + Low(2), next |-> p + 3]
      ELSE IF B(0) \in 240..247 /\ Follows(1) /\ Follows(2) /\ Follows(3)
        THEN [cp |-> (B(0) % 8) * 262144 + Low(1) * 4096 + Low(2) * 64 + Low(3), next |-> p + 4]
      ELSE [cp |-> QuestionMark, next |-> p + 1]

DrawGlyph12(fb, x, y, glyph, black) ==
  IF glyph = 0 THEN fb ELSE SetPixels(fb, Moved(Zpix[glyph].pixels, x, y), black)

\* The glyph drawn for a code point: that of the question mark where it has none of its own.
GlyphFor(cp) == IF FindGlyph(cp) # 0 THEN FindGlyph(cp) ELSE FindGlyph(QuestionMark)

Bayer8x8 == <<
  << 0, 48, 12, 60,  3, 51, 15, 63>>, <<32, 16, 44, 28, 35, 19, 47, 31>>,
  << 8, 56,  4, 52, 11, 59,  7, 55>>, <<40, 24, 36, 20, 43, 27, 39, 23>>,
  << 2, 50, 14, 62,  1, 49, 13, 61>>, <<34, 18, 46, 30, 33, 17, 45, 29>>,
  <<10, 58,  6, 54,  9, 57,  5, 53>>, <<42, 26, 38, 22, 41, 25, 37, 21>> >>

Bands == 8
BandWidth == EPD_WIDTH \div Bands

\* The bands from white to black, and the lines between them.
Grayscale ==
  LET IsBlack(x, y) ==
        LET band == Smaller(x \div BandWidth, Bands - 1)
            threshold == (Bayer8x8[(y % 8) + 1][(x % 8) + 1] * 256) \div 64
        IN  (band * 255) \div (Bands - 1) > threshold
      screen == (0..(EPD_WIDTH - 1)) \X (0..(EPD_HEIGHT - 1))
      dither == SetPixels(FbClear(FALSE), {q \in screen : IsBlack(q[1], q[2])}, TRUE)
  IN  SetPixels(dither, UNION {Vline(i * BandWidth, 0, EPD_HEIGHT - 1) : i \in 1..(Bands - 1)}, TRUE)
=============================================================================
