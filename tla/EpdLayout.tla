----------------------------- MODULE EpdLayout -----------------------------
(***************************************************************************)
(* What a page of text must look like: where in a text its characters      *)
(* begin, which code points they are and where on the screen they stand,   *)
(* each said of the text as a whole.  epd_fb_draw_utf8_text12 finds it out *)
(* one character at a time, as it decodes, wraps, draws and clips.         *)
(***************************************************************************)
EXTENDS Epd

\* k bytes from i on are one well-formed sequence: its first byte says how long it is.
Whole(t, i, k) ==
  /\ i + k - 1 <= Len(t)
  /\ \/ k = 1 /\ t[i] < 128
     \/ k = 2 /\ t[i] \div 32 = 6
     \/ k = 3 /\ t[i] \div 16 = 14
     \/ k = 4 /\ t[i] \div 8 = 30
  /\ \A j \in (i + 1)..(i + k - 1) : t[j] \div 64 = 2

\* A character begins at every byte that is not within a sequence.
Begins(t) == {i \in DOMAIN t : \A j \in 1..(i - 1), k \in 1..4 : Whole(t, j, k) => j + k <= i}

\* A byte that begins no sequence counts for a question mark.
CodePoint(t, i) ==
  LET Low(j) == t[i + j] % 64
  IN  IF Whole(t, i, 1) THEN t[i]
      ELSE IF Whole(t, i, 2) THEN (t[i] % 32) * 64 + Low(1)
      ELSE IF Whole(t, i, 3) THEN ((t[i] % 16) * 64 + Low(1)) * 64 + Low(2)
      ELSE IF Whole(t, i, 4) THEN (((t[i] % 8) * 64 + Low(1)) * 64 + Low(2)) * 64 + Low(3)
      ELSE QuestionMark

\* The characters before i on its line, a line being what lies between two line feeds.
InLine(t, i) == {j \in Begins(t) : j < i /\ \A b \in j..(i - 1) : t[b] # NewLine}
Index(t, i) == Cardinality(InLine(t, i))

\* A line is cut into rows of MaxCols characters.
Wraps(t, i) == t[i] # NewLine /\ Index(t, i) > 0 /\ Index(t, i) % MaxCols = 0
Column(t, i) == Index(t, i) % MaxCols

\* The line feeds before i and the wraps up to it.
Breaks(t, i) == {j \in Begins(t) : IF t[j] = NewLine THEN j < i ELSE j <= i /\ Wraps(t, j)}
Row(t, i) == Cardinality(Breaks(t, i))

\* The pixels of a code point, by membership.
Picture(cp) ==
  LET Of(c) == {i \in DOMAIN Zpix : Zpix[i].codepoint = c}
  IN  UNION {Zpix[i].pixels : i \in IF Of(cp) # {} THEN Of(cp) ELSE Of(QuestionMark)}

\* The pixels of a character in its cell, beyond the last row none.
Cell(t, i, gap) ==
  IF t[i] = NewLine \/ Row(t, i) >= MaxRows THEN {}
  ELSE Moved(Picture(CodePoint(t, i)), TextX + Column(t, i) * (CellSize + gap.column),
                                       TextY + Row(t, i) * (CellSize + gap.line))

OnScreen(points) ==
  {q[2] * EPD_WIDTH + q[1] : q \in points \cap ((0..(EPD_WIDTH - 1)) \X (0..(EPD_HEIGHT - 1)))}

(* epd200x200.c:208-352: when a page has been drawn, a pixel of the screen is
   black exactly when the glyph of the character whose cell is there has it:
   the text is decoded as UTF-8 whatever bytes it has, cut into rows of
   max_cols characters, and only what lies beyond the screen or max_rows is
   lost.  Nothing wraps round to the other side of the screen. *)
TextIsLaidOut ==
  pc = "text" /\ ~TextGoesOn => fb = OnScreen(UNION {Cell(text, i, spacing) : i \in Begins(text)})
=============================================================================
