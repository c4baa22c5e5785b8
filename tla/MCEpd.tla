------------------------------- MODULE MCEpd -------------------------------
(* A display of 16 by 6 pixels with glyphs of 3 by 3: two characters fill a
   row, and the second is cut by the edge of the screen, as the second row is. *)
EXTENDS EpdLayout

CONSTANT MaxText

Corner == {<<0, 0>>, <<2, 0>>, <<1, 2>>}
MCZpix == << [codepoint |-> 63, pixels |-> {<<0, 0>>, <<2, 2>>}],
             [codepoint |-> 65, pixels |-> Corner],
             [codepoint |-> 248, pixels |-> {<<2, 1>>, <<0, 2>>}],
             [codepoint |-> 19998, pixels |-> {<<1, 0>>, <<1, 1>>, <<1, 2>>}] >>
MCFont5x7 == [E |-> {<<0, 0>>, <<4, 6>>}, S |-> {<<1, 0>>, <<4, 3>>}]

(* A line feed, a letter, the bytes of U+00F8 and U+4E38, the first byte of
   a sequence of four and one that begins none. *)
TextBytes == {10, 65, 195, 228, 184, 240, 255}
MCFirstTexts == UNION {[1..k -> TextBytes] : k \in 0..MaxText}
MCNextPage == <<228, 184, 184, 66>>

MCSpacings == {-1, 2}
Coordinates == {-3, 0, 5, 15, 17}
MCShapes ==
  [kind : {"hline"}, x : Coordinates, w : Coordinates, y : {-1, 0, 7, 8},
   black : BOOLEAN, onBlack : BOOLEAN]
    \cup [kind : {"vline"}, y : {-1, 0, 3, 9}, h : {-1, 2, 7, 9}, x : {-1, 0, 15, 16},
          black : BOOLEAN, onBlack : BOOLEAN]
    \cup [kind : {"rect", "fill"}, x : {-2, 0, 13}, y : {-2, 0, 6}, w : {0, 1, 4, 20},
          h : {0, 1, 4, 12}, black : BOOLEAN, onBlack : BOOLEAN]
    \cup [kind : {"text"}, x : {-2, 0, 9}, y : {-1, 0, 5}, chars : {<<"E", "S">>, <<"S", "X", "E">>},
          black : BOOLEAN, onBlack : BOOLEAN]
=============================================================================
