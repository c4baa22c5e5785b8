-------------------------------- MODULE Epd --------------------------------
(***************************************************************************)
(* The e-paper driver src/src/epd200x200.c with its panel, and the program *)
(* that uses it, src/src/main_chip_info.c.                                 *)
(*                                                                         *)
(* A function of the driver is a drawing, made here step by step, and a    *)
(* script of operations on the pins and the SPI bus, each of which may     *)
(* fail and end the call.  The panel is external: what it is taken to do   *)
(* is what the driver relies on (a register takes the bytes that follow    *)
(* its command, the memory address moves through the window, commands are  *)
(* lost while BUSY is high, which it is from a reset or an update on).     *)
(***************************************************************************)
EXTENDS EpdDraw

CONSTANTS
  TextX, TextY, MaxCols, MaxRows,   \* of the demo: 4, 30, 16, 12
  LINE_SPACING_DEFAULT,             \* 3
  Spacings,                         \* arguments of the spacing functions to try
  FirstTexts, NextPage,             \* first pages of the first call to try; all other pages
  PageCount,
  Shapes,                           \* the primitives of show_demo to try
  MaxCalls,                         \* calls that an application makes
  BREATH_MAX, HUE_MAX               \* 64 and 255

\* A shape is the arguments of a primitive; w and h are the other end of a line.
Lines == [kind : {"hline"}, x : Int, w : Int, y : Int, black : BOOLEAN, onBlack : BOOLEAN]
           \cup [kind : {"vline"}, x : Int, y : Int, h : Int, black : BOOLEAN, onBlack : BOOLEAN]
Boxes == [kind : {"rect", "fill"}, x : Int, y : Int, w : Int, h : Int,
          black : BOOLEAN, onBlack : BOOLEAN]
ShortTexts == [kind : {"text"}, x : Int, y : Int, chars : Seq(STRING),
               black : BOOLEAN, onBlack : BOOLEAN]

ASSUME TextAssumption ==
  /\ TextX \in Int /\ TextY \in Int /\ MaxCols \in Nat \ {0} /\ MaxRows \in Nat
  /\ LINE_SPACING_DEFAULT \in Nat /\ Spacings \subseteq Int
  /\ \A t \in FirstTexts \cup {NextPage} : t \in Seq(1..255)   \* a zero byte ends a text
ASSUME ShapesAssumption == \A s \in Shapes : s \in Lines \/ s \in Boxes \/ s \in ShortTexts
\* MaxCalls leaves main of main_chip_info.c its two.
ASSUME CallsAssumption ==
  /\ PageCount \in Nat \ {0} /\ MaxCalls \in Nat \ {0, 1}
  /\ BREATH_MAX \in Nat \ {0} /\ HUE_MAX \in Nat \ {0}

VARIABLES
  fb, spacing,                      \* epd_framebuf; [line, column]
  pc, ops, page,                    \* where a call is, what is left of its script
  text, p, col, row,                \* the locals of epd_fb_draw_utf8_text12
  shape,                            \* what show_demo draws
  sawBusy,                          \* epd_wait_idle has read BUSY high
  who, call, ret, calls, lateStart, \* the caller, its last call and the result
  panel, led

drawVars == <<fb, spacing, text, p, col, row, shape>>
callVars == <<who, call, ret, calls, lateStart>>
vars == <<drawVars, pc, ops, page, sawBusy, callVars, panel, led>>

EPD_FB_SIZE == (EPD_WIDTH * EPD_HEIGHT) \div 8

----------------------------------------------------------------------------
(* The panel.  ram and shown say, for every byte of the picture, which byte of
   the current frame buffer is there. *)

Stale == -1
Registers == {\h01, \h11, \h18, \h22, \h3C, \h44, \h45, \h4E, \h4F}
AllStale == [i \in 0..(EPD_FB_SIZE - 1) |-> Stale]

PanelReset == [cmd |-> 0, regs |-> [r \in Registers |-> <<>>], cursor |-> <<0, 0>>,
               busy |-> FALSE, ram |-> AllStale, shown |-> AllStale]

Arg(d, r, k) == IF Len(d.regs[r]) >= k THEN d.regs[r][k] ELSE 0

PanelCommand(d, c) ==
  IF d.busy THEN d
  ELSE IF c = \h12 THEN [PanelReset EXCEPT !.busy = TRUE, !.shown = d.shown]
  ELSE IF c = \h20 THEN
    [d EXCEPT !.cmd = c, !.busy = TRUE, !.shown = IF Arg(d, \h22, 1) = \hF7 THEN d.ram ELSE @]
  ELSE [d EXCEPT !.cmd = c, !.regs = IF c \in Registers THEN [@ EXCEPT ![c] = <<>>] ELSE @]

\* A byte of the picture is stored at the cursor, which moves on through the window.
PanelStore(d, b) ==
  LET x == d.cursor[1]
      y == d.cursor[2]
      at == y * (EPD_WIDTH \div 8) + x
      next == IF x # Arg(d, \h44, 2) THEN <<x + 1, y>>
              ELSE <<Arg(d, \h44, 1), IF y # Arg(d, \h45, 3) THEN y + 1 ELSE Arg(d, \h45, 1)>>
  IN  [d EXCEPT !.ram = IF at \in DOMAIN @ THEN [@ EXCEPT ![at] = b] ELSE @, !.cursor = next]

PanelData(d, b) ==
  IF d.busy THEN d
  ELSE IF d.cmd = \h24 THEN PanelStore(d, b)
  ELSE IF d.cmd \notin Registers THEN d
  ELSE LET e == [d EXCEPT !.regs[d.cmd] = Append(@, b)]
       IN  [e EXCEPT !.cursor = IF d.cmd = \h4E THEN <<b, @[2]>>
                                ELSE IF d.cmd = \h4F /\ Len(e.regs[\h4F]) = 1 THEN <<@[1], b>>
                                ELSE @]

PanelIdle == panel.busy /\ panel' = [panel EXCEPT !.busy = FALSE]
             /\ UNCHANGED <<drawVars, pc, ops, page, sawBusy, callVars, led>>

----------------------------------------------------------------------------
(* Scripts *)

Command(c) == [op |-> "command", byte |-> c]
Byte(b) == [op |-> "data", byte |-> b]
FrameBytes == [i \in 1..EPD_FB_SIZE |-> Byte(i - 1)]      \* byte i of the picture is i
WaitIdle == [op |-> "wait"]
ResetSequence == [op |-> "reset"]
ConfigurePins == [op |-> "configure"]

Lo(v) == v % 256
Hi(v) == (v \div 256) % 256

SetRamFullWindow ==
  <<Command(\h44), Byte(0), Byte((EPD_WIDTH \div 8) - 1),
    Command(\h45), Byte(0), Byte(0), Byte(Lo(EPD_HEIGHT - 1)), Byte(Hi(EPD_HEIGHT - 1))>>

SetRamCursorOrigin ==
  <<Command(\h4E), Byte(0), Command(\h4F), Byte(0), Byte(0)>>

UpdateDisplay == <<Command(\h22), Byte(\hF7), Command(\h20), WaitIdle>>

\* Mutant: the cursor is left where the last picture ended.
PresentFromCursor == SetRamFullWindow \o <<Command(\h24)>> \o FrameBytes \o UpdateDisplay

PresentFramebuf ==
  SetRamFullWindow \o SetRamCursorOrigin \o <<Command(\h24)>> \o FrameBytes \o UpdateDisplay

InitScript ==
  <<ConfigurePins, ResetSequence, Command(\h12), WaitIdle,
    Command(\h01), Byte(Lo(EPD_HEIGHT - 1)), Byte(Hi(EPD_HEIGHT - 1)), Byte(0),
    Command(\h11), Byte(3)>>
    \o SetRamFullWindow \o SetRamCursorOrigin
    \o <<Command(\h3C), Byte(5), Command(\h18), Byte(\h80)>>

----------------------------------------------------------------------------
(* One operation of a script *)

InScript(op) == pc = "io" /\ ops # <<>> /\ Head(ops).op = op

Succeeds == ops' = Tail(ops) /\ UNCHANGED <<pc, ret>>
Fails == ops' = <<>> /\ pc' = "idle" /\ ret' = "error"
KeepCall == UNCHANGED <<drawVars, page, who, call, calls, lateStart, led>>

\* epd_write_bytes: a pin fails before anything is sent, or the bus at any
\* point; the picture is one transfer, which may break off after any byte.
WriteByte ==
  /\ InScript("command") \/ InScript("data")
  /\ LET b == Head(ops).byte
         sent == IF Head(ops).op = "command" THEN PanelCommand(panel, b) ELSE PanelData(panel, b)
     IN  \/ panel' = sent /\ Succeeds
         \/ panel' \in {panel, sent} /\ Fails
  /\ KeepCall /\ UNCHANGED sawBusy

\* One turn of the loop of epd_wait_idle, which reads BUSY at least once.
PollBusy ==
  /\ InScript("wait")
  /\ \/ panel.busy /\ sawBusy' = TRUE /\ UNCHANGED <<ops, pc, ret>>
     \/ ~panel.busy /\ Succeeds /\ sawBusy' = FALSE
  /\ KeepCall /\ UNCHANGED panel

PollFails ==
  /\ InScript("wait")
  /\ Fails /\ sawBusy' = FALSE
  /\ KeepCall /\ UNCHANGED panel

\* Mutant: the wait has no deadline.
WaitForEver == FALSE

\* The deadline passes: BUSY is not read once more.
WaitTimesOut ==
  /\ InScript("wait") /\ sawBusy
  /\ Fails /\ sawBusy' = FALSE
  /\ KeepCall /\ UNCHANGED panel

ResetPanel ==
  /\ InScript("reset")
  /\ \/ panel' = [PanelReset EXCEPT !.shown = panel.shown] /\ Succeeds
     \/ panel' \in {panel, [PanelReset EXCEPT !.shown = panel.shown]} /\ Fails
  /\ KeepCall /\ UNCHANGED sawBusy

\* The devices are not ready, or a pin cannot be configured.
PinsConfigured ==
  /\ InScript("configure")
  /\ Succeeds \/ Fails
  /\ KeepCall /\ UNCHANGED <<panel, sawBusy>>

----------------------------------------------------------------------------
(* Drawing *)

\* The frame buffer is about to change: nothing the panel has is the new picture.
Forget == panel' = [panel EXCEPT !.ram = AllStale, !.shown = AllStale]
KeepIo == UNCHANGED <<sawBusy, callVars, led>>

Present == pc' = "io" /\ ops' = PresentFramebuf

\* A page of the demo: the first is the caller's choice, the rest are alike.
BeginPage ==
  /\ pc = "page"
  /\ fb' = FbClear(FALSE) /\ Forget
  /\ text' = (IF page = 1 THEN text ELSE NextPage) /\ p' = 1 /\ col' = 0 /\ row' = 0
  /\ pc' = "text"
  /\ KeepIo /\ UNCHANGED <<spacing, shape, ops, page>>

LinePitch == CellSize + Larger(spacing.line, 0)
ColPitch == CellSize + Larger(spacing.column, 0)

NewLine == 10
TextGoesOn == pc = "text" /\ p <= Len(text) /\ row < MaxRows

DrawNewLine ==
  /\ TextGoesOn /\ text[p] = NewLine
  /\ p' = p + 1 /\ col' = 0 /\ row' = row + 1
  /\ KeepIo /\ UNCHANGED <<fb, spacing, text, shape, pc, ops, page, panel>>

\* Mutant: a row is full one character late.
DrawGlyphLateWrap ==
  /\ TextGoesOn /\ text[p] # NewLine
  /\ LET wraps == col > MaxCols
         c == IF wraps THEN 0 ELSE col
         r == IF wraps THEN row + 1 ELSE row
         d == Utf8DecodeOne(text, p)
     IN  /\ row' = r /\ col' = c + 1 /\ p' = d.next
         /\ fb' = DrawGlyph12(fb, TextX + c * ColPitch, TextY + r * LinePitch, GlyphFor(d.cp), TRUE)
  /\ KeepIo /\ UNCHANGED <<spacing, text, shape, pc, ops, page, panel>>

DrawGlyph ==
  /\ TextGoesOn /\ text[p] # NewLine
  /\ LET wraps == col >= MaxCols
         c == IF wraps THEN 0 ELSE col
         r == IF wraps THEN row + 1 ELSE row
         d == Utf8DecodeOne(text, p)
     IN  /\ row' = r
         /\ IF r >= MaxRows
              THEN col' = c /\ UNCHANGED <<fb, p>>
              ELSE /\ fb' = DrawGlyph12(fb, TextX + c * ColPitch, TextY + r * LinePitch,
                                        GlyphFor(d.cp), TRUE)
                   /\ p' = d.next /\ col' = c + 1
  /\ KeepIo /\ UNCHANGED <<spacing, text, shape, pc, ops, page, panel>>

NoText == text' = <<>> /\ p' = 1 /\ col' = 0 /\ row' = 0

TextEnds ==
  /\ pc = "text" /\ ~TextGoesOn
  /\ Present /\ NoText
  /\ KeepIo /\ UNCHANGED <<fb, spacing, shape, page, panel>>

\* A primitive of show_demo on the white screen, or on one that another has made black.
Drawn(s) ==
  LET f == FbClear(s.onBlack)
  IN  CASE s.kind = "hline" -> DrawHline(f, s.x, s.w, s.y, s.black)
        [] s.kind = "vline" -> DrawVline(f, s.x, s.y, s.h, s.black)
        [] s.kind = "rect" -> DrawRect(f, s.x, s.y, s.w, s.h, s.black)
        [] s.kind = "fill" -> FillRect(f, s.x, s.y, s.w, s.h, s.black)
        [] s.kind = "text" -> DrawText5x7(f, s.x, s.y, s.chars, s.black)

NoShape == [kind |-> "none"]

DrawShape ==
  /\ pc = "shape"
  /\ fb' = Drawn(shape) /\ pc' = "shaped"
  /\ KeepIo /\ UNCHANGED <<spacing, text, p, col, row, shape, ops, page, panel>>

ShapeEnds ==
  /\ pc = "shaped"
  /\ Present /\ shape' = NoShape
  /\ KeepIo /\ UNCHANGED <<fb, spacing, text, p, col, row, page, panel>>

----------------------------------------------------------------------------
(* The functions of epd200x200.h *)

Idle == pc = "idle"

Calls(name) ==
  /\ call' = name /\ ret' = "none" /\ calls' = calls + 1 /\ lateStart' = panel.busy
  /\ page' = 1
  /\ UNCHANGED <<who, spacing, p, col, row, led, sawBusy>>

DriverInit ==
  /\ Calls("init")
  /\ pc' = "io" /\ ops' = InitScript
  /\ UNCHANGED <<fb, text, shape, panel>>

Clear(black) ==
  /\ Calls("clear")
  /\ fb' = FbClear(black) /\ Forget /\ Present
  /\ UNCHANGED <<text, shape>>

ShowDemo(s) ==
  /\ Calls("demo")
  /\ fb' = FbClear(FALSE) /\ Forget
  /\ shape' = s /\ pc' = "shape" /\ UNCHANGED <<text, ops>>

ShowGrayscale ==
  /\ Calls("gray")
  /\ fb' = Grayscale /\ Forget /\ Present
  /\ UNCHANGED <<text, shape>>

ShowChineseDemo(first) ==
  /\ Calls("chinese")
  /\ pc' = "page" /\ text' = first
  /\ UNCHANGED <<fb, shape, ops, panel>>

\* The script has ended: three seconds later the next page, or the end of the call.
ScriptEnds ==
  /\ pc = "io" /\ ops = <<>>
  /\ IF call = "chinese" /\ page < PageCount
       THEN page' = page + 1 /\ pc' = "page" /\ UNCHANGED ret
       ELSE page' = page /\ pc' = "idle" /\ ret' = "ok"
  /\ UNCHANGED <<drawVars, ops, sawBusy, who, call, calls, lateStart, panel, led>>

SetSpacing(line, column) ==
  /\ Idle /\ who = "app" /\ call = "none"
  /\ spacing' = [line |-> Larger(line, 0), column |-> Larger(column, 0)]
  /\ UNCHANGED <<fb, text, p, col, row, shape, pc, ops, page, sawBusy, callVars, panel, led>>

----------------------------------------------------------------------------
(* The callers *)

\* An application shows what it likes, and goes on when a call has failed, unless that was the first.
AppCalls ==
  /\ who = "app" /\ Idle /\ calls < MaxCalls
  /\ \/ call = "none" /\ DriverInit
     \/ /\ call # "none" /\ (call = "init" => ret = "ok")
        /\ \/ calls = 1 /\ \E s \in Shapes : ShowDemo(s)
           \/ \E black \in BOOLEAN : Clear(black)
           \/ ShowGrayscale
           \/ \E t \in IF calls = 1 THEN FirstTexts ELSE {NextPage} : ShowChineseDemo(t)

\* main of main_chip_info.c: the demo once, whose failure is only printed.
MainCalls ==
  /\ who = "main" /\ Idle
  /\ \/ call = "none" /\ DriverInit
     \/ call = "init" /\ ret = "ok" /\ ShowChineseDemo(NextPage)

KeepDriver == UNCHANGED <<drawVars, ops, page, sawBusy, callVars, panel>>

\* Then the light, or the end when the strip is not ready.
MainLights ==
  /\ who = "main" /\ Idle
  /\ call = "chinese" \/ (call = "init" /\ ret = "error")
  /\ pc' \in {"led", "stopped"}
  /\ KeepDriver /\ UNCHANGED led

Breathe ==
  /\ pc = "led"
  /\ LET breath == led.breath + led.breath_dir
         hue == led.hue + led.hue_dir
         Bounded(v, max) == IF v >= max THEN max ELSE IF v <= 0 THEN 0 ELSE v
         Turned(v, max, dir) == IF v >= max THEN -1 ELSE IF v <= 0 THEN 1 ELSE dir
     IN  led' = [breath |-> Bounded(breath, BREATH_MAX),
                 breath_dir |-> Turned(breath, BREATH_MAX, led.breath_dir),
                 hue |-> Bounded(hue, HUE_MAX),
                 hue_dir |-> Turned(hue, HUE_MAX, led.hue_dir)]
  /\ KeepDriver /\ UNCHANGED pc

Green == (led.breath * (HUE_MAX - led.hue)) \div HUE_MAX
Blue == (led.breath * led.hue) \div HUE_MAX

Init ==
  /\ fb = FbClear(TRUE)                    \* a static array, all zero
  /\ spacing = [line |-> LINE_SPACING_DEFAULT, column |-> 0]
  /\ pc = "idle" /\ ops = <<>> /\ page = 1
  /\ text = <<>> /\ p = 1 /\ col = 0 /\ row = 0 /\ shape = NoShape
  /\ sawBusy = FALSE
  /\ who \in {"main", "app"} /\ call = "none" /\ ret = "none" /\ calls = 0 /\ lateStart = FALSE
  /\ panel = PanelReset
  /\ led = [breath |-> 0, breath_dir |-> 1, hue |-> 0, hue_dir |-> 1]

\* What the driver does within a call.  That BUSY cannot be read is no part of it: no call
\* may rely on an error in order to return.
Drive ==
  \/ WriteByte \/ PollBusy \/ WaitTimesOut \/ ResetPanel \/ PinsConfigured
  \/ BeginPage \/ DrawNewLine \/ DrawGlyph \/ TextEnds
  \/ DrawShape \/ ShapeEnds \/ ScriptEnds

Next ==
  \/ Drive \/ PollFails
  \/ AppCalls \/ MainCalls \/ MainLights \/ Breathe
  \/ \E line, column \in Spacings : SetSpacing(line, column)
  \/ PanelIdle

Spec == Init /\ [][Next]_vars /\ WF_vars(Drive)

----------------------------------------------------------------------------
(* Properties *)

EpdTypeOK ==
  /\ fb \subseteq 0..(EPD_WIDTH * EPD_HEIGHT - 1)
  /\ spacing.line \in Nat /\ spacing.column \in Nat
  /\ pc \in {"idle", "page", "text", "shape", "shaped", "io", "led", "stopped"}
  /\ page \in 1..PageCount /\ calls \in 0..MaxCalls
  /\ col \in 0..MaxCols /\ row \in 0..MaxRows /\ p \in 1..(Len(text) + 1)
  /\ ret \in {"none", "ok", "error"} /\ (ret = "none" => call = "none" \/ ~Idle)
  /\ DOMAIN panel.ram = 0..(EPD_FB_SIZE - 1)
  /\ led.breath \in 0..BREATH_MAX /\ led.hue \in 0..HUE_MAX /\ Green + Blue <= led.breath

\* The pixels of a shape, by membership.
Covers(s, x, y) ==
  LET Between(v, a, b) == v >= Smaller(a, b) /\ v <= Larger(a, b)
      Within == x >= s.x /\ x < s.x + s.w /\ y >= s.y /\ y < s.y + s.h
      Inner == x > s.x /\ x < s.x + s.w - 1 /\ y > s.y /\ y < s.y + s.h - 1
  IN  CASE s.kind = "hline" -> y = s.y /\ Between(x, s.x, s.w)
        [] s.kind = "vline" -> x = s.x /\ Between(y, s.y, s.h)
        [] s.kind = "fill" -> Within
        [] s.kind = "rect" -> Within /\ ~Inner
        [] s.kind = "text" ->
             \E i \in DOMAIN s.chars : s.chars[i] \in DOMAIN Font5x7
               /\ <<x - (s.x + (i - 1) * 6), y - s.y>> \in Font5x7[s.chars[i]]

(* epd200x200.c:42-139, 158-206: a primitive changes the pixels of its shape
   that are on the screen, whatever its coordinates, and no other. *)
ShapesAreClipped ==
  pc = "shaped" =>
    \A x \in 0..(EPD_WIDTH - 1), y \in 0..(EPD_HEIGHT - 1) :
      (y * EPD_WIDTH + x \in fb) <=> IF Covers(shape, x, y) THEN shape.black ELSE shape.onBlack

(* epd200x200.c:374-583: when a function that shows something returns 0, the
   panel shows the frame buffer, whole, and is idle, even after calls that
   failed half-way through a command or through the picture.  The condition is
   that the panel was idle when the function was called: see the README for
   the call after one that timed out. *)
ShownWhenOk ==
  Idle /\ ret = "ok" /\ call # "init" /\ ~lateStart =>
    /\ \A i \in 0..(EPD_FB_SIZE - 1) : panel.shown[i] = i
    /\ ~panel.busy

(* epd200x200.c:418-437: every call returns, with a panel that is never idle, too. *)
CallsReturn == [](pc \notin {"idle", "led", "stopped"} => <>Idle)
=============================================================================
