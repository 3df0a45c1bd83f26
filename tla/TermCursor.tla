----------------------------- MODULE TermCursor -----------------------------
(***************************************************************************)
(* The cursor of the terminal emulator (terminal.c): its position, the     *)
(* pending wrap, the scrolling margins, origin and autowrap mode and the   *)
(* saved cursor, of the screen that shows and of the one that does not,    *)
(* through every operation that moves it, exchanges the screens or changes *)
(* their size.  What the lines hold is in module TermScreen; where their   *)
(* contents decide (tab stops, double-width lines and characters, lines    *)
(* given back by the scrollback, the last line in use) the outcome is any  *)
(* that some contents give.  An operator named Slip... is a plausible      *)
(* mistake in the one it precedes: no action uses it, the mutation runs of *)
(* PROJECT.json put it in that operator's place.                           *)
(***************************************************************************)
EXTENDS Integers

CONSTANTS
    Widths, Heights,    \* the sizes the window is given
    MaxArg,             \* bound: the largest argument of a control sequence
    DecOm, WrapMode,    \* cfg.dec_om and cfg.wrap_mode
    NoAltScreen         \* cfg.no_alt_screen

ASSUME SizesAssumption == Widths \subseteq Nat \ {0} /\ Heights \subseteq Nat \ {0}
ASSUME MaxArgAssumption == MaxArg \in Nat \ {0}
ASSUME ConfigAssumption ==
    /\ DecOm \in BOOLEAN /\ WrapMode \in BOOLEAN
    /\ NoAltScreen \in BOOLEAN

VARIABLES
    rows, cols,   \* the size of the screen
    alt_which,    \* 1 while the alternate screen shows
    vt52_mode,
    cur,          \* the cursor state in use: curs, marg_t, ..., savecurs
    alt           \* that of the other screen: alt_x, alt_t, ..., alt_savecurs

vars == <<rows, cols, alt_which, vt52_mode, cur, alt>>

(* curs.x, curs.y, marg_t, marg_b, dec_om, wrap, wrapnext, savecurs and
   save_wnext. *)
CursorState ==
    [x : Nat, y : Nat, top : Nat, bot : Nat, om : BOOLEAN, wrap : BOOLEAN,
     wnext : BOOLEAN, sx : Nat, sy : Nat, swnext : BOOLEAN]

Lesser(a, b) == IF a <= b THEN a ELSE b
Greater(a, b) == IF a >= b THEN a ELSE b

Args == 1 .. MaxArg

-----------------------------------------------------------------------------
(* Moves of the cursor of state s. *)

(* move()'s marg_clip: 1 keeps a cursor that is inside the margins inside,
   2 brings it inside. *)
SlipRegionClip(s, y, clip) ==
    IF clip # 0 /\ (s.y > s.top \/ clip = 2) /\ y < s.top THEN s.top
    ELSE IF clip # 0 /\ (s.y < s.bot \/ clip = 2) /\ y > s.bot THEN s.bot
    ELSE y

RegionClip(s, y, clip) ==
    IF clip # 0 /\ (s.y >= s.top \/ clip = 2) /\ y < s.top THEN s.top
    ELSE IF clip # 0 /\ (s.y <= s.bot \/ clip = 2) /\ y > s.bot THEN s.bot
    ELSE y

move(s, x, y, clip) ==
    [s EXCEPT !.x = Greater(0, Lesser(x, cols - 1)),
              !.y = Lesser(Greater(RegionClip(s, y, clip), 0), rows - 1),
              !.wnext = FALSE]

LineDown(s) ==
    [s EXCEPT !.y = IF @ # s.bot /\ @ < rows - 1 THEN @ + 1 ELSE @]

LineUp(s, top) == [s EXCEPT !.y = IF @ # top /\ @ > 0 THEN @ - 1 ELSE @]

Wrapped(s) == [LineDown(s) EXCEPT !.x = 0, !.wnext = FALSE]

PendingWrap(s) == IF s.wnext /\ s.wrap THEN Wrapped(s) ELSE s

(* A character that needs two columns, or the first byte of one, does not
   start in the last column.  wrapnext is left as it is. *)
NotInLastColumn(s) ==
    IF s.x = cols - 1 THEN [LineDown(s) EXCEPT !.x = 0] ELSE s

(* The step to the right after a character. *)
Advanced(s) ==
    IF s.x + 1 # cols THEN [s EXCEPT !.x = @ + 1]
    ELSE IF s.wrap /\ vt52_mode THEN Wrapped(s)
    ELSE [s EXCEPT !.wnext = TRUE]

Saved(s) == [s EXCEPT !.sx = s.x, !.sy = s.y, !.swnext = s.wnext]

SlipRestored(s) == [s EXCEPT !.x = s.sx, !.y = s.sy, !.wnext = s.swnext]

Restored(s) ==
    LET x == Lesser(s.sx, cols - 1)
    IN  [s EXCEPT !.x = x, !.y = Lesser(s.sy, rows - 1),
                  !.wnext = s.swnext /\ x >= cols - 1]

-----------------------------------------------------------------------------
(* Both screens. *)

PowerOnState(y, r) ==
    [x |-> 0, y |-> y, top |-> 0, bot |-> r - 1, om |-> DecOm, wrap |-> WrapMode,
     wnext |-> FALSE, sx |-> 0, sy |-> 0, swnext |-> FALSE]

FullRegion(s, r) == [s EXCEPT !.top = 0, !.bot = r - 1]

(* swap_screen(): what the screen that comes to show finds in use. *)
Exchanged(reset, keep_cur_pos) ==
    IF reset THEN cur
    ELSE IF keep_cur_pos
         THEN [alt EXCEPT !.x = cur.x, !.y = cur.y,
                          !.sx = cur.sx, !.sy = cur.sy, !.swnext = cur.swnext]
    ELSE alt

swap_screen(which, reset, keep_cur_pos) ==
    IF which # alt_which THEN Exchanged(reset /\ which = 1, keep_cur_pos) ELSE cur

SlipSwappedOut(which) == cur
SwappedOut(which) == IF which # alt_which THEN cur ELSE alt

(* term_size() moves the primary screen's cursor with its line: down by the
   lines that the scrollback gives back, up by those that go there.  The
   saved cursor goes along, and is put back on the screen. *)
RowAfter(s, r, back) == IF r >= rows THEN s.y + back ELSE Lesser(s.y, r - 1)
OnScreen(y, r) == Lesser(Greater(y, 0), r - 1)

MainSized(s, r, c, back) ==
    [FullRegion(s, r) EXCEPT
        !.x = Lesser(@, c - 1),
        !.y = OnScreen(RowAfter(s, r, back), r),
        !.sy = OnScreen(@ + RowAfter(s, r, back) - s.y, r),
        !.wnext = FALSE]

(* The alternate screen is new and its cursor at home. *)
AltSized(s, r) == [FullRegion(s, r) EXCEPT !.x = 0, !.y = 0, !.wnext = FALSE]

Sized(s, main, r, c, back) ==
    IF main THEN MainSized(s, r, c, back) ELSE AltSized(s, r)

-----------------------------------------------------------------------------

Init ==
    /\ rows \in Heights /\ cols \in Widths
    /\ alt_which = 0 /\ vt52_mode = FALSE
    /\ cur = PowerOnState(0, rows)
    /\ alt = PowerOnState(0, rows)

Sizes == <<rows, cols>>
Others == <<rows, cols, alt_which, vt52_mode, alt>>

(* A printing character of one column; lead: it is the first byte of a
   two-byte character. *)
Char ==
    /\ \E lead \in BOOLEAN :
          LET s == PendingWrap(cur)
          IN  cur' = Advanced(IF lead THEN NotInLastColumn(s) ELSE s)
    /\ UNCHANGED Others

(* A double-width character. *)
WideChar ==
    /\ LET s == NotInLastColumn(PendingWrap(cur))
       IN  cur' = Advanced([s EXCEPT !.x = @ + 1])
    /\ UNCHANGED Others

Backspaced(s) ==
    IF s.x = 0
    THEN IF s.y = 0 \/ ~s.wrap THEN s ELSE [s EXCEPT !.x = cols - 1, !.y = @ - 1]
    ELSE IF s.wnext THEN [s EXCEPT !.wnext = FALSE]
    ELSE [s EXCEPT !.x = @ - 1]

Backspace == cur' = Backspaced(cur) /\ UNCHANGED Others

Delete ==
    /\ cur' = [cur EXCEPT !.x = IF @ # 0 /\ ~cur.wnext THEN @ - 1 ELSE @,
                          !.wnext = FALSE]
    /\ UNCHANGED Others

(* CR, and VT52 ESC l. *)
CarriageReturn ==
    cur' = [cur EXCEPT !.x = 0, !.wnext = FALSE] /\ UNCHANGED Others

(* IND; NEL; LF, VT and FF, which are either as cfg.lfhascr says. *)
LineFeed ==
    /\ \E cr \in BOOLEAN :
          cur' = [LineDown(cur) EXCEPT !.x = IF cr THEN 0 ELSE @, !.wnext = FALSE]
    /\ UNCHANGED Others

(* RI, and VT52 ESC I, for which the region is the screen. *)
ReverseIndex ==
    /\ \E top \in {0, cur.top} : cur' = [LineUp(cur, top) EXCEPT !.wnext = FALSE]
    /\ UNCHANGED Others

(* HT goes to a tab stop or the last column, of a double-width line (double)
   to the last column it shows. *)
Tab ==
    /\ \E c \in cur.x + 1 .. Greater(cols - 1, cur.x + 1), double \in BOOLEAN :
          cur' = [cur EXCEPT !.x = Lesser(c, (IF double THEN cols \div 2 ELSE cols) - 1)]
    /\ UNCHANGED Others

(* CBT *)
BackTab ==
    /\ \E c \in 0 .. cur.x - 1 : cur' = [cur EXCEPT !.x = c]
    /\ UNCHANGED Others

(* CUU, CUD, VPR, CUF, HPR, CUB, CNL, CPL and the VT52 cursor keys. *)
MoveBy ==
    /\ \E n \in Args :
          \/ \E dy \in {-n, n} : \E x \in {0, cur.x} : cur' = move(cur, x, cur.y + dy, 1)
          \/ \E dx \in {-n, n} : cur' = move(cur, cur.x + dx, cur.y, 1)
    /\ UNCHANGED Others

(* CHA and HPA; VT52 ESC H and ESC Y, which know no origin mode. *)
MoveTo ==
    /\ \E n \in Args : \/ cur' = move(cur, n - 1, cur.y, 0)
                       \/ cur' = move(cur, cur.x, n - 1, 0)
                       \/ cur' = move(cur, 0, 0, 0)
    /\ UNCHANGED Others

(* VPA, CUP and HVP: rows count from the region's top in origin mode. *)
SetPosition ==
    /\ \E n \in Args, x \in {cur.x} \union {m - 1 : m \in Args} :
          cur' = move(cur, x, (IF cur.om THEN cur.top ELSE 0) + n - 1,
                      IF cur.om THEN 2 ELSE 0)
    /\ UNCHANGED Others

(* DECSC, SCOSC, 1048 h; DECRC, SCORC, 1048 l. *)
SaveCursor == cur' = Saved(cur) /\ UNCHANGED Others
RestoreCursor == cur' = Restored(cur) /\ UNCHANGED Others

(* DECSTBM; a region of less than two lines is not accepted. *)
SetMargins ==
    /\ \E top \in Args, last \in Args \union {rows} :
          LET bot == Lesser(last, rows) - 1
          IN  /\ bot - (top - 1) > 0
              /\ cur' = [cur EXCEPT !.top = top - 1, !.bot = bot, !.x = 0,
                                    !.y = IF cur.om THEN top - 1 ELSE 0]
    /\ UNCHANGED Others

(* SU and SD leave the cursor and forget a pending wrap. *)
ScrollRegion == cur' = [cur EXCEPT !.wnext = FALSE] /\ UNCHANGED Others

(* DECOM and DECAWM. *)
SetMode ==
    /\ \E state \in BOOLEAN :
          cur' = [cur EXCEPT !.om = state] \/ cur' = [cur EXCEPT !.wrap = state]
    /\ UNCHANGED Others

(* DECANM, and VT52 ESC <. *)
SetVT52 ==
    /\ vt52_mode' \in BOOLEAN
    /\ UNCHANGED <<rows, cols, alt_which, cur, alt>>

(* Private modes 47, 1047 and 1049. *)
ToScreen(which) ==
    /\ ~NoAltScreen
    /\ alt_which' = which
    /\ UNCHANGED <<rows, cols, vt52_mode>>

Mode47 ==
    \E which \in {0, 1} :
        /\ ToScreen(which)
        /\ cur' = swap_screen(which, FALSE, FALSE)
        /\ alt' = SwappedOut(which)

Mode1047 ==
    \E which \in {0, 1} :
        /\ ToScreen(which)
        /\ cur' = swap_screen(which, TRUE, TRUE)
        /\ alt' = SwappedOut(which)

(* 1049 saves the cursor before it goes and restores it when it is back. *)
Enter1049 ==
    /\ ToScreen(1)
    /\ cur' = Saved(cur)
    /\ alt' = IF alt_which = 0 THEN Saved(cur) ELSE alt

Leave1049 ==
    /\ ToScreen(0)
    /\ cur' = Restored(swap_screen(0, TRUE, FALSE))
    /\ alt' = SwappedOut(0)

(* DECCOLM, which may ask for another width. *)
ColumnMode ==
    \E c \in Widths \union {cols}, sized \in BOOLEAN :
        /\ sized <=> c # cols
        /\ cols' = c
        /\ cur' = [FullRegion(cur, rows) EXCEPT !.x = 0, !.y = 0, !.wnext = FALSE,
                      !.sy = IF sized /\ alt_which = 0 THEN OnScreen(@, rows) ELSE @]
        /\ alt' = IF sized THEN Sized(alt, alt_which = 1, rows, c, 0)
                  ELSE FullRegion(alt, rows)
        /\ UNCHANGED <<rows, alt_which, vt52_mode>>

(* RIS and term_pwron(): power_on(), after which RIS may put the width back;
   the cursor goes below the last line in use. *)
PowerOn ==
    /\ \E y \in 0 .. rows - 1 : cur' = PowerOnState(y, rows)
    /\ alt' = PowerOnState(0, rows)
    /\ alt_which' = 0
    /\ cols' \in Widths \union {cols}
    /\ UNCHANGED <<rows, vt52_mode>>

(* term_size(), by the user or the host; term_size() on the size it has does
   nothing. *)
Resize ==
    \E r \in Heights, c \in Widths :
        /\ <<r, c>> # Sizes
        /\ rows' = r /\ cols' = c
        /\ \E back \in 0 .. Greater(r - rows, 0) :
              /\ cur' = Sized(cur, alt_which = 0, r, c, back)
              /\ alt' = Sized(alt, alt_which = 1, r, c, back)
        /\ UNCHANGED <<alt_which, vt52_mode>>

Next ==
    \/ Char \/ WideChar \/ Backspace \/ Delete \/ CarriageReturn \/ LineFeed
    \/ ReverseIndex \/ Tab \/ BackTab \/ MoveBy \/ MoveTo \/ SetPosition
    \/ SaveCursor \/ RestoreCursor \/ SetMargins \/ ScrollRegion
    \/ SetMode \/ SetVT52
    \/ Mode47 \/ Mode1047 \/ Enter1049 \/ Leave1049
    \/ ColumnMode \/ PowerOn \/ Resize

Spec == Init /\ [][Next]_vars

-----------------------------------------------------------------------------
(* Types.  A saved cursor is never above or left of the screen, so that
   save_cursor(), which brings it back from below the bottom and beyond the
   right edge only, brings it back from wherever a resize has left it. *)
TypeOK ==
    /\ rows \in Heights /\ cols \in Widths
    /\ alt_which \in {0, 1} /\ vt52_mode \in BOOLEAN
    /\ cur \in CursorState /\ alt \in CursorState

(* Cursor state s is fit for the screen. *)
OnScreenOK(s) == s.x \in 0 .. cols - 1 /\ s.y \in 0 .. rows - 1
RegionOK(s) ==
    /\ 0 <= s.top /\ s.top <= s.bot /\ s.bot < rows
    /\ rows > 1 => s.top < s.bot

(* The cursor of each screen is in one of its cells, the place the next
   character is written to, whatever the sequence of characters, moves,
   saves and restores, screen changes and resizes that led there. *)
CursorOnScreen == OnScreenOK(cur) /\ OnScreenOK(alt)

(* The scroll region of each screen is made of rows of the screen, two at
   least when there are two: what scroll() takes for granted. *)
MarginsOnScreen == RegionOK(cur) /\ RegionOK(alt)

(* A cursor inside the scroll region is kept inside by every relative move and
   by line feeds, and brought inside by every absolute one in origin mode. *)
Inside(s, y) == s.top <= y /\ y <= s.bot
MovesKeepToRegion ==
    [][ /\ (MoveBy \/ LineFeed) /\ Inside(cur, cur.y) => Inside(cur, cur'.y)
        /\ SetPosition /\ cur.om => Inside(cur, cur'.y) ]_vars

(* What a program does on the alternate screen leaves the position, modes and
   saved cursor of the primary as they were, to be found there again. *)
Kept(s) == <<s.x, s.y, s.om, s.wrap, s.wnext, s.sx, s.sy, s.swnext>>
PrimaryCursorKept ==
    [][ (alt_which = 1 /\ alt_which' = 1 /\ <<rows, cols>>' = <<rows, cols>>)
        => Kept(alt') = Kept(alt) ]_vars

=============================================================================
