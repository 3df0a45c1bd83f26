----------------------------- MODULE TermScreen -----------------------------
(***************************************************************************)
(* The line storage of the terminal emulator (terminal.c): the primary and *)
(* alternate screens, the scrollback, the viewport and the selection, and  *)
(* every operation that moves lines between them.  Rows are numbered from  *)
(* 0 as in the code; row -k of the buffer is the k-th line above the       *)
(* screen.  Columns are abstracted away (module TermCursor has them): a    *)
(* line is a label, or Blank, and its LATTR_WRAPPED attribute.             *)
(*                                                                         *)
(* The operators take and return the fields of struct terminal_tag that    *)
(* they touch, as a record t, so that a handler made of several calls is   *)
(* their composition in the order the code makes them.  An operator named  *)
(* Slip... is a plausible mistake in the one it precedes: no action uses   *)
(* it, the mutation runs of PROJECT.json put it in that operator's place.  *)
(***************************************************************************)
EXTENDS Integers, Sequences

CONSTANTS
    Blank,    \* a line all of whose cells are term->erase_char
    Configs   \* the settings term->cfg, and the bounds of a behaviour under each

VARIABLES
    cfg,      \* the member of Configs in force, which no operation changes
    term,     \* the terminal_tag fields of this module
    erased    \* history: the labels a whole-screen erase has thrown away

SaveLines == cfg.savelines                     \* the scrollback's capacity
EraseToScrollback == cfg.erase_to_scrollback
NoAltScreen == cfg.no_alt_screen
Text == cfg.text           \* bound: what the program writes on the primary screen
AltText == cfg.alttext     \* bound: what it writes on the alternate screen
Heights == cfg.heights     \* bound: the numbers of rows the window is given
Wrapping == cfg.wrapping   \* bound: whether characters are let wrap
MaxCount == cfg.maxcount   \* bound: the largest count argument of SU, SD, IL, DL
Regions == cfg.regions     \* bound: the <<top, bottom>> margins DECSTBM is given
ViewRows == cfg.viewrows   \* bound: the rows the view is scrolled to
MouseRows == cfg.mouserows \* bound: the window rows the mouse is used on

ASSUME ConfigAssumption ==
    \A c \in Configs :
        /\ c.savelines \in Nat
        /\ {c.erase_to_scrollback, c.no_alt_screen, c.wrapping} \subseteq BOOLEAN
        /\ Blank \notin c.text \union c.alttext /\ c.text \intersect c.alttext = {}
        /\ c.heights \subseteq Nat \ {0} /\ c.maxcount \in Nat \ {0}
        /\ c.regions \subseteq Nat \X Nat
        /\ c.viewrows \subseteq Int /\ c.mouserows \subseteq Nat

vars == <<cfg, term, erased>>

Labels == Text \union AltText \union {Blank}
Line == [text : Labels, wrapped : BOOLEAN]
BlankLine == [text |-> Blank, wrapped |-> FALSE]
BlankScreen(n) == [i \in 0..n-1 |-> BlankLine]

(* ABOUT_TO is left out: term_mouse() tests for it, and never reaches it. *)
SelStates == {"NO_SELECTION", "DRAGGING", "SELECTED"}

Lesser(a, b) == IF a <= b THEN a ELSE b
Greater(a, b) == IF a >= b THEN a ELSE b

(* The newest n lines of a scrollback, oldest first. *)
Newest(s, n) == IF Len(s) <= n THEN s ELSE SubSeq(s, Len(s) - n + 1, Len(s))

-----------------------------------------------------------------------------
(* Reading the buffer. *)

(* Lines of the alternate screen that count as scrollback. *)
altlines(t) ==
    IF EraseToScrollback /\ t.alt_which = 1 THEN t.alt_sblines ELSE 0

sblines(t) == Len(t.scrollback) + altlines(t)

(* The rows lineptr() can return a line for. *)
BufferRows(t) == -sblines(t) .. t.rows - 1

(* The line at row y: the screen, then the alternate screen's lines, then
   the scrollback. *)
lineptr(t, y) ==
    IF y >= 0 THEN t.screen[y]
    ELSE IF y < -altlines(t)
         THEN t.scrollback[y + altlines(t) + Len(t.scrollback) + 1]
         ELSE t.alt_screen[y + t.alt_sblines]

IsLastNonempty(s, i) ==
    /\ s[i].text # Blank
    /\ \A j \in DOMAIN s : j > i => s[j].text = Blank

find_last_nonempty_line(s) ==
    IF \E i \in DOMAIN s : IsLastNonempty(s, i)
    THEN CHOOSE i \in DOMAIN s : IsLastNonempty(s, i)
    ELSE -1

-----------------------------------------------------------------------------
(* Selection. *)

(* The code reads the ends of the selection only when there is one and the
   anchor only while it is dragged: they are 0 here at other times.  selempty:
   poseq(selstart, selend), what a click without a drag selects. *)
deselect(t) ==
    [t EXCEPT !.selstate = "NO_SELECTION", !.selstart = 0, !.selend = 0,
              !.selanchor = 0, !.selempty = TRUE]

(* check_selection() on rows top..bot: a change that reaches a row strictly
   inside the selection deselects it; when only a boundary row is shared the
   outcome depends on columns, so it is the caller's choice (shared). *)
Overlaps(t, top, bot) == t.selstart < bot + 1 /\ top < t.selend + 1
check_selection(t, top, bot, shared) ==
    IF t.selstate # "NO_SELECTION" /\ Overlaps(t, top, bot)
       /\ (shared \/ (t.selstart < bot /\ top < t.selend))
    THEN deselect(t)
    ELSE t

-----------------------------------------------------------------------------
(* scroll(): move the rows topline..botline up (n > 0) or down (n < 0). *)

ScrolledRows(t, topline, botline, n) ==
    [i \in 0 .. t.rows - 1 |->
        IF i < topline \/ i > botline THEN t.screen[i]
        ELSE IF topline <= i + n /\ i + n <= botline THEN t.screen[i + n]
        ELSE BlankLine]

(* The n lines that leave the region at its top, one per turn of the loop. *)
LeavingLines(t, topline, botline, n) ==
    [k \in 1 .. n |-> IF topline + k - 1 <= botline
                      THEN t.screen[topline + k - 1] ELSE BlankLine]

(* A selection endpoint at row y when the region moves up by n ... *)
SelUp(y, seltop, botline, n) ==
    IF seltop <= y /\ y <= botline THEN Greater(y - n, seltop) ELSE y
SlipSelDown(y, topline, botline, n) == y
(* ... and down by n. *)
SelDown(y, topline, botline, n) ==
    IF topline <= y /\ y <= botline THEN Lesser(y + n, botline + 1) ELSE y

(* The lines a taller window may take back, and the view of the scrollback,
   once n lines have entered it: a turn of the loop that finds it full adds to
   neither. *)
TempLinesAfter(t, n) == t.tempsblines + Lesser(n, SaveLines - Len(t.scrollback))
SlipViewAfter(t, n) == t.disptop
ViewAfter(t, n) ==
    IF -SaveLines < t.disptop /\ t.disptop < 0
    THEN Greater(t.disptop - n, -SaveLines) ELSE t.disptop

ScrollDown(t, topline, botline, n) ==
    LET follow(y) == IF t.selstate # "NO_SELECTION"
                     THEN SelDown(y, topline, botline, n) ELSE y
    IN  [t EXCEPT !.screen = ScrolledRows(t, topline, botline, -n),
                  !.selstart = follow(@),
                  !.selend = follow(@)]

ScrollUp(t, topline, botline, n, sb) ==
    LET keeps  == sb /\ SaveLines > 0
        seltop == IF sb THEN -SaveLines ELSE topline
        follow(y) == IF t.selstate # "NO_SELECTION"
                     THEN SelUp(y, seltop, botline, n) ELSE y
    IN  [t EXCEPT
          !.screen = ScrolledRows(t, topline, botline, n),
          !.scrollback =
              IF keeps THEN Newest(@ \o LeavingLines(t, topline, botline, n), SaveLines)
              ELSE @,
          !.tempsblines = IF keeps THEN TempLinesAfter(t, n) ELSE @,
          !.disptop = IF keeps THEN ViewAfter(t, n) ELSE @,
          !.selstart = follow(@),
          !.selend = follow(@)]

SlipScroll(t, topline, botline, n, sb) ==
    IF n < 0 THEN ScrollDown(t, topline, botline, -n)
    ELSE ScrollUp(t, topline, botline, n, sb /\ topline = 0)

scroll(t, topline, botline, n, sb) ==
    IF n < 0 THEN ScrollDown(t, topline, botline, -n)
    ELSE ScrollUp(t, topline, botline, n, sb /\ topline = 0 /\ t.alt_which = 0)

-----------------------------------------------------------------------------
(* erase_lots() with line_only = FALSE.  home says that the cursor is in
   column 0; kept, whether something of a partly erased row survives. *)

(* Erasing rows top..bot, of which row part only partly: its attribute goes
   when its end is erased. *)
ErasedRows(t, top, bot, part, to_end, kept) ==
    [i \in 0 .. t.rows - 1 |->
        IF i < top \/ i > bot THEN t.screen[i]
        ELSE IF i = part
             THEN [t.screen[i] EXCEPT !.text = IF kept THEN @ ELSE Blank,
                                      !.wrapped = @ /\ ~to_end]
             ELSE BlankLine]

(* An erase of the whole primary screen: what has scrolled off stays off. *)
SlipForgotten(t) == t
Forgotten(t) == IF t.alt_which = 0 THEN [t EXCEPT !.tempsblines = 0] ELSE t

EraseScreen(t, from_begin, to_end, home, kept, shared) ==
    LET whole == to_end /\ (from_begin \/ (t.cursy = 0 /\ home))
        top   == IF from_begin THEN 0 ELSE t.cursy
        bot   == IF to_end THEN t.rows - 1 ELSE t.cursy
        part  == IF whole \/ (to_end /\ home) THEN -1 ELSE t.cursy
        u     == check_selection(t, top, bot, shared)
        last  == find_last_nonempty_line(u.screen)
        done  == IF whole /\ EraseToScrollback
                 THEN IF last >= 0 THEN scroll(u, 0, last, last + 1, TRUE) ELSE u
                 ELSE [u EXCEPT !.screen = ErasedRows(u, top, bot, part, to_end, kept)]
    IN  IF whole THEN Forgotten(done) ELSE done

(* Erase the whole screen: the form every reset uses. *)
EraseAll(t) == EraseScreen(t, TRUE, TRUE, FALSE, FALSE, TRUE)

(* erase_lots() with line_only = TRUE, on the cursor's row. *)
EraseLine(t, from_begin, to_end, kept, shared) ==
    LET u == check_selection(t, t.cursy, t.cursy, shared)
    IN  [u EXCEPT !.screen[t.cursy].text =
                      IF kept /\ ~(from_begin /\ to_end) THEN @ ELSE Blank,
                  !.screen[t.cursy].wrapped = @ /\ ~to_end]

-----------------------------------------------------------------------------
(* swap_screen(): exchange the two screens and their cursors and margins. *)

Exchanged(t, which, reset, keep_cur_pos) ==
    [t EXCEPT
      !.alt_which = which,
      !.screen = t.alt_screen,
      !.alt_screen = t.screen,
      !.alt_sblines = find_last_nonempty_line(t.screen) + 1,
      !.cursy = IF reset \/ keep_cur_pos THEN @ ELSE t.alt_y,
      !.alt_y = t.cursy,
      !.marg_t = IF reset THEN @ ELSE t.alt_t,
      !.alt_t = t.marg_t,
      !.marg_b = IF reset THEN @ ELSE t.alt_b,
      !.alt_b = t.marg_b]

swap_screen(t, which, reset, keep_cur_pos) ==
    LET rst == which = 1 /\ reset
        u   == IF which # t.alt_which THEN Exchanged(t, which, rst, keep_cur_pos)
               ELSE t
    IN  IF rst THEN EraseAll(u) ELSE u

(* term_clrsb() *)
SlipClrsb(t) ==
    [t EXCEPT !.scrollback = <<>>, !.tempsblines = 0, !.alt_sblines = 0]
term_clrsb(t) ==
    [t EXCEPT !.disptop = 0, !.scrollback = <<>>, !.tempsblines = 0,
              !.alt_sblines = 0]

(* power_on(): the screens are erased in the order of the code, which clears
   alt_which first, whichever screen is showing. *)
power_on(t, clear) ==
    LET reset == [t EXCEPT !.alt_y = 0, !.alt_which = 0,
                           !.marg_t = 0, !.alt_t = 0,
                           !.marg_b = t.rows - 1, !.alt_b = t.rows - 1]
        alt   == EraseAll(swap_screen(reset, 1, FALSE, FALSE))
        main  == swap_screen(alt, 0, FALSE, FALSE)
        clean == IF clear THEN EraseAll(main) ELSE main
        y     == find_last_nonempty_line(clean.screen) + 1
    IN  IF y = t.rows
        THEN scroll([clean EXCEPT !.cursy = y - 1], 0, t.rows - 1, 1, TRUE)
        ELSE [clean EXCEPT !.cursy = y]

-----------------------------------------------------------------------------
(* term_size(): change the number of rows of the primary screen u, which
   holds the cursor. *)

(* Lines brought back from the scrollback when the window grows by d rows. *)
Returned(u, d) == Lesser(d, u.tempsblines)
(* Rows deleted under the cursor when it shrinks by d rows ... *)
SlipDeleted(u, d) == Lesser(d, Greater(u.rows - u.cursy, 0))
Deleted(u, d) == Lesser(d, Greater(u.rows - 1 - u.cursy, 0))
(* ... and rows pushed off the top. *)
Pushed(u, d) == d - Deleted(u, d)

Grown(u, newrows) ==
    LET k   == Returned(u, newrows - u.rows)
        len == Len(u.scrollback)
    IN  [u EXCEPT
          !.screen = [i \in 0 .. newrows - 1 |->
                         IF i < k THEN u.scrollback[len - k + 1 + i]
                         ELSE IF i < k + u.rows THEN u.screen[i - k]
                         ELSE BlankLine],
          !.scrollback = SubSeq(@, 1, len - k),
          !.tempsblines = @ - k,
          !.cursy = @ + k,
          !.rows = newrows]

Shrunk(u, newrows) ==
    LET k == Pushed(u, u.rows - newrows)
    IN  [u EXCEPT
          !.screen = [i \in 0 .. newrows - 1 |-> u.screen[i + k]],
          !.scrollback = @ \o [i \in 1 .. k |-> u.screen[i - 1]],
          !.tempsblines = @ + k,
          !.cursy = @ - k,
          !.rows = newrows]

(* The alternate screen is made anew. *)
NewAltScreen(t, newrows) == BlankScreen(newrows)

(* Everything term_size() does when the size has changed. *)
Resized(t, newrows) ==
    LET u == swap_screen(deselect(t), 0, FALSE, FALSE)
        v == IF newrows >= u.rows THEN Grown(u, newrows) ELSE Shrunk(u, newrows)
        sb == Newest(v.scrollback, SaveLines)
        w == [v EXCEPT
               !.marg_t = 0, !.alt_t = 0,
               !.marg_b = newrows - 1, !.alt_b = newrows - 1,
               !.scrollback = sb,
               !.tempsblines = Lesser(@, Len(sb)),
               !.disptop = 0,
               !.alt_screen = NewAltScreen(v, newrows),
               !.alt_sblines = 0,
               !.cursy = Lesser(Greater(@, 0), newrows - 1),
               !.alt_y = 0]
    IN  swap_screen(w, t.alt_which, FALSE, FALSE)

-----------------------------------------------------------------------------
(* The state after term_init() and the first term_size(). *)

InitialTerm(n) ==
    [rows |-> n, screen |-> BlankScreen(n), alt_screen |-> BlankScreen(n),
     scrollback |-> <<>>, tempsblines |-> 0, disptop |-> 0,
     alt_which |-> 0, alt_sblines |-> 0,
     cursy |-> 0, alt_y |-> 0,
     marg_t |-> 0, marg_b |-> n - 1, alt_t |-> 0, alt_b |-> n - 1,
     selstate |-> "NO_SELECTION", selempty |-> TRUE,
     selstart |-> 0, selend |-> 0, selanchor |-> 0]

Init ==
    /\ cfg \in Configs /\ erased = {}
    /\ \E n \in Heights : term = InitialTerm(n)

(* The labels of the primary screen and of the scrollback. *)
MainScreen(t) == IF t.alt_which = 0 THEN t.screen ELSE t.alt_screen
LabelsOf(s) == {s[i].text : i \in DOMAIN s}
Recorded(t) == (LabelsOf(MainScreen(t)) \union LabelsOf(t.scrollback)) \intersect Text

(* term_data() runs term_out() only while no selection is being dragged. *)
OutputRuns == term.selstate # "DRAGGING"
Output(t) == OutputRuns /\ term' = t

(* What check_selection() may make of a boundary row (shared, above). *)
Sharing == IF term.selstate = "NO_SELECTION" THEN {FALSE} ELSE BOOLEAN

(* Something is left of the cursor's row only if something was there. *)
Keeping == IF term.screen[term.cursy].text = Blank THEN {FALSE} ELSE BOOLEAN

(* A move of the cursor's row (move(), BS at column 0, restore cursor). *)
MoveRow == \E y \in 0 .. term.rows - 1 : /\ Output([term EXCEPT !.cursy = y])
                                         /\ UNCHANGED <<cfg, erased>>

(* LF, VT, FF, IND, NEL and the wrap at the right-hand edge. *)
LineFeedOf(t) ==
    IF t.cursy = t.marg_b THEN scroll(t, t.marg_t, t.marg_b, 1, TRUE)
    ELSE IF t.cursy < t.rows - 1 THEN [t EXCEPT !.cursy = @ + 1]
    ELSE t

LineFeed == Output(LineFeedOf(term)) /\ UNCHANGED <<cfg, erased>>

(* RI, and VT52 ESC I whose region is the whole screen. *)
ReverseIndexOf(t, top, bot) ==
    IF t.cursy = top THEN scroll(t, top, bot, -1, TRUE)
    ELSE IF t.cursy > 0 THEN [t EXCEPT !.cursy = @ - 1]
    ELSE t

ReverseIndex ==
    /\ \/ Output(ReverseIndexOf(term, term.marg_t, term.marg_b))
       \/ Output(ReverseIndexOf(term, 0, term.rows - 1))
    /\ UNCHANGED <<cfg, erased>>

(* A graphic character: the cursor's row gets text x.  A pending wrap, or a
   double-width character in the last column, first marks the row wrapped and
   moves to the next; VT52 mode wraps after the character instead, or too. *)
WrapOf(t) == LineFeedOf([t EXCEPT !.screen[t.cursy].wrapped = TRUE])
PutOf(t, x, shared) ==
    [check_selection(t, t.cursy, t.cursy, shared) EXCEPT !.screen[t.cursy].text = x]

WritableText(t) == IF t.alt_which = 0 THEN Text \ erased ELSE AltText

GraphicChar ==
    /\ \E x \in WritableText(term), shared \in Sharing :
          \/ Output(PutOf(term, x, shared))
          \/ Wrapping /\ Output(PutOf(WrapOf(term), x, shared))
          \/ Wrapping /\ Output(WrapOf(PutOf(term, x, shared)))
          \/ Wrapping /\ Output(WrapOf(PutOf(WrapOf(term), x, shared)))
    /\ UNCHANGED <<cfg, erased>>

(* SU and SD. *)
ScrollRegion ==
    /\ \E n \in (-MaxCount .. MaxCount) \ {0} :
          Output(scroll(term, term.marg_t, term.marg_b, n, TRUE))
    /\ UNCHANGED <<cfg, erased>>

(* IL never feeds the scrollback, DL may. *)
InsertLines ==
    /\ term.cursy <= term.marg_b
    /\ \E n \in 1 .. MaxCount :
          Output(scroll(term, term.cursy, term.marg_b, -n, FALSE))
    /\ UNCHANGED <<cfg, erased>>

DeleteLines ==
    /\ term.cursy <= term.marg_b
    /\ \E n \in 1 .. MaxCount :
          Output(scroll(term, term.cursy, term.marg_b, n, TRUE))
    /\ UNCHANGED <<cfg, erased>>

(* What an erase of the whole screen throws away for good. *)
ErasedBy(whole) ==
    IF whole /\ term.alt_which = 0 THEN erased \union Recorded(term) ELSE erased

(* ED 0, 1 and 2; the display returns to the bottom. *)
EraseDisplay ==
    \E from_begin, to_end, home \in BOOLEAN, kept \in Keeping, shared \in Sharing :
        /\ from_begin \/ to_end
        /\ Output([EraseScreen(term, from_begin, to_end, home, kept, shared)
                      EXCEPT !.disptop = 0])
        /\ UNCHANGED cfg
        /\ erased' = ErasedBy(to_end /\ (from_begin \/ (term.cursy = 0 /\ home)))

(* FF of a SCO console, and VT52 ESC E. *)
EraseFromHome ==
    /\ \E shared \in Sharing :
          Output([EraseScreen([term EXCEPT !.cursy = 0], FALSE, TRUE, TRUE, FALSE, shared)
                    EXCEPT !.disptop = 0])
    /\ erased' = ErasedBy(TRUE) /\ UNCHANGED cfg

(* ED 3. *)
EraseSavedLines == Output(term_clrsb(term)) /\ UNCHANGED <<cfg, erased>>

(* EL 0, 1 and 2. *)
EraseInLine ==
    /\ \E from_begin, to_end \in BOOLEAN, kept \in Keeping, shared \in Sharing :
          /\ from_begin \/ to_end
          /\ Output(EraseLine(term, from_begin, to_end, kept, shared))
    /\ UNCHANGED <<cfg, erased>>

(* DECSTBM: a region of at least two rows; the cursor goes to the top of the
   screen, or of the region in origin mode. *)
RegionAccepted(top, bot) == bot > top

SetMargins ==
    /\ \E region \in Regions :
          LET top == region[1]
              bot == Lesser(region[2], term.rows - 1)
          IN /\ RegionAccepted(top, bot)
             /\ \E y \in {0, top} :
                   Output([term EXCEPT !.marg_t = top, !.marg_b = bot, !.cursy = y])
    /\ UNCHANGED <<cfg, erased>>

(* DECALN: every row is filled. *)
ScreenAlignment ==
    /\ \E x \in WritableText(term) :
          Output([check_selection(term, 0, term.rows - 1, TRUE) EXCEPT
                     !.screen = [i \in 0 .. term.rows - 1 |->
                                    [text |-> x, wrapped |-> FALSE]],
                     !.disptop = 0])
    /\ UNCHANGED <<cfg, erased>>

(* Private modes 47, 1047 and 1049.  1049 restores the cursor that was saved
   on the screen it returns to; its row is any row of the screen. *)
SwapTo(t, state, reset, keep) ==
    [swap_screen(deselect(t), IF NoAltScreen THEN 0 ELSE state, reset, keep)
        EXCEPT !.disptop = 0]

AltScreenMode ==
    /\ \E state \in {0, 1} :
          \/ Output(SwapTo(term, state, FALSE, FALSE))
          \/ Output(SwapTo(term, state, TRUE, TRUE))
          \/ /\ state = 1 \/ NoAltScreen
             /\ Output(SwapTo(term, state, TRUE, FALSE))
          \/ /\ state = 0 /\ ~NoAltScreen
             /\ \E y \in 0 .. term.rows - 1 :
                   Output([SwapTo(term, state, TRUE, FALSE) EXCEPT !.cursy = y])
    /\ UNCHANGED <<cfg, erased>>

(* DECCOLM: perhaps a change of width, which goes through term_size(). *)
ColumnMode ==
    /\ \E resize \in BOOLEAN :
          LET u == IF resize THEN Resized(deselect(term), term.rows) ELSE deselect(term)
          IN  Output(EraseAll([u EXCEPT !.marg_t = 0, !.alt_t = 0,
                                        !.marg_b = u.rows - 1, !.alt_b = u.rows - 1,
                                        !.cursy = 0]))
    /\ erased' = ErasedBy(TRUE) /\ UNCHANGED cfg

(* RIS; the width may have to be put back. *)
Reset ==
    /\ \E resize \in BOOLEAN :
          LET u == power_on(term, TRUE)
          IN  Output([IF resize THEN Resized(u, u.rows) ELSE u EXCEPT !.disptop = 0])
    /\ erased' = erased \union Recorded(term) /\ UNCHANGED cfg

(* A new session starts on the old terminal: term_pwron(term, FALSE). *)
Restart ==
    /\ term' = deselect([power_on(term, FALSE) EXCEPT !.disptop = 0])
    /\ UNCHANGED <<cfg, erased>>

(* The window, or the host through request_resize(), changes the size. *)
Resize ==
    /\ \E n \in Heights : term' = Resized(term, n)
    /\ UNCHANGED <<cfg, erased>>

(* The scroll bar and the wheel: term_scroll(). *)
ViewTo(t, pos) == [t EXCEPT !.disptop = Lesser(Greater(pos, -sblines(t)), 0)]
ViewScroll ==
    /\ \E pos \in ViewRows : term' = ViewTo(term, pos)
    /\ UNCHANGED <<cfg, erased>>

(* term_update() and term_seen_key_event(), when the configuration asks for
   the bottom of the buffer on output or on a key press. *)
ReturnToBottom ==
    /\ term.disptop # 0
    /\ term' = [term EXCEPT !.disptop = 0]
    /\ UNCHANGED <<cfg, erased>>

(* The row of the buffer under window row y. *)
SelPoint(t, y) == Lesser(y, t.rows - 1) + t.disptop

(* How far sel_spread() may carry row y along wrapped lines. *)
SpreadUp(t, y) ==
    {r \in -sblines(t) .. y : \A q \in r .. y - 1 : lineptr(t, q).wrapped}
SpreadDown(t, y) ==
    {r \in y .. t.rows - 1 : \A q \in y .. r - 1 : lineptr(t, q).wrapped}

MouseClick ==
    /\ \E y \in MouseRows :
          LET p == SelPoint(term, y)
          IN  term' = [term EXCEPT !.selstate = "DRAGGING", !.selanchor = p,
                                   !.selstart = p, !.selend = p, !.selempty = TRUE]
    /\ UNCHANGED <<cfg, erased>>

(* The selection between rows a and p, spread over wrapped lines. *)
Selecting(t, a, p) ==
    \E lo \in SpreadUp(t, Lesser(a, p)), hi \in SpreadDown(t, Greater(a, p)) :
        term' = [t EXCEPT !.selstate = "DRAGGING", !.selanchor = a,
                          !.selstart = lo, !.selend = hi, !.selempty = FALSE]

(* A second or third click: the word or the line under the mouse. *)
MouseDoubleClick ==
    /\ \E y \in MouseRows :
          LET p == SelPoint(term, y) IN Selecting(deselect(term), p, p)
    /\ UNCHANGED <<cfg, erased>>

(* A press of the extending button: one end of a finished selection becomes the
   anchor (if that is no row of the buffer, sel_spread() fails:
   see RowsAskedForExist). *)
Anchors(t, p) ==
    CASE t.selstate = "SELECTED" -> {t.selstart, t.selend}
      [] t.selstate = "DRAGGING" -> {t.selanchor}
      [] OTHER                   -> {p}
MouseExtend ==
    /\ \E y \in MouseRows :
          LET p == SelPoint(term, y)
          IN  \E a \in Anchors(term, p) \intersect BufferRows(term) : Selecting(term, a, p)
    /\ UNCHANGED <<cfg, erased>>

(* OnMouseMove(): term_select_copy() with the row of the window the mouse is
   on, be it above the window or below it, as the window holds the capture.  It is
   not carried to the buffer by disptop, and nothing is spread. *)
MouseMove ==
    /\ term.selstate = "DRAGGING"
    /\ \E y \in MouseRows \union {-1, term.rows}, empty \in BOOLEAN :
          /\ empty => y = term.selanchor
          /\ term' = [term EXCEPT !.selstart = Lesser(term.selanchor, y),
                                  !.selend = Greater(term.selanchor, y),
                                  !.selempty = empty]
    /\ UNCHANGED <<cfg, erased>>

MouseRelease ==
    /\ MouseRows # {}
    /\ term' = [term EXCEPT !.selanchor = 0, !.selstate =
                   IF @ = "DRAGGING" THEN "SELECTED" ELSE "NO_SELECTION"]
    /\ UNCHANGED <<cfg, erased>>

(* Another program takes the clipboard: term_deselect(). *)
LoseClipboard == term' = deselect(term) /\ UNCHANGED <<cfg, erased>>

Next ==
    \/ MoveRow \/ LineFeed \/ ReverseIndex \/ GraphicChar
    \/ ScrollRegion \/ InsertLines \/ DeleteLines
    \/ EraseDisplay \/ EraseFromHome \/ EraseSavedLines \/ EraseInLine
    \/ SetMargins \/ ScreenAlignment \/ AltScreenMode \/ ColumnMode
    \/ Reset \/ Restart \/ Resize
    \/ ViewScroll \/ ReturnToBottom
    \/ MouseClick \/ MouseDoubleClick \/ MouseExtend \/ MouseMove \/ MouseRelease
    \/ LoseClipboard

Spec == Init /\ [][Next]_vars

-----------------------------------------------------------------------------
Rows(t) == 0 .. t.rows - 1

(* Types: both screens have exactly as many lines as the window has rows,
   which every use of a row as an index relies on (swap_screen, term_size). *)
TypeOK ==
    /\ term.rows \in Heights
    /\ term.screen \in [Rows(term) -> Line]
    /\ term.alt_screen \in [Rows(term) -> Line]
    /\ term.scrollback \in Seq(Line)
    /\ term.alt_which \in {0, 1}
    /\ term.selstate \in SelStates /\ term.selempty \in BOOLEAN
    /\ {term.tempsblines, term.disptop, term.alt_sblines, term.cursy, term.alt_y,
        term.marg_t, term.marg_b, term.alt_t, term.alt_b,
        term.selstart, term.selend, term.selanchor} \subseteq Int
    /\ erased \subseteq Text

(* The scrollback holds at most savelines lines, and the lines that a taller
   window may take back are there to take: the two conditions term_size()
   checks (terminal.c, "count234(term->scrollback) >= term->tempsblines"). *)
ScrollbackBounded ==
    /\ Len(term.scrollback) <= SaveLines
    /\ term.tempsblines \in 0 .. Len(term.scrollback)

(* Cursor rows and scroll regions of both screens lie on the screen, and a
   region has at least two rows when the screen has. *)
RegionOK(t, top, bot) ==
    /\ top \in Rows(t) /\ bot \in Rows(t)
    /\ t.rows > 1 => top < bot
CursorAndMarginsOnScreen ==
    /\ term.cursy \in Rows(term) /\ term.alt_y \in Rows(term)
    /\ RegionOK(term, term.marg_t, term.marg_b)
    /\ RegionOK(term, term.alt_t, term.alt_b)

ViewportInBuffer ==
    /\ term.alt_sblines \in 0 .. term.rows
    /\ term.disptop \in -sblines(term) .. 0

(* The viewport shows only rows that lineptr() can return: painting the
   window never asks for a line that does not exist, whatever combination of
   scrolling back, swapping screens, resetting and resizing led there; and the
   numbers of lines, cursor rows and regions are those of the screens. *)
BufferSound == TypeOK /\ ScrollbackBounded /\ CursorAndMarginsOnScreen /\ ViewportInBuffer

(* "Lines scrolled away shouldn't be brought back on if the terminal resizes"
   (erase_lots): text thrown away by an erase of the whole primary screen
   never shows on it again. *)
ErasedStaysErased == LabelsOf(MainScreen(term)) \intersect erased = {}

(* Shrinking the window and restoring its size leaves the line under the
   cursor, and every line above it, where they were relative to the cursor,
   provided the scrollback can hold the rows pushed off the top. *)
MainCursor(t) == IF t.alt_which = 0 THEN t.cursy ELSE t.alt_y
RoundTripKeepsLines ==
    \A n \in {h \in Heights : h < term.rows} :
        LET main  == swap_screen(deselect(term), 0, FALSE, FALSE)
            after == Resized(Resized(term, n), term.rows)
            moved == MainCursor(after) - MainCursor(term)
        IN  Pushed(main, term.rows - n) <= SaveLines =>
                \A y \in 0 .. MainCursor(term) :
                    /\ y + moved \in Rows(after)
                    /\ MainScreen(after)[y + moved] = MainScreen(term)[y]

(* Row y holds text that is nowhere else in the buffer. *)
Sole(t, y) ==
    /\ lineptr(t, y).text # Blank
    /\ \A r \in BufferRows(t) \ {y} : lineptr(t, r).text # lineptr(t, y).text
Holds(t, x) == \E r \in BufferRows(t) : lineptr(t, r).text = x

(* "the chances are they'd like to keep looking at the same line" (scroll):
   while the user looks at the scrollback, new lines entering it do not move
   the text at the top of the window, as long as the scrollback keeps it. *)
ViewportHolds ==
    [][ (/\ term.disptop < 0 /\ term'.disptop < 0
         /\ term'.rows = term.rows /\ term'.scrollback # term.scrollback
         /\ Sole(term, term.disptop)
         /\ lineptr(term, term.disptop).text \in LabelsOf(term'.scrollback))
        => lineptr(term', term'.disptop).text = lineptr(term, term.disptop).text ]_vars

(* While the alternate screen is showing nothing written there reaches the
   primary screen or its scrollback, which only ED 3 may clear. *)
AltLeavesMain ==
    [][ (term.alt_which = 1 /\ term'.alt_which = 1 /\ term'.rows = term.rows)
        => /\ term'.alt_screen = term.alt_screen
           /\ term'.scrollback \in {term.scrollback, <<>>} ]_vars

(* A finished selection stays on its text when lines are scrolled, inserted
   or deleted, into the scrollback too: its first row holds the same text as
   before, unless that text has left the buffer. *)
SelectionFollowsText ==
    [][ (/\ term.selstate = "SELECTED" /\ term.selstart \in BufferRows(term)
         /\ Sole(term, term.selstart)
         /\ Holds(term', lineptr(term, term.selstart).text)
         /\ LineFeed \/ ReverseIndex \/ ScrollRegion \/ InsertLines \/ DeleteLines)
        => /\ term'.selstart \in BufferRows(term')
           /\ lineptr(term', term'.selstart).text = lineptr(term, term.selstart).text ]_vars

SelectionInBuffer ==
    term.selstate = "SELECTED" /\ ~term.selempty =>
        {term.selstart, term.selend} \subseteq BufferRows(term)
WrappedRowHasSuccessor ==
    \A y \in BufferRows(term) : lineptr(term, y).wrapped => y + 1 \in BufferRows(term)

(* "We assume that we don't screw up and retrieve something out of range"
   (lineptr): the rows of a finished selection that is not empty, which the
   copy commands pass to lineptr() one by one, are rows of the buffer; and so is
   the row below a line marked as continuing there (LATTR_WRAPPED), which
   sel_spread_half() asks for. *)
RowsAskedForExist == SelectionInBuffer /\ WrappedRowHasSuccessor

=============================================================================
