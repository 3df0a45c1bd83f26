-------------------------------- MODULE Display --------------------------------
(*******************************************************************************)
(* How a row of the terminal gets into the window: do_paint() of terminal.c,   *)
(* what draws for it in windows/window.c, and the two ways to it, the update   *)
(* that term_schedule_update() puts off and WM_PAINT.                          *)
(*                                                                             *)
(* Terminal.disptext holds what the window is believed to show.  do_paint()    *)
(* compares it with what the row should look like, gathers what differs into   *)
(* runs and draws these.  Windows takes parts of the window away (Expose), and *)
(* what is drawn in answer to WM_PAINT is clipped to them, be it half a cell.  *)
(*                                                                             *)
(* The fonts are not DBCS fonts, lines are not bidirectional, and a pixel is   *)
(* half a cell.                                                                *)
(*******************************************************************************)
EXTENDS Integers, Sequences, FiniteSets, SequencesExt

CONSTANTS
    Cols,           \* Terminal.cols
    Narrow, Wide,   \* characters of one column and of two
    LeadByte,       \* those in Narrow whose low byte may begin a character of GBK
    Marks,          \* combining characters
    Reversed,       \* the sets of columns that selection and DECSCNM reverse
    Doubles,        \* whether lines may have double width (LATTR_WIDE): a set of Booleans
    Cursors,        \* how the cursor may look: "none", "active", "passive"
    Exposures,      \* the sets of pixels that may be uncovered
    MaxEdits        \* bound: changes between two calls of do_paint()

(* What is assumed of them (module TerminalLines). *)
DisplayAssumption ==
    /\ Cols \in Nat \ {0} /\ MaxEdits \in Nat
    /\ LeadByte \subseteq Narrow /\ Doubles \subseteq BOOLEAN
    /\ Exposures \subseteq SUBSET (0 .. 2 * Cols - 1) \ {{}}

VARIABLES
    line,       \* the row: its cells (chars), rev, double, where the cursor is and how it looks
    disp,       \* disptext: cells, double; and dispcursx, curstype
    window,     \* what each pixel of the row in the window shows
    pending,    \* window_update_pending
    exposed,    \* the pixels Windows wants painted (the update region)
    edits       \* changes since do_paint() ran

vars == <<line, disp, window, pending, exposed, edits>>

Columns == 0 .. Cols - 1
Pixels == 0 .. 2 * Cols - 1
NoColumn == -1

Space == CHOOSE c \in Narrow : c \notin LeadByte
RightHalf == "UCSWIDE"
Nothing == [chr |-> "nothing"]

TermChar(chr, zh) == [chr |-> chr, marks |-> <<>>, zh |-> zh]
EraseChar == TermChar(Space, 0)
IsRight(chars, j) == j \in Columns /\ chars[j].chr = RightHalf

-----------------------------------------------------------------------------
(* What the received text does to the row. *)

(* check_boundary(): a character of two columns that loses a half is erased. *)
WholeAt(chars, x) ==
    IF x > 0 /\ IsRight(chars, x)
    THEN [chars EXCEPT ![x - 1] = [@ EXCEPT !.chr = Space, !.marks = <<>>],
                       ![x] = [chars[x - 1] EXCEPT !.chr = Space, !.marks = <<>>]]
    ELSE chars

PutNarrow(x, c) ==
    LET chars == WholeAt(WholeAt(line.chars, x), x + 1)
        zh == IF x > 0 /\ chars[x - 1].zh = 1 THEN 2 ELSE IF c \in LeadByte THEN 1 ELSE 0
    IN IF x = Cols - 1 /\ zh = 1 THEN [chars EXCEPT ![x] = EraseChar]
       ELSE [chars EXCEPT ![x] = TermChar(c, zh)]

PutWide(x, c) ==
    LET chars == WholeAt(WholeAt(line.chars, x), x + 2)
    IN IF x = Cols - 1 THEN [chars EXCEPT ![x] = EraseChar]
       ELSE [chars EXCEPT ![x] = [@ EXCEPT !.chr = c, !.marks = <<>>],
                          ![x + 1] = [@ EXCEPT !.chr = RightHalf, !.marks = <<>>]]

PutMark(x, m) ==
    LET y == IF IsRight(line.chars, x) THEN x - 1 ELSE x
    IN [line.chars EXCEPT ![y].marks = Append(@, m)]

Text ==
    \/ \E x \in Columns :
        \/ \E c \in Narrow : line' = [line EXCEPT !.chars = PutNarrow(x, c)]
        \/ \E c \in Wide : line' = [line EXCEPT !.chars = PutWide(x, c)]
        \/ \E m \in Marks :
            /\ x = 1 /\ \A j \in Columns : line.chars[j].marks = <<>>  \* bound: one on a row
            /\ line' = [line EXCEPT !.chars = PutMark(x, m)]
    \/ \E x \in Columns \union {NoColumn} : line' = [line EXCEPT !.curs = x]
    \/ \E d \in Doubles : line' = [line EXCEPT !.double = d]

-----------------------------------------------------------------------------
(* do_paint() of the row l.  Which column the cursor is shown in. *)
OurCursor(l) == IF l.curs > 0 /\ IsRight(l.chars, l.curs) THEN l.curs - 1 ELSE l.curs

(* First loop: how a cell should look. *)
Look(l, j) ==
    [chr |-> l.chars[j].chr, rev |-> j \in l.rev, wide |-> IsRight(l.chars, j + 1),
     cursor |-> IF j = OurCursor(l) THEN l.cursor ELSE "none"]
Attr(look) == <<look.rev, look.wide, look.cursor>>

(* A cell of disptext is believed to look like this; none is believed to show the
   cursor, whose bits are masked off on one side of the comparison. *)
Believed(cell, look) ==
    ~cell.invalid /\ cell.chr = look.chr /\ Attr(look) = <<cell.rev, cell.wide, "none">>

Invalid(cells, cs) == [j \in Columns |-> [cells[j] EXCEPT !.invalid = @ \/ j \in cs]]

(* The place the cursor was painted at is invalid if it is not painted there again. *)
SlipOldCursor(l, cells) == cells
OldCursor(l, cells) ==
    LET x == disp.cursx
    IN IF x = NoColumn \/ (disp.cursor = l.cursor /\ x = OurCursor(l)) THEN cells
       ELSE Invalid(cells, {x} \union {y \in Columns : y = x - 1 /\ cells[x].chr = RightHalf}
                               \union {y \in Columns : y = x + 1 /\ cells[y].chr = RightHalf})

(* Second loop: a run that was drawn at once, of which a part differs, is invalid
   as a whole. *)
RunOf(cells, j) ==
    LET starts == {k \in 0 .. j : k = 0 \/ cells[k].startrun}
        first == CHOOSE k \in starts : \A h \in starts : h <= k
    IN {k \in first .. Cols - 1 : \A h \in first + 1 .. k : ~cells[h].startrun}
Differing(l, cells) ==
    Invalid(cells, {j \in Columns : \E k \in RunOf(cells, j) : ~Believed(cells[k], Look(l, k))})

(* Third loop.  p is its state: the cells of disptext, the run that is gathered
   (its columns and the attributes of its first), whether it has to be drawn,
   whether all that follows has, and the runs that have.  A cell is as disptext
   has it, but for the cursor. *)
SameCell(cell, tc, rev, wide) ==
    /\ ~cell.invalid /\ cell.rev = rev /\ cell.wide = wide
    /\ cell.chr = tc.chr /\ cell.marks = tc.marks

Breaks(l, p, j) ==
    \/ Attr(Look(l, j)) # p.attr
    \/ \E k \in {j - 1, j} \intersect Columns : l.chars[k].marks # <<>>
    \/ p.run # <<>> /\ l.chars[p.run[1]].marks # <<>>
    \/ ~p.dirtyline /\ (Believed(p.chars[j], Look(l, j)) \/ (~p.dirty /\ Len(p.run) = 1))

Drawn(p) == IF p.dirty /\ p.run # <<>> THEN Append(p.runs, p.run) ELSE p.runs

DispCell(tc, rev, wide, startrun) ==
    [chr |-> tc.chr, marks |-> tc.marks, rev |-> rev, wide |-> wide,
     invalid |-> FALSE, startrun |-> startrun]

RECURSIVE DrawFrom(_, _, _)
DrawFrom(l, q, j) ==
    IF j >= Cols THEN [chars |-> q.chars, runs |-> Drawn(q)]
    ELSE LET look == Look(l, j)
             tc == l.chars[j]
             p == [q EXCEPT !.dirtyline = @ \/ q.chars[j].wide # look.wide]
             b == IF Breaks(l, p, j)
                  THEN [p EXCEPT !.runs = Drawn(p), !.run = <<>>, !.attr = Attr(look),
                                 !.dirty = p.dirtyline]
                  ELSE p
             same == SameCell(b.chars[j], tc, look.rev, look.wide)
             r == [b EXCEPT !.run = Append(@, j), !.dirty = @ \/ ~same,
                            !.chars[j] = IF same THEN @
                                         ELSE DispCell(tc, look.rev, look.wide, b.run = <<>>)]
         IN IF ~look.wide THEN DrawFrom(l, r, j + 1)
            ELSE DrawFrom(l, [r EXCEPT
                    !.dirty = @ \/ ~SameCell(r.chars[j + 1], l.chars[j + 1], FALSE, FALSE),
                    !.chars[j + 1] = DispCell(l.chars[j + 1], FALSE, FALSE, FALSE)], j + 2)

(* do_text() and do_cursor(): where the window shows a cell, and what it shows.
   A cell that begins a run is drawn as a space if it is believed to be the second
   byte of a character. *)
Width(l) == IF l.double THEN 4 ELSE 2
In(l, j, x) == x - j * Width(l) \in 0 .. (IF IsRight(l.chars, j + 1) THEN 2 ELSE 1) * Width(l) - 1
Shown(l, j, x) ==
    [chr |-> l.chars[j].chr, marks |-> l.chars[j].marks, rev |-> j \in l.rev,
     cursor |-> Look(l, j).cursor, part |-> x - j * Width(l), double |-> l.double]
ShownFirst(l, j, x) ==
    IF l.chars[j].zh = 2 THEN [Shown(l, j, x) EXCEPT !.chr = Space] ELSE Shown(l, j, x)

Draw(l, runs, clip) ==
    LET all == UNION {ToSet(run) : run \in ToSet(runs)}
        firsts == {run[1] : run \in ToSet(runs)}
        Pixel(x, js) ==
            IF js = {} THEN window[x]
            ELSE LET j == CHOOSE k \in js : TRUE
                 IN IF j \in firsts THEN ShownFirst(l, j, x) ELSE Shown(l, j, x)
    IN [x \in Pixels |-> Pixel(x, {j \in all : x \in clip /\ In(l, j, x)})]

do_paint(l, cells, clip) ==
    LET dirtyline == disp.double # l.double
        d == DrawFrom(l, [chars |-> Differing(l, OldCursor(l, cells)), run |-> <<>>, attr |-> <<>>,
                          runs |-> <<>>, dirty |-> dirtyline, dirtyline |-> dirtyline], 0)
    IN /\ window' = Draw(l, d.runs, clip)
       /\ disp' = [chars |-> d.chars, double |-> l.double, cursx |-> OurCursor(l), cursor |-> l.cursor]
       /\ edits' = 0

-----------------------------------------------------------------------------
Changed == edits < MaxEdits /\ edits' = edits + 1

(* term_data(): text arrives, and an update is due. *)
term_data ==
    /\ Changed /\ Text /\ line' # line
    /\ pending' = TRUE
    /\ UNCHANGED <<disp, window, exposed>>

(* The timer of the update, or one that calls term_update() after a change of its
   own: the cursor blinks, the window gets or loses the focus, the user selects. *)
term_update ==
    /\ \/ line' = line
       \/ \E c \in Cursors : line' = [line EXCEPT !.cursor = c]
       \/ \E s \in Reversed : line' = [line EXCEPT !.rev = s]
    /\ do_paint(line', disp.chars, Pixels)
    /\ pending' = FALSE
    /\ UNCHANGED exposed

(* Part of the window is uncovered.  Bound: not while the row has
   double width, for which term_paint() marks other cells than the exposed ones. *)
Expose ==
    /\ exposed = {} /\ ~disp.double
    /\ exposed' \in Exposures
    /\ window' = [x \in Pixels |-> IF x \in exposed' THEN Nothing ELSE window[x]]
    /\ UNCHANGED <<line, disp, pending, edits>>

(* WM_PAINT: OnPaint() and term_paint(). *)
ExposedCells ==
    LET left == CHOOSE l \in exposed : \A x \in exposed : l <= x
        right == CHOOSE r \in exposed : \A x \in exposed : x <= r
    IN left \div 2 .. right \div 2 + (IF disp.double THEN 1 ELSE 0)
Immediately == ~pending
OnPaint ==
    /\ exposed # {} /\ exposed' = {}
    /\ LET cells == Invalid(disp.chars, ExposedCells)
       IN \/ Immediately /\ do_paint(line, cells, exposed) /\ UNCHANGED pending
          \/ /\ ~Immediately
             /\ disp' = [disp EXCEPT !.chars = cells]
             /\ pending' = TRUE
             /\ UNCHANGED <<window, edits>>
    /\ UNCHANGED line

Init ==
    /\ line = [chars |-> [j \in Columns |-> EraseChar], rev |-> {}, double |-> FALSE,
               curs |-> 0, cursor |-> "active"]
    /\ disp = [chars |-> Invalid([j \in Columns |-> DispCell(EraseChar, FALSE, FALSE, FALSE)], Columns),
               double |-> FALSE, cursx |-> NoColumn, cursor |-> "none"]
    /\ window = [x \in Pixels |-> Nothing]
    /\ pending = TRUE /\ exposed = {} /\ edits = 0

Next == term_data \/ term_update \/ Expose \/ OnPaint

Spec == Init /\ [][Next]_vars

-----------------------------------------------------------------------------
(* Properties. *)

TypeOK ==
    /\ line.curs \in Columns \union {NoColumn} /\ line.rev \in Reversed
    /\ \A j \in Columns : IsRight(line.chars, j) => j > 0 /\ line.chars[j - 1].chr \in Wide
    /\ exposed \subseteq Pixels /\ edits \in 0 .. MaxEdits

(* When no update is due and Windows wants nothing painted, each pixel shows what
   the row has there: what do_paint() leaves out was there already, and what it
   draws in answer to WM_PAINT, a part of a cell, was all that was missing. *)
CellAt(x) == CHOOSE j \in Columns : ~IsRight(line.chars, j) /\ In(line, j, x)
WindowShowsScreen ==
    pending \/ exposed # {} \/ \A x \in Pixels : window[x] = Shown(line, CellAt(x), x)
=============================================================================
