------------------------------- MODULE Clipboard -------------------------------
(*******************************************************************************)
(* Text from the screen to the clipboard and from the clipboard to the line    *)
(* discipline: clipme(), sel_spread(), term_do_paste(), term_paste() and       *)
(* term_nopaste() of terminal.c.                                               *)
(*                                                                             *)
(* The screen knows rows, and by their flags which of them were one line.  The *)
(* history variable said knows the lines, and where each character was put.    *)
(*                                                                             *)
(* rows are those of the scrollback and the screen, the last has the cursor; a *)
(* position is a pair of a row and a column.  Selections are not rectangular.  *)
(*******************************************************************************)
EXTENDS Integers, Sequences, FiniteSets, SequencesExt

CONSTANTS
    Cols,           \* Terminal.cols
    Blank,          \* a space
    Narrow, Wide,   \* the other characters, of one column and of two
    Wordness(_),    \* wordtype()
    SmallPaste,     \* how much is pasted at once: 256
    MaxSaid         \* bound: characters and line ends received

(* What is assumed of them (module UserSide). *)
ClipboardAssumption == Cols \in Nat \ {0, 1} /\ SmallPaste \in Nat

VARIABLES
    rows, curs,     \* the rows; the column of the cursor, and wrapnext
    said,           \* history: characters and line ends, and where they were put
    paste,          \* paste_buffer, paste_pos
    pasted, sent    \* history: the text pasted last, and what was sent of it

vars == <<rows, curs, said, paste, pasted, sent>>

Columns == 0 .. Cols - 1
RightHalf == "UCSWIDE"
CR == "CR"
LF == "LF"
NewLine == <<CR, LF>>       \* SEL_NL
LineEnd == "line end"

EmptyRow == [cells |-> [x \in Columns |-> Blank], wrapped |-> FALSE, wrapped2 |-> FALSE]
LastRow == Len(rows)

-----------------------------------------------------------------------------
(* term_out() of a character: where it goes, and what becomes of the rows. *)
Wrapped(r, two) == [r EXCEPT ![Len(r)].wrapped = TRUE, ![Len(r)].wrapped2 = @ \/ two]
OnNewRow(r) == [rows |-> Append(r, EmptyRow), x |-> 0]
AfterWrap ==
    IF curs.wrapnext THEN OnNewRow(Wrapped(rows, FALSE)) ELSE [rows |-> rows, x |-> curs.x]

SlipForWide(at) ==
    IF at.x = Cols - 1
    THEN OnNewRow(Wrapped([at.rows EXCEPT ![Len(at.rows)].cells[at.x] = Blank], FALSE))
    ELSE at
ForWide(at) ==
    IF at.x = Cols - 1
    THEN OnNewRow(Wrapped([at.rows EXCEPT ![Len(at.rows)].cells[at.x] = Blank], TRUE))
    ELSE at

Put(at, c, width) ==
    LET y == Len(at.rows)
        next == at.x + width
    IN /\ rows' = [at.rows EXCEPT ![y].cells =
                      [x \in Columns |-> CASE x = at.x -> c
                                           [] x = at.x + 1 /\ width = 2 -> RightHalf
                                           [] OTHER -> @[x]]]
       /\ curs' = IF next = Cols THEN [x |-> Cols - 1, wrapnext |-> TRUE]
                  ELSE [x |-> next, wrapnext |-> FALSE]
       /\ said' = Append(said, [chr |-> c, pos |-> <<y, at.x>>, width |-> width])

PrintChar ==
    /\ Len(said) < MaxSaid
    /\ \/ \E c \in Narrow \union {Blank} : Put(AfterWrap, c, 1)
       \/ \E c \in Wide : Put(ForWide(AfterWrap), c, 2)

LineFeed ==
    /\ Len(said) < MaxSaid
    /\ rows' = Append(rows, EmptyRow)
    /\ curs' = [x |-> 0, wrapnext |-> FALSE]
    /\ said' = Append(said, [chr |-> LineEnd, pos |-> <<LastRow, Cols>>, width |-> 0])

-----------------------------------------------------------------------------
poslt(p, q) == p[1] < q[1] \/ (p[1] = q[1] /\ p[2] < q[2])
posle(p, q) == p = q \/ poslt(p, q)

(* clipme().  nlpos: up to where a row is copied, from its column x on. *)
CopiedUpTo(row, x) ==
    IF row.wrapped THEN IF row.wrapped2 THEN Cols - 1 ELSE Cols
    ELSE CHOOSE n \in x .. Cols :
            /\ \A k \in n .. Cols - 1 : row.cells[k] = Blank
            /\ n = x \/ row.cells[n - 1] # Blank

RowCopied(y, top, bottom) ==
    LET x == IF y = top[1] THEN top[2] ELSE 0
        n == CopiedUpTo(rows[y], x)
        end == IF y = bottom[1] /\ bottom[2] < n THEN bottom[2] ELSE n
        cells == [k \in 1 .. (IF end > x THEN end - x ELSE 0) |-> rows[y].cells[x + k - 1]]
    IN SelectSeq(cells, LAMBDA c : c # RightHalf)
          \o (IF ~rows[y].wrapped /\ poslt(<<y, n>>, bottom) THEN NewLine ELSE <<>>)

clipme(top, bottom) ==
    LET last == IF bottom[2] > 0 \/ top[1] = bottom[1] THEN bottom[1] ELSE bottom[1] - 1
    IN IF ~poslt(top, bottom) THEN <<>>
       ELSE FlattenSeq([k \in 1 .. last - top[1] + 1 |-> RowCopied(top[1] + k - 1, top, bottom)])

(* sel_spread_half() in the mode of words. *)
CellAt(y, x) == IF x > 0 /\ rows[y].cells[x] = RightHalf THEN rows[y].cells[x - 1] ELSE rows[y].cells[x]
Type(p) == Wordness(CellAt(p[1], p[2]))
MaxCols(y) == IF rows[y].wrapped2 THEN Cols - 1 ELSE Cols

NextCell(p) ==
    IF p[2] < MaxCols(p[1]) - 1 THEN <<p[1], p[2] + 1>>
    ELSE IF rows[p[1]].wrapped THEN <<p[1] + 1, 0>> ELSE p
PrevCell(p) ==
    IF p[2] > 0 THEN <<p[1], p[2] - 1>>
    ELSE IF p[1] > 1 /\ rows[p[1] - 1].wrapped THEN <<p[1] - 1, MaxCols(p[1] - 1) - 1>> ELSE p
Cells == (DOMAIN rows) \X Columns
SpreadRight(p) ==
    LET right[q \in Cells] ==
          LET n == NextCell(q) IN IF n # q /\ Type(n) = Type(q) THEN right[n] ELSE q
    IN right[p]
SpreadLeft(p) ==
    LET left[q \in Cells] ==
          LET n == PrevCell(q) IN IF n # q /\ Type(n) = Type(q) THEN left[n] ELSE q
    IN left[p]

(* The selection after a double click: selstart and selend. *)
WordAt(p) == LET q == SpreadRight(p) IN [start |-> SpreadLeft(p), end |-> <<q[1], q[2] + 1>>]

-----------------------------------------------------------------------------
(* term_do_paste(): line ends become CR, and a small text is sent at once. *)
EndsLine(text, k) == k > 1 /\ text[k - 1] = CR /\ text[k] = LF     \* a whole SEL_NL
Lines(text) ==
    LET before[k \in 0 .. Len(text)] ==
          IF k = 0 THEN <<>>
          ELSE IF EndsLine(text, k) THEN before[k - 1] ELSE Append(before[k - 1], text[k])
    IN before[Len(text)]

NoPaste == [buffer |-> <<>>, pos |-> 0]
NewBuffer(text) == [buffer |-> text, pos |-> 0]

term_do_paste(text) ==
    /\ text # <<>>
    /\ pasted' = text
    /\ IF Len(Lines(text)) < SmallPaste
       THEN sent' = Lines(text) /\ paste' = NoPaste
       ELSE sent' = <<>> /\ paste' = NewBuffer(Lines(text))
    /\ UNCHANGED <<rows, curs, said>>

Paste ==
    \E y \in DOMAIN rows : \E z \in y .. LastRow :
        term_do_paste(clipme(<<y, 0>>, <<z, Cols>>))

(* term_paste(), after each message the window has dispatched: up to the next CR.
   last_paste is set nowhere, so that paste_hold holds nothing back. *)
term_paste ==
    /\ paste.buffer # <<>>
    /\ LET rest == SubSeq(paste.buffer, paste.pos + 1, Len(paste.buffer))
           n == IF CR \in ToSet(rest)
                THEN CHOOSE k \in DOMAIN rest : rest[k] = CR /\ \A h \in 1 .. k - 1 : rest[h] # CR
                ELSE Len(rest)
       IN /\ sent' = sent \o SubSeq(rest, 1, n)
          /\ paste' = [buffer |-> IF n = Len(rest) THEN <<>> ELSE paste.buffer, pos |-> paste.pos + n]
    /\ UNCHANGED <<rows, curs, said, pasted>>

(* term_nopaste(): a key interrupts. *)
term_nopaste ==
    /\ paste.buffer # <<>>
    /\ paste' = [paste EXCEPT !.buffer = <<>>]
    /\ pasted' = <<>> /\ sent' = <<>>
    /\ UNCHANGED <<rows, curs, said>>

Init ==
    /\ rows = <<EmptyRow>> /\ curs = [x |-> 0, wrapnext |-> FALSE] /\ said = <<>>
    /\ paste = NoPaste /\ pasted = <<>> /\ sent = <<>>

Next ==
    \/ /\ PrintChar \/ LineFeed
       /\ UNCHANGED <<paste, pasted, sent>>
    \/ Paste \/ term_paste \/ term_nopaste

Spec == Init /\ [][Next]_vars

-----------------------------------------------------------------------------
(* Properties. *)

(* What is copied is what was said: the characters that begin in the selection, in
   their order, and a line end for each line that ends in it, but not the spaces
   at the end of a line's last row.  Where the window broke the lines is not to be
   seen (clipme()). *)
Ended == Append(said, [chr |-> LineEnd, pos |-> <<LastRow, Cols>>, width |-> 0])
OnRow(y) == {i \in DOMAIN Ended : Ended[i].pos[1] = y}
Trailing(i) ==
    /\ \E j \in OnRow(Ended[i].pos[1]) : Ended[j].chr = LineEnd
    /\ \A j \in OnRow(Ended[i].pos[1]) : j >= i => Ended[j].chr \in {Blank, LineEnd}
EndOf(y, trailing) ==
    LET s == OnRow(y) \ trailing
    IN IF s = {} THEN <<y, 0>>
       ELSE LET e == Ended[CHOOSE i \in s : \A j \in s : j <= i] IN <<y, e.pos[2] + e.width>>

Positions == (1 .. LastRow) \X (0 .. Cols)
CopiesWhatWasSaid ==
    LET all == Ended
        trailing == {i \in DOMAIN all : Trailing(i)}
        ends == [y \in DOMAIN rows |-> EndOf(y, trailing)]
        Selected(i, top, bottom) ==
            IF all[i].chr = LineEnd
            THEN top[1] <= all[i].pos[1] /\ poslt(ends[all[i].pos[1]], bottom)
            ELSE posle(top, all[i].pos) /\ poslt(all[i].pos, bottom) /\ i \notin trailing
        Said(top, bottom) ==
            FlattenSeq([i \in DOMAIN all |->
                IF ~Selected(i, top, bottom) THEN <<>>
                ELSE IF all[i].chr = LineEnd THEN NewLine ELSE <<all[i].chr>>])
    IN \A top \in Positions, bottom \in Positions :
          top[2] < Cols /\ poslt(top, bottom) => clipme(top, bottom) = Said(top, bottom)

(* A double click on a character selects the characters of its kind before and
   after it in its line, on whatever rows they are (sel_spread_half()). *)
SameWord(i, j) ==
    \A k \in DOMAIN said :
        (k \in i .. j \/ k \in j .. i) =>
            said[k].chr # LineEnd /\ Wordness(said[k].chr) = Wordness(said[i].chr)
ClickSelectsWord ==
    \A i \in DOMAIN said :
        said[i].chr \notin {LineEnd, Blank} =>
            LET word == {j \in DOMAIN said : SameWord(i, j)}
                first == said[CHOOSE j \in word : \A k \in word : j <= k]
                last == said[CHOOSE j \in word : \A k \in word : k <= j]
            IN WordAt(said[i].pos) = [start |-> first.pos,
                                      end |-> <<last.pos[1], last.pos[2] + last.width>>]

(* Each character of a pasted text is sent once and in order, a CR for each line
   end, and all of it if no key interrupts (term_paste()). *)
PasteSendsText ==
    /\ sent = SubSeq(Lines(pasted), 1, Len(sent))
    /\ paste.buffer = <<>> => sent = Lines(pasted)
=============================================================================
