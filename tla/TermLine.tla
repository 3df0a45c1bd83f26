------------------------------- MODULE TermLine -------------------------------
(*********************************************************************************)
(* A row of the terminal as terminal.c keeps it (struct termline): an array      *)
(* of termchars of which the first cols are the cells, and the others hold       *)
(* combining characters, linked into the list of their cell or into the list     *)
(* of the free ones by offsets relative to where they stand (cc_next).  The      *)
(* array is indexed from 0, as in the code, where cc_free = 0 is no list.        *)
(*                                                                               *)
(* A row in the scrollback is the sequence of bytes of compressline(); LineCodec *)
(* has the way there and the way back.                                           *)
(*********************************************************************************)
EXTENDS LineCodec

CONSTANTS
    Chars, Attrs, Marks,    \* characters, attributes, combining characters
    Blank,                  \* the character of an erased cell
    Widths,                 \* the columns the window may have
    Grow,                   \* cells allocated at once for combining characters: 16
    MaxMarks                \* bound: combining characters on a row

ASSUME TermLineAssumption ==
    /\ Chars \union Marks \subseteq Pages \X (0 .. 3) /\ <<0, 0>> \notin Marks
    /\ Attrs \subseteq Nat /\ 0 \in Attrs
    /\ Blank \in Chars /\ Widths \subseteq Nat \ {0}
    /\ Grow \in Nat \ {0} /\ MaxMarks \in Nat

VARIABLE line       \* chars, cols, cc_free; size is how many chars there are

Index(s) == 0 .. s - 1
Size(l) == l.size
TermChar(c, attr) == [chr |-> c, attr |-> attr, cc_next |-> 0]
EraseChar == TermChar(Blank, 0)

NewLine(cols) ==
    [chars |-> [i \in Index(cols) |-> EraseChar], cols |-> cols, size |-> cols, cc_free |-> 0]

-----------------------------------------------------------------------------
(* The places of the list that starts at i: the combining characters of cell i,
   if i is a cell. *)
RECURSIVE Places(_, _)
Places(l, i) ==
    IF l.chars[i].cc_next = 0 THEN <<i>>
    ELSE <<i>> \o Places(l, i + l.chars[i].cc_next)
LastPlace(l, i) == LET s == Places(l, i) IN s[Len(s)]
ListOf(l, i) == Tail(Places(l, i))
FreePlaces(l) == IF l.cc_free = 0 THEN <<>> ELSE Places(l, l.cc_free)

(* A longer array: what is new is the free list. *)
Extended(l) ==
    LET n == l.size
        s == l.size + Grow + (l.size - l.cols) \div 2
    IN [l EXCEPT !.size = s, !.cc_free = n,
                 !.chars = [i \in Index(s) |->
                     IF i < n THEN l.chars[i]
                     ELSE [EraseChar EXCEPT !.cc_next = IF i + 1 < s THEN 1 ELSE 0]]]

add_cc(l, col, chr) ==
    LET m == IF l.cc_free = 0 THEN Extended(l) ELSE l
        new == m.cc_free
        last == LastPlace(m, col)
    IN [m EXCEPT
          !.cc_free = IF m.chars[new].cc_next = 0 THEN 0 ELSE new + m.chars[new].cc_next,
          !.chars[new] = [@ EXCEPT !.chr = chr, !.cc_next = 0],
          !.chars[last].cc_next = new - last]

(* The list of a cell goes in front of the free list. *)
SlipClear(l, col) ==
    IF l.chars[col].cc_next = 0 THEN l
    ELSE [l EXCEPT !.cc_free = col + l.chars[col].cc_next,
                   !.chars[col].cc_next = 0]
clear_cc(l, col) ==
    IF l.chars[col].cc_next = 0 THEN l
    ELSE LET last == LastPlace(l, col)
         IN [l EXCEPT !.cc_free = col + l.chars[col].cc_next,
                      !.chars[last].cc_next = IF l.cc_free = 0 THEN 0 ELSE l.cc_free - last,
                      !.chars[col].cc_next = 0]

(* copy_termchar() of a character without combining ones. *)
Overwrite(l, x, tc) == [clear_cc(l, x) EXCEPT !.chars[x] = tc]

move_termchar(l, dest, src) ==
    LET m == clear_cc(l, dest)
        next == m.chars[src].cc_next
    IN [m EXCEPT !.chars[dest] = [m.chars[src] EXCEPT
                     !.cc_next = IF next = 0 THEN 0 ELSE next - (dest - src)],
                 !.chars[src].cc_next = 0]

RECURSIVE EraseFrom(_, _, _)
EraseFrom(l, x, n) == IF n = 0 THEN l ELSE EraseFrom(Overwrite(l, x, EraseChar), x + 1, n - 1)

(* The loops of insch(): m cells are moved by n, towards x from the left end on,
   away from it from the right end on. *)
RECURSIVE MoveLeft(_, _, _, _), MoveRight(_, _, _, _)
MoveLeft(l, x, n, m) ==
    IF m = 0 THEN l ELSE MoveLeft(move_termchar(l, x, x + n), x + 1, n, m - 1)
MoveRight(l, x, n, m) ==
    IF m = 0 THEN l ELSE MoveRight(move_termchar(l, x + m - 1 + n, x + m - 1), x, n, m - 1)

(* The cells that stay keep their characters, and the array keeps as much room
   behind them; the first offset of each list, and the start of the free list,
   are set right. *)
SlipShift(l, cols) == l.chars
Shifted(l, cols) ==
    [i \in Index(l.cols) |->
        IF i < cols /\ l.chars[i].cc_next # 0
        THEN [l.chars[i] EXCEPT !.cc_next = @ + cols - l.cols] ELSE l.chars[i]]
RECURSIVE ClearFrom(_, _)
ClearFrom(l, i) == IF i >= l.cols THEN l ELSE ClearFrom(clear_cc(l, i), i + 1)
resizeline(l, cols) ==
    IF l.cols = cols THEN l
    ELSE LET m == ClearFrom(l, cols)
             front == Shifted(m, cols)
             s == m.size + cols - m.cols
         IN [chars |-> [i \in Index(s) |->
                           IF i < cols THEN IF i < m.cols THEN front[i] ELSE EraseChar
                                       ELSE m.chars[i + m.cols - cols]],
             cols |-> cols, size |-> s,
             cc_free |-> IF m.cc_free = 0 THEN 0 ELSE m.cc_free + cols - m.cols]

(* A row as its cells, as makerle() reads it; and the way back: readliteral_cc()
   gives a cell its combining characters. *)
CellsOf(l) ==
    [i \in 1 .. l.cols |->
        [chr |-> l.chars[i - 1].chr, attr |-> l.chars[i - 1].attr,
         marks |-> LET s == ListOf(l, i - 1) IN [k \in DOMAIN s |-> l.chars[s[k]].chr]]]
RECURSIVE WithMarks(_, _, _)
WithMarks(l, x, marks) ==
    IF marks = <<>> THEN l ELSE WithMarks(add_cc(l, x, Head(marks)), x, Tail(marks))
RECURSIVE WithCells(_, _, _)
WithCells(l, x, s) ==
    IF x = Len(s) THEN l
    ELSE LET m == [l EXCEPT !.chars[x] = [@ EXCEPT !.chr = s[x + 1].chr, !.attr = s[x + 1].attr]]
         IN WithCells(WithMarks(m, x, s[x + 1].marks), x + 1, s)
Stored(l) ==
    LET s == decompressline(compressline(CellsOf(l))) IN WithCells(NewLine(Len(s)), 0, s)

-----------------------------------------------------------------------------
Columns == Index(line.cols)

(* A character is written into a cell, or laid over the one that is there. *)
Put == \E x \in Columns, c \in Chars, attr \in Attrs :
    line' = Overwrite(line, x, TermChar(c, attr))

MarkCount(l) == l.size - l.cols - Len(FreePlaces(l))
Combine == \E x \in Columns, m \in Marks :
    /\ MarkCount(line) < MaxMarks
    /\ line' = add_cc(line, x, m)

(* insch(): insert and delete characters, at most as many as are there. *)
Clipped(x, n) == IF n > line.cols - x THEN line.cols - x ELSE n
InsertCells == \E x \in Columns, k \in 1 .. line.cols :
    LET n == Clipped(x, k)
    IN line' = EraseFrom(MoveRight(line, x, n, line.cols - x - n), x, n)
DeleteCells == \E x \in Columns, k \in 1 .. line.cols :
    LET n == Clipped(x, k)
    IN line' = EraseFrom(MoveLeft(line, x, n, line.cols - x - n), line.cols - n, n)

EraseCells == \E x \in Columns, k \in 1 .. line.cols :
    line' = EraseFrom(line, x, Clipped(x, k))

Resize == \E w \in Widths : line' = resizeline(line, w)

(* The row goes to the scrollback, and lineptr() takes it out again, at the
   width the window has then. *)
Store == LET s == Stored(line) IN \E w \in Widths : line' = resizeline(s, w)

Init == \E w \in Widths : line = NewLine(w)

Next == Put \/ Combine \/ InsertCells \/ DeleteCells \/ EraseCells \/ Resize \/ Store

Spec == Init /\ [][Next]_line

-----------------------------------------------------------------------------
(* Properties. *)

(* What cc_check() says of a row: each place behind the cells is in the list of
   one cell, or in the free list, and in one of them once. *)
CombiningListsSound ==
    LET lists == {<<i, ToSet(ListOf(line, i))>> : i \in Columns} \union {<<-1, ToSet(FreePlaces(line))>>}
        behind == line.cols .. line.size - 1
    IN /\ UNION {s[2] : s \in lists} = behind
       /\ \A s, t \in lists : s # t => s[2] \intersect t[2] = {}

(* A row is a row of cells: an operation on a cell changes that cell, the cells
   that move take their combining characters along, and a row comes back from
   the scrollback as it went there. *)
Text == INSTANCE TextLine WITH cells <- CellsOf(line)
IsTextLine == Text!Spec
=============================================================================
