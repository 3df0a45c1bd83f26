------------------------------- MODULE TextLine -------------------------------
(***************************************************************************)
(* What a row of the terminal promises to be: a sequence of cells, each a  *)
(* character with its attribute and the combining characters laid over it, *)
(* whatever is done to the cells around it.                                *)
(***************************************************************************)
EXTENDS Naturals, Sequences

CONSTANTS Chars, Attrs, Marks, Widths, Blank

VARIABLE cells

Cell(ch, attr, marks) == [chr |-> ch, attr |-> attr, marks |-> marks]
Empty == Cell(Blank, 0, <<>>)
Blanks(n) == [i \in 1 .. n |-> Empty]
Cols == Len(cells)

Put(x) == \E ch \in Chars, attr \in Attrs :
    cells' = [cells EXCEPT ![x] = Cell(ch, attr, <<>>)]

Combine(x) == \E m \in Marks :
    cells' = [cells EXCEPT ![x].marks = Append(@, m)]

InsertCells(x, n) == n <= Cols - x + 1 /\ cells' =
    SubSeq(cells, 1, x - 1) \o Blanks(n) \o SubSeq(cells, x, Cols - n)

DeleteCells(x, n) == n <= Cols - x + 1 /\ cells' =
    SubSeq(cells, 1, x - 1) \o SubSeq(cells, x + n, Cols) \o Blanks(n)

EraseCells(x, n) == n <= Cols - x + 1 /\ cells' =
    [i \in 1 .. Cols |-> IF i \in x .. x + n - 1 THEN Empty ELSE cells[i]]

Resize == \E w \in Widths :
    cells' = [i \in 1 .. w |-> IF i <= Cols THEN cells[i] ELSE Empty]

Init == \E w \in Widths : cells = Blanks(w)

Next ==
    \/ \E x \in 1 .. Cols :
        \/ Put(x) \/ Combine(x)
        \/ \E n \in 1 .. Cols :
            InsertCells(x, n) \/ DeleteCells(x, n) \/ EraseCells(x, n)
    \/ Resize

Spec == Init /\ [][Next]_cells
=============================================================================
