------------------------------- MODULE LineCodec -------------------------------
(*******************************************************************************)
(* compressline() and decompressline() of terminal.c: a row as the bytes it    *)
(* has in the scrollback.  The characters, the attributes and the combining    *)
(* characters are three streams of literals, each a byte of literals that      *)
(* follow or of repetitions of one, and the literals.  The length of a literal *)
(* depends on its value, and that of a character on the one before it.         *)
(*                                                                             *)
(* A character is its page, the upper bits, and a code below 4, of which 0     *)
(* and 1 stand for those of seven bits; a byte is a number, Intro + page       *)
(* introduces a page.  The bytes of a stream are counted from 0.               *)
(*******************************************************************************)
EXTENDS Integers, Sequences, SequencesExt

CONSTANTS
    LitMax,     \* the most literals after one byte: 128
    Pages       \* the pages of the characters: the upper 24 bits

Intro == 10
Wide == 20      \* the top bit of the first byte of an attribute of four

ASSUME LineCodecAssumption == LitMax \in Nat \ {0} /\ Pages \subseteq 0 .. 9

-----------------------------------------------------------------------------
(* A literal: its bytes, and the page that a byte of its own will mean next. *)
Literal(bytes, page) == [bytes |-> bytes, page |-> page]

makeliteral_chr(chr, page) ==
    IF chr[1] = page /\ chr[2] < 2 THEN Literal(<<chr[2]>>, page)
    ELSE Literal(<<Intro + chr[1]>> \o [k \in 1 .. chr[1] |-> 0] \o <<chr[2]>>, chr[1])

(* The colours beyond the first sixteen need four bytes. *)
makeliteral_attr(attr, page) ==
    Literal(IF attr < 2 THEN <<0, attr>> ELSE <<Wide, 0, 0, attr>>, page)

makeliteral_cc(marks, page) ==
    Literal(FlattenSeq([k \in 1 .. Len(marks) |-> makeliteral_chr(marks[k], 0).bytes])
              \o makeliteral_chr(<<0, 0>>, 0).bytes, page)

LiteralOf(f, cell, page) ==
    CASE f = "chr"  -> makeliteral_chr(cell.chr, page)
      [] f = "attr" -> makeliteral_attr(cell.attr, page)
      [] f = "cc"   -> makeliteral_cc(cell.marks, page)

-----------------------------------------------------------------------------
(* makerle(): r.data is the buffer, r.hdrpos the byte that will say how many
   literals follow it, r.hdrsize how many do so far. *)
Byte(data, pos, b) == [data EXCEPT ![pos + 1] = b]
Bytes(data, pos, n) == SubSeq(data, pos + 1, pos + n)

NewHeader(r) ==
    [r EXCEPT !.hdrpos = Len(r.data), !.hdrsize = 0, !.data = Append(@, 0),
              !.prevlen = 0, !.prevpos = 0, !.prev2 = FALSE]
EndLiterals(r, n) == [r EXCEPT !.data = Byte(@, r.hdrpos, n - 1)]

(* How far the literal goes on, and the page after it. *)
RECURSIVE RunFrom(_, _, _, _, _, _)
RunFrom(f, cells, i, page, bytes, runlen) ==
    IF i <= Len(cells) /\ runlen < LitMax + 1 /\ LiteralOf(f, cells[i], page).bytes = bytes
    THEN RunFrom(f, cells, i + 1, LiteralOf(f, cells[i], page).page, bytes, runlen + 1)
    ELSE [i |-> i, page |-> page, len |-> runlen]

(* The run starts at the literal before this one, or the one before that, and
   in place of the header if no other literal comes before it. *)
Run(f, cells, r, lit) ==
    LET back == IF r.prev2 THEN 2 ELSE 1
        size == r.hdrsize - back
        pos == r.prevpos - (back - 1) * r.prevlen
        alone == size = 0
        e == IF alone THEN r ELSE EndLiterals(r, size)
        runpos == IF alone THEN r.hdrpos ELSE pos
        run == RunFrom(f, cells, r.i + 1, lit.page, lit.bytes, back + 1)
    IN NewHeader([e EXCEPT
          !.data = Bytes(@, 0, runpos) \o <<run.len + LitMax - 2>> \o lit.bytes,
          !.i = run.i, !.page = run.page])

Plain(r, lit, same) ==
    LET q == [r EXCEPT !.data = @ \o lit.bytes, !.hdrsize = @ + 1, !.i = @ + 1,
                       !.page = lit.page, !.prev2 = same,
                       !.prevlen = Len(lit.bytes), !.prevpos = Len(r.data)]
    IN IF q.hdrsize = LitMax THEN NewHeader(EndLiterals(q, LitMax)) ELSE q

RECURSIVE Rle(_, _, _)
Rle(f, cells, r) ==
    IF r.i > Len(cells)
    THEN IF r.hdrsize > 0 THEN EndLiterals(r, r.hdrsize).data ELSE Bytes(r.data, 0, r.hdrpos)
    ELSE LET lit == LiteralOf(f, cells[r.i], r.page)
             same == lit.bytes = Bytes(r.data, r.prevpos, r.prevlen)
         IN Rle(f, cells, IF same /\ (Len(lit.bytes) > 1 \/ r.prev2)
                          THEN Run(f, cells, r, lit) ELSE Plain(r, lit, same))

makerle(f, cells) ==
    Rle(f, cells, NewHeader([data |-> <<>>, hdrpos |-> 0, hdrsize |-> 0, prevlen |-> 0,
                             prevpos |-> 0, prev2 |-> FALSE, i |-> 1, page |-> 0]))

compressline(cells) ==
    <<Len(cells)>> \o makerle("chr", cells) \o makerle("attr", cells) \o makerle("cc", cells)

-----------------------------------------------------------------------------
(* The way back.  A literal read at pos: its value, the place after it, the page. *)
Read(val, pos, page) == [val |-> val, pos |-> pos, page |-> page]

readliteral_chr(data, pos, page) ==
    LET b == data[pos + 1]
    IN IF b < Intro THEN Read(<<page, b>>, pos + 1, page)
       ELSE LET p == b - Intro IN Read(<<p, data[pos + p + 2]>>, pos + p + 2, p)

readliteral_attr(data, pos, page) ==
    IF data[pos + 1] < Wide THEN Read(data[pos + 2], pos + 2, page)
    ELSE Read(data[pos + 4], pos + 4, page)

RECURSIVE readliteral_cc(_, _, _, _)
readliteral_cc(data, pos, page, marks) ==
    LET m == readliteral_chr(data, pos, 0)
    IN IF m.val = <<0, 0>> THEN Read(marks, m.pos, page)
       ELSE readliteral_cc(data, m.pos, page, Append(marks, m.val))

LiteralAt(f, data, pos, page) ==
    CASE f = "chr"  -> readliteral_chr(data, pos, page)
      [] f = "attr" -> readliteral_attr(data, pos, page)
      [] f = "cc"   -> readliteral_cc(data, pos, page, <<>>)

(* readrle(): a literal that is repeated is read again for each of its cells. *)
RECURSIVE Literals(_, _, _, _), readrle(_, _, _, _)
Literals(f, data, s, todo) ==
    IF todo.count = 0 THEN s
    ELSE LET x == LiteralAt(f, data, s.pos, s.page)
             t == [vals |-> Append(s.vals, x.val), page |-> x.page,
                   pos |-> IF todo.again /\ todo.count > 1 THEN s.pos ELSE x.pos]
         IN Literals(f, data, t, [todo EXCEPT !.count = @ - 1])

readrle(f, data, s, cols) ==
    IF Len(s.vals) >= cols THEN s
    ELSE LET hdr == data[s.pos + 1]
             again == hdr >= LitMax
             n == IF again THEN hdr + 2 - LitMax ELSE hdr + 1
         IN readrle(f, data, Literals(f, data, [s EXCEPT !.pos = @ + 1],
                                      [count |-> n, again |-> again]), cols)

Stream(f, data, pos, cols) == readrle(f, data, [vals |-> <<>>, page |-> 0, pos |-> pos], cols)

decompressline(data) ==
    LET cols == data[1]
        chrs == Stream("chr", data, 1, cols)
        attrs == Stream("attr", data, chrs.pos, cols)
        ccs == Stream("cc", data, attrs.pos, cols)
    IN [i \in 1 .. cols |-> [chr |-> chrs.vals[i], attr |-> attrs.vals[i], marks |-> ccs.vals[i]]]
=============================================================================
