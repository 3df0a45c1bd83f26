-------------------------------- MODULE Bufchain --------------------------------
(********************************************************************************)
(* bufchain of misc.c: bytes in blocks of a fixed size, added at the end and    *)
(* consumed at the front.  A block is the bytes put into it and how many of     *)
(* them are consumed (buf, bufpos); a block has room for Granule bytes, used or *)
(* not.                                                                         *)
(********************************************************************************)
EXTENDS Integers, Sequences, SequencesExt

CONSTANT Granule        \* BUFFER_GRANULE

bufchain_init == <<>>

Block(data) == [buf |-> data, bufpos |-> 0]
Left(b) == SubSeq(b.buf, b.bufpos + 1, Len(b.buf))
Contents(ch) == FlattenSeq([i \in DOMAIN ch |-> Left(ch[i])])
bufchain_size(ch) == Len(Contents(ch))

Least(a, b) == IF a < b THEN a ELSE b

(* What fits goes into the last block, the rest into new ones. *)
bufchain_add(ch, data) ==
    LET room == IF ch = <<>> THEN 0 ELSE Least(Len(data), Granule - Len(ch[Len(ch)].buf))
        rest == SubSeq(data, room + 1, Len(data))
        filled == IF ch = <<>> THEN ch
                  ELSE [ch EXCEPT ![Len(ch)].buf = @ \o SubSeq(data, 1, room)]
    IN filled \o [k \in 1 .. (Len(rest) + Granule - 1) \div Granule |->
                     Block(SubSeq(rest, (k - 1) * Granule + 1, Least(k * Granule, Len(rest))))]

(* The first block: a pointer into it. *)
bufchain_prefix(ch) == Left(ch[1])

(* Blocks are freed as they are used up. *)
Before(ch, i) == bufchain_size(SubSeq(ch, 1, i - 1))
SlipConsume(ch, n) == Tail(ch)
bufchain_consume(ch, n) ==
    LET kept == {i \in DOMAIN ch : Before(ch, i) + Len(Left(ch[i])) > n}
        first == CHOOSE i \in kept : \A j \in kept : i <= j
    IN IF kept = {} THEN <<>>
       ELSE [SubSeq(ch, first, Len(ch)) EXCEPT ![1].bufpos = @ + n - Before(ch, first)]
=============================================================================
