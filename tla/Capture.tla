-------------------------------- MODULE Capture --------------------------------
(****************************************************************************)
(* What the terminal takes out of the host's output for a printer or for    *)
(* the port next to the screen (terminal.c: printing, only_printing,        *)
(* print_state and printer_pbuf; com_state and com_buf).  Bytes are kept in *)
(* a buffer, written on at the end of each call of term_out(), except those *)
(* that may be the start of the sequence that ends the job.                 *)
(*                                                                          *)
(* A capture p is a record: on, whether the bytes are kept from the screen  *)
(* (only), how much of the terminator has been seen (state), what is held   *)
(* back besides (saved), the buffer, what was written, and, which no code   *)
(* keeps, the bytes the host sent while it was on (job), how it ended, and  *)
(* whether a byte was taken twice: one that cannot follow in a character,   *)
(* term_out() looks at again from the start.                                *)
(****************************************************************************)
EXTENDS Integers, Sequences, SequencesExt

PrintEnd == <<"ESC", "[", "4", "i">>
PortEnd == <<"ESC", "[", "/", "5", "1", "l">>

(* The 8-bit CSI stands for ESC [ at the end of a print job, not of the port's. *)
PrintEnd8 == <<"CSI", "4", "i">>
Ends(terminator) == {terminator} \union IF terminator = PrintEnd THEN {PrintEnd8} ELSE {}
Starts(terminator) == {e[1] : e \in Ends(terminator)}

(* print_saved is not set before the first ESC or CSI of a job that is kept from
   the screen: an Idle printer has any value of it that holds back saved bytes. *)
Idle(saved) ==
    [on |-> FALSE, only |-> FALSE, state |-> 0, saved |-> saved,
     buf |-> <<>>, out |-> <<>>, job |-> <<>>, end |-> "none", twice |-> FALSE]

(* term_print_setup(), term_com_setup(). *)
Setup(p, only) ==
    [p EXCEPT !.on = TRUE, !.only = only, !.state = 0,
              !.buf = <<>>, !.out = <<>>, !.job = <<>>, !.end = "none", !.twice = FALSE]

(* term_print_flush(), term_com_flush().  The 8-bit CSI is one byte less to hold
   back; when it was no end after all, that is less than none: the loop goes on
   with a buffer that is empty, reads through a null pointer, and the program ends. *)
Written(p, keep) ==
    LET n == IF Len(p.buf) > keep THEN Len(p.buf) - keep ELSE 0
    IN [p EXCEPT !.out = @ \o SubSeq(p.buf, 1, n),
                 !.buf = SubSeq(@, n + 1, Len(@))]
SlipHeld(p) == p.saved
Held(p) == p.state + p.saved
Crash(p) == [Written(p, 0) EXCEPT !.on = FALSE, !.only = FALSE, !.end = "crash"]
Flush(p) == IF ~p.on THEN p ELSE IF Held(p) < 0 THEN Crash(p) ELSE Written(p, Held(p))

(* term_print_finish(), term_com_finish(): what is left is written up to the
   first byte that starts a terminator, the rest is that. *)
BeforeStart(s, terminator) == SelectInSeq(s, LAMBDA b : b \in Starts(terminator)) - 1
Finish(p, how, terminator) ==
    LET q == Flush(p)
        n == BeforeStart(q.buf, terminator)
    IN IF ~q.on THEN q
       ELSE [q EXCEPT !.on = FALSE, !.only = FALSE, !.buf = <<>>, !.end = how,
                      !.out = @ \o IF n = -1 THEN q.buf ELSE SubSeq(q.buf, 1, n)]

(* The automata of term_out() that look for the end of the job: how much of it has
   been seen, and how many bytes more, or less, are held back. *)
EightBit(b, terminator) == b = "CSI" /\ b \in Starts(terminator)
Scan(p, b, terminator) ==
    IF b = "ESC" THEN 1 ELSE IF EightBit(b, terminator) THEN 2
    ELSE IF p.state \in 1 .. Len(terminator) - 1 /\ b = terminator[p.state + 1]
         THEN p.state + 1 ELSE 0
Saves(p, b, terminator) ==
    IF b = "ESC" THEN 0 ELSE IF EightBit(b, terminator) THEN -1 ELSE p.saved

Take(p, b, fresh) ==
    [p EXCEPT !.buf = Append(@, b), !.job = IF fresh THEN Append(@, b) ELSE @,
              !.twice = @ \/ ~fresh]

TakeOnly(p, b, fresh, terminator) ==
    LET q == [Take(p, b, fresh) EXCEPT !.state = Scan(p, b, terminator),
                                       !.saved = Saves(p, b, terminator)]
    IN IF q.state = Len(terminator) THEN Finish(q, "terminator", terminator) ELSE q

-----------------------------------------------------------------------------
(* Each byte the host sends during a job is written once, in order, and nothing
   else is: not the terminator of a job kept from the screen, in whatever pieces
   it comes and whatever looks like the start of it before.  Only the byte after a
   malformed character of a job that is shown is taken twice (2769, 2864). *)
Faithful(p, terminator) ==
    ~p.twice =>
       /\ p.on => p.job = p.out \o p.buf
       /\ p.end = "terminator" => \E e \in Ends(terminator) : p.job = p.out \o e
       /\ p.end \in {"sequence", "crash"} => p.job = p.out
       /\ p.end = "reset" => IsPrefix(p.out, p.job)
=============================================================================
