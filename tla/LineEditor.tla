------------------------------ MODULE LineEditor ------------------------------
(***************************************************************************)
(* What the line discipline promises: of the line being typed only the end *)
(* is ever changed, and the host gets signals meanwhile, or else the whole *)
(* line, once and ahead of anything typed after it.                        *)
(***************************************************************************)
EXTENDS Sequences, SequencesExt

CONSTANTS Char, Signal

VARIABLES
    line,    \* what has been typed and not sent
    out      \* what the latest step handed to the host

Init == line = <<>> /\ out = <<>>

Edit ==
    /\ out' \in Seq(Signal)
    /\ \E n \in 0 .. Len(line) :
        LET kept == SubSeq(line, 1, n)
        IN  line' = kept \/ \E c \in Char : line' = Append(kept, c)

Send ==
    /\ out' \in Seq(Char \union Signal)
    /\ IsPrefix(line, out')
    /\ line' = <<>>

Spec == Init /\ [][Edit \/ Send]_<<line, out>>

=============================================================================
