------------------------------- MODULE Stream -------------------------------
(***************************************************************************)
(* What each direction of a handle promises its user: what one end puts in *)
(* comes out at the other, in order, once and unchanged.  It says nothing  *)
(* of how much is on its way.                                              *)
(***************************************************************************)
EXTENDS Sequences, SequencesExt

CONSTANT Data

VARIABLES sent, received

Init == sent = <<>> /\ received = <<>>

Send == \E x \in Data : sent' = Append(sent, x) /\ UNCHANGED received

Receive ==
    /\ IsStrictPrefix(received, received')
    /\ IsPrefix(received', sent)
    /\ UNCHANGED sent

Spec == Init /\ [][Send \/ Receive]_<<sent, received>>

=============================================================================
