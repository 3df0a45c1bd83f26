------------------------------ MODULE WinSocket ------------------------------
(***************************************************************************)
(* A client's TCP socket as winnet.c keeps it, as operators on its         *)
(* Actual_Socket s: the addresses tried in turn, the queue of what could   *)
(* not be sent yet, the urgent byte that replaces it, and the error that a *)
(* send leaves to be reported later.                                       *)
(*                                                                         *)
(* What winnet.c sends is a sequence of units: a byte of text, or a whole  *)
(* request or command, which travels as one.  Windows is external: wire is *)
(* its send buffer, blocked says that it owes an FD_WRITE (as it does when *)
(* the connection is made), reset that the connection has been reset.      *)
(*                                                                         *)
(* An operator named Slip... is a plausible mistake in the one it          *)
(* precedes: no action uses it, the mutation runs of PROJECT.json put it   *)
(* in that operator's place.                                               *)
(***************************************************************************)
EXTENDS Naturals, Sequences, SequencesExt

CONSTANT SendRoom    \* bound: the units that Windows takes before it blocks

ASSUME SendRoomAssumption == SendRoom \in Nat \ {0}

(* What becomes of an attempt to connect to an address: it fails at once (an
   address family that is not installed), is refused later, or succeeds. *)
Addresses == {"unusable", "refused", "good"}

(* The urgent byte, which winnet.c sends with MSG_OOB. *)
Urgent == [urgent |-> "DM"]

AsUnits(s) == s.oob \o s.output
Room(s) == SendRoom - Len(s.wire)

-----------------------------------------------------------------------------
(* try_connect(): an attempt that fails at once leaves its error in s->error, for
   good; any other gives way to the next one that is made. *)
try_connect(s, tried) ==
    [s EXCEPT !.error = @ \/ \E i \in tried : s.addrs[i] = "unusable"]
AtOnce(s) == s.addrs[s.addr] = "unusable"

(* sk_new(): the first address that does not fail at once. *)
sk_new(addrs) ==
    LET usable == SelectInSeq(addrs, LAMBDA a : a # "unusable")
        new(i) == [addrs |-> addrs, addr |-> i, error |-> usable # 1,
                   connected |-> FALSE, writable |-> FALSE, oob |-> <<>>,
                   output |-> <<>>, pending_error |-> FALSE, wire |-> <<>>,
                   blocked |-> TRUE, reset |-> FALSE]
    IN  new(IF usable = 0 THEN Len(addrs) ELSE usable)

(* sk_nextaddr() can advance. *)
SlipHasNext(s) == s.addr # 0 /\ s.addr + 1 < Len(s.addrs)
HasNext(s) == s.addr # 0 /\ s.addr < Len(s.addrs)

(* select_result() on an error, as far as there are addresses: the loop does not
   wait for an attempt before it makes the next, so the last one stands. *)
FallBack(s) ==
    IF HasNext(s)
    THEN [try_connect(s, s.addr + 1 .. Len(s.addrs)) EXCEPT !.addr = Len(s.addrs)]
    ELSE s

(* FD_CONNECT. *)
Connected(s) == [s EXCEPT !.connected = TRUE, !.writable = TRUE, !.addr = 0]

(* try_send(): the urgent byte first, then the queue, until Windows blocks. *)
try_send(s) ==
    LET queue == AsUnits(s)
        n     == IF Len(queue) <= Room(s) THEN Len(queue) ELSE Room(s)
        past  == IF n <= Len(s.oob) THEN 0 ELSE n - Len(s.oob)
    IN  IF queue = <<>> THEN s
        ELSE IF s.reset THEN [s EXCEPT !.pending_error = TRUE]
        ELSE [s EXCEPT !.wire = @ \o SubSeq(queue, 1, n),
                       !.oob = SubSeq(@, n + 1, Len(@)),
                       !.output = SubSeq(@, past + 1, Len(@)),
                       !.writable = (n = Len(queue)),
                       !.blocked = @ \/ n < Len(queue)]

IfWritable(s) == IF s.writable THEN try_send(s) ELSE s

sk_tcp_write(s, unit) == IfWritable([s EXCEPT !.output = Append(@, unit)])

(* Only while keys are enabled and no device is being read; else the caller
   is told that it was sent. *)
sk_tcp_write_oob(s, enabled) ==
    IF enabled THEN IfWritable([s EXCEPT !.output = <<>>, !.oob = <<Urgent>>]) ELSE s

(* FD_WRITE. *)
SlipMayWrite(s) == [s EXCEPT !.writable = TRUE, !.blocked = FALSE]
MayWrite(s) == try_send([s EXCEPT !.writable = TRUE, !.blocked = FALSE])

=============================================================================
