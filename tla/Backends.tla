-------------------------------- MODULE Backends --------------------------------
(********************************************************************************)
(* The raw and the rlogin backends (raw.c, rlogin.c): what they make of what    *)
(* the socket brings, and what they write to it.  The socket is two queues and, *)
(* for rlogin, the one urgent byte that is outside them; its other states are   *)
(* those of WinSocket.                                                          *)
(********************************************************************************)
EXTENDS Integers, Sequences, SequencesExt

CONSTANTS
    Protocols,      \* "raw", "rlogin"
    Widths,         \* sizes of the window
    MaxSent, MaxWritten     \* bounds: bytes from the host, writes to it

(* What is assumed of them (module HostSide); a size is told from what else is written. *)
BackendsAssumption ==
    /\ Protocols \subseteq {"raw", "rlogin"}
    /\ Widths \intersect {"NUL", "localusername", "username", "termtype/termspeed", "typed"} = {}

VARIABLES
    backend,    \* proto, whether s is open, firstbyte, cansize, term_width
    width,      \* the terminal's size
    inband,     \* bytes the host sent that were not received
    urgent,     \* the urgent byte, "none" when there is none
    written,    \* what was written to the socket
    shown,      \* what from_backend() got
    sent,       \* all bytes the host sent in band
    asked       \* whether the host asked for the size

vars == <<backend, width, inband, urgent, written, shown, sent, asked>>

NUL == "NUL"
Open == backend.s

(* sk_write() by a backend whose socket may be gone. *)
Written(b, items) == IF b.s THEN written \o items ELSE written

-----------------------------------------------------------------------------
(* rlogin_init() sends the users and the terminal before anything else. *)
Login == <<NUL, "localusername", NUL, "username", NUL, "termtype/termspeed", NUL>>

raw_init == [proto |-> "raw", s |-> TRUE, firstbyte |-> FALSE, cansize |-> FALSE, term_width |-> 0]
rlogin_init(w) == [proto |-> "rlogin", s |-> TRUE, firstbyte |-> TRUE, cansize |-> FALSE, term_width |-> w]

(* rlogin_size(): sent only once the host has asked for it. *)
SizeMessage(w) == w
Sized(b, w) == [b EXCEPT !.term_width = w]
rlogin_size(b, w) ==
    /\ backend' = Sized(b, w)
    /\ written' = IF b.cansize THEN Written(b, <<SizeMessage(backend'.term_width)>>) ELSE written

raw_size == UNCHANGED <<backend, written>>

(* rlogin_receive(), in band: the first byte of all, if NUL, is not shown. *)
SlipPrinted(b, data) == IF data[1] = NUL THEN Tail(data) ELSE data
Printed(b, data) == IF b.firstbyte /\ data[1] = NUL THEN Tail(data) ELSE data

-----------------------------------------------------------------------------
HostSends ==
    /\ Open /\ Len(sent) < MaxSent
    /\ \E c \in {NUL, "a"} : inband' = Append(inband, c) /\ sent' = Append(sent, c)
    /\ UNCHANGED <<backend, width, urgent, written, shown, asked>>

(* 0x80 asks for the size; others have no effect. *)
HostUrges ==
    /\ Open /\ backend.proto = "rlogin" /\ urgent = "none" /\ Len(written) < MaxWritten
    /\ \E c \in {"0x80", "0x02"} :
          urgent' = c /\ asked' = (asked \/ c = "0x80")
    /\ UNCHANGED <<backend, width, inband, written, shown, sent>>

raw_receive ==
    /\ Open /\ backend.proto = "raw"
    /\ \E n \in 1 .. Len(inband) :
          /\ shown' = shown \o SubSeq(inband, 1, n)
          /\ inband' = SubSeq(inband, n + 1, Len(inband))
    /\ UNCHANGED <<backend, width, urgent, written, sent, asked>>

rlogin_receive ==
    /\ Open /\ backend.proto = "rlogin"
    /\ \E n \in 1 .. Len(inband) :
          /\ shown' = shown \o Printed(backend, SubSeq(inband, 1, n))
          /\ inband' = SubSeq(inband, n + 1, Len(inband))
    /\ backend' = [backend EXCEPT !.firstbyte = FALSE]
    /\ UNCHANGED <<width, urgent, written, sent, asked>>

rlogin_receive_urgent ==
    /\ Open /\ urgent # "none" /\ urgent' = "none"
    /\ IF urgent = "0x80"
       THEN rlogin_size([backend EXCEPT !.cansize = TRUE], backend.term_width)
       ELSE UNCHANGED <<backend, written>>
    /\ UNCHANGED <<width, inband, shown, sent, asked>>

Resize ==
    /\ Len(written) < MaxWritten
    /\ \E w \in Widths \ {width} :
          /\ width' = w
          /\ IF backend.proto = "raw" THEN raw_size ELSE rlogin_size(backend, w)
    /\ UNCHANGED <<inband, urgent, shown, sent, asked>>

(* raw_send(), rlogin_send(): nothing is sent when the connection is gone. *)
Send ==
    /\ Len(written) < MaxWritten
    /\ written' = Written(backend, <<"typed">>)
    /\ UNCHANGED <<backend, width, inband, urgent, shown, sent, asked>>

(* raw_closing(), rlogin_closing(). *)
Closing ==
    /\ Open
    /\ backend' = [backend EXCEPT !.s = FALSE]
    /\ UNCHANGED <<width, inband, urgent, written, shown, sent, asked>>

Init ==
    /\ width \in Widths
    /\ \E p \in Protocols :
          /\ backend = IF p = "raw" THEN raw_init ELSE rlogin_init(width)
          /\ written = IF p = "raw" THEN <<>> ELSE Login
    /\ inband = <<>> /\ urgent = "none" /\ shown = <<>> /\ sent = <<>> /\ asked = FALSE

Next ==
    \/ HostSends \/ HostUrges \/ raw_receive \/ rlogin_receive \/ rlogin_receive_urgent
    \/ Resize \/ Send \/ Closing
Spec == Init /\ [][Next]_vars

-----------------------------------------------------------------------------
(* Properties. *)

(* In whatever segments it comes, the terminal gets what the host sent, without *)
(* the first byte of an rlogin session when that is NUL (rlogin.c:69-103).      *)
TextShown ==
    sent # <<>> /\ (backend.firstbyte => shown # <<>>) =>
       shown \o inband = IF backend.proto = "rlogin" /\ sent[1] = NUL THEN Tail(sent) ELSE sent

(* Once the host has asked, and its request has come, the last size it was sent *)
(* is the window's, whenever the window changed; before that it is sent none.   *)
HostKnowsSize ==
    LET told == {i \in DOMAIN written : written[i] \in Widths}
    IN /\ ~asked => told = {}
       /\ Open /\ backend.cansize =>
             \E i \in told : written[i] = SizeMessage(width) /\ \A j \in told : j <= i
=============================================================================
