---------------------------- MODULE TelnetOptions ----------------------------
(***************************************************************************)
(* The client's side of telnet option negotiation (telnet.c), as operators *)
(* on its telnet_tag: what each command received and each change of the    *)
(* window does to the option states and which commands it sends.           *)
(*                                                                         *)
(* An option's name stands for one side of it: we_sga and they_sga are the *)
(* two sides of SGA, which WILL/WONT and DO/DONT tell apart on the wire.   *)
(* A command about option o is then a pair of o and a sign: from the       *)
(* client o->send or o->nsend, from the server o->ack or o->nak.           *)
(*                                                                         *)
(* An operator named Slip... is a plausible mistake in the one it          *)
(* precedes: no action uses it, the mutation runs of PROJECT.json put it   *)
(* in that operator's place.                                               *)
(***************************************************************************)
EXTENDS Naturals, Sequences

(* The options the client asks for when anything is negotiated at all. *)
Minimum == {"echo", "we_sga", "they_sga"}

(* The rest of opts[], and any option that is not in it. *)
Others ==
    {"naws", "tspeed", "ttype", "7dtype", "oenv", "nenv", "we_bin", "they_bin",
     "unknown"}

OptStates == {"REQUESTED", "ACTIVE", "INACTIVE", "REALLY_INACTIVE"}

(* A command about an option, and the report of a window size. *)
Command(o, on) == [opt |-> o, on |-> on]
Naws(size) == [size |-> size]
IsCommand(m, o) == "opt" \in DOMAIN m /\ m.opt = o
IsReport(m) == "size" \in DOMAIN m

-----------------------------------------------------------------------------
(* The operators take and return the telnet_tag, as a record t
   whose field out collects what the handler writes to the socket. *)

sk_write(t, m) == [t EXCEPT !.out = Append(@, m)]

send_opt(t, o, on) == sk_write(t, Command(o, on))

deactivate_option(t, o) ==
    LET u == IF t.opt_states[o] \in {"REQUESTED", "ACTIVE"}
             THEN send_opt(t, o, FALSE) ELSE t
    IN  [u EXCEPT !.opt_states[o] = "REALLY_INACTIVE"]

(* The request for one of the minimum options. *)
Requested(t, o) ==
    IF t.opt_states[o] = "INACTIVE"
    THEN [send_opt(t, o, TRUE) EXCEPT !.opt_states[o] = "REQUESTED"]
    ELSE t

OptionFlags(t, o, enabled) ==
    [t EXCEPT !.echoing = IF o = "echo" THEN ~enabled ELSE @,
              !.editing = IF o = "they_sga" THEN ~enabled ELSE @]

option_side_effects(t, o, enabled) ==
    LET u == OptionFlags(t, o, enabled)
    IN  IF t.activated THEN u
        ELSE [Requested(Requested(Requested(u, "echo"), "we_sga"), "they_sga")
                EXCEPT !.activated = TRUE]

(* telnet_size(): the size is kept, and reported if the server wants it. *)
telnet_size(t, size) ==
    LET u == [t EXCEPT !.size = size]
    IN  IF t.opt_states["naws"] = "ACTIVE" THEN sk_write(u, Naws(size)) ELSE u

activate_option(t, o) ==
    LET u == IF o = "naws" THEN telnet_size(t, t.size)
             ELSE IF o = "oenv" THEN deactivate_option(t, "nenv")
             ELSE IF o = "nenv" THEN deactivate_option(t, "oenv")
             ELSE t
    IN  option_side_effects(u, o, TRUE)

SlipRefusedOption(t, o) ==
    option_side_effects([send_opt(t, o, TRUE) EXCEPT !.opt_states[o] = "REQUESTED"],
                        o, FALSE)
refused_option(t, o) ==
    LET u == IF o = "nenv" /\ t.opt_states["oenv"] = "INACTIVE"
             THEN [send_opt(t, "oenv", TRUE) EXCEPT !.opt_states["oenv"] = "REQUESTED"]
             ELSE t
    IN  option_side_effects(u, o, FALSE)

(* A positive acknowledgement, or a request of the server's ... *)
SlipAcknowledged(t, o) ==
    IF t.opt_states[o] \in {"REQUESTED", "INACTIVE"}
    THEN activate_option([t EXCEPT !.opt_states[o] = "ACTIVE"], o)
    ELSE t
Acknowledged(t, o) ==
    LET active(u) == [u EXCEPT !.opt_states[o] = "ACTIVE"]
        state     == t.opt_states[o]
    IN  IF state = "REQUESTED" THEN activate_option(active(t), o)
        ELSE IF state = "INACTIVE" THEN activate_option(send_opt(active(t), o, TRUE), o)
        ELSE IF state = "REALLY_INACTIVE" THEN send_opt(t, o, FALSE)
        ELSE t

(* ... and a negative one. *)
Refused(t, o) ==
    LET inactive == [t EXCEPT !.opt_states[o] = "INACTIVE"]
        state    == t.opt_states[o]
    IN  IF state = "REQUESTED" THEN refused_option(inactive, o)
        ELSE IF state = "ACTIVE"
             THEN option_side_effects(send_opt(inactive, o, FALSE), o, FALSE)
        ELSE t

(* proc_rec_opt(): terminal speed, the new environment option and whatever is
   not in opts[] are refused out of hand, with no change of state. *)
proc_rec_opt(t, o, on) ==
    IF on /\ o \in {"tspeed", "nenv", "unknown"} THEN send_opt(t, o, FALSE)
    ELSE IF o = "unknown" THEN t
    ELSE IF on THEN Acknowledged(t, o)
    ELSE Refused(t, o)

-----------------------------------------------------------------------------

TelnetInit(size) ==
    [opt_states |-> [o \in Minimum \union Others |-> "INACTIVE"],
     echoing |-> TRUE, editing |-> TRUE, activated |-> FALSE,
     size |-> size, out |-> <<>>]

=============================================================================
