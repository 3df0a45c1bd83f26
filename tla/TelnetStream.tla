---------------------------- MODULE TelnetStream ----------------------------
(****************************************************************************)
(* The telnet byte stream (telnet.c), as operators on the telnet_tag t:     *)
(* what do_telnet_read() makes of each byte received, wherever the          *)
(* connection cuts the stream into segments, and how typed characters and   *)
(* special codes are sent.  Adds to the record of TelnetOptions the state   *)
(* of the automaton, the subnegotiation being read, in_synch and shown,     *)
(* the text handed to the terminal so far.                                  *)
(*                                                                          *)
(* A byte received is named: by its command or qualifier (IAC, WILL, SEND), *)
(* by the option it stands for after one, or for itself.  What is sent is   *)
(* a sequence of units: bytes of text and whole commands.                   *)
(****************************************************************************)
EXTENDS TelnetOptions, SequencesExt, TLC

Verbs == {"DO", "DONT", "WILL", "WONT"}

(* The vendor's request that asks for the number of the screen. *)
StartupRequest == <<"IAC", "F1", "18", "NUL">>

(* The units that are sent: a byte, a command of two bytes, the answer to a
   subnegotiation, and the mark that the next is to go out of band. *)
Byte(c) == [byte |-> c]
Special(code) == [special |-> code]
Is(opt) == [sub |-> opt]
ScreenNumber == Special("screennum")
OutOfBand == Special("oob")

TelnetStart(size) ==
    LET t == TelnetInit(size)
    IN  [opt_states |-> t.opt_states, echoing |-> t.echoing, editing |-> t.editing,
         activated |-> t.activated, size |-> t.size, out |-> t.out, state |-> "TOP_LEVEL",
         in_synch |-> FALSE, sb_opt |-> "", sb_buf |-> <<>>, shown |-> <<>>]

-----------------------------------------------------------------------------
(* The option that a verb and a byte name. *)
OptionOf(verb, byte) ==
    LET ours   == {"naws", "ttype", "tspeed", "7dtype", "oenv", "nenv"}
        double == [bin |-> <<"we_bin", "they_bin">>, sga |-> <<"we_sga", "they_sga">>]
        side   == IF verb \in {"DO", "DONT"} THEN 1 ELSE 2
    IN  IF byte \in DOMAIN double THEN double[byte][side]
        ELSE IF (byte \in ours /\ side = 1) \/ (byte = "echo" /\ side = 2) THEN byte
        ELSE "unknown"

(* process_subneg(): a request for a value is answered; with the environment
   the names the request may give are passed over. *)
process_subneg(t) ==
    IF \/ t.sb_opt \in {"tspeed", "ttype", "7dtype"} /\ t.sb_buf = <<"SEND">>
       \/ t.sb_opt \in {"oenv", "nenv"} /\ t.sb_buf # <<>> /\ Head(t.sb_buf) = "SEND"
    THEN sk_write(t, Is(t.sb_opt)) ELSE t

Go(t, state) == [t EXCEPT !.state = state]
Show(t, c) == [t EXCEPT !.shown = Append(@, c)]

(* TOP_LEVEL and SEENCR.  The hiding that urgent data starts ends at any byte
   equal to DM, for want of a mark in the right place. *)
SlipTopLevel(t, c) ==
    IF c = "NUL" THEN Go(t, "TOP_LEVEL")
    ELSE IF c = "IAC" THEN Go(t, "SEENIAC")
    ELSE Go(IF t.in_synch THEN t ELSE Show(t, c), "TOP_LEVEL")
TopLevel(t, c) ==
    IF c = "NUL" /\ t.state = "SEENCR" THEN Go(t, "TOP_LEVEL")
    ELSE IF c = "IAC" THEN Go(t, "SEENIAC")
    ELSE Go(IF ~t.in_synch THEN Show(t, c)
            ELSE IF c = "DM" THEN [t EXCEPT !.in_synch = FALSE] ELSE t,
            IF c = "CR" /\ t.opt_states["they_bin"] # "ACTIVE"
            THEN "SEENCR" ELSE "TOP_LEVEL")

SeenIac(t, c) ==
    IF c \in Verbs \union {"SB"} THEN Go(t, c)
    ELSE Go(IF c = "DM" THEN [t EXCEPT !.in_synch = FALSE]
            ELSE IF c = "IAC" THEN Show(t, c) ELSE t, "TOP_LEVEL")

(* SEENWILL, SEENWONT, SEENDO and SEENDONT. *)
SeenVerb(t, c) ==
    Go(proc_rec_opt(t, OptionOf(t.state, c), t.state \in {"DO", "WILL"}), "TOP_LEVEL")

(* SEENSB, SUBNEGOT and SUBNEG_IAC. *)
Collect(t, c) == Go([t EXCEPT !.sb_buf = Append(@, c)], "SUBNEGOT")
SeenSb(t, c) == Go([t EXCEPT !.sb_opt = c, !.sb_buf = <<>>], "SUBNEGOT")
Subnegot(t, c) == IF c = "IAC" THEN Go(t, "SUBNEG_IAC") ELSE Collect(t, c)
SubnegIac(t, c) ==
    IF c = "SE" THEN Go(process_subneg(t), "TOP_LEVEL") ELSE Collect(t, c)

ReadByte(t, c) ==
    CASE t.state \in {"TOP_LEVEL", "SEENCR"} -> TopLevel(t, c)
      [] t.state = "SEENIAC"    -> SeenIac(t, c)
      [] t.state \in Verbs      -> SeenVerb(t, c)
      [] t.state = "SB"         -> SeenSb(t, c)
      [] t.state = "SUBNEGOT"   -> Subnegot(t, c)
      [] t.state = "SUBNEG_IAC" -> SubnegIac(t, c)

do_telnet_read(t, data) == FoldLeft(ReadByte, t, data)

(* The vendor's request is known only at the start of a segment, whatever the
   automaton is in the middle of, and the rest of that segment is dropped. *)
telnet_receive(t, urgent, data) ==
    LET u == IF urgent THEN [t EXCEPT !.in_synch = TRUE] ELSE t
    IN  IF IsPrefix(StartupRequest, data) THEN sk_write(u, ScreenNumber)
        ELSE do_telnet_read(u, data)

-----------------------------------------------------------------------------
(* telnet_send(): one character. *)
SlipTelnetSend(t, c) ==
    LET u == sk_write(t, Byte(c))
    IN  IF c = "CR" /\ t.opt_states["we_bin"] # "ACTIVE" THEN sk_write(u, Byte("NUL"))
        ELSE u
telnet_send(t, c) ==
    LET u == sk_write(t, Byte(c))
    IN  IF c = "IAC" THEN sk_write(u, Byte(c))
        ELSE IF c = "CR" /\ t.opt_states["we_bin"] # "ACTIVE" THEN sk_write(u, Byte("NUL"))
        ELSE u

(* telnet_special(): the Telnet Synch is an IAC in the queue and a DM out of
   band, the rest a command of two bytes, the ping only to a server that
   suppresses go-aheads; the end of a line depends on binary mode, and the
   echo can be asked for and given back. *)
telnet_special(t, code) ==
    LET echo == t.opt_states["echo"]
        ask(on) == [send_opt(t, "echo", on) EXCEPT !.opt_states["echo"] = "REQUESTED"]
        cr   == sk_write(t, Byte("CR"))
    IN  CASE code = "EOL"   -> IF t.opt_states["we_bin"] = "ACTIVE" THEN cr
                               ELSE sk_write(cr, Byte("LF"))
          [] code = "SYNCH" -> sk_write(sk_write(t, Byte("IAC")), OutOfBand)
          [] code = "RECHO" -> IF echo \in {"INACTIVE", "REALLY_INACTIVE"}
                               THEN ask(TRUE) ELSE t
          [] code = "LECHO" -> IF echo = "ACTIVE" THEN ask(FALSE) ELSE t
          [] code = "PING"  -> IF t.opt_states["they_sga"] = "ACTIVE"
                               THEN sk_write(t, Special("NOP")) ELSE t
          [] OTHER          -> sk_write(t, Special(code))

=============================================================================
