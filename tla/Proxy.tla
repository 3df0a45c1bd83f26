-------------------------------- MODULE Proxy --------------------------------
(***************************************************************************)
(* The proxy layer (proxy.c) between the telnet backend and its socket, as *)
(* operators on a connection c: the sub-socket (WinSocket), the telnet_tag *)
(* (TelnetStream), and the proxy's own state: the phase of the negotiation *)
(* and what has been received and written while it lasts.  Without a proxy *)
(* the state is ACTIVE from the start and calls pass straight through.     *)
(*                                                                         *)
(* Bytes received are named as in TelnetStream, digits in the replies of   *)
(* SOCKS; a request to the proxy is one unit.  The first line of an HTTP   *)
(* reply is the protocol's name, the status and the end of the line.       *)
(***************************************************************************)
EXTENDS WinSocket, TelnetStream

CONSTANT Piece    \* bound: the piece of buffered data handed on at a time

ASSUME PieceAssumption == Piece \in Nat \ {0}

Request(name) == [request |-> name]

(* c.up says that the backend has its socket; once it does not, nothing that
   a handler still does has any effect. *)
plug_closing(c) == [c EXCEPT !.up = FALSE]

(* A new connection; auth: whether a user name or password is configured for
   the proxy. *)
NewConnection(addrs, kind, auth, size) ==
    [sock |-> sk_new(addrs), telnet |-> TelnetStart(size), up |-> TRUE,
     proxy |-> [kind |-> kind, auth |-> auth, input |-> <<>>, output |-> <<>>,
                oob |-> FALSE,
                state |-> IF kind = "none" THEN "ACTIVE" ELSE "NEW"]]

-----------------------------------------------------------------------------
(* The proxy's socket, as the backend uses it. *)

Sub(c, unit) == [c EXCEPT !.sock = sk_tcp_write(@, unit)]

SlipProxyWrite(c, unit) == Sub(c, unit)
sk_proxy_write(c, unit) ==
    IF c.proxy.state = "ACTIVE" THEN Sub(c, unit)
    ELSE [c EXCEPT !.proxy.output = Append(@, unit)]

sk_proxy_write_oob(c) ==
    IF c.proxy.state = "ACTIVE" THEN [c EXCEPT !.sock = sk_tcp_write_oob(@, TRUE)]
    ELSE [c EXCEPT !.proxy.output = <<>>, !.proxy.oob = TRUE]

(* What a handler of the backend has written goes to its socket. *)
PassedOn(c, unit) ==
    IF unit = OutOfBand THEN sk_proxy_write_oob(c) ELSE sk_proxy_write(c, unit)
Written(c) ==
    LET out == c.telnet.out
        after[k \in 0 .. Len(out)] ==
            IF k = 0 THEN [c EXCEPT !.telnet.out = <<>>]
            ELSE PassedOn(after[k - 1], out[k])
    IN  after[Len(out)]

plug_receive(c, urgent, data) ==
    Written([c EXCEPT !.telnet = telnet_receive(@, urgent, data)])

(* sk_proxy_set_frozen() thawing the socket: what was received behind the
   proxy's reply is handed on in pieces. *)
Pieces(data) ==
    [i \in 1 .. (Len(data) + Piece - 1) \div Piece |->
        SubSeq(data, (i - 1) * Piece + 1,
               IF i * Piece <= Len(data) THEN i * Piece ELSE Len(data))]
Thawed(c) ==
    FoldLeft(LAMBDA d, piece : plug_receive(d, FALSE, piece),
             [c EXCEPT !.proxy.input = <<>>], Pieces(c.proxy.input))

(* proxy_activate(): what the backend wrote meanwhile, then what it is yet to
   read.  Receiving is suspended meanwhile by freezing the sub-socket. *)
proxy_activate(c) ==
    LET active  == [c EXCEPT !.proxy.state = "ACTIVE", !.proxy.oob = FALSE,
                             !.proxy.output = <<>>]
        pending == IF c.proxy.oob THEN sk_proxy_write_oob(active) ELSE active
    IN  Thawed(FoldLeft(Sub, pending, c.proxy.output))

Consume(c, n) == [c EXCEPT !.proxy.input = SubSeq(@, n + 1, Len(@))]
State(c, state) == [c EXCEPT !.proxy.state = state]

-----------------------------------------------------------------------------
(* HTTP CONNECT. *)

(* get_line_end(): the length of the first header, continuation lines
   included, 0 if its end cannot be told yet.  The second byte of a line, not
   the first, says whether it continues the one before. *)
get_line_end(data) ==
    LET len == Len(data)
        end[off \in 0 .. len + 2] ==
            IF off >= len THEN 0
            ELSE IF data[off + 1] # "LF" THEN end[off + 1]
            ELSE LET next == off + 1
                 IN  IF \/ next <= 2
                        \/ next + 1 < len /\ data[next + 2] \notin {" ", "TAB"}
                     THEN next ELSE end[next + 2]
    IN  end[0]

(* State 2: headers, up to an empty one. *)
http_headers(c) ==
    LET data == c.proxy.input
        line(off) == get_line_end(SubSeq(data, off + 1, Len(data)))
        past[off \in 0 .. Len(data)] ==
            IF line(off) > 2 THEN past[off + line(off)] ELSE off
        rest == Consume(c, past[0])
    IN  IF line(past[0]) = 2 THEN proxy_activate(Consume(rest, 2)) ELSE rest

(* State 1: the status line. *)
http_status(c) ==
    LET data == c.proxy.input
        eol  == get_line_end(data)
    IN  IF eol = 0 THEN c
        ELSE IF data[1] # "HTTP" \/ data[2] # "2xx" THEN plug_closing(c)
        ELSE http_headers(State(Consume(c, eol), "2"))

HttpRequest(c) ==
    LET head == Sub(c, Request("CONNECT"))
        auth == IF c.proxy.auth THEN Sub(head, Request("Authorization")) ELSE head
    IN  State(Sub(auth, Request("end")), "1")

-----------------------------------------------------------------------------
(* SOCKS 4: a reply of eight bytes. *)

Socks4Request(c) == State(Sub(c, Request("connect")), "1")

socks4_reply(c) ==
    LET data == c.proxy.input
    IN  IF Len(data) < 8 THEN c
        ELSE IF data[1] # "0" \/ data[2] # "90" THEN plug_closing(c)
        ELSE proxy_activate(Consume(c, 8))

-----------------------------------------------------------------------------
(* SOCKS 5. *)

(* The methods offered: none, and a password if there is one. *)
Socks5Methods(c) == State(Sub(c, Request("methods")), "1")

(* State 2 is left at once: the request is sent and its reply awaited. *)
socks5_request(c) == State(Sub(c, Request("connect")), "3")

(* State 1: the method the server chose: none, GSSAPI (1), a password (2),
   CHAP (3).  GSSAPI and CHAP are not supported. *)
socks5_method(c) ==
    LET data == c.proxy.input
        rest == Consume(c, 2)
    IN  IF Len(data) < 2 THEN c
        ELSE IF data[1] # "5" THEN plug_closing(c)
        ELSE IF data[2] = "0" THEN socks5_request(rest)
        ELSE IF data[2] = "2" /\ c.proxy.auth
             THEN State(Sub(rest, Request("password")), "7")
        ELSE plug_closing(c)

(* State 7: the reply to the password. *)
socks5_password(c) ==
    LET data == c.proxy.input
    IN  IF Len(data) < 2 THEN c
        ELSE IF data[1] # "1" \/ data[2] # "0" THEN plug_closing(c)
        ELSE socks5_request(Consume(c, 2))

(* State 3: the reply to the request, whose fourth byte gives the form of the
   address in it: 1 and 4 an IP address, 3 a name preceded by its length. *)
AddressLength(data) ==
    CASE data[4] = "1" -> 4
      [] data[4] = "4" -> 16
      [] data[4] = "3" -> CHOOSE n \in 0 .. 255 : ToString(n) = data[5]
socks5_reply(c) ==
    LET data == c.proxy.input
        len  == 6 + AddressLength(data)
    IN  IF Len(data) < 5 THEN c
        ELSE IF data[1] # "5" \/ data[2] # "0" \/ data[4] \notin {"1", "3", "4"}
             THEN plug_closing(c)
        ELSE IF Len(data) < len THEN c
        ELSE proxy_activate(Consume(c, len))

-----------------------------------------------------------------------------
(* The telnet proxy is given a command, and anything it says ends the
   negotiation. *)
TelnetCommand(c) == State(Sub(c, Request("command")), "1")

(* new_connection() starts the negotiation before there is a connection. *)
Started(c) ==
    LET kind == c.proxy.kind
    IN  CASE kind = "none"   -> c
          [] kind = "http"   -> HttpRequest(c)
          [] kind = "socks4" -> Socks4Request(c)
          [] kind = "socks5" -> Socks5Methods(c)
          [] kind = "telnet" -> TelnetCommand(c)

(* proxy->negotiate() with PROXY_CHANGE_RECEIVE. *)
negotiate(c) ==
    LET kind  == c.proxy.kind
        state == c.proxy.state
    IN  CASE kind = "http"   /\ state = "1" -> http_status(c)
          [] kind = "http"   /\ state = "2" -> http_headers(c)
          [] kind = "socks4"                -> socks4_reply(c)
          [] kind = "socks5" /\ state = "1" -> socks5_method(c)
          [] kind = "socks5" /\ state = "7" -> socks5_password(c)
          [] kind = "socks5" /\ state = "3" -> socks5_reply(c)
          [] kind = "telnet"                -> proxy_activate(c)

(* plug_proxy_receive(): the urgency of what the negotiation consumes, and of
   what comes with it, is lost. *)
plug_proxy_receive(c, urgent, data) ==
    IF c.proxy.state = "ACTIVE" THEN plug_receive(c, urgent, data)
    ELSE negotiate([c EXCEPT !.proxy.input = @ \o data])

=============================================================================
