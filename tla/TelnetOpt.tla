------------------------------ MODULE TelnetOpt ------------------------------
(***************************************************************************)
(* Telnet option negotiation: the client of module TelnetOptions and the   *)
(* window whose size it reports, talking over a TCP connection to a        *)
(* server.  The server is not in the repository: it is any server that     *)
(* keeps to the rules of negotiation (it acknowledges no mode it is        *)
(* already in and has one request at a time outstanding for an option),    *)
(* and agrees to or refuses whatever it likes.                             *)
(***************************************************************************)
EXTENDS TelnetOptions

CONSTANTS
    Options,      \* the options the server knows of
    Sizes,        \* the sizes of the window
    MaxOffers,    \* bound: the requests the server makes of its own accord
    MaxResizes    \* bound: the changes of the window's size

ASSUME TelnetOptAssumption ==
    /\ Minimum \subseteq Options /\ Options \subseteq Minimum \union Others
    /\ MaxOffers \in Nat /\ MaxResizes \in Nat /\ Sizes # {}

VARIABLES
    telnet,      \* the client's telnet_tag
    connected,   \* telnet->s # NULL
    server,      \* the server's state of each option
    window,      \* the size of the window
    known,       \* the size the server was last told, <<>> before that
    toServer,    \* what is in flight either way
    toClient,
    offers, resizes

vars == <<telnet, connected, server, window, known, toServer, toClient, offers, resizes>>

(* "WANTYES" and "WANTNO": the server has asked and has no answer yet. *)
ServerStates == {"NO", "YES", "WANTYES", "WANTNO"}

-----------------------------------------------------------------------------
(* The server. *)

(* What it makes of a command: its new states of the option, and what it
   sends back. *)
ServerReplies(state, o, on) ==
    IF on
    THEN IF state = "NO"
         THEN {<<"YES", <<Command(o, TRUE)>>>>, <<"NO", <<Command(o, FALSE)>>>>}
         ELSE {<<IF state = "WANTNO" THEN "NO" ELSE "YES", <<>>>>}
    ELSE IF state = "YES" THEN {<<"NO", <<Command(o, FALSE)>>>>}
         ELSE {<<"NO", <<>>>>}

-----------------------------------------------------------------------------

Init ==
    /\ \E size \in Sizes : telnet = TelnetInit(size) /\ window = size /\ known = <<>>
    /\ connected = TRUE
    /\ server = [o \in Options |-> "NO"]
    /\ toServer = <<>> /\ toClient = <<>>
    /\ offers = 0 /\ resizes = 0

(* A handler of the client leaves its writes in the socket's buffer. *)
Handled(t) ==
    /\ telnet' = [t EXCEPT !.out = <<>>]
    /\ toServer' = toServer \o t.out

(* telnet_receive() and do_telnet_read(): one command of the server's. *)
ClientReceive ==
    /\ connected /\ toClient # <<>>
    /\ toClient' = Tail(toClient)
    /\ Handled(proc_rec_opt(telnet, Head(toClient).opt, Head(toClient).on))
    /\ UNCHANGED <<connected, server, window, known, offers, resizes>>

(* The window changes its size; after the end of the connection the backend
   still keeps it. *)
Resize ==
    /\ resizes < MaxResizes
    /\ resizes' = resizes + 1
    /\ \E size \in Sizes \ {window} :
          /\ window' = size
          /\ IF connected THEN Handled(telnet_size(telnet, size))
             ELSE telnet' = [telnet EXCEPT !.size = size] /\ UNCHANGED toServer
    /\ UNCHANGED <<connected, server, known, toClient, offers>>

(* telnet_closing(): nothing in flight is of any use any more. *)
Closing ==
    /\ connected
    /\ connected' = FALSE
    /\ toServer' = <<>> /\ toClient' = <<>>
    /\ UNCHANGED <<telnet, server, window, known, offers, resizes>>

(* The server asks for an option, or wants it no more. *)
ServerOffer ==
    /\ connected /\ offers < MaxOffers
    /\ offers' = offers + 1
    /\ \E o \in Options :
          \/ /\ server[o] = "NO"
             /\ server' = [server EXCEPT ![o] = "WANTYES"]
             /\ toClient' = Append(toClient, Command(o, TRUE))
          \/ /\ server[o] = "YES"
             /\ server' = [server EXCEPT ![o] = "WANTNO"]
             /\ toClient' = Append(toClient, Command(o, FALSE))
    /\ UNCHANGED <<telnet, connected, window, known, toServer, resizes>>

ServerAnswer ==
    LET m == Head(toServer)
    IN  /\ ~IsReport(m)
        /\ \E r \in ServerReplies(server[m.opt], m.opt, m.on) :
              /\ server' = [server EXCEPT ![m.opt] = r[1]]
              /\ toClient' = toClient \o r[2]
        /\ UNCHANGED known

ServerLearns ==
    /\ IsReport(Head(toServer))
    /\ known' = <<Head(toServer).size>>
    /\ UNCHANGED <<server, toClient>>

ServerReceive ==
    /\ connected /\ toServer # <<>>
    /\ toServer' = Tail(toServer)
    /\ ServerAnswer \/ ServerLearns
    /\ UNCHANGED <<telnet, connected, window, offers, resizes>>

Next == ClientReceive \/ Resize \/ Closing \/ ServerOffer \/ ServerReceive

(* The client's message loop handles each socket event, and TCP and the
   server's own loop see to what is sent to it. *)
Spec == Init /\ [][Next]_vars /\ WF_vars(ClientReceive) /\ WF_vars(ServerReceive)

-----------------------------------------------------------------------------
InFlight(o) ==
    \/ \E i \in DOMAIN toServer : IsCommand(toServer[i], o)
    \/ \E i \in DOMAIN toClient : IsCommand(toClient[i], o)
ReportInFlight == \E i \in DOMAIN toServer : IsReport(toServer[i])

(* Types.  Nothing a handler has sent is left behind in its output list, and
   no option is ever in a state that the table of telnet_init() lacks. *)
TypeOK ==
    /\ telnet.opt_states \in [Minimum \union Others -> OptStates]
    /\ {telnet.echoing, telnet.editing, telnet.activated, connected} \subseteq BOOLEAN
    /\ {telnet.size, window} \subseteq Sizes /\ telnet.out = <<>>
    /\ known \in {<<>>} \union {<<size>> : size \in Sizes}
    /\ server \in [Options -> ServerStates]
    /\ offers \in 0 .. MaxOffers /\ resizes \in 0 .. MaxResizes

(* Once nothing about an option is in flight the two ends agree on it, and
   neither still waits for the other: requests that cross, or an offer that
   meets a request, are never taken for something else (proc_rec_opt). *)
Agreement ==
    \A o \in Options : (connected /\ ~InFlight(o)) =>
        /\ server[o] \in {"YES", "NO"}
        /\ (server[o] = "YES") <=> (telnet.opt_states[o] = "ACTIVE")
        /\ telnet.opt_states[o] # "REQUESTED"

(* The line discipline echoes and edits locally exactly while the server has
   not taken it over, whichever way the options were changed. *)
LocalUnlessRemote ==
    /\ telnet.echoing <=> telnet.opt_states["echo"] # "ACTIVE"
    /\ telnet.editing <=> telnet.opt_states["they_sga"] # "ACTIVE"

(* The server knows the size of the window once it has asked for it, however
   resizes fall between its asking and the answer (telnet_size). *)
SizeReported ==
    (connected /\ telnet.opt_states["naws"] = "ACTIVE" /\ ~ReportInFlight)
        => known = <<window>>

(* The above together (telnet.c, proc_rec_opt): the two ends agree once nothing
   is in flight, the line discipline does locally what the server does not, and
   the server knows the size it has asked for. *)
TelnetSafe == TypeOK /\ Agreement /\ LocalUnlessRemote /\ SizeReported

(* No command is in flight: once acknowledgements no longer chase each other,
   and what is refused is not asked for again, the negotiation is over. *)
Quiet == \A o \in Options : ~InFlight(o)

(* A request of the client has not been settled, one way or the other. *)
Unsettled(o) == connected /\ telnet.opt_states[o] = "REQUESTED"

=============================================================================
