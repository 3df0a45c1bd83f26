------------------------------- MODULE HostSide -------------------------------
(******************************************************************************)
(* Small instances for TLC of four components between the host and the        *)
(* screen, checked in one run: telnet's options (TelnetOpt), the raw and      *)
(* rlogin back ends (Backends), the terminal's input (TermInput) and printing *)
(* (Printing).  They share no variables: a behaviour is one component's, the  *)
(* one that part names, in that component's own environment, and the          *)
(* variables of the others keep the value they have.                          *)
(******************************************************************************)
EXTENDS TelnetOpt

CONSTANTS
    Protocols, Widths, MaxSent, MaxWritten,             \* of Backends
    Wires, UTF8, PrintMode, Mouse, Saved,               \* of TermInput
    Types, Addresses, Period, Granule, MaxBytes, MaxOpens     \* of Printing

VARIABLES
    part,
    backend, width, inband, urgent, written, shown, sent, asked,
    wire, inbuf, busy, unget, utf_state, state, arg, query, selstate, capture, port, answers,
    printer, printing, thread, jobs, timer, flushers, device, given, closed, opens, crashed

telnetVars == <<telnet, connected, server, window, known, toServer, toClient, offers, resizes>>
backendVars == <<backend, width, inband, urgent, written, shown, sent, asked>>
inputVars == <<wire, inbuf, busy, unget, utf_state, state, arg, query, selstate, capture, port,
               answers>>
printingVars == <<printer, printing, thread, jobs, timer, flushers, device, given, closed,
                  opens, crashed>>
allVars == <<part, telnetVars, backendVars, inputVars, printingVars>>

-----------------------------------------------------------------------------
(* The options with side effects, one without and one that is refused. *)
SomeOptions == {"echo", "we_sga", "they_sga", "naws", "oenv", "nenv"}

(* What the host sends is some of these pieces. *)
CSI(s) == <<"ESC", "[">> \o s
Piece ==
    {<<"a">>, <<"ENQ">>, <<"a", "ESC">>, <<"ESC", "[", "4">>,
     CSI(<<"4", "i">>), CSI(<<"?", "5", "i">>), CSI(<<"?", "4", "i">>),
     CSI(<<"/", "5", "1", "h">>), CSI(<<"2", ";", "c">>),
     <<"ESC", "c">>, <<"ESC", "/", "/">>,
     <<"ESC", "]", "2", ";", "a", "BEL">>, <<"ESC", "]", "2", ";", "ESC", "\\">>}
Start == {CSI(<<"5", "i">>), CSI(<<"?", "5", "i">>) \o CSI(<<"/", "5", "1", "h">>)}
End == {CSI(<<"4", "i">>), CSI(<<"/", "5", "1", "l">>)}
End8 == {<<"CSI", "4", "i">>, <<"CSI">> \o CSI(<<"4", "i">>), CSI(<<"CSI", "4", "i">>),
         <<"a", "CSI", "4", "i">> \o CSI(<<"?", "5", "i">>), <<"CSI", "4", "a">>}
Jobs == {p \o q \o r : p \in Start, q \in Piece, r \in End}
          \union {CSI(p) \o r : p \in {<<"5", "i">>, <<"?", "5", "i">>}, r \in End8}
          \union {<<"lead", "follow">> \o p : p \in Piece}
          \union {p \o <<"lead">> \o r : p \in {<<>>} \union Start, r \in End \union {<<"a">>, <<"CSI">>}}

-----------------------------------------------------------------------------
B == INSTANCE Backends
I == INSTANCE TermInput WITH printer <- capture
P == INSTANCE Printing

ASSUME InstancesAssumption ==
    B!BackendsAssumption /\ I!TermInputAssumption /\ P!PrintingAssumption

-----------------------------------------------------------------------------
Absent == "absent"
NoTelnet == Init /\ window = "s1"
NoBackend ==
    /\ backend = Absent /\ width = Absent /\ inband = Absent /\ urgent = Absent
    /\ written = Absent /\ shown = Absent /\ sent = Absent /\ asked = Absent
NoInput ==
    /\ wire = Absent /\ inbuf = Absent /\ busy = Absent /\ unget = Absent
    /\ utf_state = Absent /\ state = Absent /\ arg = Absent /\ query = Absent
    /\ selstate = Absent /\ capture = Absent /\ port = Absent /\ answers = Absent
NoPrinting ==
    /\ printer = Absent /\ printing = Absent /\ thread = Absent /\ jobs = Absent
    /\ timer = Absent /\ flushers = Absent /\ device = Absent /\ given = Absent
    /\ closed = Absent /\ opens = Absent /\ crashed = Absent

HostInit ==
    \/ part = "telnet" /\ Init /\ NoBackend /\ NoInput /\ NoPrinting
    \/ part = "backend" /\ B!Init /\ NoTelnet /\ NoInput /\ NoPrinting
    \/ part = "input" /\ I!Init /\ NoTelnet /\ NoBackend /\ NoPrinting
    \/ part = "printing" /\ P!Init /\ NoTelnet /\ NoBackend /\ NoInput

TelnetStep == part = "telnet" /\ Next /\ UNCHANGED <<part, backendVars, inputVars, printingVars>>
BackendStep == part = "backend" /\ B!Next /\ UNCHANGED <<part, telnetVars, inputVars, printingVars>>
InputStep == part = "input" /\ I!Next /\ UNCHANGED <<part, telnetVars, backendVars, printingVars>>
PrintingStep == part = "printing" /\ P!Next /\ UNCHANGED <<part, telnetVars, backendVars, inputVars>>

HostNext == TelnetStep \/ BackendStep \/ InputStep \/ PrintingStep

(* The fairness of the components: that of TelnetOpt and that of Printing.  A
   behaviour is of one component, so that one condition serves for an action
   of each. *)
Rest == <<part, backendVars, inputVars>>
ReceiveOrLook ==
    \/ part = "telnet" /\ ClientReceive /\ UNCHANGED <<Rest, printingVars>>
    \/ part = "printing" /\ P!Look /\ UNCHANGED <<Rest, telnetVars>>
AnswerOrWrite ==
    \/ part = "telnet" /\ ServerReceive /\ UNCHANGED <<Rest, printingVars>>
    \/ part = "printing" /\ P!Write /\ UNCHANGED <<Rest, telnetVars>>
ConsumePrinted == part = "printing" /\ P!Consume /\ UNCHANGED <<Rest, telnetVars>>
Fairness == WF_allVars(ReceiveOrLook) /\ WF_allVars(AnswerOrWrite) /\ WF_allVars(ConsumePrinted)

HostSpec == HostInit /\ [][HostNext]_allVars /\ Fairness

-----------------------------------------------------------------------------
(* The negotiation comes to an end, and every request is settled. *)
NegotiationSettles ==
    /\ <>[](part = "telnet" => Quiet)
    /\ \A o \in SomeOptions :
          (part = "telnet" /\ Unsettled(o)) ~> ~(part = "telnet" /\ Unsettled(o))

(* The raw and rlogin back ends pass on what the host sent, and a host that *)
(* asked for the window's size knows it (raw.c, rlogin.c).                  *)
BackendsPlain == part = "backend" => B!TextShown /\ B!HostKnowsSize

(* A print job, and what the port takes, is what the host sent between the *)
(* sequences that start and end it (terminal.c, term_out).                 *)
JobsKept == part = "input" => I!TypeOK /\ I!JobsKept

(* The port is written every byte of the closed jobs once and in order, and a *)
(* Windows printer's documents hold them all (printapi.c, winprint.c).        *)
PrintedSound == part = "printing" => P!PrintedOnceInOrder /\ P!DocumentsHoldAll

(* A closed job gets to the port, unless the window is closed (printapi.c). *)
EverythingPrinted == []<>(part = "printing" => P!AllPrinted)
=============================================================================
