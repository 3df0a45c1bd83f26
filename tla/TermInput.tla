------------------------------- MODULE TermInput -------------------------------
(****************************************************************************)
(* The way of the host's output into the terminal (terminal.c): term_data() *)
(* buffers it in inbuf, term_out() takes it out byte by byte, through the   *)
(* captures for the printer and the port, the UTF-8 decoder and the states  *)
(* of the escape sequence parser.  A byte is named for what the code tells  *)
(* apart.  What the sequences do to the screen is in TermScreen and         *)
(* TermCursor; here are those that switch the captures or answer the host.  *)
(****************************************************************************)
EXTENDS Capture, FiniteSets

CONSTANTS
    Wires,      \* what the host may send
    UTF8,       \* in_utf()
    PrintMode,  \* cfg.printmode = 0: a reset ends a print job
    Mouse,      \* the user selects with the mouse
    Saved       \* print_saved when it has not been set

Digits == {"2", "4", "5", "1"}
Byte == {"a", "LF", "ENQ", "BEL", "ESC", "[", "]", "\\", ";", "?", "/", "c",
         "h", "i", "l", "lead", "follow", "CSI"} \union Digits

(* What is assumed of them (module HostSide).  No code sets print_saved before
   the first job that is kept from the screen; a value that holds back more than
   the end of CSI 4 i would have a job that is shown cut at its first ESC or CSI. *)
TermInputAssumption ==
    /\ Wires \subseteq Seq(Byte)
    /\ UTF8 \in BOOLEAN /\ PrintMode \in BOOLEAN /\ Mouse \in BOOLEAN
    /\ Saved \subseteq 0 .. 2

State == {"TOPLEVEL", "SEEN_ESC", "SEEN_CSI", "SEEN_OSC", "OSC_STRING", "OSC_MAYBE_ST"}
DoControls == {"TOPLEVEL", "SEEN_ESC", "SEEN_CSI", "SEEN_OSC"}

VARIABLES
    wire,       \* what is still to come
    inbuf, busy, unget, utf_state,
    state, arg, query,
    selstate, printer, port,
    answers     \* how often the host has been answered

input == <<wire, inbuf, busy>>
parser == <<state, arg, query>>
vars == <<input, unget, utf_state, parser, selstate, printer, port, answers>>

None == "none"

-----------------------------------------------------------------------------
(* Steps of term_out(), each on the byte c it has just taken. *)

C == IF unget # None THEN unget ELSE Head(inbuf)
Fresh == unget = None
Next1 == inbuf' = IF Fresh THEN Tail(inbuf) ELSE inbuf

Sequence(newstate, newarg, newquery) ==
    state' = newstate /\ arg' = newarg /\ query' = newquery

(* The bytes of a job that is kept from the screen go no further, those for the
   port never do: only_coming is set once and for all. *)
ForPrinter == printer.on /\ printer.only
ToPrinter ==
    /\ ForPrinter
    /\ printer' = TakeOnly(printer, C, Fresh, PrintEnd)
    /\ UNCHANGED <<port, utf_state, parser, answers>>
    /\ unget' = None

Copied == IF printer.on THEN Take(printer, C, Fresh) ELSE printer
ToPort ==
    /\ ~ForPrinter /\ port.on
    /\ printer' = Copied
    /\ port' = TakeOnly(port, C, Fresh, PortEnd)
    /\ UNCHANGED <<utf_state, parser, answers>>
    /\ unget' = None

OnScreen == ~ForPrinter /\ ~port.on

(* UTF-8, for characters of two bytes: a byte that cannot follow is looked at
   again after the error.  The 8-bit CSI is also a byte that follows. *)
Follow == {"follow", "CSI"}
Decoding == UTF8 /\ state = "TOPLEVEL"
Lead ==
    /\ Decoding /\ utf_state = 0 /\ C = "lead"
    /\ utf_state' = 1 /\ unget' = None
Malformed ==
    /\ Decoding /\ utf_state = 1 /\ C \notin Follow
    /\ utf_state' = 0 /\ unget' = C
Decode ==
    /\ OnScreen
    /\ Lead \/ Malformed
    /\ printer' = Copied
    /\ UNCHANGED <<port, parser, answers>>

Decoded == OnScreen /\ ~(Decoding /\ IF utf_state = 0 THEN C = "lead" ELSE C \notin Follow)

(* The C0 controls, which are obeyed in the middle of a sequence too. *)
IsControl == state \in DoControls /\ C \in {"LF", "ENQ", "BEL", "ESC"}
Control ==
    /\ IsControl
    /\ IF C = "ESC" THEN Sequence("SEEN_ESC", arg, "") ELSE UNCHANGED parser
    /\ answers' = IF C = "ENQ" THEN answers + 1 ELSE answers
    /\ printer' = Copied /\ UNCHANGED port

(* The C1 control CSI is ESC [, in the middle of a sequence too; where UTF-8 is
   decoded it is a part of a character. *)
IsC1 == state \in DoControls /\ C = "CSI" /\ ~Decoding
C1 ==
    /\ IsC1
    /\ Sequence("SEEN_CSI", 0, "")
    /\ printer' = Copied
    /\ UNCHANGED <<port, answers>>

SeenEsc ==
    /\ state = "SEEN_ESC"
    /\ CASE C = "/" -> Sequence("SEEN_ESC", arg, IF query = "" THEN C ELSE "-1")
         [] C = "[" /\ query = "" -> Sequence("SEEN_CSI", 0, "")
         [] C = "]" /\ query = "" -> Sequence("SEEN_OSC", 0, query)
         [] OTHER -> Sequence("TOPLEVEL", arg, query)
    /\ printer' = IF C = "c" /\ query = "" /\ PrintMode THEN Finish(Copied, "reset", PrintEnd) ELSE Copied
    /\ UNCHANGED <<port, answers>>

Digit(b) == CASE b = "1" -> 1 [] b = "2" -> 2 [] b = "4" -> 4 [] OTHER -> 5

(* The end of a control sequence: ESC [ 5 i and ESC [ ? 5 i start a print job,
   ESC [ 4 i ends the one that is also shown, ESC [ / 5 1 h starts a capture
   for the port, and its end in Scan does what ESC [ / 5 1 l would. *)
CSIFinal ==
    /\ printer' =
        IF C = "i" /\ query \in {"", "?"} /\ arg = 5 THEN Setup(Copied, query = "")
        ELSE IF C = "i" /\ query \in {"", "?"} /\ arg = 4 THEN Finish(Copied, "sequence", PrintEnd)
        ELSE Copied
    /\ port' =
        IF C = "h" /\ query = "/" /\ arg = 51 THEN Setup(port, TRUE)
        ELSE IF C = "l" /\ query = "/" /\ arg = 51 THEN Finish(port, "sequence", PortEnd)
        ELSE port
    /\ answers' = IF C = "c" /\ query = "" THEN answers + 1 ELSE answers
    /\ Sequence("TOPLEVEL", arg, query)

CSIParameters ==
    /\ Sequence("SEEN_CSI",
                IF C \in Digits THEN 10 * arg + Digit(C) ELSE IF C = ";" THEN 0 ELSE arg,
                IF C \notin {"?", "/"} THEN query ELSE IF query = "" THEN C ELSE "-1")
    /\ printer' = Copied
    /\ UNCHANGED <<port, answers>>

SeenCSI ==
    /\ state = "SEEN_CSI"
    /\ IF C \in Digits \union {";", "?", "/"} THEN CSIParameters ELSE CSIFinal

OSC ==
    /\ \/ /\ state = "SEEN_OSC"
          /\ IF C \in Digits THEN Sequence("SEEN_OSC", 10 * arg + Digit(C), query)
                             ELSE Sequence("OSC_STRING", arg, query)
       \/ /\ state = "OSC_STRING"
          /\ CASE C = "ESC" -> Sequence("OSC_MAYBE_ST", arg, query)
               [] C \in {"LF", "BEL"} -> Sequence("TOPLEVEL", arg, query)
               [] OTHER -> UNCHANGED parser
       \/ /\ state = "OSC_MAYBE_ST"
          /\ IF C = "\\" THEN Sequence("TOPLEVEL", arg, query) ELSE UNCHANGED parser
    /\ printer' = Copied
    /\ UNCHANGED <<port, answers>>

Graphic ==
    /\ state = "TOPLEVEL"
    /\ printer' = Copied
    /\ UNCHANGED <<port, parser, answers>>

Parse ==
    /\ Decoded
    /\ utf_state' = IF Decoding THEN 0 ELSE utf_state
    /\ unget' = None
    /\ Control \/ C1 \/ (~IsControl /\ ~IsC1 /\ (Graphic \/ SeenEsc \/ SeenCSI \/ OSC))

More == inbuf # <<>> \/ unget # None

TakeByte ==
    /\ busy /\ More
    /\ Next1
    /\ ToPrinter \/ ToPort \/ Decode \/ Parse
    /\ UNCHANGED <<wire, busy, selstate>>

(* The end of term_out(), and of term_data(). *)
TermOutEnds ==
    /\ busy /\ ~More
    /\ printer' = Flush(printer)
    /\ port' = Flush(port)
    /\ busy' = FALSE
    /\ UNCHANGED <<wire, inbuf, unget, utf_state, parser, selstate, answers>>

-----------------------------------------------------------------------------
(* Calls from the message loop. *)

(* term_data(): while the user selects, nothing is taken out. *)
term_data(n) ==
    /\ ~busy
    /\ inbuf' = inbuf \o SubSeq(wire, 1, n)
    /\ wire' = SubSeq(wire, n + 1, Len(wire))
    /\ busy' = (selstate # "DRAGGING")
    /\ UNCHANGED <<unget, utf_state, parser, selstate, printer, port, answers>>
Deliver == \E n \in 1 .. Len(wire) : term_data(n)

(* term_mouse(): a click starts a selection, the release ends it. *)
MouseDown ==
    /\ Mouse /\ ~busy /\ selstate' = "DRAGGING"
    /\ UNCHANGED <<input, unget, utf_state, parser, printer, port, answers>>
MouseUp ==
    /\ Mouse /\ ~busy
    /\ selstate' = IF selstate = "DRAGGING" THEN "SELECTED" ELSE "NO_SELECTION"
    /\ UNCHANGED <<input, unget, utf_state, parser, printer, port, answers>>

(* term_pwron(): the user resets the terminal; the parser keeps its state. *)
Reset ==
    /\ ~busy
    /\ printer' = IF PrintMode THEN Finish(printer, "reset", PrintEnd) ELSE printer
    /\ utf_state' = 0 /\ selstate' = "NO_SELECTION"
    /\ UNCHANGED <<input, unget, parser, port, answers>>

Init ==
    /\ wire \in Wires /\ inbuf = <<>> /\ busy = FALSE
    /\ unget = None /\ utf_state = 0
    /\ state = "TOPLEVEL" /\ arg = 0 /\ query = ""
    /\ selstate = "NO_SELECTION" /\ answers = 0
    /\ printer \in {Idle(n) : n \in Saved} /\ port = Idle(0)

TermOut == TakeByte \/ TermOutEnds
Crashed == printer.end = "crash"
Next == ~Crashed /\ (TermOut \/ Deliver \/ MouseDown \/ MouseUp \/ Reset)

Spec == Init /\ [][Next]_vars

-----------------------------------------------------------------------------
(* Properties. *)

(* Types; and term_out() leaves nothing behind but a selection. *)
TypeOK ==
    /\ inbuf \in Seq(Byte) /\ busy \in BOOLEAN /\ unget \in Byte \union {None}
    /\ utf_state \in {0, 1} /\ state \in State /\ arg \in Nat
    /\ selstate \in {"NO_SELECTION", "DRAGGING", "SELECTED"}
    /\ unget # None => busy

(* A print job is what the host sent between the sequences that start and end
   it, each byte once and in order: however the bytes are split into segments,
   whatever comes between, and while the port is capturing too. *)
JobsKept == Faithful(printer, PrintEnd) /\ Faithful(port, PortEnd)

=============================================================================
