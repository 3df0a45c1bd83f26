--------------------------------- MODULE Mouse ---------------------------------
(*********************************************************************************)
(* The mouse: the buttons and the wheel as TerminalWindow.cpp takes them         *)
(* (OnButtonDownUp(), click(), OnMouseMove(), OnMouseWheel()), and term_mouse()  *)
(* of terminal.c, which selects text or reports the mouse to a host that has     *)
(* asked for it.  Where the mouse is, and which text a selection covers, is left *)
(* out: of the selection there is the state and whether it is empty.             *)
(*********************************************************************************)
EXTENDS Integers, Sequences

CONSTANTS
    Configs,      \* mouse_override, mouse_is_xterm (0, 1 or 2) and no_mouse_rep
    WHEEL_DELTA,  \* what the wheel is turned by for one line
    Turns,        \* what one message says the wheel was turned by
    MaxReports,   \* bound: the reports of a behaviour
    MaxTurns      \* bound: the messages about the wheel

(* What is assumed of them (module UserSide). *)
MouseAssumption ==
    /\ Configs \subseteq [mouse_override : BOOLEAN, mouse_is_xterm : {0, 1, 2},
                           no_mouse_rep : BOOLEAN]
    /\ WHEEL_DELTA \in Nat \ {0} /\ Turns \subseteq Int
    /\ MaxReports \in Nat /\ MaxTurns \in Nat

VARIABLES
    cfg,
    mode,         \* xterm_mouse of the terminal, send_raw_mouse of the window
    session,      \* whether there is a line discipline to report through
    held,         \* the buttons the user holds down
    capture,      \* whether the window gets what the mouse does outside it
    click,        \* lastbtn, lastact
    sel,          \* selstate, and whether selstart and selend are the same
    mouse_is_down,
    wheel,        \* wheel_accumulator, and all the wheel was turned and scrolled
    reports       \* what the host was sent

vars == <<cfg, mode, session, held, capture, click, sel, mouse_is_down, wheel, reports>>

NoButton == "MBT_NOTHING"

-----------------------------------------------------------------------------
(* term_mouse(). *)

(* click() asks the same of send_raw_mouse. *)
RawMouse(xterm_mouse, shift) == xterm_mouse /\ ~cfg.no_mouse_rep /\ ~(cfg.mouse_override /\ shift)

translate_button(b) ==
    CASE b = "LEFT"   -> "SELECT"
      [] b = "MIDDLE" -> IF cfg.mouse_is_xterm = 1 THEN "PASTE" ELSE "EXTEND"
      [] b = "RIGHT"  -> IF cfg.mouse_is_xterm = 1 THEN "EXTEND" ELSE "PASTE"
      [] OTHER        -> "LEFT"

(* The reports r with the action added, and which button is down then. *)
Reported(r, b, a) ==
    CASE a = "RELEASE"               -> [sent |-> Append(r.sent, "RELEASE"), down |-> NoButton]
      [] a = "CLICK" /\ r.down = b   -> r
      [] a = "CLICK" /\ r.down # b   -> [sent |-> Append(r.sent, b), down |-> b]
      [] OTHER                       -> [r EXCEPT !.sent = Append(@, b)]
Report(b, a) ==
    LET r == Reported([sent |-> reports, down |-> mouse_is_down], b, a)
    IN IF session THEN reports' = r.sent /\ mouse_is_down' = r.down
       ELSE UNCHANGED <<reports, mouse_is_down>>

(* The selection after an action of a button, for the user. *)
Selected(bcooked, a) ==
    CASE bcooked = "SELECT" /\ a = "CLICK"                   -> [state |-> "DRAGGING", empty |-> TRUE]
      [] bcooked = "SELECT" /\ a \in {"2CLK", "3CLK"}        -> [state |-> "DRAGGING", empty |-> FALSE]
      [] bcooked = "EXTEND" /\ a # "RELEASE"                 -> [state |-> "DRAGGING", empty |-> FALSE]
      [] bcooked \in {"SELECT", "EXTEND"} /\ a = "RELEASE" ->
            [sel EXCEPT !.state = IF @ = "DRAGGING" THEN "SELECTED" ELSE "NO_SELECTION"]
      [] OTHER                                               -> sel

(* While a selection is being made, the mouse is the user's. *)
SlipForHost(shift) == RawMouse(mode.xterm_mouse, shift)
ForHost(shift) == RawMouse(mode.xterm_mouse, shift) /\ sel.state # "DRAGGING"
term_mouse(b, a, shift) ==
    IF ForHost(shift) THEN Report(b, a) /\ UNCHANGED sel
    ELSE sel' = Selected(translate_button(b), a) /\ UNCHANGED <<reports, mouse_is_down>>

-----------------------------------------------------------------------------
(* The window. *)

NextAct(act) == CASE act = "CLICK" -> "2CLK" [] act = "2CLK" -> "3CLK" [] act = "3CLK" -> "CLICK"

(* click(): soon is whether the last one was less than dbltime ago. *)
Click(b, shift, soon) ==
    LET act == IF click.lastbtn = b /\ soon THEN NextAct(click.lastact) ELSE "CLICK"
    IN IF RawMouse(mode.send_raw_mouse, shift)
       THEN click' = [click EXCEPT !.lastbtn = NoButton] /\ term_mouse(b, "CLICK", shift)
       ELSE click' = [lastbtn |-> b, lastact |-> act] /\ term_mouse(b, act, shift)

BoundedReports == Len(reports) < MaxReports

(* The left and the middle button. *)
Press ==
    /\ BoundedReports
    /\ \E b \in {"LEFT", "MIDDLE"} \ held, shift, soon \in BOOLEAN :
          held' = held \union {b} /\ Click(b, shift, soon)
    /\ capture' = TRUE
    /\ UNCHANGED <<cfg, mode, session, wheel>>

(* The right button: press is 0, so it is told to the terminal as a release. *)
PressRight ==
    /\ BoundedReports /\ "RIGHT" \notin held /\ cfg.mouse_is_xterm # 2
    /\ held' = held \union {"RIGHT"}
    /\ \E shift \in BOOLEAN : term_mouse("RIGHT", "RELEASE", shift)
    /\ capture' = FALSE
    /\ UNCHANGED <<cfg, mode, session, click, wheel>>

(* The context menu, or the system menu of a full screen: no mouse action, and *)
(* the menu takes the capture.                                                 *)
PressForMenu ==
    /\ \E b \in {"LEFT", "RIGHT"} \ held : held' = held \union {b}
    /\ capture' = FALSE
    /\ UNCHANGED <<cfg, mode, session, click, sel, mouse_is_down, wheel, reports>>

Release ==
    /\ BoundedReports
    /\ \E b \in held, shift \in BOOLEAN :
          held' = held \ {b} /\ term_mouse(b, "RELEASE", shift)
    /\ capture' = FALSE
    /\ UNCHANGED <<cfg, mode, session, click, wheel>>

(* A button released outside the window, which does not hear of it, and another *)
(* window that takes the capture.                                               *)
ReleaseOutside ==
    /\ ~capture
    /\ \E b \in held : held' = held \ {b}
    /\ UNCHANGED <<cfg, mode, session, capture, click, sel, mouse_is_down, wheel, reports>>
LoseCapture ==
    /\ capture /\ capture' = FALSE
    /\ UNCHANGED <<cfg, mode, session, held, click, sel, mouse_is_down, wheel, reports>>

(* OnMouseMove(): term_select_copy(). *)
MouseMove ==
    /\ sel.state = "DRAGGING"
    /\ \E empty \in BOOLEAN : sel' = [sel EXCEPT !.empty = empty]
    /\ UNCHANGED <<cfg, mode, session, held, capture, click, mouse_is_down, wheel, reports>>

(* OnMouseWheel(): one line for each WHEEL_DELTA, and the rest is kept. *)
Notches(total) == IF total > 0 THEN total \div WHEEL_DELTA ELSE -((-total) \div WHEEL_DELTA)

Notched(r, b) == Reported(Reported(r, b, "CLICK"), b, "RELEASE")
Wheeled(r, b, n) ==
    LET after[k \in 0 .. n] == IF k = 0 THEN r ELSE Notched(after[k - 1], b) IN after[n]

MouseWheel ==
    /\ BoundedReports /\ wheel.messages < MaxTurns
    /\ \E turn \in Turns, shift \in BOOLEAN :
          LET total == wheel.accumulator + turn
              n == Notches(total)
              size == IF n > 0 THEN n ELSE -n
              b == IF n > 0 THEN "WHEEL_UP" ELSE "WHEEL_DOWN"
              r == Wheeled([sent |-> reports, down |-> mouse_is_down], b, size)
          IN /\ wheel' = [accumulator |-> total - n * WHEEL_DELTA, turned |-> wheel.turned + turn,
                          lines |-> wheel.lines + n, messages |-> wheel.messages + 1]
             /\ IF RawMouse(mode.send_raw_mouse, shift) /\ ForHost(shift) /\ session
                THEN reports' = r.sent /\ mouse_is_down' = r.down
                ELSE UNCHANGED <<reports, mouse_is_down>>
    /\ UNCHANGED <<cfg, mode, session, held, capture, click, sel>>

-----------------------------------------------------------------------------
(* The host asks for the mouse, or no more (ESC [ ? 1000 h); what it sends is *)
(* not looked at during a selection.                                          *)
SetMouse ==
    /\ sel.state # "DRAGGING" /\ session
    /\ mode' = [xterm_mouse |-> ~mode.xterm_mouse,
                send_raw_mouse |-> ~mode.xterm_mouse /\ ~cfg.no_mouse_rep]
    /\ UNCHANGED <<cfg, session, held, capture, click, sel, mouse_is_down, wheel, reports>>

(* Output over a selection takes it away: check_selection(). *)
HostWrites ==
    /\ sel.state = "SELECTED" /\ session
    /\ sel' = [state |-> "NO_SELECTION", empty |-> TRUE]
    /\ UNCHANGED <<cfg, mode, session, held, capture, click, mouse_is_down, wheel, reports>>

(* The session ends, and another begins: neither touches any of this. *)
Session ==
    /\ session' = ~session
    /\ UNCHANGED <<cfg, mode, held, capture, click, sel, mouse_is_down, wheel, reports>>

Init ==
    /\ cfg \in Configs
    /\ mode = [xterm_mouse |-> FALSE, send_raw_mouse |-> FALSE]
    /\ session = TRUE /\ held = {} /\ capture = FALSE
    /\ click = [lastbtn |-> NoButton, lastact |-> "CLICK"]
    /\ sel = [state |-> "NO_SELECTION", empty |-> TRUE]
    /\ mouse_is_down = NoButton
    /\ wheel = [accumulator |-> 0, turned |-> 0, lines |-> 0, messages |-> 0]
    /\ reports = <<>>

Next ==
    \/ Press \/ PressRight \/ PressForMenu \/ Release \/ ReleaseOutside \/ LoseCapture
    \/ MouseMove \/ MouseWheel \/ SetMouse \/ HostWrites \/ Session
Spec == Init /\ [][Next]_vars

-----------------------------------------------------------------------------
(* Properties. *)

(* The host never gets two presses of a button on end: where it missed the    *)
(* release, because of the shift key or of a mode change, it does not get the *)
(* next press either (terminal.c:6197-6201).                                  *)
PressesInTurn ==
    \A i \in 1 .. Len(reports) - 1 :
       reports[i] = reports[i + 1] => reports[i] = "RELEASE"

(* What the wheel was turned is what was scrolled or reported, and less than a   *)
(* line is left over, through any change of direction (TerminalWindow.cpp:2014). *)
WheelIsExact ==
    /\ wheel.turned = wheel.lines * WHEEL_DELTA + wheel.accumulator
    /\ wheel.accumulator \in 1 - WHEEL_DELTA .. WHEEL_DELTA - 1

(* "avoids the host seeing mouse releases for which they never saw corresponding *)
(* presses" (terminal.c:6158): no report of a release without one of a press.    *)
ReleasesHavePresses ==
    \A i \in 1 .. Len(reports) :
       reports[i] = "RELEASE" =>
          \E j \in 1 .. i - 1 : reports[j] # "RELEASE"
=============================================================================
