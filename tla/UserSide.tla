-------------------------------- MODULE UserSide --------------------------------
(*******************************************************************************)
(* Small instances for TLC of the components the user works with, checked in   *)
(* one run: the line discipline that edits and echoes what is typed (Ldisc),   *)
(* the mouse (Mouse), copying and pasting (Clipboard) and the size of the      *)
(* window (WinSize).  A behaviour is one component's, the one that part names, *)
(* and the variables of the others keep the value they have.                   *)
(*******************************************************************************)
EXTENDS Ldisc

CONSTANTS
    MouseConfigs, WHEEL_DELTA, Turns, MaxReports, MaxTurns,     \* of Mouse
    Cols, Narrow, Wide, Wordness(_), SmallPaste, MaxSaid        \* of Clipboard

VARIABLES
    part,
    mouse_cfg, mode, session, held, capture, click, sel, mouse_is_down, wheel, reports,
    rows, curs, said, paste, pasted, sent,          \* of Clipboard
    w, todo, chosen                                 \* of WinSize

lineVars == <<cfg, host, buf, quotenext, call, out, shown, lost, steady>>
mouseVars == <<mouse_cfg, mode, session, held, capture, click, sel, mouse_is_down, wheel, reports>>
clipVars == <<rows, curs, said, paste, pasted, sent>>
sizeVars == <<w, todo, chosen>>
allVars == <<part, lineVars, mouseVars, clipVars, sizeVars>>

-----------------------------------------------------------------------------
Settings(echo, edit, protocol, keyboard, newline, utf) ==
    [localecho |-> echo, localedit |-> edit, protocol |-> protocol,
     keyboard |-> keyboard, newline |-> newline, utf |-> utf]

SomeConfigs ==
    {Settings("AUTO", "AUTO", "TELNET", TRUE, TRUE, TRUE),
     Settings("FORCE_OFF", "AUTO", "TELNET", FALSE, TRUE, TRUE),
     Settings("AUTO", "AUTO", "RAW", FALSE, FALSE, FALSE),
     Settings("FORCE_ON", "FORCE_ON", "RAW", TRUE, FALSE, FALSE)}

Typed(text) == [text |-> text, special |-> FALSE, interactive |-> TRUE]
Keyed(text) == [text |-> text, special |-> TRUE, interactive |-> TRUE]
Pasted(text) == [text |-> text, special |-> FALSE, interactive |-> FALSE]

SomeCalls ==
    {Typed(<<x>>) : x \in Char \ (UTF \union {"^H", "^?", "^\\", "^Z"})} \union
    {Typed(<<"lead", "follow">>), Pasted(<<"a", "^M">>), Keyed(<<"a", "^C">>)} \union
    {Keyed(<<x>>) : x \in {"^H", "^M", "^C", "^Z"}}

MouseSetting(override, xterm, norep) ==
    [mouse_override |-> override, mouse_is_xterm |-> xterm, no_mouse_rep |-> norep]
SomeMouseConfigs ==
    {MouseSetting(TRUE, 0, FALSE), MouseSetting(FALSE, 1, FALSE), MouseSetting(TRUE, 2, TRUE)}
SomeTurns == {-5, 2}
Pointer == INSTANCE Mouse WITH Configs <- MouseConfigs, cfg <- mouse_cfg

(* A letter and a character of two columns, which are not of one word. *)
LetterWordness(chr) == CASE chr = "space" -> 0 [] chr = "a" -> 2 [] OTHER -> 3
Clip == INSTANCE Clipboard

Win == INSTANCE WinSize WITH
        Actions <- {"term", "font"}, Screen <- 17, Frame <- 1, Border <- 1, DefaultFont <- 2,
        MinFont <- 1, MinCols <- 2, FirstCols <- 5, MayMaximize <- TRUE,
        Asked <- {3, 6, 9}, Dragged <- {10, 11, 14}

ASSUME InstancesAssumption ==
    Pointer!MouseAssumption /\ Clip!ClipboardAssumption /\ Win!WinSizeAssumption

-----------------------------------------------------------------------------
Absent == "absent"
NoMouse ==
    /\ mouse_cfg = Absent /\ mode = Absent /\ session = Absent /\ held = Absent
    /\ capture = Absent /\ click = Absent /\ sel = Absent /\ mouse_is_down = Absent
    /\ wheel = Absent /\ reports = Absent
NoClip ==
    /\ rows = Absent /\ curs = Absent /\ said = Absent
    /\ paste = Absent /\ pasted = Absent /\ sent = Absent
NoSize == w = Absent /\ todo = Absent /\ chosen = Absent
NoLine ==
    /\ cfg = Settings("AUTO", "AUTO", "RAW", FALSE, FALSE, FALSE)
    /\ host = [echo |-> FALSE, edit |-> FALSE] /\ Init

UserInit ==
    \/ part = "line" /\ Init /\ NoMouse /\ NoClip /\ NoSize
    \/ part = "mouse" /\ Pointer!Init /\ NoLine /\ NoClip /\ NoSize
    \/ part = "clipboard" /\ Clip!Init /\ NoLine /\ NoMouse /\ NoSize
    \/ part = "size" /\ Win!Init /\ NoLine /\ NoMouse /\ NoClip

LineStep == part = "line" /\ Next /\ UNCHANGED <<part, mouseVars, clipVars, sizeVars>>
MouseStep == part = "mouse" /\ Pointer!Next /\ UNCHANGED <<part, lineVars, clipVars, sizeVars>>
ClipStep == part = "clipboard" /\ Clip!Next /\ UNCHANGED <<part, lineVars, mouseVars, sizeVars>>
SizeStep == part = "size" /\ Win!Next /\ UNCHANGED <<part, lineVars, mouseVars, clipVars>>

UserSpec == UserInit /\ [][LineStep \/ MouseStep \/ ClipStep \/ SizeStep]_allVars

-----------------------------------------------------------------------------
(* What is copied is what was received, wherever the window broke the lines; a
   double click selects a word of it; what is pasted is sent once and in order
   (terminal.c, clipme(), sel_spread_half(), term_paste()). *)
TextTravels ==
    part = "clipboard" => Clip!CopiesWhatWasSaid /\ Clip!ClickSelectsWord /\ Clip!PasteSendsText

(* All columns of the terminal are in the window, and they are as many as the user
   or the host chose, whatever sizes the window has had (window.c). *)
WindowFits == part = "size" => Win!AllColumnsShown /\ Win!ColumnsKept

(* While the user makes a selection the host hears nothing of the mouse; at other
   times it is never told of two presses of a button on end, and of as many
   turns of the wheel as there were (term_mouse(), OnMouseWheel()). *)
MouseShared ==
    /\ [](part = "mouse" => Pointer!PressesInTurn /\ Pointer!WheelIsExact)
    /\ [][part = "mouse" /\ sel.state = "DRAGGING" => reports' = reports]_allVars

(* terminal.c:6157-6159: a selection is finished with the buttons that began it,
   which "avoids the host seeing mouse releases for which they never saw
   corresponding presses". *)
ReleasesHavePresses == part = "mouse" => Pointer!ReleasesHavePresses
=============================================================================
