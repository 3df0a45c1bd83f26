-------------------------------- MODULE WinSize --------------------------------
(***********************************************************************************)
(* The size of the window and the size of the terminal, in one dimension:          *)
(* OnSize(), OnSizing() and OnExitSizeMove() of windows/TerminalWindow.cpp and     *)
(* reset_window(), request_resize() and make_full_screen() of windows/window.c.    *)
(*                                                                                 *)
(* SetWindowPos() calls OnSize() before it returns if the client area changes,     *)
(* and OnSize() calls reset_window(), which may call SetWindowPos(): todo has what *)
(* is left to do of the handlers that are in progress, the innermost first.        *)
(***********************************************************************************)
EXTENDS Integers, Sequences

CONSTANTS
    Actions,        \* values of cfg.resize_action: "term", "font", "either", "disabled"
    Screen,         \* width of the screen
    Frame,          \* what a window is wider than its client area, unless in full screen
    Border,         \* cfg.window_border
    DefaultFont,    \* font_width of the font the user chose
    MinFont,        \* a column as request_resize() estimates it: 4
    MinCols,        \* the least request_resize() makes of a request: 15
    FirstCols,      \* columns at the start
    Asked,          \* columns the host may ask for
    Dragged,        \* client widths the user or Windows may set
    MayMaximize     \* whether the window is maximized, minimized and in full screen

(* What is assumed of them (module UserSide). *)
WinSizeAssumption ==
    /\ {Screen, Frame, Border, DefaultFont, MinFont, MinCols, FirstCols} \subseteq Nat
    /\ DefaultFont > 0 /\ FirstCols > 0 /\ MinFont > 0 /\ Asked \union Dragged \subseteq Nat
    /\ Asked # {}

VARIABLES
    w,          \* the window, and the variables of window.c and TerminalWindow
    todo,       \* handlers in progress
    chosen      \* history: the columns the user or the host chose last

vars == <<w, todo, chosen>>

MaxOf(a, b) == IF a > b THEN a ELSE b
MinOf(a, b) == IF a < b THEN a ELSE b
Half(n) == IF n >= 0 THEN n \div 2 ELSE -((-n) \div 2)      \* as C divides
Fonts(n) == IF n = 0 THEN DefaultFont ELSE n                \* init_fonts()

Size(kind, width) == [do |-> "OnSize", kind |-> kind, width |-> width]
SizeRest(kind, width) == [do |-> "rest of OnSize", kind |-> kind, width |-> width]
Reset(reinit) == [do |-> "reset_window", reinit |-> reinit]
Kind(v) == IF v.zoomed THEN "maximized" ELSE "restored"

(* SetWindowPos() with a client area of a width, at most that of the screen: the
   window, and what it leads to. *)
Leaving(v, calls) == [w |-> v, calls |-> calls]
SetWindowPos(v, width) ==
    LET n == MinOf(width, Screen)
    IN IF n = v.client THEN Leaving(v, <<>>) ELSE Leaving([v EXCEPT !.client = n], <<Size(Kind(v), n)>>)

-----------------------------------------------------------------------------
(* reset_window(). *)
Needs(v) == v.font * v.cols + 2 * Border
Centred(v) == [v EXCEPT !.offset = Half(v.client - v.font * v.cols)]

ResetZoomed(v) ==
    LET f == [v EXCEPT !.extra = 0]
    IN IF v.action # "term"
       THEN IF v.font # v.client \div v.cols THEN Centred([f EXCEPT !.font = Fonts(v.client \div v.cols)]) ELSE f
       ELSE IF v.font * v.cols # v.client THEN Centred([f EXCEPT !.cols = v.client \div v.font]) ELSE f

Bordered(v) == [v EXCEPT !.offset = Border, !.extra = 2 * Border]

(* The window gets the size of the terminal; if the screen is too small for that,
   the font is made smaller, or else the terminal. *)
SlipFitting(v) == v
Fitting(v) ==
    LET room == Screen - Frame - v.extra
    IN IF v.cols <= room \div v.font THEN v
       ELSE IF v.action = "either" THEN [v EXCEPT !.font = Fonts(room \div v.cols)]
            ELSE [v EXCEPT !.cols = MinOf(@, room \div v.font)]

ResetWindow(v, reinit) ==
    IF Needs(v) = v.client THEN Leaving(Bordered(v), <<>>)
    ELSE LET f == IF reinit > 0 THEN Bordered(v) ELSE Fitting(Bordered(v))
         IN SetWindowPos(f, f.font * f.cols + f.extra)

ResetFont(v) ==
    LET n == (v.client - 2 * Border) \div v.cols
        c == Centred([v EXCEPT !.font = Fonts(n)])
    IN IF v.font = n THEN v ELSE [c EXCEPT !.extra = 2 * c.offset]

reset_window(v, r) ==
    LET reinit == IF v.action = "disabled" THEN 2 ELSE r
        c == IF reinit = 0 THEN Centred(v) ELSE v
    IN IF v.client = 0 THEN Leaving(v, <<>>)
       ELSE IF v.zoomed THEN Leaving(ResetZoomed(c), <<>>)
       ELSE IF reinit > 0 \/ v.action = "term" \/ (v.action = "either" /\ reinit < 0)
            THEN ResetWindow(c, reinit)
            ELSE Leaving(ResetFont(c), <<>>)

-----------------------------------------------------------------------------
(* OnSize(): full screen comes and goes, which calls OnSize() again. *)
clear_full_screen(v) ==
    IF ~v.full THEN Leaving(v, <<>>) ELSE SetWindowPos([v EXCEPT !.full = FALSE], v.client - Frame)
make_full_screen(v) ==
    IF v.full THEN Leaving(v, <<>>)
    ELSE LET c == SetWindowPos([v EXCEPT !.full = TRUE], Screen) IN Leaving(c.w, Append(c.calls, Reset(0)))

OnSize(v, kind, width) ==
    LET c == CASE kind = "restored" -> clear_full_screen(v)
               [] kind = "maximized" /\ v.onmax -> make_full_screen([v EXCEPT !.onmax = FALSE])
               [] OTHER -> Leaving(v, <<>>)
    IN Leaving(c.w, Append(c.calls, SizeRest(kind, width)))

(* And what follows. *)
Columns(v, width) == MaxOf(1, width \div v.font)
Zoom(v, width) ==
    [v EXCEPT !.was_zoomed = TRUE, !.prev = v.cols,
              !.cols = IF v.action = "term" THEN Columns(v, width) ELSE @]
Unzoom(v) == [v EXCEPT !.was_zoomed = FALSE, !.cols = IF v.action = "term" THEN v.prev ELSE @]

RestOfOnSize(v, kind, width) ==
    IF v.action = "disabled" THEN Leaving(v, <<Reset(-1)>>)
    ELSE IF v.resizing
    THEN IF v.action # "font"
         THEN Leaving([v EXCEPT !.need = TRUE, !.cfgcols = Columns(v, width - 2 * Border)], <<>>)
         ELSE Leaving(v, <<Reset(0)>>)
    ELSE CASE kind = "maximized" /\ ~v.was_zoomed -> Leaving(Zoom(v, width), <<Reset(0)>>)
           [] kind = "restored" /\ v.was_zoomed ->
                Leaving(Unzoom(v), <<Reset(IF v.action = "font" THEN 0 ELSE 2)>>)
           [] OTHER -> Leaving(v, <<Reset(-1)>>)

Run(v, h) ==
    CASE h.do = "OnSize" -> OnSize(v, h.kind, h.width)
      [] h.do = "rest of OnSize" -> RestOfOnSize(v, h.kind, h.width)
      [] h.do = "reset_window" -> reset_window(v, h.reinit)

Handler ==
    /\ todo # <<>>
    /\ LET c == Run(w, Head(todo)) IN w' = c.w /\ todo' = c.calls \o Tail(todo)
    /\ UNCHANGED chosen

-----------------------------------------------------------------------------
(* What the user, Windows and the host do.  A window that is dragged is neither
   maximized nor minimized, and one of a fixed size cannot be dragged. *)
Idle == todo = <<>>
Set(v, calls) == w' = v /\ todo' = calls
Normal == ~w.zoomed /\ w.client # 0

EnterSizeMove ==
    /\ Idle /\ Normal /\ ~w.resizing
    /\ Set([w EXCEPT !.resizing = TRUE, !.need = FALSE], <<>>)
    /\ UNCHANGED chosen

(* OnSizing() makes the width a number of columns, or of pixels for each column;
   then the window has it.  (With either, the size of the terminal is kept.)  Where
   the font follows the window, it is left a pixel for each column. *)
LeastWidth == (CHOOSE n \in Asked : \A m \in Asked : m <= n) + 2 * Border
Steps(v, width) ==
    IF v.action # "font" THEN MaxOf(1, (width - v.extra + v.font \div 2) \div v.font) * v.font + v.extra
    ELSE LET ex == v.extra + 2 * (Border - v.offset)
         IN ((width - ex + v.cols \div 2) \div v.cols) * v.cols + ex
Drag ==
    /\ Idle /\ w.resizing /\ w.action # "disabled"
    /\ \E width \in Dragged :
        LET v == IF ~w.need /\ w.action = "either" /\ w.cfgcols # w.cols
                 THEN [w EXCEPT !.cfgcols = w.cols, !.need = TRUE] ELSE w
            n == Steps(w, width)
        IN /\ n # w.client /\ (w.action = "font" => n >= LeastWidth)
           /\ Set([v EXCEPT !.client = n], <<Size("restored", n)>>)
    /\ UNCHANGED chosen

ExitSizeMove ==
    /\ Idle /\ w.resizing
    /\ Set([w EXCEPT !.resizing = FALSE, !.cols = IF w.need THEN w.cfgcols ELSE @], <<>>)
    /\ chosen' = w'.cols

(* The window gets another size out of turn: the screen or the frame changes.  (Where
   the font follows the window, reset_window(-1) does not move the terminal in a window
   that is only a little narrower, and the last column is cut: left out.) *)
Unexpected ==
    /\ Idle /\ Normal /\ ~w.resizing /\ w.action # "font"
    /\ \E n \in Dragged \ {w.client} : Set([w EXCEPT !.client = n], <<Size("restored", n)>>)
    /\ UNCHANGED chosen

ToZoomed(v) == [v EXCEPT !.zoomed = TRUE, !.normal = w.client, !.client = Screen - Frame]
Maximize ==
    /\ MayMaximize /\ Idle /\ Normal /\ ~w.resizing
    /\ \E full \in BOOLEAN :        \* flip_full_screen() sends WM_FULLSCR_ON_MAX first
        Set([ToZoomed(w) EXCEPT !.onmax = full], <<Size("maximized", Screen - Frame)>>)
    /\ UNCHANGED chosen

FlipFullScreen ==
    /\ Idle /\ w.zoomed /\ ~w.full /\ w.client # 0
    /\ LET c == make_full_screen(w) IN Set(c.w, c.calls)
    /\ UNCHANGED chosen

Restore ==
    /\ Idle /\ w.zoomed /\ w.client # 0
    /\ LET n == IF w.full THEN w.normal + Frame ELSE w.normal
       IN Set([w EXCEPT !.zoomed = FALSE, !.client = n], <<Size("restored", n)>>)
    /\ UNCHANGED chosen

Minimize ==
    /\ MayMaximize /\ Idle /\ w.client # 0 /\ ~w.resizing /\ ~w.full
    /\ Set([w EXCEPT !.client = 0, !.normal = IF w.zoomed THEN @ ELSE w.client],
           <<Size("minimized", 0)>>)
    /\ UNCHANGED chosen
Unminimize ==
    /\ Idle /\ w.client = 0
    /\ LET n == IF w.zoomed THEN Screen - Frame ELSE w.normal
       IN Set([w EXCEPT !.client = n], <<Size(Kind(w), n)>>)
    /\ UNCHANGED chosen

(* request_resize(): the host asks for a number of columns, at any time; for more
   than the screen holds only while the user drags nothing.  (A window as wide as the
   screen does not change size when it is asked to be wider, OnSize() is not called
   and nothing fits the terminal to it: dragging to such a width is left out.) *)
ScreenHolds(v) == (Screen - Frame - 2 * Border) \div v.font
request_resize(v, n) ==
    IF (v.zoomed /\ v.action = "term") \/ v.action = "disabled" \/ n = v.cols
       \/ n > (Screen - Frame - v.extra) \div MinFont
    THEN Leaving(v, <<>>)
    ELSE LET r == [v EXCEPT !.cols = MaxOf(n, MinCols)]
         IN IF v.action # "font" /\ ~v.zoomed THEN SetWindowPos(r, r.extra + r.font * r.cols)
            ELSE Leaving(r, <<Reset(0)>>)
HostResizes ==
    /\ Idle /\ w.client # 0
    /\ \E n \in Asked :
        /\ w.resizing => n <= ScreenHolds(w)
        /\ LET c == request_resize(w, n)
           IN c.w # w /\ Set(c.w, c.calls) /\ chosen' = c.w.cols

Init ==
    /\ \E action \in Actions :
       w = [action |-> action, client |-> DefaultFont * FirstCols + 2 * Border,
            zoomed |-> FALSE, full |-> FALSE, normal |-> 0, cols |-> FirstCols, font |-> DefaultFont, offset |-> Border,
            extra |-> 2 * Border, resizing |-> FALSE, need |-> FALSE, cfgcols |-> FirstCols,
            was_zoomed |-> FALSE, prev |-> 0, onmax |-> FALSE]
    /\ todo = <<>> /\ chosen = FirstCols

User ==
    \/ EnterSizeMove \/ Drag \/ ExitSizeMove \/ Unexpected \/ Maximize \/ FlipFullScreen
    \/ Restore \/ Minimize \/ Unminimize
Next == Handler \/ User \/ HostResizes

Spec == Init /\ [][Next]_vars

-----------------------------------------------------------------------------
(* Properties. *)

(* When no handler is in progress and the user drags nothing, all columns of the
   terminal are in the window (reset_window()). *)
Settled == Idle /\ ~w.resizing /\ w.client # 0
AllColumnsShown == Settled => w.offset >= 0 /\ w.offset + w.font * w.cols <= w.client

(* The terminal has the columns the user or the host gave it, whatever sizes the
   window has had since: when it is no longer maximized, it has them again, or as
   many of them as the screen has room for. *)
ColumnsKept ==
    Settled /\ ~w.zoomed =>
        w.cols = IF w.action = "font" THEN chosen ELSE MinOf(chosen, ScreenHolds(w))

=============================================================================
