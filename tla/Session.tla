-------------------------------- MODULE Session --------------------------------
(********************************************************************************)
(* The window's message loop and the telnet session it carries: socket          *)
(* events, which the loop defers and hands on, the end of a session and         *)
(* its restart, and the timers of the terminal and of the keepalives.           *)
(*                                                                              *)
(* w is the program: tm the timers, term and pinger their clients, sock         *)
(* the socket telnet->s.  Windows is external: the queue of messages, its       *)
(* single window timer, and what sock says of its side of the connection        *)
(* (unread, fin, dead: data, an end, a peer that is gone without one;           *)
(* armed, blocked, told: the FD_READ, FD_WRITE and FD_CLOSE that it still       *)
(* owes or has sent).  A message box in the middle of select_result(), as       *)
(* do_beep() shows one once, is a loop of its own that dispatches messages too. *)
(********************************************************************************)
EXTENDS Timing

CONSTANTS
    Configs,     \* close_on_exit, and whether there are keepalives, a cursor
                 \* that blinks, and a bell that cannot be played
    Interval,    \* a keepalive's interval, in ticks
    Blink,       \* the cursor's blink and
    Update,      \* the delay of a window update, in ticks
    MaxLate,     \* bound: how late Windows may be with WM_TIMER
    Early,       \* how early it may be
    SameTick,    \* a pinger's address may be reused in the tick it was freed
    MaxQueue,    \* bound: the messages in the queue when the user adds one
    MaxEnds      \* bound: the sessions that end

(* The longest time that a timer is set for. *)
Longest == Max({Interval, Blink, Update})

ASSUME SessionAssumption ==
    /\ Configs \subseteq [close_on_exit : {"FORCE_ON", "AUTO", "FORCE_OFF"},
                           ping : BOOLEAN, blink : BOOLEAN, beeps : BOOLEAN]
    /\ {Interval, Blink, Update} \subseteq Nat \ {0}
    /\ MaxLate \in Nat /\ Early \in Nat
    /\ SameTick \in BOOLEAN
    /\ 2 * (Longest + MaxLate + 2 * Skew + 2) < Wrap

VARIABLES w, cfg, quiet

vars == <<w, cfg, quiet>>

(* The context of the terminal's timers; a pinger's is its address. *)
Term == 0

NoSocket == [open |-> FALSE, connected |-> FALSE, error |-> FALSE, unread |-> FALSE,
             fin |-> FALSE, dead |-> FALSE, armed |-> FALSE, blocked |-> FALSE,
             told |-> FALSE]
NoPinger == [live |-> FALSE, addr |-> Term, pending |-> FALSE, next |-> None]
NewSocket == [NoSocket EXCEPT !.open = TRUE, !.armed = TRUE]

NetEvents == {"connected", "refused", "read", "write", "close", "reset", "stale"}

(* p.box: no message box is open, or one is at the end of a turn of the loop,
   or it is in OnNetEvent() for the event that it names. *)
NoBox == "none"
EndOfLoop == "turn"

-----------------------------------------------------------------------------
(* The clients of the timers.  A time that nothing will read is None here. *)

term_schedule_update(p) ==
    IF p.term.update_pending THEN p
    ELSE [p EXCEPT !.term.update_pending = TRUE,
                   !.term.next_update = Scheduled(p.tm, Update),
                   !.tm = schedule_timer(@, Update, Term)]

term_update(p) == [p EXCEPT !.term.update_pending = FALSE, !.term.next_update = None]

term_schedule_cblink(p) ==
    IF ~(cfg.blink /\ p.term.has_focus)
    THEN [p EXCEPT !.term.cblink_pending = FALSE, !.term.next_cblink = None]
    ELSE IF p.term.cblink_pending THEN p
    ELSE [p EXCEPT !.term.cblink_pending = TRUE,
                   !.term.next_cblink = Scheduled(p.tm, Blink),
                   !.tm = schedule_timer(@, Blink, Term)]

term_set_focus(p, focus) == term_schedule_cblink([p EXCEPT !.term.has_focus = focus])

(* A timer that was set for something since cancelled or put off does
   nothing: the time it was set for tells. *)
term_timer(p, when) ==
    LET blinks  == p.term.cblink_pending /\ Since(when, p.term.next_cblink) >= 0
        blinked == IF blinks
                   THEN term_schedule_cblink([p EXCEPT !.term.cblink_pending = FALSE])
                   ELSE p
        due     == p.term.update_pending /\ Since(when, p.term.next_update) >= 0
    IN  IF blinks \/ due THEN term_update(blinked) ELSE blinked

(* No keepalive is pending when the next is scheduled. *)
pinger_schedule(p) ==
    IF ~cfg.ping THEN [p EXCEPT !.pinger.pending = FALSE, !.pinger.next = None]
    ELSE LET next == Scheduled(p.tm, Interval)
             set  == [p EXCEPT !.tm = schedule_timer(@, Interval, p.pinger.addr)]
         IN  [set EXCEPT !.pinger.next = next, !.pinger.pending = TRUE]

pinger_new(p, addr) ==
    pinger_schedule([p EXCEPT !.pinger = [live |-> TRUE, addr |-> addr,
                                          pending |-> FALSE, next |-> None]])

pinger_free(p) ==
    IF ~p.pinger.live THEN p
    ELSE [p EXCEPT !.tm = expire_timer_context(@, p.pinger.addr), !.pinger = NoPinger]

-----------------------------------------------------------------------------
(* The socket and the telnet backend. *)

(* try_send() finds out that the peer is gone; NetPath has the rest of it. *)
sk_write(p) == [p EXCEPT !.sock.error = @ \/ p.sock.dead]

(* telnet_special(TS_PING); may says that SGA is agreed and keys are enabled. *)
Ping(p, may) == IF may /\ p.sock.open THEN [sk_write(p) EXCEPT !.pings = TRUE] ELSE p

SlipPingerTimer(p, when, may) ==
    IF p.pinger.pending
    THEN pinger_schedule([Ping(p, may) EXCEPT !.pinger.pending = FALSE])
    ELSE p
pinger_timer(p, when, may) ==
    IF p.pinger.pending /\ Since(when, p.pinger.next) >= 0
    THEN pinger_schedule([Ping(p, may) EXCEPT !.pinger.pending = FALSE])
    ELSE p

(* sk_close(): the messages that are queued for it find no socket. *)
sk_close(p) ==
    LET lost(m) == IF m \in NetEvents THEN "stale" ELSE m
    IN  [p EXCEPT !.sock = NoSocket, !.ends = @ + 1, !.pending = lost(@),
                  !.queue = [i \in DOMAIN @ |-> lost(@[i])]]

Output(p) == term_schedule_update(p)

SlipNotifyExit(p) ==
    IF p.closed THEN p
    ELSE IF cfg.close_on_exit # "FORCE_OFF" THEN [p EXCEPT !.quit = TRUE]
    ELSE [p EXCEPT !.closed = TRUE]
notify_remote_exit(p) ==
    IF p.closed THEN p
    ELSE IF cfg.close_on_exit # "FORCE_OFF" THEN [p EXCEPT !.quit = TRUE]
    ELSE [p EXCEPT !.must_close = TRUE, !.closed = TRUE]

connection_fatal(p) ==
    IF cfg.close_on_exit = "FORCE_ON" THEN [Output(p) EXCEPT !.quit = TRUE]
    ELSE [Output(p) EXCEPT !.must_close = TRUE]

telnet_closing(p, error) ==
    LET left == IF p.sock.open THEN notify_remote_exit(sk_close(p)) ELSE p
    IN  IF error THEN connection_fatal(left) ELSE left

SlipTelnetFree(p) == pinger_free(p)
telnet_free(p) == pinger_free(IF p.sock.open THEN sk_close(p) ELSE p)

(* select_result(): m is the socket event.  Reading lets Windows send the
   next FD_READ; if it sounds a bell, one that cannot be played opens a box. *)
FdRead(p, bell) ==
    LET q == [p EXCEPT !.sock.armed = TRUE]
    IN  IF p.sock.unread
        THEN [Output(q) EXCEPT !.sock.unread = FALSE,
                               !.box = IF bell /\ p.beeps THEN EndOfLoop ELSE @]
        ELSE IF p.sock.fin THEN telnet_closing(p, FALSE) ELSE q

select_result(p, m, bell) ==
    CASE m = "connected" -> [p EXCEPT !.sock.connected = TRUE, !.sock.told = FALSE,
                                         !.sock.blocked = ~cfg.ping]
      [] m = "read"      -> FdRead(p, bell)
      [] m = "close"     -> telnet_closing(IF p.sock.unread THEN Output(p) ELSE p, FALSE)
      [] m \in {"refused", "reset"} -> telnet_closing(p, TRUE)
      [] OTHER           -> p

net_pending_errors(p) ==
    IF p.sock.open /\ p.sock.error THEN telnet_closing(p, TRUE) ELSE p

-----------------------------------------------------------------------------
(* The message loop. *)

(* enact_pending_netevent(): not below a select_result() that is running. *)
enact_pending_netevent(p, bell) ==
    IF p.box # NoBox THEN p
    ELSE select_result([p EXCEPT !.pending = "none"], p.pending, bell)

(* OnNetEvent(): a read is left for the end of the turn.  What follows the
   first enact waits for its message box, if there is one. *)
KeepNetEvent(p, m, bell) ==
    LET kept == [p EXCEPT !.pending = m]
    IN  net_pending_errors(IF m # "read" THEN enact_pending_netevent(kept, bell) ELSE kept)

SlipOnNetEvent(p, m, bell) == KeepNetEvent(p, m, bell)
OnNetEvent(p, m, bell) ==
    LET enacted == IF p.pending # "none" THEN enact_pending_netevent(p, bell) ELSE p
    IN  IF enacted.box # p.box THEN [enacted EXCEPT !.box = m]
        ELSE KeepNetEvent(enacted, m, bell)

close_session(p) ==
    LET q == [p EXCEPT !.closed = TRUE, !.back = FALSE]
    IN  IF p.back THEN telnet_free(q) ELSE q

(* What the loop does after each message, or handle, that it dispatches: not
   while a message box's loop does so. *)
IfMustClose(p) ==
    IF p.must_close /\ p.box = NoBox
    THEN [close_session(p) EXCEPT !.queue = Append(@, "restart"), !.must_close = FALSE]
    ELSE p

(* start_backend() and term_pwron(). *)
start_backend(p, addr) ==
    LET q == pinger_new([p EXCEPT !.back = TRUE, !.sock = NewSocket], addr)
    IN  term_update(term_schedule_cblink([q EXCEPT !.must_close = FALSE,
                                                   !.closed = FALSE]))

Restart(p, addr) == IF p.back THEN p ELSE start_backend(p, addr)

(* One turn of the loop of run_timers(): a timer whose context has expired is
   deleted, one that is due is run. *)
RunTimer(p, t, may) ==
    LET q == [p EXCEPT !.tm.timers = @ \ {t}]
    IN  IF t.ctx \notin p.tm.contexts THEN q
        ELSE IF t.ctx = Term THEN term_timer(q, t.when)
        ELSE IF q.pinger.live /\ q.pinger.addr = t.ctx THEN pinger_timer(q, t.when, may)
        ELSE [q EXCEPT !.stray = TRUE]

RunFirst(p, may) == IF AllRun(p.tm) THEN p ELSE RunTimer(p, First(p.tm), may)

(* run_timers(): a timer that is set meanwhile is still to come, so that there
   are no more turns than there were timers. *)
run_timers(p, anow, may) ==
    LET start == [p EXCEPT !.tm.now = anow]
        turns == Cardinality(start.tm.timers)
        ran[n \in 0 .. turns] == IF n = 0 THEN start ELSE RunFirst(ran[n - 1], may)
    IN  ran[turns]

(* OnTimer() sets the window timer again if a timer is left. *)
OnTimer(p, anow, may) ==
    LET ran == run_timers([p EXCEPT !.tm.window = None], anow, may)
    IN  IF ran.tm.timers = {} THEN ran
        ELSE [ran EXCEPT !.tm = timer_change_notify(@, First(@).when)]

-----------------------------------------------------------------------------
(* The program before its first session. *)
Fresh == [tm |-> NewTimers,
          term |-> [update_pending |-> FALSE, next_update |-> None,
                    cblink_pending |-> FALSE, next_cblink |-> None, has_focus |-> FALSE],
          pinger |-> NoPinger, sock |-> NoSocket, back |-> FALSE, must_close |-> FALSE,
          closed |-> FALSE, pending |-> "none", box |-> NoBox, beeps |-> cfg.beeps,
          queue |-> <<>>, awake |-> FALSE, quit |-> FALSE, over |-> FALSE, ends |-> 0,
          pings |-> FALSE, stray |-> FALSE]

Init ==
    /\ cfg \in Configs
    /\ quiet = 0
    /\ w = start_backend(Fresh, 1)

Becomes(p) ==
    /\ w' = [p EXCEPT !.pings = FALSE]
    /\ quiet' = IF p.pings \/ (p.pinger.live /\ ~w.pinger.live) THEN 0 ELSE quiet
    /\ UNCHANGED cfg

Post(p, m) == [p EXCEPT !.queue = Append(@, m)]

(* PeekMessage() and DispatchMessage(). *)
Taken(p) == [p EXCEPT !.queue = Tail(@), !.awake = TRUE]
HasMessage == ~w.over /\ w.queue # <<>>
Got(m) == HasMessage /\ Head(w.queue) = m

NetEvent ==
    \E m \in NetEvents, bell \in BOOLEAN :
        /\ Got(m) /\ (bell => w.beeps)
        /\ Becomes(IfMustClose(OnNetEvent(Taken(w), m, bell)))

(* malloc() reuses the address of the last pinger, but not in the tick in
   which that set a timer, unless SameTick. *)
Address ==
    LET taken(a) == ~SameTick /\ [when |-> Scheduled(w.tm, Interval), ctx |-> a] \in w.tm.timers
    IN  Min({a \in 1 .. Cardinality(w.tm.timers) + 1 : ~taken(a)})

RestartTelnet == Got("restart") /\ Becomes(IfMustClose(Restart(Taken(w), Address)))

OtherMessage ==
    \/ Got("inactive") /\ Becomes(IfMustClose(close_session(Taken(w))))
    \/ Got("exit") /\ Becomes(IfMustClose([Taken(w) EXCEPT !.quit = TRUE]))

(* start_backend() cannot look the host up, and the program ends. *)
StartFails ==
    /\ Got("restart") /\ ~w.back
    /\ Becomes([w EXCEPT !.over = TRUE])

(* WM_TIMER comes when nothing else is in the queue, WM_QUIT included. *)
TimerComes ==
    /\ ~w.over /\ w.queue = <<>> /\ ~w.quit
    /\ w.tm.window # None /\ Since(w.tm.window, 0) <= Early

TimerMessage ==
    /\ TimerComes
    /\ \E anow \in RunTimes, may \in BOOLEAN :
         Becomes(IfMustClose(OnTimer([w EXCEPT !.awake = TRUE], anow, may)))

TurnEnds == ~w.over /\ w.awake /\ w.queue = <<>> /\ ~w.quit /\ w.box = NoBox

EndOfTurn ==
    /\ TurnEnds
    /\ \E focus, bell \in BOOLEAN :
         LET p == term_set_focus([w EXCEPT !.awake = FALSE], focus)
             q == IF p.pending # "none" THEN enact_pending_netevent(p, bell) ELSE p
         IN  Becomes(IF q.box # NoBox THEN q ELSE net_pending_errors(q))

(* The user answers the message box; the bell is the default from then on. *)
BoxOpen == ~w.over /\ w.box # NoBox

AnswerBox ==
    /\ BoxOpen
    /\ LET p == [w EXCEPT !.box = NoBox, !.beeps = FALSE]
       IN  Becomes(IF w.box = EndOfLoop THEN net_pending_errors(p)
                   ELSE IfMustClose(KeepNetEvent(p, w.box, FALSE)))

Quit ==
    /\ w.quit /\ ~w.over /\ w.queue = <<>> /\ w.box = NoBox
    /\ Becomes([w EXCEPT !.over = TRUE])

MayEnd == w.ends < MaxEnds

User ==
    /\ ~w.over /\ ~w.quit /\ Len(w.queue) < MaxQueue
    /\ \E m \in {"exit"} \union (IF ~w.back THEN {"restart"}
                                ELSE IF MayEnd THEN {"inactive"} ELSE {}) :
         Becomes(Post(w, m))

-----------------------------------------------------------------------------
(* Windows and the server.  To keep runs small, only keepalives find out that
   the peer is gone, and an FD_WRITE follows FD_CONNECT where there are none. *)

Sock == w.sock
Connected == ~w.over /\ Sock.connected /\ ~Sock.told /\ ~Sock.dead

Answer ==
    /\ ~w.over /\ Sock.open /\ ~Sock.connected /\ ~Sock.told
    /\ \/ Becomes([Post(w, "connected") EXCEPT !.sock.told = TRUE])
       \/ MayEnd /\ Becomes([Post(w, "refused") EXCEPT !.sock.told = TRUE])

Arrive ==
    /\ Connected /\ ~Sock.unread
    /\ LET p == [w EXCEPT !.sock.unread = TRUE]
       IN  Becomes(IF Sock.armed THEN [Post(p, "read") EXCEPT !.sock.armed = FALSE] ELSE p)

Finish ==
    /\ Connected /\ MayEnd
    /\ \/ Becomes([Post(w, "close") EXCEPT !.sock.fin = TRUE, !.sock.told = TRUE])
       \/ Becomes([Post(w, "reset") EXCEPT !.sock.told = TRUE])
       \/ cfg.ping /\ Becomes([w EXCEPT !.sock.dead = TRUE])

Writable ==
    /\ Connected /\ Sock.blocked
    /\ Becomes([Post(w, "write") EXCEPT !.sock.blocked = FALSE])

(* Bounds: Windows is not later than MaxLate, and the counter does not go half
   its way round before timers run. *)
Tick ==
    /\ ~w.over
    /\ w.tm.window = None \/ -Since(w.tm.window, 0) < MaxLate
    /\ 2 * (Longest + Skew + 2 - Since(w.tm.now, 0)) < Wrap
    /\ w' = [w EXCEPT !.tm = TimersPassed(@), !.pinger.next = Passed(@),
                      !.term.next_update = Passed(@), !.term.next_cblink = Passed(@)]
    /\ quiet' = IF cfg.ping /\ quiet < Interval THEN quiet + 1 ELSE quiet
    /\ UNCHANGED cfg

Over == w.over /\ UNCHANGED vars

Next ==
    \/ NetEvent \/ RestartTelnet \/ OtherMessage \/ StartFails 
    \/ TimerMessage \/ EndOfTurn \/ AnswerBox \/ Quit \/ User
    \/ Answer \/ Arrive \/ Finish \/ Writable \/ Tick \/ Over

(* The loop runs, Windows delivers, time passes and the user answers a
   message box; nobody has to type, and no server has to answer.  The first
   four are WF_vars of the actions, with what enables them written out. *)
Fairness ==
    /\ []<>~HasMessage \/ []<><<NetEvent \/ RestartTelnet \/ OtherMessage>>_vars
    /\ []<>~TimerComes \/ []<><<TimerMessage>>_vars
    /\ []<>~TurnEnds \/ []<><<EndOfTurn>>_vars
    /\ []<>~BoxOpen \/ []<><<AnswerBox>>_vars
    /\ WF_vars(Quit) /\ WF_vars(Tick)

Spec == Init /\ [][Next]_vars /\ Fairness

-----------------------------------------------------------------------------
(* The type of every variable. *)
TypeOK ==
    /\ quiet \in 0 .. Interval
    /\ w.tm.timers \subseteq [when : Ticks, ctx : Nat]
    /\ w.tm.contexts \subseteq Nat
    /\ w.tm.now \in Ticks /\ w.tm.window \in Ticks \union {None}
    /\ {w.term.next_update, w.term.next_cblink} \subseteq Ticks \union {None}
    /\ w.pinger \in [live : BOOLEAN, addr : Nat,
                      pending : BOOLEAN, next : Ticks \union {None}]
    /\ w.pending \in NetEvents \union {"none"}
    /\ w.box \in NetEvents \union {NoBox, EndOfLoop}
    /\ Range(w.queue) \subseteq NetEvents \union {"inactive", "restart", "exit"}
    /\ {w.back, w.must_close, w.closed, w.quit, w.over, w.awake} \subseteq BOOLEAN

(* The window timer is set for as soon as the first timer that is to run. *)
WindowTimerSet ==
    \A t \in Active(w.tm) :
        /\ w.tm.window # None
        /\ Since(w.tm.window, t.when) <= 0 \/ Since(w.tm.window, 0) <= 1

(* What waits for a timer has one: an update of the window, a blink of the
   cursor, and the next keepalive. *)
Waiting(when, ctx) == [when |-> when, ctx |-> ctx] \in Active(w.tm)
WhatWaitsHasTimer ==
    /\ w.term.update_pending => Waiting(w.term.next_update, Term)
    /\ w.term.cblink_pending => Waiting(w.term.next_cblink, Term)
    /\ w.pinger.live /\ w.pinger.pending => Waiting(w.pinger.next, w.pinger.addr)

(* No timer runs the function of a pinger that has been freed, though its
   timers stay in the tree and another may be at its address. *)
NoStrayTimer == ~w.stray

(* The timers of timing.c, the terminal and the pinger keep each other's books:
   what is waited for will be run, in time, and nothing else is. *)
TimersSound == TypeOK /\ WindowTimerSet /\ WhatWaitsHasTimer /\ NoStrayTimer

(* A socket and a pinger belong to the session that is open. *)
OneSession == w.sock.open \/ w.pinger.live => w.back

(* Keepalives are an interval apart, whatever timers an earlier session left
   at the pinger's address. *)
PingsSpaced ==
    [][quiet' < quiet /\ w.pinger.live /\ w'.pinger.live => quiet >= Interval - Skew]_vars

(* A session whose connection has ended is opened again, or the program ends,
   unless a bell's message box may intervene: the loop looks at
   must_close_session after a message, and the one that sets it may be the
   last to come. *)
EndedSessionRestarts ==
    ~cfg.beeps /\ w.back /\ ~w.sock.open ~> w.sock.open \/ w.over

(* What has arrived is read, unless a bell's message box may intervene:
   OnNetEvent() keeps one event, and what it keeps is not lost. *)
ArrivedIsRead == ~cfg.beeps /\ w.sock.unread ~> ~w.sock.unread \/ w.over

=============================================================================
