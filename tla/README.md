# winterm in TLA+

winterm is a terminal emulator for Windows descended from PuTTY: `src/src` has the
terminal (`terminal.c`), the back ends, the network and proxy layers and, under
`windows/`, the message loop and what it needs of Win32.  This directory holds TLA+
modules of its components, TLC configurations that check them, and proofs that
TLAPS checks.  `PROJECT.json` maps every definition to its source lines and lists
the runs, mutants, hazards, findings and theorems.

    tlc -workers 2 -config TermScreen.cfg MCTermScreen
    tlapm TermCursorProofs.tla

## The system

Everything runs in the thread of the message loop (`TerminalWindow::Run`) except
the subthreads of `winhandl.c`, the printer threads of `printapi.c` and
`winprint.c`, and devices outside the repository.  The loop waits for window
messages and for the events of handles; sockets report through window messages
(`WSAAsyncSelect`).  A back end passes what it receives to `term_data()`; what is
typed goes through `ldisc_send()`, which asks the back end whether to echo and edit,
to the back end's `send`, and from there through a proxy's socket or directly to
`winnet.c`.  What the terminal shows, `do_paint()` puts into the window, at once for
WM_PAINT and else by a timer.

| component | state | what is hard | modules |
|---|---|---|---|
| lines of the terminal | primary and alternate screen, scrollback, `tempsblines`, `disptop`, selection | counts that must agree over long sequences of legal calls; a selection or view that outlives its lines | TermScreen, TermScreenProofs |
| cells of a row | `termline`: chars, lists of combining characters; the compressed row | offsets relinked by every operation; lengths that depend on values | TermLine, TextLine, LineCodec |
| cursor, margins, modes | `curs`, `wrapnext`, margins, `dec_om`, saved cursor, all twice | two copies, saved at one size and restored at another | TermCursor, TermCursorProofs |
| input and parser | `inbuf`, `unget`, `utf_state`, `termstate`, arguments | pieces cut anywhere and held back by a drag | TermInput, Capture, HostSideProofs |
| printing | capture buffers, print jobs, two kinds of threads | records freed under a thread, one timer for all jobs | Capture, Printing, Bufchain, HostSideProofs |
| bidirectional text | types, levels, a cache of rows | a dozen rules in sequence, a cache that must not be stale | Bidi |
| painting | `disptext`, `dispcursx`, update region | a belief of what the window shows, corrected only where it differs | Display |
| copying and pasting | wrap flags, `paste_buffer` | one line or two, characters of two columns | Clipboard |
| the mouse | button state, capture, `selstate`, wheel | shared between host and user, modes that change in mid-click | Mouse, UserSideProofs |
| window size | client area, font, offsets, columns | handlers that call each other through SetWindowPos | WinSize |
| telnet options | `opt_states`, `echoing`, `editing`, size | requests that cross on the wire | TelnetOptions, TelnetOpt, TelnetOptProofs |
| telnet stream | `state`, `in_synch`, `sb_buf` | segments cut anywhere, urgent data | TelnetStream, NetPathProofs |
| sockets | output queues, `writable`, `pending_error`, addresses | retries over addresses, errors put off | WinSocket, NetPathProofs |
| proxies | state of the negotiation, three queues | the user types before there is a connection | Proxy, NetPath, NetPathProofs |
| raw, rlogin | `firstbyte`, `cansize` | a request outside the stream | Backends, HostSideProofs |
| handle threads | per handle: events, `busy`, `moribund`, `done`, `defunct`, buffer | three threads, freeing at any point | WinHandle, Stream, WinHandleProofs |
| timers, keepalives | tree of timers, live contexts, one window timer | wrap-around, a context freed and made again | Timing |
| session, message loop | `back`, `session_closed`, `must_close_session`, the pending event | re-entrancy, notices between steps | Session, SessionProofs |
| line discipline | line buffer, `quotenext`, flags read at each call | flags that the host changes in mid-line | Ldisc, LineEditor, UserSideProofs |

How they are composed.  `Session` has `Timing`'s operators, the sockets' events and
the telnet session's life in one state machine.  `NetPath` has the stream, the proxy
and the socket, each a module of operators on one record, with the peer and the user
around them.  `TelnetOpt` puts the client's options together with a server.
`TermInput` has `Capture`, twice; `Printing` has `Bufchain`; `TermLine` has
`LineCodec`.

## Conventions

A C function is an operator of the same name on a record that holds the fields it
touches, returning that record; a handler that makes several calls is their
composition in the code's order, and one action.  Each input is an `\E` over a small
set.  Characters, bytes and lines are named for what the code tells apart.  An
operator `Slip...` is a plausible mistake in the operator it precedes; no action uses
it.  For every property of a passing run there is one in `PROJECT.json` that TLC finds
to break it.

Three runs check several components, each in its own environment: `HostSide`,
`TerminalLines` and `UserSide` are sums, not products.  The variable `part`, set by the
initial state, says which component a behaviour belongs to, and the variables of the
others keep the value they have.  The components of such a run share no state and do not
interact; nothing is claimed there about combinations of them.  A property of one of
these runs is the conjunction of a component's own, under `part = ... =>`; those of
TelnetOpt and Ldisc, which their runs extend, are taken as they are, as a component
that does not move keeps them.

The modules `HostSide` and `UserSide` declare the components' variables and constants and
instantiate the components (`I`, `B`, `P` and `Pointer`, `Clip`, `Win`), so that the
theorems about a component are theorems about the run's own specification; the `.cfg`
gives the constants their values.

## The modules

### TermScreen: the lines of the terminal

`term` holds `screen`, `alt_screen`, `scrollback`, `tempsblines`, `disptop`,
`alt_which`, the cursor row and margins of both screens and the selection.  A line is
a label and its `LATTR_WRAPPED`.  `scroll`, `erase_lots`, `swap_screen`, `term_size`,
`power_on`, `term_clrsb`, `check_selection` and the mouse's part in the selection are
there whole; one action stands for each control or user event.  A label is written
again only through the actions, so that a property can follow a text.

Run `TermScreen`, from three settings of `MCTermScreen`: *Storage* (heights 2 and 3,
two lines of scrollback, all regions, counts to 2), *Viewing* (both screens, the view
scrolled back and carried further by output) and *Selection* (the mouse, lines that
wrap).  Three rows are the fewest in which a region can leave out a row at each end,
two lines of scrollback the fewest in which one can be lost while another stays.
`RoundTripKeepsLines` applies `term_size` twice to every reachable state.  The bounds
are on data: TLC explores every sequence of operations.

### TermCursor: cursor, margins and modes

`cur` and `alt` are the cursor states of the screen that shows and of the other.  One
action per control; where the contents of a line decide (tab stops, double width, the
lines a larger window takes back) the outcome is any that some contents give.
Run `TermCursor`: width 2, heights 1 to 3, arguments beyond every edge.  States that
`Explored` leaves out (three rows, VT52 or no autowrap, *with* a use of the second
screen) are checked and not extended: what the mode or the third row decides does not
depend on the other screen, which the heights 1 and 2 exchange freely.

### TermLine, TextLine, LineCodec: a row

`line` is the array of a `termline`: the cells and, behind them, the combining
characters, linked by offsets (`cc_next`, `cc_free`).  `add_cc`, `clear_cc`,
`copy_termchar`, `move_termchar`, `resizeline` and the operations on cells are
actions.  `TextLine` is a row as one thinks of it, a sequence of cells with their
marks; `IsTextLine` checks that `TermLine` implements it.  `LineCodec` is
`compressline()` and `decompressline()`, byte by byte, with the real structure of runs
and literals and smaller limits; every row of up to five cells (`MaxRow`), one of every
kind of cell, comes back as it went.  The limits `LitMax` and `Grow` are small so that
five cells pass them.

### Bidi

`do_bidi()`'s rules in the order of the code, `do_shape()`, mirroring, and
`term_bidi_line()`'s cache.  One character stands for each type, and for each way an
Arabic letter joins.  The run takes all rows of four cells of several alphabets,
and changes rows of two cells to see the cache.  `cfg` is fixed from the start, because
`term_reconfig()` is never called.

### Display

`do_paint()` on a row of three columns (six half cells): what the row should look
like, what `disptext` says, the runs that are drawn, what drawing does to the window,
clipped to the update region for WM_PAINT.  Text, marks, wide characters, double-width
lines, selection and cursor change the row; Windows uncovers parts of the window.
`WindowShowsScreen` says that the window shows the row whenever no update is due.  One
change between two paints (`MaxEdits`) suffices because what is left behind is left in
`disptext`, which goes on.

### TermInput, Capture, Printing, Bufchain

`TermInput` takes the host's bytes from `inbuf`, through the captures, the UTF-8
decoder and the states of the parser that media copy, queries and OSC strings use, one
byte a step; the network may deliver any number of bytes, also while the user drags.
`Capture` is one of the two captures, and its `job` the bytes between the sequences
that start and end it.  A print job ends with ESC [ 4 i or with the 8-bit CSI and 4 i
(`Ends`), the port's with ESC [ / 5 1 l alone.  The code holds back one byte less for the
8-bit CSI by setting `print_saved` to -1; when no end follows, or a later job starts, the
count is less than none and the next flush reads through a null pointer (`Held`, `Crash`).
TermInput stops there, and `JobsKept` asks that the job had been written in full.  As a C1
control the 8-bit CSI is ESC [ wherever UTF-8 is not being decoded, and a byte that follows
where it is; the character sets in which the code translates it to something else are left
out.  The byte that breaks a malformed UTF-8 character is looked at again, so that a capture
that is shown takes it `twice`; `JobsKept` excuses the jobs to which that happened.
`Saved` has the values that `print_saved` may start with, which nothing initialises
(`terminal.h:149`, read at `terminal.c:2636`): 0, and 2 for a count that holds back more.
A larger one than 2 would cut off a job that is shown at its first ESC, and one below 0
is the crash above.

`Printing` is what becomes of the jobs: the port's thread, which takes from a queue while
the window's thread adds to it, Windows printers, whose jobs each start a thread that
flushes the document, and a file.  A shared or a serial printer takes the calls and does
nothing with them (`printapi.c:138-141`, `160-163`, `188-191`), which the two kinds `SHR`
and `COM` are there for.  `wholedoc` is passed as 0 wherever a printer is made
(`terminal.c:1581`, `TerminalWindow.cpp:3001`), so that the branches for one document per
session (`printapi.c:70`, `81`) are never taken and have no action.  Records are addresses
that are allocated again.  A use of a freed record ends the behaviour (`crashed`), and the
properties excuse that: see the observations below.

### Clipboard, Mouse, WinSize

`Clipboard`: rows are filled through `term_out()`'s rules of wrapping, and `said`
remembers the lines.  Copying any whole stretch must give what was said, a double
click the word, and a paste, in several pieces, the text once.  `Mouse`: the buttons
with Windows' capture, `click()`, `term_mouse()` and the wheel, with the host changing
the mode.  Its mode changes are not processed during a drag, as `term_data()` holds
them back.  `WinSize`: one dimension of the window, with `todo` the handlers in
progress, since SetWindowPos() calls OnSize() before it returns.  The host asks for
sizes beyond the screen except while the user drags; Windows changes the size of
itself except when fonts are scaled.

### TelnetOptions and TelnetOpt

`telnet` is the client's `opt_states`, `echoing`, `editing`, `activated` and size;
`toServer` and `toClient` are the two directions of the connection, lists of commands.
The client's actions are `ClientReceive` (`proc_rec_opt` with all it calls), `Resize`
and `Closing`.  The server is not in the repository: it is any server that keeps to
the rules of negotiation, acknowledging no mode it is in and having one request at a
time outstanding for an option.  It makes two offers of its own (`MaxOffers`), which
lets one be made and withdrawn while the client's requests are on their way.
`TelnetSafe` says that once nothing about an option is in flight the two ends agree on
it, that the line discipline does locally what the server does not, and that the
server knows the size of the window it asked for.

### TelnetStream, Proxy, WinSocket and NetPath

`TelnetStream` is `do_telnet_read()`'s automaton, `telnet_receive()`, `telnet_send()` with
its doubling, and Synch.  `Proxy` is `proxy.c` with its queues and the HTTP, SOCKS4, SOCKS5
and telnet negotiations.  `WinSocket` is `winnet.c`: addresses tried in turn, `try_send()`,
the urgent byte, the error kept for later.  `NetPath` runs them against a peer that follows
a scenario: what it says, when, and what it waits for; the segments are cut anywhere.
`MCNetPath` has a scenario for each form that decides how the stream is read (doubled IAC,
CR NUL, subnegotiations, binary mode, a Synch and its data mark, a reset) and for each
proxy, granting and refusing.  The lists of addresses (`OtherLists`) have one to three,
among them those of which one in the middle would answer, only the last does, or the first
cannot be used.  `ConnectSound` says which addresses decide: the loop at `winnet.c:1325-1328`
begins an attempt at every remaining address without waiting for any but the last, so the
first usable address and the last are the two that are waited for, and the session is given
up though another would have answered.  The send buffer has room for one unit (`SendRoom`), so that
every write may block; the user types two characters (`MaxTyped`), of which one needs
doubling, at any moment from the start.  `GrantAssumption` is about the peer: until it opens
the way a proxy has said less than its replies take in all, which is one byte for HTTP and
telnet, eight for SOCKS4, and for SOCKS5 two and the five that tell the length of the rest.
TLC evaluates it on the run's scenarios.

### Backends

`raw.c` and `rlogin.c` as operators on the connection's two queues; three messages from
the host and eight to it bound a behaviour.

### WinHandle and Stream

One input and one output handle.  The main thread's actions are `handle_got_event`,
`Write` and `Close`; the subthreads' are one per stretch between two points at which
another thread can see them.  The events are auto-reset.  The user is the serial back
end or the local proxy: both free the two handles, output first, when the input ends,
when the session closes or, the serial back end only, when a write fails.  `Stream` is
what each direction promises; `InputIsStream` and `OutputIsStream` check that WinHandle
implements it.  Four units each way let a granule be written in part while others are
queued behind it.

### Timing and Session

`Timing` is `timing.c`'s tree on a counter of `Wrap` values counted from the present, so
that a tick moves every time one back and the counter wraps around in every behaviour.
`Session` is the program around it: `run_timers()`'s loop, a timer at a time with what the
timer's function does (`RunTimer`, `RunFirst`), the queue of messages, `Run`'s turn,
`OnNetEvent` and the event kept pending, `select_result`, `close_session`, `start_backend`,
`notify_remote_exit`, the terminal's update and blink timers, the pinger, and the message
box of a bell that cannot be played, which is a loop of its own.  Windows keeps its rules:
FD_READ is posted once until the data is read, WM_TIMER comes after other messages and up to
`MaxLate` late.  `MCSession` has four configurations; two sessions end (`MaxEnds`), so that
the second has the first's leftovers.  `RunTimes` over-approximates the time `OnTimer()`
passes, which nothing sets.  Bells sound on receiving only; a peer is lost in silence only
where keepalives would notice; user messages enter while the queue is no longer than
`MaxQueue`.

### Ldisc and LineEditor

`ldisc_send()` takes one character a step, under the configuration and the host's
wishes of that moment.  `LineEditor` is what it promises: only the end of the line is
ever changed, signals may go out meanwhile, and the line goes as a whole, once and
ahead of anything typed after it.  `IsLineEditor` checks that Ldisc implements it.

`shown` counts the columns of the line that are on the screen: what is echoed adds to it
and each backspace of `bsb()` takes one off, where and only where the code sends them.
`lost` counts the columns of a step that were erased when none of the line was left: text
of somebody else's.  `EchoIsLine` has two parts.  As long as the echo is not switched over
in mid-line (`steady`), `shown` is what the characters of the line take, or nothing with
the echo off (`LineShown`); and no way to erase has `lost` columns (`ErasesOwn`), with one
exception that the code makes: when the host has taken over the editing of a line that is
not echoed, the next string sent erases all the columns the line would have had, because
the flush of the kept line (`ldisc.c:291-297`) does not ask for ECHOING as all the others do.
The flag `steady` is history and no action reads it but to keep `shown` within bounds.

The run has lines of up to three characters (`MaxLine`), which suffice for an erasure
in mid-line, a character of two bytes and a quoted one.  Once the echo has been switched
over in mid-line, `^R` and the flush leave `shown` free of the line, and it may be switched
over again while `shown` is at most `MaxShown`, two.

## Fairness

`WinHandle`: Windows schedules the threads, writes return, and so do reads of a closed
device; a read of an open device need not.  `NetPath`: the loop handles each event
Windows posts, and the peer reads and goes on with its scenario; the user need not
type.  `TelnetOpt`: both ends receive.  `Printing`: the port's thread is scheduled and
the device takes bytes; windows and hosts need not print.  `Session`: the loop runs,
Windows delivers, time passes and the user answers a message box; its WF_ conditions
are written out with what enables them.  The other specifications state none and have
no liveness property.  Deadlock is checked for TermScreen, TermCursor and Session;
the other components may stop when the host, the user or the connection does.

## Findings

1. `RowAsked`: a selection dragged outside the window, a selection kept over
   `term_clrsb()`, or a double click on a row marked as wrapping at the bottom of the
   screen makes `lineptr()` look for a row that does not exist, which ends the program.
2. `HandleLeak`: an input handle freed while its thread is ending is never destroyed;
   its event stays among those the message loop waits on.
3. `NumbersInOrder`: the digits of a number in front of right-to-left text are shown
   backwards: `findIndexOfRun()` begins a run only at exactly the level it looks for.
4. `UnpairedRelease`: in raw mouse mode the host hears of the right button's release
   when it is pressed, and never of a press.

## What is proved

Module `TermCursorProofs`, for windows of any heights, any widths from two columns on
(`WideEnough`), any arguments and any configuration: `CursorSafety` (types, cursor and
margins on the screen, the run's `CursorOnScreen`), `RegionRespected`
(`MovesKeepToRegion`) and `PrimaryKept` (`PrimaryCursorKept`).  The invariant is `IInv`:
both cursor states fit the screen (`Fits`).  Neither half is inductive alone: a line
feed stays on the screen because the margins do, and every exchange brings in the
state of the other screen.  One lemma per operator shows that it yields a state that
fits, one per group of actions that the step preserves `IInv`.  `WideEnough` is needed:
with one column a two-column character and HT do leave the screen (`terminal.c:3225`,
`3135`).

Module `WinHandleProofs`, for any amount of data in either direction: `HandleSafety`,
the run's `OneHolder` with types and `DestroyedThreadGone`.  The core of its `IInv` is
`Sound`, which relates a handle's flags, its two events and the place of its thread: a
set event means that the handle is busy and that the thread is not at work; a thread
told to die that has signalled is gone; a defunct handle's thread is gone or the handle
is being freed.  `Queued` says that what the output thread was asked for is queued,
`Owned` that the user holds both handles until it has freed both.

The same module proves the refinement: `InputRefines` (`InputIsStream`) and
`OutputRefines` (`OutputIsStream`).  `IInv` does not say where the data is, so it is
strengthened by `InFlow` (everything read has been delivered, except the one unit whose
event is set) and `OutFlow` (the queue is the end of what was submitted, what precedes
it was written, and a signalled write still has its units at the queue's head).

Module `UserSideProofs` proves `LdiscIsLineEditor` (`IsLineEditor`) for any set of calls,
any configuration and lines of any length: that every step of `ldisc_send()`, whatever
the flags are at that moment, is an edit of the end of the line, the line's leaving, or
a stutter.  The lemmas are about the operators that shorten the line (what is left is a
start of it) and about each of the keys.

`EchoedLineShows` is `EchoIsLine`, for any set of calls and any length of line: as long as
the echo is not switched over in mid-line, the columns echoed are those of the characters in
the line, or none, and no step erases others, but for the flush of a line that was kept
and not echoed.  The invariant is `LineShown` with the types; that an erasure finds the
columns it takes off follows from it, since what is left of a line takes no more columns
than the line (the lemmas about `Columns`).

`MouseIsShared`, in the same module, is the run's `MouseShared`, for any sequence of
presses, releases, wheel turns and changes of mode, with or without shift, and for any
number of units to a line: no button is reported pressed twice on end, the wheel is
worth exactly what it was turned, and while the user drags a selection the host
hears nothing.  The invariant relates the button the terminal has on record as held to
the last press and release among the reports, and what is left of the wheel to what was
reported of it.

Module `TermScreenProofs`, for any configuration that keeps to `ConfigAssumption`, so
for windows of any heights and any number of saved lines: `BufferAlwaysSound`
(`BufferSound`, which are the counts that `term_size()` and `lineptr()` rest on, with
types), `AltScreenLeavesMain` (`AltLeavesMain`) and `ResizingRoundTrip`
(`RoundTripKeepsLines`).  `IInv` has two halves: `Stored`, which every operator keeps,
and `Viewed`, that the viewport shows only lines that exist, which an exchange of the
screens breaks and the end of each handler restores.  `term_size()`'s two loops are
functions of the number of rows moved, and what they do to all rows follows from what
one turn does.

`ErasedTextStaysErased` (`ErasedStaysErased`) is proved there for the same constants.
`BufferSound` does not say what is on a line, so `TInv` adds `Unerased`, that erased text is
neither on the primary screen nor among the saved lines that a larger window takes back
(`tempsblines`), and `AltOnly`, that the alternate screen has no text of the primary one:
RIS makes one the other.  It is the second that makes the first inductive.

`SelectionKeepsToText` is `SelectionFollowsText`, for the same constants.  Each
operation keeps the relation `Followed`: every row of the buffer with text on it had that
text on some row before, and if the selection began there, it begins here now.
`scroll()` moves the rows of a region, with or without saving those that leave it, a line
a turn, and adjusts both ends by rules of its own for each direction; the lemmas follow
every row through one turn, and the turns are put together by a least one that fails.

Module `SessionProofs`, for any delays on any counter with
`2 * (Longest + MaxLate + 2 * Skew + 2) < Wrap` (`SessionAssumption`; the code's is 2^32
milliseconds): `SessionsDoNotOverlap` (`OneSession`), `KeepalivesSpaced`
(`PingsSpaced`) and `TimersAlwaysSound` (`TimersSound`).  `IInv` holds the `Books` that
`timing.c`, the terminal and the pinger keep of each other, that no timer left in the
tree is due (`ToCome`), that the window timer is set for none later than the first
(`InTime`), that sockets and pingers belong to the open session (`Held`), and how far the
next keepalive is from the last (`Spaced`).  All times are kept within half a round of
the present (`Near`), where signed differences are an order; that is what the assumption
buys.  The loop of `run_timers()` is followed turn by turn: a least turn after which what
is claimed fails cannot exist.  A new pinger is found a free address by the pigeonhole
principle.  `TimersAlwaysSound` has the hypothesis `~SameTick`, as the run has: a timer
of a freed pinger that is scheduled again at the same address in the same tick is taken
for the new one's (`timing.c:109`), and then no context is added.

Module `TelnetOptProofs`, for any options a server knows, any sizes and any number of
offers and resizes: `NegotiationAgrees` (`TelnetSafe`).  `Agreement` speaks only of
options about which nothing is in flight.  `IInv` says what is in flight otherwise: the
client's state of an option, the server's, and what either direction holds about it
(no command, one, or two in a row) are one of fourteen `Stage`s.  A step about one
option leads from stage to stage; it leaves the stages of the others alone, with the one
exception of `oenv`, whose activation resets the idle `nenv`.  `Told` says that the last
report of a size in flight is of the size the window has.  The options in `NeverOn` are
those the client refuses without a change of state.

Module `HostSideProofs`, for any configuration of the components: `BackendsArePlain`
(`BackendsPlain`), `JobsAreKept` (`JobsKept`) and `PrintingIsSound` (`PrintedSound`).  The
first relates the two queues of a raw or rlogin connection to what was sent and shown.  For
the second, `InputInv` has `CaptureInv` of both captures: the buffer ends with just as much
of the terminator as has been seen (`EndsWith`), a capture that is not kept from the screen
has seen none of it, and the bytes held back beyond those start no terminator (`NoStart`),
so that flushing the buffer neither loses nor repeats a byte of the job; after an 8-bit CSI
the terminator is the one with a byte less, and the count a byte less with it (`EndFor`).  The
third has two parts.  A port: what the thread has in hand is the first of what is queued,
until it takes it off, and what the device has with what is pending are the closed jobs
(`PortSound`).  A Windows printer: only the open job is live, and what was spooled with the
open document is what was given (`DriverSound`).  They rest on lemmas about `bufchain`: what
adding, taking a prefix and consuming do to the contents, for blocks of any size.

Module `NetPathProofs`, for any scenarios that keep to `ScenarioAssumption` and
`GrantAssumption`, any room in the socket's buffer and any amount typed: `GrantComesFirst`
(`NothingBeforeGrant`), that nothing the user types or the telnet client sends is on the
wire before the proxy has opened the way.  Nothing in `proxy.c` tests for that: it follows
from how many bytes each state of a negotiation waits for.  `GrantInv` says that until the
way is open the connection is still `Asking`, that is, has sent requests only and queued the
rest, and that the bytes the negotiation has taken, with those not yet received, are no more
than the peer has said (`Heard`).  One lemma per state of each protocol says how many bytes
the next one costs, wherever the stream was cut.

Only model-checked: everything else.  Of it, liveness under fairness (`InputArrives`,
`OutputArrives`, `OutputDestroyed`, `EverythingArrives`, `EndedSessionRestarts`,
`ArrivedIsRead`, `NegotiationSettles`, `EverythingPrinted`), anything about ENABLED, and
what recursive definitions compute for every input (`LineCodec`, `Bidi`, and what is
folded over a row in `Display` and `Clipboard`) are out of the prover's reach.  So are the
rows and the painting in TerminalLines and `IsTextLine`, whose modules need RECURSIVE
operators for TLC to evaluate chains of marks in reasonable time.  These are true of the
configurations that are checked and not of every one:

* NetPath's `TextArrives` says what the data of the run's scenarios comes to, and another
  scenario can cut its data where it is read otherwise.
* `TypedArrives`: a Synch drops what is queued in front of the urgent byte, and with
  other scenarios an answer of the client's is part of it.
* `ConnectSound`: which addresses decide depends on the lists; a list of four or more is
  treated as one of three is, but no theorem says so.
* UserSide's `WindowFits` depends on the sizes of font, window and screen, and
  `TextTravels` on data that is folded over rows.
* TermScreen's `ViewportHolds`: with two saved lines and lines that wrap, a character can
  scroll and then be written where the view begins.

No module that is proved
about reaches a RECURSIVE operator.

## Observations

Disagreements and doubtful places met while modelling that no run asserts, either
because nothing in the repository says otherwise, or because the models leave the case
out as said here.

*Terminal.*  A selection made while scrolled back names rows of the screen and not of the
view (`terminal.c:6035`).  `print_saved` is read before anything sets it (2636).  Data
held back by a drag shows only when something else calls `term_out()` (7038).  `wrapnext`
survives CBT, DECSTBM, HT on a double-width line (3146).  A numeric argument is
accumulated without a cap (3558).  The byte after a malformed character of a job that is
shown is printed twice (2769, 2864).  After an ESC in an OSC string everything is
swallowed up to the next backslash, where a comment has it fall through (3334-3349).
`compressline()` does not store `zh` and `full` (`terminal.h:57`).  A run that begins in
the middle of a GBK character is drawn with a space in its place (5313), and one byte of
text after another may be taken for such a character (3255-3271).  The secondary answer
with local echo answers itself (3608).  `last_paste` is never set (1515, 6984).  The login
prompt is not found when a segment cuts it (7230).

*Bidi.*  PDF never restores what was before it; the halves of a wide character are
reordered apart in right-to-left rows; W1 takes the paragraph's level for a type; W5
looks beyond the row; the cache ignores `zh`.

*Printing.*  The flush after an 8-bit CSI that no end follows, or in any job after one that
ended with it, reads through a null pointer (`terminal.c:2636-2638`, `2783`, `misc.c:409`).
Flush threads never end, share one timer and use the job and the critical
section after they are gone (`winprint.c:145-160`); `print_del()` frees the record its
thread uses (`printapi.c:91-122`).  A print of the screen during a host's job discards
what the port's buffer holds, ends the Windows job, or closes a file that is not open
(`printapi.c:128`, `193`).

*Mouse and window.*  Windows' taking the capture away is not handled, so that a drag can
outlive the button.  After a release with shift, or a change of mode, the next press is
not reported (6198).  A new session does not reset the mode (1526, 2484).  A font scaled
for the maximized window is not always given back (`window.c:643`).

*Network.*  The loop over the remaining addresses goes on after a start that succeeded
(`winnet.c:1325-1328`): with three or more the middle ones are begun and abandoned, where
the comments at `network.h:57-63` and `winnet.c:1340-1344` read as if each candidate were
fallen back to in its turn until one connects.  When the first address cannot be used at
all, its error stays and ends the session although the next one is being tried.  Both are
in the run's scenarios, and `ConnectSound` says of them what the code does.  SOCKS5 replies that name the host are taken for one byte shorter
than they are (`proxy.c:1123-1125`).  IAC IAC is shown while text is hidden by a Synch
(`telnet.c:594-596`).  An urgent byte clears the answers queued before it
(`winnet.c:1279`).  With the keyboard locked, a Synch leaves half a command
(`winnet.c:1275`, `1298`).  `telnet_receive()` drops what follows FF F1 18 00 in its
segment; the run has it come alone.  `telnet_send_BIN()` neither doubles IAC nor looks
whether there is a socket (`telnet.c:914`).  `raw_unthrottle()` and
`rlogin_unthrottle()` use a socket that may be gone.

*Session and timers.*  `must_close_session` is looked at only after the next message
(`TerminalWindow.cpp:885`).  A message box in the middle of `select_result()` can
overwrite the pending event (1430-1432): `ArrivedIsRead` and `EndedSessionRestarts` are
stated for sessions without one.  `OnTimer()` runs the timers by a variable that nothing
sets (222).  Timers of a freed pinger revive for one at the same address within the tick
(`timing.c:109`; `SameTick` is FALSE in the run).  `serbreak_timer()` compares times
plainly (`winser.c:346`).

*Line discipline.*  When the host takes over the editing in mid-line, columns are erased for
characters that were never echoed (`ldisc.c:291-297`), the exception in `ErasesOwn`; a line
whose echo is switched over in the middle is erased by its new setting, so that columns stay
or too many go; `quotenext` survives the change; the
terminal's own answers land in the line being edited.

## What is not modelled, and why

* Session logging: synchronous, and guarded against re-entry.
* Keyboard translation: a function of one key; its multi-key states are mostly out of
  reach, as the window procedure passes on WM_KEYDOWN and WM_SYSKEYUP only.
* Settings, the registry and the dialogs: no behaviour over time; a running session
  keeps its settings, as `term_reconfig()` is never called.
* Character sets, fonts, colours, decorations: conversions and calls of the user
  interface.
* Of modelled components: VT52's sequences apart from those that move the cursor, the
  string states of the parser that only skip, rectangular selections, DBCS fonts,
  the serial port's configuration and break, hosts that need no proxy.
* Frozen handles (`MAX_BACKLOG`): `term_data()` returns 0, so that no backlog is told.
* The libraries outside the repository.  Win32's events, threads, messages and sockets
  enter as their documented effects.

## Plan

1. Theorems: `IsTextLine` of TermLine, which needs its chains of marks as functions that
   TLC can evaluate; `RowsSound` with it.
2. A refinement of NetPath to Stream, with the proxy's queues as the mapping.
3. Vertical and horizontal size together in WinSize, with the terminal's `term_size()`.
4. The remaining parser states, with the width of `esc_args`.
