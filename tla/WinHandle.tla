------------------------------ MODULE WinHandle ------------------------------
(***************************************************************************)
(* Input and output through Windows handles (windows/winhandl.c): the main *)
(* thread, the thread that reads a handle and the one that writes to it,   *)
(* and the two auto-reset events through which each hands its buffer to    *)
(* the main thread and gets it back.  The main thread is driven by a user  *)
(* that holds one handle of each kind, as the serial backend (winser.c)    *)
(* and the local proxy (winproxy.c) do: both free the two handles, output  *)
(* first, when the input fails or the session is closed.  When the output  *)
(* fails the serial backend frees them, the local proxy does nothing.      *)
(*                                                                         *)
(* A unit of data is a number; the device and the user count them, so that *)
(* one that is lost, repeated or out of order shows.                       *)
(*                                                                         *)
(* An operator named Slip... is a plausible mistake in the one it          *)
(* precedes: no action uses it, the mutation runs of PROJECT.json put it   *)
(* in that operator's place.                                               *)
(***************************************************************************)
EXTENDS Naturals, Sequences

CONSTANTS
    MaxInput,     \* bound: the units the device has to give
    MaxOutput     \* bound: the units the user writes

ASSUME BoundsAssumption == MaxInput \in Nat /\ MaxOutput \in Nat

VARIABLES
    handles,       \* the fields of struct handle that the main thread owns
    ev_to_main,    \* the events
    ev_from_main,
    thread,        \* where each subthread is
    buffer, len,   \* the input context: what was read, 0 units at EOF or error
    outlen,        \* the output context: how much to write,
    lenwritten,    \* how much was written,
    writeerr,      \* whether it failed,
    queued_data,   \* what is still to be written; ctx->buffer is its head
    open,          \* the user has not freed the handles
    (* history *)
    source, delivered,     \* read from the device; given to gotdata()
    submitted, written     \* given to handle_write(); written to the device

main == <<handles, queued_data, open, delivered, submitted>>
input == <<buffer, len, source>>
output == <<lenwritten, writeerr, written>>
vars == <<main, ev_to_main, ev_from_main, thread, input, outlen, output>>

Kinds == {"in", "out"}

Fields == [live : BOOLEAN, busy : BOOLEAN, moribund : BOOLEAN, done : BOOLEAN,
           defunct : BOOLEAN]

-----------------------------------------------------------------------------
(* The main thread.  Its operators take and return a record m of what it may
   change: handles, the queue, outlen and the events that wake the threads. *)

SetEvent(m, h) == [m EXCEPT !.ev_from_main[h] = TRUE]

(* handle_throttle(), given a backlog below MAX_BACKLOG: what the users of
   this module return is never above it. *)
SlipHandleThrottle(m) ==
    IF m.handles["in"].defunct \/ m.handles["in"].busy THEN m ELSE SetEvent(m, "in")
handle_throttle(m) ==
    IF m.handles["in"].defunct \/ m.handles["in"].busy THEN m
    ELSE [SetEvent(m, "in") EXCEPT !.handles["in"].busy = TRUE]

(* handle_try_output(): bufchain_prefix() gives the first n units, as many as
   there are in the first granule. *)
Prefixes(q) == IF q = <<>> THEN {0} ELSE 1 .. Len(q)

SlipHandleTryOutput(m, n) ==
    IF m.queued_data = <<>> THEN m
    ELSE [SetEvent(m, "out") EXCEPT !.outlen = n, !.handles["out"].busy = TRUE]
handle_try_output(m, n) ==
    IF m.handles["out"].busy \/ m.queued_data = <<>> THEN m
    ELSE [SetEvent(m, "out") EXCEPT !.outlen = n, !.handles["out"].busy = TRUE]

handle_destroy(m, h) ==
    [m EXCEPT !.handles[h].live = FALSE,
              !.queued_data = IF h = "out" THEN <<>> ELSE @]

(* The thread is told to die. *)
Kill(m, h) ==
    [SetEvent(m, h) EXCEPT !.handles[h].done = TRUE, !.handles[h].busy = TRUE]

handle_free(m, h) ==
    LET moribund == [m EXCEPT !.handles[h].moribund = TRUE]
    IN  IF m.handles[h].moribund THEN m
        ELSE IF m.handles[h].busy THEN moribund
        ELSE IF m.handles[h].defunct THEN handle_destroy(m, h)
        ELSE Kill(moribund, h)

(* serial_terminate() and sk_localproxy_close(). *)
Terminate(m) == [handle_free(handle_free(m, "out"), "in") EXCEPT !.open = FALSE]

(* The thread is gone, or about to be: the user is told and may free the
   handles from within its callback; only then is the handle marked defunct. *)
Failed(m, h, frees) ==
    [IF frees THEN Terminate(m) ELSE m EXCEPT !.handles[h].defunct = TRUE]

(* An event for a handle that has been freed. *)
GotMoribund(m, h) == IF m.handles[h].done THEN handle_destroy(m, h) ELSE Kill(m, h)

GotInput(m) ==
    LET idle == [m EXCEPT !.handles["in"].busy = FALSE]
    IN  IF len = 0 THEN Failed(idle, "in", TRUE)
        ELSE handle_throttle([idle EXCEPT !.delivered = Append(@, buffer)])

SlipConsumed(q) == SubSeq(q, outlen + 1, Len(q))
Consumed(q) == SubSeq(q, lenwritten + 1, Len(q))

SlipGotOutput(m, n, frees) ==
    LET idle == [m EXCEPT !.handles["out"].busy = FALSE]
    IN  IF writeerr THEN Failed(idle, "out", frees)
        ELSE [idle EXCEPT !.queued_data = Consumed(@)]
GotOutput(m, n, frees) ==
    LET idle == [m EXCEPT !.handles["out"].busy = FALSE]
    IN  IF writeerr THEN Failed(idle, "out", frees)
        ELSE handle_try_output([idle EXCEPT !.queued_data = Consumed(@)], n)

-----------------------------------------------------------------------------

(* handle_input_new() and handle_output_new(): the input thread starts with a
   read, the output thread with a wait. *)
Init ==
    /\ handles = [h \in Kinds |-> [live |-> TRUE, busy |-> h = "in", moribund |-> FALSE,
                                   done |-> FALSE, defunct |-> FALSE]]
    /\ ev_to_main = [h \in Kinds |-> FALSE]
    /\ ev_from_main = [h \in Kinds |-> FALSE]
    /\ thread = [h \in Kinds |-> IF h = "in" THEN "busy" ELSE "waiting"]
    /\ buffer = 0 /\ len = 0
    /\ outlen = 0 /\ lenwritten = 0 /\ writeerr = FALSE
    /\ queued_data = <<>> /\ open = TRUE
    /\ source = <<>> /\ delivered = <<>> /\ submitted = <<>> /\ written = <<>>

(* A step of the main thread, from m0 to m. *)
Main ==
    [handles |-> handles, ev_from_main |-> ev_from_main, outlen |-> outlen,
     queued_data |-> queued_data, open |-> open, delivered |-> delivered]
MainStep(m) ==
    /\ handles' = m.handles
    /\ ev_from_main' = m.ev_from_main
    /\ outlen' = m.outlen
    /\ queued_data' = m.queued_data
    /\ open' = m.open
    /\ delivered' = m.delivered
    /\ UNCHANGED <<thread, input, output>>

(* The main loop waits for the events of busy handles (handle_get_events)
   and deals with one that is set (handle_got_event). *)
handle_got_event(h) ==
    /\ handles[h].live /\ handles[h].busy /\ ev_to_main[h]
    /\ ev_to_main' = [ev_to_main EXCEPT ![h] = FALSE]
    /\ \/ handles[h].moribund /\ MainStep(GotMoribund(Main, h))
       \/ ~handles[h].moribund /\ h = "in" /\ MainStep(GotInput(Main))
       \/ /\ ~handles[h].moribund /\ h = "out"
          /\ \E n \in Prefixes(Consumed(queued_data)), frees \in BOOLEAN :
                MainStep(GotOutput(Main, n, frees))
    /\ UNCHANGED submitted

(* serial_send(), sk_localproxy_write(): handle_write() of one unit. *)
Write ==
    /\ open /\ Len(submitted) < MaxOutput
    /\ LET x == Len(submitted) + 1
           m == [Main EXCEPT !.queued_data = Append(@, x)]
       IN  /\ submitted' = Append(submitted, x)
           /\ \E n \in Prefixes(m.queued_data) : MainStep(handle_try_output(m, n))
    /\ UNCHANGED ev_to_main

(* The session is closed while both handles work. *)
Close ==
    /\ open
    /\ MainStep(Terminate(Main))
    /\ UNCHANGED <<ev_to_main, submitted>>

-----------------------------------------------------------------------------
(* The input thread. *)

Goto(h, place) == thread' = [thread EXCEPT ![h] = place]

(* WaitForSingleObject(ctx->ev_from_main) returns, in either thread. *)
Wake(h) ==
    /\ thread[h] = "waiting" /\ ev_from_main[h]
    /\ ev_from_main' = [ev_from_main EXCEPT ![h] = FALSE]
    /\ Goto(h, "woken")
    /\ UNCHANGED <<main, ev_to_main, input, outlen, output>>

(* ReadFile() returns: a unit of data, or none at the end of the file or for
   an error.  The read of a device that the user has closed fails. *)
ReadData ==
    /\ open /\ Len(source) < MaxInput
    /\ buffer' = Len(source) + 1 /\ len' = 1
    /\ source' = Append(source, Len(source) + 1)
ReadNone ==
    /\ len' = 0
    /\ UNCHANGED <<buffer, source>>
InputRead ==
    /\ thread["in"] = "busy"
    /\ ReadData \/ ReadNone
    /\ ev_to_main' = [ev_to_main EXCEPT !["in"] = TRUE]
    /\ Goto("in", "check")
    /\ UNCHANGED <<main, ev_from_main, outlen, output>>

(* "if (!ctx->len) break", after SetEvent(). *)
SlipInputCheck ==
    /\ thread["in"] = "check"
    /\ Goto("in", IF len = 0 THEN "gone" ELSE "busy")
    /\ UNCHANGED <<main, ev_to_main, ev_from_main, input, outlen, output>>
InputCheck ==
    /\ thread["in"] = "check"
    /\ Goto("in", IF len = 0 THEN "gone" ELSE "waiting")
    /\ UNCHANGED <<main, ev_to_main, ev_from_main, input, outlen, output>>

InputResume ==
    /\ thread["in"] = "woken"
    /\ Goto("in", IF handles["in"].done THEN "gone" ELSE "busy")
    /\ UNCHANGED <<main, ev_to_main, ev_from_main, input, outlen, output>>

-----------------------------------------------------------------------------
(* The output thread. *)

(* Its death is announced to the main thread. *)
SlipOutputResume ==
    /\ thread["out"] = "woken"
    /\ Goto("out", IF handles["out"].done THEN "gone" ELSE "busy")
    /\ UNCHANGED <<main, ev_to_main, ev_from_main, input, outlen, output>>
OutputResume ==
    /\ thread["out"] = "woken"
    /\ Goto("out", IF handles["out"].done THEN "gone" ELSE "busy")
    /\ ev_to_main' = [ev_to_main EXCEPT !["out"] = @ \/ handles["out"].done]
    /\ UNCHANGED <<main, ev_from_main, input, outlen, output>>

(* WriteFile() returns: it has written all or a part, or has failed. *)
OutputWrite ==
    /\ thread["out"] = "busy"
    /\ \/ \E n \in 1 .. outlen :
             /\ written' = written \o SubSeq(queued_data, 1, n)
             /\ lenwritten' = n /\ writeerr' = FALSE
             /\ Goto("out", "waiting")
       \/ /\ writeerr' = TRUE
          /\ Goto("out", "gone")
          /\ UNCHANGED <<lenwritten, written>>
    /\ ev_to_main' = [ev_to_main EXCEPT !["out"] = TRUE]
    /\ UNCHANGED <<main, ev_from_main, input, outlen>>

Next ==
    \/ \E h \in Kinds : handle_got_event(h) \/ Wake(h)
    \/ Write \/ Close
    \/ InputRead \/ InputCheck \/ InputResume
    \/ OutputResume \/ OutputWrite

(* Windows schedules every thread, writes complete, and so do reads of a
   device that has been closed; a read of an open device may take for ever. *)
Spec ==
    /\ Init /\ [][Next]_vars
    /\ \A h \in Kinds : WF_vars(handle_got_event(h)) /\ WF_vars(Wake(h))
    /\ WF_vars(InputCheck) /\ WF_vars(InputResume)
    /\ WF_vars(OutputResume) /\ WF_vars(OutputWrite)
    /\ WF_vars(~open /\ InputRead)

-----------------------------------------------------------------------------
(* Types; and the queue goes with its handle. *)
TypeOK ==
    /\ handles \in [Kinds -> Fields]
    /\ ev_to_main \in [Kinds -> BOOLEAN] /\ ev_from_main \in [Kinds -> BOOLEAN]
    /\ thread \in [Kinds -> {"busy", "check", "waiting", "woken", "gone"}]
    /\ thread["out"] # "check"
    /\ buffer \in 0 .. MaxInput /\ len \in {0, 1}
    /\ outlen \in 0 .. MaxOutput /\ lenwritten \in 0 .. MaxOutput
    /\ writeerr \in BOOLEAN /\ open \in BOOLEAN
    /\ queued_data \in Seq(1 .. MaxOutput)
    /\ ~handles["out"].live => queued_data = <<>>

(* "otherwise the subthread will write to invalid memory after we free its
   context from under it" (handle_free): a handle is only destroyed when its
   thread will never use it again. *)
DestroyedThreadGone == \A h \in Kinds : ~handles[h].live => thread[h] = "gone"

(* A buffer is never in the hands of both threads: while the main thread may
   use it no operation is under way or asked for, and while one is there is
   no answer to it yet; what is being written stays queued until it is. *)
Under(h) == thread[h] \in {"woken", "busy"}
OneHolder ==
    \A h \in Kinds :
        /\ ev_to_main[h] => handles[h].busy /\ ~ev_from_main[h] /\ ~Under(h)
        /\ ev_from_main[h] \/ Under(h) => handles[h].busy
        /\ ~(ev_from_main[h] /\ Under(h))
        /\ (h = "out" /\ (ev_from_main[h] \/ Under(h)) /\ ~handles[h].done)
              => outlen <= Len(queued_data)

(* Each direction carries its data to the other end, in order and once. *)
InputStream == INSTANCE Stream WITH Data <- 1 .. MaxInput, sent <- source, received <- delivered
OutputStream == INSTANCE Stream WITH Data <- 1 .. MaxOutput, sent <- submitted, received <- written
InputIsStream == InputStream!Spec
OutputIsStream == OutputStream!Spec

(* What was read reaches the user and what the user wrote the device, unless
   the handles are freed or a write fails first: no wakeup is lost. *)
InputArrives == Len(delivered) < Len(source) ~> (delivered = source \/ ~open)
OutputArrives == Len(written) < Len(submitted) ~> (written = submitted \/ ~open \/ writeerr)

(* A freed output handle whose device still takes data is destroyed. *)
OutputDestroyed == ~open ~> (~handles["out"].live \/ writeerr)

(* "Set the moribund flag to indicate that it will want destroying after that"
   (handle_free): every freed handle is destroyed in the end. *)
FreedIsDestroyed == ~open ~> \A h \in Kinds : ~handles[h].live

=============================================================================
