-------------------------------- MODULE Printing --------------------------------
(*******************************************************************************)
(* The printer of a terminal: printapi.c, and the print jobs of winprint.c.    *)
(* The window's thread opens a job, gives it bytes and closes it, for what the *)
(* host sends to the printer (term_print_setup() and on) or for a print of the *)
(* screen (printme()), which may come while the host's job is open.            *)
(*                                                                             *)
(* A parallel port is written by a thread of its own, print_thread(), from a   *)
(* queue.  A Windows printer gets bytes at once, and each job of it starts a   *)
(* thread that ends the document when no bytes have come for a while; that     *)
(* thread never ends, and after its job uses memory that was freed.            *)
(* A shared or a serial printer takes the calls and does nothing.  Whoever     *)
(* makes a printer passes 0 for wholedoc (terminal.c:1581): a job is one       *)
(* document, and the other branches are never taken.                           *)
(* The bytes are numbered as they are given to print_data().                   *)
(*******************************************************************************)
EXTENDS Integers, Sequences, FiniteSets, SequencesExt, Bufchain

CONSTANTS
    Types,      \* kinds of printers: "LPT", "DRV", "FIL", "COM", "SHR"
    Addresses,  \* where printer_job records may be allocated
    Period,     \* what printer_job_data() sets the timer to
    MaxBytes, MaxOpens   \* bounds: bytes and jobs

(* What is assumed of them (module HostSide). *)
PrintingAssumption ==
    /\ Types \subseteq {"LPT", "DRV", "FIL", "COM", "SHR"} /\ "NULL" \notin Addresses
    /\ Granule \in Nat \ {0} /\ Period \in Nat

NoJob == "NULL"

VARIABLES
    printer,    \* PRINTER: type, handle, buffer up to buflen, chain; and whether it was deleted
    printing,   \* Terminal.printing: the host's job is open
    thread,     \* print_thread(): where it is and the bytes it points at
    jobs,       \* the printer_job at each address: whether it is live and its document so far
    timer,      \* of winprint.c, for all jobs
    flushers,   \* printer_flush_thread()s: for each, its job and whether it sleeps
    device,     \* what the port was written, the documents spooled, or the file
    given,      \* bytes given to print_data() so far
    closed,     \* the bytes of the jobs that were closed, in order
    opens,      \* print_open() calls so far
    crashed     \* the process used a freed record or an absent file, and ended

vars == <<printer, printing, thread, jobs, timer, flushers, device, given, closed, opens, crashed>>

-----------------------------------------------------------------------------
(* The state as one record, for the calls. *)

State == [printer |-> printer, jobs |-> jobs, timer |-> timer, flushers |-> flushers,
          device |-> device, given |-> given, closed |-> closed, crashed |-> crashed]
Become(s) ==
    /\ printer' = s.printer /\ jobs' = s.jobs /\ timer' = s.timer /\ flushers' = s.flushers
    /\ device' = s.device /\ given' = s.given /\ closed' = s.closed /\ crashed' = s.crashed

(* EndDocPrinter(): the document goes to the printer. *)
EndDocument(s, a) ==
    [s EXCEPT !.device = IF s.jobs[a].doc = <<>> THEN @ ELSE Append(@, s.jobs[a].doc),
              !.jobs = [@ EXCEPT ![a].doc = <<>>]]

(* printer_finish_job(): the record is freed, its thread stays. *)

printer_finish_job(s) ==
    LET a == s.printer.handle
    IN IF a = NoJob THEN s
       ELSE LET ended == EndDocument(s, a)
            IN [ended EXCEPT !.printer = [@ EXCEPT !.handle = NoJob], !.jobs = [@ EXCEPT ![a].live = FALSE]]

(* printer_start_job(): a record, wherever it is allocated, and a thread. *)
printer_start_job(s, a) ==
    [s EXCEPT !.printer = [@ EXCEPT !.handle = a],
              !.jobs = [@ EXCEPT ![a] = [live |-> TRUE, doc |-> <<>>]],
              !.flushers = Append(@, [job |-> a, asleep |-> FALSE])]

(* print_open(): a port starts its buffer over, a file is opened when none is. *)
print_open(s) ==
    CASE s.printer.type = "LPT" -> {[s EXCEPT !.printer = [@ EXCEPT !.buffer = <<>>]]}
      [] s.printer.type = "DRV" ->
            LET f == printer_finish_job(s)
            IN {printer_start_job(f, a) : a \in {b \in Addresses : ~f.jobs[b].live}}
      [] s.printer.type = "FIL" ->
            {IF s.printer.handle # NoJob THEN s
             ELSE [s EXCEPT !.printer = [@ EXCEPT !.handle = "file"], !.device = <<>>]}
      [] OTHER -> {s}

(* print_data(): bytes for a printer with no job, or a file that is not open, are lost. *)
print_data(s, n) ==
    LET data == [i \in 1 .. n |-> s.given + i]
        t == [s EXCEPT !.given = @ + n]
        handle == s.printer.handle
    IN CASE s.printer.type = "LPT" -> [t EXCEPT !.printer.buffer = @ \o data]
         [] s.printer.type = "DRV" /\ handle # NoJob ->
               [t EXCEPT !.jobs[handle].doc = @ \o data, !.timer = Period, !.closed = @ \o data]
         [] s.printer.type = "FIL" /\ handle # NoJob -> [t EXCEPT !.device = @ \o data]
         [] OTHER -> t

(* print_close(): a port's buffer is queued, under the lock; a file that is not open is closed. *)
print_close(s) ==
    CASE s.printer.type = "LPT" ->
            [s EXCEPT !.printer.chain = bufchain_add(@, s.printer.buffer), !.printer.buffer = <<>>,
                      !.closed = @ \o s.printer.buffer]
      [] s.printer.type = "DRV" -> printer_finish_job(s)
      [] s.printer.type = "FIL" ->
            IF s.printer.handle = NoJob THEN [s EXCEPT !.crashed = TRUE]
            ELSE [s EXCEPT !.printer = [@ EXCEPT !.handle = NoJob]]
      [] OTHER -> s

-----------------------------------------------------------------------------
(* The window's thread. *)

Alive == ~crashed /\ ~printer.deleted
BytesLeft == MaxBytes - given

Setup ==
    /\ Alive /\ opens < MaxOpens /\ opens' = opens + 1
    /\ \E s \in print_open(State) : Become(s)
    /\ printing' = TRUE /\ UNCHANGED thread

Flush ==
    /\ Alive /\ printing
    /\ \E n \in 1 .. Least(2, BytesLeft) : Become(print_data(State, n))
    /\ UNCHANGED <<printing, thread, opens>>

Finish ==
    /\ Alive /\ printing /\ printing' = FALSE
    /\ Become(print_close(State))
    /\ UNCHANGED <<thread, opens>>

(* printme(): the three in one. *)
PrintScreen ==
    /\ Alive /\ opens < MaxOpens /\ opens' = opens + 1 /\ BytesLeft > 0
    /\ \E s \in print_open(State) : Become(print_close(print_data(s, 1)))
    /\ UNCHANGED <<printing, thread>>

(* print_del(): a port is closed, whatever is queued, and the record freed. *)
Delete ==
    /\ Alive
    /\ LET s == IF printer.type = "DRV" THEN printer_finish_job(State) ELSE State
       IN Become([s EXCEPT !.printer = [@ EXCEPT !.deleted = TRUE]])
    /\ UNCHANGED <<printing, thread, opens>>

-----------------------------------------------------------------------------
(* print_thread(): the lock is held to look and to consume, not to write. *)

Rest == UNCHANGED <<printing, jobs, timer, flushers, given, closed, opens, crashed>>
Runs(at) == printer.type = "LPT" /\ Alive /\ thread.at = at

SlipThen == "done"
Then == "look"

Look ==
    /\ Runs("look") /\ bufchain_size(printer.chain) > 0
    /\ thread' = [at |-> "write", data |-> bufchain_prefix(printer.chain)]
    /\ UNCHANGED <<printer, device>> /\ Rest

Write ==
    /\ Runs("write")
    /\ device' = device \o thread.data
    /\ thread' = [thread EXCEPT !.at = "consume"]
    /\ UNCHANGED printer /\ Rest

Consume ==
    /\ Runs("consume")
    /\ printer' = [printer EXCEPT !.chain = bufchain_consume(@, Len(thread.data))]
    /\ thread' = [at |-> Then, data |-> <<>>]
    /\ UNCHANGED device /\ Rest

(* After print_del() the thread looks into the record that was freed. *)
LookAfterFree ==
    /\ printer.type = "LPT" /\ printer.deleted /\ ~crashed /\ crashed' = TRUE
    /\ UNCHANGED <<printer, printing, thread, jobs, timer, flushers, device, given, closed, opens>>

-----------------------------------------------------------------------------
(* printer_flush_thread(): sleeps while the timer runs, and takes one off it. *)

Doze(i) ==
    /\ ~crashed /\ ~flushers[i].asleep /\ timer > 0
    /\ flushers' = [flushers EXCEPT ![i].asleep = TRUE]
    /\ UNCHANGED <<printer, printing, thread, jobs, timer, device, given, closed, opens, crashed>>

(* printer_flush_data(): the document ends and another begins; on a record that  *)
(* was freed it does nothing, or anything; and so does a section deleted before. *)
printer_flush_data(s, a) ==
    IF s.jobs[a].live THEN {EndDocument(s, a)} ELSE {s, [s EXCEPT !.crashed = TRUE]}

Tick(i) ==
    LET a == flushers[i].job
        s == [State EXCEPT !.timer = @ - 1, !.flushers = [@ EXCEPT ![i].asleep = FALSE]]
        after == IF timer = 1 THEN printer_flush_data(s, a) ELSE {s}
    IN /\ ~crashed /\ flushers[i].asleep
       /\ \/ \E t \in after : Become(t)
          \/ printer.handle = NoJob /\ Become([s EXCEPT !.crashed = TRUE])
       /\ UNCHANGED <<printing, thread, opens>>

-----------------------------------------------------------------------------
Init ==
    /\ \E t \in Types :
          printer = [type |-> t, handle |-> NoJob, buffer |-> <<>>, chain |-> bufchain_init, deleted |-> FALSE]
    /\ printing = FALSE
    /\ thread = [at |-> "look", data |-> <<>>]
    /\ jobs = [a \in Addresses |-> [live |-> FALSE, doc |-> <<>>]]
    /\ timer = 0 /\ flushers = <<>> /\ device = <<>>
    /\ given = 0 /\ closed = <<>> /\ opens = 0 /\ crashed = FALSE

Next ==
    \/ Setup \/ Flush \/ Finish \/ PrintScreen \/ Delete
    \/ Look \/ Write \/ Consume \/ LookAfterFree
    \/ \E i \in DOMAIN flushers : Doze(i) \/ Tick(i)

(* Windows runs the thread of the port. *)
Fairness == WF_vars(Look) /\ WF_vars(Write) /\ WF_vars(Consume)
Spec == Init /\ [][Next]_vars /\ Fairness

-----------------------------------------------------------------------------
(* Properties. *)

(* The port is written the bytes of the closed jobs, each once and in order,  *)
(* though the thread looks, writes and takes off the queue at different times *)
(* and more is queued in between (printapi.c:24-54, misc.c:356-412).          *)
PrintedOnceInOrder ==
    printer.type = "LPT" =>
       closed = device \o IF thread.at = "consume" THEN SubSeq(Contents(printer.chain), Len(thread.data) + 1,
                                                               bufchain_size(printer.chain))
                          ELSE Contents(printer.chain)

(* Every byte a Windows printer took is in one document, in order, whichever *)
(* thread ends the documents (winprint.c:138-172, 224-245).                  *)
DocumentsHoldAll ==
    printer.type = "DRV" =>
       closed = FlattenSeq(device) \o IF printer.handle = NoJob THEN <<>> ELSE jobs[printer.handle].doc

(* A closed job gets to the port, unless the window is closed.                  *)
AllPrinted == printer.type # "LPT" \/ crashed \/ printer.deleted \/ device = closed
=============================================================================
