-------------------------------- MODULE Timing --------------------------------
(***************************************************************************)
(* timing.c's tree of timers and the one window timer that drives it, as   *)
(* operators on tm = [timers, contexts, now, window]: the timers set, the  *)
(* contexts that have not been expired, the time of the last run and the   *)
(* tick at which Windows is to send WM_TIMER, or None.  A timer is the     *)
(* tick it is set for and its context, which decides its function too.     *)
(* Ticks are GetTickCount()'s 32-bit counter, here of Wrap values, counted *)
(* from the present: 0 is now, and a tick that passes moves every time one *)
(* back.  The code only ever takes differences of two times.               *)
(*                                                                         *)
(* An operator named Slip... is a plausible mistake in the one it          *)
(* precedes: no action uses it, the mutation runs of PROJECT.json put it   *)
(* in that operator's place.                                               *)
(***************************************************************************)
EXTENDS Integers, FiniteSets, Sequences, SequencesExt

CONSTANTS
    Wrap,    \* the ticks before the counter is at zero again: 2^32 in Windows
    Skew     \* how far run_timers() trusts a time that is not the tick count

ASSUME TickAssumption == /\ Wrap \in Nat /\ Wrap > 2 /\ Wrap % 2 = 0
                         /\ Skew \in Nat /\ 2 * Skew < Wrap

None == -1
Ticks == 0 .. Wrap - 1

(* n ticks after a, a - b as a signed difference, and a once a tick passed. *)
Later(a, n) == (a + n) % Wrap
Since(a, b) == LET d == (a - b) % Wrap IN IF 2 * d < Wrap THEN d ELSE d - Wrap

Passed(a) == IF a = None THEN None ELSE Later(a, -1)

NewTimers == [timers |-> {}, contexts |-> {}, now |-> 0, window |-> None]

(* compare_timers(): the order of the tree, seen from the time of the last
   run.  Which of two timers for one tick is first depends on addresses. *)
Before(tm, t, u) == Since(t.when, tm.now) < Since(u.when, tm.now)
IsFirst(tm, t) == \A u \in tm.timers : ~Before(tm, u, t)

(* timer_change_notify(): the window timer is set for the next timer, and for
   the next tick if that is past. *)
timer_change_notify(tm, next) ==
    [tm EXCEPT !.window = IF Since(next, 0) <= 0 THEN 1 ELSE next]

(* The tick that schedule_timer() returns: never one before the last run. *)
Scheduled(tm, ticks) == IF Since(ticks, tm.now) <= 0 THEN Later(tm.now, 1) ELSE ticks

(* schedule_timer(): a timer that is in the tree already is not added again,
   and its context is then not added either. *)
SlipScheduleTimer(tm, ticks, ctx) ==
    LET t     == [when |-> Scheduled(tm, ticks), ctx |-> ctx]
        added == [tm EXCEPT !.timers = @ \union {t}]
    IN  IF ~IsFirst(added, t) THEN added
        ELSE timer_change_notify([added EXCEPT !.contexts = @ \union {ctx}], t.when)
schedule_timer(tm, ticks, ctx) ==
    LET t     == [when |-> Scheduled(tm, ticks), ctx |-> ctx]
        added == [tm EXCEPT !.timers = @ \union {t}, !.contexts = @ \union {ctx}]
    IN  IF t \in tm.timers THEN tm
        ELSE IF IsFirst(added, t) THEN timer_change_notify(added, t.when)
        ELSE added

(* expire_timer_context(): its timers stay in the tree. *)
expire_timer_context(tm, ctx) == [tm EXCEPT !.contexts = @ \ {ctx}]

(* run_timers() goes by the tick count if the time it is passed differs from
   it by more than Skew.  It is passed a variable that nothing sets, so the
   two differ by less only when the counter is near zero: at any time here. *)
RunTimes == {Later(0, d) : d \in -Skew .. Skew}

(* The timers that are not of an expired context, and the first of the tree. *)
Active(tm) == {t \in tm.timers : t.ctx \in tm.contexts}
First(tm) == CHOOSE t \in tm.timers : IsFirst(tm, t)

(* run_timers() is done when the tree is empty, or its first timer is active
   and still to come. *)
AllRun(tm) ==
    \/ tm.timers = {}
    \/ First(tm) \in Active(tm) /\ Since(First(tm).when, tm.now) > 0

(* A tick passes. *)
TimersPassed(tm) ==
    [tm EXCEPT !.timers = {[t EXCEPT !.when = Passed(@)] : t \in @},
               !.now = Passed(@), !.window = Passed(@)]

=============================================================================
