------------------------------ MODULE SessionProofs ------------------------------
(***************************************************************************)
(* Proofs about the message loop, the session and its timers, for every    *)
(* length of the delays and of the counter's round, and any timers.        *)
(***************************************************************************)
EXTENDS Session, FiniteSetTheorems, WellFoundedInduction, TLAPS

-----------------------------------------------------------------------------
(* The arithmetic of ticks. *)

(* A number within a round of zero, on either side, as a tick. *)
LEMMA Remainder ==
    ASSUME NEW x \in Int, -Wrap <= x, x < 2 * Wrap
    PROVE  /\ x \in Int /\ x % Wrap \in Ticks
           /\ 0 <= x /\ x < Wrap => x % Wrap = x
           /\ x < 0 => x % Wrap = x + Wrap
           /\ Wrap <= x => x % Wrap = x - Wrap
<1>1. Wrap \in Nat /\ Wrap > 2
  BY TickAssumption
<1>2. ASSUME NEW y \in 0 .. Wrap - 1 PROVE y % Wrap = y
  BY <1>1, <1>2
<1>3. CASE 0 <= x /\ x < Wrap
  BY <1>1, <1>2, <1>3 DEF Ticks
<1>4. CASE x < 0
  BY <1>1, <1>4 DEF Ticks
<1>5. CASE Wrap <= x
  BY <1>1, <1>5 DEF Ticks
<1> QED BY <1>1, <1>3, <1>4, <1>5

(* How far a tick is from the present, in the half round on either side of it. *)
Offset(a) == Since(a, 0)

LEMMA OffsetFacts ==
    ASSUME NEW a \in Ticks
    PROVE  /\ Offset(a) \in Int /\ -Wrap <= 2 * Offset(a) /\ 2 * Offset(a) < Wrap
           /\ a = Offset(a) \/ a = Offset(a) + Wrap
<1>1. Wrap \in Nat /\ Wrap > 2
  BY TickAssumption
<1>2. a \in Int /\ 0 <= a /\ a < Wrap /\ a - 0 = a
  BY <1>1 DEF Ticks
<1>3. a % Wrap = a
  BY <1>1, <1>2, Remainder
<1> QED BY <1>1, <1>2, <1>3 DEF Offset, Since

(* The tick that is some way from the present. *)
LEMMA OffsetOf ==
    ASSUME NEW a \in Ticks, NEW d \in Int, -Wrap <= 2 * d, 2 * d < Wrap,
           a = d \/ a = d + Wrap
    PROVE  Offset(a) = d
<1>1. Wrap \in Nat /\ Wrap > 2 /\ Wrap % 2 = 0
  BY TickAssumption
<1>2. Offset(a) \in Int /\ -Wrap <= 2 * Offset(a) /\ 2 * Offset(a) < Wrap
      /\ (a = Offset(a) \/ a = Offset(a) + Wrap)
  BY OffsetFacts
<1> QED BY <1>1, <1>2

(* The signed difference of two ticks less than half a round apart. *)
LEMMA Difference ==
    ASSUME NEW a \in Ticks, NEW b \in Ticks,
           2 * (Offset(a) - Offset(b)) < Wrap, 2 * (Offset(b) - Offset(a)) < Wrap
    PROVE  Since(a, b) = Offset(a) - Offset(b)
<1> DEFINE d == Offset(a) - Offset(b)
<1>1. Wrap \in Nat /\ Wrap > 2
  BY TickAssumption
<1>2. /\ Offset(a) \in Int /\ (a = Offset(a) \/ a = Offset(a) + Wrap)
      /\ Offset(b) \in Int /\ (b = Offset(b) \/ b = Offset(b) + Wrap)
  BY OffsetFacts
<1>3. /\ d \in Int /\ 2 * d < Wrap /\ -Wrap < 2 * d
      /\ (a - b = d \/ a - b = d + Wrap \/ a - b = d - Wrap)
      /\ a - b \in Int /\ -Wrap < a - b /\ a - b < Wrap
  BY <1>1, <1>2 DEF Ticks
<1>4. (a - b) % Wrap = IF d < 0 THEN d + Wrap ELSE d
  <2>1. CASE 0 <= a - b
    BY <1>1, <1>3, <2>1, Remainder
  <2>2. CASE a - b < 0
    BY <1>1, <1>3, <2>2, Remainder
  <2> QED BY <1>3, <2>1, <2>2
<1> HIDE DEF d
<1>5. Since(a, b) = d
  BY <1>1, <1>3, <1>4 DEF Since
<1> QED BY <1>5 DEF d

(* Some ticks later, and a tick passed. *)
LEMMA LaterOffset ==
    ASSUME NEW a \in Ticks, NEW n \in Int,
           -Wrap <= 2 * (Offset(a) + n), 2 * (Offset(a) + n) < Wrap
    PROVE  Later(a, n) \in Ticks /\ Offset(Later(a, n)) = Offset(a) + n
<1> DEFINE d == Offset(a) + n
<1>1. Wrap \in Nat /\ Wrap > 2
  BY TickAssumption
<1>2. Offset(a) \in Int /\ (a = Offset(a) \/ a = Offset(a) + Wrap)
  BY OffsetFacts
<1>3. /\ d \in Int /\ -Wrap <= 2 * d /\ 2 * d < Wrap
      /\ (a + n = d \/ a + n = d + Wrap)
      /\ a + n \in Int /\ -Wrap <= a + n /\ a + n < 2 * Wrap
  BY <1>1, <1>2
<1>4. Later(a, n) \in Ticks /\ (Later(a, n) = d \/ Later(a, n) = d + Wrap)
  <2>1. PICK e \in Int : e = a + n
    BY <1>3
  <2>2. -Wrap <= e /\ e < 2 * Wrap /\ (e = d \/ e = d + Wrap)
    BY <1>3, <2>1
  <2>3. Later(a, n) = e % Wrap
    BY <2>1 DEF Later
  <2> HIDE DEF d
  <2>4. e % Wrap \in Ticks /\ (e % Wrap = d \/ e % Wrap = d + Wrap)
    <3>1. CASE e < 0
      BY <1>1, <1>3, <2>2, <3>1, Remainder
    <3>2. CASE 0 <= e /\ e < Wrap
      BY <1>1, <1>3, <2>2, <3>2, Remainder
    <3>3. CASE Wrap <= e
      BY <1>1, <1>3, <2>2, <3>3, Remainder
    <3> QED BY <1>1, <2>2, <3>1, <3>2, <3>3
  <2> QED BY <2>3, <2>4
<1> HIDE DEF d
<1>5. Offset(Later(a, n)) = d
  BY <1>3, <1>4, OffsetOf
<1> QED BY <1>4, <1>5 DEF d

LEMMA NumberOffset ==
    ASSUME NEW n \in Nat, 2 * n < Wrap
    PROVE  n \in Ticks /\ Offset(n) = n
<1>1. Wrap \in Nat /\ Wrap > 2
  BY TickAssumption
<1>2. n \in Ticks /\ -Wrap <= 2 * n
  BY <1>1 DEF Ticks
<1> QED BY <1>1, <1>2, OffsetOf

-----------------------------------------------------------------------------
(* Every nonempty set of natural numbers has a least member. *)
LEMMA LeastOf ==
    ASSUME NEW T, T \subseteq Nat, T # {}
    PROVE  \E m \in T : \A k \in T : m <= k
<1> DEFINE R == OpToRel(<, Nat)
<1>1. IsWellFoundedOn(R, Nat)
  BY NatLessThanWellFounded
<1>2. \A a, b \in Nat : a < b => <<a, b>> \in R
  BY DEF OpToRel
<1> HIDE DEF R
<1>3. PICK m \in T : \A k \in T : ~ (<<k, m>> \in R)
  BY <1>1, WFMin
<1>4. ASSUME NEW k \in T PROVE m <= k
  <2>1. m \in Nat /\ k \in Nat /\ ~(k < m)
    BY <1>2, <1>3
  <2> QED BY <2>1
<1> QED BY <1>4

-----------------------------------------------------------------------------
(* The times that timers, the window timer and the last run have.  All of them are
   less than half a round apart, which is what makes the signed differences of
   timing.c an order. *)
Delays == {Interval, Blink, Update}
Edge == Longest + Skew + 1
Near == {a \in Ticks : Offset(a) <= Edge /\ 2 * (Edge - Offset(a)) < Wrap}
Nows == {a \in Near : Offset(a) <= Skew}
Windows == {a \in Near : -MaxLate <= Offset(a)}

LEMMA LongestFacts ==
    /\ Longest \in Nat /\ Edge \in Nat /\ Skew \in Nat /\ MaxLate \in Nat /\ Wrap \in Nat
    /\ Wrap > 2 /\ Skew <= Edge /\ Longest <= Edge
    /\ \A d \in Delays : d \in Nat /\ 0 < d /\ d <= Longest
    /\ 2 * (Edge + MaxLate + 1) < Wrap /\ 2 * (Edge + Skew + 1) < Wrap
<1>1. Delays \subseteq Nat \ {0}
  BY SessionAssumption DEF Delays
<1>2. \E m \in Delays : \A d \in Delays : m >= d
  BY <1>1 DEF Delays
<1>3. Longest \in Delays /\ \A d \in Delays : Longest >= d
  BY <1>2 DEF Longest, Max, Delays
<1>4. Longest \in Nat /\ \A d \in Delays : d \in Nat /\ 0 < d /\ d <= Longest
  BY <1>1, <1>3
<1>5. /\ Skew \in Nat /\ MaxLate \in Nat /\ Wrap \in Nat /\ Wrap > 2
      /\ 2 * (Longest + MaxLate + 2 * Skew + 2) < Wrap
  BY SessionAssumption, TickAssumption
<1> HIDE DEF Delays
<1> QED BY <1>4, <1>5 DEF Edge

(* The order of two such times is that of their distances from the present. *)
LEMMA NearSince ==
    ASSUME NEW a \in Near, NEW b \in Near
    PROVE  /\ Since(a, b) = Offset(a) - Offset(b)
           /\ Offset(a) \in Int /\ Offset(b) \in Int
<1>1. a \in Ticks /\ b \in Ticks /\ Edge \in Nat /\ Wrap \in Nat
  BY LongestFacts DEF Near
<1>2. /\ Offset(a) \in Int /\ Offset(a) <= Edge /\ 2 * (Edge - Offset(a)) < Wrap
      /\ Offset(b) \in Int /\ Offset(b) <= Edge /\ 2 * (Edge - Offset(b)) < Wrap
  BY <1>1, OffsetFacts DEF Near
<1>3. 2 * (Offset(a) - Offset(b)) < Wrap /\ 2 * (Offset(b) - Offset(a)) < Wrap
  BY <1>1, <1>2
<1> QED BY <1>1, <1>2, <1>3, Difference

LEMMA NearFacts ==
    ASSUME NEW a \in Near
    PROVE  /\ Offset(a) \in Int /\ a \in Ticks /\ a # None
           /\ Offset(a) <= Edge /\ 2 * (Edge - Offset(a)) < Wrap
<1>1. a \in Ticks /\ Offset(a) <= Edge /\ 2 * (Edge - Offset(a)) < Wrap
  BY DEF Near
<1> QED BY <1>1, OffsetFacts, LongestFacts DEF Ticks, None

(* The present, and times not far ahead of it, are among them. *)
LEMMA NumberNear ==
    ASSUME NEW n \in Nat, n <= Edge
    PROVE  n \in Near /\ n \in Windows /\ Offset(n) = n
<1>1. 2 * n < Wrap /\ 2 * (Edge - n) < Wrap /\ -MaxLate <= n
  BY LongestFacts
<1>2. n \in Ticks /\ Offset(n) = n
  BY <1>1, NumberOffset
<1> QED BY <1>1, <1>2 DEF Near, Windows

-----------------------------------------------------------------------------
(* The operators of timing.c. *)

Timers == [timers : SUBSET [when : Near, ctx : Nat], contexts : SUBSET Nat,
           now : Nows, window : Windows \union {None}]
TimersType(tm) == tm \in Timers /\ IsFiniteSet(tm.timers)

(* After a run, no timer that is left is due ... *)
ToCome(tm) == \A t \in tm.timers : Offset(t.when) > Offset(tm.now)

(* ... and the window timer is set for none later than the first, expired or not. *)
InTime(tm) ==
    \A t \in tm.timers :
        /\ tm.window # None
        /\ Offset(tm.window) <= Offset(t.when) \/ Offset(tm.window) <= 1

LEMMA TimerFacts ==
    ASSUME NEW tm \in Timers
    PROVE  /\ tm.now \in Near /\ tm.now \in Nows /\ Offset(tm.now) <= Skew
           /\ Offset(tm.now) \in Int
           /\ tm.window \in Windows \union {None} /\ tm.contexts \subseteq Nat
           /\ tm.timers \subseteq [when : Near, ctx : Nat]
           /\ \A t \in tm.timers : t.when \in Near /\ t.ctx \in Nat /\ Offset(t.when) \in Int
<1>1. tm.now \in Nows /\ tm.now \in Near /\ Offset(tm.now) <= Skew
  BY DEF Timers, Nows
<1>2. /\ tm.window \in Windows \union {None} /\ tm.contexts \subseteq Nat
      /\ tm.timers \subseteq [when : Near, ctx : Nat]
  BY DEF Timers
<1>3. \A t \in tm.timers : t.when \in Near /\ t.ctx \in Nat
  BY <1>2
<1> QED BY <1>1, <1>2, <1>3, NearFacts

(* The time that schedule_timer() sets is to come, and no sooner than asked for. *)
LEMMA ScheduledFacts ==
    ASSUME NEW tm \in Timers, NEW d \in Delays
    PROVE  /\ Scheduled(tm, d) \in Near
           /\ Offset(Scheduled(tm, d)) \in Int
           /\ Offset(Scheduled(tm, d)) > Offset(tm.now)
           /\ Offset(Scheduled(tm, d)) >= d
<1>1. tm.now \in Near /\ Offset(tm.now) <= Skew /\ Offset(tm.now) \in Int
  BY TimerFacts
<1>2. d \in Nat /\ 0 < d /\ d <= Edge
  BY LongestFacts
<1>3. d \in Near /\ Offset(d) = d
  BY <1>2, NumberNear
<1>4. Since(d, tm.now) = d - Offset(tm.now)
  BY <1>1, <1>3, NearSince
<1>5. CASE Since(d, tm.now) <= 0
  <2>1. PICK one \in Int : one = 1
    OBVIOUS
  <2>2. /\ tm.now \in Ticks /\ Offset(tm.now) <= Edge
        /\ 2 * (Edge - Offset(tm.now)) < Wrap
    BY <1>1, NearFacts
  <2>3. -Wrap <= 2 * (Offset(tm.now) + one) /\ 2 * (Offset(tm.now) + one) < Wrap
    BY <1>1, <2>1, <2>2, LongestFacts
  <2>4. Later(tm.now, one) \in Ticks /\ Offset(Later(tm.now, one)) = Offset(tm.now) + 1
    BY <2>1, <2>2, <2>3, LaterOffset
  <2>5. Scheduled(tm, d) = Later(tm.now, one)
    BY <1>5, <2>1 DEF Scheduled
  <2>6. Offset(tm.now) + 1 <= Edge /\ 2 * (Edge - (Offset(tm.now) + 1)) < Wrap
    BY <1>1, <2>2, LongestFacts DEF Edge
  <2>7. Scheduled(tm, d) \in Near
    BY <2>4, <2>5, <2>6 DEF Near
  <2>8. d - Offset(tm.now) <= 0
    BY <1>4, <1>5
  <2> QED BY <1>1, <1>2, <2>4, <2>5, <2>7, <2>8
<1>6. CASE ~(Since(d, tm.now) <= 0)
  <2>1. Scheduled(tm, d) = d
    BY <1>6 DEF Scheduled
  <2>2. d > Offset(tm.now)
    BY <1>1, <1>2, <1>4, <1>6
  <2> QED BY <1>2, <1>3, <2>1, <2>2
<1> QED BY <1>5, <1>6

(* timer_change_notify() sets the window timer for the time it is given, or for the
   next tick. *)
LEMMA NotifyFacts ==
    ASSUME NEW tm \in Timers, NEW next \in Near
    PROVE  /\ timer_change_notify(tm, next) \in Timers
           /\ timer_change_notify(tm, next).timers = tm.timers
           /\ timer_change_notify(tm, next).contexts = tm.contexts
           /\ timer_change_notify(tm, next).now = tm.now
           /\ timer_change_notify(tm, next).window # None
           /\ \/ Offset(timer_change_notify(tm, next).window) = Offset(next)
              \/ Offset(timer_change_notify(tm, next).window) = 1
<1>1. PICK one \in Nat : one = 1
  OBVIOUS
<1>2. one <= Edge
  BY <1>1, LongestFacts DEF Edge
<1>3. one \in Windows /\ Offset(one) = one
  BY <1>1, <1>2, NumberNear
<1>4. Offset(next) > 0 => next \in Windows
  BY NearFacts, LongestFacts DEF Windows
<1>5. PICK x \in Windows : /\ timer_change_notify(tm, next) = [tm EXCEPT !.window = x]
                           /\ x = next \/ x = one
  <2>1. CASE Offset(next) <= 0
    BY <1>1, <1>3, <2>1 DEF timer_change_notify, Offset
  <2>2. CASE ~(Offset(next) <= 0)
    BY <1>4, <2>2, NearFacts DEF timer_change_notify, Offset
  <2> QED BY <2>1, <2>2
<1>6. x # None
  BY NearFacts DEF Windows
<1>7. Offset(x) = Offset(next) \/ Offset(x) = 1
  BY <1>1, <1>3, <1>5
<1>8. /\ [tm EXCEPT !.window = x] \in Timers
      /\ [tm EXCEPT !.window = x].timers = tm.timers
      /\ [tm EXCEPT !.window = x].contexts = tm.contexts
      /\ [tm EXCEPT !.window = x].now = tm.now
      /\ [tm EXCEPT !.window = x].window = x
  BY DEF Timers
<1> QED BY <1>5, <1>6, <1>7, <1>8

(* The first timer of the tree. *)
LEMMA FirstFacts ==
    ASSUME NEW tm \in Timers, tm.timers # {}
    PROVE  /\ First(tm) \in tm.timers
           /\ \A u \in tm.timers : Offset(First(tm).when) <= Offset(u.when)
<1> DEFINE T == {Offset(t.when) + Wrap : t \in tm.timers}
<1>1. ASSUME NEW t \in tm.timers PROVE Offset(t.when) + Wrap \in Nat
  <2>1. /\ Offset(t.when) \in Int /\ 2 * (Edge - Offset(t.when)) < Wrap
    BY TimerFacts, NearFacts
  <2> QED BY <2>1, LongestFacts
<1>2. T \subseteq Nat /\ T # {}
  BY <1>1
<1>3. PICK m \in T : \A k \in T : m <= k
  <2> HIDE DEF T
  <2> QED BY <1>2, LeastOf
<1>4. PICK t \in tm.timers : m = Offset(t.when) + Wrap
  OBVIOUS
<1>5. \A a, u \in tm.timers :
         Before(tm, u, a) <=> Offset(u.when) < Offset(a.when)
  <2>1. SUFFICES ASSUME NEW a \in tm.timers, NEW u \in tm.timers
                 PROVE  Before(tm, u, a) <=> Offset(u.when) < Offset(a.when)
    OBVIOUS
  <2>2. /\ Since(u.when, tm.now) = Offset(u.when) - Offset(tm.now)
        /\ Since(a.when, tm.now) = Offset(a.when) - Offset(tm.now)
        /\ Offset(u.when) \in Int /\ Offset(a.when) \in Int /\ Offset(tm.now) \in Int
    BY TimerFacts, NearSince
  <2> QED BY <2>2 DEF Before
<1>6. ASSUME NEW u \in tm.timers PROVE ~Before(tm, u, t)
  <2>1. Offset(t.when) + Wrap <= Offset(u.when) + Wrap
    BY <1>3, <1>4
  <2>2. Offset(t.when) \in Int /\ Offset(u.when) \in Int /\ Wrap \in Nat
    BY TimerFacts, LongestFacts
  <2> QED BY <1>5, <2>1, <2>2
<1>7. IsFirst(tm, t)
  BY <1>6 DEF IsFirst
<1>8. First(tm) \in tm.timers /\ IsFirst(tm, First(tm))
  BY <1>7 DEF First
<1> HIDE DEF T
<1>9. ASSUME NEW u \in tm.timers PROVE Offset(First(tm).when) <= Offset(u.when)
  <2>1. ~Before(tm, u, First(tm))
    BY <1>8 DEF IsFirst
  <2>2. Offset(First(tm).when) \in Int /\ Offset(u.when) \in Int
    BY <1>8, TimerFacts
  <2> QED BY <1>5, <1>8, <2>1, <2>2
<1> QED BY <1>8, <1>9

(* s is tm with the timer t in its tree. *)
WithTimer(s, tm, t) ==
    /\ TimersType(s) /\ s.now = tm.now /\ s.timers = tm.timers \union {t}
    /\ s.contexts = IF t \in tm.timers THEN tm.contexts ELSE tm.contexts \union {t.ctx}
    /\ InTime(tm) => InTime(s)

Added(tm, t) == [tm EXCEPT !.timers = @ \union {t}, !.contexts = @ \union {t.ctx}]

LEMMA AddFacts ==
    ASSUME NEW tm \in Timers, IsFiniteSet(tm.timers), NEW t \in [when : Near, ctx : Nat]
    PROVE  /\ Added(tm, t) \in Timers /\ IsFiniteSet(Added(tm, t).timers)
           /\ Added(tm, t).now = tm.now /\ Added(tm, t).window = tm.window
           /\ Added(tm, t).timers = tm.timers \union {t}
           /\ Added(tm, t).contexts = tm.contexts \union {t.ctx}
<1>1. /\ tm.timers \union {t} \subseteq [when : Near, ctx : Nat]
      /\ tm.contexts \union {t.ctx} \subseteq Nat
  BY DEF Timers
<1>2. PICK T \in SUBSET [when : Near, ctx : Nat] : T = tm.timers \union {t}
  BY <1>1
<1>3. PICK C \in SUBSET Nat : C = tm.contexts \union {t.ctx}
  BY <1>1
<1>4. PICK s : s = Added(tm, t) /\ s = [tm EXCEPT !.timers = T, !.contexts = C]
  BY <1>2, <1>3 DEF Added
<1>5. /\ s \in Timers /\ s.now = tm.now /\ s.window = tm.window
      /\ s.timers = T /\ s.contexts = C
  BY <1>4 DEF Timers
<1>6. IsFiniteSet(T)
  BY <1>2, FS_AddElement
<1> QED BY <1>2, <1>3, <1>4, <1>5, <1>6

(* schedule_timer() adds a timer that is to come, and the window timer is set for it
   if it is the first: one that is later than a timer in the tree is later than what
   the window timer is set for. *)
LEMMA ScheduleFacts ==
    ASSUME NEW tm, TimersType(tm), NEW d \in Delays, NEW ctx \in Nat
    PROVE  WithTimer(schedule_timer(tm, d, ctx), tm,
                     [when |-> Scheduled(tm, d), ctx |-> ctx])
<1> DEFINE t == [when |-> Scheduled(tm, d), ctx |-> ctx]
           added == Added(tm, t)
           s == schedule_timer(tm, d, ctx)
<1>1. tm \in Timers /\ IsFiniteSet(tm.timers)
  BY DEF TimersType
<1>2. t \in [when : Near, ctx : Nat] /\ t.when = Scheduled(tm, d) /\ t.ctx = ctx
  BY <1>1, ScheduledFacts
<1>3. s = IF t \in tm.timers THEN tm
          ELSE IF IsFirst(added, t) THEN timer_change_notify(added, t.when)
          ELSE added
  BY DEF schedule_timer, Added
<1> HIDE DEF t, s
<1>4. /\ added \in Timers /\ IsFiniteSet(added.timers)
      /\ added.now = tm.now /\ added.window = tm.window
      /\ added.timers = tm.timers \union {t} /\ added.contexts = tm.contexts \union {t.ctx}
  BY <1>1, <1>2, AddFacts
<1>5. CASE t \in tm.timers
  <2>1. s = tm /\ tm.timers \union {t} = tm.timers
    BY <1>3, <1>5
  <2> QED BY <1>1, <1>5, <2>1 DEF WithTimer, TimersType, t, s
<1> HIDE DEF added
<1>6. CASE t \notin tm.timers /\ IsFirst(added, t)
  <2>1. s = timer_change_notify(added, t.when) /\ t.when \in Near
    BY <1>2, <1>3, <1>6
  <2>2. /\ s \in Timers /\ s.timers = added.timers /\ s.contexts = added.contexts
        /\ s.now = added.now /\ s.window # None
        /\ Offset(s.window) = Offset(t.when) \/ Offset(s.window) = 1
    BY <1>4, <2>1, NotifyFacts
  <2>3. ASSUME NEW u \in s.timers PROVE Offset(t.when) <= Offset(u.when)
    <3>1. u \in added.timers /\ t \in added.timers /\ ~Before(added, u, t)
      BY <1>4, <1>6, <2>2, <2>3 DEF IsFirst
    <3>2. /\ Since(u.when, added.now) = Offset(u.when) - Offset(added.now)
          /\ Since(t.when, added.now) = Offset(t.when) - Offset(added.now)
          /\ Offset(u.when) \in Int /\ Offset(t.when) \in Int /\ Offset(added.now) \in Int
      BY <1>4, <3>1, TimerFacts, NearSince
    <3> QED BY <3>1, <3>2 DEF Before
  <2>4. ASSUME NEW u \in s.timers
        PROVE  Offset(s.window) <= Offset(u.when) \/ Offset(s.window) <= 1
    <3>1. Offset(t.when) <= Offset(u.when) /\ Offset(t.when) \in Int /\ Offset(u.when) \in Int
      BY <1>2, <1>4, <2>2, <2>3, TimerFacts, NearFacts
    <3> QED BY <2>2, <3>1
  <2>5. InTime(s)
    BY <2>2, <2>4 DEF InTime
  <2>6. /\ TimersType(s) /\ s.now = tm.now /\ s.timers = tm.timers \union {t}
        /\ s.contexts = tm.contexts \union {t.ctx}
    BY <1>4, <2>2 DEF TimersType
  <2>7. WithTimer(s, tm, t)
    BY <1>6, <2>5, <2>6 DEF WithTimer
  <2> QED BY <2>7 DEF s, t
<1>7. CASE t \notin tm.timers /\ ~IsFirst(added, t)
  <2>1. s = added
    BY <1>3, <1>7
  <2>2. PICK u \in added.timers : Before(added, u, t)
    BY <1>7 DEF IsFirst
  <2>3. t \in added.timers
    BY <1>4
  <2>4. /\ Since(u.when, added.now) = Offset(u.when) - Offset(added.now)
        /\ Since(t.when, added.now) = Offset(t.when) - Offset(added.now)
        /\ Offset(u.when) \in Int /\ Offset(t.when) \in Int /\ Offset(added.now) \in Int
    BY <1>4, <2>2, <2>3, TimerFacts, NearSince
  <2>5. Offset(u.when) < Offset(t.when)
    BY <2>2, <2>4 DEF Before
  <2>6. u \in tm.timers
    BY <1>4, <2>2, <2>4, <2>5
  <2>7. ASSUME InTime(tm) PROVE InTime(added)
    <3>1. /\ tm.window # None
          /\ Offset(tm.window) <= Offset(u.when) \/ Offset(tm.window) <= 1
      BY <2>6, <2>7 DEF InTime
    <3>2. Offset(tm.window) \in Int
      BY <1>1, <3>1, TimerFacts, NearFacts DEF Windows
    <3>3. Offset(tm.window) <= Offset(t.when) \/ Offset(tm.window) <= 1
      BY <2>4, <2>5, <3>1, <3>2
    <3>4. ASSUME NEW v \in added.timers
          PROVE  Offset(tm.window) <= Offset(v.when) \/ Offset(tm.window) <= 1
      BY <1>4, <2>7, <3>3, <3>4 DEF InTime
    <3> QED BY <1>4, <3>1, <3>4 DEF InTime
  <2>8. WithTimer(added, tm, t)
    BY <1>4, <1>7, <2>7 DEF WithTimer, TimersType
  <2> QED BY <2>1, <2>8 DEF s, t
<1> QED BY <1>5, <1>6, <1>7

LEMMA RemoveFacts ==
    ASSUME NEW tm, TimersType(tm), NEW t
    PROVE  /\ TimersType([tm EXCEPT !.timers = @ \ {t}])
           /\ [tm EXCEPT !.timers = @ \ {t}].timers = tm.timers \ {t}
           /\ [tm EXCEPT !.timers = @ \ {t}].contexts = tm.contexts
           /\ [tm EXCEPT !.timers = @ \ {t}].now = tm.now
<1>1. PICK T \in SUBSET [when : Near, ctx : Nat] : T = tm.timers \ {t}
  BY DEF TimersType, Timers
<1>2. IsFiniteSet(T)
  BY <1>1, FS_RemoveElement DEF TimersType
<1>3. /\ [tm EXCEPT !.timers = T] \in Timers /\ [tm EXCEPT !.timers = T].timers = T
      /\ [tm EXCEPT !.timers = T].contexts = tm.contexts
      /\ [tm EXCEPT !.timers = T].now = tm.now
  BY DEF TimersType, Timers
<1> QED BY <1>1, <1>2, <1>3 DEF TimersType

(* When run_timers() is done, all that is left is to come; while it is not, the first
   timer is expired or due. *)
LEMMA AllRunFacts ==
    ASSUME NEW tm, TimersType(tm)
    PROVE  /\ AllRun(tm) => ToCome(tm)
           /\ ~AllRun(tm) => /\ tm.timers # {} /\ First(tm) \in tm.timers
                             /\ \/ First(tm).ctx \notin tm.contexts
                                \/ Offset(First(tm).when) <= Offset(tm.now)
<1>1. CASE tm.timers = {}
  BY <1>1 DEF AllRun, ToCome
<1>2. CASE tm.timers # {}
  <2>1. /\ tm \in Timers /\ First(tm) \in tm.timers
        /\ \A u \in tm.timers : Offset(First(tm).when) <= Offset(u.when)
    BY <1>2, FirstFacts DEF TimersType
  <2>2. /\ Since(First(tm).when, tm.now) = Offset(First(tm).when) - Offset(tm.now)
        /\ Offset(First(tm).when) \in Int /\ Offset(tm.now) \in Int
        /\ \A u \in tm.timers : Offset(u.when) \in Int
    BY <2>1, TimerFacts, NearSince
  <2>3. ASSUME AllRun(tm) PROVE ToCome(tm)
    <3>1. Offset(First(tm).when) > Offset(tm.now)
      BY <1>2, <2>2, <2>3 DEF AllRun
    <3> QED BY <2>1, <2>2, <3>1 DEF ToCome
  <2>4. ASSUME ~AllRun(tm), First(tm).ctx \in tm.contexts
        PROVE  Offset(First(tm).when) <= Offset(tm.now)
    <3>1. ~(Since(First(tm).when, tm.now) > 0)
      BY <2>1, <2>4 DEF AllRun, Active
    <3> QED BY <2>2, <3>1
  <2> QED BY <1>2, <2>1, <2>3, <2>4
<1> QED BY <1>1, <1>2

(* OnTimer() sets the window timer again for all that is left. *)
LEMMA RearmFacts ==
    ASSUME NEW tm, TimersType(tm), tm.timers # {}, ToCome(tm),
           NEW s, s = timer_change_notify(tm, First(tm).when)
    PROVE  /\ TimersType(s) /\ ToCome(s) /\ InTime(s)
           /\ s.timers = tm.timers /\ s.contexts = tm.contexts /\ s.now = tm.now
<1>1. /\ tm \in Timers /\ First(tm) \in tm.timers
      /\ \A u \in tm.timers : Offset(First(tm).when) <= Offset(u.when)
  BY FirstFacts DEF TimersType
<1>2. PICK when \in Near : when = First(tm).when /\ Offset(when) \in Int
  BY <1>1, TimerFacts
<1>3. /\ s \in Timers /\ s.timers = tm.timers /\ s.contexts = tm.contexts
      /\ s.now = tm.now /\ s.window # None
      /\ Offset(s.window) = Offset(when) \/ Offset(s.window) = 1
  <2>1. s = timer_change_notify(tm, when)
    BY <1>2
  <2> QED BY <1>1, <2>1, NotifyFacts
<1>4. InTime(s)
  <2>1. ASSUME NEW u \in s.timers
        PROVE  Offset(s.window) <= Offset(u.when) \/ Offset(s.window) <= 1
    <3>1. Offset(when) <= Offset(u.when) /\ Offset(u.when) \in Int
      BY <1>1, <1>2, <1>3, TimerFacts
    <3> QED BY <1>2, <1>3, <3>1
  <2> QED BY <1>3, <2>1 DEF InTime
<1> QED BY <1>3, <1>4 DEF TimersType, ToCome

(* A tick passes: all times move back by one, and none is so old that its difference
   from another would change its sign. *)
LEMMA PassedFacts ==
    ASSUME NEW a \in Near, 2 * (Edge + 1 - Offset(a)) < Wrap
    PROVE  Passed(a) \in Near /\ Offset(Passed(a)) = Offset(a) - 1
<1>1. /\ a \in Ticks /\ a # None /\ Offset(a) \in Int /\ Offset(a) <= Edge
      /\ Edge \in Nat /\ Wrap \in Nat /\ 2 * Edge < Wrap
  BY NearFacts, LongestFacts
<1>2. PICK back \in Int : back = -1
  OBVIOUS
<1>3. -Wrap <= 2 * (Offset(a) + back) /\ 2 * (Offset(a) + back) < Wrap
  BY <1>1, <1>2
<1>4. Later(a, back) \in Ticks /\ Offset(Later(a, back)) = Offset(a) + back
  BY <1>1, <1>3, LaterOffset
<1>5. Passed(a) = Later(a, back)
  BY <1>1, <1>2 DEF Passed
<1>6. Passed(a) \in Ticks /\ Offset(Passed(a)) = Offset(a) - 1
  BY <1>1, <1>2, <1>4, <1>5
<1>7. Offset(a) - 1 <= Edge /\ 2 * (Edge - (Offset(a) - 1)) < Wrap
  BY <1>1
<1> QED BY <1>6, <1>7 DEF Near

Moved(t) == [t EXCEPT !.when = Passed(@)]

LEMMA MovedFacts ==
    ASSUME NEW tm \in Timers, ToCome(tm), NEW t \in tm.timers,
           2 * (Edge + 1 - Offset(tm.now)) < Wrap
    PROVE  /\ Moved(t) \in [when : Near, ctx : Nat]
           /\ Moved(t).when = Passed(t.when) /\ Moved(t).ctx = t.ctx
           /\ Offset(Passed(t.when)) = Offset(t.when) - 1
<1>1. /\ t.when \in Near /\ Offset(t.when) \in Int /\ Offset(tm.now) \in Int
      /\ Offset(t.when) > Offset(tm.now) /\ t \in [when : Near, ctx : Nat]
  BY TimerFacts DEF ToCome
<1>2. 2 * (Edge + 1 - Offset(t.when)) < Wrap
  BY <1>1, LongestFacts
<1>3. Passed(t.when) \in Near /\ Offset(Passed(t.when)) = Offset(t.when) - 1
  BY <1>1, <1>2, PassedFacts
<1> QED BY <1>1, <1>3 DEF Moved

LEMMA TimersPassedFacts ==
    ASSUME NEW tm, TimersType(tm), ToCome(tm), InTime(tm),
           tm.window = None \/ -Since(tm.window, 0) < MaxLate,
           2 * (Edge + 1 - Offset(tm.now)) < Wrap,
           NEW s, s = TimersPassed(tm)
    PROVE  /\ TimersType(s) /\ ToCome(s) /\ InTime(s)
           /\ s.timers = {Moved(t) : t \in tm.timers} /\ s.contexts = tm.contexts
<1> DEFINE M == {Moved(t) : t \in tm.timers}
           mv == [t \in tm.timers |-> Moved(t)]
<1>1. tm \in Timers /\ IsFiniteSet(tm.timers)
  BY DEF TimersType
<1>2. \A t \in tm.timers : /\ Moved(t) \in [when : Near, ctx : Nat]
                           /\ Moved(t).when = Passed(t.when) /\ Moved(t).ctx = t.ctx
                           /\ Offset(Passed(t.when)) = Offset(t.when) - 1
                           /\ Offset(t.when) \in Int /\ Offset(t.when) > Offset(tm.now)
  BY <1>1, MovedFacts, TimerFacts DEF ToCome
<1>3. IsFiniteSet(M)
  <2>1. mv \in Surjection(tm.timers, M)
    BY DEF Surjection
  <2> QED BY <1>1, <2>1, FS_Surjection
<1>4. PICK now \in Nows : now = Passed(tm.now) /\ Offset(now) = Offset(tm.now) - 1
                          /\ Offset(tm.now) \in Int
  <2>1. tm.now \in Near /\ Offset(tm.now) <= Skew /\ Offset(tm.now) \in Int
    BY <1>1, TimerFacts
  <2>2. Passed(tm.now) \in Near /\ Offset(Passed(tm.now)) = Offset(tm.now) - 1
    BY <2>1, PassedFacts
  <2> QED BY <2>1, <2>2, LongestFacts DEF Nows
<1>5. PICK window \in Windows \union {None} :
         /\ window = Passed(tm.window)
         /\ tm.window = None <=> window = None
         /\ tm.window # None => /\ Offset(window) = Offset(tm.window) - 1
                                /\ Offset(tm.window) \in Int
  <2>1. CASE tm.window = None
    BY <2>1 DEF Passed
  <2>2. CASE tm.window # None
    <3>1. /\ tm.window \in Near /\ Offset(tm.window) \in Int
          /\ -Offset(tm.window) < MaxLate
      BY <1>1, <2>2, TimerFacts, NearFacts DEF Windows, Offset
    <3>2. 2 * (Edge + 1 - Offset(tm.window)) < Wrap
      BY <3>1, LongestFacts
    <3>3. Passed(tm.window) \in Near /\ Offset(Passed(tm.window)) = Offset(tm.window) - 1
      BY <3>1, <3>2, PassedFacts
    <3>4. Passed(tm.window) \in Windows /\ Passed(tm.window) # None
      BY <3>1, <3>3, LongestFacts, NearFacts DEF Windows
    <3> QED BY <2>2, <3>1, <3>3, <3>4
  <2> QED BY <2>1, <2>2
<1> HIDE DEF M, mv
<1>6. M \subseteq [when : Near, ctx : Nat]
  BY <1>2 DEF M
<1>7. s = [tm EXCEPT !.timers = M, !.now = now, !.window = window]
  BY <1>4, <1>5 DEF TimersPassed, Moved, M
<1>8. /\ s \in Timers /\ s.timers = M /\ s.contexts = tm.contexts
      /\ s.now = now /\ s.window = window
  BY <1>1, <1>6, <1>7 DEF Timers
<1>9. ToCome(s)
  BY <1>2, <1>4, <1>8 DEF ToCome, M
<1>10. InTime(s)
  <2>1. SUFFICES ASSUME NEW u \in M
                 PROVE  /\ window # None
                        /\ Offset(window) <= Offset(u.when) \/ Offset(window) <= 1
    BY <1>8 DEF InTime
  <2>2. PICK t \in tm.timers : u = Moved(t)
    BY DEF M
  <2>3. /\ tm.window # None
        /\ Offset(tm.window) <= Offset(t.when) \/ Offset(tm.window) <= 1
    BY DEF InTime
  <2> QED BY <1>2, <1>5, <2>2, <2>3
<1> QED BY <1>3, <1>8, <1>9, <1>10 DEF TimersType, M

-----------------------------------------------------------------------------
(* The program. *)

Times == Ticks \union {None}
Sockets == [open : BOOLEAN, connected : BOOLEAN, error : BOOLEAN, unread : BOOLEAN,
            fin : BOOLEAN, dead : BOOLEAN, armed : BOOLEAN, blocked : BOOLEAN,
            told : BOOLEAN]
Pingers == [live : BOOLEAN, addr : Nat, pending : BOOLEAN, next : Times]
Terminals == [update_pending : BOOLEAN, next_update : Times,
              cblink_pending : BOOLEAN, next_cblink : Times, has_focus : BOOLEAN]
Messages == NetEvents \union {"inactive", "restart", "exit"}
Boxes == NetEvents \union {NoBox, EndOfLoop}
Programs == [tm : Timers, term : Terminals, pinger : Pingers, sock : Sockets,
             back : BOOLEAN, must_close : BOOLEAN, closed : BOOLEAN,
             pending : NetEvents \union {"none"}, box : Boxes, beeps : BOOLEAN,
             queue : Seq(Messages), awake : BOOLEAN, quit : BOOLEAN, over : BOOLEAN,
             ends : Nat, pings : BOOLEAN, stray : BOOLEAN]

(* The contexts that timers may run in are the terminal's and the pinger's ... *)
ContextsLive(p) ==
    /\ \A c \in p.tm.contexts : c = Term \/ (p.pinger.live /\ c = p.pinger.addr)
    /\ \A t \in p.tm.timers : t.ctx = Term => Term \in p.tm.contexts
    /\ p.pinger.live => p.pinger.addr # Term
    /\ ~p.stray

(* ... what the terminal waits for has a timer ... *)
TermWaits(p) ==
    /\ IF p.term.update_pending
       THEN [when |-> p.term.next_update, ctx |-> Term] \in p.tm.timers
       ELSE p.term.next_update = None
    /\ IF p.term.cblink_pending
       THEN [when |-> p.term.next_cblink, ctx |-> Term] \in p.tm.timers
       ELSE p.term.next_cblink = None

(* ... and the next keepalive has one, unless its address was reused in the tick in
   which the last pinger there had set a timer: schedule_timer() then adds no context. *)
PingWaits(p) ==
    /\ ~p.pinger.pending => p.pinger.next = None
    /\ p.pinger.pending => p.pinger.live
    /\ p.pinger.pending /\ p.pinger.addr \in p.tm.contexts =>
         [when |-> p.pinger.next, ctx |-> p.pinger.addr] \in p.tm.timers
    /\ p.pinger.pending /\ ~SameTick => p.pinger.addr \in p.tm.contexts

(* The books that timing.c, the terminal and the pinger keep, at any time. *)
Books(p) ==
    /\ p \in Programs /\ IsFiniteSet(p.tm.timers)
    /\ ContextsLive(p) /\ TermWaits(p) /\ PingWaits(p)

(* s has the timers of tm, and others that are to come. *)
Grown(s, tm) ==
    /\ s.now = tm.now /\ tm.contexts \subseteq s.contexts
    /\ \A u \in s.timers : \/ u \in tm.timers
                           \/ u.ctx \in s.contexts /\ Offset(u.when) > Offset(s.now)
    /\ ToCome(tm) => ToCome(s)
    /\ InTime(tm) => InTime(s)

(* A terminal that has set a timer for d. *)
LEMMA TermTimerFacts ==
    ASSUME NEW p, Books(p), NEW d \in Delays,
           NEW s, s = schedule_timer(p.tm, d, Term)
    PROVE  /\ TimersType(s) /\ Grown(s, p.tm) /\ p.tm.timers \subseteq s.timers
           /\ [when |-> Scheduled(p.tm, d), ctx |-> Term] \in s.timers
           /\ s.contexts = p.tm.contexts \union {Term}
           /\ Scheduled(p.tm, d) \in Times
<1>1. PICK ctx \in Nat : ctx = Term
  BY DEF Term
<1>2. p.tm \in Timers /\ TimersType(p.tm)
  BY DEF Books, Programs, TimersType
<1> DEFINE t == [when |-> Scheduled(p.tm, d), ctx |-> ctx]
<1>3. WithTimer(s, p.tm, t)
  BY <1>1, <1>2, ScheduleFacts
<1>4. /\ Scheduled(p.tm, d) \in Near /\ Offset(Scheduled(p.tm, d)) > Offset(p.tm.now)
      /\ Scheduled(p.tm, d) \in Times
  BY <1>2, ScheduledFacts, NearFacts DEF Times
<1>5. t.when = Scheduled(p.tm, d) /\ t.ctx = ctx
  OBVIOUS
<1> HIDE DEF t
<1>6. /\ TimersType(s) /\ s.now = p.tm.now /\ s.timers = p.tm.timers \union {t}
      /\ s.contexts = IF t \in p.tm.timers THEN p.tm.contexts
                      ELSE p.tm.contexts \union {ctx}
      /\ InTime(p.tm) => InTime(s)
  BY <1>3, <1>5 DEF WithTimer
<1>7. s.contexts = p.tm.contexts \union {ctx}
  BY <1>1, <1>5, <1>6 DEF Books, ContextsLive
<1>8. Grown(s, p.tm)
  <2>1. \A u \in s.timers : \/ u \in p.tm.timers
                            \/ u.ctx \in s.contexts /\ Offset(u.when) > Offset(s.now)
    BY <1>4, <1>5, <1>6, <1>7
  <2>2. ToCome(p.tm) => ToCome(s)
    BY <1>4, <1>5, <1>6 DEF ToCome
  <2> QED BY <1>6, <1>7, <2>1, <2>2 DEF Grown
<1>9. t \in s.timers /\ p.tm.timers \subseteq s.timers
  BY <1>6
<1> QED BY <1>1, <1>4, <1>6, <1>7, <1>8, <1>9 DEF t

(* p with other timers and another terminal. *)
Retimed(p, s, x) == [p EXCEPT !.tm = s, !.term = x]

LEMMA RetimedType ==
    ASSUME NEW p \in Programs, NEW s \in Timers, NEW x \in Terminals
    PROVE  /\ Retimed(p, s, x) \in Programs
           /\ Retimed(p, s, x).tm = s /\ Retimed(p, s, x).term = x
           /\ Retimed(p, s, x).pinger = p.pinger /\ Retimed(p, s, x).stray = p.stray
BY DEF Retimed, Programs

LEMMA RetimedAgain ==
    ASSUME NEW p \in Programs, NEW s, NEW x, NEW y
    PROVE  [Retimed(p, s, y) EXCEPT !.term = x] = Retimed(p, s, x)
BY DEF Retimed, Programs

LEMMA RetimedBooks ==
    ASSUME NEW p, Books(p), NEW s, TimersType(s), NEW x \in Terminals,
           Grown(s, p.tm), p.tm.timers \subseteq s.timers,
           s.contexts \subseteq p.tm.contexts \union {Term},
           TermWaits(Retimed(p, s, x))
    PROVE  Books(Retimed(p, s, x))
<1> DEFINE q == Retimed(p, s, x)
<1>1. /\ q \in Programs /\ q.tm = s /\ q.term = x /\ IsFiniteSet(s.timers)
      /\ q.pinger = p.pinger /\ q.stray = p.stray
  BY RetimedType DEF Books, TimersType
<1> HIDE DEF q
<1>2. ContextsLive(q)
  <2>1. \A t \in s.timers : t.ctx = Term => Term \in s.contexts
    BY DEF Books, ContextsLive, Grown
  <2> QED BY <1>1, <2>1 DEF Books, ContextsLive
<1>3. PingWaits(q)
  <2>1. p.pinger.addr \in s.contexts /\ p.pinger.pending => p.pinger.addr \in p.tm.contexts
    BY DEF Books, ContextsLive, PingWaits
  <2>2. p.tm.contexts \subseteq s.contexts
    BY DEF Grown
  <2> QED BY <1>1, <2>1, <2>2 DEF Books, PingWaits
<1>4. TermWaits(q)
  BY DEF q
<1>5. Books(q)
  BY <1>1, <1>2, <1>3, <1>4 DEF Books
<1> QED BY <1>5 DEF q

(* What an operator on the terminal's timers leaves. *)
TermStep(q, p) ==
    /\ Books(q) /\ Grown(q.tm, p.tm)
    /\ q.tm.contexts \subseteq p.tm.contexts \union {Term}
    /\ q = Retimed(p, q.tm, q.term)

LEMMA GrownSame ==
    ASSUME NEW tm
    PROVE  Grown(tm, tm)
BY DEF Grown

(* A step of the terminal that sets no timer. *)
LEMMA TermOnly ==
    ASSUME NEW p, Books(p), NEW x \in Terminals, TermWaits(Retimed(p, p.tm, x)),
           NEW q, q = [p EXCEPT !.term = x]
    PROVE  TermStep(q, p)
<1>1. p.tm \in Timers /\ TimersType(p.tm) /\ p \in Programs /\ Grown(p.tm, p.tm)
  BY GrownSame DEF Books, Programs, TimersType
<1>2. q = Retimed(p, p.tm, x)
  BY <1>1 DEF Retimed, Programs
<1>3. q.tm = p.tm /\ q.term = x
  BY <1>1, <1>2, RetimedType
<1>4. Books(q)
  BY <1>1, <1>2, RetimedBooks
<1> QED BY <1>1, <1>2, <1>3, <1>4 DEF TermStep

LEMMA TermStepTwice ==
    ASSUME NEW p, Books(p), NEW q, TermStep(q, p), NEW r, TermStep(r, q)
    PROVE  TermStep(r, p)
<1>1. Books(r) /\ p \in Programs /\ q \in Programs /\ r \in Programs
  BY DEF TermStep, Books
<1>2. r = Retimed(p, r.tm, r.term)
  BY <1>1 DEF TermStep, Retimed, Programs
<1>3. Grown(r.tm, p.tm)
  BY DEF TermStep, Grown
<1> QED BY <1>1, <1>2, <1>3 DEF TermStep

LEMMA TermUpdateStep ==
    ASSUME NEW p, Books(p)
    PROVE  TermStep(term_update(p), p)
<1> DEFINE x == [p.term EXCEPT !.update_pending = FALSE, !.next_update = None]
<1>1. p \in Programs /\ p.term \in Terminals /\ p.tm \in Timers
  BY DEF Books, Programs
<1>2. /\ x \in Terminals /\ x.update_pending = FALSE /\ x.next_update = None
      /\ x.cblink_pending = p.term.cblink_pending /\ x.next_cblink = p.term.next_cblink
  BY <1>1 DEF Terminals, Times
<1>3. term_update(p) = [p EXCEPT !.term = x]
  BY <1>1 DEF term_update, Programs
<1> HIDE DEF x
<1>4. TermWaits(Retimed(p, p.tm, x))
  BY <1>1, <1>2, RetimedType DEF Books, TermWaits
<1> QED BY <1>2, <1>3, <1>4, TermOnly

LEMMA ScheduleUpdateStep ==
    ASSUME NEW p, Books(p)
    PROVE  TermStep(term_schedule_update(p), p)
<1>1. p \in Programs /\ p.term \in Terminals /\ p.tm \in Timers
  BY DEF Books, Programs
<1>2. CASE p.term.update_pending
  <2>1. term_schedule_update(p) = p /\ p = Retimed(p, p.tm, p.term)
    BY <1>1, <1>2 DEF term_schedule_update, Retimed, Programs
  <2> QED BY <2>1, GrownSame DEF TermStep
<1>3. CASE ~p.term.update_pending
  <2> DEFINE s == schedule_timer(p.tm, Update, Term)
             when == Scheduled(p.tm, Update)
             x == [p.term EXCEPT !.update_pending = TRUE, !.next_update = when]
  <2>1. Update \in Delays
    BY DEF Delays
  <2>2. /\ TimersType(s) /\ Grown(s, p.tm) /\ p.tm.timers \subseteq s.timers
        /\ [when |-> when, ctx |-> Term] \in s.timers
        /\ s.contexts = p.tm.contexts \union {Term} /\ when \in Times
    BY <2>1, TermTimerFacts
  <2>3. term_schedule_update(p) = Retimed(p, s, x)
    BY <1>1, <1>3 DEF term_schedule_update, Retimed, Programs
  <2> HIDE DEF s, when
  <2>4. /\ x \in Terminals /\ x.update_pending = TRUE /\ x.next_update = when
        /\ x.cblink_pending = p.term.cblink_pending /\ x.next_cblink = p.term.next_cblink
    BY <1>1, <2>2 DEF Terminals
  <2> HIDE DEF x
  <2>5. s \in Timers
    BY <2>2 DEF TimersType
  <2>6. /\ Retimed(p, s, x).tm = s /\ Retimed(p, s, x).term = x
    BY <1>1, <2>4, <2>5, RetimedType
  <2>7. TermWaits(Retimed(p, s, x))
    BY <2>2, <2>4, <2>6 DEF Books, TermWaits
  <2>8. Books(Retimed(p, s, x))
    BY <2>2, <2>4, <2>7, RetimedBooks
  <2> QED BY <2>2, <2>3, <2>6, <2>8 DEF TermStep
<1> QED BY <1>2, <1>3

LEMMA ScheduleBlinkStep ==
    ASSUME NEW p, Books(p)
    PROVE  TermStep(term_schedule_cblink(p), p)
<1>1. p \in Programs /\ p.term \in Terminals /\ p.tm \in Timers
  BY DEF Books, Programs
<1>2. CASE ~(cfg.blink /\ p.term.has_focus)
  <2> DEFINE x == [p.term EXCEPT !.cblink_pending = FALSE, !.next_cblink = None]
  <2>1. /\ x \in Terminals /\ x.cblink_pending = FALSE /\ x.next_cblink = None
        /\ x.update_pending = p.term.update_pending /\ x.next_update = p.term.next_update
    BY <1>1 DEF Terminals, Times
  <2>2. term_schedule_cblink(p) = [p EXCEPT !.term = x]
    BY <1>1, <1>2 DEF term_schedule_cblink, Programs
  <2> HIDE DEF x
  <2>3. TermWaits(Retimed(p, p.tm, x))
    BY <1>1, <2>1, RetimedType DEF Books, TermWaits
  <2> QED BY <2>1, <2>2, <2>3, TermOnly
<1>3. CASE cfg.blink /\ p.term.has_focus /\ p.term.cblink_pending
  <2>1. term_schedule_cblink(p) = p /\ p = Retimed(p, p.tm, p.term)
    BY <1>1, <1>3 DEF term_schedule_cblink, Retimed, Programs
  <2> QED BY <2>1, GrownSame DEF TermStep
<1>4. CASE cfg.blink /\ p.term.has_focus /\ ~p.term.cblink_pending
  <2> DEFINE s == schedule_timer(p.tm, Blink, Term)
             when == Scheduled(p.tm, Blink)
             x == [p.term EXCEPT !.cblink_pending = TRUE, !.next_cblink = when]
  <2>1. Blink \in Delays
    BY DEF Delays
  <2>2. /\ TimersType(s) /\ Grown(s, p.tm) /\ p.tm.timers \subseteq s.timers
        /\ [when |-> when, ctx |-> Term] \in s.timers
        /\ s.contexts = p.tm.contexts \union {Term} /\ when \in Times
    BY <2>1, TermTimerFacts
  <2>3. term_schedule_cblink(p) = Retimed(p, s, x)
    BY <1>1, <1>4 DEF term_schedule_cblink, Retimed, Programs
  <2> HIDE DEF s, when
  <2>4. /\ x \in Terminals /\ x.cblink_pending = TRUE /\ x.next_cblink = when
        /\ x.update_pending = p.term.update_pending /\ x.next_update = p.term.next_update
    BY <1>1, <2>2 DEF Terminals
  <2> HIDE DEF x
  <2>5. s \in Timers
    BY <2>2 DEF TimersType
  <2>6. /\ Retimed(p, s, x).tm = s /\ Retimed(p, s, x).term = x
    BY <1>1, <2>4, <2>5, RetimedType
  <2>7. TermWaits(Retimed(p, s, x))
    BY <2>2, <2>4, <2>6 DEF Books, TermWaits
  <2>8. Books(Retimed(p, s, x))
    BY <2>2, <2>4, <2>7, RetimedBooks
  <2> QED BY <2>2, <2>3, <2>6, <2>8 DEF TermStep
<1> QED BY <1>2, <1>3, <1>4

LEMMA SetFocusStep ==
    ASSUME NEW p, Books(p), NEW focus \in BOOLEAN
    PROVE  TermStep(term_set_focus(p, focus), p)
<1> DEFINE x == [p.term EXCEPT !.has_focus = focus]
           q == [p EXCEPT !.term = x]
<1>1. p \in Programs /\ p.term \in Terminals /\ p.tm \in Timers
  BY DEF Books, Programs
<1>2. /\ x \in Terminals
      /\ x.update_pending = p.term.update_pending /\ x.next_update = p.term.next_update
      /\ x.cblink_pending = p.term.cblink_pending /\ x.next_cblink = p.term.next_cblink
  BY <1>1 DEF Terminals
<1>3. q = [p EXCEPT !.term.has_focus = focus]
  BY <1>1 DEF Programs
<1> HIDE DEF x
<1>4. TermWaits(Retimed(p, p.tm, x))
  BY <1>1, <1>2, RetimedType DEF Books, TermWaits
<1>5. TermStep(q, p)
  BY <1>2, <1>4, TermOnly
<1> HIDE DEF q
<1>6. TermStep(term_schedule_cblink(q), q)
  BY <1>5, ScheduleBlinkStep DEF TermStep
<1>7. term_set_focus(p, focus) = term_schedule_cblink(q)
  BY <1>3 DEF term_set_focus
<1> QED BY <1>5, <1>6, <1>7, TermStepTwice

(* The order in which a timer that is due clears what it was set for does not matter. *)
Cleared(x) == [x EXCEPT !.update_pending = FALSE, !.next_update = None,
                        !.cblink_pending = FALSE, !.next_cblink = None]

LEMMA BlinkedIsCleared ==
    ASSUME NEW p \in Programs
    PROVE  term_update(term_schedule_cblink([p EXCEPT !.term.cblink_pending = FALSE]))
             = term_schedule_cblink([p EXCEPT !.term = Cleared(@)])
<1> DEFINE a == [p EXCEPT !.term.cblink_pending = FALSE]
           b == [p EXCEPT !.term = Cleared(@)]
<1>1. p.term \in Terminals
  BY DEF Programs
<1>2. PICK x \in Terminals : x = Cleared(p.term)
  BY <1>1 DEF Cleared, Terminals, Times
<1>3. PICK y \in Terminals : y = [p.term EXCEPT !.cblink_pending = FALSE]
  BY <1>1 DEF Terminals
<1>4. /\ x = [y EXCEPT !.update_pending = FALSE, !.next_update = None, !.next_cblink = None]
      /\ x.has_focus = y.has_focus /\ x.cblink_pending = FALSE /\ y.cblink_pending = FALSE
  BY <1>1, <1>2, <1>3 DEF Cleared, Terminals
<1>5. a = [p EXCEPT !.term = y] /\ b = [p EXCEPT !.term = x]
  BY <1>2, <1>3 DEF Programs
<1> HIDE DEF a, b
<1>6. /\ a.term = y /\ b.term = x /\ a.tm = p.tm /\ b.tm = p.tm
      /\ a \in Programs /\ b \in Programs
  BY <1>5 DEF Programs
<1>7. CASE ~(cfg.blink /\ x.has_focus)
  <2>1. PICK z : z = [y EXCEPT !.cblink_pending = FALSE, !.next_cblink = None]
    OBVIOUS
  <2>2. term_schedule_cblink(a) = [p EXCEPT !.term = z]
    BY <1>4, <1>5, <1>6, <1>7, <2>1 DEF term_schedule_cblink, Programs
  <2>3. term_update(term_schedule_cblink(a))
          = [p EXCEPT !.term = [z EXCEPT !.update_pending = FALSE, !.next_update = None]]
    BY <2>2 DEF term_update, Programs
  <2>4. term_schedule_cblink(b)
          = [p EXCEPT !.term = [x EXCEPT !.cblink_pending = FALSE, !.next_cblink = None]]
    BY <1>4, <1>5, <1>6, <1>7 DEF term_schedule_cblink, Programs
  <2>5. [z EXCEPT !.update_pending = FALSE, !.next_update = None]
          = [x EXCEPT !.cblink_pending = FALSE, !.next_cblink = None]
    BY <1>4, <2>1 DEF Terminals
  <2> QED BY <2>3, <2>4, <2>5 DEF a, b
<1>8. CASE cfg.blink /\ x.has_focus
  <2>1. PICK when, s : when = Scheduled(p.tm, Blink) /\ s = schedule_timer(p.tm, Blink, Term)
    OBVIOUS
  <2>2. PICK z : z = [y EXCEPT !.cblink_pending = TRUE, !.next_cblink = when]
    OBVIOUS
  <2>3. term_schedule_cblink(a) = [p EXCEPT !.term = z, !.tm = s]
    BY <1>4, <1>5, <1>6, <1>8, <2>1, <2>2 DEF term_schedule_cblink, Programs
  <2>4. term_update(term_schedule_cblink(a))
          = [p EXCEPT !.term = [z EXCEPT !.update_pending = FALSE, !.next_update = None],
                      !.tm = s]
    BY <2>3 DEF term_update, Programs
  <2>5. term_schedule_cblink(b)
          = [p EXCEPT !.term = [x EXCEPT !.cblink_pending = TRUE, !.next_cblink = when],
                      !.tm = s]
    BY <1>4, <1>5, <1>6, <1>8, <2>1 DEF term_schedule_cblink, Programs
  <2>6. [z EXCEPT !.update_pending = FALSE, !.next_update = None]
          = [x EXCEPT !.cblink_pending = TRUE, !.next_cblink = when]
    BY <1>4, <2>2 DEF Terminals
  <2> QED BY <2>4, <2>5, <2>6 DEF a, b
<1> QED BY <1>7, <1>8

(* A timer is removed from the tree and what waited for it is cleared. *)
Without(p, t, x) == Retimed(p, [p.tm EXCEPT !.timers = @ \ {t}], x)

LEMMA WithoutTermTimer ==
    ASSUME NEW p, Books(p), NEW t \in p.tm.timers, t.ctx = Term, NEW x \in Terminals,
           IF x.update_pending
           THEN p.term.update_pending /\ x.next_update = p.term.next_update
                /\ t.when # p.term.next_update
           ELSE x.next_update = None,
           IF x.cblink_pending
           THEN p.term.cblink_pending /\ x.next_cblink = p.term.next_cblink
                /\ t.when # p.term.next_cblink
           ELSE x.next_cblink = None
    PROVE  Books(Without(p, t, x))
<1>1. PICK s : s = [p.tm EXCEPT !.timers = @ \ {t}]
  OBVIOUS
<1>2. p \in Programs /\ TimersType(p.tm)
  BY DEF Books, Programs, TimersType
<1>3. /\ TimersType(s) /\ s.timers = p.tm.timers \ {t}
      /\ s.contexts = p.tm.contexts /\ s.now = p.tm.now
  BY <1>1, <1>2, RemoveFacts
<1>4. PICK q : q = Without(p, t, x)
  OBVIOUS
<1>5. /\ q \in Programs /\ q.tm = s /\ q.term = x
      /\ q.pinger = p.pinger /\ q.stray = p.stray
  BY <1>1, <1>2, <1>3, <1>4, RetimedType DEF TimersType, Without
<1>6. ContextsLive(q)
  BY <1>3, <1>5 DEF Books, ContextsLive
<1>7. TermWaits(q)
  BY <1>3, <1>5 DEF Books, TermWaits
<1>8. PingWaits(q)
  <2>1. p.pinger.pending => t # [when |-> p.pinger.next, ctx |-> p.pinger.addr]
    BY DEF Books, ContextsLive, PingWaits
  <2> QED BY <1>3, <1>5, <2>1 DEF Books, PingWaits
<1> QED BY <1>3, <1>4, <1>5, <1>6, <1>7, <1>8 DEF Books, TimersType

Less(tm, t) == [tm EXCEPT !.timers = @ \ {t}]

(* What term_timer() does after its timer was removed. *)
LEMMA TermTimerStep ==
    ASSUME NEW p, Books(p), NEW t \in p.tm.timers, t.ctx = Term,
           NEW q, q = [p EXCEPT !.tm.timers = @ \ {t}],
           NEW r, r = term_timer(q, t.when)
    PROVE  /\ Books(r) /\ Grown(r.tm, Less(p.tm, t))
           /\ r.tm.contexts \subseteq p.tm.contexts \union {Term}
           /\ r = Retimed(p, r.tm, r.term)
<1>1. /\ p \in Programs /\ p.term \in Terminals /\ p.tm \in Timers /\ TimersType(p.tm)
      /\ t.when \in Near /\ Since(t.when, t.when) = 0
  <2>1. p \in Programs /\ p.term \in Terminals /\ p.tm \in Timers /\ TimersType(p.tm)
    BY DEF Books, Programs, TimersType
  <2>2. t.when \in Near
    BY <2>1, TimerFacts
  <2>3. Since(t.when, t.when) = Offset(t.when) - Offset(t.when) /\ Offset(t.when) \in Int
    BY <2>2, NearSince
  <2> QED BY <2>1, <2>2, <2>3
<1>2. PICK s : s = Less(p.tm, t) /\ TimersType(s) /\ s.contexts = p.tm.contexts
  BY <1>1, RemoveFacts DEF Less
<1>3. \A x : Without(p, t, x) = Retimed(p, s, x)
  BY <1>2 DEF Without, Less
<1>4. q = Retimed(p, s, p.term) /\ q \in Programs /\ q.term = p.term /\ q.tm = s
  <2>1. q = Retimed(p, s, p.term)
    BY <1>1, <1>2 DEF Retimed, Programs, Less
  <2>2. s \in Timers
    BY <1>2 DEF TimersType
  <2>3. /\ Retimed(p, s, p.term) \in Programs
        /\ Retimed(p, s, p.term).tm = s /\ Retimed(p, s, p.term).term = p.term
    BY <1>1, <2>2, RetimedType
  <2> QED BY <2>1, <2>3
<1> DEFINE blinks == q.term.cblink_pending /\ Since(t.when, q.term.next_cblink) >= 0
           due == q.term.update_pending /\ Since(t.when, q.term.next_update) >= 0
<1>5. CASE blinks
  <2>1. PICK a : a = term_schedule_cblink([q EXCEPT !.term.cblink_pending = FALSE])
    OBVIOUS
  <2>2. PICK c : c = [q EXCEPT !.term = Cleared(@)]
    OBVIOUS
  <2>3. r = term_update(a)
    BY <1>5, <2>1 DEF term_timer
  <2>4. r = term_schedule_cblink(c)
    BY <1>4, <2>1, <2>2, <2>3, BlinkedIsCleared
  <2>5. PICK x \in Terminals : x = Cleared(p.term)
    BY <1>1 DEF Cleared, Terminals, Times
  <2>6. /\ x.update_pending = FALSE /\ x.next_update = None
        /\ x.cblink_pending = FALSE /\ x.next_cblink = None
    BY <1>1, <2>5 DEF Cleared, Terminals
  <2>7. c = Without(p, t, x)
    <3>1. c = [Retimed(p, s, p.term) EXCEPT !.term = x]
      BY <1>4, <2>2, <2>5
    <3>2. c = Retimed(p, s, x)
      BY <1>1, <3>1, RetimedAgain
    <3> QED BY <1>3, <3>2
  <2>8. Books(c) /\ c.tm = s
    <3>1. Books(Without(p, t, x))
      BY <2>6, WithoutTermTimer
    <3> QED BY <1>1, <1>2, <1>3, <2>7, <3>1, RetimedType DEF TimersType
  <2>9. TermStep(r, c)
    BY <2>4, <2>8, ScheduleBlinkStep
  <2>10. /\ Books(r) /\ Grown(r.tm, s) /\ r = Retimed(c, r.tm, r.term) /\ r \in Programs
         /\ r.tm.contexts \subseteq s.contexts \union {Term}
    BY <2>8, <2>9 DEF TermStep, Books
  <2>11. c = Retimed(p, s, x)
    BY <1>3, <2>7
  <2>12. r = Retimed(p, r.tm, r.term)
    BY <1>1, <2>10, <2>11 DEF Retimed, Programs
  <2> QED BY <1>2, <2>10, <2>12
<1>6. CASE ~blinks /\ due
  <2>1. r = term_update(q)
    BY <1>6 DEF term_timer
  <2>2. PICK x \in Terminals : x = [p.term EXCEPT !.update_pending = FALSE,
                                                  !.next_update = None]
    BY <1>1 DEF Terminals, Times
  <2>3. /\ x.update_pending = FALSE /\ x.next_update = None
        /\ x.cblink_pending = p.term.cblink_pending /\ x.next_cblink = p.term.next_cblink
    BY <1>1, <2>2 DEF Terminals
  <2>4. r = Retimed(p, s, x)
    BY <1>1, <1>4, <2>1, <2>2 DEF term_update, Retimed, Programs
  <2>5. x.cblink_pending => t.when # p.term.next_cblink
    <3>1. SUFFICES ASSUME x.cblink_pending, t.when = p.term.next_cblink PROVE FALSE
      OBVIOUS
    <3>2. q.term.cblink_pending /\ Since(t.when, q.term.next_cblink) = 0
      BY <1>1, <1>4, <2>3, <3>1
    <3>3. blinks
      BY <3>2
    <3> QED BY <1>6, <3>3
  <2>6. Books(Without(p, t, x))
    BY <2>3, <2>5, WithoutTermTimer DEF Books, TermWaits
  <2>7. Books(r) /\ r.tm = s /\ r.term = x
    BY <1>1, <1>2, <1>3, <2>4, <2>6, RetimedType DEF TimersType
  <2> QED BY <1>2, <2>4, <2>7, GrownSame
<1>7. CASE ~blinks /\ ~due
  <2>1. r = q
    BY <1>7 DEF term_timer
  <2>2. /\ p.term.update_pending => t.when # p.term.next_update
        /\ p.term.cblink_pending => t.when # p.term.next_cblink
    BY <1>1, <1>4, <1>7
  <2>3. Books(Without(p, t, p.term))
    BY <1>1, <2>2, WithoutTermTimer DEF Books, TermWaits
  <2> QED BY <1>2, <1>3, <1>4, <2>1, <2>3, GrownSame
<1> QED BY <1>5, <1>6, <1>7

(* p with other timers and another pinger. *)
Repinged(p, s, g) == [p EXCEPT !.tm = s, !.pinger = g]

LEMMA RepingedType ==
    ASSUME NEW p \in Programs, NEW s \in Timers, NEW g \in Pingers
    PROVE  /\ Repinged(p, s, g) \in Programs
           /\ Repinged(p, s, g).tm = s /\ Repinged(p, s, g).term = p.term
           /\ Repinged(p, s, g).pinger = g /\ Repinged(p, s, g).stray = p.stray
BY DEF Repinged, Programs

(* The books but for the pinger's own entry. *)
Base(p) == p \in Programs /\ IsFiniteSet(p.tm.timers) /\ ContextsLive(p) /\ TermWaits(p)

(* A keepalive is scheduled if the timer that is set is not one that an earlier pinger
   left in the tree, or if the pinger's context has not expired. *)
Schedulable(p) ==
    \/ SameTick
    \/ p.pinger.addr \in p.tm.contexts
    \/ [when |-> Scheduled(p.tm, Interval), ctx |-> p.pinger.addr] \notin p.tm.timers

(* The next keepalive is an interval away. *)
FarPing(p) ==
    p.pinger.pending => /\ p.pinger.next \in Near /\ Offset(p.pinger.next) >= Interval
                        /\ Offset(p.pinger.next) > Offset(p.tm.now)

LEMMA PingerScheduleStep ==
    ASSUME NEW p, Base(p), p.pinger.live, Schedulable(p),
           NEW r, r = pinger_schedule(p)
    PROVE  /\ Books(r) /\ Grown(r.tm, p.tm) /\ FarPing(r)
           /\ r.tm.contexts \subseteq p.tm.contexts \union {p.pinger.addr}
           /\ r = Repinged(p, r.tm, r.pinger)
           /\ r.pinger.live /\ r.pinger.addr = p.pinger.addr
<1>1. /\ p \in Programs /\ p.pinger \in Pingers /\ p.tm \in Timers /\ TimersType(p.tm)
      /\ p.pinger.addr \in Nat
  BY DEF Base, Programs, TimersType, Pingers
<1>2. CASE ~cfg.ping
  <2> DEFINE g == [p.pinger EXCEPT !.pending = FALSE, !.next = None]
  <2>1. /\ g \in Pingers /\ g.pending = FALSE /\ g.next = None
        /\ g.live = p.pinger.live /\ g.addr = p.pinger.addr
    BY <1>1 DEF Pingers, Times
  <2>2. r = Repinged(p, p.tm, g)
    BY <1>1, <1>2 DEF pinger_schedule, Repinged, Programs
  <2> HIDE DEF g
  <2>3. r \in Programs /\ r.tm = p.tm /\ r.term = p.term /\ r.pinger = g /\ r.stray = p.stray
    BY <1>1, <2>1, <2>2, RepingedType
  <2>4. ContextsLive(r) /\ TermWaits(r) /\ PingWaits(r)
    BY <2>1, <2>3 DEF Base, ContextsLive, TermWaits, PingWaits
  <2>5. Books(r)
    BY <2>3, <2>4 DEF Base, Books
  <2>6. FarPing(r)
    BY <2>1, <2>3 DEF FarPing
  <2> QED BY <2>1, <2>2, <2>3, <2>5, <2>6, GrownSame
<1>3. CASE cfg.ping
  <2> DEFINE s == schedule_timer(p.tm, Interval, p.pinger.addr)
             when == Scheduled(p.tm, Interval)
             t == [when |-> when, ctx |-> p.pinger.addr]
             g == [p.pinger EXCEPT !.next = when, !.pending = TRUE]
  <2>1. Interval \in Delays /\ Interval \in Nat
    BY SessionAssumption DEF Delays
  <2>2. /\ when \in Near /\ Offset(when) > Offset(p.tm.now) /\ Offset(when) >= Interval
        /\ when \in Times /\ Offset(when) \in Int
    BY <1>1, <2>1, ScheduledFacts, NearFacts DEF Times
  <2>3. WithTimer(s, p.tm, t)
    <3>1. PICK a \in Nat : a = p.pinger.addr
      BY <1>1
    <3>2. WithTimer(schedule_timer(p.tm, Interval, a), p.tm,
                    [when |-> Scheduled(p.tm, Interval), ctx |-> a])
      BY <1>1, <2>1, ScheduleFacts
    <3> QED BY <3>1, <3>2
  <2>4. r = Repinged(p, s, g)
    BY <1>1, <1>3 DEF pinger_schedule, Repinged, Programs
  <2>5. t.when = when /\ t.ctx = p.pinger.addr
    OBVIOUS
  <2>6. Schedulable(p) <=> \/ SameTick \/ t.ctx \in p.tm.contexts \/ t \notin p.tm.timers
    BY DEF Schedulable
  <2> HIDE DEF s, when
  <2>7. /\ g \in Pingers /\ g.pending = TRUE /\ g.next = when
        /\ g.live = p.pinger.live /\ g.addr = p.pinger.addr
    BY <1>1, <2>2 DEF Pingers
  <2> HIDE DEF g
  <2>8. t = [when |-> g.next, ctx |-> g.addr]
    BY <2>7
  <2> HIDE DEF t
  <2>9. /\ TimersType(s) /\ s.now = p.tm.now /\ s.timers = p.tm.timers \union {t}
        /\ s.contexts = IF t \in p.tm.timers THEN p.tm.contexts
                        ELSE p.tm.contexts \union {t.ctx}
        /\ InTime(p.tm) => InTime(s)
    BY <2>3 DEF WithTimer
  <2>10. r \in Programs /\ r.tm = s /\ r.term = p.term /\ r.pinger = g /\ r.stray = p.stray
    BY <1>1, <2>4, <2>7, <2>9, RepingedType DEF TimersType
  <2>11. ContextsLive(r)
    <3>1. \A c \in s.contexts : c = Term \/ c = g.addr
      BY <2>5, <2>7, <2>9 DEF Base, ContextsLive
    <3>2. \A u \in s.timers : u.ctx = Term => Term \in s.contexts
      BY <2>5, <2>9 DEF Base, ContextsLive
    <3> QED BY <2>7, <2>10, <3>1, <3>2 DEF Base, ContextsLive
  <2>12. TermWaits(r)
    BY <2>9, <2>10 DEF Base, TermWaits
  <2>13. PingWaits(r)
    <3>1. t \in s.timers
      BY <2>9
    <3>2. ~SameTick => g.addr \in s.contexts
      BY <2>5, <2>6, <2>7, <2>9
    <3> QED BY <2>7, <2>8, <2>10, <3>1, <3>2 DEF PingWaits
  <2>14. Grown(s, p.tm)
    <3>1. \A u \in s.timers : \/ u \in p.tm.timers
                              \/ u.ctx \in s.contexts /\ Offset(u.when) > Offset(s.now)
      BY <2>2, <2>5, <2>9
    <3>2. ToCome(p.tm) => ToCome(s)
      BY <2>2, <2>5, <2>9 DEF ToCome
    <3> QED BY <2>9, <3>1, <3>2 DEF Grown
  <2>15. FarPing(r)
    BY <2>2, <2>7, <2>9, <2>10 DEF FarPing
  <2>16. Books(r)
    BY <2>9, <2>10, <2>11, <2>12, <2>13 DEF Books, TimersType
  <2>17. s.contexts \subseteq p.tm.contexts \union {p.pinger.addr}
    BY <2>5, <2>9
  <2> QED BY <2>4, <2>7, <2>10, <2>14, <2>15, <2>16, <2>17
<1> QED BY <1>2, <1>3

-----------------------------------------------------------------------------
(* run_timers(). *)

(* What running timers leaves alone. *)
Running(r, p) ==
    /\ Books(r) /\ r.back = p.back /\ r.sock.open = p.sock.open
    /\ r.pinger.live = p.pinger.live /\ r.pinger.addr = p.pinger.addr
    /\ r.pinger.addr \in r.tm.contexts => p.pinger.addr \in p.tm.contexts
    /\ r.tm.now = p.tm.now

(* A keepalive is sent, if at all, when it is due, and the next one is scheduled. *)
PingDue(p) ==
    /\ p.pinger.pending /\ p.pinger.addr \in p.tm.contexts
    /\ [when |-> p.pinger.next, ctx |-> p.pinger.addr] \in p.tm.timers
    /\ Offset(p.pinger.next) <= Offset(p.tm.now)
PingStep(r, p) ==
    \/ r.pinger = p.pinger /\ r.pings = p.pings
    \/ PingDue(p) /\ FarPing(r)

(* A timer that nothing waits for any longer is removed. *)
LEMMA LessBooks ==
    ASSUME NEW p, Books(p), NEW t \in p.tm.timers, t.ctx # Term,
           p.pinger.pending /\ p.pinger.addr \in p.tm.contexts =>
             t # [when |-> p.pinger.next, ctx |-> p.pinger.addr],
           NEW q, q = [p EXCEPT !.tm.timers = @ \ {t}]
    PROVE  Books(q) /\ Running(q, p) /\ PingStep(q, p) /\ q.tm = Less(p.tm, t)
<1>1. p \in Programs /\ TimersType(p.tm)
  BY DEF Books, Programs, TimersType
<1>2. PICK s : s = Less(p.tm, t)
  OBVIOUS
<1>3. /\ TimersType(s) /\ s.timers = p.tm.timers \ {t} /\ s.contexts = p.tm.contexts
      /\ s.now = p.tm.now
  BY <1>1, <1>2, RemoveFacts DEF Less
<1>4. q = [p EXCEPT !.tm = s]
  <2>1. q = [p EXCEPT !.tm = [p.tm EXCEPT !.timers = @ \ {t}]]
    OBVIOUS
  <2>2. s = [p.tm EXCEPT !.timers = @ \ {t}]
    BY <1>2 DEF Less
  <2> QED BY <2>1, <2>2
<1>5. s \in Timers /\ IsFiniteSet(s.timers)
  BY <1>3 DEF TimersType
<1>6. /\ q \in Programs /\ q.tm = s /\ q.term = p.term /\ q.pinger = p.pinger
      /\ q.stray = p.stray /\ q.sock = p.sock /\ q.back = p.back /\ q.pings = p.pings
  BY <1>1, <1>4, <1>5 DEF Programs
<1>7. ContextsLive(q) /\ TermWaits(q) /\ PingWaits(q)
  <2>1. ContextsLive(q)
    BY <1>3, <1>6 DEF Books, ContextsLive
  <2>2. TermWaits(q)
    BY <1>3, <1>6 DEF Books, TermWaits
  <2>3. PingWaits(q)
    BY <1>3, <1>6 DEF Books, PingWaits
  <2> QED BY <2>1, <2>2, <2>3
<1>8. Books(q)
  BY <1>5, <1>6, <1>7 DEF Books
<1> QED BY <1>2, <1>3, <1>6, <1>8 DEF Running, PingStep

LEMMA PingType ==
    ASSUME NEW p \in Programs, NEW may \in BOOLEAN
    PROVE  /\ Ping(p, may) \in Programs
           /\ Ping(p, may).tm = p.tm /\ Ping(p, may).term = p.term
           /\ Ping(p, may).pinger = p.pinger /\ Ping(p, may).stray = p.stray
           /\ Ping(p, may).back = p.back /\ Ping(p, may).sock.open = p.sock.open
<1>1. p.sock \in Sockets
  BY DEF Programs
<1>2. CASE may /\ p.sock.open
  <2>1. PICK x \in Sockets : x = [p.sock EXCEPT !.error = @ \/ p.sock.dead]
    BY <1>1 DEF Sockets
  <2>2. x.open = p.sock.open
    BY <1>1, <2>1 DEF Sockets
  <2>3. Ping(p, may) = [p EXCEPT !.sock = x, !.pings = TRUE]
    BY <1>2, <2>1 DEF Ping, sk_write, Programs
  <2> QED BY <2>2, <2>3 DEF Programs
<1>3. CASE ~(may /\ p.sock.open)
  BY <1>3 DEF Ping
<1> QED BY <1>2, <1>3

(* The pinger's timer runs. *)
LEMMA PingerTimerStep ==
    ASSUME NEW p, Books(p), NEW t \in p.tm.timers, NEW may \in BOOLEAN,
           t.ctx # Term, p.pinger.live, t.ctx = p.pinger.addr, t.ctx \in p.tm.contexts,
           Offset(t.when) <= Offset(p.tm.now),
           NEW q, q = [p EXCEPT !.tm.timers = @ \ {t}],
           NEW r, r = pinger_timer(q, t.when, may)
    PROVE  Running(r, p) /\ PingStep(r, p) /\ Grown(r.tm, Less(p.tm, t))
<1>1. /\ p \in Programs /\ TimersType(p.tm) /\ p.tm \in Timers /\ p.pinger \in Pingers
  BY DEF Books, Programs, TimersType
<1>2. PICK s : s = Less(p.tm, t)
  OBVIOUS
<1>3. /\ TimersType(s) /\ s.timers = p.tm.timers \ {t} /\ s.contexts = p.tm.contexts
      /\ s.now = p.tm.now /\ s \in Timers /\ IsFiniteSet(s.timers)
  BY <1>1, <1>2, RemoveFacts DEF Less, TimersType
<1>4. q = [p EXCEPT !.tm = s]
  BY <1>1, <1>2 DEF Programs, Less
<1>5. /\ q \in Programs /\ q.tm = s /\ q.term = p.term /\ q.pinger = p.pinger
      /\ q.stray = p.stray /\ q.sock = p.sock /\ q.back = p.back /\ q.pings = p.pings
  BY <1>1, <1>3, <1>4 DEF Programs
<1>6. /\ t.when \in Near /\ Since(t.when, t.when) = 0 /\ Offset(t.when) \in Int
      /\ t = [when |-> t.when, ctx |-> t.ctx] /\ Offset(p.tm.now) \in Int
  <2>1. t.when \in Near /\ t \in [when : Near, ctx : Nat]
    BY <1>1, TimerFacts
  <2>2. Since(t.when, t.when) = Offset(t.when) - Offset(t.when) /\ Offset(t.when) \in Int
    BY <2>1, NearSince
  <2>3. Offset(p.tm.now) \in Int
    BY <1>1, TimerFacts
  <2> QED BY <2>1, <2>2, <2>3
<1>7. CASE q.pinger.pending /\ Since(t.when, q.pinger.next) >= 0
  <2>1. PICK v : v = Ping(q, may)
    OBVIOUS
  <2>2. /\ v \in Programs /\ v.tm = s /\ v.term = p.term /\ v.pinger = p.pinger
        /\ v.stray = p.stray /\ v.back = p.back /\ v.sock.open = p.sock.open
    <3>1. q \in Programs
      BY <1>5
    <3>2. /\ Ping(q, may) \in Programs /\ Ping(q, may).tm = q.tm
          /\ Ping(q, may).term = q.term /\ Ping(q, may).pinger = q.pinger
          /\ Ping(q, may).stray = q.stray /\ Ping(q, may).back = q.back
          /\ Ping(q, may).sock.open = q.sock.open
      BY <3>1, PingType
    <3> QED BY <1>5, <2>1, <3>2
  <2>3. PICK g \in Pingers : g = [p.pinger EXCEPT !.pending = FALSE]
    BY <1>1 DEF Pingers
  <2>4. g.live = p.pinger.live /\ g.addr = p.pinger.addr
    BY <1>1, <2>3 DEF Pingers
  <2>5. PICK u : u = [v EXCEPT !.pinger = g]
    OBVIOUS
  <2>6. /\ u \in Programs /\ u.tm = s /\ u.term = p.term /\ u.pinger = g
        /\ u.stray = p.stray /\ u.back = p.back /\ u.sock.open = p.sock.open
    BY <2>2, <2>5 DEF Programs
  <2>7. r = pinger_schedule(u)
    BY <1>7, <2>1, <2>2, <2>3, <2>5 DEF pinger_timer, Programs
  <2>8. Base(u)
    <3>1. ContextsLive(u)
      BY <1>3, <2>4, <2>6 DEF Books, ContextsLive
    <3>2. \A when : [when |-> when, ctx |-> Term] # t
      OBVIOUS
    <3>3. TermWaits(u)
      BY <1>3, <2>6, <3>2 DEF Books, TermWaits
    <3> QED BY <1>3, <2>6, <3>1, <3>3 DEF Base
  <2>9. Schedulable(u) /\ u.pinger.live
    BY <1>3, <2>4, <2>6 DEF Schedulable
  <2>10. /\ Books(r) /\ Grown(r.tm, s) /\ FarPing(r)
         /\ r.tm.contexts \subseteq s.contexts \union {p.pinger.addr}
         /\ r = Repinged(u, r.tm, r.pinger)
         /\ r.pinger.live /\ r.pinger.addr = p.pinger.addr
    BY <2>4, <2>6, <2>7, <2>8, <2>9, PingerScheduleStep
  <2>11. r.back = p.back /\ r.sock.open = p.sock.open
    BY <2>6, <2>10 DEF Repinged, Programs
  <2>12. PingDue(p)
    <3>1. /\ p.pinger.pending /\ p.pinger.addr \in p.tm.contexts
          /\ [when |-> p.pinger.next, ctx |-> p.pinger.addr] \in p.tm.timers
      BY <1>5, <1>7 DEF Books, PingWaits
    <3>2. p.pinger.next \in Near
      BY <1>1, <3>1, TimerFacts
    <3>3. Since(t.when, p.pinger.next) = Offset(t.when) - Offset(p.pinger.next)
          /\ Offset(p.pinger.next) \in Int
      BY <1>6, <3>2, NearSince
    <3>4. Offset(p.pinger.next) <= Offset(p.tm.now)
      BY <1>5, <1>6, <1>7, <3>3
    <3> QED BY <3>1, <3>4 DEF PingDue
  <2>13. r.tm.now = p.tm.now
    BY <1>3, <2>10 DEF Grown
  <2> QED BY <1>2, <2>10, <2>11, <2>12, <2>13 DEF Running, PingStep
<1>8. CASE ~(q.pinger.pending /\ Since(t.when, q.pinger.next) >= 0)
  <2>1. r = q
    BY <1>8 DEF pinger_timer
  <2>2. p.pinger.pending => t # [when |-> p.pinger.next, ctx |-> p.pinger.addr]
    <3>1. SUFFICES ASSUME p.pinger.pending,
                          t = [when |-> p.pinger.next, ctx |-> p.pinger.addr]
                   PROVE  FALSE
      OBVIOUS
    <3>2. p.pinger.next = t.when
      BY <3>1
    <3>3. Since(t.when, q.pinger.next) = 0 /\ q.pinger.pending
      BY <1>5, <1>6, <3>1, <3>2
    <3> QED BY <1>8, <3>3
  <2>3. Running(r, p) /\ PingStep(r, p) /\ r.tm = s
    BY <1>2, <2>1, <2>2, LessBooks
  <2> QED BY <1>2, <2>3, GrownSame
<1> QED BY <1>7, <1>8

(* One turn of the loop removes the first timer, which is expired or due, and all the
   timers that it adds are active and to come. *)
LEMMA RunFirstStep ==
    ASSUME NEW p, Books(p), ~AllRun(p.tm), NEW may \in BOOLEAN,
           NEW r, r = RunTimer(p, First(p.tm), may)
    PROVE  Running(r, p) /\ PingStep(r, p) /\ Grown(r.tm, Less(p.tm, First(p.tm)))
<1>1. p \in Programs /\ TimersType(p.tm) /\ p.tm \in Timers
  BY DEF Books, Programs, TimersType
<1>2. PICK t \in p.tm.timers : t = First(p.tm)
  BY <1>1, AllRunFacts
<1>3. t.ctx \notin p.tm.contexts \/ Offset(t.when) <= Offset(p.tm.now)
  BY <1>1, <1>2, AllRunFacts
<1>4. PICK q : q = [p EXCEPT !.tm.timers = @ \ {t}]
  OBVIOUS
<1>5. CASE t.ctx \notin p.tm.contexts
  <2>1. r = q
    BY <1>2, <1>4, <1>5 DEF RunTimer
  <2>2. t.ctx # Term
    BY <1>5 DEF Books, ContextsLive
  <2>3. p.pinger.addr \in p.tm.contexts =>
            t # [when |-> p.pinger.next, ctx |-> p.pinger.addr]
    BY <1>5
  <2>4. Running(q, p) /\ PingStep(q, p) /\ q.tm = Less(p.tm, t)
    BY <1>4, <2>2, <2>3, LessBooks
  <2> QED BY <1>2, <2>1, <2>4, GrownSame
<1>6. CASE t.ctx \in p.tm.contexts /\ t.ctx = Term
  <2>1. r = term_timer(q, t.when)
    BY <1>2, <1>4, <1>6 DEF RunTimer
  <2>2. /\ Books(r) /\ Grown(r.tm, Less(p.tm, t))
        /\ r.tm.contexts \subseteq p.tm.contexts \union {Term}
        /\ r = Retimed(p, r.tm, r.term)
    BY <1>4, <1>6, <2>1, TermTimerStep
  <2>3. /\ r.back = p.back /\ r.sock = p.sock /\ r.pinger = p.pinger
        /\ r.pings = p.pings
    BY <1>1, <2>2 DEF Retimed, Programs
  <2>4. r.pinger.addr \in r.tm.contexts => p.pinger.addr \in p.tm.contexts
    BY <1>6, <2>2, <2>3
  <2>5. r.tm.now = p.tm.now
    BY <1>1, <2>2, RemoveFacts DEF Grown, Less
  <2> QED BY <1>2, <2>2, <2>3, <2>4, <2>5 DEF Running, PingStep
<1>7. CASE t.ctx \in p.tm.contexts /\ t.ctx # Term
  <2>1. p.pinger.live /\ t.ctx = p.pinger.addr
    BY <1>7 DEF Books, ContextsLive
  <2>2. q.pinger = p.pinger
    BY <1>1, <1>4 DEF Programs
  <2>3. r = pinger_timer(q, t.when, may)
    BY <1>2, <1>4, <1>7, <2>1, <2>2 DEF RunTimer
  <2> QED BY <1>2, <1>3, <1>4, <1>7, <2>1, <2>3, PingerTimerStep
<1> QED BY <1>5, <1>6, <1>7

LEMMA RunningTwice ==
    ASSUME NEW p, NEW q, NEW r, Running(q, p), Running(r, q)
    PROVE  Running(r, p)
BY DEF Running

LEMMA PingTwice ==
    ASSUME NEW p, Books(p), NEW q, Running(q, p), PingStep(q, p),
           NEW r, Running(r, q), PingStep(r, q)
    PROVE  PingStep(r, p)
<1>1. CASE r.pinger = q.pinger /\ r.pings = q.pings
  <2>1. CASE q.pinger = p.pinger /\ q.pings = p.pings
    BY <1>1, <2>1 DEF PingStep
  <2>2. CASE PingDue(p) /\ FarPing(q)
    <3>1. FarPing(r)
      BY <1>1, <2>2 DEF FarPing, Running
    <3> QED BY <2>2, <3>1 DEF PingStep
  <2> QED BY <2>1, <2>2 DEF PingStep
<1>2. CASE PingDue(q) /\ FarPing(r)
  <2>1. CASE q.pinger = p.pinger
    <3>1. p.pinger.pending /\ p.pinger.addr \in p.tm.contexts
      BY <1>2, <2>1 DEF PingDue, Running
    <3>2. [when |-> p.pinger.next, ctx |-> p.pinger.addr] \in p.tm.timers
      BY <3>1 DEF Books, PingWaits
    <3>3. Offset(p.pinger.next) <= Offset(p.tm.now)
      BY <1>2, <2>1 DEF PingDue, Running
    <3>4. PingDue(p)
      BY <3>1, <3>2, <3>3 DEF PingDue
    <3> QED BY <1>2, <3>4 DEF PingStep
  <2>2. CASE PingDue(p) /\ FarPing(q)
    <3>1. /\ q.pinger.next \in Near /\ Offset(q.pinger.next) > Offset(q.tm.now)
          /\ Offset(q.pinger.next) <= Offset(q.tm.now)
      BY <1>2, <2>2 DEF PingDue, FarPing, PingStep
    <3>2. q.tm \in Timers
      BY DEF Running, Books, Programs
    <3>3. Offset(q.pinger.next) \in Int /\ Offset(q.tm.now) \in Int
      BY <3>1, <3>2, NearFacts, TimerFacts
    <3> QED BY <3>1, <3>3
  <2> QED BY <2>1, <2>2 DEF PingStep
<1> QED BY <1>1, <1>2 DEF PingStep

(* The timers that the loop has yet to remove: each turn removes one and adds none. *)
LeftOver(tm) ==
    {t \in tm.timers : t.ctx \notin tm.contexts \/ Offset(t.when) <= Offset(tm.now)}

LEMMA LeftOverFacts ==
    ASSUME NEW tm, TimersType(tm)
    PROVE  /\ IsFiniteSet(LeftOver(tm)) /\ Cardinality(LeftOver(tm)) \in Nat
           /\ Cardinality(LeftOver(tm)) <= Cardinality(tm.timers)
           /\ ~AllRun(tm) => First(tm) \in LeftOver(tm)
<1>1. LeftOver(tm) \in SUBSET tm.timers /\ IsFiniteSet(tm.timers)
  BY DEF LeftOver, TimersType
<1>2. IsFiniteSet(LeftOver(tm)) /\ Cardinality(LeftOver(tm)) <= Cardinality(tm.timers)
  BY <1>1, FS_Subset
<1>3. Cardinality(LeftOver(tm)) \in Nat
  BY <1>2, FS_CardinalityType
<1>4. ~AllRun(tm) => First(tm) \in LeftOver(tm)
  BY AllRunFacts DEF LeftOver
<1> QED BY <1>2, <1>3, <1>4

LEMMA LeftOverStep ==
    ASSUME NEW tm, TimersType(tm), ~AllRun(tm),
           NEW s, TimersType(s), Grown(s, Less(tm, First(tm)))
    PROVE  Cardinality(LeftOver(s)) <= Cardinality(LeftOver(tm)) - 1
<1>1. PICK t \in tm.timers : t = First(tm) /\ t \in LeftOver(tm)
  BY LeftOverFacts, AllRunFacts
<1>2. PICK m : m = Less(tm, t)
  OBVIOUS
<1>3. m.timers = tm.timers \ {t} /\ m.contexts = tm.contexts /\ m.now = tm.now
  BY <1>2, RemoveFacts DEF Less
<1>4. /\ s.now = tm.now /\ tm.contexts \subseteq s.contexts
      /\ \A u \in s.timers : \/ u \in tm.timers \ {t}
                             \/ u.ctx \in s.contexts /\ Offset(u.when) > Offset(s.now)
  BY <1>1, <1>2, <1>3 DEF Grown
<1>5. \A u \in s.timers : Offset(u.when) \in Int /\ Offset(s.now) \in Int
  BY TimerFacts DEF TimersType
<1>6. LeftOver(s) \subseteq LeftOver(tm) \ {t}
  BY <1>4, <1>5 DEF LeftOver
<1>7. /\ IsFiniteSet(LeftOver(tm)) /\ IsFiniteSet(LeftOver(s))
      /\ Cardinality(LeftOver(tm)) \in Nat /\ Cardinality(LeftOver(s)) \in Nat
  BY LeftOverFacts
<1>8. /\ IsFiniteSet(LeftOver(tm) \ {t})
      /\ Cardinality(LeftOver(tm) \ {t}) = Cardinality(LeftOver(tm)) - 1
  BY <1>1, <1>7, FS_RemoveElement
<1>9. Cardinality(LeftOver(s)) <= Cardinality(LeftOver(tm) \ {t})
  BY <1>6, <1>8, FS_Subset
<1> QED BY <1>8, <1>9

(* f[n] is the program after n turns. *)
Turns(f, p, may, m) ==
    f = [n \in 0 .. m |-> IF n = 0 THEN p ELSE RunFirst(f[n - 1], may)]

LEMMA TurnsExist ==
    ASSUME NEW p, NEW may, NEW m \in Nat
    PROVE  \E f : Turns(f, p, may, m)
<1> DEFINE B == {k \in Nat : ~ \E f : Turns(f, p, may, k)}
<1>1. SUFFICES ASSUME B # {} PROVE FALSE
  OBVIOUS
<1>2. PICK k \in B : \A j \in B : k <= j
  BY <1>1, LeastOf
<1>3. k # 0
  <2> DEFINE f == [n \in 0 .. 0 |-> p]
  <2>1. Turns(f, p, may, 0)
    BY DEF Turns
  <2> QED BY <2>1
<1>4. k \in Nat /\ k - 1 \in Nat /\ k - 1 \notin B
  BY <1>2, <1>3
<1>5. PICK g : Turns(g, p, may, k - 1)
  BY <1>4
<1> DEFINE f == [n \in 0 .. k |-> IF n = k THEN RunFirst(g[k - 1], may) ELSE g[n]]
           h == [n \in 0 .. k |-> IF n = 0 THEN p ELSE RunFirst(f[n - 1], may)]
<1>6. ASSUME NEW n \in 0 .. k
      PROVE  f[n] = IF n = 0 THEN p ELSE RunFirst(f[n - 1], may)
  <2>1. CASE n = k
    <3>1. f[n] = RunFirst(g[k - 1], may) /\ f[n - 1] = g[k - 1]
      BY <1>4, <2>1
    <3> QED BY <1>3, <2>1, <3>1
  <2>2. CASE n # k
    <3>1. n \in 0 .. k - 1 /\ f[n] = g[n]
      BY <1>4, <2>2
    <3>2. n # 0 => n - 1 \in 0 .. k /\ n - 1 # k /\ f[n - 1] = g[n - 1]
      BY <1>4, <2>2
    <3>3. g[n] = IF n = 0 THEN p ELSE RunFirst(g[n - 1], may)
      BY <1>5, <3>1 DEF Turns
    <3> QED BY <3>1, <3>2, <3>3
  <2> QED BY <2>1, <2>2
<1>7. DOMAIN f = 0 .. k /\ DOMAIN h = 0 .. k /\ \A n \in 0 .. k : f[n] = h[n]
  BY <1>6
<1>8. f = h
  <2>1. f = [n \in 0 .. k |-> f[n]] /\ h = [n \in 0 .. k |-> h[n]]
    OBVIOUS
  <2> HIDE DEF f, h
  <2> QED BY <1>7, <2>1
<1>9. Turns(f, p, may, k)
  BY <1>8 DEF Turns
<1> QED BY <1>2, <1>9

(* After n turns. *)
AfterTurns(r, p, left) ==
    /\ Running(r, p) /\ PingStep(r, p)
    /\ AllRun(r.tm) \/ Cardinality(LeftOver(r.tm)) <= left

LEMMA TurnFacts ==
    ASSUME NEW p, Books(p), NEW may \in BOOLEAN, NEW left \in Nat, left > 0,
           NEW q, AfterTurns(q, p, left), NEW r, r = RunFirst(q, may)
    PROVE  AfterTurns(r, p, left - 1)
<1>1. Running(q, p) /\ PingStep(q, p) /\ Books(q) /\ TimersType(q.tm)
  BY DEF AfterTurns, Running, Books, Programs, TimersType
<1>2. CASE AllRun(q.tm)
  <2>1. r = q
    BY <1>2 DEF RunFirst
  <2> QED BY <1>1, <1>2, <2>1 DEF AfterTurns
<1>3. CASE ~AllRun(q.tm)
  <2>1. r = RunTimer(q, First(q.tm), may)
    BY <1>3 DEF RunFirst
  <2>2. Running(r, q) /\ PingStep(r, q) /\ Grown(r.tm, Less(q.tm, First(q.tm)))
    BY <1>1, <1>3, <2>1, RunFirstStep
  <2>3. Running(r, p) /\ PingStep(r, p)
    BY <1>1, <2>2, RunningTwice, PingTwice
  <2>4. TimersType(r.tm)
    BY <2>2 DEF Running, Books, Programs, TimersType
  <2>5. Cardinality(LeftOver(r.tm)) <= Cardinality(LeftOver(q.tm)) - 1
    BY <1>1, <1>3, <2>2, <2>4, LeftOverStep
  <2>6. Cardinality(LeftOver(r.tm)) \in Nat /\ Cardinality(LeftOver(q.tm)) \in Nat
    BY <1>1, <2>4, LeftOverFacts
  <2>7. Cardinality(LeftOver(q.tm)) <= left
    BY <1>3 DEF AfterTurns
  <2>8. Cardinality(LeftOver(r.tm)) <= left - 1
    BY <2>5, <2>6, <2>7
  <2> QED BY <2>3, <2>8 DEF AfterTurns
<1> QED BY <1>2, <1>3

LEMMA TurnsFacts ==
    ASSUME NEW p, Books(p), NEW may \in BOOLEAN, NEW m, m = Cardinality(p.tm.timers),
           NEW f, Turns(f, p, may, m)
    PROVE  m \in Nat /\ Running(f[m], p) /\ PingStep(f[m], p) /\ AllRun(f[m].tm)
<1>1. TimersType(p.tm)
  BY DEF Books, Programs, TimersType
<1>2. m \in Nat
  BY <1>1, FS_CardinalityType DEF TimersType
<1> DEFINE B == {n \in 0 .. m : ~AfterTurns(f[n], p, m - n)}
<1>3. B = {}
  <2>1. SUFFICES ASSUME B # {} PROVE FALSE
    OBVIOUS
  <2>2. B \subseteq Nat
    OBVIOUS
  <2>3. PICK n \in B : \A j \in B : n <= j
    BY <2>1, <2>2, LeastOf
  <2>4. n \in 0 .. m /\ f[n] = IF n = 0 THEN p ELSE RunFirst(f[n - 1], may)
    BY DEF Turns
  <2>5. CASE n = 0
    <3>1. f[n] = p /\ m - n = m
      BY <1>2, <2>4, <2>5
    <3>2. Running(p, p) /\ PingStep(p, p)
      BY DEF Running, PingStep
    <3>3. Cardinality(LeftOver(p.tm)) <= m
      BY <1>1, LeftOverFacts
    <3>4. AfterTurns(p, p, m)
      BY <3>2, <3>3 DEF AfterTurns
    <3> QED BY <2>3, <3>1, <3>4
  <2>6. CASE n # 0
    <3>1. n - 1 \in 0 .. m /\ n - 1 \notin B
      BY <1>2, <2>3, <2>4, <2>6
    <3>2. AfterTurns(f[n - 1], p, m - (n - 1))
      BY <3>1
    <3>3. PICK left \in Nat : left = m - (n - 1) /\ left > 0 /\ left - 1 = m - n
      BY <1>2, <2>4, <2>6
    <3>4. PICK q, r : q = f[n - 1] /\ r = f[n] /\ r = RunFirst(q, may)
      BY <2>4, <2>6
    <3>5. AfterTurns(r, p, left - 1)
      BY <3>2, <3>3, <3>4, TurnFacts
    <3> QED BY <2>3, <3>3, <3>4, <3>5
  <2> QED BY <2>5, <2>6
<1>4. AfterTurns(f[m], p, m - m)
  BY <1>2, <1>3
<1>5. Running(f[m], p) /\ PingStep(f[m], p)
  BY <1>4 DEF AfterTurns
<1>6. AllRun(f[m].tm)
  <2>1. SUFFICES ASSUME ~AllRun(f[m].tm) PROVE FALSE
    OBVIOUS
  <2>2. PICK s : s = f[m].tm /\ TimersType(s)
    BY <1>5 DEF Running, Books, Programs, TimersType
  <2>3. Cardinality(LeftOver(s)) <= 0
    BY <1>2, <1>4, <2>1, <2>2 DEF AfterTurns
  <2>4. /\ IsFiniteSet(LeftOver(s)) /\ Cardinality(LeftOver(s)) \in Nat
        /\ First(s) \in LeftOver(s)
    BY <2>1, <2>2, LeftOverFacts
  <2>5. Cardinality(LeftOver(s)) = 0
    BY <2>3, <2>4
  <2>6. LeftOver(s) = {}
    BY <2>4, <2>5, FS_EmptySet
  <2> QED BY <2>4, <2>6
<1> QED BY <1>2, <1>5, <1>6

LEMMA RunTimersFacts ==
    ASSUME NEW p, NEW anow, NEW start, start = [p EXCEPT !.tm.now = anow], Books(start),
           NEW may \in BOOLEAN, NEW r, r = run_timers(p, anow, may)
    PROVE  Running(r, start) /\ PingStep(r, start) /\ AllRun(r.tm)
<1> DEFINE m == Cardinality(start.tm.timers)
           Q(f) == f = [n \in 0 .. m |-> IF n = 0 THEN start ELSE RunFirst(f[n - 1], may)]
           f == CHOOSE g : Q(g)
<1>1. TimersType(start.tm)
  BY DEF Books, Programs, TimersType
<1>2. m \in Nat
  BY <1>1, FS_CardinalityType DEF TimersType
<1>3. PICK g : Turns(g, start, may, m)
  <2> HIDE DEF m
  <2> QED BY <1>2, TurnsExist
<1>4. Q(f)
  BY <1>3 DEF Turns
<1>5. r = f[m]
  BY DEF run_timers
<1> HIDE DEF f
<1>6. Turns(f, start, may, m)
  BY <1>4 DEF Turns
<1>7. Running(f[m], start) /\ PingStep(f[m], start) /\ AllRun(f[m].tm)
  <2>1. PICK k : k = m
    OBVIOUS
  <2> QED BY <1>6, <2>1, TurnsFacts
<1> QED BY <1>5, <1>7

-----------------------------------------------------------------------------
(* The handlers of the message loop. *)

(* A socket and a pinger belong to the session that is open. *)
Held(p) == p.sock.open \/ p.pinger.live => p.back

Good(p) == Books(p) /\ ToCome(p.tm) /\ InTime(p.tm)

(* The pinger is as it was, or the next keepalive of the one there is now is an
   interval away. *)
PingKept(q, p) ==
    \/ FarPing(q)
    \/ /\ q.pinger = p.pinger
       /\ q.pinger.addr \in q.tm.contexts => p.pinger.addr \in p.tm.contexts

(* What a handler other than that of WM_TIMER does. *)
Event(q, p) == /\ Good(q) /\ q.tm.now = p.tm.now /\ q.pings = p.pings
               /\ PingKept(q, p) /\ (Held(p) => Held(q))

LEMMA EventSame ==
    ASSUME NEW p, Good(p)
    PROVE  Event(p, p)
BY DEF Event, PingKept

LEMMA EventTwice ==
    ASSUME NEW p, NEW q, Event(q, p), NEW r, Event(r, q)
    PROVE  Event(r, p)
<1>1. CASE FarPing(r)
  BY <1>1 DEF Event, PingKept
<1>2. CASE ~FarPing(r)
  <2>1. /\ r.pinger = q.pinger
        /\ r.pinger.addr \in r.tm.contexts => q.pinger.addr \in q.tm.contexts
        /\ r.tm.now = q.tm.now
    BY <1>2 DEF Event, PingKept
  <2>2. ~FarPing(q)
    BY <1>2, <2>1 DEF FarPing
  <2> QED BY <2>1, <2>2 DEF Event, PingKept
<1> QED BY <1>1, <1>2

LEMMA GoodFacts ==
    ASSUME NEW p, Good(p)
    PROVE  /\ p \in Programs /\ TimersType(p.tm) /\ Books(p)
           /\ p.tm \in Timers /\ p.term \in Terminals /\ p.pinger \in Pingers
           /\ p.sock \in Sockets /\ p.sock.open \in BOOLEAN /\ p.back \in BOOLEAN
           /\ p.queue \in Seq(Messages) /\ p.pending \in NetEvents \union {"none"}
           /\ p.box \in Boxes /\ p.ends \in Nat
BY DEF Good, Books, Programs, TimersType, Sockets

(* A step that leaves the timers and their clients alone. *)
LEMMA PlainEvent ==
    ASSUME NEW p, Good(p), NEW q \in Programs,
           q.tm = p.tm, q.term = p.term, q.pinger = p.pinger, q.stray = p.stray,
           q.pings = p.pings, q.sock.open => p.sock.open, p.back => q.back
    PROVE  Event(q, p)
<1>1. ContextsLive(q) /\ TermWaits(q) /\ PingWaits(q)
  BY DEF Good, Books, ContextsLive, TermWaits, PingWaits
<1>2. Held(p) => Held(q)
  BY DEF Held
<1>3. Good(q)
  BY <1>1 DEF Good, Books
<1> QED BY <1>2, <1>3 DEF Event, PingKept

(* A step of the terminal. *)
LEMMA TermEvent ==
    ASSUME NEW p, Good(p), NEW q, TermStep(q, p)
    PROVE  /\ Event(q, p) /\ q.sock = p.sock /\ q.back = p.back /\ q.pinger = p.pinger
<1>1. p \in Programs /\ Books(q) /\ q = Retimed(p, q.tm, q.term) /\ Grown(q.tm, p.tm)
  BY DEF Good, Books, TermStep
<1>2. /\ q.pinger = p.pinger /\ q.sock = p.sock /\ q.back = p.back /\ q.pings = p.pings
  BY <1>1 DEF Retimed, Programs
<1>3. Good(q) /\ (Held(p) => Held(q))
  BY <1>1, <1>2 DEF Good, Held, Grown
<1>4. q.pinger.addr \in q.tm.contexts => p.pinger.addr \in p.tm.contexts
         \/ p.pinger.addr = Term
  BY <1>2 DEF TermStep
<1>5. PingKept(q, p)
  <2>1. CASE q.pinger.pending
    <3>1. p.pinger.addr # Term
      BY <1>2, <2>1 DEF Good, Books, PingWaits, ContextsLive
    <3> QED BY <1>2, <1>4, <3>1 DEF PingKept
  <2>2. CASE ~q.pinger.pending
    BY <2>2 DEF PingKept, FarPing
  <2> QED BY <2>1, <2>2
<1> QED BY <1>1, <1>2, <1>3, <1>5 DEF Event, Grown

LEMMA OutputEvent ==
    ASSUME NEW p, Good(p)
    PROVE  /\ Event(Output(p), p) /\ Output(p).sock = p.sock /\ Output(p).back = p.back
           /\ Output(p).pinger = p.pinger
<1>1. TermStep(Output(p), p)
  BY ScheduleUpdateStep DEF Good, Output
<1> QED BY <1>1, TermEvent

(* The end of a connection. *)
Shut(p, y, k, n, x) == [p EXCEPT !.sock = y, !.ends = k, !.pending = n, !.queue = x]

LEMMA ShutType ==
    ASSUME NEW p \in Programs, NEW y \in Sockets, NEW k \in Nat,
           NEW n \in NetEvents \union {"none"}, NEW x \in Seq(Messages)
    PROVE  /\ Shut(p, y, k, n, x) \in Programs
           /\ Shut(p, y, k, n, x).tm = p.tm /\ Shut(p, y, k, n, x).term = p.term
           /\ Shut(p, y, k, n, x).pinger = p.pinger /\ Shut(p, y, k, n, x).stray = p.stray
           /\ Shut(p, y, k, n, x).pings = p.pings /\ Shut(p, y, k, n, x).sock = y
           /\ Shut(p, y, k, n, x).back = p.back
BY DEF Shut, Programs

LEMMA CloseEvent ==
    ASSUME NEW p, Good(p)
    PROVE  /\ Event(sk_close(p), p) /\ ~sk_close(p).sock.open
           /\ sk_close(p).back = p.back /\ sk_close(p).pinger = p.pinger
           /\ sk_close(p).tm = p.tm /\ sk_close(p).term = p.term
<1> DEFINE lost(m) == IF m \in NetEvents THEN "stale" ELSE m
           queue == [i \in DOMAIN p.queue |-> lost(p.queue[i])]
<1>1. p \in Programs /\ p.queue \in Seq(Messages) /\ p.pending \in NetEvents \union {"none"}
      /\ p.ends \in Nat
  BY GoodFacts
<1>2. \A m \in Messages : lost(m) \in Messages
  BY DEF Messages, NetEvents
<1>3. PICK n \in NetEvents \union {"none"} : n = lost(p.pending)
  BY <1>1 DEF NetEvents
<1>4. PICK x \in Seq(Messages) : x = queue
  <2>1. DOMAIN p.queue = 1 .. Len(p.queue) /\ Len(p.queue) \in Nat
        /\ \A i \in 1 .. Len(p.queue) : p.queue[i] \in Messages
    BY <1>1
  <2> HIDE DEF lost
  <2>2. queue \in [1 .. Len(p.queue) -> Messages]
    BY <1>2, <2>1
  <2>3. queue \in Seq(Messages)
    BY <2>1, <2>2
  <2> QED BY <2>3
<1>5. PICK y \in Sockets : y = NoSocket /\ ~y.open
  <2>1. NoSocket \in Sockets /\ ~NoSocket.open
    BY DEF NoSocket, Sockets
  <2> QED BY <2>1
<1>6. PICK k \in Nat : k = p.ends + 1
  BY <1>1
<1>7. PICK q : q = sk_close(p) /\ q = Shut(p, y, k, n, x)
  BY <1>1, <1>3, <1>4, <1>5, <1>6 DEF sk_close, Shut, Programs
<1>8. /\ q \in Programs /\ q.tm = p.tm /\ q.term = p.term /\ q.pinger = p.pinger
      /\ q.stray = p.stray /\ q.pings = p.pings /\ q.sock = y /\ q.back = p.back
  <2>1. p \in Programs
    BY <1>1
  <2>2. /\ Shut(p, y, k, n, x) \in Programs
        /\ Shut(p, y, k, n, x).tm = p.tm /\ Shut(p, y, k, n, x).term = p.term
        /\ Shut(p, y, k, n, x).pinger = p.pinger /\ Shut(p, y, k, n, x).stray = p.stray
        /\ Shut(p, y, k, n, x).pings = p.pings /\ Shut(p, y, k, n, x).sock = y
        /\ Shut(p, y, k, n, x).back = p.back
    BY <2>1, ShutType
  <2> QED BY <1>7, <2>2
<1>9. Event(q, p)
  BY <1>5, <1>8, PlainEvent
<1> QED BY <1>5, <1>7, <1>8, <1>9

LEMMA NotifyExitEvent ==
    ASSUME NEW p, Good(p)
    PROVE  Event(notify_remote_exit(p), p)
<1>1. p \in Programs
  BY GoodFacts
<1>2. PICK q : q = notify_remote_exit(p)
  OBVIOUS
<1>3. /\ q \in Programs /\ q.tm = p.tm /\ q.term = p.term /\ q.pinger = p.pinger
      /\ q.stray = p.stray /\ q.pings = p.pings /\ q.sock = p.sock /\ q.back = p.back
  BY <1>1, <1>2 DEF notify_remote_exit, Programs
<1> QED BY <1>2, <1>3, PlainEvent

LEMMA FatalEvent ==
    ASSUME NEW p, Good(p)
    PROVE  Event(connection_fatal(p), p)
<1>1. PICK o : o = Output(p)
  OBVIOUS
<1>2. Event(o, p) /\ Good(o) /\ o \in Programs
  BY <1>1, OutputEvent, GoodFacts DEF Event
<1>3. PICK q : q = connection_fatal(p)
  OBVIOUS
<1>4. q = [o EXCEPT !.quit = TRUE] \/ q = [o EXCEPT !.must_close = TRUE]
  BY <1>1, <1>3 DEF connection_fatal
<1>5. /\ q \in Programs /\ q.tm = o.tm /\ q.term = o.term /\ q.pinger = o.pinger
      /\ q.stray = o.stray /\ q.pings = o.pings /\ q.sock = o.sock /\ q.back = o.back
  BY <1>2, <1>4 DEF Programs
<1>6. Event(q, o)
  BY <1>2, <1>5, PlainEvent
<1> QED BY <1>2, <1>3, <1>6, EventTwice

LEMMA ClosingEvent ==
    ASSUME NEW p, Good(p), NEW error
    PROVE  Event(telnet_closing(p, error), p)
<1>1. PICK left : left = IF p.sock.open THEN notify_remote_exit(sk_close(p)) ELSE p
  OBVIOUS
<1>2. Event(left, p) /\ Good(left)
  <2>1. CASE p.sock.open
    <3>1. Event(sk_close(p), p) /\ Good(sk_close(p))
      BY CloseEvent DEF Event
    <3>2. Event(notify_remote_exit(sk_close(p)), sk_close(p))
      BY <3>1, NotifyExitEvent
    <3>3. Event(notify_remote_exit(sk_close(p)), p)
      BY <3>1, <3>2, EventTwice
    <3> QED BY <1>1, <2>1, <3>3 DEF Event
  <2>2. CASE ~p.sock.open
    BY <1>1, <2>2, EventSame
  <2> QED BY <2>1, <2>2
<1>3. Event(connection_fatal(left), left) /\ Event(connection_fatal(left), p)
  BY <1>2, FatalEvent, EventTwice
<1>4. telnet_closing(p, error) = IF error THEN connection_fatal(left) ELSE left
  BY <1>1 DEF telnet_closing
<1> QED BY <1>2, <1>3, <1>4

(* p with another state of its socket, open as it was. *)
LEMMA SocketEvent ==
    ASSUME NEW p, Good(p), NEW y \in Sockets, y.open => p.sock.open,
           NEW q, q = [p EXCEPT !.sock = y]
    PROVE  Event(q, p)
<1>1. p \in Programs
  BY GoodFacts
<1>2. /\ q \in Programs /\ q.tm = p.tm /\ q.term = p.term /\ q.pinger = p.pinger
      /\ q.stray = p.stray /\ q.pings = p.pings /\ q.sock = y /\ q.back = p.back
  BY <1>1 DEF Programs
<1> QED BY <1>2, PlainEvent

LEMMA FdReadEvent ==
    ASSUME NEW p, Good(p), NEW bell
    PROVE  Event(FdRead(p, bell), p)
<1>1. p \in Programs /\ p.sock \in Sockets
  BY GoodFacts
<1>2. PICK y \in Sockets : y = [p.sock EXCEPT !.armed = TRUE]
  BY <1>1 DEF Sockets
<1>3. y.open = p.sock.open
  BY <1>1, <1>2 DEF Sockets
<1>4. PICK q : q = [p EXCEPT !.sock = y]
  OBVIOUS
<1>5. Event(q, p) /\ Good(q) /\ q = [p EXCEPT !.sock.armed = TRUE]
  BY <1>1, <1>2, <1>4, <1>3, SocketEvent DEF Event, Programs
<1>6. CASE p.sock.unread
  <2>1. PICK o : o = Output(q)
    OBVIOUS
  <2>2. Event(o, q) /\ Good(o) /\ o \in Programs /\ o.sock \in Sockets /\ o.box \in Boxes
    BY <1>5, <2>1, OutputEvent, GoodFacts DEF Event
  <2>3. PICK z \in Sockets : z = [o.sock EXCEPT !.unread = FALSE]
    BY <2>2 DEF Sockets
  <2>4. z.open = o.sock.open
    BY <2>2, <2>3 DEF Sockets
  <2>5. PICK b \in Boxes : b = IF bell /\ p.beeps THEN EndOfLoop ELSE o.box
    BY <2>2 DEF Boxes
  <2>6. PICK r : /\ r = FdRead(p, bell)
                 /\ r = [o EXCEPT !.sock.unread = FALSE,
                                  !.box = IF bell /\ p.beeps THEN EndOfLoop ELSE @]
    BY <1>5, <1>6, <2>1 DEF FdRead
  <2>7. r = [o EXCEPT !.sock = z, !.box = b]
    BY <2>2, <2>3, <2>5, <2>6 DEF Programs
  <2>8. /\ r \in Programs /\ r.tm = o.tm /\ r.term = o.term /\ r.pinger = o.pinger
        /\ r.stray = o.stray /\ r.pings = o.pings /\ r.sock = z /\ r.back = o.back
    BY <2>2, <2>7 DEF Programs
  <2>9. Event(r, o)
    BY <2>2, <2>8, <2>4, PlainEvent
  <2>10. Event(r, p)
    BY <1>5, <2>2, <2>9, EventTwice
  <2> QED BY <2>6, <2>10
<1>7. CASE ~p.sock.unread
  <2>1. FdRead(p, bell) = IF p.sock.fin THEN telnet_closing(p, FALSE) ELSE q
    BY <1>5, <1>7 DEF FdRead
  <2>2. PICK f : f = FALSE
    OBVIOUS
  <2>3. Event(telnet_closing(p, f), p)
    BY ClosingEvent
  <2> QED BY <1>5, <2>1, <2>2, <2>3
<1> QED BY <1>6, <1>7

LEMMA ConnectedEvent ==
    ASSUME NEW p, Good(p), NEW blocked \in BOOLEAN,
           NEW q, q = [p EXCEPT !.sock.connected = TRUE, !.sock.told = FALSE,
                                !.sock.blocked = blocked]
    PROVE  Event(q, p)
<1>1. p \in Programs /\ p.sock \in Sockets
  BY GoodFacts
<1>2. PICK y \in Sockets : y = [p.sock EXCEPT !.connected = TRUE, !.told = FALSE,
                                              !.blocked = blocked]
  BY <1>1 DEF Sockets
<1>3. y.open = p.sock.open
  BY <1>1, <1>2 DEF Sockets
<1>4. PICK z : z = [p EXCEPT !.sock = y]
  OBVIOUS
<1>5. q = z
  BY <1>1, <1>2, <1>4 DEF Programs
<1>6. Event(z, p)
  BY <1>3, <1>4, SocketEvent
<1> QED BY <1>5, <1>6

LEMMA SelectEvent ==
    ASSUME NEW p, Good(p), NEW m, NEW bell
    PROVE  Event(select_result(p, m, bell), p)
<1>1. PICK r : r = select_result(p, m, bell)
  OBVIOUS
<1>2. CASE m = "connected"
  <2>1. PICK blocked \in BOOLEAN : blocked = ~cfg.ping
    OBVIOUS
  <2>2. r = [p EXCEPT !.sock.connected = TRUE, !.sock.told = FALSE,
                      !.sock.blocked = blocked]
    BY <1>1, <1>2, <2>1 DEF select_result
  <2> QED BY <1>1, <2>2, ConnectedEvent
<1>3. CASE m = "read"
  <2>1. r = FdRead(p, bell)
    BY <1>1, <1>3 DEF select_result
  <2> QED BY <1>1, <2>1, FdReadEvent
<1>4. CASE m = "close"
  <2>1. PICK o, f : o = (IF p.sock.unread THEN Output(p) ELSE p) /\ f = FALSE
    OBVIOUS
  <2>2. Event(o, p) /\ Good(o)
    BY <2>1, OutputEvent, EventSame DEF Event
  <2>3. r = telnet_closing(o, f)
    BY <1>1, <1>4, <2>1 DEF select_result
  <2>4. Event(r, o)
    BY <2>2, <2>3, ClosingEvent
  <2> QED BY <1>1, <2>2, <2>4, EventTwice
<1>5. CASE m \in {"refused", "reset"}
  <2>1. PICK t : t = TRUE
    OBVIOUS
  <2>2. r = telnet_closing(p, t)
    BY <1>1, <1>5, <2>1 DEF select_result
  <2> QED BY <1>1, <2>2, ClosingEvent
<1>6. CASE m \notin {"connected", "read", "close", "refused", "reset"}
  <2>1. r = p
    BY <1>1, <1>6 DEF select_result
  <2> QED BY <1>1, <2>1, EventSame
<1> QED BY <1>2, <1>3, <1>4, <1>5, <1>6

LEMMA PendingErrorsEvent ==
    ASSUME NEW p, Good(p)
    PROVE  Event(net_pending_errors(p), p)
<1>1. PICK t : t = TRUE
  OBVIOUS
<1>2. Event(telnet_closing(p, t), p) /\ Event(p, p)
  BY ClosingEvent, EventSame
<1> QED BY <1>1, <1>2 DEF net_pending_errors

LEMMA EnactEvent ==
    ASSUME NEW p, Good(p), NEW bell
    PROVE  Event(enact_pending_netevent(p, bell), p)
<1>1. CASE p.box # NoBox
  BY <1>1, EventSame DEF enact_pending_netevent
<1>2. CASE p.box = NoBox
  <2>1. PICK q, m : q = [p EXCEPT !.pending = "none"] /\ m = p.pending
    OBVIOUS
  <2>2. p \in Programs
    BY GoodFacts
  <2>3. /\ q \in Programs /\ q.tm = p.tm /\ q.term = p.term /\ q.pinger = p.pinger
        /\ q.stray = p.stray /\ q.pings = p.pings /\ q.sock = p.sock /\ q.back = p.back
    BY <2>1, <2>2 DEF Programs
  <2>4. Event(q, p) /\ Good(q)
    BY <2>3, PlainEvent DEF Event
  <2>5. Event(select_result(q, m, bell), q)
    BY <2>4, SelectEvent
  <2>6. enact_pending_netevent(p, bell) = select_result(q, m, bell)
    BY <1>2, <2>1 DEF enact_pending_netevent
  <2>7. Event(select_result(q, m, bell), p)
    BY <2>4, <2>5, EventTwice
  <2> QED BY <2>6, <2>7
<1> QED BY <1>1, <1>2

LEMMA KeepEvent ==
    ASSUME NEW p, Good(p), NEW m \in NetEvents, NEW bell
    PROVE  Event(KeepNetEvent(p, m, bell), p)
<1>1. PICK kept : kept = [p EXCEPT !.pending = m]
  OBVIOUS
<1>2. p \in Programs
  BY GoodFacts
<1>3. /\ kept \in Programs /\ kept.tm = p.tm /\ kept.term = p.term
      /\ kept.pinger = p.pinger /\ kept.stray = p.stray /\ kept.pings = p.pings
      /\ kept.sock = p.sock /\ kept.back = p.back
  BY <1>1, <1>2 DEF Programs
<1>4. Event(kept, p) /\ Good(kept)
  BY <1>3, PlainEvent DEF Event
<1>5. PICK e : e = IF m # "read" THEN enact_pending_netevent(kept, bell) ELSE kept
  OBVIOUS
<1>6. Event(e, kept) /\ Good(e)
  BY <1>4, <1>5, EnactEvent, EventSame DEF Event
<1>7. Event(net_pending_errors(e), e)
  BY <1>6, PendingErrorsEvent
<1>8. Event(net_pending_errors(e), p)
  BY <1>4, <1>6, <1>7, EventTwice
<1>9. KeepNetEvent(p, m, bell) = net_pending_errors(e)
  BY <1>1, <1>5 DEF KeepNetEvent
<1> QED BY <1>8, <1>9

LEMMA NetEventEvent ==
    ASSUME NEW p, Good(p), NEW m \in NetEvents, NEW bell
    PROVE  Event(OnNetEvent(p, m, bell), p)
<1>1. PICK e : e = IF p.pending # "none" THEN enact_pending_netevent(p, bell) ELSE p
  OBVIOUS
<1>2. Event(e, p) /\ Good(e) /\ e \in Programs
  BY <1>1, EnactEvent, EventSame, GoodFacts DEF Event
<1>3. CASE e.box # p.box
  <2>1. PICK q : q = [e EXCEPT !.box = m]
    OBVIOUS
  <2>2. /\ q \in Programs /\ q.tm = e.tm /\ q.term = e.term /\ q.pinger = e.pinger
        /\ q.stray = e.stray /\ q.pings = e.pings /\ q.sock = e.sock /\ q.back = e.back
    BY <1>2, <2>1 DEF Programs, Boxes
  <2>3. Event(q, e)
    BY <1>2, <2>2, PlainEvent
  <2>4. OnNetEvent(p, m, bell) = q
    BY <1>1, <1>3, <2>1 DEF OnNetEvent
  <2> QED BY <1>2, <2>3, <2>4, EventTwice
<1>4. CASE e.box = p.box
  <2>1. Event(KeepNetEvent(e, m, bell), e)
    BY <1>2, KeepEvent
  <2>2. OnNetEvent(p, m, bell) = KeepNetEvent(e, m, bell)
    BY <1>1, <1>4 DEF OnNetEvent
  <2>3. Event(KeepNetEvent(e, m, bell), p)
    BY <1>2, <2>1, EventTwice
  <2> QED BY <2>2, <2>3
<1> QED BY <1>3, <1>4

(* The end of a session: its timers stay in the tree, expired. *)
LEMMA PingerFreeFacts ==
    ASSUME NEW p, Good(p), NEW r, r = pinger_free(p)
    PROVE  /\ Good(r) /\ r.tm.now = p.tm.now /\ r.pings = p.pings
           /\ ~r.pinger.live /\ ~r.pinger.pending
           /\ r.sock = p.sock /\ r.back = p.back
<1>1. /\ p \in Programs /\ p.tm \in Timers /\ TimersType(p.tm) /\ p.pinger \in Pingers
      /\ Books(p)
  BY GoodFacts
<1>2. CASE ~p.pinger.live
  <2>1. r = p
    BY <1>2 DEF pinger_free
  <2> QED BY <1>1, <1>2, <2>1 DEF Books, PingWaits
<1>3. CASE p.pinger.live
  <2>1. PICK g \in Pingers : g = NoPinger
    <3>1. NoPinger \in Pingers
      BY DEF NoPinger, Pingers, Term, Times
    <3> QED BY <3>1
  <2>2. ~g.live /\ ~g.pending /\ g.next = None
    BY <2>1 DEF NoPinger
  <2>3. PICK s : s = [p.tm EXCEPT !.contexts = @ \ {p.pinger.addr}]
    OBVIOUS
  <2>4. /\ s \in Timers /\ s.timers = p.tm.timers /\ s.now = p.tm.now
        /\ s.window = p.tm.window /\ s.contexts = p.tm.contexts \ {p.pinger.addr}
    BY <1>1, <2>3 DEF Timers
  <2>5. r = Repinged(p, s, g)
    BY <1>1, <1>3, <2>1, <2>3 DEF pinger_free, expire_timer_context, Repinged, Programs
  <2>6. r \in Programs /\ r.tm = s /\ r.term = p.term /\ r.pinger = g /\ r.stray = p.stray
    BY <1>1, <2>4, <2>5, RepingedType
  <2>7. r.pings = p.pings /\ r.sock = p.sock /\ r.back = p.back
    BY <1>1, <2>5 DEF Repinged, Programs
  <2>8. ContextsLive(r)
    BY <1>1, <1>3, <2>2, <2>4, <2>6 DEF Books, ContextsLive
  <2>9. TermWaits(r) /\ PingWaits(r)
    BY <1>1, <2>2, <2>4, <2>6 DEF Books, TermWaits, PingWaits
  <2>10. Books(r)
    BY <1>1, <2>4, <2>6, <2>8, <2>9 DEF Books
  <2>11. ToCome(r.tm) /\ InTime(r.tm)
    BY <2>4, <2>6 DEF Good, ToCome, InTime
  <2> QED BY <2>2, <2>4, <2>6, <2>7, <2>10, <2>11 DEF Good
<1> QED BY <1>2, <1>3

LEMMA CloseSessionEvent ==
    ASSUME NEW p, Good(p)
    PROVE  Event(close_session(p), p)
<1>1. PICK q : q = [p EXCEPT !.closed = TRUE, !.back = FALSE]
  OBVIOUS
<1>2. p \in Programs
  BY GoodFacts
<1>3. /\ q \in Programs /\ q.tm = p.tm /\ q.term = p.term /\ q.pinger = p.pinger
      /\ q.stray = p.stray /\ q.pings = p.pings /\ q.sock = p.sock /\ q.back = FALSE
  BY <1>1, <1>2 DEF Programs
<1>4. CASE ~p.back
  <2>1. Event(q, p)
    BY <1>3, <1>4, PlainEvent
  <2> QED BY <1>1, <1>4, <2>1 DEF close_session
<1>5. CASE p.back
  <2>1. Good(q)
    BY <1>3 DEF Good, Books, ContextsLive, TermWaits, PingWaits
  <2>2. PICK s : s = IF q.sock.open THEN sk_close(q) ELSE q
    OBVIOUS
  <2>3. Good(s) /\ s.tm.now = q.tm.now /\ s.pings = q.pings /\ ~s.sock.open
    BY <2>1, <2>2, CloseEvent DEF Event
  <2>4. PICK r : r = pinger_free(s)
    OBVIOUS
  <2>5. /\ Good(r) /\ r.tm.now = s.tm.now /\ r.pings = s.pings
        /\ ~r.pinger.live /\ ~r.pinger.pending /\ r.sock = s.sock
    BY <2>3, <2>4, PingerFreeFacts
  <2>6. Event(r, p)
    BY <1>3, <2>3, <2>5 DEF Event, PingKept, FarPing, Held
  <2>7. close_session(p) = r
    BY <1>1, <1>5, <2>2, <2>4 DEF close_session, telnet_free
  <2> QED BY <2>6, <2>7
<1> QED BY <1>4, <1>5

LEMMA IfMustCloseEvent ==
    ASSUME NEW p, Good(p)
    PROVE  Event(IfMustClose(p), p)
<1>1. CASE ~(p.must_close /\ p.box = NoBox)
  BY <1>1, EventSame DEF IfMustClose
<1>2. CASE p.must_close /\ p.box = NoBox
  <2>1. PICK c : c = close_session(p)
    OBVIOUS
  <2>2. Event(c, p) /\ Good(c) /\ c \in Programs /\ c.queue \in Seq(Messages)
    BY <2>1, CloseSessionEvent, GoodFacts DEF Event
  <2>3. PICK m \in Messages : m = "restart"
    BY DEF Messages
  <2>4. PICK x \in Seq(Messages) : x = Append(c.queue, m)
    <3>1. PICK y \in Seq(Messages) : y = c.queue
      BY <2>2
    <3>2. Append(y, m) \in Seq(Messages)
      OBVIOUS
    <3> QED BY <3>1, <3>2
  <2>5. PICK q : q = [c EXCEPT !.queue = x, !.must_close = FALSE]
    OBVIOUS
  <2>6. /\ q \in Programs /\ q.tm = c.tm /\ q.term = c.term /\ q.pinger = c.pinger
        /\ q.stray = c.stray /\ q.pings = c.pings /\ q.sock = c.sock /\ q.back = c.back
    BY <2>2, <2>5 DEF Programs
  <2>7. Event(q, c)
    BY <2>2, <2>6, PlainEvent
  <2>8. IfMustClose(p) = q
    BY <1>2, <2>1, <2>2, <2>3, <2>4, <2>5 DEF IfMustClose, Programs
  <2> QED BY <2>2, <2>7, <2>8, EventTwice
<1> QED BY <1>1, <1>2

(* A session starts where none is: no timer of an earlier pinger can be taken for one
   of the new pinger's. *)
NewPinger(addr) == [live |-> TRUE, addr |-> addr, pending |-> FALSE, next |-> None]

LEMMA StartEvent ==
    ASSUME NEW p, Good(p), Held(p), ~p.back, NEW addr \in Nat, addr # Term,
           SameTick \/ [when |-> Scheduled(p.tm, Interval), ctx |-> addr] \notin p.tm.timers,
           NEW r, r = start_backend(p, addr)
    PROVE  Event(r, p) /\ FarPing(r) /\ Held(r)
<1>1. p \in Programs /\ p.tm \in Timers /\ TimersType(p.tm) /\ Books(p)
  BY GoodFacts
<1>2. ~p.pinger.live /\ ~p.sock.open
  BY DEF Held
<1>3. PICK g \in Pingers : g = NewPinger(addr)
  <2>1. PICK yes \in BOOLEAN : yes = TRUE
    OBVIOUS
  <2>2. PICK no \in BOOLEAN : no = FALSE
    OBVIOUS
  <2>3. PICK none \in Times : none = None
    BY DEF Times
  <2>4. [live |-> yes, addr |-> addr, pending |-> no, next |-> none] \in Pingers
    BY DEF Pingers
  <2> QED BY <2>1, <2>2, <2>3, <2>4 DEF NewPinger
<1>4. g.live /\ g.addr = addr /\ ~g.pending /\ g.next = None
  BY <1>3 DEF NewPinger
<1>5. PICK y \in Sockets : y = NewSocket
  <2>1. PICK n \in Sockets : n = NoSocket
    <3>1. NoSocket \in Sockets
      BY DEF NoSocket, Sockets
    <3> QED BY <3>1
  <2>2. [n EXCEPT !.open = TRUE, !.armed = TRUE] \in Sockets
    BY DEF Sockets
  <2> QED BY <2>1, <2>2 DEF NewSocket
<1>6. PICK q : q = [p EXCEPT !.back = TRUE, !.sock = y, !.pinger = g]
  OBVIOUS
<1>7. /\ q \in Programs /\ q.tm = p.tm /\ q.term = p.term /\ q.pinger = g
      /\ q.stray = p.stray /\ q.pings = p.pings /\ q.sock = y /\ q.back = TRUE
  BY <1>1, <1>6 DEF Programs
<1>8. Base(q)
  <2>1. ContextsLive(q)
    BY <1>1, <1>2, <1>4, <1>7 DEF Books, ContextsLive
  <2>2. TermWaits(q)
    BY <1>1, <1>7 DEF Books, TermWaits
  <2> QED BY <1>1, <1>7, <2>1, <2>2 DEF Base, Books
<1>9. Schedulable(q)
  BY <1>4, <1>7 DEF Schedulable
<1>10. PICK s : s = pinger_schedule(q)
  OBVIOUS
<1>11. /\ Books(s) /\ Grown(s.tm, q.tm) /\ FarPing(s) /\ s = Repinged(q, s.tm, s.pinger)
       /\ s.pinger.live
  BY <1>4, <1>7, <1>8, <1>9, <1>10, PingerScheduleStep
<1>12. s \in Programs /\ s.back = TRUE /\ s.pings = p.pings /\ s.tm.now = p.tm.now /\ Good(s)
  BY <1>7, <1>11 DEF Repinged, Programs, Books, Grown, Good
<1>13. PICK u : u = [s EXCEPT !.must_close = FALSE, !.closed = FALSE]
  OBVIOUS
<1>14. /\ u \in Programs /\ u.tm = s.tm /\ u.term = s.term /\ u.pinger = s.pinger
       /\ u.stray = s.stray /\ u.pings = s.pings /\ u.sock = s.sock /\ u.back = s.back
  BY <1>12, <1>13 DEF Programs
<1>15. Event(u, s) /\ Good(u)
  BY <1>12, <1>14, PlainEvent DEF Event
<1>16. PICK v : v = term_schedule_cblink(u)
  OBVIOUS
<1>17. TermStep(v, u) /\ Event(v, u) /\ Good(v)
  BY <1>15, <1>16, ScheduleBlinkStep, TermEvent DEF Good, Event
<1>18. Event(term_update(v), v)
  BY <1>17, TermUpdateStep, TermEvent DEF Good
<1>19. r = term_update(v)
  <2>1. s = pinger_new([p EXCEPT !.back = TRUE, !.sock = NewSocket], addr)
    BY <1>1, <1>3, <1>5, <1>6, <1>10 DEF pinger_new, NewPinger, Programs
  <2> QED BY <1>13, <1>16, <2>1 DEF start_backend
<1>20. Event(r, s)
  BY <1>12, <1>15, <1>17, <1>18, <1>19, EventTwice
<1>21. FarPing(r)
  BY <1>11, <1>20 DEF Event, PingKept, FarPing
<1>22. Held(r)
  BY <1>12, <1>20 DEF Event, Held
<1> QED BY <1>12, <1>20, <1>21, <1>22 DEF Event, PingKept

(* There is such an address for the new pinger: there are more addresses to choose
   from than timers. *)
LEMMA AddressFacts ==
    ASSUME Good(w)
    PROVE  /\ Address \in Nat /\ Address # Term
           /\ SameTick \/ [when |-> Scheduled(w.tm, Interval), ctx |-> Address]
                            \notin w.tm.timers
<1> DEFINE T == w.tm.timers
           n == Cardinality(T)
           at(a) == [when |-> Scheduled(w.tm, Interval), ctx |-> a]
           free == {a \in 1 .. n + 1 : ~(~SameTick /\ at(a) \in T)}
<1>1. IsFiniteSet(T)
  BY GoodFacts DEF TimersType
<1>2. n \in Nat
  BY <1>1, FS_CardinalityType
<1>3. free # {}
  <2>1. SUFFICES ASSUME free = {} PROVE FALSE
    OBVIOUS
  <2>2. \A a \in 1 .. n + 1 : at(a) \in T
    BY <2>1
  <2>3. \A a, b : at(a) = at(b) => a = b
    OBVIOUS
  <2> DEFINE f == [a \in 1 .. n + 1 |-> at(a)]
  <2> HIDE DEF at, n
  <2>4. f \in Injection(1 .. n + 1, T)
    BY <2>2, <2>3 DEF Injection, IsInjective
  <2>5. Cardinality(1 .. n + 1) <= Cardinality(T)
    BY <1>1, <2>4, FS_Injection
  <2>6. Cardinality(1 .. n + 1) = n + 1
    <3>1. PICK k \in Int : k = n + 1 /\ k >= 1
      BY <1>2
    <3>2. PICK one \in Int : one = 1
      OBVIOUS
    <3>3. Cardinality(one .. k) = k - one + 1
      BY <3>1, <3>2, FS_Interval
    <3> QED BY <1>2, <3>1, <3>2, <3>3
  <2> QED BY <1>2, <2>5, <2>6 DEF n
<1>4. Address = Min(free)
  BY DEF Address
<1>5. free \subseteq Nat /\ \A a \in free : a # 0
  BY <1>2
<1> HIDE DEF free, n, at
<1>6. \E m \in free : \A k \in free : m <= k
  BY <1>3, <1>5, LeastOf
<1>7. Address \in free
  BY <1>4, <1>6 DEF Min
<1>8. SameTick \/ at(Address) \notin T
  BY <1>7 DEF free
<1> QED BY <1>5, <1>7, <1>8 DEF at, Term

(* The message WM_TIMER. *)
LEMMA RunTimesFacts ==
    ASSUME NEW anow \in RunTimes
    PROVE  anow \in Nows
<1>1. PICK d \in -Skew .. Skew : anow = Later(0, d)
  BY DEF RunTimes
<1>2. d \in Int /\ -Skew <= d /\ d <= Skew
  BY <1>1, LongestFacts
<1>3. PICK zero \in Nat : zero = 0
  OBVIOUS
<1>4. zero \in Ticks /\ Offset(zero) = 0
  BY <1>3, LongestFacts, NumberOffset
<1>5. -Wrap <= 2 * d /\ 2 * d < Wrap
  BY <1>2, LongestFacts
<1>6. Later(zero, d) \in Ticks /\ Offset(Later(zero, d)) = d
  BY <1>2, <1>4, <1>5, LaterOffset
<1>7. anow \in Ticks /\ Offset(anow) = d
  BY <1>1, <1>3, <1>6
<1>8. d <= Edge /\ 2 * (Edge - d) < Wrap
  BY <1>2, LongestFacts
<1> QED BY <1>2, <1>7, <1>8 DEF Nows, Near

(* p with other timers that hold the same entries. *)
WithTimers(p, s) == [p EXCEPT !.tm = s]

LEMMA WithTimersBooks ==
    ASSUME NEW p, Books(p), NEW s, TimersType(s), s.timers = p.tm.timers,
           s.contexts = p.tm.contexts
    PROVE  /\ Books(WithTimers(p, s)) /\ WithTimers(p, s).tm = s
           /\ WithTimers(p, s).pinger = p.pinger /\ WithTimers(p, s).sock = p.sock
           /\ WithTimers(p, s).back = p.back /\ WithTimers(p, s).pings = p.pings
<1>1. p \in Programs /\ s \in Timers /\ IsFiniteSet(s.timers)
  BY DEF Books, TimersType
<1>2. PICK q : q = WithTimers(p, s)
  OBVIOUS
<1>3. /\ q \in Programs /\ q.tm = s /\ q.term = p.term /\ q.pinger = p.pinger
      /\ q.stray = p.stray /\ q.pings = p.pings /\ q.sock = p.sock /\ q.back = p.back
  BY <1>1, <1>2 DEF WithTimers, Programs
<1>4. ContextsLive(q) /\ TermWaits(q) /\ PingWaits(q)
  BY <1>3 DEF Books, ContextsLive, TermWaits, PingWaits
<1>5. Books(q)
  BY <1>1, <1>3, <1>4 DEF Books
<1> QED BY <1>2, <1>3, <1>5

(* A keepalive that is sent was due, up to the time that run_timers() trusts. *)
PingSent(r, p) ==
    \/ /\ r.pinger = p.pinger /\ r.pings = p.pings
       /\ r.pinger.addr \in r.tm.contexts => p.pinger.addr \in p.tm.contexts
    \/ /\ p.pinger.pending /\ p.pinger.addr \in p.tm.contexts
       /\ p.pinger.next \in Near /\ Offset(p.pinger.next) <= Skew
       /\ FarPing(r)

LEMMA OnTimerFacts ==
    ASSUME NEW p, Good(p), NEW anow \in RunTimes, NEW may \in BOOLEAN,
           NEW r, r = OnTimer(p, anow, may)
    PROVE  /\ Good(r) /\ (Held(p) => Held(r)) /\ PingSent(r, p)
           /\ r.pinger.live = p.pinger.live
<1>1. p \in Programs /\ p.tm \in Timers /\ TimersType(p.tm) /\ Books(p)
  BY GoodFacts
<1>2. anow \in Nows /\ anow \in Near /\ Offset(anow) <= Skew /\ Offset(anow) \in Int
  BY RunTimesFacts, NearFacts DEF Nows
<1>3. PICK p1 : p1 = [p EXCEPT !.tm.window = None]
  OBVIOUS
<1>4. PICK start : start = [p1 EXCEPT !.tm.now = anow]
  OBVIOUS
<1>5. PICK s : s = [p.tm EXCEPT !.window = None, !.now = anow]
  OBVIOUS
<1>6. /\ TimersType(s) /\ s.timers = p.tm.timers /\ s.contexts = p.tm.contexts
      /\ s.now = anow
  BY <1>1, <1>2, <1>5 DEF TimersType, Timers
<1>7. start = WithTimers(p, s)
  BY <1>1, <1>3, <1>4, <1>5 DEF WithTimers, Programs, Timers
<1>8. /\ Books(start) /\ start.tm = s /\ start.pinger = p.pinger /\ start.sock = p.sock
      /\ start.back = p.back /\ start.pings = p.pings
  BY <1>1, <1>6, <1>7, WithTimersBooks
<1>9. PICK ran : ran = run_timers(p1, anow, may)
  OBVIOUS
<1>10. Running(ran, start) /\ PingStep(ran, start) /\ AllRun(ran.tm)
  BY <1>4, <1>8, <1>9, RunTimersFacts
<1>11. TimersType(ran.tm) /\ ToCome(ran.tm) /\ Books(ran)
  BY <1>10, AllRunFacts DEF Running, Books, Programs, TimersType
<1>12. /\ Good(r) /\ r.pinger = ran.pinger /\ r.sock = ran.sock /\ r.back = ran.back
       /\ r.pings = ran.pings /\ r.tm.contexts = ran.tm.contexts /\ r.tm.now = ran.tm.now
  <2>1. CASE ran.tm.timers = {}
    <3>1. r = ran
      BY <1>3, <1>9, <2>1 DEF OnTimer
    <3> QED BY <1>11, <2>1, <3>1 DEF Good, InTime
  <2>2. CASE ran.tm.timers # {}
    <3>1. PICK u : u = timer_change_notify(ran.tm, First(ran.tm).when)
      OBVIOUS
    <3>2. PICK tm : tm = ran.tm /\ TimersType(tm) /\ tm.timers # {} /\ ToCome(tm)
                    /\ u = timer_change_notify(tm, First(tm).when)
      BY <1>11, <2>2, <3>1
    <3>3. /\ TimersType(u) /\ ToCome(u) /\ InTime(u) /\ u.timers = tm.timers
          /\ u.contexts = tm.contexts /\ u.now = tm.now
      BY <3>2, RearmFacts
    <3>4. r = WithTimers(ran, u)
      BY <1>3, <1>9, <2>2, <3>1 DEF OnTimer, WithTimers
    <3>5. /\ Books(r) /\ r.tm = u /\ r.pinger = ran.pinger /\ r.sock = ran.sock
          /\ r.back = ran.back /\ r.pings = ran.pings
      BY <1>11, <3>2, <3>3, <3>4, WithTimersBooks
    <3> QED BY <3>2, <3>3, <3>5 DEF Good
  <2> QED BY <2>1, <2>2
<1>13. Held(p) => Held(r)
  BY <1>8, <1>10, <1>12 DEF Held, Running
<1>14. PingSent(r, p)
  <2>1. CASE ran.pinger = start.pinger /\ ran.pings = start.pings
    BY <1>6, <1>8, <1>10, <1>12, <2>1 DEF PingSent, Running
  <2>2. CASE PingDue(start) /\ FarPing(ran)
    <3>1. /\ p.pinger.pending /\ p.pinger.addr \in p.tm.contexts
          /\ [when |-> p.pinger.next, ctx |-> p.pinger.addr] \in p.tm.timers
          /\ Offset(p.pinger.next) <= Offset(anow)
      BY <1>6, <1>8, <2>2 DEF PingDue
    <3>2. PICK t \in p.tm.timers : t = [when |-> p.pinger.next, ctx |-> p.pinger.addr]
      BY <3>1
    <3>3. p.pinger.next \in Near /\ Offset(p.pinger.next) \in Int
      <4>1. t.when \in Near /\ t.when = p.pinger.next
        BY <1>1, <3>2, TimerFacts
      <4> QED BY <4>1, NearFacts
    <3>4. Offset(p.pinger.next) <= Skew
      BY <1>2, <3>1, <3>3, LongestFacts
    <3>5. FarPing(r)
      BY <1>12, <2>2 DEF FarPing
    <3> QED BY <3>1, <3>3, <3>4, <3>5 DEF PingSent
  <2> QED BY <1>10, <2>1, <2>2 DEF PingStep
<1>15. r.pinger.live = p.pinger.live
  BY <1>8, <1>10, <1>12 DEF Running
<1> QED BY <1>12, <1>13, <1>14, <1>15

-----------------------------------------------------------------------------
(* The inductive invariant. *)

(* A keepalive that its timer will send comes no sooner than an interval after the last,
   or after the start of the session. *)
Spaced(p, n) ==
    p.pinger.pending /\ p.pinger.addr \in p.tm.contexts =>
      n >= Interval \/ Offset(p.pinger.next) + n >= Interval

IInv ==
    /\ Good(w) /\ Held(w) /\ w.pings = FALSE
    /\ quiet \in 0 .. Interval
    /\ IF cfg.ping THEN Spaced(w, quiet) ELSE quiet = 0

(* What a step of the program is to the next one: keepalives are left alone, or the
   last was due. *)
Sent(r, p) ==
    /\ p.pinger.pending /\ p.pinger.addr \in p.tm.contexts
    /\ p.pinger.next \in Near /\ Offset(p.pinger.next) <= Skew
    /\ FarPing(r)
Allowed(r, p) ==
    /\ Good(r) /\ (Held(p) => Held(r))
    /\ (PingKept(r, p) /\ r.pings = p.pings) \/ Sent(r, p)

LEMMA EventAllowed ==
    ASSUME NEW p, NEW r, Event(r, p)
    PROVE  Allowed(r, p)
BY DEF Event, Allowed

LEMMA TimerAllowed ==
    ASSUME NEW p, Good(p), NEW anow \in RunTimes, NEW may \in BOOLEAN,
           NEW r, Event(r, OnTimer(p, anow, may))
    PROVE  Allowed(r, p)
<1>1. PICK e : e = OnTimer(p, anow, may) /\ Event(r, e)
  OBVIOUS
<1>2. Good(e) /\ (Held(p) => Held(e)) /\ PingSent(e, p)
  BY <1>1, OnTimerFacts
<1>3. Good(r) /\ (Held(p) => Held(r))
  BY <1>1, <1>2 DEF Event
<1>4. CASE /\ e.pinger = p.pinger /\ e.pings = p.pings
           /\ e.pinger.addr \in e.tm.contexts => p.pinger.addr \in p.tm.contexts
  BY <1>1, <1>3, <1>4 DEF Allowed, Event, PingKept
<1>5. CASE /\ p.pinger.pending /\ p.pinger.addr \in p.tm.contexts
           /\ p.pinger.next \in Near /\ Offset(p.pinger.next) <= Skew
           /\ FarPing(e)
  <2>1. FarPing(r)
    BY <1>1, <1>5 DEF Event, PingKept, FarPing
  <2> QED BY <1>3, <1>5, <2>1 DEF Allowed, Sent
<1> QED BY <1>2, <1>4, <1>5 DEF PingSent

(* A step that becomes p keeps the invariant, and keepalives apart. *)
LEMMA BecomesStep ==
    ASSUME IInv, NEW p, Allowed(p, w), Becomes(p)
    PROVE  /\ IInv'
           /\ quiet' < quiet /\ w.pinger.live /\ w'.pinger.live => quiet >= Interval - Skew
<1>1. /\ Good(w) /\ Held(w) /\ w.pings = FALSE /\ quiet \in Nat /\ quiet <= Interval
      /\ Interval \in Nat /\ Skew \in Nat /\ Interval >= 0
  BY SessionAssumption, TickAssumption DEF IInv
<1>2. Good(p) /\ Held(p)
  BY <1>1 DEF Allowed
<1>3. /\ w' = [p EXCEPT !.pings = FALSE] /\ cfg' = cfg
      /\ quiet' = IF p.pings \/ (p.pinger.live /\ ~w.pinger.live) THEN 0 ELSE quiet
  BY DEF Becomes
<1>4. PICK q : q = w'
  OBVIOUS
<1>5. p \in Programs
  BY <1>2, GoodFacts
<1>6. /\ q \in Programs /\ q.tm = p.tm /\ q.term = p.term /\ q.pinger = p.pinger
      /\ q.stray = p.stray /\ q.pings = FALSE /\ q.sock = p.sock /\ q.back = p.back
  BY <1>3, <1>4, <1>5 DEF Programs
<1>7. Good(q) /\ Held(q)
  BY <1>2, <1>6 DEF Good, Books, ContextsLive, TermWaits, PingWaits, Held
<1>8. quiet' \in 0 .. Interval
  BY <1>1, <1>3
<1>9. FarPing(q) => Spaced(q, quiet')
  <2>1. SUFFICES ASSUME FarPing(q), q.pinger.pending
                 PROVE  Offset(q.pinger.next) + quiet' >= Interval
    BY DEF Spaced
  <2>2. q.pinger.next \in Near /\ Offset(q.pinger.next) >= Interval
    BY <2>1 DEF FarPing
  <2>3. Offset(q.pinger.next) \in Int
    BY <2>2, NearFacts
  <2> QED BY <1>1, <1>8, <2>2, <2>3
<1>10. CASE PingKept(p, w) /\ p.pings = w.pings
  <2>1. w.pinger.live => quiet' = quiet
    BY <1>1, <1>3, <1>10
  <2>2. FarPing(q) \/ (q.pinger = w.pinger /\ quiet' = quiet
                       /\ (q.pinger.addr \in q.tm.contexts =>
                             w.pinger.addr \in w.tm.contexts))
    BY <1>1, <1>3, <1>6, <1>10 DEF PingKept, FarPing
  <2>3. IF cfg.ping THEN Spaced(q, quiet') ELSE quiet' = 0
    <3>1. CASE ~cfg.ping
      BY <1>3, <3>1 DEF IInv
    <3>2. CASE cfg.ping
      BY <1>9, <2>2, <3>2 DEF IInv, Spaced
    <3> QED BY <3>1, <3>2
  <2>4. IInv'
    BY <1>3, <1>4, <1>6, <1>7, <1>8, <2>3 DEF IInv
  <2> QED BY <1>1, <2>1, <2>4
<1>11. CASE Sent(p, w)
  <2>1. FarPing(q)
    BY <1>6, <1>11 DEF Sent, FarPing
  <2>2. IF cfg.ping THEN Spaced(q, quiet') ELSE quiet' = 0
    BY <1>3, <1>9, <2>1 DEF IInv
  <2>3. IInv'
    BY <1>3, <1>4, <1>6, <1>7, <1>8, <2>2 DEF IInv
  <2>4. quiet' < quiet => quiet >= Interval - Skew
    <3>1. CASE ~cfg.ping
      <4>1. quiet = 0
        BY <3>1 DEF IInv
      <4> QED BY <1>8, <4>1
    <3>2. CASE cfg.ping
      <4>1. quiet >= Interval \/ Offset(w.pinger.next) + quiet >= Interval
        BY <1>11, <3>2 DEF IInv, Spaced, Sent
      <4>2. Offset(w.pinger.next) \in Int /\ Offset(w.pinger.next) <= Skew
        BY <1>11, NearFacts DEF Sent
      <4> QED BY <1>1, <4>1, <4>2
    <3> QED BY <3>1, <3>2
  <2> QED BY <2>3, <2>4
<1> QED BY <1>10, <1>11 DEF Allowed

-----------------------------------------------------------------------------
(* The actions. *)

LEMMA TakenEvent ==
    ASSUME NEW p, Good(p), p.queue # <<>>
    PROVE  Event(Taken(p), p) /\ Taken(p).tm = p.tm /\ Taken(p).back = p.back
<1>1. p \in Programs /\ p.queue \in Seq(Messages)
  BY GoodFacts
<1>2. PICK x \in Seq(Messages) : x = Tail(p.queue)
  <2>1. PICK y \in Seq(Messages) : y = p.queue /\ y # <<>>
    BY <1>1
  <2>2. Tail(y) \in Seq(Messages)
    BY <2>1
  <2> QED BY <2>1, <2>2
<1>3. PICK q : q = Taken(p) /\ q = [p EXCEPT !.queue = x, !.awake = TRUE]
  BY <1>2 DEF Taken
<1>4. /\ q \in Programs /\ q.tm = p.tm /\ q.term = p.term /\ q.pinger = p.pinger
      /\ q.stray = p.stray /\ q.pings = p.pings /\ q.sock = p.sock /\ q.back = p.back
  BY <1>1, <1>3 DEF Programs
<1> QED BY <1>3, <1>4, PlainEvent

LEMMA PostEvent ==
    ASSUME NEW p, Good(p), NEW m \in Messages, NEW q, q = Post(p, m)
    PROVE  Event(q, p) /\ q \in Programs /\ q.sock = p.sock
<1>1. p \in Programs /\ p.queue \in Seq(Messages)
  BY GoodFacts
<1>2. PICK x \in Seq(Messages) : x = Append(p.queue, m)
  <2>1. PICK y \in Seq(Messages) : y = p.queue
    BY <1>1
  <2>2. Append(y, m) \in Seq(Messages)
    OBVIOUS
  <2> QED BY <2>1, <2>2
<1>3. q = [p EXCEPT !.queue = x]
  BY <1>2 DEF Post
<1>4. /\ q \in Programs /\ q.tm = p.tm /\ q.term = p.term /\ q.pinger = p.pinger
      /\ q.stray = p.stray /\ q.pings = p.pings /\ q.sock = p.sock /\ q.back = p.back
  BY <1>1, <1>3 DEF Programs
<1> QED BY <1>4, PlainEvent

(* A message that is dispatched, and what the loop does after it. *)
LEMMA DispatchedAllowed ==
    ASSUME NEW p, Good(p), NEW q, Event(q, p), NEW r, Event(r, q)
    PROVE  Allowed(IfMustClose(r), p)
<1>1. Event(r, p) /\ Good(r)
  BY EventTwice DEF Event
<1>2. Event(IfMustClose(r), r)
  BY <1>1, IfMustCloseEvent
<1> QED BY <1>1, <1>2, EventTwice, EventAllowed

LEMMA NetEventStep ==
    ASSUME IInv, NetEvent
    PROVE  \E p : Allowed(p, w) /\ Becomes(p)
<1>1. PICK m \in NetEvents, bell \in BOOLEAN :
          Got(m) /\ Becomes(IfMustClose(OnNetEvent(Taken(w), m, bell)))
  BY DEF NetEvent
<1>2. Good(w) /\ w.queue # <<>>
  BY <1>1 DEF IInv, Got, HasMessage
<1>3. PICK q : q = Taken(w) /\ Event(q, w) /\ Good(q)
  BY <1>2, TakenEvent DEF Event
<1>4. Event(OnNetEvent(q, m, bell), q)
  BY <1>3, NetEventEvent
<1>5. Allowed(IfMustClose(OnNetEvent(q, m, bell)), w)
  BY <1>2, <1>3, <1>4, DispatchedAllowed
<1> QED BY <1>1, <1>3, <1>5

LEMMA RestartStep ==
    ASSUME IInv, RestartTelnet
    PROVE  \E p : Allowed(p, w) /\ Becomes(p)
<1>1. /\ Good(w) /\ Held(w) /\ w.queue # <<>>
      /\ Becomes(IfMustClose(Restart(Taken(w), Address)))
  BY DEF IInv, RestartTelnet, Got, HasMessage
<1>2. PICK q : q = Taken(w) /\ Event(q, w) /\ Good(q) /\ q.tm = w.tm /\ Held(q)
  BY <1>1, TakenEvent DEF Event
<1>3. PICK addr \in Nat :
         /\ addr = Address /\ addr # Term
         /\ SameTick \/ [when |-> Scheduled(q.tm, Interval), ctx |-> addr] \notin q.tm.timers
  BY <1>1, <1>2, AddressFacts
<1>4. Event(Restart(q, addr), q)
  <2>1. CASE q.back
    BY <1>2, <2>1, EventSame DEF Restart
  <2>2. CASE ~q.back
    <3>1. Event(start_backend(q, addr), q)
      BY <1>2, <1>3, <2>2, StartEvent
    <3> QED BY <2>2, <3>1 DEF Restart
  <2> QED BY <2>1, <2>2
<1>5. Allowed(IfMustClose(Restart(q, addr)), w)
  BY <1>1, <1>2, <1>4, DispatchedAllowed
<1> QED BY <1>1, <1>2, <1>3, <1>5

LEMMA OtherMessageStep ==
    ASSUME IInv, OtherMessage
    PROVE  \E p : Allowed(p, w) /\ Becomes(p)
<1>1. Good(w) /\ w.queue # <<>>
  BY DEF IInv, OtherMessage, Got, HasMessage
<1>2. PICK q : q = Taken(w) /\ Event(q, w) /\ Good(q)
  BY <1>1, TakenEvent DEF Event
<1>3. CASE Becomes(IfMustClose(close_session(q)))
  BY <1>1, <1>2, <1>3, CloseSessionEvent, DispatchedAllowed
<1>4. CASE Becomes(IfMustClose([q EXCEPT !.quit = TRUE]))
  <2>1. PICK r : r = [q EXCEPT !.quit = TRUE]
    OBVIOUS
  <2>2. q \in Programs
    BY <1>2, GoodFacts
  <2>3. /\ r \in Programs /\ r.tm = q.tm /\ r.term = q.term /\ r.pinger = q.pinger
        /\ r.stray = q.stray /\ r.pings = q.pings /\ r.sock = q.sock /\ r.back = q.back
    BY <2>1, <2>2 DEF Programs
  <2>4. Event(r, q)
    BY <1>2, <2>3, PlainEvent
  <2>5. Allowed(IfMustClose(r), w)
    BY <1>1, <1>2, <2>4, DispatchedAllowed
  <2> QED BY <1>4, <2>1, <2>5
<1> QED BY <1>2, <1>3, <1>4 DEF OtherMessage

(* A step that leaves the timers, their clients and the socket alone. *)
LEMMA AloneEvent ==
    ASSUME NEW p, Good(p), NEW q,
           \/ q = [p EXCEPT !.over = TRUE]
           \/ q = [p EXCEPT !.awake = TRUE] \/ q = [p EXCEPT !.awake = FALSE]
           \/ q = [p EXCEPT !.box = NoBox, !.beeps = FALSE]
    PROVE  Event(q, p) /\ Good(q) /\ q.box \in {p.box, NoBox} /\ q.pending = p.pending
<1>1. p \in Programs
  BY GoodFacts
<1>2. /\ q \in Programs /\ q.tm = p.tm /\ q.term = p.term /\ q.pinger = p.pinger
      /\ q.stray = p.stray /\ q.pings = p.pings /\ q.sock = p.sock /\ q.back = p.back
      /\ q.box \in {p.box, NoBox} /\ q.pending = p.pending
  BY <1>1 DEF Programs, Boxes
<1>3. Event(q, p)
  BY <1>2, PlainEvent
<1> QED BY <1>2, <1>3 DEF Event

LEMMA OverStep ==
    ASSUME IInv, StartFails \/ Quit
    PROVE  \E p : Allowed(p, w) /\ Becomes(p)
<1>1. Good(w)
  BY DEF IInv
<1>2. PICK q : q = [w EXCEPT !.over = TRUE] /\ Becomes(q)
  BY DEF StartFails, Quit
<1> QED BY <1>1, <1>2, AloneEvent, EventAllowed

LEMMA TimerMessageStep ==
    ASSUME IInv, TimerMessage
    PROVE  \E p : Allowed(p, w) /\ Becomes(p)
<1>1. PICK anow \in RunTimes, may \in BOOLEAN :
          Becomes(IfMustClose(OnTimer([w EXCEPT !.awake = TRUE], anow, may)))
  BY DEF TimerMessage
<1>2. Good(w)
  BY DEF IInv
<1>3. PICK q : q = [w EXCEPT !.awake = TRUE]
  OBVIOUS
<1>4. Event(q, w) /\ Good(q)
  BY <1>2, <1>3, AloneEvent
<1>5. PICK e : e = OnTimer(q, anow, may)
  OBVIOUS
<1>6. Good(e)
  BY <1>4, <1>5, OnTimerFacts
<1>7. PICK r : r = IfMustClose(e) /\ Event(r, e) /\ Becomes(r)
  BY <1>1, <1>3, <1>5, <1>6, IfMustCloseEvent
<1>8. Allowed(r, q)
  BY <1>4, <1>5, <1>7, TimerAllowed
<1>9. q.pinger = w.pinger /\ q.tm = w.tm /\ q.pings = w.pings /\ (Held(w) => Held(q))
  <2>1. w \in Programs
    BY <1>2, GoodFacts
  <2> QED BY <1>3, <1>4, <2>1 DEF Programs, Event
<1>10. Allowed(r, w)
  BY <1>8, <1>9 DEF Allowed, Sent, PingKept
<1> QED BY <1>7, <1>10

LEMMA EndOfTurnStep ==
    ASSUME IInv, EndOfTurn
    PROVE  \E p : Allowed(p, w) /\ Becomes(p)
<1>1. Good(w)
  BY DEF IInv
<1>2. PICK a : a = [w EXCEPT !.awake = FALSE]
  OBVIOUS
<1>3. PICK focus \in BOOLEAN, bell \in BOOLEAN :
         LET p == term_set_focus(a, focus)
             q == IF p.pending # "none" THEN enact_pending_netevent(p, bell) ELSE p
         IN  Becomes(IF q.box # NoBox THEN q ELSE net_pending_errors(q))
  BY <1>2 DEF EndOfTurn
<1>3a. PICK p : p = term_set_focus(a, focus)
  OBVIOUS
<1>3b. PICK q : q = IF p.pending # "none" THEN enact_pending_netevent(p, bell) ELSE p
  OBVIOUS
<1>3c. Becomes(IF q.box # NoBox THEN q ELSE net_pending_errors(q))
  BY <1>3, <1>3a, <1>3b
<1>4. Event(a, w) /\ Good(a)
  BY <1>1, <1>2, AloneEvent
<1>5. Event(p, a) /\ Good(p)
  BY <1>3a, <1>4, SetFocusStep, TermEvent DEF Good, Event
<1>6. Event(q, p) /\ Good(q)
  BY <1>3b, <1>5, EnactEvent, EventSame DEF Event
<1>7. Event(net_pending_errors(q), q) /\ Event(q, q)
  BY <1>6, PendingErrorsEvent, EventSame
<1>8. PICK r : r = (IF q.box # NoBox THEN q ELSE net_pending_errors(q)) /\ Event(r, q)
  BY <1>7
<1>9. Event(r, w)
  BY <1>1, <1>4, <1>5, <1>6, <1>8, EventTwice
<1> QED BY <1>3c, <1>8, <1>9, EventAllowed

LEMMA AnswerBoxStep ==
    ASSUME IInv, AnswerBox
    PROVE  \E p : Allowed(p, w) /\ Becomes(p)
<1>1. Good(w) /\ w.box \in Boxes /\ w.box # NoBox
  BY GoodFacts DEF IInv, AnswerBox, BoxOpen
<1>2. PICK p : p = [w EXCEPT !.box = NoBox, !.beeps = FALSE]
  OBVIOUS
<1>3. Event(p, w) /\ Good(p)
  BY <1>1, <1>2, AloneEvent
<1>4. CASE w.box = EndOfLoop
  <2>1. Becomes(net_pending_errors(p))
    BY <1>2, <1>4 DEF AnswerBox
  <2>2. Event(net_pending_errors(p), w)
    BY <1>1, <1>3, PendingErrorsEvent, EventTwice
  <2> QED BY <2>1, <2>2, EventAllowed
<1>5. CASE w.box # EndOfLoop
  <2>1. PICK m \in NetEvents : m = w.box
    BY <1>1, <1>5 DEF Boxes
  <2>2. PICK bell : bell = FALSE
    OBVIOUS
  <2>3. Becomes(IfMustClose(KeepNetEvent(p, m, bell)))
    BY <1>2, <1>5, <2>1, <2>2 DEF AnswerBox
  <2>4. Event(KeepNetEvent(p, m, bell), p)
    BY <1>3, KeepEvent
  <2>5. Allowed(IfMustClose(KeepNetEvent(p, m, bell)), w)
    BY <1>1, <1>3, <2>4, DispatchedAllowed
  <2> QED BY <2>3, <2>5
<1> QED BY <1>4, <1>5

LEMMA UserStep ==
    ASSUME IInv, User
    PROVE  \E p : Allowed(p, w) /\ Becomes(p)
<1>1. PICK m \in Messages : Becomes(Post(w, m))
  BY DEF User, Messages
<1>2. Good(w)
  BY DEF IInv
<1>3. PICK q : q = Post(w, m)
  OBVIOUS
<1> QED BY <1>1, <1>2, <1>3, PostEvent, EventAllowed

-----------------------------------------------------------------------------
(* Windows and the server change what the socket says of its side. *)

StillOpen(y, z) == y \in Sockets /\ y.open = z.open

LEMMA SocketFields ==
    ASSUME NEW s \in Sockets
    PROVE  /\ StillOpen([s EXCEPT !.told = TRUE], s)
           /\ StillOpen([s EXCEPT !.unread = TRUE], s)
           /\ StillOpen([s EXCEPT !.armed = FALSE], s)
           /\ StillOpen([s EXCEPT !.fin = TRUE, !.told = TRUE], s)
           /\ StillOpen([s EXCEPT !.dead = TRUE], s)
           /\ StillOpen([s EXCEPT !.blocked = FALSE], s)
BY DEF StillOpen, Sockets

LEMMA PostedSocketEvent ==
    ASSUME NEW p, Good(p), NEW m \in Messages, NEW y, StillOpen(y, p.sock),
           NEW q, q = [Post(p, m) EXCEPT !.sock = y]
    PROVE  Event(q, p)
<1>1. PICK o : o = Post(p, m)
  OBVIOUS
<1>2. Event(o, p) /\ Good(o) /\ o.sock = p.sock
  BY <1>1, PostEvent DEF Event
<1>3. Event(q, o)
  BY <1>1, <1>2, SocketEvent DEF StillOpen
<1> QED BY <1>2, <1>3, EventTwice

LEMMA WindowsStep ==
    ASSUME IInv, Answer \/ Arrive \/ Finish \/ Writable
    PROVE  \E p : Allowed(p, w) /\ Becomes(p)
<1>1. Good(w) /\ w \in Programs /\ w.sock \in Sockets
  BY GoodFacts DEF IInv
<1>2. \A m \in Messages : Post(w, m) \in Programs /\ Post(w, m).sock = w.sock
  BY <1>1, PostEvent
<1>3. {"connected", "refused", "read", "close", "reset", "write"} \subseteq Messages
  BY DEF Messages, NetEvents
<1>4. ASSUME NEW m \in Messages, Becomes([Post(w, m) EXCEPT !.sock.told = TRUE])
      PROVE  \E p : Allowed(p, w) /\ Becomes(p)
  <2>1. PICK y : y = [w.sock EXCEPT !.told = TRUE] /\ StillOpen(y, w.sock)
    BY <1>1, SocketFields
  <2>2. PICK q : q = [Post(w, m) EXCEPT !.sock = y]
    OBVIOUS
  <2>3. q = [Post(w, m) EXCEPT !.sock.told = TRUE]
    BY <1>2, <2>1, <2>2 DEF Programs
  <2> QED BY <1>1, <1>4, <2>1, <2>2, <2>3, PostedSocketEvent, EventAllowed
<1>5. ASSUME Answer PROVE \E p : Allowed(p, w) /\ Becomes(p)
  BY <1>3, <1>4, <1>5 DEF Answer
<1>6. ASSUME Arrive PROVE \E p : Allowed(p, w) /\ Becomes(p)
  <2>1. PICK y : y = [w.sock EXCEPT !.unread = TRUE] /\ StillOpen(y, w.sock)
    BY <1>1, SocketFields
  <2>2. PICK p : p = [w EXCEPT !.sock = y]
    OBVIOUS
  <2>3. p = [w EXCEPT !.sock.unread = TRUE]
    BY <1>1, <2>1, <2>2 DEF Programs
  <2>4. Event(p, w) /\ Good(p) /\ p \in Programs /\ p.sock \in Sockets
    BY <1>1, <2>1, <2>2, SocketEvent, GoodFacts, ZenonT(40) DEF StillOpen, Event
  <2>5. CASE w.sock.armed
    <3>1. PICK m \in Messages : m = "read"
      BY <1>3
    <3>2. PICK z : z = [p.sock EXCEPT !.armed = FALSE] /\ StillOpen(z, p.sock)
      BY <2>4, SocketFields
    <3>3. PICK q : q = [Post(p, m) EXCEPT !.sock = z]
      OBVIOUS
    <3>4. q = [Post(p, m) EXCEPT !.sock.armed = FALSE]
      <4>1. PICK o : o = Post(p, m)
        OBVIOUS
      <4>2. o \in Programs /\ o.sock = p.sock
        BY <2>4, <4>1, PostEvent
      <4> QED BY <3>2, <3>3, <4>1, <4>2, SMTT(20) DEF Programs
    <3>5. Event(q, w)
      BY <1>1, <2>4, <3>2, <3>3, PostedSocketEvent, EventTwice
    <3>6. Becomes(q)
      BY <1>6, <2>3, <2>5, <3>1, <3>4 DEF Arrive, Sock
    <3> QED BY <3>5, <3>6, EventAllowed
  <2>6. CASE ~w.sock.armed
    <3>1. Becomes(p)
      BY <1>6, <2>3, <2>6 DEF Arrive, Sock
    <3> QED BY <2>4, <3>1, EventAllowed
  <2> QED BY <2>5, <2>6
<1>7. ASSUME Finish PROVE \E p : Allowed(p, w) /\ Becomes(p)
  <2>1. CASE Becomes([Post(w, "close") EXCEPT !.sock.fin = TRUE, !.sock.told = TRUE])
    <3>1. PICK m \in Messages : m = "close"
      BY <1>3
    <3>2. PICK y : y = [w.sock EXCEPT !.fin = TRUE, !.told = TRUE] /\ StillOpen(y, w.sock)
      BY <1>1, SocketFields
    <3>3. PICK q : q = [Post(w, m) EXCEPT !.sock = y]
      OBVIOUS
    <3>4. q = [Post(w, m) EXCEPT !.sock.fin = TRUE, !.sock.told = TRUE]
      BY <1>2, <3>2, <3>3 DEF Programs
    <3> QED BY <1>1, <2>1, <3>1, <3>2, <3>3, <3>4, PostedSocketEvent, EventAllowed
  <2>2. CASE Becomes([Post(w, "reset") EXCEPT !.sock.told = TRUE])
    BY <1>3, <1>4, <2>2
  <2>3. CASE Becomes([w EXCEPT !.sock.dead = TRUE])
    <3>1. PICK y : y = [w.sock EXCEPT !.dead = TRUE] /\ StillOpen(y, w.sock)
      BY <1>1, SocketFields
    <3>2. PICK q : q = [w EXCEPT !.sock = y]
      OBVIOUS
    <3>3. q = [w EXCEPT !.sock.dead = TRUE]
      BY <1>1, <3>1, <3>2 DEF Programs
    <3>4. Event(q, w)
      BY <1>1, <3>1, <3>2, SocketEvent DEF StillOpen
    <3> QED BY <2>3, <3>3, <3>4, EventAllowed
  <2> QED BY <1>7, <2>1, <2>2, <2>3 DEF Finish
<1>8. ASSUME Writable PROVE \E p : Allowed(p, w) /\ Becomes(p)
  <2>1. PICK m \in Messages : m = "write"
    BY <1>3
  <2>2. PICK y : y = [w.sock EXCEPT !.blocked = FALSE] /\ StillOpen(y, w.sock)
    BY <1>1, SocketFields
  <2>3. PICK q : q = [Post(w, m) EXCEPT !.sock = y]
    OBVIOUS
  <2>4. q = [Post(w, m) EXCEPT !.sock.blocked = FALSE]
    BY <1>2, <2>2, <2>3 DEF Programs
  <2>5. Becomes(q)
    BY <1>8, <2>1, <2>4 DEF Writable
  <2> QED BY <1>1, <2>2, <2>3, <2>5, PostedSocketEvent, EventAllowed
<1> QED BY <1>5, <1>6, <1>7, <1>8

-----------------------------------------------------------------------------
(* A tick passes: what is waited for moves with its timer. *)

LEMMA PassedTimes ==
    ASSUME NEW a \in Times
    PROVE  Passed(a) \in Times /\ (a = None => Passed(a) = None)
<1>1. CASE a = None
  BY <1>1 DEF Passed, Times
<1>2. CASE a # None
  <2>1. a \in Int /\ 0 <= a /\ a < Wrap /\ Wrap \in Nat /\ Wrap > 2
    BY <1>2, LongestFacts DEF Times, Ticks
  <2>2. PICK x \in Int : x = a + (-1) /\ -Wrap <= x /\ x < 2 * Wrap
    BY <2>1
  <2>3. x % Wrap \in Ticks
    BY <2>2, Remainder
  <2>4. Passed(a) = x % Wrap
    BY <1>2, <2>2 DEF Passed, Later
  <2> QED BY <1>2, <2>3, <2>4 DEF Times
<1> QED BY <1>1, <1>2

LEMMA MovedMember ==
    ASSUME NEW T, NEW a, NEW c, [when |-> a, ctx |-> c] \in T
    PROVE  [when |-> Passed(a), ctx |-> c] \in {Moved(t) : t \in T}
<1>1. PICK t \in T : t = [when |-> a, ctx |-> c]
  OBVIOUS
<1>2. Moved(t) = [when |-> Passed(a), ctx |-> c]
  BY <1>1 DEF Moved
<1> QED BY <1>2

TermPassed(x) == [x EXCEPT !.next_update = Passed(@), !.next_cblink = Passed(@)]
PingPassed(g) == [g EXCEPT !.next = Passed(@)]

LEMMA TickStep ==
    ASSUME IInv, Tick
    PROVE  IInv' /\ quiet' >= quiet
<1>1. /\ Good(w) /\ Held(w) /\ w.pings = FALSE /\ quiet \in Nat /\ quiet <= Interval
      /\ Interval \in Nat
  BY SessionAssumption DEF IInv
<1>2. /\ w \in Programs /\ TimersType(w.tm) /\ w.tm \in Timers /\ Books(w)
      /\ w.term \in Terminals /\ w.pinger \in Pingers /\ ToCome(w.tm) /\ InTime(w.tm)
  BY <1>1, GoodFacts DEF Good
<1>3. PICK s : s = TimersPassed(w.tm)
  OBVIOUS
<1>4. 2 * (Edge + 1 - Offset(w.tm.now)) < Wrap
  <2>1. 2 * (Longest + Skew + 2 - Offset(w.tm.now)) < Wrap
    BY DEF Tick, Offset
  <2>2. Offset(w.tm.now) \in Int /\ Longest \in Nat /\ Skew \in Nat /\ Wrap \in Nat
    BY <1>2, TimerFacts, LongestFacts
  <2> QED BY <2>1, <2>2 DEF Edge
<1>5. /\ TimersType(s) /\ ToCome(s) /\ InTime(s)
      /\ s.timers = {Moved(t) : t \in w.tm.timers} /\ s.contexts = w.tm.contexts
  <2>1. PICK tm : tm = w.tm
    OBVIOUS
  <2>2. /\ TimersType(tm) /\ ToCome(tm) /\ InTime(tm) /\ s = TimersPassed(tm)
        /\ tm.window = None \/ -Since(tm.window, 0) < MaxLate
        /\ 2 * (Edge + 1 - Offset(tm.now)) < Wrap
    BY <1>2, <1>3, <1>4, <2>1 DEF Tick
  <2>3. /\ TimersType(s) /\ ToCome(s) /\ InTime(s)
        /\ s.timers = {Moved(t) : t \in tm.timers} /\ s.contexts = tm.contexts
    BY <2>2, TimersPassedFacts
  <2> QED BY <2>1, <2>3
<1>6. PICK x \in Terminals : x = TermPassed(w.term)
  <2>1. w.term.next_update \in Times /\ w.term.next_cblink \in Times
    BY <1>2 DEF Terminals
  <2>2. PICK a \in Times, b \in Times :
          a = Passed(w.term.next_update) /\ b = Passed(w.term.next_cblink)
    BY <2>1, PassedTimes
  <2>3. TermPassed(w.term) = [w.term EXCEPT !.next_update = a, !.next_cblink = b]
    BY <2>2 DEF TermPassed
  <2>4. [w.term EXCEPT !.next_update = a, !.next_cblink = b] \in Terminals
    BY <1>2 DEF Terminals
  <2> QED BY <2>3, <2>4
<1>7. /\ x.update_pending = w.term.update_pending /\ x.cblink_pending = w.term.cblink_pending
      /\ x.next_update = Passed(w.term.next_update)
      /\ x.next_cblink = Passed(w.term.next_cblink)
  BY <1>2, <1>6 DEF TermPassed, Terminals
<1>8. PICK g \in Pingers : g = PingPassed(w.pinger)
  <2>1. PICK a \in Times : a = Passed(w.pinger.next)
    BY <1>2, PassedTimes DEF Pingers
  <2>2. [w.pinger EXCEPT !.next = a] \in Pingers
    BY <1>2 DEF Pingers
  <2> QED BY <2>1, <2>2 DEF PingPassed
<1>9. /\ g.live = w.pinger.live /\ g.addr = w.pinger.addr /\ g.pending = w.pinger.pending
      /\ g.next = Passed(w.pinger.next)
  BY <1>2, <1>8 DEF PingPassed, Pingers
<1>10. PICK q : q = [w EXCEPT !.tm = s, !.pinger = g, !.term = x]
  OBVIOUS
<1>11. s \in Timers /\ w \in Programs
  BY <1>2, <1>5 DEF TimersType
<1>12. /\ q \in Programs /\ q.tm = s /\ q.term = x /\ q.pinger = g /\ q.stray = w.stray
       /\ q.pings = w.pings /\ q.sock = w.sock /\ q.back = w.back
  BY <1>10, <1>11 DEF Programs
<1>12a. q = w'
  <2>1. w' = [w EXCEPT !.tm = TimersPassed(@), !.pinger.next = Passed(@),
                       !.term.next_update = Passed(@), !.term.next_cblink = Passed(@)]
    BY DEF Tick
  <2> QED BY <1>2, <1>3, <1>6, <1>8, <1>10, <2>1 DEF Programs, TermPassed, PingPassed
<1>13. \A a, c : [when |-> a, ctx |-> c] \in w.tm.timers =>
                   [when |-> Passed(a), ctx |-> c] \in s.timers
  BY <1>5, MovedMember
<1>14. ContextsLive(q)
  <2>1. ASSUME NEW u \in s.timers, u.ctx = Term PROVE Term \in s.contexts
    <3>1. PICK t \in w.tm.timers : u = Moved(t)
      BY <1>5, <2>1
    <3>2. t.ctx = u.ctx
      BY <1>2, <1>4, <3>1, MovedFacts
    <3> QED BY <1>2, <1>5, <2>1, <3>2 DEF Books, ContextsLive
  <2> QED BY <1>2, <1>5, <1>9, <1>12, <2>1 DEF Books, ContextsLive
<1>15. TermWaits(q)
  <2>1. None \in Times
    BY DEF Times
  <2>2. Passed(None) = None
    BY DEF Passed
  <2> QED BY <1>2, <1>7, <1>12, <1>13, <2>2 DEF Books, TermWaits
<1>16. PingWaits(q)
  <2>1. Passed(None) = None
    BY DEF Passed
  <2> QED BY <1>2, <1>5, <1>9, <1>12, <1>13, <2>1 DEF Books, PingWaits
<1>17. Good(q) /\ Held(q) /\ q.pings = FALSE
  BY <1>1, <1>5, <1>9, <1>12, <1>14, <1>15, <1>16 DEF Good, Books, TimersType, Held
<1>18. /\ cfg' = cfg
       /\ quiet' = IF cfg.ping /\ quiet < Interval THEN quiet + 1 ELSE quiet
  BY DEF Tick
<1>19. quiet' \in 0 .. Interval /\ quiet' >= quiet
  BY <1>1, <1>18
<1>20. ASSUME cfg.ping PROVE Spaced(q, quiet')
  <2>1. SUFFICES ASSUME g.pending, g.addr \in s.contexts
                 PROVE  quiet' >= Interval \/ Offset(g.next) + quiet' >= Interval
    BY <1>12 DEF Spaced
  <2>2. /\ w.pinger.pending /\ w.pinger.addr \in w.tm.contexts
        /\ [when |-> w.pinger.next, ctx |-> w.pinger.addr] \in w.tm.timers
    BY <1>2, <1>5, <1>9, <2>1 DEF Books, PingWaits
  <2>3. quiet >= Interval \/ Offset(w.pinger.next) + quiet >= Interval
    BY <1>20, <2>2 DEF IInv, Spaced
  <2>4. PICK t \in w.tm.timers : t = [when |-> w.pinger.next, ctx |-> w.pinger.addr]
    BY <2>2
  <2>5. Offset(Passed(t.when)) = Offset(t.when) - 1 /\ Offset(t.when) \in Int
    BY <1>2, <1>4, <2>4, MovedFacts, TimerFacts
  <2>6. Offset(g.next) = Offset(w.pinger.next) - 1 /\ Offset(w.pinger.next) \in Int
    BY <1>9, <2>4, <2>5
  <2> QED BY <1>1, <1>18, <1>20, <2>3, <2>6
<1>21. IF cfg.ping THEN Spaced(q, quiet') ELSE quiet' = 0
  BY <1>18, <1>20 DEF IInv
<1>22. IInv'
  BY <1>12a, <1>17, <1>18, <1>19, <1>21 DEF IInv
<1> QED BY <1>19, <1>22

-----------------------------------------------------------------------------
(* The invariant holds from the start. *)

LEMMA FreshFacts ==
    ASSUME cfg \in Configs
    PROVE  Good(Fresh) /\ Held(Fresh) /\ Fresh.tm.timers = {} /\ ~Fresh.back
           /\ Fresh.pings = FALSE
<1>1. PICK no \in BOOLEAN : no = FALSE
  OBVIOUS
<1>2. PICK none \in Times : none = None
  BY DEF Times
<1>3. PICK zero \in Nows : zero = 0
  <2>1. PICK n \in Nat : n = 0
    OBVIOUS
  <2>2. n \in Near /\ Offset(n) = n /\ n <= Skew
    BY <2>1, LongestFacts, NumberNear
  <2> QED BY <2>1, <2>2 DEF Nows
<1>4. PICK s \in Timers : s = NewTimers
  <2>1. {} \subseteq [when : Near, ctx : Nat] /\ {} \subseteq Nat /\ None \in Windows \union {None}
    OBVIOUS
  <2>2. PICK T \in SUBSET [when : Near, ctx : Nat], C \in SUBSET Nat,
             window \in Windows \union {None} : T = {} /\ C = {} /\ window = None
    BY <2>1
  <2>3. [timers |-> T, contexts |-> C, now |-> zero, window |-> window] \in Timers
    BY DEF Timers
  <2> QED BY <1>3, <2>2, <2>3 DEF NewTimers
<1>5. s.timers = {} /\ s.contexts = {}
  BY <1>4 DEF NewTimers
<1>6. PICK x \in Terminals : x = Fresh.term
  <2>1. [update_pending |-> no, next_update |-> none, cblink_pending |-> no,
         next_cblink |-> none, has_focus |-> no] \in Terminals
    BY DEF Terminals
  <2> QED BY <1>1, <1>2, <2>1 DEF Fresh
<1>7. ~x.update_pending /\ ~x.cblink_pending /\ x.next_update = None /\ x.next_cblink = None
  BY <1>6 DEF Fresh
<1>8. PICK g \in Pingers : g = NoPinger
  <2>1. NoPinger \in Pingers
    BY DEF NoPinger, Pingers, Term, Times
  <2> QED BY <2>1
<1>9. ~g.live /\ ~g.pending /\ g.next = None
  BY <1>8 DEF NoPinger
<1>10. PICK y \in Sockets : y = NoSocket
  <2>1. NoSocket \in Sockets
    BY DEF NoSocket, Sockets
  <2> QED BY <2>1
<1>11. ~y.open
  BY <1>10 DEF NoSocket
<1>12. PICK beeps \in BOOLEAN : beeps = cfg.beeps
  BY SessionAssumption
<1>13. PICK queue \in Seq(Messages) : queue = <<>>
  <2>1. <<>> \in Seq(Messages)
    OBVIOUS
  <2> QED BY <2>1
<1>13a. PICK ends \in Nat : ends = 0
  OBVIOUS
<1>13b. PICK box \in Boxes : box = NoBox
  BY DEF Boxes
<1>13c. PICK pending \in NetEvents \union {"none"} : pending = "none"
  OBVIOUS
<1>14. PICK p : p = [tm |-> s, term |-> x, pinger |-> g, sock |-> y, back |-> no,
                     must_close |-> no, closed |-> no, pending |-> pending, box |-> box,
                     beeps |-> beeps, queue |-> queue, awake |-> no, quit |-> no,
                     over |-> no, ends |-> ends, pings |-> no, stray |-> no]
  OBVIOUS
<1>15. /\ p \in Programs /\ p.tm = s /\ p.term = x /\ p.pinger = g /\ p.sock = y
       /\ p.stray = no /\ p.back = no /\ p.pings = no
  BY <1>14 DEF Programs
<1>16. p = Fresh
  BY <1>1, <1>4, <1>6, <1>8, <1>10, <1>12, <1>13, <1>13a, <1>13b, <1>13c, <1>14 DEF Fresh
<1>17. ContextsLive(p) /\ TermWaits(p) /\ PingWaits(p)
  BY <1>1, <1>5, <1>7, <1>9, <1>15 DEF ContextsLive, TermWaits, PingWaits
<1>18. IsFiniteSet(s.timers)
  BY <1>5, FS_EmptySet
<1>19. Good(p)
  BY <1>5, <1>15, <1>17, <1>18 DEF Good, Books, ToCome, InTime
<1>20. Held(p)
  BY <1>9, <1>11, <1>15 DEF Held
<1> QED BY <1>1, <1>5, <1>15, <1>16, <1>19, <1>20

LEMMA InitStep == Init => IInv
<1>1. SUFFICES ASSUME Init PROVE IInv
  OBVIOUS
<1>2. cfg \in Configs /\ quiet = 0
  BY <1>1 DEF Init
<1>3. PICK p : p = Fresh
  OBVIOUS
<1>4. Good(p) /\ Held(p) /\ p.tm.timers = {} /\ ~p.back /\ p.pings = FALSE
  BY <1>2, <1>3, FreshFacts
<1>5. PICK addr \in Nat : addr = 1 /\ addr # Term
  BY DEF Term
<1>6. w = start_backend(p, addr)
  BY <1>1, <1>3, <1>5 DEF Init
<1>7. Event(w, p) /\ FarPing(w) /\ Held(w)
  <2>1. SameTick \/ [when |-> Scheduled(p.tm, Interval), ctx |-> addr] \notin p.tm.timers
    BY <1>4
  <2> QED BY <1>4, <1>5, <1>6, <2>1, StartEvent
<1>8. Good(w) /\ w.pings = FALSE
  BY <1>4, <1>7 DEF Event
<1>9. Interval \in Nat
  BY SessionAssumption
<1>10. Spaced(w, 0)
  <2>1. SUFFICES ASSUME w.pinger.pending PROVE Offset(w.pinger.next) + 0 >= Interval
    BY DEF Spaced
  <2>2. Offset(w.pinger.next) >= Interval /\ Offset(w.pinger.next) \in Int
    BY <1>7, <2>1, NearFacts DEF FarPing
  <2> QED BY <2>2
<1> QED BY <1>2, <1>7, <1>8, <1>9, <1>10 DEF IInv

LEMMA NextStep ==
    IInv /\ [Next]_vars => /\ IInv'
                           /\ quiet' < quiet /\ w.pinger.live /\ w'.pinger.live =>
                                quiet >= Interval - Skew
<1>1. SUFFICES ASSUME IInv, [Next]_vars
               PROVE  /\ IInv'
                      /\ quiet' < quiet /\ w.pinger.live /\ w'.pinger.live =>
                           quiet >= Interval - Skew
  OBVIOUS
<1>2. quiet \in Nat
  BY <1>1 DEF IInv
<1>3. CASE \E p : Allowed(p, w) /\ Becomes(p)
  BY <1>1, <1>3, BecomesStep
<1>4. CASE NetEvent
  BY <1>1, <1>3, <1>4, NetEventStep
<1>5. CASE RestartTelnet
  BY <1>1, <1>3, <1>5, RestartStep
<1>6. CASE OtherMessage
  BY <1>1, <1>3, <1>6, OtherMessageStep
<1>7. CASE StartFails \/ Quit
  BY <1>1, <1>3, <1>7, OverStep
<1>8. CASE TimerMessage
  BY <1>1, <1>3, <1>8, TimerMessageStep
<1>9. CASE EndOfTurn
  BY <1>1, <1>3, <1>9, EndOfTurnStep
<1>10. CASE AnswerBox
  BY <1>1, <1>3, <1>10, AnswerBoxStep
<1>11. CASE User
  BY <1>1, <1>3, <1>11, UserStep
<1>12. CASE Answer \/ Arrive \/ Finish \/ Writable
  BY <1>1, <1>3, <1>12, WindowsStep
<1>13. CASE Tick
  <2>1. IInv' /\ quiet' >= quiet
    BY <1>1, <1>13, TickStep
  <2>2. quiet' \in Nat
    BY <2>1 DEF IInv
  <2> QED BY <1>2, <2>1, <2>2
<1>14. CASE UNCHANGED vars
  <2>1. IInv' /\ quiet' = quiet
    BY <1>1, <1>14 DEF IInv, vars
  <2> QED BY <1>2, <2>1
<1> QED BY <1>1, <1>4, <1>5, <1>6, <1>7, <1>8, <1>9, <1>10, <1>11, <1>12, <1>13, <1>14
        DEF Next, Over

(* The program's books are kept, whatever the order of messages, handles and timers. *)
THEOREM ProgramAlwaysInOrder == Spec => []IInv
<1>1. IInv /\ [Next]_vars => IInv'
  BY NextStep
<1> QED BY InitStep, <1>1, PTL DEF Spec

(* A socket, and a pinger that could send on it, belong to the session that is open:
   close_session() frees them before another may start. *)
THEOREM SessionsDoNotOverlap == Spec => []OneSession
<1>1. IInv => OneSession
  BY DEF IInv, Held, OneSession
<1> QED BY <1>1, ProgramAlwaysInOrder, PTL

(* Keepalives of a session are an interval apart, up to what run_timers() trusts the
   time it is passed, whatever timers an earlier session left at the same address, and
   though that address was reused in the tick in which one of them was set. *)
THEOREM KeepalivesSpaced == Spec => PingsSpaced
<1>1. IInv /\ [Next]_vars =>
        [quiet' < quiet /\ w.pinger.live /\ w'.pinger.live => quiet >= Interval - Skew]_vars
  BY NextStep
<1> QED BY <1>1, ProgramAlwaysInOrder, PTL DEF Spec, PingsSpaced

(* The type of every variable. *)
LEMMA InvariantTypes == IInv => TypeOK
<1>1. SUFFICES ASSUME IInv PROVE TypeOK
  OBVIOUS
<1>2. Good(w) /\ quiet \in 0 .. Interval
  BY <1>1 DEF IInv
<1>3. /\ w \in Programs /\ w.tm \in Timers /\ w.term \in Terminals /\ w.pinger \in Pingers
      /\ w.queue \in Seq(Messages) /\ w.pending \in NetEvents \union {"none"}
      /\ w.box \in NetEvents \union {NoBox, EndOfLoop}
  BY <1>2, GoodFacts DEF Boxes
<1>4. w.tm.timers \subseteq [when : Ticks, ctx : Nat] /\ w.tm.contexts \subseteq Nat
  <2>1. \A t \in [when : Near, ctx : Nat] : t \in [when : Ticks, ctx : Nat]
    BY DEF Near
  <2> QED BY <1>3, <2>1, TimerFacts
<1>5. w.tm.now \in Ticks /\ w.tm.window \in Ticks \union {None}
  BY <1>3, TimerFacts DEF Near, Windows
<1>6. {w.term.next_update, w.term.next_cblink} \subseteq Ticks \union {None}
  BY <1>3 DEF Terminals, Times
<1>7. w.pinger \in [live : BOOLEAN, addr : Nat, pending : BOOLEAN, next : Ticks \union {None}]
  BY <1>3 DEF Pingers, Times
<1>8. Range(w.queue) \subseteq NetEvents \union {"inactive", "restart", "exit"}
  <2>1. PICK q \in Seq(Messages) : q = w.queue
    BY <1>3
  <2>2. \A i \in DOMAIN q : q[i] \in Messages
    OBVIOUS
  <2> QED BY <2>1, <2>2 DEF Range, Messages
<1>9. {w.back, w.must_close, w.closed, w.quit, w.over, w.awake} \subseteq BOOLEAN
  BY <1>3 DEF Programs
<1> QED BY <1>2, <1>3, <1>4, <1>5, <1>6, <1>7, <1>8, <1>9 DEF TypeOK

(* The window timer. *)
LEMMA InvariantWindow == IInv => WindowTimerSet
<1>1. SUFFICES ASSUME IInv, NEW t \in Active(w.tm)
               PROVE  /\ w.tm.window # None
                      /\ Since(w.tm.window, t.when) <= 0 \/ Since(w.tm.window, 0) <= 1
  BY DEF WindowTimerSet
<1>2. w.tm \in Timers /\ InTime(w.tm) /\ t \in w.tm.timers
  BY <1>1, GoodFacts DEF IInv, Good, Active
<1>3. /\ w.tm.window # None
      /\ Offset(w.tm.window) <= Offset(t.when) \/ Offset(w.tm.window) <= 1
  BY <1>2 DEF InTime
<1>4. w.tm.window \in Near /\ t.when \in Near
  BY <1>2, <1>3, TimerFacts DEF Windows
<1>5. /\ Since(w.tm.window, t.when) = Offset(w.tm.window) - Offset(t.when)
      /\ Offset(w.tm.window) \in Int /\ Offset(t.when) \in Int
  BY <1>4, NearSince
<1> QED BY <1>3, <1>5 DEF Offset

(* What waits has a timer. *)
LEMMA InvariantWaits == ~SameTick /\ IInv => WhatWaitsHasTimer
<1>1. SUFFICES ASSUME ~SameTick, IInv PROVE WhatWaitsHasTimer
  OBVIOUS
<1>2. ContextsLive(w) /\ TermWaits(w) /\ PingWaits(w)
  BY <1>1 DEF IInv, Good, Books
<1>3. w.term.update_pending => Waiting(w.term.next_update, Term)
  BY <1>2 DEF ContextsLive, TermWaits, Waiting, Active
<1>4. w.term.cblink_pending => Waiting(w.term.next_cblink, Term)
  BY <1>2 DEF ContextsLive, TermWaits, Waiting, Active
<1>5. w.pinger.pending => Waiting(w.pinger.next, w.pinger.addr)
  BY <1>1, <1>2 DEF PingWaits, Waiting, Active
<1> QED BY <1>3, <1>4, <1>5 DEF WhatWaitsHasTimer

(* The terminal, the pinger and timing.c keep each other's books, if an address is not
   reused in the tick in which the last pinger there had set a timer: what is waited for
   has a timer that will run, in time, and no function runs for what has been freed. *)
THEOREM TimersAlwaysSound ==
    ASSUME ~SameTick
    PROVE  Spec => []TimersSound
<1>1. IInv => NoStrayTimer
  BY DEF IInv, Good, Books, ContextsLive, NoStrayTimer
<1>2. IInv => TimersSound
  BY <1>1, InvariantTypes, InvariantWindow, InvariantWaits DEF TimersSound
<1> QED BY <1>2, ProgramAlwaysInOrder, PTL
=============================================================================
