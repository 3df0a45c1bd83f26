--------------------------- MODULE WinHandleProofs ---------------------------
(***************************************************************************)
(* Proofs about WinHandle for any amount of data; in the end, that each    *)
(* direction of it implements Stream.                                      *)
(***************************************************************************)
EXTENDS WinHandle, Integers, SequenceTheorems, TLAPS

(* One handle: g its struct handle, to and from its events, p where its
   thread is. *)
Sound(g, to, from, p) ==
    /\ to => g.busy /\ ~from /\ p \notin {"woken", "busy"}
    /\ from => g.busy /\ p \notin {"woken", "busy"}
    /\ p \in {"woken", "busy"} => g.busy
    /\ g.done => g.moribund /\ g.busy /\ p # "busy"
    /\ g.done /\ to => p = "gone"
    /\ g.defunct => p = "gone" \/ g.moribund
    /\ ~g.live => p = "gone"

(* What is asked to be written is queued; a queue goes with its handle. *)
Queued(g, from, p, n, q) ==
    /\ (from \/ p \in {"woken", "busy"}) /\ ~g.done => n <= Len(q)
    /\ ~g.live => q = <<>>

(* The user holds both handles until it has freed both. *)
Owned(held, hs) ==
    IF held THEN \A h \in Kinds : hs[h].live /\ ~hs[h].moribund
    ELSE \A h \in Kinds : hs[h].moribund \/ ~hs[h].live

Places == {"busy", "check", "waiting", "woken", "gone"}

Typed ==
    /\ handles \in [Kinds -> Fields]
    /\ ev_to_main \in [Kinds -> BOOLEAN] /\ ev_from_main \in [Kinds -> BOOLEAN]
    /\ thread \in [Kinds -> Places] /\ thread["out"] # "check"
    /\ buffer \in 0 .. MaxInput /\ len \in {0, 1}
    /\ outlen \in 0 .. MaxOutput /\ lenwritten \in 0 .. MaxOutput
    /\ writeerr \in BOOLEAN /\ open \in BOOLEAN
    /\ queued_data \in Seq(1 .. MaxOutput) /\ submitted \in Seq(1 .. MaxOutput)
    /\ Len(queued_data) <= Len(submitted) /\ Len(submitted) <= MaxOutput
    /\ source \in Seq(Nat) /\ Len(source) <= MaxInput
    /\ delivered \in Seq(Nat) /\ written \in Seq(Nat)

IInv ==
    /\ Typed
    /\ \A h \in Kinds : Sound(handles[h], ev_to_main[h], ev_from_main[h], thread[h])
    /\ Queued(handles["out"], ev_from_main["out"], thread["out"], outlen, queued_data)
    /\ Owned(open, handles)
    /\ writeerr => thread["out"] = "gone"

-----------------------------------------------------------------------------
(* What the main thread may change, as the record its operators work on. *)
State ==
    [handles : [Kinds -> Fields], ev_from_main : [Kinds -> BOOLEAN],
     outlen : 0 .. MaxOutput, queued_data : Seq(1 .. MaxOutput), open : BOOLEAN,
     delivered : Seq(Nat)]

(* The part of the invariant that such a record m has, given the other events
   and the threads. *)
Fine(m, to, th) ==
    /\ \A h \in Kinds : Sound(m.handles[h], to[h], m.ev_from_main[h], th[h])
    /\ Queued(m.handles["out"], m.ev_from_main["out"], th["out"], m.outlen, m.queued_data)

(* One handle's fields or its event, changed in a state of the main thread. *)
LEMMA PutField ==
    ASSUME NEW m \in State, NEW h \in Kinds, NEW g \in Fields
    PROVE  LET r == [m EXCEPT !.handles = [m.handles EXCEPT ![h] = g]]
           IN  /\ r \in State /\ r.handles[h] = g
               /\ \A k \in Kinds \ {h} : r.handles[k] = m.handles[k]
               /\ r.ev_from_main = m.ev_from_main /\ r.outlen = m.outlen
               /\ r.queued_data = m.queued_data /\ r.open = m.open
               /\ r.delivered = m.delivered
BY DEF State

LEMMA PutEvent ==
    ASSUME NEW m \in State, NEW h \in Kinds
    PROVE  LET r == SetEvent(m, h)
           IN  /\ r \in State /\ r.ev_from_main[h] = TRUE
               /\ \A k \in Kinds \ {h} : r.ev_from_main[k] = m.ev_from_main[k]
               /\ r.handles = m.handles /\ r.outlen = m.outlen
               /\ r.queued_data = m.queued_data /\ r.open = m.open
               /\ r.delivered = m.delivered
BY DEF State, SetEvent

LEMMA KillIs ==
    ASSUME NEW m \in State, NEW h \in Kinds
    PROVE  LET r == Kill(m, h)
           IN  /\ r \in State /\ r.ev_from_main[h] = TRUE
               /\ r.handles[h].done /\ r.handles[h].busy
               /\ r.handles[h].live = m.handles[h].live
               /\ r.handles[h].defunct = m.handles[h].defunct
               /\ r.handles[h].moribund = m.handles[h].moribund
               /\ \A k \in Kinds \ {h} : /\ r.ev_from_main[k] = m.ev_from_main[k]
                                         /\ r.handles[k] = m.handles[k]
               /\ r.outlen = m.outlen
               /\ r.queued_data = m.queued_data /\ r.open = m.open
               /\ r.delivered = m.delivered
<1> DEFINE a == SetEvent(m, h)
           ga == [a.handles[h] EXCEPT !.done = TRUE]
           b == [a EXCEPT !.handles = [a.handles EXCEPT ![h] = ga]]
           gb == [b.handles[h] EXCEPT !.busy = TRUE]
           c == [b EXCEPT !.handles = [b.handles EXCEPT ![h] = gb]]
<1>1. Kill(m, h) = c
  BY DEF Kill
<1>2. /\ a \in State /\ a.handles[h] \in Fields /\ a.handles = m.handles
      /\ a.ev_from_main[h] = TRUE
      /\ \A k \in Kinds \ {h} : a.ev_from_main[k] = m.ev_from_main[k]
      /\ a.outlen = m.outlen /\ a.queued_data = m.queued_data
      /\ a.open = m.open /\ a.delivered = m.delivered
  <2>1. /\ a \in State /\ a.handles = m.handles
        /\ a.ev_from_main[h] = TRUE
        /\ \A k \in Kinds \ {h} : a.ev_from_main[k] = m.ev_from_main[k]
        /\ a.outlen = m.outlen /\ a.queued_data = m.queued_data
        /\ a.open = m.open /\ a.delivered = m.delivered
    BY PutEvent
  <2> HIDE DEF a
  <2>2. a.handles[h] \in Fields
    BY <2>1 DEF State
  <2> QED BY <2>1, <2>2
<1> HIDE DEF a
<1>3. /\ ga \in Fields /\ ga.done = TRUE /\ ga.live = a.handles[h].live
      /\ ga.defunct = a.handles[h].defunct /\ ga.moribund = a.handles[h].moribund
  BY <1>2 DEF Fields
<1> HIDE DEF ga
<1>4. /\ b \in State /\ b.handles[h] = ga
      /\ \A k \in Kinds \ {h} : b.handles[k] = a.handles[k]
      /\ b.ev_from_main = a.ev_from_main /\ b.outlen = a.outlen
      /\ b.queued_data = a.queued_data /\ b.open = a.open /\ b.delivered = a.delivered
  BY <1>2, <1>3, PutField
<1> HIDE DEF b
<1>5. /\ gb \in Fields /\ gb.busy = TRUE /\ gb.done = TRUE /\ gb.live = ga.live
      /\ gb.defunct = ga.defunct /\ gb.moribund = ga.moribund
  BY <1>3, <1>4 DEF Fields
<1> HIDE DEF gb
<1>6. /\ c \in State /\ c.handles[h] = gb
      /\ \A k \in Kinds \ {h} : c.handles[k] = b.handles[k]
      /\ c.ev_from_main = b.ev_from_main /\ c.outlen = b.outlen
      /\ c.queued_data = b.queued_data /\ c.open = b.open /\ c.delivered = b.delivered
  BY <1>4, <1>5, PutField
<1> HIDE DEF c
<1> QED BY <1>1, <1>2, <1>3, <1>4, <1>5, <1>6

(* Telling a thread that waits, or has gone, to die. *)
LEMMA KillFine ==
    ASSUME NEW m \in State, NEW h \in Kinds, NEW to, NEW th,
           Fine(m, to, th), ~to[h], ~m.ev_from_main[h],
           th[h] \notin {"woken", "busy"}, m.handles[h].moribund
    PROVE  Kill(m, h) \in State /\ Fine(Kill(m, h), to, th)
<1> DEFINE r == Kill(m, h)
<1>1. /\ r \in State
      /\ r.outlen = m.outlen /\ r.queued_data = m.queued_data
      /\ r.ev_from_main[h] = TRUE
      /\ r.handles[h].live = m.handles[h].live
      /\ r.handles[h].defunct = m.handles[h].defunct
      /\ r.handles[h].moribund /\ r.handles[h].done /\ r.handles[h].busy
      /\ \A k \in Kinds \ {h} : /\ r.handles[k] = m.handles[k]
                                /\ r.ev_from_main[k] = m.ev_from_main[k]
  BY KillIs, ZenonT(40)
<1> HIDE DEF r
<1>2. Sound(r.handles[h], to[h], r.ev_from_main[h], th[h])
  BY <1>1 DEF Fine, Sound
<1>3. \A k \in Kinds \ {h} : Sound(r.handles[k], to[k], r.ev_from_main[k], th[k])
  BY <1>1 DEF Fine
<1>4. Queued(r.handles["out"], r.ev_from_main["out"], th["out"], r.outlen, r.queued_data)
  <2>1. CASE h = "out"
    BY <1>1, <2>1 DEF Fine, Queued
  <2>2. CASE h # "out"
    BY <1>1, <2>2 DEF Fine, Queued, Kinds
  <2> QED BY <2>1, <2>2
<1> QED BY <1>1, <1>2, <1>3, <1>4 DEF Fine, r

(* Destroying a handle whose thread has gone. *)
LEMMA DestroyFine ==
    ASSUME NEW m \in State, NEW h \in Kinds, NEW to, NEW th,
           Fine(m, to, th), ~m.ev_from_main[h], th[h] = "gone"
    PROVE  LET r == handle_destroy(m, h)
           IN  /\ r \in State /\ Fine(r, to, th)
               /\ ~r.handles[h].live
               /\ \A k \in Kinds \ {h} : r.handles[k] = m.handles[k]
               /\ r.queued_data = IF h = "out" THEN <<>> ELSE m.queued_data
               /\ r.open = m.open /\ r.delivered = m.delivered
<1> DEFINE g == [m.handles[h] EXCEPT !.live = FALSE]
           a == [m EXCEPT !.handles = [m.handles EXCEPT ![h] = g]]
           q == IF h = "out" THEN <<>> ELSE a.queued_data
           r == [a EXCEPT !.queued_data = q]
<1>1. r = handle_destroy(m, h)
  BY DEF handle_destroy
<1>2. m.handles[h] \in Fields
  BY DEF State
<1>3. /\ g \in Fields /\ ~g.live /\ g.busy = m.handles[h].busy
      /\ g.done = m.handles[h].done /\ g.defunct = m.handles[h].defunct
      /\ g.moribund = m.handles[h].moribund
  BY <1>2 DEF Fields
<1> HIDE DEF g
<1>4. /\ a \in State /\ a.handles[h] = g
      /\ \A k \in Kinds \ {h} : a.handles[k] = m.handles[k]
      /\ a.ev_from_main = m.ev_from_main /\ a.outlen = m.outlen
      /\ a.queued_data = m.queued_data /\ a.open = m.open
      /\ a.delivered = m.delivered
  BY <1>3, PutField
<1> HIDE DEF a
<1>5. q \in Seq(1 .. MaxOutput)
  <2>1. a.queued_data \in Seq(1 .. MaxOutput)
    BY <1>4 DEF State
  <2>2. <<>> \in Seq(1 .. MaxOutput)
    OBVIOUS
  <2> QED BY <2>1, <2>2
<1> HIDE DEF q
<1>6. /\ r \in State /\ r.queued_data = q
      /\ r.handles = a.handles /\ r.ev_from_main = a.ev_from_main
      /\ r.outlen = a.outlen /\ r.open = a.open /\ r.delivered = a.delivered
  BY <1>4, <1>5 DEF State
<1> HIDE DEF r
<1>7. Sound(r.handles[h], to[h], r.ev_from_main[h], th[h])
  BY <1>3, <1>4, <1>6 DEF Fine, Sound
<1>8. \A k \in Kinds \ {h} : Sound(r.handles[k], to[k], r.ev_from_main[k], th[k])
  BY <1>4, <1>6 DEF Fine
<1>9. Queued(r.handles["out"], r.ev_from_main["out"], th["out"], r.outlen, r.queued_data)
  <2>1. CASE h = "out"
    BY <1>3, <1>4, <1>6, <2>1 DEF Queued, q
  <2>2. CASE h # "out"
    BY <1>3, <1>4, <1>6, <2>2 DEF Fine, Queued, Kinds, q
  <2> QED BY <2>1, <2>2
<1>10. Fine(r, to, th)
  BY <1>7, <1>8, <1>9 DEF Fine
<1> QED BY <1>1, <1>3, <1>4, <1>6, <1>10 DEF q

(* Freeing a handle at any moment: it will be destroyed or is, and what is
   queued stays until it is. *)
LEMMA FreeFine ==
    ASSUME NEW m \in State, NEW h \in Kinds, NEW to, NEW th, Fine(m, to, th)
    PROVE  LET r == handle_free(m, h)
           IN  /\ r \in State /\ Fine(r, to, th)
               /\ r.handles[h].moribund \/ ~r.handles[h].live
               /\ \A k \in Kinds \ {h} : r.handles[k] = m.handles[k]
               /\ Len(r.queued_data) <= Len(m.queued_data)
               /\ (r.handles["out"].live /\ ~r.handles["out"].done)
                     => /\ m.handles["out"].live /\ ~m.handles["out"].done
                        /\ r.queued_data = m.queued_data
               /\ r.open = m.open /\ r.delivered = m.delivered
<1> DEFINE r == handle_free(m, h)
           g == [m.handles[h] EXCEPT !.moribund = TRUE]
           a == [m EXCEPT !.handles = [m.handles EXCEPT ![h] = g]]
           Goal ==
             /\ r \in State /\ Fine(r, to, th)
             /\ r.handles[h].moribund \/ ~r.handles[h].live
             /\ \A k \in Kinds \ {h} : r.handles[k] = m.handles[k]
             /\ Len(r.queued_data) <= Len(m.queued_data)
             /\ (r.handles["out"].live /\ ~r.handles["out"].done)
                   => /\ m.handles["out"].live /\ ~m.handles["out"].done
                      /\ r.queued_data = m.queued_data
             /\ r.open = m.open /\ r.delivered = m.delivered
<1>0. /\ m.handles[h] \in Fields /\ m.queued_data \in Seq(1 .. MaxOutput)
      /\ Len(m.queued_data) >= 0
  BY DEF State
<1>1. /\ g \in Fields /\ g.moribund /\ g.busy = m.handles[h].busy
      /\ g.done = m.handles[h].done /\ g.defunct = m.handles[h].defunct
      /\ g.live = m.handles[h].live
  BY <1>0 DEF Fields
<1>2. r = IF m.handles[h].moribund THEN m
          ELSE IF m.handles[h].busy THEN a
          ELSE IF m.handles[h].defunct THEN handle_destroy(m, h)
          ELSE Kill(a, h)
  BY DEF handle_free
<1> HIDE DEF r, g
<1>3. /\ a \in State /\ a.handles[h] = g
      /\ \A k \in Kinds \ {h} : a.handles[k] = m.handles[k]
      /\ a.ev_from_main = m.ev_from_main /\ a.outlen = m.outlen
      /\ a.queued_data = m.queued_data /\ a.open = m.open
      /\ a.delivered = m.delivered
  BY <1>1, PutField
<1> HIDE DEF a
<1>4. Fine(a, to, th)
  <2>1. Sound(a.handles[h], to[h], a.ev_from_main[h], th[h])
    BY <1>1, <1>3 DEF Fine, Sound
  <2>2. \A k \in Kinds \ {h} : Sound(a.handles[k], to[k], a.ev_from_main[k], th[k])
    BY <1>3 DEF Fine
  <2>3. Queued(a.handles["out"], a.ev_from_main["out"], th["out"], a.outlen, a.queued_data)
    <3>1. a.handles["out"].live = m.handles["out"].live
          /\ a.handles["out"].done = m.handles["out"].done
      BY <1>1, <1>3 DEF Kinds
    <3> QED BY <1>3, <3>1 DEF Fine, Queued
  <2> QED BY <2>1, <2>2, <2>3 DEF Fine
<1>5. ASSUME m.handles[h].moribund PROVE Goal
  BY <1>0, <1>2, <1>5
<1>6. ASSUME ~m.handles[h].moribund, m.handles[h].busy PROVE Goal
  <2>1. r = a
    BY <1>2, <1>6
  <2>2. a.handles["out"].live = m.handles["out"].live
        /\ a.handles["out"].done = m.handles["out"].done
    BY <1>1, <1>3 DEF Kinds
  <2> QED BY <1>0, <1>1, <1>3, <1>4, <2>1, <2>2
<1>7. ASSUME ~m.handles[h].moribund, ~m.handles[h].busy PROVE Goal
  <2>1. ~to[h] /\ ~m.ev_from_main[h] /\ th[h] \notin {"woken", "busy"}
    BY <1>7 DEF Fine, Sound
  <2>2. CASE m.handles[h].defunct
    <3>1. r = handle_destroy(m, h)
      BY <1>2, <1>7, <2>2
    <3>2. th[h] = "gone"
      BY <1>7, <2>2 DEF Fine, Sound
    <3>3. /\ r \in State /\ Fine(r, to, th)
          /\ ~r.handles[h].live
          /\ \A k \in Kinds \ {h} : r.handles[k] = m.handles[k]
          /\ r.queued_data = IF h = "out" THEN <<>> ELSE m.queued_data
          /\ r.open = m.open /\ r.delivered = m.delivered
      BY <2>1, <3>1, <3>2, DestroyFine
    <3>4. Len(<<>>) = 0
      OBVIOUS
    <3>5. CASE h = "out"
      BY <1>0, <3>3, <3>4, <3>5
    <3>6. CASE h = "in"
      BY <1>0, <3>3, <3>6 DEF Kinds
    <3> QED BY <3>5, <3>6 DEF Kinds
  <2>3. CASE ~m.handles[h].defunct
    <3>1. r = Kill(a, h)
      BY <1>2, <1>7, <2>3
    <3>2. ~a.ev_from_main[h] /\ a.handles[h].moribund
      BY <1>1, <1>3, <2>1
    <3>3. r \in State /\ Fine(r, to, th)
      BY <1>3, <1>4, <2>1, <3>1, <3>2, KillFine
    <3>4. /\ r.handles[h].done /\ r.handles[h].moribund
          /\ \A k \in Kinds \ {h} : r.handles[k] = m.handles[k]
          /\ r.queued_data = m.queued_data /\ r.open = m.open
          /\ r.delivered = m.delivered
      <4> DEFINE u == Kill(a, h)
      <4>1. /\ u.handles[h].done /\ u.handles[h].moribund = a.handles[h].moribund
            /\ \A k \in Kinds \ {h} : u.handles[k] = a.handles[k]
            /\ u.queued_data = a.queued_data /\ u.open = a.open
            /\ u.delivered = a.delivered
        <5>1. a \in State
          BY <1>3
        <5>2. /\ u.handles[h].done
              /\ u.handles[h].moribund = a.handles[h].moribund
              /\ u.queued_data = a.queued_data /\ u.open = a.open
              /\ u.delivered = a.delivered
          BY <5>1, KillIs
        <5>3. ASSUME NEW k \in Kinds \ {h} PROVE u.handles[k] = a.handles[k]
          BY <5>1, KillIs, ZenonT(40)
        <5> QED BY <5>2, <5>3
      <4>2. r = u
        BY <3>1
      <4> HIDE DEF u
      <4> QED BY <1>3, <3>2, <4>1, <4>2
    <3>5. CASE h = "out"
      BY <1>0, <3>3, <3>4, <3>5
    <3>6. CASE h = "in"
      BY <1>0, <3>3, <3>4, <3>6 DEF Kinds
    <3> QED BY <3>5, <3>6 DEF Kinds
  <2> QED BY <2>2, <2>3
<1> QED BY <1>5, <1>6, <1>7 DEF r

(* Both handles are freed at once. *)
LEMMA TerminateFine ==
    ASSUME NEW m \in State, NEW to, NEW th, Fine(m, to, th)
    PROVE  LET r == Terminate(m)
           IN  /\ r \in State /\ Fine(r, to, th) /\ ~r.open
               /\ \A h \in Kinds : r.handles[h].moribund \/ ~r.handles[h].live
               /\ Len(r.queued_data) <= Len(m.queued_data)
               /\ (r.handles["out"].live /\ ~r.handles["out"].done)
                     => /\ m.handles["out"].live /\ ~m.handles["out"].done
                        /\ r.queued_data = m.queued_data
               /\ r.delivered = m.delivered
<1> DEFINE a == handle_free(m, "out")
           b == handle_free(a, "in")
           r == [b EXCEPT !.open = FALSE]
<1>0. "in" \in Kinds /\ "out" \in Kinds /\ \A h \in Kinds : h = "in" \/ h = "out"
  BY DEF Kinds
<1>1. r = Terminate(m)
  BY DEF Terminate
<1>2. /\ a \in State /\ Fine(a, to, th)
      /\ a.handles["out"].moribund \/ ~a.handles["out"].live
      /\ Len(a.queued_data) <= Len(m.queued_data)
      /\ (a.handles["out"].live /\ ~a.handles["out"].done)
            => /\ m.handles["out"].live /\ ~m.handles["out"].done
               /\ a.queued_data = m.queued_data
      /\ a.delivered = m.delivered
  BY <1>0, FreeFine
<1> HIDE DEF a
<1>3. /\ b \in State /\ Fine(b, to, th)
      /\ b.handles["in"].moribund \/ ~b.handles["in"].live
      /\ \A k \in Kinds \ {"in"} : b.handles[k] = a.handles[k]
      /\ Len(b.queued_data) <= Len(a.queued_data)
      /\ (b.handles["out"].live /\ ~b.handles["out"].done)
            => b.queued_data = a.queued_data
      /\ b.delivered = a.delivered
  BY <1>0, <1>2, FreeFine
<1> HIDE DEF b
<1>4. b.handles["out"] = a.handles["out"]
  BY <1>0, <1>3
<1>5. /\ r \in State /\ ~r.open
      /\ r.handles = b.handles /\ r.ev_from_main = b.ev_from_main
      /\ r.outlen = b.outlen /\ r.queued_data = b.queued_data
      /\ r.delivered = b.delivered
  BY <1>3 DEF State
<1> HIDE DEF r
<1>6. Fine(r, to, th)
  BY <1>3, <1>5 DEF Fine
<1>7. \A h \in Kinds : r.handles[h].moribund \/ ~r.handles[h].live
  BY <1>0, <1>2, <1>3, <1>4, <1>5
<1>8. /\ Len(a.queued_data) \in Int /\ Len(b.queued_data) \in Int
      /\ Len(m.queued_data) \in Int
  BY <1>2, <1>3 DEF State
<1>9. Len(r.queued_data) <= Len(m.queued_data)
  BY <1>2, <1>3, <1>5, <1>8
<1> QED BY <1>1, <1>2, <1>3, <1>4, <1>5, <1>6, <1>7, <1>9

(* A failed handle, whose thread has gone or is to be freed, and the user's
   answer to it. *)
LEMMA FailedFine ==
    ASSUME NEW m \in State, NEW h \in Kinds, NEW frees \in BOOLEAN, NEW to, NEW th,
           Fine(m, to, th), frees \/ th[h] = "gone"
    PROVE  LET r == Failed(m, h, frees)
           IN  /\ r \in State /\ Fine(r, to, th)
               /\ frees => ~r.open /\ \A k \in Kinds : r.handles[k].moribund \/ ~r.handles[k].live
               /\ ~frees => /\ r.open = m.open
                            /\ \A k \in Kinds : /\ r.handles[k].live = m.handles[k].live
                                                /\ r.handles[k].moribund = m.handles[k].moribund
               /\ Len(r.queued_data) <= Len(m.queued_data)
               /\ (r.handles["out"].live /\ ~r.handles["out"].done)
                     => /\ m.handles["out"].live /\ ~m.handles["out"].done
                        /\ r.queued_data = m.queued_data
               /\ r.delivered = m.delivered
<1> DEFINE a == IF frees THEN Terminate(m) ELSE m
           g == [a.handles[h] EXCEPT !.defunct = TRUE]
           r == [a EXCEPT !.handles = [a.handles EXCEPT ![h] = g]]
<1>0. "out" \in Kinds /\ Len(m.queued_data) \in Int
  BY DEF Kinds, State
<1>1. r = Failed(m, h, frees)
  BY DEF Failed
<1>2. /\ a \in State /\ Fine(a, to, th)
      /\ frees => ~a.open /\ \A k \in Kinds : a.handles[k].moribund \/ ~a.handles[k].live
      /\ ~frees => a = m
      /\ Len(a.queued_data) <= Len(m.queued_data)
      /\ (a.handles["out"].live /\ ~a.handles["out"].done)
            => /\ m.handles["out"].live /\ ~m.handles["out"].done
               /\ a.queued_data = m.queued_data
      /\ a.delivered = m.delivered
  <2>1. CASE frees
    BY <2>1, TerminateFine
  <2>2. CASE ~frees
    BY <1>0, <2>2
  <2> QED BY <2>1, <2>2
<1> HIDE DEF a
<1>3. a.handles[h] \in Fields
  BY <1>2 DEF State
<1>4. /\ g \in Fields /\ g.defunct /\ g.busy = a.handles[h].busy
      /\ g.done = a.handles[h].done /\ g.live = a.handles[h].live
      /\ g.moribund = a.handles[h].moribund
  BY <1>3 DEF Fields
<1> HIDE DEF g
<1>5. /\ r \in State /\ r.handles[h] = g
      /\ \A k \in Kinds \ {h} : r.handles[k] = a.handles[k]
      /\ r.ev_from_main = a.ev_from_main /\ r.outlen = a.outlen
      /\ r.queued_data = a.queued_data /\ r.open = a.open
      /\ r.delivered = a.delivered
  BY <1>2, <1>4, PutField
<1> HIDE DEF r
<1>6. \A k \in Kinds : /\ r.handles[k].live = a.handles[k].live
                       /\ r.handles[k].moribund = a.handles[k].moribund
                       /\ r.handles[k].done = a.handles[k].done
  BY <1>4, <1>5
<1>7. Fine(r, to, th)
  <2>1. g.moribund \/ th[h] = "gone"
    BY <1>2, <1>4 DEF Fine, Sound
  <2>2. Sound(r.handles[h], to[h], r.ev_from_main[h], th[h])
    BY <1>2, <1>4, <1>5, <2>1 DEF Fine, Sound
  <2>3. \A k \in Kinds \ {h} : Sound(r.handles[k], to[k], r.ev_from_main[k], th[k])
    BY <1>2, <1>5 DEF Fine
  <2>4. Queued(r.handles["out"], r.ev_from_main["out"], th["out"], r.outlen, r.queued_data)
    BY <1>0, <1>2, <1>5, <1>6 DEF Fine, Queued
  <2> QED BY <2>2, <2>3, <2>4 DEF Fine
<1> QED BY <1>0, <1>1, <1>2, <1>5, <1>6, <1>7

Idle(m, h) == [m EXCEPT !.handles[h].busy = FALSE]
Taken(to, h) == [to EXCEPT ![h] = FALSE]

(* The signal of a handle that is not to die is taken: it is idle. *)
LEMMA IdleFine ==
    ASSUME NEW m \in State, NEW h \in Kinds, NEW to \in [Kinds -> BOOLEAN], NEW th,
           Fine(m, to, th), to[h], ~m.handles[h].done
    PROVE  LET r == Idle(m, h)
           IN  /\ r \in State /\ Fine(r, Taken(to, h), th)
               /\ ~r.handles[h].busy /\ ~r.handles[h].done
               /\ \A k \in Kinds : /\ r.handles[k].live = m.handles[k].live
                                   /\ r.handles[k].moribund = m.handles[k].moribund
                                   /\ r.handles[k].done = m.handles[k].done
               /\ ~m.ev_from_main[h] /\ th[h] \notin {"woken", "busy"}
               /\ r.ev_from_main = m.ev_from_main
               /\ r.outlen = m.outlen /\ r.queued_data = m.queued_data
               /\ r.open = m.open /\ r.delivered = m.delivered
<1> DEFINE g == [m.handles[h] EXCEPT !.busy = FALSE]
           r == [m EXCEPT !.handles = [m.handles EXCEPT ![h] = g]]
           to1 == Taken(to, h)
<1>1. m.handles[h] \in Fields
  BY DEF State
<1>2. /\ g \in Fields /\ ~g.busy /\ g.live = m.handles[h].live
      /\ g.done = m.handles[h].done /\ g.defunct = m.handles[h].defunct
      /\ g.moribund = m.handles[h].moribund
  BY <1>1 DEF Fields
<1>3. r = Idle(m, h)
  BY DEF Idle
<1> HIDE DEF g
<1>4. /\ r \in State /\ r.handles[h] = g
      /\ \A k \in Kinds \ {h} : r.handles[k] = m.handles[k]
      /\ r.ev_from_main = m.ev_from_main /\ r.outlen = m.outlen
      /\ r.queued_data = m.queued_data /\ r.open = m.open
      /\ r.delivered = m.delivered
  BY <1>2, PutField
<1> HIDE DEF r
<1>5. ~to1[h] /\ \A k \in Kinds \ {h} : to1[k] = to[k]
  BY DEF Taken
<1> HIDE DEF to1
<1>6. ~m.ev_from_main[h] /\ th[h] \notin {"woken", "busy"}
  BY DEF Fine, Sound
<1>7. Sound(r.handles[h], to1[h], r.ev_from_main[h], th[h])
  BY <1>2, <1>4, <1>5, <1>6 DEF Fine, Sound
<1>8. \A k \in Kinds \ {h} : Sound(r.handles[k], to1[k], r.ev_from_main[k], th[k])
  BY <1>4, <1>5 DEF Fine
<1>9. \A k \in Kinds : /\ r.handles[k].live = m.handles[k].live
                       /\ r.handles[k].moribund = m.handles[k].moribund
                       /\ r.handles[k].done = m.handles[k].done
  BY <1>2, <1>4
<1>10. Queued(r.handles["out"], r.ev_from_main["out"], th["out"], r.outlen, r.queued_data)
  BY <1>4, <1>9 DEF Fine, Queued, Kinds
<1>11. Fine(r, to1, th)
  BY <1>7, <1>8, <1>10 DEF Fine
<1>12. ~r.handles[h].busy /\ ~r.handles[h].done
  BY <1>2, <1>4
<1> QED BY <1>3, <1>4, <1>6, <1>9, <1>11, <1>12 DEF to1

(* A thread that waits is set to work. *)
LEMMA WorkFine ==
    ASSUME NEW m \in State, NEW h \in Kinds, NEW to, NEW th, Fine(m, to, th),
           ~m.handles[h].busy, h = "out" => m.outlen <= Len(m.queued_data)
    PROVE  LET r == [SetEvent(m, h) EXCEPT !.handles[h].busy = TRUE]
           IN  /\ r \in State /\ Fine(r, to, th)
               /\ \A k \in Kinds : /\ r.handles[k].live = m.handles[k].live
                                   /\ r.handles[k].moribund = m.handles[k].moribund
                                   /\ r.handles[k].done = m.handles[k].done
               /\ r.outlen = m.outlen /\ r.queued_data = m.queued_data
               /\ r.open = m.open /\ r.delivered = m.delivered
<1> DEFINE a == SetEvent(m, h)
           g == [a.handles[h] EXCEPT !.busy = TRUE]
           r == [a EXCEPT !.handles = [a.handles EXCEPT ![h] = g]]
<1>0. r = [SetEvent(m, h) EXCEPT !.handles[h].busy = TRUE]
  OBVIOUS
<1>1. /\ a \in State /\ a.handles = m.handles
      /\ a.ev_from_main[h] = TRUE
      /\ \A k \in Kinds \ {h} : a.ev_from_main[k] = m.ev_from_main[k]
      /\ a.outlen = m.outlen /\ a.queued_data = m.queued_data
      /\ a.open = m.open /\ a.delivered = m.delivered
  BY PutEvent
<1> HIDE DEF a
<1>2. a.handles[h] \in Fields
  BY <1>1 DEF State
<1>3. /\ g \in Fields /\ g.busy /\ g.live = m.handles[h].live
      /\ g.done = m.handles[h].done /\ g.defunct = m.handles[h].defunct
      /\ g.moribund = m.handles[h].moribund
  BY <1>1, <1>2 DEF Fields
<1> HIDE DEF g
<1>4. /\ r \in State /\ r.handles[h] = g
      /\ \A k \in Kinds \ {h} : r.handles[k] = a.handles[k]
      /\ r.ev_from_main = a.ev_from_main /\ r.outlen = a.outlen
      /\ r.queued_data = a.queued_data /\ r.open = a.open
      /\ r.delivered = a.delivered
  BY <1>1, <1>3, PutField
<1> HIDE DEF r
<1>5. ~to[h] /\ th[h] \notin {"woken", "busy"} /\ ~m.handles[h].done
  BY DEF Fine, Sound
<1>6. Sound(r.handles[h], to[h], r.ev_from_main[h], th[h])
  BY <1>1, <1>3, <1>4, <1>5 DEF Fine, Sound
<1>7. \A k \in Kinds \ {h} : Sound(r.handles[k], to[k], r.ev_from_main[k], th[k])
  BY <1>1, <1>4 DEF Fine
<1>8. \A k \in Kinds : /\ r.handles[k].live = m.handles[k].live
                       /\ r.handles[k].moribund = m.handles[k].moribund
                       /\ r.handles[k].done = m.handles[k].done
  BY <1>1, <1>3, <1>4
<1>9. Queued(r.handles["out"], r.ev_from_main["out"], th["out"], r.outlen, r.queued_data)
  <2>0. "out" \in Kinds
    BY DEF Kinds
  <2>1. CASE h = "out"
    BY <1>1, <1>4, <1>8, <2>0, <2>1 DEF Fine, Queued
  <2>2. CASE h # "out"
    BY <1>1, <1>4, <1>8, <2>0, <2>2 DEF Fine, Queued
  <2> QED BY <2>1, <2>2
<1>10. Fine(r, to, th)
  BY <1>6, <1>7, <1>9 DEF Fine
<1> QED BY <1>0, <1>1, <1>4, <1>8, <1>10

(* handle_try_output() keeps whose handle is whose and what is queued. *)
LEMMA TryOutputFine ==
    ASSUME NEW m \in State, NEW to, NEW th, Fine(m, to, th),
           Len(m.queued_data) <= MaxOutput, NEW n \in Prefixes(m.queued_data)
    PROVE  LET r == handle_try_output(m, n)
           IN  /\ r \in State /\ Fine(r, to, th)
               /\ \A k \in Kinds : /\ r.handles[k].live = m.handles[k].live
                                   /\ r.handles[k].moribund = m.handles[k].moribund
                                   /\ r.handles[k].done = m.handles[k].done
               /\ r.queued_data = m.queued_data
               /\ r.open = m.open /\ r.delivered = m.delivered
<1> DEFINE a == [m EXCEPT !.outlen = n]
           r == [SetEvent(a, "out") EXCEPT !.handles["out"].busy = TRUE]
<1>0. "out" \in Kinds /\ Len(m.queued_data) \in Nat /\ MaxOutput \in Nat
  BY BoundsAssumption DEF Kinds, State
<1>1. CASE m.handles["out"].busy \/ m.queued_data = <<>>
  BY <1>1 DEF handle_try_output
<1>2. CASE ~m.handles["out"].busy /\ m.queued_data # <<>>
  <2>1. n \in 1 .. Len(m.queued_data)
    BY <1>2 DEF Prefixes
  <2>2. n \in 0 .. MaxOutput
    BY <1>0, <2>1
  <2>3. /\ a \in State /\ a.handles = m.handles /\ a.ev_from_main = m.ev_from_main
        /\ a.outlen = n /\ a.queued_data = m.queued_data
        /\ a.open = m.open /\ a.delivered = m.delivered
    BY <2>2 DEF State
  <2>4. handle_try_output(m, n) = r
    BY <1>2 DEF handle_try_output, SetEvent, State
  <2> HIDE DEF a
  <2>5. Fine(a, to, th)
    <3>1. Queued(a.handles["out"], a.ev_from_main["out"], th["out"], a.outlen, a.queued_data)
      BY <1>0, <2>1, <2>3 DEF Fine, Queued
    <3> QED BY <2>3, <3>1 DEF Fine
  <2>6. ~a.handles["out"].busy /\ a.outlen <= Len(a.queued_data)
    BY <1>0, <1>2, <2>1, <2>3
  <2>7. /\ r \in State /\ Fine(r, to, th)
        /\ \A k \in Kinds : /\ r.handles[k].live = a.handles[k].live
                            /\ r.handles[k].moribund = a.handles[k].moribund
                            /\ r.handles[k].done = a.handles[k].done
        /\ r.queued_data = a.queued_data /\ r.open = a.open
        /\ r.delivered = a.delivered
    BY <1>0, <2>3, <2>5, <2>6, WorkFine
  <2> HIDE DEF r
  <2> QED BY <2>3, <2>4, <2>7
<1> QED BY <1>1, <1>2

-----------------------------------------------------------------------------
(* The steps of the main thread. *)

LEMMA MainFine ==
    ASSUME IInv
    PROVE  /\ Main \in State /\ Fine(Main, ev_to_main, thread)
           /\ Main.handles = handles /\ Main.ev_from_main = ev_from_main
           /\ Main.outlen = outlen /\ Main.queued_data = queued_data
           /\ Main.open = open /\ Main.delivered = delivered
<1> DEFINE m == Main
<1>1. /\ m.handles = handles /\ m.ev_from_main = ev_from_main
      /\ m.outlen = outlen /\ m.queued_data = queued_data
      /\ m.open = open /\ m.delivered = delivered
  BY DEF Main
<1>2. m \in State
  BY DEF Main, State, IInv, Typed
<1> HIDE DEF m
<1>3. Fine(m, ev_to_main, thread)
  BY <1>1 DEF Fine, IInv
<1> QED BY <1>1, <1>2, <1>3 DEF m

(* What a step of the main thread must bring about for the invariant. *)
LEMMA MainStepIInv ==
    ASSUME IInv, NEW m \in State, MainStep(m), Fine(m, ev_to_main', thread),
           Owned(m.open, m.handles), ev_to_main' \in [Kinds -> BOOLEAN],
           submitted' \in Seq(1 .. MaxOutput),
           Len(m.queued_data) <= Len(submitted'), Len(submitted') <= MaxOutput
    PROVE  IInv'
<1>1. /\ handles' = m.handles /\ ev_from_main' = m.ev_from_main
      /\ outlen' = m.outlen /\ queued_data' = m.queued_data
      /\ open' = m.open /\ delivered' = m.delivered
      /\ UNCHANGED <<thread, buffer, len, source, lenwritten, writeerr, written>>
  BY DEF MainStep, input, output
<1>2. Typed'
  BY <1>1 DEF State, IInv, Typed
<1>3. /\ \A h \in Kinds : Sound(handles[h], ev_to_main[h], ev_from_main[h], thread[h])'
      /\ Queued(handles["out"], ev_from_main["out"], thread["out"], outlen, queued_data)'
  BY <1>1 DEF Fine
<1>4. (writeerr => thread["out"] = "gone")' /\ Owned(open, handles)'
  BY <1>1 DEF IInv
<1> QED BY <1>2, <1>3, <1>4 DEF IInv

(* The rest of the queue. *)
LEMMA ConsumedIs ==
    ASSUME IInv
    PROVE  /\ Consumed(queued_data) \in Seq(1 .. MaxOutput)
           /\ Len(Consumed(queued_data)) <= Len(queued_data)
           /\ lenwritten <= Len(queued_data) =>
                /\ Len(Consumed(queued_data)) = Len(queued_data) - lenwritten
                /\ \A i \in 1 .. Len(Consumed(queued_data)) :
                      Consumed(queued_data)[i] = queued_data[lenwritten + i]
<1> DEFINE q == queued_data
           r == SubSeq(q, lenwritten + 1, Len(q))
<1>1. /\ q \in Seq(1 .. MaxOutput) /\ lenwritten \in Nat
      /\ Len(q) \in Nat
  BY BoundsAssumption DEF IInv, Typed
<1>2. r = Consumed(queued_data)
  BY DEF Consumed
<1> HIDE DEF q
<1>3. CASE lenwritten <= Len(q)
  <2>0. ASSUME NEW i \in lenwritten + 1 .. Len(q) PROVE q[i] \in 1 .. MaxOutput
    <3> HIDE DEF r
    <3>1. i \in 1 .. Len(q)
      BY <1>1
    <3> QED BY <1>1, <3>1, ElementOfSeq, Zenon
  <2>1. r \in Seq(1 .. MaxOutput)
    <3>1. lenwritten + 1 \in Int /\ Len(q) \in Int
      BY <1>1
    <3> QED BY <2>0, <3>1, SubSeqProperties, Zenon
  <2>2. Len(r) = Len(q) - lenwritten
    BY <1>1, <1>3
  <2>3. \A i \in 1 .. Len(r) : r[i] = q[lenwritten + i]
    BY <1>1, <1>3, <2>2
  <2> HIDE DEF r
  <2> QED BY <1>1, <1>2, <1>3, <2>1, <2>2, <2>3 DEF q
<1>4. CASE ~(lenwritten <= Len(q))
  <2>1. r = <<>>
    BY <1>1, <1>4
  <2>2. /\ Len(r) = 0
        /\ r \in Seq(1 .. MaxOutput)
    <3> HIDE DEF r
    <3> QED BY <2>1
  <2> HIDE DEF r
  <2> QED BY <1>1, <1>2, <1>4, <2>2 DEF q
<1> QED BY <1>3, <1>4

(* What the main thread makes of a signal: the queue loses at most what was
   written, and only a dying handle's is lost. *)
LEMMA GotMoribundFine ==
    ASSUME IInv, NEW h \in Kinds, ev_to_main[h], handles[h].moribund
    PROVE  LET r == GotMoribund(Main, h)
           IN  /\ r \in State /\ Fine(r, Taken(ev_to_main, h), thread)
               /\ ~r.open /\ Owned(r.open, r.handles)
               /\ Len(r.queued_data) <= Len(queued_data)
               /\ (r.handles["out"].live /\ ~r.handles["out"].done)
                     => /\ handles["out"].live /\ ~handles["out"].done
                        /\ h # "out" /\ r.queued_data = queued_data
               /\ r.delivered = delivered
<1> DEFINE r == GotMoribund(Main, h)
           m == Main
           to1 == Taken(ev_to_main, h)
<1>1. /\ m \in State /\ Fine(m, ev_to_main, thread)
      /\ m.handles = handles /\ m.ev_from_main = ev_from_main
      /\ m.queued_data = queued_data /\ m.open = open /\ m.delivered = delivered
  BY MainFine
<1>2. r = IF m.handles[h].done THEN handle_destroy(m, h) ELSE Kill(m, h)
  BY DEF GotMoribund
<1>3. ~to1[h] /\ \A k \in Kinds : to1[k] => ev_to_main[k]
  BY DEF IInv, Typed, Taken
<1> HIDE DEF m, to1, r
<1>4. Fine(m, to1, thread)
  BY <1>1, <1>3 DEF Fine, Sound
<1>5. ~m.ev_from_main[h] /\ thread[h] \notin {"woken", "busy"}
      /\ (m.handles[h].done => thread[h] = "gone")
  BY <1>1 DEF Fine, Sound
<1>6. ~open /\ \A k \in Kinds : m.handles[k].moribund \/ ~m.handles[k].live
  BY <1>1 DEF IInv, Owned
<1>7. /\ Len(queued_data) \in Nat /\ Len(<<>>) = 0 /\ "out" \in Kinds
      /\ \A k \in Kinds : k = "in" \/ k = "out"
  BY DEF IInv, Typed, Kinds
<1>8. CASE m.handles[h].done
  <2>1. /\ r \in State /\ Fine(r, to1, thread) /\ ~r.handles[h].live
        /\ \A k \in Kinds \ {h} : r.handles[k] = m.handles[k]
        /\ r.queued_data = IF h = "out" THEN <<>> ELSE m.queued_data
        /\ r.open = m.open /\ r.delivered = m.delivered
    BY <1>1, <1>2, <1>4, <1>5, <1>8, DestroyFine
  <2>2. Owned(r.open, r.handles)
    BY <1>1, <1>6, <2>1 DEF Owned
  <2>3. CASE h = "out"
    BY <1>1, <1>6, <1>7, <2>1, <2>2, <2>3 DEF r, to1
  <2>4. CASE h = "in"
    BY <1>1, <1>6, <1>7, <2>1, <2>2, <2>4 DEF r, to1
  <2> QED BY <1>7, <2>3, <2>4
<1>9. CASE ~m.handles[h].done
  <2>1. r = Kill(m, h)
    BY <1>2, <1>9
  <2>2. r \in State /\ Fine(r, to1, thread)
    BY <1>1, <1>3, <1>4, <1>5, <2>1, KillFine
  <2>3. /\ r.handles[h].done /\ r.handles[h].moribund = m.handles[h].moribund
        /\ r.queued_data = m.queued_data /\ r.open = m.open
        /\ r.delivered = m.delivered
    BY <1>1, <2>1, KillIs
  <2>4. ASSUME NEW k \in Kinds \ {h} PROVE r.handles[k] = m.handles[k]
    BY <1>1, <2>1, KillIs, ZenonT(40)
  <2>5. Owned(r.open, r.handles)
    BY <1>1, <1>6, <2>3, <2>4 DEF Owned
  <2>6. CASE h = "out"
    BY <1>1, <1>6, <1>7, <2>2, <2>3, <2>5, <2>6 DEF r, to1
  <2>7. CASE h = "in"
    BY <1>1, <1>6, <1>7, <2>2, <2>3, <2>4, <2>5, <2>7 DEF r, to1
  <2> QED BY <1>7, <2>6, <2>7
<1> QED BY <1>8, <1>9

LEMMA GotInputFine ==
    ASSUME IInv, ev_to_main["in"], ~handles["in"].moribund, handles["in"].live
    PROVE  LET r == GotInput(Main)
           IN  /\ r \in State /\ Fine(r, Taken(ev_to_main, "in"), thread)
               /\ Owned(r.open, r.handles)
               /\ Len(r.queued_data) <= Len(queued_data)
               /\ (r.handles["out"].live /\ ~r.handles["out"].done)
                     => /\ handles["out"].live /\ ~handles["out"].done
                        /\ r.queued_data = queued_data
               /\ open
               /\ r.open => len = 1 /\ r.delivered = Append(delivered, buffer)
               /\ ~r.open => r.delivered = delivered
<1> DEFINE r == GotInput(Main)
           m == Main
           a == Idle(m, "in")
           b == [a EXCEPT !.delivered = Append(@, buffer)]
           to1 == Taken(ev_to_main, "in")
<1>0. "in" \in Kinds /\ "out" \in Kinds
  BY DEF Kinds
<1>1. /\ m \in State /\ Fine(m, ev_to_main, thread)
      /\ m.handles = handles /\ m.ev_from_main = ev_from_main
      /\ m.queued_data = queued_data /\ m.open = open /\ m.delivered = delivered
      /\ ev_to_main \in [Kinds -> BOOLEAN] /\ ~m.handles["in"].done
  <2>1. ~handles["in"].done
    BY <1>0 DEF IInv, Sound
  <2> QED BY <2>1, MainFine DEF IInv, Typed
<1>2. open /\ \A k \in Kinds : m.handles[k].live /\ ~m.handles[k].moribund
  BY <1>0, <1>1 DEF IInv, Owned
<1>3. /\ a \in State /\ Fine(a, to1, thread)
      /\ ~a.handles["in"].busy
      /\ \A k \in Kinds : /\ a.handles[k].live = m.handles[k].live
                          /\ a.handles[k].moribund = m.handles[k].moribund
                          /\ a.handles[k].done = m.handles[k].done
      /\ a.queued_data = m.queued_data /\ a.open = m.open
      /\ a.delivered = m.delivered
  <2> HIDE DEF m
  <2> QED BY <1>0, <1>1, IdleFine
<1>4. Len(queued_data) \in Nat /\ buffer \in Nat /\ delivered \in Seq(Nat)
  BY BoundsAssumption DEF IInv, Typed
<1>5. r = IF len = 0 THEN Failed(a, "in", TRUE) ELSE handle_throttle(b)
  BY DEF GotInput, Idle
<1>6. /\ b \in State /\ b.handles = a.handles /\ b.ev_from_main = a.ev_from_main
      /\ b.outlen = a.outlen /\ b.queued_data = a.queued_data /\ b.open = a.open
      /\ b.delivered = Append(a.delivered, buffer)
  <2> HIDE DEF a
  <2>1. Append(a.delivered, buffer) \in Seq(Nat)
    BY <1>1, <1>3, <1>4
  <2> QED BY <1>3, <2>1 DEF State
<1> HIDE DEF m, a, b, to1, r
<1>7. CASE len = 0
  <2>1. r = Failed(a, "in", TRUE) /\ TRUE \in BOOLEAN
    BY <1>5, <1>7
  <2>2. /\ r \in State /\ Fine(r, to1, thread)
        /\ ~r.open /\ \A k \in Kinds : r.handles[k].moribund \/ ~r.handles[k].live
        /\ Len(r.queued_data) <= Len(a.queued_data)
        /\ (r.handles["out"].live /\ ~r.handles["out"].done)
              => /\ a.handles["out"].live /\ ~a.handles["out"].done
                 /\ r.queued_data = a.queued_data
        /\ r.delivered = a.delivered
    BY <1>0, <1>3, <2>1, FailedFine
  <2>3. Owned(r.open, r.handles)
    BY <2>2 DEF Owned
  <2> QED BY <1>0, <1>1, <1>2, <1>3, <2>2, <2>3 DEF r, to1
<1>8. CASE len # 0
  <2>0. len = 1
    BY <1>8 DEF IInv, Typed
  <2>1. Fine(b, to1, thread)
    BY <1>3, <1>6 DEF Fine
  <2> DEFINE c == [SetEvent(b, "in") EXCEPT !.handles["in"].busy = TRUE]
  <2>2. r = b \/ r = c
    BY <1>5, <1>8 DEF handle_throttle
  <2>3. /\ c \in State /\ Fine(c, to1, thread)
        /\ \A k \in Kinds : /\ c.handles[k].live = b.handles[k].live
                            /\ c.handles[k].moribund = b.handles[k].moribund
                            /\ c.handles[k].done = b.handles[k].done
        /\ c.queued_data = b.queued_data /\ c.open = b.open
        /\ c.delivered = b.delivered
    <3>1. ~b.handles["in"].busy /\ "in" # "out"
      BY <1>3, <1>6
    <3> QED BY <1>0, <1>6, <2>1, <3>1, WorkFine
  <2> HIDE DEF c
  <2>4. /\ r \in State /\ Fine(r, to1, thread)
        /\ \A k \in Kinds : /\ r.handles[k].live = m.handles[k].live
                            /\ r.handles[k].moribund = m.handles[k].moribund
                            /\ r.handles[k].done = m.handles[k].done
        /\ r.queued_data = queued_data /\ r.open = open
        /\ r.delivered = Append(delivered, buffer)
    BY <1>1, <1>3, <1>6, <2>1, <2>2, <2>3
  <2>5. Owned(r.open, r.handles)
    BY <1>2, <2>4 DEF Owned
  <2>6. Len(r.queued_data) <= Len(queued_data)
    BY <1>4, <2>4
  <2>7. (r.handles["out"].live /\ ~r.handles["out"].done)
           => handles["out"].live /\ ~handles["out"].done
    BY <1>0, <1>1, <2>4
  <2>8. r.open
    BY <1>2, <2>4
  <2> QED BY <1>2, <2>0, <2>4, <2>5, <2>6, <2>7, <2>8 DEF r, to1
<1> QED BY <1>7, <1>8

LEMMA GotOutputFine ==
    ASSUME IInv, ev_to_main["out"], ~handles["out"].moribund, handles["out"].live,
           NEW n \in Prefixes(Consumed(queued_data)), NEW frees \in BOOLEAN
    PROVE  LET r == GotOutput(Main, n, frees)
           IN  /\ r \in State /\ Fine(r, Taken(ev_to_main, "out"), thread)
               /\ Owned(r.open, r.handles)
               /\ Len(r.queued_data) <= Len(queued_data)
               /\ ~handles["out"].done
               /\ ~writeerr => r.queued_data = Consumed(queued_data)
               /\ (writeerr /\ r.handles["out"].live /\ ~r.handles["out"].done)
                     => r.queued_data = queued_data
               /\ r.open => open
               /\ r.delivered = delivered
<1> DEFINE r == GotOutput(Main, n, frees)
           m == Main
           a == Idle(m, "out")
           b == [a EXCEPT !.queued_data = Consumed(@)]
           to1 == Taken(ev_to_main, "out")
<1>0. "out" \in Kinds
  BY DEF Kinds
<1>1. /\ m \in State /\ Fine(m, ev_to_main, thread)
      /\ m.handles = handles /\ m.ev_from_main = ev_from_main
      /\ m.queued_data = queued_data /\ m.open = open /\ m.delivered = delivered
      /\ ev_to_main \in [Kinds -> BOOLEAN] /\ ~m.handles["out"].done
  <2>1. ~handles["out"].done
    BY <1>0 DEF IInv, Sound
  <2> QED BY <2>1, MainFine DEF IInv, Typed
<1>2. open /\ \A k \in Kinds : m.handles[k].live /\ ~m.handles[k].moribund
  BY <1>0, <1>1 DEF IInv, Owned
<1>3. /\ a \in State /\ Fine(a, to1, thread)
      /\ ~a.handles["out"].busy
      /\ \A k \in Kinds : /\ a.handles[k].live = m.handles[k].live
                          /\ a.handles[k].moribund = m.handles[k].moribund
                          /\ a.handles[k].done = m.handles[k].done
      /\ ~m.ev_from_main["out"] /\ thread["out"] \notin {"woken", "busy"}
      /\ a.ev_from_main = m.ev_from_main
      /\ a.queued_data = m.queued_data /\ a.open = m.open
      /\ a.delivered = m.delivered
  <2> HIDE DEF m
  <2> QED BY <1>0, <1>1, IdleFine
<1>4. /\ Len(queued_data) \in Nat /\ Len(queued_data) <= MaxOutput
      /\ Len(submitted) \in Nat
  BY BoundsAssumption DEF IInv, Typed
<1>5. r = IF writeerr THEN Failed(a, "out", frees) ELSE handle_try_output(b, n)
  BY DEF GotOutput, Idle
<1>6. /\ b \in State /\ b.handles = a.handles /\ b.ev_from_main = a.ev_from_main
      /\ b.outlen = a.outlen /\ b.queued_data = Consumed(queued_data)
      /\ b.open = a.open /\ b.delivered = a.delivered
  <2>0. Consumed(queued_data) \in Seq(1 .. MaxOutput)
    BY ConsumedIs
  <2> HIDE DEF a
  <2>1. b = [a EXCEPT !.queued_data = Consumed(queued_data)]
    BY <1>1, <1>3
  <2>2. a \in State
    BY <1>3
  <2> QED BY <2>0, <2>1, <2>2 DEF State
<1> HIDE DEF m, a, b, to1, r
<1>7. CASE writeerr
  <2>1. r = Failed(a, "out", frees) /\ thread["out"] = "gone"
    BY <1>5, <1>7 DEF IInv
  <2>2. /\ r \in State /\ Fine(r, to1, thread)
        /\ frees => ~r.open /\ \A k \in Kinds : r.handles[k].moribund \/ ~r.handles[k].live
        /\ ~frees => /\ r.open = a.open
                     /\ \A k \in Kinds : /\ r.handles[k].live = a.handles[k].live
                                         /\ r.handles[k].moribund = a.handles[k].moribund
        /\ Len(r.queued_data) <= Len(a.queued_data)
        /\ (r.handles["out"].live /\ ~r.handles["out"].done)
              => r.queued_data = a.queued_data
        /\ r.delivered = a.delivered
    BY <1>0, <1>3, <2>1, FailedFine
  <2>3. Owned(r.open, r.handles)
    <3>1. CASE frees
      BY <2>2, <3>1 DEF Owned
    <3>2. CASE ~frees
      BY <1>1, <1>2, <1>3, <2>2, <3>2 DEF Owned
    <3> QED BY <3>1, <3>2
  <2> QED BY <1>1, <1>2, <1>3, <1>7, <2>2, <2>3 DEF r, to1
<1>8. CASE ~writeerr
  <2>0. r = handle_try_output(b, n) /\ n \in Prefixes(b.queued_data)
    BY <1>5, <1>6, <1>8
  <2>1. Len(b.queued_data) <= Len(queued_data) /\ Len(b.queued_data) <= MaxOutput
    <3>1. /\ Len(Consumed(queued_data)) <= Len(queued_data)
          /\ Consumed(queued_data) \in Seq(1 .. MaxOutput)
      BY ConsumedIs
    <3>2. Len(Consumed(queued_data)) \in Nat
      BY <3>1
    <3> QED BY <1>4, <1>6, <3>1, <3>2, BoundsAssumption
  <2>2. Fine(b, to1, thread)
    <3>1. Queued(b.handles["out"], b.ev_from_main["out"], thread["out"], b.outlen,
                 b.queued_data)
      BY <1>0, <1>2, <1>3, <1>6 DEF Queued
    <3> QED BY <1>3, <1>6, <3>1 DEF Fine
  <2>3. /\ r \in State /\ Fine(r, to1, thread)
        /\ \A k \in Kinds : /\ r.handles[k].live = b.handles[k].live
                            /\ r.handles[k].moribund = b.handles[k].moribund
                            /\ r.handles[k].done = b.handles[k].done
        /\ r.queued_data = b.queued_data
        /\ r.open = b.open /\ r.delivered = b.delivered
    BY <1>6, <2>0, <2>1, <2>2, TryOutputFine
  <2>4. Owned(r.open, r.handles)
    BY <1>1, <1>2, <1>3, <1>6, <2>3 DEF Owned
  <2>5. Len(r.queued_data) <= Len(queued_data)
    BY <2>1, <2>3
  <2> QED BY <1>1, <1>2, <1>3, <1>6, <1>8, <2>3, <2>4, <2>5 DEF r, to1
<1> QED BY <1>7, <1>8

-----------------------------------------------------------------------------
(* Each action keeps the invariant. *)

LEMMA GotEventKeeps ==
    ASSUME IInv, NEW h \in Kinds, handle_got_event(h)
    PROVE  IInv'
<1> DEFINE to1 == Taken(ev_to_main, h)
<1>1. /\ handles[h].live /\ ev_to_main[h] /\ ev_to_main' = to1
      /\ submitted' = submitted
  BY DEF handle_got_event, Taken
<1>2. /\ to1 \in [Kinds -> BOOLEAN] /\ submitted \in Seq(1 .. MaxOutput)
      /\ Len(queued_data) \in Nat /\ Len(submitted) \in Nat
      /\ Len(queued_data) <= Len(submitted) /\ Len(submitted) <= MaxOutput
  BY DEF IInv, Typed, Taken
<1> HIDE DEF to1
<1>3. ASSUME NEW r \in State, MainStep(r), Fine(r, to1, thread), Owned(r.open, r.handles),
             Len(r.queued_data) <= Len(queued_data)
      PROVE  IInv'
  <2>1. Len(r.queued_data) <= Len(submitted)
    <3>1. Len(r.queued_data) \in Nat
      BY DEF State
    <3> QED BY <1>2, <1>3, <3>1
  <2> QED BY <1>1, <1>2, <1>3, <2>1, MainStepIInv
<1>4. CASE handles[h].moribund /\ MainStep(GotMoribund(Main, h))
  BY <1>1, <1>3, <1>4, GotMoribundFine DEF to1
<1>5. CASE ~handles[h].moribund /\ h = "in" /\ MainStep(GotInput(Main))
  BY <1>1, <1>3, <1>5, GotInputFine DEF to1
<1>6. ASSUME ~handles[h].moribund, h = "out",
             NEW n \in Prefixes(Consumed(queued_data)), NEW frees \in BOOLEAN,
             MainStep(GotOutput(Main, n, frees))
      PROVE  IInv'
  BY <1>1, <1>3, <1>6, GotOutputFine DEF to1
<1> QED BY <1>4, <1>5, <1>6 DEF handle_got_event

LEMMA WriteKeeps ==
    ASSUME IInv, Write
    PROVE  IInv'
<1> DEFINE x == Len(submitted) + 1
           q == Append(queued_data, x)
           m == [Main EXCEPT !.queued_data = q]
<1>1. /\ open /\ Len(submitted) < MaxOutput /\ ev_to_main' = ev_to_main
      /\ submitted' = Append(submitted, x)
  BY DEF Write
<1>2. /\ submitted \in Seq(1 .. MaxOutput) /\ queued_data \in Seq(1 .. MaxOutput)
      /\ Len(queued_data) <= Len(submitted)
      /\ Len(queued_data) \in Nat /\ Len(submitted) \in Nat
      /\ ev_to_main \in [Kinds -> BOOLEAN] /\ outlen \in 0 .. MaxOutput
  BY DEF IInv, Typed
<1>3. x \in 1 .. MaxOutput
  BY <1>1, <1>2, BoundsAssumption
<1>4. /\ submitted' \in Seq(1 .. MaxOutput) /\ q \in Seq(1 .. MaxOutput)
      /\ Len(submitted') = Len(submitted) + 1 /\ Len(q) = Len(queued_data) + 1
  <2> HIDE DEF x
  <2> QED BY <1>1, <1>2, <1>3
<1>5. PICK n \in Prefixes(m.queued_data) : MainStep(handle_try_output(m, n))
  BY DEF Write, Main
<1> HIDE DEF q
<1>6. /\ m \in State /\ m.handles = handles /\ m.ev_from_main = ev_from_main
      /\ m.outlen = outlen /\ m.queued_data = q /\ m.open = open
  <2>1. /\ Main \in State /\ Main.handles = handles
        /\ Main.ev_from_main = ev_from_main /\ Main.outlen = outlen
        /\ Main.open = open
    BY MainFine
  <2> QED BY <1>4, <2>1 DEF State
<1> HIDE DEF m
<1>7. Fine(m, ev_to_main, thread)
  <2>1. handles["out"].live
    BY <1>1 DEF IInv, Owned, Kinds
  <2>2. Queued(handles["out"], ev_from_main["out"], thread["out"], outlen, q)
    BY <1>2, <1>4, <2>1, BoundsAssumption DEF IInv, Queued
  <2> QED BY <1>6, <2>2 DEF IInv, Fine
<1> DEFINE r == handle_try_output(m, n)
<1>8. /\ r \in State /\ Fine(r, ev_to_main, thread)
      /\ \A k \in Kinds : /\ r.handles[k].live = handles[k].live
                          /\ r.handles[k].moribund = handles[k].moribund
      /\ r.queued_data = q /\ r.open = open
  <2>1. Len(m.queued_data) <= MaxOutput
    BY <1>1, <1>2, <1>4, <1>6, BoundsAssumption
  <2> QED BY <1>6, <1>7, <2>1, TryOutputFine
<1> HIDE DEF r
<1>9. Owned(r.open, r.handles)
  BY <1>1, <1>8 DEF IInv, Owned
<1>10. MainStep(r)
  BY <1>5 DEF r
<1>11. Len(r.queued_data) <= Len(submitted') /\ Len(submitted') <= MaxOutput
  BY <1>1, <1>2, <1>4, <1>8, BoundsAssumption
<1> QED BY <1>1, <1>2, <1>4, <1>8, <1>9, <1>10, <1>11, MainStepIInv

LEMMA CloseKeeps ==
    ASSUME IInv, Close
    PROVE  IInv'
<1> DEFINE r == Terminate(Main)
<1>1. MainStep(r) /\ ev_to_main' = ev_to_main /\ submitted' = submitted
  BY DEF Close
<1>2. /\ Main \in State /\ Fine(Main, ev_to_main, thread)
      /\ Main.queued_data = queued_data
  BY MainFine
<1>3. /\ r \in State /\ Fine(r, ev_to_main, thread) /\ ~r.open
      /\ \A k \in Kinds : r.handles[k].moribund \/ ~r.handles[k].live
      /\ Len(r.queued_data) <= Len(queued_data)
  BY <1>2, TerminateFine
<1> HIDE DEF r
<1>4. Owned(r.open, r.handles)
  BY <1>3 DEF Owned
<1>5. /\ submitted \in Seq(1 .. MaxOutput) /\ ev_to_main \in [Kinds -> BOOLEAN]
      /\ Len(queued_data) \in Nat /\ Len(submitted) \in Nat
      /\ Len(queued_data) <= Len(submitted) /\ Len(submitted) <= MaxOutput
  BY DEF IInv, Typed
<1>6. Len(r.queued_data) <= Len(submitted)
  <2>1. Len(r.queued_data) \in Nat
    BY <1>3 DEF State
  <2> QED BY <1>3, <1>5, <2>1
<1> QED BY <1>1, <1>3, <1>4, <1>5, <1>6, MainStepIInv

(* A step of a thread leaves what the main thread owns alone. *)
LEMMA WakeKeeps ==
    ASSUME IInv, NEW h \in Kinds, Wake(h)
    PROVE  IInv'
<1>1. /\ thread[h] = "waiting" /\ ev_from_main[h]
      /\ ev_from_main' = [ev_from_main EXCEPT ![h] = FALSE]
      /\ thread' = [thread EXCEPT ![h] = "woken"]
      /\ UNCHANGED <<main, ev_to_main, input, outlen, output>>
  BY DEF Wake, Goto
<1>2. UNCHANGED <<handles, queued_data, open, delivered, submitted, ev_to_main, buffer,
                  len, source, outlen, lenwritten, writeerr, written>>
  BY <1>1 DEF main, input, output
<1>3. Typed'
  BY <1>1, <1>2 DEF IInv, Typed, Places
<1>4. /\ \A k \in Kinds \ {h} : thread'[k] = thread[k] /\ ev_from_main'[k] = ev_from_main[k]
      /\ thread'[h] = "woken" /\ ~ev_from_main'[h]
  BY <1>1 DEF IInv, Typed
<1>5. Sound(handles[h], ev_to_main[h], ev_from_main[h], thread[h])
  BY DEF IInv
<1>6. Sound(handles[h], ev_to_main[h], ev_from_main[h], thread[h])'
  BY <1>1, <1>2, <1>4, <1>5 DEF Sound
<1>7. \A k \in Kinds : Sound(handles[k], ev_to_main[k], ev_from_main[k], thread[k])'
  BY <1>2, <1>4, <1>6 DEF IInv
<1>8. Queued(handles["out"], ev_from_main["out"], thread["out"], outlen, queued_data)'
  BY <1>1, <1>2, <1>4 DEF IInv, Queued, Kinds
<1>9. (writeerr => thread["out"] = "gone")'
  BY <1>1, <1>2, <1>4 DEF IInv, Kinds
<1> QED BY <1>2, <1>3, <1>7, <1>8, <1>9 DEF IInv

LEMMA InputKeeps ==
    ASSUME IInv, InputRead \/ InputCheck \/ InputResume
    PROVE  IInv'
<1>0. "in" \in Kinds /\ "out" \in Kinds /\ \A k \in Kinds : k # "in" => k = "out"
  BY DEF Kinds
<1>1. /\ UNCHANGED <<handles, queued_data, open, delivered, submitted, ev_from_main,
                     outlen, lenwritten, writeerr, written>>
      /\ thread' \in [Kinds -> Places] /\ thread'["out"] = thread["out"]
      /\ ev_to_main' \in [Kinds -> BOOLEAN] /\ ev_to_main'["out"] = ev_to_main["out"]
  BY <1>0 DEF InputRead, InputCheck, InputResume, Goto, main, input, output, IInv, Typed,
              Places
<1>2. /\ buffer' \in 0 .. MaxInput /\ len' \in {0, 1}
      /\ source' \in Seq(Nat) /\ Len(source') <= MaxInput
  <2>1. /\ buffer \in 0 .. MaxInput /\ len \in {0, 1} /\ source \in Seq(Nat)
        /\ Len(source) \in Nat /\ Len(source) <= MaxInput
    BY DEF IInv, Typed
  <2>2. CASE UNCHANGED <<buffer, source>> /\ len' \in {0, 1}
    BY <2>1, <2>2
  <2>3. CASE ReadData
    BY <2>1, <2>3, BoundsAssumption DEF ReadData
  <2>4. CASE ~ReadData
    <3>1. UNCHANGED <<buffer, source>> /\ len' \in {0, 1}
      BY <2>1, <2>4 DEF InputRead, ReadNone, InputCheck, InputResume, input
    <3> QED BY <2>2, <3>1
  <2> QED BY <2>3, <2>4
<1>3. Typed'
  BY <1>1, <1>2 DEF IInv, Typed
<1>4. Sound(handles["in"], ev_to_main["in"], ev_from_main["in"], thread["in"])
  BY <1>0 DEF IInv
<1>5. Sound(handles["in"], ev_to_main["in"], ev_from_main["in"], thread["in"])'
  <2>1. /\ thread \in [Kinds -> Places] /\ ev_to_main \in [Kinds -> BOOLEAN]
    BY DEF IInv, Typed
  <2>2. CASE InputRead
    <3>1. thread["in"] = "busy" /\ thread'["in"] = "check" /\ ev_to_main'["in"]
      BY <1>0, <2>1, <2>2 DEF InputRead, Goto
    <3> QED BY <1>1, <1>4, <3>1 DEF Sound
  <2>3. CASE InputCheck
    <3>1. /\ thread["in"] = "check" /\ thread'["in"] \in {"gone", "waiting"}
          /\ ev_to_main'["in"] = ev_to_main["in"]
      BY <1>0, <2>1, <2>3 DEF InputCheck, Goto
    <3> QED BY <1>1, <1>4, <3>1 DEF Sound
  <2>4. CASE InputResume
    <3>1. /\ thread["in"] = "woken" /\ ev_to_main'["in"] = ev_to_main["in"]
          /\ thread'["in"] = IF handles["in"].done THEN "gone" ELSE "busy"
      BY <1>0, <2>1, <2>4 DEF InputResume, Goto
    <3> QED BY <1>1, <1>4, <3>1 DEF Sound
  <2> QED BY <2>2, <2>3, <2>4
<1>6. Sound(handles["out"], ev_to_main["out"], ev_from_main["out"], thread["out"])'
  BY <1>0, <1>1 DEF IInv
<1>7. Queued(handles["out"], ev_from_main["out"], thread["out"], outlen, queued_data)'
  BY <1>1 DEF IInv
<1>8. (writeerr => thread["out"] = "gone")' /\ Owned(open, handles)'
  BY <1>1 DEF IInv
<1>9. \A k \in Kinds : Sound(handles[k], ev_to_main[k], ev_from_main[k], thread[k])'
  BY <1>0, <1>5, <1>6
<1> QED BY <1>3, <1>7, <1>8, <1>9 DEF IInv

LEMMA OutputKeeps ==
    ASSUME IInv, OutputResume \/ OutputWrite
    PROVE  IInv'
<1>0. "in" \in Kinds /\ "out" \in Kinds /\ \A k \in Kinds : k # "out" => k = "in"
  BY DEF Kinds
<1>1. /\ UNCHANGED <<handles, queued_data, open, delivered, submitted, ev_from_main,
                     outlen, buffer, len, source>>
      /\ thread' \in [Kinds -> Places] /\ thread'["in"] = thread["in"]
      /\ thread'["out"] \in Places \ {"check"}
      /\ ev_to_main' \in [Kinds -> BOOLEAN] /\ ev_to_main'["in"] = ev_to_main["in"]
  BY <1>0 DEF OutputResume, OutputWrite, Goto, main, input, output, IInv, Typed, Places
<1>2. /\ lenwritten' \in 0 .. MaxOutput /\ writeerr' \in BOOLEAN /\ written' \in Seq(Nat)
      /\ writeerr' => thread'["out"] = "gone"
  <2>1. /\ lenwritten \in 0 .. MaxOutput /\ writeerr \in BOOLEAN /\ written \in Seq(Nat)
        /\ queued_data \in Seq(1 .. MaxOutput) /\ outlen \in 0 .. MaxOutput
        /\ writeerr => thread["out"] = "gone"
        /\ thread \in [Kinds -> Places] /\ Len(queued_data) \in Nat
    BY DEF IInv, Typed
  <2>2. CASE OutputResume
    BY <2>1, <2>2 DEF OutputResume, output
  <2>3. CASE OutputWrite
    <3>1. ASSUME NEW n \in 1 .. outlen, written' = written \o SubSeq(queued_data, 1, n),
                 lenwritten' = n, writeerr' = FALSE
          PROVE  lenwritten' \in 0 .. MaxOutput /\ writeerr' \in BOOLEAN /\ written' \in Seq(Nat)
      <4>1. n <= Len(queued_data)
        <5>1. thread["out"] = "busy"
          BY <2>3 DEF OutputWrite
        <5>2. ~handles["out"].done
          BY <1>0, <5>1 DEF IInv, Sound
        <5>3. outlen <= Len(queued_data)
          BY <5>1, <5>2 DEF IInv, Queued
        <5> QED BY <2>1, <5>3, BoundsAssumption
      <4>2. ASSUME NEW i \in 1 .. n PROVE queued_data[i] \in Nat
        <5>1. i \in 1 .. Len(queued_data)
          BY <2>1, <4>1
        <5>2. queued_data[i] \in 1 .. MaxOutput
          BY <2>1, <5>1, ElementOfSeq, Zenon
        <5> QED BY <5>2
      <4>3. 1 \in Int /\ n \in Int
        OBVIOUS
      <4>4. SubSeq(queued_data, 1, n) \in Seq(Nat)
        BY <4>2, <4>3, SubSeqProperties, Zenon
      <4>5. written' \in Seq(Nat)
        BY <2>1, <3>1, <4>4
      <4>6. lenwritten' \in 0 .. MaxOutput
        <5>1. outlen \in 0 .. MaxOutput /\ lenwritten' = n
          BY <2>1, <3>1
        <5> QED BY <5>1, BoundsAssumption
      <4>7. writeerr' \in BOOLEAN
        BY <3>1
      <4> QED BY <4>5, <4>6, <4>7
    <3>2. CASE writeerr' = TRUE /\ UNCHANGED <<lenwritten, written>> /\ Goto("out", "gone")
      BY <1>0, <2>1, <3>2 DEF Goto
    <3> QED BY <2>3, <3>1, <3>2 DEF OutputWrite
  <2> QED BY <2>2, <2>3
<1>3. Typed'
  BY <1>1, <1>2 DEF IInv, Typed
<1>4. /\ Sound(handles["out"], ev_to_main["out"], ev_from_main["out"], thread["out"])
      /\ Queued(handles["out"], ev_from_main["out"], thread["out"], outlen, queued_data)
      /\ thread \in [Kinds -> Places] /\ ev_to_main \in [Kinds -> BOOLEAN]
  BY <1>0 DEF IInv, Typed
<1>5. Sound(handles["out"], ev_to_main["out"], ev_from_main["out"], thread["out"])'
  <2>1. CASE OutputResume
    <3>1. /\ thread["out"] = "woken"
          /\ thread'["out"] = IF handles["out"].done THEN "gone" ELSE "busy"
          /\ ev_to_main'["out"] = (ev_to_main["out"] \/ handles["out"].done)
      BY <1>0, <1>4, <2>1 DEF OutputResume, Goto
    <3>2. CASE handles["out"].done
      BY <1>1, <1>4, <3>1, <3>2 DEF Sound
    <3>3. CASE ~handles["out"].done
      BY <1>1, <1>4, <3>1, <3>3 DEF Sound
    <3> QED BY <3>2, <3>3
  <2>2. CASE OutputWrite
    <3>1. /\ thread["out"] = "busy" /\ thread'["out"] \in {"waiting", "gone"}
          /\ ev_to_main'["out"]
      BY <1>0, <1>4, <2>2 DEF OutputWrite, Goto
    <3> QED BY <1>1, <1>4, <3>1 DEF Sound
  <2> QED BY <2>1, <2>2
<1>6. Sound(handles["in"], ev_to_main["in"], ev_from_main["in"], thread["in"])'
  BY <1>0, <1>1 DEF IInv
<1>7. Queued(handles["out"], ev_from_main["out"], thread["out"], outlen, queued_data)'
  <2>1. thread["out"] \in {"woken", "busy"}
    BY DEF OutputResume, OutputWrite
  <2> QED BY <1>1, <1>4, <2>1 DEF Queued
<1>8. Owned(open, handles)'
  BY <1>1 DEF IInv
<1>9. \A k \in Kinds : Sound(handles[k], ev_to_main[k], ev_from_main[k], thread[k])'
  BY <1>0, <1>5, <1>6
<1> QED BY <1>2, <1>3, <1>7, <1>8, <1>9 DEF IInv

-----------------------------------------------------------------------------
(* The handles, their events and their threads agree in every state. *)
LEMMA InitIInv == Init => IInv
<1> SUFFICES ASSUME Init PROVE IInv
  OBVIOUS
<1>1. Typed
  <2>1. handles \in [Kinds -> Fields]
    BY DEF Init, Fields, Kinds
  <2>2. thread \in [Kinds -> Places] /\ thread["out"] # "check"
    BY DEF Init, Kinds, Places
  <2>3. ev_to_main \in [Kinds -> BOOLEAN] /\ ev_from_main \in [Kinds -> BOOLEAN]
    BY DEF Init
  <2>4. \A S : <<>> \in Seq(S)
    OBVIOUS
  <2>5. /\ queued_data \in Seq(1 .. MaxOutput) /\ submitted \in Seq(1 .. MaxOutput)
        /\ source \in Seq(Nat) /\ delivered \in Seq(Nat) /\ written \in Seq(Nat)
    BY <2>4 DEF Init
  <2>6. /\ Len(queued_data) <= Len(submitted) /\ Len(submitted) <= MaxOutput
        /\ Len(source) <= MaxInput
    <3>1. Len(queued_data) = 0 /\ Len(submitted) = 0 /\ Len(source) = 0
      BY DEF Init
    <3> QED BY <3>1, BoundsAssumption
  <2>7. /\ buffer \in 0 .. MaxInput /\ len \in {0, 1} /\ outlen \in 0 .. MaxOutput
        /\ lenwritten \in 0 .. MaxOutput /\ writeerr \in BOOLEAN /\ open \in BOOLEAN
    <3>1. 0 \in 0 .. MaxInput /\ 0 \in 0 .. MaxOutput
      BY BoundsAssumption
    <3> QED BY <3>1 DEF Init
  <2> QED BY <2>1, <2>2, <2>3, <2>5, <2>6, <2>7 DEF Typed
<1>2. \A h \in Kinds : Sound(handles[h], ev_to_main[h], ev_from_main[h], thread[h])
  BY DEF Init, Sound, Kinds
<1>3. Queued(handles["out"], ev_from_main["out"], thread["out"], outlen, queued_data)
  BY DEF Init, Queued, Kinds
<1>4. Owned(open, handles)
  BY DEF Init, Owned, Kinds
<1> QED BY <1>1, <1>2, <1>3, <1>4 DEF Init, IInv

LEMMA NextIInv == IInv /\ [Next]_vars => IInv'
<1> SUFFICES ASSUME IInv, [Next]_vars PROVE IInv'
  OBVIOUS
<1>1. ASSUME NEW h \in Kinds, handle_got_event(h) PROVE IInv'
  BY <1>1, GotEventKeeps
<1>2. ASSUME NEW h \in Kinds, Wake(h) PROVE IInv'
  BY <1>2, WakeKeeps
<1>3. CASE Write
  BY <1>3, WriteKeeps
<1>4. CASE Close
  BY <1>4, CloseKeeps
<1>5. CASE InputRead \/ InputCheck \/ InputResume
  BY <1>5, InputKeeps
<1>6. CASE OutputResume \/ OutputWrite
  BY <1>6, OutputKeeps
<1>7. CASE UNCHANGED vars
  <2>1. /\ UNCHANGED <<handles, ev_to_main, ev_from_main, thread, outlen, queued_data, open>>
        /\ UNCHANGED <<buffer, len, source, lenwritten, writeerr, written, delivered,
                      submitted>>
    BY <1>7 DEF vars, main, input, output
  <2>2. Typed'
    BY <2>1 DEF IInv, Typed
  <2> QED BY <2>1, <2>2 DEF IInv
<1> QED BY <1>1, <1>2, <1>3, <1>4, <1>5, <1>6, <1>7 DEF Next

(* What the invariant says, in the words of the component. *)
LEMMA IInvImplies == IInv => TypeOK /\ DestroyedThreadGone /\ OneHolder
<1> SUFFICES ASSUME IInv PROVE TypeOK /\ DestroyedThreadGone /\ OneHolder
  OBVIOUS
<1>1. TypeOK
  BY DEF IInv, Typed, TypeOK, Queued, Places
<1>2. DestroyedThreadGone
  BY DEF IInv, DestroyedThreadGone, Sound
<1>3. OneHolder
  BY DEF IInv, OneHolder, Under, Sound, Queued
<1> QED BY <1>1, <1>2, <1>3

(* However much is read and written, and whenever the handles are freed: the
   types hold, a handle is destroyed only when its thread is gone, and no
   buffer is in the hands of two threads (winhandl.c). *)
THEOREM HandleSafety == Spec => [](TypeOK /\ DestroyedThreadGone /\ OneHolder)
<1>1. Init => IInv
  BY InitIInv
<1>2. IInv /\ [Next]_vars => IInv'
  BY NextIInv
<1>3. IInv => TypeOK /\ DestroyedThreadGone /\ OneHolder
  BY IInvImplies
<1> QED BY <1>1, <1>2, <1>3, PTL DEF Spec


-----------------------------------------------------------------------------
(* Each direction implements Stream, from the invariant above and from where
   the data on its way is. *)

(* The i-th unit is i: what the device gives and the user writes. *)
Counted(s) == \A i \in 1 .. Len(s) : s[i] = i

(* While the handles are held, what was read has been delivered, or the event
   that will deliver the last unit is set. *)
InFlow ==
    /\ Counted(source) /\ Counted(delivered)
    /\ Len(delivered) <= Len(source)
    /\ open =>
          IF ev_to_main["in"] /\ len = 1
          THEN buffer = Len(source) /\ Len(source) = Len(delivered) + 1
          ELSE Len(source) = Len(delivered)

(* While the output handle works, the queue is the end of what was submitted,
   and what comes before it was written; a signalled write still has its units
   at the head of the queue. *)
Base == Len(submitted) - Len(queued_data)
Works == handles["out"].live /\ ~handles["out"].done
OutFlow ==
    /\ Counted(submitted) /\ Counted(written)
    /\ Len(written) <= Len(submitted)
    /\ Works =>
          /\ \A i \in 1 .. Len(queued_data) : queued_data[i] = Base + i
          /\ IF ev_to_main["out"] /\ ~writeerr
             THEN Len(written) = Base + lenwritten /\ lenwritten <= Len(queued_data)
             ELSE Len(written) = Base

FInv == IInv /\ InFlow /\ OutFlow

-----------------------------------------------------------------------------
(* Counted sequences. *)
LEMMA CountedAppend ==
    ASSUME NEW s \in Seq(Nat), Counted(s)
    PROVE  Counted(Append(s, Len(s) + 1))
<1> DEFINE t == Append(s, Len(s) + 1)
<1>1. Len(s) \in Nat /\ Len(t) = Len(s) + 1 /\ t[Len(s) + 1] = Len(s) + 1
  OBVIOUS
<1>2. \A i \in 1 .. Len(s) : t[i] = s[i]
  OBVIOUS
<1> HIDE DEF t
<1>3. ASSUME NEW i \in 1 .. Len(t) PROVE t[i] = i
  <2>1. i \in 1 .. Len(s) \/ i = Len(s) + 1
    BY <1>1
  <2> QED BY <1>1, <1>2, <2>1 DEF Counted
<1> QED BY <1>3 DEF Counted, t

LEMMA CountedPrefix ==
    ASSUME NEW s \in Seq(Nat), NEW t \in Seq(Nat), Counted(s), Counted(t),
           Len(s) <= Len(t)
    PROVE  SubSeq(s, 1, Len(s)) = SubSeq(t, 1, Len(s))
<1> DEFINE n == Len(s)
           a == SubSeq(s, 1, n)
           b == SubSeq(t, 1, n)
<1>1. n \in Nat /\ Len(t) \in Nat
  OBVIOUS
<1>2. ASSUME NEW u \in Seq(Nat), Counted(u), n <= Len(u)
      PROVE  /\ SubSeq(u, 1, n) \in Seq(Nat) /\ Len(SubSeq(u, 1, n)) = n
             /\ \A i \in 1 .. n : SubSeq(u, 1, n)[i] = i
  <2> HIDE DEF n
  <2>1. ASSUME NEW i \in 1 .. n PROVE u[i] = i /\ u[i] \in Nat
    BY <1>1, <1>2 DEF Counted
  <2>2. 1 \in Int /\ n \in Int /\ \A i \in 1 .. n : u[i] \in Nat
    BY <1>1, <2>1
  <2>3. SubSeq(u, 1, n) \in Seq(Nat)
    BY <2>2, SubSeqProperties, Zenon
  <2>4. Len(SubSeq(u, 1, n)) = n
    BY <1>1, <1>2
  <2>5. ASSUME NEW i \in 1 .. n PROVE SubSeq(u, 1, n)[i] = i
    <3>1. SubSeq(u, 1, n)[i] = u[i]
      BY <1>1, <1>2
    <3> QED BY <2>1, <3>1
  <2> QED BY <2>3, <2>4, <2>5
<1>3. /\ a \in Seq(Nat) /\ Len(a) = n /\ \A i \in 1 .. n : a[i] = i
      /\ b \in Seq(Nat) /\ Len(b) = n /\ \A i \in 1 .. n : b[i] = i
  <2>1. n <= Len(s) /\ n <= Len(t)
    BY <1>1
  <2> HIDE DEF n
  <2> QED BY <1>2, <2>1, Zenon
<1> HIDE DEF n, a, b
<1>4. \A i \in 1 .. Len(a) : a[i] = b[i]
  BY <1>3
<1>5. a = b
  BY <1>3, <1>4, SeqEqual, Zenon
<1> QED BY <1>5 DEF a, b, n

-----------------------------------------------------------------------------
(* What leaves a direction's data, and what says where it is, unchanged. *)
LEMMA InSame ==
    ASSUME InFlow, UNCHANGED <<source, delivered, buffer, len>>, open' => open,
           open' => ev_to_main'["in"] = ev_to_main["in"]
    PROVE  InFlow'
BY DEF InFlow, Counted

LEMMA OutSame ==
    ASSUME OutFlow, UNCHANGED <<submitted, written>>,
           Works' => /\ Works
                     /\ UNCHANGED <<queued_data, writeerr, lenwritten>>
                     /\ ev_to_main'["out"] = ev_to_main["out"]
    PROVE  OutFlow'
BY DEF OutFlow, Counted, Base

(* The lengths and types of the sequences. *)
LEMMA Lengths ==
    ASSUME IInv
    PROVE  /\ source \in Seq(Nat) /\ delivered \in Seq(Nat) /\ written \in Seq(Nat)
           /\ submitted \in Seq(Nat) /\ queued_data \in Seq(Nat)
           /\ Len(source) \in Nat /\ Len(delivered) \in Nat /\ Len(written) \in Nat
           /\ Len(submitted) \in Nat /\ Len(queued_data) \in Nat
           /\ Len(queued_data) <= Len(submitted)
           /\ outlen \in Nat /\ lenwritten \in Nat
<1>1. /\ submitted \in Seq(1 .. MaxOutput) /\ queued_data \in Seq(1 .. MaxOutput)
      /\ source \in Seq(Nat) /\ delivered \in Seq(Nat) /\ written \in Seq(Nat)
      /\ Len(queued_data) <= Len(submitted)
      /\ outlen \in 0 .. MaxOutput /\ lenwritten \in 0 .. MaxOutput
  BY DEF IInv, Typed
<1>2. ASSUME NEW s \in Seq(1 .. MaxOutput) PROVE s \in Seq(Nat)
  <2>1. \A i \in 1 .. Len(s) : s[i] \in 1 .. MaxOutput
    BY ElementOfSeq, Zenon
  <2>2. \A i \in 1 .. Len(s) : s[i] \in Nat
    BY <2>1
  <2>3. Len(s) \in Nat /\ s \in [1 .. Len(s) -> 1 .. MaxOutput]
    BY LenProperties, Zenon
  <2>4. s \in [1 .. Len(s) -> Nat]
    BY <2>2, <2>3
  <2> QED BY <2>3, <2>4, SeqDef
<1> QED BY <1>1, <1>2, BoundsAssumption

-----------------------------------------------------------------------------
(* Each action keeps the flows. *)

LEMMA GotMoribundFlows ==
    ASSUME FInv, NEW h \in Kinds, ev_to_main[h], handles[h].moribund,
           MainStep(GotMoribund(Main, h)), ev_to_main' = Taken(ev_to_main, h),
           submitted' = submitted
    PROVE  InFlow' /\ OutFlow' /\ UNCHANGED <<source, delivered, written>>
<1> DEFINE r == GotMoribund(Main, h)
<1>1. /\ handles' = r.handles /\ queued_data' = r.queued_data
      /\ open' = r.open /\ delivered' = r.delivered
      /\ UNCHANGED <<buffer, len, source, lenwritten, writeerr, written>>
  BY DEF MainStep, input, output
<1>2. /\ ~r.open
      /\ (r.handles["out"].live /\ ~r.handles["out"].done)
            => /\ handles["out"].live /\ ~handles["out"].done
               /\ h # "out" /\ r.queued_data = queued_data
      /\ r.delivered = delivered
  BY GotMoribundFine DEF FInv
<1> HIDE DEF r
<1>3. h # "out" => ev_to_main'["out"] = ev_to_main["out"]
  BY DEF FInv, IInv, Typed, Taken, Kinds
<1>4. InFlow'
  BY <1>1, <1>2, InSame DEF FInv
<1>5. OutFlow'
  BY <1>1, <1>2, <1>3, OutSame DEF FInv, Works
<1> QED BY <1>1, <1>2, <1>4, <1>5

LEMMA GotInputFlows ==
    ASSUME FInv, ev_to_main["in"], ~handles["in"].moribund, handles["in"].live,
           MainStep(GotInput(Main)), ev_to_main' = Taken(ev_to_main, "in"),
           submitted' = submitted
    PROVE  /\ InFlow' /\ OutFlow' /\ UNCHANGED <<source, written>>
           /\ UNCHANGED delivered \/ Len(delivered) < Len(delivered')
<1> DEFINE r == GotInput(Main)
<1>1. /\ handles' = r.handles /\ queued_data' = r.queued_data
      /\ open' = r.open /\ delivered' = r.delivered
      /\ UNCHANGED <<buffer, len, source, lenwritten, writeerr, written>>
  BY DEF MainStep, input, output
<1>2. /\ (r.handles["out"].live /\ ~r.handles["out"].done)
            => /\ handles["out"].live /\ ~handles["out"].done
               /\ r.queued_data = queued_data
      /\ open
      /\ r.open => len = 1 /\ r.delivered = Append(delivered, buffer)
      /\ ~r.open => r.delivered = delivered
  BY GotInputFine DEF FInv
<1> HIDE DEF r
<1>3. ev_to_main'["out"] = ev_to_main["out"] /\ ~ev_to_main'["in"]
  BY DEF FInv, IInv, Typed, Taken, Kinds
<1>4. InFlow'
  <2>1. CASE open'
    <3>1. /\ delivered' = Append(delivered, Len(delivered) + 1)
          /\ Len(source) = Len(delivered) + 1
      BY <1>1, <1>2, <2>1 DEF FInv, InFlow
    <3>2. Counted(delivered')
      BY <3>1, CountedAppend, Lengths DEF FInv, InFlow
    <3>3. Len(delivered') = Len(delivered) + 1
      BY <3>1, Lengths DEF FInv
    <3>4. Len(delivered') <= Len(source) /\ Len(source) = Len(delivered')
      BY <3>1, <3>3, Lengths DEF FInv
    <3> QED BY <1>1, <1>3, <3>2, <3>4 DEF FInv, InFlow, Counted
  <2>2. CASE ~open'
    BY <1>1, <1>2, <2>2, InSame DEF FInv
  <2> QED BY <2>1, <2>2
<1>5. OutFlow'
  BY <1>1, <1>2, <1>3, OutSame DEF FInv, Works
<1>6. UNCHANGED delivered \/ Len(delivered) < Len(delivered')
  <2>1. CASE open'
    <3>1. /\ delivered' = Append(delivered, buffer)
          /\ delivered \in Seq(Nat) /\ Len(delivered) \in Nat
      BY <1>1, <1>2, <2>1, Lengths DEF FInv
    <3>2. Len(delivered') = Len(delivered) + 1
      BY <3>1
    <3> QED BY <3>1, <3>2
  <2>2. CASE ~open'
    BY <1>1, <1>2, <2>2
  <2> QED BY <2>1, <2>2
<1> QED BY <1>1, <1>4, <1>5, <1>6

LEMMA GotOutputFlows ==
    ASSUME FInv, ev_to_main["out"], ~handles["out"].moribund, handles["out"].live,
           NEW n \in Prefixes(Consumed(queued_data)), NEW frees \in BOOLEAN,
           MainStep(GotOutput(Main, n, frees)), ev_to_main' = Taken(ev_to_main, "out"),
           submitted' = submitted
    PROVE  InFlow' /\ OutFlow' /\ UNCHANGED <<source, delivered, written>>
<1> DEFINE r == GotOutput(Main, n, frees)
<1>1. /\ handles' = r.handles /\ queued_data' = r.queued_data
      /\ open' = r.open /\ delivered' = r.delivered
      /\ UNCHANGED <<buffer, len, source, lenwritten, writeerr, written>>
  BY DEF MainStep, input, output
<1>2. /\ ~handles["out"].done
      /\ ~writeerr => r.queued_data = Consumed(queued_data)
      /\ (writeerr /\ r.handles["out"].live /\ ~r.handles["out"].done)
            => r.queued_data = queued_data
      /\ r.open => open
      /\ r.delivered = delivered
  BY GotOutputFine DEF FInv
<1> HIDE DEF r
<1>3. ev_to_main'["in"] = ev_to_main["in"] /\ ~ev_to_main'["out"]
  BY DEF FInv, IInv, Typed, Taken, Kinds
<1>4. InFlow'
  BY <1>1, <1>2, <1>3, InSame DEF FInv
<1>5. Works
  BY <1>2 DEF Works
<1>6. Counted(submitted') /\ Counted(written') /\ Len(written') <= Len(submitted')
  BY <1>1 DEF FInv, OutFlow, Counted
<1>7. /\ Base \in Int /\ lenwritten \in Nat /\ Len(queued_data) \in Nat
      /\ Len(submitted) \in Nat
  BY Lengths DEF FInv, Base
<1>8. UNCHANGED <<source, delivered, written>>
  BY <1>1, <1>2
<1>9. CASE writeerr
  <2>1. Len(written) = Base /\ \A i \in 1 .. Len(queued_data) : queued_data[i] = Base + i
    BY <1>5, <1>9 DEF FInv, OutFlow
  <2>2. Works' => queued_data' = queued_data /\ Base' = Base
    BY <1>1, <1>2, <1>9 DEF Works, Base
  <2>3. ASSUME Works'
        PROVE  /\ \A i \in 1 .. Len(queued_data') : queued_data'[i] = Base' + i
               /\ Len(written') = Base'
    BY <1>1, <2>1, <2>2, <2>3
  <2> QED BY <1>3, <1>4, <1>6, <1>8, <2>3 DEF OutFlow
<1>10. CASE ~writeerr
  <2> DEFINE q == Consumed(queued_data)
  <2>1. /\ Len(written) = Base + lenwritten /\ lenwritten <= Len(queued_data)
        /\ \A i \in 1 .. Len(queued_data) : queued_data[i] = Base + i
    BY <1>5, <1>10 DEF FInv, OutFlow
  <2>2. /\ Len(q) = Len(queued_data) - lenwritten
        /\ \A i \in 1 .. Len(q) : q[i] = queued_data[lenwritten + i]
    BY <2>1, ConsumedIs DEF FInv
  <2>3. queued_data' = q
    BY <1>1, <1>2, <1>10
  <2> HIDE DEF q
  <2>4. Base' = Base + lenwritten
    <3>1. Base' = Len(submitted) - Len(q)
      BY <2>3 DEF Base
    <3>2. Base = Len(submitted) - Len(queued_data)
      BY DEF Base
    <3> QED BY <1>7, <2>2, <3>1, <3>2
  <2>5. ASSUME NEW i \in 1 .. Len(q) PROVE q[i] = Base' + i
    <3>1. lenwritten + i \in 1 .. Len(queued_data)
      BY <1>7, <2>1, <2>2
    <3>2. q[i] = Base + (lenwritten + i)
      BY <2>1, <2>2, <3>1
    <3> QED BY <1>7, <2>4, <3>2
  <2>6. Len(written') = Base'
    BY <1>1, <2>1, <2>4
  <2>7. \A i \in 1 .. Len(queued_data') : queued_data'[i] = Base' + i
    BY <2>3, <2>5
  <2> QED BY <1>3, <1>4, <1>6, <1>8, <2>6, <2>7 DEF OutFlow
<1> QED BY <1>4, <1>9, <1>10

LEMMA WriteFlows ==
    ASSUME FInv, Write
    PROVE  /\ InFlow' /\ OutFlow' /\ UNCHANGED <<source, delivered, written>>
           /\ submitted' = Append(submitted, Len(submitted) + 1)
           /\ Len(submitted) + 1 \in 1 .. MaxOutput
<1> DEFINE x == Len(submitted) + 1
           q == Append(queued_data, x)
           m == [Main EXCEPT !.queued_data = q]
<1>1. /\ open /\ Len(submitted) < MaxOutput /\ ev_to_main' = ev_to_main
      /\ submitted' = Append(submitted, x)
  BY DEF Write
<1>2. PICK n \in Prefixes(m.queued_data) : MainStep(handle_try_output(m, n))
  BY DEF Write, Main
<1> DEFINE r == handle_try_output(m, n)
<1>3. r.queued_data = q /\ r.open = open /\ r.delivered = delivered
  BY DEF handle_try_output, SetEvent, Main
<1>4. /\ queued_data' = q /\ open' = open
      /\ UNCHANGED <<delivered, source, written, buffer, len, lenwritten, writeerr>>
  <2> HIDE DEF m, q
  <2>1. MainStep(r)
    BY <1>2
  <2> HIDE DEF r
  <2> QED BY <1>3, <2>1 DEF MainStep, input, output
<1> HIDE DEF r, m
<1>5. InFlow'
  BY <1>1, <1>4, InSame DEF FInv
<1>6. Works
  BY <1>1 DEF FInv, IInv, Owned, Sound, Works, Kinds
<1>7. /\ Len(q) = Len(queued_data) + 1 /\ q[Len(q)] = x
      /\ \A i \in 1 .. Len(queued_data) : q[i] = queued_data[i]
      /\ Len(submitted') = Len(submitted) + 1
  BY <1>1, Lengths DEF FInv
<1> HIDE DEF q
<1>8. Base' = Base /\ Base \in Nat
  BY <1>4, <1>7, Lengths DEF FInv, Base
<1>9. ASSUME NEW i \in 1 .. Len(q) PROVE q[i] = Base + i
  <2>1. CASE i \in 1 .. Len(queued_data)
    BY <1>6, <1>7, <2>1 DEF FInv, OutFlow
  <2>2. CASE i = Len(queued_data) + 1
    BY <1>7, <2>2, Lengths DEF FInv, Base
  <2> QED BY <1>7, <2>1, <2>2, Lengths DEF FInv
<1>10. Counted(submitted') /\ Counted(written') /\ Len(written') <= Len(submitted')
  <2>1. Counted(submitted')
    BY <1>1, CountedAppend, Lengths DEF FInv, OutFlow
  <2> QED BY <1>4, <1>7, <2>1, Lengths DEF FInv, OutFlow, Counted
<1>11. /\ \A i \in 1 .. Len(queued_data') : queued_data'[i] = Base' + i
       /\ IF ev_to_main'["out"] /\ ~writeerr'
          THEN Len(written') = Base' + lenwritten' /\ lenwritten' <= Len(queued_data')
          ELSE Len(written') = Base'
  <2>1. IF ev_to_main["out"] /\ ~writeerr
        THEN Len(written) = Base + lenwritten /\ lenwritten <= Len(queued_data)
        ELSE Len(written) = Base
    BY <1>6 DEF FInv, OutFlow
  <2>2. lenwritten <= Len(queued_data) => lenwritten <= Len(q)
    BY <1>7, Lengths DEF FInv
  <2> QED BY <1>1, <1>4, <1>8, <1>9, <2>1, <2>2
<1>12. OutFlow'
  BY <1>10, <1>11 DEF OutFlow
<1>13. x \in 1 .. MaxOutput
  BY <1>1, Lengths, BoundsAssumption DEF FInv
<1> QED BY <1>1, <1>4, <1>5, <1>12, <1>13

LEMMA CloseFlows ==
    ASSUME FInv, Close
    PROVE  InFlow' /\ OutFlow' /\ UNCHANGED <<source, delivered, submitted, written>>
<1> DEFINE r == Terminate(Main)
<1>1. MainStep(r) /\ ev_to_main' = ev_to_main /\ submitted' = submitted
  BY DEF Close
<1>2. /\ Main \in State /\ Fine(Main, ev_to_main, thread)
      /\ Main.queued_data = queued_data /\ Main.handles = handles
      /\ Main.delivered = delivered
  BY MainFine DEF FInv
<1>3. /\ ~r.open
      /\ (r.handles["out"].live /\ ~r.handles["out"].done)
            => /\ Main.handles["out"].live /\ ~Main.handles["out"].done
               /\ r.queued_data = Main.queued_data
      /\ r.delivered = Main.delivered
  BY <1>2, TerminateFine
<1> HIDE DEF r
<1>4. /\ handles' = r.handles /\ queued_data' = r.queued_data
      /\ open' = r.open /\ delivered' = r.delivered
      /\ UNCHANGED <<buffer, len, source, lenwritten, writeerr, written>>
  BY <1>1 DEF MainStep, input, output
<1>5. InFlow'
  BY <1>1, <1>2, <1>3, <1>4, InSame DEF FInv
<1>6. OutFlow'
  BY <1>1, <1>2, <1>3, <1>4, OutSame DEF FInv, Works
<1> QED BY <1>1, <1>2, <1>3, <1>4, <1>5, <1>6

(* A step that does not move data. *)
LEMMA WakeFlows ==
    ASSUME FInv, NEW h \in Kinds, Wake(h)
    PROVE  InFlow' /\ OutFlow' /\ UNCHANGED <<source, delivered, submitted, written>>
<1>1. UNCHANGED <<handles, queued_data, open, delivered, submitted, ev_to_main, buffer,
                  len, source, lenwritten, writeerr, written>>
  BY DEF Wake, main, input, output
<1>2. InFlow'
  BY <1>1, InSame DEF FInv
<1>3. OutFlow'
  BY <1>1, OutSame DEF FInv, Works
<1> QED BY <1>1, <1>2, <1>3

LEMMA InputStepsFlow ==
    ASSUME FInv, InputCheck \/ InputResume
    PROVE  InFlow' /\ OutFlow' /\ UNCHANGED <<source, delivered, submitted, written>>
<1>1. UNCHANGED <<handles, queued_data, open, delivered, submitted, ev_to_main, buffer,
                  len, source, lenwritten, writeerr, written>>
  BY DEF InputCheck, InputResume, main, input, output
<1>2. InFlow'
  BY <1>1, InSame DEF FInv
<1>3. OutFlow'
  BY <1>1, OutSame DEF FInv, Works
<1> QED BY <1>1, <1>2, <1>3

LEMMA InputReadFlows ==
    ASSUME FInv, InputRead
    PROVE  /\ InFlow' /\ OutFlow' /\ UNCHANGED <<delivered, submitted, written>>
           /\ \/ UNCHANGED source
              \/ /\ source' = Append(source, Len(source) + 1)
                 /\ Len(source) + 1 \in 1 .. MaxInput
<1>1. /\ UNCHANGED <<handles, queued_data, open, delivered, submitted, lenwritten,
                     writeerr, written>>
      /\ ev_to_main' = [ev_to_main EXCEPT !["in"] = TRUE] /\ thread["in"] = "busy"
      /\ ReadData \/ ReadNone
  BY DEF InputRead, main, output
<1>2. ~ev_to_main["in"]
  BY <1>1 DEF FInv, IInv, Sound, Kinds
<1>3. ev_to_main'["in"] /\ ev_to_main'["out"] = ev_to_main["out"]
  BY <1>1 DEF FInv, IInv, Typed, Kinds
<1>4. OutFlow'
  BY <1>1, <1>3, OutSame DEF FInv, Works
<1>5. /\ Len(source) \in Nat /\ Len(delivered) \in Nat /\ source \in Seq(Nat)
      /\ Counted(source) /\ Counted(delivered) /\ Len(delivered) <= Len(source)
      /\ open => Len(source) = Len(delivered)
  BY <1>2, Lengths DEF FInv, InFlow
<1>6. CASE ReadData
  <2>1. /\ buffer' = Len(source) + 1 /\ len' = 1 /\ Len(source) < MaxInput /\ open
        /\ source' = Append(source, Len(source) + 1)
    BY <1>6 DEF ReadData
  <2>2. Counted(source')
    BY <1>5, <2>1, CountedAppend
  <2>3. Len(source') = Len(source) + 1
    BY <1>5, <2>1
  <2>4. Len(delivered) <= Len(source') /\ Len(source) + 1 \in 1 .. MaxInput
    BY <1>5, <2>1, <2>3, BoundsAssumption
  <2>5. InFlow'
    BY <1>1, <1>3, <1>5, <2>1, <2>2, <2>3, <2>4 DEF InFlow, Counted
  <2> QED BY <1>1, <1>4, <2>1, <2>4, <2>5
<1>7. CASE ReadNone
  <2>1. len' = 0 /\ UNCHANGED <<buffer, source>>
    BY <1>7 DEF ReadNone
  <2>2. InFlow'
    BY <1>1, <1>5, <2>1 DEF InFlow, Counted
  <2> QED BY <1>1, <1>4, <2>1, <2>2
<1> QED BY <1>1, <1>6, <1>7

LEMMA OutputResumeFlows ==
    ASSUME FInv, OutputResume
    PROVE  InFlow' /\ OutFlow' /\ UNCHANGED <<source, delivered, submitted, written>>
<1>1. /\ UNCHANGED <<handles, queued_data, open, delivered, submitted, buffer, len,
                     source, lenwritten, writeerr, written>>
      /\ ev_to_main' = [ev_to_main EXCEPT !["out"] = @ \/ handles["out"].done]
  BY DEF OutputResume, main, input, output
<1>2. /\ ev_to_main'["in"] = ev_to_main["in"]
      /\ ~handles["out"].done => ev_to_main'["out"] = ev_to_main["out"]
  <2>1. ev_to_main \in [Kinds -> BOOLEAN]
    BY DEF FInv, IInv, Typed
  <2>2. /\ ev_to_main'["in"] = ev_to_main["in"]
        /\ ev_to_main'["out"] = (ev_to_main["out"] \/ handles["out"].done)
    BY <1>1, <2>1 DEF Kinds
  <2>3. ev_to_main["out"] \in BOOLEAN
    BY <2>1 DEF Kinds
  <2> QED BY <2>2, <2>3
<1>3. InFlow'
  BY <1>1, <1>2, InSame DEF FInv
<1>4. OutFlow'
  BY <1>1, <1>2, OutSame DEF FInv, Works
<1> QED BY <1>1, <1>3, <1>4

LEMMA OutputWriteFlows ==
    ASSUME FInv, OutputWrite
    PROVE  /\ InFlow' /\ OutFlow' /\ UNCHANGED <<source, delivered, submitted>>
           /\ \/ UNCHANGED written
              \/ Len(written) < Len(written')
<1>1. /\ UNCHANGED <<handles, queued_data, open, delivered, submitted, buffer, len,
                     source>>
      /\ ev_to_main' = [ev_to_main EXCEPT !["out"] = TRUE] /\ thread["out"] = "busy"
  BY DEF OutputWrite, main, input
<1>2. /\ ~ev_to_main["out"] /\ Works /\ outlen <= Len(queued_data)
  BY <1>1 DEF FInv, IInv, Sound, Queued, Works, Kinds
<1>3. ev_to_main'["in"] = ev_to_main["in"] /\ ev_to_main'["out"]
  BY <1>1 DEF FInv, IInv, Typed, Kinds
<1>4. InFlow'
  BY <1>1, <1>3, InSame DEF FInv
<1>5. /\ Counted(submitted) /\ Counted(written) /\ Len(written) <= Len(submitted)
      /\ \A i \in 1 .. Len(queued_data) : queued_data[i] = Base + i
      /\ Len(written) = Base
  BY <1>2 DEF FInv, OutFlow
<1>6. /\ written \in Seq(Nat) /\ queued_data \in Seq(Nat)
      /\ Len(written) \in Nat /\ Len(queued_data) \in Nat /\ Len(submitted) \in Nat
      /\ outlen \in Nat
  BY Lengths DEF FInv
<1>7. Base' = Base /\ Base = Len(submitted) - Len(queued_data)
  BY <1>1 DEF Base
<1>8. \A i \in 1 .. Len(queued_data') : queued_data'[i] = Base' + i
  BY <1>1, <1>5, <1>7
<1>9. Counted(submitted')
  BY <1>1, <1>5 DEF Counted
<1>10. ASSUME NEW n \in 1 .. outlen, written' = written \o SubSeq(queued_data, 1, n),
              lenwritten' = n, writeerr' = FALSE
       PROVE  OutFlow' /\ Len(written) < Len(written')
  <2> DEFINE t == SubSeq(queued_data, 1, n)
  <2>1. n \in Nat /\ n >= 1 /\ n <= Len(queued_data)
    BY <1>2, <1>6
  <2>2. ASSUME NEW i \in 1 .. n PROVE queued_data[i] = Base + i /\ queued_data[i] \in Nat
    <3>1. i \in 1 .. Len(queued_data)
      BY <1>6, <2>1
    <3> QED BY <1>5, <1>6, <3>1
  <2>3. t \in Seq(Nat)
    <3>1. 1 \in Int /\ n \in Int /\ \A i \in 1 .. n : queued_data[i] \in Nat
      BY <2>1, <2>2
    <3> QED BY <3>1, SubSeqProperties, Zenon
  <2>4. Len(t) = n /\ \A i \in 1 .. n : t[i] = queued_data[i]
    BY <1>6, <2>1
  <2> HIDE DEF t
  <2>5. /\ Len(written') = Len(written) + n
        /\ \A i \in 1 .. Len(written) : written'[i] = written[i]
        /\ \A i \in 1 .. n : written'[Len(written) + i] = t[i]
    <3>1. written' = written \o t
      BY <1>10 DEF t
    <3>2. Len(written') = Len(written) + n
      BY <1>6, <2>3, <2>4, <3>1
    <3>3. ASSUME NEW i \in 1 .. Len(written) PROVE written'[i] = written[i]
      BY <1>6, <2>3, <2>4, <3>1
    <3>4. ASSUME NEW i \in 1 .. n PROVE written'[Len(written) + i] = t[i]
      BY <1>6, <2>3, <2>4, <3>1
    <3> QED BY <3>2, <3>3, <3>4
  <2>6. ASSUME NEW i \in 1 .. Len(written') PROVE written'[i] = i
    <3>1. CASE i \in 1 .. Len(written)
      BY <1>5, <2>5, <3>1 DEF Counted
    <3>2. CASE i \notin 1 .. Len(written)
      <4> DEFINE j == i - Len(written)
      <4>1. j \in 1 .. n /\ i = Len(written) + j
        BY <1>6, <2>1, <2>5, <3>2
      <4> HIDE DEF j
      <4>2. written'[i] = Base + j
        BY <2>2, <2>4, <2>5, <4>1
      <4> QED BY <1>5, <4>1, <4>2
    <3> QED BY <3>1, <3>2
  <2>7. /\ Counted(written') /\ Len(written') <= Len(submitted')
        /\ Len(written') = Base' + lenwritten' /\ lenwritten' <= Len(queued_data')
        /\ Len(written) < Len(written')
    <3>1. Counted(written')
      BY <2>6 DEF Counted
    <3>2. Len(written') = Base' + lenwritten'
      BY <1>5, <1>7, <1>10, <2>5
    <3>3. lenwritten' <= Len(queued_data')
      BY <1>1, <1>10, <2>1
    <3>4. Len(written') <= Len(submitted') /\ Len(written) < Len(written')
      BY <1>1, <1>5, <1>6, <1>7, <2>1, <2>5
    <3> QED BY <3>1, <3>2, <3>3, <3>4
  <2> QED BY <1>3, <1>8, <1>9, <1>10, <2>7 DEF OutFlow
<1>11. CASE writeerr' = TRUE /\ UNCHANGED <<lenwritten, written>>
  <2>1. Counted(written') /\ Len(written') <= Len(submitted') /\ Len(written') = Base'
    BY <1>1, <1>5, <1>7, <1>11 DEF Counted
  <2> QED BY <1>1, <1>4, <1>8, <1>9, <1>11, <2>1 DEF OutFlow
<1> QED BY <1>1, <1>4, <1>10, <1>11 DEF OutputWrite

-----------------------------------------------------------------------------
(* What a step does to the data of each direction. *)
InputMoves ==
    /\ UNCHANGED delivered \/ Len(delivered) < Len(delivered')
    /\ \/ UNCHANGED source
       \/ /\ source' = Append(source, Len(source) + 1)
          /\ Len(source) + 1 \in 1 .. MaxInput
          /\ UNCHANGED delivered
OutputMoves ==
    /\ UNCHANGED written \/ Len(written) < Len(written')
    /\ \/ UNCHANGED submitted
       \/ /\ submitted' = Append(submitted, Len(submitted) + 1)
          /\ Len(submitted) + 1 \in 1 .. MaxOutput
          /\ UNCHANGED written

LEMMA InitFInv == Init => FInv
<1> SUFFICES ASSUME Init PROVE FInv
  OBVIOUS
<1>1. IInv
  BY InitIInv
<1>2. /\ Len(source) = 0 /\ Len(delivered) = 0 /\ Len(submitted) = 0 /\ Len(written) = 0
      /\ Len(queued_data) = 0
  BY DEF Init
<1>3. ~ev_to_main["in"] /\ ~ev_to_main["out"]
  BY DEF Init, Kinds
<1> QED BY <1>1, <1>2, <1>3 DEF FInv, InFlow, OutFlow, Counted, Base

LEMMA NextMoves ==
    FInv /\ [Next]_vars => FInv' /\ InputMoves /\ OutputMoves
<1> SUFFICES ASSUME FInv, [Next]_vars
             PROVE  InFlow' /\ OutFlow' /\ InputMoves /\ OutputMoves
  BY NextIInv DEF FInv
<1>1. ASSUME NEW h \in Kinds, handle_got_event(h)
      PROVE  InFlow' /\ OutFlow' /\ InputMoves /\ OutputMoves
  <2>1. /\ handles[h].live /\ ev_to_main[h] /\ ev_to_main' = Taken(ev_to_main, h)
        /\ submitted' = submitted
    BY <1>1 DEF handle_got_event, Taken
  <2>2. CASE handles[h].moribund /\ MainStep(GotMoribund(Main, h))
    BY <2>1, <2>2, GotMoribundFlows DEF InputMoves, OutputMoves
  <2>3. CASE ~handles[h].moribund /\ h = "in" /\ MainStep(GotInput(Main))
    BY <2>1, <2>3, GotInputFlows DEF InputMoves, OutputMoves
  <2>4. ASSUME ~handles[h].moribund, h = "out",
               NEW n \in Prefixes(Consumed(queued_data)), NEW frees \in BOOLEAN,
               MainStep(GotOutput(Main, n, frees))
        PROVE  InFlow' /\ OutFlow' /\ InputMoves /\ OutputMoves
    BY <2>1, <2>4, GotOutputFlows DEF InputMoves, OutputMoves
  <2> QED BY <1>1, <2>2, <2>3, <2>4 DEF handle_got_event
<1>2. ASSUME NEW h \in Kinds, Wake(h)
      PROVE  InFlow' /\ OutFlow' /\ InputMoves /\ OutputMoves
  BY <1>2, WakeFlows DEF InputMoves, OutputMoves
<1>3. CASE Write
  BY <1>3, WriteFlows DEF InputMoves, OutputMoves
<1>4. CASE Close
  BY <1>4, CloseFlows DEF InputMoves, OutputMoves
<1>5. CASE InputRead
  BY <1>5, InputReadFlows DEF InputMoves, OutputMoves
<1>6. CASE InputCheck \/ InputResume
  BY <1>6, InputStepsFlow DEF InputMoves, OutputMoves
<1>7. CASE OutputResume
  BY <1>7, OutputResumeFlows DEF InputMoves, OutputMoves
<1>8. CASE OutputWrite
  BY <1>8, OutputWriteFlows DEF InputMoves, OutputMoves
<1>9. CASE UNCHANGED vars
  <2>1. UNCHANGED <<handles, queued_data, open, delivered, submitted, ev_to_main, buffer,
                    len, source, lenwritten, writeerr, written>>
    BY <1>9 DEF vars, main, input, output
  <2>2. InFlow' /\ OutFlow'
    BY <2>1, InSame, OutSame DEF FInv, Works
  <2> QED BY <2>1, <2>2 DEF InputMoves, OutputMoves
<1> QED BY <1>1, <1>2, <1>3, <1>4, <1>5, <1>6, <1>7, <1>8, <1>9 DEF Next

(* What has been read and what has been delivered are a Stream: data comes to
   the user in order and once, whatever the device and the threads do and
   whenever the handles are freed (handle_input_threadfunc, handle_got_event). *)
THEOREM InputRefines == Spec => InputIsStream
<1> DEFINE Step == [InputStream!Send \/ InputStream!Receive]_<<source, delivered>>
<1>1. Init => FInv /\ InputStream!Init
  BY InitFInv DEF Init, InputStream!Init
<1>2. FInv /\ [Next]_vars => FInv' /\ Step
  <2> SUFFICES ASSUME FInv, [Next]_vars PROVE FInv' /\ Step
    OBVIOUS
  <2>1. FInv' /\ InputMoves
    BY NextMoves
  <2>2. CASE UNCHANGED <<source, delivered>>
    BY <2>1, <2>2
  <2>3. CASE /\ source' = Append(source, Len(source) + 1)
             /\ Len(source) + 1 \in 1 .. MaxInput
             /\ UNCHANGED delivered
    <3>1. InputStream!Send
      BY <2>3 DEF InputStream!Send
    <3> QED BY <2>1, <3>1
  <2>4. CASE UNCHANGED source /\ Len(delivered) < Len(delivered')
    <3>1. /\ Counted(source) /\ Counted(delivered) /\ Counted(delivered')
          /\ Len(delivered') <= Len(source')
          /\ source \in Seq(Nat) /\ delivered \in Seq(Nat) /\ delivered' \in Seq(Nat)
          /\ Len(delivered) \in Nat /\ Len(delivered') \in Nat
      BY <2>1, Lengths, SMTT(20) DEF FInv, InFlow, IInv, Typed
    <3>2. Len(delivered) <= Len(delivered') /\ Len(delivered') <= Len(source)
      BY <2>4, <3>1
    <3>3. /\ SubSeq(delivered, 1, Len(delivered)) = SubSeq(delivered', 1, Len(delivered))
          /\ SubSeq(delivered', 1, Len(delivered')) = SubSeq(source, 1, Len(delivered'))
      BY <3>1, <3>2, CountedPrefix
    <3>4. delivered # delivered'
      BY <2>4, <3>1
    <3>5. InputStream!Receive
      BY <2>4, <3>2, <3>3, <3>4
         DEF InputStream!Receive, InputStream!IsStrictPrefix, InputStream!IsPrefix
    <3> QED BY <2>1, <3>5
  <2> QED BY <2>1, <2>2, <2>3, <2>4 DEF InputMoves
<1> QED BY <1>1, <1>2, PTL DEF Spec, InputIsStream, InputStream!Spec

(* What the user has written and what the device has taken are a Stream, also
   when a write takes only a part of what it was given (handle_try_output,
   handle_output_threadfunc). *)
THEOREM OutputRefines == Spec => OutputIsStream
<1> DEFINE Step == [OutputStream!Send \/ OutputStream!Receive]_<<submitted, written>>
<1>1. Init => FInv /\ OutputStream!Init
  BY InitFInv DEF Init, OutputStream!Init
<1>2. FInv /\ [Next]_vars => FInv' /\ Step
  <2> SUFFICES ASSUME FInv, [Next]_vars PROVE FInv' /\ Step
    OBVIOUS
  <2>1. FInv' /\ OutputMoves
    BY NextMoves
  <2>2. CASE UNCHANGED <<submitted, written>>
    BY <2>1, <2>2
  <2>3. CASE /\ submitted' = Append(submitted, Len(submitted) + 1)
             /\ Len(submitted) + 1 \in 1 .. MaxOutput
             /\ UNCHANGED written
    <3>1. OutputStream!Send
      BY <2>3 DEF OutputStream!Send
    <3> QED BY <2>1, <3>1
  <2>4. CASE UNCHANGED submitted /\ Len(written) < Len(written')
    <3>1. /\ Counted(submitted) /\ Counted(written) /\ Counted(written')
          /\ Len(written') <= Len(submitted')
          /\ submitted \in Seq(Nat) /\ written \in Seq(Nat) /\ written' \in Seq(Nat)
          /\ Len(written) \in Nat /\ Len(written') \in Nat
      BY <2>1, Lengths, SMTT(20) DEF FInv, OutFlow, IInv, Typed
    <3>2. Len(written) <= Len(written') /\ Len(written') <= Len(submitted)
      BY <2>4, <3>1
    <3>3. /\ SubSeq(written, 1, Len(written)) = SubSeq(written', 1, Len(written))
          /\ SubSeq(written', 1, Len(written')) = SubSeq(submitted, 1, Len(written'))
      BY <3>1, <3>2, CountedPrefix
    <3>4. written # written'
      BY <2>4, <3>1
    <3>5. OutputStream!Receive
      BY <2>4, <3>2, <3>3, <3>4
         DEF OutputStream!Receive, OutputStream!IsStrictPrefix, OutputStream!IsPrefix
    <3> QED BY <2>1, <3>5
  <2> QED BY <2>1, <2>2, <2>3, <2>4 DEF OutputMoves
<1> QED BY <1>1, <1>2, PTL DEF Spec, OutputIsStream, OutputStream!Spec

=============================================================================
