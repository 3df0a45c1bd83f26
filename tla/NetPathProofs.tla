----------------------------- MODULE NetPathProofs -----------------------------
(*******************************************************************************)
(* Proof about the way to the server: nothing of the session reaches the wire  *)
(* before the proxy has opened the way, whatever is typed and wherever the     *)
(* stream is cut, for every scenario.                                          *)
(*******************************************************************************)
EXTENDS NetPath, SequenceTheorems, WellFoundedInduction, TLAPS

-----------------------------------------------------------------------------
(* A set of numbers has a least. *)
LEMMA LeastNumber ==
    ASSUME NEW B \in SUBSET Nat, B # {}
    PROVE  \E k \in B : \A j \in B : k <= j
<1>1. PICK z \in B : TRUE
  OBVIOUS
<1> DEFINE R == OpToRel(<, Nat)
<1>2. IsWellFoundedOn(R, Nat)
  BY NatLessThanWellFounded
<1>3. PICK y \in B : ~\E x \in B : <<x, y>> \in R
  BY <1>1, <1>2, WFMin
<1>4. \A x \in B : y <= x
  BY <1>3 DEF OpToRel
<1> QED BY <1>4

-----------------------------------------------------------------------------
(* What the peer has said. *)

(* What is assumed of a scenario's items, and that the way is opened by no item that
   comes too early. *)
Scripted(sc) ==
    /\ sc.items \in Seq(Range(sc.items)) /\ sc.granted \in 0 .. Len(sc.items)
    /\ \A i \in 1 .. Len(sc.items) : sc.items[i].bytes \in Seq(STRING)

(* f adds up the bytes of the first m items. *)
Sums(f, sc, m) ==
    /\ f \in [0 .. m -> Nat] /\ f[0] = 0
    /\ \A n \in 1 .. m : f[n] = f[n - 1] + Len(sc.items[n].bytes)

(* There is such a function for each number of them. *)
LEMMA SumsExist ==
    ASSUME NEW sc, Scripted(sc), NEW m \in 0 .. Len(sc.items)
    PROVE  \E f : Sums(f, sc, m)
<1> DEFINE len == Len(sc.items)
           B == {k \in 0 .. len : ~\E f : Sums(f, sc, k)}
<1>0. len \in Nat
  BY DEF Scripted
<1>1. SUFFICES ASSUME B # {} PROVE FALSE
  OBVIOUS
<1>2. PICK k \in B : \A j \in B : k <= j
  <2>1. B \in SUBSET Nat
    BY <1>0
  <2> HIDE DEF B
  <2> QED BY <1>1, <2>1, LeastNumber
<1>3. k # 0
  <2> DEFINE f == [n \in 0 .. 0 |-> 0]
  <2>1. Sums(f, sc, 0)
    BY DEF Sums
  <2> QED BY <2>1
<1>4. k \in 1 .. len /\ k - 1 \in 0 .. len /\ k - 1 \notin B
  BY <1>0, <1>2, <1>3
<1>5. PICK g : Sums(g, sc, k - 1)
  BY <1>4
<1>6. PICK x \in Nat : x = g[k - 1] + Len(sc.items[k].bytes)
  <2>1. g[k - 1] \in Nat /\ sc.items[k].bytes \in Seq(STRING)
    BY <1>0, <1>4, <1>5 DEF Sums, Scripted
  <2> QED BY <2>1
<1> DEFINE f == [n \in 0 .. k |-> IF n = k THEN x ELSE g[n]]
<1>7. Sums(f, sc, k)
  <2>1. f \in [0 .. k -> Nat] /\ f[0] = 0
    BY <1>0, <1>4, <1>5 DEF Sums
  <2>2. ASSUME NEW n \in 1 .. k
        PROVE  f[n] = f[n - 1] + Len(sc.items[n].bytes)
    <3>1. CASE n = k
      <4>1. f[n] = x /\ f[n - 1] = g[k - 1]
        BY <1>0, <1>4, <3>1
      <4> QED BY <1>6, <3>1, <4>1
    <3>2. CASE n # k
      <4>1. f[n] = g[n] /\ f[n - 1] = g[n - 1] /\ n \in 1 .. k - 1
        BY <1>0, <1>4, <3>2
      <4> QED BY <1>5, <4>1 DEF Sums
    <3> QED BY <3>1, <3>2
  <2> QED BY <2>1, <2>2 DEF Sums
<1> HIDE DEF f
<1> QED BY <1>2, <1>7

(* Heard is one. *)
LEMMA HeardSums ==
    ASSUME NEW sc, Scripted(sc)
    PROVE  Sums(Heard(sc), sc, Len(sc.items))
<1> DEFINE m == Len(sc.items)
           Q(f) == f = [n \in 0 .. m |->
                           IF n = 0 THEN 0 ELSE f[n - 1] + Len(sc.items[n].bytes)]
           h == CHOOSE f : Q(f)
<1>1. m \in Nat /\ m \in 0 .. m
  BY DEF Scripted
<1>2. PICK g : Sums(g, sc, m)
  BY <1>1, SumsExist
<1>3. Q(g)
  <2> DEFINE q == [n \in 0 .. m |-> IF n = 0 THEN 0 ELSE g[n - 1] + Len(sc.items[n].bytes)]
  <2>1. \A n \in 0 .. m : g[n] = q[n]
    BY <1>1, <1>2 DEF Sums
  <2>2. g = [n \in 0 .. m |-> g[n]] /\ q = [n \in 0 .. m |-> q[n]]
    BY <1>2 DEF Sums
  <2> HIDE DEF q
  <2>3. g = q
    BY <2>1, <2>2
  <2> QED BY <2>3 DEF q
<1>4. Q(h)
  BY <1>3
<1>5. Heard(sc) = h
  BY DEF Heard
<1> HIDE DEF h
<1>6. \A n \in 0 .. m : h[n] = IF n = 0 THEN 0 ELSE h[n - 1] + Len(sc.items[n].bytes)
  BY <1>4
<1>7. h = g
  <2> DEFINE B == {n \in 0 .. m : h[n] # g[n]}
  <2>1. ASSUME B # {} PROVE FALSE
    <3>1. PICK n \in B : \A j \in B : n <= j
      <4>1. B \in SUBSET Nat
        BY <1>1
      <4> HIDE DEF B
      <4> QED BY <2>1, <4>1, LeastNumber
    <3>2. n # 0
      BY <1>1, <1>2, <1>6, <3>1 DEF Sums
    <3>3. n \in 1 .. m /\ n - 1 \in 0 .. m /\ n - 1 \notin B
      BY <1>1, <3>1, <3>2
    <3>4. h[n] = g[n]
      BY <1>1, <1>2, <1>6, <3>3 DEF Sums
    <3> QED BY <3>1, <3>4
  <2>2. \A n \in 0 .. m : h[n] = g[n]
    BY <2>1
  <2>3. h = [n \in 0 .. m |-> h[n]]
    BY <1>4
  <2>4. g = [n \in 0 .. m |-> g[n]]
    BY <1>2 DEF Sums
  <2> QED BY <2>2, <2>3, <2>4
<1> QED BY <1>2, <1>5, <1>7

(* More items have no fewer bytes. *)
LEMMA SumsGrow ==
    ASSUME NEW sc, Scripted(sc), NEW f, NEW m \in Nat, m <= Len(sc.items), Sums(f, sc, m),
           NEW i \in 0 .. m, NEW n \in i .. m
    PROVE  f[i] <= f[n]
<1> DEFINE B == {k \in i .. m : ~(f[i] <= f[k])}
<1>1. SUFFICES ASSUME B # {} PROVE FALSE
  OBVIOUS
<1>2. PICK k \in B : \A j \in B : k <= j
  <2>1. B \in SUBSET Nat
    OBVIOUS
  <2> HIDE DEF B
  <2> QED BY <1>1, <2>1, LeastNumber
<1>3. k # i
  BY <1>2 DEF Sums
<1>4. k \in 1 .. m /\ k - 1 \in i .. m /\ k - 1 \notin B
  BY <1>2, <1>3
<1>5. Len(sc.items[k].bytes) \in Nat
  <2>1. k \in 1 .. Len(sc.items)
    BY <1>4 DEF Scripted
  <2> QED BY <2>1 DEF Scripted
<1>6. f[i] <= f[k - 1] /\ f[k] = f[k - 1] + Len(sc.items[k].bytes)
  BY <1>4 DEF Sums
<1>7. f[i] \in Nat /\ f[k - 1] \in Nat
  BY <1>4 DEF Sums
<1> QED BY <1>2, <1>5, <1>6, <1>7

-----------------------------------------------------------------------------
(* Sockets. *)

(* The sockets whose units are of U, and keep within what Windows takes. *)
Sockets(U) ==
    [addrs : Seq(Addresses), addr : Nat, error : BOOLEAN, connected : BOOLEAN,
     writable : BOOLEAN, oob : Seq(U), output : Seq(U), pending_error : BOOLEAN,
     wire : Seq(U), blocked : BOOLEAN, reset : BOOLEAN]
Bounded(s, U) == s \in Sockets(U) /\ Len(s.wire) <= SendRoom

(* What sending leaves of a socket as it was. *)
SamePlace(t, s) == t.addrs = s.addrs /\ t.addr = s.addr /\ t.connected = s.connected

(* A part of a sequence is a sequence, of that length. *)
LEMMA PartOf ==
    ASSUME NEW U, NEW s \in Seq(U), NEW n \in 0 .. Len(s)
    PROVE  /\ SubSeq(s, 1, n) \in Seq(U) /\ Len(SubSeq(s, 1, n)) = n
           /\ SubSeq(s, n + 1, Len(s)) \in Seq(U)
           /\ Len(SubSeq(s, n + 1, Len(s))) = Len(s) - n
<1>1. n \in Nat /\ n + 1 \in Nat /\ Len(s) \in Nat
  OBVIOUS
<1> QED BY <1>1, SubSeqProperties

(* Sending. *)
LEMMA TrySendFacts ==
    ASSUME NEW U, NEW s, Bounded(s, U)
    PROVE  Bounded(try_send(s), U) /\ SamePlace(try_send(s), s)
<1> DEFINE queue == AsUnits(s)
           n == IF Len(queue) <= Room(s) THEN Len(queue) ELSE Room(s)
           past == IF n <= Len(s.oob) THEN 0 ELSE n - Len(s.oob)
<1>1. CASE queue = <<>>
  BY <1>1 DEF try_send, SamePlace
<1>2. CASE queue # <<>> /\ s.reset
  BY <1>2 DEF try_send, SamePlace, Bounded, Sockets
<1>3. CASE queue # <<>> /\ ~s.reset
  <2> HIDE DEF n, past, queue
  <2>1. PICK o \in Seq(U) : o = s.oob
    BY DEF Bounded, Sockets
  <2>2. PICK p \in Seq(U) : p = s.output
    BY DEF Bounded, Sockets
  <2>3. PICK w \in Seq(U) : w = s.wire
    BY DEF Bounded, Sockets
  <2>4. PICK q \in Seq(U) : q = queue /\ Len(q) = Len(o) + Len(p)
    <3>1. queue = o \o p
      BY <2>1, <2>2 DEF AsUnits, queue
    <3>2. o \o p \in Seq(U) /\ Len(o \o p) = Len(o) + Len(p)
      OBVIOUS
    <3> QED BY <3>1, <3>2
  <2>5. Len(w) \in Nat /\ Len(w) <= SendRoom /\ SendRoom \in Nat
    BY <2>3, SendRoomAssumption DEF Bounded
  <2>6. PICK k \in Nat : k = n /\ k <= Len(q) /\ k + Len(w) <= SendRoom
    <3>1. PICK l \in Nat : l = Len(q)
      OBVIOUS
    <3>2. PICK j \in Nat : j = Len(w)
      OBVIOUS
    <3>3. n = IF l <= SendRoom - j THEN l ELSE SendRoom - j
      BY <2>3, <2>4, <3>1, <3>2 DEF Room, n
    <3>4. j <= SendRoom /\ SendRoom \in Nat
      BY <2>5, <3>2
    <3>5. n \in Nat /\ n <= l /\ n + j <= SendRoom
      BY <3>3, <3>4
    <3> QED BY <3>1, <3>2, <3>5
  <2>7. PICK a \in Nat : a = past /\ a <= Len(p)
    <3>1. PICK l \in Nat : l = Len(o)
      OBVIOUS
    <3>2. past = IF k <= l THEN 0 ELSE k - l
      BY <2>1, <2>6, <3>1 DEF past
    <3>3. k <= l + Len(p) /\ Len(p) \in Nat
      BY <2>4, <2>6, <3>1
    <3>4. past \in Nat /\ past <= Len(p)
      BY <3>2, <3>3
    <3> QED BY <3>4
  <2>8. PICK z \in Seq(U) : z = w \o SubSeq(q, 1, k) /\ Len(z) <= SendRoom
    <3>1. SubSeq(q, 1, k) \in Seq(U) /\ Len(SubSeq(q, 1, k)) = k
      <4>1. k \in 0 .. Len(q)
        BY <2>6
      <4> QED BY <4>1, PartOf
    <3>2. PICK v \in Seq(U) : v = SubSeq(q, 1, k) /\ Len(v) = k
      BY <3>1
    <3>3. w \o v \in Seq(U) /\ Len(w \o v) = Len(w) + k
      BY <3>2
    <3>4. k + Len(w) <= SendRoom /\ k \in Nat /\ Len(w) \in Nat
      BY <2>5, <2>6
    <3>5. PICK z \in Seq(U) : z = w \o v
      BY <3>3
    <3>6. Len(z) <= SendRoom
      BY <2>5, <3>3, <3>4, <3>5
    <3> QED BY <3>2, <3>5, <3>6
  <2>9. PICK r \in Seq(U) : r = SubSeq(o, k + 1, Len(o))
    <3>1. CASE k <= Len(o)
      <4>1. k \in 0 .. Len(o)
        BY <3>1
      <4> QED BY <4>1, PartOf
    <3>2. CASE ~(k <= Len(o))
      <4>1. SubSeq(o, k + 1, Len(o)) = <<>>
        BY <3>2
      <4>2. <<>> \in Seq(U)
        OBVIOUS
      <4> QED BY <4>1, <4>2
    <3> QED BY <3>1, <3>2
  <2>10. PICK y \in Seq(U) : y = SubSeq(p, a + 1, Len(p))
    <3>1. a \in 0 .. Len(p)
      BY <2>7
    <3> QED BY <3>1, PartOf
  <2>11. try_send(s) = [s EXCEPT !.wire = z, !.oob = r, !.output = y,
                                 !.writable = (n = Len(queue)),
                                 !.blocked = @ \/ n < Len(queue)]
    BY <1>3, <2>1, <2>2, <2>3, <2>4, <2>6, <2>7, <2>8, <2>9, <2>10
       DEF try_send, n, past, queue
  <2>12. PICK b \in BOOLEAN : b = (n = Len(queue))
    OBVIOUS
  <2>13. PICK d \in BOOLEAN : d = (s.blocked \/ n < Len(queue))
    OBVIOUS
  <2>14. try_send(s) = [s EXCEPT !.wire = z, !.oob = r, !.output = y, !.writable = b, !.blocked = d]
    BY <2>11, <2>12, <2>13
  <2> QED BY <2>8, <2>14 DEF Bounded, Sockets, SamePlace
<1> QED BY <1>1, <1>2, <1>3

(* If Windows takes more. *)
LEMMA IfWritableFacts ==
    ASSUME NEW U, NEW s, Bounded(s, U)
    PROVE  Bounded(IfWritable(s), U) /\ SamePlace(IfWritable(s), s)
BY TrySendFacts DEF IfWritable, SamePlace

(* Writing a unit. *)
LEMMA TcpWriteFacts ==
    ASSUME NEW U, NEW s, Bounded(s, U), NEW x \in U
    PROVE  Bounded(sk_tcp_write(s, x), U) /\ SamePlace(sk_tcp_write(s, x), s)
<1>1. PICK p \in Seq(U) : p = Append(s.output, x)
  <2>1. s.output \in Seq(U)
    BY DEF Bounded, Sockets
  <2>2. Append(s.output, x) \in Seq(U)
    BY <2>1
  <2> QED BY <2>2
<1>2. PICK t : t = [s EXCEPT !.output = p]
  OBVIOUS
<1>3. Bounded(t, U) /\ SamePlace(t, s)
  BY <1>2 DEF Bounded, Sockets, SamePlace
<1>4. sk_tcp_write(s, x) = IfWritable(t)
  BY <1>1, <1>2 DEF sk_tcp_write
<1> QED BY <1>3, <1>4, IfWritableFacts DEF SamePlace

-----------------------------------------------------------------------------
(* The negotiation. *)

Names == {"CONNECT", "Authorization", "end", "connect", "methods", "password", "command"}
Requests == [request : Names]
Letters == [byte : Keys \union {"IAC", "NUL"}]
Fresh == TelnetStart("size")

(* A proxy that negotiates. *)
Negotiating ==
    [kind : {"http", "socks4", "socks5", "telnet"}, auth : BOOLEAN, input : Seq(STRING),
     output : Seq(Letters), oob : BOOLEAN, state : {"1", "2", "3", "7"}]

(* The connections that have sent requests only, and what they hold back. *)
Asking(d) ==
    /\ d \in [sock : Sockets(Requests), telnet : {Fresh}, up : BOOLEAN, proxy : Negotiating]
    /\ Bounded(d.sock, Requests)
    /\ d.proxy.kind = "socks5" => d.proxy.state # "2"

(* The bytes of the replies that the negotiation has taken, at least. *)
Used(d) == IF d.proxy.kind = "socks5" /\ d.proxy.state # "1" THEN 2 ELSE 0
Taken(d) == Len(d.proxy.input) + Used(d)

(* A session that begins. *)
LEMMA FreshFacts ==
    /\ "out" \in DOMAIN Fresh /\ Fresh.out = <<>>
    /\ Fresh = [x \in DOMAIN Fresh |-> Fresh[x]]
<1>1. Fresh = TelnetStart("size")
  BY DEF Fresh
<1> QED BY <1>1 DEF TelnetStart, TelnetInit

(* A sequence and one element more. *)
LEMMA Longer ==
    ASSUME NEW U, NEW s \in Seq(U), NEW x \in U
    PROVE  \E t \in Seq(U) : t = Append(s, x)
<1>1. Append(s, x) \in Seq(U)
  OBVIOUS
<1> QED BY <1>1

(* What it writes is in out, and is all of it that changes. *)
Writing(s) == [Fresh EXCEPT !.out = s]
LEMMA WritingFacts ==
    ASSUME NEW U, NEW s \in Seq(U)
    PROVE  /\ Writing(s).out = s /\ [Writing(s) EXCEPT !.out = <<>>] = Fresh
           /\ \A x : sk_write(Writing(s), x) = Writing(Append(s, x))
<1>1. Writing(s).out = s
  BY FreshFacts DEF Writing
<1>2. [Writing(s) EXCEPT !.out = <<>>] = Fresh
  BY FreshFacts DEF Writing
<1>3. ASSUME NEW x PROVE sk_write(Writing(s), x) = Writing(Append(s, x))
  BY <1>1 DEF Writing, sk_write
<1> QED BY <1>1, <1>2, <1>3

(* What the backend writes: bytes of text, and the mark of a Synch. *)
Items == Letters \union {OutOfBand}
LEMMA WritingMore ==
    ASSUME NEW s \in Seq(Items), NEW x \in Items
    PROVE  \E t \in Seq(Items) : sk_write(Writing(s), x) = Writing(t)
<1>1. PICK t \in Seq(Items) : t = Append(s, x)
  BY Longer
<1>2. sk_write(Writing(s), x) = Writing(t)
  BY <1>1, WritingFacts
<1> QED BY <1>2

(* Before it has written. *)
LEMMA WritingNothing == \E e \in Seq(Items) : Fresh = Writing(e)
<1>1. PICK e \in Seq(Items) : e = <<>>
  <2>1. <<>> \in Seq(Items)
    OBVIOUS
  <2> QED BY <2>1
<1>2. Fresh = Writing(e)
  BY <1>1, FreshFacts DEF Writing
<1> QED BY <1>2

(* A key. *)
LEMMA TypedIs ==
    ASSUME NEW key \in Keys
    PROVE  \E s \in Seq(Items) : telnet_send(Fresh, key) = Writing(s)
<1>1. Byte(key) \in Items /\ Byte("NUL") \in Items
  BY DEF Items, Letters, Byte
<1>2. PICK e \in Seq(Items) : Fresh = Writing(e)
  BY WritingNothing
<1>3. PICK s \in Seq(Items) : sk_write(Fresh, Byte(key)) = Writing(s)
  BY <1>1, <1>2, WritingMore
<1>4. PICK t \in Seq(Items) : sk_write(Writing(s), Byte(key)) = Writing(t)
  BY <1>1, WritingMore
<1>5. PICK u \in Seq(Items) : sk_write(Writing(s), Byte("NUL")) = Writing(u)
  BY <1>1, WritingMore
<1>6. telnet_send(Fresh, key) \in {Writing(s), Writing(t), Writing(u)}
  BY <1>3, <1>4, <1>5 DEF telnet_send
<1> QED BY <1>6

(* A Synch. *)
LEMMA SynchIs == \E s \in Seq(Items) : telnet_special(Fresh, "SYNCH") = Writing(s)
<1>1. Byte("IAC") \in Items /\ OutOfBand \in Items
  BY DEF Items, Letters, Byte
<1>2. PICK e \in Seq(Items) : Fresh = Writing(e)
  BY WritingNothing
<1>3. PICK s \in Seq(Items) : sk_write(Fresh, Byte("IAC")) = Writing(s)
  BY <1>1, <1>2, WritingMore
<1>4. PICK t \in Seq(Items) : sk_write(Writing(s), OutOfBand) = Writing(t)
  BY <1>1, WritingMore
<1>5. telnet_special(Fresh, "SYNCH") = Writing(t)
  BY <1>3, <1>4 DEF telnet_special
<1> QED BY <1>5

(* The parts of a connection that negotiates. *)
LEMMA AskingParts ==
    ASSUME NEW d, Asking(d), NEW s, Bounded(s, Requests), NEW p \in Negotiating,
           p.kind = "socks5" => p.state # "2"
    PROVE  /\ Asking([d EXCEPT !.sock = s]) /\ Asking([d EXCEPT !.proxy = p])
           /\ [d EXCEPT !.sock = s].proxy = d.proxy /\ [d EXCEPT !.sock = s].sock = s
           /\ [d EXCEPT !.proxy = p].proxy = p /\ [d EXCEPT !.proxy = p].sock = d.sock
           /\ d.proxy \in Negotiating
BY DEF Asking, Bounded

(* What the backend writes while the proxy negotiates is held back: it changes nothing
   but what is held back. *)
Held(e, d) ==
    /\ Asking(e) /\ e.sock = d.sock /\ e.proxy.kind = d.proxy.kind
    /\ e.proxy.state = d.proxy.state /\ e.proxy.input = d.proxy.input

LEMMA PassedOnHeld ==
    ASSUME NEW d, Asking(d), NEW x \in Items
    PROVE  Held(PassedOn(d, x), d)
<1>1. d.proxy.state # "ACTIVE"
  BY DEF Asking, Negotiating
<1>2. CASE x = OutOfBand
  <2>1. PassedOn(d, x) = [d EXCEPT !.proxy.output = <<>>, !.proxy.oob = TRUE]
    BY <1>1, <1>2 DEF PassedOn, sk_proxy_write_oob
  <2>2. PICK s \in Seq(Letters) : s = <<>>
    <3>1. <<>> \in Seq(Letters)
      OBVIOUS
    <3> QED BY <3>1
  <2>3. PICK p : p = [d.proxy EXCEPT !.output = s, !.oob = TRUE]
    OBVIOUS
  <2>4. PassedOn(d, x) = [d EXCEPT !.proxy = p]
    BY <2>1, <2>2, <2>3 DEF Asking
  <2>5. d.proxy \in Negotiating /\ (d.proxy.kind = "socks5" => d.proxy.state # "2")
    BY DEF Asking
  <2>6. /\ p \in Negotiating /\ p.kind = d.proxy.kind /\ p.state = d.proxy.state
        /\ p.input = d.proxy.input
    BY <2>3, <2>5 DEF Negotiating
  <2>7. Bounded(d.sock, Requests)
    BY DEF Asking
  <2>8. Asking([d EXCEPT !.proxy = p])
    BY <2>5, <2>6, <2>7, AskingParts
  <2> QED BY <2>4, <2>6, <2>8, <2>5, <2>7, AskingParts DEF Held
<1>3. CASE x # OutOfBand
  <2>1. x \in Letters /\ d.proxy.output \in Seq(Letters)
    BY <1>3 DEF Items, Asking, Negotiating
  <2>2. PICK s \in Seq(Letters) : s = Append(d.proxy.output, x)
    BY <2>1, Longer
  <2>3. PassedOn(d, x) = [d EXCEPT !.proxy.output = s]
    BY <1>1, <1>3, <2>2 DEF PassedOn, sk_proxy_write
  <2>4. d.proxy \in Negotiating /\ (d.proxy.kind = "socks5" => d.proxy.state # "2")
    BY DEF Asking
  <2>5. PICK p : p = [d.proxy EXCEPT !.output = s]
    OBVIOUS
  <2>6. /\ p \in Negotiating /\ p.kind = d.proxy.kind /\ p.state = d.proxy.state
        /\ p.input = d.proxy.input
    BY <2>4, <2>5 DEF Negotiating
  <2>7. PassedOn(d, x) = [d EXCEPT !.proxy = p] /\ Bounded(d.sock, Requests)
    BY <2>3, <2>5 DEF Asking
  <2>8. Asking([d EXCEPT !.proxy = p])
    BY <2>4, <2>6, <2>7, AskingParts
  <2>9. PassedOn(d, x).proxy = p /\ PassedOn(d, x).sock = d.sock
    BY <2>4, <2>6, <2>7, AskingParts
  <2> QED BY <2>6, <2>7, <2>8, <2>9 DEF Held
<1> QED BY <1>2, <1>3

(* f passes on the first m of a handler's units. *)
Passes(f, d, out, m) ==
    f = [k \in 0 .. m |-> IF k = 0 THEN d ELSE PassedOn(f[k - 1], out[k])]

(* There is such a function for each number of them. *)
LEMMA PassesExist ==
    ASSUME NEW d, NEW out, NEW m \in Nat
    PROVE  \E f : Passes(f, d, out, m)
<1> DEFINE B == {k \in Nat : ~\E f : Passes(f, d, out, k)}
<1>1. SUFFICES ASSUME B # {} PROVE FALSE
  OBVIOUS
<1>2. PICK k \in B : \A j \in B : k <= j
  <2>1. B \in SUBSET Nat
    OBVIOUS
  <2> HIDE DEF B
  <2> QED BY <1>1, <2>1, LeastNumber
<1>3. k # 0
  <2> DEFINE f == [n \in 0 .. 0 |-> d]
  <2>1. Passes(f, d, out, 0)
    BY DEF Passes
  <2> QED BY <2>1
<1>4. k \in Nat /\ k - 1 \in Nat /\ k - 1 \notin B
  BY <1>2, <1>3
<1>5. PICK g : Passes(g, d, out, k - 1)
  BY <1>4
<1> DEFINE f == [n \in 0 .. k |-> IF n = k THEN PassedOn(g[k - 1], out[k]) ELSE g[n]]
           h == [n \in 0 .. k |-> IF n = 0 THEN d ELSE PassedOn(f[n - 1], out[n])]
<1>6. \A n \in 0 .. k : f[n] = h[n]
  <2>1. SUFFICES ASSUME NEW n \in 0 .. k PROVE f[n] = h[n]
    OBVIOUS
  <2>2. CASE n = k
    <3>1. f[n] = PassedOn(g[k - 1], out[k]) /\ f[n - 1] = g[k - 1]
      BY <1>4, <2>2
    <3> QED BY <1>3, <2>2, <3>1
  <2>3. CASE n # k
    <3>1. n \in 0 .. k - 1 /\ f[n] = g[n]
      BY <1>4, <2>3
    <3>2. n # 0 => f[n - 1] = g[n - 1]
      BY <1>4, <2>3
    <3>3. g[n] = IF n = 0 THEN d ELSE PassedOn(g[n - 1], out[n])
      BY <1>5, <3>1 DEF Passes
    <3> HIDE DEF f
    <3> QED BY <3>1, <3>2, <3>3
  <2> QED BY <2>2, <2>3
<1>7. f = [n \in 0 .. k |-> f[n]] /\ h = [n \in 0 .. k |-> h[n]]
  OBVIOUS
<1>8. f = h
  <2> HIDE DEF f, h
  <2> QED BY <1>6, <1>7
<1>9. Passes(f, d, out, k)
  <2> HIDE DEF f
  <2> QED BY <1>8 DEF Passes
<1> HIDE DEF f
<1> QED BY <1>2, <1>9

(* A connection whose backend has written and been read is as before. *)
LEMMA ReadAway ==
    ASSUME NEW d, d = [sock |-> d.sock, telnet |-> d.telnet, up |-> d.up, proxy |-> d.proxy],
           NEW w, NEW e, e = [d EXCEPT !.telnet = w], [w EXCEPT !.out = <<>>] = d.telnet
    PROVE  e.telnet = w /\ [e EXCEPT !.telnet.out = <<>>] = d
<1>1. PICK z : z = [w EXCEPT !.out = <<>>]
  OBVIOUS
<1>2. e.telnet = w
  OBVIOUS
<1>3. [e EXCEPT !.telnet.out = <<>>] = [e EXCEPT !.telnet = z]
  BY <1>1, <1>2
<1>4. [e EXCEPT !.telnet = z] = d
  BY <1>1
<1> QED BY <1>2, <1>3, <1>4

(* All that a handler writes while the proxy negotiates is held back. *)
LEMMA WrittenHeld ==
    ASSUME NEW d, Asking(d), NEW s \in Seq(Items), NEW e, e = [d EXCEPT !.telnet = Writing(s)]
    PROVE  Held(Written(e), d)
<1> DEFINE m == Len(s)
           Q(f) == f = [k \in 0 .. Len(e.telnet.out) |->
                          IF k = 0 THEN [e EXCEPT !.telnet.out = <<>>]
                          ELSE PassedOn(f[k - 1], e.telnet.out[k])]
           f == CHOOSE h : Q(h)
<1>0. m \in Nat /\ m \in 0 .. m
  OBVIOUS
<1>1. e.telnet.out = s /\ [e EXCEPT !.telnet.out = <<>>] = d
  <2>1. PICK w : w = Writing(s)
    OBVIOUS
  <2>2. w.out = s /\ [w EXCEPT !.out = <<>>] = Fresh
    BY <2>1, WritingFacts
  <2>3. d.telnet = Fresh /\ d = [sock |-> d.sock, telnet |-> d.telnet, up |-> d.up, proxy |-> d.proxy]
    BY DEF Asking
  <2>4. e.telnet = w /\ [e EXCEPT !.telnet.out = <<>>] = d
    BY <2>1, <2>2, <2>3, ReadAway
  <2> QED BY <2>2, <2>4
<1>2. Written(e) = f[m]
  <2>1. Written(e) = f[Len(e.telnet.out)]
    BY DEF Written
  <2> HIDE DEF f
  <2> QED BY <1>1, <2>1
<1>3. PICK g : Passes(g, d, s, m)
  BY <1>0, PassesExist
<1>4. Q(f)
  <2>1. Q(g)
    BY <1>1, <1>3 DEF Passes
  <2> QED BY <2>1
<1> HIDE DEF f
<1>5. \A k \in 0 .. m : f[k] = IF k = 0 THEN d ELSE PassedOn(f[k - 1], s[k])
  BY <1>1, <1>4
<1> DEFINE B == {k \in 0 .. m : ~Held(f[k], d)}
<1>6. ASSUME B # {} PROVE FALSE
  <2>1. PICK k \in B : \A j \in B : k <= j
    <3>1. B \in SUBSET Nat
      OBVIOUS
    <3> HIDE DEF B
    <3> QED BY <1>6, <3>1, LeastNumber
  <2>2. k # 0
    BY <1>0, <1>5, <2>1 DEF Held
  <2>3. k \in 1 .. m /\ k - 1 \in 0 .. m /\ k - 1 \notin B
    BY <1>0, <2>1, <2>2
  <2>4. PICK x \in Items : x = s[k]
    BY <2>3
  <2>5. PICK y : y = f[k - 1]
    OBVIOUS
  <2>6. Held(y, d) /\ f[k] = PassedOn(y, x)
    BY <1>5, <2>3, <2>4, <2>5
  <2>7. Held(PassedOn(y, x), y)
    BY <2>6, PassedOnHeld DEF Held
  <2>8. Held(f[k], d)
    BY <2>6, <2>7 DEF Held
  <2> QED BY <2>1, <2>8
<1>7. Held(f[m], d)
  BY <1>0, <1>6
<1> QED BY <1>2, <1>7

(* A request is one. *)
LEMMA RequestFacts ==
    ASSUME NEW x \in Names
    PROVE  Request(x) \in Requests /\ "request" \in DOMAIN Request(x)
BY DEF Request, Requests

(* A request is sent. *)
LEMMA SubFacts ==
    ASSUME NEW d, Asking(d), NEW x \in Requests
    PROVE  Asking(Sub(d, x)) /\ Sub(d, x).proxy = d.proxy
<1>1. PICK t : t = sk_tcp_write(d.sock, x)
  OBVIOUS
<1>2. Bounded(d.sock, Requests) /\ d.proxy \in Negotiating
      /\ (d.proxy.kind = "socks5" => d.proxy.state # "2")
  BY DEF Asking
<1>3. Bounded(t, Requests)
  BY <1>1, <1>2, TcpWriteFacts
<1>4. Sub(d, x) = [d EXCEPT !.sock = t]
  BY <1>1 DEF Sub
<1>5. Asking([d EXCEPT !.sock = t]) /\ [d EXCEPT !.sock = t].proxy = d.proxy
  BY <1>2, <1>3, AskingParts
<1> QED BY <1>4, <1>5

(* A reply is taken, or the state changes. *)
LEMMA ProxyFacts ==
    ASSUME NEW d, Asking(d), NEW st \in {"1", "3", "7"}, NEW n \in 0 .. Len(d.proxy.input)
    PROVE  /\ Asking(State(d, st)) /\ State(d, st).proxy = [d.proxy EXCEPT !.state = st]
           /\ Asking(Consume(d, n)) /\ Asking(plug_closing(d))
           /\ Consume(d, n).proxy.kind = d.proxy.kind
           /\ Consume(d, n).proxy.state = d.proxy.state
           /\ Len(Consume(d, n).proxy.input) = Len(d.proxy.input) - n
           /\ plug_closing(d).proxy = d.proxy
<1>1. Bounded(d.sock, Requests) /\ d.proxy \in Negotiating
      /\ (d.proxy.kind = "socks5" => d.proxy.state # "2")
  BY DEF Asking
<1>2. PICK p : p = [d.proxy EXCEPT !.state = st]
  OBVIOUS
<1>3. p \in Negotiating /\ p.state # "2"
  BY <1>1, <1>2 DEF Negotiating
<1>4. State(d, st) = [d EXCEPT !.proxy = p]
  BY <1>2 DEF State, Asking
<1>5. Asking(State(d, st)) /\ State(d, st).proxy = [d.proxy EXCEPT !.state = st]
  <2>1. Asking([d EXCEPT !.proxy = p]) /\ [d EXCEPT !.proxy = p].proxy = p
    BY <1>1, <1>3, AskingParts
  <2> QED BY <1>2, <1>4, <2>1
<1>6. PICK i \in Seq(STRING) : i = d.proxy.input
  BY <1>1 DEF Negotiating
<1>7. PICK r \in Seq(STRING) : r = SubSeq(i, n + 1, Len(i)) /\ Len(r) = Len(i) - n
  BY <1>6, PartOf
<1>8. PICK q : q = [d.proxy EXCEPT !.input = r]
  OBVIOUS
<1>9. /\ q \in Negotiating /\ q.state = d.proxy.state /\ q.kind = d.proxy.kind
      /\ q.input = r
  BY <1>1, <1>8 DEF Negotiating
<1>10. Consume(d, n) = [d EXCEPT !.proxy = q]
  BY <1>6, <1>7, <1>8 DEF Consume, Asking
<1>11. Asking([d EXCEPT !.proxy = q]) /\ [d EXCEPT !.proxy = q].proxy = q
  BY <1>1, <1>9, AskingParts
<1>12. Asking(plug_closing(d)) /\ plug_closing(d).proxy = d.proxy
  BY DEF plug_closing, Asking
<1> QED BY <1>5, <1>6, <1>7, <1>9, <1>10, <1>11, <1>12

(* The replies have not been taken in full: the negotiation goes on. *)
StillAsking(e, d, n) == Asking(e) /\ e.proxy.kind = d.proxy.kind /\ Taken(e) <= n

LEMMA Socks5RequestKeeps ==
    ASSUME NEW d, Asking(d), d.proxy.kind = "socks5"
    PROVE  StillAsking(socks5_request(d), d, Len(d.proxy.input) + 2)
<1>1. Request("connect") \in Requests
  BY RequestFacts DEF Names
<1>2. PICK e : e = Sub(d, Request("connect"))
  OBVIOUS
<1>3. Asking(e) /\ e.proxy = d.proxy
  BY <1>1, <1>2, SubFacts
<1>4. PICK g : g = State(e, "3")
  OBVIOUS
<1>5. Len(e.proxy.input) \in Nat
  BY <1>3 DEF Asking, Negotiating
<1>6. Asking(g) /\ g.proxy = [e.proxy EXCEPT !.state = "3"]
  <2>1. 0 \in 0 .. Len(e.proxy.input)
    BY <1>5
  <2> QED BY <1>3, <1>4, <2>1, ProxyFacts
<1>7. g.proxy.kind = d.proxy.kind /\ g.proxy.state = "3" /\ g.proxy.input = d.proxy.input
  BY <1>3, <1>6 DEF Asking, Negotiating
<1>8. Taken(g) = Len(d.proxy.input) + 2
  BY <1>7 DEF Taken, Used
<1>10. Taken(g) <= Len(d.proxy.input) + 2
  BY <1>3, <1>5, <1>8
<1>9. socks5_request(d) = g
  BY <1>2, <1>4 DEF socks5_request
<1> QED BY <1>6, <1>7, <1>9, <1>10 DEF StillAsking

(* What it has taken is a number. *)
LEMMA TakenFacts ==
    ASSUME NEW d, Asking(d)
    PROVE  /\ Taken(d) \in Nat /\ Len(d.proxy.input) \in Nat
           /\ Len(d.proxy.input) <= Taken(d)
           /\ (d.proxy.kind = "socks5" /\ d.proxy.state # "1"
                => Taken(d) = Len(d.proxy.input) + 2)
<1>1. PICK n \in Nat : n = Len(d.proxy.input)
  BY DEF Asking, Negotiating
<1>2. PICK u \in Nat : u = Used(d) /\ (d.proxy.kind = "socks5" /\ d.proxy.state # "1" => u = 2)
  <2>1. Used(d) \in {0, 2}
    BY DEF Used
  <2>2. d.proxy.kind = "socks5" /\ d.proxy.state # "1" => Used(d) = 2
    BY DEF Used
  <2> QED BY <2>1, <2>2
<1>3. Taken(d) = n + u
  BY <1>1, <1>2 DEF Taken
<1> QED BY <1>1, <1>2, <1>3

(* No reply of SOCKS is taken in full with less than its bytes. *)
LEMMA NegotiateKeeps ==
    ASSUME NEW d, Asking(d), d.proxy.kind \in {"socks4", "socks5"},
           Taken(d) < Shortest[d.proxy.kind]
    PROVE  StillAsking(negotiate(d), d, Taken(d))
<1> DEFINE l == Len(d.proxy.input)
           kind == d.proxy.kind
           state == d.proxy.state
<1>1. l \in Nat /\ kind \in {"socks4", "socks5"} /\ state \in {"1", "2", "3", "7"}
      /\ (kind = "socks5" => state # "2")
  BY DEF Asking, Negotiating
<1>2. Taken(d) \in Nat /\ l <= Taken(d)
      /\ (kind = "socks5" /\ state # "1" => Taken(d) = l + 2)
  BY TakenFacts
<1>3. StillAsking(d, d, Taken(d)) /\ StillAsking(plug_closing(d), d, Taken(d))
  <2>1. 0 \in 0 .. l
    BY <1>1
  <2>2. Asking(plug_closing(d)) /\ plug_closing(d).proxy = d.proxy
    BY <2>1, ProxyFacts
  <2> QED BY <1>2, <2>2 DEF StillAsking, Taken, Used
<1>4. CASE kind = "socks4"
  <2>1. l < 8
    BY <1>1, <1>2, <1>4 DEF Shortest
  <2>2. negotiate(d) = d
    BY <1>4, <2>1 DEF negotiate, socks4_reply
  <2> QED BY <1>3, <2>2
<1>5. CASE kind = "socks5" /\ state = "3"
  <2>1. l < 5
    BY <1>1, <1>2, <1>5 DEF Shortest
  <2>2. negotiate(d) = d
    BY <1>5, <2>1 DEF negotiate, socks5_reply
  <2> QED BY <1>3, <2>2
<1>6. CASE kind = "socks5" /\ state = "7"
  <2>1. negotiate(d) = socks5_password(d)
    BY <1>6 DEF negotiate
  <2>2. CASE l < 2 \/ d.proxy.input[1] # "1" \/ d.proxy.input[2] # "0"
    <3>1. negotiate(d) \in {d, plug_closing(d)}
      BY <2>1, <2>2 DEF socks5_password
    <3> QED BY <1>3, <3>1
  <2>3. CASE ~(l < 2 \/ d.proxy.input[1] # "1" \/ d.proxy.input[2] # "0")
    <3>1. PICK e : e = Consume(d, 2)
      OBVIOUS
    <3>2. 2 \in 0 .. l
      BY <1>1, <2>3
    <3>3. Asking(e) /\ e.proxy.kind = kind /\ Len(e.proxy.input) = l - 2
      BY <3>1, <3>2, ProxyFacts
    <3>4. PICK g : g = socks5_request(e)
      OBVIOUS
    <3>5. StillAsking(g, e, l - 2 + 2)
      BY <1>6, <3>3, <3>4, Socks5RequestKeeps
    <3>6. negotiate(d) = g
      BY <2>1, <2>3, <3>1, <3>4 DEF socks5_password
    <3>7. Taken(g) <= Taken(d)
      <4>1. Taken(g) <= l
        BY <1>1, <3>5 DEF StillAsking
      <4>2. Taken(d) = l + 2
        BY <1>2, <1>6
      <4>3. Taken(g) \in Nat
        BY <3>5, TakenFacts DEF StillAsking
      <4> QED BY <1>1, <4>1, <4>2, <4>3
    <3> QED BY <3>3, <3>5, <3>6, <3>7 DEF StillAsking
  <2> QED BY <2>2, <2>3
<1>7. CASE kind = "socks5" /\ state = "1"
  <2>1. negotiate(d) = socks5_method(d)
    BY <1>7 DEF negotiate
  <2>2. CASE l < 2 \/ d.proxy.input[1] # "5"
    <3>1. negotiate(d) \in {d, plug_closing(d)}
      BY <2>1, <2>2 DEF socks5_method
    <3> QED BY <1>3, <3>1
  <2>3. CASE ~(l < 2 \/ d.proxy.input[1] # "5")
    <3>1. PICK e : e = Consume(d, 2)
      OBVIOUS
    <3>2. 2 \in 0 .. l
      BY <1>1, <2>3
    <3>3. Asking(e) /\ e.proxy.kind = kind /\ Len(e.proxy.input) = l - 2
      BY <3>1, <3>2, ProxyFacts
    <3>4. Taken(d) = l
      BY <1>1, <1>7 DEF Taken, Used
    <3>5. CASE d.proxy.input[2] = "0"
      <4>1. PICK g : g = socks5_request(e)
        OBVIOUS
      <4>2. StillAsking(g, e, l - 2 + 2)
        BY <1>7, <3>3, <4>1, Socks5RequestKeeps
      <4>3. negotiate(d) = g
        BY <2>1, <2>3, <3>1, <3>5, <4>1 DEF socks5_method
      <4>4. l - 2 + 2 = Taken(d)
        BY <1>1, <3>4
      <4> QED BY <3>3, <4>2, <4>3, <4>4 DEF StillAsking
    <3>6. CASE d.proxy.input[2] # "0" /\ d.proxy.input[2] = "2" /\ d.proxy.auth
      <4>1. PICK g : g = Sub(e, Request("password"))
        OBVIOUS
      <4>2. Asking(g) /\ g.proxy = e.proxy
        <5>1. Request("password") \in Requests
          BY RequestFacts DEF Names
        <5> QED BY <3>3, <4>1, <5>1, SubFacts
      <4>3. PICK h : h = State(g, "7")
        OBVIOUS
      <4>4. Asking(h) /\ h.proxy = [g.proxy EXCEPT !.state = "7"]
        <5>1. Len(g.proxy.input) \in Nat /\ 0 \in 0 .. Len(g.proxy.input)
          BY <4>2 DEF Asking, Negotiating
        <5> QED BY <4>2, <4>3, <5>1, ProxyFacts
      <4>5. h.proxy.kind = kind /\ h.proxy.state = "7" /\ h.proxy.input = e.proxy.input
        BY <3>3, <4>2, <4>4 DEF Asking, Negotiating
      <4>6. Taken(h) = l - 2 + 2
        BY <1>7, <3>3, <4>5 DEF Taken, Used
      <4>7. negotiate(d) = h
        <5>1. socks5_method(d) = State(Sub(Consume(d, 2), Request("password")), "7")
          BY <2>3, <3>6 DEF socks5_method
        <5> QED BY <2>1, <3>1, <4>1, <4>3, <5>1
      <4>8. Taken(h) <= Taken(d)
        BY <1>1, <3>4, <4>6
      <4> QED BY <4>4, <4>5, <4>7, <4>8 DEF StillAsking
    <3>7. CASE d.proxy.input[2] # "0" /\ ~(d.proxy.input[2] = "2" /\ d.proxy.auth)
      <4>1. negotiate(d) = plug_closing(d)
        BY <2>1, <2>3, <3>7 DEF socks5_method
      <4> QED BY <1>3, <4>1
    <3> QED BY <3>5, <3>6, <3>7
  <2> QED BY <2>2, <2>3
<1> QED BY <1>1, <1>4, <1>5, <1>6, <1>7

(* The same, as bytes arrive. *)
LEMMA ReceiveKeeps ==
    ASSUME NEW d, Asking(d), d.proxy.kind \in {"socks4", "socks5"}, NEW b \in Seq(STRING),
           Taken(d) + Len(b) < Shortest[d.proxy.kind], NEW urgent
    PROVE  StillAsking(plug_proxy_receive(d, urgent, b), d, Taken(d) + Len(b))
<1>1. PICK i \in Seq(STRING) : i = d.proxy.input
  BY DEF Asking, Negotiating
<1>2. PICK j \in Seq(STRING) : j = i \o b /\ Len(j) = Len(i) + Len(b)
  <2>1. i \o b \in Seq(STRING) /\ Len(i \o b) = Len(i) + Len(b)
    OBVIOUS
  <2> QED BY <2>1
<1>3. Bounded(d.sock, Requests) /\ d.proxy \in Negotiating
      /\ (d.proxy.kind = "socks5" => d.proxy.state # "2")
  BY DEF Asking
<1>4. PICK p : p = [d.proxy EXCEPT !.input = j]
  OBVIOUS
<1>5. /\ p \in Negotiating /\ p.kind = d.proxy.kind /\ p.state = d.proxy.state
      /\ p.input = j
  BY <1>3, <1>4 DEF Negotiating
<1>6. PICK e : e = [d EXCEPT !.proxy = p]
  OBVIOUS
<1>7. Asking(e) /\ e.proxy = p
  BY <1>3, <1>5, <1>6, AskingParts
<1>8. Taken(e) = Taken(d) + Len(b)
  <2>1. PICK x \in Nat : x = Len(i)
    OBVIOUS
  <2>2. PICK y \in Nat : y = Len(b)
    OBVIOUS
  <2>3. Used(e) = Used(d) /\ Used(d) \in {0, 2}
    BY <1>5, <1>7 DEF Used
  <2>4. PICK u \in Nat : u = Used(d)
    BY <2>3
  <2>5. Taken(e) = x + y + u /\ Taken(d) = x + u
    BY <1>1, <1>2, <1>5, <1>7, <2>1, <2>2, <2>3, <2>4 DEF Taken
  <2>6. x + y + u = x + u + y
    OBVIOUS
  <2> QED BY <2>2, <2>5, <2>6
<1>9. StillAsking(negotiate(e), e, Taken(e))
  BY <1>5, <1>7, <1>8, NegotiateKeeps
<1>10. plug_proxy_receive(d, urgent, b) = negotiate(e)
  <2>1. d.proxy.state # "ACTIVE"
    BY <1>3 DEF Negotiating
  <2>2. [d EXCEPT !.proxy.input = @ \o b] = e
    BY <1>1, <1>2, <1>4, <1>6 DEF Asking
  <2> QED BY <2>1, <2>2 DEF plug_proxy_receive
<1> QED BY <1>5, <1>7, <1>8, <1>9, <1>10 DEF StillAsking

-----------------------------------------------------------------------------
(* The invariant: while the way is not open, only requests have been sent, and what the
   negotiation has taken, with what is yet to be received, is no more than the peer has
   said. *)
Waiting ==
    /\ Asking(client) /\ client.proxy.kind = scenario.kind /\ tx \in Seq(Requests)
    /\ Taken(client) + Len(rx) <= Heard(scenario)[said]
GrantInv ==
    /\ scenario \in Scenarios /\ said \in 0 .. Len(scenario.items)
    /\ rx \in Seq(STRING) /\ mark \in 0 .. Len(rx)
    /\ said < scenario.granted => Waiting

(* What is assumed of the scenarios. *)
LEMMA ScenarioFacts ==
    ASSUME NEW sc \in Scenarios
    PROVE  /\ Scripted(sc) /\ Sums(Heard(sc), sc, Len(sc.items))
           /\ sc.kind \in {"none", "http", "socks4", "socks5", "telnet"}
           /\ sc.auth \in BOOLEAN /\ sc.addrs \in Seq(Addresses)
           /\ \A n \in 0 .. Len(sc.items) :
                 /\ Heard(sc)[n] \in Nat
                 /\ n < sc.granted => Heard(sc)[n] < Shortest[sc.kind]
<1>1. /\ sc.items \in Seq(Range(sc.items)) /\ sc.granted \in 0 .. Len(sc.items)
      /\ \A item \in Range(sc.items) : item.bytes \in Seq(STRING)
      /\ sc.kind \in {"none", "http", "socks4", "socks5", "telnet"}
      /\ sc.auth \in BOOLEAN /\ sc.addrs \in Seq(Addresses)
  BY ScenarioAssumption DEF ScenarioType
<1>2. \A i \in 1 .. Len(sc.items) : sc.items[i].bytes \in Seq(STRING)
  <2>1. \A i \in 1 .. Len(sc.items) : sc.items[i] \in Range(sc.items)
    BY <1>1
  <2> QED BY <1>1, <2>1
<1>3. Scripted(sc)
  BY <1>1, <1>2 DEF Scripted
<1>4. Sums(Heard(sc), sc, Len(sc.items))
  BY <1>3, HeardSums
<1>5. \A n \in 0 .. Len(sc.items) : Heard(sc)[n] \in Nat
  BY <1>4 DEF Sums
<1>6. Len(sc.items) \in Nat
  BY <1>1
<1>7. ASSUME NEW n \in 0 .. Len(sc.items), n < sc.granted
      PROVE  Heard(sc)[n] < Shortest[sc.kind]
  <2>1. /\ sc.granted > 0 /\ sc.granted - 1 \in n .. Len(sc.items)
        /\ n \in 0 .. Len(sc.items) /\ sc.granted - 1 \in 0 .. Len(sc.items)
    BY <1>1, <1>6, <1>7
  <2>2. Heard(sc)[sc.granted - 1] < Shortest[sc.kind]
    BY <2>1, GrantAssumption
  <2>3. Heard(sc)[n] <= Heard(sc)[sc.granted - 1]
    BY <1>3, <1>4, <1>6, <2>1, SumsGrow
  <2>4. Shortest[sc.kind] \in Nat
    BY <1>1 DEF Shortest
  <2> QED BY <1>5, <2>1, <2>2, <2>3, <2>4
<1> QED BY <1>1, <1>3, <1>4, <1>5, <1>7

(* A socket that is made. *)
LEMMA NewSocket ==
    ASSUME NEW addrs \in Seq(Addresses)
    PROVE  Bounded(sk_new(addrs), Requests)
<1> DEFINE usable == SelectInSeq(addrs, LAMBDA a : a # "unusable")
<1>1. usable \in Nat
  <2> DEFINE I == {i \in 1 .. Len(addrs) : addrs[i] # "unusable"}
  <2>1. I \in SUBSET Nat
    OBVIOUS
  <2>2. usable = IF I # {} THEN Min(I) ELSE 0
    BY DEF SelectInSeq
  <2>3. CASE I = {}
    BY <2>2, <2>3
  <2>4. CASE I # {}
    <3> HIDE DEF I
    <3>1. \E k \in I : \A j \in I : k <= j
      BY <2>1, <2>4, LeastNumber
    <3>2. Min(I) \in I
      BY <3>1 DEF Min
    <3> QED BY <2>1, <2>2, <2>4, <3>2
  <2> QED BY <2>3, <2>4
<1>2. Len(addrs) \in Nat
  OBVIOUS
<1>3. PICK n \in Nat : n = IF usable = 0 THEN Len(addrs) ELSE usable
  BY <1>1, <1>2
<1>4. PICK b \in BOOLEAN : b = (usable # 1)
  OBVIOUS
<1>5. PICK e \in Seq(Requests) : e = <<>>
  <2>1. <<>> \in Seq(Requests)
    OBVIOUS
  <2> QED BY <2>1
<1>6. sk_new(addrs) = [addrs |-> addrs, addr |-> n, error |-> b,
                   connected |-> FALSE, writable |-> FALSE, oob |-> e,
                   output |-> e, pending_error |-> FALSE, wire |-> e,
                   blocked |-> TRUE, reset |-> FALSE]
  BY <1>3, <1>4, <1>5 DEF sk_new
<1>7. Len(e) = 0 /\ 0 <= SendRoom
  BY <1>5, SendRoomAssumption
<1> QED BY <1>6, <1>7 DEF Bounded, Sockets

(* A connection that is made, before its state is changed. *)
Opened(d) ==
    /\ d = [sock |-> d.sock, telnet |-> d.telnet, up |-> d.up, proxy |-> d.proxy]
    /\ "state" \in DOMAIN d.proxy

(* Sending a request first, or changing the state first. *)
LEMMA SubState ==
    ASSUME NEW d, Opened(d), NEW x, NEW st
    PROVE  Opened(Sub(d, x)) /\ State(Sub(d, x), st) = Sub(State(d, st), x)
<1>1. PICK t : t = sk_tcp_write(d.sock, x)
  OBVIOUS
<1>2. PICK p : p = [d.proxy EXCEPT !.state = st]
  OBVIOUS
<1>3. Sub(d, x) = [sock |-> t, telnet |-> d.telnet, up |-> d.up, proxy |-> d.proxy]
  BY <1>1 DEF Sub, Opened
<1>4. State(d, st) = [sock |-> d.sock, telnet |-> d.telnet, up |-> d.up, proxy |-> p]
  BY <1>2 DEF State, Opened
<1>5. State(Sub(d, x), st) = [sock |-> t, telnet |-> d.telnet, up |-> d.up, proxy |-> p]
  BY <1>2, <1>3 DEF State
<1>6. Sub(State(d, st), x) = [sock |-> t, telnet |-> d.telnet, up |-> d.up, proxy |-> p]
  BY <1>1, <1>4 DEF Sub
<1>7. Opened(Sub(d, x))
  BY <1>3 DEF Opened
<1> QED BY <1>5, <1>6, <1>7

(* A proxy whose state has changed. *)
LEMMA OtherState ==
    ASSUME NEW k, NEW a, NEW i, NEW o, NEW b, NEW st, NEW st2,
           NEW p, p = [kind |-> k, auth |-> a, input |-> i, output |-> o, oob |-> b, state |-> st]
    PROVE  [p EXCEPT !.state = st2]
              = [kind |-> k, auth |-> a, input |-> i, output |-> o, oob |-> b, state |-> st2]
OBVIOUS

(* The negotiation begins with requests. *)
LEMMA StartedFacts ==
    ASSUME NEW addrs \in Seq(Addresses), NEW kind \in {"http", "socks4", "socks5", "telnet"},
           NEW auth \in BOOLEAN
    PROVE  LET d == Started(NewConnection(addrs, kind, auth, "size"))
           IN  Asking(d) /\ d.proxy.kind = kind /\ Taken(d) = 0
<1>1. PICK t : t = sk_new(addrs)
  OBVIOUS
<1>2. PICK e : e \in Seq(STRING) /\ e \in Seq(Letters) /\ e = <<>>
  <2>1. <<>> \in Seq(STRING) /\ <<>> \in Seq(Letters)
    OBVIOUS
  <2> QED BY <2>1
<1>3. PICK d : d = NewConnection(addrs, kind, auth, "size")
  OBVIOUS
<1>0. PICK no : no = FALSE
  OBVIOUS
<1>4. PICK p : p = [kind |-> kind, auth |-> auth, input |-> e, output |-> e,
                    oob |-> no, state |-> "NEW"]
  OBVIOUS
<1>5. PICK q : q = [kind |-> kind, auth |-> auth, input |-> e, output |-> e,
                    oob |-> no, state |-> "1"]
  OBVIOUS
<1>6. PICK f : f = Fresh
  OBVIOUS
<1>7. d = [sock |-> t, telnet |-> f, up |-> TRUE, proxy |-> p]
  BY <1>0, <1>1, <1>2, <1>3, <1>4, <1>6 DEF NewConnection, Fresh
<1>8. q = [p EXCEPT !.state = "1"]
  BY <1>4, <1>5, OtherState
<1>9. PICK g : g = State(d, "1")
  OBVIOUS
<1>10. g = [sock |-> t, telnet |-> f, up |-> TRUE, proxy |-> q]
  BY <1>7, <1>8, <1>9 DEF State
<1>11. Opened(d) /\ d.proxy = p
  BY <1>4, <1>7 DEF Opened
<1>12. Bounded(t, Requests)
  BY <1>1, NewSocket
<1>13. q \in Negotiating /\ q.state = "1" /\ q.kind = kind /\ q.input = e
  BY <1>0, <1>2, <1>5 DEF Negotiating
<1>14. t \in Sockets(Requests)
  BY <1>12 DEF Bounded
<1>15. Asking(g) /\ g.proxy = q
  BY <1>6, <1>10, <1>12, <1>13, <1>14 DEF Asking
<1> DEFINE Begun(s) == Asking(s) /\ s.proxy = q
<1>16. ASSUME NEW a, Opened(a), NEW x \in Requests, Begun(State(a, "1"))
       PROVE  Opened(Sub(a, x)) /\ Begun(State(Sub(a, x), "1"))
  BY <1>16, SubState, SubFacts
<1>17. \A x \in Names : Request(x) \in Requests
  BY RequestFacts
<1>18. Begun(g)
  BY <1>15
<1> HIDE DEF Begun
<1>19. \A s : Begun(s) => Asking(s) /\ s.proxy.kind = kind /\ Taken(s) = 0
  <2>1. Len(e) = 0
    BY <1>2
  <2>2. SUFFICES ASSUME NEW s, Begun(s)
                 PROVE  Asking(s) /\ s.proxy.kind = kind /\ Taken(s) = 0
    OBVIOUS
  <2>3. Asking(s) /\ s.proxy = q
    BY <2>2 DEF Begun
  <2>4. Used(s) = 0
    BY <1>13, <2>3 DEF Used
  <2>5. Taken(s) = 0 + 0
    BY <1>13, <2>1, <2>3, <2>4 DEF Taken
  <2> QED BY <1>13, <2>3, <2>5
<1>20. Begun(Started(d))
  <2>1. ASSUME NEW x \in Names
        PROVE  Opened(Sub(d, Request(x))) /\ Begun(State(Sub(d, Request(x)), "1"))
    BY <1>9, <1>11, <1>16, <1>17, <1>18
  <2>2. CASE kind = "telnet"
    <3>1. Started(d) = State(Sub(d, Request("command")), "1")
      BY <1>4, <1>11, <2>2 DEF Started, TelnetCommand
    <3> QED BY <2>1, <3>1 DEF Names
  <2>3. CASE kind = "socks4"
    <3>1. Started(d) = State(Sub(d, Request("connect")), "1")
      BY <1>4, <1>11, <2>3 DEF Started, Socks4Request
    <3> QED BY <2>1, <3>1 DEF Names
  <2>4. CASE kind = "socks5"
    <3>1. Started(d) = State(Sub(d, Request("methods")), "1")
      BY <1>4, <1>11, <2>4 DEF Started, Socks5Methods
    <3> QED BY <2>1, <3>1 DEF Names
  <2>5. CASE kind = "http"
    <3>1. PICK a : a = Sub(d, Request("CONNECT"))
      OBVIOUS
    <3>2. Opened(a) /\ Begun(State(a, "1"))
      BY <2>1, <3>1 DEF Names
    <3>3. PICK b : b = Sub(a, Request("Authorization"))
      OBVIOUS
    <3>4. Request("Authorization") \in Requests /\ Request("end") \in Requests
      BY <1>17 DEF Names
    <3>5. Opened(b) /\ Begun(State(b, "1"))
      BY <1>16, <3>2, <3>3, <3>4
    <3>6. Begun(State(Sub(a, Request("end")), "1")) /\ Begun(State(Sub(b, Request("end")), "1"))
      BY <1>16, <3>2, <3>4, <3>5
    <3>7. Started(d) = HttpRequest(d)
      BY <1>4, <1>11, <2>5 DEF Started
    <3>8. HttpRequest(d) \in {State(Sub(a, Request("end")), "1"), State(Sub(b, Request("end")), "1")}
      BY <3>1, <3>3 DEF HttpRequest
    <3> QED BY <3>6, <3>7, <3>8
  <2> QED BY <2>2, <2>3, <2>4, <2>5
<1> QED BY <1>3, <1>19, <1>20

(* It holds at the start. *)
LEMMA InitGrant ==
    ASSUME Init
    PROVE  GrantInv
<1> DEFINE d == Started(NewConnection(scenario.addrs, scenario.kind, scenario.auth, "size"))
<1>1. /\ scenario \in Scenarios /\ rx = <<>> /\ mark = 0 /\ said = 0 /\ tx = <<>>
      /\ client \in {d, plug_closing(d)}
  BY DEF Init
<1>2. /\ Scripted(scenario) /\ Sums(Heard(scenario), scenario, Len(scenario.items))
      /\ scenario.kind \in {"none", "http", "socks4", "socks5", "telnet"}
      /\ scenario.auth \in BOOLEAN /\ scenario.addrs \in Seq(Addresses)
      /\ \A n \in 0 .. Len(scenario.items) :
            n < scenario.granted => Heard(scenario)[n] < Shortest[scenario.kind]
  BY <1>1, ScenarioFacts
<1>3. Len(scenario.items) \in Nat
  BY <1>2 DEF Scripted
<1>4. Heard(scenario)[0] = 0
  BY <1>2 DEF Sums
<1>5. ASSUME said < scenario.granted PROVE Waiting
  <2>1. scenario.kind # "none"
    <3>1. ASSUME scenario.kind = "none" PROVE FALSE
      <4>1. Heard(scenario)[0] < Shortest[scenario.kind]
        BY <1>1, <1>2, <1>3, <1>5
      <4>2. Shortest[scenario.kind] = 0
        BY <3>1 DEF Shortest
      <4> QED BY <1>4, <4>1, <4>2
    <3> QED BY <3>1
  <2>2. Asking(d) /\ d.proxy.kind = scenario.kind /\ Taken(d) = 0
    BY <1>2, <2>1, StartedFacts
  <2> HIDE DEF d
  <2>3. Asking(plug_closing(d)) /\ plug_closing(d).proxy = d.proxy
    <3>1. 0 \in 0 .. Len(d.proxy.input)
      BY <2>2, TakenFacts
    <3> QED BY <2>2, <3>1, ProxyFacts
  <2>4. Asking(client) /\ client.proxy = d.proxy
    BY <1>1, <2>2, <2>3
  <2>5. Taken(client) = 0
    BY <2>2, <2>4 DEF Taken, Used
  <2>6. tx \in Seq(Requests) /\ Len(rx) = 0
    BY <1>1
  <2> QED BY <1>1, <1>4, <2>2, <2>4, <2>5, <2>6 DEF Waiting
<1>6. rx \in Seq(STRING) /\ mark \in 0 .. Len(rx) /\ said \in 0 .. Len(scenario.items)
  BY <1>1, <1>3
<1> QED BY <1>1, <1>5, <1>6 DEF GrantInv

(* Where the peer has said nothing new, a step is to keep what has been taken and sent. *)
LEMMA Kept ==
    ASSUME GrantInv, scenario' = scenario, said' = said,
           rx' \in Seq(STRING), mark' \in 0 .. Len(rx'),
           ASSUME said < scenario.granted, Waiting,
                  Heard(scenario)[said] \in Nat,
                  Heard(scenario)[said] < Shortest[client.proxy.kind]
           PROVE  /\ Asking(client') /\ client'.proxy.kind = client.proxy.kind
                  /\ tx' \in Seq(Requests)
                  /\ Taken(client') + Len(rx') <= Heard(scenario)[said]
    PROVE  GrantInv'
<1>1. ASSUME said < scenario.granted PROVE Waiting'
  <2>1. Waiting
    BY <1>1 DEF GrantInv
  <2>2. Heard(scenario)[said] \in Nat /\ Heard(scenario)[said] < Shortest[client.proxy.kind]
    BY <1>1, <2>1, ScenarioFacts DEF GrantInv, Waiting
  <2>3. /\ Asking(client') /\ client'.proxy.kind = client.proxy.kind
        /\ tx' \in Seq(Requests)
        /\ Taken(client') + Len(rx') <= Heard(scenario)[said]
    BY <1>1, <2>1, <2>2
  <2> QED BY <2>1, <2>3 DEF Waiting
<1> QED BY <1>1 DEF GrantInv

(* ... and where nothing is received, what the negotiation has taken. *)
LEMMA KeptUnread ==
    ASSUME GrantInv, UNCHANGED <<scenario, rx, mark, said>>,
           ASSUME said < scenario.granted, Waiting
           PROVE  /\ Asking(client') /\ client'.proxy.kind = client.proxy.kind
                  /\ client'.proxy.state = client.proxy.state
                  /\ client'.proxy.input = client.proxy.input
                  /\ tx' \in Seq(Requests)
    PROVE  GrantInv'
<1>1. /\ scenario' = scenario /\ said' = said /\ rx' = rx /\ rx' \in Seq(STRING)
      /\ mark' \in 0 .. Len(rx')
  BY DEF GrantInv
<1>2. ASSUME said < scenario.granted, Waiting
      PROVE  /\ Asking(client') /\ client'.proxy.kind = client.proxy.kind
             /\ tx' \in Seq(Requests)
             /\ Taken(client') + Len(rx') <= Heard(scenario)[said]
  <2>1. /\ Asking(client') /\ client'.proxy.kind = client.proxy.kind
        /\ client'.proxy.state = client.proxy.state
        /\ client'.proxy.input = client.proxy.input
        /\ tx' \in Seq(Requests)
    BY <1>2
  <2>2. Taken(client') = Taken(client)
    BY <2>1 DEF Taken, Used
  <2> QED BY <1>1, <1>2, <2>1, <2>2 DEF Waiting
<1> QED BY <1>1, <1>2, Kept

(* A step that changes the socket. *)
LEMMA KeptSocket ==
    ASSUME GrantInv, UNCHANGED <<scenario, rx, mark, said>>, NEW f,
           client' \in {[client EXCEPT !.sock = f], plug_closing([client EXCEPT !.sock = f])},
           Waiting => Bounded(f, Requests) /\ tx' \in Seq(Requests)
    PROVE  GrantInv'
<1>1. ASSUME said < scenario.granted, Waiting
      PROVE  /\ Asking(client') /\ client'.proxy.kind = client.proxy.kind
             /\ client'.proxy.state = client.proxy.state
             /\ client'.proxy.input = client.proxy.input
             /\ tx' \in Seq(Requests)
  <2>1. Asking(client) /\ Bounded(f, Requests) /\ tx' \in Seq(Requests)
    BY <1>1 DEF Waiting
  <2>2. PICK d : d = [client EXCEPT !.sock = f]
    OBVIOUS
  <2>3. /\ client.proxy \in Negotiating
        /\ (client.proxy.kind = "socks5" => client.proxy.state # "2")
    BY <2>1 DEF Asking
  <2>4. Asking(d) /\ d.proxy = client.proxy
    BY <2>1, <2>2, <2>3, AskingParts
  <2>5. Asking(plug_closing(d)) /\ plug_closing(d).proxy = d.proxy
    <3>1. 0 \in 0 .. Len(d.proxy.input)
      BY <2>4, TakenFacts
    <3> QED BY <2>4, <3>1, ProxyFacts
  <2> QED BY <2>1, <2>2, <2>4, <2>5
<1> QED BY <1>1, KeptUnread

(* The socket of a connection that waits. *)
LEMMA WaitingSock ==
    ASSUME Waiting
    PROVE  /\ client.sock \in Sockets(Requests) /\ Len(client.sock.wire) <= SendRoom
           /\ Bounded(client.sock, Requests) /\ tx \in Seq(Requests)
           /\ client = [client EXCEPT !.sock = client.sock]
BY DEF Waiting, Asking, Bounded

(* Connecting. *)
LEMMA ConnectGrant ==
    ASSUME GrantInv, Connect
    PROVE  GrantInv'
<1>0. PICK f : f = Connected(Sock)
  OBVIOUS
<1>1. client' = [client EXCEPT !.sock = f] /\ UNCHANGED <<scenario, rx, mark, said, tx>>
  BY <1>0 DEF Connect, Sock
<1>2. ASSUME Waiting PROVE Bounded(f, Requests) /\ tx' \in Seq(Requests)
  BY <1>0, <1>1, <1>2, WaitingSock DEF Connected, Sock, Bounded, Sockets
<1>3. Waiting => Bounded(f, Requests) /\ tx' \in Seq(Requests)
  BY <1>2
<1> QED BY <1>1, <1>3, KeptSocket

LEMMA ConnectFailsGrant ==
    ASSUME GrantInv, ConnectFails
    PROVE  GrantInv'
<1>0. PICK f : f = FallBack(Sock)
  OBVIOUS
<1>1. /\ client' \in {[client EXCEPT !.sock = f], plug_closing([client EXCEPT !.sock = f])}
      /\ UNCHANGED <<scenario, rx, mark, said, tx>>
  BY <1>0 DEF ConnectFails, Sock
<1>2. ASSUME Waiting PROVE Bounded(f, Requests) /\ tx' \in Seq(Requests)
  <2>1. PICK s : s = client.sock
    OBVIOUS
  <2>2. Bounded(s, Requests) /\ s.addrs \in Seq(Addresses) /\ Len(s.addrs) \in Nat
    BY <1>2, <2>1, WaitingSock DEF Bounded, Sockets
  <2>3. PICK n \in Nat : n = Len(s.addrs)
    BY <2>2
  <2>4. PICK t : t = [s EXCEPT !.addr = n]
    OBVIOUS
  <2>5. Bounded(t, Requests) /\ Bounded([t EXCEPT !.error = TRUE], Requests)
    BY <2>2, <2>4 DEF Bounded, Sockets
  <2>6. f \in {s, t, [t EXCEPT !.error = TRUE]}
    <3>1. PICK b \in BOOLEAN :
            b = (s.error \/ \E i \in s.addr + 1 .. n : s.addrs[i] = "unusable")
      OBVIOUS
    <3>2. f = s \/ f = [[s EXCEPT !.error = b] EXCEPT !.addr = n]
      BY <1>0, <2>1, <2>3, <3>1 DEF FallBack, try_connect, Sock
    <3>3. s.error \in BOOLEAN /\ s = [s EXCEPT !.error = s.error]
      BY <2>2 DEF Bounded, Sockets
    <3>4. b = s.error \/ b = TRUE
      BY <3>1, <3>3
    <3> QED BY <2>2, <2>4, <3>2, <3>3, <3>4 DEF Bounded, Sockets
  <2> QED BY <1>1, <1>2, <2>2, <2>5, <2>6, WaitingSock
<1>3. Waiting => Bounded(f, Requests) /\ tx' \in Seq(Requests)
  BY <1>2
<1> QED BY <1>1, <1>3, KeptSocket

(* FD_WRITE. *)
LEMMA WritableGrant ==
    ASSUME GrantInv, Writable
    PROVE  GrantInv'
<1>0. PICK f : f = MayWrite(Sock)
  OBVIOUS
<1>1. client' = [client EXCEPT !.sock = f] /\ UNCHANGED <<scenario, rx, mark, said, tx>>
  BY <1>0 DEF Writable, Sock
<1>2. ASSUME Waiting PROVE Bounded(f, Requests) /\ tx' \in Seq(Requests)
  <2>1. PICK s : s = [client.sock EXCEPT !.writable = TRUE, !.blocked = FALSE]
    OBVIOUS
  <2>2. Bounded(s, Requests)
    BY <1>2, <2>1, WaitingSock DEF Bounded, Sockets
  <2>3. f = try_send(s)
    BY <1>0, <2>1 DEF MayWrite, Sock
  <2> QED BY <1>1, <1>2, <2>2, <2>3, WaitingSock, TrySendFacts
<1>3. Waiting => Bounded(f, Requests) /\ tx' \in Seq(Requests)
  BY <1>2
<1> QED BY <1>1, <1>3, KeptSocket

(* The peer has said something, and its first byte is a reply of SOCKS. *)
LEMMA OnlySocks ==
    ASSUME NEW d, Asking(d), Shortest[d.proxy.kind] > 1
    PROVE  d.proxy.kind \in {"socks4", "socks5"}
<1>1. d.proxy.kind \in {"http", "socks4", "socks5", "telnet"}
  BY DEF Asking, Negotiating
<1>2. Shortest["http"] = 1 /\ Shortest["telnet"] = 1
  BY DEF Shortest
<1> QED BY <1>1, <1>2

(* FD_READ. *)
LEMMA ReceiveGrant ==
    ASSUME GrantInv, Receive
    PROVE  GrantInv'
<1>1. PICK n \in Segment :
         /\ client' = plug_proxy_receive(client, mark > 1, SubSeq(rx, 1, n))
         /\ rx' = SubSeq(rx, n + 1, Len(rx))
         /\ mark' = IF mark > n THEN mark - n ELSE 0
  BY DEF Receive
<1>2. scenario' = scenario /\ said' = said /\ tx' = tx
  BY DEF Receive
<1>3. PICK r \in Seq(STRING) : r = rx
  BY DEF GrantInv
<1>4. PICK l \in Nat : l = Len(r)
  BY <1>3
<1>5. mark \in 0 .. l /\ n \in 1 .. l
  <2>1. mark \in 0 .. l
    BY <1>3, <1>4 DEF GrantInv
  <2>2. n \in 1 .. IF mark > 1 THEN mark - 1 ELSE l
    BY <1>1, <1>3, <1>4 DEF Segment
  <2>3. CASE mark > 1
    BY <2>1, <2>2, <2>3
  <2>4. CASE ~(mark > 1)
    BY <2>1, <2>2, <2>4
  <2> QED BY <2>3, <2>4
<1>6. PICK b \in Seq(STRING) : b = SubSeq(r, 1, n) /\ Len(b) = n
  <2>1. SubSeq(r, 1, n) \in Seq(STRING) /\ Len(SubSeq(r, 1, n)) = n
    BY <1>4, <1>5, PartOf
  <2> QED BY <2>1
<1>7. PICK q \in Seq(STRING) : q = SubSeq(r, n + 1, Len(r)) /\ Len(q) = l - n
  <2>1. SubSeq(r, n + 1, Len(r)) \in Seq(STRING) /\ Len(SubSeq(r, n + 1, Len(r))) = Len(r) - n
    BY <1>4, <1>5, PartOf
  <2> QED BY <1>4, <2>1
<1>8. rx' = q /\ rx' \in Seq(STRING) /\ mark' \in 0 .. Len(rx')
  <2>1. rx' = q
    BY <1>1, <1>3, <1>7
  <2>2. mark' \in 0 .. l - n
    BY <1>1, <1>4, <1>5
  <2> QED BY <1>7, <2>1, <2>2
<1>9. ASSUME said < scenario.granted, Waiting,
             Heard(scenario)[said] \in Nat,
             Heard(scenario)[said] < Shortest[client.proxy.kind]
      PROVE  /\ Asking(client') /\ client'.proxy.kind = client.proxy.kind
             /\ tx' \in Seq(Requests)
             /\ Taken(client') + Len(rx') <= Heard(scenario)[said]
  <2>1. PICK d : d = client
    OBVIOUS
  <2>2. Asking(d)
    BY <1>9, <2>1 DEF Waiting
  <2>3. Taken(d) + l <= Heard(scenario)[said]
    BY <1>3, <1>4, <1>9, <2>1 DEF Waiting
  <2>4. PICK t \in Nat : t = Taken(d)
    BY <2>2, TakenFacts
  <2>5. PICK h \in Nat : h = Heard(scenario)[said]
    BY <1>9
  <2>6. PICK z \in Nat : z = Shortest[d.proxy.kind]
    BY <2>2 DEF Asking, Negotiating, Shortest
  <2>7. t + l <= h /\ h < z
    BY <1>9, <2>1, <2>3, <2>4, <2>5, <2>6
  <2>8. z > 1 /\ t + n < z
    BY <1>4, <1>5, <2>7
  <2>9. d.proxy.kind \in {"socks4", "socks5"}
    BY <2>2, <2>6, <2>8, OnlySocks
  <2>10. PICK u : u = (mark > 1)
    OBVIOUS
  <2>11. PICK e : e = plug_proxy_receive(d, u, b)
    OBVIOUS
  <2>12. Taken(d) + Len(b) < Shortest[d.proxy.kind]
    BY <1>6, <2>4, <2>6, <2>8
  <2>13. StillAsking(e, d, Taken(d) + Len(b))
    BY <2>2, <2>9, <2>11, <2>12, ReceiveKeeps
  <2>14. client' = e
    BY <1>1, <1>3, <1>6, <2>1, <2>10, <2>11
  <2>15. Asking(e) /\ e.proxy.kind = d.proxy.kind /\ Taken(e) <= t + n
    BY <1>6, <2>4, <2>13 DEF StillAsking
  <2>16. PICK v \in Nat : v = Taken(e)
    BY <2>15, TakenFacts
  <2>17. v + (l - n) <= h
    BY <1>4, <1>5, <2>7, <2>15, <2>16
  <2>18. tx' \in Seq(Requests)
    BY <1>2, <1>9 DEF Waiting
  <2> QED BY <1>7, <1>8, <2>1, <2>5, <2>14, <2>15, <2>16, <2>17, <2>18
<1> QED BY <1>2, <1>8, <1>9, Kept

(* FD_CLOSE comes when everything has been said. *)
LEMMA CloseGrant ==
    ASSUME GrantInv, Close
    PROVE  GrantInv'
<1>1. /\ said = Len(scenario.items) /\ said' = said /\ scenario' = scenario
      /\ rx' = <<>> /\ mark' = 0
  BY DEF Close
<1>2. Scripted(scenario) /\ said \in 0 .. Len(scenario.items) /\ scenario \in Scenarios
  BY ScenarioFacts DEF GrantInv
<1>3. ~(said < scenario.granted)
  BY <1>1, <1>2 DEF Scripted
<1>4. rx' \in Seq(STRING) /\ mark' \in 0 .. Len(rx')
  <2>1. <<>> \in Seq(STRING) /\ Len(<<>>) = 0
    OBVIOUS
  <2> QED BY <1>1, <2>1
<1> QED BY <1>1, <1>2, <1>3, <1>4 DEF GrantInv

(* The connection is given up. *)
LEMMA GivenUpGrant ==
    ASSUME GrantInv, client' = plug_closing(client), UNCHANGED <<scenario, rx, mark, said, tx>>
    PROVE  GrantInv'
<1>1. ASSUME said < scenario.granted, Waiting
      PROVE  /\ Asking(client') /\ client'.proxy.kind = client.proxy.kind
             /\ client'.proxy.state = client.proxy.state
             /\ client'.proxy.input = client.proxy.input
             /\ tx' \in Seq(Requests)
  <2>1. PICK d : d = client
    OBVIOUS
  <2>2. Asking(d) /\ tx' \in Seq(Requests)
    BY <1>1, <2>1 DEF Waiting
  <2>3. Asking(plug_closing(d)) /\ plug_closing(d).proxy = d.proxy
    <3>1. 0 \in 0 .. Len(d.proxy.input)
      BY <2>2, TakenFacts
    <3> QED BY <2>2, <3>1, ProxyFacts
  <2> QED BY <2>1, <2>2, <2>3
<1> QED BY <1>1, KeptUnread

(* The user's keys. *)
LEMMA TypedGrant ==
    ASSUME GrantInv, Type \/ Synch
    PROVE  GrantInv'
<1>1. UNCHANGED <<scenario, rx, mark, said, tx>>
  BY DEF Type, Synch
<1>2. ASSUME said < scenario.granted, Waiting
      PROVE  /\ Asking(client') /\ client'.proxy.kind = client.proxy.kind
             /\ client'.proxy.state = client.proxy.state
             /\ client'.proxy.input = client.proxy.input
             /\ tx' \in Seq(Requests)
  <2>1. PICK d : d = client
    OBVIOUS
  <2>2. Asking(d) /\ d.telnet = Fresh /\ tx' \in Seq(Requests)
    BY <1>1, <1>2, <2>1 DEF Waiting, Asking
  <2>3. \E s \in Seq(Items) : client' = Written([d EXCEPT !.telnet = Writing(s)])
    <3>1. CASE Type
      <4>1. PICK key \in Keys : client' = Written([d EXCEPT !.telnet = telnet_send(Fresh, key)])
        BY <2>1, <2>2, <3>1 DEF Type
      <4> QED BY <4>1, TypedIs
    <3>2. CASE Synch
      <4>1. client' = Written([d EXCEPT !.telnet = telnet_special(Fresh, "SYNCH")])
        BY <2>1, <2>2, <3>2 DEF Synch
      <4> QED BY <4>1, SynchIs
    <3> QED BY <3>1, <3>2
  <2>4. PICK s \in Seq(Items) : client' = Written([d EXCEPT !.telnet = Writing(s)])
    BY <2>3
  <2>5. Held(client', d)
    BY <2>2, <2>4, WrittenHeld
  <2> QED BY <2>1, <2>2, <2>5 DEF Held
<1> QED BY <1>1, <1>2, KeptUnread

(* The peer reads a request. *)
LEMMA PeerReadsGrant ==
    ASSUME GrantInv, PeerReads
    PROVE  GrantInv'
<1>0. PICK f : f = [client.sock EXCEPT !.wire = Tail(client.sock.wire)]
  OBVIOUS
<1>1. /\ client' = [client EXCEPT !.sock = f] /\ UNCHANGED <<scenario, rx, mark, said>>
      /\ tx' = Append(tx, Head(client.sock.wire)) /\ client.sock.wire # <<>>
  BY <1>0 DEF PeerReads, Sock
<1>2. ASSUME Waiting PROVE Bounded(f, Requests) /\ tx' \in Seq(Requests)
  <2>1. PICK w \in Seq(Requests) : w = client.sock.wire
    BY <1>2, WaitingSock DEF Sockets
  <2>2. Tail(w) \in Seq(Requests) /\ Len(Tail(w)) = Len(w) - 1 /\ Head(w) \in Requests
    BY <1>1, <2>1
  <2>3. PICK z \in Seq(Requests) : z = Tail(w) /\ Len(z) = Len(w) - 1
    BY <2>2
  <2>4. Len(z) <= SendRoom
    BY <1>2, <2>1, <2>3, WaitingSock, SendRoomAssumption
  <2>5. f = [client.sock EXCEPT !.wire = z]
    BY <1>0, <2>1, <2>3
  <2>6. Bounded(f, Requests)
    BY <1>2, <2>4, <2>5, WaitingSock DEF Bounded, Sockets
  <2>7. tx' \in Seq(Requests)
    BY <1>1, <1>2, <2>1, <2>2, WaitingSock
  <2> QED BY <2>6, <2>7
<1>3. Waiting => Bounded(f, Requests) /\ tx' \in Seq(Requests)
  BY <1>2
<1> QED BY <1>1, <1>3, KeptSocket

(* The peer resets the connection. *)
LEMMA PeerResetsGrant ==
    ASSUME GrantInv, PeerResets
    PROVE  GrantInv'
<1>0. PICK e : e = <<>>
  OBVIOUS
<1>1. PICK f : f = [client.sock EXCEPT !.reset = TRUE, !.wire = e]
  OBVIOUS
<1>2. /\ client' = [client EXCEPT !.sock = f] /\ UNCHANGED <<scenario, said, tx>>
      /\ rx' = e /\ mark' = 0
  BY <1>0, <1>1 DEF PeerResets, Sock
<1>3. /\ e \in Seq(Requests) /\ e \in Seq(STRING) /\ Len(e) = 0
  <2>1. <<>> \in Seq(Requests) /\ <<>> \in Seq(STRING) /\ Len(<<>>) = 0
    OBVIOUS
  <2> QED BY <1>0, <2>1
<1>4. rx' \in Seq(STRING) /\ mark' \in 0 .. Len(rx')
  BY <1>2, <1>3
<1>5. ASSUME said < scenario.granted, Waiting,
             Heard(scenario)[said] \in Nat,
             Heard(scenario)[said] < Shortest[client.proxy.kind]
      PROVE  /\ Asking(client') /\ client'.proxy.kind = client.proxy.kind
             /\ tx' \in Seq(Requests)
             /\ Taken(client') + Len(rx') <= Heard(scenario)[said]
  <2>1. PICK d : d = client
    OBVIOUS
  <2>2. Asking(d) /\ Bounded(d.sock, Requests) /\ tx' \in Seq(Requests)
    BY <1>2, <1>5, <2>1 DEF Waiting, Asking
  <2>3. Bounded(f, Requests)
    <3>1. PICK g : g = [d.sock EXCEPT !.reset = TRUE]
      OBVIOUS
    <3>2. Bounded(g, Requests)
      BY <2>2, <3>1 DEF Bounded, Sockets
    <3>3. f = [g EXCEPT !.wire = e]
      BY <1>1, <2>1, <3>1
    <3>4. e \in Seq(Requests) /\ Len(e) <= SendRoom
      BY <1>3, SendRoomAssumption
    <3> QED BY <3>2, <3>3, <3>4 DEF Bounded, Sockets
  <2>4. PICK g : g = [d EXCEPT !.sock = f]
    OBVIOUS
  <2>5. d.proxy \in Negotiating /\ (d.proxy.kind = "socks5" => d.proxy.state # "2")
    BY <2>2 DEF Asking
  <2>6. Asking(g) /\ g.proxy = d.proxy
    BY <2>2, <2>3, <2>4, <2>5, AskingParts
  <2>7. Taken(g) = Taken(d) /\ Taken(d) \in Nat
    BY <2>2, <2>6, TakenFacts DEF Taken, Used
  <2>8. Taken(d) + Len(rx) <= Heard(scenario)[said] /\ Len(rx) \in Nat
    BY <1>5, <2>1 DEF Waiting, GrantInv
  <2>9. Taken(g) + 0 <= Heard(scenario)[said]
    BY <1>5, <2>7, <2>8
  <2> QED BY <1>2, <1>3, <2>1, <2>2, <2>4, <2>6, <2>9
<1> QED BY <1>2, <1>4, <1>5, Kept

(* The peer says its next item. *)
LEMMA PeerSaysGrant ==
    ASSUME GrantInv, PeerSays
    PROVE  GrantInv'
<1>1. /\ said < Len(scenario.items) /\ said' = said + 1 /\ UNCHANGED <<scenario, client, tx>>
      /\ rx' = rx \o scenario.items[said + 1].bytes /\ mark' \in {0, Len(rx')}
  BY DEF PeerSays
<1>2. /\ Scripted(scenario) /\ Sums(Heard(scenario), scenario, Len(scenario.items))
      /\ scenario \in Scenarios /\ said \in 0 .. Len(scenario.items)
  BY ScenarioFacts DEF GrantInv
<1>3. Len(scenario.items) \in Nat /\ said + 1 \in 1 .. Len(scenario.items)
  BY <1>1, <1>2 DEF Scripted
<1>4. PICK b \in Seq(STRING) : b = scenario.items[said + 1].bytes
  BY <1>2, <1>3 DEF Scripted
<1>5. PICK r \in Seq(STRING) : r = rx
  BY DEF GrantInv
<1>6. rx' \in Seq(STRING) /\ Len(rx') = Len(r) + Len(b) /\ mark' \in 0 .. Len(rx')
  BY <1>1, <1>4, <1>5
<1>7. ASSUME said + 1 < scenario.granted PROVE Waiting'
  <2>1. Waiting
    BY <1>2, <1>7 DEF GrantInv, Scripted
  <2>2. PICK t \in Nat : t = Taken(client)
    BY <2>1, TakenFacts DEF Waiting
  <2>3. PICK h \in Nat : h = Heard(scenario)[said]
    BY <1>2 DEF Sums
  <2>4. PICK x \in Nat : x = Len(r)
    OBVIOUS
  <2>5. PICK y \in Nat : y = Len(b)
    OBVIOUS
  <2>6. Heard(scenario)[said + 1] = h + y
    <3>1. said + 1 - 1 = said
      BY <1>2
    <3> QED BY <1>2, <1>3, <1>4, <2>3, <2>5, <3>1 DEF Sums
  <2>7. t + x <= h
    BY <1>5, <2>1, <2>2, <2>3, <2>4 DEF Waiting
  <2>8. t + (x + y) <= h + y
    BY <2>7
  <2>9. Taken(client') + Len(rx') <= Heard(scenario)[said']
    BY <1>1, <1>6, <2>2, <2>4, <2>5, <2>6, <2>8
  <2> QED BY <1>1, <2>1, <2>9 DEF Waiting
<1> QED BY <1>1, <1>2, <1>3, <1>6, <1>7 DEF GrantInv

(* A step keeps it. *)
LEMMA NextGrant ==
    ASSUME GrantInv, [Next]_vars
    PROVE  GrantInv'
<1>1. CASE Next
  <2>1. CASE CloseReset \/ PendingError
    BY <2>1, GivenUpGrant DEF CloseReset, PendingError
  <2> QED BY <1>1, <2>1, ConnectGrant, ConnectFailsGrant, ReceiveGrant, WritableGrant,
             CloseGrant, TypedGrant, PeerReadsGrant, PeerSaysGrant, PeerResetsGrant
             DEF Next
<1>2. CASE UNCHANGED vars
  BY <1>2 DEF vars, GrantInv, Waiting
<1> QED BY <1>1, <1>2

(* It gives the property. *)
LEMMA GrantInvGives ==
    ASSUME GrantInv
    PROVE  NothingBeforeGrant
<1>1. SUFFICES ASSUME NEW unit \in Range(tx) \union Range(Sock.wire),
                      ~(said >= scenario.granted)
               PROVE  "request" \in DOMAIN unit
  BY DEF NothingBeforeGrant
<1>2. said < scenario.granted
  BY <1>1, ScenarioFacts DEF GrantInv, Scripted
<1>3. tx \in Seq(Requests) /\ Sock.wire \in Seq(Requests)
  BY <1>2, WaitingSock DEF GrantInv, Sock, Sockets
<1>4. unit \in Requests
  BY <1>1, <1>3 DEF Range
<1> QED BY <1>4 DEF Requests

(* Nothing of the session reaches the wire before the proxy has opened the way
   (proxy_activate, sk_proxy_write), in every scenario. *)
THEOREM GrantComesFirst == Spec => []NothingBeforeGrant
<1>1. Init => GrantInv
  BY InitGrant
<1>2. GrantInv /\ [Next]_vars => GrantInv'
  BY NextGrant
<1>3. GrantInv => NothingBeforeGrant
  BY GrantInvGives
<1> QED BY <1>1, <1>2, <1>3, PTL DEF Spec

=============================================================================
